CONSTANTS
  NoState = NoState
  Command <- MCCommand
  Function <- MCFunction
  Programs <- LimitsPrograms
  Node <- LimitsNode
  Outcomes <- MCOutcomes
  Delegate <- MCDelegate
  MaxExecutionSteps = 6
  MayCancel = TRUE
SPECIFICATION FairSpec
INVARIANTS CallsPaid OneLateCall EndingsExplained NilMeansExplored
PROPERTIES NoCallAfterStop Terminates
