CONSTANTS
  NoState = NoState
  Command <- MCCommand
  Function <- MCFunction
  Programs <- BreakPrograms
  Node <- BreakNode
  Outcomes <- MCOutcomes
  Delegate <- MCDelegate
  MaxExecutionSteps = 40
  MayCancel = FALSE
SPECIFICATION FairSpec
INVARIANT NoStrayBreak
