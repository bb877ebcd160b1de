CONSTANTS
  NoState = NoState
  Command <- MCCommand
  Function <- MCFunction
  Programs <- PathsPrograms
  Node <- PathsNode
  Outcomes <- MCOutcomes
  Delegate <- MCDelegate
  MaxExecutionSteps = 40
  MayCancel = FALSE
SPECIFICATION FairSpec
INVARIANTS ScopesBalanced SignalsScoped ErrTrapNotReentered ExactPaths FailuresNotDropped
PROPERTY OutcomesToldApart
