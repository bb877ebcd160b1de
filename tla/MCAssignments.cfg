CONSTANTS
  EntryBytes = 2
  NameBytes <- MCNameBytes
  Maximum = 30
  Name <- MCName
  InitialVars <- MCInitialVars
  InitialTruth <- MCInitialTruth
  Lists <- MCLists
  Targets <- MCTargets
  Texts <- MCTexts
  MaxStatements = 3
  MaxFrames = 4
SPECIFICATION Spec
CHECK_DEADLOCK FALSE
INVARIANTS
  BudgetExact
  KnownIsRight
PROPERTIES
  TemporariesEnd
  PrintfUndone
