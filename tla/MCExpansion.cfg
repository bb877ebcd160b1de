CONSTANTS
  EntryBytes = 1
  NameBytes <- MCNameBytes
  Maximum = 12
  Width = 4
  Parsed <- MCParsed
  HostNames <- MCHostNames
  Rematch <- MCRematch
  Commands <- MCCommands
  Outputs <- MCOutputs
SPECIFICATION Spec
CHECK_DEADLOCK FALSE
INVARIANTS
  EffectsOnce
  KnownIsRight
  NumbersExact
  SliceInside
  BracesCounted
