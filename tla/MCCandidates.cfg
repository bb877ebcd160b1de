SPECIFICATION Spec
CONSTANTS
  Node <- MCNode
  Name <- MCName
  NoNode <- MCNoNode
  NoName = "nothing"
  Parent <- MCParent
  Call <- MCCall
  Declares <- MCDeclares
  Unnamed = ""
  NotCall = "none"
  Files <- MCFiles
  SourceBytes <- MCSource
  Controls = {"break"}
  Commands <- MCCommands
  EntryBytes = 1
  Maximum = 18
  MaxFiles = 4
CHECK_DEADLOCK FALSE
INVARIANT CandidatesExact
