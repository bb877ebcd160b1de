CONSTANTS
  Path <- MCPath
  Device <- null
  PathBytes <- MCPathBytes
  Chunk <- MCChunk
  Content <- MCContent
  EntryBytes = 1
  MaximumBytes = 14
  Programs <- LostPrograms
  Outputs <- MCOutputs
  Steps = {1, 2, 3, 9}
  NoPath <- MCNoPath
SPECIFICATION Spec
CHECK_DEADLOCK FALSE
INVARIANT NoOutcomeLost
