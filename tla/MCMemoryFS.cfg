CONSTANTS
  s1 = s1
  s2 = s2
  c = c
  Slot <- MCSlot
  Addr <- MCAddr
  Free = Free
  Path <- MCPath
  Device <- MCDevice
  PathBytes <- MCPathBytes
  Chunk <- MCChunk
  Content <- MCContent
  EntryBytes = 1
  MaximumBytes = 10
SPECIFICATION Spec
SYMMETRY Slots
INVARIANTS TreeShape BytesExact Answers
PROPERTIES Implements FilesStay
