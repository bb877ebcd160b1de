CONSTANTS
  s1 = s1
  s2 = s2
  s3 = s3
  x = x
  v1 = v1
  Slot <- MCSlot
  Name <- MCName
  Value <- MCValue
  Exported <- MCExported
  Absent = Absent
  Unsaved = Unsaved
  Addr <- MCAddr
  Free = Free
  EntryBytes = 2
  Size <- MCSize
  MaxWrites = 4
SPECIFICATION Spec
SYMMETRY Slots
INVARIANTS SharedMarked BytesExact
PROPERTY Isolated
