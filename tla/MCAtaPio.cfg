SPECIFICATION Spec
CONSTANTS
  Byte = 4
  Nibble = 2
  SectorsPerTrack = 3
  Heads = 2
  Lbas <- LbasValue
  Counts <- CountsValue
INVARIANTS
  IInv
  ReadsAreRight
  WritesKept
PROPERTY CallsReturn
