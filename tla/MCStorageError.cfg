\* Both drives may fail an access.
SPECIFICATION Spec
CONSTANTS
  hdd = hdd
  cdrom = cdrom
  Devices = {hdd, cdrom}
  Type <- TypeOf
  Size <- SizeOf
  Media <- MediaOf
  Data <- Contained
  Requests <- Asked
  Faulty = {hdd, cdrom}
  SectorBytes = 2
  IntModulus = 64
  BlockUnits = 4
  HeapBlocks = 3
  Zeros <- Blank512
  Untouched = Untouched
INVARIANTS CodeTellsOutcome
