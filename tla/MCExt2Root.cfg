\* Is the system file missing when the kernel says so?
SPECIFICATION Spec
CONSTANTS
  Images <- ImagesValue
  Devices <- DevicesValue
  Codes = {0, 19}
  Paths <- PathsValue
  Rest <- RestValue
  Length <- LengthValue
  Heaps = {4, 7, 15}
  InodesInGroup = 4
  InodesInUnit = 1
  GroupsInUnit = 1
  UnitSlots = 3
  PageUnits = 3
  MappedUnits = 4
  JunkInodes <- JunkInodesValue
  JunkBlocks <- JunkBlocksValue
  JunkEntries <- JunkEntriesValue
INVARIANT MissingMeansMissing
