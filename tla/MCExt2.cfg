SPECIFICATION Spec
CONSTANTS
  Images <- ImagesValue
  Devices <- DevicesValue
  Codes = {0, 19}
  Paths <- PathsValue
  Rest <- RestValue
  Length <- LengthValue
  Heaps = {4, 7, 15}
  InodesInGroup = 4
  InodesInUnit = 1
  GroupsInUnit = 1
  UnitSlots = 3
  PageUnits = 3
  MappedUnits = 4
  JunkInodes <- JunkInodesValue
  JunkBlocks <- JunkBlocksValue
  JunkEntries <- JunkEntriesValue
INVARIANTS IInv OnTheWay FindsTheFile OnlyListedFound
PROPERTY InitEnds
