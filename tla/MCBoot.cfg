SPECIFICATION Spec
CONSTANTS
  Entries = 13
  High = 3
  Entry = 0
  Kernel = 1
  Video = 2
  BootDir = 3
  BootTable = 4
  KernelDir = 5
  Top = 9
  Depth = 3
  HeapPages = {10, 11}
  Regions = {3, 7, 8, 11}
  MappedPages = {0, 12}
  Frames = {2, 12}
  Buses <- BusesValue
  MapBuses <- MapBusesValue
  MaxMaps = 3
INVARIANTS IInv RegistersTheDrives
PROPERTIES MapPageContract BootEnds
