SPECIFICATION HeapSpec
CONSTANTS
  Header = 2
  Alignment = 2
  PageSize = 8
  MemSize = 32
  FixedFallback = FALSE
  Requests = {1, 12}
  Formats <- MCFormats
  NoFreeSpace <- MCNoFreeSpace
  Growth = 1
INVARIANTS
  UserHeapInv
  PrintsInItsBlock
CHECK_DEADLOCK FALSE
