SPECIFICATION Spec
CONSTANTS
  Header = 2
  Alignment = 2
  PageSize = 8
  MemSize = 32
  FixedFallback = TRUE
  Requests = {1, 4, 8}
INVARIANTS
  FreeListInv
  Coalesced
PROPERTIES
  ImplementsAllocator
