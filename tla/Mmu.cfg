SPECIFICATION MmuSpec
CONSTANTS
  max_depth = 12
  WordBits = 16
  SizeModulus = 65536
  c_slabs_per_page = 16
  PageSize = 256
  NodeCost = 1
  SplitCost = 16
  c_required_runway = 32
  c_required_runway_in_pages = 4
  SectionPages = 16
  L1Entries = 32
  VirtualPages = 2048
  PhysicalPages = 128
  DeviceRegion <- MCDevices
  CodeSections = {1, 2, 3, 4}
  TablesPerPage = 1
  MaxSlabs = 16
  CallSizes = {1, 5, 16, 64}
  Reserved <- MCReserved
  MaxCalls = 5
INVARIANTS
  MmuInv
  BootIsIdentity
  HandedIsMapped
  HandedApart
PROPERTIES
  TranslationsStay
CHECK_DEADLOCK FALSE
