SPECIFICATION Spec
CONSTANTS
  max_depth = 5
  WordBits = 4
  SizeModulus = 32
  c_slabs_per_page = 2
  PageSize = 8
  NodeCost = 2
  SplitCost = 8
  c_required_runway = 12
  c_required_runway_in_pages = 2
  Memory <- MCMemory
  ScratchPages = 6
  MaxSlabs = 4
  Sizes = {2, 3}
  Alignments = {1, 2}
  Reservations <- MCReservations
INVARIANTS
  PagesInv
  ReturnsWhatIsAsked
PROPERTIES
  PagesStay
