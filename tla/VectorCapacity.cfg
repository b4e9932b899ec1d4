SPECIFICATION VectorSpec
CONSTANTS
  Value = {a, b}
  Destroyed = destroyed
  EntrySizes = {1, 3}
  MinCapacity = 2
  PageSize = 4
  Slack = {0, 1}
  MaxEntries <- EntriesInUse
INVARIANTS
  CapacityIsInEntries
