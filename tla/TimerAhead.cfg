SPECIFICATION Spec
CONSTANTS
  Match = 3
  Fallback = 4
  CounterModulus = 40
  Boots = {0, 2}
  MaxCounter = 44
INVARIANTS
  TimerInv
  JiffiesNeverAhead
CHECK_DEADLOCK FALSE
