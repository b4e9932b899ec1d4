SPECIFICATION Spec
CONSTANTS
  Users = {shell, other}
  Kernels = {spin}
  UserPcs = {main, loop}
  UserLrs = {caller}
INVARIANTS
  ExceptionsInv
  UserContextKept
  CallsComeBack
CHECK_DEADLOCK FALSE
