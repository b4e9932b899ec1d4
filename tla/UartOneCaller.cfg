SPECIFICATION MCSpec
CONSTANTS
  Callers = {shell}
  NoBuffer = NoBuffer
  RequestSizes = {1, 2, 3}
  Chars = {x, y, Break}
  Break = Break
  FifoDepth = 3
  RxTrigger = 1
  TxTrigger = 1
  MaxTyped = 5
INVARIANTS
  UartInv
  IrqMakesProgress
  InputInOrder
CHECK_DEADLOCK FALSE
