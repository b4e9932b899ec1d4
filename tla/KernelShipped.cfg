SPECIFICATION FairSpec
CONSTANTS
  shell = shell
  spin = spin
  InitialTasks <- ShippedTasks
  SpinTask = spin
  SysHz = 1
  JiffiesModulus = 3
  TickSizes = {1}
  SleepSecs = {1}
  UartTasks = {shell}
  NoBuffer = NoBuffer
  RequestSizes = {1, 2}
  Chars = {x, Break}
  Break = Break
  FifoDepth = 2
  RxTrigger = 2
  TxTrigger = 1
INVARIANTS
  KernelInv
  WaiterIsServed
PROPERTIES
  FinishedIoWakesTask
  ImplementsScheduler
  ImplementsUart
  WriteReturns
  ReadReturns
