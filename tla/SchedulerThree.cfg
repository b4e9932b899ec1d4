SPECIFICATION MCSpec
CONSTANTS
  shell = shell
  other = other
  spin = spin
  InitialTasks <- ThreeTasks
  SpinTask = spin
  IoTasks = {shell}
  SysHz = 2
  JiffiesModulus = 5
  TickSizes = {1, 2}
  SleepSecs = {0, 1}
INVARIANTS
  SchedulerInv
  NoStarvation
PROPERTIES
  SleepIsNotCutShort
  CpuTimeGoesToRunningTask
