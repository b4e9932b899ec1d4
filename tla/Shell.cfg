SPECIFICATION ShellSpec
CONSTANTS
  shell = shell
  Tasks = {shell, other}
  RefModulus = 3
  MaxFiles = 8
  MaxFds = 7
  CloseShared = FALSE
  BufSize = 3
  Message = 2
  OtherFds = 2
INVARIANTS
  FilesInv
  StdioIsUart
  FailsOnlyWithoutMemory
PROPERTIES
  DescriptorsAreStable
  ZeroIsInBuffer
CHECK_DEADLOCK FALSE
