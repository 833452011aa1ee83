SPECIFICATION MemSpec
CONSTANTS
  MAX_TASK_NUM = 3
  MaxPid = 2
  E = 2
  Start = 1
  End = 36
  MAX_SIZE = 40
  Values = {7}
  Buffers = {0, 3}
  MaxExec = 1
INVARIANTS
  FramesExclusive
  NoLeak
  TrapPages
  NoMemoryAssert
PROPERTY
  ImplementsProcessMemory
\* The kernel stops for good when it panics.
CHECK_DEADLOCK FALSE
