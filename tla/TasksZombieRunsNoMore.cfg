SPECIFICATION Spec
CONSTANTS
  MAX_TASK_NUM = 4
  MaxPid = 3
INVARIANT
  ZombieRunsNoMore
\* the kernel stops for good when it panics
CHECK_DEADLOCK FALSE
