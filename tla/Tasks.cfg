SPECIFICATION Spec
CONSTANTS
  MAX_TASK_NUM = 4
  MaxPid = 5
INVARIANTS
  TopCountsRunnable
  HartRunsLiveTask
  ProcessTree
  UniquePids
  WaitsForChild
PROPERTIES
  Lifecycle
\* the kernel stops for good when it panics
CHECK_DEADLOCK FALSE
