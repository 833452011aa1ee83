SPECIFICATION FairSpecNoExit
CONSTANTS
  MAX_TASK_NUM = 4
  MaxPid = 3
INVARIANTS
  RunnableBelowTop
PROPERTIES
  EveryTaskRuns
\* the kernel stops for good when it panics
CHECK_DEADLOCK FALSE
