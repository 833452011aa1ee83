SPECIFICATION FairSpec
CONSTANTS
  MAX_TASK_NUM = 4
  MaxPid = 3
PROPERTY
  RecycleGivesWay
\* the kernel stops for good when it panics
CHECK_DEADLOCK FALSE
