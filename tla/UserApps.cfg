SPECIFICATION AppSpec
CONSTANTS
  MAX_TASK_NUM = 4
  MaxPid = 7
  Rounds = 2
  Commands = {"time", "print", "user_shell", "atest", "unknown"}
INVARIANTS
  PanicsOnlyOnBadName
  AppsBelowTop
  OneReader
  RecycleHasChild
PROPERTIES
  ShellReturns
\* the kernel stops for good when it panics
CHECK_DEADLOCK FALSE
