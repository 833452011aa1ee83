SPECIFICATION Spec
CONSTANTS
  E = 4
  PAGE_SIZE = 2
  Start = 22
  End = 40
  MAX_SIZE = 4
  KERNBASE = 36
  ETexts = {40, 42, 44}
  MAX_TASK_NUM = 3
  Align = 4
  Names = {1, 2}
  Files <- MCFiles
INVARIANTS KernelMap LoadsTheFile StackSeparated
\* the kernel stops for good when it panics
CHECK_DEADLOCK FALSE
