SPECIFICATION TrapSpec
CONSTANTS
  MAX_TASK_NUM = 3
  MaxPid = 2
  Data = {10}
INVARIANTS
  KernelEntry
  HandlerFindsItsContext
PROPERTIES
  KernelKeepsRegisters
  ForkReturnsTwice
\* the kernel stops for good when it panics
CHECK_DEADLOCK FALSE
