SPECIFICATION Spec
CONSTANTS
  Start = 3
  End = 8
  MAX_SIZE = 3
INVARIANTS
  Partition
  LostOnlyPastCapacity
PROPERTIES
  ImplementsPool
\* the kernel stops for good when it panics
CHECK_DEADLOCK FALSE
