SPECIFICATION FairSpec
CONSTANTS
  Harts = {0, 1, 2}
  Domains <- BoardDomains
  JumpAddr = "0x0"
  StartAddrs = {"a1"}
  Callers = {0, 1}
  Pace = "first"
INVARIANTS OneColdBootHart EntersWhereAsked NoHang StateIsTrue
PROPERTY NoWakeUpLost
\* harts may stay stopped, or in supervisor mode
CHECK_DEADLOCK FALSE
