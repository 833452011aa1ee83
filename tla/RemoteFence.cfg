SPECIFICATION FairSpec
CONSTANTS
  Harts = {0, 1, 2}
  FifoSize = 1
  PageSize = 2
  Space = 8
  FlushLimit = 4
  Asids = {0, 1}
  Calls <- CrossCalls
  Stopping = {1}
INVARIANTS FencedOnReturn NoneTooMany NoEntryForgotten
PROPERTY EveryRequestReturns
