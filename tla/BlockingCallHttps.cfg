CONSTANTS
  Callers = {"c1"}
  Server = "s"
  Capacity = 2
  FlagFirst = FALSE
  Atomic = {}
  MaxCalls = 1
  StrayAt = {"idle", "test", "block", "asleep"}
  MaxStrays = 0
SPECIFICATION FairSpec
CHECK_DEADLOCK FALSE
PROPERTY EveryCallReturns
