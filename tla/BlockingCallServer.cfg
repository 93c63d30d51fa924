CONSTANTS
  Callers = {"c1", "c2"}
  Server = "s"
  Capacity = 1
  FlagFirst = TRUE
  Atomic = {"s"}
  MaxCalls = 3
  StrayAt = {"idle", "test", "block"}
  MaxStrays = 1
SPECIFICATION FairSpec
CHECK_DEADLOCK FALSE
INVARIANT FramesAlive
PROPERTY ImplementsCall
PROPERTY EveryCallReturns
