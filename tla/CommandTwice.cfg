CONSTANTS
  None = None
  Producers = {"p1"}
  Consumers = {"c1"}
  Capacity = 3
  CountRange = 8
  Atomic = {"p1"}
  Room = 3
  MaxAdds = 3
SPECIFICATION Spec
CHECK_DEADLOCK FALSE
INVARIANT NothingIsReturnedTwice
