CONSTANTS
  None = None
  Producers = {"p1", "p2"}
  Strangers = {}
  Owner = "o1"
  Capacity = 2
  CountRange = 8
  Atomic = {"p1", "p2", "o1"}
  Modes = {"Polling", "Blocking"}
  MaxAdds = 3
  MaxDirect = 0
  Adders = {"p1"}
  Getters = {"c1", "c2"}
  CommandCapacity = 3
  CommandRoom = 2
  CommandAdds = 4
SPECIFICATION PartSpec
CHECK_DEADLOCK FALSE
INVARIANT NobodyOversleeps
INVARIANT ConsumersDoNotOversleep
PROPERTY EveryAcceptedIsServed
