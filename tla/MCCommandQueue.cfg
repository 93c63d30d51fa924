CONSTANTS
  p1 = p1
  p2 = p2
  c1 = c1
  None = None
  Producers <- TwoProducers
  Consumers <- OneConsumer
  Capacity = 3
  CountRange = 8
  Atomic <- TwoProducers
  Room = 3
  MaxAdds = 3
SPECIFICATION Spec
CHECK_DEADLOCK FALSE
INVARIANT CommandRingIsExact
PROPERTY ImplementsFifo
SYMMETRY ProducersAreAlike
