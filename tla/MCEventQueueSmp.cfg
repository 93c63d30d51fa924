CONSTANTS
  p1 = p1
  p2 = p2
  s1 = s1
  o1 = o1
  None = None
  Producers <- TwoProducers
  Strangers <- Nobody
  Owner = o1
  Capacity = 2
  CountRange = 8
  Atomic <- Nobody
  Modes <- BothModes
  MaxAdds = 2
  MaxDirect = 1
SPECIFICATION Spec
CHECK_DEADLOCK FALSE
INVARIANT TypeOK
INVARIANT AtMostOnce
SYMMETRY ProducersAreAlike
