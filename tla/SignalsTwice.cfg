CONSTANTS
  None = None
  Connectors = {"k1"}
  Observers = {"k1"}
  Emitters = {"e1"}
  MaxObservers = 2
  CountRange = 8
  Twice = TRUE
  MaxConnects = 2
  MaxEmits = 1
SPECIFICATION Spec
CHECK_DEADLOCK FALSE
INVARIANT EmitReachesObservers
