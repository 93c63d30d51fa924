CONSTANTS
  Threads = {"t1", "t2", "d1"}
  Deletable = {"d1"}
  MaxPending = 3
SPECIFICATION Spec
INVARIANT TypeOK
INVARIANT NoSleepOnPending
INVARIANT CountTellsSleep
PROPERTY ImplementsPermit
