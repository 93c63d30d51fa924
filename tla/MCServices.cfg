CONSTANTS
  Threads = {"t1", "d1"}
  Deletable = {"d1"}
  MaxPending = 3
  Ports = {"Linux", "Darwin", "Esp", "Cc32xx", "Tm4c"}
  Creators = {"k1", "k2"}
  ThreadNames = {"n1", "n2"}
  NoName = "none"
  MaxThreads = 2
  Careful = TRUE
  SemaphoreNames = {"n1"}
  Takers = {"w1", "w2"}
  Initial = 1
  Maximum = 1
  MaxObjects = 2
  Overlap = FALSE
  MaxHandles = 2
  MaxIds = 3
  Wrap = 32
  Rate = 2
  Milli = 2
  Durations = {0, 3, 7, 31}
  MaxTime = 40
  MaxIdleCalls = 6
  FilePorts = {"Linux", "Darwin", "Spiffs", "KeyValue", "Cc32xx"}
  Paths = {"p1"}
  NoPath = "none"
  Files = {"f1", "f2"}
  Modes = {"ReadOnly", "WriteOnlyAppend", "ReadWriteNew", "ReadWriteAppend"}
  PathKey <- OnePathKey
  Faults = {"open", "size", "flush", "close", "delete"}
  MaxChunks = 2
  PoolUsers = {"IpClient", "FileSystem"}
  Callers = {"c1"}
  Blocks = 2
  Capacity = 2
  MaxCalls = 4
  Connectors = {"k1"}
  Observers = {"k1", "k2"}
  Emitters = {"e1", "e2"}
  MaxObservers = 2
  CountRange = 8
  Twice = FALSE
  MaxConnects = 3
  MaxEmits = 2
  None = None
SPECIFICATION PartSpec
CHECK_DEADLOCK FALSE
INVARIANT AllTypesOK
INVARIANT PeekedStaysPending
INVARIANT ThreadsAreTracked
INVARIANT SemaphoresAreUnits
INVARIANT TimersAreOwn
INVARIANT ClockErrsOneWay
INVARIANT FilesMatchMedia
INVARIANT BlocksAreHeldOnce
INVARIANT SignalsAreExact
PROPERTY ImplementsPermit
