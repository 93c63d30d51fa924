CONSTANTS
  SocketPorts = {"Linux", "Darwin", "Esp", "Cc32xx"}
  Clients = {"c1"}
  LastDescriptor = 2
  MaxEvents = 1
  MaxConnected = 2
  Habits = {}
  WifiPorts = {"Esp", "Cc32xx"}
  MaxWifiEvents = 3
  HttpsPorts = {"Posix", "Esp"}
  Users = {"u1"}
  FrameSize = 2
  Receivers = {"PosixHttps", "EspHttps", "PosixHttp", "PosixServer", "EspServer"}
  Messages <- MCMessages
  BufferSize = 4
  Oddities = {"close"}
  AppRequests <- MCNetAppRequests
  QueueLength = 2
  MaxServers = 2
  MaxRequests = 4
  MaxTimeouts = 1
SPECIFICATION PartSpec
CHECK_DEADLOCK FALSE
INVARIANT AllTypesOK
INVARIANT SocketsAreOwned
INVARIANT StationIsUpOnlyWhenReady
INVARIANT HttpsIsSetUpBeforeUse
INVARIANT BodyArrives
 
INVARIANT KeptRequestsAreServed
