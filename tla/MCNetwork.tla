----------------------------- MODULE MCNetwork ------------------------------
(***************************************************************************)
(* The network: sockets of clients and servers, the Wi-Fi station, the     *)
(* HTTPS client and the transfer, formatting and parsing of HTTP messages, *)
(* and the request queue of the CC32xx. They do not share state in the     *)
(* model: a behaviour is one of one component. The constants are the       *)
(* components' own, apart from the words that texts and the numbers that   *)
(* attributes are made of.                                                 *)
(***************************************************************************)
EXTENDS Integers, Sequences, TLC

CONSTANTS
  SocketPorts, Clients, LastDescriptor, MaxEvents, MaxConnected, Habits,    \* Sockets
  WifiPorts, MaxWifiEvents,                                                 \* WifiStation
  HttpsPorts, Users, FrameSize,                                             \* HttpsClient
  Receivers, Messages, BufferSize, Oddities,                                \* HttpTransfer
  AppRequests, QueueLength, MaxRequests, MaxServers, MaxTimeouts            \* NetAppServer

\* A message with a body of three bytes, and one without a body.
MCMessages ==
    {<<"line", "length1", "length2", "end1", "end2", "b1", "b2", "b3">>, <<"line", "end1", "end2">>}

\* Requests with and without parameters, some words of which are found in others.
MCHttpRequests ==
    [method : {"GET", "POST", "DELETE", "HEAD"}, uri : {<<>>, <<"/">>, <<"/POST">>}, version : {"HTTP/1.1"},
     host : {"host"}, accept : {<<>>, <<"text/html", "application/json">>},
     custom : {<<>>,
               <<<<"Content-Language:", "fr-CA">>, <<"Content-Type:", "text/css">>, <<"Content-Length:", "1">>>>,
               <<<<"Content-Encoding:", "gzip", "br">>, <<"Connection:", "keep-alive">>>>},
     body : {<<>>, <<"PUT">>}]
MCFiles == {[name |-> <<"index", "html">>, body |-> <<<<"a">>, <<"b">>>>],
            [name |-> <<"app", "js", "map">>, body |-> <<<<"a">>>>]}
MCInside == {<<"/POST", "POST">>, <<"fr-CA", "fr">>}
MCNumeral == [word \in {"0", "1", "2"} |-> CASE word = "0" -> 0 [] word = "1" -> 1 [] word = "2" -> 2]

\* Requests of every method: texts alone, with a last one of several and of one byte,
\* and a long first one; a long later text and a length of content; no attributes at all.
MCNetAppRequests ==
    {[method |-> "GET", app |-> "http", payload |-> FALSE,
      attributes |-> <<[type |-> 1, value |-> <<101>>], [type |-> 6, value |-> <<130, 131>>],
                       [type |-> 5, value |-> <<110, 40, 111>>]>>],
     [method |-> "DELETE", app |-> "http", payload |-> FALSE,
      attributes |-> <<[type |-> 2, value |-> [i \in 1..257 |-> 150]], [type |-> 7, value |-> <<160>>]>>],
     [method |-> "PUT", app |-> "http", payload |-> FALSE, attributes |-> <<>>],
     [method |-> "PUT", app |-> "http", payload |-> FALSE,
      attributes |-> <<[type |-> 2, value |-> <<150>>], [type |-> 2, value |-> [i \in 1..257 |-> 150]],
                       [type |-> 4, value |-> <<5, 0, 0, 0>>]>>],
     [method |-> "POST", app |-> "http", payload |-> TRUE, attributes |-> <<>>],
     [method |-> "HEAD", app |-> "http", payload |-> FALSE, attributes |-> <<>>],
     [method |-> "GET", app |-> "other", payload |-> FALSE, attributes |-> <<>>]}
MCMeaning == [i \in {101, 110, 111, 120, 130, 131, 160} |->
    CASE i = 101 -> "1.1" [] i = 110 -> "text/html" [] i = 111 -> "application/xml"
      [] i = 120 -> "text/html" [] i = 130 -> "gzip" [] i = 131 -> "br" [] i = 160 -> "fr-CA"]

VARIABLE part   \* the component whose behaviour this is; the others stand still

VARIABLES socketsPort, fds, refused, sock, leaving, listener, socketsConnected,
    socketsStatus, waiting, listening, socketsQueue, cur, astray
S == INSTANCE Sockets WITH port <- socketsPort, connected <- socketsConnected,
    status <- socketsStatus, queue <- socketsQueue,
    Ports <- SocketPorts
socketsVars == <<socketsPort, fds, refused, sock, leaving, listener, socketsConnected,
    socketsStatus, waiting, listening, socketsQueue, cur, astray>>
socketsIdle == socketsPort = 0 /\ fds = 0 /\ refused = 0 /\ sock = 0 /\ leaving = 0 /\
    listener = 0 /\ socketsConnected = 0 /\ socketsStatus = 0 /\ waiting = 0 /\
    listening = 0 /\ socketsQueue = 0 /\ cur = 0 /\ astray = 0

VARIABLES wifiPort, mode, authMode, wifiPc, asked, skipped, answer, started, link,
    wifiEvents, bits, isUp, isProvisioned, lost, reached
W == INSTANCE WifiStation WITH port <- wifiPort, pc <- wifiPc, events <- wifiEvents,
    Ports <- WifiPorts, MaxEvents <- MaxWifiEvents
wifiVars == <<wifiPort, mode, authMode, wifiPc, asked, skipped, answer, started, link,
    wifiEvents, bits, isUp, isProvisioned, lost, reached>>
wifiIdle == wifiPort = 0 /\ mode = 0 /\ authMode = 0 /\ wifiPc = 0 /\ asked = 0 /\
    skipped = 0 /\ answer = 0 /\ started = 0 /\ link = 0 /\ wifiEvents = 0 /\ bits = 0 /\ isUp = 0 /\
    isProvisioned = 0 /\ lost = 0 /\ reached = 0

VARIABLES https, contexts, httpsConnected, open, secure, calls, writing, answers,
    trusted, misuse
H == INSTANCE HttpsClient WITH connected <- httpsConnected
httpsVars == <<https, contexts, httpsConnected, open, secure, calls, writing, answers,
    trusted, misuse>>
httpsIdle == https = 0 /\ contexts = 0 /\ httpsConnected = 0 /\ open = 0 /\
    secure = 0 /\ calls = 0 /\ writing = 0 /\ answers = 0 /\ trusted = 0 /\ misuse = 0

VARIABLES receiver, message, at, transferPc, length, buffer, received
X == INSTANCE HttpTransfer WITH pc <- transferPc
transferVars == <<receiver, message, at, transferPc, length, buffer, received>>
transferIdle == receiver = 0 /\ message = 0 /\ at = 0 /\ transferPc = 0 /\ length = 0 /\
    buffer = 0 /\ received = 0

VARIABLES sent, text, request, file, response, segments, wire, messagesPc
Y == INSTANCE HttpMessages WITH pc <- messagesPc, Requests <- MCHttpRequests,
    Files <- MCFiles, Tags <- {"fr", "fr-CA", "de"}, Inside <- MCInside,
    Numeral <- MCNumeral, Splits <- "lines"
messagesVars == <<sent, text, request, file, response, segments, wire, messagesPc>>
messagesIdle == sent = 0 /\ text = 0 /\ request = 0 /\ file = 0 /\ response = 0 /\
    segments = 0 /\ wire = 0 /\ messagesPc = 0

VARIABLES arrived, appStatus, appQueue, copies, receiving, result, appEvents, answered,
    failed, servers, timeouts
Z == INSTANCE NetAppServer WITH status <- appStatus, queue <- appQueue,
    events <- appEvents, Requests <- AppRequests,
    KnownTypes <- 0..8, CountedTypes <- {2}, Version <- 1, ContentType <- 3,
    Connection <- 8, Accept <- 5, Encoding <- 6, Language <- 7, ContentLength <- 4,
    Meaning <- MCMeaning
appVars == <<arrived, appStatus, appQueue, copies, receiving, result, appEvents,
    answered, failed, servers, timeouts>>
appIdle == arrived = 0 /\ appStatus = 0 /\ appQueue = 0 /\ copies = 0 /\
    receiving = 0 /\ result = 0 /\ appEvents = 0 /\ answered = 0 /\ failed = 0 /\
    servers = 0 /\ timeouts = 0

ASSUME Parameters == S!SocketsAssumption /\ W!WifiStationAssumption /\
    H!HttpsClientAssumption /\ X!HttpTransferAssumption /\ Z!NetAppAssumption

PartInit ==
    /\ part \in {"sockets", "wifi", "https", "transfer", "messages", "app"}
    /\ IF part = "sockets" THEN S!Init ELSE socketsIdle
    /\ IF part = "wifi" THEN W!Init ELSE wifiIdle
    /\ IF part = "https" THEN H!Init ELSE httpsIdle
    /\ IF part = "transfer" THEN X!Init ELSE transferIdle
    /\ IF part = "messages" THEN Y!Init ELSE messagesIdle
    /\ IF part = "app" THEN Z!Init ELSE appIdle

SocketsStep == part = "sockets" /\ S!Next
    /\ UNCHANGED <<part, wifiVars, httpsVars, transferVars, messagesVars, appVars>>
WifiStep == part = "wifi" /\ W!Next
    /\ UNCHANGED <<part, socketsVars, httpsVars, transferVars, messagesVars, appVars>>
HttpsStep == part = "https" /\ H!Next
    /\ UNCHANGED <<part, socketsVars, wifiVars, transferVars, messagesVars, appVars>>
TransferStep == part = "transfer" /\ X!Next
    /\ UNCHANGED <<part, socketsVars, wifiVars, httpsVars, messagesVars, appVars>>
MessagesStep == part = "messages" /\ Y!Next
    /\ UNCHANGED <<part, socketsVars, wifiVars, httpsVars, transferVars, appVars>>
AppStep == part = "app" /\ Z!Next
    /\ UNCHANGED <<part, socketsVars, wifiVars, httpsVars, transferVars, messagesVars>>

PartNext ==
    \/ SocketsStep
    \/ WifiStep
    \/ HttpsStep
    \/ TransferStep
    \/ MessagesStep
    \/ AppStep
allVars == <<part, socketsVars, wifiVars, httpsVars, transferVars, messagesVars, appVars>>
PartSpec == PartInit /\ [][PartNext]_allVars

-----------------------------------------------------------------------------
\* Every component's variables keep their types.
AllTypesOK ==
    /\ part = "sockets" => S!TypeOK
    /\ part = "wifi" => W!TypeOK
    /\ part = "https" => H!TypeOK
    /\ part = "transfer" => X!TypeOK
    /\ part = "app" => Z!TypeOK

\* Every open descriptor is known to its owner (not on Esp, where a failed connection
\* leaves one behind), a number that was closed is not used again (once the server
\* has used a closed one nothing is claimed), and the number of active connections is
\* that of the accepted descriptors that are open.
SocketsAreOwned ==
    part = "sockets" => (socketsPort # "Esp" => S!OpenIsOwned) /\ S!UsesOwnUnlessAstray /\ S!ActiveAreOpen

\* Until the first loss of the link, and once the authentication mode is set, the
\* network is up only with an address (station) or a started access point, and both
\* modes are up only when each is.
StationIsUpOnlyWhenReady ==
    part = "wifi" => W!FirstUpHasAddress /\ W!BothMeansBoth /\ W!UpIsUpAtFirst

\* On Esp a client that connects with Success has verified the server, a TLS context
\* is used only between its setup and its end, and Success of a send means that every
\* byte was taken.
HttpsIsSetUpBeforeUse ==
    part = "https" => H!EspConnectedIsSecure /\ H!EspUsesReady /\ H!SentIsWhole

\* However the bytes of a response are cut into reads, the body that the client hands
\* over is the body that was sent.
BodyArrives == part = "transfer" => X!ClientsGetTheBody


\* On CC32xx every request that was kept is queued, served or answered as long
\* as there is one server, and its copy is kept while it is queued.
KeptRequestsAreServed == part = "app" => Z!PendingIsServed
=============================================================================
