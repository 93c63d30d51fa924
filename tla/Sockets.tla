------------------------------ MODULE Sockets ------------------------------
(***************************************************************************)
(* The descriptors behind IpClient, IpServer and the Wifi class of each    *)
(* port.  Connecting, listening, accepting and closing run as events on    *)
(* the network thread; disconnect of IpClient runs on the thread of its    *)
(* caller, beside it.  Other threads of the program open descriptors of    *)
(* the same table (the files of the storage thread on POSIX): a number that*)
(* was closed is soon the number of something else.  How a caller waits for*)
(* its event is the subject of BlockingCall.                               *)
(***************************************************************************)
EXTENDS Integers, Sequences, SequencesExt

CONSTANTS
  Ports,       \* "Linux", "Darwin", "Esp", "Cc32xx"
  Clients,     \* the IpClient objects
  LastDescriptor, \* descriptors are 0 .. LastDescriptor
  MaxEvents,   \* events that fit in the queue, the one that runs included
  MaxConnected, \* bound: the accepted connections the server remembers
  Habits       \* "nonBlocking": callers use sendNonBlocking;
               \* "shared": another thread disconnects a client at any time;
               \* "macAddress": the program asks for the MAC address

SocketsAssumption ==
  /\ Ports \subseteq {"Linux", "Darwin", "Esp", "Cc32xx"}
  /\ LastDescriptor \in Nat /\ MaxConnected \in Nat /\ MaxEvents \in Nat \ {0}
  /\ Habits \subseteq {"nonBlocking", "shared", "macAddress"}
  /\ Clients \cap {"free", "listener", "accepted", "file", "pipe", "server"} = {}

VARIABLES
  port,      \* the platform of this behaviour, constant
  fds,       \* what each descriptor is
  refused,   \* the sockets that were opened and could not be connected
  sock,      \* _socket of a client
  leaving,   \* the clients within disconnect(), the socket closed, _socket not reset
  listener,  \* _listenerSocket
  connected, \* _connectedSockets
  status,    \* _status
  waiting,   \* the clients and "server" whose caller waits for an event
  listening, \* where IpServer::listenTo is
  queue,     \* the events of the network thread
  cur,       \* the event it runs; after a receive, what it answered
  astray     \* observation: a step of a listenTo has failed

vars == <<port, fds, refused, sock, leaving, listener, connected, status, waiting,
          listening, queue, cur, astray>>
client == <<sock, leaving>>
server == <<listener, connected, status, listening, astray>>

Descriptors == 0 .. LastDescriptor
NoSocket == -1
NoEvent == [op |-> "none", who |-> "server", held |-> NoSocket, waits |-> FALSE, answer |-> "none"]

-----------------------------------------------------------------------------
(* What the ports do differently.                                          *)

LinuxClientCalls == [closesRefused |-> TRUE]
LinuxServerCalls == [serves |-> TRUE, closesUnbound |-> TRUE]
LinuxTransfers == [silence |-> "Timeout"]
DarwinClientCalls == [closesRefused |-> TRUE]
DarwinServerCalls == [serves |-> TRUE, closesUnbound |-> TRUE]
DarwinTransfers == [silence |-> "Failure"]
\* disconnect() closes only what shutdown() accepts, listenTo() closes nothing.
EspClientCalls == [closesRefused |-> FALSE]
EspServerCalls == [serves |-> TRUE, closesUnbound |-> FALSE]
EspTransfers == [silence |-> "Timeout"]
\* The calls of the server are not implemented.
Cc32xxClientCalls == [closesRefused |-> TRUE]
Cc32xxServerCalls == [serves |-> FALSE, closesUnbound |-> TRUE]
Cc32xxTransfers == [silence |-> "Timeout"]

ClientCalls == [Linux |-> LinuxClientCalls, Darwin |-> DarwinClientCalls,
                Esp |-> EspClientCalls, Cc32xx |-> Cc32xxClientCalls][port]
ServerCalls == [Linux |-> LinuxServerCalls, Darwin |-> DarwinServerCalls,
                Esp |-> EspServerCalls, Cc32xx |-> Cc32xxServerCalls][port]
Transfers == [Linux |-> LinuxTransfers, Darwin |-> DarwinTransfers,
              Esp |-> EspTransfers, Cc32xx |-> Cc32xxTransfers][port]

Free == {d \in Descriptors : fds[d] = "free"}
IsOpen(d) == d # NoSocket /\ fds[d] # "free"

Init ==
  /\ port \in Ports
  /\ fds = [d \in Descriptors |-> "free"]
  /\ refused = {}
  /\ sock = [c \in Clients |-> NoSocket]
  /\ leaving = {}
  /\ listener = NoSocket
  /\ connected = <<>>
  /\ status = [listening |-> FALSE, activeConnections |-> 0]
  /\ waiting = {}
  /\ listening = "no"
  /\ queue = <<>>
  /\ cur = NoEvent
  /\ astray = FALSE

-----------------------------------------------------------------------------
(* The operating system: the descriptor with the lowest number is taken.   *)

Take(owner) == fds' = [fds EXCEPT ![Min(Free)] = owner]

\* close(): an error for a descriptor that is not open.
Release(d) ==
  IF IsOpen(d) THEN fds' = [fds EXCEPT ![d] = "free"] /\ refused' = refused \ {d}
  ELSE UNCHANGED <<fds, refused>>

\* Wifi::disconnect().
ReleaseClient(d) ==
  IF d \in refused /\ ~ClientCalls.closesRefused THEN UNCHANGED <<fds, refused>>
  ELSE Release(d)

\* The others that take descriptors: the storage thread opens a file;
\* getMacAddress() leaves the pipe of interfaceRoutedTo() open when its command
\* answers.
Others == {"file"} \cup (IF port = "Linux" /\ "macAddress" \in Habits THEN {"pipe"} ELSE {})

OpenOther ==
  /\ port \in {"Linux", "Darwin"} /\ Free # {}
  /\ \E other \in Others : Take(other)
  /\ UNCHANGED <<port, refused, sock, leaving, listener, connected, status, waiting,
                 listening, queue, cur, astray>>

CloseFile ==
  /\ \E d \in Descriptors : fds[d] = "file" /\ fds' = [fds EXCEPT ![d] = "free"]
  /\ UNCHANGED <<port, refused, sock, leaving, listener, connected, status, waiting,
                 listening, queue, cur, astray>>

-----------------------------------------------------------------------------
(* The callers.                                                            *)

HasRoom == Len(queue) + (IF cur.op = "none" THEN 0 ELSE 1) < MaxEvents

\* network().addEvent() accepts the event of a caller that waits for it or not.
Add(op, who, held, waits) ==
  /\ HasRoom
  /\ queue' = Append(queue, [op |-> op, who |-> who, held |-> held, waits |-> waits,
                             answer |-> "none"])
  /\ waiting' = IF waits THEN waiting \cup {who} ELSE waiting

\* connectTo, sendBlocking, sendNonBlocking, receiveBlocking of an IpClient.
CallClient(c, op, waits) ==
  /\ c \notin waiting /\ c \notin leaving
  /\ Add(op, c, NoSocket, waits)
  /\ UNCHANGED <<port, fds, refused, cur, client, server>>

\* IpClient::disconnect(): the socket is closed ...
BeginDisconnect(c) ==
  /\ c \notin leaving /\ sock[c] # NoSocket
  /\ c \notin waiting \/ "shared" \in Habits
  /\ ReleaseClient(sock[c])
  /\ leaving' = leaving \cup {c}
  /\ UNCHANGED <<port, sock, waiting, queue, cur, server>>

\* ... and then _socket is reset.
EndDisconnect(c) ==
  /\ c \in leaving
  /\ sock' = [sock EXCEPT ![c] = NoSocket]
  /\ leaving' = leaving \ {c}
  /\ UNCHANGED <<port, fds, refused, waiting, queue, cur, server>>

ServerIdle == "server" \notin waiting /\ listening = "no" /\ ServerCalls.serves

\* IpServer::listenTo(): closeConnection() of the listener, whose error is
\* dropped, ...
BeginListen ==
  /\ ServerIdle
  /\ listening' = "closing"
  /\ \/ Add("close", "server", listener, TRUE) /\ UNCHANGED astray
     \/ ~HasRoom /\ astray' = TRUE /\ UNCHANGED <<queue, waiting>>
  /\ UNCHANGED <<port, fds, refused, cur, client, listener, connected, status>>

\* ... and then listenTo() of the network, as a second event ...
QueueListen ==
  /\ listening = "closing" /\ "server" \notin waiting
  /\ listening' = "opening"
  /\ Add("listen", "server", NoSocket, TRUE)
  /\ UNCHANGED <<port, fds, refused, cur, client, listener, connected, status, astray>>

\* ... unless it is refused: Failure.
RefuseListen ==
  /\ listening = "closing" /\ "server" \notin waiting /\ ~HasRoom
  /\ listening' = "no" /\ astray' = TRUE
  /\ UNCHANGED <<port, fds, refused, waiting, queue, cur, client, listener, connected, status>>

\* acceptConnection, closeConnection, sendBlocking, receiveBlocking of the server.
CallServer(op, d) ==
  /\ ServerIdle
  /\ Add(op, "server", d, TRUE)
  /\ UNCHANGED <<port, fds, refused, cur, client, server>>

-----------------------------------------------------------------------------
(* The network thread.                                                     *)

\* The event starts: what it reads of _socket is read here.
StartEvent ==
  /\ cur.op = "none" /\ queue # <<>>
  /\ LET e == Head(queue) IN
     cur' = IF e.op \in {"connect", "send", "receive"} THEN [e EXCEPT !.held = sock[e.who]] ELSE e
  /\ queue' = Tail(queue)
  /\ UNCHANGED <<port, fds, refused, waiting, client, server>>

EndEventWith(answer) ==
  /\ cur' = [NoEvent EXCEPT !.answer = answer]
  /\ waiting' = IF cur.waits THEN waiting \ {cur.who} ELSE waiting

EndEvent == EndEventWith("none")

\* Mutant of CloseOld: the old connection is forgotten.
KeepOld ==
  /\ cur.op = "connect"
  /\ sock' = [sock EXCEPT ![cur.who] = NoSocket]
  /\ cur' = [cur EXCEPT !.op = "open", !.held = NoSocket]
  /\ UNCHANGED <<port, fds, refused, leaving, waiting, queue, server>>

\* connectTo(): disconnect() of the connection there was, ...
CloseOld ==
  /\ cur.op = "connect"
  /\ ReleaseClient(cur.held)
  /\ sock' = [sock EXCEPT ![cur.who] = NoSocket]
  /\ cur' = [cur EXCEPT !.op = "open", !.held = NoSocket]
  /\ UNCHANGED <<port, leaving, waiting, queue, server>>

\* ... and a socket is opened, which is kept whether or not it can be connected.
OpenConnection ==
  /\ cur.op = "open" /\ Free # {}
  /\ Take(cur.who)
  /\ sock' = [sock EXCEPT ![cur.who] = Min(Free)]
  /\ refused' \in {refused, refused \cup {Min(Free)}}
  /\ EndEvent
  /\ UNCHANGED <<port, leaving, queue, server>>

\* The host is not known, or there is no descriptor.
OpenNothing ==
  /\ cur.op = "open"
  /\ EndEvent
  /\ UNCHANGED <<port, fds, refused, queue, client, server>>

\* transmit().
Transmit ==
  /\ cur.op \in {"send", "serve"}
  /\ EndEvent
  /\ UNCHANGED <<port, fds, refused, queue, client, server>>

\* receive(): data, nothing until the timeout, or an error.
Receive ==
  /\ cur.op = "receive"
  /\ \E answer \in IF IsOpen(cur.held) THEN {"Success", Transfers.silence} ELSE {"Failure"} :
       EndEventWith(answer)
  /\ UNCHANGED <<port, fds, refused, queue, client, server>>

\* Mutant of CloseConnection: the socket stays among the connected ones.
CloseAndKeep ==
  /\ cur.op = "close"
  /\ Release(cur.held)
  /\ EndEvent
  /\ UNCHANGED <<port, queue, client, listener, connected, status, listening, astray>>

\* std::find() and erase(): the first one goes.
Erase(s, d) ==
  LET found == {i \in 1 .. Len(s) : s[i] = d} IN IF found = {} THEN s ELSE RemoveAt(s, Min(found))

\* closeConnection(): success also removes the socket from the connected ones.
CloseConnection ==
  /\ cur.op = "close"
  /\ Release(cur.held)
  /\ LET left == IF IsOpen(cur.held) THEN Erase(connected, cur.held) ELSE connected IN
     /\ connected' = left
     /\ status' = [status EXCEPT !.activeConnections = Len(left)]
  /\ EndEvent
  /\ UNCHANGED <<port, queue, client, listener, listening, astray>>

EndListen(succeeded) ==
  /\ status' = [status EXCEPT !.listening = succeeded]
  /\ listening' = "no" /\ astray' = (astray \/ ~succeeded)
  /\ EndEvent
  /\ UNCHANGED <<port, queue, client, connected>>

Listen ==
  /\ cur.op = "listen" /\ Free # {}
  /\ Take("listener") /\ listener' = Min(Free)
  /\ EndListen(TRUE)
  /\ UNCHANGED refused

\* bind() or listen() fails: the number stays in _listenerSocket.
ListenUnbound ==
  /\ cur.op = "listen" /\ Free # {}
  /\ listener' = Min(Free)
  /\ IF ServerCalls.closesUnbound THEN UNCHANGED fds ELSE Take("listener")
  /\ EndListen(FALSE)
  /\ UNCHANGED refused

\* getaddrinfo() fails, which leaves _listenerSocket alone, or socket() does.
ListenNowhere ==
  /\ cur.op = "listen"
  /\ listener' \in {listener, NoSocket}
  /\ EndListen(FALSE)
  /\ UNCHANGED <<fds, refused>>

Accept ==
  /\ cur.op = "accept" /\ IsOpen(listener) /\ fds[listener] = "listener" /\ Free # {}
  /\ Len(connected) < MaxConnected
  /\ Take("accepted")
  /\ connected' = Append(connected, Min(Free))
  /\ status' = [status EXCEPT !.activeConnections = Len(connected')]
  /\ EndEvent
  /\ UNCHANGED <<port, refused, queue, client, listener, listening, astray>>

\* The timeout or an error.
AcceptNothing ==
  /\ cur.op = "accept"
  /\ EndEvent
  /\ UNCHANGED <<port, fds, refused, queue, client, server>>

Next ==
  \/ OpenOther \/ CloseFile
  \/ \E c \in Clients :
       \/ \E op \in {"connect", "send", "receive"} : CallClient(c, op, TRUE)
       \/ BeginDisconnect(c) \/ EndDisconnect(c)
       \/ "nonBlocking" \in Habits /\ CallClient(c, "send", FALSE)
  \/ BeginListen \/ QueueListen \/ RefuseListen
  \/ CallServer("accept", NoSocket)
  \/ \E i \in 1 .. Len(connected), op \in {"serve", "close"} : CallServer(op, connected[i])
  \/ StartEvent \/ CloseOld \/ OpenConnection \/ OpenNothing \/ Transmit \/ Receive
  \/ CloseConnection \/ Listen \/ ListenUnbound \/ ListenNowhere \/ Accept \/ AcceptNothing

Spec == Init /\ [][Next]_vars

-----------------------------------------------------------------------------
Event == [op : {"none", "connect", "open", "send", "receive", "serve", "close", "listen", "accept"},
          who : Clients \cup {"server"}, held : Descriptors \cup {NoSocket}, waits : BOOLEAN, answer : {"none", "Success", "Failure", "Timeout"}]

TypeOK ==
  /\ port \in Ports
  /\ fds \in [Descriptors -> Clients \cup {"free", "listener", "accepted", "file", "pipe"}]
  /\ refused \subseteq Descriptors /\ leaving \subseteq Clients
  /\ sock \in [Clients -> Descriptors \cup {NoSocket}]
  /\ listener \in Descriptors \cup {NoSocket}
  /\ connected \in Seq(Descriptors)
  /\ status \in [listening : BOOLEAN, activeConnections : 0 .. MaxConnected]
  /\ waiting \subseteq Clients \cup {"server"}
  /\ listening \in {"no", "closing", "opening"}
  /\ queue \in Seq(Event) /\ cur \in Event
  /\ astray \in BOOLEAN

\* No socket is lost: each that is open is the socket of its client, the
\* listener (as long as every step of listenTo() has succeeded) or one of the
\* connected ones, and can be closed through it.
OpenIsOwned ==
  \A d \in Descriptors :
    /\ fds[d] \in Clients => sock[fds[d]] = d
    /\ fds[d] = "listener" => astray \/ listener = d
    /\ fds[d] = "accepted" => \E i \in 1 .. Len(connected) : connected[i] = d

\* What the network thread is about to close or to use is what the caller
\* meant, or closed already.
UsesOwn ==
  cur.held # NoSocket =>
    fds[cur.held] \in {"free"} \cup (IF cur.who \in Clients THEN {cur.who} ELSE {"listener", "accepted"})

\* The same as long as every listenTo() has succeeded: a listener that is
\* closed and not replaced keeps its number.
UsesOwnUnlessAstray == astray \/ UsesOwn

\* activeConnections is the number of connections that are open, as long as
\* every listenTo() has succeeded.
ActiveAreOpen ==
  astray \/ status.activeConnections = Cardinality({d \in Descriptors : fds[d] = "accepted"})

\* status().listening tells whether there is a listener.
ListeningIsTrue ==
  status.listening /\ listening = "no" => IsOpen(listener) /\ fds[listener] = "listener"

\* A receive on an open socket that gets nothing in time says so.
ReceiveTellsTimeout == [][cur.op = "receive" /\ cur' # cur /\ IsOpen(cur.held)
                            => cur'.answer \in {"Success", "Timeout"}]_vars

\* Every descriptor that was opened can be closed.
NothingIsLost == OpenIsOwned /\ \A d \in Descriptors : fds[d] # "pipe"
=============================================================================
