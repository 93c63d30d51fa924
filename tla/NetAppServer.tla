---------------------------- MODULE NetAppServer ----------------------------
(***************************************************************************)
(* The HTTP server of the CC32xx: the server in the ROM defers a request   *)
(* it cannot answer to SimpleLinkNetAppRequestEventHandler (on the         *)
(* SimpleLink task), which copies it into a message queue of the operating *)
(* system; receiveBlocking takes it from there on the application's thread *)
(* and converts it, and sendNonBlocking has the network's thread answer.   *)
(* The request arrives as metadata, a string of bytes: type, two bytes of  *)
(* length, value.  The bytes of a value that stand for a word of the       *)
(* protocol are given a meaning; the numbers of the types are TI's.        *)
(***************************************************************************)
EXTENDS Integers, Sequences, FiniteSets, SequencesExt

CONSTANTS Requests,     \* the requests of the clients: [method, app, payload, attributes], an attribute [type, value]
          QueueLength,  \* the length of the message queue
          KnownTypes,   \* the numbers of the attributes' types, 0 among them
          CountedTypes, \* those whose value is taken by its length: the path, the host...
          Version, ContentType, Connection, Accept, Encoding, Language, ContentLength,
          Meaning,      \* the word a byte of a value stands for
          MaxRequests,  \* bound on the requests that arrive
          MaxServers,   \* bound on the servers constructed
          MaxTimeouts   \* bound on the receive calls that find the queue empty

VARIABLES arrived,   \* requests the ROM has deferred
          status,    \* of each of them: "pending" or "none", the handler's answer
          queue,     \* the message queue of the name SimpleLinkEventQueue
          copies,    \* the requests whose heap copies are not freed
          receiving, \* the request the application works on, or NoRequest
          result,    \* the last result of receiveBlocking and what it read
          events,    \* the answers waiting for the network's thread
          answered,  \* requests that got their whole answer
          failed,    \* requests whose callback got an error
          servers, timeouts

vars == <<arrived, status, queue, copies, receiving, result, events, answered, failed, servers, timeouts>>

NoRequest == [method |-> "none"]

NetAppAssumption == NoRequest \notin Requests /\ {QueueLength, MaxRequests, MaxServers, MaxTimeouts} \subseteq Nat
-----------------------------------------------------------------------------
(* The conversion of the metadata.                                         *)

Metadata(attributes) ==
  FlattenSeq([i \in DOMAIN attributes |->
    <<attributes[i].type, Len(attributes[i].value) % 256, Len(attributes[i].value) \div 256>> \o attributes[i].value])

(* The end of the C string that starts at a byte: the first zero.          *)
Terminator(m, at) ==
  LET zeros == {i \in at..Len(m) : m[i] = 0} IN IF zeros = {} THEN Len(m) + 1 ELSE Min(zeros)

\* Mutant: the zero itself is not skipped.
NextValueOneOff(m, at) == Terminator(m, at)

(* The values are found without their lengths: the next one is taken to    *)
(* start after the first zero from the start of this one on, which is the  *)
(* high byte of the next length as long as the values hold no zero.        *)
NextValue(m, at) == Terminator(m, at) + 1

TypeAt(m, at) == m[at - 3]
ValueAt(m, at) ==
  LET length == CASE TypeAt(m, at) \in CountedTypes -> m[at - 2] + (256 * m[at - 1])
                  [] TypeAt(m, at) = ContentLength -> 4
                  [] OTHER -> Terminator(m, at) - at
  IN  SubSeq(m, at, Min({Len(m), at + length - 1}))

(* The attributes read, up to the first of a type that is not known.       *)
Reads(m) ==
  LET from[at \in 4..(Len(m) + 2)] ==
        CASE at >= Len(m) -> <<>>
          [] at < Len(m) /\ TypeAt(m, at) \notin KnownTypes -> <<[type |-> TypeAt(m, at), value |-> <<>>]>>
          [] OTHER -> <<[type |-> TypeAt(m, at), value |-> ValueAt(m, at)]>> \o from[NextValue(m, at)]
  IN  from[4]

Words(value) == {Meaning[i] : i \in ToSet(value) \cap DOMAIN Meaning}
FirstIn(names, words) == LET known == SelectSeq(names, LAMBDA name : name \in words) IN IF known = <<>> THEN "Unknown" ELSE Head(known)

fromStringVersion(value) == FirstIn(<<"1.0", "1.1", "2.0", "3.0">>, Words(value))
fromStringContentType(value) == FirstIn(<<"text/html", "application/json", "application/xml">>, Words(value))
fromStringConnection(value) == FirstIn(<<"keep-alive", "close">>, Words(value))
fromStringAccept(value) == {"text/html", "application/json", "application/xml"} \cap Words(value)
fromStringEncoding(value) == {"gzip", "deflate", "br", "identity"} \cap Words(value)
fromStringAcceptLanguage(value) == {"fr", "fr-CA", "en-US"} \cap (Words(value) \cup (IF "fr-CA" \in Words(value) THEN {"fr"} ELSE {}))

(* What a value of a type says, for the types the request object keeps.    *)
Meant(type, value) ==
  CASE type \in CountedTypes -> value
    [] type = Version -> <<fromStringVersion(value)>>
    [] type = ContentType -> <<fromStringContentType(value)>>
    [] type = Connection -> <<fromStringConnection(value)>>
    [] type = Accept -> SetToSeq(fromStringAccept(value))
    [] type = Encoding -> SetToSeq(fromStringEncoding(value))
    [] type = Language -> SetToSeq(fromStringAcceptLanguage(value))
    [] type = ContentLength -> value
    [] OTHER -> <<>>

(* What the walk makes of memory that is not the request's: nothing, or    *)
(* some attribute.                                                         *)
Outside == {{}, {[type |-> ContentLength, meant |-> <<>>]}}

(* The request object, each type's last value, and whether the conversion  *)
(* went through.  The length less one is kept in 16 bits: without metadata *)
(* it is 65535, and the walk is over what lies behind the empty copy.      *)
toHttpRequest(m) ==
  LET metaDataLength == (Len(m) - 1) % 65536
      reads == Reads(m)
      known == SelectSeq(reads, LAMBDA read : read.type \in KnownTypes)
  IN  CASE m = <<>> -> [error : {"Success", "NotSupported"}, fields : Outside]
        [] m # <<>> /\ metaDataLength < 3 -> {[error |-> "Failure", fields |-> {}]}
        [] OTHER ->
             {[error |-> IF known = reads THEN "Success" ELSE "NotSupported",
               fields |-> {[type |-> known[i].type, meant |-> Meant(known[i].type, known[i].value)] :
                             i \in {j \in DOMAIN known : \A k \in DOMAIN known : k > j => known[k].type # known[j].type}}]}
-----------------------------------------------------------------------------
Init ==
  /\ arrived = {} /\ status = [r \in {} |-> "none"] /\ queue = <<>> /\ copies = {}
  /\ receiving = NoRequest /\ result = [error |-> "none", fields |-> {}]
  /\ events = <<>> /\ answered = {} /\ failed = {} /\ servers = 1 /\ timeouts = 0

Status(r, word) == [s \in DOMAIN status \cup {r} |-> IF s = r THEN word ELSE status[s]]

(* The handler answers "pending" for the methods the server knows, copies  *)
(* the request and queues the copy without waiting.  A request with a      *)
(* payload is given up after its copy WAS made; a full queue refuses it.   *)
Deferred == {"GET", "DELETE", "POST", "PUT"}

QueueRequest(r) ==
  /\ r.method \in Deferred /\ ~r.payload /\ Len(queue) < QueueLength
  /\ status' = Status(r, "pending")
  /\ queue' = Append(queue, r)

\* Mutant: a queue that is full leaves the request pending.
RefuseButPending(r) ==
  /\ r.method \notin Deferred \/ r.payload \/ Len(queue) = QueueLength
  /\ status' = Status(r, IF r.method \in Deferred /\ ~r.payload THEN "pending" ELSE "none")
  /\ UNCHANGED queue

RefuseRequest(r) ==
  /\ \/ r.method \notin Deferred
     \/ r.payload
     \/ Len(queue) = QueueLength
  /\ status' = Status(r, "none")
  /\ UNCHANGED queue

SimpleLinkNetAppRequestEventHandler(r) ==
  /\ r \notin arrived /\ Cardinality(arrived) < MaxRequests
  /\ arrived' = arrived \cup {r}
  /\ copies' = IF r.method \in Deferred THEN copies \cup {r} ELSE copies
  /\ QueueRequest(r) \/ RefuseRequest(r)
  /\ UNCHANGED <<receiving, result, events, answered, failed, servers, timeouts>>

(* receiveBlocking on the application's thread.                            *)
ReceiveRequest ==
  /\ receiving = NoRequest /\ queue # <<>>
  /\ queue' = Tail(queue)
  /\ LET r == Head(queue)
     IN IF r.app = "http"
        THEN /\ result' \in toHttpRequest(Metadata(r.attributes))
             /\ receiving' = r /\ copies' = copies \ {r}
        ELSE /\ result' = [error |-> "Failure", fields |-> {}]
             /\ UNCHANGED <<receiving, copies>>
  /\ UNCHANGED <<arrived, status, events, answered, failed, servers, timeouts>>

(* Nothing came in time; a request that came since is counted when the     *)
(* error is chosen.                                                        *)
ReceiveTimeout ==
  /\ receiving = NoRequest /\ queue = <<>> /\ timeouts < MaxTimeouts
  /\ timeouts' = timeouts + 1
  /\ result' \in [error : {"Timeout", "Failure"}, fields : {{}}]
  /\ UNCHANGED <<arrived, status, queue, copies, receiving, events, answered, failed, servers>>

(* The application answers the request it works on.                        *)
SendNonBlocking ==
  /\ receiving # NoRequest
  /\ events' = Append(events, receiving) /\ receiving' = NoRequest
  /\ UNCHANGED <<arrived, status, queue, copies, result, answered, failed, servers, timeouts>>

(* The metadata and then the body are sent; the callback gets the first    *)
(* error.                                                                  *)
RunSend ==
  /\ events # <<>>
  /\ events' = Tail(events)
  /\ \/ answered' = answered \cup {Head(events)} /\ UNCHANGED failed
     \/ failed' = failed \cup {Head(events)} /\ UNCHANGED answered
  /\ UNCHANGED <<arrived, status, queue, copies, receiving, result, servers, timeouts>>

(* The constructor of another server creates the queue of the same name    *)
(* again; the old one is forgotten with what it holds.                     *)
ConstructServer ==
  /\ servers < MaxServers
  /\ servers' = servers + 1 /\ queue' = <<>>
  /\ UNCHANGED <<arrived, status, copies, receiving, result, events, answered, failed, timeouts>>

Next ==
  \/ \E r \in Requests : SimpleLinkNetAppRequestEventHandler(r)
  \/ ReceiveRequest \/ ReceiveTimeout \/ SendNonBlocking \/ RunSend \/ ConstructServer

Spec == Init /\ [][Next]_vars
-----------------------------------------------------------------------------
TypeOK ==
  /\ arrived \subseteq Requests /\ DOMAIN status = arrived /\ ToSet(queue) \subseteq arrived
  /\ copies \subseteq arrived /\ receiving \in arrived \cup {NoRequest} /\ ToSet(events) \subseteq arrived
  /\ answered \subseteq arrived /\ failed \subseteq arrived /\ Len(queue) <= QueueLength

(* A request the ROM was told to keep pending is on its way to an answer   *)
(* or its callback got an error, as long as there is one server and the    *)
(* requests are for the HTTP server; and a queued request has its copies.  *)
PendingIsServed ==
  /\ servers = 1 => \A r \in arrived : status[r] = "pending" /\ r.app = "http" =>
       r \in ToSet(queue) \cup {receiving} \cup ToSet(events) \cup answered \cup failed
  /\ ToSet(queue) \subseteq copies

(* The same with any number of servers: violated when one is constructed   *)
(* while a request is queued.                                              *)
EveryPendingIsServed ==
  \A r \in arrived : status[r] = "pending" =>
    r \in ToSet(queue) \cup {receiving} \cup ToSet(events) \cup answered \cup failed

(* The copies of a request are freed once it has left the queue: violated  *)
(* for every request refused.                                              *)
CopiesAreFreed == copies \subseteq ToSet(queue)

(* Texts whose lengths have a zero for their high byte where the walk      *)
(* meets it: all but the first are shorter than 256 bytes, none is empty.  *)
ShortTexts(attributes) ==
  /\ attributes # <<>>
  /\ \A i \in DOMAIN attributes :
       /\ attributes[i].type # ContentLength
       /\ Len(attributes[i].value) > 0 /\ (i > 1 => Len(attributes[i].value) < 256)

(* The walk over the metadata reads such texts, each with its value, but   *)
(* ends before a last one of a single byte.                                *)
TextsAreRead ==
  receiving # NoRequest /\ ShortTexts(receiving.attributes) =>
    LET attributes == receiving.attributes
        looked == {i \in DOMAIN attributes : i < Len(attributes) \/ Len(attributes[i].value) > 1}
    IN  /\ result.error = "Success"
        /\ result.fields = {[type |-> attributes[i].type, meant |-> Meant(attributes[i].type, attributes[i].value)] : i \in looked}

(* All attributes are read: violated by the length of the content, four    *)
(* bytes of which some are zero (the walk stops at them and takes bytes of *)
(* the length for types), by a last text of one byte, by a text of 256     *)
(* bytes or more after the first, and by a request without metadata.       *)
AttributesAreRead ==
  receiving # NoRequest =>
    result.error = "Success" /\ result.fields = {[type |-> a.type, meant |-> Meant(a.type, a.value)] : a \in ToSet(receiving.attributes)}
=============================================================================
