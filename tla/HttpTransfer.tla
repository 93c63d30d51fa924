---------------------------- MODULE HttpTransfer ----------------------------
(***************************************************************************)
(* How an HTTP message is read, read by read, by the two HTTPS clients,    *)
(* the HTTP client and the servers of Posix and Esp, and by the loop of    *)
(* the program around receiveBlocking that HttpServerAbstraction shows.    *)
(* A message is a sequence of segments: the first line, the header with    *)
(* the length of the body and the end of the headers, which have two       *)
(* halves each as a read may end between them, and the body.  A read gives *)
(* the next segments, as many as fit in the buffer or fewer; the network   *)
(* and mbedtls, which may also return nothing or fail, are external.       *)
(***************************************************************************)
EXTENDS Naturals, Sequences, SequencesExt

CONSTANTS
  Receivers,   \* "PosixHttps", "EspHttps", "PosixHttp", "PosixServer", "EspServer"
  Messages,    \* the messages that are received
  BufferSize,  \* the size the program gives messageBody before it receives
  Oddities     \* "split": a read may end between two halves; "close": the peer closes
               \* after its message; "ticket": TLS may hand over a session ticket

(* The first line, headers of which one may give the length, the end of    *)
(* the headers and the body, which there is only with a length.            *)
IsMessage(m) ==
  /\ m \in Seq(STRING)
  /\ \E e \in 2 .. Len(m) :
       /\ m[e - 1] = "end1" /\ m[e] = "end2"
       /\ \A i \in 1 .. Len(m) :
            /\ m[i] = "end1" => i = e - 1
            /\ m[i] = "end2" => i = e
            /\ m[i] = "length1" => i < e /\ m[i + 1] = "length2"
       /\ e < Len(m) => \E i \in 1 .. Len(m) : m[i] = "length1"

HttpTransferAssumption ==
  /\ \A m \in Messages : IsMessage(m)
  /\ Receivers \subseteq {"PosixHttps", "EspHttps", "PosixHttp", "PosixServer", "EspServer"}
  /\ BufferSize \in Nat \ {0}
  /\ Oddities \subseteq {"split", "close", "ticket"}

VARIABLES
  receiver,  \* who receives, constant
  message,   \* what the peer sends, constant
  at,        \* the segments that were read
  pc,        \* "program", within receiveBlocking "headers" or "body", at last "done" or "failed"
  length,    \* headers.contentLength, 0 when it is not known
  buffer,    \* messageBody
  received   \* the body as the program has put it together

vars == <<receiver, message, at, pc, length, buffer, received>>

\* A segment that is no data: what a resize or an older response leaves in the buffer.
Stale == "stale"
BodyOf(m) == LET e == CHOOSE i \in 1 .. Len(m) : m[i] = "end2" IN SubSeq(m, e + 1, Len(m))
LengthOf(m) == IF \E i \in 1 .. Len(m) : m[i] = "length1" THEN Len(BodyOf(m)) ELSE 0
Least(a, b) == IF a < b THEN a ELSE b
Resized(b, n) == [i \in 1 .. n |-> IF i <= Len(b) THEN b[i] ELSE Stale]
IsServer == receiver \in {"PosixServer", "EspServer"}

Init ==
  /\ receiver \in Receivers /\ message \in Messages
  /\ at = 0 /\ pc = "program" /\ length = 0 /\ buffer = <<>> /\ received = <<>>

-----------------------------------------------------------------------------
(* The headers.                                                            *)

Has(b, x, y) == \E i \in 1 .. Len(b) - 1 : b[i] = x /\ b[i + 1] = y
EndOfHeaders(b) == CHOOSE i \in 2 .. Len(b) : b[i - 1] = "end1" /\ b[i] = "end2"
WithoutHeadersOneOff(b) == SubSeq(b, EndOfHeaders(b) + 2, Len(b))
WithoutHeaders(b) == SubSeq(b, EndOfHeaders(b) + 1, Len(b))

\* HttpClientAbstraction::readResponseHeaders: each read is looked at on its own.
readResponseHeaders(b) ==
  [length |-> IF Has(b, "length1", "length2") THEN LengthOf(message) ELSE length,
   body   |-> IF Has(b, "end1", "end2") THEN WithoutHeaders(b) ELSE b,
   error  |-> IF Has(b, "end1", "end2") THEN "Success" ELSE "Negative"]

\* HttpServerAbstraction::readRequestHeaders: ToHttpRequest gives Success, and the end of
\* the headers turns it into Negative.  The part of a header that is kept for the next call
\* is a local variable.
readRequestHeaders(b) ==
  [length |-> IF Has(b, "length1", "length2") THEN LengthOf(message)
              ELSE IF b[Len(b)] = "length1" THEN 1 ELSE length,
   body   |-> IF Has(b, "end1", "end2") THEN WithoutHeaders(b) ELSE b,
   error  |-> IF Has(b, "end1", "end2") THEN "Negative" ELSE "Success"]

-----------------------------------------------------------------------------
(* A read, and the end of a receive.                                       *)

Splits(n) == n < Len(message) /\ message[n] \in {"length1", "end1"}
\* n segments are read.
Sizes(room) ==
  {n \in 1 .. Least(room, Len(message) - at) : "split" \in Oddities \/ ~Splits(at + n)}
Chunk(n) == SubSeq(message, at + 1, at + n)

\* The loop of the program: it goes on until it has as much as the length says.
Return(b, len) ==
  /\ received' = received \o b /\ buffer' = b /\ length' = len
  /\ pc' = IF Len(received) + Len(b) < len THEN "program" ELSE "done"
ReturnError == pc' = "failed" /\ UNCHANGED <<received, buffer, length>>

\* The program resizes the body and calls receiveBlocking.
Receive ==
  /\ pc = "program"
  /\ buffer' = Resized(buffer, BufferSize)
  /\ pc' = IF length = 0 THEN "headers" ELSE "body"
  /\ UNCHANGED <<receiver, message, at, length, received>>

-----------------------------------------------------------------------------
(* The HTTPS clients.                                                      *)

\* After networkReceiveFunction, which has left b in the body: on Esp the call returns what
\* of the body was read, on Posix it goes on to read more of it.
HeadersRead(b) ==
  LET r == readResponseHeaders(b) IN
  IF r.error = "Negative" THEN buffer' = Resized(b, BufferSize) /\ length' = r.length /\ UNCHANGED <<pc, received>>
  ELSE IF receiver = "EspHttps" THEN Return(r.body, r.length)
  ELSE IF r.body = <<>> THEN buffer' = Resized(<<>>, BufferSize) /\ length' = r.length /\ pc' = "body" /\ UNCHANGED received
  ELSE \* mbedtls_ssl_read with no room: nothing, or the error of a timeout
       Return(r.body, r.length) \/ ReturnError

HttpsHeaders ==
  /\ receiver \in {"PosixHttps", "EspHttps"} /\ pc = "headers"
  /\ \/ \E n \in Sizes(BufferSize) : HeadersRead(Chunk(n)) /\ at' = at + n
     \/ \* to be tried again, or a ticket, or the end of the connection
        HeadersRead(IF receiver = "PosixHttps" THEN buffer ELSE <<>>) /\ UNCHANGED at
     \/ ReturnError /\ UNCHANGED at
  /\ UNCHANGED <<receiver, message>>

\* Mutant of HttpsBody: what is read goes behind what is in the buffer.
HttpsBodyAppends ==
  /\ receiver \in {"PosixHttps", "EspHttps"} /\ pc = "body"
  /\ \/ \E n \in Sizes(BufferSize) : Return(buffer \o Chunk(n), length) /\ at' = at + n
     \/ ReturnError /\ UNCHANGED at
  /\ UNCHANGED <<receiver, message>>

\* The loop around mbedtls_ssl_read goes on only while there is nothing to read: after a
\* ticket or the end of the connection it returns Success with the buffer as it was.
HttpsBody ==
  /\ receiver \in {"PosixHttps", "EspHttps"} /\ pc = "body"
  /\ \/ \E n \in Sizes(BufferSize) : Return(Chunk(n), length) /\ at' = at + n
     \/ UNCHANGED <<pc, length, buffer, received, at>>     \* WANT_READ, WANT_WRITE
     \/ /\ "ticket" \in Oddities \/ ("close" \in Oddities /\ at = Len(message))
        /\ Return(buffer, length) /\ UNCHANGED at
     \/ ReturnError /\ UNCHANGED at
  /\ UNCHANGED <<receiver, message>>

PosixHttpsReceive == receiver = "PosixHttps" /\ (HttpsHeaders \/ HttpsBody)
EspHttpsReceive == receiver = "EspHttps" /\ (HttpsHeaders \/ HttpsBody)

-----------------------------------------------------------------------------
(* The HTTP client and the servers, over the sockets of IpClient and IpServer. *)

SocketRead ==
  \/ \E n \in Sizes(BufferSize) :
       LET r == IF IsServer THEN readRequestHeaders(Chunk(n)) ELSE readResponseHeaders(Chunk(n)) IN
       /\ at' = at + n
       /\ IF pc = "headers" /\ r.error = "Negative"
          THEN buffer' = Resized(r.body, BufferSize) /\ length' = r.length /\ UNCHANGED <<pc, received>>
          ELSE IF pc = "headers" THEN Return(r.body, r.length) ELSE Return(Chunk(n), length)
  \/ ReturnError /\ UNCHANGED at

HttpClientReceive ==
  /\ receiver = "PosixHttp" /\ pc \in {"headers", "body"}
  /\ SocketRead
  /\ UNCHANGED <<receiver, message>>

PosixServerReceive ==
  /\ receiver = "PosixServer" /\ pc \in {"headers", "body"}
  /\ SocketRead
  /\ UNCHANGED <<receiver, message>>

\* The Esp server reads nothing once the length is known, and answers Failure.
EspServerReceive ==
  /\ receiver = "EspServer"
  /\ \/ pc = "headers" /\ SocketRead
     \/ pc = "body" /\ ReturnError /\ UNCHANGED at
  /\ UNCHANGED <<receiver, message>>

-----------------------------------------------------------------------------
Next ==
  Receive \/ PosixHttpsReceive \/ EspHttpsReceive \/ HttpClientReceive \/ PosixServerReceive \/ EspServerReceive

Spec == Init /\ [][Next]_vars

\* The variables keep their types.
TypeOK ==
  /\ receiver \in Receivers /\ message \in Messages
  /\ at \in 0 .. Len(message)
  /\ pc \in {"program", "headers", "body", "done", "failed"}
  /\ length \in {0, 1, LengthOf(message)}
  /\ Len(buffer) <= BufferSize

\* What the program has put together is the beginning of the body, and all of it when it is
\* done: whatever the reads were, nothing is lost between the headers and the body, put in twice
\* or made up (receiveBlocking).  The clients keep it as long as no read splits a header; the
\* HTTPS client of Posix, which reads on after the headers, only for a message with a body:
\* when the peer closes it answers Success with the buffer as it was.
BodyIsExact ==
  /\ IsPrefix(received, BodyOf(message))
  /\ pc = "done" => received = BodyOf(message)
ClientsGetTheBody ==
  IsServer \/ (receiver = "PosixHttps" /\ BodyOf(message) = <<>>) \/ BodyIsExact

\* The part of the body that is read with the end of the headers is kept for the program.  The
\* servers do not: Negative makes them read again, into the same buffer.
RequestBodyIsKept == IsServer => BodyIsExact
=============================================================================
