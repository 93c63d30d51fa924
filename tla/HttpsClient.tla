---------------------------- MODULE HttpsClient ----------------------------
(***************************************************************************)
(* HttpsClient of the Posix and Esp ports: the contexts of mbedtls that    *)
(* connectTo initialises one after the other, the flag _connected, the     *)
(* socket of the IpClient inside, and the loop that writes a request.      *)
(* Every operation is an event of the network thread, except that          *)
(* disconnect looks at _connected on the thread of its caller.  mbedtls    *)
(* and the network are external: each of their calls may fail.  How a      *)
(* response is read is in HttpTransfer, how callers wait in BlockingCall.  *)
(***************************************************************************)
EXTENDS Naturals, Sequences, FiniteSets

CONSTANTS
  HttpsPorts,  \* the ports that are looked at
  Users,       \* threads that use the client
  FrameSize    \* the segments a request is written in at most

HttpsClientAssumption ==
  HttpsPorts \subseteq {"Posix", "Esp"} /\ FrameSize \in Nat \ {0}

VARIABLES
  https,      \* the port of this behaviour, constant
  contexts,   \* of each context of mbedtls: "raw", "ready" or "freed"
  connected,  \* _connected
  open,       \* whether the IpClient has a socket
  secure,     \* the handshake on this socket has succeeded and was verified
  calls,      \* the events of the users that wait, in the order they run
  writing,    \* the send that runs: its frame and what is written of it
  answers,    \* of each user: the operation and the result of its last call; of a send
              \* also whether the request was valid and the segments that were not written
  trusted,    \* a connectTo has answered Success, and no disconnect was called
  misuse      \* observation: what was done to a context that was not ready for it

vars == <<https, contexts, connected, open, secure, calls, writing, answers, trusted, misuse>>
connection == <<contexts, connected, open, secure, misuse>>

Contexts == {"ctrDrbg", "entropy", "cacert", "conf", "ssl"}
NoFrame == [on |-> FALSE, valid |-> FALSE, size |-> 0, written |-> 0]
Idle(u) == \A i \in DOMAIN calls : calls[i].user # u
Nobody == calls = <<>> /\ writing = NoFrame

Init ==
  /\ https \in HttpsPorts
  /\ contexts = [x \in Contexts |-> "raw"]
  /\ connected = FALSE /\ open = FALSE /\ secure = FALSE
  /\ calls = <<>> /\ writing = NoFrame
  /\ answers = [u \in Users |-> [op |-> "none", result |-> "none", valid |-> TRUE, rest |-> 0]]
  /\ trusted = FALSE /\ misuse = {}

-----------------------------------------------------------------------------
(* The callers.                                                            *)

Answer(u, o, r) == answers' = [answers EXCEPT ![u] = [op |-> o, result |-> r, valid |-> TRUE, rest |-> 0]]

\* addEvent, which refuses when the queue is full, also of the events of others.
AddEvent(u, o) ==
  \/ calls' = Append(calls, [user |-> u, op |-> o]) /\ UNCHANGED answers
  \/ Answer(u, o, "LimitReached") /\ UNCHANGED calls

\* A user sends and receives as long as it may think that the client is connected.
Call(u) ==
  /\ Idle(u)
  /\ \/ AddEvent(u, "connect") /\ UNCHANGED trusted
     \/ \E o \in {"send", "receive"} : trusted /\ AddEvent(u, o) /\ UNCHANGED trusted
     \/ connected /\ AddEvent(u, "disconnect") /\ trusted' = FALSE
     \/ ~connected /\ Answer(u, "disconnect", "Success") /\ trusted' = FALSE /\ UNCHANGED calls
  /\ UNCHANGED <<https, writing, connection>>

-----------------------------------------------------------------------------
(* The events.                                                             *)

Runs(o) == writing = NoFrame /\ calls # <<>> /\ Head(calls).op = o
Return(r) == Answer(Head(calls).user, Head(calls).op, r) /\ calls' = Tail(calls)

\* freeSslContexts, and what is wrong with it.
freeSslContexts == [x \in Contexts |-> "freed"]
FreesRaw == IF \E x \in Contexts : contexts[x] = "raw" THEN {"raw freed"} ELSE {}
UsesSsl == IF contexts["ssl"] = "ready" THEN {} ELSE {"ssl used"}

\* disconnectCb: the contexts are freed whether or not close_notify succeeds.
\* The socket of the IpClient stays open.
Disconnect(flag) ==
  /\ Runs("disconnect")
  /\ \E r \in {"Success", "Failure"} : (contexts["ssl"] # "ready" => r = "Failure") /\ Return(r)
  /\ contexts' = freeSslContexts /\ connected' = flag /\ secure' = FALSE
  /\ misuse' = misuse \cup FreesRaw \cup UsesSsl
  /\ UNCHANGED <<https, open, writing, trusted>>
PosixDisconnect == https = "Posix" /\ Disconnect(FALSE)
EspDisconnectKeepsFlag == https = "Esp" /\ Disconnect(connected)
EspDisconnect == https = "Esp" /\ Disconnect(FALSE)

\* What connectTo initialises before each step that may fail, in the order of the
\* steps; "done" is past the last one.
PosixSteps ==
  <<[fails |-> "crypto", init |-> {}], [fails |-> "seed", init |-> {"ctrDrbg", "entropy"}],
    [fails |-> "parse", init |-> {"cacert"}], [fails |-> "ip", init |-> {}],
    [fails |-> "config", init |-> {"conf"}], [fails |-> "setup", init |-> {"ssl"}],
    [fails |-> "hostname", init |-> {}], [fails |-> "handshake", init |-> {}], [fails |-> "done", init |-> {}]>>
EspSteps ==
  <<[fails |-> "crypto", init |-> {}], [fails |-> "seed", init |-> {"ctrDrbg", "entropy"}],
    [fails |-> "bundle", init |-> {"ssl", "cacert", "conf"}], [fails |-> "hostname", init |-> {}],
    [fails |-> "config", init |-> {}], [fails |-> "setup", init |-> {}],
    [fails |-> "ip", init |-> {}], [fails |-> "handshake", init |-> {}], [fails |-> "done", init |-> {}]>>

StepOf(steps, name) == CHOOSE i \in DOMAIN steps : steps[i].fails = name
InitialisedBefore(steps, i) == UNION {steps[j].init : j \in 1 .. i}

\* callbackError is Failure at first, then what IpClient::connectTo returns, and
\* Failure again when the handshake fails or does not verify.
ErrorAtKeepsSuccess(steps, i) == IF i <= StepOf(steps, "ip") THEN "Failure" ELSE "Success"
ErrorAt(steps, i) ==
  IF i < StepOf(steps, "ip") \/ steps[i].fails \in {"ip", "handshake"} THEN "Failure" ELSE "Success"

\* connectCb, which is left at step i: it disconnects first, and then initialises
\* contexts whether or not they hold memory already.
Connect(steps, i) ==
  LET before == IF connected THEN freeSslContexts ELSE contexts
      inits  == InitialisedBefore(steps, i)
      ip     == StepOf(steps, "ip")
  IN /\ Runs("connect")
     /\ contexts' = [x \in Contexts |-> IF x \in inits THEN "ready" ELSE before[x]]
     /\ misuse' = misuse \cup (IF connected THEN FreesRaw \cup UsesSsl ELSE {})
                         \cup (IF \E x \in inits : before[x] = "ready" THEN {"ready lost"} ELSE {})
     /\ open' = IF i < ip THEN open ELSE i > ip
     /\ secure' = (steps[i].fails = "done")
     /\ connected' = (ErrorAt(steps, i) = "Success")
     /\ trusted' = (ErrorAt(steps, i) = "Success")
     /\ Return(ErrorAt(steps, i))
     /\ UNCHANGED <<https, writing>>
PosixConnect == https = "Posix" /\ \E i \in DOMAIN PosixSteps : Connect(PosixSteps, i)
EspConnect == https = "Esp"   /\ \E i \in DOMAIN EspSteps : Connect(EspSteps, i)

\* sendCb: the request as FromHttpRequest has written it.  The error for a request that
\* has no method is dropped, its frame is empty.
BeginSend ==
  /\ Runs("send")
  /\ \E size \in 0 .. FrameSize : writing' = [on |-> TRUE, valid |-> size > 0, size |-> size, written |-> 0]
  /\ misuse' = misuse \cup UsesSsl
  /\ UNCHANGED <<https, contexts, connected, open, secure, calls, answers, trusted>>

EndSend(r, n) ==
  /\ writing' = NoFrame /\ calls' = Tail(calls)
  /\ answers' = [answers EXCEPT ![Head(calls).user] =
       [op |-> "send", result |-> r, valid |-> writing.valid, rest |-> writing.size - writing.written - n]]

\* What mbedtls_ssl_write returned is no error: 0 is one on Esp.
NoError(n) == n > 0 \/ https = "Posix"

\* A round of the loop: mbedtls_ssl_write wants to be called again (the frame stays as it
\* is), fails, or writes n segments.  The loop goes on after n that is no error as long as
\* the frame is not fully written.
Round ==
  /\ writing.on
  /\ \/ /\ contexts["ssl"] = "ready"
        /\ \E n \in 0 .. writing.size - writing.written :
             IF NoError(n) /\ writing.written + n < writing.size
             THEN writing' = [writing EXCEPT !.written = @ + n] /\ UNCHANGED <<calls, answers>>
             ELSE EndSend(IF NoError(n) THEN "Success" ELSE "Failure", n)
     \/ EndSend("Failure", 0)
  /\ UNCHANGED <<https, connection, trusted>>

\* Mutant of PosixSend: the frame is written with one call.
RoundOnce ==
  /\ writing.on
  /\ \/ /\ contexts["ssl"] = "ready"
        /\ \E n \in 0 .. writing.size - writing.written :
             EndSend(IF NoError(n) THEN "Success" ELSE "Failure", n)
     \/ EndSend("Failure", 0)
  /\ UNCHANGED <<https, connection, trusted>>
PosixSendOnce == https = "Posix" /\ RoundOnce
PosixSend == https = "Posix" /\ Round
EspSend == https = "Esp"   /\ Round

\* receiveCallback, as far as the connection is concerned.
Receive ==
  /\ Runs("receive")
  /\ misuse' = misuse \cup UsesSsl
  /\ \E r \in {"Success", "Failure"} : (contexts["ssl"] # "ready" => r = "Failure") /\ Return(r)
  /\ UNCHANGED <<https, contexts, connected, open, secure, writing, trusted>>

\* The object is destroyed, the IpClient with its socket too, and another is made.
Destroy ==
  /\ Nobody
  /\ misuse' = misuse \cup FreesRaw \cup (IF open THEN {"socket lost"} ELSE {})
  /\ contexts' = [x \in Contexts |-> "raw"]
  /\ connected' = FALSE /\ open' = FALSE /\ secure' = FALSE /\ trusted' = FALSE
  /\ UNCHANGED <<https, calls, writing, answers>>

-----------------------------------------------------------------------------
Next ==
  \/ \E u \in Users : Call(u)
  \/ PosixConnect \/ PosixSend \/ PosixDisconnect
  \/ EspConnect \/ EspSend \/ EspDisconnect
  \/ BeginSend \/ Receive \/ Destroy

Spec == Init /\ [][Next]_vars

\* The variables keep their types.
TypeOK ==
  /\ https \in HttpsPorts
  /\ contexts \in [Contexts -> {"raw", "ready", "freed"}]
  /\ {connected, open, secure, trusted} \subseteq BOOLEAN
  /\ Len(calls) \in 0 .. Cardinality(Users)
  /\ writing.written \in 0 .. FrameSize /\ writing.size \in 0 .. FrameSize
  /\ misuse \subseteq {"raw freed", "ssl used", "ready lost", "socket lost"}

\* _connected says that the peer was verified: nothing is sent over a connection whose
\* handshake failed or did not take place (connectTo).  The Posix port does not keep it: when
\* ssl_config_defaults, ssl_setup or ssl_set_hostname fail the Success of the IpClient is kept.
ConnectedIsSecure == connected => secure /\ open
EspConnectedIsSecure == https = "Esp" => ConnectedIsSecure

\* A client with one user uses and frees the ssl context only while it is ready, whatever has
\* failed before (connectTo, disconnect, the destructor apart): on Esp _connected tells it.
EspUsesReady == https = "Esp" => "ssl used" \notin misuse

\* Nothing at all is misused; neither port keeps it: a connectTo that fails leaves contexts
\* that the next one initialises again, and the destructor frees contexts never initialised.
NothingIsMisused == misuse = {}

\* A request that sendBlocking says was sent has been written to its last segment, however
\* often mbedtls_ssl_write takes a part of it.
SentIsWhole == \A u \in Users : answers[u].result = "Success" => answers[u].rest = 0

\* Only a valid request is reported as sent; the Posix port does not keep it: for a request
\* without a method it writes nothing and answers Success.
SentIsValid == \A u \in Users : answers[u].result = "Success" => answers[u].valid
============================================================================
