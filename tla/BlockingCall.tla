---------------------------- MODULE BlockingCall ----------------------------
(***************************************************************************)
(* The blocking operations (IpClient, IpServer, HttpsClient, FileSystem):  *)
(* the caller puts an event into the queue of the thread that owns the     *)
(* resource.  The event refers to the caller's stack frame: it stores the  *)
(* result there, sets a flag there, and unblocks the caller, which runs    *)
(*    while (!done && LimitReached == block());                            *)
(* The owner's queue is the FIFO that EventFifo specifies; the callers'    *)
(* threads are those of ThreadBlocking.                                    *)
(*                                                                         *)
(* All these operations set the flag and then unblock, except for          *)
(* HttpsClient::disconnect and ::sendBlocking, which unblock first.        *)
(***************************************************************************)
EXTENDS Integers, Sequences, FiniteSets

CONSTANTS
  Callers,      \* the threads that call, none of them the server
  Server,       \* the thread that owns the resource and runs the events
  Capacity,     \* APP_MAX_QUEUEABLE_EVENTS of the server's queue
  FlagFirst,    \* the event sets the flag before it unblocks the caller
  Atomic,       \* threads of a higher priority than the others, one core
  MaxCalls,     \* bound: calls per caller
  StrayAt,      \* where a caller may be when it is unblocked from elsewhere
  MaxStrays     \* bound: unblocks of a caller that no event of its calls makes

ASSUME CallAssumption ==
  /\ Server \notin Callers
  /\ Capacity \in Nat \ {0}
  /\ FlagFirst \in BOOLEAN
  /\ Atomic \subseteq Callers \cup {Server}
  /\ MaxCalls \in Nat /\ MaxStrays \in Nat

Frames == Callers \X (1 .. MaxCalls)

VARIABLES
  pc,           \* where each caller is in its call, and the server in an event
  calls,        \* calls[c]: the number of calls c has begun
  queue,        \* the frames of the events that wait
  current,      \* the frame of the event that the server runs, or <<>>
  done,         \* the frames whose flag was set
  served,       \* the frames whose result was stored (callbackError)
  outcome,      \* what c's last completed call returned
  strays,       \* the number of stray unblocks
  blockCount, status, inBlock, result    \* the callers' OS thread records

callVars == <<calls, outcome>>
workVars == <<queue, current, done, served>>
osVars   == <<blockCount, status, inBlock, result>>
vars     == <<pc, callVars, workVars, strays, osVars>>

OS == INSTANCE ThreadBlocking WITH
  Threads <- Callers, Deletable <- {}, MaxPending <- MaxCalls + MaxStrays

Init ==
  /\ pc = [t \in Callers \cup {Server} |-> "idle"]
  /\ calls = [c \in Callers |-> 0]
  /\ queue = <<>> /\ current = <<>>
  /\ done = {} /\ served = {}
  /\ outcome = [c \in Callers |-> "None"]
  /\ strays = 0
  /\ OS!Init

-----------------------------------------------------------------------------

MidCall(t) == pc[t] \notin {"idle", "asleep"}
MayStep(t) == \A u \in Atomic \ {t} : ~MidCall(u)

Goto(t, from, to) ==
  /\ pc[t] = from
  /\ pc' = [pc EXCEPT ![t] = to]
  /\ MayStep(t)

\* The stack frame of c's current or last call.
FrameOf(c) == <<c, calls[c]>>

Enqueue(c) ==
  /\ Goto(c, "idle", "test")
  /\ calls[c] < MaxCalls
  /\ Len(queue) < Capacity
  /\ calls' = [calls EXCEPT ![c] = @ + 1]
  /\ queue' = Append(queue, FrameOf(c)')
  /\ UNCHANGED <<current, done, served, outcome, strays, osVars>>

\* addEvent returns LimitReached and so does the call.
Refused(c) ==
  /\ Goto(c, "idle", "idle")
  /\ calls[c] < MaxCalls
  /\ Len(queue) >= Capacity
  /\ calls'   = [calls EXCEPT ![c] = @ + 1]
  /\ outcome' = [outcome EXCEPT ![c] = "LimitReached"]
  /\ UNCHANGED <<workVars, strays, osVars>>

\* callbackError, which is Failure until the event stores the result.
ReturnFrom(c) ==
  /\ outcome' = [outcome EXCEPT ![c] = IF FrameOf(c) \in served THEN "Result"
                                                                ELSE "Failure"]
  /\ UNCHANGED <<calls, workVars, strays>>

SeeDone(c) ==
  /\ Goto(c, "test", "idle")
  /\ FrameOf(c) \in done
  /\ ReturnFrom(c)
  /\ UNCHANGED osVars

\* Mutant of SeeNotDone: the caller does not wait.
GiveUp(c) ==
  /\ Goto(c, "test", "idle")
  /\ FrameOf(c) \notin done
  /\ ReturnFrom(c)
  /\ UNCHANGED osVars

SeeNotDone(c) ==
  /\ Goto(c, "test", "block")
  /\ FrameOf(c) \notin done
  /\ UNCHANGED <<callVars, workVars, strays, osVars>>

Sleep(c) ==
  /\ Goto(c, "block", "asleep")
  /\ OS!Sleep(c)
  /\ UNCHANGED <<callVars, workVars, strays>>

\* block returns LimitReached: round the loop.
DoNotSleep(c) ==
  /\ Goto(c, "block", "test")
  /\ OS!TakePending(c)
  /\ UNCHANGED <<callVars, workVars, strays>>

\* block returns Success: the loop ends, whatever the flag says.
WakeUp(c) ==
  /\ Goto(c, "asleep", "idle")
  /\ OS!Wake(c)
  /\ ReturnFrom(c)

Continue(c) ==
  SeeDone(c) \/ SeeNotDone(c) \/ Sleep(c) \/ DoNotSleep(c) \/ WakeUp(c)

-----------------------------------------------------------------------------
(* The server runs the event at the head of its queue.                     *)

BeginEvent ==
  /\ Goto(Server, "idle", "serve")
  /\ queue # <<>>
  /\ current' = Head(queue)
  /\ queue' = Tail(queue)
  /\ UNCHANGED <<done, served, callVars, strays, osVars>>

\* Mutant of Serve: the result is not stored.
ServeWithoutResult ==
  /\ Goto(Server, "serve", IF FlagFirst THEN "flag" ELSE "unblock")
  /\ UNCHANGED <<workVars, callVars, strays, osVars>>

\* The operation itself; its result goes into the caller's frame.
Serve ==
  /\ Goto(Server, "serve", IF FlagFirst THEN "flag" ELSE "unblock")
  /\ served' = served \cup {current}
  /\ UNCHANGED <<queue, current, done, callVars, strays, osVars>>

EndEvent(step) ==
  IF (step = "unblock") = FlagFirst
  THEN /\ Goto(Server, step, "idle") /\ current' = <<>>
  ELSE /\ Goto(Server, step, IF FlagFirst THEN "unblock" ELSE "flag")
       /\ UNCHANGED current

SetDone ==
  /\ EndEvent("flag")
  /\ done' = done \cup {current}
  /\ UNCHANGED <<queue, served, callVars, strays, osVars>>

\* Mutant of UnblockCaller: the caller is forgotten.
UnblockNobody ==
  /\ EndEvent("unblock")
  /\ UNCHANGED <<queue, done, served, callVars, strays, osVars>>

UnblockCaller ==
  /\ EndEvent("unblock")
  /\ OS!Unblock(current[1])
  /\ UNCHANGED <<queue, done, served, callVars, strays>>

RunEvents == BeginEvent \/ Serve \/ SetDone \/ UnblockCaller

\* Somebody else unblocks a caller: another event queue or command queue that it
\* waits for at other times.
Stray(c) ==
  /\ strays < MaxStrays
  /\ pc[c] \in StrayAt
  /\ \A u \in Atomic : ~MidCall(u)
  /\ strays' = strays + 1
  /\ OS!Unblock(c)
  /\ UNCHANGED <<pc, callVars, workVars>>

Next ==
  \/ \E c \in Callers : Enqueue(c) \/ Refused(c) \/ Continue(c) \/ Stray(c)
  \/ RunEvents

Spec == Init /\ [][Next]_vars

\* The server and the callers that are in a call are scheduled; nobody has to
\* make a call and nobody has to be unblocked by others.
Fairness == WF_vars(RunEvents) /\ \A c \in Callers : WF_vars(Continue(c))

FairSpec == Spec /\ Fairness

-----------------------------------------------------------------------------

\* Every variable has its type; an event runs exactly when the server is in it.
TypeOK ==
  /\ pc \in [Callers \cup {Server} -> {"idle", "test", "block", "asleep",
                                       "serve", "flag", "unblock"}]
  /\ calls \in [Callers -> 0 .. MaxCalls]
  /\ queue \in Seq(Frames) /\ Len(queue) <= Capacity
  /\ current \in Frames \cup {<<>>}
  /\ current = <<>> <=> pc[Server] = "idle"
  /\ done \subseteq Frames /\ served \subseteq Frames
  /\ outcome \in [Callers -> {"None", "Result", "Failure", "LimitReached"}]
  /\ strays \in 0 .. MaxStrays

InProgress(f) == pc[f[1]] # "idle" /\ f = FrameOf(f[1])

\* An event that waits, or that still has to write into the frame of its caller,
\* belongs to a call that has not returned: the event captured the frame by
\* reference.
FramesAlive ==
  /\ \A i \in DOMAIN queue : InProgress(queue[i])
  /\ pc[Server] \in {"serve", "flag"} => InProgress(current)

Phase == [c \in Callers |-> IF pc[c] = "idle" THEN "idle"
                            ELSE IF FrameOf(c) \in served THEN "served" ELSE "pending"]

Call == INSTANCE SynchronousCall WITH phase <- Phase

\* A blocking operation implements a synchronous call: it returns when it was
\* carried out and with its result, or at once when the queue is full.
ImplementsCall == Call!Spec

\* A call returns "Failure" only when its event stored a Failure: while the
\* operation was not carried out the caller stays in its loop.
NoEarlyReturn == \A c \in Callers : outcome[c] # "Failure"

\* Every call returns, whichever of the flag and the unblock the caller sees
\* first: the wake-up is not lost between the test of the flag and block().
EveryCallReturns == \A c \in Callers : pc[c] # "idle" ~> pc[c] = "idle"
=============================================================================
