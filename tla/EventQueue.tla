----------------------------- MODULE EventQueue -----------------------------
(***************************************************************************)
(* Applications/Event/EventQueue.{hpp,cpp}: a ring of events that any      *)
(* thread may add to and that its owner runs.  There is no lock: the last  *)
(* index and the number of claimed slots are atomics, everything else is a *)
(* plain member.  One action is one access to a variable that another      *)
(* thread reads or writes, in program order.                               *)
(*                                                                         *)
(* Atomic names the threads whose calls are not interleaved with anybody   *)
(* else's steps: on a single core with fixed priorities, a thread of a     *)
(* higher priority than all the others.  With Atomic = {} every            *)
(* interleaving of a multi-core target is possible.                        *)
(*                                                                         *)
(* _waitingThreads has a slot for every thread, but only the owner may     *)
(* call runNextEvent (it is "not thread safe"), so that one slot is used.  *)
(***************************************************************************)
EXTENDS Integers, Sequences, FiniteSets

CONSTANTS
  Producers,    \* threads known to the operating system that add events
  Strangers,    \* threads that add events and are not known to it
  Owner,        \* the thread that created the queue and runs it
  Capacity,     \* APP_MAX_QUEUEABLE_EVENTS
  CountRange,   \* Count is unsigned and wraps at this value
  Modes,        \* the LoopModes that the owner calls runNextEvent with
  Atomic,       \* threads whose calls are not interleaved
  MaxAdds,      \* bound: calls of addEvent per producer
  MaxDirect,    \* bound: calls of addEvent per stranger and by the owner
  None          \* no thread; an event without a callback

ASSUME QueueAssumption ==
  /\ Owner \notin Producers \cup Strangers
  /\ Producers \cap Strangers = {}
  /\ Capacity \in Nat \ {0}
  /\ CountRange \in Nat /\ CountRange > Capacity
  /\ Modes \subseteq {"Polling", "Blocking"}
  /\ Atomic \subseteq Producers \cup {Owner}
  /\ MaxAdds \in Nat /\ MaxDirect \in Nat
  /\ None # Owner

Threads == Producers \cup Strangers \cup {Owner}
QueuedEvents == Producers \X (1 .. MaxAdds)
DirectEvents == (Strangers \cup {Owner}) \X (1 .. MaxDirect)
Events  == QueuedEvents \cup DirectEvents
Indices == 0 .. Capacity - 1

ASSUME NoneAssumption == None \notin Events

VARIABLES
  slots,        \* _events: the event in each slot, None when it has no callback
  first,        \* _currentEventQueueIndexFirst
  last,         \* _currentEventQueueIndexLast
  claimed,      \* _eventsClaimed
  ready,        \* _eventsReady
  waiting,      \* the used slot of _waitingThreads
  pc,           \* where each thread is in its call
  index,        \* index[p]: the slot that p's addEvent reserved
  more,         \* the owner's value of first # last before it stores it
  adds,         \* adds[t]: the number of addEvent calls t has begun
  accepted,     \* history: the queued events in the order of their slots
  ran,          \* history: the events whose callback was called, in order
  runs,         \* history: the number of those that came out of the ring
  blockCount, status, inBlock, result    \* the owner's OS thread record

queueVars == <<slots, first, last, claimed, ready, waiting>>
history   == <<adds, accepted, ran, runs>>
osVars    == <<blockCount, status, inBlock, result>>
vars      == <<queueVars, pc, index, more, history, osVars>>

OS == INSTANCE ThreadBlocking WITH
  Threads <- {Owner}, Deletable <- {}, MaxPending <- 1

Init ==
  /\ slots = [i \in Indices |-> None]
  /\ first = 0 /\ last = 0 /\ claimed = 0
  /\ ready = FALSE
  /\ waiting = None
  /\ pc = [t \in Threads |-> "idle"]
  /\ index = [p \in Producers |-> 0]
  /\ more = FALSE
  /\ adds = [t \in Threads |-> 0]
  /\ accepted = <<>> /\ ran = <<>> /\ runs = 0
  /\ OS!Init

-----------------------------------------------------------------------------

\* A thread that sleeps in block() does not keep the others from running.
MidCall(t) == pc[t] # "idle" /\ ~(t = Owner /\ inBlock[Owner])
MayStep(t) == \A u \in Atomic \ {t} : ~MidCall(u)

Goto(t, from, to) ==
  /\ pc[t] = from
  /\ pc' = [pc EXCEPT ![t] = to]
  /\ MayStep(t)

NewEvent(t) ==
  /\ adds[t] < IF t \in Producers THEN MaxAdds ELSE MaxDirect
  /\ adds' = [adds EXCEPT ![t] = @ + 1]

\* The event that t's current or last addEvent call is about.
EventOf(t) == <<t, adds[t]>>

-----------------------------------------------------------------------------
(* addEvent by a thread that has to queue.                                 *)

\* Mutant of PassGuard: off by one.
PassGuardWhenFull(p) ==
  /\ Goto(p, "idle", "claim")
  /\ claimed <= Capacity
  /\ NewEvent(p)
  /\ UNCHANGED <<queueVars, index, more, accepted, ran, runs, osVars>>

\* addEventIfNotFull: the load and the test.
PassGuard(p) ==
  /\ Goto(p, "idle", "claim")
  /\ claimed < Capacity
  /\ NewEvent(p)
  /\ UNCHANGED <<queueVars, index, more, accepted, ran, runs, osVars>>

\* The test fails: addEvent returns LimitReached.
Refuse(p) ==
  /\ Goto(p, "idle", "idle")
  /\ claimed >= Capacity
  /\ NewEvent(p)
  /\ UNCHANGED <<queueVars, index, more, accepted, ran, runs, osVars>>

\* addEventIfNotFull: fetch_add.
Claim(p) ==
  /\ Goto(p, "claim", "reserve")
  /\ claimed' = (claimed + 1) % CountRange
  /\ UNCHANGED <<slots, first, last, ready, waiting, index, more, history, osVars>>

\* Mutants of Reserve: last does not wrap; the index is taken after the increment.
ReserveNoWrap(p) ==
  /\ Goto(p, "reserve", "write")
  /\ index' = [index EXCEPT ![p] = last]
  /\ last' = last + 1
  /\ accepted' = Append(accepted, EventOf(p))
  /\ UNCHANGED <<slots, first, claimed, ready, waiting, more, adds, ran, runs, osVars>>
ReserveNext(p) ==
  /\ Goto(p, "reserve", "write")
  /\ last' = (last + 1) % Capacity
  /\ index' = [index EXCEPT ![p] = last']
  /\ accepted' = Append(accepted, EventOf(p))
  /\ UNCHANGED <<slots, first, claimed, ready, waiting, more, adds, ran, runs, osVars>>

\* The compare-exchange loop: the slot is p's, and the queue already looks one
\* longer.
Reserve(p) ==
  /\ Goto(p, "reserve", "write")
  /\ index' = [index EXCEPT ![p] = last]
  /\ last' = (last + 1) % Capacity
  /\ accepted' = Append(accepted, EventOf(p))
  /\ UNCHANGED <<slots, first, claimed, ready, waiting, more, adds, ran, runs, osVars>>

\* Mutant of Write: the slot is looked up again instead of remembered.
WriteAtLast(p) ==
  /\ Goto(p, "write", "publish")
  /\ slots' = [slots EXCEPT ![last] = EventOf(p)]
  /\ index' = [index EXCEPT ![p] = 0]
  /\ UNCHANGED <<first, last, claimed, ready, waiting, more, history, osVars>>

\* The event is moved into its slot; the index is not used any more.
Write(p) ==
  /\ Goto(p, "write", "publish")
  /\ slots' = [slots EXCEPT ![index[p]] = EventOf(p)]
  /\ index' = [index EXCEPT ![p] = 0]
  /\ UNCHANGED <<first, last, claimed, ready, waiting, more, history, osVars>>

\* Mutant of Publish: addEvent does not look for waiting threads.
PublishWithoutScan(p) ==
  /\ Goto(p, "publish", "idle")
  /\ ready' = TRUE
  /\ UNCHANGED <<slots, first, last, claimed, waiting, index, more, history, osVars>>

Publish(p) ==
  /\ Goto(p, "publish", "scan")
  /\ ready' = TRUE
  /\ UNCHANGED <<slots, first, last, claimed, waiting, index, more, history, osVars>>

\* The scan of _waitingThreads finds nobody: addEvent returns Success.
ScanNobody(p) ==
  /\ Goto(p, "scan", "idle")
  /\ waiting = None
  /\ UNCHANGED <<queueVars, index, more, history, osVars>>

\* ... or finds the owner, which may be gone by the time it is unblocked.
ScanOwner(p) ==
  /\ Goto(p, "scan", "unblock")
  /\ waiting = Owner
  /\ UNCHANGED <<queueVars, index, more, history, osVars>>

UnblockOwner(p) ==
  /\ Goto(p, "unblock", "idle")
  /\ OS!Unblock(Owner)
  /\ UNCHANGED <<queueVars, index, more, history>>

\* The slot of the list is read again for the call, and is empty by then.
UnblockNobody(p) ==
  /\ Goto(p, "unblock", "idle")
  /\ waiting = None
  /\ UNCHANGED <<queueVars, index, more, history, osVars>>

AddEvent(p) ==
  \/ PassGuard(p) \/ Refuse(p) \/ Claim(p) \/ Reserve(p) \/ Write(p)
  \/ Publish(p) \/ ScanNobody(p) \/ ScanOwner(p) \/ UnblockOwner(p)
  \/ UnblockNobody(p)

-----------------------------------------------------------------------------
(* addEvent by a thread that skips the queue.                              *)

\* From the owner's thread, in a callback or between two calls.
AddFromOwner ==
  /\ pc[Owner] \in {"idle", "callback"}
  /\ MayStep(Owner)
  /\ NewEvent(Owner)
  /\ ran' = Append(ran, EventOf(Owner)')
  /\ UNCHANGED <<queueVars, pc, index, more, accepted, runs, osVars>>

\* From a thread that is not known: the callback runs on that thread.
BeginDirect(s) ==
  /\ Goto(s, "idle", "callback")
  /\ NewEvent(s)
  /\ ran' = Append(ran, EventOf(s)')
  /\ UNCHANGED <<queueVars, index, more, accepted, runs, osVars>>

EndDirect(s) ==
  /\ Goto(s, "callback", "idle")
  /\ UNCHANGED <<queueVars, index, more, history, osVars>>

-----------------------------------------------------------------------------
(* runNextEvent by the owner.  Only the owner clears ready, so that reading *)
(* it and calling the event are one action.                                 *)

BeginRun ==
  /\ Goto(Owner, "idle", "callback")
  /\ ready
  /\ slots[first] # None
  /\ ran' = Append(ran, slots[first])
  /\ runs' = runs + 1
  /\ UNCHANGED <<queueVars, index, more, adds, accepted, osVars>>

\* Event::run finds no callback and returns InvalidParameter.
RunEmpty ==
  /\ Goto(Owner, "idle", "release")
  /\ ready
  /\ slots[first] = None
  /\ UNCHANGED <<queueVars, index, more, history, osVars>>

\* Mutant of EndRun: the callback stays valid.
EndRunKeepsCallback ==
  /\ Goto(Owner, "callback", "release")
  /\ UNCHANGED <<queueVars, index, more, history, osVars>>

\* Event::run drops the callback after it returned.
EndRun ==
  /\ Goto(Owner, "callback", "release")
  /\ slots' = [slots EXCEPT ![first] = None]
  /\ UNCHANGED <<first, last, claimed, ready, waiting, index, more, history, osVars>>

\* Mutant of Release: the claim is never given back.
ReleaseNothing ==
  /\ Goto(Owner, "release", "advance")
  /\ UNCHANGED <<queueVars, index, more, history, osVars>>

Release ==
  /\ Goto(Owner, "release", "advance")
  /\ claimed' = (claimed - 1) % CountRange
  /\ UNCHANGED <<slots, first, last, ready, waiting, index, more, history, osVars>>

\* Mutant of Advance: the indices are compared before first is advanced.
CompareBeforeAdvance ==
  /\ Goto(Owner, "advance", "store")
  /\ first' = (first + 1) % Capacity
  /\ more' = (first # last)
  /\ UNCHANGED <<slots, last, claimed, ready, waiting, index, history, osVars>>

\* first is only the owner's; last is loaded and compared ...
Advance ==
  /\ Goto(Owner, "advance", "store")
  /\ first' = (first + 1) % Capacity
  /\ more' = (first' # last)
  /\ UNCHANGED <<slots, last, claimed, ready, waiting, index, history, osVars>>

\* Mutant of StoreReady: events are never ready.
StoreNotReady ==
  /\ Goto(Owner, "store", "idle")
  /\ ready' = FALSE
  /\ more' = FALSE
  /\ UNCHANGED <<slots, first, last, claimed, waiting, index, history, osVars>>

\* ... and the result is stored.
StoreReady ==
  /\ Goto(Owner, "store", "idle")
  /\ ready' = more
  /\ more' = FALSE
  /\ UNCHANGED <<slots, first, last, claimed, waiting, index, history, osVars>>

\* Polling and nothing is ready: NoData.
PollNothing ==
  /\ "Polling" \in Modes
  /\ pc[Owner] = "idle" /\ MayStep(Owner)
  /\ ~ready
  /\ UNCHANGED vars

-----------------------------------------------------------------------------
(* waitForEvents by the owner.                                             *)

\* Blocking and nothing is ready; an event may arrive before the owner is in
\* the list of waiting threads.
SeeNothing ==
  /\ Goto(Owner, "idle", "register")
  /\ "Blocking" \in Modes
  /\ ~ready
  /\ UNCHANGED <<queueVars, index, more, history, osVars>>

Register ==
  /\ Goto(Owner, "register", "block")
  /\ waiting' = Owner
  /\ UNCHANGED <<slots, first, last, claimed, ready, index, more, history, osVars>>

Sleep ==
  /\ Goto(Owner, "block", "asleep")
  /\ OS!Sleep(Owner)
  /\ UNCHANGED <<queueVars, index, more, history>>

DoNotSleep ==
  /\ Goto(Owner, "block", "deregister")
  /\ OS!TakePending(Owner)
  /\ UNCHANGED <<queueVars, index, more, history>>

WakeUp ==
  /\ Goto(Owner, "asleep", "deregister")
  /\ OS!Wake(Owner)
  /\ UNCHANGED <<queueVars, index, more, history>>

Deregister ==
  /\ Goto(Owner, "deregister", "idle")
  /\ waiting' = None
  /\ UNCHANGED <<slots, first, last, claimed, ready, index, more, history, osVars>>

RunNextEvent ==
  \/ BeginRun \/ RunEmpty \/ EndRun \/ Release \/ Advance \/ StoreReady
  \/ PollNothing
  \/ SeeNothing \/ Register \/ Sleep \/ DoNotSleep \/ WakeUp \/ Deregister

Next ==
  \/ \E p \in Producers : AddEvent(p)
  \/ \E s \in Strangers : BeginDirect(s) \/ EndDirect(s)
  \/ AddFromOwner
  \/ RunNextEvent

Spec == Init /\ [][Next]_vars

\* The owner calls runNextEvent for ever and every thread that is in a call is
\* scheduled; nobody has to call addEvent.
Fairness ==
  /\ WF_vars(RunNextEvent)
  /\ \A p \in Producers : WF_vars(pc[p] # "idle" /\ AddEvent(p))
  /\ \A s \in Strangers : WF_vars(EndDirect(s))

FairSpec == Spec /\ Fairness

-----------------------------------------------------------------------------

Labels == {"idle", "claim", "reserve", "write", "publish", "scan", "unblock",
           "callback", "release", "advance", "store",
           "register", "block", "asleep", "deregister"}

\* Every variable has its type; claimed is a Count, index and first are slots.
TypeOK ==
  /\ slots \in [Indices -> Events \cup {None}]
  /\ first \in Indices /\ last \in Indices
  /\ claimed \in 0 .. CountRange - 1
  /\ ready \in BOOLEAN /\ more \in BOOLEAN
  /\ waiting \in {Owner, None}
  /\ pc \in [Threads -> Labels]
  /\ index \in [Producers -> Indices]
  /\ adds \in [Threads -> Nat]
  /\ \A t \in Threads : adds[t] <= IF t \in Producers THEN MaxAdds ELSE MaxDirect
  /\ accepted \in Seq(Events) /\ ran \in Seq(Events) /\ runs \in Nat

\* No event is run twice, in whatever order producers and owner step and even
\* when the ring is corrupted (Event::run clears the callback; addEvent moves it).
AtMostOnce == \A i, j \in DOMAIN ran : ran[i] = ran[j] => i = j

\* The events that were accepted and not yet run, oldest first.
Outstanding == SubSeq(accepted, runs + 1, Len(accepted))

\* Between two producer calls _eventsClaimed is the number of accepted events
\* that have not run, plus one while the owner has not released the last one.
ClaimsAreExact ==
  claimed = Len(Outstanding)
            + Cardinality({p \in Producers : pc[p] = "reserve"})
            + (IF pc[Owner] \in {"callback", "release"} THEN 1 ELSE 0)

\* The outstanding events lie in the ring one after the other, starting at the
\* slot that the owner runs next.
RingHoldsOutstanding ==
  (\A p \in Producers : pc[p] = "idle") =>
    LET skip == IF pc[Owner] \in {"callback", "release", "advance"} THEN 1 ELSE 0
    IN \A k \in 1 .. Len(Outstanding) :
         slots[(first + skip + k - 1) % Capacity] = Outstanding[k]

\* No producer writes over an event that was accepted and has not been run.
NoOverwrite ==
  \A p \in Producers : pc[p] = "write" =>
     slots[index[p]] = None

Fifo == INSTANCE EventFifo WITH
  Queued <- QueuedEvents, Direct <- DirectEvents, queue <- Outstanding

\* The ring with its flags implements a bounded FIFO queue that runs its head.
ImplementsFifo == Fifo!Spec

Quiet == \A p \in Producers : pc[p] = "idle"

\* When no addEvent is in progress and the owner is between two runs, the queue
\* says that events are ready whenever some are waiting (EventQueue.cpp, the
\* comment on the update of _eventsReady).
ReadyWhenWaiting ==
  Quiet /\ pc[Owner] = "idle" /\ Outstanding # <<>> => ready

\* When no addEvent is in progress the owner does not sleep on a queue that says
\* it has events (EventQueue.hpp, runNextEvent: blocked until an event is added).
NoSleepOnEvents == Quiet /\ ready => status[Owner] # "Blocked"

\* A queue that refuses events is not one that its owner will never run again
\* (EventQueue.hpp, addEvent: will be executed when this thread is running).
NeverWedged ==
  Quiet /\ pc[Owner] = "idle" /\ ~ready => claimed < Capacity

\* Nothing that waits in the ring is overlooked: the flag is set, nobody sleeps on it
\* with no unblock pending, and the ring has a place for what was claimed.
NobodyOversleeps == ReadyWhenWaiting /\ NoSleepOnEvents /\ NeverWedged

\* Whatever addEvent sees as full has at most Capacity claims
\* (EventQueue.cpp, the comment on the guard).
ClaimsWithinCapacity == claimed <= Capacity

\* The owner never runs a slot whose event has not been written yet
\* (EventQueue.cpp, the comment on _eventsReady).
NeverRunsEmpty == pc[Owner] = "idle" /\ ready => slots[first] # None

\* The ring never lies: the number of claims is that of the events in it and of the
\* calls under way, its occupied slots hold what was accepted and not yet run in that
\* order, no event is overwritten and the owner never runs an empty slot.
RingIsExact == ClaimsAreExact /\ RingHoldsOutstanding /\ NoOverwrite /\ NeverRunsEmpty

\* Callbacks do not run at the same time on two threads
\* (EventQueue.hpp: "synchronizing calls to base classes").
Serialized ==
  \A t, u \in Threads : pc[t] = "callback" /\ pc[u] = "callback" => t = u

\* Every accepted event is eventually run.
EveryAcceptedRuns ==
  \A e \in QueuedEvents :
     (\E i \in DOMAIN accepted : accepted[i] = e)
       ~> (\E i \in DOMAIN ran : ran[i] = e)
=============================================================================
