---------------------------- MODULE CommandQueue ----------------------------
(***************************************************************************)
(* Applications/CommandQueue/CommandQueue.hpp: a static ring of commands.  *)
(* Any thread may add and any thread may get; addToQueue and getNextInQueue *)
(* are documented as interrupt and thread safe.  Both indices and the      *)
(* number of claimed slots are atomics; _CommandsReady, the slots and the  *)
(* waiting list are plain.  One action is one access to a variable that    *)
(* another thread reads or writes, in program order.                       *)
(*                                                                         *)
(* Atomic names the threads whose calls are not interleaved with anybody   *)
(* else's steps (see EventQueue).  Data is a trivially copyable T: a slot  *)
(* keeps its command when it is moved from.                                *)
(***************************************************************************)
EXTENDS Integers, Sequences, FiniteSets

CONSTANTS
  Producers,    \* threads that add commands
  Consumers,    \* threads that get commands and wait for them
  Capacity,     \* APP_MAX_QUEUEABLE_COMMANDS
  CountRange,   \* Count is unsigned and wraps at this value
  Atomic,       \* threads whose calls are not interleaved
  Room,         \* bound: nobody adds while this many slots are claimed
  MaxAdds,      \* bound: calls of addToQueue per producer
  None          \* no thread; no command

ASSUME CommandAssumption ==
  /\ Producers \cap Consumers = {}
  /\ IsFiniteSet(Consumers)
  /\ Capacity \in Nat \ {0}
  /\ CountRange \in Nat /\ CountRange > Capacity
  /\ Atomic \subseteq Producers \cup Consumers
  /\ Room \in Nat /\ MaxAdds \in Nat
  /\ None \notin Consumers

Threads  == Producers \cup Consumers
Commands == Producers \X (1 .. MaxAdds)
Indices  == 0 .. Capacity - 1
Places   == 1 .. Cardinality(Consumers)

ASSUME NoneAssumption == None \notin Commands

VARIABLES
  slots,        \* _Commands
  first,        \* _CurrentCommandQueueIndexFirst
  last,         \* _CurrentCommandQueueIndexLast
  claimed,      \* _CommandsClaimed
  ready,        \* _CommandsReady
  waiting,      \* _WaitingThreads
  pc,           \* where each thread is in its call
  index,        \* the slot that p reserved; c's copy of first
  more,         \* c's value of first # last before it stores it
  place,        \* the place of the waiting list that a thread is at
  adds,         \* adds[p]: the number of addToQueue calls p has begun
  accepted,     \* history: the commands in the order of their slots
  removed,      \* history: the number of times that first was advanced
  again,        \* history: the commands that were returned and stayed in the ring
  got,          \* history: what getNextInQueue returned with Success
  blockCount, status, inBlock, result    \* the consumers' OS thread records

ringVars  == <<slots, first, last, claimed, ready>>
localVars == <<index, more, place>>
history   == <<adds, accepted, removed, again, got>>
osVars    == <<blockCount, status, inBlock, result>>
vars      == <<ringVars, waiting, pc, localVars, history, osVars>>

OS == INSTANCE ThreadBlocking WITH
  Threads <- Consumers, Deletable <- {}, MaxPending <- 1

Init ==
  /\ slots = [i \in Indices |-> None]
  /\ first = 0 /\ last = 0 /\ claimed = 0
  /\ ready = FALSE
  /\ waiting = [k \in Places |-> None]
  /\ pc = [t \in Threads |-> "idle"]
  /\ index = [t \in Threads |-> 0]
  /\ more = [c \in Consumers |-> FALSE]
  /\ place = [t \in Threads |-> 1]
  /\ adds = [p \in Producers |-> 0]
  /\ accepted = <<>> /\ removed = 0 /\ again = 0 /\ got = <<>>
  /\ OS!Init

-----------------------------------------------------------------------------

\* A thread that sleeps in block() does not keep the others from running.
MidCall(t) == pc[t] \notin {"idle", "asleep"}
MayStep(t) == \A u \in Atomic \ {t} : ~MidCall(u)

Goto(t, from, to) ==
  /\ pc[t] = from
  /\ pc' = [pc EXCEPT ![t] = to]
  /\ MayStep(t)

CommandOf(p) == <<p, adds[p]>>

-----------------------------------------------------------------------------
(* addToQueue.                                                             *)

BeginAdd(p, to) ==
  /\ Goto(p, "idle", to)
  /\ adds[p] < MaxAdds
  /\ adds' = [adds EXCEPT ![p] = @ + 1]
  /\ UNCHANGED <<ringVars, waiting, localVars, accepted, removed, again, got, osVars>>

\* addCommandIfNotFull: the load and the test.
PassGuard(p) == claimed < Capacity /\ claimed < Room /\ BeginAdd(p, "claim")

\* The test fails: addToQueue returns LimitReached.
Refuse(p) == claimed >= Capacity /\ BeginAdd(p, "idle")

\* addCommandIfNotFull: fetch_add.
Claim(p) ==
  /\ Goto(p, "claim", "reserve")
  /\ claimed' = (claimed + 1) % CountRange
  /\ UNCHANGED <<slots, first, last, ready, waiting, localVars, history, osVars>>

\* The compare-exchange loop.
Reserve(p) ==
  /\ Goto(p, "reserve", "write")
  /\ index' = [index EXCEPT ![p] = last]
  /\ last' = (last + 1) % Capacity
  /\ accepted' = Append(accepted, CommandOf(p))
  /\ UNCHANGED <<slots, first, claimed, ready, waiting, more, place, adds, removed,
                 again, got, osVars>>

Write(p) ==
  /\ Goto(p, "write", "publish")
  /\ slots' = [slots EXCEPT ![index[p]] = CommandOf(p)]
  /\ index' = [index EXCEPT ![p] = 0]
  /\ UNCHANGED <<first, last, claimed, ready, waiting, more, place, history, osVars>>

\* Mutants of Publish: the flag is forgotten; so are the waiting threads.
PublishNothing(p) ==
  /\ Goto(p, "publish", "scan")
  /\ UNCHANGED <<ringVars, waiting, localVars, history, osVars>>
PublishWithoutScan(p) ==
  /\ Goto(p, "publish", "idle")
  /\ ready' = TRUE
  /\ UNCHANGED <<slots, first, last, claimed, waiting, localVars, history, osVars>>

Publish(p) ==
  /\ Goto(p, "publish", "scan")
  /\ ready' = TRUE
  /\ UNCHANGED <<slots, first, last, claimed, waiting, localVars, history, osVars>>

\* The next place of the waiting list, or the end of it.
NextPlace(p, from) ==
  /\ IF place[p] \in Places
     THEN /\ Goto(p, from, "scan") /\ place' = [place EXCEPT ![p] = @ + 1]
     ELSE /\ Goto(p, from, "idle") /\ place' = [place EXCEPT ![p] = 1]
  /\ UNCHANGED <<ringVars, waiting, index, more, history>>

ScanNobody(p) ==
  /\ place[p] \in Places => waiting[place[p]] = None
  /\ NextPlace(p, "scan")
  /\ UNCHANGED osVars

ScanSomebody(p) ==
  /\ Goto(p, "scan", "unblock")
  /\ place[p] \in Places
  /\ waiting[place[p]] # None
  /\ UNCHANGED <<ringVars, waiting, localVars, history, osVars>>

\* The place is read again; the thread may have left it, and then nobody is
\* unblocked.
UnblockWaiting(p) ==
  /\ NextPlace(p, "unblock")
  /\ IF waiting[place[p]] = None THEN UNCHANGED osVars
                                 ELSE OS!Unblock(waiting[place[p]])

AddToQueue(p) ==
  \/ PassGuard(p) \/ Refuse(p) \/ Claim(p) \/ Reserve(p) \/ Write(p) \/ Publish(p)
  \/ ScanNobody(p) \/ ScanSomebody(p) \/ UnblockWaiting(p)

-----------------------------------------------------------------------------
(* getNextInQueue.                                                         *)

\* Nothing is ready: NoData.
GetNothing(c) ==
  /\ pc[c] = "idle" /\ MayStep(c)
  /\ ~ready
  /\ UNCHANGED vars

SeeReady(c) ==
  /\ Goto(c, "idle", "first")
  /\ ready
  /\ UNCHANGED <<ringVars, waiting, localVars, history, osVars>>

LoadFirst(c) ==
  /\ Goto(c, "first", "last")
  /\ index' = [index EXCEPT ![c] = first]
  /\ UNCHANGED <<ringVars, waiting, more, place, history, osVars>>

\* Mutant of LoadLast: the comparison is one too far.
LoadLastOneOff(c) ==
  /\ Goto(c, "last", "store")
  /\ more' = [more EXCEPT ![c] = (index[c] + 1) % Capacity # last]
  /\ UNCHANGED <<ringVars, waiting, index, place, history, osVars>>

\* The loop's condition: last is loaded and compared ...
LoadLast(c) ==
  /\ Goto(c, "last", "store")
  /\ more' = [more EXCEPT ![c] = index[c] # last]
  /\ UNCHANGED <<ringVars, waiting, index, place, history, osVars>>

\* Mutant of StoreReady: the flag says what is left after this command.
StoreWhatIsLeft(c) ==
  /\ Goto(c, "store", "test")
  /\ ready' = (more[c] /\ (index[c] + 1) % Capacity # last)
  /\ UNCHANGED <<slots, first, last, claimed, waiting, localVars, history, osVars>>

\* ... and the result is stored.
StoreReady(c) ==
  /\ Goto(c, "store", "test")
  /\ ready' = more[c]
  /\ UNCHANGED <<slots, first, last, claimed, waiting, localVars, history, osVars>>

\* The loop tests what it stored. _CommandsReady is neither atomic nor volatile: the
\* build may keep the value that it stored or load what another thread made of it.
Test(c) ==
  /\ \E seen \in {more[c], ready} : Goto(c, "test", IF seen THEN "advance" ELSE "reread")
  /\ more' = [more EXCEPT ![c] = FALSE]
  /\ UNCHANGED <<ringVars, waiting, index, place, history, osVars>>

\* After a loop that found nothing _CommandsReady is tested once more: NoData ...
FoundNothing(c) ==
  /\ Goto(c, "reread", "idle")
  /\ index' = [index EXCEPT ![c] = 0]
  /\ UNCHANGED <<ringVars, waiting, more, place, history, osVars>>

\* ... unless it is loaded again and a producer has set it since: the slot is taken
\* although first was not advanced.
FoundLate(c) ==
  /\ Goto(c, "reread", "take")
  /\ ready
  /\ again' = again + 1
  /\ UNCHANGED <<ringVars, waiting, localVars, adds, accepted, removed, got, osVars>>

\* When there is a command first is advanced by compare and exchange, ...
Advance(c) ==
  /\ Goto(c, "advance", "recheck")
  /\ first = index[c]
  /\ first' = (index[c] + 1) % Capacity
  /\ removed' = removed + 1
  /\ UNCHANGED <<slots, last, claimed, ready, waiting, localVars, adds, accepted,
                 again, got, osVars>>

\* ... which fails when another thread was faster, or spuriously.
Retry(c) ==
  /\ Goto(c, "advance", "last")
  /\ index' = [index EXCEPT ![c] = first]
  /\ UNCHANGED <<ringVars, waiting, more, place, history, osVars>>

\* _CommandsReady is read again: another thread may have written it.
Recheck(c) ==
  /\ Goto(c, "recheck", IF ready THEN "take" ELSE "idle")
  /\ index' = [index EXCEPT ![c] = IF ready THEN @ ELSE 0]
  /\ UNCHANGED <<ringVars, waiting, more, place, history, osVars>>

\* Mutant of Take: the index is read after it was advanced.
TakeAtFirst(c) ==
  /\ Goto(c, "take", "release")
  /\ got' = Append(got, slots[first])
  /\ index' = [index EXCEPT ![c] = 0]
  /\ UNCHANGED <<ringVars, waiting, more, place, adds, accepted, removed, again,
                 osVars>>

Take(c) ==
  /\ Goto(c, "take", "release")
  /\ got' = Append(got, slots[index[c]])
  /\ index' = [index EXCEPT ![c] = 0]
  /\ UNCHANGED <<ringVars, waiting, more, place, adds, accepted, removed, again,
                 osVars>>

\* Mutant of Release: the claim is never given back.
ReleaseNothing(c) ==
  /\ Goto(c, "release", "idle")
  /\ UNCHANGED <<ringVars, waiting, localVars, history, osVars>>

Release(c) ==
  /\ Goto(c, "release", "idle")
  /\ claimed' = (claimed - 1) % CountRange
  /\ UNCHANGED <<slots, first, last, ready, waiting, localVars, history, osVars>>

GetNextInQueue(c) ==
  \/ GetNothing(c) \/ SeeReady(c) \/ LoadFirst(c) \/ LoadLast(c) \/ StoreReady(c)
  \/ Test(c) \/ FoundNothing(c) \/ FoundLate(c) \/ Advance(c) \/ Retry(c) \/ Recheck(c) \/ Take(c) \/ Release(c)

-----------------------------------------------------------------------------
(* WaitForCommands, for one queue.                                         *)

\* commandsReady: first is loaded ...
BeginWait(c) ==
  /\ Goto(c, "idle", "compare")
  /\ index' = [index EXCEPT ![c] = first]
  /\ UNCHANGED <<ringVars, waiting, more, place, history, osVars>>

\* ... and compared with last.
Compare(c) ==
  /\ Goto(c, "compare", IF index[c] = last THEN "find" ELSE "idle")
  /\ index' = [index EXCEPT ![c] = 0]
  /\ UNCHANGED <<ringVars, waiting, more, place, history, osVars>>

\* addToWaitingList: find a free place ...
FindPlace(c) ==
  /\ Goto(c, "find", "register")
  /\ \E k \in Places :
       /\ waiting[k] = None /\ \A j \in 1 .. k - 1 : waiting[j] # None
       /\ place' = [place EXCEPT ![c] = k]
  /\ UNCHANGED <<ringVars, waiting, index, more, history, osVars>>

\* ... and take it.
Register(c) ==
  /\ Goto(c, "register", "block")
  /\ waiting' = [waiting EXCEPT ![place[c]] = c]
  /\ place' = [place EXCEPT ![c] = 1]
  /\ UNCHANGED <<ringVars, index, more, history, osVars>>

Sleep(c) ==
  /\ Goto(c, "block", "asleep")
  /\ OS!Sleep(c)
  /\ UNCHANGED <<ringVars, waiting, localVars, history>>

DoNotSleep(c) ==
  /\ Goto(c, "block", "deregister")
  /\ OS!TakePending(c)
  /\ UNCHANGED <<ringVars, waiting, localVars, history>>

WakeUp(c) ==
  /\ Goto(c, "asleep", "deregister")
  /\ OS!Wake(c)
  /\ UNCHANGED <<ringVars, waiting, localVars, history>>

\* removeFromWaitingList: the first place that holds c, if any.
Deregister(c) ==
  /\ Goto(c, "deregister", "idle")
  /\ waiting' = [k \in Places |->
       IF waiting[k] = c /\ \A j \in 1 .. k - 1 : waiting[j] # c THEN None
                                                                 ELSE waiting[k]]
  /\ UNCHANGED <<ringVars, localVars, history, osVars>>

WaitForCommands(c) ==
  \/ BeginWait(c) \/ Compare(c) \/ FindPlace(c) \/ Register(c)
  \/ Sleep(c) \/ DoNotSleep(c) \/ WakeUp(c) \/ Deregister(c)

Next ==
  \/ \E p \in Producers : AddToQueue(p)
  \/ \E c \in Consumers : GetNextInQueue(c) \/ WaitForCommands(c)

Spec == Init /\ [][Next]_vars

\* Threads that are in a call are scheduled, and a consumer gets again and again
\* (its loop gets after every wait); compare_exchange_weak does not fail for
\* ever without a reason; nobody has to add or to wait.
Fairness ==
  /\ \A p \in Producers : WF_vars(pc[p] # "idle" /\ AddToQueue(p))
  /\ \A c \in Consumers :
       /\ WF_vars(pc[c] # "idle" /\ (GetNextInQueue(c) \/ WaitForCommands(c)))
       /\ SF_vars(SeeReady(c)) /\ SF_vars(Advance(c))

FairSpec == Spec /\ Fairness

-----------------------------------------------------------------------------

Labels == {"idle", "claim", "reserve", "write", "publish", "scan", "unblock",
           "first", "last", "store", "test", "reread", "advance", "recheck", "take", "release",
           "compare", "find", "register", "block", "asleep", "deregister"}

\* Every variable has its type.
TypeOK ==
  /\ slots \in [Indices -> Commands \cup {None}]
  /\ first \in Indices /\ last \in Indices
  /\ claimed \in 0 .. CountRange - 1
  /\ ready \in BOOLEAN /\ more \in [Consumers -> BOOLEAN]
  /\ waiting \in [Places -> Consumers \cup {None}]
  /\ pc \in [Threads -> Labels]
  /\ index \in [Threads -> Indices]
  /\ place \in [Threads -> 1 .. Cardinality(Consumers) + 1]
  /\ adds \in [Producers -> 0 .. MaxAdds]
  /\ accepted \in Seq(Commands) /\ removed \in Nat /\ again \in Nat
  /\ got \in Seq(Commands \cup {None})

At(labels) == Cardinality({t \in Threads : pc[t] \in labels})

\* The commands that were accepted and not yet returned, oldest first.
Outstanding == SubSeq(accepted, Len(got) + 1, Len(accepted))

Fifo == INSTANCE EventFifo WITH
  Queued <- Commands, Direct <- {}, queue <- Outstanding, ran <- got

\* The ring implements a bounded FIFO queue until a command is returned and stays in
\* the ring: up to there getNextInQueue returns every command once and in the order
\* in which the slots were reserved, whatever its producers did in between
\* (CommandQueue.hpp, getNextInQueue: return and remove the next command).
ImplementsFifo ==
  /\ Fifo!Init
  /\ [][again' = 0 => Fifo!Next \/ UNCHANGED Fifo!vars]_<<accepted, got, again>>

\* _CommandsClaimed (status().commandsQueued) is what was accepted less what was
\* returned, plus the calls in between, modulo its width: every command that is
\* returned and stays in the ring leaves it one too low.
ClaimsAreExact ==
  claimed = (Len(accepted) - Len(got) + At({"reserve", "release"})) % CountRange

\* A command whose slot was given up is returned by the call that gave it up, and
\* nothing else is returned but what the late test finds.
RemovedIsReturned == removed + again = Len(got) + At({"recheck", "take"})

\* The number of claims is that of the commands that were accepted and not returned
\* and of the claims under way, and every command that left the ring was returned or
\* is about to be.
CommandRingIsExact == ClaimsAreExact /\ RemovedIsReturned

\* What is returned with Success was added
\* (CommandQueue.hpp, getNextInQueue: Success if there is a command in the queue).
OnlyAddedIsReturned == \A i \in DOMAIN got : got[i] # None

\* No command is returned twice
\* (CommandQueue.hpp, getNextInQueue: return and remove; interrupt and thread safe).
NothingIsReturnedTwice == \A i, j \in DOMAIN got : got[i] = got[j] => i = j

Quiet == \A t \in Threads : ~MidCall(t)

\* Between two calls getNextInQueue would not answer NoData while commands wait
\* (CommandQueue.hpp, getNextInQueue: NoData if there are no commands).
ReadyWhenWaiting == Quiet /\ Outstanding # <<>> => ready

\* Between two calls nobody sleeps in WaitForCommands while there are commands
\* (CommandQueue.hpp, WaitForCommands: block until a command has been added).
NoSleepOnCommands ==
  Quiet /\ Outstanding # <<>> => \A c \in Consumers : status[c] # "Blocked"

\* Every command that was added is eventually returned.
EveryCommandIsReturned ==
  \A m \in Commands :
     (\E i \in DOMAIN accepted : accepted[i] = m)
       ~> (\E i \in DOMAIN got : got[i] = m)
=============================================================================
