--------------------------- MODULE ThreadBlocking ---------------------------
(***************************************************************************)
(* block(), unblock() and deleteThread() of the POSIX ports of the         *)
(* operating system (Modules/OperatingSystem/Linux; Darwin has the same    *)
(* code).  Every thread has a record with a blockCount and a status, and a *)
(* mutex that block and unblock hold, so that each of their critical       *)
(* sections is one action.  pthread_cond_wait releases the mutex: a        *)
(* sleeping thread is between two actions.  deleteThread writes the status *)
(* without the mutex.                                                      *)
(*                                                                         *)
(* The other modules INSTANCE this one for the threads that block.         *)
(***************************************************************************)
EXTENDS Integers

CONSTANTS
  Threads,      \* the threads known to the operating system
  Deletable,    \* those on which somebody calls deleteThread
  MaxPending    \* bound: |blockCount| stays within it (the code has an int)

ASSUME BlockingAssumption ==
  /\ Deletable \subseteq Threads
  /\ MaxPending \in Nat \ {0}

VARIABLES
  blockCount,   \* Thread::blockCount
  status,       \* Thread::status
  inBlock,      \* inBlock[t]: t is in the wait loop of block()
  result        \* what t's last completed block() returned

vars == <<blockCount, status, inBlock, result>>

Init ==
  /\ blockCount = [t \in Threads |-> 0]
  /\ status     = [t \in Threads |-> "Active"]
  /\ inBlock    = [t \in Threads |-> FALSE]
  /\ result     = [t \in Threads |-> "None"]

\* Mutant of Sleep: off by one, one pending unblock does not keep t awake.
SleepOnOnePending(t) ==
  /\ ~inBlock[t]
  /\ blockCount[t] >= -1
  /\ blockCount' = [blockCount EXCEPT ![t] = @ + 1]
  /\ status'     = [status EXCEPT ![t] = "Blocked"]
  /\ inBlock'    = [inBlock EXCEPT ![t] = TRUE]
  /\ UNCHANGED result

\* block(), first branch: nothing is pending, count up and sleep.
Sleep(t) ==
  /\ ~inBlock[t]
  /\ blockCount[t] > -1
  /\ blockCount' = [blockCount EXCEPT ![t] = @ + 1]
  /\ status'     = [status EXCEPT ![t] = "Blocked"]
  /\ inBlock'    = [inBlock EXCEPT ![t] = TRUE]
  /\ UNCHANGED result

\* Mutant of TakePending: one pending unblock is taken instead of all.
TakeOnePending(t) ==
  /\ ~inBlock[t]
  /\ blockCount[t] <= -1
  /\ blockCount' = [blockCount EXCEPT ![t] = @ + 1]
  /\ result'     = [result EXCEPT ![t] = "LimitReached"]
  /\ UNCHANGED <<status, inBlock>>

\* block(), second branch: t was unblocked before, however often.
TakePending(t) ==
  /\ ~inBlock[t]
  /\ blockCount[t] <= -1
  /\ blockCount' = [blockCount EXCEPT ![t] = 0]
  /\ result'     = [result EXCEPT ![t] = "LimitReached"]
  /\ UNCHANGED <<status, inBlock>>

\* The signalled thread gets the mutex back, sees that it is not Blocked any
\* more and returns.
Wake(t) ==
  /\ inBlock[t]
  /\ status[t] = "Active"
  /\ inBlock' = [inBlock EXCEPT ![t] = FALSE]
  /\ result'  = [result EXCEPT ![t] = "Success"]
  /\ UNCHANGED <<blockCount, status>>

\* Nobody signals a thread that was deleted while it slept.  It leaves the loop
\* only if pthread_cond_wait wakes up spuriously.
SpuriousWake(t) ==
  /\ inBlock[t]
  /\ status[t] = "Terminated"
  /\ inBlock' = [inBlock EXCEPT ![t] = FALSE]
  /\ result'  = [result EXCEPT ![t] = "Success"]
  /\ UNCHANGED <<blockCount, status>>

\* Mutants of Unblock: it counts twice; it counts but leaves the thread Blocked;
\* it does nothing for a thread that does not sleep yet.
UnblockTwice(t) ==
  /\ blockCount' = [blockCount EXCEPT ![t] = @ - 2]
  /\ status' = [status EXCEPT ![t] = IF @ = "Blocked" THEN "Active" ELSE @]
  /\ UNCHANGED <<inBlock, result>>
UnblockKeepsBlocked(t) ==
  /\ blockCount' = [blockCount EXCEPT ![t] = @ - 1]
  /\ UNCHANGED <<status, inBlock, result>>

Unblock(t) ==
  /\ blockCount' = [blockCount EXCEPT ![t] = @ - 1]
  /\ status' = [status EXCEPT ![t] = IF @ = "Blocked" THEN "Active" ELSE @]
  /\ UNCHANGED <<inBlock, result>>

\* deleteThread() only marks the thread.
Delete(t) ==
  /\ status' = [status EXCEPT ![t] = "Terminated"]
  /\ UNCHANGED <<blockCount, inBlock, result>>

Next ==
  \E t \in Threads :
     \/ blockCount[t] < MaxPending /\ Sleep(t)
     \/ TakePending(t)
     \/ Wake(t)
     \/ SpuriousWake(t)
     \/ blockCount[t] > -MaxPending /\ Unblock(t)
     \/ t \in Deletable /\ Delete(t)

Spec == Init /\ [][Next]_vars

-----------------------------------------------------------------------------

\* Every variable has its type and blockCount keeps within its bound: only
\* unblock counts down (OperatingSystemModule.cpp, block and unblock).
TypeOK ==
  /\ blockCount \in [Threads -> -MaxPending .. MaxPending]
  /\ status     \in [Threads -> {"Active", "Blocked", "Terminated"}]
  /\ inBlock    \in [Threads -> BOOLEAN]
  /\ result     \in [Threads -> {"None", "Success", "LimitReached"}]

\* A thread never sleeps while an unblock is pending for it, deleted or not,
\* and only the thread that is inside block() is marked Blocked: otherwise
\* the wake-up that unblock counted would be lost.
NoSleepOnPending ==
  \A t \in Threads :
     status[t] = "Blocked" => inBlock[t] /\ blockCount[t] > 0

\* For a thread that is never deleted the count tells the three situations
\* apart: asleep is exactly 1, running is at most 0.
CountTellsSleep ==
  \A t \in Threads \ Deletable :
     /\ status[t] \in {"Active", "Blocked"}
     /\ blockCount[t] <= 1
     /\ blockCount[t] = 1 <=> status[t] = "Blocked"

\* The threads that are never deleted have a binary permit.
Kept == Threads \ Deletable

PermitOf == [t \in Kept |-> IF blockCount[t] < 0 THEN 1 ELSE 0]
WhereOf  == [t \in Kept |-> IF status[t] = "Blocked" THEN "asleep"
                            ELSE IF inBlock[t] THEN "waking" ELSE "running"]
ResultOf == [t \in Kept |-> result[t]]

Permit == INSTANCE UnblockPermit WITH
  Threads <- Kept, permit <- PermitOf, where <- WhereOf, result <- ResultOf

\* The POSIX block and unblock implement the permit that the abstraction
\* documents: no unblock is lost, and many before a block count as one.
ImplementsPermit == Permit!Spec

\* A thread that was deleted stays deleted, so that its main loop can find out
\* with isDeleted (OperatingSystemAbstraction.hpp, isDeleted).
DeletionIsPermanent ==
  [][\A t \in Threads : status[t] = "Terminated" => status'[t] = "Terminated"]_vars
=============================================================================
