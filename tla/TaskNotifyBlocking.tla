------------------------- MODULE TaskNotifyBlocking -------------------------
(***************************************************************************)
(* block(), unblock() and deleteThread() of the FreeRTOS ports of the      *)
(* operating system (Modules/OperatingSystem/Esp; Cc32xx/FreeRTOS and      *)
(* Tm4c/FreeRTOS have the same code).  The count of unblocks is the task's *)
(* notification value, kept by FreeRTOS.  There is no mutex: block() peeks *)
(* at the value and then takes it, and another thread may unblock between  *)
(* the two; unblock() gives a notification and then writes the status.     *)
(*                                                                         *)
(* Writing the status and peeking are one action, and so are taking and    *)
(* writing the status: nothing but the status is written between them, and *)
(* block() does not read the status.                                       *)
(***************************************************************************)
EXTENDS Integers

CONSTANTS
  Threads,      \* the threads known to the operating system
  Deletable,    \* those on which somebody calls deleteThread
  MaxPending    \* bound: notifications and unfinished unblocks of a thread

ASSUME NotifyAssumption ==
  /\ Deletable \subseteq Threads
  /\ MaxPending \in Nat \ {0}

VARIABLES
  notified,     \* the task's notification value (in FreeRTOS)
  status,       \* Thread::status
  inBlock,      \* inBlock[t]: t has peeked and waits in ulTaskNotifyTake
  previously,   \* previously[t]: threadHasBeenPreviouslyUnblocked of that call
  giving,       \* giving[t]: unblocks of t that gave but did not write status
  result        \* what t's last completed block() returned

vars == <<notified, status, inBlock, previously, giving, result>>

Init ==
  /\ notified   = [t \in Threads |-> 0]
  /\ status     = [t \in Threads |-> "Active"]
  /\ inBlock    = [t \in Threads |-> FALSE]
  /\ previously = [t \in Threads |-> FALSE]
  /\ giving     = [t \in Threads |-> 0]
  /\ result     = [t \in Threads |-> "None"]

\* Mutant of Peek: any value of the notification counts as previously unblocked.
PeekAnyValue(t) ==
  /\ ~inBlock[t]
  /\ status'     = [status EXCEPT ![t] = "Blocked"]
  /\ inBlock'    = [inBlock EXCEPT ![t] = TRUE]
  /\ previously' = [previously EXCEPT ![t] = notified[t] >= 0]
  /\ UNCHANGED <<notified, giving, result>>

\* block() up to the peek.
Peek(t) ==
  /\ ~inBlock[t]
  /\ status'     = [status EXCEPT ![t] = "Blocked"]
  /\ inBlock'    = [inBlock EXCEPT ![t] = TRUE]
  /\ previously' = [previously EXCEPT ![t] = notified[t] >= 1]
  /\ UNCHANGED <<notified, giving, result>>

\* Mutant of Take: the notification is counted down instead of cleared.
TakeOne(t) ==
  /\ inBlock[t]
  /\ notified[t] > 0
  /\ notified' = [notified EXCEPT ![t] = @ - 1]
  /\ status'   = [status EXCEPT ![t] = "Active"]
  /\ inBlock'  = [inBlock EXCEPT ![t] = FALSE]
  /\ result'   = [result EXCEPT ![t] = IF previously[t] THEN "LimitReached"
                                                        ELSE "Success"]
  /\ UNCHANGED <<previously, giving>>

\* ulTaskNotifyTake returns once there is a notification and clears them all;
\* the rest of block() follows.
Take(t) ==
  /\ inBlock[t]
  /\ notified[t] > 0
  /\ notified' = [notified EXCEPT ![t] = 0]
  /\ status'   = [status EXCEPT ![t] = "Active"]
  /\ inBlock'  = [inBlock EXCEPT ![t] = FALSE]
  /\ result'   = [result EXCEPT ![t] = IF previously[t] THEN "LimitReached"
                                                        ELSE "Success"]
  /\ UNCHANGED <<previously, giving>>

\* Mutant of Give: the notification is given twice.
GiveTwice(t) ==
  /\ notified' = [notified EXCEPT ![t] = @ + 2]
  /\ giving'   = [giving EXCEPT ![t] = @ + 1]
  /\ UNCHANGED <<status, inBlock, previously, result>>

\* unblock(), from a task or from an interrupt: give ...
Give(t) ==
  /\ notified' = [notified EXCEPT ![t] = @ + 1]
  /\ giving'   = [giving EXCEPT ![t] = @ + 1]
  /\ UNCHANGED <<status, inBlock, previously, result>>

\* ... and write the status, whatever happened to the thread meanwhile.
MarkActive(t) ==
  /\ giving[t] > 0
  /\ giving' = [giving EXCEPT ![t] = @ - 1]
  /\ status' = [status EXCEPT ![t] = "Active"]
  /\ UNCHANGED <<notified, inBlock, previously, result>>

\* deleteThread() only marks the thread.
Delete(t) ==
  /\ status' = [status EXCEPT ![t] = "Terminated"]
  /\ UNCHANGED <<notified, inBlock, previously, giving, result>>

Next ==
  \E t \in Threads :
     \/ Peek(t)
     \/ Take(t)
     \/ notified[t] < MaxPending /\ giving[t] < MaxPending /\ Give(t)
     \/ MarkActive(t)
     \/ t \in Deletable /\ Delete(t)

Spec == Init /\ [][Next]_vars

-----------------------------------------------------------------------------

\* Every variable has its type; the notification value and the number of
\* unfinished unblocks keep within their bound.
TypeOK ==
  /\ notified   \in [Threads -> 0 .. MaxPending]
  /\ status     \in [Threads -> {"Active", "Blocked", "Terminated"}]
  /\ inBlock    \in [Threads -> BOOLEAN]
  /\ previously \in [Threads -> BOOLEAN]
  /\ giving     \in [Threads -> 0 .. MaxPending]
  /\ result     \in [Threads -> {"None", "Success", "LimitReached"}]

\* A thread that found itself previously unblocked does not sleep: block()
\* decides to report LimitReached before it takes the notification, and the
\* notification it saw must still be there (nobody else may consume it).
PeekedStaysPending ==
  \A t \in Threads : inBlock[t] /\ previously[t] => notified[t] > 0

\* Peek and take together behave like one test: a thread that peeked zero is
\* already asleep for the permit, and whatever arrives before it takes only
\* wakes it.
PermitOf == [t \in Threads |-> IF notified[t] > 0 /\ (inBlock[t] => previously[t])
                               THEN 1 ELSE 0]
WhereOf  == [t \in Threads |-> IF ~inBlock[t] \/ previously[t] THEN "running"
                               ELSE IF notified[t] > 0 THEN "waking" ELSE "asleep"]

Permit == INSTANCE UnblockPermit WITH
  permit <- PermitOf, where <- WhereOf, result <- result

\* The FreeRTOS block and unblock implement the permit that the abstraction
\* documents, although the peek and the take are two steps.
ImplementsPermit == Permit!Spec

\* A thread that was deleted stays deleted, so that its main loop can find out
\* with isDeleted (OperatingSystemAbstraction.hpp, isDeleted).
DeletionIsPermanent ==
  [][\A t \in Threads : status[t] = "Terminated" => status'[t] = "Terminated"]_vars
=============================================================================
