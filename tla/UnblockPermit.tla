--------------------------- MODULE UnblockPermit ---------------------------
(***************************************************************************)
(* What OperatingSystemAbstraction::block and ::unblock promise, for every *)
(* port: a thread owns at most one permit.  unblock wakes a thread that    *)
(* sleeps in block and otherwise leaves it a permit; block takes the       *)
(* permit and says so (LimitReached), or sleeps until it is woken          *)
(* (Success).  However often a thread was unblocked before it calls block, *)
(* it is refused exactly one sleep.                                        *)
(*                                                                         *)
(* The POSIX ports (ThreadBlocking) and the FreeRTOS ports                 *)
(* (TaskNotifyBlocking) are both shown to implement this module.           *)
(***************************************************************************)

CONSTANT Threads      \* the threads the operating system knows

VARIABLES
  permit,             \* permit[t]: 1 if t was unblocked and has not blocked since
  where,              \* where[t]: "running", "asleep" in block, or "waking"
  result              \* what t's last completed block returned

vars == <<permit, where, result>>

Init ==
  /\ permit = [t \in Threads |-> 0]
  /\ where  = [t \in Threads |-> "running"]
  /\ result = [t \in Threads |-> "None"]

\* block without a permit: the caller sleeps.
FallAsleep(t) ==
  /\ where[t] = "running" /\ permit[t] = 0
  /\ where' = [where EXCEPT ![t] = "asleep"]
  /\ UNCHANGED <<permit, result>>

\* block with a permit: the permit is spent and the caller goes on.
SpendPermit(t) ==
  /\ where[t] = "running" /\ permit[t] = 1
  /\ permit' = [permit EXCEPT ![t] = 0]
  /\ result' = [result EXCEPT ![t] = "LimitReached"]
  /\ UNCHANGED where

\* A woken thread returns from block.
WakeUp(t) ==
  /\ where[t] = "waking"
  /\ where'  = [where EXCEPT ![t] = "running"]
  /\ result' = [result EXCEPT ![t] = "Success"]
  /\ UNCHANGED permit

\* unblock of a sleeping thread wakes it.
Rouse(t) ==
  /\ where[t] = "asleep"
  /\ where' = [where EXCEPT ![t] = "waking"]
  /\ UNCHANGED <<permit, result>>

\* unblock of a thread that does not sleep gives it a permit.  A thread that
\* was woken and has not run yet may get one or not: the ports differ.
GivePermit(t) ==
  /\ where[t] # "asleep"
  /\ permit' = [permit EXCEPT ![t] = 1]
  /\ UNCHANGED <<where, result>>

Next ==
  \E t \in Threads :
     FallAsleep(t) \/ SpendPermit(t) \/ WakeUp(t) \/ Rouse(t) \/ GivePermit(t)

Spec == Init /\ [][Next]_vars
=============================================================================
