-------------------------- MODULE SynchronousCall --------------------------
(***************************************************************************)
(* What the blocking operations of the IP client and server, the HTTP      *)
(* clients and the file systems promise: the caller goes on only when the  *)
(* thread that owns the resource has carried the operation out and then    *)
(* with its result, or at once when the owner's event queue is full.       *)
(***************************************************************************)

CONSTANT Callers

VARIABLES
  phase,        \* phase[c]: "idle", "pending", or "served" but not returned
  outcome       \* what c's last completed call returned

vars == <<phase, outcome>>

Init ==
  /\ phase   = [c \in Callers |-> "idle"]
  /\ outcome = [c \in Callers |-> "None"]

Begin(c) ==
  /\ phase[c] = "idle"
  /\ phase' = [phase EXCEPT ![c] = "pending"]
  /\ UNCHANGED outcome

Refuse(c) ==
  /\ phase[c] = "idle"
  /\ outcome' = [outcome EXCEPT ![c] = "LimitReached"]
  /\ UNCHANGED phase

Serve(c) ==
  /\ phase[c] = "pending"
  /\ phase' = [phase EXCEPT ![c] = "served"]
  /\ UNCHANGED outcome

Return(c) ==
  /\ phase[c] = "served"
  /\ phase'   = [phase EXCEPT ![c] = "idle"]
  /\ outcome' = [outcome EXCEPT ![c] = "Result"]

Next == \E c \in Callers : Begin(c) \/ Refuse(c) \/ Serve(c) \/ Return(c)

Spec == Init /\ [][Next]_vars
=============================================================================
