-------------------------- MODULE SignalsAndSlots --------------------------
(***************************************************************************)
(* Applications/SignalsAndSlots/SignalsAndSlots.hpp: a Signal with an      *)
(* array of slots and an atomic number of observers.  connect, disconnect  *)
(* and emit are documented as interrupt and thread safe and take no lock.  *)
(* One action is one access to a slot or to the number.                    *)
(*                                                                         *)
(* A slot holds a connection: the event queue and the callback that one    *)
(* call of connect passed.  What the observer's queue answers to addEvent  *)
(* is a choice: Success or LimitReached (EventFifo).                       *)
(***************************************************************************)
EXTENDS Integers, FiniteSets

CONSTANTS
  Connectors,   \* threads that connect
  Observers,    \* threads that disconnect: the connectors and maybe others
  Emitters,     \* threads that emit
  MaxObservers, \* _MaxNumberOfObservers
  CountRange,   \* Count is unsigned and wraps at this value
  Twice,        \* whether a handle may be disconnected again
  MaxConnects,  \* bound: calls of connect per connector
  MaxEmits,     \* bound: calls of emit per emitter
  None          \* an empty slot

SignalAssumption ==
  /\ Connectors \subseteq Observers
  /\ Observers \cap Emitters = {} /\ IsFiniteSet(Observers)
  /\ MaxObservers \in Nat \ {0}
  /\ CountRange \in Nat /\ CountRange > MaxObservers + Cardinality(Observers)
  /\ Twice \in BOOLEAN
  /\ MaxConnects \in Nat /\ MaxEmits \in Nat

Parties     == Observers \cup Emitters
Connections == Connectors \X (1 .. MaxConnects)
Handles     == 0 .. MaxObservers - 1

NoneAssumption == None \notin Connections

VARIABLES
  slots,        \* _slots
  count,        \* _currentNumberOfObservers
  pc,           \* where each thread is in its call
  at,           \* the slot that a thread is at
  calls,        \* the number of connects or emits a thread has begun
  handle,       \* the handle of each connection, -1 before connect returns
  live,         \* the connections that connect returned and nobody disconnected
  wanted,       \* wanted[e]: those that were live throughout e's last emit
  notified,     \* notified[e]: those that e's last emit added an event for
  failed,       \* failed[e]: those whose queue refused the event
  error         \* what e's last emit returned, or will as far as it got

slotVars == <<slots, count>>
emitVars == <<notified, failed, error>>
vars     == <<slotVars, pc, at, calls, handle, live, wanted, emitVars>>

Init ==
  /\ slots = [h \in Handles |-> None]
  /\ count = 0
  /\ pc = [t \in Parties |-> "idle"]
  /\ at = [t \in Parties |-> 0]
  /\ calls = [t \in Parties |-> 0]
  /\ handle = [c \in Connections |-> -1]
  /\ live = {}
  /\ wanted = [e \in Emitters |-> {}]
  /\ notified = [e \in Emitters |-> {}]
  /\ failed = [e \in Emitters |-> {}]
  /\ error = [e \in Emitters |-> "None"]

Goto(t, from, to) == pc[t] = from /\ pc' = [pc EXCEPT ![t] = to]

\* The connection that t's current or last connect makes.
ConnectionOf(t) == <<t, calls[t]>>

-----------------------------------------------------------------------------
(* connect.                                                                *)

BeginConnect(t) ==
  /\ calls[t] < MaxConnects
  /\ calls' = [calls EXCEPT ![t] = @ + 1]
  /\ UNCHANGED <<slotVars, handle, live, wanted, emitVars>>

\* Mutant of FindFree: takes a slot without a test that it is free.
FindAny(t) ==
  /\ Goto(t, "idle", "count")
  /\ \E h \in Handles : at' = [at EXCEPT ![t] = h]
  /\ BeginConnect(t)

FindFree(t) ==
  /\ Goto(t, "idle", "count")
  /\ \E h \in Handles :
       /\ slots[h] = None /\ \A g \in 0 .. h - 1 : slots[g] # None
       /\ at' = [at EXCEPT ![t] = h]
  /\ BeginConnect(t)

\* No slot is free: LimitReached.
FindNone(t) ==
  /\ Goto(t, "idle", "idle")
  /\ \A h \in Handles : slots[h] # None
  /\ BeginConnect(t)
  /\ UNCHANGED at

CountUp(t) ==
  /\ Goto(t, "count", IF count < MaxObservers THEN "store" ELSE "undo")
  /\ count' = (count + 1) % CountRange
  /\ UNCHANGED <<slots, at, calls, handle, live, wanted, emitVars>>

StoreConnection(t) ==
  /\ Goto(t, "store", "idle")
  /\ slots' = [slots EXCEPT ![at[t]] = ConnectionOf(t)]
  /\ handle' = [handle EXCEPT ![ConnectionOf(t)] = at[t]]
  /\ live' = live \cup {ConnectionOf(t)}
  /\ at' = [at EXCEPT ![t] = 0]
  /\ UNCHANGED <<count, calls, wanted, emitVars>>

\* Mutant of Undo: LimitReached leaves the count as it is.
LeaveCount(t) ==
  /\ Goto(t, "undo", "idle")
  /\ at' = [at EXCEPT ![t] = 0]
  /\ UNCHANGED <<slotVars, calls, handle, live, wanted, emitVars>>

Undo(t) ==
  /\ Goto(t, "undo", "idle")
  /\ count' = (count - 1) % CountRange
  /\ at' = [at EXCEPT ![t] = 0]
  /\ UNCHANGED <<slots, calls, handle, live, wanted, emitVars>>

-----------------------------------------------------------------------------
(* disconnect, with the handle of any connection that was made.             *)

FreeSlot(t, c) ==
  /\ Goto(t, "idle", "down")
  /\ handle[c] # -1
  /\ c \in live \/ Twice
  /\ slots' = [slots EXCEPT ![handle[c]] = None]
  /\ live' = live \ {c}
  /\ wanted' = [e \in Emitters |-> wanted[e] \ {c}]
  /\ UNCHANGED <<count, at, calls, handle, emitVars>>

CountDown(t) ==
  /\ Goto(t, "down", "idle")
  /\ count' = (count - 1) % CountRange
  /\ UNCHANGED <<slots, at, calls, handle, live, wanted, emitVars>>

-----------------------------------------------------------------------------
(* emit.                                                                   *)

BeginEmit(e, answer) ==
  /\ calls[e] < MaxEmits
  /\ calls' = [calls EXCEPT ![e] = @ + 1]
  /\ error' = [error EXCEPT ![e] = answer]
  /\ wanted' = [wanted EXCEPT ![e] = live]
  /\ notified' = [notified EXCEPT ![e] = {}]
  /\ failed' = [failed EXCEPT ![e] = {}]
  /\ UNCHANGED <<slotVars, at, handle, live>>

EmitNothing(e) ==
  /\ Goto(e, "idle", "idle")
  /\ count = 0
  /\ BeginEmit(e, "NoData")

EmitToSlots(e) ==
  /\ Goto(e, "idle", "visit")
  /\ count # 0
  /\ BeginEmit(e, "NoData")

\* Mutant of NextSlot: the last slot is left out.
NextSlotButLast(e, from) ==
  /\ Goto(e, from, IF at[e] >= MaxObservers - 2 THEN "idle" ELSE "visit")
  /\ at' = [at EXCEPT ![e] = IF @ >= MaxObservers - 2 THEN 0 ELSE @ + 1]
  /\ UNCHANGED <<slotVars, calls, handle, live, wanted>>

\* The next slot, or the end of the array and of the call.
NextSlot(e, from) ==
  /\ Goto(e, from, IF at[e] = MaxObservers - 1 THEN "idle" ELSE "visit")
  /\ at' = [at EXCEPT ![e] = (@ + 1) % MaxObservers]
  /\ UNCHANGED <<slotVars, calls, handle, live, wanted>>

SkipSlot(e) ==
  /\ NextSlot(e, "visit")
  /\ slots[at[e]] = None
  /\ UNCHANGED emitVars

SeeSlot(e) ==
  /\ Goto(e, "visit", "notify")
  /\ slots[at[e]] # None
  /\ UNCHANGED <<slotVars, at, calls, handle, live, wanted, emitVars>>

\* The slot is read again.  Each addEvent overwrites the error of the one before.
Notify(e) ==
  /\ NextSlot(e, "notify")
  /\ slots[at[e]] # None
  /\ notified' = [notified EXCEPT ![e] = @ \cup {slots[at[e]]}]
  /\ \/ error' = [error EXCEPT ![e] = "Success"] /\ UNCHANGED failed
     \/ /\ error' = [error EXCEPT ![e] = "LimitReached"]
        /\ failed' = [failed EXCEPT ![e] = @ \cup {slots[at[e]]}]

\* The slot was freed since: the event is added to no queue, which is undefined.
NotifyFreed(e) ==
  /\ Goto(e, "notify", "undefined")
  /\ slots[at[e]] = None
  /\ UNCHANGED <<slotVars, at, calls, handle, live, wanted, emitVars>>

Next ==
  \/ \E t \in Connectors :
       FindFree(t) \/ FindNone(t) \/ CountUp(t) \/ StoreConnection(t) \/ Undo(t)
  \/ \E t \in Observers :
       \/ \E c \in Connections : FreeSlot(t, c)
       \/ CountDown(t)
  \/ \E e \in Emitters :
       \/ EmitNothing(e) \/ EmitToSlots(e) \/ SkipSlot(e) \/ SeeSlot(e)
       \/ Notify(e) \/ NotifyFreed(e)

Spec == Init /\ [][Next]_vars

-----------------------------------------------------------------------------

\* Every variable has its type.
TypeOK ==
  /\ slots \in [Handles -> Connections \cup {None}]
  /\ count \in 0 .. CountRange - 1
  /\ pc \in [Parties -> {"idle", "count", "store", "undo", "down",
                       "visit", "notify", "undefined"}]
  /\ at \in [Parties -> Handles]
  /\ \A t \in Parties :
       calls[t] \in 0 .. IF t \in Observers THEN MaxConnects ELSE MaxEmits
  /\ handle \in [Connections -> Handles \cup {-1}]
  /\ live \subseteq Connections
  /\ wanted \in [Emitters -> SUBSET Connections]
  /\ notified \in [Emitters -> SUBSET Connections]
  /\ failed \in [Emitters -> SUBSET Connections]
  /\ error \in [Emitters -> {"None", "Success", "LimitReached", "NoData"}]

\* The handle that connect returned stays the observer's own until it
\* disconnects (SignalsAndSlots.hpp, connect: interrupt and thread safe).
HandlesAreOwn == \A c \in live : slots[handle[c]] = c

At(labels) == Cardinality({t \in Observers : pc[t] \in labels})

\* _currentNumberOfObservers is the number of connections, and of the calls that
\* have counted and not stored, or freed and not counted yet; so it never wraps.
CountIsExact == count = Cardinality(live) + At({"store", "undo", "down"})

\* While there are observers emit does not answer NoData, however often others
\* disconnect (SignalsAndSlots.hpp, disconnect: Success if already disconnected).
EmitReachesObservers ==
  (\A t \in Parties : pc[t] = "idle") /\ live # {} => count # 0

\* An observer that was connected throughout an emit had an event added to its
\* queue, whatever others did to the slots meanwhile.
EveryObserverIsNotified ==
  \A e \in Emitters : pc[e] = "idle" => wanted[e] \subseteq notified[e]

\* A handle leads to the connection it was returned for, the number of observers is
\* that of the slots in use and of the steps under way, and an emit has called every
\* observer that was connected from its beginning to its end.
SignalsAreExact == TypeOK /\ HandlesAreOwn /\ CountIsExact /\ EveryObserverIsNotified

\* The slot that emit has found occupied is occupied while it adds the event
\* (SignalsAndSlots.hpp, emit and disconnect: interrupt and thread safe).
SlotStaysInUse == \A e \in Emitters : pc[e] = "notify" => slots[at[e]] # None

\* An emit that returned Success had no failure
\* (SignalsAndSlots.hpp, _emit: any error if one or more events failed).
FailuresAreReported ==
  \A e \in Emitters : pc[e] = "idle" /\ error[e] = "Success" => failed[e] = {}
=============================================================================
