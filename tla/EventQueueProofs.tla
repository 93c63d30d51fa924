------------------------- MODULE EventQueueProofs -------------------------
(***************************************************************************)
(* Proofs about the event queue, for every number of producers, strangers  *)
(* and slots.  For every schedule, also those in which the ring is         *)
(* corrupted: its indices keep within the array, and no event runs twice.  *)
(* For producers that the owner cannot preempt: the ring is exact, and it  *)
(* implements the FIFO queue of EventFifo, whatever step the owner is      *)
(* interrupted at.                                                         *)
(***************************************************************************)
EXTENDS EventQueue, FiniteSetTheorems, SequenceTheorems, TLAPS

Unwritten == {"claim", "reserve", "write"}

\* e is an event of an addEvent call that has begun, and whose event has left
\* the caller: it was written into a slot or run.
Handed(e) ==
  /\ e[2] <= adds[e[1]]
  /\ pc[e[1]] \in Unwritten => e[2] < adds[e[1]]

\* A producer in a call has begun one.
CallHasBegun == \A p \in Producers : pc[p] \in Unwritten => adds[p] >= 1

SlotsAreHanded ==
  \A i \in Indices : slots[i] # None => slots[i] \in QueuedEvents /\ Handed(slots[i])

SlotsDiffer ==
  \A i, j \in Indices : slots[i] = slots[j] /\ slots[i] # None => i = j

RunsAreHanded == \A k \in DOMAIN ran : Handed(ran[k])

\* Of the events that were run only the one that is running is in a slot.
RanLeavesSlot ==
  \A i \in Indices, k \in DOMAIN ran :
     slots[i] = ran[k] => pc[Owner] = "callback" /\ i = first

IndInv ==
  /\ TypeOK /\ CallHasBegun
  /\ SlotsAreHanded /\ SlotsDiffer
  /\ RunsAreHanded /\ RanLeavesSlot
  /\ AtMostOnce

-----------------------------------------------------------------------------
(* Types.                                                                  *)

LEMMA RemainderInRange ==
  ASSUME NEW a \in Int, NEW b \in Nat \ {0}
  PROVE  a % b \in 0 .. b - 1
  OBVIOUS

LEMMA RingArithmetic ==
  ASSUME TypeOK
  PROVE  /\ (claimed + 1) % CountRange \in 0 .. CountRange - 1
         /\ (claimed - 1) % CountRange \in 0 .. CountRange - 1
         /\ (first + 1) % Capacity \in Indices
         /\ (last + 1) % Capacity \in Indices
  <1>1. CountRange \in Nat \ {0} /\ Capacity \in Nat \ {0}
    BY QueueAssumption
  <1>2. claimed + 1 \in Int /\ claimed - 1 \in Int /\ first + 1 \in Int /\ last + 1 \in Int
    BY <1>1 DEF TypeOK, Indices
  <1>3. QED
    BY <1>1, <1>2, RemainderInRange DEF Indices

LEMMA InitTypes == Init => TypeOK
  <1> SUFFICES ASSUME Init PROVE TypeOK
    OBVIOUS
  <1> USE QueueAssumption DEF Init
  <1>1. slots \in [Indices -> Events \cup {None}] /\ index \in [Producers -> Indices]
    BY DEF Indices
  <1>2. first \in Indices /\ last \in Indices /\ claimed \in 0 .. CountRange - 1
    BY DEF Indices
  <1>3. \A t \in Threads : adds[t] <= IF t \in Producers THEN MaxAdds ELSE MaxDirect
    OBVIOUS
  <1>4. accepted \in Seq(Events) /\ ran \in Seq(Events) /\ runs \in Nat
    OBVIOUS
  <1>5. QED
    BY <1>1, <1>2, <1>3, <1>4 DEF TypeOK, Labels

\* The event of a call that has begun is an event.
LEMMA EventOfCall ==
  ASSUME TypeOK, NEW t \in Threads, adds[t] >= 1
  PROVE  /\ t \in Producers => EventOf(t) \in QueuedEvents
         /\ EventOf(t) \in Events
  BY QueueAssumption DEF TypeOK, EventOf, Events, QueuedEvents, DirectEvents, Threads

LEMMA NewEventTypes ==
  ASSUME TypeOK, NEW t \in Threads, NewEvent(t)
  PROVE  /\ adds' \in [Threads -> Nat]
         /\ \A u \in Threads :
              adds'[u] <= IF u \in Producers THEN MaxAdds ELSE MaxDirect
         /\ adds'[t] = adds[t] + 1
         /\ \A u \in Threads \ {t} : adds'[u] = adds[u]
  <1>1. adds \in [Threads -> Nat] /\ MaxAdds \in Nat /\ MaxDirect \in Nat
    BY QueueAssumption DEF TypeOK
  <1>2. \A u \in Threads : adds[u] <= IF u \in Producers THEN MaxAdds ELSE MaxDirect
    BY DEF TypeOK
  <1>3. adds[t] < IF t \in Producers THEN MaxAdds ELSE MaxDirect
    BY DEF NewEvent
  <1>4. adds' = [adds EXCEPT ![t] = @ + 1]
    BY DEF NewEvent
  <1>5. QED
    BY <1>1, <1>2, <1>3, <1>4

LEMMA AddEventTypes ==
  ASSUME TypeOK, CallHasBegun, NEW p \in Producers, AddEvent(p)
  PROVE  TypeOK'
  <1> USE QueueAssumption DEF TypeOK, Labels, Goto
  <1>0. p \in Threads /\ p # Owner
    BY DEF Threads
  <1>1. CASE PassGuard(p) \/ Refuse(p)
    <2>1. NewEvent(p)
      BY <1>1 DEF PassGuard, Refuse
    <2>2. QED
      BY <1>0, <1>1, <2>1, NewEventTypes DEF PassGuard, Refuse, queueVars
  <1>2. CASE Claim(p)
    <2>1. claimed' \in 0 .. CountRange - 1
      BY <1>2, RingArithmetic DEF Claim
    <2>2. QED
      BY <1>0, <1>2, <2>1 DEF Claim, history
  <1>3. CASE Reserve(p)
    <2>1. EventOf(p) \in Events
      BY <1>0, <1>3, EventOfCall DEF Reserve, CallHasBegun, Unwritten
    <2>2. accepted' \in Seq(Events)
      BY <1>3, <2>1 DEF Reserve
    <2>3. last' \in Indices
      BY <1>3, RingArithmetic DEF Reserve
    <2>4. index' \in [Producers -> Indices]
      BY <1>3 DEF Reserve
    <2>5. QED
      BY <1>0, <1>3, <2>2, <2>3, <2>4 DEF Reserve
  <1>4. CASE Write(p)
    <2>1. EventOf(p) \in Events
      BY <1>0, <1>4, EventOfCall DEF Write, CallHasBegun, Unwritten
    <2>2. slots' \in [Indices -> Events \cup {None}]
      BY <1>4, <2>1 DEF Write
    <2>3. index' \in [Producers -> Indices]
      BY <1>4 DEF Write, Indices
    <2>4. QED
      BY <1>0, <1>4, <2>2, <2>3 DEF Write, history
  <1>5. CASE Publish(p)
    BY <1>0, <1>5 DEF Publish, history
  <1>6. CASE ScanNobody(p) \/ ScanOwner(p)
    BY <1>0, <1>6 DEF ScanNobody, ScanOwner, queueVars, history
  <1>7. CASE UnblockOwner(p) \/ UnblockNobody(p)
    BY <1>0, <1>7 DEF UnblockOwner, UnblockNobody, queueVars, history
  <1>8. QED
    BY <1>1, <1>2, <1>3, <1>4, <1>5, <1>6, <1>7 DEF AddEvent

\* Events that skip the queue.
LEMMA DirectTypes ==
  ASSUME TypeOK, NEW t \in Strangers \cup {Owner}, NewEvent(t),
         ran' = Append(ran, EventOf(t)'),
         pc' = pc \/ \E to \in {"callback", "idle"} : pc' = [pc EXCEPT ![t] = to],
         UNCHANGED <<queueVars, index, more, accepted, runs>>
  PROVE  TypeOK'
  <1> USE QueueAssumption DEF TypeOK, Labels, Threads
  <1>1. t \in Threads /\ t \notin Producers
    OBVIOUS
  <1>2. /\ adds' \in [Threads -> Nat]
        /\ \A u \in Threads : adds'[u] <= IF u \in Producers THEN MaxAdds ELSE MaxDirect
        /\ adds'[t] = adds[t] + 1
    BY <1>1, NewEventTypes
  <1>3. EventOf(t)' \in Events
    <2>1. adds'[t] \in 1 .. MaxDirect
      BY <1>1, <1>2 DEF NewEvent
    <2>2. QED
      BY <2>1 DEF EventOf, Events, DirectEvents
  <1>4. ran' \in Seq(Events)
    BY <1>3
  <1>5. pc' \in [Threads -> Labels]
    BY <1>1
  <1>6. QED
    BY <1>2, <1>4, <1>5 DEF queueVars

LEMMA RunNextEventTypes ==
  ASSUME TypeOK, RunNextEvent
  PROVE  TypeOK'
  <1> USE QueueAssumption DEF TypeOK, Labels, Goto
  <1>0. Owner \in Threads
    BY DEF Threads
  <1>1. CASE BeginRun
    <2>1. slots[first] \in Events
      BY <1>1 DEF BeginRun
    <2>2. ran' \in Seq(Events)
      BY <1>1, <2>1 DEF BeginRun
    <2>3. QED
      BY <1>0, <1>1, <2>2 DEF BeginRun, queueVars
  <1>2. CASE RunEmpty
    BY <1>0, <1>2 DEF RunEmpty, queueVars, history
  <1>3. CASE EndRun
    <2>1. slots' \in [Indices -> Events \cup {None}]
      BY <1>3 DEF EndRun
    <2>2. QED
      BY <1>0, <1>3, <2>1 DEF EndRun, history
  <1>4. CASE Release
    <2>1. claimed' \in 0 .. CountRange - 1
      BY <1>4, RingArithmetic DEF Release
    <2>2. QED
      BY <1>0, <1>4, <2>1 DEF Release, history
  <1>5. CASE Advance
    <2>1. first' \in Indices
      BY <1>5, RingArithmetic DEF Advance
    <2>2. QED
      BY <1>0, <1>5, <2>1 DEF Advance, history
  <1>6. CASE StoreReady
    BY <1>0, <1>6 DEF StoreReady, history
  <1>7. CASE PollNothing
    BY <1>7 DEF PollNothing, vars, queueVars, history
  <1>8. CASE SeeNothing \/ Sleep \/ DoNotSleep \/ WakeUp
    BY <1>0, <1>8 DEF SeeNothing, Sleep, DoNotSleep, WakeUp, queueVars, history
  <1>9. CASE Register \/ Deregister
    BY <1>0, <1>9 DEF Register, Deregister, history
  <1>10. QED
    BY <1>1, <1>2, <1>3, <1>4, <1>5, <1>6, <1>7, <1>8, <1>9 DEF RunNextEvent

LEMMA NextTypes ==
  ASSUME TypeOK, CallHasBegun, [Next]_vars
  PROVE  TypeOK'
  <1>1. ASSUME NEW p \in Producers, AddEvent(p)
        PROVE  TypeOK'
    BY <1>1, AddEventTypes
  <1>2. ASSUME NEW s \in Strangers, BeginDirect(s)
        PROVE  TypeOK'
    BY <1>2, DirectTypes DEF BeginDirect, Goto
  <1>3. ASSUME NEW s \in Strangers, EndDirect(s)
        PROVE  TypeOK'
    BY <1>3, QueueAssumption
    DEF EndDirect, Goto, TypeOK, Labels, Threads, queueVars, history
  <1>4. CASE AddFromOwner
    BY <1>4, DirectTypes DEF AddFromOwner
  <1>5. CASE RunNextEvent
    BY <1>5, RunNextEventTypes
  <1>6. CASE UNCHANGED vars
    BY <1>6 DEF vars, queueVars, history, TypeOK
  <1>7. QED
    BY <1>1, <1>2, <1>3, <1>4, <1>5, <1>6 DEF Next

-----------------------------------------------------------------------------
(* The history of each event.                                              *)

LEMMA InitIndInv == Init => IndInv
  <1> SUFFICES ASSUME Init PROVE IndInv
    OBVIOUS
  <1>1. CallHasBegun
    BY DEF Init, CallHasBegun, Unwritten, Threads
  <1>2. SlotsAreHanded /\ SlotsDiffer
    BY DEF Init, SlotsAreHanded, SlotsDiffer
  <1>3. RunsAreHanded /\ RanLeavesSlot /\ AtMostOnce
    BY DEF Init, RunsAreHanded, RanLeavesSlot, AtMostOnce
  <1>4. QED
    BY <1>1, <1>2, <1>3, InitTypes DEF IndInv

\* Most steps move no event: they leave slots and history alone, and nobody
\* begins a call.
LEMMA NothingMoves ==
  ASSUME IndInv, TypeOK', UNCHANGED <<slots, first, adds, ran>>,
         \A t \in Threads : pc'[t] \in Unwritten => pc[t] \in Unwritten,
         pc[Owner] = "callback" => pc'[Owner] = "callback"
  PROVE  IndInv'
  <1> USE DEF IndInv
  <1>1. Producers \subseteq Threads
    BY DEF Threads
  <1>2. CallHasBegun'
    BY <1>1 DEF CallHasBegun
  <1>3. \A e \in Events : Handed(e) => Handed(e)'
    BY DEF Handed, Events, QueuedEvents, DirectEvents, Threads
  <1>4. SlotsAreHanded'
    BY <1>3 DEF SlotsAreHanded, Events
  <1>5. RunsAreHanded'
    BY <1>3 DEF RunsAreHanded, TypeOK
  <1>6. SlotsDiffer' /\ RanLeavesSlot' /\ AtMostOnce'
    BY DEF SlotsDiffer, RanLeavesSlot, AtMostOnce
  <1>7. QED
    BY <1>2, <1>4, <1>5, <1>6

\* A producer begins a call, which is refused or goes on.
LEMMA CallBegins ==
  ASSUME IndInv, TypeOK', NEW p \in Producers, NewEvent(p),
         NEW to \in {"idle", "claim"}, pc' = [pc EXCEPT ![p] = to],
         UNCHANGED <<slots, first, ran>>
  PROVE  IndInv'
  <1> USE QueueAssumption DEF IndInv
  <1>1. p \in Threads /\ p # Owner /\ Producers \subseteq Threads
    BY DEF Threads
  <1>2. adds'[p] = adds[p] + 1 /\ \A u \in Threads \ {p} : adds'[u] = adds[u]
    BY <1>1, NewEventTypes
  <1>3. adds \in [Threads -> Nat] /\ pc \in [Threads -> Labels]
    BY DEF TypeOK
  <1>4. CallHasBegun'
    BY <1>1, <1>2, <1>3 DEF CallHasBegun
  <1>5. \A e \in Events : Handed(e) => Handed(e)'
    <2> SUFFICES ASSUME NEW e \in Events, Handed(e) PROVE Handed(e)'
      OBVIOUS
    <2>1. e[1] \in Threads /\ e[2] \in Nat
      BY DEF Events, QueuedEvents, DirectEvents, Threads
    <2>2. QED
      BY <1>1, <1>2, <1>3, <2>1 DEF Handed
  <1>6. SlotsAreHanded'
    BY <1>5 DEF SlotsAreHanded, Events
  <1>7. RunsAreHanded'
    BY <1>5 DEF RunsAreHanded, TypeOK
  <1>8. SlotsDiffer' /\ RanLeavesSlot' /\ AtMostOnce'
    BY <1>1, <1>3 DEF SlotsDiffer, RanLeavesSlot, AtMostOnce
  <1>9. QED
    BY <1>4, <1>6, <1>7, <1>8

\* An event of a thread that skips the queue is run: it is a new one.
LEMMA DirectRun ==
  ASSUME IndInv, TypeOK', NEW t \in Strangers \cup {Owner}, NewEvent(t),
         ran' = Append(ran, EventOf(t)'),
         \/ pc' = pc /\ pc[t] \notin Unwritten
         \/ t # Owner /\ pc' = [pc EXCEPT ![t] = "callback"],
         UNCHANGED <<slots, first>>
  PROVE  IndInv'
  <1> USE QueueAssumption DEF IndInv
  <1>1. t \in Threads /\ t \notin Producers /\ Producers \subseteq Threads
    BY DEF Threads
  <1>2. adds'[t] = adds[t] + 1 /\ \A u \in Threads \ {t} : adds'[u] = adds[u]
    BY <1>1, NewEventTypes
  <1>3. /\ adds \in [Threads -> Nat] /\ pc \in [Threads -> Labels]
        /\ ran \in Seq(Events)
    BY DEF TypeOK
  <1>4. /\ \A u \in Threads : pc'[u] \in Unwritten => pc[u] \in Unwritten
        /\ pc'[t] \notin Unwritten
        /\ pc'[Owner] = pc[Owner]
    BY <1>1, <1>3 DEF Unwritten, Threads
  <1>5. PICK new : /\ new = <<t, adds[t] + 1>>
                   /\ ran' = Append(ran, new)
    BY <1>2 DEF EventOf
  <1>6. \A e \in Events : Handed(e) => Handed(e)' /\ e # new
    <2> SUFFICES ASSUME NEW e \in Events, Handed(e) PROVE Handed(e)' /\ e # new
      OBVIOUS
    <2>1. e[1] \in Threads /\ e[2] \in Nat
      BY DEF Events, QueuedEvents, DirectEvents, Threads
    <2>2. e # new
      <3>1. new[1] = t /\ new[2] = adds[t] + 1
        BY <1>5
      <3>2. QED
        BY <1>1, <1>3, <3>1, <2>1 DEF Handed
    <2>3. Handed(e)'
      BY <1>1, <1>2, <1>3, <1>4, <2>1 DEF Handed
    <2>4. QED
      BY <2>2, <2>3
  <1>7. new[2] <= adds'[new[1]] /\ pc'[new[1]] \notin Unwritten
    BY <1>1, <1>2, <1>3, <1>4, <1>5
  <1>8. CallHasBegun'
    BY <1>1, <1>2, <1>3, <1>4 DEF CallHasBegun
  <1>9. SlotsAreHanded'
    BY <1>6 DEF SlotsAreHanded, Events
  <1>10. /\ DOMAIN ran' = DOMAIN ran \cup {Len(ran) + 1}
         /\ \A k \in DOMAIN ran : ran'[k] = ran[k] /\ ran[k] \in Events
         /\ ran'[Len(ran) + 1] = new
         /\ Len(ran) + 1 \notin DOMAIN ran
    BY <1>3, <1>5
  <1>11. RunsAreHanded'
    <2> SUFFICES ASSUME NEW k \in DOMAIN ran' PROVE Handed(ran[k])'
      BY DEF RunsAreHanded
    <2>1. CASE k \in DOMAIN ran
      BY <1>6, <1>10, <2>1 DEF RunsAreHanded, Handed
    <2>2. CASE k = Len(ran) + 1
      BY <1>7, <1>10, <2>2 DEF Handed
    <2>3. QED
      BY <1>10, <2>1, <2>2
  <1>12. AtMostOnce'
    BY <1>6, <1>10 DEF AtMostOnce, RunsAreHanded
  <1>13. \A i \in Indices : slots[i] # new
    <2>1. new[1] \notin Producers
      BY <1>1, <1>5
    <2>2. ran' \in Seq(Events) /\ new \in Events
      BY <1>10 DEF TypeOK
    <2>3. QED
      BY <2>1, <2>2, NoneAssumption DEF SlotsAreHanded, QueuedEvents
  <1>14. RanLeavesSlot'
    BY <1>4, <1>10, <1>13 DEF RanLeavesSlot
  <1>15. QED
    BY <1>8, <1>9, <1>11, <1>12, <1>14 DEF SlotsDiffer

\* The event that a producer writes into its slot is in no other slot and has
\* not been run.
LEMMA WriteMoves ==
  ASSUME IndInv, TypeOK', NEW p \in Producers, Write(p)
  PROVE  IndInv'
  <1> USE QueueAssumption DEF IndInv
  <1>1. p \in Threads /\ p # Owner /\ Producers \subseteq Threads
    BY DEF Threads
  <1>2. /\ adds \in [Threads -> Nat] /\ pc \in [Threads -> Labels]
        /\ slots \in [Indices -> Events \cup {None}] /\ index[p] \in Indices
        /\ ran \in Seq(Events)
    BY DEF TypeOK
  <1>3. pc[p] = "write" /\ pc' = [pc EXCEPT ![p] = "publish"]
    BY DEF Write, Goto
  <1>4. UNCHANGED <<first, adds, ran>>
    BY DEF Write, history
  <1>5. EventOf(p) \in QueuedEvents /\ EventOf(p) \in Events /\ EventOf(p) # None
    BY <1>1, <1>3, EventOfCall, NoneAssumption DEF CallHasBegun, Unwritten
  <1>6. EventOf(p)[1] = p /\ EventOf(p)[2] = adds[p] /\ ~Handed(EventOf(p))
    BY <1>2, <1>3, <1>1 DEF EventOf, Handed, Unwritten
  <1>7. /\ \A i \in Indices \ {index[p]} : slots'[i] = slots[i]
        /\ slots'[index[p]] = EventOf(p)
    BY <1>2 DEF Write
  <1>8. \A e \in Events : Handed(e) => Handed(e)'
    BY <1>1, <1>2, <1>3, <1>4
    DEF Handed, Events, QueuedEvents, DirectEvents, Threads, Unwritten
  <1>9. Handed(EventOf(p))'
    BY <1>1, <1>2, <1>3, <1>4 DEF EventOf, Handed, Unwritten
  <1>10. CallHasBegun'
    BY <1>1, <1>2, <1>3, <1>4 DEF CallHasBegun, Unwritten
  <1>11. SlotsAreHanded'
    <2> SUFFICES ASSUME NEW i \in Indices, slots'[i] # None
                 PROVE  slots'[i] \in QueuedEvents /\ Handed(slots[i])'
      BY DEF SlotsAreHanded
    <2>1. CASE i = index[p]
      BY <1>4, <1>5, <1>7, <1>9, <2>1 DEF Handed, EventOf
    <2>2. CASE i # index[p]
      BY <1>7, <1>8, <2>2 DEF SlotsAreHanded, Events, Handed
    <2>3. QED
      BY <2>1, <2>2
  <1>12. SlotsDiffer'
    BY <1>6, <1>7 DEF SlotsDiffer, SlotsAreHanded
  <1>13. RunsAreHanded'
    BY <1>2, <1>4, <1>8 DEF RunsAreHanded, Handed
  <1>14. RanLeavesSlot'
    BY <1>1, <1>2, <1>3, <1>4, <1>6, <1>7 DEF RanLeavesSlot, RunsAreHanded
  <1>15. QED
    BY <1>4, <1>10, <1>11, <1>12, <1>13, <1>14 DEF AtMostOnce

\* The owner runs an event that is in no other slot and has not been run.
LEMMA BeginRunMoves ==
  ASSUME IndInv, TypeOK', BeginRun
  PROVE  IndInv'
  <1> USE QueueAssumption DEF IndInv
  <1>1. Owner \in Threads /\ Owner \notin Producers /\ Producers \subseteq Threads
    BY DEF Threads
  <1>2. /\ pc \in [Threads -> Labels] /\ first \in Indices /\ ran \in Seq(Events)
        /\ slots \in [Indices -> Events \cup {None}]
    BY DEF TypeOK
  <1>3. pc[Owner] = "idle" /\ pc' = [pc EXCEPT ![Owner] = "callback"]
    BY DEF BeginRun, Goto
  <1>4. UNCHANGED <<slots, first, adds>> /\ slots[first] # None
    BY DEF BeginRun, queueVars
  <1>5. slots[first] \in Events /\ Handed(slots[first])
    BY <1>2, <1>4 DEF SlotsAreHanded
  <1>6. /\ DOMAIN ran' = DOMAIN ran \cup {Len(ran) + 1}
        /\ \A k \in DOMAIN ran : ran'[k] = ran[k] /\ ran[k] \in Events
        /\ ran'[Len(ran) + 1] = slots[first]
        /\ Len(ran) + 1 \notin DOMAIN ran
    BY <1>2, <1>5 DEF BeginRun
  <1>7. \A e \in Events : Handed(e) => Handed(e)'
    BY <1>1, <1>2, <1>3, <1>4
    DEF Handed, Events, QueuedEvents, DirectEvents, Threads, Unwritten
  <1>8. \A k \in DOMAIN ran : ran[k] # slots[first]
    BY <1>2, <1>3 DEF RanLeavesSlot
  <1>9. CallHasBegun'
    BY <1>1, <1>2, <1>3, <1>4 DEF CallHasBegun
  <1>10. SlotsAreHanded'
    BY <1>4, <1>7 DEF SlotsAreHanded, Events, Handed
  <1>11. RunsAreHanded'
    <2> SUFFICES ASSUME NEW k \in DOMAIN ran' PROVE Handed(ran[k])'
      BY DEF RunsAreHanded
    <2>1. CASE k \in DOMAIN ran
      BY <1>6, <1>7, <2>1 DEF RunsAreHanded, Handed
    <2>2. CASE k = Len(ran) + 1
      BY <1>5, <1>6, <1>7, <2>2 DEF Handed
    <2>3. QED
      BY <1>6, <2>1, <2>2
  <1>12. RanLeavesSlot'
    <2> SUFFICES ASSUME NEW i \in Indices, NEW k \in DOMAIN ran', slots[i] = ran'[k]
                 PROVE  pc'[Owner] = "callback" /\ i = first
      BY <1>4 DEF RanLeavesSlot
    <2>1. pc'[Owner] = "callback"
      BY <1>1, <1>2, <1>3
    <2>2. k \notin DOMAIN ran
      BY <1>3, <1>6 DEF RanLeavesSlot
    <2>3. slots[i] = slots[first]
      BY <1>6, <2>2
    <2>4. QED
      BY <1>2, <1>4, <2>1, <2>3 DEF SlotsDiffer
  <1>13. AtMostOnce'
    BY <1>6, <1>8 DEF AtMostOnce
  <1>14. QED
    BY <1>4, <1>9, <1>10, <1>11, <1>12, <1>13 DEF SlotsDiffer

\* After the callback the slot that the event ran in is empty.
LEMMA EndRunMoves ==
  ASSUME IndInv, TypeOK', EndRun
  PROVE  IndInv'
  <1> USE QueueAssumption DEF IndInv
  <1>1. Owner \in Threads /\ Owner \notin Producers /\ Producers \subseteq Threads
    BY DEF Threads
  <1>2. /\ pc \in [Threads -> Labels] /\ first \in Indices /\ ran \in Seq(Events)
        /\ slots \in [Indices -> Events \cup {None}]
    BY DEF TypeOK
  <1>3. pc[Owner] = "callback" /\ pc' = [pc EXCEPT ![Owner] = "release"]
    BY DEF EndRun, Goto
  <1>4. UNCHANGED <<first, adds, ran>>
    BY DEF EndRun, history
  <1>5. slots'[first] = None /\ \A i \in Indices \ {first} : slots'[i] = slots[i]
    BY <1>2 DEF EndRun
  <1>6. \A e \in Events : Handed(e) => Handed(e)'
    BY <1>1, <1>2, <1>3, <1>4
    DEF Handed, Events, QueuedEvents, DirectEvents, Threads, Unwritten
  <1>7. CallHasBegun'
    BY <1>1, <1>2, <1>3, <1>4 DEF CallHasBegun
  <1>8. SlotsAreHanded'
    BY <1>5, <1>6 DEF SlotsAreHanded, Events, Handed
  <1>9. SlotsDiffer'
    BY <1>5 DEF SlotsDiffer
  <1>10. RunsAreHanded'
    BY <1>2, <1>4, <1>6 DEF RunsAreHanded, Handed
  <1>11. \A k \in DOMAIN ran : ran[k] # None
    BY <1>2, NoneAssumption
  <1>12. RanLeavesSlot'
    BY <1>4, <1>5, <1>11 DEF RanLeavesSlot
  <1>13. QED
    BY <1>4, <1>7, <1>8, <1>9, <1>10, <1>12 DEF AtMostOnce

\* When the owner goes on to the next slot no event in the ring has been run.
LEMMA AdvanceMoves ==
  ASSUME IndInv, TypeOK', Advance
  PROVE  IndInv'
  <1> USE QueueAssumption DEF IndInv
  <1>1. Owner \in Threads /\ Owner \notin Producers /\ Producers \subseteq Threads
    BY DEF Threads
  <1>2. pc \in [Threads -> Labels] /\ ran \in Seq(Events)
    BY DEF TypeOK
  <1>3. pc[Owner] = "advance" /\ pc' = [pc EXCEPT ![Owner] = "store"]
    BY DEF Advance, Goto
  <1>4. UNCHANGED <<slots, adds, ran>>
    BY DEF Advance, history
  <1>5. \A e \in Events : Handed(e) => Handed(e)'
    BY <1>1, <1>2, <1>3, <1>4
    DEF Handed, Events, QueuedEvents, DirectEvents, Threads, Unwritten
  <1>6. CallHasBegun'
    BY <1>1, <1>2, <1>3, <1>4 DEF CallHasBegun
  <1>7. SlotsAreHanded'
    BY <1>4, <1>5 DEF SlotsAreHanded, Events, Handed
  <1>8. RunsAreHanded'
    BY <1>2, <1>4, <1>5 DEF RunsAreHanded, Handed
  <1>9. RanLeavesSlot'
    BY <1>3, <1>4 DEF RanLeavesSlot
  <1>10. QED
    BY <1>4, <1>6, <1>7, <1>8, <1>9 DEF SlotsDiffer, AtMostOnce

LEMMA NextIndInv == IndInv /\ [Next]_vars => IndInv'
  <1> SUFFICES ASSUME IndInv, [Next]_vars
               PROVE  IndInv'
    OBVIOUS
  <1>1. TypeOK'
    BY NextTypes DEF IndInv
  <1>2. pc \in [Threads -> Labels] /\ Producers \subseteq Threads /\ Owner \in Threads
        /\ Strangers \subseteq Threads
    BY DEF IndInv, TypeOK, Threads
  <1>3. ASSUME NEW p \in Producers, AddEvent(p)
        PROVE  IndInv'
    <2>1. p # Owner
      BY QueueAssumption
    <2>2. CASE PassGuard(p) \/ Refuse(p)
      BY <1>1, <2>2, CallBegins DEF PassGuard, Refuse, Goto, queueVars
    <2>3. CASE Write(p)
      BY <1>1, <2>3, WriteMoves
    <2>4. CASE Claim(p) \/ Reserve(p) \/ Publish(p)
      BY <1>1, <1>2, <2>1, <2>4, NothingMoves
      DEF Claim, Reserve, Publish, Goto, history, Unwritten
    <2>5. CASE ScanNobody(p) \/ ScanOwner(p) \/ UnblockOwner(p) \/ UnblockNobody(p)
      BY <1>1, <1>2, <2>1, <2>5, NothingMoves
      DEF ScanNobody, ScanOwner, UnblockOwner, UnblockNobody, Goto, queueVars, history,
          Unwritten
    <2>6. QED
      BY <1>3, <2>2, <2>3, <2>4, <2>5 DEF AddEvent
  <1>4. ASSUME NEW s \in Strangers, BeginDirect(s)
        PROVE  IndInv'
    BY <1>1, <1>4, DirectRun, QueueAssumption DEF BeginDirect, Goto, queueVars
  <1>5. ASSUME NEW s \in Strangers, EndDirect(s)
        PROVE  IndInv'
    BY <1>1, <1>2, <1>5, NothingMoves, QueueAssumption
    DEF EndDirect, Goto, queueVars, history, Unwritten
  <1>6. CASE AddFromOwner
    BY <1>1, <1>6, DirectRun DEF AddFromOwner, queueVars, Unwritten
  <1>7. CASE RunNextEvent
    <2>1. CASE BeginRun
      BY <1>1, <2>1, BeginRunMoves
    <2>2. CASE EndRun
      BY <1>1, <2>2, EndRunMoves
    <2>3. CASE Advance
      BY <1>1, <2>3, AdvanceMoves
    <2>4. CASE RunEmpty \/ Release \/ StoreReady
      BY <1>1, <1>2, <2>4, NothingMoves
      DEF RunEmpty, Release, StoreReady, Goto, queueVars, history, Unwritten
    <2>5. CASE PollNothing
      BY <1>1, <2>5, NothingMoves DEF PollNothing, vars, queueVars, history
    <2>6. CASE SeeNothing \/ Register \/ Deregister
      BY <1>1, <1>2, <2>6, NothingMoves
      DEF SeeNothing, Register, Deregister, Goto, queueVars, history, Unwritten
    <2>7. CASE Sleep \/ DoNotSleep \/ WakeUp
      BY <1>1, <1>2, <2>7, NothingMoves
      DEF Sleep, DoNotSleep, WakeUp, Goto, queueVars, history, Unwritten
    <2>8. QED
      BY <1>7, <2>1, <2>2, <2>3, <2>4, <2>5, <2>6, <2>7 DEF RunNextEvent
  <1>8. CASE UNCHANGED vars
    BY <1>1, <1>8, NothingMoves DEF vars, queueVars, history
  <1>9. QED
    BY <1>3, <1>4, <1>5, <1>6, <1>7, <1>8 DEF Next

\* The inductive invariant holds in every reachable state.
THEOREM Inductive == Spec => []IndInv
  <1>1. IndInv /\ [Next]_vars => IndInv'
    BY NextIndInv
  <1>2. QED
    BY InitIndInv, <1>1, PTL DEF Spec

\* Whatever the number of threads and slots and however their steps interleave,
\* addEvent and runNextEvent keep the indices within the array and the number of
\* claims within its type.
THEOREM TypeCorrect == Spec => []TypeOK
  <1>1. IndInv => TypeOK
    BY DEF IndInv
  <1>2. QED
    BY Inductive, <1>1, PTL

\* Whatever the number of threads and slots and however their steps interleave,
\* no event that addEvent was called with is run twice.
THEOREM NoEventRunsTwice == Spec => []AtMostOnce
  <1>1. IndInv => AtMostOnce
    BY DEF IndInv
  <1>2. QED
    BY Inductive, <1>1, PTL

-----------------------------------------------------------------------------
(* The ring, when the producers have a higher priority than the owner: an   *)
(* addEvent runs to its end before anybody else steps.                      *)

\* The slot n places after slot i.
After(i, n) == IF i + n < Capacity THEN i + n ELSE i + n - Capacity

\* The slot of the oldest outstanding event.
Base == IF pc[Owner] \in {"callback", "release", "advance"} THEN After(first, 1) ELSE first

\* The number of outstanding events, and of those that were written.
Waits   == Len(accepted) - runs
Writing == \E p \in Producers : pc[p] = "write"
Written == IF Writing THEN Waits - 1 ELSE Waits

OneProducerSteps == \A p, q \in Producers : pc[p] # "idle" /\ pc[q] # "idle" => p = q

ClaimsAddUp ==
  /\ claimed = Waits + (IF \E p \in Producers : pc[p] = "reserve" THEN 1 ELSE 0)
                     + (IF pc[Owner] \in {"callback", "release"} THEN 1 ELSE 0)
  /\ claimed <= Capacity
  /\ (\E p \in Producers : pc[p] = "claim") => claimed < Capacity

WindowIsExact ==
  /\ runs <= Len(accepted)
  /\ last = After(Base, Waits)
  /\ \A k \in 1 .. Written : slots[After(Base, k - 1)] = accepted[runs + k]

OthersAreEmpty ==
  \A i \in Indices :
     slots[i] # None => \/ pc[Owner] = "callback" /\ i = first
                        \/ \E k \in 1 .. Written : i = After(Base, k - 1)

WriterHasItsSlot ==
  \A p \in Producers :
     /\ pc[p] = "write" => /\ Waits >= 1
                           /\ index[p] = After(Base, Waits - 1)
                           /\ accepted[Len(accepted)] = EventOf(p)
     /\ pc[p] = "publish" => Waits >= 1

ReadyMeansWritten ==
  /\ ready /\ pc[Owner] \notin {"callback", "release", "advance", "store"} => Written >= 1
  /\ more /\ pc[Owner] = "store" => Written >= 1

\* Every accepted event belongs to a call that has begun.
AcceptedAreCalls ==
  \A k \in DOMAIN accepted :
     LET e == accepted[k]
     IN /\ e \in QueuedEvents
        /\ e[2] <= adds[e[1]]
        /\ pc[e[1]] \in {"claim", "reserve"} => e[2] < adds[e[1]]

RingInv ==
  /\ OneProducerSteps /\ ClaimsAddUp /\ WindowIsExact /\ OthersAreEmpty
  /\ WriterHasItsSlot /\ ReadyMeansWritten /\ AcceptedAreCalls

LEMMA SmallRemainder ==
  ASSUME NEW b \in Nat \ {0}, NEW a \in 0 .. b - 1
  PROVE  a % b = a
  OBVIOUS

LEMMA WrappedRemainder ==
  ASSUME NEW b \in Nat \ {0}, NEW a \in b .. 2 * b - 1
  PROVE  a % b = a - b
  OBVIOUS

\* Counting in the ring.
LEMMA AfterInRange ==
  ASSUME NEW i \in Indices, NEW n \in 0 .. Capacity
  PROVE  /\ After(i, n) \in Indices
         /\ (i + n) % Capacity = After(i, n)
  <1>1. Capacity \in Nat \ {0} /\ i \in 0 .. Capacity - 1
    BY QueueAssumption DEF Indices
  <1>2. CASE i + n < Capacity
    <2>1. i + n \in 0 .. Capacity - 1
      BY <1>1, <1>2
    <2>2. QED
      BY <1>1, <1>2, <2>1, SmallRemainder DEF After, Indices
  <1>3. CASE i + n >= Capacity
    <2>1. i + n \in Capacity .. 2 * Capacity - 1
      BY <1>1, <1>3
    <2>2. QED
      BY <1>1, <1>3, <2>1, WrappedRemainder DEF After, Indices
  <1>4. QED
    BY <1>1, <1>2, <1>3

LEMMA AfterAfter ==
  ASSUME NEW i \in Indices, NEW n \in 0 .. Capacity, NEW m \in 0 .. Capacity,
         n + m <= Capacity
  PROVE  After(After(i, n), m) = After(i, n + m)
  BY QueueAssumption DEF After, Indices

LEMMA AfterDiffers ==
  ASSUME NEW i \in Indices, NEW n \in 0 .. Capacity - 1, NEW m \in 0 .. Capacity - 1,
         After(i, n) = After(i, m)
  PROVE  n = m
  BY QueueAssumption DEF After, Indices

\* The numbers of a ring.
LEMMA RingNumbers ==
  ASSUME TypeOK, RingInv
  PROVE  /\ Capacity \in Nat \ {0} /\ CountRange \in Nat /\ CountRange > Capacity
         /\ first \in Indices /\ last \in Indices /\ Base \in Indices
         /\ runs \in Nat /\ Len(accepted) \in Nat /\ runs <= Len(accepted)
         /\ Waits \in 0 .. Capacity /\ claimed \in 0 .. Capacity
         /\ Written \in {Waits, Waits - 1}
  <1>1. /\ Capacity \in Nat \ {0} /\ CountRange \in Nat /\ CountRange > Capacity
        /\ first \in Indices /\ last \in Indices /\ claimed \in Nat
        /\ runs \in Nat /\ Len(accepted) \in Nat
    BY QueueAssumption DEF TypeOK
  <1>2. 1 \in 0 .. Capacity
    BY <1>1
  <1>3. After(first, 1) \in Indices
    BY <1>1, <1>2, AfterInRange
  <1>4. Base \in Indices
    BY <1>1, <1>3 DEF Base
  <1>5. Waits \in 0 .. Capacity /\ claimed \in 0 .. Capacity /\ runs <= Len(accepted)
    <2>1. \E a, b \in {0, 1} : claimed = Waits + a + b
      BY <1>1 DEF RingInv, ClaimsAddUp
    <2>2. claimed <= Capacity /\ runs <= Len(accepted)
      BY DEF RingInv, ClaimsAddUp, WindowIsExact
    <2>3. QED
      BY <1>1, <2>1, <2>2 DEF Waits
  <1>6. QED
    BY <1>1, <1>4, <1>5 DEF Written

\* When a producer steps, all the others are between two calls.
LEMMA ProducerAlone ==
  ASSUME Producers \subseteq Atomic, TypeOK, NEW p \in Producers, MayStep(p)
  PROVE  \A q \in Producers \ {p} : pc[q] = "idle"
  BY QueueAssumption DEF MayStep, MidCall

LEMMA OwnerAlone ==
  ASSUME Producers \subseteq Atomic, TypeOK, MayStep(Owner)
  PROVE  \A q \in Producers : pc[q] = "idle"
  BY QueueAssumption DEF MayStep, MidCall

\* What the places of a call say about the ring when p is the only one in a call.
LEMMA ProducerPlaces ==
  ASSUME Producers \subseteq Atomic, TypeOK, NEW p \in Producers, MayStep(p),
         NEW to \in Labels, pc' = [pc EXCEPT ![p] = to]
  PROVE  /\ pc'[Owner] = pc[Owner] /\ pc'[p] = to
         /\ \A q \in Producers \ {p} : pc[q] = "idle" /\ pc'[q] = "idle"
         /\ OneProducerSteps'
         /\ \A at \in Labels \ {"idle"} :
              /\ (\E q \in Producers : pc[q] = at) <=> pc[p] = at
              /\ (\E q \in Producers : pc'[q] = at) <=> to = at
  <1>1. \A q \in Producers \ {p} : pc[q] = "idle"
    BY ProducerAlone
  <1>2. p # Owner /\ pc \in [Threads -> Labels] /\ Producers \subseteq Threads
        /\ Owner \in Threads
    BY QueueAssumption DEF TypeOK, Threads
  <1>3. pc'[Owner] = pc[Owner] /\ pc'[p] = to /\ \A q \in Producers \ {p} : pc'[q] = pc[q]
    BY <1>2
  <1>4. OneProducerSteps'
    BY <1>1, <1>3 DEF OneProducerSteps
  <1>5. QED
    BY <1>1, <1>3, <1>4

\* A step of a producer that leaves the ring alone.
LEMMA ProducerLeavesRing ==
  ASSUME Producers \subseteq Atomic, TypeOK, RingInv, NEW p \in Producers, MayStep(p),
         NEW to \in Labels, pc' = [pc EXCEPT ![p] = to],
         pc[p] = "write" <=> to = "write",
         UNCHANGED <<slots, first, last, accepted, runs>>
  PROVE  /\ Base' = Base /\ Waits' = Waits /\ Written' = Written
         /\ WindowIsExact' /\ OthersAreEmpty' /\ OneProducerSteps'
  <1>1. /\ pc'[Owner] = pc[Owner] /\ OneProducerSteps'
        /\ Writing' <=> Writing
    BY ProducerPlaces DEF Writing, Labels
  <1>2. Base' = Base /\ Waits' = Waits
    BY <1>1 DEF Base, Waits, After
  <1>3. Written' = Written
    BY <1>1, <1>2 DEF Written
  <1>4. WindowIsExact' /\ OthersAreEmpty'
    BY <1>1, <1>2, <1>3 DEF RingInv, WindowIsExact, OthersAreEmpty, After
  <1>5. QED
    BY <1>1, <1>2, <1>3, <1>4

LEMMA CallBeginsRing ==
  ASSUME Producers \subseteq Atomic, IndInv, RingInv, NEW p \in Producers,
         PassGuard(p) \/ Refuse(p)
  PROVE  RingInv'
  <1> USE DEF IndInv
  <1>1. PICK to \in {"claim", "idle"} :
          /\ pc[p] = "idle" /\ pc' = [pc EXCEPT ![p] = to] /\ MayStep(p)
          /\ to = "claim" => claimed < Capacity
          /\ UNCHANGED <<slots, first, last, claimed, ready, index, more, accepted, runs>>
          /\ NewEvent(p)
    BY DEF PassGuard, Refuse, Goto, queueVars
  <1>2. to \in Labels
    BY DEF Labels
  <1>3. /\ pc'[Owner] = pc[Owner] /\ pc'[p] = to
        /\ \A q \in Producers \ {p} : pc[q] = "idle" /\ pc'[q] = "idle"
        /\ \A at \in Labels \ {"idle"} :
              /\ (\E q \in Producers : pc[q] = at) <=> pc[p] = at
              /\ (\E q \in Producers : pc'[q] = at) <=> to = at
    BY <1>1, <1>2, ProducerPlaces
  <1>4. /\ Base' = Base /\ Waits' = Waits /\ Written' = Written
        /\ WindowIsExact' /\ OthersAreEmpty' /\ OneProducerSteps'
    BY <1>1, <1>2, ProducerLeavesRing
  <1>5. ClaimsAddUp'
    BY <1>1, <1>3, <1>4 DEF RingInv, ClaimsAddUp, Labels
  <1>6. WriterHasItsSlot'
    BY <1>1, <1>3 DEF WriterHasItsSlot
  <1>7. ReadyMeansWritten'
    BY <1>1, <1>3, <1>4 DEF RingInv, ReadyMeansWritten
  <1>8. AcceptedAreCalls'
    <2>1. p \in Threads /\ Producers \subseteq Threads /\ adds \in [Threads -> Nat]
      BY DEF TypeOK, Threads
    <2>2. adds'[p] = adds[p] + 1 /\ \A q \in Producers \ {p} : adds'[q] = adds[q]
      BY <1>1, <2>1, NewEventTypes
    <2>3. SUFFICES ASSUME NEW k \in DOMAIN accepted
                   PROVE  /\ accepted[k][2] <= adds'[accepted[k][1]]
                          /\ pc'[accepted[k][1]] \in {"claim", "reserve"} =>
                                accepted[k][2] < adds'[accepted[k][1]]
                          /\ accepted[k] \in QueuedEvents
      BY <1>1 DEF AcceptedAreCalls
    <2>4. /\ accepted[k] \in QueuedEvents
          /\ accepted[k][1] \in Producers /\ accepted[k][2] \in Nat
          /\ accepted[k][2] <= adds[accepted[k][1]]
      BY DEF RingInv, AcceptedAreCalls, QueuedEvents
    <2>5. QED
      BY <1>3, <2>1, <2>2, <2>4
  <1>9. QED
    BY <1>4, <1>5, <1>6, <1>7, <1>8 DEF RingInv

LEMMA ClaimRing ==
  ASSUME Producers \subseteq Atomic, IndInv, RingInv, NEW p \in Producers, Claim(p)
  PROVE  RingInv'
  <1> USE DEF IndInv
  <1>1. /\ pc[p] = "claim" /\ pc' = [pc EXCEPT ![p] = "reserve"] /\ MayStep(p)
        /\ claimed' = (claimed + 1) % CountRange
        /\ UNCHANGED <<slots, first, last, ready, index, more, accepted, runs, adds>>
    BY DEF Claim, Goto, history
  <1>2. "reserve" \in Labels
    BY DEF Labels
  <1>3. /\ pc'[Owner] = pc[Owner] /\ pc'[p] = "reserve"
        /\ \A q \in Producers \ {p} : pc[q] = "idle" /\ pc'[q] = "idle"
        /\ \A at \in Labels \ {"idle"} :
              /\ (\E q \in Producers : pc[q] = at) <=> pc[p] = at
              /\ (\E q \in Producers : pc'[q] = at) <=> "reserve" = at
    BY <1>1, <1>2, ProducerPlaces
  <1>4. /\ Base' = Base /\ Waits' = Waits /\ Written' = Written
        /\ WindowIsExact' /\ OthersAreEmpty' /\ OneProducerSteps'
    BY <1>1, <1>2, ProducerLeavesRing
  <1>5. ClaimsAddUp'
    <2>1. claimed < Capacity
      BY <1>1 DEF RingInv, ClaimsAddUp
    <2>2. claimed + 1 \in 0 .. CountRange - 1 /\ CountRange \in Nat \ {0}
          /\ Waits \in 0 .. Capacity /\ claimed \in Nat
      BY <2>1, RingNumbers
    <2>3. claimed' = claimed + 1
      BY <1>1, <2>2, SmallRemainder
    <2>4. /\ ~(\E q \in Producers : pc[q] = "reserve")
          /\ (\E q \in Producers : pc'[q] = "reserve")
          /\ ~(\E q \in Producers : pc'[q] = "claim")
      BY <1>1, <1>3 DEF Labels
    <2>5. claimed = Waits + (IF pc[Owner] \in {"callback", "release"} THEN 1 ELSE 0)
      BY <2>2, <2>4 DEF RingInv, ClaimsAddUp
    <2>6. claimed' <= Capacity
      BY <2>1, <2>2, <2>3, QueueAssumption
    <2>7. claimed' = Waits' + 1 + (IF pc'[Owner] \in {"callback", "release"} THEN 1 ELSE 0)
      BY <1>3, <1>4, <2>2, <2>3, <2>5
    <2>8. QED
      BY <2>4, <2>6, <2>7 DEF ClaimsAddUp
  <1>6. WriterHasItsSlot'
    BY <1>1, <1>3 DEF WriterHasItsSlot
  <1>7. ReadyMeansWritten'
    BY <1>1, <1>3, <1>4 DEF RingInv, ReadyMeansWritten
  <1>8. AcceptedAreCalls'
    <2>1. \A k \in DOMAIN accepted : accepted[k][1] \in Producers
      BY DEF RingInv, AcceptedAreCalls, QueuedEvents
    <2>2. QED
      BY <1>1, <1>3, <2>1 DEF RingInv, AcceptedAreCalls
  <1>9. QED
    BY <1>4, <1>5, <1>6, <1>7, <1>8 DEF RingInv

LEMMA ReserveRing ==
  ASSUME Producers \subseteq Atomic, IndInv, RingInv, NEW p \in Producers, Reserve(p)
  PROVE  RingInv'
  <1> USE DEF IndInv
  <1>1. /\ pc[p] = "reserve" /\ pc' = [pc EXCEPT ![p] = "write"] /\ MayStep(p)
        /\ index' = [index EXCEPT ![p] = last]
        /\ last' = (last + 1) % Capacity
        /\ accepted' = Append(accepted, EventOf(p))
        /\ UNCHANGED <<slots, first, claimed, ready, more, runs, adds>>
    BY DEF Reserve, Goto
  <1>2. /\ pc'[Owner] = pc[Owner] /\ pc'[p] = "write" /\ OneProducerSteps'
        /\ \A q \in Producers \ {p} : pc[q] = "idle" /\ pc'[q] = "idle"
        /\ \A at \in Labels \ {"idle"} :
              /\ (\E q \in Producers : pc[q] = at) <=> pc[p] = at
              /\ (\E q \in Producers : pc'[q] = at) <=> "write" = at
    BY <1>1, ProducerPlaces DEF Labels
  <1>3. /\ ~Writing /\ Writing'
        /\ (\E q \in Producers : pc[q] = "reserve")
        /\ ~(\E q \in Producers : pc'[q] = "reserve")
        /\ ~(\E q \in Producers : pc'[q] = "claim")
    BY <1>1, <1>2 DEF Writing, Labels
  <1>4. Base' = Base /\ Base \in Indices
    BY <1>1, <1>2, RingNumbers DEF Base, After
  <1>5. /\ p \in Threads /\ adds[p] >= 1 /\ adds \in [Threads -> Nat]
        /\ accepted \in Seq(Events)
    BY <1>1 DEF Threads, CallHasBegun, Unwritten, TypeOK
  <1>6. EventOf(p) \in QueuedEvents /\ EventOf(p) \in Events
    BY <1>5, EventOfCall
  <1>7. /\ Len(accepted') = Len(accepted) + 1
        /\ \A k \in 1 .. Len(accepted) : accepted'[k] = accepted[k]
        /\ accepted'[Len(accepted) + 1] = EventOf(p)
        /\ DOMAIN accepted = 1 .. Len(accepted)
        /\ DOMAIN accepted' = 1 .. Len(accepted) + 1
    BY <1>1, <1>5, <1>6
  <1>8. Len(accepted) \in Nat /\ runs \in Nat /\ Capacity \in Nat \ {0}
        /\ Waits \in 0 .. Capacity /\ runs <= Len(accepted)
    BY RingNumbers
  <1>9. Waits' = Waits + 1 /\ Written' = Waits /\ Written = Waits
    BY <1>1, <1>3, <1>7, <1>8 DEF Waits, Written
  <1>10. Waits + 1 <= Capacity
    <2>1. \E a \in {0, 1} : claimed = Waits + 1 + a
      BY <1>3, <1>8 DEF RingInv, ClaimsAddUp
    <2>2. QED
      BY <1>8, <2>1 DEF RingInv, ClaimsAddUp
  <1>11. ClaimsAddUp'
    <2>1. /\ claimed = Waits + 1 + (IF pc[Owner] \in {"callback", "release"} THEN 1 ELSE 0)
          /\ claimed <= Capacity
      BY <1>3 DEF RingInv, ClaimsAddUp
    <2>2. claimed' = Waits' + (IF pc'[Owner] \in {"callback", "release"} THEN 1 ELSE 0)
      BY <1>1, <1>2, <1>8, <1>9, <2>1
    <2>3. QED
      BY <1>1, <1>3, <1>8, <1>9, <2>1, <2>2 DEF ClaimsAddUp
  <1>12. last = After(Base, Waits) /\ last' = After(Base, Waits + 1)
    <2>1. last = After(Base, Waits) /\ last \in Indices
      BY RingNumbers DEF RingInv, WindowIsExact
    <2>2. last' = After(last, 1)
      BY <1>1, <1>8, <2>1, AfterInRange
    <2>3. QED
      BY <1>4, <1>8, <1>10, <2>1, <2>2, AfterAfter
  <1>13. WindowIsExact'
    <2>1. runs' <= Len(accepted')
      BY <1>1, <1>7, <1>8
    <2>2. last' = After(Base', Waits')
      BY <1>4, <1>9, <1>12
    <2>3. ASSUME NEW k \in 1 .. Written'
          PROVE  slots'[After(Base', k - 1)] = accepted'[runs' + k]
      <3>1. k \in 1 .. Written /\ runs + k \in 1 .. Len(accepted)
        BY <1>8, <1>9 DEF Waits
      <3>2. QED
        BY <1>1, <1>4, <1>7, <3>1 DEF RingInv, WindowIsExact
    <2>4. QED
      BY <2>1, <2>2, <2>3 DEF WindowIsExact, After
  <1>14. OthersAreEmpty'
    BY <1>1, <1>2, <1>4, <1>9 DEF RingInv, OthersAreEmpty, After
  <1>15. WriterHasItsSlot'
    <2>1. EventOf(p)' = EventOf(p)
      BY <1>1 DEF EventOf
    <2>2. index'[p] = After(Base', Waits' - 1)
      BY <1>1, <1>4, <1>8, <1>9, <1>12 DEF TypeOK
    <2>3. Waits' >= 1
      BY <1>8, <1>9
    <2>4. accepted'[Len(accepted')] = EventOf(p)'
      BY <1>7, <2>1
    <2>5. QED
      BY <1>2, <2>2, <2>3, <2>4 DEF WriterHasItsSlot, After
  <1>16. ReadyMeansWritten'
    BY <1>1, <1>2, <1>9 DEF RingInv, ReadyMeansWritten
  <1>17. AcceptedAreCalls'
    <2>1. SUFFICES ASSUME NEW k \in DOMAIN accepted'
                   PROVE  /\ accepted'[k] \in QueuedEvents
                          /\ accepted'[k][2] <= adds[accepted'[k][1]]
                          /\ pc'[accepted'[k][1]] \in {"claim", "reserve"} =>
                                accepted'[k][2] < adds[accepted'[k][1]]
      BY <1>1 DEF AcceptedAreCalls
    <2>2. CASE k \in DOMAIN accepted
      <3>1. /\ accepted'[k] = accepted[k] /\ accepted[k] \in QueuedEvents
            /\ accepted[k][2] <= adds[accepted[k][1]] /\ accepted[k][1] \in Producers
        BY <1>7, <2>2 DEF RingInv, AcceptedAreCalls, QueuedEvents
      <3>2. pc'[accepted[k][1]] \notin {"claim", "reserve"}
        BY <1>2, <3>1
      <3>3. QED
        BY <3>1, <3>2
    <2>3. CASE k = Len(accepted) + 1
      <3>1. accepted'[k] = EventOf(p) /\ EventOf(p)[1] = p /\ EventOf(p)[2] = adds[p]
        BY <1>7, <2>3 DEF EventOf
      <3>2. adds[p] <= adds[p]
        BY <1>5
      <3>3. QED
        BY <1>2, <1>6, <3>1, <3>2
    <2>4. QED
      BY <1>7, <1>8, <2>2, <2>3
  <1>18. QED
    BY <1>2, <1>11, <1>13, <1>14, <1>15, <1>16, <1>17 DEF RingInv

LEMMA WriteRing ==
  ASSUME Producers \subseteq Atomic, IndInv, RingInv, NEW p \in Producers, Write(p)
  PROVE  RingInv'
  <1> USE DEF IndInv
  <1>1. /\ pc[p] = "write" /\ pc' = [pc EXCEPT ![p] = "publish"] /\ MayStep(p)
        /\ slots' = [slots EXCEPT ![index[p]] = EventOf(p)]
        /\ UNCHANGED <<first, last, claimed, ready, more, accepted, runs, adds>>
    BY DEF Write, Goto, history
  <1>2. /\ pc'[Owner] = pc[Owner] /\ pc'[p] = "publish" /\ OneProducerSteps'
        /\ \A q \in Producers \ {p} : pc[q] = "idle" /\ pc'[q] = "idle"
        /\ \A at \in Labels \ {"idle"} :
              /\ (\E q \in Producers : pc[q] = at) <=> pc[p] = at
              /\ (\E q \in Producers : pc'[q] = at) <=> "publish" = at
    BY <1>1, ProducerPlaces DEF Labels
  <1>3. /\ Writing /\ ~Writing'
        /\ ~(\E q \in Producers : pc[q] = "reserve")
        /\ ~(\E q \in Producers : pc'[q] = "reserve")
        /\ ~(\E q \in Producers : pc'[q] = "claim")
    BY <1>1, <1>2 DEF Writing, Labels
  <1>4. Base' = Base /\ Base \in Indices /\ Waits' = Waits
    BY <1>1, <1>2, RingNumbers DEF Base, After, Waits
  <1>5. /\ Len(accepted) \in Nat /\ runs \in Nat /\ Capacity \in Nat \ {0}
        /\ Waits \in 0 .. Capacity /\ runs <= Len(accepted)
    BY RingNumbers
  <1>6. /\ Waits >= 1 /\ index[p] = After(Base, Waits - 1)
        /\ accepted[Len(accepted)] = EventOf(p)
    BY <1>1 DEF RingInv, WriterHasItsSlot
  <1>7. Written = Waits - 1 /\ Written' = Waits
    BY <1>3, <1>4 DEF Written
  <1>8. /\ slots'[After(Base, Waits - 1)] = EventOf(p)
        /\ \A i \in Indices \ {After(Base, Waits - 1)} : slots'[i] = slots[i]
    BY <1>1, <1>6 DEF TypeOK
  <1>9. ClaimsAddUp'
    BY <1>1, <1>2, <1>3, <1>4 DEF RingInv, ClaimsAddUp
  <1>10. WindowIsExact'
    <2>1. ASSUME NEW k \in 1 .. Written'
          PROVE  slots'[After(Base, k - 1)] = accepted[runs + k]
      <3>1. CASE k = Waits
        BY <1>5, <1>6, <1>8, <3>1 DEF Waits
      <3>2. CASE k # Waits
        <4>1. k \in 1 .. Written /\ k - 1 \in 0 .. Capacity - 1
              /\ Waits - 1 \in 0 .. Capacity - 1 /\ k - 1 \in 0 .. Capacity
              /\ k - 1 # Waits - 1
          BY <1>5, <1>6, <1>7, <3>2
        <4>2. After(Base, k - 1) \in Indices /\ After(Base, k - 1) # After(Base, Waits - 1)
          BY <1>4, <4>1, AfterInRange, AfterDiffers
        <4>3. QED
          BY <1>8, <4>1, <4>2 DEF RingInv, WindowIsExact
      <3>3. QED
        BY <3>1, <3>2
    <2>2. last' = After(Base', Waits')
      BY <1>1, <1>4 DEF RingInv, WindowIsExact
    <2>3. QED
      BY <1>1, <1>4, <1>5, <2>1, <2>2 DEF WindowIsExact, After
  <1>11. OthersAreEmpty'
    <2>1. SUFFICES ASSUME NEW i \in Indices, slots'[i] # None
                   PROVE  \/ pc[Owner] = "callback" /\ i = first
                          \/ \E k \in 1 .. Waits : i = After(Base, k - 1)
      BY <1>1, <1>2, <1>4, <1>7 DEF OthersAreEmpty, After
    <2>2. CASE i = After(Base, Waits - 1)
      BY <1>5, <1>6, <2>2
    <2>3. CASE i # After(Base, Waits - 1)
      <3>1. slots[i] # None
        BY <1>8, <2>1, <2>3
      <3>2. \/ pc[Owner] = "callback" /\ i = first
            \/ \E k \in 1 .. Waits - 1 : i = After(Base, k - 1)
        BY <1>7, <3>1 DEF RingInv, OthersAreEmpty
      <3>3. \A k \in 1 .. Waits - 1 : k \in 1 .. Waits
        BY <1>5
      <3>4. QED
        BY <3>2, <3>3
    <2>4. QED
      BY <2>2, <2>3
  <1>12. WriterHasItsSlot'
    BY <1>2, <1>4, <1>6 DEF WriterHasItsSlot
  <1>13. ReadyMeansWritten'
    <2>1. Written' >= 1
      BY <1>6, <1>7
    <2>2. QED
      BY <2>1 DEF ReadyMeansWritten
  <1>14. AcceptedAreCalls'
    <2>1. \A k \in DOMAIN accepted : accepted[k][1] \in Producers
      BY DEF RingInv, AcceptedAreCalls, QueuedEvents
    <2>2. QED
      BY <1>1, <1>2, <2>1 DEF RingInv, AcceptedAreCalls
  <1>15. QED
    BY <1>2, <1>9, <1>10, <1>11, <1>12, <1>13, <1>14 DEF RingInv

\* Publish and the steps after it.
LEMMA PublishRing ==
  ASSUME Producers \subseteq Atomic, IndInv, RingInv, NEW p \in Producers, MayStep(p),
         NEW to \in {"scan", "unblock", "idle"},
         \/ pc[p] = "publish" /\ ready' = TRUE
         \/ pc[p] \in {"scan", "unblock"} /\ ready' = ready,
         pc' = [pc EXCEPT ![p] = to],
         UNCHANGED <<slots, first, last, claimed, index, more, accepted, runs, adds>>
  PROVE  RingInv'
  <1> USE DEF IndInv
  <1>1. to \in Labels /\ pc[p] # "write" /\ pc[p] # "claim" /\ pc[p] # "reserve"
    BY DEF Labels
  <1>2. /\ pc'[Owner] = pc[Owner] /\ pc'[p] = to
        /\ \A q \in Producers \ {p} : pc[q] = "idle" /\ pc'[q] = "idle"
        /\ \A at \in Labels \ {"idle"} :
              /\ (\E q \in Producers : pc[q] = at) <=> pc[p] = at
              /\ (\E q \in Producers : pc'[q] = at) <=> to = at
    BY <1>1, ProducerPlaces
  <1>3. /\ Base' = Base /\ Waits' = Waits /\ Written' = Written
        /\ WindowIsExact' /\ OthersAreEmpty' /\ OneProducerSteps'
    BY <1>1, ProducerLeavesRing
  <1>4. ClaimsAddUp'
    <2>1. /\ ~(\E q \in Producers : pc[q] = "reserve")
          /\ ~(\E q \in Producers : pc'[q] = "reserve")
          /\ ~(\E q \in Producers : pc'[q] = "claim")
      BY <1>1, <1>2 DEF Labels
    <2>2. QED
      BY <1>2, <1>3, <2>1 DEF RingInv, ClaimsAddUp
  <1>5. WriterHasItsSlot'
    BY <1>2 DEF WriterHasItsSlot
  <1>6. ReadyMeansWritten'
    <2>1. pc[p] = "publish" => Written >= 1
      <3>1. pc[p] = "publish" => ~Writing /\ Waits >= 1
        BY <1>2 DEF Writing, Labels, RingInv, WriterHasItsSlot
      <3>2. QED
        BY <3>1 DEF Written
    <2>2. QED
      BY <1>2, <1>3, <2>1 DEF RingInv, ReadyMeansWritten
  <1>7. AcceptedAreCalls'
    <2>1. \A k \in DOMAIN accepted : accepted[k][1] \in Producers
      BY DEF RingInv, AcceptedAreCalls, QueuedEvents
    <2>2. QED
      BY <1>2, <2>1 DEF RingInv, AcceptedAreCalls
  <1>8. QED
    BY <1>3, <1>4, <1>5, <1>6, <1>7 DEF RingInv

\* Steps of the owner and of strangers that leave the ring alone.
LEMMA OthersLeaveRing ==
  ASSUME IndInv, RingInv,
         \A q \in Producers : pc'[q] = pc[q] /\ adds'[q] = adds[q],
         \/ pc'[Owner] = pc[Owner]
         \/ {pc[Owner], pc'[Owner]} \cap {"callback", "release", "advance", "store"} = {},
         UNCHANGED <<slots, first, last, claimed, ready, index, more, accepted, runs>>
  PROVE  RingInv'
  <1> USE DEF IndInv
  <1>1. \A l \in {"callback", "release", "advance", "store"} : pc'[Owner] = l <=> pc[Owner] = l
    OBVIOUS
  <1>2. /\ Base' = Base /\ Waits' = Waits
    BY <1>1 DEF Base, After, Waits
  <1>3. Writing' <=> Writing
    BY DEF Writing
  <1>4. Written' = Written
    BY <1>2, <1>3 DEF Written
  <1>5. WindowIsExact' /\ OthersAreEmpty' /\ OneProducerSteps'
    BY <1>1, <1>2, <1>4
    DEF RingInv, WindowIsExact, OthersAreEmpty, OneProducerSteps, After
  <1>6. ClaimsAddUp'
    BY <1>1, <1>2 DEF RingInv, ClaimsAddUp
  <1>7. WriterHasItsSlot'
    BY <1>2 DEF RingInv, WriterHasItsSlot, EventOf, After
  <1>8. ReadyMeansWritten'
    BY <1>1, <1>4 DEF RingInv, ReadyMeansWritten
  <1>9. AcceptedAreCalls'
    BY DEF RingInv, AcceptedAreCalls, QueuedEvents
  <1>10. QED
    BY <1>5, <1>6, <1>7, <1>8, <1>9 DEF RingInv


\* What the ring looks like to its owner when it may step.
LEMMA OwnerSees ==
  ASSUME Producers \subseteq Atomic, IndInv, RingInv, MayStep(Owner),
         NEW to \in Labels, pc' = [pc EXCEPT ![Owner] = to]
  PROVE  /\ pc'[Owner] = to
         /\ \A q \in Producers : pc[q] = "idle" /\ pc'[q] = "idle"
         /\ Written = Waits /\ Written' = Waits'
         /\ claimed = Waits + (IF pc[Owner] \in {"callback", "release"} THEN 1 ELSE 0)
         /\ UNCHANGED <<accepted, adds>> => OneProducerSteps' /\ WriterHasItsSlot' /\ AcceptedAreCalls'
  <1>1. pc \in [Threads -> Labels] /\ Owner \in Threads /\ Owner \notin Producers
        /\ Producers \subseteq Threads
    BY QueueAssumption DEF IndInv, TypeOK, Threads
  <1>2. \A q \in Producers : pc[q] = "idle" /\ pc'[q] = "idle"
    BY <1>1, OwnerAlone DEF IndInv
  <1>3. Written = Waits /\ Written' = Waits'
    BY <1>2 DEF Written, Writing
  <1>4. claimed = Waits + (IF pc[Owner] \in {"callback", "release"} THEN 1 ELSE 0)
    <2>1. ~(\E q \in Producers : pc[q] = "reserve")
      BY <1>2
    <2>2. Waits \in Nat
      BY RingNumbers DEF IndInv
    <2>3. QED
      BY <2>1, <2>2 DEF RingInv, ClaimsAddUp
  <1>5. OneProducerSteps' /\ WriterHasItsSlot'
    BY <1>2 DEF OneProducerSteps, WriterHasItsSlot
  <1>6. UNCHANGED <<accepted, adds>> => AcceptedAreCalls'
    <2>1. \A k \in DOMAIN accepted : accepted[k][1] \in Producers
      BY DEF RingInv, AcceptedAreCalls, QueuedEvents
    <2>2. QED
      BY <1>2, <2>1 DEF RingInv, AcceptedAreCalls
  <1>7. QED
    BY <1>1, <1>2, <1>3, <1>4, <1>5, <1>6

\* The owner's event is the oldest that waits.
LEMMA OwnerFindsOldest ==
  ASSUME Producers \subseteq Atomic, IndInv, RingInv, MayStep(Owner),
         pc[Owner] = "idle", ready
  PROVE  /\ Waits >= 1
         /\ runs + 1 \in 1 .. Len(accepted)
         /\ slots[first] = accepted[runs + 1]
         /\ slots[first] \in QueuedEvents /\ slots[first] # None
  <1>1. \A q \in Producers : pc[q] = "idle"
    BY OwnerAlone DEF IndInv
  <1>2. Written = Waits
    BY <1>1 DEF Written, Writing
  <1>3. Written >= 1
    BY DEF RingInv, ReadyMeansWritten
  <1>4. /\ Len(accepted) \in Nat /\ runs \in Nat /\ first \in Indices
        /\ Capacity \in Nat \ {0} /\ Waits \in Nat
    BY RingNumbers DEF IndInv
  <1>5. Base = first /\ After(first, 1 - 1) = first
    BY <1>4 DEF Base, After, Indices
  <1>6. 1 \in 1 .. Written /\ runs + 1 \in 1 .. Len(accepted)
    BY <1>2, <1>3, <1>4 DEF Waits
  <1>7. slots[first] = accepted[runs + 1]
    BY <1>5, <1>6 DEF RingInv, WindowIsExact
  <1>8. accepted[runs + 1] \in QueuedEvents
    BY <1>6 DEF RingInv, AcceptedAreCalls, IndInv, TypeOK
  <1>9. QED
    BY <1>2, <1>3, <1>6, <1>7, <1>8, NoneAssumption DEF Events

LEMMA BeginRunRing ==
  ASSUME Producers \subseteq Atomic, IndInv, RingInv, BeginRun
  PROVE  RingInv'
  <1> USE DEF IndInv
  <1>1. /\ pc[Owner] = "idle" /\ pc' = [pc EXCEPT ![Owner] = "callback"]
        /\ MayStep(Owner) /\ ready /\ runs' = runs + 1
        /\ UNCHANGED <<slots, first, last, claimed, ready, more, accepted, adds>>
    BY DEF BeginRun, Goto, queueVars
  <1>2. /\ pc'[Owner] = "callback" /\ Written = Waits /\ Written' = Waits'
        /\ claimed = Waits + 0
        /\ \A q \in Producers : pc[q] = "idle" /\ pc'[q] = "idle"
        /\ OneProducerSteps' /\ WriterHasItsSlot' /\ AcceptedAreCalls'
    BY <1>1, OwnerSees DEF Labels
  <1>3. Waits >= 1 /\ runs + 1 \in 1 .. Len(accepted)
    BY <1>1, OwnerFindsOldest
  <1>4. /\ Len(accepted) \in Nat /\ runs \in Nat /\ Capacity \in Nat \ {0}
        /\ Waits \in 0 .. Capacity /\ first \in Indices /\ Base = first
    BY <1>1, RingNumbers DEF Base
  <1>5. Waits' = Waits - 1
    BY <1>1, <1>4 DEF Waits
  <1>6. Base' = After(first, 1)
    BY <1>1, <1>2 DEF Base, After
  <1>7. \A n \in 0 .. Waits - 1 : After(Base', n) = After(Base, n + 1)
    <2>1. SUFFICES ASSUME NEW n \in 0 .. Waits - 1
                   PROVE  After(After(first, 1), n) = After(first, n + 1)
      BY <1>4, <1>6
    <2>2. n \in 0 .. Capacity /\ 1 \in 0 .. Capacity /\ 1 + n <= Capacity /\ 1 + n = n + 1
      BY <1>4
    <2>3. QED
      BY <1>4, <2>2, AfterAfter
  <1>8. ClaimsAddUp'
    <2>1. ~(\E q \in Producers : pc'[q] \in {"reserve", "claim"})
      BY <1>2
    <2>2. claimed' = Waits' + 1 /\ claimed' <= Capacity
      BY <1>1, <1>2, <1>4, <1>5
    <2>3. QED
      BY <1>2, <1>4, <1>5, <2>1, <2>2 DEF ClaimsAddUp
  <1>9. WindowIsExact'
    <2>1. runs' <= Len(accepted')
      BY <1>1, <1>3, <1>4
    <2>2. last' = After(Base', Waits')
      <3>1. last = After(Base, Waits)
        BY DEF RingInv, WindowIsExact
      <3>2. Waits - 1 \in 0 .. Waits - 1 /\ Waits - 1 + 1 = Waits
        BY <1>3, <1>4
      <3>3. QED
        BY <1>1, <1>5, <1>7, <3>1, <3>2
    <2>3. ASSUME NEW k \in 1 .. Written'
          PROVE  slots'[After(Base', k - 1)] = accepted'[runs' + k]
      <3>1. k - 1 \in 0 .. Waits - 1 /\ k + 1 \in 1 .. Written
            /\ k - 1 + 1 = (k + 1) - 1 /\ runs' + k = runs + (k + 1)
        BY <1>1, <1>2, <1>4, <1>5
      <3>2. After(Base', k - 1) = After(Base, (k + 1) - 1)
        BY <1>7, <3>1
      <3>3. slots[After(Base, (k + 1) - 1)] = accepted[runs + (k + 1)]
        BY <3>1 DEF RingInv, WindowIsExact
      <3>4. QED
        BY <1>1, <3>1, <3>2, <3>3
    <2>4. QED
      BY <2>1, <2>2, <2>3 DEF WindowIsExact, After
  <1>10. OthersAreEmpty'
    <2>1. SUFFICES ASSUME NEW i \in Indices, slots[i] # None, i # first
                   PROVE  \E k \in 1 .. Waits - 1 : i = After(Base', k - 1)
      BY <1>1, <1>2, <1>5 DEF OthersAreEmpty, After
    <2>2. PICK k \in 1 .. Waits : i = After(Base, k - 1)
      BY <1>1, <1>2, <2>1 DEF RingInv, OthersAreEmpty
    <2>3. After(Base, 1 - 1) = first
      BY <1>4 DEF After, Indices
    <2>4. k # 1
      BY <2>1, <2>2, <2>3
    <2>5. k - 1 \in 1 .. Waits - 1 /\ k - 1 - 1 \in 0 .. Waits - 1 /\ k - 1 - 1 + 1 = k - 1
      BY <1>4, <2>4
    <2>6. i = After(Base', k - 1 - 1)
      BY <1>7, <2>2, <2>5
    <2>7. QED
      BY <2>5, <2>6
  <1>11. ReadyMeansWritten'
    BY <1>2 DEF ReadyMeansWritten
  <1>12. QED
    BY <1>2, <1>8, <1>9, <1>10, <1>11 DEF RingInv

LEMMA EndRunRing ==
  ASSUME Producers \subseteq Atomic, IndInv, RingInv, EndRun
  PROVE  RingInv'
  <1> USE DEF IndInv
  <1>1. /\ pc[Owner] = "callback" /\ pc' = [pc EXCEPT ![Owner] = "release"]
        /\ MayStep(Owner) /\ slots' = [slots EXCEPT ![first] = None]
        /\ UNCHANGED <<first, last, claimed, ready, more, accepted, runs, adds>>
    BY DEF EndRun, Goto, history
  <1>2. /\ pc'[Owner] = "release" /\ Written = Waits /\ Written' = Waits'
        /\ claimed = Waits + 1
        /\ \A q \in Producers : pc[q] = "idle" /\ pc'[q] = "idle"
        /\ OneProducerSteps' /\ WriterHasItsSlot' /\ AcceptedAreCalls'
    BY <1>1, OwnerSees DEF Labels
  <1>3. /\ Capacity \in Nat \ {0} /\ Waits \in Nat /\ first \in Indices /\ Base \in Indices
        /\ Base = After(first, 1)
    BY <1>1, RingNumbers DEF Base
  <1>4. Waits' = Waits /\ Base' = Base
    BY <1>1, <1>2 DEF Waits, Base, After
  <1>5. Waits + 1 <= Capacity
    BY <1>2 DEF RingInv, ClaimsAddUp
  <1>6. \A n \in 0 .. Waits - 1 : After(Base, n) # first /\ After(Base, n) \in Indices
    <2>1. SUFFICES ASSUME NEW n \in 0 .. Waits - 1
                   PROVE  After(After(first, 1), n) # first /\ After(Base, n) \in Indices
      BY <1>3
    <2>2. n \in 0 .. Capacity /\ 1 \in 0 .. Capacity /\ 1 + n <= Capacity
          /\ 1 + n \in 0 .. Capacity - 1 /\ 1 + n # 0 /\ 0 \in 0 .. Capacity - 1
      BY <1>3, <1>5
    <2>3. After(first, 0) = first
      BY <1>3 DEF After, Indices
    <2>4. After(After(first, 1), n) = After(first, 1 + n)
      BY <1>3, <2>2, AfterAfter
    <2>5. After(first, 1 + n) # After(first, 0)
      BY <1>3, <2>2, AfterDiffers
    <2>6. QED
      BY <1>3, <2>2, <2>3, <2>4, <2>5, AfterInRange
  <1>7. slots'[first] = None /\ \A i \in Indices \ {first} : slots'[i] = slots[i]
    BY <1>1, <1>3 DEF TypeOK
  <1>8. ClaimsAddUp'
    BY <1>1, <1>2, <1>4 DEF RingInv, ClaimsAddUp
  <1>9. WindowIsExact'
    <2>1. ASSUME NEW k \in 1 .. Waits
          PROVE  slots'[After(Base, k - 1)] = accepted[runs + k]
      <3>1. k - 1 \in 0 .. Waits - 1
        BY <1>3
      <3>2. slots[After(Base, k - 1)] = accepted[runs + k]
        BY <1>2 DEF RingInv, WindowIsExact
      <3>3. QED
        BY <1>6, <1>7, <3>1, <3>2
    <2>2. QED
      BY <1>1, <1>2, <1>4, <2>1 DEF RingInv, WindowIsExact, After
  <1>10. OthersAreEmpty'
    <2>1. SUFFICES ASSUME NEW i \in Indices, slots'[i] # None
                   PROVE  \E k \in 1 .. Waits : i = After(Base, k - 1)
      BY <1>2, <1>4 DEF OthersAreEmpty, After
    <2>2. i # first /\ slots[i] # None
      BY <1>7, <2>1
    <2>3. QED
      BY <1>2, <2>2 DEF RingInv, OthersAreEmpty
  <1>11. ReadyMeansWritten'
    BY <1>2 DEF ReadyMeansWritten
  <1>12. QED
    BY <1>2, <1>8, <1>9, <1>10, <1>11 DEF RingInv

\* The owner's steps after the callback leave the slots alone.
LEMMA OwnerLeavesSlots ==
  ASSUME Producers \subseteq Atomic, IndInv, RingInv, MayStep(Owner),
         NEW to \in Labels, pc' = [pc EXCEPT ![Owner] = to],
         pc[Owner] # "callback", to # "callback",
         Base' = Base, UNCHANGED <<slots, last, accepted, runs, adds>>
  PROVE  WindowIsExact' /\ OthersAreEmpty' /\ Waits' = Waits /\ Written' = Written
  <1>1. pc'[Owner] = to /\ Written = Waits /\ Written' = Waits'
    BY OwnerSees
  <1>2. Waits' = Waits
    BY DEF Waits
  <1>3. WindowIsExact'
    BY <1>1, <1>2 DEF RingInv, WindowIsExact, After
  <1>4. OthersAreEmpty'
    BY <1>1, <1>2 DEF RingInv, OthersAreEmpty, After
  <1>5. QED
    BY <1>1, <1>2, <1>3, <1>4

LEMMA ReleaseRing ==
  ASSUME Producers \subseteq Atomic, IndInv, RingInv, Release
  PROVE  RingInv'
  <1> USE DEF IndInv
  <1>1. /\ pc[Owner] = "release" /\ pc' = [pc EXCEPT ![Owner] = "advance"]
        /\ MayStep(Owner) /\ claimed' = (claimed - 1) % CountRange
        /\ UNCHANGED <<slots, first, last, ready, more, accepted, runs, adds>>
    BY DEF Release, Goto, history
  <1>2. /\ pc'[Owner] = "advance"
        /\ claimed = Waits + 1
        /\ \A q \in Producers : pc[q] = "idle" /\ pc'[q] = "idle"
        /\ OneProducerSteps' /\ WriterHasItsSlot' /\ AcceptedAreCalls'
    BY <1>1, OwnerSees DEF Labels
  <1>3. Base' = Base
    BY <1>1, <1>2 DEF Base, After
  <1>4. WindowIsExact' /\ OthersAreEmpty' /\ Waits' = Waits /\ Written' = Written
    BY <1>1, <1>3, OwnerLeavesSlots DEF Labels
  <1>5. ClaimsAddUp'
    <2>1. /\ Waits \in Nat /\ CountRange \in Nat \ {0} /\ claimed <= Capacity
          /\ claimed - 1 = Waits /\ Waits \in 0 .. CountRange - 1 /\ Waits <= Capacity
          /\ Capacity \in Nat
      BY <1>2, RingNumbers
    <2>2. claimed' = Waits
      BY <1>1, <2>1, SmallRemainder
    <2>3. ~(\E q \in Producers : pc'[q] \in {"reserve", "claim"})
      BY <1>2
    <2>4. QED
      BY <1>2, <1>4, <2>1, <2>2, <2>3 DEF ClaimsAddUp
  <1>6. ReadyMeansWritten'
    BY <1>2 DEF ReadyMeansWritten
  <1>7. QED
    BY <1>2, <1>4, <1>5, <1>6 DEF RingInv

LEMMA AdvanceRing ==
  ASSUME Producers \subseteq Atomic, IndInv, RingInv, Advance
  PROVE  RingInv'
  <1> USE DEF IndInv
  <1>1. /\ pc[Owner] = "advance" /\ pc' = [pc EXCEPT ![Owner] = "store"]
        /\ MayStep(Owner) /\ first' = (first + 1) % Capacity /\ more' = (first' # last)
        /\ UNCHANGED <<slots, claimed, last, ready, accepted, runs, adds>>
    BY DEF Advance, Goto, history
  <1>2. /\ pc'[Owner] = "store" /\ Written = Waits /\ Written' = Waits'
        /\ claimed = Waits + 0
        /\ \A q \in Producers : pc[q] = "idle" /\ pc'[q] = "idle"
        /\ OneProducerSteps' /\ WriterHasItsSlot' /\ AcceptedAreCalls'
    BY <1>1, OwnerSees DEF Labels
  <1>3. /\ first \in Indices /\ Capacity \in Nat \ {0} /\ Waits \in Nat /\ Base \in Indices
        /\ 1 \in 0 .. Capacity
    BY RingNumbers
  <1>4. first' = After(first, 1) /\ Base = After(first, 1) /\ Base' = first'
    <2>1. first' = After(first, 1)
      BY <1>1, <1>3, AfterInRange
    <2>2. QED
      BY <1>1, <1>2, <2>1 DEF Base
  <1>5. WindowIsExact' /\ OthersAreEmpty' /\ Waits' = Waits /\ Written' = Written
    BY <1>1, <1>4, OwnerLeavesSlots DEF Labels
  <1>6. ClaimsAddUp'
    <2>1. ~(\E q \in Producers : pc'[q] \in {"reserve", "claim"})
      BY <1>2
    <2>2. claimed <= Capacity
      BY DEF RingInv, ClaimsAddUp
    <2>3. QED
      BY <1>1, <1>2, <1>3, <1>5, <2>1, <2>2 DEF ClaimsAddUp
  <1>7. ReadyMeansWritten'
    <2>1. ASSUME more' PROVE Written' >= 1
      <3>1. Base # After(Base, Waits)
        BY <1>1, <1>4, <2>1 DEF RingInv, WindowIsExact
      <3>2. After(Base, 0) = Base
        BY <1>3 DEF After, Indices
      <3>3. QED
        BY <1>2, <1>3, <1>5, <3>1, <3>2
    <2>2. QED
      BY <1>2, <2>1 DEF ReadyMeansWritten
  <1>8. QED
    BY <1>2, <1>5, <1>6, <1>7 DEF RingInv

LEMMA StoreReadyRing ==
  ASSUME Producers \subseteq Atomic, IndInv, RingInv, StoreReady
  PROVE  RingInv'
  <1> USE DEF IndInv
  <1>1. /\ pc[Owner] = "store" /\ pc' = [pc EXCEPT ![Owner] = "idle"]
        /\ MayStep(Owner) /\ ready' = more /\ more' = FALSE
        /\ UNCHANGED <<slots, first, last, claimed, accepted, runs, adds>>
    BY DEF StoreReady, Goto, history
  <1>2. /\ pc'[Owner] = "idle"
        /\ \A q \in Producers : pc[q] = "idle" /\ pc'[q] = "idle"
        /\ OneProducerSteps' /\ WriterHasItsSlot' /\ AcceptedAreCalls'
    BY <1>1, OwnerSees DEF Labels
  <1>3. Base' = Base
    BY <1>1, <1>2 DEF Base, After
  <1>4. WindowIsExact' /\ OthersAreEmpty' /\ Waits' = Waits /\ Written' = Written
    BY <1>1, <1>3, OwnerLeavesSlots DEF Labels
  <1>5. ClaimsAddUp'
    BY <1>1, <1>2, <1>4 DEF RingInv, ClaimsAddUp
  <1>6. ReadyMeansWritten'
    BY <1>1, <1>2, <1>4 DEF RingInv, ReadyMeansWritten
  <1>7. QED
    BY <1>2, <1>4, <1>5, <1>6 DEF RingInv

LEMMA InitRing == Init => RingInv
  <1> SUFFICES ASSUME Init PROVE RingInv
    OBVIOUS
  <1> USE QueueAssumption DEF Init
  <1>1. /\ \A t \in Threads : pc[t] = "idle"
        /\ Producers \subseteq Threads /\ Owner \in Threads
    BY DEF Threads
  <1>2. Len(accepted) = 0 /\ DOMAIN accepted = {}
    OBVIOUS
  <1>3. Waits = 0 /\ Written = 0 /\ Base = 0 /\ ~Writing
    BY <1>1, <1>2 DEF Waits, Written, Writing, Base
  <1>4. ClaimsAddUp
    BY <1>1, <1>3 DEF ClaimsAddUp
  <1>5. WindowIsExact /\ OthersAreEmpty
    BY <1>2, <1>3 DEF WindowIsExact, OthersAreEmpty, After
  <1>6. OneProducerSteps /\ WriterHasItsSlot /\ ReadyMeansWritten /\ AcceptedAreCalls
    BY <1>1, <1>2 DEF OneProducerSteps, WriterHasItsSlot, ReadyMeansWritten, AcceptedAreCalls
  <1>7. QED
    BY <1>4, <1>5, <1>6 DEF RingInv

LEMMA NextRing ==
  ASSUME Producers \subseteq Atomic, IndInv, RingInv, [Next]_vars
  PROVE  RingInv'
  <1>1. pc \in [Threads -> Labels] /\ Producers \subseteq Threads /\ Owner \in Threads
        /\ adds \in [Threads -> Nat] /\ Owner \notin Producers
    BY QueueAssumption DEF IndInv, TypeOK, Threads
  <1>2. ASSUME NEW p \in Producers, AddEvent(p)
        PROVE  RingInv'
    <2>1. CASE PassGuard(p) \/ Refuse(p)
      BY <2>1, CallBeginsRing
    <2>2. CASE Claim(p)
      BY <2>2, ClaimRing
    <2>3. CASE Reserve(p)
      BY <2>3, ReserveRing
    <2>4. CASE Write(p)
      BY <2>4, WriteRing
    <2>5. CASE Publish(p)
      BY <2>5, PublishRing DEF Publish, Goto, history
    <2>6. CASE ScanNobody(p) \/ ScanOwner(p)
      BY <2>6, PublishRing DEF ScanNobody, ScanOwner, Goto, queueVars, history
    <2>7. CASE UnblockOwner(p) \/ UnblockNobody(p)
      BY <2>7, PublishRing DEF UnblockOwner, UnblockNobody, Goto, queueVars, history
    <2>8. QED
      BY <1>2, <2>1, <2>2, <2>3, <2>4, <2>5, <2>6, <2>7 DEF AddEvent
  <1>3. ASSUME NEW s \in Strangers, BeginDirect(s) \/ EndDirect(s)
        PROVE  RingInv'
    <2>1. s \in Threads /\ s \notin Producers /\ s # Owner
      BY QueueAssumption DEF Threads
    <2>2. \A q \in Producers : pc'[q] = pc[q] /\ adds'[q] = adds[q]
      BY <1>1, <1>3, <2>1 DEF BeginDirect, EndDirect, Goto, NewEvent, history
    <2>3. pc'[Owner] = pc[Owner]
      BY <1>1, <1>3, <2>1 DEF BeginDirect, EndDirect, Goto
    <2>4. UNCHANGED <<slots, first, last, claimed, ready, index, more, accepted, runs>>
      BY <1>3 DEF BeginDirect, EndDirect, queueVars, history
    <2>5. QED
      BY <2>2, <2>3, <2>4, OthersLeaveRing
  <1>4. CASE AddFromOwner
    <2>1. \A q \in Producers : adds'[q] = adds[q]
      BY <1>1, <1>4 DEF AddFromOwner, NewEvent
    <2>2. QED
      BY <1>4, <2>1, OthersLeaveRing DEF AddFromOwner, queueVars
  <1>5. CASE RunNextEvent
    <2>1. CASE BeginRun
      BY <2>1, BeginRunRing
    <2>2. CASE RunEmpty
      BY <2>2, OwnerFindsOldest DEF RunEmpty, Goto
    <2>3. CASE EndRun
      BY <2>3, EndRunRing
    <2>4. CASE Release
      BY <2>4, ReleaseRing
    <2>5. CASE Advance
      BY <2>5, AdvanceRing
    <2>6. CASE StoreReady
      BY <2>6, StoreReadyRing
    <2>7. CASE PollNothing
      BY <2>7, OthersLeaveRing DEF PollNothing, vars, queueVars, history
    <2>8. CASE SeeNothing \/ Register \/ Deregister
      <3>1. \A q \in Producers : pc'[q] = pc[q]
        BY <1>1, <2>8 DEF SeeNothing, Register, Deregister, Goto
      <3>2. {pc[Owner], pc'[Owner]} \cap {"callback", "release", "advance", "store"} = {}
        BY <1>1, <2>8 DEF SeeNothing, Register, Deregister, Goto
      <3>3. QED
        BY <2>8, <3>1, <3>2, OthersLeaveRing
        DEF SeeNothing, Register, Deregister, queueVars, history
    <2>9. CASE Sleep \/ DoNotSleep \/ WakeUp
      <3>1. \A q \in Producers : pc'[q] = pc[q]
        BY <1>1, <2>9 DEF Sleep, DoNotSleep, WakeUp, Goto
      <3>2. {pc[Owner], pc'[Owner]} \cap {"callback", "release", "advance", "store"} = {}
        BY <1>1, <2>9 DEF Sleep, DoNotSleep, WakeUp, Goto
      <3>3. QED
        BY <2>9, <3>1, <3>2, OthersLeaveRing
        DEF Sleep, DoNotSleep, WakeUp, queueVars, history
    <2>10. QED
      BY <1>5, <2>1, <2>2, <2>3, <2>4, <2>5, <2>6, <2>7, <2>8, <2>9 DEF RunNextEvent
  <1>6. CASE UNCHANGED vars
    BY <1>6, OthersLeaveRing DEF vars, queueVars, history
  <1>7. QED
    BY <1>2, <1>3, <1>4, <1>5, <1>6 DEF Next

LEMMA RingInductive ==
  ASSUME Producers \subseteq Atomic
  PROVE  Spec => [](IndInv /\ RingInv)
  <1>1. IndInv /\ RingInv /\ [Next]_vars => RingInv'
    BY NextRing
  <1>2. QED
    BY Inductive, InitRing, <1>1, PTL DEF Spec

\* The outstanding events, one by one.
LEMMA LeftOf ==
  ASSUME NEW s \in Seq(Events), NEW n \in Nat, n <= Len(s)
  PROVE  /\ SubSeq(s, n + 1, Len(s)) \in Seq(Events)
         /\ Len(SubSeq(s, n + 1, Len(s))) = Len(s) - n
         /\ \A k \in 1 .. Len(s) - n : SubSeq(s, n + 1, Len(s))[k] = s[n + k]
  <1>1. Len(s) \in Nat /\ \A i \in n + 1 .. Len(s) : s[i] \in Events
    OBVIOUS
  <1>2. /\ SubSeq(s, n + 1, Len(s)) \in Seq(Events)
        /\ Len(SubSeq(s, n + 1, Len(s))) =
             IF n + 1 <= Len(s) THEN Len(s) - (n + 1) + 1 ELSE 0
        /\ \A i \in 1 .. Len(s) - (n + 1) + 1 :
             SubSeq(s, n + 1, Len(s))[i] = s[n + 1 + i - 1]
    BY <1>1, SubSeqProperties
  <1>3. ASSUME NEW k \in 1 .. Len(s) - n
        PROVE  SubSeq(s, n + 1, Len(s))[k] = s[n + k]
    <2>1. k \in 1 .. Len(s) - (n + 1) + 1 /\ n + 1 + k - 1 = n + k
      BY <1>1
    <2>2. QED
      BY <1>2, <2>1
  <1>4. QED
    BY <1>1, <1>2, <1>3

LEMMA OutstandingIs ==
  ASSUME TypeOK, RingInv
  PROVE  /\ Outstanding \in Seq(Events)
         /\ Len(Outstanding) = Waits
         /\ \A k \in 1 .. Waits : Outstanding[k] = accepted[runs + k]
  <1>1. runs \in Nat /\ runs <= Len(accepted) /\ accepted \in Seq(Events)
    BY RingNumbers DEF TypeOK
  <1>2. QED
    BY <1>1, LeftOf DEF Outstanding, Waits

LEMMA RingInvIsExact ==
  ASSUME Producers \subseteq Atomic, IndInv, RingInv
  PROVE  RingIsExact
  <1> USE DEF IndInv
  <1>1. /\ Len(Outstanding) = Waits
        /\ \A k \in 1 .. Waits : Outstanding[k] = accepted[runs + k]
    BY OutstandingIs
  <1>2. /\ Capacity \in Nat \ {0} /\ Waits \in 0 .. Capacity /\ first \in Indices
        /\ Base \in Indices /\ Waits \in Nat
    BY RingNumbers
  <1>3. ClaimsAreExact
    <2>1. Cardinality({p \in Producers : pc[p] = "reserve"}) =
             IF \E p \in Producers : pc[p] = "reserve" THEN 1 ELSE 0
      <3>1. CASE \E p \in Producers : pc[p] = "reserve"
        <4>1. PICK p \in Producers : pc[p] = "reserve"
          BY <3>1
        <4>2. {q \in Producers : pc[q] = "reserve"} = {p}
          BY <4>1 DEF RingInv, OneProducerSteps
        <4>3. QED
          BY <3>1, <4>2, FS_Singleton
      <3>2. CASE ~ \E p \in Producers : pc[p] = "reserve"
        <4>1. {q \in Producers : pc[q] = "reserve"} = {}
          BY <3>2
        <4>2. QED
          BY <3>2, <4>1, FS_EmptySet
      <3>3. QED
        BY <3>1, <3>2
    <2>2. QED
      BY <1>1, <2>1 DEF RingInv, ClaimsAddUp, ClaimsAreExact
  <1>4. RingHoldsOutstanding
    <2>1. SUFFICES ASSUME \A p \in Producers : pc[p] = "idle",
                          NEW skip \in {0, 1},
                          skip = IF pc[Owner] \in {"callback", "release", "advance"}
                                 THEN 1 ELSE 0,
                          NEW k \in 1 .. Waits
                   PROVE  slots[(first + skip + k - 1) % Capacity] = Outstanding[k]
      BY <1>1 DEF RingHoldsOutstanding
    <2>2. k \in 1 .. Written
      BY <2>1 DEF Written, Writing
    <2>3. slots[After(Base, k - 1)] = accepted[runs + k]
      BY <2>2 DEF RingInv, WindowIsExact
    <2>4. k - 1 \in 0 .. Capacity /\ skip \in 0 .. Capacity /\ skip + (k - 1) \in 0 .. Capacity
          /\ first + (skip + (k - 1)) = first + skip + k - 1 /\ skip + (k - 1) <= Capacity
      BY <1>2 DEF Indices
    <2>5. Base = After(first, skip)
      BY <1>2, <2>1 DEF Base, After, Indices
    <2>6. After(Base, k - 1) = After(first, skip + (k - 1))
      BY <1>2, <2>4, <2>5, AfterAfter
    <2>7. (first + (skip + (k - 1))) % Capacity = After(first, skip + (k - 1))
      BY <1>2, <2>4, AfterInRange
    <2>8. QED
      BY <1>1, <2>3, <2>4, <2>6, <2>7
  <1>5. NoOverwrite
    <2>1. SUFFICES ASSUME NEW p \in Producers, pc[p] = "write", slots[index[p]] # None
                   PROVE  FALSE
      BY DEF NoOverwrite
    <2>2. Written = Waits - 1 /\ Waits >= 1 /\ index[p] = After(Base, Waits - 1)
      BY <2>1 DEF RingInv, WriterHasItsSlot, Written, Writing
    <2>3. Waits - 1 \in 0 .. Capacity - 1 /\ Waits - 1 \in 0 .. Capacity
      BY <1>2, <2>2
    <2>4. index[p] \in Indices
      BY <1>2, <2>2, <2>3, AfterInRange
    <2>5. CASE \E k \in 1 .. Waits - 1 : index[p] = After(Base, k - 1)
      <3>1. PICK k \in 1 .. Waits - 1 : After(Base, Waits - 1) = After(Base, k - 1)
        BY <2>2, <2>5
      <3>2. k - 1 \in 0 .. Capacity - 1
        BY <1>2
      <3>3. Waits - 1 = k - 1
        BY <1>2, <2>3, <3>1, <3>2, AfterDiffers
      <3>4. QED
        BY <1>2, <3>3
    <2>6. CASE pc[Owner] = "callback" /\ index[p] = first
      <3>1. Waits + 1 <= Capacity
        <4>1. \E a \in {0, 1} : claimed = Waits + a + 1
          BY <2>6 DEF RingInv, ClaimsAddUp
        <4>2. QED
          BY <1>2, <4>1 DEF RingInv, ClaimsAddUp
      <3>2. Base = After(first, 1) /\ 1 \in 0 .. Capacity /\ 1 + (Waits - 1) = Waits
            /\ Waits \in 0 .. Capacity - 1 /\ 0 \in 0 .. Capacity - 1
            /\ 1 + (Waits - 1) <= Capacity
        BY <1>2, <2>6, <3>1 DEF Base
      <3>3. After(Base, Waits - 1) = After(first, Waits)
        BY <1>2, <2>3, <3>2, AfterAfter
      <3>4. After(first, 0) = first
        BY <1>2 DEF After, Indices
      <3>5. Waits = 0
        BY <1>2, <2>2, <2>6, <3>2, <3>3, <3>4, AfterDiffers
      <3>6. QED
        BY <2>2, <3>5
    <2>7. QED
      BY <2>1, <2>2, <2>4, <2>5, <2>6 DEF RingInv, OthersAreEmpty
  <1>6. NeverRunsEmpty
    <2>1. SUFFICES ASSUME pc[Owner] = "idle", ready
                   PROVE  slots[first] # None
      BY DEF NeverRunsEmpty
    <2>2. Written >= 1
      BY <2>1 DEF RingInv, ReadyMeansWritten
    <2>3. Base = first /\ After(Base, 1 - 1) = first
      BY <1>2, <2>1 DEF Base, After, Indices
    <2>4. Written \in {Waits, Waits - 1} /\ runs \in Nat /\ runs <= Len(accepted)
      BY RingNumbers
    <2>5. 1 \in 1 .. Written /\ runs + 1 \in DOMAIN accepted
      BY <1>2, <2>2, <2>4 DEF Waits, TypeOK
    <2>6. slots[first] = accepted[runs + 1] /\ accepted[runs + 1] \in Events
      BY <2>3, <2>5 DEF RingInv, WindowIsExact, TypeOK
    <2>7. QED
      BY <2>6, NoneAssumption
  <1>7. QED
    BY <1>3, <1>4, <1>5, <1>6 DEF RingIsExact

\* With producers that the owner cannot preempt the ring never lies: claims, slots
\* and flag agree with what addEvent accepted and runNextEvent did not run yet, for
\* any number of producers, strangers, events and slots.
THEOREM RingStaysExact ==
  ASSUME Producers \subseteq Atomic
  PROVE  Spec => []RingIsExact
  <1>1. IndInv /\ RingInv => RingIsExact
    BY RingInvIsExact
  <1>2. QED
    BY RingInductive, <1>1, PTL

-----------------------------------------------------------------------------
(* The ring implements the bounded FIFO queue of EventFifo.                 *)

LEMMA ReserveAccepts ==
  ASSUME Producers \subseteq Atomic, IndInv, RingInv, IndInv', RingInv',
         NEW p \in Producers, Reserve(p)
  PROVE  Fifo!Accept(EventOf(p)) /\ EventOf(p) \in QueuedEvents
  <1> USE DEF IndInv
  <1>1. /\ pc[p] = "reserve" /\ accepted' = Append(accepted, EventOf(p))
        /\ UNCHANGED <<runs, ran>>
    BY DEF Reserve, Goto
  <1>2. /\ p \in Threads /\ adds[p] >= 1 /\ adds \in [Threads -> Nat]
        /\ accepted \in Seq(Events) /\ ran \in Seq(Events)
    BY <1>1 DEF Threads, CallHasBegun, Unwritten, TypeOK
  <1>3. EventOf(p) \in QueuedEvents /\ EventOf(p) \in Events
    BY <1>2, EventOfCall
  <1>4. /\ Len(accepted') = Len(accepted) + 1
        /\ \A k \in 1 .. Len(accepted) : accepted'[k] = accepted[k]
        /\ accepted'[Len(accepted) + 1] = EventOf(p)
    BY <1>1, <1>2, <1>3
  <1>5. /\ Len(accepted) \in Nat /\ runs \in Nat /\ runs <= Len(accepted)
        /\ Waits \in Nat /\ Waits = Len(accepted) - runs
        /\ Capacity \in Nat
    BY RingNumbers DEF Waits
  <1>6. /\ Outstanding \in Seq(Events) /\ Len(Outstanding) = Waits
        /\ \A k \in 1 .. Waits : Outstanding[k] = accepted[runs + k]
    BY OutstandingIs
  <1>7. Waits' = Waits + 1
    BY <1>1, <1>4, <1>5 DEF Waits
  <1>8. /\ Outstanding' \in Seq(Events) /\ Len(Outstanding') = Waits + 1
        /\ \A k \in 1 .. Waits + 1 : Outstanding'[k] = accepted'[runs + k]
    <2>1. accepted' \in Seq(Events) /\ runs \in Nat /\ runs <= Len(accepted')
          /\ Len(accepted') - runs = Waits + 1
      BY <1>4, <1>5 DEF TypeOK
    <2>2. Outstanding' = SubSeq(accepted', runs + 1, Len(accepted'))
      BY <1>1 DEF Outstanding
    <2>3. /\ SubSeq(accepted', runs + 1, Len(accepted')) \in Seq(Events)
          /\ Len(SubSeq(accepted', runs + 1, Len(accepted'))) = Len(accepted') - runs
          /\ \A k \in 1 .. Len(accepted') - runs :
               SubSeq(accepted', runs + 1, Len(accepted'))[k] = accepted'[runs + k]
      BY <2>1, LeftOf
    <2>4. QED
      BY <2>1, <2>2, <2>3
  <1>9. Outstanding' = Append(Outstanding, EventOf(p))
    <2>1. /\ Append(Outstanding, EventOf(p)) \in Seq(Events)
          /\ Len(Append(Outstanding, EventOf(p))) = Waits + 1
          /\ \A k \in 1 .. Waits : Append(Outstanding, EventOf(p))[k] = Outstanding[k]
          /\ Append(Outstanding, EventOf(p))[Waits + 1] = EventOf(p)
      BY <1>3, <1>6, AppendProperties
    <2>2. \A k \in 1 .. Waits + 1 : Outstanding'[k] = Append(Outstanding, EventOf(p))[k]
      <3>1. ASSUME NEW k \in 1 .. Waits
            PROVE  Outstanding'[k] = Append(Outstanding, EventOf(p))[k]
        <4>1. runs + k \in 1 .. Len(accepted) /\ k \in 1 .. Waits + 1
          BY <1>5
        <4>2. QED
          BY <1>4, <1>6, <1>8, <2>1, <4>1
      <3>2. Outstanding'[Waits + 1] = Append(Outstanding, EventOf(p))[Waits + 1]
        <4>1. runs + (Waits + 1) = Len(accepted) + 1 /\ Waits + 1 \in 1 .. Waits + 1
          BY <1>5
        <4>2. QED
          BY <1>4, <1>8, <2>1, <4>1
      <3>3. \A k \in 1 .. Waits + 1 : k \in 1 .. Waits \/ k = Waits + 1
        BY <1>5
      <3>4. QED
        BY <3>1, <3>2, <3>3
    <2>3. QED
      BY <1>8, <2>1, <2>2, SeqEqual
  <1>10. Len(Outstanding) < Capacity
    <2>1. \E a \in {0, 1} : claimed = Waits + 1 + a
      BY <1>1, <1>5 DEF RingInv, ClaimsAddUp
    <2>2. claimed <= Capacity
      BY DEF RingInv, ClaimsAddUp
    <2>3. QED
      BY <1>5, <1>6, <2>1, <2>2
  <1>11. EventOf(p) \notin Fifo!Seen
    <2>1. EventOf(p)[1] = p /\ EventOf(p)[2] = adds[p]
      BY DEF EventOf
    <2>2. \A k \in DOMAIN accepted : accepted[k] # EventOf(p)
      BY <1>1, <1>2, <2>1 DEF RingInv, AcceptedAreCalls
    <2>3. \A k \in DOMAIN ran : ran[k] # EventOf(p)
      BY <1>1, <1>2, <2>1 DEF RunsAreHanded, Handed, Unwritten
    <2>4. \A k \in DOMAIN Outstanding : Outstanding[k] # EventOf(p)
      <3>1. SUFFICES ASSUME NEW k \in 1 .. Waits PROVE Outstanding[k] # EventOf(p)
        BY <1>6
      <3>2. runs + k \in DOMAIN accepted
        BY <1>2, <1>5
      <3>3. QED
        BY <1>6, <2>2, <3>2
    <2>5. QED
      BY <2>3, <2>4 DEF Fifo!Seen
  <1>12. QED
    BY <1>1, <1>3, <1>9, <1>10, <1>11 DEF Fifo!Accept

LEMMA BeginRunRunsHead ==
  ASSUME Producers \subseteq Atomic, IndInv, RingInv, IndInv', RingInv', BeginRun
  PROVE  Fifo!RunHead
  <1> USE DEF IndInv
  <1>1. /\ pc[Owner] = "idle" /\ ready /\ MayStep(Owner) /\ runs' = runs + 1
        /\ ran' = Append(ran, slots[first]) /\ UNCHANGED accepted
    BY DEF BeginRun, Goto
  <1>2. /\ Waits >= 1 /\ slots[first] = accepted[runs + 1]
    BY <1>1, OwnerFindsOldest
  <1>3. Len(accepted) \in Nat /\ runs \in Nat /\ Waits \in Nat
    BY RingNumbers
  <1>4. /\ Outstanding \in Seq(Events) /\ Len(Outstanding) = Waits
        /\ \A k \in 1 .. Waits : Outstanding[k] = accepted[runs + k]
    BY OutstandingIs
  <1>5. Waits' = Waits - 1
    BY <1>1, <1>3 DEF Waits
  <1>6. /\ Outstanding' \in Seq(Events) /\ Len(Outstanding') = Waits - 1
        /\ \A k \in 1 .. Waits - 1 : Outstanding'[k] = accepted[runs + 1 + k]
    <2>1. accepted \in Seq(Events) /\ runs + 1 \in Nat /\ runs + 1 <= Len(accepted)
          /\ Len(accepted) - (runs + 1) = Waits - 1
      BY <1>2, <1>3 DEF TypeOK, Waits
    <2>2. QED
      BY <1>1, <2>1, LeftOf DEF Outstanding
  <1>7. Outstanding # <<>>
    BY <1>2, <1>3, <1>4
  <1>8. Head(Outstanding) = slots[first]
    BY <1>2, <1>3, <1>4
  <1>9. Outstanding' = Tail(Outstanding)
    <2>1. /\ Tail(Outstanding) \in Seq(Events) /\ Len(Tail(Outstanding)) = Waits - 1
          /\ \A k \in 1 .. Waits - 1 : Tail(Outstanding)[k] = Outstanding[k + 1]
      BY <1>4, <1>7, HeadTailProperties
    <2>2. \A k \in 1 .. Waits - 1 : Outstanding'[k] = Tail(Outstanding)[k]
      <3>1. SUFFICES ASSUME NEW k \in 1 .. Waits - 1
                     PROVE  accepted[runs + 1 + k] = Outstanding[k + 1]
        BY <1>6, <2>1
      <3>2. k + 1 \in 1 .. Waits /\ runs + (k + 1) = runs + 1 + k
        BY <1>3
      <3>3. QED
        BY <1>4, <3>2
    <2>3. QED
      BY <1>6, <2>1, <2>2, SeqEqual
  <1>10. QED
    BY <1>1, <1>7, <1>8, <1>9 DEF Fifo!RunHead

LEMMA DirectRunsDirectly ==
  ASSUME IndInv, RingInv, NEW t \in Strangers \cup {Owner}, NewEvent(t),
         ran' = Append(ran, EventOf(t)'), UNCHANGED <<accepted, runs>>
  PROVE  Fifo!RunDirectly(EventOf(t)') /\ EventOf(t)' \in DirectEvents
  <1> USE DEF IndInv
  <1>1. t \in Threads /\ t \notin Producers
    BY QueueAssumption DEF Threads
  <1>2. adds'[t] = adds[t] + 1 /\ adds[t] \in Nat /\ adds'[t] <= MaxDirect
    <2>1. adds'[t] <= IF t \in Producers THEN MaxAdds ELSE MaxDirect
      BY <1>1, NewEventTypes
    <2>2. QED
      BY <1>1, <2>1, NewEventTypes DEF TypeOK
  <1>3. EventOf(t)' = <<t, adds[t] + 1>>
    BY <1>2 DEF EventOf
  <1>4. EventOf(t)' \in DirectEvents
    BY <1>1, <1>2, <1>3, QueueAssumption DEF DirectEvents
  <1>5. \A k \in DOMAIN ran : ran[k] # EventOf(t)'
    <2>1. SUFFICES ASSUME NEW k \in DOMAIN ran, ran[k] = EventOf(t)' PROVE FALSE
      OBVIOUS
    <2>2. ran[k][1] = t /\ ran[k][2] = adds[t] + 1
      BY <1>3, <2>1
    <2>3. QED
      BY <1>2, <2>2 DEF RunsAreHanded, Handed
  <1>6. \A k \in DOMAIN Outstanding : Outstanding[k] # EventOf(t)'
    <2>1. SUFFICES ASSUME NEW k \in 1 .. Waits PROVE accepted[runs + k] # EventOf(t)'
      BY OutstandingIs, RingNumbers
    <2>2. runs + k \in DOMAIN accepted
      BY RingNumbers DEF Waits, TypeOK
    <2>3. accepted[runs + k][1] \in Producers
      BY <2>2 DEF RingInv, AcceptedAreCalls, QueuedEvents
    <2>4. QED
      BY <1>1, <1>3, <2>3
  <1>7. Outstanding' = Outstanding
    BY DEF Outstanding
  <1>8. QED
    BY <1>4, <1>5, <1>6, <1>7 DEF Fifo!RunDirectly, Fifo!Seen

LEMMA NextIsFifo ==
  ASSUME Producers \subseteq Atomic, IndInv, RingInv, IndInv', RingInv', [Next]_vars
  PROVE  [Fifo!Next]_(Fifo!vars)
  <1>1. UNCHANGED <<accepted, runs, ran>> => UNCHANGED Fifo!vars
    BY DEF Fifo!vars, Outstanding
  <1>2. ASSUME NEW p \in Producers, AddEvent(p)
        PROVE  [Fifo!Next]_(Fifo!vars)
    <2>1. CASE Reserve(p)
      BY <2>1, ReserveAccepts DEF Fifo!Next
    <2>2. CASE ~Reserve(p)
      BY <1>1, <1>2, <2>2
      DEF AddEvent, PassGuard, Refuse, Claim, Write, Publish, ScanNobody, ScanOwner,
          UnblockOwner, UnblockNobody, history
    <2>3. QED
      BY <2>1, <2>2
  <1>3. ASSUME NEW s \in Strangers, BeginDirect(s)
        PROVE  [Fifo!Next]_(Fifo!vars)
    BY <1>3, DirectRunsDirectly DEF BeginDirect, Fifo!Next
  <1>4. ASSUME NEW s \in Strangers, EndDirect(s)
        PROVE  [Fifo!Next]_(Fifo!vars)
    BY <1>1, <1>4 DEF EndDirect, history
  <1>5. CASE AddFromOwner
    BY <1>5, DirectRunsDirectly DEF AddFromOwner, Fifo!Next
  <1>6. CASE RunNextEvent
    <2>1. CASE BeginRun
      BY <2>1, BeginRunRunsHead DEF Fifo!Next
    <2>2. CASE ~BeginRun
      BY <1>1, <1>6, <2>2
      DEF RunNextEvent, RunEmpty, EndRun, Release, Advance, StoreReady, PollNothing,
          SeeNothing, Register, Sleep, DoNotSleep, WakeUp, Deregister, history, vars
    <2>3. QED
      BY <2>1, <2>2
  <1>7. CASE UNCHANGED vars
    BY <1>1, <1>7 DEF vars, history
  <1>8. QED
    BY <1>2, <1>3, <1>4, <1>5, <1>6, <1>7 DEF Next

\* With producers that the owner cannot preempt, addEvent and runNextEvent implement
\* a bounded FIFO queue: what is run from the ring is always the oldest accepted event,
\* none is lost, doubled or overtaken.
THEOREM QueueIsFifo ==
  ASSUME Producers \subseteq Atomic
  PROVE  Spec => ImplementsFifo
  <1>1. Init => Fifo!Init
    <2>1. SUFFICES ASSUME Init PROVE Outstanding = <<>> /\ ran = <<>>
      BY DEF Fifo!Init
    <2>2. QED
      BY <2>1, SubSeqEmpty DEF Init, Outstanding
  <1>2. /\ IndInv /\ RingInv /\ IndInv' /\ RingInv' /\ [Next]_vars
        => [Fifo!Next]_(Fifo!vars)
    BY NextIsFifo
  <1>3. QED
    BY RingInductive, <1>1, <1>2, PTL DEF Spec, ImplementsFifo, Fifo!Spec
=============================================================================
