------------------------- MODULE CommandQueueProofs -------------------------
(***************************************************************************)
(* Proofs about the queue of commands, for every number of producers,      *)
(* commands and slots: its types for any number of consumers and any       *)
(* schedule; and, for one consumer and producers that it cannot preempt,   *)
(* that claims and removals add up at every step, and that the ring        *)
(* implements the FIFO queue of EventFifo until a command is returned that *)
(* stays in it.                                                            *)
(***************************************************************************)
EXTENDS CommandQueue, FiniteSetTheorems, SequenceTheorems, TLAPS

ProducerLabels == {"idle", "claim", "reserve", "write", "publish", "scan", "unblock"}
Unwritten      == {"claim", "reserve", "write"}

\* A producer is in addToQueue and has begun the call that it is in; a consumer that
\* found a place of the waiting list has one.
CallsAreOwn ==
  /\ \A p \in Producers : /\ pc[p] \in ProducerLabels
                          /\ pc[p] \in Unwritten => adds[p] >= 1
  /\ \A c \in Consumers : pc[c] = "register" => place[c] \in Places

TypeInv == TypeOK /\ CallsAreOwn

-----------------------------------------------------------------------------
(* Types.                                                                  *)

LEMMA RemainderInRange ==
  ASSUME NEW a \in Int, NEW b \in Nat \ {0}
  PROVE  a % b \in 0 .. b - 1
  OBVIOUS

LEMMA QueueArithmetic ==
  ASSUME TypeOK
  PROVE  /\ Capacity \in Nat \ {0} /\ CountRange \in Nat \ {0}
         /\ (claimed + 1) % CountRange \in 0 .. CountRange - 1
         /\ (claimed - 1) % CountRange \in 0 .. CountRange - 1
         /\ \A i \in Indices : (i + 1) % Capacity \in Indices
         /\ 0 \in Indices /\ 1 \in 1 .. Cardinality(Consumers) + 1
         /\ Cardinality(Consumers) \in Nat
  <1>1. CountRange \in Nat \ {0} /\ Capacity \in Nat \ {0}
    BY CommandAssumption
  <1>2. claimed + 1 \in Int /\ claimed - 1 \in Int
    BY <1>1 DEF TypeOK
  <1>3. \A i \in Indices : (i + 1) % Capacity \in Indices
    BY <1>1, RemainderInRange DEF Indices
  <1>4. Cardinality(Consumers) \in Nat
    BY CommandAssumption, FS_CardinalityType
  <1>5. /\ (claimed + 1) % CountRange \in 0 .. CountRange - 1
        /\ (claimed - 1) % CountRange \in 0 .. CountRange - 1
    BY <1>1, <1>2, RemainderInRange
  <1>6. 0 \in Indices /\ 1 \in 1 .. Cardinality(Consumers) + 1
    BY <1>1, <1>4 DEF Indices
  <1>7. QED
    BY <1>1, <1>3, <1>4, <1>5, <1>6

LEMMA InitTypes == Init => TypeInv
  <1> SUFFICES ASSUME Init PROVE TypeInv
    OBVIOUS
  <1>1. Capacity \in Nat \ {0} /\ CountRange \in Nat \ {0} /\ MaxAdds \in Nat
        /\ Cardinality(Consumers) \in Nat
    BY CommandAssumption, FS_CardinalityType
  <1>2. /\ slots \in [Indices -> Commands \cup {None}] /\ index \in [Threads -> Indices]
        /\ first \in Indices /\ last \in Indices /\ claimed \in 0 .. CountRange - 1
    BY <1>1 DEF Init, Indices
  <1>3. /\ ready \in BOOLEAN /\ more \in [Consumers -> BOOLEAN]
    BY DEF Init
  <1>4. /\ waiting \in [Places -> Consumers \cup {None}]
        /\ pc \in [Threads -> Labels]
    BY DEF Init, Labels
  <1>5. /\ place \in [Threads -> 1 .. Cardinality(Consumers) + 1]
        /\ adds \in [Producers -> 0 .. MaxAdds]
    BY <1>1 DEF Init
  <1>6. /\ accepted \in Seq(Commands) /\ removed \in Nat /\ again \in Nat
        /\ got \in Seq(Commands \cup {None})
    BY DEF Init
  <1>7. CallsAreOwn
    BY DEF Init, CallsAreOwn, ProducerLabels, Unwritten, Threads
  <1>8. QED
    BY <1>2, <1>3, <1>4, <1>5, <1>6, <1>7 DEF TypeInv, TypeOK

\* A step of a call: the caller goes to another of its places.
LEMMA GotoTypes ==
  ASSUME TypeOK, NEW t \in Threads, NEW from, NEW to \in Labels, Goto(t, from, to)
  PROVE  /\ pc[t] = from /\ pc'[t] = to /\ pc' \in [Threads -> Labels]
         /\ \A u \in Threads \ {t} : pc'[u] = pc[u]
  BY DEF TypeOK, Goto

LEMMA CommandOfCall ==
  ASSUME TypeInv, NEW p \in Producers, pc[p] \in Unwritten
  PROVE  CommandOf(p) \in Commands
  BY CommandAssumption DEF TypeInv, TypeOK, CallsAreOwn, CommandOf, Commands

LEMMA AddTypes ==
  ASSUME TypeInv, NEW p \in Producers, AddToQueue(p)
  PROVE  TypeInv'
  <1> USE CommandAssumption DEF TypeInv
  <1>1. /\ p \in Threads /\ Producers \subseteq Threads /\ Consumers \subseteq Threads
        /\ p \notin Consumers
    BY DEF Threads
  <1>2. /\ pc \in [Threads -> Labels] /\ adds \in [Producers -> 0 .. MaxAdds]
        /\ index \in [Threads -> Indices]
        /\ place \in [Threads -> 1 .. Cardinality(Consumers) + 1]
    BY DEF TypeOK
  <1>3. CASE PassGuard(p) \/ Refuse(p)
    <2>1. PICK to \in {"claim", "idle"} :
            /\ pc' = [pc EXCEPT ![p] = to]
            /\ adds[p] < MaxAdds /\ adds' = [adds EXCEPT ![p] = @ + 1]
            /\ UNCHANGED <<ringVars, waiting, localVars, accepted, removed, again, got>>
      BY <1>3 DEF PassGuard, Refuse, BeginAdd, Goto
    <2>2. adds' \in [Producers -> 0 .. MaxAdds] /\ adds'[p] >= 1
          /\ \A q \in Producers \ {p} : adds'[q] = adds[q]
      BY <1>2, <2>1
    <2>3. pc' \in [Threads -> Labels]
      BY <1>2, <2>1 DEF Labels
    <2>4. TypeOK'
      BY <2>1, <2>2, <2>3 DEF TypeOK, ringVars, localVars
    <2>5. CallsAreOwn'
      BY <1>1, <1>2, <2>1, <2>2 DEF CallsAreOwn, ProducerLabels, Unwritten, localVars
    <2>6. QED
      BY <2>4, <2>5
  <1>4. CASE Claim(p)
    <2>1. claimed' \in 0 .. CountRange - 1
      BY <1>4, QueueArithmetic DEF Claim
    <2>2. pc' \in [Threads -> Labels]
      BY <1>2, <1>4 DEF Claim, Goto, Labels
    <2>3. TypeOK'
      BY <1>4, <2>1, <2>2 DEF Claim, TypeOK, localVars, history
    <2>4. CallsAreOwn'
      BY <1>1, <1>2, <1>4
      DEF Claim, Goto, CallsAreOwn, ProducerLabels, Unwritten, localVars, history
    <2>5. QED
      BY <2>3, <2>4
  <1>5. CASE Reserve(p)
    <2>1. /\ pc[p] = "reserve" /\ pc' = [pc EXCEPT ![p] = "write"]
          /\ index' = [index EXCEPT ![p] = last] /\ last' = (last + 1) % Capacity
          /\ accepted' = Append(accepted, CommandOf(p))
          /\ UNCHANGED <<slots, first, claimed, ready, waiting, more, place, adds,
                         removed, again, got>>
      BY <1>5 DEF Reserve, Goto
    <2>2. CommandOf(p) \in Commands
      BY <2>1, CommandOfCall DEF Unwritten
    <2>3. accepted' \in Seq(Commands)
      BY <2>1, <2>2 DEF TypeOK
    <2>4. index' \in [Threads -> Indices] /\ last' \in Indices
      BY <1>2, <2>1, QueueArithmetic DEF TypeOK
    <2>5. pc' \in [Threads -> Labels]
      BY <1>2, <2>1 DEF Labels
    <2>6. TypeOK'
      BY <2>1, <2>3, <2>4, <2>5 DEF TypeOK
    <2>7. CallsAreOwn'
      BY <1>1, <1>2, <2>1 DEF CallsAreOwn, ProducerLabels, Unwritten
    <2>8. QED
      BY <2>6, <2>7
  <1>6. CASE Write(p)
    <2>1. /\ pc[p] = "write" /\ pc' = [pc EXCEPT ![p] = "publish"]
          /\ index' = [index EXCEPT ![p] = 0]
          /\ slots' = [slots EXCEPT ![index[p]] = CommandOf(p)]
          /\ UNCHANGED <<first, last, claimed, ready, waiting, more, place, history>>
      BY <1>6 DEF Write, Goto
    <2>2. CommandOf(p) \in Commands
      BY <2>1, CommandOfCall DEF Unwritten
    <2>3. slots' \in [Indices -> Commands \cup {None}]
      BY <2>1, <2>2 DEF TypeOK
    <2>4. index' \in [Threads -> Indices]
      BY <1>2, <2>1, QueueArithmetic
    <2>5. pc' \in [Threads -> Labels]
      BY <1>2, <2>1 DEF Labels
    <2>6. TypeOK'
      BY <2>1, <2>3, <2>4, <2>5 DEF TypeOK, history
    <2>7. CallsAreOwn'
      BY <1>1, <1>2, <2>1 DEF CallsAreOwn, ProducerLabels, Unwritten, history
    <2>8. QED
      BY <2>6, <2>7
  <1>7. CASE Publish(p) \/ ScanSomebody(p)
    <2>1. PICK to \in {"scan", "unblock"} :
            /\ pc' = [pc EXCEPT ![p] = to] /\ ready' \in BOOLEAN
            /\ UNCHANGED <<slots, first, last, claimed, waiting, localVars, history>>
      BY <1>7 DEF Publish, ScanSomebody, Goto, ringVars, TypeOK
    <2>2. pc' \in [Threads -> Labels]
      BY <1>2, <2>1 DEF Labels
    <2>3. TypeOK'
      BY <2>1, <2>2 DEF TypeOK, history, localVars
    <2>4. CallsAreOwn'
      BY <1>1, <1>2, <2>1 DEF CallsAreOwn, ProducerLabels, Unwritten, history, localVars
    <2>5. QED
      BY <2>3, <2>4
  <1>8. CASE ScanNobody(p) \/ UnblockWaiting(p)
    <2>1. PICK from \in {"scan", "unblock"} : NextPlace(p, from)
      BY <1>8 DEF ScanNobody, UnblockWaiting
    <2>2. PICK to \in {"scan", "idle"}, k \in 1 .. Cardinality(Consumers) + 1 :
            pc' = [pc EXCEPT ![p] = to] /\ place' = [place EXCEPT ![p] = k]
      <3>1. Cardinality(Consumers) \in Nat /\ place[p] \in 1 .. Cardinality(Consumers) + 1
        BY <1>1, <1>2, QueueArithmetic
      <3>2. CASE place[p] \in Places
        <4>1. place[p] + 1 \in 1 .. Cardinality(Consumers) + 1
          BY <3>1, <3>2 DEF Places
        <4>2. QED
          BY <1>1, <1>2, <2>1, <3>2, <4>1 DEF NextPlace, Goto
      <3>3. CASE place[p] \notin Places
        <4>1. 1 \in 1 .. Cardinality(Consumers) + 1
          BY <3>1
        <4>2. QED
          BY <2>1, <3>3, <4>1 DEF NextPlace, Goto
      <3>4. QED
        BY <3>2, <3>3
    <2>3. UNCHANGED <<ringVars, waiting, index, more, history>>
      BY <2>1 DEF NextPlace
    <2>4. /\ pc' \in [Threads -> Labels]
          /\ place' \in [Threads -> 1 .. Cardinality(Consumers) + 1]
      BY <1>2, <2>2 DEF Labels
    <2>5. TypeOK'
      BY <2>3, <2>4 DEF TypeOK, history, ringVars
    <2>6. CallsAreOwn'
      BY <1>1, <1>2, <2>2, <2>3 DEF CallsAreOwn, ProducerLabels, Unwritten, history
    <2>7. QED
      BY <2>5, <2>6
  <1>9. QED
    BY <1>3, <1>4, <1>5, <1>6, <1>7, <1>8 DEF AddToQueue

LEMMA GetTypes ==
  ASSUME TypeInv, NEW c \in Consumers, GetNextInQueue(c)
  PROVE  TypeInv'
  <1> USE CommandAssumption DEF TypeInv
  <1>1. /\ c \in Threads /\ Producers \subseteq Threads /\ Consumers \subseteq Threads
        /\ c \notin Producers
    BY DEF Threads
  <1>2. /\ pc \in [Threads -> Labels] /\ index \in [Threads -> Indices]
        /\ more \in [Consumers -> BOOLEAN] /\ ready \in BOOLEAN
        /\ first \in Indices /\ got \in Seq(Commands \cup {None})
        /\ slots \in [Indices -> Commands \cup {None}] /\ removed \in Nat /\ again \in Nat
    BY DEF TypeOK
  <1>3. CASE GetNothing(c)
    BY <1>3 DEF GetNothing, vars, ringVars, localVars, history, TypeOK, CallsAreOwn
  <1>4. ASSUME NEW to \in Labels \ {"register"}, pc' = [pc EXCEPT ![c] = to],
               UNCHANGED <<place, adds>>
        PROVE  pc' \in [Threads -> Labels] /\ CallsAreOwn'
    BY <1>1, <1>2, <1>4 DEF CallsAreOwn, ProducerLabels, Unwritten
  <1>5. CASE SeeReady(c)
    BY <1>4, <1>5 DEF SeeReady, Goto, ringVars, localVars, history, TypeOK, Labels
  <1>6. CASE LoadFirst(c) \/ Retry(c)
    <2>1. PICK to \in {"last"} : pc' = [pc EXCEPT ![c] = to]
      BY <1>6 DEF LoadFirst, Retry, Goto
    <2>2. index' = [index EXCEPT ![c] = first]
          /\ UNCHANGED <<ringVars, waiting, more, place, history>>
      BY <1>6 DEF LoadFirst, Retry
    <2>3. pc' \in [Threads -> Labels] /\ CallsAreOwn'
      BY <1>4, <2>1, <2>2 DEF Labels, history
    <2>4. index' \in [Threads -> Indices]
      BY <1>2, <2>2
    <2>5. QED
      BY <2>2, <2>3, <2>4 DEF TypeOK, ringVars, history
  <1>7. CASE LoadLast(c)
    <2>1. pc' = [pc EXCEPT ![c] = "store"] /\ more' = [more EXCEPT ![c] = index[c] # last]
          /\ UNCHANGED <<ringVars, waiting, index, place, history>>
      BY <1>7 DEF LoadLast, Goto
    <2>2. more' \in [Consumers -> BOOLEAN]
      BY <1>2, <2>1
    <2>3. pc' \in [Threads -> Labels] /\ CallsAreOwn'
      BY <1>4, <2>1 DEF Labels, history
    <2>4. QED
      BY <2>1, <2>2, <2>3 DEF TypeOK, ringVars, history
  <1>8. CASE StoreReady(c)
    <2>1. /\ pc' = [pc EXCEPT ![c] = "test"] /\ ready' = more[c]
          /\ UNCHANGED <<slots, first, last, claimed, waiting, localVars, history>>
      BY <1>8 DEF StoreReady, Goto
    <2>2. ready' \in BOOLEAN
      BY <1>2, <2>1
    <2>3. pc' \in [Threads -> Labels] /\ CallsAreOwn'
      BY <1>4, <2>1 DEF Labels, localVars, history
    <2>4. QED
      BY <2>1, <2>2, <2>3 DEF TypeOK, localVars, history
  <1>14. CASE Test(c)
    <2>1. PICK to \in {"advance", "reread"} : pc' = [pc EXCEPT ![c] = to]
      BY <1>14 DEF Test, Goto
    <2>2. more' = [more EXCEPT ![c] = FALSE]
          /\ UNCHANGED <<ringVars, waiting, index, place, history>>
      BY <1>14 DEF Test
    <2>3. more' \in [Consumers -> BOOLEAN]
      BY <1>2, <2>2
    <2>4. pc' \in [Threads -> Labels] /\ CallsAreOwn'
      BY <1>4, <2>1, <2>2 DEF Labels, history
    <2>5. QED
      BY <2>2, <2>3, <2>4 DEF TypeOK, ringVars, history
  <1>15. CASE FoundNothing(c)
    <2>1. pc' = [pc EXCEPT ![c] = "idle"] /\ index' = [index EXCEPT ![c] = 0]
          /\ UNCHANGED <<ringVars, waiting, more, place, history>>
      BY <1>15 DEF FoundNothing, Goto
    <2>2. index' \in [Threads -> Indices]
      BY <1>2, <2>1, QueueArithmetic
    <2>3. pc' \in [Threads -> Labels] /\ CallsAreOwn'
      BY <1>4, <2>1 DEF Labels, history
    <2>4. QED
      BY <2>1, <2>2, <2>3 DEF TypeOK, ringVars, history
  <1>16. CASE FoundLate(c)
    <2>1. /\ pc' = [pc EXCEPT ![c] = "take"] /\ again' = again + 1
          /\ UNCHANGED <<ringVars, waiting, localVars, adds, accepted, removed, got>>
      BY <1>16 DEF FoundLate, Goto
    <2>2. again' \in Nat
      BY <1>2, <2>1
    <2>3. pc' \in [Threads -> Labels] /\ CallsAreOwn'
      BY <1>4, <2>1 DEF Labels, localVars
    <2>4. QED
      BY <2>1, <2>2, <2>3 DEF TypeOK, ringVars, localVars
  <1>9. CASE Advance(c)
    <2>1. /\ pc' = [pc EXCEPT ![c] = "recheck"] /\ first' = (index[c] + 1) % Capacity
          /\ removed' = removed + 1
          /\ UNCHANGED <<slots, last, claimed, ready, waiting, localVars, adds, accepted, again,
                         got>>
      BY <1>9 DEF Advance, Goto
    <2>2. first' \in Indices /\ removed' \in Nat
      BY <1>1, <1>2, <2>1, QueueArithmetic
    <2>3. pc' \in [Threads -> Labels] /\ CallsAreOwn'
      BY <1>4, <2>1 DEF Labels, localVars
    <2>4. QED
      BY <2>1, <2>2, <2>3 DEF TypeOK, localVars
  <1>10. CASE Recheck(c)
    <2>1. PICK to \in {"take", "idle"} : pc' = [pc EXCEPT ![c] = to]
      BY <1>10 DEF Recheck, Goto
    <2>2. /\ index' = [index EXCEPT ![c] = IF ready THEN @ ELSE 0]
          /\ UNCHANGED <<ringVars, waiting, more, place, history>>
      BY <1>10 DEF Recheck
    <2>3. index' \in [Threads -> Indices]
      BY <1>1, <1>2, <2>2, QueueArithmetic
    <2>4. pc' \in [Threads -> Labels] /\ CallsAreOwn'
      BY <1>4, <2>1, <2>2 DEF Labels, history
    <2>5. QED
      BY <2>2, <2>3, <2>4 DEF TypeOK, ringVars, history
  <1>11. CASE Take(c)
    <2>1. /\ pc' = [pc EXCEPT ![c] = "release"] /\ got' = Append(got, slots[index[c]])
          /\ index' = [index EXCEPT ![c] = 0]
          /\ UNCHANGED <<ringVars, waiting, more, place, adds, accepted, removed, again>>
      BY <1>11 DEF Take, Goto
    <2>2. slots[index[c]] \in Commands \cup {None}
      BY <1>1, <1>2
    <2>3. got' \in Seq(Commands \cup {None})
      BY <1>2, <2>1, <2>2, AppendProperties
    <2>4. index' \in [Threads -> Indices]
      BY <1>2, <2>1, QueueArithmetic
    <2>5. pc' \in [Threads -> Labels] /\ CallsAreOwn'
      BY <1>4, <2>1 DEF Labels
    <2>6. QED
      BY <2>1, <2>3, <2>4, <2>5 DEF TypeOK, ringVars
  <1>12. CASE Release(c)
    <2>1. claimed' \in 0 .. CountRange - 1
      BY <1>12, QueueArithmetic DEF Release
    <2>2. pc' = [pc EXCEPT ![c] = "idle"]
          /\ UNCHANGED <<slots, first, last, ready, waiting, localVars, history>>
      BY <1>12 DEF Release, Goto
    <2>3. pc' \in [Threads -> Labels] /\ CallsAreOwn'
      BY <1>4, <2>2 DEF Labels, localVars, history
    <2>4. QED
      BY <2>1, <2>2, <2>3 DEF TypeOK, localVars, history
  <1>13. QED
    BY <1>3, <1>5, <1>6, <1>7, <1>8, <1>9, <1>10, <1>11, <1>12, <1>14, <1>15, <1>16
    DEF GetNextInQueue

LEMMA WaitTypes ==
  ASSUME TypeInv, NEW c \in Consumers, WaitForCommands(c)
  PROVE  TypeInv'
  <1> USE CommandAssumption DEF TypeInv
  <1>1. /\ c \in Threads /\ Producers \subseteq Threads /\ Consumers \subseteq Threads
        /\ c \notin Producers
    BY DEF Threads
  <1>2. /\ pc \in [Threads -> Labels] /\ index \in [Threads -> Indices]
        /\ first \in Indices /\ waiting \in [Places -> Consumers \cup {None}]
        /\ place \in [Threads -> 1 .. Cardinality(Consumers) + 1]
    BY DEF TypeOK
  <1>3. ASSUME NEW to \in Labels \ {"register"}, pc' = [pc EXCEPT ![c] = to],
               \A d \in Consumers \ {c} : place'[d] = place[d], UNCHANGED adds
        PROVE  pc' \in [Threads -> Labels] /\ CallsAreOwn'
    BY <1>1, <1>2, <1>3 DEF CallsAreOwn, ProducerLabels, Unwritten
  <1>4. CASE BeginWait(c) \/ Compare(c)
    <2>1. PICK to \in {"compare", "find", "idle"} : pc' = [pc EXCEPT ![c] = to]
      BY <1>4 DEF BeginWait, Compare, Goto
    <2>2. PICK i \in Indices : index' = [index EXCEPT ![c] = i]
      BY <1>2, <1>4, QueueArithmetic DEF BeginWait, Compare
    <2>3. UNCHANGED <<ringVars, waiting, more, place, history>>
      BY <1>4 DEF BeginWait, Compare
    <2>4. index' \in [Threads -> Indices]
      BY <1>2, <2>2
    <2>5. pc' \in [Threads -> Labels] /\ CallsAreOwn'
      BY <1>3, <2>1, <2>3 DEF Labels, history
    <2>6. QED
      BY <2>3, <2>4, <2>5 DEF TypeOK, ringVars, history
  <1>5. CASE FindPlace(c)
    <2>1. /\ pc' = [pc EXCEPT ![c] = "register"]
          /\ UNCHANGED <<ringVars, waiting, index, more, history>>
      BY <1>5 DEF FindPlace, Goto
    <2>2. PICK k \in Places : place' = [place EXCEPT ![c] = k]
      BY <1>5 DEF FindPlace
    <2>3. k \in 1 .. Cardinality(Consumers) + 1
      BY QueueArithmetic DEF Places
    <2>4. place' \in [Threads -> 1 .. Cardinality(Consumers) + 1]
      BY <1>2, <2>2, <2>3
    <2>5. pc' \in [Threads -> Labels]
      BY <1>2, <2>1 DEF Labels
    <2>6. CallsAreOwn'
      BY <1>1, <1>2, <2>1, <2>2 DEF CallsAreOwn, ProducerLabels, Unwritten, history
    <2>7. QED
      BY <2>1, <2>4, <2>5, <2>6 DEF TypeOK, ringVars, history
  <1>6. CASE Register(c)
    <2>1. /\ pc' = [pc EXCEPT ![c] = "block"] /\ place' = [place EXCEPT ![c] = 1]
          /\ waiting' = [waiting EXCEPT ![place[c]] = c]
          /\ UNCHANGED <<ringVars, index, more, history>>
      BY <1>6 DEF Register, Goto
    <2>2. waiting' \in [Places -> Consumers \cup {None}]
      BY <1>2, <2>1
    <2>3. place' \in [Threads -> 1 .. Cardinality(Consumers) + 1]
      BY <1>2, <2>1, QueueArithmetic
    <2>4. \A d \in Consumers \ {c} : place'[d] = place[d]
      BY <1>1, <1>2, <2>1
    <2>5. pc' \in [Threads -> Labels] /\ CallsAreOwn'
      BY <1>3, <2>1, <2>4 DEF Labels, history
    <2>6. QED
      BY <2>1, <2>2, <2>3, <2>5 DEF TypeOK, ringVars, history
  <1>7. CASE Sleep(c) \/ DoNotSleep(c) \/ WakeUp(c)
    <2>1. PICK to \in {"asleep", "deregister"} : pc' = [pc EXCEPT ![c] = to]
      BY <1>7 DEF Sleep, DoNotSleep, WakeUp, Goto
    <2>2. UNCHANGED <<ringVars, waiting, localVars, history>>
      BY <1>7 DEF Sleep, DoNotSleep, WakeUp
    <2>3. pc' \in [Threads -> Labels] /\ CallsAreOwn'
      BY <1>3, <2>1, <2>2 DEF Labels, localVars, history
    <2>4. QED
      BY <2>2, <2>3 DEF TypeOK, ringVars, localVars, history
  <1>8. CASE Deregister(c)
    <2>1. /\ pc' = [pc EXCEPT ![c] = "idle"]
          /\ UNCHANGED <<ringVars, localVars, history>>
      BY <1>8 DEF Deregister, Goto
    <2>2. waiting' \in [Places -> Consumers \cup {None}]
      BY <1>2, <1>8 DEF Deregister
    <2>3. pc' \in [Threads -> Labels] /\ CallsAreOwn'
      BY <1>3, <2>1 DEF Labels, localVars, history
    <2>4. QED
      BY <2>1, <2>2, <2>3 DEF TypeOK, ringVars, localVars, history
  <1>9. QED
    BY <1>4, <1>5, <1>6, <1>7, <1>8 DEF WaitForCommands

LEMMA NextTypes == TypeInv /\ [Next]_vars => TypeInv'
  <1>1. SUFFICES ASSUME TypeInv, [Next]_vars PROVE TypeInv'
    OBVIOUS
  <1>2. CASE UNCHANGED vars
    BY <1>1, <1>2 DEF vars, ringVars, localVars, history, TypeInv, TypeOK, CallsAreOwn
  <1>3. QED
    BY <1>1, <1>2, AddTypes, GetTypes, WaitTypes DEF Next

LEMMA TypesStay == Spec => []TypeInv
  BY InitTypes, NextTypes, PTL DEF Spec

\* Whatever the number of producers, consumers and slots and however their steps
\* interleave, the calls of the queue keep every variable within its type.
THEOREM TypeCorrect == Spec => []TypeOK
  <1>1. TypeInv => TypeOK
    BY DEF TypeInv
  <1>2. QED
    BY TypesStay, <1>1, PTL

-----------------------------------------------------------------------------
(* The ring, with one consumer c and producers of a higher priority: an     *)
(* addToQueue runs to its end before anybody else steps.                    *)

\* The slot n places after slot i.
After(i, n) == IF i + n < Capacity THEN i + n ELSE i + n - Capacity

\* The slot of the oldest command that was not returned.
Base(c) == IF pc[c] \in {"recheck", "take"} THEN index[c] ELSE first

\* The number of outstanding commands, and of those that were written.
Waits   == Len(accepted) - Len(got)
Writing == \E p \in Producers : pc[p] = "write"
Written == IF Writing THEN Waits - 1 ELSE Waits

OneProducerSteps == \A p, q \in Producers : pc[p] # "idle" /\ pc[q] # "idle" => p = q

ClaimsAddUp(c) ==
  /\ claimed = Waits + (IF \E p \in Producers : pc[p] = "reserve" THEN 1 ELSE 0)
                     + (IF pc[c] = "release" THEN 1 ELSE 0)
  /\ claimed <= Capacity
  /\ (\E p \in Producers : pc[p] = "claim") => claimed < Capacity

WindowIsExact(c) ==
  /\ Len(got) <= Len(accepted)
  /\ last = After(Base(c), Waits)
  /\ \A k \in 1 .. Written : slots[After(Base(c), k - 1)] = accepted[Len(got) + k]

WriterHasItsSlot(c) ==
  \A p \in Producers :
     /\ pc[p] \in {"write", "publish"} => Waits >= 1
     /\ pc[p] = "write" => /\ index[p] = After(Base(c), Waits - 1)
                           /\ accepted[Len(accepted)] = CommandOf(p)

ConsumerSees(c) ==
  /\ pc[c] # "reserve"
  /\ pc[c] \in {"last", "store", "test", "advance"} => index[c] = first
  /\ pc[c] \in {"store", "test"} /\ more[c] => Waits >= 1
  /\ pc[c] = "test" => (more[c] => ready) /\ (ready => Waits >= 1)
  /\ pc[c] = "advance" => Waits >= 1 /\ ready
  /\ pc[c] \in {"recheck", "take"} => /\ Waits >= 1 /\ ready
                                      /\ first = After(index[c], 1)

RemovedAddsUp(c) ==
  removed = Len(got) + (IF pc[c] \in {"recheck", "take"} THEN 1 ELSE 0)

\* What was returned is what was accepted, in the same order.
GotIsPrefix == \A k \in DOMAIN got : got[k] = accepted[k]

\* Every accepted command belongs to a call that has begun.
AcceptedAreCalls ==
  \A k \in DOMAIN accepted :
     LET e == accepted[k]
     IN /\ e[2] <= adds[e[1]]
        /\ pc[e[1]] \in {"claim", "reserve"} => e[2] < adds[e[1]]

\* The ring as long as no command was returned that stayed in it.
RingInv(c) ==
  /\ OneProducerSteps /\ ClaimsAddUp(c) /\ WindowIsExact(c) /\ WriterHasItsSlot(c)
  /\ ConsumerSees(c) /\ RemovedAddsUp(c) /\ GotIsPrefix /\ AcceptedAreCalls

LEMMA SmallRemainder ==
  ASSUME NEW b \in Nat \ {0}, NEW a \in 0 .. b - 1
  PROVE  a % b = a
  OBVIOUS

LEMMA WrappedRemainder ==
  ASSUME NEW b \in Nat \ {0}, NEW a \in b .. 2 * b - 1
  PROVE  a % b = a - b
  OBVIOUS

\* Counting in the ring.
LEMMA AfterInRange ==
  ASSUME NEW i \in Indices, NEW n \in 0 .. Capacity
  PROVE  /\ After(i, n) \in Indices
         /\ (i + n) % Capacity = After(i, n)
  <1>1. Capacity \in Nat \ {0} /\ i \in 0 .. Capacity - 1
    BY CommandAssumption DEF Indices
  <1>2. CASE i + n < Capacity
    <2>1. i + n \in 0 .. Capacity - 1
      BY <1>1, <1>2
    <2>2. QED
      BY <1>1, <1>2, <2>1, SmallRemainder DEF After, Indices
  <1>3. CASE i + n >= Capacity
    <2>1. i + n \in Capacity .. 2 * Capacity - 1
      BY <1>1, <1>3
    <2>2. QED
      BY <1>1, <1>3, <2>1, WrappedRemainder DEF After, Indices
  <1>4. QED
    BY <1>1, <1>2, <1>3

LEMMA AfterAfter ==
  ASSUME NEW i \in Indices, NEW n \in 0 .. Capacity, NEW m \in 0 .. Capacity,
         n + m <= Capacity
  PROVE  After(After(i, n), m) = After(i, n + m)
  BY CommandAssumption DEF After, Indices

LEMMA AfterDiffers ==
  ASSUME NEW i \in Indices, NEW n \in 0 .. Capacity - 1, NEW m \in 0 .. Capacity - 1,
         After(i, n) = After(i, m)
  PROVE  n = m
  BY CommandAssumption DEF After, Indices

LEMMA LeftOf ==
  ASSUME NEW s \in Seq(Commands), NEW n \in Nat, n <= Len(s)
  PROVE  /\ SubSeq(s, n + 1, Len(s)) \in Seq(Commands)
         /\ Len(SubSeq(s, n + 1, Len(s))) = Len(s) - n
         /\ \A k \in 1 .. Len(s) - n : SubSeq(s, n + 1, Len(s))[k] = s[n + k]
  <1>1. Len(s) \in Nat /\ \A i \in n + 1 .. Len(s) : s[i] \in Commands
    OBVIOUS
  <1>2. /\ SubSeq(s, n + 1, Len(s)) \in Seq(Commands)
        /\ Len(SubSeq(s, n + 1, Len(s))) =
             IF n + 1 <= Len(s) THEN Len(s) - (n + 1) + 1 ELSE 0
        /\ \A i \in 1 .. Len(s) - (n + 1) + 1 :
             SubSeq(s, n + 1, Len(s))[i] = s[n + 1 + i - 1]
    BY <1>1, SubSeqProperties
  <1>3. ASSUME NEW k \in 1 .. Len(s) - n
        PROVE  SubSeq(s, n + 1, Len(s))[k] = s[n + k]
    <2>1. k \in 1 .. Len(s) - (n + 1) + 1 /\ n + 1 + k - 1 = n + k
      BY <1>1
    <2>2. QED
      BY <1>2, <2>1
  <1>4. QED
    BY <1>1, <1>2, <1>3

\* The numbers of a ring.
LEMMA RingNumbers ==
  ASSUME TypeInv, NEW c \in Consumers, RingInv(c)
  PROVE  /\ Capacity \in Nat \ {0} /\ CountRange \in Nat /\ CountRange > Capacity
         /\ first \in Indices /\ last \in Indices /\ Base(c) \in Indices
         /\ index[c] \in Indices
         /\ Len(got) \in Nat /\ Len(accepted) \in Nat /\ Len(got) <= Len(accepted)
         /\ Waits \in 0 .. Capacity /\ claimed \in 0 .. Capacity
         /\ Written \in {Waits, Waits - 1}
  <1>1. /\ Capacity \in Nat \ {0} /\ CountRange \in Nat /\ CountRange > Capacity
        /\ first \in Indices /\ last \in Indices /\ claimed \in Nat
        /\ Len(got) \in Nat /\ Len(accepted) \in Nat /\ index[c] \in Indices
    BY CommandAssumption DEF TypeInv, TypeOK, Threads
  <1>2. Base(c) \in Indices
    BY <1>1 DEF Base
  <1>3. Waits \in 0 .. Capacity /\ claimed \in 0 .. Capacity /\ Len(got) <= Len(accepted)
    <2>1. \E a, b \in {0, 1} : claimed = Waits + a + b
      BY <1>1 DEF RingInv, ClaimsAddUp
    <2>2. claimed <= Capacity /\ Len(got) <= Len(accepted)
      BY DEF RingInv, ClaimsAddUp, WindowIsExact
    <2>3. QED
      BY <1>1, <2>1, <2>2 DEF Waits
  <1>4. QED
    BY <1>1, <1>2, <1>3 DEF Written

\* When somebody steps, all the other producers are between two calls.
LEMMA ProducersAlone ==
  ASSUME Producers \subseteq Atomic, TypeInv, NEW t \in Threads, MayStep(t)
  PROVE  \A q \in Producers \ {t} : pc[q] = "idle"
  BY DEF MayStep, MidCall, TypeInv, CallsAreOwn, ProducerLabels

\* What the places of a call say about the ring when p is the only one in a call.
LEMMA ProducerPlaces ==
  ASSUME Producers \subseteq Atomic, TypeInv, NEW c \in Consumers,
         NEW p \in Producers, MayStep(p), NEW to \in Labels, pc' = [pc EXCEPT ![p] = to]
  PROVE  /\ pc'[c] = pc[c] /\ pc'[p] = to /\ p # c
         /\ \A q \in Producers \ {p} : pc[q] = "idle" /\ pc'[q] = "idle"
         /\ \A at \in Labels \ {"idle"} :
              /\ (\E q \in Producers : pc[q] = at) <=> pc[p] = at
              /\ (\E q \in Producers : pc'[q] = at) <=> to = at
  <1>1. p # c /\ pc \in [Threads -> Labels] /\ Producers \subseteq Threads /\ c \in Threads
        /\ p \in Threads
    BY CommandAssumption DEF TypeInv, TypeOK, Threads
  <1>2. \A q \in Producers \ {p} : pc[q] = "idle"
    BY <1>1, ProducersAlone
  <1>3. pc'[c] = pc[c] /\ pc'[p] = to /\ \A q \in Producers \ {p} : pc'[q] = pc[q]
    BY <1>1
  <1>4. QED
    BY <1>1, <1>2, <1>3

\* What the ring looks like to its consumer when it may step.
LEMMA ConsumerPlaces ==
  ASSUME Producers \subseteq Atomic, TypeInv, NEW c \in Consumers, RingInv(c),
         MayStep(c), NEW to \in Labels, pc' = [pc EXCEPT ![c] = to]
  PROVE  /\ pc'[c] = to
         /\ \A q \in Producers : pc[q] = "idle" /\ pc'[q] = "idle"
         /\ Written = Waits /\ Written' = Waits'
         /\ claimed = Waits + (IF pc[c] = "release" THEN 1 ELSE 0)
         /\ claimed <= Capacity
         /\ OneProducerSteps' /\ WriterHasItsSlot(c)'
         /\ UNCHANGED <<accepted, adds>> => AcceptedAreCalls'
  <1>1. /\ pc \in [Threads -> Labels] /\ c \in Threads /\ c \notin Producers
        /\ Producers \subseteq Threads
    BY CommandAssumption DEF TypeInv, TypeOK, Threads
  <1>2. \A q \in Producers : pc[q] = "idle" /\ pc'[q] = "idle"
    BY <1>1, ProducersAlone
  <1>3. Written = Waits /\ Written' = Waits'
    BY <1>2 DEF Written, Writing
  <1>4. claimed = Waits + (IF pc[c] = "release" THEN 1 ELSE 0) /\ claimed <= Capacity
    <2>1. ~(\E q \in Producers : pc[q] = "reserve")
      BY <1>2
    <2>2. Waits \in Nat
      BY RingNumbers
    <2>3. QED
      BY <2>1, <2>2 DEF RingInv, ClaimsAddUp
  <1>5. OneProducerSteps' /\ WriterHasItsSlot(c)'
    BY <1>2 DEF OneProducerSteps, WriterHasItsSlot
  <1>6. UNCHANGED <<accepted, adds>> => AcceptedAreCalls'
    <2>1. \A k \in DOMAIN accepted : accepted[k][1] \in Producers
      BY DEF TypeInv, TypeOK, Commands
    <2>2. QED
      BY <1>2, <2>1 DEF RingInv, AcceptedAreCalls
  <1>7. QED
    BY <1>1, <1>2, <1>3, <1>4, <1>5, <1>6

\* A step of a producer that leaves the ring and its consumer alone.
RingLeft(c) ==
  /\ index'[c] = index[c] /\ (ready => ready') /\ (ready' => ready \/ Waits >= 1)
  /\ UNCHANGED <<slots, first, last, more, accepted, removed, got>>

LEMMA ProducerLeavesRing ==
  ASSUME Producers \subseteq Atomic, TypeInv, NEW c \in Consumers, RingInv(c),
         NEW p \in Producers, MayStep(p), NEW to \in Labels,
         pc' = [pc EXCEPT ![p] = to], (pc[p] = "write") <=> (to = "write"), RingLeft(c)
  PROVE  /\ Base(c)' = Base(c) /\ Waits' = Waits /\ Written' = Written
         /\ WindowIsExact(c)' /\ ConsumerSees(c)' /\ OneProducerSteps'
         /\ RemovedAddsUp(c)' /\ GotIsPrefix'
  <1>0. /\ pc'[c] = pc[c]
        /\ \A q \in Producers \ {p} : pc'[q] = "idle"
        /\ \A at \in Labels \ {"idle"} :
              /\ (\E q \in Producers : pc[q] = at) <=> pc[p] = at
              /\ (\E q \in Producers : pc'[q] = at) <=> to = at
    BY ProducerPlaces, ZenonT(60)
  <1>1. Writing' <=> Writing
    BY <1>0 DEF Writing, Labels
  <1>2. Base(c)' = Base(c) /\ Waits' = Waits
    BY <1>0 DEF Base, Waits, RingLeft
  <1>3. Written' = Written
    BY <1>1, <1>2 DEF Written
  <1>4. WindowIsExact(c)'
    BY <1>2, <1>3 DEF RingInv, WindowIsExact, After, RingLeft
  <1>5. ConsumerSees(c)'
    BY <1>0, <1>2 DEF RingInv, ConsumerSees, After, RingLeft
  <1>6. RemovedAddsUp(c)' /\ GotIsPrefix'
    BY <1>0 DEF RingInv, RemovedAddsUp, GotIsPrefix, RingLeft
  <1>7. OneProducerSteps'
    BY <1>0 DEF OneProducerSteps
  <1>8. QED
    BY <1>2, <1>3, <1>4, <1>5, <1>6, <1>7

LEMMA BeginAddRing ==
  ASSUME Producers \subseteq Atomic, TypeInv, NEW c \in Consumers, RingInv(c),
         NEW p \in Producers, PassGuard(p) \/ Refuse(p)
  PROVE  RingInv(c)'
  <1>1. PICK to \in {"claim", "idle"} :
          /\ pc[p] = "idle" /\ pc' = [pc EXCEPT ![p] = to] /\ MayStep(p)
          /\ to = "claim" => claimed < Capacity
          /\ adds' = [adds EXCEPT ![p] = @ + 1]
          /\ UNCHANGED <<slots, first, last, claimed, ready, index, more, accepted,
                         removed, got>>
    BY DEF PassGuard, Refuse, BeginAdd, Goto, ringVars, localVars
  <1>2. to \in Labels
    BY DEF Labels
  <1>3. /\ pc'[c] = pc[c] /\ pc'[p] = to
        /\ \A q \in Producers \ {p} : pc[q] = "idle" /\ pc'[q] = "idle"
        /\ \A at \in Labels \ {"idle"} :
              /\ (\E q \in Producers : pc[q] = at) <=> pc[p] = at
              /\ (\E q \in Producers : pc'[q] = at) <=> to = at
    BY <1>1, <1>2, ProducerPlaces
  <1>4. /\ Base(c)' = Base(c) /\ Waits' = Waits /\ Written' = Written
        /\ WindowIsExact(c)' /\ ConsumerSees(c)' /\ OneProducerSteps'
        /\ RemovedAddsUp(c)' /\ GotIsPrefix'
    BY <1>1, <1>2, ProducerLeavesRing DEF RingLeft
  <1>5. ClaimsAddUp(c)'
    BY <1>1, <1>3, <1>4 DEF RingInv, ClaimsAddUp, Labels
  <1>6. WriterHasItsSlot(c)'
    BY <1>1, <1>3 DEF WriterHasItsSlot
  <1>7. AcceptedAreCalls'
    <2>1. adds \in [Producers -> 0 .. MaxAdds]
      BY DEF TypeInv, TypeOK
    <2>2. adds'[p] = adds[p] + 1 /\ \A q \in Producers \ {p} : adds'[q] = adds[q]
      BY <1>1, <2>1
    <2>3. SUFFICES ASSUME NEW k \in DOMAIN accepted
                   PROVE  /\ accepted[k][2] <= adds'[accepted[k][1]]
                          /\ pc'[accepted[k][1]] \in {"claim", "reserve"} =>
                                accepted[k][2] < adds'[accepted[k][1]]
      BY <1>1 DEF AcceptedAreCalls
    <2>4. /\ accepted[k][1] \in Producers /\ accepted[k][2] \in Nat
          /\ accepted[k][2] <= adds[accepted[k][1]]
      BY DEF TypeInv, TypeOK, RingInv, AcceptedAreCalls, Commands
    <2>5. QED
      BY <1>3, <2>1, <2>2, <2>4, CommandAssumption
  <1>8. QED
    BY <1>4, <1>5, <1>6, <1>7 DEF RingInv

LEMMA ClaimRing ==
  ASSUME Producers \subseteq Atomic, TypeInv, NEW c \in Consumers, RingInv(c),
         NEW p \in Producers, Claim(p)
  PROVE  RingInv(c)'
  <1>1. /\ pc[p] = "claim" /\ pc' = [pc EXCEPT ![p] = "reserve"] /\ MayStep(p)
        /\ claimed' = (claimed + 1) % CountRange
        /\ UNCHANGED <<slots, first, last, ready, index, more, accepted, removed, got,
                       adds>>
    BY DEF Claim, Goto, localVars, history
  <1>2. /\ pc'[c] = pc[c] /\ pc'[p] = "reserve"
        /\ \A q \in Producers \ {p} : pc[q] = "idle" /\ pc'[q] = "idle"
        /\ \A at \in Labels \ {"idle"} :
              /\ (\E q \in Producers : pc[q] = at) <=> pc[p] = at
              /\ (\E q \in Producers : pc'[q] = at) <=> "reserve" = at
    BY <1>1, ProducerPlaces, ZenonT(60) DEF Labels
  <1>3. /\ Base(c)' = Base(c) /\ Waits' = Waits /\ Written' = Written
        /\ WindowIsExact(c)' /\ ConsumerSees(c)' /\ OneProducerSteps'
        /\ RemovedAddsUp(c)' /\ GotIsPrefix'
    BY <1>1, ProducerLeavesRing DEF Labels, RingLeft
  <1>4. ClaimsAddUp(c)'
    <2>1. claimed < Capacity
      BY <1>1 DEF RingInv, ClaimsAddUp
    <2>2. claimed + 1 \in 0 .. CountRange - 1 /\ CountRange \in Nat \ {0}
          /\ Waits \in 0 .. Capacity /\ claimed \in Nat /\ Capacity \in Nat
      BY <2>1, RingNumbers
    <2>3. claimed' = claimed + 1
      BY <1>1, <2>2, SmallRemainder
    <2>4. /\ ~(\E q \in Producers : pc[q] = "reserve")
          /\ (\E q \in Producers : pc'[q] = "reserve")
          /\ ~(\E q \in Producers : pc'[q] = "claim")
      BY <1>1, <1>2 DEF Labels
    <2>5. claimed = Waits + (IF pc[c] = "release" THEN 1 ELSE 0)
      BY <2>2, <2>4 DEF RingInv, ClaimsAddUp
    <2>6. claimed' <= Capacity
      BY <2>1, <2>2, <2>3
    <2>7. claimed' = Waits' + 1 + (IF pc'[c] = "release" THEN 1 ELSE 0)
      BY <1>2, <1>3, <2>2, <2>3, <2>5
    <2>8. QED
      BY <2>4, <2>6, <2>7 DEF ClaimsAddUp
  <1>5. WriterHasItsSlot(c)'
    BY <1>1, <1>2 DEF WriterHasItsSlot
  <1>6. AcceptedAreCalls'
    <2>1. \A k \in DOMAIN accepted : accepted[k][1] \in Producers
      BY DEF TypeInv, TypeOK, Commands
    <2>2. QED
      BY <1>1, <1>2, <2>1 DEF RingInv, AcceptedAreCalls
  <1>7. QED
    BY <1>3, <1>4, <1>5, <1>6 DEF RingInv

LEMMA ReserveRing ==
  ASSUME Producers \subseteq Atomic, TypeInv, NEW c \in Consumers, RingInv(c),
         NEW p \in Producers, Reserve(p)
  PROVE  RingInv(c)'
  <1>1. /\ pc[p] = "reserve" /\ pc' = [pc EXCEPT ![p] = "write"] /\ MayStep(p)
        /\ index' = [index EXCEPT ![p] = last]
        /\ last' = (last + 1) % Capacity
        /\ accepted' = Append(accepted, CommandOf(p))
        /\ UNCHANGED <<slots, first, claimed, ready, more, removed, got, adds>>
    BY DEF Reserve, Goto
  <1>2. /\ pc'[c] = pc[c] /\ pc'[p] = "write" /\ p # c
        /\ \A q \in Producers \ {p} : pc[q] = "idle" /\ pc'[q] = "idle"
        /\ \A at \in Labels \ {"idle"} :
              /\ (\E q \in Producers : pc[q] = at) <=> pc[p] = at
              /\ (\E q \in Producers : pc'[q] = at) <=> "write" = at
    <2>1. "write" \in Labels
      BY DEF Labels
    <2>2. QED
      BY <1>1, <2>1, ProducerPlaces, ZenonT(60)
  <1>3. /\ ~Writing /\ Writing'
        /\ (\E q \in Producers : pc[q] = "reserve")
        /\ ~(\E q \in Producers : pc'[q] = "reserve")
        /\ ~(\E q \in Producers : pc'[q] = "claim")
    BY <1>1, <1>2 DEF Writing, Labels
  <1>4. /\ index \in [Threads -> Indices] /\ p \in Threads /\ c \in Threads
        /\ adds \in [Producers -> 0 .. MaxAdds] /\ MaxAdds \in Nat
        /\ accepted \in Seq(Commands)
    BY CommandAssumption DEF Threads, TypeInv, TypeOK
  <1>5. index'[c] = index[c] /\ index'[p] = last
    BY <1>1, <1>2, <1>4
  <1>6. Base(c)' = Base(c) /\ Base(c) \in Indices
    BY <1>1, <1>2, <1>5, RingNumbers DEF Base
  <1>7. CommandOf(p) \in Commands
    BY <1>1, CommandOfCall DEF Unwritten
  <1>8. /\ Len(accepted') = Len(accepted) + 1
        /\ \A k \in 1 .. Len(accepted) : accepted'[k] = accepted[k]
        /\ accepted'[Len(accepted) + 1] = CommandOf(p)
        /\ DOMAIN accepted = 1 .. Len(accepted)
        /\ DOMAIN accepted' = 1 .. Len(accepted) + 1
    BY <1>1, <1>4, <1>7
  <1>9. Len(accepted) \in Nat /\ Len(got) \in Nat /\ Capacity \in Nat \ {0}
        /\ Waits \in 0 .. Capacity /\ Len(got) <= Len(accepted)
    BY RingNumbers
  <1>10. Waits' = Waits + 1 /\ Written' = Waits /\ Written = Waits
    BY <1>1, <1>3, <1>8, <1>9 DEF Waits, Written
  <1>11. Waits + 1 <= Capacity
    <2>1. \E a \in {0, 1} : claimed = Waits + 1 + a
      BY <1>3, <1>9 DEF RingInv, ClaimsAddUp
    <2>2. claimed <= Capacity
      BY DEF RingInv, ClaimsAddUp
    <2>3. QED
      BY <1>9, <2>1, <2>2
  <1>12. ClaimsAddUp(c)'
    <2>1. claimed = Waits + 1 + (IF pc[c] = "release" THEN 1 ELSE 0) /\ claimed <= Capacity
      BY <1>3 DEF RingInv, ClaimsAddUp
    <2>2. claimed' = Waits' + (IF pc'[c] = "release" THEN 1 ELSE 0)
      BY <1>1, <1>2, <1>9, <1>10, <2>1
    <2>3. QED
      BY <1>1, <1>3, <1>9, <1>10, <2>1, <2>2 DEF ClaimsAddUp
  <1>13. last = After(Base(c), Waits) /\ last' = After(Base(c), Waits + 1)
    <2>1. last = After(Base(c), Waits) /\ last \in Indices
      BY RingNumbers DEF RingInv, WindowIsExact
    <2>2. last' = After(last, 1)
      BY <1>1, <1>9, <2>1, AfterInRange
    <2>3. QED
      BY <1>6, <1>9, <1>11, <2>1, <2>2, AfterAfter
  <1>14. WindowIsExact(c)'
    <2>1. Len(got') <= Len(accepted')
      BY <1>1, <1>8, <1>9
    <2>2. last' = After(Base(c)', Waits')
      BY <1>6, <1>10, <1>13
    <2>3. ASSUME NEW k \in 1 .. Written'
          PROVE  slots'[After(Base(c)', k - 1)] = accepted'[Len(got') + k]
      <3>1. k \in 1 .. Written /\ Len(got) + k \in 1 .. Len(accepted)
        BY <1>9, <1>10 DEF Waits
      <3>2. QED
        BY <1>1, <1>6, <1>8, <3>1 DEF RingInv, WindowIsExact
    <2>4. QED
      BY <2>1, <2>2, <2>3 DEF WindowIsExact, After
  <1>15. WriterHasItsSlot(c)'
    <2>1. CommandOf(p)' = CommandOf(p)
      BY <1>1 DEF CommandOf
    <2>2. index'[p] = After(Base(c)', Waits' - 1) /\ Waits' >= 1
      BY <1>5, <1>6, <1>9, <1>10, <1>13
    <2>3. accepted'[Len(accepted')] = CommandOf(p)'
      BY <1>8, <2>1
    <2>4. QED
      BY <1>2, <2>2, <2>3 DEF WriterHasItsSlot, After
  <1>16. ConsumerSees(c)'
    BY <1>1, <1>2, <1>5, <1>9, <1>10 DEF RingInv, ConsumerSees, After
  <1>17. RemovedAddsUp(c)'
    BY <1>1, <1>2 DEF RingInv, RemovedAddsUp
  <1>18. GotIsPrefix'
    <2>1. DOMAIN got = 1 .. Len(got)
      BY DEF TypeInv, TypeOK
    <2>2. \A k \in DOMAIN got : k \in 1 .. Len(accepted)
      BY <1>9, <2>1
    <2>3. QED
      BY <1>1, <1>8, <2>2 DEF RingInv, GotIsPrefix
  <1>19. AcceptedAreCalls'
    <2>1. SUFFICES ASSUME NEW k \in DOMAIN accepted'
                   PROVE  /\ accepted'[k][2] <= adds[accepted'[k][1]]
                          /\ pc'[accepted'[k][1]] \in {"claim", "reserve"} =>
                                accepted'[k][2] < adds[accepted'[k][1]]
      BY <1>1 DEF AcceptedAreCalls
    <2>2. CASE k \in DOMAIN accepted
      <3>1. /\ accepted'[k] = accepted[k] /\ accepted[k][1] \in Producers
            /\ accepted[k][2] <= adds[accepted[k][1]]
        BY <1>4, <1>8, <2>2 DEF RingInv, AcceptedAreCalls, Commands
      <3>2. pc'[accepted[k][1]] \notin {"claim", "reserve"}
        BY <1>2, <3>1
      <3>3. QED
        BY <3>1, <3>2
    <2>3. CASE k = Len(accepted) + 1
      <3>1. accepted'[k] = CommandOf(p) /\ CommandOf(p)[1] = p /\ CommandOf(p)[2] = adds[p]
        BY <1>8, <2>3 DEF CommandOf
      <3>2. adds[p] <= adds[p]
        BY <1>4
      <3>3. QED
        BY <1>2, <3>1, <3>2
    <2>4. QED
      BY <1>8, <1>9, <2>2, <2>3
  <1>20. OneProducerSteps'
    BY <1>2 DEF OneProducerSteps
  <1>21. QED
    BY <1>20, <1>12, <1>14, <1>15, <1>16, <1>17, <1>18, <1>19 DEF RingInv

LEMMA WriteRing ==
  ASSUME Producers \subseteq Atomic, TypeInv, NEW c \in Consumers, RingInv(c),
         NEW p \in Producers, Write(p)
  PROVE  RingInv(c)'
  <1>1. /\ pc[p] = "write" /\ pc' = [pc EXCEPT ![p] = "publish"] /\ MayStep(p)
        /\ slots' = [slots EXCEPT ![index[p]] = CommandOf(p)]
        /\ index' = [index EXCEPT ![p] = 0]
        /\ UNCHANGED <<first, last, claimed, ready, more, accepted, removed, got, adds>>
    BY DEF Write, Goto, history
  <1>2. /\ pc'[c] = pc[c] /\ pc'[p] = "publish" /\ p # c
        /\ \A q \in Producers \ {p} : pc[q] = "idle" /\ pc'[q] = "idle"
        /\ \A at \in Labels \ {"idle"} :
              /\ (\E q \in Producers : pc[q] = at) <=> pc[p] = at
              /\ (\E q \in Producers : pc'[q] = at) <=> "publish" = at
    <2>1. "publish" \in Labels
      BY DEF Labels
    <2>2. QED
      BY <1>1, <2>1, ProducerPlaces, ZenonT(60)
  <1>3. /\ Writing /\ ~Writing'
        /\ ~(\E q \in Producers : pc[q] = "reserve")
        /\ ~(\E q \in Producers : pc'[q] = "reserve")
        /\ ~(\E q \in Producers : pc'[q] = "claim")
    BY <1>1, <1>2 DEF Writing, Labels
  <1>4. /\ index'[c] = index[c] /\ slots \in [Indices -> Commands \cup {None}]
        /\ DOMAIN got = 1 .. Len(got)
    BY <1>1, <1>2 DEF TypeInv, TypeOK, Threads
  <1>5. Base(c)' = Base(c) /\ Base(c) \in Indices /\ Waits' = Waits
    BY <1>1, <1>2, <1>4, RingNumbers DEF Base, Waits
  <1>6. Len(accepted) \in Nat /\ Len(got) \in Nat /\ Capacity \in Nat \ {0}
        /\ Waits \in 0 .. Capacity /\ Len(got) <= Len(accepted)
    BY RingNumbers
  <1>7. /\ Waits >= 1 /\ index[p] = After(Base(c), Waits - 1)
        /\ accepted[Len(accepted)] = CommandOf(p)
    BY <1>1 DEF RingInv, WriterHasItsSlot
  <1>8. Written = Waits - 1 /\ Written' = Waits
    BY <1>3, <1>5 DEF Written
  <1>9. /\ slots'[After(Base(c), Waits - 1)] = CommandOf(p)
        /\ \A i \in Indices \ {After(Base(c), Waits - 1)} : slots'[i] = slots[i]
    <2>1. Waits - 1 \in 0 .. Capacity
      BY <1>6, <1>7
    <2>2. After(Base(c), Waits - 1) \in Indices
      BY <1>5, <2>1, AfterInRange
    <2>3. QED
      BY <1>1, <1>4, <1>7, <2>2
  <1>10. ClaimsAddUp(c)'
    BY <1>1, <1>2, <1>3, <1>5 DEF RingInv, ClaimsAddUp
  <1>11. WindowIsExact(c)'
    <2>1. ASSUME NEW k \in 1 .. Written'
          PROVE  slots'[After(Base(c), k - 1)] = accepted[Len(got) + k]
      <3>1. CASE k = Waits
        BY <1>6, <1>7, <1>9, <3>1 DEF Waits
      <3>2. CASE k # Waits
        <4>1. k \in 1 .. Written /\ k - 1 \in 0 .. Capacity - 1
              /\ Waits - 1 \in 0 .. Capacity - 1 /\ k - 1 \in 0 .. Capacity
              /\ k - 1 # Waits - 1
          BY <1>6, <1>7, <1>8, <3>2
        <4>2. After(Base(c), k - 1) \in Indices
              /\ After(Base(c), k - 1) # After(Base(c), Waits - 1)
          BY <1>5, <4>1, AfterInRange, AfterDiffers
        <4>3. QED
          BY <1>9, <4>1, <4>2 DEF RingInv, WindowIsExact
      <3>3. QED
        BY <3>1, <3>2
    <2>2. last' = After(Base(c)', Waits')
      BY <1>1, <1>5 DEF RingInv, WindowIsExact
    <2>3. QED
      BY <1>1, <1>5, <1>6, <2>1, <2>2 DEF WindowIsExact, After
  <1>12. WriterHasItsSlot(c)'
    BY <1>2, <1>5, <1>7 DEF WriterHasItsSlot
  <1>13. ConsumerSees(c)'
    BY <1>1, <1>2, <1>4, <1>5 DEF RingInv, ConsumerSees, After
  <1>14. RemovedAddsUp(c)' /\ GotIsPrefix'
    BY <1>1, <1>2 DEF RingInv, RemovedAddsUp, GotIsPrefix
  <1>15. AcceptedAreCalls'
    <2>1. \A k \in DOMAIN accepted : accepted[k][1] \in Producers
      BY DEF TypeInv, TypeOK, Commands
    <2>2. QED
      BY <1>1, <1>2, <2>1 DEF RingInv, AcceptedAreCalls
  <1>16. OneProducerSteps'
    BY <1>2 DEF OneProducerSteps
  <1>17. QED
    BY <1>16, <1>10, <1>11, <1>12, <1>13, <1>14, <1>15 DEF RingInv

\* Publish and the steps after it.
LEMMA PublishRing ==
  ASSUME Producers \subseteq Atomic, TypeInv, NEW c \in Consumers, RingInv(c),
         NEW p \in Producers, MayStep(p), NEW to \in {"scan", "unblock", "idle"},
         pc[p] \in {"publish", "scan", "unblock"}, pc' = [pc EXCEPT ![p] = to],
         ready => ready', ready' => ready \/ pc[p] = "publish",
         UNCHANGED <<slots, first, last, claimed, index, more, accepted, removed, got,
                     adds>>
  PROVE  RingInv(c)'
  <1>1. to \in Labels /\ pc[p] # "write" /\ pc[p] # "claim" /\ pc[p] # "reserve"
    BY DEF Labels
  <1>2. /\ pc'[c] = pc[c] /\ pc'[p] = to
        /\ \A q \in Producers \ {p} : pc[q] = "idle" /\ pc'[q] = "idle"
        /\ \A at \in Labels \ {"idle"} :
              /\ (\E q \in Producers : pc[q] = at) <=> pc[p] = at
              /\ (\E q \in Producers : pc'[q] = at) <=> to = at
    BY <1>1, ProducerPlaces, ZenonT(60)
  <1>8. ready' => ready \/ Waits >= 1
    BY DEF RingInv, WriterHasItsSlot
  <1>3. /\ Base(c)' = Base(c) /\ Waits' = Waits /\ Written' = Written
        /\ WindowIsExact(c)' /\ ConsumerSees(c)' /\ OneProducerSteps'
        /\ RemovedAddsUp(c)' /\ GotIsPrefix'
    BY <1>1, <1>8, ProducerLeavesRing DEF RingLeft
  <1>4. ClaimsAddUp(c)'
    <2>1. /\ ~(\E q \in Producers : pc[q] = "reserve")
          /\ ~(\E q \in Producers : pc'[q] = "reserve")
          /\ ~(\E q \in Producers : pc'[q] = "claim")
      BY <1>1, <1>2 DEF Labels
    <2>2. QED
      BY <1>2, <1>3, <2>1 DEF RingInv, ClaimsAddUp
  <1>5. WriterHasItsSlot(c)'
    BY <1>2 DEF WriterHasItsSlot
  <1>6. AcceptedAreCalls'
    <2>1. \A k \in DOMAIN accepted : accepted[k][1] \in Producers
      BY DEF TypeInv, TypeOK, Commands
    <2>2. QED
      BY <1>2, <2>1 DEF RingInv, AcceptedAreCalls
  <1>7. QED
    BY <1>3, <1>4, <1>5, <1>6 DEF RingInv

\* A step of the consumer outside of the places between the advance of first and the
\* end of the call.
OutsideOf == {"recheck", "take", "release"}

LEMMA ConsumerLeavesRing ==
  ASSUME Producers \subseteq Atomic, TypeInv, NEW c \in Consumers, RingInv(c),
         MayStep(c), NEW to \in Labels, pc' = [pc EXCEPT ![c] = to],
         pc[c] \notin OutsideOf, to \notin OutsideOf, ConsumerSees(c)',
         UNCHANGED <<slots, first, last, claimed, accepted, adds, removed, got>>
  PROVE  RingInv(c)'
  <1>1. /\ pc'[c] = to
        /\ \A q \in Producers : pc[q] = "idle" /\ pc'[q] = "idle"
        /\ Written = Waits /\ Written' = Waits'
        /\ OneProducerSteps' /\ WriterHasItsSlot(c)' /\ AcceptedAreCalls'
    BY ConsumerPlaces
  <1>2. Base(c)' = Base(c) /\ Waits' = Waits
    BY <1>1 DEF Base, Waits, OutsideOf
  <1>3. ClaimsAddUp(c)'
    <2>1. claimed = Waits + 0 /\ claimed <= Capacity /\ pc'[c] # "release"
      BY <1>1, ConsumerPlaces DEF OutsideOf
    <2>2. ~(\E q \in Producers : pc'[q] = "reserve") /\ ~(\E q \in Producers : pc'[q] = "claim")
      BY <1>1
    <2>3. QED
      BY <1>1, <1>2, <2>1, <2>2, RingNumbers DEF ClaimsAddUp
  <1>4. WindowIsExact(c)'
    BY <1>1, <1>2 DEF RingInv, WindowIsExact, After
  <1>5. RemovedAddsUp(c)' /\ GotIsPrefix'
    BY <1>1 DEF RingInv, RemovedAddsUp, GotIsPrefix, OutsideOf
  <1>6. QED
    BY <1>1, <1>3, <1>4, <1>5 DEF RingInv

\* The steps that look at the ring before first is advanced, and those of
\* WaitForCommands.
LEMMA LookRing ==
  ASSUME Producers \subseteq Atomic, TypeInv, NEW c \in Consumers, RingInv(c),
         \/ GetNothing(c) \/ SeeReady(c) \/ LoadFirst(c) \/ LoadLast(c)
         \/ StoreReady(c) \/ Test(c) \/ FoundNothing(c) \/ Retry(c) \/ WaitForCommands(c)
  PROVE  RingInv(c)'
  <1> USE DEF Goto, ringVars, localVars, history, Labels, OutsideOf, ConsumerSees
  <1>0. /\ index \in [Threads -> Indices] /\ more \in [Consumers -> BOOLEAN]
        /\ c \in Threads /\ pc \in [Threads -> Labels]
    BY DEF TypeInv, TypeOK, Threads
  <1>1. CASE GetNothing(c)
    BY <1>1 DEF GetNothing, RingInv, OneProducerSteps, ClaimsAddUp, WindowIsExact,
                WriterHasItsSlot, RemovedAddsUp, GotIsPrefix, AcceptedAreCalls, vars,
                Base, Waits, Written, Writing, After, CommandOf
  <1>2. CASE SeeReady(c)
    BY <1>0, <1>2, ConsumerLeavesRing DEF SeeReady
  <1>3. CASE LoadFirst(c) \/ Retry(c)
    <2>1. index'[c] = first /\ first' = first /\ pc'[c] = "last"
      BY <1>0, <1>3 DEF LoadFirst, Retry
    <2>2. ConsumerSees(c)'
      BY <2>1
    <2>3. QED
      BY <1>3, <2>2, ConsumerLeavesRing DEF LoadFirst, Retry
  <1>4. CASE LoadLast(c)
    <2>1. /\ pc'[c] = "store" /\ more'[c] = (index[c] # last) /\ index[c] = first
          /\ UNCHANGED <<first, index, last, accepted, got>>
      BY <1>0, <1>4 DEF LoadLast, RingInv
    <2>2. index[c] # last => Waits >= 1
      <3>1. Base(c) = first /\ last = After(Base(c), Waits)
        BY <1>4 DEF LoadLast, Base, RingInv, WindowIsExact
      <3>2. QED
        BY <2>1, <3>1, RingNumbers DEF After, Indices
    <2>3. ConsumerSees(c)'
      BY <2>1, <2>2 DEF Waits
    <2>4. QED
      BY <1>4, <2>3, ConsumerLeavesRing DEF LoadLast
  <1>5. CASE StoreReady(c)
    <2>1. /\ pc' = [pc EXCEPT ![c] = "test"] /\ pc'[c] = "test" /\ ready' = more[c]
          /\ index[c] = first /\ (more[c] => Waits >= 1)
          /\ UNCHANGED <<first, index, more, accepted, got>>
      BY <1>0, <1>5 DEF StoreReady, RingInv
    <2>2. ConsumerSees(c)'
      BY <2>1 DEF Waits
    <2>3. QED
      BY <1>5, <2>1, <2>2, ConsumerLeavesRing DEF StoreReady
  <1>8. CASE Test(c)
    <2>1. PICK seen \in {more[c], ready} :
            pc' = [pc EXCEPT ![c] = IF seen THEN "advance" ELSE "reread"]
      BY <1>8 DEF Test
    <2>2. /\ pc[c] = "test" /\ MayStep(c) /\ index[c] = first
          /\ (seen => Waits >= 1 /\ ready)
          /\ UNCHANGED <<slots, first, last, claimed, ready, index, accepted, adds, removed,
                         got>>
      BY <1>8, <2>1 DEF Test, RingInv
    <2>3. CASE seen
      <3>1. pc' = [pc EXCEPT ![c] = "advance"] /\ pc'[c] = "advance"
        BY <1>0, <2>1, <2>3
      <3>2. ConsumerSees(c)'
        BY <2>2, <2>3, <3>1 DEF Waits
      <3>3. QED
        BY <2>2, <3>1, <3>2, ConsumerLeavesRing
    <2>4. CASE ~seen
      <3>1. pc' = [pc EXCEPT ![c] = "reread"] /\ pc'[c] = "reread"
        BY <1>0, <2>1, <2>4
      <3>2. ConsumerSees(c)'
        BY <3>1
      <3>3. QED
        BY <2>2, <3>1, <3>2, ConsumerLeavesRing
    <2>5. QED
      BY <2>3, <2>4
  <1>9. CASE FoundNothing(c)
    <2>1. pc' = [pc EXCEPT ![c] = "idle"] /\ pc'[c] = "idle"
      BY <1>0, <1>9 DEF FoundNothing
    <2>2. ConsumerSees(c)'
      BY <2>1
    <2>3. QED
      BY <1>9, <2>1, <2>2, ConsumerLeavesRing DEF FoundNothing
  <1>6. CASE WaitForCommands(c)
    <2>1. PICK to \in {"compare", "find", "idle", "register", "block", "asleep",
                       "deregister"} : pc' = [pc EXCEPT ![c] = to]
      BY <1>6
      DEF WaitForCommands, BeginWait, Compare, FindPlace, Register, Sleep, DoNotSleep,
          WakeUp, Deregister
    <2>2. /\ MayStep(c) /\ pc[c] \notin OutsideOf
          /\ UNCHANGED <<slots, first, last, claimed, accepted, adds, removed, got>>
      BY <1>6
      DEF WaitForCommands, BeginWait, Compare, FindPlace, Register, Sleep, DoNotSleep,
          WakeUp, Deregister
    <2>3. pc'[c] = to
      BY <1>0, <2>1
    <2>4. ConsumerSees(c)'
      BY <2>3
    <2>5. QED
      BY <2>1, <2>2, <2>4, ConsumerLeavesRing
  <1>7. QED
    BY <1>1, <1>2, <1>3, <1>4, <1>5, <1>6, <1>8, <1>9

LEMMA AdvanceRing ==
  ASSUME Producers \subseteq Atomic, TypeInv, NEW c \in Consumers, RingInv(c), Advance(c)
  PROVE  RingInv(c)'
  <1>1. /\ pc[c] = "advance" /\ pc' = [pc EXCEPT ![c] = "recheck"] /\ MayStep(c)
        /\ first = index[c] /\ first' = (index[c] + 1) % Capacity
        /\ removed' = removed + 1
        /\ UNCHANGED <<slots, last, claimed, ready, index, more, adds, accepted, got>>
    BY DEF Advance, Goto, localVars
  <1>2. /\ pc'[c] = "recheck"
        /\ \A q \in Producers : pc[q] = "idle" /\ pc'[q] = "idle"
        /\ Written = Waits /\ Written' = Waits'
        /\ OneProducerSteps' /\ WriterHasItsSlot(c)' /\ AcceptedAreCalls'
    <2>1. "recheck" \in Labels
      BY DEF Labels
    <2>2. QED
      BY <1>1, <2>1, ConsumerPlaces
  <1>3. Base(c)' = Base(c) /\ Waits' = Waits
    BY <1>1, <1>2 DEF Base, Waits
  <1>4. ClaimsAddUp(c)'
    <2>1. claimed = Waits + 0 /\ claimed <= Capacity
      BY <1>1, ConsumerPlaces DEF Labels
    <2>2. ~(\E q \in Producers : pc'[q] = "reserve") /\ ~(\E q \in Producers : pc'[q] = "claim")
      BY <1>2
    <2>3. QED
      BY <1>1, <1>2, <1>3, <2>1, <2>2, RingNumbers DEF ClaimsAddUp
  <1>5. WindowIsExact(c)'
    BY <1>1, <1>2, <1>3 DEF RingInv, WindowIsExact, After
  <1>6. ConsumerSees(c)'
    <2>1. Waits >= 1 /\ ready
      BY <1>1 DEF RingInv, ConsumerSees
    <2>2. first' = After(index[c], 1)
      BY <1>1, RingNumbers, AfterInRange
    <2>3. QED
      BY <1>1, <1>2, <1>3, <2>1, <2>2 DEF ConsumerSees, After
  <1>7. RemovedAddsUp(c)' /\ GotIsPrefix'
    BY <1>1, <1>2, RingNumbers DEF RingInv, RemovedAddsUp, GotIsPrefix
  <1>8. QED
    BY <1>2, <1>4, <1>5, <1>6, <1>7 DEF RingInv

\* The flag was not cleared since it was stored: the call takes its command.
LEMMA RecheckRing ==
  ASSUME Producers \subseteq Atomic, TypeInv, NEW c \in Consumers, RingInv(c), Recheck(c)
  PROVE  RingInv(c)'
  <1>1. /\ pc[c] = "recheck" /\ MayStep(c) /\ ready
        /\ pc' = [pc EXCEPT ![c] = "take"] /\ index' = [index EXCEPT ![c] = @]
        /\ UNCHANGED <<slots, first, last, claimed, ready, more, adds, accepted, removed,
                       got>>
    BY DEF Recheck, Goto, ringVars, history, RingInv, ConsumerSees
  <1>2. /\ pc'[c] = "take"
        /\ \A q \in Producers : pc[q] = "idle" /\ pc'[q] = "idle"
        /\ Written = Waits /\ Written' = Waits'
        /\ OneProducerSteps' /\ WriterHasItsSlot(c)' /\ AcceptedAreCalls'
    <2>1. "take" \in Labels
      BY DEF Labels
    <2>2. QED
      BY <1>1, <2>1, ConsumerPlaces
  <1>3. index'[c] = index[c]
    BY <1>1 DEF TypeInv, TypeOK, Threads
  <1>4. Base(c)' = Base(c) /\ Waits' = Waits
    BY <1>1, <1>2, <1>3 DEF Base, Waits
  <1>5. ClaimsAddUp(c)'
    <2>1. claimed = Waits + 0 /\ claimed <= Capacity
      BY <1>1, ConsumerPlaces DEF Labels
    <2>2. ~(\E q \in Producers : pc'[q] = "reserve") /\ ~(\E q \in Producers : pc'[q] = "claim")
      BY <1>2
    <2>3. QED
      BY <1>1, <1>2, <1>4, <2>1, <2>2, RingNumbers DEF ClaimsAddUp
  <1>6. WindowIsExact(c)'
    BY <1>1, <1>2, <1>4 DEF RingInv, WindowIsExact, After
  <1>7. ConsumerSees(c)'
    BY <1>1, <1>2, <1>3, <1>4 DEF RingInv, ConsumerSees, After
  <1>8. RemovedAddsUp(c)' /\ GotIsPrefix'
    BY <1>1, <1>2 DEF RingInv, RemovedAddsUp, GotIsPrefix
  <1>9. QED
    BY <1>2, <1>5, <1>6, <1>7, <1>8 DEF RingInv

\* The command that is taken is the oldest outstanding one.
LEMMA ConsumerFindsOldest ==
  ASSUME Producers \subseteq Atomic, TypeInv, NEW c \in Consumers, RingInv(c), Take(c)
  PROVE  /\ Waits >= 1 /\ slots[index[c]] = accepted[Len(got) + 1]
         /\ Len(got) + 1 \in DOMAIN accepted
  <1>1. pc[c] = "take" /\ MayStep(c)
    BY DEF Take, Goto
  <1>2. /\ Waits >= 1 /\ Base(c) = index[c] /\ index[c] \in Indices
        /\ Capacity \in Nat \ {0} /\ Waits \in Nat /\ Len(got) \in Nat
        /\ Len(accepted) \in Nat
    BY <1>1, RingNumbers DEF RingInv, ConsumerSees, Base
  <1>3. Written = Waits
    BY <1>1, ProducersAlone, CommandAssumption DEF Written, Writing, Threads
  <1>4. After(Base(c), 1 - 1) = index[c]
    BY <1>2 DEF After, Indices
  <1>5. 1 \in 1 .. Written
    BY <1>2, <1>3
  <1>6. slots[index[c]] = accepted[Len(got) + 1]
    BY <1>4, <1>5 DEF RingInv, WindowIsExact
  <1>7. Len(got) + 1 \in DOMAIN accepted
    BY <1>2 DEF Waits, TypeInv, TypeOK
  <1>8. QED
    BY <1>2, <1>6, <1>7

LEMMA TakeRing ==
  ASSUME Producers \subseteq Atomic, TypeInv, NEW c \in Consumers, RingInv(c), Take(c)
  PROVE  RingInv(c)'
  <1>1. /\ pc[c] = "take" /\ pc' = [pc EXCEPT ![c] = "release"] /\ MayStep(c)
        /\ got' = Append(got, slots[index[c]])
        /\ UNCHANGED <<slots, first, last, claimed, ready, more, adds, accepted, removed>>
    BY DEF Take, Goto, ringVars
  <1>2. /\ pc'[c] = "release"
        /\ \A q \in Producers : pc[q] = "idle" /\ pc'[q] = "idle"
        /\ Written = Waits /\ Written' = Waits'
        /\ OneProducerSteps' /\ WriterHasItsSlot(c)' /\ AcceptedAreCalls'
    <2>1. "release" \in Labels
      BY DEF Labels
    <2>2. QED
      BY <1>1, <2>1, ConsumerPlaces
  <1>3. /\ Waits >= 1 /\ slots[index[c]] = accepted[Len(got) + 1]
        /\ Len(got) + 1 \in DOMAIN accepted
    BY ConsumerFindsOldest
  <1>4. accepted[Len(got) + 1] \in Commands \cup {None} /\ got \in Seq(Commands \cup {None})
    BY <1>3 DEF TypeInv, TypeOK
  <1>5. /\ Len(got') = Len(got) + 1
        /\ \A k \in 1 .. Len(got) : got'[k] = got[k]
        /\ got'[Len(got) + 1] = accepted[Len(got) + 1]
        /\ DOMAIN got = 1 .. Len(got) /\ DOMAIN got' = 1 .. Len(got) + 1
    BY <1>1, <1>3, <1>4
  <1>6. /\ Len(got) \in Nat /\ Len(accepted) \in Nat /\ Capacity \in Nat \ {0}
        /\ Waits \in 0 .. Capacity /\ first \in Indices /\ index[c] \in Indices
        /\ Waits = Len(accepted) - Len(got)
    BY RingNumbers DEF Waits
  <1>7. Waits' = Waits - 1
    BY <1>1, <1>5, <1>6 DEF Waits
  <1>8. /\ Base(c) = index[c] /\ Base(c)' = first /\ first = After(index[c], 1)
    BY <1>1, <1>2 DEF Base, RingInv, ConsumerSees
  <1>9. ClaimsAddUp(c)'
    <2>1. claimed = Waits + 0 /\ claimed <= Capacity
      BY <1>1, ConsumerPlaces DEF Labels
    <2>2. ~(\E q \in Producers : pc'[q] = "reserve") /\ ~(\E q \in Producers : pc'[q] = "claim")
      BY <1>2
    <2>3. claimed' = Waits' + 0 + 1
      BY <1>1, <1>6, <1>7, <2>1
    <2>4. QED
      BY <1>1, <1>2, <2>1, <2>2, <2>3 DEF ClaimsAddUp
  <1>10. WindowIsExact(c)'
    <2>1. Len(got') <= Len(accepted')
      BY <1>1, <1>3, <1>5, <1>6
    <2>2. \A k \in 0 .. Waits - 1 : After(first, k) = After(index[c], k + 1)
      <3>1. ASSUME NEW k \in 0 .. Waits - 1
            PROVE  After(After(index[c], 1), k) = After(index[c], 1 + k)
        BY <1>3, <1>6, AfterAfter, SMTT(30)
      <3>2. QED
        BY <1>6, <1>8, <3>1
    <2>3. last = After(first, Waits - 1)
      <3>1. last = After(index[c], Waits) /\ Waits - 1 \in 0 .. Waits - 1
            /\ (Waits - 1) + 1 = Waits
        BY <1>3, <1>6, <1>8 DEF RingInv, WindowIsExact
      <3>2. QED
        BY <2>2, <3>1
    <2>4. ASSUME NEW k \in 1 .. Waits - 1
          PROVE  slots[After(first, k - 1)] = accepted[Len(got) + 1 + k]
      <3>1. k - 1 \in 0 .. Waits - 1 /\ k + 1 \in 1 .. Written /\ (k - 1) + 1 = (k + 1) - 1
            /\ Len(got) + (k + 1) = Len(got) + 1 + k
        BY <1>2, <1>6, SMTT(30)
      <3>2. slots[After(Base(c), (k + 1) - 1)] = accepted[Len(got) + (k + 1)]
        BY <3>1 DEF RingInv, WindowIsExact
      <3>3. QED
        BY <1>8, <2>2, <3>1, <3>2
    <2>5. Written' = Waits - 1 /\ Len(got') = Len(got) + 1 /\ Base(c)' = first
      BY <1>2, <1>5, <1>7, <1>8
    <2>6. QED
      BY <1>1, <1>7, <2>1, <2>3, <2>4, <2>5 DEF WindowIsExact, After
  <1>11. ConsumerSees(c)'
    BY <1>2 DEF ConsumerSees
  <1>12. RemovedAddsUp(c)'
    <2>1. removed = Len(got) + 1
      BY <1>1 DEF RingInv, RemovedAddsUp
    <2>2. QED
      BY <1>1, <1>2, <1>5, <1>6, <2>1 DEF RemovedAddsUp
  <1>13. GotIsPrefix'
    BY <1>1, <1>5, <1>6 DEF RingInv, GotIsPrefix
  <1>14. QED
    BY <1>2, <1>9, <1>10, <1>11, <1>12, <1>13 DEF RingInv

LEMMA ReleaseRing ==
  ASSUME Producers \subseteq Atomic, TypeInv, NEW c \in Consumers, RingInv(c), Release(c)
  PROVE  RingInv(c)'
  <1>1. /\ pc[c] = "release" /\ pc' = [pc EXCEPT ![c] = "idle"] /\ MayStep(c)
        /\ claimed' = (claimed - 1) % CountRange
        /\ UNCHANGED <<slots, first, last, ready, index, more, adds, accepted, removed, got>>
    BY DEF Release, Goto, localVars, history
  <1>2. /\ pc'[c] = "idle"
        /\ \A q \in Producers : pc[q] = "idle" /\ pc'[q] = "idle"
        /\ Written = Waits /\ Written' = Waits'
        /\ OneProducerSteps' /\ WriterHasItsSlot(c)' /\ AcceptedAreCalls'
    <2>1. "idle" \in Labels
      BY DEF Labels
    <2>2. QED
      BY <1>1, <2>1, ConsumerPlaces
  <1>3. Base(c)' = Base(c) /\ Waits' = Waits
    BY <1>1, <1>2 DEF Base, Waits
  <1>4. ClaimsAddUp(c)'
    <2>1. claimed = Waits + 1 /\ claimed <= Capacity
      BY <1>1, ConsumerPlaces DEF Labels
    <2>2. ~(\E q \in Producers : pc'[q] = "reserve") /\ ~(\E q \in Producers : pc'[q] = "claim")
      BY <1>2
    <2>3. claimed - 1 \in 0 .. CountRange - 1 /\ CountRange \in Nat \ {0}
          /\ claimed - 1 = Waits /\ Waits <= Capacity /\ Waits \in Nat
      BY <2>1, RingNumbers
    <2>4. claimed' = Waits
      BY <1>1, <2>3, SmallRemainder
    <2>5. QED
      BY <1>2, <1>3, <2>2, <2>3, <2>4 DEF ClaimsAddUp
  <1>5. WindowIsExact(c)'
    BY <1>1, <1>2, <1>3 DEF RingInv, WindowIsExact, After
  <1>6. ConsumerSees(c)'
    BY <1>2 DEF ConsumerSees
  <1>7. RemovedAddsUp(c)' /\ GotIsPrefix'
    BY <1>1, <1>2 DEF RingInv, RemovedAddsUp, GotIsPrefix
  <1>8. QED
    BY <1>2, <1>4, <1>5, <1>6, <1>7 DEF RingInv

LEMMA InitRing == ASSUME NEW c \in Consumers, Init PROVE RingInv(c)
  <1>1. /\ \A p \in Producers : pc[p] = "idle"
        /\ pc[c] = "idle" /\ first = 0 /\ last = 0 /\ claimed = 0
        /\ accepted = <<>> /\ got = <<>> /\ removed = 0 /\ Capacity \in Nat \ {0}
    BY CommandAssumption DEF Init, Threads
  <1>2. Waits = 0 /\ Written = 0 /\ Base(c) = 0
    BY <1>1 DEF Waits, Written, Writing, Base
  <1>3. OneProducerSteps /\ WriterHasItsSlot(c) /\ ConsumerSees(c)
    BY <1>1 DEF OneProducerSteps, WriterHasItsSlot, ConsumerSees
  <1>4. ClaimsAddUp(c)
    <2>1. ~(\E p \in Producers : pc[p] = "reserve") /\ ~(\E p \in Producers : pc[p] = "claim")
      BY <1>1
    <2>2. QED
      BY <1>1, <1>2, <2>1 DEF ClaimsAddUp
  <1>5. WindowIsExact(c)
    BY <1>1, <1>2 DEF WindowIsExact, After
  <1>6. RemovedAddsUp(c) /\ GotIsPrefix /\ AcceptedAreCalls
    BY <1>1 DEF RemovedAddsUp, GotIsPrefix, AcceptedAreCalls
  <1>7. QED
    BY <1>3, <1>4, <1>5, <1>6 DEF RingInv

LEMMA NextRing ==
  ASSUME Producers \subseteq Atomic, NEW c \in Consumers, Consumers = {c},
         TypeInv, RingInv(c), [Next]_vars, again' = 0
  PROVE  RingInv(c)'
  <1>1. ASSUME NEW p \in Producers, AddToQueue(p)
        PROVE  RingInv(c)'
    <2>1. CASE PassGuard(p) \/ Refuse(p)
      BY <2>1, BeginAddRing
    <2>2. CASE Claim(p)
      BY <2>2, ClaimRing
    <2>3. CASE Reserve(p)
      BY <2>3, ReserveRing
    <2>4. CASE Write(p)
      BY <2>4, WriteRing
    <2>5. CASE Publish(p) \/ ScanNobody(p) \/ ScanSomebody(p) \/ UnblockWaiting(p)
      <3>1. PICK to \in {"scan", "unblock", "idle"} : pc' = [pc EXCEPT ![p] = to]
        BY <2>5 DEF Publish, ScanNobody, ScanSomebody, UnblockWaiting, NextPlace, Goto
      <3>2. /\ MayStep(p) /\ pc[p] \in {"publish", "scan", "unblock"} /\ (ready => ready')
            /\ (ready' => ready \/ pc[p] = "publish")
            /\ UNCHANGED <<slots, first, last, claimed, index, more, accepted, removed,
                           got, adds>>
        BY <2>5
        DEF Publish, ScanNobody, ScanSomebody, UnblockWaiting, NextPlace, Goto, ringVars,
            localVars, history
      <3>3. QED
        BY <3>1, <3>2, PublishRing
    <2>6. QED
      BY <1>1, <2>1, <2>2, <2>3, <2>4, <2>5 DEF AddToQueue
  <1>2. CASE GetNextInQueue(c) \/ WaitForCommands(c)
    <2>1. ~FoundLate(c)
      BY DEF FoundLate, TypeInv, TypeOK
    <2>2. QED
      BY <1>2, <2>1, LookRing, AdvanceRing, RecheckRing, TakeRing, ReleaseRing
      DEF GetNextInQueue
  <1>3. CASE UNCHANGED vars
    BY <1>3
    DEF vars, ringVars, localVars, history, RingInv, OneProducerSteps, ClaimsAddUp,
        WindowIsExact, WriterHasItsSlot, ConsumerSees, RemovedAddsUp, GotIsPrefix,
        AcceptedAreCalls, Base, Waits, Written, Writing, After, CommandOf
  <1>4. QED
    BY <1>1, <1>2, <1>3 DEF Next

\* What counts the calls: the steps of the producers one after the other, the claims
\* modulo their width, the removals, and that the flag stays set from the test of the
\* loop on.
Returns(c) == IF pc[c] \in {"recheck", "take"} THEN 1 ELSE 0
Reserves   == IF \E p \in Producers : pc[p] = "reserve" THEN 1 ELSE 0
Releases(c) == IF pc[c] = "release" THEN 1 ELSE 0

CountInv(c) ==
  /\ OneProducerSteps /\ pc[c] # "reserve"
  /\ claimed = (Len(accepted) - Len(got) + Reserves + Releases(c)) % CountRange
  /\ removed + again = Len(got) + Returns(c)
  /\ pc[c] \in {"advance", "recheck"} => ready
  /\ pc[c] = "test" /\ more[c] => ready

\* The remainder is what is left of some multiple of b ...
LEMMA RemainderIs ==
  ASSUME NEW b \in Nat \ {0}, NEW y \in Int, NEW q \in Int, NEW r \in 0 .. b - 1,
         y = b * q + r
  PROVE  y % b = r
  OBVIOUS

\* ... and moves with the number.
LEMMA RemainderSteps ==
  ASSUME NEW b \in Nat \ {0}, NEW x \in Int
  PROVE  /\ ((x % b) + 1) % b = (x + 1) % b
         /\ ((x % b) - 1) % b = (x - 1) % b
  <1> DEFINE q == x \div b
             r == x % b
  <1>1. q \in Int /\ r \in 0 .. b - 1 /\ x = b * q + r
    OBVIOUS
  <1> HIDE DEF q, r
  <1>2. (r + 1) % b = (x + 1) % b
    <2>1. CASE r + 1 \in 0 .. b - 1
      <3>1. x + 1 = b * q + (r + 1) /\ r + 1 = b * 0 + (r + 1) /\ x + 1 \in Int
        BY <1>1
      <3>2. QED
        BY <1>1, <2>1, <3>1, RemainderIs
    <2>2. CASE r + 1 = b
      <3>1. x + 1 = b * (q + 1) + 0 /\ r + 1 = b * 1 + 0 /\ x + 1 \in Int /\ q + 1 \in Int
            /\ 0 \in 0 .. b - 1 /\ r + 1 \in Int
        BY <1>1, <2>2
      <3>2. QED
        BY <3>1, RemainderIs
    <2>3. QED
      BY <1>1, <2>1, <2>2
  <1>3. (r - 1) % b = (x - 1) % b
    <2>1. CASE r - 1 \in 0 .. b - 1
      <3>1. x - 1 = b * q + (r - 1) /\ r - 1 = b * 0 + (r - 1) /\ x - 1 \in Int
        BY <1>1
      <3>2. QED
        BY <1>1, <2>1, <3>1, RemainderIs
    <2>2. CASE r = 0
      <3>1. x - 1 = b * (q - 1) + (b - 1) /\ r - 1 = b * (0 - 1) + (b - 1) /\ x - 1 \in Int
            /\ q - 1 \in Int /\ b - 1 \in 0 .. b - 1 /\ r - 1 \in Int /\ 0 - 1 \in Int
        BY <1>1, <2>2
      <3>2. QED
        BY <3>1, RemainderIs
    <2>3. QED
      BY <1>1, <2>1, <2>2
  <1>4. QED
    BY <1>2, <1>3 DEF r

LEMMA InitCount == ASSUME NEW c \in Consumers, Init PROVE CountInv(c)
  <1>1. /\ \A p \in Producers : pc[p] = "idle"
        /\ pc[c] = "idle" /\ claimed = 0 /\ removed = 0 /\ again = 0
        /\ Len(accepted) = 0 /\ Len(got) = 0 /\ CountRange \in Nat \ {0}
    BY CommandAssumption DEF Init, Threads
  <1>2. Reserves = 0 /\ Releases(c) = 0 /\ Returns(c) = 0
    BY <1>1 DEF Reserves, Releases, Returns
  <1>3. 0 \in 0 .. CountRange - 1
    BY <1>1
  <1>4. 0 % CountRange = 0
    BY <1>1, <1>3, SmallRemainder
  <1>5. Len(accepted) - Len(got) + Reserves + Releases(c) = 0
    BY <1>1, <1>2
  <1>6. QED
    BY <1>1, <1>2, <1>4, <1>5 DEF CountInv, OneProducerSteps

LEMMA CountNumbers ==
  ASSUME TypeInv, NEW c \in Consumers
  PROVE  /\ CountRange \in Nat \ {0} /\ claimed \in Nat /\ removed \in Nat /\ again \in Nat
         /\ Len(accepted) \in Nat /\ Len(got) \in Nat
         /\ Reserves \in {0, 1} /\ Releases(c) \in {0, 1} /\ Returns(c) \in {0, 1}
         /\ accepted \in Seq(Commands) /\ got \in Seq(Commands \cup {None})
         /\ c \in Threads /\ c \notin Producers /\ pc \in [Threads -> Labels]
         /\ more \in [Consumers -> BOOLEAN] /\ Producers \subseteq Threads
  BY CommandAssumption DEF TypeInv, TypeOK, Reserves, Releases, Returns, Threads

\* A step that counts nothing.
LEMMA NothingCounted ==
  ASSUME TypeInv, NEW c \in Consumers, CountInv(c),
         OneProducerSteps', pc'[c] # "reserve",
         Reserves' = Reserves, Releases(c)' = Releases(c), Returns(c)' = Returns(c),
         UNCHANGED <<claimed, removed, again, accepted, got>>,
         pc'[c] \in {"advance", "recheck"} => ready',
         pc'[c] = "test" /\ more'[c] => ready'
  PROVE  CountInv(c)'
  BY DEF CountInv

LEMMA AddCounts ==
  ASSUME Producers \subseteq Atomic, TypeInv, NEW c \in Consumers, CountInv(c),
         NEW p \in Producers, AddToQueue(p)
  PROVE  CountInv(c)'
  <1>1. /\ CountRange \in Nat \ {0} /\ claimed \in Nat /\ Len(accepted) \in Nat
        /\ Len(got) \in Nat /\ Reserves \in {0, 1} /\ Releases(c) \in {0, 1}
        /\ accepted \in Seq(Commands) /\ pc \in [Threads -> Labels]
    BY CountNumbers
  <1>2. ASSUME NEW to \in Labels, MayStep(p), pc' = [pc EXCEPT ![p] = to],
               ready => ready', UNCHANGED more
        PROVE  /\ OneProducerSteps' /\ pc'[c] # "reserve"
               /\ Releases(c)' = Releases(c) /\ Returns(c)' = Returns(c)
               /\ Reserves = (IF pc[p] = "reserve" THEN 1 ELSE 0)
               /\ Reserves' = (IF to = "reserve" THEN 1 ELSE 0)
               /\ pc'[c] \in {"advance", "recheck"} => ready'
               /\ pc'[c] = "test" /\ more'[c] => ready'
    <2>1. /\ pc'[c] = pc[c] /\ pc'[p] = to /\ p # c
          /\ \A q \in Producers \ {p} : pc[q] = "idle" /\ pc'[q] = "idle"
      <3>1. p # c /\ c \in Threads /\ p \in Threads /\ Producers \subseteq Threads
        BY CountNumbers
      <3>2. \A q \in Producers \ {p} : pc[q] = "idle"
        BY <1>2, <3>1, ProducersAlone
      <3>3. QED
        BY <1>1, <1>2, <3>1, <3>2
    <2>2. OneProducerSteps' /\ pc'[c] # "reserve"
      BY <2>1 DEF CountInv, OneProducerSteps
    <2>3. Releases(c)' = Releases(c) /\ Returns(c)' = Returns(c)
      BY <2>1 DEF Releases, Returns
    <2>4. /\ Reserves = (IF pc[p] = "reserve" THEN 1 ELSE 0)
          /\ Reserves' = (IF to = "reserve" THEN 1 ELSE 0)
      BY <2>1 DEF Reserves
    <2>5. /\ pc'[c] \in {"advance", "recheck"} => ready'
          /\ pc'[c] = "test" /\ more'[c] => ready'
      BY <1>2, <2>1 DEF CountInv
    <2>6. QED
      BY <2>2, <2>3, <2>4, <2>5
  <1>3. CASE Claim(p)
    <2>1. /\ pc[p] = "claim" /\ pc' = [pc EXCEPT ![p] = "reserve"] /\ MayStep(p)
          /\ claimed' = (claimed + 1) % CountRange /\ "reserve" \in Labels
          /\ UNCHANGED <<ready, more, removed, again, accepted, got>>
      BY <1>3 DEF Claim, Goto, localVars, history, Labels
    <2>2. Reserves = 0 /\ Reserves' = 1
      BY <1>2, <2>1
    <2>3. claimed' = (Len(accepted) - Len(got) + Reserves' + Releases(c)) % CountRange
      <3> DEFINE x == Len(accepted) - Len(got) + Reserves + Releases(c)
      <3>1. x \in Int /\ x + 1 = Len(accepted) - Len(got) + Reserves' + Releases(c)
        BY <1>1, <2>2
      <3>2. claimed = x % CountRange
        BY DEF CountInv
      <3> HIDE DEF x
      <3>3. QED
        BY <1>1, <2>1, <3>1, <3>2, RemainderSteps
    <2>4. QED
      BY <1>2, <2>1, <2>3 DEF CountInv
  <1>4. CASE Reserve(p)
    <2>1. /\ pc[p] = "reserve" /\ pc' = [pc EXCEPT ![p] = "write"] /\ MayStep(p)
          /\ accepted' = Append(accepted, CommandOf(p)) /\ "write" \in Labels
          /\ UNCHANGED <<claimed, ready, more, removed, again, got>>
      BY <1>4 DEF Reserve, Goto, Labels
    <2>2. Reserves = 1 /\ Reserves' = 0
      BY <1>2, <2>1
    <2>3. Len(accepted') = Len(accepted) + 1
      BY <1>1, <2>1
    <2>4. Len(accepted) - Len(got) + Reserves + Releases(c)
            = Len(accepted') - Len(got) + Reserves' + Releases(c)
      BY <1>1, <2>2, <2>3
    <2>5. QED
      BY <1>2, <2>1, <2>4 DEF CountInv
  <1>5. CASE ~Claim(p) /\ ~Reserve(p)
    <2>1. PICK to \in Labels \ {"reserve"} : pc' = [pc EXCEPT ![p] = to]
      BY <1>5
      DEF AddToQueue, PassGuard, Refuse, BeginAdd, Write, Publish, ScanNobody, ScanSomebody,
          UnblockWaiting, NextPlace, Goto, Labels
    <2>2. /\ MayStep(p) /\ pc[p] # "reserve" /\ (ready => ready')
          /\ UNCHANGED <<claimed, more, removed, again, accepted, got>>
      BY <1>5
      DEF AddToQueue, PassGuard, Refuse, BeginAdd, Write, Publish, ScanNobody, ScanSomebody,
          UnblockWaiting, NextPlace, Goto, ringVars, localVars, history
    <2>3. Reserves' = Reserves
      BY <1>2, <2>1, <2>2
    <2>4. QED
      BY <1>2, <2>1, <2>2, <2>3, NothingCounted
  <1>6. QED
    BY <1>3, <1>4, <1>5

LEMMA GetCounts ==
  ASSUME Producers \subseteq Atomic, TypeInv, NEW c \in Consumers, CountInv(c),
         GetNextInQueue(c) \/ WaitForCommands(c)
  PROVE  CountInv(c)'
  <1>1. /\ CountRange \in Nat \ {0} /\ claimed \in Nat /\ Len(accepted) \in Nat
        /\ Len(got) \in Nat /\ Reserves \in {0, 1} /\ Releases(c) \in {0, 1}
        /\ got \in Seq(Commands \cup {None}) /\ pc \in [Threads -> Labels]
        /\ removed \in Nat /\ again \in Nat /\ more \in [Consumers -> BOOLEAN]
        /\ c \in Threads /\ c \notin Producers /\ Producers \subseteq Threads
    BY CountNumbers
  <1>2. ASSUME NEW to \in Labels \ {"reserve"}, pc' = [pc EXCEPT ![c] = to]
        PROVE  /\ OneProducerSteps' /\ Reserves' = Reserves /\ pc'[c] = to
               /\ Releases(c)' = (IF to = "release" THEN 1 ELSE 0)
               /\ Returns(c)' = (IF to \in {"recheck", "take"} THEN 1 ELSE 0)
    <2>1. pc'[c] = to /\ \A p \in Producers : pc'[p] = pc[p]
      BY <1>1, <1>2
    <2>2. QED
      BY <2>1 DEF CountInv, OneProducerSteps, Reserves, Releases, Returns
  <1>3. CASE GetNothing(c)
    BY <1>3
    DEF GetNothing, vars, ringVars, localVars, history, CountInv, OneProducerSteps, Reserves,
        Releases, Returns
  <1>4. CASE SeeReady(c) \/ LoadFirst(c) \/ LoadLast(c) \/ StoreReady(c) \/ Retry(c)
             \/ FoundNothing(c) \/ WaitForCommands(c)
    <2>1. PICK to \in Labels \ {"reserve", "advance", "recheck", "take", "release"} :
            pc' = [pc EXCEPT ![c] = to] /\ (to = "test" => ready' = more'[c])
      BY <1>4
      DEF SeeReady, LoadFirst, LoadLast, StoreReady, Retry, FoundNothing, WaitForCommands,
          BeginWait, Compare, FindPlace, Register, Sleep, DoNotSleep, WakeUp, Deregister,
          Goto, Labels, localVars
    <2>2. /\ pc[c] \notin {"recheck", "take", "release"}
          /\ UNCHANGED <<claimed, removed, again, accepted, got>>
      BY <1>4
      DEF SeeReady, LoadFirst, LoadLast, StoreReady, Retry, FoundNothing, WaitForCommands,
          BeginWait, Compare, FindPlace, Register, Sleep, DoNotSleep, WakeUp, Deregister,
          Goto, ringVars, history
    <2>3. Releases(c) = 0 /\ Returns(c) = 0
      BY <2>2 DEF Releases, Returns
    <2>4. QED
      BY <1>2, <2>1, <2>2, <2>3, NothingCounted
  <1>5. CASE Test(c)
    <2>1. PICK seen \in {more[c], ready} :
            /\ pc[c] = "test" /\ pc' = [pc EXCEPT ![c] = IF seen THEN "advance" ELSE "reread"]
            /\ UNCHANGED <<claimed, ready, removed, again, accepted, got>>
      BY <1>5 DEF Test, Goto, ringVars, history
    <2>2. seen => ready
      BY <2>1 DEF CountInv
    <2>3. PICK to \in {"advance", "reread"} :
            pc' = [pc EXCEPT ![c] = to] /\ (to = "advance" => ready)
      BY <2>1, <2>2
    <2>4. Releases(c) = 0 /\ Returns(c) = 0 /\ to \in Labels \ {"reserve"}
      BY <2>1, <2>3 DEF Releases, Returns, Labels
    <2>5. QED
      BY <1>2, <2>1, <2>3, <2>4, NothingCounted
  <1>6. CASE Advance(c)
    <2>1. /\ pc[c] = "advance" /\ pc' = [pc EXCEPT ![c] = "recheck"] /\ removed' = removed + 1
          /\ UNCHANGED <<claimed, ready, again, accepted, got>>
          /\ "recheck" \in Labels \ {"reserve"}
      BY <1>6 DEF Advance, Goto, Labels
    <2>2. Releases(c) = 0 /\ Returns(c) = 0 /\ ready /\ removed + again = Len(got) + 0
      BY <2>1 DEF CountInv, Releases, Returns
    <2>3. removed' + again' = Len(got') + 1
      BY <1>1, <2>1, <2>2
    <2>4. QED
      BY <1>2, <2>1, <2>2, <2>3 DEF CountInv
  <1>7. CASE Recheck(c)
    <2>1. /\ pc[c] = "recheck" /\ pc' = [pc EXCEPT ![c] = "take"]
          /\ UNCHANGED <<claimed, removed, again, accepted, got>>
          /\ "take" \in Labels \ {"reserve"}
      BY <1>7 DEF Recheck, Goto, ringVars, history, Labels, CountInv
    <2>2. Releases(c) = 0 /\ Returns(c) = 1
      BY <2>1 DEF Releases, Returns
    <2>3. QED
      BY <1>2, <2>1, <2>2, NothingCounted
  <1>8. CASE FoundLate(c)
    <2>1. /\ pc[c] = "reread" /\ pc' = [pc EXCEPT ![c] = "take"] /\ again' = again + 1
          /\ UNCHANGED <<claimed, ready, removed, accepted, got>>
          /\ "take" \in Labels \ {"reserve"}
      BY <1>8 DEF FoundLate, Goto, ringVars, Labels
    <2>2. Releases(c) = 0 /\ Returns(c) = 0 /\ removed + again = Len(got) + 0
      BY <2>1 DEF CountInv, Releases, Returns
    <2>3. removed' + again' = Len(got') + 1
      BY <1>1, <2>1, <2>2
    <2>4. QED
      BY <1>2, <2>1, <2>2, <2>3 DEF CountInv
  <1>9. CASE Take(c)
    <2>1. /\ pc[c] = "take" /\ pc' = [pc EXCEPT ![c] = "release"]
          /\ got' = Append(got, slots[index[c]])
          /\ UNCHANGED <<claimed, ready, removed, again, accepted>>
          /\ "release" \in Labels \ {"reserve"}
      BY <1>9 DEF Take, Goto, ringVars, Labels
    <2>2. Releases(c) = 0 /\ Returns(c) = 1 /\ removed + again = Len(got) + 1
          /\ claimed = (Len(accepted) - Len(got) + Reserves + Releases(c)) % CountRange
      BY <2>1 DEF CountInv, Releases, Returns
    <2>3. Len(got') = Len(got) + 1
      BY <1>1, <2>1
    <2>4. /\ removed' + again' = Len(got') + 0
          /\ Len(accepted') - Len(got') + Reserves + 1
                = Len(accepted) - Len(got) + Reserves + Releases(c)
      BY <1>1, <2>1, <2>2, <2>3
    <2>5. QED
      BY <1>2, <2>1, <2>2, <2>4 DEF CountInv
  <1>10. CASE Release(c)
    <2>1. /\ pc[c] = "release" /\ pc' = [pc EXCEPT ![c] = "idle"]
          /\ claimed' = (claimed - 1) % CountRange /\ "idle" \in Labels \ {"reserve"}
          /\ UNCHANGED <<ready, removed, again, accepted, got>>
      BY <1>10 DEF Release, Goto, history, Labels
    <2>2. Releases(c) = 1 /\ Returns(c) = 0 /\ removed + again = Len(got) + 0
      BY <2>1 DEF CountInv, Releases, Returns
    <2>3. claimed' = (Len(accepted) - Len(got) + Reserves + 0) % CountRange
      <3> DEFINE x == Len(accepted) - Len(got) + Reserves + Releases(c)
      <3>1. x \in Int /\ x - 1 = Len(accepted) - Len(got) + Reserves + 0
        BY <1>1, <2>2
      <3>2. claimed = x % CountRange
        BY DEF CountInv
      <3> HIDE DEF x
      <3>3. QED
        BY <1>1, <2>1, <3>1, <3>2, RemainderSteps
    <2>4. QED
      BY <1>2, <2>1, <2>2, <2>3 DEF CountInv
  <1>11. QED
    BY <1>3, <1>4, <1>5, <1>6, <1>7, <1>8, <1>9, <1>10 DEF GetNextInQueue

LEMMA NextCount ==
  ASSUME Producers \subseteq Atomic, NEW c \in Consumers, Consumers = {c},
         TypeInv, CountInv(c), [Next]_vars
  PROVE  CountInv(c)'
  <1>1. CASE UNCHANGED vars
    BY <1>1
    DEF vars, ringVars, localVars, history, CountInv, OneProducerSteps, Reserves, Releases,
        Returns
  <1>2. QED
    BY <1>1, AddCounts, GetCounts DEF Next

LEMMA OnlyGrows ==
  ASSUME TypeInv, [Next]_vars
  PROVE  again' = 0 => again = 0
  <1>1. again \in Nat /\ (again' = again \/ again' = again + 1)
    BY DEF TypeInv, TypeOK, Next, vars, history, AddToQueue, PassGuard, Refuse, BeginAdd,
           Claim, Reserve, Write, Publish, ScanNobody, ScanSomebody, UnblockWaiting,
           NextPlace, GetNextInQueue, GetNothing, SeeReady, LoadFirst, LoadLast, StoreReady,
           Test, FoundNothing, FoundLate, Advance, Retry, Recheck, Take, Release,
           WaitForCommands, BeginWait, Compare, FindPlace, Register, Sleep, DoNotSleep,
           WakeUp, Deregister
  <1>2. QED
    BY <1>1

\* The whole invariant.
QueueInv(c) == TypeInv /\ CountInv(c) /\ (again = 0 => RingInv(c))

LEMMA QueueInductive ==
  ASSUME Producers \subseteq Atomic, NEW c \in Consumers, Consumers = {c}
  PROVE  Spec => []QueueInv(c)
  <1>1. Init => QueueInv(c)
    BY InitTypes, InitCount, InitRing DEF QueueInv
  <1>2. QueueInv(c) /\ [Next]_vars => QueueInv(c)'
    <2>1. SUFFICES ASSUME QueueInv(c), [Next]_vars PROVE QueueInv(c)'
      OBVIOUS
    <2>2. TypeInv'
      BY <2>1, NextTypes DEF QueueInv
    <2>3. again' = 0 => again = 0
      BY <2>1, OnlyGrows DEF QueueInv
    <2>4. again' = 0 => RingInv(c)'
      BY <2>1, <2>3, NextRing DEF QueueInv
    <2>5. QED
      BY <2>1, <2>2, <2>4, NextCount DEF QueueInv
  <1>3. QED
    BY <1>1, <1>2, PTL DEF Spec

LEMMA OutstandingIs ==
  ASSUME TypeInv, NEW c \in Consumers, RingInv(c)
  PROVE  /\ Outstanding \in Seq(Commands)
         /\ Len(Outstanding) = Waits
         /\ \A k \in 1 .. Waits : Outstanding[k] = accepted[Len(got) + k]
  <1>1. Len(got) \in Nat /\ Len(got) <= Len(accepted) /\ accepted \in Seq(Commands)
    BY RingNumbers DEF TypeInv, TypeOK
  <1>2. QED
    BY <1>1, LeftOf DEF Outstanding, Waits

\* Counting the threads at two places, one of producers and one of the consumer.
LEMMA CountAt ==
  ASSUME NEW c, NEW p, c # p
  PROVE  /\ Cardinality({}) = 0 /\ Cardinality({c}) = 1 /\ Cardinality({p}) = 1
         /\ Cardinality({c, p}) = 2
  <1>1. Cardinality({}) = 0 /\ Cardinality({c}) = 1 /\ IsFiniteSet({c})
        /\ Cardinality({p}) = 1
    BY FS_EmptySet, FS_Singleton
  <1>2. {c, p} = {c} \cup {p} /\ p \notin {c}
    OBVIOUS
  <1>3. Cardinality({c} \cup {p}) = Cardinality({c}) + 1
    BY <1>1, <1>2, FS_AddElement
  <1>4. QED
    BY <1>1, <1>2, <1>3

LEMMA CountsAreExact ==
  ASSUME Producers \subseteq Atomic, NEW c \in Consumers, Consumers = {c},
         TypeInv, CountInv(c)
  PROVE  CommandRingIsExact
  <1>1. /\ Len(accepted) \in Nat /\ Len(got) \in Nat
        /\ Reserves \in {0, 1} /\ Releases(c) \in {0, 1}
    BY CountNumbers
  <1>2. /\ \A p \in Producers : p # c /\ pc[p] \in ProducerLabels
        /\ pc[c] # "reserve"
    BY CommandAssumption DEF TypeInv, CallsAreOwn, CountInv
  <1>3. At({"reserve", "release"}) = (IF \E p \in Producers : pc[p] = "reserve" THEN 1 ELSE 0)
                                     + (IF pc[c] = "release" THEN 1 ELSE 0)
    <2> DEFINE S == {t \in Threads : pc[t] \in {"reserve", "release"}}
    <2>1. CASE \E p \in Producers : pc[p] = "reserve"
      <3>1. PICK p \in Producers : pc[p] = "reserve"
        BY <2>1
      <3>2. \A q \in Producers : pc[q] \in {"reserve", "release"} <=> q = p
        BY <1>2, <3>1 DEF CountInv, OneProducerSteps, ProducerLabels
      <3>3. CASE pc[c] \in {"reserve", "release"}
        <4>1. S = {c, p}
          BY <3>2, <3>3 DEF Threads
        <4>2. pc[c] = "release"
          BY <1>2, <3>3
        <4>3. p # c
          BY <1>2
        <4>4. Cardinality({c, p}) = 2
          BY <4>3, CountAt
        <4>5. At({"reserve", "release"}) = 2
          BY <4>1, <4>4 DEF At
        <4>6. QED
          BY <2>1, <4>2, <4>5
      <3>4. CASE pc[c] \notin {"reserve", "release"}
        <4>1. S = {p}
          BY <3>2, <3>4 DEF Threads
        <4>2. At({"reserve", "release"}) = 1
          BY <4>1, CountAt, <1>2 DEF At
        <4>3. QED
          BY <2>1, <3>4, <4>2
      <3>5. QED
        BY <3>3, <3>4
    <2>2. CASE ~ \E p \in Producers : pc[p] = "reserve"
      <3>1. \A q \in Producers : pc[q] \notin {"reserve", "release"}
        BY <1>2, <2>2 DEF ProducerLabels
      <3>2. CASE pc[c] = "release"
        <4>1. S = {c}
          BY <3>1, <3>2 DEF Threads
        <4>2. At({"reserve", "release"}) = 1
          BY <4>1, FS_Singleton DEF At
        <4>3. QED
          BY <2>2, <3>2, <4>2
      <3>3. CASE pc[c] # "release"
        <4>1. S = {}
          BY <1>2, <3>1, <3>3 DEF Threads
        <4>2. QED
          BY <2>2, <3>3, <4>1, FS_EmptySet DEF At
      <3>4. QED
        BY <3>2, <3>3
    <2>3. QED
      BY <2>1, <2>2
  <1>4. At({"recheck", "take"}) = IF pc[c] \in {"recheck", "take"} THEN 1 ELSE 0
    <2>1. \A q \in Producers : pc[q] \notin {"recheck", "take"}
      BY <1>2 DEF ProducerLabels
    <2>2. CASE pc[c] \in {"recheck", "take"}
      <3>1. {t \in Threads : pc[t] \in {"recheck", "take"}} = {c}
        BY <2>1, <2>2 DEF Threads
      <3>2. QED
        BY <2>2, <3>1, FS_Singleton DEF At
    <2>3. CASE pc[c] \notin {"recheck", "take"}
      <3>1. {t \in Threads : pc[t] \in {"recheck", "take"}} = {}
        BY <2>1, <2>3 DEF Threads
      <3>2. QED
        BY <2>3, <3>1, FS_EmptySet DEF At
    <2>4. QED
      BY <2>2, <2>3
  <1>5. ClaimsAreExact
    <2>1. At({"reserve", "release"}) = Reserves + Releases(c)
      BY <1>3 DEF Reserves, Releases
    <2>2. Len(accepted) - Len(got) + At({"reserve", "release"})
            = Len(accepted) - Len(got) + Reserves + Releases(c)
      BY <1>1, <2>1
    <2>3. QED
      BY <2>2 DEF CountInv, ClaimsAreExact
  <1>6. RemovedIsReturned
    BY <1>4 DEF CountInv, Returns, RemovedIsReturned
  <1>7. QED
    BY <1>5, <1>6 DEF CommandRingIsExact

\* With one consumer, which may be preempted at every step, and producers that it
\* cannot preempt, the number of claims is that of the commands that were accepted and
\* not returned and of the claims under way, modulo its width, also after a command was
\* returned that stayed in the ring; and every command that left the ring was returned
\* or is about to be (CommandQueue.hpp, addToQueue and getNextInQueue).
THEOREM CommandRingStaysExact ==
  ASSUME Producers \subseteq Atomic, NEW c, Consumers = {c}
  PROVE  Spec => []CommandRingIsExact
  <1>1. c \in Consumers
    OBVIOUS
  <1>2. QueueInv(c) => CommandRingIsExact
    BY <1>1, CountsAreExact DEF QueueInv
  <1>3. Spec => []QueueInv(c)
    BY <1>1, QueueInductive
  <1>4. QED
    BY <1>2, <1>3, PTL

-----------------------------------------------------------------------------
(* The ring implements the bounded FIFO queue of EventFifo.                 *)

LEMMA ReserveAccepts ==
  ASSUME Producers \subseteq Atomic, NEW c \in Consumers, TypeInv, RingInv(c), TypeInv',
         RingInv(c)', NEW p \in Producers, Reserve(p)
  PROVE  Fifo!Accept(CommandOf(p)) /\ CommandOf(p) \in Commands
  <1>1. /\ pc[p] = "reserve" /\ accepted' = Append(accepted, CommandOf(p))
        /\ UNCHANGED got
    BY DEF Reserve, Goto
  <1>2. CommandOf(p) \in Commands
    BY <1>1, CommandOfCall DEF Unwritten
  <1>3. /\ accepted \in Seq(Commands) /\ accepted' \in Seq(Commands)
        /\ Len(accepted') = Len(accepted) + 1
        /\ \A k \in 1 .. Len(accepted) : accepted'[k] = accepted[k]
        /\ accepted'[Len(accepted) + 1] = CommandOf(p)
    BY <1>1, <1>2 DEF TypeInv, TypeOK
  <1>4. /\ Len(accepted) \in Nat /\ Len(got) \in Nat /\ Len(got) <= Len(accepted)
        /\ Waits \in Nat /\ Waits = Len(accepted) - Len(got) /\ Capacity \in Nat
    BY RingNumbers DEF Waits
  <1>5. /\ Outstanding \in Seq(Commands) /\ Len(Outstanding) = Waits
        /\ \A k \in 1 .. Waits : Outstanding[k] = accepted[Len(got) + k]
    BY OutstandingIs
  <1>6. /\ Outstanding' \in Seq(Commands) /\ Len(Outstanding') = Waits + 1
        /\ \A k \in 1 .. Waits + 1 : Outstanding'[k] = accepted'[Len(got) + k]
    <2>1. Len(got) <= Len(accepted') /\ Len(accepted') - Len(got) = Waits + 1
      BY <1>3, <1>4
    <2>2. QED
      BY <1>1, <1>3, <1>4, <2>1, LeftOf DEF Outstanding
  <1>7. Outstanding' = Append(Outstanding, CommandOf(p))
    <2>1. /\ Append(Outstanding, CommandOf(p)) \in Seq(Commands)
          /\ Len(Append(Outstanding, CommandOf(p))) = Waits + 1
          /\ \A k \in 1 .. Waits : Append(Outstanding, CommandOf(p))[k] = Outstanding[k]
          /\ Append(Outstanding, CommandOf(p))[Waits + 1] = CommandOf(p)
      BY <1>2, <1>5, AppendProperties
    <2>2. \A k \in 1 .. Waits + 1 : Outstanding'[k] = Append(Outstanding, CommandOf(p))[k]
      <3>1. ASSUME NEW k \in 1 .. Waits
            PROVE  Outstanding'[k] = Append(Outstanding, CommandOf(p))[k]
        <4>1. Len(got) + k \in 1 .. Len(accepted) /\ k \in 1 .. Waits + 1
          BY <1>4
        <4>2. QED
          BY <1>3, <1>5, <1>6, <2>1, <4>1
      <3>2. Outstanding'[Waits + 1] = Append(Outstanding, CommandOf(p))[Waits + 1]
        <4>1. Len(got) + (Waits + 1) = Len(accepted) + 1 /\ Waits + 1 \in 1 .. Waits + 1
          BY <1>4
        <4>2. QED
          BY <1>3, <1>6, <2>1, <4>1
      <3>3. \A k \in 1 .. Waits + 1 : k \in 1 .. Waits \/ k = Waits + 1
        BY <1>4
      <3>4. QED
        BY <3>1, <3>2, <3>3
    <2>3. QED
      BY <1>6, <2>1, <2>2, SeqEqual
  <1>8. Len(Outstanding) < Capacity
    <2>1. \E a \in {0, 1} : claimed = Waits + 1 + a
      BY <1>1, <1>4 DEF RingInv, ClaimsAddUp
    <2>2. claimed <= Capacity
      BY DEF RingInv, ClaimsAddUp
    <2>3. QED
      BY <1>4, <1>5, <2>1, <2>2
  <1>9. CommandOf(p) \notin Fifo!Seen
    <2>1. CommandOf(p)[1] = p /\ CommandOf(p)[2] = adds[p] /\ adds[p] \in Nat
      BY CommandAssumption DEF CommandOf, TypeInv, TypeOK
    <2>2. \A k \in DOMAIN accepted : accepted[k] # CommandOf(p)
      BY <1>1, <2>1 DEF RingInv, AcceptedAreCalls
    <2>3. \A k \in DOMAIN got : got[k] # CommandOf(p)
      <3>1. DOMAIN got = 1 .. Len(got) /\ DOMAIN accepted = 1 .. Len(accepted)
        BY DEF TypeInv, TypeOK
      <3>2. \A k \in DOMAIN got : k \in DOMAIN accepted
        BY <1>4, <3>1
      <3>3. QED
        BY <2>2, <3>2 DEF RingInv, GotIsPrefix
    <2>4. \A k \in DOMAIN Outstanding : Outstanding[k] # CommandOf(p)
      <3>1. SUFFICES ASSUME NEW k \in 1 .. Waits PROVE Outstanding[k] # CommandOf(p)
        BY <1>5
      <3>2. Len(got) + k \in DOMAIN accepted
        BY <1>3, <1>4
      <3>3. QED
        BY <1>5, <2>2, <3>2
    <2>5. QED
      BY <2>3, <2>4 DEF Fifo!Seen
  <1>10. QED
    BY <1>1, <1>2, <1>7, <1>8, <1>9 DEF Fifo!Accept

LEMMA TakeRunsHead ==
  ASSUME Producers \subseteq Atomic, NEW c \in Consumers, TypeInv, RingInv(c), TypeInv',
         RingInv(c)', Take(c)
  PROVE  Fifo!RunHead
  <1>1. got' = Append(got, slots[index[c]]) /\ UNCHANGED accepted
    BY DEF Take
  <1>2. /\ Waits >= 1 /\ slots[index[c]] = accepted[Len(got) + 1]
        /\ Len(got) + 1 \in DOMAIN accepted
    BY ConsumerFindsOldest
  <1>3. /\ Len(accepted) \in Nat /\ Len(got) \in Nat /\ Waits \in Nat
        /\ Waits = Len(accepted) - Len(got)
    BY RingNumbers DEF Waits
  <1>4. Len(got') = Len(got) + 1
    BY <1>1, <1>2 DEF TypeInv, TypeOK
  <1>5. /\ Outstanding \in Seq(Commands) /\ Len(Outstanding) = Waits
        /\ \A k \in 1 .. Waits : Outstanding[k] = accepted[Len(got) + k]
    BY OutstandingIs
  <1>6. /\ Outstanding' \in Seq(Commands) /\ Len(Outstanding') = Waits - 1
        /\ \A k \in 1 .. Waits - 1 : Outstanding'[k] = accepted[Len(got) + 1 + k]
    <2>1. accepted \in Seq(Commands) /\ Len(got) + 1 \in Nat /\ Len(got) + 1 <= Len(accepted)
          /\ Len(accepted) - (Len(got) + 1) = Waits - 1
      BY <1>2, <1>3 DEF TypeInv, TypeOK
    <2>2. QED
      BY <1>1, <1>4, <2>1, LeftOf DEF Outstanding
  <1>7. Outstanding # <<>>
    BY <1>2, <1>3, <1>5
  <1>8. Head(Outstanding) = slots[index[c]]
    BY <1>2, <1>3, <1>5
  <1>9. Outstanding' = Tail(Outstanding)
    <2>1. /\ Tail(Outstanding) \in Seq(Commands) /\ Len(Tail(Outstanding)) = Waits - 1
          /\ \A k \in 1 .. Waits - 1 : Tail(Outstanding)[k] = Outstanding[k + 1]
      BY <1>5, <1>7, HeadTailProperties
    <2>2. \A k \in 1 .. Waits - 1 : Outstanding'[k] = Tail(Outstanding)[k]
      <3>1. SUFFICES ASSUME NEW k \in 1 .. Waits - 1
                     PROVE  accepted[Len(got) + 1 + k] = Outstanding[k + 1]
        BY <1>6, <2>1
      <3>2. k + 1 \in 1 .. Waits /\ Len(got) + (k + 1) = Len(got) + 1 + k
        BY <1>3
      <3>3. QED
        BY <1>5, <3>2
    <2>3. QED
      BY <1>6, <2>1, <2>2, SeqEqual
  <1>10. QED
    BY <1>1, <1>7, <1>8, <1>9 DEF Fifo!RunHead

LEMMA NextIsFifo ==
  ASSUME Producers \subseteq Atomic, NEW c \in Consumers, Consumers = {c}, TypeInv,
         RingInv(c), TypeInv', RingInv(c)', [Next]_vars, again' = 0
  PROVE  [Fifo!Next]_(Fifo!vars)
  <1>1. UNCHANGED <<accepted, got>> => UNCHANGED Fifo!vars
    BY DEF Fifo!vars, Outstanding
  <1>2. ASSUME NEW p \in Producers, AddToQueue(p)
        PROVE  [Fifo!Next]_(Fifo!vars)
    <2>1. CASE Reserve(p)
      BY <2>1, ReserveAccepts DEF Fifo!Next
    <2>2. CASE ~Reserve(p)
      BY <1>1, <1>2, <2>2
      DEF AddToQueue, PassGuard, Refuse, BeginAdd, Claim, Write, Publish, ScanNobody,
          ScanSomebody, UnblockWaiting, NextPlace, history
    <2>3. QED
      BY <2>1, <2>2
  <1>3. CASE GetNextInQueue(c)
    <2>1. CASE Take(c)
      BY <2>1, TakeRunsHead DEF Fifo!Next
    <2>2. CASE ~Take(c)
      BY <1>1, <1>3, <2>2
      DEF GetNextInQueue, GetNothing, SeeReady, LoadFirst, LoadLast, StoreReady, Test,
          FoundNothing, FoundLate, Advance, Retry, Recheck, Release, history, vars
    <2>3. QED
      BY <2>1, <2>2
  <1>4. CASE WaitForCommands(c)
    BY <1>1, <1>4
    DEF WaitForCommands, BeginWait, Compare, FindPlace, Register, Sleep, DoNotSleep,
        WakeUp, Deregister, history
  <1>5. CASE UNCHANGED vars
    BY <1>1, <1>5 DEF vars, history
  <1>6. QED
    BY <1>2, <1>3, <1>4, <1>5 DEF Next

\* With one consumer, which may be preempted at every step, and producers that it
\* cannot preempt, addToQueue and getNextInQueue implement a bounded FIFO queue until a
\* late test finds a command and returns it without removing it: what is returned is
\* always the oldest accepted command, none is lost, doubled or overtaken.
THEOREM CommandsAreFifo ==
  ASSUME Producers \subseteq Atomic, NEW c, Consumers = {c}
  PROVE  Spec => ImplementsFifo
  <1>1. c \in Consumers
    OBVIOUS
  <1>2. Init => Fifo!Init
    <2>1. SUFFICES ASSUME Init PROVE Outstanding = <<>> /\ got = <<>>
      BY DEF Fifo!Init
    <2>2. QED
      BY <2>1, SubSeqEmpty DEF Init, Outstanding
  <1>3. QueueInv(c) /\ QueueInv(c)' /\ [Next]_vars =>
          [again' = 0 => Fifo!Next \/ UNCHANGED Fifo!vars]_<<accepted, got, again>>
    <2>1. SUFFICES ASSUME QueueInv(c), QueueInv(c)', [Next]_vars, again' = 0
                   PROVE  Fifo!Next \/ UNCHANGED Fifo!vars
      OBVIOUS
    <2>2. again = 0 /\ RingInv(c)'
      BY <2>1, OnlyGrows DEF QueueInv
    <2>3. QED
      BY <1>1, <2>1, <2>2, NextIsFifo DEF QueueInv
  <1>4. Spec => []QueueInv(c)
    BY <1>1, QueueInductive
  <1>5. QED
    BY <1>2, <1>3, <1>4, PTL DEF Spec, ImplementsFifo
=============================================================================
