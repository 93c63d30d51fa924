----------------------- MODULE ThreadBlockingProofs -----------------------
(***************************************************************************)
(* Proofs about the POSIX block and unblock, for every set of threads.     *)
(* IndInv is the inductive invariant: the types and the two safety         *)
(* invariants need each other, because the test in block() reads the       *)
(* count while the wake-up in unblock() reads the status.                  *)
(***************************************************************************)
EXTENDS ThreadBlocking, TLAPS

IndInv == TypeOK /\ NoSleepOnPending /\ CountTellsSleep

LEMMA InitIndInv == Init => IndInv
  BY BlockingAssumption
  DEF Init, IndInv, TypeOK, NoSleepOnPending, CountTellsSleep

LEMMA NextIndInv == IndInv /\ [Next]_vars => IndInv'
  <1> SUFFICES ASSUME IndInv, [Next]_vars
               PROVE  IndInv'
    OBVIOUS
  <1> USE BlockingAssumption
  <1> USE DEF IndInv, TypeOK, NoSleepOnPending, CountTellsSleep
  <1>1. ASSUME NEW t \in Threads, blockCount[t] < MaxPending, Sleep(t)
        PROVE  IndInv'
    BY <1>1 DEF Sleep
  <1>2. ASSUME NEW t \in Threads, TakePending(t)
        PROVE  IndInv'
    BY <1>2 DEF TakePending
  <1>3. ASSUME NEW t \in Threads, Wake(t)
        PROVE  IndInv'
    BY <1>3 DEF Wake
  <1>4. ASSUME NEW t \in Threads, SpuriousWake(t)
        PROVE  IndInv'
    BY <1>4 DEF SpuriousWake
  <1>5. ASSUME NEW t \in Threads, blockCount[t] > -MaxPending, Unblock(t)
        PROVE  IndInv'
    BY <1>5 DEF Unblock
  <1>6. ASSUME NEW t \in Deletable, Delete(t)
        PROVE  IndInv'
    BY <1>6 DEF Delete
  <1>7. CASE UNCHANGED vars
    BY <1>7 DEF vars
  <1>8. QED
    BY <1>1, <1>2, <1>3, <1>4, <1>5, <1>6, <1>7 DEF Next

\* The inductive invariant holds in every reachable state.
THEOREM Inductive == Spec => []IndInv
  BY InitIndInv, NextIndInv, PTL DEF Spec

\* For every set of threads and every set of deleted ones the count keeps
\* within its bound and the other variables keep their types.
THEOREM TypeCorrect == Spec => []TypeOK
  <1>1. IndInv => TypeOK
    BY DEF IndInv
  <1>2. QED
    BY Inductive, <1>1, PTL

\* For every set of threads, deleted or not, no thread sleeps in block() while
\* an unblock that it has not consumed is pending.
THEOREM NoLostUnblock == Spec => []NoSleepOnPending
  <1>1. IndInv => NoSleepOnPending
    BY DEF IndInv
  <1>2. QED
    BY Inductive, <1>1, PTL

\* For every set of threads, blockCount of a thread that is not deleted tells
\* whether it sleeps.
THEOREM CountIsExact == Spec => []CountTellsSleep
  <1>1. IndInv => CountTellsSleep
    BY DEF IndInv
  <1>2. QED
    BY Inductive, <1>1, PTL

-----------------------------------------------------------------------------
(* The refinement: each action of block and unblock is a step of the       *)
(* permit of the thread it acts on, or leaves every kept thread's permit,  *)
(* place and result as they are.                                           *)

LEMMA InitPermit == Init => Permit!Init
  BY DEF Init, Permit!Init, Kept, PermitOf, WhereOf, ResultOf

\* A step that changes the record of no kept thread does not move the permits.
LEMMA OthersStutter ==
  ASSUME \A u \in Kept : /\ blockCount'[u] = blockCount[u]
                         /\ status'[u] = status[u]
                         /\ inBlock'[u] = inBlock[u]
                         /\ result'[u] = result[u]
  PROVE  UNCHANGED <<PermitOf, WhereOf, ResultOf>>
  BY DEF PermitOf, WhereOf, ResultOf, Kept

LEMMA NextPermit == IndInv /\ [Next]_vars => [Permit!Next]_(Permit!vars)
  <1> SUFFICES ASSUME IndInv, [Next]_vars
               PROVE  [Permit!Next]_(Permit!vars)
    OBVIOUS
  <1> USE BlockingAssumption
  <1> USE DEF IndInv, TypeOK, NoSleepOnPending, CountTellsSleep, Kept
  <1>0. \A u \in Kept :
           /\ PermitOf[u] = IF blockCount[u] < 0 THEN 1 ELSE 0
           /\ WhereOf[u] = IF status[u] = "Blocked" THEN "asleep"
                           ELSE IF inBlock[u] THEN "waking" ELSE "running"
    BY DEF PermitOf, WhereOf
  <1>1. ASSUME NEW t \in Kept, Sleep(t)
        PROVE  Permit!FallAsleep(t)
    <2>1. UNCHANGED <<PermitOf, ResultOf>>
      BY <1>1 DEF Sleep, PermitOf, ResultOf
    <2>2. WhereOf' = [WhereOf EXCEPT ![t] = "asleep"]
      BY <1>1 DEF Sleep, WhereOf
    <2>3. WhereOf[t] = "running" /\ PermitOf[t] = 0
      BY <1>0, <1>1 DEF Sleep
    <2>4. QED
      BY <2>1, <2>2, <2>3 DEF Permit!FallAsleep
  <1>2. ASSUME NEW t \in Kept, TakePending(t)
        PROVE  Permit!SpendPermit(t)
    <2>1. UNCHANGED WhereOf
      BY <1>2 DEF TakePending, WhereOf
    <2>2. PermitOf' = [PermitOf EXCEPT ![t] = 0]
      <3>1. blockCount' = [blockCount EXCEPT ![t] = 0]
        BY <1>2 DEF TakePending
      <3>2. \A u \in Kept : (IF blockCount'[u] < 0 THEN 1 ELSE 0)
                             = IF u = t THEN 0 ELSE PermitOf[u]
        BY <1>0, <3>1
      <3>3. QED
        BY <3>2 DEF PermitOf
    <2>3. ResultOf' = [ResultOf EXCEPT ![t] = "LimitReached"]
      BY <1>2 DEF TakePending, ResultOf
    <2>4. WhereOf[t] = "running" /\ PermitOf[t] = 1
      BY <1>0, <1>2 DEF TakePending
    <2>5. QED
      BY <2>1, <2>2, <2>3, <2>4 DEF Permit!SpendPermit
  <1>3. ASSUME NEW t \in Kept, Wake(t)
        PROVE  Permit!WakeUp(t)
    <2>1. UNCHANGED PermitOf
      BY <1>3 DEF Wake, PermitOf
    <2>2. WhereOf' = [WhereOf EXCEPT ![t] = "running"]
      BY <1>3 DEF Wake, WhereOf
    <2>3. ResultOf' = [ResultOf EXCEPT ![t] = "Success"]
      BY <1>3 DEF Wake, ResultOf
    <2>4. WhereOf[t] = "waking"
      BY <1>0, <1>3 DEF Wake
    <2>5. QED
      BY <2>1, <2>2, <2>3, <2>4 DEF Permit!WakeUp
  <1>4. ASSUME NEW t \in Kept, Unblock(t)
        PROVE  Permit!Rouse(t) \/ Permit!GivePermit(t)
    <2>1. UNCHANGED ResultOf
      BY <1>4 DEF Unblock, ResultOf
    <2>2. CASE status[t] = "Blocked"
      <3>1. UNCHANGED PermitOf
        BY <1>4, <2>2 DEF Unblock, PermitOf
      <3>2. WhereOf' = [WhereOf EXCEPT ![t] = "waking"]
        BY <1>4, <2>2 DEF Unblock, WhereOf
      <3>3. WhereOf[t] = "asleep"
        BY <1>0, <2>2
      <3>4. QED
        BY <2>1, <3>1, <3>2, <3>3 DEF Permit!Rouse
    <2>3. CASE status[t] # "Blocked"
      <3>1. UNCHANGED WhereOf
        BY <1>4, <2>3 DEF Unblock, WhereOf
      <3>2. PermitOf' = [PermitOf EXCEPT ![t] = 1]
        <4>1. /\ blockCount' = [blockCount EXCEPT ![t] = @ - 1]
              /\ blockCount[t] <= 0
          BY <1>4, <2>3 DEF Unblock
        <4>2. \A u \in Kept : (IF blockCount'[u] < 0 THEN 1 ELSE 0)
                               = IF u = t THEN 1 ELSE PermitOf[u]
          BY <1>0, <4>1
        <4>3. QED
          BY <4>2 DEF PermitOf
      <3>3. WhereOf[t] # "asleep"
        BY <1>0, <2>3
      <3>4. QED
        BY <2>1, <3>1, <3>2, <3>3 DEF Permit!GivePermit
    <2>4. QED
      BY <2>2, <2>3
  <1>5. ASSUME NEW t \in Kept, SpuriousWake(t)
        PROVE  FALSE
    BY <1>5 DEF SpuriousWake
  <1>6. ASSUME NEW t \in Threads, t \notin Kept,
               \/ Sleep(t) \/ TakePending(t) \/ Wake(t)
               \/ SpuriousWake(t) \/ Unblock(t) \/ Delete(t)
        PROVE  UNCHANGED Permit!vars
    <2>1. \A u \in Kept : /\ blockCount'[u] = blockCount[u]
                          /\ status'[u] = status[u]
                          /\ inBlock'[u] = inBlock[u]
                          /\ result'[u] = result[u]
      BY <1>6 DEF Sleep, TakePending, Wake, SpuriousWake, Unblock, Delete
    <2>2. QED
      BY <2>1, OthersStutter DEF Permit!vars
  <1>7. CASE UNCHANGED vars
    BY <1>7 DEF vars, Permit!vars, PermitOf, WhereOf, ResultOf
  <1>8. QED
    BY <1>1, <1>2, <1>3, <1>4, <1>5, <1>6, <1>7 DEF Next, Permit!Next

\* For every set of threads, the POSIX block and unblock implement the binary
\* permit of the threads that nobody deletes.
THEOREM PosixRefinesPermit == Spec => ImplementsPermit
  BY InitPermit, NextPermit, Inductive, PTL
  DEF Spec, ImplementsPermit, Permit!Spec
=============================================================================
