-------------------------- MODULE ServicesProofs --------------------------
(***************************************************************************)
(* What holds of the services for every value of the constants.            *)
(***************************************************************************)
EXTENDS MCServices, FiniteSets, FiniteSetTheorems, WellFoundedInduction, TLAPS

(***************************************************************************)
(* A behaviour of PartSpec is one of a single component: the steps of its  *)
(* part are the component's own, and the other parts take none.            *)
(***************************************************************************)
LEMMA PartSteps ==
  ASSUME [PartNext]_allVars
  PROVE  /\ part' = part
         /\ part = "blocking" => [Next]_vars
         /\ part = "threads" => [T!Next]_threadsVars
         /\ part = "semaphores" => [S!Next]_semaphoresVars
         /\ part = "timers" => [M!Next]_timersVars
         /\ part = "clock" => [C!Next]_clockVars
         /\ part = "file" => [F!Next]_fileVars
         /\ part = "pool" => [P!Next]_poolVars
         /\ part = "signals" => [G!Next]_signalsVars
  <1>1. CASE UNCHANGED allVars
    BY <1>1 DEF allVars
  <1>2. CASE PartNext
    BY <1>2 DEF PartNext, BlockingStep, ThreadsStep, SemaphoresStep, TimersStep, ClockStep,
       FileStep, PoolStep, SignalsStep
  <1> QED BY <1>1, <1>2

-----------------------------------------------------------------------------
(* Blocking and unblocking on FreeRTOS, for every set of threads.          *)

PeekInv == TypeOK /\ PeekedStaysPending

LEMMA PeekStarts == Init => PeekInv
  BY NotifyAssumption DEF Init, PeekInv, TypeOK, PeekedStaysPending

LEMMA PeekKeeps == PeekInv /\ [Next]_vars => PeekInv'
  <1> SUFFICES ASSUME PeekInv, [Next]_vars
               PROVE  PeekInv'
    OBVIOUS
  <1> USE NotifyAssumption
  <1> USE DEF PeekInv, TypeOK, PeekedStaysPending
  <1>1. ASSUME NEW t \in Threads, Peek(t)
        PROVE  PeekInv'
    BY <1>1 DEF Peek
  <1>2. ASSUME NEW t \in Threads, Take(t)
        PROVE  PeekInv'
    BY <1>2 DEF Take
  <1>3. ASSUME NEW t \in Threads, Give(t),
               notified[t] < MaxPending, giving[t] < MaxPending
        PROVE  PeekInv'
    BY <1>3 DEF Give
  <1>4. ASSUME NEW t \in Threads, MarkActive(t)
        PROVE  PeekInv'
    BY <1>4 DEF MarkActive
  <1>5. ASSUME NEW t \in Deletable, Delete(t)
        PROVE  PeekInv'
    BY <1>5 DEF Delete
  <1>6. CASE UNCHANGED vars
    BY <1>6 DEF vars
  <1>7. QED
    BY <1>1, <1>2, <1>3, <1>4, <1>5, <1>6 DEF Next

\* The inductive invariant holds in every reachable state.
THEOREM PeekAlways == Spec => []PeekInv
  BY PeekStarts, PeekKeeps, PTL DEF Spec

\* For every set of threads, a block() that is going to report LimitReached
\* finds the notification it peeked at and does not sleep.
THEOREM PeekIsStable == Spec => []PeekedStaysPending
  <1>1. PeekInv => PeekedStaysPending
    BY DEF PeekInv
  <1>2. QED
    BY PeekAlways, <1>1, PTL


LEMMA InitPermit == Init => Permit!Init
  BY DEF Init, Permit!Init, PermitOf, WhereOf

\* Deleting a thread and finishing an unblock write only the status, which the
\* permit does not depend on.
LEMMA StatusStutter ==
  ASSUME UNCHANGED <<notified, inBlock, previously, result>>
  PROVE  UNCHANGED Permit!vars
  BY DEF Permit!vars, PermitOf, WhereOf

LEMMA NextPermit == PeekInv /\ [Next]_vars => [Permit!Next]_(Permit!vars)
  <1> SUFFICES ASSUME PeekInv, [Next]_vars
               PROVE  [Permit!Next]_(Permit!vars)
    OBVIOUS
  <1> USE NotifyAssumption
  <1> USE DEF PeekInv, TypeOK, PeekedStaysPending
  <1>0. \A u \in Threads :
           /\ PermitOf[u] = IF notified[u] > 0 /\ (inBlock[u] => previously[u])
                            THEN 1 ELSE 0
           /\ WhereOf[u] = IF ~inBlock[u] \/ previously[u] THEN "running"
                           ELSE IF notified[u] > 0 THEN "waking" ELSE "asleep"
    BY DEF PermitOf, WhereOf
  <1>1. ASSUME NEW t \in Threads, Peek(t)
        PROVE  Permit!FallAsleep(t) \/ UNCHANGED Permit!vars
    <2>0. /\ ~inBlock[t]
          /\ inBlock' = [inBlock EXCEPT ![t] = TRUE]
          /\ previously'[t] <=> notified[t] >= 1
          /\ notified' = notified
          /\ \A u \in Threads \ {t} : previously'[u] = previously[u]
      BY <1>1 DEF Peek
    <2>1. UNCHANGED PermitOf
      <3>1. \A u \in Threads :
             (IF notified'[u] > 0 /\ (inBlock'[u] => previously'[u])
                          THEN 1 ELSE 0)
             = PermitOf[u]
        BY <1>0, <2>0
      <3>2. QED
        BY <3>1 DEF PermitOf
    <2>2. CASE notified[t] = 0
      <3>1. WhereOf' = [WhereOf EXCEPT ![t] = "asleep"]
        <4>1. \A u \in Threads :
               (IF ~inBlock'[u] \/ previously'[u] THEN "running"
                            ELSE IF notified'[u] > 0 THEN "waking" ELSE "asleep")
               = IF u = t THEN "asleep" ELSE WhereOf[u]
          BY <1>0, <2>0, <2>2
        <4>2. QED
          BY <4>1 DEF WhereOf
      <3>2. WhereOf[t] = "running" /\ PermitOf[t] = 0
        BY <1>0, <1>1, <2>2 DEF Peek
      <3>3. QED
        BY <1>1, <2>1, <3>1, <3>2 DEF Peek, Permit!FallAsleep
    <2>3. CASE notified[t] > 0
      <3>1. UNCHANGED WhereOf
        <4>1. \A u \in Threads :
               (IF ~inBlock'[u] \/ previously'[u] THEN "running"
                            ELSE IF notified'[u] > 0 THEN "waking" ELSE "asleep")
               = WhereOf[u]
          BY <1>0, <2>0, <2>3
        <4>2. QED
          BY <4>1 DEF WhereOf
      <3>2. QED
        BY <1>1, <2>1, <3>1 DEF Peek, Permit!vars
    <2>4. QED
      BY <2>2, <2>3
  <1>2. ASSUME NEW t \in Threads, Take(t)
        PROVE  Permit!SpendPermit(t) \/ Permit!WakeUp(t)
    <2>1. CASE previously[t]
      <3>1. UNCHANGED WhereOf
        BY <1>2, <2>1 DEF Take, WhereOf
      <3>2. PermitOf' = [PermitOf EXCEPT ![t] = 0]
        <4>1. \A u \in Threads :
               (IF notified'[u] > 0 /\ (inBlock'[u] => previously'[u])
                            THEN 1 ELSE 0)
               = IF u = t THEN 0 ELSE PermitOf[u]
          BY <1>0, <1>2, <2>1 DEF Take
        <4>2. QED
          BY <4>1 DEF PermitOf
      <3>3. WhereOf[t] = "running" /\ PermitOf[t] = 1
        BY <1>0, <1>2, <2>1 DEF Take
      <3>4. QED
        BY <1>2, <2>1, <3>1, <3>2, <3>3 DEF Take, Permit!SpendPermit
    <2>2. CASE ~previously[t]
      <3>1. UNCHANGED PermitOf
        BY <1>2, <2>2 DEF Take, PermitOf
      <3>2. WhereOf' = [WhereOf EXCEPT ![t] = "running"]
        BY <1>2, <2>2 DEF Take, WhereOf
      <3>3. WhereOf[t] = "waking"
        BY <1>0, <1>2, <2>2 DEF Take
      <3>4. QED
        BY <1>2, <2>2, <3>1, <3>2, <3>3 DEF Take, Permit!WakeUp
    <2>3. QED
      BY <2>1, <2>2
  <1>3. ASSUME NEW t \in Threads, Give(t)
        PROVE  \/ Permit!Rouse(t) \/ Permit!GivePermit(t)
               \/ UNCHANGED Permit!vars
    <2>1. CASE inBlock[t] /\ ~previously[t]
      <3>1. UNCHANGED PermitOf
        BY <1>3, <2>1 DEF Give, PermitOf
      <3>2. CASE notified[t] = 0
        <4>1. WhereOf' = [WhereOf EXCEPT ![t] = "waking"]
          <5>1. \A u \in Threads :
                 (IF ~inBlock'[u] \/ previously'[u] THEN "running"
                              ELSE IF notified'[u] > 0 THEN "waking" ELSE "asleep")
                 = IF u = t THEN "waking" ELSE WhereOf[u]
            BY <1>0, <1>3, <2>1, <3>2 DEF Give
          <5>2. QED
            BY <5>1 DEF WhereOf
        <4>2. WhereOf[t] = "asleep"
          BY <1>0, <2>1, <3>2
        <4>3. QED
          BY <1>3, <3>1, <4>1, <4>2 DEF Give, Permit!Rouse
      <3>3. CASE notified[t] > 0
        <4>1. UNCHANGED WhereOf
          BY <1>3, <3>3 DEF Give, WhereOf
        <4>2. QED
          BY <1>3, <3>1, <4>1 DEF Give, Permit!vars
      <3>4. QED
        BY <3>2, <3>3
    <2>2. CASE inBlock[t] => previously[t]
      <3>1. UNCHANGED WhereOf
        BY <1>3, <2>2 DEF Give, WhereOf
      <3>2. PermitOf' = [PermitOf EXCEPT ![t] = 1]
        <4>1. \A u \in Threads :
               (IF notified'[u] > 0 /\ (inBlock'[u] => previously'[u])
                            THEN 1 ELSE 0)
               = IF u = t THEN 1 ELSE PermitOf[u]
          BY <1>0, <1>3, <2>2 DEF Give
        <4>2. QED
          BY <4>1 DEF PermitOf
      <3>3. WhereOf[t] # "asleep"
        BY <1>0, <2>2
      <3>4. QED
        BY <1>3, <3>1, <3>2, <3>3 DEF Give, Permit!GivePermit
    <2>3. QED
      BY <2>1, <2>2
  <1>4. ASSUME NEW t \in Threads, MarkActive(t) \/ Delete(t)
        PROVE  UNCHANGED Permit!vars
    BY <1>4, StatusStutter DEF MarkActive, Delete
  <1>5. CASE UNCHANGED vars
    BY <1>5, StatusStutter DEF vars
  <1>6. QED
    BY <1>1, <1>2, <1>3, <1>4, <1>5 DEF Next, Permit!Next

\* For every set of threads, the FreeRTOS block and unblock implement the
\* binary permit, deleted threads included.
THEOREM FreeRtosRefinesPermit == Spec => ImplementsPermit
  BY InitPermit, NextPermit, PeekAlways, PTL
  DEF Spec, ImplementsPermit, Permit!Spec

-----------------------------------------------------------------------------
(* Semaphores.                                                             *)

ObjectTypes ==
  /\ semaphoresPort \in Ports
  /\ semaphores \in [SemaphoreNames -> 0 .. created]
  /\ kernel \in [SemaphoreNames -> 0 .. created]
  /\ created \in 0 .. MaxObjects
  /\ value \in [S!Objects -> 0 .. Maximum + 1]
  /\ stale \subseteq 1 .. created

WaitTypes ==
  /\ asked \in [Takers -> SUBSET SemaphoreNames]
  /\ waiting \in [Takers -> {0} \cup S!Objects]
  /\ taken \in [Takers -> 0 .. 2]
  /\ errno \in [Takers -> {"none", "EAGAIN", "EINTR"}]

SemaphoreTypes == ObjectTypes /\ WaitTypes

\* A thread that is not in a wait holds no unit, so that its other calls may leave
\* any errno.
WaitsAreOver == \A t \in Takers : waiting[t] = 0 => taken[t] = 0

SemaphoresInv ==
  SemaphoreTypes /\ WaitsAreOver /\ S!WaitTakesOneUnit /\ S!SemaphoreIsFresh /\ S!WithinMaximum

LEMMA SemaphoresStart ==
  ASSUME S!Init
  PROVE  SemaphoresInv
  <1>1. SemaphoreTypes
    BY Parameters DEF S!Init, SemaphoreTypes, ObjectTypes, WaitTypes, S!SemaphoresAssumption, S!NoObject
  <1>2. WaitsAreOver /\ S!WaitTakesOneUnit /\ S!SemaphoreIsFresh /\ S!WithinMaximum
    BY Parameters DEF S!Init, WaitsAreOver, S!WaitTakesOneUnit, S!SemaphoreIsFresh, S!WithinMaximum, S!SemaphoresAssumption
  <1> QED BY <1>1, <1>2 DEF SemaphoresInv

\* One unit less is still a value.
LEMMA UnitTaken ==
  ASSUME NEW O, NEW m \in Nat, NEW v \in [O -> 0 .. m], NEW o \in O, v[o] > 0
  PROVE  [v EXCEPT ![o] = @ - 1] \in [O -> 0 .. m]
  OBVIOUS

\* What every step needs to know of the constants.
LEMMA SemaphoreParameters ==
  /\ Initial \in 0 .. Maximum /\ Maximum \in Nat /\ MaxObjects \in Nat
  /\ S!Objects = 1 .. MaxObjects /\ S!NoObject = 0
  BY Parameters DEF S!SemaphoresAssumption, S!Objects, S!NoObject

\* A new object is none of an earlier run and holds the initial value.
LEMMA NewObjectKeeps ==
  ASSUME SemaphoresInv, NEW n \in SemaphoreNames, S!NewObject(n),
         UNCHANGED <<semaphoresPort, stale, asked, waiting, taken, errno>>,
         \/ UNCHANGED kernel
         \/ kernel' = [kernel EXCEPT ![n] = created + 1]
  PROVE  SemaphoresInv'
  <1> USE SemaphoreParameters DEF SemaphoresInv, S!NewObject
  <1>1. SemaphoreTypes'
    <2>1. created' \in 0 .. MaxObjects /\ 0 .. created \subseteq 0 .. created' /\ created + 1 \in 0 .. created'
      BY DEF SemaphoreTypes, ObjectTypes
    <2>2. created + 1 \in S!Objects /\ Initial \in 0 .. Maximum + 1
      BY DEF SemaphoreTypes, ObjectTypes
    <2>3. value' \in [S!Objects -> 0 .. Maximum + 1]
      BY <2>2 DEF SemaphoreTypes, ObjectTypes
    <2>4. semaphores' \in [SemaphoreNames -> 0 .. created']
      BY <2>1 DEF SemaphoreTypes, ObjectTypes
    <2>5. kernel' \in [SemaphoreNames -> 0 .. created']
      BY <2>1 DEF SemaphoreTypes, ObjectTypes
    <2>6. stale' \subseteq 1 .. created'
      BY <2>1 DEF SemaphoreTypes, ObjectTypes
    <2> QED BY <2>1, <2>3, <2>4, <2>5, <2>6 DEF SemaphoreTypes, ObjectTypes, WaitTypes
  <1>2. WaitsAreOver' /\ S!WaitTakesOneUnit'
    BY DEF WaitsAreOver, S!WaitTakesOneUnit
  <1>3. S!SemaphoreIsFresh'
    BY DEF S!SemaphoreIsFresh, SemaphoreTypes, ObjectTypes, WaitTypes
  <1>4. S!WithinMaximum'
    BY DEF S!WithinMaximum, SemaphoreTypes, ObjectTypes, WaitTypes
  <1> QED BY <1>1, <1>2, <1>3, <1>4

\* waitSemaphore begins to wait for the object of a name.
LEMMA BeginWaitKeeps ==
  ASSUME SemaphoresInv, NEW n \in SemaphoreNames, NEW t \in Takers, S!BeginWait(t, n)
  PROVE  SemaphoresInv'
  <1> USE SemaphoreParameters DEF SemaphoresInv, S!BeginWait
  <1>1. SemaphoreTypes'
    BY DEF SemaphoreTypes, ObjectTypes, WaitTypes
  <1>2. WaitsAreOver'
    BY DEF WaitsAreOver, SemaphoreTypes, ObjectTypes, WaitTypes
  <1>3. S!WaitTakesOneUnit' /\ S!SemaphoreIsFresh' /\ S!WithinMaximum'
    BY DEF S!WaitTakesOneUnit, S!SemaphoreIsFresh, S!WithinMaximum
  <1> QED BY <1>1, <1>2, <1>3

\* waitSemaphore returns, in every port: nothing of the wait is left.
LEMMA EndWaitKeeps ==
  ASSUME SemaphoresInv, NEW t \in Takers, S!EndWait(t), waiting[t] # 0,
         value' \in [S!Objects -> 0 .. Maximum + 1], S!WithinMaximum',
         errno' \in [Takers -> {"none", "EAGAIN", "EINTR"}],
         \A u \in Takers : u # t => errno'[u] = errno[u],
         UNCHANGED <<semaphoresPort, semaphores, kernel, created, stale>>
  PROVE  SemaphoresInv'
  <1> USE SemaphoreParameters DEF SemaphoresInv, S!EndWait
  <1>1. SemaphoreTypes'
    <2>1. ObjectTypes'
      BY DEF SemaphoreTypes, ObjectTypes
    <2>2. asked' \in [Takers -> SUBSET SemaphoreNames] /\ waiting' \in [Takers -> {0} \cup S!Objects]
      BY DEF SemaphoreTypes, WaitTypes
    <2>3. taken' \in [Takers -> 0 .. 2]
      BY DEF SemaphoreTypes, WaitTypes
    <2> QED BY <2>1, <2>2, <2>3 DEF SemaphoreTypes, WaitTypes
  <1>2. WaitsAreOver' /\ S!WaitTakesOneUnit'
    BY DEF WaitsAreOver, S!WaitTakesOneUnit, SemaphoreTypes, ObjectTypes, WaitTypes
  <1>3. S!SemaphoreIsFresh'
    BY DEF S!SemaphoreIsFresh
  <1> QED BY <1>1, <1>2, <1>3

\* The POSIX calls: nobody looks at the maximum.
LEMMA PosixKeeps ==
  ASSUME SemaphoresInv, S!PosixSemaphores,
         semaphoresPort \in {"Linux", "Darwin"}
  PROVE  SemaphoresInv'
  <1> USE SemaphoreParameters DEF SemaphoresInv
  <1>0. ASSUME semaphoresPort' = semaphoresPort
        PROVE  S!WithinMaximum'
    BY <1>0 DEF S!WithinMaximum
  <1>1. ASSUME NEW n \in SemaphoreNames, S!UnlinkSemaphore(n)
        PROVE  SemaphoresInv'
    <2>1. SemaphoreTypes'
      BY <1>1 DEF S!UnlinkSemaphore, SemaphoreTypes, ObjectTypes, WaitTypes
    <2>2. WaitsAreOver' /\ S!WaitTakesOneUnit' /\ S!SemaphoreIsFresh' /\ S!WithinMaximum'
      BY <1>0, <1>1 DEF S!UnlinkSemaphore, SemaphoreTypes, ObjectTypes, WaitTypes, WaitsAreOver, S!WaitTakesOneUnit, S!SemaphoreIsFresh
    <2> QED BY <2>1, <2>2
  <1>2. ASSUME NEW n \in SemaphoreNames, S!OpenSemaphore(n)
        PROVE  SemaphoresInv'
    <2>1. CASE S!NewObject(n) /\ kernel' = [kernel EXCEPT ![n] = created + 1]
      <3>1. UNCHANGED <<semaphoresPort, stale, asked, waiting, taken, errno>>
        BY <1>2 DEF S!OpenSemaphore
      <3> QED BY <2>1, <3>1, NewObjectKeeps
    <2>2. CASE /\ kernel' = [kernel EXCEPT ![n] = S!NoObject]
               /\ semaphores' = IF kernel[n] = S!NoObject THEN semaphores
                                ELSE [semaphores EXCEPT ![n] = S!NoObject]
               /\ UNCHANGED <<created, value>>
      <3>1. UNCHANGED <<semaphoresPort, stale, asked, waiting, taken, errno>>
        BY <1>2 DEF S!OpenSemaphore
      <3>2. SemaphoreTypes'
        BY <2>2, <3>1 DEF SemaphoreTypes, ObjectTypes, WaitTypes
      <3>3. WaitsAreOver' /\ S!WaitTakesOneUnit' /\ S!SemaphoreIsFresh' /\ S!WithinMaximum'
        BY <1>0, <2>2, <3>1 DEF SemaphoreTypes, ObjectTypes, WaitTypes, WaitsAreOver, S!WaitTakesOneUnit, S!SemaphoreIsFresh
      <3> QED BY <3>2, <3>3
    <2> QED BY <1>2, <2>1, <2>2 DEF S!OpenSemaphore
  <1>3. ASSUME NEW n \in SemaphoreNames, S!SemPost(n)
        PROVE  SemaphoresInv'
    <2>1. SemaphoreTypes'
      BY <1>3 DEF S!SemPost, SemaphoreTypes, ObjectTypes, WaitTypes
    <2>2. WaitsAreOver' /\ S!WaitTakesOneUnit' /\ S!SemaphoreIsFresh' /\ S!WithinMaximum'
      BY <1>0, <1>3 DEF S!SemPost, WaitsAreOver, S!WaitTakesOneUnit, S!SemaphoreIsFresh
    <2> QED BY <2>1, <2>2
  <1>4. ASSUME NEW n \in SemaphoreNames, NEW t \in Takers, S!SemTryWait(t, n)
        PROVE  SemaphoresInv'
    <2>1. UNCHANGED <<semaphoresPort, semaphores, kernel, created, stale, asked, waiting, taken>>
      BY <1>4 DEF S!SemTryWait
    <2>2. /\ semaphores[n] \in S!Objects
          /\ \/ /\ value[semaphores[n]] > 0
                /\ value' = [value EXCEPT ![semaphores[n]] = @ - 1] /\ UNCHANGED errno
             \/ errno' = [errno EXCEPT ![t] = "EAGAIN"] /\ UNCHANGED value
      BY <1>4 DEF S!SemTryWait, SemaphoreTypes, ObjectTypes, WaitTypes
    <2>3. SemaphoreTypes'
      <3>1. value' \in [S!Objects -> 0 .. Maximum + 1]
        <4> DEFINE o == semaphores[n]
                   taking == [value EXCEPT ![o] = @ - 1]
        <4>1. value \in [S!Objects -> 0 .. Maximum + 1] /\ o \in S!Objects /\ Maximum + 1 \in Nat
          BY <2>2 DEF SemaphoreTypes, ObjectTypes, WaitTypes
        <4>2. (value[o] > 0 /\ value' = taking) \/ value' = value
          BY <2>2
        <4>3. value[o] > 0 => taking \in [S!Objects -> 0 .. Maximum + 1]
          BY ONLY <4>1, UnitTaken
        <4> HIDE DEF taking
        <4> QED BY ONLY <4>1, <4>2, <4>3
      <3>2. errno' \in [Takers -> {"none", "EAGAIN", "EINTR"}]
        BY <2>2 DEF SemaphoreTypes, ObjectTypes, WaitTypes
      <3> QED BY <2>1, <3>1, <3>2 DEF SemaphoreTypes, ObjectTypes, WaitTypes
    <2>4. WaitsAreOver' /\ S!WaitTakesOneUnit'
      <3>1. taken[t] = 0
        BY <1>4 DEF S!SemTryWait, WaitsAreOver
      <3> QED BY <2>1, <2>2, <3>1 DEF SemaphoreTypes, ObjectTypes, WaitTypes, WaitsAreOver, S!WaitTakesOneUnit
    <2>5. S!SemaphoreIsFresh' /\ S!WithinMaximum'
      BY <1>0, <2>1 DEF S!SemaphoreIsFresh
    <2> QED BY <2>3, <2>4, <2>5
  <1>5. ASSUME NEW t \in Takers, S!SemWait(t)
        PROVE  SemaphoresInv'
    <2>1. /\ value' = [value EXCEPT ![waiting[t]] = @ - 1] /\ waiting[t] \in S!Objects
          /\ value[waiting[t]] > 0
          /\ UNCHANGED <<semaphoresPort, semaphores, kernel, created, stale, errno>>
      BY <1>5 DEF S!SemWait, SemaphoreTypes, ObjectTypes, WaitTypes
    <2>2. value' \in [S!Objects -> 0 .. Maximum + 1]
      BY <2>1, UnitTaken DEF SemaphoreTypes, ObjectTypes, WaitTypes
    <2>3. S!WithinMaximum'
      BY <1>0, <2>1
    <2>4. CASE errno[t] = "EAGAIN"
      <3>1. PICK n \in asked[t] : semaphores[n] # 0 /\ waiting' = [waiting EXCEPT ![t] = semaphores[n]]
        BY <1>5, <2>4 DEF S!SemWait, S!WaitAgain
      <3>2. taken' = [taken EXCEPT ![t] = IF @ = 0 THEN 1 ELSE 2] /\ asked' = asked
        BY <1>5, <2>4 DEF S!SemWait, S!WaitAgain
      <3>3. n \in SemaphoreNames /\ semaphores[n] \in S!Objects
        BY <3>1 DEF SemaphoreTypes, ObjectTypes, WaitTypes
      <3>4. SemaphoreTypes'
        <4>1. ObjectTypes'
          BY <2>1, <2>2 DEF SemaphoreTypes, ObjectTypes
        <4>2. waiting' \in [Takers -> {0} \cup S!Objects]
          BY <3>1, <3>3 DEF SemaphoreTypes, WaitTypes
        <4>3. taken' \in [Takers -> 0 .. 2]
          BY <3>2 DEF SemaphoreTypes, WaitTypes
        <4> QED BY <2>1, <3>2, <4>1, <4>2, <4>3 DEF SemaphoreTypes, WaitTypes
      <3>5. WaitsAreOver'
        BY <3>1, <3>2, <3>3 DEF WaitsAreOver, SemaphoreTypes, ObjectTypes, WaitTypes
      <3>6. S!WaitTakesOneUnit' /\ S!SemaphoreIsFresh'
        BY <2>1, <2>4, <3>2 DEF S!WaitTakesOneUnit, S!SemaphoreIsFresh, SemaphoreTypes, ObjectTypes, WaitTypes
      <3> QED BY <2>3, <3>4, <3>5, <3>6
    <2>5. CASE errno[t] # "EAGAIN"
      <3>1. S!EndWait(t)
        BY <1>5, <2>5 DEF S!SemWait
      <3>2. waiting[t] # 0 /\ errno' \in [Takers -> {"none", "EAGAIN", "EINTR"}]
        BY <1>5, <2>1 DEF S!SemWait, SemaphoreTypes, ObjectTypes, WaitTypes
      <3> QED BY <2>1, <2>2, <2>3, <3>1, <3>2, EndWaitKeeps
    <2> QED BY <2>4, <2>5
  <1>6. ASSUME NEW t \in Takers, S!SemInterrupted(t)
        PROVE  SemaphoresInv'
    <2>1. errno' \in [Takers -> {"none", "EAGAIN", "EINTR"}] /\ \A u \in Takers : u # t => errno'[u] = errno[u]
      BY <1>6 DEF S!SemInterrupted, SemaphoreTypes, ObjectTypes, WaitTypes
    <2>2. /\ S!EndWait(t) /\ waiting[t] # 0 /\ value' = value
          /\ UNCHANGED <<semaphoresPort, semaphores, kernel, created, stale>>
      BY <1>6 DEF S!SemInterrupted
    <2>3. value' \in [S!Objects -> 0 .. Maximum + 1] /\ S!WithinMaximum'
      BY <1>0, <2>2 DEF SemaphoreTypes, ObjectTypes, WaitTypes
    <2> QED BY <2>1, <2>2, <2>3, EndWaitKeeps
  <1>9. ASSUME NEW t \in Takers, S!OtherCallFails(t)
        PROVE  SemaphoresInv'
    <2>0. taken[t] = 0
      BY <1>9 DEF S!OtherCallFails, WaitsAreOver
    <2>1. PICK e \in {"EAGAIN", "EINTR"} : errno' = [errno EXCEPT ![t] = e]
      BY <1>9 DEF S!OtherCallFails
    <2>2. UNCHANGED <<semaphoresPort, semaphores, kernel, created, value, stale, asked, waiting, taken>>
      BY <1>9 DEF S!OtherCallFails
    <2>3. SemaphoreTypes'
      BY <2>1, <2>2 DEF SemaphoreTypes, ObjectTypes, WaitTypes
    <2>4. WaitsAreOver' /\ S!WaitTakesOneUnit'
      BY <2>0, <2>1, <2>2 DEF WaitsAreOver, S!WaitTakesOneUnit, SemaphoreTypes, ObjectTypes, WaitTypes
    <2>5. S!SemaphoreIsFresh' /\ S!WithinMaximum'
      BY <1>0, <2>2 DEF S!SemaphoreIsFresh
    <2> QED BY <2>3, <2>4, <2>5
  <1>7. ASSUME S!RestartProgram
        PROVE  SemaphoresInv'
    <2>1. SemaphoreTypes'
      BY <1>7 DEF S!RestartProgram, SemaphoreTypes, ObjectTypes, WaitTypes
    <2>2. WaitsAreOver' /\ S!WaitTakesOneUnit' /\ S!WithinMaximum'
      BY <1>0, <1>7 DEF S!RestartProgram, WaitsAreOver, S!WaitTakesOneUnit
    <2>3. S!SemaphoreIsFresh'
      BY <1>7 DEF S!RestartProgram, SemaphoreTypes, ObjectTypes, WaitTypes, S!SemaphoreIsFresh
    <2> QED BY <2>1, <2>2, <2>3
  <1>8. ASSUME NEW n \in SemaphoreNames, NEW t \in Takers, S!BeginWait(t, n)
        PROVE  SemaphoresInv'
    BY <1>8, BeginWaitKeeps
  <1> QED BY <1>1, <1>2, <1>3, <1>4, <1>5, <1>6, <1>7, <1>8, <1>9 DEF S!PosixSemaphores

\* The FreeRTOS calls: nobody looks at errno, and a give at the maximum fails.
LEMMA FreeRtosKeeps ==
  ASSUME SemaphoresInv, S!FreeRtosSemaphores,
         semaphoresPort \in {"Esp", "Cc32xx", "Tm4c"}
  PROVE  SemaphoresInv'
  <1> USE SemaphoreParameters DEF SemaphoresInv
  <1>1. ASSUME NEW n \in SemaphoreNames, S!FreeSemaphore(n)
        PROVE  SemaphoresInv'
    <2>1. SemaphoreTypes'
      BY <1>1 DEF S!FreeSemaphore, SemaphoreTypes, ObjectTypes, WaitTypes
    <2>2. WaitsAreOver' /\ S!WaitTakesOneUnit' /\ S!SemaphoreIsFresh' /\ S!WithinMaximum'
      BY <1>1 DEF S!FreeSemaphore, SemaphoreTypes, ObjectTypes, WaitTypes, WaitsAreOver, S!WaitTakesOneUnit, S!SemaphoreIsFresh, S!WithinMaximum
    <2> QED BY <2>1, <2>2
  <1>2. ASSUME NEW n \in SemaphoreNames, S!CreateCounting(n)
        PROVE  SemaphoresInv'
    BY <1>2, NewObjectKeeps DEF S!CreateCounting
  <1>3. ASSUME NEW n \in SemaphoreNames, S!Give(n)
        PROVE  SemaphoresInv'
    <2>1. SemaphoreTypes'
      <3>1. semaphores[n] \in S!Objects
        BY <1>3 DEF S!Give, SemaphoreTypes, ObjectTypes
      <3>2. value' \in [S!Objects -> 0 .. Maximum + 1]
        BY <1>3, <3>1 DEF S!Give, SemaphoreTypes, ObjectTypes
      <3> QED BY <1>3, <3>2 DEF S!Give, SemaphoreTypes, ObjectTypes, WaitTypes
    <2>2. WaitsAreOver' /\ S!WaitTakesOneUnit' /\ S!SemaphoreIsFresh'
      BY <1>3 DEF S!Give, WaitsAreOver, S!WaitTakesOneUnit, S!SemaphoreIsFresh
    <2>3. S!WithinMaximum'
      BY <1>3 DEF S!Give, SemaphoreTypes, ObjectTypes, WaitTypes, S!WithinMaximum
    <2> QED BY <2>1, <2>2, <2>3
  <1>4. ASSUME NEW n \in SemaphoreNames, NEW t \in Takers, S!BeginWait(t, n)
        PROVE  SemaphoresInv'
    BY <1>4, BeginWaitKeeps
  <1>5. ASSUME NEW n \in SemaphoreNames, NEW t \in Takers, S!TryTake(t, n)
        PROVE  SemaphoresInv'
    <2>1. /\ semaphores[n] \in S!Objects /\ value[semaphores[n]] > 0
          /\ value' = [value EXCEPT ![semaphores[n]] = @ - 1]
          /\ UNCHANGED <<semaphoresPort, semaphores, kernel, created, stale, asked, waiting, taken, errno>>
      BY <1>5 DEF S!TryTake, SemaphoreTypes, ObjectTypes, WaitTypes
    <2>2. SemaphoreTypes'
      BY <2>1 DEF SemaphoreTypes, ObjectTypes, WaitTypes
    <2>3. WaitsAreOver' /\ S!WaitTakesOneUnit' /\ S!SemaphoreIsFresh'
      BY <2>1 DEF WaitsAreOver, S!WaitTakesOneUnit, S!SemaphoreIsFresh
    <2>4. S!WithinMaximum'
      BY <2>1 DEF SemaphoreTypes, ObjectTypes, WaitTypes, S!WithinMaximum
    <2> QED BY <2>2, <2>3, <2>4
  <1>6. ASSUME NEW t \in Takers, S!Take(t)
        PROVE  SemaphoresInv'
    <2>1. /\ waiting[t] \in S!Objects /\ waiting[t] # 0 /\ S!EndWait(t)
          /\ UNCHANGED <<semaphoresPort, semaphores, kernel, created, stale, errno>>
      BY <1>6 DEF S!Take, SemaphoreTypes, ObjectTypes, WaitTypes
    <2>2. \/ value[waiting[t]] > 0 /\ value' = [value EXCEPT ![waiting[t]] = @ - 1]
          \/ UNCHANGED value
      BY <1>6 DEF S!Take
    <2>3. value' \in [S!Objects -> 0 .. Maximum + 1]
      <3>1. CASE value' = value
        BY <3>1 DEF SemaphoreTypes, ObjectTypes
      <3>2. CASE value[waiting[t]] > 0 /\ value' = [value EXCEPT ![waiting[t]] = @ - 1]
        BY <2>1, <3>2, UnitTaken DEF SemaphoreTypes, ObjectTypes
      <3> QED BY <2>2, <3>1, <3>2
    <2>4. S!WithinMaximum'
      <3>1. CASE value' = value
        BY <2>1, <3>1 DEF S!WithinMaximum
      <3>2. CASE value[waiting[t]] > 0 /\ value' = [value EXCEPT ![waiting[t]] = @ - 1]
        BY <2>1, <3>2 DEF SemaphoreTypes, ObjectTypes, S!WithinMaximum
      <3> QED BY <2>2, <3>1, <3>2
    <2>5. errno' \in [Takers -> {"none", "EAGAIN", "EINTR"}]
      BY <2>1 DEF SemaphoreTypes, ObjectTypes, WaitTypes
    <2> QED BY <2>1, <2>3, <2>4, <2>5, EndWaitKeeps
  <1> QED BY <1>1, <1>2, <1>3, <1>4, <1>5, <1>6 DEF S!FreeRtosSemaphores

LEMMA SemaphoresKeep ==
  ASSUME SemaphoresInv, [S!Next]_semaphoresVars
  PROVE  SemaphoresInv'
  <1>1. CASE UNCHANGED semaphoresVars
    BY <1>1 DEF semaphoresVars, SemaphoresInv, SemaphoreTypes, ObjectTypes, WaitTypes, WaitsAreOver, S!WaitTakesOneUnit, S!SemaphoreIsFresh,
       S!WithinMaximum
  <1>2. CASE S!Next
    BY <1>2, PosixKeeps, FreeRtosKeeps DEF S!Next, S!LinuxSemaphores, S!DarwinSemaphores,
       S!EspSemaphores, S!Cc32xxSemaphores, S!Tm4cSemaphores
  <1> QED BY <1>1, <1>2

SemaphoresPart == part = "semaphores" => SemaphoresInv

LEMMA SemaphoresAlways == PartSpec => []SemaphoresPart
  <1>1. PartInit => SemaphoresPart
    BY SemaphoresStart DEF PartInit, SemaphoresPart
  <1>2. SemaphoresPart /\ [PartNext]_allVars => SemaphoresPart'
    BY PartSteps, SemaphoresKeep DEF SemaphoresPart
  <1> QED BY <1>1, <1>2, PTL DEF PartSpec

\* A wait goes on with a unit only if its thread came with EAGAIN in errno, no name
\* leads to a semaphore of an earlier run of the program, and no FreeRTOS port gives
\* more than the maximum: for any threads and names, every thread waiting, polling
\* and failing in other calls as it likes (OperatingSystemModule.cpp, waitSemaphore
\* and createSemaphore of all ports).
THEOREM SemaphoresStayUnits == PartSpec => []SemaphoresAreUnits
  <1>1. SemaphoresPart => SemaphoresAreUnits
    BY DEF SemaphoresPart, SemaphoresInv, SemaphoresAreUnits
  <1> QED BY <1>1, SemaphoresAlways, PTL

-----------------------------------------------------------------------------
(* Signals: with one thread that connects, the handle that connect returns *)
(* stays the observer's own, the number of observers is exact, and an emit *)
(* has called every observer that was there all the time: for every number *)
(* of slots, of threads that disconnect their connections once, and of     *)
(* threads that emit.                                                      *)

\* What the constants are: SignalAssumption without the bound on the number of
\* observers, one connector k, and no handle that is disconnected again.
OneConnectorOf(k) ==
  /\ Connectors = {k} /\ Connectors \subseteq Observers
  /\ Observers \cap Emitters = {}
  /\ MaxObservers \in Nat \ {0} /\ MaxConnects \in Nat
  /\ Twice = FALSE
  /\ G!NoneAssumption

Places == {"idle", "count", "store", "undo", "down", "visit", "notify", "undefined"}

SlotTypes(k) ==
  /\ slots \in [G!Handles -> G!Connections \cup {None}]
  /\ signalsPc \in [G!Parties -> Places]
  /\ place \in [G!Parties -> G!Handles]
  /\ signalCalls \in [G!Parties -> Nat] /\ signalCalls[k] \in 0 .. MaxConnects
  /\ handle \in [G!Connections -> G!Handles \cup {-1}]
  /\ live \subseteq G!Connections
  /\ \A c \in live : handle[c] \in G!Handles

\* The slot that the connector found free is free until it stores: nobody else
\* stores, and the others only free slots.
FoundIsFree(k) ==
  /\ signalsPc[k] \in {"count", "store"} => signalCalls[k] \in 1 .. MaxConnects
  /\ signalsPc[k] \in {"count", "store"} => slots[place[k]] = None

IndInv(k) == SlotTypes(k) /\ FoundIsFree(k) /\ G!HandlesAreOwn

-----------------------------------------------------------------------------
LEMMA InitHolds ==
  ASSUME NEW k, OneConnectorOf(k), G!Init
  PROVE  IndInv(k)
  <1>1. k \in G!Parties /\ 0 \in G!Handles /\ 0 \in 0 .. MaxConnects
    BY DEF OneConnectorOf, G!Parties, G!Handles
  <1>2. slots \in [G!Handles -> G!Connections \cup {None}]
    BY DEF G!Init
  <1>3. /\ signalsPc \in [G!Parties -> Places] /\ signalsPc[k] = "idle"
        /\ place \in [G!Parties -> G!Handles]
    BY <1>1 DEF G!Init, Places
  <1>4. signalCalls \in [G!Parties -> Nat] /\ signalCalls[k] \in 0 .. MaxConnects
    BY <1>1 DEF G!Init
  <1>5. handle \in [G!Connections -> G!Handles \cup {-1}] /\ live = {}
    BY DEF G!Init
  <1> QED
    BY <1>2, <1>3, <1>4, <1>5 DEF IndInv, SlotTypes, FoundIsFree, G!HandlesAreOwn

LEMMA ConnectKeeps ==
  ASSUME NEW k, OneConnectorOf(k), IndInv(k),
         G!FindFree(k) \/ G!FindNone(k) \/ G!CountUp(k) \/ G!Undo(k)
  PROVE  IndInv(k)'
  <1> USE DEF IndInv
  <1>0. k \in G!Parties /\ 0 \in G!Handles
    BY DEF OneConnectorOf, G!Parties, G!Handles
  <1>1. slots' = slots /\ handle' = handle /\ live' = live
    BY DEF G!FindFree, G!FindNone, G!CountUp, G!Undo, G!BeginConnect, G!slotVars
  <1>2. G!HandlesAreOwn'
    BY <1>1 DEF G!HandlesAreOwn
  <1>3. PICK p \in Places : signalsPc' = [signalsPc EXCEPT ![k] = p]
    BY DEF G!FindFree, G!FindNone, G!CountUp, G!Undo, G!Goto, Places
  <1>4. CASE G!FindFree(k) \/ G!FindNone(k)
    <2>1. /\ signalCalls[k] < MaxConnects /\ signalCalls' = [signalCalls EXCEPT ![k] = @ + 1]
          /\ \E h \in G!Handles : place' = [place EXCEPT ![k] = h]
      BY <1>0, <1>4 DEF G!FindFree, G!FindNone, G!BeginConnect, SlotTypes
    <2>2. signalCalls' \in [G!Parties -> Nat] /\ signalCalls'[k] \in 1 .. MaxConnects
      BY <1>0, <2>1 DEF SlotTypes, OneConnectorOf
    <2>3. SlotTypes(k)'
      <3>1. place' \in [G!Parties -> G!Handles] /\ signalsPc' \in [G!Parties -> Places]
        BY <1>0, <1>3, <2>1 DEF SlotTypes
      <3>2. signalCalls'[k] \in 0 .. MaxConnects
        BY <2>2 DEF OneConnectorOf
      <3> QED BY <1>1, <2>2, <3>1, <3>2 DEF SlotTypes
    <2>4. signalsPc'[k] # "idle" => slots[place'[k]] = None
      BY <1>0, <1>4 DEF G!FindFree, G!FindNone, G!Goto, SlotTypes
    <2>5. FoundIsFree(k)'
      BY <1>1, <2>2, <2>4 DEF FoundIsFree
    <2> QED BY <1>2, <2>3, <2>5
  <1>5. CASE G!CountUp(k) \/ G!Undo(k)
    <2>1. signalCalls' = signalCalls /\ (place' = place \/ place' = [place EXCEPT ![k] = 0])
      BY <1>5 DEF G!CountUp, G!Undo
    <2>2. SlotTypes(k)'
      BY <1>0, <1>1, <1>3, <2>1 DEF SlotTypes
    <2>3. signalsPc'[k] \in {"idle", "undo"} \/ (signalsPc[k] = "count" /\ place' = place)
      BY <1>0, <1>5 DEF G!CountUp, G!Undo, G!Goto, SlotTypes
    <2>4. FoundIsFree(k)'
      BY <1>1, <2>1, <2>3 DEF FoundIsFree
    <2> QED BY <1>2, <2>2, <2>4
  <1> QED BY <1>4, <1>5

\* The connection goes into a free slot, to which no live handle leads.
LEMMA StoreKeeps ==
  ASSUME NEW k, OneConnectorOf(k), IndInv(k), G!StoreConnection(k)
  PROVE  IndInv(k)'
  <1> USE DEF IndInv
  <1> DEFINE new == <<k, signalCalls[k]>>
  <1>0. k \in G!Parties /\ 0 \in G!Handles /\ signalsPc[k] = "store" /\ signalsPc'[k] = "idle"
    BY DEF OneConnectorOf, G!Parties, G!Handles, G!StoreConnection, G!Goto, SlotTypes
  <1>1. new \in G!Connections /\ place[k] \in G!Handles /\ slots[place[k]] = None
    BY <1>0 DEF FoundIsFree, G!Connections, OneConnectorOf, SlotTypes
  <1>2. /\ slots' = [slots EXCEPT ![place[k]] = new]
        /\ handle' = [handle EXCEPT ![new] = place[k]]
        /\ live' = live \cup {new}
        /\ place' = [place EXCEPT ![k] = 0] /\ signalCalls' = signalCalls
        /\ signalsPc' = [signalsPc EXCEPT ![k] = "idle"]
    BY DEF G!StoreConnection, G!ConnectionOf, G!Goto
  <1> HIDE DEF new
  <1>3. SlotTypes(k)'
    <2>1. slots' \in [G!Handles -> G!Connections \cup {None}] /\ place' \in [G!Parties -> G!Handles]
      BY <1>0, <1>1, <1>2 DEF SlotTypes
    <2>2. handle' \in [G!Connections -> G!Handles \cup {-1}] /\ live' \subseteq G!Connections
      BY <1>1, <1>2 DEF SlotTypes
    <2>3. \A c \in live' : handle'[c] \in G!Handles
      BY <1>1, <1>2 DEF SlotTypes
    <2>4. signalsPc' \in [G!Parties -> Places]
      BY <1>0, <1>2 DEF SlotTypes, Places
    <2> QED BY <1>2, <2>1, <2>2, <2>3, <2>4 DEF SlotTypes
  <1>4. ASSUME NEW c \in live, c # new PROVE slots'[handle'[c]] = c
    <2>1. slots[handle[c]] = c /\ handle[c] \in G!Handles /\ c \in G!Connections
      BY DEF G!HandlesAreOwn, SlotTypes
    <2>2. handle[c] # place[k]
      BY <1>1, <2>1 DEF OneConnectorOf, G!NoneAssumption
    <2> QED BY <1>1, <1>2, <1>4, <2>1, <2>2 DEF SlotTypes
  <1>5. slots'[handle'[new]] = new
    BY <1>1, <1>2 DEF SlotTypes
  <1>6. G!HandlesAreOwn'
    BY <1>2, <1>4, <1>5 DEF G!HandlesAreOwn
  <1> QED BY <1>0, <1>3, <1>6 DEF FoundIsFree

\* A slot is freed through the handle of its own connection.
LEMMA FreeKeeps ==
  ASSUME NEW k, OneConnectorOf(k), IndInv(k), NEW t \in Observers, NEW c \in G!Connections,
         G!FreeSlot(t, c)
  PROVE  IndInv(k)'
  <1> USE DEF IndInv
  <1>0. t \in G!Parties /\ k \in G!Parties
    BY DEF G!Parties, OneConnectorOf
  <1>1. /\ c \in live /\ handle[c] \in G!Handles
        /\ slots' = [slots EXCEPT ![handle[c]] = None]
        /\ live' = live \ {c} /\ handle' = handle /\ place' = place /\ signalCalls' = signalCalls
        /\ signalsPc' = [signalsPc EXCEPT ![t] = "down"]
    BY DEF G!FreeSlot, G!Goto, OneConnectorOf, SlotTypes
  <1>2. SlotTypes(k)'
    <2>1. slots' \in [G!Handles -> G!Connections \cup {None}]
      BY <1>1 DEF SlotTypes
    <2>2. signalsPc' \in [G!Parties -> Places]
      BY <1>0, <1>1 DEF SlotTypes, Places
    <2> QED BY <1>1, <2>1, <2>2 DEF SlotTypes
  <1>3. FoundIsFree(k)'
    BY <1>0, <1>1 DEF FoundIsFree, SlotTypes
  <1>4. G!HandlesAreOwn'
    BY <1>1 DEF G!HandlesAreOwn, SlotTypes
  <1> QED BY <1>2, <1>3, <1>4

\* Counting down and emitting change no slot and no connection.
LEMMA OthersKeep ==
  ASSUME NEW k, OneConnectorOf(k), IndInv(k),
         \/ \E t \in Observers : G!CountDown(t)
         \/ \E e \in Emitters : \/ G!EmitNothing(e) \/ G!EmitToSlots(e) \/ G!SkipSlot(e)
                                \/ G!SeeSlot(e) \/ G!Notify(e) \/ G!NotifyFreed(e)
  PROVE  IndInv(k)'
  <1> USE DEF IndInv
  <1>0. k \in G!Parties /\ k \notin Emitters
    BY DEF OneConnectorOf, G!Parties
  <1>1. slots' = slots /\ handle' = handle /\ live' = live
    BY DEF G!CountDown, G!EmitNothing, G!EmitToSlots, G!SkipSlot, G!SeeSlot, G!Notify, G!NotifyFreed,
           G!BeginEmit, G!NextSlot, G!slotVars
  <1>2. CASE \E t \in Observers : G!CountDown(t)
    <2> PICK t \in Observers : G!CountDown(t)
      BY <1>2
    <2>1. signalsPc' = [signalsPc EXCEPT ![t] = "idle"] /\ place' = place /\ signalCalls' = signalCalls /\ t \in G!Parties
      BY DEF G!CountDown, G!Goto, G!Parties
    <2>2. signalsPc' \in [G!Parties -> Places] /\ (signalsPc'[k] = signalsPc[k] \/ signalsPc'[k] = "idle")
      BY <1>0, <2>1 DEF SlotTypes, Places
    <2> QED BY <1>1, <2>1, <2>2 DEF SlotTypes, FoundIsFree, G!HandlesAreOwn
  <1>3. ASSUME NEW e \in Emitters,
               \/ G!EmitNothing(e) \/ G!EmitToSlots(e) \/ G!SkipSlot(e)
               \/ G!SeeSlot(e) \/ G!Notify(e) \/ G!NotifyFreed(e)
        PROVE  IndInv(k)'
    <2>0. e \in G!Parties /\ e # k
      BY <1>0 DEF G!Parties
    <2>1. \E p \in Places : signalsPc' = [signalsPc EXCEPT ![e] = p]
      BY <1>3 DEF G!EmitNothing, G!EmitToSlots, G!SkipSlot, G!SeeSlot, G!Notify, G!NotifyFreed,
                  G!NextSlot, G!Goto, Places
    <2>2. signalCalls' = signalCalls \/ signalCalls' = [signalCalls EXCEPT ![e] = @ + 1]
      BY <1>3 DEF G!EmitNothing, G!EmitToSlots, G!SkipSlot, G!SeeSlot, G!Notify, G!NotifyFreed,
                  G!NextSlot, G!BeginEmit
    <2>3. place' = place \/ place' = [place EXCEPT ![e] = (@ + 1) % MaxObservers]
      BY <1>3 DEF G!EmitNothing, G!EmitToSlots, G!SkipSlot, G!SeeSlot, G!Notify, G!NotifyFreed,
                  G!NextSlot, G!BeginEmit
    <2>4. place' \in [G!Parties -> G!Handles] /\ place'[k] = place[k]
      <3>1. (place[e] + 1) % MaxObservers \in G!Handles
        BY <2>0 DEF SlotTypes, OneConnectorOf, G!Handles
      <3> QED BY <2>0, <2>3, <3>1, <1>0 DEF SlotTypes
    <2>5. signalCalls' \in [G!Parties -> Nat] /\ signalCalls'[k] = signalCalls[k]
      BY <1>0, <2>0, <2>2 DEF SlotTypes
    <2>6. signalsPc' \in [G!Parties -> Places] /\ signalsPc'[k] = signalsPc[k]
      BY <1>0, <2>0, <2>1 DEF SlotTypes
    <2> QED BY <1>1, <2>4, <2>5, <2>6 DEF SlotTypes, FoundIsFree, G!HandlesAreOwn
  <1> QED BY <1>2, <1>3

-----------------------------------------------------------------------------
(* The number of observers and the emits.                                  *)

\* The observers that have counted and not stored, or freed and not counted yet.
Pending == {t \in Observers : signalsPc[t] \in {"store", "undo", "down"}}

CallPlaces ==
  /\ \A t \in Observers : signalsPc[t] \in {"idle", "count", "store", "undo", "down"}
  /\ \A e \in Emitters : signalsPc[e] \in {"idle", "visit", "notify", "undefined"}

CallTypes ==
  /\ \A t \in G!Parties : signalCalls[t] \in 0 .. IF t \in Observers THEN MaxConnects ELSE MaxEmits
  /\ wanted \in [Emitters -> SUBSET G!Connections]
  /\ answered \in [Emitters -> SUBSET G!Connections]
  /\ failed \in [Emitters -> SUBSET G!Connections]
  /\ error \in [Emitters -> {"None", "Success", "LimitReached", "NoData"}]

\* The connection that is being made is none of those that were returned.
NewIsNotLive(k) ==
  \A c \in live : /\ c[2] <= signalCalls[k]
                  /\ signalsPc[k] \in {"count", "store", "undo"} => c[2] < signalCalls[k]

Counted == count = Cardinality(live) + Cardinality(Pending)

\* An emit has notified what it wants and has passed.
EmitsKeepUp ==
  \A e \in Emitters :
     /\ wanted[e] \subseteq live
     /\ signalsPc[e] = "idle" => place[e] = 0 /\ wanted[e] \subseteq answered[e]
     /\ signalsPc[e] \in {"visit", "notify"} =>
           \A c \in wanted[e] : handle[c] < place[e] => c \in answered[e]

ExactInv(k) ==
  /\ IndInv(k) /\ CallPlaces /\ CallTypes /\ NewIsNotLive(k) /\ Counted /\ EmitsKeepUp

\* What a thread's step leaves of the places of the others.
LEMMA PlaceStep ==
  ASSUME NEW k, OneConnectorOf(k), IndInv(k), NEW t \in G!Parties, NEW p,
         signalsPc' = [signalsPc EXCEPT ![t] = p]
  PROVE  signalsPc'[t] = p /\ \A u \in G!Parties \ {t} : signalsPc'[u] = signalsPc[u]
  BY DEF IndInv, SlotTypes

\* What the component's own copies of the operators on finite sets mean.
LEMMA SignalSets ==
  ASSUME NEW X
  PROVE  (G!IsFiniteSet(X) <=> IsFiniteSet(X)) /\ G!Cardinality(X) = Cardinality(X)
  BY DEF G!IsFiniteSet, IsFiniteSet, G!Cardinality, Cardinality

\* The numbers behind the number of observers.
LEMMA Numbers ==
  ASSUME NEW k, OneConnectorOf(k), G!SignalAssumption, IndInv(k)
  PROVE  /\ IsFiniteSet(live) /\ Cardinality(live) \in 0 .. MaxObservers
         /\ IsFiniteSet(Pending) /\ Cardinality(Pending) \in Nat
         /\ \A set \in SUBSET Observers :
               /\ IsFiniteSet(set) /\ Cardinality(set) \in Nat
               /\ Cardinality(live) + Cardinality(set) \in 0 .. CountRange - 1
  <1>1. IsFiniteSet(G!Handles) /\ Cardinality(G!Handles) = MaxObservers
    BY FS_Interval DEF OneConnectorOf, G!Handles
  <1> DEFINE f == [c \in live |-> handle[c]]
  <1>2. f \in Injection(live, G!Handles)
    BY DEF IndInv, SlotTypes, G!HandlesAreOwn, Injection, IsInjective
  <1>3. IsFiniteSet(live) /\ Cardinality(live) <= MaxObservers
    BY <1>1, <1>2, FS_Injection
  <1>4. Cardinality(live) \in 0 .. MaxObservers
    BY <1>3, FS_CardinalityType DEF OneConnectorOf
  <1>5. ASSUME NEW set \in SUBSET Observers
        PROVE  /\ IsFiniteSet(set) /\ Cardinality(set) \in Nat
               /\ Cardinality(live) + Cardinality(set) \in 0 .. CountRange - 1
    <2>1. IsFiniteSet(Observers) /\ IsFiniteSet(set) /\ Cardinality(set) <= Cardinality(Observers)
      <3>1. IsFiniteSet(Observers)
        BY SignalSets DEF G!SignalAssumption
      <3> QED BY <3>1, FS_Subset
    <2>2. Cardinality(set) \in Nat /\ Cardinality(Observers) \in Nat
      BY <2>1, FS_CardinalityType
    <2>3. G!Cardinality(Observers) = Cardinality(Observers)
      BY SignalSets
    <2> QED BY <1>4, <2>1, <2>2, <2>3 DEF G!SignalAssumption
  <1>6. Pending \in SUBSET Observers
    BY DEF Pending
  <1> QED BY <1>3, <1>4, <1>5, <1>6

LEMMA InitExact ==
  ASSUME NEW k, OneConnectorOf(k), G!SignalAssumption, G!Init
  PROVE  ExactInv(k)
  <1>1. live = {} /\ Pending = {} /\ count = 0
    BY DEF G!Init, Pending, G!Parties
  <1>2. Counted
    BY <1>1, FS_EmptySet DEF Counted
  <1>3. CallPlaces /\ NewIsNotLive(k) /\ EmitsKeepUp
    BY <1>1 DEF G!Init, CallPlaces, NewIsNotLive, EmitsKeepUp, G!Parties
  <1>4. CallTypes
    <2>1. MaxConnects \in Nat /\ MaxEmits \in Nat
      BY DEF G!SignalAssumption
    <2> QED BY <2>1 DEF G!Init, CallTypes
  <1> QED BY <1>2, <1>3, <1>4, InitHolds DEF ExactInv

LEMMA ConnectExact ==
  ASSUME NEW k, OneConnectorOf(k), G!SignalAssumption, ExactInv(k),
         G!FindFree(k) \/ G!FindNone(k) \/ G!CountUp(k) \/ G!Undo(k)
  PROVE  ExactInv(k)'
  <1> USE DEF ExactInv
  <1>0. k \in G!Parties /\ k \in Observers /\ \A e \in Emitters : e \in G!Parties /\ e # k
    BY DEF OneConnectorOf, G!Parties
  <1>1. /\ UNCHANGED <<slots, handle, live, wanted, answered, failed, error>>
        /\ \A e \in Emitters : place'[e] = place[e]
    BY <1>0 DEF G!FindFree, G!FindNone, G!CountUp, G!Undo, G!BeginConnect, G!slotVars, G!emitVars, IndInv,
                SlotTypes
  <1>2. PICK p \in {"idle", "count", "store", "undo"} : signalsPc' = [signalsPc EXCEPT ![k] = p]
    BY DEF G!FindFree, G!FindNone, G!CountUp, G!Undo, G!Goto
  <1>3. signalsPc'[k] = p /\ \A u \in G!Parties \ {k} : signalsPc'[u] = signalsPc[u]
    BY <1>0, <1>2, PlaceStep
  <1>4. \A e \in Emitters : signalsPc'[e] = signalsPc[e]
    BY <1>0, <1>3
  <1>5. CallPlaces' /\ EmitsKeepUp'
    BY <1>1, <1>3, <1>4 DEF CallPlaces, EmitsKeepUp, G!Parties
  <1>6. CASE G!FindFree(k) \/ G!FindNone(k)
    <2>1. /\ signalCalls[k] < MaxConnects /\ signalCalls' = [signalCalls EXCEPT ![k] = @ + 1] /\ count' = count
          /\ signalsPc[k] = "idle" /\ p \in {"idle", "count"}
      BY <1>0, <1>3, <1>6 DEF G!FindFree, G!FindNone, G!BeginConnect, G!Goto, G!slotVars,
                                 IndInv, SlotTypes
    <2>2. /\ signalCalls'[k] = signalCalls[k] + 1 /\ signalCalls[k] \in Nat /\ MaxConnects \in Nat
          /\ \A t \in G!Parties \ {k} : signalCalls'[t] = signalCalls[t]
      BY <1>0, <2>1 DEF IndInv, SlotTypes, OneConnectorOf
    <2>3. CallTypes'
      <3>1. \A t \in G!Parties :
               signalCalls'[t] \in 0 .. IF t \in Observers THEN MaxConnects ELSE MaxEmits
        BY <1>0, <2>1, <2>2 DEF CallTypes
      <3> QED BY <1>1, <3>1 DEF CallTypes
    <2>4. NewIsNotLive(k)'
      <3>1. \A c \in live : c[2] \in Nat
        BY DEF IndInv, SlotTypes, G!Connections
      <3> QED BY <1>1, <2>2, <3>1 DEF NewIsNotLive
    <2>5. Pending' = Pending
      BY <1>3, <2>1 DEF Pending, G!Parties
    <2> QED BY <1>1, <1>5, <2>1, <2>3, <2>4, <2>5, ConnectKeeps DEF Counted
  <1>7. CASE G!CountUp(k)
    <2>1. /\ signalsPc[k] = "count" /\ p \in {"store", "undo"} /\ signalCalls' = signalCalls
          /\ count' = (count + 1) % CountRange
      BY <1>3, <1>7, <1>0 DEF G!CountUp, G!Goto, IndInv, SlotTypes
    <2>2. Pending' = Pending \cup {k} /\ k \notin Pending
      BY <1>0, <1>3, <2>1 DEF Pending, G!Parties
    <2>3. Cardinality(Pending') = Cardinality(Pending) + 1
      BY <2>2, Numbers, FS_AddElement
    <2>4. /\ Cardinality(live) + Cardinality(Pending') \in 0 .. CountRange - 1
          /\ Cardinality(live) \in Nat /\ Cardinality(Pending) \in Nat /\ CountRange \in Nat
      <3>1. Pending' \in SUBSET Observers
        BY DEF Pending
      <3> QED BY <3>1, Numbers DEF G!SignalAssumption
    <2>5. count + 1 = Cardinality(live) + Cardinality(Pending')
      BY <2>3, <2>4 DEF Counted
    <2>6. count' = Cardinality(live) + Cardinality(Pending')
      BY <2>1, <2>4, <2>5
    <2>7. NewIsNotLive(k)' /\ CallTypes' /\ Counted'
      BY <1>1, <1>3, <2>1, <2>6 DEF NewIsNotLive, CallTypes, Counted
    <2> QED BY <1>5, <1>7, <2>7, ConnectKeeps
  <1>8. CASE G!Undo(k)
    <2>1. signalsPc[k] = "undo" /\ p = "idle" /\ signalCalls' = signalCalls /\ count' = (count - 1) % CountRange
      BY <1>3, <1>8, <1>0 DEF G!Undo, G!Goto, IndInv, SlotTypes
    <2>2. Pending' = Pending \ {k} /\ k \in Pending
      BY <1>0, <1>3, <2>1 DEF Pending, G!Parties
    <2>3. Cardinality(Pending') = Cardinality(Pending) - 1
      BY <2>2, Numbers, FS_RemoveElement
    <2>4. /\ Cardinality(live) + Cardinality(Pending') \in 0 .. CountRange - 1
          /\ Cardinality(live) \in Nat /\ Cardinality(Pending) \in Nat /\ CountRange \in Nat
      <3>1. Pending' \in SUBSET Observers
        BY DEF Pending
      <3> QED BY <3>1, Numbers DEF G!SignalAssumption
    <2>5. count - 1 = Cardinality(live) + Cardinality(Pending')
      BY <2>3, <2>4 DEF Counted
    <2>6. count' = Cardinality(live) + Cardinality(Pending')
      BY <2>1, <2>4, <2>5
    <2>7. NewIsNotLive(k)' /\ CallTypes' /\ Counted'
      BY <1>1, <1>3, <2>1, <2>6 DEF NewIsNotLive, CallTypes, Counted
    <2> QED BY <1>5, <1>8, <2>7, ConnectKeeps
  <1> QED BY <1>6, <1>7, <1>8

LEMMA StoreExact ==
  ASSUME NEW k, OneConnectorOf(k), G!SignalAssumption, ExactInv(k), G!StoreConnection(k)
  PROVE  ExactInv(k)'
  <1> USE DEF ExactInv
  <1> DEFINE new == <<k, signalCalls[k]>>
  <1>0. k \in G!Parties /\ k \in Observers /\ \A e \in Emitters : e \in G!Parties /\ e # k
    BY DEF OneConnectorOf, G!Parties
  <1>1. /\ signalsPc[k] = "store" /\ signalsPc' = [signalsPc EXCEPT ![k] = "idle"] /\ place' = [place EXCEPT ![k] = 0]
        /\ handle' = [handle EXCEPT ![new] = place[k]] /\ live' = live \cup {new}
        /\ UNCHANGED <<count, signalCalls, wanted, answered, failed, error>>
    BY DEF G!StoreConnection, G!ConnectionOf, G!Goto, G!emitVars
  <1>2. new \in G!Connections /\ new[2] = signalCalls[k] /\ signalCalls[k] \in Nat
    BY <1>0, <1>1 DEF IndInv, FoundIsFree, SlotTypes, G!Connections, OneConnectorOf
  <1>3. /\ signalsPc'[k] = "idle" /\ \A u \in G!Parties \ {k} : signalsPc'[u] = signalsPc[u]
    BY <1>0, <1>1, PlaceStep
  <1>4. \A c \in live : c \in G!Connections /\ c[2] \in Nat /\ c[2] < signalCalls[k]
    BY <1>1 DEF NewIsNotLive, IndInv, SlotTypes, G!Connections
  <1>5. new \notin live
    BY <1>2, <1>4
  <1>6. \A e \in Emitters : signalsPc'[e] = signalsPc[e] /\ place'[e] = place[e]
    BY <1>0, <1>1, <1>3 DEF IndInv, SlotTypes
  <1>7. \A c \in live : handle'[c] = handle[c]
    BY <1>1, <1>4, <1>5 DEF IndInv, SlotTypes
  <1>8. CallPlaces' /\ CallTypes'
    BY <1>1, <1>3 DEF CallPlaces, CallTypes, G!Parties
  <1>9. EmitsKeepUp'
    BY <1>1, <1>6, <1>7 DEF EmitsKeepUp
  <1>10. NewIsNotLive(k)'
    BY <1>1, <1>2, <1>3, <1>4 DEF NewIsNotLive
  <1>11. Counted'
    <2>1. Pending' = Pending \ {k} /\ k \in Pending
      BY <1>0, <1>1, <1>3 DEF Pending, G!Parties
    <2>2. Cardinality(Pending') = Cardinality(Pending) - 1
      BY <2>1, Numbers, FS_RemoveElement
    <2>3. Cardinality(live') = Cardinality(live) + 1
      BY <1>1, <1>5, Numbers, FS_AddElement
    <2>4. Cardinality(live) \in Nat /\ Cardinality(Pending) \in Nat
      BY Numbers
    <2> QED BY <1>1, <2>2, <2>3, <2>4 DEF Counted
  <1> QED BY <1>8, <1>9, <1>10, <1>11, StoreKeeps

LEMMA FreeExact ==
  ASSUME NEW k, OneConnectorOf(k), G!SignalAssumption, ExactInv(k), NEW t \in Observers,
         NEW c \in G!Connections, G!FreeSlot(t, c)
  PROVE  ExactInv(k)'
  <1> USE DEF ExactInv
  <1>0. /\ t \in G!Parties /\ k \in G!Parties /\ \A e \in Emitters : e \in G!Parties /\ e # t
    BY DEF OneConnectorOf, G!Parties
  <1>1. /\ signalsPc[t] = "idle" /\ signalsPc' = [signalsPc EXCEPT ![t] = "down"] /\ c \in live
        /\ live' = live \ {c} /\ wanted' = [e \in Emitters |-> wanted[e] \ {c}]
        /\ UNCHANGED <<count, place, signalCalls, handle, answered, failed, error>>
    BY DEF G!FreeSlot, G!Goto, OneConnectorOf, G!emitVars
  <1>2. /\ signalsPc'[t] = "down" /\ \A u \in G!Parties \ {t} : signalsPc'[u] = signalsPc[u]
    BY <1>0, <1>1, PlaceStep
  <1>3. CallPlaces' /\ CallTypes'
    BY <1>0, <1>1, <1>2 DEF CallPlaces, CallTypes, G!Parties
  <1>4. NewIsNotLive(k)'
    BY <1>0, <1>1, <1>2 DEF NewIsNotLive
  <1>5. EmitsKeepUp'
    BY <1>0, <1>1, <1>2 DEF EmitsKeepUp
  <1>6. Counted'
    <2>1. Pending' = Pending \cup {t} /\ t \notin Pending
      BY <1>0, <1>1, <1>2 DEF Pending, G!Parties
    <2>2. Cardinality(Pending') = Cardinality(Pending) + 1
      BY <2>1, Numbers, FS_AddElement
    <2>3. Cardinality(live') = Cardinality(live) - 1
      BY <1>1, Numbers, FS_RemoveElement
    <2>4. Cardinality(live) \in Nat /\ Cardinality(Pending) \in Nat
      BY Numbers
    <2> QED BY <1>1, <2>2, <2>3, <2>4 DEF Counted
  <1> QED BY <1>3, <1>4, <1>5, <1>6, FreeKeeps

LEMMA DownExact ==
  ASSUME NEW k, OneConnectorOf(k), G!SignalAssumption, ExactInv(k), NEW t \in Observers,
         G!CountDown(t)
  PROVE  ExactInv(k)'
  <1> USE DEF ExactInv
  <1>0. /\ t \in G!Parties /\ k \in G!Parties /\ \A e \in Emitters : e \in G!Parties /\ e # t
    BY DEF OneConnectorOf, G!Parties
  <1>1. /\ signalsPc[t] = "down" /\ signalsPc' = [signalsPc EXCEPT ![t] = "idle"]
        /\ count' = (count - 1) % CountRange
        /\ UNCHANGED <<place, signalCalls, handle, live, wanted, answered, failed, error>>
    BY DEF G!CountDown, G!Goto, G!emitVars
  <1>2. /\ signalsPc'[t] = "idle" /\ \A u \in G!Parties \ {t} : signalsPc'[u] = signalsPc[u]
    BY <1>0, <1>1, PlaceStep
  <1>3. CallPlaces' /\ CallTypes' /\ NewIsNotLive(k)' /\ EmitsKeepUp'
    BY <1>0, <1>1, <1>2 DEF CallPlaces, CallTypes, NewIsNotLive, EmitsKeepUp, G!Parties
  <1>4. Counted'
    <2>1. Pending' = Pending \ {t} /\ t \in Pending
      BY <1>0, <1>1, <1>2 DEF Pending, G!Parties
    <2>2. Cardinality(Pending') = Cardinality(Pending) - 1
      BY <2>1, Numbers, FS_RemoveElement
    <2>3. /\ Cardinality(live) + Cardinality(Pending') \in 0 .. CountRange - 1
          /\ Cardinality(live) \in Nat /\ Cardinality(Pending) \in Nat /\ CountRange \in Nat
      <3>1. Pending' \in SUBSET Observers
        BY DEF Pending
      <3> QED BY <3>1, Numbers DEF G!SignalAssumption
    <2>4. count - 1 = Cardinality(live) + Cardinality(Pending')
      BY <2>2, <2>3 DEF Counted
    <2> QED BY <1>1, <2>3, <2>4 DEF Counted
  <1> QED BY <1>3, <1>4, OthersKeep

\* A step of an emitter: no other thread and no connection is concerned.
LEMMA EmitStep ==
  ASSUME NEW k, OneConnectorOf(k), G!SignalAssumption, ExactInv(k), NEW e \in Emitters,
         \/ G!EmitNothing(e) \/ G!EmitToSlots(e) \/ G!SkipSlot(e)
         \/ G!SeeSlot(e) \/ G!Notify(e) \/ G!NotifyFreed(e)
  PROVE  /\ IndInv(k)' /\ NewIsNotLive(k)' /\ Counted'
         /\ UNCHANGED <<slots, count, live, handle>>
         /\ signalsPc \in [G!Parties -> Places] /\ e \in G!Parties /\ place \in [G!Parties -> G!Handles]
         /\ \A u \in Emitters \ {e} : /\ u \in G!Parties /\ signalsPc'[u] = signalsPc[u] /\ place'[u] = place[u]
         /\ \A u \in Observers : signalsPc'[u] = signalsPc[u]
  <1> USE DEF ExactInv
  <1>0. /\ e \in G!Parties /\ k \in G!Parties /\ e # k /\ \A u \in Observers : u \in G!Parties \ {e}
        /\ \A u \in Emitters : u \in G!Parties
    BY DEF OneConnectorOf, G!Parties
  <1>1. UNCHANGED <<slots, count, live, handle>>
    BY DEF G!EmitNothing, G!EmitToSlots, G!SkipSlot, G!SeeSlot, G!Notify, G!NotifyFreed, G!BeginEmit,
           G!NextSlot, G!slotVars
  <1>2. PICK p : signalsPc' = [signalsPc EXCEPT ![e] = p]
    BY DEF G!EmitNothing, G!EmitToSlots, G!SkipSlot, G!SeeSlot, G!Notify, G!NotifyFreed, G!NextSlot, G!Goto
  <1>3. /\ \A u \in G!Parties \ {e} : signalsPc'[u] = signalsPc[u]
        /\ signalsPc \in [G!Parties -> Places] /\ place \in [G!Parties -> G!Handles]
        /\ signalCalls \in [G!Parties -> Nat]
    BY <1>0, <1>2 DEF IndInv, SlotTypes
  <1>4. \A u \in G!Parties \ {e} : place'[u] = place[u] /\ signalCalls'[u] = signalCalls[u]
    <2>1. place' = place \/ place' = [place EXCEPT ![e] = (@ + 1) % MaxObservers]
      BY DEF G!EmitNothing, G!EmitToSlots, G!SkipSlot, G!SeeSlot, G!Notify, G!NotifyFreed, G!NextSlot,
             G!BeginEmit
    <2>2. signalCalls' = signalCalls \/ signalCalls' = [signalCalls EXCEPT ![e] = @ + 1]
      BY DEF G!EmitNothing, G!EmitToSlots, G!SkipSlot, G!SeeSlot, G!Notify, G!NotifyFreed, G!NextSlot,
             G!BeginEmit
    <2> QED BY <1>0, <1>3, <2>1, <2>2
  <1>5. Pending' = Pending
    BY <1>0, <1>3 DEF Pending
  <1>6. NewIsNotLive(k)' /\ Counted'
    BY <1>0, <1>1, <1>3, <1>4, <1>5 DEF NewIsNotLive, Counted
  <1>7. IndInv(k)'
    BY OthersKeep
  <1> QED BY <1>0, <1>1, <1>3, <1>4, <1>6, <1>7

LEMMA BeginEmitExact ==
  ASSUME NEW k, OneConnectorOf(k), G!SignalAssumption, ExactInv(k), NEW e \in Emitters,
         G!EmitNothing(e) \/ G!EmitToSlots(e)
  PROVE  ExactInv(k)'
  <1> USE DEF ExactInv
  <1>0. /\ signalsPc \in [G!Parties -> Places] /\ e \in G!Parties /\ place \in [G!Parties -> G!Handles]
        /\ UNCHANGED <<slots, count, live, handle>>
        /\ \A u \in Emitters \ {e} : /\ u \in G!Parties /\ signalsPc'[u] = signalsPc[u] /\ place'[u] = place[u]
        /\ \A u \in Observers : signalsPc'[u] = signalsPc[u]
    BY EmitStep
  <1>1. /\ signalsPc[e] = "idle" /\ signalCalls[e] < MaxEmits /\ place' = place
        /\ signalCalls' = [signalCalls EXCEPT ![e] = @ + 1]
        /\ error' = [error EXCEPT ![e] = "NoData"] /\ wanted' = [wanted EXCEPT ![e] = live]
        /\ answered' = [answered EXCEPT ![e] = {}] /\ failed' = [failed EXCEPT ![e] = {}]
        /\ \/ count = 0 /\ signalsPc' = [signalsPc EXCEPT ![e] = "idle"]
           \/ signalsPc' = [signalsPc EXCEPT ![e] = "visit"]
    BY DEF G!EmitNothing, G!EmitToSlots, G!BeginEmit, G!Goto
  <1>2. CallPlaces'
    BY <1>0, <1>1 DEF CallPlaces
  <1>3. CallTypes'
    <2>1. e \notin Observers /\ signalCalls[e] \in Nat /\ MaxEmits \in Nat
      BY <1>0 DEF G!SignalAssumption, IndInv, SlotTypes
    <2>2. \A t \in G!Parties : signalCalls'[t] \in 0 .. IF t \in Observers THEN MaxConnects ELSE MaxEmits
      BY <1>1, <2>1 DEF CallTypes, IndInv, SlotTypes
    <2>3. live \in SUBSET G!Connections
      BY DEF IndInv, SlotTypes
    <2> QED BY <1>1, <2>2, <2>3 DEF CallTypes
  <1>4. EmitsKeepUp'
    <2>1. ASSUME NEW u \in Emitters \ {e}
          PROVE  wanted'[u] = wanted[u] /\ answered'[u] = answered[u]
      BY <1>1 DEF CallTypes
    <2>2. wanted'[e] = live /\ answered'[e] = {} /\ place[e] = 0
      BY <1>1 DEF CallTypes, EmitsKeepUp
    <2>3. count = 0 => live = {}
      <3>1. count = 0 => Cardinality(live) = 0
        BY Numbers DEF Counted
      <3> QED BY <3>1, Numbers, FS_EmptySet
    <2>4. \A c \in live : handle[c] >= 0
      BY DEF IndInv, SlotTypes, G!Handles
    <2>5. \/ count = 0 /\ signalsPc'[e] = "idle"
          \/ signalsPc'[e] = "visit"
      BY <1>0, <1>1
    <2>6. /\ wanted'[e] \subseteq live'
          /\ signalsPc'[e] = "idle" => place'[e] = 0 /\ wanted'[e] \subseteq answered'[e]
          /\ signalsPc'[e] \in {"visit", "notify"} =>
                \A c \in wanted'[e] : handle'[c] < place'[e] => c \in answered'[e]
      <3>1. \A c \in live : ~(handle[c] < 0)
        BY DEF IndInv, SlotTypes, G!Handles
      <3> QED BY <1>0, <1>1, <2>2, <2>3, <2>5, <3>1
    <2> QED BY <1>0, <2>1, <2>6 DEF EmitsKeepUp
  <1> QED BY <1>2, <1>3, <1>4, EmitStep

LEMMA NextSlotExact ==
  ASSUME NEW k, OneConnectorOf(k), G!SignalAssumption, ExactInv(k), NEW e \in Emitters,
         G!SkipSlot(e) \/ G!Notify(e)
  PROVE  ExactInv(k)'
  <1> USE DEF ExactInv
  <1>0. /\ signalsPc \in [G!Parties -> Places] /\ e \in G!Parties /\ place \in [G!Parties -> G!Handles]
        /\ UNCHANGED <<slots, count, live, handle>>
        /\ \A u \in Emitters \ {e} : /\ u \in G!Parties /\ signalsPc'[u] = signalsPc[u] /\ place'[u] = place[u]
        /\ \A u \in Observers : signalsPc'[u] = signalsPc[u]
    BY EmitStep
  <1>1. /\ signalsPc[e] \in {"visit", "notify"} /\ UNCHANGED <<signalCalls, wanted>>
        /\ signalsPc' = [signalsPc EXCEPT ![e] = IF place[e] = MaxObservers - 1 THEN "idle" ELSE "visit"]
        /\ place' = [place EXCEPT ![e] = (@ + 1) % MaxObservers]
    BY DEF G!SkipSlot, G!Notify, G!NextSlot, G!Goto
  <1>2. /\ MaxObservers \in Nat \ {0} /\ place[e] \in 0 .. MaxObservers - 1
        /\ place'[e] = (place[e] + 1) % MaxObservers
        /\ signalsPc'[e] = IF place[e] = MaxObservers - 1 THEN "idle" ELSE "visit"
    BY <1>0, <1>1 DEF OneConnectorOf, G!Handles
  <1>3. \/ place[e] = MaxObservers - 1 /\ signalsPc'[e] = "idle" /\ place'[e] = 0
        \/ place[e] + 1 < MaxObservers /\ signalsPc'[e] = "visit" /\ place'[e] = place[e] + 1
    BY <1>2
  <1>4. slots[place[e]] \in G!Connections \cup {None} /\ None \notin G!Connections
    BY <1>0 DEF IndInv, SlotTypes, OneConnectorOf, G!NoneAssumption
  <1>5. PICK added \in SUBSET G!Connections :
          /\ answered' = [answered EXCEPT ![e] = @ \cup added]
          /\ slots[place[e]] # None => slots[place[e]] \in added
    <2>1. CASE G!SkipSlot(e)
      <3>1. answered' = [answered EXCEPT ![e] = @ \cup {}] /\ slots[place[e]] = None
        BY <2>1 DEF G!SkipSlot, G!emitVars, CallTypes
      <3> WITNESS {} \in SUBSET G!Connections
      <3> QED BY <3>1
    <2>2. CASE G!Notify(e)
      <3>1. /\ answered' = [answered EXCEPT ![e] = @ \cup {slots[place[e]]}]
            /\ slots[place[e]] \in G!Connections
        BY <1>4, <2>2 DEF G!Notify
      <3> QED BY <3>1
    <2> QED BY <2>1, <2>2
  <1>6. /\ answered'[e] = answered[e] \cup added
        /\ \A u \in Emitters \ {e} : answered'[u] = answered[u]
        /\ answered' \in [Emitters -> SUBSET G!Connections]
    BY <1>5 DEF CallTypes
  <1>7. CallPlaces'
    BY <1>0, <1>3 DEF CallPlaces
  <1>8. CallTypes'
    <2>1. /\ failed' \in [Emitters -> SUBSET G!Connections]
          /\ error' \in [Emitters -> {"None", "Success", "LimitReached", "NoData"}]
      <3>1. CASE G!SkipSlot(e)
        BY <3>1 DEF G!SkipSlot, G!emitVars, CallTypes
      <3>2. CASE G!Notify(e)
        <4>1. slots[place[e]] \in G!Connections
          BY <1>4, <3>2 DEF G!Notify
        <4> QED BY <3>2, <4>1 DEF G!Notify, CallTypes
      <3> QED BY <3>1, <3>2
    <2> QED BY <1>1, <1>6, <2>1 DEF CallTypes
  <1>9. \A c \in wanted[e] : handle[c] <= place[e] => c \in answered'[e]
    <2> SUFFICES ASSUME NEW c \in wanted[e], handle[c] <= place[e] PROVE c \in answered'[e]
      OBVIOUS
    <2>1. c \in live /\ c \in G!Connections /\ handle[c] \in G!Handles /\ slots[handle[c]] = c
      BY DEF EmitsKeepUp, IndInv, SlotTypes, G!HandlesAreOwn
    <2>2. CASE handle[c] = place[e]
      BY <1>4, <1>5, <1>6, <2>1, <2>2
    <2>3. CASE handle[c] # place[e]
      <3>1. handle[c] < place[e]
        BY <1>2, <2>1, <2>3 DEF G!Handles
      <3> QED BY <1>1, <1>6, <3>1 DEF EmitsKeepUp
    <2> QED BY <2>2, <2>3
  <1>10. EmitsKeepUp'
    <2>1. \A c \in wanted[e] : handle[c] \in 0 .. MaxObservers - 1
      BY DEF EmitsKeepUp, IndInv, SlotTypes, G!Handles
    <2>2. /\ signalsPc'[e] = "idle" => place'[e] = 0 /\ wanted[e] \subseteq answered'[e]
          /\ signalsPc'[e] = "visit" => \A c \in wanted[e] : handle[c] < place'[e] => c \in answered'[e]
          /\ signalsPc'[e] # "notify"
      BY <1>2, <1>3, <1>9, <2>1
    <2> QED BY <1>0, <1>1, <1>6, <2>2 DEF EmitsKeepUp
  <1> QED BY <1>7, <1>8, <1>10, EmitStep

LEMMA SeeSlotExact ==
  ASSUME NEW k, OneConnectorOf(k), G!SignalAssumption, ExactInv(k), NEW e \in Emitters,
         G!SeeSlot(e) \/ G!NotifyFreed(e)
  PROVE  ExactInv(k)'
  <1> USE DEF ExactInv
  <1>0. /\ signalsPc \in [G!Parties -> Places] /\ e \in G!Parties /\ place \in [G!Parties -> G!Handles]
        /\ UNCHANGED <<slots, count, live, handle>>
        /\ \A u \in Emitters \ {e} : /\ u \in G!Parties /\ signalsPc'[u] = signalsPc[u] /\ place'[u] = place[u]
        /\ \A u \in Observers : signalsPc'[u] = signalsPc[u]
    BY EmitStep
  <1>1. /\ signalsPc[e] \in {"visit", "notify"}
        /\ UNCHANGED <<place, signalCalls, wanted, answered, failed, error>>
        /\ \E p \in {"notify", "undefined"} : signalsPc' = [signalsPc EXCEPT ![e] = p]
    BY DEF G!SeeSlot, G!NotifyFreed, G!Goto, G!emitVars
  <1>2. signalsPc'[e] \in {"notify", "undefined"}
    BY <1>0, <1>1
  <1>3. CallPlaces' /\ CallTypes' /\ EmitsKeepUp'
    BY <1>0, <1>1, <1>2 DEF CallPlaces, CallTypes, EmitsKeepUp
  <1> QED BY <1>3, EmitStep

LEMMA ExactStep ==
  ASSUME NEW k, OneConnectorOf(k), G!SignalAssumption, ExactInv(k), [G!Next]_signalsVars
  PROVE  ExactInv(k)'
  <1>1. CASE UNCHANGED signalsVars
    BY <1>1 DEF signalsVars, G!slotVars, G!emitVars, ExactInv, IndInv, SlotTypes, FoundIsFree,
                G!HandlesAreOwn, CallPlaces, CallTypes, NewIsNotLive, Counted, Pending,
                EmitsKeepUp
  <1>2. CASE G!Next
    BY <1>2, ConnectExact, StoreExact, FreeExact, DownExact, BeginEmitExact,
       NextSlotExact, SeeSlotExact DEF G!Next, OneConnectorOf
  <1> QED BY <1>1, <1>2

LEMMA ExactShows ==
  ASSUME NEW k, OneConnectorOf(k), G!SignalAssumption, ExactInv(k)
  PROVE  G!SignalsAreExact
  <1> USE DEF ExactInv
  <1>1. G!CountIsExact
    BY SignalSets DEF Counted, Pending, G!CountIsExact, G!At
  <1>2. count \in 0 .. CountRange - 1
    <2>1. Pending \in SUBSET Observers
      BY DEF Pending
    <2> QED BY <2>1, Numbers DEF Counted
  <1>3. G!TypeOK
    BY <1>2 DEF G!TypeOK, IndInv, SlotTypes, CallTypes, Places
  <1>4. G!HandlesAreOwn /\ G!EveryObserverIsNotified
    BY DEF IndInv, EmitsKeepUp, G!EveryObserverIsNotified
  <1> QED BY <1>1, <1>3, <1>4 DEF G!SignalsAreExact

\* A handle leads to its own connection, the number of observers is exact, and an
\* emit calls everyone who was connected all the time, for any number of slots,
\* observers and emitters, as long as one thread connects and no handle is
\* disconnected twice (SignalsAndSlots.hpp, connect, disconnect and emit).
THEOREM SignalsAreExactWithOneConnector ==
  ASSUME NEW k, Connectors = {k}, Twice = FALSE
  PROVE  PartSpec => []SignalsAreExact
  <1> DEFINE Inv == part = "signals" => ExactInv(k)
  <1>0. OneConnectorOf(k) /\ G!SignalAssumption
    BY Parameters DEF OneConnectorOf, G!SignalAssumption
  <1>1. PartInit => Inv
    BY <1>0, InitExact DEF PartInit
  <1>2. Inv /\ [PartNext]_allVars => Inv'
    BY <1>0, PartSteps, ExactStep
  <1>3. Inv => SignalsAreExact
    BY <1>0, ExactShows DEF SignalsAreExact
  <1> QED BY <1>1, <1>2, <1>3, PTL DEF PartSpec

-----------------------------------------------------------------------------
(* Pools: with one thread that calls, beside the thread of the queue.      *)

PoolEvents == [call : Callers \X Nat, block : P!Indices, done : BOOLEAN]

Held(c) == <<c, calls[c]>>

\* The caller marks a block that nobody has marked since it looked, for only the
\* caller marks; and it holds the block it has marked until it leaves the call.
CallerHolds(c) ==
  /\ pc[c] \in {"mark", "add"} => at[c] \in P!Indices
  /\ pc[c] = "mark" => ~marked[at[c]]
  /\ pc[c] = "add" => Held(c) \in holders[at[c]]

\* An event that has not run holds its block; no two events are of one call, and
\* none is of the call that is going on.
EventsHold(c) ==
  /\ \A k \in 1 .. Len(queue) :
        /\ ~queue[k].done => queue[k].call \in holders[queue[k].block]
        /\ queue[k].call[2] <= calls[c]
        /\ pc[c] # "idle" => queue[k].call # Held(c)
  /\ \A j, k \in 1 .. Len(queue) : j # k => queue[j].call # queue[k].call

HeldInv(c) == P!TypeOK /\ P!BlocksAreExclusive /\ CallerHolds(c) /\ EventsHold(c)

-----------------------------------------------------------------------------
\* What Tail leaves of a queue: every event one place further on.
LEMMA TailOfPoolEvents ==
  ASSUME NEW E, NEW q \in Seq(E), q # <<>>
  PROVE  /\ Tail(q) \in Seq(E)
         /\ Len(Tail(q)) = Len(q) - 1
         /\ \A k \in 1 .. Len(Tail(q)) : k + 1 \in 1 .. Len(q) /\ Tail(q)[k] = q[k + 1]
  OBVIOUS

LEMMA PoolEventTypes ==
  ASSUME queue \in Seq(PoolEvents)
  PROVE  \A k \in 1 .. Len(queue) : /\ queue[k] \in PoolEvents
                                    /\ queue[k].call \in Callers \X Nat
                                    /\ queue[k].call[2] \in Nat
                                    /\ queue[k].block \in P!Indices
                                    /\ queue[k].done \in BOOLEAN
  <1> SUFFICES ASSUME NEW k \in 1 .. Len(queue)
               PROVE  queue[k] \in PoolEvents
    BY DEF PoolEvents
  <1> QED OBVIOUS

LEMMA PoolStarts ==
  ASSUME P!BufferPoolAssumption, NEW c, Callers = {c}, P!Init
  PROVE  HeldInv(c)
  <1>1. queue \in Seq(PoolEvents)
    BY DEF P!Init
  <1>2. /\ poolUser \in PoolUsers /\ marked \in [P!Indices -> BOOLEAN]
        /\ pc \in [Callers -> {"idle", "look", "mark", "add"}]
        /\ full \in [Callers -> BOOLEAN] /\ noMemory \in BOOLEAN
    BY DEF P!Init
  <1>3. at \in [Callers -> 1 .. Blocks + 1] /\ calls \in [Callers -> 0 .. MaxCalls]
    <2>1. 1 \in 1 .. Blocks + 1 /\ 0 \in 0 .. MaxCalls
      BY DEF P!BufferPoolAssumption
    <2> QED BY <2>1 DEF P!Init
  <1>4. holders \in [P!Indices -> SUBSET (Callers \X Nat)]
    BY DEF P!Init
  <1>5. P!TypeOK
    BY <1>1, <1>2, <1>3, <1>4 DEF P!TypeOK, PoolEvents
  <1> QED
    BY <1>5 DEF P!Init, HeldInv, P!BlocksAreExclusive, CallerHolds, EventsHold, Held

\* The steps of the caller before it has a block.
LEMMA SearchKeeps ==
  ASSUME P!BufferPoolAssumption, NEW c, Callers = {c}, HeldInv(c),
         P!BeginCall(c) \/ P!LookAtBlock(c) \/ P!FindNoBlock(c)
  PROVE  HeldInv(c)'
  <1> USE DEF HeldInv
  <1>0. queue \in Seq(PoolEvents)
    BY DEF P!TypeOK, PoolEvents
  <1>1. CASE P!BeginCall(c)
    <2>1. P!TypeOK'
      BY <1>1 DEF P!BeginCall, P!Goto, P!TypeOK, P!BufferPoolAssumption
    <2>2. P!BlocksAreExclusive' /\ CallerHolds(c)'
      BY <1>1 DEF P!BeginCall, P!Goto, P!TypeOK, P!BlocksAreExclusive, CallerHolds, P!Indices
    <2>3. calls[c] \in Nat /\ calls'[c] = calls[c] + 1 /\ queue' = queue /\ holders' = holders
      BY <1>1 DEF P!BeginCall, P!TypeOK
    <2>4. \A k \in 1 .. Len(queue) : queue[k].call[2] \in Nat /\ queue[k].call[2] <= calls[c]
      BY <1>0, PoolEventTypes DEF EventsHold
    <2>5. \A k \in 1 .. Len(queue) : queue[k].call # <<c, calls[c] + 1>>
      BY <2>3, <2>4
    <2>6. EventsHold(c)'
      BY <2>3, <2>4, <2>5 DEF EventsHold, Held
    <2> QED BY <2>1, <2>2, <2>6
  <1>2. CASE P!LookAtBlock(c)
    <2>0. P!TypeOK'
      <3>1. pc' \in [Callers -> {"idle", "look", "mark", "add"}]
        BY <1>2 DEF P!LookAtBlock, P!Goto, P!TypeOK
      <3>2. at' \in [Callers -> 1 .. Blocks + 1]
        BY <1>2 DEF P!LookAtBlock, P!Goto, P!TypeOK, P!BufferPoolAssumption
      <3>3. UNCHANGED <<poolUser, marked, calls, queue, holders, full, noMemory>>
        BY <1>2 DEF P!LookAtBlock
      <3> QED BY <3>1, <3>2, <3>3 DEF P!TypeOK
    <2>1. P!TypeOK' /\ P!BlocksAreExclusive'
      BY <1>2, <2>0 DEF P!LookAtBlock, P!BlocksAreExclusive
    <2>2. CallerHolds(c)'
      BY <1>2 DEF P!LookAtBlock, P!Goto, P!TypeOK, CallerHolds, P!Indices, P!BufferPoolAssumption
    <2>3. pc[c] # "idle" /\ calls' = calls /\ queue' = queue /\ holders' = holders
      BY <1>2 DEF P!LookAtBlock, P!Goto
    <2>4. EventsHold(c)'
      BY <2>3 DEF EventsHold, Held
    <2> QED BY <2>1, <2>2, <2>4
  <1>3. CASE P!FindNoBlock(c)
    <2>1. P!TypeOK'
      BY <1>3 DEF P!FindNoBlock, P!Goto, P!TypeOK
    <2>2. P!BlocksAreExclusive' /\ CallerHolds(c)' /\ EventsHold(c)'
      BY <1>3 DEF P!FindNoBlock, P!Goto, P!TypeOK, P!BlocksAreExclusive, CallerHolds, EventsHold, Held
    <2> QED BY <2>1, <2>2
  <1> QED BY <1>1, <1>2, <1>3

\* The caller marks the block it found, and then hands it to an event or gives it
\* back itself.
LEMMA HandOverKeeps ==
  ASSUME P!BufferPoolAssumption, NEW c, Callers = {c}, HeldInv(c),
         P!MarkBlock(c) \/ P!QueueEvent(c) \/ P!RefuseEvent(c)
  PROVE  HeldInv(c)'
  <1> USE DEF HeldInv
  <1>0. /\ queue \in Seq(PoolEvents) /\ calls[c] \in Nat
        /\ Held(c) \in Callers \X Nat
    BY DEF P!TypeOK, PoolEvents, Held
  <1>1. CASE P!MarkBlock(c)
    <2>0. /\ pc[c] = "mark" /\ pc'[c] = "add" /\ at[c] \in P!Indices /\ ~marked[at[c]]
          /\ calls' = calls /\ queue' = queue /\ at' = at
          /\ holders[at[c]] = {}
      BY <1>1 DEF P!MarkBlock, P!Goto, P!TypeOK, CallerHolds, P!BlocksAreExclusive
    <2>1. holders' = [holders EXCEPT ![at[c]] = {Held(c)}]
      BY <1>1, <2>0 DEF P!MarkBlock, Held
    <2>2. P!TypeOK'
      <3>1. holders' \in [P!Indices -> SUBSET (Callers \X Nat)]
        <4>1. {Held(c)} \in SUBSET (Callers \X Nat)
          BY <1>0
        <4> QED BY <2>0, <2>1, <4>1 DEF P!TypeOK
      <3> QED BY <1>1, <3>1 DEF P!MarkBlock, P!Goto, P!TypeOK
    <2>3. P!BlocksAreExclusive'
      BY <1>1, <2>0, <2>1 DEF P!MarkBlock, P!BlocksAreExclusive, P!TypeOK
    <2>4. CallerHolds(c)'
      BY <2>0, <2>1 DEF CallerHolds, Held, P!TypeOK
    <2>5. \A i \in P!Indices : holders[i] \subseteq holders'[i]
      BY <2>0, <2>1 DEF P!TypeOK
    <2>6. EventsHold(c)'
      BY <1>0, <2>0, <2>5, PoolEventTypes DEF EventsHold, Held
    <2> QED BY <2>2, <2>3, <2>4, <2>6
  <1>2. CASE P!QueueEvent(c)
    <2> DEFINE e == [call |-> Held(c), block |-> at[c], done |-> FALSE]
    <2>0. /\ pc[c] = "add" /\ pc'[c] = "idle" /\ at[c] \in P!Indices
          /\ calls' = calls /\ holders' = holders /\ queue' = Append(queue, e)
          /\ Held(c) \in holders[at[c]]
      BY <1>2 DEF P!QueueEvent, P!Goto, P!TypeOK, CallerHolds, Held
    <2>1. e \in PoolEvents
      BY <1>0, <2>0 DEF PoolEvents
    <2> HIDE DEF e
    <2>2. /\ queue' \in Seq(PoolEvents) /\ Len(queue') = Len(queue) + 1
          /\ \A k \in 1 .. Len(queue') : IF k \in 1 .. Len(queue) THEN queue'[k] = queue[k]
                                          ELSE k = Len(queue) + 1 /\ queue'[k] = e
      BY <1>0, <2>0, <2>1
    <2>3. P!TypeOK'
      BY <1>2, <2>2 DEF P!QueueEvent, P!Goto, P!TypeOK, PoolEvents
    <2>4. P!BlocksAreExclusive' /\ CallerHolds(c)'
      BY <1>2, <2>0 DEF P!QueueEvent, P!BlocksAreExclusive, CallerHolds
    <2>5. e.call = Held(c) /\ e.block = at[c] /\ Held(c)[2] = calls[c]
      BY DEF e, Held
    <2>6. \A k \in 1 .. Len(queue) : queue[k].call # Held(c)
      BY <2>0 DEF EventsHold
    <2>7. EventsHold(c)'
      <3>1. \A k \in 1 .. Len(queue') :
               /\ ~queue'[k].done => queue'[k].call \in holders'[queue'[k].block]
               /\ queue'[k].call[2] <= calls'[c]
        BY <1>0, <2>0, <2>2, <2>5 DEF EventsHold
      <3>2. \A j, k \in 1 .. Len(queue') : j # k => queue'[j].call # queue'[k].call
        BY <2>2, <2>5, <2>6 DEF EventsHold
      <3> QED BY <2>0, <3>1, <3>2 DEF EventsHold
    <2> QED BY <2>3, <2>4, <2>7
  <1>3. CASE P!RefuseEvent(c)
    <2>0. /\ pc[c] = "add" /\ pc'[c] = "idle" /\ at[c] \in P!Indices
          /\ calls' = calls /\ queue' = queue
          /\ marked' = [marked EXCEPT ![at[c]] = FALSE]
          /\ holders' = [holders EXCEPT ![at[c]] = @ \ {Held(c)}]
          /\ Held(c) \in holders[at[c]]
      BY <1>3 DEF P!RefuseEvent, P!GiveBack, P!Goto, P!TypeOK, CallerHolds, Held
    <2>1. P!TypeOK'
      BY <1>3, <2>0 DEF P!RefuseEvent, P!Goto, P!TypeOK
    <2>2. P!BlocksAreExclusive'
      BY <2>0 DEF P!BlocksAreExclusive, P!TypeOK
    <2>3. CallerHolds(c)'
      BY <2>0 DEF CallerHolds
    <2>4. \A k \in 1 .. Len(queue) : queue[k].call # Held(c) /\ queue[k].block \in P!Indices
      BY <1>0, <2>0, PoolEventTypes DEF EventsHold
    <2>5. EventsHold(c)'
      BY <2>0, <2>4 DEF EventsHold, P!TypeOK
    <2> QED BY <2>1, <2>2, <2>3, <2>5
  <1> QED BY <1>1, <1>2, <1>3

\* The event at the head of the queue is the only one that uses its block: the
\* others keep theirs when it gives its own back.
LEMMA RunKeeps ==
  ASSUME P!BufferPoolAssumption, NEW c, Callers = {c}, HeldInv(c), P!RunEvent
  PROVE  HeldInv(c)'
  <1> USE DEF HeldInv
  <1> DEFINE e == queue[1]
  <1>0. /\ queue \in Seq(PoolEvents) /\ 1 \in 1 .. Len(queue)
        /\ e \in PoolEvents /\ e.call \in Callers \X Nat /\ e.block \in P!Indices
        /\ e.call \in holders[e.block] /\ ~e.done
    <2>1. queue \in Seq(PoolEvents) /\ queue # <<>> /\ ~e.done
      BY DEF P!TypeOK, PoolEvents, P!RunEvent
    <2>2. 1 \in 1 .. Len(queue)
      BY <2>1
    <2> QED BY <2>1, <2>2, PoolEventTypes DEF EventsHold
  <1>1. /\ queue' = [queue EXCEPT ![1].done = TRUE]
        /\ holders' = [holders EXCEPT ![e.block] = @ \ {e.call}]
        /\ marked' = marked \/ marked' = [marked EXCEPT ![e.block] = FALSE]
        /\ pc' = pc /\ at' = at /\ calls' = calls
    BY DEF P!RunEvent, P!GiveBack
  <1>2. /\ queue' \in Seq(PoolEvents) /\ Len(queue') = Len(queue) /\ queue'[1].done
        /\ \A k \in 1 .. Len(queue) : /\ k # 1 => queue'[k] = queue[k]
                                      /\ queue'[k].call = queue[k].call
                                      /\ queue'[k].block = queue[k].block
    <2>1. [e EXCEPT !.done = TRUE] \in PoolEvents
      BY <1>0 DEF PoolEvents
    <2>2. queue' = [queue EXCEPT ![1] = [e EXCEPT !.done = TRUE]]
      BY <1>1
    <2>3. /\ [e EXCEPT !.done = TRUE].call = e.call
          /\ [e EXCEPT !.done = TRUE].block = e.block
          /\ [e EXCEPT !.done = TRUE].done
      BY <1>0 DEF PoolEvents
    <2> DEFINE f == [e EXCEPT !.done = TRUE]
    <2> HIDE DEF f
    <2> QED BY <1>0, <2>1, <2>2, <2>3
  <1>3. holders[e.block] = {e.call}
    BY <1>0 DEF P!BlocksAreExclusive
  <1>4. P!TypeOK'
    BY <1>0, <1>1, <1>2 DEF P!RunEvent, P!TypeOK, PoolEvents
  <1>5. P!BlocksAreExclusive'
    BY <1>0, <1>1, <1>3 DEF P!BlocksAreExclusive, P!TypeOK
  <1>6. CallerHolds(c)'
    <2>1. pc[c] = "add" => Held(c) # e.call
      BY <1>0 DEF EventsHold
    <2> QED BY <1>0, <1>1, <2>1 DEF CallerHolds, Held, P!TypeOK
  <1>7. EventsHold(c)'
    <2>1. \A k \in 1 .. Len(queue) : k # 1 => queue[k].call # e.call
      BY <1>0 DEF EventsHold
    <2>2. \A k \in 1 .. Len(queue) : queue[k].block \in P!Indices
      BY <1>0, PoolEventTypes
    <2>3. \A k \in 1 .. Len(queue) : ~queue'[k].done => queue'[k].call \in holders'[queue'[k].block]
      BY <1>0, <1>1, <1>2, <2>1, <2>2 DEF EventsHold, P!TypeOK
    <2> QED BY <1>1, <1>2, <2>3 DEF EventsHold, Held
  <1> QED BY <1>4, <1>5, <1>6, <1>7

LEMMA ReleaseKeeps ==
  ASSUME P!BufferPoolAssumption, NEW c, Callers = {c}, HeldInv(c), P!ReleaseEvent
  PROVE  HeldInv(c)'
  <1> USE DEF HeldInv
  <1>0. queue \in Seq(PoolEvents) /\ queue # <<>> /\ queue' = Tail(queue)
    BY DEF P!TypeOK, PoolEvents, P!ReleaseEvent
  <1>1. /\ queue' \in Seq(PoolEvents) /\ Len(queue') = Len(queue) - 1
        /\ \A k \in 1 .. Len(queue') : k + 1 \in 1 .. Len(queue) /\ queue'[k] = queue[k + 1]
    BY <1>0, TailOfPoolEvents
  <1>2. P!TypeOK'
    BY <1>1 DEF P!ReleaseEvent, P!TypeOK, PoolEvents
  <1>3. P!BlocksAreExclusive' /\ CallerHolds(c)'
    BY DEF P!ReleaseEvent, P!BlocksAreExclusive, CallerHolds, Held
  <1>4. pc' = pc /\ calls' = calls /\ holders' = holders
    BY DEF P!ReleaseEvent
  <1>5. \A j, k \in 1 .. Len(queue') : j # k => queue'[j].call # queue'[k].call
    BY <1>1 DEF EventsHold
  <1>6. EventsHold(c)'
    BY <1>1, <1>4, <1>5 DEF EventsHold, Held
  <1> QED BY <1>2, <1>3, <1>6

-----------------------------------------------------------------------------
(* The pool is large enough for the queue.                                 *)

HeldByQueue(i) == \E k \in 1 .. Len(queue) : ~queue[k].done /\ queue[k].block = i

\* IpClient: a block is marked only as long as an event that has not run, or the
\* caller that is about to queue one, has it.  So a search that began with room in
\* the queue has a free block before it.
MarksAreHeld(c) ==
  poolUser = "IpClient" =>
    \A i \in P!Indices : marked[i] => HeldByQueue(i) \/ (pc[c] = "add" /\ at[c] = i)

FreeBlockAhead(c) ==
  poolUser = "IpClient" /\ pc[c] = "look" /\ ~full[c] =>
    \E i \in P!Indices : at[c] <= i /\ ~marked[i]

CoverInv(c) ==
  /\ P!TypeOK /\ CallerHolds(c) /\ Len(queue) <= Capacity
  /\ MarksAreHeld(c) /\ FreeBlockAhead(c) /\ P!PoolCoversQueue

\* Fewer events than blocks do not have them all.
LEMMA SomeBlockIsFree ==
  ASSUME NEW n \in Nat, NEW m \in Nat, n < m, NEW f \in [1 .. n -> 1 .. m]
  PROVE  \E i \in 1 .. m : \A k \in 1 .. n : f[k] # i
  <1> SUFFICES ASSUME \A i \in 1 .. m : \E k \in 1 .. n : f[k] = i
               PROVE  FALSE
    OBVIOUS
  <1>1. Cardinality(1 .. m) = m
    BY FS_Interval
  <1>2. ExistsSurjection(1 .. n, 1 .. m)
    BY DEF ExistsSurjection, Surjection, Range
  <1> QED BY <1>1, <1>2, FS_SurjCardinalityBound

LEMMA PoolCoverStarts ==
  ASSUME P!BufferPoolAssumption, NEW c, Callers = {c}, P!Init
  PROVE  CoverInv(c)
  <1>1. P!TypeOK /\ CallerHolds(c)
    BY PoolStarts DEF HeldInv
  <1>2. Len(queue) <= Capacity
    BY DEF P!Init, P!BufferPoolAssumption
  <1> QED BY <1>1, <1>2 DEF P!Init, CoverInv, MarksAreHeld, FreeBlockAhead, P!PoolCoversQueue

\* The caller searches: the search begins with a free block before it unless the
\* queue is full, and passes over no free block.
LEMMA SearchCovers ==
  ASSUME P!BufferPoolAssumption, NEW c, Callers = {c}, Capacity <= Blocks, CoverInv(c),
         P!TypeOK', CallerHolds(c)',
         P!BeginCall(c) \/ P!LookAtBlock(c) \/ P!FindNoBlock(c)
  PROVE  CoverInv(c)'
  <1> USE DEF CoverInv
  <1>0. queue \in Seq(PoolEvents) /\ UNCHANGED <<poolUser, marked, queue>>
    BY DEF P!TypeOK, PoolEvents, P!BeginCall, P!LookAtBlock, P!FindNoBlock
  <1>1. MarksAreHeld(c)'
    <2>1. pc[c] # "add"
      BY DEF P!BeginCall, P!LookAtBlock, P!FindNoBlock, P!Goto
    <2> QED BY <1>0, <2>1 DEF MarksAreHeld, HeldByQueue
  <1>2. CASE P!BeginCall(c)
    <2>1. P!PoolCoversQueue'
      BY <1>2 DEF P!BeginCall, P!PoolCoversQueue
    <2>2. ASSUME poolUser = "IpClient", Len(queue) < Capacity
          PROVE  \E i \in P!Indices : ~marked[i]
      <3> DEFINE f == [k \in 1 .. Len(queue) |-> queue[k].block]
      <3>1. f \in [1 .. Len(queue) -> 1 .. Blocks]
        BY <1>0, PoolEventTypes DEF P!Indices
      <3>2. PICK i \in 1 .. Blocks : \A k \in 1 .. Len(queue) : f[k] # i
        <4>1. Len(queue) \in Nat /\ Blocks \in Nat /\ Len(queue) < Blocks
          BY <1>0, <2>2 DEF P!BufferPoolAssumption
        <4> HIDE DEF f
        <4> QED BY <3>1, <4>1, SomeBlockIsFree
      <3>3. pc[c] # "add" /\ ~HeldByQueue(i)
        BY <1>2, <3>2 DEF P!BeginCall, P!Goto, HeldByQueue
      <3> QED BY <2>2, <3>2, <3>3 DEF MarksAreHeld, P!Indices
    <2>3. FreeBlockAhead(c)'
      <3>1. at'[c] = 1 /\ Len(queue) \in Nat
        BY <1>0, <1>2 DEF P!BeginCall, P!TypeOK
      <3>0. full'[c] = (Len(queue) = Capacity)
        BY <1>2 DEF P!BeginCall, P!TypeOK
      <3>2. SUFFICES ASSUME poolUser = "IpClient", ~full'[c]
                     PROVE  \E i \in P!Indices : at'[c] <= i /\ ~marked[i]
        BY <1>0 DEF FreeBlockAhead
      <3>3. Len(queue) # Capacity
        BY <3>0, <3>2
      <3>4. Len(queue) < Capacity
        BY <3>1, <3>3 DEF P!BufferPoolAssumption
      <3> QED BY <2>2, <3>1, <3>2, <3>4 DEF P!Indices
    <2> QED BY <1>0, <1>1, <2>1, <2>3
  <1>3. CASE P!LookAtBlock(c)
    <2>1. P!PoolCoversQueue'
      BY <1>3 DEF P!LookAtBlock, P!PoolCoversQueue
    <2>2. FreeBlockAhead(c)'
      <3>1. at[c] \in 1 .. Blocks + 1 /\ full' = full /\ pc[c] = "look"
        BY <1>3 DEF P!LookAtBlock, P!TypeOK
      <3>2. CASE marked[at[c]]
        <4>1. at'[c] = at[c] + 1 /\ pc' = pc
          BY <1>3, <3>2 DEF P!LookAtBlock, P!TypeOK
        <4> QED BY <1>0, <3>1, <3>2, <4>1 DEF FreeBlockAhead, P!Indices, P!BufferPoolAssumption
      <3>3. CASE ~marked[at[c]]
        <4>1. pc'[c] = "mark"
          BY <1>3, <3>3 DEF P!LookAtBlock, P!Goto, P!TypeOK
        <4> QED BY <4>1 DEF FreeBlockAhead
      <3> QED BY <3>2, <3>3
    <2> QED BY <1>0, <1>1, <2>1, <2>2
  <1>4. CASE P!FindNoBlock(c)
    <2>1. pc[c] = "look" /\ at[c] > Blocks /\ pc'[c] = "idle" /\ at[c] \in Nat
      BY <1>4 DEF P!FindNoBlock, P!Goto, P!TypeOK
    <2>2. poolUser = "IpClient" => full[c]
      BY <2>1 DEF FreeBlockAhead, P!Indices, P!BufferPoolAssumption
    <2>3. P!PoolCoversQueue' /\ FreeBlockAhead(c)'
      BY <1>4, <2>1, <2>2 DEF P!FindNoBlock, P!PoolCoversQueue, FreeBlockAhead
    <2> QED BY <1>0, <1>1, <2>3
  <1> QED BY <1>2, <1>3, <1>4

\* The block that the caller marks is held by the caller, then by its event, or is
\* free again.
LEMMA HandOverCovers ==
  ASSUME P!BufferPoolAssumption, NEW c, Callers = {c}, CoverInv(c), P!TypeOK', CallerHolds(c)',
         P!MarkBlock(c) \/ P!QueueEvent(c) \/ P!RefuseEvent(c)
  PROVE  CoverInv(c)'
  <1> USE DEF CoverInv
  <1>0. /\ queue \in Seq(PoolEvents) /\ UNCHANGED <<poolUser, at, noMemory>>
        /\ pc'[c] # "look" /\ at[c] \in P!Indices
    BY DEF P!TypeOK, PoolEvents, P!MarkBlock, P!QueueEvent, P!RefuseEvent, P!Goto, CallerHolds
  <1>1. P!PoolCoversQueue' /\ FreeBlockAhead(c)'
    BY <1>0 DEF P!PoolCoversQueue, FreeBlockAhead
  <1>2. CASE P!MarkBlock(c)
    <2>1. pc[c] = "mark" /\ pc'[c] = "add" /\ queue' = queue /\ marked' = [marked EXCEPT ![at[c]] = TRUE]
      BY <1>2 DEF P!MarkBlock, P!Goto, P!TypeOK
    <2>2. MarksAreHeld(c)'
      BY <1>0, <2>1 DEF MarksAreHeld, HeldByQueue, P!TypeOK
    <2> QED BY <1>1, <2>1, <2>2
  <1>3. CASE P!QueueEvent(c)
    <2> DEFINE e == [call |-> Held(c), block |-> at[c], done |-> FALSE]
    <2>1. /\ pc'[c] = "idle" /\ marked' = marked /\ queue' = Append(queue, e)
          /\ Len(queue) < Capacity /\ e \in PoolEvents /\ e.block = at[c] /\ ~e.done
      BY <1>0, <1>3 DEF P!QueueEvent, P!Goto, P!TypeOK, Held, PoolEvents
    <2> HIDE DEF e
    <2>2. /\ Len(queue') = Len(queue) + 1 /\ Len(queue) \in Nat
          /\ \A k \in 1 .. Len(queue) : k \in 1 .. Len(queue') /\ queue'[k] = queue[k]
          /\ Len(queue') \in 1 .. Len(queue') /\ queue'[Len(queue')] = e
      BY <1>0, <2>1
    <2>3. Len(queue') <= Capacity
      BY <2>1, <2>2 DEF P!BufferPoolAssumption
    <2>4. \A i \in P!Indices : HeldByQueue(i) => HeldByQueue(i)'
      BY <2>2 DEF HeldByQueue
    <2>5. HeldByQueue(at[c])'
      BY <1>0, <2>1, <2>2 DEF HeldByQueue
    <2>6. MarksAreHeld(c)'
      BY <1>0, <2>1, <2>4, <2>5 DEF MarksAreHeld
    <2> QED BY <1>1, <2>3, <2>6
  <1>4. CASE P!RefuseEvent(c)
    <2>1. pc'[c] = "idle" /\ queue' = queue /\ marked' = [marked EXCEPT ![at[c]] = FALSE]
      BY <1>4 DEF P!RefuseEvent, P!GiveBack, P!Goto, P!TypeOK
    <2>2. MarksAreHeld(c)'
      BY <1>0, <2>1 DEF MarksAreHeld, HeldByQueue, P!TypeOK
    <2> QED BY <1>1, <2>1, <2>2
  <1> QED BY <1>2, <1>3, <1>4

\* An event that has run has given its block back, and the queue gets no longer.
LEMMA QueueCovers ==
  ASSUME P!BufferPoolAssumption, NEW c, Callers = {c}, CoverInv(c), P!TypeOK', CallerHolds(c)',
         P!RunEvent \/ P!ReleaseEvent
  PROVE  CoverInv(c)'
  <1> USE DEF CoverInv
  <1>0. /\ queue \in Seq(PoolEvents) /\ queue # <<>> /\ 1 \in 1 .. Len(queue) /\ queue[1] \in PoolEvents
        /\ UNCHANGED <<poolUser, pc, at, full, noMemory>>
    <2>1. queue \in Seq(PoolEvents) /\ queue # <<>> /\ UNCHANGED <<poolUser, pc, at, full, noMemory>>
      BY DEF P!TypeOK, PoolEvents, P!RunEvent, P!ReleaseEvent
    <2>2. 1 \in 1 .. Len(queue)
      BY <2>1
    <2> QED BY <2>1, <2>2, PoolEventTypes
  <1>1. \A i \in P!Indices : marked'[i] => marked[i]
    BY <1>0 DEF P!RunEvent, P!ReleaseEvent, P!GiveBack, P!TypeOK, PoolEvents
  <1>2. P!PoolCoversQueue' /\ FreeBlockAhead(c)'
    BY <1>0, <1>1 DEF P!PoolCoversQueue, FreeBlockAhead
  <1>3. CASE P!RunEvent
    <2>1. /\ ~queue[1].done /\ queue' = [queue EXCEPT ![1] = [queue[1] EXCEPT !.done = TRUE]]
          /\ poolUser = "IpClient" => marked' = [marked EXCEPT ![queue[1].block] = FALSE]
      BY <1>3 DEF P!RunEvent, P!GiveBack
    <2>2. Len(queue') = Len(queue) /\ \A k \in 1 .. Len(queue) : k # 1 => queue'[k] = queue[k]
      BY <1>0, <2>1
    <2>3. queue[1].block \in P!Indices
      BY <1>0 DEF PoolEvents
    <2>4. \A i \in P!Indices : HeldByQueue(i) /\ i # queue[1].block => HeldByQueue(i)'
      BY <2>2 DEF HeldByQueue
    <2>5. MarksAreHeld(c)'
      BY <1>0, <1>1, <2>1, <2>3, <2>4 DEF MarksAreHeld, P!TypeOK
    <2> QED BY <1>2, <2>2, <2>5
  <1>4. CASE P!ReleaseEvent
    <2>1. queue[1].done /\ queue' = Tail(queue) /\ marked' = marked
      BY <1>4 DEF P!ReleaseEvent
    <2>2. /\ Len(queue') = Len(queue) - 1
          /\ \A k \in 2 .. Len(queue) : k - 1 \in 1 .. Len(queue') /\ queue'[k - 1] = queue[k]
      BY <1>0, <2>1
    <2>3. \A i \in P!Indices : HeldByQueue(i) => HeldByQueue(i)'
      <3> SUFFICES ASSUME NEW i \in P!Indices, NEW k \in 1 .. Len(queue), ~queue[k].done,
                          queue[k].block = i
                   PROVE  HeldByQueue(i)'
        BY DEF HeldByQueue
      <3>1. k \in 2 .. Len(queue)
        BY <1>0, <2>1
      <3> QED BY <2>2, <3>1 DEF HeldByQueue
    <2>4. MarksAreHeld(c)'
      BY <1>0, <2>1, <2>3 DEF MarksAreHeld
    <2>5. Len(queue') <= Capacity
      BY <1>0, <2>2 DEF P!BufferPoolAssumption
    <2> QED BY <1>2, <2>4, <2>5
  <1> QED BY <1>3, <1>4

-----------------------------------------------------------------------------
(* The types, with any number of callers.                                  *)

AtABlock == \A c \in Callers : pc[c] \in {"mark", "add"} => at[c] \in P!Indices

LEMMA PoolTypesStart ==
  ASSUME P!BufferPoolAssumption, P!Init
  PROVE  P!TypeOK /\ AtABlock
  <1>1. 1 \in 1 .. Blocks + 1 /\ 0 \in 0 .. MaxCalls
    BY DEF P!BufferPoolAssumption
  <1>2. queue \in Seq([call : Callers \X Nat, block : P!Indices, done : BOOLEAN])
    BY DEF P!Init
  <1>3. holders \in [P!Indices -> SUBSET (Callers \X Nat)]
    BY DEF P!Init
  <1>4. at \in [Callers -> 1 .. Blocks + 1] /\ calls \in [Callers -> 0 .. MaxCalls]
    BY <1>1 DEF P!Init
  <1> QED BY <1>2, <1>3, <1>4 DEF P!Init, P!TypeOK, AtABlock

LEMMA PoolTypesKeep ==
  ASSUME P!BufferPoolAssumption, P!TypeOK, AtABlock, [P!Next]_poolVars
  PROVE  P!TypeOK' /\ AtABlock'
  <1>0. queue \in Seq(PoolEvents)
    BY DEF P!TypeOK, PoolEvents
  <1>1. ASSUME NEW c \in Callers, P!BeginCall(c)
        PROVE  P!TypeOK' /\ AtABlock'
    <2>1. pc[c] = "idle" /\ pc' = [pc EXCEPT ![c] = "look"] /\ at' = [at EXCEPT ![c] = 1]
          /\ calls' = [calls EXCEPT ![c] = @ + 1] /\ calls[c] < MaxCalls
          /\ full' = [full EXCEPT ![c] = (Len(queue) = Capacity)]
          /\ UNCHANGED <<poolUser, marked, queue, holders, noMemory>>
      BY <1>1 DEF P!BeginCall, P!Goto
    <2>2. pc' \in [Callers -> {"idle", "look", "mark", "add"}] /\ full' \in [Callers -> BOOLEAN]
      BY <2>1 DEF P!TypeOK
    <2>3. at' \in [Callers -> 1 .. Blocks + 1] /\ calls' \in [Callers -> 0 .. MaxCalls]
      BY <2>1 DEF P!TypeOK, P!BufferPoolAssumption
    <2>4. AtABlock'
      BY <2>1 DEF P!TypeOK, AtABlock
    <2> QED BY <2>1, <2>2, <2>3, <2>4 DEF P!TypeOK
  <1>2. ASSUME NEW c \in Callers, P!LookAtBlock(c)
        PROVE  P!TypeOK' /\ AtABlock'
    <2>0. /\ pc[c] = "look" /\ at[c] \in 1 .. Blocks
          /\ UNCHANGED <<poolUser, marked, calls, queue, holders, full, noMemory>>
      BY <1>2 DEF P!LookAtBlock, P!TypeOK, P!BufferPoolAssumption
    <2>1. CASE marked[at[c]]
      <3>1. pc' = pc /\ at' = [at EXCEPT ![c] = @ + 1]
        BY <1>2, <2>1 DEF P!LookAtBlock
      <3>2. at' \in [Callers -> 1 .. Blocks + 1]
        BY <2>0, <3>1 DEF P!TypeOK, P!BufferPoolAssumption
      <3>3. AtABlock'
        BY <2>0, <3>1 DEF P!TypeOK, AtABlock
      <3> QED BY <2>0, <3>1, <3>2, <3>3 DEF P!TypeOK
    <2>2. CASE ~marked[at[c]]
      <3>1. at' = at /\ pc' = [pc EXCEPT ![c] = "mark"]
        BY <1>2, <2>2 DEF P!LookAtBlock, P!Goto
      <3>2. pc' \in [Callers -> {"idle", "look", "mark", "add"}]
        BY <3>1 DEF P!TypeOK
      <3>3. AtABlock'
        BY <2>0, <3>1 DEF P!TypeOK, AtABlock, P!Indices
      <3> QED BY <2>0, <3>1, <3>2, <3>3 DEF P!TypeOK
    <2> QED BY <2>1, <2>2
  <1>3. ASSUME NEW c \in Callers, P!FindNoBlock(c)
        PROVE  P!TypeOK' /\ AtABlock'
    <2>1. noMemory' \in BOOLEAN
      BY <1>3 DEF P!FindNoBlock
    <2> QED BY <1>3, <2>1 DEF P!FindNoBlock, P!Goto, P!TypeOK, AtABlock
  <1>4. ASSUME NEW c \in Callers, P!MarkBlock(c)
        PROVE  P!TypeOK' /\ AtABlock'
    <2>0. /\ pc[c] = "mark" /\ pc' = [pc EXCEPT ![c] = "add"]
          /\ at[c] \in P!Indices /\ <<c, calls[c]>> \in Callers \X Nat
          /\ marked' = [marked EXCEPT ![at[c]] = TRUE]
          /\ holders' = [holders EXCEPT ![at[c]] = @ \cup {<<c, calls[c]>>}]
          /\ UNCHANGED <<poolUser, at, calls, queue, full, noMemory>>
      BY <1>4 DEF P!MarkBlock, P!Goto, AtABlock, P!TypeOK
    <2>1. marked' \in [P!Indices -> BOOLEAN] /\ holders' \in [P!Indices -> SUBSET (Callers \X Nat)]
      BY <2>0 DEF P!TypeOK
    <2>2. pc' \in [Callers -> {"idle", "look", "mark", "add"}] /\ AtABlock'
      BY <2>0 DEF P!TypeOK, AtABlock
    <2> QED BY <2>0, <2>1, <2>2 DEF P!TypeOK
  <1>5. ASSUME NEW c \in Callers, P!QueueEvent(c)
        PROVE  P!TypeOK' /\ AtABlock'
    <2> DEFINE e == [call |-> <<c, calls[c]>>, block |-> at[c], done |-> FALSE]
    <2>0. e \in PoolEvents
      BY <1>5 DEF P!QueueEvent, P!Goto, AtABlock, P!TypeOK, PoolEvents
    <2>1. queue' \in Seq(PoolEvents)
      BY <1>0, <1>5, <2>0 DEF P!QueueEvent
    <2>2. pc' \in [Callers -> {"idle", "look", "mark", "add"}] /\ AtABlock'
      BY <1>5 DEF P!QueueEvent, P!Goto, P!TypeOK, AtABlock
    <2> QED BY <1>5, <2>1, <2>2 DEF P!QueueEvent, P!TypeOK, PoolEvents
  <1>6. ASSUME NEW c \in Callers, P!RefuseEvent(c)
        PROVE  P!TypeOK' /\ AtABlock'
    <2>1. marked' \in [P!Indices -> BOOLEAN] /\ holders' \in [P!Indices -> SUBSET (Callers \X Nat)]
      BY <1>6 DEF P!RefuseEvent, P!GiveBack, P!TypeOK
    <2>2. pc' \in [Callers -> {"idle", "look", "mark", "add"}] /\ AtABlock'
      BY <1>6 DEF P!RefuseEvent, P!Goto, P!TypeOK, AtABlock
    <2> QED BY <1>6, <2>1, <2>2 DEF P!RefuseEvent, P!TypeOK
  <1>7. CASE P!RunEvent
    <2>0. queue # <<>> /\ queue[1] \in PoolEvents /\ 1 \in 1 .. Len(queue)
      <3>1. queue # <<>>
        BY <1>7 DEF P!RunEvent
      <3>2. 1 \in 1 .. Len(queue)
        BY <1>0, <3>1
      <3> QED BY <1>0, <3>1, <3>2, PoolEventTypes
    <2>1. queue' \in Seq(PoolEvents)
      <3> DEFINE f == [queue[1] EXCEPT !.done = TRUE]
      <3>1. f \in PoolEvents
        BY <2>0 DEF PoolEvents
      <3>2. queue' = [queue EXCEPT ![1] = f]
        BY <1>7 DEF P!RunEvent
      <3> HIDE DEF f
      <3> QED BY <1>0, <2>0, <3>1, <3>2
    <2>2. marked' \in [P!Indices -> BOOLEAN] /\ holders' \in [P!Indices -> SUBSET (Callers \X Nat)]
      <3>1. /\ marked' = marked \/ marked' = [marked EXCEPT ![queue[1].block] = FALSE]
            /\ holders' = [holders EXCEPT ![queue[1].block] = @ \ {queue[1].call}]
        BY <1>7 DEF P!RunEvent, P!GiveBack
      <3>2. queue[1].block \in P!Indices
        BY <2>0 DEF PoolEvents
      <3> QED BY <3>1, <3>2 DEF P!TypeOK
    <2> QED BY <1>7, <2>1, <2>2 DEF P!RunEvent, P!TypeOK, PoolEvents, AtABlock
  <1>8. CASE P!ReleaseEvent
    <2>1. queue' \in Seq(PoolEvents)
      BY <1>0, <1>8, TailOfPoolEvents DEF P!ReleaseEvent
    <2> QED BY <1>8, <2>1 DEF P!ReleaseEvent, P!TypeOK, PoolEvents, AtABlock
  <1>9. CASE UNCHANGED poolVars
    BY <1>9 DEF poolVars, P!TypeOK, AtABlock
  <1> QED BY <1>1, <1>2, <1>3, <1>4, <1>5, <1>6, <1>7, <1>8, <1>9 DEF P!Next

LEMMA PoolHeldStep ==
  ASSUME P!BufferPoolAssumption, NEW c, Callers = {c}, HeldInv(c), [P!Next]_poolVars
  PROVE  HeldInv(c)'
  <1>1. CASE UNCHANGED poolVars
    BY <1>1 DEF poolVars, HeldInv, P!TypeOK, P!BlocksAreExclusive, CallerHolds, EventsHold, Held
  <1>2. CASE P!Next
    BY <1>2, SearchKeeps, HandOverKeeps, RunKeeps, ReleaseKeeps DEF P!Next
  <1> QED BY <1>1, <1>2

LEMMA PoolCoverStep ==
  ASSUME P!BufferPoolAssumption, NEW c, Callers = {c}, Capacity <= Blocks,
         HeldInv(c), CoverInv(c), [P!Next]_poolVars
  PROVE  CoverInv(c)'
  <1>0. P!TypeOK' /\ CallerHolds(c)'
    BY PoolHeldStep DEF HeldInv
  <1>1. CASE UNCHANGED poolVars
    BY <1>0, <1>1 DEF poolVars, CoverInv, MarksAreHeld, HeldByQueue, FreeBlockAhead, P!PoolCoversQueue
  <1>2. CASE P!Next
    BY <1>0, <1>2, SearchCovers, HandOverCovers, QueueCovers DEF P!Next
  <1> QED BY <1>1, <1>2

-----------------------------------------------------------------------------
PoolPart == part = "pool" => P!TypeOK /\ AtABlock

LEMMA PoolAlways == PartSpec => []PoolPart
  <1>0. P!BufferPoolAssumption
    BY Parameters
  <1>1. PartInit => PoolPart
    BY <1>0, PoolTypesStart DEF PartInit, PoolPart
  <1>2. PoolPart /\ [PartNext]_allVars => PoolPart'
    BY <1>0, PartSteps, PoolTypesKeep DEF PoolPart
  <1> QED BY <1>1, <1>2, PTL DEF PartSpec

\* With one thread that calls IpClient or the file system, beside the thread of
\* the queue, a block is used by one call at a time and is marked while it is used,
\* and if there is a block for every event that fits in the queue a call of
\* IpClient gets one whenever the queue had room as it began (MemoryPool.hpp,
\* allocate and deallocate; IpClient.cpp, sendNonBlocking), whatever the sizes are.
THEOREM OneCallerHasItsBlock ==
  ASSUME NEW c, Callers = {c}, Capacity <= Blocks
  PROVE  PartSpec => []BlocksAreHeldOnce
  <1> DEFINE Inv == part = "pool" => HeldInv(c) /\ CoverInv(c)
  <1>0. P!BufferPoolAssumption
    BY Parameters
  <1>1. PartInit => Inv
    BY <1>0, PoolStarts, PoolCoverStarts DEF PartInit
  <1>2. Inv /\ [PartNext]_allVars => Inv'
    BY <1>0, PartSteps, PoolHeldStep, PoolCoverStep
  <1>3. Inv => BlocksAreHeldOnce
    BY DEF HeldInv, CoverInv, BlocksAreHeldOnce
  <1> QED BY <1>1, <1>2, <1>3, PTL DEF PartSpec

-----------------------------------------------------------------------------
(* The tick: the timer, the uptime and the idle share, for every wrap.     *)

\* Division: a quotient and a remainder, and that there is one pair of them only.
LEMMA DivMod ==
  ASSUME NEW a \in Nat, NEW w \in Nat \ {0}
  PROVE  /\ a = w * (a \div w) + (a % w)
         /\ a \div w \in Nat /\ a % w \in 0 .. w - 1
  OBVIOUS

LEMMA ModLess ==
  ASSUME NEW a \in Nat, NEW w \in Nat \ {0}
  PROVE  a % w \in Nat /\ a % w < w /\ a % w <= a /\ (a < w => a % w = a)
  OBVIOUS

LEMMA DivLess ==
  ASSUME NEW a \in Nat, NEW w \in Nat \ {0}
  PROVE  a \div w \in Nat /\ (a \div w) * w <= a /\ a \div w <= a
  OBVIOUS

LEMMA ModUnique ==
  ASSUME NEW a \in Nat, NEW w \in Nat \ {0}, NEW q \in Int, NEW r \in 0 .. w - 1, a = w * q + r
  PROVE  a % w = r
  OBVIOUS

\* A counter of w values that goes on by less than w wraps at most once.
LEMMA ModAdd ==
  ASSUME NEW a \in Nat, NEW e \in Nat, NEW w \in Nat \ {0}, e < w
  PROVE  (a + e) % w = IF (a % w) + e < w THEN (a % w) + e ELSE (a % w) + e - w
  <1> DEFINE q == a \div w
             r == a % w
  <1>0. q \in Nat /\ r \in 0 .. w - 1
    BY DivMod
  <1>1. a = w * q + r
    BY DivMod
  <1> HIDE DEF q, r
  <1>2. CASE r + e < w
    <2>1. r + e \in 0 .. w - 1 /\ a + e \in Nat /\ q \in Int
      BY <1>0, <1>2
    <2>2. a + e = w * q + (r + e)
      BY <1>0, <1>1
    <2>3. (a + e) % w = r + e
      BY ONLY w \in Nat \ {0}, <2>1, <2>2, ModUnique
    <2> QED BY <1>2, <2>3 DEF r
  <1>3. CASE ~(r + e < w)
    <2>1. r + e - w \in 0 .. w - 1 /\ a + e \in Nat /\ q + 1 \in Int
      BY <1>0, <1>3
    <2>2. a + e = w * (q + 1) + (r + e - w)
      BY <1>0, <1>1
    <2>3. (a + e) % w = r + e - w
      BY ONLY w \in Nat \ {0}, <2>1, <2>2, ModUnique
    <2> QED BY <1>3, <2>3 DEF r
  <1> QED BY <1>2, <1>3

LEMMA DivLow ==
  ASSUME NEW a \in Nat, NEW s \in Nat, NEW w \in Nat \ {0}, s * w <= a
  PROVE  s <= a \div w
  OBVIOUS

LEMMA DivMonotone ==
  ASSUME NEW a \in Nat, NEW b \in Nat, NEW w \in Nat \ {0}, a <= b
  PROVE  a \div w <= b \div w
  OBVIOUS

\* The tick of a call is the one the timer was started at plus what has elapsed.
TimerKnows ==
  /\ timer.begun <= real /\ timer.start = timer.begun % Wrap
  /\ C!TimerErrsOneWay

\* Until the milliseconds wrap the uptime is the seconds at the last call.
UptimeKnows ==
  real * Milli < Wrap =>
    /\ up.time = up.since
    /\ up.since <= ((Milli * real) \div Rate) \div Milli

\* Until the tick wraps the average times the calls is no more than the last tick.
IdleKnows ==
  real < Wrap =>
    /\ idle.last = idle.now /\ idle.now <= real
    /\ idle.calls = 0 \/ idle.calls >= 2
    /\ idle.calls > 1 => idle.average * (idle.calls - 1) <= idle.now

ClockInv == C!TypeOK /\ TimerKnows /\ UptimeKnows /\ IdleKnows

LEMMA ClockNumbers ==
  ASSUME C!ClockAssumption
  PROVE  /\ Wrap \in Nat \ {0} /\ Rate \in Nat \ {0} /\ Milli \in Nat \ {0}
         /\ MaxTime \in Nat /\ MaxIdleCalls \in Nat /\ Durations \subseteq C!Ticks
  BY DEF C!ClockAssumption, C!Ticks

LEMMA ClockStarts ==
  ASSUME C!ClockAssumption, C!Init
  PROVE  ClockInv
  <1> USE ClockNumbers
  <1>1. 0 \in C!Ticks /\ 0 % Wrap = 0
    BY ModLess, DivLess DEF C!Ticks
  <1>2. C!TypeOK
    BY <1>1 DEF C!Init, C!TypeOK, C!Answers, C!Users
  <1>3. TimerKnows
    BY <1>1 DEF C!Init, TimerKnows, C!TimerErrsOneWay, C!elapsed
  <1>4. UptimeKnows
    <2>1. (Milli * 0) \div Rate \in Nat
      BY ModLess, DivLess
    <2>2. ((Milli * 0) \div Rate) \div Milli \in Nat
      BY <2>1, ModLess, DivLess
    <2> QED BY <2>2 DEF C!Init, UptimeKnows
  <1>5. IdleKnows
    BY DEF C!Init, IdleKnows
  <1> QED BY <1>2, <1>3, <1>4, <1>5 DEF ClockInv

\* The types of the three records, field by field.
LEMMA ClockTypes ==
  ASSUME C!TypeOK
  PROVE  /\ real \in Nat /\ timer.start \in C!Ticks /\ timer.duration \in C!Ticks
         /\ timer.begun \in 0 .. MaxTime /\ timer.answer \in C!Answers
         /\ up.time \in C!Ticks /\ up.since \in C!Ticks
         /\ idle.calls \in Nat /\ idle.last \in C!Ticks /\ idle.average \in C!Ticks
         /\ idle.now \in C!Ticks
  BY DEF C!TypeOK

LEMMA PassKeeps ==
  ASSUME C!ClockAssumption, ClockInv, C!Pass
  PROVE  ClockInv'
  <1> USE ClockNumbers, ClockTypes DEF ClockInv
  <1>1. /\ real' = real + 1 /\ real' \in 0 .. MaxTime
        /\ timer' = [timer EXCEPT !.answer = "None"] /\ UNCHANGED <<clockUser, up, idle>>
    BY DEF C!Pass, C!TypeOK
  <1>2. timer' \in [start : C!Ticks, duration : C!Ticks, begun : 0..MaxTime, answer : C!Answers]
        /\ timer'.start = timer.start /\ timer'.begun = timer.begun /\ timer'.answer = "None"
    BY <1>1 DEF C!TypeOK, C!Answers
  <1>3. C!TypeOK'
    BY <1>1, <1>2 DEF C!TypeOK
  <1>4. TimerKnows'
    BY <1>1, <1>2 DEF TimerKnows, C!TimerErrsOneWay
  <1>5. UptimeKnows'
    <2> SUFFICES ASSUME real' * Milli < Wrap
                 PROVE  up.time = up.since /\ up.since <= ((Milli * real') \div Rate) \div Milli
      BY <1>1 DEF UptimeKnows
    <2>1. real * Milli < Wrap /\ Milli * real <= Milli * real' /\ Milli * real \in Nat /\ Milli * real' \in Nat
      BY <1>1
    <2>2. /\ (Milli * real) \div Rate <= (Milli * real') \div Rate
          /\ (Milli * real) \div Rate \in Nat /\ (Milli * real') \div Rate \in Nat
      BY <2>1, DivMonotone, ModLess, DivLess
    <2>3. /\ ((Milli * real) \div Rate) \div Milli <= ((Milli * real') \div Rate) \div Milli
          /\ ((Milli * real) \div Rate) \div Milli \in Nat /\ ((Milli * real') \div Rate) \div Milli \in Nat
      BY <2>2, DivMonotone, ModLess, DivLess
    <2>4. up.time = up.since /\ up.since <= ((Milli * real) \div Rate) \div Milli
      BY <2>1 DEF UptimeKnows
    <2> HIDE ClockNumbers
    <2> QED BY <2>3, <2>4, ClockTypes DEF C!Ticks
  <1>6. IdleKnows'
    BY <1>1 DEF IdleKnows, C!Ticks
  <1> QED BY <1>3, <1>4, <1>5, <1>6

LEMMA StartTimerKeeps ==
  ASSUME C!ClockAssumption, ClockInv, NEW duration \in Durations, C!StartTimer(duration)
  PROVE  ClockInv'
  <1> USE ClockNumbers, ClockTypes DEF ClockInv
  <1>1. timer' = [start |-> C!tick, duration |-> duration, begun |-> real, answer |-> "None"]
        /\ UNCHANGED <<real, clockUser, up, idle>>
    BY DEF C!StartTimer
  <1>2. C!tick \in C!Ticks
    BY ModLess, DivLess DEF C!tick, C!Ticks
  <1>3. C!TypeOK'
    BY <1>1, <1>2 DEF C!TypeOK, C!Answers
  <1>4. TimerKnows'
    BY <1>1 DEF TimerKnows, C!TimerErrsOneWay, C!tick
  <1>5. UptimeKnows' /\ IdleKnows'
    BY <1>1 DEF UptimeKnows, IdleKnows
  <1> QED BY <1>3, <1>4, <1>5

\* The answer: with s the start, d the duration and e what has elapsed, the tick is
\* s + e, less Wrap if that is beyond it, and so is the timeout s + d.
LEMMA TimerKeeps ==
  ASSUME C!ClockAssumption, ClockInv, C!Timer
  PROVE  ClockInv'
  <1> USE ClockNumbers, ClockTypes DEF ClockInv
  <1> DEFINE s == timer.start
             d == timer.duration
             e == real - timer.begun
             now == (C!tick + C!rolloverCompensation) % Wrap
  <1>1. timer' = [timer EXCEPT !.answer = IF now < C!timeoutTime THEN "Negative" ELSE "Success"]
        /\ UNCHANGED <<real, clockUser, up, idle>>
    BY DEF C!Timer
  <1>2. /\ timer'.start = s /\ timer'.duration = d /\ timer'.begun = timer.begun
        /\ timer'.answer = (IF now < C!timeoutTime THEN "Negative" ELSE "Success")
        /\ timer' \in [start : C!Ticks, duration : C!Ticks, begun : 0..MaxTime, answer : C!Answers]
    BY <1>1 DEF C!TypeOK, C!Answers
  <1>3. C!TypeOK' /\ UptimeKnows' /\ IdleKnows'
    BY <1>1, <1>2 DEF C!TypeOK, UptimeKnows, IdleKnows
  <1>4. s \in Nat /\ s < Wrap /\ d \in Nat /\ d < Wrap /\ e \in Nat /\ real = timer.begun + e
        /\ timer.begun \in Nat /\ s = timer.begun % Wrap
    BY DEF TimerKnows, C!Ticks
  <1> HIDE DEF s, d, e
  <1>5. C!timeoutTime = IF s + d < Wrap THEN s + d ELSE s + d - Wrap
    <2>1. s % Wrap = s
      BY <1>4, ModLess, DivLess
    <2>2. C!timeoutTime = (s + d) % Wrap
      BY DEF C!timeoutTime, s, d
    <2>3. (s + d) % Wrap = IF (s % Wrap) + d < Wrap THEN (s % Wrap) + d ELSE (s % Wrap) + d - Wrap
      <3>1. s \in Nat /\ d \in Nat /\ d < Wrap
        BY <1>4
      <3> QED BY <3>1, ModAdd
    <2> QED BY <2>1, <2>2, <2>3
  <1>6. C!rolloverCompensation = IF s + d < Wrap THEN 0 ELSE Wrap - s
    <2>1. C!rolloverCompensation = IF C!timeoutTime < s THEN Wrap - s ELSE 0
      BY DEF C!rolloverCompensation, s
    <2> QED BY <1>4, <1>5, <2>1
  <1>7. ASSUME e < Wrap
        PROVE  /\ ~(now < C!timeoutTime) /\ e < d => s + d >= Wrap
               /\ (now < C!timeoutTime) /\ e >= d => s + d < Wrap /\ s + e >= Wrap
    <2>1. C!tick = IF s + e < Wrap THEN s + e ELSE s + e - Wrap
      BY <1>4, <1>7, ModAdd DEF C!tick
    <2>2. CASE s + d < Wrap
      <3>1. C!tick \in Nat /\ C!tick < Wrap
        BY <1>4, <1>7, <2>1
      <3>2. now = C!tick
        <4>1. C!tick + C!rolloverCompensation = C!tick
          BY <1>6, <2>2, <3>1
        <4>2. C!tick % Wrap = C!tick
          BY <3>1, ModLess, DivLess
        <4> QED BY <4>1, <4>2
      <3> HIDE DEF now
      <3> QED BY <1>4, <1>5, <1>7, <2>1, <2>2, <3>2
    <2>3. CASE ~(s + d < Wrap)
      <3>1. now = e
        <4>1. CASE s + e < Wrap
          <5>1. C!tick + C!rolloverCompensation = e + Wrap
            BY <1>4, <1>6, <2>1, <2>3, <4>1
          <5>2. e % Wrap = e
            BY <1>4, <1>7, ModLess, DivLess
          <5>3. (e + Wrap) % Wrap = e
            <6>1. e \in 0 .. Wrap - 1 /\ e + Wrap \in Nat /\ e + Wrap = Wrap * 1 + e
              BY <1>4, <1>7
            <6> QED BY ONLY Wrap \in Nat \ {0}, 1 \in Int, <6>1, ModUnique
          <5> QED BY <5>1, <5>3
        <4>2. CASE ~(s + e < Wrap)
          <5>1. C!tick + C!rolloverCompensation = e
            BY <1>4, <1>6, <2>1, <2>3, <4>2
          <5> QED BY <1>4, <1>7, <5>1, ModLess, DivLess
        <4> QED BY <4>1, <4>2
      <3> HIDE DEF now
      <3> QED BY <1>4, <1>5, <1>7, <2>3, <3>1
    <2> QED BY <2>2, <2>3
  <1> HIDE DEF now
  <1>8. TimerKnows'
    <2>1. C!elapsed' = e /\ real' = real
      BY <1>1, <1>2 DEF C!elapsed, e
    <2>2. C!TimerErrsOneWay'
      BY <1>2, <1>7, <2>1 DEF C!TimerErrsOneWay
    <2> QED BY <1>2, <2>1, <2>2 DEF TimerKnows, s
  <1> QED BY <1>3, <1>8

\* The seconds of the uptime before the milliseconds wrap.
LEMMA SecondsNow ==
  ASSUME C!ClockAssumption, real \in Nat, real * Milli < Wrap
  PROVE  C!secondsNow = ((Milli * real) \div Rate) \div Milli /\ C!secondsNow \in Nat /\ C!secondsNow < Wrap
  <1> USE ClockNumbers
  <1>1. real < Wrap /\ Milli * real \in Nat /\ Milli * real < Wrap
    OBVIOUS
  <1>2. C!tick = real
    BY <1>1, ModLess, DivLess DEF C!tick
  <1>3. (Milli * real) % Wrap = Milli * real
    BY <1>1, ModLess, DivLess
  <1>4. C!secondsNow = ((Milli * real) \div Rate) \div Milli
    BY <1>2, <1>3 DEF C!secondsNow, C!ticksToMilliseconds
  <1>5. (Milli * real) \div Rate \in Nat /\ (Milli * real) \div Rate <= Milli * real
    BY <1>1
  <1>6. ((Milli * real) \div Rate) \div Milli \in Nat
        /\ ((Milli * real) \div Rate) \div Milli <= (Milli * real) \div Rate
    BY <1>5
  <1> QED BY <1>1, <1>4, <1>5, <1>6

\* Before the wrap the seconds have not gone back since the last call, so that the
\* uptime is the seconds now.
LEMMA UptimeKeeps ==
  ASSUME C!ClockAssumption, ClockInv, C!Uptime
  PROVE  ClockInv'
  <1> USE ClockNumbers, ClockTypes DEF ClockInv
  <1>1. UNCHANGED <<real, clockUser, timer, idle>>
    BY DEF C!Uptime
  <1>2. TimerKnows' /\ IdleKnows'
    BY <1>1 DEF TimerKnows, C!TimerErrsOneWay, C!elapsed, IdleKnows
  <1>3. up' \in [time : C!Ticks, since : C!Ticks]
    <2>1. C!tick \in Nat /\ C!tick < Wrap
      BY ModLess, DivLess DEF C!tick
    <2>2. (Milli * C!tick) % Wrap \in Nat /\ (Milli * C!tick) % Wrap < Wrap
      <3>1. Milli * C!tick \in Nat
        BY <2>1
      <3> QED BY <3>1, ModLess, DivLess
    <2> DEFINE m == (Milli * C!tick) % Wrap
    <2> HIDE DEF m
    <2>3. m \div Rate \in Nat /\ m \div Rate <= m
      BY <2>2 DEF m
    <2>4. (m \div Rate) \div Milli \in Nat /\ (m \div Rate) \div Milli <= m \div Rate
      BY <2>3
    <2>5. C!secondsNow = (m \div Rate) \div Milli
      BY DEF C!secondsNow, C!ticksToMilliseconds, m
    <2>6. C!secondsNow \in Nat /\ C!secondsNow < Wrap
      BY <2>2, <2>3, <2>4, <2>5 DEF m
    <2>7. (up.time + C!secondsNow) % Wrap \in C!Ticks
      <3>1. up.time + C!secondsNow \in Nat
        BY <2>6 DEF C!Ticks
      <3> QED BY <3>1, ModLess, DivLess DEF C!Ticks
    <2>8. CASE C!secondsNow < up.since
      <3>1. up' = [time |-> (up.time + C!secondsNow) % Wrap, since |-> 0]
        BY <2>8 DEF C!Uptime
      <3>2. 0 \in C!Ticks
        BY DEF C!Ticks
      <3> QED BY <2>7, <3>1, <3>2
    <2>9. CASE ~(C!secondsNow < up.since)
      <3>1. up' = [time |-> (up.time + C!secondsNow - up.since) % Wrap, since |-> C!secondsNow]
        BY <2>9 DEF C!Uptime
      <3>2. up.time + C!secondsNow - up.since \in Nat
        BY <2>6, <2>9 DEF C!Ticks
      <3>3. (up.time + C!secondsNow - up.since) % Wrap \in C!Ticks
        BY <3>2, ModLess, DivLess DEF C!Ticks
      <3>4. C!secondsNow \in C!Ticks
        BY <2>6 DEF C!Ticks
      <3> QED BY <3>1, <3>3, <3>4
    <2> QED BY <2>8, <2>9
  <1>4. C!TypeOK'
    BY <1>1, <1>3 DEF C!TypeOK
  <1>5. UptimeKnows'
    <2> SUFFICES ASSUME real * Milli < Wrap
                 PROVE  up'.time = up'.since
                        /\ up'.since <= ((Milli * real) \div Rate) \div Milli
      BY <1>1 DEF UptimeKnows
    <2>1. C!secondsNow = ((Milli * real) \div Rate) \div Milli /\ C!secondsNow \in Nat /\ C!secondsNow < Wrap
      BY SecondsNow
    <2>2. up.time = up.since /\ up.since <= C!secondsNow
      BY <2>1 DEF UptimeKnows
    <2>3. up' = [time |-> (up.time + C!secondsNow - up.since) % Wrap, since |-> C!secondsNow]
      <3>1. ~(C!secondsNow < up.since)
        BY <2>1, <2>2 DEF C!Ticks
      <3> QED BY <3>1 DEF C!Uptime
    <2>4. (up.time + C!secondsNow - up.since) % Wrap = C!secondsNow
      <3>1. up.time + C!secondsNow - up.since = C!secondsNow
        BY <2>1, <2>2 DEF C!Ticks
      <3>2. C!secondsNow % Wrap = C!secondsNow
        BY <2>1, ModLess, DivLess
      <3> QED BY <3>1, <3>2
    <2> QED BY <2>1, <2>3, <2>4
  <1> QED BY <1>2, <1>4, <1>5

\* The new average: rounding it down loses ticks and never adds any.
LEMMA AverageBounds ==
  ASSUME C!ClockAssumption, NEW a \in C!Ticks, NEW v \in C!Ticks, NEW n \in Nat \ {0}
  PROVE  /\ C!runningAverage(a, v, n) \in C!Ticks
         /\ (n = 1 /\ a + v < Wrap => C!runningAverage(a, v, n) = a + v)
         /\ (n = 2 /\ a + v < Wrap => C!runningAverage(a, v, n) * 2 <= a + v)
         /\ (n > 2 /\ a * (n - 1) + v < Wrap =>
               C!runningAverage(a, v, n) * n <= a * (n - 1) + v)
  <1> USE ClockNumbers
  <1>1. CASE n > 2
    <2> DEFINE t == a * (n - 1) + v
    <2>1. t \in Nat
      BY <1>1 DEF C!Ticks
    <2>2. C!runningAverage(a, v, n) = (t % Wrap) \div n
      BY <1>1 DEF C!runningAverage
    <2> HIDE DEF t
    <2>3. t % Wrap \in Nat /\ t % Wrap < Wrap /\ (t < Wrap => t % Wrap = t)
      BY <2>1, ModLess, DivLess
    <2>4. /\ (t % Wrap) \div n \in Nat /\ (t % Wrap) \div n <= t % Wrap
          /\ ((t % Wrap) \div n) * n <= t % Wrap
      BY <2>3, DivLess
    <2>5. C!runningAverage(a, v, n) \in C!Ticks
      BY <2>2, <2>3, <2>4 DEF C!Ticks
    <2>6. t < Wrap => C!runningAverage(a, v, n) * n <= t
      BY <2>2, <2>3, <2>4
    <2> QED BY <1>1, <2>5, <2>6 DEF t
  <1>2. CASE n \in {1, 2}
    <2> DEFINE t == a + v
    <2>1. t \in Nat
      BY DEF C!Ticks
    <2>2. C!runningAverage(a, v, n) = (t % Wrap) \div n
      BY <1>2 DEF C!runningAverage
    <2> HIDE DEF t
    <2>3. t % Wrap \in Nat /\ t % Wrap < Wrap /\ (t < Wrap => t % Wrap = t)
      BY <2>1, ModLess, DivLess
    <2>4. /\ (t % Wrap) \div n \in Nat /\ (t % Wrap) \div n <= t % Wrap
          /\ ((t % Wrap) \div n) * n <= t % Wrap
      BY <2>3, DivLess
    <2>5. C!runningAverage(a, v, n) \in C!Ticks
      BY <2>2, <2>3, <2>4 DEF C!Ticks
    <2>6. t < Wrap => C!runningAverage(a, v, n) * n <= t
      BY <2>2, <2>3, <2>4
    <2>7. n = 1 => C!runningAverage(a, v, n) = t % Wrap
      BY <2>2, <2>3
    <2> QED BY <1>2, <2>3, <2>5, <2>6, <2>7 DEF t
  <1> QED BY <1>1, <1>2

LEMMA IdleKeeps ==
  ASSUME C!ClockAssumption, ClockInv, C!vApplicationIdleHook
  PROVE  ClockInv'
  <1> USE ClockNumbers, ClockTypes DEF ClockInv
  <1> DEFINE first == idle.calls = 0
             n     == IF first THEN 1 ELSE idle.calls
             before  == IF first THEN C!tick ELSE idle.last
             old   == IF first THEN C!tick ELSE idle.average
             v     == C!differenceBetween(C!tick, before)
             a     == C!runningAverage(old, v, n)
  <1>1. /\ idle' = [calls |-> n + 1, last |-> C!tick, average |-> a, now |-> C!tick]
        /\ UNCHANGED <<real, clockUser, timer, up>>
    BY DEF C!vApplicationIdleHook
  <1>2. TimerKnows' /\ UptimeKnows'
    BY <1>1 DEF TimerKnows, C!TimerErrsOneWay, C!elapsed, UptimeKnows
  <1>3. C!tick \in C!Ticks /\ n \in Nat \ {0} /\ before \in C!Ticks /\ old \in C!Ticks
    BY ModLess, DivLess DEF C!tick, C!Ticks
  <1> HIDE DEF first, n, before, old
  <1>4. v \in C!Ticks /\ (before <= C!tick => v = C!tick - before)
    <2>1. CASE before > C!tick
      <3>1. v = (Wrap - 1 - C!tick + before + 1) % Wrap
        BY <2>1 DEF C!differenceBetween
      <3>2. Wrap - 1 - C!tick + before + 1 \in Nat
        BY <1>3, <2>1 DEF C!Ticks
      <3>3. v \in C!Ticks
        BY <3>1, <3>2, ModLess DEF C!Ticks
      <3> QED BY <1>3, <2>1, <3>3 DEF C!Ticks
    <2>2. CASE ~(before > C!tick)
      <3>1. v = C!tick - before
        BY <2>2 DEF C!differenceBetween
      <3> QED BY <1>3, <2>2, <3>1 DEF C!Ticks
    <2> QED BY <2>1, <2>2
  <1> HIDE DEF v
  <1>5. /\ a \in C!Ticks
        /\ (n = 1 /\ old + v < Wrap => a = old + v)
        /\ (n = 2 /\ old + v < Wrap => a * 2 <= old + v)
        /\ (n > 2 /\ old * (n - 1) + v < Wrap => a * n <= old * (n - 1) + v)
    BY <1>3, <1>4, AverageBounds
  <1> HIDE DEF a
  <1>6. C!TypeOK'
    BY <1>1, <1>3, <1>5 DEF C!TypeOK
  <1>7. IdleKnows'
    <2> SUFFICES ASSUME real < Wrap
                 PROVE  /\ idle'.last = idle'.now /\ idle'.now <= real
                        /\ idle'.calls = 0 \/ idle'.calls >= 2
                        /\ idle'.calls > 1 => idle'.average * (idle'.calls - 1) <= idle'.now
      BY <1>1 DEF IdleKnows
    <2>1. C!tick = real
      BY ModLess, DivLess DEF C!tick
    <2>2. idle'.last = C!tick /\ idle'.now = C!tick /\ idle'.calls = n + 1 /\ idle'.average = a
      BY <1>1
    <2>3. a * n <= C!tick
      <3>1. CASE first
        <4>1. n = 1 /\ before = C!tick /\ old = C!tick
          BY <3>1 DEF n, before, old
        <4>2. v = 0 /\ old + v < Wrap
          BY <1>3, <1>4, <4>1 DEF C!Ticks
        <4> QED BY <1>3, <1>5, <4>1, <4>2 DEF C!Ticks
      <3>2. CASE ~first
        <4>1. n = idle.calls /\ before = idle.last /\ old = idle.average /\ n >= 2
          BY <3>2 DEF n, before, old, first, IdleKnows
        <4>2. before <= C!tick /\ old * (n - 1) <= before
          BY <2>1, <4>1 DEF IdleKnows
        <4>3. v = C!tick - before
          BY <1>4, <4>2
        <4>4. old * (n - 1) \in Nat
          BY <1>3 DEF C!Ticks
        <4>5. old * (n - 1) + v <= C!tick /\ old * (n - 1) + v < Wrap
          BY <1>3, <4>2, <4>3, <4>4 DEF C!Ticks
        <4>6. CASE n = 2
          <5>1. old * (n - 1) = old
            BY <1>3, <4>6 DEF C!Ticks
          <5> QED BY <1>3, <1>4, <1>5, <4>5, <4>6, <5>1 DEF C!Ticks
        <4>7. CASE n > 2
          <5>1. a * n <= old * (n - 1) + v
            BY <1>5, <4>5, <4>7
          <5>2. a * n \in Nat
            BY <1>3, <1>5 DEF C!Ticks
          <5> QED BY <1>3, <1>4, <4>4, <4>5, <5>1, <5>2 DEF C!Ticks
        <4> QED BY <1>3, <4>1, <4>6, <4>7
      <3> QED BY <3>1, <3>2
    <2> QED BY <1>3, <2>1, <2>2, <2>3
  <1> QED BY <1>2, <1>6, <1>7

LEMMA ClockStepKeeps ==
  ASSUME C!ClockAssumption, ClockInv, [C!Next]_clockVars
  PROVE  ClockInv'
  <1>1. CASE UNCHANGED clockVars
    BY <1>1 DEF clockVars, ClockInv, C!TypeOK, TimerKnows, C!TimerErrsOneWay, C!elapsed, UptimeKnows, IdleKnows
  <1>2. CASE C!Next
    BY <1>2, PassKeeps, StartTimerKeeps, TimerKeeps, UptimeKeeps, IdleKeeps DEF C!Next
  <1> QED BY <1>1, <1>2

\* What the invariant says of the three observers.
LEMMA ClockShows ==
  ASSUME C!ClockAssumption, ClockInv
  PROVE  C!TimerErrsOneWay /\ C!UptimeIsNotAheadAtFirst /\ C!IdleIsAShare
  <1> USE ClockNumbers, ClockTypes DEF ClockInv
  <1>1. C!UptimeIsNotAheadAtFirst
    <2> SUFFICES ASSUME real * Milli < Wrap PROVE up.time <= real \div Rate
      BY DEF C!UptimeIsNotAheadAtFirst, C!UptimeIsNotAhead
    <2> DEFINE x == (Milli * real) \div Rate
               s == x \div Milli
    <2>1. x \in Nat /\ x * Rate <= Milli * real
      <3>1. Milli * real \in Nat
        OBVIOUS
      <3> QED BY <3>1, DivLess
    <2> HIDE DEF x
    <2>2. s \in Nat /\ s * Milli <= x
      BY <2>1, ModLess, DivLess
    <2>3. up.time <= s
      BY DEF UptimeKnows, x
    <2> HIDE DEF s
    <2>4. s * Milli * Rate <= Milli * real
      <3>1. (s * Milli) * Rate <= x * Rate
        BY <2>1, <2>2
      <3> QED BY <2>1, <2>2, <3>1
    <2>5. s * Rate <= real
      BY <2>2, <2>4
    <2>6. s <= real \div Rate /\ real \div Rate \in Nat
      BY <2>2, <2>5, DivLow, ModLess, DivLess
    <2> QED BY <2>2, <2>3, <2>6 DEF C!Ticks
  <1>2. C!IdleIsAShare
    <2> SUFFICES ASSUME idle.calls > 1, real < Wrap PROVE C!timeNotSpentInIdle <= idle.now
      BY DEF C!IdleIsAShare
    <2>1. idle.average * (idle.calls - 1) <= idle.now
      BY DEF IdleKnows
    <2>2. idle.average * (idle.calls - 1) \in Nat
      BY DEF C!Ticks
    <2>3. C!timeNotSpentInIdle \in Nat /\ C!timeNotSpentInIdle <= idle.average * (idle.calls - 1)
      BY <2>2, ModLess, DivLess DEF C!timeNotSpentInIdle
    <2> QED BY <2>1, <2>2, <2>3 DEF C!Ticks
  <1> QED BY <1>1, <1>2 DEF TimerKnows

ClockPart == part = "clock" => ClockInv

LEMMA ClockAlways == PartSpec => []ClockPart
  <1>0. C!ClockAssumption
    BY Parameters
  <1>1. PartInit => ClockPart
    BY <1>0, ClockStarts DEF PartInit, ClockPart
  <1>2. ClockPart /\ [PartNext]_allVars => ClockPart'
    BY <1>0, PartSteps, ClockStepKeeps DEF ClockPart
  <1> QED BY <1>1, <1>2, PTL DEF PartSpec

\* The tick timer is early only when the timeout lies beyond the roll-over, and
\* late only when it does not and the tick has rolled over; the uptime is not ahead
\* before the milliseconds wrap, nor the time that is not idle ahead of the tick
\* before that wraps: for every width of the tick, every rate and any calls
\* (TickTimer.cpp, Timer; OperatingSystemModule.cpp, uptime and
\* vApplicationIdleHook).
THEOREM ClockStaysOneWay == PartSpec => []ClockErrsOneWay
  <1>1. ClockPart => ClockErrsOneWay
    BY ClockShows, Parameters DEF ClockPart, ClockErrsOneWay
  <1> QED BY <1>1, ClockAlways, PTL

-----------------------------------------------------------------------------
(* The table of threads, for every number of threads, tasks and names.     *)

\* The smaller of two natural numbers, as a relation.
Smaller == {ss \in Nat \X Nat : ss[1] < ss[2]}

\* A set of natural numbers that is not empty has a least element.
LEMMA MinIsLeast ==
  ASSUME NEW W \in SUBSET Nat, W # {}
  PROVE  T!Min(W) \in W /\ \A w \in W : T!Min(W) <= w
  <1>1. IsWellFoundedOn(Smaller, Nat)
    BY NatLessThanWellFounded DEF OpToRel, Smaller
  <1>2. PICK m \in W : \A w \in W : ~(<<w, m>> \in Smaller)
    BY <1>1, WFMin
  <1>3. \A w \in W : m <= w
    <2> SUFFICES ASSUME NEW w \in W PROVE m <= w
      OBVIOUS
    <2>1. w \in Nat /\ m \in Nat /\ ~(<<w, m>> \in Smaller)
      BY <1>2
    <2>2. ~(w < m)
      BY <2>1 DEF Smaller
    <2> QED BY <2>1, <2>2
  <1> QED BY <1>2, <1>3 DEF T!Min

LEMMA FirstHasName ==
  ASSUME T!ThreadTableAssumption, NEW n, T!WithName(n) # {}
  PROVE  T!First(n) \in T!Indices /\ records[T!First(n)].name = n
  <1>1. T!WithName(n) \in SUBSET Nat
    BY DEF T!WithName, T!Indices, T!ThreadTableAssumption
  <1>2. T!First(n) \in T!WithName(n)
    BY <1>1, MinIsLeast DEF T!First
  <1> QED BY <1>2 DEF T!WithName

RecordType == [name : ThreadNames \cup {NoName}, task : Nat,
               status : {"Unknown", "Active", "Terminated"}]
CallType   == [name : ThreadNames \cup {NoName}, id : 0 .. MaxThreads, count : Int, task : Nat,
               step : {"idle", "create", "created", "stored"}]
TaskType   == [name : ThreadNames, state : {"created", "running", "ended"}, record : 0 .. MaxThreads]

\* A call under way has the name of a thread.
TableTypes == T!TypeOK /\ \A k \in Creators : creating[k].step # "idle" => creating[k].name \in ThreadNames

\* The records below this index are in use.
InLast == \E k \in Creators : creating[k].step = T!LastStep
Used   == IF InLast THEN nextThreadId + 1 ELSE nextThreadId

\* Where the record is stored first, no two tasks have the same one, and a task
\* that started is in its own.
FirstKnow ==
  \A t \in DOMAIN tasks :
    /\ tasks[t].record \in T!Indices /\ tasks[t].record < Used
    /\ tasks[t].state # "created" => records[tasks[t].record].task = t
    /\ \A u \in DOMAIN tasks : tasks[u].record = tasks[t].record => u = t

\* Where it is stored last, a task is in a record or in the call that will store it.
LastKnow ==
  \A t \in DOMAIN tasks :
    \/ \E k \in Creators : creating[k].step = "created" /\ creating[k].task = t
    \/ \E i \in T!Indices : i < Used /\ records[i].task = t

OneReads == \A j, k \in Creators : T!HasRead(j) /\ T!HasRead(k) => j = k
ReadsNow == \A k \in Creators : T!HasRead(k) => creating[k].id = nextThreadId /\ nextThreadId <= MaxThreads

IdsInv == OneReads /\ ReadsNow /\ (T!ThreadCalls.first => FirstKnow) /\ (~T!ThreadCalls.first => LastKnow)

\* The records in use have the names of tasks, the others were never used.
RecordsFill ==
  \A i \in T!Indices :
    \/ i < Used /\ records[i].status # "Unknown" /\ \E t \in DOMAIN tasks : tasks[t].name = records[i].name
    \/ i >= Used /\ records[i].name = NoName /\ records[i].status = "Unknown"

\* A name that is being created is that of one call, and of no record yet.
NameIsNew ==
  \A k \in Creators :
    /\ creating[k].step \in {"create", "created"} => \A i \in T!Indices : records[i].name # creating[k].name
    /\ creating[k].step # "idle" => \A j \in Creators : creating[j].name = creating[k].name => j = k
    /\ creating[k].step \in {"created", "stored"} =>
         creating[k].task \in DOMAIN tasks /\ tasks[creating[k].task].name = creating[k].name

Active == {i \in T!Indices : records[i].status = "Active"}
CountsNow == \A k \in Creators : T!HasRead(k) => creating[k].count = threadCount
CountInv ==
  /\ RecordsFill /\ NameIsNew /\ CountsNow
  /\ threadCount + (IF T!SomeHasRead THEN 1 ELSE 0) = Cardinality(Active)

TableInv ==
  /\ TableTypes
  /\ "id" \notin raced => IdsInv
  /\ Careful /\ raced = {} /\ ~T!ThreadCalls.first => CountInv

LEMMA TasksAreTyped ==
  ASSUME T!TypeOK
  PROVE  /\ Len(tasks) \in Nat /\ DOMAIN tasks = 1 .. Len(tasks) /\ tasks \in Seq(TaskType)
         /\ \A t \in DOMAIN tasks : tasks[t] \in TaskType
  <1>1. tasks \in Seq(TaskType)
    BY DEF T!TypeOK, TaskType
  <1> QED BY <1>1

LEMMA CallsOfPorts ==
  ASSUME T!ThreadTableAssumption, threadsPort \in Ports
  PROVE  /\ T!ThreadCalls.first \in BOOLEAN
         /\ T!ThreadCalls.first <=> (threadsPort \in {"Linux", "Esp"})
         /\ T!ThreadCalls.undo \in BOOLEAN
         /\ threadsPort \in {"Darwin", "Cc32xx", "Tm4c", "Linux", "Esp"}
  <1>0. threadsPort \in {"Darwin", "Cc32xx", "Tm4c", "Linux", "Esp"}
    BY DEF T!ThreadTableAssumption
  <1>1. CASE threadsPort = "Linux"
    <2>1. T!ThreadCalls = T!LinuxThreads
      BY <1>1 DEF T!ThreadCalls
    <2> QED BY <1>1, <2>1 DEF T!LinuxThreads
  <1>2. CASE threadsPort = "Darwin"
    <2>1. T!ThreadCalls = T!DarwinThreads
      BY <1>2 DEF T!ThreadCalls
    <2> QED BY <1>2, <2>1 DEF T!DarwinThreads
  <1>3. CASE threadsPort = "Esp"
    <2>1. T!ThreadCalls = T!EspThreads
      BY <1>3 DEF T!ThreadCalls
    <2> QED BY <1>3, <2>1 DEF T!EspThreads
  <1>4. CASE threadsPort = "Cc32xx"
    <2>1. T!ThreadCalls = T!Cc32xxThreads
      BY <1>4 DEF T!ThreadCalls
    <2> QED BY <1>4, <2>1 DEF T!Cc32xxThreads
  <1>5. CASE threadsPort = "Tm4c"
    <2>1. T!ThreadCalls = T!Tm4cThreads
      BY <1>5 DEF T!ThreadCalls
    <2> QED BY <1>5, <2>1 DEF T!Tm4cThreads
  <1> QED BY <1>0, <1>1, <1>2, <1>3, <1>4, <1>5

LEMMA TableStarts == ASSUME T!ThreadTableAssumption PROVE T!Init => TableInv
  <1> SUFFICES ASSUME T!Init PROVE TableInv
    OBVIOUS
  <1> USE DEF T!Init, T!ThreadTableAssumption, T!Indices
  <1>0. \A k \in Creators : creating[k] = T!Idle /\ T!Idle.step = "idle" /\ ~T!HasRead(k)
    BY DEF T!Idle, T!HasRead
  <1>1. TableTypes
    <2>1. T!Idle \in CallType
      BY DEF T!Idle, T!NoTask, CallType
    <2>2. creating \in [Creators -> CallType]
      BY <2>1
    <2> QED BY <1>0, <2>2 DEF TableTypes, T!TypeOK, T!NoJoin, T!NoTask, CallType
  <1>2. IdsInv
    BY <1>0 DEF IdsInv, OneReads, ReadsNow, FirstKnow, LastKnow
  <1>4. Active = {}
    BY DEF Active
  <1>5. CountInv
    <2>1. ~InLast /\ ~T!SomeHasRead
      BY <1>0 DEF InLast, T!LastStep, T!SomeHasRead
    <2>2. RecordsFill
      BY <2>1 DEF RecordsFill, Used
    <2> QED BY <1>0, <1>4, <2>1, <2>2, FS_EmptySet DEF CountInv, NameIsNew, CountsNow
  <1> QED BY <1>1, <1>2, <1>5 DEF TableInv

LEMMA TableShows == ASSUME T!ThreadTableAssumption PROVE TableInv => T!RunningIsKnown /\ (Careful => T!CountIsLive)
  <1> SUFFICES ASSUME TableInv PROVE T!RunningIsKnown /\ (Careful => T!CountIsLive)
    OBVIOUS
  <1> USE DEF TableInv, TableTypes, T!TypeOK, T!ThreadTableAssumption
  <1>0. /\ T!ThreadCalls.first \in BOOLEAN
        /\ T!ThreadCalls.first <=> (threadsPort \in {"Linux", "Esp"})
    BY CallsOfPorts
  <1>1. ASSUME "id" \notin raced, NEW t \in DOMAIN tasks, tasks[t].state = "running",
               \A k \in Creators : ~T!ThreadCalls.first /\ creating[k].step = "created" => creating[k].task # t
        PROVE  T!Known(t)
    <2>1. CASE T!ThreadCalls.first
      BY <1>1, <2>1 DEF IdsInv, FirstKnow, T!Known
    <2>2. CASE ~T!ThreadCalls.first
      BY <1>1, <2>2 DEF IdsInv, LastKnow, T!Known
    <2> QED BY <1>0, <2>1, <2>2
  <1>2. Careful => T!CountIsLive
    BY <1>0 DEF CountInv, T!CountIsLive, Active,
       T!Cardinality, T!IsFiniteSet, Cardinality, IsFiniteSet
  <1> QED BY <1>1, <1>2 DEF T!RunningIsKnown

LEMMA RecordUpdates ==
  ASSUME NEW r \in [T!Indices -> RecordType], NEW i
  PROVE  /\ [r EXCEPT ![i].status = "Terminated"] \in [T!Indices -> RecordType]
         /\ \A e \in RecordType : [r EXCEPT ![i] = e] \in [T!Indices -> RecordType]
         /\ \A t \in Nat : [r EXCEPT ![i].task = t] \in [T!Indices -> RecordType]
  <1>0. \A e \in RecordType : [r EXCEPT ![i] = e] \in [T!Indices -> RecordType]
    OBVIOUS
  <1>1. CASE i \notin T!Indices
    BY <1>0, <1>1
  <1>2. CASE i \in T!Indices
    <2>1. [r[i] EXCEPT !.status = "Terminated"] \in RecordType
      BY <1>2 DEF RecordType
    <2>2. \A t \in Nat : [r[i] EXCEPT !.task = t] \in RecordType
      BY <1>2 DEF RecordType
    <2> QED BY <1>0, <1>2, <2>1, <2>2
  <1> QED BY <1>1, <1>2

LEMMA TaskUpdates ==
  ASSUME NEW q \in Seq(TaskType), NEW t \in 1 .. Len(q), NEW st \in {"created", "running", "ended"}
  PROVE  /\ [q EXCEPT ![t].state = st] \in Seq(TaskType)
         /\ Len([q EXCEPT ![t].state = st]) = Len(q)
         /\ DOMAIN [q EXCEPT ![t].state = st] = DOMAIN q
         /\ \A u \in DOMAIN q : /\ [q EXCEPT ![t].state = st][u].name = q[u].name
                                /\ [q EXCEPT ![t].state = st][u].record = q[u].record
                                /\ [q EXCEPT ![t].state = st][u].state = IF u = t THEN st ELSE q[u].state
  <1>1. q[t] \in TaskType
    OBVIOUS
  <1>2. [q[t] EXCEPT !.state = st] \in TaskType
    BY <1>1 DEF TaskType
  <1>3. \A e \in TaskType : [q EXCEPT ![t] = e] \in Seq(TaskType) /\ Len([q EXCEPT ![t] = e]) = Len(q)
    OBVIOUS
  <1>4. \A u \in DOMAIN q : q[u] \in TaskType
    OBVIOUS
  <1> QED BY <1>1, <1>2, <1>3, <1>4 DEF TaskType

\* What is typed, in the words of the lemmas that follow.
LEMMA TableParts ==
  ASSUME T!ThreadTableAssumption, TableTypes
  PROVE  /\ records \in [T!Indices -> RecordType] /\ creating \in [Creators -> CallType]
         /\ nextThreadId \in Nat \ {0} /\ threadCount \in Int /\ MaxThreads \in Nat \ {0}
         /\ raced \subseteq {"id", "count"} /\ threadsPort \in Ports
         /\ joining \in [name : ThreadNames \cup {NoName}, task : Nat]
         /\ T!ThreadCalls.first \in BOOLEAN
         /\ \A k \in Creators : creating[k].step # "idle" => creating[k].name \in ThreadNames
  <1>1. T!ThreadCalls.first \in BOOLEAN
    BY CallsOfPorts DEF TableTypes, T!TypeOK
  <1> QED BY <1>1 DEF TableTypes, T!TypeOK, RecordType, CallType, T!ThreadTableAssumption

\* What storing a record does.
LEMMA StoreEffect ==
  ASSUME T!ThreadTableAssumption, TableTypes, NEW k \in Creators, NEW call \in CallType, NEW task \in Nat,
         T!StoreRecord(k, call, task)
  PROVE  /\ nextThreadId \in T!Indices
         /\ records' \in [T!Indices -> RecordType]
         /\ records'[nextThreadId] = [name |-> call.name, task |-> task, status |-> "Active"]
         /\ \A i \in T!Indices : i # nextThreadId => records'[i] = records[i]
         /\ creating' \in [Creators -> CallType]
         /\ creating'[k].step = call.step /\ creating'[k].name = call.name /\ creating'[k].task = call.task
         /\ creating'[k].id = nextThreadId /\ creating'[k].count = threadCount
         /\ \A j \in Creators : j # k => creating'[j] = creating[j]
         /\ T!SomeHasRead => raced' = {"id", "count"}
         /\ ~T!SomeHasRead => raced' = raced
  <1>0. /\ nextThreadId \in T!Indices /\ records \in [T!Indices -> RecordType]
        /\ creating \in [Creators -> CallType] /\ threadCount \in Int
    BY TableParts DEF T!StoreRecord, T!Indices
  <1> DEFINE rec == [name |-> call.name, task |-> task, status |-> "Active"]
             c == [call EXCEPT !.id = nextThreadId, !.count = threadCount]
  <1>1. rec \in RecordType
    BY DEF RecordType, CallType
  <1>2. /\ c \in CallType /\ c.step = call.step /\ c.name = call.name /\ c.task = call.task
        /\ c.id = nextThreadId /\ c.count = threadCount
    <2>1. nextThreadId \in 0 .. MaxThreads
      BY <1>0 DEF T!Indices
    <2>2. c \in CallType
      BY <1>0, <2>1 DEF CallType
    <2>3. c.step = call.step /\ c.name = call.name /\ c.task = call.task
      BY DEF CallType
    <2>4. c.id = nextThreadId /\ c.count = threadCount
      BY DEF CallType
    <2> QED BY <2>2, <2>3, <2>4
  <1>3. records' = [records EXCEPT ![nextThreadId] = rec] /\ creating' = [creating EXCEPT ![k] = c]
    BY DEF T!StoreRecord
  <1>4. raced' = IF T!SomeHasRead THEN {"id", "count"} ELSE raced
    BY DEF T!StoreRecord
  <1> HIDE DEF rec, c
  <1>5. records'[nextThreadId] = rec /\ creating'[k] = c
    BY <1>0, <1>3
  <1>6. records' \in [T!Indices -> RecordType] /\ \A i \in T!Indices : i # nextThreadId => records'[i] = records[i]
    BY <1>0, <1>1, <1>3
  <1>7. creating' \in [Creators -> CallType] /\ \A j \in Creators : j # k => creating'[j] = creating[j]
    BY <1>0, <1>2, <1>3
  <1> QED BY <1>0, <1>2, <1>4, <1>5, <1>6, <1>7 DEF rec

\* The call of BeginCreate.
NewCall(n) == [name |-> n, step |-> "create", id |-> 0, count |-> 0, task |-> T!NoTask]

LEMMA NewCallFields ==
  ASSUME T!ThreadTableAssumption, NEW n \in ThreadNames
  PROVE  /\ NewCall(n) \in CallType /\ NewCall(n).name = n /\ NewCall(n).step = "create"
         /\ T!Idle \in CallType /\ T!Idle.step = "idle" /\ T!Idle.name = NoName
  <1>1. T!Idle \in CallType /\ T!Idle.step = "idle" /\ T!Idle.name = NoName
    BY DEF CallType, T!Idle, T!NoTask, T!ThreadTableAssumption
  <1>2. NewCall(n) \in CallType /\ NewCall(n).name = n /\ NewCall(n).step = "create"
    BY DEF NewCall, CallType, T!NoTask, T!ThreadTableAssumption
  <1> QED BY <1>1, <1>2

\* What BeginCreate does, on the two kinds of ports.
LEMMA BeginFirst ==
  ASSUME T!ThreadTableAssumption, TableTypes, NEW k \in Creators, NEW n \in ThreadNames,
         T!BeginCreate(k, n), T!ThreadCalls.first
  PROVE  \E task \in Nat : T!StoreRecord(k, NewCall(n), task)
  <1>1. T!StoreRecord(k, NewCall(n), IF threadsPort = "Linux" THEN T!NoTask ELSE records[nextThreadId].task)
    BY DEF T!BeginCreate, NewCall
  <1>2. nextThreadId \in T!Indices
    BY <1>1, TableParts DEF T!StoreRecord, T!Indices
  <1>3. records[nextThreadId].task \in Nat
    BY <1>2, TableParts DEF RecordType
  <1> QED BY <1>1, <1>3 DEF T!NoTask

LEMMA BeginLast ==
  ASSUME T!ThreadTableAssumption, TableTypes, NEW k \in Creators, NEW n \in ThreadNames,
         T!BeginCreate(k, n), ~T!ThreadCalls.first
  PROVE  /\ creating' = [creating EXCEPT ![k] = NewCall(n)]
         /\ creating' \in [Creators -> CallType]
         /\ creating'[k].step = "create" /\ creating'[k].name = n
         /\ \A j \in Creators : j # k => creating'[j] = creating[j]
         /\ UNCHANGED <<records, raced>>
  <1>1. creating' = [creating EXCEPT ![k] = NewCall(n)] /\ UNCHANGED <<records, raced>>
    BY DEF T!BeginCreate, NewCall
  <1>2. creating \in [Creators -> CallType]
    BY TableParts
  <1> QED BY <1>1, <1>2, NewCallFields

\* What the step of the platform does to the call and the tasks.
LEMMA CreatesEffect ==
  ASSUME T!ThreadTableAssumption, TableTypes, NEW k \in Creators, T!PlatformCreates(k)
  PROVE  /\ creating' \in [Creators -> CallType]
         /\ creating'[k].step = "created" /\ creating'[k].task = Len(tasks) + 1
         /\ creating'[k].name = creating[k].name /\ creating'[k].id = creating[k].id
         /\ creating'[k].count = creating[k].count
         /\ \A j \in Creators : j # k => creating'[j] = creating[j]
         /\ tasks' \in Seq(TaskType) /\ Len(tasks') = Len(tasks) + 1
         /\ DOMAIN tasks' = DOMAIN tasks \cup {Len(tasks) + 1} /\ Len(tasks) + 1 \notin DOMAIN tasks
         /\ \A t \in DOMAIN tasks : tasks'[t] = tasks[t]
         /\ tasks'[Len(tasks) + 1].state = "created" /\ tasks'[Len(tasks) + 1].name = creating[k].name
         /\ tasks'[Len(tasks) + 1].record = IF threadsPort = "Linux" THEN nextThreadId ELSE creating[k].id
  <1>0. /\ creating \in [Creators -> CallType] /\ creating[k].name \in ThreadNames
        /\ Len(tasks) \in Nat /\ tasks \in Seq(TaskType) /\ DOMAIN tasks = 1 .. Len(tasks)
    BY TableParts, TasksAreTyped DEF T!PlatformCreates, TableTypes
  <1> DEFINE e == [name |-> creating[k].name, state |-> "created",
                   record |-> IF threadsPort = "Linux" THEN nextThreadId ELSE creating[k].id]
             c == [creating[k] EXCEPT !.step = "created", !.task = Len(tasks) + 1]
  <1>1. e \in TaskType
    BY <1>0, TableParts DEF T!PlatformCreates, TaskType, CallType
  <1>2. /\ c \in CallType /\ c.step = "created" /\ c.task = Len(tasks) + 1 /\ c.name = creating[k].name
        /\ c.id = creating[k].id /\ c.count = creating[k].count
    <2>1. creating[k] \in CallType /\ Len(tasks) + 1 \in Nat
      BY <1>0
    <2>2. c \in CallType
      BY <2>1 DEF CallType
    <2>3. c.step = "created" /\ c.task = Len(tasks) + 1
      BY <2>1 DEF CallType
    <2>4. c.name = creating[k].name /\ c.id = creating[k].id /\ c.count = creating[k].count
      BY <2>1 DEF CallType
    <2> QED BY <2>2, <2>3, <2>4
  <1>3. tasks' = Append(tasks, e)
    BY DEF T!PlatformCreates
  <1>4. creating' = [creating EXCEPT ![k] = c]
    BY <1>0 DEF T!PlatformCreates, CallType
  <1>5. e.state = "created" /\ e.name = creating[k].name
        /\ e.record = IF threadsPort = "Linux" THEN nextThreadId ELSE creating[k].id
    OBVIOUS
  <1> HIDE DEF e, c
  <1>6. /\ tasks' \in Seq(TaskType) /\ Len(tasks') = Len(tasks) + 1
        /\ DOMAIN tasks' = DOMAIN tasks \cup {Len(tasks) + 1} /\ Len(tasks) + 1 \notin DOMAIN tasks
        /\ \A t \in DOMAIN tasks : tasks'[t] = tasks[t]
        /\ tasks'[Len(tasks) + 1] = e
    BY <1>0, <1>1, <1>3
  <1>7. /\ creating' \in [Creators -> CallType] /\ creating'[k] = c
        /\ \A j \in Creators : j # k => creating'[j] = creating[j]
    BY <1>0, <1>2, <1>4
  <1> QED BY <1>2, <1>5, <1>6, <1>7

\* What ends a call.
LEMMA IdleEffect ==
  ASSUME T!ThreadTableAssumption, TableTypes, NEW k \in Creators, creating' = [creating EXCEPT ![k] = T!Idle]
  PROVE  /\ creating' \in [Creators -> CallType]
         /\ creating'[k].step = "idle" /\ creating'[k].name = NoName
         /\ \A j \in Creators : j # k => creating'[j] = creating[j]
  <1>1. T!Idle \in CallType /\ T!Idle.step = "idle" /\ T!Idle.name = NoName
    BY DEF CallType, T!Idle, T!NoTask, T!ThreadTableAssumption
  <1> QED BY <1>1, TableParts

\* What deleting does to the records.
LEMMA MarkEffect ==
  ASSUME T!ThreadTableAssumption, TableTypes, NEW q, records' = [records EXCEPT ![q].status = "Terminated"]
  PROVE  /\ records' \in [T!Indices -> RecordType]
         /\ \A i \in T!Indices : /\ records'[i].task = records[i].task /\ records'[i].name = records[i].name
                                 /\ records'[i].status = IF i = q THEN "Terminated" ELSE records[i].status
  <1>1. records \in [T!Indices -> RecordType]
    BY TableParts
  <1>2. records' \in [T!Indices -> RecordType]
    BY <1>1, RecordUpdates
  <1> QED BY <1>1, <1>2 DEF RecordType

\* A refusal changes at most the status of records, the count and what was raced.
LEMMA RefuseEffect ==
  ASSUME T!ThreadTableAssumption, TableTypes, NEW k \in Creators, T!PlatformRefuses(k)
  PROVE  /\ records' \in [T!Indices -> RecordType]
         /\ \A i \in T!Indices : records'[i].task = records[i].task /\ records'[i].name = records[i].name
         /\ threadCount' \in Int
         /\ raced' = raced \/ raced' = raced \cup {"count"}
  <1>1. records \in [T!Indices -> RecordType] /\ threadCount \in Int /\ MaxThreads \in Int
    BY TableParts
  <1>2. \/ records' = records
        \/ \E q : records' = [records EXCEPT ![q].status = "Terminated"]
    BY DEF T!PlatformRefuses, T!Terminate
  <1>3. threadCount' \in Int /\ (raced' = raced \/ raced' = raced \cup {"count"})
    BY <1>1 DEF T!PlatformRefuses, T!Terminate
  <1> QED BY <1>1, <1>2, <1>3, MarkEffect

LEMMA StepsOfTable ==
  ASSUME [T!Next]_threadsVars
  PROVE  [T!ThreadSteps]_threadsVars /\ threadsPort' = threadsPort /\ T!ThreadCalls' = T!ThreadCalls
  <1>1. threadsPort' = threadsPort
    BY DEF T!Next, T!LinuxSteps, T!DarwinSteps, T!EspSteps, T!Cc32xxSteps, T!Tm4cSteps, T!ThreadSteps, threadsVars,
     T!BeginCreate, T!DeleteThread, T!BeginJoin, T!PlatformCreates, T!PlatformRefuses, T!StoreCreated,
     T!EndCreate, T!EndJoin, T!StartTask, T!EndTask
  <1>2. [T!ThreadSteps]_threadsVars
    BY DEF T!Next, T!LinuxSteps, T!DarwinSteps, T!EspSteps, T!Cc32xxSteps, T!Tm4cSteps
  <1> QED BY <1>1, <1>2 DEF T!ThreadCalls

LEMMA PartsType ==
  ASSUME T!ThreadTableAssumption, threadsPort' \in Ports,
         records' \in [T!Indices -> RecordType], creating' \in [Creators -> CallType],
         nextThreadId' \in Nat \ {0}, threadCount' \in Int, tasks' \in Seq(TaskType),
         joining' \in [name : ThreadNames \cup {NoName}, task : Nat], raced' \subseteq {"id", "count"},
         \A k \in Creators : creating'[k].step # "idle" => creating'[k].name \in ThreadNames
  PROVE  TableTypes'
  BY DEF TableTypes, T!TypeOK, RecordType, CallType, TaskType

LEMMA TableKeepsTypes ==
  ASSUME T!ThreadTableAssumption, TableTypes, [T!Next]_threadsVars
  PROVE  TableTypes'
  <1>0. /\ records \in [T!Indices -> RecordType] /\ creating \in [Creators -> CallType]
        /\ nextThreadId \in Nat \ {0} /\ threadCount \in Int /\ MaxThreads \in Nat \ {0}
        /\ raced \subseteq {"id", "count"} /\ threadsPort' \in Ports
        /\ joining \in [name : ThreadNames \cup {NoName}, task : Nat]
        /\ tasks \in Seq(TaskType) /\ Len(tasks) \in Nat /\ DOMAIN tasks = 1 .. Len(tasks)
        /\ \A k \in Creators : creating[k].step # "idle" => creating[k].name \in ThreadNames
        /\ T!ThreadCalls.first \in BOOLEAN
    BY TableParts, TasksAreTyped, StepsOfTable DEF TableTypes
  <1>1. ASSUME NEW k \in Creators, NEW n \in ThreadNames, T!BeginCreate(k, n) PROVE TableTypes'
    <2>1. UNCHANGED <<nextThreadId, threadCount, tasks, joining>>
      BY <1>1 DEF T!BeginCreate
    <2>2. CASE T!ThreadCalls.first
      <3>1. PICK task \in Nat : T!StoreRecord(k, NewCall(n), task)
        BY <1>1, <2>2, BeginFirst
      <3>2. /\ records' \in [T!Indices -> RecordType] /\ creating' \in [Creators -> CallType]
            /\ creating'[k].name = n /\ (\A j \in Creators : j # k => creating'[j] = creating[j])
            /\ raced' \in {raced, {"id", "count"}}
        BY <3>1, StoreEffect, NewCallFields
      <3> QED BY <1>0, <2>1, <3>2, PartsType
    <2>3. CASE ~T!ThreadCalls.first
      <3>2. /\ records' = records /\ creating' \in [Creators -> CallType] /\ raced' = raced
            /\ creating'[k].name = n /\ (\A j \in Creators : j # k => creating'[j] = creating[j])
        BY <1>1, <2>3, BeginLast
      <3> QED BY <1>0, <2>1, <3>2, PartsType
    <2> QED BY <1>0, <2>2, <2>3
  <1>2. ASSUME NEW k \in Creators, T!PlatformCreates(k) PROVE TableTypes'
    <2>1. /\ UNCHANGED <<records, nextThreadId, threadCount, joining, raced>>
          /\ creating[k].step = "create"
      BY <1>2 DEF T!PlatformCreates
    <2> QED BY <1>0, <1>2, <2>1, CreatesEffect, PartsType
  <1>3. ASSUME NEW k \in Creators, T!PlatformRefuses(k) PROVE TableTypes'
    <2>1. UNCHANGED <<nextThreadId, tasks, joining>> /\ creating' = [creating EXCEPT ![k] = T!Idle]
      BY <1>3 DEF T!PlatformRefuses
    <2>2. records' \in [T!Indices -> RecordType] /\ threadCount' \in Int /\ raced' \subseteq {"id", "count"}
      BY <1>0, <1>3, RefuseEffect
    <2> QED BY <1>0, <2>1, <2>2, IdleEffect, PartsType
  <1>4. ASSUME NEW k \in Creators, T!StoreCreated(k) PROVE TableTypes'
    <2> DEFINE call == [creating[k] EXCEPT !.step = "stored"]
    <2>1. /\ UNCHANGED <<nextThreadId, threadCount, tasks, joining>>
          /\ creating[k].step = "created" /\ T!StoreRecord(k, call, creating[k].task)
      BY <1>4 DEF T!StoreCreated
    <2>2. call \in CallType /\ call.name = creating[k].name /\ creating[k].task \in Nat
      BY <1>0 DEF CallType
    <2> HIDE DEF call
    <2>3. /\ records' \in [T!Indices -> RecordType] /\ creating' \in [Creators -> CallType]
          /\ creating'[k].name = creating[k].name /\ (\A j \in Creators : j # k => creating'[j] = creating[j])
          /\ raced' \in {raced, {"id", "count"}}
      BY <2>1, <2>2, StoreEffect
    <2> QED BY <1>0, <2>1, <2>3, PartsType
  <1>5. ASSUME NEW k \in Creators, T!EndCreate(k) PROVE TableTypes'
    <2>1. UNCHANGED <<records, tasks, joining, raced>> /\ creating' = [creating EXCEPT ![k] = T!Idle]
      BY <1>5 DEF T!EndCreate
    <2>2. nextThreadId' \in Nat \ {0}
      <3>1. creating[k].id \in Nat
        BY <1>0 DEF CallType
      <3> QED BY <1>0, <1>5, <3>1 DEF T!EndCreate
    <2>3. threadCount' \in Int
      <3>1. creating[k].count \in Int
        BY <1>0 DEF CallType
      <3> QED BY <1>0, <1>5, <3>1 DEF T!EndCreate
    <2> QED BY <1>0, <2>1, <2>2, <2>3, IdleEffect, PartsType
  <1>6. ASSUME NEW n \in ThreadNames, T!DeleteThread(n) PROVE TableTypes'
    <2>1. UNCHANGED <<nextThreadId, creating, tasks, joining>> /\ T!Terminate(n)
      BY <1>6 DEF T!DeleteThread
    <2>2. records' = records \/ \E q : records' = [records EXCEPT ![q].status = "Terminated"]
      BY <2>1 DEF T!Terminate
    <2>3. threadCount' \in Int /\ raced' \subseteq {"id", "count"}
      BY <1>0, <2>1 DEF T!Terminate
    <2>4. records' \in [T!Indices -> RecordType]
      BY <1>0, <2>2, MarkEffect
    <2> QED BY <1>0, <2>1, <2>3, <2>4, PartsType
  <1>7. ASSUME NEW n \in ThreadNames, T!BeginJoin(n) PROVE TableTypes'
    <2>0. UNCHANGED <<records, nextThreadId, threadCount, creating, tasks, raced>>
      BY <1>7 DEF T!BeginJoin
    <2>1. joining' \in [name : ThreadNames \cup {NoName}, task : Nat]
      <3>1. CASE T!WithName(n) # {} /\ joining' = [name |-> n, task |-> records[T!First(n)].task]
        <4>1. records[T!First(n)].task \in Nat
          BY <1>0, <3>1, FirstHasName DEF RecordType
        <4> QED BY <3>1, <4>1
      <3>2. CASE joining' = [name |-> n, task |-> T!NoTask]
        BY <3>2 DEF T!NoTask
      <3> QED BY <1>7, <3>1, <3>2 DEF T!BeginJoin
    <2> QED BY <1>0, <2>0, <2>1, PartsType
  <1>8. CASE T!EndJoin
    <2>1. UNCHANGED <<records, nextThreadId, threadCount, creating, tasks, raced>> /\ joining' = T!NoJoin
      BY <1>8 DEF T!EndJoin
    <2> QED BY <1>0, <2>1, PartsType DEF T!NoJoin, T!NoTask
  <1>9. ASSUME NEW t \in DOMAIN tasks, T!StartTask(t) PROVE TableTypes'
    <2>1. UNCHANGED <<nextThreadId, threadCount, creating, joining, raced>>
      BY <1>9 DEF T!StartTask
    <2>2. records' \in [T!Indices -> RecordType]
      <3>1. records' = records \/ \E q : records' = [records EXCEPT ![q].task = t]
        BY <1>9 DEF T!StartTask
      <3>2. t \in Nat
        BY <1>0
      <3>3. CASE records' = records
        BY <1>0, <3>3
      <3>4. ASSUME NEW q, records' = [records EXCEPT ![q].task = t] PROVE records' \in [T!Indices -> RecordType]
        BY <1>0, <3>2, <3>4, RecordUpdates
      <3> QED BY <3>1, <3>3, <3>4
    <2>3. tasks' \in Seq(TaskType)
      BY <1>0, <1>9, TaskUpdates DEF T!StartTask
    <2> QED BY <1>0, <2>1, <2>2, <2>3, PartsType
  <1>10. ASSUME NEW t \in DOMAIN tasks, T!EndTask(t) PROVE TableTypes'
    <2>1. UNCHANGED <<records, nextThreadId, threadCount, creating, joining, raced>>
      BY <1>10 DEF T!EndTask
    <2>2. tasks' \in Seq(TaskType)
      BY <1>0, <1>10, TaskUpdates DEF T!EndTask
    <2> QED BY <1>0, <2>1, <2>2, PartsType
  <1>11. CASE UNCHANGED threadsVars
    BY <1>0, <1>11, PartsType DEF threadsVars
  <1> QED
    BY <1>1, <1>2, <1>3, <1>4, <1>5, <1>6, <1>7, <1>8, <1>9, <1>10, <1>11, StepsOfTable DEF T!ThreadSteps

\* Who has read the counter, on the two kinds of ports, before and after a step.
LEMMA ReadsFirst ==
  ASSUME T!ThreadCalls.first, T!ThreadCalls' = T!ThreadCalls
  PROVE  /\ \A k \in Creators : T!HasRead(k) <=> creating[k].step \in {"create", "created"}
         /\ \A k \in Creators : T!HasRead(k)' <=> creating'[k].step \in {"create", "created"}
         /\ InLast <=> \E k \in Creators : creating[k].step = "created"
         /\ InLast' <=> \E k \in Creators : creating'[k].step = "created"
  BY DEF T!HasRead, InLast, T!LastStep

LEMMA ReadsLast ==
  ASSUME ~T!ThreadCalls.first, T!ThreadCalls' = T!ThreadCalls
  PROVE  /\ \A k \in Creators : T!HasRead(k) <=> creating[k].step = "stored"
         /\ \A k \in Creators : T!HasRead(k)' <=> creating'[k].step = "stored"
         /\ InLast <=> \E k \in Creators : creating[k].step = "stored"
         /\ InLast' <=> \E k \in Creators : creating'[k].step = "stored"
         /\ T!SomeHasRead <=> InLast
         /\ T!SomeHasRead' <=> InLast'
  BY DEF T!HasRead, InLast, T!LastStep, T!SomeHasRead

\* A step that leaves the calls and the counter.
LEMMA CallsStay ==
  ASSUME T!ThreadCalls' = T!ThreadCalls, creating' = creating, nextThreadId' = nextThreadId
  PROVE  /\ Used' = Used /\ (InLast' <=> InLast) /\ (T!SomeHasRead' <=> T!SomeHasRead)
         /\ \A k \in Creators : T!HasRead(k)' <=> T!HasRead(k)
         /\ OneReads /\ ReadsNow => OneReads' /\ ReadsNow'
  <1>1. /\ \A k \in Creators : T!HasRead(k)' <=> T!HasRead(k)
        /\ InLast' <=> InLast
    BY DEF T!HasRead, InLast, T!LastStep
  <1> QED BY <1>1 DEF Used, OneReads, ReadsNow, T!SomeHasRead

\* Where the record is stored first.
LEMMA IdsStayFirst ==
  ASSUME T!ThreadTableAssumption, TableTypes, IdsInv, T!ThreadCalls.first,
         [T!Next]_threadsVars, "id" \notin raced'
  PROVE  OneReads' /\ ReadsNow' /\ FirstKnow'
  <1>0. /\ T!ThreadCalls' = T!ThreadCalls
        /\ records \in [T!Indices -> RecordType] /\ nextThreadId \in Nat \ {0} /\ MaxThreads \in Nat \ {0}
        /\ OneReads /\ ReadsNow /\ FirstKnow
        /\ Len(tasks) \in Nat /\ DOMAIN tasks = 1 .. Len(tasks) /\ tasks \in Seq(TaskType)
        /\ \A t \in DOMAIN tasks : tasks[t].record \in Nat
    BY StepsOfTable, TableParts, TasksAreTyped DEF IdsInv, TableTypes, TaskType
  <1>00. /\ \A k \in Creators : T!HasRead(k) <=> creating[k].step \in {"create", "created"}
         /\ \A k \in Creators : T!HasRead(k)' <=> creating'[k].step \in {"create", "created"}
         /\ InLast <=> \E k \in Creators : creating[k].step = "created"
         /\ InLast' <=> \E k \in Creators : creating'[k].step = "created"
    BY <1>0, ReadsFirst
  <1>1. ASSUME NEW k \in Creators, NEW n \in ThreadNames, T!BeginCreate(k, n)
        PROVE  OneReads' /\ ReadsNow' /\ FirstKnow'
    <2>1. PICK task \in Nat : T!StoreRecord(k, NewCall(n), task)
      BY <1>1, BeginFirst
    <2>2. /\ nextThreadId \in T!Indices
          /\ \A i \in T!Indices : i # nextThreadId => records'[i] = records[i]
          /\ creating'[k].step = "create" /\ creating'[k].id = nextThreadId
          /\ \A j \in Creators : j # k => creating'[j] = creating[j]
          /\ T!SomeHasRead => raced' = {"id", "count"}
      BY <2>1, StoreEffect, NewCallFields
    <2>3. UNCHANGED <<nextThreadId, tasks>>
      BY <1>1 DEF T!BeginCreate
    <2>4. \A j \in Creators : ~T!HasRead(j)
      BY <2>2 DEF T!SomeHasRead
    <2>5. ~InLast /\ ~InLast'
      BY <1>00, <2>2, <2>4
    <2>6. OneReads' /\ ReadsNow'
      BY <1>00, <2>2, <2>3, <2>4 DEF OneReads, ReadsNow, T!Indices
    <2>7. Used = nextThreadId /\ Used' = nextThreadId
      BY <2>3, <2>5 DEF Used
    <2>8. FirstKnow'
      BY <1>0, <2>2, <2>3, <2>7 DEF FirstKnow
    <2> QED BY <2>6, <2>8
  <1>2. ASSUME NEW k \in Creators, T!PlatformCreates(k)
        PROVE  OneReads' /\ ReadsNow' /\ FirstKnow'
    <2>1. /\ UNCHANGED <<records, nextThreadId>> /\ creating[k].step = "create"
      BY <1>2 DEF T!PlatformCreates
    <2>2. /\ creating'[k].step = "created" /\ creating'[k].id = creating[k].id
          /\ \A j \in Creators : j # k => creating'[j] = creating[j]
          /\ DOMAIN tasks' = DOMAIN tasks \cup {Len(tasks) + 1} /\ Len(tasks) + 1 \notin DOMAIN tasks
          /\ \A t \in DOMAIN tasks : tasks'[t] = tasks[t]
          /\ tasks'[Len(tasks) + 1].state = "created"
          /\ tasks'[Len(tasks) + 1].record = IF threadsPort = "Linux" THEN nextThreadId ELSE creating[k].id
      BY <1>2, CreatesEffect
    <2>3. T!HasRead(k) /\ \A j \in Creators : T!HasRead(j) => j = k
      BY <1>0, <1>00, <2>1 DEF OneReads
    <2>4. creating[k].id = nextThreadId /\ nextThreadId \in T!Indices
      BY <1>0, <2>3 DEF ReadsNow, T!Indices
    <2>5. ~InLast /\ InLast'
      BY <1>00, <2>1, <2>2, <2>3
    <2>6. OneReads' /\ ReadsNow'
      BY <1>00, <1>0, <2>1, <2>2, <2>3, <2>4 DEF OneReads, ReadsNow
    <2>7. Used = nextThreadId /\ Used' = nextThreadId + 1
      BY <2>1, <2>5 DEF Used
    <2>8. tasks'[Len(tasks) + 1].record = nextThreadId
      BY <2>2, <2>4
    <2>9. FirstKnow'
      <3> SUFFICES ASSUME NEW t \in DOMAIN tasks'
                   PROVE  /\ tasks'[t].record \in T!Indices /\ tasks'[t].record < nextThreadId + 1
                          /\ tasks'[t].state # "created" => records[tasks'[t].record].task = t
                          /\ \A u \in DOMAIN tasks' : tasks'[u].record = tasks'[t].record => u = t
        BY <2>1, <2>7 DEF FirstKnow
      <3>1. \A u \in DOMAIN tasks : tasks[u].record < nextThreadId /\ tasks[u].record \in T!Indices
        BY <1>0, <2>7 DEF FirstKnow
      <3>2. CASE t = Len(tasks) + 1
        BY <1>0, <2>2, <2>4, <2>8, <3>1, <3>2
      <3>3. CASE t \in DOMAIN tasks
        BY <1>0, <2>2, <2>4, <2>8, <3>1, <3>3 DEF FirstKnow
      <3> QED BY <2>2, <3>2, <3>3
    <2> QED BY <2>6, <2>9
  <1>3. ASSUME NEW k \in Creators, T!PlatformRefuses(k)
        PROVE  OneReads' /\ ReadsNow' /\ FirstKnow'
    <2>1. /\ UNCHANGED <<nextThreadId, tasks>> /\ creating[k].step = "create"
          /\ creating' = [creating EXCEPT ![k] = T!Idle]
      BY <1>3 DEF T!PlatformRefuses
    <2>2. creating'[k].step = "idle" /\ \A j \in Creators : j # k => creating'[j] = creating[j]
      BY <2>1, IdleEffect
    <2>3. \A i \in T!Indices : records'[i].task = records[i].task
      BY <1>3, RefuseEffect
    <2>4. T!HasRead(k) /\ \A j \in Creators : T!HasRead(j) => j = k
      BY <1>0, <1>00, <2>1 DEF OneReads
    <2>5. ~InLast /\ ~InLast' /\ \A j \in Creators : ~T!HasRead(j)'
      BY <1>00, <2>1, <2>2, <2>4
    <2>6. Used' = Used
      BY <2>1, <2>5 DEF Used
    <2> QED BY <1>0, <2>1, <2>3, <2>5, <2>6 DEF OneReads, ReadsNow, FirstKnow
  <1>4. ASSUME NEW k \in Creators, T!EndCreate(k)
        PROVE  OneReads' /\ ReadsNow' /\ FirstKnow'
    <2>1. /\ UNCHANGED <<records, tasks>> /\ creating[k].step = "created"
          /\ creating' = [creating EXCEPT ![k] = T!Idle]
          /\ \E i \in {creating[k].id, nextThreadId} : nextThreadId' = i + 1
      BY <1>4 DEF T!EndCreate, T!LastStep
    <2>2. creating'[k].step = "idle" /\ \A j \in Creators : j # k => creating'[j] = creating[j]
      BY <2>1, IdleEffect
    <2>4. T!HasRead(k) /\ \A j \in Creators : T!HasRead(j) => j = k
      BY <1>0, <1>00, <2>1 DEF OneReads
    <2>5. InLast /\ ~InLast' /\ \A j \in Creators : ~T!HasRead(j)'
      BY <1>00, <2>1, <2>2, <2>4
    <2>6. nextThreadId' = nextThreadId + 1
      BY <1>0, <2>1, <2>4 DEF ReadsNow
    <2>7. Used' = Used
      BY <2>5, <2>6 DEF Used
    <2> QED BY <1>0, <2>1, <2>5, <2>7 DEF OneReads, ReadsNow, FirstKnow
  <1>5. ASSUME creating' = creating, nextThreadId' = nextThreadId, tasks' = tasks,
               \A i \in T!Indices : records'[i].task = records[i].task
        PROVE  OneReads' /\ ReadsNow' /\ FirstKnow'
    <2>1. Used' = Used /\ OneReads' /\ ReadsNow'
      BY <1>0, <1>5, CallsStay
    <2> QED BY <1>0, <1>5, <2>1 DEF FirstKnow
  <1>6. ASSUME NEW n \in ThreadNames, T!DeleteThread(n)
        PROVE  OneReads' /\ ReadsNow' /\ FirstKnow'
    <2>1. UNCHANGED <<nextThreadId, creating, tasks>>
          /\ (records' = records \/ \E q : records' = [records EXCEPT ![q].status = "Terminated"])
      BY <1>6 DEF T!DeleteThread, T!Terminate
    <2> QED BY <1>5, <2>1, MarkEffect
  <1>7. ASSUME NEW t \in DOMAIN tasks, T!StartTask(t)
        PROVE  OneReads' /\ ReadsNow' /\ FirstKnow'
    <2>1. /\ UNCHANGED <<nextThreadId, creating>> /\ tasks' = [tasks EXCEPT ![t].state = "running"]
          /\ records' = [records EXCEPT ![tasks[t].record].task = t]
      BY <1>7 DEF T!StartTask
    <2>2. Used' = Used /\ OneReads' /\ ReadsNow'
      BY <1>0, <2>1, CallsStay
    <2>3. /\ DOMAIN tasks' = DOMAIN tasks
          /\ \A u \in DOMAIN tasks : /\ tasks'[u].record = tasks[u].record
                                     /\ tasks'[u].state = IF u = t THEN "running" ELSE tasks[u].state
      BY <1>0, <2>1, TaskUpdates
    <2>4. tasks[t].record \in T!Indices /\ \A u \in DOMAIN tasks : tasks[u].record = tasks[t].record => u = t
      BY <1>0 DEF FirstKnow
    <2>5. /\ records'[tasks[t].record].task = t
          /\ \A i \in T!Indices : i # tasks[t].record => records'[i] = records[i]
      BY <1>0, <2>1, <2>4 DEF RecordType
    <2> QED BY <1>0, <2>2, <2>3, <2>4, <2>5 DEF FirstKnow
  <1>8. ASSUME NEW t \in DOMAIN tasks, T!EndTask(t)
        PROVE  OneReads' /\ ReadsNow' /\ FirstKnow'
    <2>1. /\ UNCHANGED <<nextThreadId, creating, records>> /\ tasks' = [tasks EXCEPT ![t].state = "ended"]
          /\ tasks[t].state = "running"
      BY <1>8 DEF T!EndTask
    <2>2. Used' = Used /\ OneReads' /\ ReadsNow'
      BY <1>0, <2>1, CallsStay
    <2>3. /\ DOMAIN tasks' = DOMAIN tasks
          /\ \A u \in DOMAIN tasks : /\ tasks'[u].record = tasks[u].record
                                     /\ tasks'[u].state = IF u = t THEN "ended" ELSE tasks[u].state
      BY <1>0, <2>1, TaskUpdates
    <2> QED BY <1>0, <2>1, <2>2, <2>3 DEF FirstKnow
  <1>9. ASSUME NEW n \in ThreadNames, T!BeginJoin(n)
        PROVE  OneReads' /\ ReadsNow' /\ FirstKnow'
    BY <1>5, <1>9 DEF T!BeginJoin
  <1>10. CASE T!EndJoin
    BY <1>5, <1>10 DEF T!EndJoin
  <1>11. CASE UNCHANGED threadsVars
    BY <1>5, <1>11 DEF threadsVars
  <1>12. ASSUME NEW k \in Creators, T!StoreCreated(k) PROVE FALSE
    BY <1>12 DEF T!StoreCreated
  <1> QED
    BY <1>1, <1>2, <1>3, <1>4, <1>6, <1>7, <1>8, <1>9, <1>10, <1>11, <1>12, StepsOfTable DEF T!ThreadSteps

\* Where it is stored last.
LEMMA IdsStayLast ==
  ASSUME T!ThreadTableAssumption, TableTypes, IdsInv, ~T!ThreadCalls.first,
         [T!Next]_threadsVars, "id" \notin raced'
  PROVE  OneReads' /\ ReadsNow' /\ LastKnow'
  <1>0. /\ T!ThreadCalls' = T!ThreadCalls
        /\ records \in [T!Indices -> RecordType] /\ nextThreadId \in Nat \ {0} /\ MaxThreads \in Nat \ {0}
        /\ OneReads /\ ReadsNow /\ LastKnow
        /\ Len(tasks) \in Nat /\ DOMAIN tasks = 1 .. Len(tasks) /\ tasks \in Seq(TaskType)
        /\ \A i \in T!Indices : i \in Nat
    BY StepsOfTable, TableParts, TasksAreTyped DEF IdsInv, TableTypes, T!Indices
  <1>00. /\ \A k \in Creators : T!HasRead(k) <=> creating[k].step = "stored"
         /\ \A k \in Creators : T!HasRead(k)' <=> creating'[k].step = "stored"
         /\ InLast <=> \E k \in Creators : creating[k].step = "stored"
         /\ InLast' <=> \E k \in Creators : creating'[k].step = "stored"
         /\ T!SomeHasRead <=> InLast
    BY <1>0, ReadsLast
  \* A step of one call that has neither stored its record nor got its task.
  <1>1. ASSUME NEW k \in Creators, creating[k].step \notin {"created", "stored"}, creating'[k].step # "stored",
               \A j \in Creators : j # k => creating'[j] = creating[j],
               nextThreadId' = nextThreadId, tasks' = tasks,
               \A i \in T!Indices : records'[i].task = records[i].task
        PROVE  OneReads' /\ ReadsNow' /\ LastKnow'
    <2>1. (\A j \in Creators : T!HasRead(j)' => T!HasRead(j) /\ j # k) /\ (InLast' <=> InLast)
      BY <1>00, <1>1
    <2>2. Used' = Used
      BY <1>1, <2>1 DEF Used
    <2>3. OneReads' /\ ReadsNow'
      BY <1>0, <1>1, <2>1 DEF OneReads, ReadsNow
    <2>4. LastKnow'
      BY <1>0, <1>1, <2>2 DEF LastKnow
    <2> QED BY <2>3, <2>4
  <1>2. ASSUME NEW k \in Creators, NEW n \in ThreadNames, T!BeginCreate(k, n)
        PROVE  OneReads' /\ ReadsNow' /\ LastKnow'
    <2>1. creating[k].step = "idle" /\ UNCHANGED <<nextThreadId, tasks>>
      BY <1>2 DEF T!BeginCreate, T!Idle
    <2> QED BY <1>1, <1>2, <2>1, BeginLast
  <1>3. ASSUME NEW k \in Creators, T!PlatformRefuses(k)
        PROVE  OneReads' /\ ReadsNow' /\ LastKnow'
    <2>1. /\ UNCHANGED <<nextThreadId, tasks>> /\ creating[k].step = "create"
          /\ creating' = [creating EXCEPT ![k] = T!Idle]
      BY <1>3 DEF T!PlatformRefuses
    <2>2. creating'[k].step = "idle" /\ \A j \in Creators : j # k => creating'[j] = creating[j]
      BY <2>1, IdleEffect
    <2>3. \A i \in T!Indices : records'[i].task = records[i].task
      BY <1>3, RefuseEffect
    <2> QED BY <1>1, <2>1, <2>2, <2>3
  <1>4. ASSUME NEW k \in Creators, T!PlatformCreates(k)
        PROVE  OneReads' /\ ReadsNow' /\ LastKnow'
    <2>1. /\ UNCHANGED <<records, nextThreadId>> /\ creating[k].step = "create"
      BY <1>4 DEF T!PlatformCreates
    <2>2. /\ creating'[k].step = "created" /\ creating'[k].task = Len(tasks) + 1
          /\ \A j \in Creators : j # k => creating'[j] = creating[j]
          /\ DOMAIN tasks' = DOMAIN tasks \cup {Len(tasks) + 1}
      BY <1>4, CreatesEffect
    <2>3. (\A j \in Creators : T!HasRead(j)' => T!HasRead(j) /\ j # k) /\ (InLast' <=> InLast)
      BY <1>00, <2>1, <2>2
    <2>4. Used' = Used
      BY <2>1, <2>3 DEF Used
    <2>5. OneReads' /\ ReadsNow'
      BY <1>0, <2>1, <2>2, <2>3 DEF OneReads, ReadsNow
    <2>6. LastKnow'
      BY <1>0, <2>1, <2>2, <2>4 DEF LastKnow
    <2> QED BY <2>5, <2>6
  <1>5. ASSUME NEW k \in Creators, T!StoreCreated(k)
        PROVE  OneReads' /\ ReadsNow' /\ LastKnow'
    <2> DEFINE call == [creating[k] EXCEPT !.step = "stored"]
    <2>1. /\ UNCHANGED <<nextThreadId, threadCount, tasks, joining>>
          /\ creating[k].step = "created" /\ T!StoreRecord(k, call, creating[k].task)
      BY <1>5 DEF T!StoreCreated
    <2>2. call \in CallType /\ call.step = "stored" /\ creating[k].task \in Nat
      <3>1. creating \in [Creators -> CallType]
        BY TableParts
      <3>2. creating[k] \in CallType
        BY <3>1
      <3>3. call \in CallType
        BY <3>2 DEF CallType
      <3>4. call.step = "stored" /\ creating[k].task \in Nat
        BY <3>2 DEF CallType
      <3> QED BY <3>3, <3>4
    <2> HIDE DEF call
    <2>3. /\ nextThreadId \in T!Indices
          /\ records'[nextThreadId].task = creating[k].task
          /\ \A i \in T!Indices : i # nextThreadId => records'[i] = records[i]
          /\ creating'[k].step = "stored" /\ creating'[k].id = nextThreadId
          /\ \A j \in Creators : j # k => creating'[j] = creating[j]
          /\ T!SomeHasRead => raced' = {"id", "count"}
      <3>1. /\ nextThreadId \in T!Indices
            /\ records'[nextThreadId] = [name |-> call.name, task |-> creating[k].task, status |-> "Active"]
            /\ \A i \in T!Indices : i # nextThreadId => records'[i] = records[i]
            /\ creating'[k].step = call.step /\ creating'[k].id = nextThreadId
            /\ \A j \in Creators : j # k => creating'[j] = creating[j]
            /\ T!SomeHasRead => raced' = {"id", "count"}
        BY <2>1, <2>2, StoreEffect
      <3> QED BY <2>2, <3>1
    <2>4. ~T!SomeHasRead /\ \A j \in Creators : ~T!HasRead(j)
      BY <2>3 DEF T!SomeHasRead
    <2>5. Used = nextThreadId /\ Used' = nextThreadId + 1
      BY <1>00, <2>1, <2>3, <2>4 DEF Used
    <2>6. OneReads' /\ ReadsNow'
      BY <1>00, <2>1, <2>3, <2>4 DEF OneReads, ReadsNow, T!Indices
    <2>7. LastKnow'
      <3> SUFFICES ASSUME NEW t \in DOMAIN tasks
                   PROVE  \/ \E j \in Creators : creating'[j].step = "created" /\ creating'[j].task = t
                          \/ \E i \in T!Indices : i < nextThreadId + 1 /\ records'[i].task = t
        BY <2>1, <2>5 DEF LastKnow
      <3>1. CASE \E j \in Creators : creating[j].step = "created" /\ creating[j].task = t
        <4>1. PICK j \in Creators : creating[j].step = "created" /\ creating[j].task = t
          BY <3>1
        <4>2. CASE j = k
          BY <1>0, <2>3, <4>1, <4>2
        <4>3. CASE j # k
          BY <2>3, <4>1, <4>3
        <4> QED BY <4>2, <4>3
      <3>2. CASE \E i \in T!Indices : i < nextThreadId /\ records[i].task = t
        BY <1>0, <2>3, <3>2
      <3> QED BY <1>0, <2>5, <3>1, <3>2 DEF LastKnow
    <2> QED BY <2>6, <2>7
  <1>6. ASSUME NEW k \in Creators, T!EndCreate(k)
        PROVE  OneReads' /\ ReadsNow' /\ LastKnow'
    <2>1. /\ UNCHANGED <<records, tasks>> /\ creating[k].step = "stored"
          /\ creating' = [creating EXCEPT ![k] = T!Idle]
          /\ \E i \in {creating[k].id, nextThreadId} : nextThreadId' = i + 1
      BY <1>6 DEF T!EndCreate, T!LastStep
    <2>2. creating'[k].step = "idle" /\ \A j \in Creators : j # k => creating'[j] = creating[j]
      BY <2>1, IdleEffect
    <2>4. T!HasRead(k) /\ \A j \in Creators : T!HasRead(j) => j = k
      BY <1>0, <1>00, <2>1 DEF OneReads
    <2>5. InLast /\ ~InLast' /\ \A j \in Creators : ~T!HasRead(j)'
      BY <1>00, <2>1, <2>2, <2>4
    <2>6. nextThreadId' = nextThreadId + 1
      BY <1>0, <2>1, <2>4 DEF ReadsNow
    <2>7. Used' = Used
      BY <2>5, <2>6 DEF Used
    <2>8. OneReads' /\ ReadsNow'
      BY <2>5 DEF OneReads, ReadsNow
    <2>9. \A j \in Creators : creating[j].step = "created" => creating'[j] = creating[j]
      BY <2>1, <2>2
    <2>10. LastKnow'
      BY <1>0, <2>1, <2>7, <2>9 DEF LastKnow
    <2> QED BY <2>8, <2>10
  <1>7. ASSUME creating' = creating, nextThreadId' = nextThreadId, DOMAIN tasks' = DOMAIN tasks,
               \A i \in T!Indices : records'[i].task = records[i].task
        PROVE  OneReads' /\ ReadsNow' /\ LastKnow'
    <2>1. Used' = Used /\ OneReads' /\ ReadsNow'
      BY <1>0, <1>7, CallsStay
    <2> QED BY <1>0, <1>7, <2>1 DEF LastKnow
  <1>8. ASSUME NEW n \in ThreadNames, T!DeleteThread(n)
        PROVE  OneReads' /\ ReadsNow' /\ LastKnow'
    <2>1. UNCHANGED <<nextThreadId, creating, tasks>>
          /\ (records' = records \/ \E q : records' = [records EXCEPT ![q].status = "Terminated"])
      BY <1>8 DEF T!DeleteThread, T!Terminate
    <2> QED BY <1>7, <2>1, MarkEffect
  <1>9. ASSUME NEW t \in DOMAIN tasks, T!StartTask(t) \/ T!EndTask(t)
        PROVE  OneReads' /\ ReadsNow' /\ LastKnow'
    <2>1. UNCHANGED <<nextThreadId, creating, records>> /\ DOMAIN tasks' = DOMAIN tasks
      BY <1>9 DEF T!StartTask, T!EndTask
    <2> QED BY <1>7, <2>1
  <1>10. ASSUME NEW n \in ThreadNames, T!BeginJoin(n)
        PROVE  OneReads' /\ ReadsNow' /\ LastKnow'
    BY <1>7, <1>10 DEF T!BeginJoin
  <1>11. CASE T!EndJoin
    BY <1>7, <1>11 DEF T!EndJoin
  <1>12. CASE UNCHANGED threadsVars
    BY <1>7, <1>12 DEF threadsVars
  <1> QED
    BY <1>2, <1>3, <1>4, <1>5, <1>6, <1>8, <1>9, <1>10, <1>11, <1>12, StepsOfTable DEF T!ThreadSteps

\* What was raced stays raced.
LEMMA RacedStays ==
  ASSUME T!ThreadTableAssumption, TableTypes, [T!Next]_threadsVars
  PROVE  raced \subseteq raced'
  <1>1. raced \subseteq {"id", "count"}
    BY TableParts
  <1>2. \/ raced' = raced \/ raced' = {"id", "count"} \/ raced' = raced \cup {"count"}
    BY StepsOfTable DEF T!ThreadSteps, threadsVars, T!BeginCreate, T!StoreRecord, T!DeleteThread, T!Terminate,
       T!BeginJoin, T!PlatformCreates, T!PlatformRefuses, T!StoreCreated, T!EndCreate, T!EndJoin, T!StartTask, T!EndTask
  <1> QED BY <1>1, <1>2

LEMMA IdsStay ==
  ASSUME T!ThreadTableAssumption, TableInv, [T!Next]_threadsVars
  PROVE  "id" \notin raced' => IdsInv'
  <1> SUFFICES ASSUME "id" \notin raced' PROVE IdsInv'
    OBVIOUS
  <1>1. TableTypes /\ T!ThreadCalls.first \in BOOLEAN /\ T!ThreadCalls' = T!ThreadCalls
    BY TableParts, StepsOfTable DEF TableInv
  <1>2. IdsInv
    BY <1>1, RacedStays DEF TableInv
  <1>3. CASE T!ThreadCalls.first
    BY <1>1, <1>2, <1>3, IdsStayFirst DEF IdsInv
  <1>4. CASE ~T!ThreadCalls.first
    BY <1>1, <1>2, <1>4, IdsStayLast DEF IdsInv
  <1> QED BY <1>1, <1>3, <1>4

\* Marking a live record takes one off the active ones, storing a new one adds one.
LEMMA ActiveCounts ==
  ASSUME T!ThreadTableAssumption
  PROVE  /\ IsFiniteSet(Active) /\ Cardinality(Active) \in Nat
         /\ \A i : Cardinality(Active \ {i}) = IF i \in Active THEN Cardinality(Active) - 1
                                                ELSE Cardinality(Active)
         /\ \A i : Cardinality(Active \cup {i}) = IF i \in Active THEN Cardinality(Active)
                                                   ELSE Cardinality(Active) + 1
  <1>1. IsFiniteSet(T!Indices)
    BY FS_Interval DEF T!Indices, T!ThreadTableAssumption
  <1>2. Active \in SUBSET T!Indices
    BY DEF Active
  <1>3. IsFiniteSet(Active)
    BY <1>1, <1>2, FS_Subset
  <1> QED BY <1>3, FS_CardinalityType, FS_RemoveElement, FS_AddElement

LEMMA CountStays ==
  ASSUME T!ThreadTableAssumption, TableInv, [T!Next]_threadsVars
  PROVE  Careful /\ raced' = {} /\ ~T!ThreadCalls'.first => CountInv'
  <1> SUFFICES ASSUME Careful, raced' = {}, ~T!ThreadCalls'.first PROVE CountInv'
    OBVIOUS
  <1>0. /\ T!ThreadCalls' = T!ThreadCalls /\ ~T!ThreadCalls.first
        /\ records \in [T!Indices -> RecordType] /\ nextThreadId \in Nat \ {0} /\ MaxThreads \in Nat \ {0}
        /\ threadCount \in Int /\ NoName \notin ThreadNames /\ TableTypes
        /\ Len(tasks) \in Nat /\ DOMAIN tasks = 1 .. Len(tasks) /\ tasks \in Seq(TaskType)
        /\ \A t \in DOMAIN tasks : tasks[t].name \in ThreadNames
        /\ \A i \in T!Indices : i \in Nat
        /\ creating \in [Creators -> CallType]
        /\ \A k \in Creators : creating[k].step # "idle" => creating[k].name \in ThreadNames
    BY StepsOfTable, TableParts, TasksAreTyped
       DEF TableInv, TableTypes, T!Indices, T!ThreadTableAssumption, TaskType
  <1>a. OneReads /\ ReadsNow /\ CountInv
    BY <1>0, RacedStays DEF TableInv, IdsInv
  <1>b. RecordsFill /\ NameIsNew /\ CountsNow /\ threadCount + (IF InLast THEN 1 ELSE 0) = Cardinality(Active)
    BY <1>0, <1>a, ReadsLast DEF CountInv
  <1>00. /\ \A k \in Creators : T!HasRead(k) <=> creating[k].step = "stored"
         /\ \A k \in Creators : T!HasRead(k)' <=> creating'[k].step = "stored"
         /\ InLast <=> \E k \in Creators : creating[k].step = "stored"
         /\ InLast' <=> \E k \in Creators : creating'[k].step = "stored"
         /\ T!SomeHasRead <=> InLast
         /\ T!SomeHasRead' <=> InLast'
    BY <1>0, ReadsLast
  <1>c. ASSUME RecordsFill', NameIsNew', CountsNow', threadCount' + (IF InLast' THEN 1 ELSE 0) = Cardinality(Active)'
        PROVE  CountInv'
    BY <1>00, <1>c DEF CountInv
  \* A step of a call that has not stored its record, or of none.
  <1>1. ASSUME NEW k \in Creators, creating[k].step # "stored", creating'[k].step # "stored",
               \A j \in Creators : j # k => creating'[j] = creating[j],
               UNCHANGED <<records, nextThreadId, threadCount>>,
               DOMAIN tasks \subseteq DOMAIN tasks',
               \A t \in DOMAIN tasks : tasks'[t].name = tasks[t].name,
               creating'[k].step \in {"idle", "create", "created"},
               creating'[k].step = "created" =>
                 creating'[k].task \in DOMAIN tasks' /\ tasks'[creating'[k].task].name = creating'[k].name,
               creating'[k].step # "idle" =>
                 /\ \A i \in T!Indices : records[i].name # creating'[k].name
                 /\ \A j \in Creators : j # k => creating[j].name # creating'[k].name,
               creating'[k].step = "idle" => creating'[k].name = NoName
        PROVE  CountInv'
    <2>1. (\A j \in Creators : T!HasRead(j)' <=> T!HasRead(j) /\ j # k) /\ (InLast' <=> InLast)
      BY <1>00, <1>1
    <2>2. Used' = Used /\ Active' = Active
      BY <1>1, <2>1 DEF Used, Active
    <2>3. RecordsFill'
      BY <1>b, <1>1, <2>2 DEF RecordsFill
    <2>4. NameIsNew'
      <3> SUFFICES ASSUME NEW j \in Creators
                   PROVE  /\ creating'[j].step \in {"create", "created"} =>
                               \A i \in T!Indices : records[i].name # creating'[j].name
                          /\ creating'[j].step # "idle" =>
                               \A l \in Creators : creating'[l].name = creating'[j].name => l = j
                          /\ creating'[j].step \in {"created", "stored"} =>
                               creating'[j].task \in DOMAIN tasks' /\ tasks'[creating'[j].task].name = creating'[j].name
        BY <1>1 DEF NameIsNew
      <3>1. CASE j = k
        BY <1>1, <3>1
      <3>2. CASE j # k
        <4>1. creating'[j] = creating[j]
          BY <1>1, <3>2
        <4>2. creating[j].step # "idle" => creating'[k].name # creating[j].name
          <5>1. CASE creating'[k].step = "idle"
            BY <1>0, <1>1, <5>1
          <5>2. CASE creating'[k].step # "idle"
            BY <1>1, <3>2, <5>2
          <5> QED BY <5>1, <5>2
        <4>3. creating[j].step # "idle" => \A l \in Creators : creating'[l].name = creating[j].name => l = j
          BY <1>b, <1>1, <4>2 DEF NameIsNew
        <4>4. creating[j].step \in {"created", "stored"} =>
                creating[j].task \in DOMAIN tasks' /\ tasks'[creating[j].task].name = creating[j].name
          BY <1>b, <1>1 DEF NameIsNew
        <4> QED BY <1>b, <4>1, <4>3, <4>4 DEF NameIsNew
      <3> QED BY <3>1, <3>2
    <2>5. CountsNow'
      BY <1>b, <1>1, <2>1 DEF CountsNow
    <2> QED BY <1>b, <1>c, <1>1, <2>1, <2>2, <2>3, <2>4, <2>5
  <1>2. ASSUME NEW k \in Creators, NEW n \in ThreadNames, T!BeginCreate(k, n) PROVE CountInv'
    <2>1. /\ creating[k].step = "idle" /\ UNCHANGED <<nextThreadId, threadCount, tasks>>
          /\ \A t \in DOMAIN tasks : tasks[t].name # n
          /\ \A j \in Creators : creating[j].name # n
      BY <1>2 DEF T!BeginCreate, T!Idle
    <2>2. /\ creating'[k].step = "create" /\ creating'[k].name = n
          /\ \A j \in Creators : j # k => creating'[j] = creating[j]
          /\ records' = records
      BY <1>0, <1>2, BeginLast
    <2>3. \A i \in T!Indices : records[i].name # n
      BY <1>0, <1>b, <2>1 DEF RecordsFill
    <2> QED BY <1>1, <2>1, <2>2, <2>3
  <1>3. ASSUME NEW k \in Creators, T!PlatformCreates(k) PROVE CountInv'
    <2>1. /\ UNCHANGED <<records, nextThreadId, threadCount>> /\ creating[k].step = "create"
      BY <1>3 DEF T!PlatformCreates
    <2>2. /\ creating'[k].step = "created" /\ creating'[k].task = Len(tasks) + 1
          /\ creating'[k].name = creating[k].name
          /\ \A j \in Creators : j # k => creating'[j] = creating[j]
          /\ DOMAIN tasks' = DOMAIN tasks \cup {Len(tasks) + 1}
          /\ \A t \in DOMAIN tasks : tasks'[t] = tasks[t]
          /\ tasks'[Len(tasks) + 1].name = creating[k].name
      BY <1>0, <1>3, CreatesEffect
    <2>3. /\ \A i \in T!Indices : records[i].name # creating[k].name
          /\ \A j \in Creators : j # k => creating[j].name # creating[k].name
      BY <1>b, <2>1 DEF NameIsNew
    <2> QED BY <1>1, <2>1, <2>2, <2>3
  <1>4. ASSUME NEW k \in Creators, T!PlatformRefuses(k) PROVE CountInv'
    <2>1. /\ UNCHANGED <<nextThreadId, tasks>> /\ creating[k].step = "create"
          /\ creating' = [creating EXCEPT ![k] = T!Idle]
      BY <1>4 DEF T!PlatformRefuses
    <2>2. /\ creating'[k].step = "idle" /\ creating'[k].name = NoName
          /\ \A j \in Creators : j # k => creating'[j] = creating[j]
      BY <1>0, <2>1, IdleEffect
    <2>3. T!WithName(creating[k].name) = {}
      BY <1>b, <2>1 DEF NameIsNew, T!WithName
    <2>4. threadsPort # "Linux"
      BY <1>0, CallsOfPorts DEF TableTypes, T!TypeOK
    <2>5. UNCHANGED <<records, threadCount>>
      BY <1>4, <2>3, <2>4 DEF T!PlatformRefuses, T!Terminate
    <2> QED BY <1>1, <2>1, <2>2, <2>5
  <1>5. ASSUME NEW k \in Creators, T!StoreCreated(k) PROVE CountInv'
    <2> DEFINE call == [creating[k] EXCEPT !.step = "stored"]
    <2>1. /\ UNCHANGED <<nextThreadId, threadCount, tasks>>
          /\ creating[k].step = "created" /\ T!StoreRecord(k, call, creating[k].task)
      BY <1>5 DEF T!StoreCreated
    <2>2. creating[k] \in CallType
      BY <1>0
    <2>3. call \in CallType
      BY <2>2 DEF CallType
    <2>4. /\ call.step = "stored" /\ call.name = creating[k].name /\ call.task = creating[k].task
          /\ creating[k].task \in Nat
      BY <2>2 DEF CallType
    <2> HIDE DEF call
    <2>5. /\ nextThreadId \in T!Indices
          /\ records'[nextThreadId] = [name |-> call.name, task |-> creating[k].task, status |-> "Active"]
          /\ \A i \in T!Indices : i # nextThreadId => records'[i] = records[i]
          /\ creating'[k].step = call.step /\ creating'[k].name = call.name /\ creating'[k].task = call.task
          /\ creating'[k].count = threadCount
          /\ \A j \in Creators : j # k => creating'[j] = creating[j]
          /\ T!SomeHasRead => raced' = {"id", "count"}
      BY <1>0, <2>1, <2>3, <2>4, StoreEffect
    <2>6. /\ records'[nextThreadId].name = creating[k].name /\ records'[nextThreadId].status = "Active"
          /\ creating'[k].step = "stored" /\ creating'[k].name = creating[k].name
          /\ creating'[k].task = creating[k].task
      BY <2>4, <2>5
    <2>7. ~T!SomeHasRead /\ ~InLast /\ InLast' /\ \A j \in Creators : ~T!HasRead(j)
      BY <1>00, <2>5, <2>6 DEF T!SomeHasRead
    <2>8. Used = nextThreadId /\ Used' = nextThreadId + 1
      BY <2>1, <2>7 DEF Used
    <2>9. /\ creating[k].task \in DOMAIN tasks /\ tasks[creating[k].task].name = creating[k].name
          /\ \A j \in Creators : j # k => creating[j].name # creating[k].name
      BY <1>b, <2>1 DEF NameIsNew
    <2>10. records[nextThreadId].status = "Unknown"
      BY <1>0, <1>b, <2>5, <2>8 DEF RecordsFill
    <2>11. RecordsFill'
      <3> SUFFICES ASSUME NEW i \in T!Indices
                   PROVE  \/ /\ i < nextThreadId + 1 /\ records'[i].status # "Unknown"
                             /\ \E t \in DOMAIN tasks : tasks[t].name = records'[i].name
                          \/ i >= nextThreadId + 1 /\ records'[i].name = NoName /\ records'[i].status = "Unknown"
        BY <2>1, <2>8 DEF RecordsFill
      <3>1. CASE i = nextThreadId
        BY <1>0, <2>6, <2>9, <3>1
      <3>2. CASE i # nextThreadId
        BY <1>0, <1>b, <2>5, <2>8, <3>2 DEF RecordsFill
      <3> QED BY <3>1, <3>2
    <2>12. NameIsNew'
      <3> SUFFICES ASSUME NEW j \in Creators
                   PROVE  /\ creating'[j].step \in {"create", "created"} =>
                               \A i \in T!Indices : records'[i].name # creating'[j].name
                          /\ creating'[j].step # "idle" =>
                               \A l \in Creators : creating'[l].name = creating'[j].name => l = j
                          /\ creating'[j].step \in {"created", "stored"} =>
                               creating'[j].task \in DOMAIN tasks /\ tasks[creating'[j].task].name = creating'[j].name
        BY <2>1 DEF NameIsNew
      <3>1. CASE j = k
        BY <2>5, <2>6, <2>9, <3>1
      <3>2. CASE j # k
        <4>1. creating'[j] = creating[j]
          BY <2>5, <3>2
        <4>2. creating[j].step # "idle" => \A l \in Creators : creating'[l].name = creating[j].name => l = j
          BY <1>b, <2>5, <2>6 DEF NameIsNew
        <4>3. creating[j].step \in {"create", "created"} =>
                \A i \in T!Indices : records'[i].name # creating[j].name
          <5>1. ASSUME creating[j].step \in {"create", "created"}, NEW i \in T!Indices
                PROVE  records'[i].name # creating[j].name
            <6>1. CASE i = nextThreadId
              BY <2>6, <2>9, <3>2, <6>1
            <6>2. CASE i # nextThreadId
              BY <1>b, <2>5, <5>1, <6>2 DEF NameIsNew
            <6> QED BY <6>1, <6>2
          <5> QED BY <5>1
        <4>4. creating[j].step \in {"created", "stored"} =>
                creating[j].task \in DOMAIN tasks /\ tasks[creating[j].task].name = creating[j].name
          BY <1>b DEF NameIsNew
        <4> QED BY <4>1, <4>2, <4>3, <4>4
      <3> QED BY <3>1, <3>2
    <2>13. CountsNow'
      BY <1>00, <2>1, <2>5, <2>7 DEF CountsNow
    <2>14. Active' = Active \cup {nextThreadId} /\ nextThreadId \notin Active
      BY <2>5, <2>6, <2>10 DEF Active
    <2>15. threadCount' + (IF InLast' THEN 1 ELSE 0) = Cardinality(Active)'
      BY <1>0, <1>b, <2>1, <2>7, <2>14, ActiveCounts
    <2> QED BY <1>c, <2>11, <2>12, <2>13, <2>15
  <1>6. ASSUME NEW k \in Creators, T!EndCreate(k) PROVE CountInv'
    <2>1. /\ UNCHANGED <<records, tasks>> /\ creating[k].step = "stored"
          /\ creating' = [creating EXCEPT ![k] = T!Idle]
          /\ \E i \in {creating[k].id, nextThreadId} : nextThreadId' = i + 1
          /\ \E c \in {creating[k].count, threadCount} : threadCount' = IF threadsPort = "Linux" THEN MaxThreads ELSE c + 1
      BY <1>0, <1>6 DEF T!EndCreate, T!LastStep
    <2>2. /\ creating'[k].step = "idle" /\ creating'[k].name = NoName
          /\ \A j \in Creators : j # k => creating'[j] = creating[j]
      BY <1>0, <2>1, IdleEffect
    <2>3. threadsPort # "Linux"
      BY <1>0, CallsOfPorts DEF TableTypes, T!TypeOK
    <2>4. T!HasRead(k) /\ \A j \in Creators : T!HasRead(j) => j = k
      BY <1>00, <1>a, <2>1 DEF OneReads
    <2>5. InLast /\ ~InLast' /\ \A j \in Creators : ~T!HasRead(j)'
      BY <1>00, <2>1, <2>2, <2>4
    <2>6. nextThreadId' = nextThreadId + 1
      BY <1>a, <2>1, <2>4 DEF ReadsNow
    <2>7. threadCount' = threadCount + 1
      BY <1>b, <2>1, <2>3, <2>4 DEF CountsNow
    <2>8. Used' = Used /\ Active' = Active
      BY <2>1, <2>5, <2>6 DEF Used, Active
    <2>9. RecordsFill'
      BY <1>b, <2>1, <2>8 DEF RecordsFill
    <2>10. NameIsNew'
      <3>1. \A j \in Creators : creating'[j].step # "idle" =>
              /\ j # k /\ creating'[j] = creating[j] /\ creating[j].name # NoName
              /\ \A l \in Creators : creating'[l].name = creating'[j].name => l = j
        BY <1>0, <1>b, <2>2 DEF NameIsNew
      <3> QED BY <1>b, <2>1, <3>1 DEF NameIsNew
    <2>11. CountsNow'
      BY <2>5 DEF CountsNow
    <2>12. threadCount' + (IF InLast' THEN 1 ELSE 0) = Cardinality(Active)'
      BY <1>0, <1>b, <2>5, <2>7, <2>8
    <2> QED BY <1>c, <2>9, <2>10, <2>11, <2>12
  <1>7. ASSUME NEW n \in ThreadNames, T!DeleteThread(n) PROVE CountInv'
    <2> DEFINE q == T!First(n)
    <2>1. /\ T!WithName(n) # {} /\ records[q].status # "Terminated"
          /\ UNCHANGED <<nextThreadId, creating, tasks>> /\ T!Terminate(n)
      BY <1>7 DEF T!DeleteThread
    <2>2. q \in T!Indices /\ records[q].name = n
      BY <2>1, FirstHasName
    <2>3. /\ records' = [records EXCEPT ![q].status = "Terminated"] /\ threadCount' = threadCount - 1
          /\ raced' = IF T!SomeHasRead THEN raced \cup {"count"} ELSE raced
      BY <2>1 DEF T!Terminate
    <2> HIDE DEF q
    <2>4. ~T!SomeHasRead
      BY <2>3
    <2>5. ~InLast /\ ~InLast' /\ (\A j \in Creators : ~T!HasRead(j)') /\ Used' = Used
      BY <1>0, <1>00, <2>1, <2>4, CallsStay DEF T!SomeHasRead
    <2>6. \A i \in T!Indices : /\ records'[i].task = records[i].task /\ records'[i].name = records[i].name
                               /\ records'[i].status = IF i = q THEN "Terminated" ELSE records[i].status
      BY <1>0, <2>3, MarkEffect
    <2>7. records[q].status = "Active"
      <3>1. records[q].status # "Unknown"
        BY <1>0, <1>b, <2>2 DEF RecordsFill
      <3>2. records[q].status \in {"Unknown", "Active", "Terminated"}
        BY <1>0, <2>2 DEF RecordType
      <3> QED BY <2>1, <3>1, <3>2 DEF q
    <2>8. Active' = Active \ {q} /\ q \in Active
      BY <2>2, <2>6, <2>7 DEF Active
    <2>9. RecordsFill'
      <3> SUFFICES ASSUME NEW i \in T!Indices
                   PROVE  \/ i < Used /\ records'[i].status # "Unknown" /\ \E t \in DOMAIN tasks : tasks[t].name = records'[i].name
                          \/ i >= Used /\ records'[i].name = NoName /\ records'[i].status = "Unknown"
        BY <2>1, <2>5 DEF RecordsFill
      <3> QED BY <1>0, <1>b, <2>2, <2>6 DEF RecordsFill
    <2>10. NameIsNew'
      BY <1>b, <2>1, <2>6 DEF NameIsNew
    <2>11. CountsNow'
      BY <2>5 DEF CountsNow
    <2>12. threadCount' + (IF InLast' THEN 1 ELSE 0) = Cardinality(Active)'
      <3>1. threadCount = Cardinality(Active)
        BY <1>0, <1>00, <1>b, <2>4
      <3>2. Cardinality(Active)' = Cardinality(Active) - 1
        BY <2>8, ActiveCounts
      <3> QED BY <1>0, <2>3, <2>5, <3>1, <3>2
    <2> QED BY <1>c, <2>9, <2>10, <2>11, <2>12
  <1>8. ASSUME UNCHANGED <<records, nextThreadId, threadCount, creating>>, DOMAIN tasks' = DOMAIN tasks,
               \A t \in DOMAIN tasks : tasks'[t].name = tasks[t].name
        PROVE  CountInv'
    <2>1. Used' = Used /\ (InLast' <=> InLast) /\ Active' = Active /\ \A k \in Creators : T!HasRead(k)' <=> T!HasRead(k)
      BY <1>0, <1>8, CallsStay DEF Active
    <2>2. RecordsFill'
      BY <1>b, <1>8, <2>1 DEF RecordsFill
    <2>3. NameIsNew' /\ CountsNow'
      BY <1>b, <1>8, <2>1 DEF NameIsNew, CountsNow
    <2> QED BY <1>b, <1>c, <1>8, <2>1, <2>2, <2>3
  <1>9. ASSUME NEW t \in DOMAIN tasks, T!StartTask(t) PROVE CountInv'
    <2>1. UNCHANGED <<records, nextThreadId, threadCount, creating>> /\ tasks' = [tasks EXCEPT ![t].state = "running"]
      BY <1>0, <1>9 DEF T!StartTask
    <2>2. DOMAIN tasks' = DOMAIN tasks /\ \A u \in DOMAIN tasks : tasks'[u].name = tasks[u].name
      BY <1>0, <2>1, TaskUpdates
    <2> QED BY <1>8, <2>1, <2>2
  <1>10. ASSUME NEW t \in DOMAIN tasks, T!EndTask(t) PROVE CountInv'
    <2>1. UNCHANGED <<records, nextThreadId, threadCount, creating>> /\ tasks' = [tasks EXCEPT ![t].state = "ended"]
      BY <1>0, <1>10 DEF T!EndTask
    <2>2. DOMAIN tasks' = DOMAIN tasks /\ \A u \in DOMAIN tasks : tasks'[u].name = tasks[u].name
      BY <1>0, <2>1, TaskUpdates
    <2> QED BY <1>8, <2>1, <2>2
  <1>11. ASSUME NEW n \in ThreadNames, T!BeginJoin(n) PROVE CountInv'
    BY <1>8, <1>11 DEF T!BeginJoin
  <1>12. CASE T!EndJoin
    BY <1>8, <1>12 DEF T!EndJoin
  <1>13. CASE UNCHANGED threadsVars
    BY <1>8, <1>13 DEF threadsVars
  <1> QED
    BY <1>2, <1>3, <1>4, <1>5, <1>6, <1>7, <1>9, <1>10, <1>11, <1>12, <1>13, StepsOfTable DEF T!ThreadSteps

LEMMA TableStays ==
  ASSUME T!ThreadTableAssumption, TableInv, [T!Next]_threadsVars
  PROVE  TableInv'
  BY TableKeepsTypes, IdsStay, CountStays DEF TableInv

ThreadsPart == part = "threads" => TableInv

LEMMA TableAlways == PartSpec => []ThreadsPart
  <1>0. T!ThreadTableAssumption
    BY Parameters
  <1>1. PartInit => ThreadsPart
    BY <1>0, TableStarts DEF PartInit, ThreadsPart
  <1>2. ThreadsPart /\ [PartNext]_allVars => ThreadsPart'
    BY <1>0, PartSteps, TableStays DEF ThreadsPart
  <1> QED BY <1>1, <1>2, PTL DEF PartSpec

\* While every name is used for one thread, which is deleted at most once, and no
\* two creations are between their read and their write of the next id at once, a
\* thread that runs is in the table, from its first step where the record is stored
\* first and once its creation stored it elsewhere; and the count is that of the
\* threads that are active, for every number of creating threads and every size of
\* the table, with creations that overlap, that the platform refuses, and tasks that
\* run before they are recorded (OperatingSystemModule.cpp, createThread,
\* deleteThread and currentThreadId).
THEOREM ThreadsStayTracked == ASSUME Careful PROVE PartSpec => []ThreadsAreTracked
  <1>1. ThreadsPart => ThreadsAreTracked
    BY TableShows, Parameters DEF ThreadsPart, ThreadsAreTracked
  <1> QED BY <1>1, TableAlways, PTL

-----------------------------------------------------------------------------
(* The timers, for every number of handles and timers.                     *)

LEMMA LeastOfTimers ==
  ASSUME NEW W \in SUBSET Nat, W # {}
  PROVE  M!Min(W) \in W /\ \A w \in W : M!Min(W) <= w
  BY MinIsLeast DEF T!Min, M!Min

\* The types, that the first id is given to a timer that was created, and that a
\* callback runs for a handle of the platform.
MapTyped ==
  /\ M!TypeOK
  /\ M!InUse # {} \/ calling # M!Nothing => nextId > 0
  /\ calling # M!Nothing => calling.handle \in M!Handles

\* Linux and Darwin: a timer whose callback runs keeps its entry; Darwin: a timer is
\* suspended exactly while it is not resumed.
DarwinEntries ==
  /\ timersPort \in {"Linux", "Darwin"} /\ calling # M!Nothing => calling.handle \in M!InUse
  /\ timersPort = "Darwin" => \A h \in M!InUse : timers[h].isSuspended = ~timers[h].isResumed

\* An expiry that waits and whose handle is in use is that of the entry, or was
\* overtaken by a timer that got the handle, until the context of the timers is lost.
ExpiriesAreOwn ==
  \/ "timer" \in stuck
  \/ \A e \in expired :
       e.handle \in M!InUse => timers[e.handle].id = e.id \/ e.id \in overtaken

\* The timer that was deleted while its callback runs was the first of the map, and
\* those created since have other ids than the empty entry that is going to be made.
GoneWasFirst ==
  timersPort \notin {"Linux", "Darwin"} /\ calling # M!Nothing /\ calling.handle \notin M!InUse
    => \A h \in M!InUse : h < calling.handle => timers[h].id # 0

TimersInv ==
  MapTyped /\ DarwinEntries /\ ExpiriesAreOwn /\ GoneWasFirst
    /\ M!FiredTimerIsOwn /\ M!SuspensionIsBalanced

LEMMA TimersStart == ASSUME M!SoftwareTimersAssumption PROVE M!Init => TimersInv
  <1> SUFFICES ASSUME M!Init PROVE TimersInv
    OBVIOUS
  <1>1. M!InUse = {}
    BY DEF M!Init, M!InUse
  <1>2. calling = M!Nothing /\ expired = {} /\ nextId = 0 /\ suspended = [h \in M!Handles |-> 0]
        /\ fired = [expired |-> 0, called |-> 0] /\ overtaken = {} /\ stuck = {} /\ armed = {} /\ timersPort \in Ports
    BY DEF M!Init
  <1>3. 0 \in M!Ids
    BY DEF M!Ids, M!SoftwareTimersAssumption
  <1>4. M!TypeOK
    BY <1>1, <1>2, <1>3 DEF M!TypeOK, M!Nothing, M!SoftwareTimersAssumption
  <1> QED BY <1>1, <1>2, <1>4 DEF TimersInv, MapTyped, DarwinEntries, ExpiriesAreOwn, GoneWasFirst,
             M!FiredTimerIsOwn, M!SuspensionIsBalanced

\* What an entry more, or one less, leaves of the others.
LEMMA WithEntry ==
  ASSUME NEW m, NEW h, NEW entry
  PROVE  /\ DOMAIN M!With(m, h, entry) = DOMAIN m \cup {h}
         /\ \A k \in DOMAIN m : M!With(m, h, entry)[k] = m[k]
         /\ h \notin DOMAIN m => M!With(m, h, entry)[h] = entry
  BY DEF M!With

LEMMA WithoutEntry ==
  ASSUME NEW m, NEW h
  PROVE  /\ DOMAIN M!Without(m, h) = DOMAIN m \ {h}
         /\ \A k \in DOMAIN m \ {h} : M!Without(m, h)[k] = m[k]
  BY DEF M!Without

\* What deleteTimer does to a map m that the suspensions go with: it is stuck, finds
\* nothing, or takes out one entry with the id, the first one where the loop stalls.
LEMMA DeleteTakesOne ==
  ASSUME NEW m, NEW id, NEW c, M!DeleteFrom(m, id, c), DOMAIN m \subseteq M!Handles,
         M!SoftwareTimersAssumption
  PROVE  \/ timers' = m /\ UNCHANGED <<armed, suspended>> /\ stuck' = stuck \cup {c}
            /\ M!DeleteStalls /\ DOMAIN m # {} /\ ~M!AtFirst(m, id)
         \/ timers' = m /\ UNCHANGED <<armed, suspended, stuck>> /\ (\A h \in DOMAIN m : m[h].id # id)
         \/ \E gone \in DOMAIN m :
              /\ timers' = M!Without(m, gone) /\ m[gone].id = id
              /\ armed' = armed \ {gone}
              /\ suspended' = [suspended EXCEPT ![gone] = IF m[gone].isSuspended THEN @ - 1 ELSE @]
              /\ stuck' = stuck
              /\ M!DeleteStalls => \A h \in DOMAIN m : gone <= h
  <1> DEFINE found == {h \in DOMAIN m : m[h].id = id}
  <1>1. CASE DOMAIN m # {} /\ M!DeleteStalls /\ ~M!AtFirst(m, id)
    BY <1>1 DEF M!DeleteFrom
  <1>2. CASE ~(DOMAIN m # {} /\ M!DeleteStalls /\ ~M!AtFirst(m, id)) /\ found = {}
    BY <1>2 DEF M!DeleteFrom
  <1>3. CASE ~(DOMAIN m # {} /\ M!DeleteStalls /\ ~M!AtFirst(m, id)) /\ found # {}
    <2> DEFINE gone == IF M!DeleteStalls THEN M!Min(DOMAIN m) ELSE M!Min(found)
    <2>1. DOMAIN m \in SUBSET Nat /\ found \in SUBSET Nat /\ DOMAIN m # {}
      BY <1>3 DEF M!Handles, M!SoftwareTimersAssumption
    <2>2. gone \in DOMAIN m /\ m[gone].id = id /\ (M!DeleteStalls => \A h \in DOMAIN m : gone <= h)
      <3>1. CASE M!DeleteStalls
        <4>1. M!Min(DOMAIN m) \in DOMAIN m /\ \A h \in DOMAIN m : M!Min(DOMAIN m) <= h
          BY <2>1, LeastOfTimers
        <4> QED BY <1>3, <2>1, <3>1, <4>1 DEF M!AtFirst
      <3>2. CASE ~M!DeleteStalls
        <4>1. M!Min(found) \in found
          BY <1>3, <2>1, LeastOfTimers
        <4> QED BY <3>2, <4>1
      <3> QED BY <3>1, <3>2
    <2>3. /\ timers' = M!Without(m, gone)
          /\ armed' = armed \ {gone}
          /\ suspended' = [suspended EXCEPT ![gone] = IF m[gone].isSuspended THEN @ - 1 ELSE @]
          /\ stuck' = stuck
      BY <1>3 DEF M!DeleteFrom
    <2> HIDE DEF gone, found
    <2> QED BY <2>2, <2>3
  <1> QED BY <1>1, <1>2, <1>3

\* A map that is the timers but for an empty entry more keeps the suspensions.
Goes(m) ==
  /\ DOMAIN m \subseteq M!Handles
  /\ \A k \in DOMAIN m : m[k] \in M!Entry
  /\ \A k \in M!Handles : suspended[k] = IF k \in DOMAIN m /\ m[k].isSuspended THEN 1 ELSE 0
  /\ suspended \in [M!Handles -> Int]
  /\ timersPort = "Darwin" => \A k \in DOMAIN m : m[k].isSuspended = ~m[k].isResumed

\* After deleteTimer on such a map the entries that are left are those of the map.
LEMMA DeleteKeeps ==
  ASSUME M!SoftwareTimersAssumption, NEW m, NEW id, NEW c, Goes(m), M!DeleteFrom(m, id, c),
         timersPort' = timersPort
  PROVE  /\ Goes(timers)'
         /\ M!InUse' \subseteq DOMAIN m
         /\ \A k \in M!InUse' : timers'[k] = m[k]
         /\ \A k \in DOMAIN m \ M!InUse' :
              m[k].id = id /\ (timersPort # "Darwin" => \A j \in DOMAIN m : k <= j)
         /\ stuck' = stuck \/ stuck' = stuck \cup {c}
  <1> DEFINE Result ==
         /\ Goes(timers)'
         /\ M!InUse' \subseteq DOMAIN m
         /\ \A k \in M!InUse' : timers'[k] = m[k]
         /\ \A k \in DOMAIN m \ M!InUse' :
              m[k].id = id /\ (timersPort # "Darwin" => \A j \in DOMAIN m : k <= j)
         /\ stuck' = stuck \/ stuck' = stuck \cup {c}
  <1>1. ASSUME timers' = m, UNCHANGED suspended, stuck' = stuck \/ stuck' = stuck \cup {c}
        PROVE  Result
    <2>1. Goes(timers)'
      BY <1>1 DEF Goes
    <2> QED BY <1>1, <2>1 DEF M!InUse
  <1>2. ASSUME NEW gone \in DOMAIN m, timers' = M!Without(m, gone), m[gone].id = id,
               suspended' = [suspended EXCEPT ![gone] = IF m[gone].isSuspended THEN @ - 1 ELSE @],
               stuck' = stuck, M!DeleteStalls => \A h \in DOMAIN m : gone <= h
        PROVE  Result
    <2>1. DOMAIN timers' = DOMAIN m \ {gone} /\ \A k \in DOMAIN m \ {gone} : timers'[k] = m[k]
      BY <1>2, WithoutEntry
    <2>2. gone \in M!Handles /\ suspended[gone] \in Int
      BY DEF Goes
    <2>3. /\ suspended' \in [M!Handles -> Int] /\ suspended'[gone] = 0
          /\ \A k \in M!Handles : k # gone => suspended'[k] = suspended[k]
      <3>1. suspended' = [suspended EXCEPT ![gone] = 0]
        <4>1. (IF m[gone].isSuspended THEN suspended[gone] - 1 ELSE suspended[gone]) = 0
          BY <2>2 DEF Goes
        <4> QED BY <1>2, <4>1
      <3> QED BY <2>2, <3>1 DEF Goes
    <2>4. Goes(timers)'
      BY <2>1, <2>2, <2>3 DEF Goes
    <2>5. DOMAIN m \ M!InUse' = {gone}
      BY <2>1 DEF M!InUse
    <2> QED BY <1>2, <2>1, <2>4, <2>5 DEF M!InUse, M!DeleteStalls
  <1> HIDE DEF Result
  <1>3. DOMAIN m \subseteq M!Handles
    BY DEF Goes
  <1>4. Result
    BY <1>1, <1>2, <1>3, DeleteTakesOne
  <1> QED BY <1>4 DEF Result

LEMMA MapGoes == ASSUME TimersInv PROVE Goes(timers)
  BY DEF TimersInv, MapTyped, M!TypeOK, DarwinEntries, M!SuspensionIsBalanced, Goes, M!InUse

\* The invariant says nothing of the armed timers, and of the map what Goes says.
LEMMA UserDeletes ==
  ASSUME M!SoftwareTimersAssumption, TimersInv, NEW id, M!DeleteFrom(timers, id, "user"),
         nextId' \in 0 .. MaxIds, nextId' >= nextId, UNCHANGED <<timersPort, expired, calling, fired, overtaken>>,
         timersPort \in {"Linux", "Darwin"} => calling.handle \notin M!HandleOf(id)
  PROVE  TimersInv'
  <1>0. Goes(timers)
    BY MapGoes
  <1>1. /\ Goes(timers)'
        /\ M!InUse' \subseteq M!InUse
        /\ \A k \in M!InUse' : timers'[k] = timers[k]
        /\ \A k \in M!InUse \ M!InUse' :
             timers[k].id = id /\ (timersPort # "Darwin" => \A j \in M!InUse : k <= j)
        /\ stuck' = stuck \/ stuck' = stuck \cup {"user"}
    BY <1>0, DeleteKeeps DEF M!InUse
  <1>2. MapTyped'
    <2>1. armed' \subseteq M!Handles
      BY <1>0, DeleteTakesOne DEF Goes, TimersInv, MapTyped, M!TypeOK
    <2>2. M!TypeOK'
      BY <1>1, <2>1 DEF TimersInv, MapTyped, M!TypeOK, Goes, M!InUse
    <2>3. M!InUse' # {} \/ calling' # M!Nothing => nextId' > 0
      <3>1. nextId \in Int /\ nextId' \in Int /\ (M!InUse # {} \/ calling # M!Nothing => nextId > 0)
        BY DEF TimersInv, MapTyped, M!TypeOK
      <3> QED BY <1>1, <3>1
    <2> QED BY <2>2, <2>3 DEF TimersInv, MapTyped
  <1>3. DarwinEntries'
    <2>1. timersPort \in {"Linux", "Darwin"} /\ calling # M!Nothing => calling.handle \in M!InUse'
      BY <1>1 DEF TimersInv, DarwinEntries, M!HandleOf
    <2> QED BY <1>1, <2>1 DEF DarwinEntries, Goes, M!InUse
  <1>4. ExpiriesAreOwn'
    BY <1>1 DEF TimersInv, ExpiriesAreOwn
  <1>5. GoneWasFirst'
    <2> SUFFICES ASSUME timersPort \notin {"Linux", "Darwin"}, calling # M!Nothing,
                        calling.handle \notin M!InUse', NEW h \in M!InUse', h < calling.handle
                 PROVE  timers'[h].id # 0
      BY DEF GoneWasFirst
    <2>1. h \in M!InUse /\ timers'[h] = timers[h]
      BY <1>1
    <2>2. CASE calling.handle \in M!InUse
      <3>1. calling.handle <= h
        BY <1>1, <2>1, <2>2
      <3>2. h \in Nat /\ calling.handle \in Nat
        BY <2>1, <2>2 DEF TimersInv, MapTyped, M!TypeOK, M!Handles, M!SoftwareTimersAssumption
      <3> QED BY <3>1, <3>2
    <2>3. CASE calling.handle \notin M!InUse
      BY <2>1, <2>3 DEF TimersInv, GoneWasFirst
    <2> QED BY <2>2, <2>3
  <1>6. M!FiredTimerIsOwn'
    BY DEF TimersInv, M!FiredTimerIsOwn
  <1>7. M!SuspensionIsBalanced'
    BY <1>1 DEF Goes, M!SuspensionIsBalanced, M!InUse
  <1> QED BY <1>2, <1>3, <1>4, <1>5, <1>6, <1>7 DEF TimersInv

LEMMA UserCreates ==
  ASSUME M!SoftwareTimersAssumption, TimersInv, NEW h \in M!Handles, NEW reload \in BOOLEAN,
         M!CreateTimer(h, reload)
  PROVE  TimersInv'
  <1> DEFINE made == [id |-> nextId, autoReload |-> reload, isSuspended |-> FALSE, isResumed |-> TRUE]
  <1>1. /\ h \notin M!InUse
        /\ timers' = M!With(timers, h, made)
        /\ nextId' = nextId + 1
        /\ UNCHANGED <<timersPort, suspended, expired, calling, fired, stuck>>
        /\ overtaken' = overtaken \cup {e.id : e \in {x \in expired : x.handle = h}}
    BY DEF M!CreateTimer
  <1>2. /\ M!InUse' = M!InUse \cup {h}
        /\ \A k \in M!InUse : timers'[k] = timers[k]
        /\ timers'[h] = made
    <2>1. /\ DOMAIN M!With(timers, h, made) = DOMAIN timers \cup {h}
          /\ \A k \in DOMAIN timers : M!With(timers, h, made)[k] = timers[k]
          /\ h \notin DOMAIN timers => M!With(timers, h, made)[h] = made
      BY WithEntry
    <2> HIDE DEF made
    <2> QED BY <1>1, <2>1 DEF M!InUse
  <1>00. nextId \in M!Ids /\ nextId + 1 \in 0 .. MaxIds /\ nextId + 1 > 0
    BY DEF M!CreateTimer, TimersInv, MapTyped, M!TypeOK, M!Ids, M!SoftwareTimersAssumption
  <1>0. made \in M!Entry /\ armed' = armed
    BY <1>00 DEF M!Entry, M!CreateTimer
  <1>3. made.id = nextId /\ made.isSuspended = FALSE /\ made.isResumed = TRUE
    OBVIOUS
  <1> HIDE DEF made
  <1>4. MapTyped'
    <2>0. overtaken' \subseteq M!Ids
      BY <1>1 DEF TimersInv, MapTyped, M!TypeOK
    <2>1. M!TypeOK'
      BY <1>0, <1>00, <1>1, <1>2, <2>0 DEF TimersInv, MapTyped, M!TypeOK
    <2> QED BY <1>00, <1>1, <2>1 DEF TimersInv, MapTyped
  <1>5. DarwinEntries'
    BY <1>1, <1>2, <1>3 DEF TimersInv, DarwinEntries
  <1>6. ExpiriesAreOwn'
    <2> SUFFICES ASSUME "timer" \notin stuck, NEW e \in expired, e.handle \in M!InUse'
                 PROVE  timers'[e.handle].id = e.id \/ e.id \in overtaken'
      BY <1>1 DEF ExpiriesAreOwn
    <2>1. CASE e.handle = h
      BY <1>1, <2>1
    <2>2. CASE e.handle # h
      BY <1>1, <1>2, <2>2 DEF TimersInv, ExpiriesAreOwn
    <2> QED BY <2>1, <2>2
  <1>7. GoneWasFirst'
    <2>1. calling # M!Nothing => nextId # 0
      BY DEF TimersInv, MapTyped, M!TypeOK
    <2> QED BY <1>1, <1>2, <1>3, <2>1 DEF TimersInv, GoneWasFirst
  <1>8. M!FiredTimerIsOwn'
    BY <1>1 DEF TimersInv, M!FiredTimerIsOwn
  <1>9. M!SuspensionIsBalanced'
    BY <1>1, <1>2, <1>3 DEF TimersInv, M!SuspensionIsBalanced
  <1> QED BY <1>4, <1>5, <1>6, <1>7, <1>8, <1>9 DEF TimersInv

\* startTimer and stopTimer change the entry of one timer on Darwin, and what the
\* invariant sees nowhere else.
LEMMA UserSuspends ==
  ASSUME M!SoftwareTimersAssumption, TimersInv, NEW h \in M!InUse, NEW now \in BOOLEAN,
         NEW going \in BOOLEAN, going = ~now,
         timers' = [timers EXCEPT ![h].isResumed = going, ![h].isSuspended = now],
         suspended' = [suspended EXCEPT ![h] = IF now THEN 1 ELSE 0],
         armed' \subseteq M!Handles,
         UNCHANGED <<timersPort, nextId, expired, calling, fired, overtaken, stuck>>
  PROVE  TimersInv'
  <1>1. /\ M!InUse' = M!InUse
        /\ \A k \in M!InUse : k # h => timers'[k] = timers[k]
    BY DEF M!InUse
  <1>0. timers[h] \in M!Entry
    BY DEF TimersInv, MapTyped, M!TypeOK
  <1>2. /\ timers'[h].isSuspended = now /\ timers'[h].isResumed = going
        /\ timers'[h].id = timers[h].id /\ timers'[h] \in M!Entry
    <2> DEFINE q == timers'[h]
               r == timers[h]
    <2>1. q = [r EXCEPT !.isResumed = going, !.isSuspended = now]
      BY DEF M!InUse
    <2>2. r \in M!Entry
      BY <1>0
    <2> HIDE DEF q, r
    <2>3. q \in M!Entry /\ q.isResumed = going /\ q.isSuspended = now /\ q.id = r.id
      <3>1. q = [id |-> r.id, autoReload |-> r.autoReload, isSuspended |-> now, isResumed |-> going]
        BY <2>1, <2>2 DEF M!Entry
      <3>2. r.id \in M!Ids /\ r.autoReload \in BOOLEAN
        BY <2>2 DEF M!Entry
      <3> QED BY <3>1, <3>2 DEF M!Entry
    <2> QED BY <2>3 DEF q, r
  <1>3. h \in M!Handles
    BY DEF TimersInv, MapTyped, M!TypeOK
  <1>4. /\ suspended' \in [M!Handles -> Int] /\ suspended'[h] = IF now THEN 1 ELSE 0
        /\ \A k \in M!Handles : k # h => suspended'[k] = suspended[k]
    BY <1>3 DEF TimersInv, MapTyped, M!TypeOK
  <1>5. MapTyped'
    <2>1. M!TypeOK'
      BY <1>1, <1>2, <1>4 DEF TimersInv, MapTyped, M!TypeOK
    <2> QED BY <1>1, <2>1 DEF TimersInv, MapTyped
  <1>6. DarwinEntries'
    BY <1>1, <1>2 DEF TimersInv, DarwinEntries
  <1>7. ExpiriesAreOwn'
    BY <1>1, <1>2 DEF TimersInv, ExpiriesAreOwn
  <1>8. GoneWasFirst'
    BY <1>1, <1>2 DEF TimersInv, GoneWasFirst
  <1>9. M!FiredTimerIsOwn'
    BY DEF TimersInv, M!FiredTimerIsOwn
  <1>10. M!SuspensionIsBalanced'
    BY <1>1, <1>2, <1>3, <1>4 DEF TimersInv, M!SuspensionIsBalanced
  <1> QED BY <1>5, <1>6, <1>7, <1>8, <1>9, <1>10 DEF TimersInv

LEMMA ContextBegins ==
  ASSUME M!SoftwareTimersAssumption, TimersInv, NEW e \in expired, M!BeginCallback(e)
  PROVE  TimersInv'
  <1>0. /\ calling = M!Nothing /\ "timer" \notin stuck
        /\ expired' = expired \ {e}
        /\ UNCHANGED <<timersPort, timers, nextId, armed, suspended, overtaken, stuck>>
        /\ M!InUse' = M!InUse
    BY DEF M!BeginCallback, M!InUse
  <1>1. e \in [handle : M!Handles, id : M!Ids]
    BY DEF TimersInv, MapTyped, M!TypeOK
  <1>2. ExpiriesAreOwn' /\ M!SuspensionIsBalanced'
    BY <1>0 DEF TimersInv, ExpiriesAreOwn, M!SuspensionIsBalanced
  <1>3. CASE e.handle \in M!InUse
    <2>1. calling' = e /\ fired' = [expired |-> e.id, called |-> timers[e.handle].id]
      BY <1>3 DEF M!BeginCallback
    <2>2. timers[e.handle].id \in M!Ids /\ timers[e.handle].id \in 0 .. MaxIds
      BY <1>3 DEF TimersInv, MapTyped, M!TypeOK, M!Entry, M!Ids, M!SoftwareTimersAssumption
    <2>3. calling' \in [handle : 0 .. MaxHandles, id : M!Ids] /\ e.handle \in M!Handles
      BY <1>1, <2>1 DEF M!Handles, M!SoftwareTimersAssumption
    <2>4. fired' \in [expired : M!Ids, called : 0 .. MaxIds]
      BY <1>1, <2>1, <2>2
    <2>5. M!TypeOK'
      BY <1>0, <2>3, <2>4 DEF TimersInv, MapTyped, M!TypeOK
    <2>6. MapTyped'
      BY <1>0, <1>3, <2>1, <2>3, <2>5 DEF TimersInv, MapTyped
    <2>7. DarwinEntries' /\ GoneWasFirst'
      BY <1>0, <1>3, <2>1 DEF TimersInv, DarwinEntries, GoneWasFirst
    <2>8. M!FiredTimerIsOwn'
      BY <1>0, <1>3, <2>1 DEF TimersInv, ExpiriesAreOwn, M!FiredTimerIsOwn
    <2> QED BY <1>2, <2>6, <2>7, <2>8 DEF TimersInv
  <1>4. CASE e.handle \notin M!InUse
    <2>1. UNCHANGED <<calling, fired>>
      BY <1>4 DEF M!BeginCallback
    <2>2. MapTyped'
      BY <1>0, <2>1 DEF TimersInv, MapTyped, M!TypeOK
    <2>3. DarwinEntries' /\ GoneWasFirst' /\ M!FiredTimerIsOwn'
      BY <1>0, <2>1 DEF TimersInv, DarwinEntries, GoneWasFirst, M!FiredTimerIsOwn
    <2> QED BY <1>2, <2>2, <2>3 DEF TimersInv
  <1> QED BY <1>3, <1>4

LEMMA ContextEnds ==
  ASSUME M!SoftwareTimersAssumption, TimersInv, M!EndCallback
  PROVE  TimersInv'
  <1> DEFINE h == calling.handle
             m == M!With(timers, h, M!Empty)
  <1>1. /\ calling # M!Nothing /\ calling' = M!Nothing
        /\ \/ m[h].autoReload /\ UNCHANGED <<timers, armed, suspended, stuck>>
           \/ ~m[h].autoReload /\ M!DeleteFrom(m, m[h].id, "timer")
        /\ UNCHANGED <<timersPort, nextId, expired, fired, overtaken>>
    BY DEF M!EndCallback
  <1>2. /\ DOMAIN m = M!InUse \cup {h}
        /\ \A k \in M!InUse : m[k] = timers[k]
        /\ h \notin M!InUse => m[h] = M!Empty
    BY WithEntry DEF M!InUse
  <1>3. h \in M!Handles /\ nextId > 0
    BY <1>1 DEF TimersInv, MapTyped
  <1>4. M!Empty \in M!Entry /\ M!Empty.id = 0 /\ M!Empty.autoReload = FALSE /\ M!Empty.isSuspended = FALSE
    BY DEF M!Empty, M!Entry, M!Ids, M!SoftwareTimersAssumption
  <1>5. timersPort \in {"Linux", "Darwin"} => h \in M!InUse
    BY <1>1 DEF TimersInv, DarwinEntries
  <1> HIDE DEF m
  <1>6. Goes(m)
    <2>1. Goes(timers)
      BY MapGoes
    <2>2. DOMAIN m \subseteq M!Handles /\ \A k \in DOMAIN m : m[k] \in M!Entry
      BY <1>2, <1>3, <1>4, <2>1 DEF Goes, M!InUse
    <2>3. timersPort = "Darwin" => \A k \in DOMAIN m : m[k].isSuspended = ~m[k].isResumed
      BY <1>2, <1>5, <2>1 DEF Goes, M!InUse
    <2>4. ASSUME NEW k \in M!Handles
          PROVE  suspended[k] = IF k \in DOMAIN m /\ m[k].isSuspended THEN 1 ELSE 0
      <3>1. CASE k \in M!InUse
        BY <1>2, <2>1, <3>1 DEF Goes, M!InUse
      <3>2. CASE k \notin M!InUse
        BY <1>2, <1>4, <2>1, <3>2 DEF Goes, M!InUse
      <3> QED BY <3>1, <3>2
    <2> QED BY <2>1, <2>2, <2>3, <2>4 DEF Goes
  <1>7. CASE m[h].autoReload /\ UNCHANGED <<timers, armed, suspended, stuck>>
    <2>1. h \in M!InUse
      BY <1>2, <1>4, <1>7
    <2>2. MapTyped'
      BY <1>1, <1>7 DEF TimersInv, MapTyped, M!TypeOK, M!Nothing, M!InUse, M!SoftwareTimersAssumption, M!Ids
    <2>3. DarwinEntries' /\ GoneWasFirst' /\ M!FiredTimerIsOwn' /\ ExpiriesAreOwn'
          /\ M!SuspensionIsBalanced'
      BY <1>1, <1>7 DEF TimersInv, DarwinEntries, GoneWasFirst, M!FiredTimerIsOwn, ExpiriesAreOwn,
         M!SuspensionIsBalanced, M!InUse
    <2> QED BY <2>2, <2>3 DEF TimersInv
  <1>8. CASE ~m[h].autoReload /\ M!DeleteFrom(m, m[h].id, "timer")
    <2>1. /\ Goes(timers)'
          /\ M!InUse' \subseteq DOMAIN m
          /\ \A k \in M!InUse' : timers'[k] = m[k]
          /\ \A k \in DOMAIN m \ M!InUse' :
               m[k].id = m[h].id /\ (timersPort # "Darwin" => \A j \in DOMAIN m : k <= j)
          /\ stuck' = stuck \/ stuck' = stuck \cup {"timer"}
      BY <1>1, <1>6, <1>8, DeleteKeeps
    <2>2. armed' \subseteq M!Handles
      BY <1>6, <1>8, DeleteTakesOne DEF Goes, TimersInv, MapTyped, M!TypeOK
    <2>3. calling' \in [handle : 0 .. MaxHandles, id : M!Ids]
      BY <1>1 DEF M!Nothing, M!SoftwareTimersAssumption, M!Ids
    <2>4. M!TypeOK'
      BY <1>1, <2>1, <2>2, <2>3 DEF TimersInv, MapTyped, M!TypeOK, Goes, M!InUse
    <2>5. MapTyped'
      BY <1>1, <1>3, <2>4 DEF TimersInv, MapTyped
    <2>6. DarwinEntries'
      BY <1>1, <2>1 DEF DarwinEntries, Goes, M!InUse
    <2>7. GoneWasFirst' /\ M!FiredTimerIsOwn'
      BY <1>1 DEF TimersInv, GoneWasFirst, M!FiredTimerIsOwn
    <2>8. M!SuspensionIsBalanced'
      BY <2>1 DEF Goes, M!SuspensionIsBalanced, M!InUse
    <2>9. ExpiriesAreOwn'
      <3> SUFFICES ASSUME "timer" \notin stuck', NEW e \in expired, e.handle \in M!InUse'
                   PROVE  timers'[e.handle].id = e.id \/ e.id \in overtaken
        BY <1>1 DEF ExpiriesAreOwn
      <3>0. "timer" \notin stuck
        BY <2>1
      <3>1. CASE e.handle \in M!InUse
        BY <1>2, <2>1, <3>0, <3>1 DEF TimersInv, ExpiriesAreOwn
      <3>2. CASE e.handle \notin M!InUse
        <4>1. e.handle = h /\ h \notin M!InUse /\ h \in M!InUse'
          BY <1>2, <2>1, <3>2
        <4>2. m[h].id = 0 /\ timersPort \notin {"Linux", "Darwin"}
          BY <1>2, <1>4, <1>5, <4>1
        <4>3. PICK gone \in DOMAIN m : gone \notin M!InUse' /\ m[gone].id = 0
                                      /\ \A j \in DOMAIN m : gone <= j
          <5>1. M!DeleteStalls
            BY <4>2 DEF M!DeleteStalls
          <5>2. PICK gone \in DOMAIN m : timers' = M!Without(m, gone) /\ m[gone].id = m[h].id
            BY <1>2, <1>6, <1>8, <3>0, DeleteTakesOne DEF Goes
          <5>3. gone \notin M!InUse'
            BY <5>2, WithoutEntry DEF M!InUse
          <5> QED BY <2>1, <4>2, <5>2, <5>3
        <4>4. gone \in M!InUse /\ gone # h
          BY <1>2, <4>1, <4>3
        <4>5. gone < h
          BY <1>2, <1>3, <1>6, <4>3, <4>4 DEF Goes, M!Handles, M!SoftwareTimersAssumption
        <4>6. timers[gone].id # 0
          BY <1>1, <4>1, <4>2, <4>4, <4>5 DEF TimersInv, GoneWasFirst
        <4> QED BY <1>2, <4>3, <4>4, <4>6
      <3> QED BY <3>1, <3>2
    <2> QED BY <2>4, <2>5, <2>6, <2>7, <2>8, <2>9 DEF TimersInv
  <1> QED BY <1>1, <1>7, <1>8

LEMMA PlatformExpires ==
  ASSUME M!SoftwareTimersAssumption, TimersInv, NEW h \in M!Handles, M!Expire(h)
  PROVE  TimersInv'
  <1>1. /\ h \in M!InUse /\ armed' \subseteq armed
        /\ expired' = expired \cup {[handle |-> h, id |-> timers[h].id]}
        /\ UNCHANGED <<timersPort, timers, nextId, suspended, calling, fired, overtaken, stuck>>
        /\ M!InUse' = M!InUse
    BY DEF M!Expire, M!InUse
  <1>2. timers[h].id \in M!Ids
    BY <1>1 DEF TimersInv, MapTyped, M!TypeOK, M!Entry
  <1>3. MapTyped'
    BY <1>1, <1>2 DEF TimersInv, MapTyped, M!TypeOK
  <1>4. ExpiriesAreOwn'
    BY <1>1 DEF TimersInv, ExpiriesAreOwn
  <1>5. DarwinEntries' /\ GoneWasFirst' /\ M!FiredTimerIsOwn' /\ M!SuspensionIsBalanced'
    BY <1>1 DEF TimersInv, DarwinEntries, GoneWasFirst, M!FiredTimerIsOwn, M!SuspensionIsBalanced
  <1> QED BY <1>3, <1>4, <1>5 DEF TimersInv

\* What is neither armed nor disarmed the invariant does not see.
LEMMA NothingMoves ==
  ASSUME TimersInv, UNCHANGED <<timersPort, timers, nextId, suspended, expired, calling, fired, overtaken>>,
         armed' \subseteq M!Handles, stuck' = stuck \/ stuck' = stuck \cup {"user"}
  PROVE  TimersInv'
  <1>1. M!InUse' = M!InUse
    BY DEF M!InUse
  <1>2. MapTyped'
    BY <1>1 DEF TimersInv, MapTyped, M!TypeOK
  <1>3. DarwinEntries' /\ GoneWasFirst' /\ M!FiredTimerIsOwn' /\ M!SuspensionIsBalanced' /\ ExpiriesAreOwn'
    BY <1>1 DEF TimersInv, DarwinEntries, GoneWasFirst, M!FiredTimerIsOwn, M!SuspensionIsBalanced,
       ExpiriesAreOwn
  <1> QED BY <1>2, <1>3 DEF TimersInv

LEMMA TimersKeep ==
  ASSUME M!SoftwareTimersAssumption, ~Overlap, TimersInv, [M!Next]_timersVars
  PROVE  TimersInv'
  <1>0. /\ armed \subseteq M!Handles /\ M!InUse \subseteq M!Handles /\ nextId \in 0 .. MaxIds
        /\ suspended \in [M!Handles -> Int]
        /\ \A h \in M!InUse : timers[h] \in M!Entry
    BY DEF TimersInv, MapTyped, M!TypeOK
  <1>1. ASSUME NEW id \in M!Ids, M!DeleteTimer(id) PROVE TimersInv'
    BY <1>0, <1>1, UserDeletes DEF M!DeleteTimer
  <1>2. ASSUME NEW id \in M!Ids, M!CreateFails(id) PROVE TimersInv'
    <2>1. nextId' \in 0 .. MaxIds /\ nextId' >= nextId
      BY <1>0, <1>2 DEF M!CreateFails, M!SoftwareTimersAssumption
    <2>2. UNCHANGED <<timersPort, expired, calling, fired, overtaken>> /\ M!DeleteFrom(timers, id, "user")
          /\ timersPort \notin {"Linux", "Darwin"}
      BY <1>2 DEF M!CreateFails
    <2> QED BY <2>1, <2>2, UserDeletes
  <1>3. ASSUME NEW id \in M!Ids, M!StartTimer(id) PROVE TimersInv'
    <2>1. UNCHANGED <<timersPort, nextId, expired, calling, fired, overtaken>>
      BY <1>3 DEF M!StartTimer
    <2>2. CASE stuck' = stuck \cup {"user"} /\ UNCHANGED <<timers, armed, suspended>>
      BY <1>0, <2>1, <2>2, NothingMoves
    <2>3. ASSUME NEW h \in M!HandleOf(id), armed' = armed \cup {h}, timersPort # "Darwin",
                 UNCHANGED <<timers, suspended, stuck>>
          PROVE  TimersInv'
      BY <1>0, <2>1, <2>3, NothingMoves DEF M!HandleOf
    <2>4. ASSUME NEW h \in M!HandleOf(id), armed' = armed \cup {h}, timersPort = "Darwin", stuck' = stuck,
                 timers' = [timers EXCEPT ![h].isResumed = TRUE, ![h].isSuspended = FALSE],
                 suspended' = [suspended EXCEPT ![h] = IF timers[h].isResumed THEN @ ELSE @ - 1]
          PROVE  TimersInv'
      <3>1. h \in M!InUse /\ armed' \subseteq M!Handles /\ h \in M!Handles
        BY <1>0, <2>4 DEF M!HandleOf
      <3>2. suspended' = [suspended EXCEPT ![h] = IF FALSE THEN 1 ELSE 0]
        <4>1. (IF timers[h].isResumed THEN suspended[h] ELSE suspended[h] - 1) = 0
          <5>1. CASE timers[h].isResumed
            <6>1. ~timers[h].isSuspended
              BY <2>4, <3>1, <5>1 DEF TimersInv, DarwinEntries
            <6> QED BY <3>1, <5>1, <6>1 DEF TimersInv, M!SuspensionIsBalanced
          <5>2. CASE ~timers[h].isResumed
            <6>1. timers[h].isSuspended
              BY <2>4, <3>1, <5>2 DEF TimersInv, DarwinEntries
            <6> QED BY <3>1, <5>2, <6>1 DEF TimersInv, M!SuspensionIsBalanced
          <5> QED BY <5>1, <5>2
        <4> QED BY <2>4, <4>1
      <3>3. timers' = [timers EXCEPT ![h].isResumed = TRUE, ![h].isSuspended = FALSE]
        BY <2>4
      <3> QED BY <2>1, <2>4, <3>1, <3>2, <3>3, UserSuspends
    <2> QED BY <1>3, <2>2, <2>3, <2>4 DEF M!StartTimer
  <1>4. ASSUME NEW id \in M!Ids, M!StopTimer(id) PROVE TimersInv'
    <2>1. UNCHANGED <<timersPort, nextId, expired, calling, fired, overtaken>>
      BY <1>4 DEF M!StopTimer
    <2>2. CASE stuck' = stuck \cup {"user"} /\ UNCHANGED <<timers, armed, suspended>>
      BY <1>0, <2>1, <2>2, NothingMoves
    <2>3. ASSUME NEW h \in M!HandleOf(id), armed' = armed \ {h},
                 UNCHANGED <<timers, suspended, stuck>>
          PROVE  TimersInv'
      BY <1>0, <2>1, <2>3, NothingMoves DEF M!HandleOf
    <2>4. ASSUME NEW h \in M!HandleOf(id), armed' = armed, stuck' = stuck, ~timers[h].isSuspended,
                 timers' = [timers EXCEPT ![h].isResumed = FALSE, ![h].isSuspended = TRUE],
                 suspended' = [suspended EXCEPT ![h] = @ + 1]
          PROVE  TimersInv'
      <3>1. h \in M!InUse /\ armed' \subseteq M!Handles /\ h \in M!Handles
        BY <1>0, <2>4 DEF M!HandleOf
      <3>2. suspended[h] + 1 = 1
        BY <2>4, <3>1 DEF TimersInv, M!SuspensionIsBalanced
      <3>3. suspended' = [suspended EXCEPT ![h] = IF TRUE THEN 1 ELSE 0]
        BY <2>4, <3>2
      <3>4. timers' = [timers EXCEPT ![h].isResumed = FALSE, ![h].isSuspended = TRUE]
        BY <2>4
      <3> QED BY <2>1, <2>4, <3>1, <3>3, <3>4, UserSuspends
    <2> QED BY <1>4, <2>2, <2>3, <2>4 DEF M!StopTimer
  <1>5. CASE UNCHANGED timersVars
    BY <1>0, <1>5, NothingMoves DEF timersVars
  <1>6. [M!Timers]_timersVars
    BY DEF M!Next, M!LinuxTimers, M!DarwinTimers, M!EspTimers, M!Cc32xxTimers, M!Tm4cTimers
  <1> QED
    BY <1>1, <1>2, <1>3, <1>4, <1>5, <1>6, UserCreates, ContextBegins, ContextEnds, PlatformExpires
       DEF M!Timers

LEMMA TimersShow == TimersInv => M!FiredTimerIsOwn /\ M!SuspensionIsBalanced
  BY DEF TimersInv

TimersPart == part = "timers" => TimersInv

LEMMA TimersAlways == ASSUME ~Overlap PROVE PartSpec => []TimersPart
  <1>0. M!SoftwareTimersAssumption
    BY Parameters
  <1>1. PartInit => TimersPart
    BY <1>0, TimersStart DEF PartInit, TimersPart
  <1>2. TimersPart /\ [PartNext]_allVars => TimersPart'
    BY <1>0, PartSteps, TimersKeep DEF TimersPart
  <1> QED BY <1>1, <1>2, PTL DEF PartSpec

\* While no timer is deleted during its own callback, an expiry calls the callback of
\* the timer that expired or none, unless the platform gave its handle to another timer
\* while it was on its way, and a source of Darwin is suspended exactly as often as its
\* entry says: for every number of timers and handles, any use of the handles and any
\* order of calls, of the timers that a failed creation deletes too
\* (OperatingSystemModule.cpp, createTimer to stopTimer and callTimerCallback).
THEOREM TimersStayOwn == ASSUME ~Overlap PROVE PartSpec => []TimersAreOwn
  <1>1. TimersPart => TimersAreOwn
    BY TimersShow DEF TimersPart, TimersAreOwn
  <1> QED BY <1>1, TimersAlways, PTL

-----------------------------------------------------------------------------
(* Files: the proofs of the component, for the variables of the part.      *)

FP == INSTANCE FileSystemProofs WITH port <- filePort, Ports <- FilePorts

FilePart == part = "file" => FP!FilesInv /\ FP!MatchInv /\ FP!AckedInv

LEMMA FilesAlways ==
  ASSUME FP!KeysDiffer
  PROVE  PartSpec => []FilePart
  <1>0. FP!FileSystemAssumption
    BY Parameters DEF FP!FileSystemAssumption, F!FileSystemAssumption
  <1>1. PartInit => FilePart
    <2>1. F!Init => FP!Init
      BY DEF F!Init, FP!Init, F!NewFile, FP!NewFile
    <2> QED BY <1>0, <2>1, FP!FilesStart, FP!MatchStart, FP!AckedStart DEF PartInit, FilePart
  <1>2. FilePart /\ [PartNext]_allVars => FilePart'
    <2>1. [F!Next]_fileVars => [FP!Next]_(FP!vars)
      BY DEF fileVars, F!fileMustExist, FP!fileMustExist, F!fileMustNotExist, FP!fileMustNotExist,
             F!fileShouldBeTruncated, FP!fileShouldBeTruncated, F!canReadFromFile,
             FP!canReadFromFile, F!canWriteToFile, FP!canWriteToFile, F!Exists, FP!Exists, F!Put,
             FP!Put, F!Drop, FP!Drop, F!KeyOf, FP!KeyOf, F!HasKey, FP!HasKey, F!StreamOf,
             FP!StreamOf, F!NewFile, FP!NewFile, F!Fails, FP!Fails, F!Return, FP!Return, F!MayOpen,
             FP!MayOpen, F!MayUse, FP!MayUse, F!Written, FP!Written, F!Store, FP!Store,
             F!StoreNothing, FP!StoreNothing, F!Forget, FP!Forget, F!isOpen, FP!isOpen,
             F!toStdOpenMode, FP!toStdOpenMode, F!PosixOpen, FP!PosixOpen, F!Flushes, FP!Flushes,
             F!Clear, FP!Clear, F!Closed, FP!Closed, F!PosixClose, FP!PosixClose, F!PosixRemove,
             FP!PosixRemove, F!Found, FP!Found, F!PosixRead, FP!PosixRead, F!WriteReturns,
             FP!WriteReturns, F!PosixWrite, FP!PosixWrite, F!PosixSynchronize, FP!PosixSynchronize,
             F!PosixSize, FP!PosixSize, F!toPosixOpenMode, FP!toPosixOpenMode, F!SpiffsOpen,
             FP!SpiffsOpen, F!SpiffsClose, FP!SpiffsClose, F!SpiffsRemove, FP!SpiffsRemove,
             F!SpiffsRead, FP!SpiffsRead, F!SpiffsWrite, FP!SpiffsWrite, F!KeyValueOpen,
             FP!KeyValueOpen, F!KeyValueClose, FP!KeyValueClose, F!KeyValueRemove,
             FP!KeyValueRemove, F!KeyValueRead, FP!KeyValueRead, F!KeyValueWrite, FP!KeyValueWrite,
             F!KeyValueSize, FP!KeyValueSize, F!SlOpen, FP!SlOpen, F!SlClose, FP!SlClose,
             F!SlRemove, FP!SlRemove, F!SlHandle, FP!SlHandle, F!SlRead, FP!SlRead, F!SlWrite,
             FP!SlWrite, F!Seek, FP!Seek, F!Buffers, FP!Buffers, F!MaxOpenFiles, FP!MaxOpenFiles,
             F!PosixFiles, FP!PosixFiles, F!LinuxFiles, FP!LinuxFiles, F!DarwinFiles,
             FP!DarwinFiles, F!SpiffsFiles, FP!SpiffsFiles, F!KeyValueFiles, FP!KeyValueFiles,
             F!SlFiles, FP!SlFiles, F!Next, FP!Next, F!vars, FP!vars, F!Min, FP!Min, F!Cardinality,
             FP!Cardinality, F!IsFiniteSet, FP!IsFiniteSet
    <2> QED BY <1>0, <2>1, PartSteps, FP!FilesKeep, FP!AckedKeeps DEF FilePart
  <1> QED BY <1>1, <1>2, PTL DEF PartSpec

LEMMA FilesShow ==
  ASSUME FP!KeysDiffer, FilePart
  PROVE  part = "file" => /\ F!TypeOK /\ F!AckedIsKept
                          /\ Careful => F!OpenFileHasStream /\ F!OpenFileMatchesMedia
  <1> SUFFICES ASSUME part = "file"
               PROVE  /\ F!TypeOK /\ F!AckedIsKept
                      /\ Careful => F!OpenFileHasStream /\ F!OpenFileMatchesMedia
    OBVIOUS
  <1>1. FP!TypeOK => F!TypeOK
    BY DEF F!TypeOK, FP!TypeOK, F!Keys, FP!Keys
  <1>2. FP!AckedIsKept => F!AckedIsKept
    BY DEF F!AckedIsKept, FP!AckedIsKept, F!Exists, FP!Exists, F!Range, FP!Range
  <1>3. FP!OpenFileHasStream /\ FP!OpenFileMatchesMedia => F!OpenFileHasStream /\ F!OpenFileMatchesMedia
    BY DEF F!OpenFileHasStream, FP!OpenFileHasStream, F!OpenFileMatchesMedia, FP!OpenFileMatchesMedia,
           F!HasKey, FP!HasKey, F!KeyOf, FP!KeyOf, F!StreamOf, FP!StreamOf, F!Exists, FP!Exists
  <1> QED BY <1>1, <1>2, <1>3, FP!FilesTyped, FP!AckedStays, FP!OpenFilesMatch DEF FilePart

\* A File that is open has its own stream and agrees with the media, and what Darwin
\* acknowledged stays stored in its order, for every number of paths, Files and chunks
\* and any faults: when no two paths have the same hash and a path is used by one File
\* at a time (FileSystemModule.cpp of every port).
THEOREM FilesStayMatched == ASSUME Careful, FP!KeysDiffer PROVE PartSpec => []FilesMatchMedia
  <1>1. FilePart => FilesMatchMedia
    BY FilesShow DEF FilesMatchMedia
  <1> QED BY <1>1, FilesAlways, PTL

-----------------------------------------------------------------------------
(* The types of all services.                                              *)

BlockingPart == PeekInv

LEMMA BlockingAlways == PartSpec => []BlockingPart
  <1>1. PartInit => BlockingPart
    BY PeekStarts DEF PartInit, BlockingPart
  <1>2. BlockingPart /\ [PartNext]_allVars => BlockingPart'
    <2>1. ASSUME [PartNext]_allVars
          PROVE  [Next]_vars
      BY <2>1 DEF PartNext, allVars, BlockingStep, ThreadsStep, SemaphoresStep, TimersStep, ClockStep,
         FileStep, PoolStep, SignalsStep
    <2> QED BY <2>1, PeekKeeps DEF BlockingPart
  <1> QED BY <1>1, <1>2, PTL DEF PartSpec

\* The variables of every service keep their types, so that no counter leaves its range
\* and no table holds what is not an entry of it, for every value of the constants for
\* which the hashes of the paths differ and no timer is deleted during its callback.
THEOREM AllTypesStay == ASSUME FP!KeysDiffer, ~Overlap PROVE PartSpec => []AllTypesOK
  <1>1. BlockingPart /\ ThreadsPart /\ SemaphoresPart /\ TimersPart /\ ClockPart /\ FilePart /\ PoolPart
          => AllTypesOK
    <2> SUFFICES ASSUME BlockingPart, ThreadsPart, SemaphoresPart, TimersPart, ClockPart, FilePart, PoolPart
                 PROVE  AllTypesOK
      OBVIOUS
    <2>1. TypeOK
      BY DEF BlockingPart, PeekInv
    <2>2. part = "threads" => T!TypeOK
      BY DEF ThreadsPart, TableInv, TableTypes
    <2>3. part = "semaphores" => S!TypeOK
      <3> SUFFICES ASSUME part = "semaphores"
                   PROVE  S!TypeOK
        OBVIOUS
      <3>1. SemaphoreTypes
        BY DEF SemaphoresPart, SemaphoresInv
      <3>2. 0 .. created \subseteq {0} \cup 1 .. MaxObjects /\ 1 .. created \subseteq 1 .. MaxObjects
        BY <3>1, Parameters DEF SemaphoreTypes, ObjectTypes, S!SemaphoresAssumption
      <3>3. /\ semaphores \in [SemaphoreNames -> {0} \cup 1 .. MaxObjects]
            /\ kernel \in [SemaphoreNames -> {0} \cup 1 .. MaxObjects]
        BY <3>1, <3>2 DEF SemaphoreTypes, ObjectTypes
      <3> QED BY <3>1, <3>2, <3>3 DEF SemaphoreTypes, ObjectTypes, WaitTypes, S!TypeOK, S!NoObject, S!Objects
    <2>4. part = "timers" => M!TypeOK
      BY DEF TimersPart, TimersInv, MapTyped
    <2>5. part = "clock" => C!TypeOK
      BY DEF ClockPart, ClockInv
    <2>6. part = "file" => F!TypeOK
      BY FilesShow
    <2>7. part = "pool" => P!TypeOK
      BY DEF PoolPart
    <2> QED BY <2>1, <2>2, <2>3, <2>4, <2>5, <2>6, <2>7 DEF AllTypesOK
  <1> QED BY <1>1, BlockingAlways, TableAlways, SemaphoresAlways, TimersAlways, ClockAlways, FilesAlways,
             PoolAlways, PTL
=============================================================================
