----------------------------- MODULE Semaphores -----------------------------
(***************************************************************************)
(* The named counting semaphores of the five ports of the operating        *)
(* system: create-, delete-, wait-, increment- and decrementSemaphore.     *)
(*                                                                         *)
(* On POSIX the kernel keeps a semaphore under its name until sem_unlink,  *)
(* over a restart of the program too.  waitSemaphore reads errno even when *)
(* sem_wait succeeded, and errno keeps what any earlier call of the thread *)
(* left there.  On FreeRTOS a semaphore is an object of the heap with a    *)
(* maximum.  Every thread may wait, poll and do anything else.             *)
(***************************************************************************)
EXTENDS Naturals

CONSTANTS
  Ports,       \* the ports that are looked at
  Names,       \* names of semaphores
  Takers,      \* threads that call waitSemaphore and decrementSemaphore
  Initial,     \* the initial value they are created with
  Maximum,     \* the maximum value they are created with
  MaxObjects   \* bound: semaphores created by the platform

SemaphoresAssumption ==
  /\ Ports \subseteq {"Linux", "Darwin", "Esp", "Cc32xx", "Tm4c"}
  /\ Initial \in 0 .. Maximum /\ Maximum \in Nat /\ MaxObjects \in Nat

VARIABLES
  port,        \* the port of this behaviour, constant
  semaphores,  \* OperatingSystem::semaphores: the object of every name, or NoObject
  kernel,      \* POSIX: the object the kernel has under every name, or NoObject
  created,     \* the number of objects created so far
  value,       \* the value of every object
  stale,       \* the objects of earlier runs of the program
  asked,       \* the name, in a set, that a thread called waitSemaphore with
  waiting,     \* the object a thread waits for in waitSemaphore, or NoObject
  taken,       \* the units a thread has taken in the wait it is in: 0, 1 or more
  errno        \* POSIX: the thread's errno, which a success leaves alone

vars == <<port, semaphores, kernel, created, value, stale, asked, waiting, taken, errno>>

NoObject == 0
Objects == 1 .. MaxObjects

Init ==
  /\ port \in Ports
  /\ semaphores = [n \in Names |-> NoObject]
  /\ kernel = [n \in Names |-> NoObject]
  /\ created = 0
  /\ value = [o \in Objects |-> 0]
  /\ stale = {}
  /\ asked = [t \in Takers |-> {}]
  /\ waiting = [t \in Takers |-> NoObject]
  /\ taken = [t \in Takers |-> 0]
  /\ errno = [t \in Takers |-> "none"]

\* The platform makes a new object for the name.
NewObject(n) ==
  /\ created < MaxObjects
  /\ created' = created + 1
  /\ value' = [value EXCEPT ![created + 1] = Initial]
  /\ semaphores' = [semaphores EXCEPT ![n] = created + 1]

-----------------------------------------------------------------------------
(* POSIX                                                                    *)

\* deleteSemaphore: only if the kernel has the name is it erased from the map.
\* sem_close is not called: a thread that waits goes on waiting.
UnlinkSemaphore(n) ==
  /\ kernel[n] # NoObject
  /\ kernel' = [kernel EXCEPT ![n] = NoObject]
  /\ semaphores' = [semaphores EXCEPT ![n] = NoObject]
  /\ UNCHANGED <<port, created, value, stale, asked, waiting, taken, errno>>

\* Mutant of OpenSemaphore: no deleteSemaphore and no O_EXCL, a name that the
\* kernel still has is opened.
OpenOldSemaphore(n) ==
  /\ IF kernel[n] = NoObject
     THEN NewObject(n) /\ kernel' = [kernel EXCEPT ![n] = created + 1]
     ELSE /\ semaphores' = [semaphores EXCEPT ![n] = kernel[n]]
          /\ UNCHANGED <<created, value, kernel>>
  /\ UNCHANGED <<port, stale, asked, waiting, taken, errno>>

\* createSemaphore: deleteSemaphore, then sem_open with O_EXCL; the maximum is
\* not used.  sem_open may fail after the old one was deleted.
OpenSemaphore(n) ==
  /\ \/ NewObject(n) /\ kernel' = [kernel EXCEPT ![n] = created + 1]
     \/ /\ kernel' = [kernel EXCEPT ![n] = NoObject]
        /\ semaphores' = IF kernel[n] = NoObject THEN semaphores
                         ELSE [semaphores EXCEPT ![n] = NoObject]
        /\ UNCHANGED <<created, value>>
  /\ UNCHANGED <<port, stale, asked, waiting, taken, errno>>

\* The thread goes on in the loop of waitSemaphore with a unit: it looks the
\* name up again and waits.  (A name that was deleted meanwhile gives it a null
\* pointer: the program faults and can only restart.)
WaitAgain(t) ==
  /\ \E n \in asked[t] : /\ semaphores[n] # NoObject
                        /\ waiting' = [waiting EXCEPT ![t] = semaphores[n]]
  /\ taken' = [taken EXCEPT ![t] = IF @ = 0 THEN 1 ELSE 2]
  /\ UNCHANGED asked

\* It returns from waitSemaphore.
EndWait(t) ==
  /\ asked' = [asked EXCEPT ![t] = {}]
  /\ waiting' = [waiting EXCEPT ![t] = NoObject]
  /\ taken' = [taken EXCEPT ![t] = 0]

\* Mutant of SemWait: the loop also goes on after any success.
SemWaitAgain(t) ==
  /\ waiting[t] # NoObject /\ value[waiting[t]] > 0
  /\ value' = [value EXCEPT ![waiting[t]] = @ - 1]
  /\ WaitAgain(t) \/ EndWait(t)
  /\ UNCHANGED <<port, semaphores, kernel, created, stale, errno>>

\* sem_wait succeeds in waitSemaphore.  It returns Success unless errno is
\* EAGAIN from before: then it waits for another unit.
SemWait(t) ==
  /\ waiting[t] # NoObject /\ value[waiting[t]] > 0
  /\ value' = [value EXCEPT ![waiting[t]] = @ - 1]
  /\ IF errno[t] = "EAGAIN" THEN WaitAgain(t) ELSE EndWait(t)
  /\ UNCHANGED <<port, semaphores, kernel, created, stale, errno>>

\* A signal interrupts sem_wait: waitSemaphore returns an error or, when the
\* timeout is a millisecond at most, Timeout, whatever units it has taken.  The
\* timeout has no other effect.
SemInterrupted(t) ==
  /\ waiting[t] # NoObject
  /\ EndWait(t)
  /\ errno' = [errno EXCEPT ![t] = "EINTR"]
  /\ UNCHANGED <<port, semaphores, kernel, created, value, stale>>

\* Any other call of the thread fails: a socket that has nothing yet leaves
\* EAGAIN, a file or a name that is missing another error (here EINTR).
OtherCallFails(t) ==
  /\ waiting[t] = NoObject
  /\ \E error \in {"EAGAIN", "EINTR"} : errno' = [errno EXCEPT ![t] = error]
  /\ UNCHANGED <<port, semaphores, kernel, created, value, stale, asked, waiting, taken>>

\* incrementSemaphore; the value may pass the maximum (bound: by one).
SemPost(n) ==
  /\ semaphores[n] # NoObject /\ value[semaphores[n]] <= Maximum
  /\ value' = [value EXCEPT ![semaphores[n]] = @ + 1]
  /\ UNCHANGED <<port, semaphores, kernel, created, stale, asked, waiting, taken, errno>>

\* decrementSemaphore.
SemTryWait(t, n) ==
  /\ waiting[t] = NoObject /\ semaphores[n] # NoObject
  /\ IF value[semaphores[n]] > 0
     THEN value' = [value EXCEPT ![semaphores[n]] = @ - 1] /\ UNCHANGED errno
     ELSE errno' = [errno EXCEPT ![t] = "EAGAIN"] /\ UNCHANGED value
  /\ UNCHANGED <<port, semaphores, kernel, created, stale, asked, waiting, taken>>

\* The program stops and starts again: its map and threads are new, the names
\* stay in the kernel.
RestartProgram ==
  /\ semaphores' = [n \in Names |-> NoObject]
  /\ stale' = 1 .. created
  /\ asked' = [t \in Takers |-> {}]
  /\ waiting' = [t \in Takers |-> NoObject]
  /\ taken' = [t \in Takers |-> 0]
  /\ errno' = [t \in Takers |-> "none"]
  /\ UNCHANGED <<port, kernel, created, value>>

-----------------------------------------------------------------------------
(* FreeRTOS                                                                 *)

\* deleteSemaphore; nobody may wait for the object (FreeRTOS frees it).
FreeSemaphore(n) ==
  /\ semaphores[n] # NoObject
  /\ \A t \in Takers : waiting[t] # semaphores[n]
  /\ semaphores' = [semaphores EXCEPT ![n] = NoObject]
  /\ UNCHANGED <<port, kernel, created, value, stale, asked, waiting, taken, errno>>

\* createSemaphore; an object the name had before is forgotten, not freed.
CreateCounting(n) ==
  /\ NewObject(n)
  /\ UNCHANGED <<port, kernel, stale, asked, waiting, taken, errno>>

\* xSemaphoreTake succeeds in waitSemaphore, or times out.
Take(t) ==
  /\ waiting[t] # NoObject
  /\ \/ value[waiting[t]] > 0 /\ value' = [value EXCEPT ![waiting[t]] = @ - 1]
     \/ UNCHANGED value
  /\ EndWait(t)
  /\ UNCHANGED <<port, semaphores, kernel, created, stale, errno>>

\* Mutant of Give: it does not fail at the maximum.
GiveMore(n) ==
  /\ semaphores[n] # NoObject /\ value[semaphores[n]] <= Maximum
  /\ value' = [value EXCEPT ![semaphores[n]] = @ + 1]
  /\ UNCHANGED <<port, semaphores, kernel, created, stale, asked, waiting, taken, errno>>

\* incrementSemaphore; at the maximum it fails.
Give(n) ==
  /\ semaphores[n] # NoObject /\ value[semaphores[n]] < Maximum
  /\ value' = [value EXCEPT ![semaphores[n]] = @ + 1]
  /\ UNCHANGED <<port, semaphores, kernel, created, stale, asked, waiting, taken, errno>>

\* decrementSemaphore: xSemaphoreTake with no time to wait.
TryTake(t, n) ==
  /\ waiting[t] = NoObject /\ semaphores[n] # NoObject /\ value[semaphores[n]] > 0
  /\ value' = [value EXCEPT ![semaphores[n]] = @ - 1]
  /\ UNCHANGED <<port, semaphores, kernel, created, stale, asked, waiting, taken, errno>>

-----------------------------------------------------------------------------
\* waitSemaphore finds the name and waits.
BeginWait(t, n) ==
  /\ waiting[t] = NoObject /\ semaphores[n] # NoObject
  /\ asked' = [asked EXCEPT ![t] = {n}]
  /\ waiting' = [waiting EXCEPT ![t] = semaphores[n]]
  /\ UNCHANGED <<port, semaphores, kernel, created, value, stale, taken, errno>>

PosixSemaphores ==
  \/ \E n \in Names : \/ UnlinkSemaphore(n) \/ OpenSemaphore(n) \/ SemPost(n)
                      \/ \E t \in Takers : BeginWait(t, n) \/ SemTryWait(t, n)
  \/ \E t \in Takers : SemWait(t) \/ SemInterrupted(t) \/ OtherCallFails(t)
  \/ RestartProgram

FreeRtosSemaphores ==
  \/ \E n \in Names : \/ FreeSemaphore(n) \/ CreateCounting(n) \/ Give(n)
                      \/ \E t \in Takers : BeginWait(t, n) \/ TryTake(t, n)
  \/ \E t \in Takers : Take(t)

LinuxSemaphores  == port = "Linux"  /\ PosixSemaphores
DarwinSemaphores == port = "Darwin" /\ PosixSemaphores
EspSemaphores    == port = "Esp"    /\ FreeRtosSemaphores
Cc32xxSemaphores == port = "Cc32xx" /\ FreeRtosSemaphores
Tm4cSemaphores   == port = "Tm4c"   /\ FreeRtosSemaphores

Next == LinuxSemaphores \/ DarwinSemaphores \/ EspSemaphores \/ Cc32xxSemaphores \/ Tm4cSemaphores

Spec == Init /\ [][Next]_vars

-----------------------------------------------------------------------------
TypeOK ==
  /\ port \in Ports
  /\ semaphores \in [Names -> {NoObject} \cup Objects]
  /\ kernel \in [Names -> {NoObject} \cup Objects]
  /\ created \in 0 .. MaxObjects
  /\ value \in [Objects -> 0 .. Maximum + 1]
  /\ stale \subseteq Objects
  /\ asked \in [Takers -> SUBSET Names]
  /\ waiting \in [Takers -> {NoObject} \cup Objects]
  /\ taken \in [Takers -> 0 .. 2]
  /\ errno \in [Takers -> {"none", "EAGAIN", "EINTR"}]

\* waitSemaphore goes on with a unit that it has taken only if a call which the
\* thread made before left EAGAIN in errno: who comes without it takes one unit.
WaitTakesOneUnit == \A t \in Takers : taken[t] > 0 => errno[t] = "EAGAIN"

\* waitSemaphore returns "ErrorType::Success if the was decremented"
\* (OperatingSystemAbstraction.hpp): no wait takes a second unit.
WaitReturnsOnceDecremented == \A t \in Takers : taken[t] < 2

\* The semaphore of a name was created in this run of the program: the value
\* that an earlier run left in the kernel is never taken over.
SemaphoreIsFresh == \A n \in Names : semaphores[n] \notin stale

\* On FreeRTOS the value stays within the maximum the semaphore was created
\* with.  (POSIX has no maximum.)
WithinMaximum ==
  port \in {"Esp", "Cc32xx", "Tm4c"} => \A o \in Objects : value[o] <= Maximum

\* Who waits, waits for a semaphore that somebody can still increment.  (A name
\* that is deleted or created again while a thread waits breaks it.)
WaitersAreReachable ==
  \A t \in Takers : waiting[t] # NoObject => \E n \in Names : semaphores[n] = waiting[t]
=============================================================================
