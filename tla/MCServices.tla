----------------------------- MODULE MCServices -----------------------------
(***************************************************************************)
(* What the operating system abstraction offers besides blocking threads,  *)
(* and the storage beneath it: the thread table, semaphores, software      *)
(* timers, the tick counter, files, the pools of blocks that calls are     *)
(* passed in and the signals that tell observers. Each component has a     *)
(* state of its own, so that a behaviour is one of one component; a run    *)
(* explores those of all of them. The constants are the components' own.   *)
(***************************************************************************)
EXTENDS TaskNotifyBlocking, Sequences, TLC

CONSTANTS
  Ports,                                                  \* of threads to timers
  Creators, ThreadNames, NoName, MaxThreads,              \* ThreadTable
  Careful,                                                \* ThreadTable, FileSystem
  SemaphoreNames, Takers, Initial, Maximum, MaxObjects,   \* Semaphores
  Overlap, MaxHandles, MaxIds,                            \* SoftwareTimers
  Wrap, Rate, Milli, Durations, MaxTime, MaxIdleCalls,    \* TickClock
  FilePorts, Paths, NoPath, Files, Modes, PathKey, Faults, MaxChunks,    \* FileSystem
  PoolUsers, Callers, Blocks, Capacity, MaxCalls,         \* BufferPool
  Connectors, Observers, Emitters, MaxObservers, CountRange, Twice, MaxConnects,
  MaxEmits, None                                          \* SignalsAndSlots

\* The hash of the path of a run.
OnePathKey == [p1 |-> 1, none |-> 0]

VARIABLE part   \* the component whose behaviour this is; the others stand still

VARIABLES threadsPort, records, nextThreadId, threadCount, creating, tasks, joining,
    raced
T == INSTANCE ThreadTable WITH port <- threadsPort, Names <- ThreadNames
threadsVars == <<threadsPort, records, nextThreadId, threadCount, creating, tasks,
    joining, raced>>
threadsIdle == threadsPort = 0 /\ records = 0 /\ nextThreadId = 0 /\ threadCount = 0 /\
    creating = 0 /\ tasks = 0 /\ joining = 0 /\ raced = 0

VARIABLES semaphoresPort, semaphores, kernel, created, value, stale, asked, waiting,
    taken, errno
S == INSTANCE Semaphores WITH port <- semaphoresPort, Names <- SemaphoreNames
semaphoresVars == <<semaphoresPort, semaphores, kernel, created, value, stale, asked, waiting,
    taken, errno>>
semaphoresIdle == semaphoresPort = 0 /\ semaphores = 0 /\ kernel = 0 /\ created = 0 /\
    value = 0 /\ stale = 0 /\ asked = 0 /\ waiting = 0 /\ taken = 0 /\ errno = 0

VARIABLES timersPort, timers, nextId, armed, suspended, expired, calling, fired, overtaken,
    stuck
M == INSTANCE SoftwareTimers WITH port <- timersPort
timersVars == <<timersPort, timers, nextId, armed, suspended, expired, calling, fired,
    overtaken, stuck>>
timersIdle == timersPort = 0 /\ timers = 0 /\ nextId = 0 /\ armed = 0 /\
    suspended = 0 /\ expired = 0 /\ calling = 0 /\ fired = 0 /\
    overtaken = 0 /\ stuck = 0

VARIABLES real, clockUser, timer, up, idle
C == INSTANCE TickClock WITH user <- clockUser, MaxCalls <- MaxIdleCalls
clockVars == <<real, clockUser, timer, up, idle>>
clockIdle == real = 0 /\ clockUser = 0 /\ timer = 0 /\ up = 0 /\ idle = 0

VARIABLES filePort, media, streams, files, opened, chunks, acked, last
F == INSTANCE FileSystem WITH port <- filePort, Ports <- FilePorts
fileVars == <<filePort, media, streams, files, opened, chunks, acked, last>>
fileIdle == filePort = 0 /\ media = 0 /\ streams = 0 /\ files = 0 /\ opened = 0 /\
    chunks = 0 /\ acked = 0 /\ last = 0

VARIABLES poolUser, marked, pc, at, calls, queue, holders, full, noMemory
P == INSTANCE BufferPool WITH user <- poolUser, Users <- PoolUsers
poolVars == <<poolUser, marked, pc, at, calls, queue, holders, full, noMemory>>
poolIdle == poolUser = 0 /\ marked = 0 /\ pc = 0 /\ at = 0 /\ calls = 0 /\ queue = 0 /\
    holders = 0 /\ full = 0 /\ noMemory = 0

VARIABLES slots, count, signalsPc, place, signalCalls, handle, live, wanted, answered,
    failed, error
G == INSTANCE SignalsAndSlots WITH pc <- signalsPc, at <- place, calls <- signalCalls,
    notified <- answered
signalsVars == <<slots, count, signalsPc, place, signalCalls, handle, live, wanted,
    answered, failed, error>>
signalsIdle == slots = 0 /\ count = 0 /\ signalsPc = 0 /\ place = 0 /\
    signalCalls = 0 /\ handle = 0 /\ live = 0 /\ wanted = 0 /\ answered = 0 /\
    failed = 0 /\ error = 0

ASSUME Parameters == T!ThreadTableAssumption /\ S!SemaphoresAssumption /\
    M!SoftwareTimersAssumption /\ C!ClockAssumption /\ F!FileSystemAssumption /\
    P!BufferPoolAssumption /\ G!SignalAssumption /\ G!NoneAssumption

\* The variables of the part "blocking" stay in their initial state when another part runs.
PartInit ==
    /\ part \in {"blocking", "threads", "semaphores", "timers", "clock", "file", "pool",
                "signals"}
    /\ Init
    /\ IF part = "threads" THEN T!Init ELSE threadsIdle
    /\ IF part = "semaphores" THEN S!Init ELSE semaphoresIdle
    /\ IF part = "timers" THEN M!Init ELSE timersIdle
    /\ IF part = "clock" THEN C!Init ELSE clockIdle
    /\ IF part = "file" THEN F!Init ELSE fileIdle
    /\ IF part = "pool" THEN P!Init ELSE poolIdle
    /\ IF part = "signals" THEN G!Init ELSE signalsIdle

BlockingStep == part = "blocking" /\ Next
    /\ UNCHANGED <<part, threadsVars, semaphoresVars, timersVars, clockVars, fileVars, poolVars, signalsVars>>
ThreadsStep == part = "threads" /\ T!Next
    /\ UNCHANGED <<part, vars, semaphoresVars, timersVars, clockVars, fileVars, poolVars, signalsVars>>
SemaphoresStep == part = "semaphores" /\ S!Next
    /\ UNCHANGED <<part, vars, threadsVars, timersVars, clockVars, fileVars, poolVars, signalsVars>>
TimersStep == part = "timers" /\ M!Next
    /\ UNCHANGED <<part, vars, threadsVars, semaphoresVars, clockVars, fileVars, poolVars, signalsVars>>
ClockStep == part = "clock" /\ C!Next
    /\ UNCHANGED <<part, vars, threadsVars, semaphoresVars, timersVars, fileVars, poolVars, signalsVars>>
FileStep == part = "file" /\ F!Next
    /\ UNCHANGED <<part, vars, threadsVars, semaphoresVars, timersVars, clockVars, poolVars, signalsVars>>
PoolStep == part = "pool" /\ P!Next
    /\ UNCHANGED <<part, vars, threadsVars, semaphoresVars, timersVars, clockVars, fileVars,
                   signalsVars>>
SignalsStep == part = "signals" /\ G!Next
    /\ UNCHANGED <<part, vars, threadsVars, semaphoresVars, timersVars, clockVars, fileVars, poolVars>>

PartNext ==
    \/ BlockingStep
    \/ ThreadsStep
    \/ SemaphoresStep
    \/ TimersStep
    \/ ClockStep
    \/ FileStep
    \/ PoolStep
    \/ SignalsStep
allVars == <<part, vars, threadsVars, semaphoresVars, timersVars, clockVars, fileVars, poolVars,
             signalsVars>>
PartSpec == PartInit /\ [][PartNext]_allVars

-----------------------------------------------------------------------------
\* Every component's variables keep their types.
AllTypesOK ==
    /\ TypeOK
    /\ part = "threads" => T!TypeOK
    /\ part = "semaphores" => S!TypeOK
    /\ part = "timers" => M!TypeOK
    /\ part = "clock" => C!TypeOK
    /\ part = "file" => F!TypeOK
    /\ part = "pool" => P!TypeOK

\* As long as no two creations were between their read and their write of the next
\* id at once, a thread that runs, and that no creation is still about to record, is
\* in the table, and the number of threads the table keeps is that of the threads
\* that are active: what block, unblock and join look up is the thread meant.
ThreadsAreTracked == part = "threads" => T!RunningIsKnown /\ T!CountIsLive

\* A wait goes on with a unit only if its thread came with EAGAIN in errno, no name
\* leads to a semaphore that was left over from before its creation, and no FreeRTOS
\* port gives more than the maximum.
SemaphoresAreUnits == part = "semaphores" => S!WaitTakesOneUnit /\ S!SemaphoreIsFresh /\ S!WithinMaximum

\* A timer that expires calls its own callback or none, unless its handle was given
\* to another timer in between, and a source of Darwin is suspended as its entry says.
TimersAreOwn == part = "timers" => M!FiredTimerIsOwn /\ M!SuspensionIsBalanced

\* The tick timer is early or late only when its sum wraps, the up time is not ahead
\* of the real one before the first wrap, and the idle time is a share of the time.
ClockErrsOneWay == part = "clock" => C!TimerErrsOneWay /\ C!UptimeIsNotAheadAtFirst /\ C!IdleIsAShare

\* An open file has the stream that its path leads to, its pointer and size agree
\* with what is stored, and what was acknowledged stays stored in its order.
FilesMatchMedia == part = "file" => F!OpenFileHasStream /\ F!OpenFileMatchesMedia /\ F!AckedIsKept

\* With one caller no block is held by two calls or given out while it is held, and
\* a pool of as many blocks as the queue has places always has one.
BlocksAreHeldOnce == part = "pool" => P!BlocksAreExclusive /\ P!PoolCoversQueue

\* A handle leads to the connection it was returned for, the number of observers is
\* that of the slots in use and of the steps under way, and an emit has called every
\* observer that was connected from its beginning to its end.
SignalsAreExact == part = "signals" => G!SignalsAreExact
=============================================================================
