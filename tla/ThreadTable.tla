---------------------------- MODULE ThreadTable ----------------------------
(***************************************************************************)
(* The table of threads of the five ports of the operating system:         *)
(* createThread, deleteThread, joinThread, threadId, currentThreadId and   *)
(* isDeleted (Modules/OperatingSystem/*/OperatingSystemModule.cpp).        *)
(*                                                                         *)
(* Several threads may create threads at once, and nothing is locked: each *)
(* call reads the static nextThreadId, fills the record of that index,     *)
(* before or after the platform creates the task depending on the port,    *)
(* and adds one to the counters at its end.  The platform may run the new  *)
(* task before the call that created it returns, or later, or may refuse   *)
(* it.  A record is never freed: deleteThread marks the first one with the *)
(* name.  threads.at() throws past the end of the table and ends the       *)
(* program, so no call goes there here.                                    *)
(***************************************************************************)
EXTENDS Integers, Sequences, FiniteSetsExt

CONSTANTS
  Ports,       \* the ports that are looked at
  Creators,    \* the threads that call createThread
  Names,       \* names of threads
  NoName,      \* the name of a record that was never used
  MaxThreads,  \* APP_MAX_NUMBER_OF_THREADS
  Careful      \* a name is used for one thread only, which is deleted once

ThreadTableAssumption ==
  /\ Ports \subseteq {"Linux", "Darwin", "Esp", "Cc32xx", "Tm4c"}
  /\ NoName \notin Names
  /\ MaxThreads \in Nat \ {0}
  /\ Careful \in BOOLEAN

VARIABLES
  port,          \* the port of this behaviour, constant
  records,       \* OperatingSystem::threads
  nextThreadId,  \* the static counter of createThread, as an index
  threadCount,   \* _status.threadCount (below zero where the code wraps)
  creating,      \* the createThread call of each creator
  tasks,         \* the tasks of the platform, in the order of their creation
  joining,       \* the name and, on POSIX, the task joinThread waits for
  raced          \* the counters that were changed while a call was between its
                 \* read of them and its write: "id", "count"

vars == <<port, records, nextThreadId, threadCount, creating, tasks, joining, raced>>

(***************************************************************************)
(* How the ports differ: whether the record is stored before the task      *)
(* exists (the task then writes its own handle when it starts), whether a  *)
(* creation that fails calls deleteThread, and what joinThread waits for.  *)
(***************************************************************************)
LinuxThreads  == [first |-> TRUE,  undo |-> TRUE,  join |-> "task"]
DarwinThreads == [first |-> FALSE, undo |-> FALSE, join |-> "task"]
EspThreads    == [first |-> TRUE,  undo |-> TRUE,  join |-> "NoData"]
Cc32xxThreads == [first |-> FALSE, undo |-> TRUE,  join |-> "NoData"]
Tm4cThreads   == [first |-> FALSE, undo |-> TRUE,  join |-> "NoData"]

ThreadCalls == [Linux |-> LinuxThreads, Darwin |-> DarwinThreads, Esp |-> EspThreads,
                Cc32xx |-> Cc32xxThreads, Tm4c |-> Tm4cThreads][port]

Indices == 1 .. MaxThreads
NoTask  == 0
NoJoin  == [name |-> NoName, task |-> NoTask]
Idle    == [name |-> NoName, step |-> "idle", id |-> 0, count |-> 0, task |-> NoTask]

\* The last step of createThread before the counters, and whether the call is
\* between its read of nextThreadId and its write.
LastStep    == IF ThreadCalls.first THEN "created" ELSE "stored"
HasRead(k)  == creating[k].step \in (IF ThreadCalls.first THEN {"create", "created"} ELSE {"stored"})
SomeHasRead == \E k \in Creators : HasRead(k)

\* threadId(): the first record with the name.
WithName(n) == {i \in Indices : records[i].name = n}
First(n)    == Min(WithName(n))

\* isDeleted(): Success also for a name that no record has.
IsDeleted(n) ==
  IF WithName(n) # {} /\ \A i \in WithName(n) : records[i].status # "Terminated"
  THEN "Negative" ELSE "Success"

\* currentThreadId(): the operating system knows the task.
Known(t) == \E i \in Indices : records[i].task = t

Init ==
  /\ port \in Ports
  /\ records = [i \in Indices |-> [name |-> NoName, task |-> NoTask, status |-> "Unknown"]]
  /\ nextThreadId = 1
  /\ threadCount = 0
  /\ creating = [k \in Creators |-> Idle]
  /\ tasks = <<>>
  /\ joining = NoJoin
  /\ raced = {}

\* createThread fills the record of the next index.
StoreRecord(k, call, task) ==
  /\ nextThreadId <= MaxThreads
  /\ records' = [records EXCEPT ![nextThreadId] =
                   [name |-> call.name, task |-> task, status |-> "Active"]]
  /\ creating' = [creating EXCEPT ![k] =
                    [call EXCEPT !.id = nextThreadId, !.count = threadCount]]
  /\ raced' = IF SomeHasRead THEN {"id", "count"} ELSE raced

\* createThread() up to the call of the platform.
BeginCreate(k, n) ==
  /\ creating[k] = Idle
  /\ Careful => /\ \A t \in DOMAIN tasks : tasks[t].name # n
                /\ \A j \in Creators : creating[j].name # n
  /\ LET call == [name |-> n, step |-> "create", id |-> 0, count |-> 0, task |-> NoTask] IN
       IF ThreadCalls.first
       THEN StoreRecord(k, call, IF port = "Linux" THEN NoTask ELSE records[nextThreadId].task)
       ELSE creating' = [creating EXCEPT ![k] = call] /\ UNCHANGED <<records, raced>>
  /\ UNCHANGED <<port, nextThreadId, threadCount, tasks, joining>>

\* The platform creates the task, which may run before the call returns.  It is
\* given the place of its handle: Linux reads nextThreadId again for it.
PlatformCreates(k) ==
  /\ creating[k].step = "create"
  /\ port = "Linux" => nextThreadId <= MaxThreads
  /\ tasks' = Append(tasks, [name |-> creating[k].name, state |-> "created",
                             record |-> IF port = "Linux" THEN nextThreadId ELSE creating[k].id])
  /\ creating' = [creating EXCEPT ![k].step = "created", ![k].task = Len(tasks) + 1]
  /\ UNCHANGED <<port, records, nextThreadId, threadCount, joining, raced>>

\* Bound: the count goes one below zero at most (a refusal on Esp and a second
\* deletion of a name count down without a thread).
CountFits == threadCount >= 0

\* deleteThread(n) on the table and the count.
Terminate(n) ==
  IF WithName(n) = {} THEN UNCHANGED <<records, threadCount, raced>>
  ELSE /\ records' = [records EXCEPT ![First(n)].status = "Terminated"]
       /\ threadCount' = threadCount - 1
       /\ raced' = IF SomeHasRead THEN raced \cup {"count"} ELSE raced

\* The platform refuses the task.  Linux sets the count to the size of the
\* table at the end of every call.
PlatformRefuses(k) ==
  /\ creating[k].step = "create"
  /\ CountFits
  /\ creating' = [creating EXCEPT ![k] = Idle]
  /\ \/ /\ port = "Linux"
        /\ records' = IF WithName(creating[k].name) = {} THEN records
                      ELSE [records EXCEPT ![First(creating[k].name)].status = "Terminated"]
        /\ threadCount' = MaxThreads
        /\ UNCHANGED raced
     \/ port # "Linux" /\ ThreadCalls.undo /\ Terminate(creating[k].name)
     \/ ~ThreadCalls.undo /\ UNCHANGED <<records, threadCount, raced>>
  /\ UNCHANGED <<port, nextThreadId, tasks, joining>>

\* createThread() stores the record of the task it got, where it was not there before.
StoreCreated(k) ==
  /\ creating[k].step = "created" /\ ~ThreadCalls.first
  /\ StoreRecord(k, [creating[k] EXCEPT !.step = "stored"], creating[k].task)
  /\ UNCHANGED <<port, nextThreadId, threadCount, tasks, joining>>

\* Mutant of EndCreate: the id is not advanced, the next call gets the same record.
EndCreateSameId(k) ==
  /\ creating[k].step = LastStep
  /\ creating' = [creating EXCEPT ![k] = Idle]
  /\ \E c \in {creating[k].count, threadCount} :
       threadCount' = IF port = "Linux" THEN MaxThreads ELSE c + 1
  /\ UNCHANGED <<port, records, nextThreadId, tasks, joining, raced>>

\* createThread() adds one to the counters: to what they are now, or to what it
\* read before (the increments are not atomic and the compiler may keep the read).
EndCreate(k) ==
  /\ creating[k].step = LastStep
  /\ creating' = [creating EXCEPT ![k] = Idle]
  /\ \E i \in {creating[k].id, nextThreadId} : nextThreadId' = i + 1
  /\ \E c \in {creating[k].count, threadCount} :
       threadCount' = IF port = "Linux" THEN MaxThreads ELSE c + 1
  /\ UNCHANGED <<port, records, tasks, joining, raced>>

\* The wrapper initThread runs: the task writes its handle, then is user code.
StartTask(t) ==
  /\ tasks[t].state = "created"
  /\ tasks' = [tasks EXCEPT ![t].state = "running"]
  /\ records' = IF ThreadCalls.first THEN [records EXCEPT ![tasks[t].record].task = t] ELSE records
  /\ UNCHANGED <<port, nextThreadId, threadCount, creating, joining, raced>>

\* The function of the thread returns, because it was deleted or by itself.
EndTask(t) ==
  /\ tasks[t].state = "running"
  /\ tasks' = [tasks EXCEPT ![t].state = "ended"]
  /\ UNCHANGED <<port, records, nextThreadId, threadCount, creating, joining, raced>>

\* Mutant of DeleteThread: the thread is marked and not counted.
DeleteUncounted(n) ==
  /\ WithName(n) # {} /\ CountFits
  /\ Careful => /\ \A k \in Creators : creating[k].name # n
                /\ records[First(n)].status # "Terminated"
  /\ records' = [records EXCEPT ![First(n)].status = "Terminated"]
  /\ UNCHANGED <<port, threadCount, nextThreadId, creating, tasks, joining, raced>>

\* deleteThread(n).
DeleteThread(n) ==
  /\ WithName(n) # {} /\ CountFits
  /\ Careful => /\ \A k \in Creators : creating[k].name # n
                /\ records[First(n)].status # "Terminated"
  /\ Terminate(n)
  /\ UNCHANGED <<port, nextThreadId, creating, tasks, joining>>

\* joinThread(n) waits: POSIX for the task of the first record with the name
\* (its handle is written when the task starts, a call before that is not made
\* here), FreeRTOS for any name.
BeginJoin(n) ==
  /\ joining = NoJoin
  /\ \/ /\ ThreadCalls.join = "task"
        /\ WithName(n) # {} /\ records[First(n)].task # NoTask
        /\ joining' = [name |-> n, task |-> records[First(n)].task]
     \/ /\ ThreadCalls.join = "NoData"
        /\ joining' = [name |-> n, task |-> NoTask]
  /\ UNCHANGED <<port, records, nextThreadId, threadCount, creating, tasks, raced>>

\* pthread_join returns when the task has ended; FreeRTOS waits for NoData.
EndJoin ==
  /\ joining # NoJoin
  /\ IF ThreadCalls.join = "task" THEN tasks[joining.task].state = "ended"
     ELSE IsDeleted(joining.name) = "NoData"
  /\ joining' = NoJoin
  /\ UNCHANGED <<port, records, nextThreadId, threadCount, creating, tasks, raced>>

ThreadSteps ==
  \/ \E k \in Creators, n \in Names : BeginCreate(k, n)
  \/ \E n \in Names : DeleteThread(n) \/ BeginJoin(n)
  \/ \E k \in Creators : PlatformCreates(k) \/ PlatformRefuses(k) \/ StoreCreated(k) \/ EndCreate(k)
  \/ EndJoin
  \/ \E t \in DOMAIN tasks : StartTask(t) \/ EndTask(t)

LinuxSteps  == port = "Linux"  /\ ThreadSteps
DarwinSteps == port = "Darwin" /\ ThreadSteps
EspSteps    == port = "Esp"    /\ ThreadSteps
Cc32xxSteps == port = "Cc32xx" /\ ThreadSteps
Tm4cSteps   == port = "Tm4c"   /\ ThreadSteps

Next == LinuxSteps \/ DarwinSteps \/ EspSteps \/ Cc32xxSteps \/ Tm4cSteps

Spec == Init /\ [][Next]_vars /\ WF_vars(EndJoin)

-----------------------------------------------------------------------------
TypeOK ==
  /\ port \in Ports
  /\ records \in [Indices -> [name : Names \cup {NoName}, task : Nat,
                              status : {"Unknown", "Active", "Terminated"}]]
  /\ nextThreadId \in Nat \ {0}
  /\ threadCount \in Int
  /\ creating \in [Creators -> [name : Names \cup {NoName}, id : 0 .. MaxThreads, count : Int, task : Nat,
                                step : {"idle", "create", "created", "stored"}]]
  /\ tasks \in Seq([name : Names, state : {"created", "running", "ended"}, record : 0 .. MaxThreads])
  /\ joining \in [name : Names \cup {NoName}, task : Nat]
  /\ raced \subseteq {"id", "count"}

\* A task that runs user code is known to the operating system, so that it may
\* block and so that its events are queued, as long as no two calls of createThread
\* were between their read and their write of nextThreadId at once: always on the
\* ports that store the record first, and on the others once the createThread that
\* made it stored it.  Calls may overlap in everything else.
RunningIsKnown ==
  "id" \notin raced =>
    \A t \in DOMAIN tasks :
      /\ tasks[t].state = "running"
      /\ \A k \in Creators : ~ThreadCalls.first /\ creating[k].step = "created" => creating[k].task # t
      => Known(t)

\* The stronger promise.  The ports that store the record last break it: the task
\* may run, and call currentThreadId, before its record is there.  On the others
\* two calls at once fill the same record.
RunningIsAlwaysKnown ==
  \A t \in DOMAIN tasks : tasks[t].state = "running" => Known(t)

\* threadCount is the number of threads that were stored and not deleted, but for
\* the one whose createThread has not counted it yet, as long as no call changed
\* the count while a createThread was between its read and its write of it.
\* (Not on Linux, which stores the size of the table, nor on Esp, which counts
\* down for a creation that failed.)
CountIsLive ==
  port \in {"Darwin", "Cc32xx", "Tm4c"} /\ raced = {}
    => threadCount + (IF SomeHasRead THEN 1 ELSE 0)
         = Cardinality({i \in Indices : records[i].status = "Active"})

\* isDeleted() says Success of a thread that runs and that nobody deleted only
\* if its name was used before.
LiveIsNotDeleted ==
  \A t \in DOMAIN tasks : \A i \in Indices :
    records[i].task = t /\ records[i].status = "Active" => IsDeleted(tasks[t].name) = "Negative"

\* joinThread returns once the thread with the name has ended and was deleted
\* ("Blocks the calling thread until the thread given by name terminates").
JoinReturns ==
  \A n \in Names :
    joining.name = n /\ IsDeleted(n) = "Success"
      /\ (\A t \in DOMAIN tasks : tasks[t].name = n => tasks[t].state = "ended")
    ~> joining = NoJoin
=============================================================================
