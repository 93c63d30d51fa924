------------------------- MODULE BlockingCallProofs -------------------------
(***************************************************************************)
(* An event never writes into the frame of a call that has returned, for   *)
(* every number of callers, every capacity of the server's queue and every *)
(* number of calls and of stray unblocks, on the target on which the code  *)
(* is safe: the server has a higher priority than the callers, the flag is *)
(* set before the unblock, and nobody else unblocks a caller that sleeps.  *)
(***************************************************************************)
EXTENDS BlockingCall, TLAPS

Target ==
  /\ Server \in Atomic
  /\ FlagFirst = TRUE
  /\ StrayAt \subseteq {"idle", "test", "block"}

\* The callers' thread records: a caller is marked as blocked only while it
\* sleeps, and one that sleeps unmarked was woken by its own event, whose flag is
\* set.
SleepersWokenByEvent ==
  /\ blockCount \in [Callers -> Int]
  /\ status \in [Callers -> {"Active", "Blocked"}]
  /\ inBlock \in [Callers -> BOOLEAN]
  /\ \A c \in Callers : /\ pc[c] \in {"idle", "test", "block", "asleep"}
                        /\ pc[c] # "asleep" => ~inBlock[c] /\ status[c] = "Active"
                        /\ pc[c] = "asleep" => status[c] = "Blocked" \/ FrameOf(c) \in done

\* An event that waits is of a call that goes on and was not flagged, and no two
\* are of one call.
WaitingAlive ==
  /\ \A i \in 1 .. Len(queue) : InProgress(queue[i]) /\ queue[i] \notin done
  /\ \A i, j \in 1 .. Len(queue) : i # j => queue[i] # queue[j]

\* The event that runs is of such a call, too, until its last step; its flag is
\* set when it comes to the unblock.
RunningAlive ==
  /\ pc[Server] \in {"idle", "serve", "flag", "unblock"}
  /\ pc[Server] # "idle" => current \in Frames /\ InProgress(current)
  /\ pc[Server] \in {"serve", "flag"} =>
        current \notin done /\ \A i \in 1 .. Len(queue) : queue[i] # current
  /\ pc[Server] = "unblock" => current \in done

\* No flag is set for a call that was not made yet.
FlagsOfOldCalls == \A f \in done : f[2] <= calls[f[1]]

Places == {"idle", "test", "block", "asleep", "serve", "flag", "unblock"}

IndInv ==
  /\ pc \in [Callers \cup {Server} -> Places]
  /\ calls \in [Callers -> 0 .. MaxCalls]
  /\ queue \in Seq(Frames)
  /\ done \subseteq Frames
  /\ SleepersWokenByEvent /\ WaitingAlive /\ RunningAlive /\ FlagsOfOldCalls

-----------------------------------------------------------------------------
\* A frame is a caller and the number of one of its calls.
LEMMA FrameType ==
  ASSUME NEW f \in Frames
  PROVE  f[1] \in Callers /\ f[2] \in Int /\ f = <<f[1], f[2]>>
  BY DEF Frames

\* A caller moves only while the server is not in an event: the server is of a
\* higher priority.
LEMMA ServerFirst ==
  ASSUME CallAssumption, Target, IndInv, NEW c \in Callers, MayStep(c)
  PROVE  pc[Server] = "idle"
  BY DEF CallAssumption, Target, IndInv, RunningAlive, MayStep, MidCall

LEMMA InitHolds == ASSUME CallAssumption, Target, Init PROVE IndInv
  <1>1. /\ pc = [t \in Callers \cup {Server} |-> "idle"]
        /\ calls = [c \in Callers |-> 0]
        /\ queue = <<>> /\ done = {} /\ current = <<>>
        /\ blockCount = [t \in Callers |-> 0]
        /\ status     = [t \in Callers |-> "Active"]
        /\ inBlock    = [t \in Callers |-> FALSE]
    BY DEF Init, OS!Init
  <1>2. calls \in [Callers -> 0 .. MaxCalls] /\ queue \in Seq(Frames)
    BY <1>1 DEF CallAssumption
  <1>3. SleepersWokenByEvent
    BY <1>1 DEF SleepersWokenByEvent
  <1>4. WaitingAlive /\ RunningAlive /\ FlagsOfOldCalls
    BY <1>1 DEF WaitingAlive, RunningAlive, FlagsOfOldCalls
  <1> QED
    BY <1>1, <1>2, <1>3, <1>4 DEF IndInv, Places

\* A caller adds the event of a new call, or the queue is full.
LEMMA CallKeeps ==
  ASSUME CallAssumption, Target, IndInv, NEW c \in Callers, Enqueue(c) \/ Refused(c)
  PROVE  IndInv'
  <1> USE DEF IndInv
  <1>0. /\ pc[Server] = "idle" /\ pc'[Server] = "idle" /\ c # Server /\ pc[c] = "idle"
        /\ \A d \in Callers \ {c} : pc'[d] = pc[d]
        /\ pc' \in [Callers \cup {Server} -> Places]
    <2>1. c # Server /\ MayStep(c)
      BY DEF Enqueue, Refused, Goto, CallAssumption
    <2>2. \E p \in Places : pc' = [pc EXCEPT ![c] = p]
      BY DEF Enqueue, Refused, Goto, Places
    <2>3. pc[Server] = "idle" /\ pc[c] = "idle"
      BY <2>1, ServerFirst DEF Enqueue, Refused, Goto
    <2> QED BY <2>1, <2>2, <2>3
  <1>1. /\ done' = done /\ blockCount' = blockCount /\ status' = status
        /\ inBlock' = inBlock /\ current' = current
        /\ calls' = [calls EXCEPT ![c] = @ + 1] /\ calls[c] < MaxCalls
    BY DEF Enqueue, Refused, osVars, workVars
  <1>2. /\ calls' \in [Callers -> 0 .. MaxCalls] /\ calls'[c] = calls[c] + 1
        /\ \A d \in Callers \ {c} : calls'[d] = calls[d]
    BY <1>1 DEF CallAssumption
  <1>3. FlagsOfOldCalls'
    BY <1>1, <1>2, FrameType DEF FlagsOfOldCalls
  <1>4. RunningAlive'
    BY <1>0 DEF RunningAlive
  <1>5. pc'[c] \in {"idle", "test"}
    BY DEF Enqueue, Refused, Goto
  <1>6. SleepersWokenByEvent'
    BY <1>0, <1>1, <1>2, <1>5 DEF SleepersWokenByEvent, FrameOf
  <1> DEFINE Alive(f) == pc'[f[1]] # "idle" /\ f = <<f[1], calls'[f[1]]>>
  <1>7. \A i \in 1 .. Len(queue) :
           queue[i] \in Frames /\ queue[i][1] # c /\ Alive(queue[i])
    <2> SUFFICES ASSUME NEW i \in 1 .. Len(queue)
                 PROVE  queue[i] \in Frames /\ queue[i][1] # c /\ Alive(queue[i])
      OBVIOUS
    <2>1. queue[i] \in Frames /\ queue[i][1] \in Callers
      BY FrameType
    <2>2. queue[i][1] # c
      BY <1>0 DEF WaitingAlive, InProgress
    <2> QED BY <1>0, <1>2, <2>1, <2>2 DEF WaitingAlive, InProgress, FrameOf
  <1>8. CASE Enqueue(c)
    <2> DEFINE f == <<c, calls'[c]>>
    <2>1. f = <<c, calls[c] + 1>> /\ f \in Frames /\ f[1] = c /\ f[2] = calls[c] + 1
      BY <1>1, <1>2 DEF Frames
    <2>2. queue' = Append(queue, f)
      BY <1>8 DEF Enqueue, FrameOf
    <2>3. f \notin done /\ Alive(f)
      <3>1. pc'[c] = "test"
        BY <1>8 DEF Enqueue, Goto
      <3> QED BY <1>2, <2>1, <3>1 DEF FlagsOfOldCalls
    <2>4. \A i \in 1 .. Len(queue) : queue[i] # f
      BY <1>7, <2>1
    <2> HIDE DEF f
    <2>5. /\ queue' \in Seq(Frames) /\ Len(queue') = Len(queue) + 1
          /\ \A k \in 1 .. Len(queue') : IF k \in 1 .. Len(queue) THEN queue'[k] = queue[k]
                                          ELSE k = Len(queue) + 1 /\ queue'[k] = f
      BY <2>1, <2>2
    <2>6. \A i \in 1 .. Len(queue') : Alive(queue'[i]) /\ queue'[i] \notin done'
      BY <1>1, <1>7, <2>3, <2>5 DEF WaitingAlive
    <2>7. \A i, j \in 1 .. Len(queue') : i # j => queue'[i] # queue'[j]
      BY <2>4, <2>5 DEF WaitingAlive
    <2>8. WaitingAlive'
      BY <2>6, <2>7 DEF WaitingAlive, InProgress, FrameOf
    <2> QED BY <1>0, <1>1, <1>2, <1>3, <1>4, <1>6, <2>5, <2>8
  <1>9. CASE Refused(c)
    <2>1. queue' = queue
      BY <1>9 DEF Refused, workVars
    <2>2. WaitingAlive'
      BY <1>1, <1>7, <2>1 DEF WaitingAlive, InProgress, FrameOf
    <2> QED BY <1>0, <1>1, <1>2, <1>3, <1>4, <1>6, <2>1, <2>2
  <1> QED BY <1>8, <1>9

\* A caller on its way through the loop: it ends its call only when its flag is
\* set, and then none of the events that wait is its own.
LEMMA LoopKeeps ==
  ASSUME CallAssumption, Target, IndInv, NEW c \in Callers, Continue(c)
  PROVE  IndInv'
  <1> USE DEF IndInv
  <1>0. c # Server /\ MayStep(c) /\ pc[Server] = "idle"
    <2>1. c # Server /\ MayStep(c)
      BY DEF Continue, SeeDone, SeeNotDone, Sleep, DoNotSleep, WakeUp, Goto, CallAssumption
    <2> QED BY <2>1, ServerFirst
  <1>1. /\ calls' = calls /\ queue' = queue /\ current' = current /\ done' = done
    BY DEF Continue, SeeDone, SeeNotDone, Sleep, DoNotSleep, WakeUp, ReturnFrom,
           callVars, workVars
  <1>2. PICK p \in {"idle", "test", "block", "asleep"} : pc' = [pc EXCEPT ![c] = p]
    BY DEF Continue, SeeDone, SeeNotDone, Sleep, DoNotSleep, WakeUp, Goto
  <1>3. /\ pc'[Server] = "idle" /\ pc'[c] = p
        /\ \A d \in Callers \ {c} : pc'[d] = pc[d]
        /\ pc' \in [Callers \cup {Server} -> Places]
    BY <1>0, <1>2 DEF Places
  <1>4. RunningAlive' /\ FlagsOfOldCalls'
    BY <1>1, <1>3 DEF RunningAlive, FlagsOfOldCalls
  <1>5. SleepersWokenByEvent' /\ (p = "idle" => FrameOf(c) \in done)
    <2> USE <1>0, <1>1, <1>2, <1>3 DEF SleepersWokenByEvent, FrameOf
    <2>1. CASE SeeDone(c)
      BY <2>1 DEF SeeDone, Goto, osVars
    <2>2. CASE SeeNotDone(c)
      BY <2>2 DEF SeeNotDone, Goto, osVars
    <2>3. CASE Sleep(c)
      BY <2>3 DEF Sleep, Goto, OS!Sleep
    <2>4. CASE DoNotSleep(c)
      BY <2>4 DEF DoNotSleep, Goto, OS!TakePending
    <2>5. CASE WakeUp(c)
      BY <2>5 DEF WakeUp, Goto, OS!Wake
    <2> QED BY <2>1, <2>2, <2>3, <2>4, <2>5 DEF Continue
  <1>6. WaitingAlive'
    <2>1. ASSUME NEW i \in 1 .. Len(queue)
          PROVE  pc'[queue[i][1]] # "idle" /\ queue[i] = <<queue[i][1], calls[queue[i][1]]>>
      <3>1. queue[i][1] \in Callers /\ InProgress(queue[i]) /\ queue[i] \notin done
        BY FrameType DEF WaitingAlive
      <3>2. CASE queue[i][1] # c
        BY <1>3, <3>1, <3>2 DEF InProgress, FrameOf
      <3>3. CASE queue[i][1] = c
        BY <1>3, <1>5, <3>1, <3>3 DEF InProgress, FrameOf
      <3> QED BY <3>2, <3>3
    <2> QED BY <1>1, <2>1 DEF WaitingAlive, InProgress, FrameOf
  <1> QED BY <1>1, <1>3, <1>4, <1>5, <1>6

\* An unblock from elsewhere does not wake a caller, for it does not sleep.
LEMMA StrayKeeps ==
  ASSUME CallAssumption, Target, IndInv, NEW c \in Callers, Stray(c)
  PROVE  IndInv'
  <1> USE DEF IndInv
  <1>1. /\ pc' = pc /\ calls' = calls /\ queue' = queue /\ current' = current /\ done' = done
    BY DEF Stray, callVars, workVars
  <1>2. pc[c] # "asleep"
    BY DEF Stray, Target
  <1>3. SleepersWokenByEvent'
    BY <1>1, <1>2 DEF SleepersWokenByEvent, FrameOf, Stray, OS!Unblock
  <1> QED
    BY <1>1, <1>3 DEF WaitingAlive, RunningAlive, FlagsOfOldCalls, InProgress, FrameOf

\* The server takes the event at the head; it sets the flag of that call alone;
\* and it unblocks the caller of that call, whose flag is set by then.
LEMMA EventKeeps ==
  ASSUME CallAssumption, Target, IndInv, RunEvents
  PROVE  IndInv'
  <1> USE DEF IndInv
  <1>0. PICK p \in {"idle", "serve", "flag", "unblock"} : pc' = [pc EXCEPT ![Server] = p]
    BY DEF RunEvents, BeginEvent, Serve, SetDone, UnblockCaller, EndEvent, Goto, Target
  <1>1. /\ calls' = calls /\ pc'[Server] = p
        /\ \A c \in Callers : pc'[c] = pc[c]
        /\ pc' \in [Callers \cup {Server} -> Places]
    BY <1>0 DEF CallAssumption, Places, RunEvents, BeginEvent, Serve, SetDone,
                UnblockCaller, callVars
  <1>2. ASSUME NEW f \in Frames PROVE InProgress(f) <=> (InProgress(f))'
    BY <1>1, FrameType DEF InProgress, FrameOf
  <1>3. CASE BeginEvent
    <2>1. /\ queue # <<>> /\ current' = Head(queue) /\ queue' = Tail(queue)
          /\ done' = done /\ p = "serve"
          /\ blockCount' = blockCount /\ status' = status /\ inBlock' = inBlock
      BY <1>1, <1>3 DEF BeginEvent, Goto, osVars
    <2>2. /\ queue' \in Seq(Frames) /\ Len(queue') = Len(queue) - 1
          /\ \A k \in 1 .. Len(queue') : k + 1 \in 1 .. Len(queue) /\ queue'[k] = queue[k + 1]
          /\ 1 \in 1 .. Len(queue) /\ current' = queue[1] /\ current' \in Frames
      BY <2>1
    <2>3. SleepersWokenByEvent' /\ FlagsOfOldCalls'
      BY <1>1, <2>1 DEF SleepersWokenByEvent, FrameOf, FlagsOfOldCalls
    <2>4. \A k \in 1 .. Len(queue) : queue[k] \in Frames /\ queue[k] \notin done
                                      /\ pc'[queue[k][1]] # "idle"
                                      /\ queue[k] = <<queue[k][1], calls'[queue[k][1]]>>
      BY <1>1, FrameType DEF WaitingAlive, InProgress, FrameOf
    <2>5. WaitingAlive'
      BY <2>1, <2>2, <2>4 DEF WaitingAlive, InProgress, FrameOf
    <2>6. RunningAlive'
      BY <1>1, <2>1, <2>2, <2>4 DEF RunningAlive, WaitingAlive, InProgress, FrameOf
    <2> QED BY <1>1, <2>1, <2>2, <2>3, <2>5, <2>6
  <1>4. CASE Serve
    <2>1. /\ current' = current /\ queue' = queue /\ done' = done /\ p = "flag"
          /\ pc[Server] = "serve"
          /\ blockCount' = blockCount /\ status' = status /\ inBlock' = inBlock
      BY <1>1, <1>4 DEF Serve, Goto, osVars, Target
    <2>2. SleepersWokenByEvent' /\ FlagsOfOldCalls'
      BY <1>1, <2>1 DEF SleepersWokenByEvent, FrameOf, FlagsOfOldCalls
    <2>3. WaitingAlive' /\ RunningAlive'
      BY <1>1, <2>1, FrameType DEF WaitingAlive, RunningAlive, InProgress, FrameOf
    <2> QED BY <1>1, <2>1, <2>2, <2>3
  <1>5. CASE SetDone
    <2>1. /\ current' = current /\ queue' = queue /\ done' = done \cup {current}
          /\ p = "unblock" /\ pc[Server] = "flag" /\ current \in Frames
          /\ blockCount' = blockCount /\ status' = status /\ inBlock' = inBlock
      BY <1>1, <1>5 DEF SetDone, EndEvent, Goto, osVars, Target, RunningAlive
    <2>2. SleepersWokenByEvent'
      BY <1>1, <2>1 DEF SleepersWokenByEvent, FrameOf
    <2>3. current[2] <= calls[current[1]]
      <3>1. current[1] \in Callers /\ current = <<current[1], calls[current[1]]>>
        BY <2>1, FrameType DEF RunningAlive, InProgress, FrameOf
      <3>2. current[2] = calls[current[1]] /\ calls[current[1]] \in Int
        BY <3>1 DEF CallAssumption
      <3> QED BY <3>2
    <2>4. FlagsOfOldCalls'
      BY <1>1, <2>1, <2>3 DEF FlagsOfOldCalls
    <2>5. WaitingAlive' /\ RunningAlive'
      BY <1>1, <2>1, FrameType DEF WaitingAlive, RunningAlive, InProgress, FrameOf
    <2> QED BY <1>1, <2>1, <2>2, <2>4, <2>5
  <1>6. CASE UnblockCaller
    <2>1. /\ queue' = queue /\ done' = done /\ p = "idle" /\ pc[Server] = "unblock"
          /\ OS!Unblock(current[1])
      BY <1>1, <1>6 DEF UnblockCaller, EndEvent, Goto, Target
    <2>2. current[1] \in Callers /\ FrameOf(current[1]) \in done
      BY <2>1, FrameType DEF RunningAlive, InProgress
    <2>3. SleepersWokenByEvent'
      <3>1. PICK d \in Callers : d = current[1] /\ <<d, calls[d]>> \in done
        BY <2>2 DEF FrameOf
      <3>2. /\ blockCount' = [blockCount EXCEPT ![d] = @ - 1] /\ inBlock' = inBlock
            /\ status' = [status EXCEPT ![d] = IF @ = "Blocked" THEN "Active" ELSE @]
        BY <2>1, <3>1 DEF OS!Unblock
      <3>3. blockCount' \in [Callers -> Int] /\ inBlock' \in [Callers -> BOOLEAN]
        BY <3>1, <3>2 DEF SleepersWokenByEvent
      <3>4. /\ status' \in [Callers -> {"Active", "Blocked"}] /\ status'[d] = "Active"
            /\ \A c \in Callers \ {d} : status'[c] = status[c]
        BY <3>1, <3>2 DEF SleepersWokenByEvent
      <3>5. \A c \in Callers :
               /\ pc'[c] \in {"idle", "test", "block", "asleep"}
               /\ pc'[c] # "asleep" => ~inBlock'[c] /\ status'[c] = "Active"
               /\ pc'[c] = "asleep" => status'[c] = "Blocked" \/ <<c, calls'[c]>> \in done'
        <4> SUFFICES ASSUME NEW c \in Callers
                     PROVE  /\ pc[c] \in {"idle", "test", "block", "asleep"}
                            /\ pc[c] # "asleep" => ~inBlock[c] /\ status'[c] = "Active"
                            /\ pc[c] = "asleep" => status'[c] = "Blocked" \/ <<c, calls[c]>> \in done
          BY <1>1, <2>1, <3>2
        <4>1. CASE c = d
          BY <3>1, <3>4, <4>1 DEF SleepersWokenByEvent
        <4>2. CASE c # d
          BY <3>4, <4>2 DEF SleepersWokenByEvent, FrameOf
        <4> QED BY <4>1, <4>2
      <3> QED
        BY <3>3, <3>4, <3>5 DEF SleepersWokenByEvent, FrameOf
    <2>4. WaitingAlive'
      BY <1>1, <2>1, FrameType DEF WaitingAlive, InProgress, FrameOf
    <2>5. RunningAlive' /\ FlagsOfOldCalls'
      BY <1>1, <2>1 DEF RunningAlive, FlagsOfOldCalls
    <2> QED BY <1>1, <2>1, <2>3, <2>4, <2>5
  <1> QED BY <1>3, <1>4, <1>5, <1>6 DEF RunEvents

LEMMA FramesInductive ==
  ASSUME Target
  PROVE  Spec => []IndInv
  <1> USE CallAssumption
  <1>1. Init => IndInv
    BY InitHolds
  <1>2. IndInv /\ [Next]_vars => IndInv'
    <2> SUFFICES ASSUME IndInv, [Next]_vars PROVE IndInv'
      OBVIOUS
    <2>1. CASE UNCHANGED vars
      BY <2>1 DEF vars, callVars, workVars, osVars, IndInv, SleepersWokenByEvent,
                  WaitingAlive, RunningAlive, FlagsOfOldCalls, InProgress, FrameOf
    <2>2. CASE Next
      BY <2>2, CallKeeps, LoopKeeps, StrayKeeps, EventKeeps DEF Next
    <2> QED BY <2>1, <2>2
  <1> QED BY <1>1, <1>2, PTL DEF Spec

\* On that target an event that waits, or still has to write, belongs to a call that
\* has not returned (IpClient, IpServer, FileSystem: events capture the frame of the
\* caller by reference), whatever the numbers of callers, places and calls are.
THEOREM EventsWriteIntoLiveFrames ==
  ASSUME Target
  PROVE  Spec => []FramesAlive
  <1>1. IndInv => FramesAlive
    BY DEF IndInv, WaitingAlive, RunningAlive, FramesAlive
  <1> QED BY <1>1, FramesInductive, PTL

-----------------------------------------------------------------------------
(* The calls implement SynchronousCall.                                    *)

\* A flag is set only for a call whose result is stored; an event that waits or has
\* just begun has stored nothing yet.
ResultsComeFirst ==
  /\ served \subseteq Frames /\ done \subseteq served
  /\ \A f \in served : f[2] <= calls[f[1]]
  /\ \A i \in 1 .. Len(queue) : queue[i] \notin served
  /\ pc[Server] = "serve" => current \notin served
  /\ pc[Server] = "flag" => current \in served

\* A caller that ends its call finds its flag set.
LEMMA EndsWhenDone ==
  ASSUME CallAssumption, Target, IndInv, NEW c \in Callers, SeeDone(c) \/ WakeUp(c)
  PROVE  FrameOf(c) \in done
  BY DEF SeeDone, WakeUp, Goto, OS!Wake, IndInv, SleepersWokenByEvent

\* What the steps of the callers and of the server change in a call's phase.
LEMMA CallStep ==
  ASSUME CallAssumption, Target, IndInv, ResultsComeFirst, NEW c \in Callers,
         Enqueue(c) \/ Refused(c)
  PROVE  ResultsComeFirst' /\ (Call!Begin(c) \/ Call!Refuse(c))
  <1> USE DEF IndInv, ResultsComeFirst
  <1>1. /\ c # Server /\ MayStep(c) /\ pc[c] = "idle" /\ pc[Server] = "idle"
        /\ pc \in [Callers \cup {Server} -> Places]
    <2>1. MayStep(c)
      BY DEF Enqueue, Refused, Goto
    <2> QED BY <2>1, ServerFirst DEF Enqueue, Refused, Goto, CallAssumption
  <1>2. /\ done' = done /\ served' = served /\ current' = current
        /\ calls' = [calls EXCEPT ![c] = @ + 1] /\ calls[c] < MaxCalls
    BY DEF Enqueue, Refused, workVars
  <1>3. /\ calls'[c] = calls[c] + 1 /\ calls[c] \in Nat
        /\ \A d \in Callers \ {c} : calls'[d] = calls[d]
    BY <1>2 DEF CallAssumption
  <1>4. \A f \in served : f \in Frames /\ f[2] \in Int /\ f[1] \in Callers
    BY FrameType
  <1>5. \A f \in served : f[2] <= calls'[f[1]] /\ f # <<c, calls[c] + 1>>
    BY <1>3, <1>4
  <1>6. CASE Enqueue(c)
    <2>1. /\ pc' = [pc EXCEPT ![c] = "test"] /\ outcome' = outcome
          /\ queue' = Append(queue, <<c, calls[c] + 1>>)
      BY <1>3, <1>6 DEF Enqueue, Goto, FrameOf
    <2>2. /\ pc'[Server] = "idle" /\ pc'[c] = "test"
          /\ \A d \in Callers \ {c} : pc'[d] = pc[d]
      BY <1>1, <2>1
    <2>3. \A i \in 1 .. Len(queue') : queue'[i] \notin served
      BY <1>5, <2>1
    <2>4. Phase'[c] = "pending" /\ \A d \in Callers \ {c} : Phase'[d] = Phase[d]
      BY <1>2, <1>3, <1>5, <2>2 DEF Phase, FrameOf
    <2>5. Phase' = [Phase EXCEPT ![c] = "pending"]
      BY <2>4 DEF Phase
    <2>6. Call!Begin(c)
      BY <1>1, <2>1, <2>5 DEF Call!Begin, Phase
    <2> QED BY <1>2, <1>5, <2>2, <2>3, <2>6
  <1>7. CASE Refused(c)
    <2>1. /\ pc' = pc /\ queue' = queue
          /\ outcome' = [outcome EXCEPT ![c] = "LimitReached"]
      BY <1>1, <1>7 DEF Refused, Goto, workVars
    <2>2. Phase' = Phase
      BY <1>1, <1>2, <1>3, <2>1 DEF Phase, FrameOf
    <2>3. Call!Refuse(c)
      BY <1>1, <2>1, <2>2 DEF Call!Refuse, Phase
    <2> QED BY <1>2, <1>5, <2>1, <2>3
  <1> QED BY <1>6, <1>7

LEMMA LoopStep ==
  ASSUME CallAssumption, Target, IndInv, ResultsComeFirst, NEW c \in Callers, Continue(c)
  PROVE  ResultsComeFirst' /\ (Call!Return(c) \/ UNCHANGED <<Phase, outcome>>)
  <1> USE DEF IndInv
  <1>1. c # Server /\ pc \in [Callers \cup {Server} -> Places]
    BY DEF CallAssumption
  <1>2. calls' = calls /\ queue' = queue /\ current' = current /\ done' = done /\ served' = served
    BY DEF Continue, SeeDone, SeeNotDone, Sleep, DoNotSleep, WakeUp, ReturnFrom,
           callVars, workVars
  <1>3. PICK p \in {"idle", "test", "block", "asleep"} : pc' = [pc EXCEPT ![c] = p]
    BY DEF Continue, SeeDone, SeeNotDone, Sleep, DoNotSleep, WakeUp, Goto
  <1>4. pc'[Server] = pc[Server] /\ pc'[c] = p /\ \A d \in Callers \ {c} : pc'[d] = pc[d]
    BY <1>1, <1>3
  <1>5. ResultsComeFirst'
    BY <1>2, <1>4 DEF ResultsComeFirst
  <1>6. CASE SeeDone(c) \/ WakeUp(c)
    <2>1. FrameOf(c) \in served
      BY <1>6, EndsWhenDone DEF ResultsComeFirst
    <2>2. pc[c] # "idle" /\ pc' = [pc EXCEPT ![c] = "idle"]
          /\ outcome' = [outcome EXCEPT ![c] = "Result"]
      BY <1>6, <2>1 DEF SeeDone, WakeUp, Goto, ReturnFrom
    <2>3. Phase'[c] = "idle" /\ \A d \in Callers \ {c} : Phase'[d] = Phase[d]
      BY <1>1, <1>2, <2>2 DEF Phase, FrameOf
    <2>4. Phase' = [Phase EXCEPT ![c] = "idle"] /\ Phase[c] = "served"
      BY <2>1, <2>2, <2>3 DEF Phase
    <2> QED BY <1>5, <2>2, <2>4 DEF Call!Return
  <1>7. CASE SeeNotDone(c) \/ Sleep(c) \/ DoNotSleep(c)
    <2>1. pc[c] # "idle" /\ p # "idle" /\ outcome' = outcome
      BY <1>4, <1>7 DEF SeeNotDone, Sleep, DoNotSleep, Goto, callVars
    <2>2. \A d \in Callers : Phase'[d] = Phase[d]
      BY <1>2, <1>4, <2>1 DEF Phase, FrameOf
    <2>3. Phase' = Phase
      BY <2>2 DEF Phase
    <2> QED BY <1>5, <2>1, <2>3
  <1> QED BY <1>6, <1>7 DEF Continue

LEMMA EventStep ==
  ASSUME CallAssumption, Target, IndInv, ResultsComeFirst, RunEvents
  PROVE  /\ ResultsComeFirst'
         /\ UNCHANGED <<Phase, outcome>> \/ \E c \in Callers : Call!Serve(c)
  <1> USE DEF IndInv
  <1>1. PICK p \in {"idle", "serve", "flag", "unblock"} : pc' = [pc EXCEPT ![Server] = p]
    BY DEF RunEvents, BeginEvent, Serve, SetDone, UnblockCaller, EndEvent, Goto, Target
  <1>2. pc'[Server] = p /\ \A c \in Callers : pc'[c] = pc[c]
    BY <1>1 DEF CallAssumption
  <1>3. calls' = calls /\ outcome' = outcome
    BY DEF RunEvents, BeginEvent, Serve, SetDone, UnblockCaller, callVars
  <1>4. CASE Serve
    <2>1. /\ pc[Server] = "serve" /\ p = "flag" /\ served' = served \cup {current}
          /\ UNCHANGED <<queue, current, done>>
      BY <1>2, <1>4 DEF Serve, Goto, Target
    <2>2. /\ current \in Frames /\ InProgress(current) /\ current \notin served
          /\ \A i \in 1 .. Len(queue) : queue[i] # current
      BY <2>1 DEF RunningAlive, ResultsComeFirst
    <2>3. PICK c \in Callers : current = <<c, calls[c]>> /\ pc[c] # "idle"
      BY <2>2, FrameType DEF InProgress, FrameOf
    <2>4. ResultsComeFirst'
      <3>1. current[2] <= calls[current[1]]
        BY <2>3 DEF CallAssumption
      <3> QED BY <1>2, <1>3, <2>1, <2>2, <3>1 DEF ResultsComeFirst
    <2>5. Phase[c] = "pending" /\ Phase'[c] = "served"
      BY <1>2, <1>3, <2>1, <2>2, <2>3 DEF Phase, FrameOf
    <2>6. \A d \in Callers \ {c} : Phase'[d] = Phase[d]
      BY <1>2, <1>3, <2>1, <2>3 DEF Phase, FrameOf
    <2>7. Phase' = [Phase EXCEPT ![c] = "served"]
      BY <2>5, <2>6 DEF Phase
    <2> QED BY <1>3, <2>4, <2>5, <2>7 DEF Call!Serve
  <1>5. CASE BeginEvent \/ SetDone \/ UnblockCaller
    <2>1. served' = served
      BY <1>5 DEF BeginEvent, SetDone, UnblockCaller
    <2>2. Phase' = Phase
      BY <1>2, <1>3, <2>1 DEF Phase, FrameOf
    <2>3. CASE BeginEvent
      <3>1. /\ queue # <<>> /\ current' = Head(queue) /\ queue' = Tail(queue) /\ p = "serve"
            /\ done' = done
        BY <1>2, <2>3 DEF BeginEvent, Goto
      <3>2. /\ current' = queue[1] /\ 1 \in 1 .. Len(queue)
            /\ \A k \in 1 .. Len(queue') : k + 1 \in 1 .. Len(queue) /\ queue'[k] = queue[k + 1]
        BY <3>1
      <3> QED BY <1>2, <1>3, <2>1, <2>2, <3>1, <3>2 DEF ResultsComeFirst
    <2>4. CASE SetDone
      <3>1. /\ pc[Server] = "flag" /\ p = "unblock" /\ done' = done \cup {current}
            /\ UNCHANGED <<queue, current>>
        BY <1>2, <2>4 DEF SetDone, EndEvent, Goto, Target
      <3> QED BY <1>2, <1>3, <2>1, <2>2, <3>1 DEF ResultsComeFirst
    <2>5. CASE UnblockCaller
      <3>1. p = "idle" /\ UNCHANGED <<queue, done>>
        BY <1>2, <2>5 DEF UnblockCaller, EndEvent, Goto, Target
      <3> QED BY <1>2, <1>3, <2>1, <2>2, <3>1 DEF ResultsComeFirst
    <2> QED BY <1>5, <2>3, <2>4, <2>5
  <1> QED BY <1>4, <1>5 DEF RunEvents

\* On that target a blocking operation implements SynchronousCall: a call that was
\* accepted returns only when it was carried out and then with its result, for every
\* number of callers, places and calls.
THEOREM CallsAreSynchronous ==
  ASSUME Target
  PROVE  Spec => ImplementsCall
  <1> USE CallAssumption
  <1>1. Init => ResultsComeFirst /\ Call!Init
    <2> SUFFICES ASSUME Init PROVE ResultsComeFirst /\ Call!Init
      OBVIOUS
    <2>1. \A t \in Callers \cup {Server} : pc[t] = "idle"
      BY DEF Init
    <2> QED BY <2>1 DEF Init, ResultsComeFirst, Call!Init, Phase
  <1>2. /\ IndInv /\ ResultsComeFirst /\ [Next]_vars
        => ResultsComeFirst' /\ [Call!Next]_(Call!vars)
    <2> SUFFICES ASSUME IndInv, ResultsComeFirst, [Next]_vars
                 PROVE  ResultsComeFirst' /\ [Call!Next]_(Call!vars)
      OBVIOUS
    <2>1. UNCHANGED <<Phase, outcome>> => UNCHANGED Call!vars
      BY DEF Call!vars
    <2>2. ASSUME NEW c \in Callers, Enqueue(c) \/ Refused(c) \/ Continue(c)
          PROVE  ResultsComeFirst' /\ [Call!Next]_(Call!vars)
      BY <2>1, <2>2, CallStep, LoopStep DEF Call!Next
    <2>3. ASSUME NEW c \in Callers, Stray(c)
          PROVE  ResultsComeFirst' /\ [Call!Next]_(Call!vars)
      BY <2>1, <2>3
      DEF Stray, callVars, workVars, ResultsComeFirst, Phase, FrameOf
    <2>4. CASE RunEvents
      BY <2>1, <2>4, EventStep DEF Call!Next
    <2>5. CASE UNCHANGED vars
      BY <2>1, <2>5 DEF vars, callVars, workVars, ResultsComeFirst, Phase, FrameOf
    <2> QED BY <2>2, <2>3, <2>4, <2>5 DEF Next
  <1> QED BY <1>1, <1>2, FramesInductive, PTL DEF Spec, ImplementsCall, Call!Spec
=============================================================================
