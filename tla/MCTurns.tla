------------------------------ MODULE MCTurns -------------------------------
(***************************************************************************)
(* The two queues on ports without preemption: a call of addEvent,         *)
(* addToQueue, runNextEvent or getNextInQueue runs to its end or to where  *)
(* it sleeps. The two do not share state: a behaviour is one of one of     *)
(* them.                                                                   *)
(***************************************************************************)
EXTENDS EventQueue, TLC

\* Of the queue of commands: the threads that add and that get, the places of the ring,
\* and the bounds of what is in it and of what each thread adds.
CONSTANTS Adders, Getters, CommandCapacity, CommandRoom, CommandAdds

VARIABLE part   \* the component whose behaviour this is; the other stands still

VARIABLES commandsSlots, commandsFirst, commandsLast, commandsClaimed, commandsReady,
    commandsWaiting, commandsPc, commandsIndex, commandsMore, place, commandsAdds,
    commandsAccepted, removed, commandsAgain, got, commandsBlockCount, commandsStatus,
    commandsInBlock, commandsResult
K == INSTANCE CommandQueue WITH slots <- commandsSlots, first <- commandsFirst,
    last <- commandsLast, claimed <- commandsClaimed, ready <- commandsReady,
    waiting <- commandsWaiting, pc <- commandsPc, index <- commandsIndex,
    more <- commandsMore, again <- commandsAgain, adds <- commandsAdds,
    accepted <- commandsAccepted, blockCount <- commandsBlockCount, status <- commandsStatus,
    inBlock <- commandsInBlock, result <- commandsResult, Producers <- Adders,
    Consumers <- Getters, Capacity <- CommandCapacity, Room <- CommandRoom,
    MaxAdds <- CommandAdds, Atomic <- Adders \cup Getters
commandsVars == <<commandsSlots, commandsFirst, commandsLast, commandsClaimed,
    commandsReady, commandsWaiting, commandsPc, commandsIndex, commandsMore, place,
    commandsAdds, commandsAccepted, removed, commandsAgain, got, commandsBlockCount,
    commandsStatus, commandsInBlock, commandsResult>>

ASSUME Parameters == K!CommandAssumption /\ K!NoneAssumption

commandsIdle == commandsSlots = 0 /\ commandsFirst = 0 /\ commandsLast = 0 /\
    commandsClaimed = 0 /\ commandsReady = 0 /\ commandsWaiting = 0 /\ commandsPc = 0 /\
    commandsIndex = 0 /\ commandsMore = 0 /\ place = 0 /\ commandsAdds = 0 /\
    commandsAccepted = 0 /\ removed = 0 /\ commandsAgain = 0 /\ got = 0 /\
    commandsBlockCount = 0 /\ commandsStatus = 0 /\ commandsInBlock = 0 /\ commandsResult = 0

\* The variables of the part "events" stay in their initial state when the other runs.
PartInit ==
    /\ part \in {"events", "commands"}
    /\ Init
    /\ IF part = "commands" THEN K!Init ELSE commandsIdle

EventsStep == part = "events" /\ Next /\ UNCHANGED <<part, commandsVars>>
CommandsStep == part = "commands" /\ K!Next /\ UNCHANGED <<part, vars>>

PartNext == EventsStep \/ CommandsStep
allVars == <<part, vars, commandsVars>>
\* Of the component that runs: every thread that is in a call is scheduled, the owner
\* of the event queue calls runNextEvent for ever, a consumer of commands gets again
\* and again, and its compare and exchange does not fail without end.
PartFairness ==
    /\ WF_vars(part = "events" /\ RunNextEvent)
    /\ \A p \in Producers : WF_vars(part = "events" /\ pc[p] # "idle" /\ AddEvent(p))
    /\ \A p \in Adders :
          WF_commandsVars(part = "commands" /\ commandsPc[p] # "idle" /\ K!AddToQueue(p))
    /\ \A c \in Getters :
          /\ WF_commandsVars(part = "commands" /\ commandsPc[c] # "idle"
                                /\ (K!GetNextInQueue(c) \/ K!WaitForCommands(c)))
          /\ SF_commandsVars(part = "commands" /\ K!SeeReady(c))
          /\ SF_commandsVars(part = "commands" /\ K!Advance(c))
PartSpec == PartInit /\ [][PartNext]_allVars /\ PartFairness

-----------------------------------------------------------------------------
\* Whenever a command waits in its ring the ready flag is set and nobody sleeps on it
\* with no unblock pending (NobodyOversleeps says the same of the events).
ConsumersDoNotOversleep == part = "commands" => K!ReadyWhenWaiting /\ K!NoSleepOnCommands

\* Every event that addEvent accepts is run by the owner, and every command that
\* addToQueue accepts is returned to a consumer.
EveryAcceptedIsServed ==
    /\ EveryAcceptedRuns
    /\ \A m \in K!Commands :
          (part = "commands" /\ \E i \in DOMAIN commandsAccepted : commandsAccepted[i] = m)
            ~> (part = "commands" /\ \E i \in DOMAIN got : got[i] = m)
=============================================================================
