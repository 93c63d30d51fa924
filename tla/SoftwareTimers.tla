--------------------------- MODULE SoftwareTimers ---------------------------
(***************************************************************************)
(* The timers of the five ports of the operating system: create-, delete-, *)
(* start- and stopTimer and callTimerCallback, which the platform calls    *)
(* from a context of its own when a timer expires.                         *)
(*                                                                         *)
(* The timers are kept in a map that is ordered by the platform's handle,  *)
(* here a number.  Most loops over it do not advance: they return only if  *)
(* the first entry is the one that is looked for.  A context that such a   *)
(* loop holds is stuck.  An expiry that was handed to its context carries  *)
(* the handle, and may be served after the timer was deleted, and after    *)
(* another timer was given its handle.                                     *)
(***************************************************************************)
EXTENDS Integers, FiniteSetsExt

CONSTANTS
  Ports,       \* the ports that are looked at
  Overlap,     \* whether a timer may be deleted while its callback runs
  MaxHandles,  \* handles of the platform, which it uses again
  MaxIds       \* bound: timers created

SoftwareTimersAssumption ==
  /\ Ports \subseteq {"Linux", "Darwin", "Esp", "Cc32xx", "Tm4c"}
  /\ Overlap \in BOOLEAN /\ MaxHandles \in Nat \ {0} /\ MaxIds \in Nat \ {0}

VARIABLES
  port,       \* the port of this behaviour, constant
  timers,     \* OperatingSystem::timers, a function on the handles in use
  nextId,     \* nextTimerId
  armed,      \* the handles whose timer runs in the platform
  suspended,  \* Darwin: how often dispatch_suspend outnumbers dispatch_resume
  expired,    \* expiries handed to the context of the timers, not yet served
  calling,    \* the expiry whose callback runs
  fired,      \* observation: the timer of the last callback and of its expiry
  overtaken,  \* observation: timers whose handle was given again while an expiry
              \* of theirs was on its way
  stuck       \* the contexts that are in a loop for ever

vars == <<port, timers, nextId, armed, suspended, expired, calling, fired, overtaken,
  stuck>>

Handles == 1 .. MaxHandles
Ids     == 0 .. MaxIds - 1
Nothing == [handle |-> 0, id |-> 0]
Entry   == [id : Ids, autoReload : BOOLEAN, isSuspended : BOOLEAN, isResumed : BOOLEAN]
InUse   == DOMAIN timers
HandleOf(id) == {h \in InUse : timers[h].id = id}
Without(m, h) == [k \in DOMAIN m \ {h} |-> m[k]]

\* The map with an entry for h, which an entry that is there already keeps out.
With(m, h, entry) == [k \in DOMAIN m \cup {h} |-> IF k \in DOMAIN m THEN m[k] ELSE entry]

\* The loops of these functions do not advance their iterator.
DeleteStalls == port # "Darwin"
StopStalls   == port # "Darwin"
StartStalls  == port = "Cc32xx"

\* Where such a loop ends in the map m: at the first entry or never.
AtFirst(m, id) == m[Min(DOMAIN m)].id = id

Init ==
  /\ port \in Ports
  /\ timers = <<>>
  /\ nextId = 0
  /\ armed = {}
  /\ suspended = [h \in Handles |-> 0]
  /\ expired = {}
  /\ calling = Nothing
  /\ fired = [expired |-> 0, called |-> 0]
  /\ overtaken = {}
  /\ stuck = {}

\* What timers[] makes of a handle it does not have.
Empty == [id |-> 0, autoReload |-> FALSE, isSuspended |-> FALSE, isResumed |-> FALSE]

\* createTimer.  The platform gives any handle that no timer has.
CreateTimer(h, reload) ==
  /\ "user" \notin stuck /\ nextId < MaxIds
  /\ h \notin InUse
  /\ timers' = With(timers, h, [id |-> nextId, autoReload |-> reload,
                                 isSuspended |-> FALSE, isResumed |-> TRUE])
  /\ nextId' = nextId + 1
  /\ overtaken' = overtaken \cup {e.id : e \in {x \in expired : x.handle = h}}
  /\ UNCHANGED <<port, armed, suspended, expired, calling, fired, stuck>>

\* deleteTimer(id) on the map m, called in the context c.
DeleteFrom(m, id, c) ==
  LET found == {h \in DOMAIN m : m[h].id = id}
      gone  == IF DeleteStalls THEN Min(DOMAIN m) ELSE Min(found)
  IN  IF DOMAIN m # {} /\ DeleteStalls /\ ~AtFirst(m, id)
      THEN timers' = m /\ stuck' = stuck \cup {c} /\ UNCHANGED <<armed, suspended>>
      ELSE IF found = {} THEN timers' = m /\ UNCHANGED <<armed, suspended, stuck>>
      ELSE /\ timers' = Without(m, gone)
           /\ armed' = armed \ {gone}
           /\ suspended' = [suspended EXCEPT ![gone] = IF m[gone].isSuspended THEN @ - 1 ELSE @]
           /\ UNCHANGED stuck

DeleteTimer(id) ==
  /\ "user" \notin stuck
  /\ Overlap \/ calling.handle \notin HandleOf(id)
  /\ DeleteFrom(timers, id, "user")
  /\ UNCHANGED <<port, nextId, expired, calling, fired, overtaken>>

\* createTimer of FreeRTOS when the platform has no timer: it deletes the timer
\* whose id happens to be in the caller's variable.  The id is used up.
CreateFails(id) ==
  /\ port \in {"Esp", "Cc32xx", "Tm4c"}
  /\ "user" \notin stuck /\ nextId < MaxIds
  /\ nextId' = nextId + 1
  /\ DeleteFrom(timers, id, "user")
  /\ UNCHANGED <<port, expired, calling, fired, overtaken>>

\* Mutant of StartTimer: the timer stays marked as suspended.
StartStillSuspended(id) ==
  /\ "user" \notin stuck /\ HandleOf(id) # {}
  /\ \E h \in HandleOf(id) :
       /\ armed' = armed \cup {h}
       /\ timers' = [timers EXCEPT ![h].isResumed = TRUE]
       /\ suspended' = [suspended EXCEPT ![h] = IF timers[h].isResumed THEN @ ELSE @ - 1]
  /\ UNCHANGED <<port, nextId, expired, calling, fired, overtaken, stuck>>

\* startTimer.
StartTimer(id) ==
  /\ "user" \notin stuck /\ InUse # {}
  /\ IF StartStalls /\ ~AtFirst(timers, id)
     THEN stuck' = stuck \cup {"user"} /\ UNCHANGED <<timers, armed, suspended>>
     ELSE /\ \E h \in HandleOf(id) :
               /\ armed' = armed \cup {h}
               /\ IF port # "Darwin" THEN UNCHANGED <<timers, suspended>>
                  ELSE /\ timers' = [timers EXCEPT ![h].isResumed = TRUE, ![h].isSuspended = FALSE]
                       /\ suspended' = [suspended EXCEPT ![h] = IF timers[h].isResumed THEN @ ELSE @ - 1]
          /\ UNCHANGED stuck
  /\ UNCHANGED <<port, nextId, expired, calling, fired, overtaken>>

\* stopTimer: Darwin suspends the source, the others disarm the timer.
StopTimer(id) ==
  /\ "user" \notin stuck /\ InUse # {}
  /\ IF StopStalls /\ ~AtFirst(timers, id)
     THEN stuck' = stuck \cup {"user"} /\ UNCHANGED <<timers, armed, suspended>>
     ELSE /\ \E h \in HandleOf(id) :
               IF port = "Darwin"
               THEN /\ ~timers[h].isSuspended
                    /\ timers' = [timers EXCEPT ![h].isResumed = FALSE, ![h].isSuspended = TRUE]
                    /\ suspended' = [suspended EXCEPT ![h] = @ + 1]
                    /\ UNCHANGED armed
               ELSE armed' = armed \ {h} /\ UNCHANGED <<timers, suspended>>
          /\ UNCHANGED stuck
  /\ UNCHANGED <<port, nextId, expired, calling, fired, overtaken>>

\* The platform hands an expiry over (a source that is suspended does not fire).
Expire(h) ==
  /\ h \in armed \cap InUse /\ suspended[h] = 0
  /\ expired' = expired \cup {[handle |-> h, id |-> timers[h].id]}
  /\ armed' = IF timers[h].autoReload THEN armed ELSE armed \ {h}
  /\ UNCHANGED <<port, timers, nextId, suspended, calling, fired, overtaken, stuck>>

\* Mutant of BeginCallback: an expiry is served without a look into the map.
CallWithoutLookup(e) ==
  /\ calling = Nothing /\ "timer" \notin stuck
  /\ expired' = expired \ {e}
  /\ calling' = e
  /\ fired' = [expired |-> e.id, called |-> IF e.handle \in InUse THEN timers[e.handle].id ELSE MaxIds]
  /\ UNCHANGED <<port, timers, nextId, armed, suspended, overtaken, stuck>>

\* callTimerCallback: the callback of the entry the map has for the handle.
BeginCallback(e) ==
  /\ calling = Nothing /\ "timer" \notin stuck
  /\ expired' = expired \ {e}
  /\ IF e.handle \in InUse
     THEN /\ calling' = e
          /\ fired' = [expired |-> e.id, called |-> timers[e.handle].id]
     ELSE UNCHANGED <<calling, fired>>
  /\ UNCHANGED <<port, timers, nextId, armed, suspended, overtaken, stuck>>

\* ... and after it: timers[] makes an empty one-shot entry with the id 0 if the
\* timer was deleted meanwhile, and a one-shot entry is deleted by its id.
EndCallback ==
  LET h == calling.handle
      m == With(timers, h, Empty)
  IN  /\ calling # Nothing
      /\ calling' = Nothing
      /\ IF m[h].autoReload THEN UNCHANGED <<timers, armed, suspended, stuck>>
         ELSE DeleteFrom(m, m[h].id, "timer")
      /\ UNCHANGED <<port, nextId, expired, fired, overtaken>>

Timers ==
  \/ \E h \in Handles : Expire(h) \/ \E reload \in BOOLEAN : CreateTimer(h, reload)
  \/ \E id \in Ids : DeleteTimer(id) \/ CreateFails(id) \/ StartTimer(id) \/ StopTimer(id)
  \/ \E e \in expired : BeginCallback(e)
  \/ EndCallback

LinuxTimers  == port = "Linux"  /\ Timers
DarwinTimers == port = "Darwin" /\ Timers
EspTimers    == port = "Esp"    /\ Timers
Cc32xxTimers == port = "Cc32xx" /\ Timers
Tm4cTimers   == port = "Tm4c"   /\ Timers

Next == LinuxTimers \/ DarwinTimers \/ EspTimers \/ Cc32xxTimers \/ Tm4cTimers

Spec == Init /\ [][Next]_vars

-----------------------------------------------------------------------------
TypeOK ==
  /\ port \in Ports
  /\ InUse \subseteq Handles /\ \A h \in InUse : timers[h] \in Entry
  /\ nextId \in 0 .. MaxIds
  /\ armed \subseteq Handles
  /\ suspended \in [Handles -> Int]
  /\ expired \subseteq [handle : Handles, id : Ids]
  /\ calling \in [handle : 0 .. MaxHandles, id : Ids]
  /\ fired \in [expired : Ids, called : 0 .. MaxIds]
  /\ overtaken \subseteq Ids
  /\ stuck \subseteq {"user", "timer"}

\* An expiry runs the callback of the timer that expired, and nothing when that
\* timer is gone.  Only when the platform gave the handle to another timer while
\* the expiry was on its way is the other one called.
FiredTimerIsOwn == fired.called = fired.expired \/ fired.expired \in overtaken

\* The same promise without the exception.
FiredTimerIsAlwaysOwn == fired.called = fired.expired

\* Darwin: the suspensions of a source are what its entry says, so that resume
\* is never called on a source that runs and no source is released suspended.
\* (A timer that is deleted while its callback runs breaks it: the empty entry
\* takes the place of the timer with the id 0.)
SuspensionIsBalanced ==
  \A h \in Handles :
    suspended[h] = IF h \in InUse /\ timers[h].isSuspended THEN 1 ELSE 0

\* No call loops for ever: deleteTimer returns "ErrorType::NoData if the timer id
\* does not exist" (OperatingSystemAbstraction.hpp), and stopTimer and startTimer
\* find a timer wherever it is in the map.
NobodyIsStuck == stuck = {}
=============================================================================
