----------------------------- MODULE TickClock -----------------------------
(***************************************************************************)
(* The system tick and what is computed from it: the tick timer            *)
(* (Applications/TickTimer), the uptime and the idle share of the FreeRTOS *)
(* ports.  The tick is an unsigned counter of Wrap values; `real' counts   *)
(* the same ticks without wrapping, and only the properties look at it.    *)
(* The three computations share nothing but the tick, so each behaviour    *)
(* follows one of them: `user'.                                            *)
(***************************************************************************)
EXTENDS Naturals

CONSTANTS
    Wrap,       \* the values of Ticks, Milliseconds and Seconds: 2^32 in the code
    Rate,       \* configTICK_RATE_HZ
    Milli,      \* the milliseconds of a second: 1000 in the code
    Durations,  \* what Timer is asked for
    MaxTime,    \* bound: the ticks that pass
    MaxCalls    \* bound: the calls of the idle hook

ClockAssumption ==
    /\ Wrap \in Nat \ {0}
    /\ Rate \in Nat \ {0}
    /\ Milli \in Nat \ {0}
    /\ MaxTime \in Nat
    /\ MaxCalls \in Nat
    /\ Durations \subseteq 0..(Wrap - 1)

VARIABLES
    real,     \* the ticks since the start
    user,     \* "timer", "uptime" or "idle"
    timer,    \* startTime, duration, when it was started, and the last answer
    up,       \* _status.upTime and sinceLastRollover of uptime
    idle      \* the static variables of vApplicationIdleHook, and timeNow

vars == <<real, user, timer, up, idle>>

Users == {"timer", "uptime", "idle"}
Answers == {"None", "Negative", "Success"}
Ticks == 0..(Wrap - 1)

tick == real % Wrap

TypeOK ==
    /\ real \in 0..MaxTime
    /\ user \in Users
    /\ timer \in [start : Ticks, duration : Ticks, begun : 0..MaxTime, answer : Answers]
    /\ up \in [time : Ticks, since : Ticks]
    /\ idle \in [calls : Nat, last : Ticks, average : Ticks, now : Ticks]

\* _status.upTime starts at 0; the hook initialises its variables when it is
\* called for the first time, so calls = 0 stands for "not called yet".
Init ==
    /\ real = 0
    /\ user \in Users
    /\ timer = [start |-> 0, duration |-> 0, begun |-> 0, answer |-> "None"]
    /\ up = [time |-> 0, since |-> 0]
    /\ idle = [calls |-> 0, last |-> 0, average |-> 0, now |-> 0]

Pass ==
    /\ real < MaxTime
    /\ real' = real + 1
    /\ timer' = [timer EXCEPT !.answer = "None"]
    /\ UNCHANGED <<user, up, idle>>

----------------------------------------------------------------------------
\* TickTimer::Timer.

timeoutTime == (timer.start + timer.duration) % Wrap
rolloverCompensation == IF timeoutTime < timer.start THEN Wrap - timer.start ELSE 0

StartTimer(duration) ==
    /\ user = "timer"
    /\ timer' = [start |-> tick, duration |-> duration, begun |-> real, answer |-> "None"]
    /\ UNCHANGED <<real, user, up, idle>>

\* Mutated: the tick of the timeout itself is still Negative.
TimerInclusive ==
    /\ user = "timer"
    /\ timer' = [timer EXCEPT !.answer =
           IF (tick + rolloverCompensation) % Wrap <= timeoutTime THEN "Negative" ELSE "Success"]
    /\ UNCHANGED <<real, user, up, idle>>

Timer ==
    /\ user = "timer"
    /\ timer' = [timer EXCEPT !.answer =
           IF (tick + rolloverCompensation) % Wrap < timeoutTime THEN "Negative" ELSE "Success"]
    /\ UNCHANGED <<real, user, up, idle>>

----------------------------------------------------------------------------
\* OperatingSystem::uptime.  The product 1000 * ticks is computed in 32 bits,
\* so the milliseconds start again long before the tick does.

ticksToMilliseconds(ticks) == ((Milli * ticks) % Wrap) \div Rate
secondsNow == ticksToMilliseconds(tick) \div Milli

\* Mutated: sinceLastRollover is not stored.
UptimeForgets ==
    /\ user = "uptime"
    /\ up' = [up EXCEPT !.time = (up.time + secondsNow - up.since) % Wrap]
    /\ UNCHANGED <<real, user, timer, idle>>

Uptime ==
    /\ user = "uptime"
    /\ up' = IF secondsNow < up.since
             THEN [time |-> (up.time + secondsNow) % Wrap, since |-> 0]
             ELSE [time |-> (up.time + secondsNow - up.since) % Wrap, since |-> secondsNow]
    /\ UNCHANGED <<real, user, timer, idle>>

----------------------------------------------------------------------------
\* vApplicationIdleHook, with the two functions of Utilities/Math.hpp it uses.

differenceBetween(larger, smaller) ==
    IF smaller > larger THEN (Wrap - 1 - larger + smaller + 1) % Wrap ELSE larger - smaller

\* Mutated: the first average divides by the calls before this one.
runningAverageOneOff(average, value, n) ==
    CASE n > 2          -> ((average * (n - 1) + value) % Wrap) \div (n - 1)
      [] n \in {1, 2}   -> ((average + value) % Wrap) \div n
      [] n = 0          -> average

runningAverage(average, value, n) ==
    CASE n > 2          -> ((average * (n - 1) + value) % Wrap) \div n
      [] n \in {1, 2}   -> ((average + value) % Wrap) \div n
      [] n = 0          -> average

vApplicationIdleHook ==
    /\ user = "idle"
    /\ idle.calls <= MaxCalls
    /\ LET first == idle.calls = 0
           n     == IF first THEN 1 ELSE idle.calls
           last  == IF first THEN tick ELSE idle.last
           old   == IF first THEN tick ELSE idle.average
       IN idle' = [calls   |-> n + 1,
                   last    |-> tick,
                   average |-> runningAverage(old, differenceBetween(tick, last), n),
                   now     |-> tick]
    /\ UNCHANGED <<real, user, timer, up>>

\* The share of the time that was not spent in idle, of which the hook reports
\* the rest: the ticks of the average times the calls it was taken over.
timeNotSpentInIdle == (idle.average * (idle.calls - 1)) % Wrap

----------------------------------------------------------------------------
Next ==
    \/ Pass
    \/ \E duration \in Durations : StartTimer(duration)
    \/ Timer
    \/ Uptime
    \/ vApplicationIdleHook

Spec == Init /\ [][Next]_vars

----------------------------------------------------------------------------
\* Properties.

elapsed == real - timer.begun

\* TickTimer.hpp: Timer answers Success if the duration has been reached,
\* Negative if it has not, and "Rollovers are handled by this function".  They
\* are not: the compensation replaces the tick by the time that has elapsed,
\* but not the timeout by the duration.
TimerTellsElapsed ==
    /\ timer.answer = "Success" => elapsed >= timer.duration
    /\ timer.answer = "Negative" => elapsed < timer.duration

\* What is left of it.  Before the tick has gone round once since the start,
\* Timer can only be early when the timeout lies beyond the roll-over, and only
\* be late when it does not and the tick has rolled over.
TimerErrsOneWay ==
    elapsed < Wrap =>
        /\ timer.answer = "Success" /\ elapsed < timer.duration => timer.start + timer.duration >= Wrap
        /\ timer.answer = "Negative" /\ elapsed >= timer.duration =>
               timer.start + timer.duration < Wrap /\ timer.start + elapsed >= Wrap

\* OperatingSystemAbstraction.hpp: uptime is the time the system has been
\* running for.  After the milliseconds started again the code adds the seconds
\* since then twice, at that call and at the next one.
UptimeIsNotAhead == up.time <= real \div Rate

\* Until the milliseconds start again the uptime is never ahead, however often
\* it is asked for.
UptimeIsNotAheadAtFirst == real * Milli < Wrap => UptimeIsNotAhead

\* The ticks that the hook counts as not idle never exceed the ticks there were,
\* so that the idle share is never negative: rounding the average down at every
\* call never adds up to more than the tick.  True until the tick rolls over.
IdleIsAShare == idle.calls > 1 /\ real < Wrap => timeNotSpentInIdle <= idle.now

\* The same without the restriction: differenceBetween takes the distance the
\* wrong way round when the tick has rolled over.
IdleIsAlwaysAShare == idle.calls > 1 => timeNotSpentInIdle <= idle.now

\* Math.hpp: the difference of two values, also if the larger one has
\* overflowed.
DifferenceIsDistance ==
    \A a, b \in Ticks : differenceBetween(a, b) = (a + Wrap - b) % Wrap
============================================================================
