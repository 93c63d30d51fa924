----------------------------- MODULE SlideMotor -----------------------------
(***************************************************************************)
(* The motorised slide potentiometer: an H-bridge that moves the wiper and *)
(* a converter that reads where it is.  The driver finds out by trying how *)
(* long the motor must run for the wiper to move, and then moves it by     *)
(* such steps until the reading is near enough.  The wiper, its friction   *)
(* and which way the voltage goes are the hardware's.  Voltages are in     *)
(* units of which one place of the wiper is AdcMultiSamples - 1.           *)
(***************************************************************************)
EXTENDS Integers, FiniteSets

CONSTANTS
    Hardwares,       \* which way a forward slide takes the voltage: of {"Raises", "Drops"}
    PwmTypes,        \* what the bridge is driven by: of {"Standalone", "Gpio"}
    Places,          \* the last place of the wiper
    Stiction,        \* the slide time that first moves it
    Hysteresis,      \* the difference of voltages that counts
    BackOff,         \* the slide times by which calibration moves away from an end: 32
    AdcMultiSamples, \* readings that are averaged
    Speeds,          \* duty cycles
    MaxTime,         \* bound: slide times
    MaxFaults,       \* bound: calls of the hardware that fail, within a call and in all
    MaxCalls         \* bound: calls

SlideMotorAssumption ==
    /\ Hardwares \subseteq {"Raises", "Drops"}
    /\ PwmTypes \subseteq {"Standalone", "Gpio"}
    /\ {Places, Stiction, Hysteresis, BackOff, MaxTime, MaxFaults, MaxCalls} \subseteq Nat
    /\ AdcMultiSamples \in Nat /\ AdcMultiSamples > 2
    /\ Speeds \subseteq 0..100 /\ Speeds # {}

VARIABLES
    pwmType,
    hardware,
    bridge,
    wiper,
    _speed,
    minimumForward,   \* _minimumForwardSlideTime
    minimumBackward,  \* _minimumBackwardSlideTime
    effect,           \* _forwardSlideVoltageEffect
    doing,            \* the call that goes on, or "none"
    target,           \* slideToVoltage: the place that is wanted
    reading,          \* its local: the last reading
    previous,         \* calibrate: the reading before
    difference,       \* calibrate: how far the wiper has been seen to move
    answer,           \* the last call and what it answered
    faults,
    calls

parameters == <<pwmType, hardware>>
settings == <<_speed, minimumForward, minimumBackward, effect>>
locals == <<target, reading, previous, difference>>
vars == <<parameters, bridge, wiper, settings, doing, locals, answer, faults, calls>>

Unit == AdcMultiSamples - 1
Volts == 0..((Places + 1) * Unit)
PwmDutyCycle == CHOOSE s \in Speeds : \A t \in Speeds : s >= t

-----------------------------------------------------------------------------
(* The bridge: two signals, each of which is started or stopped, and given a *)
(* duty cycle, by a call of its own that may fail. A bridge is a record; an  *)
(* operation is the set of what it may leave behind: the bridge, what is     *)
(* answered, and the calls that failed.                                      *)

Inputs == {1, 2}

Outcome(b, error, failed) == [bridge |-> b, error |-> error, failed |-> failed]

\* One signal is given a level: the call does it or fails.
Put(b, i, level) ==
    {Outcome([b EXCEPT !.input[i] = level], "Success", 0), Outcome(b, "Failure", 1)}

\* The first signal and, when that succeeded, the second.
Both(b, first, second) ==
    UNION {IF o.error # "Success" THEN {o}
           ELSE {Outcome(p.bridge, p.error, o.failed + p.failed) : p \in Put(o.bridge, 2, second)} :
               o \in Put(b, 1, first)}

driveForward(b) == Both(b, "on", "off")
driveBackward(b) == Both(b, "off", "on")
brake(b) == Both(b, "on", "on")

Braked(b) == \A i \in Inputs : b.input[i] = "on"

SetDuty(b, i, duty) ==
    {Outcome([b EXCEPT !.duty[i] = duty], "Success", 0), Outcome(b, "Failure", 1)}

\* The second signal keeps its duty cycle when the first could not be changed, the
\* parameters keep theirs when either could not.
changeDutyCycle(b, duty) ==
    UNION {IF o.error # "Success" THEN {o}
           ELSE {IF p.error # "Success" THEN p
                 ELSE Outcome([p.bridge EXCEPT !.params = duty], "Success", 0) :
                     p \in SetDuty(o.bridge, 2, duty)} :
               o \in SetDuty(b, 1, duty)}

\* Period, duty cycle and init of one signal, up to the first failure.
InitSignal(b, i) ==
    {Outcome([b EXCEPT !.duty[i] = b.params, !.ready[i] = TRUE], "Success", 0),
     Outcome([b EXCEPT !.duty[i] = b.params], "Failure", 1),
     Outcome(b, "Failure", 1)}

\* Every signal is tried; the last one's error is answered.
Initialised(b) ==
    UNION {{Outcome(p.bridge, p.error, o.failed + p.failed) : p \in InitSignal(o.bridge, 2)} :
               o \in InitSignal(b, 1)}

-----------------------------------------------------------------------------
TypeOK ==
    /\ pwmType \in PwmTypes /\ hardware \in Hardwares
    /\ bridge.input \in [Inputs -> {"on", "off"}]
    /\ bridge.duty \in [Inputs -> Speeds \cup {0}]
    /\ bridge.ready \in [Inputs -> BOOLEAN]
    /\ bridge.params \in Speeds \cup {0}
    /\ wiper \in 0..Places
    /\ _speed \in Speeds \cup {0}
    /\ minimumForward \in 0..MaxTime /\ minimumBackward \in 0..MaxTime
    /\ effect \in {"Unknown", "Raises"}
    /\ doing \in {"none", "slideToVoltage", "calibrateForward", "calibrateBackward"}
    /\ target \in 0..Places
    /\ {reading, previous, difference} \subseteq Volts
    /\ answer \in [of : {"none", "init", "slideForward", "slideBackward", "setSpeed",
                         "slideToVoltage", "calibrate"},
                   error : {"Success", "Failure", "PrerequisitesNotMet", "NotSupported"}]
    /\ faults \in 0..MaxFaults /\ calls \in 0..MaxCalls

Init ==
    /\ pwmType \in PwmTypes /\ hardware \in Hardwares
    /\ bridge = [input |-> [i \in Inputs |-> "off"], duty |-> [i \in Inputs |-> 0],
                 ready |-> [i \in Inputs |-> FALSE], params |-> 0]
    /\ wiper \in 0..Places
    /\ _speed = 0 /\ minimumForward = 0 /\ minimumBackward = 0 /\ effect = "Unknown"
    /\ doing = "none" /\ target = 0 /\ reading = 0 /\ previous = 0 /\ difference = 0
    /\ answer = [of |-> "none", error |-> "Success"]
    /\ faults = 0 /\ calls = 0

Called == doing = "none" /\ calls < MaxCalls /\ calls' = calls + 1
\* init creates the bridge; to visit the optional that holds it before is undefined.
Emplaced == answer.of # "none"
\* Both signals run.  Nothing in the driver asks for it; the motor turns only then.
Ready == \A i \in Inputs : bridge.ready[i]
Answers(of, error) == answer' = [of |-> of, error |-> error] /\ doing' = "none"
MayFail(n) == faults + n <= MaxFaults
Faults(n) == MayFail(n) /\ faults' = faults + n

---------------------------------------------------------------------------
(* The hardware. *)

VoltageAt(place) == (IF hardware = "Raises" THEN place ELSE Places - place) * Unit
Clamp(place) == IF place < 0 THEN 0 ELSE IF place > Places THEN Places ELSE place
Moved(place, way, time) ==
    IF ~Ready \/ time < Stiction THEN place ELSE Clamp(place + way * (time - Stiction + 1))

\* While one signal is on and the other is off the motor turns, whether or not a
\* call goes on.
Drift ==
    /\ Ready /\ bridge.input[1] # bridge.input[2]
    /\ wiper' = Clamp(wiper + (IF bridge.input[1] = "on" THEN 1 ELSE -1)) /\ wiper' # wiper
    /\ UNCHANGED <<parameters, bridge, settings, doing, locals, answer, faults, calls>>

---------------------------------------------------------------------------
(* Sliding. *)

\* A slide is a series of short drives, each followed by a brake.  A drive that
\* fails ends it; the failure of a brake matters only when it is the last, for the
\* next drive overwrites it.  With a bridge that is driven by Gpio the first drive
\* is an assertion that fails, and nothing comes back.
Slide(from, way, time) ==
    LET drive(b) == IF way = 1 THEN driveForward(b) ELSE driveBackward(b)
        level(i) == IF (i = 1) = (way = 1) THEN "on" ELSE "off"
        going == [from.bridge EXCEPT !.input = [i \in Inputs |-> level(i)]]
        braked == brake(going)
        stuck(b) == {d \in drive(b) : d.error # "Success" /\ MayFail(d.failed)}
        stuckAgain == UNION {{Outcome(d.bridge, d.error, o.failed + d.failed) : d \in stuck(o.bridge)} :
                                o \in braked}
        After(o, done, hidden) ==       \* so many of the brakes before have failed
            [bridge |-> o.bridge, wiper |-> Moved(from.wiper, way, done),
             error |-> o.error, failed |-> o.failed + hidden]
        Hidden(brakes) == {n \in 0..MaxFaults : n <= brakes /\ MayFail(n)}
        Ends(outcomes, done, brakes) ==
            UNION {{After(o, done, n) : o \in outcomes} : n \in Hidden(brakes)}
    IN IF time = 0 THEN Ends({Outcome(from.bridge, "Success", 0)}, 0, 0)
       ELSE IF pwmType = "Gpio" THEN {}
       ELSE Ends(braked, time, time - 1) \cup Ends(stuck(from.bridge), 0, 0) \cup
            UNION {Ends(stuckAgain, done, done - 1) : done \in 1..time-1}

Now == [bridge |-> bridge, wiper |-> wiper]
ForwardSlides(from, time) == Slide(from, 1, time)
\* The errors of the loop are assigned to a variable that hides the one answered.
BackwardSlides(from, time) == {[s EXCEPT !.error = "Success"] : s \in Slide(from, -1, time)}

Done(s) == bridge' = s.bridge /\ wiper' = s.wiper /\ Faults(s.failed)

\* Mutated: the errors of the loop are hidden as in the other direction.
slideForwardHides(time) ==
    /\ Emplaced /\ Called
    /\ \E s \in ForwardSlides(Now, time) : Done(s) /\ Answers("slideForward", "Success")
    /\ UNCHANGED <<parameters, settings, locals>>

slideForward(time) ==
    /\ Emplaced /\ Called
    /\ \E s \in ForwardSlides(Now, time) : Done(s) /\ Answers("slideForward", s.error)
    /\ UNCHANGED <<parameters, settings, locals>>

slideBackward(time) ==
    /\ Emplaced /\ Called
    /\ \E s \in BackwardSlides(Now, time) : Done(s) /\ Answers("slideBackward", s.error)
    /\ UNCHANGED <<parameters, settings, locals>>

---------------------------------------------------------------------------
(* Setting up, speed and readings. *)

init ==
    /\ Called
    /\ IF pwmType = "Gpio"
       THEN /\ bridge' = [bridge EXCEPT !.params = PwmDutyCycle] /\ Answers("init", "NotSupported")
            /\ UNCHANGED faults
       ELSE \E o \in Initialised([bridge EXCEPT !.params = PwmDutyCycle]) :
               \/ bridge' = o.bridge /\ Faults(o.failed) /\ Answers("init", o.error)
               \/ /\ o.error = "Success"                          \* the converter fails
                  /\ bridge' = o.bridge /\ Faults(o.failed + 1) /\ Answers("init", "Failure")
    /\ _speed' = PwmDutyCycle
    /\ UNCHANGED <<parameters, wiper, minimumForward, minimumBackward, effect, locals>>

\* Mutated: the speed is remembered whether or not it was set.
setSpeedAnyway(speed) ==
    /\ Emplaced /\ Called
    /\ IF pwmType = "Gpio" THEN Answers("setSpeed", "NotSupported") /\ UNCHANGED <<bridge, faults>>
       ELSE \E o \in changeDutyCycle(bridge, speed) :
               bridge' = o.bridge /\ Faults(o.failed) /\ Answers("setSpeed", o.error)
    /\ _speed' = speed
    /\ UNCHANGED <<parameters, wiper, minimumForward, minimumBackward, effect, locals>>

setSpeed(speed) ==
    /\ Emplaced /\ Called
    /\ IF pwmType = "Gpio" THEN Answers("setSpeed", "NotSupported") /\ UNCHANGED <<bridge, faults, _speed>>
       ELSE \E o \in changeDutyCycle(bridge, speed) :
               /\ bridge' = o.bridge /\ Faults(o.failed) /\ Answers("setSpeed", o.error)
               /\ _speed' = IF o.error = "Success" THEN speed ELSE _speed
    /\ UNCHANGED <<parameters, wiper, minimumForward, minimumBackward, effect, locals>>

\* The average of the samples starts from what the variable held before, which is
\* divided among one sample less.  A sample that fails is left out, whichever it is:
\* then the old value has more shares than one, and when the second sample is among
\* them it takes these from the new voltage.  The error of the last sample is
\* answered, and the samples before it have changed the variable all the same.
Average(old, voltage) == voltage + old \div Unit
Between(a, b) == (a..b \cup b..a) \cap Volts
Readings(old, place) ==
    LET v == VoltageAt(place)
        Shared(shares) == (shares * old + (Unit - shares) * v) \div Unit
        Mixtures(failed) == Between(Average(old, v), v + ((failed + 1) * old) \div Unit) \cup
                            Between(Shared(1), Shared(IF failed > Unit THEN Unit ELSE failed))
    IN {[volts |-> Average(old, v), error |-> "Success", failed |-> 0]} \cup
       UNION {[volts : Mixtures(n), error : {"Success", "Failure"}, failed : {n}] :
                 n \in {k \in 1..MaxFaults : MayFail(k)}}

Distance(a, b) == IF a < b THEN b - a ELSE a - b
Near(a, b) == Distance(a, b) <= Hysteresis
AtAnEnd(volts) == Near(volts, Places * Unit) \/ Near(volts, 0)

---------------------------------------------------------------------------
(* Sliding to a voltage. *)

slideToVoltage(place) ==
    /\ Emplaced /\ Called
    /\ target' = place
    /\ \E r \in Readings(0, wiper) :
          /\ reading' = r.volts /\ Faults(r.failed)
          /\ IF r.error # "Success" THEN Answers("slideToVoltage", r.error)
             ELSE IF minimumForward = 0 \/ minimumBackward = 0 \/ effect = "Unknown"
             THEN Answers("slideToVoltage", "PrerequisitesNotMet")
             ELSE IF Near(place * Unit, r.volts) THEN Answers("slideToVoltage", "Success")
             ELSE doing' = "slideToVoltage" /\ UNCHANGED answer
    /\ UNCHANGED <<parameters, bridge, wiper, settings, previous, difference>>

Towards == IF (reading < target * Unit) = (effect = "Raises")
           THEN ForwardSlides(Now, minimumForward) ELSE BackwardSlides(Now, minimumBackward)

\* Mutated: the reading is that from before the slide.
TowardsVoltageBefore ==
    /\ doing = "slideToVoltage"
    /\ \E s \in Towards : \E r \in Readings(reading, wiper) :
          /\ bridge' = s.bridge /\ wiper' = s.wiper /\ Faults(s.failed + r.failed)
          /\ reading' = r.volts
          /\ IF r.error # "Success" \/ Near(target * Unit, r.volts)
             THEN Answers("slideToVoltage", r.error) ELSE UNCHANGED <<doing, answer>>
    /\ UNCHANGED <<parameters, settings, target, previous, difference, calls>>

\* One turn of the loop: the error of the slide is overwritten by the reading's.
TowardsVoltage ==
    /\ doing = "slideToVoltage"
    /\ \E s \in Towards : \E r \in Readings(reading, s.wiper) :
          /\ bridge' = s.bridge /\ wiper' = s.wiper /\ Faults(s.failed + r.failed)
          /\ reading' = r.volts
          /\ IF r.error # "Success" \/ Near(target * Unit, r.volts)
             THEN Answers("slideToVoltage", r.error) ELSE UNCHANGED <<doing, answer>>
    /\ UNCHANGED <<parameters, settings, target, previous, difference, calls>>

---------------------------------------------------------------------------
(* Calibration. *)

calibrate ==
    /\ Emplaced /\ Called
    /\ \E r \in Readings(0, wiper) :
          /\ reading' = r.volts /\ previous' = r.volts /\ difference' = 0 /\ Faults(r.failed)
          /\ IF r.error = "Success" THEN doing' = "calibrateForward" /\ UNCHANGED answer
             ELSE Answers("calibrate", r.error)
    /\ minimumForward' = 0
    /\ UNCHANGED <<parameters, bridge, wiper, _speed, minimumBackward, effect, target>>

\* One turn of the forward loop.  At an end the wiper is sent far back and its
\* errors are dropped; what the wiper read is compared, not what it reads now, so
\* the slide time is never started over.  Only "Raises" is ever assigned.
CalibrateForward ==
    /\ doing = "calibrateForward" /\ difference < Hysteresis
    /\ minimumForward < MaxTime /\ minimumForward' = minimumForward + 1
    /\ \E s \in ForwardSlides(Now, minimumForward') :
          IF s.error # "Success"
          THEN /\ Done(s) /\ Answers("calibrate", s.error)
               /\ UNCHANGED <<effect, reading, difference>>
          ELSE \E r \in Readings(reading, s.wiper) :
                  /\ reading' = r.volts
                  /\ effect' = IF r.volts > previous THEN "Raises" ELSE effect
                  /\ IF AtAnEnd(r.volts)
                     THEN /\ \E back \in BackwardSlides(s, minimumForward' * BackOff) :
                                bridge' = back.bridge /\ wiper' = back.wiper
                                /\ Faults(s.failed + r.failed + back.failed)
                          /\ UNCHANGED difference
                     ELSE /\ bridge' = s.bridge /\ wiper' = s.wiper /\ Faults(s.failed + r.failed)
                          /\ difference' = Distance(r.volts, previous)
                  /\ IF r.error = "Success" THEN UNCHANGED <<doing, answer>>
                     ELSE Answers("calibrate", r.error)
    /\ UNCHANGED <<parameters, _speed, minimumBackward, target, previous, calls>>

TurnToBackward ==
    /\ doing = "calibrateForward" /\ difference >= Hysteresis
    /\ \E r \in Readings(0, wiper) :
          /\ reading' = r.volts /\ previous' = r.volts /\ difference' = 0 /\ Faults(r.failed)
          /\ IF r.error = "Success" THEN doing' = "calibrateBackward" /\ UNCHANGED answer
             ELSE Answers("calibrate", r.error)
    /\ minimumBackward' = 0
    /\ UNCHANGED <<parameters, bridge, wiper, _speed, minimumForward, effect, target, calls>>

CalibrateBackward ==
    /\ doing = "calibrateBackward" /\ difference < Hysteresis
    /\ minimumBackward < MaxTime /\ minimumBackward' = minimumBackward + 1
    /\ \E s \in BackwardSlides(Now, minimumBackward') : \E r \in Readings(reading, s.wiper) :
          /\ reading' = r.volts
          /\ \/ /\ AtAnEnd(r.volts)        \* the error of the slide replaces the reading's
                /\ \E on \in ForwardSlides(s, minimumBackward' * BackOff) :
                      /\ bridge' = on.bridge /\ wiper' = on.wiper
                      /\ Faults(s.failed + r.failed + on.failed)
                      /\ IF on.error = "Success" THEN UNCHANGED <<doing, answer>>
                         ELSE Answers("calibrate", on.error)
                /\ UNCHANGED difference
             \/ /\ ~AtAnEnd(r.volts)
                /\ bridge' = s.bridge /\ wiper' = s.wiper /\ Faults(s.failed + r.failed)
                /\ difference' = Distance(r.volts, previous)
                /\ IF r.error # "Success" \/ difference' >= Hysteresis THEN Answers("calibrate", r.error)
                   ELSE UNCHANGED <<doing, answer>>
    /\ UNCHANGED <<parameters, _speed, minimumForward, effect, target, previous, calls>>

---------------------------------------------------------------------------
Next ==
    \/ init \/ calibrate \/ Drift
    \/ \E time \in 0..MaxTime : slideForward(time) \/ slideBackward(time)
    \/ \E speed \in Speeds : setSpeed(speed)
    \/ \E place \in 0..Places : slideToVoltage(place)
    \/ TowardsVoltage \/ CalibrateForward \/ TurnToBackward \/ CalibrateBackward

Spec == Init /\ [][Next]_vars

---------------------------------------------------------------------------
\* After a forward slide that answers Success the motor is braked: no failure of
\* the two calls of a brake is hidden by the loop around it.
ForwardSuccessIsBraked ==
    [][\A time \in 1..MaxTime : (slideForward(time) /\ answer'.error = "Success") => Braked(bridge')]_vars

\* The speed that is remembered is the one in the parameters of the bridge, and
\* that of both signals as soon as a change has been answered with Success.
SpeedIsSet ==
    /\ _speed = bridge.params
    /\ answer = [of |-> "setSpeed", error |-> "Success"] => \A i \in Inputs : bridge.duty[i] = _speed

\* Nothing failed and slideToVoltage answered Success: the wiper is within the
\* hysteresis of the target, give or take what the averaging adds to a reading.
TargetIsReached ==
    (answer = [of |-> "slideToVoltage", error |-> "Success"] /\ doing = "none" /\ faults = 0) =>
        LET d == VoltageAt(wiper) - target * Unit
        IN -d <= Hysteresis + (Places + 1) /\ d <= Hysteresis

---------------------------------------------------------------------------
(* What does not hold of the code. *)

\* The same of backward slides, which answer Success whatever failed.
BackwardSuccessIsBraked ==
    [][\A time \in 1..MaxTime : (slideBackward(time) /\ answer'.error = "Success") => Braked(bridge')]_vars

\* The motor is at rest when slideToVoltage answers Success.
TargetIsKept == (answer = [of |-> "slideToVoltage", error |-> "Success"] /\ doing = "none") => Braked(bridge)

\* Without a failure the two signals and the parameters have one duty cycle.
SignalsAgree == Ready => \A i \in Inputs : bridge.duty[i] = bridge.params

\* An init that answers Success has started both signals.
InitialisedIsReady == answer = [of |-> "init", error |-> "Success"] => Ready

\* A calibration that answers Success has found out what slideToVoltage needs ...
CalibratedIsUsable == answer = [of |-> "calibrate", error |-> "Success"] => effect # "Unknown"

\* ... and found it out right.
EffectIsTrue == effect # "Unknown" => effect = hardware

\* A reading is a voltage of the potentiometer.
ReadingIsAVoltage == reading <= Places * Unit
=============================================================================
