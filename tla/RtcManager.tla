----------------------------- MODULE RtcManager -----------------------------
(***************************************************************************)
(* RtcManager over the real time clock of the only port that has one, the  *)
(* Cc32xx: both the internal and the external Rtc it makes talk to the     *)
(* same clock of the device (sl_DeviceGet, sl_DeviceSet).                  *)
(***************************************************************************)
EXTENDS Dates

CONSTANTS
    InputTimes,        \* the Unix times that are submitted
    Criteria,          \* maxDifference of internal and input, and of internal and external
    MaxDays            \* bound: the days the device counts on its own

RtcAssumption == InputTimes \subseteq Nat /\ Criteria \subseteq [input : Nat, external : Nat] /\ MaxDays \in 0..31

VARIABLES
    managed,   \* which of the clocks the manager has: a set of "internal" and "external"
    criteria,
    device,    \* the date of the device
    cache,     \* _lastExternalRtcTimeQueried
    submitted, \* the last input time
    result,    \* what the last call answered
    wrote      \* the clocks the last call wrote

vars == <<managed, criteria, device, cache, submitted, result, wrote>>

Results == {"None", "Success", "Failure", "NoData"}

TypeOK ==
    /\ managed \subseteq {"internal", "external"}
    /\ criteria \in Criteria
    /\ device \in DateTime
    /\ cache \in DateTime
    /\ submitted \in InputTimes
    /\ result \in Results
    /\ wrote \subseteq managed

apart(a, b) == IF a > b THEN a - b ELSE b - a

\* The constructor reads the external clock, and does not look at the error.
Init ==
    /\ managed \in SUBSET {"internal", "external"}
    /\ criteria \in Criteria
    /\ \E t \in InputTimes : device = ToDateTime(t)
    /\ cache \in (IF "external" \in managed THEN {device, UnixTimeZero} ELSE {UnixTimeZero})
    /\ submitted \in InputTimes
    /\ result = "None"
    /\ wrote = {}

\* The device goes on; its calendar is not part of the code, and one day within
\* a month is all that is needed here.
NextDay ==
    /\ device.day < MaxDays
    /\ device' = [device EXCEPT !.day = @ + 1]
    /\ result' = "None"
    /\ wrote' = {}
    /\ UNCHANGED <<managed, criteria, cache, submitted>>

\* submitInputTime when the read of the internal clock fails, or there is none.
SubmitWithoutInternal(input) ==
    /\ submitted' = input
    /\ result' = IF "internal" \in managed THEN "Failure" ELSE "NoData"
    /\ wrote' = {}
    /\ UNCHANGED <<managed, criteria, device, cache>>

\* The write of one clock: the error it answers and the date of the device then.
Written(input) == {[error |-> "Success", date |-> ToDateTime(input)], [error |-> "Failure", date |-> device]}
NotWritten(error, date) == {[error |-> error, date |-> date]}

\* The read of the external clock after it was written.
\* Mutated: what was read is not kept.
RequeryForgets(corrected, read, date) == cache
Requery(corrected, read, date) == IF corrected /\ read THEN date ELSE cache

\* submitInputTime.  Both differences are taken from the date that was read
\* first; the error of the second write replaces the error of the first; and the
\* external clock is only read after it was written.
Submit(input) ==
    /\ "internal" \in managed
    /\ LET internal == ToUnixTime(device)
           tooFar   == apart(internal, input) > criteria.input
           drifted  == apart(internal, ToUnixTime(cache)) > criteria.external /\ "external" \in managed
       IN \E first \in IF tooFar THEN Written(input) ELSE NotWritten("Success", device) :
          \E second \in IF drifted THEN Written(input) ELSE NotWritten(first.error, first.date),
             read \in BOOLEAN :
            LET corrected == drifted /\ second.error = "Success" IN
            /\ device' = IF corrected THEN second.date ELSE first.date
            /\ cache' = Requery(corrected, read, second.date)
            /\ result' = IF corrected /\ ~read THEN "Failure" ELSE second.error
            /\ wrote' = (IF tooFar THEN {"internal"} ELSE {}) \cup (IF drifted THEN {"external"} ELSE {})
            /\ submitted' = input
    /\ UNCHANGED <<managed, criteria>>

\* externalRtcTime with forceQuery; without an external clock it may not be
\* called (the pointer is null).
QueryExternal ==
    /\ "external" \in managed
    /\ \/ cache' = device /\ result' = "Success"
       \/ cache' = cache /\ result' = "Failure"
    /\ wrote' = {}
    /\ UNCHANGED <<managed, criteria, device, submitted>>

SetCriteria ==
    /\ criteria' \in Criteria
    /\ result' = "None"
    /\ wrote' = {}
    /\ UNCHANGED <<managed, device, cache, submitted>>

Next ==
    \/ NextDay
    \/ \E input \in InputTimes : SubmitWithoutInternal(input) \/ Submit(input)
    \/ QueryExternal
    \/ SetCriteria

Spec == Init /\ [][Next]_vars

----------------------------------------------------------------------------
\* Properties.

\* Types.hpp: ToDateTime is the date that has passed since 1970, and ToUnixTime
\* the seconds of that date.  Not even a day of January comes back as it went.
DatesSurvive == wrote # {} /\ result = "Success" => ToUnixTime(device) = submitted

\* What survives the conversions and the clock is the time of the day: after a
\* write that is reported as a success the clock shows the one submitted.
TimeOfDaySurvives ==
    wrote # {} /\ result = "Success" => timeOfDay(device) = submitted % SecondsInADay

\* After a correction of the external clock that is reported as a success the
\* next comparison starts from the date the clock was corrected to.
CorrectionIsCached == "external" \in wrote /\ result = "Success" => cache = device

\* RtcManager.hpp: "ErrorType::PrerequistitesNotMet if the input time did not
\* meet the criteria"; the code answers Success then.
SuccessIsWritten == [][submitted' # submitted /\ result' = "Success" => wrote' # {}]_vars
============================================================================
