---------------------------- MODULE Nxppcf8506a ----------------------------
(***************************************************************************)
(* The driver of the PCF8506A real time clock.  Every operation is a       *)
(* sequence of transfers on the bus, each of which may fail; the control   *)
(* register is read, changed and written back in two of them, and the      *)
(* errors of stopping and starting the clock are dropped by writeDate.     *)
(* The chip itself is not part of the repository: a control register, the  *)
(* registers of the date, and a reset to the running state.                *)
(***************************************************************************)
EXTENDS Dates, Sequences

CONSTANTS
    Callers,     \* the threads that use the driver
    Values,      \* one component of the dates that are written
    MaxCalls,    \* bound: calls
    MaxFailures  \* bound: transfers that fail

NxpAssumption ==
    /\ Values \subseteq 0..99
    /\ MaxCalls \in Nat
    /\ MaxFailures \in Nat

VARIABLES
    control,   \* the chip: bits of the register Control1
    date,      \* the chip: the registers of the date, in binary coded decimal
    todo,      \* of each caller: the transfers still to be done
    copy,      \* of each caller: controlRegisterData
    value,     \* of each caller: the date to write, or what was read
    error,     \* of each caller: what the operation answers
    calls,
    failures

chip == <<control, date>>
callers == <<todo, copy, value, error>>
vars == <<chip, callers, calls, failures>>

Bits == {"stop", "test", "twelveHours"}
Errors == {"None", "Success", "Failure"}

\* A transfer: what is done, the bits it sets and clears, whether the operation
\* answers its error, and how many transfers are left out when it fails.
Transfer(do, set, clear, answers, skips) ==
    [do |-> do, set |-> set, clear |-> clear, answers |-> answers, skips |-> skips]

\* Read, change and write back the control register: nothing is written when the
\* read fails.
Change(set, clear, answers) ==
    <<Transfer("read", set, clear, answers, 1), Transfer("write", {}, {}, answers, 0)>>

stopClock == Change({"stop"}, {}, FALSE)
startClock == Change({}, {"stop", "test"}, FALSE)

\* Mutated: the clock is not started again.
writeDateOnly == stopClock \o <<Transfer("writeDate", {}, {}, TRUE, 0)>>

writeDate == stopClock \o <<Transfer("writeDate", {}, {}, TRUE, 0)>> \o startClock
readDate == <<Transfer("readDate", {}, {}, TRUE, 0)>>
setHourMode(twentyFour) ==
    IF twentyFour THEN Change({}, {"twelveHours"}, TRUE) ELSE Change({"twelveHours"}, {}, TRUE)
softwareReset ==
    <<Transfer("read", {}, {}, TRUE, 5), Transfer("reset", {}, {}, TRUE, 0)>> \o stopClock \o startClock

Operations == {writeDate, readDate, setHourMode(TRUE), setHourMode(FALSE), softwareReset}

TypeOK ==
    /\ control \subseteq Bits
    /\ date \in 0..MaxByte
    /\ \A c \in Callers : /\ Len(todo[c]) <= Len(softwareReset)
                          /\ copy[c] \subseteq Bits
                          /\ value[c] \in 0..MaxByte
                          /\ error[c] \in Errors
    /\ calls \in 0..MaxCalls
    /\ failures \in 0..MaxFailures

Init ==
    /\ control = {}
    /\ date = 0
    /\ todo = [c \in Callers |-> <<>>]
    /\ copy = [c \in Callers |-> {}]
    /\ value = [c \in Callers |-> 0]
    /\ error = [c \in Callers |-> "None"]
    /\ calls = 0
    /\ failures = 0

Call(c) ==
    /\ todo[c] = <<>>
    /\ calls < MaxCalls
    /\ calls' = calls + 1
    /\ \E operation \in Operations : todo' = [todo EXCEPT ![c] = operation]
    /\ \E v \in Values : value' = [value EXCEPT ![c] = v]
    /\ error' = [error EXCEPT ![c] = "None"]
    /\ UNCHANGED <<chip, copy, failures>>


\* The transfer does what it is for.  A reset puts the control register and the
\* date back.
Transferred(c) ==
    LET t == Head(todo[c]) IN
    /\ todo[c] # <<>>
    /\ todo' = [todo EXCEPT ![c] = Tail(@)]
    /\ error' = IF t.answers THEN [error EXCEPT ![c] = "Success"] ELSE error
    /\ copy' = IF t.do = "read" THEN [copy EXCEPT ![c] = (control \cup t.set) \ t.clear] ELSE copy
    /\ value' = IF t.do = "readDate" THEN [value EXCEPT ![c] = fromBinaryCodedDecimal(date)] ELSE value
    /\ control' = CASE t.do = "write" -> copy[c]
                    [] t.do = "reset" -> {}
                    [] OTHER          -> control
    /\ date' = CASE t.do = "writeDate" -> toBinaryCodedDecimal(value[c])
                 [] t.do = "reset"     -> 0
                 [] OTHER              -> date
    /\ UNCHANGED <<calls, failures>>

\* The transfer fails, and the chip is as it was.
TransferFails(c) ==
    LET t == Head(todo[c]) IN
    /\ todo[c] # <<>>
    /\ failures < MaxFailures
    /\ failures' = failures + 1
    /\ todo' = [todo EXCEPT ![c] = SubSeq(@, 2 + t.skips, Len(@))]
    /\ error' = IF t.answers THEN [error EXCEPT ![c] = "Failure"] ELSE error
    /\ UNCHANGED <<chip, copy, value, calls>>

Next == \E c \in Callers : Call(c) \/ Transferred(c) \/ TransferFails(c)

Spec == Init /\ [][Next]_vars

----------------------------------------------------------------------------
\* Properties.

\* The clock counts whenever nobody is in the middle of an operation, as long as
\* no transfer failed: every operation that stops it starts it again.  (With one
\* caller: a second one may have read the control register while the clock was
\* stopped, and writes that back.)
ClockRuns == (\A c \in Callers : todo[c] = <<>>) /\ failures = 0 => "stop" \notin control

\* RtcAbstraction.hpp: writeDate answers Success if the date was set.  It also
\* does so when the clock could not be started again and stands still.
SuccessLeavesClockRunning ==
    (\A c \in Callers : todo[c] = <<>>) /\ (\A c \in Callers : error[c] = "Success")
        => "stop" \notin control

\* What the chip holds is read as it was written: the date of the chip is one
\* that somebody wrote, or that of the reset.
DateIsOneWritten == fromBinaryCodedDecimal(date) \in Values \cup {0}
============================================================================
