--------------------------- MODULE DevicesProofs ---------------------------
(***************************************************************************)
(* What holds of the drivers for every value of the constants.             *)
(***************************************************************************)
EXTENDS MCDevices, FiniteSets, FiniteSetTheorems, WellFoundedInduction,
        SequenceTheorems, TLAPS

(***************************************************************************)
(* A behaviour of PartSpec is one of a single driver: the steps of its     *)
(* part are the driver's own, and the other parts take none.               *)
(***************************************************************************)
LEMMA PartSteps ==
  ASSUME [PartNext]_allVars
  PROVE  /\ part' = part
         /\ part = "rtc" => [R!Next]_rtcVars
         /\ part = "chip" => [N!Next]_chipVars
         /\ part = "lcd" => [L!Next]_lcdVars
         /\ part = "uart" => [U!Next]_uartVars
         /\ part = "spi" => [B!Next]_spiVars
         /\ part = "motor" => [M!Next]_motorVars
  BY DEF PartNext, allVars, RtcStep, ChipStep, LcdStep, UartStep, SpiStep, MotorStep

-----------------------------------------------------------------------------
(* The clock manager. A date that was made of seconds has their time of    *)
(* day, whatever the loops over the years and the months do to the day.    *)

\* One turn of the loop over the months.
NextMonth(before, year, m) ==
  LET length == R!daysPerMonth(year, m)
  IN  CASE before.day = 0            -> before
        [] before.day \in 1..length  -> [before EXCEPT !.month = m]
        [] OTHER                     -> [before EXCEPT !.day = @ - length]

MonthDay == [month : 0..12, day : Nat]

\* No month has more than 31 days, and with a start of at most a year of days none
\* is ever left with more than the months to come have, or 31.
LEMMA MonthLength ==
  ASSUME NEW year \in Nat, NEW m \in 1..12
  PROVE  /\ R!daysPerMonth(year, m) \in 28..31
         /\ m \in {1, 3, 5, 7, 8, 10, 12} => R!daysPerMonth(year, m) = 31
         /\ m \in {4, 6, 9, 11} => R!daysPerMonth(year, m) = 30
  <1>1. CASE m = 2 /\ (year % 4) # 0
    BY <1>1 DEF R!daysPerMonth
  <1>2. CASE ~(m = 2 /\ (year % 4) # 0)
    <2>1. R!daysPerMonth(year, m) = <<31, 28, 31, 30, 31, 30, 31, 31, 30, 31, 30, 31>>[m]
      BY <1>2 DEF R!daysPerMonth
    <2> QED BY <2>1
  <1> QED BY <1>1, <1>2

LEMMA NextMonthBound ==
  ASSUME NEW year \in Nat, NEW m \in 1..12, NEW before \in MonthDay,
         NEW bound \in Nat, before.day <= bound, bound >= 31,
         NEW rest \in Nat, rest >= 31, rest >= bound - R!daysPerMonth(year, m)
  PROVE  NextMonth(before, year, m) \in MonthDay /\ NextMonth(before, year, m).day <= rest
  <1> DEFINE length == R!daysPerMonth(year, m)
  <1>1. length \in 28..31
    BY MonthLength
  <1>2. CASE before.day = 0
    BY <1>2 DEF NextMonth, MonthDay
  <1>3. CASE before.day \in 1..length
    <2>1. NextMonth(before, year, m) = [before EXCEPT !.month = m]
      BY <1>1, <1>3 DEF NextMonth, MonthDay
    <2> QED BY <1>1, <1>3, <2>1 DEF MonthDay
  <1>4. CASE before.day # 0 /\ before.day \notin 1..length
    <2>1. NextMonth(before, year, m) = [before EXCEPT !.day = before.day - length]
      BY <1>4 DEF NextMonth, MonthDay
    <2> QED BY <1>1, <1>4, <2>1 DEF MonthDay
  <1> QED BY <1>2, <1>3, <1>4

\* The loop over the months is the twelve turns one after the other: the recursive
\* function of MonthAndDay exists.
LEMMA MonthAndDayRange ==
  ASSUME NEW year \in Nat, NEW days \in 0..365
  PROVE  /\ R!MonthAndDay(year, days).day \in 0..31
         /\ R!MonthAndDay(year, days).month \in 0..12
  <1> DEFINE Turn(f, m) == IF m = 0 THEN [month |-> R!UnixTimeZero.month, day |-> days]
                           ELSE NextMonth(f[m - 1], year, m)
             found == CHOOSE f : f = [m \in 0..12 |-> Turn(f, m)]
             r0 == [month |-> R!UnixTimeZero.month, day |-> days]
             r1 == NextMonth(r0, year, 1)
             r2 == NextMonth(r1, year, 2)
             r3 == NextMonth(r2, year, 3)
             r4 == NextMonth(r3, year, 4)
             r5 == NextMonth(r4, year, 5)
             r6 == NextMonth(r5, year, 6)
             r7 == NextMonth(r6, year, 7)
             r8 == NextMonth(r7, year, 8)
             r9 == NextMonth(r8, year, 9)
             r10 == NextMonth(r9, year, 10)
             r11 == NextMonth(r10, year, 11)
             r12 == NextMonth(r11, year, 12)
             all == [m \in 0..12 |-> CASE m = 0 -> r0 [] m = 1 -> r1 [] m = 2 -> r2 [] m = 3 -> r3
                                       [] m = 4 -> r4 [] m = 5 -> r5 [] m = 6 -> r6 [] m = 7 -> r7
                                       [] m = 8 -> r8 [] m = 9 -> r9 [] m = 10 -> r10 [] m = 11 -> r11
                                       [] m = 12 -> r12]
  <1> HIDE DEF found, r0, r1, r2, r3, r4, r5, r6, r7, r8, r9, r10, r11, r12, all
  <1>1. R!MonthAndDay(year, days) = found[12]
    BY DEF R!MonthAndDay, NextMonth, found
  <1>2. r0 \in MonthDay /\ r0.day <= 365
    BY DEF MonthDay, R!UnixTimeZero, r0
  <1>3. r1 \in MonthDay /\ r1.day <= 334
    BY <1>2, MonthLength, NextMonthBound DEF r1
  <1>4. r2 \in MonthDay /\ r2.day <= 306
    BY <1>3, MonthLength, NextMonthBound DEF r2
  <1>5. r3 \in MonthDay /\ r3.day <= 275
    BY <1>4, MonthLength, NextMonthBound DEF r3
  <1>6. r4 \in MonthDay /\ r4.day <= 245
    BY <1>5, MonthLength, NextMonthBound DEF r4
  <1>7. r5 \in MonthDay /\ r5.day <= 214
    BY <1>6, MonthLength, NextMonthBound DEF r5
  <1>8. r6 \in MonthDay /\ r6.day <= 184
    BY <1>7, MonthLength, NextMonthBound DEF r6
  <1>9. r7 \in MonthDay /\ r7.day <= 153
    BY <1>8, MonthLength, NextMonthBound DEF r7
  <1>10. r8 \in MonthDay /\ r8.day <= 122
    BY <1>9, MonthLength, NextMonthBound DEF r8
  <1>11. r9 \in MonthDay /\ r9.day <= 92
    BY <1>10, MonthLength, NextMonthBound DEF r9
  <1>12. r10 \in MonthDay /\ r10.day <= 61
    BY <1>11, MonthLength, NextMonthBound DEF r10
  <1>13. r11 \in MonthDay /\ r11.day <= 31
    BY <1>12, MonthLength, NextMonthBound DEF r11
  <1>14. r12 \in MonthDay /\ r12.day <= 31
    BY <1>13, MonthLength, NextMonthBound DEF r12
  <1>15. all = [m \in 0..12 |-> Turn(all, m)]
    <2>1. /\ all[0] = r0 /\ all[1] = r1 /\ all[2] = r2 /\ all[3] = r3 /\ all[4] = r4 /\ all[5] = r5
          /\ all[6] = r6 /\ all[7] = r7 /\ all[8] = r8 /\ all[9] = r9 /\ all[10] = r10
          /\ all[11] = r11 /\ all[12] = r12
      BY DEF all
    <2>2. ASSUME NEW m \in 0..12 PROVE all[m] = Turn(all, m)
      <3>1. m \in {0, 1, 2, 3, 4, 5, 6, 7, 8, 9, 10, 11, 12}
        OBVIOUS
      <3>2. CASE m \in {0, 1, 2, 3, 4}
        BY <2>1, <3>2 DEF r0, r1, r2, r3, r4
      <3>3. CASE m \in {5, 6, 7, 8}
        BY <2>1, <3>3 DEF r5, r6, r7, r8
      <3>4. CASE m \in {9, 10, 11, 12}
        BY <2>1, <3>4 DEF r9, r10, r11, r12
      <3> QED BY <3>1, <3>2, <3>3, <3>4
    <2>3. all = [m \in 0..12 |-> all[m]]
      BY DEF all
    <2> QED BY <2>2, <2>3
  <1>16. found = [m \in 0..12 |-> Turn(found, m)]
    <2> HIDE DEF Turn
    <2> QED BY <1>15 DEF found
  <1>17. found[12] = r12
    <2>1. \A m \in 1..12 : found[m] = NextMonth(found[m - 1], year, m)
      BY <1>16
    <2>2. found[0] = r0
      BY <1>16 DEF r0
    <2> HIDE DEF Turn
    <2>3. found[1] = r1 /\ found[2] = r2 /\ found[3] = r3 /\ found[4] = r4
      BY <2>1, <2>2 DEF r1, r2, r3, r4
    <2>4. found[5] = r5 /\ found[6] = r6 /\ found[7] = r7 /\ found[8] = r8
      BY <2>1, <2>3 DEF r5, r6, r7, r8
    <2> QED BY <2>1, <2>4 DEF r9, r10, r11, r12
  <1> QED BY <1>1, <1>14, <1>17 DEF MonthDay

LEMMA WidestYear == R!MaxYear \in Nat /\ R!MaxYear >= 200
  BY DEF R!MaxYear

\* A date made of seconds is a date, and has their time of day.
LEMMA DateOfSeconds ==
  ASSUME NEW seconds \in Nat
  PROVE  /\ R!ToDateTime(seconds) \in R!DateTime
         /\ R!timeOfDay(R!ToDateTime(seconds)) = seconds % R!SecondsInADay
  <1> DEFINE days == (seconds \div 86400) % 65536
             rest == seconds % 86400
             year == days \div 366
             md == R!MonthAndDay(year, days % 366)
  <1>1. rest \in Nat /\ rest < 86400
    OBVIOUS
  <1>1a. days \in Nat /\ days < 65536
    <2>1. PICK d \in Nat : d = seconds \div 86400
      OBVIOUS
    <2>2. (d % 65536) \in Nat /\ (d % 65536) < 65536
      OBVIOUS
    <2> QED BY <2>1, <2>2
  <1>2. R!ToDateTime(seconds) = [second |-> rest % 60, minute |-> (rest % 3600) \div 60,
                                 hour |-> rest \div 3600, day |-> md.day, month |-> md.month,
                                 year |-> year]
    BY DEF R!ToDateTime, R!SecondsInADay
  <1> HIDE DEF days, rest
  <1>3. year \in Nat /\ year <= 200 /\ (days % 366) \in 0..365
    <2>1. (days \div 366) <= 200 /\ 0 <= (days \div 366)
      BY <1>1a
    <2>2. (days % 366) \in 0..365
      BY <1>1a
    <2>3. (days \div 366) \in Int
      BY <1>1a
    <2> QED BY <2>1, <2>2, <2>3
  <1>4. md.day \in 0..31 /\ md.month \in 0..12
    <2>1. \A y \in Nat, d \in 0..365 : R!MonthAndDay(y, d).day \in 0..31 /\ R!MonthAndDay(y, d).month \in 0..12
      BY MonthAndDayRange
    <2> HIDE DEF year
    <2> QED BY <1>3, <2>1
  <1> HIDE DEF md, year
  <1>5. /\ (rest % 60) \in 0..59
        /\ ((rest % 3600) \div 60) \in 0..59
        /\ (rest \div 3600) \in 0..23
        /\ (rest \div 3600) * 3600 + ((rest % 3600) \div 60) * 60 + (rest % 60) = rest
    <2>1. (rest % 60) \in 0..59
      BY <1>1
    <2>2. ((rest % 3600) \div 60) \in 0..59
      <3>1. PICK r \in Nat : r = rest % 3600 /\ r < 3600
        BY <1>1
      <3>2. (r \div 60) \in Nat /\ (r \div 60) < 60
        BY <3>1
      <3> QED BY <3>1, <3>2
    <2>3. (rest \div 3600) \in 0..23
      <3>1. (rest \div 3600) \in Nat /\ (rest \div 3600) < 24
        BY <1>1
      <3> QED BY <3>1
    <2>4. (rest \div 3600) * 3600 + ((rest % 3600) \div 60) * 60 + (rest % 60) = rest
      BY <1>1
    <2> QED BY <2>1, <2>2, <2>3, <2>4
  <1>6. R!ToDateTime(seconds) \in R!DateTime
    <2>1. year \in 0..R!MaxYear
      BY <1>3, WidestYear
    <2> QED BY <1>2, <1>4, <1>5, <2>1 DEF R!DateTime
  <1>7. R!timeOfDay(R!ToDateTime(seconds)) = rest
    BY <1>2, <1>5 DEF R!timeOfDay
  <1> QED BY <1>6, <1>7 DEF rest, R!SecondsInADay

RtcInv == R!TypeOK /\ R!TimeOfDaySurvives /\ R!CorrectionIsCached
RtcPart == part = "rtc" => RtcInv

LEMMA RtcStart ==
  ASSUME R!Init
  PROVE  RtcInv
  <1>1. device \in R!DateTime /\ InputTimes \subseteq Nat
    BY Parameters, DateOfSeconds DEF R!Init, R!RtcAssumption
  <1>2. R!UnixTimeZero \in R!DateTime
    BY WidestYear DEF R!UnixTimeZero, R!DateTime
  <1> QED BY <1>1, <1>2 DEF R!Init, RtcInv, R!TypeOK, R!Results, R!TimeOfDaySurvives, R!CorrectionIsCached

LEMMA RtcKeepsByOthers ==
  ASSUME RtcInv,
         \/ R!NextDay \/ R!QueryExternal \/ R!SetCriteria
         \/ \E input \in InputTimes : R!SubmitWithoutInternal(input)
  PROVE  RtcInv'
  <1> USE DEF RtcInv
  <1>1. wrote' = {}
    BY DEF R!NextDay, R!QueryExternal, R!SetCriteria, R!SubmitWithoutInternal
  <1>2. /\ managed' = managed /\ criteria' \in Criteria /\ submitted' \in InputTimes
        /\ rtcResult' \in R!Results /\ cache' \in R!DateTime
    BY DEF R!NextDay, R!QueryExternal, R!SetCriteria, R!SubmitWithoutInternal, R!TypeOK, R!Results
  <1>3. device' \in R!DateTime
    <2>1. CASE R!NextDay
      <3>1. MaxDays \in 0..31
        BY Parameters DEF R!RtcAssumption
      <3>2. device \in R!DateTime
        BY DEF R!TypeOK
      <3>3. device' = [device EXCEPT !.day = device.day + 1] /\ device.day < MaxDays
        BY <2>1 DEF R!NextDay
      <3>4. device.day + 1 \in 0..31
        <4>1. device.day \in 0..31
          BY <3>2 DEF R!DateTime
        <4> QED BY <3>1, <3>3, <4>1
      <3> QED BY <3>2, <3>3, <3>4 DEF R!DateTime
    <2>2. CASE device' = device
      BY <2>2 DEF R!TypeOK
    <2> QED BY <2>1, <2>2 DEF R!QueryExternal, R!SetCriteria, R!SubmitWithoutInternal
  <1>4. R!TypeOK'
    BY <1>1, <1>2, <1>3 DEF R!TypeOK
  <1> QED BY <1>1, <1>4 DEF R!TimeOfDaySurvives, R!CorrectionIsCached

\* Every write takes the input time; what the second write answers is what is
\* answered, and a correction that succeeded has been read back.
LEMMA SubmitKeeps ==
  ASSUME RtcInv, NEW input \in InputTimes, R!Submit(input)
  PROVE  RtcInv'
  <1> USE DEF RtcInv
  <1> DEFINE internal == R!ToUnixTime(device)
             far == R!apart(internal, input) > criteria.input
             drift == R!apart(internal, R!ToUnixTime(cache)) > criteria.external /\ "external" \in managed
  <1>1. PICK first \in IF far THEN R!Written(input) ELSE R!NotWritten("Success", device) :
        \E second \in IF drift THEN R!Written(input) ELSE R!NotWritten(first.error, first.date),
           read \in BOOLEAN :
          LET corrected == drift /\ second.error = "Success" IN
          /\ device' = IF corrected THEN second.date ELSE first.date
          /\ cache' = R!Requery(corrected, read, second.date)
          /\ rtcResult' = IF corrected /\ ~read THEN "Failure" ELSE second.error
          /\ wrote' = (IF far THEN {"internal"} ELSE {}) \cup (IF drift THEN {"external"} ELSE {})
          /\ submitted' = input
    BY DEF R!Submit
  <1>2. PICK second \in IF drift THEN R!Written(input) ELSE R!NotWritten(first.error, first.date),
             read \in BOOLEAN :
          LET corrected == drift /\ second.error = "Success" IN
          /\ device' = IF corrected THEN second.date ELSE first.date
          /\ cache' = R!Requery(corrected, read, second.date)
          /\ rtcResult' = IF corrected /\ ~read THEN "Failure" ELSE second.error
          /\ wrote' = (IF far THEN {"internal"} ELSE {}) \cup (IF drift THEN {"external"} ELSE {})
          /\ submitted' = input
    BY <1>1
  <1>3. managed' = managed /\ criteria' = criteria /\ "internal" \in managed
    BY DEF R!Submit
  <1>4. "external" \in managed \/ ~drift
    OBVIOUS
  <1> HIDE DEF far, drift
  <1>5. PICK made : made = R!ToDateTime(input)
    OBVIOUS
  <1>6. made \in R!DateTime /\ R!timeOfDay(made) = input % R!SecondsInADay
    <2>1. input \in Nat
      BY Parameters DEF R!RtcAssumption
    <2> QED BY <1>5, <2>1, DateOfSeconds
  <1>7. /\ first.error \in {"Success", "Failure"}
        /\ first.date \in {made, device}
        /\ far /\ first.error = "Success" => first.date = made
        /\ ~far => first.error = "Success" /\ first.date = device
    BY <1>5 DEF R!Written, R!NotWritten
  <1>8. /\ second.error \in {"Success", "Failure"}
        /\ second.date \in {made, device}
        /\ drift /\ second.error = "Success" => second.date = made
        /\ ~drift => second.error = first.error /\ second.date = first.date
    BY <1>5, <1>7 DEF R!Written, R!NotWritten
  <1>9. CASE drift /\ second.error = "Success"
    <2>1. device' = made /\ submitted' = input /\ rtcResult' \in {"Success", "Failure"}
      BY <1>2, <1>8, <1>9
    <2>2. cache' = IF read THEN made ELSE cache
      BY <1>2, <1>8, <1>9 DEF R!Requery
    <2>3. rtcResult' = "Success" => cache' = device'
      BY <1>2, <1>9, <2>1, <2>2
    <2>4. wrote' \subseteq managed'
      BY <1>2, <1>3, <1>4, <1>9
    <2>5. R!TypeOK'
      BY <1>3, <1>6, <2>1, <2>2, <2>4 DEF R!TypeOK, R!Results
    <2> QED BY <1>6, <2>1, <2>3, <2>5 DEF R!TimeOfDaySurvives, R!CorrectionIsCached
  <1>10. CASE ~(drift /\ second.error = "Success")
    <2>1. /\ device' = first.date /\ cache' = cache /\ submitted' = input
          /\ rtcResult' = second.error
      BY <1>2, <1>10 DEF R!Requery
    <2>2. wrote' \subseteq managed' /\ ("external" \in wrote' => drift) /\ (wrote' # {} => far \/ drift)
      BY <1>2, <1>3, <1>4
    <2>3. R!TypeOK'
      BY <1>3, <1>6, <1>7, <1>8, <2>1, <2>2 DEF R!TypeOK, R!Results
    <2>4. wrote' # {} /\ rtcResult' = "Success" => device' = made
      BY <1>7, <1>8, <1>10, <2>1, <2>2
    <2> QED BY <1>6, <1>10, <2>1, <2>2, <2>3, <2>4 DEF R!TimeOfDaySurvives, R!CorrectionIsCached
  <1> QED BY <1>9, <1>10

LEMMA RtcAlways == PartSpec => []RtcPart
  <1>1. PartInit => RtcPart
    BY RtcStart DEF PartInit, RtcPart
  <1>2. RtcPart /\ [PartNext]_allVars => RtcPart'
    <2> SUFFICES ASSUME part = "rtc", RtcInv, [R!Next]_rtcVars PROVE RtcInv'
      BY PartSteps DEF RtcPart
    <2>1. CASE UNCHANGED rtcVars
      BY <2>1 DEF rtcVars, RtcInv, R!TypeOK, R!TimeOfDaySurvives, R!CorrectionIsCached
    <2> QED BY <2>1, RtcKeepsByOthers, SubmitKeeps DEF R!Next
  <1> QED BY <1>1, <1>2, PTL DEF PartSpec

\* A write that is reported as a success leaves the time of day on the clock that
\* was submitted, and a correction what the manager compares with next, for any
\* times and criteria (RtcManager.cpp, submitInputTime; Types.hpp, ToDateTime).
THEOREM ClockStaysSet == PartSpec => []ClockIsSetRight
  <1>1. RtcPart => ClockIsSetRight
    BY DEF RtcPart, RtcInv, ClockIsSetRight
  <1> QED BY <1>1, RtcAlways, PTL

-----------------------------------------------------------------------------
(* The clock chip: with one thread that uses it, and no transfer that      *)
(* failed, what a call has yet to do tells whether the clock may be        *)
(* stopped.                                                                *)

Read(set, clear, answers) == N!Transfer("read", set, clear, answers, 1)
WriteBack == N!Transfer("write", {}, {}, FALSE, 0)
WriteMode == N!Transfer("write", {}, {}, TRUE, 0)
Start == Read({}, {"stop", "test"}, FALSE)
Stop == Read({"stop"}, {}, FALSE)
SetDate == N!Transfer("writeDate", {}, {}, TRUE, 0)
GetDate == N!Transfer("readDate", {}, {}, TRUE, 0)
BeginReset == N!Transfer("read", {}, {}, TRUE, 5)
Reset == N!Transfer("reset", {}, {}, TRUE, 0)
To24 == Read({}, {"twelveHours"}, TRUE)
To12 == Read({"twelveHours"}, {}, TRUE)

Transfers == [do : {"read", "write", "writeDate", "readDate", "reset"}, set : SUBSET N!Bits,
              clear : SUBSET N!Bits, answers : BOOLEAN, skips : Nat]

\* What is left of an operation when the clock runs, and when it may be stopped.
Running == {<<>>, <<GetDate>>, <<WriteMode>>,
            <<To24, WriteMode>>, <<To12, WriteMode>>,
            <<Stop, WriteBack, SetDate, Start, WriteBack>>,
            <<Stop, WriteBack, Start, WriteBack>>,
            <<Reset, Stop, WriteBack, Start, WriteBack>>,
            <<BeginReset, Reset, Stop, WriteBack, Start, WriteBack>>}
Stopped == {<<WriteBack>>, <<Start, WriteBack>>, <<SetDate, Start, WriteBack>>,
            <<WriteBack, SetDate, Start, WriteBack>>, <<WriteBack, Start, WriteBack>>}
IsLastWrite(s) == Len(s) = 1 /\ s[1].do = "write"

Components == Values \cup {0}

ChipTypes ==
  /\ control \subseteq N!Bits
  /\ date \in {N!toBinaryCodedDecimal(v) : v \in Components}
  /\ todo \in [Callers -> Seq(Transfers)]
  /\ \A k \in Callers : Len(todo[k]) <= 6
  /\ copy \in [Callers -> SUBSET N!Bits]
  /\ value \in [Callers -> Components]
  /\ error \in [Callers -> N!Errors]
  /\ chipCalls \in 0..MaxCalls /\ failures \in 0..MaxFailures

ClockInv(c) ==
  failures = 0 =>
    /\ todo[c] \in Running \cup Stopped
    /\ "stop" \in control => todo[c] \in Stopped
    /\ IsLastWrite(todo[c]) => "stop" \notin copy[c]

ChipInv(c) == ChipTypes /\ ClockInv(c)

-----------------------------------------------------------------------------
LEMMA CodedDecimal ==
  ASSUME NEW v \in Components
  PROVE  /\ N!toBinaryCodedDecimal(v) \in 0..N!MaxByte
         /\ v \in 0..N!MaxByte
         /\ N!fromBinaryCodedDecimal(N!toBinaryCodedDecimal(v)) = v
  <1>1. v \in Nat /\ v <= 99
    BY Parameters DEF Components, N!NxpAssumption
  <1>2. N!MaxByte \in Nat /\ N!MaxByte >= 255
    BY DEF N!MaxByte
  <1>3. PICK tens \in Nat : tens = v \div 10 /\ tens <= 9
    BY <1>1
  <1>4. PICK ones \in Nat : ones = v % 10 /\ ones <= 9
    BY <1>1
  <1>5. v = tens * 10 + ones
    BY <1>1, <1>3, <1>4
  <1>6. ((tens * 16) % 256) = tens * 16
    BY <1>3
  <1>7. N!toBinaryCodedDecimal(v) = tens * 16 + ones
    BY <1>3, <1>4, <1>6 DEF N!toBinaryCodedDecimal
  <1>8. ((tens * 16 + ones) % 16) = ones /\ ((tens * 16 + ones) \div 16) = tens
    BY <1>3, <1>4
  <1> QED BY <1>1, <1>2, <1>3, <1>4, <1>5, <1>7, <1>8 DEF N!fromBinaryCodedDecimal

LEMMA TransferTypes ==
  /\ Start \in Transfers /\ Stop \in Transfers /\ SetDate \in Transfers /\ GetDate \in Transfers
  /\ BeginReset \in Transfers /\ Reset \in Transfers
  /\ WriteMode \in Transfers /\ WriteBack \in Transfers
  /\ To24 \in Transfers /\ To12 \in Transfers
  BY DEF Start, Stop, SetDate, GetDate, BeginReset, Reset, WriteBack, WriteMode, To24, To12, Read, Transfers,
         N!Transfer, N!Bits

LEMMA SameSequence ==
  ASSUME NEW T, NEW s \in Seq(T), NEW r \in Seq(T), Len(s) = Len(r),
         \A i \in 1..Len(s) : s[i] = r[i]
  PROVE  s = r
  OBVIOUS

LEMMA JoinedOfFive ==
  ASSUME NEW a \in Transfers, NEW b \in Transfers, NEW c \in Transfers, NEW d \in Transfers, NEW e \in Transfers
  PROVE  <<a, b>> \o <<c>> \o <<d, e>> = <<a, b, c, d, e>>
  <1>1. <<a, b>> \in Seq(Transfers) /\ <<c>> \in Seq(Transfers) /\ <<d, e>> \in Seq(Transfers)
    OBVIOUS
  <1>2. <<a, b, c, d, e>> \in Seq(Transfers)
    OBVIOUS
  <1>3. <<a, b>> \o <<c>> \o <<d, e>> \in Seq(Transfers)
    BY <1>1
  <1>4. PICK joined \in Seq(Transfers) : joined = <<a, b>> \o <<c>> \o <<d, e>>
    BY <1>3
  <1>5. PICK whole \in Seq(Transfers) : whole = <<a, b, c, d, e>>
    BY <1>2
  <1>6. Len(joined) = 5 /\ joined[1] = a /\ joined[2] = b /\ joined[3] = c /\ joined[4] = d /\ joined[5] = e
    BY <1>4
  <1>7. Len(whole) = 5 /\ whole[1] = a /\ whole[2] = b /\ whole[3] = c /\ whole[4] = d /\ whole[5] = e
    BY <1>5
  <1>8. ASSUME NEW i \in 1..5 PROVE joined[i] = whole[i]
    <2>1. i \in {1, 2, 3, 4, 5}
      OBVIOUS
    <2> QED BY <1>6, <1>7, <2>1
  <1>9. joined = whole
    BY <1>6, <1>7, <1>8, SameSequence
  <1> QED BY <1>4, <1>5, <1>9

LEMMA JoinedOfSix ==
  ASSUME NEW a \in Transfers, NEW b \in Transfers, NEW c \in Transfers, NEW d \in Transfers, NEW e \in Transfers, NEW f \in Transfers
  PROVE  <<a, b>> \o <<c, d>> \o <<e, f>> = <<a, b, c, d, e, f>>
  <1>1. <<a, b>> \in Seq(Transfers) /\ <<c, d>> \in Seq(Transfers) /\ <<e, f>> \in Seq(Transfers)
    OBVIOUS
  <1>2. <<a, b, c, d, e, f>> \in Seq(Transfers)
    OBVIOUS
  <1>3. <<a, b>> \o <<c, d>> \o <<e, f>> \in Seq(Transfers)
    BY <1>1
  <1>4. PICK joined \in Seq(Transfers) : joined = <<a, b>> \o <<c, d>> \o <<e, f>>
    BY <1>3
  <1>5. PICK whole \in Seq(Transfers) : whole = <<a, b, c, d, e, f>>
    BY <1>2
  <1>6. Len(joined) = 6 /\ joined[1] = a /\ joined[2] = b /\ joined[3] = c /\ joined[4] = d /\ joined[5] = e /\ joined[6] = f
    BY <1>4
  <1>7. Len(whole) = 6 /\ whole[1] = a /\ whole[2] = b /\ whole[3] = c /\ whole[4] = d /\ whole[5] = e /\ whole[6] = f
    BY <1>5
  <1>8. ASSUME NEW i \in 1..6 PROVE joined[i] = whole[i]
    <2>1. i \in {1, 2, 3, 4, 5, 6}
      OBVIOUS
    <2> QED BY <1>6, <1>7, <2>1
  <1>9. joined = whole
    BY <1>6, <1>7, <1>8, SameSequence
  <1> QED BY <1>4, <1>5, <1>9

\* What an operation consists of.
LEMMA OperationsAre ==
  /\ N!Operations = {<<Stop, WriteBack, SetDate, Start, WriteBack>>, <<GetDate>>,
                     <<To24, WriteMode>>, <<To12, WriteMode>>,
                     <<BeginReset, Reset, Stop, WriteBack, Start, WriteBack>>}
  /\ Len(N!softwareReset) = 6
  <1>1. N!stopClock = <<Stop, WriteBack>> /\ N!startClock = <<Start, WriteBack>>
    BY DEF N!stopClock, N!startClock, N!Change, Stop, Start, WriteBack, Read
  <1>2. N!writeDate = <<Stop, WriteBack, SetDate, Start, WriteBack>>
    <2>1. N!writeDate = <<Stop, WriteBack>> \o <<SetDate>> \o <<Start, WriteBack>>
      BY <1>1 DEF N!writeDate, SetDate
    <2> QED BY <2>1, TransferTypes, JoinedOfFive
  <1>3. N!readDate = <<GetDate>>
    BY DEF N!readDate, GetDate
  <1>4. /\ N!setHourMode(TRUE) = <<To24, WriteMode>>
        /\ N!setHourMode(FALSE) = <<To12, WriteMode>>
    BY DEF N!setHourMode, N!Change, To24, To12, WriteMode, Read
  <1>5. N!softwareReset = <<BeginReset, Reset, Stop, WriteBack, Start, WriteBack>>
    <2>1. N!softwareReset = <<BeginReset, Reset>> \o <<Stop, WriteBack>> \o <<Start, WriteBack>>
      BY <1>1 DEF N!softwareReset, BeginReset, Reset
    <2>2. <<BeginReset, Reset>> \o <<Stop, WriteBack>> \o <<Start, WriteBack>>
            = <<BeginReset, Reset, Stop, WriteBack, Start, WriteBack>>
      BY TransferTypes, JoinedOfSix
    <2> QED BY <2>1, <2>2
  <1>6. Len(N!softwareReset) = 6
    BY <1>5
  <1> QED BY <1>2, <1>3, <1>4, <1>5, <1>6 DEF N!Operations

LEMMA OperationTypes ==
  ASSUME NEW operation \in N!Operations
  PROVE  /\ operation \in Seq(Transfers) /\ Len(operation) <= 6 /\ operation \in Running
         /\ ~IsLastWrite(operation)
  <1>1. /\ <<Stop, WriteBack, SetDate, Start, WriteBack>> \in Seq(Transfers)
        /\ <<GetDate>> \in Seq(Transfers)
        /\ <<To24, WriteMode>> \in Seq(Transfers)
        /\ <<To12, WriteMode>> \in Seq(Transfers)
        /\ <<BeginReset, Reset, Stop, WriteBack, Start, WriteBack>> \in Seq(Transfers)
    BY TransferTypes
  <1>2. operation \in Running
    BY OperationsAre DEF Running
  <1>3. /\ Len(<<Stop, WriteBack, SetDate, Start, WriteBack>>) <= 6
        /\ Len(<<GetDate>>) <= 6
        /\ Len(<<To24, WriteMode>>) <= 6
        /\ Len(<<To12, WriteMode>>) <= 6
        /\ Len(<<BeginReset, Reset, Stop, WriteBack, Start, WriteBack>>) <= 6
    OBVIOUS
  <1>4. GetDate.do = "readDate"
    BY DEF GetDate, N!Transfer
  <1>5. ~IsLastWrite(operation)
    <2>1. CASE operation = <<GetDate>>
      BY <1>4, <2>1 DEF IsLastWrite
    <2>2. CASE operation # <<GetDate>>
      <3>1. Len(operation) # 1
        BY <2>2, OperationsAre
      <3> QED BY <3>1 DEF IsLastWrite
    <2> QED BY <2>1, <2>2
  <1> QED BY <1>1, <1>2, <1>3, <1>5, OperationsAre

LEMMA ChipStart ==
  ASSUME NEW c, Callers = {c}, N!Init
  PROVE  ChipInv(c)
  <1>1. 0 \in Components /\ N!toBinaryCodedDecimal(0) = 0
    BY DEF Components, N!toBinaryCodedDecimal
  <1>2. <<>> \in Seq(Transfers) /\ Len(<<>>) <= 6
    OBVIOUS
  <1>3. ChipTypes
    BY <1>1, <1>2, Parameters DEF N!Init, ChipTypes, N!Errors, N!NxpAssumption
  <1>4. ClockInv(c)
    <2>1. todo[c] = <<>> /\ control = {} /\ copy[c] = {}
      BY DEF N!Init
    <2> QED BY <2>1 DEF ClockInv, Running, IsLastWrite
  <1> QED BY <1>3, <1>4 DEF ChipInv

LEMMA ChipCallKeeps ==
  ASSUME NEW c, Callers = {c}, ChipInv(c), N!Call(c)
  PROVE  ChipInv(c)'
  <1> USE DEF ChipInv
  <1>1. PICK operation \in N!Operations : todo' = [todo EXCEPT ![c] = operation]
    BY DEF N!Call
  <1>2. PICK v \in Values : value' = [value EXCEPT ![c] = v]
    BY DEF N!Call
  <1>3. /\ control' = control /\ date' = date /\ copy' = copy /\ failures' = failures
        /\ error' = [error EXCEPT ![c] = "None"]
        /\ todo[c] = <<>> /\ chipCalls < MaxCalls /\ chipCalls' = chipCalls + 1
    BY DEF N!Call, N!chip
  <1>4. operation \in Seq(Transfers) /\ Len(operation) <= 6 /\ operation \in Running
    BY OperationTypes
  <1>5. todo' \in [Callers -> Seq(Transfers)] /\ \A k \in Callers : Len(todo'[k]) <= 6
    BY <1>1, <1>4 DEF ChipTypes
  <1>6. value' \in [Callers -> Components] /\ error' \in [Callers -> N!Errors]
    BY <1>2, <1>3 DEF ChipTypes, Components, N!Errors
  <1>7. chipCalls' \in 0..MaxCalls
    BY <1>3, Parameters DEF ChipTypes, N!NxpAssumption
  <1>8. ChipTypes'
    BY <1>3, <1>5, <1>6, <1>7 DEF ChipTypes
  <1>9. todo'[c] = operation
    BY <1>1 DEF ChipTypes
  <1>10. ~IsLastWrite(operation)
    BY OperationTypes
  <1>11. <<>> \notin Stopped
    BY DEF Stopped
  <1>12. ClockInv(c)'
    BY <1>3, <1>4, <1>9, <1>10, <1>11 DEF ClockInv
  <1> QED BY <1>8, <1>12

\* A transfer that fails only shortens what is left to do.
LEMMA TransferFailsKeeps ==
  ASSUME NEW c, Callers = {c}, ChipInv(c), N!TransferFails(c)
  PROVE  ChipInv(c)'
  <1> USE DEF ChipInv
  <1>1. PICK s \in Seq(Transfers) : s = todo[c] /\ Len(s) <= 6
    BY DEF ChipTypes
  <1>2. PICK n \in Nat : n = 2 + Head(s).skips /\ n >= 2
    <2>1. s # <<>>
      BY <1>1 DEF N!TransferFails
    <2>2. Head(s) \in Transfers
      BY <2>1
    <2>3. Head(s).skips \in Nat
      BY <2>2 DEF Transfers
    <2> QED BY <2>3
  <1>3. /\ control' = control /\ date' = date /\ copy' = copy /\ value' = value
        /\ chipCalls' = chipCalls
        /\ failures < MaxFailures /\ failures' = failures + 1
        /\ todo' = [todo EXCEPT ![c] = SubSeq(s, n, Len(s))]
        /\ s # <<>>
    BY <1>1, <1>2 DEF N!TransferFails, N!chip
  <1>4. SubSeq(s, n, Len(s)) \in Seq(Transfers) /\ Len(SubSeq(s, n, Len(s))) <= 6
    <2>1. CASE n <= Len(s)
      BY <1>1, <1>2, <2>1
    <2>2. CASE n > Len(s)
      BY <1>1, <1>2, <2>2
    <2> QED BY <1>1, <1>2, <2>1, <2>2
  <1>5. todo' \in [Callers -> Seq(Transfers)] /\ \A k \in Callers : Len(todo'[k]) <= 6
    BY <1>3, <1>4 DEF ChipTypes
  <1>6. error' \in [Callers -> N!Errors]
    BY DEF N!TransferFails, ChipTypes, N!Errors
  <1>7. failures' \in 0..MaxFailures /\ failures' # 0
    BY <1>3, Parameters DEF ChipTypes, N!NxpAssumption
  <1> QED BY <1>3, <1>5, <1>6, <1>7 DEF ChipTypes, ClockInv

\* What a step does, in terms of the transfer at the front.
LEMMA TransferredTypes ==
  ASSUME NEW c, Callers = {c}, ChipInv(c), N!Transferred(c)
  PROVE  ChipTypes'
  <1> USE DEF ChipInv
  <1>1. PICK s \in Seq(Transfers) : s = todo[c] /\ Len(s) <= 6 /\ s # <<>>
    BY DEF ChipTypes, N!Transferred
  <1>2. PICK t \in Transfers : t = Head(s)
    BY <1>1
  <1>3. /\ todo' = [todo EXCEPT ![c] = Tail(s)]
        /\ chipCalls' = chipCalls /\ failures' = failures
    BY <1>1 DEF N!Transferred
  <1>4. Tail(s) \in Seq(Transfers) /\ Len(Tail(s)) <= 6
    BY <1>1
  <1>5. todo' \in [Callers -> Seq(Transfers)] /\ \A k \in Callers : Len(todo'[k]) <= 6
    BY <1>3, <1>4 DEF ChipTypes
  <1>6. error' \in [Callers -> N!Errors]
    BY DEF N!Transferred, ChipTypes, N!Errors
  <1>7. copy' \in [Callers -> SUBSET N!Bits] /\ control' \subseteq N!Bits
    <2>1. copy' = [copy EXCEPT ![c] = (control \cup t.set) \ t.clear] \/ copy' = copy
      BY <1>1, <1>2 DEF N!Transferred
    <2>2. control' \in {copy[c], {}, control}
      BY DEF N!Transferred
    <2> QED BY <2>1, <2>2 DEF ChipTypes, Transfers
  <1>8. value' \in [Callers -> Components]
    <2>1. N!fromBinaryCodedDecimal(date) \in Components
      BY CodedDecimal DEF ChipTypes
    <2>2. value' = [value EXCEPT ![c] = N!fromBinaryCodedDecimal(date)] \/ value' = value
      BY DEF N!Transferred
    <2> QED BY <2>1, <2>2 DEF ChipTypes
  <1>9. date' \in {N!toBinaryCodedDecimal(v) : v \in Components}
    <2>1. N!toBinaryCodedDecimal(0) = 0 /\ 0 \in Components
      BY DEF Components, N!toBinaryCodedDecimal
    <2>2. date' \in {N!toBinaryCodedDecimal(value[c]), 0, date}
      BY DEF N!Transferred
    <2> QED BY <2>1, <2>2 DEF ChipTypes
  <1> QED BY <1>3, <1>5, <1>6, <1>7, <1>8, <1>9 DEF ChipTypes

\* The transfers one after the other, with the bits that a read takes.
LEMMA Shortened ==
  ASSUME NEW s \in Running \cup Stopped, s # <<>>
  PROVE  /\ Tail(s) \in Running \cup Stopped
         /\ Head(s).do # "write" /\ Head(s).do # "reset" /\ s \in Stopped => Tail(s) \in Stopped
         /\ IsLastWrite(s) => Tail(s) = <<>>
         /\ Head(s).do = "write" /\ ~IsLastWrite(s) => Tail(s) \in Stopped
         /\ IsLastWrite(Tail(s)) => "stop" \notin Head(s).set /\ Head(s).do = "read"
         /\ IsLastWrite(Tail(s)) /\ s \in Stopped => "stop" \in Head(s).clear
  <1>1. /\ Stop.do = "read" /\ Start.do = "read" /\ To24.do = "read" /\ To12.do = "read"
        /\ BeginReset.do = "read" /\ Reset.do = "reset" /\ WriteBack.do = "write"
        /\ WriteMode.do = "write" /\ SetDate.do = "writeDate" /\ GetDate.do = "readDate"
    BY DEF Stop, Start, To24, To12, BeginReset, Reset, WriteBack, WriteMode, SetDate, GetDate,
           Read, N!Transfer
  <1>2. /\ "stop" \notin Start.set /\ "stop" \notin To24.set /\ "stop" \notin To12.set
        /\ "stop" \in Start.clear
    BY DEF Start, To24, To12, Read, N!Transfer
  <1>3. CASE s = <<GetDate>>
    <2>1. Tail(s) = <<>> /\ Head(s) = GetDate /\ Len(s) = 1
      BY <1>3
    <2>2. Len(<<>>) = 0
      OBVIOUS
    <2> QED BY <1>1, <1>2, <1>3, <2>1, <2>2 DEF Running, Stopped, IsLastWrite
  <1>4. CASE s = <<WriteMode>>
    <2>1. Tail(s) = <<>> /\ Head(s) = WriteMode /\ Len(s) = 1
      BY <1>4
    <2>2. Len(<<>>) = 0
      OBVIOUS
    <2> QED BY <1>1, <1>2, <1>4, <2>1, <2>2 DEF Running, Stopped, IsLastWrite
  <1>5. CASE s = <<WriteBack>>
    <2>1. Tail(s) = <<>> /\ Head(s) = WriteBack /\ Len(s) = 1
      BY <1>5
    <2>2. Len(<<>>) = 0
      OBVIOUS
    <2> QED BY <1>1, <1>2, <1>5, <2>1, <2>2 DEF Running, Stopped, IsLastWrite
  <1>6. CASE s = <<To24, WriteMode>>
    <2>1. Tail(s) = <<WriteMode>> /\ Head(s) = To24 /\ Len(s) = 2
      BY <1>6
    <2>2. Len(<<WriteMode>>) = 1
      OBVIOUS
    <2> QED BY <1>1, <1>2, <1>6, <2>1, <2>2 DEF Running, Stopped, IsLastWrite
  <1>7. CASE s = <<To12, WriteMode>>
    <2>1. Tail(s) = <<WriteMode>> /\ Head(s) = To12 /\ Len(s) = 2
      BY <1>7
    <2>2. Len(<<WriteMode>>) = 1
      OBVIOUS
    <2> QED BY <1>1, <1>2, <1>7, <2>1, <2>2 DEF Running, Stopped, IsLastWrite
  <1>8. CASE s = <<Start, WriteBack>>
    <2>1. Tail(s) = <<WriteBack>> /\ Head(s) = Start /\ Len(s) = 2
      BY <1>8
    <2>2. Len(<<WriteBack>>) = 1
      OBVIOUS
    <2> QED BY <1>1, <1>2, <1>8, <2>1, <2>2 DEF Running, Stopped, IsLastWrite
  <1>9. CASE s = <<SetDate, Start, WriteBack>>
    <2>1. Tail(s) = <<Start, WriteBack>> /\ Head(s) = SetDate /\ Len(s) = 3
      BY <1>9
    <2>2. Len(<<Start, WriteBack>>) = 2
      OBVIOUS
    <2> QED BY <1>1, <1>2, <1>9, <2>1, <2>2 DEF Running, Stopped, IsLastWrite
  <1>10. CASE s = <<WriteBack, Start, WriteBack>>
    <2>1. Tail(s) = <<Start, WriteBack>> /\ Head(s) = WriteBack /\ Len(s) = 3
      BY <1>10
    <2>2. Len(<<Start, WriteBack>>) = 2
      OBVIOUS
    <2> QED BY <1>1, <1>2, <1>10, <2>1, <2>2 DEF Running, Stopped, IsLastWrite
  <1>11. CASE s = <<WriteBack, SetDate, Start, WriteBack>>
    <2>1. Tail(s) = <<SetDate, Start, WriteBack>> /\ Head(s) = WriteBack /\ Len(s) = 4
      BY <1>11
    <2>2. Len(<<SetDate, Start, WriteBack>>) = 3
      OBVIOUS
    <2> QED BY <1>1, <1>2, <1>11, <2>1, <2>2 DEF Running, Stopped, IsLastWrite
  <1>12. CASE s = <<Stop, WriteBack, Start, WriteBack>>
    <2>1. Tail(s) = <<WriteBack, Start, WriteBack>> /\ Head(s) = Stop /\ Len(s) = 4
      BY <1>12
    <2>2. Len(<<WriteBack, Start, WriteBack>>) = 3
      OBVIOUS
    <2> QED BY <1>1, <1>2, <1>12, <2>1, <2>2 DEF Running, Stopped, IsLastWrite
  <1>13. CASE s = <<Reset, Stop, WriteBack, Start, WriteBack>>
    <2>1. Tail(s) = <<Stop, WriteBack, Start, WriteBack>> /\ Head(s) = Reset /\ Len(s) = 5
      BY <1>13
    <2>2. Len(<<Stop, WriteBack, Start, WriteBack>>) = 4
      OBVIOUS
    <2> QED BY <1>1, <1>2, <1>13, <2>1, <2>2 DEF Running, Stopped, IsLastWrite
  <1>14. CASE s = <<Stop, WriteBack, SetDate, Start, WriteBack>>
    <2>1. Tail(s) = <<WriteBack, SetDate, Start, WriteBack>> /\ Head(s) = Stop /\ Len(s) = 5
      BY <1>14
    <2>2. Len(<<WriteBack, SetDate, Start, WriteBack>>) = 4
      OBVIOUS
    <2> QED BY <1>1, <1>2, <1>14, <2>1, <2>2 DEF Running, Stopped, IsLastWrite
  <1>15. CASE s = <<BeginReset, Reset, Stop, WriteBack, Start, WriteBack>>
    <2>1. Tail(s) = <<Reset, Stop, WriteBack, Start, WriteBack>> /\ Head(s) = BeginReset /\ Len(s) = 6
      BY <1>15
    <2>2. Len(<<Reset, Stop, WriteBack, Start, WriteBack>>) = 5
      OBVIOUS
    <2> QED BY <1>1, <1>2, <1>15, <2>1, <2>2 DEF Running, Stopped, IsLastWrite
  <1> QED BY <1>3, <1>4, <1>5, <1>6, <1>7, <1>8, <1>9, <1>10, <1>11, <1>12, <1>13, <1>14, <1>15 DEF Running, Stopped

\* A transfer that is done leaves the clock stopped only if its start is still to come.
LEMMA TransferredKeeps ==
  ASSUME NEW c, Callers = {c}, ChipInv(c), N!Transferred(c)
  PROVE  ChipInv(c)'
  <1> USE DEF ChipInv
  <1>1. ChipTypes'
    BY TransferredTypes
  <1>2. ASSUME failures = 0
        PROVE  ClockInv(c)'
    <2>1. PICK s \in Running \cup Stopped : s = todo[c] /\ s \in Seq(Transfers) /\ s # <<>>
      BY <1>2 DEF ClockInv, ChipTypes, N!Transferred
    <2>2. PICK t : t = Head(s)
      OBVIOUS
    <2>3. PICK left : left = Tail(s)
      OBVIOUS
    <2>4. todo'[c] = left
      BY <2>1, <2>3 DEF N!Transferred, ChipTypes
    <2>5. copy'[c] = IF t.do = "read" THEN (control \cup t.set) \ t.clear ELSE copy[c]
      BY <2>1, <2>2 DEF N!Transferred, ChipTypes
    <2>6. control' = CASE t.do = "write" -> copy[c]
                       [] t.do = "reset" -> {}
                       [] OTHER          -> control
      BY <2>1, <2>2 DEF N!Transferred
    <2>7. /\ "stop" \in control => s \in Stopped
          /\ IsLastWrite(s) => "stop" \notin copy[c]
      BY <1>2, <2>1 DEF ClockInv
    <2>8. /\ left \in Running \cup Stopped
          /\ t.do # "write" /\ t.do # "reset" /\ s \in Stopped => left \in Stopped
          /\ t.do = "write" /\ ~IsLastWrite(s) => left \in Stopped
          /\ IsLastWrite(left) => "stop" \notin t.set /\ t.do = "read"
          /\ IsLastWrite(left) /\ s \in Stopped => "stop" \in t.clear
      BY <2>1, <2>2, <2>3, Shortened
    <2>9. "stop" \in control' => left \in Stopped
      BY <2>6, <2>7, <2>8
    <2>10. IsLastWrite(left) => "stop" \notin copy'[c]
      BY <2>5, <2>7, <2>8
    <2> QED BY <2>4, <2>8, <2>9, <2>10 DEF ClockInv
  <1>3. failures' = failures
    BY DEF N!Transferred
  <1> QED BY <1>1, <1>2, <1>3 DEF ClockInv

ChipPart(c) == part = "chip" => ChipInv(c)

LEMMA ChipAlways ==
  ASSUME NEW c, Callers = {c}
  PROVE  PartSpec => []ChipPart(c)
  <1>1. PartInit => ChipPart(c)
    BY ChipStart DEF PartInit, ChipPart
  <1>2. ChipPart(c) /\ [PartNext]_allVars => ChipPart(c)'
    <2> SUFFICES ASSUME part = "chip", ChipInv(c), [N!Next]_chipVars PROVE ChipInv(c)'
      BY PartSteps DEF ChipPart
    <2>1. CASE UNCHANGED chipVars
      BY <2>1 DEF chipVars, ChipInv, ChipTypes, ClockInv
    <2> QED BY <2>1, ChipCallKeeps, TransferredKeeps, TransferFailsKeeps DEF N!Next
  <1> QED BY <1>1, <1>2, PTL DEF PartSpec

LEMMA ChipTypesHold ==
  ASSUME NEW c, Callers = {c}, ChipInv(c)
  PROVE  N!TypeOK
  <1>1. N!toBinaryCodedDecimal(0) = 0 /\ 0 \in Components
    BY DEF Components, N!toBinaryCodedDecimal
  <1>2. date \in 0..N!MaxByte /\ \A k \in Callers : value[k] \in 0..N!MaxByte
    BY CodedDecimal DEF ChipInv, ChipTypes
  <1> QED BY <1>2, OperationsAre DEF ChipInv, ChipTypes, N!TypeOK

\* Between two calls the clock of the chip runs, and its date is one that was
\* written, for any dates and any number of calls, as long as no transfer failed and
\* one thread uses the driver (Nxppcf8506a.cpp, writeDate, setHourMode and
\* softwareReset).
THEOREM ChipClockKeepsRunning ==
  ASSUME NEW c, Callers = {c}
  PROVE  PartSpec => []ChipClockRuns
  <1>1. ChipPart(c) => ChipClockRuns
    <2> SUFFICES ASSUME part = "chip", ChipInv(c) PROVE N!ClockRuns /\ N!DateIsOneWritten
      BY DEF ChipPart, ChipClockRuns
    <2>1. <<>> \notin Stopped
      BY DEF Stopped
    <2>2. N!ClockRuns
      BY <2>1 DEF N!ClockRuns, ChipInv, ClockInv
    <2>3. N!DateIsOneWritten
      BY CodedDecimal DEF N!DateIsOneWritten, ChipInv, ChipTypes, Components
    <2> QED BY <2>2, <2>3
  <1> QED BY <1>1, ChipAlways, PTL

-----------------------------------------------------------------------------
(* The serial interface: every word in the queue or in the hands of the    *)
(* caller came with a call after the last flush.                           *)

SpiTypes ==
  /\ spiBad \in {"none", "peripheral", "format", "dataSize"}
  /\ slow \in BOOLEAN /\ controller \in BOOLEAN /\ enabled \in BOOLEAN /\ spiReady \in BOOLEAN
  /\ spiFifo \in Seq(0..MaxSpiCalls) /\ Len(spiFifo) <= Depth
  /\ got \in Seq(0..MaxSpiCalls)
  /\ need \in 0..MaxSize /\ Len(got) + need <= MaxSize
  /\ flushed \in 0..MaxSpiCalls /\ spiCalls \in 0..MaxSpiCalls /\ flushed <= spiCalls

NewerThanFlush(words) == \A i \in 1..Len(words) : words[i] > flushed

SpiInv == SpiTypes /\ NewerThanFlush(spiFifo) /\ NewerThanFlush(got)

LEMMA SpiStart ==
  ASSUME B!Init
  PROVE  SpiInv
  <1>1. <<>> \in Seq(0..MaxSpiCalls) /\ Len(<<>>) = 0
    OBVIOUS
  <1>2. Depth \in Nat /\ MaxSize \in Nat /\ MaxSpiCalls \in Nat
    BY Parameters DEF B!SpiAssumption
  <1>3. SpiTypes
    <2>1. /\ spiBad \in {"none", "peripheral", "format", "dataSize"}
          /\ slow \in BOOLEAN /\ controller \in BOOLEAN
          /\ enabled = FALSE /\ spiReady = FALSE
          /\ spiFifo = <<>> /\ need = 0 /\ got = <<>> /\ flushed = 0 /\ spiCalls = 0
      BY DEF B!Init
    <2>2. spiFifo \in Seq(0..MaxSpiCalls) /\ Len(spiFifo) = 0 /\ got \in Seq(0..MaxSpiCalls) /\ Len(got) = 0
      BY <1>1, <2>1
    <2>3. enabled \in BOOLEAN /\ spiReady \in BOOLEAN
      BY <2>1
    <2>4. /\ Len(spiFifo) <= Depth /\ need \in 0..MaxSize /\ Len(got) + need <= MaxSize
          /\ flushed \in 0..MaxSpiCalls /\ spiCalls \in 0..MaxSpiCalls /\ flushed <= spiCalls
      BY <1>2, <2>1, <2>2
    <2> QED BY <2>1, <2>2, <2>3, <2>4 DEF SpiTypes
  <1>4. NewerThanFlush(spiFifo) /\ NewerThanFlush(got)
    BY <1>1 DEF B!Init, NewerThanFlush
  <1> QED BY <1>3, <1>4 DEF SpiInv

LEMMA ElementIn ==
  ASSUME NEW T, NEW s \in Seq(T), NEW i \in 1..Len(s)
  PROVE  s[i] \in T
  OBVIOUS

\* The words that arrive are of the call that goes on, and as many as there is room for.
LEMMA ArrivedWords ==
  ASSUME SpiInv, spiCalls < MaxSpiCalls, NEW n \in Nat
  PROVE  /\ B!Arrived(n) \in Seq(0..MaxSpiCalls)
         /\ Len(B!Arrived(n)) <= Depth
         /\ NewerThanFlush(B!Arrived(n))
  <1> USE DEF SpiInv
  <1> DEFINE room == Depth - Len(spiFifo)
             m == IF n < room THEN n ELSE room
             new == [i \in 1..m |-> spiCalls + 1]
  <1>1. Depth \in Nat /\ MaxSpiCalls \in Nat /\ spiFifo \in Seq(0..MaxSpiCalls) /\ Len(spiFifo) <= Depth
    BY Parameters DEF SpiTypes, B!SpiAssumption
  <1>2. m \in Nat /\ m <= room
    BY <1>1
  <1>3. spiCalls + 1 \in 0..MaxSpiCalls /\ spiCalls + 1 > flushed
    BY <1>1 DEF SpiTypes
  <1> HIDE DEF m
  <1>4. new \in Seq(0..MaxSpiCalls) /\ Len(new) = m /\ \A i \in 1..m : new[i] = spiCalls + 1
    BY <1>2, <1>3
  <1>5. PICK w \in Seq(0..MaxSpiCalls) : w = new
    BY <1>4
  <1>6. B!Arrived(n) = spiFifo \o w
    BY <1>5 DEF B!Arrived, m
  <1> HIDE DEF new
  <1>7. Len(w) = m /\ \A i \in 1..m : w[i] = spiCalls + 1
    BY <1>4, <1>5
  <1>8. spiFifo \o w \in Seq(0..MaxSpiCalls) /\ Len(spiFifo \o w) = Len(spiFifo) + m
    BY <1>1, <1>7
  <1>9. ASSUME NEW i \in 1..Len(spiFifo \o w) PROVE (spiFifo \o w)[i] > flushed
    <2>1. CASE i <= Len(spiFifo)
      <3>1. (spiFifo \o w)[i] = spiFifo[i]
        BY <1>1, <1>8, <2>1
      <3> QED BY <1>1, <1>8, <2>1, <3>1 DEF NewerThanFlush
    <2>2. CASE i > Len(spiFifo)
      <3>1. (spiFifo \o w)[i] = w[i - Len(spiFifo)] /\ i - Len(spiFifo) \in 1..m
        BY <1>1, <1>7, <1>8, <2>2
      <3> QED BY <1>3, <1>7, <3>1
    <2> QED BY <1>8, <2>1, <2>2
  <1> QED BY <1>1, <1>2, <1>6, <1>8, <1>9 DEF NewerThanFlush

LEMMA SpiKeeps ==
  ASSUME SpiInv, B!Next
  PROVE  SpiInv'
  <1> USE DEF SpiInv
  <1>0. Depth \in Nat /\ MaxSize \in Nat /\ MaxSpiCalls \in Nat
    BY Parameters DEF B!SpiAssumption
  <1>1. CASE B!init \/ B!deinit
    <2>1. /\ UNCHANGED <<spiBad, slow, controller, spiFifo, need, got, flushed>>
          /\ spiCalls < MaxSpiCalls /\ spiCalls' = spiCalls + 1
      BY <1>1 DEF B!init, B!deinit, B!Called, B!parameters
    <2>2. enabled' \in BOOLEAN /\ spiReady' \in BOOLEAN
      BY <1>1 DEF B!init, B!deinit, SpiTypes
    <2>3. SpiTypes'
      BY <1>0, <2>1, <2>2 DEF SpiTypes
    <2> QED BY <2>1, <2>3 DEF NewerThanFlush
  <1>2. ASSUME NEW n \in Nat, spiFifo' = B!Arrived(n) \/ spiFifo' = spiFifo,
               spiCalls < MaxSpiCalls, spiCalls' = spiCalls + 1,
               UNCHANGED <<spiBad, slow, controller, enabled, spiReady, need, got, flushed>>
        PROVE  SpiInv'
    <2>1. spiFifo' \in Seq(0..MaxSpiCalls) /\ Len(spiFifo') <= Depth /\ NewerThanFlush(spiFifo')
      BY <1>2, ArrivedWords DEF SpiTypes
    <2>2. SpiTypes'
      BY <1>0, <1>2, <2>1 DEF SpiTypes
    <2>3. NewerThanFlush(spiFifo)' /\ NewerThanFlush(got)'
      BY <1>2, <2>1 DEF NewerThanFlush
    <2> QED BY <2>2, <2>3
  <1>3. ASSUME NEW size \in 0..MaxSize, B!txBlocking(size)
        PROVE  SpiInv'
    <2>1. size \in Nat
      BY <1>0
    <2> QED BY <1>2, <1>3, <2>1 DEF B!txBlocking, B!Called, B!parameters
  <1>4. CASE B!Arrive
    BY <1>2, <1>4 DEF B!Arrive, B!parameters
  <1>5. ASSUME NEW size \in 0..MaxSize, B!rxBlocking(size)
        PROVE  SpiInv'
    <2>1. /\ UNCHANGED <<spiBad, slow, controller, enabled, spiReady, spiFifo, flushed>>
          /\ spiCalls < MaxSpiCalls /\ spiCalls' = spiCalls + 1 /\ need' = size /\ got' = <<>>
      BY <1>5 DEF B!rxBlocking, B!Called, B!parameters, B!device
    <2>2. <<>> \in Seq(0..MaxSpiCalls) /\ Len(<<>>) = 0
      OBVIOUS
    <2>3. SpiTypes'
      BY <1>0, <2>1, <2>2 DEF SpiTypes
    <2> QED BY <2>1, <2>2, <2>3 DEF NewerThanFlush
  <1>6. CASE B!RxWord
    <2>1. /\ UNCHANGED <<spiBad, slow, controller, enabled, spiReady, flushed, spiCalls>>
          /\ need > 0 /\ need' = need - 1 /\ spiFifo # <<>>
          /\ got' = Append(got, Head(spiFifo)) /\ spiFifo' = Tail(spiFifo)
      BY <1>6 DEF B!RxWord, B!parameters
    <2>2. PICK w : w = Head(spiFifo)
      OBVIOUS
    <2>3. w \in 0..MaxSpiCalls /\ w > flushed
      <3>1. w = spiFifo[1] /\ 1 \in 1..Len(spiFifo)
        BY <2>1, <2>2 DEF SpiTypes
      <3>2. NewerThanFlush(spiFifo) /\ spiFifo \in Seq(0..MaxSpiCalls)
        BY DEF SpiTypes
      <3>3. spiFifo[1] \in 0..MaxSpiCalls
        <4>1. PICK T : T = 0..MaxSpiCalls
          OBVIOUS
        <4>2. spiFifo \in Seq(T)
          BY <3>2, <4>1
        <4>3. spiFifo[1] \in T
          BY <3>1, <4>2, ElementIn
        <4> QED BY <4>1, <4>3
      <3>4. spiFifo[1] > flushed
        BY <3>1, <3>2 DEF NewerThanFlush
      <3> QED BY <3>1, <3>3, <3>4
    <2>4. /\ Append(got, w) \in Seq(0..MaxSpiCalls) /\ Len(Append(got, w)) = Len(got) + 1
          /\ \A i \in 1..Len(got) + 1 : Append(got, w)[i] = IF i <= Len(got) THEN got[i] ELSE w
      BY <2>3 DEF SpiTypes
    <2>5. /\ Tail(spiFifo) \in Seq(0..MaxSpiCalls) /\ Len(Tail(spiFifo)) = Len(spiFifo) - 1
          /\ \A i \in 1..Len(spiFifo) - 1 : Tail(spiFifo)[i] = spiFifo[i + 1]
      BY <2>1 DEF SpiTypes
    <2>6. SpiTypes'
      BY <1>0, <2>1, <2>2, <2>4, <2>5 DEF SpiTypes
    <2>7. NewerThanFlush(got)'
      BY <2>1, <2>2, <2>3, <2>4 DEF NewerThanFlush, SpiTypes
    <2>8. NewerThanFlush(spiFifo)'
      BY <2>1, <2>5 DEF NewerThanFlush, SpiTypes
    <2> QED BY <2>6, <2>7, <2>8
  <1>7. CASE B!flushRxBuffer
    <2>1. /\ UNCHANGED <<spiBad, slow, controller, enabled, spiReady, need>>
          /\ spiCalls < MaxSpiCalls /\ spiCalls' = spiCalls + 1 /\ flushed' = spiCalls + 1
          /\ got' = <<>> /\ spiFifo' = <<>>
      BY <1>7 DEF B!flushRxBuffer, B!Called, B!parameters
    <2>2. <<>> \in Seq(0..MaxSpiCalls) /\ Len(<<>>) = 0
      OBVIOUS
    <2>3. SpiTypes'
      BY <1>0, <2>1, <2>2 DEF SpiTypes
    <2> QED BY <2>1, <2>2, <2>3 DEF NewerThanFlush
  <1> QED BY <1>1, <1>3, <1>4, <1>5, <1>6, <1>7 DEF B!Next

SpiPart == part = "spi" => SpiInv

LEMMA SpiAlways == PartSpec => []SpiPart
  <1>1. PartInit => SpiPart
    BY SpiStart DEF PartInit, SpiPart
  <1>2. SpiPart /\ [PartNext]_allVars => SpiPart'
    <2> SUFFICES ASSUME part = "spi", SpiInv, [B!Next]_spiVars PROVE SpiInv'
      BY PartSteps DEF SpiPart
    <2>1. CASE UNCHANGED spiVars
      BY <2>1 DEF spiVars, SpiInv, SpiTypes, NewerThanFlush
    <2> QED BY <2>1, SpiKeeps
  <1> QED BY <1>1, <1>2, PTL DEF PartSpec

LEMMA SpiTypesHold ==
  ASSUME SpiInv
  PROVE  B!TypeOK
  <1>1. Len(got) \in Nat /\ Len(got) <= MaxSize
    BY Parameters DEF SpiInv, SpiTypes, B!SpiAssumption
  <1> QED BY <1>1 DEF SpiInv, SpiTypes, B!TypeOK

-----------------------------------------------------------------------------
(* The serial port: on Posix the number the driver holds is that of its    *)
(* own file as long as the port is not closed, and after an init that      *)
(* succeeded no setting of the line is left as the reset made it.          *)

Smaller == OpToRel(<, Nat)

LEMMA LowestIsFree ==
  ASSUME U!FreeFiles # {}
  PROVE  U!Min(U!FreeFiles) \in U!FreeFiles
  <1>1. IsWellFoundedOn(Smaller, Nat)
    BY NatLessThanWellFounded DEF OpToRel, Smaller
  <1>2. U!FreeFiles \subseteq Nat
    BY Parameters DEF U!UartAssumption, U!FreeFiles
  <1>3. PICK m \in U!FreeFiles : \A w \in U!FreeFiles : ~(<<w, m>> \in Smaller)
    BY <1>1, <1>2, WFMin
  <1>4. \A w \in U!FreeFiles : m <= w
    <2> SUFFICES ASSUME NEW w \in U!FreeFiles PROVE m <= w
      OBVIOUS
    <2>1. w \in Nat /\ m \in Nat /\ ~(<<w, m>> \in Smaller)
      BY <1>2, <1>3
    <2>2. ~(w < m)
      BY <2>1 DEF Smaller, OpToRel
    <2> QED BY <2>1, <2>2
  <1> QED BY <1>3, <1>4 DEF U!Min

FileIsOwn == (port = "Posix" /\ _fileDescriptor # U!None /\ ~closed) => holder[_fileDescriptor] = "uart"

UartInv ==
  /\ U!TypeOK
  /\ FileIsOwn
  /\ U!TransfersReachTheLine
  /\ U!ReadyIsProgrammed
  /\ U!SentIsWhole

LEMMA UartNumbers == MaxSize \in Nat /\ MaxCalls \in Nat /\ Files \subseteq Nat /\ U!None \notin Files
  BY Parameters DEF U!UartAssumption, U!None

LEMMA UartStart ==
  ASSUME U!Init
  PROVE  UartInv
  <1>1. U!TypeOK
    <2>1. U!NoTransfer \in [does : {"tx", "rx"}, reached : {"line", "stranger", "nothing"}, asked : 0..MaxSize, done : 0..MaxSize,
                 answer : {"None", "Success", "Failure", "PrerequisitesNotMet", "LimitReached",
                           "Timeout", "NoData", "NotImplemented", "InvalidParameter"}]
      BY UartNumbers DEF U!NoTransfer
    <2>2. 0 \in 0..MaxCalls
      BY UartNumbers
    <2>3. U!Unprogrammed \in [U!Settings -> {"reset", "asked", "replaced"}]
      BY DEF U!Unprogrammed
    <2>4. [d \in Files |-> "free"] \in [Files -> {"free", "other", "uart"}]
      OBVIOUS
    <2>5. plugged \subseteq Devices /\ uartBad \subseteq U!Settings \cup {"number"}
      BY DEF U!Init
    <2> QED BY <2>1, <2>2, <2>3, <2>4, <2>5 DEF U!Init, U!TypeOK
  <1> QED BY <1>1 DEF U!Init, UartInv, FileIsOwn, U!TransfersReachTheLine, U!ReadyIsProgrammed,
                      U!SentIsWhole, U!NoTransfer

LEMMA UartCalled ==
  ASSUME U!TypeOK, U!Called
  PROVE  uartCalls' \in 0..MaxCalls
  BY UartNumbers DEF U!TypeOK, U!Called

LEMMA UartInited ==
  ASSUME U!TypeOK, NEW success \in BOOLEAN, U!Inited(success)
  PROVE  uartReady' \in BOOLEAN /\ closed' \in BOOLEAN /\ uartReady' = success /\ (success => closed' = FALSE)
         /\ (~success => closed' = closed)
  BY DEF U!TypeOK, U!Inited

LEMMA PosixDevice ==
  U!TypeOK => U!toDevicePath \in Devices \cup {U!None}
  <1> SUFFICES ASSUME U!TypeOK PROVE U!toDevicePath \in Devices \cup {U!None}
    OBVIOUS
  <1> DEFINE at == {d \in plugged : U!Cardinality({e \in plugged : e < d}) = number}
  <1>1. at \subseteq Devices
    BY DEF U!TypeOK
  <1>2. U!toDevicePath = IF at = {} THEN U!None ELSE CHOOSE d \in at : TRUE
    BY DEF U!toDevicePath
  <1> HIDE DEF at
  <1>3. at # {} => (CHOOSE d \in at : TRUE) \in at
    OBVIOUS
  <1> QED BY <1>1, <1>2, <1>3

LEMMA LineTypes ==
  U!Programmed \in [U!Settings -> {"reset", "asked", "replaced"}] /\ U!Unprogrammed \in [U!Settings -> {"reset", "asked", "replaced"}]
  /\ \A s \in U!Settings : U!Programmed[s] # "reset"
  BY DEF U!Programmed, U!Unprogrammed

\* The transfer and the line of a step of init are as before, or the line is programmed.
LEMMA PosixInitKeeps ==
  ASSUME UartInv, U!PosixInit
  PROVE  UartInv'
  <1> USE DEF UartInv
  <1>1. port = "Posix" /\ UNCHANGED <<port, number, uartBad, plugged, installed, last>> /\ U!Called
        /\ _devicePath' = U!toDevicePath
    BY DEF U!PosixInit, U!parameters
  <1>2. uartCalls' \in 0..MaxCalls /\ _devicePath' \in Devices \cup {U!None}
    BY <1>1, UartCalled, PosixDevice
  <1>3. /\ holder' \in [Files -> {"free", "other", "uart"}]
        /\ _fileDescriptor' \in Files \cup {U!None}
        /\ line' \in [U!Settings -> {"reset", "asked", "replaced"}]
        /\ closed' \in BOOLEAN /\ uartReady' \in BOOLEAN
        /\ FileIsOwn'
        /\ uartReady' => \A s \in U!Settings : line'[s] # "reset"
    <2>1. CASE /\ U!toDevicePath # U!None /\ U!FreeFiles # {} /\ U!setTermiosConfig(U!Min(U!FreeFiles))
      <3>1. PICK fd : fd = U!Min(U!FreeFiles)
        OBVIOUS
      <3>2. fd \in Files /\ U!setTermiosConfig(fd)
        BY <2>1, <3>1, LowestIsFree DEF U!FreeFiles
      <3>3. CASE /\ _fileDescriptor' = fd /\ holder' = [holder EXCEPT ![fd] = "uart"]
                 /\ line' = U!Unprogrammed /\ U!Inited(FALSE)
        <4>1. closed' \in BOOLEAN /\ uartReady' = FALSE
          BY <3>3, UartInited
        <4>2. holder' \in [Files -> {"free", "other", "uart"}] /\ holder'[fd] = "uart"
          BY <3>2, <3>3 DEF U!TypeOK
        <4> QED BY <3>2, <3>3, <4>1, <4>2, LineTypes DEF FileIsOwn
      <3>4. CASE /\ _fileDescriptor' = fd /\ holder' = [holder EXCEPT ![fd] = "uart"]
                 /\ line' = U!Programmed /\ U!Inited(TRUE)
        <4>1. closed' = FALSE /\ uartReady' = TRUE
          BY <3>4, UartInited
        <4>2. holder' \in [Files -> {"free", "other", "uart"}] /\ holder'[fd] = "uart"
          BY <3>2, <3>4 DEF U!TypeOK
        <4> QED BY <3>2, <3>4, <4>1, <4>2, LineTypes DEF FileIsOwn
      <3>5. CASE /\ _fileDescriptor' = U!None /\ UNCHANGED holder
                 /\ line' = U!Unprogrammed /\ U!Inited(FALSE)
        <4>1. closed' \in BOOLEAN /\ uartReady' = FALSE
          BY <3>5, UartInited
        <4> QED BY <3>5, <4>1, LineTypes DEF FileIsOwn, U!TypeOK
      <3> QED BY <3>2, <3>3, <3>4, <3>5 DEF U!setTermiosConfig
    <2>2. CASE /\ U!toDevicePath # U!None
               /\ _fileDescriptor' = U!None /\ U!Inited(FALSE) /\ UNCHANGED <<holder, line>>
      <3>1. closed' \in BOOLEAN /\ uartReady' = FALSE
        BY <2>2, UartInited
      <3> QED BY <2>2, <3>1 DEF FileIsOwn, U!TypeOK
    <2>3. CASE U!Inited(FALSE) /\ UNCHANGED <<_fileDescriptor, holder, line>>
      <3>1. closed' = closed /\ closed' \in BOOLEAN /\ uartReady' = FALSE
        BY <2>3, UartInited
      <3> QED BY <1>1, <2>3, <3>1 DEF FileIsOwn, U!TypeOK
    <2> QED BY <2>1, <2>2, <2>3 DEF U!PosixInit
  <1>4. U!TypeOK'
    BY <1>1, <1>2, <1>3 DEF U!TypeOK
  <1>5. U!TransfersReachTheLine' /\ U!SentIsWhole'
    BY <1>1 DEF U!TransfersReachTheLine, U!SentIsWhole
  <1>6. U!ReadyIsProgrammed'
    BY <1>3 DEF U!ReadyIsProgrammed
  <1> QED BY <1>3, <1>4, <1>5, <1>6

LEMMA PosixDeinitKeeps ==
  ASSUME UartInv, U!PosixDeinit
  PROVE  UartInv'
  <1> USE DEF UartInv
  <1>1. /\ UNCHANGED <<port, number, uartBad, plugged, _fileDescriptor, _devicePath, installed, line, uartReady, last>>
        /\ U!Called /\ closed' = TRUE
        /\ holder' = IF _fileDescriptor = U!None THEN holder ELSE [holder EXCEPT ![_fileDescriptor] = "free"]
    BY DEF U!PosixDeinit, U!parameters
  <1>2. uartCalls' \in 0..MaxCalls /\ closed' \in BOOLEAN
    BY <1>1, UartCalled
  <1>3. holder' \in [Files -> {"free", "other", "uart"}]
    BY <1>1 DEF U!TypeOK
  <1>4. U!TypeOK'
    BY <1>1, <1>2, <1>3 DEF U!TypeOK
  <1> QED BY <1>1, <1>4 DEF FileIsOwn, U!TransfersReachTheLine, U!SentIsWhole, U!ReadyIsProgrammed

LEMMA EspInitKeeps ==
  ASSUME UartInv, U!EspInit
  PROVE  UartInv'
  <1> USE DEF UartInv
  <1>1. /\ UNCHANGED <<port, number, uartBad, plugged, holder, _fileDescriptor, _devicePath, last>>
        /\ U!Called /\ port = "Esp"
    BY DEF U!EspInit, U!parameters, U!posix
  <1>2. uartCalls' \in 0..MaxCalls
    BY <1>1, UartCalled
  <1>3. U!EspLine \in [U!Settings -> {"reset", "asked", "replaced"}]
    BY DEF U!EspLine, U!toEspWordLength
  <1>4. PICK success \in BOOLEAN : U!Inited(success)
    <2>1. (U!toEspPeripheralNumber = "Success") \in BOOLEAN /\ (U!toEspFlowControl = "Success") \in BOOLEAN
      OBVIOUS
    <2> QED BY <2>1, Zenon DEF U!EspInit
  <1>5. installed' \in BOOLEAN /\ line' \in [U!Settings -> {"reset", "asked", "replaced"}]
    <2>1. /\ installed' = installed \/ installed' = TRUE
          /\ line' = line \/ line' = U!EspLine
      BY DEF U!EspInit
    <2> QED BY <1>3, <2>1 DEF U!TypeOK
  <1>6. closed' \in BOOLEAN /\ uartReady' \in BOOLEAN
    BY <1>4, UartInited
  <1>7. U!TypeOK'
    BY <1>1, <1>2, <1>5, <1>6 DEF U!TypeOK
  <1> QED BY <1>1, <1>7 DEF FileIsOwn, U!TransfersReachTheLine, U!SentIsWhole, U!ReadyIsProgrammed

LEMMA EspDeinitKeeps ==
  ASSUME UartInv, U!EspDeinit
  PROVE  UartInv'
  <1> USE DEF UartInv
  <1>1. /\ UNCHANGED <<port, number, uartBad, plugged, holder, _fileDescriptor, _devicePath, uartReady, last>>
        /\ U!Called /\ port = "Esp" /\ closed' = TRUE
    BY DEF U!EspDeinit, U!parameters, U!posix
  <1>2. uartCalls' \in 0..MaxCalls
    BY <1>1, UartCalled
  <1>3. installed' \in BOOLEAN /\ line' \in [U!Settings -> {"reset", "asked", "replaced"}]
    <2>1. /\ installed' = installed \/ installed' = FALSE
          /\ line' = line \/ line' = U!Unprogrammed
      BY DEF U!EspDeinit
    <2> QED BY <2>1, LineTypes DEF U!TypeOK
  <1>4. U!TypeOK'
    BY <1>1, <1>2, <1>3 DEF U!TypeOK
  <1> QED BY <1>1, <1>4 DEF FileIsOwn, U!TransfersReachTheLine, U!SentIsWhole, U!ReadyIsProgrammed

LEMMA Tm4cInitKeeps ==
  ASSUME UartInv, U!Tm4cInit
  PROVE  UartInv'
  <1> USE DEF UartInv
  <1> DEFINE bits == U!toTm4cUartConfigBits = "Success"
             flow == U!toTm4cUartFlowControl = "Success"
             now == [s \in U!Settings |->
                       CASE s = "flow" -> IF U!toTm4cUartConfigBits # "Success" THEN line[s]
                                          ELSE IF U!toTm4cUartFlowControl = "Success" THEN "asked" ELSE "replaced"
                         [] s = "baud" -> "asked"
                         [] OTHER -> IF U!toTm4cUartConfigBits = "Success" THEN "asked" ELSE "replaced"]
  <1>1. /\ UNCHANGED <<port, number, uartBad, plugged, holder, _fileDescriptor, _devicePath, last>>
        /\ U!Called /\ port = "Tm4c"
    BY DEF U!Tm4cInit, U!parameters, U!posix
  <1>2. uartCalls' \in 0..MaxCalls
    BY <1>1, UartCalled
  <1>3. CASE U!toTm4cSysCtlPeripheralNumber = "Success"
    <2>1. installed' = TRUE /\ line' = now /\ U!Inited(bits /\ flow)
      BY <1>3 DEF U!Tm4cInit
    <2>2. now \in [U!Settings -> {"reset", "asked", "replaced"}]
      BY DEF U!TypeOK
    <2>3. bits /\ flow => \A s \in U!Settings : now[s] # "reset"
      OBVIOUS
    <2> HIDE DEF now
    <2>4. PICK success \in BOOLEAN : success = (bits /\ flow)
      BY Zenon
    <2>5. U!Inited(success)
      BY <2>1, <2>4, Zenon
    <2>6. closed' \in BOOLEAN /\ uartReady' = success
      BY <2>5, UartInited
    <2>7. U!TypeOK'
      BY <1>1, <1>2, <2>1, <2>2, <2>6 DEF U!TypeOK
    <2>8. U!ReadyIsProgrammed'
      BY <2>1, <2>3, <2>4, <2>6 DEF U!ReadyIsProgrammed
    <2> QED BY <1>1, <2>7, <2>8 DEF FileIsOwn, U!TransfersReachTheLine, U!SentIsWhole
  <1>4. CASE U!toTm4cSysCtlPeripheralNumber # "Success"
    <2>1. U!Inited(FALSE) /\ UNCHANGED <<installed, line>>
      BY <1>4 DEF U!Tm4cInit
    <2>2. closed' \in BOOLEAN /\ uartReady' = FALSE
      BY <2>1, UartInited
    <2>3. U!TypeOK'
      BY <1>1, <1>2, <2>1, <2>2 DEF U!TypeOK
    <2> QED BY <1>1, <2>2, <2>3 DEF FileIsOwn, U!TransfersReachTheLine, U!SentIsWhole, U!ReadyIsProgrammed
  <1> QED BY <1>3, <1>4

LEMMA Tm4cDeinitKeeps ==
  ASSUME UartInv, U!Tm4cDeinit
  PROVE  UartInv'
  <1> USE DEF UartInv
  <1>1. /\ UNCHANGED <<port, number, uartBad, plugged, holder, _fileDescriptor, _devicePath,
                       installed, line, closed, uartReady, last>>
        /\ U!Called
    BY DEF U!Tm4cDeinit, U!parameters, U!posix
  <1>2. uartCalls' \in 0..MaxCalls
    BY <1>1, UartCalled
  <1>3. U!TypeOK'
    BY <1>1, <1>2 DEF U!TypeOK
  <1> QED BY <1>1, <1>3 DEF FileIsOwn, U!TransfersReachTheLine, U!SentIsWhole, U!ReadyIsProgrammed

Answers == {"None", "Success", "Failure", "PrerequisitesNotMet", "LimitReached",
            "Timeout", "NoData", "NotImplemented", "InvalidParameter"}

\* A transfer reaches the line unless the port is that of Esp, and a transmission that
\* succeeds was whole.
LEMMA UsingKeeps ==
  ASSUME UartInv, U!Using,
         NEW t \in {"tx", "rx"}, NEW w, NEW a, NEW d, NEW r,
         U!Transferred(t, w, a, d, r),
         r \in Answers, w \in {"line", "stranger", "nothing"}, a \in 0..MaxSize, d \in 0..MaxSize,
         port = "Posix" => w = "line",
         (port # "Esp" /\ t = "tx" /\ r = "Success") => d = a
  PROVE  UartInv'
  <1> USE DEF UartInv
  <1>1. /\ UNCHANGED <<port, number, uartBad, plugged, holder, _fileDescriptor, _devicePath,
                       installed, line, closed, uartReady>>
        /\ U!Called
    BY DEF U!Using, U!parameters, U!posix
  <1>2. uartCalls' \in 0..MaxCalls
    BY <1>1, UartCalled
  <1>3. last' = [does |-> t, reached |-> w, asked |-> a, done |-> d, answer |-> r]
    BY DEF U!Transferred
  <1>4. last' \in [does : {"tx", "rx"}, reached : {"line", "stranger", "nothing"}, asked : 0..MaxSize, done : 0..MaxSize,
                   answer : {"None", "Success", "Failure", "PrerequisitesNotMet", "LimitReached",
                             "Timeout", "NoData", "NotImplemented", "InvalidParameter"}]
    BY <1>3 DEF Answers
  <1>5. U!TypeOK'
    BY <1>1, <1>2, <1>4 DEF U!TypeOK
  <1>6. U!TransfersReachTheLine' /\ U!SentIsWhole'
    BY <1>1, <1>3 DEF U!TransfersReachTheLine, U!SentIsWhole
  <1> QED BY <1>1, <1>5, <1>6 DEF FileIsOwn, U!ReadyIsProgrammed

\* A driver that is used carefully and holds a number reaches its own file.
LEMMA ReachedIsLine ==
  ASSUME Careful = TRUE, UartInv, U!Using, port = "Posix", _fileDescriptor # U!None
  PROVE  U!Reached = "line"
  <1>1. ~closed
    BY DEF U!Using, U!Usable
  <1> QED BY <1>1 DEF UartInv, FileIsOwn, U!Reached

LEMMA TxKeeps ==
  ASSUME Careful = TRUE, UartInv, NEW size \in 0..MaxSize, U!txBlocking(size)
  PROVE  UartInv'
  <1>1. U!Using /\ size \in 0..MaxSize /\ 0 \in 0..MaxSize
    BY UartNumbers DEF U!txBlocking
  <1>2. CASE port = "Posix" /\ U!PosixTx(size)
    <2>1. CASE _fileDescriptor = U!None
      <3>1. U!Transferred("tx", "line", size, 0, "PrerequisitesNotMet")
        BY <1>2, <2>1 DEF U!PosixTx
      <3> QED BY <1>1, <3>1, UsingKeeps DEF Answers
    <2>2. CASE _fileDescriptor # U!None
      <3>1. U!Reached = "line"
        BY <1>1, <1>2, <2>2, ReachedIsLine
      <3>2. \/ U!Transferred("tx", "line", size, 0, "Failure")
            \/ \E n \in 1..size :
                  U!Transferred("tx", "line", size, n, IF n < size THEN "LimitReached" ELSE "Success")
        BY <1>2, <2>2, <3>1 DEF U!PosixTx
      <3>3. CASE U!Transferred("tx", "line", size, 0, "Failure")
        BY <1>1, <3>3, UsingKeeps DEF Answers
      <3>4. ASSUME NEW n \in 1..size, 
                   U!Transferred("tx", "line", size, n, IF n < size THEN "LimitReached" ELSE "Success")
            PROVE  UartInv'
        <4>1. PICK r : r = IF n < size THEN "LimitReached" ELSE "Success"
          OBVIOUS
        <4>2. n \in 0..MaxSize /\ r \in Answers /\ (r = "Success" => n = size)
          BY <1>1, <3>4, <4>1, UartNumbers DEF Answers
        <4>3. U!Transferred("tx", "line", size, n, r)
          BY <3>4, <4>1
        <4> QED BY <1>1, <4>2, <4>3, UsingKeeps
      <3> QED BY <3>2, <3>3, <3>4
    <2> QED BY <2>1, <2>2
  <1>3. CASE port = "Esp" /\ U!EspTx(size)
    <2>1. U!EspReached \in {"line", "stranger", "nothing"}
      BY DEF U!EspReached
    <2>2. CASE U!toEspPeripheralNumber # "Success"
      <3>1. U!toEspPeripheralNumber \in Answers
        BY DEF U!toEspPeripheralNumber, Answers
      <3>2. U!Transferred("tx", "line", size, 0, U!toEspPeripheralNumber)
        BY <1>3, <2>2 DEF U!EspTx
      <3> QED BY <1>1, <1>3, <3>1, <3>2, UsingKeeps
    <2>3. CASE U!Transferred("tx", U!EspReached, size, size, "Success")
      BY <1>1, <1>3, <2>1, <2>3, UsingKeeps DEF Answers
    <2>4. CASE U!Transferred("tx", U!EspReached, size, 0, "Success")
      BY <1>1, <1>3, <2>1, <2>4, UsingKeeps DEF Answers
    <2> QED BY <1>3, <2>2, <2>3, <2>4 DEF U!EspTx
  <1>4. CASE port = "Tm4c" /\ U!Tm4cTx(size)
    <2>1. CASE U!Transferred("tx", "line", 0, 0, "NoData")
      BY <1>1, <1>4, <2>1, UsingKeeps DEF Answers
    <2>2. CASE U!toTm4cPeripheralBaseRegister # "Success" /\ size # 0
      <3>1. U!toTm4cPeripheralBaseRegister \in Answers
        BY DEF U!toTm4cPeripheralBaseRegister, U!toTm4cSysCtlPeripheralNumber, Answers
      <3>2. U!Transferred("tx", "line", size, 0, U!toTm4cPeripheralBaseRegister)
        BY <1>4, <2>2 DEF U!Tm4cTx
      <3> QED BY <1>1, <1>4, <2>2, <3>1, <3>2, UsingKeeps
    <2>3. CASE U!Transferred("tx", "line", size, size, "Success")
      BY <1>1, <1>4, <2>3, UsingKeeps DEF Answers
    <2> QED BY <1>4, <2>1, <2>2, <2>3 DEF U!Tm4cTx
  <1> QED BY <1>2, <1>3, <1>4 DEF U!txBlocking

LEMMA RxKeeps ==
  ASSUME Careful = TRUE, UartInv, NEW size \in 0..MaxSize, U!rxBlocking(size)
  PROVE  UartInv'
  <1>1. U!Using /\ size \in 0..MaxSize /\ 0 \in 0..MaxSize
    BY UartNumbers DEF U!rxBlocking
  <1>2. ASSUME NEW n \in 1..size PROVE n \in 0..MaxSize
    BY <1>1, UartNumbers
  <1>3. CASE port = "Posix" /\ U!PosixRx(size)
    <2>1. CASE U!Transferred("rx", "line", size, 0, "PrerequisitesNotMet")
      BY <1>1, <2>1, UsingKeeps DEF Answers
    <2>2. CASE _fileDescriptor # U!None
      <3>1. U!Reached = "line"
        BY <1>1, <1>3, <2>2, ReachedIsLine
      <3>2. \/ U!Transferred("rx", "line", size, 0, "Failure")
            \/ \E r \in {"Timeout", "NoData"} : U!Transferred("rx", "line", size, 0, r)
            \/ \E n \in 1..size : U!Transferred("rx", "line", size, n, "Success")
        BY <1>3, <2>2, <3>1 DEF U!PosixRx
      <3>3. CASE U!Transferred("rx", "line", size, 0, "Failure")
        BY <1>1, <3>3, UsingKeeps DEF Answers
      <3>4. ASSUME NEW r \in {"Timeout", "NoData"}, U!Transferred("rx", "line", size, 0, r)
            PROVE  UartInv'
        BY <1>1, <3>4, UsingKeeps DEF Answers
      <3>5. ASSUME NEW n \in 1..size, U!Transferred("rx", "line", size, n, "Success")
            PROVE  UartInv'
        BY <1>1, <1>2, <3>5, UsingKeeps DEF Answers
      <3> QED BY <3>2, <3>3, <3>4, <3>5
    <2> QED BY <1>3, <2>1, <2>2 DEF U!PosixRx
  <1>4. CASE port = "Esp" /\ U!EspRx(size)
    <2>1. U!EspReached \in {"line", "stranger", "nothing"}
      BY DEF U!EspReached
    <2>2. CASE U!toEspPeripheralNumber # "Success"
      <3>1. U!toEspPeripheralNumber \in Answers
        BY DEF U!toEspPeripheralNumber, Answers
      <3>2. U!Transferred("rx", "line", size, 0, U!toEspPeripheralNumber)
        BY <1>4, <2>2 DEF U!EspRx
      <3> QED BY <1>1, <1>4, <3>1, <3>2, UsingKeeps
    <2>3. ASSUME NEW n \in 1..size, U!Transferred("rx", U!EspReached, size, n, "Success")
          PROVE  UartInv'
      BY <1>1, <1>2, <1>4, <2>1, <2>3, UsingKeeps DEF Answers
    <2>4. CASE U!Transferred("rx", U!EspReached, size, 0, "Timeout")
      BY <1>1, <1>4, <2>1, <2>4, UsingKeeps DEF Answers
    <2>5. CASE U!Transferred("rx", U!EspReached, size, 0, "Success")
      BY <1>1, <1>4, <2>1, <2>5, UsingKeeps DEF Answers
    <2> QED BY <1>4, <2>2, <2>3, <2>4, <2>5 DEF U!EspRx
  <1>5. CASE U!Tm4cRx(size)
    <2>1. U!Transferred("rx", "line", size, 0, "NotImplemented")
      BY <1>5 DEF U!Tm4cRx
    <2> QED BY <1>1, <2>1, UsingKeeps DEF Answers
  <1> QED BY <1>3, <1>4, <1>5 DEF U!rxBlocking

LEMMA FlushKeeps ==
  ASSUME Careful = TRUE, UartInv, U!flushRxBuffer
  PROVE  UartInv'
  <1>1. U!Using /\ 0 \in 0..MaxSize
    BY UartNumbers DEF U!flushRxBuffer
  <1>2. CASE port = "Posix" /\ U!PosixFlush
    <2>1. CASE U!Transferred("rx", "line", 0, 0, "PrerequisitesNotMet")
      BY <1>1, <2>1, UsingKeeps DEF Answers
    <2>2. CASE _fileDescriptor # U!None
      <3>1. U!Reached = "line"
        BY <1>1, <1>2, <2>2, ReachedIsLine
      <3>2. PICK r \in {"Failure", "Success"} : U!Transferred("rx", "line", 0, 0, r)
        BY <1>2, <2>2, <3>1 DEF U!PosixFlush
      <3> QED BY <1>1, <3>2, UsingKeeps DEF Answers
    <2> QED BY <1>2, <2>1, <2>2 DEF U!PosixFlush
  <1>3. CASE port = "Esp" /\ U!EspFlush
    <2>1. U!EspReached \in {"line", "stranger", "nothing"}
      BY DEF U!EspReached
    <2>2. CASE U!toEspPeripheralNumber # "Success"
      <3>1. U!toEspPeripheralNumber \in Answers
        BY DEF U!toEspPeripheralNumber, Answers
      <3>2. U!Transferred("rx", "line", 0, 0, U!toEspPeripheralNumber)
        BY <1>3, <2>2 DEF U!EspFlush
      <3> QED BY <1>1, <1>3, <3>1, <3>2, UsingKeeps
    <2>3. CASE \E r \in {"Failure", "Success"} : U!Transferred("rx", U!EspReached, 0, 0, r)
      <3>1. PICK r \in {"Failure", "Success"} : U!Transferred("rx", U!EspReached, 0, 0, r)
        BY <2>3
      <3> QED BY <1>1, <1>3, <2>1, <3>1, UsingKeeps DEF Answers
    <2> QED BY <1>3, <2>2, <2>3 DEF U!EspFlush
  <1>4. CASE U!Tm4cFlush
    <2>1. U!Transferred("rx", "line", 0, 0, "NotImplemented")
      BY <1>4 DEF U!Tm4cFlush
    <2> QED BY <1>1, <2>1, UsingKeeps DEF Answers
  <1> QED BY <1>2, <1>3, <1>4 DEF U!flushRxBuffer

LEMMA OthersKeep ==
  ASSUME UartInv, U!Others
  PROVE  UartInv'
  <1> USE DEF UartInv
  <1>1. /\ UNCHANGED <<port, number, uartBad, _fileDescriptor, _devicePath,
                       installed, line, closed, uartReady, last>>
        /\ U!Called
    BY DEF U!Others, U!parameters
  <1>2. uartCalls' \in 0..MaxCalls
    BY <1>1, UartCalled
  <1>3. holder' \in [Files -> {"free", "other", "uart"}] /\ plugged' \subseteq Devices /\ FileIsOwn'
    <2>1. CASE U!FreeFiles # {} /\ holder' = [holder EXCEPT ![U!Min(U!FreeFiles)] = "other"] /\ UNCHANGED plugged
      <3>1. PICK d : d = U!Min(U!FreeFiles)
        OBVIOUS
      <3>2. d \in Files /\ holder[d] = "free" /\ holder' = [holder EXCEPT ![d] = "other"]
        BY <2>1, <3>1, LowestIsFree DEF U!FreeFiles
      <3> QED BY <1>1, <2>1, <3>2 DEF U!TypeOK, FileIsOwn
    <2>2. CASE \E d \in Files : holder[d] = "other" /\ holder' = [holder EXCEPT ![d] = "free"]
                                /\ UNCHANGED plugged
      BY <1>1, <2>2 DEF U!TypeOK, FileIsOwn
    <2>3. CASE \E e \in Devices : /\ plugged' = IF e \in plugged THEN plugged \ {e} ELSE plugged \cup {e}
                                  /\ UNCHANGED holder
      BY <1>1, <2>3 DEF U!TypeOK, FileIsOwn
    <2> QED BY <2>1, <2>2, <2>3 DEF U!Others
  <1>4. U!TypeOK'
    BY <1>1, <1>2, <1>3 DEF U!TypeOK
  <1> QED BY <1>1, <1>3, <1>4 DEF U!TransfersReachTheLine, U!SentIsWhole, U!ReadyIsProgrammed

UartPart == part = "uart" => UartInv

LEMMA UartAlways ==
  ASSUME Careful = TRUE
  PROVE  PartSpec => []UartPart
  <1>1. PartInit => UartPart
    BY UartStart DEF PartInit, UartPart
  <1>2. UartPart /\ [PartNext]_allVars => UartPart'
    <2> SUFFICES ASSUME part = "uart", UartInv, [U!Next]_uartVars PROVE UartInv'
      BY PartSteps DEF UartPart
    <2>1. CASE UNCHANGED uartVars
      BY <2>1 DEF uartVars, UartInv, U!TypeOK, FileIsOwn, U!TransfersReachTheLine, U!ReadyIsProgrammed, U!SentIsWhole
    <2>2. CASE U!Next
      BY <2>2, PosixInitKeeps, EspInitKeeps, Tm4cInitKeeps, PosixDeinitKeeps, EspDeinitKeeps, Tm4cDeinitKeeps,
         TxKeeps, RxKeeps, FlushKeeps, OthersKeep DEF U!Next, U!init, U!deinit
    <2> QED BY <2>1, <2>2
  <1> QED BY <1>1, <1>2, PTL DEF PartSpec

-----------------------------------------------------------------------------
(* The slide motor: as long as no call of the hardware failed the two      *)
(* signals have one level between the driver's steps, so that the wiper    *)
(* stays where a slide has left it.                                        *)

BridgeType == [input : [M!Inputs -> {"on", "off"}], duty : [M!Inputs -> Speeds \cup {0}],
               ready : [M!Inputs -> BOOLEAN], params : Speeds \cup {0}]

MotorTypes ==
  /\ pwmType \in PwmTypes /\ hardware \in Hardwares
  /\ bridge \in BridgeType
  /\ wiper \in 0..Places
  /\ _speed \in Speeds \cup {0}
  /\ minimumForward \in 0..MaxTime /\ minimumBackward \in 0..MaxTime
  /\ effect \in {"Unknown", "Raises"}
  /\ doing \in {"none", "slideToVoltage", "calibrateForward", "calibrateBackward"}
  /\ target \in 0..Places
  /\ reading \in M!Volts /\ previous \in M!Volts /\ difference \in M!Volts
  /\ answer \in [of : {"none", "init", "slideForward", "slideBackward", "setSpeed",
                       "slideToVoltage", "calibrate"},
                 error : {"Success", "Failure", "PrerequisitesNotMet", "NotSupported"}]
  /\ faults \in 0..MaxFaults /\ motorCalls \in 0..MaxCalls

StillUnlessFailed == faults = 0 => bridge.input[1] = bridge.input[2]

MotorInv == MotorTypes /\ StillUnlessFailed /\ M!SpeedIsSet /\ M!TargetIsReached

LEMMA MotorNumbers ==
  /\ Places \in Nat /\ Stiction \in Nat /\ Hysteresis \in Nat /\ BackOff \in Nat
  /\ MaxTime \in Nat /\ MaxFaults \in Nat /\ MaxCalls \in Nat
  /\ M!Unit \in Nat /\ M!Unit >= 2 /\ AdcMultiSamples = M!Unit + 1
  <1>1. M!SlideMotorAssumption
    BY Parameters
  <1>2. {Places, Stiction, Hysteresis, BackOff, MaxTime, MaxFaults, MaxCalls} \subseteq Nat
        /\ AdcMultiSamples \in Nat /\ AdcMultiSamples > 2
    BY <1>1 DEF M!SlideMotorAssumption
  <1> QED BY <1>2 DEF M!Unit

\* The duty cycle that init asks for is the highest there is.
LEMMA PwmDutyCycleIsSpeed == M!PwmDutyCycle \in Speeds
  <1>1. PICK c \in Nat : c = 100
    OBVIOUS
  <1>2. Speeds \subseteq 0..c /\ Speeds # {}
    BY <1>1, Parameters DEF M!SlideMotorAssumption
  <1> DEFINE Below == {n \in Nat : \E s \in Speeds : n = c - s}
  <1>3. PICK s0 \in Speeds : s0 \in 0..c
    BY <1>2
  <1>4. c - s0 \in Nat
    BY <1>1, <1>3
  <1>5. Below # {} /\ Below \subseteq Nat
    BY <1>3, <1>4
  <1>6. IsWellFoundedOn(Smaller, Nat)
    BY NatLessThanWellFounded DEF OpToRel, Smaller
  <1> HIDE DEF Below
  <1>7. PICK m \in Below : \A w \in Below : ~(<<w, m>> \in Smaller)
    BY <1>5, <1>6, WFMin
  <1>8. PICK s \in Speeds : m = c - s /\ m \in Nat
    BY <1>5, <1>7 DEF Below
  <1>9. ASSUME NEW t \in Speeds PROVE s >= t
    <2>1. t \in 0..c /\ s \in 0..c
      BY <1>2, <1>8
    <2>2. c - t \in Nat
      BY <1>1, <2>1
    <2>3. c - t \in Below
      BY <2>2 DEF Below
    <2>4. ~(c - t < m)
      BY <1>5, <1>7, <2>2, <2>3 DEF Smaller, OpToRel
    <2> QED BY <1>1, <1>8, <2>1, <2>4
  <1> QED BY <1>9 DEF M!PwmDutyCycle

-----------------------------------------------------------------------------
(* The bridge. *)

\* Two bridges that differ at most in the levels of their signals.
SameButLevels(b, c) == c \in BridgeType /\ c.duty = b.duty /\ c.ready = b.ready /\ c.params = b.params

LEMMA PutIs ==
  ASSUME NEW b \in BridgeType, NEW i \in M!Inputs, NEW level \in {"on", "off"}, NEW o \in M!Put(b, i, level)
  PROVE  /\ SameButLevels(b, o.bridge)
         /\ o.failed \in {0, 1} /\ o.error \in {"Success", "Failure"} /\ (o.failed = 0 <=> o.error = "Success")
         /\ o.error = "Success" => \A j \in M!Inputs : o.bridge.input[j] = IF j = i THEN level ELSE b.input[j]
  <1>1. CASE o = M!Outcome([b EXCEPT !.input[i] = level], "Success", 0)
    <2>1. PICK c : c = [b EXCEPT !.input[i] = level]
      OBVIOUS
    <2>2. c \in BridgeType /\ c.duty = b.duty /\ c.ready = b.ready /\ c.params = b.params
          /\ c.input = [b.input EXCEPT ![i] = level]
      BY <2>1 DEF BridgeType
    <2>3. o.bridge = c /\ o.failed = 0 /\ o.error = "Success"
      BY <1>1, <2>1 DEF M!Outcome
    <2>4. \A j \in M!Inputs : c.input[j] = IF j = i THEN level ELSE b.input[j]
      BY <2>2 DEF BridgeType
    <2> QED BY <2>2, <2>3, <2>4 DEF SameButLevels
  <1>2. CASE o = M!Outcome(b, "Failure", 1)
    BY <1>2 DEF M!Outcome, SameButLevels
  <1> QED BY <1>1, <1>2 DEF M!Put

LEMMA BothIs ==
  ASSUME NEW b \in BridgeType, NEW first \in {"on", "off"}, NEW second \in {"on", "off"},
         NEW o \in M!Both(b, first, second)
  PROVE  /\ SameButLevels(b, o.bridge)
         /\ o.failed \in Nat /\ o.error \in {"Success", "Failure"} /\ (o.failed = 0 <=> o.error = "Success")
         /\ o.error = "Success" => o.bridge.input[1] = first /\ o.bridge.input[2] = second
  <1> DEFINE Second(a) == IF a.error # "Success" THEN {a}
                          ELSE {M!Outcome(p.bridge, p.error, a.failed + p.failed) : p \in M!Put(a.bridge, 2, second)}
  <1>1. PICK a \in M!Put(b, 1, first) : o \in Second(a)
    BY DEF M!Both
  <1>0. 1 \in M!Inputs /\ 2 \in M!Inputs /\ 1 # 2
    BY DEF M!Inputs
  <1>2. /\ SameButLevels(b, a.bridge)
        /\ a.failed \in {0, 1} /\ a.error \in {"Success", "Failure"} /\ (a.failed = 0 <=> a.error = "Success")
        /\ a.error = "Success" => a.bridge.input[1] = first
    BY <1>0, <1>1, PutIs
  <1>3. CASE a.error # "Success"
    BY <1>1, <1>2, <1>3
  <1>4. CASE a.error = "Success"
    <2>1. PICK p \in M!Put(a.bridge, 2, second) : o = M!Outcome(p.bridge, p.error, a.failed + p.failed)
      BY <1>1, <1>4
    <2>2. a.bridge \in BridgeType
      BY <1>2 DEF SameButLevels
    <2>3. /\ SameButLevels(a.bridge, p.bridge)
          /\ p.failed \in {0, 1} /\ p.error \in {"Success", "Failure"} /\ (p.failed = 0 <=> p.error = "Success")
          /\ p.error = "Success" => p.bridge.input[2] = second /\ p.bridge.input[1] = a.bridge.input[1]
      BY <1>0, <2>1, <2>2, PutIs
    <2>4. o.bridge = p.bridge /\ o.error = p.error /\ o.failed = a.failed + p.failed
      BY <2>1 DEF M!Outcome
    <2>5. SameButLevels(b, o.bridge)
      BY <1>2, <2>3, <2>4 DEF SameButLevels
    <2> QED BY <1>2, <1>4, <2>3, <2>4, <2>5
  <1> QED BY <1>3, <1>4

\* What a slide leaves behind.  It fails visibly or not at all, and it ends with a
\* brake when it answers Success.
Slid(from, s) ==
  /\ SameButLevels(from.bridge, s.bridge) /\ s.wiper \in 0..Places
  /\ s.failed \in Nat /\ s.error \in {"Success", "Failure"}
  /\ s.failed = 0 /\ from.bridge.input[1] = from.bridge.input[2] => s.bridge.input[1] = s.bridge.input[2]

LEMMA MovedIsPlace ==
  ASSUME NEW p \in 0..Places, NEW way \in {1, -1}, NEW t \in Nat
  PROVE  M!Moved(p, way, t) \in 0..Places
  <1>1. Places \in Nat /\ Stiction \in Nat
    BY MotorNumbers
  <1>2. p + way * (t - Stiction + 1) \in Int
    <2>1. CASE way = 1
      BY <1>1, <2>1
    <2>2. CASE way = -1
      BY <1>1, <2>2
    <2> QED BY <2>1, <2>2
  <1>3. PICK x \in Int : x = p + way * (t - Stiction + 1)
    BY <1>2
  <1>4. M!Clamp(x) \in 0..Places
    BY <1>1 DEF M!Clamp
  <1> QED BY <1>3, <1>4 DEF M!Moved

\* A drive that fails leaves the levels somehow and has a call that failed.
LEMMA DriveFails ==
  ASSUME NEW b \in BridgeType, NEW way \in {1, -1},
         NEW d \in (IF way = 1 THEN M!driveForward(b) ELSE M!driveBackward(b)), d.error # "Success"
  PROVE  /\ SameButLevels(b, d.bridge) /\ d.failed \in Nat \ {0} /\ d.error = "Failure"
  <1>1. d \in M!Both(b, "on", "off") \/ d \in M!Both(b, "off", "on")
    BY DEF M!driveForward, M!driveBackward
  <1>2. CASE d \in M!Both(b, "on", "off")
    BY <1>2, BothIs
  <1>3. CASE d \in M!Both(b, "off", "on")
    BY <1>3, BothIs
  <1> QED BY <1>1, <1>2, <1>3

LEMMA SlideIs ==
  ASSUME NEW from, from.bridge \in BridgeType, from.wiper \in 0..Places,
         NEW way \in {1, -1}, NEW t \in Nat, NEW s \in M!Slide(from, way, t)
  PROVE  /\ Slid(from, s) /\ (t # 0 /\ s.error = "Success" => M!Braked(s.bridge))
         /\ s = [bridge |-> s.bridge, wiper |-> s.wiper, error |-> s.error, failed |-> s.failed]
  <1> DEFINE drive(b) == IF way = 1 THEN M!driveForward(b) ELSE M!driveBackward(b)
             level(i) == IF (i = 1) = (way = 1) THEN "on" ELSE "off"
             going == [from.bridge EXCEPT !.input = [i \in M!Inputs |-> level(i)]]
             braked == M!brake(going)
             stuck(b) == {d \in drive(b) : d.error # "Success" /\ M!MayFail(d.failed)}
             stuckAgain == UNION {{M!Outcome(d.bridge, d.error, o.failed + d.failed) : d \in stuck(o.bridge)} :
                                     o \in braked}
             After(o, done, hidden) == [bridge |-> o.bridge, wiper |-> M!Moved(from.wiper, way, done),
                                        error |-> o.error, failed |-> o.failed + hidden]
             Hidden(brakes) == {n \in 0..MaxFaults : n <= brakes /\ M!MayFail(n)}
             Ends(outcomes, done, brakes) ==
               UNION {{After(o, done, n) : o \in outcomes} : n \in Hidden(brakes)}
             Whole(r) == r = [bridge |-> r.bridge, wiper |-> r.wiper, error |-> r.error, failed |-> r.failed]
  <1>0. s \in IF t = 0 THEN Ends({M!Outcome(from.bridge, "Success", 0)}, 0, 0)
              ELSE IF pwmType = "Gpio" THEN {}
              ELSE Ends(braked, t, t - 1) \cup Ends(stuck(from.bridge), 0, 0) \cup
                   UNION {Ends(stuckAgain, done, done - 1) : done \in 1..t-1}
    BY Zenon DEF M!Slide
  <1>1. /\ going \in BridgeType /\ going.duty = from.bridge.duty
        /\ going.ready = from.bridge.ready /\ going.params = from.bridge.params
    BY DEF BridgeType
  <1>2. SameButLevels(from.bridge, going)
    BY <1>1 DEF SameButLevels
  <1>3. \A o \in braked : /\ SameButLevels(from.bridge, o.bridge)
                          /\ o.failed \in Nat /\ o.error \in {"Success", "Failure"}
                          /\ o.failed = 0 <=> o.error = "Success"
                          /\ o.error = "Success" => o.bridge.input[1] = "on" /\ o.bridge.input[2] = "on"
    <2> HIDE DEF going
    <2> SUFFICES ASSUME NEW o \in M!brake(going)
                 PROVE  /\ SameButLevels(from.bridge, o.bridge)
                        /\ o.failed \in Nat /\ o.error \in {"Success", "Failure"}
                        /\ o.failed = 0 <=> o.error = "Success"
                        /\ o.error = "Success" => o.bridge.input[1] = "on" /\ o.bridge.input[2] = "on"
      OBVIOUS
    <2>1. /\ SameButLevels(going, o.bridge)
          /\ o.failed \in Nat /\ o.error \in {"Success", "Failure"} /\ (o.failed = 0 <=> o.error = "Success")
          /\ o.error = "Success" => o.bridge.input[1] = "on" /\ o.bridge.input[2] = "on"
      BY <1>1, BothIs DEF M!brake
    <2> QED BY <1>2, <2>1 DEF SameButLevels
  <1>4. ASSUME NEW b \in BridgeType, NEW d \in stuck(b)
        PROVE  SameButLevels(b, d.bridge) /\ d.failed \in Nat \ {0} /\ d.error = "Failure"
    <2> HIDE DEF going, braked, stuckAgain
    <2>1. d \in drive(b) /\ d.error # "Success"
      BY <1>4
    <2> QED BY <2>1, DriveFails
  <1> HIDE DEF going, braked, stuck
  <1>5. ASSUME NEW d \in stuckAgain
        PROVE  SameButLevels(from.bridge, d.bridge) /\ d.failed \in Nat \ {0} /\ d.error = "Failure"
    <2>1. PICK o \in braked : d \in {M!Outcome(e.bridge, e.error, o.failed + e.failed) : e \in stuck(o.bridge)}
      BY <1>5
    <2>2. PICK e \in stuck(o.bridge) : d = M!Outcome(e.bridge, e.error, o.failed + e.failed)
      BY <2>1
    <2>3. d.bridge = e.bridge /\ d.error = e.error /\ d.failed = o.failed + e.failed
      BY <2>2 DEF M!Outcome
    <2>4. o.bridge \in BridgeType /\ SameButLevels(from.bridge, o.bridge) /\ o.failed \in Nat
      BY <1>3, <2>1 DEF SameButLevels
    <2>5. SameButLevels(o.bridge, e.bridge) /\ e.failed \in Nat \ {0} /\ e.error = "Failure"
      BY <1>4, <2>2, <2>4
    <2> QED BY <2>3, <2>4, <2>5 DEF SameButLevels
  <1> HIDE DEF stuckAgain
  \* What is common to the results.
  <1>6. ASSUME NEW o, NEW done \in Nat, NEW n \in Nat, s = After(o, done, n),
               SameButLevels(from.bridge, o.bridge), o.failed \in Nat, o.error \in {"Success", "Failure"},
               o.failed = 0 /\ from.bridge.input[1] = from.bridge.input[2] => o.bridge.input[1] = o.bridge.input[2]
        PROVE  Slid(from, s) /\ Whole(s) /\ s.bridge = o.bridge /\ s.error = o.error
    <2>1. s.bridge = o.bridge /\ s.wiper = M!Moved(from.wiper, way, done) /\ s.error = o.error
          /\ s.failed = o.failed + n /\ Whole(s)
      BY <1>6
    <2> HIDE DEF After
    <2>2. s.wiper \in 0..Places
      BY <1>6, <2>1, MovedIsPlace
    <2>3. s.failed \in Nat /\ (s.failed = 0 => o.failed = 0)
      BY <1>6, <2>1
    <2> HIDE DEF Whole
    <2> QED BY <1>6, <2>1, <2>2, <2>3 DEF Slid
  <1>7. ASSUME NEW outcomes, NEW done, NEW brakes, s \in Ends(outcomes, done, brakes)
        PROVE  \E o \in outcomes : \E n \in Hidden(brakes) : s = After(o, done, n)
    <2> HIDE DEF After, Hidden
    <2> QED BY <1>7
  <1>8. \A brakes : \A n \in Hidden(brakes) : n \in Nat
    OBVIOUS
  <1> HIDE DEF Hidden, Ends
  <1>9. CASE t = 0
    <2>1. PICK o : o = M!Outcome(from.bridge, "Success", 0)
      OBVIOUS
    <2>2. o.bridge = from.bridge /\ o.error = "Success" /\ o.failed = 0
      BY <2>1 DEF M!Outcome
    <2>3. SameButLevels(from.bridge, o.bridge)
      BY <2>2 DEF SameButLevels
    <2> HIDE DEF After, Whole
    <2>4. PICK n \in Hidden(0) : s = After(o, 0, n)
      BY <1>0, <1>7, <1>9, <2>1
    <2>5. n \in Nat /\ o.failed \in Nat /\ o.error \in {"Success", "Failure"} /\ 0 \in Nat
          /\ (from.bridge.input[1] = from.bridge.input[2] => o.bridge.input[1] = o.bridge.input[2])
      BY <1>8, <2>2
    <2>6. Slid(from, s) /\ Whole(s)
      BY <1>6, <2>3, <2>4, <2>5
    <2> QED BY <1>9, <2>6 DEF Whole
  <1>10. ASSUME NEW o \in braked, NEW n \in Hidden(t - 1), s = After(o, t, n)
         PROVE  Slid(from, s) /\ Whole(s) /\ (s.error = "Success" => M!Braked(s.bridge))
    <2>1. Slid(from, s) /\ Whole(s) /\ s.bridge = o.bridge /\ s.error = o.error
      <3> HIDE DEF After, Whole
      <3> QED BY <1>3, <1>6, <1>8, <1>10
    <2> QED BY <1>3, <2>1 DEF M!Braked, M!Inputs
  <1>11. ASSUME NEW d \in stuck(from.bridge), NEW n \in Hidden(0), s = After(d, 0, n)
         PROVE  Slid(from, s) /\ Whole(s) /\ s.error # "Success"
    <2> HIDE DEF After, Whole
    <2>1. SameButLevels(from.bridge, d.bridge) /\ d.failed \in Nat \ {0} /\ d.error = "Failure"
      BY <1>4
    <2> QED BY <1>6, <1>8, <1>11, <2>1
  <1>12. ASSUME NEW done \in 1..t-1, NEW d \in stuckAgain, NEW n \in Hidden(done - 1), s = After(d, done, n)
         PROVE  Slid(from, s) /\ Whole(s) /\ s.error # "Success"
    <2> HIDE DEF After, Whole
    <2>1. SameButLevels(from.bridge, d.bridge) /\ d.failed \in Nat \ {0} /\ d.error = "Failure"
      BY <1>5
    <2>2. done \in Nat
      OBVIOUS
    <2> QED BY <1>6, <1>8, <1>12, <2>1, <2>2
  <1>13. CASE t # 0
    <2> HIDE DEF After, Whole
    <2>1. \/ s \in Ends(braked, t, t - 1)
          \/ s \in Ends(stuck(from.bridge), 0, 0)
          \/ \E done \in 1..t-1 : s \in Ends(stuckAgain, done, done - 1)
      BY <1>0, <1>13
    <2>2. Slid(from, s) /\ Whole(s) /\ (s.error = "Success" => M!Braked(s.bridge))
      <3>1. CASE s \in Ends(braked, t, t - 1)
        BY <1>7, <1>10, <3>1
      <3>2. CASE s \in Ends(stuck(from.bridge), 0, 0)
        BY <1>7, <1>11, <3>2
      <3>3. CASE \E done \in 1..t-1 : s \in Ends(stuckAgain, done, done - 1)
        BY <1>7, <1>12, <3>3
      <3> QED BY <2>1, <3>1, <3>2, <3>3
    <2> QED BY <2>2 DEF Whole
  <1> HIDE DEF drive, After, level
  <1> QED BY <1>9, <1>13

LEMMA ForwardSlideIs ==
  ASSUME NEW from, from.bridge \in BridgeType, from.wiper \in 0..Places, NEW t \in Nat,
         NEW s \in M!ForwardSlides(from, t)
  PROVE  Slid(from, s) /\ (t # 0 /\ s.error = "Success" => M!Braked(s.bridge))
  BY SlideIs DEF M!ForwardSlides

LEMMA BackwardSlideIs ==
  ASSUME NEW from, from.bridge \in BridgeType, from.wiper \in 0..Places, NEW t \in Nat,
         NEW s \in M!BackwardSlides(from, t)
  PROVE  Slid(from, s) /\ s.error = "Success"
  <1>1. PICK r \in M!Slide(from, -1, t) : s = [r EXCEPT !.error = "Success"]
    BY DEF M!BackwardSlides
  <1>2. Slid(from, r)
    BY <1>1, SlideIs
  <1>3. r = [bridge |-> r.bridge, wiper |-> r.wiper, error |-> r.error, failed |-> r.failed]
    BY <1>1, SlideIs
  <1>4. s.bridge = r.bridge /\ s.wiper = r.wiper /\ s.failed = r.failed /\ s.error = "Success"
    BY <1>1, <1>3
  <1> QED BY <1>2, <1>4 DEF Slid

-----------------------------------------------------------------------------
(* The voltages. *)

LEMMA Quotient ==
  ASSUME NEW u \in Nat, u > 0, NEW k \in Nat, NEW a \in Nat, a <= k * u
  PROVE  a \div u \in Nat /\ a \div u <= k
  <1>1. PICK q : q = a \div u
    OBVIOUS
  <1>2. q \in Int /\ u * q <= a /\ a < u * q + u
    BY <1>1
  <1>3. q >= 0
    <2> SUFFICES ASSUME q < 0 PROVE FALSE
      BY <1>2
    <2>1. q + 1 \in Int /\ q + 1 <= 0
      BY <1>2
    <2>2. u * (q + 1) <= 0
      BY <2>1
    <2>3. u * (q + 1) = u * q + u
      BY <1>2
    <2> QED BY <1>2, <2>2, <2>3
  <1>4. q <= k
    <2> SUFFICES ASSUME q > k PROVE FALSE
      BY <1>2
    <2>1. PICK d \in Nat : q = k + 1 + d
      BY <1>2
    <2>2. u * q = u * k + u + u * d
      BY <2>1
    <2>3. u * d \in Nat
      OBVIOUS
    <2>4. u * k = k * u /\ u * k \in Nat
      OBVIOUS
    <2> QED BY <1>2, <2>2, <2>3, <2>4
  <1> QED BY <1>1, <1>2, <1>3, <1>4

\* The voltage of a place, and the one of the last place.
LEMMA VoltageIs ==
  ASSUME NEW p \in 0..Places
  PROVE  /\ M!VoltageAt(p) \in Nat /\ M!VoltageAt(p) <= Places * M!Unit
         /\ Places * M!Unit \in Nat /\ (Places + 1) * M!Unit = Places * M!Unit + M!Unit
  <1>1. Places \in Nat /\ M!Unit \in Nat
    BY MotorNumbers
  <1>2. PICK u \in Nat : u = M!Unit
    BY <1>1
  <1>3. PICK k \in Nat : k <= Places /\ M!VoltageAt(p) = k * u
    <2>1. CASE hardware = "Raises"
      BY <1>1, <1>2, <2>1 DEF M!VoltageAt
    <2>2. CASE hardware # "Raises"
      <3>1. Places - p \in Nat /\ Places - p <= Places
        BY <1>1
      <3> QED BY <1>2, <2>2, <3>1 DEF M!VoltageAt
    <2> QED BY <2>1, <2>2
  <1>4. PICK d \in Nat : Places = k + d
    BY <1>1, <1>3
  <1>5. Places * u = k * u + d * u /\ k * u \in Nat /\ d * u \in Nat
    BY <1>4
  <1>6. (Places + 1) * u = Places * u + u
    BY <1>1
  <1> QED BY <1>2, <1>3, <1>5, <1>6

LEMMA VoltsAre ==
  ASSUME NEW v
  PROVE  v \in M!Volts <=> v \in Nat /\ v <= Places * M!Unit + M!Unit
  <1>1. Places \in Nat /\ M!Unit \in Nat /\ 0 \in 0..Places
    BY MotorNumbers
  <1>2. Places * M!Unit \in Nat /\ (Places + 1) * M!Unit = Places * M!Unit + M!Unit
    BY <1>1, VoltageIs
  <1>3. PICK n \in Nat : n = Places * M!Unit + M!Unit
    BY <1>1, <1>2
  <1>4. M!Volts = 0..n
    BY <1>2, <1>3 DEF M!Volts
  <1> QED BY <1>3, <1>4

LEMMA DistanceIsVoltage ==
  ASSUME NEW a \in M!Volts, NEW b \in M!Volts
  PROVE  M!Distance(a, b) \in M!Volts
  <1>1. PICK n \in Nat : n = Places * M!Unit + M!Unit
    BY MotorNumbers, VoltageIs
  <1>2. a \in Nat /\ b \in Nat /\ a <= n /\ b <= n
    BY <1>1, VoltsAre
  <1>3. M!Distance(a, b) \in Nat /\ M!Distance(a, b) <= n
    BY <1>2 DEF M!Distance
  <1> QED BY <1>1, <1>3, VoltsAre

\* A reading without a failed sample is off by at most one for every place.
ReadAt(r, p) ==
  /\ r.volts \in M!Volts /\ r.failed \in Nat /\ r.error \in {"Success", "Failure"}
  /\ r.failed = 0 => r.volts >= M!VoltageAt(p) /\ r.volts <= M!VoltageAt(p) + (Places + 1)

LEMMA ReadingIs ==
  ASSUME Places < AdcMultiSamples - 1, NEW old \in M!Volts, NEW p \in 0..Places, NEW r \in M!Readings(old, p)
  PROVE  ReadAt(r, p)
  <1>1. PICK u \in Nat : u = M!Unit /\ u >= 2 /\ AdcMultiSamples = u + 1 /\ Places \in Nat /\ Places + 1 <= u
    BY MotorNumbers
  <1>2. PICK v \in Nat : v = M!VoltageAt(p) /\ v <= Places * u /\ Places * u \in Nat
                         /\ (Places + 1) * u = Places * u + u
    BY <1>1, VoltageIs
  <1>3. old \in Nat /\ old <= Places * u + u
    BY <1>1, VoltsAre
  <1>4. CASE r = [volts |-> M!Average(old, v), error |-> "Success", failed |-> 0]
    <2>1. old \div u \in Nat /\ old \div u <= Places + 1
      BY <1>1, <1>2, <1>3, Quotient
    <2>2. PICK q \in Nat : q = old \div u /\ q <= Places + 1
      BY <2>1
    <2>3. r.volts = v + q /\ r.error = "Success" /\ r.failed = 0
      BY <1>1, <1>4, <2>2 DEF M!Average
    <2>4. v + q \in Nat /\ v + q <= Places * u + u
      BY <1>1, <1>2, <2>2
    <2>5. r.volts \in M!Volts
      BY <1>1, <2>3, <2>4, VoltsAre
    <2> QED BY <1>1, <1>2, <2>2, <2>3, <2>5 DEF ReadAt
  <1>5. ASSUME NEW k \in {i \in 1..MaxFaults : M!MayFail(i)}, NEW all,
               all \subseteq M!Volts, r \in [volts : all, error : {"Success", "Failure"}, failed : {k}]
        PROVE  ReadAt(r, p)
    <2>1. k \in Nat /\ k # 0
      OBVIOUS
    <2> QED BY <1>5, <2>1 DEF ReadAt
  <1>6. \A a, b : M!Between(a, b) \subseteq M!Volts
    BY DEF M!Between
  <1> DEFINE Shared(shares) == (shares * old + (M!Unit - shares) * M!VoltageAt(p)) \div M!Unit
             Mixtures(failed) ==
               M!Between(M!Average(old, M!VoltageAt(p)), M!VoltageAt(p) + ((failed + 1) * old) \div M!Unit) \cup
               M!Between(Shared(1), Shared(IF failed > M!Unit THEN M!Unit ELSE failed))
  <1>7. \A k : Mixtures(k) \subseteq M!Volts
    BY <1>6
  <1>8. M!Readings(old, p) =
           {[volts |-> M!Average(old, M!VoltageAt(p)), error |-> "Success", failed |-> 0]} \cup
           UNION {[volts : Mixtures(k), error : {"Success", "Failure"}, failed : {k}] :
                     k \in {i \in 1..MaxFaults : M!MayFail(i)}}
    BY Zenon DEF M!Readings
  <1> HIDE DEF Mixtures
  <1>9. \/ r = [volts |-> M!Average(old, M!VoltageAt(p)), error |-> "Success", failed |-> 0]
        \/ \E k \in {i \in 1..MaxFaults : M!MayFail(i)} :
              r \in [volts : Mixtures(k), error : {"Success", "Failure"}, failed : {k}]
    BY <1>8
  <1> QED BY <1>2, <1>4, <1>5, <1>7, <1>9

-----------------------------------------------------------------------------
(* The steps of the motor. *)

\* A step that makes calls of which n fail, and leaves the signals at one level
\* when none does.
Acted(n) ==
  /\ n \in Nat /\ faults + n <= MaxFaults /\ faults' = faults + n
  /\ n = 0 /\ bridge.input[1] = bridge.input[2] => bridge'.input[1] = bridge'.input[2]

LEMMA ActedIsStill ==
  ASSUME MotorInv, NEW n, Acted(n)
  PROVE  StillUnlessFailed' /\ faults' \in 0..MaxFaults /\ (faults' = 0 => n = 0)
  <1>1. faults \in Nat /\ MaxFaults \in Nat
    BY MotorNumbers DEF MotorInv, MotorTypes
  <1> QED BY <1>1 DEF MotorInv, StillUnlessFailed, Acted

LEMMA FaultsAre ==
  ASSUME NEW n \in Nat, M!Faults(n),
         n = 0 /\ bridge.input[1] = bridge.input[2] => bridge'.input[1] = bridge'.input[2]
  PROVE  Acted(n)
  BY DEF M!Faults, M!MayFail, Acted

LEMMA SpeedKept ==
  ASSUME MotorInv, SameButLevels(bridge, bridge'), _speed' = _speed, answer' = answer \/ answer'.of # "setSpeed"
  PROVE  M!SpeedIsSet'
  BY DEF MotorInv, M!SpeedIsSet, SameButLevels

LEMMA TargetKept ==
  ASSUME answer'.of # "slideToVoltage" \/ answer'.error # "Success" \/ doing' # "none"
  PROVE  M!TargetIsReached'
  BY DEF M!TargetIsReached

AnswerType == [of : {"none", "init", "slideForward", "slideBackward", "setSpeed", "slideToVoltage", "calibrate"},
               error : {"Success", "Failure", "PrerequisitesNotMet", "NotSupported"}]

LEMMA AnswersIs ==
  ASSUME NEW of \in {"init", "slideForward", "slideBackward", "setSpeed", "slideToVoltage", "calibrate"},
         NEW e \in {"Success", "Failure", "PrerequisitesNotMet", "NotSupported"},
         M!Answers(of, e)
  PROVE  answer' \in AnswerType /\ answer'.of = of /\ answer'.error = e /\ answer' = [of |-> of, error |-> e] /\ doing' = "none"
  BY DEF M!Answers, AnswerType

LEMMA MotorCalled ==
  ASSUME MotorInv, M!Called
  PROVE  motorCalls' \in 0..MaxCalls
  BY MotorNumbers DEF M!Called, MotorInv, MotorTypes

LEMMA NowIs ==
  ASSUME MotorInv
  PROVE  M!Now.bridge = bridge /\ M!Now.wiper = wiper /\ bridge \in BridgeType /\ wiper \in 0..Places
  BY DEF M!Now, MotorInv, MotorTypes

\* A call that slides once.
LEMMA SlidesOnce ==
  ASSUME MotorInv, M!Called, NEW s, Slid(M!Now, s), M!Done(s),
         NEW of \in {"slideForward", "slideBackward"}, M!Answers(of, s.error),
         UNCHANGED <<pwmType, hardware, _speed, minimumForward, minimumBackward, effect,
                     target, reading, previous, difference>>
  PROVE  MotorInv'
  <1>1. bridge' = s.bridge /\ wiper' = s.wiper /\ M!Faults(s.failed)
    BY DEF M!Done
  <1>2. /\ SameButLevels(bridge, bridge') /\ wiper' \in 0..Places /\ s.failed \in Nat
        /\ s.error \in {"Success", "Failure"}
        /\ s.failed = 0 /\ bridge.input[1] = bridge.input[2] => bridge'.input[1] = bridge'.input[2]
    BY <1>1, NowIs DEF Slid
  <1>3. Acted(s.failed)
    BY <1>1, <1>2, FaultsAre
  <1>4. StillUnlessFailed' /\ faults' \in 0..MaxFaults
    BY <1>3, ActedIsStill
  <1>5. answer' \in AnswerType /\ answer'.of = of /\ doing' = "none"
    BY <1>2, AnswersIs
  <1>6. motorCalls' \in 0..MaxCalls
    BY MotorCalled
  <1>7. M!SpeedIsSet' /\ M!TargetIsReached'
    BY <1>2, <1>5, SpeedKept, TargetKept
  <1>8. bridge' \in BridgeType
    BY <1>2 DEF SameButLevels
  <1>9. MotorTypes'
    <2> USE DEF MotorInv, MotorTypes
    <2>1. reading' \in M!Volts' /\ previous' \in M!Volts' /\ difference' \in M!Volts'
      BY DEF M!Volts
    <2> QED BY <1>2, <1>4, <1>5, <1>6, <1>8, <2>1 DEF AnswerType
  <1> QED BY <1>4, <1>7, <1>9 DEF MotorInv

LEMMA SlideCallsKeep ==
  ASSUME MotorInv, NEW t \in 0..MaxTime, M!slideForward(t) \/ M!slideBackward(t)
  PROVE  MotorInv'
  <1>1. t \in Nat
    OBVIOUS
  <1>2. CASE M!slideForward(t)
    <2>1. PICK s \in M!ForwardSlides(M!Now, t) : M!Done(s) /\ M!Answers("slideForward", s.error)
      BY <1>2 DEF M!slideForward
    <2>2. Slid(M!Now, s)
      BY <1>1, <2>1, NowIs, ForwardSlideIs
    <2> QED BY <1>2, <2>1, <2>2, SlidesOnce DEF M!slideForward, M!parameters, M!settings, M!locals
  <1>3. CASE M!slideBackward(t)
    <2>1. PICK s \in M!BackwardSlides(M!Now, t) : M!Done(s) /\ M!Answers("slideBackward", s.error)
      BY <1>3 DEF M!slideBackward
    <2>2. Slid(M!Now, s)
      BY <1>1, <2>1, NowIs, BackwardSlideIs
    <2> QED BY <1>3, <2>1, <2>2, SlidesOnce DEF M!slideBackward, M!parameters, M!settings, M!locals
  <1> QED BY <1>2, <1>3

-----------------------------------------------------------------------------
\* Starting the signals leaves their levels and the parameters alone.
SameLevels(b, c) == c \in BridgeType /\ c.input = b.input /\ c.params = b.params

LEMMA InitSignalIs ==
  ASSUME NEW b \in BridgeType, NEW i \in M!Inputs, NEW o \in M!InitSignal(b, i)
  PROVE  SameLevels(b, o.bridge) /\ o.failed \in Nat /\ o.error \in {"Success", "Failure"}
  <1>1. b.params \in Speeds \cup {0} /\ b.duty \in [M!Inputs -> Speeds \cup {0}] /\ b.ready \in [M!Inputs -> BOOLEAN]
    BY DEF BridgeType
  <1>2. CASE o = M!Outcome([b EXCEPT !.duty[i] = b.params, !.ready[i] = TRUE], "Success", 0)
    <2>1. PICK c : c = [b EXCEPT !.duty[i] = b.params, !.ready[i] = TRUE]
      OBVIOUS
    <2>2. SameLevels(b, c)
      BY <1>1, <2>1 DEF BridgeType, SameLevels
    <2> QED BY <1>2, <2>1, <2>2 DEF M!Outcome
  <1>3. CASE o = M!Outcome([b EXCEPT !.duty[i] = b.params], "Failure", 1)
    <2>1. PICK c : c = [b EXCEPT !.duty[i] = b.params]
      OBVIOUS
    <2>2. SameLevels(b, c)
      BY <1>1, <2>1 DEF BridgeType, SameLevels
    <2> QED BY <1>3, <2>1, <2>2 DEF M!Outcome
  <1>4. CASE o = M!Outcome(b, "Failure", 1)
    BY <1>4 DEF M!Outcome, SameLevels
  <1> QED BY <1>2, <1>3, <1>4 DEF M!InitSignal

LEMMA InitialisedIs ==
  ASSUME NEW b \in BridgeType, NEW o \in M!Initialised(b)
  PROVE  SameLevels(b, o.bridge) /\ o.failed \in Nat /\ o.error \in {"Success", "Failure"}
  <1>0. 1 \in M!Inputs /\ 2 \in M!Inputs
    BY DEF M!Inputs
  <1>1. PICK a \in M!InitSignal(b, 1) :
           o \in {M!Outcome(p.bridge, p.error, a.failed + p.failed) : p \in M!InitSignal(a.bridge, 2)}
    BY DEF M!Initialised
  <1>2. PICK p \in M!InitSignal(a.bridge, 2) : o = M!Outcome(p.bridge, p.error, a.failed + p.failed)
    BY <1>1
  <1>3. SameLevels(b, a.bridge) /\ a.failed \in Nat
    BY <1>0, <1>1, InitSignalIs
  <1>4. a.bridge \in BridgeType
    BY <1>3 DEF SameLevels
  <1>5. SameLevels(a.bridge, p.bridge) /\ p.failed \in Nat /\ p.error \in {"Success", "Failure"}
    BY <1>0, <1>2, <1>4, InitSignalIs
  <1>6. o.bridge = p.bridge /\ o.error = p.error /\ o.failed = a.failed + p.failed
    BY <1>2 DEF M!Outcome
  <1> QED BY <1>3, <1>5, <1>6 DEF SameLevels

LEMMA SetDutyIs ==
  ASSUME NEW b \in BridgeType, NEW i \in M!Inputs, NEW speed \in Speeds, NEW o \in M!SetDuty(b, i, speed)
  PROVE  /\ SameLevels(b, o.bridge)
         /\ o.failed \in Nat /\ o.error \in {"Success", "Failure"}
         /\ o.error = "Success" => \A j \in M!Inputs : o.bridge.duty[j] = IF j = i THEN speed ELSE b.duty[j]
         /\ o.error = "Success" => o.failed = 0
  <1>1. b.duty \in [M!Inputs -> Speeds \cup {0}]
    BY DEF BridgeType
  <1>2. CASE o = M!Outcome([b EXCEPT !.duty[i] = speed], "Success", 0)
    <2>1. PICK c : c = [b EXCEPT !.duty[i] = speed]
      OBVIOUS
    <2>2. SameLevels(b, c) /\ \A j \in M!Inputs : c.duty[j] = IF j = i THEN speed ELSE b.duty[j]
      BY <1>1, <2>1 DEF BridgeType, SameLevels
    <2> QED BY <1>2, <2>1, <2>2 DEF M!Outcome
  <1>3. CASE o = M!Outcome(b, "Failure", 1)
    BY <1>3 DEF M!Outcome, SameLevels
  <1> QED BY <1>2, <1>3 DEF M!SetDuty

LEMMA ChangeDutyCycleIs ==
  ASSUME NEW b \in BridgeType, NEW speed \in Speeds, NEW o \in M!changeDutyCycle(b, speed)
  PROVE  /\ o.bridge \in BridgeType /\ o.bridge.input = b.input
         /\ o.failed \in Nat /\ o.error \in {"Success", "Failure"}
         /\ o.error = "Success" => o.bridge.params = speed /\ \A j \in M!Inputs : o.bridge.duty[j] = speed
         /\ o.error # "Success" => o.bridge.params = b.params
  <1>0. 1 \in M!Inputs /\ 2 \in M!Inputs /\ M!Inputs = {1, 2}
    BY DEF M!Inputs
  <1> DEFINE Second(a) == IF a.error # "Success" THEN {a}
                          ELSE {IF p.error # "Success" THEN p
                                ELSE M!Outcome([p.bridge EXCEPT !.params = speed], "Success", 0) :
                                    p \in M!SetDuty(a.bridge, 2, speed)}
  <1>1. PICK a \in M!SetDuty(b, 1, speed) : o \in Second(a)
    BY DEF M!changeDutyCycle
  <1>2. /\ SameLevels(b, a.bridge) /\ a.failed \in Nat /\ a.error \in {"Success", "Failure"}
        /\ a.error = "Success" => a.bridge.duty[1] = speed
    BY <1>0, <1>1, SetDutyIs
  <1>3. CASE a.error # "Success"
    BY <1>1, <1>2, <1>3 DEF SameLevels
  <1>4. CASE a.error = "Success"
    <2>1. PICK p \in M!SetDuty(a.bridge, 2, speed) :
             o = IF p.error # "Success" THEN p ELSE M!Outcome([p.bridge EXCEPT !.params = speed], "Success", 0)
      BY <1>1, <1>4
    <2>2. /\ SameLevels(a.bridge, p.bridge) /\ p.failed \in Nat /\ p.error \in {"Success", "Failure"}
          /\ p.error = "Success" => p.bridge.duty[2] = speed /\ p.bridge.duty[1] = a.bridge.duty[1]
      <3>1. a.bridge \in BridgeType
        BY <1>2 DEF SameLevels
      <3> QED BY <1>0, <2>1, <3>1, SetDutyIs
    <2>3. CASE p.error # "Success"
      BY <1>2, <2>1, <2>2, <2>3 DEF SameLevels
    <2>4. CASE p.error = "Success"
      <3>1. PICK c : c = [p.bridge EXCEPT !.params = speed]
        OBVIOUS
      <3>2. c \in BridgeType /\ c.input = p.bridge.input /\ c.duty = p.bridge.duty /\ c.params = speed
        BY <2>2, <3>1 DEF SameLevels, BridgeType
      <3>3. o.bridge = c /\ o.error = "Success" /\ o.failed = 0
        BY <2>1, <2>4, <3>1 DEF M!Outcome
      <3>4. \A j \in M!Inputs : c.duty[j] = speed
        BY <1>0, <1>2, <1>4, <2>2, <2>4, <3>2
      <3> QED BY <1>2, <2>2, <3>2, <3>3, <3>4 DEF SameLevels
    <2> QED BY <2>3, <2>4
  <1> QED BY <1>3, <1>4

-----------------------------------------------------------------------------
Doings == {"none", "slideToVoltage", "calibrateForward", "calibrateBackward"}

\* What is left to show of a step once the values it assigns are known.
LEMMA MotorFrame ==
  ASSUME MotorInv, UNCHANGED <<pwmType, hardware>>,
         bridge' \in BridgeType, wiper' \in 0..Places, _speed' \in Speeds \cup {0},
         minimumForward' \in 0..MaxTime, minimumBackward' \in 0..MaxTime, effect' \in {"Unknown", "Raises"},
         doing' \in Doings, target' \in 0..Places,
         reading' \in M!Volts, previous' \in M!Volts, difference' \in M!Volts,
         answer' \in AnswerType, motorCalls' \in 0..MaxCalls,
         NEW n, Acted(n), M!SpeedIsSet', M!TargetIsReached'
  PROVE  MotorInv'
  <1>1. StillUnlessFailed' /\ faults' \in 0..MaxFaults
    BY ActedIsStill
  <1>2. reading' \in M!Volts' /\ previous' \in M!Volts' /\ difference' \in M!Volts'
    BY DEF M!Volts
  <1>3. MotorTypes'
    BY <1>1, <1>2 DEF MotorInv, MotorTypes, AnswerType, Doings
  <1> QED BY <1>1, <1>3 DEF MotorInv

LEMMA MotorTypesAre ==
  ASSUME MotorInv
  PROVE  /\ bridge \in BridgeType /\ wiper \in 0..Places /\ _speed \in Speeds \cup {0}
         /\ minimumForward \in 0..MaxTime /\ minimumBackward \in 0..MaxTime /\ effect \in {"Unknown", "Raises"}
         /\ doing \in Doings /\ target \in 0..Places
         /\ reading \in M!Volts /\ previous \in M!Volts /\ difference \in M!Volts
         /\ answer \in AnswerType /\ motorCalls \in 0..MaxCalls /\ faults \in 0..MaxFaults
  BY DEF MotorInv, MotorTypes, AnswerType, Doings

LEMMA ZeroIsTyped == 0 \in 0..MaxTime /\ 0 \in M!Volts /\ 0 \in 0..MaxCalls /\ 0 \in 0..MaxFaults /\ 0 \in 0..Places
  <1>1. Places \in Nat /\ MaxTime \in Nat /\ MaxCalls \in Nat /\ MaxFaults \in Nat /\ M!Unit \in Nat
    BY MotorNumbers
  <1>2. 0 \in 0..Places
    BY <1>1
  <1>3. 0 \in M!Volts
    BY <1>1, <1>2, VoltageIs, VoltsAre
  <1> QED BY <1>1, <1>2, <1>3

LEMMA MotorInitKeeps ==
  ASSUME MotorInv, M!init
  PROVE  MotorInv'
  <1>1. /\ UNCHANGED <<pwmType, hardware, wiper, minimumForward, minimumBackward, effect,
                       target, reading, previous, difference>>
        /\ M!Called /\ _speed' = M!PwmDutyCycle
    BY DEF M!init, M!parameters, M!locals
  <1>2. PICK b : b = [bridge EXCEPT !.params = M!PwmDutyCycle]
    OBVIOUS
  <1>3. b \in BridgeType /\ b.input = bridge.input /\ b.params = M!PwmDutyCycle
    BY <1>2, MotorTypesAre, PwmDutyCycleIsSpeed DEF BridgeType
  <1>4. /\ \E n : Acted(n)
        /\ bridge' \in BridgeType /\ bridge'.params = M!PwmDutyCycle
        /\ answer' \in AnswerType /\ answer'.of = "init" /\ doing' \in Doings
    <2>1. CASE pwmType = "Gpio"
      <3>1. bridge' = b /\ M!Answers("init", "NotSupported") /\ UNCHANGED faults
        BY <1>2, <2>1 DEF M!init
      <3>2. answer' \in AnswerType /\ answer'.of = "init" /\ doing' = "none"
        BY <3>1, AnswersIs
      <3>3. Acted(0)
        <4>1. faults \in Nat /\ MaxFaults \in Nat /\ faults <= MaxFaults
          BY MotorTypesAre, MotorNumbers
        <4> QED BY <1>3, <3>1, <4>1 DEF Acted
      <3> QED BY <1>3, <3>1, <3>2, <3>3 DEF Doings
    <2>2. CASE pwmType # "Gpio"
      <3>1. PICK o \in M!Initialised(b) :
               \/ bridge' = o.bridge /\ M!Faults(o.failed) /\ M!Answers("init", o.error)
               \/ /\ o.error = "Success"
                  /\ bridge' = o.bridge /\ M!Faults(o.failed + 1) /\ M!Answers("init", "Failure")
        BY <1>2, <2>2 DEF M!init
      <3>2. SameLevels(b, o.bridge) /\ o.failed \in Nat /\ o.error \in {"Success", "Failure"}
        BY <1>3, <3>1, InitialisedIs
      <3>3. bridge' = o.bridge /\ bridge'.input = bridge.input
        BY <1>3, <3>1, <3>2 DEF SameLevels
      <3>4. PICK n \in Nat : M!Faults(n)
        BY <3>1, <3>2
      <3>5. Acted(n)
        BY <3>3, <3>4, FaultsAre
      <3>6. PICK e \in {"Success", "Failure"} : M!Answers("init", e)
        BY <3>1, <3>2
      <3>7. answer' \in AnswerType /\ answer'.of = "init" /\ doing' = "none"
        BY <3>6, AnswersIs
      <3> QED BY <1>3, <3>2, <3>3, <3>5, <3>7 DEF Doings, SameLevels
    <2> QED BY <2>1, <2>2
  <1>5. M!SpeedIsSet'
    BY <1>1, <1>4 DEF M!SpeedIsSet
  <1>6. M!TargetIsReached'
    BY <1>4, TargetKept
  <1>7. _speed' \in Speeds \cup {0} /\ motorCalls' \in 0..MaxCalls
    BY <1>1, PwmDutyCycleIsSpeed, MotorCalled
  <1> QED BY <1>1, <1>4, <1>5, <1>6, <1>7, MotorTypesAre, MotorFrame

LEMMA SetSpeedKeeps ==
  ASSUME MotorInv, NEW speed \in Speeds, M!setSpeed(speed)
  PROVE  MotorInv'
  <1>1. /\ UNCHANGED <<pwmType, hardware, wiper, minimumForward, minimumBackward, effect,
                       target, reading, previous, difference>>
        /\ M!Called
    BY DEF M!setSpeed, M!parameters, M!locals
  <1>2. CASE pwmType = "Gpio"
    <2>1. M!Answers("setSpeed", "NotSupported") /\ UNCHANGED <<bridge, faults, _speed>>
      BY <1>2 DEF M!setSpeed
    <2>2. answer' \in AnswerType /\ answer'.of = "setSpeed" /\ answer'.error = "NotSupported" /\ doing' = "none"
      BY <2>1, AnswersIs
    <2>3. Acted(0)
      <3>1. faults \in Nat /\ MaxFaults \in Nat /\ faults <= MaxFaults
        BY MotorTypesAre, MotorNumbers
      <3> QED BY <2>1, <3>1 DEF Acted
    <2>4. M!SpeedIsSet' /\ M!TargetIsReached'
      BY <2>1, <2>2, TargetKept DEF MotorInv, M!SpeedIsSet
    <2>5. motorCalls' \in 0..MaxCalls /\ doing' \in Doings
      BY <1>1, <2>2, MotorCalled DEF Doings
    <2> QED BY <1>1, <2>1, <2>2, <2>3, <2>4, <2>5, MotorTypesAre, MotorFrame
  <1>3. CASE pwmType # "Gpio"
    <2>2. PICK o \in M!changeDutyCycle(bridge, speed) :
             /\ bridge' = o.bridge /\ M!Faults(o.failed) /\ M!Answers("setSpeed", o.error)
             /\ _speed' = IF o.error = "Success" THEN speed ELSE _speed
      BY <1>3 DEF M!setSpeed
    <2>3. /\ o.bridge \in BridgeType /\ o.bridge.input = bridge.input
          /\ o.failed \in Nat /\ o.error \in {"Success", "Failure"}
          /\ o.error = "Success" => o.bridge.params = speed /\ \A j \in M!Inputs : o.bridge.duty[j] = speed
          /\ o.error # "Success" => o.bridge.params = bridge.params
      BY <2>2, MotorTypesAre, ChangeDutyCycleIs
    <2>4. Acted(o.failed)
      BY <2>2, <2>3, FaultsAre
    <2>5. answer' \in AnswerType /\ answer'.of = "setSpeed" /\ answer'.error = o.error /\ doing' = "none"
          /\ answer' = [of |-> "setSpeed", error |-> o.error]
      BY <2>2, <2>3, AnswersIs
    <2>6. M!SpeedIsSet'
      <3>1. _speed' = bridge'.params
        BY <2>2, <2>3 DEF MotorInv, M!SpeedIsSet
      <3>2. answer'.error = "Success" => \A i \in M!Inputs : bridge'.duty[i] = _speed'
        BY <2>2, <2>3, <2>5
      <3> QED BY <3>1, <3>2 DEF M!SpeedIsSet
    <2>7. M!TargetIsReached'
      BY <2>5, TargetKept
    <2>8. _speed' \in Speeds \cup {0} /\ motorCalls' \in 0..MaxCalls /\ doing' \in Doings /\ bridge' \in BridgeType
      BY <1>1, <2>2, <2>3, <2>5, MotorTypesAre, MotorCalled DEF Doings
    <2> QED BY <1>1, <2>4, <2>5, <2>6, <2>7, <2>8, MotorTypesAre, MotorFrame
  <1> QED BY <1>2, <1>3

\* Between two steps of the driver the wiper moves only where a failure left one
\* signal alone on.
LEMMA DriftKeeps ==
  ASSUME MotorInv, M!Drift
  PROVE  MotorInv'
  <1>1. /\ UNCHANGED <<pwmType, hardware, bridge, _speed, minimumForward, minimumBackward, effect, doing,
                       target, reading, previous, difference, answer, faults, motorCalls>>
        /\ bridge.input[1] # bridge.input[2]
    BY DEF M!Drift, M!parameters, M!settings, M!locals
  <1>2. wiper' \in 0..Places
    <2>1. PICK x \in Int : wiper' = M!Clamp(x)
      <3>1. wiper \in Int
        BY MotorTypesAre
      <3>2. wiper + 1 \in Int /\ wiper + -1 \in Int
        BY <3>1
      <3> QED BY <3>2 DEF M!Drift
    <2> QED BY <2>1, MotorNumbers DEF M!Clamp
  <1>3. faults # 0
    BY <1>1 DEF MotorInv, StillUnlessFailed
  <1>4. Acted(0)
    <2>1. faults \in Nat /\ MaxFaults \in Nat /\ faults <= MaxFaults
      BY MotorTypesAre, MotorNumbers
    <2> QED BY <1>1, <2>1 DEF Acted
  <1>5. M!TargetIsReached'
    BY <1>1, <1>3 DEF M!TargetIsReached
  <1>6. M!SpeedIsSet'
    BY <1>1 DEF MotorInv, M!SpeedIsSet
  <1> QED BY <1>1, <1>2, <1>4, <1>5, <1>6, MotorTypesAre, MotorFrame

\* A reading near the target was made where the wiper is.
LEMMA NearIsReached ==
  ASSUME NEW p \in 0..Places, NEW place \in 0..Places, NEW r, ReadAt(r, p), r.failed = 0, M!Near(place * M!Unit, r.volts)
  PROVE  /\ -(M!VoltageAt(p) - place * M!Unit) <= Hysteresis + (Places + 1)
         /\ M!VoltageAt(p) - place * M!Unit <= Hysteresis
  <1>1. Places \in Nat /\ Hysteresis \in Nat /\ M!Unit \in Nat
    BY MotorNumbers
  <1>2. PICK g \in Nat : g = place * M!Unit
    BY <1>1
  <1>3. PICK v \in Nat : v = M!VoltageAt(p)
    BY VoltageIs
  <1>4. r.volts \in Nat /\ r.volts >= v /\ r.volts <= v + (Places + 1)
    BY <1>3, VoltsAre DEF ReadAt
  <1>5. PICK x \in Nat : x = r.volts /\ x >= v /\ x <= v + (Places + 1)
    BY <1>4
  <1>6. (IF g < x THEN x - g ELSE g - x) <= Hysteresis
    BY <1>2, <1>5 DEF M!Near, M!Distance
  <1> QED BY <1>1, <1>2, <1>3, <1>5, <1>6

-----------------------------------------------------------------------------
LEMMA SlideToVoltageKeeps ==
  ASSUME Places < AdcMultiSamples - 1, MotorInv, NEW place \in 0..Places, M!slideToVoltage(place)
  PROVE  MotorInv'
  <1>1. /\ UNCHANGED <<pwmType, hardware, bridge, wiper, _speed, minimumForward, minimumBackward, effect,
                       previous, difference>>
        /\ M!Called /\ target' = place
    BY DEF M!slideToVoltage, M!parameters, M!settings
  <1>2. PICK r \in M!Readings(0, wiper) :
          /\ reading' = r.volts /\ M!Faults(r.failed)
          /\ \/ r.error # "Success" /\ M!Answers("slideToVoltage", r.error)
             \/ M!Answers("slideToVoltage", "PrerequisitesNotMet")
             \/ M!Near(place * M!Unit, r.volts) /\ M!Answers("slideToVoltage", "Success")
             \/ doing' = "slideToVoltage" /\ UNCHANGED answer
    BY DEF M!slideToVoltage
  <1>3. ReadAt(r, wiper)
    BY <1>2, ZeroIsTyped, MotorTypesAre, ReadingIs
  <1>4. r.failed \in Nat /\ r.volts \in M!Volts /\ r.error \in {"Success", "Failure"}
    BY <1>3 DEF ReadAt
  <1>5. Acted(r.failed)
    BY <1>1, <1>2, <1>4, FaultsAre
  <1>6. /\ answer' \in AnswerType /\ doing' \in Doings
        /\ answer' = answer \/ answer'.of # "setSpeed"
        /\ \/ answer'.error # "Success"
           \/ doing' # "none"
           \/ M!Near(place * M!Unit, r.volts)
    <2>1. CASE r.error # "Success" /\ M!Answers("slideToVoltage", r.error)
      <3>1. answer' \in AnswerType /\ answer'.of = "slideToVoltage" /\ answer'.error = r.error /\ doing' = "none"
        BY <1>4, <2>1, AnswersIs
      <3> QED BY <2>1, <3>1 DEF Doings
    <2>2. CASE M!Answers("slideToVoltage", "PrerequisitesNotMet")
      <3>1. answer' \in AnswerType /\ answer'.of = "slideToVoltage" /\ answer'.error = "PrerequisitesNotMet" /\ doing' = "none"
        BY <2>2, AnswersIs
      <3> QED BY <3>1 DEF Doings
    <2>3. CASE M!Near(place * M!Unit, r.volts) /\ M!Answers("slideToVoltage", "Success")
      <3>1. answer' \in AnswerType /\ answer'.of = "slideToVoltage" /\ doing' = "none"
        BY <2>3, AnswersIs
      <3> QED BY <2>3, <3>1 DEF Doings
    <2>4. CASE doing' = "slideToVoltage" /\ UNCHANGED answer
      BY <2>4, MotorTypesAre DEF Doings
    <2> QED BY <1>2, <2>1, <2>2, <2>3, <2>4
  <1>7. M!SpeedIsSet'
    <2>1. SameButLevels(bridge, bridge')
      BY <1>1, MotorTypesAre DEF SameButLevels
    <2> QED BY <1>1, <1>6, <2>1, SpeedKept
  <1>8. M!TargetIsReached'
    <2>1. CASE answer'.error # "Success" \/ doing' # "none"
      BY <2>1, TargetKept
    <2>2. CASE M!Near(place * M!Unit, r.volts)
      <3>1. faults' = 0 => r.failed = 0
        BY <1>5, ActedIsStill
      <3>2. r.failed = 0 => /\ -(M!VoltageAt(wiper) - place * M!Unit) <= Hysteresis + (Places + 1)
                            /\ M!VoltageAt(wiper) - place * M!Unit <= Hysteresis
        BY <1>3, <2>2, MotorTypesAre, NearIsReached
      <3> QED BY <1>1, <3>1, <3>2 DEF M!TargetIsReached, M!VoltageAt
    <2> QED BY <1>6, <2>1, <2>2
  <1>9. motorCalls' \in 0..MaxCalls /\ target' \in 0..Places
    BY <1>1, MotorCalled
  <1> QED BY <1>1, <1>2, <1>4, <1>5, <1>6, <1>7, <1>8, <1>9, MotorTypesAre, MotorFrame

\* The calls of the hardware that a slide and a reading after it make.
LEMMA SlideAndRead ==
  ASSUME Places < AdcMultiSamples - 1, MotorInv, NEW s, Slid(M!Now, s), NEW r \in M!Readings(reading, s.wiper)
  PROVE  /\ ReadAt(r, s.wiper) /\ r.volts \in M!Volts /\ r.error \in {"Success", "Failure"}
         /\ s.failed \in Nat /\ r.failed \in Nat /\ s.failed + r.failed \in Nat
         /\ SameButLevels(bridge, s.bridge) /\ s.bridge \in BridgeType /\ s.wiper \in 0..Places
         /\ s.failed + r.failed = 0 => s.failed = 0 /\ r.failed = 0
         /\ s.failed = 0 /\ bridge.input[1] = bridge.input[2] => s.bridge.input[1] = s.bridge.input[2]
  <1>1. s.wiper \in 0..Places /\ s.failed \in Nat /\ SameButLevels(bridge, s.bridge) /\ s.bridge \in BridgeType
        /\ (s.failed = 0 /\ bridge.input[1] = bridge.input[2] => s.bridge.input[1] = s.bridge.input[2])
    BY NowIs DEF Slid, SameButLevels
  <1>2. ReadAt(r, s.wiper)
    BY <1>1, MotorTypesAre, ReadingIs
  <1>3. r.volts \in M!Volts /\ r.error \in {"Success", "Failure"} /\ r.failed \in Nat
    BY <1>2 DEF ReadAt
  <1> QED BY <1>1, <1>2, <1>3

LEMMA TowardsVoltageKeeps ==
  ASSUME Places < AdcMultiSamples - 1, MotorInv, M!TowardsVoltage
  PROVE  MotorInv'
  <1>1. /\ UNCHANGED <<pwmType, hardware, _speed, minimumForward, minimumBackward, effect,
                       target, previous, difference, motorCalls>>
        /\ doing = "slideToVoltage"
    BY DEF M!TowardsVoltage, M!parameters, M!settings
  <1>2. PICK s \in M!Towards : \E r \in M!Readings(reading, s.wiper) :
          /\ bridge' = s.bridge /\ wiper' = s.wiper /\ M!Faults(s.failed + r.failed)
          /\ reading' = r.volts
          /\ IF r.error # "Success" \/ M!Near(target * M!Unit, r.volts)
             THEN M!Answers("slideToVoltage", r.error) ELSE UNCHANGED <<doing, answer>>
    BY DEF M!TowardsVoltage
  <1>3. PICK r \in M!Readings(reading, s.wiper) :
          /\ bridge' = s.bridge /\ wiper' = s.wiper /\ M!Faults(s.failed + r.failed)
          /\ reading' = r.volts
          /\ IF r.error # "Success" \/ M!Near(target * M!Unit, r.volts)
             THEN M!Answers("slideToVoltage", r.error) ELSE UNCHANGED <<doing, answer>>
    BY <1>2
  <1>4. Slid(M!Now, s)
    <2>1. minimumForward \in Nat /\ minimumBackward \in Nat
      BY MotorTypesAre
    <2>2. s \in M!ForwardSlides(M!Now, minimumForward) \/ s \in M!BackwardSlides(M!Now, minimumBackward)
      BY <1>2 DEF M!Towards
    <2> QED BY <2>1, <2>2, NowIs, ForwardSlideIs, BackwardSlideIs
  <1>5. /\ ReadAt(r, s.wiper) /\ r.volts \in M!Volts /\ r.error \in {"Success", "Failure"}
        /\ s.failed \in Nat /\ r.failed \in Nat /\ s.failed + r.failed \in Nat
        /\ SameButLevels(bridge, s.bridge) /\ s.bridge \in BridgeType /\ s.wiper \in 0..Places
        /\ s.failed + r.failed = 0 => s.failed = 0 /\ r.failed = 0
        /\ s.failed = 0 /\ bridge.input[1] = bridge.input[2] => s.bridge.input[1] = s.bridge.input[2]
    BY <1>3, <1>4, SlideAndRead
  <1>6. Acted(s.failed + r.failed)
    BY <1>3, <1>5, FaultsAre
  <1>7. /\ answer' \in AnswerType /\ doing' \in Doings
        /\ answer' = answer \/ answer'.of # "setSpeed"
        /\ \/ answer'.error # "Success"
           \/ doing' # "none"
           \/ M!Near(target * M!Unit, r.volts)
    <2>1. CASE r.error # "Success" \/ M!Near(target * M!Unit, r.volts)
      <3>1. M!Answers("slideToVoltage", r.error)
        BY <1>3, <2>1
      <3>2. answer' \in AnswerType /\ answer'.of = "slideToVoltage" /\ answer'.error = r.error /\ doing' = "none"
        BY <1>5, <3>1, AnswersIs
      <3> QED BY <2>1, <3>2 DEF Doings
    <2>2. CASE ~(r.error # "Success" \/ M!Near(target * M!Unit, r.volts))
      BY <1>1, <1>3, <2>2, MotorTypesAre
    <2> QED BY <2>1, <2>2
  <1>8. M!SpeedIsSet'
    BY <1>1, <1>3, <1>5, <1>7, SpeedKept
  <1>9. M!TargetIsReached'
    <2>1. CASE answer'.error # "Success" \/ doing' # "none"
      BY <2>1, TargetKept
    <2>2. CASE M!Near(target * M!Unit, r.volts)
      <3>1. faults' = 0 => r.failed = 0
        BY <1>5, <1>6, ActedIsStill
      <3>2. r.failed = 0 => /\ -(M!VoltageAt(s.wiper) - target * M!Unit) <= Hysteresis + (Places + 1)
                            /\ M!VoltageAt(s.wiper) - target * M!Unit <= Hysteresis
        BY <1>5, <2>2, MotorTypesAre, NearIsReached
      <3> QED BY <1>1, <1>3, <3>1, <3>2 DEF M!TargetIsReached, M!VoltageAt
    <2> QED BY <1>7, <2>1, <2>2
  <1> QED BY <1>1, <1>3, <1>5, <1>6, <1>7, <1>8, <1>9, MotorTypesAre, MotorFrame

\* A call of calibrate, or the turn from its forward part to its backward part.
LEMMA ReadAgain ==
  ASSUME Places < AdcMultiSamples - 1, MotorInv, NEW d \in {"calibrateForward", "calibrateBackward"},
         NEW r \in M!Readings(0, wiper),
         reading' = r.volts /\ previous' = r.volts /\ difference' = 0 /\ M!Faults(r.failed),
         IF r.error = "Success" THEN doing' = d /\ UNCHANGED answer ELSE M!Answers("calibrate", r.error),
         UNCHANGED <<pwmType, hardware, bridge, wiper, _speed, effect, target>>,
         minimumForward' \in 0..MaxTime, minimumBackward' \in 0..MaxTime, motorCalls' \in 0..MaxCalls
  PROVE  MotorInv'
  <1>1. ReadAt(r, wiper)
    BY ZeroIsTyped, MotorTypesAre, ReadingIs
  <1>2. r.failed \in Nat /\ r.volts \in M!Volts /\ r.error \in {"Success", "Failure"}
    BY <1>1 DEF ReadAt
  <1>3. Acted(r.failed)
    BY <1>2, FaultsAre
  <1>4. /\ answer' \in AnswerType /\ doing' \in Doings
        /\ answer' = answer \/ answer'.of # "setSpeed"
        /\ answer'.of # "slideToVoltage" \/ doing' # "none"
    <2>1. CASE r.error = "Success"
      BY <2>1, MotorTypesAre DEF Doings
    <2>2. CASE r.error # "Success"
      <3>1. answer' \in AnswerType /\ answer'.of = "calibrate" /\ doing' = "none"
        BY <1>2, <2>2, AnswersIs
      <3> QED BY <3>1 DEF Doings
    <2> QED BY <2>1, <2>2
  <1>5. M!SpeedIsSet' /\ M!TargetIsReached'
    <2>1. SameButLevels(bridge, bridge')
      BY MotorTypesAre DEF SameButLevels
    <2> QED BY <1>4, <2>1, SpeedKept, TargetKept
  <1> QED BY <1>2, <1>3, <1>4, <1>5, ZeroIsTyped, MotorTypesAre, MotorFrame

LEMMA CalibrateKeeps ==
  ASSUME Places < AdcMultiSamples - 1, MotorInv, M!calibrate \/ M!TurnToBackward
  PROVE  MotorInv'
  <1>1. CASE M!calibrate
    <2>1. PICK r \in M!Readings(0, wiper) :
            /\ reading' = r.volts /\ previous' = r.volts /\ difference' = 0 /\ M!Faults(r.failed)
            /\ IF r.error = "Success" THEN doing' = "calibrateForward" /\ UNCHANGED answer
               ELSE M!Answers("calibrate", r.error)
      BY <1>1 DEF M!calibrate
    <2>2. UNCHANGED <<pwmType, hardware, bridge, wiper, _speed, minimumBackward, effect, target>>
          /\ minimumForward' = 0 /\ M!Called
      BY <1>1 DEF M!calibrate, M!parameters
    <2>3. minimumForward' \in 0..MaxTime /\ minimumBackward' \in 0..MaxTime /\ motorCalls' \in 0..MaxCalls
      BY <2>2, ZeroIsTyped, MotorTypesAre, MotorCalled
    <2> QED BY <2>1, <2>2, <2>3, ReadAgain
  <1>2. CASE M!TurnToBackward
    <2>1. PICK r \in M!Readings(0, wiper) :
            /\ reading' = r.volts /\ previous' = r.volts /\ difference' = 0 /\ M!Faults(r.failed)
            /\ IF r.error = "Success" THEN doing' = "calibrateBackward" /\ UNCHANGED answer
               ELSE M!Answers("calibrate", r.error)
      BY <1>2 DEF M!TurnToBackward
    <2>2. UNCHANGED <<pwmType, hardware, bridge, wiper, _speed, minimumForward, effect, target, motorCalls>>
          /\ minimumBackward' = 0
      BY <1>2 DEF M!TurnToBackward, M!parameters
    <2>3. minimumForward' \in 0..MaxTime /\ minimumBackward' \in 0..MaxTime /\ motorCalls' \in 0..MaxCalls
      BY <2>2, ZeroIsTyped, MotorTypesAre
    <2> QED BY <2>1, <2>2, <2>3, ReadAgain
  <1> QED BY <1>1, <1>2

LEMMA SameLevelsTwice ==
  ASSUME NEW a, NEW b, NEW c, SameButLevels(a, b), SameButLevels(b, c)
  PROVE  SameButLevels(a, c)
  BY DEF SameButLevels

LEMMA ThreeCalls ==
  ASSUME NEW i \in Nat, NEW j \in Nat, NEW k \in Nat
  PROVE  i + j + k \in Nat /\ (i + j + k = 0 => i = 0 /\ j = 0 /\ k = 0)
  OBVIOUS

LEMMA BackOffTime ==
  ASSUME NEW t \in Nat
  PROVE  t * BackOff \in Nat
  <1>1. BackOff \in Nat
    BY MotorNumbers
  <1> QED BY <1>1

\* A turn of one of the loops of calibrate: what it leaves of the bridge and of the
\* answer is what the proof needs of it.
LEMMA CalibrationTurn ==
  ASSUME MotorInv, doing # "none",
         UNCHANGED <<pwmType, hardware, _speed, target, previous, motorCalls>>,
         minimumForward' \in 0..MaxTime, minimumBackward' \in 0..MaxTime, effect' \in {"Unknown", "Raises"},
         reading' \in M!Volts, difference' \in M!Volts,
         SameButLevels(bridge, bridge'), wiper' \in 0..Places, NEW n, Acted(n),
         \/ UNCHANGED <<doing, answer>>
         \/ \E e \in {"Success", "Failure"} : M!Answers("calibrate", e)
  PROVE  MotorInv'
  <1>1. /\ answer' \in AnswerType /\ doing' \in Doings
        /\ answer' = answer \/ answer'.of # "setSpeed"
        /\ answer'.of # "slideToVoltage" \/ doing' # "none"
    <2>1. CASE UNCHANGED <<doing, answer>>
      BY <2>1, MotorTypesAre
    <2>2. ASSUME NEW e \in {"Success", "Failure"}, M!Answers("calibrate", e)
          PROVE  answer' \in AnswerType /\ answer'.of = "calibrate" /\ doing' \in Doings
      BY <2>2, AnswersIs DEF Doings
    <2> QED BY <2>1, <2>2
  <1>2. M!SpeedIsSet' /\ M!TargetIsReached'
    BY <1>1, SpeedKept, TargetKept
  <1>3. bridge' \in BridgeType
    BY DEF SameButLevels
  <1> QED BY <1>1, <1>2, <1>3, MotorTypesAre, MotorFrame

LEMMA CalibrateForwardKeeps ==
  ASSUME Places < AdcMultiSamples - 1, MotorInv, M!CalibrateForward
  PROVE  MotorInv'
  <1>1. /\ UNCHANGED <<pwmType, hardware, _speed, minimumBackward, target, previous, motorCalls>>
        /\ doing # "none" /\ minimumForward < MaxTime /\ minimumForward' = minimumForward + 1
    BY DEF M!CalibrateForward, M!parameters
  <1>2. minimumForward' \in 0..MaxTime /\ minimumBackward' \in 0..MaxTime /\ minimumForward' \in Nat
    BY <1>1, MotorTypesAre, MotorNumbers
  <1>3. PICK s \in M!ForwardSlides(M!Now, minimumForward') :
          IF s.error # "Success"
          THEN /\ M!Done(s) /\ M!Answers("calibrate", s.error)
               /\ UNCHANGED <<effect, reading, difference>>
          ELSE \E r \in M!Readings(reading, s.wiper) :
                  /\ reading' = r.volts
                  /\ effect' = IF r.volts > previous THEN "Raises" ELSE effect
                  /\ IF M!AtAnEnd(r.volts)
                     THEN /\ \E back \in M!BackwardSlides(s, minimumForward' * BackOff) :
                                bridge' = back.bridge /\ wiper' = back.wiper
                                /\ M!Faults(s.failed + r.failed + back.failed)
                          /\ UNCHANGED difference
                     ELSE /\ bridge' = s.bridge /\ wiper' = s.wiper /\ M!Faults(s.failed + r.failed)
                          /\ difference' = M!Distance(r.volts, previous)
                  /\ IF r.error = "Success" THEN UNCHANGED <<doing, answer>>
                     ELSE M!Answers("calibrate", r.error)
    BY DEF M!CalibrateForward
  <1>4. Slid(M!Now, s)
    BY <1>2, <1>3, NowIs, ForwardSlideIs
  <1>5. CASE s.error # "Success"
    <2>1. /\ bridge' = s.bridge /\ wiper' = s.wiper /\ M!Faults(s.failed) /\ M!Answers("calibrate", s.error)
          /\ UNCHANGED <<effect, reading, difference>>
      BY <1>3, <1>5 DEF M!Done
    <2>2. /\ SameButLevels(bridge, bridge') /\ wiper' \in 0..Places /\ s.failed \in Nat
          /\ s.error \in {"Success", "Failure"}
          /\ s.failed = 0 /\ bridge.input[1] = bridge.input[2] => bridge'.input[1] = bridge'.input[2]
      BY <1>4, <2>1, NowIs DEF Slid
    <2>3. Acted(s.failed)
      BY <2>1, <2>2, FaultsAre
    <2> QED BY <1>1, <1>2, <2>1, <2>2, <2>3, MotorTypesAre, CalibrationTurn
  <1>6. CASE s.error = "Success"
    <2>1. PICK r \in M!Readings(reading, s.wiper) :
                  /\ reading' = r.volts
                  /\ effect' = IF r.volts > previous THEN "Raises" ELSE effect
                  /\ IF M!AtAnEnd(r.volts)
                     THEN /\ \E back \in M!BackwardSlides(s, minimumForward' * BackOff) :
                                bridge' = back.bridge /\ wiper' = back.wiper
                                /\ M!Faults(s.failed + r.failed + back.failed)
                          /\ UNCHANGED difference
                     ELSE /\ bridge' = s.bridge /\ wiper' = s.wiper /\ M!Faults(s.failed + r.failed)
                          /\ difference' = M!Distance(r.volts, previous)
                  /\ IF r.error = "Success" THEN UNCHANGED <<doing, answer>>
                     ELSE M!Answers("calibrate", r.error)
      BY <1>3, <1>6
    <2>2. /\ r.volts \in M!Volts /\ r.error \in {"Success", "Failure"}
          /\ s.failed \in Nat /\ r.failed \in Nat /\ s.failed + r.failed \in Nat
          /\ SameButLevels(bridge, s.bridge) /\ s.bridge \in BridgeType /\ s.wiper \in 0..Places
          /\ s.failed + r.failed = 0 => s.failed = 0 /\ r.failed = 0
          /\ s.failed = 0 /\ bridge.input[1] = bridge.input[2] => s.bridge.input[1] = s.bridge.input[2]
      BY <1>4, <2>1, SlideAndRead
    <2>3. /\ UNCHANGED <<doing, answer>> \/ \E e \in {"Success", "Failure"} : M!Answers("calibrate", e)
          /\ effect' \in {"Unknown", "Raises"} /\ reading' \in M!Volts
      BY <2>1, <2>2, MotorTypesAre
    <2>4. CASE M!AtAnEnd(r.volts)
      <3>1. PICK back \in M!BackwardSlides(s, minimumForward' * BackOff) :
                   bridge' = back.bridge /\ wiper' = back.wiper
                   /\ M!Faults(s.failed + r.failed + back.failed) /\ UNCHANGED difference
        BY <2>1, <2>4
      <3>2. Slid(s, back)
        BY <1>2, <2>2, <3>1, BackOffTime, BackwardSlideIs
      <3>3. /\ SameButLevels(s.bridge, bridge') /\ wiper' \in 0..Places /\ back.failed \in Nat
            /\ back.failed = 0 /\ s.bridge.input[1] = s.bridge.input[2] => bridge'.input[1] = bridge'.input[2]
        BY <3>1, <3>2 DEF Slid
      <3>4. SameButLevels(bridge, bridge')
        BY <2>2, <3>3, SameLevelsTwice
      <3>5. Acted(s.failed + r.failed + back.failed)
        BY <2>2, <3>1, <3>3, ThreeCalls, FaultsAre
      <3> QED BY <1>1, <1>2, <2>3, <3>1, <3>3, <3>4, <3>5, MotorTypesAre, CalibrationTurn
    <2>5. CASE ~M!AtAnEnd(r.volts)
      <3>1. /\ bridge' = s.bridge /\ wiper' = s.wiper /\ M!Faults(s.failed + r.failed)
            /\ difference' = M!Distance(r.volts, previous)
        BY <2>1, <2>5
      <3>2. Acted(s.failed + r.failed)
        BY <2>2, <3>1, FaultsAre
      <3>3. difference' \in M!Volts
        BY <2>2, <3>1, MotorTypesAre, DistanceIsVoltage
      <3> QED BY <1>1, <1>2, <2>2, <2>3, <3>1, <3>2, <3>3, CalibrationTurn
    <2> QED BY <2>4, <2>5
  <1> QED BY <1>5, <1>6

LEMMA CalibrateBackwardKeeps ==
  ASSUME Places < AdcMultiSamples - 1, MotorInv, M!CalibrateBackward
  PROVE  MotorInv'
  <1>1. /\ UNCHANGED <<pwmType, hardware, _speed, minimumForward, effect, target, previous, motorCalls>>
        /\ doing # "none" /\ minimumBackward < MaxTime /\ minimumBackward' = minimumBackward + 1
    BY DEF M!CalibrateBackward, M!parameters
  <1>2. minimumForward' \in 0..MaxTime /\ minimumBackward' \in 0..MaxTime /\ minimumBackward' \in Nat
    BY <1>1, MotorTypesAre, MotorNumbers
  <1>3. PICK s \in M!BackwardSlides(M!Now, minimumBackward') : \E r \in M!Readings(reading, s.wiper) :
          /\ reading' = r.volts
          /\ \/ /\ M!AtAnEnd(r.volts)
                /\ \E on \in M!ForwardSlides(s, minimumBackward' * BackOff) :
                      /\ bridge' = on.bridge /\ wiper' = on.wiper
                      /\ M!Faults(s.failed + r.failed + on.failed)
                      /\ IF on.error = "Success" THEN UNCHANGED <<doing, answer>>
                         ELSE M!Answers("calibrate", on.error)
                /\ UNCHANGED difference
             \/ /\ ~M!AtAnEnd(r.volts)
                /\ bridge' = s.bridge /\ wiper' = s.wiper /\ M!Faults(s.failed + r.failed)
                /\ difference' = M!Distance(r.volts, previous)
                /\ IF r.error # "Success" \/ difference' >= Hysteresis THEN M!Answers("calibrate", r.error)
                   ELSE UNCHANGED <<doing, answer>>
    BY DEF M!CalibrateBackward
  <1>4. Slid(M!Now, s)
    BY <1>2, <1>3, NowIs, BackwardSlideIs
  <1>5. PICK r \in M!Readings(reading, s.wiper) :
          /\ reading' = r.volts
          /\ \/ \E on \in M!ForwardSlides(s, minimumBackward' * BackOff) :
                      /\ bridge' = on.bridge /\ wiper' = on.wiper
                      /\ M!Faults(s.failed + r.failed + on.failed)
                      /\ UNCHANGED difference
                      /\ IF on.error = "Success" THEN UNCHANGED <<doing, answer>>
                         ELSE M!Answers("calibrate", on.error)
             \/ /\ bridge' = s.bridge /\ wiper' = s.wiper /\ M!Faults(s.failed + r.failed)
                /\ difference' = M!Distance(r.volts, previous)
                /\ M!Answers("calibrate", r.error) \/ UNCHANGED <<doing, answer>>
    BY <1>3
  <1>6. /\ r.volts \in M!Volts /\ r.error \in {"Success", "Failure"}
        /\ s.failed \in Nat /\ r.failed \in Nat /\ s.failed + r.failed \in Nat
        /\ SameButLevels(bridge, s.bridge) /\ s.bridge \in BridgeType /\ s.wiper \in 0..Places
        /\ s.failed + r.failed = 0 => s.failed = 0 /\ r.failed = 0
        /\ s.failed = 0 /\ bridge.input[1] = bridge.input[2] => s.bridge.input[1] = s.bridge.input[2]
    BY <1>4, <1>5, SlideAndRead
  <1>7. ASSUME NEW on \in M!ForwardSlides(s, minimumBackward' * BackOff),
               bridge' = on.bridge /\ wiper' = on.wiper,
               M!Faults(s.failed + r.failed + on.failed), UNCHANGED difference,
               IF on.error = "Success" THEN UNCHANGED <<doing, answer>> ELSE M!Answers("calibrate", on.error)
        PROVE  MotorInv'
    <2>1. Slid(s, on)
      BY <1>2, <1>6, <1>7, BackOffTime, ForwardSlideIs
    <2>2. /\ SameButLevels(s.bridge, bridge') /\ wiper' \in 0..Places /\ on.failed \in Nat
          /\ on.error \in {"Success", "Failure"}
          /\ on.failed = 0 /\ s.bridge.input[1] = s.bridge.input[2] => bridge'.input[1] = bridge'.input[2]
      BY <1>7, <2>1 DEF Slid
    <2>3. SameButLevels(bridge, bridge')
      BY <1>6, <2>2, SameLevelsTwice
    <2>4. Acted(s.failed + r.failed + on.failed)
      BY <1>6, <1>7, <2>2, ThreeCalls, FaultsAre
    <2>5. UNCHANGED <<doing, answer>> \/ \E e \in {"Success", "Failure"} : M!Answers("calibrate", e)
      BY <1>7, <2>2
    <2>6. effect' \in {"Unknown", "Raises"} /\ reading' \in M!Volts /\ difference' \in M!Volts
      BY <1>1, <1>5, <1>6, <1>7, MotorTypesAre
    <2> QED BY <1>1, <1>2, <2>2, <2>3, <2>4, <2>5, <2>6, CalibrationTurn
  <1>8. ASSUME bridge' = s.bridge /\ wiper' = s.wiper /\ M!Faults(s.failed + r.failed),
               difference' = M!Distance(r.volts, previous),
               M!Answers("calibrate", r.error) \/ UNCHANGED <<doing, answer>>
        PROVE  MotorInv'
    <2>1. Acted(s.failed + r.failed)
      BY <1>6, <1>8, FaultsAre
    <2>2. difference' \in M!Volts /\ effect' \in {"Unknown", "Raises"} /\ reading' \in M!Volts
      BY <1>1, <1>5, <1>6, <1>8, MotorTypesAre, DistanceIsVoltage
    <2>3. UNCHANGED <<doing, answer>> \/ \E e \in {"Success", "Failure"} : M!Answers("calibrate", e)
      BY <1>6, <1>8
    <2>4. SameButLevels(bridge, bridge') /\ wiper' \in 0..Places
      BY <1>6, <1>8
    <2> QED BY <1>1, <1>2, <2>1, <2>2, <2>3, <2>4, CalibrationTurn
  <1> QED BY <1>5, <1>7, <1>8

-----------------------------------------------------------------------------
LEMMA MotorStart ==
  ASSUME M!Init
  PROVE  MotorInv
  <1>1. bridge \in BridgeType /\ bridge.input[1] = bridge.input[2] /\ bridge.params = 0
    <2>1. [i \in M!Inputs |-> "off"] \in [M!Inputs -> {"on", "off"}]
          /\ [i \in M!Inputs |-> 0] \in [M!Inputs -> Speeds \cup {0}]
          /\ [i \in M!Inputs |-> FALSE] \in [M!Inputs -> BOOLEAN]
      OBVIOUS
    <2>2. bridge = [input |-> [i \in M!Inputs |-> "off"], duty |-> [i \in M!Inputs |-> 0],
                    ready |-> [i \in M!Inputs |-> FALSE], params |-> 0]
      BY DEF M!Init
    <2>3. 1 \in M!Inputs /\ 2 \in M!Inputs
      BY DEF M!Inputs
    <2>4. bridge \in BridgeType
      BY <2>1, <2>2 DEF BridgeType
    <2> QED BY <2>2, <2>3, <2>4
  <1>2. /\ pwmType \in PwmTypes /\ hardware \in Hardwares /\ wiper \in 0..Places
        /\ _speed = 0 /\ minimumForward = 0 /\ minimumBackward = 0 /\ effect = "Unknown"
        /\ doing = "none" /\ target = 0 /\ reading = 0 /\ previous = 0 /\ difference = 0
        /\ answer = [of |-> "none", error |-> "Success"]
        /\ faults = 0 /\ motorCalls = 0
    BY DEF M!Init
  <1>3. MotorTypes
    BY <1>1, <1>2, ZeroIsTyped DEF MotorTypes
  <1>4. M!SpeedIsSet /\ M!TargetIsReached
    BY <1>1, <1>2 DEF M!SpeedIsSet, M!TargetIsReached
  <1> QED BY <1>1, <1>3, <1>4 DEF MotorInv, StillUnlessFailed

MotorPart == part = "motor" => MotorInv

LEMMA MotorStepKeeps ==
  ASSUME Places < AdcMultiSamples - 1
  PROVE  MotorPart /\ [PartNext]_allVars => MotorPart'
  <1> SUFFICES ASSUME part = "motor", MotorInv, [M!Next]_motorVars PROVE MotorInv'
    BY PartSteps DEF MotorPart
  <1>1. CASE UNCHANGED motorVars
    BY <1>1 DEF motorVars, MotorInv, MotorTypes, StillUnlessFailed, M!SpeedIsSet, M!TargetIsReached, M!VoltageAt, M!Volts
  <1>2. CASE M!Next
    BY <1>2, MotorInitKeeps, CalibrateKeeps, DriftKeeps, SlideCallsKeep, SetSpeedKeeps, SlideToVoltageKeeps,
       TowardsVoltageKeeps, CalibrateForwardKeeps, CalibrateBackwardKeeps DEF M!Next
  <1> QED BY <1>1, <1>2

LEMMA MotorAlways ==
  ASSUME Places < AdcMultiSamples - 1
  PROVE  PartSpec => []MotorPart
  <1>1. PartInit => MotorPart
    BY MotorStart DEF PartInit, MotorPart
  <1>2. MotorPart /\ [PartNext]_allVars => MotorPart'
    BY MotorStepKeeps
  <1> QED BY <1>1, <1>2, PTL DEF PartSpec

LEMMA MotorTypesHold ==
  ASSUME MotorInv
  PROVE  M!TypeOK
  BY DEF MotorInv, MotorTypes, BridgeType, M!TypeOK

\* The speed the driver remembers is that of the bridge, and a slide to a voltage that
\* answers Success has taken the wiper there unless a call of the hardware failed.
\* The places of the wiper are fewer than what the averaging divides by.
THEOREM MotorKeepsItsWord ==
  ASSUME Places < AdcMultiSamples - 1
  PROVE  PartSpec => []MotorIsWhereItSays
  <1>1. MotorPart => MotorIsWhereItSays
    BY DEF MotorPart, MotorInv, MotorIsWhereItSays
  <1> QED BY <1>1, MotorAlways, PTL

\* A forward slide that answers Success ends with both signals on: the failure of one
\* of the calls of its last brake is answered.
THEOREM ForwardSlidesEndBraked ==
  ASSUME Places < AdcMultiSamples - 1
  PROVE  PartSpec => ForwardSlidesAreBraked
  <1>1. ASSUME MotorPart
        PROVE  [part = "motor" => \A time \in 1..MaxTime :
                  (M!slideForward(time) /\ answer'.error = "Success") => M!Braked(bridge')]_motorVars
    <2> SUFFICES ASSUME part = "motor", MotorInv, NEW time \in 1..MaxTime,
                        M!slideForward(time), answer'.error = "Success"
                 PROVE  M!Braked(bridge')
      BY <1>1 DEF MotorPart
    <2>1. PICK s \in M!ForwardSlides(M!Now, time) : M!Done(s) /\ M!Answers("slideForward", s.error)
      BY DEF M!slideForward
    <2>2. time \in Nat /\ time # 0
      BY MotorNumbers
    <2>3. s.error = "Success" => M!Braked(s.bridge)
      BY <2>1, <2>2, NowIs, ForwardSlideIs
    <2> QED BY <2>1, <2>3 DEF M!Done, M!Answers
  <1> QED BY <1>1, MotorAlways, PTL DEF ForwardSlidesAreBraked

-----------------------------------------------------------------------------
(* The display.  The commands of a design, the words they take and the     *)
(* last start of a list among them.                                        *)

LEMMA LeastOf ==
  ASSUME NEW W \in SUBSET Nat, W # {}
  PROVE  \E m \in W : \A w \in W : m <= w
  <1>1. IsWellFoundedOn(Smaller, Nat)
    BY NatLessThanWellFounded DEF OpToRel, Smaller
  <1>2. PICK m \in W : \A w \in W : ~(<<w, m>> \in Smaller)
    BY <1>1, WFMin
  <1>3. ASSUME NEW w \in W PROVE m <= w
    <2>1. w \in Nat /\ m \in Nat /\ ~(<<w, m>> \in Smaller)
      BY <1>2
    <2>2. ~(w < m)
      BY <2>1 DEF Smaller, OpToRel
    <2> QED BY <2>1, <2>2
  <1> QED BY <1>2, <1>3

LEMMA GreatestOf ==
  ASSUME NEW n \in Nat, NEW W \in SUBSET (0..n), W # {}
  PROVE  L!Max(W) \in W /\ \A w \in W : w <= L!Max(W)
  <1> DEFINE Up == {k \in Nat : \E w \in W : k = n - w}
  <1>1. Up \in SUBSET Nat
    OBVIOUS
  <1>2. PICK w0 \in W : w0 \in 0..n
    OBVIOUS
  <1>3. n - w0 \in Nat
    BY <1>2
  <1>4. Up # {}
    BY <1>3
  <1> HIDE DEF Up
  <1>5. PICK m \in Up : \A w \in Up : m <= w
    BY <1>1, <1>4, LeastOf
  <1>6. PICK top \in W : m = n - top
    BY <1>5 DEF Up
  <1>7. ASSUME NEW w \in W PROVE w <= top
    <2>1. w \in 0..n /\ top \in 0..n
      OBVIOUS
    <2>2. n - w \in Nat
      BY <2>1
    <2>3. n - w \in Up
      BY <2>2 DEF Up
    <2>4. m <= n - w
      BY <1>5, <2>3
    <2> QED BY <1>6, <2>1, <2>4
  <1>8. \A w \in W : top >= w
    BY <1>7
  <1>9. L!Max(W) \in W /\ \A w \in W : L!Max(W) >= w
    BY <1>8 DEF L!Max
  <1> QED BY <1>9

Names == {"DisplayListStart", "Clear", "Display", "Swap", "ColorRgb", "Sketch", "Memzero", "BitmapHandle",
          "BitmapSource", "BitmapLayout", "BitmapSize", "LineWidth", "Begin", "Vertex2F", "Vertex2II", "End",
          "Text", "Button", "TagMask", "Tag", "ClearColor", "Snapshot2", "Stop", "Flashattach", "Flashfast"}
Command == [name : Names, words : Nat]
Starts(s, i) == s[i].name = "DisplayListStart"

\* Either no list is started and everything counts, or what counts begins at the last start.
LEMMA SinceStartIs ==
  ASSUME NEW s \in Seq(Command)
  PROVE  \/ (\A i \in 1..Len(s) : ~Starts(s, i)) /\ L!SinceStart(s) = s
         \/ \E m \in 1..Len(s) : /\ Starts(s, m) /\ \A i \in m + 1..Len(s) : ~Starts(s, i)
                                 /\ L!SinceStart(s) = SubSeq(s, m, Len(s))
  <1> DEFINE starts == {i \in DOMAIN s : s[i].name = "DisplayListStart"}
  <1>1. DOMAIN s = 1..Len(s) /\ Len(s) \in Nat
    OBVIOUS
  <1>2. L!SinceStart(s) = IF starts = {} THEN s ELSE SubSeq(s, L!Max(starts), Len(s))
    BY DEF L!SinceStart
  <1>3. CASE starts = {}
    BY <1>1, <1>2, <1>3 DEF Starts
  <1>4. CASE starts # {}
    <2>1. starts \in SUBSET (0..Len(s))
      BY <1>1
    <2>2. \A i \in 1..Len(s) : Starts(s, i) <=> i \in starts
      BY <1>1 DEF Starts
    <2>3. starts \subseteq 1..Len(s)
      BY <1>1
    <2> HIDE DEF starts
    <2>4. L!Max(starts) \in starts /\ \A w \in starts : w <= L!Max(starts)
      BY <1>1, <1>4, <2>1, GreatestOf
    <2>5. PICK m : m = L!Max(starts)
      OBVIOUS
    <2>6. m \in 1..Len(s) /\ Starts(s, m)
      BY <2>2, <2>3, <2>4, <2>5
    <2>7. ASSUME NEW i \in m + 1..Len(s) PROVE ~Starts(s, i)
      <3>1. i \in 1..Len(s) /\ ~(i <= m)
        BY <1>1, <2>6
      <3> QED BY <2>2, <2>4, <2>5, <3>1
    <2> QED BY <1>2, <1>4, <2>5, <2>6, <2>7
  <1> QED BY <1>3, <1>4

LEMMA FromTo ==
  ASSUME NEW s \in Seq(Command), NEW m \in 1..Len(s)
  PROVE  /\ SubSeq(s, m, Len(s)) \in Seq(Command)
         /\ Len(SubSeq(s, m, Len(s))) = Len(s) - m + 1
         /\ \A i \in 1..Len(s) - m + 1 : SubSeq(s, m, Len(s))[i] = s[m + i - 1]
  <1>1. Len(s) \in Nat /\ m \in Int /\ m <= Len(s)
    OBVIOUS
  <1>2. \A i \in m..Len(s) : s[i] \in Command
    OBVIOUS
  <1>3. /\ SubSeq(s, m, Len(s)) \in Seq(Command)
        /\ Len(SubSeq(s, m, Len(s))) = IF m <= Len(s) THEN Len(s) - m + 1 ELSE 0
        /\ \A i \in 1 .. Len(s) - m + 1 : SubSeq(s, m, Len(s))[i] = s[m + i - 1]
    <2>1. Len(s) \in Int
      BY <1>1
    <2> QED BY <1>1, <1>2, <2>1, SubSeqProperties
  <1> QED BY <1>1, <1>3

LEMMA SinceStartTyped ==
  ASSUME NEW s \in Seq(Command)
  PROVE  L!SinceStart(s) \in Seq(Command)
  BY SinceStartIs, FromTo

\* What precedes the last start may be dropped before or after something is added.
LEMMA SinceStartTwice ==
  ASSUME NEW s \in Seq(Command), NEW a \in Seq(Command)
  PROVE  L!SinceStart(L!SinceStart(s) \o a) = L!SinceStart(s \o a)
  <1>1. CASE L!SinceStart(s) = s
    BY <1>1
  <1>2. ASSUME NEW m \in 1..Len(s), Starts(s, m), L!SinceStart(s) = SubSeq(s, m, Len(s))
        PROVE  L!SinceStart(L!SinceStart(s) \o a) = L!SinceStart(s \o a)
    <2>1. PICK y \in Seq(Command) : y = L!SinceStart(s)
      BY SinceStartTyped
    <2>2. Len(y) = Len(s) - m + 1 /\ \A i \in 1..Len(s) - m + 1 : y[i] = s[m + i - 1]
      BY <1>2, <2>1, FromTo
    <2>3. PICK z \in Seq(Command) : z = y \o a
      BY ConcatProperties
    <2>4. PICK t \in Seq(Command) : t = s \o a
      BY ConcatProperties
    <2>5. /\ Len(z) = Len(y) + Len(a)
          /\ \A i \in 1..Len(y) + Len(a) : z[i] = IF i <= Len(y) THEN y[i] ELSE a[i - Len(y)]
      BY <2>3, ConcatProperties
    <2>6. /\ Len(t) = Len(s) + Len(a)
          /\ \A i \in 1..Len(s) + Len(a) : t[i] = IF i <= Len(s) THEN s[i] ELSE a[i - Len(s)]
      BY <2>4, ConcatProperties
    <2>7. Len(s) \in Nat /\ Len(a) \in Nat /\ Len(y) \in Nat /\ m \in Nat /\ m >= 1 /\ m <= Len(s)
      OBVIOUS
    <2>8. Len(t) = Len(z) + m - 1
      BY <2>2, <2>5, <2>6, <2>7
    <2>9. ASSUME NEW i \in 1..Len(z) PROVE z[i] = t[m + i - 1]
      <3>1. CASE i <= Len(y)
        <4>1. m + i - 1 \in 1..Len(s) + Len(a) /\ m + i - 1 <= Len(s) /\ i \in 1..Len(s) - m + 1
          BY <2>2, <2>5, <2>7, <3>1
        <4> QED BY <2>2, <2>5, <2>6, <3>1, <4>1
      <3>2. CASE i > Len(y)
        <4>1. PICK j \in Int : j = m + i - 1
          BY <2>7
        <4>2. j \in 1..Len(s) + Len(a) /\ ~(j <= Len(s)) /\ j - Len(s) = i - Len(y)
          BY <2>2, <2>5, <2>7, <3>2, <4>1
        <4>3. t[j] = a[j - Len(s)]
          BY <2>6, <4>2
        <4>4. z[i] = a[i - Len(y)]
          BY <2>5, <2>7, <3>2
        <4> QED BY <4>1, <4>2, <4>3, <4>4
      <3> QED BY <2>7, <3>1, <3>2
    <2>10. z[1] = t[m] /\ Starts(z, 1) /\ Starts(t, m) /\ 1 \in 1..Len(z) /\ m \in 1..Len(t)
      <3>1. 1 \in 1..Len(z) /\ m \in 1..Len(t) /\ m \in 1..Len(s) + Len(a)
        BY <2>2, <2>5, <2>6, <2>7
      <3>2. t[m] = s[m]
        BY <2>6, <2>7, <3>1
      <3>3. z[1] = t[m]
        BY <2>7, <2>9, <3>1
      <3> QED BY <1>2, <3>1, <3>2, <3>3 DEF Starts
    <2>11. PICK k \in 1..Len(z) : /\ Starts(z, k) /\ \A i \in k + 1..Len(z) : ~Starts(z, i)
                                  /\ L!SinceStart(z) = SubSeq(z, k, Len(z))
      BY <2>10, SinceStartIs
    <2>12. PICK n \in 1..Len(t) : /\ Starts(t, n) /\ \A i \in n + 1..Len(t) : ~Starts(t, i)
                                  /\ L!SinceStart(t) = SubSeq(t, n, Len(t))
      BY <2>10, SinceStartIs
    <2>13. n = m + k - 1
      <3>1. m + k - 1 \in 1..Len(t) /\ Starts(t, m + k - 1)
        <4>1. PICK j \in Int : j = m + k - 1
          BY <2>7
        <4>2. j \in 1..Len(t)
          BY <2>7, <2>8, <2>11, <4>1
        <4>3. z[k] = t[j]
          BY <2>9, <2>11, <4>1
        <4> QED BY <2>11, <4>1, <4>2, <4>3 DEF Starts
      <3>2. ~(m + k - 1 > n)
        BY <2>12, <3>1
      <3>3. n >= m
        <4>1. ~(m \in n + 1..Len(t))
          BY <2>10, <2>12
        <4> QED BY <2>7, <2>10, <2>12, <4>1
      <3>4. n - m + 1 \in 1..Len(z) /\ z[n - m + 1] = t[n]
        <4>1. n - m + 1 \in 1..Len(z) /\ m + (n - m + 1) - 1 = n
          BY <2>7, <2>8, <2>12, <3>3
        <4> QED BY <2>9, <4>1
      <3>5. Starts(z, n - m + 1)
        BY <2>12, <3>4 DEF Starts
      <3>6. ~(n - m + 1 \in k + 1..Len(z))
        BY <2>11, <3>5
      <3>7. n - m + 1 <= k
        BY <2>7, <2>11, <3>4, <3>6
      <3> QED BY <2>7, <2>11, <2>12, <3>1, <3>2, <3>7
    <2>14. /\ SubSeq(z, k, Len(z)) \in Seq(Command) /\ Len(SubSeq(z, k, Len(z))) = Len(z) - k + 1
           /\ \A i \in 1..Len(z) - k + 1 : SubSeq(z, k, Len(z))[i] = z[k + i - 1]
      BY FromTo
    <2>15. /\ SubSeq(t, n, Len(t)) \in Seq(Command) /\ Len(SubSeq(t, n, Len(t))) = Len(t) - n + 1
           /\ \A i \in 1..Len(t) - n + 1 : SubSeq(t, n, Len(t))[i] = t[n + i - 1]
      BY FromTo
    <2>16. Len(t) - n + 1 = Len(z) - k + 1
      BY <2>7, <2>8, <2>11, <2>13
    <2>17. ASSUME NEW i \in 1..Len(z) - k + 1
           PROVE  SubSeq(z, k, Len(z))[i] = SubSeq(t, n, Len(t))[i]
      <3>1. k + i - 1 \in 1..Len(z) /\ m + (k + i - 1) - 1 = n + i - 1 /\ i \in 1..Len(t) - n + 1
        BY <2>7, <2>11, <2>13, <2>16
      <3> QED BY <2>9, <2>14, <2>15, <3>1
    <2>18. SubSeq(z, k, Len(z)) = SubSeq(t, n, Len(t))
      BY <2>14, <2>15, <2>16, <2>17, SeqEqual
    <2> QED BY <2>1, <2>3, <2>4, <2>11, <2>12, <2>18
  <1> QED BY <1>1, <1>2, SinceStartIs

-----------------------------------------------------------------------------
(* The words of a sequence of commands: a sum that exists, is determined   *)
(* by the commands, and is additive.                                       *)

IsSum(f, s, n) ==
  /\ f = [i \in 0..n |-> IF i = 0 THEN 0 ELSE f[i - 1] + s[i].words]
  /\ \A i \in 0..n : f[i] \in Nat

LEMMA WordsOf ==
  ASSUME NEW s \in Seq(Command), NEW i \in 1..Len(s)
  PROVE  s[i].words \in Nat
  <1>1. s[i] \in Command
    BY ElementOfSeq
  <1> QED BY <1>1 DEF Command

LEMMA SumSteps ==
  ASSUME NEW f, NEW s, NEW n \in Nat, f = [i \in 0..n |-> IF i = 0 THEN 0 ELSE f[i - 1] + s[i].words]
  PROVE  /\ f[0] = 0 /\ DOMAIN f = 0..n
         /\ \A i \in 1..n : f[i] = f[i - 1] + s[i].words
  <1>1. ASSUME NEW i \in 0..n PROVE f[i] = IF i = 0 THEN 0 ELSE f[i - 1] + s[i].words
    <2>1. PICK g : g = [j \in 0..n |-> IF j = 0 THEN 0 ELSE f[j - 1] + s[j].words]
      OBVIOUS
    <2>2. g[i] = IF i = 0 THEN 0 ELSE f[i - 1] + s[i].words
      BY <2>1
    <2> QED BY <2>1, <2>2
  <1>2. 0 \in 0..n /\ \A i \in 1..n : i \in 0..n /\ i # 0
    OBVIOUS
  <1> QED BY <1>1, <1>2

LEMMA SumExists ==
  ASSUME NEW s \in Seq(Command), NEW n \in 0..Len(s)
  PROVE  \E f : IsSum(f, s, n)
  <1> DEFINE Bad == {k \in 0..Len(s) : ~\E f : IsSum(f, s, k)}
  <1>1. CASE Bad = {}
    BY <1>1
  <1>2. CASE Bad # {}
    <2>1. Bad \in SUBSET Nat /\ Bad \subseteq 0..Len(s)
      OBVIOUS
    <2>2. PICK k \in Bad : \A w \in Bad : k <= w
      <3> HIDE DEF Bad
      <3> QED BY <1>2, <2>1, LeastOf
    <2>3. k \in 0..Len(s) /\ ~\E f : IsSum(f, s, k)
      OBVIOUS
    <2>4. CASE k = 0
      <3>1. IsSum([i \in 0..0 |-> 0], s, 0)
        <4>1. PICK f : f = [i \in 0..0 |-> 0]
          OBVIOUS
        <4>2. f = [i \in 0..0 |-> IF i = 0 THEN 0 ELSE f[i - 1] + s[i].words] /\ \A i \in 0..0 : f[i] \in Nat
          BY <4>1
        <4> QED BY <4>1, <4>2 DEF IsSum
      <3> QED BY <2>3, <2>4, <3>1
    <2>5. CASE k # 0
      <3>1. k - 1 \in 0..Len(s) /\ ~(k <= k - 1)
        BY <2>3, <2>5
      <3>2. k - 1 \notin Bad
        <4> HIDE DEF Bad
        <4> QED BY <2>2, <3>1
      <3>3. PICK f : IsSum(f, s, k - 1)
        BY <3>1, <3>2
      <3> HIDE DEF Bad
      <3>4. PICK p \in Nat : p = k - 1 /\ k = p + 1
        BY <2>3, <2>5
      <3>5. f = [i \in 0..p |-> IF i = 0 THEN 0 ELSE f[i - 1] + s[i].words] /\ \A i \in 0..p : f[i] \in Nat
        BY <3>3, <3>4 DEF IsSum
      <3>6. f[0] = 0 /\ \A i \in 1..p : f[i] = f[i - 1] + s[i].words
        BY <3>5, SumSteps
      <3>7. PICK g : g = [i \in 0..k |-> IF i = k THEN f[p] + s[k].words ELSE f[i]]
        OBVIOUS
      <3>8. \A i \in 0..p : g[i] = f[i]
        BY <3>4, <3>7
      <3>9. g[k] = f[p] + s[k].words
        BY <3>4, <3>7
      <3>10. ASSUME NEW i \in 0..k
             PROVE  g[i] = (IF i = 0 THEN 0 ELSE g[i - 1] + s[i].words) /\ g[i] \in Nat
        <4>1. CASE i = k
          <5>1. k # 0 /\ k - 1 = p /\ p \in 0..p /\ k \in 1..Len(s)
            BY <2>3, <2>5, <3>4
          <5>2. s[k].words \in Nat
            BY <5>1, WordsOf
          <5>3. g[p] = f[p] /\ f[p] \in Nat
            BY <3>5, <3>8, <5>1
          <5>4. f[p] + s[k].words \in Nat
            BY <5>2, <5>3
          <5> QED BY <3>9, <4>1, <5>1, <5>3, <5>4
        <4>2. CASE i # k
          <5>1. i \in 0..p
            BY <3>4, <4>2
          <5>2. g[i] = f[i] /\ f[i] \in Nat
            BY <3>5, <3>8, <5>1
          <5>3. CASE i = 0
            BY <3>6, <5>2, <5>3
          <5>4. CASE i # 0
            <6>1. i \in 1..p /\ i - 1 \in 0..p
              BY <5>1, <5>4
            <6>2. f[i] = f[i - 1] + s[i].words /\ g[i - 1] = f[i - 1]
              BY <3>6, <3>8, <6>1
            <6> QED BY <5>2, <5>4, <6>2
          <5> QED BY <5>3, <5>4
        <4> QED BY <4>1, <4>2
      <3>11. g = [i \in 0..k |-> IF i = 0 THEN 0 ELSE g[i - 1] + s[i].words]
        <4>1. PICK h : h = [i \in 0..k |-> IF i = 0 THEN 0 ELSE g[i - 1] + s[i].words]
          OBVIOUS
        <4>2. DOMAIN g = 0..k /\ DOMAIN h = 0..k
          BY <3>7, <4>1
        <4>3. \A i \in 0..k : g[i] = h[i]
          BY <3>10, <4>1
        <4>4. g = [i \in 0..k |-> g[i]] /\ h = [i \in 0..k |-> h[i]]
          BY <3>7, <4>1
        <4> QED BY <4>1, <4>3, <4>4
      <3>12. IsSum(g, s, k)
        BY <3>10, <3>11 DEF IsSum
      <3> QED BY <2>3, <3>12
    <2> QED BY <2>4, <2>5
  <1> QED BY <1>1, <1>2

LEMMA SizeIsSum ==
  ASSUME NEW s \in Seq(Command)
  PROVE  \E f : IsSum(f, s, Len(s)) /\ L!Size(s) = f[Len(s)] /\ L!Size(s) \in Nat
  <1> DEFINE Is(h) == h = [i \in 0..Len(s) |-> IF i = 0 THEN 0 ELSE h[i - 1] + s[i].words]
  <1>1. PICK n \in Nat : n = Len(s)
    OBVIOUS
  <1>2. n \in 0..Len(s)
    BY <1>1
  <1>3. PICK e : IsSum(e, s, n)
    BY <1>2, SumExists
  <1>4. Is(e)
    BY <1>1, <1>3 DEF IsSum
  <1>5. PICK f : f = CHOOSE h : Is(h)
    OBVIOUS
  <1>6. Is(f)
    <2> HIDE DEF Is
    <2> QED BY <1>4, <1>5
  <1>7. L!Size(s) = f[Len(s)]
    BY <1>5, Zenon DEF L!Size
  <1>8. f[0] = 0 /\ \A i \in 1..n : f[i] = f[i - 1] + s[i].words
    BY <1>1, <1>6, SumSteps
  <1>9. \A i \in 0..n : f[i] \in Nat
    <2> DEFINE Bad == {i \in 0..n : f[i] \notin Nat}
    <2> SUFFICES ASSUME Bad # {} PROVE FALSE
      OBVIOUS
    <2>1. Bad \in SUBSET Nat /\ Bad \subseteq 0..n
      OBVIOUS
    <2>2. PICK k \in Bad : \A w \in Bad : k <= w
      <3> HIDE DEF Bad
      <3> QED BY <2>1, LeastOf
    <2>3. k \in 0..n /\ f[k] \notin Nat
      OBVIOUS
    <2>4. k \in 1..n /\ k - 1 \in 0..n /\ ~(k <= k - 1)
      BY <1>8, <2>3
    <2>5. f[k - 1] \in Nat
      BY <2>2, <2>4
    <2>6. s[k].words \in Nat
      BY <1>1, <2>4, WordsOf
    <2>7. f[k] = f[k - 1] + s[k].words
      BY <1>8, <2>4
    <2> HIDE DEF Bad
    <2> QED BY <2>3, <2>5, <2>6, <2>7
  <1>10. IsSum(f, s, n) /\ f[n] \in Nat
    <2>1. n \in 0..n
      OBVIOUS
    <2> QED BY <1>1, <1>6, <1>9, <2>1 DEF IsSum
  <1> QED BY <1>1, <1>7, <1>10

LEMMA IsSumSteps ==
  ASSUME NEW f, NEW s, NEW n \in Nat, IsSum(f, s, n)
  PROVE  /\ f[0] = 0
         /\ \A i \in 0..n : f[i] \in Nat
         /\ \A i \in 1..n : f[i] = f[i - 1] + s[i].words
  <1>1. f = [i \in 0..n |-> IF i = 0 THEN 0 ELSE f[i - 1] + s[i].words] /\ \A i \in 0..n : f[i] \in Nat
    BY DEF IsSum
  <1> QED BY <1>1, SumSteps

\* Where one sequence continues as the other, the first sum grows as the second.
LEMMA SumsAgree ==
  ASSUME NEW s, NEW t \in Seq(Command), NEW p \in Nat, NEW f, IsSum(f, s, p),
         NEW n \in Nat, n <= Len(t), NEW g, IsSum(g, t, n),
         NEW o \in Nat, o + n <= p, \A i \in 1..n : s[o + i] = t[i]
  PROVE  f[o + n] = f[o] + g[n]
  <1>1. \A i \in 1..p : f[i] = f[i - 1] + s[i].words
    BY IsSumSteps
  <1>2. g[0] = 0 /\ (\A i \in 0..n : g[i] \in Nat) /\ \A i \in 1..n : g[i] = g[i - 1] + t[i].words
    BY IsSumSteps
  <1>3. PICK c \in Nat : c = f[o]
    <2>1. o \in 0..p
      OBVIOUS
    <2> QED BY <2>1, IsSumSteps
  <1> DEFINE Bad == {i \in 0..n : f[o + i] # c + g[i]}
  <1>4. Bad = {}
    <2> SUFFICES ASSUME Bad # {} PROVE FALSE
      OBVIOUS
    <2>1. Bad \in SUBSET Nat
      OBVIOUS
    <2>2. PICK k \in Bad : \A x \in Bad : k <= x
      <3> HIDE DEF Bad
      <3> QED BY <2>1, LeastOf
    <2>3. k \in 0..n /\ f[o + k] # c + g[k]
      OBVIOUS
    <2>4. k # 0
      <3>1. o + 0 = o
        OBVIOUS
      <3> QED BY <1>2, <1>3, <2>3, <3>1
    <2>5. PICK q \in Nat : q = k - 1 /\ k = q + 1 /\ q \in 0..n /\ k \in 1..n /\ ~(k <= q)
      BY <2>3, <2>4
    <2>6. f[o + q] = c + g[q]
      BY <2>2, <2>5
    <2> HIDE DEF Bad
    <2>7. PICK j \in Nat : j = o + k /\ j \in 1..p /\ j - 1 = o + q
      BY <2>5
    <2>8. f[j] = f[o + q] + t[k].words
      <3>1. s[j] = t[k]
        BY <2>5, <2>7
      <3> QED BY <1>1, <2>7, <3>1
    <2>9. g[k] = g[q] + t[k].words /\ g[q] \in Nat
      BY <1>2, <2>5
    <2>10. t[k].words \in Nat
      <3>1. k \in 1..Len(t)
        BY <2>5
      <3> QED BY <3>1, WordsOf
    <2>11. f[j] = c + g[k]
      BY <2>6, <2>8, <2>9, <2>10
    <2> QED BY <2>3, <2>7, <2>11
  <1>5. n \in 0..n
    OBVIOUS
  <1>6. f[o + n] = c + g[n]
    BY <1>4, <1>5
  <1> QED BY <1>3, <1>6

LEMMA SizeOfBoth ==
  ASSUME NEW a \in Seq(Command), NEW b \in Seq(Command)
  PROVE  L!Size(a \o b) = L!Size(a) + L!Size(b) /\ L!Size(a) \in Nat /\ L!Size(b) \in Nat
  <1>1. PICK t \in Seq(Command) : t = a \o b
    BY ConcatProperties
  <1>2. /\ Len(t) = Len(a) + Len(b)
        /\ \A i \in 1..Len(a) + Len(b) : t[i] = IF i <= Len(a) THEN a[i] ELSE b[i - Len(a)]
    BY <1>1, ConcatProperties
  <1>3. PICK f : IsSum(f, t, Len(t)) /\ L!Size(t) = f[Len(t)] /\ L!Size(t) \in Nat
    BY SizeIsSum
  <1>4. PICK g : IsSum(g, a, Len(a)) /\ L!Size(a) = g[Len(a)] /\ L!Size(a) \in Nat
    BY SizeIsSum
  <1>5. PICK h : IsSum(h, b, Len(b)) /\ L!Size(b) = h[Len(b)] /\ L!Size(b) \in Nat
    BY SizeIsSum
  <1>6. PICK m \in Nat, n \in Nat : m = Len(a) /\ n = Len(b) /\ Len(t) = m + n
    BY <1>2
  <1>7. PICK p \in Nat : p = m + n
    OBVIOUS
  <1>8. IsSum(f, t, p) /\ IsSum(g, a, m) /\ IsSum(h, b, n)
    BY <1>3, <1>4, <1>5, <1>6, <1>7
  <1>9. PICK z \in Nat : z = 0
    OBVIOUS
  <1>10. f[z + m] = f[z] + g[m]
    <2>1. \A i \in 1..m : t[z + i] = a[i]
      <3> SUFFICES ASSUME NEW i \in 1..m PROVE t[z + i] = a[i]
        OBVIOUS
      <3>1. z + i = i /\ i \in 1..Len(a) + Len(b) /\ i <= Len(a)
        BY <1>6, <1>9
      <3> QED BY <1>2, <3>1
    <2>2. z + m <= p /\ m <= Len(a)
      BY <1>6, <1>7, <1>9
    <2> QED BY <1>8, <2>1, <2>2, SumsAgree
  <1>11. f[m + n] = f[m] + h[n]
    <2>1. \A i \in 1..n : t[m + i] = b[i]
      <3> SUFFICES ASSUME NEW i \in 1..n PROVE t[m + i] = b[i]
        OBVIOUS
      <3>1. PICK j \in Nat : j = m + i
        OBVIOUS
      <3>2. j \in 1..Len(a) + Len(b) /\ ~(j <= Len(a)) /\ j - Len(a) = i
        BY <1>6, <3>1
      <3>3. t[j] = b[j - Len(a)]
        BY <1>2, <3>2
      <3> QED BY <3>1, <3>2, <3>3
    <2>2. m + n <= p /\ n <= Len(b)
      BY <1>6, <1>7
    <2> QED BY <1>8, <2>1, <2>2, SumsAgree
  <1>12. f[z] = 0 /\ g[m] \in Nat /\ z + m = m
    <2>1. f[0] = 0
      BY <1>8, IsSumSteps
    <2>2. g[m] \in Nat
      BY <1>4, <1>6
    <2> QED BY <1>9, <2>1, <2>2
  <1>13. L!Size(t) = L!Size(a) + L!Size(b)
    BY <1>3, <1>4, <1>5, <1>6, <1>10, <1>11, <1>12
  <1> QED BY <1>1, <1>4, <1>5, <1>13

LEMMA SizeOfNone == <<>> \in Seq(Command) /\ L!Size(<<>>) = 0
  <1>0. <<>> \in Seq(Command) /\ Len(<<>>) = 0
    BY EmptySeq
  <1>1. PICK e \in Seq(Command) : e = <<>> /\ Len(e) = 0
    BY <1>0
  <1>2. PICK f : IsSum(f, e, Len(e)) /\ L!Size(e) = f[Len(e)] /\ L!Size(e) \in Nat
    BY SizeIsSum
  <1>3. f[0] = 0
    BY <1>1, <1>2, IsSumSteps
  <1> QED BY <1>1, <1>2, <1>3

\* Of the commands of an operation those are added that fit, in their order.
LEMMA AddedFits ==
  ASSUME NEW held \in Seq(Command), NEW commands \in Seq(Command), L!Size(held) <= Capacity
  PROVE  /\ L!Added(held, commands) \in Seq(Command)
         /\ held \o L!Added(held, commands) \in Seq(Command)
         /\ L!Size(held \o L!Added(held, commands)) <= Capacity
  <1>1. Capacity \in Nat
    BY Parameters DEF L!LcdAssumption
  <1>2. PICK n \in Nat : n = Len(commands)
    OBVIOUS
  <1>3. L!Fits(held, commands) \in SUBSET (0..n)
    BY <1>2 DEF L!Fits
  <1>4. 0 \in L!Fits(held, commands)
    <2>1. SubSeq(commands, 1, 0) = <<>>
      BY SubSeqEmpty
    <2>2. PICK h \in Nat : h = L!Size(held)
      BY SizeIsSum
    <2>3. L!Size(held) + L!Size(SubSeq(commands, 1, 0)) <= Capacity
      <3>1. L!Size(SubSeq(commands, 1, 0)) = 0
        BY <2>1, SizeOfNone
      <3>2. h + 0 <= Capacity
        BY <1>1, <2>2
      <3> QED BY <2>2, <3>1, <3>2
    <2>4. 0 \in 0..Len(commands)
      OBVIOUS
    <2> QED BY <2>3, <2>4 DEF L!Fits
  <1>5. L!Max(L!Fits(held, commands)) \in L!Fits(held, commands)
    BY <1>3, <1>4, GreatestOf
  <1>6. PICK m : m = L!Max(L!Fits(held, commands))
    OBVIOUS
  <1>7. m \in 0..n /\ L!Size(held) + L!Size(SubSeq(commands, 1, m)) <= Capacity
    BY <1>3, <1>5, <1>6 DEF L!Fits
  <1>8. PICK a : a = SubSeq(commands, 1, m)
    OBVIOUS
  <1>9. a \in Seq(Command)
    <2>1. \A i \in 1..m : commands[i] \in Command
      <3>1. \A i \in 1..m : i \in 1..Len(commands)
        BY <1>2, <1>7
      <3> QED BY <3>1, ElementOfSeq
    <2>2. m \in Int /\ 1 \in Int
      BY <1>7
    <2> QED BY <1>8, <2>1, <2>2, SubSeqProperties
  <1>10. L!Added(held, commands) = a
    BY <1>6, <1>8 DEF L!Added
  <1>11. L!Size(held \o a) = L!Size(held) + L!Size(a) /\ held \o a \in Seq(Command)
    BY <1>9, SizeOfBoth, ConcatProperties
  <1> QED BY <1>7, <1>8, <1>9, <1>10, <1>11

-----------------------------------------------------------------------------
(* The invariant of the display, in four parts that the driver's           *)
(* activities keep one at a time.                                          *)

\* The start: full speed comes with the twelfth step.
Raising ==
  /\ step \in 1..16
  /\ chip = [active |-> chip.active, engines |-> chip.engines, speed |-> chip.speed]
  /\ chip.speed = "full" => step > 12 \/ step < 3

\* The calibration: a touch that is still to be counted is one more than those counted.
Counting ==
  /\ touched \in BOOLEAN /\ presses \in 0..MaxPresses /\ counted \in 0..3 /\ counted <= presses
  /\ pc = "init" => counted = 0 /\ presses = 0 /\ ~touched
  /\ pc = "calibrating" => counted <= 2 /\ (touched => counted < presses)
  /\ pc = "released" => counted >= 1

\* The register: a success was read back from what is stored.
Register == [value : 0..3, stored : 0..3, retries : 0..MaxRetries, done : {"none", "Success", "LimitReached"}]

Writing ==
  /\ register \in Register
  /\ register.done = "Success" => L!Agree(register.value, register.stored)

\* The design: what the controller has and what the buffer holds.
Designing ==
  /\ buffer \in Seq(Command) /\ lcdFifo \in Seq(Command) /\ design \in Seq(Command)
  /\ L!Size(buffer) <= Capacity
  /\ L!SinceStart(lcdFifo \o buffer) = design
  /\ after \in {"idle", "start", "copy"} /\ sketch \in BOOLEAN

Pcs == {"init", "calibrating", "released", "idle", "writing", "flushing", "start", "copy"}

LcdInv == pc \in Pcs /\ lcdCalls \in 0..MaxLcdCalls /\ Raising /\ Counting /\ Writing /\ Designing

LEMMA LcdNumbers ==
  Capacity \in Nat /\ FifoWords \in Nat /\ MaxRetries \in Nat /\ MaxLcdCalls \in Nat /\ MaxPresses \in Nat
  /\ TextWords \in Nat /\ LabelWords \in Nat
  BY Parameters DEF L!LcdAssumption

LEMMA StepsAre ==
  /\ Len(L!Steps) = 15 /\ L!Steps[2] = "initSpi" /\ L!Steps[7] = "readRegId" /\ L!Steps[8] = "readChipId"
  /\ L!Steps[11] = "setScreenParameters" /\ L!Steps[12] = "fullSpeed"
  /\ \A i \in 1..15 : L!Steps[i] = "fullSpeed" => i = 12
  BY DEF L!Steps

LEMMA CountingIdle ==
  ASSUME Counting, UNCHANGED <<touched, presses, counted>>,
         pc' = pc \/ pc' \in {"idle", "writing", "flushing", "start", "copy"}
  PROVE  Counting'
  BY DEF Counting

LEMMA RaisingKept ==
  ASSUME Raising, UNCHANGED <<step, chip>>
  PROVE  Raising'
  BY DEF Raising

LEMMA WritingKept ==
  ASSUME Writing, UNCHANGED register
  PROVE  Writing'
  BY DEF Writing, L!Agree, L!Mask

LEMMA DesigningKept ==
  ASSUME Designing, UNCHANGED <<buffer, lcdFifo, design, after, sketch>>
  PROVE  Designing'
  BY DEF Designing

LEMMA LcdStart ==
  ASSUME L!Init
  PROVE  LcdInv
  <1>1. Raising /\ pc \in Pcs
    BY DEF L!Init, Raising, Pcs
  <1>2. Counting /\ lcdCalls \in 0..MaxLcdCalls
    <2>1. touched = FALSE /\ presses = 0 /\ counted = 0 /\ pc = "init" /\ lcdCalls = 0
      BY DEF L!Init
    <2>2. touched \in BOOLEAN
      BY <2>1
    <2> QED BY <2>1, <2>2, LcdNumbers DEF Counting
  <1>3. Writing
    BY LcdNumbers DEF L!Init, Writing, Register
  <1>4. Designing
    <2>1. buffer = <<>> /\ lcdFifo = <<>> /\ design = <<>> /\ after = "idle" /\ sketch = FALSE
      BY DEF L!Init
    <2>2. PICK e \in Seq(Command) : e = <<>> /\ Len(e) = 0 /\ L!Size(e) = 0
      BY SizeOfNone, EmptySeq
    <2>3. e \o e = e
      BY <2>2, ConcatEmptySeq
    <2>4. L!SinceStart(e) = e
      <3>1. ~\E m \in 1..Len(e) : TRUE
        BY <2>2
      <3> QED BY <3>1, SinceStartIs
    <2>5. buffer = e /\ lcdFifo = e /\ design = e
      BY <2>1, <2>2
    <2>6. L!SinceStart(lcdFifo \o buffer) = design
      BY <2>3, <2>4, <2>5
    <2>7. L!Size(buffer) <= Capacity
      BY <2>2, <2>5, LcdNumbers
    <2>8. sketch \in BOOLEAN /\ after \in {"idle", "start", "copy"}
      BY <2>1
    <2> QED BY <2>2, <2>5, <2>6, <2>7, <2>8 DEF Designing
  <1> QED BY <1>1, <1>2, <1>3, <1>4 DEF LcdInv

-----------------------------------------------------------------------------
(* The start and the calibration. *)

LEMMA RaiseKeeps ==
  ASSUME LcdInv, L!InitStep \/ L!InitFails \/ L!EnginesStart
  PROVE  LcdInv'
  <1> USE DEF LcdInv
  <1>1. /\ UNCHANGED <<buffer, after, lcdFifo, design, sketch, lcdCalls, register, touched, presses, counted>>
    BY DEF L!InitStep, L!InitFails, L!EnginesStart, L!designing, L!touching
  <1>2. Writing' /\ Designing'
    BY <1>1, WritingKept, DesigningKept
  <1>3. CASE L!InitStep
    <2>1. /\ step' = step + 1 /\ step <= 15 /\ pc = "init"
          /\ pc' = IF step = 15 THEN "calibrating" ELSE "init"
      BY <1>3, StepsAre DEF L!InitStep
    <2>2. PICK a, e : chip' = [active |-> a, engines |-> e, speed |-> L!SpeedAfter(L!Steps[step])]
      BY <1>3 DEF L!InitStep
    <2>3. L!SpeedAfter(L!Steps[step]) = "full" => L!Steps[step] = "fullSpeed" \/ (chip.speed = "full" /\ step # 2)
      BY StepsAre DEF L!SpeedAfter
    <2>4. step \in 1..15
      BY <2>1 DEF Raising
    <2>5. L!Steps[step] = "fullSpeed" => step = 12
      BY <2>4, StepsAre
    <2>6. Raising'
      BY <2>1, <2>2, <2>3, <2>4, <2>5 DEF Raising
    <2>7. Counting' /\ pc' \in Pcs
      BY <1>1, <2>1 DEF Counting, Pcs
    <2> QED BY <1>1, <1>2, <2>6, <2>7
  <1>4. CASE L!InitFails
    <2>1. step' = 1 /\ chip' \in L!Halfway(L!Steps[step]) /\ pc' = pc
      BY <1>4 DEF L!InitFails
    <2>3. chip' = [active |-> chip'.active, engines |-> chip'.engines, speed |-> chip'.speed]
      BY <2>1 DEF L!Halfway, Raising
    <2>2. Raising'
      BY <2>1, <2>3 DEF Raising
    <2> QED BY <1>1, <1>2, <2>1, <2>2, CountingIdle
  <1>5. CASE L!EnginesStart
    <2>1. step' = step /\ pc' = pc /\ chip' = [chip EXCEPT !.engines = "running"]
      BY <1>5 DEF L!EnginesStart
    <2>2. chip'.speed = chip.speed /\ chip' = [active |-> chip'.active, engines |-> chip'.engines, speed |-> chip'.speed]
      BY <2>1 DEF Raising
    <2>3. Raising'
      BY <2>1, <2>2 DEF Raising
    <2> QED BY <1>1, <1>2, <2>1, <2>3, CountingIdle
  <1> QED BY <1>3, <1>4, <1>5

LEMMA TouchKeeps ==
  ASSUME Oddities = {}, LcdInv, L!Press \/ L!Release \/ L!CountTouch \/ L!AwaitRelease
  PROVE  LcdInv'
  <1> USE DEF LcdInv
  <1>1. /\ UNCHANGED <<step, chip, buffer, after, lcdFifo, design, sketch, lcdCalls, register>>
    BY DEF L!Press, L!Release, L!CountTouch, L!AwaitRelease, L!designing, L!touching
  <1>2. Raising' /\ Writing' /\ Designing'
    BY <1>1, RaisingKept, WritingKept, DesigningKept
  <1>3. Counting' /\ pc' \in Pcs
    <2>1. CASE L!Press
      <3>1. touched = FALSE /\ presses < MaxPresses /\ pc \in {"calibrating", "released"}
            /\ touched' = TRUE /\ presses' = presses + 1 /\ counted' = counted /\ pc' = pc
        BY <2>1 DEF L!Press, Counting
      <3> QED BY <3>1, LcdNumbers DEF Counting
    <2>2. CASE L!Release
      <3>1. touched' = FALSE /\ UNCHANGED <<presses, counted, pc>>
        BY <2>2 DEF L!Release
      <3> QED BY <3>1 DEF Counting
    <2>3. CASE L!CountTouch
      <3>1. touched = TRUE /\ pc = "calibrating" /\ counted' = counted + 1 /\ pc' = "released"
            /\ UNCHANGED <<touched, presses>>
        BY <2>3 DEF L!CountTouch, Counting
      <3>2. counted <= 2 /\ counted < presses /\ counted \in 0..3 /\ presses \in 0..MaxPresses
        BY <3>1 DEF Counting
      <3> QED BY <3>1, <3>2, LcdNumbers DEF Counting, Pcs
    <2>4. CASE L!AwaitRelease
      <3>1. touched = FALSE /\ pc = "released" /\ pc' = (IF counted = 3 THEN "idle" ELSE "calibrating")
            /\ UNCHANGED <<touched, presses, counted>>
        BY <2>4 DEF L!AwaitRelease, L!ReleaseSeen, L!touching, Counting
      <3> QED BY <3>1 DEF Counting, Pcs
    <2> QED BY <2>1, <2>2, <2>3, <2>4
  <1> QED BY <1>1, <1>2, <1>3

LEMMA WriteKeeps ==
  ASSUME Oddities = {}, LcdInv, L!BeginWrite \/ L!TryWrite
  PROVE  LcdInv'
  <1> USE DEF LcdInv
  <1>1. UNCHANGED <<step, chip, buffer, after, lcdFifo, design, sketch, touched, presses, counted>>
    BY DEF L!BeginWrite, L!TryWrite, L!designing, L!touching
  <1>2. Raising' /\ Designing'
    BY <1>1, RaisingKept, DesigningKept
  <1>3. CASE L!BeginWrite
    <2>1. lcdCalls < MaxLcdCalls /\ lcdCalls' = lcdCalls + 1 /\ pc' = "writing"
      BY <1>3 DEF L!BeginWrite
    <2>2. PICK v \in 0..3 : register' = [register EXCEPT !.value = v, !.retries = 0, !.done = "none"]
      BY <1>3 DEF L!BeginWrite
    <2>3. Writing'
      <3>1. PICK z : z = 0 /\ z \in 0..MaxRetries
        BY LcdNumbers
      <3>2. register' = [register EXCEPT !.value = v, !.retries = z, !.done = "none"]
        BY <2>2, <3>1
      <3>3. register' \in Register /\ register'.done = "none"
        BY <3>1, <3>2 DEF Writing, Register
      <3> QED BY <3>3 DEF Writing
    <2>4. Counting' /\ pc' \in Pcs /\ lcdCalls' \in 0..MaxLcdCalls
      BY <1>1, <2>1, CountingIdle, LcdNumbers DEF Pcs
    <2> QED BY <1>2, <2>3, <2>4
  <1>4. CASE L!TryWrite
    <2>1. PICK stored \in {register.value, register.stored} :
         LET retry == register.retries < MaxRetries /\ ~L!Agree(register.value, stored)
         IN  /\ register' = [register EXCEPT !.stored = stored,
                               !.retries = IF retry THEN @ + 1 ELSE @,
                               !.done = IF retry THEN "none" ELSE IF register.retries < MaxRetries THEN "Success" ELSE "LimitReached"]
             /\ pc' = IF retry THEN "writing" ELSE "idle"
      BY <1>4 DEF L!TryWrite
    <2>2. CASE register.retries < MaxRetries /\ ~L!Agree(register.value, stored)
      <3>1. register' = [register EXCEPT !.stored = stored, !.retries = register.retries + 1, !.done = "none"]
            /\ pc' = "writing"
        BY <2>1, <2>2
      <3>2. Writing'
        <4>1. register.retries + 1 \in 0..MaxRetries
          BY <2>2, LcdNumbers DEF Writing, Register
        <4>2. stored \in 0..3
          BY DEF Writing, Register
        <4>3. register' \in Register /\ register'.done = "none"
          BY <3>1, <4>1, <4>2 DEF Writing, Register
        <4> QED BY <4>3 DEF Writing
      <3> QED BY <1>1, <1>2, <1>4, <3>1, <3>2, CountingIdle DEF Pcs, L!TryWrite, L!designing
    <2>3. CASE ~(register.retries < MaxRetries /\ ~L!Agree(register.value, stored))
      <3>1. PICK d : d = IF register.retries < MaxRetries THEN "Success" ELSE "LimitReached"
        OBVIOUS
      <3>2. register' = [register EXCEPT !.stored = stored, !.retries = register.retries, !.done = d]
            /\ pc' = "idle"
        BY <2>1, <2>3, <3>1
      <3>3. d = "Success" => L!Agree(register.value, stored)
        BY <2>3, <3>1
      <3>4. register' \in Register
            /\ register'.value = register.value /\ register'.stored = stored /\ register'.done = d
        BY <3>1, <3>2 DEF Writing, Register
      <3>5. Writing'
        <4>1. register'.done = "Success" => L!Agree(register'.value, register'.stored)
          BY <3>3, <3>4
        <4> QED BY <3>4, <4>1 DEF Writing
      <3> QED BY <1>1, <1>2, <1>4, <3>2, <3>5, CountingIdle DEF Pcs, L!TryWrite, L!designing
    <2> QED BY <2>2, <2>3
  <1> QED BY <1>3, <1>4

-----------------------------------------------------------------------------
(* The design. *)

LEMMA CommandsAre ==
  /\ L!StartList \in Seq(Command) /\ L!EndList \in Seq(Command) /\ L!Sketch \in Seq(Command) /\ L!Flash \in Seq(Command)
  /\ <<L!Word("Stop")>> \in Seq(Command) /\ <<L!Word("ColorRgb"), L!Text>> \in Seq(Command)
  /\ <<L!Word("TagMask"), L!Word("Tag")>> \in Seq(Command) /\ <<L!ButtonCommand>> \in Seq(Command)
  /\ <<L!Word("TagMask")>> \in Seq(Command) /\ <<L!Word("ClearColor"), L!Word("Clear")>> \in Seq(Command)
  /\ <<[name |-> "Snapshot2", words |-> 5]>> \in Seq(Command)
  <1>1. \A n \in Names : L!Word(n) \in Command
    BY DEF L!Word, Command
  <1>2. L!Text \in Command /\ L!ButtonCommand \in Command
    <2>1. 3 + TextWords \in Nat /\ 4 + LabelWords \in Nat
      BY LcdNumbers
    <2> QED BY <2>1 DEF L!Text, L!ButtonCommand, Command, Names
  <1>3. /\ [name |-> "Sketch", words |-> 5] \in Command /\ [name |-> "Memzero", words |-> 3] \in Command
        /\ [name |-> "Snapshot2", words |-> 5] \in Command
    BY DEF Command, Names
  <1>4. /\ L!Word("DisplayListStart") \in Command /\ L!Word("Clear") \in Command /\ L!Word("Display") \in Command
        /\ L!Word("Swap") \in Command /\ L!Word("ColorRgb") \in Command /\ L!Word("BitmapHandle") \in Command
        /\ L!Word("BitmapSource") \in Command /\ L!Word("BitmapLayout") \in Command
        /\ L!Word("BitmapSize") \in Command /\ L!Word("LineWidth") \in Command /\ L!Word("Begin") \in Command
        /\ L!Word("Vertex2F") \in Command /\ L!Word("Vertex2II") \in Command /\ L!Word("End") \in Command
        /\ L!Word("TagMask") \in Command /\ L!Word("Tag") \in Command /\ L!Word("ClearColor") \in Command
        /\ L!Word("Stop") \in Command /\ L!Word("Flashattach") \in Command /\ L!Word("Flashfast") \in Command
    BY <1>1 DEF Names
  <1>5. L!StartList \in Seq(Command) /\ L!EndList \in Seq(Command) /\ L!Flash \in Seq(Command)
    BY <1>4 DEF L!StartList, L!EndList, L!Flash
  <1>6. L!Sketch \in Seq(Command)
    <2>1. PICK a, b, c, d, e, f, g, h, i, j, k, l :
            /\ a = L!Word("ColorRgb") /\ b = [name |-> "Sketch", words |-> 5] /\ c = [name |-> "Memzero", words |-> 3]
            /\ d = L!Word("BitmapHandle") /\ e = L!Word("BitmapSource") /\ f = L!Word("BitmapLayout")
            /\ g = L!Word("BitmapSize") /\ h = L!Word("LineWidth") /\ i = L!Word("Begin") /\ j = L!Word("Vertex2F")
            /\ k = L!Word("Vertex2II") /\ l = L!Word("End")
      OBVIOUS
    <2>2. /\ a \in Command /\ b \in Command /\ c \in Command /\ d \in Command /\ e \in Command /\ f \in Command
          /\ g \in Command /\ h \in Command /\ i \in Command /\ j \in Command /\ k \in Command /\ l \in Command
      BY <1>3, <1>4, <2>1
    <2>3. <<a, b, c, d, e, f, g, h, i, j, j, a, i, k, l>> \in Seq(Command)
      BY <2>2
    <2> QED BY <2>1, <2>3 DEF L!Sketch
  <1>7. /\ <<L!Word("Stop")>> \in Seq(Command) /\ <<L!Word("ColorRgb"), L!Text>> \in Seq(Command)
        /\ <<L!Word("TagMask"), L!Word("Tag")>> \in Seq(Command) /\ <<L!ButtonCommand>> \in Seq(Command)
        /\ <<L!Word("TagMask")>> \in Seq(Command) /\ <<L!Word("ClearColor"), L!Word("Clear")>> \in Seq(Command)
        /\ <<[name |-> "Snapshot2", words |-> 5]>> \in Seq(Command)
    BY <1>2, <1>3, <1>4
  <1> QED BY <1>5, <1>6, <1>7

\* Whatever is added, in part or whole, is added to the design as well.
Gathered ==
  /\ buffer' \in Seq(Command) /\ design' \in Seq(Command) /\ lcdFifo' \in Seq(Command)
  /\ L!Size(buffer') <= Capacity
  /\ L!SinceStart(lcdFifo' \o buffer') = design'

LEMMA AppendToBoth ==
  ASSUME Designing, NEW a \in Seq(Command), L!Size(buffer \o a) <= Capacity, buffer' = buffer \o a,
         design' = L!SinceStart(design \o a), UNCHANGED lcdFifo
  PROVE  Gathered
  <1>1. buffer \in Seq(Command) /\ lcdFifo \in Seq(Command) /\ design \in Seq(Command)
        /\ design = L!SinceStart(lcdFifo \o buffer)
    BY DEF Designing
  <1>2. PICK t \in Seq(Command) : t = lcdFifo \o buffer
    BY <1>1, ConcatProperties
  <1>3. L!SinceStart(design \o a) = L!SinceStart(t \o a)
    BY <1>1, <1>2, SinceStartTwice
  <1>4. t \o a = lcdFifo \o (buffer \o a)
    BY <1>1, <1>2, ConcatAssociative
  <1>5. buffer \o a \in Seq(Command) /\ t \o a \in Seq(Command)
    BY <1>1, ConcatProperties
  <1>6. L!SinceStart(t \o a) \in Seq(Command)
    BY <1>5, SinceStartTyped
  <1> QED BY <1>1, <1>3, <1>4, <1>5, <1>6 DEF Gathered

LEMMA AddGathers ==
  ASSUME Designing, NEW commands \in Seq(Command), L!Add(commands), UNCHANGED lcdFifo
  PROVE  Gathered
  <1>1. PICK a : a = L!Added(buffer, commands)
    OBVIOUS
  <1>2. a \in Seq(Command) /\ L!Size(buffer \o a) <= Capacity
    BY <1>1, AddedFits DEF Designing
  <1>3. buffer' = buffer \o a /\ design' = L!SinceStart(design \o a)
    BY <1>1 DEF L!Add
  <1> QED BY <1>2, <1>3, AppendToBoth

LEMMA GatheredDesign ==
  ASSUME Gathered, after' \in {"idle", "start", "copy"}, sketch' \in BOOLEAN
  PROVE  Designing'
  BY DEF Gathered, Designing

\* What a call of the idle driver leaves to show.
LEMMA CallKeeps ==
  ASSUME LcdInv, L!Call, Designing', pc' \in {"idle", "flushing", "start", "copy"}
  PROVE  LcdInv'
  <1>1. /\ UNCHANGED <<step, chip, lcdFifo, register, touched, presses, counted>>
        /\ lcdCalls < MaxLcdCalls /\ lcdCalls' = lcdCalls + 1
    BY DEF L!Call, L!touching
  <1>2. Raising' /\ Counting' /\ Writing'
    BY <1>1, RaisingKept, CountingIdle, WritingKept DEF LcdInv
  <1>3. lcdCalls' \in 0..MaxLcdCalls /\ pc' \in Pcs
    BY <1>1, LcdNumbers DEF LcdInv, Pcs
  <1> QED BY <1>2, <1>3 DEF LcdInv

LEMMA AddOnlyKeeps ==
  ASSUME LcdInv, L!Call, NEW commands \in Seq(Command), L!AddOnly(commands), sketch' \in BOOLEAN
  PROVE  LcdInv'
  <1>1. pc = "idle" /\ UNCHANGED lcdFifo /\ L!Add(commands) /\ pc' = pc /\ after' = after
    BY DEF L!Call, L!AddOnly
  <1>2. Gathered
    BY <1>1, AddGathers DEF LcdInv
  <1>3. Designing'
    BY <1>1, <1>2, GatheredDesign DEF LcdInv, Designing
  <1> QED BY <1>1, <1>3, CallKeeps

LEMMA AddAndFlushKeeps ==
  ASSUME LcdInv, L!Call, NEW commands \in Seq(Command), NEW next \in {"idle", "start", "copy"},
         L!AddAndFlush(commands, next), sketch' \in BOOLEAN
  PROVE  LcdInv'
  <1>1. UNCHANGED lcdFifo /\ L!Add(commands) /\ pc' \in {"flushing", "idle"} /\ (after' = next \/ after' = after)
    BY DEF L!Call, L!AddAndFlush
  <1>2. Gathered
    BY <1>1, AddGathers DEF LcdInv
  <1>3. Designing'
    BY <1>1, <1>2, GatheredDesign DEF LcdInv, Designing
  <1> QED BY <1>1, <1>3, CallKeeps

LEMMA BooleanOr ==
  ASSUME NEW a \in BOOLEAN, NEW b
  PROVE  (a \/ b) \in BOOLEAN
  OBVIOUS

LEMMA DesignCallsKeep ==
  ASSUME LcdInv,
         \/ L!startDesign \/ L!addText \/ L!addSketch \/ L!clearScreen \/ L!endDesign \/ L!copyScreen
  PROVE  LcdInv'
  <1> USE DEF LcdInv
  <1>0. sketch \in BOOLEAN
    BY DEF Designing
  <1>1. CASE L!startDesign
    <2>1. L!Call /\ sketch' = FALSE /\ sketch' \in BOOLEAN
      BY <1>1 DEF L!startDesign
    <2>2. L!AddOnly(L!StartList) \/ L!AddAndFlush(<<L!Word("Stop")>>, "start")
      BY <1>1 DEF L!startDesign
    <2>3. CASE L!AddOnly(L!StartList)
      BY <2>1, <2>3, CommandsAre, AddOnlyKeeps
    <2>4. CASE L!AddAndFlush(<<L!Word("Stop")>>, "start")
      BY <2>1, <2>4, CommandsAre, AddAndFlushKeeps
    <2> QED BY <2>2, <2>3, <2>4
  <1>2. CASE L!addText
    <2>1. L!Call /\ L!AddOnly(<<L!Word("ColorRgb"), L!Text>>) /\ sketch' = sketch
      BY <1>2 DEF L!addText
    <2> QED BY <1>0, <2>1, CommandsAre, AddOnlyKeeps
  <1>3. CASE L!addSketch
    <2>1. L!Call /\ L!AddOnly(L!Sketch) /\ sketch' = (sketch \/ L!AllFit(buffer, L!Sketch))
      BY <1>3 DEF L!addSketch
    <2>2. sketch' \in BOOLEAN
      BY <1>0, <2>1, BooleanOr, Zenon
    <2> QED BY <2>1, <2>2, CommandsAre, AddOnlyKeeps
  <1>4. CASE L!clearScreen
    <2>1. L!Call /\ L!AddAndFlush(L!StartList \o <<L!Word("ClearColor"), L!Word("Clear")>> \o L!EndList, "idle")
          /\ sketch' = sketch
      BY <1>4 DEF L!clearScreen
    <2>2. L!StartList \o <<L!Word("ClearColor"), L!Word("Clear")>> \o L!EndList \in Seq(Command)
      BY CommandsAre, ConcatProperties
    <2> QED BY <1>0, <2>1, <2>2, AddAndFlushKeeps
  <1>5. CASE L!endDesign
    <2>1. L!Call /\ L!AddAndFlush(L!EndList, "idle") /\ sketch' = sketch
      BY <1>5 DEF L!endDesign
    <2> QED BY <1>0, <2>1, CommandsAre, AddAndFlushKeeps
  <1>6. CASE L!copyScreen
    <2>1. L!Call /\ sketch' = sketch
      BY <1>6 DEF L!copyScreen
    <2>2. CASE L!AddAndFlush(<<[name |-> "Snapshot2", words |-> 5]>>, "copy")
      BY <1>0, <2>1, <2>2, CommandsAre, AddAndFlushKeeps
    <2>3. CASE pc' = "copy" /\ UNCHANGED <<buffer, design, after>>
      <3>1. lcdFifo' = lcdFifo
        BY <2>1 DEF L!Call
      <3>2. Designing'
        BY <2>1, <2>3, <3>1, DesigningKept
      <3> QED BY <2>1, <2>3, <3>2, CallKeeps
    <2> QED BY <1>6, <2>2, <2>3 DEF L!copyScreen
  <1> QED BY <1>1, <1>2, <1>3, <1>4, <1>5, <1>6

LEMMA ButtonKeeps ==
  ASSUME LcdInv, L!addButton
  PROVE  LcdInv'
  <1> DEFINE tag == <<L!Word("TagMask"), L!Word("Tag")>>
             whole == tag \o <<L!ButtonCommand>>
             held == buffer \o L!Added(buffer, whole)
             off == <<L!Word("TagMask")>>
  <1>1. L!Call /\ UNCHANGED <<sketch, pc, after>>
    BY DEF L!addButton
  <1>2. pc = "idle" /\ lcdFifo' = lcdFifo
    BY <1>1 DEF L!Call
  <1>3. tag \in Seq(Command) /\ off \in Seq(Command) /\ whole \in Seq(Command)
    BY CommandsAre, ConcatProperties
  <1>4. \/ L!Add(tag)
        \/ /\ buffer' = held \o L!Added(held, off)
           /\ design' = L!SinceStart(design \o L!Added(buffer, whole) \o L!Added(held, off))
    BY DEF L!addButton
  <1> HIDE DEF tag, whole, off
  <1>5. CASE L!Add(tag)
    <2>1. Gathered
      BY <1>2, <1>3, <1>5, AddGathers DEF LcdInv
    <2>2. Designing'
      BY <1>1, <2>1, GatheredDesign DEF LcdInv, Designing
    <2> QED BY <1>1, <1>2, <2>2, CallKeeps
  <1>6. CASE /\ buffer' = held \o L!Added(held, off)
             /\ design' = L!SinceStart(design \o L!Added(buffer, whole) \o L!Added(held, off))
    <2>1. PICK a : a = L!Added(buffer, whole)
      OBVIOUS
    <2>2. a \in Seq(Command) /\ L!Size(buffer \o a) <= Capacity /\ buffer \o a \in Seq(Command)
      BY <1>3, <2>1, AddedFits DEF LcdInv, Designing
    <2>3. PICK b : b = L!Added(buffer \o a, off)
      OBVIOUS
    <2>4. b \in Seq(Command) /\ L!Size((buffer \o a) \o b) <= Capacity
      BY <1>3, <2>2, <2>3, AddedFits
    <2>5. buffer' = (buffer \o a) \o b /\ design' = L!SinceStart((design \o a) \o b)
      BY <1>6, <2>1, <2>3
    <2>6. buffer \in Seq(Command) /\ design \in Seq(Command)
      BY DEF LcdInv, Designing
    <2>7. (buffer \o a) \o b = buffer \o (a \o b) /\ (design \o a) \o b = design \o (a \o b) /\ a \o b \in Seq(Command)
      BY <2>2, <2>4, <2>6, ConcatAssociative, ConcatProperties
    <2>8. Gathered
      BY <1>2, <2>4, <2>5, <2>7, AppendToBoth DEF LcdInv
    <2>9. Designing'
      BY <1>1, <2>8, GatheredDesign DEF LcdInv, Designing
    <2> QED BY <1>1, <1>2, <2>9, CallKeeps
  <1> QED BY <1>4, <1>5, <1>6

-----------------------------------------------------------------------------
(* The flush. *)

LEMMA SinceStartAgain ==
  ASSUME NEW s \in Seq(Command)
  PROVE  L!SinceStart(L!SinceStart(s) \o <<>>) = L!SinceStart(s)
  <1>1. <<>> \in Seq(Command) /\ s \o <<>> = s
    BY SizeOfNone, ConcatEmptySeq
  <1> QED BY <1>1, SinceStartTwice

\* Not a call: the parts that a step of the design leaves alone.
LEMMA InsideKeeps ==
  ASSUME LcdInv, UNCHANGED <<step, chip, register, touched, presses, counted>>,
         lcdCalls' \in 0..MaxLcdCalls, pc' = pc \/ pc' \in {"idle", "start", "copy"}, Designing'
  PROVE  LcdInv'
  <1>1. Raising' /\ Counting' /\ Writing'
    BY RaisingKept, CountingIdle, WritingKept DEF LcdInv
  <1> QED BY <1>1 DEF LcdInv, Pcs

LEMMA FlushingKeeps ==
  ASSUME Oddities = {}, LcdInv, L!Flush
  PROVE  LcdInv'
  <1>1. /\ UNCHANGED <<step, chip, after, design, sketch, register, touched, presses, counted, lcdCalls>>
    BY DEF L!Flush, L!touching
  <1>2. PICK free \in 0..FifoWords :
       /\ free # L!Size(buffer)
       /\ IF L!MayWrite(free, L!Size(buffer)) /\ L!Size(buffer) <= free
          THEN lcdFifo' = L!SinceStart(lcdFifo \o buffer) ELSE UNCHANGED lcdFifo
       /\ IF L!MayWrite(free, L!Size(buffer)) \/ free >= L!Size(buffer)
          THEN buffer' = <<>> /\ pc' = after ELSE UNCHANGED <<buffer, pc>>
    BY DEF L!Flush
  <1>3. Designing /\ L!Size(buffer) \in Nat /\ free \in Nat
    BY SizeIsSum, LcdNumbers DEF LcdInv, Designing
  <1>4. CASE L!Size(buffer) < free
    <2>1. lcdFifo' = L!SinceStart(lcdFifo \o buffer) /\ buffer' = <<>> /\ pc' = after
      BY <1>2, <1>3, <1>4 DEF L!MayWrite
    <2>2. lcdFifo' = design /\ design \in Seq(Command)
      BY <1>3, <2>1 DEF Designing
    <2>3. L!SinceStart(lcdFifo' \o buffer') = design
      <3>1. PICK t \in Seq(Command) : t = lcdFifo \o buffer
        BY <1>3, ConcatProperties DEF Designing
      <3> QED BY <1>3, <2>1, <2>2, <3>1, SinceStartAgain DEF Designing
    <2>4. Designing'
      BY <1>1, <1>3, <2>1, <2>2, <2>3, SizeOfNone, LcdNumbers DEF Designing
    <2>5. lcdCalls' \in 0..MaxLcdCalls /\ pc' \in {"idle", "start", "copy"}
      BY <1>1, <1>3, <2>1 DEF LcdInv, Designing
    <2> QED BY <1>1, <2>4, <2>5, InsideKeeps
  <1>5. CASE ~(L!Size(buffer) < free)
    <2>1. ~(free >= L!Size(buffer))
      BY <1>2, <1>3, <1>5
    <2>2. UNCHANGED <<buffer, lcdFifo, pc>>
      BY <1>2, <1>5, <2>1 DEF L!MayWrite
    <2>3. Designing'
      BY <1>1, <1>3, <2>2, DesigningKept
    <2> QED BY <1>1, <2>2, <2>3, InsideKeeps DEF LcdInv
  <1> QED BY <1>4, <1>5

LEMMA RecoverKeeps ==
  ASSUME LcdInv, L!Recover
  PROVE  LcdInv'
  <1>1. /\ UNCHANGED <<step, chip, pc, after, sketch, register, touched, presses, counted>>
        /\ lcdCalls < MaxLcdCalls /\ lcdCalls' = lcdCalls + 1 /\ design' = L!SinceStart(lcdFifo' \o buffer')
    BY DEF L!Recover, L!touching
  <1>2. Designing /\ buffer \in Seq(Command)
    BY DEF LcdInv, Designing
  <1>3. lcdFifo' \in Seq(Command) /\ buffer' \in Seq(Command) /\ L!Size(buffer') <= Capacity
    <2>1. CASE lcdFifo' = L!SinceStart(buffer \o L!Flash) /\ buffer' = <<>>
      <3>1. buffer \o L!Flash \in Seq(Command)
        BY <1>2, CommandsAre, ConcatProperties
      <3>2. L!SinceStart(buffer \o L!Flash) \in Seq(Command)
        BY <3>1, SinceStartTyped
      <3>3. L!Size(buffer') <= Capacity
        BY <2>1, SizeOfNone, LcdNumbers
      <3> QED BY <2>1, <3>2, <3>3, SizeOfNone
    <2>2. CASE lcdFifo' = <<>> /\ UNCHANGED buffer
      BY <1>2, <2>2, SizeOfNone DEF Designing
    <2> QED BY <2>1, <2>2 DEF L!Recover
  <1>4. lcdFifo' \o buffer' \in Seq(Command)
    BY <1>3, ConcatProperties
  <1>5. design' \in Seq(Command)
    BY <1>1, <1>4, SinceStartTyped
  <1>6. Designing'
    BY <1>1, <1>2, <1>3, <1>5 DEF Designing
  <1>7. lcdCalls' \in 0..MaxLcdCalls
    BY <1>1, LcdNumbers DEF LcdInv
  <1> QED BY <1>1, <1>6, <1>7, InsideKeeps

LEMMA StartAfterStopKeeps ==
  ASSUME LcdInv, L!StartAfterStop
  PROVE  LcdInv'
  <1>1. /\ UNCHANGED <<step, chip, after, lcdFifo, sketch, register, touched, presses, counted, lcdCalls>>
        /\ L!Add(L!StartList) /\ pc' = "idle"
    BY DEF L!StartAfterStop, L!touching
  <1>2. Gathered
    BY <1>1, CommandsAre, AddGathers DEF LcdInv
  <1>3. Designing'
    BY <1>1, <1>2, GatheredDesign DEF LcdInv, Designing
  <1> QED BY <1>1, <1>3, InsideKeeps DEF LcdInv

LEMMA CopyWordsKeeps ==
  ASSUME LcdInv, L!CopyWords
  PROVE  LcdInv'
  <1>1. /\ UNCHANGED <<step, chip, buffer, after, lcdFifo, design, sketch, register, touched, presses, counted, lcdCalls>>
        /\ pc' = "idle"
    BY DEF L!CopyWords, L!designing, L!touching
  <1>2. Designing'
    BY <1>1, DesigningKept DEF LcdInv
  <1> QED BY <1>1, <1>2, InsideKeeps DEF LcdInv

LcdPart == part = "lcd" => LcdInv

LEMMA LcdAlways ==
  ASSUME Oddities = {}
  PROVE  PartSpec => []LcdPart
  <1>1. PartInit => LcdPart
    BY LcdStart DEF PartInit, LcdPart
  <1>2. LcdPart /\ [PartNext]_allVars => LcdPart'
    <2> SUFFICES ASSUME part = "lcd", LcdInv, [L!Next]_lcdVars PROVE LcdInv'
      BY PartSteps DEF LcdPart
    <2>1. CASE UNCHANGED lcdVars
      <3>1. UNCHANGED <<step, chip, buffer, pc, after, lcdFifo, design, sketch, register, touched, presses, counted, lcdCalls>>
        BY <2>1 DEF lcdVars
      <3>2. Designing'
        BY <3>1, DesigningKept DEF LcdInv
      <3> QED BY <3>1, <3>2, InsideKeeps DEF LcdInv
    <2>2. CASE L!Next
      BY <2>2, RaiseKeeps, TouchKeeps, WriteKeeps, DesignCallsKeep, ButtonKeeps, FlushingKeeps, RecoverKeeps,
         StartAfterStopKeeps, CopyWordsKeeps DEF L!Next
    <2> QED BY <2>1, <2>2
  <1> QED BY <1>1, <1>2, PTL DEF PartSpec

LEMMA LcdTypesHold ==
  ASSUME LcdInv
  PROVE  L!TypeOK
  <1>1. step \in 1..(Len(L!Steps) + 1)
    BY StepsAre DEF LcdInv, Raising
  <1> QED BY <1>1 DEF LcdInv, Pcs, Counting, Writing, Register, Designing, L!TypeOK

\* The bus is at full speed only after the identifiers were read and the screen was set
\* up, touches are counted once, a register write that answers success is stored as it
\* was read back, and of the commands of a design none is lost, doubled or moved. The
\* controller never has exactly the words of the buffer free and the reads of its
\* registers do not fail.
THEOREM DisplayKeepsItsDesign ==
  ASSUME Oddities = {}
  PROVE  PartSpec => []DisplayIsKept
  <1>1. ASSUME LcdInv
        PROVE  L!FullSpeedIsLate /\ L!TouchesAreCountedOnce /\ L!VerifiedWriteIsStored /\ L!NothingIsLost
    <2>1. L!FullSpeedIsLate
      <3>1. step \in 1..16 /\ (chip.speed = "full" => step > 12 \/ step < 3)
        BY <1>1 DEF LcdInv, Raising
      <3>2. L!Past("initSpi") => step > 2
        <4>1. \A i \in 1..(step - 1) : i <= 15 /\ L!Steps[i] = "initSpi" => i # 1
          BY DEF L!Steps
        <4> QED BY <3>1, <4>1, StepsAre DEF L!Past
      <3>3. chip.speed = "full" /\ L!Past("initSpi")
              => 7 \in 1..(step - 1) /\ 8 \in 1..(step - 1) /\ 11 \in 1..(step - 1)
        BY <3>1, <3>2
      <3> QED BY <3>3, StepsAre DEF L!FullSpeedIsLate, L!Past
    <2>2. L!TouchesAreCountedOnce
      BY <1>1 DEF LcdInv, Counting, L!TouchesAreCountedOnce
    <2>3. L!VerifiedWriteIsStored
      BY <1>1 DEF LcdInv, Writing, L!VerifiedWriteIsStored, L!Agree
    <2>4. L!NothingIsLost
      BY <1>1 DEF LcdInv, Designing, L!NothingIsLost
    <2> QED BY <2>1, <2>2, <2>3, <2>4
  <1>2. LcdPart => DisplayIsKept
    BY <1>1 DEF LcdPart, DisplayIsKept
  <1> QED BY <1>2, LcdAlways, PTL

-----------------------------------------------------------------------------
(* The drivers together. *)

\* A serial port transfers over a line that is its own, is programmed as a whole when
\* its init has succeeded and counts what it sent, if nobody uses it between a deinit
\* and the next init; a reception of the serial interface returns nothing that was
\* flushed, whoever uses it.
THEOREM ReceivedBytesAreOwn ==
  ASSUME Careful = TRUE
  PROVE  PartSpec => []BytesAreOwn
  <1>1. SpiPart => (part = "spi" => B!NothingOldIsReceived)
    BY DEF SpiPart, SpiInv, NewerThanFlush, B!NothingOldIsReceived
  <1>2. UartPart /\ SpiPart => BytesAreOwn
    BY <1>1 DEF UartPart, UartInv, BytesAreOwn
  <1> QED BY <1>2, UartAlways, SpiAlways, PTL

\* Every driver keeps its types, under what each of them needs for that: one thread
\* uses the clock chip, the display controller shows nothing odd, the serial ports are
\* used between init and deinit, and the slide has fewer places than the averaging
\* divides by.
THEOREM DriversKeepTheirTypes ==
  ASSUME NEW c, Callers = {c}, Oddities = {}, Careful = TRUE, Places < AdcMultiSamples - 1
  PROVE  PartSpec => []AllTypesOK
  <1>1. RtcPart => (part = "rtc" => R!TypeOK)
    BY DEF RtcPart, RtcInv
  <1>2. ChipPart(c) => (part = "chip" => N!TypeOK)
    BY ChipTypesHold DEF ChipPart
  <1>3. LcdPart => (part = "lcd" => L!TypeOK)
    BY LcdTypesHold DEF LcdPart
  <1>4. UartPart => (part = "uart" => U!TypeOK)
    BY DEF UartPart, UartInv
  <1>5. SpiPart => (part = "spi" => B!TypeOK)
    BY SpiTypesHold DEF SpiPart
  <1>6. MotorPart => (part = "motor" => M!TypeOK)
    BY MotorTypesHold DEF MotorPart
  <1>7. RtcPart /\ ChipPart(c) /\ LcdPart /\ UartPart /\ SpiPart /\ MotorPart => AllTypesOK
    BY <1>1, <1>2, <1>3, <1>4, <1>5, <1>6 DEF AllTypesOK
  <1> QED BY <1>7, RtcAlways, ChipAlways, LcdAlways, UartAlways, SpiAlways, MotorAlways, PTL
=============================================================================
