------------------------------- MODULE Dates -------------------------------
(***************************************************************************)
(* DateTime, ToUnixTime and ToDateTime of Utilities/Types.hpp, and the     *)
(* binary coded decimals of the real time clock chip.  Years count from    *)
(* 1970.  The weekday is left out: neither conversion looks at it.         *)
(***************************************************************************)
EXTENDS Naturals

SecondsInADay == 86400

\* The widest year, a uint16_t.
MaxYear == 65535

DateTime == [second : 0..59, minute : 0..59, hour : 0..23, day : 0..31, month : 0..12, year : 0..MaxYear]

\* What a DateTime is constructed with.
UnixTimeZero == [second |-> 0, minute |-> 0, hour |-> 0, day |-> 1, month |-> 1, year |-> 0]

\* The days before a month, as the code has them.
daysFromJanuaryToNow(month) ==
    IF month \in 1..12
    THEN <<0, 0, 31, 90, 120, 151, 181, 212, 243, 273, 304, 334>>[month]
    ELSE 0

timeOfDay(dt) == dt.hour * 3600 + dt.minute * 60 + dt.second

\* The correction for the leap day asks for a year of at most 2 that is a
\* multiple of 4 and not 0: there is none.
ToUnixTime(dt) ==
    LET leapDays  == (1970 + dt.year) \div 4 - 1970 \div 4
        dayOfMonth == IF dt.day > 0 THEN dt.day - 1 ELSE 0
        correction == IF dt.year # 0 /\ dt.year % 4 = 0 /\ dt.year <= 2 THEN 1 ELSE 0
        daysSince == (dt.year * 365 + leapDays + daysFromJanuaryToNow(dt.month)
                          + dayOfMonth - correction) % 65536
    IN daysSince * SecondsInADay + timeOfDay(dt)

daysPerMonth(year, month) ==
    CASE month \notin 1..12            -> 0
      [] month = 2 /\ year % 4 # 0     -> 29
      [] OTHER -> <<31, 28, 31, 30, 31, 30, 31, 31, 30, 31, 30, 31>>[month]

\* The loop over the months: it does not stop at the month that is found, and
\* the days that are left are compared with the months that follow.
MonthAndDay(year, days) ==
    LET found[m \in 0..12] ==      \* after the months up to m
            IF m = 0 THEN [month |-> UnixTimeZero.month, day |-> days]
            ELSE LET before == found[m - 1]
                     length == daysPerMonth(year, m)
                 IN CASE before.day = 0       -> before
                      [] before.day \in 1..length -> [before EXCEPT !.month = m]
                      [] OTHER                -> [before EXCEPT !.day = @ - length]
    IN found[12]

\* The loop over the years takes 366 days for each: it asks whether the year of
\* the result is a leap year, which is still 0 then.
ToDateTime(seconds) ==
    LET days == (seconds \div SecondsInADay) % 65536
        left == seconds % SecondsInADay
        year == days \div 366
        date == MonthAndDay(year, days % 366)
    IN [second |-> left % 60, minute |-> (left % 3600) \div 60, hour |-> left \div 3600,
        day |-> date.day, month |-> date.month, year |-> year]

----------------------------------------------------------------------------
\* Nxppcf8506a: one byte of the date as binary coded decimal and back.

\* The largest value of a register of the chip.
MaxByte == 255

toBinaryCodedDecimal(value) == (((value \div 10) * 16) % 256) + (value % 10)
fromBinaryCodedDecimal(bcd) == (bcd % 16) + ((bcd \div 16) * 10)
============================================================================
