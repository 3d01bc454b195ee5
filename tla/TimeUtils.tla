------------------------------ MODULE TimeUtils ------------------------------
(***************************************************************************)
(* The conversion of a date to Unix time (time_utils.c), against a calendar *)
(* that is walked day by day from January 1st, 1970 and counts the days.    *)
(***************************************************************************)
EXTENDS Integers

CONSTANTS
    Word,       \* 2^32, the arithmetic of uint32_t is modulo it
    LastYear    \* bound: the last year the calendar walks to

ASSUME WordAssumption     == Word \in Nat \ {0}
ASSUME LastYearAssumption == LastYear \in Nat

VARIABLES
    year, month, day,
    days               \* since January 1st, 1970

calendarVars == <<year, month, day, days>>

-----------------------------------------------------------------------------
(* time_utils_convert *)

\* Mutant: February is not shifted.
ShiftedMonth_january(m) == IF m < 2 THEN m + 12 ELSE m

\* January and February are counted as months 13 and 14 of the year before.
ShiftedMonth(m)   == IF m <= 2 THEN m + 12 ELSE m
ShiftedYear(y, m) == IF m <= 2 THEN y - 1 ELSE y

YearDays(y)  == 365 * y + (y \div 4) - (y \div 100) + (y \div 400)
MonthDays(m) == 30 * m + ((3 * (m + 1)) \div 5)

DaysSince1970(y, m, d) ==
    YearDays(ShiftedYear(y, m)) + MonthDays(ShiftedMonth(m)) + d - 719561

time_utils_convert(y, m, d, hour, minute, second) ==
    (DaysSince1970(y, m, d) * 86400 + 3600 * hour + 60 * minute + second) % Word

-----------------------------------------------------------------------------
(* The calendar *)

Leap(y) == (y % 4 = 0 /\ y % 100 # 0) \/ y % 400 = 0

MonthLength(y, m) ==
    IF m = 2 THEN (IF Leap(y) THEN 29 ELSE 28)
    ELSE IF m \in {4, 6, 9, 11} THEN 30 ELSE 31

CalendarOK ==
    /\ year \in Nat /\ year >= 1970
    /\ month \in 1 .. 12
    /\ day \in 1 .. MonthLength(year, month)
    /\ days \in Nat

CalendarInit == year = 1970 /\ month = 1 /\ day = 1 /\ days = 0

NextDay ==
    /\ day < MonthLength(year, month)
    /\ day' = day + 1
    /\ days' = days + 1
    /\ UNCHANGED <<year, month>>

NextMonth ==
    /\ day = MonthLength(year, month)
    /\ month < 12
    /\ month' = month + 1
    /\ day' = 1
    /\ days' = days + 1
    /\ UNCHANGED year

NextYear ==
    /\ day = MonthLength(year, month)
    /\ month = 12
    /\ year < LastYear
    /\ year' = year + 1
    /\ month' = 1
    /\ day' = 1
    /\ days' = days + 1

CalendarNext == NextDay \/ NextMonth \/ NextYear

CalendarSpec == CalendarInit /\ [][CalendarNext]_calendarVars

-----------------------------------------------------------------------------

\* The formula of time_utils_convert counts days: through the ends of months,
\* leap years, and the centuries that are none.
DaysAreElapsed == DaysSince1970(year, month, day) = days

\* The result is the number of seconds since the epoch, at any time of a day
\* that ends before the 32 bits do.
SecondsOfDay == {<<0, 0, 0>>, <<12, 30, 15>>, <<23, 59, 59>>}
Elapsed(t)   == days * 86400 + t[1] * 3600 + t[2] * 60 + t[3]

SecondsAreElapsed ==
    /\ DaysAreElapsed
    /\ days < Word \div 86400 =>
        \A t \in SecondsOfDay :
            time_utils_convert(year, month, day, t[1], t[2], t[3]) = Elapsed(t)
=============================================================================
