------------------------------ MODULE CivilTime ------------------------------
(* The conversion behind an artefact's "packed_at" timestamp,               *)
(* epoch_to_ymdhms in src/cli/src/artefact.rs: seconds since the epoch are  *)
(* split into a time of day and a number of days, whole years are taken off *)
(* the days one at a time, then whole months. One step here is one turn of  *)
(* one of the two loops.                                                    *)
EXTENDS Integers

CONSTANT Inputs     \* the clock readings, in seconds since 1970

ASSUME InputsAssumption == Inputs \subseteq Nat

VARIABLES secs,       \* the argument
          year,       \* the year counted up from 1970
          days,       \* days left after taking off whole years
          month,      \* the month counted up from 1
          remaining,  \* days left after taking off whole months
          pc          \* "year", "month" or "done"

vars == <<secs, year, days, month, remaining, pc>>

-----------------------------------------------------------------------------
\* Bug: no century is a leap year.
IsLeapNoCentury(y) == y % 4 = 0 /\ y % 100 # 0

\* is_leap.
IsLeap(y) == (y % 4 = 0 /\ y % 100 # 0) \/ y % 400 = 0

DaysInYear(y) == IF IsLeap(y) THEN 366 ELSE 365

\* Bug: February has 28 days in every year.
DaysInMonthCommon(y, m) ==
    IF m = 2 THEN 28 ELSE IF m \in {4, 6, 9, 11} THEN 30 ELSE 31

\* The twelve entries of days_in_month.
DaysInMonth(y, m) ==
    IF m = 2 THEN (IF IsLeap(y) THEN 29 ELSE 28)
    ELSE IF m \in {4, 6, 9, 11} THEN 30 ELSE 31

\* The time of day, and the days it leaves.
Minutes == secs \div 60
Hours   == Minutes \div 60
Days    == Hours \div 24
Second  == secs % 60
Minute  == Minutes % 60
Hour    == Hours % 24

Day == remaining + 1

Init ==
    /\ secs \in Inputs
    /\ year = 1970
    /\ days = Days
    /\ month = 1
    /\ remaining = 0
    /\ pc = "year"

\* Bug: the last day of a year is taken for the first of the next.
NextYearEarly ==
    /\ pc = "year"
    /\ days >= DaysInYear(year) - 1
    /\ days' = days - DaysInYear(year)
    /\ year' = year + 1
    /\ UNCHANGED <<secs, month, remaining, pc>>

NextYear ==
    /\ pc = "year"
    /\ days >= DaysInYear(year)
    /\ days' = days - DaysInYear(year)
    /\ year' = year + 1
    /\ UNCHANGED <<secs, month, remaining, pc>>

\* Bug: on the last day of a leap year the loop neither ends nor moves on.
YearFoundCommon ==
    /\ pc = "year"
    /\ days < 365
    /\ remaining' = days
    /\ pc' = "month"
    /\ UNCHANGED <<secs, year, days, month>>

YearFound ==
    /\ pc = "year"
    /\ days < DaysInYear(year)
    /\ remaining' = days
    /\ pc' = "month"
    /\ UNCHANGED <<secs, year, days, month>>

NextMonth ==
    /\ pc = "month"
    /\ month <= 12
    /\ remaining >= DaysInMonth(year, month)
    /\ remaining' = remaining - DaysInMonth(year, month)
    /\ month' = month + 1
    /\ UNCHANGED <<secs, year, days, pc>>

\* The loop ends at the first month that is longer, or after December.
MonthFound ==
    /\ pc = "month"
    /\ month > 12 \/ remaining < DaysInMonth(year, month)
    /\ pc' = "done"
    /\ UNCHANGED <<secs, year, days, month, remaining>>

Next == NextYear \/ YearFound \/ NextMonth \/ MonthFound

Spec == Init /\ [][Next]_vars /\ WF_vars(Next)

-----------------------------------------------------------------------------
(* The calendar, without loops.                                             *)

\* Leap years before year y of the proleptic Gregorian calendar.
LeapsBefore(y) ==
    ((y - 1) \div 4) - ((y - 1) \div 100) + ((y - 1) \div 400)

\* Days from 1 January 1970 to 1 January of year y.
DaysBeforeYear(y) == 365 * (y - 1970) + LeapsBefore(y) - LeapsBefore(1970)

\* Days from 1 January to the first of month m (m = 13: the whole year).
DaysBeforeMonth(y, m) ==
    LET common == <<0, 31, 59, 90, 120, 151, 181, 212, 243, 273, 304, 334, 365>>
    IN  common[m] + (IF m > 2 /\ IsLeap(y) THEN 1 ELSE 0)

\* Seconds from the epoch to a date and time: the reference definition that
\* the conversion inverts.
EpochSeconds(y, m, d, hh, mm, ss) ==
    (((DaysBeforeYear(y) + DaysBeforeMonth(y, m) + d - 1) * 24 + hh) * 60 + mm)
        * 60 + ss

-----------------------------------------------------------------------------
(* Properties.                                                              *)

\* Types of the variables: the unsigned ones of the code stay natural.
TypeOK ==
    /\ secs \in Nat
    /\ year \in Nat
    /\ days \in Nat
    /\ month \in 1 .. 13
    /\ remaining \in Nat
    /\ pc \in {"year", "month", "done"}

\* What each turn of the loops keeps: the days taken off are those before
\* the year and the month reached, and the days left fit in the year.
LoopInv ==
    /\ year >= 1970
    /\ days + DaysBeforeYear(year) = Days
    /\ pc = "year" => month = 1
    /\ pc # "year" =>
          /\ days < DaysInYear(year)
          /\ remaining + DaysBeforeMonth(year, month) = days
    /\ pc = "done" => month <= 12 /\ remaining < DaysInMonth(year, month)

\* The result is a date of the calendar, and the reference definition maps
\* it back to the argument.
Correct ==
    pc = "done" =>
        /\ month \in 1 .. 12
        /\ Day \in 1 .. DaysInMonth(year, month)
        /\ Hour \in 0 .. 23 /\ Minute \in 0 .. 59 /\ Second \in 0 .. 59
        /\ EpochSeconds(year, month, Day, Hour, Minute, Second) = secs

\* Both loops end.
Terminates == <>(pc = "done")
=============================================================================
