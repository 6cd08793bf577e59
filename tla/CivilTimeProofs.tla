--------------------------- MODULE CivilTimeProofs ---------------------------
(* Proofs about CivilTime: the conversion is right for every clock reading. *)
EXTENDS CivilTime, TLAPS

-----------------------------------------------------------------------------
(* The calendar.                                                            *)

LEMMA DivStep ==
  ASSUME NEW y \in Nat \ {0}
  PROVE  /\ (y \div 4) - ((y - 1) \div 4) = IF y % 4 = 0 THEN 1 ELSE 0
         /\ (y \div 100) - ((y - 1) \div 100) = IF y % 100 = 0 THEN 1 ELSE 0
         /\ (y \div 400) - ((y - 1) \div 400) = IF y % 400 = 0 THEN 1 ELSE 0
OBVIOUS

\* The closed form counts each year with its own length.
LEMMA YearStep ==
  ASSUME NEW y \in Nat \ {0}
  PROVE  DaysBeforeYear(y + 1) = DaysBeforeYear(y) + DaysInYear(y)
<1>1. LeapsBefore(y + 1) - LeapsBefore(y) = IF IsLeap(y) THEN 1 ELSE 0
  <2>1. (y % 400 = 0 => y % 100 = 0) /\ (y % 100 = 0 => y % 4 = 0)
    OBVIOUS
  <2>2. (y + 1) - 1 = y
    OBVIOUS
  <2> QED BY <2>1, <2>2, DivStep DEF LeapsBefore, IsLeap
<1>2. LeapsBefore(y + 1) \in Int /\ LeapsBefore(y) \in Int
      /\ LeapsBefore(1970) \in Int
  BY DEF LeapsBefore
<1> QED
  BY <1>1, <1>2 DEF DaysBeforeYear, DaysInYear

LEMMA MonthTypes ==
  ASSUME NEW y \in Nat, NEW m \in 1 .. 12
  PROVE  DaysBeforeMonth(y, m) \in Nat /\ DaysInMonth(y, m) \in Nat \ {0}
<1>1. m = 1 \/ m = 2 \/ m = 3 \/ m = 4 \/ m = 5 \/ m = 6 \/ m = 7 \/ m = 8
      \/ m = 9 \/ m = 10 \/ m = 11 \/ m = 12
  OBVIOUS
<1> QED
  BY <1>1 DEF DaysBeforeMonth, DaysInMonth

\* The table of month starts counts each month with its own length.
LEMMA MonthStep ==
  ASSUME NEW y \in Nat, NEW m \in 1 .. 12
  PROVE  DaysBeforeMonth(y, m + 1) = DaysBeforeMonth(y, m) + DaysInMonth(y, m)
<1>1. m = 1 \/ m = 2 \/ m = 3 \/ m = 4 \/ m = 5 \/ m = 6 \/ m = 7 \/ m = 8
      \/ m = 9 \/ m = 10 \/ m = 11 \/ m = 12
  OBVIOUS
<1> QED
  BY <1>1 DEF DaysBeforeMonth, DaysInMonth

LEMMA YearEnds ==
  ASSUME NEW y \in Nat
  PROVE  /\ DaysBeforeMonth(y, 1) = 0
         /\ DaysBeforeMonth(y, 13) = DaysInYear(y)
         /\ DaysInYear(y) \in Nat
BY DEF DaysBeforeMonth, DaysInYear

LEMMA Divide60 ==
  ASSUME NEW a \in Nat
  PROVE  /\ a \div 60 \in Nat
         /\ a % 60 \in 0 .. 59
         /\ a = 60 * (a \div 60) + (a % 60)
<1>1. a \div 60 \in Nat /\ a % 60 \in 0 .. 59
  OBVIOUS
<1>2. a = 60 * (a \div 60) + (a % 60)
  BY SMTT(20)
<1> QED BY <1>1, <1>2

LEMMA Divide24 ==
  ASSUME NEW a \in Nat
  PROVE  /\ a \div 24 \in Nat
         /\ a % 24 \in 0 .. 23
         /\ a = 24 * (a \div 24) + (a % 24)
<1>1. a \div 24 \in Nat /\ a % 24 \in 0 .. 23
  OBVIOUS
<1>2. a = 24 * (a \div 24) + (a % 24)
  BY SMTT(20)
<1> QED BY <1>1, <1>2

\* The chain of divisions by 60, 60 and 24 loses nothing.
LEMMA TimeOfDay ==
  ASSUME secs \in Nat
  PROVE  /\ Days \in Nat
         /\ Hour \in 0 .. 23 /\ Minute \in 0 .. 59 /\ Second \in 0 .. 59
         /\ ((Days * 24 + Hour) * 60 + Minute) * 60 + Second = secs
<1>1. /\ Minutes \in Nat /\ Second \in 0 .. 59
      /\ secs = 60 * Minutes + Second
  BY Divide60 DEF Minutes, Second
<1>2. /\ Hours \in Nat /\ Minute \in 0 .. 59
      /\ Minutes = 60 * Hours + Minute
  BY <1>1, Divide60 DEF Hours, Minute
<1>3. /\ Days \in Nat /\ Hour \in 0 .. 23
      /\ Hours = 24 * Days + Hour
  BY <1>2, Divide24 DEF Days, Hour
<1> QED BY <1>1, <1>2, <1>3

-----------------------------------------------------------------------------
(* The loops.                                                               *)

LEMMA InitLoop == ASSUME Init PROVE TypeOK /\ LoopInv
<1>1. secs \in Nat /\ Days \in Nat
  BY InputsAssumption, TimeOfDay DEF Init
<1>2. DaysBeforeYear(1970) = 0
  BY DEF DaysBeforeYear, LeapsBefore
<1> QED
  BY <1>1, <1>2 DEF Init, TypeOK, LoopInv

LEMMA StepLoop ==
  ASSUME TypeOK, LoopInv, [Next]_vars PROVE TypeOK' /\ LoopInv'
<1> USE DEF TypeOK
<1>1. Days \in Nat /\ DaysBeforeYear(year) \in Int /\ DaysInYear(year) \in Nat
  BY YearEnds, TimeOfDay DEF DaysBeforeYear, LeapsBefore
<1>2. CASE NextYear
  <2>1. DaysBeforeYear(year') = DaysBeforeYear(year) + DaysInYear(year)
    BY <1>2, YearStep DEF NextYear, LoopInv
  <2> QED
    BY <1>1, <1>2, <2>1 DEF NextYear, LoopInv, Days, Hours, Minutes
<1>3. CASE YearFound
  BY <1>1, <1>3, YearEnds DEF YearFound, LoopInv, Days, Hours, Minutes
<1>4. CASE NextMonth
  <2>1. month \in 1 .. 12 /\ month' = month + 1
    BY <1>4 DEF NextMonth
  <2>2. DaysBeforeMonth(year, month + 1) =
          DaysBeforeMonth(year, month) + DaysInMonth(year, month)
    BY <2>1, MonthStep
  <2>3. /\ DaysBeforeMonth(year, month) \in Nat
        /\ DaysInMonth(year, month) \in Nat
    BY <2>1, MonthTypes
  <2> QED
    BY <1>4, <2>1, <2>2, <2>3 DEF NextMonth, LoopInv, Days, Hours, Minutes
<1>5. CASE MonthFound
  <2>1. month # 13
    BY <1>1, <1>5, YearEnds DEF MonthFound, LoopInv
  <2> QED
    BY <1>5, <2>1 DEF MonthFound, LoopInv, Days, Hours, Minutes
<1>6. CASE UNCHANGED vars
  BY <1>6 DEF vars, LoopInv, Days, Hours, Minutes
<1> QED
  BY <1>2, <1>3, <1>4, <1>5, <1>6 DEF Next

\* Types and loop invariant, for every clock reading.
THEOREM LoopCorrect == Spec => [](TypeOK /\ LoopInv)
<1>1. Init => TypeOK /\ LoopInv
  BY InitLoop
<1>2. TypeOK /\ LoopInv /\ [Next]_vars => TypeOK' /\ LoopInv'
  BY StepLoop
<1> QED BY <1>1, <1>2, PTL DEF Spec

\* The counters of the two loops never leave their types, for every clock
\* reading: no subtraction of a year's or a month's days goes below zero.
THEOREM TypeCorrect == Spec => []TypeOK
<1> QED BY LoopCorrect, PTL

\* For every clock reading, not just those within TLC's integers, the result
\* is a date and a time of day, and they are the ones of that reading.
THEOREM ConversionIsCorrect == Spec => []Correct
<1>1. TypeOK /\ LoopInv => Correct
  <2> SUFFICES ASSUME TypeOK, LoopInv, pc = "done"
               PROVE  /\ month \in 1 .. 12
                      /\ Day \in 1 .. DaysInMonth(year, month)
                      /\ Hour \in 0 .. 23 /\ Minute \in 0 .. 59
                      /\ Second \in 0 .. 59
                      /\ EpochSeconds(year, month, Day, Hour, Minute, Second)
                           = secs
    BY DEF Correct
  <2>1. month \in 1 .. 12
    BY DEF TypeOK, LoopInv
  <2>2. Day \in 1 .. DaysInMonth(year, month)
    <3>1. DaysInMonth(year, month) \in Nat
      BY <2>1, MonthTypes DEF TypeOK
    <3> QED BY <3>1 DEF TypeOK, LoopInv, Day
  <2>3. Hour \in 0 .. 23 /\ Minute \in 0 .. 59 /\ Second \in 0 .. 59
    BY TimeOfDay DEF TypeOK
  <2>4. DaysBeforeYear(year) + DaysBeforeMonth(year, month) + Day - 1 = Days
    <3>1. DaysBeforeYear(year) \in Int /\ DaysBeforeMonth(year, month) \in Nat
      <4>1. LeapsBefore(year) \in Int /\ LeapsBefore(1970) \in Int
        BY DEF TypeOK, LeapsBefore
      <4>2. DaysBeforeYear(year) \in Int
        BY <4>1 DEF TypeOK, DaysBeforeYear
      <4> QED BY <2>1, <4>2, MonthTypes DEF TypeOK
    <3> QED
      BY <3>1 DEF TypeOK, LoopInv, Day
  <2>5. EpochSeconds(year, month, Day, Hour, Minute, Second) = secs
    <3>1. EpochSeconds(year, month, Day, Hour, Minute, Second) =
            ((Days * 24 + Hour) * 60 + Minute) * 60 + Second
      BY <2>4 DEF EpochSeconds
    <3>2. ((Days * 24 + Hour) * 60 + Minute) * 60 + Second = secs
      BY TimeOfDay DEF TypeOK
    <3> QED BY <3>1, <3>2, Zenon
  <2> QED BY <2>1, <2>2, <2>3, <2>5
<1> QED BY <1>1, LoopCorrect, PTL
=============================================================================
