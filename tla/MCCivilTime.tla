---------------------------- MODULE MCCivilTime ----------------------------
(* Inputs for CivilTime: the first and the last second of every day of      *)
(* common years, leap years and a leap century. TLC's integers end in 2038; *)
(* the theorems of CivilTimeProofs have no such end.                        *)
EXTENDS CivilTime

FirstDays == {DaysBeforeYear(y) : y \in {1970, 1972, 1999, 2000, 2024, 2036}}
SomeDays  == UNION {d - 2 .. d + 366 : d \in FirstDays} \cap Nat
SomeSeconds ==
    {d * 86400 : d \in SomeDays} \cup {d * 86400 + 86399 : d \in SomeDays}
=============================================================================
