--------------------------- MODULE MCCostGovernor ---------------------------
(* Instances of CostGovernor for TLC. Costs are in millionths: the cheap    *)
(* outcome costs 1 (its 900 microseconds are dropped), the slow one 1000    *)
(* (500 of its microseconds are dropped, and its bytes make no row).        *)
EXTENDS CostGovernor

CONSTANTS q1, q2, t1

Cheap == [response_bytes |-> 100, elapsed_us |-> 900]
Slow  == [response_bytes |-> 63, elapsed_us |-> 1500]

TwoConns   == {q1, q2}
OneTenant  == {t1}
BothOutcomes == {Cheap, Slow}

\* A tight day budget under an open minute, and a tight minute budget.
Limits(minute, hour, day) ==
    [w \in Windows |-> CASE w = "minute" -> minute
                         [] w = "hour"   -> hour
                         [] w = "day"    -> day]
SomeBudgets == {Limits(1, 0, 1001), Limits(0, 1000, 0)}
=============================================================================
