---------------------------- MODULE CostGovernor ----------------------------
(* The cost-governor plugin (src/cost-governor/src/lib.rs). Before a query  *)
(* runs, pre_query reads the tenant's usage and budget and lets the query   *)
(* in or blocks it; after it ran, post_query reads the usage again and      *)
(* writes it back with the query's cost added. Queries of several           *)
(* connections are in flight at a time, so a decision rests on a usage that *)
(* the queries still running will add to; and when the host runs hooks in   *)
(* more than one instance, two read-modify-writes of one usage may overlap. *)
EXTENDS Naturals, FiniteSets

CONSTANTS Conns,         \* connections, one query at a time on each
          Tenants,       \* tenant ids
          NoTenant,      \* a query context without a tenant_id
          Outcomes,      \* what queries report: response_bytes, elapsed_us
          MaxCost,       \* no reported outcome costs more than this
          Budgets,       \* the budgets an operator may have seeded
          Waits,         \* how long a tenant may pause, in seconds
          MaxInstances,  \* bound on the instances that run hooks at a time
          MaxQueries,    \* bound on the queries of a behaviour
          MaxFailures    \* bound on the host imports that fail

Windows == {"minute", "hour", "day"}

\* In millionths: ALPHA_PER_ROW is 1 and BETA_PER_MS 1000. The row count is
\* estimated at 64 bytes a row; both divisions drop the remainder.
EstimateCost(o) ==
    (o.response_bytes \div 64) + (o.elapsed_us \div 1000) * 1000

ASSUME SetsAssumption ==
    /\ IsFiniteSet(Conns)
    /\ NoTenant \notin Tenants
    /\ \A b \in Budgets : b \in [Windows -> Nat]
    /\ \A w \in Waits : w \in Nat
ASSUME OutcomesAssumption ==
    /\ MaxCost \in Nat
    /\ \A o \in Outcomes : /\ o.response_bytes \in Nat
                           /\ o.elapsed_us \in Nat
                           /\ EstimateCost(o) <= MaxCost
ASSUME BoundsAssumption ==
    MaxInstances \in Nat \ {0} /\ MaxQueries \in Nat /\ MaxFailures \in Nat

VARIABLES instances,  \* how many instances the host runs; never changes
          budget,     \* the key tenant:<t>:budget, Absent or a budget; ditto
          usage,      \* the key tenant:<t>:usage, Absent or a usage
          pc,         \* pc[q]: where the query on connection q is
          tenant,     \* tenant[q]: the tenant of that query
          seen,       \* seen[q]: the usage its hook has read
          cost,       \* cost[q]: the cost its post_query has computed
          verdict,    \* verdict[q]: what its pre_query decided
          charged,    \* charged[t]: cost of all reported queries (history)
          since,      \* since[t]: seconds since the last charge (history)
          started,    \* number of queries so far
          failed      \* number of host imports that failed so far

config  == <<instances, budget>>
history == <<charged, since>>
vars == <<instances, budget, usage, pc, tenant, seen, cost, verdict,
          charged, since, started, failed>>

-----------------------------------------------------------------------------
Absent == <<>>
Some(v) == <<v>>
ValueOr(option, default) == IF option = Absent THEN default ELSE option[1]

ZeroUsage == [w \in Windows |-> 0]

\* Bug: a budget used up exactly still lets queries in.
ExhaustedAbove(u, b, w) == b[w] > 0 /\ u[w] > b[w]

\* A budget of 0 does not limit its window.
Exhausted(u, b, w) == b[w] > 0 /\ u[w] >= b[w]

\* Bug: the hour is not looked at.
CheckBudgetNoHour(u, b) ==
    IF Exhausted(u, b, "day") THEN "day"
    ELSE IF Exhausted(u, b, "minute") THEN "minute"
    ELSE "allow"

\* The first exhausted window, longest first, or "allow".
CheckBudget(u, b) ==
    IF Exhausted(u, b, "day") THEN "day"
    ELSE IF Exhausted(u, b, "hour") THEN "hour"
    ELSE IF Exhausted(u, b, "minute") THEN "minute"
    ELSE "allow"

\* The seconds after which a blocked tenant is told to try again.
RetryAfter == [minute |-> 60, hour |-> 3600, day |-> 86400]

-----------------------------------------------------------------------------
InHook == {"pre_budget", "post_write"}   \* inside a hook, between host calls
Hooked == {q \in Conns : pc[q] \in InHook}

\* Let in and not yet accounted for.
Admitted(t) == {q \in Conns : tenant[q] = t /\ pc[q] \in {"running", "post_write"}}

Init ==
    /\ instances \in 1 .. MaxInstances
    /\ budget \in [Tenants -> {Absent} \cup {Some(b) : b \in Budgets}]
    /\ usage = [t \in Tenants |-> Absent]
    /\ pc = [q \in Conns |-> "idle"]
    /\ tenant = [q \in Conns |-> NoTenant]
    /\ seen = [q \in Conns |-> ZeroUsage]
    /\ cost = [q \in Conns |-> 0]
    /\ verdict = [q \in Conns |-> "none"]
    /\ charged = [t \in Tenants |-> 0]
    /\ since = [t \in Tenants |-> 0]
    /\ started = 0
    /\ failed = 0

InstanceFree == Cardinality(Hooked) < instances

Goto(q, from, to) == pc[q] = from /\ pc' = [pc EXCEPT ![q] = to]

HostOk    == UNCHANGED failed
HostFails == failed < MaxFailures /\ failed' = failed + 1

\* Bug: the stored value is used without decoding it.
ReadUsageRaw(q, t) == HostOk /\ seen' = [seen EXCEPT ![q] = usage[t]]

\* kv_read of a usage: an absent key and a failed read both give zero.
ReadUsage(q, t) ==
    \/ HostOk    /\ seen' = [seen EXCEPT ![q] = ValueOr(usage[t], ZeroUsage)]
    \/ HostFails /\ seen' = [seen EXCEPT ![q] = ZeroUsage]

\* A query arrives on q and its pre_query runs to its next host call.
Arrive(q, t, to) ==
    /\ InstanceFree
    /\ started < MaxQueries
    /\ Goto(q, "idle", to)
    /\ started' = started + 1
    /\ tenant' = [tenant EXCEPT ![q] = t]
    /\ UNCHANGED <<config, usage, cost, history>>

\* A context that does not parse is blocked.
PreQueryInvalid(q) ==
    /\ Arrive(q, NoTenant, "idle")
    /\ verdict' = [verdict EXCEPT ![q] = "invalid"]
    /\ UNCHANGED <<seen, failed>>

\* Without a tenant there is nothing to read: the query goes ahead.
PreQueryNoTenant(q) ==
    /\ Arrive(q, NoTenant, "running")
    /\ verdict' = [verdict EXCEPT ![q] = "allow"]
    /\ UNCHANGED <<seen, failed>>

\* decide_pre_query, up to the read of the usage ...
PreQuery(q) ==
    \E t \in Tenants :
        /\ Arrive(q, t, "pre_budget")
        /\ ReadUsage(q, t)
        /\ UNCHANGED verdict

\* ... and from the read of the budget: without one the query goes ahead.
PreQueryDecide(q) ==
    LET b == budget[tenant[q]]
        Answer(v) ==
            /\ Goto(q, "pre_budget", IF v = "allow" THEN "running" ELSE "idle")
            /\ verdict' = [verdict EXCEPT ![q] = v]
    IN  /\ \/ /\ HostOk
              /\ Answer(IF b = Absent THEN "allow" ELSE CheckBudget(seen[q], b[1]))
           \/ HostFails /\ Answer("allow")
        /\ UNCHANGED <<config, usage, tenant, seen, cost, history, started>>

\* The query has run. A report that does not parse, and one of a query
\* without a tenant, charge nobody.
PostQueryUncharged(q) ==
    /\ InstanceFree
    /\ Goto(q, "running", "idle")
    /\ UNCHANGED <<config, usage, tenant, seen, cost, verdict, history,
                   started, failed>>

\* Bug: the cost is added to the usage pre_query had read.
PostQueryFromSnapshot(q) ==
    \E o \in Outcomes :
        /\ InstanceFree
        /\ tenant[q] \in Tenants
        /\ Goto(q, "running", "post_write")
        /\ cost' = [cost EXCEPT ![q] = EstimateCost(o)]
        /\ UNCHANGED <<config, usage, tenant, seen, verdict, history,
                       started, failed>>

\* observe_post_query, up to the read of the usage ...
PostQuery(q) ==
    \E o \in Outcomes :
        /\ InstanceFree
        /\ tenant[q] \in Tenants
        /\ Goto(q, "running", "post_write")
        /\ ReadUsage(q, tenant[q])
        /\ cost' = [cost EXCEPT ![q] = EstimateCost(o)]
        /\ UNCHANGED <<config, usage, tenant, verdict, history, started>>

\* Bug: the minute is incremented twice and the hour not at all.
PostQueryWriteTwice(q) ==
    LET t == tenant[q]
    IN  /\ Goto(q, "post_write", "idle")
        /\ HostOk
        /\ usage' = [usage EXCEPT ![t] =
                        Some([minute |-> seen[q].minute + 2 * cost[q],
                              hour   |-> seen[q].hour,
                              day    |-> seen[q].day + cost[q]])]
        /\ charged' = [charged EXCEPT ![t] = @ + cost[q]]
        /\ since' = [since EXCEPT ![t] = 0]
        /\ UNCHANGED <<config, tenant, seen, cost, verdict, started>>

\* ... and the write: the cost is added to all three windows, and kv_write
\* drops the host's status.
PostQueryWrite(q) ==
    LET t == tenant[q]
    IN  /\ Goto(q, "post_write", "idle")
        /\ \/ /\ HostOk
              /\ usage' = [usage EXCEPT ![t] =
                              Some([w \in Windows |-> seen[q][w] + cost[q]])]
           \/ HostFails /\ UNCHANGED usage
        /\ charged' = [charged EXCEPT ![t] = @ + cost[q]]
        /\ since' = [since EXCEPT ![t] = 0]
        /\ UNCHANGED <<config, tenant, seen, cost, verdict, started>>

\* Time passes without a charge to tenant t.
Wait(t) ==
    /\ Admitted(t) = {}
    /\ \E s \in Waits : s > since[t] /\ since' = [since EXCEPT ![t] = s]
    /\ UNCHANGED <<config, usage, pc, tenant, seen, cost, verdict, charged,
                   started, failed>>

Next ==
    \/ \E q \in Conns :
        \/ PreQueryInvalid(q)
        \/ PreQueryNoTenant(q)
        \/ PreQuery(q)
        \/ PreQueryDecide(q)
        \/ PostQueryUncharged(q)
        \/ PostQuery(q)
        \/ PostQueryWrite(q)
    \/ \E t \in Tenants : Wait(t)

Spec == Init /\ [][Next]_vars

-----------------------------------------------------------------------------
(* Properties.                                                              *)

IsUsage(u) == u \in [Windows -> Nat]

\* Types of the variables.
TypeOK ==
    /\ instances \in 1 .. MaxInstances
    /\ budget \in [Tenants -> {Absent} \cup {Some(b) : b \in Budgets}]
    /\ DOMAIN usage = Tenants
    /\ \A t \in Tenants :
          usage[t] # Absent => usage[t] = Some(usage[t][1]) /\ IsUsage(usage[t][1])
    /\ pc \in [Conns -> InHook \cup {"idle", "running"}]
    /\ tenant \in [Conns -> Tenants \cup {NoTenant}]
    /\ \A q \in Conns : pc[q] \in InHook => tenant[q] \in Tenants
    /\ seen \in [Conns -> [Windows -> Nat]]
    /\ cost \in [Conns -> 0 .. MaxCost]
    /\ verdict \in [Conns -> Windows \cup {"none", "allow", "invalid"}]
    /\ charged \in [Tenants -> Nat]
    /\ since \in [Tenants -> Waits \cup {0}]
    /\ started \in 0 .. MaxQueries
    /\ failed \in 0 .. MaxFailures

NoFault == failed = 0
Serial  == instances = 1
Usage(t) == ValueOr(usage[t], ZeroUsage)

OneHook == \A p, q \in Hooked : p = q

\* The stored usage is the whole charge, and so is what a hook has read.
UsageCurrent ==
    /\ \A t \in Tenants, w \in Windows : Usage(t)[w] = charged[t]
    /\ \A q \in Hooked, w \in Windows : seen[q][w] = charged[tenant[q]]

\* Charging every query let in, at the highest cost, keeps to the bound.
Covered ==
    \A t \in Tenants, w \in Windows :
        budget[t] # Absent /\ budget[t][1][w] > 0 =>
            charged[t] + MaxCost * Cardinality(Admitted(t)) <
                budget[t][1][w] + MaxCost * Cardinality(Conns)

\* What makes the properties below inductive when hooks do not overlap: the
\* usage a hook has read is still the stored one, and the queries let in can
\* still be paid for.
SerialInv == Serial => OneHook /\ (NoFault => UsageCurrent /\ Covered)

\* Whatever overlaps and whatever fails, a tenant is never charged for more
\* than its queries cost: the stored usage is at most what was reported, and
\* so is the sum a hook in flight is about to store.
NeverOvercharged ==
    \A t \in Tenants, w \in Windows :
        /\ Usage(t)[w] <= charged[t]
        /\ \A q \in Hooked : tenant[q] = t => seen[q][w] <= charged[t]

\* With one instance and no fault every reported query is paid for: each
\* window holds the cost of all of them - also the minute and the hour.
NoLostCharge ==
    Serial /\ NoFault =>
        \A t \in Tenants, w \in Windows : Usage(t)[w] = charged[t]

\* With one instance and no fault a tenant overruns a budget by less than
\* one maximal query per connection: the queries let in before the one that
\* exhausts the budget still run to their end.
OvershootBounded ==
    Serial /\ NoFault =>
        \A t \in Tenants, w \in Windows :
            budget[t] # Absent /\ budget[t][1][w] > 0 =>
                charged[t] < budget[t][1][w] + MaxCost * Cardinality(Conns)

\* Each fault gives away at most one more budget's worth of queries.
OvershootPerFault ==
    Serial =>
        \A t \in Tenants, w \in Windows :
            budget[t] # Absent /\ budget[t][1][w] > 0 =>
                charged[t] < (1 + failed) *
                             (budget[t][1][w] + MaxCost * Cardinality(Conns))

\* A query is blocked only for as long as the answer says: a tenant that has
\* been charged nothing for the seconds of its last answer is let in again.
RetryAfterHonoured ==
    [][\A q \in Conns :
          PreQueryDecide(q) /\ verdict'[q] \in Windows =>
              since[tenant[q]] < RetryAfter[verdict'[q]]]_vars
=============================================================================
