----------------------------- MODULE TokenBudget ----------------------------
(* The token-budget plugin (src/token-budget/src/lib.rs): the hooks of the  *)
(* cost-governor with two windows instead of three, kept per agent and      *)
(* model instead of per tenant. The pair is taken from the attributes       *)
(* agent_id and model_id of the query; an id is modelled as the list of its *)
(* parts between colons, since a key joins the two ids with a colon. Costs  *)
(* are counted in 4000ths, one per byte of a response.                      *)
EXTENDS Naturals, Sequences, FiniteSets

CONSTANTS Conns,         \* connections, one query at a time on each
          Agents,        \* agent ids
          ModelIds,      \* model ids
          Reports,       \* the response_bytes that queries report
          MaxCost,       \* no report is larger
          Budgets,       \* the budgets an operator may have seeded
          MaxInstances,  \* bound on the instances that run hooks at a time
          MaxQueries,    \* bound on the queries of a behaviour
          MaxFailures    \* bound on the host imports that fail

Windows == {"minute", "day"}
Id      == Seq(STRING) \ {<<>>}

ASSUME IdsAssumption ==
    /\ IsFiniteSet(Conns)
    /\ \A a \in Agents : a \in Id
    /\ \A m \in ModelIds : m \in Id
ASSUME CostsAssumption ==
    /\ MaxCost \in Nat /\ \A r \in Reports : r \in 0 .. MaxCost
    /\ \A b \in Budgets : b \in [Windows -> Nat]
ASSUME BoundsAssumption ==
    MaxInstances \in Nat \ {0} /\ MaxQueries \in Nat /\ MaxFailures \in Nat

VARIABLES instances,  \* how many instances the host runs; never changes
          budget,     \* the key agent:<id>:<model>:budget; ditto
          spend,      \* the key agent:<id>:<model>:spend, Absent or a spend
          pc,         \* pc[q]: where the query on connection q is
          attrs,      \* attrs[q]: the two attributes of that query
          key,        \* key[q]: the key its hooks use, NoKey without a pair
          seen,       \* seen[q]: the spend its hook has read
          cost,       \* cost[q]: the cost its post_query has computed
          verdict,    \* verdict[q]: what its pre_query decided
          charged,    \* charged[k]: cost of what was reported (history)
          due,        \* due[p]: the same for each pair (history)
          started,    \* number of queries so far
          failed      \* number of host imports that failed so far

config  == <<instances, budget>>
history == <<charged, due>>
vars == <<instances, budget, spend, pc, attrs, key, seen, cost, verdict,
          charged, due, started, failed>>

-----------------------------------------------------------------------------
Absent == <<>>
Some(v) == <<v>>
ValueOr(option, default) == IF option = Absent THEN default ELSE option[1]

ZeroSpend  == [w \in Windows |-> 0]
Pairs      == Agents \X ModelIds
Attributes == [parses : BOOLEAN,    \* whether the context is one at all
               agent  : {Absent} \cup {Some(a) : a \in Agents},
               model  : {Absent} \cup {Some(m) : m \in ModelIds}]
NoAttributes == [parses |-> TRUE, agent |-> Absent, model |-> Absent]
NoKey      == <<>>

\* Bug: the key names the agent only.
KeyOfAgent(a, m) == a

\* key_spend, key_budget: the parts of both ids, one after the other.
Key(a, m) == a \o m

Keys == {Key(a, m) : a \in Agents, m \in ModelIds}

Tagged(t) == t.parses /\ t.agent # Absent /\ t.model # Absent

\* agent_key: a pair only when both attributes are there.
AgentKey(t) == IF Tagged(t) THEN Key(t.agent[1], t.model[1]) ELSE NoKey

\* estimate_token_cost, in 4000ths: bytes / 4 tokens of 1e-3 each.
EstimateTokenCost(bytes) == bytes

Exhausted(s, b, w) == b[w] > 0 /\ s[w] >= b[w]

\* The first exhausted window, the day first, or "allow".
Check(s, b) ==
    IF Exhausted(s, b, "day") THEN "day"
    ELSE IF Exhausted(s, b, "minute") THEN "minute"
    ELSE "allow"

-----------------------------------------------------------------------------
InHook == {"pre_budget", "post_write"}   \* inside a hook, between host calls
Hooked == {q \in Conns : pc[q] \in InHook}

Init ==
    /\ instances \in 1 .. MaxInstances
    /\ budget \in [Keys -> {Absent} \cup {Some(b) : b \in Budgets}]
    /\ spend = [k \in Keys |-> Absent]
    /\ pc = [q \in Conns |-> "idle"]
    /\ attrs = [q \in Conns |-> NoAttributes]
    /\ key = [q \in Conns |-> NoKey]
    /\ seen = [q \in Conns |-> ZeroSpend]
    /\ cost = [q \in Conns |-> 0]
    /\ verdict = [q \in Conns |-> "none"]
    /\ charged = [k \in Keys |-> 0]
    /\ due = [p \in Pairs |-> 0]
    /\ started = 0
    /\ failed = 0

InstanceFree == Cardinality(Hooked) < instances

Goto(q, from, to) == pc[q] = from /\ pc' = [pc EXCEPT ![q] = to]

HostOk    == UNCHANGED failed
HostFails == failed < MaxFailures /\ failed' = failed + 1

\* kv_read of a spend: an absent key and a failed read both give zero.
ReadSpend(q, k) ==
    \/ HostOk    /\ seen' = [seen EXCEPT ![q] = ValueOr(spend[k], ZeroSpend)]
    \/ HostFails /\ seen' = [seen EXCEPT ![q] = ZeroSpend]

\* A query with attributes t comes to the plugin on connection q.
Submit(q, t) ==
    /\ Goto(q, "idle", "arrived")
    /\ attrs' = [attrs EXCEPT ![q] = t]
    /\ UNCHANGED <<config, spend, key, seen, cost, verdict, history,
                   started, failed>>

\* Its pre_query runs to the next host call.
Enter(q, to) ==
    /\ InstanceFree
    /\ started < MaxQueries
    /\ Goto(q, "arrived", to)
    /\ started' = started + 1
    /\ UNCHANGED <<config, spend, attrs, cost, history>>

\* A context that does not parse is answered with 0, one without a pair with
\* Continue: both queries go ahead.
PreQueryPass(q) ==
    /\ ~Tagged(attrs[q])
    /\ Enter(q, "running")
    /\ key' = [key EXCEPT ![q] = NoKey]
    /\ verdict' = [verdict EXCEPT ![q] = "allow"]
    /\ UNCHANGED <<seen, failed>>

\* decide_pre_query, up to the read of the spend ...
PreQuery(q) ==
    /\ Tagged(attrs[q])
    /\ Enter(q, "pre_budget")
    /\ key' = [key EXCEPT ![q] = AgentKey(attrs[q])]
    /\ ReadSpend(q, AgentKey(attrs[q]))
    /\ UNCHANGED verdict

\* ... and from the read of the budget: without one the query goes ahead.
PreQueryDecide(q) ==
    LET b == budget[key[q]]
        Answer(v) ==
            /\ Goto(q, "pre_budget", IF v = "allow" THEN "running" ELSE "idle")
            /\ verdict' = [verdict EXCEPT ![q] = v]
    IN  /\ \/ /\ HostOk
              /\ Answer(IF b = Absent THEN "allow" ELSE Check(seen[q], b[1]))
           \/ HostFails /\ Answer("allow")
        /\ UNCHANGED <<config, spend, attrs, key, seen, cost, history, started>>

\* The query has run. A report that does not parse, and one of a query
\* without a pair, charge nobody.
PostQueryUncharged(q) ==
    /\ InstanceFree
    /\ Goto(q, "running", "idle")
    /\ UNCHANGED <<config, spend, attrs, key, seen, cost, verdict, history,
                   started, failed>>

\* observe_post_query, up to the read of the spend ...
PostQuery(q) ==
    \E r \in Reports :
        /\ InstanceFree
        /\ key[q] # NoKey
        /\ Goto(q, "running", "post_write")
        /\ ReadSpend(q, key[q])
        /\ cost' = [cost EXCEPT ![q] = EstimateTokenCost(r)]
        /\ UNCHANGED <<config, spend, attrs, key, verdict, history, started>>

\* Bug: the day is written back as it was read.
PostQueryWriteMinute(q) ==
    LET t == attrs[q]
    IN  /\ Goto(q, "post_write", "idle")
        /\ HostOk
        /\ spend' = [spend EXCEPT ![key[q]] =
                        Some([seen[q] EXCEPT !.minute = @ + cost[q]])]
        /\ charged' = [charged EXCEPT ![key[q]] = @ + cost[q]]
        /\ due' = [due EXCEPT ![<<t.agent[1], t.model[1]>>] = @ + cost[q]]
        /\ UNCHANGED <<config, attrs, key, seen, cost, verdict, started>>

\* ... and the write: the cost is added to both windows, and kv_write drops
\* the host's status.
PostQueryWrite(q) ==
    LET t == attrs[q]
    IN  /\ Goto(q, "post_write", "idle")
        /\ \/ /\ HostOk
              /\ spend' = [spend EXCEPT ![key[q]] =
                              Some([w \in Windows |-> seen[q][w] + cost[q]])]
           \/ HostFails /\ UNCHANGED spend
        /\ charged' = [charged EXCEPT ![key[q]] = @ + cost[q]]
        /\ due' = [due EXCEPT ![<<t.agent[1], t.model[1]>>] = @ + cost[q]]
        /\ UNCHANGED <<config, attrs, key, seen, cost, verdict, started>>

Hook(q) ==
    \/ PreQueryPass(q) \/ PreQuery(q) \/ PreQueryDecide(q)
    \/ PostQueryUncharged(q) \/ PostQuery(q) \/ PostQueryWrite(q)

Next == \E q \in Conns : (\E t \in Attributes : Submit(q, t)) \/ Hook(q)

Spec == Init /\ [][Next]_vars

-----------------------------------------------------------------------------
(* Properties.                                                              *)

IsSpend(s) == s \in [Windows -> Nat]

\* Types of the variables.
TypeOK ==
    /\ instances \in 1 .. MaxInstances
    /\ budget \in [Keys -> {Absent} \cup {Some(b) : b \in Budgets}]
    /\ DOMAIN spend = Keys
    /\ \A k \in Keys :
          spend[k] # Absent => spend[k] = Some(spend[k][1]) /\ IsSpend(spend[k][1])
    /\ pc \in [Conns -> InHook \cup {"idle", "arrived", "running"}]
    /\ attrs \in [Conns -> Attributes]
    /\ key \in [Conns -> Keys \cup {NoKey}]
    /\ \A q \in Conns :
          /\ pc[q] \in InHook => key[q] # NoKey
          /\ pc[q] \in InHook \cup {"running"} /\ key[q] # NoKey =>
                Tagged(attrs[q]) /\ key[q] = AgentKey(attrs[q])
    /\ seen \in [Conns -> [Windows -> Nat]]
    /\ cost \in [Conns -> 0 .. MaxCost]
    /\ verdict \in [Conns -> Windows \cup {"none", "allow"}]
    /\ charged \in [Keys -> Nat]
    /\ due \in [Pairs -> Nat]
    /\ started \in 0 .. MaxQueries
    /\ failed \in 0 .. MaxFailures

\* A budget or a spend of two windows, as one of three: the hour of a spend
\* is that of the day, the hour of a budget has no limit.
WideSpend(s)  == [minute |-> s.minute, hour |-> s.day, day |-> s.day]
WideBudget(b) == [minute |-> b.minute, hour |-> 0, day |-> b.day]
Wide(option, Widen(_)) == IF option = Absent THEN Absent ELSE Some(Widen(option[1]))

\* A query the plugin has not seen yet is none to the cost-governor.
Seen(stage) == IF stage = "arrived" THEN "idle" ELSE stage

Governor == INSTANCE CostGovernor WITH
    Tenants  <- Keys,
    NoTenant <- NoKey,
    Outcomes <- {[response_bytes |-> 64 * r, elapsed_us |-> 0] : r \in Reports},
    Budgets  <- {WideBudget(b) : b \in Budgets},
    Waits    <- {},
    budget   <- [k \in Keys |-> Wide(budget[k], WideBudget)],
    usage    <- [k \in Keys |-> Wide(spend[k], WideSpend)],
    pc       <- [q \in Conns |-> Seen(pc[q])],
    tenant   <- key,
    seen     <- [q \in Conns |-> WideSpend(seen[q])],
    since    <- [k \in Keys |-> 0]

\* The plugin is a cost-governor with a key for a tenant: no charge is lost,
\* none counted twice, and a budget overrun by no more than what is in
\* flight, for the same reasons and under the same conditions.
ImplementsCostGovernor == Governor!Spec

Serial  == instances = 1
NoFault == failed = 0
PlainId(id) == Len(id) = 1

\* Ids with colons may share a key with other ids; the pair of two ids
\* without one is charged for its own queries alone, whatever ids others
\* use: with one instance and no fault, exactly what those cost.
PlainPairsPayTheirOwn ==
    Serial /\ NoFault =>
        \A p \in Pairs : PlainId(p[1]) /\ PlainId(p[2]) =>
            \A w \in Windows :
                ValueOr(spend[Key(p[1], p[2])], ZeroSpend)[w] = due[p]
=============================================================================
