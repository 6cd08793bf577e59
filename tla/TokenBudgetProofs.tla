------------------------- MODULE TokenBudgetProofs --------------------------
(* Proofs about TokenBudget: its types, that it implements the              *)
(* cost-governor with keys for tenants, and that a pair of ids without a    *)
(* colon pays for its own queries alone.                                    *)
EXTENDS TokenBudget, FiniteSetTheorems, SequenceTheorems, TLAPS

-----------------------------------------------------------------------------
(* Keys.                                                                    *)

LEMMA IdTypes ==
  /\ \A a \in Agents : a \in Seq(STRING) /\ Len(a) \in Nat \ {0}
  /\ \A m \in ModelIds : m \in Seq(STRING) /\ Len(m) \in Nat \ {0}
<1>1. \A i \in Id : i \in Seq(STRING) /\ Len(i) \in Nat \ {0}
  BY EmptySeq, LenProperties DEF Id
<1> QED BY <1>1, IdsAssumption

LEMMA KeyProperties ==
  ASSUME NEW a \in Agents, NEW m \in ModelIds
  PROVE  /\ Key(a, m) \in Keys
         /\ Key(a, m) \in Seq(STRING)
         /\ Len(Key(a, m)) = Len(a) + Len(m)
         /\ \A i \in 1 .. Len(a) : Key(a, m)[i] = a[i]
         /\ \A i \in 1 .. Len(m) : Key(a, m)[Len(a) + i] = m[i]
<1>1. /\ a \in Seq(STRING) /\ m \in Seq(STRING)
      /\ Len(a) \in Nat \ {0} /\ Len(m) \in Nat \ {0}
  BY IdTypes
<1>2. a \o m \in Seq(STRING) /\ Len(a \o m) = Len(a) + Len(m)
  BY <1>1, ConcatProperties
<1>3. \A i \in 1 .. Len(a) + Len(m) :
         (a \o m)[i] = IF i <= Len(a) THEN a[i] ELSE m[i - Len(a)]
  BY <1>1, ConcatProperties
<1>4. \A i \in 1 .. Len(a) : (a \o m)[i] = a[i]
  BY <1>1, <1>3
<1>5. \A i \in 1 .. Len(m) : (a \o m)[Len(a) + i] = m[i]
  BY <1>1, <1>3
<1>6. Key(a, m) = a \o m /\ Key(a, m) \in Keys
  BY DEF Key, Keys
<1> QED BY <1>2, <1>4, <1>5, <1>6

LEMMA NoKeyIsNone == NoKey \notin Keys
<1> SUFFICES ASSUME NEW a \in Agents, NEW m \in ModelIds, NoKey = Key(a, m)
             PROVE  FALSE
  BY DEF Keys
<1>1. Len(Key(a, m)) # 0
  BY KeyProperties, IdTypes
<1> QED BY <1>1 DEF NoKey

\* The key of a pair of plain ids is no other pair's.
LEMMA PlainKeyIsOwn ==
  ASSUME NEW a \in Agents, NEW m \in ModelIds, NEW b \in Agents, NEW n \in ModelIds,
         PlainId(a), PlainId(m), Key(a, m) = Key(b, n)
  PROVE  a = b /\ m = n
<1>1. /\ a \in Seq(STRING) /\ m \in Seq(STRING) /\ b \in Seq(STRING) /\ n \in Seq(STRING)
      /\ Len(b) \in Nat \ {0} /\ Len(n) \in Nat \ {0}
      /\ Len(a) = 1 /\ Len(m) = 1
  BY IdTypes DEF PlainId
<1>2. Len(a) + Len(m) = Len(b) + Len(n)
  BY KeyProperties
<1>3. Len(b) = 1 /\ Len(n) = 1
  BY <1>1, <1>2
<1>4. Key(a, m)[1] = a[1] /\ Key(a, m)[2] = m[1]
  <2>1. 1 \in 1 .. Len(a) /\ 1 \in 1 .. Len(m) /\ Len(a) + 1 = 2
    BY <1>1
  <2>2. Key(a, m)[1] = a[1] /\ Key(a, m)[Len(a) + 1] = m[1]
    BY <2>1, KeyProperties
  <2> QED BY <2>1, <2>2
<1>5. Key(b, n)[1] = b[1] /\ Key(b, n)[2] = n[1]
  <2>1. 1 \in 1 .. Len(b) /\ 1 \in 1 .. Len(n) /\ Len(b) + 1 = 2
    BY <1>3
  <2>2. Key(b, n)[1] = b[1] /\ Key(b, n)[Len(b) + 1] = n[1]
    BY <2>1, KeyProperties
  <2> QED BY <2>1, <2>2
<1>6. a[1] = b[1] /\ m[1] = n[1]
  BY <1>4, <1>5
<1>7. a = b
  BY <1>1, <1>3, <1>6, SeqEqual
<1>8. m = n
  BY <1>1, <1>3, <1>6, SeqEqual
<1> QED BY <1>7, <1>8

LEMMA TaggedTypes ==
  ASSUME NEW t \in Attributes, Tagged(t)
  PROVE  /\ AgentKey(t) \in Keys
         /\ <<t.agent[1], t.model[1]>> \in Pairs
         /\ AgentKey(t) = Key(t.agent[1], t.model[1])
<1>1. t.agent[1] \in Agents /\ t.model[1] \in ModelIds
  BY DEF Attributes, Tagged, Some, Absent
<1> QED BY <1>1, KeyProperties DEF AgentKey, Pairs

-----------------------------------------------------------------------------
(* Types.                                                                   *)

LEMMA SpendType ==
  ASSUME TypeOK, NEW k \in Keys
  PROVE  ValueOr(spend[k], ZeroSpend) \in [Windows -> Nat]
BY DEF TypeOK, ValueOr, ZeroSpend, IsSpend

\* What a hook reads is the stored spend, or nothing when the read fails.
LEMMA ReadSpendStep ==
  ASSUME TypeOK, NEW q \in Conns, NEW k \in Keys, ReadSpend(q, k)
  PROVE  /\ seen' \in [Conns -> [Windows -> Nat]]
         /\ \A p \in Conns : p # q => seen'[p] = seen[p]
         /\ failed' \in 0 .. MaxFailures
         /\ failed' = 0 => failed = 0 /\ seen'[q] = ValueOr(spend[k], ZeroSpend)
<1>1. ValueOr(spend[k], ZeroSpend) \in [Windows -> Nat] /\ ZeroSpend \in [Windows -> Nat]
  BY SpendType DEF ZeroSpend
<1>2. failed \in 0 .. MaxFailures /\ failed' \in 0 .. MaxFailures
  BY BoundsAssumption DEF ReadSpend, HostOk, HostFails, TypeOK
<1>3. PICK u \in [Windows -> Nat] :
         /\ seen' = [seen EXCEPT ![q] = u]
         /\ failed' = 0 => failed = 0 /\ u = ValueOr(spend[k], ZeroSpend)
  BY <1>1, <1>2 DEF ReadSpend, HostOk, HostFails
<1>4. seen \in [Conns -> [Windows -> Nat]]
  BY DEF TypeOK
<1> QED
  BY <1>2, <1>3, <1>4

LEMMA EnterStep ==
  ASSUME TypeOK, NEW q \in Conns, NEW to \in {"running", "pre_budget"}, Enter(q, to)
  PROVE  /\ pc' = [pc EXCEPT ![q] = to]
         /\ started' \in 0 .. MaxQueries
         /\ UNCHANGED <<instances, budget, spend, attrs, cost, charged, due>>
BY BoundsAssumption DEF Enter, Goto, config, history, TypeOK

LEMMA TypeInit == ASSUME Init PROVE TypeOK
BY CostsAssumption, BoundsAssumption, NoKeyIsNone
   DEF Init, TypeOK, ZeroSpend, InHook, Absent, NoAttributes, Attributes

LEMMA TypeStep == ASSUME TypeOK, [Next]_vars PROVE TypeOK'
<1> USE BoundsAssumption DEF Goto, HostOk, HostFails, config, history, InHook
<1>1. ASSUME NEW q \in Conns, NEW t \in Attributes, Submit(q, t) PROVE TypeOK'
  BY <1>1 DEF Submit, TypeOK
<1>2. ASSUME NEW q \in Conns, PreQueryPass(q) PROVE TypeOK'
  BY <1>2, EnterStep DEF PreQueryPass, TypeOK
<1>3. ASSUME NEW q \in Conns, PreQuery(q) PROVE TypeOK'
  <2>1. /\ Tagged(attrs[q]) /\ attrs[q] \in Attributes
        /\ AgentKey(attrs[q]) \in Keys
        /\ Enter(q, "pre_budget") /\ ReadSpend(q, AgentKey(attrs[q]))
        /\ key' = [key EXCEPT ![q] = AgentKey(attrs[q])] /\ verdict' = verdict
    BY <1>3, TaggedTypes DEF PreQuery, TypeOK
  <2>2. seen' \in [Conns -> [Windows -> Nat]] /\ failed' \in 0 .. MaxFailures
    BY <2>1, ReadSpendStep
  <2>3. /\ pc' = [pc EXCEPT ![q] = "pre_budget"] /\ started' \in 0 .. MaxQueries
        /\ UNCHANGED <<instances, budget, spend, attrs, cost, charged, due>>
    BY <2>1, EnterStep
  <2>4. /\ pc' \in [Conns -> InHook \cup {"idle", "arrived", "running"}]
        /\ key' \in [Conns -> Keys \cup {NoKey}]
    BY <2>1, <2>3 DEF TypeOK
  <2>5. \A p \in Conns :
           /\ pc'[p] \in InHook => key'[p] # NoKey
           /\ pc'[p] \in InHook \cup {"running"} /\ key'[p] # NoKey =>
                 Tagged(attrs'[p]) /\ key'[p] = AgentKey(attrs'[p])
    BY <2>1, <2>3, NoKeyIsNone DEF TypeOK
  <2> QED BY <2>1, <2>2, <2>3, <2>4, <2>5 DEF TypeOK
<1>4. ASSUME NEW q \in Conns, PreQueryDecide(q) PROVE TypeOK'
  <2>1. \A s, b : Check(s, b) \in Windows \cup {"allow"}
    BY DEF Check, Windows
  <2>2. PICK v \in Windows \cup {"allow"} :
           /\ pc[q] = "pre_budget"
           /\ pc' = [pc EXCEPT ![q] = IF v = "allow" THEN "running" ELSE "idle"]
           /\ verdict' = [verdict EXCEPT ![q] = v]
           /\ failed' \in 0 .. MaxFailures
    BY <1>4, <2>1 DEF PreQueryDecide, TypeOK
  <2> QED BY <1>4, <2>2 DEF PreQueryDecide, TypeOK
<1>5. ASSUME NEW q \in Conns, PostQueryUncharged(q) PROVE TypeOK'
  BY <1>5 DEF PostQueryUncharged, TypeOK
<1>6. ASSUME NEW q \in Conns, PostQuery(q) PROVE TypeOK'
  <2>1. PICK r \in Reports :
           /\ key[q] # NoKey
           /\ Goto(q, "running", "post_write")
           /\ ReadSpend(q, key[q])
           /\ cost' = [cost EXCEPT ![q] = r]
           /\ UNCHANGED <<config, spend, attrs, key, verdict, history, started>>
    BY <1>6 DEF PostQuery, EstimateTokenCost
  <2>2. seen' \in [Conns -> [Windows -> Nat]] /\ failed' \in 0 .. MaxFailures
    BY <2>1, ReadSpendStep DEF TypeOK
  <2>3. cost' \in [Conns -> 0 .. MaxCost]
    BY <2>1, CostsAssumption DEF TypeOK
  <2> QED BY <2>1, <2>2, <2>3 DEF TypeOK
<1>7. ASSUME NEW q \in Conns, PostQueryWrite(q) PROVE TypeOK'
  <2> DEFINE sum == [w \in Windows |-> seen[q][w] + cost[q]]
             p   == <<attrs[q].agent[1], attrs[q].model[1]>>
  <2>1. /\ key[q] \in Keys /\ p \in Pairs /\ cost[q] \in Nat
        /\ pc' = [pc EXCEPT ![q] = "idle"]
    BY <1>7, TaggedTypes, CostsAssumption DEF PostQueryWrite, TypeOK
  <2>2. charged' \in [Keys -> Nat] /\ due' \in [Pairs -> Nat]
    BY <1>7, <2>1 DEF PostQueryWrite, TypeOK
  <2>3. DOMAIN spend' = Keys
    BY <1>7 DEF PostQueryWrite, TypeOK
  <2>4. \A k \in Keys : spend'[k] # Absent =>
           spend'[k] = Some(spend'[k][1]) /\ IsSpend(spend'[k][1])
    <3>1. IsSpend(sum)
      BY <2>1 DEF IsSpend, TypeOK
    <3>2. spend' = spend \/ spend' = [spend EXCEPT ![key[q]] = Some(sum)]
      BY <1>7 DEF PostQueryWrite
    <3> HIDE DEF sum
    <3> QED BY <2>1, <3>1, <3>2 DEF TypeOK, Some
  <2> QED BY <1>7, <2>1, <2>2, <2>3, <2>4 DEF PostQueryWrite, TypeOK
<1>8. CASE UNCHANGED vars
  BY <1>8 DEF vars, TypeOK
<1> QED
  BY <1>1, <1>2, <1>3, <1>4, <1>5, <1>6, <1>7, <1>8 DEF Next, Hook

\* Every reachable state has the types the module declares, whatever the ids,
\* reports, budgets, instances and faults; a hook works with the key of the
\* two attributes of its own query.
THEOREM TypeCorrect == Spec => []TypeOK
<1>1. TypeOK /\ [Next]_vars => TypeOK'
  BY TypeStep
<1> QED BY <1>1, TypeInit, PTL DEF Spec

-----------------------------------------------------------------------------
(* The refinement: each operation is the cost-governor's of the same name.  *)

\* The mapped pc and the hooks it shows.
LEMMA MappedHooks ==
  ASSUME TypeOK
  PROVE  /\ Governor!Hooked = Hooked
         /\ Governor!InstanceFree <=> InstanceFree
<1>1. \A q \in Conns : Seen(pc[q]) \in InHook <=> pc[q] \in InHook
  BY DEF Seen, InHook
<1>2. Governor!Hooked = Hooked
  BY <1>1 DEF Governor!Hooked, Hooked, Governor!InHook, InHook
<1>3. Governor!Cardinality(Hooked) = Cardinality(Hooked)
  BY DEF Governor!Cardinality, Cardinality
<1> QED BY <1>2, <1>3 DEF Governor!InstanceFree, InstanceFree

LEMMA MappedGoto ==
  ASSUME TypeOK, NEW q \in Conns, NEW from, NEW to, Goto(q, from, to)
  PROVE  Governor!Goto(q, Seen(from), Seen(to))
<1>1. pc[q] = from /\ pc' = [pc EXCEPT ![q] = to] /\ DOMAIN pc = Conns
  BY DEF Goto, TypeOK
<1>2. [c \in Conns |-> Seen(pc'[c])]
        = [[c \in Conns |-> Seen(pc[c])] EXCEPT ![q] = Seen(to)]
  BY <1>1
<1> QED BY <1>1, <1>2 DEF Governor!Goto

LEMMA MappedUsage ==
  ASSUME TypeOK, NEW k \in Keys
  PROVE  Governor!ValueOr(Wide(spend[k], WideSpend), Governor!ZeroUsage)
           = WideSpend(ValueOr(spend[k], ZeroSpend))
<1>1. WideSpend(ZeroSpend) = Governor!ZeroUsage
  <2>1. Governor!ZeroUsage = [w \in {"minute", "hour", "day"} |-> 0]
    BY DEF Governor!ZeroUsage, Governor!Windows
  <2>2. WideSpend(ZeroSpend) = [minute |-> 0, hour |-> 0, day |-> 0]
    BY DEF WideSpend, ZeroSpend, Windows
  <2> QED BY <2>1, <2>2
<1>2. CASE spend[k] = Absent
  BY <1>1, <1>2 DEF Governor!ValueOr, ValueOr, Wide, Absent, Governor!Absent
<1>3. CASE spend[k] # Absent
  BY <1>3 DEF Governor!ValueOr, ValueOr, Wide, Absent, Governor!Absent, Some
<1> QED BY <1>2, <1>3

LEMMA MappedReadSpend ==
  ASSUME TypeOK, NEW q \in Conns, NEW k \in Keys, ReadSpend(q, k)
  PROVE  Governor!ReadUsage(q, k)
<1> DEFINE old == [c \in Conns |-> WideSpend(seen[c])]
           new == [c \in Conns |-> WideSpend(seen'[c])]
<1>1. \A u : seen' = [seen EXCEPT ![q] = u]
             => new = [old EXCEPT ![q] = WideSpend(u)]
  BY DEF TypeOK
<1>2. Governor!ZeroUsage = WideSpend(ZeroSpend)
  <2>1. Governor!ZeroUsage = [w \in {"minute", "hour", "day"} |-> 0]
    BY DEF Governor!ZeroUsage, Governor!Windows
  <2>2. WideSpend(ZeroSpend) = [minute |-> 0, hour |-> 0, day |-> 0]
    BY DEF WideSpend, ZeroSpend, Windows
  <2> QED BY <2>1, <2>2
<1>3. Governor!ValueOr(Wide(spend[k], WideSpend), Governor!ZeroUsage)
        = WideSpend(ValueOr(spend[k], ZeroSpend))
  BY MappedUsage
<1>4. CASE HostOk /\ seen' = [seen EXCEPT ![q] = ValueOr(spend[k], ZeroSpend)]
  <2>1. new = [old EXCEPT ![q] = Governor!ValueOr(Wide(spend[k], WideSpend),
                                                  Governor!ZeroUsage)]
    BY <1>1, <1>3, <1>4
  <2> QED BY <1>4, <2>1 DEF Governor!ReadUsage, Governor!HostOk, HostOk
<1>5. CASE HostFails /\ seen' = [seen EXCEPT ![q] = ZeroSpend]
  <2>1. new = [old EXCEPT ![q] = Governor!ZeroUsage]
    BY <1>1, <1>2, <1>5
  <2> QED BY <1>5, <2>1 DEF Governor!ReadUsage, Governor!HostFails, HostFails
<1> QED BY <1>4, <1>5 DEF ReadSpend

LEMMA MappedCheck ==
  ASSUME NEW s \in [Windows -> Nat], NEW b \in [Windows -> Nat]
  PROVE  Governor!CheckBudget(WideSpend(s), WideBudget(b)) = Check(s, b)
BY DEF Governor!CheckBudget, Governor!Exhausted, Check, Exhausted, WideSpend,
       WideBudget, Windows

LEMMA MappedCost ==
  ASSUME NEW r \in Reports
  PROVE  Governor!EstimateCost([response_bytes |-> 64 * r, elapsed_us |-> 0]) = r
<1>1. r \in Nat
  BY CostsAssumption
<1>2. (64 * r) \div 64 = r /\ (0 \div 1000) * 1000 = 0
  BY <1>1, SMTT(20)
<1> QED BY <1>1, <1>2 DEF Governor!EstimateCost

\* Entering a hook is the arrival of a query at the cost-governor.
LEMMA MappedEnter ==
  ASSUME TypeOK, NEW q \in Conns, NEW to \in {"running", "pre_budget"}, NEW k,
         Enter(q, to), key' = [key EXCEPT ![q] = k]
  PROVE  Governor!Arrive(q, k, to)
<1>1. Governor!Goto(q, "idle", to)
  BY MappedGoto DEF Enter, Seen
<1>2. Governor!InstanceFree
  BY MappedHooks DEF Enter
<1> QED
  BY <1>1, <1>2
     DEF Enter, Governor!Arrive, Governor!config, config, Governor!history, history

\* Every behaviour of the token-budget is one of the cost-governor with keys
\* for tenants, for every set of ids, reports, budgets, instances and faults:
\* what is proved of the cost-governor's charges holds of it too.
THEOREM Refinement == Spec => ImplementsCostGovernor
<1>1. Init => Governor!Init
  <2> SUFFICES ASSUME Init PROVE Governor!Init
    OBVIOUS
  <2>1. [k \in Keys |-> Wide(budget[k], WideBudget)]
          \in [Keys -> {Governor!Absent} \cup
                       {Governor!Some(b) : b \in {WideBudget(c) : c \in Budgets}}]
    BY DEF Init, Wide, Governor!Absent, Absent, Governor!Some, Some
  <2>2. WideSpend(ZeroSpend) = Governor!ZeroUsage
    <3>1. Governor!ZeroUsage = [w \in {"minute", "hour", "day"} |-> 0]
      BY DEF Governor!ZeroUsage, Governor!Windows
    <3>2. WideSpend(ZeroSpend) = [minute |-> 0, hour |-> 0, day |-> 0]
      BY DEF WideSpend, ZeroSpend, Windows
    <3> QED BY <3>1, <3>2
  <2>3. [q \in Conns |-> WideSpend(seen[q])] = [q \in Conns |-> Governor!ZeroUsage]
    BY <2>2 DEF Init
  <2>4. [q \in Conns |-> Seen(pc[q])] = [q \in Conns |-> "idle"]
    BY DEF Init, Seen
  <2>5. [k \in Keys |-> Wide(spend[k], WideSpend)] = [k \in Keys |-> Governor!Absent]
    BY DEF Init, Wide, Absent, Governor!Absent
  <2> QED BY <2>1, <2>3, <2>4, <2>5 DEF Init, Governor!Init
<1>2. TypeOK /\ TypeOK' /\ [Next]_vars => [Governor!Next]_(Governor!vars)
  <2> SUFFICES ASSUME TypeOK, TypeOK', [Next]_vars
               PROVE  Governor!Next \/ UNCHANGED Governor!vars
    OBVIOUS
  <2>1. ASSUME NEW q \in Conns, NEW t \in Attributes, Submit(q, t)
        PROVE  UNCHANGED Governor!vars
    <3>1. [c \in Conns |-> Seen(pc'[c])] = [c \in Conns |-> Seen(pc[c])]
      BY <2>1 DEF Submit, Goto, Seen, TypeOK
    <3> QED BY <2>1, <3>1 DEF Submit, Governor!vars, config, history
  <2>2. ASSUME NEW q \in Conns, PreQueryPass(q) PROVE Governor!PreQueryNoTenant(q)
    <3>1. Governor!Arrive(q, NoKey, "running")
      BY <2>2, MappedEnter DEF PreQueryPass
    <3> QED BY <2>2, <3>1 DEF PreQueryPass, Governor!PreQueryNoTenant
  <2>3. ASSUME NEW q \in Conns, PreQuery(q) PROVE Governor!PreQuery(q)
    <3>1. AgentKey(attrs[q]) \in Keys
      BY <2>3, TaggedTypes DEF PreQuery, TypeOK
    <3>2. Governor!Arrive(q, AgentKey(attrs[q]), "pre_budget")
      BY <2>3, MappedEnter DEF PreQuery
    <3>3. Governor!ReadUsage(q, AgentKey(attrs[q]))
      BY <2>3, <3>1, MappedReadSpend DEF PreQuery
    <3> QED BY <2>3, <3>1, <3>2, <3>3 DEF PreQuery, Governor!PreQuery
  <2>4. ASSUME NEW q \in Conns, PreQueryDecide(q) PROVE Governor!PreQueryDecide(q)
    <3> DEFINE b == budget[key[q]]
               B == [k \in Keys |-> Wide(budget[k], WideBudget)][key[q]]
               S == [c \in Conns |-> WideSpend(seen[c])][q]
               v == IF b = Absent THEN "allow" ELSE Check(seen[q], b[1])
               V == IF B = Governor!Absent THEN "allow"
                    ELSE Governor!CheckBudget(S, B[1])
    <3>1. pc[q] = "pre_budget" /\ key[q] \in Keys
      BY <2>4 DEF PreQueryDecide, Goto, TypeOK, InHook
    <3>2. V = v
      <4>1. B = Wide(b, WideBudget) /\ S = WideSpend(seen[q])
        BY <3>1
      <4>2. CASE b = Absent
        BY <4>1, <4>2 DEF Wide, Absent, Governor!Absent
      <4>3. CASE b # Absent
        <5>1. PICK c \in Budgets : b = Some(c)
          BY <3>1, <4>3 DEF TypeOK
        <5>2. c \in [Windows -> Nat] /\ seen[q] \in [Windows -> Nat] /\ b[1] = c
          BY <5>1, CostsAssumption DEF TypeOK, Some
        <5>3. B # Governor!Absent /\ B[1] = WideBudget(c)
          BY <4>1, <4>3, <5>2 DEF Wide, Absent, Governor!Absent, Some
        <5> QED BY <4>1, <4>3, <5>2, <5>3, MappedCheck
      <4> QED BY <4>2, <4>3
    <3>3. ASSUME NEW a, Goto(q, "pre_budget", IF a = "allow" THEN "running" ELSE "idle")
          PROVE  Governor!Goto(q, "pre_budget", IF a = "allow" THEN "running" ELSE "idle")
      <4>1. CASE a = "allow"
        BY <3>3, <4>1, MappedGoto DEF Seen
      <4>2. CASE a # "allow"
        BY <3>3, <4>2, MappedGoto DEF Seen
      <4> QED BY <4>1, <4>2
    <3>4. UNCHANGED <<Governor!config, [k \in Keys |-> Wide(spend[k], WideSpend)],
                      key, [c \in Conns |-> WideSpend(seen[c])], cost,
                      Governor!history, started>>
      BY <2>4 DEF PreQueryDecide, config, history, Governor!config, Governor!history
    <3>5. CASE /\ HostOk
               /\ Goto(q, "pre_budget", IF v = "allow" THEN "running" ELSE "idle")
               /\ verdict' = [verdict EXCEPT ![q] = v]
      <4> HIDE DEF v, V
      <4>1. Governor!Goto(q, "pre_budget", IF V = "allow" THEN "running" ELSE "idle")
        BY <3>2, <3>3, <3>5
      <4>2. verdict' = [verdict EXCEPT ![q] = V]
        BY <3>2, <3>5
      <4> QED BY <3>4, <3>5, <4>1, <4>2
                 DEF V, Governor!PreQueryDecide, Governor!HostOk, HostOk
    <3>6. CASE /\ HostFails
               /\ Goto(q, "pre_budget", IF "allow" = "allow" THEN "running" ELSE "idle")
               /\ verdict' = [verdict EXCEPT ![q] = "allow"]
      BY <3>3, <3>4, <3>6 DEF Governor!PreQueryDecide, Governor!HostFails, HostFails
    <3> QED BY <2>4, <3>5, <3>6 DEF PreQueryDecide
  <2>5. ASSUME NEW q \in Conns, PostQueryUncharged(q)
        PROVE  Governor!PostQueryUncharged(q)
    <3>1. Governor!Goto(q, "running", "idle") /\ Governor!InstanceFree
      BY <2>5, MappedGoto, MappedHooks DEF PostQueryUncharged, Seen
    <3> QED BY <2>5, <3>1 DEF PostQueryUncharged, Governor!PostQueryUncharged,
                              config, history, Governor!config, Governor!history
  <2>6. ASSUME NEW q \in Conns, PostQuery(q) PROVE Governor!PostQuery(q)
    <3>1. PICK r \in Reports :
             /\ InstanceFree /\ key[q] # NoKey
             /\ Goto(q, "running", "post_write")
             /\ ReadSpend(q, key[q])
             /\ cost' = [cost EXCEPT ![q] = r]
             /\ UNCHANGED <<config, spend, attrs, key, verdict, history, started>>
      BY <2>6 DEF PostQuery, EstimateTokenCost
    <3> DEFINE o == [response_bytes |-> 64 * r, elapsed_us |-> 0]
    <3>2. key[q] \in Keys
      BY <3>1 DEF TypeOK
    <3>3. /\ Governor!Goto(q, "running", "post_write") /\ Governor!InstanceFree
          /\ Governor!ReadUsage(q, key[q])
      BY <3>1, <3>2, MappedGoto, MappedHooks, MappedReadSpend DEF Seen
    <3>4. cost' = [cost EXCEPT ![q] = Governor!EstimateCost(o)]
      BY <3>1, MappedCost
    <3> HIDE DEF o
    <3>5. o \in {[response_bytes |-> 64 * x, elapsed_us |-> 0] : x \in Reports}
      BY DEF o
    <3> QED BY <3>1, <3>2, <3>3, <3>4, <3>5
               DEF Governor!PostQuery, config, history, Governor!config, Governor!history
  <2>7. ASSUME NEW q \in Conns, PostQueryWrite(q) PROVE Governor!PostQueryWrite(q)
    <3> DEFINE sum == [w \in Windows |-> seen[q][w] + cost[q]]
               SUM == [w \in Governor!Windows |->
                         [c \in Conns |-> WideSpend(seen[c])][q][w] + cost[q]]
               old == [k \in Keys |-> Wide(spend[k], WideSpend)]
               new == [k \in Keys |-> Wide(spend'[k], WideSpend)]
    <3>1. Governor!Goto(q, "post_write", "idle") /\ key[q] \in Keys
      BY <2>7, MappedGoto DEF PostQueryWrite, Seen, Goto, TypeOK, InHook
    <3>2. WideSpend(sum) = SUM
      <4>1. [c \in Conns |-> WideSpend(seen[c])][q] = WideSpend(seen[q])
        OBVIOUS
      <4>2. SUM = [w \in {"minute", "hour", "day"} |-> WideSpend(seen[q])[w] + cost[q]]
        BY <4>1 DEF Governor!Windows
      <4>3. WideSpend(sum) = [minute |-> seen[q].minute + cost[q],
                              hour   |-> seen[q].day + cost[q],
                              day    |-> seen[q].day + cost[q]]
        BY DEF WideSpend, Windows
      <4>4. WideSpend(seen[q]) = [minute |-> seen[q].minute, hour |-> seen[q].day,
                                  day |-> seen[q].day]
        BY DEF WideSpend
      <4> HIDE DEF sum, SUM
      <4> QED BY <4>2, <4>3, <4>4
    <3>3. CASE HostOk /\ spend' = [spend EXCEPT ![key[q]] = Some(sum)]
      <4>1. new = [old EXCEPT ![key[q]] = Governor!Some(SUM)]
        <5>1. Wide(Some(sum), WideSpend) = Governor!Some(SUM)
          <6>1. Some(sum) # Absent /\ Some(sum)[1] = sum
            BY DEF Some, Absent
          <6> HIDE DEF sum, SUM
          <6> QED BY <3>2, <6>1 DEF Wide, Governor!Some, Some
        <5> HIDE DEF sum, SUM
        <5>2. \A k \in Keys : spend'[k] = IF k = key[q] THEN Some(sum) ELSE spend[k]
          BY <3>1, <3>3 DEF TypeOK
        <5>3. \A k \in Keys : new[k] = IF k = key[q] THEN Governor!Some(SUM) ELSE old[k]
          BY <5>1, <5>2
        <5> QED BY <5>3
      <4> HIDE DEF new, old
      <4>2. /\ charged' = [charged EXCEPT ![key[q]] = @ + cost[q]]
            /\ UNCHANGED <<config, attrs, key, seen, cost, verdict, started>>
        BY <2>7 DEF PostQueryWrite
      <4>3. [k \in Keys |-> 0] = [[k \in Keys |-> 0] EXCEPT ![key[q]] = 0]
        BY <3>1
      <4> QED BY <3>1, <3>3, <4>1, <4>2, <4>3
                 DEF new, old, Governor!PostQueryWrite, Governor!HostOk, HostOk,
                     Governor!config, config
    <3>4. CASE HostFails /\ UNCHANGED spend
      <4>1. /\ charged' = [charged EXCEPT ![key[q]] = @ + cost[q]]
            /\ UNCHANGED <<config, attrs, key, seen, cost, verdict, started>>
        BY <2>7 DEF PostQueryWrite
      <4>2. [k \in Keys |-> 0] = [[k \in Keys |-> 0] EXCEPT ![key[q]] = 0]
        BY <3>1
      <4> QED BY <3>1, <3>4, <4>1, <4>2
                 DEF Governor!PostQueryWrite, Governor!HostFails, HostFails,
                     Governor!config, config
    <3> QED BY <2>7, <3>3, <3>4 DEF PostQueryWrite
  <2>8. CASE UNCHANGED vars
    BY <2>8 DEF vars, Governor!vars
  <2> QED
    BY <2>1, <2>2, <2>3, <2>4, <2>5, <2>6, <2>7, <2>8 DEF Next, Hook, Governor!Next
<1> QED
  BY <1>1, <1>2, TypeCorrect, PTL DEF Spec, ImplementsCostGovernor, Governor!Spec

-----------------------------------------------------------------------------
(* What is proved of the cost-governor, of the token-budget.                *)

GovernorProofs == INSTANCE CostGovernorProofs WITH
    Tenants  <- Keys,
    NoTenant <- NoKey,
    Outcomes <- {[response_bytes |-> 64 * r, elapsed_us |-> 0] : r \in Reports},
    Budgets  <- {WideBudget(b) : b \in Budgets},
    Waits    <- {},
    budget   <- [k \in Keys |-> Wide(budget[k], WideBudget)],
    usage    <- [k \in Keys |-> Wide(spend[k], WideSpend)],
    pc       <- [q \in Conns |-> Seen(pc[q])],
    tenant   <- key,
    seen     <- [q \in Conns |-> WideSpend(seen[q])],
    since    <- [k \in Keys |-> 0]

\* The instance of the proofs speaks of the same specification.
LEMMA SameGovernor == Governor!Spec => GovernorProofs!Spec
<1>1. Governor!Init <=> GovernorProofs!Init
  BY
     DEF Governor!Init, GovernorProofs!Init, Governor!Absent,
         GovernorProofs!Absent, Governor!Some, GovernorProofs!Some,
         Governor!ZeroUsage, GovernorProofs!ZeroUsage, Governor!Windows,
         GovernorProofs!Windows
<1>2. Governor!Next <=> GovernorProofs!Next
  BY
     DEF Governor!Next, GovernorProofs!Next, Governor!PreQueryInvalid,
         GovernorProofs!PreQueryInvalid, Governor!PreQueryNoTenant,
         GovernorProofs!PreQueryNoTenant, Governor!PreQuery,
         GovernorProofs!PreQuery, Governor!PreQueryDecide,
         GovernorProofs!PreQueryDecide, Governor!PostQueryUncharged,
         GovernorProofs!PostQueryUncharged, Governor!PostQuery,
         GovernorProofs!PostQuery, Governor!PostQueryWrite,
         GovernorProofs!PostQueryWrite, Governor!Wait,
         GovernorProofs!Wait, Governor!Arrive, GovernorProofs!Arrive,
         Governor!ReadUsage, GovernorProofs!ReadUsage, Governor!HostOk,
         GovernorProofs!HostOk, Governor!HostFails,
         GovernorProofs!HostFails, Governor!Goto, GovernorProofs!Goto,
         Governor!InstanceFree, GovernorProofs!InstanceFree,
         Governor!Hooked, GovernorProofs!Hooked, Governor!InHook,
         GovernorProofs!InHook, Governor!Admitted,
         GovernorProofs!Admitted, Governor!EstimateCost,
         GovernorProofs!EstimateCost, Governor!CheckBudget,
         GovernorProofs!CheckBudget, Governor!Exhausted,
         GovernorProofs!Exhausted, Governor!ValueOr,
         GovernorProofs!ValueOr, Governor!Absent, GovernorProofs!Absent,
         Governor!Some, GovernorProofs!Some, Governor!ZeroUsage,
         GovernorProofs!ZeroUsage, Governor!Windows,
         GovernorProofs!Windows, Governor!config, GovernorProofs!config,
         Governor!history, GovernorProofs!history, Governor!Cardinality,
         GovernorProofs!Cardinality, Governor!vars, GovernorProofs!vars
<1>3. UNCHANGED Governor!vars => UNCHANGED GovernorProofs!vars
  BY DEF Governor!vars, GovernorProofs!vars
<1>4. [Governor!Next]_(Governor!vars) => [GovernorProofs!Next]_(GovernorProofs!vars)
  BY <1>2, <1>3
<1> QED BY <1>1, <1>4, PTL DEF Governor!Spec, GovernorProofs!Spec

\* The constants the refinement gives the cost-governor are as it assumes.
LEMMA Assumptions ==
  /\ GovernorProofs!SetsAssumption
  /\ GovernorProofs!OutcomesAssumption
  /\ GovernorProofs!BoundsAssumption
<1>1. GovernorProofs!IsFiniteSet(Conns)
  BY IdsAssumption DEF IsFiniteSet, GovernorProofs!IsFiniteSet
<1>2. NoKey \notin Keys
  BY NoKeyIsNone
<1>3. GovernorProofs!SetsAssumption
  <2>1. \A b \in {WideBudget(c) : c \in Budgets} : b \in [GovernorProofs!Windows -> Nat]
    <3> SUFFICES ASSUME NEW c \in Budgets
                 PROVE  WideBudget(c) \in [GovernorProofs!Windows -> Nat]
      OBVIOUS
    <3>1. c \in [Windows -> Nat]
      BY CostsAssumption
    <3>2. WideBudget(c) \in [{"minute", "hour", "day"} -> Nat]
      BY <3>1 DEF WideBudget, Windows
    <3> QED BY <3>2 DEF GovernorProofs!Windows
  <2> QED BY <1>1, <1>2, <2>1 DEF GovernorProofs!SetsAssumption
<1>4. GovernorProofs!OutcomesAssumption
  <2>1. MaxCost \in Nat /\ \A r \in Reports : r \in Nat /\ r <= MaxCost
    BY CostsAssumption
  <2>2. \A r \in Reports :
           GovernorProofs!EstimateCost([response_bytes |-> 64 * r, elapsed_us |-> 0]) = r
    BY MappedCost DEF Governor!EstimateCost, GovernorProofs!EstimateCost
  <2>3. \A o \in {[response_bytes |-> 64 * r, elapsed_us |-> 0] : r \in Reports} :
           /\ o.response_bytes \in Nat /\ o.elapsed_us \in Nat
           /\ GovernorProofs!EstimateCost(o) <= MaxCost
    BY <2>1, <2>2
  <2> QED BY <2>1, <2>3 DEF GovernorProofs!OutcomesAssumption
<1>5. GovernorProofs!BoundsAssumption
  BY BoundsAssumption DEF GovernorProofs!BoundsAssumption
<1> QED BY <1>3, <1>4, <1>5

\* As for tenants: no pair of ids is charged for more than its key's queries
\* cost, and with one instance none overruns a budget by more than one maximal
\* query a connection, and one such budget more a fault.
THEOREM KeysAreChargedRightly ==
  Spec => [](GovernorProofs!NeverOvercharged /\ GovernorProofs!OvershootPerFault)
<1>1. GovernorProofs!Spec => [](GovernorProofs!NeverOvercharged)
  BY GovernorProofs!NobodyIsOvercharged, Assumptions
<1>2. GovernorProofs!Spec => [](GovernorProofs!OvershootPerFault)
  BY GovernorProofs!OvershootPerFaultHolds, Assumptions
<1> QED BY <1>1, <1>2, Refinement, SameGovernor, PTL DEF ImplementsCostGovernor

\* What a plain pair owes is what its key is charged.
DueIsCharged ==
  \A p \in Pairs : PlainId(p[1]) /\ PlainId(p[2]) =>
      charged[Key(p[1], p[2])] = due[p]

LEMMA DueIsChargedStep ==
  ASSUME TypeOK, DueIsCharged, [Next]_vars PROVE DueIsCharged'
<1>1. ASSUME NEW q \in Conns, PostQueryWrite(q) PROVE DueIsCharged'
  <2> DEFINE t == attrs[q]
             o == <<t.agent[1], t.model[1]>>
  <2>1. /\ key[q] \in Keys /\ key[q] = AgentKey(t) /\ t \in Attributes /\ Tagged(t)
        /\ cost[q] \in Nat
    BY <1>1, CostsAssumption DEF PostQueryWrite, Goto, TypeOK, InHook
  <2>2. o \in Pairs /\ key[q] = Key(o[1], o[2])
    BY <2>1, TaggedTypes
  <2>3. /\ charged' = [charged EXCEPT ![key[q]] = @ + cost[q]]
        /\ due' = [due EXCEPT ![o] = @ + cost[q]]
    BY <1>1 DEF PostQueryWrite
  <2> HIDE DEF t, o
  <2> SUFFICES ASSUME NEW p \in Pairs, PlainId(p[1]), PlainId(p[2])
               PROVE  charged'[Key(p[1], p[2])] = due'[p]
    BY DEF DueIsCharged
  <2>4. /\ p[1] \in Agents /\ p[2] \in ModelIds /\ p = <<p[1], p[2]>>
        /\ o[1] \in Agents /\ o[2] \in ModelIds /\ o = <<o[1], o[2]>>
    BY <2>2 DEF Pairs
  <2>5. Key(p[1], p[2]) \in Keys
    BY <2>4, KeyProperties
  <2>6. Key(p[1], p[2]) = key[q] <=> p = o
    BY <2>2, <2>4, PlainKeyIsOwn
  <2>7. charged[Key(p[1], p[2])] = due[p]
    BY DEF DueIsCharged
  <2>8. charged \in [Keys -> Nat] /\ due \in [Pairs -> Nat]
    BY DEF TypeOK
  <2>9. CASE p = o
    <3>1. Key(p[1], p[2]) = key[q]
      BY <2>6, <2>9
    <3>2. charged'[key[q]] = charged[key[q]] + cost[q]
      BY <2>1, <2>3, <2>8
    <3>3. due'[o] = due[o] + cost[q]
      BY <2>2, <2>3, <2>8
    <3> QED BY <2>7, <2>9, <3>1, <3>2, <3>3
  <2>10. CASE p # o
    <3>1. Key(p[1], p[2]) # key[q]
      BY <2>6, <2>10
    <3> QED BY <2>3, <2>5, <2>7, <2>8, <2>10, <3>1
  <2> QED BY <2>9, <2>10
<1>2. ASSUME UNCHANGED <<charged, due>> PROVE DueIsCharged'
  BY <1>2 DEF DueIsCharged
<1>3. ASSUME NEW q \in Conns, NEW t \in Attributes,
             \/ Submit(q, t) \/ PreQueryPass(q) \/ PreQuery(q) \/ PreQueryDecide(q)
             \/ PostQueryUncharged(q) \/ PostQuery(q)
      PROVE  UNCHANGED <<charged, due>>
  BY <1>3 DEF Submit, PreQueryPass, PreQuery, Enter, PreQueryDecide,
              PostQueryUncharged, PostQuery, history
<1>4. NoAttributes \in Attributes
  BY DEF NoAttributes, Attributes
<1>5. CASE UNCHANGED vars
  BY <1>2, <1>5 DEF vars
<1> QED BY <1>1, <1>2, <1>3, <1>4, <1>5 DEF Next, Hook

\* With one instance and no fault, a pair of ids without a colon pays for its
\* own queries and for all of them, whatever ids the other queries come with.
THEOREM PlainPairsAreCharged == Spec => []PlainPairsPayTheirOwn
<1>1. Init => DueIsCharged
  BY KeyProperties DEF Init, DueIsCharged, Pairs
<1>2. GovernorProofs!Spec => [](GovernorProofs!NoLostCharge)
  BY GovernorProofs!NoChargeIsLost, Assumptions
<1>3. TypeOK /\ DueIsCharged /\ GovernorProofs!NoLostCharge => PlainPairsPayTheirOwn
  <2> SUFFICES ASSUME TypeOK, DueIsCharged, GovernorProofs!NoLostCharge, Serial, NoFault,
                      NEW p \in Pairs, PlainId(p[1]), PlainId(p[2]),
                      NEW w \in Windows
               PROVE  ValueOr(spend[Key(p[1], p[2])], ZeroSpend)[w] = due[p]
    BY DEF PlainPairsPayTheirOwn
  <2> DEFINE k == Key(p[1], p[2])
             s == ValueOr(spend[k], ZeroSpend)
  <2>1. k \in Keys
    BY KeyProperties DEF Pairs
  <2>2. GovernorProofs!Usage(k) = WideSpend(s)
    BY <2>1, MappedUsage
       DEF GovernorProofs!Usage, GovernorProofs!ValueOr, Governor!ValueOr,
           GovernorProofs!Absent, Governor!Absent, GovernorProofs!ZeroUsage,
           Governor!ZeroUsage, GovernorProofs!Windows, Governor!Windows
  <2>3. GovernorProofs!Usage(k)[w] = charged[k]
    BY <2>1 DEF GovernorProofs!NoLostCharge, GovernorProofs!Serial,
                GovernorProofs!NoFault, GovernorProofs!Windows, Serial, NoFault, Windows
  <2>4. WideSpend(s)[w] = s[w]
    BY DEF WideSpend, Windows
  <2>5. charged[k] = due[p]
    BY DEF DueIsCharged
  <2> QED BY <2>2, <2>3, <2>4, <2>5
<1>4. TypeOK /\ DueIsCharged /\ [Next]_vars => DueIsCharged'
  BY DueIsChargedStep
<1> QED
  BY <1>1, <1>2, <1>3, <1>4, TypeCorrect, Refinement, SameGovernor, PTL
     DEF Spec, ImplementsCostGovernor
=============================================================================
