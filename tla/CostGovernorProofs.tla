------------------------- MODULE CostGovernorProofs -------------------------
(* Proofs about CostGovernor: its types, that nobody is overcharged, and,   *)
(* with one instance, that every query is paid for and a budget overrun by  *)
(* less than one maximal query per connection, and how much further each    *)
(* fault lets it go.                                                        *)
EXTENDS CostGovernor, FiniteSetTheorems, TLAPS

-----------------------------------------------------------------------------
(* Lemmas.                                                                  *)

LEMMA CostType ==
  ASSUME NEW o \in Outcomes PROVE EstimateCost(o) \in 0 .. MaxCost
<1>1. EstimateCost(o) \in Nat /\ EstimateCost(o) <= MaxCost
  BY OutcomesAssumption DEF EstimateCost
<1> QED BY <1>1, OutcomesAssumption

LEMMA UsageType ==
  ASSUME TypeOK, NEW t \in Tenants PROVE Usage(t) \in [Windows -> Nat]
BY DEF TypeOK, Usage, ValueOr, ZeroUsage, IsUsage

\* What a hook reads is the stored usage, or nothing when the read fails.
LEMMA ReadUsageStep ==
  ASSUME TypeOK, NEW q \in Conns, NEW t \in Tenants, ReadUsage(q, t)
  PROVE  /\ seen' \in [Conns -> [Windows -> Nat]]
         /\ \A p \in Conns : p # q => seen'[p] = seen[p]
         /\ seen'[q] \in {Usage(t), ZeroUsage}
         /\ failed' \in 0 .. MaxFailures
         /\ failed' = 0 => failed = 0 /\ seen'[q] = Usage(t)
<1>1. Usage(t) \in [Windows -> Nat] /\ ZeroUsage \in [Windows -> Nat]
  BY UsageType DEF ZeroUsage
<1>2. failed \in 0 .. MaxFailures /\ failed' \in 0 .. MaxFailures
  BY BoundsAssumption DEF ReadUsage, HostOk, HostFails, TypeOK
<1>3. PICK u \in [Windows -> Nat] :
         /\ u \in {Usage(t), ZeroUsage}
         /\ seen' = [seen EXCEPT ![q] = u]
         /\ failed' = 0 => failed = 0 /\ u = Usage(t)
  BY <1>1, <1>2 DEF ReadUsage, HostOk, HostFails, Usage
<1>4. seen \in [Conns -> [Windows -> Nat]]
  BY DEF TypeOK
<1> QED
  BY <1>2, <1>3, <1>4

\* The sum post_query stores is a usage.
LEMMA SumType ==
  ASSUME TypeOK, NEW q \in Conns
  PROVE  [w \in Windows |-> seen[q][w] + cost[q]] \in [Windows -> Nat]
BY OutcomesAssumption DEF TypeOK

-----------------------------------------------------------------------------
(* Types.                                                                   *)

\* Every reachable state has the types the module declares, whatever the
\* connections, tenants, outcomes, budgets, instances and faults.
THEOREM TypeCorrect == Spec => []TypeOK
<1>1. Init => TypeOK
  BY SetsAssumption, OutcomesAssumption, BoundsAssumption
     DEF Init, TypeOK, ZeroUsage, InHook, Absent
<1>2. TypeOK /\ [Next]_vars => TypeOK'
  <2> SUFFICES ASSUME TypeOK, [Next]_vars PROVE TypeOK'
    OBVIOUS
  <2> USE BoundsAssumption DEF Goto, HostOk, HostFails, config, history, InHook
  <2>1. ASSUME NEW q \in Conns, PreQueryInvalid(q) PROVE TypeOK'
    BY <2>1 DEF PreQueryInvalid, Arrive, TypeOK
  <2>2. ASSUME NEW q \in Conns, PreQueryNoTenant(q) PROVE TypeOK'
    BY <2>2 DEF PreQueryNoTenant, Arrive, TypeOK
  <2>3. ASSUME NEW q \in Conns, PreQuery(q) PROVE TypeOK'
    <3>1. PICK t \in Tenants : Arrive(q, t, "pre_budget") /\ ReadUsage(q, t)
                               /\ UNCHANGED verdict
      BY <2>3 DEF PreQuery
    <3>2. seen' \in [Conns -> [Windows -> Nat]] /\ failed' \in 0 .. MaxFailures
      BY <3>1, ReadUsageStep DEF TypeOK
    <3>3. /\ pc' = [pc EXCEPT ![q] = "pre_budget"]
          /\ tenant' = [tenant EXCEPT ![q] = t]
          /\ started' \in 0 .. MaxQueries
      BY <3>1 DEF Arrive, TypeOK
    <3>4. /\ pc' \in [Conns -> InHook \cup {"idle", "running"}]
          /\ tenant' \in [Conns -> Tenants \cup {NoTenant}]
          /\ \A p \in Conns : pc'[p] \in InHook => tenant'[p] \in Tenants
      BY <3>3 DEF TypeOK
    <3>5. UNCHANGED <<instances, budget, usage, cost, verdict, charged, since>>
      BY <3>1 DEF Arrive
    <3> QED BY <3>2, <3>3, <3>4, <3>5 DEF TypeOK
  <2>4. ASSUME NEW q \in Conns, PreQueryDecide(q) PROVE TypeOK'
    <3>1. \A u, b : CheckBudget(u, b) \in Windows \cup {"allow"}
      BY DEF CheckBudget, Windows
    <3>2. PICK v \in Windows \cup {"allow"} :
             /\ pc[q] = "pre_budget"
             /\ pc' = [pc EXCEPT ![q] = IF v = "allow" THEN "running" ELSE "idle"]
             /\ verdict' = [verdict EXCEPT ![q] = v]
             /\ failed' \in 0 .. MaxFailures
      BY <2>4, <3>1 DEF PreQueryDecide, TypeOK
    <3> QED BY <2>4, <3>2 DEF PreQueryDecide, TypeOK
  <2>5. ASSUME NEW q \in Conns, PostQueryUncharged(q) PROVE TypeOK'
    BY <2>5 DEF PostQueryUncharged, TypeOK
  <2>6. ASSUME NEW q \in Conns, PostQuery(q) PROVE TypeOK'
    <3>1. PICK o \in Outcomes :
             /\ tenant[q] \in Tenants
             /\ Goto(q, "running", "post_write")
             /\ ReadUsage(q, tenant[q])
             /\ cost' = [cost EXCEPT ![q] = EstimateCost(o)]
             /\ UNCHANGED <<config, usage, tenant, verdict, history, started>>
      BY <2>6 DEF PostQuery
    <3>2. seen' \in [Conns -> [Windows -> Nat]] /\ failed' \in 0 .. MaxFailures
      BY <3>1, ReadUsageStep DEF TypeOK
    <3>3. cost' \in [Conns -> 0 .. MaxCost]
      BY <3>1, CostType DEF TypeOK
    <3> QED BY <3>1, <3>2, <3>3 DEF TypeOK
  <2>7. ASSUME NEW q \in Conns, PostQueryWrite(q) PROVE TypeOK'
    <3>1. tenant[q] \in Tenants
      BY <2>7 DEF PostQueryWrite, TypeOK
    <3>2. charged' \in [Tenants -> Nat]
      BY <2>7, <3>1, OutcomesAssumption DEF PostQueryWrite, TypeOK
    <3>3. DOMAIN usage' = Tenants
      BY <2>7 DEF PostQueryWrite, TypeOK
    <3>4. \A t \in Tenants : usage'[t] # Absent =>
             usage'[t] = Some(usage'[t][1]) /\ IsUsage(usage'[t][1])
      <4> DEFINE sum == [w \in Windows |-> seen[q][w] + cost[q]]
      <4>1. IsUsage(sum)
        BY SumType DEF IsUsage
      <4>2. usage' = usage \/ usage' = [usage EXCEPT ![tenant[q]] = Some(sum)]
        BY <2>7 DEF PostQueryWrite
      <4> HIDE DEF sum
      <4> QED BY <3>1, <4>1, <4>2 DEF TypeOK, Some
    <3> QED BY <2>7, <3>1, <3>2, <3>3, <3>4 DEF PostQueryWrite, TypeOK
  <2>8. ASSUME NEW t \in Tenants, Wait(t) PROVE TypeOK'
    BY <2>8 DEF Wait, TypeOK
  <2>9. CASE UNCHANGED vars
    BY <2>9 DEF vars, TypeOK
  <2> QED
    BY <2>1, <2>2, <2>3, <2>4, <2>5, <2>6, <2>7, <2>8, <2>9 DEF Next
<1> QED
  BY <1>1, <1>2, PTL DEF Spec
-----------------------------------------------------------------------------
(* Nobody is overcharged.                                                   *)

\* Whatever overlaps and whatever fails, no window of a tenant ever holds
\* more than the tenant's queries cost.
THEOREM NobodyIsOvercharged == Spec => []NeverOvercharged
<1>1. Init => NeverOvercharged
  BY DEF Init, NeverOvercharged, Hooked, InHook, Usage, ValueOr, ZeroUsage, Absent
<1>2. TypeOK /\ NeverOvercharged /\ [Next]_vars => NeverOvercharged'
  <2> SUFFICES ASSUME TypeOK, NeverOvercharged, [Next]_vars
               PROVE  NeverOvercharged'
    OBVIOUS
  <2> USE DEF Goto, config, history, InHook, Hooked
  <2>1. ASSUME NEW q \in Conns, PreQueryInvalid(q) PROVE NeverOvercharged'
    BY <2>1 DEF PreQueryInvalid, Arrive, NeverOvercharged, TypeOK, Usage
  <2>2. ASSUME NEW q \in Conns, PreQueryNoTenant(q) PROVE NeverOvercharged'
    BY <2>2 DEF PreQueryNoTenant, Arrive, NeverOvercharged, TypeOK, Usage
  <2>3. ASSUME NEW q \in Conns, NEW t \in Tenants, ReadUsage(q, t),
               UNCHANGED <<usage, charged>>, tenant'[q] = t,
               \A p \in Conns : p # q => pc'[p] = pc[p] /\ tenant'[p] = tenant[p]
        PROVE  NeverOvercharged'
    <3>1. /\ \A p \in Conns : p # q => seen'[p] = seen[p]
          /\ seen'[q] \in {Usage(t), ZeroUsage}
      BY <2>3, ReadUsageStep
    <3>2. \A w \in Windows : seen'[q][w] <= charged[t]
      BY <3>1 DEF NeverOvercharged, ZeroUsage, TypeOK
    <3>3. \A u \in Tenants : Usage(u)' = Usage(u)
      BY <2>3 DEF Usage
    <3>4. ASSUME NEW p \in Hooked', NEW w \in Windows, tenant'[p] \in Tenants
          PROVE  seen'[p][w] <= charged[tenant'[p]]
      <4>1. CASE p = q
        BY <4>1, <2>3, <3>2
      <4>2. CASE p # q
        <5>1. p \in Hooked /\ tenant[p] = tenant'[p] /\ seen'[p] = seen[p]
          BY <4>2, <2>3, <3>1, <3>4
        <5>2. seen[p][w] <= charged[tenant[p]]
          BY <3>4, <5>1 DEF NeverOvercharged
        <5> QED BY <5>1, <5>2, <2>3
      <4> QED BY <4>1, <4>2
    <3> QED BY <2>3, <3>3, <3>4 DEF NeverOvercharged
  <2>4. ASSUME NEW q \in Conns, PreQuery(q) PROVE NeverOvercharged'
    BY <2>3, <2>4 DEF PreQuery, Arrive, TypeOK
  <2>5. ASSUME NEW q \in Conns, PreQueryDecide(q) PROVE NeverOvercharged'
    BY <2>5 DEF PreQueryDecide, NeverOvercharged, TypeOK, Usage
  <2>6. ASSUME NEW q \in Conns, PostQueryUncharged(q) PROVE NeverOvercharged'
    BY <2>6 DEF PostQueryUncharged, NeverOvercharged, TypeOK, Usage
  <2>7. ASSUME NEW q \in Conns, PostQuery(q) PROVE NeverOvercharged'
    BY <2>3, <2>7 DEF PostQuery, TypeOK
  <2>8. ASSUME NEW q \in Conns, PostQueryWrite(q) PROVE NeverOvercharged'
    <3> DEFINE t == tenant[q]
    <3>1. /\ t \in Tenants /\ q \in Hooked /\ cost[q] \in Nat
          /\ charged' = [charged EXCEPT ![t] = @ + cost[q]]
      BY <2>8, OutcomesAssumption DEF PostQueryWrite, TypeOK
    <3>2. \A u \in Tenants : charged[u] \in Nat /\ charged'[u] \in Nat
                             /\ charged[u] <= charged'[u]
      BY <3>1 DEF TypeOK
    <3>3. \A u \in Tenants, w \in Windows : Usage(u)'[w] <= charged'[u]
      <4> SUFFICES ASSUME NEW u \in Tenants, NEW w \in Windows
                   PROVE  Usage(u)'[w] <= charged'[u]
        OBVIOUS
      <4>1. Usage(u)[w] \in Nat /\ Usage(u)[w] <= charged[u]
        BY UsageType DEF NeverOvercharged
      <4>2. CASE Usage(u)' = Usage(u)
        BY <3>2, <4>1, <4>2
      <4>3. CASE Usage(u)' # Usage(u)
        <5>1. u = t /\ Usage(u)' = [x \in Windows |-> seen[q][x] + cost[q]]
          BY <2>8, <4>3 DEF PostQueryWrite, Usage, ValueOr, Some, Absent, TypeOK
        <5>2. seen[q][w] \in Nat /\ seen[q][w] <= charged[t]
          BY <3>1 DEF NeverOvercharged, TypeOK
        <5>3. charged'[t] = charged[t] + cost[q]
          BY <3>1 DEF TypeOK
        <5> QED BY <3>1, <3>2, <5>1, <5>2, <5>3
      <4> QED BY <4>2, <4>3
    <3>4. ASSUME NEW p \in Hooked', NEW w \in Windows, tenant'[p] \in Tenants
          PROVE  seen'[p][w] <= charged'[tenant'[p]]
      <4>1. /\ p \in Hooked /\ seen' = seen /\ tenant' = tenant
            /\ seen[p][w] \in Nat
        BY <2>8, <3>4 DEF PostQueryWrite, TypeOK
      <4>2. seen[p][w] <= charged[tenant[p]]
        BY <3>4, <4>1 DEF NeverOvercharged
      <4> QED BY <3>2, <3>4, <4>1, <4>2
    <3> QED BY <3>3, <3>4 DEF NeverOvercharged
  <2>9. ASSUME NEW t \in Tenants, Wait(t) PROVE NeverOvercharged'
    BY <2>9 DEF Wait, NeverOvercharged, TypeOK, Usage
  <2>10. CASE UNCHANGED vars
    BY <2>10 DEF vars, NeverOvercharged, Usage
  <2> QED
    BY <2>1, <2>2, <2>4, <2>5, <2>6, <2>7, <2>8, <2>9, <2>10 DEF Next
<1> QED
  BY <1>1, <1>2, TypeCorrect, PTL DEF Spec
-----------------------------------------------------------------------------
(* One instance: hooks do not overlap.                                      *)

LEMMA OneInstance ==
  ASSUME Serial, InstanceFree PROVE Hooked = {}
<1>1. IsFiniteSet(Hooked)
  BY SetsAssumption, FS_Subset DEF Hooked
<1>2. Cardinality(Hooked) = 0
  BY <1>1, FS_CardinalityType DEF InstanceFree, Serial
<1> QED
  BY <1>1, <1>2, FS_EmptySet

LEMMA OneHookStep ==
  ASSUME TypeOK, Serial, OneHook, [Next]_vars
  PROVE  OneHook' /\ Serial'
<1> USE DEF Goto, config, history, InHook, Hooked, OneHook, TypeOK, Serial
<1>1. ASSUME NEW q \in Conns, InstanceFree,
             \A p \in Conns : p # q => pc'[p] = pc[p]
      PROVE  OneHook'
  BY <1>1, OneInstance
<1>2. ASSUME NEW q \in Conns,
             \/ PreQueryInvalid(q) \/ PreQueryNoTenant(q) \/ PreQuery(q)
             \/ PostQueryUncharged(q) \/ PostQuery(q)
      PROVE  OneHook' /\ Serial'
  BY <1>1, <1>2 DEF PreQueryInvalid, PreQueryNoTenant, PreQuery, Arrive,
                    PostQueryUncharged, PostQuery
<1>3. ASSUME NEW q \in Conns, PreQueryDecide(q) \/ PostQueryWrite(q)
      PROVE  OneHook' /\ Serial'
  BY <1>3 DEF PreQueryDecide, PostQueryWrite
<1>4. ASSUME NEW t \in Tenants, Wait(t) PROVE OneHook' /\ Serial'
  BY <1>4 DEF Wait
<1>5. CASE UNCHANGED vars
  BY <1>5 DEF vars
<1> QED
  BY <1>2, <1>3, <1>4, <1>5 DEF Next

-----------------------------------------------------------------------------
(* One instance, no fault: the stored usage is the whole charge.            *)

LEMMA NoFaultBefore ==
  ASSUME TypeOK, [Next]_vars, NoFault' PROVE NoFault
<1> USE BoundsAssumption DEF TypeOK, NoFault, HostOk, HostFails
<1>1. ASSUME NEW q \in Conns, NEW t \in Tenants, ReadUsage(q, t) PROVE failed = 0
  BY <1>1 DEF ReadUsage
<1>2. ASSUME NEW q \in Conns, PreQuery(q) \/ PostQuery(q) PROVE failed = 0
  BY <1>1, <1>2 DEF PreQuery, PostQuery
<1>3. ASSUME NEW q \in Conns,
             \/ PreQueryInvalid(q) \/ PreQueryNoTenant(q) \/ PreQueryDecide(q)
             \/ PostQueryUncharged(q) \/ PostQueryWrite(q)
      PROVE  failed = 0
  BY <1>3 DEF PreQueryInvalid, PreQueryNoTenant, PreQueryDecide,
              PostQueryUncharged, PostQueryWrite
<1>4. ASSUME NEW t \in Tenants, Wait(t) PROVE failed = 0
  BY <1>4 DEF Wait
<1>5. CASE UNCHANGED vars
  BY <1>5 DEF vars
<1> QED
  BY <1>2, <1>3, <1>4, <1>5 DEF Next

LEMMA UsageCurrentStep ==
  ASSUME TypeOK, OneHook, NoFault', UsageCurrent, [Next]_vars
  PROVE  UsageCurrent'
<1> USE DEF Goto, config, history, InHook, Hooked
<1>1. ASSUME NEW q \in Conns, NEW t \in Tenants, ReadUsage(q, t),
             UNCHANGED <<usage, charged>>, tenant'[q] = t,
             \A p \in Conns : p # q => pc'[p] = pc[p] /\ tenant'[p] = tenant[p]
      PROVE  UsageCurrent'
  <2>1. \A p \in Conns : p # q => seen'[p] = seen[p]
    BY <1>1, ReadUsageStep
  <2>2. seen'[q] = Usage(t)
    BY <1>1, ReadUsageStep DEF NoFault
  <2>3. \A u \in Tenants : Usage(u)' = Usage(u)
    BY <1>1 DEF Usage
  <2> QED BY <1>1, <2>1, <2>2, <2>3 DEF UsageCurrent
<1>2. ASSUME NEW q \in Conns, PreQuery(q) \/ PostQuery(q) PROVE UsageCurrent'
  BY <1>1, <1>2 DEF PreQuery, PostQuery, Arrive, TypeOK
<1>3. ASSUME NEW q \in Conns, PostQueryWrite(q) PROVE UsageCurrent'
  <2> DEFINE t == tenant[q]
  <2>1. /\ t \in Tenants /\ q \in Hooked /\ seen' = seen /\ tenant' = tenant
        /\ charged' = [charged EXCEPT ![t] = @ + cost[q]]
    BY <1>3 DEF PostQueryWrite, TypeOK
  <2>2. Hooked' = {}
    BY <1>3 DEF PostQueryWrite, OneHook, TypeOK
  <2>3. usage' = [usage EXCEPT ![t] =
                    Some([w \in Windows |-> seen[q][w] + cost[q]])]
    BY <1>3 DEF PostQueryWrite, NoFault, HostFails, TypeOK
  <2>4. ASSUME NEW u \in Tenants, NEW w \in Windows
        PROVE  Usage(u)'[w] = charged'[u]
    <3>1. CASE u = t
      <4>1. Usage(u)' = [x \in Windows |-> seen[q][x] + cost[q]]
        BY <2>1, <2>3, <3>1 DEF Usage, ValueOr, Some, Absent, TypeOK
      <4>2. seen[q][w] = charged[t]
        BY <2>1 DEF UsageCurrent
      <4>3. charged'[u] = charged[t] + cost[q]
        BY <2>1, <3>1 DEF TypeOK
      <4> QED BY <4>1, <4>2, <4>3
    <3>2. CASE u # t
      <4>1. Usage(u)' = Usage(u) /\ charged'[u] = charged[u]
        BY <2>1, <2>3, <3>2 DEF Usage, TypeOK
      <4> QED BY <4>1 DEF UsageCurrent
    <3> QED BY <3>1, <3>2
  <2> QED BY <2>2, <2>4 DEF UsageCurrent
<1>4. ASSUME NEW q \in Conns,
             \/ PreQueryInvalid(q) \/ PreQueryNoTenant(q) \/ PreQueryDecide(q)
             \/ PostQueryUncharged(q)
      PROVE  UsageCurrent'
  BY <1>4 DEF PreQueryInvalid, PreQueryNoTenant, PreQueryDecide, Arrive,
              PostQueryUncharged, UsageCurrent, Usage, TypeOK
<1>5. ASSUME NEW t \in Tenants, Wait(t) PROVE UsageCurrent'
  BY <1>5 DEF Wait, UsageCurrent, Usage
<1>6. CASE UNCHANGED vars
  BY <1>6 DEF vars, UsageCurrent, Usage
<1> QED
  BY <1>2, <1>3, <1>4, <1>5, <1>6 DEF Next
-----------------------------------------------------------------------------
(* One instance, no fault: the queries let in can still be paid for.        *)

LEMMA AdmittedFinite ==
  /\ IsFiniteSet(Conns) /\ Cardinality(Conns) \in Nat
  /\ \A t : /\ IsFiniteSet(Admitted(t))
            /\ Cardinality(Admitted(t)) \in Nat
            /\ Cardinality(Admitted(t)) <= Cardinality(Conns)
BY SetsAssumption, FS_Subset, FS_CardinalityType DEF Admitted

LEMMA BudgetType ==
  ASSUME TypeOK, NEW t \in Tenants, budget[t] # Absent, NEW w \in Windows
  PROVE  budget[t][1][w] \in Nat
<1>1. PICK b \in Budgets : budget[t] = Some(b)
  BY DEF TypeOK
<1>2. b \in [Windows -> Nat] /\ budget[t][1] = b
  BY <1>1, SetsAssumption DEF Some
<1> QED BY <1>2

LEMMA Monotone ==
  ASSUME NEW m \in Nat, NEW a \in Nat, NEW b \in Nat, a <= b
  PROVE  m * a \in Nat /\ m * b \in Nat /\ m * a <= m * b
OBVIOUS

LEMMA TimesSucc ==
  ASSUME NEW m \in Nat, NEW a \in Nat
  PROVE  m * a \in Nat /\ m * (a + 1) = m * a + m
OBVIOUS

\* With the charges as they are and no query let in, Covered stays true.
LEMMA CoveredWhenFewer ==
  ASSUME TypeOK, Covered, UNCHANGED <<budget, charged>>,
         \A t \in Tenants : Admitted(t)' \subseteq Admitted(t)
  PROVE  Covered'
<1> SUFFICES ASSUME NEW t \in Tenants, NEW w \in Windows,
                    budget[t] # Absent, budget[t][1][w] > 0
             PROVE  charged[t] + MaxCost * Cardinality(Admitted(t)') <
                      budget[t][1][w] + MaxCost * Cardinality(Conns)
  BY DEF Covered
<1>1. /\ Cardinality(Admitted(t)') \in Nat
      /\ Cardinality(Admitted(t)') <= Cardinality(Admitted(t))
  BY AdmittedFinite, FS_Subset, FS_CardinalityType
<1>2. /\ MaxCost * Cardinality(Admitted(t)') \in Nat
      /\ MaxCost * Cardinality(Admitted(t)) \in Nat
      /\ MaxCost * Cardinality(Conns) \in Nat
      /\ MaxCost * Cardinality(Admitted(t)') <= MaxCost * Cardinality(Admitted(t))
  BY <1>1, AdmittedFinite, Monotone, OutcomesAssumption
<1>3. charged[t] + MaxCost * Cardinality(Admitted(t)) <
        budget[t][1][w] + MaxCost * Cardinality(Conns)
  BY DEF Covered
<1>4. charged[t] \in Nat /\ budget[t][1][w] \in Nat
  BY BudgetType DEF TypeOK
<1> HIDE DEF Admitted
<1> QED BY <1>2, <1>3, <1>4

LEMMA CoveredStep ==
  ASSUME TypeOK, NoFault', UsageCurrent, Covered, [Next]_vars
  PROVE  Covered'
<1> USE DEF Goto, config, history, InHook
<1>1. ASSUME NEW q \in Conns, PreQueryInvalid(q) \/ PreQueryNoTenant(q)
                              \/ PreQuery(q)
      PROVE  Covered'
  <2>1. /\ UNCHANGED <<budget, charged>>
        /\ tenant'[q] \in Tenants => pc'[q] = "pre_budget"
        /\ \A p \in Conns : p # q => pc'[p] = pc[p] /\ tenant'[p] = tenant[p]
    BY <1>1, SetsAssumption
       DEF PreQueryInvalid, PreQueryNoTenant, PreQuery, Arrive, TypeOK
  <2>2. \A t \in Tenants : Admitted(t)' \subseteq Admitted(t)
    BY <2>1 DEF Admitted
  <2> QED BY <2>1, <2>2, CoveredWhenFewer
<1>2. ASSUME NEW q \in Conns, PreQueryDecide(q) PROVE Covered'
  <2> DEFINE t == tenant[q]
  <2>1. /\ q \in Hooked /\ pc[q] = "pre_budget" /\ t \in Tenants
        /\ UNCHANGED <<budget, charged, tenant>>
        /\ \A p \in Conns : p # q => pc'[p] = pc[p]
    BY <1>2 DEF PreQueryDecide, TypeOK, Hooked
  <2>2. CASE pc'[q] = "idle"
    <3>1. \A u \in Tenants : Admitted(u)' \subseteq Admitted(u)
      BY <2>1, <2>2 DEF Admitted
    <3> QED BY <2>1, <3>1, CoveredWhenFewer
  <2>3. CASE pc'[q] # "idle"
    <3> SUFFICES ASSUME NEW u \in Tenants, NEW w \in Windows,
                        budget[u] # Absent, budget[u][1][w] > 0
                 PROVE  charged[u] + MaxCost * Cardinality(Admitted(u)') <
                          budget[u][1][w] + MaxCost * Cardinality(Conns)
      BY <2>1 DEF Covered
    <3>1. CASE u # t
      <4>1. Admitted(u)' = Admitted(u)
        BY <2>1, <3>1 DEF Admitted
      <4> QED BY <4>1 DEF Covered
    <3>2. CASE u = t
      <4>1. CheckBudget(seen[q], budget[t][1]) = "allow"
        BY <1>2, <2>3, <3>2
           DEF PreQueryDecide, NoFault, HostOk, HostFails, TypeOK
      <4>2. ~Exhausted(seen[q], budget[t][1], w)
        BY <4>1 DEF CheckBudget, Windows
      <4>3. seen[q][w] = charged[t] /\ charged[t] \in Nat
        BY <2>1 DEF UsageCurrent, TypeOK
      <4>4. budget[t][1][w] \in Nat
        BY <3>2, BudgetType
      <4>5. charged[u] < budget[u][1][w]
        BY <3>2, <4>2, <4>3, <4>4 DEF Exhausted
      <4>6. /\ Cardinality(Admitted(u)') \in Nat
            /\ Cardinality(Admitted(u)') <= Cardinality(Conns)
        BY SetsAssumption, FS_Subset, FS_CardinalityType DEF Admitted
      <4>7. /\ MaxCost * Cardinality(Admitted(u)') \in Nat
            /\ MaxCost * Cardinality(Conns) \in Nat
            /\ MaxCost * Cardinality(Admitted(u)') <= MaxCost * Cardinality(Conns)
        BY <4>6, AdmittedFinite, Monotone, OutcomesAssumption
      <4>8. charged[u] \in Nat /\ budget[u][1][w] \in Nat
        BY <3>2, <4>3, <4>4
      <4> HIDE DEF t
      <4> QED BY <4>5, <4>7, <4>8
    <3> QED BY <3>1, <3>2
  <2> QED BY <2>2, <2>3
<1>3. ASSUME NEW q \in Conns, PostQueryUncharged(q) \/ PostQuery(q)
      PROVE  Covered'
  <2>1. /\ UNCHANGED <<budget, charged, tenant>> /\ pc[q] = "running"
        /\ \A p \in Conns : p # q => pc'[p] = pc[p]
    BY <1>3 DEF PostQueryUncharged, PostQuery, TypeOK
  <2>2. \A t \in Tenants : Admitted(t)' \subseteq Admitted(t)
    BY <2>1 DEF Admitted
  <2> QED BY <2>1, <2>2, CoveredWhenFewer
<1>4. ASSUME NEW q \in Conns, PostQueryWrite(q) PROVE Covered'
  <2>1. /\ UNCHANGED <<budget, tenant>> /\ tenant[q] \in Tenants
        /\ pc[q] = "post_write" /\ pc' = [pc EXCEPT ![q] = "idle"]
        /\ charged' = [charged EXCEPT ![tenant[q]] = @ + cost[q]]
    BY <1>4 DEF PostQueryWrite, TypeOK
  <2> SUFFICES ASSUME NEW u \in Tenants, NEW w \in Windows,
                      budget[u] # Absent, budget[u][1][w] > 0
               PROVE  charged'[u] + MaxCost * Cardinality(Admitted(u)') <
                        budget[u][1][w] + MaxCost * Cardinality(Conns)
    BY <2>1 DEF Covered
  <2>2. charged[u] + MaxCost * Cardinality(Admitted(u)) <
          budget[u][1][w] + MaxCost * Cardinality(Conns)
    BY DEF Covered
  <2>3. CASE u # tenant[q]
    <3>1. Admitted(u)' = Admitted(u) /\ charged'[u] = charged[u]
      BY <2>1, <2>3 DEF Admitted, TypeOK
    <3> QED BY <2>2, <3>1
  <2>4. CASE u = tenant[q]
    <3>1. q \in Admitted(u) /\ Admitted(u)' = Admitted(u) \ {q}
      BY <2>1, <2>4 DEF Admitted, TypeOK
    <3>2. /\ Cardinality(Admitted(u)') \in Nat
          /\ Cardinality(Admitted(u)) = Cardinality(Admitted(u)') + 1
      <4> DEFINE S == Admitted(u)
      <4>1. IsFiniteSet(S) /\ q \in S
        BY <3>1, AdmittedFinite
      <4> HIDE DEF S
      <4>2. /\ IsFiniteSet(S \ {q}) /\ Cardinality(S) \in Nat
            /\ Cardinality(S \ {q}) = Cardinality(S) - 1
        BY <4>1, FS_RemoveElement, FS_CardinalityType
      <4>3. Cardinality(S \ {q}) \in Nat
        BY <4>2, FS_CardinalityType
      <4> QED BY <3>1, <4>2, <4>3 DEF S
    <3>3. /\ MaxCost * Cardinality(Admitted(u)') \in Nat
          /\ MaxCost * Cardinality(Admitted(u)) =
               MaxCost * Cardinality(Admitted(u)') + MaxCost
      BY <3>2, TimesSucc, OutcomesAssumption
    <3>4. /\ charged'[u] = charged[u] + cost[q] /\ charged[u] \in Nat
          /\ cost[q] \in Nat /\ cost[q] <= MaxCost /\ MaxCost \in Nat
      BY <2>1, <2>4, OutcomesAssumption DEF TypeOK
    <3>5. budget[u][1][w] \in Nat /\ MaxCost * Cardinality(Conns) \in Nat
      BY BudgetType, AdmittedFinite, Monotone, OutcomesAssumption
    <3> QED BY <2>2, <3>3, <3>4, <3>5
  <2> QED BY <2>3, <2>4
<1>5. ASSUME NEW t \in Tenants, Wait(t) PROVE Covered'
  <2>1. UNCHANGED <<budget, charged, tenant, pc>>
    BY <1>5 DEF Wait
  <2> QED BY <2>1, CoveredWhenFewer DEF Admitted
<1>6. CASE UNCHANGED vars
  <2>1. UNCHANGED <<budget, charged, tenant, pc>>
    BY <1>6 DEF vars
  <2> QED BY <2>1, CoveredWhenFewer DEF Admitted
<1> QED
  BY <1>1, <1>2, <1>3, <1>4, <1>5, <1>6 DEF Next
-----------------------------------------------------------------------------
(* The theorems for one instance.                                           *)

LEMMA SerialInit == ASSUME Init PROVE SerialInv
<1>1. OneHook /\ UsageCurrent
  BY DEF Init, OneHook, UsageCurrent, Hooked, InHook, Usage, ValueOr,
         ZeroUsage, Absent
<1>2. Covered
  <2> SUFFICES ASSUME NEW t \in Tenants, NEW w \in Windows,
                      budget[t] # Absent, budget[t][1][w] > 0
               PROVE  charged[t] + MaxCost * Cardinality(Admitted(t)) <
                        budget[t][1][w] + MaxCost * Cardinality(Conns)
    BY DEF Covered
  <2>1. charged[t] = 0 /\ Admitted(t) = {}
    BY DEF Init, Admitted
  <2>2. Cardinality(Admitted(t)) = 0
    BY <2>1, FS_EmptySet
  <2>3. PICK b \in Budgets : budget[t] = Some(b)
    BY DEF Init
  <2>4. budget[t][1][w] \in Nat
    BY <2>3, SetsAssumption DEF Some
  <2>5. MaxCost * 0 = 0 /\ MaxCost * Cardinality(Conns) \in Nat
    BY AdmittedFinite, Monotone, OutcomesAssumption
  <2> QED BY <2>1, <2>2, <2>4, <2>5
<1> QED BY <1>1, <1>2 DEF SerialInv

\* With one instance, a hook in flight and the store always fit together.
THEOREM SerialCorrect == Spec => []SerialInv
<1>1. Init => SerialInv
  BY SerialInit
<1>2. TypeOK /\ SerialInv /\ [Next]_vars => SerialInv'
  <2> SUFFICES ASSUME TypeOK, SerialInv, [Next]_vars, Serial'
               PROVE  OneHook' /\ (NoFault' => UsageCurrent' /\ Covered')
    BY DEF SerialInv
  <2>1. Serial
    BY DEF Serial, Next, vars, config, PreQueryInvalid, PreQueryNoTenant,
           PreQuery, Arrive, PreQueryDecide, PostQueryUncharged, PostQuery,
           PostQueryWrite, Wait
  <2>2. OneHook /\ (NoFault => UsageCurrent /\ Covered)
    BY <2>1 DEF SerialInv
  <2> QED
    BY <2>1, <2>2, OneHookStep, NoFaultBefore, UsageCurrentStep, CoveredStep
<1> QED
  BY <1>1, <1>2, TypeCorrect, PTL DEF Spec

\* With one instance and no fault no charge is lost.
THEOREM NoChargeIsLost == Spec => []NoLostCharge
<1>1. SerialInv => NoLostCharge
  BY DEF SerialInv, NoLostCharge, UsageCurrent
<1> QED BY <1>1, SerialCorrect, PTL

\* With one instance and no fault, a tenant overruns each of its budgets by
\* less than the highest cost of one query per connection.
THEOREM OvershootIsBounded == Spec => []OvershootBounded
<1>1. TypeOK /\ SerialInv => OvershootBounded
  <2> SUFFICES ASSUME TypeOK, Covered, NEW t \in Tenants, NEW w \in Windows,
                      budget[t] # Absent, budget[t][1][w] > 0
               PROVE  charged[t] < budget[t][1][w] + MaxCost * Cardinality(Conns)
    BY DEF SerialInv, OvershootBounded
  <2>1. charged[t] + MaxCost * Cardinality(Admitted(t)) <
          budget[t][1][w] + MaxCost * Cardinality(Conns)
    BY DEF Covered
  <2>2. /\ MaxCost * Cardinality(Admitted(t)) \in Nat
        /\ MaxCost * Cardinality(Conns) \in Nat
    BY AdmittedFinite, Monotone, OutcomesAssumption
  <2>3. charged[t] \in Nat /\ budget[t][1][w] \in Nat
    BY BudgetType DEF TypeOK
  <2> QED BY <2>1, <2>2, <2>3
<1> QED BY <1>1, TypeCorrect, SerialCorrect, PTL

-----------------------------------------------------------------------------
(* One instance, with faults: what each of them gives away.                 *)

Limited(t, w) == budget[t] # Absent /\ budget[t][1][w] > 0

\* What one fault can give away of a budget: all of it, and a query on every
\* connection.
Allowance(t, w) == budget[t][1][w] + MaxCost * Cardinality(Conns)

\* The stored usage, and the usage that a hook has read, are short of the
\* charge by no more than the faults so far gave away, and neither is what the
\* queries let in can still cost.
FaultInv ==
  \A t \in Tenants, w \in Windows : Limited(t, w) =>
    /\ charged[t] <= Usage(t)[w] + failed * Allowance(t, w)
    /\ \A q \in Hooked :
          tenant[q] = t => charged[t] <= seen[q][w] + failed * Allowance(t, w)
    /\ charged[t] + MaxCost * Cardinality(Admitted(t)) <
         (1 + failed) * Allowance(t, w)

SerialFaultInv == Serial => OneHook /\ FaultInv

LEMMA TimesFault ==
  ASSUME NEW f \in Nat, NEW F \in Nat
  PROVE  /\ f * F \in Nat
         /\ (f + 1) * F = f * F + F
         /\ (1 + f) * F = f * F + F
OBVIOUS

\* An allowance covers a query on every connection, so one query as well.
LEMMA AllowanceCovers ==
  ASSUME TypeOK, NEW t \in Tenants, NEW w \in Windows, Limited(t, w)
  PROVE  /\ Allowance(t, w) \in Nat /\ Allowance(t, w) > 0
         /\ budget[t][1][w] \in Nat
         /\ MaxCost * Cardinality(Conns) \in Nat
         /\ Allowance(t, w) = budget[t][1][w] + MaxCost * Cardinality(Conns)
         /\ MaxCost * Cardinality(Conns) < Allowance(t, w)
         /\ Conns # {} => MaxCost <= Allowance(t, w)
<1>1. budget[t][1][w] \in Nat /\ budget[t][1][w] > 0
  BY BudgetType DEF Limited
<1>2. MaxCost * Cardinality(Conns) \in Nat /\ MaxCost \in Nat
  BY AdmittedFinite, Monotone, OutcomesAssumption
<1>3. Conns # {} => MaxCost <= MaxCost * Cardinality(Conns)
  <2>1. SUFFICES ASSUME Conns # {} PROVE MaxCost <= MaxCost * Cardinality(Conns)
    OBVIOUS
  <2>2. Cardinality(Conns) \in Nat /\ Cardinality(Conns) # 0
    BY <2>1, AdmittedFinite, FS_EmptySet
  <2>3. 1 \in Nat /\ 1 <= Cardinality(Conns)
    BY <2>2
  <2>4. MaxCost * 1 <= MaxCost * Cardinality(Conns)
    BY <1>2, <2>2, <2>3, Monotone
  <2>5. MaxCost * 1 = MaxCost
    BY <1>2
  <2> QED BY <2>4, <2>5
<1> DEFINE m == MaxCost * Cardinality(Conns)
<1>4. Allowance(t, w) = budget[t][1][w] + m
  BY DEF Allowance
<1> HIDE DEF m
<1>5. m \in Nat
  BY <1>2 DEF m
<1>6. Allowance(t, w) \in Nat /\ Allowance(t, w) > 0 /\ m < Allowance(t, w)
  BY <1>1, <1>4, <1>5
<1>7. Conns # {} => MaxCost <= Allowance(t, w)
  BY <1>2, <1>3, <1>5, <1>6 DEF m
<1> QED BY <1>1, <1>2, <1>4, <1>6, <1>7 DEF m

\* The allowance of the faults before and after a step.
LEMMA FaultCount ==
  ASSUME TypeOK, [Next]_vars
  PROVE  /\ failed \in Nat /\ failed' \in {failed, failed + 1}
         /\ UNCHANGED budget
<1> USE BoundsAssumption DEF TypeOK, HostOk, HostFails, config
<1>1. failed \in Nat
  OBVIOUS
<1>2. ASSUME NEW q \in Conns, NEW t \in Tenants, ReadUsage(q, t)
      PROVE  failed' \in {failed, failed + 1}
  BY <1>2 DEF ReadUsage
<1>3. ASSUME NEW q \in Conns, PreQuery(q) \/ PostQuery(q)
      PROVE  failed' \in {failed, failed + 1} /\ UNCHANGED budget
  BY <1>2, <1>3 DEF PreQuery, PostQuery, Arrive
<1>4. ASSUME NEW q \in Conns,
             \/ PreQueryInvalid(q) \/ PreQueryNoTenant(q) \/ PreQueryDecide(q)
             \/ PostQueryUncharged(q) \/ PostQueryWrite(q)
      PROVE  failed' \in {failed, failed + 1} /\ UNCHANGED budget
  BY <1>4 DEF PreQueryInvalid, PreQueryNoTenant, PreQueryDecide,
              PostQueryUncharged, PostQueryWrite, Arrive
<1>5. ASSUME NEW t \in Tenants, Wait(t)
      PROVE  failed' \in {failed, failed + 1} /\ UNCHANGED budget
  BY <1>5 DEF Wait
<1>6. CASE UNCHANGED vars
  BY <1>6 DEF vars
<1> QED BY <1>1, <1>3, <1>4, <1>5, <1>6 DEF Next

\* A step that charges nobody and lets no query in, and whose hook, if it
\* reads a usage, reads the stored one or is paid for by a fault.
LEMMA FaultUncharged ==
  ASSUME TypeOK, FaultInv, [Next]_vars, UNCHANGED <<usage, charged>>,
         \A t \in Tenants : Admitted(t)' \subseteq Admitted(t),
         \A p \in Hooked' : tenant'[p] \in Tenants =>
            \/ p \in Hooked /\ tenant'[p] = tenant[p] /\ seen'[p] = seen[p]
            \/ seen'[p] = Usage(tenant'[p])
            \/ seen'[p] = ZeroUsage /\ failed' = failed + 1
  PROVE  FaultInv'
<1>1. failed \in Nat /\ failed' \in {failed, failed + 1} /\ UNCHANGED budget
  BY FaultCount
<1> SUFFICES ASSUME NEW t \in Tenants, NEW w \in Windows, Limited(t, w)
             PROVE  /\ charged[t] <= Usage(t)[w] + failed' * Allowance(t, w)
                    /\ \A q \in Hooked' : tenant'[q] = t =>
                          charged[t] <= seen'[q][w] + failed' * Allowance(t, w)
                    /\ charged[t] + MaxCost * Cardinality(Admitted(t)') <
                         (1 + failed') * Allowance(t, w)
  BY <1>1 DEF FaultInv, Limited, Allowance, Usage
<1> DEFINE F == Allowance(t, w)
           g == failed * F
           a == MaxCost * Cardinality(Admitted(t))
           b == MaxCost * Cardinality(Admitted(t)')
<1>2. F \in Nat
  BY AllowanceCovers
<1>3. /\ charged[t] \in Nat /\ Usage(t)[w] \in Nat
      /\ \A q \in Conns : seen[q][w] \in Nat
  BY UsageType DEF TypeOK
<1>4. /\ charged[t] <= Usage(t)[w] + g
      /\ \A q \in Hooked : tenant[q] = t => charged[t] <= seen[q][w] + g
      /\ charged[t] + a < (1 + failed) * F
  BY DEF FaultInv
<1> HIDE DEF F
<1>5. /\ g \in Nat /\ failed' * F \in {g, g + F} /\ failed' * F \in Nat
      /\ failed' = failed + 1 => failed' * F = g + F
      /\ (1 + failed) * F = g + F
      /\ (1 + failed') * F = failed' * F + F
  <2>1. failed' \in Nat
    BY <1>1
  <2> QED BY <1>1, <1>2, <2>1, TimesFault
<1>6. a \in Nat /\ b \in Nat /\ b <= a
  <2>1. /\ Cardinality(Admitted(t)') \in Nat
        /\ Cardinality(Admitted(t)') <= Cardinality(Admitted(t))
    BY AdmittedFinite, FS_Subset, FS_CardinalityType
  <2> QED BY <2>1, AdmittedFinite, Monotone, OutcomesAssumption
<1> HIDE DEF g, a, b
<1>7. charged[t] < g + F
  BY <1>2, <1>3, <1>4, <1>5, <1>6
<1>8. charged[t] <= Usage(t)[w] + failed' * F
  BY <1>2, <1>3, <1>4, <1>5
<1>9. charged[t] + b < (1 + failed') * F
  BY <1>2, <1>3, <1>4, <1>5, <1>6
<1>10. ASSUME NEW q \in Hooked', tenant'[q] = t
       PROVE  charged[t] <= seen'[q][w] + failed' * F
  <2>1. CASE q \in Hooked /\ tenant'[q] = tenant[q] /\ seen'[q] = seen[q]
    <3>1. q \in Conns /\ charged[t] <= seen[q][w] + g
      BY <1>4, <1>10, <2>1 DEF Hooked
    <3> QED BY <1>2, <1>3, <1>5, <2>1, <3>1
  <2>2. CASE seen'[q] = Usage(tenant'[q])
    BY <1>8, <1>10, <2>2
  <2>3. CASE seen'[q] = ZeroUsage /\ failed' = failed + 1
    <3>1. seen'[q][w] = 0
      BY <2>3 DEF ZeroUsage
    <3> QED BY <1>2, <1>3, <1>5, <1>7, <2>3, <3>1
  <2> QED BY <1>10, <2>1, <2>2, <2>3
<1> QED BY <1>8, <1>9, <1>10 DEF F, b

\* A query that is let in: its tenant's usage, as its hook has read it, is
\* below the budget, or the read of the budget was a fault.
LEMMA FaultLetIn ==
  ASSUME TypeOK, FaultInv, [Next]_vars, NEW q \in Conns, PreQueryDecide(q)
  PROVE  FaultInv'
<1>1. /\ q \in Hooked /\ tenant[q] \in Tenants /\ pc[q] = "pre_budget"
      /\ UNCHANGED <<usage, charged, tenant, seen>>
      /\ \A p \in Conns : p # q => pc'[p] = pc[p]
      /\ pc'[q] \in {"running", "idle"}
  BY DEF PreQueryDecide, Goto, TypeOK, Hooked, InHook, config, history
<1>2. \A p \in Hooked' : p \in Hooked /\ tenant'[p] = tenant[p] /\ seen'[p] = seen[p]
  BY <1>1 DEF Hooked, InHook
<1>3. CASE pc'[q] = "idle"
  <2>1. \A t \in Tenants : Admitted(t)' \subseteq Admitted(t)
    BY <1>1, <1>3 DEF Admitted
  <2> QED BY <1>1, <1>2, <2>1, FaultUncharged
<1>4. CASE pc'[q] = "running"
  <2>1. failed \in Nat /\ failed' \in {failed, failed + 1} /\ UNCHANGED budget
    BY FaultCount
  <2> SUFFICES ASSUME NEW t \in Tenants, NEW w \in Windows, Limited(t, w)
               PROVE  /\ charged[t] <= Usage(t)[w] + failed' * Allowance(t, w)
                      /\ \A p \in Hooked' : tenant'[p] = t =>
                            charged[t] <= seen'[p][w] + failed' * Allowance(t, w)
                      /\ charged[t] + MaxCost * Cardinality(Admitted(t)') <
                           (1 + failed') * Allowance(t, w)
    BY <1>1, <2>1 DEF FaultInv, Limited, Allowance, Usage
  <2> DEFINE F == Allowance(t, w)
             g == failed * F
             a == MaxCost * Cardinality(Admitted(t))
             b == MaxCost * Cardinality(Admitted(t)')
             m == MaxCost * Cardinality(Conns)
             B == budget[t][1][w]
  <2>2. F \in Nat /\ B \in Nat /\ m \in Nat /\ F = B + m /\ m < F
    BY AllowanceCovers
  <2>3. /\ charged[t] \in Nat /\ Usage(t)[w] \in Nat
        /\ \A p \in Conns : seen[p][w] \in Nat
    BY UsageType DEF TypeOK
  <2>4. /\ charged[t] <= Usage(t)[w] + g
        /\ \A p \in Hooked : tenant[p] = t => charged[t] <= seen[p][w] + g
        /\ charged[t] + a < (1 + failed) * F
    BY DEF FaultInv
  <2> HIDE DEF F
  <2>5. /\ g \in Nat /\ failed' * F \in {g, g + F} /\ failed' * F \in Nat
        /\ failed' = failed + 1 => failed' * F = g + F
        /\ (1 + failed) * F = g + F
        /\ (1 + failed') * F = failed' * F + F
    <3>1. failed' \in Nat
      BY <2>1
    <3> QED BY <2>1, <2>2, <3>1, TimesFault
  <2>6. a \in Nat /\ b \in Nat /\ b <= m
    <3>1. /\ Cardinality(Admitted(t)') \in Nat
          /\ Cardinality(Admitted(t)') <= Cardinality(Conns)
      BY SetsAssumption, FS_Subset, FS_CardinalityType DEF Admitted
    <3> QED BY <3>1, AdmittedFinite, Monotone, OutcomesAssumption
  <2>7. CASE t # tenant[q]
    <3>1. Admitted(t)' = Admitted(t)
      BY <1>1, <2>7 DEF Admitted
    <3>2. b = a
      BY <3>1
    <3> HIDE DEF g, a, b, m, B
    <3>3. charged[t] + b < (1 + failed') * F
      BY <2>2, <2>3, <2>4, <2>5, <2>6, <3>2
    <3>4. charged[t] <= Usage(t)[w] + failed' * F
      BY <2>2, <2>3, <2>4, <2>5
    <3>5. ASSUME NEW p \in Hooked', tenant'[p] = t
          PROVE  charged[t] <= seen'[p][w] + failed' * F
      <4>1. p \in Conns /\ seen'[p] = seen[p] /\ charged[t] <= seen[p][w] + g
        BY <1>2, <2>4, <3>5 DEF Hooked
      <4> QED BY <2>2, <2>3, <2>5, <4>1
    <3> QED BY <3>3, <3>4, <3>5 DEF F, b
  <2>8. CASE t = tenant[q]
    <3>1. \/ failed' = failed + 1
          \/ failed' = failed /\ CheckBudget(seen[q], budget[t][1]) = "allow"
      BY <1>4, <2>8 DEF PreQueryDecide, HostOk, HostFails, Goto, TypeOK, Limited
    <3>2. CheckBudget(seen[q], budget[t][1]) = "allow" => seen[q][w] < B
      <4>1. CheckBudget(seen[q], budget[t][1]) = "allow" =>
               ~Exhausted(seen[q], budget[t][1], w)
        BY DEF CheckBudget, Windows
      <4> QED BY <2>2, <2>3, <4>1 DEF Exhausted, Limited
    <3>3. charged[t] <= seen[q][w] + g
      BY <1>1, <2>4, <2>8
    <3> HIDE DEF g, a, b, m, B
    <3>4. charged[t] < g + F
      BY <2>2, <2>3, <2>4, <2>5, <2>6
    <3>5. charged[t] + b < (1 + failed') * F
      <4>1. CASE failed' = failed + 1
        <5>1. (1 + failed') * F = g + F + F
          BY <2>2, <2>5, <4>1
        <5> QED BY <2>2, <2>3, <2>5, <2>6, <3>4, <5>1
      <4>2. CASE failed' = failed /\ seen[q][w] < B
        <5>1. (1 + failed') * F = g + F
          BY <2>2, <2>5, <4>2
        <5> QED BY <2>2, <2>3, <2>5, <2>6, <3>3, <4>2, <5>1
      <4> QED BY <3>1, <3>2, <4>1, <4>2
    <3>6. charged[t] <= Usage(t)[w] + failed' * F
      BY <2>2, <2>3, <2>4, <2>5
    <3>7. ASSUME NEW p \in Hooked', tenant'[p] = t
          PROVE  charged[t] <= seen'[p][w] + failed' * F
      <4>1. p \in Conns /\ seen'[p] = seen[p] /\ charged[t] <= seen[p][w] + g
        BY <1>2, <2>4, <3>7 DEF Hooked
      <4> QED BY <2>2, <2>3, <2>5, <4>1
    <3> QED BY <3>5, <3>6, <3>7 DEF F, b
  <2> QED BY <2>7, <2>8
<1> QED BY <1>1, <1>3, <1>4

\* A charge is written, or lost to a fault, which costs at most one query.
LEMMA FaultCharged ==
  ASSUME TypeOK, FaultInv, OneHook, [Next]_vars, NEW q \in Conns, PostQueryWrite(q)
  PROVE  FaultInv'
<1>1. /\ q \in Hooked /\ tenant[q] \in Tenants /\ UNCHANGED tenant
      /\ pc[q] = "post_write" /\ pc' = [pc EXCEPT ![q] = "idle"]
      /\ charged' = [charged EXCEPT ![tenant[q]] = @ + cost[q]]
      /\ cost[q] \in Nat /\ cost[q] <= MaxCost
  BY OutcomesAssumption DEF PostQueryWrite, Goto, TypeOK, Hooked, InHook
<1>2. Hooked' = {}
  BY <1>1 DEF Hooked, InHook, OneHook, TypeOK
<1>3. failed \in Nat /\ failed' \in {failed, failed + 1} /\ UNCHANGED budget
  BY FaultCount
<1> SUFFICES ASSUME NEW t \in Tenants, NEW w \in Windows, Limited(t, w)
             PROVE  /\ charged'[t] <= Usage(t)'[w] + failed' * Allowance(t, w)
                    /\ charged'[t] + MaxCost * Cardinality(Admitted(t)') <
                         (1 + failed') * Allowance(t, w)
  BY <1>2, <1>3 DEF FaultInv, Limited, Allowance
<1> DEFINE F == Allowance(t, w)
           g == failed * F
           a == MaxCost * Cardinality(Admitted(t))
           b == MaxCost * Cardinality(Admitted(t)')
<1>4. F \in Nat /\ MaxCost <= F /\ MaxCost \in Nat
  BY AllowanceCovers, OutcomesAssumption
<1>5. charged[t] \in Nat /\ Usage(t)[w] \in Nat /\ seen[q][w] \in Nat
  BY UsageType DEF TypeOK
<1>6. /\ charged[t] <= Usage(t)[w] + g
      /\ tenant[q] = t => charged[t] <= seen[q][w] + g
      /\ charged[t] + a < (1 + failed) * F
  BY <1>1 DEF FaultInv
<1> HIDE DEF F
<1>7. /\ g \in Nat /\ failed' * F \in {g, g + F} /\ failed' * F \in Nat
      /\ failed' = failed + 1 => failed' * F = g + F
      /\ (1 + failed) * F = g + F
      /\ (1 + failed') * F = failed' * F + F
  <2>1. failed' \in Nat
    BY <1>3
  <2> QED BY <1>3, <1>4, <2>1, TimesFault
<1>8. CASE t # tenant[q]
  <2>1. /\ charged'[t] = charged[t] /\ Admitted(t)' = Admitted(t)
        /\ Usage(t)' = Usage(t)
    BY <1>1, <1>8 DEF Admitted, TypeOK, PostQueryWrite, Usage
  <2>2. a \in Nat /\ a = b
    BY <2>1, AdmittedFinite, Monotone, OutcomesAssumption
  <2> HIDE DEF g, a, b
  <2> QED BY <1>4, <1>5, <1>6, <1>7, <2>1, <2>2 DEF F, b
<1>9. CASE t = tenant[q]
  <2>1. charged'[t] = charged[t] + cost[q]
    BY <1>1, <1>9 DEF TypeOK
  <2>2. a = b + MaxCost /\ b \in Nat
    <3>1. q \in Admitted(t) /\ Admitted(t)' = Admitted(t) \ {q}
      BY <1>1, <1>9 DEF Admitted, TypeOK
    <3> DEFINE S == Admitted(t)
    <3>2. IsFiniteSet(S) /\ q \in S
      BY <3>1, AdmittedFinite
    <3> HIDE DEF S
    <3>3. /\ IsFiniteSet(S \ {q}) /\ Cardinality(S) \in Nat
          /\ Cardinality(S \ {q}) = Cardinality(S) - 1
      BY <3>2, FS_RemoveElement, FS_CardinalityType
    <3>4. Cardinality(S \ {q}) \in Nat
      BY <3>3, FS_CardinalityType
    <3>5. Cardinality(S) = Cardinality(S \ {q}) + 1
      BY <3>3, <3>4
    <3>6. MaxCost * Cardinality(S) = MaxCost * Cardinality(S \ {q}) + MaxCost
          /\ MaxCost * Cardinality(S \ {q}) \in Nat
      BY <1>4, <3>4, <3>5, TimesSucc
    <3> QED BY <3>1, <3>6 DEF S
  <2>3. Usage(t)'[w] \in Nat /\ charged'[t] <= Usage(t)'[w] + failed' * F
    <3>1. CASE usage' = [usage EXCEPT ![t] = Some([x \in Windows |-> seen[q][x] + cost[q]])]
      <4>1. Usage(t)' = [x \in Windows |-> seen[q][x] + cost[q]]
        BY <3>1 DEF Usage, ValueOr, Some, Absent, TypeOK
      <4>2. Usage(t)'[w] = seen[q][w] + cost[q]
        BY <4>1
      <4> HIDE DEF g
      <4> QED BY <1>1, <1>4, <1>5, <1>6, <1>7, <1>9, <2>1, <4>2
    <3>2. CASE failed' = failed + 1 /\ UNCHANGED usage
      <4>1. Usage(t)' = Usage(t)
        BY <3>2 DEF Usage
      <4>2. failed' * F = g + F
        BY <1>7, <3>2
      <4> HIDE DEF g
      <4> QED BY <1>1, <1>4, <1>5, <1>6, <1>7, <2>1, <4>1, <4>2
    <3> QED BY <1>9, <3>1, <3>2 DEF PostQueryWrite, HostFails
  <2> HIDE DEF g, a, b
  <2>4. charged'[t] + b < (1 + failed') * F
    BY <1>1, <1>4, <1>5, <1>6, <1>7, <2>1, <2>2
  <2> QED BY <2>3, <2>4 DEF F, b
<1> QED BY <1>8, <1>9

LEMMA FaultStep ==
  ASSUME TypeOK, Serial, OneHook, FaultInv, [Next]_vars
  PROVE  FaultInv'
<1>1. ASSUME NEW q \in Conns, NEW t \in Tenants, ReadUsage(q, t), tenant'[q] = t,
             UNCHANGED usage, \A p \in Hooked' \ {q} : p \in Hooked /\ tenant'[p] = tenant[p]
      PROVE  \A p \in Hooked' : tenant'[p] \in Tenants =>
                \/ p \in Hooked /\ tenant'[p] = tenant[p] /\ seen'[p] = seen[p]
                \/ seen'[p] = Usage(tenant'[p])
                \/ seen'[p] = ZeroUsage /\ failed' = failed + 1
  <2>1. \A p \in Conns : p # q => seen'[p] = seen[p]
    BY <1>1, ReadUsageStep
  <2>2. seen'[q] = Usage(t) \/ (seen'[q] = ZeroUsage /\ failed' = failed + 1)
    BY <1>1 DEF ReadUsage, HostOk, HostFails, Usage, TypeOK
  <2> QED BY <1>1, <2>1, <2>2 DEF Hooked
<1>2. ASSUME NEW q \in Conns, PreQueryInvalid(q) \/ PreQueryNoTenant(q)
      PROVE  FaultInv'
  <2>1. /\ UNCHANGED <<usage, charged, seen>> /\ tenant'[q] = NoTenant
        /\ pc'[q] \notin InHook
        /\ \A p \in Conns : p # q => pc'[p] = pc[p] /\ tenant'[p] = tenant[p]
    BY <1>2 DEF PreQueryInvalid, PreQueryNoTenant, Arrive, Goto, TypeOK, InHook, history
  <2>2. \A t \in Tenants : Admitted(t)' \subseteq Admitted(t)
    BY <2>1, SetsAssumption DEF Admitted
  <2>3. \A p \in Hooked' : p \in Hooked /\ tenant'[p] = tenant[p] /\ seen'[p] = seen[p]
    BY <2>1 DEF Hooked
  <2> QED BY <2>1, <2>2, <2>3, FaultUncharged
<1>3. ASSUME NEW q \in Conns, PreQuery(q) PROVE FaultInv'
  <2>1. PICK t \in Tenants : Arrive(q, t, "pre_budget") /\ ReadUsage(q, t)
    BY <1>3 DEF PreQuery
  <2>2. /\ UNCHANGED <<usage, charged>> /\ tenant'[q] = t /\ pc'[q] = "pre_budget"
        /\ \A p \in Conns : p # q => pc'[p] = pc[p] /\ tenant'[p] = tenant[p]
    BY <2>1 DEF Arrive, Goto, TypeOK, history
  <2>3. \A u \in Tenants : Admitted(u)' \subseteq Admitted(u)
    BY <2>2 DEF Admitted
  <2>4. \A p \in Hooked' \ {q} : p \in Hooked /\ tenant'[p] = tenant[p]
    BY <2>2 DEF Hooked
  <2> HIDE DEF Hooked
  <2> QED BY <1>1, <2>1, <2>2, <2>3, <2>4, FaultUncharged
<1>4. ASSUME NEW q \in Conns, PostQueryUncharged(q) PROVE FaultInv'
  <2>1. /\ UNCHANGED <<usage, charged, seen, tenant>>
        /\ pc[q] = "running" /\ pc'[q] = "idle"
        /\ \A p \in Conns : p # q => pc'[p] = pc[p]
    BY <1>4 DEF PostQueryUncharged, Goto, TypeOK, history
  <2>2. \A t \in Tenants : Admitted(t)' \subseteq Admitted(t)
    BY <2>1 DEF Admitted
  <2>3. \A p \in Hooked' : p \in Hooked /\ tenant'[p] = tenant[p] /\ seen'[p] = seen[p]
    BY <2>1 DEF Hooked, InHook
  <2> QED BY <2>1, <2>2, <2>3, FaultUncharged
<1>5. ASSUME NEW q \in Conns, PostQuery(q) PROVE FaultInv'
  <2>1. /\ UNCHANGED <<usage, charged, tenant>> /\ tenant[q] \in Tenants
        /\ ReadUsage(q, tenant[q]) /\ pc[q] = "running" /\ pc'[q] = "post_write"
        /\ \A p \in Conns : p # q => pc'[p] = pc[p]
    BY <1>5 DEF PostQuery, Goto, TypeOK, history
  <2>2. \A t \in Tenants : Admitted(t)' \subseteq Admitted(t)
    BY <2>1 DEF Admitted
  <2>3. \A p \in Hooked' \ {q} : p \in Hooked /\ tenant'[p] = tenant[p]
    BY <2>1 DEF Hooked
  <2> QED BY <1>1, <2>1, <2>2, <2>3, FaultUncharged
<1>6. ASSUME NEW t \in Tenants, Wait(t) PROVE FaultInv'
  <2>1. UNCHANGED <<usage, charged, seen, tenant, pc>>
    BY <1>6 DEF Wait
  <2> QED BY <2>1, FaultUncharged DEF Admitted, Hooked
<1>7. CASE UNCHANGED vars
  <2>1. UNCHANGED <<usage, charged, seen, tenant, pc>>
    BY <1>7 DEF vars
  <2> QED BY <2>1, FaultUncharged DEF Admitted, Hooked
<1> QED
  BY <1>2, <1>3, <1>4, <1>5, <1>6, <1>7, FaultLetIn, FaultCharged DEF Next

\* With one instance, whatever imports fail and whenever, a tenant overruns a
\* budget by at most one more budget, and a query per connection, a fault.
THEOREM OvershootPerFaultHolds == Spec => []OvershootPerFault
<1>1. Init => SerialFaultInv
  <2> SUFFICES ASSUME Init PROVE OneHook /\ FaultInv
    BY DEF SerialFaultInv
  <2>1. OneHook
    BY DEF Init, OneHook, Hooked, InHook
  <2>2. FaultInv
    <3> SUFFICES ASSUME NEW t \in Tenants, NEW w \in Windows, Limited(t, w)
                 PROVE  /\ charged[t] <= Usage(t)[w] + failed * Allowance(t, w)
                        /\ charged[t] + MaxCost * Cardinality(Admitted(t)) <
                             (1 + failed) * Allowance(t, w)
      BY DEF FaultInv, Init, Hooked, InHook
    <3>1. /\ charged[t] = 0 /\ failed = 0 /\ Admitted(t) = {} /\ Usage(t)[w] = 0
      BY DEF Init, Admitted, Usage, ValueOr, ZeroUsage, Absent
    <3>2. Cardinality(Admitted(t)) = 0
      BY <3>1, FS_EmptySet
    <3>3. PICK b \in Budgets : budget[t] = Some(b)
      BY DEF Init, Limited
    <3>4. budget[t][1][w] \in Nat /\ budget[t][1][w] > 0
      BY <3>3, SetsAssumption DEF Some, Limited
    <3>5. MaxCost * 0 = 0 /\ MaxCost * Cardinality(Conns) \in Nat
      BY AdmittedFinite, Monotone, OutcomesAssumption
    <3> DEFINE F == Allowance(t, w)
    <3>6. F \in Nat /\ F > 0
      BY <3>4, <3>5 DEF Allowance
    <3> HIDE DEF F
    <3>7. 0 * F = 0 /\ (1 + 0) * F = F
      BY <3>6
    <3> QED BY <3>1, <3>2, <3>5, <3>6, <3>7 DEF F
  <2> QED BY <2>1, <2>2
<1>2. TypeOK /\ SerialFaultInv /\ [Next]_vars => SerialFaultInv'
  <2> SUFFICES ASSUME TypeOK, SerialFaultInv, [Next]_vars, Serial'
               PROVE  OneHook' /\ FaultInv'
    BY DEF SerialFaultInv
  <2>1. Serial
    BY DEF Serial, Next, vars, config, PreQueryInvalid, PreQueryNoTenant,
           PreQuery, Arrive, PreQueryDecide, PostQueryUncharged, PostQuery,
           PostQueryWrite, Wait
  <2>2. OneHook /\ FaultInv
    BY <2>1 DEF SerialFaultInv
  <2> QED BY <2>1, <2>2, OneHookStep, FaultStep
<1>3. TypeOK /\ SerialFaultInv => OvershootPerFault
  <2> SUFFICES ASSUME TypeOK, FaultInv, NEW t \in Tenants, NEW w \in Windows,
                      Limited(t, w)
               PROVE  charged[t] < (1 + failed) * Allowance(t, w)
    BY DEF SerialFaultInv, OvershootPerFault, Limited, Allowance
  <2> DEFINE x == (1 + failed) * Allowance(t, w)
             a == MaxCost * Cardinality(Admitted(t))
  <2>1. charged[t] + a < x
    BY DEF FaultInv
  <2>2. a \in Nat /\ charged[t] \in Nat
    BY AdmittedFinite, Monotone, OutcomesAssumption DEF TypeOK
  <2>3. x \in Nat
    <3>1. failed \in Nat /\ Allowance(t, w) \in Nat
      BY AllowanceCovers, BoundsAssumption DEF TypeOK
    <3> QED BY <3>1, TimesFault
  <2> HIDE DEF x, a
  <2>4. charged[t] < x
    BY <2>1, <2>2, <2>3
  <2> QED BY <2>4 DEF x
<1> QED BY <1>1, <1>2, <1>3, TypeCorrect, PTL DEF Spec

=============================================================================
