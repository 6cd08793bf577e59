-------------------------- MODULE AiPipelineProofs ---------------------------
(* Proofs about AiPipeline: the token-budget in the pipeline is the one of  *)
(* its own module; the tags are the classifier's; the guardrail blocks what *)
(* its documentation says under a stored tag, but for four known gaps.      *)
EXTENDS AiPipeline, TokenBudgetProofs

-----------------------------------------------------------------------------
(* Types.                                                                   *)

\* A step of the pipeline is one of the token-budget, or changes nothing of it.
LEMMA BudgetStep ==
  ASSUME StagesOK, [PipelineNext]_pipelineVars PROVE [Next]_vars
<1>1. ASSUME NEW q \in Conns, GuardrailContinues(q) PROVE Next
  <2>1. req[q] \in Requests /\ req[q].attrs \in Attributes
    BY <1>1, RequestsAssumption DEF GuardrailContinues, StagesOK
  <2> QED BY <1>1, <2>1 DEF GuardrailContinues, Next
<1>2. ASSUME NEW q \in Conns, BudgetHook(q) PROVE Next
  BY <1>2 DEF BudgetHook, Next
<1>3. ASSUME NEW q \in Conns, NEW r \in Requests,
             ClassifierPreQuery(q, r) \/ WriteTag(q) \/ GuardrailBlocks(q)
      PROVE  UNCHANGED vars
  BY <1>3 DEF ClassifierPreQuery, WriteTag, GuardrailBlocks
<1>4. ASSUME NEW q \in Conns, WriteTag(q) \/ GuardrailBlocks(q)
      PROVE  UNCHANGED vars
  BY <1>4 DEF WriteTag, GuardrailBlocks
<1>5. CASE UNCHANGED pipelineVars
  BY <1>5 DEF pipelineVars
<1> QED BY <1>1, <1>2, <1>3, <1>4, <1>5 DEF PipelineNext

LEMMA BudgetHookStages ==
  ASSUME TypeOK, NEW q \in Conns, Hook(q)
  PROVE  /\ pc[q] # "idle" /\ attrs' = attrs
         /\ \A c \in Conns : c # q => pc'[c] = pc[c]
BY DEF Hook, PreQueryPass, PreQuery, Enter, PreQueryDecide, PostQueryUncharged,
       PostQuery, PostQueryWrite, Goto, TypeOK

LEMMA FirstOfSet ==
  ASSUME NEW u \in SUBSET Suffixes, u # {} PROVE First(u) \in u
BY DEF First, Suffixes

LEMMA StagesStep ==
  ASSUME TypeOK, StagesOK, [PipelineNext]_pipelineVars PROVE StagesOK'
<1> USE BoundsAssumption DEF StagesOK
<1>1. ASSUME NEW q \in Conns, NEW r \in Requests, ClassifierPreQuery(q, r)
      PROVE  StagesOK'
  <2> DEFINE found == {s \in Suffixes : r.attrs.parses /\ Classify(r)[s] # Absent}
  <2>1. /\ pc[q] = "idle" /\ UNCHANGED <<pc, attrs, tag, lost>>
        /\ stage' = [stage EXCEPT ![q] = IF found = {} THEN "guardrail" ELSE "tagging"]
        /\ req' = [req EXCEPT ![q] = r]
        /\ unsaved' = [unsaved EXCEPT ![q] = found]
        /\ arrived < MaxQueries /\ arrived' = arrived + 1
        /\ came' = IF r.attrs.parses THEN [came EXCEPT ![r.id] = @ \cup {r}] ELSE came
    BY <1>1 DEF ClassifierPreQuery, vars
  <2>2. came' \in [Ids -> SUBSET Requests]
    BY <2>1 DEF Ids
  <2>3. /\ stage' \in [Conns -> {"done", "tagging", "guardrail", "blocked", "budget"}]
        /\ req' \in [Conns -> Requests \cup {NoRequest}]
        /\ unsaved' \in [Conns -> SUBSET Suffixes]
    BY <2>1
  <2>4. ASSUME NEW c \in Conns
        PROVE  /\ pc'[c] # "idle" => stage'[c] = "budget"
               /\ stage'[c] # "done" => req'[c] \in Requests
               /\ stage'[c] = "budget" => attrs'[c] = req'[c].attrs
               /\ stage'[c] = "tagging" <=> unsaved'[c] # {}
               /\ unsaved'[c] # {} => req'[c].attrs.parses
               /\ \A s \in unsaved'[c] : Classify(req'[c])[s] # Absent
    <3>1. CASE c # q
      BY <2>1, <3>1
    <3>2. CASE c = q
      <4>1. unsaved'[c] = found /\ req'[c] = r /\ pc'[c] = "idle"
            /\ stage'[c] = IF found = {} THEN "guardrail" ELSE "tagging"
        BY <2>1, <3>2
      <4>2. \A s \in found : r.attrs.parses /\ Classify(r)[s] # Absent
        OBVIOUS
      <4> HIDE DEF found
      <4> QED BY <4>1, <4>2
    <3> QED BY <3>1, <3>2
  <2>5. arrived' \in 0 .. MaxQueries /\ lost' \in 0 .. MaxFailures
    BY <2>1
  <2> QED BY <2>1, <2>2, <2>3, <2>4, <2>5
<1>2. ASSUME NEW q \in Conns, WriteTag(q) PROVE StagesOK'
  <2> DEFINE suffix == First(unsaved[q])
  <2>1. /\ stage[q] = "tagging" /\ UNCHANGED <<pc, attrs, req, came, arrived>>
        /\ unsaved' = [unsaved EXCEPT ![q] = @ \ {suffix}]
        /\ stage' = [stage EXCEPT ![q] =
                        IF unsaved[q] = {suffix} THEN "guardrail" ELSE "tagging"]
    BY <1>2 DEF WriteTag, vars
  <2>2. DOMAIN tag' = Ids \X Suffixes /\ lost' \in 0 .. MaxFailures
    BY <1>2 DEF WriteTag
  <2>3. suffix \in unsaved[q] /\ pc[q] = "idle"
    BY <2>1, FirstOfSet
  <2> HIDE DEF suffix
  <2> QED BY <2>1, <2>2, <2>3
<1>3. ASSUME NEW q \in Conns, GuardrailBlocks(q) PROVE StagesOK'
  BY <1>3 DEF GuardrailBlocks, vars
<1>4. ASSUME NEW q \in Conns, GuardrailContinues(q) PROVE StagesOK'
  <2>1. /\ stage[q] = "guardrail" /\ stage' = [stage EXCEPT ![q] = "budget"]
        /\ pc' = [pc EXCEPT ![q] = "arrived"]
        /\ attrs' = [attrs EXCEPT ![q] = req[q].attrs]
        /\ UNCHANGED <<req, unsaved, tag, came, arrived, lost>>
        /\ DOMAIN pc = Conns /\ DOMAIN attrs = Conns
    BY <1>4 DEF GuardrailContinues, Submit, Goto, TypeOK
  <2> QED BY <2>1
<1>5. ASSUME NEW q \in Conns, BudgetHook(q) PROVE StagesOK'
  BY <1>5, BudgetHookStages DEF BudgetHook, pipeline
<1>6. CASE UNCHANGED pipelineVars
  BY <1>6 DEF pipelineVars, pipeline, vars
<1> QED BY <1>1, <1>2, <1>3, <1>4, <1>5, <1>6 DEF PipelineNext

\* Every reachable state of the pipeline has its types, and only what the
\* guardrail let go is in the token-budget's hooks.
THEOREM PipelineTypeCorrect == PipelineSpec => []PipelineTypeOK
<1>1. PipelineInit => TypeOK /\ StagesOK
  BY TypeInit, BoundsAssumption DEF PipelineInit, StagesOK, Init
<1>2. TypeOK /\ StagesOK /\ [PipelineNext]_pipelineVars => TypeOK' /\ StagesOK'
  BY BudgetStep, TypeStep, StagesStep
<1> QED BY <1>1, <1>2, PTL DEF PipelineSpec, PipelineTypeOK

\* The pipeline has the token-budget's behaviours only, so what is proved of
\* the token-budget holds in it: it implements the cost-governor.
THEOREM PipelineKeepsTheBudget ==
  PipelineSpec => Spec /\ ImplementsCostGovernor /\ []PlainPairsPayTheirOwn
<1>1. PipelineInit => Init
  BY DEF PipelineInit
<1>2. StagesOK /\ [PipelineNext]_pipelineVars => [Next]_vars
  BY BudgetStep
<1>3. PipelineSpec => Spec
  BY <1>1, <1>2, PipelineTypeCorrect, PTL DEF PipelineSpec, Spec, PipelineTypeOK
<1> QED BY <1>3, Refinement, PlainPairsAreCharged, PTL

-----------------------------------------------------------------------------
(* The guardrail.                                                           *)

LEMMA DeclaredIsAiTraffic ==
  ASSUME NEW r PROVE DeclaredAi(r) <=> IsAiTraffic(r)
BY DEF DeclaredAi, IsAiTraffic, Classify, Result, Some, Absent

LEMMA AiTrafficIsTagged ==
  ASSUME NEW r, IsAiTraffic(r) PROVE Classify(r)["ai_traffic"] = Some("true")
BY DEF IsAiTraffic, Classify, Result

\* Of a plain statement, the guardrail's look at the text sees what it does,
\* and only the tenant rule for a write is not looked at.
LEMMA PlainStatements ==
  ASSUME NEW s, Plain(s)
  PROVE  /\ Evaluate(s) = "block" => Forbidden(s)
         /\ Evaluate(s) = "allow" /\ Forbidden(s) => TenantOfWrite(s)
<1>1. Evaluate(s) \in {"block", "allow"} /\ "block" # "allow"
  BY DEF Evaluate
<1>2. Evaluate(s) = "block" <=>
         \/ s.opens \in {"drop", "truncate"}
         \/ s.opens \in {"delete", "update"} /\ " where " \notin s.has
         \/ /\ s.opens = "select"
            /\ s.from # Absent
            /\ \/ s.from[1] \in LARGE_TABLES /\ " limit " \notin s.has
               \/ s.from[1] \in TENANT_SCOPED_TABLES /\ "tenant_id" \notin s.has
  BY DEF Evaluate
<1>3. CASE s.verb # "select"
  <2>1. Evaluate(s) = "block" <=> Destroys(s) \/ Unbounded(s)
    BY <1>2, <1>3 DEF Plain, Destroys, Unbounded
  <2>2. ~Unlimited(s)
    BY <1>3 DEF Unlimited
  <2> QED BY <1>1, <1>3, <2>1, <2>2 DEF Forbidden, TenantOfWrite
<1>4. CASE s.verb = "select"
  <2>1. Evaluate(s) = "block" <=> Unlimited(s) \/ Unfiltered(s)
    <3>1. CASE s.reads = {} /\ s.from = Absent
      BY <1>2, <1>4, <3>1 DEF Plain, Unlimited, Unfiltered
    <3>2. ASSUME NEW t \in s.reads, s.reads = {t}, s.from = Some(t)
          PROVE  Evaluate(s) = "block" <=> Unlimited(s) \/ Unfiltered(s)
      <4>1. s.from # Absent /\ s.from[1] = t
        BY <3>2 DEF Some, Absent
      <4>2. \A T : s.reads \cap T # {} <=> t \in T
        BY <3>2
      <4> QED BY <1>2, <1>4, <4>1, <4>2 DEF Plain, Unlimited, Unfiltered
    <3> QED BY <1>4, <3>1, <3>2 DEF Plain
  <2>2. ~Destroys(s) /\ ~Unbounded(s)
    BY <1>4 DEF Destroys, Unbounded
  <2> QED BY <1>1, <2>1, <2>2 DEF Forbidden
<1> QED BY <1>3, <1>4

\* Where the guardrail has put a request.
GuardInv ==
  \A q \in Conns :
    LET r == req[q]
    IN  /\ stage[q] = "blocked" =>
              r.attrs.parses /\ IsAiTraffic(r) /\ Evaluate(r.sql) = "block"
        /\ stage[q] = "budget" =>
              (r.attrs.parses /\ IsAiTraffic(r) => Evaluate(r.sql) = "allow")

LEMMA GuardStep ==
  ASSUME StagesOK, GuardInv, [PipelineNext]_pipelineVars PROVE GuardInv'
<1> USE DEF StagesOK
<1>1. ASSUME NEW q \in Conns, stage' = [stage EXCEPT ![q] = stage'[q]],
             \A c \in Conns : c # q => req'[c] = req[c],
             stage'[q] \notin {"blocked", "budget"}
      PROVE  GuardInv'
  BY <1>1 DEF GuardInv
<1>2. ASSUME NEW q \in Conns, NEW r \in Requests, ClassifierPreQuery(q, r)
      PROVE  GuardInv'
  BY <1>1, <1>2 DEF ClassifierPreQuery
<1>3. ASSUME NEW q \in Conns, WriteTag(q) PROVE GuardInv'
  BY <1>1, <1>3 DEF WriteTag
<1>4. ASSUME NEW q \in Conns, GuardrailBlocks(q) PROVE GuardInv'
  BY <1>4 DEF GuardrailBlocks, GuardInv
<1>5. ASSUME NEW q \in Conns, GuardrailContinues(q) PROVE GuardInv'
  BY <1>5 DEF GuardrailContinues, GuardInv
<1>6. CASE UNCHANGED <<stage, req>>
  BY <1>6 DEF GuardInv
<1> QED
  BY <1>2, <1>3, <1>4, <1>5, <1>6
     DEF PipelineNext, BudgetHook, pipelineVars, pipeline

THEOREM GuardCorrect == PipelineSpec => []GuardInv
<1>1. PipelineInit => GuardInv
  BY DEF PipelineInit, GuardInv
<1>2. StagesOK /\ GuardInv /\ [PipelineNext]_pipelineVars => GuardInv'
  BY GuardStep
<1> QED
  BY <1>1, <1>2, PipelineTypeCorrect, PTL DEF PipelineSpec, PipelineTypeOK

-----------------------------------------------------------------------------
(* The classifier's tags.                                                   *)

\* A tag says what the classifier found in a request of its id; what it finds
\* in a request is stored or still to be, of the requests that came and of
\* those that are with a plugin.
TagsInv ==
  /\ \A q \in Conns : stage[q] # "done" /\ req[q].attrs.parses =>
        req[q] \in came[req[q].id]
  /\ \A id \in Ids : \A r \in came[id] : r.id = id /\ r.attrs.parses
  /\ \A id \in Ids, s \in Suffixes : tag[<<id, s>>] # Absent =>
        \E r \in came[id] : tag[<<id, s>>] = Classify(r)[s]
  /\ AllStored =>
        /\ \A id \in Ids, s \in Suffixes : \A r \in came[id] :
              Classify(r)[s] # Absent =>
                  \/ tag[<<id, s>>] # Absent
                  \/ \E q \in Conns : req[q] = r /\ s \in unsaved[q]
        /\ \A q \in Conns, s \in Suffixes :
              stage[q] # "done" /\ req[q].attrs.parses
              /\ Classify(req[q])[s] # Absent =>
                  tag[<<req[q].id, s>>] # Absent \/ s \in unsaved[q]

LEMMA TagsComeStep ==
  ASSUME StagesOK, TagsInv, NEW q \in Conns, NEW r \in Requests,
         ClassifierPreQuery(q, r)
  PROVE  TagsInv'
<1> DEFINE found == {s \in Suffixes : r.attrs.parses /\ Classify(r)[s] # Absent}
<1>1. /\ UNCHANGED <<tag, lost>> /\ stage[q] # "tagging" /\ unsaved[q] = {}
      /\ stage' = [stage EXCEPT ![q] = IF found = {} THEN "guardrail" ELSE "tagging"]
      /\ req' = [req EXCEPT ![q] = r]
      /\ unsaved' = [unsaved EXCEPT ![q] = found]
      /\ came' = IF r.attrs.parses THEN [came EXCEPT ![r.id] = @ \cup {r}] ELSE came
  BY DEF ClassifierPreQuery, StagesOK
<1>2. /\ req' \in [Conns -> Requests \cup {NoRequest}] /\ req'[q] = r
      /\ unsaved'[q] = found
      /\ \A c \in Conns : c # q => /\ stage'[c] = stage[c] /\ req'[c] = req[c]
                                   /\ unsaved'[c] = unsaved[c]
  BY <1>1 DEF StagesOK
<1>3. r.id \in Ids /\ came \in [Ids -> SUBSET Requests]
  BY DEF Ids, StagesOK
<1>4. /\ \A id \in Ids : came[id] \subseteq came'[id]
      /\ \A id \in Ids : \A x \in came'[id] :
            x \in came[id] \/ (x = r /\ id = r.id /\ r.attrs.parses)
      /\ r.attrs.parses => r \in came'[r.id]
  BY <1>1, <1>3
<1>5. \A s \in Suffixes : r.attrs.parses /\ Classify(r)[s] # Absent => s \in found
  OBVIOUS
<1> HIDE DEF found
<1>6. \A c \in Conns : stage'[c] # "done" /\ req'[c].attrs.parses =>
         req'[c] \in came'[req'[c].id]
  <2> SUFFICES ASSUME NEW c \in Conns, stage'[c] # "done", req'[c].attrs.parses
               PROVE  req'[c] \in came'[req'[c].id]
    OBVIOUS
  <2>1. CASE c = q
    BY <1>2, <1>4, <2>1
  <2>2. CASE c # q
    <3>1. stage[c] # "done" /\ req'[c] = req[c] /\ req[c] \in Requests
      BY <1>2, <2>2 DEF StagesOK
    <3>2. req[c] \in came[req[c].id] /\ req[c].id \in Ids
      BY <3>1 DEF TagsInv, Ids
    <3> QED BY <1>4, <3>1, <3>2
  <2> QED BY <2>1, <2>2
<1>7. \A id \in Ids : \A x \in came'[id] : x.id = id /\ x.attrs.parses
  BY <1>4 DEF TagsInv
<1>8. \A id \in Ids, s \in Suffixes : tag[<<id, s>>] # Absent =>
         \E x \in came'[id] : tag[<<id, s>>] = Classify(x)[s]
  <2> SUFFICES ASSUME NEW id \in Ids, NEW s \in Suffixes, tag[<<id, s>>] # Absent
               PROVE  \E x \in came'[id] : tag[<<id, s>>] = Classify(x)[s]
    OBVIOUS
  <2>1. PICK x \in came[id] : tag[<<id, s>>] = Classify(x)[s]
    BY DEF TagsInv
  <2>2. x \in came'[id]
    BY <1>4
  <2> QED BY <2>1, <2>2
<1>9. ASSUME AllStored, NEW id \in Ids, NEW s \in Suffixes, NEW x \in came'[id],
             Classify(x)[s] # Absent, tag[<<id, s>>] = Absent
      PROVE  \E c \in Conns : req'[c] = x /\ s \in unsaved'[c]
  <2>1. CASE x \in came[id]
    <3>1. PICK c \in Conns : req[c] = x /\ s \in unsaved[c]
      BY <1>9, <2>1 DEF TagsInv
    <3>2. c # q
      BY <1>1, <3>1
    <3> QED BY <1>2, <3>1, <3>2
  <2>2. CASE x = r /\ r.attrs.parses
    BY <1>2, <1>5, <1>9, <2>2
  <2> QED BY <1>4, <2>1, <2>2
<1>10. ASSUME AllStored, NEW c \in Conns, NEW s \in Suffixes, stage'[c] # "done",
              req'[c].attrs.parses, Classify(req'[c])[s] # Absent,
              tag[<<req'[c].id, s>>] = Absent
       PROVE  s \in unsaved'[c]
  <2>1. CASE c = q
    BY <1>2, <1>5, <1>10, <2>1
  <2>2. CASE c # q
    BY <1>2, <1>10, <2>2 DEF TagsInv
  <2> QED BY <2>1, <2>2
<1> QED
  BY <1>1, <1>6, <1>7, <1>8, <1>9, <1>10 DEF TagsInv, AllStored

LEMMA TagsWriteStep ==
  ASSUME StagesOK, TagsInv, NEW q \in Conns, WriteTag(q) PROVE TagsInv'
<1> DEFINE r == req[q]
           suffix == First(unsaved[q])
           k == <<r.id, suffix>>
<1>1. /\ stage[q] = "tagging" /\ UNCHANGED <<req, came>>
      /\ unsaved' = [unsaved EXCEPT ![q] = @ \ {suffix}]
      /\ stage' = [stage EXCEPT ![q] =
                      IF unsaved[q] = {suffix} THEN "guardrail" ELSE "tagging"]
  BY DEF WriteTag
<1>2. \/ tag' = [tag EXCEPT ![k] = Classify(r)[suffix]] /\ lost' = lost
      \/ tag' = tag /\ lost' = lost + 1
  BY DEF WriteTag, ReqKey
<1>3. /\ suffix \in unsaved[q] /\ suffix \in Suffixes /\ r \in Requests /\ r.id \in Ids
      /\ r.attrs.parses /\ Classify(r)[suffix] # Absent /\ lost \in Nat
  <2>1. unsaved[q] # {} /\ unsaved[q] \in SUBSET Suffixes /\ r \in Requests
    BY <1>1 DEF StagesOK
  <2>2. suffix \in unsaved[q]
    BY <2>1, FirstOfSet
  <2> QED BY <2>1, <2>2, BoundsAssumption DEF StagesOK, Ids
<1>4. r \in came[r.id]
  BY <1>1, <1>3 DEF TagsInv
<1> HIDE DEF suffix
<1>5. \A id \in Ids, s \in Suffixes :
         /\ tag'[<<id, s>>] # Absent => \E x \in came[id] : tag'[<<id, s>>] = Classify(x)[s]
         /\ tag[<<id, s>>] # Absent => tag'[<<id, s>>] # Absent
  <2> SUFFICES ASSUME NEW id \in Ids, NEW s \in Suffixes
               PROVE  /\ tag'[<<id, s>>] # Absent =>
                            \E x \in came[id] : tag'[<<id, s>>] = Classify(x)[s]
                      /\ tag[<<id, s>>] # Absent => tag'[<<id, s>>] # Absent
    OBVIOUS
  <2>1. DOMAIN tag = Ids \X Suffixes
    BY DEF StagesOK
  <2>2. CASE tag'[<<id, s>>] = tag[<<id, s>>]
    BY <2>2 DEF TagsInv
  <2>3. CASE tag'[<<id, s>>] # tag[<<id, s>>]
    <3>1. id = r.id /\ s = suffix /\ tag'[<<id, s>>] = Classify(r)[suffix]
      BY <1>2, <1>3, <2>1, <2>3
    <3> QED BY <1>3, <1>4, <3>1
  <2> QED BY <2>2, <2>3
<1>6. ASSUME AllStored'
      PROVE  AllStored /\ tag'[k] # Absent
  <2>1. lost = 0 /\ tag' = [tag EXCEPT ![k] = Classify(r)[suffix]]
    BY <1>2, <1>3, <1>6 DEF AllStored
  <2> QED BY <1>3, <2>1 DEF AllStored, StagesOK
<1>7. ASSUME AllStored', NEW id \in Ids, NEW s \in Suffixes, NEW x \in came[id],
             Classify(x)[s] # Absent, tag'[<<id, s>>] = Absent
      PROVE  \E c \in Conns : req[c] = x /\ s \in unsaved'[c]
  <2>1. PICK c \in Conns : req[c] = x /\ s \in unsaved[c]
    BY <1>5, <1>6, <1>7 DEF TagsInv
  <2>2. CASE c # q \/ s # suffix
    BY <1>1, <2>1, <2>2 DEF StagesOK
  <2>3. CASE c = q /\ s = suffix
    <3>1. id = r.id
      BY <1>7, <2>1, <2>3 DEF TagsInv
    <3> QED BY <1>6, <1>7, <2>3, <3>1
  <2> QED BY <2>1, <2>2, <2>3
<1>8. ASSUME AllStored', NEW c \in Conns, NEW s \in Suffixes, stage'[c] # "done",
             req[c].attrs.parses, Classify(req[c])[s] # Absent,
             tag'[<<req[c].id, s>>] = Absent
      PROVE  s \in unsaved'[c]
  <2>1. stage[c] # "done" /\ req[c].id \in Ids
    BY <1>1, <1>8 DEF StagesOK, Ids
  <2>2. s \in unsaved[c]
    BY <1>5, <1>6, <1>8, <2>1 DEF TagsInv
  <2>3. CASE c # q \/ s # suffix
    BY <1>1, <2>2, <2>3 DEF StagesOK
  <2>4. CASE c = q /\ s = suffix
    BY <1>6, <1>8, <2>4
  <2> QED BY <2>3, <2>4
<1>9. \A c \in Conns : stage'[c] # "done" => stage[c] # "done"
  BY <1>1 DEF StagesOK
<1> QED
  BY <1>1, <1>5, <1>7, <1>8, <1>9 DEF TagsInv

LEMMA TagsStep ==
  ASSUME StagesOK, TagsInv, [PipelineNext]_pipelineVars PROVE TagsInv'
<1>1. ASSUME NEW q \in Conns, GuardrailBlocks(q) \/ GuardrailContinues(q)
      PROVE  TagsInv'
  <2>1. /\ UNCHANGED <<req, unsaved, tag, came, lost>> /\ stage[q] # "done"
        /\ \A c \in Conns : c # q => stage'[c] = stage[c]
    BY <1>1 DEF GuardrailBlocks, GuardrailContinues, StagesOK
  <2>2. \A c \in Conns : stage'[c] # "done" => stage[c] # "done"
    BY <2>1
  <2> QED BY <2>1, <2>2 DEF TagsInv, AllStored
<1>2. CASE UNCHANGED <<stage, req, unsaved, tag, came, lost>>
  BY <1>2 DEF TagsInv, AllStored
<1> QED
  BY <1>1, <1>2, TagsComeStep, TagsWriteStep
     DEF PipelineNext, BudgetHook, pipelineVars, pipeline

THEOREM TagsCorrect == PipelineSpec => []TagsInv
<1>1. PipelineInit => TagsInv
  BY DEF PipelineInit, TagsInv
<1>2. StagesOK /\ TagsInv /\ [PipelineNext]_pipelineVars => TagsInv'
  BY TagsStep
<1> QED
  BY <1>1, <1>2, PipelineTypeCorrect, PTL DEF PipelineSpec, PipelineTypeOK

\* Whatever requests share an id and in whichever order their tags are
\* written, a tag is the classifier's finding in a request of that id, and
\* all findings in the only request of an id are stored once it is tagged.
THEOREM TagsAreOfOwnRequests == PipelineSpec => []TagsOfOwnRequests
<1>1. StagesOK /\ TagsInv => TagsOfOwnRequests
  <2> SUFFICES ASSUME StagesOK, TagsInv PROVE TagsOfOwnRequests
    OBVIOUS
  <2>1. ASSUME NEW id \in Ids, NEW s \in Suffixes, tag[<<id, s>>] # Absent
        PROVE  \E r \in came[id] : tag[<<id, s>>] = Classify(r)[s]
    BY <2>1 DEF TagsInv
  <2>2. ASSUME NEW id \in Ids, AllStored,
               \A q \in Conns : stage[q] = "tagging" => req[q].id # id,
               NEW r \in came[id], came[id] = {r}, NEW s \in Suffixes
        PROVE  tag[<<id, s>>] = Classify(r)[s]
    <3>1. CASE tag[<<id, s>>] # Absent
      BY <2>1, <2>2, <3>1
    <3>2. CASE tag[<<id, s>>] = Absent
      <4>1. r.id = id
        BY DEF TagsInv
      <4>2. ~\E q \in Conns : req[q] = r /\ s \in unsaved[q]
        BY <2>2, <4>1 DEF StagesOK
      <4> QED BY <2>2, <3>2, <4>2 DEF TagsInv
    <3> QED BY <3>1, <3>2
  <2> QED BY <2>1, <2>2 DEF TagsOfOwnRequests
<1> QED BY <1>1, PipelineTypeCorrect, TagsCorrect, PTL DEF PipelineTypeOK

\* Unless the host fails, every request the guardrail blocks is one whose tag
\* says that it is AI traffic.
THEOREM BlockedAreTagged == PipelineSpec => []BlockedIsTagged
<1>1. StagesOK /\ GuardInv /\ TagsInv => BlockedIsTagged
  <2> SUFFICES ASSUME StagesOK, GuardInv, TagsInv, AllStored,
                      NEW q \in Conns, stage[q] = "blocked"
               PROVE  tag[<<req[q].id, "ai_traffic">>] = Some("true")
    BY DEF BlockedIsTagged, ReqKey
  <2>1. /\ req[q] \in Requests /\ req[q].id \in Ids /\ unsaved[q] = {}
        /\ req[q].attrs.parses /\ IsAiTraffic(req[q]) /\ "ai_traffic" \in Suffixes
    BY DEF StagesOK, GuardInv, Ids, Suffixes
  <2>2. Classify(req[q])["ai_traffic"] = Some("true") /\ Some("true") # Absent
    BY <2>1, AiTrafficIsTagged DEF Some, Absent
  <2>3. tag[<<req[q].id, "ai_traffic">>] # Absent
    BY <2>1, <2>2 DEF TagsInv
  <2>4. PICK r \in came[req[q].id] :
           tag[<<req[q].id, "ai_traffic">>] = Classify(r)["ai_traffic"]
    BY <2>1, <2>3 DEF TagsInv
  <2>5. Classify(r)["ai_traffic"] \in {Absent, Some("true")}
    BY DEF Classify, Result
  <2> QED BY <2>3, <2>4, <2>5
<1> QED
  BY <1>1, PipelineTypeCorrect, GuardCorrect, TagsCorrect, PTL DEF PipelineTypeOK

\* Whatever requests come, together or again, and whichever tags are written
\* or lost: a forbidden statement gets past the guardrail under a stored tag
\* only with a tag of another request, by a marker alone, by a text that does
\* not show what it does, or as a write that lacks no more than the tenant_id.
THEOREM GuardrailGapsAreKnown == PipelineSpec => []GuardrailGapsKnown
<1>1. StagesOK /\ GuardInv /\ TagsInv => GuardrailGapsKnown
  <2> SUFFICES ASSUME StagesOK, GuardInv, TagsInv, NEW q \in Conns
               PROVE  LET r == req[q]
                      IN  /\ stage[q] = "budget" /\ Forbidden(r.sql)
                             /\ tag[<<r.id, "ai_traffic">>] = Some("true") =>
                                 \/ BorrowedTag(r) \/ MarkedOnly(r)
                                 \/ ~Plain(r.sql) \/ TenantOfWrite(r.sql)
                          /\ stage[q] = "blocked" =>
                                 DeclaredAi(r) /\ (Forbidden(r.sql) \/ ~Plain(r.sql))
    BY DEF GuardrailGapsKnown, ReqKey
  <2> DEFINE r == req[q]
  <2>1. ASSUME stage[q] = "blocked"
        PROVE  DeclaredAi(r) /\ (Forbidden(r.sql) \/ ~Plain(r.sql))
    BY <2>1, DeclaredIsAiTraffic, PlainStatements DEF GuardInv
  <2>2. ASSUME stage[q] = "budget", Forbidden(r.sql), Plain(r.sql), Flagged(r)
        PROVE  MarkedOnly(r) \/ TenantOfWrite(r.sql)
    <3>1. CASE DeclaredAi(r)
      <4>1. Evaluate(r.sql) = "allow"
        BY <2>2, <3>1, DeclaredIsAiTraffic DEF GuardInv, Flagged
      <4> QED BY <2>2, <4>1, PlainStatements
    <3>2. CASE ~DeclaredAi(r)
      <4>1. ~Hints(r.app) /\ ~r.ai
        BY <3>2, DeclaredIsAiTraffic DEF IsAiTraffic
      <4>2. r.sql.has \cap GENERATED_MARKERS # {}
        BY <2>2, <4>1 DEF Flagged, Classify, Result
      <4> QED BY <3>2, <4>2 DEF MarkedOnly
    <3> QED BY <3>1, <3>2
  <2>3. ASSUME stage[q] = "budget", tag[<<r.id, "ai_traffic">>] = Some("true"),
               ~Flagged(r)
        PROVE  BorrowedTag(r)
    <3>1. r.id \in Ids /\ "ai_traffic" \in Suffixes
      BY <2>3 DEF StagesOK, Ids, Suffixes
    <3>2. PICK other \in came[r.id] : Some("true") = Classify(other)["ai_traffic"]
      BY <2>3, <3>1 DEF TagsInv, Some, Absent
    <3>3. Flagged(other)
      BY <3>1, <3>2 DEF TagsInv, Flagged, Some, Absent
    <3> QED BY <2>3, <3>2, <3>3 DEF BorrowedTag
  <2> QED BY <2>1, <2>2, <2>3
<1> QED
  BY <1>1, PipelineTypeCorrect, GuardCorrect, TagsCorrect, PTL DEF PipelineTypeOK
=============================================================================
