----------------------------- MODULE AiPipeline -----------------------------
(* The plugins for AI traffic, in the order their manifests ask for: the    *)
(* ai-classifier (src/ai-classifier/src/lib.rs) tags a request in its key   *)
(* values, the llm-guardrail (src/llm-guardrail/src/lib.rs) blocks some     *)
(* statements, the token-budget (module TokenBudget) charges for the rest.  *)
(* They share nothing but the request. A text is modelled as the set of the *)
(* known words it contains, in lower case; a statement by what it does and  *)
(* by what the plugins find in its text.                                    *)
EXTENDS TokenBudget

CONSTANTS Requests   \* the requests that may come, one a query

VARIABLES stage,   \* stage[q]: which plugin has the request on connection q
          req,     \* req[q]: that request, NoRequest before the first
          unsaved, \* unsaved[q]: tags the classifier has yet to write
          tag,     \* the classifier's keys, Absent or a value
          came,    \* came[id]: requests classified under that id (history)
          arrived, \* number of requests so far
          lost     \* number of tag writes that failed so far

pipeline     == <<stage, req, unsaved, tag, came, arrived, lost>>
pipelineVars == <<pipeline, vars>>

-----------------------------------------------------------------------------
HINT_KEYWORDS == {"gpt", "claude", "gemini", "llm", "chatbot", "agent",
                  "openai", "anthropic"}
GENERATED_MARKERS == {"/* generated", "-- generated", "-- gpt-", "/* by ai",
                      "-- by claude"}
MODELS == <<"claude-opus", "claude-sonnet", "claude-haiku", "gpt-4", "gpt-3.5",
            "gemini">>
TENANT_SCOPED_TABLES == {"users", "orders", "events", "messages"}
LARGE_TABLES         == {"events", "messages"}

Verbs    == {"drop", "truncate", "delete", "update", "select", "other"}
Suffixes == {"ai_traffic", "agent_id", "model_id"}
Ids      == {r.id : r \in Requests}

\* A request: its id, whether its context parses, the attributes
\* application_name (name and words), helios.ai_traffic, helios.agent_id and
\* helios.model_id, those the token-budget reads, and a statement: the verb,
\* the tables it reads and the clauses it has; the word its text opens with
\* when a space follows, the table behind the first " from ", and the words
\* the plugins look for.
IsStatement(s) ==
    /\ s.verb \in Verbs /\ s.opens \in Verbs
    /\ s.from = Absent \/ s.from[1] \in STRING
    /\ s.reads \subseteq STRING
    /\ s.clauses \subseteq {"where", "limit", "tenant_id"}
    /\ s.has \subseteq STRING
ASSUME RequestsAssumption ==
    /\ IsFiniteSet(Requests)
    /\ \A r \in Requests :
          /\ r.id \in STRING
          /\ r.app = Absent \/ r.app[1].has \subseteq STRING
          /\ r.ai \in BOOLEAN
          /\ r.attrs \in Attributes
          /\ IsStatement(r.sql)

NoRequest == [id |-> "no request"]

Hints(app) == app # Absent /\ app[1].has \cap HINT_KEYWORDS # {}

\* guess_model: the first model of the list that the text contains.
GuessModel(has) ==
    LET known == SelectSeq(MODELS, LAMBDA m : m \in has)
    IN  IF known = <<>> THEN Absent ELSE Some(known[1])

Result(ai, agent, model) ==
    [ai_traffic |-> IF ai THEN Some("true") ELSE Absent,
     agent_id   |-> agent,
     model_id   |-> model]

\* Bug: the session variable is only looked at when there is no name.
ClassifyNamed(r) ==
    IF r.app # Absent
    THEN Result(Hints(r.app), Some(r.app[1].name), GuessModel(r.app[1].has))
    ELSE IF r.ai THEN Result(TRUE, r.agent, r.model)
    ELSE Result(r.sql.has \cap GENERATED_MARKERS # {}, Absent, GuessModel(r.sql.has))

\* classify: the name of the application, then the session variable, then a
\* marker in the statement.
Classify(r) ==
    IF Hints(r.app)
    THEN Result(TRUE, Some(r.app[1].name), GuessModel(r.app[1].has))
    ELSE IF r.ai THEN Result(TRUE, r.agent, r.model)
    ELSE IF r.sql.has \cap GENERATED_MARKERS # {}
    THEN Result(TRUE, Absent, GuessModel(r.sql.has))
    ELSE Result(FALSE, Absent, Absent)

\* Bug: the key leaves the request out.
ReqKeyShared(id, suffix) == <<CHOOSE i \in Ids : TRUE, suffix>>

ReqKey(id, suffix) == <<id, suffix>>

\* The tags are written in this order.
First(suffixes) ==
    IF "ai_traffic" \in suffixes THEN "ai_traffic"
    ELSE IF "agent_id" \in suffixes THEN "agent_id"
    ELSE "model_id"

-----------------------------------------------------------------------------
\* is_ai_traffic: the guardrail's own copy of the first two heuristics.
IsAiTraffic(r) == Hints(r.app) \/ r.ai

\* Bug: an UPDATE is not asked for a WHERE.
EvaluateNoUpdate(s) ==
    IF \/ s.opens \in {"drop", "truncate"}
       \/ s.opens = "delete" /\ " where " \notin s.has
       \/ /\ s.opens = "select"
          /\ s.from # Absent
          /\ \/ s.from[1] \in LARGE_TABLES /\ " limit " \notin s.has
             \/ s.from[1] \in TENANT_SCOPED_TABLES /\ "tenant_id" \notin s.has
    THEN "block" ELSE "allow"

\* evaluate: on the text alone, and on the first table alone.
Evaluate(s) ==
    IF \/ s.opens \in {"drop", "truncate"}
       \/ s.opens \in {"delete", "update"} /\ " where " \notin s.has
       \/ /\ s.opens = "select"
          /\ s.from # Absent
          /\ \/ s.from[1] \in LARGE_TABLES /\ " limit " \notin s.has
             \/ s.from[1] \in TENANT_SCOPED_TABLES /\ "tenant_id" \notin s.has
    THEN "block" ELSE "allow"

-----------------------------------------------------------------------------
PipelineInit ==
    /\ Init
    /\ stage = [q \in Conns |-> "done"]
    /\ req = [q \in Conns |-> NoRequest]
    /\ unsaved = [q \in Conns |-> {}]
    /\ tag = [k \in Ids \X Suffixes |-> Absent]
    /\ came = [id \in Ids |-> {}]
    /\ arrived = 0
    /\ lost = 0

\* A request comes when the connection has answered the one before, and the
\* classifier's pre_query runs to its first host call: the tags it finds are
\* those to write. A context that does not parse is answered
\* with 0 and goes on.
ClassifierPreQuery(q, r) ==
    LET found == {s \in Suffixes : r.attrs.parses /\ Classify(r)[s] # Absent}
    IN  /\ stage[q] \in {"done", "blocked", "budget"} /\ pc[q] = "idle"
        /\ arrived < MaxQueries
        /\ arrived' = arrived + 1
        /\ stage' = [stage EXCEPT ![q] =
                        IF found = {} THEN "guardrail" ELSE "tagging"]
        /\ req' = [req EXCEPT ![q] = r]
        /\ unsaved' = [unsaved EXCEPT ![q] = found]
        /\ came' = IF r.attrs.parses THEN [came EXCEPT ![r.id] = @ \cup {r}]
                   ELSE came
        /\ UNCHANGED <<vars, tag, lost>>

\* Bug: the classifier is done after its first tag.
WriteTagOnce(q) ==
    LET suffix == First(unsaved[q])
    IN  /\ stage[q] = "tagging"
        /\ unsaved' = [unsaved EXCEPT ![q] = @ \ {suffix}]
        /\ stage' = [stage EXCEPT ![q] = "guardrail"]
        /\ tag' = [tag EXCEPT ![ReqKey(req[q].id, suffix)] = Classify(req[q])[suffix]]
        /\ UNCHANGED <<vars, req, came, arrived, lost>>

\* One kv_write of a tag; its status is dropped, and nothing deletes one.
WriteTag(q) ==
    LET r == req[q]
        suffix == First(unsaved[q])
    IN  /\ stage[q] = "tagging"
        /\ unsaved' = [unsaved EXCEPT ![q] = @ \ {suffix}]
        /\ stage' = [stage EXCEPT ![q] =
                        IF unsaved[q] = {suffix} THEN "guardrail" ELSE "tagging"]
        /\ \/ /\ tag' = [tag EXCEPT ![ReqKey(r.id, suffix)] = Classify(r)[suffix]]
              /\ UNCHANGED lost
           \/ /\ lost < MaxFailures
              /\ lost' = lost + 1
              /\ UNCHANGED tag
        /\ UNCHANGED <<vars, req, came, arrived>>

\* The guardrail's pre_query blocks: the request ends here ...
GuardrailBlocks(q) ==
    /\ stage[q] = "guardrail"
    /\ req[q].attrs.parses /\ IsAiTraffic(req[q])
    /\ Evaluate(req[q].sql) = "block"
    /\ stage' = [stage EXCEPT ![q] = "blocked"]
    /\ UNCHANGED <<vars, req, unsaved, tag, came, arrived, lost>>

\* ... or it continues, and the token-budget is next.
GuardrailContinues(q) ==
    /\ stage[q] = "guardrail"
    /\ req[q].attrs.parses /\ IsAiTraffic(req[q]) =>
          Evaluate(req[q].sql) = "allow"
    /\ stage' = [stage EXCEPT ![q] = "budget"]
    /\ Submit(q, req[q].attrs)
    /\ UNCHANGED <<req, unsaved, tag, came, arrived, lost>>

BudgetHook(q) == Hook(q) /\ UNCHANGED pipeline

PipelineNext ==
    \E q \in Conns :
        \/ \E r \in Requests : ClassifierPreQuery(q, r)
        \/ WriteTag(q)
        \/ GuardrailBlocks(q)
        \/ GuardrailContinues(q)
        \/ BudgetHook(q)

PipelineSpec == PipelineInit /\ [][PipelineNext]_pipelineVars

-----------------------------------------------------------------------------
(* Properties.                                                              *)

StagesOK ==
    /\ stage \in [Conns -> {"done", "tagging", "guardrail",
                            "blocked", "budget"}]
    /\ req \in [Conns -> Requests \cup {NoRequest}]
    /\ unsaved \in [Conns -> SUBSET Suffixes]
    /\ \A q \in Conns :
          /\ pc[q] # "idle" => stage[q] = "budget"
          /\ stage[q] # "done" => req[q] \in Requests
          /\ stage[q] = "budget" => attrs[q] = req[q].attrs
          /\ stage[q] = "tagging" <=> unsaved[q] # {}
          /\ unsaved[q] # {} => req[q].attrs.parses
          /\ \A s \in unsaved[q] : Classify(req[q])[s] # Absent
    /\ DOMAIN tag = Ids \X Suffixes
    /\ came \in [Ids -> SUBSET Requests]
    /\ arrived \in 0 .. MaxQueries
    /\ lost \in 0 .. MaxFailures

\* Types of the variables, the token-budget's with them: only a request the
\* guardrail let go is under way in the budget's hooks.
PipelineTypeOK == TypeOK /\ StagesOK

AllStored == lost = 0

\* What the guardrail blocks, the classifier has tagged: the guardrail's copy
\* of the heuristics finds nothing the classifier would not, and by the time
\* it decides the tag is stored, unless the host has failed.
BlockedIsTagged ==
    AllStored => \A q \in Conns :
        stage[q] = "blocked" => tag[ReqKey(req[q].id, "ai_traffic")] = Some("true")

\* The tags under an id say what the classifier found in some request of that
\* id, and when there was only one, all it found in it - whatever the other
\* connections do and in whichever order their writes come.
TagsOfOwnRequests ==
    \A id \in Ids :
        /\ \A s \in Suffixes : tag[<<id, s>>] # Absent =>
              \E r \in came[id] : tag[<<id, s>>] = Classify(r)[s]
        /\ AllStored /\ (\A q \in Conns : stage[q] = "tagging" => req[q].id # id) =>
              \A r \in came[id] : came[id] = {r} =>
                  \A s \in Suffixes : tag[<<id, s>>] = Classify(r)[s]

\* What the guardrail's documentation has it reject, rule by rule: whatever
\* DROPs or TRUNCATEs, a DELETE or UPDATE without WHERE, a SELECT on a large
\* table without LIMIT, and a statement, whatever its verb, on rows of a
\* tenant-scoped table without the tenant_id filter.
Destroys(s)   == s.verb \in {"drop", "truncate"}
Unbounded(s)  == s.verb \in {"delete", "update"} /\ "where" \notin s.clauses
Unlimited(s)  == /\ s.verb = "select" /\ "limit" \notin s.clauses
                 /\ s.reads \cap LARGE_TABLES # {}
Unfiltered(s) == /\ s.reads \cap TENANT_SCOPED_TABLES # {}
                 /\ "tenant_id" \notin s.clauses
Forbidden(s)  == Destroys(s) \/ Unbounded(s) \/ Unlimited(s) \/ Unfiltered(s)

\* A statement whose text shows what it does: nothing in front of the verb,
\* a SELECT of one table at most, and the words of a clause only where the
\* clause is.
Plain(s) ==
    /\ s.opens = s.verb
    /\ s.verb = "select" =>
          \/ s.reads = {} /\ s.from = Absent
          \/ \E t \in s.reads : s.reads = {t} /\ s.from = Some(t)
    /\ "where" \in s.clauses <=> " where " \in s.has
    /\ "limit" \in s.clauses <=> " limit " \in s.has
    /\ "tenant_id" \in s.clauses <=> "tenant_id" \in s.has

\* Tagged whatever the statement's text says.
DeclaredAi(r) ==
    Classify([app |-> r.app, ai |-> r.ai, agent |-> r.agent, model |-> r.model,
              sql |-> [has |-> {}]]).ai_traffic # Absent

Flagged(r) == r.attrs.parses /\ Classify(r).ai_traffic # Absent

\* The ways a forbidden statement has past the guardrail under a stored tag:
\* the tag is another request's of the same id; the tag comes of a marker in
\* the text, which the guardrail does not look for; the text does not show
\* what the statement does; or the statement has a WHERE and no tenant_id, and
\* the guardrail asks only a SELECT for it.
BorrowedTag(r)   == ~Flagged(r) /\ \E other \in came[r.id] \ {r} : Flagged(other)
MarkedOnly(r)    == ~DeclaredAi(r) /\ r.sql.has \cap GENERATED_MARKERS # {}
TenantOfWrite(s) == /\ s.verb # "select" /\ Unfiltered(s)
                    /\ ~Destroys(s) /\ ~Unbounded(s)

\* There is no other way: whatever requests come, together or again under an
\* id, in whichever order tags are written or lost, a forbidden statement that
\* reaches the token-budget under a stored tag got there by one of these. And
\* a statement is blocked only as it should be, or misread.
GuardrailGapsKnown ==
    \A q \in Conns :
        LET r == req[q]
        IN  /\ stage[q] = "budget" /\ Forbidden(r.sql)
               /\ tag[ReqKey(r.id, "ai_traffic")] = Some("true") =>
                   \/ BorrowedTag(r)
                   \/ MarkedOnly(r)
                   \/ ~Plain(r.sql)
                   \/ TenantOfWrite(r.sql)
            /\ stage[q] = "blocked" =>
                   DeclaredAi(r) /\ (Forbidden(r.sql) \/ ~Plain(r.sql))

\* The guardrail's documentation: it applies its rules to what the classifier
\* has flagged, by the tag stored under the request's id.
TaggedIsGuarded ==
    \A q \in Conns :
        stage[q] = "budget" /\ tag[ReqKey(req[q].id, "ai_traffic")] = Some("true") =>
            ~Forbidden(req[q].sql)
=============================================================================
