------------------------------ MODULE Routing -------------------------------
(* The two routers. The residency-router (src/residency-router/src/lib.rs)  *)
(* reads its map of regions and its enforce flag, two keys, one after the   *)
(* other, while an operator may be writing them; the pgvector-router        *)
(* (src/pgvector-router/src/lib.rs) decides on the text of the query alone. *)
EXTENDS Naturals, Sequences, FiniteSets

CONSTANTS RegionMaps,   \* the maps an operator may store: a list of pairs
                        \* region, node, and whether it fits into 8 KiB
          Regions,      \* the regions of users
          MaxUpdates,   \* bound on the updates of an operator
          HoldsOperator, EndsInOrder, StartsWithBy
                        \* lower-case words with a distance operator anywhere,
                        \* with "order" at the end, with "by" at the start

ASSUME MapsAssumption ==
    /\ \A m \in RegionMaps :
          /\ m.fits \in BOOLEAN
          /\ \A i \in DOMAIN m.pairs : m.pairs[i] \in Regions \X STRING
    /\ MaxUpdates \in Nat

VECTOR_OPERATORS == {"<->", "<#>", "<=>"}

ASSUME WordsAssumption ==
    /\ VECTOR_OPERATORS \subseteq HoldsOperator
    /\ "order" \in EndsInOrder /\ "by" \in StartsWithBy
    /\ {"(", ")", "as"} \cap (HoldsOperator \cup EndsInOrder \cup StartsWithBy) = {}

VARIABLES map,       \* the key region_map
          enforce,   \* the key enforce
          region,    \* the user's region, NoRegion without one
          routePc,   \* where route is
          seenMap,   \* the map it has read
          answer,    \* its answer
          flagFirst, \* whether the operator writes enforce before the map
          update,    \* the operator's update under way: the key yet to write
          updates,   \* number of updates so far
          moments,   \* what was stored at some time of the call (history)
          writers,   \* the updates that wrote during the call (history)
          misread    \* whether a read of the call failed (history)

routeVars == <<map, enforce, region, routePc, seenMap, answer, flagFirst,
               update, updates, moments, writers, misread>>

-----------------------------------------------------------------------------
NoRegion == "no region"
NoMap    == [pairs |-> <<>>, fits |-> TRUE]
NoUpdate == [key |-> "none"]
Default  == [action |-> "default"]
Node(n)  == [action |-> "node", target |-> n]
Block    == [action |-> "block"]

OfRegion(m, r) == {i \in DOMAIN m.pairs : m.pairs[i][1] = r}
Serves(m, r)   == OfRegion(m, r) # {}
\* The node of the first pair, if there are more.
NodeOf(m, r) ==
    m.pairs[CHOOSE i \in OfRegion(m, r) : \A j \in OfRegion(m, r) : i <= j][2]

\* decide: the node of the region; without one, the flag.
Decide(r, m, flag) ==
    IF r = NoRegion THEN Default
    ELSE IF Serves(m, r) THEN Node(NodeOf(m, r))
    ELSE IF flag THEN Block
    ELSE Default

RouteInit ==
    /\ map \in RegionMaps \cup {NoMap}
    /\ enforce \in BOOLEAN
    /\ region \in Regions \cup {NoRegion}
    /\ routePc = "start"
    /\ seenMap = NoMap
    /\ answer = Default
    /\ flagFirst \in BOOLEAN
    /\ update = NoUpdate
    /\ updates = 0
    /\ moments = {}
    /\ writers = {}
    /\ misread = FALSE

\* A context that does not parse is answered with 0: no route of its own.
RouteUnparsed ==
    /\ routePc = "start"
    /\ routePc' = "done"
    /\ UNCHANGED <<map, enforce, region, seenMap, answer, flagFirst, update,
                   updates, moments, writers, misread>>

\* load_config reads the map first: an absent key, a map over 8 KiB and a
\* read that fails give an empty one.
ReadMap ==
    /\ routePc = "start"
    /\ \/ /\ seenMap' = IF map.fits THEN map ELSE NoMap
          /\ UNCHANGED misread
       \/ seenMap' = NoMap /\ misread' = TRUE
    /\ routePc' = "flag"
    /\ moments' = {[map |-> map, enforce |-> enforce]}
    /\ UNCHANGED <<map, enforce, region, answer, flagFirst, update, updates, writers>>

\* Bug: a flag that cannot be read is taken for set.
ReadEnforceClosed ==
    /\ routePc = "flag"
    /\ \/ /\ answer' = Decide(region, seenMap, enforce)
          /\ UNCHANGED misread
       \/ answer' = Decide(region, seenMap, TRUE) /\ misread' = TRUE
    /\ routePc' = "done"
    /\ UNCHANGED <<map, enforce, region, seenMap, flagFirst, update, updates,
                   moments, writers>>

\* Bug: without a map the flag is not looked at.
ReadEnforceWithMap ==
    /\ routePc = "flag"
    /\ answer' = Decide(region, seenMap, enforce /\ seenMap # NoMap)
    /\ routePc' = "done"
    /\ UNCHANGED <<map, enforce, region, seenMap, flagFirst, update, updates,
                   moments, writers, misread>>

\* ... then the flag, which is not set when it cannot be read, and decides.
ReadEnforce ==
    /\ routePc = "flag"
    /\ \/ /\ answer' = Decide(region, seenMap, enforce)
          /\ UNCHANGED misread
       \/ answer' = Decide(region, seenMap, FALSE) /\ misread' = TRUE
    /\ routePc' = "done"
    /\ UNCHANGED <<map, enforce, region, seenMap, flagFirst, update, updates,
                   moments, writers>>

\* The operator stores key k, of update n.
Store(n, m, flag) ==
    /\ map' = m
    /\ enforce' = flag
    /\ IF routePc = "flag"
       THEN /\ moments' = moments \cup {[map |-> m, enforce |-> flag]}
            /\ writers' = writers \cup {n}
       ELSE UNCHANGED <<moments, writers>>
    /\ UNCHANGED <<region, routePc, seenMap, answer, flagFirst, misread>>

\* The operator begins an update with the one key ...
BeginUpdate ==
    \E m \in RegionMaps, flag \in BOOLEAN :
        /\ update = NoUpdate /\ updates < MaxUpdates
        /\ updates' = updates + 1
        /\ IF flagFirst
           THEN update' = [key |-> "map", value |-> m] /\ Store(updates', map, flag)
           ELSE update' = [key |-> "enforce", value |-> flag] /\ Store(updates', m, enforce)

\* ... and ends it with the other.
EndUpdate ==
    /\ update # NoUpdate
    /\ update' = NoUpdate
    /\ UNCHANGED updates
    /\ IF update.key = "map" THEN Store(updates, update.value, enforce)
       ELSE Store(updates, map, update.value)

Route    == RouteUnparsed \/ ReadMap \/ ReadEnforce
Operator == BeginUpdate \/ EndUpdate

-----------------------------------------------------------------------------
\* The pgvector-router's classify: a distance operator and "order by" anywhere
\* in the text, within other words too, and a node for them. Words stand a
\* single space apart.
Classify(text, lower, vectorNode) ==
    IF /\ \E i \in DOMAIN text : lower[text[i]] \in HoldsOperator
       /\ \E i \in 1 .. Len(text) - 1 :
             lower[text[i]] \in EndsInOrder /\ lower[text[i + 1]] \in StartsWithBy
       /\ vectorNode # ""
    THEN Node(vectorNode) ELSE Default

-----------------------------------------------------------------------------
(* Properties.                                                              *)

\* Types of the variables.
RouteTypeOK ==
    /\ map \in RegionMaps \cup {NoMap} /\ seenMap \in RegionMaps \cup {NoMap}
    /\ enforce \in BOOLEAN
    /\ region \in Regions \cup {NoRegion}
    /\ routePc \in {"start", "flag", "done"}
    /\ flagFirst \in BOOLEAN /\ misread \in BOOLEAN
    /\ update.key = "map" => update.value \in RegionMaps
    /\ update.key = "enforce" => update.value \in BOOLEAN
    /\ updates \in 0 .. MaxUpdates
    /\ writers \subseteq 1 .. MaxUpdates

Readable(m) == IF m.fits THEN m ELSE NoMap

\* The two reads are as good as one: if the operator writes the flag before
\* the map and no more than one update writes during the call, the answer is
\* the one of a configuration that was stored at some moment of the call.
AnswerOfAMoment ==
    routePc = "done" /\ moments # {} /\ flagFirst /\ ~misread
    /\ Cardinality(writers) <= 1 =>
        \E s \in moments : answer = Decide(region, Readable(s.map), s.enforce)

\* Whatever the order and number of updates and whatever fails, a user is
\* blocked only when the flag was set at some moment of the call, and unless
\* a read failed, only when some moment's map did not serve the region or was
\* too large; and sent only to a node that some moment's map has for it.
AnswerIsGrounded ==
    routePc = "done" =>
        /\ answer = Block =>
              /\ \E s \in moments : s.enforce
              /\ misread \/ \E s \in moments : ~Serves(Readable(s.map), region)
        /\ answer.action = "node" =>
              \E s \in moments : Serves(s.map, region) /\ answer = Node(NodeOf(s.map, region))
=============================================================================
