----------------------------- MODULE QueryPath ------------------------------
(* The path of a query through the plugins that may change its text or its  *)
(* way: column-mask rewrites it in pre_query, then the residency-router and *)
(* the pgvector-router, on the rewritten text, say where it goes. That the  *)
(* route hooks get the rewritten text is what the proxy is taken to do.     *)
EXTENDS ColumnMask, Routing

CONSTANTS VectorNodes   \* the values of helios.vector_node, "" for none

VARIABLES vectorNode,   \* the value for this query
          vectorAnswer  \* what the pgvector-router has answered, or NotAsked

vectorVars == <<vectorNode, vectorAnswer>>
pathVars   == <<maskVars, routeVars, vectorVars>>

NotAsked == [action |-> "not asked"]

PathInit ==
    /\ MaskInit /\ RouteInit
    /\ vectorNode \in VectorNodes
    /\ vectorAnswer = NotAsked

\* The mask runs before any route.
Masking ==
    /\ routePc = "start" /\ vectorAnswer = NotAsked
    /\ MaskNext
    /\ UNCHANGED <<routeVars, vectorVars>>

\* pgvector's route; a context that does not parse is answered with 0.
VectorRoute ==
    /\ maskPc = "done" /\ vectorAnswer = NotAsked
    /\ vectorAnswer' = Classify(out, Lower, vectorNode)
    /\ UNCHANGED <<vectorNode, maskVars, routeVars>>

ResidencyRoute ==
    /\ maskPc = "done"
    /\ Route
    /\ UNCHANGED <<maskVars, vectorVars>>

\* An operator's updates while the mask runs only change what is stored when
\* the routing starts, and RouteInit ranges over that; those behind the
\* router's answer come too late for it.
OperatorUpdates ==
    /\ maskPc = "done" /\ routePc # "done"
    /\ Operator
    /\ UNCHANGED <<maskVars, vectorVars>>

PathNext == Masking \/ VectorRoute \/ ResidencyRoute \/ OperatorUpdates

PathSpec == PathInit /\ [][PathNext]_pathVars

-----------------------------------------------------------------------------
(* Properties.                                                              *)

\* Types of the variables.
PathTypeOK ==
    /\ MaskTypeOK /\ RouteTypeOK
    /\ vectorNode \in VectorNodes
    /\ vectorAnswer \in {NotAsked, Default, Node(vectorNode)}

\* No column and no function of the rules has a part of what the
\* pgvector-router looks for.
RouterWords == HoldsOperator \cup EndsInOrder \cup StartsWithBy

NotRouterWords(list) ==
    \A i \in DOMAIN list :
        {Lower[list[i].column], Lower[list[i].mask_function]} \cap RouterWords = {}

\* Masking changes no query into one for the vector node, and none into one
\* that is not, also when it masks a column the distance is taken of - unless
\* a column or a function has a part of what the router looks for.
MaskKeepsVectorRoute ==
    vectorAnswer # NotAsked /\ NotRouterWords(rules.list) =>
        vectorAnswer = Classify(query, Lower, vectorNode)
=============================================================================
