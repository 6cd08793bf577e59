---------------------------- MODULE MCQueryPath -----------------------------
(* Instances of QueryPath for TLC: a map of one region, and one too large   *)
(* to be read.                                                              *)
EXTENDS QueryPath, TLC

WideChar == "wide"

Words == {"ssn", "email", "emb", "id", "x", "users", "users_old", "docs", "pii", "dba",
          "mask_ssn", "mask_email", "mask_emb", "hash", "ssn_hash", "as", "by",
          "preorder", "bylaw", ",", "=", "(", ")", "<->", WideChar}
LowerCase == [w \in Words |-> w] @@
             ("SSN" :> "ssn" @@ "PII" :> "pii" @@ "AS" :> "as" @@
              "SELECT" :> "select" @@ "FROM" :> "from" @@ "WHERE" :> "where" @@
              "ORDER" :> "order" @@ "BY" :> "by")
Parts     == {<<"users", "users_old">>, <<"ssn", "mask_ssn">>, <<"ssn", "ssn_hash">>}
Endings   == {<<"hash", "ssn_hash">>, <<"ssn", "mask_ssn">>}
Operators == {"<->", "<#>", "<=>"}
Orders    == {"order", "preorder"}
Bys       == {"by", "bylaw"}

SomeTexts == {
    <<"SELECT", "id", ",", "ssn", ",", "email", "FROM", "users">>,
    <<"SELECT", "emb", "<->", "x", "FROM", "docs">>,
    <<"SELECT", "email", "FROM", "users_old", "WHERE", "SSN", "=", "ssn">>,
    <<"SELECT", "id", "FROM", "docs", "ORDER", "BY", "emb", "<->", "x">>,
    <<"SELECT", "emb", "<->", "x", "FROM", "docs", ",", "preorder", "bylaw">>,
    <<"SELECT", "email", ",", WideChar, ",", "ssn", "FROM", "users">>,
    <<"SELECT", "hash", "(", "ssn", ")", ",", "email", "FROM", "users">>}

Rule(table, column, f, role) ==
    [table |-> table, column |-> column, mask_function |-> f, unmask_role |-> role]
Ssn   == Rule("users", "ssn", "mask_ssn", "dba")
Email == Rule("users", "email", "mask_email", "dba")
Known == Rule("users", "email", "hash", "PII")
Emb   == Rule("docs", "emb", "mask_emb", "dba")
Hash  == Rule("users", "SSN", "hash", "dba")
Salt  == Rule("users", "email", "ssn_hash", "dba")
By    == Rule("docs", "by", "mask_emb", "dba")

\* In two orders, twice the same around one whose role the identity has, one
\* function at the end of another's name, one column in capitals, one called
\* like a word of SQL, and a list over 8 KiB.
SomeRuleLists ==
    {[list |-> l, fits |-> TRUE] :
        l \in {<<Ssn, Email, Emb>>, <<Emb, Email, Ssn>>, <<Email, Known, Email>>,
               <<Salt, Hash>>, <<Hash, Email>>, <<By>>}}
    \cup {[list |-> <<Ssn>>, fits |-> FALSE]}

\* Two columns with one mask function.
SharedRuleLists ==
    {[list |-> <<Hash, Rule("users", "email", "hash", "dba")>>, fits |-> TRUE]}

SomeRoleSets == {{"pii"}}

SomeRegions == {"eu"}
SomeMaps == {[pairs |-> <<<<"eu", "n1">>>>, fits |-> TRUE],
             [pairs |-> <<<<"eu", "n2">>>>, fits |-> FALSE]}
SomeVectorNodes == {"", "v"}
=============================================================================
