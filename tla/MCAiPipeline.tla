---------------------------- MODULE MCAiPipeline ----------------------------
(* Instances of AiPipeline for TLC: two connections, pairs of ids that      *)
(* share a key (a:b with c, a with b:c) and one that shares none (a with    *)
(* c), and requests of which two have one id and three have none.           *)
EXTENDS AiPipeline, TLC

CONSTANTS q1, q2

TwoConns   == {q1, q2}
Symmetric  == Permutations(TwoConns)
SomeAgents == {<<"a">>, <<"a", "b">>}
SomeModels == {<<"c">>, <<"b", "c">>}
SomeReports == {2}

\* A budget one response uses up for a minute, and two for a day.
SomeBudgets == {[minute |-> 2, day |-> 3]}

Text(name, has) == Some([name |-> name, has |-> has])
Shop == Text("shop-gpt", {"gpt"})
Psql == Text("psql", {})

Attrs(a, m)  == [parses |-> TRUE, agent |-> Some(a), model |-> Some(m)]
Unparsed     == [NoAttributes EXCEPT !.parses = FALSE]

Stmt(verb, opens, from, reads, clauses, has) ==
    [verb |-> verb, opens |-> opens, from |-> from, reads |-> reads,
     clauses |-> clauses, has |-> has]

\* DROP TABLE t
Drop == Stmt("drop", "drop", Absent, {}, {}, {})
\* UPDATE t SET x = 1
Update == Stmt("update", "update", Absent, {"t"}, {}, {})
\* DELETE FROM users WHERE id = 1
Remove == Stmt("delete", "delete", Some("users"), {"users"}, {"where"}, {" where "})
\* SELECT x FROM t, events WHERE tenant_id = 1
Joined == Stmt("select", "select", Some("t"), {"t", "events"},
               {"where", "tenant_id"}, {" where ", "tenant_id"})
\* DROP TABLE t -- generated by gpt-4
Generated == Stmt("drop", "drop", Absent, {}, {}, {"-- generated", "gpt-4"})

Request(id, app, ai, agent, model, t, sql) ==
    [id |-> id, app |-> app, ai |-> ai, agent |-> agent, model |-> model,
     attrs |-> t, sql |-> sql]

MarkedRequests == {
    Request("r1", Shop, FALSE, Absent, Absent, Attrs(<<"a">>, <<"c">>), Joined),
    Request("r1", Psql, TRUE, Absent, Some("gpt-4"), NoAttributes, Update),
    Request("r2", Absent, FALSE, Absent, Absent, Attrs(<<"a">>, <<"b", "c">>), Generated),
    Request("", Psql, FALSE, Absent, Absent, Attrs(<<"a", "b">>, <<"c">>), Drop),
    Request("", Shop, FALSE, Absent, Absent, Unparsed, Drop)}

\* A DELETE that declares itself, with no id either.
SomeRequests == MarkedRequests \cup {
    Request("", Psql, TRUE, Absent, Absent, NoAttributes, Remove)}
=============================================================================
