------------------------------ MODULE AuditLog ------------------------------
(* What the audit-chain plugin promises, without sequence numbers, hashes  *)
(* or the host's key-value store: one event is appended per observed       *)
(* query, at the end, and nothing already in the log ever changes. The     *)
(* promise is made to a host whose imports work: once one of them has      *)
(* failed (the plugin ignores the status of its writes) nothing is         *)
(* promised any more.                                                      *)
EXTENDS Sequences

CONSTANT Events     \* what a query may leave in the log

VARIABLES log,      \* the events recorded so far, oldest first
          broken    \* TRUE once a host import has failed

vars == <<log, broken>>

Init == log = <<>> /\ broken = FALSE

Record(e) ==
    /\ ~broken
    /\ log' = Append(log, e)
    /\ UNCHANGED broken

\* The host fails a call: from here on the log is unconstrained.
HostFault == broken' = TRUE

Next == HostFault \/ \E e \in Events : Record(e)

Spec == Init /\ [][Next]_vars
=============================================================================
