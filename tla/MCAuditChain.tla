---------------------------- MODULE MCAuditChain ----------------------------
(* Instances of AuditChain for TLC.                                         *)
EXTENDS AuditChain

CONSTANTS c1, c2, c3, c4

ThreeCalls == {c1, c2, c3}
FourCalls  == {c1, c2, c3, c4}
=============================================================================
