----------------------------- MODULE MCAlerting ------------------------------
(* Model checking of Alerting: one user, one source, a missing value and, for  *)
(* the source, a placeholder; fresh and late events.                          *)
EXTENDS Alerting

OneUser == {"alice", ""}
SourceOrDash == {"host", "", "-"}
Empty == ""
Dash == {"-"}
FreshOrOld == {0, 2}
=============================================================================
