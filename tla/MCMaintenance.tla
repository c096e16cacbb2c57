---------------------------- MODULE MCMaintenance -----------------------------
(* Model checking of Maintenance: the posture scan is due every other tick. *)
EXTENDS Maintenance

PostureEveryOther == [t \in Tasks |-> IF t = "posture" THEN 2 ELSE 1]
Feed == {"threat_intel"}
=============================================================================
