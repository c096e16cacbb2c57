---------------------------- MODULE MCConnections -----------------------------
(* Model checking of Connections: one or two collectors, one window. *)
EXTENDS Connections

CONSTANTS c1, c2, w1

OneCollector == {c1}
TwoCollectors == {c1, c2}
OneWindow == {w1}
NoneUnparsable == {}
ThirdUnparsable == {3}
=============================================================================
