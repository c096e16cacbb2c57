--------------------------- MODULE MCSlidingWindow ---------------------------
(* Model checking of SlidingWindow: two sources, two ports. *)
EXTENDS SlidingWindow, TLC

CONSTANTS source1, source2, port1, port2

Sources == {source1, source2}
Ports == {port1, port2}
Symmetry == Permutations(Sources) \cup Permutations(Ports)
=============================================================================
