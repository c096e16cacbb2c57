----------------------------- MODULE MCResponse ------------------------------
(* Model checking of Response: two clients, two public addresses and a *)
(* local one.                                                           *)
EXTENDS Response

CONSTANTS ui1, ui2, public1, public2, local

TwoClients == {ui1, ui2}
Addresses == {public1, public2, local}
TwoPublic == {public1, public2}
Both == {"block", "unblock"}
AllFaults == FaultKinds
=============================================================================
