------------------------------ MODULE MCPolling ------------------------------
(* Model checking of Polling: alerts with and without an address to block. *)
EXTENDS Polling

Alerts == {[severity |-> "high", source |-> "ip"], [severity |-> "low", source |-> NoSource]}
Choices == {All, "high"}
=============================================================================
