----------------------------- MODULE MCBrokerRun -----------------------------
(* Instances of BrokerRun for TLC. *)
EXTENDS BrokerRun

Three == 1..3
Four == 1..4
=============================================================================
