------------------------------- MODULE MCHandoff -------------------------------
(* A small instance of Handoff for TLC: two users want the same output.        *)
EXTENDS Handoff, TLC

CONSTANTS a1, a2, ra

MCRequestOf == (a1 :> ra) @@ (a2 :> ra)
MCUidOf == (a1 :> 1) @@ (a2 :> 2)
=============================================================================
