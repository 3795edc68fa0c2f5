---------------------------- MODULE MCAttemptLog ----------------------------
(* An instance of AttemptLog for TLC: three dispatches of a wave. *)
EXTENDS AttemptLog

ThreeExecutions == 1..3
=============================================================================
