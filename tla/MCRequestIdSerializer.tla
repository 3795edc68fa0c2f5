----------------------- MODULE MCRequestIdSerializer -----------------------
(* An instance of RequestIdSerializer for TLC: three workers, two ids. *)
EXTENDS RequestIdSerializer

CONSTANTS t1, t2, t3, i1, i2, l1, l2, l3

ThreeThreads == {t1, t2, t3}
TwoIds == {i1, i2}
ThreeLocks == {l1, l2, l3}
=============================================================================
