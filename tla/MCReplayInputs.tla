----------------------------- MODULE MCReplayInputs -----------------------------
(* A small instance of ReplayInputs for TLC.                                   *)
EXTENDS ReplayInputs

Trade(identity, core, time, block) ==
    [identity |-> identity, whole |-> TRUE, normalized |-> identity, core |-> core,
     marked |-> FALSE, symbol |-> "AAA", time |-> time, block |-> block]

MCSentinelIdentity == -1
Witness == [Trade(-1, "a", 2, 2) EXCEPT !.marked = TRUE]

\* Rows of one identity that differ in time, or in core; rows of others, one of
\* another symbol, one in the other bucket; a witness; and every invalid row.
MCRows ==
    {Trade(1, "a", 1, 1), Trade(1, "a", 3, 1), Trade(1, "b", 2, 2),
     Trade(2, "a", 1, 2), [Trade(2, "a", 3, 3) EXCEPT !.symbol = "BBB"],
     Trade(3, "a", 3, 2), Witness,
     [Witness EXCEPT !.marked = FALSE],
     [Trade(3, "a", 2, 2) EXCEPT !.whole = FALSE],
     [Trade(3, "a", 2, 2) EXCEPT !.normalized = 1],
     Trade(3, "null", 2, 2)}

\* 1 and 2 share a bucket.
MCBucketOf == [identity \in 1..3 |-> identity \div 3]

MCDecisions ==
    {[symbol |-> "AAA", decision |-> 2, cutoff |-> 1,
      widths |-> {1, 2}, offsets |-> {-1, 0, 1},
      windows |-> {[start |-> 0, end |-> 1, minBlock |-> 1],
                   [start |-> 1, end |-> 1, minBlock |-> 0]}]}

MCPlans ==
    [start : {0, 2}, end : {0, 2}, size : 0..3, before : {0, 3}, after : {0, 1},
     maxPerWave : {NoLimit, 0, 2, 3}, capability : {NoLimit, 2}]

MCEmptyPlans == {p \in MCPlans : p.start = p.end}
=============================================================================
