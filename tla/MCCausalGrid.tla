----------------------------- MODULE MCCausalGrid -----------------------------
(* A small instance of CausalGrid for TLC.                                   *)
EXTENDS CausalGrid

MCEvents == [time : {0, 1, 2, 4}, block : 1..3, source : {"AAA", "witness"}]

\* All histories of at most n of these events.
HistoriesOf[n \in Nat] ==
    IF n = 0 THEN {{}}
    ELSE HistoriesOf[n - 1] \cup {H \cup {e} : H \in HistoriesOf[n - 1], e \in MCEvents}

MCHistories == HistoriesOf[4]
MCOffsets == {-1, 0, 2}

Dense(cut, overlap) ==
    [gridStart |-> 2, gridEnd |-> 5, step |-> 1, missing |-> {},
     cut |-> cut, overlap |-> overlap, carried |-> FALSE, from |-> 0]

\* Day 3 is missing; the grid points are 2 and 4.
Gapped == [Dense(3, 3) EXCEPT !.step = 2, !.missing = {3}]

\* The second grid point comes one step after the cut.
Early == [Dense(1, 3) EXCEPT !.gridStart = 1, !.gridEnd = 4]

With(r, from) == [r EXCEPT !.carried = TRUE, !.from = from]

MCRequests ==
    {Dense(3, 3), With(Dense(3, 3), 4), With(Dense(3, 3), 2),
     With(Dense(4, 4), 5), With(Dense(3, 2), 4),
     Gapped, With(Gapped, 4), With(Gapped, 0), With([Gapped EXCEPT !.step = 1], 4),
     With(Early, 0), With(Early, 1),
     [With(Dense(3, 3), 4) EXCEPT !.gridStart = 1, !.step = 2],
     [With(Dense(4, 3), 5) EXCEPT !.gridStart = 0]}

\* All the files are given again, as if there were no carry.
MCAllAgain == {With(Dense(3, 3), 0), With(Early, 0)}
=============================================================================
