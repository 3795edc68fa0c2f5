------------------------------ MODULE SpillSort ------------------------------
(* The external sort of the replay pack (packs/replay_reduction/             *)
(* spill_sort.py): batches are sorted into runs on disk, runs are merged in  *)
(* groups of bounded fan-in, level by level, and the last level is streamed. *)
(* A run is a sequence of part files, a file a sequence of rows.  The order  *)
(* of the rows, Before, is strict on the sort keys.                          *)
EXTENDS Integers, Sequences, FiniteSets, SequencesExt

CONSTANTS
    ScanBatch,   \* _IDENTITY_SCAN_BATCH: rows of a batch
    SortRunRows, \* _SORT_RUN_ROWS: rows of a part file of a merged run
    MergeFanIn,  \* _MERGE_FAN_IN: runs open at a time
    Before(_, _) \* the sort keys of the first row are smaller


\* range(0, len(s), n) with slices: consecutive pieces of n, the last shorter.
Cut(s, n) ==
    [i \in 1 .. (Len(s) + n - 1) \div n |->
        SubSeq(s, (i - 1) * n + 1, Min({i * n, Len(s)}))]

\* frame.sort leaves the order of equal rows open; here they keep theirs.
SortBatch(s) ==
    LET first(i, j) == Before(s[i], s[j]) \/ (~Before(s[j], s[i]) /\ i < j)
        rank(i)     == Cardinality({j \in DOMAIN s : first(j, i)})
    IN  [k \in DOMAIN s |-> s[CHOOSE i \in DOMAIN s : rank(i) = k - 1]]

\* One sorted run of one part for each batch.
SortedBatches(rows, size) ==
    LET batches == Cut(rows, size)
    IN  [i \in DOMAIN batches |-> <<SortBatch(batches[i])>>]

ExternalSort(rows) == SortedBatches(rows, ScanBatch)

\* A heap of the next row of every run that has one; at equal keys the run
\* that comes first goes first.
Least(heap) ==
    LET live == {s \in DOMAIN heap : heap[s] # <<>>}
    IN  CHOOSE s \in live : \A t \in live \ {s} :
            \/ Before(Head(heap[s]), Head(heap[t]))
            \/ ~Before(Head(heap[t]), Head(heap[s])) /\ s < t

Pop(merge) ==
    LET s == Least(merge.heap)
    IN  [heap |-> [merge.heap EXCEPT ![s] = Tail(@)],
         out  |-> Append(merge.out, Head(merge.heap[s]))]

RowsOf(runs) == [s \in DOMAIN runs |-> FlattenSeq(runs[s])]

KWayMerge(runs) ==
    LET total == Len(FlattenSeq(RowsOf(runs)))
        merge[n \in 0..total] ==
            IF n = 0 THEN [heap |-> RowsOf(runs), out |-> <<>>] ELSE Pop(merge[n - 1])
    IN  merge[total].out

\* A group of one run is passed on; others become one run of full parts.
MergeFanInGroup(group) ==
    IF Len(group) = 1 THEN group[1] ELSE Cut(KWayMerge(group), SortRunRows)

MergeLevel(runs) ==
    LET groups == Cut(runs, MergeFanIn)
    IN  [g \in DOMAIN groups |-> MergeFanInGroup(groups[g])]

Reduced(runs) == IF Len(runs) > MergeFanIn THEN MergeLevel(runs) ELSE runs

\* While there are too many runs; a level of two or more runs is shorter.
ReduceSortedRuns(runs) ==
    LET level[n \in 0 .. Len(runs)] == IF n = 0 THEN runs ELSE Reduced(level[n - 1])
    IN  level[Len(runs)]

SortedRows(rows) ==
    LET runs == ExternalSort(rows)
    IN  IF Len(runs) <= 1 THEN FlattenSeq(FlattenSeq(runs))
        ELSE KWayMerge(ReduceSortedRuns(runs))
=============================================================================
