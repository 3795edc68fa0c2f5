----------------------------- MODULE Canonicalize -----------------------------
(* Structural canonicalization of trade rows (packs/replay_reduction/         *)
(* canonicalize.py).  A state holds the identities seen, spread over buckets  *)
(* that are sorted and free of repeats, with counts and with the first and    *)
(* the last row's identity and core; the rows themselves are gone.  States of *)
(* adjacent inputs are merged, published as artifacts and read back.          *)
(*                                                                            *)
(* A row is a record: identity (the integer its source column is cast to),    *)
(* whole (that column holds a whole number), normalized (the integer its text *)
(* column spells), core (its measurement core fields as one value), marked    *)
(* (it matches the sentinel's other fields).  Failed stands for               *)
(* StructuralCanonicalizeError, whatever its message.                         *)
EXTENDS Integers, Sequences, FiniteSets, SequencesExt

CONSTANTS
    SentinelIdentity, \* sentinel.identity_equals
    NullCore,         \* a core with a field that is null
    BucketCount,      \* bucket_count
    BucketOf,         \* bucket_index: the bucket of every identity
    SortRunCapacity,  \* _SORT_RUN_CAPACITY: identities of a run of a bucket
    ScanBatch, SortRunRows, MergeFanIn \* the sizes of module SpillSort

ASSUME CanonicalizeAssumption ==
    /\ BucketCount \in Nat \ {0} /\ SortRunCapacity \in Nat \ {0}
    /\ ScanBatch \in Nat \ {0} /\ SortRunRows \in Nat \ {0}
    /\ MergeFanIn \in Nat \ {0, 1}
    /\ \A identity \in DOMAIN BucketOf : BucketOf[identity] \in 0 .. BucketCount - 1

\* Identities are integers, sorted as such.
Ascending == INSTANCE SpillSort WITH Before <- <

Failed == [ok |-> FALSE]
NoBoundary == [identity |-> 0, core |-> NullCore]
Buckets == 0 .. BucketCount - 1

\* The rows of a sequence that are in S, in order.
Those(rows, S) ==
    FlattenSeq([i \in DOMAIN rows |-> IF rows[i] \in S THEN <<rows[i]>> ELSE <<>>])

\* A set of numbers as an ascending sequence.
InOrder(S) ==
    [n \in 1 .. Cardinality(S) |->
        CHOOSE v \in S : Cardinality({w \in S : w < v}) = n - 1]

\* The sum of a number for each bucket.
Total(counts) ==
    LET sum[n \in 0..BucketCount] == IF n = 0 THEN 0 ELSE sum[n - 1] + counts[n - 1]
    IN  sum[BucketCount]

-----------------------------------------------------------------------------
(* One input *)

IsWitness(r) == r.identity = SentinelIdentity /\ r.marked
IsPositive(r) == r.identity > 0

PositiveOf(rows) == Those(rows, {r \in ToSet(rows) : IsPositive(r)})
WitnessesOf(rows) == Those(rows, {r \in ToSet(rows) : IsWitness(r)})

InvalidRow(r) ==
    \/ ~r.whole
    \/ ~IsPositive(r) /\ ~IsWitness(r)
    \/ IsPositive(r) /\ (r.normalized # r.identity \/ r.core = NullCore)

\* The first row of a group writes its identity to its bucket; the others must
\* have its core.
SpillRow(spill, r) ==
    LET opens == r.identity # spill.last.identity
        profile == [identity |-> r.identity, core |-> r.core]
    IN  [ok      |-> spill.ok /\ (~opens => r.core = spill.last.core),
         buckets |-> IF opens
                     THEN [spill.buckets EXCEPT ![BucketOf[r.identity]] = Append(@, r.identity)]
                     ELSE spill.buckets,
         groups  |-> spill.groups + (IF opens THEN 1 ELSE 0),
         first   |-> IF spill.first = NoBoundary THEN profile ELSE spill.first,
         last    |-> profile]

FreshSpill == [ok |-> TRUE, buckets |-> [b \in Buckets |-> <<>>], groups |-> 0,
               first |-> NoBoundary, last |-> NoBoundary]

Spilled(positive) ==
    LET spill[n \in 0 .. Len(positive)] ==
            IF n = 0 THEN FreshSpill ELSE SpillRow(spill[n - 1], positive[n])
    IN  spill[Len(positive)]

\* A bucket file is sorted run by run; several runs are merged.
SortBucketFile(identities) ==
    LET runs == Ascending!SortedBatches(identities, SortRunCapacity)
    IN  IF Len(runs) <= 1 THEN FlattenSeq(FlattenSeq(runs)) ELSE Ascending!KWayMerge(runs)

\* An identity met twice means that its rows were not contiguous.
Repeats(sorted) == {i \in 2 .. Len(sorted) : sorted[i] = sorted[i - 1]}

SingleInputState(rows) ==
    LET positive == PositiveOf(rows)
        spill    == Spilled(positive)
        sorted   == [b \in Buckets |-> SortBucketFile(spill.buckets[b])]
    IN  IF \/ \E i \in DOMAIN rows : InvalidRow(rows[i])
           \/ ~spill.ok
           \/ \E b \in Buckets : Repeats(sorted[b]) # {}
        THEN Failed
        ELSE [ok        |-> TRUE,
              buckets   |-> sorted,
              counts    |-> [b \in Buckets |-> Len(sorted[b])],
              rows      |-> Len(positive),
              groups    |-> spill.groups,
              witnesses |-> Len(WitnessesOf(rows)),
              first     |-> spill.first,
              last      |-> spill.last]

-----------------------------------------------------------------------------
(* States *)

ValidBucketFile(s, b) ==
    /\ \A i \in DOMAIN s.buckets[b] :
            /\ s.buckets[b][i] > (IF i = 1 THEN 0 ELSE s.buckets[b][i - 1])
            /\ BucketOf[s.buckets[b][i]] = b
    /\ Len(s.buckets[b]) = s.counts[b]

InItsBucket(s, boundary) ==
    /\ boundary.identity > 0
    /\ boundary.identity \in ToSet(s.buckets[BucketOf[boundary.identity]])

ValidState(s) ==
    /\ \A b \in Buckets : ValidBucketFile(s, b)
    /\ Total(s.counts) = s.groups
    /\ s.rows >= s.groups /\ s.witnesses >= 0
    /\ IF s.groups = 0
       THEN s.rows = 0 /\ s.first = NoBoundary /\ s.last = NoBoundary
       ELSE InItsBucket(s, s.first) /\ InItsBucket(s, s.last)

\* Two bucket files, sorted and free of repeats, become one.
MergeBucketFiles(left, right) == InOrder(ToSet(left) \cup ToSet(right))
InBoth(left, right) ==
    UNION {ToSet(left.buckets[b]) \cap ToSet(right.buckets[b]) : b \in Buckets}

SharedBoundary(left, right) == left.last.identity = right.first.identity

\* Only the identity at the boundary may be in both.
MergePositive(left, right, subtractBoundaryRow) ==
    LET shared  == SharedBoundary(left, right)
        allowed == IF shared THEN {left.last.identity} ELSE {}
        buckets == [b \in Buckets |-> MergeBucketFiles(left.buckets[b], right.buckets[b])]
    IN  IF \/ shared /\ left.last.core # right.first.core
           \/ ~(InBoth(left, right) \subseteq allowed)
        THEN Failed
        ELSE [ok        |-> TRUE,
              buckets   |-> buckets,
              counts    |-> [b \in Buckets |-> Len(buckets[b])],
              rows      |-> left.rows + right.rows
                            - (IF shared /\ subtractBoundaryRow THEN 1 ELSE 0),
              groups    |-> left.groups + right.groups - (IF shared THEN 1 ELSE 0),
              witnesses |-> left.witnesses + right.witnesses,
              first     |-> left.first,
              last      |-> right.last]

\* Mutant: a side without positive rows is merged like any other.
MergeStatesAlways(left, right, subtractBoundaryRow) ==
    IF ~left.ok \/ ~right.ok THEN Failed
    ELSE IF ~ValidState(left) \/ ~ValidState(right) THEN Failed
    ELSE LET merged == MergePositive(left, right, subtractBoundaryRow)
         IN  IF merged.ok /\ ValidState(merged) THEN merged ELSE Failed

\* A side without positive rows gives way to the other one, witnesses and all.  All
\* states have BucketCount buckets here; that two different counts are refused is
\* left out.
MergeStates(left, right, subtractBoundaryRow) ==
    IF ~left.ok \/ ~right.ok THEN Failed
    ELSE IF ~ValidState(left) \/ ~ValidState(right) THEN Failed
    ELSE IF left.groups = 0 THEN right
    ELSE IF right.groups = 0 THEN left
    ELSE LET merged == MergePositive(left, right, subtractBoundaryRow)
         IN  IF merged.ok /\ ValidState(merged) THEN merged ELSE Failed

\* The files of one input follow each other; two waves share a row.
ExecuteStructuralCanonicalize(files) ==
    LET state[n \in 1 .. Len(files)] ==
            IF n = 1 THEN SingleInputState(files[n])
            ELSE MergeStates(state[n - 1], SingleInputState(files[n]), FALSE)
    IN  state[Len(files)]

\* Mutant: the row two waves share is counted in both.
MergeWavesAsFiles(left, right) == MergeStates(left, right, FALSE)

MergeWaves(left, right) == MergeStates(left, right, TRUE)

-----------------------------------------------------------------------------
(* The summary and the bucket artifacts of a state *)

Payloads(s) ==
    [i \in 1 .. BucketCount |->
        [count |-> BucketCount, index |-> i - 1, values |-> s.buckets[i - 1]]]

Summary(s) == [counts |-> s.counts, rows |-> s.rows, groups |-> s.groups,
               witnesses |-> s.witnesses, first |-> s.first, last |-> s.last]

GoodPayload(payload, b, summary) ==
    /\ payload.count = BucketCount /\ payload.index = b
    /\ \A i \in DOMAIN payload.values :
            /\ payload.values[i] > (IF i = 1 THEN 0 ELSE payload.values[i - 1])
            /\ BucketOf[payload.values[i]] = b
    /\ Len(payload.values) = summary.counts[b]

DecodeState(summary, payloads) ==
    LET state == [ok |-> TRUE,
                  buckets |-> [b \in Buckets |-> payloads[b + 1].values],
                  counts |-> summary.counts, rows |-> summary.rows,
                  groups |-> summary.groups, witnesses |-> summary.witnesses,
                  first |-> summary.first, last |-> summary.last]
    IN  IF /\ Len(payloads) = BucketCount
           /\ \A b \in Buckets : GoodPayload(payloads[b + 1], b, summary)
           /\ ValidState(state)
        THEN state ELSE Failed

\* What a later job reads of a state a job wrote.
Reread(s) == IF s.ok /\ ValidState(s) THEN DecodeState(Summary(s), Payloads(s)) ELSE Failed
=============================================================================
