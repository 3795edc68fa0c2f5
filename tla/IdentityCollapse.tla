---------------------------- MODULE IdentityCollapse ----------------------------
(* How the causal grid extraction gets its trades (packs/replay_reduction/     *)
(* causal_grid.py): rows go to buckets of identities, buffered in memory up to *)
(* a bound; each bucket is sorted and reduced to one row per identity; and the *)
(* rows left are sorted by time and block.  Unlike canonicalization it takes   *)
(* an identity again after others.                                             *)
EXTENDS Canonicalize

CONSTANT BucketBufferRows \* _GLOBAL_TRADE_BUCKET_BUFFER_ROWS

\* _validate_positive_row, of a row that is no witness.
UnusableRow(r) ==
    r.identity <= 0 \/ r.normalized # r.identity \/ r.core = NullCore

TradeRows(files) ==
    LET rows == FlattenSeq(files)
    IN  Those(rows, {r \in ToSet(rows) : ~IsWitness(r)})

FreshBuffers == [batches |-> [b \in Buckets |-> <<>>],
                 parts   |-> [b \in Buckets |-> <<>>]]

\* Every bucket with buffered rows gets one more part file.
FlushAll(buffers) ==
    [batches |-> FreshBuffers.batches,
     parts   |-> [b \in Buckets |->
                     IF buffers.batches[b] = <<>> THEN buffers.parts[b]
                     ELSE Append(buffers.parts[b], buffers.batches[b])]]

Buffered(buffers) == Total([b \in Buckets |-> Len(buffers.batches[b])])

\* Mutant: the row that fills the buffers is lost in the flush.
BufferRowLost(buffers, r) ==
    IF Buffered(buffers) + 1 >= BucketBufferRows
    THEN FlushAll(buffers)
    ELSE [buffers EXCEPT !.batches[BucketOf[r.identity]] = Append(@, r)]

BufferRow(buffers, r) ==
    LET added == [buffers EXCEPT !.batches[BucketOf[r.identity]] = Append(@, r)]
    IN  IF Buffered(added) >= BucketBufferRows THEN FlushAll(added) ELSE added

BucketParts(rows) ==
    LET buffers[n \in 0 .. Len(rows)] ==
            IF n = 0 THEN FreshBuffers ELSE BufferRow(buffers[n - 1], rows[n])
    IN  FlushAll(buffers[Len(rows)]).parts

ByIdentity(r, s) ==
    \/ r.identity < s.identity
    \/ r.identity = s.identity /\ r.time < s.time
    \/ r.identity = s.identity /\ r.time = s.time /\ r.block < s.block

ByTime(r, s) == r.time < s.time \/ (r.time = s.time /\ r.block < s.block)

OfIdentities == INSTANCE SpillSort WITH Before <- ByIdentity
OfTimes == INSTANCE SpillSort WITH Before <- ByTime

\* The default tie_break_columns: the timestamp alone; at a tie the first stays.
RowPreferred(r, best) == r.time > best.time

\* One row of each group of equal identities, whose cores must agree.
CollapseRow(groups, r) ==
    IF groups.best = <<>> \/ Last(groups.best).identity # r.identity
    THEN [groups EXCEPT !.best = Append(@, r)]
    ELSE [ok   |-> groups.ok /\ r.core = Last(groups.best).core,
          best |-> IF RowPreferred(r, Last(groups.best))
                   THEN Append(Front(groups.best), r) ELSE groups.best]

CollapseGroups(sorted) ==
    LET groups[n \in 0 .. Len(sorted)] ==
            IF n = 0 THEN [ok |-> TRUE, best |-> <<>>]
            ELSE CollapseRow(groups[n - 1], sorted[n])
    IN  groups[Len(sorted)]

\* The buckets one after the other, then all of them by time.
CollapsedTrades(files) ==
    LET rows   == TradeRows(files)
        parts  == BucketParts(rows)
        groups == [b \in Buckets |->
                      CollapseGroups(OfIdentities!SortedRows(FlattenSeq(parts[b])))]
        best   == FlattenSeq([i \in 1 .. BucketCount |-> groups[i - 1].best])
    IN  IF \E i \in DOMAIN rows : UnusableRow(rows[i])
        THEN Failed
        ELSE IF \E b \in Buckets : ~groups[b].ok
        THEN Failed
        ELSE [ok |-> TRUE, trades |-> OfTimes!SortedRows(best)]
=============================================================================
