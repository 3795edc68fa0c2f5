------------------------------ MODULE ReplayInputs ------------------------------
(* The inputs of the replay operations and of planning, grown one row, file or *)
(* index at a time, and what the operations make of each of them compared with *)
(* what they mean.  Every prefix of an input is an input too, so that the      *)
(* reachable states are all inputs within the bounds.                          *)
EXTENDS EventWindow, IdentityCollapse, KernelPlanning

CONSTANTS
    Rows,         \* the rows a file may hold
    MaxRows,      \* bound on the rows of an input
    MaxFiles,     \* bound on its files
    Decisions,    \* event window requests
    Plans,        \* planning requests, each with an empty range
    MaxRange,     \* bound on the length of a range
    NoPlan        \* the value of plan while files are grown

\* What the models of a range and of its limits validate.
PlanRequest ==
    [start : Nat, end : Nat, size : Int, before : Nat, after : Nat,
     maxPerWave : Int \cup {NoLimit}, capability : Int \cup {NoLimit}]

ASSUME PlansAssumption ==
    /\ Plans \subseteq PlanRequest /\ NoPlan \notin PlanRequest
    /\ \A p \in Plans : p.start <= p.end

\* The columns of a row are cast to numbers; bucket_index is defined for every
\* positive identity; NoRow stands for no row.
ASSUME RowsAssumption ==
    /\ NoRow \notin Rows
    /\ \A r \in Rows :
        /\ r.identity \in Int /\ r.time \in Int /\ r.block \in Int
        /\ r.whole \in BOOLEAN /\ r.marked \in BOOLEAN
        /\ IsPositive(r) => r.identity \in DOMAIN BucketOf

\* What the model of an event window request validates.
ASSUME DecisionsAssumption ==
    \A q \in Decisions :
        /\ q.decision \in Int /\ q.widths \subseteq Int /\ q.offsets \subseteq Int
        /\ \A w \in q.windows : w.start \in Int /\ w.end \in Int

VARIABLES files, plan

inputVars == <<files, plan>>

InputInit ==
    \/ files = << <<>> >> /\ plan = NoPlan
    \/ files = <<>> /\ plan \in Plans

AllRows == FlattenSeq(files)
AnyInvalid == \E i \in DOMAIN AllRows : InvalidRow(AllRows[i])

\* Nothing is added to an input that is refused already.
AddRow(r) ==
    /\ plan = NoPlan /\ Len(AllRows) < MaxRows /\ ~AnyInvalid
    /\ files' = [files EXCEPT ![Len(files)] = Append(@, r)]
    /\ UNCHANGED plan

NextFile ==
    /\ plan = NoPlan /\ Len(files) < MaxFiles /\ ~AnyInvalid
    /\ files' = Append(files, <<>>)
    /\ UNCHANGED plan

LengthenRange ==
    /\ plan # NoPlan /\ plan.end - plan.start < MaxRange
    /\ plan' = [plan EXCEPT !.end = @ + 1]
    /\ UNCHANGED files

InputNext == NextFile \/ LengthenRange \/ \E r \in Rows : AddRow(r)

InputSpec == InputInit /\ [][InputNext]_inputVars

-----------------------------------------------------------------------------
(* What an input means *)

PositiveRows == PositiveOf(AllRows)
Identities(rows) == {rows[i].identity : i \in DOMAIN rows}

Contiguous(rows) ==
    \A i, k \in DOMAIN rows :
        rows[i].identity = rows[k].identity
        => \A j \in i..k : rows[j].identity = rows[i].identity

OneCore(rows) ==
    \A i, j \in DOMAIN rows :
        rows[i].identity = rows[j].identity => rows[i].core = rows[j].core

Canonical == ~AnyInvalid /\ Contiguous(PositiveRows) /\ OneCore(PositiveRows)

Profile(r) == [identity |-> r.identity, core |-> r.core]

-----------------------------------------------------------------------------
(* Properties *)

\* execute_structural_canonicalize accepts exactly the inputs whose identities
\* are valid, contiguous and of one core over all files, and its state tells
\* their identities, counts and boundaries wherever the files are cut.  Witness
\* rows are all counted when every file has a positive row (merging drops the
\* count of a side without any).
CanonicalStateIsOfTheRows ==
    plan = NoPlan =>
        LET s == ExecuteStructuralCanonicalize(files)
            seen(b) == {v \in Identities(PositiveRows) : BucketOf[v] = b}
            witnesses == Len(WitnessesOf(AllRows))
        IN  /\ s.ok <=> Canonical
            /\ s.ok =>
                /\ \A b \in Buckets : s.buckets[b] = InOrder(seen(b))
                /\ s.rows = Len(PositiveRows)
                /\ s.groups = Cardinality(Identities(PositiveRows))
                /\ s.witnesses <= witnesses
                /\ (\A i \in DOMAIN files : PositiveOf(files[i]) # <<>>)
                   => s.witnesses = witnesses
                /\ PositiveRows # <<>> =>
                     /\ s.first = Profile(Head(PositiveRows))
                     /\ s.last = Profile(Last(PositiveRows))

\* A file as a wave of its own that starts with the positive row before it.
Wave(i) ==
    LET before == PositiveOf(FlattenSeq(SubSeq(files, 1, i - 1)))
    IN  (IF before = <<>> THEN <<>> ELSE <<Last(before)>>) \o files[i]

MergeJob(left, right) == Reread(MergeWaves(left, right))

\* Three waves that share a row with the one before, published, read back and
\* merged in either order, are accepted when all the rows in one pass are, and
\* give the same identities, counts and boundaries.
WavesMergeInAnyOrder ==
    plan = NoPlan /\ Len(files) = 3 =>
        LET wave    == [i \in 1..3 |-> Reread(SingleInputState(Wave(i)))]
            merged  == MergeJob(MergeJob(wave[1], wave[2]), wave[3])
            onePass == SingleInputState(AllRows)
        IN  /\ merged = MergeJob(wave[1], MergeJob(wave[2], wave[3]))
            /\ merged.ok <=> onePass.ok
            /\ onePass.ok => merged = [onePass EXCEPT !.witnesses = merged.witnesses]

\* The trades of a symbol: the last row of each of its identities.
TradesOf(symbol) ==
    LET of(v) == {i \in DOMAIN AllRows : /\ AllRows[i].identity = v
                                         /\ AllRows[i].symbol = symbol
                                         /\ ~IsWitness(AllRows[i])}
    IN  {Max(of(v)) : v \in {v \in Identities(AllRows) : of(v) # {}}}

InInputOrder(S) == [n \in 1 .. Cardinality(S) |-> AllRows[InOrder(S)[n]]]

\* The first in the input among those with the latest (or earliest) time.
Latest(S) == LET time == Max({AllRows[i].time : i \in S})
             IN  AllRows[Min({i \in S : AllRows[i].time = time})]
Earliest(S) == LET time == Min({AllRows[i].time : i \in S})
               IN  AllRows[Min({i \in S : AllRows[i].time = time})]

\* execute_event_window_extract counts each trade once, however its rows are
\* spread over files: trailing and as-of facts come from blocks up to the
\* cutoff, trailing facts from times up to the decision, as-of facts from times
\* an offset before it (after it when the offset is negative, which the request
\* may be), future facts from later blocks and times.
WindowFactsAreExact ==
    plan = NoPlan =>
        \A request \in Decisions :
            LET result   == EventWindowFacts(files, request)
                trades   == TradesOf(request.symbol)
                age(i)   == request.decision - AllRows[i].time
                known(i) == AllRows[i].block <= request.cutoff
            IN  /\ result.ok <=> Canonical
                /\ result.ok =>
                    /\ \A w \in request.widths :
                         result.facts.trailing[w] =
                             InInputOrder({i \in trades : known(i) /\ age(i) \in 0 .. w - 1})
                    /\ \A o \in request.offsets :
                         LET due == {i \in trades : known(i) /\ age(i) >= o}
                         IN  result.facts.asOf[o] = IF due = {} THEN NoRow ELSE Latest(due)
                    /\ \A w \in request.windows :
                         LET due == {i \in trades : /\ - age(i) \in w.start .. w.end
                                                   /\ AllRows[i].block > w.minBlock}
                         IN  result.facts.future[w] = IF due = {} THEN NoRow ELSE Earliest(due)

\* _materialize_collapsed_trades gives one trade per identity, its latest row
\* (of equally late ones the one of the lowest block), in order of time and
\* block, through whatever buckets, part files and merge levels the rows went;
\* it refuses rows of one identity whose cores differ, contiguous or not.
CollapsedTradesAreExact ==
    plan = NoPlan =>
        LET result == CollapsedTrades(files)
            rows   == TradeRows(files)
            better(r, s) == r.time > s.time \/ (r.time = s.time /\ r.block <= s.block)
            best   == {r \in ToSet(rows) : \A s \in ToSet(rows) :
                          s.identity = r.identity => better(r, s)}
        IN  /\ result.ok <=> /\ \A i \in DOMAIN rows : ~UnusableRow(rows[i])
                             /\ OneCore(rows)
            /\ result.ok =>
                /\ ToSet(result.trades) \subseteq best
                /\ Identities(result.trades) = Identities(rows)
                /\ Len(result.trades) = Cardinality(Identities(rows))
                /\ \A i, j \in DOMAIN result.trades :
                      i < j => ~ByTime(result.trades[j], result.trades[i])

\* plan_shards, expanded_range and plan_waves cover every range once, within
\* the limits, whatever its length and the sizes; what has no limit or no
\* positive size is refused.
PlanCoversRangeOnce ==
    plan # NoPlan /\ ~Refused(plan) => PlanIsExact(plan)
=============================================================================
