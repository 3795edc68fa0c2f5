------------------------------ MODULE CausalGrid ------------------------------
(* The causal grid extraction of the replay pack                             *)
(* (packs/replay_reduction/causal_grid.py).  A pass walks witness and trade  *)
(* events in chronological order and emits, for every grid time of its       *)
(* partition, the facts a decision taken at that time may use: only trades   *)
(* of blocks that were complete by then (block <= cutoff).  A range is cut   *)
(* into two adjacent partitions.  Whoever asks chooses whether the second one *)
(* gets the carry of the first, and which files it gets beside it: nothing in *)
(* the code leaves out a row of these files, so events the carry stands for   *)
(* may be read again.                                                         *)
(*                                                                           *)
(* A trade is its event: prices and notionals are left out, an as-of fact is *)
(* the trade whose price is returned and a trailing fact is the sequence of  *)
(* trades whose sum and count are returned.  A witness is an event whose     *)
(* source is no target symbol; so is a trade of a symbol nobody asked for.   *)
EXTENDS Integers, Sequences, FiniteSets, SequencesExt

CONSTANTS
    Histories,      \* the sets of events an input may hold: [time, block, source]
    Requests,       \* the partitioned requests to answer
    Targets,        \* target_symbols
    AsOfOffsets,    \* as_of_offsets_ms
    TrailingWidths, \* trailing_width_ms of the trailing windows
    DayLength,      \* milliseconds of a day
    MaxOutputRows,  \* max_output_rows
    None            \* the value of a fact nothing qualifies for

Absent == -1        \* _CARRY_ABSENT_INT, which stands for None

\* Times are milliseconds since the epoch, blocks count from 0.  As-of offsets may
\* be negative: no validator of the request says otherwise.
ASSUME GridAssumption ==
    /\ \A H \in Histories : \A e \in H : e.time \in Nat /\ e.block \in Nat /\ e # None
    /\ AsOfOffsets \subseteq Int /\ IsFiniteSet(AsOfOffsets)
    /\ TrailingWidths \subseteq Nat /\ IsFiniteSet(TrailingWidths)
    /\ DayLength \in Nat \ {0}

\* What the request models validate.  The two partitions are adjacent and not
\* empty.  The second one's files hold the events from some time on; together with
\* the carry, if it gets one, nothing is missing.
ASSUME RequestAssumption ==
    \A r \in Requests :
        /\ r.gridStart \in Nat /\ r.cut \in Nat /\ r.gridEnd \in Nat
        /\ r.gridStart <= r.cut /\ r.cut < r.gridEnd
        /\ r.step \in Nat \ {0} /\ r.overlap \in Nat
        /\ r.missing \subseteq Nat /\ IsFiniteSet(r.missing)
        /\ r.carried \in BOOLEAN
        /\ r.from \in Nat /\ r.from <= r.cut + 1
        /\ ~r.carried => r.from = 0

VARIABLES
    request,   \* the request being answered
    events,    \* all the events there are
    pass,      \* the partition being extracted: "first", "second", "done"
    status,    \* of that pass: "start", "scan", "failed"
    unread,    \* the events of that pass not read yet
    gridTimes, \* the grid times of that pass whose rows are not emitted yet
    frontiers, \* _CausalIndex.segments: hard-gap segment -> block frontier
    rolling,   \* target symbol -> its deque, a function from positions to trades
    watermark, \* trade_watermark
    rows,      \* pass -> the rows it emitted
    carry      \* the outgoing carry of the first pass

vars == <<request, events, pass, status, unread, gridTimes, frontiers, rolling,
          watermark, rows, carry>>

-----------------------------------------------------------------------------
(* Hard-gap segments and block frontiers *)

Day(t) == t \div DayLength
OnMissingDate(t) == Day(t) \in request.missing
Segment(t) == Cardinality({d \in request.missing : Day(t) > d})

FreshFrontier == [primary |-> Absent, secondary |-> Absent,
                  lastTime |-> Absent, lastBlock |-> Absent, monotone |-> TRUE]

\* Mutant: a block seen again counts as a later one.
RegisterBlockAgain(f, block) ==
    IF block >= f.primary
    THEN [f EXCEPT !.primary = block, !.secondary = f.primary]
    ELSE IF block < f.primary /\ block > f.secondary
         THEN [f EXCEPT !.secondary = block]
         ELSE f

\* The two highest distinct blocks seen; Absent is below every block.
RegisterBlock(f, block) ==
    IF block > f.primary
    THEN [f EXCEPT !.primary = block, !.secondary = f.primary]
    ELSE IF block < f.primary /\ block > f.secondary
         THEN [f EXCEPT !.secondary = block]
         ELSE f

ObserveBlock(f, e) ==
    LET registered == RegisterBlock(f, e.block)
    IN  [primary   |-> registered.primary,
         secondary |-> registered.secondary,
         lastTime  |-> e.time,
         lastBlock |-> e.block,
         monotone  |-> f.monotone /\ e.time >= f.lastTime /\ e.block >= f.lastBlock]

Observe(index, e) == [index EXCEPT ![Segment(e.time)] = ObserveBlock(@, e)]

\* A block is complete once a later one was seen; no cutoff without order.
Cutoff(t) ==
    LET f == frontiers[Segment(t)]
    IN  IF f.monotone THEN f.secondary ELSE Absent

-----------------------------------------------------------------------------
(* The rolling window of a symbol and the facts read from it.  A deque maps  *)
(* positions, in order, to trades: it grows past its last position and loses *)
(* its first ones.                                                           *)

Lookback == Max(AsOfOffsets \cup TrailingWidths \cup {0})
EmptyDeque == [i \in {} |-> None]

\* Mutant: a trade as old as the lookback is evicted too.
EvictAtMark(deque, mark) ==
    Restrict(deque, {i \in DOMAIN deque :
                        \E k \in DOMAIN deque : k <= i /\ deque[k].time > mark})

Evict(deque, mark) ==
    Restrict(deque, {i \in DOMAIN deque :
                        \E k \in DOMAIN deque : k <= i /\ deque[k].time >= mark})

Pushed(deque, e) ==
    LET next == Max(DOMAIN deque \cup {0}) + 1
    IN  [i \in DOMAIN deque \cup {next} |-> IF i = next THEN e ELSE deque[i]]

Ingest(window, e, mark) ==
    IF e.source \in Targets
    THEN [window EXCEPT ![e.source] = Pushed(Evict(@, mark), e)]
    ELSE window

\* The default tie-break is the timestamp alone.
Preferred(deque, positions) ==
    {i \in positions : \A j \in positions : deque[j].time <= deque[i].time}

\* On a tie the one met first stays.
AsOf(deque, positions) ==
    IF positions = {} THEN None ELSE deque[Min(Preferred(deque, positions))]

FactsAt(deque, t, cutoff) ==
    LET usable == {i \in DOMAIN deque : deque[i].block <= cutoff /\ deque[i].time <= t}
    IN  [asOf |-> [o \in AsOfOffsets |->
                      AsOf(deque, {i \in usable : deque[i].time <= t - o})],
         trailing |-> [w \in TrailingWidths |->
                          Restrict(deque, {i \in usable : deque[i].time > t - w})]]

\* Without a cutoff every fact is None, the trailing ones too.
Unavailable == [asOf |-> [o \in AsOfOffsets |-> None],
                trailing |-> [w \in TrailingWidths |-> None]]

RowAt(t) ==
    [time |-> t, cutoff |-> Cutoff(t),
     facts |-> [s \in Targets |-> IF Cutoff(t) = Absent
                                  THEN Unavailable
                                  ELSE FactsAt(rolling[s], t, Cutoff(t))]]

-----------------------------------------------------------------------------
(* A partition, its grid and its chronological stream *)

EmitStart == IF pass = "first" THEN request.gridStart ELSE request.cut + 1
EmitEnd   == IF pass = "first" THEN request.cut ELSE request.gridEnd
ScanStart == EmitStart - Lookback

\* Mutant: the grid of a partition starts where the partition does.
GridTimesOfPartition ==
    LET low  == Max({request.gridStart, EmitStart})
        high == Min({request.gridEnd, EmitEnd})
    IN  {t \in low..high : (t - low) % request.step = 0}

OnGrid(t) == (t - request.gridStart) % request.step = 0

GridTimes ==
    LET low  == Max({request.gridStart, EmitStart})
        high == Min({request.gridEnd, EmitEnd})
    IN  {t \in low..high : OnGrid(t)}

\* Heap order: time, then block.  Of a trade and a witness of the same time and
\* block either may come first: their place in the files decides.
Earlier(a, b) ==
    \/ a.time < b.time
    \/ a.time = b.time /\ a.block < b.block

Carried == pass = "second" /\ request.carried

\* Every row of every file a pass is given is read, carry or not.
Inputs == {e \in events : pass = "second" => e.time >= request.from}

Pending == \E e \in unread : e.time <= EmitEnd
IsNext(e) == e.time <= EmitEnd /\ \A f \in unread : ~Earlier(f, e)
GridTime == Min(gridTimes)
RowDue ==
    /\ gridTimes # {}
    /\ \A e \in unread : IsNext(e) => e.time >= ScanStart /\ GridTime < e.time

-----------------------------------------------------------------------------
Segments == 0 .. Cardinality(request.missing)
EmptyIndex == [s \in Segments |-> FreshFrontier]
EmptyWindow == [s \in Targets |-> EmptyDeque]

Init ==
    /\ request \in Requests
    /\ events \in Histories
    /\ pass = "first" /\ status = "start"
    /\ unread = {} /\ gridTimes = {}
    /\ frontiers = EmptyIndex
    /\ rolling = EmptyWindow
    /\ watermark = 0
    /\ rows = [p \in {"first", "second"} |-> <<>>]
    /\ carry = [frontiers |-> EmptyIndex, trades |-> EmptyWindow]

\* An exception: the pass returns nothing, and there is no carry to go on with.
Fail ==
    /\ status' = "failed"
    /\ rows' = [rows EXCEPT ![pass] = <<>>]
    /\ UNCHANGED <<request, events, pass, unread, gridTimes, frontiers, rolling,
                   watermark, carry>>

Rejected ==
    \/ request.overlap < Lookback
    \/ Cardinality(GridTimes) * Cardinality(Targets) > MaxOutputRows

\* An overlap below the lookback, or more rows than allowed, is refused.
Reject == pass # "done" /\ status = "start" /\ Rejected /\ Fail

\* The carried trades are ingested one by one: what is left begins with the first
\* of them that is not too old, and the last one always stays.
Restored(deques) ==
    [s \in Targets |->
        LET deque == deques[s]
            isLast(k) == \A j \in DOMAIN deque : j <= k
        IN  Restrict(deque,
                {i \in DOMAIN deque : \E k \in DOMAIN deque :
                    k <= i /\ (deque[k].time >= ScanStart \/ isLast(k))})]

Begin ==
    /\ pass # "done" /\ status = "start" /\ ~Rejected
    /\ status' = "scan"
    /\ unread' = Inputs
    /\ gridTimes' = GridTimes
    /\ frontiers' = IF Carried THEN carry.frontiers ELSE EmptyIndex
    /\ rolling' = IF Carried THEN Restored(carry.trades) ELSE EmptyWindow
    /\ watermark' = ScanStart
    /\ UNCHANGED <<request, events, pass, rows, carry>>

\* An event before the scan start only advances the index and the windows.
ScanEarly(e) ==
    /\ status = "scan" /\ IsNext(e)
    /\ e.time < ScanStart
    /\ ~OnMissingDate(e.time)
    /\ frontiers' = Observe(frontiers, e)
    /\ rolling' = Ingest(rolling, e, ScanStart)
    /\ unread' = unread \ {e}
    /\ UNCHANGED <<request, events, pass, status, gridTimes, watermark, rows, carry>>

\* _emit_grid_row for a grid time before the next event, or after the last.
EmitRow ==
    /\ status = "scan" /\ RowDue
    /\ ~OnMissingDate(GridTime)
    /\ rows' = [rows EXCEPT ![pass] = Append(@, RowAt(GridTime))]
    /\ gridTimes' = gridTimes \ {GridTime}
    /\ UNCHANGED <<request, events, pass, status, unread, frontiers, rolling,
                   watermark, carry>>

\* Mutant: a trade evicts whatever came before it.
NextWatermarkNow(e) ==
    IF e.source \in Targets THEN Max({watermark, e.time}) ELSE watermark

NextWatermark(e) ==
    IF e.source \in Targets THEN Max({watermark, e.time - Lookback}) ELSE watermark

ScanEvent(e) ==
    /\ status = "scan" /\ IsNext(e) /\ ~RowDue
    /\ e.time >= ScanStart
    /\ ~OnMissingDate(e.time)
    /\ frontiers' = Observe(frontiers, e)
    /\ watermark' = NextWatermark(e)
    /\ rolling' = Ingest(rolling, e, NextWatermark(e))
    /\ unread' = unread \ {e}
    /\ UNCHANGED <<request, events, pass, status, gridTimes, rows, carry>>

\* _segment_id raises for an event or a grid time on a hard missing date.
HitMissingDate ==
    /\ status = "scan"
    /\ \/ RowDue /\ OnMissingDate(GridTime)
       \/ ~RowDue /\ \E e \in unread : IsNext(e) /\ OnMissingDate(e.time)
    /\ Fail

CarriedTrades ==
    [s \in Targets |->
        Restrict(rolling[s], {i \in DOMAIN rolling[s] :
                                 rolling[s][i].time >= EmitEnd - request.overlap})]

Finish ==
    /\ status = "scan" /\ ~Pending /\ gridTimes = {}
    /\ carry' = [frontiers |-> frontiers, trades |-> CarriedTrades]
    /\ pass' = IF pass = "first" THEN "second" ELSE "done"
    /\ status' = "start"
    /\ unread' = {}
    /\ UNCHANGED <<request, events, gridTimes, frontiers, rolling, watermark, rows>>

Next ==
    \/ Reject \/ Begin
    \/ \E e \in unread : ScanEarly(e) \/ ScanEvent(e)
    \/ EmitRow \/ HitMissingDate
    \/ Finish

Spec == Init /\ [][Next]_vars

-----------------------------------------------------------------------------
(* What the rows should be, from the events alone *)

\* A pass returns its rows when it has finished.
ReturnedRows ==
    (IF pass # "first" THEN ToSet(rows["first"]) ELSE {})
    \cup (IF pass = "done" THEN ToSet(rows["second"]) ELSE {})

Seen(t) == {e \in events : e.time <= t /\ Segment(e.time) = Segment(t)}
InOrder(S) == \A e, f \in S : e.time < f.time => e.block <= f.block

FrozenCutoff(t) ==
    LET blocks   == {e.block : e \in Seen(t)}
        complete == {b \in blocks : \E later \in blocks : later > b}
    IN  IF InOrder(Seen(t)) /\ complete # {} THEN Max(complete) ELSE Absent

\* The latest trades, and of equally late ones those of the lowest block.
LatestOf(S) ==
    {e \in S : \A f \in S : \/ f.time < e.time
                            \/ f.time = e.time /\ f.block >= e.block}

\* What the second partition's files hold of what its carry stands for.
Past == {e \in events : e.time <= request.cut}
Again == {e \in Past : request.carried /\ e.time >= request.from}

\* The stream steps back behind a carried event of the segment.
Rewinds(t) ==
    /\ t > request.cut
    /\ \E a \in Again, b \in Past :
          Segment(a.time) = Segment(t) /\ Segment(b.time) = Segment(t) /\ Earlier(a, b)

DueCutoff(t) == IF Rewinds(t) THEN Absent ELSE FrozenCutoff(t)

Causal(s, t) == {e \in events : e.source = s /\ e.time <= t /\ e.block <= DueCutoff(t)}

Values(fact) == {fact[i] : i \in DOMAIN fact}
Repeated(fact) ==
    {e \in Values(fact) : \E i, j \in DOMAIN fact : i # j /\ fact[i] = e /\ fact[j] = e}

\* The frontier kept in two numbers per segment, handed over in the carry,
\* gives every row the cutoff computed from the whole history: the second
\* highest block of the segment seen by then, and none once a block went back.
\* Files that repeat what the carry stands for can only take the cutoff away,
\* and do so exactly if one of their events is older than a carried one.
CutoffIsFrozenCutoff ==
    \A row \in ReturnedRows : row.cutoff = DueCutoff(row.time)

\* A trailing fact holds every causal trade of its window, and none of a block
\* that was still open; without a cutoff there is none.  It holds a trade once,
\* unless both the carry and the files brought it: then twice.
TrailingFactsAreExact ==
    \A row \in ReturnedRows, s \in Targets, w \in TrailingWidths :
        LET fact == row.facts[s].trailing[w]
            due  == {e \in Causal(s, row.time) : e.time > row.time - w}
        IN  IF DueCutoff(row.time) = Absent
            THEN fact = None
            ELSE /\ Values(fact) = due
                 /\ Repeated(fact) = {e \in due : row.time > request.cut /\ e \in Again}

\* An as-of fact is the latest causal trade at its target time when that trade
\* is within the lookback, whatever was evicted, carried over or read again in
\* between.  An older one may have been evicted: the fact is then missing, or a
\* trade of the same time that outlived it, but never an earlier trade.
AsOfFactsAreLatest ==
    \A row \in ReturnedRows, s \in Targets, o \in AsOfOffsets :
        LET fact == row.facts[s].asOf[o]
            due  == {e \in Causal(s, row.time) : e.time <= row.time - o}
        IN  \/ due = {} /\ fact = None
            \/ fact \in LatestOf(due)
            \/ \E e \in LatestOf(due) :
                  /\ e.time < row.time - Lookback
                  /\ fact = None \/ (fact \in due /\ fact.time = e.time)

\* Two adjacent partitions emit every point of the grid once and in order,
\* wherever the cut falls between grid points.
PartitionsCoverGridOnce ==
    pass = "done" =>
        LET emitted == rows["first"] \o rows["second"]
        IN  /\ {emitted[i].time : i \in DOMAIN emitted}
                 = {t \in request.gridStart .. request.gridEnd : OnGrid(t)}
            /\ \A i, j \in DOMAIN emitted : i < j => emitted[i].time < emitted[j].time

-----------------------------------------------------------------------------
(* A claim of the repository that the code does not keep. *)

\* Two partitions, the second with the carry and whatever files, return the rows one
\* pass over all files returns: at least their cutoffs, and no trade twice.  The test
\* of the partitions' equivalence asserts it for the carry and all files.
MergedRowsAreOnePass ==
    \A row \in ReturnedRows :
        /\ row.cutoff = FrozenCutoff(row.time)
        /\ row.cutoff # Absent =>
              \A s \in Targets, w \in TrailingWidths :
                  Repeated(row.facts[s].trailing[w]) = {}
=============================================================================
