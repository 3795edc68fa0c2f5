----------------------------- MODULE KernelPlanning -----------------------------
(* How a range becomes shards and shards become waves (kernel/core.py).  Times *)
(* and indexes are both integers here; a range is half-open.  A request is a   *)
(* record: start, end, size (of a shard), before and after (the extents of its *)
(* correctness specification, added up), maxPerWave and capability (the limits *)
(* of the caller and of the backend).                                          *)
EXTENDS Integers, Sequences, FiniteSets, SequencesExt

CONSTANT NoLimit \* a wave limit that is not given

\* A cursor advances by the shard size; the last shard ends with the range.
PlanShards(request) ==
    [i \in 1 .. (request.end - request.start + request.size - 1) \div request.size |->
        [ordinal |-> i - 1,
         start   |-> request.start + (i - 1) * request.size,
         end     |-> Min({request.start + i * request.size, request.end})]]

\* expanded_range of an index shard: never below zero, open at the end.
ReadWindow(shard, request) ==
    [start |-> Max({0, shard.start - request.before}),
     end   |-> shard.end + request.after]

WaveLimits(request) == {request.maxPerWave, request.capability} \ {NoLimit}

Refused(request) ==
    \/ request.size <= 0
    \/ WaveLimits(request) = {}
    \/ \E limit \in WaveLimits(request) : limit <= 0

\* Mutant: the last, smaller wave is forgotten.
PlanFullWaves(shards, request) ==
    LET limit == Min(WaveLimits(request))
    IN  [w \in 1 .. Len(shards) \div limit |->
            [ordinal |-> w - 1,
             shards  |-> SubSeq(shards, (w - 1) * limit + 1, w * limit)]]

\* The shards, each of its own ordinal, in the order of the ordinals.
Ordered(shards) ==
    LET before(s) == {t \in ToSet(shards) : t.ordinal < s.ordinal}
    IN  [i \in DOMAIN shards |->
            CHOOSE s \in ToSet(shards) : Cardinality(before(s)) = i - 1]

\* Slices of the shards in that order.
PlanWaves(shards, request) ==
    LET limit   == Min(WaveLimits(request))
        ordered == Ordered(shards)
    IN  [w \in 1 .. (Len(ordered) + limit - 1) \div limit |->
            [ordinal |-> w - 1,
             shards  |-> SubSeq(ordered, (w - 1) * limit + 1,
                                Min({w * limit, Len(ordered)}))]]

-----------------------------------------------------------------------------
\* Each index of the range is the primary index of one shard, no shard is empty,
\* and a shard reads every index within the extents of one of its own.
RangeIsCovered(request) ==
    LET shards == PlanShards(request)
        inside(x, s) == s.start <= x /\ x < s.end
    IN  /\ \A x \in request.start .. request.end - 1 :
              \E i \in DOMAIN shards :
                 /\ inside(x, shards[i])
                 /\ \A j \in DOMAIN shards \ {i} : ~inside(x, shards[j])
                 /\ \A y \in request.start .. request.end - 1 :
                       x - request.before <= y /\ y <= x + request.after
                       => inside(y, ReadWindow(shards[i], request))
        /\ \A i \in DOMAIN shards : shards[i].start < shards[i].end

\* Each shard is in one wave, in order, and no wave is empty or exceeds a limit.
WavesAreExact(request) ==
    LET shards == PlanShards(request)
        waves  == PlanWaves(shards, request)
    IN  /\ FlattenSeq([w \in DOMAIN waves |-> waves[w].shards]) = shards
        /\ \A w \in DOMAIN waves :
              /\ waves[w].ordinal = w - 1
              /\ waves[w].shards # <<>>
              /\ \A limit \in WaveLimits(request) : Len(waves[w].shards) <= limit

\* What a plan promises.
PlanIsExact(request) == RangeIsCovered(request) /\ WavesAreExact(request)
=============================================================================
