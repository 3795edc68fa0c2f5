------------------------ MODULE ReplayInputs_proofs -------------------------
(* Proofs about what ReplayInputs plans, collapses and extracts, for ranges,   *)
(* sizes, limits and requests of any values: the shards of a range and their   *)
(* waves, the trades that buckets, part files and sorts leave of the rows of   *)
(* any files, and the facts of a decision.                                     *)
EXTENDS CanonicalStates_proofs

-----------------------------------------------------------------------------
(* Shards of a range *)

\* The library chooses the maximum of a set.
LEMMA MaxOfTwo ==
    ASSUME NEW a \in Int, NEW b \in Int
    PROVE  Max({a, b}) = IF a >= b THEN a ELSE b
BY DEF Max

\* The half-open range of the i-th shard, and how many there are.
LEMMA ShardBounds ==
    ASSUME NEW request,
           request.start \in Nat, request.end \in Nat,
           request.start <= request.end, request.size \in Nat \ {0}
    PROVE  LET shards == PlanShards(request)
               n == (request.end - request.start + request.size - 1) \div request.size
           IN  /\ n \in Nat /\ DOMAIN shards = 1..n
               /\ request.end - request.start <= n * request.size
               /\ n * request.size < request.end - request.start + request.size
               /\ \A i \in 1..n :
                    /\ shards[i].start = request.start + (i - 1) * request.size
                    /\ shards[i].end = IF request.start + i * request.size <= request.end
                                       THEN request.start + i * request.size
                                       ELSE request.end
<1> DEFINE length == request.end - request.start
           n == (length + request.size - 1) \div request.size
<1>1. /\ n \in Nat /\ length <= n * request.size
      /\ n * request.size < length + request.size
  <2>1. length + request.size - 1 \in Nat
    OBVIOUS
  <2>2. /\ n \in Nat /\ n * request.size <= length + request.size - 1
        /\ length + request.size - 1 < n * request.size + request.size
    BY <2>1, Facts!Quotient
  <2>3. n * request.size \in Int
    BY <2>2
  <2> QED
    BY <2>2, <2>3
<1>2. ASSUME NEW i \in 1..n
      PROVE  /\ PlanShards(request)[i].start = request.start + (i - 1) * request.size
             /\ PlanShards(request)[i].end =
                  IF request.start + i * request.size <= request.end
                  THEN request.start + i * request.size ELSE request.end
  <2>1. /\ PlanShards(request)[i].start = request.start + (i - 1) * request.size
        /\ PlanShards(request)[i].end =
             Min({request.start + i * request.size, request.end})
    BY DEF PlanShards
  <2>2. request.start + i * request.size \in Int
    BY <1>1
  <2> QED
    BY <2>1, <2>2, Facts!MinOfTwo, SameLibrary
<1>3. DOMAIN PlanShards(request) = 1..n
  BY DEF PlanShards
<1> QED
  BY <1>1, <1>2, <1>3

\* plan_shards covers every range once, whatever its length and the shard size,
\* and expanded_range gives each shard all its primary indexes need.
THEOREM ShardsCoverRange ==
    ASSUME NEW request,
           request.start \in Nat, request.end \in Nat,
           request.start <= request.end, request.size \in Nat \ {0},
           request.before \in Nat, request.after \in Nat
    PROVE  RangeIsCovered(request)
<1> DEFINE shards == PlanShards(request)
           size == request.size
           n == (request.end - request.start + size - 1) \div size
           inside(x, s) == s.start <= x /\ x < s.end
<1>1. n \in Nat /\ DOMAIN shards = 1..n
  BY ShardBounds
<1>2. \A i \in 1..n :
        /\ shards[i].start = request.start + (i - 1) * size
        /\ shards[i].end = IF request.start + i * size <= request.end
                           THEN request.start + i * size ELSE request.end
  BY ShardBounds
<1>3. /\ n * size \in Int
      /\ request.end - request.start <= n * size
      /\ n * size < request.end - request.start + size
  BY ShardBounds
<1>4. \A i \in 1..n : (i - 1) * size \in Int /\ i * size = (i - 1) * size + size
  BY <1>1
<1> HIDE DEF shards, n
<1>5. ASSUME NEW i \in DOMAIN shards PROVE shards[i].start < shards[i].end
  <2>1. i \in 1..n /\ i - 1 \in Int /\ n - 1 \in Int /\ i - 1 <= n - 1
    BY <1>1
  <2>2. (i - 1) * size <= (n - 1) * size
    BY <2>1, Facts!Multiples
  <2>3. (n - 1) * size = n * size - size
    BY <1>1, Facts!OneLess
  <2>4. (i - 1) * size < request.end - request.start /\ (i - 1) * size \in Int
    BY <1>4, <1>3, <2>1, <2>2, <2>3
  <2> QED
    BY <1>2, <1>4, <2>1, <2>4
<1>6. ASSUME NEW x \in request.start .. request.end - 1
      PROVE  \E i \in DOMAIN shards :
                /\ inside(x, shards[i])
                /\ \A j \in DOMAIN shards \ {i} : ~inside(x, shards[j])
                /\ \A y \in request.start .. request.end - 1 :
                      x - request.before <= y /\ y <= x + request.after
                      => inside(y, ReadWindow(shards[i], request))
  <2> DEFINE q == (x - request.start) \div size
             i == q + 1
  <2>1. x - request.start \in Nat
    OBVIOUS
  <2>2. q \in Nat
    BY <2>1, Facts!Quotient
  <2>3. q * size <= x - request.start /\ x - request.start < q * size + size
    BY <2>1, Facts!Quotient
  <2>4. i * size = q * size + size /\ q * size \in Int
    BY <2>2
  <2> HIDE DEF q
  <2>5. i \in 1..n
    <3>1. ASSUME n <= q PROVE FALSE
      <4>1. n * size <= q * size
        BY <1>1, <2>2, <3>1, Facts!Multiples
      <4> QED
        BY <1>3, <2>3, <2>4, <4>1
    <3> QED
      BY <1>1, <2>2, <3>1
  <2>6. inside(x, shards[i])
    BY <1>2, <2>3, <2>4, <2>5, <2>2
  <2>7. ASSUME NEW j \in DOMAIN shards \ {i} PROVE ~inside(x, shards[j])
    <3>1. j \in 1..n /\ j \in Int
      BY <1>1
    <3>2. CASE j <= q
      <4>1. j * size <= q * size
        BY <2>2, <3>1, <3>2, Facts!Multiples
      <4> QED
        BY <1>2, <1>4, <2>3, <2>4, <3>1, <4>1
    <3>3. CASE i <= j - 1
      <4>1. i * size <= (j - 1) * size
        BY <2>2, <3>1, <3>3, Facts!Multiples
      <4> QED
        BY <1>2, <1>4, <2>3, <2>4, <3>1, <4>1
    <3> QED
      BY <2>2, <3>1, <3>2, <3>3
  <2>8. ASSUME NEW y \in request.start .. request.end - 1,
               x - request.before <= y, y <= x + request.after
        PROVE  inside(y, ReadWindow(shards[i], request))
    <3>1. shards[i].start \in Int /\ shards[i].end \in Int
      BY <1>2, <1>4, <2>4, <2>5
    <3>2. ReadWindow(shards[i], request).start <= y
      BY <2>6, <3>1, <2>8, MaxOfTwo DEF ReadWindow
    <3>3. y < ReadWindow(shards[i], request).end
      BY <2>6, <3>1, <2>8 DEF ReadWindow
    <3> QED
      BY <3>2, <3>3
  <2> QED
    BY <1>1, <2>5, <2>6, <2>7, <2>8
<1> QED
  BY <1>5, <1>6 DEF RangeIsCovered, shards

-----------------------------------------------------------------------------
(* Shards and waves *)

\* Sorting shards that are in the order of their ordinals changes nothing.
LEMMA OrderedAlready ==
    ASSUME NEW n \in Nat, NEW shards, DOMAIN shards = 1..n,
           shards = [i \in 1..n |-> shards[i]],
           \A i \in 1..n : shards[i].ordinal = i - 1
    PROVE  Ordered(shards) = shards
<1> DEFINE before(s) == {t \in ToSet(shards) : t.ordinal < s.ordinal}
<1>1. ToSet(shards) = {shards[i] : i \in 1..n}
  BY DEF ToSet
<1>2. ASSUME NEW i \in 1..n PROVE Cardinality(before(shards[i])) = i - 1
  <2> DEFINE k == i - 1
  <2>1. before(shards[i]) = Initial(shards, k)
    <3>1. ASSUME NEW t \in before(shards[i]) PROVE t \in Initial(shards, k)
      <4>1. PICK j \in 1..n : t = shards[j]
        BY <1>1
      <4>2. j - 1 < i - 1
        BY <4>1, <3>1
      <4>3. j \in 1..k
        BY <4>2
      <4> QED BY <4>1, <4>3 DEF Initial
    <3>2. ASSUME NEW j \in 1..k PROVE shards[j] \in before(shards[i])
      <4>1. j \in 1..n /\ j - 1 < i - 1
        OBVIOUS
      <4> QED BY <1>1, <4>1
    <3> QED BY <3>1, <3>2 DEF Initial
  <2>2. k \in Nat /\ \A j \in 1..k : j \in 1..n
    OBVIOUS
  <2>3. \A j, l \in 1..k : shards[j] = shards[l] => j = l
    <3> TAKE j, l \in 1..k
    <3> HAVE shards[j] = shards[l]
    <3>1. j - 1 = l - 1
      BY <2>2
    <3> QED BY <3>1
  <2> HIDE DEF k
  <2>4. Cardinality(Initial(shards, k)) = k
    BY <2>2, <2>3, InitialCardinality
  <2> QED BY <2>1, <2>4 DEF k
<1> HIDE DEF before
<1>3. ASSUME NEW i \in 1..n
      PROVE  (CHOOSE s \in ToSet(shards) : Cardinality(before(s)) = i - 1) = shards[i]
  <2>1. shards[i] \in ToSet(shards) /\ Cardinality(before(shards[i])) = i - 1
    BY <1>1, <1>2
  <2>2. ASSUME NEW s \in ToSet(shards), Cardinality(before(s)) = i - 1 PROVE s = shards[i]
    <3>1. PICK j \in 1..n : s = shards[j]
      BY <1>1
    <3>2. j - 1 = i - 1
      BY <1>2, <2>2, <3>1
    <3>3. j = i
      BY <3>2
    <3> QED BY <3>1, <3>3
  <2> QED BY <2>1, <2>2
<1>4. Ordered(shards) =
        [i \in 1..n |-> CHOOSE s \in ToSet(shards) : Cardinality(before(s)) = i - 1]
  BY DEF Ordered, before
<1> QED BY <1>3, <1>4

\* The least of the limits that are given.
LEMMA LeastLimit ==
    ASSUME NEW request,
           request.maxPerWave \in Int \cup {NoLimit},
           request.capability \in Int \cup {NoLimit}, ~Refused(request)
    PROVE  LET limit == Min(WaveLimits(request))
           IN  limit \in Nat \ {0} /\ \A other \in WaveLimits(request) : limit <= other
<1> DEFINE limits == WaveLimits(request)
<1>1. limits # {} /\ limits \subseteq Nat /\ \A limit \in limits : limit # 0
  <2>1. \A limit \in limits : limit \in Int /\ ~(limit <= 0)
    BY DEF Refused, WaveLimits
  <2> QED BY <2>1 DEF Refused
<1> HIDE DEF limits
<1>2. \E m \in limits : \A k \in limits : m <= k
  BY <1>1, Facts!LeastElement
<1>3. Min(limits) \in limits /\ \A k \in limits : Min(limits) <= k
  BY <1>2 DEF Min
<1> QED BY <1>1, <1>3 DEF limits

\* plan_waves puts each shard of a range in one wave, in order, fills every wave
\* but the last and respects both limits.
THEOREM WavesPartitionShards ==
    ASSUME NEW request,
           request.start \in Nat, request.end \in Nat,
           request.start <= request.end, request.size \in Int,
           request.maxPerWave \in Int \cup {NoLimit},
           request.capability \in Int \cup {NoLimit}, ~Refused(request)
    PROVE  WavesAreExact(request)
<1> DEFINE shards == PlanShards(request)
           n == (request.end - request.start + request.size - 1) \div request.size
           limit == Min(WaveLimits(request))
           slices == Facts!Cut(shards, limit)
           waves == PlanWaves(shards, request)
<1>1. request.size \in Nat \ {0}
  BY DEF Refused
<1>2. n \in Nat /\ DOMAIN shards = 1..n
  BY <1>1, ShardBounds
<1>3. /\ shards = [i \in 1..n |-> shards[i]]
      /\ \A i \in 1..n : shards[i].ordinal = i - 1
  BY DEF PlanShards
<1>4. limit \in Nat \ {0} /\ \A other \in WaveLimits(request) : limit <= other
  BY LeastLimit
<1> HIDE DEF n
<1>5. Ordered(shards) = shards
  <2> HIDE DEF shards
  <2> QED BY <1>2, <1>3, OrderedAlready
<1> HIDE DEF shards
<1>6. shards \in Seq(ToSet(shards))
  <2>1. \A i \in 1..n : shards[i] \in ToSet(shards)
    BY <1>2 DEF ToSet
  <2> QED BY <1>2, <1>3, <2>1
<1> DEFINE N == (Len(shards) + limit - 1) \div limit
           slice(w) == SubSeq(shards, (w - 1) * limit + 1, Min({w * limit, Len(shards)}))
<1>7. waves = [w \in 1..N |-> [ordinal |-> w - 1, shards |-> slice(w)]]
  BY <1>5 DEF PlanWaves
<1>8. slices = [w \in 1..N |-> slice(w)]
  BY SameLibrary DEF Facts!Cut
<1> HIDE DEF limit, N, slice, waves
<1>9. /\ FlattenSeq(slices) = shards
      /\ \A w \in DOMAIN slices : slices[w] # <<>> /\ Len(slices[w]) <= limit
  BY <1>4, <1>6, Facts!CutFlattens, SameLibrary
<1> HIDE DEF slices
<1>10. [w \in DOMAIN waves |-> waves[w].shards] = slices
  BY <1>7, <1>8
<1>11. ASSUME NEW w \in DOMAIN waves
       PROVE  /\ waves[w].ordinal = w - 1
              /\ waves[w].shards # <<>>
              /\ \A other \in WaveLimits(request) : Len(waves[w].shards) <= other
  <2>1. w \in DOMAIN slices /\ waves[w].ordinal = w - 1 /\ waves[w].shards = slices[w]
    BY <1>7, <1>8
  <2>2. slices[w] # <<>> /\ Len(slices[w]) <= limit
    BY <1>9, <2>1
  <2>3. Len(slices[w]) \in Int
    <3>1. slices[w] = SubSeq(shards, (w - 1) * limit + 1, Min({w * limit, Len(shards)}))
      BY <1>8, <2>1 DEF slice
    <3> QED BY <1>9, <2>1
  <2>4. ASSUME NEW other \in WaveLimits(request) PROVE Len(slices[w]) <= other
    <3>1. limit <= other /\ other \in Int
      BY <1>4 DEF WaveLimits
    <3> QED BY <1>4, <2>2, <2>3, <3>1
  <2> QED BY <2>1, <2>2, <2>4
<1> QED BY <1>9, <1>10, <1>11 DEF WavesAreExact, waves, shards

-----------------------------------------------------------------------------
(* Planning as the runs do it *)

\* plan_shards, expanded_range and plan_waves: every index of the range is
\* covered once, every shard is in one wave and no limit is exceeded, for every
\* range, shard size, extent and limit.
THEOREM PlanTheorem == InputSpec => []PlanCoversRangeOnce
<1>1. InputIInv => PlanCoversRangeOnce
  <2> SUFFICES ASSUME plan \in PlanRequest, plan.start <= plan.end, ~Refused(plan)
               PROVE  PlanIsExact(plan)
    BY DEF InputIInv, PlanCoversRangeOnce
  <2>1. /\ plan.start \in Nat /\ plan.end \in Nat /\ plan.size \in Int
        /\ plan.before \in Nat /\ plan.after \in Nat
        /\ plan.maxPerWave \in Int \cup {NoLimit} /\ plan.capability \in Int \cup {NoLimit}
    BY DEF PlanRequest
  <2>2. plan.size \in Nat \ {0}
    BY <2>1 DEF Refused
  <2> QED BY <2>1, <2>2, ShardsCoverRange, WavesPartitionShards DEF PlanIsExact
<1> QED BY <1>1, InputInvInit, InputInvNext, PTL DEF InputSpec

-----------------------------------------------------------------------------
(* One row for each identity *)

\* What bucket_index and the orders of rows need of a row.
Usable(S) ==
    \A r \in S :
        /\ r.identity \in Int /\ r.time \in Int /\ r.block \in Int
        /\ r.identity \in DOMAIN BucketOf

\* Both sorts are of orders they can sort by.
LEMMA RowOrders ==
    ASSUME NEW S, Usable(S)
    PROVE  Facts!RowOrder(S) /\ IdentityFacts!RowOrder(S)
<1>1. Facts!RowOrder(S)
  BY DEF Facts!RowOrder, ByTime, Usable
<1>2. IdentityFacts!RowOrder(S)
  BY DEF IdentityFacts!RowOrder, ByIdentity, Usable
<1> QED BY <1>1, <1>2

Better(r, s) == r.time > s.time \/ (r.time = s.time /\ r.block <= s.block)

\* What the first n rows of a bucket, in order, are collapsed to.
CollapsedAt(groups, sorted, n, S) ==
    /\ groups \in [ok : BOOLEAN, best : Seq(S)]
    /\ \A i \in 1 .. Len(groups.best) : \E k \in 1..n : groups.best[i] = sorted[k]
    /\ \A k \in 1..n : \E i \in 1 .. Len(groups.best) :
          groups.best[i].identity = sorted[k].identity
    /\ \A i, j \in 1 .. Len(groups.best) :
          i < j => groups.best[i].identity < groups.best[j].identity
    /\ \A i \in 1 .. Len(groups.best), k \in 1..n :
          groups.best[i].identity = sorted[k].identity => Better(groups.best[i], sorted[k])
    /\ n > 0 => groups.best # <<>> /\ Last(groups.best).identity = sorted[n].identity
    /\ groups.ok <=> \A j, k \in 1..n :
          sorted[j].identity = sorted[k].identity => sorted[j].core = sorted[k].core

\* One row of the pass over rows sorted by identity.
LEMMA CollapseStep ==
    ASSUME NEW S, Usable(S), NEW sorted \in Seq(S), IdentityFacts!Sorted(sorted),
           NEW n \in Nat, n < Len(sorted), NEW groups, CollapsedAt(groups, sorted, n, S)
    PROVE  CollapsedAt(CollapseRow(groups, sorted[n + 1]), sorted, n + 1, S)
<1> DEFINE r == sorted[n + 1]
           best == groups.best
           m == Len(best)
           next == CollapseRow(groups, r)
<1>1. /\ n + 1 \in 1 .. Len(sorted) /\ 1 .. n + 1 = (1..n) \cup {n + 1}
      /\ \A k \in 1..n : k \in 1 .. Len(sorted) /\ k < n + 1 /\ sorted[k] \in S
      /\ r \in S
  <2>1. Len(sorted) \in Nat /\ n + 1 \in 1 .. Len(sorted)
    OBVIOUS
  <2>2. \A k \in 1..n : k \in 1 .. Len(sorted) /\ k < n + 1
    BY <2>1
  <2> QED BY <2>1, <2>2
<1>2. \A k \in 1..n : ~ByIdentity(r, sorted[k])
  BY <1>1 DEF IdentityFacts!Sorted
<1>3. /\ best \in Seq(S) /\ m \in Nat /\ groups.ok \in BOOLEAN
      /\ groups = [ok |-> groups.ok, best |-> best]
      /\ \A i \in 1..m : best[i] \in S
  BY DEF CollapsedAt
<1>4. /\ \A i \in 1..m : \E k \in 1..n : best[i] = sorted[k]
      /\ \A k \in 1..n : \E i \in 1..m : best[i].identity = sorted[k].identity
      /\ \A i, j \in 1..m : i < j => best[i].identity < best[j].identity
      /\ \A i \in 1..m, k \in 1..n :
            best[i].identity = sorted[k].identity => Better(best[i], sorted[k])
      /\ n > 0 => best # <<>> /\ best[m].identity = sorted[n].identity
  BY DEF CollapsedAt, Last
<1>5. groups.ok <=> \A j, k \in 1..n :
          sorted[j].identity = sorted[k].identity => sorted[j].core = sorted[k].core
  BY DEF CollapsedAt
<1>6. best = <<>> <=> m = 0
  BY <1>3
<1>7. Last(best) = best[m]
  BY DEF Last
<1>8. \A s \in S : s.identity \in Int /\ s.time \in Int /\ s.block \in Int
  BY DEF Usable
<1> SUFFICES CollapsedAt(next, sorted, n + 1, S)
  OBVIOUS
<1> HIDE DEF r, best, m
<1>9. CASE best = <<>> \/ best[m].identity # r.identity
  <2>1. next = [ok |-> groups.ok, best |-> Append(best, r)]
    BY <1>3, <1>7, <1>9 DEF CollapseRow, best
  <2> DEFINE more == Append(best, r)
  <2>2. /\ more \in Seq(S) /\ Len(more) = m + 1 /\ more[m + 1] = r
        /\ \A i \in 1..m : more[i] = best[i]
        /\ more # <<>>
    BY <1>1, <1>3, AppendProperties DEF m
  <2> HIDE DEF more
  <2>3. \A i \in 1..m : best[i].identity < r.identity
    <3> TAKE i \in 1..m
    <3>1. m \in 1..m /\ m # 0 /\ best[m].identity # r.identity
      BY <1>3, <1>6, <1>9
    <3>2. n > 0
      <4>1. PICK k \in 1..n : best[i] = sorted[k]
        BY <1>4
      <4> QED BY <4>1
    <3>3. best[m].identity = sorted[n].identity /\ n \in 1..n
      BY <1>4, <3>2
    <3>4. ~(r.identity < sorted[n].identity)
      BY <1>1, <1>2, <3>3 DEF ByIdentity
    <3>5. best[m].identity < r.identity
      BY <1>1, <1>3, <1>8, <3>1, <3>3, <3>4
    <3>6. i = m \/ best[i].identity < best[m].identity
      <4>1. i # m => i < m
        BY <1>3
      <4> QED BY <1>4, <3>1, <4>1
    <3> QED BY <1>1, <1>3, <1>8, <3>1, <3>5, <3>6
  <2>4. \A k \in 1..n : sorted[k].identity # r.identity
    <3> TAKE k \in 1..n
    <3>1. PICK i \in 1..m : best[i].identity = sorted[k].identity
      BY <1>4
    <3>2. best[i].identity < r.identity
      BY <2>3
    <3> QED BY <1>1, <1>3, <1>8, <3>1, <3>2
  <2>5. \A i \in 1 .. m + 1 : i \in 1..m \/ i = m + 1
    BY <1>3
  <2>6. \A i \in 1 .. m + 1 : \E k \in 1 .. n + 1 : more[i] = sorted[k]
    <3> TAKE i \in 1 .. m + 1
    <3>1. CASE i \in 1..m
      <4>1. PICK k \in 1..n : best[i] = sorted[k]
        BY <1>4, <3>1
      <4> QED BY <1>1, <2>2, <3>1, <4>1
    <3>2. CASE i = m + 1
      <4>1. n + 1 \in 1 .. n + 1
        BY <1>1
      <4> QED BY <2>2, <3>2, <4>1 DEF r
    <3> QED BY <2>5, <3>1, <3>2
  <2>7. \A k \in 1 .. n + 1 : \E i \in 1 .. m + 1 : more[i].identity = sorted[k].identity
    <3> TAKE k \in 1 .. n + 1
    <3>1. CASE k \in 1..n
      <4>1. PICK i \in 1..m : best[i].identity = sorted[k].identity
        BY <1>4, <3>1
      <4>2. i \in 1 .. m + 1 /\ more[i] = best[i]
        BY <1>3, <2>2
      <4> QED BY <4>1, <4>2
    <3>2. CASE k = n + 1
      <4>1. m + 1 \in 1 .. m + 1
        BY <1>3
      <4> QED BY <2>2, <3>2, <4>1 DEF r
    <3> QED BY <1>1, <3>1, <3>2
  <2>8. \A i, j \in 1 .. m + 1 : i < j => more[i].identity < more[j].identity
    <3> TAKE i, j \in 1 .. m + 1
    <3> HAVE i < j
    <3>1. i \in 1..m
      BY <1>3
    <3>2. CASE j \in 1..m
      BY <1>4, <2>2, <3>1, <3>2
    <3>3. CASE j = m + 1
      BY <2>2, <2>3, <3>1, <3>3
    <3> QED BY <2>5, <3>2, <3>3
  <2>9. \A i \in 1 .. m + 1, k \in 1 .. n + 1 :
           more[i].identity = sorted[k].identity => Better(more[i], sorted[k])
    <3> TAKE i \in 1 .. m + 1, k \in 1 .. n + 1
    <3> HAVE more[i].identity = sorted[k].identity
    <3>1. CASE i \in 1..m /\ k \in 1..n
      BY <1>4, <2>2, <3>1
    <3>2. CASE i \in 1..m /\ k = n + 1
      <4>1. best[i].identity < r.identity /\ best[i].identity = r.identity
        BY <2>2, <2>3, <3>2 DEF r
      <4> QED BY <1>1, <1>3, <1>8, <3>2, <4>1
    <3>3. CASE i = m + 1 /\ k \in 1..n
      BY <2>2, <2>4, <3>3
    <3>4. CASE i = m + 1 /\ k = n + 1
      BY <1>1, <1>8, <2>2, <3>4 DEF Better, r
    <3> QED BY <1>1, <2>5, <3>1, <3>2, <3>3, <3>4
  <2>10. groups.ok <=> \A j, k \in 1 .. n + 1 :
             sorted[j].identity = sorted[k].identity => sorted[j].core = sorted[k].core
    BY <1>1, <1>5, <2>4 DEF r
  <2>11. Last(more).identity = sorted[n + 1].identity
    BY <2>2 DEF Last, r
  <2>12. /\ next \in [ok : BOOLEAN, best : Seq(S)] /\ next.best = more /\ next.ok = groups.ok
    BY <1>3, <2>1, <2>2 DEF more
  <2> HIDE DEF next
  <2>13. Len(next.best) = m + 1 /\ next.best # <<>> /\ n + 1 > 0
    BY <2>2, <2>12
  <2>14. next.ok <=> \A j, k \in 1 .. n + 1 :
             sorted[j].identity = sorted[k].identity => sorted[j].core = sorted[k].core
    BY <2>10, <2>12
  <2>15. Last(next.best).identity = sorted[n + 1].identity
    BY <2>11, <2>12
  <2>16. next.best = more
    BY <2>12
  <2> HIDE DEF more
  <2> QED BY <2>6, <2>7, <2>8, <2>9, <2>12, <2>13, <2>14, <2>15, <2>16 DEF CollapsedAt
<1>10. CASE best # <<>> /\ best[m].identity = r.identity
  <2> DEFINE last == best[m]
             taken == RowPreferred(r, last)
             more == IF taken THEN Append(Front(best), r) ELSE best
             ok == groups.ok /\ r.core = last.core
  <2>1. next = [ok |-> ok, best |-> more]
    BY <1>7, <1>10 DEF CollapseRow, best
  <2>2. m \in 1..m /\ m # 0 /\ last \in S /\ last.identity = r.identity
    BY <1>3, <1>6, <1>10
  <2>3. /\ more \in Seq(S) /\ Len(more) = m /\ more # <<>>
        /\ more[m] = IF taken THEN r ELSE last
        /\ \A i \in 1..m : i # m => more[i] = best[i]
    <3>1. CASE taken
      <4> DEFINE front == Front(best)
      <4>1. front \in Seq(S) /\ Len(front) = m - 1 /\ \A i \in 1 .. m - 1 : front[i] = best[i]
        <5>1. front = SubSeq(best, 1, m - 1)
          BY DEF Front, m
        <5>2. m - 1 \in Nat /\ m - 1 <= Len(best) /\ m = Len(best)
          BY <1>3, <2>2 DEF m
        <5> HIDE DEF front
        <5> QED BY <1>3, <5>1, <5>2
      <4> HIDE DEF front
      <4>2. /\ Append(front, r) \in Seq(S) /\ Len(Append(front, r)) = (m - 1) + 1
            /\ Append(front, r)[(m - 1) + 1] = r
            /\ \A i \in 1 .. m - 1 : Append(front, r)[i] = front[i]
        BY <1>1, <4>1, AppendProperties
      <4>3. (m - 1) + 1 = m /\ \A i \in 1..m : i # m => i \in 1 .. m - 1
        BY <1>3
      <4>4. more = Append(front, r)
        BY <3>1 DEF front
      <4> HIDE DEF more
      <4> QED BY <2>2, <3>1, <4>1, <4>2, <4>3, <4>4
    <3>2. CASE ~taken
      BY <1>3, <1>10, <3>2 DEF m
    <3> QED BY <3>1, <3>2
  <2>4. PICK l \in 1..n : last = sorted[l]
    BY <1>4, <2>2
  <2>5. ~ByIdentity(r, last) /\ n > 0
    BY <1>2, <2>4
  <2>6. /\ taken => \A s \in S : Better(last, s) => Better(r, s)
        /\ ~taken => Better(last, r)
    BY <1>1, <1>8, <2>2, <2>5 DEF RowPreferred, Better, ByIdentity
  <2>7. \A i \in 1..m : more[i].identity = best[i].identity
    BY <2>2, <2>3
  <2> HIDE DEF taken, more, ok
  <2>8. \A i \in 1..m : \E k \in 1 .. n + 1 : more[i] = sorted[k]
    <3> TAKE i \in 1..m
    <3>1. PICK k \in 1..n : best[i] = sorted[k]
      BY <1>4
    <3>2. k \in 1 .. n + 1 /\ n + 1 \in 1 .. n + 1
      BY <1>1
    <3>3. more[i] = best[i] \/ more[i] = r
      BY <2>2, <2>3
    <3> QED BY <3>1, <3>2, <3>3 DEF r
  <2>9. \A k \in 1 .. n + 1 : \E i \in 1..m : more[i].identity = sorted[k].identity
    BY <1>1, <1>4, <2>2, <2>7 DEF r
  <2>10. \A i, j \in 1..m : i < j => more[i].identity < more[j].identity
    BY <1>4, <2>7
  <2>11. \A i \in 1..m, k \in 1 .. n + 1 :
           more[i].identity = sorted[k].identity => Better(more[i], sorted[k])
    <3> TAKE i \in 1..m, k \in 1 .. n + 1
    <3> HAVE more[i].identity = sorted[k].identity
    <3>1. CASE i # m /\ k \in 1..n
      BY <1>4, <2>3, <3>1
    <3>2. CASE i # m /\ k = n + 1
      <4>1. best[i].identity < best[m].identity /\ best[i].identity = r.identity
        <5>1. i < m
          BY <1>3, <3>2
        <5>2. best[i].identity < best[m].identity
          BY <1>4, <2>2, <5>1
        <5>3. best[i].identity = r.identity
          BY <2>7, <3>2 DEF r
        <5> QED BY <5>2, <5>3
      <4> QED BY <1>3, <1>8, <2>2, <4>1
    <3>3. CASE i = m /\ k \in 1..n
      <4>1. Better(last, sorted[k]) /\ sorted[k] \in S
        BY <1>1, <1>4, <2>7, <3>3
      <4> QED BY <2>3, <2>6, <3>3, <4>1
    <3>4. CASE i = m /\ k = n + 1
      <4>1. Better(r, r)
        BY <1>1, <1>8 DEF Better
      <4> QED BY <2>3, <2>6, <3>4, <4>1 DEF r
    <3> QED BY <1>1, <3>1, <3>2, <3>3, <3>4
  <2>12. ok <=> \A j, k \in 1 .. n + 1 :
             sorted[j].identity = sorted[k].identity => sorted[j].core = sorted[k].core
    <3>1. ASSUME ok, NEW j \in 1..n, sorted[j].identity = r.identity
          PROVE  sorted[j].core = r.core
      BY <1>5, <2>2, <2>4, <3>1 DEF ok
    <3>2. ASSUME ok, NEW j \in 1 .. n + 1, NEW k \in 1 .. n + 1,
                 sorted[j].identity = sorted[k].identity
          PROVE  sorted[j].core = sorted[k].core
      BY <1>1, <1>5, <3>1, <3>2 DEF ok, r
    <3>3. ASSUME \A j, k \in 1 .. n + 1 :
                    sorted[j].identity = sorted[k].identity => sorted[j].core = sorted[k].core
          PROVE  ok
      <4>1. groups.ok
        BY <1>1, <1>5, <3>3
      <4>2. r.core = last.core
        <5>1. l \in 1 .. n + 1 /\ n + 1 \in 1 .. n + 1
          BY <1>1
        <5>2. sorted[l].identity = sorted[n + 1].identity
          BY <2>2, <2>4 DEF r
        <5> QED BY <2>4, <3>3, <5>1, <5>2 DEF r
      <4> QED BY <4>1, <4>2 DEF ok
    <3> QED BY <3>2, <3>3
  <2>13. Last(more).identity = sorted[n + 1].identity
    BY <2>2, <2>3 DEF Last, r
  <2>14. /\ next \in [ok : BOOLEAN, best : Seq(S)] /\ next.best = more /\ next.ok = ok
    BY <1>3, <2>1, <2>3 DEF ok
  <2> HIDE DEF next
  <2> QED BY <2>3, <2>8, <2>9, <2>10, <2>11, <2>12, <2>13, <2>14 DEF CollapsedAt
<1> QED BY <1>9, <1>10

\* After the last row every identity has its latest row.
LEMMA GroupsCollapse ==
    ASSUME NEW S, Usable(S), NEW sorted \in Seq(S), IdentityFacts!Sorted(sorted)
    PROVE  CollapsedAt(CollapseGroups(sorted), sorted, Len(sorted), S)
<1> DEFINE N == Len(sorted)
           V == [ok : BOOLEAN, best : Seq(S)]
           b == [ok |-> TRUE, best |-> <<>>]
           step == [n \in 1..N |-> [v \in V |-> CollapseRow(v, sorted[n])]]
           Body(f) == [n \in 0..N |-> IF n = 0 THEN b ELSE CollapseRow(f[n - 1], sorted[n])]
           groups == CHOOSE f : f = Body(f)
<1>0. N \in Nat /\ b \in V /\ \A n \in 1..N : sorted[n] \in S
  OBVIOUS
<1>1. CollapseGroups(sorted) = groups[N]
  BY DEF CollapseGroups
<1>2. ASSUME NEW v \in V, NEW r \in S PROVE CollapseRow(v, r) \in V
  <2>1. v = [ok |-> v.ok, best |-> v.best] /\ v.best \in Seq(S) /\ v.ok \in BOOLEAN
    OBVIOUS
  <2>2. Append(v.best, r) \in Seq(S)
    BY <2>1
  <2>3. v.best # <<>> => Append(Front(v.best), r) \in Seq(S)
    <3>1. v.best # <<>> => Front(v.best) \in Seq(S)
      BY <2>1 DEF Front
    <3> QED BY <3>1
  <2>4. [v EXCEPT !.best = Append(v.best, r)] = [ok |-> v.ok, best |-> Append(v.best, r)]
    <3> DEFINE w == Append(v.best, r)
    <3> HIDE DEF w
    <3>1. [v EXCEPT !.best = w] = [ok |-> v.ok, best |-> w]
      BY <2>1
    <3> QED BY <3>1 DEF w
  <2> DEFINE more == Append(v.best, r)
             other == Append(Front(v.best), r)
             agrees == r.core = Last(v.best).core
             taken == RowPreferred(r, Last(v.best))
             opens == Last(v.best).identity # r.identity
  <2>5. CollapseRow(v, r) = IF v.best = <<>> \/ opens
                            THEN [ok |-> v.ok, best |-> more]
                            ELSE [ok |-> v.ok /\ agrees,
                                  best |-> IF taken THEN other ELSE v.best]
    BY <2>4 DEF CollapseRow
  <2>6. agrees \in BOOLEAN
    OBVIOUS
  <2>7. more \in Seq(S) /\ (v.best # <<>> => other \in Seq(S))
    BY <2>2, <2>3
  <2> HIDE DEF more, other, agrees, taken, opens
  <2> QED BY <2>1, <2>5, <2>6, <2>7
<1>3. Facts!StepsOn(step, N, V)
  <2> HIDE DEF N, V
  <2> QED BY <1>0, <1>2 DEF Facts!StepsOn
<1> HIDE DEF N, V, b, step
<1>4. PICK g : Facts!Iterated(g, step, b, N, V)
  BY <1>0, <1>3, Facts!Iterates
<1>5. \A n \in 1..N : g[n] = CollapseRow(g[n - 1], sorted[n])
  <2> TAKE n \in 1..N
  <2>1. n - 1 \in 0..N
    BY <1>0
  <2>2. g[n] = step[n][g[n - 1]] /\ g[n - 1] \in V
    BY <1>4, <2>1 DEF Facts!Iterated
  <2> QED BY <2>2 DEF step
<1>6. g = Body(g)
  <2>1. g = [n \in 0..N |-> g[n]] /\ g[0] = b
    BY <1>4 DEF Facts!Iterated
  <2>2. \A n \in 0..N : g[n] = IF n = 0 THEN b ELSE CollapseRow(g[n - 1], sorted[n])
    <3> TAKE n \in 0..N
    <3>1. n # 0 => n \in 1..N
      BY <1>0
    <3> QED BY <1>5, <2>1, <3>1
  <2>3. [n \in 0..N |-> g[n]]
          = [n \in 0..N |-> IF n = 0 THEN b ELSE CollapseRow(g[n - 1], sorted[n])]
    BY <2>2
  <2> QED BY <2>1, <2>3
<1>7. groups = Body(groups)
  <2> HIDE DEF Body
  <2> QED BY <1>6, Zenon
<1> HIDE DEF groups
<1>8. \A n \in 0..N : groups[n] = IF n = 0 THEN b ELSE CollapseRow(groups[n - 1], sorted[n])
  BY <1>7
<1> DEFINE G == {n \in 0..N : CollapsedAt(groups[n], sorted, n, S)}
<1>9. 0 \in G
  <2>1. groups[0] = b /\ 0 \in 0..N
    BY <1>0, <1>8
  <2>2. b \in [ok : BOOLEAN, best : Seq(S)] /\ b.best = <<>> /\ b.ok = TRUE
    BY <1>0 DEF b, V
  <2>3. CollapsedAt(b, sorted, 0, S)
    <3>1. Len(b.best) = 0 /\ 1..0 = {}
      BY <2>2
    <3> HIDE DEF b
    <3> QED BY <2>2, <3>1 DEF CollapsedAt
  <2> QED BY <2>1, <2>3
<1>10. ASSUME NEW n \in 1..N, n - 1 \in G PROVE n \in G
  <2>1. n \in 0..N /\ n # 0 /\ n - 1 \in Nat /\ n - 1 < N /\ (n - 1) + 1 = n
    BY <1>0
  <2>2. groups[n] = CollapseRow(groups[n - 1], sorted[n])
    BY <1>8, <2>1
  <2>3. CollapsedAt(groups[n - 1], sorted, n - 1, S)
    BY <1>10
  <2>4. CollapsedAt(CollapseRow(groups[n - 1], sorted[(n - 1) + 1]), sorted, (n - 1) + 1, S)
    BY <2>1, <2>3, CollapseStep DEF N
  <2>5. CollapsedAt(groups[n], sorted, n, S)
    BY <2>1, <2>2, <2>4
  <2> QED BY <2>1, <2>5
<1> HIDE DEF G
<1>11. \A n \in 0..N : n \in G
  BY <1>0, <1>9, <1>10, Facts!SetInduction
<1>12. N \in G
  BY <1>0, <1>11
<1> QED BY <1>1, <1>12 DEF G, N

-----------------------------------------------------------------------------
(* Buckets of rows *)

BufferSets(S) == [batches : [Buckets -> Seq(S)], parts : [Buckets -> Seq(Seq(S))]]

\* The rows of a bucket, on disk or in memory.
Held(buffers, b) == ToSet(FlattenSeq(buffers.parts[b])) \cup ToSet(buffers.batches[b])

\* Flushing the batches moves their rows to part files.
LEMMA FlushHolds ==
    ASSUME NEW S, NEW buffers \in BufferSets(S)
    PROVE  /\ FlushAll(buffers) \in BufferSets(S)
           /\ \A b \in Buckets : /\ FlushAll(buffers).batches[b] = <<>>
                                 /\ Held(FlushAll(buffers), b) = Held(buffers, b)
<1> DEFINE flushed == FlushAll(buffers)
           part(b) == IF buffers.batches[b] = <<>> THEN buffers.parts[b]
                      ELSE Append(buffers.parts[b], buffers.batches[b])
           none == [b \in Buckets |-> <<>>]
           T == Seq(S)
<1>1. flushed = [batches |-> none, parts |-> [b \in Buckets |-> part(b)]]
  BY DEF FlushAll, FreshBuffers
<1>2. \A b \in Buckets : buffers.parts[b] \in Seq(T) /\ buffers.batches[b] \in T
  BY DEF BufferSets
<1>3. <<>> \in T
  OBVIOUS
<1> HIDE DEF flushed, T
<1>4. \A b \in Buckets : part(b) \in Seq(T)
  BY <1>2
<1>5. none \in [Buckets -> T]
  BY <1>3
<1> HIDE DEF part, none
<1>6. flushed \in BufferSets(S) /\ flushed.batches = none
      /\ flushed.parts = [b \in Buckets |-> part(b)]
  BY <1>1, <1>4, <1>5 DEF BufferSets, T
<1>7. ASSUME NEW b \in Buckets
      PROVE  flushed.batches[b] = <<>> /\ Held(flushed, b) = Held(buffers, b)
  <2> DEFINE old == buffers.parts[b]
             batch == buffers.batches[b]
  <2>1. flushed.batches[b] = <<>> /\ flushed.parts[b] = part(b)
    BY <1>6 DEF none
  <2>2. ToSet(<<>>) = {}
    BY DEF ToSet
  <2>3. Held(flushed, b) = ToSet(FlattenSeq(part(b)))
    BY <2>1, <2>2 DEF Held
  <2>4. Held(buffers, b) = ToSet(FlattenSeq(old)) \cup ToSet(batch)
    BY DEF Held
  <2>5. old \in Seq(T) /\ batch \in T
    BY <1>2
  <2>6. part(b) = IF batch = <<>> THEN old ELSE Append(old, batch)
    BY DEF part
  <2> HIDE DEF old, batch
  <2>7. CASE batch = <<>>
    BY <2>2, <2>1, <2>3, <2>4, <2>6, <2>7
  <2>8. CASE batch # <<>>
    <3>1. FlattenSeq(Append(old, batch)) = FlattenSeq(old) \o batch
      BY <2>5, FlattenAppends DEF T
    <3>2. FlattenSeq(old) \in Seq(S)
      BY <2>5, FlattenMembers DEF T
    <3>3. ToSet(FlattenSeq(old) \o batch) = ToSet(FlattenSeq(old)) \cup ToSet(batch)
      BY <2>5, <3>2, MembersConcat DEF T
    <3> QED BY <2>1, <2>3, <2>4, <2>6, <2>8, <3>1, <3>3
  <2> QED BY <2>7, <2>8
<1> QED BY <1>6, <1>7 DEF flushed

\* One more row goes to its bucket, flushed or not.
LEMMA BufferHolds ==
    ASSUME NEW S, NEW buffers \in BufferSets(S), NEW r \in S, BucketOf[r.identity] \in Buckets
    PROVE  /\ BufferRow(buffers, r) \in BufferSets(S)
           /\ \A b \in Buckets : Held(BufferRow(buffers, r), b) =
                Held(buffers, b) \cup (IF BucketOf[r.identity] = b THEN {r} ELSE {})
<1> DEFINE c == BucketOf[r.identity]
           more == Append(buffers.batches[c], r)
           batches == [buffers.batches EXCEPT ![c] = more]
           added == [batches |-> batches, parts |-> buffers.parts]
<1>1. /\ buffers = [batches |-> buffers.batches, parts |-> buffers.parts]
      /\ buffers.batches \in [Buckets -> Seq(S)] /\ buffers.parts \in [Buckets -> Seq(Seq(S))]
  BY DEF BufferSets
<1>2. BufferRow(buffers, r) = IF Buffered(added) >= BucketBufferRows THEN FlushAll(added) ELSE added
  <2> DEFINE new == [buffers EXCEPT !.batches[c] = Append(buffers.batches[c], r)]
  <2>1. new = [buffers EXCEPT !.batches = [buffers.batches EXCEPT ![c] = more]]
    BY <1>1
  <2>2. new = added
    <3> HIDE DEF new, more, c
    <3> QED BY <1>1, <2>1
  <2>3. BufferRow(buffers, r) = IF Buffered(new) >= BucketBufferRows THEN FlushAll(new) ELSE new
    BY DEF BufferRow
  <2> HIDE DEF new, added
  <2> QED BY <2>2, <2>3
<1>3. buffers.batches[c] \in Seq(S) /\ more \in Seq(S)
      /\ ToSet(more) = ToSet(buffers.batches[c]) \cup {r}
  <2>1. buffers.batches[c] \in Seq(S)
    BY <1>1
  <2> DEFINE batch == buffers.batches[c]
  <2> HIDE DEF batch
  <2>2. <<r>> \in Seq(S) /\ Append(batch, r) = batch \o <<r>> /\ Append(batch, r) \in Seq(S)
    <3>1. batch \in Seq(S)
      BY <2>1 DEF batch
    <3>2. Append(batch, r) = batch \o <<r>>
      BY <3>1, AppendIsConcat
    <3> QED BY <3>1, <3>2
  <2>3. ToSet(batch \o <<r>>) = ToSet(batch) \cup ToSet(<<r>>) /\ ToSet(<<r>>) = {r}
    <3>1. ToSet(<<r>>) = {r}
      BY DEF ToSet
    <3>2. batch \in Seq(S)
      BY <2>1 DEF batch
    <3> QED BY <2>2, <3>1, <3>2, MembersConcat
  <2> QED BY <2>1, <2>2, <2>3 DEF batch
<1> HIDE DEF more, c
<1>4. batches \in [Buckets -> Seq(S)]
      /\ \A b \in Buckets : batches[b] = IF b = c THEN more ELSE buffers.batches[b]
  BY <1>1, <1>3 DEF c
<1>5. added \in BufferSets(S)
  BY <1>1, <1>4 DEF BufferSets
<1>6. \A b \in Buckets :
        Held(added, b) = Held(buffers, b) \cup (IF c = b THEN {r} ELSE {})
  <2> TAKE b \in Buckets
  <2>1. added.batches[b] = IF b = c THEN more ELSE buffers.batches[b]
    BY <1>4
  <2>2. added.parts[b] = buffers.parts[b]
    OBVIOUS
  <2> HIDE DEF added
  <2> QED BY <1>3, <2>1, <2>2 DEF Held
<1> HIDE DEF added
<1>7. CASE Buffered(added) >= BucketBufferRows
  BY <1>2, <1>5, <1>6, <1>7, FlushHolds DEF c
<1>8. CASE ~(Buffered(added) >= BucketBufferRows)
  BY <1>2, <1>5, <1>6, <1>8 DEF c
<1> QED BY <1>7, <1>8

\* The part files of a bucket hold the rows of the bucket.
LEMMA PartsHold ==
    ASSUME NEW S, \A r \in S : BucketOf[r.identity] \in Buckets, NEW rows \in Seq(S)
    PROVE  /\ BucketParts(rows) \in [Buckets -> Seq(Seq(S))]
           /\ \A b \in Buckets :
                /\ FlattenSeq(BucketParts(rows)[b]) \in Seq(S)
                /\ ToSet(FlattenSeq(BucketParts(rows)[b]))
                     = {r \in ToSet(rows) : BucketOf[r.identity] = b}
<1> DEFINE N == Len(rows)
           V == BufferSets(S)
           e == FreshBuffers
           step == [n \in 1..N |-> [v \in V |-> BufferRow(v, rows[n])]]
           Body(f) == [n \in 0..N |-> IF n = 0 THEN e ELSE BufferRow(f[n - 1], rows[n])]
           buffers == CHOOSE f : f = Body(f)
<1>0. N \in Nat /\ \A n \in 1..N : rows[n] \in S
  OBVIOUS
<1>1. BucketParts(rows) = FlushAll(buffers[N]).parts
  BY DEF BucketParts
<1>2. e \in V /\ \A b \in Buckets : Held(e, b) = {}
  <2>1. <<>> \in Seq(S) /\ <<>> \in Seq(Seq(S))
    OBVIOUS
  <2>2. e \in V
    BY <2>1 DEF FreshBuffers, BufferSets
  <2>3. FlattenSeq(<<>>) = <<>> /\ ToSet(<<>>) = {}
    BY DEF FlattenSeq, ToSet
  <2>4. \A b \in Buckets : e.batches[b] = <<>> /\ e.parts[b] = <<>>
    BY DEF FreshBuffers
  <2> HIDE DEF e
  <2> QED BY <2>2, <2>3, <2>4 DEF Held
<1>3. Facts!StepsOn(step, N, V)
  <2> HIDE DEF N, V
  <2>1. \A v \in V, r \in S : BufferRow(v, r) \in V
    BY BufferHolds DEF V
  <2> QED BY <1>0, <2>1 DEF Facts!StepsOn
<1> HIDE DEF N, V, e, step
<1>4. PICK g : Facts!Iterated(g, step, e, N, V)
  BY <1>0, <1>2, <1>3, Facts!Iterates
<1>5. \A n \in 1..N : g[n] = BufferRow(g[n - 1], rows[n])
  <2> TAKE n \in 1..N
  <2>1. n - 1 \in 0..N
    BY <1>0
  <2>2. g[n] = step[n][g[n - 1]] /\ g[n - 1] \in V
    BY <1>4, <2>1 DEF Facts!Iterated
  <2> QED BY <2>2 DEF step
<1>6. g = Body(g)
  <2>1. g = [n \in 0..N |-> g[n]] /\ g[0] = e
    BY <1>4 DEF Facts!Iterated
  <2>2. \A n \in 0..N : g[n] = IF n = 0 THEN e ELSE BufferRow(g[n - 1], rows[n])
    <3> TAKE n \in 0..N
    <3>1. n # 0 => n \in 1..N
      BY <1>0
    <3> QED BY <1>5, <2>1, <3>1
  <2>3. [n \in 0..N |-> g[n]]
          = [n \in 0..N |-> IF n = 0 THEN e ELSE BufferRow(g[n - 1], rows[n])]
    BY <2>2
  <2> QED BY <2>1, <2>3
<1>7. buffers = Body(buffers)
  <2> HIDE DEF Body
  <2> QED BY <1>6, Zenon
<1> HIDE DEF buffers
<1>8. \A n \in 0..N : buffers[n] = IF n = 0 THEN e ELSE BufferRow(buffers[n - 1], rows[n])
  BY <1>7
<1> DEFINE Spread(n, b) == {r \in {rows[i] : i \in 1..n} : BucketOf[r.identity] = b}
           G == {n \in 0..N : /\ buffers[n] \in V
                              /\ \A b \in Buckets : Held(buffers[n], b) = Spread(n, b)}
<1>9. 0 \in G
  <2>1. buffers[0] = e /\ 0 \in 0..N
    BY <1>0, <1>8
  <2>2. \A b \in Buckets : Spread(0, b) = {}
    OBVIOUS
  <2> HIDE DEF Spread
  <2> QED BY <1>2, <2>1, <2>2
<1>10. ASSUME NEW n \in 1..N, n - 1 \in G PROVE n \in G
  <2>1. n \in 0..N /\ n # 0 /\ rows[n] \in S /\ 1..n = (1 .. n - 1) \cup {n}
    BY <1>0
  <2>2. buffers[n] = BufferRow(buffers[n - 1], rows[n])
    BY <1>8, <2>1
  <2>3. buffers[n - 1] \in V /\ \A b \in Buckets : Held(buffers[n - 1], b) = Spread(n - 1, b)
    BY <1>10
  <2>4. \A b \in Buckets :
          Spread(n, b) = Spread(n - 1, b) \cup
                           (IF BucketOf[rows[n].identity] = b THEN {rows[n]} ELSE {})
    BY <2>1
  <2> HIDE DEF Spread
  <2>5. /\ BufferRow(buffers[n - 1], rows[n]) \in V
        /\ \A b \in Buckets : Held(BufferRow(buffers[n - 1], rows[n]), b) =
             Held(buffers[n - 1], b) \cup
               (IF BucketOf[rows[n].identity] = b THEN {rows[n]} ELSE {})
    BY <2>1, <2>3, BufferHolds DEF V
  <2> QED BY <2>1, <2>2, <2>3, <2>4, <2>5
<1> HIDE DEF G
<1>11. \A n \in 0..N : n \in G
  BY <1>0, <1>9, <1>10, Facts!SetInduction
<1> DEFINE last == buffers[N]
<1>12. last \in V /\ \A b \in Buckets : Held(last, b) = Spread(N, b)
  BY <1>0, <1>11 DEF G
<1>13. {rows[i] : i \in 1..N} = ToSet(rows)
  BY DEF ToSet, N
<1> DEFINE flushed == FlushAll(last)
<1> HIDE DEF last
<1>14. /\ flushed \in BufferSets(S)
       /\ \A b \in Buckets : flushed.batches[b] = <<>> /\ Held(flushed, b) = Held(last, b)
  BY <1>12, FlushHolds DEF V
<1>15. BucketParts(rows) = flushed.parts
  BY <1>1 DEF last
<1> HIDE DEF flushed
<1>16. flushed.parts \in [Buckets -> Seq(Seq(S))]
  BY <1>14 DEF BufferSets
<1>17. ASSUME NEW b \in Buckets
       PROVE  /\ FlattenSeq(flushed.parts[b]) \in Seq(S)
              /\ ToSet(FlattenSeq(flushed.parts[b])) = {r \in ToSet(rows) : BucketOf[r.identity] = b}
  <2>1. flushed.parts[b] \in Seq(Seq(S))
    BY <1>16
  <2>2. FlattenSeq(flushed.parts[b]) \in Seq(S)
    BY <2>1, FlattenMembers
  <2>3. ToSet(<<>>) = {}
    BY DEF ToSet
  <2>4. ToSet(FlattenSeq(flushed.parts[b])) = Held(flushed, b)
    BY <1>14, <2>3 DEF Held
  <2> QED BY <1>12, <1>13, <1>14, <2>2, <2>4
<1> QED BY <1>15, <1>16, <1>17

\* A sort keeps the members.
LEMMA SameMembers ==
    ASSUME NEW S, NEW s \in Seq(S), NEW t \in Seq(S), Facts!SameRows(s, t)
    PROVE  ToSet(s) = ToSet(t)
<1>1. \A x : x \in ToSet(s) <=> Facts!Count(s, x) # 0
  BY Facts!CountPositive DEF ToSet
<1>2. \A x : x \in ToSet(t) <=> Facts!Count(t, x) # 0
  BY Facts!CountPositive DEF ToSet
<1>3. \A x : Facts!Count(s, x) = Facts!Count(t, x)
  BY DEF Facts!SameRows
<1> QED BY <1>1, <1>2, <1>3

\* What a bucket with the rows of s is collapsed to.
Collapsed(groups, s, S) ==
    /\ groups \in [ok : BOOLEAN, best : Seq(S)]
    /\ ToSet(groups.best) \subseteq ToSet(s)
    /\ Identities(groups.best) = Identities(s)
    /\ Len(groups.best) = Cardinality(Identities(s))
    /\ \A r \in ToSet(groups.best), t \in ToSet(s) : r.identity = t.identity => Better(r, t)
    /\ groups.ok <=> \A r, t \in ToSet(s) : r.identity = t.identity => r.core = t.core

\* Sorting and collapsing one bucket leaves the latest row of each identity.
LEMMA BucketCollapses ==
    ASSUME NEW S, Usable(S), NEW s \in Seq(S)
    PROVE  Collapsed(CollapseGroups(OfIdentities!SortedRows(s)), s, S)
<1> DEFINE sorted == OfIdentities!SortedRows(s)
           groups == CollapseGroups(sorted)
           n == Len(sorted)
           best == groups.best
           m == Len(best)
<1>1. /\ sorted \in Seq(S) /\ IdentityFacts!Sorted(sorted)
      /\ IdentityFacts!SameRows(sorted, s)
  BY RowOrders, IdentityFacts!SortedRowsSorts, SameIdentitySort, CanonicalizeAssumption
<1>2. ToSet(sorted) = ToSet(s)
  <2>1. \A x : x \in ToSet(s) <=> IdentityFacts!Count(s, x) # 0
    BY IdentityFacts!CountPositive DEF ToSet
  <2> HIDE DEF sorted
  <2>2. \A x : x \in ToSet(sorted) <=> IdentityFacts!Count(sorted, x) # 0
    BY <1>1, IdentityFacts!CountPositive DEF ToSet
  <2>3. \A x : IdentityFacts!Count(sorted, x) = IdentityFacts!Count(s, x)
    BY <1>1 DEF IdentityFacts!SameRows
  <2> QED BY <2>1, <2>2, <2>3
<1> HIDE DEF sorted
<1>3. CollapsedAt(groups, sorted, n, S)
  BY <1>1, GroupsCollapse
<1> HIDE DEF groups
<1>4. /\ groups \in [ok : BOOLEAN, best : Seq(S)] /\ best \in Seq(S) /\ m \in Nat /\ n \in Nat
      /\ ToSet(best) = {best[i] : i \in 1..m} /\ ToSet(sorted) = {sorted[k] : k \in 1..n}
      /\ Identities(best) = {best[i].identity : i \in 1..m}
      /\ Identities(sorted) = {sorted[k].identity : k \in 1..n}
      /\ Identities(sorted) = Identities(s)
  <2>1. groups \in [ok : BOOLEAN, best : Seq(S)]
    BY <1>3 DEF CollapsedAt
  <2>2. best \in Seq(S) /\ m \in Nat /\ n \in Nat
    BY <1>1, <2>1
  <2>3. ToSet(best) = {best[i] : i \in 1..m} /\ ToSet(sorted) = {sorted[k] : k \in 1..n}
    BY <1>1, <2>2 DEF ToSet
  <2> HIDE DEF best, m, n
  <2>4. Identities(best) = {best[i].identity : i \in 1..m}
    BY <2>2, IdentitiesType DEF m
  <2>5. Identities(sorted) = {sorted[k].identity : k \in 1..n}
    BY <1>1, IdentitiesType DEF n
  <2>6. Identities(sorted) = Identities(s)
    BY <1>1, <1>2, IdentitiesType
  <2> QED BY <2>1, <2>2, <2>3, <2>4, <2>5, <2>6 DEF best
<1>5. /\ \A i \in 1..m : \E k \in 1..n : best[i] = sorted[k]
      /\ \A k \in 1..n : \E i \in 1..m : best[i].identity = sorted[k].identity
      /\ \A i, j \in 1..m : i < j => best[i].identity < best[j].identity
      /\ \A i \in 1..m, k \in 1..n :
            best[i].identity = sorted[k].identity => Better(best[i], sorted[k])
      /\ groups.ok <=> \A j, k \in 1..n :
            sorted[j].identity = sorted[k].identity => sorted[j].core = sorted[k].core
  BY <1>3 DEF CollapsedAt
<1>6. \A i \in 1..m : best[i].identity \in Int
  <2>1. \A i \in 1..m : best[i] \in S
    BY <1>4
  <2> QED BY <2>1 DEF Usable
<1> HIDE DEF best, m, n
<1>7. ToSet(best) \subseteq ToSet(s) /\ Identities(best) = Identities(s)
  <2>1. ToSet(best) \subseteq ToSet(sorted)
    BY <1>4, <1>5
  <2>2. Identities(best) \subseteq Identities(sorted)
    BY <1>4, <1>5
  <2>3. Identities(sorted) \subseteq Identities(best)
    BY <1>4, <1>5
  <2> QED BY <1>2, <1>4, <2>1, <2>2, <2>3
<1>8. m = Cardinality(Identities(s))
  <2> DEFINE f == [i \in 1..m |-> best[i].identity]
  <2>1. Identities(best) = Initial(f, m)
    BY <1>4 DEF Initial
  <2>2. \A i, j \in 1..m : f[i] = f[j] => i = j
    <3> TAKE i, j \in 1..m
    <3> HAVE f[i] = f[j]
    <3>1. best[i].identity = best[j].identity
      OBVIOUS
    <3>2. best[i].identity \in Int /\ best[j].identity \in Int
      BY <1>6
    <3>3. i < j => best[i].identity < best[j].identity
      BY <1>5
    <3>4. j < i => best[j].identity < best[i].identity
      BY <1>5
    <3> QED BY <1>4, <3>1, <3>2, <3>3, <3>4
  <2> HIDE DEF f
  <2>3. Cardinality(Initial(f, m)) = m
    BY <1>4, <2>2, InitialCardinality
  <2> QED BY <1>7, <2>1, <2>3
<1>9. ASSUME NEW r \in ToSet(best), NEW t \in ToSet(s), r.identity = t.identity
      PROVE  Better(r, t)
  <2>1. PICK i \in 1..m : r = best[i]
    BY <1>4
  <2>2. PICK k \in 1..n : t = sorted[k]
    BY <1>2, <1>4
  <2> QED BY <1>5, <1>9, <2>1, <2>2
<1>10. groups.ok <=> \A r, t \in ToSet(s) : r.identity = t.identity => r.core = t.core
  <2> DEFINE SameCore(r, t) == r.identity = t.identity => r.core = t.core
  <2>1. groups.ok <=> \A j, k \in 1..n : SameCore(sorted[j], sorted[k])
    BY <1>5
  <2>2. ToSet(s) = {sorted[k] : k \in 1..n}
    BY <1>2, <1>4
  <2> HIDE DEF SameCore
  <2>3. groups.ok <=> \A r, t \in ToSet(s) : SameCore(r, t)
    BY <2>1, <2>2
  <2> QED BY <2>3 DEF SameCore
<1> QED BY <1>4, <1>7, <1>8, <1>9, <1>10 DEF Collapsed, best, m, groups, sorted

\* The collapsed buckets b of rows, one after the other.
BucketsOf(rows, groups, flat, S) ==
    \A b \in Buckets :
        /\ flat[b] \in Seq(S) /\ Collapsed(groups[b], flat[b], S)
        /\ ToSet(flat[b]) = {r \in ToSet(rows) : BucketOf[r.identity] = b}

\* The buckets one after the other have each identity once.
LEMMA BucketsJoin ==
    ASSUME NEW S, NEW rows \in Seq(S), \A r \in S : BucketOf[r.identity] \in Buckets,
           NEW groups, NEW flat, BucketsOf(rows, groups, flat, S)
    PROVE  LET best == FlattenSeq([i \in 1 .. BucketCount |-> groups[i - 1].best])
           IN  /\ best \in Seq(S)
               /\ ToSet(best) = UNION {ToSet(groups[b].best) : b \in Buckets}
               /\ Identities(best) = Identities(rows)
               /\ Len(best) = Cardinality(Identities(rows))
<1> DEFINE seqs == [i \in 1 .. BucketCount |-> groups[i - 1].best]
           best == FlattenSeq(seqs)
           ids == Identities(rows)
           c == [n \in 0..BucketCount |-> Cardinality({v \in ids : BucketOf[v] < n})]
<1>0. BucketCount \in Nat /\ BucketCount # 0 /\ Buckets = {i - 1 : i \in 1..BucketCount}
  <2>1. BucketCount \in Nat \ {0}
    BY CanonicalizeAssumption
  <2>2. \A b \in Buckets : b + 1 \in 1..BucketCount /\ b = (b + 1) - 1
    BY <2>1 DEF Buckets
  <2>3. \A i \in 1..BucketCount : i - 1 \in Buckets
    BY <2>1 DEF Buckets
  <2> QED BY <2>1, <2>2, <2>3
<1>1. \A i \in 1..BucketCount : i - 1 \in Buckets
  BY <1>0
<1>2. \A b \in Buckets :
        /\ flat[b] \in Seq(S) /\ groups[b].best \in Seq(S)
        /\ ToSet(flat[b]) = {r \in ToSet(rows) : BucketOf[r.identity] = b}
        /\ Identities(groups[b].best) = Identities(flat[b])
        /\ Len(groups[b].best) = Cardinality(Identities(flat[b]))
  BY DEF BucketsOf, Collapsed
<1>3. seqs \in Seq(Seq(S)) /\ Len(seqs) = BucketCount
  <2> DEFINE T == Seq(S)
  <2>1. \A i \in 1..BucketCount : groups[i - 1].best \in T
    BY <1>1, <1>2
  <2> HIDE DEF T
  <2> QED BY <1>0, <2>1 DEF T
<1>4. /\ ids = {r.identity : r \in ToSet(rows)} /\ IsFiniteSet(ids)
      /\ \A v \in ids : BucketOf[v] \in Buckets
  <2>1. ids = {r.identity : r \in ToSet(rows)} /\ IsFiniteSet(ids)
    BY IdentitiesType
  <2>2. ToSet(rows) \subseteq S
    BY MembersType
  <2> QED BY <2>1, <2>2
<1>5. ASSUME NEW b \in Buckets PROVE Identities(flat[b]) = {v \in ids : BucketOf[v] = b}
  <2>1. Identities(flat[b]) = {r.identity : r \in ToSet(flat[b])}
    BY <1>2, IdentitiesType
  <2>2. ToSet(flat[b]) = {r \in ToSet(rows) : BucketOf[r.identity] = b}
    BY <1>2
  <2> QED BY <1>4, <2>1, <2>2
<1>6. best \in Seq(S) /\ ToSet(best) = UNION {ToSet(seqs[k]) : k \in 1..BucketCount}
  <2> HIDE DEF seqs
  <2> QED BY <1>3, FlattenMembers
<1>7. ToSet(best) = UNION {ToSet(groups[b].best) : b \in Buckets}
  <2>1. \A k \in 1..BucketCount : seqs[k] = groups[k - 1].best
    OBVIOUS
  <2> HIDE DEF seqs, best
  <2> QED BY <1>0, <1>6, <2>1
<1>8. Len(best) = Cardinality(ids)
  <2>1. c[0] = 0
    <3>1. {v \in ids : BucketOf[v] < 0} = {}
      BY <1>4 DEF Buckets
    <3>2. 0 \in 0..BucketCount
      BY <1>0
    <3> QED BY <3>1, <3>2, FS_EmptySet
  <2>2. ASSUME NEW n \in 1..BucketCount PROVE c[n] = c[n - 1] + Len(seqs[n])
    <3>1. n - 1 \in 0..BucketCount /\ n \in 0..BucketCount /\ n - 1 \in Buckets
      BY <1>0, <1>1
    <3>2. Len(seqs[n]) = Cardinality({v \in ids : BucketOf[v] = n - 1})
      BY <1>2, <1>5, <3>1
    <3> QED BY <1>4, <3>1, <3>2, BucketsAddUp
  <2>3. c[BucketCount] = Cardinality(ids)
    <3>1. {v \in ids : BucketOf[v] < BucketCount} = ids
      BY <1>0, <1>4 DEF Buckets
    <3>2. BucketCount \in 0..BucketCount
      BY <1>0
    <3> QED BY <3>1, <3>2
  <2> HIDE DEF c, seqs, ids
  <2>4. \A n \in 1 .. Len(seqs) : c[n] = c[n - 1] + Len(seqs[n])
    BY <1>3, <2>2
  <2>5. Len(FlattenSeq(seqs)) = c[Len(seqs)]
    BY <1>3, <2>1, <2>4, FlattenLength
  <2> QED BY <1>3, <2>3, <2>5
<1>9. Identities(best) = ids
  <2>1. Identities(best) = {r.identity : r \in ToSet(best)}
    BY <1>6, IdentitiesType
  <2>2. \A b \in Buckets : {r.identity : r \in ToSet(groups[b].best)} = {v \in ids : BucketOf[v] = b}
    BY <1>2, <1>5, IdentitiesType
  <2> HIDE DEF best, ids
  <2>3. ASSUME NEW v \in Identities(best) PROVE v \in ids
    <3>1. PICK r \in ToSet(best) : v = r.identity
      BY <2>1
    <3>2. PICK b \in Buckets : r \in ToSet(groups[b].best)
      BY <1>7
    <3> QED BY <2>2, <3>1, <3>2
  <2>4. ASSUME NEW v \in ids PROVE v \in Identities(best)
    <3>1. BucketOf[v] \in Buckets
      BY <1>4
    <3>2. PICK r \in ToSet(groups[BucketOf[v]].best) : v = r.identity
      BY <2>2, <3>1
    <3>3. r \in ToSet(best)
      BY <1>7, <3>1, <3>2
    <3> QED BY <2>1, <3>2, <3>3
  <2> QED BY <2>3, <2>4
<1> QED BY <1>6, <1>7, <1>8, <1>9

TradesExact(result, rows) ==
    LET best == {r \in ToSet(rows) : \A s \in ToSet(rows) :
                    s.identity = r.identity => Better(r, s)}
    IN  /\ result.ok <=> /\ \A i \in DOMAIN rows : ~UnusableRow(rows[i])
                         /\ OneCore(rows)
        /\ result.ok =>
            /\ ToSet(result.trades) \subseteq best
            /\ Identities(result.trades) = Identities(rows)
            /\ Len(result.trades) = Cardinality(Identities(rows))
            /\ \A i, j \in DOMAIN result.trades :
                  i < j => ~ByTime(result.trades[j], result.trades[i])

\* The collapsed trades, part by part.
LEMMA TradesAreExact ==
    ASSUME InputIInv, plan = NoPlan
    PROVE  TradesExact(CollapsedTrades(files), TradeRows(files))
<1> DEFINE rows == TradeRows(files)
           S == ToSet(rows)
           parts == BucketParts(rows)
           flat == [b \in Buckets |-> FlattenSeq(parts[b])]
           groups == [b \in Buckets |-> CollapseGroups(OfIdentities!SortedRows(flat[b]))]
           best == FlattenSeq([i \in 1 .. BucketCount |-> groups[i - 1].best])
           trades == OfTimes!SortedRows(best)
           unusable == \E i \in DOMAIN rows : UnusableRow(rows[i])
           refused == \E b \in Buckets : ~groups[b].ok
           result == CollapsedTrades(files)
<1>1. rows \in Seq(Rows)
  <2>1. AllRows \in Seq(Rows)
    BY AllRowsType
  <2>2. rows = Those(AllRows, {r \in ToSet(AllRows) : ~IsWitness(r)})
    BY DEF TradeRows, AllRows
  <2> HIDE DEF rows
  <2>3. rows \in Seq(Rows \cap {r \in ToSet(AllRows) : ~IsWitness(r)})
    BY <2>1, <2>2, ThoseMembers
  <2> QED BY <2>3
<1>2. result = IF unusable THEN Failed
               ELSE IF refused THEN Failed ELSE [ok |-> TRUE, trades |-> trades]
  <2>1. groups = [b \in Buckets |-> CollapseGroups(OfIdentities!SortedRows(FlattenSeq(parts[b])))]
    OBVIOUS
  <2> HIDE DEF groups
  <2> QED BY <2>1 DEF CollapsedTrades
<1> HIDE DEF rows, parts, trades, groups, result
<1>3. S \subseteq Rows /\ rows \in Seq(S) /\ S = {rows[i] : i \in DOMAIN rows}
  BY <1>1, MembersType DEF ToSet
<1> HIDE DEF S
<1>4. CASE unusable
  <2>1. result = Failed
    BY <1>2, <1>4
  <2> QED BY <1>4, <2>1 DEF TradesExact, Failed, result, rows
<1>5. CASE ~unusable
  <2>1. \A r \in S : /\ r.identity \in Int /\ r.time \in Int /\ r.block \in Int
                     /\ r.identity \in DOMAIN BucketOf
    <3> TAKE r \in S
    <3>1. ~UnusableRow(r) /\ r \in Rows
      BY <1>3, <1>5
    <3>2. r.identity \in Int /\ ~(r.identity <= 0)
      BY <3>1, RowsAssumption DEF UnusableRow
    <3>3. IsPositive(r)
      BY <3>2 DEF IsPositive
    <3> QED BY <3>1, <3>3, RowsAssumption
  <2>2. Usable(S) /\ \A r \in S : BucketOf[r.identity] \in Buckets
    BY <2>1, CanonicalizeAssumption DEF Usable, Buckets
  <2>3. /\ parts \in [Buckets -> Seq(Seq(S))]
        /\ \A b \in Buckets : /\ FlattenSeq(parts[b]) \in Seq(S)
                             /\ ToSet(FlattenSeq(parts[b]))
                                  = {r \in ToSet(rows) : BucketOf[r.identity] = b}
    BY <1>3, <2>2, PartsHold DEF parts
  <2>4. \A b \in Buckets : /\ flat[b] \in Seq(S)
                           /\ ToSet(flat[b]) = {r \in ToSet(rows) : BucketOf[r.identity] = b}
    BY <2>3
  <2> HIDE DEF flat
  <2>5. \A b \in Buckets : groups[b] = CollapseGroups(OfIdentities!SortedRows(flat[b]))
    BY DEF groups
  <2>6. BucketsOf(rows, groups, flat, S)
    BY <2>2, <2>4, <2>5, BucketCollapses DEF BucketsOf
  <2>7. /\ best \in Seq(S)
        /\ ToSet(best) = UNION {ToSet(groups[b].best) : b \in Buckets}
        /\ Identities(best) = Identities(rows)
        /\ Len(best) = Cardinality(Identities(rows))
    <3>1. rows \in Seq(S) /\ \A r \in S : BucketOf[r.identity] \in Buckets
      BY <1>3, <2>2
    <3> QED BY <3>1, <2>6, BucketsJoin, Zenon
  <2> HIDE DEF best
  <2>8. /\ trades \in Seq(S) /\ Facts!Sorted(trades) /\ Facts!SameRows(trades, best)
    BY <2>2, <2>7, RowOrders, Facts!SortedRowsSorts, SameTimeSort, CanonicalizeAssumption
       DEF trades
  <2>9. ToSet(trades) = ToSet(best) /\ Len(trades) = Len(best)
    BY <2>7, <2>8, SameMembers DEF Facts!SameRows
  <2>10. Identities(trades) = Identities(rows)
    BY <2>7, <2>8, <2>9, IdentitiesType
  <2>11. ASSUME NEW r \in ToSet(trades)
         PROVE  /\ r \in ToSet(rows)
                /\ \A s \in ToSet(rows) : s.identity = r.identity => Better(r, s)
    <3>1. PICK b \in Buckets : r \in ToSet(groups[b].best)
      BY <2>7, <2>9
    <3>2. /\ Collapsed(groups[b], flat[b], S)
          /\ ToSet(flat[b]) = {t \in ToSet(rows) : BucketOf[t.identity] = b}
      BY <2>6 DEF BucketsOf
    <3>3. r \in ToSet(flat[b])
      BY <3>1, <3>2 DEF Collapsed
    <3>4. ASSUME NEW s \in ToSet(rows), s.identity = r.identity PROVE Better(r, s)
      <4>1. s \in ToSet(flat[b])
        BY <3>2, <3>3, <3>4
      <4> QED BY <3>1, <3>2, <3>4, <4>1 DEF Collapsed
    <3> QED BY <3>2, <3>3, <3>4
  <2>12. refused <=> ~OneCore(rows)
    <3> DEFINE SameCore(r, t) == r.identity = t.identity => r.core = t.core
    <3>1. OneCore(rows) <=> \A r, t \in S : SameCore(r, t)
      BY <1>3 DEF OneCore
    <3>2. \A b \in Buckets : groups[b].ok <=> \A r, t \in ToSet(flat[b]) : SameCore(r, t)
      BY <2>6 DEF BucketsOf, Collapsed
    <3>3. \A b \in Buckets : ToSet(flat[b]) = {r \in S : BucketOf[r.identity] = b}
      BY <2>4 DEF S
    <3>4. ASSUME NEW r \in S, NEW t \in S, ~refused PROVE SameCore(r, t)
      <4>1. CASE r.identity # t.identity
        BY <4>1
      <4>2. CASE r.identity = t.identity
        <5> DEFINE b == BucketOf[r.identity]
        <5>1. b \in Buckets /\ r \in ToSet(flat[b]) /\ t \in ToSet(flat[b])
          BY <2>2, <3>3, <4>2
        <5>2. groups[b].ok
          BY <3>4, <5>1
        <5> HIDE DEF b, SameCore
        <5> QED BY <3>2, <5>1, <5>2
      <4> QED BY <4>1, <4>2
    <3>5. ASSUME refused, \A r, t \in S : SameCore(r, t) PROVE FALSE
      <4>1. PICK b \in Buckets : ~groups[b].ok
        BY <3>5
      <4> HIDE DEF SameCore
      <4>2. groups[b].ok
        BY <3>2, <3>3, <3>5
      <4> QED BY <4>1, <4>2
    <3> HIDE DEF SameCore
    <3> QED BY <3>1, <3>4, <3>5
  <2>13. CASE refused
    <3>1. result = Failed
      BY <1>2, <1>5, <2>13
    <3> QED BY <2>12, <2>13, <3>1 DEF TradesExact, Failed, result, rows
  <2>14. CASE ~refused
    <3>1. result = [ok |-> TRUE, trades |-> trades]
      BY <1>2, <1>5, <2>14
    <3>2. result.ok /\ result.trades = trades
      BY <3>1
    <3>3. DOMAIN trades = 1 .. Len(trades)
      BY <2>8
    <3>4. \A i, j \in DOMAIN trades : i < j => ~ByTime(trades[j], trades[i])
      BY <2>8, <3>3 DEF Facts!Sorted
    <3>5. Len(trades) = Cardinality(Identities(rows))
      BY <2>7, <2>9
    <3>6. TradesExact(result, rows)
      BY <1>5, <2>10, <2>11, <2>12, <2>14, <3>2, <3>4, <3>5 DEF TradesExact
    <3> QED BY <3>6 DEF result, rows
  <2> QED BY <2>13, <2>14
<1> QED BY <1>4, <1>5

\* _materialize_collapsed_trades gives exactly one trade per identity, its
\* latest row, in order of time and block, for any files of any rows, buckets
\* of any number, part files, sort runs and merge levels of any sizes.
THEOREM CollapsedTheorem == InputSpec => []CollapsedTradesAreExact
<1>1. InputIInv => CollapsedTradesAreExact
  <2> SUFFICES ASSUME InputIInv, plan = NoPlan
               PROVE  TradesExact(CollapsedTrades(files), TradeRows(files))
    BY DEF CollapsedTradesAreExact, TradesExact, Better
  <2> QED BY TradesAreExact
<1> QED BY <1>1, InputInvInit, InputInvNext, PTL DEF InputSpec

-----------------------------------------------------------------------------
(* Rows by their indexes *)

\* The rows with the indexes of a sequence.
Along(rows, idx) == [k \in 1 .. Len(idx) |-> rows[idx[k]]]

\* What the rows with some of the indexes are, in their order.
Selected(s, rows, I) ==
    \E idx : /\ idx \in Seq(Int) /\ Increasing(idx) /\ ToSet(idx) = I
             /\ s = Along(rows, idx)

\* Indexes in order are the only such sequence.
InIndexOrder(rows, I) == [n \in 1 .. Cardinality(I) |-> rows[InOrder(I)[n]]]

\* Selected rows are these.
LEMMA SelectedIs ==
    ASSUME NEW s, NEW rows, NEW I, Selected(s, rows, I)
    PROVE  s = InIndexOrder(rows, I)
<1>1. PICK idx : /\ idx \in Seq(Int) /\ Increasing(idx) /\ ToSet(idx) = I
                 /\ s = Along(rows, idx)
  BY DEF Selected
<1>2. idx = InOrder(I) /\ Len(idx) = Cardinality(I)
  BY <1>1, IncreasingIsInOrder DEF Distinct
<1> QED BY <1>1, <1>2 DEF Along, InIndexOrder

\* No index, no row.
LEMMA SelectedNone == \A rows : Selected(<<>>, rows, {})
<1>1. TAKE rows
<1>2. <<>> \in Seq(Int) /\ Increasing(<<>>) /\ ToSet(<<>>) = {}
  BY DEF Increasing, ToSet
<1>3. Along(rows, <<>>) = <<>>
  BY DEF Along
<1> QED BY <1>2, <1>3 DEF Selected

\* One index more, greater than all.
LEMMA AlongAppend ==
    ASSUME NEW rows, NEW idx \in Seq(Int), Increasing(idx), NEW j \in Int,
           \A i \in ToSet(idx) : i < j
    PROVE  LET more == Append(idx, j)
           IN  /\ more \in Seq(Int) /\ Increasing(more) /\ ToSet(more) = ToSet(idx) \cup {j}
               /\ Along(rows, more) = Append(Along(rows, idx), rows[j])
<1> DEFINE more == Append(idx, j)
           n == Len(idx)
<1>1. /\ more \in Seq(Int) /\ Len(more) = n + 1 /\ n \in Nat /\ more[n + 1] = j
      /\ \A k \in 1..n : more[k] = idx[k]
  BY AppendProperties
<1>2. ToSet(more) = ToSet(idx) \cup {j}
  BY DistinctAppend
<1>3. \A k \in 1..n : idx[k] < j
  BY DEF ToSet
<1> HIDE DEF more, n
<1>4. ASSUME NEW k \in 1 .. Len(more), NEW l \in 1 .. Len(more), k < l PROVE more[k] < more[l]
  <2>1. k \in 1..n /\ (l \in 1..n \/ l = n + 1)
    BY <1>1, <1>4
  <2>2. l \in 1..n => idx[k] < idx[l]
    BY <1>4, <2>1 DEF Increasing, n
  <2> QED BY <1>1, <1>3, <2>1, <2>2
<1>5. Increasing(more)
  BY <1>4 DEF Increasing
<1>6. Along(rows, more) = Append(Along(rows, idx), rows[j])
  <2> DEFINE s == Along(rows, idx)
             r == rows[j]
             S == {rows[idx[k]] : k \in 1..n} \cup {r}
  <2>1. s = [k \in 1..n |-> rows[idx[k]]]
    BY DEF Along, n
  <2>2. s \in Seq(S) /\ Len(s) = n /\ r \in S
    <3>1. \A k \in 1..n : rows[idx[k]] \in S
      OBVIOUS
    <3>2. r \in S
      OBVIOUS
    <3> HIDE DEF S, r
    <3>3. s \in [1..n -> S]
      BY <2>1, <3>1
    <3> QED BY <1>1, <3>2, <3>3
  <2>3. Along(rows, more) = [k \in 1..(n + 1) |-> rows[more[k]]]
    BY <1>1 DEF Along
  <2>4. \A k \in 1..(n + 1) : rows[more[k]] = IF k \in 1..n THEN s[k] ELSE r
    <3> TAKE k \in 1..(n + 1)
    <3>1. k \in 1..n \/ (k = n + 1 /\ k \notin 1..n)
      BY <1>1
    <3>2. k \in 1..n => s[k] = rows[idx[k]]
      BY <2>1
    <3> QED BY <1>1, <3>1, <3>2
  <2> HIDE DEF s, r, S
  <2>5. Append(s, r) = [k \in 1..(n + 1) |-> IF k \in 1..n THEN s[k] ELSE r]
    <3> DEFINE t == Append(s, r)
    <3>1. /\ t \in Seq(S) /\ Len(t) = n + 1 /\ t[n + 1] = r
          /\ \A k \in 1..n : t[k] = s[k]
      BY <2>2, AppendProperties
    <3> HIDE DEF t
    <3>2. n + 1 \notin 1..n /\ \A k \in 1..(n + 1) : k \in 1..n \/ k = n + 1
      BY <1>1
    <3>3. t = [k \in 1..(n + 1) |-> t[k]]
      BY <1>1, <3>1
    <3>4. \A k \in 1..(n + 1) : t[k] = IF k \in 1..n THEN s[k] ELSE r
      BY <3>1, <3>2
    <3>5. t = [k \in 1..(n + 1) |-> IF k \in 1..n THEN s[k] ELSE r]
      BY <3>3, <3>4
    <3> QED BY <3>5 DEF t
  <2>6. Along(rows, more) = Append(s, r)
    BY <2>3, <2>4, <2>5
  <2> QED BY <2>6 DEF s, r
<1> QED BY <1>1, <1>2, <1>5, <1>6 DEF more

\* The same of rows.
LEMMA SelectedAppend ==
    ASSUME NEW s, NEW rows, NEW I, Selected(s, rows, I), NEW j \in Int, \A i \in I : i < j
    PROVE  Selected(Append(s, rows[j]), rows, I \cup {j})
<1>1. PICK idx : /\ idx \in Seq(Int) /\ Increasing(idx) /\ ToSet(idx) = I
                 /\ s = Along(rows, idx)
  BY DEF Selected
<1> DEFINE more == Append(idx, j)
<1>2. /\ more \in Seq(Int) /\ Increasing(more) /\ ToSet(more) = I \cup {j}
      /\ Along(rows, more) = Append(s, rows[j])
  BY <1>1, AlongAppend
<1> HIDE DEF more
<1> QED BY <1>2 DEF Selected

\* The last of the rows leaves.
LEMMA SelectedFront ==
    ASSUME NEW s, NEW rows, NEW I, Selected(s, rows, I), NEW j \in I, \A i \in I : i <= j
    PROVE  s # <<>> /\ Last(s) = rows[j] /\ Selected(Front(s), rows, I \ {j})
<1>1. PICK idx : /\ idx \in Seq(Int) /\ Increasing(idx) /\ ToSet(idx) = I
                 /\ s = Along(rows, idx)
  BY DEF Selected
<1> DEFINE n == Len(idx)
           less == SubSeq(idx, 1, n - 1)
<1>2. n \in Nat /\ ToSet(idx) = {idx[k] : k \in 1..n} /\ \A k \in 1..n : idx[k] \in Int
  BY <1>1 DEF ToSet
<1>3. PICK m \in 1..n : idx[m] = j
  BY <1>1, <1>2
<1>4. \A k, l \in 1..n : k < l => idx[k] < idx[l]
  BY <1>1 DEF Increasing
<1>5. n \in 1..n /\ m = n
  <2>1. n \in 1..n /\ m \in Int /\ (m # n => m < n)
    BY <1>2
  <2>2. idx[n] \in I
    BY <1>1, <1>2, <2>1
  <2>3. idx[n] <= j
    BY <2>2
  <2> QED BY <1>2, <1>3, <1>4, <2>1, <2>3
<1>6. less \in Seq(Int) /\ Len(less) = n - 1 /\ \A k \in 1..(n - 1) : less[k] = idx[k]
  <2>1. 1 <= n /\ n - 1 \in 0..n
    BY <1>2, <1>5
  <2> HIDE DEF n
  <2>2. idx \in Seq(Int) /\ Len(idx) = n
    BY <1>1 DEF n
  <2>3. \A k \in 1..(n - 1) : k + 1 - 1 = k /\ k \in Int
    BY <1>2
  <2>4. /\ SubSeq(idx, 1, n - 1) \in Seq(Int) /\ Len(SubSeq(idx, 1, n - 1)) = n - 1
        /\ \A k \in 1..(n - 1) : SubSeq(idx, 1, n - 1)[k] = idx[k]
    BY <1>2, <2>1, <2>2, <2>3
  <2> QED BY <2>4
<1>7. s = [k \in 1..n |-> rows[idx[k]]]
  BY <1>1 DEF Along
<1> HIDE DEF n, less
<1>8. \A k \in 1..(n - 1) : k \in 1..n
  BY <1>2
<1>9. Increasing(less)
  BY <1>4, <1>6, <1>8 DEF Increasing
<1>10. ToSet(less) = I \ {j}
  <2>1. ToSet(less) = {less[k] : k \in 1..(n - 1)}
    BY <1>6 DEF ToSet
  <2>2. ToSet(less) = {idx[k] : k \in 1..(n - 1)}
    BY <1>6, <2>1
  <2>3. ASSUME NEW k \in 1..(n - 1) PROVE idx[k] \in I /\ idx[k] # j
    <3>1. k \in 1..n /\ k < n
      BY <1>2, <1>8
    <3>2. idx[k] < idx[n]
      BY <1>4, <1>5, <3>1
    <3> QED BY <1>1, <1>2, <1>3, <1>5, <3>1, <3>2
  <2>4. ASSUME NEW i \in I, i # j PROVE \E k \in 1..(n - 1) : i = idx[k]
    <3>1. PICK k \in 1..n : i = idx[k]
      BY <1>1, <1>2
    <3>2. k # n
      BY <1>3, <1>5, <2>4, <3>1
    <3>3. k \in 1..(n - 1)
      BY <1>2, <3>2
    <3> QED BY <3>1, <3>3
  <2> QED BY <2>2, <2>3, <2>4
<1>11. Len(s) = n /\ s # <<>> /\ Last(s) = rows[j] /\ Front(s) = Along(rows, less)
  <2>1. Len(s) = n
    BY <1>2, <1>7
  <2>2. s[n] = rows[j]
    BY <1>3, <1>5, <1>7
  <2>3. Front(s) = [k \in 1..(n - 1) |-> s[k]]
    <3> DEFINE S == {rows[idx[k]] : k \in 1..n}
    <3>1. \A k \in 1..n : rows[idx[k]] \in S
      OBVIOUS
    <3> HIDE DEF S
    <3>2. s \in [1..n -> S]
      BY <1>7, <3>1
    <3>3. s \in Seq(S)
      BY <1>2, <3>2
    <3>4. 1 <= n /\ n - 1 \in 0..n
      BY <1>2, <1>5
    <3>5. SubSeq(s, 1, n - 1) = [k \in 1..(n - 1) |-> s[k]]
      BY <1>2, <2>1, <3>3, <3>4
    <3> QED BY <2>1, <3>5 DEF Front
  <2>4. \A k \in 1..(n - 1) : s[k] = rows[less[k]]
    BY <1>6, <1>7, <1>8
  <2>5. Along(rows, less) = [k \in 1..(n - 1) |-> rows[less[k]]]
    BY <1>6 DEF Along
  <2>6. Front(s) = Along(rows, less)
    BY <2>3, <2>4, <2>5
  <2>7. s # <<>>
    BY <1>5, <2>1
  <2> QED BY <2>1, <2>2, <2>6, <2>7 DEF Last
<1>12. Selected(Front(s), rows, I \ {j})
  BY <1>6, <1>9, <1>10, <1>11 DEF Selected
<1> QED BY <1>11, <1>12

\* Rows selected among selected rows.
LEMMA SelectedWithin ==
    ASSUME NEW rows, NEW idx \in Seq(Int), Increasing(idx),
           NEW s, NEW I \in SUBSET (1 .. Len(idx)), Selected(s, Along(rows, idx), I)
    PROVE  Selected(s, rows, {idx[k] : k \in I})
<1>1. PICK inner : /\ inner \in Seq(Int) /\ Increasing(inner) /\ ToSet(inner) = I
                   /\ s = Along(Along(rows, idx), inner)
  BY DEF Selected
<1> DEFINE n == Len(inner)
           m == Len(idx)
           both == [k \in 1..n |-> idx[inner[k]]]
<1>2. n \in Nat /\ I = {inner[k] : k \in 1..n} /\ \A k \in 1..n : inner[k] \in 1..m
  BY <1>1 DEF ToSet
<1>3. \A l \in 1..m : idx[l] \in Int
  OBVIOUS
<1>4. \A k \in 1..n : idx[inner[k]] \in Int
  BY <1>2, <1>3
<1>5. both \in Seq(Int) /\ Len(both) = n
  <2> HIDE DEF n
  <2>1. both \in [1..n -> Int]
    BY <1>4
  <2> QED BY <1>2, <2>1
<1>6. ASSUME NEW k \in 1..n, NEW l \in 1..n, k < l PROVE both[k] < both[l]
  <2>1. inner[k] < inner[l]
    BY <1>1, <1>6 DEF Increasing
  <2>2. idx[inner[k]] < idx[inner[l]]
    BY <1>2, <2>1 DEF Increasing
  <2> QED BY <2>2
<1>7. Increasing(both)
  BY <1>5, <1>6 DEF Increasing
<1>8. ToSet(both) = {idx[k] : k \in I}
  <2>1. ToSet(both) = {both[k] : k \in 1..n}
    BY <1>5 DEF ToSet
  <2>2. \A k \in 1..n : both[k] = idx[inner[k]]
    OBVIOUS
  <2> HIDE DEF both, n
  <2> QED BY <1>2, <2>1, <2>2
<1>9. s = Along(rows, both)
  <2>1. s = [k \in 1..n |-> Along(rows, idx)[inner[k]]]
    BY <1>1 DEF Along
  <2>2. \A k \in 1..n : Along(rows, idx)[inner[k]] = rows[both[k]]
    BY <1>2 DEF Along
  <2>3. Along(rows, both) = [k \in 1..n |-> rows[both[k]]]
    BY <1>5 DEF Along
  <2> HIDE DEF both, n
  <2> QED BY <2>1, <2>2, <2>3
<1> HIDE DEF both
<1> QED BY <1>5, <1>7, <1>8, <1>9 DEF Selected

\* The rows of a set, by the indexes of its rows.
LEMMA ThoseSelected ==
    ASSUME NEW S, NEW rows \in Seq(S), NEW T
    PROVE  Selected(Those(rows, T), rows, {i \in 1 .. Len(rows) : rows[i] \in T})
<1> DEFINE N == Len(rows)
           U == S \cap T
           p == Pieces(rows, T)
           Where(n) == {i \in 1..n : rows[i] \in T}
<1>1. p \in Seq(Seq(U)) /\ Len(p) = N /\ Those(rows, T) = FlattenSeq(p) /\ N \in Nat
  BY PiecesType
<1>2. \A n \in 1..N : p[n] = IF rows[n] \in T THEN <<rows[n]>> ELSE <<>>
  BY DEF Pieces
<1> HIDE DEF p, N, U
<1>3. PICK f : Flattened(f, p, U)
  BY <1>1, FlattenedUnfolds
<1> DEFINE G == {n \in 0..N : Selected(f[n], rows, Where(n))}
<1>4. 0 \in G
  <2>1. f[0] = <<>> /\ Where(0) = {} /\ 0 \in 0..N
    BY <1>1, <1>3 DEF Flattened
  <2> QED BY <2>1, SelectedNone
<1>5. ASSUME NEW n \in 1..N, n - 1 \in G PROVE n \in G
  <2>1. /\ n \in 0..N /\ f[n - 1] \in Seq(U) /\ f[n] = f[n - 1] \o p[n]
    <3>1. n \in 1 .. Len(p)
      BY <1>1
    <3>2. /\ n \in 0 .. Len(p) /\ f[n - 1] \in Seq(U) /\ f[n] = f[n - 1] \o p[n]
      BY <1>3, <3>1, FlattenedStep DEF Flattened
    <3>3. n \in 0..N
      BY <1>1
    <3> QED BY <3>2, <3>3
  <2>2. Selected(f[n - 1], rows, Where(n - 1)) /\ n \in Int /\ n >= 1
    BY <1>1, <1>5
  <2>3. \A i \in Where(n - 1) : i < n
    BY <2>2
  <2>4. Where(n) = IF rows[n] \in T THEN Where(n - 1) \cup {n} ELSE Where(n - 1)
    <3>1. \A i : i \in 1..n <=> i \in 1..(n - 1) \/ i = n
      BY <2>2
    <3> QED BY <3>1
  <2>5. CASE rows[n] \in T
    <3> DEFINE r == rows[n]
               W == Where(n - 1)
    <3>1. f[n] = f[n - 1] \o <<r>> /\ r \in U
      <4>1. r \in S
        BY DEF N
      <4> QED BY <1>2, <2>1, <2>5, <4>1 DEF U
    <3> HIDE DEF r
    <3>2. f[n] = Append(f[n - 1], r)
      BY <2>1, <3>1, AppendIsConcat
    <3> HIDE DEF W
    <3>3. Selected(Append(f[n - 1], rows[n]), rows, W \cup {n})
      BY <2>2, <2>3, SelectedAppend DEF W
    <3>4. Where(n) = W \cup {n}
      BY <2>4, <2>5 DEF W
    <3> QED BY <2>1, <3>2, <3>3, <3>4 DEF r
  <2>6. CASE rows[n] \notin T
    <3>1. f[n] = f[n - 1]
      BY <1>2, <2>1, <2>6, ConcatEmptySeq
    <3> QED BY <2>1, <2>2, <2>4, <2>6, <3>1
  <2> QED BY <2>5, <2>6
<1> HIDE DEF G
<1>6. \A n \in 0..N : n \in G
  BY <1>1, <1>4, <1>5, Facts!SetInduction
<1>7. N \in G
  BY <1>1, <1>6
<1>8. FlattenSeq(p) = f[N]
  BY <1>1, <1>3 DEF Flattened
<1> QED BY <1>1, <1>7, <1>8 DEF G, N

-----------------------------------------------------------------------------
(* One row for each group of equal identities *)

\* The last rows of the groups of the first n rows.
GroupEnds(kept, n) ==
    {k \in 1..n : \A l \in (k + 1)..n : kept[l].identity # kept[k].identity}

\* One row of the pass over the rows of the symbol.
LEMMA RepresentStep ==
    ASSUME NEW S, NEW kept \in Seq(S), Contiguous(kept), NEW n \in Nat, n < Len(kept),
           NEW out, Selected(out, kept, GroupEnds(kept, n))
    PROVE  Selected(Represent(out, kept[n + 1]), kept, GroupEnds(kept, n + 1))
<1> DEFINE I == GroupEnds(kept, n)
           J == GroupEnds(kept, n + 1)
           id(k) == kept[k].identity
           N == Len(kept)
<1>0. n + 1 \in Int
  OBVIOUS
<1>1. N \in Nat /\ \A i \in 1..(n + 1) : i \in 1..N
  OBVIOUS
<1>2. \A i, k \in 1..N : id(i) = id(k) => \A j \in i..k : id(j) = id(i)
  BY DEF Contiguous
<1>3. /\ \A k \in I : k \in 1..n /\ \A l \in (k + 1)..n : id(l) # id(k)
      /\ \A k \in 1..n : k \in I \/ \E l \in (k + 1)..n : id(l) = id(k)
      /\ \A k \in J : k \in 1..(n + 1) /\ \A l \in (k + 1)..(n + 1) : id(l) # id(k)
      /\ \A k \in 1..(n + 1) : k \in J \/ \E l \in (k + 1)..(n + 1) : id(l) = id(k)
  BY DEF GroupEnds
<1> HIDE DEF I, J, id, N
<1>4. n + 1 \in J
  BY <1>3
<1>5. ASSUME NEW k \in J, k # n + 1 PROVE k \in I /\ id(k) # id(n + 1)
  <2>1. k \in 1..n /\ n + 1 \in (k + 1)..(n + 1)
    BY <1>3, <1>5
  <2>2. \A l \in (k + 1)..n : l \in (k + 1)..(n + 1)
    BY <2>1
  <2> QED BY <1>3, <2>1, <2>2
<1>6. ASSUME NEW k \in I, id(k) # id(n + 1) PROVE k \in J
  <2>1. k \in 1..n /\ k \in 1..(n + 1) /\ \A l \in (k + 1)..(n + 1) : l \in (k + 1)..n \/ l = n + 1
    BY <1>3
  <2> QED BY <1>3, <1>6, <2>1
<1>7. J = {k \in I : id(k) # id(n + 1)} \cup {n + 1}
  BY <1>4, <1>5, <1>6
<1>8. Selected(out, kept, I)
  BY DEF I
<1>9. CASE n = 0
  <2>1. I = {} /\ J = I \cup {n + 1}
    BY <1>3, <1>7, <1>9
  <2>2. out = <<>>
    <3>1. PICK idx : idx \in Seq(Int) /\ ToSet(idx) = I /\ out = Along(kept, idx)
      BY <1>8 DEF Selected
    <3>2. idx = <<>>
      BY <2>1, <3>1, MembersType
    <3> QED BY <3>1, <3>2 DEF Along
  <2>3. Represent(out, kept[n + 1]) = Append(out, kept[n + 1])
    BY <2>2 DEF Represent
  <2>4. \A i \in I : i < n + 1
    BY <2>1
  <2>5. Selected(Append(out, kept[n + 1]), kept, I \cup {n + 1})
    BY <1>0, <1>8, <2>4, SelectedAppend
  <2> QED BY <2>1, <2>3, <2>5 DEF J
<1>10. CASE n # 0
  <2>1. n \in I /\ \A k \in I : k <= n
    BY <1>3, <1>10
  <2>2. /\ out # <<>> /\ Last(out) = kept[n]
        /\ Selected(Front(out), kept, I \ {n})
    BY <1>8, <2>1, SelectedFront
  <2>3. Last(out).identity = id(n) /\ kept[n + 1].identity = id(n + 1)
    BY <2>2 DEF id
  <2>4. CASE id(n) = id(n + 1)
    <3>1. \A k \in I : k # n => id(k) # id(n + 1)
      <4> SUFFICES ASSUME NEW k \in I, k # n PROVE id(k) # id(n + 1)
        OBVIOUS
      <4>1. n \in (k + 1)..n
        BY <1>3, <2>1
      <4> QED BY <1>3, <2>4, <4>1
    <3>2. J = (I \ {n}) \cup {n + 1}
      BY <1>7, <2>4, <3>1
    <3>3. \A i \in I \ {n} : i < n + 1
      BY <1>3
    <3>4. Selected(Append(Front(out), kept[n + 1]), kept, (I \ {n}) \cup {n + 1})
      BY <1>0, <2>2, <3>3, SelectedAppend
    <3>5. Represent(out, kept[n + 1]) = Append(Front(out), kept[n + 1])
      BY <2>2, <2>3, <2>4 DEF Represent
    <3> QED BY <3>2, <3>4, <3>5 DEF J
  <2>5. CASE id(n) # id(n + 1)
    <3>1. \A k \in I : id(k) # id(n + 1)
      <4> SUFFICES ASSUME NEW k \in I, id(k) = id(n + 1) PROVE FALSE
        OBVIOUS
      <4>1. k \in 1..N /\ n + 1 \in 1..N /\ n \in k..(n + 1)
        BY <1>1, <1>3, <2>1
      <4>2. id(n) = id(k)
        BY <1>2, <4>1
      <4> QED BY <2>5, <4>2
    <3>2. J = I \cup {n + 1}
      BY <1>7, <3>1
    <3>3. \A i \in I : i < n + 1
      BY <1>3
    <3>4. Selected(Append(out, kept[n + 1]), kept, I \cup {n + 1})
      BY <1>0, <1>8, <3>3, SelectedAppend
    <3>5. Represent(out, kept[n + 1]) = Append(out, kept[n + 1])
      BY <2>3, <2>5 DEF Represent
    <3> QED BY <3>2, <3>4, <3>5 DEF J
  <2> QED BY <2>4, <2>5
<1> QED BY <1>9, <1>10

\* The rows of a symbol, without witnesses.
OfSymbol(rows, symbol) == {r \in ToSet(rows) : r.symbol = symbol /\ ~IsWitness(r)}

\* After the last row each group is represented by its last row.
LEMMA GroupsRepresented ==
    ASSUME NEW S, NEW seqs, NEW symbol,
           NEW kept \in Seq(S), kept = Those(FlattenSeq(seqs), OfSymbol(FlattenSeq(seqs), symbol)),
           Contiguous(kept)
    PROVE  Selected(Representatives(seqs, symbol), kept, GroupEnds(kept, Len(kept)))
<1> DEFINE N == Len(kept)
           V == Seq(S)
           step == [n \in 1..N |-> [v \in V |-> Represent(v, kept[n])]]
           Body(f) == [n \in 0..N |-> IF n = 0 THEN <<>> ELSE Represent(f[n - 1], kept[n])]
           out == CHOOSE f : f = Body(f)
<1>0. N \in Nat /\ <<>> \in V /\ \A n \in 1..N : kept[n] \in S
  OBVIOUS
<1>1. Representatives(seqs, symbol) = out[N]
  BY DEF Representatives, OfSymbol
<1>2. ASSUME NEW v \in V, NEW r \in S PROVE Represent(v, r) \in V
  <2>1. v # <<>> => Front(v) \in Seq(S)
    BY DEF Front
  <2> QED BY <2>1 DEF Represent
<1>3. Facts!StepsOn(step, N, V)
  <2> HIDE DEF N, V
  <2> QED BY <1>0, <1>2 DEF Facts!StepsOn
<1> HIDE DEF N, V, step
<1>4. PICK g : Facts!Iterated(g, step, <<>>, N, V)
  BY <1>0, <1>3, Facts!Iterates
<1>5. \A n \in 1..N : g[n] = Represent(g[n - 1], kept[n])
  <2> TAKE n \in 1..N
  <2>1. n - 1 \in 0..N
    BY <1>0
  <2>2. g[n] = step[n][g[n - 1]] /\ g[n - 1] \in V
    BY <1>4, <2>1 DEF Facts!Iterated
  <2> QED BY <2>2 DEF step
<1>6. g = Body(g)
  <2>1. g = [n \in 0..N |-> g[n]] /\ g[0] = <<>>
    BY <1>4 DEF Facts!Iterated
  <2>2. \A n \in 0..N : g[n] = IF n = 0 THEN <<>> ELSE Represent(g[n - 1], kept[n])
    <3> TAKE n \in 0..N
    <3>1. n # 0 => n \in 1..N
      BY <1>0
    <3> QED BY <1>5, <2>1, <3>1
  <2>3. [n \in 0..N |-> g[n]]
          = [n \in 0..N |-> IF n = 0 THEN <<>> ELSE Represent(g[n - 1], kept[n])]
    BY <2>2
  <2> QED BY <2>1, <2>3
<1>7. out = Body(out)
  <2> HIDE DEF Body
  <2> QED BY <1>6, Zenon
<1> HIDE DEF out
<1>8. \A n \in 0..N : out[n] = IF n = 0 THEN <<>> ELSE Represent(out[n - 1], kept[n])
  BY <1>7
<1> DEFINE G == {n \in 0..N : Selected(out[n], kept, GroupEnds(kept, n))}
<1>9. 0 \in G
  <2>1. out[0] = <<>> /\ 0 \in 0..N /\ GroupEnds(kept, 0) = {}
    BY <1>0, <1>8 DEF GroupEnds
  <2> QED BY <2>1, SelectedNone
<1>10. ASSUME NEW n \in 1..N, n - 1 \in G PROVE n \in G
  <2>1. n \in 0..N /\ n # 0 /\ n - 1 \in Nat /\ n - 1 < N /\ (n - 1) + 1 = n
    BY <1>0
  <2>2. out[n] = Represent(out[n - 1], kept[n])
    BY <1>8, <2>1
  <2>3. Selected(out[n - 1], kept, GroupEnds(kept, n - 1))
    BY <1>10
  <2>4. Selected(Represent(out[n - 1], kept[(n - 1) + 1]), kept, GroupEnds(kept, (n - 1) + 1))
    BY <2>1, <2>3, RepresentStep DEF N
  <2>5. Selected(out[n], kept, GroupEnds(kept, n))
    BY <2>1, <2>2, <2>4
  <2> QED BY <2>1, <2>5
<1> HIDE DEF G
<1>11. \A n \in 0..N : n \in G
  BY <1>0, <1>9, <1>10, Facts!SetInduction
<1>12. N \in G
  BY <1>0, <1>11
<1> QED BY <1>1, <1>12 DEF G, N

-----------------------------------------------------------------------------
(* The trades of a symbol *)

\* Rows with some of the indexes are contiguous.
ContiguousAt(rows, I) ==
    \A i, j, k \in I :
        (i <= j /\ j <= k /\ rows[i].identity = rows[k].identity)
        => rows[j].identity = rows[i].identity

\* As a sequence they are contiguous when they are by their indexes.
LEMMA ContiguousAlong ==
    ASSUME NEW rows, NEW idx \in Seq(Int), Increasing(idx)
    PROVE  Contiguous(Along(rows, idx)) <=> ContiguousAt(rows, ToSet(idx))
<1> DEFINE n == Len(idx)
           s == Along(rows, idx)
           I == ToSet(idx)
<1>1. n \in Nat /\ I = {idx[k] : k \in 1..n} /\ \A k \in 1..n : idx[k] \in Int
  BY DEF ToSet
<1>2. DOMAIN s = 1..n /\ \A k \in 1..n : s[k] = rows[idx[k]]
  BY DEF Along
<1>3. \A k, l \in 1..n : k <= l <=> idx[k] <= idx[l]
  <2>1. \A k, l \in 1..n : k < l => idx[k] < idx[l]
    BY DEF Increasing
  <2> HIDE DEF n
  <2> QED BY <1>1, <2>1
<1> HIDE DEF n, s, I
<1>4. ASSUME Contiguous(s), NEW i \in I, NEW j \in I, NEW k \in I, i <= j, j <= k,
             rows[i].identity = rows[k].identity
      PROVE  rows[j].identity = rows[i].identity
  <2>1. PICK a \in 1..n : i = idx[a]
    BY <1>1
  <2>2. PICK b \in 1..n : j = idx[b]
    BY <1>1
  <2>3. PICK c \in 1..n : k = idx[c]
    BY <1>1
  <2>4. b \in a..c
    BY <1>1, <1>3, <1>4, <2>1, <2>2, <2>3
  <2>5. s[a].identity = s[c].identity
    BY <1>2, <1>4, <2>1, <2>3
  <2>6. s[b].identity = s[a].identity
    BY <1>2, <1>4, <2>4, <2>5 DEF Contiguous
  <2> QED BY <1>2, <2>1, <2>2, <2>6
<1>5. ASSUME ContiguousAt(rows, I), NEW a \in 1..n, NEW c \in 1..n,
             s[a].identity = s[c].identity, NEW b \in a..c
      PROVE  s[b].identity = s[a].identity
  <2>1. b \in 1..n /\ a <= b /\ b <= c
    BY <1>1
  <2>2. idx[a] \in I /\ idx[b] \in I /\ idx[c] \in I /\ idx[a] <= idx[b] /\ idx[b] <= idx[c]
    BY <1>1, <1>3, <2>1
  <2>3. rows[idx[a]].identity = rows[idx[c]].identity
    BY <1>2, <1>5
  <2>4. rows[idx[b]].identity = rows[idx[a]].identity
    BY <1>5, <2>2, <2>3 DEF ContiguousAt
  <2> QED BY <1>2, <2>1, <2>4
<1>6. Contiguous(s) => ContiguousAt(rows, I)
  BY <1>4 DEF ContiguousAt
<1>7. ContiguousAt(rows, I) => Contiguous(s)
  BY <1>2, <1>5 DEF Contiguous
<1> QED BY <1>6, <1>7 DEF s, I

\* The library chooses the maximum of a set.
LEMMA MaxIs ==
    ASSUME NEW T, T \subseteq Int, NEW m \in T, \A x \in T : x <= m
    PROVE  Max(T) = m
<1>1. \A x \in T : m >= x
  OBVIOUS
<1>2. \A x \in T : (\A y \in T : x >= y) => x = m
  OBVIOUS
<1> QED BY <1>1, <1>2 DEF Max

\* And its minimum.
LEMMA MinIs ==
    ASSUME NEW T, T \subseteq Int, NEW m \in T, \A x \in T : m <= x
    PROVE  Min(T) = m
<1>1. \A x \in T : m =< x
  OBVIOUS
<1>2. \A x \in T : (\A y \in T : x =< y) => x = m
  OBVIOUS
<1> QED BY <1>1, <1>2 DEF Min

\* A bounded set of numbers has a greatest.
LEMMA GreatestOf ==
    ASSUME NEW M \in Nat, NEW T, T \subseteq 1..M, T # {}
    PROVE  \E m \in T : \A n \in T : n <= m
<1> DEFINE D == {M - n : n \in T}
<1>1. D \subseteq Nat /\ D # {}
  <2>1. \A n \in T : n \in Int /\ n <= M
    OBVIOUS
  <2>2. \A n \in T : M - n \in Nat
    BY <2>1
  <2> QED BY <2>2
<1>2. PICK d \in D : \A e \in D : d <= e
  BY <1>1, Facts!LeastElement
<1>3. PICK m \in T : d = M - m
  OBVIOUS
<1>4. ASSUME NEW n \in T PROVE n <= m
  <2>1. d <= M - n
    BY <1>2
  <2> QED BY <1>3, <2>1
<1> QED BY <1>4

\* The rows of the symbol and the positive ones, by their indexes.
SymbolAt(rows, symbol) ==
    {i \in 1 .. Len(rows) : rows[i].symbol = symbol /\ ~IsWitness(rows[i])}

\* The rows of a symbol are contiguous when all positive rows are.
LEMMA SymbolContiguous ==
    ASSUME NEW S, NEW rows \in Seq(S), Contiguous(PositiveOf(rows)),
           \A i \in DOMAIN rows : ~InvalidRow(rows[i]), NEW symbol
    PROVE  ContiguousAt(rows, SymbolAt(rows, symbol))
<1> DEFINE P == {i \in 1 .. Len(rows) : rows[i] \in {r \in ToSet(rows) : IsPositive(r)}}
<1>1. Selected(PositiveOf(rows), rows, P)
  BY ThoseSelected DEF PositiveOf
<1> HIDE DEF P
<1>2. PICK idx : /\ idx \in Seq(Int) /\ Increasing(idx) /\ ToSet(idx) = P
                 /\ PositiveOf(rows) = Along(rows, idx)
  BY <1>1 DEF Selected
<1>3. ContiguousAt(rows, P)
  BY <1>2, ContiguousAlong
<1>4. SymbolAt(rows, symbol) \subseteq P
  <2> SUFFICES ASSUME NEW i \in SymbolAt(rows, symbol) PROVE i \in P
    OBVIOUS
  <2>1. i \in 1 .. Len(rows) /\ i \in DOMAIN rows /\ ~IsWitness(rows[i])
    BY DEF SymbolAt
  <2>2. IsPositive(rows[i])
    BY <2>1 DEF InvalidRow
  <2>3. rows[i] \in ToSet(rows)
    BY <2>1 DEF ToSet
  <2> QED BY <2>1, <2>2, <2>3 DEF P
<1> QED BY <1>3, <1>4 DEF ContiguousAt

OfIdentity(rows, I, v) == {i \in I : rows[i].identity = v}

\* Index i of idx ends a group, the last of its identity.
LastAt(k, rows, idx, v) ==
    /\ k \in GroupEnds(Along(rows, idx), Len(idx))
    /\ idx[k] \in OfIdentity(rows, ToSet(idx), v)
    /\ Max(OfIdentity(rows, ToSet(idx), v)) = idx[k]

\* Every identity has such a group.
LEMMA LastOfIdentity ==
    ASSUME NEW S, NEW rows \in Seq(S), NEW idx \in Seq(Int), Increasing(idx),
           ToSet(idx) \subseteq 1 .. Len(rows), NEW v,
           OfIdentity(rows, ToSet(idx), v) # {}
    PROVE  \E k : LastAt(k, rows, idx, v)
<1> DEFINE M == Len(idx)
           s == Along(rows, idx)
           of == OfIdentity(rows, ToSet(idx), v)
           K == {k \in 1..M : s[k].identity = v}
<1>1. M \in Nat /\ ToSet(idx) = {idx[k] : k \in 1..M} /\ \A k \in 1..M : idx[k] \in Int
  BY DEF ToSet
<1>2. \A k \in 1..M : s[k] = rows[idx[k]]
  BY DEF Along
<1>3. \A k, l \in 1..M : k < l => idx[k] < idx[l]
  BY DEF Increasing
<1>0. of # {}
  OBVIOUS
<1>4. of = {idx[k] : k \in K}
  <2>1. \A i : i \in of <=> i \in ToSet(idx) /\ rows[i].identity = v
    BY DEF OfIdentity
  <2>2. \A k : k \in K <=> k \in 1..M /\ s[k].identity = v
    OBVIOUS
  <2> HIDE DEF M, s, of, K
  <2>3. ASSUME NEW i \in of PROVE \E k \in K : i = idx[k]
    <3>1. PICK k \in 1..M : i = idx[k]
      BY <1>1, <2>1
    <3> QED BY <1>2, <2>1, <2>2, <3>1
  <2>4. ASSUME NEW k \in K PROVE idx[k] \in of
    BY <1>1, <1>2, <2>1, <2>2
  <2> QED BY <2>3, <2>4
<1>5. \A k \in K : k \in 1..M /\ s[k].identity = v
  OBVIOUS
<1>6. \A k \in 1..M : s[k].identity = v => k \in K
  OBVIOUS
<1> HIDE DEF M, s, of, K
<1>7. K # {} /\ K \subseteq 1..M
  BY <1>0, <1>4, <1>5
<1>8. PICK k \in K : \A l \in K : l <= k
  BY <1>1, <1>7, GreatestOf
<1>9. k \in GroupEnds(s, M)
  <2>1. ASSUME NEW l \in (k + 1)..M PROVE s[l].identity # s[k].identity
    <3>1. l \in 1..M /\ ~(l <= k)
      BY <1>1, <1>5
    <3> QED BY <1>5, <1>6, <1>8, <3>1
  <2> QED BY <1>5, <2>1 DEF GroupEnds
<1>10. idx[k] \in of
  BY <1>4
<1>11. Max(of) = idx[k]
  <2>1. \A i \in of : i \in Int /\ i <= idx[k]
    <3> SUFFICES ASSUME NEW i \in of PROVE i \in Int /\ i <= idx[k]
      OBVIOUS
    <3>1. PICK l \in K : i = idx[l]
      BY <1>4
    <3>2. l <= k /\ l \in 1..M /\ k \in 1..M
      BY <1>5, <1>8
    <3>3. l = k \/ l < k
      BY <1>1, <3>2
    <3> QED BY <1>1, <1>3, <3>1, <3>2, <3>3
  <2> QED BY <1>10, <2>1, MaxIs
<1> QED BY <1>9, <1>10, <1>11 DEF s, M, of, LastAt

\* Every group ends in the last row of its identity, and every identity of the
\* symbol has one group.
LEMMA TradesAre ==
    ASSUME NEW idx \in Seq(Int), Increasing(idx), NEW symbol,
           AllRows \in Seq(Rows), ToSet(idx) = SymbolAt(AllRows, symbol)
    PROVE  TradesOf(symbol)
             = {idx[k] : k \in GroupEnds(Along(AllRows, idx), Len(idx))}
<1> DEFINE M == Len(idx)
           s == Along(AllRows, idx)
           I == ToSet(idx)
           of(v) == OfIdentity(AllRows, I, v)
           E == GroupEnds(s, M)
<1>1. M \in Nat /\ I = {idx[k] : k \in 1..M} /\ \A k \in 1..M : idx[k] \in Int
  BY DEF ToSet
<1>2. I \subseteq 1 .. Len(AllRows) /\ I \subseteq DOMAIN AllRows /\ I \subseteq Int
  BY DEF SymbolAt
<1>3. ASSUME NEW v
      PROVE  {i \in DOMAIN AllRows : /\ AllRows[i].identity = v
                                     /\ AllRows[i].symbol = symbol
                                     /\ ~IsWitness(AllRows[i])} = of(v)
  BY DEF SymbolAt, OfIdentity
<1>4. TradesOf(symbol) = {Max(of(v)) : v \in {v \in Identities(AllRows) : of(v) # {}}}
  BY <1>3 DEF TradesOf, OfIdentity
<1>5. \A k, l \in 1..M : k < l => idx[k] < idx[l]
  BY DEF Increasing
<1>6. \A k \in 1..M : s[k] = AllRows[idx[k]]
  BY DEF Along
<1>7. ASSUME NEW v, of(v) # {} PROVE \E k \in E : Max(of(v)) = idx[k]
  <2>1. ToSet(idx) \subseteq 1 .. Len(AllRows)
    BY <1>2
  <2>2. OfIdentity(AllRows, ToSet(idx), v) # {}
    BY <1>7
  <2>3. PICK k : LastAt(k, AllRows, idx, v)
    BY <2>1, <2>2, LastOfIdentity
  <2> QED BY <2>3 DEF LastAt
<1>8. ASSUME NEW k \in E
      PROVE  LET v == AllRows[idx[k]].identity
             IN  v \in Identities(AllRows) /\ idx[k] \in of(v) /\ Max(of(v)) = idx[k]
  <2> DEFINE v == AllRows[idx[k]].identity
  <2>1. k \in 1..M /\ \A l \in (k + 1)..M : s[l].identity # s[k].identity
    BY DEF GroupEnds
  <2>2. idx[k] \in I
    BY <1>1, <2>1
  <2>3. idx[k] \in of(v) /\ v \in Identities(AllRows)
    BY <1>2, <2>2 DEF Identities, OfIdentity
  <2>4. ASSUME NEW i \in of(v) PROVE i \in Int /\ i <= idx[k]
    <3>1. i \in I /\ AllRows[i].identity = v
      BY DEF OfIdentity
    <3>2. PICK l \in 1..M : i = idx[l]
      BY <1>1, <3>1
    <3>3. s[l].identity = s[k].identity
      BY <1>6, <2>1, <3>1, <3>2
    <3>4. l <= k
      BY <1>1, <2>1, <3>3
    <3>5. l < k \/ l = k
      BY <1>1, <2>1, <3>4
    <3> QED BY <1>1, <1>5, <2>1, <3>2, <3>5
  <2>5. of(v) \subseteq Int /\ \A i \in of(v) : i <= idx[k]
    BY <2>4
  <2> HIDE DEF of, v
  <2>6. Max(of(v)) = idx[k]
    BY <2>3, <2>5, MaxIs
  <2> QED BY <2>3, <2>6 DEF v
<1> HIDE DEF of, E, I, s, M
<1>9. ASSUME NEW t \in TradesOf(symbol) PROVE \E k \in E : t = idx[k]
  BY <1>4, <1>7
<1>10. ASSUME NEW k \in E PROVE idx[k] \in TradesOf(symbol)
  <2> DEFINE v == AllRows[idx[k]].identity
  <2>1. v \in Identities(AllRows) /\ idx[k] \in of(v) /\ Max(of(v)) = idx[k]
    BY <1>8
  <2> HIDE DEF v
  <2> QED BY <1>4, <2>1
<1>11. TradesOf(symbol) = {idx[k] : k \in E}
  BY <1>9, <1>10
<1> QED BY <1>11 DEF E, s, M

\* What event_window.py ingests are the trades of the symbol, in the order of
\* the input.
LEMMA TradesSelected ==
    ASSUME InputIInv, plan = NoPlan, Canonical, NEW symbol
    PROVE  /\ Selected(Representatives(files, symbol), AllRows, TradesOf(symbol))
           /\ TradesOf(symbol) \subseteq 1 .. Len(AllRows)
<1> DEFINE rows == AllRows
           T == OfSymbol(rows, symbol)
           I == SymbolAt(rows, symbol)
           kept == Those(rows, T)
<1>1. rows \in Seq(Rows) /\ rows = FlattenSeq(files)
  BY AllRowsType DEF AllRows
<1>2. Contiguous(PositiveOf(rows)) /\ \A i \in DOMAIN rows : ~InvalidRow(rows[i])
  BY DEF Canonical, PositiveRows, AnyInvalid
<1> HIDE DEF rows, T
<1>3. {i \in 1 .. Len(rows) : rows[i] \in T} = I
  <2>1. \A i \in 1 .. Len(rows) : rows[i] \in ToSet(rows)
    BY <1>1 DEF ToSet
  <2> QED BY <2>1 DEF T, OfSymbol, SymbolAt
<1>4. Selected(kept, rows, I)
  <2>1. Selected(kept, rows, {i \in 1 .. Len(rows) : rows[i] \in T})
    BY <1>1, ThoseSelected
  <2> QED BY <1>3, <2>1
<1>5. kept \in Seq(Rows \cap T)
  BY <1>1, ThoseMembers
<1>6. ContiguousAt(rows, I)
  BY <1>1, <1>2, SymbolContiguous
<1>7. I \subseteq 1 .. Len(rows)
  BY DEF SymbolAt
<1> HIDE DEF kept, I
<1>8. PICK idx : /\ idx \in Seq(Int) /\ Increasing(idx) /\ ToSet(idx) = I
                 /\ kept = Along(rows, idx)
  BY <1>4 DEF Selected
<1>9. Contiguous(kept)
  BY <1>6, <1>8, ContiguousAlong
<1> DEFINE reps == Representatives(files, symbol)
           E == GroupEnds(kept, Len(kept))
<1>10. Selected(reps, kept, E)
  <2> DEFINE S == Rows \cap T
  <2>1. kept \in Seq(S)
    BY <1>5
  <2>2. kept = Those(FlattenSeq(files), OfSymbol(FlattenSeq(files), symbol))
    BY <1>1 DEF kept, T
  <2> HIDE DEF S
  <2> QED BY <1>9, <2>1, <2>2, GroupsRepresented
<1>11. Len(kept) = Len(idx) /\ E \subseteq 1 .. Len(idx)
  <2>1. Len(idx) \in Nat
    BY <1>8
  <2>2. Len(kept) = Len(idx)
    BY <1>8, <2>1 DEF Along
  <2> QED BY <2>2 DEF GroupEnds
<1> HIDE DEF reps, E
<1>12. Selected(reps, rows, {idx[k] : k \in E})
  BY <1>8, <1>10, <1>11, SelectedWithin
<1>13. TradesOf(symbol) = {idx[k] : k \in E}
  <2>1. TradesOf(symbol) = {idx[k] : k \in GroupEnds(Along(AllRows, idx), Len(idx))}
    BY <1>1, <1>8, TradesAre DEF rows, I
  <2> QED BY <1>8, <1>11, <2>1 DEF E, rows
<1>14. {idx[k] : k \in E} \subseteq 1 .. Len(rows)
  <2>1. \A k \in E : idx[k] \in I
    BY <1>8, <1>11 DEF ToSet
  <2> QED BY <1>7, <2>1
<1> QED BY <1>12, <1>13, <1>14 DEF reps, rows

-----------------------------------------------------------------------------
(* Facts of a decision *)

\* The first of the rows with the latest time, or with the earliest.
LatestAt(i, I) ==
    /\ i \in I
    /\ \A j \in I : \/ AllRows[j].time < AllRows[i].time
                    \/ AllRows[j].time = AllRows[i].time /\ i <= j
EarliestAt(i, I) ==
    /\ i \in I
    /\ \A j \in I : \/ AllRows[j].time > AllRows[i].time
                    \/ AllRows[j].time = AllRows[i].time /\ i <= j

\* What a fact read from one row is, of the rows with some of the indexes.
KnownLatest(r, I) ==
    IF I = {} THEN r = NoRow ELSE \E i : LatestAt(i, I) /\ r = AllRows[i]
KnownEarliest(r, I) ==
    IF I = {} THEN r = NoRow ELSE \E i : EarliestAt(i, I) /\ r = AllRows[i]

\* The times and blocks of rows are numbers.
LEMMA TimesOfRows ==
    ASSUME AllRows \in Seq(Rows), NEW i \in 1 .. Len(AllRows)
    PROVE  /\ AllRows[i] \in Rows /\ AllRows[i] # NoRow /\ i \in Int
           /\ AllRows[i].time \in Int /\ AllRows[i].block \in Int
<1>1. AllRows[i] \in Rows
  OBVIOUS
<1> QED BY <1>1, RowsAssumption

\* The first row with the latest time.
LEMMA LatestIs ==
    ASSUME AllRows \in Seq(Rows), NEW I \in SUBSET (1 .. Len(AllRows)), NEW i, LatestAt(i, I)
    PROVE  Latest(I) = AllRows[i]
<1> DEFINE t == [k \in 1 .. Len(AllRows) |-> AllRows[k].time]
           times == {t[j] : j \in I}
           same == {j \in I : t[j] = t[i]}
<1>1. i \in I /\ \A j \in I : t[j] < t[i] \/ (t[j] = t[i] /\ i <= j)
  BY DEF LatestAt
<1>2. \A j \in I : t[j] \in Int /\ j \in Int
  BY TimesOfRows
<1>3. Latest(I) = AllRows[Min({j \in I : t[j] = Max(times)})]
  BY DEF Latest
<1> HIDE DEF t
<1>4. times \subseteq Int /\ t[i] \in times /\ \A x \in times : x <= t[i]
  BY <1>1, <1>2
<1> HIDE DEF times
<1>5. Max(times) = t[i]
  BY <1>4, MaxIs
<1>6. same \subseteq Int /\ i \in same /\ \A j \in same : i <= j
  <2>1. same \subseteq Int
    BY <1>2
  <2>2. i \in same
    BY <1>1
  <2>3. ASSUME NEW j \in same PROVE i <= j
    <3>1. j \in I /\ t[j] = t[i]
      OBVIOUS
    <3>2. t[j] \in Int /\ t[i] \in Int
      BY <1>1, <1>2, <3>1
    <3>3. t[j] < t[i] \/ i <= j
      BY <1>1, <3>1
    <3> QED BY <3>1, <3>2, <3>3
  <2> QED BY <2>1, <2>2, <2>3
<1>7. {j \in I : t[j] = Max(times)} = same
  BY <1>5
<1> HIDE DEF same
<1>8. Min(same) = i
  BY <1>6, MinIs
<1> QED BY <1>3, <1>7, <1>8

\* The first row with the earliest time.
LEMMA EarliestIs ==
    ASSUME AllRows \in Seq(Rows), NEW I \in SUBSET (1 .. Len(AllRows)), NEW i, EarliestAt(i, I)
    PROVE  Earliest(I) = AllRows[i]
<1> DEFINE t == [k \in 1 .. Len(AllRows) |-> AllRows[k].time]
           times == {t[j] : j \in I}
           same == {j \in I : t[j] = t[i]}
<1>1. i \in I /\ \A j \in I : t[j] > t[i] \/ (t[j] = t[i] /\ i <= j)
  BY DEF EarliestAt
<1>2. \A j \in I : t[j] \in Int /\ j \in Int
  BY TimesOfRows
<1>3. Earliest(I) = AllRows[Min({j \in I : t[j] = Min(times)})]
  BY DEF Earliest
<1> HIDE DEF t
<1>4. times \subseteq Int /\ t[i] \in times /\ \A x \in times : t[i] <= x
  BY <1>1, <1>2
<1> HIDE DEF times
<1>5. Min(times) = t[i]
  BY <1>4, MinIs
<1>6. same \subseteq Int /\ i \in same /\ \A j \in same : i <= j
  <2>1. same \subseteq Int
    BY <1>2
  <2>2. i \in same
    BY <1>1
  <2>3. ASSUME NEW j \in same PROVE i <= j
    <3>1. j \in I /\ t[j] = t[i]
      OBVIOUS
    <3>2. t[j] \in Int /\ t[i] \in Int
      BY <1>1, <1>2, <3>1
    <3>3. t[j] < t[i] \/ i <= j
      BY <1>1, <3>1
    <3> QED BY <3>1, <3>2, <3>3
  <2> QED BY <2>1, <2>2, <2>3
<1>7. {j \in I : t[j] = Min(times)} = same
  BY <1>5
<1> HIDE DEF same
<1>8. Min(same) = i
  BY <1>6, MinIs
<1> QED BY <1>3, <1>7, <1>8

\* One candidate more: a fact changes only for a later (earlier) row.
LEMMA LatestStep ==
    ASSUME AllRows \in Seq(Rows), NEW I \in SUBSET (1 .. Len(AllRows)), NEW best,
           KnownLatest(best, I), NEW j \in 1 .. Len(AllRows), \A i \in I : i < j
    PROVE  KnownLatest(IF AsOfPreferred(AllRows[j], best) THEN AllRows[j] ELSE best, I \cup {j})
<1> DEFINE t == [k \in 1 .. Len(AllRows) |-> AllRows[k].time]
           r == AllRows[j]
           J == I \cup {j}
           next == IF AsOfPreferred(r, best) THEN r ELSE best
<1>1. \A i \in J : i \in Int /\ t[i] \in Int /\ AllRows[i] # NoRow
  BY TimesOfRows
<1>2. CASE I = {}
  <2>1. best = NoRow /\ next = r
    BY <1>2 DEF KnownLatest, AsOfPreferred
  <2>2. LatestAt(j, J)
    BY <1>1, <1>2 DEF LatestAt
  <2>3. J # {}
    OBVIOUS
  <2> HIDE DEF J, next, r
  <2>4. r = AllRows[j]
    BY DEF r
  <2> QED BY <2>1, <2>2, <2>3, <2>4 DEF KnownLatest, J, next, r
<1>3. CASE I # {}
  <2>1. PICK i : LatestAt(i, I) /\ best = AllRows[i]
    BY <1>3 DEF KnownLatest
  <2>2. i \in I /\ i < j /\ \A k \in I : t[k] < t[i] \/ (t[k] = t[i] /\ i <= k)
    BY <2>1 DEF LatestAt
  <2>3. best # NoRow /\ i \in Int /\ j \in Int /\ t[i] \in Int /\ t[j] \in Int
    BY <1>1, <2>1, <2>2
  <2>4. AsOfPreferred(r, best) <=> t[j] > t[i]
    <3>1. t[j] = r.time /\ t[i] = best.time
      BY <2>1, <2>2
    <3> HIDE DEF t, r
    <3>2. AsOfPreferred(r, best) <=> r.time > best.time
      BY <2>3 DEF AsOfPreferred, TieBreak
    <3> QED BY <3>1, <3>2
  <2>5. \A k \in J : k \in I \/ k = j
    OBVIOUS
  <2>6. J # {} /\ i \in J /\ j \in J /\ r = AllRows[j]
    BY <2>2
  <2>7. \A k \in I : t[k] \in Int /\ k \in Int
    BY <1>1
  <2>8. LatestAt(i, J) <=> \A k \in J : t[k] < t[i] \/ (t[k] = t[i] /\ i <= k)
    BY <2>6 DEF LatestAt
  <2>9. LatestAt(j, J) <=> \A k \in J : t[k] < t[j] \/ (t[k] = t[j] /\ j <= k)
    BY <2>6 DEF LatestAt
  <2>10. next = IF t[j] > t[i] THEN r ELSE best
    BY <2>4
  <2> HIDE DEF J, next, r, t
  <2>11. CASE t[j] > t[i]
    <3>1. ASSUME NEW k \in J PROVE t[k] < t[j] \/ (t[k] = t[j] /\ j <= k)
      <4>1. CASE k = j
        BY <2>3, <4>1
      <4>2. CASE k \in I
        <5>1. t[k] \in Int /\ (t[k] < t[i] \/ t[k] = t[i])
          BY <2>2, <2>7, <4>2
        <5> QED BY <2>3, <2>11, <5>1
      <4> QED BY <2>5, <4>1, <4>2
    <3>2. LatestAt(j, J)
      BY <2>9, <3>1
    <3> QED BY <2>6, <2>10, <2>11, <3>2 DEF KnownLatest, J, next, r
  <2>12. CASE ~(t[j] > t[i])
    <3>1. ASSUME NEW k \in J PROVE t[k] < t[i] \/ (t[k] = t[i] /\ i <= k)
      <4>1. CASE k = j
        <5>1. t[j] < t[i] \/ t[j] = t[i]
          BY <2>3, <2>12
        <5> QED BY <2>2, <2>3, <4>1, <5>1
      <4>2. CASE k \in I
        BY <2>2, <4>2
      <4> QED BY <2>5, <4>1, <4>2
    <3>2. LatestAt(i, J)
      BY <2>8, <3>1
    <3> QED BY <2>1, <2>6, <2>10, <2>12, <3>2 DEF KnownLatest, J, next, r
  <2> QED BY <2>11, <2>12
<1> QED BY <1>2, <1>3

\* The same of the earliest.
LEMMA EarliestStep ==
    ASSUME AllRows \in Seq(Rows), NEW I \in SUBSET (1 .. Len(AllRows)), NEW best,
           KnownEarliest(best, I), NEW j \in 1 .. Len(AllRows), \A i \in I : i < j
    PROVE  KnownEarliest(IF FuturePreferred(AllRows[j], best) THEN AllRows[j] ELSE best,
                         I \cup {j})
<1> DEFINE t == [k \in 1 .. Len(AllRows) |-> AllRows[k].time]
           r == AllRows[j]
           J == I \cup {j}
           next == IF FuturePreferred(r, best) THEN r ELSE best
<1>1. \A i \in J : i \in Int /\ t[i] \in Int /\ AllRows[i] # NoRow
  BY TimesOfRows
<1>2. CASE I = {}
  <2>1. best = NoRow /\ next = r
    BY <1>2 DEF KnownEarliest, FuturePreferred
  <2>2. EarliestAt(j, J)
    BY <1>1, <1>2 DEF EarliestAt
  <2>3. J # {}
    OBVIOUS
  <2> HIDE DEF J, next, r
  <2>4. r = AllRows[j]
    BY DEF r
  <2> QED BY <2>1, <2>2, <2>3, <2>4 DEF KnownEarliest, J, next, r
<1>3. CASE I # {}
  <2>1. PICK i : EarliestAt(i, I) /\ best = AllRows[i]
    BY <1>3 DEF KnownEarliest
  <2>2. i \in I /\ i < j /\ \A k \in I : t[k] > t[i] \/ (t[k] = t[i] /\ i <= k)
    BY <2>1 DEF EarliestAt
  <2>3. best # NoRow /\ i \in Int /\ j \in Int /\ t[i] \in Int /\ t[j] \in Int
    BY <1>1, <2>1, <2>2
  <2>4. FuturePreferred(r, best) <=> t[j] < t[i]
    <3>1. t[j] = r.time /\ t[i] = best.time
      BY <2>1, <2>2
    <3> HIDE DEF t, r
    <3>2. FuturePreferred(r, best) <=> r.time < best.time
      BY <2>3 DEF FuturePreferred, TieBreak
    <3> QED BY <3>1, <3>2
  <2>5. \A k \in J : k \in I \/ k = j
    OBVIOUS
  <2>6. J # {} /\ i \in J /\ j \in J /\ r = AllRows[j]
    BY <2>2
  <2>7. \A k \in I : t[k] \in Int /\ k \in Int
    BY <1>1
  <2>8. EarliestAt(i, J) <=> \A k \in J : t[k] > t[i] \/ (t[k] = t[i] /\ i <= k)
    BY <2>6 DEF EarliestAt
  <2>9. EarliestAt(j, J) <=> \A k \in J : t[k] > t[j] \/ (t[k] = t[j] /\ j <= k)
    BY <2>6 DEF EarliestAt
  <2>10. next = IF t[j] < t[i] THEN r ELSE best
    BY <2>4
  <2> HIDE DEF J, next, r, t
  <2>11. CASE t[j] < t[i]
    <3>1. ASSUME NEW k \in J PROVE t[k] > t[j] \/ (t[k] = t[j] /\ j <= k)
      <4>1. CASE k = j
        BY <2>3, <4>1
      <4>2. CASE k \in I
        <5>1. t[k] \in Int /\ (t[k] > t[i] \/ t[k] = t[i])
          BY <2>2, <2>7, <4>2
        <5> QED BY <2>3, <2>11, <5>1
      <4> QED BY <2>5, <4>1, <4>2
    <3>2. EarliestAt(j, J)
      BY <2>9, <3>1
    <3> QED BY <2>6, <2>10, <2>11, <3>2 DEF KnownEarliest, J, next, r
  <2>12. CASE ~(t[j] < t[i])
    <3>1. ASSUME NEW k \in J PROVE t[k] > t[i] \/ (t[k] = t[i] /\ i <= k)
      <4>1. CASE k = j
        <5>1. t[j] > t[i] \/ t[j] = t[i]
          BY <2>3, <2>12
        <5> QED BY <2>2, <2>3, <4>1, <5>1
      <4>2. CASE k \in I
        BY <2>2, <4>2
      <4> QED BY <2>5, <4>1, <4>2
    <3>2. EarliestAt(i, J)
      BY <2>8, <3>1
    <3> QED BY <2>1, <2>6, <2>10, <2>12, <3>2 DEF KnownEarliest, J, next, r
  <2> QED BY <2>11, <2>12
<1> QED BY <1>2, <1>3

\* The rows with some of the indexes that a fact is about.
WithinWidth(request, w, I) == {i \in I : Trailing(request, w, AllRows[i])}
DueAt(request, o, I) == {i \in I : AsOfCandidate(request, o, AllRows[i])}
DueIn(request, w, I) == {i \in I : FutureCandidate(request, w, AllRows[i])}

\* What the accumulators know of rows with some of the indexes.
FactsAt(facts, I, request) ==
    /\ \A w \in request.widths :
         Selected(facts.trailing[w], AllRows, WithinWidth(request, w, I))
    /\ \A o \in request.offsets : KnownLatest(facts.asOf[o], DueAt(request, o, I))
    /\ \A w \in request.windows : KnownEarliest(facts.future[w], DueIn(request, w, I))

\* One trade more.
LEMMA IngestStep ==
    ASSUME AllRows \in Seq(Rows), NEW I \in SUBSET (1 .. Len(AllRows)), NEW request,
           NEW facts, FactsAt(facts, I, request), NEW j \in 1 .. Len(AllRows), \A i \in I : i < j
    PROVE  FactsAt(IngestRow(request, facts, AllRows[j]), I \cup {j}, request)
<1> DEFINE r == AllRows[j]
           J == I \cup {j}
           next == IngestRow(request, facts, r)
<1>1. /\ \A w \in request.widths :
            next.trailing[w] = IF Trailing(request, w, r)
                               THEN Append(facts.trailing[w], r) ELSE facts.trailing[w]
      /\ \A o \in request.offsets :
            next.asOf[o] = IF AsOfCandidate(request, o, r) /\ AsOfPreferred(r, facts.asOf[o])
                           THEN r ELSE facts.asOf[o]
      /\ \A w \in request.windows :
            next.future[w] = IF FutureCandidate(request, w, r)
                                /\ FuturePreferred(r, facts.future[w])
                             THEN r ELSE facts.future[w]
  BY DEF IngestRow
<1>2. j \in Int /\ r = AllRows[j]
  OBVIOUS
<1> HIDE DEF next
<1>3. ASSUME NEW w \in request.widths
      PROVE  Selected(next.trailing[w], AllRows, WithinWidth(request, w, J))
  <2> DEFINE A == WithinWidth(request, w, I)
             B == WithinWidth(request, w, J)
  <2>1. B = IF Trailing(request, w, r) THEN A \cup {j} ELSE A
    BY DEF WithinWidth
  <2>2. \A i \in A : i < j
    BY DEF WithinWidth
  <2>3. Selected(facts.trailing[w], AllRows, A)
    BY DEF FactsAt
  <2> HIDE DEF A, B
  <2>4. Selected(Append(facts.trailing[w], AllRows[j]), AllRows, A \cup {j})
    BY <1>2, <2>2, <2>3, SelectedAppend
  <2>5. next.trailing[w] = IF Trailing(request, w, r)
                           THEN Append(facts.trailing[w], r) ELSE facts.trailing[w]
    BY <1>1
  <2>6. CASE Trailing(request, w, r)
    <3>1. B = A \cup {j} /\ next.trailing[w] = Append(facts.trailing[w], AllRows[j])
      BY <2>1, <2>5, <2>6
    <3> QED BY <2>4, <3>1 DEF B
  <2>7. CASE ~Trailing(request, w, r)
    <3>1. B = A /\ next.trailing[w] = facts.trailing[w]
      BY <2>1, <2>5, <2>7
    <3> QED BY <2>3, <3>1 DEF B
  <2> QED BY <2>6, <2>7
<1>4. ASSUME NEW o \in request.offsets PROVE KnownLatest(next.asOf[o], DueAt(request, o, J))
  <2> DEFINE A == DueAt(request, o, I)
             B == DueAt(request, o, J)
             best == facts.asOf[o]
  <2>1. B = IF AsOfCandidate(request, o, r) THEN A \cup {j} ELSE A
    BY DEF DueAt
  <2>2. A \in SUBSET (1 .. Len(AllRows)) /\ \A i \in A : i < j
    BY DEF DueAt
  <2>3. KnownLatest(best, A)
    BY DEF FactsAt
  <2>4. next.asOf[o] = IF AsOfCandidate(request, o, r) /\ AsOfPreferred(r, best)
                       THEN r ELSE best
    BY <1>1
  <2> HIDE DEF A, B, best
  <2>5. KnownLatest(IF AsOfPreferred(AllRows[j], best) THEN AllRows[j] ELSE best, A \cup {j})
    BY <2>2, <2>3, LatestStep
  <2>6. CASE AsOfCandidate(request, o, r)
    <3>1. B = A \cup {j}
          /\ next.asOf[o] = IF AsOfPreferred(AllRows[j], best) THEN AllRows[j] ELSE best
      BY <2>1, <2>4, <2>6
    <3> QED BY <2>5, <3>1 DEF B
  <2>7. CASE ~AsOfCandidate(request, o, r)
    <3>1. B = A /\ next.asOf[o] = best
      BY <2>1, <2>4, <2>7
    <3> QED BY <2>3, <3>1 DEF B
  <2> QED BY <2>6, <2>7
<1>5. ASSUME NEW w \in request.windows PROVE KnownEarliest(next.future[w], DueIn(request, w, J))
  <2> DEFINE A == DueIn(request, w, I)
             B == DueIn(request, w, J)
             best == facts.future[w]
  <2>1. B = IF FutureCandidate(request, w, r) THEN A \cup {j} ELSE A
    BY DEF DueIn
  <2>2. A \in SUBSET (1 .. Len(AllRows)) /\ \A i \in A : i < j
    BY DEF DueIn
  <2>3. KnownEarliest(best, A)
    BY DEF FactsAt
  <2>4. next.future[w] = IF FutureCandidate(request, w, r) /\ FuturePreferred(r, best)
                         THEN r ELSE best
    BY <1>1
  <2> HIDE DEF A, B, best
  <2>5. KnownEarliest(IF FuturePreferred(AllRows[j], best) THEN AllRows[j] ELSE best,
                      A \cup {j})
    BY <2>2, <2>3, EarliestStep
  <2>6. CASE FutureCandidate(request, w, r)
    <3>1. B = A \cup {j}
          /\ next.future[w] = IF FuturePreferred(AllRows[j], best) THEN AllRows[j] ELSE best
      BY <2>1, <2>4, <2>6
    <3> QED BY <2>5, <3>1 DEF B
  <2>7. CASE ~FutureCandidate(request, w, r)
    <3>1. B = A /\ next.future[w] = best
      BY <2>1, <2>4, <2>7
    <3> QED BY <2>3, <3>1 DEF B
  <2> QED BY <2>6, <2>7
<1> HIDE DEF J
<1>6. FactsAt(next, J, request)
  BY <1>3, <1>4, <1>5 DEF FactsAt
<1> QED BY <1>6 DEF next, J, r

\* No trade, no fact.
LEMMA FreshFactsHold == \A request : FactsAt(FreshFacts(request), {}, request)
<1>1. TAKE request
<1> DEFINE fresh == FreshFacts(request)
<1>2. /\ \A w \in request.widths : fresh.trailing[w] = <<>>
      /\ \A o \in request.offsets : fresh.asOf[o] = NoRow
      /\ \A w \in request.windows : fresh.future[w] = NoRow
  BY DEF FreshFacts
<1>3. /\ \A w : WithinWidth(request, w, {}) = {}
      /\ \A o : DueAt(request, o, {}) = {}
      /\ \A w : DueIn(request, w, {}) = {}
  BY DEF WithinWidth, DueAt, DueIn
<1> HIDE DEF fresh
<1>4. \A w \in request.widths :
        Selected(fresh.trailing[w], AllRows, WithinWidth(request, w, {}))
  BY <1>2, <1>3, SelectedNone
<1>5. \A o \in request.offsets : KnownLatest(fresh.asOf[o], DueAt(request, o, {}))
  BY <1>2, <1>3 DEF KnownLatest
<1>6. \A w \in request.windows : KnownEarliest(fresh.future[w], DueIn(request, w, {}))
  BY <1>2, <1>3 DEF KnownEarliest
<1> QED BY <1>4, <1>5, <1>6 DEF FactsAt, fresh

\* The accumulators, of any request.
FactSet(request) ==
    [trailing : [request.widths -> Seq(Rows)],
     asOf     : [request.offsets -> Rows \cup {NoRow}],
     future   : [request.windows -> Rows \cup {NoRow}]]

\* An ingested row keeps their type.
LEMMA FactsType ==
    ASSUME NEW request
    PROVE  /\ FreshFacts(request) \in FactSet(request)
           /\ \A facts \in FactSet(request), r \in Rows :
                IngestRow(request, facts, r) \in FactSet(request)
<1>1. FreshFacts(request) \in FactSet(request)
  BY DEF FreshFacts, FactSet
<1>2. ASSUME NEW facts \in FactSet(request), NEW r \in Rows
      PROVE  IngestRow(request, facts, r) \in FactSet(request)
  <2> DEFINE V == Rows \cup {NoRow}
             a == [w \in request.widths |-> IF Trailing(request, w, r)
                      THEN Append(facts.trailing[w], r) ELSE facts.trailing[w]]
             b == [o \in request.offsets |->
                     IF AsOfCandidate(request, o, r) /\ AsOfPreferred(r, facts.asOf[o])
                     THEN r ELSE facts.asOf[o]]
             c == [w \in request.windows |->
                     IF FutureCandidate(request, w, r) /\ FuturePreferred(r, facts.future[w])
                     THEN r ELSE facts.future[w]]
  <2>1. /\ \A w \in request.widths : facts.trailing[w] \in Seq(Rows)
        /\ \A o \in request.offsets : facts.asOf[o] \in V
        /\ \A w \in request.windows : facts.future[w] \in V
    BY DEF FactSet
  <2>2. r \in V
    OBVIOUS
  <2>3. a \in [request.widths -> Seq(Rows)]
    <3>1. \A w \in request.widths : Append(facts.trailing[w], r) \in Seq(Rows)
      BY <2>1
    <3> QED BY <2>1, <3>1
  <2> HIDE DEF V
  <2>4. b \in [request.offsets -> V]
    BY <2>1, <2>2
  <2>5. c \in [request.windows -> V]
    BY <2>1, <2>2
  <2>6. IngestRow(request, facts, r) = [trailing |-> a, asOf |-> b, future |-> c]
    BY DEF IngestRow
  <2> HIDE DEF a, b, c
  <2>7. [trailing |-> a, asOf |-> b, future |-> c]
          \in [trailing : [request.widths -> Seq(Rows)],
               asOf : [request.offsets -> V], future : [request.windows -> V]]
    BY <2>3, <2>4, <2>5
  <2> QED BY <2>6, <2>7 DEF FactSet, V
<1> QED BY <1>1, <1>2

\* After the last trade the accumulators know all of them.
LEMMA IngestedHold ==
    ASSUME AllRows \in Seq(Rows), NEW request, NEW idx \in Seq(Int), Increasing(idx),
           ToSet(idx) \subseteq 1 .. Len(AllRows)
    PROVE  FactsAt(Ingested(Along(AllRows, idx), request), ToSet(idx), request)
<1> DEFINE s == Along(AllRows, idx)
           N == Len(s)
           V == FactSet(request)
           fresh == FreshFacts(request)
           step == [n \in 1..N |-> [v \in V |-> IngestRow(request, v, s[n])]]
           Body(f) == [n \in 0..N |-> IF n = 0 THEN fresh
                                      ELSE IngestRow(request, f[n - 1], s[n])]
           facts == CHOOSE f : f = Body(f)
<1>a. /\ Len(idx) \in Nat /\ ToSet(idx) = Initial(idx, Len(idx))
      /\ \A k \in 1 .. Len(idx) : idx[k] \in 1 .. Len(AllRows) /\ idx[k] \in Int
  BY DEF ToSet, Initial
<1>b. N = Len(idx) /\ \A n \in 1 .. Len(idx) : s[n] = AllRows[idx[n]]
  BY <1>a DEF Along
<1>0. N \in Nat /\ fresh \in V /\ \A n \in 1..N : s[n] \in Rows
  BY <1>a, <1>b, FactsType
<1>1. Ingested(s, request) = facts[N]
  BY DEF Ingested
<1>2. \A v \in V, r \in Rows : IngestRow(request, v, r) \in V
  BY FactsType
<1> HIDE DEF s, N, V, fresh
<1>3. Facts!StepsOn(step, N, V)
  BY <1>0, <1>2 DEF Facts!StepsOn
<1> HIDE DEF step
<1>4. PICK g : Facts!Iterated(g, step, fresh, N, V)
  BY <1>0, <1>3, Facts!Iterates
<1>5. \A n \in 1..N : g[n] = IngestRow(request, g[n - 1], s[n])
  <2> TAKE n \in 1..N
  <2>1. n - 1 \in 0..N
    BY <1>0
  <2>2. g[n] = step[n][g[n - 1]] /\ g[n - 1] \in V
    BY <1>4, <2>1 DEF Facts!Iterated
  <2> QED BY <2>2 DEF step
<1>6. g = Body(g)
  <2>1. g = [n \in 0..N |-> g[n]] /\ g[0] = fresh
    BY <1>4 DEF Facts!Iterated
  <2>2. \A n \in 0..N : g[n] = IF n = 0 THEN fresh ELSE IngestRow(request, g[n - 1], s[n])
    <3> TAKE n \in 0..N
    <3>1. n # 0 => n \in 1..N
      BY <1>0
    <3> QED BY <1>5, <2>1, <3>1
  <2>3. [n \in 0..N |-> g[n]]
          = [n \in 0..N |-> IF n = 0 THEN fresh ELSE IngestRow(request, g[n - 1], s[n])]
    BY <2>2
  <2> QED BY <2>1, <2>3
<1>7. facts = Body(facts)
  <2> HIDE DEF Body
  <2> QED BY <1>6, Zenon
<1> HIDE DEF facts
<1>8. \A n \in 0..N : facts[n] = IF n = 0 THEN fresh
                                 ELSE IngestRow(request, facts[n - 1], s[n])
  BY <1>7
<1> DEFINE G == {n \in 0..N : FactsAt(facts[n], Initial(idx, n), request)}
<1>9. 0 \in G
  <2>1. facts[0] = fresh /\ 0 \in 0..N /\ Initial(idx, 0) = {}
    BY <1>0, <1>8 DEF Initial
  <2> QED BY <2>1, FreshFactsHold DEF fresh
<1>10. ASSUME NEW n \in 1..N, n - 1 \in G PROVE n \in G
  <2> DEFINE I == Initial(idx, n - 1)
  <2>1. n \in 0..N /\ n # 0 /\ n \in Int /\ n - 1 \in Nat /\ n \in 1 .. Len(idx)
    BY <1>0, <1>b
  <2>2. facts[n] = IngestRow(request, facts[n - 1], AllRows[idx[n]])
    BY <1>8, <1>b, <2>1
  <2>3. \A k \in 1..(n - 1) : k \in 1 .. Len(idx) /\ k < n
    BY <1>a, <2>1
  <2>4. \A k \in 1..(n - 1) : idx[k] \in 1 .. Len(AllRows) /\ idx[k] < idx[n]
    BY <1>a, <2>1, <2>3 DEF Increasing
  <2>5. I \in SUBSET (1 .. Len(AllRows)) /\ \A i \in I : i < idx[n]
    BY <2>4 DEF Initial
  <2>6. Initial(idx, n) = I \cup {idx[n]}
    <3>1. \A k : k \in 1..n <=> k \in 1..(n - 1) \/ k = n
      BY <2>1
    <3> QED BY <3>1 DEF Initial
  <2>7. FactsAt(facts[n - 1], I, request)
    BY <1>10
  <2>8. idx[n] \in 1 .. Len(AllRows)
    BY <1>a, <2>1
  <2> HIDE DEF I
  <2>9. FactsAt(IngestRow(request, facts[n - 1], AllRows[idx[n]]), I \cup {idx[n]}, request)
    BY <2>5, <2>7, <2>8, IngestStep
  <2> QED BY <2>1, <2>2, <2>6, <2>9
<1> HIDE DEF G
<1>11. \A n \in 0..N : n \in G
  BY <1>0, <1>9, <1>10, Facts!SetInduction
<1>12. N \in G
  BY <1>0, <1>11
<1> QED BY <1>1, <1>12, <1>a, <1>b DEF G, s

\* The facts of a decision.
FactsExact(facts, request) ==
    LET trades   == TradesOf(request.symbol)
        age(i)   == request.decision - AllRows[i].time
        known(i) == AllRows[i].block <= request.cutoff
    IN  /\ \A w \in request.widths :
             facts.trailing[w] =
                 InInputOrder({i \in trades : known(i) /\ age(i) \in 0 .. w - 1})
        /\ \A o \in request.offsets :
             LET due == {i \in trades : known(i) /\ age(i) >= o}
             IN  facts.asOf[o] = IF due = {} THEN NoRow ELSE Latest(due)
        /\ \A w \in request.windows :
             LET due == {i \in trades : /\ - age(i) \in w.start .. w.end
                                       /\ AllRows[i].block > w.minBlock}
             IN  facts.future[w] = IF due = {} THEN NoRow ELSE Earliest(due)

\* Of the trades of the symbol each fact reads the right ones.
LEMMA FactsAreExact ==
    ASSUME InputIInv, plan = NoPlan, Canonical, NEW request \in Decisions
    PROVE  FactsExact(Ingested(Representatives(files, request.symbol), request), request)
<1> DEFINE facts == Ingested(Representatives(files, request.symbol), request)
           trades == TradesOf(request.symbol)
<1>1. AllRows \in Seq(Rows)
  BY AllRowsType
<1>2. Selected(Representatives(files, request.symbol), AllRows, trades)
      /\ trades \subseteq 1 .. Len(AllRows)
  BY TradesSelected
<1>3. PICK idx : /\ idx \in Seq(Int) /\ Increasing(idx) /\ ToSet(idx) = trades
                 /\ Representatives(files, request.symbol) = Along(AllRows, idx)
  BY <1>2 DEF Selected
<1>4. FactsAt(facts, trades, request)
  BY <1>1, <1>2, <1>3, IngestedHold
<1>5. /\ \A i \in trades : /\ AllRows[i].time \in Int /\ AllRows[i].block \in Int
      /\ request.decision \in Int
      /\ \A w \in request.widths : w \in Int
      /\ \A o \in request.offsets : o \in Int
      /\ \A w \in request.windows : w.start \in Int /\ w.end \in Int
  BY <1>1, <1>2, TimesOfRows, DecisionsAssumption
<1> HIDE DEF facts, trades
<1>6. ASSUME NEW w \in request.widths
      PROVE  facts.trailing[w] =
               InInputOrder({i \in trades : /\ AllRows[i].block <= request.cutoff
                                            /\ request.decision - AllRows[i].time \in 0 .. w - 1})
  <2> DEFINE T == {i \in trades : /\ AllRows[i].block <= request.cutoff
                                  /\ request.decision - AllRows[i].time \in 0 .. w - 1}
  <2>1. WithinWidth(request, w, trades) = T
    <3>1. ASSUME NEW i \in trades
          PROVE  Trailing(request, w, AllRows[i])
                   <=> /\ AllRows[i].block <= request.cutoff
                       /\ request.decision - AllRows[i].time \in 0 .. w - 1
      <4> DEFINE t == AllRows[i].time
                 d == request.decision
      <4>1. t \in Int /\ d \in Int /\ w \in Int
        BY <1>5
      <4> HIDE DEF t, d
      <4>2. t > d - w /\ t <= d <=> d - t \in 0 .. w - 1
        BY <4>1
      <4> QED BY <4>2 DEF Trailing, t, d
    <3> QED BY <3>1 DEF WithinWidth
  <2>2. Selected(facts.trailing[w], AllRows, T)
    BY <1>4, <2>1 DEF FactsAt
  <2> HIDE DEF T
  <2>3. facts.trailing[w] = InInputOrder(T)
    <3>1. facts.trailing[w] = InIndexOrder(AllRows, T)
      BY <2>2, SelectedIs
    <3> QED BY <3>1 DEF InInputOrder, InIndexOrder
  <2> QED BY <2>3 DEF T
<1>7. ASSUME NEW o \in request.offsets
      PROVE  LET due == {i \in trades : /\ AllRows[i].block <= request.cutoff
                                        /\ request.decision - AllRows[i].time >= o}
             IN  facts.asOf[o] = IF due = {} THEN NoRow ELSE Latest(due)
  <2> DEFINE T == {i \in trades : /\ AllRows[i].block <= request.cutoff
                                  /\ request.decision - AllRows[i].time >= o}
  <2>1. DueAt(request, o, trades) = T
    <3>1. ASSUME NEW i \in trades
          PROVE  AsOfCandidate(request, o, AllRows[i])
                   <=> /\ AllRows[i].block <= request.cutoff
                       /\ request.decision - AllRows[i].time >= o
      <4> DEFINE t == AllRows[i].time
                 d == request.decision
      <4>1. t \in Int /\ d \in Int /\ o \in Int
        BY <1>5
      <4> HIDE DEF t, d
      <4>2. t <= d - o <=> d - t >= o
        BY <4>1
      <4> QED BY <4>2 DEF AsOfCandidate, t, d
    <3> QED BY <3>1 DEF DueAt
  <2>2. KnownLatest(facts.asOf[o], T)
    BY <1>4, <2>1 DEF FactsAt
  <2>3. T \in SUBSET (1 .. Len(AllRows))
    BY <1>2 DEF trades
  <2> HIDE DEF T
  <2>4. T # {} => \E i : LatestAt(i, T) /\ facts.asOf[o] = AllRows[i]
    BY <2>2 DEF KnownLatest
  <2>5. T # {} => facts.asOf[o] = Latest(T)
    BY <1>1, <2>3, <2>4, LatestIs
  <2>6. T = {} => facts.asOf[o] = NoRow
    BY <2>2 DEF KnownLatest
  <2> QED BY <2>5, <2>6 DEF T
<1>8. ASSUME NEW w \in request.windows
      PROVE  LET due == {i \in trades : /\ - (request.decision - AllRows[i].time) \in w.start .. w.end
                                        /\ AllRows[i].block > w.minBlock}
             IN  facts.future[w] = IF due = {} THEN NoRow ELSE Earliest(due)
  <2> DEFINE T == {i \in trades : /\ - (request.decision - AllRows[i].time) \in w.start .. w.end
                                  /\ AllRows[i].block > w.minBlock}
  <2>1. DueIn(request, w, trades) = T
    <3>1. ASSUME NEW i \in trades
          PROVE  FutureCandidate(request, w, AllRows[i])
                   <=> /\ - (request.decision - AllRows[i].time) \in w.start .. w.end
                       /\ AllRows[i].block > w.minBlock
      <4> DEFINE t == AllRows[i].time
                 d == request.decision
                 a == w.start
                 b == w.end
      <4>1. t \in Int /\ d \in Int /\ a \in Int /\ b \in Int
        BY <1>5
      <4> HIDE DEF t, d, a, b
      <4>2. t >= d + a /\ t <= d + b <=> - (d - t) \in a..b
        BY <4>1
      <4> QED BY <4>2 DEF FutureCandidate, t, d, a, b
    <3> QED BY <3>1 DEF DueIn
  <2>2. KnownEarliest(facts.future[w], T)
    BY <1>4, <2>1 DEF FactsAt
  <2>3. T \in SUBSET (1 .. Len(AllRows))
    BY <1>2 DEF trades
  <2> HIDE DEF T
  <2>4. T # {} => \E i : EarliestAt(i, T) /\ facts.future[w] = AllRows[i]
    BY <2>2 DEF KnownEarliest
  <2>5. T # {} => facts.future[w] = Earliest(T)
    BY <1>1, <2>3, <2>4, EarliestIs
  <2>6. T = {} => facts.future[w] = NoRow
    BY <2>2 DEF KnownEarliest
  <2> QED BY <2>5, <2>6 DEF T
<1> QED BY <1>6, <1>7, <1>8 DEF FactsExact, facts, trades

\* execute_event_window_extract counts each trade once, and each fact is read
\* from the right ones, for any rows, files and decisions.
THEOREM WindowTheorem == InputSpec => []WindowFactsAreExact
<1>1. InputIInv => WindowFactsAreExact
  <2> SUFFICES ASSUME InputIInv, plan = NoPlan, NEW request \in Decisions
               PROVE  LET result == EventWindowFacts(files, request)
                      IN  /\ result.ok <=> Canonical
                          /\ result.ok => FactsExact(result.facts, request)
    BY DEF WindowFactsAreExact, FactsExact
  <2> DEFINE ok == ExecuteStructuralCanonicalize(files).ok
             facts == Ingested(Representatives(files, request.symbol), request)
             result == EventWindowFacts(files, request)
  <2>1. ok <=> Canonical
    BY CanonicalHolds
  <2>2. ok => result.ok /\ result.facts = facts
    <3> HIDE DEF facts
    <3> QED BY DEF EventWindowFacts, facts
  <2>3. ~ok => ~result.ok
    BY DEF EventWindowFacts, Failed
  <2> HIDE DEF ok, facts, result
  <2>4. CASE Canonical
    <3>1. result.ok /\ result.facts = facts
      BY <2>1, <2>2, <2>4
    <3> QED BY <2>4, <3>1, FactsAreExact DEF facts, result
  <2>5. CASE ~Canonical
    BY <2>1, <2>3, <2>5 DEF result
  <2> QED BY <2>4, <2>5
<1> QED BY <1>1, InputInvInit, InputInvNext, PTL DEF InputSpec
=============================================================================
