--------------------------- MODULE CausalGrid_proofs ---------------------------
(* Proofs about CausalGrid, for every set of histories, every request the    *)
(* models accept and every choice of offsets and widths.  The inductive      *)
(* invariant GridIInv says what a pass has gathered from the events behind   *)
(* its carry and those it has read since, which may be the same: the         *)
(* frontiers summarise them, a deque holds every trade that is not too old,  *)
(* first what was carried and then what was read, each part in order, and    *)
(* what is still unread is later than every grid time a row is due for.      *)
EXTENDS CausalGrid, FiniteSetTheorems, WellFoundedInduction, TLAPS

-----------------------------------------------------------------------------
(* The inductive invariant *)

\* What the carry a pass started from stands for, and what it has read since.
Behind == IF Carried THEN Past ELSE {}
Observed == Inputs \ unread
OfSegment(S, g) == {e \in S : Segment(e.time) = g}
TradesOf(S, s) == {e \in S : e.source = s}

Frontier == [primary : Int, secondary : Int, lastTime : Int, lastBlock : Int,
             monotone : BOOLEAN]

\* The highest block of S and the highest one below it.
HighestOf(f, S) ==
    /\ \E e \in S : f.primary = e.block
    /\ \A e \in S : e.block <= f.primary
    /\ \/ /\ f.secondary = Absent
          /\ \A e \in S : e.block = f.primary
       \/ /\ \E e \in S : f.secondary = e.block
          /\ f.secondary < f.primary
          /\ \A e \in S : e.block = f.primary \/ e.block <= f.secondary

\* The event met last is none of the earlier ones.
LastOf(f, S) ==
    \E e \in S : /\ f.lastTime = e.time /\ f.lastBlock = e.block
                 /\ \A other \in S : ~Earlier(e, other)

\* First B, then R, and never a step back.
InStep(B, R) ==
    /\ InOrder(B) /\ InOrder(R)
    /\ \A b \in B, r \in R : r.time >= b.time /\ r.block >= b.block

\* What a frontier keeps of the carried events B and the events R of its segment.
Summarises(f, B, R) ==
    IF B \cup R = {} THEN f = FreshFrontier
    ELSE /\ HighestOf(f, B \cup R)
         /\ LastOf(f, IF R = {} THEN B ELSE R)
         /\ f.monotone <=> InStep(B, R)

IndexOf(index, B, R) ==
    /\ index \in [Segments -> Frontier]
    /\ \A g \in Segments : Summarises(index[g], OfSegment(B, g), OfSegment(R, g))

\* A deque of the trades S: each at most once, in order, none of time mark or
\* later missing, and with a trade all the later ones.
DequeOf(deque, S, mark) ==
    /\ DOMAIN deque \subseteq Nat /\ IsFiniteSet(DOMAIN deque)
    /\ deque \in [DOMAIN deque -> S]
    /\ \A i, j \in DOMAIN deque : deque[i] = deque[j] => i = j
    /\ \A i, j \in DOMAIN deque : i < j => ~Earlier(deque[j], deque[i])
    /\ \A e \in S : e.time >= mark => \E i \in DOMAIN deque : deque[i] = e
    /\ \A i \in DOMAIN deque, e \in S :
          e.time > deque[i].time => \E j \in DOMAIN deque : deque[j] = e

\* The carried trades of B come first, and the first of them goes first.
PartedDeque(deque, B, R, mark) ==
    /\ DOMAIN deque \subseteq Nat /\ IsFiniteSet(DOMAIN deque)
    /\ \E lower, upper \in SUBSET DOMAIN deque :
          /\ lower \cup upper = DOMAIN deque
          /\ \A i \in lower, j \in upper : i < j
          /\ DequeOf(Restrict(deque, lower), B, mark)
          /\ DequeOf(Restrict(deque, upper), R, mark)
          /\ lower # {} => \A e \in R : \E i \in upper : deque[i] = e

WindowOf(window, B, R, mark) ==
    /\ DOMAIN window = Targets
    /\ \A s \in Targets : PartedDeque(window[s], TradesOf(B, s), TradesOf(R, s), mark)

\* What is read so far is before all the rest and before every row still due.
StreamInv ==
    /\ unread \subseteq Inputs
    /\ \A e \in Observed, f \in unread : ~Earlier(f, e)
    /\ \A e \in Observed : e.time <= EmitEnd
    /\ \A e \in Observed, g \in gridTimes : e.time <= g

WatermarkInv ==
    /\ watermark \in Int
    /\ ScanStart <= watermark /\ watermark <= EmitEnd - Lookback
    /\ \A g \in gridTimes : watermark <= g - Lookback

ScanInv ==
    status = "scan" =>
        /\ pass # "done"
        /\ request.overlap >= Lookback
        /\ StreamInv
        /\ WatermarkInv
        /\ IndexOf(frontiers, Behind, Observed)
        /\ WindowOf(rolling, Behind, Observed, watermark)

\* The carry of the first pass: all that the second one needs of the events up
\* to the cut.
CarryInv ==
    pass = "second" =>
        /\ IndexOf(carry.frontiers, Past, {})
        /\ DOMAIN carry.trades = Targets
        /\ \A s \in Targets :
              DequeOf(carry.trades[s], TradesOf(Past, s), request.cut - Lookback)

\* What TrailingFactsAreExact asks of one fact.
IsWindowFact(fact, due, t) ==
    IF DueCutoff(t) = Absent
    THEN fact = None
    ELSE /\ Values(fact) = due
         /\ Repeated(fact) = {e \in due : t > request.cut /\ e \in Again}

\* What AsOfFactsAreLatest asks of one fact.
IsLatestFact(fact, due, t) ==
    \/ due = {} /\ fact = None
    \/ fact \in LatestOf(due)
    \/ \E e \in LatestOf(due) :
          /\ e.time < t - Lookback
          /\ fact = None \/ (fact \in due /\ fact.time = e.time)

\* A row is what the events alone say it should be.
RowIsExact(row) ==
    /\ row.time \in Nat
    /\ row.cutoff = DueCutoff(row.time)
    /\ \A s \in Targets, w \in TrailingWidths :
          IsWindowFact(row.facts[s].trailing[w],
                       {e \in Causal(s, row.time) : e.time > row.time - w}, row.time)
    /\ \A s \in Targets, o \in AsOfOffsets :
          IsLatestFact(row.facts[s].asOf[o],
                       {e \in Causal(s, row.time) : e.time <= row.time - o}, row.time)

RowsInv ==
    \A p \in {"first", "second"} :
        /\ rows[p] \in Seq(ToSet(rows[p]))
        /\ \A i \in DOMAIN rows[p] : RowIsExact(rows[p][i])

GridOf(p) ==
    IF p = "first" THEN {t \in request.gridStart .. request.cut : OnGrid(t)}
    ELSE {t \in request.cut + 1 .. request.gridEnd : OnGrid(t)}

TimesOf(p) == {rows[p][i].time : i \in DOMAIN rows[p]}

\* A pass has emitted the grid times it no longer has ahead of it, in order.
EmittedInv ==
    /\ \A p \in {"first", "second"} :
          \A i, j \in DOMAIN rows[p] : i < j => rows[p][i].time < rows[p][j].time
    /\ pass # "first" => TimesOf("first") = GridOf("first")
    /\ pass = "done" => TimesOf("second") = GridOf("second")
    /\ pass = "first" => rows["second"] = <<>>
    /\ status = "start" /\ pass # "done" => rows[pass] = <<>>
    /\ status = "scan" =>
          /\ gridTimes \subseteq GridOf(pass)
          /\ TimesOf(pass) = GridOf(pass) \ gridTimes
          /\ \A i \in DOMAIN rows[pass], g \in gridTimes : rows[pass][i].time < g

GridTypeOK ==
    /\ request \in Requests /\ events \in Histories
    /\ pass \in {"first", "second", "done"}
    /\ status \in {"start", "scan", "failed"}
    /\ DOMAIN rows = {"first", "second"}

GridIInv == GridTypeOK /\ ScanInv /\ CarryInv /\ RowsInv /\ EmittedInv

-----------------------------------------------------------------------------
(* Least and greatest elements *)

LessThan == {p \in Nat \X Nat : p[1] < p[2]}

LEMMA LessThanIsWellFounded == IsWellFoundedOn(LessThan, Nat)
BY NatLessThanWellFounded DEF OpToRel, LessThan

LEMMA LeastElement ==
    ASSUME NEW T, T \subseteq Nat, T # {}
    PROVE  \E m \in T : \A n \in T : m <= n
<1>1. PICK m \in T : \A n \in T : <<n, m>> \notin LessThan
  BY LessThanIsWellFounded, WFMin
<1>2. ASSUME NEW n \in T PROVE m <= n
  <2>1. m \in Nat /\ n \in Nat
    OBVIOUS
  <2>2. n < m => <<n, m>> \in LessThan
    BY <2>1 DEF LessThan
  <2> QED BY <1>1, <2>1, <2>2
<1> QED BY <1>2

LEMMA GreatestElement ==
    ASSUME NEW T, T \subseteq Nat, T # {}, NEW b \in Nat, \A n \in T : n <= b
    PROVE  \E m \in T : \A n \in T : n <= m
<1> DEFINE D == {b - n : n \in T}
<1>1. D \subseteq Nat /\ D # {}
  <2>1. ASSUME NEW n \in T PROVE b - n \in Nat
    <3>1. n \in Nat /\ n <= b
      OBVIOUS
    <3> QED BY <3>1
  <2> QED BY <2>1
<1>2. \E m \in D : \A n \in D : m <= n
  <2> HIDE DEF D
  <2> QED BY <1>1, LeastElement
<1>3. PICK k \in T : \A n \in T : b - k <= b - n
  BY <1>2
<1>4. \A n \in T : n <= k
  <2> TAKE n \in T
  <2>1. b \in Nat /\ n \in Nat /\ k \in Nat
    OBVIOUS
  <2> QED BY <1>3, <2>1
<1> QED BY <1>4

LEMMA GreatestOfFinite ==
    ASSUME NEW T, T \subseteq Nat, T # {}, IsFiniteSet(T)
    PROVE  \E m \in T : \A n \in T : n <= m
<1> DEFINE Bad == {U \in SUBSET T : U # {} /\ ~ \E m \in U : \A n \in U : n <= m}
<1> SUFFICES ASSUME Bad # {} PROVE FALSE
  OBVIOUS
<1>1. Bad \subseteq FiniteSubsetsOf(T)
  BY FS_FiniteSubsetsOfFinite
<1>2. PICK U \in Bad : \A V \in Bad : <<V, U>> \notin StrictSubsetOrdering(T)
  <2> HIDE DEF Bad
  <2> QED BY <1>1, FS_StrictSubsetOrderingWellFounded, WFMin
<1>3. PICK x \in U : TRUE
  OBVIOUS
<1>4. U \ {x} \notin Bad
  <2>1. <<U \ {x}, U>> \in StrictSubsetOrdering(T)
    BY <1>3 DEF StrictSubsetOrdering
  <2> QED BY <1>2, <2>1
<1>5. CASE U \ {x} = {}
  <2>1. x \in Nat /\ \A n \in U : n = x
    BY <1>3, <1>5
  <2> QED BY <2>1, <1>3
<1>6. CASE U \ {x} # {}
  <2>1. PICK y \in U \ {x} : \A n \in U \ {x} : n <= y
    BY <1>4, <1>6
  <2>2. x \in Nat /\ y \in Nat /\ U \subseteq Nat
    BY <1>3, <2>1
  <2>3. CASE x <= y
    <3>1. \A n \in U : n <= y
      BY <2>1, <2>2, <2>3
    <3> QED BY <3>1, <2>1
  <2>4. CASE y <= x
    <3>1. \A n \in U : n <= x
      BY <2>1, <2>2, <2>4
    <3> QED BY <3>1, <1>3
  <2> QED BY <2>2, <2>3, <2>4
<1> QED BY <1>5, <1>6

LEMMA MinOfSet ==
    ASSUME NEW T, T \subseteq Nat, T # {}
    PROVE  Min(T) \in T /\ \A n \in T : Min(T) <= n
BY LeastElement DEF Min

LEMMA MaxOfSet ==
    ASSUME NEW T, T \subseteq Nat, T # {}, IsFiniteSet(T)
    PROVE  Max(T) \in T /\ \A n \in T : n <= Max(T)
<1>1. \E m \in T : \A n \in T : m >= n
  BY GreatestOfFinite
<1>2. Max(T) \in T /\ \A n \in T : Max(T) >= n
  BY <1>1 DEF Max
<1> QED BY <1>2

\* No offset and no width reaches further back than the lookback.
LEMMA LookbackBounds ==
    /\ Lookback \in Nat
    /\ \A o \in AsOfOffsets : o <= Lookback
    /\ \A w \in TrailingWidths : w <= Lookback
<1> DEFINE T == AsOfOffsets \cup TrailingWidths \cup {0}
           U == {n \in T : n \in Nat}
<1>1. T \subseteq Int /\ 0 \in T
  BY GridAssumption
<1>2. IsFiniteSet(T)
  BY GridAssumption, FS_Union, FS_Singleton
<1>3. U \subseteq Nat /\ U # {} /\ IsFiniteSet(U)
  BY <1>1, <1>2, FS_Subset
<1>4. PICK m \in U : \A n \in U : n <= m
  <2> HIDE DEF U
  <2> QED BY <1>3, GreatestOfFinite
<1>5. m \in T /\ m \in Nat /\ \A n \in T : m >= n
  BY <1>1, <1>4
<1> HIDE DEF T
<1>6. Max(T) \in T /\ \A n \in T : Max(T) >= n
  BY <1>5 DEF Max
<1>7. Max(T) \in Nat
  <2>1. Max(T) \in Int /\ 0 <= Max(T)
    BY <1>1, <1>6
  <2> QED BY <2>1
<1>8. \A n \in T : n <= Max(T)
  BY <1>1, <1>6, <1>7
<1> QED BY <1>7, <1>8, Zenon DEF Lookback, T

-----------------------------------------------------------------------------
(* Deques *)

Timed(S) == \A e \in S : e.time \in Nat /\ e.block \in Nat

LEMMA RestrictProps ==
    ASSUME NEW q, NEW D
    PROVE  /\ DOMAIN Restrict(q, D) = D
           /\ \A i \in D : Restrict(q, D)[i] = q[i]
BY DEF Restrict

LEMMA RestrictTwice ==
    ASSUME NEW q, NEW C, NEW D, D \subseteq C
    PROVE  Restrict(Restrict(q, C), D) = Restrict(q, D)
BY DEF Restrict

\* A deque loses positions D^c and stays one, of a later mark, when no trade of
\* that mark is lost and D holds with a position all the later trades.
LEMMA RestrictKeepsDeque ==
    ASSUME NEW S, NEW q, NEW m \in Int, NEW n \in Int, NEW D,
           Timed(S), DequeOf(q, S, m), m <= n, D \subseteq DOMAIN q,
           \A i \in DOMAIN q : q[i].time >= n => i \in D,
           \A i \in D, j \in DOMAIN q : q[j].time > q[i].time => j \in D
    PROVE  DequeOf(Restrict(q, D), S, n)
<1> DEFINE r == Restrict(q, D)
<1>1. DOMAIN r = D /\ \A i \in D : r[i] = q[i]
  BY RestrictProps
<1>2. r \in [D -> S]
  BY DEF Restrict, DequeOf
<1> HIDE DEF r
<1>3. D \subseteq Nat /\ IsFiniteSet(D)
  BY FS_Subset DEF DequeOf
<1>4. \A e \in S : e.time >= n => \E i \in D : r[i] = e
  <2> SUFFICES ASSUME NEW e \in S, e.time >= n PROVE \E i \in D : r[i] = e
    OBVIOUS
  <2>1. e.time >= m
    BY DEF Timed
  <2>2. PICK i \in DOMAIN q : q[i] = e
    BY <2>1 DEF DequeOf
  <2> QED BY <1>1, <2>2
<1>5. \A i \in D, e \in S : e.time > r[i].time => \E j \in D : r[j] = e
  <2> SUFFICES ASSUME NEW i \in D, NEW e \in S, e.time > r[i].time
               PROVE  \E j \in D : r[j] = e
    OBVIOUS
  <2>1. PICK j \in DOMAIN q : q[j] = e
    BY <1>1 DEF DequeOf
  <2> QED BY <1>1, <2>1
<1>6. /\ \A i, j \in D : r[i] = r[j] => i = j
      /\ \A i, j \in D : i < j => ~Earlier(r[j], r[i])
  BY <1>1 DEF DequeOf
<1> QED BY <1>1, <1>2, <1>3, <1>4, <1>5, <1>6 DEF DequeOf, r

\* A part that was not met yet has no positions.
LEMMA EmptyPart ==
    ASSUME NEW q, NEW m \in Int
    PROVE  DequeOf(Restrict(q, {}), {}, m)
<1>1. DOMAIN Restrict(q, {}) = {} /\ Restrict(q, {}) \in [{} -> {}]
  BY DEF Restrict
<1> QED BY <1>1, FS_EmptySet DEF DequeOf

LEMMA PartedOfParts ==
    ASSUME NEW B, NEW R, NEW q, NEW m, NEW lower, NEW upper,
           DOMAIN q \subseteq Nat, IsFiniteSet(DOMAIN q),
           lower \in SUBSET DOMAIN q, upper \in SUBSET DOMAIN q,
           lower \cup upper = DOMAIN q,
           \A i \in lower, j \in upper : i < j,
           DequeOf(Restrict(q, lower), B, m), DequeOf(Restrict(q, upper), R, m),
           lower # {} => \A e \in R : \E i \in upper : q[i] = e
    PROVE  PartedDeque(q, B, R, m)
BY DEF PartedDeque

LEMMA PartedValues ==
    ASSUME NEW B, NEW R, NEW q, NEW m, PartedDeque(q, B, R, m), NEW i \in DOMAIN q
    PROVE  i \in Nat /\ q[i] \in B \cup R
<1>1. PICK lower \in SUBSET DOMAIN q, upper \in SUBSET DOMAIN q :
          /\ lower \cup upper = DOMAIN q
          /\ DequeOf(Restrict(q, lower), B, m)
          /\ DequeOf(Restrict(q, upper), R, m)
  BY DEF PartedDeque
<1>2. /\ \A j \in lower : q[j] \in B
      /\ \A j \in upper : q[j] \in R
  BY <1>1, RestrictProps DEF DequeOf
<1> QED BY <1>1, <1>2 DEF PartedDeque

\* Positions go from the front, and yet no trade of the mark: both parts stay deques,
\* and the second part is whole as long as the first one is not gone.
LEMMA RestrictKeepsParted ==
    ASSUME NEW B, NEW R, NEW q, NEW m \in Int, NEW n \in Int, NEW D,
           Timed(B \cup R), PartedDeque(q, B, R, m), m <= n, D \subseteq DOMAIN q,
           \A i \in DOMAIN q : q[i].time >= n => i \in D,
           \A i \in D, j \in DOMAIN q : i <= j => j \in D
    PROVE  PartedDeque(Restrict(q, D), B, R, n)
<1>1. PICK lower \in SUBSET DOMAIN q, upper \in SUBSET DOMAIN q :
          /\ lower \cup upper = DOMAIN q
          /\ \A i \in lower, j \in upper : i < j
          /\ DequeOf(Restrict(q, lower), B, m)
          /\ DequeOf(Restrict(q, upper), R, m)
          /\ lower # {} => \A e \in R : \E i \in upper : q[i] = e
  BY DEF PartedDeque
<1>2. DOMAIN q \subseteq Nat /\ IsFiniteSet(DOMAIN q)
  BY DEF PartedDeque
<1>3. ASSUME NEW part \in SUBSET DOMAIN q, NEW S \in {B, R},
             DequeOf(Restrict(q, part), S, m)
      PROVE  DequeOf(Restrict(q, part \cap D), S, n)
  <2> DEFINE r == Restrict(q, part)
             E == part \cap D
  <2>1. DOMAIN r = part /\ \A i \in part : r[i] = q[i]
    BY RestrictProps
  <2>2. Timed(S)
    BY <1>3 DEF Timed
  <2>3. Restrict(r, E) = Restrict(q, E)
    BY RestrictTwice
  <2> HIDE DEF r
  <2>4. DequeOf(r, S, m)
    BY <1>3 DEF r
  <2>5. \A i \in DOMAIN r : r[i].time >= n => i \in E
    BY <2>1
  <2>6. \A i \in E, j \in DOMAIN r : r[j].time > r[i].time => j \in E
    <3> SUFFICES ASSUME NEW i \in E, NEW j \in DOMAIN r, r[j].time > r[i].time
                 PROVE  j \in D
      BY <2>1
    <3>1. i \in DOMAIN r /\ i \in Nat /\ j \in Nat /\ j \in DOMAIN q /\ i \in D
      BY <1>2, <2>1
    <3>2. ~(j < i)
      BY <2>4, <3>1 DEF DequeOf, Earlier
    <3> QED BY <3>1, <3>2
  <2> HIDE DEF E
  <2>7. DequeOf(Restrict(r, E), S, n)
    <3>1. E \subseteq DOMAIN r
      BY <2>1 DEF E
    <3> QED BY <2>2, <2>4, <2>5, <2>6, <3>1, RestrictKeepsDeque
  <2> QED BY <2>3, <2>7 DEF E
<1> DEFINE r == Restrict(q, D)
           low == lower \cap D
           up  == upper \cap D
<1>4. DOMAIN r = D /\ \A i \in D : r[i] = q[i]
  BY RestrictProps
<1>5. Restrict(r, low) = Restrict(q, low) /\ Restrict(r, up) = Restrict(q, up)
  BY RestrictTwice
<1>6. DequeOf(Restrict(q, low), B, n) /\ DequeOf(Restrict(q, up), R, n)
  BY <1>1, <1>3
<1> HIDE DEF r
<1>7. low # {} => \A e \in R : \E i \in up : r[i] = e
  <2> SUFFICES ASSUME NEW k \in low, NEW e \in R PROVE \E i \in up : r[i] = e
    OBVIOUS
  <2>1. PICK i \in upper : q[i] = e
    BY <1>1
  <2>2. i \in D
    <3>1. k < i /\ k \in D /\ i \in DOMAIN q /\ k \in Nat /\ i \in Nat
      BY <1>1, <1>2, <2>1
    <3> QED BY <3>1
  <2> QED BY <1>4, <2>1, <2>2
<1>8. /\ low \in SUBSET D /\ up \in SUBSET D /\ low \cup up = D
      /\ \A i \in low, j \in up : i < j
  BY <1>1
<1>9. D \subseteq Nat /\ IsFiniteSet(D)
  BY <1>2, FS_Subset
<1> HIDE DEF low, up
<1> QED BY <1>4, <1>5, <1>6, <1>7, <1>8, <1>9 DEF PartedDeque, r

\* _evict_before removes from the front only, and yet nothing it may keep.
LEMMA EvictKeepsParted ==
    ASSUME NEW B, NEW R, NEW q, NEW m \in Int, NEW n \in Int, NEW mark \in Int,
           Timed(B \cup R), PartedDeque(q, B, R, m), m <= n, mark <= n
    PROVE  PartedDeque(Evict(q, mark), B, R, n)
<1> DEFINE D == {i \in DOMAIN q : \E k \in DOMAIN q : k <= i /\ q[k].time >= mark}
<1>1. \A i \in DOMAIN q : i \in Nat /\ q[i] \in B \cup R /\ q[i].time \in Nat
  BY PartedValues DEF Timed
<1>2. \A i \in DOMAIN q : q[i].time >= n => i \in D
  <2> SUFFICES ASSUME NEW i \in DOMAIN q, q[i].time >= n
               PROVE  i <= i /\ q[i].time >= mark
    OBVIOUS
  <2> QED BY <1>1
<1>3. \A i \in D, j \in DOMAIN q : i <= j => j \in D
  <2> SUFFICES ASSUME NEW i \in D, NEW j \in DOMAIN q, i <= j
               PROVE  j \in D
    OBVIOUS
  <2>1. PICK k \in DOMAIN q : k <= i /\ q[k].time >= mark
    OBVIOUS
  <2>2. i \in Nat /\ j \in Nat /\ k \in Nat
    BY <1>1
  <2> QED BY <2>1, <2>2
<1> HIDE DEF D
<1>4. D \subseteq DOMAIN q
  BY DEF D
<1>5. PartedDeque(Restrict(q, D), B, R, n)
  BY <1>2, <1>3, <1>4, RestrictKeepsParted
<1> QED BY <1>5 DEF Evict, D

\* A later mark asks for less.
LEMMA PartedOfLater ==
    ASSUME NEW B, NEW R, NEW q, NEW m \in Int, NEW n \in Int,
           Timed(B \cup R), PartedDeque(q, B, R, m), m <= n
    PROVE  PartedDeque(q, B, R, n)
<1>1. \A e \in B \cup R : e.time >= n => e.time >= m
  BY DEF Timed
<1>2. \A r : /\ DequeOf(r, B, m) => DequeOf(r, B, n)
             /\ DequeOf(r, R, m) => DequeOf(r, R, n)
  BY <1>1 DEF DequeOf
<1> QED BY <1>2 DEF PartedDeque

LEMMA PushedProps ==
    ASSUME NEW q, NEW e, DOMAIN q \subseteq Nat, IsFiniteSet(DOMAIN q)
    PROVE  \E next \in Nat :
              /\ \A i \in DOMAIN q : i < next
              /\ DOMAIN Pushed(q, e) = DOMAIN q \cup {next}
              /\ Pushed(q, e)[next] = e
              /\ \A i \in DOMAIN q : Pushed(q, e)[i] = q[i]
<1> DEFINE T == DOMAIN q \cup {0}
           next == Max(T) + 1
<1>1. T \subseteq Nat /\ T # {} /\ IsFiniteSet(T)
  BY FS_AddElement
<1>2. Max(T) \in T /\ \A n \in T : n <= Max(T)
  <2> HIDE DEF T
  <2> QED BY <1>1, MaxOfSet
<1>3. next \in Nat /\ \A i \in DOMAIN q : i < next
  BY <1>1, <1>2
<1>4. Pushed(q, e) = [i \in DOMAIN q \cup {next} |-> IF i = next THEN e ELSE q[i]]
  BY DEF Pushed
<1> HIDE DEF next
<1>5. next \notin DOMAIN q
  BY <1>3
<1> QED BY <1>3, <1>4, <1>5

\* The next trade of the stream goes to the end of a deque.
LEMMA ExtendKeepsDeque ==
    ASSUME NEW S, NEW q, NEW m \in Int, NEW e, NEW r, NEW next \in Nat,
           Timed(S \cup {e}), DequeOf(q, S, m), e \notin S,
           \A x \in S : ~Earlier(e, x),
           \A i \in DOMAIN q : i < next,
           DOMAIN r = DOMAIN q \cup {next},
           r = [i \in DOMAIN r |-> r[i]],
           r[next] = e,
           \A i \in DOMAIN q : r[i] = q[i]
    PROVE  DequeOf(r, S \cup {e}, m)
<1>1. /\ \A i \in DOMAIN q : i < next
      /\ DOMAIN r = DOMAIN q \cup {next}
      /\ r[next] = e
      /\ \A i \in DOMAIN q : r[i] = q[i]
  OBVIOUS
<1>2. r = [i \in DOMAIN r |-> r[i]]
  OBVIOUS
<1>3. \A i \in DOMAIN q : i \in Nat /\ q[i] \in S
  BY DEF DequeOf
<1>4. DOMAIN r \subseteq Nat /\ IsFiniteSet(DOMAIN r)
  BY <1>1, FS_AddElement DEF DequeOf
<1>5. r \in [DOMAIN r -> S \cup {e}]
  BY <1>1, <1>2, <1>3
<1>6. \A i, j \in DOMAIN r : r[i] = r[j] => i = j
  BY <1>1, <1>3 DEF DequeOf
<1>7. \A i, j \in DOMAIN r : i < j => ~Earlier(r[j], r[i])
  <2> SUFFICES ASSUME NEW i \in DOMAIN r, NEW j \in DOMAIN r, i < j
               PROVE  ~Earlier(r[j], r[i])
    OBVIOUS
  <2>1. i \in DOMAIN q
    BY <1>1, <1>4
  <2>2. CASE j = next
    BY <1>1, <1>3, <2>1, <2>2
  <2>3. CASE j # next
    BY <1>1, <2>1, <2>3 DEF DequeOf
  <2> QED BY <2>2, <2>3
<1>8. \A x \in S \cup {e} : x.time >= m => \E i \in DOMAIN r : r[i] = x
  <2> SUFFICES ASSUME NEW x \in S \cup {e}, x.time >= m
               PROVE  \E i \in DOMAIN r : r[i] = x
    OBVIOUS
  <2>1. CASE x = e
    BY <1>1, <2>1
  <2>2. CASE x \in S
    <3>1. PICK i \in DOMAIN q : q[i] = x
      BY <2>2 DEF DequeOf
    <3> QED BY <1>1, <3>1
  <2> QED BY <2>1, <2>2
<1>9. \A i \in DOMAIN r, x \in S \cup {e} :
         x.time > r[i].time => \E j \in DOMAIN r : r[j] = x
  <2> SUFFICES ASSUME NEW i \in DOMAIN r, NEW x \in S \cup {e}, x.time > r[i].time
               PROVE  \E j \in DOMAIN r : r[j] = x
    OBVIOUS
  <2>1. CASE x = e
    BY <1>1, <2>1
  <2>2. CASE x \in S /\ i = next
    <3>1. Earlier(e, x)
      BY <1>1, <2>2 DEF Earlier
    <3> QED BY <2>2, <3>1
  <2>3. CASE x \in S /\ i \in DOMAIN q
    <3>1. PICK j \in DOMAIN q : q[j] = x
      BY <1>1, <2>3 DEF DequeOf
    <3> QED BY <1>1, <3>1
  <2> QED BY <1>1, <2>1, <2>2, <2>3
<1> QED BY <1>4, <1>5, <1>6, <1>7, <1>8, <1>9 DEF DequeOf

\* A trade that is read goes to the second part.
LEMMA PushKeepsParted ==
    ASSUME NEW B, NEW R, NEW q, NEW m \in Int, NEW e,
           Timed(B \cup R \cup {e}), PartedDeque(q, B, R, m), e \notin R,
           \A x \in R : ~Earlier(e, x)
    PROVE  PartedDeque(Pushed(q, e), B, R \cup {e}, m)
<1>1. PICK lower \in SUBSET DOMAIN q, upper \in SUBSET DOMAIN q :
          /\ lower \cup upper = DOMAIN q
          /\ \A i \in lower, j \in upper : i < j
          /\ DequeOf(Restrict(q, lower), B, m)
          /\ DequeOf(Restrict(q, upper), R, m)
          /\ lower # {} => \A x \in R : \E i \in upper : q[i] = x
  BY DEF PartedDeque
<1>2. DOMAIN q \subseteq Nat /\ IsFiniteSet(DOMAIN q)
  BY DEF PartedDeque
<1> DEFINE p == Pushed(q, e)
<1>3. PICK next \in Nat :
         /\ \A i \in DOMAIN q : i < next
         /\ DOMAIN p = DOMAIN q \cup {next}
         /\ p[next] = e
         /\ \A i \in DOMAIN q : p[i] = q[i]
  BY <1>2, PushedProps
<1> HIDE DEF p
<1> DEFINE up == upper \cup {next}
<1>4. Restrict(p, lower) = Restrict(q, lower)
  BY <1>3 DEF Restrict
<1>5. DequeOf(Restrict(p, up), R \cup {e}, m)
  <2> DEFINE r == Restrict(p, up)
             u == Restrict(q, upper)
  <2>1. DOMAIN r = up /\ (\A i \in up : r[i] = p[i]) /\ r = [i \in DOMAIN r |-> r[i]]
    BY RestrictProps DEF Restrict
  <2>2. DOMAIN u = upper /\ \A i \in upper : u[i] = q[i]
    BY RestrictProps
  <2>3. DequeOf(u, R, m)
    BY <1>1
  <2> HIDE DEF r, u
  <2>4. /\ \A i \in DOMAIN u : i < next /\ r[i] = u[i]
        /\ DOMAIN r = DOMAIN u \cup {next} /\ r[next] = e
    BY <1>3, <2>1, <2>2
  <2>5. Timed(R \cup {e})
    BY DEF Timed
  <2>6. DequeOf(r, R \cup {e}, m)
    BY <2>1, <2>3, <2>4, <2>5, ExtendKeepsDeque
  <2> QED BY <2>6 DEF r
<1>6. lower # {} => \A x \in R \cup {e} : \E i \in up : p[i] = x
  BY <1>1, <1>3
<1>7. /\ lower \in SUBSET DOMAIN p /\ up \in SUBSET DOMAIN p /\ lower \cup up = DOMAIN p
      /\ \A i \in lower, j \in up : i < j
  BY <1>1, <1>3
<1>8. DOMAIN p \subseteq Nat /\ IsFiniteSet(DOMAIN p)
  BY <1>2, <1>3, FS_AddElement
<1> HIDE DEF up
<1>9. /\ DequeOf(Restrict(p, lower), B, m) /\ DequeOf(Restrict(p, up), R \cup {e}, m)
      /\ lower # {} => \A x \in R \cup {e} : \E i \in up : p[i] = x
  BY <1>1, <1>4, <1>5, <1>6
<1>10. PartedDeque(p, B, R \cup {e}, m)
  BY <1>7, <1>8, <1>9, PartedOfParts
<1> QED BY <1>10 DEF p

\* An event read goes to the deque of its symbol, if that is a target.
LEMMA IngestKeepsWindow ==
    ASSUME NEW B, NEW R, NEW window, NEW e, NEW m \in Int, NEW n \in Int, NEW mark \in Int,
           Timed(B \cup R \cup {e}), WindowOf(window, B, R, m), m <= n, mark <= n,
           e \notin R, \A x \in R : ~Earlier(e, x)
    PROVE  WindowOf(Ingest(window, e, mark), B, R \cup {e}, n)
<1>1. \A s \in Targets : /\ Timed(TradesOf(B, s) \cup TradesOf(R, s))
                          /\ PartedDeque(window[s], TradesOf(B, s), TradesOf(R, s), m)
  BY DEF Timed, TradesOf, WindowOf
<1>2. \A s \in Targets : e.source # s => TradesOf(R \cup {e}, s) = TradesOf(R, s)
  BY DEF TradesOf
<1>3. DOMAIN window = Targets
  BY DEF WindowOf
<1>4. CASE e.source \in Targets
  <2> DEFINE s == e.source
             C == TradesOf(B, s)
             S == TradesOf(R, s)
  <2>1. Ingest(window, e, mark) = [window EXCEPT ![s] = Pushed(Evict(window[s], mark), e)]
    BY <1>4 DEF Ingest
  <2>2. PartedDeque(Evict(window[s], mark), C, S, n)
    BY <1>1, <1>4, EvictKeepsParted
  <2>3. /\ Timed(C \cup S \cup {e}) /\ e \notin S
        /\ \A x \in S : ~Earlier(e, x)
        /\ TradesOf(R \cup {e}, s) = S \cup {e}
    BY DEF Timed, TradesOf
  <2>4. PartedDeque(Pushed(Evict(window[s], mark), e), C, TradesOf(R \cup {e}, s), n)
    <3> HIDE DEF C, S
    <3> QED BY <2>2, <2>3, PushKeepsParted
  <2>5. \A t \in Targets : t # s =>
           PartedDeque(window[t], TradesOf(B, t), TradesOf(R \cup {e}, t), n)
    BY <1>1, <1>2, PartedOfLater
  <2> QED BY <1>3, <1>4, <2>1, <2>4, <2>5 DEF WindowOf
<1>5. CASE e.source \notin Targets
  <2>1. \A t \in Targets : PartedDeque(window[t], TradesOf(B, t), TradesOf(R \cup {e}, t), n)
    BY <1>1, <1>2, <1>5, PartedOfLater
  <2> QED BY <1>3, <1>5, <2>1 DEF WindowOf, Ingest
<1> QED BY <1>4, <1>5

-----------------------------------------------------------------------------
(* Frontiers *)

LEMMA ObservedFields ==
    ASSUME NEW f \in Frontier, NEW e, e.time \in Nat, e.block \in Nat
    PROVE  LET g == ObserveBlock(f, e)
           IN  /\ g \in Frontier
               /\ g.lastTime = e.time /\ g.lastBlock = e.block
               /\ g.monotone = (f.monotone /\ e.time >= f.lastTime /\ e.block >= f.lastBlock)
               /\ g.primary = IF e.block > f.primary THEN e.block ELSE f.primary
               /\ g.secondary = IF e.block > f.primary THEN f.primary
                                ELSE IF e.block < f.primary /\ e.block > f.secondary
                                     THEN e.block ELSE f.secondary
<1>1. RegisterBlock(f, e.block) \in Frontier
  <2>1. /\ f.primary \in Int /\ f.secondary \in Int
        /\ \A x, y \in Int : [f EXCEPT !.primary = x, !.secondary = y] \in Frontier
        /\ \A y \in Int : [f EXCEPT !.secondary = y] \in Frontier
    BY Zenon DEF Frontier
  <2>2. e.block \in Int
    OBVIOUS
  <2> QED BY <2>1, <2>2, Zenon DEF RegisterBlock
<1>2. LET g == RegisterBlock(f, e.block)
      IN  /\ g.primary = IF e.block > f.primary THEN e.block ELSE f.primary
          /\ g.secondary = IF e.block > f.primary THEN f.primary
                           ELSE IF e.block < f.primary /\ e.block > f.secondary
                                THEN e.block ELSE f.secondary
  BY DEF RegisterBlock, Frontier
<1>3. (f.monotone /\ e.time >= f.lastTime /\ e.block >= f.lastBlock) \in BOOLEAN
  BY DEF Frontier
<1>4. e.time \in Int /\ e.block \in Int
  OBVIOUS
<1> QED BY <1>1, <1>2, <1>3, <1>4 DEF ObserveBlock, Frontier

\* The next event of the stream keeps the step if it is in step with the last one.
LEMMA ExtendsStep ==
    ASSUME NEW B, NEW R, NEW e, Timed(B \cup R \cup {e}), B \cup R # {},
           \A x \in R : ~Earlier(e, x),
           NEW last \in IF R = {} THEN B ELSE R,
           \A x \in IF R = {} THEN B ELSE R : ~Earlier(last, x)
    PROVE  InStep(B, R \cup {e})
               <=> InStep(B, R) /\ e.time >= last.time /\ e.block >= last.block
<1>1. /\ \A x \in B \cup R : x.time \in Nat /\ x.block \in Nat
      /\ e.time \in Nat /\ e.block \in Nat
  BY DEF Timed
<1>2. last \in B \cup R /\ last.time \in Nat /\ last.block \in Nat
  BY <1>1
<1>3. ASSUME InStep(B, R), e.time >= last.time, e.block >= last.block
      PROVE  InStep(B, R \cup {e})
  <2>1. InOrder(R \cup {e})
    <3> SUFFICES ASSUME NEW a \in R \cup {e}, NEW b \in R \cup {e}, a.time < b.time
                 PROVE  a.block <= b.block
      BY DEF InOrder
    <3>1. CASE a \in R /\ b \in R
      BY <1>3, <3>1 DEF InStep, InOrder
    <3>2. CASE a = e
      <4>1. Earlier(e, b) /\ b \in R
        BY <1>1, <3>2 DEF Earlier
      <4> QED BY <4>1
    <3>3. CASE a \in R /\ b = e
      <4>1. last \in R /\ ~Earlier(last, a)
        BY <3>3
      <4>2. a.block <= last.block
        BY <1>1, <1>2, <1>3, <3>3, <4>1 DEF Earlier, InStep, InOrder
      <4> QED BY <1>1, <1>2, <1>3, <3>3, <4>2
    <3> QED BY <3>1, <3>2, <3>3
  <2>2. ASSUME NEW b \in B PROVE last.time >= b.time /\ last.block >= b.block
    <3>1. CASE R = {}
      <4>1. last \in B /\ ~Earlier(last, b)
        BY <3>1
      <4> QED BY <1>1, <1>2, <1>3, <4>1 DEF Earlier, InStep, InOrder
    <3>2. CASE R # {}
      BY <1>3, <3>2 DEF InStep
    <3> QED BY <3>1, <3>2
  <2>3. ASSUME NEW b \in B, NEW r \in R \cup {e} PROVE r.time >= b.time /\ r.block >= b.block
    <3>1. CASE r \in R
      BY <1>3, <3>1 DEF InStep
    <3>2. CASE r = e
      BY <1>1, <1>2, <1>3, <2>2, <3>2
    <3> QED BY <3>1, <3>2
  <2> QED BY <1>3, <2>1, <2>3 DEF InStep
<1>4. ASSUME InStep(B, R \cup {e})
      PROVE  InStep(B, R) /\ e.time >= last.time /\ e.block >= last.block
  <2>1. InStep(B, R)
    BY <1>4 DEF InStep, InOrder
  <2>2. CASE R = {}
    <3>1. last \in B
      BY <2>2
    <3> QED BY <1>4, <2>1, <3>1 DEF InStep
  <2>3. CASE R # {}
    <3>1. last \in R /\ ~Earlier(e, last)
      BY <2>3
    <3>2. last.time < e.time => last.block <= e.block
      BY <1>4, <3>1 DEF InStep, InOrder
    <3> QED BY <1>1, <1>2, <2>1, <3>1, <3>2 DEF Earlier
  <2> QED BY <2>2, <2>3
<1> QED BY <1>3, <1>4

\* Two numbers, the last event and one flag are enough to go on from.
LEMMA ObserveKeepsSummary ==
    ASSUME NEW B, NEW R, NEW f \in Frontier, NEW e, Timed(B \cup R \cup {e}),
           Summarises(f, B, R), \A x \in R : ~Earlier(e, x)
    PROVE  Summarises(ObserveBlock(f, e), B, R \cup {e})
<1> DEFINE g == ObserveBlock(f, e)
           S == B \cup R
           T == S \cup {e}
<1>1. e.time \in Nat /\ e.block \in Nat
  BY DEF Timed
<1>2. /\ g \in Frontier
      /\ g.lastTime = e.time /\ g.lastBlock = e.block
      /\ g.monotone = (f.monotone /\ e.time >= f.lastTime /\ e.block >= f.lastBlock)
      /\ g.primary = IF e.block > f.primary THEN e.block ELSE f.primary
      /\ g.secondary = IF e.block > f.primary THEN f.primary
                       ELSE IF e.block < f.primary /\ e.block > f.secondary
                            THEN e.block ELSE f.secondary
  BY <1>1, ObservedFields
<1> HIDE DEF g
<1>3. LastOf(g, R \cup {e}) /\ T = B \cup (R \cup {e})
  BY <1>1, <1>2 DEF LastOf, Earlier
<1>4. CASE S = {}
  <2>1. f = FreshFrontier /\ T = {e} /\ B = {} /\ R = {}
    BY <1>4 DEF Summarises
  <2>2. HighestOf(g, T)
    BY <1>1, <1>2, <2>1 DEF HighestOf, FreshFrontier, Absent
  <2>3. g.monotone <=> InStep(B, R \cup {e})
    <3>1. InStep(B, R \cup {e})
      BY <1>1, <2>1 DEF InStep, InOrder
    <3>2. f.monotone /\ e.time >= f.lastTime /\ e.block >= f.lastBlock
      BY <1>1, <2>1 DEF FreshFrontier, Absent
    <3> QED BY <1>2, <3>1, <3>2
  <2> QED BY <1>3, <2>2, <2>3 DEF Summarises, g
<1>5. CASE S # {}
  <2>1. /\ HighestOf(f, S) /\ LastOf(f, IF R = {} THEN B ELSE R)
        /\ f.monotone <=> InStep(B, R)
    BY <1>5 DEF Summarises
  <2>2. f.primary \in Int /\ f.secondary \in Int
    BY DEF Frontier
  <2>3. \A x \in S : x.time \in Nat /\ x.block \in Nat
    BY DEF Timed
  <2>4. HighestOf(g, T)
    <3> HIDE DEF S
    <3>1. CASE e.block > f.primary
      BY <1>1, <1>2, <2>1, <2>2, <2>3, <3>1 DEF HighestOf
    <3>2. CASE e.block < f.primary /\ e.block > f.secondary
      BY <1>1, <1>2, <2>1, <2>2, <2>3, <3>2 DEF HighestOf
    <3>3. CASE e.block = f.primary
      BY <1>1, <1>2, <2>1, <2>2, <2>3, <3>3 DEF HighestOf
    <3>4. CASE e.block <= f.secondary /\ e.block < f.primary
      <4>1. f.secondary # Absent
        BY <1>1, <3>4 DEF Absent
      <4> QED BY <1>1, <1>2, <2>1, <2>2, <2>3, <3>4, <4>1 DEF HighestOf
    <3> QED BY <1>1, <2>2, <3>1, <3>2, <3>3, <3>4
  <2>5. PICK last \in IF R = {} THEN B ELSE R :
           /\ f.lastTime = last.time /\ f.lastBlock = last.block
           /\ \A x \in IF R = {} THEN B ELSE R : ~Earlier(last, x)
    BY <2>1 DEF LastOf
  <2>6. InStep(B, R \cup {e}) <=> InStep(B, R) /\ e.time >= last.time /\ e.block >= last.block
    BY <1>5, <2>5, ExtendsStep
  <2>7. g.monotone <=> InStep(B, R \cup {e})
    BY <1>2, <2>1, <2>5, <2>6
  <2> QED BY <1>3, <2>4, <2>7 DEF Summarises, g
<1> QED BY <1>4, <1>5

LEMMA SegmentType ==
    ASSUME request \in Requests, NEW t \in Nat
    PROVE  Segment(t) \in Segments
<1> DEFINE D == {d \in request.missing : Day(t) > d}
<1>1. IsFiniteSet(request.missing)
  BY RequestAssumption
<1>2. /\ IsFiniteSet(D) /\ Cardinality(D) <= Cardinality(request.missing)
      /\ Cardinality(D) \in Nat /\ Cardinality(request.missing) \in Nat
  BY <1>1, FS_Subset, FS_CardinalityType
<1> QED BY <1>2 DEF Segment, Segments

\* An event read goes to the frontier of its segment.
LEMMA ObserveKeepsIndex ==
    ASSUME request \in Requests, NEW B, NEW R, NEW index, NEW e,
           Timed(B \cup R \cup {e}), IndexOf(index, B, R), \A x \in R : ~Earlier(e, x)
    PROVE  IndexOf(Observe(index, e), B, R \cup {e})
<1> DEFINE h == Segment(e.time)
<1>1. h \in Segments
  BY SegmentType DEF Timed
<1>2. index[h] \in Frontier /\ Summarises(index[h], OfSegment(B, h), OfSegment(R, h))
  BY <1>1 DEF IndexOf
<1>3. /\ OfSegment(R \cup {e}, h) = OfSegment(R, h) \cup {e}
      /\ \A g \in Segments : g # h => OfSegment(R \cup {e}, g) = OfSegment(R, g)
  BY DEF OfSegment
<1>4. /\ Timed(OfSegment(B, h) \cup OfSegment(R, h) \cup {e})
      /\ \A x \in OfSegment(R, h) : ~Earlier(e, x)
  BY DEF Timed, OfSegment
<1>5. Summarises(ObserveBlock(index[h], e), OfSegment(B, h), OfSegment(R \cup {e}, h))
  BY <1>2, <1>3, <1>4, ObserveKeepsSummary
<1>6. ObserveBlock(index[h], e) \in Frontier
  BY <1>2, ObservedFields DEF Timed
<1> HIDE DEF h
<1>7. Observe(index, e) = [index EXCEPT ![h] = ObserveBlock(index[h], e)]
  BY DEF Observe, h
<1> QED BY <1>1, <1>3, <1>5, <1>6, <1>7 DEF IndexOf

\* Being in step is being in order without having stepped back behind the carry.
LEMMA InStepMeaning ==
    ASSUME NEW B, NEW R, Timed(B \cup R)
    PROVE  InStep(B, R) <=> /\ InOrder(B \cup R)
                            /\ ~ \E r \in R, b \in B : Earlier(r, b)
<1>1. \A x \in B \cup R : x.time \in Nat /\ x.block \in Nat
  BY DEF Timed
<1>2. ASSUME InStep(B, R)
      PROVE  InOrder(B \cup R) /\ \A r \in R, b \in B : ~Earlier(r, b)
  BY <1>1, <1>2 DEF InStep, InOrder, Earlier
<1>3. ASSUME InOrder(B \cup R), \A r \in R, b \in B : ~Earlier(r, b)
      PROVE  InStep(B, R)
  BY <1>1, <1>3 DEF InStep, InOrder, Earlier
<1> QED BY <1>2, <1>3

\* The frontier's two numbers give the cutoff of the whole history, and none once
\* the stream stepped back behind a carried event.
LEMMA SummaryGivesCutoff ==
    ASSUME NEW t, NEW f \in Frontier, NEW B, NEW R, Timed(Seen(t)), B \cup R = Seen(t),
           Summarises(f, B, R), (\E r \in R, b \in B : Earlier(r, b)) <=> Rewinds(t)
    PROVE  (IF f.monotone THEN f.secondary ELSE Absent) = DueCutoff(t)
<1> DEFINE S == Seen(t)
           blocks == {e.block : e \in S}
           complete == {b \in blocks : \E later \in blocks : later > b}
<1>1. FrozenCutoff(t) = IF InOrder(S) /\ complete # {} THEN Max(complete) ELSE Absent
  BY DEF FrozenCutoff
<1>2. blocks \subseteq Nat
  BY DEF Timed
<1>3. f.primary \in Int /\ f.secondary \in Int
  BY DEF Frontier
<1>4. CASE S = {}
  <2>1. f = FreshFrontier /\ complete = {}
    BY <1>4 DEF Summarises
  <2> QED BY <1>1, <2>1 DEF FreshFrontier, DueCutoff
<1>5. CASE S # {}
  <2>1. HighestOf(f, S) /\ (f.monotone <=> InStep(B, R))
    BY <1>5 DEF Summarises
  <2>2. f.monotone <=> InOrder(S) /\ ~Rewinds(t)
    BY <2>1, InStepMeaning
  <2>3. f.primary \in blocks /\ \A b \in blocks : b <= f.primary
    BY <2>1 DEF HighestOf
  <2>4. CASE f.secondary = Absent /\ \A e \in S : e.block = f.primary
    <3>1. complete = {}
      BY <1>2, <1>3, <2>4
    <3> QED BY <1>1, <2>4, <3>1 DEF DueCutoff
  <2>5. CASE /\ \E e \in S : f.secondary = e.block
             /\ f.secondary < f.primary
             /\ \A e \in S : e.block = f.primary \/ e.block <= f.secondary
    <3>1. f.secondary \in complete
      BY <1>2, <1>3, <2>3, <2>5
    <3>2. ASSUME NEW b \in complete PROVE b <= f.secondary
      <4>1. PICK later \in blocks : later > b
        OBVIOUS
      <4>2. PICK e \in S : e.block = b
        OBVIOUS
      <4>3. b \in Nat /\ later \in Nat
        BY <1>2
      <4>4. later <= f.primary
        BY <2>3
      <4>5. e.block = f.primary \/ e.block <= f.secondary
        BY <2>5
      <4> HIDE DEF blocks, complete
      <4>6. b # f.primary
        BY <1>3, <4>1, <4>3, <4>4
      <4> QED BY <4>2, <4>5, <4>6
    <3>3. complete \subseteq Nat
      BY <1>2
    <3> HIDE DEF complete
    <3>4. Max(complete) = f.secondary
      <4>1. f.secondary \in complete /\ \A b \in complete : f.secondary >= b
        BY <1>3, <3>1, <3>2, <3>3
      <4>2. Max(complete) \in complete /\ \A b \in complete : Max(complete) >= b
        BY <4>1 DEF Max
      <4>3. Max(complete) \in Nat /\ f.secondary \in Nat
        BY <3>1, <3>3, <4>2
      <4>4. Max(complete) <= f.secondary /\ f.secondary <= Max(complete)
        BY <3>1, <3>2, <4>2, <4>3
      <4> QED BY <4>3, <4>4
    <3> QED BY <1>1, <2>2, <3>1, <3>4 DEF DueCutoff
  <2> QED BY <2>1, <2>4, <2>5 DEF HighestOf
<1> QED BY <1>4, <1>5

-----------------------------------------------------------------------------
(* Facts *)

LEMMA LatestExists ==
    ASSUME NEW S, S # {}, Timed(S), NEW b \in Nat, \A e \in S : e.time <= b
    PROVE  LatestOf(S) # {}
<1> DEFINE Times == {e.time : e \in S}
<1>1. \E m \in Times : \A n \in Times : n <= m
  <2>1. Times \subseteq Nat /\ Times # {} /\ \A n \in Times : n <= b
    BY DEF Timed
  <2> HIDE DEF Times
  <2> QED BY <2>1, GreatestElement
<1>2. PICK a \in S : \A e \in S : e.time <= a.time
  BY <1>1
<1> DEFINE Blocks == {e.block : e \in {x \in S : x.time = a.time}}
<1>3. \E m \in Blocks : \A n \in Blocks : m <= n
  <2>1. Blocks \subseteq Nat /\ Blocks # {}
    BY DEF Timed
  <2> HIDE DEF Blocks
  <2> QED BY <2>1, LeastElement
<1>4. PICK e \in S : e.time = a.time /\ \A x \in S : x.time = a.time => e.block <= x.block
  BY <1>3
<1>5. \A x \in S : \/ x.time < e.time
                   \/ x.time = e.time /\ x.block >= e.block
  <2> SUFFICES ASSUME NEW x \in S
               PROVE  x.time < e.time \/ (x.time = e.time /\ x.block >= e.block)
    OBVIOUS
  <2>1. /\ x.time \in Nat /\ x.block \in Nat /\ a.time \in Nat
        /\ e.time \in Nat /\ e.block \in Nat
    BY DEF Timed
  <2> QED BY <1>2, <1>4, <2>1
<1> QED BY <1>5 DEF LatestOf

LEMMA PreferredExists ==
    ASSUME NEW q, NEW P, P # {}, P \subseteq Nat, NEW b \in Nat,
           \A i \in P : q[i].time \in Nat /\ q[i].time <= b
    PROVE  /\ Min(Preferred(q, P)) \in Preferred(q, P)
           /\ \A i \in Preferred(q, P) : Min(Preferred(q, P)) <= i
<1> DEFINE Times == {q[i].time : i \in P}
<1>1. \E m \in Times : \A n \in Times : n <= m
  <2>1. Times \subseteq Nat /\ Times # {} /\ \A n \in Times : n <= b
    OBVIOUS
  <2> HIDE DEF Times
  <2> QED BY <2>1, GreatestElement
<1>2. Preferred(q, P) # {} /\ Preferred(q, P) \subseteq Nat
  BY <1>1 DEF Preferred
<1> QED BY <1>2, MinOfSet

\* The trades of s a deque must hold at grid time t are those met until then.
Met(s, t) == {e \in events : e.source = s /\ e.time <= t}

LEMMA CausalIsMet ==
    ASSUME NEW s, NEW t
    PROVE  Causal(s, t) = {e \in Met(s, t) : e.block <= DueCutoff(t)}
BY DEF Causal, Met

\* Wherever what was read again reaches back, it has all that the carry stands for.
Abut(B, R) == \A b \in B, r \in R : r.time <= b.time => b \in R /\ r \in B

LEMMA RestrictedDeque ==
    ASSUME NEW S, NEW q, NEW D, NEW m, DequeOf(Restrict(q, D), S, m)
    PROVE  /\ \A i \in D : q[i] \in S
           /\ \A i, j \in D : q[i] = q[j] => i = j
           /\ \A i, j \in D : i < j => ~Earlier(q[j], q[i])
           /\ \A e \in S : e.time >= m => \E i \in D : q[i] = e
           /\ \A i \in D, e \in S : e.time > q[i].time => \E j \in D : q[j] = e
<1> DEFINE r == Restrict(q, D)
<1>1. DOMAIN r = D /\ \A i \in D : r[i] = q[i]
  BY RestrictProps
<1>2. DequeOf(r, S, m)
  OBVIOUS
<1> HIDE DEF r
<1> QED BY <1>1, <1>2 DEF DequeOf

\* What the two parts are together: no trade of the mark or later is missing, the
\* later trades outlive the earlier ones, equally late ones of lower blocks come
\* first, and only what both parts stand for is there twice.
LEMMA PartedFacts ==
    ASSUME NEW B, NEW R, NEW q, NEW m \in Int, Timed(B \cup R),
           PartedDeque(q, B, R, m), Abut(B, R)
    PROVE  /\ \A i \in DOMAIN q : i \in Nat /\ q[i] \in B \cup R
           /\ \A e \in B \cup R : e.time >= m => \E i \in DOMAIN q : q[i] = e
           /\ \A i \in DOMAIN q, e \in B \cup R :
                 e.time > q[i].time => \E j \in DOMAIN q : q[j] = e
           /\ \A i \in DOMAIN q, e \in B \cup R :
                 e.time = q[i].time /\ e.time >= m /\ e.block < q[i].block
                    => \E j \in DOMAIN q : j <= i /\ q[j] = e
           /\ \A e \in B \cup R : e.time >= m =>
                 ((\E i, j \in DOMAIN q : i # j /\ q[i] = e /\ q[j] = e)
                     <=> e \in B /\ e \in R)
<1>1. \A i \in DOMAIN q : i \in Nat /\ q[i] \in B \cup R
  BY PartedValues
<1>2. PICK lower \in SUBSET DOMAIN q, upper \in SUBSET DOMAIN q :
          /\ lower \cup upper = DOMAIN q
          /\ \A i \in lower, j \in upper : i < j
          /\ DequeOf(Restrict(q, lower), B, m)
          /\ DequeOf(Restrict(q, upper), R, m)
          /\ lower # {} => \A e \in R : \E i \in upper : q[i] = e
  BY DEF PartedDeque
<1>3. /\ \A i \in lower : q[i] \in B
      /\ \A i, j \in lower : q[i] = q[j] => i = j
      /\ \A i, j \in lower : i < j => ~Earlier(q[j], q[i])
      /\ \A e \in B : e.time >= m => \E i \in lower : q[i] = e
      /\ \A i \in lower, e \in B : e.time > q[i].time => \E j \in lower : q[j] = e
  BY <1>2, RestrictedDeque
<1>4. /\ \A i \in upper : q[i] \in R
      /\ \A i, j \in upper : q[i] = q[j] => i = j
      /\ \A i, j \in upper : i < j => ~Earlier(q[j], q[i])
      /\ \A e \in R : e.time >= m => \E i \in upper : q[i] = e
      /\ \A i \in upper, e \in R : e.time > q[i].time => \E j \in upper : q[j] = e
  BY <1>2, RestrictedDeque
<1>5. /\ lower \cup upper = DOMAIN q
      /\ \A i \in lower, j \in upper : i < j
      /\ lower # {} => \A e \in R : \E i \in upper : q[i] = e
  BY <1>2
<1>6. \A x \in B \cup R : x.time \in Nat /\ x.block \in Nat
  BY DEF Timed
<1>7. ASSUME NEW e \in B \cup R, e.time >= m PROVE \E i \in DOMAIN q : q[i] = e
  BY <1>3, <1>4, <1>5, <1>7
<1>8. ASSUME NEW i \in DOMAIN q, NEW e \in B \cup R, e.time > q[i].time
      PROVE  \E j \in DOMAIN q : q[j] = e
  <2>1. CASE i \in lower
    BY <1>3, <1>5, <1>8, <2>1
  <2>2. CASE i \in upper /\ e \in R
    BY <1>4, <1>5, <1>8, <2>2
  <2>3. CASE i \in upper /\ e \in B /\ e \notin R
    <3>1. q[i] \in R /\ q[i].time <= e.time
      BY <1>4, <1>6, <1>8, <2>3
    <3> QED BY <2>3, <3>1 DEF Abut
  <2> QED BY <1>5, <2>1, <2>2, <2>3
<1>9. ASSUME NEW i \in DOMAIN q, NEW e \in B \cup R,
             e.time = q[i].time, e.time >= m, e.block < q[i].block
      PROVE  \E j \in DOMAIN q : j <= i /\ q[j] = e
  <2>1. ASSUME NEW part \in {lower, upper}, NEW S \in {B, R}, i \in part, e \in S,
               \A k, j \in part : k < j => ~Earlier(q[j], q[k]),
               \A x \in S : x.time >= m => \E k \in part : q[k] = x
        PROVE  \E j \in DOMAIN q : j <= i /\ q[j] = e
    <3>1. PICK j \in part : q[j] = e
      BY <1>9, <2>1
    <3>2. i \in Nat /\ j \in Nat /\ j \in DOMAIN q
      BY <1>1, <1>5
    <3>3. ~(i < j)
      BY <1>9, <2>1, <3>1 DEF Earlier
    <3> QED BY <3>1, <3>2, <3>3
  <2>2. CASE i \in lower
    <3>1. e \in B
      <4>1. q[i] \in B /\ e.time <= q[i].time
        BY <1>3, <1>6, <1>9, <2>2
      <4> QED BY <4>1 DEF Abut
    <3> QED BY <1>3, <2>1, <2>2, <3>1
  <2>3. CASE i \in upper
    <3>1. e \in R
      <4>1. q[i] \in R /\ q[i].time <= e.time
        BY <1>4, <1>6, <1>9, <2>3
      <4> QED BY <4>1 DEF Abut
    <3> QED BY <1>4, <2>1, <2>3, <3>1
  <2> QED BY <1>5, <2>2, <2>3
<1>10. ASSUME NEW e \in B \cup R, e.time >= m
       PROVE  (\E i, j \in DOMAIN q : i # j /\ q[i] = e /\ q[j] = e) <=> e \in B /\ e \in R
  <2>1. ASSUME NEW i \in DOMAIN q, NEW j \in DOMAIN q, i # j, q[i] = e, q[j] = e
        PROVE  e \in B /\ e \in R
    <3>1. ~(i \in lower /\ j \in lower) /\ ~(i \in upper /\ j \in upper)
      BY <1>3, <1>4, <2>1
    <3> QED BY <1>3, <1>4, <1>5, <2>1, <3>1
  <2>2. ASSUME e \in B, e \in R
        PROVE  \E i, j \in DOMAIN q : i # j /\ q[i] = e /\ q[j] = e
    <3>1. PICK i \in lower : q[i] = e
      BY <1>3, <1>10, <2>2
    <3>2. PICK j \in upper : q[j] = e
      BY <1>4, <1>10, <2>2
    <3>3. i < j /\ i \in Nat /\ j \in Nat /\ i \in DOMAIN q /\ j \in DOMAIN q
      BY <1>1, <1>5
    <3> QED BY <3>1, <3>2, <3>3
  <2> QED BY <2>1, <2>2
<1> QED BY <1>1, <1>7, <1>8, <1>9, <1>10

\* What FactsAt reads at grid time t from a deque of carried trades B and others R.
ReadAt(q, B, R, s, t, m) ==
    /\ B \cup R = Met(s, t)
    /\ Abut(B, R)
    /\ \A e \in Met(s, t) : e \in B /\ e \in R <=> t > request.cut /\ e \in Again
    /\ PartedDeque(q, B, R, m)

LEMMA TrailingIsExact ==
    ASSUME NEW s \in Targets, NEW t \in Nat, NEW q, NEW m \in Int, NEW w \in TrailingWidths,
           NEW B, NEW R, Timed(events), ReadAt(q, B, R, s, t, m), m <= t - Lookback,
           DueCutoff(t) # Absent
    PROVE  IsWindowFact(FactsAt(q, t, DueCutoff(t)).trailing[w],
                        {e \in Causal(s, t) : e.time > t - w}, t)
<1> DEFINE P == {i \in DOMAIN q : /\ q[i].block <= DueCutoff(t) /\ q[i].time <= t
                                  /\ q[i].time > t - w}
           due == {e \in Causal(s, t) : e.time > t - w}
           fact == FactsAt(q, t, DueCutoff(t)).trailing[w]
<1>1. fact = Restrict(q, P)
  <2>1. fact = Restrict(q, {i \in {i \in DOMAIN q : /\ q[i].block <= DueCutoff(t)
                                                    /\ q[i].time <= t} :
                               q[i].time > t - w})
    BY DEF FactsAt
  <2>2. P = {i \in {i \in DOMAIN q : q[i].block <= DueCutoff(t) /\ q[i].time <= t} :
                q[i].time > t - w}
    OBVIOUS
  <2> QED BY <2>1, <2>2
<1>2. DOMAIN fact = P /\ \A i \in P : fact[i] = q[i]
  BY <1>1, RestrictProps
<1>3. w \in Nat /\ Lookback \in Nat /\ w <= Lookback
  BY LookbackBounds, GridAssumption
<1>4. Timed(Met(s, t))
  BY DEF Timed, Met
<1>5. /\ \A i \in DOMAIN q : i \in Nat /\ q[i] \in Met(s, t)
      /\ \A e \in Met(s, t) : e.time >= m => \E i \in DOMAIN q : q[i] = e
      /\ \A e \in Met(s, t) : e.time >= m =>
            ((\E i, j \in DOMAIN q : i # j /\ q[i] = e /\ q[j] = e)
                <=> t > request.cut /\ e \in Again)
  <2>1. Timed(B \cup R) /\ PartedDeque(q, B, R, m) /\ Abut(B, R) /\ B \cup R = Met(s, t)
    BY <1>4 DEF ReadAt
  <2>2. /\ \A i \in DOMAIN q : i \in Nat /\ q[i] \in B \cup R
        /\ \A e \in B \cup R : e.time >= m => \E i \in DOMAIN q : q[i] = e
        /\ \A e \in B \cup R : e.time >= m =>
              ((\E i, j \in DOMAIN q : i # j /\ q[i] = e /\ q[j] = e)
                  <=> e \in B /\ e \in R)
    BY <2>1, PartedFacts
  <2>3. \A e \in Met(s, t) : e \in B /\ e \in R <=> t > request.cut /\ e \in Again
    BY DEF ReadAt
  <2> QED BY <2>1, <2>2, <2>3
<1>6. \A i \in P : q[i] \in due
  BY <1>5, CausalIsMet
<1>7. ASSUME NEW e \in due
      PROVE  /\ e \in Met(s, t) /\ e.time >= m
             /\ \A i \in DOMAIN q : q[i] = e => i \in P
  <2>1. e \in Met(s, t) /\ e.time > t - w /\ e.block <= DueCutoff(t) /\ e.time <= t
    BY CausalIsMet DEF Met
  <2>2. e.time \in Nat
    BY <1>4, <2>1 DEF Timed
  <2> QED BY <1>3, <2>1, <2>2
<1> HIDE DEF fact, P, due
<1>8. \A e \in due : \E i \in P : q[i] = e
  BY <1>5, <1>7
<1>9. Values(fact) = due
  BY <1>2, <1>6, <1>8 DEF Values
<1>10. \A e \in due : (\E i, j \in P : i # j /\ q[i] = e /\ q[j] = e)
                          <=> t > request.cut /\ e \in Again
  <2> SUFFICES ASSUME NEW e \in due
               PROVE  (\E i, j \in P : i # j /\ q[i] = e /\ q[j] = e)
                          <=> t > request.cut /\ e \in Again
    OBVIOUS
  <2>1. (\E i, j \in DOMAIN q : i # j /\ q[i] = e /\ q[j] = e)
           <=> t > request.cut /\ e \in Again
    BY <1>5, <1>7
  <2>2. P \subseteq DOMAIN q
    BY DEF P
  <2> QED BY <1>7, <2>1, <2>2
<1>11. Repeated(fact) = {e \in due : t > request.cut /\ e \in Again}
  <2>1. Repeated(fact) = {e \in due : \E i, j \in P : i # j /\ q[i] = e /\ q[j] = e}
    BY <1>2, <1>9 DEF Repeated
  <2> QED BY <1>10, <2>1
<1> QED BY <1>9, <1>11 DEF fact, due, IsWindowFact

LEMMA AsOfIsLatest ==
    ASSUME NEW s \in Targets, NEW t \in Nat, NEW q, NEW m \in Int, NEW o \in AsOfOffsets,
           NEW B, NEW R, Timed(events), ReadAt(q, B, R, s, t, m), m <= t - Lookback
    PROVE  IsLatestFact(FactsAt(q, t, DueCutoff(t)).asOf[o],
                        {e \in Causal(s, t) : e.time <= t - o}, t)
<1> DEFINE P == {i \in DOMAIN q : /\ q[i].block <= DueCutoff(t) /\ q[i].time <= t
                                  /\ q[i].time <= t - o}
           due == {e \in Causal(s, t) : e.time <= t - o}
           fact == FactsAt(q, t, DueCutoff(t)).asOf[o]
<1>1. fact = AsOf(q, P)
  <2>1. fact = AsOf(q, {i \in {i \in DOMAIN q : /\ q[i].block <= DueCutoff(t)
                                                /\ q[i].time <= t} :
                           q[i].time <= t - o})
    BY DEF FactsAt
  <2>2. P = {i \in {i \in DOMAIN q : q[i].block <= DueCutoff(t) /\ q[i].time <= t} :
                q[i].time <= t - o}
    OBVIOUS
  <2> QED BY <2>1, <2>2
<1>2. o \in Int /\ Lookback \in Nat
  BY LookbackBounds, GridAssumption
<1>3. Timed(due) /\ (\A e \in due : e.time <= t) /\ due \subseteq Met(s, t)
  BY DEF Timed, Causal, Met
<1>4. /\ \A i \in DOMAIN q : i \in Nat /\ q[i] \in Met(s, t)
      /\ \A e \in Met(s, t) : e.time >= m => \E i \in DOMAIN q : q[i] = e
      /\ \A i \in DOMAIN q, e \in Met(s, t) :
            e.time > q[i].time => \E j \in DOMAIN q : q[j] = e
      /\ \A i \in DOMAIN q, e \in Met(s, t) :
            e.time = q[i].time /\ e.time >= m /\ e.block < q[i].block
               => \E j \in DOMAIN q : j <= i /\ q[j] = e
  <2>1. /\ Timed(B \cup R) /\ PartedDeque(q, B, R, m) /\ Abut(B, R)
        /\ B \cup R = Met(s, t)
    BY DEF ReadAt, Timed, Met
  <2> QED BY <2>1, PartedFacts
<1>5. P \subseteq Nat /\ P \subseteq DOMAIN q /\ \A i \in P : q[i] \in due
  BY <1>4, CausalIsMet
<1>6. ASSUME NEW e \in due
      PROVE  /\ e \in Met(s, t)
             /\ \A i \in DOMAIN q : q[i] = e => i \in P
  BY CausalIsMet DEF Met
<1>7. due # {} => LatestOf(due) # {}
  BY <1>3, LatestExists
<1>8. /\ \A e \in due : e.time >= m => \E i \in P : q[i] = e
      /\ \A i \in P, e \in due : e.time > q[i].time => \E j \in P : q[j] = e
  BY <1>4, <1>5, <1>6
<1> HIDE DEF fact, P, due
<1>9. CASE P = {}
  <2>1. fact = None
    BY <1>1, <1>9 DEF AsOf
  <2>2. ASSUME due # {} PROVE \E e \in LatestOf(due) : e.time < t - Lookback
    <3>1. PICK e \in LatestOf(due) : TRUE
      BY <1>7, <2>2
    <3>2. e \in due /\ e.time \in Nat
      BY <1>3 DEF LatestOf, Timed
    <3>3. ~(e.time >= m)
      BY <1>8, <1>9, <3>2
    <3> QED BY <1>2, <3>1, <3>2, <3>3
  <2> QED BY <2>1, <2>2 DEF fact, due, IsLatestFact
<1>10. CASE P # {}
  <2> DEFINE best == Preferred(q, P)
             k == Min(best)
  <2>1. k \in best /\ \A i \in best : k <= i
    BY <1>3, <1>5, <1>10, PreferredExists DEF Timed
  <2> HIDE DEF k
  <2>2. k \in P /\ \A i \in P : q[i].time <= q[k].time
    BY <2>1 DEF Preferred
  <2>3. fact = q[k] /\ fact \in due
    BY <1>1, <1>5, <1>10, <2>2 DEF AsOf, k
  <2>4. PICK e \in LatestOf(due) : TRUE
    BY <1>7, <2>3
  <2>5. /\ e \in due
        /\ \A x \in due : x.time < e.time \/ (x.time = e.time /\ x.block >= e.block)
    BY DEF LatestOf
  <2>6. /\ e.time \in Nat /\ e.block \in Nat
        /\ \A x \in due : x.time \in Nat /\ x.block \in Nat
    BY <1>3, <2>5 DEF Timed
  <2>7. fact.time = e.time
    <3>1. fact.time <= e.time
      BY <2>3, <2>5, <2>6
    <3>2. ASSUME e.time > fact.time PROVE FALSE
      <4>1. PICK j \in P : q[j] = e
        BY <1>8, <2>2, <2>3, <2>5, <3>2
      <4>2. e.time <= fact.time
        BY <2>2, <2>3, <4>1
      <4> QED BY <2>3, <2>6, <3>2, <4>2
    <3> QED BY <2>3, <2>6, <3>1, <3>2
  <2>8. CASE e.time < t - Lookback
    BY <2>3, <2>7, <2>8 DEF fact, due, IsLatestFact
  <2>9. CASE ~(e.time < t - Lookback)
    <3>1. e.time >= m
      BY <1>2, <2>6, <2>9
    <3>2. ASSUME e.block < fact.block PROVE FALSE
      <4>1. PICK j \in DOMAIN q : j <= k /\ q[j] = e
        BY <1>4, <1>5, <1>6, <2>2, <2>3, <2>5, <2>7, <3>1, <3>2
      <4>2. j \in P
        BY <1>6, <2>5, <4>1
      <4>3. j \in best
        BY <2>2, <2>3, <2>7, <4>1, <4>2 DEF Preferred
      <4>4. k <= j /\ j <= k /\ j \in Nat /\ k \in Nat
        BY <1>5, <2>1, <2>2, <4>1, <4>2, <4>3
      <4>5. e = fact
        BY <2>3, <4>1, <4>4
      <4> QED BY <2>6, <3>2, <4>5
    <3>4. fact.block <= e.block
      BY <2>3, <2>6, <3>2
    <3>5. \A x \in due : x.time < fact.time \/ (x.time = fact.time /\ x.block >= fact.block)
      <4> SUFFICES ASSUME NEW x \in due
                   PROVE  x.time < fact.time \/ (x.time = fact.time /\ x.block >= fact.block)
        OBVIOUS
      <4>1. x.time < e.time \/ (x.time = e.time /\ x.block >= e.block)
        BY <2>5
      <4>2. x.block \in Nat /\ fact.block \in Nat
        BY <2>3, <2>6
      <4> QED BY <2>6, <2>7, <3>4, <4>1, <4>2
    <3>6. fact \in LatestOf(due)
      BY <2>3, <3>5 DEF LatestOf
    <3> QED BY <3>6 DEF fact, due, IsLatestFact
  <2> QED BY <2>8, <2>9
<1> QED BY <1>9, <1>10

LEMMA EventsAreTimed == GridTypeOK => Timed(events)
BY GridAssumption DEF GridTypeOK, Timed

\* When a row is due, its events are behind the carry or read: both only if the
\* files hold again what the carry stands for.
LEMMA ObservedWhenDue ==
    ASSUME NEW t \in Nat, GridTypeOK, pass \in {"first", "second"}, t \in GridOf(pass),
           Observed = {e \in Inputs : e.time <= t}
    PROVE  /\ Behind \cup Observed = {e \in events : e.time <= t}
           /\ Abut(Behind, Observed)
           /\ \A e : e \in Behind /\ e \in Observed <=> t > request.cut /\ e \in Again
           /\ Rewinds(t) <=> \E r \in OfSegment(Observed, Segment(t)),
                                b \in OfSegment(Behind, Segment(t)) : Earlier(r, b)
<1>1. /\ request.cut \in Nat /\ request.carried \in BOOLEAN /\ request.from \in Nat
      /\ request.from <= request.cut + 1 /\ (~request.carried => request.from = 0)
      /\ request.gridEnd \in Nat /\ request.gridStart \in Nat
  BY RequestAssumption DEF GridTypeOK
<1>2. \A e \in events : e.time \in Nat /\ e.block \in Nat
  BY EventsAreTimed DEF Timed
<1>3. CASE ~Carried
  <2>1. Behind = {} /\ Inputs = events
    BY <1>1, <1>2, <1>3 DEF Behind, Inputs, Carried
  <2>2. ~(t > request.cut /\ Again # {})
    <3>1. CASE pass = "first"
      BY <1>1, <3>1 DEF GridOf
    <3>2. CASE pass = "second"
      BY <1>3, <3>2 DEF Carried, Again
    <3> QED BY <3>1, <3>2
  <2>3. ~Rewinds(t)
    BY <2>2 DEF Rewinds
  <2> QED BY <2>1, <2>2, <2>3 DEF Abut, OfSegment
<1>4. CASE Carried
  <2>1. pass = "second" /\ request.carried /\ Behind = Past
    BY <1>4 DEF Carried, Behind
  <2>2. t > request.cut
    BY <1>1, <2>1 DEF GridOf
  <2>3. Observed = {e \in events : e.time >= request.from /\ e.time <= t}
    BY <2>1 DEF Inputs
  <2>4. \A e : e \in Past /\ e \in Observed <=> e \in Again
    BY <1>1, <1>2, <2>1, <2>2, <2>3 DEF Past, Again
  <2>5. Past \cup Observed = {e \in events : e.time <= t}
    BY <1>1, <1>2, <2>2, <2>3 DEF Past
  <2>6. ASSUME NEW b \in Past, NEW r \in Observed, r.time <= b.time
        PROVE  r \in Again /\ b \in Observed /\ r \in Past
    BY <1>1, <1>2, <2>1, <2>2, <2>3, <2>6 DEF Past, Again
  <2>7. Abut(Behind, Observed)
    BY <2>1, <2>6 DEF Abut
  <2>8. ASSUME NEW r \in OfSegment(Observed, Segment(t)),
               NEW b \in OfSegment(Past, Segment(t)), Earlier(r, b)
        PROVE  Rewinds(t)
    <3>1. /\ r \in Observed /\ b \in Past
          /\ Segment(r.time) = Segment(t) /\ Segment(b.time) = Segment(t)
      BY DEF OfSegment
    <3>2. r.time <= b.time
      BY <1>2, <2>3, <2>8, <3>1 DEF Earlier, Past
    <3>3. r \in Again
      BY <2>6, <3>1, <3>2
    <3> QED BY <2>2, <2>8, <3>1, <3>3 DEF Rewinds
  <2>9. ASSUME Rewinds(t)
        PROVE  \E r \in OfSegment(Observed, Segment(t)),
                  b \in OfSegment(Past, Segment(t)) : Earlier(r, b)
    <3>1. PICK a \in Again, b \in Past :
             Segment(a.time) = Segment(t) /\ Segment(b.time) = Segment(t) /\ Earlier(a, b)
      BY <2>9 DEF Rewinds
    <3>2. a \in OfSegment(Observed, Segment(t)) /\ b \in OfSegment(Past, Segment(t))
      BY <2>4, <3>1 DEF OfSegment
    <3> QED BY <3>1, <3>2
  <2> QED BY <2>1, <2>2, <2>4, <2>5, <2>7, <2>8, <2>9
<1> QED BY <1>3, <1>4

LEMMA RowOfSummaries ==
    ASSUME NEW t \in Nat, GridTypeOK, pass \in {"first", "second"}, t \in GridOf(pass),
           WatermarkInv, watermark <= t - Lookback,
           IndexOf(frontiers, Behind, Observed),
           WindowOf(rolling, Behind, Observed, watermark),
           Observed = {e \in Inputs : e.time <= t}
    PROVE  RowIsExact(RowAt(t))
<1> DEFINE row == RowAt(t)
<1>1. /\ Behind \cup Observed = {e \in events : e.time <= t}
      /\ Abut(Behind, Observed)
      /\ \A e : e \in Behind /\ e \in Observed <=> t > request.cut /\ e \in Again
      /\ Rewinds(t) <=> \E r \in OfSegment(Observed, Segment(t)),
                           b \in OfSegment(Behind, Segment(t)) : Earlier(r, b)
  BY ObservedWhenDue
<1>2. Timed(events)
  BY EventsAreTimed
<1>3. Cutoff(t) = DueCutoff(t)
  <2> DEFINE g == Segment(t)
             B == OfSegment(Behind, g)
             R == OfSegment(Observed, g)
  <2>1. g \in Segments
    BY SegmentType DEF GridTypeOK
  <2>2. B \cup R = Seen(t)
    BY <1>1 DEF OfSegment, Seen
  <2>3. Timed(Seen(t))
    BY <1>2 DEF Timed, Seen
  <2>4. frontiers[g] \in Frontier /\ Summarises(frontiers[g], B, R)
    BY <2>1 DEF IndexOf
  <2>5. (\E r \in R, b \in B : Earlier(r, b)) <=> Rewinds(t)
    BY <1>1
  <2> HIDE DEF B, R
  <2> QED BY <2>2, <2>3, <2>4, <2>5, SummaryGivesCutoff DEF Cutoff
<1>4. row.time = t /\ row.cutoff = DueCutoff(t)
  BY <1>3 DEF RowAt
<1>5. ASSUME NEW s \in Targets
      PROVE  ReadAt(rolling[s], TradesOf(Behind, s), TradesOf(Observed, s), s, t, watermark)
  <2> DEFINE B == TradesOf(Behind, s)
             R == TradesOf(Observed, s)
  <2>1. B \cup R = Met(s, t)
    BY <1>1 DEF TradesOf, Met
  <2>2. Abut(B, R)
    BY <1>1 DEF TradesOf, Abut
  <2>3. \A e \in Met(s, t) : e \in B /\ e \in R <=> t > request.cut /\ e \in Again
    BY <1>1 DEF TradesOf, Met
  <2>4. PartedDeque(rolling[s], B, R, watermark)
    BY DEF WindowOf
  <2> QED BY <2>1, <2>2, <2>3, <2>4 DEF ReadAt
<1>6. \A s \in Targets :
         row.facts[s] = IF DueCutoff(t) = Absent THEN Unavailable
                        ELSE FactsAt(rolling[s], t, DueCutoff(t))
  BY <1>3 DEF RowAt
<1>7. watermark \in Int
  BY DEF WatermarkInv
<1> HIDE DEF row
<1>8. ASSUME NEW s \in Targets, NEW w \in TrailingWidths
      PROVE  IsWindowFact(row.facts[s].trailing[w], {e \in Causal(s, t) : e.time > t - w}, t)
  <2>1. CASE DueCutoff(t) = Absent
    BY <1>6, <2>1 DEF Unavailable, IsWindowFact
  <2>2. CASE DueCutoff(t) # Absent
    <3>1. row.facts[s] = FactsAt(rolling[s], t, DueCutoff(t))
      BY <1>6, <2>2
    <3>2. ReadAt(rolling[s], TradesOf(Behind, s), TradesOf(Observed, s), s, t, watermark)
      BY <1>5
    <3> QED BY <1>2, <1>7, <2>2, <3>1, <3>2, TrailingIsExact
  <2> QED BY <2>1, <2>2
<1>9. ASSUME NEW s \in Targets, NEW o \in AsOfOffsets
      PROVE  IsLatestFact(row.facts[s].asOf[o], {e \in Causal(s, t) : e.time <= t - o}, t)
  <2>1. CASE DueCutoff(t) = Absent
    <3>1. row.facts[s].asOf[o] = None
      BY <1>6, <2>1 DEF Unavailable
    <3>2. Causal(s, t) = {}
      BY <1>2, <2>1 DEF Causal, Timed, Absent
    <3> QED BY <3>1, <3>2 DEF IsLatestFact
  <2>2. CASE DueCutoff(t) # Absent
    <3>1. row.facts[s] = FactsAt(rolling[s], t, DueCutoff(t))
      BY <1>6, <2>2
    <3>2. ReadAt(rolling[s], TradesOf(Behind, s), TradesOf(Observed, s), s, t, watermark)
      BY <1>5
    <3> QED BY <1>2, <1>7, <3>1, <3>2, AsOfIsLatest
  <2> QED BY <2>1, <2>2
<1>10. RowIsExact(row)
  BY <1>4, <1>8, <1>9, Zenon DEF RowIsExact
<1> QED BY <1>10 DEF row

-----------------------------------------------------------------------------
(* Partitions *)

LEMMA MaxOfTwo ==
    ASSUME NEW a \in Int, NEW b \in Int
    PROVE  /\ Max({a, b}) = IF a <= b THEN b ELSE a
           /\ Min({a, b}) = IF a <= b THEN a ELSE b
<1>1. Max({a, b}) \in {a, b} /\ \A x \in {a, b} : Max({a, b}) >= x
  <2>1. \E m \in {a, b} : \A x \in {a, b} : m >= x
    OBVIOUS
  <2> QED BY <2>1 DEF Max
<1>2. Min({a, b}) \in {a, b} /\ \A x \in {a, b} : Min({a, b}) =< x
  <2>1. \E m \in {a, b} : \A x \in {a, b} : m =< x
    OBVIOUS
  <2> QED BY <2>1 DEF Min
<1>3. Max({a, b}) = IF a <= b THEN b ELSE a
  BY <1>1
<1>4. Min({a, b}) = IF a <= b THEN a ELSE b
  BY <1>2
<1> QED BY <1>3, <1>4

LEMMA PartitionFacts ==
    ASSUME GridTypeOK, pass # "done"
    PROVE  /\ EmitStart \in Nat /\ EmitEnd \in Nat /\ EmitStart <= EmitEnd
           /\ ScanStart \in Int /\ ScanStart = EmitStart - Lookback
           /\ GridTimes = GridOf(pass)
           /\ \A t \in GridOf(pass) : t \in Nat /\ EmitStart <= t /\ t <= EmitEnd
<1>1. /\ request.gridStart \in Nat /\ request.cut \in Nat /\ request.gridEnd \in Nat
      /\ request.gridStart <= request.cut /\ request.cut < request.gridEnd
  BY RequestAssumption DEF GridTypeOK
<1>2. Lookback \in Nat
  BY LookbackBounds
<1>3. CASE pass = "first"
  <2>1. EmitStart = request.gridStart /\ EmitEnd = request.cut
    BY <1>3 DEF EmitStart, EmitEnd
  <2>2. /\ Max({request.gridStart, EmitStart}) = request.gridStart
        /\ Min({request.gridEnd, EmitEnd}) = request.cut
    <3>1. Max({request.gridStart, request.gridStart}) = request.gridStart
      BY <1>1, MaxOfTwo
    <3>2. Min({request.gridEnd, request.cut}) = request.cut
      <4>1. ~(request.gridEnd <= request.cut)
        BY <1>1
      <4> QED BY <1>1, <4>1, MaxOfTwo
    <3> QED BY <2>1, <3>1, <3>2
  <2>3. GridTimes = GridOf(pass)
    BY <1>3, <2>2 DEF GridTimes, GridOf
  <2> QED BY <1>1, <1>2, <1>3, <2>1, <2>3 DEF ScanStart, GridOf
<1>4. CASE pass = "second"
  <2>1. EmitStart = request.cut + 1 /\ EmitEnd = request.gridEnd
    BY <1>4 DEF EmitStart, EmitEnd
  <2>2. /\ Max({request.gridStart, EmitStart}) = request.cut + 1
        /\ Min({request.gridEnd, EmitEnd}) = request.gridEnd
    <3>1. Max({request.gridStart, request.cut + 1}) = request.cut + 1
      <4>1. request.gridStart <= request.cut + 1 /\ request.cut + 1 \in Int
        BY <1>1
      <4> QED BY <1>1, <4>1, MaxOfTwo
    <3>2. Min({request.gridEnd, request.gridEnd}) = request.gridEnd
      BY <1>1, MaxOfTwo
    <3> QED BY <2>1, <3>1, <3>2
  <2>3. GridTimes = GridOf(pass)
    BY <1>4, <2>2 DEF GridTimes, GridOf
  <2> QED BY <1>1, <1>2, <1>4, <2>1, <2>3 DEF ScanStart, GridOf
<1> QED BY <1>3, <1>4 DEF GridTypeOK

\* While events up to some time are unread, one of them is next.
LEMMA NextExists ==
    ASSUME Timed(unread), NEW x \in unread, x.time <= EmitEnd, EmitEnd \in Nat
    PROVE  \E e \in unread : IsNext(e) /\ e.time <= x.time
<1> DEFINE Times == {e.time : e \in unread}
<1>1. \E m \in Times : \A n \in Times : m <= n
  <2>1. Times \subseteq Nat /\ Times # {}
    BY DEF Timed
  <2> HIDE DEF Times
  <2> QED BY <2>1, LeastElement
<1>2. PICK a \in unread : \A e \in unread : a.time <= e.time
  BY <1>1
<1> DEFINE Blocks == {e.block : e \in {f \in unread : f.time = a.time}}
<1>3. \E m \in Blocks : \A n \in Blocks : m <= n
  <2>1. Blocks \subseteq Nat /\ Blocks # {}
    BY DEF Timed
  <2> HIDE DEF Blocks
  <2> QED BY <2>1, LeastElement
<1>4. PICK e \in unread : e.time = a.time /\ \A f \in unread : f.time = a.time => e.block <= f.block
  BY <1>3
<1>5. \A f \in unread : ~Earlier(f, e)
  <2> SUFFICES ASSUME NEW f \in unread PROVE ~Earlier(f, e)
    OBVIOUS
  <2>1. f.time \in Nat /\ f.block \in Nat /\ e.time \in Nat /\ e.block \in Nat
    BY DEF Timed
  <2> QED BY <1>2, <1>4, <2>1 DEF Earlier
<1>6. e.time <= x.time /\ e.time <= EmitEnd
  <2>1. e.time \in Nat /\ x.time \in Nat
    BY DEF Timed
  <2> QED BY <1>2, <1>4, <2>1
<1> QED BY <1>5, <1>6 DEF IsNext

-----------------------------------------------------------------------------
(* What the events and the request alone decide does not change *)

LEMMA RowsStayExact ==
    ASSUME request' = request, events' = events, NEW row
    PROVE  RowIsExact(row)' <=> RowIsExact(row)
<1>1. \A t : Seen(t)' = Seen(t)
  BY DEF Seen, Segment, Day
<1>2. \A t : FrozenCutoff(t)' = FrozenCutoff(t)
  BY <1>1 DEF FrozenCutoff
<1>3. Past' = Past /\ Again' = Again
  BY DEF Past, Again
<1>4. \A t : Segment(t)' = Segment(t)
  BY DEF Segment, Day
<1>5. \A t : Rewinds(t)' <=> Rewinds(t)
  BY <1>3, <1>4 DEF Rewinds
<1>6. \A t : DueCutoff(t)' = DueCutoff(t)
  BY <1>2, <1>5 DEF DueCutoff
<1>7. \A s, t : Causal(s, t)' = Causal(s, t)
  BY <1>6 DEF Causal
<1>8. ASSUME NEW s, NEW w
      PROVE  IsWindowFact(row.facts[s].trailing[w],
                          {e \in Causal(s, row.time) : e.time > row.time - w}, row.time)'
             <=> IsWindowFact(row.facts[s].trailing[w],
                              {e \in Causal(s, row.time) : e.time > row.time - w}, row.time)
  <2> DEFINE due == {e \in Causal(s, row.time) : e.time > row.time - w}
             twice == {e \in due : row.time > request.cut /\ e \in Again}
  <2>1. due' = due
    BY <1>7
  <2>2. twice' = twice
    BY <1>3, <2>1
  <2> QED BY <1>6, <2>1, <2>2, Zenon DEF IsWindowFact
<1>9. ASSUME NEW s, NEW o
      PROVE  IsLatestFact(row.facts[s].asOf[o],
                          {e \in Causal(s, row.time) : e.time <= row.time - o}, row.time)'
             <=> IsLatestFact(row.facts[s].asOf[o],
                              {e \in Causal(s, row.time) : e.time <= row.time - o}, row.time)
  BY <1>7
<1>10. (row.cutoff = DueCutoff(row.time))' <=> row.cutoff = DueCutoff(row.time)
  BY <1>6
<1> QED BY <1>8, <1>9, <1>10, Zenon DEF RowIsExact

LEMMA IndexStays ==
    ASSUME request' = request, NEW index, NEW B, NEW R
    PROVE  IndexOf(index, B, R)' <=> IndexOf(index, B, R)
BY DEF IndexOf, Segments, OfSegment, Segment, Day

LEMMA AppendProps ==
    ASSUME NEW s, s \in Seq(ToSet(s)), NEW x
    PROVE  /\ Append(s, x) \in Seq(ToSet(Append(s, x)))
           /\ Len(s) \in Nat /\ DOMAIN s = 1 .. Len(s)
           /\ DOMAIN Append(s, x) = 1 .. Len(s) + 1
           /\ \A i \in 1 .. Len(s) : Append(s, x)[i] = s[i]
           /\ Append(s, x)[Len(s) + 1] = x
<1> DEFINE R == ToSet(s) \cup {x}
<1>1. s \in Seq(R)
  BY DEF ToSet
<1>2. /\ Append(s, x) \in Seq(R)
      /\ Len(s) \in Nat /\ DOMAIN s = 1 .. Len(s)
      /\ DOMAIN Append(s, x) = 1 .. Len(s) + 1
      /\ \A i \in 1 .. Len(s) : Append(s, x)[i] = s[i]
      /\ Append(s, x)[Len(s) + 1] = x
  <2> HIDE DEF R
  <2>1. x \in R
    BY DEF R
  <2> QED BY <1>1, <2>1
<1>3. ToSet(Append(s, x)) = R
  BY <1>2 DEF ToSet
<1> QED BY <1>2, <1>3

LEMMA CarryStays ==
    ASSUME CarryInv, UNCHANGED <<request, events, pass, carry>>
    PROVE  CarryInv'
<1> SUFFICES ASSUME pass = "second"
             PROVE  /\ IndexOf(carry.frontiers, Past, {})'
                    /\ DOMAIN carry.trades = Targets
                    /\ \A s \in Targets :
                          DequeOf(carry.trades[s], TradesOf(Past, s), request.cut - Lookback)'
  BY DEF CarryInv
<1>1. Past' = Past
  BY DEF Past
<1>2. /\ IndexOf(carry.frontiers, Past, {}) /\ DOMAIN carry.trades = Targets
      /\ \A s \in Targets :
            DequeOf(carry.trades[s], TradesOf(Past, s), request.cut - Lookback)
  BY DEF CarryInv
<1>3. IndexOf(carry.frontiers, Past, {})'
  BY <1>1, <1>2, IndexStays
<1> QED BY <1>1, <1>2, <1>3

LEMMA RowsStay ==
    ASSUME RowsInv, UNCHANGED <<request, events, rows>>
    PROVE  RowsInv'
BY RowsStayExact DEF RowsInv

-----------------------------------------------------------------------------
(* The invariant holds initially and at every step *)

LEMMA EmptySummary ==
    ASSUME request \in Requests
    PROVE  /\ IndexOf(EmptyIndex, {}, {})
           /\ \A m \in Int : WindowOf(EmptyWindow, {}, {}, m)
<1>1. FreshFrontier \in Frontier
  BY DEF FreshFrontier, Frontier, Absent
<1>2. \A g : OfSegment({}, g) = {}
  BY DEF OfSegment
<1>3. IndexOf(EmptyIndex, {}, {})
  BY <1>1, <1>2 DEF IndexOf, EmptyIndex, Summarises
<1>4. \A s : TradesOf({}, s) = {}
  BY DEF TradesOf
<1>5. DOMAIN EmptyDeque = {} /\ IsFiniteSet({}) /\ Restrict(EmptyDeque, {}) = EmptyDeque
  BY FS_EmptySet DEF EmptyDeque, Restrict
<1>6. \A m \in Int : PartedDeque(EmptyDeque, {}, {}, m)
  <2> SUFFICES ASSUME NEW m \in Int PROVE PartedDeque(EmptyDeque, {}, {}, m)
    OBVIOUS
  <2>1. DequeOf(Restrict(EmptyDeque, {}), {}, m)
    BY EmptyPart
  <2> HIDE DEF EmptyDeque
  <2>2. /\ {} \in SUBSET DOMAIN EmptyDeque /\ {} \cup {} = DOMAIN EmptyDeque
        /\ DOMAIN EmptyDeque \subseteq Nat /\ IsFiniteSet(DOMAIN EmptyDeque)
    BY <1>5
  <2> QED BY <2>1, <2>2, PartedOfParts
<1> QED BY <1>3, <1>4, <1>6 DEF WindowOf, EmptyWindow

LEMMA GridInit == Init => GridIInv
<1> SUFFICES ASSUME Init PROVE GridIInv
  OBVIOUS
<1>1. GridTypeOK /\ ScanInv /\ CarryInv
  BY DEF Init, GridTypeOK, ScanInv, CarryInv
<1>2. \A p \in {"first", "second"} : rows[p] = <<>>
  BY DEF Init
<1>3. RowsInv /\ EmittedInv
  BY <1>2 DEF RowsInv, EmittedInv, Init, ToSet
<1> QED BY <1>1, <1>3 DEF GridIInv

\* Reading the next event, with whatever watermark its windows are cut at.
LEMMA ReadKeepsInv ==
    ASSUME GridIInv, status = "scan", NEW e \in unread, IsNext(e),
           NEW mark \in Int, mark <= watermark',
           watermark' \in Int, watermark <= watermark',
           watermark' <= EmitEnd - Lookback,
           \A g \in gridTimes : e.time <= g /\ watermark' <= g - Lookback,
           frontiers' = Observe(frontiers, e),
           rolling' = Ingest(rolling, e, mark),
           unread' = unread \ {e},
           UNCHANGED <<request, events, pass, status, gridTimes, rows, carry>>
    PROVE  GridIInv'
<1> USE DEF GridIInv
<1>1. /\ request.overlap >= Lookback /\ StreamInv /\ WatermarkInv /\ pass # "done"
      /\ IndexOf(frontiers, Behind, Observed)
      /\ WindowOf(rolling, Behind, Observed, watermark)
  BY DEF ScanInv
<1>2. Timed(events) /\ request \in Requests
  BY EventsAreTimed DEF GridTypeOK
<1>3. /\ e \in Inputs /\ unread \subseteq Inputs /\ Inputs \subseteq events
      /\ Inputs' = Inputs /\ Behind' = Behind
      /\ EmitEnd' = EmitEnd /\ ScanStart' = ScanStart
  BY <1>1 DEF StreamInv, Inputs, Behind, Carried, Past, EmitEnd, ScanStart, EmitStart
<1>4. Observed' = Observed \cup {e}
  BY <1>3 DEF Observed
<1>5. /\ e \notin Observed
      /\ \A x \in Observed : ~Earlier(e, x)
      /\ Timed(Behind \cup Observed \cup {e})
  BY <1>1, <1>2, <1>3 DEF StreamInv, Observed, Timed, Behind, Past
<1>6. StreamInv'
  BY <1>1, <1>3, <1>4 DEF StreamInv, IsNext
<1>7. WatermarkInv'
  <2>1. ScanStart \in Int /\ ScanStart <= watermark /\ watermark \in Int
    BY <1>1, PartitionFacts DEF WatermarkInv
  <2>2. \A g \in gridTimes : watermark' <= g - Lookback
    OBVIOUS
  <2> QED BY <1>3, <2>1, <2>2 DEF WatermarkInv
<1>8. IndexOf(frontiers, Behind, Observed)'
  <2>1. IndexOf(Observe(frontiers, e), Behind, Observed \cup {e})
    BY <1>1, <1>2, <1>5, ObserveKeepsIndex
  <2>2. \A index, B, R : /\ index = Observe(frontiers, e) /\ B = Behind
                          /\ R = Observed \cup {e}
                         => IndexOf(index, B, R)'
    BY <2>1, IndexStays
  <2> QED BY <1>3, <1>4, <2>2
<1>9. WindowOf(rolling, Behind, Observed, watermark)'
  <2>1. WindowOf(Ingest(rolling, e, mark), Behind, Observed \cup {e}, watermark')
    <3>1. watermark \in Int
      BY <1>1 DEF WatermarkInv
    <3> QED BY <1>1, <1>5, <3>1, IngestKeepsWindow
  <2> QED BY <1>3, <1>4, <2>1
<1>10. ScanInv'
  BY <1>1, <1>6, <1>7, <1>8, <1>9 DEF ScanInv
<1>11. EmittedInv'
  BY DEF EmittedInv, TimesOf, GridOf, OnGrid
<1>12. GridTypeOK'
  BY DEF GridTypeOK
<1> QED BY <1>10, <1>11, <1>12, CarryStays, RowsStay

LEMMA ScanEarlyKeepsInv ==
    ASSUME GridIInv, NEW e \in unread, ScanEarly(e)
    PROVE  GridIInv'
<1> USE DEF GridIInv
<1>1. pass # "done" /\ WatermarkInv /\ StreamInv
  BY DEF ScanInv, ScanEarly
<1>2. /\ ScanStart \in Int /\ EmitStart \in Nat /\ EmitEnd \in Nat
      /\ ScanStart = EmitStart - Lookback /\ EmitStart <= EmitEnd
      /\ \A t \in GridOf(pass) : t \in Nat /\ EmitStart <= t
  BY <1>1, PartitionFacts
<1>3. Lookback \in Nat /\ e.time \in Nat
  BY <1>1, LookbackBounds, EventsAreTimed DEF Timed, StreamInv, Inputs
<1>4. \A g \in gridTimes : g \in GridOf(pass)
  BY DEF EmittedInv, ScanEarly
<1>5. watermark' = watermark
  BY DEF ScanEarly
<1>6. \A g \in gridTimes : e.time <= g /\ watermark' <= g - Lookback
  <2> SUFFICES ASSUME NEW g \in gridTimes PROVE e.time <= g /\ watermark' <= g - Lookback
    OBVIOUS
  <2>1. g \in Nat /\ EmitStart <= g /\ e.time < ScanStart
    BY <1>2, <1>4 DEF ScanEarly
  <2>2. watermark <= g - Lookback
    BY <1>1 DEF WatermarkInv
  <2> QED BY <1>2, <1>3, <1>5, <2>1, <2>2
<1>7. /\ watermark' \in Int /\ watermark <= watermark' /\ ScanStart <= watermark'
      /\ watermark' <= EmitEnd - Lookback
  BY <1>1, <1>5 DEF WatermarkInv
<1> QED BY <1>2, <1>6, <1>7, ReadKeepsInv DEF ScanEarly

LEMMA ScanEventKeepsInv ==
    ASSUME GridIInv, NEW e \in unread, ScanEvent(e)
    PROVE  GridIInv'
<1> USE DEF GridIInv
<1>1. pass # "done" /\ WatermarkInv /\ StreamInv
  BY DEF ScanInv, ScanEvent
<1>2. /\ EmitEnd \in Nat /\ \A t \in GridOf(pass) : t \in Nat
      /\ ScanStart = EmitStart - Lookback /\ EmitStart \in Nat
  BY <1>1, PartitionFacts
<1>3. Lookback \in Nat /\ Timed(events) /\ e.time \in Nat /\ watermark \in Int
  BY <1>1, LookbackBounds, EventsAreTimed DEF Timed, StreamInv, Inputs, WatermarkInv
<1>4. gridTimes \subseteq Nat
  BY <1>2 DEF EmittedInv, ScanEvent
<1>5. \A g \in gridTimes : e.time <= g
  <2> SUFFICES ASSUME NEW g \in gridTimes PROVE e.time <= g
    OBVIOUS
  <2>1. PICK f \in unread : IsNext(f) /\ ~(f.time >= ScanStart /\ GridTime < f.time)
    BY DEF ScanEvent, RowDue
  <2>2. f.time \in Nat /\ f.time = e.time
    <3>1. f.time \in Nat
      BY <1>1, <1>3 DEF StreamInv, Inputs, Timed
    <3>2. ~Earlier(e, f) /\ ~Earlier(f, e)
      BY <2>1 DEF IsNext, ScanEvent
    <3> QED BY <1>3, <3>1, <3>2 DEF Earlier
  <2>3. GridTime \in Nat /\ GridTime <= g
    BY <1>4, MinOfSet DEF GridTime
  <2> QED BY <1>2, <1>3, <1>4, <2>1, <2>2, <2>3 DEF ScanEvent
<1>6. watermark' = NextWatermark(e) /\ e.time <= EmitEnd
  BY DEF ScanEvent, IsNext
<1>7. /\ watermark' \in Int /\ watermark <= watermark'
      /\ watermark' = watermark \/ watermark' = e.time - Lookback
  <2>1. e.time - Lookback \in Int
    BY <1>3
  <2>2. Max({watermark, e.time - Lookback})
           = IF watermark <= e.time - Lookback THEN e.time - Lookback ELSE watermark
    BY <1>3, <2>1, MaxOfTwo
  <2>3. watermark' = IF e.source \in Targets THEN Max({watermark, e.time - Lookback})
                     ELSE watermark
    BY <1>6 DEF NextWatermark
  <2> QED BY <1>3, <2>1, <2>2, <2>3
<1>8. watermark' <= EmitEnd - Lookback
  BY <1>1, <1>2, <1>3, <1>6, <1>7 DEF WatermarkInv
<1>9. \A g \in gridTimes : e.time <= g /\ watermark' <= g - Lookback
  <2> SUFFICES ASSUME NEW g \in gridTimes PROVE watermark' <= g - Lookback
    BY <1>5
  <2>1. watermark <= g - Lookback /\ e.time <= g /\ g \in Nat
    BY <1>1, <1>4, <1>5 DEF WatermarkInv
  <2> QED BY <1>3, <1>7, <2>1
<1> QED BY <1>6, <1>7, <1>8, <1>9, ReadKeepsInv DEF ScanEvent

LEMMA EmitRowKeepsInv ==
    ASSUME GridIInv, EmitRow
    PROVE  GridIInv'
<1> USE DEF GridIInv
<1> DEFINE t == GridTime
<1>1. /\ pass \in {"first", "second"} /\ StreamInv /\ WatermarkInv
      /\ IndexOf(frontiers, Behind, Observed)
      /\ WindowOf(rolling, Behind, Observed, watermark)
  BY DEF ScanInv, EmitRow, GridTypeOK
<1>2. /\ EmitEnd \in Nat /\ ScanStart \in Int
      /\ \A g \in GridOf(pass) : g \in Nat /\ g <= EmitEnd
  BY <1>1, PartitionFacts
<1>3. gridTimes \subseteq GridOf(pass) /\ gridTimes \subseteq Nat /\ gridTimes # {}
  BY <1>2 DEF EmittedInv, EmitRow, RowDue
<1>4. t \in gridTimes /\ t \in Nat /\ \A g \in gridTimes : t <= g
  BY <1>3, MinOfSet DEF GridTime
<1> HIDE DEF t
<1>5. Timed(events) /\ Timed(unread) /\ Timed(Inputs)
  BY <1>1, EventsAreTimed DEF Timed, StreamInv, Inputs
<1>6. \A e \in unread : e.time > t
  <2> SUFFICES ASSUME NEW e \in unread, ~(e.time > t) PROVE FALSE
    OBVIOUS
  <2>1. e.time \in Nat /\ e.time <= t /\ e.time <= EmitEnd
    BY <1>2, <1>3, <1>4, <1>5 DEF Timed
  <2>2. PICK f \in unread : IsNext(f) /\ f.time <= e.time
    BY <1>2, <1>5, <2>1, NextExists
  <2>3. t < f.time /\ f.time \in Nat
    BY <1>5, <2>2 DEF EmitRow, RowDue, Timed, t
  <2> QED BY <1>4, <2>1, <2>2, <2>3
<1>7. Observed = {e \in Inputs : e.time <= t}
  <2>1. \A e \in Observed : e \in Inputs /\ e.time <= t
    BY <1>1, <1>4 DEF StreamInv, Observed
  <2>2. \A e \in Inputs : e.time <= t => e \in Observed
    BY <1>4, <1>5, <1>6 DEF Observed, Timed
  <2> QED BY <2>1, <2>2
<1>8. watermark <= t - Lookback
  BY <1>1, <1>4 DEF WatermarkInv
<1>9. RowIsExact(RowAt(t)) /\ RowAt(t).time = t
  BY <1>1, <1>3, <1>4, <1>7, <1>8, RowOfSummaries DEF RowAt
<1>10. /\ rows' = [rows EXCEPT ![pass] = Append(rows[pass], RowAt(t))]
       /\ gridTimes' = gridTimes \ {t}
       /\ UNCHANGED <<request, events, pass, status, unread, frontiers, rolling, watermark, carry>>
  BY DEF EmitRow, t
<1> DEFINE old == rows[pass]
           new == Append(old, RowAt(t))
<1>11. /\ new \in Seq(ToSet(new))
       /\ Len(old) \in Nat /\ DOMAIN old = 1 .. Len(old)
       /\ DOMAIN new = 1 .. Len(old) + 1
       /\ \A i \in 1 .. Len(old) : new[i] = old[i]
       /\ new[Len(old) + 1] = RowAt(t)
  BY <1>1, AppendProps DEF RowsInv
<1>12. rows'[pass] = new /\ \A p \in {"first", "second"} : p # pass => rows'[p] = rows[p]
  BY <1>1, <1>10 DEF GridTypeOK
<1> HIDE DEF new, old
<1>13. RowsInv'
  <2> SUFFICES ASSUME NEW p \in {"first", "second"}
               PROVE  /\ rows'[p] \in Seq(ToSet(rows'[p]))
                      /\ \A i \in DOMAIN rows'[p] : RowIsExact(rows[p][i])'
    BY DEF RowsInv
  <2>1. CASE p # pass
    BY <1>10, <1>12, <2>1, RowsStayExact DEF RowsInv
  <2>2. CASE p = pass
    <3>1. \A i \in DOMAIN new : RowIsExact(new[i])
      BY <1>1, <1>9, <1>11 DEF RowsInv, old
    <3>2. \A i \in DOMAIN rows'[p] : RowIsExact(rows'[p][i])
      BY <1>12, <2>2, <3>1
    <3>3. \A i \in DOMAIN rows'[p] : RowIsExact(rows[p][i])'
      BY <1>10, <3>2, RowsStayExact
    <3> QED BY <1>11, <1>12, <2>2, <3>3
  <2> QED BY <2>1, <2>2
<1>14. ScanInv'
  <2>1. /\ Observed' = Observed /\ Inputs' = Inputs /\ Behind' = Behind
        /\ EmitEnd' = EmitEnd /\ ScanStart' = ScanStart
    BY <1>10 DEF Observed, Inputs, Behind, Carried, Past, EmitEnd, ScanStart, EmitStart
  <2>2. StreamInv' /\ WatermarkInv'
    BY <1>1, <1>10, <2>1 DEF StreamInv, WatermarkInv
  <2>3. IndexOf(frontiers, Behind, Observed)'
    BY <1>1, <1>10, <2>1, IndexStays
  <2> QED BY <1>1, <1>10, <2>1, <2>2, <2>3 DEF ScanInv
<1>15. EmittedInv'
  <2>1. \A i \in DOMAIN old : old[i].time < t /\ old[i].time \in GridOf(pass)
    BY <1>4 DEF EmittedInv, EmitRow, TimesOf, old
  <2>2. \A i, j \in DOMAIN new : i < j => new[i].time < new[j].time
    <3> SUFFICES ASSUME NEW i \in DOMAIN new, NEW j \in DOMAIN new, i < j
                 PROVE  new[i].time < new[j].time
      OBVIOUS
    <3>1. i \in 1 .. Len(old) /\ j \in 1 .. Len(old) + 1
      BY <1>11
    <3>2. CASE j = Len(old) + 1
      BY <1>9, <1>11, <2>1, <3>1, <3>2
    <3>3. CASE j \in 1 .. Len(old)
      BY <1>1, <1>11, <3>1, <3>3 DEF EmittedInv, old
    <3> QED BY <1>11, <3>1, <3>2, <3>3
  <2>3. {new[i].time : i \in DOMAIN new} = {old[i].time : i \in DOMAIN old} \cup {t}
    <3>1. DOMAIN new = DOMAIN old \cup {Len(old) + 1}
      BY <1>11
    <3> QED BY <1>9, <1>11, <3>1
  <2>4. {old[i].time : i \in DOMAIN old} = GridOf(pass) \ gridTimes
    BY DEF EmittedInv, TimesOf, EmitRow, old
  <2>5. GridOf(pass) \ (gridTimes \ {t}) = (GridOf(pass) \ gridTimes) \cup {t}
    BY <1>3, <1>4
  <2>6. \A i \in DOMAIN new, g \in gridTimes \ {t} : new[i].time < g
    <3> SUFFICES ASSUME NEW i \in DOMAIN new, NEW g \in gridTimes \ {t}
                 PROVE  new[i].time < g
      OBVIOUS
    <3>1. t < g
      BY <1>3, <1>4
    <3>2. CASE i = Len(old) + 1
      BY <1>9, <1>11, <3>1, <3>2
    <3>3. CASE i \in 1 .. Len(old)
      BY <1>11, <3>3 DEF EmittedInv, EmitRow, old
    <3> QED BY <1>11, <3>2, <3>3
  <2>7. \A p : GridOf(p)' = GridOf(p)
    BY <1>10 DEF GridOf, OnGrid
  <2>8. /\ TimesOf(pass)' = {new[i].time : i \in DOMAIN new}
        /\ \A p \in {"first", "second"} : p # pass => TimesOf(p)' = TimesOf(p)
    BY <1>10, <1>12 DEF TimesOf
  <2>9. status = "scan" /\ status' = "scan" /\ pass' = pass /\ pass # "done"
    BY <1>1, <1>10 DEF EmitRow
  <2>10. \A p \in {"first", "second"} :
            \A i, j \in DOMAIN rows'[p] : i < j => rows'[p][i].time < rows'[p][j].time
    BY <1>12, <2>2 DEF EmittedInv
  <2>11. /\ pass' # "first" => TimesOf("first")' = GridOf("first")'
         /\ pass' = "first" => rows'["second"] = <<>>
    BY <1>1, <1>12, <2>7, <2>8, <2>9 DEF EmittedInv
  <2>12. /\ gridTimes' \subseteq GridOf(pass)'
         /\ TimesOf(pass)' = GridOf(pass)' \ gridTimes'
         /\ \A i \in DOMAIN rows'[pass'], g \in gridTimes' : rows'[pass'][i].time < g
    <3>1. GridOf(pass)' = GridOf(pass)
      BY <1>10 DEF GridOf, OnGrid
    <3> QED BY <1>3, <1>10, <1>12, <2>3, <2>4, <2>5, <2>6, <2>8, <2>9, <3>1
  <2> QED BY <2>9, <2>10, <2>11, <2>12 DEF EmittedInv
<1>16. GridTypeOK'
  BY <1>10 DEF GridTypeOK
<1> QED BY <1>10, <1>13, <1>14, <1>15, <1>16, CarryStays

LEMMA FailKeepsInv ==
    ASSUME GridIInv, pass # "done", Fail
    PROVE  GridIInv'
<1> USE DEF GridIInv
<1>1. pass \in {"first", "second"}
  BY DEF GridTypeOK
<1>2. /\ rows'[pass] = <<>> /\ \A p \in {"first", "second"} : p # pass => rows'[p] = rows[p]
      /\ DOMAIN rows' = {"first", "second"}
  BY <1>1 DEF Fail, GridTypeOK
<1>3. GridTypeOK' /\ ScanInv'
  BY <1>2 DEF Fail, GridTypeOK, ScanInv
<1>4. RowsInv'
  <2> SUFFICES ASSUME NEW p \in {"first", "second"}
               PROVE  /\ rows'[p] \in Seq(ToSet(rows'[p]))
                      /\ \A i \in DOMAIN rows'[p] : RowIsExact(rows[p][i])'
    BY DEF RowsInv
  <2>1. CASE p = pass
    <3>1. rows'[p] = <<>>
      BY <1>2, <2>1 DEF Fail
    <3>2. DOMAIN rows'[p] = {} /\ rows'[p] \in Seq(ToSet(rows'[p]))
      BY <3>1
    <3> QED BY <3>2
  <2>2. CASE p # pass
    BY <1>2, <2>2, RowsStayExact DEF RowsInv, Fail
  <2> QED BY <2>1, <2>2
<1>5. EmittedInv'
  <2>1. \A p : GridOf(p)' = GridOf(p)
    BY DEF GridOf, OnGrid, Fail
  <2>2. status' = "failed" /\ pass' = pass
    BY DEF Fail
  <2>3. \A p \in {"first", "second"} : p # pass => TimesOf(p)' = TimesOf(p)
    BY <1>2 DEF TimesOf
  <2> QED BY <1>1, <1>2, <2>1, <2>2, <2>3 DEF EmittedInv
<1> QED BY <1>3, <1>4, <1>5, CarryStays DEF Fail

LEMMA BeginKeepsInv ==
    ASSUME GridIInv, Begin
    PROVE  GridIInv'
<1> USE DEF GridIInv
<1>1. pass \in {"first", "second"} /\ status = "start"
  BY DEF Begin, GridTypeOK
<1>2. /\ EmitStart \in Nat /\ EmitEnd \in Nat /\ EmitStart <= EmitEnd
      /\ ScanStart \in Int /\ ScanStart = EmitStart - Lookback
      /\ GridTimes = GridOf(pass)
      /\ \A t \in GridOf(pass) : t \in Nat /\ EmitStart <= t /\ t <= EmitEnd
  BY <1>1, PartitionFacts DEF Begin
<1>3. Lookback \in Nat /\ Timed(events) /\ request \in Requests
  BY LookbackBounds, EventsAreTimed DEF GridTypeOK
<1>4. request.cut \in Nat /\ request.overlap \in Nat
  BY <1>3, RequestAssumption
<1>5. request.overlap >= Lookback
  BY <1>3, <1>4 DEF Begin, Rejected
<1>6. /\ UNCHANGED <<request, events, pass, rows, carry>> /\ status' = "scan"
      /\ unread' = Inputs /\ gridTimes' = GridTimes /\ watermark' = ScanStart
      /\ EmitStart' = EmitStart /\ EmitEnd' = EmitEnd /\ ScanStart' = ScanStart
      /\ Inputs' = Inputs /\ Behind' = Behind
  BY DEF Begin, EmitStart, EmitEnd, ScanStart, Inputs, Behind, Carried, Past
<1>7. WatermarkInv'
  <2>1. \A g \in gridTimes' : watermark' <= g - Lookback
    BY <1>2, <1>3, <1>6
  <2>2. watermark' <= EmitEnd - Lookback
    BY <1>2, <1>3, <1>6
  <2> QED BY <1>2, <1>6, <2>1, <2>2 DEF WatermarkInv
<1>8. Observed' = {} /\ StreamInv'
  <2>1. Observed' = {}
    BY <1>6 DEF Observed
  <2> QED BY <1>6, <2>1 DEF StreamInv
<1>9. ASSUME Carried
      PROVE  /\ IndexOf(frontiers, Behind, Observed)'
             /\ WindowOf(rolling, Behind, Observed, watermark)'
  <2>1. pass = "second" /\ EmitStart = request.cut + 1 /\ Behind = Past
    BY <1>9 DEF Carried, EmitStart, Behind
  <2>2. /\ IndexOf(carry.frontiers, Past, {})
        /\ \A s \in Targets :
              DequeOf(carry.trades[s], TradesOf(Past, s), request.cut - Lookback)
    BY <2>1 DEF CarryInv
  <2>3. frontiers' = carry.frontiers /\ rolling' = Restored(carry.trades)
    BY <1>9 DEF Begin
  <2>4. IndexOf(frontiers, Behind, Observed)'
    BY <1>6, <1>8, <2>1, <2>2, <2>3, IndexStays
  <2>5. ASSUME NEW s \in Targets
        PROVE  PartedDeque(Restored(carry.trades)[s], TradesOf(Past, s), {}, ScanStart)
    <3> DEFINE q == carry.trades[s]
               S == TradesOf(Past, s)
               D == {i \in DOMAIN q : \E k \in DOMAIN q :
                        k <= i /\ (q[k].time >= ScanStart \/ \A j \in DOMAIN q : j <= k)}
    <3>1. Restored(carry.trades)[s] = Restrict(q, D)
      BY DEF Restored
    <3>2. DequeOf(q, S, request.cut - Lookback)
      BY <2>2
    <3>3. Timed(S)
      BY <1>3 DEF Timed, TradesOf, Past
    <3> HIDE DEF q, S
    <3>4. \A i \in DOMAIN q : i \in Nat /\ q[i] \in S /\ q[i].time \in Nat
      BY <3>2, <3>3 DEF DequeOf, Timed
    <3>5. \A i \in DOMAIN q : q[i].time >= ScanStart => i \in D
      <4> SUFFICES ASSUME NEW i \in DOMAIN q, q[i].time >= ScanStart
                   PROVE  i <= i
        OBVIOUS
      <4> QED BY <3>4
    <3>6. \A i \in D, j \in DOMAIN q : q[j].time > q[i].time => j \in D
      <4> SUFFICES ASSUME NEW i \in D, NEW j \in DOMAIN q, q[j].time > q[i].time
                   PROVE  j \in D
        OBVIOUS
      <4>1. PICK k \in DOMAIN q : /\ k <= i
                                  /\ q[k].time >= ScanStart \/ \A l \in DOMAIN q : l <= k
        OBVIOUS
      <4>2. ~(j < i)
        BY <3>2, <3>4 DEF DequeOf, Earlier
      <4>3. k <= j
        BY <3>4, <4>1, <4>2
      <4> QED BY <4>1, <4>3
    <3>7. D \subseteq DOMAIN q
      OBVIOUS
    <3> HIDE DEF D
    <3>8. DequeOf(Restrict(q, D), S, ScanStart)
      <4>1. request.cut - Lookback \in Int /\ request.cut - Lookback <= ScanStart
        BY <1>2, <1>3, <1>4, <2>1
      <4> QED BY <1>2, <3>2, <3>3, <3>5, <3>6, <3>7, <4>1, RestrictKeepsDeque
    <3> DEFINE r == Restrict(q, D)
    <3>9. DOMAIN r = D /\ Restrict(r, D) = r
      BY RestrictProps, RestrictTwice
    <3>10. D \subseteq Nat /\ IsFiniteSet(D)
      BY <3>8, <3>9 DEF DequeOf
    <3> HIDE DEF r
    <3>11. DequeOf(Restrict(r, D), S, ScanStart) /\ DequeOf(Restrict(r, {}), {}, ScanStart)
      BY <1>2, <3>8, <3>9, EmptyPart DEF r
    <3>12. PartedDeque(r, S, {}, ScanStart)
      <4>1. /\ D \in SUBSET DOMAIN r /\ {} \in SUBSET DOMAIN r /\ D \cup {} = DOMAIN r
            /\ DOMAIN r \subseteq Nat /\ IsFiniteSet(DOMAIN r)
        BY <3>9, <3>10
      <4> QED BY <3>11, <4>1, PartedOfParts
    <3> QED BY <3>1, <3>12 DEF r, S
  <2>6. WindowOf(Restored(carry.trades), Past, {}, ScanStart)
    <3>1. \A s : TradesOf({}, s) = {}
      BY DEF TradesOf
    <3>2. DOMAIN Restored(carry.trades) = Targets
      BY DEF Restored
    <3> QED BY <2>5, <3>1, <3>2 DEF WindowOf
  <2>7. WindowOf(rolling, Behind, Observed, watermark)'
    BY <1>6, <1>8, <2>1, <2>3, <2>6
  <2> QED BY <2>4, <2>7
<1>10. ScanInv'
  <2>1. ASSUME ~Carried
        PROVE  /\ IndexOf(frontiers, Behind, Observed)'
               /\ WindowOf(rolling, Behind, Observed, watermark)'
    <3>1. Behind = {} /\ frontiers' = EmptyIndex /\ rolling' = EmptyWindow
      BY <2>1 DEF Begin, Behind
    <3>2. IndexOf(frontiers, Behind, Observed)'
      BY <1>3, <1>6, <1>8, <3>1, EmptySummary, IndexStays
    <3>3. WindowOf(rolling, Behind, Observed, watermark)'
      BY <1>2, <1>3, <1>6, <1>8, <3>1, EmptySummary
    <3> QED BY <3>2, <3>3
  <2> QED BY <1>1, <1>5, <1>6, <1>7, <1>8, <1>9, <2>1 DEF ScanInv
<1>11. EmittedInv'
  <2>1. \A p : GridOf(p)' = GridOf(p)
    BY <1>6 DEF GridOf, OnGrid
  <2>2. \A p : TimesOf(p)' = TimesOf(p)
    BY <1>6 DEF TimesOf
  <2>3. rows[pass] = <<>>
    BY <1>1 DEF EmittedInv
  <2>4. TimesOf(pass) = {}
    BY <2>3 DEF TimesOf
  <2>5. /\ gridTimes' \subseteq GridOf(pass)'
        /\ TimesOf(pass)' = GridOf(pass)' \ gridTimes'
        /\ \A i \in DOMAIN rows'[pass'], g \in gridTimes' : rows'[pass'][i].time < g
    <3>1. GridOf(pass)' = GridOf(pass) /\ TimesOf(pass)' = TimesOf(pass)
      BY <1>6 DEF GridOf, OnGrid, TimesOf
    <3>2. DOMAIN rows'[pass'] = {}
      BY <1>6, <2>3
    <3> QED BY <1>2, <1>6, <2>4, <3>1, <3>2
  <2> QED BY <1>1, <1>6, <2>1, <2>2, <2>5 DEF EmittedInv
<1>12. GridTypeOK'
  BY <1>6 DEF GridTypeOK
<1> QED BY <1>6, <1>10, <1>11, <1>12, CarryStays, RowsStay

LEMMA FinishKeepsInv ==
    ASSUME GridIInv, Finish
    PROVE  GridIInv'
<1> USE DEF GridIInv
<1>1. /\ pass \in {"first", "second"} /\ StreamInv /\ WatermarkInv
      /\ request.overlap >= Lookback
      /\ IndexOf(frontiers, Behind, Observed)
      /\ WindowOf(rolling, Behind, Observed, watermark)
  BY DEF ScanInv, Finish, GridTypeOK
<1>2. Lookback \in Nat /\ Timed(events) /\ request \in Requests
  BY LookbackBounds, EventsAreTimed DEF GridTypeOK
<1>3. request.cut \in Nat /\ request.overlap \in Nat
  BY <1>2, RequestAssumption
<1>4. /\ status = "scan" /\ gridTimes = {} /\ ~Pending
      /\ UNCHANGED <<request, events, gridTimes, frontiers, rolling, watermark, rows>>
      /\ status' = "start" /\ pass' = IF pass = "first" THEN "second" ELSE "done"
      /\ carry' = [frontiers |-> frontiers, trades |-> CarriedTrades]
  BY DEF Finish
<1>5. GridTypeOK' /\ ScanInv'
  BY <1>1, <1>4 DEF GridTypeOK, ScanInv
<1>6. CarryInv'
  <2> SUFFICES ASSUME pass' = "second" PROVE CarryInv'
    BY DEF CarryInv
  <2> DEFINE mark == request.cut - Lookback
  <2>1. pass = "first" /\ EmitEnd = request.cut /\ Behind = {} /\ Inputs = events
    BY <1>1, <1>4 DEF EmitEnd, Behind, Carried, Inputs
  <2>2. Observed = Past
    <3>1. \A e \in Observed : e \in events /\ e.time <= request.cut
      BY <1>1, <2>1 DEF StreamInv, Observed
    <3>2. \A e \in events : e.time <= request.cut => e \in Observed
      BY <1>4, <2>1 DEF Pending, Observed
    <3> QED BY <3>1, <3>2 DEF Past
  <2>3. ASSUME NEW s \in Targets
        PROVE  DequeOf(CarriedTrades[s], TradesOf(Past, s), mark)
    <3> DEFINE q == rolling[s]
               S == TradesOf(Past, s)
               D == {i \in DOMAIN q : q[i].time >= EmitEnd - request.overlap}
    <3>1. CarriedTrades[s] = Restrict(q, D)
      BY DEF CarriedTrades
    <3>2. PartedDeque(q, {}, S, watermark) /\ Timed(S)
      <4>1. TradesOf(Behind, s) = {} /\ TradesOf(Observed, s) = S
        BY <2>1, <2>2 DEF TradesOf
      <4>2. PartedDeque(q, TradesOf(Behind, s), TradesOf(Observed, s), watermark)
        BY <1>1 DEF WindowOf
      <4>3. Timed(S)
        BY <1>2 DEF Timed, TradesOf, Past
      <4> QED BY <4>1, <4>2, <4>3
    <3> HIDE DEF q, S
    <3>3. \A i \in DOMAIN q : q[i] \in S /\ q[i].time \in Nat
      BY <3>2, PartedValues DEF Timed
    <3> DEFINE u == Restrict(q, DOMAIN q)
    <3>4. DequeOf(u, S, watermark)
      <4>1. PICK lower \in SUBSET DOMAIN q, upper \in SUBSET DOMAIN q :
               /\ lower \cup upper = DOMAIN q
               /\ DequeOf(Restrict(q, lower), {}, watermark)
               /\ DequeOf(Restrict(q, upper), S, watermark)
        BY <3>2 DEF PartedDeque
      <4>2. \A i \in lower : q[i] \in {}
        BY <4>1, RestrictedDeque
      <4>3. upper = DOMAIN q
        BY <4>1, <4>2
      <4> QED BY <4>1, <4>3
    <3>5. DOMAIN u = DOMAIN q /\ \A i \in DOMAIN q : u[i] = q[i]
      BY RestrictProps
    <3>6. Restrict(u, D) = Restrict(q, D)
      BY RestrictTwice
    <3> HIDE DEF u
    <3>7. \A i \in DOMAIN u : u[i].time >= mark => i \in D
      BY <1>1, <1>2, <1>3, <2>1, <3>3, <3>5
    <3>8. \A i \in D, j \in DOMAIN u : u[j].time > u[i].time => j \in D
      BY <1>3, <2>1, <3>3, <3>5
    <3>9. watermark \in Int /\ mark \in Int /\ watermark <= mark /\ D \subseteq DOMAIN u
      BY <1>1, <1>2, <1>3, <2>1, <3>5 DEF WatermarkInv
    <3> HIDE DEF D, mark
    <3>10. DequeOf(Restrict(u, D), S, mark)
      BY <3>2, <3>4, <3>7, <3>8, <3>9, RestrictKeepsDeque
    <3> QED BY <3>1, <3>6, <3>10 DEF S
  <2>4. IndexOf(frontiers, Past, {})
    <3>1. IndexOf(frontiers, {}, Past)
      BY <1>1, <2>1, <2>2
    <3>2. \A g : OfSegment({}, g) = {}
      BY DEF OfSegment
    <3>3. \A f, S : Summarises(f, {}, S) <=> Summarises(f, S, {})
      <4>1. \A S : InStep({}, S) <=> InStep(S, {})
        BY DEF InStep
      <4>2. \A S : {} \cup S = S \cup {}
        OBVIOUS
      <4>3. \A S : (IF S = {} THEN {} ELSE S) = S
        OBVIOUS
      <4> QED BY <4>1, <4>2, <4>3 DEF Summarises
    <3> QED BY <3>1, <3>2, <3>3 DEF IndexOf
  <2>5. /\ carry'.frontiers = frontiers /\ carry'.trades = CarriedTrades
        /\ Past' = Past /\ DOMAIN CarriedTrades = Targets
    BY <1>4 DEF Past, CarriedTrades
  <2>6. IndexOf(carry.frontiers, Past, {})'
    BY <1>4, <2>4, <2>5, IndexStays
  <2>7. \A s \in Targets :
           DequeOf(carry.trades[s], TradesOf(Past, s), request.cut - Lookback)'
    BY <1>4, <2>3, <2>5
  <2> QED BY <2>5, <2>6, <2>7 DEF CarryInv
<1>7. EmittedInv'
  <2>1. TimesOf(pass) = GridOf(pass)
    BY <1>4 DEF EmittedInv
  <2>2. GridOf("first")' = GridOf("first") /\ GridOf("second")' = GridOf("second")
    BY <1>4 DEF GridOf, OnGrid
  <2>3. TimesOf("first")' = TimesOf("first") /\ TimesOf("second")' = TimesOf("second")
    BY <1>4 DEF TimesOf
  <2>4. pass = "first" => rows["second"] = <<>>
    BY DEF EmittedInv
  <2>5. pass = "second" => TimesOf("first") = GridOf("first")
    BY DEF EmittedInv
  <2> QED BY <1>1, <1>4, <2>1, <2>2, <2>3, <2>4, <2>5 DEF EmittedInv
<1> QED BY <1>4, <1>5, <1>6, <1>7, RowsStay

LEMMA GridStutter == GridIInv /\ UNCHANGED vars => GridIInv'
<1> SUFFICES ASSUME GridIInv, UNCHANGED vars PROVE GridIInv'
  OBVIOUS
<1> USE DEF GridIInv, vars
<1>1. GridTypeOK' /\ CarryInv' /\ RowsInv'
  BY CarryStays, RowsStay DEF GridTypeOK
<1>2. EmittedInv'
  BY DEF EmittedInv, TimesOf, GridOf, OnGrid
<1>3. ScanInv'
  <2> SUFFICES ASSUME status = "scan"
               PROVE  /\ request.overlap >= Lookback /\ pass # "done"
                      /\ StreamInv' /\ WatermarkInv'
                      /\ IndexOf(frontiers, Behind, Observed)'
                      /\ WindowOf(rolling, Behind, Observed, watermark)'
    BY DEF ScanInv
  <2>1. /\ Observed' = Observed /\ Inputs' = Inputs /\ Behind' = Behind
        /\ EmitEnd' = EmitEnd /\ ScanStart' = ScanStart
    BY DEF Observed, Inputs, Behind, Carried, Past, EmitEnd, ScanStart, EmitStart
  <2>2. /\ request.overlap >= Lookback /\ pass # "done" /\ StreamInv /\ WatermarkInv
        /\ IndexOf(frontiers, Behind, Observed)
        /\ WindowOf(rolling, Behind, Observed, watermark)
    BY DEF ScanInv
  <2>3. StreamInv' /\ WatermarkInv'
    BY <2>1, <2>2 DEF StreamInv, WatermarkInv
  <2>4. IndexOf(frontiers, Behind, Observed)'
    BY <2>1, <2>2, IndexStays
  <2> QED BY <2>1, <2>2, <2>3, <2>4 DEF ScanInv
<1> QED BY <1>1, <1>2, <1>3

LEMMA GridNext == GridIInv /\ [Next]_vars => GridIInv'
<1> SUFFICES ASSUME GridIInv, [Next]_vars PROVE GridIInv'
  OBVIOUS
<1>1. CASE Reject
  BY <1>1, FailKeepsInv DEF Reject
<1>2. CASE Begin
  BY <1>2, BeginKeepsInv
<1>3. ASSUME NEW e \in unread, ScanEarly(e) PROVE GridIInv'
  BY <1>3, ScanEarlyKeepsInv
<1>4. ASSUME NEW e \in unread, ScanEvent(e) PROVE GridIInv'
  BY <1>4, ScanEventKeepsInv
<1>5. CASE EmitRow
  BY <1>5, EmitRowKeepsInv
<1>6. CASE HitMissingDate
  BY <1>6, FailKeepsInv DEF HitMissingDate, GridIInv, ScanInv
<1>7. CASE Finish
  BY <1>7, FinishKeepsInv
<1>8. CASE UNCHANGED vars
  BY <1>8, GridStutter
<1> QED BY <1>1, <1>2, <1>3, <1>4, <1>5, <1>6, <1>7, <1>8 DEF Next

\* The invariant holds in every state, whatever files the second pass gets beside
\* the carry: what a pass keeps of the events it was carried and has read is enough
\* for the rows still due and for the pass after it (observe, ingest, export_carry
\* and the restoring of an incoming carry).
THEOREM GridInvariant == Spec => []GridIInv
BY GridInit, GridNext, PTL DEF Spec

-----------------------------------------------------------------------------
(* The properties the run checks *)

LEMMA ReturnedRowsAreExact ==
    ASSUME GridIInv, NEW row \in ReturnedRows
    PROVE  RowIsExact(row)
BY DEF GridIInv, RowsInv, ReturnedRows, ToSet

\* Every returned row has the cutoff of the whole history, except that it has none
\* where the files brought an event older than a carried one again (the frontier of
\* two numbers per segment, observe and the carry of export_carry).
THEOREM CutoffTheorem == Spec => []CutoffIsFrozenCutoff
<1>1. GridIInv => CutoffIsFrozenCutoff
  BY ReturnedRowsAreExact DEF CutoffIsFrozenCutoff, RowIsExact
<1> QED BY <1>1, GridInvariant, PTL

\* Every trailing fact of a returned row holds exactly the causal trades of its
\* window, and exactly those twice that the carry and the files both brought
\* (ingest, _evict_before, _trade_carry_rows and facts_at together).
THEOREM TrailingTheorem == Spec => []TrailingFactsAreExact
<1>1. GridIInv => TrailingFactsAreExact
  <2> SUFFICES ASSUME GridIInv, NEW row \in ReturnedRows, NEW s \in Targets,
                      NEW w \in TrailingWidths
               PROVE  IsWindowFact(row.facts[s].trailing[w],
                         {e \in Causal(s, row.time) : e.time > row.time - w}, row.time)
    BY Zenon DEF TrailingFactsAreExact, IsWindowFact
  <2> QED BY ReturnedRowsAreExact DEF RowIsExact
<1> QED BY <1>1, GridInvariant, PTL

\* Every as-of fact of a returned row is the latest causal trade, or that trade
\* is older than the lookback (the scan of facts_at over what is left in the deque).
THEOREM AsOfTheorem == Spec => []AsOfFactsAreLatest
<1>1. GridIInv => AsOfFactsAreLatest
  <2> SUFFICES ASSUME GridIInv, NEW row \in ReturnedRows, NEW s \in Targets,
                      NEW o \in AsOfOffsets
               PROVE  IsLatestFact(row.facts[s].asOf[o],
                         {e \in Causal(s, row.time) : e.time <= row.time - o}, row.time)
    BY Zenon DEF AsOfFactsAreLatest, IsLatestFact
  <2> QED BY ReturnedRowsAreExact DEF RowIsExact
<1> QED BY <1>1, GridInvariant, PTL

\* What both passes emitted, one after the other.
LEMMA Concatenation ==
    ASSUME NEW A, NEW B, NEW s \in Seq(A), NEW t \in Seq(B)
    PROVE  /\ DOMAIN (s \o t) = 1 .. (Len(s) + Len(t))
           /\ \A i \in DOMAIN s : i \in DOMAIN (s \o t) /\ (s \o t)[i] = s[i]
           /\ \A i \in DOMAIN t : /\ i + Len(s) \in DOMAIN (s \o t)
                                  /\ (s \o t)[i + Len(s)] = t[i]
           /\ \A i \in DOMAIN (s \o t) :
                 \/ i \in DOMAIN s
                 \/ i - Len(s) \in DOMAIN t /\ (s \o t)[i] = t[i - Len(s)]
<1>1. /\ s \in Seq(A \cup B) /\ t \in Seq(A \cup B)
      /\ Len(s) \in Nat /\ Len(t) \in Nat
      /\ DOMAIN s = 1 .. Len(s) /\ DOMAIN t = 1 .. Len(t)
  OBVIOUS
<1>2. /\ DOMAIN (s \o t) = 1 .. (Len(s) + Len(t))
      /\ \A i \in 1 .. (Len(s) + Len(t)) :
            (s \o t)[i] = IF i <= Len(s) THEN s[i] ELSE t[i - Len(s)]
  BY <1>1
<1> QED BY <1>1, <1>2

\* Two adjacent passes emit the grid once and in order (_grid_times_for_partition
\* and the emission order of scan).
THEOREM GridCoverTheorem == Spec => []PartitionsCoverGridOnce
<1>1. ASSUME GridIInv, pass = "done"
      PROVE  LET emitted == rows["first"] \o rows["second"]
             IN  /\ {emitted[i].time : i \in DOMAIN emitted}
                      = {t \in request.gridStart .. request.gridEnd : OnGrid(t)}
                 /\ \A i, j \in DOMAIN emitted : i < j => emitted[i].time < emitted[j].time
  <2> DEFINE first == rows["first"]
             second == rows["second"]
             emitted == first \o second
             grid == {t \in request.gridStart .. request.gridEnd : OnGrid(t)}
  <2>1. request.gridStart <= request.cut /\ request.cut < request.gridEnd
    BY <1>1, RequestAssumption DEF GridIInv, GridTypeOK
  <2>2. request.gridStart \in Nat /\ request.cut \in Nat /\ request.gridEnd \in Nat
    BY <1>1, RequestAssumption DEF GridIInv, GridTypeOK
  <2>3. first \in Seq(ToSet(first)) /\ second \in Seq(ToSet(second))
    BY <1>1 DEF GridIInv, RowsInv
  <2>4. {first[i].time : i \in DOMAIN first} = {t \in request.gridStart .. request.cut : OnGrid(t)}
    BY <1>1 DEF GridIInv, EmittedInv, TimesOf, GridOf
  <2>5. {second[i].time : i \in DOMAIN second}
           = {t \in request.cut + 1 .. request.gridEnd : OnGrid(t)}
    BY <1>1 DEF GridIInv, EmittedInv, TimesOf, GridOf
  <2>6. /\ \A i, j \in DOMAIN first : i < j => first[i].time < first[j].time
        /\ \A i, j \in DOMAIN second : i < j => second[i].time < second[j].time
    BY <1>1 DEF GridIInv, EmittedInv
  <2> HIDE DEF first, second
  <2>7. /\ DOMAIN emitted = 1 .. (Len(first) + Len(second))
        /\ \A i \in DOMAIN first : i \in DOMAIN emitted /\ emitted[i] = first[i]
        /\ \A i \in DOMAIN second : /\ i + Len(first) \in DOMAIN emitted
                                    /\ emitted[i + Len(first)] = second[i]
        /\ \A i \in DOMAIN emitted :
              \/ i \in DOMAIN first
              \/ i - Len(first) \in DOMAIN second /\ emitted[i] = second[i - Len(first)]
    BY <2>3, Concatenation
  <2>8. /\ Len(first) \in Nat /\ Len(second) \in Nat
        /\ DOMAIN first = 1 .. Len(first) /\ DOMAIN second = 1 .. Len(second)
    BY <2>3
  <2> HIDE DEF emitted
  <2>9. ASSUME NEW i \in DOMAIN emitted PROVE emitted[i].time \in grid
    <3>1. CASE i \in DOMAIN first
      <4>1. emitted[i] = first[i] /\ first[i].time \in request.gridStart .. request.cut
            /\ OnGrid(first[i].time)
        BY <2>4, <2>7, <3>1
      <4> QED BY <2>1, <2>2, <4>1
    <3>2. CASE i - Len(first) \in DOMAIN second /\ emitted[i] = second[i - Len(first)]
      <4>1. /\ emitted[i].time \in request.cut + 1 .. request.gridEnd
            /\ OnGrid(emitted[i].time)
        BY <2>5, <3>2
      <4> QED BY <2>1, <2>2, <4>1
    <3> QED BY <2>7, <3>1, <3>2
  <2>10. ASSUME NEW t \in grid PROVE \E i \in DOMAIN emitted : emitted[i].time = t
    <3>1. CASE t <= request.cut
      <4>1. PICK i \in DOMAIN first : first[i].time = t
        BY <2>2, <2>4, <3>1
      <4> QED BY <2>7, <4>1
    <3>2. CASE t > request.cut
      <4>1. PICK i \in DOMAIN second : second[i].time = t
        BY <2>2, <2>5, <3>2
      <4> QED BY <2>7, <4>1
    <3> QED BY <2>2, <3>1, <3>2
  <2>11. ASSUME NEW i \in DOMAIN emitted, NEW j \in DOMAIN emitted, i < j
         PROVE  emitted[i].time < emitted[j].time
    <3>1. CASE i \in DOMAIN first /\ j \in DOMAIN first
      BY <2>6, <2>7, <2>11, <3>1
    <3>2. CASE i \in DOMAIN first /\ j - Len(first) \in DOMAIN second
                  /\ emitted[j] = second[j - Len(first)]
      <4>1. emitted[i].time \in request.gridStart .. request.cut
        BY <2>4, <2>7, <3>2
      <4>2. emitted[j].time \in request.cut + 1 .. request.gridEnd
        BY <2>5, <3>2
      <4> QED BY <2>2, <4>1, <4>2
    <3>3. CASE /\ i - Len(first) \in DOMAIN second /\ emitted[i] = second[i - Len(first)]
               /\ j - Len(first) \in DOMAIN second /\ emitted[j] = second[j - Len(first)]
      <4>1. i - Len(first) < j - Len(first)
        BY <2>7, <2>8, <2>11
      <4> QED BY <2>6, <3>3, <4>1
    <3>4. CASE /\ i - Len(first) \in DOMAIN second /\ j \in DOMAIN first
      BY <2>7, <2>8, <2>11, <3>4
    <3> QED BY <2>7, <3>1, <3>2, <3>3, <3>4
  <2>12. {emitted[i].time : i \in DOMAIN emitted} = grid
    BY <2>9, <2>10
  <2> QED BY <2>11, <2>12, Zenon DEF emitted, first, second
<1>2. GridIInv => PartitionsCoverGridOnce
  BY <1>1 DEF PartitionsCoverGridOnce
<1> QED BY <1>2, GridInvariant, PTL
=============================================================================
