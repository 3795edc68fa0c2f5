---------------------------- MODULE SpillSort_proofs ----------------------------
(* Proofs about SpillSort, for every order of the rows, batch, part and       *)
(* fan-in: the rows come out sorted, and each as often as it went in.  The    *)
(* first parts are facts about sequences that other proofs use as well.       *)
EXTENDS SpillSort, FiniteSetTheorems, SequenceTheorems, WellFoundedInduction, TLAPS

-----------------------------------------------------------------------------
(* Induction over an interval, as facts about sets and functions: a set of   *)
(* numbers has a least member.                                               *)

LessThan == {p \in Nat \X Nat : p[1] < p[2]}

LEMMA LeastElement ==
    ASSUME NEW T, T \subseteq Nat, T # {}
    PROVE  \E m \in T : \A n \in T : m <= n
<1>1. IsWellFoundedOn(LessThan, Nat)
  BY NatLessThanWellFounded DEF OpToRel, LessThan
<1>2. PICK m \in T : \A n \in T : <<n, m>> \notin LessThan
  BY <1>1, WFMin
<1>3. ASSUME NEW n \in T PROVE m <= n
  <2>1. m \in Nat /\ n \in Nat
    OBVIOUS
  <2>2. n < m => <<n, m>> \in LessThan
    BY <2>1 DEF LessThan
  <2> QED BY <1>2, <2>1, <2>2
<1> QED BY <1>3

LEMMA SetInduction ==
    ASSUME NEW N \in Nat, NEW G, 0 \in G, \A n \in 1..N : n - 1 \in G => n \in G
    PROVE  \A n \in 0..N : n \in G
<1> DEFINE Bad == {n \in 0..N : n \notin G}
<1> SUFFICES ASSUME Bad # {} PROVE FALSE
  OBVIOUS
<1>1. Bad \subseteq Nat
  OBVIOUS
<1>2. PICK m \in Bad : \A n \in Bad : m <= n
  <2> HIDE DEF Bad
  <2> QED BY <1>1, LeastElement
<1>3. m \in 1..N /\ m - 1 \in 0..N /\ ~(m <= m - 1)
  OBVIOUS
<1>4. m - 1 \in G
  BY <1>2, <1>3
<1> QED BY <1>3, <1>4

\* A step that is repeated N times.
StepsOn(step, N, V) == step \in [1..N -> [V -> V]]
Iterated(f, step, b, N, V) ==
    /\ f \in [0..N -> V] /\ f[0] = b
    /\ \A i \in 1..N : f[i] = step[i][f[i - 1]]

LEMMA Iterates ==
    ASSUME NEW V, NEW N \in Nat, NEW b \in V, NEW step, StepsOn(step, N, V)
    PROVE  \E f : Iterated(f, step, b, N, V)
<1> USE DEF StepsOn
<1> DEFINE Repeated(f, n) == f[0] = b /\ \A i \in 1..n : f[i] = step[i][f[i - 1]]
           G == {n \in 0..N : \E f \in [0..n -> V] : Repeated(f, n)}
<1>1. 0 \in G
  <2> DEFINE g == [i \in 0..0 |-> b]
  <2>1. g \in [0..0 -> V] /\ g[0] = b /\ \A i \in 1..0 : FALSE
    OBVIOUS
  <2> HIDE DEF g
  <2>2. 0 \in 0..N /\ Repeated(g, 0)
    BY <2>1
  <2> QED BY <2>1, <2>2
<1>2. ASSUME NEW n \in 1..N, n - 1 \in G PROVE n \in G
  <2>1. PICK f \in [0 .. n - 1 -> V] : Repeated(f, n - 1)
    BY <1>2
  <2> DEFINE g == [i \in 0..n |-> IF i = n THEN step[n][f[n - 1]] ELSE f[i]]
  <2>2. /\ n \in 0..N /\ n - 1 \in 0 .. n - 1
        /\ \A i \in 0..n : i # n => i \in 0 .. n - 1
        /\ \A i \in 1..n : i - 1 \in 0 .. n - 1 /\ i - 1 # n /\ i \in 0..n /\ i - 1 \in 0..n
        /\ \A i \in 1..n : i # n => i \in 1 .. n - 1
    OBVIOUS
  <2>3. step[n][f[n - 1]] \in V
    BY <2>2
  <2>4. g \in [0..n -> V]
    BY <2>2, <2>3
  <2>5. g[0] = b
    BY <2>1, <2>2
  <2>6. \A i \in 1..n : g[i] = step[i][g[i - 1]]
    <3> TAKE i \in 1..n
    <3>1. g[i - 1] = f[i - 1]
      BY <2>2
    <3>2. CASE i = n
      BY <2>2, <3>1, <3>2
    <3>3. CASE i # n
      <4>1. f[i] = step[i][f[i - 1]]
        BY <2>1, <2>2, <3>3
      <4> QED BY <2>2, <3>1, <3>3, <4>1
    <3> QED BY <3>2, <3>3
  <2> QED BY <2>2, <2>4, <2>5, <2>6
<1> HIDE DEF G
<1>3. \A n \in 0..N : n \in G
  BY <1>1, <1>2, SetInduction
<1>4. N \in G
  BY <1>3
<1> QED BY <1>4 DEF G, Iterated

-----------------------------------------------------------------------------
(* Sequences put one after the other *)

\* What the first sequences give, for every number of them.
Flattens(f, seqs, S) ==
    /\ seqs \in Seq(Seq(S)) /\ f \in [0 .. Len(seqs) -> Seq(S)] /\ f[0] = <<>>
    /\ \A i \in 1 .. Len(seqs) : f[i] = f[i - 1] \o seqs[i]
    /\ FlattenSeq(seqs) = f[Len(seqs)]

LEMMA FlattenUnfolds ==
    ASSUME NEW S, NEW seqs \in Seq(Seq(S))
    PROVE  \E f : Flattens(f, seqs, S)
<1> DEFINE N == Len(seqs)
           Joined(f) == [i \in 1..N |-> IF i = 1 THEN seqs[i] ELSE f[i - 1] \o seqs[i]]
           flatten == CHOOSE f : f = Joined(f)
           V == Seq(S)
           step == [i \in 1..N |-> [v \in V |-> v \o seqs[i]]]
           b == <<>>
<1>1. N \in Nat /\ \A i \in 1..N : seqs[i] \in Seq(S)
  OBVIOUS
<1>2. PICK f : Iterated(f, step, b, N, V)
  <2>1. StepsOn(step, N, V)
    BY <1>1 DEF StepsOn
  <2>2. b \in V
    OBVIOUS
  <2> HIDE DEF step, N, b, V
  <2> QED BY <1>1, <2>1, <2>2, Iterates
<1>3. \A i \in 1..N : f[i] = f[i - 1] \o seqs[i]
  <2> TAKE i \in 1..N
  <2>1. i - 1 \in 0..N
    BY <1>1
  <2>2. f[i] = step[i][f[i - 1]] /\ f[i - 1] \in V
    BY <1>2, <2>1 DEF Iterated
  <2> QED BY <2>2
<1> DEFINE g == [i \in 1..N |-> f[i]]
<1>4. \A i \in 1..N : g[i] = IF i = 1 THEN seqs[i] ELSE g[i - 1] \o seqs[i]
  <2> TAKE i \in 1..N
  <2>1. CASE i = 1
    <3>1. i - 1 = 0
      BY <2>1
    <3>2. f[i] = f[i - 1] \o seqs[i]
      BY <1>3
    <3>3. f[i - 1] = <<>>
      BY <1>2, <3>1 DEF Iterated
    <3>4. <<>> \o seqs[i] = seqs[i]
      BY <1>1, ConcatEmptySeq
    <3> QED BY <2>1, <3>2, <3>3, <3>4
  <2>2. CASE i # 1
    <3>1. i - 1 \in 1..N
      BY <1>1, <2>2
    <3> QED BY <1>3, <2>2, <3>1
  <2> QED BY <2>1, <2>2
<1> HIDE DEF g
<1>5. g = Joined(g)
  <2>1. g = [i \in 1..N |-> g[i]]
    BY DEF g
  <2>2. [i \in 1..N |-> g[i]]
           = [i \in 1..N |-> IF i = 1 THEN seqs[i] ELSE g[i - 1] \o seqs[i]]
    BY <1>4
  <2> QED BY <2>1, <2>2
<1>6. flatten = Joined(flatten)
  <2> HIDE DEF Joined
  <2> QED BY <1>5, Zenon
<1>7. FlattenSeq(seqs) = IF N = 0 THEN seqs ELSE flatten[N]
  BY DEF FlattenSeq
<1> HIDE DEF flatten
<1>8. \A i \in 1..N : flatten[i] = IF i = 1 THEN seqs[i] ELSE flatten[i - 1] \o seqs[i]
  BY <1>6
<1>9. \A i \in 0..N : i # 0 => flatten[i] = f[i]
  <2> DEFINE G == {i \in 0..N : i # 0 => flatten[i] = f[i]}
  <2>1. 0 \in G
    BY <1>1
  <2>2. ASSUME NEW n \in 1..N, n - 1 \in G PROVE n \in G
    <3>1. flatten[n] = IF n = 1 THEN seqs[n] ELSE f[n - 1] \o seqs[n]
      BY <1>8, <2>2
    <3>2. f[n] = IF n = 1 THEN seqs[n] ELSE f[n - 1] \o seqs[n]
      BY <1>4, <1>3 DEF g
    <3>3. n \in 0..N
      OBVIOUS
    <3> QED BY <3>1, <3>2, <3>3
  <2> HIDE DEF G
  <2>3. \A i \in 0..N : i \in G
    BY <1>1, <2>1, <2>2, SetInduction
  <2> QED BY <2>3 DEF G
<1>10. FlattenSeq(seqs) = f[N]
  <2>0. f[0] = <<>>
    BY <1>2 DEF Iterated
  <2>1. CASE N = 0
    <3>1. seqs = <<>>
      BY <2>1
    <3> QED BY <1>7, <2>0, <2>1, <3>1
  <2>2. CASE N # 0
    <3>1. N \in 0..N
      BY <1>1
    <3> QED BY <1>7, <1>9, <2>2, <3>1
  <2> QED BY <2>1, <2>2
<1>11. f \in [0..N -> Seq(S)] /\ f[0] = <<>>
  BY <1>2 DEF Iterated
<1> QED BY <1>3, <1>10, <1>11 DEF Flattens

LEMMA FlattenType ==
    ASSUME NEW S, NEW seqs \in Seq(Seq(S))
    PROVE  FlattenSeq(seqs) \in Seq(S)
<1>1. PICK f : Flattens(f, seqs, S)
  BY FlattenUnfolds
<1> QED BY <1>1 DEF Flattens

LEMMA FlattenEmpty == FlattenSeq(<<>>) = <<>>
BY DEF FlattenSeq

LEMMA FlattenStep ==
    ASSUME NEW S, NEW seqs, NEW f, Flattens(f, seqs, S), NEW n \in 1 .. Len(seqs)
    PROVE  /\ n - 1 \in 0 .. Len(seqs) /\ n \in 0 .. Len(seqs)
           /\ f[n - 1] \in Seq(S) /\ f[n] \in Seq(S) /\ seqs[n] \in Seq(S)
           /\ f[n] = f[n - 1] \o seqs[n]
<1>1. n - 1 \in 0 .. Len(seqs) /\ n \in 0 .. Len(seqs) /\ seqs[n] \in Seq(S)
  BY DEF Flattens
<1> QED BY <1>1 DEF Flattens

\* The first sequences alone give what f says.
BeginAlike(a, b, N) ==
    N \in Nat /\ N <= Len(a) /\ N <= Len(b) /\ \A i \in 1..N : a[i] = b[i]

LEMMA FlattenAgrees ==
    ASSUME NEW S, NEW a, NEW b, NEW f, NEW g, NEW N,
           Flattens(f, a, S), Flattens(g, b, S), BeginAlike(a, b, N)
    PROVE  \A i \in 0..N : f[i] = g[i]
<1>0. /\ N \in Nat /\ N <= Len(a) /\ N <= Len(b) /\ Len(a) \in Nat /\ Len(b) \in Nat
      /\ \A i \in 1..N : a[i] = b[i]
  BY DEF BeginAlike, Flattens
<1> DEFINE G == {i \in 0..N : f[i] = g[i]}
<1>1. 0 \in G
  BY <1>0 DEF Flattens
<1>2. ASSUME NEW n \in 1..N, n - 1 \in G PROVE n \in G
  <2>1. n \in 1 .. Len(a) /\ n \in 1 .. Len(b) /\ n \in 0..N /\ a[n] = b[n]
    BY <1>0
  <2>2. f[n] = f[n - 1] \o a[n] /\ g[n] = g[n - 1] \o b[n]
    BY <2>1 DEF Flattens
  <2> QED BY <1>2, <2>1, <2>2
<1> HIDE DEF G
<1>3. \A i \in 0..N : i \in G
  BY <1>0, <1>1, <1>2, SetInduction
<1> QED BY <1>3 DEF G

LEMMA FlattenAppend ==
    ASSUME NEW S, NEW seqs \in Seq(Seq(S)), NEW s \in Seq(S)
    PROVE  FlattenSeq(Append(seqs, s)) = FlattenSeq(seqs) \o s
<1> DEFINE more == Append(seqs, s)
           N == Len(seqs)
<1>1. /\ N \in Nat /\ more \in Seq(Seq(S)) /\ Len(more) = N + 1
      /\ more[N + 1] = s /\ \A i \in 1..N : seqs[i] = more[i]
  BY AppendProperties
<1> HIDE DEF more, N
<1>0. N = Len(seqs) /\ N <= Len(seqs) /\ N <= Len(more) /\ N + 1 \in 1 .. Len(more)
  BY <1>1 DEF N
<1>2. PICK f : Flattens(f, seqs, S)
  BY FlattenUnfolds
<1>3. PICK g : Flattens(g, more, S)
  BY <1>1, FlattenUnfolds
<1>4. \A i \in 0..N : f[i] = g[i]
  <2>1. BeginAlike(seqs, more, N)
    BY <1>0, <1>1 DEF BeginAlike
  <2> QED BY <1>2, <1>3, <2>1, FlattenAgrees
<1>5. f[N] = g[N] /\ FlattenSeq(seqs) = f[N]
  BY <1>0, <1>1, <1>2, <1>4 DEF Flattens
<1>6. PICK k \in 1 .. Len(more) : k = N + 1
  BY <1>0
<1>7. g[k] = g[k - 1] \o more[k] /\ FlattenSeq(more) = g[Len(more)]
  BY <1>3 DEF Flattens
<1>8. k - 1 = N /\ more[k] = s /\ Len(more) = k
  BY <1>1, <1>6
<1> QED BY <1>0, <1>5, <1>7, <1>8 DEF more

\* Consecutive slices of a sequence, put together again, are the sequence.
SlicedAt(c, s, slices, N) ==
    /\ N \in Nat /\ c \in [0..N -> 0 .. Len(s)] /\ c[0] = 0 /\ c[N] = Len(s)
    /\ Len(slices) = N
    /\ \A w \in 1..N : c[w - 1] <= c[w] /\ slices[w] = SubSeq(s, c[w - 1] + 1, c[w])

LEMMA SlicesFlatten ==
    ASSUME NEW S, NEW s \in Seq(S), NEW slices \in Seq(Seq(S)), NEW N, NEW c,
           SlicedAt(c, s, slices, N)
    PROVE  FlattenSeq(slices) = s
<1>0. /\ N \in Nat /\ c \in [0..N -> 0 .. Len(s)] /\ c[0] = 0 /\ c[N] = Len(s)
      /\ Len(slices) = N
      /\ \A w \in 1..N : c[w - 1] <= c[w] /\ slices[w] = SubSeq(s, c[w - 1] + 1, c[w])
  BY DEF SlicedAt
<1>1. PICK f : Flattens(f, slices, S)
  BY FlattenUnfolds
<1> DEFINE G == {i \in 0..N : f[i] = SubSeq(s, 1, c[i])}
<1>2. 0 \in G
  <2>1. SubSeq(s, 1, 0) = <<>>
    OBVIOUS
  <2> QED BY <1>0, <1>1, <2>1 DEF Flattens
<1>3. ASSUME NEW n \in 1..N, n - 1 \in G PROVE n \in G
  <2> DEFINE a == c[n - 1]
             b == c[n]
  <2>1. n - 1 \in 0..N /\ n \in 0..N /\ a \in 0 .. Len(s) /\ b \in a .. Len(s)
    <3>1. n - 1 \in 0..N /\ n \in 0..N
      BY <1>0
    <3> QED BY <1>0, <3>1
  <2>2. f[n] = SubSeq(s, 1, a) \o SubSeq(s, a + 1, b)
    BY <1>0, <1>1, <1>3 DEF Flattens
  <2> HIDE DEF a, b
  <2>3. SubSeq(s, 1, a) \o SubSeq(s, a + 1, b) = SubSeq(s, 1, b)
    <3>1. 1 \in 1 .. Len(s) + 1 /\ a \in 1 - 1 .. Len(s)
      BY <2>1
    <3> QED BY <2>1, <3>1, ConcatAdjacentSubSeq
  <2> QED BY <2>1, <2>2, <2>3 DEF b
<1> HIDE DEF G
<1>4. \A i \in 0..N : i \in G
  BY <1>0, <1>2, <1>3, SetInduction
<1>5. f[N] = SubSeq(s, 1, Len(s))
  BY <1>0, <1>4 DEF G
<1>6. SubSeq(s, 1, Len(s)) = s
  BY SubSeqFull
<1> QED BY <1>0, <1>1, <1>5, <1>6 DEF Flattens

-----------------------------------------------------------------------------
(* A sequence cut into pieces *)

\* Division by a positive number, as the rest of the proofs needs it.
LEMMA Quotient ==
    ASSUME NEW a \in Nat, NEW b \in Nat \ {0}
    PROVE  /\ a \div b \in Nat
           /\ (a \div b) * b <= a /\ a < (a \div b) * b + b
BY SMT

\* Multiples of a positive number are ordered like their factors.
LEMMA Multiples ==
    ASSUME NEW b \in Nat \ {0}, NEW i \in Int, NEW j \in Int, i <= j
    PROVE  i * b <= j * b
BY SMT

\* One factor less.
LEMMA OneLess ==
    ASSUME NEW b \in Int, NEW i \in Int
    PROVE  (i - 1) * b = i * b - b /\ i * b \in Int /\ (i - 1) * b \in Int
BY SMT

\* The library chooses the minimum of a set.
LEMMA MinOfTwo ==
    ASSUME NEW a \in Int, NEW b \in Int
    PROVE  Min({a, b}) = IF a <= b THEN a ELSE b
BY DEF Min

\* The w-th piece begins after c[w - 1] and ends with c[w].
CutsAt(c, s, n) ==
    LET N == Len(Cut(s, n))
    IN  /\ N \in Nat /\ c \in [0..N -> 0 .. Len(s)] /\ c[0] = 0 /\ c[N] = Len(s)
        /\ \A w \in 1..N : /\ c[w - 1] < c[w] /\ c[w] <= c[w - 1] + n
                           /\ Cut(s, n)[w] = SubSeq(s, c[w - 1] + 1, c[w])

LEMMA CutBounds ==
    ASSUME NEW S, NEW s \in Seq(S), NEW n \in Nat \ {0}
    PROVE  \E c : CutsAt(c, s, n)
<1> DEFINE len == Len(s)
           N == (len + n - 1) \div n
           c == [w \in 0..N |-> IF w * n <= len THEN w * n ELSE len]
<1>1. len \in Nat
  OBVIOUS
<1>2. N \in Nat /\ len <= N * n /\ N * n < len + n
  <2>1. len + n - 1 \in Nat
    BY <1>1
  <2>2. N \in Nat /\ N * n <= len + n - 1 /\ len + n - 1 < N * n + n
    BY <2>1, Quotient
  <2>3. N * n \in Int
    BY <2>2
  <2> QED BY <1>1, <2>2, <2>3
<1>3. Cut(s, n) = [w \in 1..N |-> SubSeq(s, (w - 1) * n + 1, Min({w * n, len}))]
  BY DEF Cut
<1>4. Len(Cut(s, n)) = N /\ \A w \in 1..N :
        Cut(s, n)[w] = SubSeq(s, (w - 1) * n + 1, Min({w * n, len}))
  <2>1. N \in Nat
    BY <1>2
  <2> DEFINE piece(w) == SubSeq(s, (w - 1) * n + 1, Min({w * n, len}))
  <2> HIDE DEF N, len, piece
  <2>2. Cut(s, n) = [w \in 1..N |-> piece(w)]
    BY <1>3 DEF piece
  <2>3. Len(Cut(s, n)) = N /\ \A w \in 1..N : Cut(s, n)[w] = piece(w)
    BY <2>1, <2>2
  <2> QED BY <2>3 DEF piece
<1> HIDE DEF len, N
<1>5. ASSUME NEW w \in 1..N
      PROVE  /\ (w - 1) * n \in Nat /\ w * n = (w - 1) * n + n
             /\ (w - 1) * n < len
             /\ c[w - 1] = (w - 1) * n
             /\ c[w] = Min({w * n, len})
  <2>1. w \in Int /\ n \in Int /\ N \in Int
    BY <1>2
  <2>2. (w - 1) * n = w * n - n /\ w * n \in Int /\ (w - 1) * n \in Int
    BY <2>1, OneLess
  <2>3. (N - 1) * n = N * n - n /\ N * n \in Int
    BY <2>1, OneLess
  <2>4. (w - 1) * n <= (N - 1) * n /\ 0 * n <= (w - 1) * n
    <3>1. w - 1 \in Int /\ N - 1 \in Int /\ w - 1 <= N - 1 /\ 0 <= w - 1
      BY <1>2
    <3> QED BY <3>1, Multiples
  <2>5. (w - 1) * n < len /\ (w - 1) * n \in Nat
    BY <1>1, <1>2, <2>1, <2>2, <2>3, <2>4
  <2>6. w - 1 \in 0..N /\ w \in 0..N
    BY <1>2
  <2>7. c[w - 1] = (w - 1) * n
    BY <1>1, <2>5, <2>6
  <2>8. c[w] = Min({w * n, len})
    BY <1>1, <2>2, <2>6, MinOfTwo
  <2> QED BY <2>1, <2>2, <2>5, <2>7, <2>8
<1>6. /\ c \in [0..N -> 0..len] /\ c[0] = 0 /\ c[N] = len
      /\ \A w \in 1..N : c[w - 1] < c[w] /\ c[w] <= c[w - 1] + n
  <2>1. 0 * n = 0 /\ 0 \in 0..N /\ N \in 0..N
    BY <1>2
  <2>2. ASSUME NEW w \in 0..N PROVE c[w] \in 0..len
    <3>1. w * n \in Nat
      BY <1>2
    <3> QED BY <1>1, <3>1
  <2>3. c[0] = 0
    BY <1>1, <2>1
  <2>4. c[N] = len
    <3>1. N * n \in Int
      BY <1>2
    <3> QED BY <1>1, <1>2, <2>1, <3>1
  <2>5. ASSUME NEW w \in 1..N PROVE c[w - 1] < c[w] /\ c[w] <= c[w - 1] + n
    <3> DEFINE low == (w - 1) * n
               next == w * n
    <3>1. low \in Nat /\ next = low + n /\ low < len /\ c[w - 1] = low /\ c[w] = Min({next, len})
      BY <1>5
    <3> HIDE DEF low, next, c
    <3>2. c[w] = IF next <= len THEN next ELSE len
      BY <1>1, <3>1, MinOfTwo
    <3> QED BY <1>1, <3>1, <3>2
  <2>6. c \in [0..N -> 0..len]
    BY <2>2
  <2> QED BY <2>3, <2>4, <2>5, <2>6
<1>7. \A w \in 1..N : Cut(s, n)[w] = SubSeq(s, c[w - 1] + 1, c[w])
  <2> HIDE DEF c
  <2> QED BY <1>4, <1>5
<1>8. CutsAt(c, s, n)
  <2> HIDE DEF c
  <2> QED BY <1>2, <1>4, <1>6, <1>7 DEF CutsAt, len
<1> QED BY <1>8

\* The pieces, one after the other, are the sequence; none is empty or too long.
LEMMA CutFlattens ==
    ASSUME NEW S, NEW s \in Seq(S), NEW n \in Nat \ {0}
    PROVE  /\ Cut(s, n) \in Seq(Seq(S)) /\ FlattenSeq(Cut(s, n)) = s
           /\ \A w \in DOMAIN Cut(s, n) :
                 Cut(s, n)[w] # <<>> /\ Len(Cut(s, n)[w]) <= n
<1> DEFINE pieces == Cut(s, n)
           N == Len(pieces)
<1>1. PICK c : CutsAt(c, s, n)
  BY CutBounds
<1>2. /\ N \in Nat /\ c \in [0..N -> 0 .. Len(s)] /\ c[0] = 0 /\ c[N] = Len(s)
      /\ \A w \in 1..N : /\ c[w - 1] < c[w] /\ c[w] <= c[w - 1] + n
                         /\ pieces[w] = SubSeq(s, c[w - 1] + 1, c[w])
  BY <1>1 DEF CutsAt
<1>3. pieces = [w \in 1..N |-> pieces[w]]
  <2>1. pieces = [w \in DOMAIN pieces |-> pieces[w]] /\ \E k \in Int : DOMAIN pieces = 1..k
    <3>1. (Len(s) + n - 1) \div n \in Int
      OBVIOUS
    <3> QED BY <3>1 DEF Cut
  <2>2. DOMAIN pieces = 1..N
    <3>1. (Len(s) + n - 1) \div n \in Nat
      <4>1. Len(s) + n - 1 \in Nat
        OBVIOUS
      <4> QED BY <4>1, Quotient
    <3>2. DOMAIN pieces = 1 .. (Len(s) + n - 1) \div n
      BY DEF Cut
    <3> HIDE DEF pieces
    <3> QED BY <3>1, <3>2
  <2> QED BY <2>1, <2>2
<1> HIDE DEF pieces, N
<1>4. ASSUME NEW w \in 1..N
      PROVE  pieces[w] \in Seq(S) /\ pieces[w] # <<>> /\ Len(pieces[w]) <= n
  <2> DEFINE a == c[w - 1]
             b == c[w]
  <2>1. w - 1 \in 0..N /\ w \in 0..N
    BY <1>2
  <2>2. /\ a \in 0 .. Len(s) /\ b \in 0 .. Len(s) /\ a < b /\ b <= a + n
        /\ pieces[w] = SubSeq(s, a + 1, b)
    BY <1>2, <2>1
  <2> HIDE DEF a, b
  <2>3. SubSeq(s, a + 1, b) \in Seq(S) /\ Len(SubSeq(s, a + 1, b)) = b - a
    BY <2>2
  <2>4. b - a # 0 /\ b - a <= n /\ Len(<<>>) = 0
    BY <2>2
  <2> QED BY <2>2, <2>3, <2>4
<1>5. pieces \in Seq(Seq(S)) /\ Len(pieces) = N /\ DOMAIN pieces = 1..N
  <2>1. \A w \in 1..N : pieces[w] \in Seq(S)
    BY <1>4
  <2>2. pieces \in [1..N -> Seq(S)] /\ N \in Nat
    BY <1>2, <1>3, <2>1
  <2> QED BY <2>2
<1>6. FlattenSeq(pieces) = s
  <2>1. \A w \in 1..N : c[w - 1] <= c[w] /\ pieces[w] = SubSeq(s, c[w - 1] + 1, c[w])
    <3> TAKE w \in 1..N
    <3>1. w - 1 \in 0..N /\ w \in 0..N
      BY <1>2
    <3>2. c[w - 1] \in Int /\ c[w] \in Int
      BY <1>2, <3>1
    <3> QED BY <1>2, <3>2
  <2>2. SlicedAt(c, s, pieces, N)
    BY <1>2, <1>5, <2>1 DEF SlicedAt
  <2> QED BY <1>5, <2>2, SlicesFlatten
<1> QED BY <1>4, <1>5, <1>6 DEF pieces

-----------------------------------------------------------------------------
(* Ranks: how many members come before one *)

\* A strict total order of D, as a set of pairs.
StrictOrder(R, D) ==
    /\ \A i \in D : <<i, i>> \notin R
    /\ \A i, j \in D : i # j => <<i, j>> \in R \/ <<j, i>> \in R
    /\ \A i, j, k \in D : <<i, j>> \in R /\ <<j, k>> \in R => <<i, k>> \in R

Rank(R, D, i) == Cardinality({j \in D : <<j, i>> \in R})

LEMMA RankType ==
    ASSUME NEW D, IsFiniteSet(D), NEW R, StrictOrder(R, D), NEW i \in D
    PROVE  Rank(R, D, i) \in Nat /\ Rank(R, D, i) < Cardinality(D)
<1> DEFINE T == {j \in D : <<j, i>> \in R}
<1>1. T \in SUBSET D /\ T # D
  BY DEF StrictOrder
<1> HIDE DEF T
<1>2. IsFiniteSet(T) /\ Cardinality(T) <= Cardinality(D) /\ Cardinality(T) # Cardinality(D)
  BY <1>1, FS_Subset
<1>3. Cardinality(T) \in Nat /\ Cardinality(D) \in Nat
  BY <1>2, FS_CardinalityType
<1>4. Rank(R, D, i) = Cardinality(T)
  BY DEF Rank, T
<1> QED BY <1>2, <1>3, <1>4

LEMMA RanksGrow ==
    ASSUME NEW D, IsFiniteSet(D), NEW R, StrictOrder(R, D), NEW i \in D, NEW j \in D,
           <<i, j>> \in R
    PROVE  Rank(R, D, i) < Rank(R, D, j)
<1> DEFINE A == {k \in D : <<k, i>> \in R}
           B == {k \in D : <<k, j>> \in R}
<1>1. A \subseteq B /\ i \in B /\ i \notin A /\ B \subseteq D
  BY DEF StrictOrder
<1>0. Rank(R, D, i) = Cardinality(A) /\ Rank(R, D, j) = Cardinality(B)
  BY DEF Rank
<1> HIDE DEF A, B
<1>2. IsFiniteSet(B)
  BY <1>1, FS_Subset
<1>3. A \in SUBSET B /\ A # B
  BY <1>1
<1>4. IsFiniteSet(A) /\ Cardinality(A) <= Cardinality(B) /\ Cardinality(A) # Cardinality(B)
  BY <1>2, <1>3, FS_Subset
<1>5. Cardinality(A) \in Nat /\ Cardinality(B) \in Nat
  BY <1>2, <1>4, FS_CardinalityType
<1> QED BY <1>0, <1>4, <1>5

\* One member comes before all the others.
LEMMA FirstMember ==
    ASSUME NEW D, IsFiniteSet(D), D # {}, NEW R, StrictOrder(R, D)
    PROVE  \E i \in D : \A j \in D \ {i} : <<i, j>> \in R
<1> DEFINE T == {Rank(R, D, i) : i \in D}
<1>1. T \subseteq Nat
  BY RankType
<1>2. T # {}
  OBVIOUS
<1>3. PICK m \in T : \A n \in T : m <= n
  <2> HIDE DEF T
  <2> QED BY <1>1, <1>2, LeastElement
<1>4. PICK i \in D : m = Rank(R, D, i)
  OBVIOUS
<1>5. ASSUME NEW j \in D \ {i} PROVE <<i, j>> \in R
  <2> SUFFICES ASSUME <<j, i>> \in R PROVE FALSE
    BY DEF StrictOrder
  <2>1. j \in D /\ i \in D /\ <<j, i>> \in R
    OBVIOUS
  <2>2. Rank(R, D, j) < Rank(R, D, i)
    BY <2>1, RanksGrow
  <2>3. Rank(R, D, i) \in Nat /\ Rank(R, D, j) \in Nat
    BY RankType
  <2>4. Rank(R, D, i) <= Rank(R, D, j)
    BY <1>3, <1>4
  <2> QED BY <2>2, <2>3, <2>4
<1> QED BY <1>5

\* Every number below n is the rank of exactly one of 1 .. n.
LEMMA RanksTaken ==
    ASSUME NEW n \in Nat, NEW R, StrictOrder(R, 1..n), NEW k \in 1..n
    PROVE  \E i \in 1..n : Rank(R, 1..n, i) = k - 1
<1> DEFINE D == 1..n
           E == 0 .. n - 1
           r == [i \in D |-> Rank(R, D, i)]
<1>1. IsFiniteSet(D) /\ Cardinality(D) = n /\ IsFiniteSet(E) /\ Cardinality(E) = n
  <2>1. 1 \in Int /\ n \in Int /\ 0 \in Int /\ n - 1 \in Int
    OBVIOUS
  <2> QED BY <2>1, FS_Interval
<1>2. ASSUME NEW i \in D PROVE r[i] \in E
  <2>1. Rank(R, D, i) \in Nat /\ Rank(R, D, i) < Cardinality(D)
    <3> HIDE DEF D
    <3> QED BY <1>1, RankType DEF D
  <2> HIDE DEF D
  <2> QED BY <1>1, <2>1
<1>3. ASSUME NEW i \in D, NEW j \in D, r[i] = r[j] PROVE i = j
  <2> SUFFICES ASSUME i # j PROVE FALSE
    OBVIOUS
  <2>1. <<i, j>> \in R \/ <<j, i>> \in R
    BY DEF StrictOrder
  <2>2. Rank(R, D, i) \in Nat /\ Rank(R, D, i) = Rank(R, D, j)
    BY <1>2, <1>3
  <2>3. StrictOrder(R, D)
    OBVIOUS
  <2> HIDE DEF D
  <2>4. <<i, j>> \in R => Rank(R, D, i) < Rank(R, D, j)
    BY <1>1, <2>3, RanksGrow
  <2>5. <<j, i>> \in R => Rank(R, D, j) < Rank(R, D, i)
    BY <1>1, <2>3, RanksGrow
  <2> QED BY <2>1, <2>2, <2>4, <2>5
<1> HIDE DEF D, E
<1>4. r \in [D -> E]
  BY <1>2
<1> HIDE DEF r
<1>5. r \in Injection(D, E)
  BY <1>3, <1>4 DEF Injection, IsInjective
<1>6. r \in Surjection(D, E)
  BY <1>1, <1>5, FS_Injection
<1>7. k - 1 \in E
  BY DEF E
<1>8. PICK i \in D : r[i] = k - 1
  BY <1>6, <1>7 DEF Surjection
<1> QED BY <1>8 DEF D, r

-----------------------------------------------------------------------------
(* The same rows, in another order *)

\* Where x stands in s.
Places(s, x) == {i \in 1 .. Len(s) : s[i] = x}
Count(s, x) == Cardinality(Places(s, x))

SameRows(s, t) == Len(s) = Len(t) /\ \A x : Count(s, x) = Count(t, x)

LEMMA CountType ==
    ASSUME NEW S, NEW s \in Seq(S), NEW x
    PROVE  /\ IsFiniteSet(Places(s, x)) /\ Count(s, x) \in Nat
           /\ (s = <<>> => Count(s, x) = 0)
<1>1. 1 \in Int /\ Len(s) \in Int /\ Places(s, x) \in SUBSET (1 .. Len(s))
  BY DEF Places
<1>2. IsFiniteSet(1 .. Len(s))
  BY <1>1, FS_Interval
<1>3. IsFiniteSet(Places(s, x))
  BY <1>1, <1>2, FS_Subset
<1>4. s = <<>> => Places(s, x) = {}
  BY DEF Places
<1> QED BY <1>3, <1>4, FS_CardinalityType, FS_EmptySet DEF Count

LEMMA CountConcat ==
    ASSUME NEW S, NEW s \in Seq(S), NEW t \in Seq(S), NEW x
    PROVE  Count(s \o t, x) = Count(s, x) + Count(t, x)
<1> DEFINE m == Len(s)
           A == Places(s, x)
           B == Places(t, x)
           C == {i \in m + 1 .. m + Len(t) : t[i - m] = x}
           shift == [j \in B |-> j + m]
<1>1. m \in Nat /\ Len(t) \in Nat
  OBVIOUS
<1>2. shift \in Bijection(B, C)
  <2>1. \A j \in B : j \in Int /\ shift[j] = j + m /\ shift[j] \in C
    BY <1>1 DEF Places
  <2>2. \A i \in C : i - m \in B /\ shift[i - m] = i
    BY <1>1 DEF Places
  <2>3. shift \in [B -> C]
    BY <2>1
  <2> HIDE DEF shift, B, C
  <2>4. \A j, k \in B : shift[j] = shift[k] => j = k
    BY <1>1, <2>1
  <2>5. shift \in Injection(B, C)
    BY <2>3, <2>4 DEF Injection, IsInjective
  <2>6. shift \in Surjection(B, C)
    BY <2>2, <2>3 DEF Surjection
  <2> QED BY <2>5, <2>6 DEF Bijection
<1>3. Places(s \o t, x) = A \cup C
  <2>1. Len(s \o t) = m + Len(t)
    BY ConcatProperties
  <2>2. \A i \in 1 .. m + Len(t) : (s \o t)[i] = IF i <= m THEN s[i] ELSE t[i - m]
    BY ConcatProperties
  <2>3. A = {i \in 1..m : s[i] = x}
    BY DEF Places
  <2>4. Places(s \o t, x) = {i \in 1 .. m + Len(t) : (IF i <= m THEN s[i] ELSE t[i - m]) = x}
    BY <2>1, <2>2 DEF Places
  <2> HIDE DEF A, m
  <2> QED BY <1>1, <2>3, <2>4
<1>4. A \cap C = {}
  BY <1>1 DEF Places
<1>5. IsFiniteSet(A) /\ Count(s, x) = Cardinality(A) /\ Cardinality(A) \in Nat
      /\ IsFiniteSet(B) /\ Count(t, x) = Cardinality(B) /\ Cardinality(B) \in Nat
  BY CountType DEF Count
<1> HIDE DEF A, B, C, shift
<1>6. IsFiniteSet(C) /\ Cardinality(C) = Cardinality(B)
  BY <1>2, <1>5, FS_Bijection DEF ExistsBijection
<1>7. Cardinality(A \cup C) = Cardinality(A) + Cardinality(C) - Cardinality(A \cap C)
  BY <1>5, <1>6, FS_Union
<1>8. Cardinality(A \cap C) = 0
  BY <1>4, FS_EmptySet
<1>9. Count(s \o t, x) = Cardinality(A \cup C)
  BY <1>3 DEF Count
<1> QED BY <1>5, <1>6, <1>7, <1>8, <1>9

LEMMA CountSingle ==
    ASSUME NEW S, NEW e \in S, NEW x
    PROVE  Count(<<e>>, x) = IF e = x THEN 1 ELSE 0
<1>1. Places(<<e>>, x) = IF e = x THEN {1} ELSE {}
  BY DEF Places
<1> QED BY <1>1, FS_Singleton, FS_EmptySet DEF Count

LEMMA CountTail ==
    ASSUME NEW S, NEW s \in Seq(S), s # <<>>, NEW x
    PROVE  Count(s, x) = Count(Tail(s), x) + IF Head(s) = x THEN 1 ELSE 0
<1>1. Head(s) \in S /\ Tail(s) \in Seq(S) /\ <<Head(s)>> \in Seq(S) /\ s = <<Head(s)>> \o Tail(s)
  <2>1. Head(s) \in S /\ Tail(s) \in Seq(S)
    BY HeadTailProperties
  <2>2. <<Head(s)>> \in Seq(S) /\ s = <<Head(s)>> \o Tail(s)
    BY <2>1
  <2> QED BY <2>1, <2>2
<1> DEFINE h == <<Head(s)>>
           t == Tail(s)
<1>2. Count(h \o t, x) = Count(h, x) + Count(t, x)
  <2>1. h \in Seq(S) /\ t \in Seq(S)
    BY <1>1
  <2> HIDE DEF h, t
  <2> QED BY <2>1, CountConcat
<1>3. Count(h, x) = (IF Head(s) = x THEN 1 ELSE 0) /\ Count(t, x) \in Nat
  BY <1>1, CountSingle, CountType
<1>4. Count(s, x) = Count(h \o t, x)
  BY <1>1, Zenon
<1> HIDE DEF h
<1> QED BY <1>2, <1>3, <1>4

LEMMA CountPositive ==
    ASSUME NEW S, NEW s \in Seq(S), NEW x
    PROVE  Count(s, x) # 0 <=> \E i \in 1 .. Len(s) : s[i] = x
<1>1. Places(s, x) # {} <=> \E i \in 1 .. Len(s) : s[i] = x
  BY DEF Places
<1>2. Count(s, x) = 0 <=> Places(s, x) = {}
  BY CountType, FS_EmptySet DEF Count
<1> QED BY <1>1, <1>2

LEMMA SameConcat ==
    ASSUME NEW S, NEW a \in Seq(S), NEW b \in Seq(S), NEW c \in Seq(S), NEW d \in Seq(S),
           SameRows(a, c), SameRows(b, d)
    PROVE  SameRows(a \o b, c \o d)
<1>1. Len(a \o b) = Len(a) + Len(b) /\ Len(c \o d) = Len(c) + Len(d)
  BY ConcatProperties
<1>2. ASSUME NEW x PROVE Count(a \o b, x) = Count(c \o d, x)
  <2>1. Count(a \o b, x) = Count(a, x) + Count(b, x) /\ Count(c \o d, x) = Count(c, x) + Count(d, x)
    BY CountConcat
  <2> QED BY <2>1 DEF SameRows
<1> QED BY <1>1, <1>2 DEF SameRows

Three(p, q, r, S) == p \in Seq(S) /\ q \in Seq(S) /\ r \in Seq(S)

LEMMA Regroup ==
    ASSUME NEW S, NEW p, NEW q, NEW r, Three(p, q, r, S)
    PROVE  (p \o q) \o r = p \o (q \o r)
BY ConcatAssociative DEF Three

LEMMA SameSwap ==
    ASSUME NEW S, NEW a \in Seq(S), NEW b \in Seq(S)
    PROVE  SameRows(a \o b, b \o a)
<1>1. Len(a \o b) = Len(a) + Len(b) /\ Len(b \o a) = Len(b) + Len(a)
  BY ConcatProperties
<1>2. ASSUME NEW x PROVE Count(a \o b, x) = Count(b \o a, x)
  <2>1. Count(a \o b, x) = Count(a, x) + Count(b, x) /\ Count(b \o a, x) = Count(b, x) + Count(a, x)
    BY CountConcat
  <2>2. Count(a, x) \in Nat /\ Count(b, x) \in Nat
    BY CountType
  <2> QED BY <2>1, <2>2
<1> QED BY <1>1, <1>2 DEF SameRows

LEMMA SameTrans ==
    ASSUME NEW a, NEW b, NEW c, SameRows(a, b), SameRows(b, c)
    PROVE  SameRows(a, c) /\ SameRows(b, a)
BY DEF SameRows

LEMMA FlattenSame ==
    ASSUME NEW S, NEW a \in Seq(Seq(S)), NEW b \in Seq(Seq(S)), Len(a) = Len(b),
           \A i \in 1 .. Len(a) : SameRows(a[i], b[i])
    PROVE  SameRows(FlattenSeq(a), FlattenSeq(b))
<1> DEFINE N == Len(a)
<1>1. PICK f : Flattens(f, a, S)
  BY FlattenUnfolds
<1>2. PICK g : Flattens(g, b, S)
  BY FlattenUnfolds
<1> DEFINE G == {i \in 0..N : SameRows(f[i], g[i])}
<1>3. 0 \in G
  BY <1>1, <1>2 DEF Flattens, SameRows
<1>4. ASSUME NEW n \in 1..N, n - 1 \in G PROVE n \in G
  <2>1. n \in 0..N /\ n \in 1 .. Len(a) /\ n \in 1 .. Len(b)
    OBVIOUS
  <2>2. /\ f[n - 1] \in Seq(S) /\ g[n - 1] \in Seq(S) /\ a[n] \in Seq(S) /\ b[n] \in Seq(S)
        /\ f[n] = f[n - 1] \o a[n] /\ g[n] = g[n - 1] \o b[n]
    <3>1. f[n - 1] \in Seq(S) /\ a[n] \in Seq(S) /\ f[n] = f[n - 1] \o a[n]
      BY <1>1, <2>1, FlattenStep DEF Flattens
    <3>2. g[n - 1] \in Seq(S) /\ b[n] \in Seq(S) /\ g[n] = g[n - 1] \o b[n]
      BY <1>2, <2>1, FlattenStep DEF Flattens
    <3> QED BY <3>1, <3>2
  <2>3. SameRows(f[n - 1], g[n - 1]) /\ SameRows(a[n], b[n])
    BY <1>4
  <2>4. SameRows(f[n], g[n])
    BY <2>2, <2>3, SameConcat
  <2> QED BY <2>1, <2>4
<1>0. N \in Nat
  OBVIOUS
<1> HIDE DEF G, N
<1>5. \A i \in 0..N : i \in G
  BY <1>0, <1>3, <1>4, SetInduction
<1>6. N \in 0..N
  BY <1>0
<1> QED BY <1>1, <1>2, <1>5, <1>6 DEF G, N, Flattens

LEMMA FlattenNothing ==
    ASSUME NEW S, NEW a \in Seq(Seq(S)), \A i \in 1 .. Len(a) : a[i] = <<>>
    PROVE  FlattenSeq(a) = <<>>
<1> DEFINE N == Len(a)
<1>1. PICK f : Flattens(f, a, S)
  BY FlattenUnfolds
<1> DEFINE G == {i \in 0..N : f[i] = <<>>}
<1>2. 0 \in G
  BY <1>1 DEF Flattens
<1>3. ASSUME NEW n \in 1..N, n - 1 \in G PROVE n \in G
  <2>1. f[n] = <<>> \o a[n] /\ a[n] = <<>>
    BY <1>1, <1>3 DEF Flattens
  <2> QED BY <2>1
<1>0. N \in Nat
  OBVIOUS
<1> HIDE DEF G, N
<1>4. \A i \in 0..N : i \in G
  BY <1>0, <1>2, <1>3, SetInduction
<1>5. N \in 0..N
  BY <1>0
<1> QED BY <1>1, <1>4, <1>5 DEF G, N, Flattens

LEMMA FlattenConcat ==
    ASSUME NEW S, NEW a \in Seq(Seq(S)), NEW b \in Seq(Seq(S))
    PROVE  FlattenSeq(a \o b) = FlattenSeq(a) \o FlattenSeq(b)
<1> DEFINE both == a \o b
           M == Len(a)
           N == Len(b)
<1>1. /\ M \in Nat /\ N \in Nat /\ both \in Seq(Seq(S)) /\ Len(both) = M + N
      /\ \A i \in 1..M : a[i] = both[i]
      /\ \A i \in 1..N : both[M + i] = b[i]
  BY ConcatProperties
<1>2. PICK f : Flattens(f, both, S)
  <2> HIDE DEF both
  <2> QED BY <1>1, FlattenUnfolds
<1>3. PICK g : Flattens(g, a, S)
  BY FlattenUnfolds
<1>4. PICK h : Flattens(h, b, S)
  BY FlattenUnfolds
<1> DEFINE G == {i \in 0..N : f[M + i] = g[M] \o h[i]}
<1> HIDE DEF both
<1>5. f[M] = g[M]
  <2>1. BeginAlike(a, both, M) /\ M \in 0..M
    <3>1. M <= Len(a) /\ M <= Len(both)
      BY <1>1
    <3> HIDE DEF M
    <3> QED BY <1>1, <3>1 DEF BeginAlike
  <2>2. \A i \in 0..M : g[i] = f[i]
    BY <1>2, <1>3, <2>1, FlattenAgrees
  <2> QED BY <2>1, <2>2
<1>6. g[M] \in Seq(S) /\ FlattenSeq(a) = g[M] /\ FlattenSeq(b) = h[N] /\ FlattenSeq(both) = f[M + N]
  <2>1. M \in 0..M
    BY <1>1
  <2>2. FlattenSeq(both) = f[Len(both)] /\ Len(both) = M + N
    BY <1>1, <1>2 DEF Flattens
  <2> QED BY <1>3, <1>4, <2>1, <2>2 DEF Flattens
<1>7. 0 \in G
  <2>1. h[0] = <<>> /\ g[M] \o <<>> = g[M] /\ M + 0 = M /\ 0 \in 0..N
    BY <1>1, <1>4, <1>6 DEF Flattens
  <2> QED BY <1>5, <2>1
<1>8. ASSUME NEW n \in 1..N, n - 1 \in G PROVE n \in G
  <2>1. n \in 0..N /\ n - 1 \in 0..N /\ b[n] \in Seq(S)
    OBVIOUS
  <2>2. h[n] = h[n - 1] \o b[n] /\ h[n - 1] \in Seq(S)
    BY <1>4, <2>1 DEF Flattens
  <2>3. f[M + n] = f[M + (n - 1)] \o b[n]
    <3>1. PICK k \in 1 .. Len(both) : k = M + n
      BY <1>1
    <3>2. f[k] = f[k - 1] \o both[k]
      BY <1>2 DEF Flattens
    <3>3. k - 1 = M + (n - 1) /\ both[k] = b[n]
      BY <1>1, <3>1
    <3> QED BY <3>1, <3>2, <3>3
  <2>4. f[M + (n - 1)] = g[M] \o h[n - 1]
    BY <1>8
  <2>5. (g[M] \o h[n - 1]) \o b[n] = g[M] \o (h[n - 1] \o b[n])
    <3> DEFINE p == g[M]
               q == h[n - 1]
               r == b[n]
    <3>1. Three(p, q, r, S)
      BY <1>6, <2>1, <2>2 DEF Three
    <3> HIDE DEF p, q, r
    <3>2. (p \o q) \o r = p \o (q \o r)
      BY <3>1, Regroup
    <3> QED BY <3>2 DEF p, q, r
  <2>6. f[M + n] = g[M] \o h[n]
    BY <2>2, <2>3, <2>4, <2>5
  <2> QED BY <2>1, <2>6
<1> HIDE DEF G
<1>9. \A i \in 0..N : i \in G
  BY <1>1, <1>7, <1>8, SetInduction
<1>10. f[M + N] = g[M] \o h[N]
  <2>1. N \in 0..N
    BY <1>1
  <2> QED BY <1>9, <2>1 DEF G
<1> QED BY <1>6, <1>10 DEF both

\* b is a without the rows h at the head of its k-th sequence.
Without(a, b, k, h, S) ==
    /\ a \in Seq(Seq(S)) /\ b \in Seq(Seq(S)) /\ Len(b) = Len(a)
    /\ k \in 1 .. Len(a) /\ h \in Seq(S) /\ b[k] \in Seq(S) /\ a[k] = h \o b[k]
    /\ \A i \in 1 .. Len(a) : i # k => b[i] = a[i]

LEMMA FlattenWithout ==
    ASSUME NEW S, NEW a, NEW b, NEW k, NEW h, Without(a, b, k, h, S)
    PROVE  SameRows(FlattenSeq(a), h \o FlattenSeq(b))
<1> DEFINE N == Len(a)
           t == b[k]
<1>1. h \in Seq(S) /\ t \in Seq(S) /\ a[k] = h \o t
  BY DEF Without
<1>2. /\ a \in Seq(Seq(S)) /\ b \in Seq(Seq(S)) /\ Len(b) = N /\ b[k] = t
      /\ \A i \in 1..N : i # k => b[i] = a[i]
  BY DEF Without
<1>0. N \in Nat /\ k \in 1..N
  BY <1>2 DEF Without
<1> HIDE DEF N, t
<1>3. PICK f : Flattens(f, a, S)
  BY <1>2, FlattenUnfolds
<1>4. PICK g : Flattens(g, b, S)
  BY <1>2, FlattenUnfolds
<1> DEFINE G == {i \in 0..N : (i < k => f[i] = g[i]) /\ (i >= k => SameRows(f[i], h \o g[i]))}
<1>5. 0 \in G
  <2>1. 0 \in 0..N /\ 0 < k /\ ~(0 >= k)
    BY <1>0
  <2>2. f[0] = g[0]
    BY <1>3, <1>4 DEF Flattens
  <2> QED BY <2>1, <2>2
<1>6. ASSUME NEW n \in 1..N, n - 1 \in G PROVE n \in G
  <2>1. n - 1 \in 0..N /\ n \in 0..N /\ n \in 1 .. Len(b) /\ n \in 1 .. Len(a) /\ k \in Int
    BY <1>0, <1>2 DEF N
  <2>2. /\ f[n - 1] \in Seq(S) /\ g[n - 1] \in Seq(S) /\ a[n] \in Seq(S) /\ b[n] \in Seq(S)
        /\ f[n] = f[n - 1] \o a[n] /\ g[n] = g[n - 1] \o b[n]
    <3>2. f[n - 1] \in Seq(S) /\ a[n] \in Seq(S) /\ f[n] = f[n - 1] \o a[n]
      BY <1>3, <2>1, FlattenStep DEF Flattens
    <3>3. g[n - 1] \in Seq(S) /\ b[n] \in Seq(S) /\ g[n] = g[n - 1] \o b[n]
      BY <1>4, <2>1, FlattenStep DEF Flattens
    <3> QED BY <3>2, <3>3
  <2>3. CASE n < k
    <3>1. n - 1 < k /\ n # k /\ ~(n >= k)
      BY <2>1, <2>3
    <3>2. f[n] = g[n]
      BY <1>2, <1>6, <2>2, <3>1
    <3> QED BY <2>1, <3>1, <3>2
  <2>4. CASE n = k
    <3>1. f[n - 1] = g[n - 1]
      BY <1>6, <2>4
    <3> DEFINE p == g[n - 1]
    <3>2. f[n] = p \o (h \o t) /\ g[n] = p \o t /\ p \in Seq(S)
      BY <1>1, <1>2, <2>2, <2>4, <3>1
    <3> HIDE DEF p
    <3>3. p \o (h \o t) = (p \o h) \o t /\ h \o (p \o t) = (h \o p) \o t
      <4>1. Three(p, h, t, S) /\ Three(h, p, t, S)
        BY <1>1, <3>2 DEF Three
      <4> QED BY <4>1, Regroup
    <3>4. SameRows(p \o h, h \o p) /\ SameRows(t, t)
      BY <1>1, <3>2, SameSwap DEF SameRows
    <3>5. p \o h \in Seq(S) /\ h \o p \in Seq(S)
      BY <1>1, <3>2, ConcatProperties
    <3>6. SameRows((p \o h) \o t, (h \o p) \o t)
      BY <1>1, <3>4, <3>5, SameConcat
    <3>7. SameRows(f[n], h \o g[n])
      BY <3>2, <3>3, <3>6
    <3> QED BY <2>1, <2>4, <3>7
  <2>5. CASE n > k
    <3>1. n - 1 >= k /\ n # k /\ ~(n < k)
      BY <2>1, <2>5
    <3>2. SameRows(f[n - 1], h \o g[n - 1]) /\ SameRows(a[n], a[n]) /\ a[n] = b[n]
      BY <1>2, <1>6, <3>1 DEF SameRows
    <3>3. h \o g[n - 1] \in Seq(S)
      BY <1>1, <2>2, ConcatProperties
    <3>4. SameRows(f[n - 1] \o a[n], (h \o g[n - 1]) \o b[n])
      BY <2>2, <3>2, <3>3, SameConcat
    <3>5. (h \o g[n - 1]) \o b[n] = h \o (g[n - 1] \o b[n])
      <4> DEFINE q == g[n - 1]
                 r == b[n]
      <4>1. Three(h, q, r, S)
        BY <1>1, <2>2 DEF Three
      <4> HIDE DEF q, r
      <4>2. (h \o q) \o r = h \o (q \o r)
        BY <4>1, Regroup
      <4> QED BY <4>2 DEF q, r
    <3>6. SameRows(f[n], h \o g[n])
      BY <2>2, <3>4, <3>5
    <3> QED BY <2>1, <3>1, <3>6
  <2> QED BY <2>1, <2>3, <2>4, <2>5
<1> HIDE DEF G
<1>7. \A i \in 0..N : i \in G
  BY <1>0, <1>5, <1>6, SetInduction
<1>8. N \in 0..N /\ N >= k
  BY <1>0
<1>9. SameRows(f[N], h \o g[N])
  BY <1>7, <1>8 DEF G
<1>10. f[N] = FlattenSeq(a) /\ g[N] = FlattenSeq(b)
  BY <1>2, <1>3, <1>4 DEF Flattens, N
<1> QED BY <1>9, <1>10

LEMMA FlattenPop ==
    ASSUME NEW S, NEW a \in Seq(Seq(S)), NEW k \in 1 .. Len(a), a[k] # <<>>
    PROVE  LET b == [a EXCEPT ![k] = Tail(@)]
           IN  /\ b \in Seq(Seq(S)) /\ Len(b) = Len(a)
               /\ b[k] = Tail(a[k]) /\ \A i \in 1 .. Len(a) : i # k => b[i] = a[i]
               /\ SameRows(FlattenSeq(a), <<Head(a[k])>> \o FlattenSeq(b))
<1> DEFINE t == Tail(a[k])
           h == <<Head(a[k])>>
           b == [a EXCEPT ![k] = t]
<1>1. h \in Seq(S) /\ t \in Seq(S) /\ a[k] = h \o t
  <2>1. a[k] \in Seq(S)
    OBVIOUS
  <2>2. Head(a[k]) \in S /\ t \in Seq(S)
    BY <2>1, HeadTailProperties
  <2> QED BY <2>1, <2>2
<1>2. /\ b \in Seq(Seq(S)) /\ Len(b) = Len(a) /\ b[k] = t
      /\ \A i \in 1 .. Len(a) : i # k => b[i] = a[i]
  <2> HIDE DEF t
  <2> QED BY <1>1, ExceptSeq
<1>3. SameRows(FlattenSeq(a), h \o FlattenSeq(b))
  <2> HIDE DEF t, h, b
  <2>1. Without(a, b, k, h, S)
    BY <1>1, <1>2 DEF Without
  <2> QED BY <2>1, FlattenWithout
<1> QED BY <1>2, <1>3

-----------------------------------------------------------------------------
(* Sorted rows *)

\* What a comparison of sort keys is: a strict order in which rows that do
\* not compare have equal keys.
RowOrder(S) ==
    /\ \A a, b \in S : Before(a, b) => ~Before(b, a)
    /\ \A a, b, c \in S : Before(a, c) => Before(a, b) \/ Before(b, c)

Sorted(s) == \A i, j \in 1 .. Len(s) : i < j => ~Before(s[j], s[i])

\* The rows f[i] by their keys and then by i.
KeysFirst(f, D) ==
    {p \in D \X D : \/ Before(f[p[1]], f[p[2]])
                    \/ ~Before(f[p[2]], f[p[1]]) /\ p[1] < p[2]}

LEMMA KeysOrder ==
    ASSUME NEW S, RowOrder(S), NEW D \in SUBSET Int, NEW f \in [D -> S]
    PROVE  /\ StrictOrder(KeysFirst(f, D), D)
           /\ \A i, j \in D : <<i, j>> \in KeysFirst(f, D)
                 <=> \/ Before(f[i], f[j])
                     \/ ~Before(f[j], f[i]) /\ i < j
<1> DEFINE R == KeysFirst(f, D)
<1>1. \A i, j \in D : <<i, j>> \in R <=> \/ Before(f[i], f[j])
                                         \/ ~Before(f[j], f[i]) /\ i < j
  BY DEF KeysFirst
<1> HIDE DEF R
<1>2. \A i \in D : i \in Int /\ f[i] \in S
  OBVIOUS
<1>3. \A i \in D : <<i, i>> \notin R
  BY <1>1, <1>2 DEF RowOrder
<1>4. ASSUME NEW i \in D, NEW j \in D, i # j PROVE <<i, j>> \in R \/ <<j, i>> \in R
  BY <1>1, <1>2, <1>4 DEF RowOrder
<1>5. ASSUME NEW i \in D, NEW j \in D, NEW k \in D, <<i, j>> \in R, <<j, k>> \in R
      PROVE  <<i, k>> \in R
  <2>1. f[i] \in S /\ f[j] \in S /\ f[k] \in S /\ i \in Int /\ j \in Int /\ k \in Int
    BY <1>2
  <2>2. /\ Before(f[i], f[j]) \/ (~Before(f[j], f[i]) /\ i < j)
        /\ Before(f[j], f[k]) \/ (~Before(f[k], f[j]) /\ j < k)
    BY <1>1, <1>5
  <2>3. Before(f[i], f[k]) \/ (~Before(f[k], f[i]) /\ i < k)
    BY <2>1, <2>2 DEF RowOrder
  <2> QED BY <1>1, <2>3
<1>6. StrictOrder(R, D)
  BY <1>3, <1>4, <1>5 DEF StrictOrder
<1> QED BY <1>1, <1>6 DEF R

LEMMA BatchSorted ==
    ASSUME NEW S, RowOrder(S), NEW s \in Seq(S)
    PROVE  SortBatch(s) \in Seq(S) /\ SameRows(SortBatch(s), s) /\ Sorted(SortBatch(s))
<1> DEFINE n == Len(s)
           D == 1..n
           R == KeysFirst(s, D)
           place(k) == CHOOSE i \in D : Rank(R, D, i) = k - 1
           p == [k \in D |-> place(k)]
           t == SortBatch(s)
<1>0. n \in Nat /\ DOMAIN s = D /\ s \in [D -> S] /\ D \in SUBSET Int
  OBVIOUS
<1> HIDE DEF n
<1>1. /\ StrictOrder(R, D)
      /\ \A i, j \in D : <<i, j>> \in R <=> \/ Before(s[i], s[j])
                                            \/ ~Before(s[j], s[i]) /\ i < j
  <2> HIDE DEF D
  <2> QED BY <1>0, KeysOrder
<1>2. t = [k \in D |-> s[place(k)]]
  <2> DEFINE below(i) == Cardinality({j \in D : \/ Before(s[j], s[i])
                                                \/ ~Before(s[i], s[j]) /\ j < i})
  <2>1. ASSUME NEW i \in D PROVE below(i) = Rank(R, D, i)
    <3>1. {j \in D : \/ Before(s[j], s[i])
                     \/ ~Before(s[i], s[j]) /\ j < i} = {j \in D : <<j, i>> \in R}
      <4> HIDE DEF R
      <4> QED BY <1>1
    <3> QED BY <3>1 DEF Rank
  <2> DEFINE other(k) == CHOOSE i \in D : below(i) = k - 1
  <2>2. t = [k \in D |-> s[other(k)]]
    <3> HIDE DEF D
    <3> QED BY <1>0 DEF SortBatch
  <2> HIDE DEF R, D, below, t
  <2>3. ASSUME NEW k \in D PROVE other(k) = place(k)
    <3>1. \A i \in D : below(i) = k - 1 <=> Rank(R, D, i) = k - 1
      BY <2>1
    <3> QED BY <3>1
  <2> HIDE DEF other, place
  <2> QED BY <2>2, <2>3
<1>3. IsFiniteSet(D) /\ Cardinality(D) = n
  <2>1. 1 \in Int /\ n \in Int
    BY <1>0
  <2> QED BY <1>0, <2>1, FS_Interval
<1> HIDE DEF R
<1>4. ASSUME NEW k \in D PROVE place(k) \in D /\ Rank(R, D, place(k)) = k - 1
  <2>1. \E i \in D : Rank(R, D, i) = k - 1
    BY <1>0, <1>1, RanksTaken
  <2> QED BY <2>1
<1> HIDE DEF place, t
<1>5. /\ p \in [D -> D] /\ \A k \in D : p[k] \in D /\ Rank(R, D, p[k]) = k - 1
      /\ t = [k \in D |-> s[p[k]]]
  BY <1>2, <1>4
<1> HIDE DEF p
<1>6. t \in Seq(S) /\ Len(t) = n /\ \A k \in D : t[k] = s[p[k]]
  BY <1>0, <1>5
<1>7. ASSUME NEW i \in D, NEW j \in D, <<i, j>> \in R
      PROVE  Rank(R, D, i) < Rank(R, D, j)
  <2> HIDE DEF D
  <2> QED BY <1>1, <1>3, <1>7, RanksGrow
<1>8. Sorted(t)
  <2> SUFFICES ASSUME NEW k \in D, NEW l \in D, k < l, Before(t[l], t[k]) PROVE FALSE
    BY <1>6 DEF Sorted
  <2>1. p[k] \in D /\ p[l] \in D /\ Before(s[p[l]], s[p[k]])
    BY <1>5, <1>6
  <2>2. Rank(R, D, p[l]) < Rank(R, D, p[k])
    BY <1>1, <1>7, <2>1
  <2> QED BY <1>5, <2>2
<1>9. ASSUME NEW x PROVE Count(t, x) = Count(s, x)
  <2> DEFINE A == Places(t, x)
             B == Places(s, x)
             q == [k \in A |-> p[k]]
  <2>1. A = {k \in D : s[p[k]] = x} /\ B = {i \in D : s[i] = x}
    BY <1>6 DEF Places, n
  <2> HIDE DEF A, B
  <2>2. q \in [A -> B] /\ \A k \in A : q[k] = p[k]
    BY <1>5, <2>1
  <2> HIDE DEF q
  <2>3. \A k, l \in A : q[k] = q[l] => k = l
    <3> SUFFICES ASSUME NEW k \in A, NEW l \in A, q[k] = q[l] PROVE k = l
      OBVIOUS
    <3>1. k \in D /\ l \in D /\ k \in Int /\ l \in Int
      BY <2>1
    <3>2. p[k] = p[l]
      BY <2>2
    <3>3. k - 1 = l - 1
      BY <1>5, <3>1, <3>2
    <3> QED BY <3>1, <3>3
  <2>4. \A i \in B : \E k \in A : q[k] = i
    <3> TAKE i \in B
    <3>1. i \in D /\ s[i] = x
      BY <2>1
    <3>2. Rank(R, D, i) \in Nat /\ Rank(R, D, i) < n
      <4> HIDE DEF D
      <4> QED BY <1>1, <1>3, <3>1, RankType
    <3>3. PICK k \in D : Rank(R, D, i) = k - 1
      <4>1. Rank(R, D, i) + 1 \in D /\ Rank(R, D, i) = (Rank(R, D, i) + 1) - 1
        BY <1>0, <3>2
      <4> QED BY <4>1
    <3>4. p[k] \in D /\ Rank(R, D, p[k]) = Rank(R, D, i)
      BY <1>5, <3>3
    <3>5. p[k] = i
      <4> SUFFICES ASSUME p[k] # i PROVE FALSE
        OBVIOUS
      <4>1. <<p[k], i>> \in R \/ <<i, p[k]>> \in R
        BY <1>1, <3>1, <3>4 DEF StrictOrder
      <4>2. Rank(R, D, p[k]) < Rank(R, D, i) \/ Rank(R, D, i) < Rank(R, D, p[k])
        BY <1>7, <3>1, <3>4, <4>1
      <4> QED BY <3>2, <3>4, <4>2
    <3>6. k \in A
      BY <2>1, <3>1, <3>5
    <3> QED BY <2>2, <3>5, <3>6
  <2>5. q \in Injection(A, B)
    BY <2>2, <2>3 DEF Injection, IsInjective
  <2>6. q \in Surjection(A, B)
    BY <2>2, <2>4 DEF Surjection
  <2>7. ExistsBijection(A, B)
    BY <2>5, <2>6 DEF ExistsBijection, Bijection
  <2>8. IsFiniteSet(A)
    BY <1>6, CountType DEF A
  <2>9. Cardinality(A) = Cardinality(B)
    BY <2>7, <2>8, FS_Bijection
  <2> QED BY <2>9 DEF Count, A, B
<1> QED BY <1>6, <1>8, <1>9 DEF SameRows, n, t

-----------------------------------------------------------------------------
(* Merging runs *)

\* The heap pops a row that no other row at the head of a run goes before.
LEMMA LeastGoesFirst ==
    ASSUME NEW S, RowOrder(S), NEW heap \in Seq(Seq(S)),
           \E s \in 1 .. Len(heap) : heap[s] # <<>>
    PROVE  /\ Least(heap) \in 1 .. Len(heap) /\ heap[Least(heap)] # <<>>
           /\ \A t \in 1 .. Len(heap) : heap[t] # <<>> =>
                 ~Before(Head(heap[t]), Head(heap[Least(heap)]))
<1> DEFINE live == {s \in DOMAIN heap : heap[s] # <<>>}
           f == [s \in live |-> Head(heap[s])]
           First(s) == \A t \in live \ {s} :
              \/ Before(Head(heap[s]), Head(heap[t]))
              \/ ~Before(Head(heap[t]), Head(heap[s])) /\ s < t
<1>1. DOMAIN heap = 1 .. Len(heap) /\ Len(heap) \in Nat /\ \A s \in live : Head(heap[s]) \in S
  OBVIOUS
<1>2. IsFiniteSet(live) /\ live # {} /\ live \in SUBSET Int
  <2>1. 1 \in Int /\ Len(heap) \in Int /\ live \in SUBSET (1 .. Len(heap)) /\ live # {}
    <3>1. PICK s \in 1 .. Len(heap) : heap[s] # <<>>
      OBVIOUS
    <3>2. s \in live
      BY <1>1, <3>1
    <3> QED BY <1>1, <3>2
  <2>2. IsFiniteSet(1 .. Len(heap))
    BY <2>1, FS_Interval
  <2> HIDE DEF live
  <2> QED BY <2>1, <2>2, FS_Subset
<1>3. f \in [live -> S] /\ \A s \in live : f[s] = Head(heap[s])
  BY <1>1
<1>4. Least(heap) = CHOOSE s \in live : First(s)
  BY DEF Least
<1>0. \A s \in live : s \in 1 .. Len(heap) /\ heap[s] # <<>>
  BY <1>1
<1>00. \A t \in 1 .. Len(heap) : heap[t] # <<>> => t \in live
  BY <1>1
<1> HIDE DEF live, f
<1>5. /\ StrictOrder(KeysFirst(f, live), live)
      /\ \A i, j \in live : <<i, j>> \in KeysFirst(f, live)
                 <=> \/ Before(f[i], f[j])
                     \/ ~Before(f[j], f[i]) /\ i < j
  BY <1>2, <1>3, KeysOrder
<1>6. PICK s \in live : \A t \in live \ {s} : <<s, t>> \in KeysFirst(f, live)
  BY <1>2, <1>5, FirstMember
<1>7. First(s)
  BY <1>3, <1>5, <1>6
<1>8. Least(heap) \in live /\ First(Least(heap))
  <2> HIDE DEF First
  <2> QED BY <1>4, <1>7
<1> HIDE DEF First
<1>9. ASSUME NEW t \in live PROVE ~Before(Head(heap[t]), Head(heap[Least(heap)]))
  <2> DEFINE s1 == Least(heap)
  <2>1. s1 \in live /\ Head(heap[s1]) \in S /\ Head(heap[t]) \in S
    BY <1>1, <1>8, <1>3
  <2>2. CASE t = s1
    BY <2>1, <2>2 DEF RowOrder
  <2>3. CASE t # s1
    <3>1. \/ Before(Head(heap[s1]), Head(heap[t]))
          \/ ~Before(Head(heap[t]), Head(heap[s1])) /\ s1 < t
      BY <1>8, <2>3 DEF First
    <3> QED BY <2>1, <3>1 DEF RowOrder
  <2> QED BY <2>2, <2>3
<1> QED BY <1>0, <1>00, <1>8, <1>9

\* After n rows: nothing is lost, and nothing that is left goes before what
\* is out.
MergeAt(merge, rows, n, S) ==
    /\ merge \in [heap : Seq(Seq(S)), out : Seq(S)] /\ Len(merge.out) = n
    /\ SameRows(merge.out \o FlattenSeq(merge.heap), FlattenSeq(rows))
    /\ Sorted(merge.out)
    /\ \A k \in 1 .. Len(merge.heap) :
          /\ Sorted(merge.heap[k])
          /\ \A j \in 1 .. Len(merge.heap[k]), i \in 1 .. Len(merge.out) :
                ~Before(merge.heap[k][j], merge.out[i])

LEMMA SortedTail ==
    ASSUME NEW S, NEW s \in Seq(S), s # <<>>, Sorted(s)
    PROVE  /\ Tail(s) \in Seq(S) /\ Len(s) \in Nat /\ Len(s) > 0 /\ Len(Tail(s)) = Len(s) - 1
           /\ Head(s) = s[1] /\ Sorted(Tail(s))
           /\ \A j \in 1 .. Len(Tail(s)) :
                 /\ j + 1 \in 1 .. Len(s) /\ Tail(s)[j] = s[j + 1]
                 /\ ~Before(Tail(s)[j], Head(s))
<1>1. /\ Tail(s) \in Seq(S) /\ Len(s) \in Nat /\ Len(s) > 0 /\ Len(Tail(s)) = Len(s) - 1
      /\ Head(s) = s[1]
      /\ \A j \in 1 .. Len(s) - 1 : Tail(s)[j] = s[j + 1]
  <2>1. Tail(s) \in Seq(S) /\ Len(Tail(s)) = Len(s) - 1 /\ \A j \in 1 .. Len(Tail(s)) : Tail(s)[j] = s[j + 1]
    BY HeadTailProperties
  <2>2. Len(s) \in Nat /\ Len(s) > 0 /\ Head(s) = s[1]
    OBVIOUS
  <2> QED BY <2>1, <2>2
<1>2. Sorted(Tail(s))
  <2> SUFFICES ASSUME NEW i \in 1 .. Len(s) - 1, NEW j \in 1 .. Len(s) - 1, i < j
               PROVE  ~Before(s[j + 1], s[i + 1])
    BY <1>1 DEF Sorted
  <2>1. i + 1 \in 1 .. Len(s) /\ j + 1 \in 1 .. Len(s) /\ i + 1 < j + 1
    BY <1>1
  <2> QED BY <2>1 DEF Sorted
<1>3. ASSUME NEW j \in 1 .. Len(s) - 1 PROVE j + 1 \in 1 .. Len(s) /\ ~Before(s[j + 1], s[1])
  <2>1. j + 1 \in 1 .. Len(s) /\ 1 \in 1 .. Len(s) /\ 1 < j + 1
    BY <1>1
  <2> QED BY <2>1 DEF Sorted
<1> QED BY <1>1, <1>2, <1>3

LEMMA PopStep ==
    ASSUME NEW S, RowOrder(S), NEW rows \in Seq(Seq(S)), NEW merge, NEW n \in Nat,
           MergeAt(merge, rows, n, S), n < Len(FlattenSeq(rows))
    PROVE  MergeAt(Pop(merge), rows, n + 1, S)
<1> DEFINE heap == merge.heap
           out == merge.out
           k == Least(heap)
           run == heap[k]
           h == Head(run)
           heap2 == [heap EXCEPT ![k] = Tail(@)]
           out2 == Append(out, h)
<1>1. /\ heap \in Seq(Seq(S)) /\ out \in Seq(S) /\ Len(out) = n
      /\ SameRows(out \o FlattenSeq(heap), FlattenSeq(rows)) /\ Sorted(out)
      /\ \A s \in 1 .. Len(heap) : Sorted(heap[s])
      /\ \A s \in 1 .. Len(heap) : \A j \in 1 .. Len(heap[s]), i \in 1 .. Len(out) :
            ~Before(heap[s][j], out[i])
  BY DEF MergeAt
<1>2. Pop(merge) = [heap |-> heap2, out |-> out2]
  BY DEF Pop
<1> HIDE DEF heap, out
<1>3. FlattenSeq(heap) \in Seq(S)
  BY <1>1, FlattenType
<1>4. \E s \in 1 .. Len(heap) : heap[s] # <<>>
  <2> SUFFICES ASSUME \A s \in 1 .. Len(heap) : heap[s] = <<>> PROVE FALSE
    OBVIOUS
  <2>1. FlattenSeq(heap) = <<>>
    BY <1>1, FlattenNothing
  <2>2. out \o <<>> = out
    BY <1>1, ConcatEmptySeq
  <2>3. Len(out) = Len(FlattenSeq(rows))
    BY <1>1, <2>1, <2>2 DEF SameRows
  <2> QED BY <1>1, <2>3
<1>5. /\ k \in 1 .. Len(heap) /\ run # <<>>
      /\ \A t \in 1 .. Len(heap) : heap[t] # <<>> => ~Before(Head(heap[t]), h)
  BY <1>1, <1>4, LeastGoesFirst
<1> HIDE DEF k
<1>6. /\ heap2 \in Seq(Seq(S)) /\ Len(heap2) = Len(heap) /\ heap2[k] = Tail(run)
      /\ \A i \in 1 .. Len(heap) : i # k => heap2[i] = heap[i]
      /\ SameRows(FlattenSeq(heap), <<h>> \o FlattenSeq(heap2))
  BY <1>1, <1>5, FlattenPop
<1> HIDE DEF heap2
<1>7. run \in Seq(S) /\ Sorted(run) /\ h \in S /\ <<h>> \in Seq(S)
  <2>1. run \in Seq(S) /\ Sorted(run)
    BY <1>1, <1>5
  <2>2. h \in S
    BY <1>5, <2>1, HeadTailProperties
  <2> QED BY <2>1, <2>2
<1>8. /\ Tail(run) \in Seq(S) /\ Len(run) \in Nat /\ Len(run) > 0 /\ Len(Tail(run)) = Len(run) - 1
      /\ h = run[1] /\ Sorted(Tail(run))
      /\ \A j \in 1 .. Len(Tail(run)) :
            /\ j + 1 \in 1 .. Len(run) /\ Tail(run)[j] = run[j + 1]
            /\ ~Before(Tail(run)[j], h)
  BY <1>5, <1>7, SortedTail
<1> HIDE DEF h
<1>9. /\ out2 \in Seq(S) /\ Len(out2) = n + 1 /\ out2[n + 1] = h /\ out2 = out \o <<h>>
      /\ \A i \in 1..n : out2[i] = out[i]
  <2>1. out2 \in Seq(S) /\ Len(out2) = n + 1 /\ out2[n + 1] = h /\ \A i \in 1..n : out2[i] = out[i]
    <3>1. out \in Seq(S) /\ h \in S /\ Len(out) = n
      BY <1>1, <1>7
    <3>2. /\ out2 \in Seq(S) /\ Len(out2) = Len(out) + 1 /\ out2[Len(out) + 1] = h
          /\ \A i \in 1 .. Len(out) : out2[i] = out[i]
      BY <3>1, AppendProperties
    <3> QED BY <3>1, <3>2
  <2>2. out2 = out \o <<h>>
    BY <1>1, <1>7, AppendIsConcat
  <2> QED BY <2>1, <2>2
<1> HIDE DEF out2
<1>10. SameRows(out2 \o FlattenSeq(heap2), FlattenSeq(rows))
  <2> DEFINE rest == FlattenSeq(heap2)
  <2>1. rest \in Seq(S)
    BY <1>6, FlattenType
  <2> HIDE DEF rest
  <2>2. <<h>> \o rest \in Seq(S)
    BY <1>7, <2>1, ConcatProperties
  <2>3. SameRows(out, out) /\ SameRows(FlattenSeq(heap), <<h>> \o rest)
    BY <1>6 DEF SameRows, rest
  <2>4. SameRows(out \o FlattenSeq(heap), out \o (<<h>> \o rest))
    BY <1>1, <1>3, <2>2, <2>3, SameConcat
  <2>5. Three(out, <<h>>, rest, S)
    BY <1>1, <1>7, <2>1 DEF Three
  <2>6. (out \o <<h>>) \o rest = out \o (<<h>> \o rest)
    BY <2>5, Regroup
  <2>7. SameRows(out2 \o rest, FlattenSeq(rows))
    BY <1>1, <1>9, <2>4, <2>6 DEF SameRows
  <2> QED BY <2>7 DEF rest
<1>11. ASSUME NEW i \in 1..n PROVE ~Before(h, out[i])
  <2>1. 1 \in 1 .. Len(heap[k])
    BY <1>8
  <2> QED BY <1>1, <1>5, <1>8, <2>1
<1>12. Sorted(out2)
  <2> SUFFICES ASSUME NEW i \in 1 .. n + 1, NEW j \in 1 .. n + 1, i < j
               PROVE  ~Before(out2[j], out2[i])
    BY <1>9 DEF Sorted
  <2>1. i \in 1..n
    OBVIOUS
  <2>2. CASE j = n + 1
    BY <1>9, <1>11, <2>1, <2>2
  <2>3. CASE j # n + 1
    <3>1. j \in 1..n
      BY <2>3
    <3>2. ~Before(out[j], out[i])
      BY <1>1, <2>1, <3>1 DEF Sorted
    <3> QED BY <1>9, <2>1, <3>1, <3>2
  <2> QED BY <2>2, <2>3
<1>13. ASSUME NEW s \in 1 .. Len(heap)
       PROVE  /\ Sorted(heap2[s])
              /\ \A j \in 1 .. Len(heap2[s]), i \in 1 .. Len(out2) : ~Before(heap2[s][j], out2[i])
  <2>1. CASE s = k
    <3>1. Sorted(heap2[s])
      BY <1>6, <1>8, <2>1
    <3>2. ASSUME NEW j \in 1 .. Len(Tail(run)), NEW i \in 1 .. n + 1
          PROVE  ~Before(Tail(run)[j], out2[i])
      <4>1. CASE i = n + 1
        BY <1>8, <1>9, <4>1
      <4>2. CASE i # n + 1
        <5>1. i \in 1..n
          BY <4>2
        <5>2. ~Before(run[j + 1], out[i])
          BY <1>1, <1>5, <1>8, <5>1
        <5> QED BY <1>8, <1>9, <5>1, <5>2
      <4> QED BY <4>1, <4>2
    <3> HIDE DEF run
    <3> QED BY <1>6, <1>9, <2>1, <3>1, <3>2
  <2>2. CASE s # k
    <3>1. heap2[s] = heap[s] /\ Sorted(heap[s]) /\ heap[s] \in Seq(S)
      BY <1>1, <1>6, <2>2
    <3>2. ASSUME NEW j \in 1 .. Len(heap[s]), NEW i \in 1 .. n + 1
          PROVE  ~Before(heap[s][j], out2[i])
      <4>1. CASE i = n + 1
        <5>1. heap[s] # <<>> /\ Head(heap[s]) = heap[s][1] /\ heap[s][j] \in S
              /\ heap[s][1] \in S /\ j \in Int /\ 1 \in 1 .. Len(heap[s]) /\ (j = 1 \/ 1 < j)
          BY <3>1
        <5>2. ~Before(heap[s][1], h)
          BY <1>5, <5>1
        <5>3. ~Before(heap[s][j], heap[s][1])
          BY <3>1, <5>1 DEF Sorted, RowOrder
        <5>4. ~Before(heap[s][j], h)
          BY <1>7, <5>1, <5>2, <5>3 DEF RowOrder
        <5> QED BY <1>9, <4>1, <5>4
      <4>2. CASE i # n + 1
        <5>1. i \in 1..n
          BY <4>2
        <5>2. ~Before(heap[s][j], out[i])
          BY <1>1, <5>1
        <5> QED BY <1>9, <5>1, <5>2
      <4> QED BY <4>1, <4>2
    <3> QED BY <1>9, <3>1, <3>2
  <2> QED BY <2>1, <2>2
<1>14. /\ Pop(merge).heap = heap2 /\ Pop(merge).out = out2
       /\ Pop(merge) \in [heap : Seq(Seq(S)), out : Seq(S)]
  BY <1>2, <1>6, <1>9
<1> QED BY <1>6, <1>9, <1>10, <1>12, <1>13, <1>14 DEF MergeAt

\* Runs of part files, each of them sorted.
SortedRuns(runs, S) ==
    runs \in Seq(Seq(Seq(S))) /\ \A k \in 1 .. Len(runs) : Sorted(FlattenSeq(runs[k]))

AllRows(runs) == FlattenSeq(RowsOf(runs))

LEMMA RowsOfRuns ==
    ASSUME NEW S, NEW runs \in Seq(Seq(Seq(S)))
    PROVE  /\ RowsOf(runs) \in Seq(Seq(S)) /\ Len(RowsOf(runs)) = Len(runs)
           /\ \A k \in 1 .. Len(runs) : RowsOf(runs)[k] = FlattenSeq(runs[k])
           /\ AllRows(runs) \in Seq(S)
<1> DEFINE N == Len(runs)
           rows == [k \in 1..N |-> FlattenSeq(runs[k])]
<1>1. N \in Nat /\ DOMAIN runs = 1..N /\ \A k \in 1..N : runs[k] \in Seq(Seq(S))
  OBVIOUS
<1>2. \A k \in 1..N : FlattenSeq(runs[k]) \in Seq(S)
  BY <1>1, FlattenType
<1>3. RowsOf(runs) = rows
  BY <1>1 DEF RowsOf
<1> HIDE DEF N
<1>4. rows \in Seq(Seq(S)) /\ Len(rows) = N /\ \A k \in 1..N : rows[k] = FlattenSeq(runs[k])
  BY <1>1, <1>2
<1>5. FlattenSeq(rows) \in Seq(S)
  <2> HIDE DEF rows
  <2> QED BY <1>4, FlattenType
<1> QED BY <1>3, <1>4, <1>5 DEF AllRows, N

LEMMA MergeSorts ==
    ASSUME NEW S, RowOrder(S), NEW runs, SortedRuns(runs, S)
    PROVE  /\ KWayMerge(runs) \in Seq(S) /\ Sorted(KWayMerge(runs))
           /\ SameRows(KWayMerge(runs), AllRows(runs))
<1> DEFINE rows == RowsOf(runs)
           total == Len(FlattenSeq(rows))
           V == [heap : Seq(Seq(S)), out : Seq(S)]
           b == [heap |-> rows, out |-> <<>>]
           step == [n \in 1..total |-> [v \in V |-> IF Pop(v) \in V THEN Pop(v) ELSE v]]
           Merged(f) == [n \in 0..total |-> IF n = 0 THEN b ELSE Pop(f[n - 1])]
           merge == CHOOSE f : f = Merged(f)
<1>1. /\ rows \in Seq(Seq(S)) /\ FlattenSeq(rows) \in Seq(S) /\ total \in Nat
      /\ \A k \in 1 .. Len(rows) : Sorted(rows[k])
  BY RowsOfRuns DEF SortedRuns, AllRows
<1>2. KWayMerge(runs) = merge[total].out
  BY DEF KWayMerge
<1>3. b \in V /\ StepsOn(step, total, V)
  <2>1. b \in V
    BY <1>1
  <2> HIDE DEF total, V
  <2> QED BY <2>1 DEF StepsOn
<1> HIDE DEF rows
<1>4. MergeAt(b, rows, 0, S)
  <2>1. b.heap = rows /\ b.out = <<>> /\ <<>> \o FlattenSeq(rows) = FlattenSeq(rows)
    BY <1>1, ConcatEmptySeq
  <2>2. Len(<<>>) = 0 /\ Sorted(<<>>) /\ 1..0 = {}
    BY DEF Sorted
  <2> HIDE DEF b
  <2> QED BY <1>1, <1>3, <2>1, <2>2 DEF MergeAt, SameRows
<1> HIDE DEF total, V, b, step
<1>5. PICK f : Iterated(f, step, b, total, V)
  BY <1>1, <1>3, Iterates
<1>6. ASSUME NEW n \in 1..total, MergeAt(f[n - 1], rows, n - 1, S)
      PROVE  MergeAt(f[n], rows, n, S) /\ f[n] = Pop(f[n - 1])
  <2>1. n - 1 \in Nat /\ n - 1 < total /\ (n - 1) + 1 = n /\ n - 1 \in 0..total
    BY <1>1
  <2>2. MergeAt(Pop(f[n - 1]), rows, n, S)
    <3>1. MergeAt(Pop(f[n - 1]), rows, (n - 1) + 1, S)
      BY <1>1, <1>6, <2>1, PopStep DEF total
    <3> QED BY <2>1, <3>1
  <2>3. Pop(f[n - 1]) \in V
    BY <2>2 DEF MergeAt, V
  <2>4. f[n - 1] \in V /\ f[n] = step[n][f[n - 1]]
    BY <1>5, <2>1 DEF Iterated
  <2>5. f[n] = Pop(f[n - 1])
    BY <2>3, <2>4 DEF step
  <2> QED BY <2>2, <2>5
<1> DEFINE G == {n \in 0..total : MergeAt(f[n], rows, n, S)}
<1>7. 0 \in G
  BY <1>1, <1>4, <1>5 DEF Iterated
<1>8. ASSUME NEW n \in 1..total, n - 1 \in G PROVE n \in G
  <2>1. n \in 0..total
    BY <1>1
  <2> QED BY <1>6, <1>8, <2>1
<1> HIDE DEF G
<1>9. \A n \in 0..total : n \in G
  BY <1>1, <1>7, <1>8, SetInduction
<1>10. \A n \in 1..total : f[n] = Pop(f[n - 1])
  <2> TAKE n \in 1..total
  <2>1. n - 1 \in 0..total
    BY <1>1
  <2> QED BY <1>6, <1>9, <2>1 DEF G
<1>11. \A n \in 0..total : f[n] = IF n = 0 THEN b ELSE Pop(f[n - 1])
  <2> TAKE n \in 0..total
  <2>1. n # 0 => n \in 1..total
    BY <1>1
  <2> QED BY <1>5, <1>10, <2>1 DEF Iterated
<1>12. f = Merged(f)
  <2>1. f = [n \in 0..total |-> f[n]]
    BY <1>5 DEF Iterated
  <2>2. [n \in 0..total |-> f[n]] = [n \in 0..total |-> IF n = 0 THEN b ELSE Pop(f[n - 1])]
    BY <1>11
  <2> QED BY <2>1, <2>2
<1>13. merge = Merged(merge)
  <2> HIDE DEF Merged
  <2> QED BY <1>12, Zenon
<1> HIDE DEF merge
<1>14. \A n \in 0..total : merge[n] = IF n = 0 THEN b ELSE Pop(merge[n - 1])
  BY <1>13
<1> DEFINE H == {n \in 0..total : merge[n] = f[n]}
<1>15. \A n \in 0..total : n \in H
  <2>1. 0 \in H
    BY <1>1, <1>14, <1>11
  <2>2. ASSUME NEW n \in 1..total, n - 1 \in H PROVE n \in H
    <3>1. n \in 0..total /\ n # 0
      BY <1>1
    <3> QED BY <1>14, <1>10, <2>2, <3>1
  <2> HIDE DEF H
  <2> QED BY <1>1, <2>1, <2>2, SetInduction
<1>16. MergeAt(merge[total], rows, total, S)
  <2>1. total \in 0..total
    BY <1>1
  <2> QED BY <1>9, <1>15, <2>1 DEF G, H
<1> DEFINE m == merge[total]
<1>17. /\ m.out \in Seq(S) /\ Len(m.out) = total /\ Sorted(m.out) /\ m.heap \in Seq(Seq(S))
       /\ SameRows(m.out \o FlattenSeq(m.heap), FlattenSeq(rows))
  BY <1>16 DEF MergeAt
<1> HIDE DEF m
<1>18. FlattenSeq(m.heap) = <<>>
  <2>1. FlattenSeq(m.heap) \in Seq(S)
    BY <1>17, FlattenType
  <2>2. Len(m.out \o FlattenSeq(m.heap)) = Len(m.out) + Len(FlattenSeq(m.heap))
    BY <1>17, <2>1, ConcatProperties
  <2>3. Len(FlattenSeq(m.heap)) = 0
    <3>1. Len(m.out \o FlattenSeq(m.heap)) = total
      BY <1>17 DEF SameRows, total
    <3>2. Len(FlattenSeq(m.heap)) \in Nat
      BY <2>1
    <3>3. Len(m.out) = total /\ total \in Nat
      BY <1>1, <1>17
    <3> DEFINE joined == Len(m.out \o FlattenSeq(m.heap))
               popped == Len(m.out)
               left == Len(FlattenSeq(m.heap))
    <3>4. joined = popped + left /\ joined = total /\ popped = total
      BY <2>2, <3>1, <3>3
    <3>5. left \in Nat
      BY <3>2
    <3> HIDE DEF joined, popped, left
    <3>6. left = 0
      BY <3>3, <3>4, <3>5
    <3> QED BY <3>6 DEF left
  <2> QED BY <2>1, <2>3
<1>19. SameRows(m.out, FlattenSeq(rows))
  <2>1. m.out \o <<>> = m.out
    BY <1>17, ConcatEmptySeq
  <2> QED BY <1>17, <1>18, <2>1
<1> QED BY <1>2, <1>17, <1>19 DEF m, AllRows, rows

-----------------------------------------------------------------------------
(* Levels of merges *)

LEMMA RowsOfConcat ==
    ASSUME NEW S, NEW a \in Seq(Seq(Seq(S))), NEW b \in Seq(Seq(Seq(S)))
    PROVE  AllRows(a \o b) = AllRows(a) \o AllRows(b)
<1> DEFINE M == Len(a)
           N == Len(b)
           both == a \o b
           p == RowsOf(a)
           q == RowsOf(b)
<1>1. /\ M \in Nat /\ N \in Nat /\ both \in Seq(Seq(Seq(S))) /\ Len(both) = M + N
      /\ \A i \in 1 .. M + N : both[i] = IF i <= M THEN a[i] ELSE b[i - M]
  BY ConcatProperties
<1>2. /\ p \in Seq(Seq(S)) /\ Len(p) = M /\ \A k \in 1..M : p[k] = FlattenSeq(a[k])
      /\ q \in Seq(Seq(S)) /\ Len(q) = N /\ \A k \in 1..N : q[k] = FlattenSeq(b[k])
  BY RowsOfRuns
<1> HIDE DEF both, M, N
<1>3. /\ RowsOf(both) \in Seq(Seq(S)) /\ Len(RowsOf(both)) = M + N
      /\ \A i \in 1 .. M + N : RowsOf(both)[i] = FlattenSeq(both[i])
  BY <1>1, RowsOfRuns
<1> HIDE DEF p, q
<1>4. /\ p \o q \in Seq(Seq(S)) /\ Len(p \o q) = M + N
      /\ \A i \in 1 .. M + N : (p \o q)[i] = IF i <= M THEN p[i] ELSE q[i - M]
  BY <1>2, ConcatProperties
<1>5. ASSUME NEW i \in 1 .. M + N PROVE RowsOf(both)[i] = (p \o q)[i]
  <2>1. RowsOf(both)[i] = FlattenSeq(both[i])
    BY <1>3
  <2>2. CASE i <= M
    <3>1. i \in 1..M
      BY <1>1, <2>2
    <3>2. both[i] = a[i] /\ (p \o q)[i] = p[i]
      <4>1. both[i] = a[i]
        BY <1>1, <2>2
      <4>2. (p \o q)[i] = p[i]
        BY <1>4, <2>2
      <4> QED BY <4>1, <4>2
    <3>3. p[i] = FlattenSeq(a[i])
      BY <1>2, <3>1
    <3> QED BY <2>1, <3>2, <3>3
  <2>3. CASE ~(i <= M)
    <3>1. i - M \in 1..N
      BY <1>1, <2>3
    <3>2. both[i] = b[i - M] /\ (p \o q)[i] = q[i - M]
      <4>1. both[i] = b[i - M]
        BY <1>1, <2>3
      <4>2. (p \o q)[i] = q[i - M]
        BY <1>4, <2>3
      <4> QED BY <4>1, <4>2
    <3>3. q[i - M] = FlattenSeq(b[i - M])
      BY <1>2, <3>1
    <3> QED BY <2>1, <3>2, <3>3
  <2> QED BY <2>2, <2>3
<1>6. RowsOf(both) = p \o q
  BY <1>1, <1>3, <1>4, <1>5, SeqEqual
<1>7. FlattenSeq(p \o q) = FlattenSeq(p) \o FlattenSeq(q)
  BY <1>2, FlattenConcat
<1> QED BY <1>6, <1>7 DEF AllRows, both, p, q

LEMMA RowsOfOne ==
    ASSUME NEW S, NEW runs \in Seq(Seq(Seq(S))), Len(runs) = 1
    PROVE  AllRows(runs) = FlattenSeq(runs[1])
<1> DEFINE rows == RowsOf(runs)
<1>1. rows \in Seq(Seq(S)) /\ Len(rows) = 1 /\ rows[1] = FlattenSeq(runs[1])
  <2>1. 1 \in 1 .. Len(runs)
    OBVIOUS
  <2> QED BY <2>1, RowsOfRuns
<1> HIDE DEF rows
<1>2. PICK f : Flattens(f, rows, S)
  BY <1>1, FlattenUnfolds
<1>3. rows[1] \in Seq(S) /\ f[0] = <<>> /\ f[1] = f[0] \o rows[1] /\ FlattenSeq(rows) = f[1]
  <2>1. 1 \in 1 .. Len(rows) /\ 1 - 1 = 0
    BY <1>1
  <2>2. f[1] = f[1 - 1] \o rows[1]
    BY <1>2, <2>1 DEF Flattens
  <2>3. rows[1] \in Seq(S)
    BY <1>1, <2>1
  <2>4. f[0] = <<>> /\ FlattenSeq(rows) = f[Len(rows)]
    BY <1>2 DEF Flattens
  <2> QED BY <1>1, <2>1, <2>2, <2>3, <2>4
<1>4. <<>> \o rows[1] = rows[1]
  BY <1>3, ConcatEmptySeq
<1> QED BY <1>1, <1>3, <1>4 DEF AllRows, rows

LEMMA GroupSorts ==
    ASSUME NEW S, RowOrder(S), SortRunRows \in Nat \ {0},
           NEW group, SortedRuns(group, S), group # <<>>
    PROVE  /\ MergeFanInGroup(group) \in Seq(Seq(S))
           /\ Sorted(FlattenSeq(MergeFanInGroup(group)))
           /\ SameRows(FlattenSeq(MergeFanInGroup(group)), AllRows(group))
<1>1. CASE Len(group) = 1
  <2>1. 1 \in 1 .. Len(group) /\ group \in Seq(Seq(Seq(S))) /\ group[1] \in Seq(Seq(S))
        /\ Sorted(FlattenSeq(group[1]))
    BY <1>1 DEF SortedRuns
  <2>2. AllRows(group) = FlattenSeq(group[1])
    BY <1>1, <2>1, RowsOfOne
  <2> QED BY <1>1, <2>1, <2>2 DEF MergeFanInGroup, SameRows
<1>2. CASE Len(group) # 1
  <2> DEFINE merged == KWayMerge(group)
  <2>1. merged \in Seq(S) /\ Sorted(merged) /\ SameRows(merged, AllRows(group))
    BY MergeSorts
  <2>2. MergeFanInGroup(group) = Cut(merged, SortRunRows)
    BY <1>2 DEF MergeFanInGroup
  <2> HIDE DEF merged
  <2>3. Cut(merged, SortRunRows) \in Seq(Seq(S)) /\ FlattenSeq(Cut(merged, SortRunRows)) = merged
    BY <2>1, CutFlattens
  <2> QED BY <2>1, <2>2, <2>3
<1> QED BY <1>1, <1>2

LEMMA NoRows ==
    ASSUME NEW S
    PROVE  AllRows(<<>>) = <<>>
<1>1. <<>> \in Seq(Seq(Seq(S))) /\ Len(<<>>) = 0
  OBVIOUS
<1>2. RowsOf(<<>>) \in Seq(Seq(S)) /\ Len(RowsOf(<<>>)) = 0
  BY <1>1, RowsOfRuns
<1>3. RowsOf(<<>>) = <<>>
  BY <1>2
<1> QED BY <1>3, FlattenEmpty DEF AllRows

LEMMA GroupsOfRuns ==
    ASSUME NEW S, NEW runs, SortedRuns(runs, S), MergeFanIn \in Nat \ {0}
    PROVE  \A g \in 1 .. Len(Cut(runs, MergeFanIn)) :
              SortedRuns(Cut(runs, MergeFanIn)[g], S) /\ Cut(runs, MergeFanIn)[g] # <<>>
<1> DEFINE groups == Cut(runs, MergeFanIn)
           N == Len(groups)
           T == Seq(Seq(S))
<1>1. runs \in Seq(T) /\ \A k \in 1 .. Len(runs) : Sorted(FlattenSeq(runs[k]))
  BY DEF SortedRuns
<1>2. PICK c : CutsAt(c, runs, MergeFanIn)
  <2> HIDE DEF T
  <2> QED BY <1>1, CutBounds
<1>3. /\ N \in Nat /\ c \in [0..N -> 0 .. Len(runs)]
      /\ \A w \in 1..N : c[w - 1] < c[w] /\ groups[w] = SubSeq(runs, c[w - 1] + 1, c[w])
  BY <1>2 DEF CutsAt
<1> HIDE DEF groups, N
<1>4. ASSUME NEW g \in 1..N PROVE SortedRuns(groups[g], S) /\ groups[g] # <<>>
  <2> DEFINE a == c[g - 1]
             b == c[g]
  <2>1. g - 1 \in 0..N /\ g \in 0..N
    BY <1>3
  <2>2. /\ a \in 0 .. Len(runs) /\ b \in 0 .. Len(runs) /\ a < b
        /\ groups[g] = SubSeq(runs, a + 1, b)
    BY <1>3, <2>1
  <2> HIDE DEF a, b, T
  <2>3. /\ SubSeq(runs, a + 1, b) \in Seq(T) /\ Len(SubSeq(runs, a + 1, b)) = b - a
        /\ \A i \in 1 .. b - a : SubSeq(runs, a + 1, b)[i] = runs[a + i]
    BY <1>1, <2>2
  <2>4. ASSUME NEW i \in 1 .. b - a PROVE Sorted(FlattenSeq(SubSeq(runs, a + 1, b)[i]))
    <3>1. a + i \in 1 .. Len(runs)
      BY <1>1, <2>2
    <3> QED BY <1>1, <2>3, <3>1
  <2>5. Len(groups[g]) # 0
    BY <2>2, <2>3
  <2>6. groups[g] # <<>>
    BY <2>5
  <2>7. groups[g] \in Seq(T) /\ \A i \in 1 .. Len(groups[g]) : Sorted(FlattenSeq(groups[g][i]))
    BY <2>2, <2>3, <2>4
  <2> QED BY <2>6, <2>7 DEF SortedRuns, T
<1> QED BY <1>4 DEF groups, N

LEMMA LevelSorts ==
    ASSUME NEW S, RowOrder(S), SortRunRows \in Nat \ {0}, MergeFanIn \in Nat \ {0},
           NEW runs, SortedRuns(runs, S)
    PROVE  /\ SortedRuns(MergeLevel(runs), S)
           /\ SameRows(AllRows(MergeLevel(runs)), AllRows(runs))
           /\ Len(MergeLevel(runs)) = Len(Cut(runs, MergeFanIn))
<1> DEFINE groups == Cut(runs, MergeFanIn)
           N == Len(groups)
           T == Seq(Seq(S))
           level == MergeLevel(runs)
           rows == RowsOf(level)
<1>0. runs \in Seq(T)
  BY DEF SortedRuns
<1>1. groups \in Seq(Seq(T)) /\ FlattenSeq(groups) = runs
  <2> HIDE DEF T
  <2> QED BY <1>0, CutFlattens
<1>2. \A g \in 1..N : SortedRuns(groups[g], S) /\ groups[g] # <<>>
  BY GroupsOfRuns
<1>3. level = [g \in 1..N |-> MergeFanInGroup(groups[g])]
  <2>1. DOMAIN groups = 1..N
    <3> HIDE DEF groups, T
    <3> QED BY <1>1
  <2> QED BY <2>1 DEF MergeLevel
<1>4. N \in Nat
  <2> HIDE DEF groups, T
  <2> QED BY <1>1
<1> HIDE DEF groups, N, level
<1>5. ASSUME NEW g \in 1..N
      PROVE  /\ MergeFanInGroup(groups[g]) \in T
             /\ Sorted(FlattenSeq(MergeFanInGroup(groups[g])))
             /\ SameRows(FlattenSeq(MergeFanInGroup(groups[g])), AllRows(groups[g]))
  BY <1>2, GroupSorts
<1>6. /\ level \in Seq(T) /\ Len(level) = N
      /\ \A g \in 1..N : level[g] = MergeFanInGroup(groups[g])
  <2> HIDE DEF T
  <2> QED BY <1>3, <1>4, <1>5
<1>7. SortedRuns(level, S)
  BY <1>5, <1>6 DEF SortedRuns
<1>8. /\ rows \in Seq(Seq(S)) /\ Len(rows) = N
      /\ \A g \in 1..N : rows[g] = FlattenSeq(level[g])
  BY <1>6, RowsOfRuns
<1> HIDE DEF rows, T
<1>9. PICK f : Flattens(f, groups, T)
  BY <1>1, FlattenUnfolds
<1>10. PICK h : Flattens(h, rows, S)
  BY <1>8, FlattenUnfolds
<1> DEFINE G == {i \in 0..N : SameRows(h[i], AllRows(f[i]))}
<1>11. 0 \in G
  <2>1. f[0] = <<>> /\ h[0] = <<>>
    BY <1>9, <1>10 DEF Flattens
  <2>2. SameRows(h[0], AllRows(f[0]))
    BY <2>1, NoRows DEF SameRows
  <2> QED BY <1>4, <2>2
<1>12. ASSUME NEW n \in 1..N, n - 1 \in G PROVE n \in G
  <2>1. n \in 0..N /\ n \in 1 .. Len(groups) /\ n \in 1 .. Len(rows)
    BY <1>4, <1>8 DEF N
  <2>2. f[n - 1] \in Seq(T) /\ groups[n] \in Seq(T) /\ f[n] = f[n - 1] \o groups[n]
    BY <1>9, <2>1, FlattenStep DEF Flattens
  <2>3. h[n - 1] \in Seq(S) /\ rows[n] \in Seq(S) /\ h[n] = h[n - 1] \o rows[n]
    BY <1>10, <2>1, FlattenStep DEF Flattens
  <2>4. AllRows(f[n]) = AllRows(f[n - 1]) \o AllRows(groups[n])
    BY <2>2, RowsOfConcat DEF T
  <2>5. SameRows(h[n - 1], AllRows(f[n - 1]))
    BY <1>12
  <2>6. SameRows(rows[n], AllRows(groups[n]))
    BY <1>5, <1>6, <1>8
  <2>7. AllRows(f[n - 1]) \in Seq(S) /\ AllRows(groups[n]) \in Seq(S)
    BY <2>2, RowsOfRuns DEF T
  <2>8. SameRows(h[n - 1] \o rows[n], AllRows(f[n - 1]) \o AllRows(groups[n]))
    BY <2>3, <2>5, <2>6, <2>7, SameConcat
  <2>9. SameRows(h[n], AllRows(f[n]))
    BY <2>3, <2>4, <2>8
  <2> QED BY <2>1, <2>9
<1> HIDE DEF G
<1>13. \A i \in 0..N : i \in G
  BY <1>4, <1>11, <1>12, SetInduction
<1>14. SameRows(h[N], AllRows(f[N]))
  <2>1. N \in 0..N
    BY <1>4
  <2> QED BY <1>13, <2>1 DEF G
<1>15. h[N] = AllRows(level) /\ f[N] = runs
  <2>1. FlattenSeq(rows) = h[Len(rows)] /\ FlattenSeq(groups) = f[Len(groups)]
    BY <1>9, <1>10 DEF Flattens
  <2> QED BY <1>1, <1>8, <2>1 DEF AllRows, rows, N
<1> QED BY <1>6, <1>7, <1>14, <1>15 DEF level, groups, N

-----------------------------------------------------------------------------
(* Level after level, until few enough runs are left *)

LEMMA FewerRuns ==
    ASSUME NEW len \in Nat, NEW n \in Nat \ {0, 1}, len > n
    PROVE  (len + n - 1) \div n < len
<1> DEFINE q == (len + n - 1) \div n
<1>1. q \in Nat /\ q * n <= len + n - 1
  <2>1. len + n - 1 \in Nat
    OBVIOUS
  <2> QED BY <2>1, Quotient
<1> HIDE DEF q
<1>2. SUFFICES ASSUME q >= len PROVE FALSE
  BY <1>1 DEF q
<1>3. len * n <= q * n
  BY <1>1, <1>2, Multiples
<1>4. 2 * len <= n * len
  BY Multiples
<1>5. n * len = len * n /\ len * n \in Int /\ q * n \in Int
  BY <1>1
<1> QED BY <1>1, <1>3, <1>4, <1>5

\* What a level of the loop keeps of the runs it began with.
ReducedAt(now, runs, n, S) ==
    /\ SortedRuns(now, S) /\ SameRows(AllRows(now), AllRows(runs))
    /\ Len(now) <= MergeFanIn \/ Len(now) + n <= Len(runs)

LEMMA ReduceStep ==
    ASSUME NEW S, RowOrder(S), SortRunRows \in Nat \ {0}, MergeFanIn \in Nat \ {0, 1},
           NEW runs, SortedRuns(runs, S), NEW now, NEW n \in Nat, ReducedAt(now, runs, n, S)
    PROVE  ReducedAt(Reduced(now), runs, n + 1, S)
<1>0. Len(now) \in Nat /\ Len(runs) \in Nat
  BY DEF ReducedAt, SortedRuns
<1>1. CASE ~(Len(now) > MergeFanIn)
  <2>1. Reduced(now) = now
    BY <1>1 DEF Reduced
  <2> QED BY <1>0, <1>1, <2>1 DEF ReducedAt
<1>2. CASE Len(now) > MergeFanIn
  <2> DEFINE next == MergeLevel(now)
  <2>1. Reduced(now) = next
    BY <1>2 DEF Reduced
  <2>2. SortedRuns(now, S) /\ MergeFanIn \in Nat \ {0}
    BY DEF ReducedAt
  <2>3. SortedRuns(next, S) /\ SameRows(AllRows(next), AllRows(now))
        /\ Len(next) = Len(Cut(now, MergeFanIn))
    BY <2>2, LevelSorts
  <2> HIDE DEF next
  <2>4. Len(Cut(now, MergeFanIn)) = (Len(now) + MergeFanIn - 1) \div MergeFanIn
    <3>1. (Len(now) + MergeFanIn - 1) \div MergeFanIn \in Nat
      <4>1. Len(now) + MergeFanIn - 1 \in Nat
        BY <1>0
      <4> QED BY <4>1, Quotient
    <3> DEFINE count == (Len(now) + MergeFanIn - 1) \div MergeFanIn
               piece(i) == SubSeq(now, (i - 1) * MergeFanIn + 1, Min({i * MergeFanIn, Len(now)}))
    <3>2. Cut(now, MergeFanIn) = [i \in 1..count |-> piece(i)]
      BY DEF Cut
    <3> HIDE DEF count, piece
    <3>3. Len(Cut(now, MergeFanIn)) = count
      <4>1. count \in Nat
        BY <3>1 DEF count
      <4> QED BY <3>2, <4>1
    <3> QED BY <3>3 DEF count
  <2>5. Len(next) < Len(now) /\ Len(next) \in Nat
    <3>1. (Len(now) + MergeFanIn - 1) \div MergeFanIn < Len(now)
      BY <1>0, <1>2, FewerRuns
    <3>2. Len(next) \in Nat
      BY <2>3 DEF SortedRuns
    <3> QED BY <2>3, <2>4, <3>1, <3>2
  <2>6. Len(now) + n <= Len(runs)
    BY <1>0, <1>2 DEF ReducedAt
  <2>7. Len(next) + (n + 1) <= Len(runs)
    BY <1>0, <2>5, <2>6
  <2>8. SameRows(AllRows(next), AllRows(runs))
    BY <2>3 DEF ReducedAt, SameRows
  <2> QED BY <2>1, <2>3, <2>7, <2>8 DEF ReducedAt
<1> QED BY <1>1, <1>2

\* The loop ends with few enough runs, and keeps their rows.
LEMMA ReduceSorts ==
    ASSUME NEW S, RowOrder(S), SortRunRows \in Nat \ {0}, MergeFanIn \in Nat \ {0, 1},
           NEW runs, SortedRuns(runs, S)
    PROVE  /\ SortedRuns(ReduceSortedRuns(runs), S)
           /\ SameRows(AllRows(ReduceSortedRuns(runs)), AllRows(runs))
           /\ Len(ReduceSortedRuns(runs)) <= MergeFanIn
<1> DEFINE N == Len(runs)
           V == Seq(Seq(Seq(S)))
           step == [n \in 1..N |-> [v \in V |-> IF Reduced(v) \in V THEN Reduced(v) ELSE v]]
           Levels(f) == [n \in 0..N |-> IF n = 0 THEN runs ELSE Reduced(f[n - 1])]
           level == CHOOSE f : f = Levels(f)
<1>1. N \in Nat /\ runs \in V
  BY DEF SortedRuns
<1>2. ReduceSortedRuns(runs) = level[N]
  BY DEF ReduceSortedRuns
<1>3. StepsOn(step, N, V)
  <2> HIDE DEF V, N
  <2> QED BY DEF StepsOn
<1>4. ReducedAt(runs, runs, 0, S)
  BY <1>1 DEF ReducedAt, SameRows
<1> HIDE DEF N, V, step
<1>5. PICK f : Iterated(f, step, runs, N, V)
  BY <1>1, <1>3, Iterates
<1>6. ASSUME NEW n \in 1..N, ReducedAt(f[n - 1], runs, n - 1, S)
      PROVE  ReducedAt(f[n], runs, n, S) /\ f[n] = Reduced(f[n - 1])
  <2>1. n - 1 \in Nat /\ (n - 1) + 1 = n /\ n - 1 \in 0..N
    BY <1>1
  <2>2. ReducedAt(Reduced(f[n - 1]), runs, n, S)
    <3>1. ReducedAt(Reduced(f[n - 1]), runs, (n - 1) + 1, S)
      BY <1>6, <2>1, ReduceStep
    <3> QED BY <2>1, <3>1
  <2>3. Reduced(f[n - 1]) \in V
    BY <2>2 DEF ReducedAt, SortedRuns, V
  <2>4. f[n - 1] \in V /\ f[n] = step[n][f[n - 1]]
    BY <1>5, <2>1 DEF Iterated
  <2>5. f[n] = Reduced(f[n - 1])
    BY <2>3, <2>4 DEF step
  <2> QED BY <2>2, <2>5
<1> DEFINE G == {n \in 0..N : ReducedAt(f[n], runs, n, S)}
<1>7. 0 \in G
  BY <1>1, <1>4, <1>5 DEF Iterated
<1>8. ASSUME NEW n \in 1..N, n - 1 \in G PROVE n \in G
  <2>1. n \in 0..N
    BY <1>1
  <2> QED BY <1>6, <1>8, <2>1
<1> HIDE DEF G
<1>9. \A n \in 0..N : n \in G
  BY <1>1, <1>7, <1>8, SetInduction
<1>10. \A n \in 1..N : f[n] = Reduced(f[n - 1])
  <2> TAKE n \in 1..N
  <2>1. n - 1 \in 0..N
    BY <1>1
  <2> QED BY <1>6, <1>9, <2>1 DEF G
<1>11. \A n \in 0..N : f[n] = IF n = 0 THEN runs ELSE Reduced(f[n - 1])
  <2> TAKE n \in 0..N
  <2>1. n # 0 => n \in 1..N
    BY <1>1
  <2> QED BY <1>5, <1>10, <2>1 DEF Iterated
<1>12. f = Levels(f)
  <2>1. f = [n \in 0..N |-> f[n]]
    BY <1>5 DEF Iterated
  <2>2. [n \in 0..N |-> f[n]] = [n \in 0..N |-> IF n = 0 THEN runs ELSE Reduced(f[n - 1])]
    BY <1>11
  <2> QED BY <2>1, <2>2
<1>13. level = Levels(level)
  <2> HIDE DEF Levels
  <2> QED BY <1>12, Zenon
<1> HIDE DEF level
<1>14. \A n \in 0..N : level[n] = IF n = 0 THEN runs ELSE Reduced(level[n - 1])
  BY <1>13
<1> DEFINE H == {n \in 0..N : level[n] = f[n]}
<1>15. \A n \in 0..N : n \in H
  <2>1. 0 \in H
    BY <1>1, <1>14, <1>11
  <2>2. ASSUME NEW n \in 1..N, n - 1 \in H PROVE n \in H
    <3>1. n \in 0..N /\ n # 0
      BY <1>1
    <3> QED BY <1>14, <1>10, <2>2, <3>1
  <2> HIDE DEF H
  <2> QED BY <1>1, <2>1, <2>2, SetInduction
<1>16. ReducedAt(level[N], runs, N, S)
  <2>1. N \in 0..N
    BY <1>1
  <2> QED BY <1>9, <1>15, <2>1 DEF G, H
<1>17. Len(level[N]) <= MergeFanIn
  <2>1. Len(level[N]) \in Nat
    BY <1>16 DEF ReducedAt, SortedRuns
  <2>2. Len(level[N]) <= MergeFanIn \/ Len(level[N]) + N <= N
    BY <1>16 DEF ReducedAt, N
  <2> QED BY <1>1, <2>1, <2>2
<1> QED BY <1>2, <1>16, <1>17 DEF ReducedAt

-----------------------------------------------------------------------------
(* The sort *)

LEMMA FlattenOne ==
    ASSUME NEW S, NEW s \in Seq(S)
    PROVE  FlattenSeq(<<s>>) = s
<1>1. <<>> \in Seq(Seq(S)) /\ Append(<<>>, s) = <<s>>
  OBVIOUS
<1>2. FlattenSeq(Append(<<>>, s)) = FlattenSeq(<<>>) \o s
  BY <1>1, FlattenAppend
<1>3. <<>> \o s = s
  BY ConcatEmptySeq
<1> QED BY <1>1, <1>2, <1>3, FlattenEmpty

LEMMA BatchesSorted ==
    ASSUME NEW S, RowOrder(S), NEW size \in Nat \ {0}, NEW rows \in Seq(S)
    PROVE  /\ SortedRuns(SortedBatches(rows, size), S)
           /\ SameRows(AllRows(SortedBatches(rows, size)), rows)
<1> DEFINE batches == Cut(rows, size)
           N == Len(batches)
           runs == SortedBatches(rows, size)
           T == Seq(Seq(S))
<1>1. batches \in Seq(Seq(S)) /\ FlattenSeq(batches) = rows
  BY CutFlattens
<1>2. runs = [i \in DOMAIN batches |-> <<SortBatch(batches[i])>>]
  BY DEF SortedBatches
<1> HIDE DEF batches, runs
<1>3. N \in Nat /\ DOMAIN batches = 1..N /\ \A i \in 1..N : batches[i] \in Seq(S)
  BY <1>1
<1>4. ASSUME NEW i \in 1..N
      PROVE  /\ SortBatch(batches[i]) \in Seq(S) /\ Sorted(SortBatch(batches[i]))
             /\ SameRows(SortBatch(batches[i]), batches[i])
  BY <1>3, BatchSorted
<1>5. ASSUME NEW i \in 1..N
      PROVE  <<SortBatch(batches[i])>> \in T /\ FlattenSeq(<<SortBatch(batches[i])>>) = SortBatch(batches[i])
  BY <1>4, FlattenOne
<1> HIDE DEF N, T
<1>6. /\ runs \in Seq(T) /\ Len(runs) = N
      /\ \A i \in 1..N : runs[i] = <<SortBatch(batches[i])>>
  BY <1>2, <1>3, <1>5
<1>7. SortedRuns(runs, S)
  BY <1>4, <1>5, <1>6 DEF SortedRuns, T
<1>8. /\ RowsOf(runs) \in Seq(Seq(S)) /\ Len(RowsOf(runs)) = N
      /\ \A i \in 1..N : RowsOf(runs)[i] = SortBatch(batches[i])
  <2>1. /\ RowsOf(runs) \in Seq(Seq(S)) /\ Len(RowsOf(runs)) = Len(runs)
        /\ \A k \in 1 .. Len(runs) : RowsOf(runs)[k] = FlattenSeq(runs[k])
    BY <1>6, RowsOfRuns DEF T
  <2> QED BY <1>5, <1>6, <2>1
<1>9. SameRows(FlattenSeq(RowsOf(runs)), FlattenSeq(batches))
  <2>1. Len(RowsOf(runs)) = Len(batches)
    BY <1>8 DEF N
  <2>2. \A i \in 1 .. Len(RowsOf(runs)) : SameRows(RowsOf(runs)[i], batches[i])
    BY <1>4, <1>8
  <2> QED BY <1>1, <1>8, <2>1, <2>2, FlattenSame
<1> QED BY <1>1, <1>7, <1>9 DEF AllRows, runs

LEMMA ExternalSorts ==
    ASSUME NEW S, RowOrder(S), ScanBatch \in Nat \ {0}, NEW rows \in Seq(S)
    PROVE  /\ SortedRuns(ExternalSort(rows), S)
           /\ SameRows(AllRows(ExternalSort(rows)), rows)
BY BatchesSorted DEF ExternalSort

\* What the loops of _external_sort and _reduce_sorted_runs promise together:
\* whatever the sizes of the batches, parts and groups, the rows come out in
\* the order of their keys, and each as often as it went in.
THEOREM SortedRowsSorts ==
    ASSUME NEW S, RowOrder(S), ScanBatch \in Nat \ {0}, SortRunRows \in Nat \ {0},
           MergeFanIn \in Nat \ {0, 1}, NEW rows \in Seq(S)
    PROVE  /\ SortedRows(rows) \in Seq(S) /\ Sorted(SortedRows(rows))
           /\ SameRows(SortedRows(rows), rows)
<1> DEFINE runs == ExternalSort(rows)
<1>1. SortedRuns(runs, S) /\ SameRows(AllRows(runs), rows)
  BY ExternalSorts
<1>2. SortedRows(rows) = IF Len(runs) <= 1 THEN FlattenSeq(FlattenSeq(runs))
                         ELSE KWayMerge(ReduceSortedRuns(runs))
  BY DEF SortedRows
<1> HIDE DEF runs
<1>3. runs \in Seq(Seq(Seq(S))) /\ Len(runs) \in Nat
  BY <1>1 DEF SortedRuns
<1>4. CASE Len(runs) = 0
  <2>1. runs = <<>>
    BY <1>3, <1>4
  <2>2. SortedRows(rows) = <<>> /\ AllRows(runs) = <<>>
    BY <1>2, <1>4, <2>1, FlattenEmpty, NoRows
  <2>3. <<>> \in Seq(S) /\ Sorted(<<>>)
    BY DEF Sorted
  <2> QED BY <1>1, <2>2, <2>3
<1>5. CASE Len(runs) = 1
  <2>1. runs = <<runs[1]>> /\ runs[1] \in Seq(Seq(S)) /\ 1 \in 1 .. Len(runs)
    <3> DEFINE T == Seq(Seq(S))
    <3>1. runs \in Seq(T) /\ Len(runs) = 1
      BY <1>3, <1>5
    <3> HIDE DEF T
    <3>2. 1 \in 1 .. Len(runs) /\ runs[1] \in T
      <4>1. 1 \in 1 .. Len(runs)
        BY <1>5
      <4> QED BY <3>1, <4>1, ElementOfSeq
    <3>3. runs = <<runs[1]>>
      BY <3>1, <3>2
    <3> QED BY <3>2, <3>3 DEF T
  <2>2. FlattenSeq(runs) = runs[1]
    BY <2>1, FlattenOne
  <2>3. SortedRows(rows) = FlattenSeq(runs[1])
    BY <1>2, <1>5, <2>2
  <2>4. AllRows(runs) = FlattenSeq(runs[1])
    BY <1>3, <1>5, RowsOfOne
  <2>5. FlattenSeq(runs[1]) \in Seq(S) /\ Sorted(FlattenSeq(runs[1]))
    BY <1>1, <2>1, FlattenType DEF SortedRuns
  <2> QED BY <1>1, <2>3, <2>4, <2>5
<1>6. CASE Len(runs) > 1
  <2> DEFINE few == ReduceSortedRuns(runs)
  <2>1. SortedRuns(few, S) /\ SameRows(AllRows(few), AllRows(runs))
    BY <1>1, ReduceSorts
  <2>2. SortedRows(rows) = KWayMerge(few)
    BY <1>2, <1>3, <1>6
  <2> HIDE DEF few
  <2>3. KWayMerge(few) \in Seq(S) /\ Sorted(KWayMerge(few)) /\ SameRows(KWayMerge(few), AllRows(few))
    BY <2>1, MergeSorts
  <2> QED BY <1>1, <2>1, <2>2, <2>3 DEF SameRows
<1>7. Len(runs) = 0 \/ Len(runs) = 1 \/ Len(runs) > 1
  <2>1. PICK n \in Nat : n = Len(runs)
    BY <1>3
  <2>2. n = 0 \/ n = 1 \/ n > 1
    OBVIOUS
  <2> QED BY <2>1, <2>2
<1> QED BY <1>4, <1>5, <1>6, <1>7

\* No merge of a sort opens more than MergeFanIn runs at a time: neither the
\* groups of a level, whatever sorted runs it gets, nor the last merge, which
\* streams what the loop of _reduce_sorted_runs leaves.
THEOREM FanInBounded ==
    ASSUME NEW S, RowOrder(S), ScanBatch \in Nat \ {0}, SortRunRows \in Nat \ {0},
           MergeFanIn \in Nat \ {0, 1}, NEW rows \in Seq(S)
    PROVE  /\ Len(ReduceSortedRuns(ExternalSort(rows))) <= MergeFanIn
           /\ \A runs : SortedRuns(runs, S) =>
                 \A g \in DOMAIN Cut(runs, MergeFanIn) : Len(Cut(runs, MergeFanIn)[g]) <= MergeFanIn
<1>1. Len(ReduceSortedRuns(ExternalSort(rows))) <= MergeFanIn
  BY ExternalSorts, ReduceSorts
<1>2. ASSUME NEW runs, SortedRuns(runs, S)
      PROVE  \A g \in DOMAIN Cut(runs, MergeFanIn) : Len(Cut(runs, MergeFanIn)[g]) <= MergeFanIn
  <2> DEFINE T == Seq(Seq(S))
  <2>1. runs \in Seq(T) /\ MergeFanIn \in Nat \ {0}
    BY <1>2 DEF SortedRuns
  <2> HIDE DEF T
  <2> QED BY <2>1, CutFlattens
<1> QED BY <1>1, <1>2
=============================================================================
