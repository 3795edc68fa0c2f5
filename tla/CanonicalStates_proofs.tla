----------------------- MODULE CanonicalStates_proofs -----------------------
(* Proofs about the canonical states that ReplayInputs makes of files of rows, *)
(* for rows, files, buckets and limits of any values: a state is what the rows *)
(* say, whatever part files, runs, passes, jobs and waves it went through.     *)
EXTENDS ReplayInputs, FiniteSetTheorems, SequenceTheorems, TLAPS

\* The facts about sequences are those of the proofs about SpillSort.
Facts == INSTANCE SpillSort_proofs WITH Before <- ByTime

\* Their library operators are those used here.
LEMMA SameLibrary ==
    /\ \A s : Facts!FlattenSeq(s) = FlattenSeq(s)
    /\ \A T : Facts!Min(T) = Min(T)
<1>1. \A s : Facts!FlattenSeq(s) = FlattenSeq(s)
  BY DEF Facts!FlattenSeq, FlattenSeq
<1>2. \A T : Facts!Min(T) = Min(T)
  BY DEF Facts!Min, Min
<1> QED BY <1>1, <1>2

\* The sorts of the two orders of rows, and of numbers.
IdentityFacts == INSTANCE SpillSort_proofs WITH Before <- ByIdentity
NumberFacts == INSTANCE SpillSort_proofs WITH Before <- <

\* The sort of rows by time is the one proved correct.
LEMMA SameTimeSort == \A rows : Facts!SortedRows(rows) = OfTimes!SortedRows(rows)
<1>1. \A s : Facts!FlattenSeq(s) = OfTimes!FlattenSeq(s)
  BY DEF Facts!FlattenSeq, OfTimes!FlattenSeq
<1>2. \A s, n : Facts!Cut(s, n) = OfTimes!Cut(s, n)
  BY DEF Facts!Cut, OfTimes!Cut, Facts!Min, OfTimes!Min
<1>3. \A s : Facts!SortBatch(s) = OfTimes!SortBatch(s)
  BY DEF Facts!SortBatch, OfTimes!SortBatch, Facts!Cardinality, OfTimes!Cardinality
<1>4. \A s : Facts!ExternalSort(s) = OfTimes!ExternalSort(s)
  BY <1>2, <1>3 DEF Facts!ExternalSort, OfTimes!ExternalSort,
                    Facts!SortedBatches, OfTimes!SortedBatches
<1>5. \A s : Facts!KWayMerge(s) = OfTimes!KWayMerge(s)
  <2>1. \A s : Facts!Pop(s) = OfTimes!Pop(s)
    BY DEF Facts!Pop, OfTimes!Pop, Facts!Least, OfTimes!Least
  <2>2. \A s : Facts!RowsOf(s) = OfTimes!RowsOf(s)
    BY <1>1 DEF Facts!RowsOf, OfTimes!RowsOf
  <2> QED BY <1>1, <2>1, <2>2 DEF Facts!KWayMerge, OfTimes!KWayMerge
<1>6. \A s : Facts!MergeFanInGroup(s) = OfTimes!MergeFanInGroup(s)
  BY <1>2, <1>5 DEF Facts!MergeFanInGroup, OfTimes!MergeFanInGroup
<1>7. \A s : Facts!MergeLevel(s) = OfTimes!MergeLevel(s)
  BY <1>2, <1>6 DEF Facts!MergeLevel, OfTimes!MergeLevel
<1>8. \A s : Facts!Reduced(s) = OfTimes!Reduced(s)
  BY <1>7 DEF Facts!Reduced, OfTimes!Reduced
<1>9. \A s : Facts!ReduceSortedRuns(s) = OfTimes!ReduceSortedRuns(s)
  BY <1>8 DEF Facts!ReduceSortedRuns, OfTimes!ReduceSortedRuns
<1> QED BY <1>1, <1>4, <1>5, <1>9 DEF Facts!SortedRows, OfTimes!SortedRows

\* So is the sort of rows by identity.
LEMMA SameIdentitySort ==
    \A rows : IdentityFacts!SortedRows(rows) = OfIdentities!SortedRows(rows)
<1>1. \A s : IdentityFacts!FlattenSeq(s) = OfIdentities!FlattenSeq(s)
  BY DEF IdentityFacts!FlattenSeq, OfIdentities!FlattenSeq
<1>2. \A s, n : IdentityFacts!Cut(s, n) = OfIdentities!Cut(s, n)
  BY DEF IdentityFacts!Cut, OfIdentities!Cut, IdentityFacts!Min, OfIdentities!Min
<1>3. \A s : IdentityFacts!SortBatch(s) = OfIdentities!SortBatch(s)
  BY DEF IdentityFacts!SortBatch, OfIdentities!SortBatch,
         IdentityFacts!Cardinality, OfIdentities!Cardinality
<1>4. \A s : IdentityFacts!ExternalSort(s) = OfIdentities!ExternalSort(s)
  BY <1>2, <1>3 DEF IdentityFacts!ExternalSort, OfIdentities!ExternalSort,
                    IdentityFacts!SortedBatches, OfIdentities!SortedBatches
<1>5. \A s : IdentityFacts!KWayMerge(s) = OfIdentities!KWayMerge(s)
  <2>1. \A s : IdentityFacts!Pop(s) = OfIdentities!Pop(s)
    BY DEF IdentityFacts!Pop, OfIdentities!Pop, IdentityFacts!Least, OfIdentities!Least
  <2>2. \A s : IdentityFacts!RowsOf(s) = OfIdentities!RowsOf(s)
    BY <1>1 DEF IdentityFacts!RowsOf, OfIdentities!RowsOf
  <2> QED BY <1>1, <2>1, <2>2 DEF IdentityFacts!KWayMerge, OfIdentities!KWayMerge
<1>6. \A s : IdentityFacts!MergeFanInGroup(s) = OfIdentities!MergeFanInGroup(s)
  BY <1>2, <1>5 DEF IdentityFacts!MergeFanInGroup, OfIdentities!MergeFanInGroup
<1>7. \A s : IdentityFacts!MergeLevel(s) = OfIdentities!MergeLevel(s)
  BY <1>2, <1>6 DEF IdentityFacts!MergeLevel, OfIdentities!MergeLevel
<1>8. \A s : IdentityFacts!Reduced(s) = OfIdentities!Reduced(s)
  BY <1>7 DEF IdentityFacts!Reduced, OfIdentities!Reduced
<1>9. \A s : IdentityFacts!ReduceSortedRuns(s) = OfIdentities!ReduceSortedRuns(s)
  BY <1>8 DEF IdentityFacts!ReduceSortedRuns, OfIdentities!ReduceSortedRuns
<1> QED BY <1>1, <1>4, <1>5, <1>9 DEF IdentityFacts!SortedRows, OfIdentities!SortedRows

\* And the merges of runs of numbers.
LEMMA SameNumberSort ==
    /\ \A s, n : NumberFacts!SortedBatches(s, n) = Ascending!SortedBatches(s, n)
    /\ \A s : NumberFacts!KWayMerge(s) = Ascending!KWayMerge(s)
    /\ \A s : NumberFacts!FlattenSeq(s) = FlattenSeq(s)
<1>1. \A s : NumberFacts!FlattenSeq(s) = Ascending!FlattenSeq(s)
  BY DEF NumberFacts!FlattenSeq, Ascending!FlattenSeq
<1>2. \A s, n : NumberFacts!Cut(s, n) = Ascending!Cut(s, n)
  BY DEF NumberFacts!Cut, Ascending!Cut, NumberFacts!Min, Ascending!Min
<1>3. \A s : NumberFacts!SortBatch(s) = Ascending!SortBatch(s)
  BY DEF NumberFacts!SortBatch, Ascending!SortBatch,
         NumberFacts!Cardinality, Ascending!Cardinality
<1>4. \A s, n : NumberFacts!SortedBatches(s, n) = Ascending!SortedBatches(s, n)
  BY <1>2, <1>3 DEF NumberFacts!SortedBatches, Ascending!SortedBatches
<1>5. \A s : NumberFacts!KWayMerge(s) = Ascending!KWayMerge(s)
  <2>1. \A s : NumberFacts!Pop(s) = Ascending!Pop(s)
    BY DEF NumberFacts!Pop, Ascending!Pop, NumberFacts!Least, Ascending!Least
  <2>2. \A s : NumberFacts!RowsOf(s) = Ascending!RowsOf(s)
    BY <1>1 DEF NumberFacts!RowsOf, Ascending!RowsOf
  <2> QED BY <1>1, <2>1, <2>2 DEF NumberFacts!KWayMerge, Ascending!KWayMerge
<1>6. \A s : NumberFacts!FlattenSeq(s) = FlattenSeq(s)
  BY DEF NumberFacts!FlattenSeq, FlattenSeq
<1> QED BY <1>4, <1>5, <1>6

-----------------------------------------------------------------------------
(* Members of sequences put one after the other *)

\* The members of two sequences one after the other.
LEMMA MembersConcat ==
    ASSUME NEW S, NEW a \in Seq(S), NEW b \in Seq(S)
    PROVE  ToSet(a \o b) = ToSet(a) \cup ToSet(b)
<1> DEFINE m == Len(a)
           n == Len(b)
<1>1. /\ m \in Nat /\ n \in Nat /\ DOMAIN a = 1..m /\ DOMAIN b = 1..n
      /\ DOMAIN (a \o b) = 1 .. m + n
      /\ \A i \in 1..m : (a \o b)[i] = a[i]
      /\ \A i \in 1..n : (a \o b)[m + i] = b[i]
  BY ConcatProperties
<1> DEFINE c == a \o b
<1> HIDE DEF m, n, c
<1>2. ASSUME NEW x \in ToSet(a) PROVE x \in ToSet(c)
  <2>1. PICK i \in 1..m : x = a[i]
    BY <1>1 DEF ToSet
  <2>2. i \in 1 .. m + n /\ c[i] = a[i]
    BY <1>1 DEF c
  <2> QED BY <1>1, <2>1, <2>2 DEF ToSet, c
<1>3. ASSUME NEW x \in ToSet(b) PROVE x \in ToSet(c)
  <2>1. PICK i \in 1..n : x = b[i]
    BY <1>1 DEF ToSet
  <2>2. m + i \in 1 .. m + n /\ c[m + i] = b[i]
    BY <1>1 DEF c
  <2> QED BY <1>1, <2>1, <2>2 DEF ToSet, c
<1>4. ASSUME NEW x \in ToSet(c) PROVE x \in ToSet(a) \cup ToSet(b)
  <2>1. PICK i \in 1 .. m + n : x = c[i]
    BY <1>1 DEF ToSet, c
  <2>2. CASE i <= m
    <3>1. i \in 1..m /\ c[i] = a[i]
      BY <1>1, <2>2 DEF c
    <3> QED BY <1>1, <2>1, <3>1 DEF ToSet
  <2>3. CASE ~(i <= m)
    <3>1. PICK j \in 1..n : i = m + j
      <4>1. i - m \in 1..n /\ i = m + (i - m)
        BY <1>1, <2>3
      <4> QED BY <4>1
    <3>2. c[i] = b[j]
      BY <1>1, <3>1 DEF c
    <3> QED BY <1>1, <2>1, <3>2 DEF ToSet
  <2> QED BY <2>2, <2>3
<1> QED BY <1>2, <1>3, <1>4 DEF c

\* A sequence is one of its own members.
LEMMA MembersType ==
    ASSUME NEW S, NEW s \in Seq(S)
    PROVE  ToSet(s) \subseteq S /\ s \in Seq(ToSet(s)) /\ (ToSet(s) = {} <=> s = <<>>)
<1>1. DOMAIN s = 1 .. Len(s) /\ Len(s) \in Nat /\ \A i \in 1 .. Len(s) : s[i] \in S /\ s[i] \in ToSet(s)
  BY DEF ToSet
<1>2. s \in [1 .. Len(s) -> ToSet(s)]
  BY <1>1
<1>3. s \in Seq(ToSet(s))
  BY <1>1, <1>2
<1>4. s # <<>> => 1 \in 1 .. Len(s)
  BY <1>1
<1>5. s = <<>> => ToSet(s) = {}
  BY DEF ToSet
<1> QED BY <1>1, <1>3, <1>4, <1>5 DEF ToSet

\* A sequence whose members are in a set is a sequence of that set.
LEMMA SeqOfSubset ==
    ASSUME NEW S, NEW T, NEW s \in Seq(S), ToSet(s) \subseteq T
    PROVE  s \in Seq(T)
<1>1. s \in Seq(ToSet(s))
  BY MembersType
<1> QED BY <1>1

\* f gives what the first sequences make together.
Flattened(f, seqs, S) ==
    /\ seqs \in Seq(Seq(S)) /\ f \in [0 .. Len(seqs) -> Seq(S)] /\ f[0] = <<>>
    /\ \A i \in 1 .. Len(seqs) : f[i] = f[i - 1] \o seqs[i]
    /\ FlattenSeq(seqs) = f[Len(seqs)]

\* Every sequence of sequences is put together one at a time.
LEMMA FlattenedUnfolds ==
    ASSUME NEW S, NEW seqs \in Seq(Seq(S))
    PROVE  \E f : Flattened(f, seqs, S)
<1>1. PICK f : Facts!Flattens(f, seqs, S)
  BY Facts!FlattenUnfolds
<1>2. Flattened(f, seqs, S)
  BY <1>1, SameLibrary DEF Facts!Flattens, Flattened
<1> QED BY <1>2

\* One of these steps.
LEMMA FlattenedStep ==
    ASSUME NEW S, NEW seqs, NEW f, Flattened(f, seqs, S), NEW n \in 1 .. Len(seqs)
    PROVE  /\ n - 1 \in 0 .. Len(seqs) /\ n \in 0 .. Len(seqs)
           /\ f[n - 1] \in Seq(S) /\ f[n] \in Seq(S) /\ seqs[n] \in Seq(S)
           /\ f[n] = f[n - 1] \o seqs[n]
<1>1. n - 1 \in 0 .. Len(seqs) /\ n \in 0 .. Len(seqs) /\ seqs[n] \in Seq(S)
  BY DEF Flattened
<1> QED BY <1>1 DEF Flattened

\* What is put together has the members of all.
LEMMA FlattenMembers ==
    ASSUME NEW S, NEW seqs \in Seq(Seq(S))
    PROVE  /\ FlattenSeq(seqs) \in Seq(S)
           /\ ToSet(FlattenSeq(seqs)) = UNION {ToSet(seqs[k]) : k \in 1 .. Len(seqs)}
<1> DEFINE N == Len(seqs)
           Members(n) == UNION {ToSet(seqs[k]) : k \in 1..n}
<1>1. PICK f : Flattened(f, seqs, S)
  BY FlattenedUnfolds
<1> DEFINE G == {n \in 0..N : ToSet(f[n]) = Members(n)}
<1>0. N \in Nat
  OBVIOUS
<1>2. 0 \in G
  <2>1. f[0] = <<>> /\ Members(0) = {} /\ ToSet(<<>>) = {}
    BY <1>1 DEF Flattened, ToSet
  <2> QED BY <1>0, <2>1
<1>3. ASSUME NEW n \in 1..N, n - 1 \in G PROVE n \in G
  <2>1. ToSet(f[n]) = ToSet(f[n - 1]) \cup ToSet(seqs[n])
    <3>0. n \in 1 .. Len(seqs)
      OBVIOUS
    <3>1. f[n - 1] \in Seq(S) /\ seqs[n] \in Seq(S) /\ f[n] = f[n - 1] \o seqs[n]
      BY <1>1, <3>0, FlattenedStep DEF Flattened
    <3> QED BY <3>1, MembersConcat
  <2>2. 1..n = (1 .. n - 1) \cup {n}
    BY <1>0
  <2>3. Members(n) = Members(n - 1) \cup ToSet(seqs[n])
    BY <2>2
  <2>4. ToSet(f[n - 1]) = Members(n - 1) /\ n \in 0..N
    BY <1>3
  <2> HIDE DEF Members
  <2>5. ToSet(f[n]) = Members(n)
    BY <2>1, <2>3, <2>4
  <2> QED BY <2>4, <2>5
<1> HIDE DEF G, N, Members
<1>4. \A n \in 0..N : n \in G
  BY <1>0, <1>2, <1>3, Facts!SetInduction
<1>5. N \in G /\ N \in 0..N
  BY <1>0, <1>4
<1>6. FlattenSeq(seqs) = f[N] /\ f[N] \in Seq(S)
  BY <1>1, <1>5 DEF Flattened, N
<1>7. ToSet(f[N]) = Members(N)
  BY <1>5 DEF G
<1> QED BY <1>6, <1>7 DEF N, Members

\* Putting together two sequences of sequences, one after the other.
LEMMA FlattenConcats ==
    ASSUME NEW S, NEW a \in Seq(Seq(S)), NEW b \in Seq(Seq(S))
    PROVE  FlattenSeq(a \o b) = FlattenSeq(a) \o FlattenSeq(b)
BY Facts!FlattenConcat, SameLibrary

\* The same with one sequence more.
LEMMA FlattenAppends ==
    ASSUME NEW S, NEW seqs \in Seq(Seq(S)), NEW s \in Seq(S)
    PROVE  FlattenSeq(Append(seqs, s)) = FlattenSeq(seqs) \o s
BY Facts!FlattenAppend, SameLibrary

\* What is proved by counting the sequences from the first.
LEMMA FlattenLength ==
    ASSUME NEW S, NEW seqs \in Seq(Seq(S)), NEW c, c[0] = 0,
           \A n \in 1 .. Len(seqs) : c[n] = c[n - 1] + Len(seqs[n])
    PROVE  Len(FlattenSeq(seqs)) = c[Len(seqs)]
<1> DEFINE N == Len(seqs)
<1>1. PICK f : Flattened(f, seqs, S)
  BY FlattenedUnfolds
<1> DEFINE G == {n \in 0..N : Len(f[n]) = c[n]}
<1>0. N \in Nat
  OBVIOUS
<1>2. 0 \in G
  BY <1>0, <1>1 DEF Flattened
<1>3. ASSUME NEW n \in 1..N, n - 1 \in G PROVE n \in G
  <2>0. n \in 1 .. Len(seqs)
    OBVIOUS
  <2>1. f[n - 1] \in Seq(S) /\ seqs[n] \in Seq(S) /\ f[n] = f[n - 1] \o seqs[n]
    BY <1>1, <2>0, FlattenedStep DEF Flattened
  <2>2. Len(f[n]) = Len(f[n - 1]) + Len(seqs[n])
    BY <2>1, ConcatProperties
  <2>3. c[n] = c[n - 1] + Len(seqs[n]) /\ Len(f[n - 1]) = c[n - 1] /\ n \in 0..N
    BY <1>3
  <2> QED BY <2>2, <2>3
<1> HIDE DEF G, N
<1>4. \A n \in 0..N : n \in G
  BY <1>0, <1>2, <1>3, Facts!SetInduction
<1>5. N \in G
  BY <1>0, <1>4
<1> QED BY <1>1, <1>5 DEF G, N, Flattened

-----------------------------------------------------------------------------
(* The rows of a sequence that are in a set *)

Pieces(rows, T) == [i \in DOMAIN rows |-> IF rows[i] \in T THEN <<rows[i]>> ELSE <<>>]

\* The rows of a set are the pieces of one row or none, put together.
LEMMA PiecesType ==
    ASSUME NEW S, NEW rows \in Seq(S), NEW T
    PROVE  /\ Pieces(rows, T) \in Seq(Seq(S \cap T)) /\ Len(Pieces(rows, T)) = Len(rows)
           /\ Those(rows, T) = FlattenSeq(Pieces(rows, T))
<1> DEFINE U == S \cap T
           n == Len(rows)
           p == Pieces(rows, T)
<1>1. n \in Nat /\ DOMAIN rows = 1..n
  OBVIOUS
<1>2. ASSUME NEW i \in 1..n PROVE (IF rows[i] \in T THEN <<rows[i]>> ELSE <<>>) \in Seq(U)
  <2>1. rows[i] \in S
    OBVIOUS
  <2>2. CASE rows[i] \in T
    <3>1. rows[i] \in U
      BY <2>1, <2>2
    <3> HIDE DEF U
    <3> QED BY <2>2, <3>1
  <2>3. CASE rows[i] \notin T
    BY <2>3
  <2> QED BY <2>2, <2>3
<1>3. p = [i \in 1..n |-> IF rows[i] \in T THEN <<rows[i]>> ELSE <<>>]
  BY <1>1 DEF Pieces
<1> HIDE DEF n
<1>4. p \in [1..n -> Seq(U)]
  BY <1>2, <1>3
<1> HIDE DEF p
<1>5. p \in Seq(Seq(U)) /\ Len(p) = n
  <2> DEFINE V == Seq(U)
  <2> HIDE DEF V
  <2> QED BY <1>1, <1>4 DEF V
<1> QED BY <1>5 DEF p, n, Pieces, Those

\* They are the members that are in the set.
LEMMA ThoseMembers ==
    ASSUME NEW S, NEW rows \in Seq(S), NEW T
    PROVE  Those(rows, T) \in Seq(S \cap T) /\ ToSet(Those(rows, T)) = ToSet(rows) \cap T
<1> DEFINE p == Pieces(rows, T)
           n == Len(rows)
           U == S \cap T
<1>1. p \in Seq(Seq(U)) /\ Len(p) = n /\ Those(rows, T) = FlattenSeq(p)
  BY PiecesType
<1>2. ASSUME NEW i \in 1..n PROVE ToSet(p[i]) = IF rows[i] \in T THEN {rows[i]} ELSE {}
  <2>1. p[i] = IF rows[i] \in T THEN <<rows[i]>> ELSE <<>>
    BY DEF Pieces
  <2>2. ToSet(<<rows[i]>>) = {rows[i]} /\ ToSet(<<>>) = {}
    BY DEF ToSet
  <2> QED BY <2>1, <2>2
<1>3. ToSet(rows) = {rows[i] : i \in 1..n}
  BY DEF ToSet
<1> HIDE DEF p, n, U
<1>4. FlattenSeq(p) \in Seq(U) /\ ToSet(FlattenSeq(p)) = UNION {ToSet(p[k]) : k \in 1..n}
  BY <1>1, FlattenMembers
<1>5. UNION {ToSet(p[k]) : k \in 1..n} = {rows[i] : i \in 1..n} \cap T
  BY <1>2
<1> QED BY <1>1, <1>3, <1>4, <1>5 DEF U

\* They are taken from each of two sequences on its own.
LEMMA ThoseConcat ==
    ASSUME NEW S, NEW a \in Seq(S), NEW b \in Seq(S), NEW T
    PROVE  Those(a \o b, T) = Those(a, T) \o Those(b, T)
<1> DEFINE p == Pieces(a, T)
           q == Pieces(b, T)
           m == Len(a)
           n == Len(b)
           U == S \cap T
<1>1. /\ p \in Seq(Seq(U)) /\ Len(p) = m /\ q \in Seq(Seq(U)) /\ Len(q) = n
      /\ Those(a, T) = FlattenSeq(p) /\ Those(b, T) = FlattenSeq(q)
  BY PiecesType
<1>2. /\ a \o b \in Seq(S) /\ Len(a \o b) = m + n /\ m \in Nat /\ n \in Nat
      /\ DOMAIN a = 1..m /\ DOMAIN b = 1..n
      /\ \A i \in 1 .. m + n : (a \o b)[i] = IF i <= m THEN a[i] ELSE b[i - m]
  BY ConcatProperties
<1>3. Pieces(a \o b, T) \in Seq(Seq(U)) /\ Len(Pieces(a \o b, T)) = m + n
      /\ Those(a \o b, T) = FlattenSeq(Pieces(a \o b, T))
  BY <1>2, PiecesType
<1> DEFINE r == Pieces(a \o b, T)
<1>4. p \o q \in Seq(Seq(U)) /\ Len(p \o q) = m + n
      /\ \A i \in 1 .. m + n : (p \o q)[i] = IF i <= m THEN p[i] ELSE q[i - m]
  <2> DEFINE V == Seq(U)
  <2> HIDE DEF V, p, q, m, n
  <2>1. p \in Seq(V) /\ q \in Seq(V) /\ Len(p) = m /\ Len(q) = n
    BY <1>1 DEF V
  <2>2. p \o q \in Seq(V) /\ Len(p \o q) = m + n
      /\ \A i \in 1 .. m + n : (p \o q)[i] = IF i <= m THEN p[i] ELSE q[i - m]
    BY <2>1, ConcatProperties
  <2> QED BY <2>2 DEF V
<1>5. ASSUME NEW i \in 1 .. m + n PROVE r[i] = (p \o q)[i]
  <2> DEFINE c == a \o b
             piece(x) == IF x \in T THEN <<x>> ELSE <<>>
  <2>1. DOMAIN c = 1 .. m + n
    BY <1>2
  <2>2. r[i] = piece(c[i])
    BY <2>1 DEF Pieces
  <2>3. \A j \in 1..m : p[j] = piece(a[j])
    BY <1>2 DEF Pieces
  <2>4. \A j \in 1..n : q[j] = piece(b[j])
    BY <1>2 DEF Pieces
  <2> HIDE DEF r, p, q, piece, m, n
  <2>5. CASE i <= m
    <3>1. i \in 1..m
      BY <1>2, <2>5
    <3>2. c[i] = a[i] /\ (p \o q)[i] = p[i]
      BY <1>2, <1>4, <2>5
    <3> QED BY <2>2, <2>3, <3>1, <3>2
  <2>6. CASE ~(i <= m)
    <3>1. i - m \in 1..n
      BY <1>2, <2>6
    <3>2. c[i] = b[i - m]
      BY <1>2, <2>6
    <3>3. (p \o q)[i] = q[i - m]
      BY <1>4, <2>6
    <3> QED BY <2>2, <2>4, <3>1, <3>2, <3>3
  <2> QED BY <2>5, <2>6
<1>6. r = p \o q
  <2> DEFINE V == Seq(U)
             k == m + n
  <2>1. r \in Seq(V) /\ p \o q \in Seq(V) /\ Len(r) = k /\ Len(p \o q) = k
    BY <1>3, <1>4
  <2>2. \A i \in 1..k : r[i] = (p \o q)[i]
    BY <1>5
  <2> HIDE DEF r, p, q, V, k
  <2> QED BY <2>1, <2>2, SeqEqual
<1>7. FlattenSeq(p \o q) = FlattenSeq(p) \o FlattenSeq(q)
  BY <1>1, FlattenConcats
<1> QED BY <1>1, <1>3, <1>6, <1>7

\* None of no rows.
LEMMA ThoseEmpty == \A T : Those(<<>>, T) = <<>>
BY DEF Those, FlattenSeq

\* What is not in the sequence does not matter.
LEMMA ThoseAlike ==
    ASSUME NEW rows, NEW T, NEW U, T \cap ToSet(rows) = U \cap ToSet(rows)
    PROVE  Those(rows, T) = Those(rows, U)
<1>1. \A i \in DOMAIN rows : rows[i] \in T <=> rows[i] \in U
  BY DEF ToSet
<1>2. Pieces(rows, T) = Pieces(rows, U)
  BY <1>1 DEF Pieces
<1> QED BY <1>2 DEF Those, Pieces

\* One row or none of one row.
LEMMA ThoseOne ==
    ASSUME NEW S, NEW r \in S, NEW T
    PROVE  Those(<<r>>, T) = IF r \in T THEN <<r>> ELSE <<>>
<1> DEFINE piece == IF r \in T THEN <<r>> ELSE <<>>
<1>1. Pieces(<<r>>, T) = <<piece>>
  BY DEF Pieces
<1>2. piece \in Seq(S)
  OBVIOUS
<1> HIDE DEF piece
<1>3. FlattenSeq(<<piece>>) = piece
  BY <1>2, Facts!FlattenOne, SameLibrary
<1> QED BY <1>1, <1>3 DEF Those, Pieces, piece

-----------------------------------------------------------------------------
(* The inputs *)

\* Files of rows, or a range that never ends before it starts.
InputIInv ==
    \/ plan = NoPlan /\ files \in Seq(Seq(Rows)) /\ files # <<>>
    \/ plan \in PlanRequest /\ plan.start <= plan.end

\* The empty file and every plan of the runs are inputs.
LEMMA InputInvInit == InputInit => InputIInv
<1>1. << <<>> >> \in Seq(Seq(Rows)) /\ << <<>> >> # <<>>
  OBVIOUS
<1>2. \A p \in Plans : p \in PlanRequest /\ p.start <= p.end
  BY PlansAssumption
<1>3. CASE files = << <<>> >> /\ plan = NoPlan
  BY <1>1, <1>3 DEF InputIInv
<1>4. CASE files = <<>> /\ plan \in Plans
  BY <1>2, <1>4 DEF InputIInv
<1> QED BY <1>3, <1>4 DEF InputInit

\* A longer range, another file and another row keep them so.
LEMMA InputInvNext == InputIInv /\ [InputNext]_inputVars => InputIInv'
<1> SUFFICES ASSUME InputIInv, [InputNext]_inputVars PROVE InputIInv'
  OBVIOUS
<1>1. CASE LengthenRange
  <2>1. /\ plan \in PlanRequest /\ plan.start <= plan.end
        /\ plan' = [plan EXCEPT !.end = @ + 1]
    BY <1>1 DEF LengthenRange, InputIInv
  <2>2. plan' \in PlanRequest
    BY <2>1 DEF PlanRequest
  <2>3. plan'.start = plan.start /\ plan'.end = plan.end + 1
    BY <2>1 DEF PlanRequest
  <2> QED BY <2>1, <2>2, <2>3 DEF InputIInv, PlanRequest
<1>2. CASE NextFile
  <2>1. plan = NoPlan /\ files \in Seq(Seq(Rows))
    BY <1>2, PlansAssumption DEF NextFile, InputIInv
  <2>2. Append(files, <<>>) \in Seq(Seq(Rows)) /\ Append(files, <<>>) # <<>>
    <3> DEFINE T == Seq(Rows)
    <3>1. <<>> \in T /\ files \in Seq(T)
      BY <2>1
    <3> HIDE DEF T
    <3>2. Append(files, <<>>) \in Seq(T) /\ Append(files, <<>>) # <<>>
      BY <3>1, AppendProperties
    <3> QED BY <3>2 DEF T
  <2> QED BY <1>2, <2>1, <2>2 DEF NextFile, InputIInv
<1>3. ASSUME NEW r \in Rows, AddRow(r) PROVE InputIInv'
  <2> DEFINE T == Seq(Rows)
  <2>1. plan = NoPlan /\ plan' = plan /\ files \in Seq(T) /\ files # <<>>
        /\ files' = [files EXCEPT ![Len(files)] = Append(files[Len(files)], r)]
    BY <1>3, PlansAssumption DEF AddRow, InputIInv
  <2>2. Len(files) \in 1 .. Len(files)
    BY <2>1
  <2>3. Append(files[Len(files)], r) \in T
    <3>1. files[Len(files)] \in Seq(Rows)
      BY <2>1, <2>2
    <3> QED BY <3>1
  <2> HIDE DEF T
  <2>4. files' \in Seq(T) /\ Len(files') = Len(files)
    BY <2>1, <2>2, <2>3
  <2>5. files' # <<>>
    BY <2>1, <2>4
  <2> QED BY <2>1, <2>4, <2>5 DEF T, InputIInv
<1>4. CASE UNCHANGED inputVars
  BY <1>4 DEF inputVars, InputIInv
<1> QED BY <1>1, <1>2, <1>3, <1>4 DEF InputNext

\* The rows of the files together.
LEMMA AllRowsType ==
    ASSUME InputIInv, plan = NoPlan
    PROVE  /\ files \in Seq(Seq(Rows)) /\ files # <<>> /\ AllRows \in Seq(Rows)
<1>1. files \in Seq(Seq(Rows)) /\ files # <<>>
  BY PlansAssumption DEF InputIInv
<1> QED BY <1>1, FlattenMembers DEF AllRows

-----------------------------------------------------------------------------
(* Identities *)

Initial(f, k) == {f[i] : i \in 1..k}

\* Distinct members are as many as their indexes.
LEMMA InitialCardinality ==
    ASSUME NEW k \in Nat, NEW f, \A i, j \in 1..k : f[i] = f[j] => i = j
    PROVE  Cardinality(Initial(f, k)) = k
<1> DEFINE image == Initial(f, k)
           g == [i \in 1..k |-> f[i]]
<1>1. g \in Bijection(1..k, image)
  BY DEF Bijection, Injection, Surjection, IsInjective, Initial
<1>2. ExistsBijection(1..k, image)
  BY <1>1 DEF ExistsBijection
<1> QED BY <1>2, FS_CountingElements

\* The identities of a sequence are finitely many.
LEMMA IdentitiesType ==
    ASSUME NEW S, NEW s \in Seq(S)
    PROVE  /\ Identities(s) = {r.identity : r \in ToSet(s)}
           /\ IsFiniteSet(Identities(s))
           /\ Identities(s) = {s[i].identity : i \in 1 .. Len(s)}
<1>1. Identities(s) = {r.identity : r \in ToSet(s)}
  BY DEF Identities, ToSet
<1>2. Identities(s) = {s[i].identity : i \in 1 .. Len(s)} /\ Len(s) \in Nat
  BY DEF Identities
<1> DEFINE n == Len(s)
           I == {s[i].identity : i \in 1..n}
           g == [i \in 1..n |-> s[i].identity]
<1>3. g \in Surjection(1..n, I)
  BY DEF Surjection
<1>4. IsFiniteSet(1..n)
  BY <1>2, FS_Interval
<1> HIDE DEF g, n, I
<1>5. IsFiniteSet(I)
  BY <1>3, <1>4, FS_Surjection
<1> QED BY <1>1, <1>2, <1>5 DEF I, n

\* The number of identities in the buckets before the n-th.
LEMMA BucketsAddUp ==
    ASSUME NEW ids, IsFiniteSet(ids), \A v \in ids : BucketOf[v] \in Buckets, NEW n \in 1..BucketCount
    PROVE  Cardinality({v \in ids : BucketOf[v] < n}) =
             Cardinality({v \in ids : BucketOf[v] < n - 1})
               + Cardinality({v \in ids : BucketOf[v] = n - 1})
<1> DEFINE A == {v \in ids : BucketOf[v] < n - 1}
           B == {v \in ids : BucketOf[v] = n - 1}
           C == {v \in ids : BucketOf[v] < n}
<1>1. C = A \cup B /\ A \cap B = {}
  <2>1. \A v \in ids : BucketOf[v] \in Int
    BY DEF Buckets
  <2>2. n \in Int
    OBVIOUS
  <2>3. \A v \in ids : /\ BucketOf[v] < n <=> (BucketOf[v] < n - 1 \/ BucketOf[v] = n - 1)
                       /\ ~(BucketOf[v] < n - 1 /\ BucketOf[v] = n - 1)
    BY <2>1, <2>2
  <2> QED BY <2>3
<1>2. A \subseteq ids /\ B \subseteq ids
  OBVIOUS
<1> HIDE DEF A, B, C
<1>3. IsFiniteSet(A) /\ IsFiniteSet(B)
  BY <1>2, FS_Subset
<1>4. Cardinality(A \cup B) = Cardinality(A) + Cardinality(B) - Cardinality({})
  BY <1>1, <1>3, FS_Union
<1>5. Cardinality(A) \in Nat /\ Cardinality(B) \in Nat /\ Cardinality({}) = 0
  BY <1>3, FS_CardinalityType, FS_EmptySet
<1>6. Cardinality(C) = Cardinality(A) + Cardinality(B)
  BY <1>1, <1>4, <1>5
<1> QED BY <1>6 DEF A, B, C

-----------------------------------------------------------------------------
(* Sequences of numbers in order *)

Distinct(s) == Len(s) = Cardinality(ToSet(s))
Increasing(s) == \A i, j \in 1 .. Len(s) : i < j => s[i] < s[j]

\* A sequence is as long as its members are many when none comes twice.
LEMMA DistinctType ==
    ASSUME NEW S, NEW s \in Seq(S)
    PROVE  /\ IsFiniteSet(ToSet(s)) /\ Cardinality(ToSet(s)) \in Nat
           /\ Cardinality(ToSet(s)) <= Len(s)
           /\ Distinct(s) <=> \A i, j \in 1 .. Len(s) : s[i] = s[j] => i = j
<1> DEFINE n == Len(s)
           T == ToSet(s)
           g == [i \in 1..n |-> s[i]]
<1>1. n \in Nat /\ T = {s[i] : i \in 1..n}
  BY DEF ToSet
<1>2. g \in Surjection(1..n, T)
  BY <1>1 DEF Surjection
<1>3. IsFiniteSet(1..n) /\ Cardinality(1..n) = n
  BY <1>1, FS_Interval
<1>4. g \in Injection(1..n, T) <=> \A i, j \in 1..n : s[i] = s[j] => i = j
  BY <1>1 DEF Injection, IsInjective
<1> HIDE DEF g, T, n
<1>5. IsFiniteSet(T) /\ Cardinality(T) <= n /\ (Cardinality(T) = n <=> g \in Injection(1..n, T))
  BY <1>2, <1>3, FS_Surjection
<1>6. Cardinality(T) \in Nat
  BY <1>5, FS_CardinalityType
<1> QED BY <1>4, <1>5, <1>6 DEF T, n, Distinct

\* An appended value keeps a sequence distinct when it is new.
LEMMA DistinctAppend ==
    ASSUME NEW S, NEW s \in Seq(S), NEW v \in S
    PROVE  /\ Append(s, v) \in Seq(S) /\ ToSet(Append(s, v)) = ToSet(s) \cup {v}
           /\ Distinct(Append(s, v)) <=> Distinct(s) /\ v \notin ToSet(s)
<1> DEFINE more == Append(s, v)
           T == ToSet(s)
<1>1. more \in Seq(S) /\ Len(more) = Len(s) + 1 /\ more = s \o <<v>>
  BY AppendProperties, AppendIsConcat
<1>2. ToSet(more) = T \cup {v}
  <2>1. ToSet(<<v>>) = {v} /\ <<v>> \in Seq(S)
    BY DEF ToSet
  <2>2. ToSet(s \o <<v>>) = ToSet(s) \cup ToSet(<<v>>)
    BY <2>1, MembersConcat
  <2> QED BY <1>1, <2>1, <2>2
<1>3. IsFiniteSet(T) /\ Cardinality(T) \in Nat /\ Cardinality(T) <= Len(s) /\ Len(s) \in Nat
  BY DistinctType
<1> HIDE DEF more, T
<1>4. Cardinality(T \cup {v}) = IF v \in T THEN Cardinality(T) ELSE Cardinality(T) + 1
  BY <1>3, FS_AddElement
<1>5. Distinct(more) <=> Len(s) + 1 = Cardinality(T \cup {v})
  BY <1>1, <1>2 DEF Distinct
<1>6. Distinct(s) <=> Len(s) = Cardinality(T)
  BY DEF Distinct, T
<1>7. Distinct(more) <=> Distinct(s) /\ v \notin T
  BY <1>3, <1>4, <1>5, <1>6
<1> QED BY <1>1, <1>2, <1>7 DEF more, T

\* An increasing sequence is its members in order.
LEMMA IncreasingIsInOrder ==
    ASSUME NEW s \in Seq(Int), Increasing(s)
    PROVE  s = InOrder(ToSet(s)) /\ Distinct(s)
<1> DEFINE n == Len(s)
           T == ToSet(s)
           below(v) == {w \in T : w < v}
<1>1. n \in Nat /\ T = {s[i] : i \in 1..n} /\ \A i \in 1..n : s[i] \in Int
  BY DEF ToSet
<1>2. \A i, j \in 1..n : /\ i < j => s[i] < s[j]
                         /\ s[i] = s[j] => i = j
                         /\ s[i] < s[j] => i < j
  <2> TAKE i, j \in 1..n
  <2>1. i < j => s[i] < s[j]
    BY DEF Increasing
  <2>2. j < i => s[j] < s[i]
    BY DEF Increasing
  <2>3. s[i] \in Int /\ s[j] \in Int /\ i \in Int /\ j \in Int
    BY <1>1
  <2>4. i = j => s[i] = s[j]
    OBVIOUS
  <2> QED BY <2>1, <2>2, <2>3, <2>4
<1>3. Distinct(s)
  BY <1>2, DistinctType
<1>4. ASSUME NEW i \in 1..n PROVE Cardinality(below(s[i])) = i - 1
  <2> DEFINE k == i - 1
  <2>0. k \in Nat /\ \A j \in 1..n : j \in 1..k <=> j < i
    BY <1>1
  <2>00. \A j \in 1..k : j \in 1..n
    BY <1>1
  <2> HIDE DEF k
  <2>1. below(s[i]) = Initial(s, k)
    <3>1. ASSUME NEW v \in below(s[i]) PROVE v \in Initial(s, k)
      <4>1. PICK j \in 1..n : v = s[j]
        BY <1>1, <3>1
      <4>2. j \in 1..k
        BY <1>2, <2>0, <3>1, <4>1
      <4> QED BY <4>1, <4>2 DEF Initial
    <3>2. ASSUME NEW j \in 1..k PROVE s[j] \in below(s[i])
      <4>1. j \in 1..n /\ j < i
        BY <2>0, <2>00
      <4> QED BY <1>1, <1>2, <4>1
    <3> QED BY <3>1, <3>2 DEF Initial
  <2>2. \A j, l \in 1..k : s[j] = s[l] => j = l
    BY <1>2, <2>00
  <2>3. Cardinality(Initial(s, k)) = k
    BY <2>0, <2>2, InitialCardinality
  <2> QED BY <2>1, <2>3 DEF k
<1> HIDE DEF below
<1>5. ASSUME NEW i \in 1..n PROVE (CHOOSE v \in T : Cardinality(below(v)) = i - 1) = s[i]
  <2>1. s[i] \in T /\ Cardinality(below(s[i])) = i - 1
    BY <1>1, <1>4
  <2>2. ASSUME NEW v \in T, Cardinality(below(v)) = i - 1 PROVE v = s[i]
    <3>1. PICK j \in 1..n : v = s[j]
      BY <1>1
    <3>2. j - 1 = i - 1
      BY <1>4, <2>2, <3>1
    <3>3. j = i
      BY <3>2
    <3> QED BY <3>1, <3>3
  <2> QED BY <2>1, <2>2
<1>6. InOrder(T) = [i \in 1..n |-> CHOOSE v \in T : Cardinality(below(v)) = i - 1]
  <2>1. Cardinality(T) = n
    BY <1>3 DEF Distinct
  <2> QED BY <2>1 DEF InOrder, below
<1>7. s = [i \in 1..n |-> s[i]]
  OBVIOUS
<1>8. InOrder(T) = [i \in 1..n |-> s[i]]
  BY <1>5, <1>6
<1> QED BY <1>3, <1>7, <1>8

\* Sorted numbers without a repeat.
LEMMA NoRepeats ==
    ASSUME NEW s \in Seq(Int), NumberFacts!Sorted(s)
    PROVE  /\ Repeats(s) = {} <=> Distinct(s)
           /\ Repeats(s) = {} => s = InOrder(ToSet(s))
<1> DEFINE n == Len(s)
<1>1. n \in Nat /\ \A i \in 1..n : s[i] \in Int
  OBVIOUS
<1>2. \A i, j \in 1..n : i < j => ~(s[j] < s[i])
  BY DEF NumberFacts!Sorted
<1>3. ASSUME Repeats(s) = {} PROVE Increasing(s)
  <2> SUFFICES ASSUME NEW i \in 1..n, NEW j \in 1..n, i < j PROVE s[i] < s[j]
    BY DEF Increasing
  <2>1. j \in 2..n /\ j - 1 \in 1..n /\ j - 1 < j /\ (i = j - 1 \/ i < j - 1)
    BY <1>1
  <2>2. s[j] # s[j - 1]
    BY <1>3, <2>1 DEF Repeats
  <2>3. ~(s[j] < s[j - 1])
    BY <1>2, <2>1
  <2>4. s[j - 1] < s[j]
    BY <1>1, <2>1, <2>2, <2>3
  <2>5. i = j - 1 \/ ~(s[j - 1] < s[i])
    BY <1>2, <2>1
  <2>6. s[i] \in Int /\ s[j] \in Int /\ s[j - 1] \in Int
    BY <1>1, <2>1
  <2> QED BY <2>4, <2>5, <2>6
<1>4. ASSUME Distinct(s), NEW i \in Repeats(s) PROVE FALSE
  <2>1. i \in 1..n /\ i - 1 \in 1..n /\ s[i] = s[i - 1] /\ i # i - 1
    BY <1>1, <1>4 DEF Repeats
  <2> QED BY <1>4, <2>1, DistinctType
<1> QED BY <1>3, <1>4, IncreasingIsInOrder

\* Every finite set of numbers has its order.
LEMMA InOrderType ==
    ASSUME NEW T \in SUBSET Int, IsFiniteSet(T)
    PROVE  /\ InOrder(T) \in Seq(Int) /\ ToSet(InOrder(T)) = T
           /\ Increasing(InOrder(T)) /\ Len(InOrder(T)) = Cardinality(T)
<1> DEFINE n == Cardinality(T)
<1>1. n \in Nat /\ ExistsBijection(1..n, T)
  BY FS_CardinalityType
<1>2. PICK f : f \in Bijection(1..n, T)
  BY <1>1 DEF ExistsBijection
<1>3. f \in [1..n -> T] /\ \A v \in T : \E i \in 1..n : f[i] = v
  BY <1>2 DEF Bijection, Surjection
<1> HIDE DEF n
<1>4. f \in Seq(Int) /\ Len(f) = n /\ ToSet(f) = T
  <2>0. f \in [1..n -> Int]
    BY <1>3
  <2>1. f \in Seq(Int) /\ Len(f) = n
    BY <1>1, <2>0
  <2> QED BY <1>3, <2>1 DEF ToSet
<1>5. Distinct(f)
  BY <1>4 DEF Distinct, n
<1> DEFINE s == NumberFacts!SortBatch(f)
<1>6. s \in Seq(Int) /\ NumberFacts!SameRows(s, f) /\ NumberFacts!Sorted(s)
  <2>1. NumberFacts!RowOrder(Int)
    BY DEF NumberFacts!RowOrder
  <2> QED BY <1>4, <2>1, NumberFacts!BatchSorted
<1> HIDE DEF s
<1>7. ToSet(s) = T /\ Len(s) = n
  <2>1. \A x : x \in ToSet(s) <=> NumberFacts!Count(s, x) # 0
    BY <1>6, NumberFacts!CountPositive DEF ToSet
  <2>2. \A x : x \in ToSet(f) <=> NumberFacts!Count(f, x) # 0
    BY <1>4, NumberFacts!CountPositive DEF ToSet
  <2>3. Len(s) = Len(f) /\ \A x : NumberFacts!Count(s, x) = NumberFacts!Count(f, x)
    BY <1>6 DEF NumberFacts!SameRows
  <2> QED BY <1>4, <2>1, <2>2, <2>3
<1>8. Distinct(s)
  BY <1>7 DEF Distinct, n
<1>9. Increasing(s) /\ s = InOrder(T)
  <2>1. s = InOrder(T)
    BY <1>6, <1>7, <1>8, NoRepeats
  <2>2. \A i, j \in 1 .. Len(s) : s[i] = s[j] => i = j
    BY <1>6, <1>8, DistinctType
  <2>3. \A i, j \in 1 .. Len(s) : i < j => s[i] < s[j]
    <3> TAKE i, j \in 1 .. Len(s)
    <3> HAVE i < j
    <3>1. ~(s[j] < s[i])
      BY <1>6 DEF NumberFacts!Sorted
    <3>2. s[i] # s[j]
      BY <2>2
    <3>3. s[i] \in Int /\ s[j] \in Int
      BY <1>6
    <3> QED BY <3>1, <3>2, <3>3
  <2> QED BY <2>1, <2>3 DEF Increasing
<1> QED BY <1>6, <1>7, <1>9 DEF n

\* A bucket file once it is sorted.
LEMMA BucketFileSorts ==
    ASSUME NEW s \in Seq(Int)
    PROVE  LET sorted == SortBucketFile(s)
           IN  /\ Repeats(sorted) = {} <=> Distinct(s)
               /\ Distinct(s) => sorted = InOrder(ToSet(s))
<1> DEFINE runs == NumberFacts!SortedBatches(s, SortRunCapacity)
           all == NumberFacts!AllRows(runs)
           sorted == SortBucketFile(s)
<1>1. SortRunCapacity \in Nat \ {0} /\ NumberFacts!RowOrder(Int)
  BY CanonicalizeAssumption DEF NumberFacts!RowOrder
<1>2. NumberFacts!SortedRuns(runs, Int) /\ NumberFacts!SameRows(all, s)
  BY <1>1, NumberFacts!BatchesSorted
<1>3. sorted = IF Len(runs) <= 1 THEN FlattenSeq(FlattenSeq(runs)) ELSE NumberFacts!KWayMerge(runs)
  BY SameNumberSort DEF SortBucketFile
<1> HIDE DEF runs, all, sorted
<1>4. runs \in Seq(Seq(Seq(Int)))
      /\ \A k \in 1 .. Len(runs) : NumberFacts!Sorted(FlattenSeq(runs[k]))
  BY <1>2, SameNumberSort DEF NumberFacts!SortedRuns
<1>5. all \in Seq(Int)
  BY <1>4, NumberFacts!RowsOfRuns DEF all
<1>6. sorted \in Seq(Int) /\ NumberFacts!Sorted(sorted) /\ NumberFacts!SameRows(sorted, all)
  <2>1. CASE Len(runs) > 1
    <3>1. NumberFacts!KWayMerge(runs) \in Seq(Int) /\ NumberFacts!Sorted(NumberFacts!KWayMerge(runs))
          /\ NumberFacts!SameRows(NumberFacts!KWayMerge(runs), all)
      BY <1>1, <1>2, NumberFacts!MergeSorts DEF all
    <3>2. ~(Len(runs) <= 1)
      BY <1>4, <2>1
    <3> QED BY <1>3, <3>1, <3>2
  <2>2. CASE Len(runs) = 1
    <3> DEFINE run == runs[1]
               T == Seq(Seq(Int))
    <3>0. runs \in Seq(T)
      BY <1>4
    <3>1. 1 \in 1 .. Len(runs) /\ run \in T /\ runs \in Seq(T)
      <4> HIDE DEF T
      <4> QED BY <2>2, <3>0
    <3>2. runs = <<run>>
      <4> HIDE DEF T
      <4>1. Len(<<run>>) = 1 /\ <<run>> \in Seq(T)
        BY <3>1
      <4> QED BY <2>2, <3>1, <4>1
    <3>3. all = FlattenSeq(run)
      BY <1>4, <2>2, NumberFacts!RowsOfOne, SameNumberSort DEF all
    <3>4. FlattenSeq(<<run>>) = run
      <4>1. run \in Seq(Seq(Int))
        BY <3>1
      <4> QED BY <4>1, NumberFacts!FlattenOne, SameNumberSort
    <3>5. NumberFacts!Sorted(FlattenSeq(run))
      BY <1>4, <3>1
    <3>6. sorted = all
      BY <1>3, <2>2, <3>2, <3>3, <3>4
    <3> QED BY <1>5, <3>3, <3>5, <3>6 DEF NumberFacts!SameRows
  <2>3. CASE Len(runs) = 0
    <3>1. runs = <<>>
      BY <1>4, <2>3
    <3>2. FlattenSeq(<<>>) = <<>>
      BY DEF FlattenSeq
    <3>3. all = <<>>
      BY <3>1, NumberFacts!NoRows DEF all
    <3>4. sorted = <<>> /\ Len(<<>>) = 0
      BY <1>3, <2>3, <3>1, <3>2
    <3>5. sorted \in Seq(Int) /\ NumberFacts!Sorted(sorted)
      BY <3>4 DEF NumberFacts!Sorted
    <3> QED BY <3>3, <3>4, <3>5 DEF NumberFacts!SameRows
  <2>4. Len(runs) \in Nat
    <3> DEFINE T == Seq(Seq(Int))
    <3>1. runs \in Seq(T)
      BY <1>4
    <3> HIDE DEF T
    <3> QED BY <3>1
  <2>5. Len(runs) > 1 \/ Len(runs) = 1 \/ Len(runs) = 0
    <3>1. \A n \in Nat : n > 1 \/ n = 1 \/ n = 0
      OBVIOUS
    <3> QED BY <2>4, <3>1, Zenon
  <2> QED BY <2>1, <2>2, <2>3, <2>5
<1>7. ToSet(sorted) = ToSet(s) /\ Len(sorted) = Len(s)
  <2>1. \A x : x \in ToSet(sorted) <=> NumberFacts!Count(sorted, x) # 0
    BY <1>6, NumberFacts!CountPositive DEF ToSet
  <2>2. \A x : x \in ToSet(s) <=> NumberFacts!Count(s, x) # 0
    BY NumberFacts!CountPositive DEF ToSet
  <2>3. Len(sorted) = Len(s) /\ \A x : NumberFacts!Count(sorted, x) = NumberFacts!Count(s, x)
    BY <1>2, <1>6 DEF NumberFacts!SameRows
  <2> QED BY <2>1, <2>2, <2>3
<1>8. Distinct(sorted) <=> Distinct(s)
  BY <1>7 DEF Distinct
<1>9. /\ Repeats(sorted) = {} <=> Distinct(sorted)
      /\ Repeats(sorted) = {} => sorted = InOrder(ToSet(sorted))
  BY <1>6, NoRepeats
<1> QED BY <1>7, <1>8, <1>9 DEF sorted

-----------------------------------------------------------------------------
(* Positive rows one after the other *)

\* What bucket_index needs of the identity of a row.
Countable(S) ==
    \A r \in S : /\ r.identity \in Int /\ r.identity > 0
                 /\ BucketOf[r.identity] \in Buckets

\* The meaning of the first n rows.
Ids(P, n) == {P[j].identity : j \in 1..n}
ContiguousTo(P, n) ==
    \A i, k \in 1..n :
        P[i].identity = P[k].identity => \A j \in i..k : P[j].identity = P[i].identity
OneCoreTo(P, n) ==
    \A i, j \in 1..n : P[i].identity = P[j].identity => P[i].core = P[j].core

Opens(P, n) == n = 0 \/ P[n].identity # P[n + 1].identity

\* All rows are the first Len rows.
LEMMA MeaningOfAll ==
    ASSUME NEW S, NEW P \in Seq(S)
    PROVE  /\ Contiguous(P) <=> ContiguousTo(P, Len(P))
           /\ OneCore(P) <=> OneCoreTo(P, Len(P))
           /\ Identities(P) = Ids(P, Len(P))
<1>1. DOMAIN P = 1 .. Len(P)
  OBVIOUS
<1> QED BY <1>1 DEF Contiguous, ContiguousTo, OneCore, OneCoreTo, Identities, Ids

\* The next row brings its identity.
LEMMA IdsGrow ==
    ASSUME NEW P, NEW n \in Nat
    PROVE  /\ Ids(P, n + 1) = Ids(P, n) \cup {P[n + 1].identity} /\ Ids(P, 0) = {}
           /\ IsFiniteSet(Ids(P, n)) /\ Cardinality(Ids(P, n)) \in Nat
           /\ Cardinality(Ids(P, n)) <= n
<1>1. 1 .. n + 1 = (1..n) \cup {n + 1} /\ 1..0 = {}
  OBVIOUS
<1>2. Ids(P, n + 1) = Ids(P, n) \cup {P[n + 1].identity} /\ Ids(P, 0) = {}
  BY <1>1 DEF Ids
<1> DEFINE I == Ids(P, n)
           g == [j \in 1..n |-> P[j].identity]
<1>3. g \in Surjection(1..n, I)
  BY DEF Surjection, Ids
<1>4. IsFiniteSet(1..n) /\ Cardinality(1..n) = n
  BY FS_Interval
<1> HIDE DEF g, I
<1>5. IsFiniteSet(I) /\ Cardinality(I) <= n
  BY <1>3, <1>4, FS_Surjection
<1>6. Cardinality(I) \in Nat
  BY <1>5, FS_CardinalityType
<1> QED BY <1>2, <1>5, <1>6 DEF I

\* A row continues the group before it or opens one of a new identity.
LEMMA ContiguousStep ==
    ASSUME NEW P, NEW n \in Nat
    PROVE  ContiguousTo(P, n + 1)
             <=> ContiguousTo(P, n) /\ (Opens(P, n) => P[n + 1].identity \notin Ids(P, n))
<1> DEFINE v == P[n + 1].identity
<1>0. \A i \in 1 .. n + 1 : i \in 1..n \/ i = n + 1
  OBVIOUS
<1>1. ASSUME ContiguousTo(P, n + 1) PROVE ContiguousTo(P, n)
  <2>1. \A i \in 1..n : i \in 1 .. n + 1
    OBVIOUS
  <2> QED BY <1>1, <2>1 DEF ContiguousTo
<1>2. ASSUME ContiguousTo(P, n + 1), v \in Ids(P, n) PROVE ~Opens(P, n)
  <2>1. PICK i \in 1..n : v = P[i].identity
    BY <1>2 DEF Ids
  <2>2. i \in 1 .. n + 1 /\ n + 1 \in 1 .. n + 1 /\ n \in i .. n + 1 /\ n # 0
    OBVIOUS
  <2>3. \A j \in i .. n + 1 : P[j].identity = P[i].identity
    BY <1>2, <2>1, <2>2 DEF ContiguousTo
  <2> QED BY <2>1, <2>2, <2>3 DEF Opens
<1>3. ASSUME ContiguousTo(P, n), Opens(P, n) => v \notin Ids(P, n)
      PROVE  ContiguousTo(P, n + 1)
  <2> SUFFICES ASSUME NEW i \in 1 .. n + 1, NEW k \in 1 .. n + 1,
                      P[i].identity = P[k].identity, NEW j \in i..k
               PROVE  P[j].identity = P[i].identity
    BY DEF ContiguousTo
  <2>1. CASE i \in 1..n /\ k \in 1..n
    BY <1>3, <2>1 DEF ContiguousTo
  <2>2. CASE i = n + 1
    <3>1. j = i
      BY <2>2
    <3> QED BY <3>1
  <2>3. CASE i \in 1..n /\ k = n + 1
    <3>1. v \in Ids(P, n)
      BY <2>3 DEF Ids
    <3>2. n # 0 /\ P[n].identity = v /\ n \in 1..n
      BY <1>3, <3>1 DEF Opens
    <3>3. \A l \in i..n : P[l].identity = P[i].identity
      BY <1>3, <2>3, <3>2 DEF ContiguousTo
    <3>4. j \in i..n \/ j = n + 1
      BY <2>3
    <3> QED BY <2>3, <3>3, <3>4
  <2> QED BY <1>0, <2>1, <2>2, <2>3
<1> QED BY <1>1, <1>2, <1>3

\* While equal identities are contiguous, a row is compared with the one before it only.
LEMMA OneCoreStep ==
    ASSUME NEW P, NEW n \in Nat, ContiguousTo(P, n + 1)
    PROVE  OneCoreTo(P, n + 1)
             <=> OneCoreTo(P, n) /\ (~Opens(P, n) => P[n + 1].core = P[n].core)
<1> DEFINE v == P[n + 1].identity
<1>0. /\ \A i \in 1 .. n + 1 : i \in 1..n \/ i = n + 1
      /\ \A i \in 1..n : i \in 1 .. n + 1
      /\ n + 1 \in 1 .. n + 1
  OBVIOUS
<1>1. Opens(P, n) => v \notin Ids(P, n)
  BY ContiguousStep
<1>2. ~Opens(P, n) => n \in 1..n /\ P[n].identity = v
  BY DEF Opens
<1>3. ASSUME OneCoreTo(P, n + 1)
      PROVE  OneCoreTo(P, n) /\ (~Opens(P, n) => P[n + 1].core = P[n].core)
  BY <1>0, <1>2, <1>3 DEF OneCoreTo
<1>4. ASSUME OneCoreTo(P, n), ~Opens(P, n) => P[n + 1].core = P[n].core,
             NEW i \in 1..n, P[i].identity = v
      PROVE  P[i].core = P[n + 1].core
  <2>1. v \in Ids(P, n)
    BY <1>4 DEF Ids
  <2>2. n \in 1..n /\ P[n].identity = v /\ P[n + 1].core = P[n].core
    BY <1>1, <1>2, <1>4, <2>1
  <2> QED BY <1>4, <2>2 DEF OneCoreTo
<1>5. ASSUME OneCoreTo(P, n), ~Opens(P, n) => P[n + 1].core = P[n].core,
             NEW i \in 1 .. n + 1, NEW j \in 1 .. n + 1, P[i].identity = P[j].identity
      PROVE  P[i].core = P[j].core
  <2>1. CASE i \in 1..n /\ j \in 1..n
    BY <1>5, <2>1 DEF OneCoreTo
  <2>2. CASE i \in 1..n /\ j = n + 1
    BY <1>4, <1>5, <2>2
  <2>3. CASE i = n + 1 /\ j \in 1..n
    BY <1>4, <1>5, <2>3
  <2>4. CASE i = n + 1 /\ j = n + 1
    BY <2>4
  <2> QED BY <1>0, <2>1, <2>2, <2>3, <2>4
<1> QED BY <1>3, <1>5 DEF OneCoreTo

-----------------------------------------------------------------------------
(* Their identities in buckets *)

\* What the first n rows left.
SpillAt(spill, P, n) ==
    /\ spill.ok \in BOOLEAN /\ spill.groups \in Nat
    /\ spill.buckets \in [Buckets -> Seq(Int)]
    /\ \A b \in Buckets : ToSet(spill.buckets[b]) = {v \in Ids(P, n) : BucketOf[v] = b}
    /\ ContiguousTo(P, n) <=> \A b \in Buckets : Distinct(spill.buckets[b])
    /\ ContiguousTo(P, n) => /\ spill.ok <=> OneCoreTo(P, n)
                             /\ spill.groups = Cardinality(Ids(P, n))
    /\ spill.first = IF n = 0 THEN NoBoundary ELSE Profile(P[1])
    /\ spill.last = IF n = 0 THEN NoBoundary ELSE Profile(P[n])

\* One row of _write_positive_identity_runs.
LEMMA SpillStep ==
    ASSUME NEW S, Countable(S), NEW P \in Seq(S), NEW n \in Nat, n < Len(P),
           NEW spill, SpillAt(spill, P, n)
    PROVE  SpillAt(SpillRow(spill, P[n + 1]), P, n + 1)
<1> DEFINE r == P[n + 1]
           v == r.identity
           c == BucketOf[v]
           opens == r.identity # spill.last.identity
           next == SpillRow(spill, r)
           more == Append(spill.buckets[c], v)
<1>1. /\ n + 1 \in 1 .. Len(P) /\ r \in S /\ v \in Int /\ v > 0 /\ c \in Buckets
      /\ \A j \in 1..n : P[j] \in S /\ P[j].identity \in Int /\ P[j].identity > 0
  <2>1. n + 1 \in 1 .. Len(P) /\ \A j \in 1..n : j \in 1 .. Len(P)
    OBVIOUS
  <2> QED BY <2>1 DEF Countable
<1>2. /\ spill.ok \in BOOLEAN /\ spill.groups \in Nat
      /\ spill.buckets \in [Buckets -> Seq(Int)]
      /\ \A b \in Buckets : ToSet(spill.buckets[b]) = {w \in Ids(P, n) : BucketOf[w] = b}
      /\ ContiguousTo(P, n) <=> \A b \in Buckets : Distinct(spill.buckets[b])
      /\ ContiguousTo(P, n) => /\ spill.ok <=> OneCoreTo(P, n)
                               /\ spill.groups = Cardinality(Ids(P, n))
      /\ spill.first = IF n = 0 THEN NoBoundary ELSE Profile(P[1])
      /\ spill.last = IF n = 0 THEN NoBoundary ELSE Profile(P[n])
  BY DEF SpillAt
<1>3. opens <=> Opens(P, n)
  <2>1. CASE n = 0
    BY <1>1, <1>2, <2>1 DEF Opens, NoBoundary
  <2>2. CASE n # 0
    BY <1>2, <2>2 DEF Opens, Profile
  <2> QED BY <2>1, <2>2
<1>4. spill.first = NoBoundary <=> n = 0
  <2>1. CASE n # 0
    <3>1. 1 \in 1..n
      BY <2>1
    <3>2. Profile(P[1]).identity > 0 /\ NoBoundary.identity = 0
      BY <1>1, <3>1 DEF Profile, NoBoundary
    <3>3. Profile(P[1]) # NoBoundary
      BY <3>2
    <3> QED BY <1>2, <2>1, <3>3
  <2> QED BY <1>2, <2>1
<1>5. /\ next.ok = (spill.ok /\ (~opens => r.core = spill.last.core))
      /\ next.buckets = IF opens THEN [spill.buckets EXCEPT ![c] = more] ELSE spill.buckets
      /\ next.groups = spill.groups + (IF opens THEN 1 ELSE 0)
      /\ next.first = IF spill.first = NoBoundary THEN Profile(r) ELSE spill.first
      /\ next.last = Profile(r)
  BY DEF SpillRow, Profile
<1>6. /\ Ids(P, n + 1) = Ids(P, n) \cup {v} /\ IsFiniteSet(Ids(P, n))
      /\ Cardinality(Ids(P, n)) \in Nat
  BY IdsGrow
<1>7. ContiguousTo(P, n + 1) <=> ContiguousTo(P, n) /\ (opens => v \notin Ids(P, n))
  BY <1>3, ContiguousStep
<1>8. ~opens => n \in 1..n /\ v \in Ids(P, n) /\ P[n].identity = v
  BY <1>3 DEF Opens, Ids
<1> HIDE DEF r, v, c, opens, next, more
<1>9. /\ more \in Seq(Int)
      /\ ToSet(more) = ToSet(spill.buckets[c]) \cup {v}
      /\ Distinct(more) <=> Distinct(spill.buckets[c]) /\ v \notin Ids(P, n)
  <2>1. spill.buckets[c] \in Seq(Int)
    BY <1>1, <1>2
  <2>2. /\ more \in Seq(Int) /\ ToSet(more) = ToSet(spill.buckets[c]) \cup {v}
        /\ Distinct(more) <=> Distinct(spill.buckets[c]) /\ v \notin ToSet(spill.buckets[c])
    BY <1>1, <2>1, DistinctAppend DEF more
  <2>3. v \in ToSet(spill.buckets[c]) <=> v \in Ids(P, n)
    BY <1>1, <1>2 DEF c
  <2> QED BY <2>2, <2>3
<1>10. /\ next.buckets \in [Buckets -> Seq(Int)]
       /\ \A b \in Buckets : next.buckets[b] = IF opens /\ b = c THEN more ELSE spill.buckets[b]
  BY <1>1, <1>2, <1>5, <1>9
<1>11. \A b \in Buckets : ToSet(next.buckets[b]) = {w \in Ids(P, n + 1) : BucketOf[w] = b}
  <2> TAKE b \in Buckets
  <2>1. CASE opens /\ b = c
    BY <1>2, <1>6, <1>9, <1>10, <2>1 DEF c
  <2>2. CASE opens /\ b # c
    BY <1>2, <1>6, <1>10, <2>2 DEF c
  <2>3. CASE ~opens
    <3>1. Ids(P, n + 1) = Ids(P, n)
      BY <1>6, <1>8, <2>3
    <3> QED BY <1>2, <1>10, <2>3, <3>1
  <2> QED BY <2>1, <2>2, <2>3
<1>12. ContiguousTo(P, n + 1) <=> \A b \in Buckets : Distinct(next.buckets[b])
  <2>1. CASE opens
    <3>1. (\A b \in Buckets : Distinct(next.buckets[b]))
            <=> (\A b \in Buckets : Distinct(spill.buckets[b])) /\ v \notin Ids(P, n)
      BY <1>1, <1>9, <1>10, <2>1
    <3> QED BY <1>2, <1>7, <2>1, <3>1
  <2>2. CASE ~opens
    BY <1>2, <1>7, <1>10, <2>2
  <2> QED BY <2>1, <2>2
<1>13. ASSUME ContiguousTo(P, n + 1)
       PROVE  /\ next.ok <=> OneCoreTo(P, n + 1)
              /\ next.groups = Cardinality(Ids(P, n + 1))
  <2>1. ContiguousTo(P, n)
    BY <1>7, <1>13
  <2>2. OneCoreTo(P, n + 1) <=> OneCoreTo(P, n) /\ (~opens => r.core = P[n].core)
    BY <1>3, <1>13, OneCoreStep DEF r
  <2>3. ~opens => spill.last.core = P[n].core
    BY <1>2, <1>8 DEF Profile
  <2>4. Cardinality(Ids(P, n + 1)) =
          IF v \in Ids(P, n) THEN Cardinality(Ids(P, n)) ELSE Cardinality(Ids(P, n)) + 1
    BY <1>6, FS_AddElement
  <2>5. opens <=> v \notin Ids(P, n)
    BY <1>7, <1>8, <1>13
  <2>6. next.ok <=> OneCoreTo(P, n + 1)
    BY <1>2, <1>5, <2>1, <2>2, <2>3
  <2>7. next.groups = Cardinality(Ids(P, n + 1))
    BY <1>2, <1>5, <1>6, <2>1, <2>4, <2>5
  <2> QED BY <2>6, <2>7
<1>14. next.first = Profile(P[1]) /\ next.last = Profile(P[n + 1]) /\ n + 1 # 0
  <2>1. next.first = Profile(P[1])
    <3>1. CASE n = 0
      BY <1>4, <1>5, <3>1 DEF r
    <3>2. CASE n # 0
      BY <1>2, <1>4, <1>5, <3>2
    <3> QED BY <3>1, <3>2
  <2> QED BY <1>5, <2>1 DEF r
<1>15. next.ok \in BOOLEAN /\ next.groups \in Nat
  <2>1. next.ok \in BOOLEAN
    BY <1>2, <1>5
  <2>2. next.groups \in Nat
    BY <1>2, <1>5
  <2> QED BY <2>1, <2>2
<1> QED BY <1>10, <1>11, <1>12, <1>13, <1>14, <1>15 DEF SpillAt, next, r

\* After every row the pass knows what the rows say.
LEMMA SpillHolds ==
    ASSUME NEW S, Countable(S), NEW P \in Seq(S)
    PROVE  SpillAt(Spilled(P), P, Len(P))
<1> DEFINE N == Len(P)
           Boundary == [identity : Int, core : {r.core : r \in S} \cup {NullCore}]
           V == [ok : BOOLEAN, buckets : [Buckets -> Seq(Int)], groups : Int,
                 first : Boundary, last : Boundary]
           e == FreshSpill
           step == [n \in 1..N |-> [v \in V |-> SpillRow(v, P[n])]]
           Body(f) == [n \in 0..N |-> IF n = 0 THEN e ELSE SpillRow(f[n - 1], P[n])]
           spill == CHOOSE f : f = Body(f)
<1>0. N \in Nat /\ \A n \in 1..N : P[n] \in S
  OBVIOUS
<1>1. Spilled(P) = spill[N]
  BY DEF Spilled
<1>2. e \in V
  <2>1. NoBoundary \in Boundary
    BY DEF NoBoundary
  <2>2. <<>> \in Seq(Int)
    OBVIOUS
  <2>3. [b \in Buckets |-> <<>>] \in [Buckets -> Seq(Int)]
    BY <2>2
  <2> HIDE DEF Boundary
  <2> QED BY <2>1, <2>3 DEF FreshSpill
<1>3. ASSUME NEW v \in V, NEW r \in S PROVE SpillRow(v, r) \in V
  <2> DEFINE profile == [identity |-> r.identity, core |-> r.core]
             c == BucketOf[r.identity]
             more == Append(v.buckets[c], r.identity)
  <2>1. profile \in Boundary
    BY DEF Countable
  <2>2. /\ v.ok \in BOOLEAN /\ v.buckets \in [Buckets -> Seq(Int)] /\ v.groups \in Int
        /\ v.first \in Boundary /\ v.last \in Boundary
    OBVIOUS
  <2>3. r.identity \in Int /\ c \in Buckets
    BY DEF Countable
  <2> HIDE DEF Boundary, V, profile, c
  <2>4. more \in Seq(Int)
    <3>1. v.buckets[c] \in Seq(Int)
      BY <2>2, <2>3
    <3> QED BY <2>3, <3>1
  <2> HIDE DEF more
  <2>5. [v.buckets EXCEPT ![c] = more] \in [Buckets -> Seq(Int)]
    BY <2>2, <2>3, <2>4
  <2> DEFINE new == SpillRow(v, r)
             opens == r.identity # v.last.identity
             ok == v.ok /\ (~opens => r.core = v.last.core)
             buckets == IF opens THEN [v.buckets EXCEPT ![c] = more] ELSE v.buckets
             groups == v.groups + (IF opens THEN 1 ELSE 0)
             first == IF v.first = NoBoundary THEN profile ELSE v.first
  <2>6. new = [ok |-> ok, buckets |-> buckets, groups |-> groups, first |-> first, last |-> profile]
    BY DEF SpillRow, profile, more, c
  <2>7. ok \in BOOLEAN
    BY <2>2
  <2>8. groups \in Int
    BY <2>2
  <2>9. buckets \in [Buckets -> Seq(Int)] /\ first \in Boundary
    BY <2>1, <2>2, <2>5
  <2> HIDE DEF new, ok, buckets, groups, first
  <2>10. new \in V
    BY <2>1, <2>6, <2>7, <2>8, <2>9 DEF V
  <2> QED BY <2>10 DEF new
<1> HIDE DEF N, V, e
<1>4. Facts!StepsOn(step, N, V)
  BY <1>0, <1>3 DEF Facts!StepsOn
<1> HIDE DEF step
<1>5. PICK g : Facts!Iterated(g, step, e, N, V)
  BY <1>0, <1>2, <1>4, Facts!Iterates
<1>6. \A n \in 1..N : g[n] = SpillRow(g[n - 1], P[n])
  <2> TAKE n \in 1..N
  <2>1. n - 1 \in 0..N
    BY <1>0
  <2>2. g[n] = step[n][g[n - 1]] /\ g[n - 1] \in V
    BY <1>5, <2>1 DEF Facts!Iterated
  <2> QED BY <2>2 DEF step
<1>7. g = Body(g)
  <2>1. g = [n \in 0..N |-> g[n]] /\ g[0] = e
    BY <1>5 DEF Facts!Iterated
  <2>2. \A n \in 0..N : g[n] = IF n = 0 THEN e ELSE SpillRow(g[n - 1], P[n])
    <3> TAKE n \in 0..N
    <3>1. n # 0 => n \in 1..N
      BY <1>0
    <3> QED BY <1>6, <2>1, <3>1
  <2>3. [n \in 0..N |-> g[n]]
          = [n \in 0..N |-> IF n = 0 THEN e ELSE SpillRow(g[n - 1], P[n])]
    BY <2>2
  <2> QED BY <2>1, <2>3
<1>8. spill = Body(spill)
  <2> HIDE DEF Body
  <2> QED BY <1>7, Zenon
<1> HIDE DEF spill
<1>9. \A n \in 0..N : spill[n] = IF n = 0 THEN e ELSE SpillRow(spill[n - 1], P[n])
  BY <1>8
<1> DEFINE G == {n \in 0..N : SpillAt(spill[n], P, n)}
<1>10. 0 \in G
  <2>1. spill[0] = e /\ 0 \in 0..N
    BY <1>0, <1>9
  <2>2. /\ e.ok = TRUE /\ e.groups = 0 /\ e.first = NoBoundary /\ e.last = NoBoundary
        /\ e.buckets = [b \in Buckets |-> <<>>]
    BY DEF e, FreshSpill
  <2>3. <<>> \in Seq(Int) /\ ToSet(<<>>) = {} /\ Distinct(<<>>)
    <3>1. ToSet(<<>>) = {} /\ Len(<<>>) = 0
      BY DEF ToSet
    <3>2. Cardinality(ToSet(<<>>)) = 0
      BY <3>1, FS_EmptySet
    <3> QED BY <3>1, <3>2 DEF Distinct
  <2>4. Ids(P, 0) = {} /\ ContiguousTo(P, 0) /\ OneCoreTo(P, 0)
    BY DEF Ids, ContiguousTo, OneCoreTo
  <2>5. Cardinality({}) = 0
    BY FS_EmptySet
  <2>6. e.buckets \in [Buckets -> Seq(Int)] /\ \A b \in Buckets : e.buckets[b] = <<>>
    BY <2>2, <2>3
  <2>7. \A b \in Buckets : /\ ToSet(e.buckets[b]) = {v \in Ids(P, 0) : BucketOf[v] = b}
                           /\ Distinct(e.buckets[b])
    BY <2>3, <2>4, <2>6
  <2>8. e.groups = Cardinality(Ids(P, 0)) /\ e.groups \in Nat
    <3>1. Cardinality(Ids(P, 0)) = 0
      BY <2>4, <2>5, Zenon
    <3>2. e.groups = 0
      BY <2>2
    <3> QED BY <3>1, <3>2
  <2>9. SpillAt(e, P, 0)
    BY <2>2, <2>4, <2>6, <2>7, <2>8 DEF SpillAt
  <2> QED BY <2>1, <2>9
<1>11. ASSUME NEW n \in 1..N, n - 1 \in G PROVE n \in G
  <2>1. n \in 0..N /\ n # 0 /\ n - 1 \in Nat /\ n - 1 < N /\ (n - 1) + 1 = n
    BY <1>0
  <2>2. spill[n] = SpillRow(spill[n - 1], P[n])
    BY <1>9, <2>1
  <2>3. SpillAt(spill[n - 1], P, n - 1)
    BY <1>11
  <2>4. SpillAt(SpillRow(spill[n - 1], P[(n - 1) + 1]), P, (n - 1) + 1)
    BY <2>1, <2>3, SpillStep DEF N
  <2>5. SpillAt(spill[n], P, n)
    BY <2>1, <2>2, <2>4
  <2> QED BY <2>1, <2>5
<1> HIDE DEF G
<1>12. \A n \in 0..N : n \in G
  BY <1>0, <1>10, <1>11, Facts!SetInduction
<1>13. N \in G
  BY <1>0, <1>12
<1> QED BY <1>1, <1>13 DEF G, N

-----------------------------------------------------------------------------
(* The state of one input *)

Seen(ids, b) == {v \in ids : BucketOf[v] = b}
FirstOf(P) == IF P = <<>> THEN NoBoundary ELSE Profile(Head(P))
LastOf(P) == IF P = <<>> THEN NoBoundary ELSE Profile(Last(P))

\* What is known of a contiguous input with the positive rows P, counted n.
StateOf(P, n, w) ==
    IF Contiguous(P) /\ OneCore(P)
    THEN [ok        |-> TRUE,
          buckets   |-> [b \in Buckets |-> InOrder(Seen(Identities(P), b))],
          counts    |-> [b \in Buckets |-> Cardinality(Seen(Identities(P), b))],
          rows      |-> n,
          groups    |-> Cardinality(Identities(P)),
          witnesses |-> w,
          first     |-> FirstOf(P),
          last      |-> LastOf(P)]
    ELSE Failed

\* Identities are positive numbers, no more than the rows.
LEMMA IdentitiesCount ==
    ASSUME NEW S, Countable(S), NEW P \in Seq(S)
    PROVE  LET ids == Identities(P)
           IN  /\ ids \subseteq Int /\ IsFiniteSet(ids) /\ Cardinality(ids) \in Nat
               /\ Cardinality(ids) <= Len(P) /\ (P = <<>> <=> ids = {})
               /\ \A v \in ids : v > 0 /\ BucketOf[v] \in Buckets
<1> DEFINE ids == Identities(P)
<1>1. ids = {r.identity : r \in ToSet(P)} /\ ToSet(P) \subseteq S /\ (ToSet(P) = {} <=> P = <<>>)
  BY IdentitiesType, MembersType
<1>2. ids = Ids(P, Len(P)) /\ Len(P) \in Nat
  BY MeaningOfAll
<1> HIDE DEF ids
<1>3. IsFiniteSet(ids) /\ Cardinality(ids) \in Nat /\ Cardinality(ids) <= Len(P)
  BY <1>2, IdsGrow
<1>4. ids \subseteq Int /\ \A v \in ids : v > 0 /\ BucketOf[v] \in Buckets
  BY <1>1 DEF Countable
<1>5. P = <<>> <=> ids = {}
  BY <1>1
<1> QED BY <1>3, <1>4, <1>5 DEF ids

\* The identities of one bucket, in order.
LEMMA SeenType ==
    ASSUME NEW ids \in SUBSET Int, IsFiniteSet(ids), NEW b
    PROVE  LET seen == Seen(ids, b)
           IN  /\ IsFiniteSet(seen) /\ Cardinality(seen) \in Nat
               /\ InOrder(seen) \in Seq(Int) /\ ToSet(InOrder(seen)) = seen
               /\ Increasing(InOrder(seen)) /\ Len(InOrder(seen)) = Cardinality(seen)
<1> DEFINE seen == Seen(ids, b)
<1>1. seen \subseteq ids /\ seen \in SUBSET Int
  BY DEF Seen
<1> HIDE DEF seen
<1>2. IsFiniteSet(seen)
  BY <1>1, FS_Subset
<1>3. Cardinality(seen) \in Nat
  BY <1>2, FS_CardinalityType
<1> QED BY <1>1, <1>2, <1>3, InOrderType DEF seen

\* The rows of an input.
Readable(S) ==
    \A r \in S : r.identity \in Int /\ (IsPositive(r) => r.identity \in DOMAIN BucketOf)

\* The positive rows of an input are usable and in the order of the input.
LEMMA PositiveType ==
    ASSUME NEW S, Readable(S), NEW rows \in Seq(S)
    PROVE  LET positive == {r \in S : r.identity > 0}
           IN  /\ Countable(positive) /\ PositiveOf(rows) \in Seq(positive)
               /\ PositiveOf(rows) = Those(rows, positive)
               /\ Len(WitnessesOf(rows)) \in Nat
<1> DEFINE positive == {r \in S : r.identity > 0}
           T == {r \in ToSet(rows) : IsPositive(r)}
           W == {r \in ToSet(rows) : IsWitness(r)}
<1>1. Countable(positive)
  <2> SUFFICES ASSUME NEW r \in positive
               PROVE  r.identity \in Int /\ r.identity > 0 /\ BucketOf[r.identity] \in Buckets
    BY DEF Countable
  <2>1. r \in S /\ r.identity > 0 /\ r.identity \in Int /\ IsPositive(r)
    BY DEF Readable, IsPositive
  <2>2. r.identity \in DOMAIN BucketOf
    BY <2>1 DEF Readable
  <2> QED BY <2>1, <2>2, CanonicalizeAssumption DEF Buckets
<1>2. ToSet(rows) \subseteq S
  BY MembersType
<1>3. T \cap ToSet(rows) = positive \cap ToSet(rows)
  BY <1>2 DEF IsPositive
<1>4. PositiveOf(rows) = Those(rows, T) /\ WitnessesOf(rows) = Those(rows, W)
  BY DEF PositiveOf, WitnessesOf
<1> HIDE DEF T, W
<1>5. Those(rows, T) = Those(rows, positive)
  BY <1>3, ThoseAlike
<1>6. Those(rows, positive) \in Seq(S \cap positive) /\ Those(rows, W) \in Seq(S \cap W)
  BY ThoseMembers
<1>7. S \cap positive = positive
  OBVIOUS
<1>8. Len(Those(rows, W)) \in Nat
  BY <1>6
<1> HIDE DEF positive
<1> QED BY <1>1, <1>4, <1>5, <1>6, <1>7, <1>8 DEF positive

\* The state of one input is what its positive rows say: every check that fails,
\* of counts, buckets or neighbours, fails because the rows are not contiguous.
LEMMA SingleIs ==
    ASSUME NEW S, Readable(S), NEW rows \in Seq(S)
    PROVE  SingleInputState(rows) =
             IF \E i \in DOMAIN rows : InvalidRow(rows[i]) THEN Failed
             ELSE StateOf(PositiveOf(rows), Len(PositiveOf(rows)), Len(WitnessesOf(rows)))
<1> DEFINE P == PositiveOf(rows)
           w == Len(WitnessesOf(rows))
           U == {r \in S : r.identity > 0}
           ids == Identities(P)
           spill == Spilled(P)
           sorted == [b \in Buckets |-> SortBucketFile(spill.buckets[b])]
           invalid == \E i \in DOMAIN rows : InvalidRow(rows[i])
           repeated == \E b \in Buckets : Repeats(sorted[b]) # {}
           state == SingleInputState(rows)
           good == [ok |-> TRUE, buckets |-> sorted,
                    counts |-> [b \in Buckets |-> Len(sorted[b])],
                    rows |-> Len(P), groups |-> spill.groups, witnesses |-> w,
                    first |-> spill.first, last |-> spill.last]
<1>1. state = IF invalid \/ ~spill.ok \/ repeated THEN Failed ELSE good
  BY DEF SingleInputState
<1>2. Countable(U) /\ P \in Seq(U)
  BY PositiveType
<1> HIDE DEF state, invalid, w, P, U
<1>3. SpillAt(spill, P, Len(P)) /\ Len(P) \in Nat
  BY <1>2, SpillHolds
<1> HIDE DEF spill
<1>4. /\ Contiguous(P) <=> ContiguousTo(P, Len(P))
      /\ OneCore(P) <=> OneCoreTo(P, Len(P))
      /\ ids = Ids(P, Len(P))
  BY <1>2, MeaningOfAll
<1>5. /\ spill.ok \in BOOLEAN /\ spill.buckets \in [Buckets -> Seq(Int)]
      /\ \A b \in Buckets : ToSet(spill.buckets[b]) = {v \in ids : BucketOf[v] = b}
      /\ Contiguous(P) <=> \A b \in Buckets : Distinct(spill.buckets[b])
      /\ Contiguous(P) => (spill.ok <=> OneCore(P)) /\ spill.groups = Cardinality(ids)
  BY <1>3, <1>4 DEF SpillAt
<1>6. spill.first = FirstOf(P) /\ spill.last = LastOf(P)
  <2>1. P = <<>> <=> Len(P) = 0
    BY <1>2
  <2>2. Head(P) = P[1] /\ Last(P) = P[Len(P)]
    BY <1>2 DEF Last
  <2> QED BY <1>3, <2>1, <2>2 DEF SpillAt, FirstOf, LastOf
<1>7. \A b \in Buckets :
        /\ Repeats(sorted[b]) = {} <=> Distinct(spill.buckets[b])
        /\ Distinct(spill.buckets[b]) => sorted[b] = InOrder(ToSet(spill.buckets[b]))
  <2> TAKE b \in Buckets
  <2>1. spill.buckets[b] \in Seq(Int)
    BY <1>5
  <2>2. sorted[b] = SortBucketFile(spill.buckets[b])
    OBVIOUS
  <2> HIDE DEF sorted
  <2> QED BY <2>1, <2>2, BucketFileSorts
<1>8. repeated <=> ~Contiguous(P)
  <2> HIDE DEF sorted
  <2> QED BY <1>5, <1>7
<1>9. CASE Contiguous(P) /\ OneCore(P)
  <2>1. ids \in SUBSET Int /\ IsFiniteSet(ids)
    BY <1>2, IdentitiesCount
  <2>2. \A b \in Buckets : sorted[b] = InOrder(Seen(ids, b))
    BY <1>5, <1>7, <1>9 DEF Seen
  <2>3. \A b \in Buckets : Len(sorted[b]) = Cardinality(Seen(ids, b))
    BY <2>1, <2>2, SeenType
  <2>4. sorted = [b \in Buckets |-> InOrder(Seen(ids, b))]
    BY <2>2
  <2>5. [b \in Buckets |-> Len(sorted[b])] = [b \in Buckets |-> Cardinality(Seen(ids, b))]
    BY <2>3
  <2>6. spill.groups = Cardinality(ids) /\ spill.ok
    BY <1>5, <1>9
  <2> HIDE DEF sorted
  <2>7. good = StateOf(P, Len(P), w)
    BY <1>6, <1>9, <2>4, <2>5, <2>6 DEF StateOf
  <2> HIDE DEF good
  <2>8. ~repeated
    BY <1>8, <1>9
  <2>9. state = IF invalid THEN Failed ELSE StateOf(P, Len(P), w)
    BY <1>1, <2>6, <2>7, <2>8
  <2> QED BY <2>9 DEF state, invalid, P, w
<1>10. CASE ~(Contiguous(P) /\ OneCore(P))
  <2>1. ~spill.ok \/ repeated
    <3> HIDE DEF repeated
    <3> QED BY <1>5, <1>8, <1>10
  <2>2. state = Failed
    <3> HIDE DEF good, repeated
    <3> QED BY <1>1, <2>1
  <2>3. StateOf(P, Len(P), w) = Failed
    BY <1>10 DEF StateOf
  <2> QED BY <2>2, <2>3 DEF state, invalid, P, w
<1> QED BY <1>9, <1>10

-----------------------------------------------------------------------------
(* Such a state is valid and is read as it was written *)

\* The total of the counts, bucket after bucket.
LEMMA TotalIs ==
    ASSUME NEW counts \in [Buckets -> Int], NEW c, c[0] = 0,
           \A n \in 1..BucketCount : c[n] = c[n - 1] + counts[n - 1]
    PROVE  Total(counts) = c[BucketCount]
<1> DEFINE N == BucketCount
           Body(f) == [n \in 0..N |-> IF n = 0 THEN 0 ELSE f[n - 1] + counts[n - 1]]
           sum == CHOOSE f : f = Body(f)
           g == [n \in 0..N |-> c[n]]
<1>0. N \in Nat /\ \A n \in 1..N : n - 1 \in 0..N /\ n - 1 \in Buckets
  BY CanonicalizeAssumption DEF Buckets
<1>1. Total(counts) = sum[N]
  BY DEF Total
<1>2. g = Body(g)
  <2>1. \A n \in 0..N : c[n] = IF n = 0 THEN 0 ELSE g[n - 1] + counts[n - 1]
    <3> TAKE n \in 0..N
    <3>1. n # 0 => n \in 1..N /\ n - 1 \in 0..N
      BY <1>0
    <3> QED BY <3>1
  <2> QED BY <2>1
<1>3. sum = Body(sum)
  <2> HIDE DEF Body
  <2> QED BY <1>2, Zenon
<1> HIDE DEF sum
<1>4. \A n \in 0..N : sum[n] = IF n = 0 THEN 0 ELSE sum[n - 1] + counts[n - 1]
  BY <1>3
<1> DEFINE G == {n \in 0..N : sum[n] = c[n]}
<1>5. 0 \in G
  BY <1>0, <1>4
<1>6. ASSUME NEW n \in 1..N, n - 1 \in G PROVE n \in G
  <2>1. n \in 0..N /\ n # 0
    BY <1>0
  <2> QED BY <1>4, <1>6, <2>1
<1> HIDE DEF G
<1>7. \A n \in 0..N : n \in G
  BY <1>0, <1>5, <1>6, Facts!SetInduction
<1>8. N \in G
  BY <1>0, <1>7
<1> QED BY <1>1, <1>8 DEF G

\* The buckets share the identities out between them.
LEMMA SeenTotal ==
    ASSUME NEW ids \in SUBSET Int, IsFiniteSet(ids), \A v \in ids : BucketOf[v] \in Buckets
    PROVE  Total([b \in Buckets |-> Cardinality(Seen(ids, b))]) = Cardinality(ids)
<1> DEFINE counts == [b \in Buckets |-> Cardinality(Seen(ids, b))]
           c == [n \in 0..BucketCount |-> Cardinality({v \in ids : BucketOf[v] < n})]
<1>0. BucketCount \in Nat /\ \A n \in 1..BucketCount : n - 1 \in 0..BucketCount /\ n - 1 \in Buckets
                                                      /\ n \in 0..BucketCount
  BY CanonicalizeAssumption DEF Buckets
<1>1. counts \in [Buckets -> Int]
  BY SeenType
<1>a. \A v \in ids : ~(BucketOf[v] < 0) /\ BucketOf[v] < BucketCount
  <2> TAKE v \in ids
  <2> DEFINE b == BucketOf[v]
  <2>1. b \in Buckets
    OBVIOUS
  <2> HIDE DEF b
  <2>2. ~(b < 0) /\ b < BucketCount
    BY <1>0, <2>1 DEF Buckets
  <2> QED BY <2>2 DEF b
<1>2. c[0] = 0
  <2>1. {v \in ids : BucketOf[v] < 0} = {}
    BY <1>a, Zenon
  <2>2. 0 \in 0..BucketCount
    BY <1>0
  <2> QED BY <2>1, <2>2, FS_EmptySet
<1>3. \A n \in 1..BucketCount : c[n] = c[n - 1] + counts[n - 1]
  BY <1>0, BucketsAddUp DEF Seen
<1>4. c[BucketCount] = Cardinality(ids)
  <2>1. {v \in ids : BucketOf[v] < BucketCount} = ids
    BY <1>a, Zenon
  <2>2. BucketCount \in 0..BucketCount
    BY <1>0
  <2> QED BY <2>1, <2>2
<1> HIDE DEF counts, c
<1>5. Total(counts) = c[BucketCount]
  BY <1>1, <1>2, <1>3, TotalIs
<1> QED BY <1>4, <1>5 DEF counts

\* n and w may count the rows P and the witnesses.
Counted(P, n, w) ==
    /\ n \in Nat /\ w \in Nat /\ Cardinality(Identities(P)) <= n
    /\ P = <<>> => n = 0

\* The state of contiguous rows passes every check of load_canonical_state.
LEMMA StateValid ==
    ASSUME NEW S, Countable(S), NEW P \in Seq(S), NEW n, NEW w, Counted(P, n, w),
           Contiguous(P), OneCore(P)
    PROVE  LET s == StateOf(P, n, w)
           IN  /\ s.ok /\ ValidState(s) /\ (s.groups = 0 <=> P = <<>>)
               /\ s = [ok |-> TRUE,
                       buckets |-> [b \in Buckets |-> InOrder(Seen(Identities(P), b))],
                       counts |-> [b \in Buckets |-> Cardinality(Seen(Identities(P), b))],
                       rows |-> n, groups |-> Cardinality(Identities(P)), witnesses |-> w,
                       first |-> FirstOf(P), last |-> LastOf(P)]
<1> DEFINE ids == Identities(P)
           s == StateOf(P, n, w)
           buckets == [b \in Buckets |-> InOrder(Seen(ids, b))]
           counts == [b \in Buckets |-> Cardinality(Seen(ids, b))]
<1>1. /\ ids \in SUBSET Int /\ IsFiniteSet(ids) /\ Cardinality(ids) \in Nat
      /\ (P = <<>> <=> ids = {})
      /\ \A v \in ids : v \in Int /\ v > 0 /\ BucketOf[v] \in Buckets
  BY IdentitiesCount
<1>2. s = [ok |-> TRUE, buckets |-> buckets, counts |-> counts, rows |-> n,
           groups |-> Cardinality(ids), witnesses |-> w,
           first |-> FirstOf(P), last |-> LastOf(P)]
  BY DEF StateOf
<1>3. /\ s.ok /\ s.buckets = buckets /\ s.counts = counts /\ s.rows = n
      /\ s.groups = Cardinality(ids) /\ s.witnesses = w
      /\ s.first = FirstOf(P) /\ s.last = LastOf(P)
  BY <1>2
<1>4. Cardinality(ids) = 0 <=> P = <<>>
  BY <1>1, FS_EmptySet
<1>5. \A b \in Buckets :
        /\ buckets[b] \in Seq(Int) /\ ToSet(buckets[b]) = Seen(ids, b)
        /\ Increasing(buckets[b]) /\ Len(buckets[b]) = Cardinality(Seen(ids, b))
        /\ counts[b] = Cardinality(Seen(ids, b))
  <2> TAKE b \in Buckets
  <2>1. buckets[b] = InOrder(Seen(ids, b)) /\ counts[b] = Cardinality(Seen(ids, b))
    OBVIOUS
  <2> HIDE DEF buckets, counts, ids
  <2> QED BY <1>1, <2>1, SeenType
<1>6. Total(counts) = Cardinality(ids)
  <2> HIDE DEF ids
  <2> QED BY <1>1, SeenTotal
<1> HIDE DEF ids, buckets, counts, s
<1>7. \A b \in Buckets : ValidBucketFile(s, b)
  <2> TAKE b \in Buckets
  <2> DEFINE file == buckets[b]
  <2>1. ASSUME NEW i \in DOMAIN file
        PROVE  file[i] > (IF i = 1 THEN 0 ELSE file[i - 1]) /\ BucketOf[file[i]] = b
    <3>1. file \in Seq(Int) /\ i \in 1 .. Len(file)
      BY <1>5
    <3>2. file[i] \in Seen(ids, b)
      BY <1>5, <3>1 DEF ToSet
    <3>3. file[i] \in Int /\ file[i] > 0 /\ BucketOf[file[i]] = b
      BY <1>1, <3>2 DEF Seen
    <3>4. i # 1 => file[i - 1] < file[i] /\ file[i - 1] \in Int
      <4> SUFFICES ASSUME i # 1 PROVE file[i - 1] < file[i] /\ file[i - 1] \in Int
        OBVIOUS
      <4>1. i - 1 \in 1 .. Len(file) /\ i - 1 < i
        BY <3>1
      <4> QED BY <1>5, <3>1, <4>1 DEF Increasing
    <3> QED BY <3>3, <3>4
  <2> QED BY <1>3, <1>5, <2>1 DEF ValidBucketFile
<1>8. ASSUME NEW r, r \in ToSet(P) PROVE InItsBucket(s, Profile(r))
  <2>1. r.identity \in ids
    BY <1>8, IdentitiesType DEF ids
  <2>2. Profile(r).identity = r.identity
    BY DEF Profile
  <2>3. r.identity > 0 /\ BucketOf[r.identity] \in Buckets
    BY <1>1, <2>1
  <2>4. r.identity \in ToSet(s.buckets[BucketOf[r.identity]])
    BY <1>3, <1>5, <2>1, <2>3 DEF Seen
  <2> QED BY <2>2, <2>3, <2>4 DEF InItsBucket
<1>9. P # <<>> => InItsBucket(s, s.first) /\ InItsBucket(s, s.last)
  <2> SUFFICES ASSUME P # <<>> PROVE InItsBucket(s, s.first) /\ InItsBucket(s, s.last)
    OBVIOUS
  <2>1. Head(P) \in ToSet(P) /\ Last(P) \in ToSet(P)
    <3>1. 1 \in DOMAIN P /\ Len(P) \in DOMAIN P /\ Head(P) = P[1] /\ Last(P) = P[Len(P)]
      BY DEF Last
    <3> QED BY <3>1 DEF ToSet
  <2> QED BY <1>3, <1>8, <2>1 DEF FirstOf, LastOf
<1>10. ValidState(s)
  <2>1. s.rows >= s.groups /\ s.witnesses >= 0 /\ Total(s.counts) = s.groups
    BY <1>1, <1>3, <1>6 DEF Counted, ids
  <2>2. s.groups = 0 <=> P = <<>>
    BY <1>3, <1>4
  <2>3. P = <<>> => s.rows = 0 /\ s.first = NoBoundary /\ s.last = NoBoundary
    BY <1>3 DEF Counted, FirstOf, LastOf
  <2> QED BY <1>7, <1>9, <2>1, <2>2, <2>3 DEF ValidState
<1> QED BY <1>2, <1>3, <1>4, <1>10 DEF s, ids, buckets, counts

\* A state comes back from its files as it was written.
LEMMA RereadIs ==
    ASSUME NEW S, Countable(S), NEW P \in Seq(S), NEW n, NEW w, Counted(P, n, w)
    PROVE  Reread(StateOf(P, n, w)) = StateOf(P, n, w)
<1> DEFINE s == StateOf(P, n, w)
<1>1. CASE ~(Contiguous(P) /\ OneCore(P))
  BY <1>1 DEF StateOf, Reread, Failed
<1>2. CASE Contiguous(P) /\ OneCore(P)
  <2> DEFINE buckets == [b \in Buckets |-> InOrder(Seen(Identities(P), b))]
             counts == [b \in Buckets |-> Cardinality(Seen(Identities(P), b))]
             groups == Cardinality(Identities(P))
             payloads == Payloads(s)
             summary == Summary(s)
  <2>1. s.ok /\ ValidState(s)
    BY <1>2, StateValid
  <2>2. s = [ok |-> TRUE, buckets |-> buckets, counts |-> counts, rows |-> n,
             groups |-> groups, witnesses |-> w, first |-> FirstOf(P), last |-> LastOf(P)]
    BY <1>2 DEF StateOf
  <2>3. buckets = [b \in Buckets |-> buckets[b]]
    OBVIOUS
  <2> HIDE DEF s, buckets, counts, groups
  <2>4. BucketCount \in Nat /\ \A b \in Buckets : b + 1 \in 1..BucketCount /\ (b + 1) - 1 = b
    BY CanonicalizeAssumption DEF Buckets
  <2>5. payloads = [i \in 1 .. BucketCount |->
                      [count |-> BucketCount, index |-> i - 1, values |-> s.buckets[i - 1]]]
    BY DEF Payloads
  <2>6. summary = [counts |-> s.counts, rows |-> s.rows, groups |-> s.groups,
                   witnesses |-> s.witnesses, first |-> s.first, last |-> s.last]
    BY DEF Summary
  <2> HIDE DEF payloads, summary
  <2>7. Len(payloads) = BucketCount
    BY <2>4, <2>5
  <2>8. \A b \in Buckets : payloads[b + 1] =
          [count |-> BucketCount, index |-> b, values |-> s.buckets[b]]
    <3> TAKE b \in Buckets
    <3> DEFINE i == b + 1
    <3>1. i \in 1 .. BucketCount /\ i - 1 = b
      BY <2>4
    <3> HIDE DEF i
    <3>2. payloads[i] = [count |-> BucketCount, index |-> i - 1, values |-> s.buckets[i - 1]]
      BY <2>5, <3>1
    <3>3. payloads[i] = [count |-> BucketCount, index |-> b, values |-> s.buckets[b]]
      BY <3>1, <3>2
    <3> QED BY <3>3 DEF i
  <2>9. \A b \in Buckets : GoodPayload(payloads[b + 1], b, summary)
    <3> TAKE b \in Buckets
    <3>1. ValidBucketFile(s, b)
      BY <2>1 DEF ValidState
    <3> DEFINE payload == payloads[b + 1]
    <3>0. payload = [count |-> BucketCount, index |-> b, values |-> s.buckets[b]]
      BY <2>8
    <3>2. payload.count = BucketCount /\ payload.index = b /\ payload.values = s.buckets[b]
      <4> HIDE DEF payload
      <4> QED BY <3>0
    <3>3. summary.counts = s.counts
      BY <2>6
    <3> HIDE DEF payload
    <3>4. GoodPayload(payload, b, summary)
      BY <3>1, <3>2, <3>3 DEF GoodPayload, ValidBucketFile
    <3> QED BY <3>4 DEF payload
  <2> DEFINE state == [ok |-> TRUE,
                       buckets |-> [b \in Buckets |-> payloads[b + 1].values],
                       counts |-> summary.counts, rows |-> summary.rows,
                       groups |-> summary.groups, witnesses |-> summary.witnesses,
                       first |-> summary.first, last |-> summary.last]
  <2>10. [b \in Buckets |-> payloads[b + 1].values] = buckets
    <3>0. s.buckets = buckets
      BY <2>2
    <3>1. \A b \in Buckets : payloads[b + 1].values = buckets[b]
      <4> TAKE b \in Buckets
      <4> DEFINE payload == payloads[b + 1]
      <4>1. payload = [count |-> BucketCount, index |-> b, values |-> s.buckets[b]]
        BY <2>8
      <4> HIDE DEF payload
      <4>2. payload.values = s.buckets[b]
        BY <4>1
      <4> QED BY <3>0, <4>2 DEF payload
    <3> QED BY <2>3, <3>1
  <2>11. state = s
    <3>1. /\ summary.counts = counts /\ summary.rows = n /\ summary.groups = groups
          /\ summary.witnesses = w /\ summary.first = FirstOf(P) /\ summary.last = LastOf(P)
      BY <2>2, <2>6
    <3> QED BY <2>2, <2>10, <3>1
  <2>12. DecodeState(summary, payloads) =
           IF /\ Len(payloads) = BucketCount
              /\ \A b \in Buckets : GoodPayload(payloads[b + 1], b, summary)
              /\ ValidState(state)
           THEN state ELSE Failed
    BY DEF DecodeState
  <2> HIDE DEF state
  <2>13. DecodeState(summary, payloads) = s
    BY <2>1, <2>7, <2>9, <2>11, <2>12
  <2>14. Reread(s) = s
    BY <2>1, <2>13 DEF Reread, summary, payloads
  <2> QED BY <2>14 DEF s
<1> QED BY <1>1, <1>2

-----------------------------------------------------------------------------
(* Two inputs one after the other *)

\* What the identities of two inputs may have in common.
Joint(A, B) == IF Last(A).identity = Head(B).identity THEN {Last(A).identity} ELSE {}

\* Two sequences one after the other.
LEMMA Concat ==
    ASSUME NEW S, NEW A \in Seq(S), NEW B \in Seq(S)
    PROVE  LET C == A \o B
           IN  /\ C \in Seq(S) /\ Len(C) = Len(A) + Len(B)
               /\ Len(A) \in Nat /\ Len(B) \in Nat
               /\ \A i \in 1 .. Len(A) : C[i] = A[i] /\ i \in 1 .. Len(C)
               /\ \A i \in 1 .. Len(B) : C[Len(A) + i] = B[i] /\ Len(A) + i \in 1 .. Len(C)
               /\ \A i \in 1 .. Len(C) : i \in 1 .. Len(A) \/ i - Len(A) \in 1 .. Len(B)
               /\ Identities(C) = Identities(A) \cup Identities(B)
<1> DEFINE C == A \o B
           m == Len(A)
           n == Len(B)
<1>1. /\ C \in Seq(S) /\ Len(C) = m + n /\ m \in Nat /\ n \in Nat
      /\ \A i \in 1 .. m + n : C[i] = IF i <= m THEN A[i] ELSE B[i - m]
  BY ConcatProperties
<1>2. ToSet(C) = ToSet(A) \cup ToSet(B)
  BY MembersConcat
<1>3. Identities(C) = Identities(A) \cup Identities(B)
  <2>1. /\ Identities(A) = {r.identity : r \in ToSet(A)}
        /\ Identities(B) = {r.identity : r \in ToSet(B)}
        /\ Identities(C) = {r.identity : r \in ToSet(C)}
    BY <1>1, IdentitiesType
  <2> QED BY <1>2, <2>1
<1> HIDE DEF C, m, n
<1>4. /\ \A i \in 1..m : C[i] = A[i] /\ i \in 1 .. m + n
      /\ \A i \in 1..n : C[m + i] = B[i] /\ m + i \in 1 .. m + n
      /\ \A i \in 1 .. m + n : i \in 1..m \/ i - m \in 1..n
  <2>1. \A i \in 1..m : i \in 1 .. m + n /\ i <= m
    BY <1>1
  <2>2. \A i \in 1..n : m + i \in 1 .. m + n /\ ~(m + i <= m) /\ (m + i) - m = i
    BY <1>1
  <2>3. \A i \in 1 .. m + n : i \in 1..m \/ i - m \in 1..n
    BY <1>1
  <2> QED BY <1>1, <2>1, <2>2, <2>3
<1> QED BY <1>1, <1>3, <1>4 DEF C, m, n

\* The first and the last row.
LEMMA Ends ==
    ASSUME NEW S, NEW P \in Seq(S), P # <<>>
    PROVE  /\ Head(P) = P[1] /\ Last(P) = P[Len(P)]
           /\ 1 \in 1 .. Len(P) /\ Len(P) \in 1 .. Len(P) /\ Len(P) \in Nat
           /\ Head(P) \in S /\ Last(P) \in S
           /\ Head(P).identity \in Identities(P) /\ Last(P).identity \in Identities(P)
           /\ FirstOf(P) = Profile(Head(P)) /\ LastOf(P) = Profile(Last(P))
<1>1. Head(P) = P[1] /\ Last(P) = P[Len(P)]
  BY DEF Last
<1>2. 1 \in 1 .. Len(P) /\ Len(P) \in 1 .. Len(P) /\ Len(P) \in Nat
  OBVIOUS
<1>3. DOMAIN P = 1 .. Len(P) /\ \A i \in 1 .. Len(P) : P[i] \in S
  OBVIOUS
<1> QED BY <1>1, <1>2, <1>3 DEF Identities, FirstOf, LastOf

\* Two inputs are contiguous together when only the rows at the boundary share an
\* identity.
LEMMA ContiguousConcat ==
    ASSUME NEW S, NEW A \in Seq(S), NEW B \in Seq(S), A # <<>>, B # <<>>
    PROVE  Contiguous(A \o B)
             <=> /\ Contiguous(A) /\ Contiguous(B)
                 /\ Identities(A) \cap Identities(B) \subseteq Joint(A, B)
<1> DEFINE C == A \o B
           m == Len(A)
           n == Len(B)
<1>1. /\ C \in Seq(S) /\ Len(C) = m + n /\ m \in Nat /\ n \in Nat
      /\ \A i \in 1..m : C[i] = A[i] /\ i \in 1 .. m + n
      /\ \A i \in 1..n : C[m + i] = B[i] /\ m + i \in 1 .. m + n
      /\ \A i \in 1 .. m + n : i \in 1..m \/ i - m \in 1..n
  BY Concat
<1>2. /\ Last(A) = A[m] /\ Head(B) = B[1] /\ 1 \in 1..n /\ m \in 1..m
  BY Ends
<1>3. /\ Contiguous(A) <=> ContiguousTo(A, m)
      /\ Contiguous(B) <=> ContiguousTo(B, n)
      /\ Contiguous(C) <=> ContiguousTo(C, m + n)
      /\ Identities(A) = Ids(A, m) /\ Identities(B) = Ids(B, n)
  BY <1>1, MeaningOfAll
<1> HIDE DEF C, m, n
<1>4. ASSUME ContiguousTo(C, m + n) PROVE ContiguousTo(A, m)
  <2>1. \A i, k \in 1..m : \A j \in i..k : j \in 1..m
    BY <1>1
  <2> QED BY <1>1, <1>4, <2>1 DEF ContiguousTo
<1>5. ASSUME ContiguousTo(C, m + n) PROVE ContiguousTo(B, n)
  <2> SUFFICES ASSUME NEW i \in 1..n, NEW k \in 1..n, B[i].identity = B[k].identity,
                      NEW j \in i..k
               PROVE  B[j].identity = B[i].identity
    BY DEF ContiguousTo
  <2>1. j \in 1..n /\ m + j \in (m + i) .. (m + k)
    BY <1>1
  <2>2. C[m + i].identity = C[m + k].identity
    BY <1>1
  <2>3. C[m + j].identity = C[m + i].identity
    BY <1>1, <1>5, <2>1, <2>2 DEF ContiguousTo
  <2> QED BY <1>1, <2>1, <2>3
<1>6. ASSUME ContiguousTo(C, m + n), NEW v \in Ids(A, m), v \in Ids(B, n)
      PROVE  A[m].identity = v /\ B[1].identity = v
  <2>1. PICK i \in 1..m : A[i].identity = v
    BY <1>6 DEF Ids
  <2>2. PICK k \in 1..n : B[k].identity = v
    BY <1>6 DEF Ids
  <2>3. C[i].identity = v /\ C[m + k].identity = v
    BY <1>1, <2>1, <2>2
  <2>4. m \in i .. m + k /\ m + 1 \in i .. m + k
    BY <1>1
  <2>5. \A j \in i .. m + k : C[j].identity = C[i].identity
    BY <1>1, <1>6, <2>3 DEF ContiguousTo
  <2> QED BY <1>1, <1>2, <2>3, <2>4, <2>5
<1>7. ASSUME ContiguousTo(A, m), ContiguousTo(B, n),
             \A v \in Ids(A, m) \cap Ids(B, n) : A[m].identity = v /\ B[1].identity = v
      PROVE  ContiguousTo(C, m + n)
  <2> SUFFICES ASSUME NEW i \in 1 .. m + n, NEW k \in 1 .. m + n,
                      C[i].identity = C[k].identity, NEW j \in i..k
               PROVE  C[j].identity = C[i].identity
    BY DEF ContiguousTo
  <2>1. CASE i \in 1..m /\ k \in 1..m
    <3>1. j \in 1..m
      BY <1>1, <2>1
    <3> QED BY <1>1, <1>7, <2>1, <3>1 DEF ContiguousTo
  <2>2. CASE i - m \in 1..n /\ k - m \in 1..n
    <3>1. PICK a \in 1..n : i = m + a
      BY <1>1, <2>2
    <3>2. PICK c \in 1..n : k = m + c
      BY <1>1, <2>2
    <3>3. PICK b \in a..c : j = m + b
      <4>1. j - m \in a..c /\ j = m + (j - m)
        BY <1>1, <3>1, <3>2
      <4> QED BY <4>1
    <3>4. b \in 1..n
      BY <1>1
    <3>a. C[i] = B[a] /\ C[k] = B[c]
      BY <1>1, <3>1, <3>2
    <3>5. B[b].identity = B[a].identity
      BY <1>7, <3>a DEF ContiguousTo
    <3> QED BY <1>1, <3>1, <3>3, <3>4, <3>5
  <2>3. CASE i \in 1..m /\ k - m \in 1..n
    <3>2. PICK c \in 1..n : k = m + c
      BY <1>1, <2>3
    <3>3. C[i] = A[i] /\ C[k] = B[c]
      BY <1>1, <2>3, <3>2
    <3>4. A[i].identity \in Ids(A, m) /\ A[i].identity \in Ids(B, n)
      BY <2>3, <3>3 DEF Ids
    <3>5. A[m].identity = A[i].identity /\ B[1].identity = B[c].identity
      BY <1>7, <3>3, <3>4
    <3>6. CASE j \in 1..m
      <4>1. j \in i..m
        BY <1>1, <3>6
      <4>2. A[j].identity = A[i].identity
        BY <1>2, <1>7, <2>3, <3>5, <4>1 DEF ContiguousTo
      <4> QED BY <1>1, <3>3, <3>6, <4>2
    <3>7. CASE j - m \in 1..n
      <4>1. PICK b \in 1..n : j = m + b
        BY <1>1, <3>7
      <4>2. b \in 1..c
        BY <1>1, <3>2, <4>1
      <4>3. B[b].identity = B[1].identity
        BY <1>2, <1>7, <3>5, <4>2 DEF ContiguousTo
      <4> QED BY <1>1, <3>3, <3>5, <4>1, <4>3
    <3>8. j \in 1 .. m + n
      BY <1>1
    <3> QED BY <1>1, <3>6, <3>7, <3>8
  <2>4. CASE i - m \in 1..n /\ k \in 1..m
    BY <1>1, <2>4
  <2> QED BY <1>1, <2>1, <2>2, <2>3, <2>4
<1>8. Identities(A) \cap Identities(B) \subseteq Joint(A, B)
        <=> \A v \in Ids(A, m) \cap Ids(B, n) : A[m].identity = v /\ B[1].identity = v
  BY <1>2, <1>3 DEF Joint
<1>9. Contiguous(C) => Contiguous(A) /\ Contiguous(B)
                       /\ Identities(A) \cap Identities(B) \subseteq Joint(A, B)
  BY <1>3, <1>4, <1>5, <1>6, <1>8
<1>10. Contiguous(A) /\ Contiguous(B)
         /\ Identities(A) \cap Identities(B) \subseteq Joint(A, B) => Contiguous(C)
  BY <1>3, <1>7, <1>8
<1> QED BY <1>9, <1>10 DEF C

\* Equal identities agree when they do in each input and across the boundary.
LEMMA OneCoreConcat ==
    ASSUME NEW S, NEW A \in Seq(S), NEW B \in Seq(S), A # <<>>, B # <<>>,
           Identities(A) \cap Identities(B) \subseteq Joint(A, B)
    PROVE  OneCore(A \o B)
             <=> /\ OneCore(A) /\ OneCore(B)
                 /\ Last(A).identity = Head(B).identity => Last(A).core = Head(B).core
<1> DEFINE C == A \o B
           m == Len(A)
           n == Len(B)
           agree == Last(A).identity = Head(B).identity => Last(A).core = Head(B).core
<1>1. /\ C \in Seq(S) /\ Len(C) = m + n /\ m \in Nat /\ n \in Nat
      /\ \A i \in 1..m : C[i] = A[i] /\ i \in 1 .. m + n
      /\ \A i \in 1..n : C[m + i] = B[i] /\ m + i \in 1 .. m + n
      /\ \A i \in 1 .. m + n : i \in 1..m \/ i - m \in 1..n
  BY Concat
<1>2. /\ Last(A) = A[m] /\ Head(B) = B[1] /\ 1 \in 1..n /\ m \in 1..m
  BY Ends
<1>3. /\ OneCore(A) <=> OneCoreTo(A, m)
      /\ OneCore(B) <=> OneCoreTo(B, n)
      /\ OneCore(C) <=> OneCoreTo(C, m + n)
      /\ Identities(A) = Ids(A, m) /\ Identities(B) = Ids(B, n)
  BY <1>1, MeaningOfAll
<1> HIDE DEF C, m, n
<1>4. \A v \in Ids(A, m) \cap Ids(B, n) : A[m].identity = v /\ B[1].identity = v
  BY <1>2, <1>3 DEF Joint
<1>5. ASSUME OneCoreTo(C, m + n) PROVE OneCoreTo(A, m) /\ OneCoreTo(B, n) /\ agree
  <2>1. OneCoreTo(A, m)
    BY <1>1, <1>5 DEF OneCoreTo
  <2>2. OneCoreTo(B, n)
    <3> SUFFICES ASSUME NEW i \in 1..n, NEW j \in 1..n, B[i].identity = B[j].identity
                 PROVE  B[i].core = B[j].core
      BY DEF OneCoreTo
    <3>1. C[m + i].identity = C[m + j].identity /\ m + i \in 1 .. m + n /\ m + j \in 1 .. m + n
      BY <1>1
    <3>2. C[m + i].core = C[m + j].core
      BY <1>5, <3>1 DEF OneCoreTo
    <3> QED BY <1>1, <3>2
  <2>3. C[m] = A[m] /\ C[m + 1] = B[1] /\ m \in 1 .. m + n /\ m + 1 \in 1 .. m + n
    BY <1>1, <1>2
  <2>4. agree
    BY <1>2, <1>5, <2>3 DEF OneCoreTo
  <2> QED BY <2>1, <2>2, <2>4
<1>6. ASSUME OneCoreTo(A, m), OneCoreTo(B, n), agree PROVE OneCoreTo(C, m + n)
  <2>1. ASSUME NEW i \in 1..m, NEW j \in 1..n, A[i].identity = B[j].identity
        PROVE  A[i].core = B[j].core
    <3>1. A[i].identity \in Ids(A, m) \cap Ids(B, n)
      BY <2>1 DEF Ids
    <3>2. A[m].identity = A[i].identity /\ B[1].identity = B[j].identity
      BY <1>4, <2>1, <3>1
    <3>3. A[m].core = A[i].core /\ B[1].core = B[j].core
      BY <1>2, <1>6, <3>2 DEF OneCoreTo
    <3>4. A[m].core = B[1].core
      BY <1>2, <1>6, <2>1, <3>2
    <3> QED BY <3>3, <3>4
  <2> SUFFICES ASSUME NEW i \in 1 .. m + n, NEW j \in 1 .. m + n, C[i].identity = C[j].identity
               PROVE  C[i].core = C[j].core
    BY DEF OneCoreTo
  <2>2. (i \in 1..m /\ C[i] = A[i]) \/ \E a \in 1..n : C[i] = B[a]
    <3>1. CASE i - m \in 1..n
      <4>1. m + (i - m) = i
        BY <1>1
      <4> QED BY <1>1, <3>1, <4>1
    <3> QED BY <1>1, <3>1
  <2>3. (j \in 1..m /\ C[j] = A[j]) \/ \E a \in 1..n : C[j] = B[a]
    <3>1. CASE j - m \in 1..n
      <4>1. m + (j - m) = j
        BY <1>1
      <4> QED BY <1>1, <3>1, <4>1
    <3> QED BY <1>1, <3>1
  <2>4. CASE i \in 1..m /\ C[i] = A[i] /\ j \in 1..m /\ C[j] = A[j]
    BY <1>6, <2>4 DEF OneCoreTo
  <2>5. CASE i \in 1..m /\ C[i] = A[i] /\ \E a \in 1..n : C[j] = B[a]
    BY <2>1, <2>5
  <2>6. CASE j \in 1..m /\ C[j] = A[j] /\ \E a \in 1..n : C[i] = B[a]
    BY <2>1, <2>6
  <2>7. CASE (\E a \in 1..n : C[i] = B[a]) /\ \E a \in 1..n : C[j] = B[a]
    BY <1>6, <2>7 DEF OneCoreTo
  <2> QED BY <2>2, <2>3, <2>4, <2>5, <2>6, <2>7
<1> HIDE DEF agree
<1>7. OneCore(C) <=> OneCore(A) /\ OneCore(B) /\ agree
  BY <1>3, <1>5, <1>6
<1> QED BY <1>7 DEF C, agree

-----------------------------------------------------------------------------
(* Their states merged *)

\* One row less when two waves share it.
OneFor(A, B, sub) == IF sub /\ Last(A).identity = Head(B).identity THEN 1 ELSE 0

\* The identities of two inputs together.
LEMMA JointIdentities ==
    ASSUME NEW S, Countable(S), NEW A \in Seq(S), NEW B \in Seq(S), A # <<>>, B # <<>>
    PROVE  LET common == Identities(A) \cap Identities(B)
           IN  /\ Joint(A, B) \subseteq common /\ Cardinality(common) \in Nat
               /\ Last(A).identity = Head(B).identity => Cardinality(common) >= 1
               /\ common \subseteq Joint(A, B) =>
                    Cardinality(common) =
                        IF Last(A).identity = Head(B).identity THEN 1 ELSE 0
               /\ Cardinality(Identities(A \o B)) =
                    Cardinality(Identities(A)) + Cardinality(Identities(B))
                    - Cardinality(common)
<1> DEFINE common == Identities(A) \cap Identities(B)
           shared == Last(A).identity = Head(B).identity
           x == Last(A).identity
<1>1. IsFiniteSet(Identities(A)) /\ IsFiniteSet(Identities(B))
  BY IdentitiesCount
<1>2. IsFiniteSet(common)
  BY <1>1, FS_Intersection
<1>3. Cardinality(common) \in Nat
  BY <1>2, FS_CardinalityType
<1>4. Joint(A, B) = (IF shared THEN {x} ELSE {}) /\ Joint(A, B) \subseteq common
  BY Ends DEF Joint
<1>5. Identities(A \o B) = Identities(A) \cup Identities(B)
  BY Concat
<1>6. Cardinality(Identities(A \o B))
        = Cardinality(Identities(A)) + Cardinality(Identities(B)) - Cardinality(common)
  BY <1>1, <1>5, FS_Union
<1> HIDE DEF common, x
<1>7. Cardinality({x}) = 1 /\ Cardinality({}) = 0
  BY FS_Singleton, FS_EmptySet
<1>8. shared => Cardinality(common) >= 1
  <2> SUFFICES ASSUME shared PROVE Cardinality(common) >= 1
    OBVIOUS
  <2>1. {x} \in SUBSET common
    BY <1>4
  <2> QED BY <1>2, <1>7, <2>1, FS_Subset
<1>9. ASSUME common \subseteq Joint(A, B)
      PROVE  Cardinality(common) = IF shared THEN 1 ELSE 0
  <2>1. common = IF shared THEN {x} ELSE {}
    BY <1>4, <1>9
  <2>2. CASE shared
    <3>1. common = {x}
      BY <2>1, <2>2
    <3> QED BY <1>7, <2>2, <3>1
  <2>3. CASE ~shared
    <3>1. common = {}
      BY <2>1, <2>3
    <3> QED BY <1>7, <2>3, <3>1
  <2> QED BY <2>2, <2>3
<1> QED BY <1>3, <1>4, <1>6, <1>8, <1>9 DEF common

\* The counts of two inputs together remain within their bounds.
LEMMA CountedConcat ==
    ASSUME NEW S, Countable(S), NEW A \in Seq(S), NEW B \in Seq(S), A # <<>>, B # <<>>,
           NEW n, NEW v, Counted(A, n, v), NEW k, NEW w, Counted(B, k, w), NEW sub \in BOOLEAN
    PROVE  Counted(A \o B, n + k - OneFor(A, B, sub), v + w)
<1> DEFINE a == Cardinality(Identities(A))
           b == Cardinality(Identities(B))
           c == Cardinality(Identities(A \o B))
           d == Cardinality(Identities(A) \cap Identities(B))
           one == OneFor(A, B, sub)
<1>1. c = a + b - d /\ d \in Nat /\ (Last(A).identity = Head(B).identity => d >= 1)
  BY JointIdentities
<1>2. a \in Nat /\ b \in Nat /\ c \in Nat
  <2>1. A \o B \in Seq(S)
    BY Concat
  <2> QED BY <2>1, IdentitiesCount
<1>3. a <= n /\ b <= k /\ n \in Nat /\ k \in Nat /\ v \in Nat /\ w \in Nat
  BY DEF Counted
<1>4. one \in {0, 1} /\ one <= d
  BY <1>1 DEF OneFor
<1>5. A \o B # <<>>
  BY ConcatEqualIffEmpty
<1> HIDE DEF a, b, c, d, one
<1>6. n + k - one \in Nat /\ c <= n + k - one /\ v + w \in Nat
  BY <1>1, <1>2, <1>3, <1>4
<1> QED BY <1>5, <1>6 DEF Counted, c, one

\* A side that is refused.
LEMMA MergeFailed ==
    ASSUME NEW S, Countable(S), NEW A \in Seq(S), NEW B \in Seq(S), A # <<>>, B # <<>>,
           NEW n, NEW v, NEW k, NEW w, NEW sub, NEW all, NEW x,
           ~(Contiguous(A) /\ OneCore(A)) \/ ~(Contiguous(B) /\ OneCore(B))
    PROVE  MergeStates(StateOf(A, n, v), StateOf(B, k, w), sub) = StateOf(A \o B, all, x)
<1>1. StateOf(A, n, v) = Failed \/ StateOf(B, k, w) = Failed
  BY DEF StateOf
<1>2. Failed.ok = FALSE
  BY DEF Failed
<1>3. MergeStates(StateOf(A, n, v), StateOf(B, k, w), sub) = Failed
  BY <1>1, <1>2 DEF MergeStates
<1>4. Contiguous(A \o B) => ~OneCore(A \o B)
  BY ContiguousConcat, OneCoreConcat
<1> QED BY <1>3, <1>4 DEF StateOf

\* _merge_states of the states of two inputs with rows is the state of both in a row.
LEMMA MergeOf ==
    ASSUME NEW S, Countable(S), NEW A \in Seq(S), NEW B \in Seq(S), A # <<>>, B # <<>>,
           NEW n, NEW v, Counted(A, n, v), NEW k, NEW w, Counted(B, k, w), NEW sub \in BOOLEAN
    PROVE  MergeStates(StateOf(A, n, v), StateOf(B, k, w), sub)
             = StateOf(A \o B, n + k - OneFor(A, B, sub), v + w)
<1> DEFINE left == StateOf(A, n, v)
           right == StateOf(B, k, w)
           C == A \o B
           I == Identities(A)
           J == Identities(B)
           shared == Last(A).identity = Head(B).identity
           all == n + k - OneFor(A, B, sub)
           merged == MergePositive(left, right, sub)
<1>1. CASE ~(Contiguous(A) /\ OneCore(A)) \/ ~(Contiguous(B) /\ OneCore(B))
  BY <1>1, MergeFailed
<1>2. CASE Contiguous(A) /\ OneCore(A) /\ Contiguous(B) /\ OneCore(B)
  <2>1. /\ left.ok /\ ValidState(left) /\ left.groups # 0
        /\ right.ok /\ ValidState(right) /\ right.groups # 0
    BY <1>2, StateValid
  <2>2. MergeStates(left, right, sub) = IF merged.ok /\ ValidState(merged) THEN merged ELSE Failed
    BY <2>1 DEF MergeStates
  <2>3. /\ left.buckets = [b \in Buckets |-> InOrder(Seen(I, b))]
        /\ left.rows = n /\ left.groups = Cardinality(I) /\ left.witnesses = v
        /\ left.first = FirstOf(A) /\ left.last = LastOf(A)
    BY <1>2 DEF StateOf
  <2>4. /\ right.buckets = [b \in Buckets |-> InOrder(Seen(J, b))]
        /\ right.rows = k /\ right.groups = Cardinality(J) /\ right.witnesses = w
        /\ right.first = FirstOf(B) /\ right.last = LastOf(B)
    BY <1>2 DEF StateOf
  <2>5. /\ I \in SUBSET Int /\ IsFiniteSet(I) /\ J \in SUBSET Int /\ IsFiniteSet(J)
        /\ \A x \in I \cup J : BucketOf[x] \in Buckets
    BY IdentitiesCount
  <2>6. Identities(C) = I \cup J /\ C \in Seq(S) /\ C # <<>>
    BY Concat, ConcatEqualIffEmpty
  <2>7. /\ left.last.identity = Last(A).identity /\ left.last.core = Last(A).core
        /\ right.first.identity = Head(B).identity /\ right.first.core = Head(B).core
    BY <2>3, <2>4, Ends DEF Profile
  <2>8. FirstOf(C) = FirstOf(A) /\ LastOf(C) = LastOf(B)
    <3>1. Head(C) = C[1] /\ Last(C) = C[Len(C)] /\ FirstOf(C) = Profile(Head(C))
          /\ LastOf(C) = Profile(Last(C))
      BY <2>6, Ends
    <3>2. C[1] = A[1] /\ C[Len(A) + Len(B)] = B[Len(B)] /\ Len(C) = Len(A) + Len(B)
      BY Concat, Ends
    <3> HIDE DEF C
    <3> QED BY <3>1, <3>2, Ends
  <2>9. Cardinality(Identities(C)) = Cardinality(I) + Cardinality(J) - Cardinality(I \cap J)
    BY JointIdentities
  <2>10. Counted(C, all, v + w)
    BY CountedConcat
  <2> HIDE DEF left, right, C, I, J
  <2>11. \A b \in Buckets :
           /\ ToSet(left.buckets[b]) = Seen(I, b) /\ ToSet(right.buckets[b]) = Seen(J, b)
           /\ MergeBucketFiles(left.buckets[b], right.buckets[b]) = InOrder(Seen(I \cup J, b))
    <3> TAKE b \in Buckets
    <3>1. left.buckets[b] = InOrder(Seen(I, b)) /\ right.buckets[b] = InOrder(Seen(J, b))
      BY <2>3, <2>4
    <3>2. ToSet(left.buckets[b]) = Seen(I, b) /\ ToSet(right.buckets[b]) = Seen(J, b)
      BY <2>5, <3>1, SeenType
    <3>3. Seen(I, b) \cup Seen(J, b) = Seen(I \cup J, b)
      BY DEF Seen
    <3> QED BY <3>2, <3>3 DEF MergeBucketFiles
  <2>12. InBoth(left, right) = I \cap J
    <3>1. InBoth(left, right) = UNION {Seen(I, b) \cap Seen(J, b) : b \in Buckets}
      BY <2>11 DEF InBoth
    <3>2. \A b \in Buckets : Seen(I, b) \cap Seen(J, b) \subseteq I \cap J
      BY DEF Seen
    <3>3. \A x \in I \cap J : BucketOf[x] \in Buckets /\ x \in Seen(I, BucketOf[x]) \cap Seen(J, BucketOf[x])
      BY <2>5 DEF Seen
    <3> QED BY <3>1, <3>2, <3>3
  <2>13. SharedBoundary(left, right) <=> shared
    BY <2>7 DEF SharedBoundary
  <2> DEFINE bad == (shared /\ Last(A).core # Head(B).core) \/ ~(I \cap J \subseteq Joint(A, B))
             buckets == [b \in Buckets |-> MergeBucketFiles(left.buckets[b], right.buckets[b])]
             good == [ok        |-> TRUE,
                      buckets   |-> buckets,
                      counts    |-> [b \in Buckets |-> Len(buckets[b])],
                      rows      |-> left.rows + right.rows - (IF shared /\ sub THEN 1 ELSE 0),
                      groups    |-> left.groups + right.groups - (IF shared THEN 1 ELSE 0),
                      witnesses |-> left.witnesses + right.witnesses,
                      first     |-> left.first,
                      last      |-> right.last]
  <2>14. merged = IF bad THEN Failed ELSE good
    <3> DEFINE allowed == IF shared THEN {left.last.identity} ELSE {}
    <3>1. Joint(A, B) = allowed
      BY <2>7 DEF Joint
    <3>2. SharedBoundary(left, right) = shared
      BY <2>13 DEF SharedBoundary
    <3> HIDE DEF shared
    <3>3. merged = IF \/ shared /\ left.last.core # right.first.core
                      \/ ~(InBoth(left, right) \subseteq allowed)
                   THEN Failed ELSE good
      BY <3>2 DEF MergePositive
    <3> HIDE DEF good, allowed, merged
    <3> QED BY <2>7, <2>12, <3>1, <3>3
  <2>15. bad <=> ~(Contiguous(C) /\ OneCore(C))
    BY <1>2, ContiguousConcat, OneCoreConcat DEF C, I, J
  <2>16. buckets = [b \in Buckets |-> InOrder(Seen(Identities(C), b))]
    BY <2>6, <2>11
  <2>17. [b \in Buckets |-> Len(buckets[b])]
           = [b \in Buckets |-> Cardinality(Seen(Identities(C), b))]
    <3>1. IsFiniteSet(I \cup J) /\ I \cup J \in SUBSET Int
      BY <2>5, FS_Union
    <3>2. \A b \in Buckets : Len(buckets[b]) = Cardinality(Seen(Identities(C), b))
      <4> TAKE b \in Buckets
      <4>1. buckets[b] = InOrder(Seen(I \cup J, b))
        BY <2>6, <2>16
      <4> HIDE DEF buckets
      <4> QED BY <2>6, <3>1, <4>1, SeenType
    <3> HIDE DEF buckets
    <3> QED BY <3>2
  <2>18. ASSUME ~bad PROVE good = StateOf(C, all, v + w)
    <3>1. I \cap J \subseteq Joint(A, B)
      BY <2>18
    <3>2. Cardinality(I \cap J) = IF shared THEN 1 ELSE 0
      BY <3>1, JointIdentities DEF I, J
    <3>3. left.groups + right.groups - (IF shared THEN 1 ELSE 0) = Cardinality(Identities(C))
      BY <2>3, <2>4, <2>9, <3>2
    <3>4. left.rows + right.rows - (IF shared /\ sub THEN 1 ELSE 0) = all
      <4>1. OneFor(A, B, sub) = IF shared /\ sub THEN 1 ELSE 0
        BY DEF OneFor
      <4> HIDE DEF shared
      <4> QED BY <2>3, <2>4, <4>1
    <3> HIDE DEF buckets, all, bad, shared
    <3>5. good = [ok |-> TRUE,
                  buckets |-> [b \in Buckets |-> InOrder(Seen(Identities(C), b))],
                  counts |-> [b \in Buckets |-> Cardinality(Seen(Identities(C), b))],
                  rows |-> all, groups |-> Cardinality(Identities(C)), witnesses |-> v + w,
                  first |-> FirstOf(C), last |-> LastOf(C)]
      BY <2>3, <2>4, <2>8, <2>16, <2>17, <3>3, <3>4
    <3>6. Contiguous(C) /\ OneCore(C)
      BY <2>15, <2>18
    <3> QED BY <3>5, <3>6 DEF StateOf
  <2> HIDE DEF bad, good, all, merged
  <2>19. CASE bad
    <3>1. merged.ok = FALSE
      BY <2>14, <2>19 DEF Failed
    <3>2. StateOf(C, all, v + w) = Failed
      BY <2>15, <2>19 DEF StateOf
    <3>3. MergeStates(left, right, sub) = Failed
      BY <2>2, <3>1
    <3> QED BY <3>2, <3>3 DEF left, right, C, all
  <2>20. CASE ~bad
    <3>1. merged = StateOf(C, all, v + w) /\ Contiguous(C) /\ OneCore(C)
      BY <2>14, <2>15, <2>18, <2>20
    <3>2. merged.ok /\ ValidState(merged)
      BY <2>6, <2>10, <3>1, StateValid
    <3> QED BY <2>2, <3>1, <3>2 DEF left, right, C, all
  <2> QED BY <2>19, <2>20
<1> QED BY <1>1, <1>2

\* A side without positive rows gives way.
LEMMA MergeEmpty ==
    ASSUME NEW S, Countable(S), NEW P \in Seq(S), NEW n, NEW w, Counted(P, n, w),
           NEW x, Counted(<<>>, 0, x), NEW sub
    PROVE  /\ MergeStates(StateOf(<<>>, 0, x), StateOf(P, n, w), sub) = StateOf(P, n, w)
           /\ P # <<>> =>
                MergeStates(StateOf(P, n, w), StateOf(<<>>, 0, x), sub) = StateOf(P, n, w)
<1> DEFINE none == StateOf(<<>>, 0, x)
           s == StateOf(P, n, w)
<1>1. <<>> \in Seq(S) /\ Contiguous(<<>>) /\ OneCore(<<>>)
  BY DEF Contiguous, OneCore
<1>2. none.ok /\ ValidState(none) /\ none.groups = 0
  BY <1>1, StateValid
<1>3. CASE Contiguous(P) /\ OneCore(P)
  <2>1. s.ok /\ ValidState(s) /\ (s.groups = 0 <=> P = <<>>)
    BY <1>3, StateValid
  <2> HIDE DEF none, s
  <2>2. MergeStates(none, s, sub) = s
    BY <1>2, <2>1 DEF MergeStates
  <2>3. P # <<>> => MergeStates(s, none, sub) = s
    BY <1>2, <2>1 DEF MergeStates
  <2> QED BY <2>2, <2>3 DEF none, s
<1>4. CASE ~(Contiguous(P) /\ OneCore(P))
  <2>1. s = Failed /\ s.ok = FALSE
    BY <1>4 DEF StateOf, Failed
  <2> HIDE DEF none, s
  <2>2. MergeStates(none, s, sub) = s /\ MergeStates(s, none, sub) = s
    BY <2>1 DEF MergeStates
  <2> QED BY <2>2 DEF none, s
<1> QED BY <1>3, <1>4

\* What the merge of any two states counts.
RowsOfBoth(A, n, B, k, sub) ==
    n + k - (IF A = <<>> \/ B = <<>> THEN 0 ELSE OneFor(A, B, sub))
WitnessesOfBoth(A, v, B, w) == IF A = <<>> THEN w ELSE IF B = <<>> THEN v ELSE v + w

\* The same when either has none.
LEMMA MergeAny ==
    ASSUME NEW S, Countable(S), NEW A \in Seq(S), NEW B \in Seq(S),
           NEW n, NEW v, Counted(A, n, v), NEW k, NEW w, Counted(B, k, w), NEW sub \in BOOLEAN
    PROVE  LET all == RowsOfBoth(A, n, B, k, sub)
               x == WitnessesOfBoth(A, v, B, w)
           IN  /\ MergeStates(StateOf(A, n, v), StateOf(B, k, w), sub) = StateOf(A \o B, all, x)
               /\ Counted(A \o B, all, x) /\ A \o B \in Seq(S)
<1> DEFINE all == RowsOfBoth(A, n, B, k, sub)
           x == WitnessesOfBoth(A, v, B, w)
<1>1. A \o B \in Seq(S)
  BY Concat
<1>2. CASE A = <<>>
  <2>1. n = 0 /\ k \in Nat /\ A \o B = B
    BY <1>2, ConcatEmptySeq DEF Counted
  <2>2. all = k /\ x = w
    BY <1>2, <2>1 DEF RowsOfBoth, WitnessesOfBoth
  <2>3. MergeStates(StateOf(<<>>, 0, v), StateOf(B, k, w), sub) = StateOf(B, k, w)
    BY <1>2, <2>1, MergeEmpty
  <2> HIDE DEF all, x
  <2> QED BY <1>1, <1>2, <2>1, <2>2, <2>3 DEF all, x
<1>3. CASE A # <<>> /\ B = <<>>
  <2>1. k = 0 /\ n \in Nat /\ A \o B = A
    BY <1>3, ConcatEmptySeq DEF Counted
  <2>2. all = n /\ x = v
    BY <1>3, <2>1 DEF RowsOfBoth, WitnessesOfBoth
  <2>3. MergeStates(StateOf(A, n, v), StateOf(<<>>, 0, w), sub) = StateOf(A, n, v)
    BY <1>3, <2>1, MergeEmpty
  <2> HIDE DEF all, x
  <2> QED BY <1>1, <1>3, <2>1, <2>2, <2>3 DEF all, x
<1>4. CASE A # <<>> /\ B # <<>>
  <2>1. all = n + k - OneFor(A, B, sub) /\ x = v + w
    BY <1>4 DEF RowsOfBoth, WitnessesOfBoth
  <2> HIDE DEF all, x
  <2> QED BY <1>1, <1>4, <2>1, MergeOf, CountedConcat DEF all, x
<1> QED BY <1>2, <1>3, <1>4

-----------------------------------------------------------------------------
(* Files one after the other *)

Bad(rows) == \E i \in DOMAIN rows : InvalidRow(rows[i])
WitnessCount(rows) == Len(WitnessesOf(rows))

\* Positive rows, witnesses and unusable rows are taken from each input on its own.
LEMMA RowsConcat ==
    ASSUME NEW S, Readable(S), NEW a \in Seq(S), NEW b \in Seq(S)
    PROVE  /\ PositiveOf(a \o b) = PositiveOf(a) \o PositiveOf(b)
           /\ WitnessCount(a \o b) = WitnessCount(a) + WitnessCount(b)
           /\ Bad(a \o b) <=> Bad(a) \/ Bad(b)
<1> DEFINE c == a \o b
           U == {r \in S : r.identity > 0}
           W == {r \in S : IsWitness(r)}
           X(rows) == {r \in ToSet(rows) : IsWitness(r)}
<1>1. c \in Seq(S) /\ ToSet(c) = ToSet(a) \cup ToSet(b)
  BY Concat, MembersConcat
<1>2. /\ PositiveOf(a) = Those(a, U) /\ PositiveOf(b) = Those(b, U)
      /\ PositiveOf(c) = Those(c, U)
  BY <1>1, PositiveType
<1>3. PositiveOf(c) = PositiveOf(a) \o PositiveOf(b)
  <2> HIDE DEF U
  <2>1. Those(a \o b, U) = Those(a, U) \o Those(b, U)
    BY ThoseConcat
  <2> QED BY <1>2, <2>1
<1>4. ASSUME NEW rows \in Seq(S) PROVE WitnessesOf(rows) = Those(rows, W)
  <2>1. X(rows) \cap ToSet(rows) = W \cap ToSet(rows)
    BY MembersType
  <2>2. WitnessesOf(rows) = Those(rows, X(rows))
    BY DEF WitnessesOf
  <2> HIDE DEF X, W
  <2> QED BY <2>1, <2>2, ThoseAlike
<1>5. WitnessCount(c) = WitnessCount(a) + WitnessCount(b)
  <2> HIDE DEF W
  <2>1. WitnessesOf(c) = WitnessesOf(a) \o WitnessesOf(b)
    <3>1. Those(a \o b, W) = Those(a, W) \o Those(b, W)
      BY ThoseConcat
    <3>2. /\ WitnessesOf(a) = Those(a, W) /\ WitnessesOf(b) = Those(b, W)
          /\ WitnessesOf(c) = Those(c, W)
      BY <1>1, <1>4
    <3> QED BY <3>1, <3>2
  <2>2. WitnessesOf(a) \in Seq(S \cap W) /\ WitnessesOf(b) \in Seq(S \cap W)
    BY <1>4, ThoseMembers
  <2> QED BY <2>1, <2>2, ConcatProperties DEF WitnessCount
<1>6. ASSUME NEW rows PROVE Bad(rows) <=> \E r \in ToSet(rows) : InvalidRow(r)
  BY DEF Bad, ToSet
<1>7. Bad(c) <=> Bad(a) \/ Bad(b)
  BY <1>1, <1>6
<1> QED BY <1>3, <1>5, <1>7

\* The state of the rows of some files, all of which may have positive rows.
StateAt(s, rows, full) ==
    IF Bad(rows) THEN s = Failed
    ELSE \E w \in Nat :
            /\ s = StateOf(PositiveOf(rows), Len(PositiveOf(rows)), w)
            /\ w <= WitnessCount(rows) /\ (full => w = WitnessCount(rows))

\* Every row counted is within the bounds.
LEMMA CountedAll ==
    ASSUME NEW S, Countable(S), NEW P \in Seq(S), NEW w \in Nat
    PROVE  Counted(P, Len(P), w)
BY IdentitiesCount DEF Counted

\* Of files no row is counted twice.
LEMMA NoneShared ==
    ASSUME NEW S, NEW A \in Seq(S), NEW B \in Seq(S)
    PROVE  RowsOfBoth(A, Len(A), B, Len(B), FALSE) = Len(A \o B)
<1> DEFINE a == Len(A)
           b == Len(B)
<1>1. OneFor(A, B, FALSE) = 0
  BY DEF OneFor
<1>2. a \in Nat /\ b \in Nat /\ Len(A \o B) = a + b
  BY ConcatProperties
<1> HIDE DEF a, b
<1>3. RowsOfBoth(A, a, B, b, FALSE) = a + b
  <2> DEFINE z == IF A = <<>> \/ B = <<>> THEN 0 ELSE OneFor(A, B, FALSE)
  <2>1. z = 0
    BY <1>1, Zenon
  <2> DEFINE all == RowsOfBoth(A, a, B, b, FALSE)
  <2>2. all = a + b - z
    BY DEF RowsOfBoth
  <2> HIDE DEF z, all
  <2>3. all = a + b
    BY <1>2, <2>1, <2>2
  <2> QED BY <2>3 DEF all
<1> QED BY <1>2, <1>3 DEF a, b

\* Two files one after the other, no row counted twice.
LEMMA MergeFiles ==
    ASSUME NEW S, Countable(S), NEW A \in Seq(S), NEW B \in Seq(S),
           NEW v \in Nat, NEW w \in Nat
    PROVE  LET x == WitnessesOfBoth(A, v, B, w)
           IN  /\ MergeStates(StateOf(A, Len(A), v), StateOf(B, Len(B), w), FALSE)
                    = StateOf(A \o B, Len(A \o B), x)
               /\ x \in Nat
<1> DEFINE all == RowsOfBoth(A, Len(A), B, Len(B), FALSE)
           x == WitnessesOfBoth(A, v, B, w)
           n == Len(A)
           k == Len(B)
           no == FALSE
<1>1. Counted(A, n, v) /\ Counted(B, k, w)
  BY CountedAll
<1>2. all = Len(A \o B)
  BY NoneShared
<1>3. x \in Nat
  BY DEF WitnessesOfBoth
<1>4. all = RowsOfBoth(A, n, B, k, no) /\ no \in BOOLEAN
  OBVIOUS
<1> HIDE DEF all, x, n, k, no
<1>5. MergeStates(StateOf(A, n, v), StateOf(B, k, w), no) = StateOf(A \o B, all, x)
  BY <1>1, <1>4, MergeAny DEF x
<1> QED BY <1>2, <1>3, <1>5 DEF x, n, k, no

\* One more file of execute_structural_canonicalize.
LEMMA FileStep ==
    ASSUME NEW S, Readable(S), NEW a \in Seq(S), NEW b \in Seq(S),
           NEW s, NEW full \in BOOLEAN, StateAt(s, a, full), full => PositiveOf(a) # <<>>
    PROVE  StateAt(MergeStates(s, SingleInputState(b), FALSE), a \o b,
                   full /\ PositiveOf(b) # <<>>)
<1> DEFINE U == {r \in S : r.identity > 0}
           A == PositiveOf(a)
           B == PositiveOf(b)
           C == PositiveOf(a \o b)
           t == SingleInputState(b)
           m == MergeStates(s, t, FALSE)
<1>1. /\ C = A \o B /\ WitnessCount(a \o b) = WitnessCount(a) + WitnessCount(b)
      /\ Bad(a \o b) <=> Bad(a) \/ Bad(b)
  BY RowsConcat
<1>2. Countable(U) /\ A \in Seq(U) /\ B \in Seq(U)
      /\ WitnessCount(a) \in Nat /\ WitnessCount(b) \in Nat
  BY PositiveType DEF WitnessCount
<1>3. t = IF Bad(b) THEN Failed ELSE StateOf(B, Len(B), WitnessCount(b))
  BY SingleIs DEF Bad, WitnessCount
<1> HIDE DEF U, A, B, C, t, m
<1>4. CASE Bad(a) \/ Bad(b)
  <2>1. s.ok = FALSE \/ t.ok = FALSE
    BY <1>3, <1>4 DEF StateAt, Failed
  <2>2. m = Failed
    BY <2>1 DEF m, MergeStates
  <2> QED BY <1>1, <1>4, <2>2 DEF StateAt, m, t
<1>5. CASE ~Bad(a) /\ ~Bad(b)
  <2>1. PICK w \in Nat : /\ s = StateOf(A, Len(A), w) /\ w <= WitnessCount(a)
                         /\ full => w = WitnessCount(a)
    BY <1>5 DEF StateAt, A
  <2> DEFINE x == WitnessesOfBoth(A, w, B, WitnessCount(b))
  <2>2. t = StateOf(B, Len(B), WitnessCount(b))
    BY <1>3, <1>5
  <2>3. m = StateOf(C, Len(C), x) /\ x \in Nat
    BY <1>1, <1>2, <2>1, <2>2, MergeFiles DEF m
  <2>6. x <= WitnessCount(a \o b)
    BY <1>1, <1>2, <2>1 DEF WitnessesOfBoth
  <2>7. full /\ B # <<>> => x = WitnessCount(a \o b)
    BY <1>1, <1>2, <2>1 DEF WitnessesOfBoth, A
  <2> HIDE DEF x
  <2> QED BY <1>1, <1>5, <2>3, <2>6, <2>7 DEF StateAt, C, m, t, B
<1> QED BY <1>4, <1>5

\* The states there are.
States(U) == {Failed} \cup {StateOf(p[1], Len(p[1]), p[2]) : p \in Seq(U) \X Nat}

\* The states of files are closed under that step.
LEMMA StatesClosed ==
    ASSUME NEW S, Readable(S), NEW b \in Seq(S)
    PROVE  LET U == {r \in S : r.identity > 0}
           IN  /\ SingleInputState(b) \in States(U)
               /\ \A s \in States(U) :
                    MergeStates(s, SingleInputState(b), FALSE) \in States(U)
<1> DEFINE U == {r \in S : r.identity > 0}
           B == PositiveOf(b)
           n == WitnessCount(b)
           t == SingleInputState(b)
<1>1. Countable(U) /\ B \in Seq(U) /\ n \in Nat
  BY PositiveType DEF WitnessCount
<1>2. t = Failed \/ t = StateOf(B, Len(B), n)
  BY SingleIs DEF WitnessCount
<1> HIDE DEF U, B, n, t
<1>3. \A P \in Seq(U), w \in Nat : StateOf(P, Len(P), w) \in States(U)
  <2> TAKE P \in Seq(U), w \in Nat
  <2> DEFINE p == <<P, w>>
  <2>1. p \in Seq(U) \X Nat /\ p[1] = P /\ p[2] = w
    OBVIOUS
  <2> QED BY <2>1 DEF States
<1>4. t \in States(U) /\ Failed \in States(U)
  BY <1>1, <1>2, <1>3 DEF States
<1>5. ASSUME NEW s \in States(U) PROVE MergeStates(s, t, FALSE) \in States(U)
  <2>1. CASE s = Failed \/ t = Failed
    <3>1. s.ok = FALSE \/ t.ok = FALSE
      BY <2>1 DEF Failed
    <3>2. MergeStates(s, t, FALSE) = Failed
      BY <3>1 DEF MergeStates
    <3> QED BY <1>4, <3>2
  <2>2. CASE s # Failed /\ t # Failed
    <3>1. PICK A \in Seq(U), w \in Nat : s = StateOf(A, Len(A), w)
      BY <2>2 DEF States
    <3> DEFINE x == WitnessesOfBoth(A, w, B, n)
               C == A \o B
    <3>2. t = StateOf(B, Len(B), n)
      BY <1>2, <2>2
    <3>3. MergeStates(s, t, FALSE) = StateOf(C, Len(C), x) /\ x \in Nat
      BY <1>1, <3>1, <3>2, MergeFiles
    <3>4. C \in Seq(U)
      BY <1>1, Concat
    <3> HIDE DEF C, x
    <3> QED BY <1>3, <3>3, <3>4
  <2> QED BY <2>1, <2>2
<1> QED BY <1>4, <1>5 DEF U, t

\* Every one of the first n files has positive rows.
Full(seqs, n) == \A i \in 1..n : PositiveOf(seqs[i]) # <<>>

\* The state of all files is the state of their rows in a row.
LEMMA FilesAre ==
    ASSUME NEW S, Readable(S), NEW seqs \in Seq(Seq(S)), seqs # <<>>
    PROVE  StateAt(ExecuteStructuralCanonicalize(seqs), FlattenSeq(seqs), Full(seqs, Len(seqs)))
<1> DEFINE N == Len(seqs)
           U == {r \in S : r.identity > 0}
           V == States(U)
           single(n) == SingleInputState(seqs[n])
           step == [n \in 1 .. N - 1 |-> [v \in V |-> MergeStates(v, single(n + 1), FALSE)]]
           Body(f) == [n \in 1..N |-> IF n = 1 THEN single(n)
                                      ELSE MergeStates(f[n - 1], single(n), FALSE)]
           state == CHOOSE f : f = Body(f)
<1>0. /\ N \in Nat \ {0} /\ N - 1 \in Nat
      /\ \A n \in 1..N : seqs[n] \in Seq(S) /\ n - 1 \in 0 .. N - 1
      /\ \A n \in 1 .. N - 1 : n + 1 \in 1..N
      /\ \A n \in 1..N : n # 1 => n - 1 \in 1 .. N - 1 /\ n - 1 \in 1..N
                                  /\ (n - 1) + 1 = n /\ (n - 1) - 1 = n - 2
  <2> DEFINE T == Seq(S)
  <2>1. seqs \in Seq(T) /\ N \in Nat /\ N # 0
    OBVIOUS
  <2>2. \A n \in 1..N : seqs[n] \in T
    BY <2>1
  <2> HIDE DEF T, N
  <2>3. N - 1 \in Nat
    BY <2>1
  <2>4. \A n \in 1 .. N - 1 : n + 1 \in 1..N
    BY <2>1
  <2>5. \A n \in 1..N : /\ n - 1 \in 0 .. N - 1
                        /\ n # 1 => n - 1 \in 1 .. N - 1 /\ n - 1 \in 1..N
                                    /\ (n - 1) + 1 = n /\ (n - 1) - 1 = n - 2
    BY <2>1
  <2> QED BY <2>1, <2>2, <2>3, <2>4, <2>5 DEF T
<1>1. ExecuteStructuralCanonicalize(seqs) = state[N]
  BY DEF ExecuteStructuralCanonicalize
<1>2. \A n \in 1..N : single(n) \in V /\ \A v \in V : MergeStates(v, single(n), FALSE) \in V
  <2> TAKE n \in 1..N
  <2>1. seqs[n] \in Seq(S)
    BY <1>0
  <2> QED BY <2>1, StatesClosed
<1> HIDE DEF N, U, V, single
<1>3. single(1) \in V /\ 1 \in 1..N
  <2>1. 1 \in 1..N
    BY <1>0
  <2> QED BY <1>2, <2>1
<1>4. Facts!StepsOn(step, N - 1, V)
  <2>1. ASSUME NEW n \in 1 .. N - 1
        PROVE  [v \in V |-> MergeStates(v, single(n + 1), FALSE)] \in [V -> V]
    <3>1. n + 1 \in 1..N
      BY <1>0
    <3> QED BY <1>2, <3>1
  <2>2. step \in [1 .. N - 1 -> [V -> V]]
    BY <2>1
  <2> QED BY <2>2 DEF Facts!StepsOn
<1> HIDE DEF step
<1>5. PICK h : Facts!Iterated(h, step, single(1), N - 1, V)
  BY <1>0, <1>3, <1>4, Facts!Iterates
<1> DEFINE g == [n \in 1..N |-> h[n - 1]]
<1>6. g[1] = single(1)
  <2>1. 1 - 1 = 0 /\ h[0] = single(1)
    BY <1>5 DEF Facts!Iterated
  <2> QED BY <1>3, <2>1
<1>7. \A n \in 1..N : n # 1 => g[n] = MergeStates(g[n - 1], single(n), FALSE)
  <2> SUFFICES ASSUME NEW n \in 1..N, n # 1
               PROVE  g[n] = MergeStates(g[n - 1], single(n), FALSE)
    OBVIOUS
  <2> DEFINE i == n - 1
  <2>1. i \in 1 .. N - 1 /\ i \in 1..N /\ i + 1 = n
    BY <1>0
  <2>2. g[n] = h[i] /\ g[i] = h[i - 1]
    BY <2>1
  <2> HIDE DEF i, g
  <2>3. i - 1 \in 0 .. N - 1
    BY <1>0, <2>1
  <2>4. h[i] = step[i][h[i - 1]] /\ h[i - 1] \in V
    BY <1>5, <2>1, <2>3 DEF Facts!Iterated
  <2>5. h[i] = MergeStates(h[i - 1], single(i + 1), FALSE)
    BY <2>1, <2>4 DEF step
  <2> QED BY <2>1, <2>2, <2>5 DEF i
<1>8. g = Body(g)
  <2>1. \A n \in 1..N : g[n] = IF n = 1 THEN single(n) ELSE MergeStates(g[n - 1], single(n), FALSE)
    <3> HIDE DEF g
    <3> QED BY <1>6, <1>7
  <2>2. g = [n \in 1..N |-> g[n]]
    OBVIOUS
  <2> HIDE DEF g
  <2>3. [n \in 1..N |-> g[n]]
          = [n \in 1..N |-> IF n = 1 THEN single(n) ELSE MergeStates(g[n - 1], single(n), FALSE)]
    BY <2>1
  <2> QED BY <2>2, <2>3
<1>9. state = Body(state)
  <2> HIDE DEF Body
  <2> QED BY <1>8, Zenon
<1> HIDE DEF state, g
<1>10. \A n \in 1..N : state[n] = IF n = 1 THEN single(n)
                                  ELSE MergeStates(state[n - 1], single(n), FALSE)
  BY <1>9
<1>11. PICK f : Flattened(f, seqs, S)
  BY FlattenedUnfolds
<1>12. /\ \A n \in 1..N : f[n] = f[n - 1] \o seqs[n] /\ f[n - 1] \in Seq(S) /\ f[n] \in Seq(S)
       /\ f[0] = <<>> /\ FlattenSeq(seqs) = f[N]
  BY <1>11, FlattenedStep DEF Flattened, N
<1> DEFINE Holds(n) == /\ StateAt(state[n], f[n], Full(seqs, n))
                       /\ Full(seqs, n) => PositiveOf(f[n]) # <<>>
           G == {n \in 0..N : n = 0 \/ Holds(n)}
<1>13. 0 \in G
  BY <1>0
<1>14. ASSUME NEW n \in 1..N, n - 1 \in G PROVE n \in G
  <2>0. n \in 0..N /\ f[n] = f[n - 1] \o seqs[n] /\ f[n - 1] \in Seq(S) /\ seqs[n] \in Seq(S)
    <3>1. n \in 0..N
      BY <1>0
    <3>2. seqs[n] \in Seq(S)
      BY <1>0
    <3> QED BY <1>12, <3>1, <3>2
  <2>1. /\ PositiveOf(f[n]) = PositiveOf(f[n - 1]) \o PositiveOf(seqs[n])
        /\ PositiveOf(f[n - 1]) \in Seq({r \in S : r.identity > 0})
        /\ PositiveOf(seqs[n]) \in Seq({r \in S : r.identity > 0})
    BY <2>0, RowsConcat, PositiveType
  <2>2. PositiveOf(seqs[n]) # <<>> => PositiveOf(f[n]) # <<>>
    BY <2>1, ConcatEqualIffEmpty, ConcatProperties
  <2>3. Full(seqs, n) => PositiveOf(f[n]) # <<>>
    BY <2>2 DEF Full
  <2>4. CASE n = 1
    <3>1. f[n] = seqs[n]
      <4>1. f[n - 1] = <<>>
        BY <1>12, <2>4
      <4> QED BY <2>0, <4>1, ConcatEmptySeq
    <3>2. state[n] = SingleInputState(seqs[n])
      BY <1>10, <2>4 DEF single
    <3>3. WitnessCount(seqs[n]) \in Nat
      BY <2>0, PositiveType DEF WitnessCount
    <3>4. state[n] = IF Bad(f[n]) THEN Failed
                     ELSE StateOf(PositiveOf(f[n]), Len(PositiveOf(f[n])), WitnessCount(f[n]))
      BY <2>0, <3>1, <3>2, SingleIs DEF Bad, WitnessCount
    <3>5. StateAt(state[n], f[n], Full(seqs, n))
      BY <3>1, <3>3, <3>4 DEF StateAt
    <3> QED BY <2>0, <2>3, <3>5
  <2>5. CASE n # 1
    <3> DEFINE i == n - 1
    <3>1. i \in 1..N /\ i # 0 /\ Holds(i)
      BY <1>0, <1>14, <2>5
    <3>2. state[n] = MergeStates(state[i], SingleInputState(seqs[n]), FALSE)
      BY <1>10, <2>5 DEF single
    <3>3. Full(seqs, n) <=> Full(seqs, i) /\ PositiveOf(seqs[n]) # <<>>
      <4>1. 1..n = (1..i) \cup {n}
        BY <1>0
      <4> HIDE DEF i
      <4> QED BY <4>1 DEF Full
    <3>4. Full(seqs, i) \in BOOLEAN /\ Full(seqs, n) \in BOOLEAN
      BY DEF Full
    <3> DEFINE next == MergeStates(state[i], SingleInputState(seqs[n]), FALSE)
    <3>5. StateAt(next, f[i] \o seqs[n], Full(seqs, i) /\ PositiveOf(seqs[n]) # <<>>)
      BY <2>0, <3>1, <3>4, FileStep
    <3> HIDE DEF next
    <3>6. (Full(seqs, i) /\ PositiveOf(seqs[n]) # <<>>) = Full(seqs, n)
      BY <3>3, <3>4
    <3>7. StateAt(state[n], f[n], Full(seqs, n))
      BY <2>0, <3>2, <3>5, <3>6 DEF next
    <3> QED BY <2>0, <2>3, <3>7
  <2> QED BY <2>4, <2>5
<1> HIDE DEF G
<1>15. \A n \in 0..N : n \in G
  BY <1>0, <1>13, <1>14, Facts!SetInduction
<1>16. N \in G /\ N # 0
  BY <1>0, <1>15
<1>17. StateAt(state[N], f[N], Full(seqs, N))
  BY <1>16 DEF G
<1> QED BY <1>1, <1>12, <1>17 DEF N

\* The assumption about rows is all that the argument needs.
LEMMA RowsReadable == Readable(Rows)
BY RowsAssumption DEF Readable

\* The canonical state of the files, part by part.
LEMMA CanonicalHolds ==
    ASSUME InputIInv, plan = NoPlan
    PROVE  LET s == ExecuteStructuralCanonicalize(files)
               seen(b) == {v \in Identities(PositiveRows) : BucketOf[v] = b}
               witnesses == Len(WitnessesOf(AllRows))
           IN  /\ s.ok <=> Canonical
               /\ s.ok =>
                   /\ \A b \in Buckets : s.buckets[b] = InOrder(seen(b))
                   /\ s.rows = Len(PositiveRows)
                   /\ s.groups = Cardinality(Identities(PositiveRows))
                   /\ s.witnesses <= witnesses
                   /\ (\A i \in DOMAIN files : PositiveOf(files[i]) # <<>>)
                      => s.witnesses = witnesses
                   /\ PositiveRows # <<>> =>
                        /\ s.first = Profile(Head(PositiveRows))
                        /\ s.last = Profile(Last(PositiveRows))
<1> DEFINE s == ExecuteStructuralCanonicalize(files)
           P == PositiveRows
           full == Full(files, Len(files))
           valid == Contiguous(P) /\ OneCore(P)
<1>1. files \in Seq(Seq(Rows)) /\ files # <<>>
  BY AllRowsType
<1>2. StateAt(s, AllRows, full)
  BY <1>1, RowsReadable, FilesAre DEF AllRows
<1>3. full <=> \A i \in DOMAIN files : PositiveOf(files[i]) # <<>>
  <2> DEFINE T == Seq(Rows)
  <2>1. files \in Seq(T)
    BY <1>1
  <2> HIDE DEF T
  <2>2. DOMAIN files = 1 .. Len(files)
    BY <2>1
  <2> QED BY <2>2 DEF Full
<1>4. P = PositiveOf(AllRows) /\ (Canonical <=> ~Bad(AllRows) /\ valid)
  BY DEF Canonical, PositiveRows, AnyInvalid, Bad
<1> HIDE DEF s, full, P
<1>5. CASE Bad(AllRows)
  <2>1. s = Failed
    BY <1>2, <1>5 DEF StateAt
  <2>2. s.ok = FALSE
    BY <2>1 DEF Failed
  <2> QED BY <1>4, <1>5, <2>2 DEF s
<1>6. CASE ~Bad(AllRows)
  <2>1. PICK w \in Nat : /\ s = StateOf(P, Len(P), w)
                         /\ w <= WitnessCount(AllRows)
                         /\ full => w = WitnessCount(AllRows)
    BY <1>2, <1>4, <1>6 DEF StateAt
  <2>2. CASE ~valid
    <3>1. s.ok = FALSE
      BY <2>1, <2>2 DEF StateOf, Failed
    <3> QED BY <1>4, <2>2, <3>1 DEF s
  <2>3. CASE valid
    <3>1. s = [ok |-> TRUE,
               buckets |-> [b \in Buckets |-> InOrder(Seen(Identities(P), b))],
               counts |-> [b \in Buckets |-> Cardinality(Seen(Identities(P), b))],
               rows |-> Len(P), groups |-> Cardinality(Identities(P)), witnesses |-> w,
               first |-> FirstOf(P), last |-> LastOf(P)]
      BY <2>1, <2>3 DEF StateOf
    <3>2. /\ s.ok /\ s.rows = Len(P) /\ s.groups = Cardinality(Identities(P))
          /\ s.witnesses = w /\ s.first = FirstOf(P) /\ s.last = LastOf(P)
      BY <3>1
    <3>3. \A b \in Buckets : s.buckets[b] = InOrder({v \in Identities(P) : BucketOf[v] = b})
      BY <3>1 DEF Seen
    <3>4. P # <<>> => s.first = Profile(Head(P)) /\ s.last = Profile(Last(P))
      BY <3>2 DEF FirstOf, LastOf
    <3> QED BY <1>3, <1>4, <1>6, <2>1, <2>3, <3>2, <3>3, <3>4 DEF s, P, WitnessCount
  <2> QED BY <2>2, <2>3
<1> QED BY <1>5, <1>6

\* execute_structural_canonicalize accepts exactly the inputs whose identities are
\* valid, contiguous and of one core, and its state is that of the rows, for any
\* files of any rows and buckets of any number, sorted in runs of any size.
THEOREM CanonicalTheorem == InputSpec => []CanonicalStateIsOfTheRows
<1>1. InputIInv => CanonicalStateIsOfTheRows
  BY CanonicalHolds DEF CanonicalStateIsOfTheRows
<1> QED BY <1>1, InputInvInit, InputInvNext, PTL DEF InputSpec

-----------------------------------------------------------------------------
(* Waves that share a row *)

\* A row repeated, or rows whose states are those of others.
Alike(P, Q) ==
    /\ P # <<>> /\ Q # <<>> /\ Identities(P) = Identities(Q)
    /\ Profile(Head(P)) = Profile(Head(Q)) /\ Profile(Last(P)) = Profile(Last(Q))
    /\ Contiguous(P) <=> Contiguous(Q)
    /\ Contiguous(P) => (OneCore(P) <=> OneCore(Q))

\* Inputs that are alike have one state.
LEMMA AlikeStates ==
    ASSUME NEW P, NEW Q, Alike(P, Q), NEW n, NEW w
    PROVE  StateOf(P, n, w) = StateOf(Q, n, w)
<1>1. FirstOf(P) = FirstOf(Q) /\ LastOf(P) = LastOf(Q) /\ Identities(P) = Identities(Q)
  BY DEF Alike, FirstOf, LastOf
<1>2. Contiguous(P) /\ OneCore(P) <=> Contiguous(Q) /\ OneCore(Q)
  BY DEF Alike
<1>3. CASE Contiguous(P) /\ OneCore(P)
  BY <1>1, <1>2, <1>3 DEF StateOf
<1>4. CASE ~(Contiguous(P) /\ OneCore(P))
  BY <1>2, <1>4 DEF StateOf
<1> QED BY <1>3, <1>4

\* The ends of two inputs together.
LEMMA EndsConcat ==
    ASSUME NEW S, NEW A \in Seq(S), NEW B \in Seq(S), A # <<>>, B # <<>>
    PROVE  /\ A \o B \in Seq(S) /\ A \o B # <<>>
           /\ Head(A \o B) = Head(A) /\ Last(A \o B) = Last(B)
<1> DEFINE C == A \o B
<1>1. C \in Seq(S) /\ C # <<>>
  BY Concat, ConcatEqualIffEmpty
<1>2. Head(C) = C[1] /\ Last(C) = C[Len(C)]
  BY <1>1, Ends
<1>3. C[1] = A[1] /\ C[Len(A) + Len(B)] = B[Len(B)] /\ Len(C) = Len(A) + Len(B)
  BY Concat, Ends
<1>4. Head(A) = A[1] /\ Last(B) = B[Len(B)]
  BY Ends
<1> HIDE DEF C
<1> QED BY <1>1, <1>2, <1>3, <1>4 DEF C

\* They remain alike when the same rows follow.
LEMMA AlikeConcat ==
    ASSUME NEW S, NEW P \in Seq(S), NEW Q \in Seq(S), Alike(P, Q), NEW R \in Seq(S)
    PROVE  Alike(P \o R, Q \o R)
<1>1. CASE R = <<>>
  BY <1>1, ConcatEmptySeq
<1>2. CASE R # <<>>
  <2> DEFINE A == P \o R
             B == Q \o R
  <2>0. P # <<>> /\ Q # <<>>
    BY DEF Alike
  <2>1. /\ A # <<>> /\ Head(A) = Head(P) /\ Last(A) = Last(R)
        /\ B # <<>> /\ Head(B) = Head(Q) /\ Last(B) = Last(R)
    BY <1>2, <2>0, EndsConcat
  <2>2. Identities(A) = Identities(P) \cup Identities(R)
        /\ Identities(B) = Identities(Q) \cup Identities(R)
    BY Concat
  <2>3. Last(P).identity = Last(Q).identity /\ Last(P).core = Last(Q).core
    <3>1. Profile(Last(P)) = Profile(Last(Q))
      BY DEF Alike
    <3>2. /\ Profile(Last(P)).identity = Last(P).identity
          /\ Profile(Last(P)).core = Last(P).core
          /\ Profile(Last(Q)).identity = Last(Q).identity
          /\ Profile(Last(Q)).core = Last(Q).core
      BY DEF Profile
    <3> QED BY <3>1, <3>2
  <2>4. Joint(P, R) = Joint(Q, R)
    BY <2>3 DEF Joint
  <2>5. /\ Contiguous(A) <=> /\ Contiguous(P) /\ Contiguous(R)
                             /\ Identities(P) \cap Identities(R) \subseteq Joint(P, R)
        /\ Contiguous(B) <=> /\ Contiguous(Q) /\ Contiguous(R)
                             /\ Identities(Q) \cap Identities(R) \subseteq Joint(Q, R)
    BY <1>2, <2>0, ContiguousConcat
  <2>6. Contiguous(A) <=> Contiguous(B)
    BY <2>4, <2>5 DEF Alike
  <2>7. ASSUME Contiguous(A) PROVE OneCore(A) <=> OneCore(B)
    <3>1. /\ OneCore(A) <=> /\ OneCore(P) /\ OneCore(R)
                            /\ Last(P).identity = Head(R).identity => Last(P).core = Head(R).core
          /\ OneCore(B) <=> /\ OneCore(Q) /\ OneCore(R)
                            /\ Last(Q).identity = Head(R).identity => Last(Q).core = Head(R).core
      BY <1>2, <2>0, <2>5, <2>6, <2>7, OneCoreConcat
    <3>2. OneCore(P) <=> OneCore(Q)
      BY <2>5, <2>7 DEF Alike
    <3> QED BY <2>3, <3>1, <3>2
  <2> HIDE DEF A, B
  <2>8. Alike(A, B)
    BY <2>1, <2>2, <2>6, <2>7 DEF Alike
  <2> QED BY <2>8 DEF A, B
<1> QED BY <1>1, <1>2

\* A repeated last row changes nothing.
LEMMA AlikeRepeated ==
    ASSUME NEW S, NEW P \in Seq(S), P # <<>>
    PROVE  Alike(P \o <<Last(P)>>, P) /\ <<Last(P)>> \in Seq(S)
<1> DEFINE l == Last(P)
           O == <<l>>
           A == P \o O
<1>1. l \in S /\ l.identity \in Identities(P)
  BY Ends
<1>2. O \in Seq(S) /\ O # <<>> /\ Head(O) = l /\ Last(O) = l /\ Len(O) = 1 /\ DOMAIN O = {1}
  BY <1>1 DEF Last
<1> HIDE DEF l
<1>3. Identities(O) = {l.identity}
  BY <1>2 DEF Identities
<1>4. Contiguous(O) /\ OneCore(O)
  BY <1>2 DEF Contiguous, OneCore
<1> HIDE DEF O
<1>5. Joint(P, O) = {l.identity} /\ Identities(P) \cap Identities(O) \subseteq Joint(P, O)
  BY <1>2, <1>3 DEF Joint, l
<1>6. Contiguous(A) <=> Contiguous(P)
  BY <1>2, <1>4, <1>5, ContiguousConcat
<1>7. OneCore(A) <=> OneCore(P)
  BY <1>2, <1>4, <1>5, OneCoreConcat DEF l
<1>8. A # <<>> /\ Head(A) = Head(P) /\ Last(A) = l
  BY <1>2, EndsConcat
<1>9. Identities(A) = Identities(P)
  <2>1. Identities(A) = Identities(P) \cup Identities(O)
    BY <1>2, Concat
  <2> HIDE DEF A
  <2> QED BY <1>1, <1>3, <2>1
<1> HIDE DEF A
<1>10. Alike(A, P)
  BY <1>6, <1>7, <1>8, <1>9 DEF Alike, l
<1> QED BY <1>2, <1>10 DEF A, O, l

\* A row before the rows that follow: the same as if it were not there.
LEMMA AlikeShared ==
    ASSUME NEW S, NEW P \in Seq(S), P # <<>>, NEW R \in Seq(S)
    PROVE  Alike(P \o (<<Last(P)>> \o R), P \o R)
<1>1. Alike(P \o <<Last(P)>>, P) /\ <<Last(P)>> \in Seq(S)
  BY AlikeRepeated
<1>2. P \o <<Last(P)>> \in Seq(S)
  BY <1>1, Concat
<1>3. Alike((P \o <<Last(P)>>) \o R, P \o R)
  BY <1>1, <1>2, AlikeConcat
<1>4. (P \o <<Last(P)>>) \o R = P \o (<<Last(P)>> \o R)
  BY <1>1, ConcatAssociative
<1> QED BY <1>3, <1>4

\* Being alike is transitive.
LEMMA AlikeChain ==
    ASSUME NEW P, NEW Q, Alike(P, Q), NEW R, Alike(Q, R)
    PROVE  Alike(P, R)
BY DEF Alike

\* What the merge of two jobs' states is.
RowsOfWaves(A, n, B, k) == RowsOfBoth(A, n, B, k, TRUE)

\* merge_states of two states: a row both of them have is counted once.
LEMMA MergeJobIs ==
    ASSUME NEW S, Countable(S), NEW A \in Seq(S), NEW B \in Seq(S),
           NEW n, NEW v, Counted(A, n, v), NEW k, NEW w, Counted(B, k, w)
    PROVE  LET all == RowsOfWaves(A, n, B, k)
               x == WitnessesOfBoth(A, v, B, w)
           IN  /\ MergeJob(StateOf(A, n, v), StateOf(B, k, w)) = StateOf(A \o B, all, x)
               /\ Counted(A \o B, all, x) /\ A \o B \in Seq(S)
<1> DEFINE all == RowsOfWaves(A, n, B, k)
           x == WitnessesOfBoth(A, v, B, w)
           yes == TRUE
           C == A \o B
<1>0. yes \in BOOLEAN /\ all = RowsOfBoth(A, n, B, k, yes)
  BY DEF RowsOfWaves
<1> HIDE DEF all, yes, C
<1>1. MergeStates(StateOf(A, n, v), StateOf(B, k, w), yes) = StateOf(C, all, x)
      /\ Counted(C, all, x) /\ C \in Seq(S)
  BY <1>0, MergeAny DEF C
<1>2. Reread(StateOf(C, all, x)) = StateOf(C, all, x)
  <2> HIDE DEF x
  <2> QED BY <1>1, RereadIs
<1>3. MergeJob(StateOf(A, n, v), StateOf(B, k, w)) = StateOf(C, all, x)
  BY <1>1, <1>2 DEF MergeJob, MergeWaves, yes
<1> QED BY <1>1, <1>3 DEF all, C

\* What a job makes of a wave.
LEMMA WaveIs ==
    ASSUME NEW S, Readable(S), NEW rows \in Seq(S)
    PROVE  LET P == PositiveOf(rows)
               w == WitnessCount(rows)
           IN  /\ Reread(SingleInputState(rows))
                    = IF Bad(rows) THEN Failed ELSE StateOf(P, Len(P), w)
               /\ P \in Seq({r \in S : r.identity > 0}) /\ Counted(P, Len(P), w) /\ w \in Nat
<1> DEFINE P == PositiveOf(rows)
           w == WitnessCount(rows)
           U == {r \in S : r.identity > 0}
           s == SingleInputState(rows)
<1>1. Countable(U) /\ P \in Seq(U) /\ w \in Nat
  BY PositiveType DEF WitnessCount
<1>2. s = IF Bad(rows) THEN Failed ELSE StateOf(P, Len(P), w)
  BY SingleIs DEF Bad, WitnessCount
<1> HIDE DEF U, P, w, s
<1>3. Counted(P, Len(P), w)
  BY <1>1, CountedAll
<1>4. Reread(StateOf(P, Len(P), w)) = StateOf(P, Len(P), w)
  BY <1>1, <1>3, RereadIs
<1>5. Reread(Failed) = Failed
  BY DEF Reread, Failed
<1>6. Reread(s) = IF Bad(rows) THEN Failed ELSE StateOf(P, Len(P), w)
  BY <1>2, <1>4, <1>5
<1> QED BY <1>1, <1>3, <1>6 DEF U, P, w, s

\* A wave that is refused.
LEMMA FailedJob ==
    ASSUME NEW s, NEW t, s = Failed \/ t = Failed
    PROVE  MergeJob(s, t) = Failed
<1>1. s.ok = FALSE \/ t.ok = FALSE
  BY DEF Failed
<1>2. MergeStates(s, t, TRUE) = Failed
  BY <1>1 DEF MergeStates
<1>3. Reread(Failed) = Failed
  BY DEF Reread, Failed
<1> QED BY <1>2, <1>3 DEF MergeJob, MergeWaves

\* The row a wave has from the one before it.
Shared(P) == IF P = <<>> THEN <<>> ELSE <<Last(P)>>

\* The rows of a wave that begins with the last row before it.
LEMMA SharedType ==
    ASSUME NEW S, NEW P \in Seq(S), NEW R \in Seq(S)
    PROVE  /\ Shared(P) \in Seq(S) /\ Shared(P) \o R \in Seq(S)
           /\ Len(Shared(P)) = IF P = <<>> THEN 0 ELSE 1
           /\ Len(Shared(P) \o R) = Len(Shared(P)) + Len(R)
           /\ P # <<>> => /\ Shared(P) \o R # <<>> /\ Head(Shared(P) \o R) = Last(P)
                          /\ Last(Shared(P) \o R) = Last(P \o R)
           /\ P = <<>> => Shared(P) \o R = R
<1>1. CASE P = <<>>
  <2> DEFINE O == Shared(P)
             n == Len(R)
  <2>1. O = <<>> /\ O \in Seq(S) /\ Len(O) = 0 /\ n \in Nat
    BY <1>1 DEF Shared
  <2>2. O \o R = R
    BY <2>1, ConcatEmptySeq
  <2> HIDE DEF O, n
  <2>3. Len(O \o R) = Len(O) + Len(R)
    BY <2>1, <2>2 DEF n
  <2> QED BY <1>1, <2>1, <2>2, <2>3 DEF O
<1>2. CASE P # <<>>
  <2> DEFINE O == <<Last(P)>>
  <2>1. Shared(P) = O /\ Last(P) \in S
    BY <1>2, Ends DEF Shared
  <2>2. O \in Seq(S) /\ O # <<>> /\ Len(O) = 1 /\ Head(O) = Last(P) /\ Last(O) = Last(P)
    BY <2>1 DEF Last
  <2> HIDE DEF O
  <2>3. O \o R \in Seq(S) /\ Len(O \o R) = Len(O) + Len(R)
    BY <2>2, ConcatProperties
  <2>4. CASE R = <<>>
    <3>1. O \o R = O /\ P \o R = P
      BY <2>2, <2>4, ConcatEmptySeq
    <3> QED BY <1>2, <2>1, <2>2, <2>3, <3>1
  <2>5. CASE R # <<>>
    <3>1. /\ O \o R # <<>> /\ Head(O \o R) = Head(O) /\ Last(O \o R) = Last(R)
          /\ Last(P \o R) = Last(R)
      BY <1>2, <2>2, <2>5, EndsConcat
    <3> QED BY <1>2, <2>1, <2>2, <2>3, <3>1
  <2> QED BY <2>4, <2>5
<1> QED BY <1>1, <1>2

\* Both end with the same row.
EndAlike(P, Q) == (P = <<>> <=> Q = <<>>) /\ (P # <<>> => Last(P) = Last(Q))

\* It is counted in one of the two waves.
LEMMA SharedCount ==
    ASSUME NEW S, NEW P \in Seq(S), NEW Q \in Seq(S), NEW R \in Seq(S),
           EndAlike(P, Q), NEW n \in Int, NEW k \in Int
    PROVE  RowsOfWaves(P, n, Shared(Q) \o R, k) = n + k - Len(Shared(Q))
<1> DEFINE T == Shared(Q) \o R
           yes == TRUE
           z == IF P = <<>> \/ T = <<>> THEN 0 ELSE OneFor(P, T, yes)
           all == RowsOfWaves(P, n, T, k)
<1>0. (P = <<>> <=> Q = <<>>) /\ (P # <<>> => Last(P) = Last(Q))
  BY DEF EndAlike
<1>1. z = Len(Shared(Q))
  <2>1. CASE P = <<>>
    BY <1>0, <2>1, SharedType
  <2>2. CASE P # <<>>
    <3>1. T # <<>> /\ Head(T) = Last(P) /\ Len(Shared(Q)) = 1
      BY <1>0, <2>2, SharedType
    <3>2. OneFor(P, T, yes) = 1
      BY <3>1 DEF OneFor
    <3> HIDE DEF T, yes
    <3> QED BY <2>2, <3>1, <3>2
  <2> QED BY <2>1, <2>2
<1>2. all = n + k - z
  BY DEF RowsOfWaves, RowsOfBoth
<1> HIDE DEF z, all
<1>3. all = n + k - Len(Shared(Q))
  BY <1>1, <1>2
<1> QED BY <1>3 DEF all

\* The witnesses of three inputs, in either order of the merges.
LEMMA WitnessesAdd ==
    ASSUME NEW S, NEW A \in Seq(S), NEW B \in Seq(S), NEW C \in Seq(S),
           NEW u \in Nat, NEW v \in Nat, NEW w \in Nat
    PROVE  WitnessesOfBoth(A \o B, WitnessesOfBoth(A, u, B, v), C, w)
             = WitnessesOfBoth(A, u, B \o C, WitnessesOfBoth(B, v, C, w))
<1>1. A \o B = <<>> <=> A = <<>> /\ B = <<>>
  BY ConcatProperties, ConcatEmptySeq
<1>2. B \o C = <<>> <=> B = <<>> /\ C = <<>>
  BY ConcatProperties, ConcatEmptySeq
<1> DEFINE D == A \o B
           E == B \o C
<1> HIDE DEF D, E
<1>3. (D = <<>> <=> A = <<>> /\ B = <<>>) /\ (E = <<>> <=> B = <<>> /\ C = <<>>)
  BY <1>1, <1>2 DEF D, E
<1>4. WitnessesOfBoth(D, WitnessesOfBoth(A, u, B, v), C, w)
        = WitnessesOfBoth(A, u, E, WitnessesOfBoth(B, v, C, w))
  BY <1>3 DEF WitnessesOfBoth
<1> QED BY <1>4 DEF D, E

\* Three waves that share their boundaries say what their rows say.
LEMMA AlikeSharing ==
    ASSUME NEW S, NEW A \in Seq(S), NEW B \in Seq(S), NEW C \in Seq(S), NEW n, NEW w
    PROVE  StateOf((A \o (Shared(A) \o B)) \o (Shared(A \o B) \o C), n, w)
             = StateOf((A \o B) \o C, n, w)
<1> DEFINE D == A \o B
           P == A \o (Shared(A) \o B)
           R == Shared(D) \o C
<1>1. D \in Seq(S) /\ Shared(A) \o B \in Seq(S)
  BY Concat, SharedType
<1>2. P \in Seq(S) /\ R \in Seq(S)
  BY <1>1, Concat, SharedType
<1>3. P = D \/ Alike(P, D)
  <2>1. CASE A = <<>>
    BY <2>1, SharedType
  <2>2. CASE A # <<>>
    <3>1. Shared(A) = <<Last(A)>>
      BY <2>2 DEF Shared
    <3>2. Alike(A \o (<<Last(A)>> \o B), A \o B)
      BY <2>2, AlikeShared
    <3> QED BY <3>1, <3>2
  <2> QED BY <2>1, <2>2
<1> HIDE DEF P, D
<1>4. P \o R = D \o R \/ Alike(P \o R, D \o R)
  <2> HIDE DEF R
  <2> QED BY <1>1, <1>2, <1>3, AlikeConcat
<1>5. StateOf(P \o R, n, w) = StateOf(D \o R, n, w)
  <2> DEFINE one == P \o R
             two == D \o R
  <2>1. one = two \/ Alike(one, two)
    BY <1>4
  <2> HIDE DEF one, two
  <2>2. StateOf(one, n, w) = StateOf(two, n, w)
    BY <2>1, AlikeStates
  <2> QED BY <2>2 DEF one, two
<1>6. StateOf(D \o R, n, w) = StateOf(D \o C, n, w)
  <2>1. CASE D = <<>>
    <3>1. R = C
      BY <1>1, <2>1, SharedType
    <3> QED BY <3>1
  <2>2. CASE D # <<>>
    <3>1. Shared(D) = <<Last(D)>>
      BY <2>2 DEF Shared
    <3>2. Alike(D \o (<<Last(D)>> \o C), D \o C)
      BY <1>1, <2>2, AlikeShared
    <3> QED BY <3>1, <3>2, AlikeStates
  <2> QED BY <2>1, <2>2
<1> QED BY <1>5, <1>6 DEF P, D, R

\* Three inputs, two of which start with the last row before them.
Agree(A, B, C, u, v, w) ==
    LET P == Shared(A) \o B
        Q == Shared(A \o B) \o C
        D == (A \o B) \o C
        one == StateOf(A, Len(A), u)
        two == StateOf(P, Len(P), v)
        three == StateOf(Q, Len(Q), w)
    IN  \E x \in Nat :
           /\ MergeJob(MergeJob(one, two), three) = StateOf(D, Len(D), x)
           /\ MergeJob(one, MergeJob(two, three)) = StateOf(D, Len(D), x)

\* Three states merge in either order.
LEMMA ThreeInputs ==
    ASSUME NEW S, Countable(S), NEW A \in Seq(S), NEW B \in Seq(S), NEW C \in Seq(S),
           NEW u \in Nat, NEW v \in Nat, NEW w \in Nat
    PROVE  Agree(A, B, C, u, v, w)
<1> DEFINE E == A \o B
           P == Shared(A) \o B
           Q == Shared(E) \o C
           D == E \o C
           a == Len(A)
           p == Len(P)
           q == Len(Q)
           d == Len(D)
           one == StateOf(A, a, u)
           two == StateOf(P, p, v)
           three == StateOf(Q, q, w)
           n == RowsOfWaves(A, a, P, p)
           x == WitnessesOfBoth(A, u, P, v)
           k == RowsOfWaves(P, p, Q, q)
           y == WitnessesOfBoth(P, v, Q, w)
           i == RowsOfWaves(A \o P, n, Q, q)
           j == RowsOfWaves(A, a, P \o Q, k)
           z == WitnessesOfBoth(A \o P, x, Q, w)
<1>1. E \in Seq(S) /\ P \in Seq(S)
  BY Concat, SharedType
<1>2. Q \in Seq(S) /\ D \in Seq(S)
  BY <1>1, Concat, SharedType
<1>3. A \o P \in Seq(S) /\ P \o Q \in Seq(S) /\ (A \o P) \o Q = A \o (P \o Q)
  <2>1. A \o P \in Seq(S) /\ P \o Q \in Seq(S)
    BY <1>1, <1>2, Concat
  <2> HIDE DEF P, Q
  <2>2. (A \o P) \o Q = A \o (P \o Q)
    BY <1>1, <1>2, ConcatAssociative
  <2> QED BY <2>1, <2>2
<1>4. Counted(A, a, u) /\ Counted(P, p, v) /\ Counted(Q, q, w)
  BY <1>1, <1>2, CountedAll
<1>5. /\ a \in Nat /\ p \in Nat /\ q \in Nat /\ Len(B) \in Nat /\ Len(C) \in Nat
      /\ Len(Shared(A)) \in Nat /\ Len(Shared(E)) \in Nat
      /\ p = Len(Shared(A)) + Len(B) /\ q = Len(Shared(E)) + Len(C)
      /\ d = a + Len(B) + Len(C)
  <2>1. p = Len(Shared(A)) + Len(B) /\ Len(Shared(A)) \in Nat
    BY SharedType
  <2>2. q = Len(Shared(E)) + Len(C) /\ Len(Shared(E)) \in Nat
    BY <1>1, SharedType
  <2>3. Len(E) = a + Len(B) /\ Len(D) = Len(E) + Len(C)
    BY <1>1, ConcatProperties
  <2>4. a \in Nat /\ Len(B) \in Nat /\ Len(C) \in Nat /\ p \in Nat /\ q \in Nat
    BY <1>1, <1>2
  <2> QED BY <2>1, <2>2, <2>3, <2>4
\* The ends of what the first two make.
<1>6. /\ P = <<>> <=> E = <<>>
      /\ A \o P = <<>> <=> E = <<>>
      /\ E # <<>> => Last(P) = Last(E) /\ Last(A \o P) = Last(E)
  <2>1. CASE A = <<>>
    <3>1. P = B
      BY <2>1, SharedType
    <3>2. E = B /\ A \o P = P
      BY <1>1, <2>1, ConcatEmptySeq
    <3> HIDE DEF P, E
    <3> QED BY <3>1, <3>2
  <2>2. CASE A # <<>>
    <3>1. P # <<>> /\ Last(P) = Last(E)
      BY <2>2, SharedType
    <3>2. A \o P # <<>> /\ Last(A \o P) = Last(P)
      BY <1>1, <2>2, <3>1, EndsConcat
    <3>3. E # <<>>
      BY <2>2, ConcatProperties
    <3> QED BY <3>1, <3>2, <3>3
  <2> QED BY <2>1, <2>2
<1>a. EndAlike(P, E) /\ EndAlike(A \o P, E) /\ EndAlike(A, A)
  <2> HIDE DEF P, E
  <2> QED BY <1>6 DEF EndAlike
<1>7. n = a + p - Len(Shared(A)) /\ n \in Int
  <2>1. n = a + p - Len(Shared(A))
    <3> HIDE DEF p, a
    <3>1. EndAlike(A, A) /\ a \in Int /\ p \in Int
      BY <1>5 DEF EndAlike
    <3>2. RowsOfWaves(A, a, Shared(A) \o B, p) = a + p - Len(Shared(A))
      BY <3>1, SharedCount
    <3> QED BY <3>2
  <2> HIDE DEF n, p, a
  <2> QED BY <1>5, <2>1
<1>8. k = p + q - Len(Shared(E)) /\ k \in Int
  <2>1. k = p + q - Len(Shared(E))
    <3> HIDE DEF p, q, E, P
    <3> QED BY <1>1, <1>5, <1>a, SharedCount
  <2> HIDE DEF k, p, q
  <2> QED BY <1>5, <2>1
<1>9. i = n + q - Len(Shared(E))
  <2> HIDE DEF n, q, E, P
  <2> DEFINE O == A \o P
  <2> HIDE DEF O
  <2>0. O \in Seq(S) /\ EndAlike(O, E)
    BY <1>3, <1>a DEF O
  <2>1. RowsOfWaves(O, n, Shared(E) \o C, q) = n + q - Len(Shared(E))
    BY <1>1, <1>5, <1>7, <2>0, SharedCount
  <2> QED BY <2>1 DEF O
<1>10. j = a + k - Len(Shared(A))
  <2> DEFINE R == B \o Q
  <2>1. R \in Seq(S)
    BY <1>2, Concat
  <2>2. P \o Q = Shared(A) \o R
    <3> DEFINE O == Shared(A)
    <3>1. O \in Seq(S)
      BY SharedType
    <3> HIDE DEF O, Q
    <3>2. (O \o B) \o Q = O \o (B \o Q)
      BY <1>2, <3>1, ConcatAssociative
    <3> QED BY <3>2 DEF O
  <2> HIDE DEF R, k, a
  <2>3. RowsOfWaves(A, a, Shared(A) \o R, k) = a + k - Len(Shared(A))
    BY <1>5, <1>8, <1>a, <2>1, SharedCount
  <2> QED BY <2>2, <2>3
<1>11. i = d /\ j = d
  <2> HIDE DEF i, j, n, k, a, p, q, d
  <2> QED BY <1>5, <1>7, <1>8, <1>9, <1>10
<1>12. z = WitnessesOfBoth(A, u, P \o Q, y)
  <2> HIDE DEF P, Q
  <2> QED BY <1>1, <1>2, WitnessesAdd
<1> HIDE DEF a, p, q, d, n, k, i, j, E, P, Q, D, x, y, z
<1>13. /\ MergeJob(one, two) = StateOf(A \o P, n, x) /\ Counted(A \o P, n, x)
       /\ MergeJob(two, three) = StateOf(P \o Q, k, y) /\ Counted(P \o Q, k, y)
  BY <1>1, <1>2, <1>4, MergeJobIs DEF n, x, k, y
<1>14. /\ MergeJob(StateOf(A \o P, n, x), three) = StateOf((A \o P) \o Q, i, z)
       /\ Counted((A \o P) \o Q, i, z)
  <2> DEFINE O == A \o P
  <2> HIDE DEF O
  <2>1. O \in Seq(S) /\ Counted(O, n, x)
    BY <1>3, <1>13 DEF O
  <2>2. /\ MergeJob(StateOf(O, n, x), three)
             = StateOf(O \o Q, RowsOfWaves(O, n, Q, q), WitnessesOfBoth(O, x, Q, w))
        /\ Counted(O \o Q, RowsOfWaves(O, n, Q, q), WitnessesOfBoth(O, x, Q, w))
    BY <1>2, <1>4, <2>1, MergeJobIs
  <2> QED BY <2>2 DEF O, i, z
<1>15. MergeJob(one, StateOf(P \o Q, k, y)) = StateOf(A \o (P \o Q), j, z)
  <2> DEFINE O == P \o Q
  <2> HIDE DEF O
  <2>1. O \in Seq(S) /\ Counted(O, k, y)
    BY <1>3, <1>13 DEF O
  <2>2. MergeJob(one, StateOf(O, k, y))
          = StateOf(A \o O, RowsOfWaves(A, a, O, k), WitnessesOfBoth(A, u, O, y))
    BY <1>4, <2>1, MergeJobIs
  <2> QED BY <1>12, <2>2 DEF O, j
<1>16. StateOf((A \o P) \o Q, d, z) = StateOf(D, d, z)
  BY AlikeSharing DEF P, Q, D, E
<1>17. z \in Nat
  BY <1>14 DEF Counted
<1>18. MergeJob(MergeJob(one, two), three) = StateOf(D, d, z)
       /\ MergeJob(one, MergeJob(two, three)) = StateOf(D, d, z)
  BY <1>3, <1>11, <1>13, <1>14, <1>15, <1>16
<1> QED BY <1>17, <1>18 DEF a, p, q, d, E, P, Q, D, Agree

-----------------------------------------------------------------------------
(* The waves of three files *)

\* An element of a sequence.
LEMMA ElementOf ==
    ASSUME NEW T, NEW s \in Seq(T), NEW i \in 1 .. Len(s)
    PROVE  s[i] \in T
OBVIOUS

\* Three sequences put together.
LEMMA FlattenThree ==
    ASSUME NEW S, NEW seqs \in Seq(Seq(S)), Len(seqs) = 3
    PROVE  /\ seqs[1] \in Seq(S) /\ seqs[2] \in Seq(S) /\ seqs[3] \in Seq(S)
           /\ FlattenSeq(SubSeq(seqs, 1, 0)) = <<>>
           /\ FlattenSeq(SubSeq(seqs, 1, 1)) = seqs[1]
           /\ FlattenSeq(SubSeq(seqs, 1, 2)) = seqs[1] \o seqs[2]
           /\ FlattenSeq(seqs) = (seqs[1] \o seqs[2]) \o seqs[3]
<1> DEFINE T == Seq(S)
<1>1. ASSUME NEW s \in Seq(T)
      PROVE  /\ Len(s) = 0 => FlattenSeq(s) = <<>>
             /\ Len(s) = 1 => FlattenSeq(s) = s[1]
             /\ Len(s) = 2 => FlattenSeq(s) = s[1] \o s[2]
             /\ Len(s) = 3 => FlattenSeq(s) = (s[1] \o s[2]) \o s[3]
  <2>1. PICK f : Flattened(f, s, S)
    BY FlattenedUnfolds
  <2>2. f[0] = <<>> /\ FlattenSeq(s) = f[Len(s)]
    BY <2>1 DEF Flattened
  <2>3. \A n \in 1 .. Len(s) : f[n] = f[n - 1] \o s[n] /\ s[n] \in Seq(S)
    <3> HIDE DEF T
    <3> TAKE n \in 1 .. Len(s)
    <3>1. f[n] = f[n - 1] \o s[n]
      BY <2>1, Zenon DEF Flattened
    <3>2. s[n] \in T
      BY ElementOf, Zenon
    <3> QED BY <3>1, <3>2, Zenon DEF T
  <2> HIDE DEF T
  <2>4. Len(s) >= 1 => f[1] = s[1]
    <3> SUFFICES ASSUME Len(s) >= 1 PROVE f[1] = s[1]
      OBVIOUS
    <3>1. 1 \in 1 .. Len(s) /\ 1 - 1 = 0
      OBVIOUS
    <3>2. f[1] = f[0] \o s[1] /\ s[1] \in Seq(S)
      BY <2>3, <3>1
    <3> QED BY <2>2, <3>2, ConcatEmptySeq
  <2>5. Len(s) >= 2 => f[2] = s[1] \o s[2]
    <3> SUFFICES ASSUME Len(s) >= 2 PROVE f[2] = s[1] \o s[2]
      OBVIOUS
    <3>1. 2 \in 1 .. Len(s) /\ 2 - 1 = 1 /\ Len(s) >= 1
      OBVIOUS
    <3> QED BY <2>3, <2>4, <3>1
  <2>6. Len(s) = 3 => f[3] = (s[1] \o s[2]) \o s[3]
    <3> SUFFICES ASSUME Len(s) = 3 PROVE f[3] = (s[1] \o s[2]) \o s[3]
      OBVIOUS
    <3>1. 3 \in 1 .. Len(s) /\ 3 - 1 = 2 /\ Len(s) >= 2
      OBVIOUS
    <3> QED BY <2>3, <2>5, <3>1
  <2>7. (Len(s) = 1 => Len(s) >= 1) /\ (Len(s) = 2 => Len(s) >= 2)
    <3>1. 1 >= 1 /\ 2 >= 2
      OBVIOUS
    <3> QED BY <3>1, Zenon
  <2> QED BY <2>2, <2>4, <2>5, <2>6, <2>7
<1>2. seqs \in Seq(T)
  OBVIOUS
<1> HIDE DEF T
<1>3. \A i \in 1..3 : seqs[i] \in T
  BY <1>2, ElementOf, Zenon
<1>4. ASSUME NEW k \in 0..2
      PROVE  /\ SubSeq(seqs, 1, k) \in Seq(T) /\ Len(SubSeq(seqs, 1, k)) = k
             /\ \A i \in 1..k : SubSeq(seqs, 1, k)[i] = seqs[i]
  <2>1. k \in Int /\ k - 1 + 1 = k /\ (IF 1 <= k THEN k - 1 + 1 ELSE 0) = k
        /\ \A i \in 1..k : i \in 1..3 /\ 1 + i - 1 = i
    OBVIOUS
  <2>2. \A i \in 1..k : seqs[i] \in T
    BY <1>3, <2>1
  <2>3. /\ SubSeq(seqs, 1, k) \in Seq(T)
        /\ Len(SubSeq(seqs, 1, k)) = IF 1 <= k THEN k - 1 + 1 ELSE 0
        /\ \A i \in 1 .. k - 1 + 1 : SubSeq(seqs, 1, k)[i] = seqs[1 + i - 1]
    BY <2>1, <2>2, SubSeqProperties
  <2> QED BY <2>1, <2>3
<1>5. /\ Len(SubSeq(seqs, 1, 0)) = 0 /\ SubSeq(seqs, 1, 0) \in Seq(T)
      /\ Len(SubSeq(seqs, 1, 1)) = 1 /\ SubSeq(seqs, 1, 1) \in Seq(T)
      /\ Len(SubSeq(seqs, 1, 2)) = 2 /\ SubSeq(seqs, 1, 2) \in Seq(T)
      /\ SubSeq(seqs, 1, 1)[1] = seqs[1]
      /\ SubSeq(seqs, 1, 2)[1] = seqs[1] /\ SubSeq(seqs, 1, 2)[2] = seqs[2]
  BY <1>4
<1>6. seqs[1] \in T /\ seqs[2] \in T /\ seqs[3] \in T
  BY <1>3
<1>7. /\ FlattenSeq(SubSeq(seqs, 1, 0)) = <<>>
      /\ FlattenSeq(SubSeq(seqs, 1, 1)) = SubSeq(seqs, 1, 1)[1]
      /\ FlattenSeq(SubSeq(seqs, 1, 2)) = SubSeq(seqs, 1, 2)[1] \o SubSeq(seqs, 1, 2)[2]
      /\ FlattenSeq(seqs) = (seqs[1] \o seqs[2]) \o seqs[3]
  BY <1>1, <1>2, <1>5
<1> QED BY <1>5, <1>6, <1>7 DEF T

\* The rows of a wave that starts with the last positive row before it.
LEMMA SharedRows ==
    ASSUME NEW S, Readable(S), NEW a \in Seq(S), NEW b \in Seq(S)
    PROVE  LET W == Shared(PositiveOf(a)) \o b
           IN  /\ W \in Seq(S)
               /\ PositiveOf(W) = Shared(PositiveOf(a)) \o PositiveOf(b)
               /\ Bad(b) => Bad(W)
               /\ Bad(W) => Bad(a) \/ Bad(b)
<1> DEFINE U == {r \in S : r.identity > 0}
           P == PositiveOf(a)
           O == Shared(P)
           W == O \o b
<1>1. P \in Seq(U) /\ P = Those(a, U) /\ U \subseteq S
  BY PositiveType
<1>2. ToSet(P) \subseteq ToSet(a)
  <2> HIDE DEF U, P
  <2> QED BY <1>1, ThoseMembers
<1>3. O \in Seq(S) /\ PositiveOf(O) = O /\ (Bad(O) => Bad(a))
  <2>1. CASE P = <<>>
    <3>1. O = <<>> /\ <<>> \in Seq(S)
      BY <2>1 DEF Shared
    <3>2. PositiveOf(<<>>) = <<>>
      BY ThoseEmpty DEF PositiveOf
    <3>3. ~Bad(<<>>)
      BY DEF Bad
    <3> HIDE DEF O
    <3> QED BY <3>1, <3>2, <3>3
  <2>2. CASE P # <<>>
    <3> DEFINE l == Last(P)
    <3>1. O = <<l>> /\ l \in U
      <4> HIDE DEF U, P
      <4> QED BY <1>1, <2>2, Ends DEF Shared
    <3>2. O \in Seq(S)
      <4>1. l \in S
        BY <1>1, <3>1
      <4> HIDE DEF l
      <4> QED BY <3>1, <4>1
    <3>3. PositiveOf(O) = Those(O, U)
      BY <3>2, PositiveType
    <3>4. l \in ToSet(a)
      <4>1. l = P[Len(P)] /\ Len(P) \in 1 .. Len(P) /\ DOMAIN P = 1 .. Len(P)
        <5> HIDE DEF U, P
        <5> QED BY <1>1, <2>2, Ends
      <4>2. P[Len(P)] \in ToSet(P)
        BY <4>1 DEF ToSet
      <4> QED BY <1>2, <4>1, <4>2
    <3> HIDE DEF O, l, U
    <3>5. Those(O, U) = O
      BY <1>1, <3>1, ThoseOne
    <3>6. Bad(O) => Bad(a)
      <4>1. Bad(O) => InvalidRow(l)
        BY <3>1 DEF Bad
      <4>2. InvalidRow(l) => Bad(a)
        BY <3>4 DEF Bad, ToSet
      <4> QED BY <4>1, <4>2
    <3> QED BY <3>2, <3>3, <3>5, <3>6
  <2> QED BY <2>1, <2>2
<1> HIDE DEF O, P, U
<1>4. W \in Seq(S)
  BY <1>3, Concat
<1>5. PositiveOf(W) = O \o PositiveOf(b) /\ (Bad(W) <=> Bad(O) \/ Bad(b))
  BY <1>3, RowsConcat
<1> QED BY <1>3, <1>4, <1>5 DEF O, P

\* States that differ in nothing else differ in their witnesses.
LEMMA OnlyWitnesses ==
    ASSUME NEW s, NEW t, NEW ok, NEW buckets, NEW counts, NEW rows, NEW groups,
           NEW v, NEW w, NEW first, NEW last,
           s = [ok |-> ok, buckets |-> buckets, counts |-> counts, rows |-> rows,
                groups |-> groups, witnesses |-> v, first |-> first, last |-> last],
           t = [ok |-> ok, buckets |-> buckets, counts |-> counts, rows |-> rows,
                groups |-> groups, witnesses |-> w, first |-> first, last |-> last]
    PROVE  s = [t EXCEPT !.witnesses = v]
OBVIOUS

\* The merges of three waves, and one pass over their rows.
LEMMA WavesMerge ==
    ASSUME NEW S, Readable(S), NEW a \in Seq(S), NEW b \in Seq(S), NEW c \in Seq(S)
    PROVE  LET one     == Reread(SingleInputState(a))
               two     == Reread(SingleInputState(Shared(PositiveOf(a)) \o b))
               three   == Reread(SingleInputState(Shared(PositiveOf(a \o b)) \o c))
               merged  == MergeJob(MergeJob(one, two), three)
               onePass == SingleInputState((a \o b) \o c)
           IN  /\ merged = MergeJob(one, MergeJob(two, three))
               /\ merged.ok <=> onePass.ok
               /\ onePass.ok => merged = [onePass EXCEPT !.witnesses = merged.witnesses]
<1> DEFINE U == {r \in S : r.identity > 0}
           A == PositiveOf(a)
           B == PositiveOf(b)
           C == PositiveOf(c)
           D == (A \o B) \o C
           P == Shared(A) \o B
           Q == Shared(A \o B) \o C
           W2 == Shared(PositiveOf(a)) \o b
           W3 == Shared(PositiveOf(a \o b)) \o c
           all == (a \o b) \o c
           one == Reread(SingleInputState(a))
           two == Reread(SingleInputState(W2))
           three == Reread(SingleInputState(W3))
           merged == MergeJob(MergeJob(one, two), three)
           other == MergeJob(one, MergeJob(two, three))
           onePass == SingleInputState(all)
           bad == Bad(a) \/ Bad(b) \/ Bad(c)
<1>1. a \o b \in Seq(S) /\ all \in Seq(S)
  <2>1. a \o b \in Seq(S)
    BY Concat
  <2> QED BY <2>1, Concat
<1>2. /\ PositiveOf(a \o b) = A \o B /\ (Bad(a \o b) <=> Bad(a) \/ Bad(b))
      /\ PositiveOf(all) = D /\ (Bad(all) <=> bad)
  <2>1. PositiveOf(a \o b) = A \o B /\ (Bad(a \o b) <=> Bad(a) \/ Bad(b))
    BY RowsConcat
  <2>2. PositiveOf(all) = PositiveOf(a \o b) \o C /\ (Bad(all) <=> Bad(a \o b) \/ Bad(c))
    <3> DEFINE ab == a \o b
    <3>1. ab \in Seq(S)
      BY <1>1
    <3> HIDE DEF ab
    <3>2. PositiveOf(ab \o c) = PositiveOf(ab) \o C /\ (Bad(ab \o c) <=> Bad(ab) \/ Bad(c))
      BY <3>1, RowsConcat
    <3> QED BY <3>2 DEF ab
  <2> QED BY <2>1, <2>2
<1>3. W2 \in Seq(S) /\ PositiveOf(W2) = P /\ (Bad(b) => Bad(W2)) /\ (Bad(W2) => Bad(a) \/ Bad(b))
  BY SharedRows
<1>4. /\ W3 \in Seq(S) /\ PositiveOf(W3) = Q /\ (Bad(c) => Bad(W3))
      /\ Bad(W3) => Bad(a) \/ Bad(b) \/ Bad(c)
  <2> DEFINE ab == a \o b
  <2> HIDE DEF ab
  <2>1. ab \in Seq(S)
    BY <1>1 DEF ab
  <2>2. /\ Shared(PositiveOf(ab)) \o c \in Seq(S)
        /\ PositiveOf(Shared(PositiveOf(ab)) \o c) = Shared(PositiveOf(ab)) \o C
        /\ Bad(c) => Bad(Shared(PositiveOf(ab)) \o c)
        /\ Bad(Shared(PositiveOf(ab)) \o c) => Bad(ab) \/ Bad(c)
    BY <2>1, SharedRows
  <2> QED BY <1>2, <2>2 DEF ab
<1>5. Countable(U) /\ A \in Seq(U) /\ B \in Seq(U) /\ C \in Seq(U)
  BY PositiveType
<1> HIDE DEF W2, W3, all, A, B, C, D, P, Q
<1>6. /\ one = IF Bad(a) THEN Failed ELSE StateOf(A, Len(A), WitnessCount(a))
      /\ two = IF Bad(W2) THEN Failed ELSE StateOf(P, Len(P), WitnessCount(W2))
      /\ three = IF Bad(W3) THEN Failed ELSE StateOf(Q, Len(Q), WitnessCount(W3))
      /\ WitnessCount(a) \in Nat /\ WitnessCount(W2) \in Nat /\ WitnessCount(W3) \in Nat
  BY <1>3, <1>4, WaveIs DEF A
<1>7. onePass = IF bad THEN Failed ELSE StateOf(D, Len(D), WitnessCount(all))
  <2>1. onePass = IF Bad(all) THEN Failed
                  ELSE StateOf(PositiveOf(all), Len(PositiveOf(all)), WitnessCount(all))
    BY <1>1, SingleIs DEF Bad, WitnessCount
  <2> HIDE DEF onePass
  <2> QED BY <1>2, <2>1
<1> HIDE DEF U, one, two, three, onePass
<1>8. CASE bad
  <2>1. one = Failed \/ two = Failed \/ three = Failed
    BY <1>3, <1>4, <1>6, <1>8
  <2>2. merged = Failed /\ other = Failed
    BY <2>1, FailedJob
  <2>3. onePass = Failed /\ Failed.ok = FALSE
    BY <1>7, <1>8 DEF Failed
  <2> HIDE DEF merged, other
  <2>4. merged = other /\ merged.ok = FALSE /\ onePass.ok = FALSE
    BY <2>2, <2>3
  <2> QED BY <2>4 DEF merged, other, one, two, three, onePass, W2, W3, all
<1>9. CASE ~bad
  <2>1. ~Bad(a) /\ ~Bad(W2) /\ ~Bad(W3)
    BY <1>3, <1>4, <1>9
  <2>2. /\ one = StateOf(A, Len(A), WitnessCount(a))
        /\ two = StateOf(P, Len(P), WitnessCount(W2))
        /\ three = StateOf(Q, Len(Q), WitnessCount(W3))
    BY <1>6, <2>1
  <2> DEFINE w == WitnessCount(all)
             n == Len(D)
  <2>3. PICK x \in Nat : merged = StateOf(D, n, x) /\ other = StateOf(D, n, x)
    <3> DEFINE t == WitnessCount(a)
               u == WitnessCount(W2)
               v == WitnessCount(W3)
               First == StateOf(A, Len(A), t)
               Second == StateOf(P, Len(P), u)
               Third == StateOf(Q, Len(Q), v)
    <3>1. t \in Nat /\ u \in Nat /\ v \in Nat
      BY <1>6
    <3> HIDE DEF t, u, v
    <3>2. \E x \in Nat : /\ MergeJob(MergeJob(First, Second), Third) = StateOf(D, n, x)
                         /\ MergeJob(First, MergeJob(Second, Third)) = StateOf(D, n, x)
      <4>1. Agree(A, B, C, t, u, v)
        BY <1>5, <3>1, ThreeInputs
      <4> QED BY <4>1 DEF Agree, P, Q, D
    <3>3. one = First /\ two = Second /\ three = Third
      BY <2>2 DEF t, u, v
    <3> HIDE DEF First, Second, Third, n
    <3> QED BY <3>2, <3>3
  <2>4. onePass = StateOf(D, n, w)
    BY <1>7, <1>9
  <2> HIDE DEF merged, other, w, n
  <2>5. CASE Contiguous(D) /\ OneCore(D)
    <3> DEFINE buckets == [b_1 \in Buckets |-> InOrder(Seen(Identities(D), b_1))]
               counts == [b_1 \in Buckets |-> Cardinality(Seen(Identities(D), b_1))]
               groups == Cardinality(Identities(D))
               yes == TRUE
    <3>1. /\ merged = [ok |-> yes, buckets |-> buckets, counts |-> counts, rows |-> n,
                       groups |-> groups, witnesses |-> x,
                       first |-> FirstOf(D), last |-> LastOf(D)]
          /\ onePass = [ok |-> yes, buckets |-> buckets, counts |-> counts, rows |-> n,
                        groups |-> groups, witnesses |-> w,
                        first |-> FirstOf(D), last |-> LastOf(D)]
      BY <2>3, <2>4, <2>5 DEF StateOf
    <3> HIDE DEF buckets, counts, groups, yes
    <3>2. merged.ok = yes /\ onePass.ok = yes /\ merged.witnesses = x
      BY <3>1
    <3>3. merged = [onePass EXCEPT !.witnesses = x]
      BY <3>1, OnlyWitnesses
    <3>4. /\ merged = other /\ (merged.ok <=> onePass.ok)
          /\ merged = [onePass EXCEPT !.witnesses = merged.witnesses]
      BY <2>3, <3>2, <3>3
    <3> QED BY <3>4 DEF merged, other, one, two, three, onePass, W2, W3, all
  <2>6. CASE ~(Contiguous(D) /\ OneCore(D))
    <3>1. merged = Failed /\ onePass = Failed
      BY <2>3, <2>4, <2>6 DEF StateOf
    <3>2. merged = other /\ merged.ok = FALSE /\ onePass.ok = FALSE
      BY <2>3, <3>1 DEF Failed
    <3> QED BY <3>2 DEF merged, other, one, two, three, onePass, W2, W3, all
  <2> QED BY <2>5, <2>6
<1> QED BY <1>8, <1>9

\* The rows of each wave.
LEMMA WavesOfFiles ==
    ASSUME InputIInv, plan = NoPlan, Len(files) = 3
    PROVE  /\ files[1] \in Seq(Rows) /\ files[2] \in Seq(Rows) /\ files[3] \in Seq(Rows)
           /\ Wave(1) = files[1]
           /\ Wave(2) = Shared(PositiveOf(files[1])) \o files[2]
           /\ Wave(3) = Shared(PositiveOf(files[1] \o files[2])) \o files[3]
           /\ AllRows = (files[1] \o files[2]) \o files[3]
<1> DEFINE Before(i) == PositiveOf(FlattenSeq(SubSeq(files, 1, i - 1)))
<1>1. files \in Seq(Seq(Rows))
  BY AllRowsType
<1>2. /\ files[1] \in Seq(Rows) /\ files[2] \in Seq(Rows) /\ files[3] \in Seq(Rows)
      /\ FlattenSeq(SubSeq(files, 1, 0)) = <<>>
      /\ FlattenSeq(SubSeq(files, 1, 1)) = files[1]
      /\ FlattenSeq(SubSeq(files, 1, 2)) = files[1] \o files[2]
      /\ FlattenSeq(files) = (files[1] \o files[2]) \o files[3]
  BY <1>1, FlattenThree
<1>3. \A i : Wave(i) = Shared(Before(i)) \o files[i]
  BY DEF Wave, Shared
<1>4. /\ Before(1) = <<>>
      /\ Before(2) = PositiveOf(files[1]) /\ Before(3) = PositiveOf(files[1] \o files[2])
  <2>1. 1 - 1 = 0 /\ 2 - 1 = 1 /\ 3 - 1 = 2
    OBVIOUS
  <2>2. PositiveOf(<<>>) = <<>>
    BY ThoseEmpty DEF PositiveOf
  <2> QED BY <1>2, <2>1, <2>2
<1> HIDE DEF Before
<1>5. Wave(1) = files[1]
  <2>1. Shared(<<>>) = <<>>
    BY DEF Shared
  <2> QED BY <1>2, <1>3, <1>4, <2>1, ConcatEmptySeq
<1> QED BY <1>2, <1>3, <1>4, <1>5 DEF AllRows

\* Three waves that share a row with the one before, published, read back and merged
\* in either order, are accepted when all the rows in one pass are, and then say the
\* same, for any rows and any number of buckets.
THEOREM WavesTheorem == InputSpec => []WavesMergeInAnyOrder
<1>1. InputIInv => WavesMergeInAnyOrder
  <2> DEFINE wave == [i \in 1..3 |-> Reread(SingleInputState(Wave(i)))]
             merged == MergeJob(MergeJob(wave[1], wave[2]), wave[3])
             onePass == SingleInputState(AllRows)
  <2> SUFFICES ASSUME InputIInv, plan = NoPlan, Len(files) = 3
               PROVE  /\ merged = MergeJob(wave[1], MergeJob(wave[2], wave[3]))
                      /\ merged.ok <=> onePass.ok
                      /\ onePass.ok => merged = [onePass EXCEPT !.witnesses = merged.witnesses]
    BY DEF WavesMergeInAnyOrder
  <2>1. /\ wave[1] = Reread(SingleInputState(Wave(1)))
        /\ wave[2] = Reread(SingleInputState(Wave(2)))
        /\ wave[3] = Reread(SingleInputState(Wave(3)))
    OBVIOUS
  <2> DEFINE a == files[1]
             b == files[2]
             c == files[3]
             one == Reread(SingleInputState(a))
             two == Reread(SingleInputState(Shared(PositiveOf(a)) \o b))
             three == Reread(SingleInputState(Shared(PositiveOf(a \o b)) \o c))
  <2>2. /\ a \in Seq(Rows) /\ b \in Seq(Rows) /\ c \in Seq(Rows)
        /\ wave[1] = one /\ wave[2] = two /\ wave[3] = three
        /\ AllRows = (a \o b) \o c
    BY <2>1, WavesOfFiles
  <2> HIDE DEF wave, a, b, c
  <2> DEFINE job == MergeJob(MergeJob(one, two), three)
             all == SingleInputState((a \o b) \o c)
  <2>3. /\ job = MergeJob(one, MergeJob(two, three))
        /\ job.ok <=> all.ok
        /\ all.ok => job = [all EXCEPT !.witnesses = job.witnesses]
    BY <2>2, RowsReadable, WavesMerge
  <2>4. merged = job /\ onePass = all
    BY <2>2
  <2> HIDE DEF one, two, three, job, all, merged, onePass
  <2>5. /\ merged = MergeJob(one, MergeJob(two, three))
        /\ merged.ok <=> onePass.ok
        /\ onePass.ok => merged = [onePass EXCEPT !.witnesses = merged.witnesses]
    BY <2>3, <2>4
  <2> QED BY <2>2, <2>5
<1> QED BY <1>1, InputInvInit, InputInvNext, PTL DEF InputSpec
=============================================================================
