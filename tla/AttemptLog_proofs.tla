-------------------------- MODULE AttemptLog_proofs --------------------------
(***************************************************************************)
(* Proofs that the attempt directory stays meaningful for every number of  *)
(* executions, shards and attempts.                                        *)
(***************************************************************************)
EXTENDS AttemptLog, FiniteSetTheorems, TLAPS

-----------------------------------------------------------------------------
(* Facts about one directory. *)

\* The initial segment 1..n has n elements.
LEMMA CardinalityOfPrefix ==
  ASSUME NEW n \in Nat
  PROVE  Cardinality(1..n) = n
<1>1. Cardinality(1..n) = IF 1 > n THEN 0 ELSE n - 1 + 1
  BY FS_Interval
<1> QED
  BY <1>1

\* Appending the next ordinal to a prefix gives the next prefix.
LEMMA AppendKeepsPrefix ==
  ASSUME NEW dir, IsPrefix(dir), NEW r, NEW new,
         new = WithRecord(dir, Count(dir) + 1, r)
  PROVE  /\ DOMAIN new = 1..(Count(dir) + 1)
         /\ Count(new) = Count(dir) + 1
         /\ IsPrefix(new)
         /\ Keeps(new, dir)
         /\ new[Count(dir) + 1] = r
<1>1. Count(dir) \in Nat /\ DOMAIN dir = 1..Count(dir)
  BY DEF IsPrefix
<1>2. DOMAIN new = 1..(Count(dir) + 1)
  BY <1>1 DEF WithRecord
<1>3. Count(new) = Count(dir) + 1
  BY <1>1, <1>2, CardinalityOfPrefix DEF Count
<1>4. Keeps(new, dir)
  BY <1>1, <1>2 DEF Keeps, WithRecord
<1>5. new[Count(dir) + 1] = r
  BY <1>1, <1>2 DEF WithRecord
<1> QED
  BY <1>1, <1>2, <1>3, <1>4, <1>5 DEF IsPrefix

\* A reader whose next ordinal is still free has read the whole directory.
LEMMA FreeOrdinalMeansCurrent ==
  ASSUME NEW dir, NEW old, IsPrefix(dir), IsPrefix(old), Keeps(dir, old),
         Count(old) + 1 \notin DOMAIN dir
  PROVE  /\ Count(dir) = Count(old)
         /\ HasSuccess(dir) <=> HasSuccess(old)
<1>1. Count(dir) = Count(old)
  BY DEF IsPrefix, Keeps
<1> QED
  BY <1>1 DEF IsPrefix, Keeps, HasSuccess

\* A directory that needs no attempt never needs one again.
LEMMA SettledStaysSettled ==
  ASSUME NEW new, NEW old, IsPrefix(new), IsPrefix(old), Keeps(new, old),
         ~NeedsAttempt(old)
  PROVE  ~NeedsAttempt(new)
<1>1. CASE HasSuccess(old)
  BY <1>1 DEF HasSuccess, Keeps, NeedsAttempt
<1>2. CASE Spent(old)
  <2>1. Count(new) >= Count(old)
    BY DEF IsPrefix, Keeps
  <2> QED
    BY <1>2, <2>1, AttemptLogAssumption DEF Spent, IsPrefix, NeedsAttempt
<1> QED
  BY <1>1, <1>2 DEF NeedsAttempt

-----------------------------------------------------------------------------
(* The inductive invariant. *)

\* No execution exists and nothing is recorded: the invariant holds.
LEMMA LogInitInv == LogInit => LogIInv
<1> SUFFICES ASSUME LogInit PROVE LogIInv
  OBVIOUS
<1> DEFINE empty == [k \in {} |-> k]
<1>1. DOMAIN empty = {} /\ Count(empty) = 0 /\ IsPrefix(empty)
  BY CardinalityOfPrefix DEF Count, IsPrefix
<1>2. /\ DOMAIN EmptyLog = Shards
      /\ \A s \in Shards : EmptyLog[s] = empty
  BY DEF EmptyLog
<1>3. IsDirectory(empty) /\ Keeps(empty, empty) /\ SuccessEnds(empty)
  BY DEF IsDirectory, Keeps, SuccessEnds
<1> HIDE DEF empty
<1>4. TypeOK
  BY <1>2, <1>3, AttemptLogAssumption
  DEF LogInit, TypeOK, Stages, Shards, EmptyLog
<1>5. LogInv
  BY <1>1, <1>2, <1>3, AttemptLogAssumption DEF LogInit, LogInv
<1>6. PriorInv
  BY <1>1, <1>2, <1>3 DEF LogInit, PriorInv
<1>7. StageInv /\ WalkInv /\ GreenMeansNothingRetryable
  BY DEF LogInit, StageInv, WalkInv, GreenMeansNothingRetryable, Shards
<1> QED
  BY <1>4, <1>5, <1>6, <1>7 DEF LogIInv

\* Storing a record at a free ordinal keeps every directory a prefix that
\* ends at its first success, and changes no record already there.
LEMMA StoreGrowsLog ==
  ASSUME LogIInv, NEW e \in Executions, pc[e] = "appending", StoreRecord(e)
  PROVE  /\ DOMAIN log' = Shards
         /\ \A s \in Shards : IsDirectory(log'[s]) /\ Keeps(log'[s], log[s])
         /\ LogInv'
         /\ outcome[e] = "succeeded" => HasSuccess(log'[cursor[e]])
<1> DEFINE c == cursor[e]
           old == log[c]
           k == NextOrdinal(e)
           r == [by |-> e, status |-> outcome[e]]
<1>1. /\ c \in Shards
      /\ NeedsAttempt(prior[e][c])
      /\ r \in Record /\ r.status = outcome[e]
  BY DEF LogIInv, StageInv, Record
<1>2. /\ IsPrefix(old) /\ SuccessEnds(old) /\ IsDirectory(old)
      /\ IsPrefix(prior[e][c]) /\ Keeps(old, prior[e][c])
  BY <1>1 DEF LogIInv, LogInv, PriorInv, TypeOK
<1>3. /\ Count(old) = Count(prior[e][c])
      /\ ~HasSuccess(old)
      /\ Count(old) < MaxAttempts
      /\ k = Count(old) + 1
  <2>1. k = Count(prior[e][c]) + 1 /\ k \notin DOMAIN old
    BY DEF StoreRecord, NextOrdinal
  <2>2. /\ Count(old) = Count(prior[e][c])
        /\ HasSuccess(old) <=> HasSuccess(prior[e][c])
    BY <1>2, <2>1, FreeOrdinalMeansCurrent
  <2> QED
    BY <1>1, <1>2, <2>1, <2>2, AttemptLogAssumption
    DEF NeedsAttempt, Spent, IsPrefix
<1>4. /\ DOMAIN log' = Shards
      /\ log'[c] = WithRecord(old, Count(old) + 1, r)
      /\ \A s \in Shards : s # c => log'[s] = log[s]
  BY <1>1, <1>3 DEF StoreRecord, LogIInv, TypeOK
<1>5. /\ DOMAIN log'[c] = 1..(Count(old) + 1)
      /\ Count(log'[c]) = Count(old) + 1
      /\ IsPrefix(log'[c])
      /\ Keeps(log'[c], old)
      /\ log'[c][Count(old) + 1] = r
  BY <1>2, <1>4, AppendKeepsPrefix
<1>6. \A i \in DOMAIN log'[c] :
         i # Count(old) + 1 => i \in DOMAIN old /\ log'[c][i] = old[i]
  BY <1>2, <1>5 DEF IsPrefix, Keeps
<1>7. SuccessEnds(log'[c])
  BY <1>2, <1>3, <1>5, <1>6 DEF SuccessEnds, HasSuccess, IsPrefix
<1>8. IsDirectory(log'[c])
  BY <1>1, <1>2, <1>5, <1>6 DEF IsDirectory, IsPrefix
<1>9. Count(log'[c]) <= MaxAttempts
  BY <1>2, <1>3, <1>5, AttemptLogAssumption DEF IsPrefix
<1>10. \A s \in Shards : IsDirectory(log'[s]) /\ Keeps(log'[s], log[s])
  BY <1>4, <1>5, <1>8 DEF LogIInv, TypeOK, Keeps
<1>11. LogInv'
  BY <1>4, <1>5, <1>7, <1>9 DEF LogIInv, LogInv
<1>12. outcome[e] = "succeeded" => HasSuccess(log'[c])
  BY <1>1, <1>2, <1>5 DEF HasSuccess, IsPrefix
<1> QED
  BY <1>4, <1>10, <1>11, <1>12

\* A worker process that ends leaves the invariant to the log alone; a
\* green conclusion has to be justified by the log.
LEMMA ExitInv ==
  ASSUME LogIInv, NEW e \in Executions, NEW conclusion \in {"succeeded", "failed"},
         Exit(e, conclusion), LogInv',
         DOMAIN log' = Shards,
         \A s \in Shards : IsDirectory(log'[s]) /\ Keeps(log'[s], log[s]),
         conclusion = "succeeded" => \A s \in Shards : ~NeedsAttempt(log'[s])
  PROVE  LogIInv'
<1> DEFINE empty == [k \in {} |-> k]
<1>1. DOMAIN empty = {} /\ Count(empty) = 0 /\ IsPrefix(empty)
  BY CardinalityOfPrefix DEF Count, IsPrefix
<1>2. /\ DOMAIN EmptyLog = Shards
      /\ \A s \in Shards : EmptyLog[s] = empty
  BY DEF EmptyLog
<1>3. IsDirectory(empty) /\ \A dir : Keeps(dir, empty)
  BY <1>1 DEF IsDirectory, Keeps
<1> HIDE DEF empty
<1>4. /\ DOMAIN prior' = Executions
      /\ prior'[e] = EmptyLog
      /\ \A x \in Executions : x # e => prior'[x] = prior[x]
  BY DEF Exit, LogIInv, TypeOK
<1>5. TypeOK'
  <2>1. \A x \in Executions : /\ DOMAIN prior'[x] = Shards
                              /\ \A s \in Shards : IsDirectory(prior'[x][s])
    BY <1>2, <1>3, <1>4 DEF LogIInv, TypeOK
  <2>2. 1 \in 1..(NumShards + 1)
    BY AttemptLogAssumption
  <2> QED
    BY <1>4, <2>1, <2>2 DEF LogIInv, TypeOK, Exit, Stages
<1>6. PriorInv'
  <2> SUFFICES ASSUME NEW x \in Executions, NEW s \in Shards
               PROVE  IsPrefix(prior'[x][s]) /\ Keeps(log'[s], prior'[x][s])
    BY DEF PriorInv
  <2>1. CASE x = e
    BY <1>1, <1>2, <1>3, <1>4, <2>1
  <2>2. CASE x # e
    BY <1>4, <2>2 DEF LogIInv, PriorInv, Keeps
  <2> QED
    BY <2>1, <2>2
<1>7. \A x \in Executions \ {e} :
         /\ pc'[x] = pc[x] /\ cursor'[x] = cursor[x]
         /\ failed'[x] = failed[x] /\ outcome'[x] = outcome[x]
  BY DEF Exit, LogIInv, TypeOK
<1>8. pc'[e] = conclusion
  BY DEF Exit, LogIInv, TypeOK
<1>9. \A s \in Shards : ~NeedsAttempt(log[s]) => ~NeedsAttempt(log'[s])
  BY SettledStaysSettled DEF LogIInv, LogInv
<1>10. StageInv'
  BY <1>4, <1>7, <1>8 DEF LogIInv, StageInv
<1>11. WalkInv'
  <2>1. cursor'[e] = 1
    BY DEF Exit, LogIInv, TypeOK
  <2> QED
    BY <1>7, <1>9, <2>1 DEF LogIInv, WalkInv, Shards
<1>12. GreenMeansNothingRetryable'
  BY <1>7, <1>8, <1>9 DEF LogIInv, GreenMeansNothingRetryable
<1> QED
  BY <1>5, <1>6, <1>10, <1>11, <1>12 DEF LogIInv

\* Every step of an execution keeps the invariant: one case per action.
LEMMA LogNextInv == LogIInv /\ [LogNext]_logVars => LogIInv'
<1> SUFFICES ASSUME LogIInv, [LogNext]_logVars
             PROVE  LogIInv'
  OBVIOUS
<1> USE DEF LogIInv
<1>1. ASSUME NEW e \in Executions, Accept(e)
      PROVE  LogIInv'
  <2>1. /\ pc' = [pc EXCEPT ![e] = "queued"]
        /\ UNCHANGED <<log, prior, cursor, outcome, failed>>
    BY <1>1 DEF Accept
  <2>2. TypeOK'
    BY <2>1 DEF TypeOK, Stages
  <2>3. LogInv' /\ PriorInv'
    BY <2>1 DEF LogInv, PriorInv
  <2>4. StageInv' /\ WalkInv' /\ GreenMeansNothingRetryable'
    BY <2>1 DEF TypeOK, StageInv, WalkInv, GreenMeansNothingRetryable
  <2> QED
    BY <2>2, <2>3, <2>4
<1>2. ASSUME NEW e \in Executions, ReadPrior(e)
      PROVE  LogIInv'
  <2>1. /\ pc[e] = "queued"
        /\ pc' = [pc EXCEPT ![e] = "running"]
        /\ prior' = [prior EXCEPT ![e] = log]
        /\ UNCHANGED <<log, cursor, outcome, failed>>
    BY <1>2 DEF ReadPrior
  <2>2. TypeOK'
    BY <2>1 DEF TypeOK, Stages
  <2>3. LogInv'
    BY <2>1 DEF LogInv
  <2>4. PriorInv'
    BY <2>1 DEF PriorInv, LogInv, TypeOK, Keeps
  <2>5. StageInv' /\ GreenMeansNothingRetryable'
    BY <2>1 DEF TypeOK, StageInv, GreenMeansNothingRetryable
  <2>6. WalkInv'
    BY <2>1 DEF TypeOK, WalkInv, Shards
  <2> QED
    BY <2>2, <2>3, <2>4, <2>5, <2>6
<1>3. ASSUME NEW e \in Executions, SkipShard(e)
      PROVE  LogIInv'
  <2>1. /\ pc[e] = "running"
        /\ cursor[e] \in Shards
        /\ ~NeedsAttempt(prior[e][cursor[e]])
        /\ cursor' = [cursor EXCEPT ![e] = @ + 1]
        /\ UNCHANGED <<log, pc, prior, outcome, failed>>
    BY <1>3 DEF SkipShard
  <2>2. TypeOK'
    BY <2>1, AttemptLogAssumption DEF TypeOK, Shards
  <2>3. LogInv' /\ PriorInv' /\ GreenMeansNothingRetryable'
    BY <2>1 DEF LogInv, PriorInv, GreenMeansNothingRetryable
  <2>4. StageInv'
    BY <2>1 DEF TypeOK, StageInv
  <2>5. ~NeedsAttempt(log[cursor[e]])
    BY <2>1, SettledStaysSettled DEF LogInv, PriorInv
  <2>6. WalkInv'
    BY <2>1, <2>5, AttemptLogAssumption DEF TypeOK, WalkInv, Shards
  <2> QED
    BY <2>2, <2>3, <2>4, <2>6
<1>4. ASSUME NEW e \in Executions, RunShard(e)
      PROVE  LogIInv'
  <2>1. PICK result \in Status : outcome' = [outcome EXCEPT ![e] = result]
    BY <1>4 DEF RunShard
  <2>2. /\ pc[e] = "running"
        /\ cursor[e] \in Shards
        /\ NeedsAttempt(prior[e][cursor[e]])
        /\ pc' = [pc EXCEPT ![e] = "appending"]
        /\ UNCHANGED <<log, prior, cursor, failed>>
    BY <1>4 DEF RunShard
  <2>3. TypeOK'
    BY <2>1, <2>2 DEF TypeOK, Stages
  <2>4. LogInv' /\ PriorInv'
    BY <2>2 DEF LogInv, PriorInv
  <2>5. StageInv'
    BY <2>1, <2>2 DEF TypeOK, StageInv
  <2>6. WalkInv' /\ GreenMeansNothingRetryable'
    BY <2>2 DEF TypeOK, WalkInv, GreenMeansNothingRetryable
  <2> QED
    BY <2>3, <2>4, <2>5, <2>6
<1>5. ASSUME NEW e \in Executions, AppendStored(e)
      PROVE  LogIInv'
  <2>1. /\ pc[e] = "appending"
        /\ StoreRecord(e)
        /\ pc' = [pc EXCEPT ![e] = "running"]
        /\ cursor' = [cursor EXCEPT ![e] = @ + 1]
        /\ failed' = [failed EXCEPT ![e] = @ \/ outcome[e] = "failed"]
        /\ outcome' = [outcome EXCEPT ![e] = "none"]
        /\ UNCHANGED prior
    BY <1>5 DEF AppendStored
  <2>2. /\ DOMAIN log' = Shards
        /\ \A s \in Shards : IsDirectory(log'[s]) /\ Keeps(log'[s], log[s])
        /\ LogInv'
        /\ outcome[e] = "succeeded" => HasSuccess(log'[cursor[e]])
    BY <2>1, StoreGrowsLog
  <2>3. cursor[e] \in Shards /\ outcome[e] \in Status
    BY <2>1 DEF StageInv
  <2>4. TypeOK'
    BY <2>1, <2>2, <2>3, AttemptLogAssumption DEF TypeOK, Stages, Shards
  <2>5. PriorInv'
    BY <2>1, <2>2 DEF PriorInv, Keeps
  <2>6. StageInv'
    BY <2>1 DEF TypeOK, StageInv
  <2>7. \A s \in Shards : ~NeedsAttempt(log[s]) => ~NeedsAttempt(log'[s])
    BY <2>2, SettledStaysSettled DEF LogInv
  <2>8. GreenMeansNothingRetryable'
    BY <2>1, <2>7 DEF TypeOK, GreenMeansNothingRetryable
  <2>9. ~failed'[e] => outcome[e] = "succeeded" /\ ~failed[e]
    BY <2>1, <2>3 DEF TypeOK, Status
  <2>10. ~failed'[e] => ~NeedsAttempt(log'[cursor[e]])
    BY <2>2, <2>9 DEF NeedsAttempt
  <2>11. WalkInv'
    <3> SUFFICES ASSUME NEW x \in Executions, NEW s \in Shards,
                        ~failed'[x], s < cursor'[x]
                 PROVE  ~NeedsAttempt(log'[s])
      BY DEF WalkInv
    <3>1. CASE x # e
      BY <2>1, <2>7, <3>1 DEF TypeOK, WalkInv
    <3>2. CASE x = e
      <4>1. s < cursor[e] \/ s = cursor[e]
        BY <2>1, <2>3, <3>2 DEF TypeOK, Shards
      <4> QED
        BY <2>1, <2>7, <2>9, <2>10, <3>2, <4>1 DEF WalkInv
    <3> QED
      BY <3>1, <3>2
  <2> QED
    BY <2>2, <2>4, <2>5, <2>6, <2>8, <2>11
<1>6. ASSUME NEW e \in Executions, AppendAnswerLost(e)
      PROVE  LogIInv'
  BY <1>6, StoreGrowsLog, ExitInv DEF AppendAnswerLost
<1>7. ASSUME NEW e \in Executions, UNCHANGED log,
             NEW conclusion \in {"succeeded", "failed"}, Exit(e, conclusion),
             conclusion = "succeeded" => \A s \in Shards : ~NeedsAttempt(log[s])
      PROVE  LogIInv'
  BY <1>7, ExitInv DEF TypeOK, LogInv, Keeps
<1>8. ASSUME NEW e \in Executions, AppendConflict(e) \/ Abort(e)
      PROVE  LogIInv'
  BY <1>7, <1>8 DEF AppendConflict, Abort
<1>9. ASSUME NEW e \in Executions, Conclude(e)
      PROVE  LogIInv'
  <2>1. ~failed[e] => \A s \in Shards : ~NeedsAttempt(log[s])
    BY <1>9, AttemptLogAssumption DEF Conclude, WalkInv, Shards
  <2> QED
    BY <1>7, <1>9, <2>1 DEF Conclude
<1>10. CASE UNCHANGED logVars
  BY <1>10 DEF logVars, TypeOK, LogInv, PriorInv, StageInv, WalkInv,
               GreenMeansNothingRetryable
<1> QED
  BY <1>1, <1>2, <1>3, <1>4, <1>5, <1>6, <1>8, <1>9, <1>10
  DEF LogNext, RunnerStep

-----------------------------------------------------------------------------
(* The theorems. *)

\* LogIInv holds in every reachable state: the attempt directory, what the
\* executions remember of it and their progress stay consistent.
THEOREM LogInvariant == LogSpec => []LogIInv
  BY LogInitInv, LogNextInv, PTL DEF LogSpec

\* Type correctness of the attempt directory and of every execution.
THEOREM LogTypeCorrect == LogSpec => []TypeOK
  BY LogInvariant, PTL DEF LogIInv

\* No gap and no overwrite in the attempt ids (execute_wave.py's ordinal).
THEOREM OrdinalsArePrefixTheorem == LogSpec => []OrdinalsArePrefix
<1>1. LogIInv => OrdinalsArePrefix
  BY DEF LogIInv, LogInv, IsPrefix, OrdinalsArePrefix
<1> QED
  BY <1>1, LogInvariant, PTL

\* completeness() never finds a duplicate success, for any number of
\* overlapping executions.
THEOREM AtMostOneSuccessTheorem == LogSpec => []AtMostOneSuccess
<1>1. LogIInv => AtMostOneSuccess
  BY DEF LogIInv, LogInv, IsPrefix, SuccessEnds, AtMostOneSuccess
<1> QED
  BY <1>1, LogInvariant, PTL

\* max_attempts_per_shard bounds the records of a shard over all executions.
THEOREM AttemptBudgetTheorem == LogSpec => []AttemptBudget
<1>1. LogIInv => AttemptBudget
  BY DEF LogIInv, LogInv, AttemptBudget
<1> QED
  BY <1>1, LogInvariant, PTL

\* A workflow that ended green leaves no shard that retryable_shards would
\* still return.
THEOREM GreenTheorem == LogSpec => []GreenMeansNothingRetryable
  BY LogInvariant, PTL DEF LogIInv

\* No step changes or removes an attempt record.
THEOREM RecordsAreImmutableTheorem == LogSpec => RecordsAreImmutable
<1> DEFINE A == \A s \in Shards : \A k \in DOMAIN log[s] :
                  k \in DOMAIN log'[s] /\ log'[s][k] = log[s][k]
<1>1. LogIInv /\ [LogNext]_logVars => [A]_logVars
  <2> SUFFICES ASSUME LogIInv, LogNext PROVE A
    OBVIOUS
  <2>1. ASSUME NEW e \in Executions, pc[e] = "appending", StoreRecord(e)
        PROVE  A
    BY <2>1, StoreGrowsLog DEF Keeps
  <2>2. CASE UNCHANGED log
    BY <2>2
  <2> QED
    BY <2>1, <2>2 DEF LogNext, RunnerStep, Accept, ReadPrior, SkipShard,
       RunShard, AppendStored, AppendAnswerLost, AppendConflict, Conclude, Abort
<1> QED
  BY <1>1, LogInvariant, PTL DEF LogSpec, RecordsAreImmutable
=============================================================================
