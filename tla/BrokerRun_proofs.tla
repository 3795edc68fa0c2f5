--------------------------- MODULE BrokerRun_proofs ---------------------------
(* What the broker's durable files promise, for any number of executions,    *)
(* attempts and disturbances.                                                *)
EXTENDS BrokerRun, AttemptLog_proofs

Directory == UNION {[D -> Record] : D \in SUBSET (Nat \ {0})}

FileRecord == [status : {"none", "active", "succeeded", "exhausted"},
               exec : Executions \cup {NoExecution},
               dispatches : Nat, lastFailures : Nat,
               marker : SUBSET Directory]

\* The values the argument needs to know of.
BrokerTypes ==
  /\ attempts \in Directory
  /\ at \in Points
  /\ snapshot \in Directory
  /\ pending \in Executions \cup {NoExecution}
  /\ reply \in {"none", "failed", "succeeded", "exhausted"}
  /\ refresh \in [base : Nat, seen : Directory]
  /\ oper \in [at : {"away", "read", "publish"}, base : Nat, seen : Directory]
  /\ file \in FileRecord
  /\ job \in BOOLEAN /\ wave \in BOOLEAN
  /\ revisions \in Seq(Directory)
  /\ latest \in Nat
  /\ history \in Seq(Executions)
  /\ faults \in 0..MaxFaults

Working == {"poll", "reconcile", "refresh", "writeLatest", "mark", "decide",
            "status", "submit", "record"}
Registering == {"register", "registerWave", "registerRevision",
                "registerLatest", "create", "recover"}

\* What the state file knows of the dispatch history at each step of a handler.
HistoryInv ==
  /\ RecordedDispatchBudget
  /\ StateFollowsHistory
  /\ RecordedExecutionsDoNotOverlap
  /\ at \in {"sync", "status", "submit", "record", "saveDispatch"} => file.status = "active"
  /\ at \in Working /\ file.status = "active" => file.dispatches = Len(history)
  /\ at \in {"record", "saveDispatch"} => pending \in Executions
  /\ at = "saveDispatch" =>
       Len(history) = file.dispatches + 1 /\ history[Len(history)] = pending
  /\ at \in {"submit", "record"} =>
       /\ Len(history) < MaxAttempts
       /\ \A i \in 1..Len(history) : Concluded(history[i])

\* Whatever was read of the attempts is an older directory, and whoever has
\* read revision "base" of the manifest read the attempts after it was written.
ReadInv ==
  /\ Keeps(attempts, snapshot)
  /\ Keeps(attempts, refresh.seen)
  /\ Keeps(attempts, oper.seen)
  /\ \A i \in 1..Len(revisions) : Keeps(attempts, revisions[i])
  /\ \A i \in 1..Len(revisions) : i <= refresh.base => Keeps(refresh.seen, revisions[i])
  /\ \A i \in 1..Len(revisions) : i <= oper.base => Keeps(oper.seen, revisions[i])
  /\ ManifestNeverForgets
  /\ ~job => revisions = <<>>
  /\ at \in {"registerWave", "registerRevision"} => job /\ revisions = <<>>

\* The published manifest holds whatever a handler goes on to decide with.
ManifestInv ==
  /\ latest <= Len(revisions)
  /\ refresh.base <= latest /\ oper.base <= latest
  /\ at \in {"refresh", "writeLatest", "mark"} => latest > 0
  /\ oper.at # "away" => latest > 0
  /\ at \in Registering => file.status = "none"
  /\ at \notin Registering \cup {"idle"} => file.status # "none"
  /\ file.status = "none" => file.marker = {}
  /\ Cardinality(file.marker) <= 1
  /\ \A d \in file.marker : latest = 0 \/ Keeps(revisions[latest], d)
  /\ at = "refresh" => Keeps(refresh.seen, snapshot)
  /\ at = "writeLatest" => Keeps(revisions[Len(revisions)], snapshot)
  /\ at \in {"mark", "decide"} => latest = 0 \/ Keeps(revisions[latest], snapshot)
  /\ SucceededIsReconciled

BrokerIInv ==
  /\ LogIInv
  /\ BrokerTypes
  /\ HistoryInv
  /\ ReadInv
  /\ ManifestInv
  /\ ExhaustedMeansBudgetUsed

-----------------------------------------------------------------------------
(* Directories that keep others. *)

\* A directory keeps its own records,
LEMMA KeepsSelf == \A d : Keeps(d, d)
  BY DEF Keeps

\* and those of one without any;
LEMMA KeepsNothing == \A d : Keeps(d, NoAttempts)
  BY DEF Keeps, NoAttempts

\* what keeps a directory keeps what that one keeps.
LEMMA KeepsTransitive ==
  \A a, b, c : Keeps(a, b) /\ Keeps(b, c) => Keeps(a, c)
  BY DEF Keeps

\* A success that was read is a success still.
LEMMA KeepsSuccess ==
  ASSUME NEW new, NEW old, Keeps(new, old), HasSuccess(old)
  PROVE  HasSuccess(new)
  BY DEF Keeps, HasSuccess

\* One success is a success.
LEMMA CanonicalHasSuccess ==
  ASSUME NEW dir, Canonical(dir) PROVE HasSuccess(dir)
<1> DEFINE S == {k \in DOMAIN dir : dir[k].status = "succeeded"}
<1>1. Cardinality(S) = 1
  BY DEF Canonical
<1>2. S # {}
  BY <1>1, FS_EmptySet
<1> QED
  BY <1>2 DEF HasSuccess

\* No attempt is a directory.
LEMMA NothingIsDirectory == NoAttempts \in Directory
<1>1. NoAttempts \in [{} -> Record]
  BY DEF NoAttempts
<1>2. {} \in SUBSET (Nat \ {0})
  OBVIOUS
<1> QED
  BY <1>1, <1>2 DEF Directory

\* The attempt directory is a directory.
LEMMA DirectoryIsDirectory ==
  ASSUME NEW dir \in Directory PROVE IsDirectory(dir)
<1>1. PICK D \in SUBSET (Nat \ {0}) : dir \in [D -> Record]
  BY DEF Directory
<1> QED
  BY <1>1 DEF IsDirectory

\* The attempts of the run's one shard only grow.
LEMMA LogGrows ==
  ASSUME LogIInv, LogIInv', [LogNext]_logVars, attempts \in Directory
  PROVE  Keeps(attempts', attempts) /\ attempts' \in Directory
<1>1. 1 \in Shards
  BY BrokerRunAssumption DEF Shards
<1>2. ASSUME UNCHANGED log
      PROVE  Keeps(attempts', attempts) /\ attempts' \in Directory
  BY <1>2, KeepsSelf DEF attempts
<1>3. ASSUME NEW e \in Executions, pc[e] = "appending", StoreRecord(e)
      PROVE  Keeps(attempts', attempts) /\ attempts' \in Directory
  <2>1. Keeps(log'[1], log[1]) /\ IsDirectory(log'[1])
    BY <1>1, <1>3, StoreGrowsLog
  <2>2. \/ log'[1] = log[1]
        \/ \E k, r : log'[1] = WithRecord(log[1], k, r)
    BY <1>1, <1>3 DEF StoreRecord, LogIInv, TypeOK
  <2>3. ASSUME NEW k, NEW r, log'[1] = WithRecord(log[1], k, r)
        PROVE  log'[1] \in Directory
    <3>1. log'[1] \in [DOMAIN log'[1] -> Record]
      BY <2>1, <2>3 DEF IsDirectory, WithRecord
    <3>2. DOMAIN log'[1] \in SUBSET (Nat \ {0})
      BY <2>1 DEF IsDirectory
    <3> QED
      BY <3>1, <3>2 DEF Directory
  <2> QED
    BY <2>1, <2>2, <2>3 DEF attempts
<1> QED
  BY <1>2, <1>3 DEF LogNext, RunnerStep, Accept, ReadPrior, SkipShard, RunShard,
     AppendStored, AppendAnswerLost, AppendConflict, Conclude, Abort, logVars

\* An execution that has ended stays ended.
LEMMA ConcludedStays ==
  ASSUME LogIInv, [LogNext]_logVars, NEW e \in Executions, Concluded(e)
  PROVE  Concluded(e)'
<1> USE DEF LogIInv, TypeOK, Concluded
<1>1. ASSUME NEW f \in Executions, Accept(f) PROVE Concluded(e)'
  BY <1>1 DEF Accept
<1>2. ASSUME NEW f \in Executions, RunnerStep(f) PROVE Concluded(e)'
  BY <1>2 DEF RunnerStep, ReadPrior, SkipShard, RunShard, AppendStored,
              AppendAnswerLost, AppendConflict, Conclude, Abort, Exit
<1>3. CASE UNCHANGED logVars
  BY <1>3 DEF logVars
<1> QED
  BY <1>1, <1>2, <1>3 DEF LogNext

\* What was read from a finite directory is finite, and failures only add up.
LEMMA FailuresGrow ==
  ASSUME NEW new, NEW old, IsFiniteSet(DOMAIN new), Keeps(new, old)
  PROVE  /\ IsFiniteSet(DOMAIN old)
         /\ Failures(old) \in Nat /\ Failures(new) \in Nat
         /\ Failures(old) <= Failures(new)
<1> DEFINE F(dir) == {k \in DOMAIN dir : dir[k].status = "failed"}
<1>1. DOMAIN old \subseteq DOMAIN new /\ F(old) \subseteq F(new)
  BY DEF Keeps
<1>2. IsFiniteSet(DOMAIN old)
  BY <1>1, FS_Subset
<1>3. F(new) \subseteq DOMAIN new
  OBVIOUS
<1>4. IsFiniteSet(F(new)) /\ IsFiniteSet(F(old))
  BY <1>1, <1>3, FS_Subset
<1>5. Cardinality(F(old)) \in Nat /\ Cardinality(F(new)) \in Nat
  BY <1>4, FS_CardinalityType
<1>6. Cardinality(F(old)) <= Cardinality(F(new))
  BY <1>1, <1>4, FS_Subset
<1> QED
  BY <1>2, <1>5, <1>6 DEF Failures

\* A directory whose budget is used up without a success holds only failures.
LEMMA UsedUpMeansFailures ==
  ASSUME NEW dir \in Directory, UsedUp(dir)
  PROVE  Failures(dir) >= MaxAttempts
<1>1. CASE Spent(dir) /\ ~HasSuccess(dir)
  <2>1. PICK D \in SUBSET (Nat \ {0}) : dir \in [D -> Record]
    BY DEF Directory
  <2>2. {k \in DOMAIN dir : dir[k].status = "failed"} = DOMAIN dir
    BY <1>1, <2>1 DEF HasSuccess, Record, Status
  <2> QED
    BY <1>1, <2>2 DEF Spent, Count, Failures
<1> QED
  BY <1>1 DEF UsedUp

\* It has finitely many attempts.
LEMMA AttemptsAreFinite ==
  ASSUME LogIInv PROVE IsFiniteSet(DOMAIN attempts)
<1>1. 1 \in Shards
  BY BrokerRunAssumption DEF Shards
<1>2. Count(attempts) \in Nat /\ DOMAIN attempts = 1..Count(attempts)
  BY <1>1 DEF LogIInv, LogInv, IsPrefix, attempts
<1> QED
  BY <1>2, FS_Interval

-----------------------------------------------------------------------------
(* The state file catches up with the dispatch history. *)

\* A synced snapshot has caught up with it.
LEMMA SyncedCatchesUp ==
  ASSUME LogIInv, NEW state \in FileRecord, history \in Seq(Executions),
         state.dispatches <= Len(history),
         state.exec = IF state.dispatches = 0 THEN NoExecution
                      ELSE history[state.dispatches]
  PROVE  /\ Synced(state) \in FileRecord
         /\ Synced(state).status = state.status
         /\ Synced(state).marker = state.marker
         /\ Synced(state).dispatches = Len(history)
         /\ Synced(state).exec = IF Len(history) = 0 THEN NoExecution
                                 ELSE history[Len(history)]
<1>1. Failures(attempts) \in Nat
  BY AttemptsAreFinite, FailuresGrow, KeepsSelf
<1> DEFINE n == Len(history)
           known == IF Failures(attempts) < n THEN Failures(attempts) ELSE n
           last == IF known > state.lastFailures THEN known ELSE state.lastFailures
<1>2. n \in Nat /\ known \in Nat /\ last \in Nat
  BY <1>1 DEF FileRecord
<1>3. CASE n <= state.dispatches
  <2>1. Synced(state) = state
    BY <1>3 DEF Synced
  <2> QED
    BY <1>2, <1>3, <2>1 DEF FileRecord
<1>4. CASE ~(n <= state.dispatches)
  <2>1. Synced(state) = [state EXCEPT !.dispatches = n, !.exec = history[n],
                                      !.lastFailures = last]
    BY <1>4 DEF Synced
  <2>2. n > 0 /\ history[n] \in Executions
    BY <1>2, <1>4 DEF FileRecord
  <2> HIDE DEF last
  <2>3. Synced(state) = [status |-> state.status, exec |-> history[n],
                         dispatches |-> n, lastFailures |-> last,
                         marker |-> state.marker]
    BY <2>1 DEF FileRecord
  <2> QED
    BY <1>2, <2>2, <2>3 DEF FileRecord
<1> QED
  BY <1>3, <1>4

-----------------------------------------------------------------------------
\* Whatever the broker does, the attempts are changed by executions only.
LEMMA LogSide == [Next]_vars => [LogNext]_logVars
<1> SUFFICES ASSUME [Next]_vars PROVE [LogNext]_logVars
  OBVIOUS
<1>1. CASE HandlerStep
  BY <1>1 DEF HandlerStep, SubmitAccepted, LogNext
<1>2. CASE FaultStep
  BY <1>2 DEF FaultStep, SubmitAnswerLost, LogNext
<1>3. CASE OperatorStep /\ UNCHANGED logVars
  BY <1>3
<1>4. ASSUME NEW e \in Executions, ExecutionStep(e) PROVE [LogNext]_logVars
  BY <1>4 DEF ExecutionStep, LogNext
<1>5. CASE UNCHANGED vars
  BY <1>5 DEF vars
<1> QED
  BY <1>1, <1>2, <1>3, <1>4, <1>5 DEF Next

\* Saving a field of the state file gives a state file.
LEMMA FileUpdates ==
  ASSUME NEW f \in FileRecord, NEW e \in Executions \cup {NoExecution},
         NEW n \in Nat, NEW m \in Nat, NEW dir \in Directory
  PROVE  /\ \A word \in {"succeeded", "exhausted"} :
              [f EXCEPT !.status = word] \in FileRecord
         /\ [f EXCEPT !.marker = {dir}] \in FileRecord
         /\ [f EXCEPT !.dispatches = m, !.exec = e, !.lastFailures = n]
              \in FileRecord
<1>1. \A word \in {"succeeded", "exhausted"} :
        [f EXCEPT !.status = word] =
          [status |-> word, exec |-> f.exec, dispatches |-> f.dispatches,
           lastFailures |-> f.lastFailures, marker |-> f.marker]
  BY DEF FileRecord
<1>2. [f EXCEPT !.marker = {dir}] =
        [status |-> f.status, exec |-> f.exec, dispatches |-> f.dispatches,
         lastFailures |-> f.lastFailures, marker |-> {dir}]
  BY DEF FileRecord
<1>3. ASSUME NEW g, g = [f EXCEPT !.dispatches = m, !.exec = e, !.lastFailures = n]
      PROVE  g = [status |-> f.status, exec |-> e, dispatches |-> m,
                  lastFailures |-> n, marker |-> f.marker]
  BY <1>3 DEF FileRecord
<1> QED
  BY <1>1, <1>2, <1>3 DEF FileRecord

\* Every step keeps the types.
LEMMA TypesStep ==
  ASSUME BrokerIInv, LogIInv', [Next]_vars
  PROVE  BrokerTypes'
<1>1. attempts' \in Directory
  BY LogSide, LogGrows DEF BrokerIInv, BrokerTypes
<1>2. /\ NoAttempts \in Directory
      /\ NoRefresh \in [base : Nat, seen : Directory]
      /\ NoReconcile \in [at : {"away", "read", "publish"}, base : Nat, seen : Directory]
  BY NothingIsDirectory DEF NoRefresh, NoReconcile
<1>3. Failures(snapshot) \in Nat
  BY AttemptsAreFinite, FailuresGrow DEF BrokerIInv, ReadInv
<1>R. /\ Len(revisions) \in Nat
      /\ \A d \in Directory : Append(revisions, d) \in Seq(Directory)
  BY DEF BrokerIInv, BrokerTypes
<1>S. /\ \A word \in {"succeeded", "exhausted"} :
           [file EXCEPT !.status = word] \in FileRecord
      /\ [file EXCEPT !.marker = {snapshot}] \in FileRecord
      /\ [file EXCEPT !.dispatches = file.dispatches + 1, !.exec = pending,
                      !.lastFailures = Failures(snapshot)] \in FileRecord
  <2>1. file \in FileRecord /\ file.dispatches + 1 \in Nat
    BY DEF BrokerIInv, BrokerTypes, FileRecord
  <2> QED
    BY <1>3, <2>1, FileUpdates DEF BrokerIInv, BrokerTypes
<1>O. [oper EXCEPT !.at = "publish"]
        \in [at : {"away", "read", "publish"}, base : Nat, seen : Directory]
  BY DEF BrokerIInv, BrokerTypes
<1> USE BrokerRunAssumption DEF BrokerTypes, Points, End, Goto, fileVars, handlerVars
<1> SUFFICES ASSUME BrokerTypes PROVE BrokerTypes'
  BY DEF BrokerIInv
<1>4. ASSUME BrokerOnlyStep, UNCHANGED oper PROVE BrokerTypes'
  <2>1. CASE ReceiveNew \/ ReceiveRegistered \/ ReceiveActive \/ ReceiveSucceeded
             \/ ReceiveExhausted
    BY <1>1, <1>2, <1>4, <2>1 DEF ReceiveNew, ReceiveRegistered, ReceiveActive,
       ReceiveSucceeded, ReceiveExhausted, Receive
  <2>2. CASE RegisterRefused \/ SkipReconcile \/ DecideStatus \/ StatusWait
             \/ StatusDispatch \/ AnswerFromState \/ RevisionConflict
    BY <1>1, <1>2, <1>4, <2>2 DEF RegisterRefused, SkipReconcile, DecideStatus, StatusWait,
       StatusDispatch, AnswerFromState, RevisionConflict
  <2>3. CASE RegisterJob \/ RegisterWave \/ RegisterRevision \/ RegisterLatest
    BY <1>1, <1>2, <1>R, <1>4, <2>3 DEF RegisterJob, RegisterWave, RegisterRevision,
       RegisterLatest
  <2>4. CASE CreateState
    BY <1>1, <1>2, <1>4, <2>4 DEF CreateState, ActiveFile, NoFile, FileRecord
  <2>5. CASE RecoverState
    <3>1. ActiveFile \in FileRecord /\ ActiveFile.dispatches = 0
          /\ ActiveFile.exec = NoExecution
      BY DEF ActiveFile, NoFile, FileRecord
    <3>2. Synced(ActiveFile) \in FileRecord
      BY <3>1, SyncedCatchesUp DEF BrokerIInv
    <3> QED
      BY <1>1, <1>4, <2>5, <3>2 DEF RecoverState
  <2>6. CASE SyncDispatches
    <3>1. Synced(file) \in FileRecord
      BY SyncedCatchesUp DEF BrokerIInv, HistoryInv, StateFollowsHistory
    <3> QED
      BY <1>1, <1>4, <2>6, <3>1 DEF SyncDispatches
  <2>7. CASE ReadAttempts \/ ReadManifest \/ WriteRevision \/ WriteLatest
    <3>1. CASE ReadAttempts
      BY <1>1, <1>4, <3>1 DEF ReadAttempts
    <3>2. CASE ReadManifest
      BY <1>1, <1>4, <3>2 DEF ReadManifest
    <3>3. CASE WriteRevision
      BY <1>1, <1>2, <1>R, <1>4, <3>3 DEF WriteRevision
    <3>4. CASE WriteLatest
      BY <1>1, <1>R, <1>4, <3>4 DEF WriteLatest
    <3> QED
      BY <2>7, <3>1, <3>2, <3>3, <3>4
  <2>8. CASE SaveMarker \/ DecideExhausted \/ DecideSucceeded \/ StatusExhausted
    BY <1>1, <1>2, <1>S, <1>4, <2>8 DEF SaveMarker, DecideExhausted, DecideSucceeded,
       StatusExhausted, SaveExhausted
  <2>9. CASE RecordDispatch
    <3>1. pending \in Executions
      BY <2>9 DEF RecordDispatch, BrokerIInv, HistoryInv
    <3> QED
      BY <1>1, <1>4, <2>9, <3>1 DEF RecordDispatch
  <2>10. CASE SaveDispatch
    BY <1>1, <1>2, <1>S, <1>4, <2>10 DEF SaveDispatch
  <2> QED
    BY <1>4, <2>1, <2>2, <2>3, <2>4, <2>5, <2>6, <2>7, <2>8, <2>9, <2>10
       DEF BrokerOnlyStep
<1>5. ASSUME NEW e \in Executions, SubmitAccepted(e) \/ SubmitAnswerLost(e)
      PROVE  BrokerTypes'
  BY <1>1, <1>2, <1>5 DEF SubmitAccepted, SubmitAnswerLost, Fault
<1>6. CASE (CallFails \/ Crash) /\ UNCHANGED oper
  BY <1>1, <1>2, <1>6 DEF CallFails, Crash, Fault
<1>7. CASE OperatorStep
  <2>1. CASE OperatorReads
    BY <1>1, <2>1 DEF OperatorReads, Fault
  <2>2. CASE OperatorWrites
    BY <1>1, <1>R, <1>O, <2>2 DEF OperatorWrites
  <2>3. CASE OperatorPublishes
    BY <1>1, <1>2, <1>R, <2>3 DEF OperatorPublishes
  <2>4. CASE OperatorGivesUp \/ OperatorDies
    BY <1>1, <1>2, <2>4 DEF OperatorGivesUp, OperatorDies, Fault
  <2> QED
    BY <1>7, <2>1, <2>2, <2>3, <2>4 DEF OperatorStep, OperatorEnds
<1>8. CASE UNCHANGED brokerVars
  BY <1>1, <1>8 DEF brokerVars
<1> QED
  BY <1>4, <1>5, <1>6, <1>7, <1>8 DEF Next, HandlerStep, FaultStep, ExecutionStep, vars

\* Every step of one of the two writers of the manifest leaves what it and
\* the other have read older than the attempts, and revisions only add.
LEMMA ReadStep ==
  ASSUME BrokerIInv, LogIInv', [Next]_vars
  PROVE  ReadInv'
<1>1. Keeps(attempts', attempts)
  BY LogSide, LogGrows DEF BrokerIInv, BrokerTypes
<1> DEFINE current == [base |-> latest, seen |-> attempts]
<1>2. ASSUME UNCHANGED revisions,
             ~job' => revisions = <<>>,
             at' \in {"registerWave", "registerRevision"} => job' /\ revisions = <<>>,
             snapshot' \in {snapshot, NoAttempts, attempts},
             refresh' \in {refresh, NoRefresh, current},
             \/ oper'.seen = oper.seen /\ oper'.base = oper.base
             \/ oper'.seen = NoAttempts /\ oper'.base = 0
             \/ oper'.seen = attempts
      PROVE  ReadInv'
  <2>1. Keeps(attempts', snapshot')
    BY <1>1, <1>2, KeepsSelf, KeepsNothing, KeepsTransitive DEF BrokerIInv, ReadInv
  <2>2. /\ Keeps(attempts', refresh'.seen)
        /\ \A i \in 1..Len(revisions) :
             i <= refresh'.base => Keeps(refresh'.seen, revisions[i])
    BY <1>1, <1>2, KeepsSelf, KeepsNothing, KeepsTransitive
       DEF BrokerIInv, ReadInv, NoRefresh
  <2>3. /\ Keeps(attempts', oper'.seen)
        /\ \A i \in 1..Len(revisions) :
             i <= oper'.base => Keeps(oper'.seen, revisions[i])
    BY <1>1, <1>2, KeepsSelf, KeepsNothing, KeepsTransitive DEF BrokerIInv, ReadInv
  <2>4. /\ \A i \in 1..Len(revisions) : Keeps(attempts', revisions[i])
        /\ ManifestNeverForgets'
    BY <1>1, <1>2, KeepsTransitive DEF BrokerIInv, ReadInv, ManifestNeverForgets
  <2> QED
    BY <1>2, <2>1, <2>2, <2>3, <2>4 DEF ReadInv
<1>3. ASSUME NEW new \in Directory, revisions' = Append(revisions, new),
             Keeps(attempts, new),
             \A i \in 1..Len(revisions) : Keeps(new, revisions[i]),
             job', at' \notin {"registerWave", "registerRevision"},
             UNCHANGED snapshot, refresh' \in {refresh, NoRefresh},
             oper'.seen = oper.seen, oper'.base = oper.base,
             refresh'.base <= Len(revisions), oper.base <= Len(revisions)
      PROVE  ReadInv'
  <2> DEFINE n == Len(revisions)
  <2>1. /\ n \in Nat /\ Len(revisions') = n + 1
        /\ revisions'[n + 1] = new
        /\ \A i \in 1..n : revisions'[i] = revisions[i]
    BY <1>3 DEF BrokerIInv, BrokerTypes
  <2>2. \A i \in 1..(n + 1) : Keeps(attempts', revisions'[i])
    BY <1>1, <1>3, <2>1, KeepsTransitive DEF BrokerIInv, ReadInv
  <2>3. /\ Keeps(attempts', snapshot')
        /\ Keeps(attempts', refresh'.seen)
        /\ Keeps(attempts', oper'.seen)
    BY <1>1, <1>3, KeepsNothing, KeepsTransitive DEF BrokerIInv, ReadInv, NoRefresh
  <2>4. /\ \A i \in 1..(n + 1) : i <= refresh'.base => Keeps(refresh'.seen, revisions'[i])
        /\ \A i \in 1..(n + 1) : i <= oper'.base => Keeps(oper'.seen, revisions'[i])
    BY <1>3, <2>1 DEF BrokerIInv, BrokerTypes, ReadInv, NoRefresh
  <2>5. ManifestNeverForgets'
    <3> SUFFICES ASSUME NEW i \in 1..(n + 1), NEW j \in 1..(n + 1), i < j
                 PROVE  Keeps(revisions'[j], revisions'[i])
      BY <2>1 DEF ManifestNeverForgets
    <3>1. CASE j = n + 1
      BY <1>3, <2>1, <3>1
    <3>2. CASE j # n + 1
      BY <2>1, <3>2 DEF BrokerIInv, ReadInv, ManifestNeverForgets
    <3> QED
      BY <3>1, <3>2
  <2> QED
    BY <1>3, <2>1, <2>2, <2>3, <2>4, <2>5 DEF ReadInv
<1> USE DEF End, Goto, fileVars, handlerVars
<1>4. ASSUME BrokerOnlyStep, UNCHANGED oper PROVE ReadInv'
  <2>1. CASE RegisterRevision
    <3>1. revisions = <<>> /\ Len(revisions) = 0 /\ job
      BY <2>1 DEF RegisterRevision, BrokerIInv, BrokerTypes, ReadInv
    <3>2. refresh.base <= 0 /\ oper.base <= 0
      BY <3>1 DEF BrokerIInv, BrokerTypes, ManifestInv
    <3> QED
      BY <1>3, <1>4, <2>1, <3>1, <3>2, KeepsNothing, NothingIsDirectory
         DEF RegisterRevision
  <2>2. CASE WriteRevision
    <3>1. refresh.base = Len(revisions) /\ latest > 0 /\ oper.base <= latest
      BY <2>2 DEF WriteRevision, CanWrite, BrokerIInv, ManifestInv
    <3>2. refresh.seen \in Directory /\ Len(revisions) \in Nat
      BY DEF BrokerIInv, BrokerTypes
    <3>3. job
      BY <2>2, <3>1 DEF WriteRevision, CanWrite, BrokerIInv, ReadInv, BrokerTypes
    <3> QED
      BY <1>3, <1>4, <2>2, <3>1, <3>2, <3>3
         DEF WriteRevision, CanWrite, BrokerIInv, BrokerTypes, ReadInv, NoRefresh
  <2>3. CASE ReceiveNew \/ ReceiveRegistered \/ ReceiveActive \/ ReceiveSucceeded
             \/ ReceiveExhausted \/ RegisterRefused \/ RegisterJob \/ RegisterWave
             \/ RegisterLatest \/ CreateState \/ RecoverState \/ SyncDispatches
    BY <1>2, <1>4, <2>3 DEF ReceiveNew, ReceiveRegistered, ReceiveActive,
       ReceiveSucceeded, ReceiveExhausted, Receive, RegisterRefused, RegisterJob,
       RegisterWave, RegisterLatest, CreateState, RecoverState, SyncDispatches,
       BrokerIInv, BrokerTypes, ReadInv
  <2>4. CASE ReadAttempts \/ SkipReconcile \/ ReadManifest \/ RevisionConflict
             \/ WriteLatest \/ SaveMarker
    BY <1>2, <1>4, <2>4 DEF ReadAttempts, SkipReconcile, ReadManifest, RevisionConflict,
       WriteLatest, SaveMarker, BrokerIInv, ReadInv
  <2>5. CASE DecideExhausted \/ DecideSucceeded \/ DecideStatus \/ AnswerFromState
             \/ StatusWait \/ StatusExhausted \/ StatusDispatch \/ RecordDispatch
             \/ SaveDispatch
    BY <1>2, <1>4, <2>5 DEF DecideExhausted, DecideSucceeded, DecideStatus,
       AnswerFromState, StatusWait, StatusExhausted, StatusDispatch, SaveExhausted,
       RecordDispatch, SaveDispatch, BrokerIInv, ReadInv
  <2> QED
    BY <1>4, <2>1, <2>2, <2>3, <2>4, <2>5 DEF BrokerOnlyStep
<1>5. ASSUME NEW e \in Executions, SubmitAccepted(e) \/ SubmitAnswerLost(e)
      PROVE  ReadInv'
  BY <1>2, <1>5 DEF SubmitAccepted, SubmitAnswerLost, BrokerIInv, ReadInv
<1>6. CASE (CallFails \/ Crash) /\ UNCHANGED oper
  BY <1>2, <1>6 DEF CallFails, Crash, BrokerIInv, ReadInv
<1>7. CASE OperatorStep
  <2>1. CASE OperatorWrites
    <3>1. oper.base = Len(revisions) /\ latest > 0 /\ refresh.base <= latest
      BY <2>1 DEF OperatorWrites, CanWrite, BrokerIInv, ManifestInv
    <3>2. oper.seen \in Directory /\ Len(revisions) \in Nat
          /\ oper'.seen = oper.seen /\ oper'.base = oper.base
      BY <2>1 DEF OperatorWrites, BrokerIInv, BrokerTypes
    <3>3. job /\ at \notin {"registerWave", "registerRevision"}
      BY <2>1, <3>1 DEF OperatorWrites, CanWrite, BrokerIInv, ReadInv, BrokerTypes
    <3> QED
      BY <1>3, <2>1, <3>1, <3>2, <3>3
         DEF OperatorWrites, CanWrite, BrokerIInv, BrokerTypes, ReadInv
  <2>2. CASE OperatorReads \/ OperatorPublishes \/ OperatorGivesUp \/ OperatorDies
    BY <1>2, <2>2 DEF OperatorReads, OperatorPublishes, OperatorGivesUp, OperatorDies,
       NoReconcile, BrokerIInv, ReadInv
  <2> QED
    BY <1>7, <2>1, <2>2 DEF OperatorStep, OperatorEnds
<1>8. CASE UNCHANGED brokerVars
  BY <1>2, <1>8 DEF brokerVars, BrokerIInv, ReadInv
<1> QED
  BY <1>4, <1>5, <1>6, <1>7, <1>8 DEF Next, HandlerStep, FaultStep, ExecutionStep, vars

\* The state file follows the history, and a dispatch is made only when every
\* one on record has ended and the budget allows another.
LEMMA HistoryStep ==
  ASSUME BrokerIInv, LogIInv', [Next]_vars
  PROVE  HistoryInv'
<1> DEFINE n == Len(history)
<1>1. n \in Nat /\ \A i \in 1..n : history[i] \in Executions
  BY DEF BrokerIInv, BrokerTypes
<1>2. \A e \in Executions : Concluded(e) => Concluded(e)'
  BY LogSide, ConcludedStays DEF BrokerIInv
<1>3. MaxAttempts \in Nat \ {0}
  BY AttemptLogAssumption
<1>4. file.dispatches \in Nat
  BY DEF BrokerIInv, BrokerTypes, FileRecord
<1> USE DEF HistoryInv, Working, RecordedDispatchBudget, StateFollowsHistory,
            RecordedExecutionsDoNotOverlap
<1> SUFFICES ASSUME HistoryInv PROVE HistoryInv'
  BY DEF BrokerIInv
<1> USE DEF End, Goto, fileVars, handlerVars
<1>5. ASSUME BrokerOnlyStep, UNCHANGED <<logVars, oper>> PROVE HistoryInv'
  <2>1. UNCHANGED pc
    BY <1>5 DEF logVars
  <2>2. CASE ReceiveNew \/ ReceiveRegistered \/ ReceiveActive \/ ReceiveSucceeded
             \/ ReceiveExhausted \/ RegisterRefused \/ RegisterJob \/ RegisterWave
             \/ RegisterRevision \/ RegisterLatest
    BY <2>1, <2>2 DEF ReceiveNew, ReceiveRegistered, ReceiveActive,
       ReceiveSucceeded, ReceiveExhausted, Receive, RegisterRefused, RegisterJob,
       RegisterWave, RegisterRevision, RegisterLatest, Concluded
  <2>3. CASE CreateState
    BY <1>1, <2>1, <2>3 DEF CreateState, ActiveFile, NoFile, Concluded
  <2>4. CASE RecoverState
    <3>1. /\ ActiveFile \in FileRecord /\ ActiveFile.dispatches = 0
          /\ ActiveFile.exec = NoExecution /\ ActiveFile.status = "active"
      BY DEF ActiveFile, NoFile, FileRecord
    <3>2. /\ Synced(ActiveFile).status = "active"
          /\ Synced(ActiveFile).dispatches = n
          /\ Synced(ActiveFile).exec = IF n = 0 THEN NoExecution ELSE history[n]
      BY <1>1, <3>1, SyncedCatchesUp DEF BrokerIInv, BrokerTypes
    <3> QED
      BY <1>1, <2>1, <2>4, <3>2 DEF RecoverState, Concluded
  <2>5. CASE SyncDispatches
    <3>1. /\ Synced(file).status = file.status
          /\ Synced(file).dispatches = n
          /\ Synced(file).exec = IF n = 0 THEN NoExecution ELSE history[n]
      BY <1>1, SyncedCatchesUp DEF BrokerIInv, BrokerTypes
    <3> QED
      BY <1>1, <2>1, <2>5, <3>1 DEF SyncDispatches, Concluded
  <2>6. CASE ReadAttempts \/ SkipReconcile \/ ReadManifest \/ WriteRevision
             \/ RevisionConflict \/ WriteLatest
    BY <2>1, <2>6 DEF ReadAttempts, SkipReconcile, ReadManifest, NeedsReconcile,
       WriteRevision, RevisionConflict, WriteLatest, Concluded
  <2>7. ASSUME NEW word, NEW marks,
               \/ file' = [file EXCEPT !.status = word]
               \/ file' = [file EXCEPT !.marker = marks]
        PROVE  /\ file'.dispatches = file.dispatches /\ file'.exec = file.exec
               /\ file'.status = file.status \/ file' = [file EXCEPT !.status = word]
    BY <2>7 DEF BrokerIInv, BrokerTypes, FileRecord
  <2>8. CASE SaveMarker
    BY <1>1, <2>1, <2>7, <2>8 DEF SaveMarker, Concluded, BrokerIInv, BrokerTypes, FileRecord
  <2>9. CASE DecideExhausted \/ DecideSucceeded \/ StatusExhausted
    BY <1>1, <2>1, <2>7, <2>9 DEF DecideExhausted, DecideSucceeded, StatusExhausted,
       SaveExhausted, Concluded
  <2>10. CASE DecideStatus \/ AnswerFromState \/ StatusWait
    BY <2>1, <2>10 DEF DecideStatus, AnswerFromState, StatusWait, Concluded
  <2>11. CASE StatusDispatch
    <3>1. file.dispatches = n /\ n < MaxAttempts
      BY <1>1, <1>3, <1>4, <2>11 DEF StatusDispatch, ShouldDispatch
    <3>2. \A i \in 1..n : Concluded(history[i])
      <4>1. CASE n = 0
        BY <4>1
      <4>2. CASE n > 0
        <5>1. file.exec = history[n] /\ file.exec \in Executions
          BY <1>1, <3>1, <4>2
        <5>2. Concluded(history[n])
          BY <2>11, <5>1, BrokerRunAssumption DEF StatusDispatch, BackendRunning
        <5> QED
          BY <1>1, <5>2
      <4> QED
        BY <1>1, <4>1, <4>2
    <3> QED
      BY <2>1, <2>11, <3>1, <3>2 DEF StatusDispatch, Concluded
  <2>12. CASE RecordDispatch
    <3>1. pending \in Executions /\ file.dispatches = n /\ n < MaxAttempts
      BY <2>12 DEF RecordDispatch
    <3>2. /\ Len(history') = n + 1 /\ history'[n + 1] = pending
          /\ \A i \in 1..n : history'[i] = history[i]
      BY <2>12, <3>1 DEF RecordDispatch, BrokerIInv, BrokerTypes
    <3> QED
      BY <1>1, <1>3, <1>4, <2>1, <2>12, <3>1, <3>2 DEF RecordDispatch, Concluded
  <2>13. CASE SaveDispatch
    <3>1. /\ file'.dispatches = file.dispatches + 1 /\ file'.exec = pending
          /\ file'.status = file.status
      BY <2>13 DEF SaveDispatch, BrokerIInv, BrokerTypes, FileRecord
    <3> QED
      BY <1>1, <1>4, <2>1, <2>13, <3>1 DEF SaveDispatch, Concluded
  <2> QED
    BY <1>5, <2>2, <2>3, <2>4, <2>5, <2>6, <2>8, <2>9, <2>10, <2>11, <2>12, <2>13
       DEF BrokerOnlyStep
<1>6. ASSUME NEW e \in Executions, SubmitAccepted(e) PROVE HistoryInv'
  BY <1>1, <1>2, <1>6 DEF SubmitAccepted
<1>7. ASSUME NEW e \in Executions, SubmitAnswerLost(e) PROVE HistoryInv'
  BY <1>1, <1>2, <1>7 DEF SubmitAnswerLost
<1>8. CASE (CallFails \/ Crash) /\ UNCHANGED <<logVars, oper>>
  BY <1>1, <1>2, <1>8 DEF CallFails, Crash
<1>9. CASE OperatorStep /\ UNCHANGED logVars
  BY <1>1, <1>2, <1>9 DEF OperatorStep, OperatorReads, OperatorEnds, OperatorWrites,
     OperatorPublishes, OperatorGivesUp, OperatorDies
<1>10. CASE UNCHANGED brokerVars
  BY <1>1, <1>2, <1>10 DEF brokerVars
<1> QED
  BY <1>5, <1>6, <1>7, <1>8, <1>9, <1>10
     DEF Next, HandlerStep, FaultStep, ExecutionStep, vars

\* A directory that keeps the published one keeps what that one kept.
LEMMA PublishedGrows ==
  ASSUME BrokerIInv, latest > 0, NEW dir, Keeps(revisions[latest], dir)
  PROVE  \A i \in latest..Len(revisions) : Keeps(revisions[i], dir)
<1> SUFFICES ASSUME NEW i \in latest..Len(revisions) PROVE Keeps(revisions[i], dir)
  OBVIOUS
<1>1. latest \in 1..Len(revisions) /\ i \in 1..Len(revisions)
  BY DEF BrokerIInv, BrokerTypes, ManifestInv
<1>2. Keeps(revisions[i], revisions[latest])
  BY <1>1, KeepsSelf DEF BrokerIInv, BrokerTypes, ReadInv, ManifestNeverForgets
<1> QED
  BY <1>2, KeepsTransitive

\* What a handler decides with is in the published manifest, and stays there.
LEMMA ManifestStep ==
  ASSUME BrokerIInv, [Next]_vars
  PROVE  ManifestInv'
<1> DEFINE n == Len(revisions)
           Published(dir) == latest = 0 \/ Keeps(revisions[latest], dir)
<1>1. /\ n \in Nat /\ latest \in 0..n /\ n >= latest
      /\ refresh.base \in Nat /\ oper.base \in Nat
  BY DEF BrokerIInv, BrokerTypes, ManifestInv
<1>2. ASSUME NEW new, revisions' = Append(revisions, new)
      PROVE  /\ Len(revisions') = n + 1 /\ revisions'[n + 1] = new
             /\ latest > 0 => revisions'[latest] = revisions[latest]
  BY <1>1, <1>2 DEF BrokerIInv, BrokerTypes
<1>3. /\ latest > 0 => \A dir : Keeps(revisions[latest], dir) => Keeps(revisions[n], dir)
      /\ latest > 0 /\ HasSuccess(revisions[latest]) => HasSuccess(revisions[n])
  BY <1>1, PublishedGrows, KeepsSelf, KeepsSuccess
<1>4. Cardinality({snapshot}) = 1 /\ Cardinality({}) = 0
  BY FS_Singleton, FS_EmptySet
<1>5. /\ \A word : /\ [file EXCEPT !.status = word].status = word
                   /\ [file EXCEPT !.status = word].marker = file.marker
      /\ [file EXCEPT !.marker = {snapshot}].status = file.status
      /\ [file EXCEPT !.marker = {snapshot}].marker = {snapshot}
  BY DEF BrokerIInv, BrokerTypes, FileRecord
<1> USE DEF ManifestInv, Registering, SucceededIsReconciled
<1> SUFFICES ASSUME ManifestInv PROVE ManifestInv'
  BY DEF BrokerIInv
<1> USE DEF End, Goto, fileVars, handlerVars
<1>6. ASSUME BrokerOnlyStep, UNCHANGED oper PROVE ManifestInv'
  <2>1. CASE ReceiveNew \/ ReceiveRegistered \/ ReceiveActive \/ ReceiveSucceeded
             \/ ReceiveExhausted \/ RegisterRefused \/ RegisterJob \/ RegisterWave
    BY <1>1, <1>6, <2>1 DEF ReceiveNew, ReceiveRegistered, ReceiveActive,
       ReceiveSucceeded, ReceiveExhausted, Receive, RegisterRefused, RegisterJob,
       RegisterWave, NoRefresh
  <2>2. CASE RegisterRevision
    BY <1>1, <1>2, <1>6, <2>1, <2>2 DEF RegisterRevision
  <2>3. CASE RegisterLatest
    BY <1>1, <1>3, <1>6, <2>3 DEF RegisterLatest
  <2>4. CASE CreateState
    BY <1>1, <1>4, <1>6, <2>4 DEF CreateState, ActiveFile, NoFile
  <2>5. CASE RecoverState
    <3>1. /\ ActiveFile \in FileRecord /\ ActiveFile.dispatches = 0
          /\ ActiveFile.exec = NoExecution /\ ActiveFile.status = "active"
          /\ ActiveFile.marker = {}
      BY DEF ActiveFile, NoFile, FileRecord
    <3>2. Synced(ActiveFile).status = "active" /\ Synced(ActiveFile).marker = {}
      BY <3>1, SyncedCatchesUp DEF BrokerIInv, BrokerTypes
    <3> QED
      BY <1>1, <1>4, <1>6, <2>5, <3>2 DEF RecoverState
  <2>6. CASE SyncDispatches
    <3>1. Synced(file).status = file.status /\ Synced(file).marker = file.marker
      BY SyncedCatchesUp DEF BrokerIInv, BrokerTypes, HistoryInv, StateFollowsHistory
    <3> QED
      BY <1>1, <1>6, <2>6, <3>1 DEF SyncDispatches
  <2>7. CASE ReadAttempts \/ RevisionConflict \/ DecideStatus \/ AnswerFromState
             \/ StatusWait \/ StatusDispatch \/ RecordDispatch
    BY <1>1, <1>6, <2>7 DEF ReadAttempts, RevisionConflict, DecideStatus,
       AnswerFromState, StatusWait, StatusDispatch, RecordDispatch, NoRefresh
  <2>8. CASE SkipReconcile
    BY <1>1, <1>6, <2>8 DEF SkipReconcile
  <2>9. CASE ReadManifest
    BY <1>1, <1>6, <2>9 DEF ReadManifest, NeedsReconcile, BrokerIInv, ReadInv
  <2>10. CASE WriteRevision
    BY <1>1, <1>2, <1>6, <2>10 DEF WriteRevision, NoRefresh
  <2>11. CASE WriteLatest
    <3>1. latest > 0 /\ latest' = n /\ UNCHANGED <<file, snapshot, revisions, refresh>>
          /\ at = "writeLatest" /\ at' = "mark"
      BY <2>11 DEF WriteLatest
    <3>2. /\ \A d \in file.marker : Keeps(revisions[n], d)
          /\ Keeps(revisions[n], snapshot)
          /\ file.status = "succeeded" => HasSuccess(revisions[n])
      BY <1>3, <2>11, <3>1 DEF WriteLatest
    <3> QED
      BY <1>1, <1>6, <3>1, <3>2
  <2>12. CASE SaveMarker
    <3>1. latest = 0 \/ Keeps(revisions[latest], snapshot)
      BY <2>12, KeepsNothing DEF SaveMarker
    <3>2. file.status # "none"
      BY <2>12 DEF SaveMarker
    <3>3. file'.status = file.status /\ file'.marker = {snapshot} /\ at' = "decide"
          /\ UNCHANGED <<revisions, latest, snapshot, refresh>>
      BY <1>5, <2>12 DEF SaveMarker
    <3> QED
      BY <1>1, <1>4, <1>6, <3>1, <3>2, <3>3
  <2>13. CASE DecideExhausted \/ StatusExhausted
    <3>1. file'.status = "exhausted" /\ file'.marker = file.marker /\ at' = "idle"
          /\ UNCHANGED <<revisions, latest>> /\ refresh' = NoRefresh
      BY <1>5, <2>13 DEF DecideExhausted, StatusExhausted, SaveExhausted
    <3> QED
      BY <1>1, <1>6, <3>1 DEF NoRefresh
  <2>14. CASE DecideSucceeded
    <3>1. latest = 0 \/ HasSuccess(revisions[latest])
      BY <2>14, CanonicalHasSuccess, KeepsSuccess DEF DecideSucceeded
    <3> QED
      BY <1>1, <1>5, <1>6, <2>14, <3>1 DEF DecideSucceeded, NoRefresh
  <2>15. CASE SaveDispatch
    <3>1. file'.status = file.status /\ file'.marker = file.marker
      BY <2>15 DEF SaveDispatch, BrokerIInv, BrokerTypes, FileRecord
    <3> QED
      BY <1>1, <1>6, <2>15, <3>1 DEF SaveDispatch
  <2> QED
    BY <1>6, <2>1, <2>2, <2>3, <2>4, <2>5, <2>6, <2>7, <2>8, <2>9, <2>10, <2>11, <2>12,
       <2>13, <2>14, <2>15 DEF BrokerOnlyStep
<1>7. ASSUME NEW e \in Executions, SubmitAccepted(e) \/ SubmitAnswerLost(e)
      PROVE  ManifestInv'
  BY <1>1, <1>7 DEF SubmitAccepted, SubmitAnswerLost, NoRefresh
<1>8. CASE (CallFails \/ Crash) /\ UNCHANGED oper
  BY <1>1, <1>8 DEF CallFails, Crash, NoRefresh
<1>9. CASE OperatorStep
  <2>1. CASE OperatorReads
    BY <1>1, <2>1 DEF OperatorReads
  <2>2. CASE OperatorWrites
    <3>1. oper'.base = oper.base /\ oper.at # "away" /\ at # "writeLatest"
      BY <2>2 DEF OperatorWrites, BrokerHasLock, BrokerIInv, BrokerTypes
    <3> QED
      BY <1>1, <1>2, <2>2, <3>1 DEF OperatorWrites
  <2>3. CASE OperatorPublishes
    <3>1. latest > 0 /\ latest' = n /\ oper' = NoReconcile
          /\ UNCHANGED <<file, snapshot, revisions, refresh, at>>
      BY <2>3 DEF OperatorPublishes
    <3>2. /\ \A d \in file.marker : Keeps(revisions[n], d)
          /\ at \in {"mark", "decide"} => Keeps(revisions[n], snapshot)
          /\ file.status = "succeeded" => HasSuccess(revisions[n])
      BY <1>3, <3>1
    <3> QED
      BY <1>1, <3>1, <3>2 DEF NoReconcile
  <2>4. CASE OperatorGivesUp \/ OperatorDies
    BY <1>1, <2>4 DEF OperatorGivesUp, OperatorDies, NoReconcile
  <2> QED
    BY <1>9, <2>1, <2>2, <2>3, <2>4 DEF OperatorStep, OperatorEnds
<1>10. CASE UNCHANGED brokerVars
  BY <1>1, <1>10 DEF brokerVars
<1> QED
  BY <1>6, <1>7, <1>8, <1>9, <1>10
     DEF Next, HandlerStep, FaultStep, ExecutionStep, vars

\* The steps that end a request, and the one that records a dispatch; any other
\* leaves its status and the history alone, or makes it active.
LEMMA StatusChanges ==
  ASSUME BrokerIInv, [Next]_vars
  PROVE  /\ RecordDispatch \/ UNCHANGED history
         /\ \/ file'.status = file.status
            \/ file.status = "none" /\ file'.status = "active" /\ UNCHANGED reply
            \/ DecideExhausted \/ StatusExhausted
            \/ DecideSucceeded
<1> USE DEF End, Goto, fileVars, handlerVars
<1>1. ASSUME NEW marks PROVE [file EXCEPT !.marker = marks].status = file.status
  BY DEF BrokerIInv, BrokerTypes, FileRecord
<1>2. CASE CreateState
  BY <1>2 DEF CreateState, ActiveFile, NoFile, BrokerIInv, ManifestInv, Registering
<1>3. CASE RecoverState
  <2>1. /\ ActiveFile \in FileRecord /\ ActiveFile.dispatches = 0
        /\ ActiveFile.exec = NoExecution /\ ActiveFile.status = "active"
    BY DEF ActiveFile, NoFile, FileRecord
  <2>2. Synced(ActiveFile).status = "active"
    BY <2>1, SyncedCatchesUp DEF BrokerIInv, BrokerTypes
  <2>3. file.status = "none"
    BY <1>3 DEF RecoverState, BrokerIInv, ManifestInv, Registering
  <2> QED
    BY <1>3, <2>2, <2>3 DEF RecoverState
<1>4. CASE SyncDispatches
  <2>1. Synced(file).status = file.status
    BY SyncedCatchesUp DEF BrokerIInv, BrokerTypes, HistoryInv, StateFollowsHistory
  <2> QED
    BY <1>4, <2>1 DEF SyncDispatches
<1>5. CASE SaveMarker \/ SaveDispatch
  BY <1>1, <1>5 DEF SaveMarker, SaveDispatch, BrokerIInv, BrokerTypes, FileRecord
<1>6. ASSUME BrokerOnlyStep,
             ~CreateState, ~RecoverState, ~SyncDispatches, ~SaveMarker, ~SaveDispatch,
             ~RecordDispatch, ~DecideExhausted, ~StatusExhausted, ~DecideSucceeded
      PROVE  UNCHANGED <<file, history>>
  BY <1>6 DEF BrokerOnlyStep, ReceiveNew, ReceiveRegistered, ReceiveActive,
     ReceiveSucceeded, ReceiveExhausted, Receive, RegisterRefused, RegisterJob,
     RegisterWave, RegisterRevision, RegisterLatest, ReadAttempts, SkipReconcile,
     ReadManifest, WriteRevision, RevisionConflict, WriteLatest, DecideStatus,
     AnswerFromState, StatusWait, StatusDispatch
<1>7. CASE RecordDispatch
  BY <1>7 DEF RecordDispatch
<1>8. CASE DecideExhausted \/ StatusExhausted \/ DecideSucceeded
  BY <1>8 DEF DecideExhausted, StatusExhausted, DecideSucceeded, SaveExhausted
<1>9. ASSUME ~BrokerOnlyStep PROVE UNCHANGED <<file, history>>
  BY <1>9 DEF Next, HandlerStep, SubmitAccepted, FaultStep, CallFails, Crash,
     SubmitAnswerLost, OperatorStep, OperatorReads, OperatorEnds, OperatorWrites,
     OperatorPublishes, OperatorGivesUp, OperatorDies, ExecutionStep, vars, brokerVars
<1> QED
  BY <1>2, <1>3, <1>4, <1>5, <1>6, <1>7, <1>8, <1>9

\* A request is closed as exhausted only with its budget used, and a used
\* budget stays used.
LEMMA ExhaustedStep ==
  ASSUME BrokerIInv, LogIInv', [Next]_vars
  PROVE  ExhaustedMeansBudgetUsed'
<1> DEFINE Used == \/ Failures(attempts) >= MaxAttempts
                   \/ /\ Len(history) = MaxAttempts
                      /\ \A i \in 1..Len(history) : Concluded(history[i])
<1>1. MaxAttempts \in Nat \ {0}
  BY AttemptLogAssumption
<1>2. Failures(attempts) \in Nat /\ Failures(attempts') \in Nat
      /\ Failures(attempts) <= Failures(attempts')
  <2>1. Keeps(attempts', attempts)
    BY LogSide, LogGrows DEF BrokerIInv, BrokerTypes
  <2>2. 1 \in Shards
    BY BrokerRunAssumption DEF Shards
  <2>3. Count(attempts') \in Nat /\ DOMAIN attempts' = 1..Count(attempts')
    BY <2>2 DEF LogIInv, LogInv, IsPrefix, attempts
  <2>4. IsFiniteSet(DOMAIN attempts')
    BY <2>3, FS_Interval
  <2> QED
    BY <2>1, <2>4, FailuresGrow
<1>3. Used => Used'
  <2>1. CASE Failures(attempts) >= MaxAttempts
    BY <1>1, <1>2, <2>1
  <2>2. CASE /\ Len(history) = MaxAttempts
             /\ \A i \in 1..Len(history) : Concluded(history[i])
    <3>1. UNCHANGED history
      BY <1>1, <2>2, StatusChanges DEF RecordDispatch, BrokerIInv, HistoryInv
    <3>2. \A i \in 1..Len(history) : history[i] \in Executions
      BY DEF BrokerIInv, BrokerTypes
    <3>3. \A i \in 1..Len(history) : Concluded(history[i])'
      BY <2>2, <3>1, <3>2, LogSide, ConcludedStays DEF BrokerIInv, Concluded
    <3> QED
      BY <2>2, <3>1, <3>3
  <2> QED
    BY <2>1, <2>2
<1>4. CASE DecideExhausted
  <2>1. Failures(snapshot) >= MaxAttempts
    BY <1>4, UsedUpMeansFailures DEF DecideExhausted, BrokerIInv, BrokerTypes
  <2>2. Failures(snapshot) \in Nat /\ Failures(snapshot) <= Failures(attempts)
    BY AttemptsAreFinite, FailuresGrow DEF BrokerIInv, ReadInv
  <2> QED
    BY <1>1, <1>2, <1>3, <2>1, <2>2 DEF ExhaustedMeansBudgetUsed
<1>5. CASE StatusExhausted
  <2>1. /\ file.dispatches = Len(history) /\ Len(history) <= MaxAttempts
        /\ file.exec # NoExecution /\ Concluded(file.exec)
        /\ file.dispatches >= MaxAttempts
    BY <1>5 DEF StatusExhausted, OutOfDispatches, BackendTerminal, BrokerIInv,
       HistoryInv, Working, RecordedDispatchBudget
  <2>2. Len(history) = MaxAttempts /\ Concluded(history[Len(history)])
    BY <1>1, <2>1 DEF BrokerIInv, BrokerTypes, HistoryInv, StateFollowsHistory
  <2>3. \A i \in 1..Len(history) : Concluded(history[i])
    BY <1>1, <2>2 DEF BrokerIInv, HistoryInv, RecordedExecutionsDoNotOverlap
  <2> QED
    BY <1>3, <2>2, <2>3 DEF ExhaustedMeansBudgetUsed
<1>6. CASE file'.status = "exhausted" /\ ~DecideExhausted /\ ~StatusExhausted
  <2>1. file.status = "exhausted"
    <3>1. DecideSucceeded => file'.status = "succeeded"
      BY DEF DecideSucceeded, BrokerIInv, BrokerTypes, FileRecord
    <3> QED
      BY <1>6, <3>1, StatusChanges
  <2> QED
    BY <1>3, <2>1 DEF BrokerIInv, ExhaustedMeansBudgetUsed
<1> QED
  BY <1>4, <1>5, <1>6 DEF ExhaustedMeansBudgetUsed

-----------------------------------------------------------------------------
\* The inductive invariant holds at first
LEMMA BrokerInitInv == Init => BrokerIInv
<1> SUFFICES ASSUME Init PROVE BrokerIInv
  OBVIOUS
<1> USE BrokerRunAssumption, AttemptLogAssumption
<1>1. LogIInv
  BY LogInitInv DEF Init
<1>2. attempts = NoAttempts
  BY DEF Init, LogInit, EmptyLog, Shards, attempts, NoAttempts
<1>3. BrokerTypes
  <2>1. NoFile \in FileRecord
    BY DEF NoFile, FileRecord
  <2>2. /\ NoRefresh \in [base : Nat, seen : Directory]
        /\ NoReconcile \in [at : {"away", "read", "publish"}, base : Nat, seen : Directory]
    BY NothingIsDirectory DEF NoRefresh, NoReconcile
  <2>3. revisions \in Seq(Directory) /\ history \in Seq(Executions)
    BY DEF Init
  <2>4. job \in BOOLEAN /\ wave \in BOOLEAN
    BY Zenon DEF Init
  <2>5. at \in Points /\ faults \in 0..MaxFaults
    BY DEF Init, Points
  <2> QED
    BY <1>2, <2>1, <2>2, <2>3, <2>4, <2>5, NothingIsDirectory DEF Init, BrokerTypes
<1>4. HistoryInv
  BY DEF Init, HistoryInv, Working, RecordedDispatchBudget, StateFollowsHistory,
     RecordedExecutionsDoNotOverlap, NoFile
<1>5. ReadInv
  BY <1>2, KeepsSelf DEF Init, ReadInv, ManifestNeverForgets, NoRefresh, NoReconcile
<1>6. ManifestInv
  BY FS_EmptySet DEF Init, ManifestInv, Registering, SucceededIsReconciled, NoFile,
     NoRefresh, NoReconcile
<1>7. ExhaustedMeansBudgetUsed
  BY DEF Init, ExhaustedMeansBudgetUsed, NoFile
<1> QED
  BY <1>1, <1>3, <1>4, <1>5, <1>6, <1>7 DEF BrokerIInv

\* and in every step.
LEMMA BrokerNextInv == BrokerIInv /\ [Next]_vars => BrokerIInv'
<1> SUFFICES ASSUME BrokerIInv, [Next]_vars PROVE BrokerIInv'
  OBVIOUS
<1>1. LogIInv'
  BY LogSide, LogNextInv DEF BrokerIInv
<1> QED
  BY <1>1, TypesStep, HistoryStep, ReadStep, ManifestStep, ExhaustedStep DEF BrokerIInv

\* The inductive invariant of the broker run.
THEOREM BrokerInvariant == Spec => []BrokerIInv
  BY BrokerInitInv, BrokerNextInv, PTL DEF Spec

-----------------------------------------------------------------------------
\* Types of the broker's files, of the attempts and of what was read of them.
THEOREM BrokerTypeCorrect == Spec => []BrokerTypeOK
<1>1. BrokerIInv => BrokerTypeOK
  <2> SUFFICES ASSUME BrokerIInv PROVE BrokerTypeOK
    OBVIOUS
  <2>1. TypeOK
    BY DEF BrokerIInv, LogIInv
  <2>2. file \in FileRecord /\ \A d \in file.marker : d \in Directory
    BY DEF BrokerIInv, BrokerTypes, FileRecord
  <2>3. \A i \in 1..Len(revisions) : revisions[i] \in Directory
    BY DEF BrokerIInv, BrokerTypes
  <2>4. \A i \in 1..Len(history) : history[i] \in Executions
    BY DEF BrokerIInv, BrokerTypes
  <2>5. /\ refresh.base \in 0..latest /\ oper.base \in 0..latest
        /\ latest \in 0..Len(revisions)
        /\ oper.at \in {"away", "read", "publish"}
        /\ snapshot \in Directory /\ refresh.seen \in Directory /\ oper.seen \in Directory
    BY DEF BrokerIInv, BrokerTypes, ManifestInv
  <2>6. Cardinality(file.marker) <= 1
    BY DEF BrokerIInv, ManifestInv
  <2>7. job \in BOOLEAN /\ wave \in BOOLEAN
    BY DEF BrokerIInv, BrokerTypes
  <2>8. /\ at \in Points /\ pending \in Executions \cup {NoExecution}
        /\ reply \in {"none", "failed", "succeeded", "exhausted"}
        /\ faults \in 0..MaxFaults
    BY DEF BrokerIInv, BrokerTypes
  <2> QED
    BY <2>1, <2>2, <2>3, <2>4, <2>5, <2>6, <2>7, <2>8, DirectoryIsDirectory
       DEF BrokerTypeOK, FileRecord
<1> QED
  BY <1>1, BrokerInvariant, PTL

\* Crashes and lost answers never make the history exceed the budget.
THEOREM RecordedDispatchBudgetTheorem == Spec => []RecordedDispatchBudget
<1>1. BrokerIInv => RecordedDispatchBudget
  BY DEF BrokerIInv, HistoryInv
<1> QED
  BY <1>1, BrokerInvariant, PTL

\* The state file counts and polls recorded dispatches only.
THEOREM StateFollowsHistoryTheorem == Spec => []StateFollowsHistory
<1>1. BrokerIInv => StateFollowsHistory
  BY DEF BrokerIInv, HistoryInv
<1> QED
  BY <1>1, BrokerInvariant, PTL

\* A dispatch is made only when every recorded execution has ended.
THEOREM RecordedExecutionsDoNotOverlapTheorem ==
  Spec => []RecordedExecutionsDoNotOverlap
<1>1. BrokerIInv => RecordedExecutionsDoNotOverlap
  BY DEF BrokerIInv, HistoryInv
<1> QED
  BY <1>1, BrokerInvariant, PTL

\* An exhausted request has used its whole budget.
THEOREM ExhaustedMeansBudgetUsedTheorem == Spec => []ExhaustedMeansBudgetUsed
<1>1. BrokerIInv => ExhaustedMeansBudgetUsed
  BY DEF BrokerIInv
<1> QED
  BY <1>1, BrokerInvariant, PTL

\* The manifest a succeeded request leaves behind shows its success.
THEOREM SucceededIsReconciledTheorem == Spec => []SucceededIsReconciled
<1>1. BrokerIInv => SucceededIsReconciled
  BY DEF BrokerIInv, ManifestInv
<1> QED
  BY <1>1, BrokerInvariant, PTL

\* Whoever writes the next manifest revision, it keeps every earlier one.
THEOREM ManifestNeverForgetsTheorem == Spec => []ManifestNeverForgets
<1>1. BrokerIInv => ManifestNeverForgets
  BY DEF BrokerIInv, ReadInv
<1> QED
  BY <1>1, BrokerInvariant, PTL

-----------------------------------------------------------------------------
(* The broker implements BatchRequest. *)

\* The steps that give the client a terminal answer; any other says "failed",
\* forgets the last answer or leaves it.
LEMMA ReplyChanges ==
  ASSUME [Next]_vars
  PROVE  \/ reply' \in {reply, "none", "failed"}
         \/ DecideExhausted \/ StatusExhausted \/ DecideSucceeded
         \/ (ReceiveExhausted \/ AnswerFromState) /\ UNCHANGED file
<1> USE DEF End, Goto, fileVars, handlerVars
<1>1. ASSUME BrokerOnlyStep, UNCHANGED logVars,
             ~DecideExhausted, ~StatusExhausted, ~DecideSucceeded,
             ~ReceiveExhausted, ~AnswerFromState
      PROVE  reply' \in {reply, "none", "failed"}
  BY <1>1 DEF BrokerOnlyStep, ReceiveNew, ReceiveRegistered, ReceiveActive,
     ReceiveSucceeded, Receive, RegisterRefused, RegisterJob, RegisterWave,
     RegisterRevision, RegisterLatest, CreateState, RecoverState, SyncDispatches,
     ReadAttempts, SkipReconcile, ReadManifest, WriteRevision, RevisionConflict,
     WriteLatest, SaveMarker, DecideStatus, StatusWait, StatusDispatch,
     RecordDispatch, SaveDispatch
<1>2. CASE ReceiveExhausted \/ AnswerFromState
  BY <1>2 DEF ReceiveExhausted, AnswerFromState
<1>3. ASSUME NEW e \in Executions, SubmitAccepted(e) \/ SubmitAnswerLost(e)
      PROVE  reply' \in {reply, "none", "failed"}
  BY <1>3 DEF SubmitAccepted, SubmitAnswerLost
<1>4. CASE CallFails \/ Crash
  BY <1>4 DEF CallFails, Crash
<1>5. CASE OperatorStep
  BY <1>5 DEF OperatorStep, OperatorReads, OperatorEnds, OperatorWrites,
     OperatorPublishes, OperatorGivesUp, OperatorDies
<1>6. CASE UNCHANGED brokerVars
  BY <1>6 DEF brokerVars
<1> QED
  BY <1>1, <1>2, <1>3, <1>4, <1>5, <1>6
     DEF Next, HandlerStep, FaultStep, ExecutionStep, vars

\* Every step of the broker, of its faults, of the operator and of an execution
\* is a step of the promise, or changes nothing the client can tell.
LEMMA StepKeepsPromise ==
  ASSUME BrokerIInv, [Next]_vars, LogIInv'
  PROVE  [Promise!RequestNext]_<<file.status, HasSuccess(attempts), reply>>
<1> DEFINE Step == [Promise!RequestNext]_<<file.status, HasSuccess(attempts), reply>>
<1> USE DEF Promise!RequestNext, Promise!Unanswered, Promise!NotNow, Promise!Begin,
            Promise!Work, Promise!Finish, Promise!Repeat, Promise!Terminal
<1>1. UNCHANGED log => HasSuccess(attempts)' = HasSuccess(attempts)
  BY DEF attempts, HasSuccess
<1>2. HasSuccess(attempts) => HasSuccess(attempts)'
  <2>1. Keeps(attempts', attempts)
    BY LogSide, LogGrows DEF BrokerIInv, BrokerTypes
  <2> QED
    BY <2>1 DEF Keeps, HasSuccess
<1>3. CASE UNCHANGED brokerVars
  <2>1. UNCHANGED <<file.status, reply>>
    BY <1>3 DEF brokerVars
  <2>2. CASE HasSuccess(attempts)' = HasSuccess(attempts)
    BY <2>1, <2>2
  <2>3. CASE ~HasSuccess(attempts) /\ HasSuccess(attempts)' = TRUE
    BY <2>1, <2>3
  <2>4. \/ HasSuccess(attempts)' = HasSuccess(attempts)
        \/ ~HasSuccess(attempts) /\ HasSuccess(attempts)' = TRUE
    BY <1>2 DEF HasSuccess
  <2> QED
    BY <2>2, <2>3, <2>4
<1>4. CASE UNCHANGED log
  <2>1. CASE DecideExhausted \/ StatusExhausted
    <3>1. file.status = "active" /\ file'.status = "exhausted" /\ reply' = "exhausted"
      BY <2>1 DEF DecideExhausted, StatusExhausted, SaveExhausted, End, BrokerIInv,
         BrokerTypes, FileRecord, HistoryInv
    <3> QED
      BY <1>1, <1>4, <3>1
  <2>2. CASE DecideSucceeded
    <3>1. file.status = "active" /\ file'.status = "succeeded" /\ reply' = "succeeded"
      BY <2>2 DEF DecideSucceeded, End, BrokerIInv, BrokerTypes, FileRecord
    <3>2. HasSuccess(attempts)
      BY <2>2, CanonicalHasSuccess, KeepsSuccess DEF DecideSucceeded, BrokerIInv, ReadInv
    <3> QED
      BY <1>1, <1>4, <3>1, <3>2
  <2>3. CASE (ReceiveExhausted \/ AnswerFromState) /\ UNCHANGED file
    BY <1>1, <1>4, <2>3 DEF ReceiveExhausted, AnswerFromState, End
  <2>4. CASE reply' \in {reply, "none", "failed"} /\ file'.status = file.status
    BY <1>1, <1>4, <2>4
  <2>5. CASE file.status = "none" /\ file'.status = "active" /\ UNCHANGED reply
    BY <1>1, <1>4, <2>5
  <2> QED
    BY <2>1, <2>2, <2>3, <2>4, <2>5, StatusChanges, ReplyChanges
<1> QED
  BY <1>3, <1>4 DEF Next, HandlerStep, SubmitAccepted, FaultStep, SubmitAnswerLost,
     Accept, ExecutionStep, vars, logVars

\* The broker keeps its promise to the client through crashes, lost answers,
\* stale reads and a concurrent operator.
THEOREM KeepsPromiseTheorem == Spec => KeepsPromise
<1>1. Init => Promise!RequestInit
  <2> SUFFICES ASSUME Init PROVE Promise!RequestInit
    OBVIOUS
  <2>1. attempts = NoAttempts
    BY BrokerRunAssumption DEF Init, LogInit, EmptyLog, Shards, attempts, NoAttempts
  <2>2. ~HasSuccess(attempts)
    BY <2>1 DEF HasSuccess, NoAttempts
  <2> QED
    BY <2>2 DEF Init, NoFile, Promise!RequestInit
<1>2. BrokerIInv /\ BrokerIInv' /\ [Next]_vars =>
        [Promise!RequestNext]_<<file.status, HasSuccess(attempts), reply>>
  BY StepKeepsPromise DEF BrokerIInv
<1> QED
  BY <1>1, <1>2, BrokerInvariant, PTL
     DEF Spec, KeepsPromise, Promise!RequestSpec, Promise!requestVars
=============================================================================
