------------------------------ MODULE BrokerRun ------------------------------
(***************************************************************************)
(* One broker request, from the first message of its client to a durable   *)
(* terminal status, together with the workflow executions it dispatches.   *)
(*                                                                         *)
(* The request serializer lets one handler at a time work on a request id, *)
(* so the handler is one sequential process.  What makes it hard is what   *)
(* happens around it: the executions append attempts while it decides, the *)
(* answer of a dispatch is lost, calls fail, and the broker crashes        *)
(* between any two of the files it writes.  A client that gets no terminal *)
(* answer sends the same request again.  An operator may run the reconcile *)
(* command at the same time, which writes the same manifest files.         *)
(*                                                                         *)
(* Every change of the in-memory BrokerRequestState is saved before the    *)
(* handler's next call, so the model keeps one copy, the state file.       *)
(*                                                                         *)
(* Sources: broker/service.py, broker/planning.py, broker/state.py,        *)
(* controller/a1_controller.py, controller/closed_wave_registry.py,        *)
(* backends/github_actions.py and the manifest files of                    *)
(* data_plane/local.py; the executions are module AttemptLog.              *)
(***************************************************************************)
EXTENDS AttemptLog, Sequences

CONSTANTS
  NoExecution,  \* execution_id of a request that was never dispatched
  MaxFaults     \* bound on disturbances: failed calls, lost answers, crashes
                \* and the operator's commands together

ASSUME BrokerRunAssumption ==
  /\ NumShards = 1                 \* a broker run is one shard
  /\ NoExecution \notin Executions
  /\ MaxFaults \in Nat

VARIABLES
  at,         \* the handler's next step; "idle" when no request is handled
  snapshot,   \* the attempts the handler last read
  pending,    \* the accepted execution it has not recorded yet
  reply,      \* the answer to the client's last request
  refresh,    \* the manifest revision and attempts its reconcile has read
  oper,       \* the operator's reconcile command: where it is, what it read
  file,       \* the request's state file
  job,        \* job.json of the run exists
  wave,       \* the closed wave is registered
  revisions,  \* manifest revision files: the attempts each one discovered
  latest,     \* number of the revision latest.json holds; 0 for no manifest
  history,    \* the dispatch history of the wave
  faults      \* disturbances so far

handlerVars == <<at, snapshot, pending, reply, refresh>>
fileVars    == <<file, job, wave, revisions, latest, history>>
brokerVars  == <<at, snapshot, pending, reply, refresh, oper, file, job,
                 wave, revisions, latest, history, faults>>
vars        == <<logVars, brokerVars>>

attempts == log[1]
NoAttempts == [k \in {} |-> k]

NoFile == [status |-> "none", exec |-> NoExecution, dispatches |-> 0,
           lastFailures |-> 0, marker |-> {}]
ActiveFile == [NoFile EXCEPT !.status = "active"]

NoRefresh == [base |-> 0, seen |-> NoAttempts]
NoReconcile == [at |-> "away", base |-> 0, seen |-> NoAttempts]

Ended == file.status \in {"succeeded", "exhausted"}

Points == {"idle", "register", "registerWave", "registerRevision",
           "registerLatest", "create", "recover", "sync", "poll", "reconcile",
           "refresh", "writeLatest", "mark", "decide", "status", "submit",
           "record", "saveDispatch"}

BrokerTypeOK ==
  /\ TypeOK
  /\ at \in Points
  /\ IsDirectory(snapshot)
  /\ pending \in Executions \cup {NoExecution}
  /\ reply \in {"none", "failed", "succeeded", "exhausted"}
  /\ refresh.base \in 0..latest /\ IsDirectory(refresh.seen)
  /\ oper.at \in {"away", "read", "publish"}
  /\ oper.base \in 0..latest /\ IsDirectory(oper.seen)
  /\ file.status \in {"none", "active", "succeeded", "exhausted"}
  /\ file.exec \in Executions \cup {NoExecution}
  /\ file.dispatches \in Nat /\ file.lastFailures \in Nat
  /\ Cardinality(file.marker) <= 1 /\ \A d \in file.marker : IsDirectory(d)
  /\ job \in BOOLEAN /\ wave \in BOOLEAN
  /\ latest \in 0..Len(revisions)
  /\ \A i \in 1..Len(revisions) : IsDirectory(revisions[i])
  /\ \A i \in 1..Len(history) : history[i] \in Executions
  /\ faults \in 0..MaxFaults

-----------------------------------------------------------------------------
(* What the handler computes from the attempts it read. *)

Failures(dir) == Cardinality({k \in DOMAIN dir : dir[k].status = "failed"})

\* Mutant: any one record makes the shard complete.
CanonicalAnyStatus(dir) == Cardinality(DOMAIN dir) = 1

\* completeness(): a success, no duplicate.
Canonical(dir) ==
  Cardinality({k \in DOMAIN dir : dir[k].status = "succeeded"}) = 1

\* The failure budget, then exhausted_shards().
UsedUp(dir) ==
  \/ Failures(dir) >= MaxAttempts
  \/ Spent(dir) /\ ~HasSuccess(dir)

BackendTerminal == file.exec # NoExecution /\ Concluded(file.exec)
\* Mutant: the backend's statuses read too narrowly: queued is not running.
BackendStarted == file.exec # NoExecution /\ pc[file.exec] = "running"

BackendRunning == file.exec # NoExecution /\ ~Concluded(file.exec)

NoNewFailure == Failures(snapshot) <= file.lastFailures

\* Mutant: the last dispatch is not waited for.
OutOfDispatchesEarly == file.dispatches >= MaxAttempts

OutOfDispatches == BackendTerminal /\ file.dispatches >= MaxAttempts

\* Mutant: only a recorded failure calls for another dispatch.
ShouldDispatchOnFailure ==
  \/ file.dispatches = 0
  \/ file.dispatches < MaxAttempts /\ ~NoNewFailure

ShouldDispatch ==
  \/ file.dispatches = 0
  \/ /\ file.dispatches < MaxAttempts
     /\ ~NoNewFailure \/ BackendTerminal

\* Mutant: the dispatch history is not looked at.
SyncedNever(state) == state

\* Dispatches on record that the state does not know of are adopted.
Synced(state) ==
  LET n == Len(history)
      known == IF Failures(attempts) < n THEN Failures(attempts) ELSE n
  IN  IF n <= state.dispatches THEN state
      ELSE [state EXCEPT !.dispatches = n,
                         !.exec = history[n],
                         !.lastFailures = IF known > @ THEN known ELSE @]

-----------------------------------------------------------------------------
(* The handler ends and its memory is gone. *)
End(answer) ==
  /\ at' = "idle"
  /\ reply' = answer
  /\ snapshot' = NoAttempts
  /\ pending' = NoExecution
  /\ refresh' = NoRefresh

Goto(point) == at' = point /\ UNCHANGED <<snapshot, pending, reply, refresh>>

Fault == faults < MaxFaults /\ faults' = faults + 1

-----------------------------------------------------------------------------
(* A message of the client: where the request stands decides the path. *)

Receive(point) ==
  /\ at = "idle"
  /\ at' = point
  /\ reply' = "none"
  /\ UNCHANGED <<snapshot, pending, refresh, fileVars, faults>>

ReceiveNew == file.status = "none" /\ ~wave /\ Receive("register")

\* Registered, but the state file is missing.
ReceiveRegistered == file.status = "none" /\ wave /\ Receive("recover")

ReceiveActive == file.status = "active" /\ Receive("sync")

ReceiveSucceeded == file.status = "succeeded" /\ Receive("poll")

ReceiveExhausted ==
  /\ at = "idle"
  /\ file.status = "exhausted"
  /\ End("exhausted")
  /\ UNCHANGED <<fileVars, faults>>

-----------------------------------------------------------------------------
(* Registration, under the lifecycle lock: job.json, the closed wave, then *)
(* manifest revision 0 and latest.json, then the state file.               *)

RegisterJob ==
  /\ at = "register" /\ ~job
  /\ job' = TRUE
  /\ Goto("registerWave")
  /\ UNCHANGED <<file, wave, revisions, latest, history, faults>>

\* A job.json left by a crash carries another creation time, so it is "a
\* different job".
RegisterRefused ==
  /\ at = "register" /\ job
  /\ End("failed")
  /\ UNCHANGED <<fileVars, faults>>

RegisterWave ==
  /\ at = "registerWave"
  /\ wave' = TRUE
  /\ Goto("registerRevision")
  /\ UNCHANGED <<file, job, revisions, latest, history, faults>>

RegisterRevision ==
  /\ at = "registerRevision"
  /\ revisions' = Append(revisions, NoAttempts)
  /\ Goto("registerLatest")
  /\ UNCHANGED <<file, job, wave, latest, history, faults>>

RegisterLatest ==
  /\ at = "registerLatest"
  /\ latest' = Len(revisions)
  /\ Goto("create")
  /\ UNCHANGED <<file, job, wave, revisions, history, faults>>

CreateState ==
  /\ at = "create"
  /\ file' = ActiveFile
  /\ Goto("sync")
  /\ UNCHANGED <<job, wave, revisions, latest, history, faults>>

\* The state is rebuilt from the registration and the dispatch history.
\* A missing manifest is not written here.
RecoverState ==
  /\ at = "recover"
  /\ file' = Synced(ActiveFile)
  /\ Goto("sync")
  /\ UNCHANGED <<job, wave, revisions, latest, history, faults>>

-----------------------------------------------------------------------------
(* The drive loop. *)

SyncDispatches ==
  /\ at = "sync"
  /\ file' = Synced(file)
  /\ Goto("poll")
  /\ UNCHANGED <<job, wave, revisions, latest, history, faults>>

ReadAttempts ==
  /\ at = "poll"
  /\ snapshot' = attempts
  /\ at' = "reconcile"
  /\ UNCHANGED <<pending, reply, refresh, fileVars, faults>>

\* Nothing changed since the last reconciliation, or there is no manifest.
SkipReconcile ==
  /\ at = "reconcile"
  /\ \/ file.marker = {snapshot}
     \/ snapshot # NoAttempts /\ latest = 0
  /\ Goto("decide")
  /\ UNCHANGED <<fileVars, faults>>

NeedsReconcile ==
  at = "reconcile" /\ file.marker # {snapshot} /\ snapshot # NoAttempts
                   /\ latest > 0

\* reconcile_run() reads the manifest and refresh() the attempts, neither
\* with the lock.  One step: the compare-and-swap below lets the write happen
\* only if the manifest read at the second moment is the one read at the first.
ReadManifest ==
  /\ NeedsReconcile
  /\ refresh' = [base |-> latest, seen |-> attempts]
  /\ at' = "refresh"
  /\ UNCHANGED <<snapshot, pending, reply, fileVars, faults>>

\* The lifecycle lock is held from the comparison to latest.json, and nobody
\* waits for it.
BrokerHasLock == at \in {"registerWave", "registerRevision", "registerLatest",
                         "writeLatest"}
OperatorHasLock == oper.at = "publish"

\* Mutant: the next number is free, whatever manifest the caller has read.
CanWriteAny(base) == latest = Len(revisions)

\* The manifest is still the one read, and the next revision has no file.
CanWrite(base) == latest = base /\ Len(revisions) = base

\* Mutant: latest.json written before the revision file.
WriteLatestFirst ==
  /\ at = "refresh"
  /\ ~OperatorHasLock /\ CanWrite(refresh.base)
  /\ latest' = latest + 1
  /\ Goto("writeLatest")
  /\ UNCHANGED <<file, job, wave, revisions, history, faults>>

WriteRevision ==
  /\ at = "refresh"
  /\ ~OperatorHasLock /\ CanWrite(refresh.base)
  /\ revisions' = Append(revisions, refresh.seen)
  /\ at' = "writeLatest"
  /\ refresh' = NoRefresh
  /\ UNCHANGED <<snapshot, pending, reply>>
  /\ UNCHANGED <<file, job, wave, latest, history, faults>>

\* Mutant: the conflict is swallowed and the attempts are decided on.
RevisionConflictIgnored ==
  /\ at = "refresh"
  /\ OperatorHasLock \/ ~CanWrite(refresh.base)
  /\ at' = "decide"
  /\ refresh' = NoRefresh
  /\ UNCHANGED <<snapshot, pending, reply, fileVars, faults>>

\* The operator holds the lock or was faster, or the revision file exists
\* although latest.json is behind it: the client gets no terminal answer.
RevisionConflict ==
  /\ at = "refresh"
  /\ OperatorHasLock \/ ~CanWrite(refresh.base)
  /\ End("failed")
  /\ UNCHANGED <<fileVars, faults>>

WriteLatest ==
  /\ at = "writeLatest"
  /\ latest' = Len(revisions)
  /\ Goto("mark")
  /\ UNCHANGED <<file, job, wave, revisions, history, faults>>

\* Also taken at once when the snapshot is empty: there is nothing to merge.
SaveMarker ==
  /\ \/ at = "mark"
     \/ at = "reconcile" /\ snapshot = NoAttempts /\ file.marker # {snapshot}
  /\ file' = [file EXCEPT !.marker = {snapshot}]
  /\ Goto("decide")
  /\ UNCHANGED <<job, wave, revisions, latest, history, faults>>

SaveExhausted ==
  /\ file' = [file EXCEPT !.status = "exhausted"]
  /\ End("exhausted")
  /\ UNCHANGED <<job, wave, revisions, latest, history, faults>>

DecideExhausted ==
  /\ at = "decide" /\ file.status = "active"
  /\ UsedUp(snapshot)
  /\ SaveExhausted

DecideSucceeded ==
  /\ at = "decide" /\ file.status = "active"
  /\ ~UsedUp(snapshot) /\ Canonical(snapshot)
  /\ file' = [file EXCEPT !.status = "succeeded"]
  /\ End("succeeded")
  /\ UNCHANGED <<job, wave, revisions, latest, history, faults>>

DecideStatus ==
  /\ at = "decide" /\ file.status = "active"
  /\ ~UsedUp(snapshot) /\ ~Canonical(snapshot)
  /\ Goto("status")
  /\ UNCHANGED <<fileVars, faults>>

\* The request had already succeeded: the output is read again.
AnswerFromState ==
  /\ at = "decide" /\ file.status = "succeeded"
  /\ End(IF Canonical(snapshot) THEN "succeeded" ELSE "failed")
  /\ UNCHANGED <<fileVars, faults>>

StatusWait ==
  /\ at = "status"
  /\ \/ BackendRunning
     \/ file.dispatches > 0 /\ NoNewFailure /\ ~BackendTerminal
     \/ ~OutOfDispatches /\ ~ShouldDispatch
  /\ Goto("poll")
  /\ UNCHANGED <<fileVars, faults>>

\* Decided with the snapshot read before the backend was asked.
StatusExhausted ==
  /\ at = "status"
  /\ OutOfDispatches
  /\ SaveExhausted

StatusDispatch ==
  /\ at = "status"
  /\ ~BackendRunning
  /\ ~(file.dispatches > 0 /\ NoNewFailure /\ ~BackendTerminal)
  /\ ~OutOfDispatches
  /\ ShouldDispatch
  /\ Goto("submit")
  /\ UNCHANGED <<fileVars, faults>>

-----------------------------------------------------------------------------
(* A dispatch: the backend first, then the history, then the state file. *)

SubmitAccepted(e) ==
  /\ at = "submit"
  /\ Accept(e)
  /\ pending' = e
  /\ at' = "record"
  /\ UNCHANGED <<snapshot, reply, refresh, oper, fileVars, faults>>

\* The POST is not retried: the execution exists and nobody knows its id.
SubmitAnswerLost(e) ==
  /\ at = "submit"
  /\ Accept(e)
  /\ Fault
  /\ End("failed")
  /\ UNCHANGED <<oper, fileVars>>

\* Mutant: the wave's entry holds its last dispatch only.
RecordLastDispatch ==
  /\ at = "record"
  /\ history' = <<pending>>
  /\ Goto("saveDispatch")
  /\ UNCHANGED <<file, job, wave, revisions, latest, faults>>

RecordDispatch ==
  /\ at = "record"
  /\ history' = Append(history, pending)
  /\ Goto("saveDispatch")
  /\ UNCHANGED <<file, job, wave, revisions, latest, faults>>

SaveDispatch ==
  /\ at = "saveDispatch"
  /\ file' = [file EXCEPT !.dispatches = @ + 1,
                          !.exec = pending,
                          !.lastFailures = Failures(snapshot)]
  /\ pending' = NoExecution
  /\ at' = "poll"
  /\ UNCHANGED <<snapshot, reply, refresh>>
  /\ UNCHANGED <<job, wave, revisions, latest, history, faults>>

-----------------------------------------------------------------------------
(* Faults. *)

\* A lock timeout, an unreadable output, an error of the backend: the
\* handler gives up before it has changed anything.
CallFails ==
  /\ \/ at \in {"register", "refresh", "submit"}
     \/ at = "decide" /\ Canonical(snapshot)
     \/ at = "status" /\ file.exec # NoExecution
  /\ Fault
  /\ End("failed")
  /\ UNCHANGED fileVars

\* The broker process dies; the client's connection closes.
Crash ==
  /\ at # "idle"
  /\ Fault
  /\ End("none")
  /\ UNCHANGED fileVars

-----------------------------------------------------------------------------
(* The operator's reconcile command, a process of its own: the same read,  *)
(* comparison and two writes as the handler's.                             *)

OperatorReads ==
  /\ oper.at = "away"
  /\ latest > 0
  /\ Fault
  /\ oper' = [at |-> "read", base |-> latest, seen |-> attempts]
  /\ UNCHANGED <<handlerVars, fileVars>>

OperatorWrites ==
  /\ oper.at = "read"
  /\ ~BrokerHasLock /\ CanWrite(oper.base)
  /\ revisions' = Append(revisions, oper.seen)
  /\ oper' = [oper EXCEPT !.at = "publish"]
  /\ UNCHANGED <<handlerVars, file, job, wave, latest, history, faults>>

OperatorPublishes ==
  /\ oper.at = "publish"
  /\ latest' = Len(revisions)
  /\ oper' = NoReconcile
  /\ UNCHANGED <<handlerVars, file, job, wave, revisions, history, faults>>

OperatorGivesUp ==
  /\ oper.at = "read"
  /\ BrokerHasLock \/ ~CanWrite(oper.base)
  /\ oper' = NoReconcile
  /\ UNCHANGED <<handlerVars, fileVars, faults>>

\* Before its first write the command's death leaves nothing behind.
OperatorDies ==
  /\ oper.at = "publish"
  /\ Fault
  /\ oper' = NoReconcile
  /\ UNCHANGED <<handlerVars, fileVars>>

OperatorEnds == OperatorWrites \/ OperatorPublishes \/ OperatorGivesUp

OperatorStep == OperatorReads \/ OperatorEnds \/ OperatorDies

-----------------------------------------------------------------------------
(* Composition: the handler, its faults, the operator, and the executions. *)

BrokerOnlyStep ==
  \/ ReceiveNew \/ ReceiveRegistered \/ ReceiveActive
  \/ ReceiveSucceeded \/ ReceiveExhausted
  \/ RegisterJob \/ RegisterRefused \/ RegisterWave
  \/ RegisterRevision \/ RegisterLatest \/ CreateState \/ RecoverState
  \/ SyncDispatches \/ ReadAttempts
  \/ SkipReconcile \/ ReadManifest
  \/ WriteRevision \/ RevisionConflict \/ WriteLatest
  \/ SaveMarker
  \/ DecideExhausted \/ DecideSucceeded \/ DecideStatus \/ AnswerFromState
  \/ StatusWait \/ StatusExhausted \/ StatusDispatch
  \/ RecordDispatch \/ SaveDispatch

HandlerStep ==
  \/ BrokerOnlyStep /\ UNCHANGED <<logVars, oper>>
  \/ \E e \in Executions : SubmitAccepted(e)

FaultStep ==
  \/ (CallFails \/ Crash) /\ UNCHANGED <<logVars, oper>>
  \/ \E e \in Executions : SubmitAnswerLost(e)

ExecutionStep(e) == RunnerStep(e) /\ UNCHANGED brokerVars

Init ==
  /\ LogInit
  /\ at = "idle" /\ snapshot = NoAttempts /\ pending = NoExecution
  /\ reply = "none" /\ refresh = NoRefresh /\ oper = NoReconcile
  /\ file = NoFile /\ job = FALSE /\ wave = FALSE
  /\ revisions = <<>> /\ latest = 0 /\ history = <<>>
  /\ faults = 0

Next ==
  \/ HandlerStep
  \/ FaultStep
  \/ OperatorStep /\ UNCHANGED logVars
  \/ \E e \in Executions : ExecutionStep(e)

Spec == Init /\ [][Next]_vars

\* The client asks again until it has a terminal answer, the broker is
\* restarted when it dies, the backend gets on with what it accepted (some
\* execution of it, no matter which), and a command the operator has started
\* ends.  Faults and commands are not forced to happen.
FairSpec ==
  /\ Spec
  /\ WF_vars(HandlerStep)
  /\ WF_vars(OperatorEnds /\ UNCHANGED logVars)
  /\ WF_vars(\E e \in Executions : ExecutionStep(e))

-----------------------------------------------------------------------------
(* Properties *)

\* The dispatch budget holds across crashes: the durable history never has
\* more than max_attempts_per_shard dispatches of the wave.
RecordedDispatchBudget == Len(history) <= MaxAttempts

\* The state file never runs ahead of the history: what it counts was
\* recorded, and the execution it polls is the last one it counts.
StateFollowsHistory ==
  /\ file.dispatches <= Len(history)
  /\ file.exec = IF file.dispatches = 0 THEN NoExecution
                 ELSE history[file.dispatches]

\* Recorded executions never overlap: the next one is dispatched only when
\* every earlier one has ended, also when the state file had been behind.
RecordedExecutionsDoNotOverlap ==
  \A i \in 1..Len(history) : i < Len(history) => Concluded(history[i])

\* A request is closed as exhausted only with its budget used: every attempt
\* recorded as failed, or every dispatch made and ended.
ExhaustedMeansBudgetUsed ==
  file.status = "exhausted" =>
    \/ Failures(attempts) >= MaxAttempts
    \/ /\ Len(history) = MaxAttempts
       /\ \A i \in 1..Len(history) : Concluded(history[i])

\* A succeeded request has its success in the manifest the controller
\* publishes, unless the manifest was lost at registration.
SucceededIsReconciled ==
  file.status = "succeeded" =>
    latest = 0 \/ HasSuccess(revisions[latest])

\* Manifest revisions only add attempts: a later one never forgets what an
\* earlier one discovered, whoever wrote the two.
ManifestNeverForgets ==
  \A i, j \in 1..Len(revisions) : i < j => Keeps(revisions[j], revisions[i])

\* The broker implements the promise made to its client.
Promise == INSTANCE BatchRequest WITH
  status <- file.status,
  worked <- HasSuccess(attempts),
  answer <- reply
KeepsPromise == Promise!RequestSpec

\* A manifest revision file without its latest.json, or a job.json without
\* its wave: what a crash between two writes leaves for good.
Stranded ==
  \/ /\ latest < Len(revisions)
     /\ at \notin {"registerLatest", "writeLatest"} /\ oper.at # "publish"
  \/ job /\ ~wave /\ at # "registerWave"

\* A request the client keeps asking about ends, whatever calls fail and
\* wherever the broker crashes, unless the crash stranded a half-made write.
RequestEnds == at = "register" ~> (Ended \/ Stranded)

-----------------------------------------------------------------------------
(* Claims of the repository that the code does not keep. *)

\* "Current unsuccessful attempts": an exhausted request has no success.
ExhaustedMeansUnsuccessful ==
  file.status = "exhausted" => ~HasSuccess(attempts)

\* "Registry without manifest self-heals on exact retry": once the client's
\* retry has been carried to a terminal status, the manifest is there.
ManifestSelfHeals == Ended => latest > 0
=============================================================================
