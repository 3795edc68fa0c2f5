----------------------------- MODULE AttemptLog -----------------------------
(***************************************************************************)
(* The attempt directory of one run and the workflow executions that       *)
(* append to it.                                                           *)
(*                                                                         *)
(* A closed wave of shards may be dispatched more than once: a retry, or a *)
(* dispatch whose answer the controller lost.  Every accepted dispatch is  *)
(* one workflow execution on a public runner.  It reads the attempts of    *)
(* the run ONCE, walks the shards of the wave in order, runs those that    *)
(* still need an attempt and posts one immutable record per shard to the   *)
(* private data plane.  Nothing stops two executions from overlapping, so  *)
(* what keeps the directory meaningful is the attempt id: the ordinal is   *)
(* the number of attempts the execution READ plus one, and the data plane  *)
(* refuses a different record under an id it already holds.                *)
(*                                                                         *)
(* Sources: worker/execute_wave.py (execute_private_wave),                 *)
(* data_plane/local.py (append_attempt, read_attempts) and                 *)
(* data_plane/service.py (dispatch).                                       *)
(***************************************************************************)
EXTENDS Naturals, FiniteSets

CONSTANTS
  Executions,   \* workflow executions the backend may ever create (a bound), by
                \* the numbers it gives them
  NumShards,    \* shards of the closed wave, worked on in this order
  MaxAttempts   \* execution.max_attempts_per_shard

ASSUME AttemptLogAssumption ==
  /\ Executions \subseteq Nat
  /\ NumShards \in Nat \ {0}
  /\ MaxAttempts \in Nat \ {0}

Shards == 1..NumShards

VARIABLES
  log,      \* log[s]: the attempt files of shard s, from ordinal to record
  pc,       \* what each execution is doing
  prior,    \* prior[e]: the attempts execution e read when it started
  cursor,   \* cursor[e]: the shard execution e is working on
  outcome,  \* outcome[e]: status of the record e is about to post
  failed    \* failed[e]: e has posted a failed attempt (wave_failures > 0)

logVars == <<log, pc, prior, cursor, outcome, failed>>

Status == {"succeeded", "failed"}
Record == [by : Executions, status : Status]

(***************************************************************************)
(* Records of two executions are never equal: they carry start and finish  *)
(* times and, on success, their own output.  "by" stands for those fields. *)
(***************************************************************************)
IsDirectory(dir) ==
  /\ DOMAIN dir \subseteq Nat \ {0}
  /\ \A k \in DOMAIN dir : dir[k] \in Record

EmptyLog == [s \in Shards |-> [k \in {} |-> k]]

Stages == {"absent", "queued", "running", "appending", "succeeded", "failed"}
Concluded(e) == pc[e] \in {"succeeded", "failed"}

TypeOK ==
  /\ DOMAIN log = Shards
  /\ \A s \in Shards : IsDirectory(log[s])
  /\ pc \in [Executions -> Stages]
  /\ DOMAIN prior = Executions
  /\ \A e \in Executions :
       /\ DOMAIN prior[e] = Shards
       /\ \A s \in Shards : IsDirectory(prior[e][s])
  /\ cursor \in [Executions -> 1..(NumShards + 1)]
  /\ outcome \in [Executions -> Status \cup {"none"}]
  /\ failed \in [Executions -> BOOLEAN]

-----------------------------------------------------------------------------
(* The directory of one shard, and what a reader of it decides. *)

Count(dir) == Cardinality(DOMAIN dir)

HasSuccess(dir) == \E k \in DOMAIN dir : dir[k].status = "succeeded"

\* Mutant: the budget compared with > instead of >=.
SpentOneLate(dir) == Count(dir) > MaxAttempts

Spent(dir) == Count(dir) >= MaxAttempts

\* The worker skips a shard that succeeded or that has no attempt left.  (A policy
\* that does not resume would skip none; broker runs always resume.)
NeedsAttempt(dir) == ~HasSuccess(dir) /\ ~Spent(dir)

\* Mutant: the attempts of the whole run counted, not those of the shard.
OrdinalOverRun(e) ==
  Cardinality(UNION {{<<s, k>> : k \in DOMAIN prior[e][s]} : s \in Shards}) + 1

\* Mutant: the directory read again when the record is posted.
OrdinalFromLog(e) == Count(log[cursor[e]]) + 1

NextOrdinal(e) == Count(prior[e][cursor[e]]) + 1

\* The directory dir with the file k added.
WithRecord(dir, k, r) ==
  [i \in (DOMAIN dir) \cup {k} |-> IF i = k THEN r ELSE dir[i]]

-----------------------------------------------------------------------------
LogInit ==
  /\ log = EmptyLog
  /\ pc = [e \in Executions |-> "absent"]
  /\ prior = [e \in Executions |-> EmptyLog]
  /\ cursor = [e \in Executions |-> 1]
  /\ outcome = [e \in Executions |-> "none"]
  /\ failed = [e \in Executions |-> FALSE]

\* The backend accepts a dispatch: a queued workflow execution exists.  It is the
\* least of those that do not exist yet: run ids grow.
Accept(e) ==
  /\ pc[e] = "absent"
  /\ \A f \in Executions : pc[f] = "absent" => e <= f
  /\ pc' = [pc EXCEPT ![e] = "queued"]
  /\ UNCHANGED <<log, prior, cursor, outcome, failed>>

\* The runner resolves the closed wave and reads the run's attempts, once.
ReadPrior(e) ==
  /\ pc[e] = "queued"
  /\ pc' = [pc EXCEPT ![e] = "running"]
  /\ prior' = [prior EXCEPT ![e] = log]
  /\ UNCHANGED <<log, cursor, outcome, failed>>

SkipShard(e) ==
  /\ pc[e] = "running"
  /\ cursor[e] \in Shards
  /\ ~NeedsAttempt(prior[e][cursor[e]])
  /\ cursor' = [cursor EXCEPT ![e] = @ + 1]
  /\ UNCHANGED <<log, pc, prior, outcome, failed>>

\* Every stage error of a shard becomes a failed attempt record.
RunShard(e) ==
  /\ pc[e] = "running"
  /\ cursor[e] \in Shards
  /\ NeedsAttempt(prior[e][cursor[e]])
  /\ \E result \in Status : outcome' = [outcome EXCEPT ![e] = result]
  /\ pc' = [pc EXCEPT ![e] = "appending"]
  /\ UNCHANGED <<log, prior, cursor, failed>>

\* Mutant: the data plane overwrites the file it finds.
StoreOverwriting(e) ==
  LET s == cursor[e]
  IN  log' = [log EXCEPT ![s] =
                WithRecord(@, NextOrdinal(e), [by |-> e, status |-> outcome[e]])]

\* The attempt file does not exist yet: the data plane writes it.
StoreRecord(e) ==
  LET s == cursor[e]
      k == NextOrdinal(e)
  IN  /\ k \notin DOMAIN log[s]
      /\ log' = [log EXCEPT ![s] =
                   WithRecord(@, k, [by |-> e, status |-> outcome[e]])]

AppendStored(e) ==
  /\ pc[e] = "appending"
  /\ StoreRecord(e)
  /\ pc' = [pc EXCEPT ![e] = "running"]
  /\ cursor' = [cursor EXCEPT ![e] = @ + 1]
  /\ failed' = [failed EXCEPT ![e] = @ \/ outcome[e] = "failed"]
  /\ outcome' = [outcome EXCEPT ![e] = "none"]
  /\ UNCHANGED prior

\* The worker process ends; what it had in memory is gone.
Exit(e, conclusion) ==
  /\ pc' = [pc EXCEPT ![e] = conclusion]
  /\ prior' = [prior EXCEPT ![e] = EmptyLog]
  /\ cursor' = [cursor EXCEPT ![e] = 1]
  /\ outcome' = [outcome EXCEPT ![e] = "none"]
  /\ failed' = [failed EXCEPT ![e] = FALSE]

\* The record is on disk but the answer is lost: the client raises, and
\* nothing in the worker catches it.
AppendAnswerLost(e) ==
  /\ pc[e] = "appending"
  /\ StoreRecord(e)
  /\ Exit(e, "failed")

\* Mutant: the conflict is caught and the shard run again, with the attempts
\* read at the start.
ConflictRetried(e) ==
  /\ pc[e] = "appending"
  /\ NextOrdinal(e) \in DOMAIN log[cursor[e]]
  /\ pc' = [pc EXCEPT ![e] = "running"]
  /\ outcome' = [outcome EXCEPT ![e] = "none"]
  /\ UNCHANGED <<log, prior, cursor, failed>>

\* Another execution holds the id: 409, which the worker does not catch.
AppendConflict(e) ==
  /\ pc[e] = "appending"
  /\ NextOrdinal(e) \in DOMAIN log[cursor[e]]
  /\ Exit(e, "failed")
  /\ UNCHANGED log

\* Mutant: the failures of the wave are forgotten.
ConcludeGreen(e) ==
  /\ pc[e] = "running"
  /\ cursor[e] = NumShards + 1
  /\ Exit(e, "succeeded")
  /\ UNCHANGED log

\* The whole wave was walked; a failed shard fails the workflow.
Conclude(e) ==
  /\ pc[e] = "running"
  /\ cursor[e] = NumShards + 1
  /\ Exit(e, IF failed[e] THEN "failed" ELSE "succeeded")
  /\ UNCHANGED log

\* The runner dies, is cancelled or times out, or a call to the data plane
\* fails before it takes effect.
Abort(e) ==
  /\ pc[e] \in {"queued", "running", "appending"}
  /\ Exit(e, "failed")
  /\ UNCHANGED log

-----------------------------------------------------------------------------
\* What an execution does by itself once the backend has accepted it.
RunnerStep(e) ==
  \/ ReadPrior(e)
  \/ SkipShard(e)
  \/ RunShard(e)
  \/ AppendStored(e)
  \/ AppendAnswerLost(e)
  \/ AppendConflict(e)
  \/ Conclude(e)
  \/ Abort(e)

LogNext == \E e \in Executions : Accept(e) \/ RunnerStep(e)

LogSpec == LogInit /\ [][LogNext]_logVars

\* The backend runs or times out whatever it accepted.
LogFairSpec == LogSpec /\ \A e \in Executions : WF_logVars(RunnerStep(e))

-----------------------------------------------------------------------------
(* Properties *)

\* However many executions overlap, the ordinals recorded for a shard are
\* 1..n without a gap: an attempt id is never skipped by a stale reader.
OrdinalsArePrefix ==
  \A s \in Shards : DOMAIN log[s] = 1..Count(log[s])

\* The duplicate_shard_ids of completeness() stay empty: two executions
\* never both record a success of one shard, whatever they had read.
AtMostOneSuccess ==
  \A s \in Shards : \A j, k \in DOMAIN log[s] :
    log[s][j].status = "succeeded" /\ log[s][k].status = "succeeded" => j = k

\* The attempt budget holds across executions, not only within each one.
AttemptBudget ==
  \A s \in Shards : Count(log[s]) <= MaxAttempts

\* A workflow that ended green leaves nothing to retry: every shard of the
\* wave has a success, or no attempt left.
GreenMeansNothingRetryable ==
  \A e \in Executions : pc[e] = "succeeded" =>
    \A s \in Shards : ~NeedsAttempt(log[s])

-----------------------------------------------------------------------------
(* The inductive invariant behind the four properties above. *)

IsPrefix(dir) == Count(dir) \in Nat /\ DOMAIN dir = 1..Count(dir)

SuccessEnds(dir) ==
  \A j, k \in DOMAIN dir : dir[j].status = "succeeded" => k <= j

\* new still holds every record of old, unchanged.
Keeps(new, old) ==
  \A k \in DOMAIN old : k \in DOMAIN new /\ new[k] = old[k]

\* The directory is a prefix that ends at its first success.
LogInv ==
  \A s \in Shards :
    IsPrefix(log[s]) /\ SuccessEnds(log[s]) /\ Count(log[s]) <= MaxAttempts

\* What an execution read is an older directory, never another one.
PriorInv ==
  \A e \in Executions : \A s \in Shards :
    IsPrefix(prior[e][s]) /\ Keeps(log[s], prior[e][s])

\* A record is posted only for a shard that needed one when it was read.
StageInv ==
  \A e \in Executions : pc[e] = "appending" =>
    /\ cursor[e] \in Shards
    /\ outcome[e] \in Status
    /\ NeedsAttempt(prior[e][cursor[e]])

\* The shards an execution has left behind without a failure of its own.
WalkInv ==
  \A e \in Executions : ~failed[e] =>
    \A s \in Shards : s < cursor[e] => ~NeedsAttempt(log[s])

\* The conjunction is inductive: a stale execution whose ordinal is free
\* has read the whole directory, so it appends behind a failed attempt.
LogIInv ==
  TypeOK /\ LogInv /\ PriorInv /\ StageInv /\ WalkInv
         /\ GreenMeansNothingRetryable

-----------------------------------------------------------------------------
\* Attempt records are immutable: no step changes or removes one.
RecordsAreImmutable ==
  [][\A s \in Shards : \A k \in DOMAIN log[s] :
       k \in DOMAIN log'[s] /\ log'[s][k] = log[s][k]]_logVars

\* Every accepted execution ends, however its shards and calls turn out.
EveryExecutionConcludes ==
  \A e \in Executions : pc[e] = "queued" ~> Concluded(e)
=============================================================================
