------------------------------ MODULE ArtifactGC ------------------------------
(***************************************************************************)
(* Artifact payloads and their garbage collection.                         *)
(*                                                                         *)
(* Payloads are files named by their digest, so requests share them: the   *)
(* output of one may be the output or the input of another.  Collectors    *)
(* (one command per mode) plan without the lifecycle lock and delete under *)
(* it, payload by payload: intent, unlink, receipt, intent removed.  They  *)
(* may die between any two of these files.  Registrations, attempts,       *)
(* deliveries and holds are written under the same lock; the broker's      *)
(* request files and the policy's external reference files are not.        *)
(*                                                                         *)
(* A request's run is registered, its worker writes a payload and appends  *)
(* an attempt naming it, the broker reads the payload and saves the        *)
(* request as succeeded, the client commits the delivery.  When a worker   *)
(* is dispatched and when a request is exhausted is module BrokerRun; here *)
(* it may happen at any time the request is active.                        *)
(*                                                                         *)
(* Time is two facts: the retention since the last use of a payload is     *)
(* over (aged), the grace since a delivery is over (graceOver).            *)
(*                                                                         *)
(* Sources: lifecycle/gc.py, reachability.py, deletion.py, delivery.py,    *)
(* holds.py, lock.py, external_references.py, data_plane/local.py,         *)
(* broker/planning.py, broker/service.py.                                  *)
(***************************************************************************)
EXTENDS Naturals, FiniteSets

CONSTANTS
  Requests,    \* request ids of the broker
  Digests,     \* payload digests
  InputOf,     \* digest of a request's input
  OutputsOf,   \* digests its worker may produce
  Holdable,    \* digests an operator may hold
  Citable,     \* digests an external reference file may name
  Collectors,  \* collectors that are run, by their mode
  NoDigest,
  Free,        \* the lifecycle lock is free
  MaxFaults    \* bound on crashes and unreadable files together

ASSUME ArtifactGCAssumption ==
  /\ InputOf \in [Requests -> Digests]
  /\ OutputsOf \in [Requests -> SUBSET Digests]
  /\ Holdable \subseteq Digests /\ Citable \subseteq Digests
  /\ Collectors \subseteq {"normal", "legacy"}
  /\ NoDigest \notin Digests
  /\ Free \notin Requests \cup Collectors
  /\ Requests \cap Collectors = {}
  /\ MaxFaults \in Nat

VARIABLES
  payload,     \* digests whose file exists
  aged,        \* digests unused for longer than the legacy retention
  wave,        \* requests whose closed wave is registered
  manifest,    \* requests whose run has a manifest
  worker,      \* the digest a worker has written and not yet appended
  attempt,     \* the output of the run's successful attempt
  seen,        \* the output the broker has read and not yet saved
  status,      \* the request file's status
  output,      \* the request file's output digest
  delivered,   \* requests with a delivery record
  graceOver,   \* delivered requests whose grace is over
  holds,       \* digests held
  external,    \* digests named by external reference files
  unreadable,  \* an authoritative file cannot be read
  intents,     \* mode of the pending deletion intent of a digest
  receipts,    \* digests with a deletion receipt
  lock,        \* who holds the lifecycle lock
  at,          \* per collector: where it is
  plan,        \* per collector: the digests it has planned to delete
  index,       \* the apply that holds the lock: its reachability snapshot,
  todo,        \*   the digests it has still to look at
  cur,         \*   and the one in hand
  faults

runVars   == <<wave, manifest, worker, attempt, seen, status, output>>
sentVars  == <<delivered, graceOver>>
pinVars   == <<holds, external, unreadable>>
trailVars == <<intents, receipts>>
gcVars    == <<at, plan, index, todo, cur>>
vars == <<payload, aged, runVars, sentVars, pinVars, trailVars, lock, gcVars,
          faults>>

Terminal == {"succeeded", "exhausted"}
NoIndex == [protected |-> {}, aged |-> {}]

TypeOK ==
  /\ payload \subseteq Digests /\ aged \subseteq Digests
  /\ wave \subseteq Requests /\ manifest \subseteq Requests
  /\ worker \in [Requests -> Digests \cup {NoDigest}]
  /\ attempt \in [Requests -> Digests \cup {NoDigest}]
  /\ seen \in [Requests -> Digests \cup {NoDigest}]
  /\ status \in [Requests -> {"none", "active"} \cup Terminal]
  /\ output \in [Requests -> Digests \cup {NoDigest}]
  /\ delivered \subseteq Requests /\ graceOver \subseteq Requests
  /\ holds \subseteq Digests /\ external \subseteq Digests
  /\ unreadable \in BOOLEAN
  /\ intents \in [Digests -> {"none", "normal", "legacy"}]
  /\ receipts \subseteq Digests
  /\ lock \in {Free} \cup Requests \cup Collectors
  /\ at \in [Collectors -> {"idle", "planned", "converge", "apply"}]
  /\ plan \in [Collectors -> SUBSET Digests]
  /\ index \in [protected : SUBSET Digests, aged : SUBSET Digests]
  /\ todo \subseteq Digests /\ cur \in Digests \cup {NoDigest}
  /\ faults \in 0..MaxFaults

Init ==
  /\ payload = {} /\ aged = {} /\ wave = {} /\ manifest = {}
  /\ worker = [r \in Requests |-> NoDigest]
  /\ attempt = [r \in Requests |-> NoDigest]
  /\ seen = [r \in Requests |-> NoDigest]
  /\ status = [r \in Requests |-> "none"]
  /\ output = [r \in Requests |-> NoDigest]
  /\ delivered = {} /\ graceOver = {}
  /\ holds = {} /\ external = {} /\ unreadable = FALSE
  /\ intents = [d \in Digests |-> "none"] /\ receipts = {}
  /\ lock = Free /\ at = [m \in Collectors |-> "idle"]
  /\ plan = [m \in Collectors |-> {}]
  /\ index = NoIndex /\ todo = {} /\ cur = NoDigest /\ faults = 0

Fault == faults < MaxFaults /\ faults' = faults + 1

-----------------------------------------------------------------------------
(* What keeps a payload. *)

\* Mutant: only the request file tells.
LiveByFile(r) == status[r] = "active"

\* A run is live by its request file or by its manifest.
Live(r) ==
  \/ status[r] = "active"
  \/ r \in manifest /\ status[r] \notin Terminal

\* Mutant: an output is needed only until the request has succeeded.
ProtectedWhileLive ==
  {InputOf[r] : r \in {q \in wave : Live(q)}}
    \cup {d \in Digests : \E r \in manifest :
                             status[r] \notin Terminal /\ attempt[r] = d}
    \cup holds \cup external

\* Protected by a registered input, an attempt, an undelivered output, a hold
\* or an external reference.
Protected ==
  {InputOf[r] : r \in {q \in wave : Live(q)}}
    \cup {d \in Digests : \E r \in manifest :
                             status[r] \notin Terminal /\ attempt[r] = d}
    \cup {d \in Digests : \E r \in Requests \ delivered :
                             status[r] = "succeeded" /\ output[r] = d}
    \cup holds \cup external

Senders(d) == {r \in Requests : status[r] \in Terminal /\ output[r] = d}

\* Mutant: one delivery is enough for a shared payload.
EligibleAny(mode, d, old) ==
  IF mode = "normal"
  THEN Senders(d) \cap delivered \cap graceOver # {}
  ELSE Senders(d) \cap delivered = {} /\ d \in old

\* Due for deletion, given the payloads that are past their retention.
Eligible(mode, d, old) ==
  IF mode = "normal"
  THEN Senders(d) # {} /\ Senders(d) \subseteq delivered \cap graceOver
  ELSE Senders(d) \cap delivered = {} /\ d \in old

-----------------------------------------------------------------------------
(* Registration of a request, under the lock, file by file. *)

\* Mutant: a reference is published without looking at its payload.
ValidWithoutLook(d) == d \in Digests

ValidLocalRef(d) == d \in payload

\* A payload that is already there is left alone, its age included.
Store(d) ==
  /\ payload' = payload \cup {d}
  /\ aged' = IF d \in payload THEN aged ELSE aged \ {d}

RegisterInput(r) ==
  /\ lock = Free /\ r \notin wave
  /\ lock' = r
  /\ Store(InputOf[r])
  /\ UNCHANGED <<runVars, sentVars, pinVars, trailVars, gcVars, faults>>

RegisterWave(r) ==
  /\ lock = r /\ r \notin wave
  /\ wave' = wave \cup {r}
  /\ aged' = aged \ {InputOf[r]}
  /\ UNCHANGED <<payload, manifest, worker, attempt, seen, status, output,
                 sentVars, pinVars, trailVars, lock, gcVars, faults>>

RegisterManifest(r) ==
  /\ lock = r /\ r \in wave
  /\ manifest' = manifest \cup {r}
  /\ lock' = Free
  /\ UNCHANGED <<payload, aged, wave, worker, attempt, seen, status, output,
                 sentVars, pinVars, trailVars, gcVars, faults>>

\* The broker dies while it registers; the lock file is released with it.
RegistrationCrash(r) ==
  /\ lock = r
  /\ Fault
  /\ lock' = Free
  /\ UNCHANGED <<payload, aged, runVars, sentVars, pinVars, trailVars, gcVars>>

\* The request file follows, at once or when a retry finds the wave.
CreateState(r) ==
  /\ r \in wave /\ lock # r /\ status[r] = "none"
  /\ status' = [status EXCEPT ![r] = "active"]
  /\ UNCHANGED <<payload, aged, wave, manifest, worker, attempt, seen, output,
                 sentVars, pinVars, trailVars, lock, gcVars, faults>>

-----------------------------------------------------------------------------
(* The worker, the broker and the client of a request. *)

\* A payload that exists needs no lock.
WorkerWrites(r, d) ==
  /\ status[r] \in {"active", "exhausted"} /\ InputOf[r] \in payload
  /\ worker[r] = NoDigest /\ attempt[r] = NoDigest
  /\ d \in payload \/ lock = Free
  /\ Store(d)
  /\ worker' = [worker EXCEPT ![r] = d]
  /\ UNCHANGED <<wave, manifest, attempt, seen, status, output, sentVars,
                 pinVars, trailVars, lock, gcVars, faults>>

WorkerAppends(r) ==
  /\ worker[r] # NoDigest /\ lock = Free
  /\ ValidLocalRef(worker[r])
  /\ attempt' = [attempt EXCEPT ![r] = worker[r]]
  /\ worker' = [worker EXCEPT ![r] = NoDigest]
  /\ aged' = aged \ {worker[r]}
  /\ UNCHANGED <<payload, wave, manifest, seen, status, output, sentVars,
                 pinVars, trailVars, lock, gcVars, faults>>

\* The append is refused, by the lock or for want of the payload, or the
\* worker is killed.
WorkerFails(r) ==
  /\ worker[r] # NoDigest
  /\ worker' = [worker EXCEPT ![r] = NoDigest]
  /\ UNCHANGED <<payload, aged, wave, manifest, attempt, seen, status, output,
                 sentVars, pinVars, trailVars, lock, gcVars, faults>>

BrokerReads(r) ==
  /\ status[r] = "active" /\ seen[r] = NoDigest
  /\ attempt[r] \in payload
  /\ seen' = [seen EXCEPT ![r] = attempt[r]]
  /\ UNCHANGED <<payload, aged, wave, manifest, worker, attempt, status,
                 output, sentVars, pinVars, trailVars, lock, gcVars, faults>>

\* The request file is written without the lifecycle lock.
BrokerSucceeds(r) ==
  /\ seen[r] # NoDigest
  /\ status' = [status EXCEPT ![r] = "succeeded"]
  /\ output' = [output EXCEPT ![r] = seen[r]]
  /\ seen' = [seen EXCEPT ![r] = NoDigest]
  /\ aged' = aged \ {seen[r]}
  /\ UNCHANGED <<payload, wave, manifest, worker, attempt, sentVars, pinVars,
                 trailVars, lock, gcVars, faults>>

BrokerExhausts(r) ==
  /\ status[r] = "active" /\ seen[r] = NoDigest
  /\ status' = [status EXCEPT ![r] = "exhausted"]
  /\ UNCHANGED <<payload, aged, wave, manifest, worker, attempt, seen, output,
                 sentVars, pinVars, trailVars, lock, gcVars, faults>>

\* The broker dies between reading the output and saving the request.
BrokerForgets(r) ==
  /\ seen[r] # NoDigest
  /\ Fault
  /\ seen' = [seen EXCEPT ![r] = NoDigest]
  /\ UNCHANGED <<payload, aged, wave, manifest, worker, attempt, status,
                 output, sentVars, pinVars, trailVars, lock, gcVars>>

Commit(r) ==
  /\ status[r] = "succeeded" /\ lock = Free /\ r \notin delivered
  /\ delivered' = delivered \cup {r}
  /\ aged' = aged \ {output[r]}
  /\ UNCHANGED <<payload, runVars, graceOver, pinVars, trailVars, lock, gcVars, faults>>

-----------------------------------------------------------------------------
(* Operators, outside files and time. *)

PutHold(d) ==
  /\ lock = Free
  /\ holds' = holds \cup {d}
  /\ aged' = aged \ {d}
  /\ UNCHANGED <<payload, runVars, sentVars, external, unreadable, trailVars,
                 lock, gcVars, faults>>

RemoveHold(d) ==
  /\ lock = Free /\ d \in holds
  /\ holds' = holds \ {d}
  /\ UNCHANGED <<payload, aged, runVars, sentVars, external, unreadable,
                 trailVars, lock, gcVars, faults>>

\* An external reference file changes; its writer knows no lock.
Cite(d) ==
  /\ external' = IF d \in external THEN external \ {d} ELSE external \cup {d}
  /\ UNCHANGED <<payload, aged, runVars, sentVars, holds, unreadable,
                 trailVars, lock, gcVars, faults>>

Spoil ==
  /\ ~unreadable /\ Fault
  /\ unreadable' = TRUE
  /\ UNCHANGED <<payload, aged, runVars, sentVars, holds, external, trailVars,
                 lock, gcVars>>

Mend ==
  /\ unreadable
  /\ unreadable' = FALSE
  /\ UNCHANGED <<payload, aged, runVars, sentVars, holds, external, trailVars,
                 lock, gcVars, faults>>

\* A collector reads the clock once, before it takes the lock.
ClockRuns == lock \notin Collectors

Retire(d) ==
  /\ ClockRuns /\ d \in payload \ aged
  /\ aged' = aged \cup {d}
  /\ UNCHANGED <<payload, runVars, sentVars, pinVars, trailVars, lock, gcVars, faults>>

GracePasses(r) ==
  /\ ClockRuns /\ r \in delivered \ graceOver
  /\ graceOver' = graceOver \cup {r}
  /\ UNCHANGED <<payload, aged, runVars, delivered, pinVars, trailVars, lock,
                 gcVars, faults>>

-----------------------------------------------------------------------------
(* A collector: plan, lock, converge the pending intents, apply the plan. *)

\* Mutant: a payload that was ever an input is not planned for.
CandidatesNoInputs(m) ==
  {d \in payload \ (Protected \cup receipts) :
     Eligible(m, d, aged) /\ \A r \in wave : InputOf[r] # d}

Candidates(m) ==
  {d \in payload \ (Protected \cup receipts) : Eligible(m, d, aged)}

\* The collector is done, or dead, and its memory is gone.
Rest(m) ==
  /\ at' = [at EXCEPT ![m] = "idle"]
  /\ plan' = [plan EXCEPT ![m] = {}]
  /\ index' = NoIndex /\ todo' = {} /\ cur' = NoDigest

\* Without the lock.  An unreadable file blocks the plan.
Plan(m) ==
  /\ at[m] = "idle" /\ ~unreadable
  /\ at' = [at EXCEPT ![m] = "planned"]
  /\ plan' = [plan EXCEPT ![m] = Candidates(m)]
  /\ UNCHANGED <<payload, aged, runVars, sentVars, pinVars, trailVars, lock,
                 index, todo, cur, faults>>

\* The lock is taken, or the fresh index is blocked.
GiveUp(m) ==
  /\ at[m] = "planned" /\ (lock # Free \/ unreadable)
  /\ at' = [at EXCEPT ![m] = "idle"]
  /\ plan' = [plan EXCEPT ![m] = {}]
  /\ UNCHANGED <<payload, aged, runVars, sentVars, pinVars, trailVars, lock,
                 index, todo, cur, faults>>

\* Mutant: intents of an earlier apply are not looked for.
PendingNone == {}

\* Mutant: only intents whose payload has gone are looked for.
PendingUnlinked == {d \in Digests \ payload : intents[d] # "none"}

Pending == {d \in Digests : intents[d] # "none"}

StartApply(m) ==
  /\ at[m] = "planned" /\ lock = Free /\ ~unreadable
  /\ lock' = m
  /\ at' = [at EXCEPT ![m] = "converge"]
  /\ index' = [protected |-> Protected, aged |-> aged]
  /\ todo' = Pending
  /\ UNCHANGED <<payload, aged, runVars, sentVars, pinVars, trailVars, plan,
                 cur, faults>>

\* d is the payload in hand, or the next one.
InHand(d) == d \in todo /\ cur = d
IsNext(d) == d \in todo /\ cur = NoDigest
Resumed(m, d) == at[m] = "converge" /\ IsNext(d)

\* Mutant: the fresh snapshot is not asked again.
DueAsPlanned(d, mode) == Eligible(mode, d, index.aged)

Due(d, mode) == d \notin index.protected /\ Eligible(mode, d, index.aged)

\* An intent is dropped when its payload is needed again.
AbandonIntent(m, d) ==
  /\ lock = m /\ Resumed(m, d)
  /\ d \in payload \ receipts /\ ~Due(d, intents[d])
  /\ intents' = [intents EXCEPT ![d] = "none"]
  /\ todo' = todo \ {d}
  /\ UNCHANGED <<payload, aged, runVars, sentVars, pinVars, receipts, lock,
                 at, plan, index, cur, faults>>

\* A candidate that is settled, needed again or not due any more.  One whose
\* payload has gone without a trace is given its receipt.
PassOver(m, d) ==
  /\ lock = m /\ at[m] = "apply" /\ IsNext(d)
  /\ d \in receipts \/ intents[d] # "none" \/ d \notin payload \/ ~Due(d, m)
  /\ receipts' = IF d \in payload \cup index.protected \/ intents[d] # "none"
                 THEN receipts ELSE receipts \cup {d}
  /\ todo' = todo \ {d}
  /\ UNCHANGED <<payload, aged, runVars, sentVars, pinVars, intents, lock,
                 at, plan, index, cur, faults>>

SaveIntent(m, d) ==
  /\ lock = m /\ at[m] = "apply" /\ IsNext(d)
  /\ d \in payload \ receipts /\ intents[d] = "none" /\ Due(d, m)
  /\ intents' = [intents EXCEPT ![d] = m]
  /\ cur' = d
  /\ UNCHANGED <<payload, aged, runVars, sentVars, pinVars, receipts, lock,
                 at, plan, index, todo, faults>>

\* The next three steps finish a deletion, of this apply or of a dead one.
Unlink(m, d) ==
  /\ lock = m /\ d \in payload \ receipts
  /\ \/ at[m] = "apply" /\ InHand(d)
     \/ Resumed(m, d) /\ Due(d, intents[d])
  /\ payload' = payload \ {d}
  /\ cur' = d
  /\ UNCHANGED <<aged, runVars, sentVars, pinVars, trailVars, lock,
                 at, plan, index, todo, faults>>

SaveReceipt(m, d) ==
  /\ lock = m /\ d \notin payload \cup receipts
  /\ InHand(d) \/ Resumed(m, d)
  /\ receipts' = receipts \cup {d}
  /\ cur' = d
  /\ UNCHANGED <<payload, aged, runVars, sentVars, pinVars, intents, lock,
                 at, plan, index, todo, faults>>

\* Mutant: the intent is removed before the receipt is saved.
FinalizeEarly(m, d) ==
  /\ lock = m /\ (d \in receipts \/ d \notin payload)
  /\ InHand(d) \/ Resumed(m, d)
  /\ intents' = [intents EXCEPT ![d] = "none"]
  /\ todo' = todo \ {d} /\ cur' = NoDigest
  /\ UNCHANGED <<payload, aged, runVars, sentVars, pinVars, receipts, lock,
                 at, plan, index, faults>>

FinalizeIntent(m, d) ==
  /\ lock = m /\ d \in receipts
  /\ InHand(d) \/ Resumed(m, d)
  /\ intents' = [intents EXCEPT ![d] = "none"]
  /\ todo' = todo \ {d} /\ cur' = NoDigest
  /\ UNCHANGED <<payload, aged, runVars, sentVars, pinVars, receipts, lock,
                 at, plan, index, faults>>

ApplyPlan(m) ==
  /\ lock = m /\ at[m] = "converge" /\ todo = {}
  /\ at' = [at EXCEPT ![m] = "apply"]
  /\ todo' = plan[m]
  /\ UNCHANGED <<payload, aged, runVars, sentVars, pinVars, trailVars, lock,
                 plan, index, cur, faults>>

\* Delivered payloads that have gone without a trace get their receipts.
EndApply(m) ==
  /\ lock = m /\ at[m] = "apply" /\ todo = {}
  /\ receipts' = receipts \cup
       {d \in Digests \ payload :
          Due(d, m) /\ \E r \in delivered : output[r] = d}
  /\ lock' = Free /\ Rest(m)
  /\ UNCHANGED <<payload, aged, runVars, sentVars, pinVars, intents, faults>>

CollectorCrash(m) ==
  /\ lock = m
  /\ Fault
  /\ lock' = Free /\ Rest(m)
  /\ UNCHANGED <<payload, aged, runVars, sentVars, pinVars, trailVars>>

-----------------------------------------------------------------------------
RequestStep(r) ==
  \/ RegisterInput(r) \/ RegisterWave(r) \/ RegisterManifest(r)
  \/ RegistrationCrash(r) \/ CreateState(r)
  \/ \E d \in OutputsOf[r] : WorkerWrites(r, d)
  \/ WorkerAppends(r) \/ WorkerFails(r)
  \/ BrokerReads(r) \/ BrokerSucceeds(r) \/ BrokerExhausts(r)
  \/ BrokerForgets(r) \/ Commit(r) \/ GracePasses(r)

OutsideStep ==
  \/ \E d \in Holdable : PutHold(d) \/ RemoveHold(d)
  \/ \E d \in Citable : Cite(d)
  \/ \E d \in Digests : Retire(d)
  \/ Spoil \/ Mend

CollectorStep(m) ==
  \/ Plan(m) \/ GiveUp(m) \/ StartApply(m) \/ ApplyPlan(m) \/ EndApply(m)
  \/ \E d \in Digests :
       \/ AbandonIntent(m, d) \/ PassOver(m, d) \/ SaveIntent(m, d)
       \/ Unlink(m, d) \/ SaveReceipt(m, d) \/ FinalizeIntent(m, d)

Next ==
  \/ \E r \in Requests : RequestStep(r)
  \/ \E m \in Collectors : CollectorStep(m) \/ CollectorCrash(m)
  \/ OutsideStep

Spec == Init /\ [][Next]_vars

-----------------------------------------------------------------------------
(* Properties. *)

Deleted == payload \ payload'

\* What a live run has registered or published stays readable: its input for
\* the next dispatch, its attempt's output for the broker.  A worker's write
\* and its append are two sections of the lock, and a collection in between
\* must make the append fail (local.py:233, reachability.py:313).
LiveRunKept ==
  \A r \in manifest :
    status[r] \notin Terminal =>
      /\ InputOf[r] \in payload
      /\ attempt[r] \in payload \cup {NoDigest}

\* The output of a succeeded request is there until the client has committed
\* its delivery, although the broker saves the request while a collector works
\* with a snapshot in which it was still active (gc.py:305-318,
\* service.py:384).
UndeliveredKept ==
  \A r \in manifest \ delivered :
    status[r] = "succeeded" => output[r] \in payload

\* The conjuncts that make the above inductive.  Only the holder of the lock is
\* inside an apply; a run never loses its attempt; the broker has read the
\* attempt it will save.
LockInv ==
  /\ \A m \in Collectors :
       at[m] \in {"converge", "apply"} <=> lock = m
  /\ cur \in todo \cup {NoDigest}
  /\ lock \notin Collectors => cur = NoDigest
  /\ \A r \in Requests :
       lock = r => InputOf[r] \in payload /\ status[r] = "none"

RunInv ==
  /\ manifest \subseteq wave
  /\ \A r \in Requests :
       /\ r \notin wave => status[r] = "none"
       /\ status[r] = "none" => worker[r] = NoDigest /\ attempt[r] = NoDigest
       /\ worker[r] # NoDigest => attempt[r] = NoDigest
       /\ seen[r] # NoDigest => status[r] = "active" /\ seen[r] = attempt[r]
       /\ output[r] = IF status[r] = "succeeded" THEN attempt[r] ELSE NoDigest
       /\ status[r] = "succeeded" => attempt[r] # NoDigest

\* While a collector holds the lock, its snapshot protects all that is needed,
\* and the payload in hand is none of it, whatever the broker saves meanwhile.
SnapshotInv ==
  lock \in Collectors =>
    /\ holds \subseteq index.protected
    /\ \A r \in manifest :
         /\ status[r] \notin Terminal =>
              {InputOf[r], attempt[r]} \subseteq index.protected \cup {NoDigest}
         /\ status[r] = "succeeded" /\ r \notin delivered =>
              output[r] \in index.protected
    /\ at[lock] = "converge" => \A d \in todo : intents[d] # "none"
    /\ at[lock] = "apply" /\ cur # NoDigest =>
         /\ cur \notin index.protected
         /\ intents[cur] # "none"
         /\ Senders(cur) \cap manifest \subseteq graceOver

\* The inductive invariant of the safety proofs.
GCIInv ==
  /\ TypeOK /\ LockInv /\ RunInv /\ SnapshotInv
  /\ LiveRunKept /\ UndeliveredKept

\* The output of every succeeded, undelivered request stays, as the test at
\* test_artifact_lifecycle.py:308 says.  A run without manifest breaks it: its
\* attempt is not protected while the request is active, and a collection that
\* took its snapshot before the request was saved deletes the output.
SucceededOutputStays ==
  \A r \in Requests \ delivered :
    status[r] = "succeeded" => output[r] \in payload

\* A collected output leaves a trace whatever dies when: a pending intent or a
\* receipt.  A candidate of an apply that vanished has one too, so the repair
\* of payloads without a trace (gc.py:383, gc.py:475) is never needed.
MissingIsAccounted ==
  LET traced == receipts \cup {d \in Digests : intents[d] # "none"}
  IN  /\ \A r \in Requests : status[r] = "succeeded" =>
             output[r] \in payload \cup traced
      /\ \A m \in Collectors : plan[m] \subseteq payload \cup traced

\* A payload under hold is never unlinked, held before or after the plan, and
\* neither by a plan nor by the intent of a collector that died (gc.py:447).
HeldStays == [][Deleted \cap holds = {}]_vars

\* A payload that several requests have as output goes only when the grace of all
\* their deliveries is over, in either mode, if their runs have a manifest
\* (gc.py:639).
SharedWaitsForAll ==
  [][\A d \in Deleted : Senders(d) \cap manifest \subseteq graceOver]_vars

\* An apply that ends leaves no intent behind, its own or an older one
\* (gc.py:320, gc.py:418).
ApplySettles ==
  [][\A m \in Collectors :
       at[m] = "apply" /\ at'[m] = "idle" /\ faults' = faults =>
         \A d \in Digests : intents'[d] = "none"]_vars

-----------------------------------------------------------------------------
(* Fairness: collectors are run again and again and meet a free lock now and *)
(* then; a registration that holds the lock goes on; spoilt files are mended. *)

Fairness ==
  /\ \A m \in Collectors : WF_vars(CollectorStep(m)) /\ SF_vars(StartApply(m))
  /\ \A r \in Requests : WF_vars(RegisterWave(r) \/ RegisterManifest(r))
  /\ WF_vars(Mend)

FairSpec == Spec /\ Fairness

\* Whatever a crash leaves half done is settled by later collections
\* (gc.py:423).
IntentsConverge ==
  \A d \in Digests : intents[d] # "none" ~> intents[d] = "none"

Garbage(m, d) ==
  d \in payload \ (Protected \cup receipts) /\ Eligible(m, d, aged)

\* A payload that is due and stays due is collected, unless it was collected
\* before: the receipt of an earlier deletion exempts it for good (gc.py:224).
GarbageCollected ==
  \A m \in Collectors, d \in Digests : []<>~Garbage(m, d)
=============================================================================
