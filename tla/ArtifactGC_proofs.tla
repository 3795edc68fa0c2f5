-------------------------- MODULE ArtifactGC_proofs --------------------------
(***************************************************************************)
(* Proofs that collections never take what is needed, for every number of  *)
(* requests, digests and faults.                                           *)
(***************************************************************************)
EXTENDS ArtifactGC, TLAPS

USE DEF runVars, sentVars, pinVars, trailVars, gcVars, Fault

\* A step of a request keeps every variable in its range.
LEMMA RequestType ==
  ASSUME TypeOK, NEW r \in Requests, RequestStep(r)
  PROVE  TypeOK'
<1> USE ArtifactGCAssumption DEF TypeOK
<1>1. CASE RegisterInput(r)
  BY <1>1 DEF RegisterInput, Store
<1>2. CASE RegisterWave(r)
  BY <1>2 DEF RegisterWave
<1>3. CASE RegisterManifest(r)
  BY <1>3 DEF RegisterManifest
<1>4. CASE RegistrationCrash(r)
  BY <1>4 DEF RegistrationCrash
<1>5. CASE CreateState(r)
  BY <1>5 DEF CreateState
<1>6. ASSUME NEW d \in OutputsOf[r], WorkerWrites(r, d) PROVE TypeOK'
  BY <1>6 DEF WorkerWrites, Store
<1>7. CASE WorkerAppends(r)
  BY <1>7 DEF WorkerAppends, ValidLocalRef
<1>8. CASE WorkerFails(r)
  BY <1>8 DEF WorkerFails
<1>9. CASE BrokerReads(r)
  BY <1>9 DEF BrokerReads
<1>10. CASE BrokerSucceeds(r)
  BY <1>10 DEF BrokerSucceeds, Terminal
<1>11. CASE BrokerExhausts(r)
  BY <1>11 DEF BrokerExhausts, Terminal
<1>12. CASE BrokerForgets(r)
  BY <1>12 DEF BrokerForgets
<1>13. CASE Commit(r) \/ GracePasses(r)
  BY <1>13 DEF Commit, GracePasses
<1> QED
  BY <1>1, <1>2, <1>3, <1>4, <1>5, <1>6, <1>7, <1>8, <1>9, <1>10, <1>11,
     <1>12, <1>13 DEF RequestStep

\* So does a step of an operator, an outside file or the clock.
LEMMA OutsideType ==
  ASSUME TypeOK, OutsideStep
  PROVE  TypeOK'
<1> USE ArtifactGCAssumption DEF TypeOK
<1>1. ASSUME NEW d \in Holdable, PutHold(d) \/ RemoveHold(d) PROVE TypeOK'
  BY <1>1 DEF PutHold, RemoveHold
<1>2. ASSUME NEW d \in Citable, Cite(d) PROVE TypeOK'
  BY <1>2 DEF Cite
<1>3. ASSUME NEW d \in Digests, Retire(d) PROVE TypeOK'
  BY <1>3 DEF Retire
<1>4. CASE Spoil \/ Mend
  <2>1. unreadable' \in BOOLEAN
    BY <1>4, Zenon DEF Spoil, Mend
  <2>2. UNCHANGED <<payload, aged, wave, manifest, worker, attempt, seen,
                    status, output, delivered, graceOver, holds, external,
                    intents, receipts, lock, at, plan, index, todo, cur>>
        /\ faults' \in 0..MaxFaults
    BY <1>4 DEF Spoil, Mend
  <2> QED
    BY <2>1, <2>2
<1> QED
  BY <1>1, <1>2, <1>3, <1>4 DEF OutsideStep

\* Only digests are ever protected.
LEMMA ProtectedDigests ==
  ASSUME TypeOK
  PROVE  Protected \subseteq Digests
BY ArtifactGCAssumption DEF TypeOK, Protected

\* And a step of a collector.
LEMMA CollectorType ==
  ASSUME TypeOK, NEW m \in Collectors, CollectorStep(m) \/ CollectorCrash(m)
  PROVE  TypeOK'
<1> USE ArtifactGCAssumption DEF TypeOK
<1>1. CASE Plan(m)
  BY <1>1 DEF Plan, Candidates
<1>2. CASE GiveUp(m)
  BY <1>2 DEF GiveUp
<1>3. CASE StartApply(m)
  BY <1>3, ProtectedDigests DEF StartApply, Pending
<1>4. CASE ApplyPlan(m)
  BY <1>4 DEF ApplyPlan
<1>5. CASE EndApply(m)
  BY <1>5 DEF EndApply, Rest, NoIndex, Due
<1>6. CASE CollectorCrash(m)
  BY <1>6 DEF CollectorCrash, Rest, NoIndex
<1>7. ASSUME NEW d \in Digests, AbandonIntent(m, d) PROVE TypeOK'
  BY <1>7 DEF AbandonIntent
<1>8. ASSUME NEW d \in Digests, PassOver(m, d) PROVE TypeOK'
  BY <1>8 DEF PassOver
<1>9. ASSUME NEW d \in Digests, SaveIntent(m, d) PROVE TypeOK'
  BY <1>9 DEF SaveIntent
<1>10. ASSUME NEW d \in Digests, Unlink(m, d) PROVE TypeOK'
  BY <1>10 DEF Unlink
<1>11. ASSUME NEW d \in Digests, SaveReceipt(m, d) PROVE TypeOK'
  BY <1>11 DEF SaveReceipt
<1>12. ASSUME NEW d \in Digests, FinalizeIntent(m, d) PROVE TypeOK'
  BY <1>12 DEF FinalizeIntent, InHand, Resumed
<1> QED
  BY <1>1, <1>2, <1>3, <1>4, <1>5, <1>6, <1>7, <1>8, <1>9, <1>10, <1>11,
     <1>12 DEF CollectorStep

-----------------------------------------------------------------------------
(* What the three kinds of steps leave alone. *)

\* A request never touches the trail, the holds or a collector, and adds payloads
\* only.
LEMMA RequestFrame ==
  ASSUME NEW r \in Requests, RequestStep(r)
  PROVE  /\ UNCHANGED <<holds, intents, receipts, at, plan, index, todo, cur>>
         /\ payload \subseteq payload'
BY DEF RequestStep, RegisterInput, RegisterWave, RegisterManifest,
       RegistrationCrash, CreateState, WorkerWrites, WorkerAppends, WorkerFails,
       BrokerReads, BrokerSucceeds, BrokerExhausts, BrokerForgets, Commit,
       GracePasses, Store

\* Nothing outside touches payloads or requests, and holds need a free lock.
LEMMA OutsideFrame ==
  ASSUME OutsideStep
  PROVE  /\ UNCHANGED <<payload, runVars, sentVars, trailVars, lock, gcVars>>
         /\ lock # Free => holds' = holds
BY DEF OutsideStep, PutHold, RemoveHold, Cite, Retire, Spoil, Mend

\* A collector never touches a request or a hold.
LEMMA CollectorFrame ==
  ASSUME NEW m \in Collectors, CollectorStep(m) \/ CollectorCrash(m)
  PROVE  UNCHANGED <<runVars, sentVars, holds>>
BY DEF CollectorStep, CollectorCrash, Plan, GiveUp, StartApply, ApplyPlan,
       EndApply, AbandonIntent, PassOver, SaveIntent, Unlink, SaveReceipt,
       FinalizeIntent

-----------------------------------------------------------------------------
(* The lock. *)

\* Registrations take the lock when it is free and keep what they have stored.
LEMMA RequestLock ==
  ASSUME TypeOK, LockInv, RunInv, NEW r \in Requests, RequestStep(r)
  PROVE  LockInv'
<1>1. UNCHANGED <<at, todo, cur>> /\ payload \subseteq payload'
  BY RequestFrame
<1>2. \/ lock' = lock
      \/ /\ lock = Free /\ lock' = r /\ r \notin wave /\ status' = status
         /\ InputOf[r] \in payload'
      \/ lock = r /\ lock' = Free
  BY DEF RequestStep, RegisterInput, RegisterWave, RegisterManifest,
         RegistrationCrash, CreateState, WorkerWrites, WorkerAppends,
         WorkerFails, BrokerReads, BrokerSucceeds, BrokerExhausts,
         BrokerForgets, Commit, GracePasses, Store
<1>3. \A q \in Requests : lock' = q /\ lock = q => status'[q] = status[q]
  BY DEF RequestStep, RegisterInput, RegisterWave, RegisterManifest,
         RegistrationCrash, CreateState, WorkerWrites, WorkerAppends,
         WorkerFails, BrokerReads, BrokerSucceeds, BrokerExhausts,
         BrokerForgets, Commit, GracePasses, RunInv, LockInv, TypeOK
<1> QED
  BY <1>1, <1>2, <1>3, ArtifactGCAssumption DEF TypeOK, LockInv, RunInv

\* Only the collector inside an apply holds the lock.
LEMMA CollectorLock ==
  ASSUME TypeOK, LockInv, NEW m \in Collectors,
         CollectorStep(m) \/ CollectorCrash(m)
  PROVE  LockInv'
<1> USE ArtifactGCAssumption DEF TypeOK, LockInv
<1>1. CASE Plan(m)
  BY <1>1 DEF Plan
<1>2. CASE GiveUp(m)
  BY <1>2 DEF GiveUp
<1>3. CASE StartApply(m)
  BY <1>3 DEF StartApply
<1>4. CASE ApplyPlan(m)
  BY <1>4 DEF ApplyPlan
<1>5. CASE EndApply(m)
  BY <1>5 DEF EndApply, Rest
<1>6. CASE CollectorCrash(m)
  BY <1>6 DEF CollectorCrash, Rest
<1>7. ASSUME NEW d \in Digests,
             AbandonIntent(m, d) \/ PassOver(m, d) \/ SaveIntent(m, d)
      PROVE  LockInv'
  BY <1>7 DEF AbandonIntent, PassOver, SaveIntent, Resumed, IsNext
<1>8. ASSUME NEW d \in Digests,
             Unlink(m, d) \/ SaveReceipt(m, d) \/ FinalizeIntent(m, d)
      PROVE  LockInv'
  BY <1>8 DEF Unlink, SaveReceipt, FinalizeIntent, Resumed, IsNext, InHand
<1> QED
  BY <1>1, <1>2, <1>3, <1>4, <1>5, <1>6, <1>7, <1>8 DEF CollectorStep

-----------------------------------------------------------------------------
(* The runs. *)

\* A request's run keeps its attempt and its file in step.
LEMMA RequestRun ==
  ASSUME TypeOK, RunInv, NEW r \in Requests, RequestStep(r)
  PROVE  RunInv'
<1> USE ArtifactGCAssumption DEF TypeOK, RunInv
<1>1. CASE RegisterInput(r) \/ RegistrationCrash(r) \/ Commit(r)
           \/ GracePasses(r)
  BY <1>1 DEF RegisterInput, RegistrationCrash, Commit, GracePasses
<1>2. CASE RegisterWave(r) \/ RegisterManifest(r)
  BY <1>2 DEF RegisterWave, RegisterManifest
<1>3. CASE CreateState(r)
  BY <1>3 DEF CreateState
<1>4. ASSUME NEW d \in OutputsOf[r], WorkerWrites(r, d) PROVE RunInv'
  BY <1>4 DEF WorkerWrites
<1>5. CASE WorkerAppends(r)
  BY <1>5 DEF WorkerAppends
<1>6. CASE WorkerFails(r)
  BY <1>6 DEF WorkerFails
<1>7. CASE BrokerReads(r)
  BY <1>7 DEF BrokerReads
<1>8. CASE BrokerSucceeds(r)
  BY <1>8 DEF BrokerSucceeds
<1>9. CASE BrokerExhausts(r)
  BY <1>9 DEF BrokerExhausts
<1>10. CASE BrokerForgets(r)
  BY <1>10 DEF BrokerForgets
<1> QED
  BY <1>1, <1>2, <1>3, <1>4, <1>5, <1>6, <1>7, <1>8, <1>9, <1>10
     DEF RequestStep

-----------------------------------------------------------------------------
(* The snapshot of the collector that holds the lock. *)

\* What a collector may delete was delivered by all its senders.
LEMMA DueSenders ==
  ASSUME TypeOK, RunInv, SnapshotInv, lock \in Collectors,
         NEW d \in Digests, NEW mode, Due(d, mode)
  PROVE  Senders(d) \cap manifest \subseteq graceOver
<1> SUFFICES ASSUME NEW r \in Senders(d) \cap manifest
             PROVE  r \in graceOver
  OBVIOUS
<1>1. d \notin index.protected /\ Eligible(mode, d, index.aged)
  BY DEF Due
<1>2. r \in Requests /\ status[r] \in Terminal /\ output[r] = d
  BY DEF Senders
<1>3. status[r] = "succeeded"
  BY <1>2, ArtifactGCAssumption DEF RunInv
<1>4. r \in delivered
  BY <1>1, <1>2, <1>3 DEF SnapshotInv
<1> QED
  BY <1>1, <1>4 DEF Eligible

\* Whatever requests do while a collector holds the lock, its snapshot still
\* covers them.
LEMMA RequestSnapshot ==
  ASSUME TypeOK, LockInv, RunInv, SnapshotInv, NEW r \in Requests,
         RequestStep(r)
  PROVE  SnapshotInv'
<1> SUFFICES ASSUME lock' \in Collectors PROVE SnapshotInv'
  BY DEF SnapshotInv
<1> USE ArtifactGCAssumption
<1>1. UNCHANGED <<holds, intents, at, index, todo, cur>>
  BY RequestFrame
<1>2. lock' = lock
  BY DEF RequestStep, RegisterInput, RegisterWave, RegisterManifest,
         RegistrationCrash, CreateState, WorkerWrites, WorkerAppends,
         WorkerFails, BrokerReads, BrokerSucceeds, BrokerExhausts,
         BrokerForgets, Commit, GracePasses
<1>3. UNCHANGED <<manifest, attempt, delivered, graceOver>>
  BY <1>2 DEF RequestStep, RegisterInput, RegisterWave, RegisterManifest,
         RegistrationCrash, CreateState, WorkerWrites, WorkerAppends,
         WorkerFails, BrokerReads, BrokerSucceeds, BrokerExhausts,
         BrokerForgets, Commit, GracePasses, ClockRuns
<1>4. \/ UNCHANGED <<status, output>>
      \/ status[r] = "none" /\ status' = [status EXCEPT ![r] = "active"]
         /\ output' = output
      \/ status[r] = "active" /\ status' = [status EXCEPT ![r] = "exhausted"]
         /\ output' = output
      \/ status[r] = "active" /\ status' = [status EXCEPT ![r] = "succeeded"]
         /\ output' = [output EXCEPT ![r] = attempt[r]]
         /\ attempt[r] # NoDigest
  BY DEF RequestStep, RegisterInput, RegisterWave, RegisterManifest,
         RegistrationCrash, CreateState, WorkerWrites, WorkerAppends,
         WorkerFails, BrokerReads, BrokerSucceeds, BrokerExhausts,
         BrokerForgets, Commit, GracePasses, RunInv
<1>5. \A q \in manifest :
        /\ status'[q] \notin Terminal =>
             {InputOf[q], attempt[q]} \subseteq index.protected \cup {NoDigest}
        /\ status'[q] = "succeeded" /\ q \notin delivered =>
             output'[q] \in index.protected
  BY <1>2, <1>4 DEF SnapshotInv, TypeOK, Terminal
<1>6. \A d \in Digests : d \notin index.protected =>
        Senders(d)' \cap manifest \subseteq Senders(d)
  BY <1>2, <1>4 DEF SnapshotInv, TypeOK, Terminal, Senders, RunInv
<1> QED
  BY <1>1, <1>2, <1>3, <1>5, <1>6 DEF SnapshotInv, TypeOK

\* The snapshot is made under the lock, and only due payloads are taken in hand.
LEMMA CollectorSnapshot ==
  ASSUME TypeOK, LockInv, RunInv, SnapshotInv, NEW m \in Collectors,
         CollectorStep(m) \/ CollectorCrash(m)
  PROVE  SnapshotInv'
<1> USE ArtifactGCAssumption DEF TypeOK
<1>1. UNCHANGED <<runVars, sentVars, holds>>
      /\ \A d : Senders(d)' = Senders(d)
  BY CollectorFrame DEF Senders
<1>2. CASE Plan(m)
  BY <1>1, <1>2 DEF Plan, SnapshotInv, LockInv
<1>3. CASE GiveUp(m)
  BY <1>1, <1>3 DEF GiveUp, SnapshotInv, LockInv
<1>4. CASE StartApply(m)
  <2>1. /\ lock' = m /\ at'[m] = "converge" /\ todo' = Pending
        /\ index'.protected = Protected /\ intents' = intents
    BY <1>4 DEF StartApply
  <2>2. holds \subseteq Protected
    BY DEF Protected
  <2>3. \A r \in manifest :
          /\ status[r] \notin Terminal =>
               {InputOf[r], attempt[r]} \subseteq Protected \cup {NoDigest}
          /\ status[r] = "succeeded" /\ r \notin delivered =>
               output[r] \in Protected
    BY DEF Protected, Live, RunInv
  <2> QED
    BY <1>1, <2>1, <2>2, <2>3 DEF SnapshotInv, Pending
<1>5. CASE ApplyPlan(m)
  BY <1>1, <1>5 DEF ApplyPlan, SnapshotInv, LockInv
<1>6. CASE EndApply(m) \/ CollectorCrash(m)
  BY <1>6 DEF EndApply, CollectorCrash, Rest, SnapshotInv
<1>7. ASSUME NEW d \in Digests, AbandonIntent(m, d) PROVE SnapshotInv'
  BY <1>1, <1>7 DEF AbandonIntent, SnapshotInv, Resumed, IsNext
<1>8. ASSUME NEW d \in Digests, PassOver(m, d) PROVE SnapshotInv'
  BY <1>1, <1>8 DEF PassOver, SnapshotInv, IsNext
<1>9. ASSUME NEW d \in Digests, SaveIntent(m, d) PROVE SnapshotInv'
  <2>1. Senders(d) \cap manifest \subseteq graceOver
    BY <1>9, DueSenders DEF SaveIntent
  <2>2. d \notin index.protected
    BY <1>9 DEF SaveIntent, Due
  <2> QED
    BY <1>1, <1>9, <2>1, <2>2 DEF SaveIntent, SnapshotInv
<1>10. ASSUME NEW d \in Digests, Unlink(m, d) \/ SaveReceipt(m, d)
       PROVE  SnapshotInv'
  BY <1>1, <1>10 DEF Unlink, SaveReceipt, SnapshotInv, InHand, Resumed
<1>11. ASSUME NEW d \in Digests, FinalizeIntent(m, d) PROVE SnapshotInv'
  BY <1>1, <1>11 DEF FinalizeIntent, SnapshotInv, InHand, Resumed
<1> QED
  BY <1>2, <1>3, <1>4, <1>5, <1>6, <1>7, <1>8, <1>9, <1>10, <1>11
     DEF CollectorStep

-----------------------------------------------------------------------------
(* What is needed stays. *)

\* A collection never unlinks what its snapshot protects, and the holder of a
\* hold, an attempt or an undelivered output is in the snapshot.
LEMMA UnlinkSpares ==
  ASSUME TypeOK, LockInv, SnapshotInv, NEW m \in Collectors, NEW d \in Digests,
         Unlink(m, d)
  PROVE  d \notin index.protected /\ intents[d] # "none"
<1>1. CASE at[m] = "apply" /\ InHand(d)
  BY <1>1, ArtifactGCAssumption DEF Unlink, InHand, SnapshotInv
<1>2. CASE Resumed(m, d) /\ Due(d, intents[d])
  BY <1>2 DEF Unlink, Resumed, IsNext, SnapshotInv, Due
<1> QED
  BY <1>1, <1>2 DEF Unlink

\* Only an unlink takes a payload away.
LEMMA OnlyUnlinkDeletes ==
  ASSUME NEW m \in Collectors, CollectorStep(m) \/ CollectorCrash(m),
         payload' # payload
  PROVE  \E d \in Digests : Unlink(m, d)
BY DEF CollectorStep, CollectorCrash, Plan, GiveUp, StartApply, ApplyPlan,
       EndApply, AbandonIntent, PassOver, SaveIntent, SaveReceipt,
       FinalizeIntent

\* A request never loses a payload of its own by its own steps.
LEMMA RequestKept ==
  ASSUME GCIInv, NEW r \in Requests, RequestStep(r)
  PROVE  LiveRunKept' /\ UndeliveredKept'
<1> USE ArtifactGCAssumption DEF GCIInv, TypeOK, LiveRunKept, UndeliveredKept
<1>1. payload \subseteq payload'
  BY RequestFrame
<1>2. CASE RegisterInput(r) \/ RegistrationCrash(r) \/ GracePasses(r)
           \/ RegisterWave(r) \/ Commit(r)
  BY <1>1, <1>2 DEF RegisterInput, RegistrationCrash, GracePasses,
     RegisterWave, Commit
<1>3. CASE RegisterManifest(r)
  BY <1>1, <1>3 DEF RegisterManifest, LockInv, RunInv
<1>4. CASE CreateState(r)
  BY <1>1, <1>4 DEF CreateState, Terminal
<1>5. ASSUME NEW d \in OutputsOf[r], WorkerWrites(r, d)
      PROVE  LiveRunKept' /\ UndeliveredKept'
  BY <1>1, <1>5 DEF WorkerWrites
<1>6. CASE WorkerAppends(r)
  BY <1>1, <1>6 DEF WorkerAppends, ValidLocalRef
<1>7. CASE WorkerFails(r) \/ BrokerReads(r) \/ BrokerForgets(r)
  BY <1>1, <1>7 DEF WorkerFails, BrokerReads, BrokerForgets
<1>8. CASE BrokerSucceeds(r)
  BY <1>1, <1>8 DEF BrokerSucceeds, RunInv, Terminal
<1>9. CASE BrokerExhausts(r)
  BY <1>1, <1>9 DEF BrokerExhausts, Terminal
<1> QED
  BY <1>2, <1>3, <1>4, <1>5, <1>6, <1>7, <1>8, <1>9 DEF RequestStep

\* Nor by those of a collector.
LEMMA CollectorKept ==
  ASSUME GCIInv, NEW m \in Collectors, CollectorStep(m) \/ CollectorCrash(m)
  PROVE  LiveRunKept' /\ UndeliveredKept'
<1> USE ArtifactGCAssumption DEF GCIInv
<1>1. UNCHANGED <<runVars, sentVars>>
  BY CollectorFrame
<1>2. CASE payload' = payload
  BY <1>1, <1>2 DEF LiveRunKept, UndeliveredKept
<1>3. CASE payload' # payload
  <2>1. PICK d \in Digests : Unlink(m, d)
    BY <1>3, OnlyUnlinkDeletes
  <2>2. d \notin index.protected /\ payload' = payload \ {d} /\ lock = m
    BY <2>1, UnlinkSpares DEF Unlink
  <2> QED
    BY <1>1, <2>2 DEF LiveRunKept, UndeliveredKept, SnapshotInv, TypeOK
<1> QED
  BY <1>2, <1>3

-----------------------------------------------------------------------------
(* The invariant and what follows from it. *)

\* The initial state satisfies it.
LEMMA InitInv == Init => GCIInv
<1> SUFFICES ASSUME Init PROVE GCIInv
  OBVIOUS
<1> USE ArtifactGCAssumption DEF Init
<1>1. TypeOK
  <2>1. unreadable \in BOOLEAN
    BY Zenon
  <2>2. index \in [protected : SUBSET Digests, aged : SUBSET Digests]
    BY DEF NoIndex
  <2> QED
    BY <2>1, <2>2 DEF TypeOK
<1>2. lock \notin Collectors
  OBVIOUS
<1>3. LockInv /\ SnapshotInv
  BY <1>2 DEF LockInv, SnapshotInv
<1>4. RunInv
  BY DEF RunInv
<1>5. LiveRunKept /\ UndeliveredKept
  BY DEF LiveRunKept, UndeliveredKept
<1> QED
  BY <1>1, <1>3, <1>4, <1>5 DEF GCIInv

\* Stuttering keeps it.
LEMMA StutterInv ==
  ASSUME GCIInv, UNCHANGED vars
  PROVE  GCIInv'
BY DEF vars, GCIInv, TypeOK, LockInv, RunInv, SnapshotInv, LiveRunKept,
   UndeliveredKept, Senders

\* So does what happens outside.
LEMMA OutsideInv ==
  ASSUME GCIInv, OutsideStep
  PROVE  GCIInv'
<1>1. TypeOK'
  BY OutsideType DEF GCIInv
<1>2. /\ UNCHANGED <<payload, runVars, sentVars, trailVars, lock, gcVars>>
      /\ lock # Free => holds' = holds
  BY OutsideFrame
<1>3. LockInv' /\ RunInv' /\ LiveRunKept' /\ UndeliveredKept'
  BY <1>2 DEF GCIInv, LockInv, RunInv, LiveRunKept, UndeliveredKept
<1>4. SnapshotInv'
  BY <1>2, ArtifactGCAssumption DEF GCIInv, SnapshotInv, Senders
<1> QED
  BY <1>1, <1>3, <1>4 DEF GCIInv

\* Every step keeps the invariant.
LEMMA NextInv ==
  ASSUME GCIInv, [Next]_vars
  PROVE  GCIInv'
<1>1. ASSUME NEW r \in Requests, RequestStep(r) PROVE GCIInv'
  BY <1>1, RequestType, RequestLock, RequestRun, RequestSnapshot, RequestKept
     DEF GCIInv
<1>2. ASSUME NEW m \in Collectors, CollectorStep(m) \/ CollectorCrash(m)
      PROVE  GCIInv'
  <2>1. RunInv'
    BY <1>2, CollectorFrame DEF GCIInv, RunInv
  <2> QED
    BY <1>2, <2>1, CollectorType, CollectorLock, CollectorSnapshot,
       CollectorKept DEF GCIInv
<1> QED
  BY <1>1, <1>2, OutsideInv, StutterInv DEF Next

\* The inductive invariant holds: in particular every variable keeps its range
\* and only the holder of the lifecycle lock is inside an apply.
THEOREM GCInvariant == Spec => []GCIInv
BY InitInv, NextInv, PTL DEF Spec

\* No collection takes what a live run with a manifest has registered or
\* published.
THEOREM LiveRuns == Spec => []LiveRunKept
<1>1. GCIInv => LiveRunKept
  BY DEF GCIInv
<1> QED
  BY <1>1, GCInvariant, PTL

\* The output of a succeeded request stays until its delivery is committed.
THEOREM UndeliveredOutputs == Spec => []UndeliveredKept
<1>1. GCIInv => UndeliveredKept
  BY DEF GCIInv
<1> QED
  BY <1>1, GCInvariant, PTL

\* A payload under hold is never unlinked.
THEOREM Holds == Spec => HeldStays
<1>1. GCIInv /\ [Next]_vars => [Deleted \cap holds = {}]_vars
  <2> SUFFICES ASSUME GCIInv, Next
               PROVE  Deleted \cap holds = {}
    OBVIOUS
  <2>1. ASSUME NEW r \in Requests, RequestStep(r) PROVE Deleted = {}
    BY <2>1, RequestFrame DEF Deleted
  <2>2. CASE OutsideStep
    BY <2>2, OutsideFrame DEF Deleted
  <2>3. ASSUME NEW m \in Collectors, CollectorStep(m) \/ CollectorCrash(m)
        PROVE  Deleted \cap holds = {}
    <3>1. CASE payload' = payload
      BY <3>1 DEF Deleted
    <3>2. CASE payload' # payload
      <4>1. PICK d \in Digests : Unlink(m, d)
        BY <2>3, <3>2, OnlyUnlinkDeletes
      <4>2. d \notin index.protected /\ payload' = payload \ {d} /\ lock = m
        BY <4>1, UnlinkSpares DEF Unlink, GCIInv
      <4> QED
        BY <4>2 DEF Deleted, GCIInv, SnapshotInv
    <3> QED
      BY <3>1, <3>2
  <2> QED
    BY <2>1, <2>2, <2>3 DEF Next
<1> QED
  BY <1>1, GCInvariant, PTL DEF Spec, HeldStays

\* A shared payload goes only after the grace of the deliveries of all runs with
\* a manifest that have it as output.
THEOREM SharedPayloads == Spec => SharedWaitsForAll
<1> DEFINE Graced == \A d \in Deleted : Senders(d) \cap manifest \subseteq graceOver
<1>1. GCIInv /\ [Next]_vars => [Graced]_vars
  <2> SUFFICES ASSUME GCIInv, Next
               PROVE  Graced
    OBVIOUS
  <2>1. ASSUME NEW r \in Requests, RequestStep(r) PROVE Deleted = {}
    BY <2>1, RequestFrame DEF Deleted
  <2>2. CASE OutsideStep
    BY <2>2, OutsideFrame DEF Deleted
  <2>3. ASSUME NEW m \in Collectors, CollectorStep(m) \/ CollectorCrash(m)
        PROVE  Graced
    <3>1. CASE payload' = payload
      BY <3>1 DEF Deleted
    <3>2. CASE payload' # payload
      <4>1. PICK d \in Digests : Unlink(m, d)
        BY <2>3, <3>2, OnlyUnlinkDeletes
      <4>2. Deleted \subseteq {d} /\ lock = m
        BY <4>1 DEF Unlink, Deleted
      <4>3. Senders(d) \cap manifest \subseteq graceOver
        <5>1. CASE at[m] = "apply" /\ InHand(d)
          BY <4>2, <5>1, ArtifactGCAssumption DEF InHand, GCIInv, SnapshotInv
        <5>2. CASE Due(d, intents[d])
          BY <4>2, <5>2, DueSenders DEF GCIInv
        <5> QED
          BY <4>1, <5>1, <5>2 DEF Unlink
      <4> QED
        BY <4>2, <4>3
    <3> QED
      BY <3>1, <3>2
  <2> QED
    BY <2>1, <2>2, <2>3 DEF Next
<1> QED
  BY <1>1, GCInvariant, PTL DEF Spec, SharedWaitsForAll
-----------------------------------------------------------------------------
(* No payload vanishes without a trace. *)

Traced == payload \cup receipts \cup {d \in Digests : intents[d] # "none"}

\* The inductive form of MissingIsAccounted: what the broker has read, saved or
\* a collector has planned for exists or is accounted for.
AccountedInv ==
  /\ \A r \in Requests :
       /\ seen[r] # NoDigest => seen[r] \in Traced
       /\ status[r] = "succeeded" => output[r] \in Traced
  /\ \A m \in Collectors : plan[m] \subseteq Traced

\* A collector unlinks only under an intent, and drops an intent only for a
\* payload that exists or has its receipt.
LEMMA CollectorTraces ==
  ASSUME GCIInv, NEW m \in Collectors, CollectorStep(m) \/ CollectorCrash(m)
  PROVE  Traced \subseteq Traced'
<1> USE ArtifactGCAssumption DEF Traced, GCIInv, TypeOK
<1>1. CASE \/ Plan(m) \/ GiveUp(m) \/ StartApply(m) \/ ApplyPlan(m)
           \/ EndApply(m) \/ CollectorCrash(m)
  BY <1>1 DEF Plan, GiveUp, StartApply, ApplyPlan, EndApply, CollectorCrash
<1>2. ASSUME NEW d \in Digests, AbandonIntent(m, d) \/ FinalizeIntent(m, d)
      PROVE  Traced \subseteq Traced'
  BY <1>2 DEF AbandonIntent, FinalizeIntent
<1>3. ASSUME NEW d \in Digests, PassOver(m, d) \/ SaveReceipt(m, d)
      PROVE  Traced \subseteq Traced'
  BY <1>3 DEF PassOver, SaveReceipt
<1>4. ASSUME NEW d \in Digests, SaveIntent(m, d)
      PROVE  Traced \subseteq Traced'
  BY <1>4 DEF SaveIntent
<1>5. ASSUME NEW d \in Digests, Unlink(m, d)
      PROVE  Traced \subseteq Traced'
  <2>1. intents[d] # "none"
    BY <1>5 DEF Unlink, SnapshotInv, InHand, Resumed, IsNext
  <2> QED
    BY <1>5, <2>1 DEF Unlink
<1> QED
  BY <1>1, <1>2, <1>3, <1>4, <1>5 DEF CollectorStep

\* So every step keeps what is accounted for.
LEMMA NextTraces ==
  ASSUME GCIInv, [Next]_vars
  PROVE  Traced \subseteq Traced'
<1>1. ASSUME NEW r \in Requests, RequestStep(r) PROVE Traced \subseteq Traced'
  BY <1>1, RequestFrame DEF Traced
<1>2. CASE OutsideStep
  BY <1>2, OutsideFrame DEF Traced
<1>3. CASE UNCHANGED vars
  BY <1>3 DEF Traced, vars
<1> QED
  BY <1>1, <1>2, <1>3, CollectorTraces DEF Next

\* The broker reads payloads that exist and saves what it has read.
LEMMA RequestAccounted ==
  ASSUME GCIInv, AccountedInv, NEW r \in Requests, RequestStep(r)
  PROVE  AccountedInv'
<1> USE ArtifactGCAssumption DEF GCIInv, TypeOK
<1>1. Traced \subseteq Traced' /\ plan' = plan
  BY RequestFrame DEF Traced
<1>2. CASE UNCHANGED <<seen, status, output>>
  BY <1>1, <1>2 DEF AccountedInv
<1>3. CASE BrokerReads(r)
  <2>1. seen'[r] \in Traced'
    BY <1>3 DEF BrokerReads, Traced
  <2> QED
    BY <1>1, <1>3, <2>1 DEF BrokerReads, AccountedInv
<1>4. CASE BrokerSucceeds(r)
  <2>1. output'[r] \in Traced'
    BY <1>1, <1>4 DEF BrokerSucceeds, AccountedInv
  <2>2. \A q \in Requests : status'[q] = "succeeded" => output'[q] \in Traced'
    BY <1>1, <1>4, <2>1 DEF BrokerSucceeds, AccountedInv
  <2>3. \A q \in Requests : seen'[q] # NoDigest => seen'[q] \in Traced'
    BY <1>1, <1>4 DEF BrokerSucceeds, AccountedInv
  <2> QED
    BY <1>1, <2>2, <2>3 DEF AccountedInv
<1>5. CASE CreateState(r) \/ BrokerExhausts(r) \/ BrokerForgets(r)
  BY <1>1, <1>5 DEF CreateState, BrokerExhausts, BrokerForgets, AccountedInv
<1> QED
  BY <1>2, <1>3, <1>4, <1>5
     DEF RequestStep, RegisterInput, RegisterWave, RegisterManifest,
         RegistrationCrash, WorkerWrites, WorkerAppends, WorkerFails, Commit,
         GracePasses

\* A collector plans for payloads that exist.
LEMMA CollectorAccounted ==
  ASSUME GCIInv, AccountedInv, NEW m \in Collectors,
         CollectorStep(m) \/ CollectorCrash(m)
  PROVE  AccountedInv'
<1> USE DEF GCIInv, TypeOK
<1>1. Traced \subseteq Traced' /\ UNCHANGED <<seen, status, output>>
  BY CollectorTraces, CollectorFrame
<1>2. plan'[m] \subseteq Traced' /\ \A n \in Collectors \ {m} : plan'[n] = plan[n]
  <2>1. CASE plan' = plan
    BY <1>1, <2>1 DEF AccountedInv
  <2>2. CASE Plan(m)
    BY <2>2 DEF Plan, Candidates, Traced
  <2>3. CASE GiveUp(m) \/ EndApply(m) \/ CollectorCrash(m)
    BY <2>3 DEF GiveUp, EndApply, CollectorCrash, Rest
  <2> QED
    BY <2>1, <2>2, <2>3
       DEF CollectorStep, StartApply, ApplyPlan, AbandonIntent, PassOver,
           SaveIntent, Unlink, SaveReceipt, FinalizeIntent
<1> QED
  BY <1>1, <1>2 DEF AccountedInv

\* An output that is missing was collected, and its intent or receipt says so.
THEOREM Accounted == Spec => []MissingIsAccounted
<1>1. Init => AccountedInv
  BY ArtifactGCAssumption DEF Init, AccountedInv
<1>2. GCIInv /\ AccountedInv /\ [Next]_vars => AccountedInv'
  <2> SUFFICES ASSUME GCIInv, AccountedInv, [Next]_vars
               PROVE  AccountedInv'
    OBVIOUS
  <2>1. CASE OutsideStep \/ UNCHANGED vars
    BY <2>1, NextTraces, OutsideFrame DEF AccountedInv, vars
  <2> QED
    BY <2>1, RequestAccounted, CollectorAccounted DEF Next
<1>3. AccountedInv => MissingIsAccounted
  BY DEF AccountedInv, MissingIsAccounted, Traced
<1> QED
  BY <1>1, <1>2, <1>3, GCInvariant, PTL DEF Spec
-----------------------------------------------------------------------------
(* An apply settles every intent. *)

\* While older intents are converged each of them is still to be looked at;
\* afterwards the only intent is that of the payload in hand.
SettledInv ==
  lock \in Collectors =>
    /\ at[lock] = "converge" => Pending \subseteq todo
    /\ at[lock] = "apply" => Pending \subseteq {cur}

\* A collector takes intents one by one, and no other has the lock.
LEMMA CollectorSettles ==
  ASSUME GCIInv, SettledInv, NEW m \in Collectors,
         CollectorStep(m) \/ CollectorCrash(m)
  PROVE  SettledInv'
<1> USE ArtifactGCAssumption DEF GCIInv, TypeOK, LockInv, SettledInv, Pending
<1>1. CASE Plan(m) \/ GiveUp(m)
  BY <1>1 DEF Plan, GiveUp
<1>2. CASE StartApply(m)
  BY <1>2 DEF StartApply
<1>3. CASE ApplyPlan(m)
  BY <1>3 DEF ApplyPlan
<1>4. CASE EndApply(m) \/ CollectorCrash(m)
  BY <1>4 DEF EndApply, CollectorCrash
<1>5. ASSUME NEW d \in Digests, AbandonIntent(m, d) PROVE SettledInv'
  BY <1>5 DEF AbandonIntent, Resumed, IsNext
<1>6. ASSUME NEW d \in Digests, PassOver(m, d) PROVE SettledInv'
  BY <1>6 DEF PassOver, IsNext
<1>7. ASSUME NEW d \in Digests, SaveIntent(m, d) PROVE SettledInv'
  BY <1>7 DEF SaveIntent, IsNext
<1>8. ASSUME NEW d \in Digests, Unlink(m, d) \/ SaveReceipt(m, d)
      PROVE  SettledInv'
  BY <1>8 DEF Unlink, SaveReceipt, InHand, Resumed, IsNext
<1>9. ASSUME NEW d \in Digests, FinalizeIntent(m, d) PROVE SettledInv'
  BY <1>9 DEF FinalizeIntent, InHand, Resumed, IsNext
<1> QED
  BY <1>1, <1>2, <1>3, <1>4, <1>5, <1>6, <1>7, <1>8, <1>9 DEF CollectorStep

\* Requests and the outside leave the trail and the holder of the lock alone.
LEMMA NextSettles ==
  ASSUME GCIInv, SettledInv, [Next]_vars
  PROVE  SettledInv'
<1> USE DEF SettledInv, Pending
<1>1. ASSUME NEW r \in Requests, RequestStep(r) PROVE SettledInv'
  <2>1. UNCHANGED <<intents, at, todo, cur>>
    BY <1>1, RequestFrame
  <2>2. lock' \in Collectors => lock' = lock
    BY <1>1, ArtifactGCAssumption
       DEF RequestStep, RegisterInput, RegisterWave, RegisterManifest,
           RegistrationCrash, CreateState, WorkerWrites, WorkerAppends,
           WorkerFails, BrokerReads, BrokerSucceeds, BrokerExhausts,
           BrokerForgets, Commit, GracePasses
  <2> QED
    BY <2>1, <2>2
<1>2. CASE OutsideStep
  BY <1>2, OutsideFrame
<1>3. CASE UNCHANGED vars
  BY <1>3 DEF vars
<1> QED
  BY <1>1, <1>2, <1>3, CollectorSettles DEF Next

\* An apply that ends, and does not crash, leaves no intent behind.
THEOREM Settles == Spec => ApplySettles
<1> DEFINE Clean == \A m \in Collectors :
                      at[m] = "apply" /\ at'[m] = "idle" /\ faults' = faults =>
                        \A d \in Digests : intents'[d] = "none"
<1>1. Init => SettledInv
  BY ArtifactGCAssumption DEF Init, SettledInv
<1>2. GCIInv /\ SettledInv /\ [Next]_vars => [Clean]_vars
  <2> SUFFICES ASSUME GCIInv, SettledInv, Next, NEW m \in Collectors,
                      at[m] = "apply", at'[m] = "idle", faults' = faults,
                      NEW d \in Digests
               PROVE  intents'[d] = "none"
    OBVIOUS
  <2> USE DEF GCIInv, TypeOK
  <2>1. PICK n \in Collectors : CollectorStep(n) \/ CollectorCrash(n)
    BY RequestFrame, OutsideFrame DEF Next
  <2>2. EndApply(m)
    BY <2>1 DEF CollectorStep, CollectorCrash, Plan, GiveUp, StartApply,
       ApplyPlan, EndApply, Rest, AbandonIntent, PassOver, SaveIntent, Unlink,
       SaveReceipt, FinalizeIntent, LockInv
  <2> QED
    BY <2>2, ArtifactGCAssumption DEF EndApply, SettledInv, Pending, LockInv
<1> QED
  BY <1>1, <1>2, NextSettles, GCInvariant, PTL DEF Spec, ApplySettles
=============================================================================
