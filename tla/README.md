# Verification of portable-batch-execution

Portable batch execution runs closed batch jobs on public workflow runners while
their inputs, attempts and manifests stay in a private file store.  A job is cut
into shards, shards into closed waves; a wave is dispatched as a workflow
execution; the execution reads what was attempted so far, runs what still needs
an attempt and posts one immutable attempt record per shard; a controller turns
the attempts into manifest revisions.  The Unix broker puts all of that behind
one local socket: a client sends a request with an id, and the broker registers a
one-shard run for it, dispatches it as often as its budget allows, and answers
when the request has durably succeeded or is exhausted.

This directory models that life of a run in TLA+, checks it with TLC on small
instances and proves its central invariants with TLAPS for all sizes.  Paths below
are relative to `src/src/portable_batch_execution/` unless they start with `src/`.

## Inventory

| Component | Code | State it keeps | Operations | What is hard |
|---|---|---|---|---|
| Attempt directory | `data_plane/local.py`, `service.py`, `http.py` | one JSON file per attempt id | append, read | two writers of one id, lost answers |
| Private worker | `worker/execute_wave.py` | none but its memory | read prior attempts, run shards, append | overlapping executions with stale reads, killed runners |
| Backend | `backends/github_actions.py` | workflow executions | submit, get status | a POST whose answer is lost, status that races the attempts |
| Controller | `controller/` | `job.json`, wave bundles, dispatch history | register, dispatch, reconcile | a dispatch is made before it is recorded |
| Manifest store | `data_plane/local.py`, `kernel/core.py` | revision files, `latest.json` | compare-and-swap write, refresh, finalize | two renames per revision, two writers |
| Broker requests | `broker/service.py`, `state.py`, `planning.py` | one state file per request id | handle a message, drive, recover, commit a delivery | crash between any two files, retries by the client |
| Request serializer | `broker/service.py:60-87` | lock table | hold | entries dropped while others wait |
| Broker server, client | `broker/server.py`, `client.py`, `lifecycle/durable.py` | connection slots; the client's output file | serve, execute, persist and commit | slots all taken, lost or repeated commits, a rename undone by a loss of power |
| Artifact lifecycle | `lifecycle/` | payloads, delivery records, holds, deletion intents, receipts | plan, apply, converge, commit, hold | plan outside the lock, crash between intent, unlink and receipt |
| Kernel planning | `kernel/core.py` | none | plan shards and waves, completeness, retry and exhaustion | boundaries |
| Replay reduction | `packs/replay_reduction/` | spill files within a call; canonical states and carries between calls | canonicalize, merge states, event window, causal grid | merge and window boundaries, partitions, causality |
| Other packs | `packs/` | none | tabular, ML, media, acquisition and replay-eval steps | numeric edges of one input |

Components interact through files (attempts, manifests, wave bundles, dispatch
history, request state), through the HTTP data plane (worker to controller) and
through the backend's REST calls (controller to runners).  The broker's handlers
are threads of one process; workflow executions are processes of their own that
nobody serializes.

What makes each part correct:

* attempts: ordinals without a gap, immutable records, at most one success, the
  budget kept by all executions together;
* broker: a dispatch budget that survives crashes, no overlap of recorded
  executions, exhaustion only with the budget used, success only with an output
  on record and reconciled, terminal answers that never change;
* serializer: one handler per id, no forgotten waiter, no retained idle entry;
* manifests: revisions only add attempts, one writer wins a revision;
* server and client: every caller is answered or cut off, and an output is at any
  time with the broker or durably with a client of the user it was delivered to;
* replay reduction: no fact uses a trade of a block that was still open, and the
  result depends on the rows alone, not on how they are cut into files, waves,
  partitions or spilled runs;
* planning: every index is in one shard, every shard in one wave;
* lifecycle: nothing referenced, held or undelivered is ever unlinked, and every
  crash leaves something the next run converges.

## Modules

| Module | Models | Actions and the code |
|---|---|---|
| `AttemptLog` | attempt directory of a run with overlapping executions | `Accept` (the backend takes a dispatch), `ReadPrior` (`read_attempts` at the start of `execute_private_wave`), `SkipShard`, `RunShard` (a shard's stages, folded into an outcome), `AppendStored`, `AppendAnswerLost`, `AppendConflict` (`append_attempt` behind the HTTP endpoint), `Conclude`, `Abort` |
| `RequestIdSerializer` | `_RequestIdSerializer.hold` | one action per section under the guard (`EnterFirst`, `EnterNext`, `Leave`), `Acquire` and `Release` of the id's lock |
| `BatchRequest` | what the broker promises a client | abstract: begin, work, finish once, repeat the answer |
| `BrokerRun` | one request with its executions (extends `AttemptLog`) | `Receive*` (paths of `handle_payload`), `Register*` and `CreateState` (`register_broker_private_run`, file by file), `RecoverState`, the drive loop (`SyncDispatches` ... `SaveDispatch`), `CallFails`, `Crash`; `Operator*` is the operator's `reconcile` command, a process of its own that writes the same manifest |
| `ArtifactGC` | the payload store, its two collectors and all that refers to payloads | `Register*` (`register_broker_private_run` under the lock, file by file), `WorkerWrites`, `WorkerAppends`, `Broker*`, `Commit`, `PutHold`, `RemoveHold`; a collector is `Plan`, `StartApply`, then per payload `SaveIntent`, `Unlink`, `SaveReceipt`, `FinalizeIntent` (or `AbandonIntent`, `PassOver`), `ApplyPlan`, `EndApply`; `CollectorCrash` between any two |
| `Handoff` | the output on its way from broker to client | client: `Execute`, `Rename`, `SyncParent` (`persist_verified_bytes`), `Commit`; server loop and pool threads: `AcquireSlot`, `Accept`, `TakeLock`, `Register`, `Settle`, `GiveUp`, `RepeatEnd`, `SaveNew`, `CommitRaises`, `Send`; `EndWork` and `Collect` stand for `BrokerRun` and `ArtifactGC`; `ClientDies`, `ServerDies`, `HostDies` |
| `CausalGrid` | `execute_causal_grid_extract` over two adjacent partitions; the second one gets the carry or not, and files from any time on | `Begin` (grid, stream, carry), `ScanEarly`, `EmitRow`, `ScanEvent`, `HitMissingDate`, `Reject`, `Finish` (the carry goes out); the stream is the set of events not read yet, read by least time and block, and a deque is a function from positions to trades |
| `SpillSort` | the external sort, for any order of the sort keys | operators: `ExternalSort` (batches to runs), `KWayMerge` (the heap loop, one `Pop` a row), `MergeFanInGroup`, `ReduceSortedRuns` (the levels), `SortedRows` |
| `Canonicalize` | canonical states and their merges (uses `SpillSort`) | operators: `SingleInputState`, `MergeStates`, `MergeWaves`, publication and `Reread` of a state by a later job |
| `EventWindow`, `IdentityCollapse` | facts about one decision; one trade per identity (use `Canonicalize`) | operators: `EventWindowFacts`; `CollapsedTrades` |
| `KernelPlanning` | `plan_shards`, `expanded_range`, `plan_waves` | operators: `PlanShards`, `ReadWindow`, `PlanWaves` |
| `ReplayInputs` | the inputs of the operators above | an input grows by `AddRow`, `NextFile` or `LengthenRange`, so that every reachable state is an input and an invariant compares its result with what it means |
| `*_proofs` | theorems about `AttemptLog`, `BrokerRun`, `ArtifactGC`, `CausalGrid` and `SpillSort`; `BrokerServer_proofs` about `RequestIdSerializer` and `Handoff`; `CanonicalStates_proofs` and `ReplayInputs_proofs` about `ReplayInputs` and the operators it feeds | see below |
| `MC*` | instances for TLC | |

An attempt record keeps who posted it and whether it succeeded.  Records of two
executions always differ (times, outputs), so an id that is taken is a conflict.
In `BrokerRun` the state file and the in-memory state are one variable, because
every change is saved before the next call.  `ArtifactGC` takes from `BrokerRun` only
what matters to payloads: a worker may write and the broker may decide at any time
the request is active.  Time is two facts per payload and delivery: the retention is
over (`aged`), the grace is over (`graceOver`); a write or a new reference makes a
payload young again.  Neither changes during an apply, which reads the clock once
(`ClockRuns`).  `index` is the reachability snapshot `apply_gc` builds under the lock;
who has sent a digest (`Senders`) is read from the request files each time, as in
`_broker_requests_for_digest`.

The manifest has two writers, the handler of the request and the operator's
`reconcile`.  Both read the manifest and then the attempts without a lock, and write a
revision file and `latest.json` under the lifecycle lock, after comparing the revision
they read (`CanWrite`).  `ReadManifest` reads both at once: a write happens only if
the manifest is still the one read, so what came between the two reads could only
have been there at the second.  `finalize` is the third writer in `kernel/core.py`;
nothing in `src/src/` calls it.

In `CausalGrid` a trade is its event: a fact is the trade, or the trades, its number is
computed from.  The same holds of rows in `EventWindow`.  `Handoff` keeps of a file
whether it is there and whether its directory was synced; requests, locks and
collections are one step each, because other modules show what they do.

`Mutant:` definitions are deliberate
slips, each paired in `PROJECT.json` with the property that catches it.

## Runs

| Run | Question | Instance |
|---|---|---|
| `attempt_log` | do overlapping executions keep the directory meaningful, and do they end | 3 executions, 2 shards, 2 attempts |
| `broker` | do state file, history, manifest and answers agree after crashes and next to an operator, and does a request that is asked about end | 4 executions, 2 attempts, 2 disturbances |
| `serializer` | is the lock table right | 3 threads, 2 ids, 3 locks |
| `gc_safety` | do collections take only what nobody needs, and leave a trace of it | 2 requests, 2 digests they share, both collectors, a hold, 1 fault |
| `gc_liveness` | are intents settled and garbage deleted | the same, one collector, an external reference instead of the hold |
| `handoff` | is the output ever lost between broker and clients, and is every caller answered | 2 clients of 2 users, 1 request, 2 slots, 4 connections, 2 deaths |
| `causal_grid` | are cutoffs and facts those of the whole history, with a carry or without, and with files that repeat what was carried | every set of up to 4 of 24 events (4 times, 3 blocks, a trade or a witness), 13 requests |
| `replay_inputs` | do canonical states, merged waves, windows, collapsed trades and plans mean what they should | every input of up to 4 rows (of 11) in up to 3 files; ranges up to 7, shards up to 3 |
| `exhausted_success` | violation: an exhausted request whose shard has succeeded | 3 executions, no fault |
| `manifest_heal` | violation: a retried request that ends without manifest | 3 executions, 1 fault |
| `grid_all_again` | violation: carry and all files together do not give the rows of one pass | the events of `causal_grid`, 2 requests |
| `gc_undelivered` | violation: the output of a succeeded request is deleted before it is delivered | 2 requests, normal collector, 1 fault |

Bounds.  `Executions` bounds the dispatches ever accepted, which are numbered as they are
created, as a backend numbers its runs; `MaxFaults` the failed
calls, lost answers, crashes and operator's commands together (in `Handoff` the deaths), `NumShards` and `MaxAttempts` are the
wave's own sizes.  Three executions give a stale reader, a conflict and a clean
successor at once; two attempts make both a retry and the end of the budget
happen; with two faults a dispatch is lost and the state file is behind the
history in one behaviour, which is what `RecordedDispatchBudget` needs to be at
risk.  Four executions cover two recorded dispatches and two lost ones.  In `ArtifactGC`
both requests produce `d1`, which is also the second one's input: an output is shared
with an output and with an input, delivered by one and not by the other, deleted and
written again.  Two collectors let one meet the intents of the other's mode.

In `Handoff` one client commits while the other, of another user, still fetches; four
connections are an execute and a commit of both, or retries after a death; two slots can
both be held by one request.  `MaxConnections` and the events, rows and ranges are what
bounds those runs.  In `CausalGrid` four events make two blocks complete, one go back and
one trade be evicted; the lookback is 3, one as-of offset is negative, and the requests
differ in the cut (on and off the grid), the overlap (enough or refused), the step, a
missing day between the partitions, the number of rows (allowed or refused), and in what
the second partition gets: all files, the carry with the later ones, or the carry with
files that repeat some or all of what it stands for.  In `ReplayInputs` the sort reads
batches of one row, merges two runs at a time and cuts merged runs into parts of two;
a bucket run holds two identities and the row buffer three, so four rows pass through
two levels and two flushes.  Two identities share a bucket, one has rows of different
times and cores, and each way a row can be invalid is there.  Decisions have as-of
offsets before, at and after the decision.

Fairness.  `AttemptLog` assumes that a backend runs or times out what it accepted
(weak fairness of each execution's steps; GitHub ends every job).  `BrokerRun` assumes
that of the executions together: while some can go on, one does, and each has finitely
many steps.  It adds weak fairness of the handler: the client asks again, a dead broker is
restarted, and an operator's command that was started ends.  Faults and commands are
never forced.  The serializer assumes that handlers return
and that a free lock is taken by some waiter; it claims progress per id, not per
thread.  `ArtifactGC` assumes that the collector command is run again and again and
meets a free lock now and then (strong fairness of `StartApply`), that a registration
which holds the lock goes on, and that an operator mends an unreadable file, which
blocks every collection.  Liveness is checked with one collector: the lock is tried
once, so two collectors on one schedule may refuse each other for ever.  `Handoff`
assumes that the accept loop and each pool thread go on and that dispatched work ends
(`RequestEnds` of `BrokerRun`); clients are not forced to do anything.  The operators of
`ReplayInputs` and the pass of `CausalGrid` need no fairness: nothing is claimed about
progress there.

Deadlock is checked in the serializer only.  Elsewhere the system may stop: executions
end, a state root that nobody writes to is at rest, a pass is over after its second
partition or a refusal, an input stops at its bound, and `Handoff` rests when its
connections are used up.

## Findings

* `exhausted_success`: the drive loop reads the attempts before it polls the
  backend and closes the request on the second answer.  A success recorded in
  between is never looked at again, and the client is told that its attempt budget
  is exhausted.
* `manifest_heal`: a wave without a manifest is repaired only by
  `register_broker_private_run`; the service takes `recover_request_state` instead,
  and the request ends without a manifest.

* `gc_undelivered`: the same unrepaired run (wave, request file, no manifest) has its
  attempt outside the snapshot of a collection that starts while it is active.  It
  succeeds during the sweep, and its output, which another delivered request shares,
  is unlinked.  With a manifest this cannot happen (`UndeliveredKept`).

* `grid_all_again`: a pass that gets a carry still reads every row of every file it is
  given, and a wave hands over all files.  The first event read again that is older than
  a carried one counts as out of order (`causal_grid.py:102-113`); its segment then has no
  cutoff and its rows no facts, although the history is in order.  Where nothing is older
  than the last carried event, the trades of its time are counted twice.
  `test_partition_carry_equivalence` asserts that carry and all files give the rows of one
  pass; its own history is out of order (a trade of block 100 among witnesses of blocks 10
  to 40), so that no row has a cutoff on either side.  `CutoffIsFrozenCutoff` and
  `TrailingFactsAreExact` say exactly when a repetition matters; files that begin after
  the cut are safe.

`GarbageCollected` excepts digests that have a receipt: `plan_gc` passes over them, so a
payload that is collected and then written again stays for good.

`RequestEnds` holds except for two half-made writes named by `Stranded`: a revision
file without `latest.json`, and a `job.json` without its wave.  Both make every
later retry fail.

What the comparison with reference definitions showed about the rest, none of it
against a promise of the repository:

* The window of a symbol evicts by the latest trade, causal or not, and the carry
  starts at the overlap.  An as-of fact whose trade is older than the lookback may
  therefore be missing, or be another trade of the same time; `AsOfFactsAreLatest`
  says exactly that.  The result with a carry and the one of a single pass may
  differ there too.
* `_merge_states` lets a side without positive rows give way to the other one
  (`canonicalize.py:556`), and the witness rows that side had counted are gone.
* The collapse of the causal grid takes an identity again after others, which
  canonicalization refuses.  Event windows use the last row of an identity, the
  causal grid the one its tie-break prefers.
* As-of offsets have no lower bound (`models.py:124`), unlike trailing and future ones.
  With a negative offset an event window reads an as-of fact from after the decision, in
  a block up to the cutoff (`event_window.py`); the causal grid stops at the decision
  time whatever the offset (`causal_grid.py:265`).
* A lifecycle lock that is taken when a delivery is committed is answered as
  `broker_internal_error` (`server.py:71`); a second user's commit of a delivered
  output is a conflict, although that user has persisted it.
* A connection that never sends its frame holds its slot: the server sets no
  deadline.  `CallersAreAnswered` is about clients that send.
* `dispatch_private_wave` reads, extends and replaces the dispatch file without a
  lock.  The broker is alone with it unless an operator dispatches by hand.

## Proofs

`AttemptLog_proofs` proves, for any number of executions, shards and attempts, that
`LogIInv` is an invariant, and from it type correctness, `OrdinalsArePrefix`,
`AtMostOneSuccess`, `AttemptBudget`, `GreenMeansNothingRetryable` and
`RecordsAreImmutable`.  The properties are not inductive: an execution appends under
an ordinal it computed long ago.  The strengthening says that what it read is a
prefix of the directory (`PriorInv`) and that the directory ends at its first success
(`LogInv`).  So if the computed ordinal is still free, nothing was appended since
the read, the shard still needed an attempt, and the append is safe; if it is not
free, the append is a conflict.  `WalkInv` carries the same fact along the wave for
the green conclusion.  Assumption: executions are
numbered, and `NumShards` and `MaxAttempts` are positive.

`BrokerServer_proofs` proves two things about the server.  Of the lock table: `IInv`, `MutualExclusion` and `NeverCorrupt` for any
number of threads, ids and locks.  The invariant ties the table's count to the number
of threads inside `hold`, so an entry disappears exactly with its last user.
Assumption: finitely many threads, and `NoLock`, `NoThread` are not real ones.
Of the output on its way: `OutputNeverLost`, for any number of clients, users, slots and
deaths.  The invariant says that a commit is on its way only from a client whose copy is
durable, also when the client has died since (`CommitHasCopy`), hence that a delivery
on record has a durable copy of its user (`DeliveredHasCopy`), and that a payload goes
only with a delivery (`SuccessHasOutput`).  Assumption: `HandoffAssumption`.

`ArtifactGC_proofs` proves, for any number of requests, digests, holds and faults,
`LiveRunKept`, `UndeliveredKept`, `MissingIsAccounted`, `HeldStays`,
`SharedWaitsForAll` and `ApplySettles`.  The invariant `GCIInv` says what a snapshot is worth while the
world goes on (`SnapshotInv`): it covers the input and the attempt of every live run
with a manifest, every undelivered output and every hold.  The broker may save a
request as succeeded meanwhile, but what it saves is the attempt the snapshot already
covers (`RunInv`), and everything else that would add a reference needs the lock
(`LockInv`).  So a payload in hand has only senders whose deliveries are past their
grace.  `MissingIsAccounted` follows from a second fact: payloads, receipts and pending
intents together never lose a digest, because an unlink happens only under an intent
and an intent is dropped only for a payload that exists or has its receipt.
`ApplySettles` follows from a third (`SettledInv`): while older intents are converged,
each is still to be looked at, and afterwards the only intent is that of the payload in
hand.
Assumptions (`ArtifactGCAssumption`): the collectors are the two modes, and lock
holders and null values are told apart.

`BrokerRun_proofs` proves every safety property of `BrokerRun` for any number of
executions, attempts and disturbances (the code gives a broker run one shard), and that
`BrokerRun` implements `BatchRequest` (`KeepsPromiseTheorem`: Init maps to Init, each
step to a step or a stutter).  `BrokerIInv` has these parts.  `LogIInv` holds because
every step is a step of `AttemptLog` or leaves it alone, so what was read of the
directory stays a part of it (`ReadInv`).  `HistoryInv` says at which steps the state
file counts the whole history: a handler adopts recorded dispatches before it decides
(`Synced`), and between record and save exactly one is missing, the pending one.
`ReadInv` and `ManifestInv` carry the two writers: whoever has read revision `base` has
also read, after it, all that revisions up to `base` keep, so when the comparison
succeeds the new revision keeps every earlier one; and the marker, which lets a handler
skip a reconciliation, names attempts the published revision already has.  Assumption:
`BrokerRunAssumption`.

`CausalGrid_proofs` proves all four properties of the grid extraction, for any set of
events, any two partitions, offsets, widths and block numbers.  The inductive invariant
`GridIInv` says that what the pass keeps is a summary of exactly the events it has
read: the frontier is the two highest blocks met so far, the deque of a symbol holds
its trades since the latest eviction, in order, and the rows emitted are those of the
grid times so far.  A carry is that summary for the events up to the cut.  A pass that
starts from it has two parts of history, the carried one (`Behind`) and the one read from
its files (`Observed`), which may share events.  The frontier's two blocks are those of
their union; its order flag falls when a step goes back, within a part or from the
carried one to the files (`Rewinds`).  A deque is the carried trades followed by those
read (`PartedDeque`), each part in order; so a trade is in it twice exactly if both
parts have it and neither copy was evicted, and none that is still in a window was.
From this follow `CutoffIsFrozenCutoff`, `TrailingFactsAreExact` (nothing evicted is still in a
window: the watermark never passes the next grid time less the lookback),
`AsOfFactsAreLatest` and `PartitionsCoverGridOnce`.  Assumptions: `RequestAssumption` (what
the request models validate, and files that together with the carry miss nothing) and
`GridAssumption` (times and blocks are natural numbers).

`SpillSort_proofs` proves that the external sort sorts (`SortedRowsSorts`): its result
is in the order of the keys and holds each row as often as the input does, for every
input, batch size, part size and fan-in of at least two.  The order is a parameter of
the module; the theorem asks of it only that it is a strict weak order on the rows
(`RowOrder`), which the sort keys of the code give.  The heap loop has the invariant
`MergeAt`: what was put out is sorted, nothing left in a run goes before it, and both
together are the rows of the runs.  The levels keep that every run is sorted and that
all rows are there (`ReducedAt`), and each level of more than one run is shorter, which
gives `FanInBounded`: after at most as many levels as there are runs, no more runs are
left than may be open at a time.

`CanonicalStates_proofs` proves about canonical states, for rows, files, keys, buckets,
runs and limits of any values, that `execute_structural_canonicalize` accepts exactly
the inputs it should and says of them what their rows say (`CanonicalTheorem`), and
that waves which share a row at their boundary can be merged in either order
(`WavesTheorem`).  The invariant of the inputs, `InputIInv`, is weak: an input is a
non-empty sequence of files of rows, or a plan whose range does not end before it
starts.  All the work is in the operators.  `StateOf` gives the state that rows have, as
a function of the positive rows and two counts.  `SpillAt` is the loop invariant of the
identity runs: after `n` rows the buckets hold the identities seen, and a bucket that
holds one twice means rows that are not contiguous.  Merging the states of two inputs
gives the state of one input followed by the other: the boundary identity decides
whether the two counts of groups overlap, and a bucket with a repeat is a refusal.
With concatenation being associative this makes the order of merges irrelevant.  A row
repeated at a boundary changes no state but the count of rows (`Alike`), and that count
is corrected by the merge.  Publication and `Reread` give the same state back.

`ReplayInputs_proofs` builds on it and proves the other three properties of the inputs.
Planning: each index of a range is in exactly one shard, no shard is empty and a
shard's read window holds what its indexes need (`ShardsCoverRange`); each shard is in
exactly one wave, in order, and no wave is empty or beyond its limit
(`WavesPartitionShards`); hence `PlanCoversRangeOnce` (`PlanTheorem`).  Collapse: what
comes out of buckets, sort and flushes is the best row of each identity, in order, and
differing cores are found however far apart the rows are (`CollapsedTheorem`): rows of
one identity share a bucket, and in the order of identities they are neighbours.
Windows (`WindowTheorem`): the pass over the files hands on the last row of each
identity of the symbol, in input order (its invariant relates the open group to the
last rows of the groups before it), and folding these gives each fact from exactly the
trades of its window.  A list of facts is handled as its increasing sequence of indexes
(`Selected`), which is unique, and the latest or earliest trade as the first with that
time.

The assumptions of the last two modules: `PlansAssumption` (what `RangeSpec` and the
limits validate), `RowsAssumption` (columns are cast to numbers, a positive identity has
a bucket), `DecisionsAssumption` (what the request model validates) and
`CanonicalizeAssumption` (positive sizes, a fan-in of at least two).  `Canonicalize` selects and
orders with `Those` and `InOrder` of its own, because library operators that take an operator as
a parameter have no meaning for the provers.

Recursive functions over data are proved about with the least-element principle of the
natural numbers, which needs no operator as a parameter: the set of indexes where a
claim fails has no least member (`SetInduction`, `Iterates`).  A module of proofs with an
operator as a constant (`Before`) is instantiated like any other, so a theorem about
`SpillSort` is one about each order it is used with.

Every invariant and every safety action property that a passing run checks is a theorem.
Only model-checked is liveness (`EveryExecutionConcludes`, `RequestEnds`,
`WaitersMoveOn`, `IntentsConverge`, `GarbageCollected`, `CallersAreAnswered`), because the
prover does not handle fairness.  The four violations are counterexamples TLC finds.

## Not modelled

* Listing a directory is one step in the model; the code reads file by file.  So are
  a collector's plan and its snapshot: under the lock only request files change while
  the snapshot is built, and a plan is checked again before anything is deleted.
* In `ArtifactGC`: static input references, shards of runs the broker does not own,
  requests that fail or are cancelled, reports and sizes.  The two repairs of payloads
  that vanished without a trace are modelled in `PassOver` and `EndApply`;
  `MissingIsAccounted` shows that crashes of a collector never make them necessary.
* Parsing, authorization and binding conflicts are answered before any state
  changes.
* The public worker keeps no state.  The tabular, ML, media, acquisition and
  replay-eval packs compute one output from one input; no step of theirs meets
  another one.
* In the replay packs: decimal arithmetic, column and schema validation, the JSON
  scalar projection, and the carry formats of versions 1 to 3.  `Preferred` (`CausalGrid`),
  `RowPref` (`IdentityCollapse`) and `TieBreak` (`EventWindow`) know the default tie-break,
  the timestamp, and no further columns.  Times and block numbers are natural numbers;
  the code sets no bound, but -1 stands for an absent block or time in the carry's numbers
  (`_CARRY_ABSENT_INT`).
  The refusal of two states with different bucket counts (`canonicalize.py:537-540`) is
  left out: all states have `BucketCount` buckets.
* `retryable_shards` with `resume_enabled` switched off (`kernel/core.py:229`): then a
  succeeded shard is attempted again while its budget lasts.  The broker always registers runs with it on.
* In `KernelPlanning`: ranges given by an input manifest, and extents in records of a
  time range, which `expanded_range` does not accept.
* In `Handoff`: two clients that write one destination, and their shared temporary
  file.  The request file of the broker is renamed without a sync, which is left to
  the host here.
* The operator's dispatch command (see the hazards), inspect and the synthetic run.
* `cancel_run`, evidence collection and `finalize` have no caller in the broker.

## Plan

1. `ArtifactGC`: static input references, which several runs share and which are
   validated before they are registered.
2. `BrokerRun`: the operator's dispatch command, which writes the dispatch history
   concurrently with the broker.
3. Acquisition paging (`packs/acquisition/pack.py`) as an operator over pages.
