# Agent Vigilo: specifications and proofs

TLA+ specifications of Agent Vigilo, model-checked with TLC on small instances,
and theorems about its coordination core that TLAPS checks for every value of
the constants.

Contents: [the system](#the-system), [modules](#modules), [runs](#runs),
[proofs](#proofs), [findings](#findings), [mutants](#mutants),
[what is not modelled](#what-is-not-modelled).

Paths below are relative to `src/vigilo/src/` unless they start with `src/`.
`PROJECT.json` has the full tables: every component with its status, every run
with its properties, the lines of code behind every definition (`map`), and the
hazards with the line where each one bites and the properties that cover it.

## The system

A *run* evaluates an agent on the cases of a dataset. Its cases are spread over
logical *run shards*, and each shard is owned by one execution database (its
*placement*). A control database keeps runs, plans, routes and dispatch cursors;
an execution database keeps the rows of its shards.

1. The CLI uploads a dataset as content-addressed files under an upload lease,
   plans a run over it, and admits the plan: it seeds the shards' chunks on
   their databases and activates the run.
2. The **coordinator** dispatches windows of chunks. A dispatched chunk gets a
   row in the transactional **outbox**, which the coordinator publishes to
   RabbitMQ.
3. A **worker** receives the message, finds the database that owns the shard,
   claims a lease on the chunk, and executes its cases in batches: it allocates
   an *attempt* per execution, calls the agent and the evaluators pinned by the
   run, persists results and finalizes the attempts.
4. A chunk becomes terminal in one transaction with an immutable *settlement
   receipt*. The coordinator recovers expired leases, folds receipts into shard
   summaries and finalizes the run from sealed summaries.
5. Operators cancel runs, move shards, add and drain databases, publish
   evaluators, watch and export runs, and measure performance meanwhile.

Nothing coordinates these processes except conditional updates, leases that
lapse, tokens and generations, write epochs and PostgreSQL advisory locks;
messages arrive at least once and in any order. That is where the difficulty is.

## Modules

One module per component. Every action that writes is one transaction or one
request of the code; what a process remembers between two of them is part of the
state, so a value that was read may be stale when it is used.

| Module | Code | State and actions |
|---|---|---|
| `ChunkExecution` | `cli/commands/worker.rs`, `db/workflows/chunk_processing*`, `execution_processing*`, `run_shard_summary/settlement.rs` | rows of one shard (chunks, executions, attempts, aggregates, receipts, admission), worker tasks with their heartbeats, database time; claim, extend, allocate, persist, finalize, complete, fail, release, recover, cancel, drain, cut over, crash |
| `ChunkSettlement` | the same, as a promise | the abstract specification: a case is resolved once; a chunk is settled once, with the outcomes of all its cases |
| `WorkDelivery` | `run_dispatch*`, `outbox.rs`, `db/tables/outbox_events.rs`, `mq.rs`, `worker.rs` | cursor, outbox with claim tokens, queues of the broker, deliveries; dispatch, publish, mark, reschedule, receive, claim, republish, acknowledge, quarantine, recover, and every way these fail |
| `WorkerService` | `cli/commands/worker/{start,once}.rs`, `cli/commands/coordinator/start.rs`, `runtime.rs`, `mq.rs` | consumer, permits, joins, signal, reconnection with backoff, exit |
| `RunLifecycle` | `run_dispatch*`, `run_finalize*`, `run_cancel*`, `coordinator.rs` | runs, cursors, shards, outbox of events, the coordinators' cycle and the cancel command with row locks in two databases |
| `ShardSummary` | `run_shard_summary/aggregation*` | receipts, consumption pages, summaries, claims of a pass, rotation over shards |
| `RunAdmission` | `run_plan*`, `run_admission*`, `cli/commands/run/create_blob.rs` | plan lease and generation, plan files, per-database seeds, routes; create, checkpoint, publish, resume, seed, verify, activate, cancel |
| `ShardMove` | `shard_admin*`, `shard_placements.rs`, `local_shard_admission*` | control route with version and epoch, move operations with claims, admissions, rows and captured dirty keys, advisory fences, movers and an abort command that stop anywhere |
| `Topology` | `shard_admin*`, `db/tables/{database,shard}_placements.rs` | databases with state, placements, rebalance operation and items, admins and workers |
| `DatabaseRouting` | `context/database.rs`, `circuit_breaker.rs` | pools, cached route and its refresh, admission epochs, circuits with generations and probes |
| `CaseFiles`, `CaseValues` | `contracts/case_storage/*`, `dataset_ingestion*` | records, spool, sort, identities, batches, index tree and manifest |
| `CasePlan`, `ReadCache` | `run_planning*`, `case_reader.rs`, `case_reader/cache.rs` | the planner's walk, chunks and shards, gate counts, the readers of a chunk and their budgets, the shared cache |
| `DatasetUpload` | `db/workflows/dataset_upload*`, `dataset_ingestion*`, `cli/commands/dataset.rs` | upload row with owner, generation and lease, planned/sent/acknowledged objects, requests under way, quarantine, cleanup |
| `BlobStorage` | `blob_storage*` | conditional creation with lost answers, verification, slots and spool bytes |
| `Scoring`, `Evaluation`, `EvaluationValues` | `contracts/{aggregation,evaluator,normalization,scorecard,run}.rs`, profile validation, settlement queries | pure scoring operators; selection, persistence, receipt counts, merge and verdict |
| `EvaluatorRegistry`, `RegistryValues` | `evaluator_package.rs`, `evaluators.rs`, `core_evaluators.rs`, `context/{registry,wasm}.rs`, `evaluator_abi*` | packages, racing publication, core installation, pins, component cache, context cells, permits and deadlines |
| `AgentClient`, `AgentValues` | `agent_client*` | attempts of one execution, timeouts, limits, classification, `Retry-After` |
| `RunReporting` | `run_status.rs`, `run_results.rs`, `run_export*`, `cli/commands/run/*` | reads over shards that move; evidence, merge, live progress, deadline |
| `PerfCampaign`, `PerfHarness` | `src/xtask/src/perf/*` | schedule, journals, host lease, verdict; processes, mock agent, samples, cleanup |

The `*Values` modules hold the bounded inputs of their component. Definitions
marked *mutant* are faulty variants of the definition after them
([mutants](#mutants)).

**How they meet.** `ChunkExecution` assumes nothing about delivery: a task may
receive any chunk at any time, which covers every loss, duplication and
reordering, so what it shows holds under `WorkDelivery`. `WorkDelivery` assumes
of a claimed chunk that it ends in one of four outcomes or that its lease ends.
`ShardSummary` and `RunLifecycle` take receipts as they come, which is what
`ChunkSettlement` promises. `ChunkExecution`, `ShardSummary` and
`DatabaseRouting` see of a move what it does to the admission of their database,
and `ShardMove` sees of them that rows are written while the admission is open.

**Data** is abstracted to what the properties tell apart: an evaluation is
completed, retryable or terminal, a hash is injective, an encoding is a size, a
score is a small integer, the evidence in a receipt is the set of cases it
counts. Control is kept: guards, early returns, error paths and their order.

**Time.** `ChunkExecution` has a clock; `now()` is fixed when a transaction
starts and its writes may wait for locks, so an action reads any time at most
`TxLag` ticks ago. `DatasetUpload`, `AgentClient`, `WorkerService` and
`DatabaseRouting` count timers down. The others let leases end at any moment.

## Runs

Four runs take the components that carry the most concurrency on their own;
three *suites* (`MCControl`, `MCData`, `MCProgress`) take the others. A suite has
a variable `part` that names a component; its behaviours are those of one
instance of that component, and its properties are those of the component's
module under its part. One suite property groups statements of one kind: what is
stored is whole, owners serve, and so on. The suites' comments say what each
instance is.

| Run | Instance | Checks |
|---|---|---|
| `chunk_failures` | 1 chunk, 1 case, 2 processes, one with errors and crashes; 1 attempt, 1 recovery, 2 tokens, 2 epochs, lag 1 | receipts match and stay true, completed executions have results, the exhausted can be closed, delays outlive leases, a closed shard is quiet and frozen, nothing reopens (577 k states) |
| `chunk_batches` | 1 chunk, 2 cases in batches of one, 2 tasks of one process, 2 attempts | settled chunks have nothing open, one running attempt, a chunk is completed only when resolved, `ChunkSettlement` is implemented (429 k) |
| `delivery` | 1 chunk, 2 workers, 2 coordinators, 2 faults; a dropped connection counts as two | no lost work, one settler per event, bounded duplicates (1.26 M) |
| `lifecycle` | 1 run of 2 chunks on a shard that may move, 2 databases, 2 coordinators, 1 canceller, 1 fault | a completed run is whole, a cancelled one is cleaned up, no chunk is forgotten behind a drained cursor, a run ends once (213 k) |
| `control` | `summary`, `split`, `admission`, `move`, `race`, `abort`, `rename`, `rescue`, `topology`, `rebalance`, `routing` | summaries are exact, runs begin and end whole, owners serve, moves lose nothing, nothing decided is undone, writes follow the route (614 k) |
| `data` | `files`, `plan`, `cache`, `blobs`, `upload`, `scores`, `publish`, `pinned`, `runtime`, `agent`, `service`, `report`, `moving`, `exported`, `campaign`, `harness` | what is stored is whole, verdicts are sound, evaluations run what was pinned, limits hold, reports are final, measurements are sound, nothing relied on is taken back (1.44 M) |
| `progress` | `summary`, `lifecycle`, `admission`, `blobs`, `upload`, `windows`, `disconnect`, `routing`, `runtime`, `agent`, `service`, `reporting`, `harness`, under fairness | runs end, uploads end, messages settle, commands end (229 k) |
| `chunk_stale_finalize`, `chunk_claim_cancelled`, `chunk_orphan_heartbeat`, `delivery_reconnect`, `move_lost_write` | as above | each violates one statement of the documentation or a comment, see [findings](#findings) |

**Why the bounds are enough for what is asked.** A race needs two processes and
one thing to race for: two tokens give a stale and a current holder of a chunk,
two coordinators a late and a current publisher, two claims a mover or worker
that was taken over. One crash or fault, placed anywhere, separates any two
commits; in `WorkDelivery` two are the least with which a duplicate and a loss
meet. Two attempts reach retry and exhaustion, one recovery both branches of
recovery, two cases in batches of one a chunk that is partly done, two pages,
groups or batches a resumption in the middle. With leases of one tick, three
instants are a claim, its expiry and what comes after; uploads need three to
order request, admission and lease. Two epochs let a move be aborted and
repeated. The pure parts (`files`, `plan`, `scores`, `agent`) enumerate all
inputs of their `*Values` module, whose limits are small enough to be reached
from both sides. What the bounds leave out is covered by the
[proofs](#proofs) for the properties named there.

**Symmetry** is used where no action or property tells processes apart:
coordinators in `lifecycle`, workers and coordinators in `delivery`. No run with
a liveness property uses it.

**Deadlock** is not checked: a run whose chunks are settled stops, and with
bounded clocks, claims and generations so does everything that waits for them.

**Fairness** (`progress`, stated per part in `MCProgress`). Weakly fair are the
steps of processes that run or poll without end (workers, coordinators, the
cleaner, a mover's retry, the operator's command that is under way) and the
passing of time (leases, delays, windows, deadlines, circuits, epoch ticks).
Strongly fair is only the acquisition of an evaluation permit, because Tokio's
semaphore serves waiters in order. Faults, crashes, signals and operators'
decisions are never fair; they are finite in number, without which nothing
drains. A database that went down comes back (`Restore`).

## Proofs

The theorems hold for every value of the constants: any number of chunks, cases,
tasks, workers, coordinators, databases, movers, files, faults and so on, and any
lengths of leases and bounds. What the constants must satisfy is named: in the
modules as `ASSUME` (the maps are functions, null values are not members, budgets
are naturals), in `RunAdmissionProofs`, `ShardMoveProofs` and
`DatasetUploadProofs` as a hypothesis of each theorem (`AdmissionConstants`,
`MoveConstants`, `UploadConstants`). `LeaseAssumption` asks that a claim's
lease is not longer than the lease its heartbeat asks for, 60 and 120 seconds in
the code; `UploadConstants` that a request deadline and an admission window are not longer
than the lease, as `dataset_upload.rs` has it.

| Module | Theorems |
|---|---|
| `ChunkExecutionProofs` | `TypeCorrectness`, `ReceiptsMatchChunks`, `SettledIsClosed`, `ReceiptsStayTrue`, `AttemptsAreExclusive`, `ClosedShardIsQuiet`, `DelaysOutliveLeases`, `ClosedShardIsFrozen` |
| `ChunkSettlementProofs` | `ExecutionImplementsSettlement`, `CompletedExecutionsHaveResults`, `ExhaustedExecutionsCanClose`, `NothingIsReopened`, `CompletedChunksAreResolved` |
| `WorkDeliveryProofs` | `DeliveryTypes`, `SettlersAreUnique`, `WorkIsNotLost` |
| `WorkCopiesProofs` | `CopiesAreBounded` |
| `RunLifecycleProofs` | `RunsCompleteWhole`, `CancellationCleansUp`, `DispatchForgetsNothing`, `RunsEndOnce` |
| `RunAdmissionProofs` | `AdmissionTypes`, `PublishedPlansAreWhole`, `ActivatedRunsAreSeeded`, `CancelledRunsAreEmpty`, `RunsAreDecidedOnce` |
| `ShardMoveProofs` | `OnlyTheOwnerIsOpen`, `CutoverClosesTheOwner` |
| `DatasetUploadProofs` | `UploadTypes`, `RequestsEndWithTheLease`, `AcknowledgedObjectsAreStored`, `CompletedCleanupIsFinal` |

The first five modules prove every property of the runs `chunk_failures`,
`chunk_batches`, `delivery` and `lifecycle`. The theorems about `RunAdmission`,
`ShardMove` and `DatasetUpload` are about the definitions that the suites
conjoin: `RunsAreWhole` and `NothingUndone` of `control` (admission),
`OwnersServe` of `control` (`OneOpenOwner`), `StoredIsWhole` of `data` (upload).

### Chunks

One inductive invariant gives the first six theorems:

    IInv == TypeInv /\ TaskScope /\ Settled /\ OneRunningAttempt /\ ClosedIsQuiet

`ReceiptStaysTrue` is not inductive by itself. A write to an execution or an
attempt could falsify a receipt unless the row belongs to a chunk without one:

- *Writers know their chunk.* `TaskScope`: what a task holds (remaining cases,
  batch, transitions) belongs to its chunk. So allocation and finalization,
  which demand that *this* chunk is leased, write under a leased chunk.
- *Settled chunks have nothing running.* Persistence does not look at the chunk
  at all, only at running attempts. `SettledHasNoOpenWork` says a settled chunk
  has none, hence persistence cannot reach one.
- *A leased chunk has no receipt*, by `ReceiptMatchesChunk`.

Every action is shown to be a `ChunkStep`: for each chunk it leaves all that a
receipt speaks of alone, or works on a chunk that is open before and after, or
settles it. `Settled` follows from `ChunkStep` once for all actions.

`DelayedOutlivesLease` needs `LeaseInv`: tokens are handed out once, so nobody
but the delayed task could have renewed its lease, and its heartbeat is off.
`ClosedIsFrozen` follows from `ClosedIsQuiet`, as every write asks for a lease or
a running attempt.

**Refinement.** `ChunkExecution` implements `ChunkSettlement` under a mapping
that hides leases, attempts, retries, heartbeats and time. What a step does to
the rows of a case is one of five things (`CaseStep`), which keep what the rows
are to each other (`CaseInv`); what tasks have yet to report (`ItemInv`) decides
which of the five a finalization may do, and where a task is (`PlaceInv`) says
that it has seen every case of a chunk it completes. Together they are `RInv`,
from which each step is a step of `ChunkSettlement` or a stutter.

### Delivery

- `TokenInv`, `DistinctInv`: tokens are issued once per event, so the settler is
  unique.
- `FreshInv`, `HiddenInv`, `CursorInv`: an event of a later recovery does not
  exist yet, nobody has heard of an undispatched chunk, and the cursor stays
  open as long as there is one, also between the two commits of a dispatch.
- `CarriedInv` strengthens `NoLostWork`: among what leads to a dispatched
  pending chunk there is always one carrier that cannot vanish, i.e. an event
  whose message is not out, a queued message, or a delivery that will not simply
  be acknowledged. `WorkIsNotLost` assumes that connections of live workers do
  not drop (`~MayDisconnect`); `delivery_reconnect` shows that it is false
  without, and the part `disconnect` that this takes a second fault.
- `CountInv` strengthens `BoundedCopies`. Copies that do not exist yet must be
  counted before they appear: an event whose claimant overran its window
  (`Overrun`), a claim that lost its event and may still publish (`Late`), a
  lease nobody works under (`Abandoned`). Every action moves at most one unit
  between these sets, and only a fault adds to the sum.

The attempt to prove `BoundedCopies` corrected it. The bound had been two copies
per fault, which `delivery` confirms; with three recoveries or more it is false,
because a coordinator that is lost after it sent all pending events of a chunk
and before it marked them has each of them sent again. `CopiesOfFault` now says
what one fault can add.

### Runs

Finalization reads summaries one database at a time and writes later,
cancellation reads routes and cleans up later, dispatch commits in two databases
one after the other. The invariant says why what was read is still true when it
is used: a settled shard changes no more, and the row locks keep the status a
transaction goes by (`LockInv`, `CoordOf`, `CancelOf`, `RunOf`).

### Admission

`IInv` says of the plan that what was published was acknowledged, hence stored;
of a database that it has chunks only of a published plan; of a cleaned database
that it refuses work (`Shut`): its admission is closed or its run cancelled, or
it is the control database, whose run row decides. Of a process it says that
what it put since its last checkpoint is stored and what it verified still holds
while the run is being created. The last is what makes activation sound: pages
are verified one at a time by a process that may have lost its lease.

### Moves

Every admission is opened by a process that acts on a route it read earlier. So
the invariant is about stale routes (`Known`): a route read at an epoch names
the database that still owns the shard, or one whose admission has a later
epoch, which refuses the transition. That the source is closed before the route
leaves it needs the mover to close the database of the route it hands over. The
code never compares the two. It holds because of the claims: one move is active
at a time, a mover with the claim of the active move has that move's target
(`SeekInv`), and so has whoever may hand the route over (`RuleInv`).

The proof needs no bound on aborts and lets movers and aborts overlap at will,
so `OneOpenOwner` is checked by every part of `ShardMove`. That a retry finds an
operation it can resume (`RetryIsResumable`) and that the owner of an active
route is open or can be reopened (`ActiveRouteReopens`) is checked without
aborts, and in the part `rescue` with an abort that may stop after any of its
transactions, as long as no mover runs while it does (`QuietAborts`). Two states
such an abort leaves are named in these properties (`LeftByAbort`): the target
closed at the epoch after its route's, which accepts no move at that epoch; and
an owner still draining or closed under an active route, when the abort stopped
before it reopened the source. With a mover that
runs *through* an abort neither property holds: it may drain and close the
source at the next epoch after the abort has reopened it, then fail to activate,
and leave an active route with a closed owner; or leave a target prepared for a
move that has been aborted.

### Uploads

Nothing in the bucket knows about leases. `Authority` says a process runs with a
generation that was given to it, `Covered` that a timer still running ends
within the lease it was started under or within the quarantine that took its
place, `Unspoilt` that a write which may still arrive goes to a key nobody
cleaned. `Place` and `Stored` relate where a process is to what is registered
and stored. The quarantine need not be as long as a request: the rest of the
lease is added to it, and this suffices.

### Model-checked only

- *Liveness* (`progress`) and `ENABLED` are outside the prover's reach.
- `CaseFiles`, `CasePlan` and `ReadCache` use recursive operators, which the
  prover cannot load; what they compute is compared with reference definitions
  over all small inputs.
- `NothingLost` of `ShardMove` holds without aborts and is false with them
  (finding 5); `RetryIsResumable` and `ActiveRouteReopens` hold with aborts
  only in the form described under [moves](#moves).
- The invariants of `ShardSummary`, `Topology`, `DatabaseRouting`, `BlobStorage`,
  `Evaluation`, `EvaluatorRegistry`, `AgentClient`, `WorkerService`,
  `RunReporting`, `PerfCampaign` and `PerfHarness`. Nothing is known to stand in
  the way of proving the control ones; they are next.

Induction is done first-order where it is needed, through a least counterexample
(`LeastNatural` in `DatasetUploadProofs`), since the provers cannot instantiate
an induction rule with a predicate.

## Findings

Each is a `violation` run of one property; `PROJECT.json` quotes the line that
says otherwise.

1. **A worker that lost its chunk may finalize under the new holder's lease**
   (`chunk_stale_finalize`). Finalization checks that the chunk is leased and
   unexpired and that the attempt carries the worker's id, not the lease token,
   while `transitions.rs:7` says that stale workers cannot complete attempts
   after reassignment. Receipts, exclusivity and finality hold nevertheless.
2. **Chunks of a cancelled run are claimed** (`chunk_claim_cancelled`) until the
   cancellation's second transaction; the documentation says only chunks of
   running runs are. They settle consistently.
3. **The heartbeat survives a failed summary read** (`chunk_orphan_heartbeat`):
   `worker.rs:1302` returns by `?` and leaves the heartbeat renewing, so the
   delayed delivery comes back to a live lease, against `worker.rs:782`.
4. **A chunk can be stranded after a reconnection** (`delivery_reconnect`): a
   requeued delivery is acknowledged by a second worker as unclaimable; if the
   first then releases the chunk and fails to publish its copy, no message leads
   to the pending chunk, and recovery looks at leased chunks only.
5. **A move retried during an abort can lose a row** (`move_lost_write`):
   `abort_shard_move` reopens the source and drops its capture in transactions
   that commit before the operation is settled (`shard_admin.rs:2178`). A move
   started in between resumes the active operation, skips the backfill and cuts
   over without what was committed meanwhile, while `shard_admin.rs:1515` says
   that retries are resumable.

The search for the invariant of `ShardMove` showed two more things, which no run
keeps because they need larger instances. A mover that stalls between the
renewal of its claim and its second look at the route, and loses the claim, can
two moves later set its own former source to *draining* at the newer epoch
(`shard_admin.rs:3256`); it can never open one, which is `OneOpenOwner`. And a
claim made on a stale route can create an operation whose source is no longer
the owner; later claims are refused until it is settled.

## Mutants

`PROJECT.json` lists for every property of a passing run a faulty variant of a
definition with which TLC finds that property violated. A suite property speaks
of several components, so each of these has variants of its own, all of which
the runs refute:

- `control`: `FinalPageUnverified`, `PrepareAgain`, `HoldsAnyItem`,
  `FailUnguarded`, `HoldsNoFence`, `SuccessAnyGeneration`, `EnableCaptureLate`,
  `MayTransitionAnyEpoch`, `MayDrainTarget`, `MayDisableUndelivered`,
  `RefreshedEarly`, `AdmissionIgnored`, `RequestCancelUnmarked`.
- `data`, stored: `ReadRecordTruncating`, `SourceIdBytesKept`,
  `IdentityBuilderUnseparated`, `PackCaseSkipping`, `ExpectedTotalsFull`,
  `RetainKeeping`, `PopKept`, `KeepsUnchecked`, `VerifiedLength`,
  `TransferUncapped`, `QuarantineFromNow`.
- `data`, evaluated: `CompleteAbstained`, `MergeEntryLast`, `PersistedTagsNone`,
  `ApplyGateCountsFound`, `MergedFirst`, `RowMatchesGateAnyTags`,
  `PackageOfUnsealed`, `UniqueHashOnly`, `InstalledMatchesAny`,
  `IdentityMatchesAny`, `HeldByAwaiting`, `MayChangeAny`, `HttpUncappedDate`,
  `HttpWorkerClock`, `FitsBefore`, `ReadFailureTransport`, `FreeAny`.
- `data`, reported and measured: `EvidenceOfAttempt`, `NextShardKeeping`,
  `LiveUntilTerminal`, `EffectUnpaired`, `IndependentAny`,
  `VerifyUnchangedNever`, `JournalLastBlock`, `AnswerFirst`.
- `progress`: `RotateNothing`, `FreeUnexpired`, `WaitsExceptDisk`,
  `JoinLogging`, `DueNotRunning`, `SleepForever`, `ObserveJoins`, `TickStopped`,
  `RescheduledBecomesAvailable`.

## What is not modelled

- *Computation and I/O*: the agent, what evaluators compute (core evaluators
  included), hashing, encodings, S3, HTTP, WebAssembly, CLI arguments and output,
  migrations, metrics, logging, provider and pool configuration. An evaluation
  yields any outcome.
- *Numbers*: floating-point scores are small integers, 32-bit counters are not
  added up, the choice of a retry bucket from a delay is left out.
- *Deletion*: no code deletes rows of a shard, so captured keys are of written
  rows only.
- `ShardMove`: rows are written only in the part `move`. With an abort in the
  middle `NothingLost` fails (finding 5), and with two movers a key that is
  written again while it is replayed can be lost too, so the parts with aborts,
  with two movers and with a renamed database have no rows.
- `Topology`: the insertion of a first placement, references of runs still in
  creation (`creation_count`), physical identities, and the read-only
  inspections (`verify_shard_rebalance`, `inspect_shard_route`). Readiness is
  probed in a step of its own before the transaction that activates.
- `DatasetUpload`: a process pauses and resumes anywhere, but a request it had
  sent when it died is gone with it. Pages of 64 objects or uploads are larger
  than any instance.
- `RunReporting`: a shard that moves back empties the database it returns to. An
  export that still reads there misses rows; `reader.torn` records it, and
  completeness is claimed of the reports it did not happen to.
- `Evaluation`: a group id with a comma is modelled as its pieces, since the
  worker joins the ids of a case's groups and the receipt splits them. A gate on
  such a group is judged over none of its cases (`VerdictIsDirect` says so); one
  on a piece of such an id may count another group's cases and is excluded by
  name (`Addressable`).
- `RabbitMQ`: `ack` reports success on an unavailable channel; the requeue that
  follows is the disconnection of `WorkDelivery`. A chunk task that returns an
  error ends the worker's loop, which is `WorkerService`.
- *Performance tooling*: timing verdicts of `reliability.rs`, scaling,
  calibration, projection, query budgets and report formats. A harness that is
  killed leaves its containers to the next start. Campaigns follow one another
  in the run: of two alive at once both may hold the host lease.
- `src/web`: documentation, read as the statement of what the code promises.
