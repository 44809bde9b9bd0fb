# people-counter: a TLA+ verification project

The repository is a batch system that counts people in videos on Microsoft
Fabric, with a local twin of every distributed part. Videos are published and
registered as *work*, claimed in *batches* under a lease, processed by Spark jobs
that stage their records, sealed, committed as *publications*, and aggregated to
gold tables that feed semantic models. The neural networks sit at one end of
this; what can lose, duplicate or confuse work, and what the numbers are made of
once the networks have spoken, is modelled here.

Paths below are relative to `src/src/people_counter/`.

## 1. Inventory

| Component | Files | State it keeps | Operations | Module |
|---|---|---|---|---|
| Control writer lock | `fabric_control.py`, `_clear_stale_lock` in `fabric_sjd_runtime.py` | one Delta row `(owner_id, acquired_at)` | `run` (acquire, callback, release), clear-stale-lock | ControlWriter |
| Local control store | `sjd_control.py` | work, batches, attempts, batch_members, publications, replay_requests, reconciliation_findings | register, claim, heartbeat, seal, commit, recover, replay, quarantine, reconcile | ControlStore, LeaseAdmission, Reconciliation |
| Fabric control store | `fabric_control_store.py` | the same as Delta tables, envelope files | the same, abandon_failed_claim, recover_exact | FabricControlStore |
| Process job | `sjd_process.py` | the attempt staging area, a heartbeat thread | run_process_batch, resume_committed_process_batch | ProcessJob |
| Spark harness | `sjd_process.py`, `fabric_executor_partition.py` | staged files or a Delta stage, receipts | execute, collect, read back | PartitionStaging |
| Inputs of a job | `fabric_sjd_runtime.py`, `fabric_capability_probe.py`, `fabric_input_resolver.py`, `fabric_source_cache.py` | decision files, aliases | probe, bind, localize | ProcessInputs |
| Executors | `fabric_executor_inventory.py`, `cpu_runtime.py` | thread budget of a worker | discover, plan width | Placement |
| Releases | `fabric_release_provenance.py`, `fabric_sjd_runtime.py` | manifest and receipt of each version, release of a work | register, admit, load, execute | ReleaseBinding |
| Gold job, refresh | `sjd_gold.py`, `fabric_gold.py`, `refresh_main` | gold tables, checkpoints, semantic_refresh_outbox | plan, build, save and enqueue, refresh, acknowledge | Gold, GoldRows |
| Local pipeline | `sjd_orchestrate.py` | none of its own | one command from registration to acknowledgement | Pipeline |
| Local queue | `local_queue.py`, `local_control.py`, `local_cli.py`, `local_spark.py` | a SQLite queue, an actor's mailbox, staging | enqueue, claim, renew, finalize, submit | LocalQueue |
| Event inbox | `fabric_events.py` | events, receipts, work and attempts | submit, drain | EventInbox |
| Event-log evidence | `fabric_spark_event_ingest.py`, `fabric_benchmark.py` | none | parse, check, sweep | EventEvidence |
| Catalog | `manifest.py` | catalog and inventory files | load, match, plan | Catalog |
| Publisher | `manifest_publisher.py`, `adls.py` | package, staging and incoming directories, checkpoint database | prepare, upload, rename, publish | Publisher |
| Cutover | `fabric_sjd_cutover.py`, `fabric_sjd_cutover_jobs.py` | archive bundle, gates, journal, tables | bootstrap, archive, retire, clean up | Cutover |
| Reconciler | `fabric_reconcilers.py`, `fabric_automation.py`, `fabric_activator.py` | Fabric items, schedules, environment | reconcile_runtime | RuntimeReconciler |
| Deployment by hand | `scripts/deploy_sjd_operations.py` | the same | deploy_operations | DeployOperations |
| Tracking | `pipelines/rtdetr_osnet.py` | tracks, gallery | associate a frame | Tracking |
| Line counting | `pipelines/rfdetr_botsort.py`, `video.py`, `line_counting.py`, `config.py` | reader, cache, counts | read, process, count | LineCounting |

How they interact. An operator deploys a release, by the reconciler or by hand;
schedules then start the jobs. The publisher plans videos from the catalog and
uploads them; intake registers them as work of a release. The dispatcher claims
a batch in the control store and runs the process job with the batch's identity.
The job reads the claim envelope, chooses how executors get their inputs and how
wide it runs, keeps the lease alive from a second thread, has the harness stage
records of every partition, and then seals and commits through the store. The
Fabric store performs every operation as the callback of `ControlWriter.run`, the
only mutual exclusion there is. The gold job reads committed publications,
advances checkpoints, and leaves a signal in the outbox that the refresh job
consumes. Operators recover expired leases, replay or quarantine work, reconcile,
and clear a lock left by a dead driver.

What is hard here: any process may die between any two writes; a write, a lock
update or a REST request can take effect after its caller raised; the clock of an
operation may be read before a wait; calls arrive twice or after recovery has
given their work away; the Fabric store has no transaction over its tables; two
runs of the same batch, two applications of one envelope, two deployments can
overlap; what was probed, planned or released is another thing when it is used.
`PROJECT.json` lists these hazards with the line where each one bites.

What makes each component correct:

* lock: only the owner's writes can reach the tables, also after crashes and
  operator actions, and no token stays for ever;
* stores: one live holder for each work, unique fences, one publication for
  each work (and replay), immutable history, exact attempt budget;
* process job and harness: what is sealed is exactly what is staged, of one
  execution; a job can be repeated at any point and reports the truth;
* inputs, width, releases: the mount is used only where it was proven, copies are
  what was registered, tasks fit their executor wherever they land, and a work is
  processed by the release it was registered for;
* claim admission: the claimed prefix fits the lease, and the process job agrees;
* reconciliation: findings are real;
* gold: facts that a run skips are current, rows are those of a rebuild, and a
  signal is acknowledged only after a refresh that saw it;
* queue, inbox: a message or a command takes effect once, whoever died meanwhile,
  and is settled some day;
* publisher, cutover, deployments: a command that stopped anywhere can be run
  again, and what it reports is in place; nothing is dropped that is not archived;
* catalog, tracking, counting, evidence: one camera row for a video, one person
  for an id, every crossing once, no parallelism that was not there.

## 2. Modules

```
Nothing            the value None
SerializedWrites   abstract: one holder at a time, only the holder writes
ControlWriter      the lock protocol; implements SerializedWrites
  MCControlWriter
LeaseAdmission     LPT projection and claim prefix (pure operators)
  ClaimAdmission       one claim of any queue under any profile
ControlStore       EXTENDS LeaseAdmission: SQLiteControlStore, a transaction a step
  ControlStoreProofs
  Reconciliation       EXTENDS ControlStore: findings and reconcile
    MCReconciliation, PublicationProofs
  ProcessJob           EXTENDS ControlStore: runs, heartbeat threads, staging
    MCProcessJob, ProcessJobProofs
  FabricControlStore   EXTENDS ControlStore: tables overwritten one by one
    MCFabricControlStore, FabricProofs
Pipeline           commands of the local pipeline on one store and one gold
  MCConcurrentJobs       with ControlWriter
LocalQueue         queue, actor, batch runner
  MCLocalQueue
  ConcurrentJobsProofs   ControlWriter, Pipeline, LocalQueue
Gold, GoldRows     gold runs and refreshes; the rows they leave
  MCGold
  EventsAndGoldProofs    EventInbox, Gold, GoldRows
EventInbox, Publisher, Cutover, RuntimeReconciler, DeployOperations
  MCOperations
  OperationsProofs       all but EventInbox
ProcessInputs, Placement, PartitionStaging, ReleaseBinding, Tracking, Catalog,
LineCounting, EventEvidence
  MCExecutors            with ClaimAdmission
  ExecutorsProofs        all of them, with ClaimAdmission
```

An MC module that extends several components has a variable `focus` that is
chosen once: a behaviour is a behaviour of one component and the others keep
their initial state, so the run checks each as if it were alone. They share no
state in the code either, or meet only through what the module says it assumes.

`PROJECT.json` maps every definition to its lines. Definitions marked `(slip)`
are plausible mistakes, used nowhere in a specification: putting one in place
of the definition that follows it makes the named property fail, which shows
that the property depends on the code. Where a property is a conjunction
(`ClaimsStayInBounds`, `SavedRowsAreCurrent`, ...), its parts are stated, with
what each is about, just above it.

### ControlWriter

`lock` is the Delta row. A *run* is one call of `ControlWriter.run` and, since
every call draws a fresh token, its token too. `pc` follows `_acquire`, the
callback and `_release`; a read and an update of the row are one step each and
everything interleaves. The environment is adversarial where Delta is: an
update may raise and have committed, commit later (`late`, `LateUpdate`) or
never; a run may die at any point (`Crash`), with table writes that can still
commit (`inflight`). The operator reads the row, confirms that the run is dead
and that nothing of it can commit any more (`Confirmed`, the rule the module
docstring states), updates, and reads back.

`SerializedWrites` is what the stores rely on. `ControlWriter` implements it
under `holder <- lock.owner, writing <- inflight`.

### LeaseAdmission

`_lpt_makespan_seconds`, `_largest_admissible_claim_prefix`, the two places
that decide on a number of workers, and `admit_lease`. In `ClaimAdmission` a
state is a queue, a profile and a lease, and the claim is the one step; what it
takes is compared with definitions over all assignments. Profiles are those
`build_profile_from_inventory` makes: every executor has a slot, and no caller
passes `operator_cap`.

### ControlStore

One step is one `BEGIN IMMEDIATE` transaction; one that raises rolls back and
is no step. The operation's time is any `now` in `ReadClock`, because the code
reads its clock before it waits for the transaction. Callers are arbitrary: any
batch, any moment, twice, too late. Rows keep what decides anything: status,
fence, lease, expiry, attempt counts, pointers, outputs. An attempt is
identified by its batch and work; a batch's envelope is its membership. Digests
are values that are equal or not.

Not in it: `output_records` rows (always written with the seal), envelope
files (ReleaseBinding has them), `status`.

### Reconciliation

The findings table and `reconcile` with the detections that the tables can
produce (invalid and missing pointers, sealed but uncommitted batches, expired
leases, membership mismatches); those about missing files are left out.

### ProcessJob

`runs` holds the calls of `run_process_batch`: where the call is, its plan, the
records it holds, and its heartbeat thread. `staging` is the attempt directory
of each batch. The three attempt adapters (JSON files, local Delta, OneLake
Delta) are one staging area with the same contract: create-only records, then a
create-only marker that names their digest. A write takes two steps and what is
there in between, or for ever if the run dies, is `Torn`. One step is one
access to the store or to staging, so every check can be stale by the time of
the action it allows. `Fail` lets a run die or raise at any step.

Assumed: all runs have the same installed package version (a resume under
another one is refused by the record validation).

### FabricControlStore

The tables of `ControlStore`, with the operations of `fabric_control_store.py`:
an operation takes the lock, computes from what it reads, and overwrites the
tables in the order of its `_replace_many` call. `FailHalfWay` stops it after
any of them; the lock is then retained until an operator clears it
(`ControlWriter` shows that this gives exclusive access, which is why here the
lock is one variable). batch_members is written just before attempts with the
same content and is folded into it.

### Gold

One gold run (`job`) follows `LocalGoldJob.run` as the Fabric job inherits it:
sources, plan, outputs and control rows are read at different moments, one
partition after the other is replaced, the sources are read again to decide
whether the build was complete, dimensions follow, and the end saves
checkpoints and then the refresh signal. The control store around it is reduced
to what gold reads: the sequence of each published output (0 when there is none
or it was withdrawn by a replay) and a counter of all changes for the
operations source. `gold.flow` says which outputs, as of which publication, the
rows of a date show; versions count the writes of fact and dimension tables, as
Delta does. The look-back of the plan is any number of recent publications, and
the dates that operations add are any dates. The refresh job reads the pending
signals, refreshes the models one after the other from the tables as they are
then, and acknowledges what it had read. A run or a refresh stops at any step.

Assumed: gold runs do not overlap with each other (the job does nothing to
exclude it), nor do refreshes. Not in it: the contents of rows and how they are
validated (a failed validation is a stop), which dates operations add, the
partition checkpoints, which nothing reads, and the local store, whose save is
one SQLite transaction.

Rows of withdrawn outputs may stay in the tables until their date is built
again; SkippedFactsAreCurrent speaks of the published ones.

### GoldRows

The same job one level down: a run is one step, and what it builds is computed
row by row. The control store is its rows with the day of each event; `Dates` is
the choice of `plan` (publications since the last run, the look-back, the control
cutoff that goes back before the last completed run), and the tables are kept per
date as in the code, so that a date that is not selected keeps its old rows.
SavedRowsAreCurrent compares with a rebuild of everything, and names the two
exceptions the code has: publications that a replay withdrew, and leases that
recovery found over later than the look-back.

### Pipeline

`run_local_pipeline`: `command` holds each run's scope, the batch in hand and
what it has seen. A claim, a batch, the readings and writings of gold are steps;
commands overlap, die anywhere (`Break`), and an operator recovers leases or does
not. `overlapped` is history: gold builds that overlap can lose rows, since each
replaces what it read, and the property is stated for the others.

### LocalQueue

`row` is the SQLite table, `mail` and `busy` are the actor of each command. The
main thread and the heartbeat thread of a command both call the actor; a call is
answered, cancelled while it waits, or given up while it runs, and then takes
effect with nobody waiting, the result being lost. Leases are live or over; a
message claimed by a call whose answer was lost is orphaned until its lease ends.
`staged` are the deliveries that have a SUCCEEDED record.

### EventInbox

Commands are appended with the sequence number of their execution and drained by
one drain at a time. A drain plans a command from attempt and work, writes
the attempt, the work, and later the receipts, and may die after each; the next
drain plans the same command from what is there. Leasing and recovery are the
external dispatcher's and are what the commands presuppose.

### Publisher

`prepare` hashes the sources and writes a package; `publish` goes through it:
resume or restart of the upload by comparing prefixes, rename into place, manifest
last, checkpoint row after it. Sources are edited at any moment; the command stops
after any request. Content is kept per chunk by what it was read from, so that a
mixture of two versions is visible. An upload that is resumed reads the local file
twice, to compare the prefix and to append the rest; `swapped` remembers the paths
whose video was edited back to its version between the two readings, the one case
in which the properties say less (see Remarks).

### Cutover

A table is its existence and its Delta version. `archive` takes one table after the
other: it reads the content, saves the copy and compares the copy with what it read;
`retire` checks a fresh gate and the bundle and drops views and tables one by one,
`cleanup` copies and deletes the rows of synthetic work table by table, and two
calls of `bootstrap` race for the lock row. Writers run between gates. A stop after
any write, and a second start, are steps.

### RuntimeReconciler

The sequence of `reconcile_runtime`: disable every schedule, stage the wheel,
remove stale wheels, publish, bootstrap, access, reports, Activator, enable,
write the release manifest. The client sends a request again after 429 or 503
although it may have been carried out; publish and bootstrap may finish after
the reconciler gave up; the run dies anywhere and is run again for the same or
another release, with any of the options. Assumed: one reconciler at a time, as
the deployment workflows serialize them.

### DeployOperations

The requests of `deploy_operations` in their order, each with its reading,
writing and readback. There is no lock and no retry; a request may raise and be
carried out then or later. The property is about the deployments that nobody
else's writes disturbed, late ones included: overlapping deployments can
leave intake and dispatcher on different builds, or two schedules, which every
later deployment then refuses.

### ProcessInputs, Placement, PartitionStaging

ProcessInputs follows `process_main` to the moment where executors have their
inputs: discovery, probe, the create-only decision, binding, the choice of the
mount or of the copies, and the aliases that are shared by digest. Executors are
lost and replaced at any time; their ids start at 1 in every application.

Placement polls the pool until it is stable, caps the concurrency by the smallest
executor, and gives a native worker its threads; then Spark runs as many tasks on
an executor as its cores allow.

PartitionStaging is the harness: task attempts with the ids Spark gives them, one
staged file each or one create-only Delta stage, receipts, and the driver that
accepts one receipt for each partition and reads the rows back. Lost tasks go on.

### ReleaseBinding

Wheels, manifests and receipts are replaced while Spark sessions keep the wheel
they started with. The control store is reduced to what binds work, batch,
envelope and output; the envelope's write may be invisible to its readback, which
is the case `claim` retries. Assumed: an executor may have another wheel than the
driver of its session (its version is what the record validation compares).

### Tracking, LineCounting, Catalog, EventEvidence

Tracking: people stand in a row of cells and look the same in every frame; the
assumption on similarities (two people are below the active threshold) is stated
in the module. One step is one sampled frame, with every assignment that the
optimizer could return. IdsAreOnePerson says that everybody who got an id looks
like one and the same person. That any two of them look alike is more than the
code gives, which the proof showed and TLC confirms with three people: the id of
somebody who resembles two others, who do not resemble each other, can be given to
both in turn.

LineCounting: reader, sampling, batches, the tracker's contract, the coasting
cache and the line. `net` is history: what the crossings of a track should be.
How long a lost track lives is converted three times: `LostTrackBuffers` turns
seconds into frames at 30 per second and rounds up, `CacheWindows` turns these into
frames of the video for the cache and rounds to the nearest, and `TrackerWindows` is
what the library may make of the same buffer: any window up to the buffer, at most
`TrackerSlack` frames below it, since its own conversion is not part of the
repository. Rates are multiples of `1/RateUnit`, so 29.97 is one, and where a float
may fall on either side of a half or of a whole number both results are taken. The
run has rates at which a rounding decides: at 2.9 frames a second sampled at 1.5 the
buffer is 41.4 frames, and 42 of them outlast two sampled frames where 41 would not;
at 3.75 sampled at 1.5 the interval is 2 or 3; at 2.9 the cache keeps a track for 3
frames and the tracker for 1 or 2. That no crossing is lost is thus a fact about
three conversions; a cache window that is left in seconds breaks it.

Catalog: an operator adds and removes rows and inventory entries; `Plan` is what
`plan_manifest` says of a video. The loading check (pairs of rows) is compared
with the matching of a path at a time.

EventEvidence: an application launches and ends tasks, several in a millisecond,
and its log loses or damages lines. The sweep is compared with what ran: `Sweep`
is the sorted list of its events, `TaskOverlap` the fold over it.

## 3. Runs

Every passing run ends within about three minutes on two workers of an idle machine.

| Run | Instance | Shows |
|---|---|---|
| ConcurrentJobs | lock: 2 calls; pipeline: 2 commands, 2 works (one or two attempts) | WritesByOwnerOnly, SerializedSpec (refinement), LockMakesProgress; ReturnedCommandIsInGold, EveryCommandEnds |
| LocalQueue | 2 commands and 1 message, or 1 and 2; 2 deliveries | CompletedByItsLastDelivery, EveryMessageSettles |
| Reconciliation | 1 work, 3 batches, replay, quarantine, 2 outputs, stale clocks, reconcile; or 2 works, 2 batches, 3 kinds of caller sharing one active batch | LeaseAgreement, FencesAreUnique, PublishedExactlyOnce, ClaimsStayInBounds, ReconcileFindsOnlyLeases, HistoryIsImmutable, NoWorkIsPassedOver |
| ProcessJob | 2 runs, 2 works, 1 batch, 2 plans | SealedOutputIsStaged, ReturnedRunReportsItsBatch, CommittedBatchCanBeResumed |
| FabricControlStore | 1 work, 2 batches, replay and operator commands | TornTablesStaySound, FinishedStaysFinished |
| Gold | runs: 2 outputs over 2 dates, 1 model, 2 changes, 2 signals; rows: 2 works, 4 days, 3 gold runs | SkippedFactsAreCurrent, AcknowledgedSignalsWereSeen, OnlyTornSavesLoseSignals; SavedRowsAreCurrent |
| Operations | inbox: 1 work, 2 leases, 2 executions, 4 commands; publisher: 2 videos, 2 contents, 2 chunks, looked at twice: edits of both videos, with 2 packages and 1 edit or 1 package and 2, or edits of one video, with 2 packages and 2 edits or 1 package and 4; retirement: 2 tables, 1 view; reconciler: 2 releases, 3 roles, 2 faults, 2 runs; by hand: 2 deployments of 2 builds, 1 definition, 2 schedules | EventsTakeEffectOnce, PublicationIsFaithful, RetirementIsSafe, EnabledSchedulesRunAVettedRelease, SucceededRunIsInPlace, ReturnedDeploymentIsInPlace |
| Executors | see Executors.cfg: 2 jobs, 2 hosts, 2 drivers, 3 releases, 2 people, catalogs of up to 3 rows, 8 frames at two rates with two sample rates each, queues of 5 works, 3 tasks | InputsAreSafe, RunningTasksFitTheirExecutor, HarnessReturnsOneExecution, ReleasesAreRespected, IdsAreOnePerson, NoOldIdReturns, OneRowInForce, AddedRowsNeverReassign, CountIsComplete, AdmissionIsSound, ReportedOverlapIsReal |
| ControlWriterClear | 2 calls | finding: ClearReadbackIsFree fails |
| ReconciliationStale | 1 work, 2 batches | finding: FindingsRemainVisible fails |
| FabricControlStoreSettle | as FabricControlStore | finding: SettledOnlyAfterPublication fails |
| GoldRebuild | as Gold | finding: RebuildShowsCommittedOnly fails |

Bounds. Two works are enough for a batch with mixed results and for a queue
whose front is cut (longer queues are in the admission part of Executors). Three
batches give a work a life, a retry and a replay. A lease of two units and a clock
up to three give every operation a moment before, at and after the expiry, and
`MaxDelay = 1` an operation that waited over it. Two runs of a job, of the lock, of
a command or of a deployment cover a race and its loser, or a stop and its
successor. In Gold one output has rows on two dates and the other on one of them,
so that a build is torn between partitions and an incremental build leaves a date
alone; MaxVersion admits a complete build, a torn incremental one and the full
build that repairs it; two signals let one arrive while the other is being
refreshed. In GoldRows four days and a look-back of one let gold stay away for
longer than it looks back. Two deliveries let a message come back once and die
once. Two chunks make a torn upload; two edits are a source that changes and changes
back, four let it do so around and within an upload that is resumed. Two faults are a lost answer and a stop after it. Three releases are one,
its rebuild under the same version, and another version. Six frames are enough
for a track to die, its identity to stay in the gallery and to expire. Batches,
runs and outputs are interchangeable where a cfg declares symmetry; works are
ordered, as the code orders them, and never permuted.

Deadlock is checked for FabricControlStore, where recovery and reads are always
possible. Elsewhere calls end, and counters and time are bounded.

Fairness. `ControlWriter!Fairness`: weak fairness of a run's own steps (a Python
loop goes on); strong fairness of `AcquireTimeout`, which is possible only at the
deadline test of each round of the loop, whose monotonic deadline passes; weak
fairness of `EndWrite` (a Spark write is decided some day) and strong fairness of
`OperationReturns` (a callback makes finitely many writes); weak fairness of the
operator, who has to act on a retained lock: without one the lock stays taken by
design. `PLFairness`: weak fairness of the steps of a command that was started;
none of recovery, of crashes or of another command. `LQFairness`: weak fairness of the end of
leases, of the steps of a main thread and of a submit command being started again
(an operator who keeps submitting: without one nothing would recover a message);
strong fairness of the actor thread taking and running a request, since the call
timeout is long compared with a transaction: a request may time out, but not
every request for ever. Nothing is asked of the heartbeat, and timeouts, raising
runners and deaths are never excluded.

### Findings

1. *clear-stale-lock may report failure after success* (ControlWriterClear). Its
   readback insists on a free row, while a waiting writer can acquire between
   the update and the readback. `_release` of the same lock allows for that.
2. *A delayed reconcile closes a live finding* (ReconciliationStale). The
   timestamp is taken before the transaction; an EXPIRED_LEASE finding is marked
   resolved while the lease is expired and not recovered.
3. *A commit on Fabric settles before it publishes* (FabricControlStoreSettle).
   `commit_batch` overwrites batches first and publications last. If the driver
   stops in between, the batch is COMMITTED with no publication; a repeated job
   resumes successfully with no sequences, and if the work table was written
   too, the work stays SUCCEEDED and unpublished. What does hold on torn tables
   is TornTablesStaySound: nothing is published twice or wrongly.
4. *A rebuild of gold keeps withdrawn rows* (GoldRebuild). A replay on Fabric takes
   the pointer of published work away. A full rebuild plans the dates of what is
   committed now; a date that only the withdrawn output had keeps its rows until
   the work is published again.

### Remarks

What the models made visible and no document of the repository contradicts:

* *Gold.* `save_checkpoints_and_enqueue` of `fabric_gold.py` overwrites the
  checkpoints before the outbox. A run that stops in between leaves the models
  behind the tables with nothing for the next run to do; OnlyTornSavesLoseSignals
  shows that this is the only way to lose a signal. Overlapping gold builds can
  lose rows (`overlapped` in Pipeline). Leases that recovery finds over later than
  the look-back are never counted as failed. Two catalog versions can move a
  camera, and then block the dimensions.
* *Stores.* The oldest group of works that does not fit the lease stops every
  claim. One ready work of an old release stops every claim until it is
  quarantined; replay and registration keep the old release. The Fabric
  `reconcile` keeps the last of several publications in the order of a
  `collect()`, and may call a good pointer invalid after a second publication.
* *Pipeline.* It never calls recover: works leased by a killed command stay
  leased, and a later command returns or fails without them.
* *Publisher.* `upload_file` compares what is staged with one reading of the video
  (`adls.py:166-189`) and appends from a second one (188-207). A video that is edited
  between them, after an edit before them, back to what it was, is published as a
  mixture under the path of one version. Nothing else brings this about:
  PublicationIsFaithful excepts the paths in the history variable `swapped`, which
  only such an edit enters (`BetweenReadings`).
* *Inputs.* A job run again whose executors have the ids of the first run and
  another outcome of the probe raises "drifted" although it could fall back. A
  torn alias blocks every later batch with the same artifact. The docstring of
  `_fabric_process_profile` speaks of a fallback where the code raises. The
  process job reads the envelope once, without the retries of the claim.
* *Tracking.* Below 0.1 sampled frames a second an active track outlives the
  30-second gallery. The assignment maximises the number of pairs before their
  similarity, so that a pair below the threshold can cost a returning person
  their id.
* *Deployment.* A retried POST can create two schedules. A failed publication of
  the release manifest leaves schedules enabled; a crash between its creation and
  its flush leaves an empty file. By hand: a failure after intake and before the
  dispatcher's schedule leaves intake registering for a build the dispatcher does
  not claim; an edit of the intake between reading and update is lost.
* *Event log.* Expectations are looked at only if there is an overlap to compute:
  a log without timestamps is "ingested" whatever was expected.

## 4. Proofs

Eight modules prove theorems for every value of the constants that satisfies the
assumptions of the modelled modules: `ControlStoreProofs`, `PublicationProofs`,
`ProcessJobProofs`, `FabricProofs` (each on top of the first), and, for components
that stand alone, `ConcurrentJobsProofs`, `EventsAndGoldProofs`, `ExecutorsProofs` and
`OperationsProofs`. Every safety property of a passing run is proved, and so are the
action properties and both refinements. The proofs have one shape. A safety property is seldom
inductive; the end of the component's module strengthens it to an invariant that
says what each program counter *knows*, and why it is still so although others
moved since. The proof has one lemma for each action, then the step, the
invariance, and the property as a corollary. TLC checked every inductive invariant
on small instances before it was proved; the table counts the distinct states.

| Invariant | States | What it adds to the properties |
|---|---|---|
| ControlWriter `IInv` | those of the run | who owns the row, by program counter |
| ControlStore `IInv` | those of the run | attempt rows are those of the members |
| ProcessJob `PInv` | 795,254 | a run's records are still the staged ones |
| FabricControlStore `FInv` | 1,133,554 | every prefix of the pending writes is sound |
| Gold `GInv` | 3,893,389 | what a run knows while the store has not changed |
| EventInbox `EInv` | 468,386 and 977,119 | a pending plan fits what was read |
| Pipeline `PLInv` | 114,412 | one builder unless builds overlapped |
| LocalQueue `LQInv` | 117,020 | requests complete only what is staged |
| PartitionStaging `PSInv` | 1,062,006 | receipts name what their task staged |
| ReleaseBinding `ReleaseInv` | 411,761 | what is staged is of the members' release |
| ProcessInputs `PIInv` | 297,708 | an id that is gone never returns |
| DeployOperations `DOInv` | 102,097 | targets that were done stay in place |
| Cutover `CInv` | 6,261,888 | copies are not older than the manifest |
| Publisher `PubInv` | 3,639,734 | staged chunks are of their version, or it shows |
| RuntimeReconciler `RRInv` | 55,180 | nothing is enabled between the passes |
| GoldRows `GRInv` | 110,953 | what a date that is not selected still shows |
| ClaimAdmission `LAInv` | 43,560 | the claimed prefix is the largest that fits |
| LineCounting `LCInv` | 47,686 | the cache outlives the tracker |
| Tracking `TrackingInv` | 49,433 and 26,507 | the gallery's look is like all who got the id |
| EventEvidence `EvidenceInv` | 161,484 | what was told and what still runs is what was measured |

*ControlWriter* (assumption: `NoOwner` is no token). That only the owner writes
depends on where the owner is. `IInv` adds `RowIsConsistent`, `OwnerIsKnown` (a run
between acquire and release owns the row; the row holds only the token of such a
run, of one about to see that its claim won, or of one that raised or died) and
`LeftoversAreOfDeadRuns` (writes and undecided updates belong to runs that raised or
died, and the operator's target is confirmed). From it: TypeCorrect, OnlyOwnerWrites,
ReleaseNeverRefused, CleanEnd, the action property Handover, and
ImplementsSerializedWrites, the refinement of SerializedWrites step by step.

*ControlStore* (assumptions: works are a finite set of naturals, the types of
contents and claim calls, a positive heartbeat extension). `IInv` is TypeOK,
LeaseAgreement, FencesAreUnique and `RowsMatchMembership` (attempt rows exist
for exactly the members of a batch, outputs only once sealed, and unregistered
work has no past). LeaseAgreement needs the disjointness of active batches,
which it implies itself through `HoldsFence` (lemma ActiveBatchesAreDisjoint),
and FencesAreUnique needs RowsMatchMembership for the batch a claim creates.

*PublicationProofs.* PublishedExactlyOnce is inductive beside `IInv`. Every
operation but a commit is a `QuietStep`: it publishes nothing, makes no work
succeed and keeps what is recorded. A commit publishes works that hold their fence,
hence are LEASED and unpublished, under numbers above `lastSeq` that differ by lemma
SeqOfDiffers, a fact about cardinalities of nested sets. PublishedOnce follows, and
from it the action property HistoryImmutable. BudgetKept needs that the set of a
work's attempts is finite (batches may be infinitely many) and that unregistered work
was never claimed. ClaimsBounded joins both with the bound on active batches: a claim
adds at most one (lemma ActiveBatchesStep), and adds none where it finds as many as its
caller allows; so it holds where every caller asks for at most `limit` batches, and
NobodyIsPassedOver where every caller asks for all works: with a larger limit, or with a
scope, a caller may of course do what the property excludes (the runs have such callers
and check them apart). NobodyIsPassedOver rests on what
`FirstOf` chooses and not on the recursion of the makespan. OnlyLeasesAreFound adds
that pointers agree with publications and that recorded findings are of leases.

*ProcessJob* (assumptions: `Torn` and `None` are no records, concurrencies are
positive). A run reads the store and the staging area, and acts on it later;
`RunKnows` says what is still so at each step because staging is create-only:
records, once complete, and the marker, once written, do not change. `OneWriter`
excludes two runs in one torn file, and `SealedIsComplete` that a seal goes before
its marker. A run that resumes a committed batch under another plan finds the marker
there. RunsUseTheStore is the refinement: a step of a run is a step of
`ControlStore` or leaves it alone, so the theorems about the store hold of every job.

*FabricControlStore.* An operation that overwrites tables one by one may stop after
any of them, and the next one starts from there, itself to stop half way. `FInv`
therefore says of every prefix of the pending writes that the tables after it are
`Sound`; a new operation must then only be shown to write an order of sound prefixes.
The parts of `Sound` say what each order gives: a fence is used up in `work` before an
attempt has it, a batch is committed before its attempts finish, attempts finish before
they are published, and a work succeeds before it is published, so that a replay counts.

*Gold.* The job reads sources, plan, outputs and control rows at four moments.
`Steady` is that the store has not changed since the first; while it holds, all later
readings agree (BuildKnows, EndKnows), and what is saved is current. If it does not
hold, the recorded operations source differs from the present one for ever, since changes are
counted, and no later run skips on it. `Past` says that publications after a checkpoint
are newer than all it has seen, which is why the incremental plan misses no date. A signal names versions
the tables had, and the models a refresh is done with have seen what it will
acknowledge.

*EventInbox* (assumptions: the active statuses are a sequence from LEASED to WRITING,
apart from the settled ones). A drain holds a plan while it writes: `PlanHolds` says
that the work row it read is still there, except that the lease may have ended (the
drain has the writer lock), and that the plan only leaves, beats, commits or frees the
work (`Fits`, one lemma for each kind of command). `InOrder`: decided and undecided
commands are the front of the inbox, so that receipts are given in order. A commit that
is met again is planned as "leave" and thus applied, by lemma CommitIsMetAgain; a
release counts once, since an attempt, once RELEASED and without the work's lease,
stays in `GivenUp`, whose cardinality bounds what was given back. A rejected commit
that is the last word of its execution stays rejected, as no other command of the
execution is left to bind the attempt.

*Pipeline.* Unless builds of gold overlapped there is one builder, which has seen all that gold
shows, and the works in LEASED are held by the command that processes them or broke.
*LocalQueue.* The main thread waits for one call at a time; a request, however late
it runs with nobody waiting, completes only deliveries that are staged; and a
delivery count is never given twice, so a late completion does not match the row.

*PartitionStaging, ReleaseBinding, ProcessInputs, Placement.* Receipts reach only the
driver of their tasks and name what these staged; with a Delta stage every application reads
the one table there is. A session's release binds every member of the batch it has
loaded, and a release changes only while a work is unregistered. Executor ids are not given again: a job
whose bound ids equal those of the pool it probed has that pool. Every profile comes from a
reviewed inventory of the smallest executor, and `b * (a \div b) <= a` for its slots.

*DeployOperations.* An undisturbed run finds its earlier targets in place; requests
that are carried out late are of failed runs, and they disturb everybody else.
*Cutover.* While a bundle is made nothing is dropped and the copies that were
compared are not older than the command's first look; a table is dropped only at the
version of the manifest, which then lies between two equal numbers.
*Publisher.* The staged chunks are of the version in the path, or a chunk that was
read while comparing differs, or the file still has to be read and differs; rows of the
checkpoint name the package they are of. This needs the exception `swapped` (see
Remarks), which proving it brought to light. *RuntimeReconciler.* From the end of the pass that
disables to the beginning of the one that enables every schedule is disabled, and while a publish runs,
whoever asked for it; hence releases change only under disabled schedules.

*GoldRows.* A run builds the dates it selects and leaves the others as they are, so
`GRInv` says what the others show: the tables of the video mart are the outputs that
were committed at the last complete run (VideoIsAsSaved), and a date of the operations
mart is counted as it should be or will be selected again (OperationsAreAsSaved), with
the exceptions the code has. `StoreRowsAgree` gives what this needs of the store: an
attempt ends once, and its lease and its day of publication are never written again.
Then a publication that the last run has not seen has a larger sequence, and any other
change of a date is recent enough for the look-back or the control cutoff.

*Catalog.* OneRow follows from the loading check on pairs: of two prefixes of one path
one is a prefix of the other, and the check refuses equal ones that are in force
together. NeverReassigned (an action property) is that a row that is added does not
change the plan of a video that a row covers already.

*LineCounting* (assumptions: rates and the batch size are positive, the walkers are
finitely many; what the tracker promises, no window longer than its buffer, is part
of the model, and the theorems need no bound on how much shorter it is).
`WindowsAgree` is what each conversion guarantees, as inequalities between products
(SettingsTyped); from it neither the tracker nor a tentative track outlasts the cache
(WindowsTyped), because a window that exceeded it by a frame would exceed it by more
than the half that rounding can take. `BatchIsWhatIsLeft` places the
reader: the sampled frames read so far are the processed ones and those of the batch,
the next is the next multiple of the interval. `CacheOutlivesTheTracker` is the heart:
a coasting entry lives as long as the tracker can still find its track, so that a track
that comes back is compared with the side it left on, and only an id that was never
counted enters without one.

*ClaimAdmission* (assumptions: see LeaseAdmission above). The LPT projection is a fold, and the
theorems are about every queue. That a recursion over a finite set has a solution is
proved once (lemma FoldExists), and facts about all its values by the smallest set that
fails them (SmallestSet), which is how induction over data is done in these modules.
PrefixIsLargestFit follows from the choice of the prefix; that the process job
agrees with the store from monotonicity (MoreWorkers: one more worker makes no
projection longer); and the bound on the makespan from Graham's argument
(LastWorkBound, LptBound): with `k` workers, `3k` times the LPT makespan is at most `4k - 1`
times the best one, since either the last work is at most a third of the best
makespan, or no worker has more than two works.

*Tracking.* A frame is three folds (matches, re-entries, new ids) over assignments the
optimizer returned. The tables between them are kept right by one lemma for each fold,
about any order. `GalleryIsAlike` makes IdsAreOnePerson inductive: whoever got an id
resembles the look the gallery has kept of it since it was first given, which no later
match replaces.
OldIdsStayAway (an action property) needs that the age of an active track is the
number of frames since it was seen.

*EventEvidence.* The sweep counts correctly because each event has a place of its own
(EveryPlaceIsTaken), after `k` events the count is the number of tasks begun less those
ended (SweptCounts), and finishes come first within a millisecond, so that the largest
count is the largest number of tasks that run during one millisecond (OverlapPeak). Busy
time is summed millisecond by millisecond (RanOneMore), which bounds it by peak times wall
time (OverlapBusy). `EvidenceInv` relates the log to what happened: `ToldAt` and `ToldTime`
are what the log tells, and will tell of the tasks that still run; they never exceed what
was measured, and are all of it unless a line was lost.

### Only model-checked

* Liveness (LockMakesProgress, EveryCommandEnds, EveryMessageSettles): fairness is
  beyond the prover.
* What the four runs that expect a violation show: there the property is false.

Everything else that a run checks of a specification is proved for every value of its
constants. Two limits of the prover shape the modules. A module that reaches a RECURSIVE
operator cannot be proved about, so recursions are recursive functions or folds; and the
induction theorems of the library take operators as parameters, so an induction is an
argument about a least number or a smallest set that fails (LeastNatural, SmallestSet).
The order in which `SortSeq` sorts is not visible to the prover either: the sorted list
of EventEvidence is therefore defined by the place of each event.

## 5. Not modelled

Neural inference, detection and video decoding (no control state); formatting and
schema validation of records, definitions and manifests; `fabric_executor_production.py`,
which nothing in the repository calls but for `select_production_line_counts`; the
acceptance and benchmark scripts, which only read, except for their event-log
section; REST and storage clients below the requests they send; argument parsing;
`reconcile` of the Fabric store.
