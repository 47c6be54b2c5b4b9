# Headless Blender Character Builder: TLA+ verification

The repository builds game characters headlessly: an HTTP API accepts a JSON
request, a worker runs a fresh Blender process for it, and the nine resulting
artifacts are published in a versioned object store.  *Lane B* (`service/`) is
its service: PostgreSQL is authoritative, Redis only wakes workers, workers may
die at any point, and every effect must happen once or be repeatable.  Below it
is the builder (`builder_cli/`, `blender/`, `shared/`), above it the operator's
commands (`scripts/vps`), and beside it an experimental modelling workbench
(`experimental_modeling/`) with a store and a server of its own.  This directory
models all of these in TLA+, model-checks them with TLC, and proves every safety
property that TLC checks with TLAPS, for every size of the instance.

## 1. Inventory

Paths without a directory are relative to `service/src/hbcb_service/`.

| Component | State | Operations | Talks to | Hard behaviour | Correct when |
|---|---|---|---|---|---|
| Durable store, `repository.py` (`PostgresRepository`), `migrations/*.sql` | builds, attempts with leases, outbox, artifacts, events, idempotency keys | `submit`, `request_cancel`, `lease_build`, `heartbeat_attempt`, `complete_attempt`, `publish_attempt_success`, `recover_expired_attempts`, `dispatch_outbox` | API, workers, maintenance | fenced leases that expire, commits whose reply is lost, cancellation races, retries | one active attempt, cancellation wins, whole publications, no queued build without wake-up, faithful log |
| In-memory store, `state.py` | the same tables as dictionaries | as the durable store, and a generic transition | tests | a second implementation that checks different things | never two active attempts; the durable store implements it |
| Build queue, `queue.py` (`RedisStreamsQueue`) | stream with a consumer group, dead-letter stream | `enqueue`, `claim` (+ stale reclaim), `acknowledge`, `requeue`, `dead_letter` | workers | two consumers settle one receipt, bounded dead letters, loss of Redis | a receipt is in one place, unclaimed entries stay |
| Worker, `worker.py` (`WorkerSupervisor`, `_LeaseMonitor`) | the message, lease, and decision in hand; what the heartbeat thread saw | `process_once`, `_handle_result`, `_settle_message`, `run_forever` | store, queue, launcher, object store | a failure between any two calls; a heartbeat thread beside the main one | every build ends, messages are settled only when done |
| Object store, `storage.py`, `artifact_io.py` | immutable object versions | `store_file`, `presign_get` | worker, API, maintenance | interrupted uploads, leftovers of failed attempts | rows point to stored objects, manifest last |
| Launcher, `launcher.py`, and builder CLI, `builder_cli/` | process tree, scratch directory, private stages | `execute`, `cleanup`, `build` | worker, Blender | termination races, signals at any step, helper processes | no process outlives a CLI that ends by itself, an output is whole and final |
| Geometric QA, `blender/`, `shared/` | the scene, the exported files, the report | `build`, the two verifiers, the status of a report | CLI, worker | evidence that cannot be taken, two verifications written apart | nothing damaged or unmeasured is published or accepted later, the verifications differ only where they are meant to |
| HTTP API, `api.py` | none | submit, get, artifacts, cancel | store, object store | optimistic cancel with one retry, two reads for one answer | answers are consistent with one state |
| Maintenance, `maintenance*.py`, `migrations/0003` | deletion queue with claims | retention, object deletion, orphan discovery, Redis reconstruction, backup, restore | store, object store, queue | overlapping runs, stale inventories, partial restores | no referenced object is deleted, nothing is forgotten |
| Operator's commands, `scripts/vps` | containers, release lock, handoff marker, bundles | deploy, start, stop, backup, upgrade backup, upgrade, abort, restore | all of the above | a command fails or is killed at any step, and its failure handler too | one installation accepts builds, bundles are whole |
| Evidence store, `experimental_modeling/` (controller, sandbox, launcher, review) | revisions, `last_good.json`, leases, marker, acceptances | request, build, promote, accept | Docker | power loss between renames and flushes, killed builds | accepted history stands, leaks are marked |
| Workbench, `workbench.py`, `authoring.py` there | the journal of operations and model calls, a child process, three kinds of threads | run, interrupt, model call, close | evidence store, model provider | a crash with the child alive, abandoned transport threads | one run at a time, bounded spending, close ends |
| Images, packaging, release audits | build files, policies | - | - | none in time | not modelled |

`PROJECT.json` lists the components with their sources and what is left out of
each, and under `hazards` every place where this code can go wrong in a way that
a test would hardly reach, with the properties that would catch it.

## 2. The modules

| Module | Models | Code behind it |
|---|---|---|
| `BuildLifecycle` | what a client may see of one build: an abstract specification | the transition table of `models.py`, the routes of `api.py` |
| `StateStore` | the reference store: a second abstract specification | `state.py` |
| `Repository` | the durable store; one action per transaction | `repository.py`, the tables and constraints, `queue_and_delete_builds` |
| `Queue` | the Redis streams queue; one action per command or script | `queue.py` |
| `Service` | API clients, any number of workers, `Repository`, `Queue`, launcher outcomes, object store, faults and time | `worker.py`, `storage.py`, `launcher.py` |
| `Recovery` | `Service` with a Redis that loses data, restarts, readiness probes and `reconstruct_redis` | `maintenance.py`, `maintenance_postgres.py`, `runtime.py`, `worker_main.py` |
| `ObjectLifecycle` | what the service promises about one stored object version: an abstract specification | `store_file`, `publish_attempt_success`, retention, `delete_version` |
| `Maintenance` | retention, deletion runs, orphan discovery, the object versions they handle, and the workers and clients that use these | `maintenance.py`, `maintenance_postgres.py`, `maintenance_storage.py`, `migrations/0003` |
| `Launcher` | one attempt as a process tree: supervisor, CLI, runner, verifier, files | `launcher.py`, `builder_cli/commands.py`, `blender/runner.py` |
| `Quality` | the evidence of one build, from the scene to its status, what happens to the published tree, and a later `verify` | `blender/qa/geometry.py`, `blender/*verifier.py`, `shared/quality_report.py`, `worker.py` |
| `Handoff` | the operator's commands as programs of steps with their failure handlers | `scripts/vps`, backup and restore in `maintenance.py` |
| `Evidence` | builds, promotion, review and power loss on one directory tree | `controller.py`, `launcher.py`, `sandbox.py`, `requests.py`, `review_server.py` of `experimental_modeling/` |
| `Workbench` | the local server with its journal, child and threads | `workbench.py`, `authoring.py`, `model_provider.py` there |
| `MC...` | instances for TLC with their symmetry sets | - |
| `RepositoryProofs`, `ServiceProofs`, `LauncherProofs`, `MaintenanceProofs`, `HandoffProofs`, `EvidenceProofs`, `WorkbenchProofs`, `QualityProofs` | the theorems (section 4) | - |

`Service` instantiates `Repository` (as `Repo`, with workers as lease tokens)
and `Queue` (as `Redis`, with workers as consumers) over its own variables;
their actions are conjuncts of the worker's actions.  `Recovery` extends `Service`.
`Repository` instantiates `BuildLifecycle` once per build (`Lifecycle(b)`) and
`StateStore` as a whole (`Reference`), `Maintenance` instantiates `ObjectLifecycle`
once per object version (`Life(v)`).  `Launcher`, `Quality`, `Handoff`, `Evidence` and
`Workbench` stand alone; section 2 says where they meet the others.

Definitions whose name has an underscore, such as `EndWait_ExitStatus` beside `EndWait`,
are plausible mistakes.  They are used by nothing; replacing the definition by its
mistake violates the property that `PROJECT.json` names under `mutants`.

### Repository

Every public operation of `PostgresRepository` runs in one transaction that
locks what it changes with `SELECT ... FOR UPDATE`, so it is one action.  The
guard is the conjunction of the code's checks; a refusal (`StateConflict`)
rolls back and is therefore a stuttering step.  `SKIP LOCKED` and `LIMIT`
appear as freedom: `RecoverExpiredAttempts(S)` takes any non-empty set of
expired attempts.  `dispatch_outbox` is a transaction per row, with a remote call
inside; `Repository` has its two effects (`MarkDispatched`, `DeferDispatch`),
`Service` has the order of its steps.

* `build[b]` is the row of `hbcb.builds`; `"absent"` and `"deleted"` stand for no
  row.  `version` is `state_version`, `cancel` is `cancel_requested_at IS NOT NULL`.
* `attempt[b][k]` is attempt number `k`, `"none"` if it does not exist.
* `outbox[b]` is the set of its outbox rows, `event[b]` its log, `artifact[b]` the
  set of published `<<attempt, path>>`, `keyed` the idempotency table, `deletion` the
  object versions that retention queued.
* Timestamps are the time that remains (`lease`, `wait`), and `Tick` lets it pass.
  This keeps comparisons with `CURRENT_TIMESTAMP` exact and the state finite.
* Hashes, reason codes, exit codes, digests and JSON are left out; so are the
  statuses `geometry_qa` and `rendering`, which no operation of this store writes.
  `leased` is kept in `Active` because the code's checks name it.

`Spec` lets anybody call any operation with any arguments: any token, version,
outcome, artifact set.  What holds here holds for every client.

### StateStore

`InMemoryStateStore` holds one lock in every method, so a method is one action.  Its comment
calls it the contract of the PostgreSQL store, but it checks different things: it has a generic
`transition`, `publish_success` without a lease, recovery of an attempt whose build no longer
runs.  `Repository!ImplementsReference` says that every transaction of the durable store is a call that
the in-memory one answers in the same way.  Retention has no counterpart there and is exempt; the
delays of outbox rows are left out, because `dispatch_outbox` reads `builds.status` without a lock
and may defer a row that the in-memory store could only mark.

### Queue

`stream` holds the entries of the main stream with the consumer that claimed
each one last; `sent` remembers the payload of every receipt so that a consumer
can present an old one; `dead` is the bounded dead-letter stream.  The two Lua
scripts are atomic, as in Redis.  `requeue` is modelled because the class offers it,
although the worker does not use it.

### Service

A worker is a record: its program counter, the receipt it claimed, the attempt
number it leased, the outcome it decided on, the outbox row it is dispatching, and
what its heartbeat thread saw.  One step is one remote call; `within` names the
innermost `try` block around it, and `Raised` says where an exception goes from
there.  The interleavings that matter are all present: the heartbeat thread beside
the main thread, two workers and a client between any two calls, an open outbox
transaction around `enqueue`.

Faults, at most `MaxFaults` per behaviour:
* a call raises before it has an effect (`CallFails`, and inside `DispatchEnqueues`
  and `Upload`);
* a call takes effect and raises (`Replies`): a commit or a Redis command whose
  answer is lost;
* a heartbeat fails although the lease is valid;
* the process dies and is restarted (`Crash`).
Lease expiry, a builder that fails, hangs until its deadline or needs review, and
any timing of clients and workers need no fault: they are always possible.

Abstractions: recovery takes all expired attempts at once (its limit of 100 is out
of reach of the bound); an upload is one step, since `store_file` of the same
content is idempotent; a lease token is identified with the worker, since the code
compares it only together with the attempt it was issued for, and `OwnAttempt` shows
that no two workers hold the same attempt.  `_LeaseMonitor.stop` joins its thread with a
timeout; the one renewal that may still be under way then is left out.

### Maintenance

The unit is an object version `<<build, object>>`; `Owner(v)` is the build its key names.
`object[v]` says whether the version exists, `referenced` is the set of versions with a
row in `hbcb.artifacts`, `row[v]` is the row in `hbcb.artifact_deletion_queue`,
`attempts[v]` the outcomes in `hbcb.artifact_deletion_attempts`.

| Code | Actions |
|---|---|
| `store_file`, `publish_attempt_success`, `complete_attempt` | `Upload`, `Publish`, `EndsUnpublished` |
| `get_artifacts` | `SignUrl` |
| `run_retention` | `Retain(S, since)` |
| `discover_orphan_versions` | `Inventory`, then `Reconcile` |
| `run_artifact_deletion` | `Claim`, then per version `DeleteVersion` and `RecordAttempt` |
| a process dies, a call fails | `Dies`, and the failing disjuncts of `DeleteVersion` and `RecordAttempt` |

* Time is kept as ages, capped where no comparison of the code can tell them apart
  (`waited` at the grace period, `lease` at 0).  Every run reads the clock once, when it
  starts, so what it writes into `queued_at` may be older than its commit: that is
  `since` in `Retain` and in `Reconcile`.
* A build is `"active"`, `"ended"` or `"deleted"`; the statuses behind these words are
  `Repository`'s.  One `KeepTicks` stands for the four retention periods.
* The order in which a run takes up to `BatchLimit` versions is left open (`Batch`),
  and so is the order in which it works through them.
* A claim token is identified with the process that drew it: a process draws a new
  one for every run and forgets the old one with it.
* `UrlTicks` counts from the moment the artifact row was read.  `MaintenanceAssumption`
  asks for `UrlTicks + StallTicks <= GraceTicks`.  In the code the grace period is at
  least one day (`RetentionPolicy`), a URL lives for 30 to 900 seconds (`presign_get`),
  and the statements of a retention run have timeouts of seconds (`runtime.py`).
* `attempt_count` stops at a million, which no run reaches; the preview modes change
  nothing; the hashes of an inventory are data.

### Recovery

`group` says whether the consumer group exists, `lost` whether Redis lost something since the last
reconstruction that no loss overtook, `operator` is `reconstruct_redis`: one snapshot of the
queued builds, then one `enqueue` per build.  Redis may lose everything, its newest entry, or
the settling of an entry (`appendfsync everysec`); without a group every claim raises, as in the
code, which never creates the group in the loop: the readiness probe, a restarted worker or the
reconstruction does.

### Launcher

`proc` and `parent` are what `/proc` shows of the CLI, the Blender process with the runner, and one
process that the runner forked (the verifier, or later a helper that stays behind).  `sup`, `cli` and `runner` are
the program counters of `execute`/`_terminate`, of `build_artifacts` with its signal guard, and of
the runner.  `stage`, `draft`, `result`, `output` are the two private stages and the two renames.
One step is one scan, one round of signals, one file operation.  A `FaultModels` element says who
ignores SIGTERM, whether Blender may die without cleaning up, and whether somebody else may kill the CLI
(`CliKilled`: SIGKILL by the kernel or an operator; Blender, in its session, goes on, and `Completed` takes the end of
the CLI for the end of the build, as `poll()` in `execute` does).
`Service` sees only how `execute` ends.

### Quality

A shell is a set of triangles, so edges, fans and connected components are computed as the code
computes them; what Blender answers (ray hits, chords, volumes) are attributes chosen freely.  The
program counter follows `build`: generate, export, the three checks of the first verifier, the
report, the manifest; then the exit codes of CLI and worker; then the second verifier, which
reads only the published tree.  Lengths are in tenths of a millimetre; of a bounding box only
the height is kept.

A file is what a fresh process reads in it: heights (of an STL two, the triangles as written, `raw`, and the mesh as
imported, `size`; of the saved scene the printable shell and its display meshes), the shell, the number of objects, and
flaws.  A flaw stands for everything one check of a verifier looks for.  `BuildSees` names those of the first
verifier and `VerifySees` those of the second, so that what only one of them demands stays visible: names, units, cameras,
lights, nested collections, text blocks, drivers, display meshes without material, objects that are no mesh.
`Export` may give any file any flaw, damage the STL, or move the three exported heights by anything in `Drifts`.
Counts of triangles and materials are left out: nothing is added to them after the generator has asserted them.  The number
of objects is kept, since cameras and lights (`Rig`) come later.

`Alter` is whoever can write to the published directory: it replaces a model or the report by a foreign one, rewrites the hashes,
or makes the manifest anew.  A hash is what it was computed from.  `verify` compares the tree with its own manifest and
report and with the request.  Walls and features it does not measure again: for these it takes the report's
word, so a report that was rewritten together with its manifest is believed (`VerifiedIsSound` claims nothing of them).

### Handoff

A command of `scripts/vps` is a sequence of named steps (`Programs`); `op` is the command that
runs and where it is, `Handler` the command its exception handlers run in its place.  The exclusive lock
makes one command run at a time.  Every step may fail before or after it took effect, and the
command may be killed between two.  `db` is the database (read-only or not, its schema, its rows
and whether a restore is under way), `objects` the versions, `bundles` the backups, `handoff` the
marker.  `Accept` and `Finish` stand for all of `Service`: a build is accepted through Caddy and API, or finished by
a worker, whenever the containers run and the database lets them write.  `NewTarget` brings empty stores: for a
restore on another machine, for a rollback, or after a restore that failed; only a marker that says `preparing` or
`ready` stands in its way.

### Evidence

`fs` is the directory tree as processes see it, `disk` what was flushed; `PowerLoss` keeps or
drops each unflushed item on its own.  `job[p]` is the program counter of one build: leases, locked rules, the attempt
directory, sandboxed jobs and their cleanup, the verdict, then the renames and flushes of `promote`.
Builds start through the launcher (with the build lease and the marker), through a prepared request, or bare,
as the developer CLI does.  The content of evidence is two values, whole or torn.  `Chain`, the history that
`last_good.json` anchors, is the least set of revisions that holds the pointer and is closed under recorded parents.

### Workbench

`record` and `calls` are the durable journal, everything else ends with the server except the child
(`bridge`), which runs in a session of its own.  Handlers, the watcher, the model thread and the abandoned
transport thread take steps of their own; the reentrant lock is `Unlocked`.  `signals`, `spawned` and `sent`
count what left the server, over all restarts.

## 3. Runs

| Run | Instance | States | Question |
|---|---|---|---|
| `repository` | 2 builds, 2 attempts, 1 key, lease of 2 ticks | 264 k | do the promises of the store hold whoever calls it; is it a life cycle, and the reference store? |
| `service` | 1 build with 2 objects, 2 workers, 2 attempts, 1 fault | 1.73 M | two workers on one build: wake-ups, dead letters, uploads |
| `recovery` | 1 build, 1 worker, 2 attempts, 2 faults or losses | 443 k | does everything end (liveness), also when Redis loses data in the middle of any step? |
| `objects` | 2 builds with 1 object, 2 deletion runs, 1 discovery, 1 fault | 432 k | can stale clocks, claims and inventories remove an object in use? |
| `drains` | 1 build with 2 objects, 1 deletion run with a batch of 1, 1 discovery, 1 fault | 37 k | is everything that a build leaves behind removed, and recorded? |
| `launcher` | one attempt, 3 processes, any of those below the CLI ignoring SIGTERM, with and without a crash of Blender, with and without SIGKILL for the CLI | 185 k | does a process outlive a CLI that ended by itself, is a half-written output reported? |
| `quality` | 10 shells, 7 heights of the printable and 8 of the display meshes, 4 numbers of objects, up to 2 rays and 2 parts, 4 drifts of each export, every flaw; 3 changes with 7 foreign files, 2 forged reports and 2 requests | 3.93 M | is a damaged or unmeasured model published, what does the second verifier reject that the first let pass, does it accept a tree that is not what it says, is a wanted review explained? |
| `handoff` | 2 builds, 2 bundles, 3 targets, 3 faults | 644 k | does the source release return to a database an upgrade has touched, is a bundle whole, is a restored row served? |
| `evidence` | 3 builders (2 launched, 1 bare), 2 revisions, 1 request, 2 rule sets, 2 power losses | 746 k | does accepted history stand, are leaks announced? |
| `workbench` | 2 proposals, 2 model calls, a budget for 2, 1 crash | 1.32 M | one run at a time, no false end, bounded spending; does closing end (liveness)? |
| `handoff_sealed` | 1 build, 1 bundle, 1 target, 2 faults | violated | a sealed database has its marker |
| `launcher_cancel` | as `launcher`, and nobody kills the CLI but the supervisor | violated | no process is left after a cancellation |

Why the bounds are enough.

* Builds.  An operation of the store looks only at its own build, and recovery and retention move
  several at once: two builds show both.  `MaxAttempts = 2` is the default of the code and has a retry, a
  last attempt and the boundary between them.  A lease of two ticks can be renewed with and without
  time having passed.
* Safety.  What more builds, workers, versions, bundles, revisions, permissions or shells could bring is covered by the
  proofs of section 4, which hold for every number of them; for safety these instances are where an
  invariant is found wrong cheaply.
* Workers.  With two workers one may hold a dead lease while the other works; a third adds no new pair.  One
  message per attempt and one more per fault can exist, so `MaxEntries = MaxAttempts * builds + MaxFaults`
  never blocks an enqueue.  `RetryTicks = 0` in `recovery` makes a retry due at once; its delay is in `service`.
  The one worker of `recovery` is the worst case for liveness: nobody else takes over what it drops.
* Maintenance.  A grace period of two ticks with a URL and a stall of one each makes the assumption tight; two
  deletion runs with a claim of one tick take over from each other; two builds give a batch of two
  owners, and a batch limit of one in `drains` leaves something for a second run.
* Launcher.  Three levels are the depth the code creates; a scan needs two passes without a
  discovery, and the third process is forked between any two of them.
* Quality.  Every defect the topology checks distinguish occurs (a hole, two parts, a common
  vertex, a common edge, a pinched vertex, a flat face, a coordinate that is not finite, an inverted or disagreeing orientation),
  each alone; heights lie on, inside and outside the tolerance.  The drifts of -3, 0, 5 and 6 are inside it, on it and
  outside, and two of them are farther apart than it, so that two readings may fit the report and not each other.
  Scenes have 200, 249, 250 or 257 objects: around the limit with and without the rig of seven.
  Three changes of a published tree are enough for a foreign STL with a forged report and a manifest that lists both; the foreign
  lengths are as far off as four tolerances in a row allow, or farther.
* Handoff.  Three targets: the source, and two in a row that replace it (a restore that failed and was given up, a
  rollback, or a restore on another machine, in any order).  Three
  faults: a command, its failure handler and the retry.
* Evidence and workbench.  A revision, its successor and a builder that runs beside them; a power loss before and
  after the first revision was reported; a server and the one after its crash.

Deadlock checking is off: these systems stop by design when every build has been deleted, every
permission is spent or every fault was used.  Symmetry is used for builds, objects, workers and builders
in the runs without liveness only.

**Fairness.**  `Recovery!RecoveryFairness`: time passes, and each worker keeps taking steps of its loop:
`run_forever` catches every `ServiceError` and calls `process_once` again, the container
restarts a worker that died, Redis and PostgreSQL calls return or raise (both clients have
timeouts), and the launcher's deadline ends every builder.  Weak fairness of the disjunction
`WorkerRuns(w)` says no more than that.  The container health check probes readiness for ever, and the
operator reconstructs Redis after a loss, as `docs/deployment.md` asks.  The heartbeat has no fairness:
leases may expire whenever they like.  Faults and losses are finite, so eventually calls succeed.

`Maintenance!Fairness`: time passes, and the operator repeats the three commands, so a
retention, a discovery or a deletion run that could do something eventually does it.  The
liveness run has one deletion run at a time, which `scripts/vps` enforces with an
exclusive lock.  TLC shows why this is needed: two runs that each outlive their claim can take
over from and defeat each other for ever.

`Workbench!Fairness`: threads go on, the call to a provider is bounded by its timeout, and a child that was
signalled cleans up and ends.  Only finitely many requests can take the lock before a thread that waits for it,
since each spends a permission.

### Properties

* `Repository`: `RunningUnderOneLease`, `CancelWins`, `QueuedHasAttemptLeft`,
  `PublishedWhole`, `QueuedHasRow`, the action property `VersionGuardsRow`, and the refinements `ImplementsLifecycle` and `ImplementsReference`.
* `Service`: `NoLostWakeup` (a queued build always has an undispatched row or a
  message that nobody is about to settle), `DeadLettersEnded`, `PublishedIsStored`, `OwnAttempt`.
* `Recovery`: `ReconstructionSuffices` (the same when Redis lost data and was reconstructed);
  liveness `EveryBuildEnds`, `EverythingDrains`.
* `Maintenance`: `ReferencedIsStored`, `QueuedIsReleased`, `UrlServes`, `DeletedIsGone`, the
  action property `DeletedIsFinal`, the refinement `ImplementsObjectLifecycle`; liveness
  `NothingLingers` and `QueueDrains`.
* `Launcher`: `OwnExitIsClean`, `PublishedIsFinal`.
* `Quality`: `PublishedIsSound`, against a definition of a closed solid that is written without edges or fans;
  `PublishedVerifies`; `VerifiedIsSound`; `RefusalIsExplained`.
* `Handoff`: `NoReturnToSource`, `BundleIsWhole`, `RowsAreServed`.
* `Evidence`: `HistoryStands`, `AcceptancesAnchored`, `LeaksAreMarked`.
* `Workbench`: `OneRunAtATime`, `EndedIsOver`, `CleanupUndisturbed`, `SpendingIsBounded`; liveness `CloseEnds`.
* `Queue`: `ReceiptInOnePlace` and `UndeliveredStays`, `StateStore`: `OneActiveAttempt`, and `Repository`: `LogReplays`, are
  proved (section 4) and have no run; their modules are explored inside `service` and `repository`.

For each property of each run `PROJECT.json` names a mutant: a plausible mistake in
one definition that violates it.

### Findings

* `handoff_sealed`.  `docs/deployment.md` says that after a failed or interrupted upgrade "the database is
  read-only again. The target binding stays."  `_remove_upgrade_handoff` renames the marker away and then
  flushes the directory; when the flush raises, the handler of `upgrade` seals the database although
  no marker is left.  `CanBegin` then offers only the ordinary commands, which cannot initialise a sealed database.
* `launcher_cancel`.  `docs/api.md` says of a cancellation: "The supervisor stops the complete builder/Blender process
  tree", and a comment in `execute` repeats it.  One kind of process escapes: it ignores SIGTERM and had lost its parent
  before a scan of `_terminate` saw it, so that `/proc` no longer shows it below the CLI.  Only the CLI could reach it, by its process
  group, but the supervisor kills the CLI after 2 s (`launcher.py`) and the CLI waits 5 s before it sends SIGKILL
  (`commands.py`).

Other things were noticed, which have no run.

* `docs/character-spec.md:249-254` maps a failed report to a failed build.  `blender/runner.py` exits with 11 for a failed report as
  well as for one that needs review, and `worker.py:143-144` makes `needs_review` of 11: `Settle` shows it.
* A CLI that is killed from outside leaves Blender running, and `execute` takes the end of the CLI for the end of the build.
  `PublishedIsFinal` holds all the same: such a Blender can write into its scratch directory, never into a published one.
* The first verifier compares the GLB only with the printable height of the scene, never with the display meshes it was
  exported from, and each reading of the STL with the scene, never with the other.  `LeftToVerify` lists this with the flaws that
  only the second verifier looks for; `build` can publish such a tree, `verify` rejects it, and `PublishedVerifies` says that there is
  nothing else.
* Only the printable shell of the scene is compared with the request.  Exports are compared with the scene, so that a published
  height may be off by two tolerances (`PublishedIsSound`: 1.1 %), and an accepted one by four (`VerifiedIsSound`: 2.1 %).
  `VerifiedIsSound` does not depend on who wrote the report.
* A chord that is short enough to belong to a wall below the minimum makes the wall unmeasured: a thin wall always
  needs review, it never fails its check.

## 4. Proofs

### The durable store

`RepositoryProofs` proves, for every number of builds, keys, tokens, artifacts and
attempts (`RepositoryAssumption`: at least one attempt, a positive lease, at least one
artifact, and the four "no value" constants outside their sets):

| Theorem | States |
|---|---|
| `TypeCorrect` | `Spec => []TypeOK` |
| `OneLeasePerBuild` | `Spec => []RunningUnderOneLease` |
| `CancellationWins` | `Spec => []CancelWins` |
| `QueuedCanStart` | `Spec => []QueuedHasAttemptLeft` |
| `PublicationIsWhole` | `Spec => []PublishedWhole` |
| `QueuedIsRecorded` | `Spec => []QueuedHasRow` |
| `LogIsFaithful` | `Spec => []LogReplays` |

The inductive invariant is `StoreInv`: the type invariant and, for every build, the
conjunction `BuildInv(b)` of the six properties plus `NothingLeft` (a build without a
row owns nothing).  It has to be the conjunction: that a queued build has an
attempt left needs to know that a running build's active attempt is its latest one;
that its next row does not collide needs that no row is newer than the build; that a log
replays needs that a running build is the only one whose attempt ends.

An operation may touch many builds (recovery, retention, time), but what it does to
each is one of a few things.  `BuildStep(b)` lists them: nothing, time passes, the
build is submitted, canceled, started, its attempt ends (by completion, publication or
recovery), or it is deleted.  The lemmas `Steps...` show that every operation is a
`BuildStep` of every build, the lemmas `Keeps...` that each of its cases preserves
each conjunct, and the theorems follow by temporal logic.

Three more theorems of the module follow from it, under the same assumption:

| Theorem | States |
|---|---|
| `StoreImplementsLifecycle` | `Spec => ImplementsLifecycle` |
| `StoreImplementsReference` | `Spec => ImplementsReference` |
| `VersionsGuardRows` | `Spec => VersionGuardsRow` |

* `StoreImplementsLifecycle`.  `Spent(b)`, the highest attempt number, is what `BuildLifecycle` calls `spent`.
  `RefinementInv` adds `History(b)`: attempts are numbered without a gap.  Then each case of `BuildStep(b)` is a
  step of the life cycle or a stutter.
* `StoreImplementsReference`.  One lemma per transaction.  What only the in-memory store checks
  (no second active attempt when one is leased, that the next number is free, that the attempt which publishes is the one
  the records name, that an outbox row of one version is new) follows from `StoreInv`; the rest is that both
  compute the same tables.  For recovery, the largest step, the set of expired attempts is mapped to
  the in-memory store's loop.
* `VersionsGuardRows`.  `GuardInv` adds that only active attempts hold leases, that a build that was never submitted has
  version 0, and that no key leads to a deleted build.  `AttemptRule`, `DeletionRule` and
  their companions say, build by build, what a step may change of attempts, keys and artifacts.

The last section of the module is about the in-memory store by itself, `Memory(bound)`, where `bound` limits its
generic transitions: `AtMostOneActiveAttempt` (`Memory(bound)!Spec => []Memory(bound)!OneActiveAttempt`, for every bound)
says that a build never has two active attempts, whatever the tests call.  Its invariant is that property with the types of attempts.

### The queue

The first section of `ServiceProofs` is about the queue alone, `Redis!Spec`, whose consumers and payloads (the workers and
the builds of the service) are any sets and whose limits are any naturals (`QueueConstants`):
`QueueTypeCorrect`, `ReceiptStaysInOnePlace` (`ReceiptInOnePlace`) and `UndeliveredStaysAlways` (`UndeliveredStays`).
`QueueInv` adds that ids are unique in the stream, that every id was issued with its payload, that
a receipt is dead-lettered once and then is no longer in the stream.  The lemma about
trimming the dead-letter stream (`NewestSuffix`) is where the bound `DeadLimit` enters.

### The service and recovery

The rest of `ServiceProofs` is about the composed system, for every set of builds, artifacts and workers and every number of
attempts, entries and faults (`ServiceAssumption`, `RedisAssumption`):

| Theorem | States |
|---|---|
| `ServiceCallsStore` | `Spec => Repo!Spec` |
| `ServiceCallsQueue` | `Spec => Redis!Spec` |
| `NoWakeupIsLost` | `Spec => []NoLostWakeup` |
| `DeadLettersHaveEnded` | `Spec => []DeadLettersEnded` |
| `PublishedIsAlwaysStored` | `Spec => []PublishedIsStored` |
| `AttemptsAreOwned` | `Spec => []OwnAttempt` |
| `ReconstructionIsEnough` | `RecoverySpec => []ReconstructionSuffices` |
| `RecoveryCallsStore` | `RecoverySpec => Repo!Spec` |
| `PublishedIsStoredAfterLoss` | `RecoverySpec => []PublishedIsStored` |
| `AttemptsAreOwnedAfterLoss` | `RecoverySpec => []OwnAttempt` |
| `DeadLettersHaveEndedAfterLoss` | `RecoverySpec => []DeadLettersEnded` |
| `StoreStaysCorrect` | `RecoverySpec =>` always the six state invariants of the store |
| `ServiceImplementsLifecycle` | `RecoverySpec => Store!ImplementsLifecycle` |

* `ServiceCallsStore` and `ServiceCallsQueue` lift the theorems about the two: `Service` conjoins actions of both with
  steps of a worker, so what their specifications allow to any caller they also see here.  `Base` is what the rest
  builds on: `GuardInv` of the store, the types of the stream, and `WorkerFacts`, which says for each program counter what a
  worker holds (`Shape`) and that the row it dispatches and the entry it took were issued (`Held`).  `Turn` says what a step may do to
  the record of one worker, so that the following proofs need not go through all the actions again.
* `NoWakeupIsLost`.  `NoLostWakeup` is not inductive: a dispatcher may mark the row of a build whose message
  another worker is about to acknowledge.  `WakeInv(b)` adds that as long as `b` is queued in the version of the row, a dispatcher whose
  enqueue was answered still has its message in the stream, and that nobody is about to settle it.  That is kept because only a worker that
  read the build as not queued in this version comes to settle its message (`SettlersWere`), and every status change has a new version
  with a row of its own.
* `DeadLettersHaveEnded`.  A worker is on its way to the dead letters only with a build that ended unsuccessfully or was deleted, and
  both are final (`VersionsGuardRows`).
* `PublishedIsAlwaysStored` needs that a worker that publishes has uploaded everything under its own attempt number;
  `AttemptsAreOwned` that the number a worker leased was issued with its token, that numbers are issued once, and that a worker which runs or
  uploads has not published.
* `ReconstructionIsEnough`.  A build may be `Excused` from `WakeInv` only while a loss stands that no complete reconstruction has made
  good, and not once the reconstruction that runs after the last loss has passed it: either it
  was not queued when the list was read, and was queued by a transaction with a row since, or it was enqueued again.
* The theorems `...AfterLoss` say which promises need no intact Redis.  `RecoverySteps` shows that a step of `RecoverySpec` is a step
  of `Next` or an `Interference`: PostgreSQL and the object store are untouched, dead letters are kept or forgotten, receipts
  are issued on, and a worker does not notice or raises.  `SafeInv` is the invariant of `ReconstructionIsEnough` with those of the
  three properties, each of which an `Interference` keeps.  `NoLostWakeup` and `ReceiptInOnePlace` are not among them: a loss takes
  wake-ups away, and it can bring back a message that is already a dead letter, so `DeadInv` may not rest on `QueueInv`.
* `StoreStaysCorrect` and `ServiceImplementsLifecycle` carry the theorems of `RepositoryProofs` over to the composed system, which
  needs nothing more than `RecoveryCallsStore`.  The invariants are `RunningUnderOneLease`, `CancelWins`,
  `QueuedHasAttemptLeft`, `PublishedWhole`, `QueuedHasRow` and `LogReplays`.

### The launcher

`LauncherProofs` proves, for every set of fault models (`LauncherAssumption`):

| Theorem | States |
|---|---|
| `OwnExitIsAlwaysClean` | `Spec => []OwnExitIsClean` |
| `PublishedIsAlwaysFinal` | `Spec => []PublishedIsFinal` |

There are only sixteen fault models, and the run `launcher` takes all of them, so TLC has seen every state; what the proof adds is the
reason.  Two parties look for processes, the supervisor in `/proc` from parent to child and the CLI by its process group, and it is the
second that matters.  `Family`: who was started by whom, and that a runner or child that lives under a dead parent belongs to init.
`GroupStopped`: once the CLI has left its signal guard, its group is empty; it validates, publishes and reports only after that, which gives
`Outputs` and with it the second theorem.  `AfterExit`: if the CLI is gone and something of its group is left, the CLI was killed.  What is
left then is what `launcher_cancel` shows.

### Maintenance

`MaintenanceProofs` proves, for every set of builds, objects, deletion runs and discoveries and
all periods that satisfy `MaintenanceAssumption`:

| Theorem | States |
|---|---|
| `MaintenanceTypeCorrect` | `Spec => []TypeOK` |
| `ReferencedIsStoredAlways` | `Spec => []ReferencedIsStored` |
| `QueuedIsReleasedAlways` | `Spec => []QueuedIsReleased` |
| `UrlServesAlways` | `Spec => []UrlServes` |
| `DeletedIsGoneAlways` | `Spec => []DeletedIsGone` |
| `DeletedIsFinalAlways` | `Spec => DeletedIsFinal` |
| `MaintenanceImplementsObjectLifecycle` | `Spec => ImplementsObjectLifecycle` |

`VersionStep(v)` lists what a step can do to one version
(`VersionSteps` shows that every step is one of these), and the invariant `MInv` speaks about a version,
a deletion run and a discovery at a time.  A version that is queued is released: neither
referenced nor owned by an active build (`Released`).  While a URL of it is valid, either it is published or
its row is still pending and becomes eligible after the URL has expired (`Serves`); that is
where the assumption about the periods is used.  Hence whatever is in the hands of a deletion run, with or
without a valid claim, is queued and has no valid URL (`RunInv`), and stays so whatever else happens
(`HandledStays`).  So removing it hurts nobody, and a late run cannot do harm.

### The handoff

`HandoffProofs` proves, for every set of builds and every number of bundles, targets and faults (`HandoffAssumption`):

| Theorem | States |
|---|---|
| `SourceNeverReturns` | `Spec => []NoReturnToSource` |
| `BundlesAreWhole` | `Spec => []BundleIsWhole` |
| `EveryRowIsServed` | `Spec => []RowsAreServed` |

A command is a program, so the invariant is one of program verification: `HandoffInv` is what holds whenever no command is in
the middle of something (`StoresInv`) and, for the command that runs, what holds in front of each of its
steps (`Stage`), in four parts.  `Marked`: what the marker says, and that it names the present database where the step relies on it.
`Stopped`: no API, then no writer either.  `ReadSoFar`: what a backup has dumped, listed and copied is what the database holds
(which is why builds must have drained and the worker be stopped first).  `RestoredSoFar`: how far a restore got into
a database that nobody has used.  A failure handler is a program too; that a failing step may stand before or after its effect makes each
program's steps hold their assertions in both cases.  `MarkerFits` is the part that is easily missed: a marker that says
`ready` names the database in use, one that says `upgrading` may belong to an earlier target.

### The evidence store

`EvidenceProofs` proves, for every number of builders, revisions and power losses (`EvidenceAssumption`):

| Theorem | States |
|---|---|
| `LeaksAreAlwaysMarked` | `Spec => []LeaksAreMarked` |
| `HistoryAlwaysStands` | `Spec => []HistoryStands` |
| `AcceptancesStayAnchored` | `Spec => []AcceptancesAnchored` |

`LeakInv` adds to the first that a launched build that runs holds the build lock under an unfinished marker, and that a build which
runs beside leftovers has an error recorded and no job left: that is why its return does not clear the marker.

`HistoryInv` is for the other two.  `Promoting`: a builder past its checks holds the store lease, and `Fits` says how far its revision has
come: where its directory is, what is flushed, that its parent is the present pointer.  `Standing`: every revision of the chain is
complete and durable; the durable pointer may lag behind the visible one, but along the chain; what was
reported is reached from the durable one.  The chain is reasoned about as a least set (`ChainHolds`, `ChainLeast`), so no
induction over its length is needed: a promotion adds one child (`ChainOfChild`), and what other revisions record
as parent does not matter (`ChainUnmoved`).

### The workbench

`WorkbenchProofs` proves, for every number of inspections, previews, calls and crashes (`WorkbenchAssumption`):

| Theorem | States |
|---|---|
| `OneRunAtATimeAlways` | `Spec => []OneRunAtATime` |
| `EndedIsAlwaysOver` | `Spec => []EndedIsOver` |
| `CleanupIsUndisturbed` | `Spec => []CleanupUndisturbed` |
| `SpendingStaysBounded` | `Spec => []SpendingIsBounded` |

`OpInv` is about operations: who owns the run (`RunOwned`), that a spawn spends the permission (`SpawnedOnce`), that at most one bridge runs
(`OneRunning`), and where a signal that was sent is recorded (`SignalPending`).  `CallInv` is about model calls: a preview is in
the hands of one thread, which sends it once (`CarriesOnce`, `ThreadOnce`, `SentOnce`), and what the journal reserves is within the
budget (`WithinBudget`).  The budget is a sum over a finite set of any size; the lemmas about sums are proved by
well-founded induction over its subsets.

### Quality

`QualityProofs` proves, for every set of shells and scenes, every voxel, every drift of an export, every set of foreign
files and any number of changes (`QualityAssumption`):

| Theorem | States |
|---|---|
| `PublishedIsAlwaysSound` | `Spec => []PublishedIsSound` |
| `PublishedAlwaysVerifies` | `Spec => []PublishedVerifies` |
| `VerifiedIsAlwaysSound` | `Spec => []VerifiedIsSound` |
| `RefusalIsAlwaysExplained` | `Spec => []RefusalIsExplained` |

`QualityAssumption` says that a shell is a finite set of finite faces, that rays and parts are finite in number and that lengths are
numbers; it says nothing of how the triangles meet, what a ray finds or how far an export is off.  The heart is `WatertightIsSolid`, a
lemma without states: a mesh of which the code counts one shell, two faces at every edge and one fan at every vertex is a closed
surface in the sense of `Solid`, which is defined without edges or fans.  It rests on what the fold of `Linked` computes
(`ClassesAre`: the classes of faces that chains of common edges connect), again by well-founded induction over subsets.  `WallMeasured` and
`FeatureMeasured` say that a width that is reported bounds every chord or part below it.  `TwoTolerances` and `FourTolerances` add
up the tolerances that lie between the request and a height.

`QualityInv` has three parts.  `BuildInv` says for each program counter which files came from which scene and which checks they have
passed.  `TreeInv`: a tree that nobody touched is `Published`, made of files that passed all of them; any other can at least be read.
`VerdictInv`: a verdict 0 means that the three judgements hold of the tree as it is.  `PublishedFits` is then the comparison of the two
verifiers: of a `Published` tree `TreeAgrees` holds, and `SavedFits` and `ImportsFit` hold exactly if nothing was left to them.
`ExplainedInv` rests on `QualityInv`: a build exits with 11 either before its report is made or because the report did not pass, and then
`NotPassedHasReasons` compares the two lists of demands.

### How the invariants were found

TLC checked each of them on the instances of section 3 before it was proved, and refutes a wrong one in
minutes.  The proofs changed two models.  `Handoff` kept an operator from restoring on another machine as long as the source was
whole, and let a backup begin on a database that nobody had ever used; `Evidence` defined the chain by recursion over its length.
`Service` and `Quality` got assumptions about their constants, which TLC evaluates in every run.

Two habits of the library shape the proofs.  Its induction theorems take a predicate as parameter, which the installed
provers cannot instantiate; where an induction over finite sets is needed it is said with a set of
bad subsets and `WFMin`.  And no module with a theorem reaches a recursive operator.

### Only model-checked

* Liveness under fairness, which is outside the reach of the prover: `EveryBuildEnds`, `EverythingDrains`, `NothingLingers`, `QueueDrains`
  and `CloseEnds`.

Every invariant and every action property that a run checks is also a theorem, except the two that `handoff_sealed` and
`launcher_cancel` refute.

## 5. Not modelled

* Row locks.  Each transaction of the store is atomic.  `recover_expired_attempts` locks attempts before builds,
  retention and reconciliation lock builds first; PostgreSQL aborts one of two transactions that wait for
  each other, which the caller sees as a failed call (`CallFails`).  The hazard is listed without a property.
* HTTP details: authentication, paging, the second try of a cancellation at a stale version (two calls of `RequestCancel`, which
  clients may make in any order anyway), the two reads behind one artifact listing.
* The limits of `XAUTOCLAIM`'s scan, payload parsing, environment parsing, logging.
* What other consumers do between `XAUTOCLAIM` and `XREADGROUP` of one claim: the second call is only made when the first found
  nothing, and takes a message nobody has, so `Queue` makes one step of both.
* The creation of the evidence store's own directories, which happens before anything is accepted: `Evidence` takes them as durable.
* The numeric code of generators, voxel union, rendering and exporters: its results are inputs of `Quality`.
* JSON parsing in the contracts, and provenance records beyond the rejection of another one (`OtherProvenance`): data without interleavings.
* The in-memory queue (a deque for the unit tests).
* Images, packaging, release policy and supply-chain audits: build files and static data.
* The late renewal that may be under way when `_LeaseMonitor.stop` gives up joining its thread.

What would come next: row locks as steps of their own, for the deadlock that PostgreSQL resolves; the generators' data flow, so
that the attributes of `Quality` are computed and not chosen.

## 6. Running it

    tlc -workers 2 -config MCService.cfg MCService
    tlc -workers 2 -config MCRecovery.cfg MCRecovery
    tlapm RepositoryProofs.tla
    tlapm ServiceProofs.tla

`tlapm` takes a few minutes for each of the larger proof modules.  Each `MC*.cfg` belongs to the module of the same name, except `MCMaintenanceDrains.cfg` (`MCMaintenance`),
`MCLauncherCancel.cfg` (`MCLauncher`) and `MCHandoffSealed.cfg` (`MCHandoff`).
