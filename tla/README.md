# StackWarden: formal models

This directory holds TLA+ models of StackWarden: the build jobs of its web
server and their event streams; the ensure pipeline that builds images under a
lock and records them in the catalog; the way from a host and a recipe to a
plan and from a plan to an image; the files that several processes edit; and
the administrator's sessions.  TLC checks the models on small instances, and
TLAPS proves the main invariants for instances of any size.

Source paths below are relative to
`packages/stackwarden/src/stackwarden/`.

## 1. Inventory

StackWarden resolves a hardware *profile* and a software *stack* to a *plan*, builds a
Docker image for the plan, and keeps a SQLite catalog of the resulting
artifacts.  A CLI and a FastAPI server drive the same code, in different
processes, over the same catalog, files, lock directory and Docker daemon.

| Part | State it keeps | Operations | What makes it correct |
|---|---|---|---|
| Web build jobs: `web/routes/jobs.py`, `web/jobs/{manager,store,runners,models}.py`, `web/deps.py` | `web_jobs` rows; per manager `_cancel_signals`; module-wide `_active_tasks`; the lru-cached manager | ensure, retry, retry-with-fix, cancel, startup, cache reset, `run_ensure_job` | a row tells the truth about its task; canceled is final; a cancel reaches the build; tasks end and release their memory |
| Admission: `web/jobs/admission.py` | `_active_task_memory_gb` | `decide_admission` | admitted builds fit the host |
| Event streams: `web/jobs/manager.py`, `web/jobs/runners.py`, `web/routes/jobs.py` | bounded queue per client, log file, tail offset | publish, publish sentinel, tail, flush, subscribe, disconnect | lines once and in order; nothing lost at the hand-over; every stream ends |
| Ensure pipeline: `domain/ensure.py`, `builders/{plan_executor,overlay,pull}.py` | position of each invocation; artifact record in memory | existence check, mark stale, prune, insert, build, captures, hooks, cancel, failure | one live row per variant; rows agree with images and builders; what is returned is usable |
| Build locks: `domain/locking.py` | one lock file per (profile, stack, variant hash) | acquire with 300 s timeout, release | mutual exclusion; no waiter stuck |
| Artifact catalog: `catalog/{store,models,queries,migrations}.py` | artifact, profile, stack, usage rows | insert, update by id, mark stale, prune, search | tag and fingerprint unique |
| Drift and verify: `domain/{drift,verify,snapshots}.py`, `web/routes/verify.py` | labels, snapshot files | drift check, verify, verify with fix | what is reused was made from this plan; recomputed fingerprint agrees |
| Artifact routes: `web/routes/artifacts.py` | - | mark-stale, delete | do not undo a running build's guarantees |
| CLI: `cli.py`, `cli_app.py`, `cli_commands/` | - | ensure, prune, verify, create, edit, listings | same guarantees from another process |
| Authentication: `web/auth/store.py`, `web/routes/auth.py`, `web/app.py` | admin row, sessions, failure counters | setup, login with back-off, logout, password change | a revoked session stays revoked; nobody is locked out |
| Settings: `web/routes/settings.py`, `config.py`, `web/util/write_yaml.py` | config files, dependency cache | save settings, reset cache | no running job harmed; files stay whole |
| Hardware catalog: `domain/hardware_catalog.py` | YAML file with a revision | load, save with expected revision, resolve detected values | no lost update |
| Compatibility fix: `domain/{compatibility_fix,pip_compatibility}.py` | overrides file | analyse a failure, apply a fix, override requirements | no lost override; a fix reaches the build it is for |
| Resolver: `resolvers/{resolver,scoring,base_catalog,validators,build_optimization}.py` | - (pure) | validate, choose the base image, tune the build | best admissible base; what is planned suits the host |
| Compatibility rules: `resolvers/{compatibility,rules,rule_catalog}.py`, `domain/tuple_catalog.py` | - (pure, cached files) | layer requirements, tuple decision, catalog rules | a supported tuple wins |
| Composition: `domain/{composition,block_catalog}.py`, `domain/models.py` | - (pure) | merge layers, preview conflicts | preview and composition agree |
| Fingerprint: `domain/hashing.py` | - (pure) | canonical payload, tag | equal plans, equal tags; different images, different tags |
| Spec editing: `application/create_*.py`, `web/routes/{create,profiles,stacks,layers}.py` | spec files, deleted ids | create, update, duplicate, delete | deleted stays deleted; written is found |
| Docker runtime: `runtime/{buildx,docker_client}.py` | images | buildx with timeout and out-of-memory retry, pull, tag | a build ends; its output is complete |
| Host detection: `web/services/host_detection*.py` | - | probes, merge, reconciliation | no accelerator is assumed that was not seen |
| Wizards: `ui/`, `cli_commands/` | - | guided profile and stack | they agree with the resolver |
| Captures: `runtime/{manifest_capture,sbom}.py`, `domain/manifest.py` | files, artifact columns | write back | do not change the row's status |
| Hooks: `hooks/` | - | verdict on an image | failing hooks fail the artifact |
| Remote catalog, licence scanner | - | I/O and text | not state machines |
| Web front end: `apps/web/` | form and view state, stream token | profile form, `useJobStream` | what the form sends suits the host; a stale stream's events are ignored |

How they interact:

- An HTTP handler calls the `JobManager` and the store, creates an asyncio
  task (`run_ensure_job`), and the task runs `ensure_internal` in a worker
  thread.  The thread shares with the event loop the cancel signal (polled by
  the thread), the log file (tailed by the loop) and the return value.
- `ensure_internal` loads and composes the specifications, resolves them to a
  plan and calls `execute_plan`, which takes the build lock, reads and writes
  the catalog and calls the builder.  CLI processes do the same at the same
  time; only the lock file, SQLite, the spec files and Docker are between them.
- The catalog and Docker are also changed by operators who hold no lock:
  mark-stale, delete, verify with fix, prune, `docker rmi`.
- A settings change empties the dependency cache under running jobs.
- A failed build may write pip overrides, which every later build reads.

Hard behaviours: handlers interleave with tasks and threads; constructing a
second manager touches rows of live tasks; the process may die with rows
"running" or "building", or with a file half written; a cancel races with the
end of a build; a client may subscribe too late or read too slowly; invocations
of several processes race from existence check to insert; write-backs use a
record read long before; the database may be busy; a lock or buildx may time
out while output is still arriving; two walks over the same layers must agree;
a request passes the middleware and is handled after another has changed the
account.  `PROJECT.json` lists these as hazards, each at its line.

## 2. Modules

| Module | Models |
|---|---|
| `JobContract` | the abstract life of a job row, as a client of the API sees it |
| `JobLifecycle` | rows, tasks, threads, signals, managers, cache reset, admission; implements `JobContract` |
| `JobEvents` | the event stream of one job |
| `EnsurePipeline` | ensure, lock, catalog rows and images of one (profile, stack), with prune and the other operators |
| `StackComposition` | the merge of a recipe and its layers, and the preview's analyzers |
| `Compatibility` | layer requirements, tuple decision, catalog rules |
| `Planner` | from recipe and profile to plan, in the resolver's stages; extends the two above |
| `Verification` | labels, records, snapshots, drift check and verify; extends `Planner` |
| `PipOverrides` | the overrides a build reads and the fix a failure suggests |
| `ImageBuild` | from plan to image: template, buildx, timeout, retry, reuse; extends `Verification` and `PipOverrides` |
| `HostProfile` | from a detected host to a profile, by the terminal wizard or the web form |
| `GuidedStack` | the stack wizard's review of layers, with the capability matrix |
| `SpecFiles` | profiles, stacks, layers and deleted ids as files of two processes |
| `FixFile` | the overrides file under concurrent retries; extends `PipOverrides` |
| `HardwareCatalog` | fetch and save with the expected revision |
| `DataRoot` | the three above, as the files under one data root |
| `AuthSessions` | administrator, sessions, login wait, middleware |
| `WebServer` | `AuthSessions` and `JobEvents` beside each other, in one server |
| `JobLifecycleProofs`, `JobEventsProofs`, `EnsurePipelineProofs`, `CompositionProofs`, `PlanBuildProofs`, `SpecFilesProofs`, `DataRootProofs`, `AuthSessionsProofs` | theorems (section 4) |
| `MCJobLifecycle`, `MCEnsurePipeline`, `MCPlanBuild`, `MCDataRoot` | values of constants for TLC |

`PROJECT.json` maps every definition to its lines.  Definitions introduced by
a comment "Mutant of ..." are wrong versions of the definition that follows.
They are no part of the specification; replacing the correct definition by
one of them makes a checked property fail, which shows that the property
depends on that piece of code.

### JobLifecycle

An action is a stretch of code between two awaits.  `pc` is the position of the
job's coroutine: *scheduled* (task created), *thread* (awaiting the executor),
*returned* (thread ended, coroutine not resumed), *finishing* (row written,
tail being awaited), *finished* (done callback pending), *none*.

| Action | Code |
|---|---|
| `Startup` | lifespan handler, `JobManager.__init__`, `mark_orphaned_running_as_failed` |
| `MissManager`, `ConstructManager` | `_job_manager()` on an empty lru_cache, begun and ended apart because `lru_cache` takes no lock while it calls |
| `ResetCachedDependencies` | `reset_cached_dependencies` |
| `EnsureBuild`, `RetryJob` | `POST /ensure` with `decide_admission`; the two retry routes, which are not admitted |
| `CancelJob` | `cancel_if_active` and `request_cancel` of *the manager the request holds* |
| `SkipCanceled`, `StartThread`, `ThreadEnds`, `RecordOutcome`, `FinishTask` | `run_ensure_job` |
| `StartFails`, `RecordFails` | the same, when the store or the log's file fails: the task ends and its row is not written |
| `ReleaseTask` | the done callback |
| `Crash` | the process dies |

The row table survives a crash and everything else is lost.  Three history
variables are kept for the properties: the host a task was admitted for
(`admitted`), the tasks it found active then (`beside`), and the jobs whose row
could not be written (`unwritten`).

### JobEvents

One job, one manager, any number of clients (`Viewers`) with bounded queues.  `Publish` is
`publish_event` to all subscribers (dropping on `QueueFull`), `PublishAndEnd`
adds `publish_sentinel`, which drains one event to make room.  `TailLog` is one
round of the tail; `FlushAndEnd` is the finally block.  `Accept` and
`Subscribe` are apart because the queue is registered only when the response
body is first iterated.  `got`, `dropped` and `from` are history variables.

### EnsurePipeline

A plan is its fingerprint: the tag is derived from it, so row, tag and image
share the name.  `VariantOf` gives the variant hash, which is what the lock
file is named after.  One action is one catalog or Docker call, because other
processes act between any two.  A catalog row has a status and the id of its
inserter: `update_artifact` goes by id, so a deleted row is not revived.

| Action | Code |
|---|---|
| `Begin`, `Refuse` | loading and resolving in `ensure_internal`, registry policy |
| `AcquireLock`, `LockTimeout` | `acquire_lock` |
| `PollCancel` | the five cancellation checkpoints |
| `CheckImage`, `CheckRow`, `MarkDrift` | `check_existing` |
| `MarkStale`, `PruneExisting`, `InsertBuilding` | the rows before the build |
| `BuildImage`, `BuildFails`, `RecordBuilt` | the builder and its error path |
| `Capture`, `RunHooks` | write-backs and verdict after the build |
| `CatalogBusy` | `_commit_with_retry` gives up |
| `RequestCancel`, `Crash` | the web job's signal; the death of the process |
| `ManualMarkStale`, `ManualDelete`, `VerifyArtifact`, `ApplyFix`, `DockerChange` | what operators do meanwhile, chosen by the constant `Operators` |
| `PruneList`, `PruneImage`, `PruneRows` | `stackwarden prune`: the rows it lists, the images it removes one by one, and the rows it deletes, by status or, of unused built ones, one by one.  It takes no lock |

### From a host and a recipe to an image

The pure parts of the code are operators; the stages that call them are
actions, so that a behaviour is one request from its submission to its image.

`StackComposition` reduces a version to what the code can tell of it: `pins`
(an exact version) and `admits`.  `Merged` is the accumulator of `_merge_pip`
and `_merge_npm`, a fold over the layers and the recipe.  Environment, apt
constraints and variants are lists of entries, of which the last one of a key
wins (`LastByKey`).  `Preview` holds the three analyzers, which walk the same
parts in their own ways; a conflict carries its type, as in the code.
`Unwatched` are the fields a layer overrides without any analyzer looking.

`Compatibility` keeps versions as sequences of numbers and compares them as the
code does, as decimal numbers (`ToFloat`), so 12.10 is 12.1 and three
numbers are no number.  Hardware ids are canonicalised by a table.

`Planner` has the stages `compose`, `evaluate`, `select`, `optimize`,
`planned` (actions `Compose`, `Evaluate`, `Select`, `Optimize`; `Refuse` is the
error each may raise).  `Fingerprint` is the record of what `canonicalize`
puts into the hashed payload; the hash is taken to be injective.  Memory is
in hundredths of a gigabyte.

`Verification` adds the labels the resolver computes (of them the fingerprint
and the three schema versions), the record `_make_record` makes of
them before the build, the snapshots written after it, `Drift`, and
`VerifyErrors`, which recomputes the fingerprint from the snapshots.

`ImageBuild` continues with a plan: `Reuse` when `check_existing` finds an image
without drift; else `Pull` or `Render`, which record the artifact and start
buildx.  The process (`WriteLine`, `CloseOutput`, `Exit`), the reader thread
(`ReadLine`, `ReadEnd`), time (`Expire`) and the loop (`TakeLine`,
`TakeEndEarly`, `TakeEnd`, `TimeOut`) then interleave freely.  `Ended` is
what the caller makes of the exit status: the image, or one more run with half
the jobs, or failure.  A Dockerfile is the record of what it puts into the
image.  Which of several lockfiles is used is left open.

`HostProfile` takes a machine as what can be read of it.  `Detected` runs the
probes in the code's order, any of which may fail; `Merge` keeps what is
known; `Resolve` finds catalog items; `WizardRequest` is what the terminal wizard
proposes, with what the user may answer instead.  The web form is filled in from
the detection it is opened on (`OpenedForm`), perhaps from another one later
(`Autofilled`, which also looks items up by itself, `FormIds`), and sent
(`WebRequest`).  `Built` is the normalised profile.  `GuidedStack` computes every outcome of the stack
wizard's review, group by group, with whether a picked layer was marked
incompatible: by the capability matrix, for its conflicts or for its requirements.  Both only define values: `MCPlanBuild` turns their results
into requests.

### The files under the data root

`SpecFiles`: the server's handlers run one at a time, a CLI command beside
them.  A file is its document and the processes that hold it open; a document
is the number of the operation that wrote it.  An operation is its steps: load
and check (`Create`, `Update`, ...), the temporary file (`OpenTemp`,
`WriteDocument`), `Replace`, and for profiles the file of deleted ids
(`MarkDeleted`, `Unmark`) and the default profile (`ClearDefault`).
`UpdateConfig` changes the search roots.  `promise` remembers what the last
finished operation on an id has promised; `raced` is set when two processes
are at one file at once, from when the code promises nothing (they share
one temporary file).

`FixFile`: a retry reads the rules, changes them and writes them in place with
`open(path, "w")`, which empties the file first.  `damaged` is set when two
writers overlap, a writer dies with the file open, or a build reads an empty
file; the properties then say nothing.

`HardwareCatalog`: one of the catalog's lists, edited by clients that saw any
earlier revision.  The handlers run in one event loop without awaiting, so a
save is one step.

`DataRoot` puts the three beside each other.  They share no file, lock or
memory, so a behaviour follows one family while the others rest.

### AuthSessions

A handler does not await, so no other runs beside it, but each of its
transactions commits on its own and the server may die in between: `Setup`,
`LoginRight`, `UpdatePassword`, `RevokeSessions` and `IssueSession` are separate
steps.  The middleware's check (`Dispatch`) and the handler it calls (`Logout`,
`BeginChange`) are apart, because it awaits.  Time is kept as what is left of each deadline; a
row is forgotten when no client holds its cookie.  `LoseCookie` is a browser
that drops it or an answer that never arrives; `HandlerFails` a transaction that
fails and ends its request.  `cut` remembers that a change of password ended
between its two transactions.

`WebServer` runs `AuthSessions` or `JobEvents`: a stream passes the middleware
once, when it is requested, and nothing of it asks for the session again, so
they share no state.

## 3. Runs

| Run | States | Shows |
|---|---|---|
| `JobsOneManager` | 146,961 | With one manager per process, two crashes and a row that cannot be written, the rows refine `JobContract`; a running row has a task, or is that row; a failed row has no live build; a cancel reaches the thread; every task ends |
| `JobsReset` | 1,685,106 | With a cache reset and two managers: no canceled row is resurrected, and an admitted build stays within the limit of its host |
| `WebServer` | 129,394 | Event streams: lines once, in order, complete; early streams end.  Accounts: old sessions end, others last until they expire, only the password's owner changes it, nobody is locked out |
| `EnsureQuiet` | 99,344 | Operators other than Docker and prune beside two invocations of two variants: rows agree with builders and images, a canceled build leaves nothing built, invocations end |
| `EnsureDisturbed` | 1,497,520 | Images changed behind the catalog, a busy database, prune, all flags, one variant: inserts never collide, one live row per variant |
| `PlanBuild` | 90,056 | From host and recipe to image: preview and composition agree on dependencies; a quiet preview means that the order of layers does not matter for what it watches; a supported tuple wins; no GPU is planned for unseen; the wizard's marks are the resolver's and the matrix's; a plan's install policies hold when it is rendered; output is complete; one retry when memory ran out; what ensure answers with carries its plan's labels, and verifies when no tuple hint went in; builds end |
| `DataRoot` | 708,566 | Spec files, overrides and hardware catalog under concurrent processes and crashes: files whole, deletes and writes keep their promise, a create replaces nothing, no fix and no edit is lost |
| `JobsResetFails`, `EventsLateStream`, `EnsureStaleRecord`, `PlanEntrypoint`, `PlanSnapshots` | | Divergences (section 6) |

Bounds, and why they are enough:

- *Jobs*: two show every pair (a job and its retry); `JobsReset` has
  three, one more than the fallback limit of two.  Job ids are never reused, so the
  number of jobs also bounds the length of a behaviour.
- *Managers*: two, the cached one and the one a reset left behind.  `MaxCrashes`
  is 2 with one manager (a crash during recovery from a crash), 1 or 0 otherwise.
  `MaxFaults`, the rows that cannot be written, is 1 there (the other job's are) and
  0 with two managers.
- *Hosts of jobs*: one of known memory (5 GB, a budget of 3) and one unknown, so that
  either limit may be the one that binds: two builds of 2 GB are too much for the
  first, three of any size for the second, and a retry passes both.
- *Event queues*: capacity 2 and three log lines, so that queues overflow, the sentinel
  must drain, and tail and flush both have lines.  One client: a client's queue is
  filled and emptied without regard to the others, and it may join at any time.
- *Invocations*: two; the properties relate at most two.  Plans: two of one
  variant (before and after a change of the specs) or of two variants.  Invocations and
  the plans of one variant are symmetric in `EnsureDisturbed`.
- *Layers*: `PlanBuild` composes every order of up to three of eight
  layers under four install policies: three versions of one package (a clash
  needs two mentions, and a third tells "compared with the last" from
  "compared with the first").  Profiles: nine, whose facts are known,
  unknown, old or dotted; every combination of tuple mode, strictness and
  explanation.  Hosts: seven, from an accelerator to an unsupported
  machine, with every set of failing probes or none of the facts, five ways to answer, the
  wizard, and the form as it was opened or filled in again.  Wizard stacks: three
  profiles and three types of inference.
- *Requests*: two in a row; the second asks for an image the first may have built,
  from a profile that may have been rewritten with another schema version.
- *Output*: two lines per run of buildx: one may be read while the other is in
  the pipe or the queue.
- *Spec files*: three operations of two processes over two profiles, a
  stack and its layer, in three roots; two operations race and a third
  reads what they left.
- *Overrides*: two retries of the server and one of the CLI, so that a write
  meets a write of the same and of another process.
- *Hardware catalog*: two clients and three edits: a save from a view two
  revisions old.
- *Accounts*: two clients and three session numbers, one always free for a new
  session; a lifetime of one tick; waits of one and two
  ticks, growth and limit; one crash or failing transaction, which may meet every gap between two.

`CHECK_DEADLOCK FALSE` is set where jobs, lines, invocations, requests or
operations are used up, and then the system rightly stops.  Symmetry is used only in runs
without liveness.

Fairness: `JobLifecycle` assumes that a task's next step is taken (the event
loop runs every ready callback; a build thread ends because lock waits, buildx
and hooks have timeouts).  `JobEvents` assumes the same of the coroutine and
of open streams.  `EnsurePipeline` assumes that an invocation that has
begun keeps going.  Fairness is per job and per invocation and weak; a lock
waiter progresses because it may always time out.  `ImageBuild` assumes that
time passes and that the loop sees it: nothing of the
process, which may hang with its output open or closed, and nothing of the
reader.  `AuthSessions` assumes that time passes, that a handler that runs
goes on, and, strongly, that a client without a session keeps trying: a
login is enabled between waits, not always.  Nothing is assumed of
operators or crashes: nobody need cancel, connect, retry or die.

## 4. Proofs

All theorems hold for every value of the constants that satisfies the named
assumptions, which TLC evaluates in the runs: `JobAssumption`,
`EventAssumption`, `PipelineAssumption`, `FirstIdsAssumption`, `AuthAssumption`, `SpecAssumption`,
`FixAssumption`, `TupleAssumption` and `PlannerAssumption` (catalogs are lists,
processors and memory are natural numbers, requests are for recipes),
`LayersAssumption` (a layer has an id of its own and lists of dependencies and
environment entries), `HardwareAssumption` (the hardware catalog lists GPU
vendors, with ids), `GuidedAssumption` (a request that says no CUDA runtime was
seen has the profile of such a host) and `WizardAssumption` (a request that says its
recipe comes from the stack wizard has one the wizard made).

`JobLifecycleProofs`

- `TypeCorrect`, `CanceledFinal`, `RunningRunner` need no restriction: they
  hold with any number of managers, crashes and failing writes.
- `AdmissionHolds`, too: an admitted build stays within the limit of the host it was
  admitted for.  Its invariant (`AdmissionInv`) is the property itself with
  the sets of active tasks finite.  A reservation is counted as a set of
  (job, gigabyte) pairs (`Gigabytes`), so that a task that ends only makes the set
  smaller and an admitted one adds what admission has counted.
- `FailedStopped`, `CancelReaches` and `ImplementsContract` are proved under
  `OneManager` (a process has one manager object), which is what the code
  guarantees until the cache is reset.  None of them is inductive:
  `LifecycleInv` adds that a dead process has no tasks (`ProcessInv`), which
  statuses go with which task states (`RowInv`), and that a set signal means a
  canceled row (`SignalInv`).

`EnsurePipelineProofs`

- `InsertIsSafe`, `OneLiveRow` and `CanceledNotBuilt` follow from
  `PipelineInv`.  `HoldsLock` says that an invocation past the lock holds it, so
  two such invocations have different variants (`LockedApart`); `OwnRow` ties
  a row to the plan and progress of its inserter; `Retired` says that from
  `mark_stale` on, no other row of the variant is live.  `RetiringStep` is the
  heart: every step but three only keeps, retires or deletes rows, prune
  included, and such a step preserves all of it; `BuiltStep` and `InsertStep`
  treat the others.
- `NoOrphanBuilding` assumes that the database is not busy: with it busy the
  write that settles a failed row may be lost.  `BuiltIsLoaded` assumes that
  nobody changes the images (no Docker operator and no prune).  Both are the
  assumptions of run `EnsureQuiet`.

`AuthSessionsProofs`

- `OldSessionsAreEnded`, `SessionsAreKept` and `ChangesAreAuthenticated`, for any
  number of clients, sessions and crashes, from `AuthInv`: `SessionInv`
  relates rows, cookies and what is outdated, from the change of the password on; `HandlerInv` says what holds
  while a handler is between two transactions (only one is, and the password and
  the session it checked are still those it checked).  One lemma treats each
  way a step may change the rows: issue, drop, revoke, tick.

`JobEventsProofs`

- `LinesReachClientsInOrder` and `StreamsAreComplete`, for any number of clients, any
  log and any capacity of the queues.  What a client was sent and what its
  queue holds are reasoned about as one sequence (`QueuesAreBounded` gives its types):
  its lines grow, none is past the tail's offset, and unless one was
  dropped they are all the lines from the one the client joined at to the
  offset.  The hand-over needs that only the flush queues a sentinel (unless the
  job was canceled) and leaves the offset at the last line.

`SpecFilesProofs`

- `FilesAreWhole`, `DeletedIsHidden`, `WrittenDocumentIsFound` and
  `NothingIsReplaced`, for any number of ids, roots and processes, whatever
  the search order is changed to and wherever a writer is stopped.  The
  invariant says what each process has read, holds open and still has to write.

`DataRootProofs`

- `FileForgetsNothing` and `FixReachesBuild`, for any retries and rules.  The
  invariant follows a fix from the rules a retry has computed, over the
  file, to the rules its build is rendered with; between the two, fixes of
  others of the same family merge into the very rule that holds it
  (`FixStays`).
- `EditsAreKept` and `RevisionsAreUnique`, for any number of clients, items and
  edits, from `CatalogInv`: the ids of the list are distinct, every item
  carries the number of its last accepted edit (0 without one), and no client has seen a
  revision later than the current one or the current one with other items.
  `WithItemPlaces` says what an upsert does to the list.

`CompositionProofs` (no state: what composition computes)

- `PreviewForetells`: composing stops with a dependency conflict exactly when the
  preview lists an error other than of wheelhouses.  The merge remembers, of each package, the last version
  mentioned; the preview compares the consecutive mentions of a package in
  a list of its own.  `AccumulatesAll` says that after i dependencies the
  merge has clashed exactly when two consecutive mentions up to i do, and
  holds the last mention of each package otherwise.  It is an induction over the
  list, which is done over the set of indices at which it holds (`UpTo`, from
  the least natural number of a set, `HasMin`); that the recursively defined
  accumulators are functions at all is `Iterates`.
- `QuietOrderIsFree`: with no overlap, and no override of what no analyzer watches,
  all parts that say something of a package, a key, the base role, the strategy
  or the entrypoint say the same (`NoOverlaps`, `SameLast`), and then only the set
  of parts matters (`SameDeclared`, `SameKeyed`, `SameUnion`).

`PlanBuildProofs`

- `LoggedOutputIsComplete`: at any time, what buildx has written is what was
  collected, followed by what the reader has passed on, followed by what it has
  not read, and the end of the output is queued after all lines (`OutputInv`).
- `RetryIsOnceWithFewerJobs` is inductive beside `StageInv` and a plan's jobs
  being positive (`JobsPositive`).
- `ComposedPoliciesRender`, `SupportedTupleDecides` and `AnswersVerify` rest on
  `PlanInv` (the planned stack is the merged stack with the decided tuple's
  hints; base and fingerprint are of that stack).  `HintsOnly` says what hints
  leave alone, `SupportedIsDecided` that a supported match is preferred,
  `OverrideIsSelected` that an overridden base is selected.  For verify,
  `StoreInv` says that a record names the base of its fingerprint, and a snapshot
  the request it was made for; a fingerprint tells the hints
  (`FingerprintTells`), so it is recomputed from an unhinted snapshot exactly for
  a stack without hints (`RecomputedUnlessHinted`), whichever request of that
  fingerprint the snapshot was made for.
- `NoGpuWithoutCuda`: a profile made where no CUDA runtime was seen has no CUDA
  version, so it can be valid only without the `cuda` capability, which the
  nvidia vendor implies (`UnseenIsNoGpu`); and both clients always name a vendor
  (`WizardNamesVendor`, and for the form as it is opened, filled in and sent
  `OpenedNamesVendor`, `FilledNamesVendor`, `WebNamesVendor`), so that the requirement of an nvidia
  layer is a mismatch and not merely unknown.  `EvaluatedInv` says that a planned
  stack has no mismatch.  What the probes find is left open.
- `PreviewIsRight` and `QuietPreviewsAreRight` carry the two theorems of
  `CompositionProofs` over to every request the planner composes.
- `WizardIsRight` has one hypothesis, that no layer lists itself among those it
  is incompatible with.  The code does not forbid it, and such a layer is refused by
  the resolver without ever being marked by the wizard.  The review is followed over
  its groups (`ReviewPicks`, `ReviewedPicks`): a pick was warned of exactly when
  one of its layers is at odds with one before it, with the profile or with the
  matrix; as the resolver looks at all pairs, in both directions, it finds an error
  exactly in the first two cases (`MarkedIsRefused`).

The type invariants of `JobLifecycle` and `EnsurePipeline` are proved rather
than run.

Only model-checked: liveness (`TaskEnds`, `EarlyStreamEnds`, `EnsureEnds`,
`BuildEnds`, `SessionsEnd`, `LoginEventually`), which is outside what the
provers do.  Every invariant and every action property of a passing run is
stated by a theorem.

## 5. Not modelled

The components table of `PROJECT.json` gives the reason for each part: the
remote catalog (git commands), the licence scanner (text
classification), the web front end apart from its profile form (layout; its
stream token is planned), schema
migrations, the profile and stack rows of the catalog (nothing decides on
them), the content of captures, container hooks, and the run and layer wizards
(forms).  In what is modelled, these are abstracted: the content of files
that are copied into images, the wording of errors, the hash itself, the
shipped catalogs (data: the models have small ones), field validation (a
verdict), and log content (a line is its number, or whether it tells of
lack of memory).

The web form is modelled with values that are in the catalog: the entry "add a
custom value", which first adds one to it, and a choice that is cleared again are left
out.  In `PlanBuild` a stack made with `--layer` is a recipe like any other: it is not
reviewed (`ui/wizard_entities/stack.py:239`), so nothing was marked.

Three hazards are listed without a property.  A crash between the write of a profile and
the removal of its id from the deleted ones (`application/create_flows.py:464`)
hides the profile until it is updated, and nothing promises otherwise.  The per-job log handler is attached
to a logger that all builds share (`builders/plan_executor.py:193`), while
`JobEvents` has one job.  The hardware catalog and the rules are cached for the
life of the process (`resolvers/compatibility.py:25`): the models of one plan
take them as constants.

## 6. Findings

| Run | Finding |
|---|---|
| `JobsResetFails` | After a settings change the next request builds a second manager, whose constructor fails the rows of jobs that are still building; such a row may be retried beside its live build |
| `EventsLateStream` | A stream opened after the end of its job is never ended |
| `EnsureStaleRecord` | The existence check returns the row of a present image whatever its status |
| `PlanEntrypoint` | Two stacks that differ only in their entrypoint have one fingerprint, so an ensure of the second answers with the image of the first |
| `PlanSnapshots` | The fingerprint is computed of the stack with the hints of a compatibility tuple, and the snapshot is of the stack without them, although `domain/snapshots.py:45` says that they "must be the exact resolved objects used to compute the fingerprint": verify reports a divergence of every such artifact, and with fix marks a good one stale |

Met while modelling, and stated where the models or their properties make an
exception:

- *Jobs.*  A retry is enqueued without admission (`web/routes/jobs.py:213`), so it may
  exceed the limit of the host; `AdmissionRespected` is about builds that were
  admitted.  A row that was queued when the server died stays queued.  When the
  log's directory or file cannot be made (`web/jobs/runners.py:41`), which happens outside
  the `try`, or a row cannot be written, the task ends and the row stays queued or
  running, and its stream open.  The next construction of a manager fails such a
  running row; a queued one stays.  `RunningHasRunner` and `TaskEnds` except such
  rows (`unwritten`).  Cancel ends the streams before
  the canceled status is published (`web/routes/jobs.py:284`).  The tail
  handles only `OSError` (`web/jobs/runners.py:172`).
- *Catalog.*  `find_unused` says that it protects the newest row of every (profile,
  stack, variant) (`catalog/store.py:328`), but no record's `variant_json` is ever filled
  in, so it protects one row of every (profile, stack); `Newest` follows the code.
- *Composition.*  "latest" hides a clash between the mentions around it.  Install
  modes of layers are lost: the recipe always has them.  Tuple conflicts are
  found between texts, before hardware ids are canonicalised.  The preview lists wheelhouse
  conflicts as errors (`domain/composition.py:228`), but composing does not
  stop at them: the recipe's mode and path win.  No analyzer watches the build
  strategy, the constraints of apt packages or the variants
  (`domain/composition.py:454, 466, 474`), all of which the last layer decides; two orders
  of layers may differ in them without a warning, and the constraints are
  rendered and hashed.  `PreviewPredictsCompose` and `QuietPreviewMeansOrderFree`
  name these exceptions.  A layer may exclude itself.
- *Resolver.*  With an explanation asked for, the first candidate with the name
  of the best one is taken, which may be another one.  A dotted driver version is
  not a number for the layer requirements (`resolvers/compatibility.py:41`).  A
  matching tuple is accepted in every mode whatever its status, "unsupported" too.  An invalid
  `tuple_layer_mode` means enforce.
- *Build.*  Lockfile and wheelhouse are used before the `COPY` of the service's
  files.  A run whose limit passes just after buildx has ended is reported
  as timed out.  The Jinja environment is cached with its first root.
- *Fixes.*  A fix merged into a narrower rule of the same family has no
  effect on the base it was made for.  Two writers in different processes may lose a
  rule, and a build that reads while the file is written finds none.
- *Specs.*  A crash between the removal of a profile's file and the write of the
  deleted ids leaves the profile of a lower root visible; one between write and
  unmark leaves a written profile hidden until it is updated.  Two processes that
  write one target share its temporary file.  `create_stack` does not compose the
  stack it writes.
- *Prune.*  A variant has at most one built row (`OneLiveRowPerVariant`), and without
  `--force` it is protected, so `prune --all-unused` finds nothing.  An image rebuilt
  under the same tag while prune runs is removed with the row it replaced.
- *Accounts.*  A crash between the new password and the revocation of sessions
  leaves the old sessions valid, and so does a failure of the second transaction; nothing
  ends them before they expire, unless the password is changed again.  From the change
  of the password on, `outdated` holds them, and `cut` tells that this has happened:
  `OldSessionsEnd` says when they are ended, and so when not.
- *Profiles.*  Both guided clients propose an nvidia GPU for every host; on one without a
  CUDA runtime, creation is then refused for missing cuda details unless the user names
  another vendor, whereas `docs/adr/intent-first-contract.md` (Example B)
  promises a CPU-safe profile.  The wizard drops the host facts that
  `docs/hardware_detection_matrix.md` says go to `profile.host_facts`.  A family that
  cannot be resolved stays "ampere" in the web form, and becomes the first item of the
  catalog in the wizard.  The form's own lookup takes an item whose name contains, or is
  contained in, the detected text, which the server's does for GPU models only.
- *Wizard.*  A layer is marked incompatible also by the capability matrix
  (`application/layer_option_classifier.py:287`), which the resolver never reads: such a
  stack resolves.  `WizardForetellsResolver` tells the two apart.

## 7. Plan

Done: everything of sections 2 to 4.  Next, in this order:

1. **ArtifactContract**: an abstract catalog (a variant has at most one live
   artifact, built only by its builder), refined by `EnsurePipeline`.
2. Two jobs in `JobEvents` with the shared log handler; decoding errors in the tail.
3. **JobStream**: the front end's stream token against `JobEvents`.
4. Catalog migrations with a crash between two of them; the remote catalog's
   clone, fetch and switch.
