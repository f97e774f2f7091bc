---------------------------- MODULE JobLifecycle ----------------------------
(***************************************************************************)
(* The web server's build jobs: the rows of the web_jobs table             *)
(* (web/jobs/store.py), the JobManager objects that own the cancellation   *)
(* signals (web/jobs/manager.py), the asyncio task and worker thread that  *)
(* run each job (web/jobs/runners.py), admission control                   *)
(* (web/jobs/admission.py), the HTTP handlers that create, retry and       *)
(* cancel jobs (web/routes/jobs.py) and the dependency cache that a        *)
(* settings change empties (web/deps.py).                                  *)
(*                                                                         *)
(* Every jobs handler and every stretch of run_ensure_job between two      *)
(* awaits runs on the event loop, so each is one action.  Two things run   *)
(* beside the loop: the worker thread of a job, and the construction of a  *)
(* JobManager, which FastAPI does on a thread-pool thread.  A construction *)
(* only turns "running" rows into "failed" rows, and no handler treats the *)
(* two differently between a read and the write it decides, so a           *)
(* construction inside a handler has the effect of one just before it.     *)
(***************************************************************************)
EXTENDS Naturals, FiniteSets

CONSTANTS
    Jobs,           \* job ids (uuid4, never reused)
    Managers,       \* JobManager objects one process can build
    NoManager,      \* no object: an empty cache, or no runner
    Profiles,       \* host profiles a build may be requested for
    MemoryTotal,    \* host_facts.memory_gb_total, 0 when unknown
    Requests,       \* build memory estimates, in GB
    FallbackMax,    \* _FALLBACK_MAX_CONCURRENCY
    MaxCrashes,     \* bound: server processes that die
    MaxFaults       \* bound: rows that one process fails to write

ASSUME JobAssumption ==
    /\ NoManager \notin Managers
    /\ Profiles # {}
    /\ MemoryTotal \in [Profiles -> Nat]
    /\ Requests \subseteq Nat \ {0}
    /\ FallbackMax \in Nat \ {0}
    /\ MaxCrashes \in Nat
    /\ MaxFaults \in Nat

VARIABLES
    status,     \* web_jobs.status of each row ("absent": no such row)
    memory,     \* the estimate stored in the row's selection_json
    pc,         \* where the job's asyncio task stands
    outcome,    \* what the job's worker thread returned, until the row is written
    owner,      \* the JobManager the job's task was created with
    admitted,   \* the host whose limit admitted a task (history; {} for a retry)
    beside,     \* the tasks that were active when a task was enqueued (history)
    unwritten,  \* jobs whose task ended on an error with the row not written (history)
    signals,    \* _cancel_signals of each manager
    cached,     \* the value lru_cache holds for _job_manager()
    missed,     \* managers whose construction began on a cache miss
    ready,      \* managers built and not garbage: some request may hold them
    up,         \* the server process is running
    crashes     \* how often it died (bounded by MaxCrashes)

rowVars  == <<status, memory>>
taskVars == <<pc, outcome, owner, admitted, beside>>
mgrVars  == <<signals, cached, missed, ready>>
vars     == <<rowVars, taskVars, mgrVars, unwritten, up, crashes>>

-----------------------------------------------------------------------------
Active   == {"queued", "running"}
Terminal == {"succeeded", "failed", "canceled"}
Statuses == {"absent"} \union Active \union Terminal

\* "scheduled": created, not yet run; "thread": awaiting the worker thread;
\* "returned": the thread ended, the coroutine has not resumed; "finishing":
\* the row is written, the finally block awaits the log tail; "finished": the
\* coroutine returned, its done callback has not run; "none": no task.
TaskStates == {"none", "scheduled", "thread", "returned", "finishing", "finished"}
Results    == {"built", "notBuilt", "canceled", "error"}
Outcomes   == {"none"} \union Results
Signals    == {"absent", "clear", "set"}

NoSignals == [j \in Jobs |-> "absent"]

\* _active_tasks, and the sum of _active_task_memory_gb over a set of jobs:
\* the number of gigabytes, counted one by one, that the jobs have reserved.
ActiveTasks  == {j \in Jobs : pc[j] # "none"}
Gigabytes(S) == UNION {{j} \X (1..memory[j]) : j \in S}
Reserved(S)  == Cardinality(Gigabytes(S))

\* max(2.0, total - _SYSTEM_HEADROOM_GB)
Budget(p) == IF MemoryTotal[p] > 4 THEN MemoryTotal[p] - 2 ELSE 2

\* Mutant of Admitted: the request itself is not counted.
AdmittedForgetsRequest(p, m) ==
    IF MemoryTotal[p] = 0
    THEN Cardinality(ActiveTasks) <= FallbackMax
    ELSE Reserved(ActiveTasks) <= Budget(p)

\* decide_admission
Admitted(p, m) ==
    IF MemoryTotal[p] = 0
    THEN Cardinality(ActiveTasks) < FallbackMax
    ELSE Reserved(ActiveTasks) + m <= Budget(p)

-----------------------------------------------------------------------------
Init ==
    /\ status = [j \in Jobs |-> "absent"]
    /\ memory = [j \in Jobs |-> 0]
    /\ admitted = [j \in Jobs |-> {}]
    /\ beside = [j \in Jobs |-> {}]
    /\ unwritten = {}
    /\ pc = [j \in Jobs |-> "none"]
    /\ outcome = [j \in Jobs |-> "none"]
    /\ owner = [j \in Jobs |-> NoManager]
    /\ signals = [g \in Managers |-> NoSignals]
    /\ cached = NoManager
    /\ missed = {}
    /\ ready = {}
    /\ up = FALSE
    /\ crashes = 0

\* Mutant of OrphansFailed: a restart keeps the rows as they were.
OrphansKept == status

\* mark_orphaned_running_as_failed: one UPDATE over every row.
OrphansFailed ==
    [j \in Jobs |-> IF status[j] = "running" THEN "failed" ELSE status[j]]

\* That UPDATE also ends the rows that a task left "running".
StillUnwritten == {j \in unwritten : status[j] # "running"}

\* The lifespan handler builds the first manager before any request is served.
Startup(g) ==
    /\ ~up
    /\ up' = TRUE
    /\ status' = OrphansFailed
    /\ signals' = [signals EXCEPT ![g] = NoSignals]
    /\ cached' = g
    /\ ready' = {g}
    /\ unwritten' = StillUnwritten
    /\ UNCHANGED <<memory, taskVars, missed, crashes>>

\* The process dies.  Rows survive; tasks, threads and managers do not.
Crash ==
    /\ up
    /\ crashes < MaxCrashes
    /\ crashes' = crashes + 1
    /\ up' = FALSE
    /\ pc' = [j \in Jobs |-> "none"]
    /\ outcome' = [j \in Jobs |-> "none"]
    /\ owner' = [j \in Jobs |-> NoManager]
    /\ admitted' = [j \in Jobs |-> {}]
    /\ beside' = [j \in Jobs |-> {}]
    /\ signals' = [g \in Managers |-> NoSignals]
    /\ cached' = NoManager
    /\ missed' = {}
    /\ ready' = {}
    /\ UNCHANGED <<rowVars, unwritten>>

\* A settings change, or the deletion of the default profile, empties the
\* dependency cache; the old manager lives on in the tasks it started.
ResetCachedDependencies ==
    /\ cached # NoManager
    /\ cached' = NoManager
    /\ UNCHANGED <<rowVars, taskVars, signals, missed, ready, unwritten, up, crashes>>

\* A request finds the cache empty and starts to build a manager.  lru_cache
\* holds no lock meanwhile, so another request may do the same.
MissManager(g) ==
    /\ up
    /\ cached = NoManager
    /\ g \notin missed \union ready
    /\ missed' = missed \union {g}
    /\ UNCHANGED <<rowVars, taskVars, signals, cached, ready, unwritten, up, crashes>>

\* JobManager.__init__ ends; the first one to end is the one that is cached.
ConstructManager(g) ==
    /\ g \in missed
    /\ missed' = missed \ {g}
    /\ ready' = ready \union {g}
    /\ cached' = IF cached = NoManager THEN g ELSE cached
    /\ signals' = [signals EXCEPT ![g] = NoSignals]
    /\ status' = OrphansFailed
    /\ unwritten' = StillUnwritten
    /\ UNCHANGED <<memory, taskVars, up, crashes>>

-----------------------------------------------------------------------------
\* create_job inserts a queued row and a clear signal; _enqueue_ensure_job
\* creates the task and reserves its memory.
CreateAndEnqueue(j, m, hosts, g) ==
    /\ status[j] = "absent"
    /\ status' = [status EXCEPT ![j] = "queued"]
    /\ memory' = [memory EXCEPT ![j] = m]
    /\ admitted' = [admitted EXCEPT ![j] = hosts]
    /\ beside' = [beside EXCEPT ![j] = ActiveTasks]
    /\ signals' = [signals EXCEPT ![g][j] = "clear"]
    /\ pc' = [pc EXCEPT ![j] = "scheduled"]
    /\ owner' = [owner EXCEPT ![j] = g]
    /\ UNCHANGED <<outcome, cached, missed, ready, unwritten, up, crashes>>

\* POST /ensure.  A request that is not admitted (429) changes nothing.
EnsureBuild(j, p, m, g) ==
    /\ g \in ready
    /\ Admitted(p, m)
    /\ CreateAndEnqueue(j, m, {p}, g)

\* POST /jobs/{old}/retry: any failed row, and no admission.
RetryJob(old, j, g) ==
    /\ g \in ready
    /\ status[old] = "failed"
    /\ CreateAndEnqueue(j, memory[old], {}, g)

\* Mutant of CancelJob: only the row is written.
CancelRowOnly(j, g) ==
    /\ g \in ready
    /\ status[j] \in Active
    /\ status' = [status EXCEPT ![j] = "canceled"]
    /\ UNCHANGED <<memory, taskVars, mgrVars, unwritten, up, crashes>>

\* POST /jobs/{j}/cancel: cancel_if_active, then the signal of the manager
\* this request holds, whichever manager runs the job.
CancelJob(j, g) ==
    /\ g \in ready
    /\ status[j] \in Active
    /\ status' = [status EXCEPT ![j] = "canceled"]
    /\ signals' = [signals EXCEPT ![g][j] = "set"]
    /\ UNCHANGED <<memory, taskVars, cached, missed, ready,
                   unwritten, up, crashes>>

-----------------------------------------------------------------------------
\* clear_cancel_signal on the manager that owns the task.
ClearSignal(j) == signals' = [signals EXCEPT ![owner[j]][j] = "absent"]

\* run_ensure_job, first step: a row canceled while queued is not run.
SkipCanceled(j) ==
    /\ pc[j] = "scheduled"
    /\ status[j] = "canceled"
    /\ pc' = [pc EXCEPT ![j] = "finished"]
    /\ ClearSignal(j)
    /\ UNCHANGED <<rowVars, outcome, owner, admitted, beside, cached, missed, ready,
                   unwritten, up, crashes>>

\* Mutant of StartThread: the row is not read first.
StartThreadUnchecked(j) ==
    /\ pc[j] = "scheduled"
    /\ status' = [status EXCEPT ![j] = "running"]
    /\ pc' = [pc EXCEPT ![j] = "thread"]
    /\ UNCHANGED <<memory, outcome, owner, admitted, beside, mgrVars,
                   unwritten, up, crashes>>

StartThread(j) ==
    /\ pc[j] = "scheduled"
    /\ status[j] # "canceled"
    /\ status' = [status EXCEPT ![j] = "running"]
    /\ pc' = [pc EXCEPT ![j] = "thread"]
    /\ UNCHANGED <<memory, outcome, owner, admitted, beside, mgrVars,
                   unwritten, up, crashes>>

\* The store or the file system fails: the task ends with its row not written.
GiveUp(j, next) ==
    /\ Cardinality(unwritten) < MaxFaults
    /\ unwritten' = unwritten \union {j}
    /\ pc' = [pc EXCEPT ![j] = next]
    /\ UNCHANGED <<memory, owner, admitted, beside, mgrVars, up, crashes>>

\* An error before the try block: get_job or update_job raises, or the row is
\* written and the log's directory or file cannot be made.  The coroutine ends
\* there: no finally block, and the signal is not cleared.
StartFails(j) ==
    /\ pc[j] = "scheduled"
    /\ \/ UNCHANGED status
       \/ status[j] # "canceled" /\ status' = [status EXCEPT ![j] = "running"]
    /\ GiveUp(j, "finished")
    /\ UNCHANGED outcome

\* is_cancel_requested, polled by the thread on its own manager.
CancelRequested(j) == signals[owner[j]][j] = "set"

\* Mutant of ThreadEnds: the thread writes a failure into the row itself.
ThreadRecords(j, r) ==
    /\ pc[j] = "thread"
    /\ r = "canceled" => CancelRequested(j)
    /\ pc' = [pc EXCEPT ![j] = "returned"]
    /\ outcome' = [outcome EXCEPT ![j] = r]
    /\ status' = IF r = "error" THEN [status EXCEPT ![j] = "failed"] ELSE status
    /\ UNCHANGED <<memory, owner, admitted, beside, mgrVars, unwritten, up, crashes>>

\* The thread ends.  It polls the signal at a few points only, so it may
\* also end in any other way after a cancel.
ThreadEnds(j, r) ==
    /\ pc[j] = "thread"
    /\ r = "canceled" => CancelRequested(j)
    /\ pc' = [pc EXCEPT ![j] = "returned"]
    /\ outcome' = [outcome EXCEPT ![j] = r]
    /\ UNCHANGED <<rowVars, owner, admitted, beside, mgrVars, unwritten, up, crashes>>

\* Mutant of FinalStatus: the row is not read again.
FinalStatusNotReread(j) ==
    IF outcome[j] = "canceled" THEN "canceled"
    ELSE IF outcome[j] = "built" THEN "succeeded" ELSE "failed"

\* The coroutine resumes: the row is read again before it is written, except
\* when the thread reported a cancellation.
FinalStatus(j) ==
    IF "canceled" \in {outcome[j], status[j]} THEN "canceled"
    ELSE IF outcome[j] = "built" THEN "succeeded" ELSE "failed"

RecordOutcome(j) ==
    /\ pc[j] = "returned"
    /\ status' = [status EXCEPT ![j] = FinalStatus(j)]
    /\ pc' = [pc EXCEPT ![j] = "finishing"]
    /\ outcome' = [outcome EXCEPT ![j] = "none"]
    /\ UNCHANGED <<memory, owner, admitted, beside, mgrVars, unwritten, up, crashes>>

\* get_job or update_job raises.  Inside the try block the handler records a
\* failure instead, whatever the thread returned; when it raises too, or the
\* handler of a cancellation does, the row stays as it is.
RecordFails(j) ==
    /\ pc[j] = "returned"
    /\ \/ UNCHANGED status
       \/ /\ "canceled" \notin {outcome[j], status[j]}
          /\ status' = [status EXCEPT ![j] = "failed"]
    /\ GiveUp(j, "finishing")
    /\ outcome' = [outcome EXCEPT ![j] = "none"]

\* The finally block, once the tail task has been awaited.
FinishTask(j) ==
    /\ pc[j] = "finishing"
    /\ pc' = [pc EXCEPT ![j] = "finished"]
    /\ ClearSignal(j)
    /\ UNCHANGED <<rowVars, outcome, owner, admitted, beside, cached, missed, ready,
                   unwritten, up, crashes>>

\* Mutant of ReleaseTask: retried jobs get no done callback.
ReleaseFirstTries(j) ==
    /\ pc[j] = "finished"
    /\ admitted[j] # {}
    /\ pc' = [pc EXCEPT ![j] = "none"]
    /\ owner' = [owner EXCEPT ![j] = NoManager]
    /\ admitted' = [admitted EXCEPT ![j] = {}]
    /\ beside' = [beside EXCEPT ![j] = {}]
    /\ UNCHANGED <<rowVars, outcome, mgrVars, unwritten, up, crashes>>

\* The done callback releases the task and its reservation.
ReleaseTask(j) ==
    /\ pc[j] = "finished"
    /\ pc' = [pc EXCEPT ![j] = "none"]
    /\ owner' = [owner EXCEPT ![j] = NoManager]
    /\ admitted' = [admitted EXCEPT ![j] = {}]
    /\ beside' = [beside EXCEPT ![j] = {}]
    /\ UNCHANGED <<rowVars, outcome, mgrVars, unwritten, up, crashes>>

-----------------------------------------------------------------------------
Server(g) == Startup(g) \/ MissManager(g) \/ ConstructManager(g)

Client(j, g) ==
    \/ \E p \in Profiles, m \in Requests : EnsureBuild(j, p, m, g)
    \/ \E old \in Jobs : RetryJob(old, j, g)
    \/ CancelJob(j, g)

\* The steps of one job's task and thread.
Runner(j) ==
    \/ SkipCanceled(j)
    \/ StartThread(j)
    \/ StartFails(j)
    \/ \E r \in Results : ThreadEnds(j, r)
    \/ RecordOutcome(j)
    \/ RecordFails(j)
    \/ FinishTask(j)
    \/ ReleaseTask(j)

Next ==
    \/ \E g \in Managers : Server(g)
    \/ Crash
    \/ ResetCachedDependencies
    \/ \E j \in Jobs, g \in Managers : Client(j, g)
    \/ \E j \in Jobs : Runner(j)

Spec == Init /\ [][Next]_vars

\* The event loop runs every ready callback, and a build thread ends: lock
\* waits, builds and hooks are all under a timeout.
Fairness == \A j \in Jobs : WF_vars(Runner(j))

FairSpec == Spec /\ Fairness

-----------------------------------------------------------------------------
\* Every variable keeps its type.
TypeOK ==
    /\ status \in [Jobs -> Statuses]
    /\ memory \in [Jobs -> Nat]
    /\ admitted \in [Jobs -> SUBSET Profiles]
    /\ beside \in [Jobs -> SUBSET Jobs]
    /\ unwritten \subseteq Jobs
    /\ pc \in [Jobs -> TaskStates]
    /\ outcome \in [Jobs -> Outcomes]
    /\ owner \in [Jobs -> Managers \union {NoManager}]
    /\ signals \in [Managers -> [Jobs -> Signals]]
    /\ cached \in Managers \union {NoManager}
    /\ missed \subseteq Managers
    /\ ready \subseteq Managers
    /\ up \in BOOLEAN
    /\ crashes \in 0..MaxCrashes

\* A row that says "canceled" says so for ever: no late result of the build
\* thread, no restart and no second manager resurrects a canceled job.
CanceledIsFinal ==
    [][\A j \in Jobs : status[j] = "canceled" => status'[j] = "canceled"]_vars

\* While the server is up, a row that says "running" has a task of this
\* process behind it, or is one whose task ended on an error of the store or
\* of the log file; the next start of a manager ends those rows too.
RunningHasRunner ==
    \A j \in Jobs : up /\ status[j] = "running"
                        => pc[j] \in {"thread", "returned"} \/ j \in unwritten

\* A row that can be retried has no build of its own still going on, so a
\* retry never builds beside the job it replaces: orphan marking only fails
\* rows that are "stale from previous process" (store.py:134).
FailedMeansStopped ==
    \A j \in Jobs : status[j] \in {"succeeded", "failed"}
                        => pc[j] \notin {"scheduled", "thread", "returned"}

\* A cancel that is persisted reaches the build: as long as the canceled
\* job's thread can still poll, the signal it polls is set
\* (request_cancel: "Persist cancel state and trigger cooperative
\* cancellation signal").
CancelReachesRunner ==
    \A j \in Jobs : status[j] = "canceled" /\ pc[j] \in {"scheduled", "thread"}
                        => CancelRequested(j)

\* A host bears these jobs: by the memory they reserve when the host's memory
\* is known, by their number when it is not.
Bears(p, S) ==
    IF MemoryTotal[p] = 0 THEN Cardinality(S) <= FallbackMax
                          ELSE Reserved(S) <= Budget(p)

\* An active job and those of the tasks it found active that still are.
Together(j) == {j} \union (beside[j] \intersect ActiveTasks)

\* What admission decided for a build stays true while the build lasts: with
\* what is left of the tasks it was admitted beside, retries among them, it
\* is within the limit of the very host it was admitted for.  Releases,
\* restarts, resets and later retries do not undo it.  (A retry is not
\* admitted: it has no limit of its own.)
AdmissionRespected ==
    \A j \in ActiveTasks : \A p \in admitted[j] : Bears(p, Together(j))

\* The rows behave as JobContract says.
Contract == INSTANCE JobContract WITH Jobs <- Jobs, status <- status
ContractSpec == Contract!Spec

\* A task that is created ends, its reservation is released, and its row is
\* terminal by then, unless the process died first or the row could not be
\* written.
TaskEnds ==
    \A j \in Jobs :
        pc[j] = "scheduled"
            ~> (pc[j] = "none" /\ (status[j] \in Terminal \/ ~up \/ j \in unwritten))

=============================================================================
