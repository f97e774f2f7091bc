----------------------------- MODULE ImageBuild -----------------------------
(***************************************************************************)
(* From a plan to an image: the overlay is rendered (builders/overlay.py,  *)
(* specs/templates/Dockerfile.overlay.j2), and docker buildx runs on it    *)
(* under a timeout, with a reader thread feeding the loop that logs its    *)
(* output, and once more with fewer jobs when it ran out of memory         *)
(* (runtime/buildx.py).                                                    *)
(***************************************************************************)
EXTENDS Verification, PipOverrides

CONSTANTS
    PipRules,      \* the pip compatibility overrides in force
    OnDisk,        \* copied files and wheelhouses that exist in the service root
    Escaping,      \* copied files and wheelhouses whose path, with its links followed, leaves it
    MaxLines       \* bound: output lines of one run of buildx

VARIABLES
    content,       \* what the rendered Dockerfile puts in the image
    attempt,       \* runs of buildx so far for this plan: 0, 1 or 2
    jobs,          \* STACKWARDEN_BUILD_JOBS of the current run
    proc,          \* the process: "none", "running", "exited", "killed"
    code,          \* its exit status
    written,       \* lines it has written
    pipe,          \* lines the reader has not read yet
    pipeClosed,    \* whether the process has closed its output
    queue,         \* what the reader has passed on; EndOfOutput last
    collected,     \* lines the loop has taken
    streamClosed,  \* whether the loop has taken EndOfOutput
    expired,       \* whether the time allowed is over
    outcome,       \* of the plan: "none", "built", "reused", "failed", "timeout"
    images,        \* the images of the daemon, by fingerprint
    records,       \* the catalog records, by fingerprint
    snapshots      \* the snapshots on disk, by fingerprint

runVars   == <<proc, code, written, pipe, pipeClosed, queue, collected, streamClosed, expired>>
storeVars == <<images, records, snapshots>>
buildVars == <<content, attempt, jobs, outcome, storeVars>>
vars      == <<planVars, buildVars, runVars>>

\* What is stored under a fingerprint replaces what was there.
Put(store, fingerprint, what) ==
    [f \in (DOMAIN store) \union {fingerprint} |-> IF f = fingerprint THEN what ELSE store[f]]

EndOfOutput == "end of output"
Lines == {"text", "oom"}

-----------------------------------------------------------------------------
\* render_requirements: the pip versions after the overrides.
Requirements(s, base) ==
    [n \in Chosen(s.pip) |-> OverriddenVersion(n, s.pip[n].version, base, PipRules)]

\* _resolve_npm_install_commands: from the lockfile unless the mode is
\* "spec" or there is none.  Which of several lockfiles is left open.
NpmCommands(s) ==
    IF s.npmMode # "spec" /\ s.copies \intersect Lockfiles # {}
    THEN {CHOOSE f \in s.copies \intersect Lockfiles : TRUE}
    ELSE Chosen(s.npm)

\* What makes render_dockerfile and copy_service_files refuse the plan.
RenderError(s) ==
    CASE s.aptMode = "pin_only" /\ ~(s.apt \subseteq DOMAIN s.aptPins) -> "unpinned apt package"
      [] s.npmMode = "lock_only" /\ s.copies \intersect Lockfiles = {} -> "no lockfile"
      [] s.copies \intersect Escaping # {} -> "path escapes"
      [] s.pipMode # "index" /\ s.wheelhouse \in Escaping -> "wheelhouse escapes"
      [] s.pipMode # "index" /\ s.wheelhouse # "" /\ s.wheelhouse \notin OnDisk -> "no wheelhouse"
      [] OTHER -> ""

\* The Dockerfile, as what it puts into the image.
Dockerfile(s, p) ==
    [base       |-> p.base,
     pip        |-> Requirements(s, p.base.name),
     pipOptions |-> InstallOptions(p.base.name, PipRules),
     npm        |-> NpmCommands(s),
     apt        |-> [package \in s.apt |-> IF package \in DOMAIN s.aptPins THEN s.aptPins[package] ELSE ""],
     copies     |-> s.copies \intersect OnDisk,
     env        |-> s.env,
     ports      |-> s.ports,
     knobs      |-> p.knobs,
     entrypoint |-> s.entrypoint]

\* _retry_cmd_with_lower_parallelism: only an overlay is given its jobs.
Lowered(j) == IF stack.strategy = "overlay" THEN Greatest(1, j \div 2) ELSE j

\* Mutant of LooksLikeOom: only the last line is looked at.
LooksLikeOomLast(output) == output # <<>> /\ Last(output) = "oom"

\* _looks_like_oom
LooksLikeOom(output) == \E i \in DOMAIN output : output[i] = "oom"

-----------------------------------------------------------------------------
NoRun ==
    /\ proc = "none" /\ code = 0
    /\ written = <<>> /\ pipe = <<>> /\ pipeClosed = FALSE
    /\ queue = <<>> /\ collected = <<>> /\ streamClosed = FALSE
    /\ expired = FALSE

BuildInit ==
    /\ Init
    /\ content = Nothing /\ attempt = 0 /\ jobs = 0 /\ outcome = "none"
    /\ images = <<>> /\ records = <<>> /\ snapshots = <<>>
    /\ NoRun

\* Popen and the start of the reader, for a run with the given jobs.
StartRun(j) ==
    /\ jobs' = j
    /\ attempt' = attempt + 1
    /\ proc' = "running" /\ code' = 0
    /\ written' = <<>> /\ pipe' = <<>> /\ pipeClosed' = FALSE
    /\ queue' = <<>> /\ collected' = <<>> /\ streamClosed' = FALSE
    /\ expired' = FALSE

Finish(what) ==
    /\ stage' = "idle"
    /\ outcome' = what
    /\ UNCHANGED <<served, request, stack, report, plan, error>>

\* A new request, with the build variables of the last one cleared.
NewRequest ==
    /\ Submit
    /\ content' = Nothing /\ attempt' = 0 /\ jobs' = 0 /\ outcome' = "none"
    /\ proc' = "none" /\ code' = 0
    /\ written' = <<>> /\ pipe' = <<>> /\ pipeClosed' = FALSE
    /\ queue' = <<>> /\ collected' = <<>> /\ streamClosed' = FALSE
    /\ expired' = FALSE
    /\ UNCHANGED storeVars

Planning == PlanStep /\ UNCHANGED <<buildVars, runVars>>

\* The labels the image of the plan will have.
PlannedLabels == Labels(request.profile, stack, plan.fingerprint)

\* check_existing: there is an image of the plan, and no drift.
Exists ==
    /\ plan.fingerprint \in DOMAIN images
    /\ Drift(images[plan.fingerprint].labels, records[plan.fingerprint], PlannedLabels) = {}

Reuse ==
    /\ stage = "planned" /\ request.ensure /\ Exists
    /\ Finish("reused")
    /\ UNCHANGED <<content, attempt, jobs, storeVars, runVars>>

\* execute_plan, up to the builder: any older record is replaced.
Recorded ==
    records' = Put(records, plan.fingerprint, Record(PlannedLabels, plan.base))

\* The first run of buildx, for these contents.
StartBuild(contents) ==
    /\ content' = contents
    /\ StartRun(plan.jobs)
    /\ stage' = "buildx"
    /\ UNCHANGED <<served, request, stack, report, plan, error, outcome>>

\* build_pull: the base image is pulled, and built again as it is, to label it.
Pull ==
    /\ stage = "planned" /\ request.ensure /\ ~Exists
    /\ stack.strategy = "pull"
    /\ Recorded
    /\ \/ Finish("failed") /\ UNCHANGED <<content, attempt, jobs, runVars>>
       \/ StartBuild([base |-> plan.base])
    /\ UNCHANGED <<images, snapshots>>

\* build_overlay, up to the first run of buildx.
Render ==
    /\ stage = "planned" /\ request.ensure /\ ~Exists
    /\ stack.strategy = "overlay"
    /\ Recorded
    /\ \/ /\ RenderError(stack) # ""
          /\ Finish("failed")
          /\ UNCHANGED <<content, attempt, jobs, runVars>>
       \/ /\ RenderError(stack) = ""
          /\ StartBuild(Dockerfile(stack, plan))
    /\ UNCHANGED <<images, snapshots>>

-----------------------------------------------------------------------------
\* The docker buildx process.
WriteLine(l) ==
    /\ proc = "running" /\ ~pipeClosed /\ Len(written) < MaxLines
    /\ written' = Append(written, l)
    /\ pipe' = Append(pipe, l)
    /\ UNCHANGED <<planVars, buildVars, proc, code, pipeClosed, queue, collected, streamClosed, expired>>

\* It may close its output before it ends, ...
CloseOutput ==
    /\ proc = "running" /\ ~pipeClosed
    /\ pipeClosed' = TRUE
    /\ UNCHANGED <<planVars, buildVars, proc, code, written, pipe, queue, collected, streamClosed, expired>>

\* ... and closes it when it does.
Exit(c) ==
    /\ proc = "running"
    /\ proc' = "exited" /\ code' = c
    /\ pipeClosed' = TRUE
    /\ UNCHANGED <<planVars, buildVars, written, pipe, queue, collected, streamClosed, expired>>

\* The reader thread: line by line, then the end.
ReadLine ==
    /\ proc # "none" /\ pipe # <<>>
    /\ queue' = Append(queue, Head(pipe))
    /\ pipe' = Tail(pipe)
    /\ UNCHANGED <<planVars, buildVars, proc, code, written, pipeClosed, collected, streamClosed, expired>>

ReadEnd ==
    /\ proc # "none" /\ pipe = <<>> /\ pipeClosed
    /\ ~streamClosed /\ EndOfOutput \notin Range(queue)
    /\ queue' = Append(queue, EndOfOutput)
    /\ UNCHANGED <<planVars, buildVars, proc, code, written, pipe, pipeClosed, collected, streamClosed, expired>>

\* Time: the clock passes the limit.
Expire ==
    /\ stage = "buildx" /\ ~expired
    /\ expired' = TRUE
    /\ UNCHANGED <<planVars, buildVars, proc, code, written, pipe, pipeClosed, queue, collected, streamClosed>>

-----------------------------------------------------------------------------
\* The snapshots of a finished build; writing them may fail.
SnapshotTaken ==
    \/ snapshots' = Put(snapshots, plan.fingerprint, Snapshot(request.profile, request.recipe))
    \/ UNCHANGED snapshots

\* What the caller does with a run that has ended: the image is loaded, or
\* the run repeated with fewer jobs, or the build given up.
Ended ==
    \/ /\ code = 0
       /\ images' = Put(images, plan.fingerprint, [content |-> content, labels |-> PlannedLabels])
       /\ SnapshotTaken
       /\ Finish("built")
       /\ UNCHANGED <<content, attempt, jobs, records, runVars>>
    \/ /\ code # 0 /\ attempt = 1 /\ LooksLikeOom(collected) /\ Lowered(jobs) # jobs
       /\ StartRun(Lowered(jobs))
       /\ UNCHANGED <<planVars, content, outcome, storeVars>>
    \/ /\ code # 0 /\ ~(attempt = 1 /\ LooksLikeOom(collected) /\ Lowered(jobs) # jobs)
       /\ Finish("failed")
       /\ UNCHANGED <<content, attempt, jobs, storeVars, runVars>>

\* Mutant of TimeOut: only while output is expected.
TimeOutWhileOpen ==
    /\ stage = "buildx" /\ expired /\ ~streamClosed
    /\ proc' = IF proc = "running" THEN "killed" ELSE proc
    /\ pipeClosed' = TRUE
    /\ Finish("timeout")
    /\ UNCHANGED <<content, attempt, jobs, storeVars, code, written, pipe, queue, collected, streamClosed, expired>>

\* The loop of _run_streaming: a late run is killed, ...
TimeOut ==
    /\ stage = "buildx" /\ expired
    /\ proc' = IF proc = "running" THEN "killed" ELSE proc
    /\ pipeClosed' = TRUE
    /\ Finish("timeout")
    /\ UNCHANGED <<content, attempt, jobs, storeVars, code, written, pipe, queue, collected, streamClosed, expired>>

\* ... a line is logged and kept, ...
TakeLine ==
    /\ stage = "buildx" /\ ~expired
    /\ queue # <<>> /\ Head(queue) # EndOfOutput
    /\ collected' = Append(collected, Head(queue))
    /\ queue' = Tail(queue)
    /\ UNCHANGED <<planVars, buildVars, proc, code, written, pipe, pipeClosed, streamClosed, expired>>

\* ... at the end of the output the loop goes on if the process has not
\* ended, ...
TakeEndEarly ==
    /\ stage = "buildx" /\ ~expired
    /\ queue # <<>> /\ Head(queue) = EndOfOutput /\ proc = "running"
    /\ streamClosed' = TRUE
    /\ queue' = Tail(queue)
    /\ UNCHANGED <<planVars, buildVars, proc, code, written, pipe, pipeClosed, collected, expired>>

\* Mutant of TakeEnd: the end of the process is enough.
TakeEndOnExit ==
    /\ stage = "buildx" /\ ~expired
    /\ proc = "exited"
    /\ \/ queue # <<>> /\ Head(queue) = EndOfOutput
       \/ queue = <<>>
    /\ Ended

\* ... and stops once both have.
TakeEnd ==
    /\ stage = "buildx" /\ ~expired
    /\ proc = "exited"
    /\ \/ queue # <<>> /\ Head(queue) = EndOfOutput
       \/ queue = <<>> /\ streamClosed
    /\ Ended

BuildStep ==
    \/ Reuse \/ Pull \/ Render
    \/ (\E l \in Lines : WriteLine(l)) \/ CloseOutput \/ (\E c \in {0, 1} : Exit(c))
    \/ ReadLine \/ ReadEnd \/ Expire
    \/ TimeOut \/ TakeLine \/ TakeEndEarly \/ TakeEnd

Next == NewRequest \/ Planning \/ BuildStep

\* The loop runs and time passes; the process owes nothing, not even its end.
Fairness == WF_vars(Expire) /\ WF_vars(TimeOut)

Spec == BuildInit /\ [][Next]_vars /\ Fairness

-----------------------------------------------------------------------------
\* A plan is never refused while it is rendered for what the models check
\* when a specification is loaded: pinned apt packages and the lockfile.  The
\* same conditions are written in models.py for the parts, where composition
\* is free to mix them, and in overlay.py for the composed stack.
RenderedPolicyHolds ==
    stage = "planned" => RenderError(stack) \notin {"unpinned apt package", "no lockfile"}

\* A run that ends by itself has had all its output logged, and in order:
\* the loop does not stop between the end of the process and the last line
\* the reader still has to pass on.
OutputIsComplete ==
    outcome \in {"built", "failed"} /\ attempt > 0 => collected = written

\* A first run that ran out of memory is repeated once if there were jobs to
\* spare, with fewer of them, and then whatever it says is the answer.
OomIsRetriedOnce ==
    /\ attempt > 0 => jobs = (IF attempt = 1 THEN plan.jobs ELSE Lowered(plan.jobs))
    /\ attempt = 2 => jobs < plan.jobs
    /\ outcome = "failed" /\ attempt = 1 /\ stack.strategy = "overlay" /\ plan.jobs > 1 =>
          "oom" \notin Range(written)

\* Every build ends, though buildx may hang with its output open or closed:
\* it is built, failed or timed out.
BuildEnds == stage = "buildx" ~> stage = "idle"

\* An ensure answers with an image that was labelled for its plan, schema
\* versions included though no fingerprint holds them; and verify, which
\* computes the fingerprint anew from the snapshots, finds no error in it
\* when the compatibility tuple put no hint into the stack.
AnswerVerifies ==
    outcome \in {"built", "reused"} =>
        LET fp       == plan.fingerprint
            snapshot == IF fp \in DOMAIN snapshots THEN snapshots[fp] ELSE Nothing
        IN  /\ images[fp].labels.schemas = SchemaLabels(request.profile, stack)
            /\ stack = MergedStack(request.recipe) =>
                  VerifyErrors(fp, images[fp].labels, records[fp], snapshot) = {}

\* "The profile and stack must be the exact resolved objects used to compute
\* the fingerprint" (write_snapshot_files, snapshots.py:45): the fingerprint
\* of every pair of snapshots is the one they were written for.
SnapshotsAreExact ==
    \A fp \in DOMAIN snapshots :
        Fingerprint(snapshots[fp].profile, snapshots[fp].stack, records[fp].base) = fp

\* "Key deterministic inputs include: profile and stack identity and content"
\* (01-philosophy-and-principles.md): an ensure that answers with an image
\* answers with one that runs the entrypoint of the stack it was asked for.
ImageRunsEntrypoint ==
    outcome \in {"built", "reused"} /\ stack.strategy = "overlay" =>
        images[plan.fingerprint].content.entrypoint = stack.entrypoint

=============================================================================
