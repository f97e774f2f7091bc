------------------------- MODULE JobLifecycleProofs -------------------------
(***************************************************************************)
(* Proofs about JobLifecycle, for every set of jobs, managers and hosts    *)
(* and every bound on crashes.                                             *)
(***************************************************************************)
EXTENDS JobLifecycle, FiniteSetTheorems, TLAPS

\* TypeOK is an invariant: every handler, runner step, restart and manager
\* construction keeps the rows, tasks, signals and cache well typed.
THEOREM TypeCorrect == Spec => []TypeOK
<1> USE JobAssumption DEF JobAssumption
<1> USE DEF Active, Terminal, Statuses, TaskStates, Results, Outcomes, Signals, NoSignals
<1>1. Init => TypeOK
  <2> SUFFICES ASSUME Init PROVE TypeOK
    OBVIOUS
  <2> USE DEF Init
  <2>1. status \in [Jobs -> Statuses] /\ memory \in [Jobs -> Nat]
    OBVIOUS
  <2>2. /\ admitted \in [Jobs -> SUBSET Profiles]
        /\ beside \in [Jobs -> SUBSET Jobs]
        /\ unwritten \subseteq Jobs
        /\ up \in BOOLEAN
    OBVIOUS
  <2>3. /\ pc \in [Jobs -> TaskStates]
        /\ outcome \in [Jobs -> Outcomes]
        /\ owner \in [Jobs -> Managers \union {NoManager}]
    OBVIOUS
  <2>4. signals \in [Managers -> [Jobs -> Signals]]
    OBVIOUS
  <2>5. /\ cached \in Managers \union {NoManager}
        /\ missed \subseteq Managers
        /\ ready \subseteq Managers
        /\ crashes \in 0..MaxCrashes
    OBVIOUS
  <2>6. QED
    BY <2>1, <2>2, <2>3, <2>4, <2>5 DEF TypeOK
<1>2. TypeOK /\ [Next]_vars => TypeOK'
  <2> SUFFICES ASSUME TypeOK, [Next]_vars PROVE TypeOK'
    OBVIOUS
  <2> USE DEF TypeOK, rowVars, taskVars, mgrVars
  <2>1. ASSUME NEW g \in Managers, Startup(g) PROVE TypeOK'
    BY <2>1 DEF Startup, OrphansFailed, StillUnwritten
  <2>2. ASSUME NEW g \in Managers, MissManager(g) PROVE TypeOK'
    BY <2>2 DEF MissManager
  <2>3. ASSUME NEW g \in Managers, ConstructManager(g) PROVE TypeOK'
    BY <2>3 DEF ConstructManager, OrphansFailed, StillUnwritten
  <2>4. CASE Crash
    <3>1. [g \in Managers |-> NoSignals] \in [Managers -> [Jobs -> Signals]]
      OBVIOUS
    <3>2. crashes' \in 0..MaxCrashes
      BY <2>4 DEF Crash
    <3>3. QED
      BY <2>4, <3>1, <3>2 DEF Crash
  <2>5. CASE ResetCachedDependencies
    BY <2>5 DEF ResetCachedDependencies
  <2>6. ASSUME NEW j \in Jobs, NEW g \in Managers, NEW p \in Profiles,
               NEW m \in Requests, EnsureBuild(j, p, m, g)
        PROVE TypeOK'
    BY <2>6 DEF EnsureBuild, CreateAndEnqueue, ActiveTasks
  <2>7. ASSUME NEW j \in Jobs, NEW g \in Managers, NEW old \in Jobs, RetryJob(old, j, g)
        PROVE TypeOK'
    BY <2>7 DEF RetryJob, CreateAndEnqueue, ActiveTasks
  <2>8. ASSUME NEW j \in Jobs, NEW g \in Managers, CancelJob(j, g) PROVE TypeOK'
    BY <2>8 DEF CancelJob
  <2>9. ASSUME NEW j \in Jobs, Runner(j) PROVE TypeOK'
    <3>1. CASE SkipCanceled(j)
      BY <3>1 DEF SkipCanceled, ClearSignal
    <3>2. CASE StartThread(j)
      BY <3>2 DEF StartThread
    <3>3. ASSUME NEW r \in Results, ThreadEnds(j, r) PROVE TypeOK'
      BY <3>3 DEF ThreadEnds
    <3>4. CASE RecordOutcome(j)
      BY <3>4 DEF RecordOutcome, FinalStatus
    <3>5. CASE FinishTask(j)
      BY <3>5 DEF FinishTask, ClearSignal
    <3>6. CASE ReleaseTask(j)
      BY <3>6 DEF ReleaseTask
    <3>7. CASE StartFails(j)
      BY <3>7 DEF StartFails, GiveUp
    <3>8. CASE RecordFails(j)
      BY <3>8 DEF RecordFails, GiveUp
    <3>9. QED
      BY <2>9, <3>1, <3>2, <3>3, <3>4, <3>5, <3>6, <3>7, <3>8 DEF Runner
  <2>10. CASE UNCHANGED vars
    BY <2>10 DEF vars
  <2>11. QED
    BY <2>1, <2>2, <2>3, <2>4, <2>5, <2>6, <2>7, <2>8, <2>9, <2>10
       DEF Next, Server, Client
<1>3. QED
  BY <1>1, <1>2, PTL DEF Spec

-----------------------------------------------------------------------------
\* One step never moves a canceled row: the runner reads the row again before
\* it writes a result, and every other writer is guarded by the row's status.
LEMMA CanceledStep ==
    ASSUME TypeOK, [Next]_vars, NEW j \in Jobs, status[j] = "canceled"
    PROVE  status'[j] = "canceled"
<1> USE DEF TypeOK, rowVars, taskVars, mgrVars
<1>1. ASSUME NEW g \in Managers, Server(g) PROVE status'[j] = "canceled"
  BY <1>1 DEF Server, Startup, MissManager, ConstructManager, OrphansFailed
<1>2. CASE Crash \/ ResetCachedDependencies
  BY <1>2 DEF Crash, ResetCachedDependencies
<1>3. ASSUME NEW i \in Jobs, NEW g \in Managers, Client(i, g) PROVE status'[j] = "canceled"
  BY <1>3 DEF Client, EnsureBuild, RetryJob, CreateAndEnqueue, CancelJob
<1>4. ASSUME NEW i \in Jobs, Runner(i) PROVE status'[j] = "canceled"
  <2>1. CASE RecordOutcome(i)
    BY <2>1 DEF RecordOutcome, FinalStatus
  <2>2. CASE StartThread(i)
    BY <2>2 DEF StartThread
  <2>3. CASE StartFails(i) \/ RecordFails(i)
    BY <2>3 DEF StartFails, RecordFails
  <2>4. CASE UNCHANGED status
    BY <2>4
  <2>5. QED
    BY <1>4, <2>1, <2>2, <2>3, <2>4
       DEF Runner, SkipCanceled, ThreadEnds, FinishTask, ReleaseTask
<1>5. CASE UNCHANGED vars
  BY <1>5 DEF vars
<1>6. QED
  BY <1>1, <1>2, <1>3, <1>4, <1>5 DEF Next

\* CanceledIsFinal holds with any number of managers and crashes: a cancel
\* that the store accepted is never overwritten by a late result.
THEOREM CanceledFinal == Spec => CanceledIsFinal
<1>1. TypeOK /\ [Next]_vars
        => [\A j \in Jobs : status[j] = "canceled" => status'[j] = "canceled"]_vars
  BY CanceledStep
<1>2. QED
  BY <1>1, TypeCorrect, PTL DEF Spec, CanceledIsFinal

-----------------------------------------------------------------------------
Attended(j) == pc[j] \in {"thread", "returned"} \/ j \in unwritten

\* A row that says "running" after a step has its thread, or is one that could
\* not be written: it was started in this step, or was running before and
\* neither the runner has ended it nor a manager has been built and failed it.
LEMMA RunnerStep ==
    ASSUME TypeOK, RunningHasRunner, [Next]_vars, NEW j \in Jobs, up', status'[j] = "running"
    PROVE  Attended(j)'
<1> USE DEF TypeOK, RunningHasRunner, Attended, rowVars, taskVars, mgrVars
<1>1. CASE UNCHANGED vars \/ ResetCachedDependencies \/ \E g \in Managers : MissManager(g)
  BY <1>1 DEF vars, ResetCachedDependencies, MissManager
<1>2. CASE Crash \/ \E g \in Managers : Startup(g) \/ ConstructManager(g)
  BY <1>2 DEF Crash, Startup, ConstructManager, OrphansFailed
<1>3. ASSUME NEW i \in Jobs, NEW g \in Managers, Client(i, g)
      PROVE  Attended(j)'
  BY <1>3 DEF Client, EnsureBuild, RetryJob, CreateAndEnqueue, CancelJob
<1>4. ASSUME NEW i \in Jobs, Runner(i)
      PROVE  Attended(j)'
  <2>1. CASE SkipCanceled(i) \/ StartThread(i) \/ FinishTask(i) \/ ReleaseTask(i)
    BY <2>1 DEF SkipCanceled, StartThread, FinishTask, ReleaseTask
  <2>2. CASE \E r \in Results : ThreadEnds(i, r)
    BY <2>2 DEF ThreadEnds
  <2>3. CASE RecordOutcome(i)
    BY <2>3 DEF RecordOutcome, FinalStatus
  <2>4. CASE StartFails(i) \/ RecordFails(i)
    BY <2>4 DEF StartFails, RecordFails, GiveUp
  <2>5. QED
    BY <1>4, <2>1, <2>2, <2>3, <2>4 DEF Runner
<1>5. QED
  BY <1>1, <1>2, <1>3, <1>4 DEF Next, Server

\* RunningHasRunner is an invariant (inductive on top of TypeOK): a row says
\* "running" only between the start of its thread and the write of its
\* result, unless that write or the opening of the log failed, and a start of
\* the server fails the rows the last process left.
THEOREM RunningRunner == Spec => []RunningHasRunner
<1>1. Init => RunningHasRunner
  BY DEF Init, RunningHasRunner
<1>2. TypeOK /\ RunningHasRunner /\ [Next]_vars => RunningHasRunner'
  <2>1. ASSUME TypeOK, RunningHasRunner, [Next]_vars
        PROVE  \A j \in Jobs : up' /\ status'[j] = "running" => Attended(j)'
    BY <2>1, RunnerStep
  <2>2. QED
    BY <2>1 DEF RunningHasRunner, Attended
<1>3. QED
  BY <1>1, <1>2, TypeCorrect, PTL DEF Spec

-----------------------------------------------------------------------------
(***************************************************************************)
(* Admission.  A job fits its host together with the tasks it was admitted *)
(* beside; these can only become fewer, because a job enqueued later is in *)
(* nobody's record, and only a new row changes what a job reserves.        *)
(***************************************************************************)
AdmissionInv ==
    /\ IsFiniteSet(ActiveTasks)
    /\ IsFiniteSet(Gigabytes(ActiveTasks))
    /\ \A j \in Jobs : status[j] = "absent" => pc[j] = "none"
    /\ \A j \in Jobs : \A i \in beside[j] : status[i] # "absent"
    /\ AdmissionRespected

\* Fewer jobs reserve less, and are bearable where more are.
LEMMA FewerJobs ==
    ASSUME NEW S, NEW T \in SUBSET S, IsFiniteSet(S), IsFiniteSet(Gigabytes(S))
    PROVE  /\ IsFiniteSet(T) /\ IsFiniteSet(Gigabytes(T))
           /\ Cardinality(T) <= Cardinality(S) /\ Reserved(T) <= Reserved(S)
           /\ Cardinality(S) \in Nat /\ Cardinality(T) \in Nat
           /\ Reserved(S) \in Nat /\ Reserved(T) \in Nat
<1>1. Gigabytes(T) \in SUBSET Gigabytes(S)
  BY DEF Gigabytes
<1>2. IsFiniteSet(T) /\ Cardinality(T) <= Cardinality(S)
  BY FS_Subset
<1>3. IsFiniteSet(Gigabytes(T)) /\ Cardinality(Gigabytes(T)) <= Cardinality(Gigabytes(S))
  BY <1>1, FS_Subset
<1>4. QED
  BY <1>2, <1>3, FS_CardinalityType DEF Reserved

\* What the host bears, it bears a part of.
LEMMA FewerBearable ==
    ASSUME NEW S, NEW T \in SUBSET S, IsFiniteSet(S), IsFiniteSet(Gigabytes(S)),
           NEW p \in Profiles, Bears(p, S)
    PROVE  Bears(p, T)
<1>1. FallbackMax \in Nat /\ Budget(p) \in Nat
  BY JobAssumption DEF JobAssumption, Budget
<1>2. QED
  BY <1>1, FewerJobs DEF Bears

\* One more job adds what it reserves.
LEMMA OneMoreJob ==
    ASSUME NEW S, IsFiniteSet(S), IsFiniteSet(Gigabytes(S)), NEW j, j \notin S, NEW m \in Nat
    PROVE  LET all == Gigabytes(S) \union ({j} \X (1..m))
           IN  /\ IsFiniteSet(S \union {j}) /\ Cardinality(S \union {j}) = Cardinality(S) + 1
               /\ IsFiniteSet(all) /\ Cardinality(all) = Reserved(S) + m
<1> DEFINE More == {j} \X (1..m)
<1>1. Gigabytes(S) \intersect More = {}
  BY DEF Gigabytes
<1>2. IsFiniteSet({j}) /\ Cardinality({j}) = 1
  BY FS_Singleton
<1>3. IsFiniteSet(1..m) /\ Cardinality(1..m) = m
  BY FS_Interval
<1>4. IsFiniteSet(More) /\ Cardinality(More) = 1 * m
  <2> DEFINE One == {j}
             Units == 1..m
  <2>1. IsFiniteSet(One) /\ Cardinality(One) = 1 /\ IsFiniteSet(Units) /\ Cardinality(Units) = m
    BY <1>2, <1>3
  <2> HIDE DEF One, Units
  <2>2. IsFiniteSet(One \X Units) /\ Cardinality(One \X Units) = 1 * m
    BY <2>1, FS_Product, Zenon
  <2>3. QED
    BY <2>2 DEF One, Units
<1>5. IsFiniteSet(S \union {j}) /\ Cardinality(S \union {j}) = Cardinality(S) + 1
  BY FS_AddElement
<1>6. Cardinality({}) = 0 /\ Cardinality(Gigabytes(S)) \in Nat
  BY FS_EmptySet, FS_CardinalityType
<1> HIDE DEF More
<1>7. /\ IsFiniteSet(Gigabytes(S) \union More)
      /\ Cardinality(Gigabytes(S) \union More)
            = Cardinality(Gigabytes(S)) + Cardinality(More) - Cardinality({})
  BY <1>1, <1>4, FS_Union
<1>8. Cardinality(Gigabytes(S) \union More) = Reserved(S) + m
  BY <1>4, <1>6, <1>7 DEF Reserved
<1>9. QED
  BY <1>5, <1>7, <1>8 DEF More

\* A step that enqueues no job leaves what every active job reserves, and the
\* record of its admission, as they are.
LEMMA NoMoreJobs ==
    ASSUME TypeOK, AdmissionInv, memory' = memory,
           \A j \in Jobs : beside'[j] \in SUBSET beside[j],
           \A j \in Jobs : pc'[j] # "none" => pc[j] # "none" /\ admitted'[j] = admitted[j],
           \A j \in Jobs : status'[j] = "absent" => status[j] = "absent"
    PROVE  AdmissionInv'
<1> USE DEF TypeOK, AdmissionInv
<1>1. ActiveTasks' \in SUBSET ActiveTasks /\ ActiveTasks \in SUBSET Jobs
  BY DEF ActiveTasks
<1>2. \A S : Gigabytes(S)' = Gigabytes(S)
  BY DEF Gigabytes
<1>3. IsFiniteSet(ActiveTasks') /\ IsFiniteSet(Gigabytes(ActiveTasks'))
  BY <1>1, FewerJobs
<1>4. ASSUME NEW j \in ActiveTasks', NEW p \in admitted'[j]
      PROVE  Bears(p, Together(j)')
  <2>1. j \in ActiveTasks /\ p \in admitted[j] /\ p \in Profiles
    BY <1>1, <1>4 DEF ActiveTasks
  <2>2. Together(j)' \in SUBSET Together(j) /\ Together(j) \in SUBSET ActiveTasks
    BY <1>1, <2>1 DEF Together
  <2>3. IsFiniteSet(Together(j)) /\ IsFiniteSet(Gigabytes(Together(j)))
    BY <2>2, FewerJobs
  <2>4. Bears(p, Together(j))
    BY <2>1 DEF AdmissionRespected
  <2>5. QED
    BY <2>1, <2>2, <2>3, <2>4, FewerBearable
<1>5. AdmissionRespected'
  BY <1>2, <1>4 DEF AdmissionRespected, Bears, Reserved
<1>6. QED
  BY <1>2, <1>3, <1>5

\* A step that enqueues a job: with the admission of the host it names, or
\* with none (a retry).
LEMMA OneMoreTask ==
    ASSUME TypeOK, AdmissionInv, NEW i \in Jobs, NEW m \in Nat, NEW g,
           NEW hosts \in SUBSET Profiles,
           CreateAndEnqueue(i, m, hosts, g), \A p \in hosts : Admitted(p, m)
    PROVE  AdmissionInv'
<1> USE DEF TypeOK, AdmissionInv, CreateAndEnqueue
<1>1. PICK A \in SUBSET Jobs : A = ActiveTasks
  BY DEF ActiveTasks
<1>2. i \notin A /\ ActiveTasks' = A \union {i}
  BY <1>1 DEF ActiveTasks
<1>3. IsFiniteSet(A) /\ IsFiniteSet(Gigabytes(A)) /\ Gigabytes(A)' = Gigabytes(A)
  BY <1>1, <1>2 DEF Gigabytes
<1>4. Gigabytes(A \union {i})' = Gigabytes(A) \union ({i} \X (1..m))
  BY <1>2 DEF Gigabytes
<1>5. /\ IsFiniteSet(A \union {i}) /\ Cardinality(A \union {i}) = Cardinality(A) + 1
      /\ IsFiniteSet(Gigabytes(A \union {i})')
      /\ Cardinality(Gigabytes(A \union {i})') = Reserved(A) + m
  <2>1. /\ IsFiniteSet(A \union {i}) /\ Cardinality(A \union {i}) = Cardinality(A) + 1
        /\ IsFiniteSet(Gigabytes(A) \union ({i} \X (1..m)))
        /\ Cardinality(Gigabytes(A) \union ({i} \X (1..m))) = Reserved(A) + m
    BY <1>2, <1>3, OneMoreJob
  <2>2. QED
    BY <1>4, <2>1
<1>6. ASSUME NEW p \in admitted'[i] PROVE Bears(p, Together(i))'
  <2>1. p \in Profiles /\ Admitted(p, m)
    BY <1>6
  <2>2. Together(i)' = A \union {i}
    BY <1>1, <1>2 DEF Together
  <2>3. FallbackMax \in Nat /\ Cardinality(A) \in Nat
    BY <1>3, FS_CardinalityType, JobAssumption DEF JobAssumption
  <2>4. Bears(p, A \union {i})'
    BY <1>1, <1>5, <2>1, <2>3 DEF Admitted, Bears, Reserved
  <2>5. QED
    BY <2>2, <2>4
<1>7. ASSUME NEW j \in A, NEW p \in admitted'[j] PROVE Bears(p, Together(j))'
  <2>1. j # i /\ p \in admitted[j] /\ Together(j)' = Together(j)
    BY <1>1, <1>2 DEF Together
  <2>2. Gigabytes(Together(j))' = Gigabytes(Together(j))
    BY <1>1, <1>2 DEF Gigabytes, Together
  <2>3. Bears(p, Together(j))
    BY <1>1, <2>1 DEF AdmissionRespected
  <2>4. QED
    BY <2>1, <2>2, <2>3 DEF Bears, Reserved
<1>8. AdmissionRespected'
  BY <1>2, <1>6, <1>7 DEF AdmissionRespected
<1>9. \A j \in Jobs : \A k \in beside'[j] : status'[k] # "absent"
  BY DEF ActiveTasks
<1>10. \A j \in Jobs : status'[j] = "absent" => pc'[j] = "none"
  OBVIOUS
<1>11. QED
  BY <1>2, <1>5, <1>8, <1>9, <1>10

\* AdmissionRespected is an invariant, whatever managers, crashes, failed
\* writes and retries there are: a build that POST /ensure admitted stays
\* within the limit of its host, beside what it was admitted beside.
THEOREM AdmissionHolds == Spec => []AdmissionRespected
<1>1. Init => AdmissionInv
  <2> SUFFICES ASSUME Init PROVE AdmissionInv
    OBVIOUS
  <2>1. ActiveTasks = {} /\ Gigabytes(ActiveTasks) = {}
    BY DEF Init, ActiveTasks, Gigabytes
  <2>2. QED
    BY <2>1, FS_EmptySet DEF Init, AdmissionInv, AdmissionRespected
<1>2. TypeOK /\ AdmissionInv /\ [Next]_vars => AdmissionInv'
  <2> SUFFICES ASSUME TypeOK, AdmissionInv, [Next]_vars PROVE AdmissionInv'
    OBVIOUS
  <2> USE DEF TypeOK, rowVars, taskVars, mgrVars
  <2>1. ASSUME NEW g \in Managers, Server(g) PROVE AdmissionInv'
    BY <2>1, NoMoreJobs DEF Server, Startup, MissManager, ConstructManager, OrphansFailed
  <2>2. CASE Crash \/ ResetCachedDependencies \/ UNCHANGED vars
    BY <2>2, NoMoreJobs DEF Crash, ResetCachedDependencies, vars
  <2>3. ASSUME NEW i \in Jobs, NEW g \in Managers, NEW p \in Profiles, NEW m \in Requests,
               EnsureBuild(i, p, m, g)
        PROVE  AdmissionInv'
    <3>1. m \in Nat
      BY JobAssumption DEF JobAssumption
    <3>2. CreateAndEnqueue(i, m, {p}, g) /\ \A q \in {p} : Admitted(q, m)
      BY <2>3 DEF EnsureBuild
    <3>3. {p} \in SUBSET Profiles
      OBVIOUS
    <3>4. QED
      BY <3>1, <3>2, <3>3, OneMoreTask
  <2>4. ASSUME NEW i \in Jobs, NEW g \in Managers, NEW old \in Jobs, RetryJob(old, i, g)
        PROVE  AdmissionInv'
    <3>1. /\ memory[old] \in Nat /\ CreateAndEnqueue(i, memory[old], {}, g)
          /\ {} \in SUBSET Profiles
      BY <2>4 DEF RetryJob
    <3>2. QED
      BY <3>1, OneMoreTask
  <2>5. ASSUME NEW i \in Jobs, NEW g \in Managers, CancelJob(i, g) PROVE AdmissionInv'
    BY <2>5, NoMoreJobs DEF CancelJob
  <2>6. ASSUME NEW i \in Jobs, Runner(i) PROVE AdmissionInv'
    <3>1. CASE SkipCanceled(i) \/ FinishTask(i) \/ ReleaseTask(i)
      BY <3>1, NoMoreJobs DEF SkipCanceled, FinishTask, ReleaseTask
    <3>2. CASE StartThread(i)
      BY <3>2, NoMoreJobs DEF StartThread
    <3>3. ASSUME NEW r \in Results, ThreadEnds(i, r) PROVE AdmissionInv'
      BY <3>3, NoMoreJobs DEF ThreadEnds
    <3>4. CASE RecordOutcome(i)
      BY <3>4, NoMoreJobs DEF RecordOutcome, FinalStatus
    <3>5. CASE StartFails(i)
      BY <3>5, NoMoreJobs DEF StartFails, GiveUp
    <3>6. CASE RecordFails(i)
      BY <3>6, NoMoreJobs DEF RecordFails, GiveUp
    <3>7. QED
      BY <2>6, <3>1, <3>2, <3>3, <3>4, <3>5, <3>6 DEF Runner
  <2>7. QED
    BY <2>1, <2>2, <2>3, <2>4, <2>5, <2>6 DEF Next, Client
<1>3. AdmissionInv => AdmissionRespected
  BY DEF AdmissionInv
<1>4. QED
  BY <1>1, <1>2, <1>3, TypeCorrect, PTL DEF Spec

-----------------------------------------------------------------------------
(***************************************************************************)
(* With one manager for the life of a process (no settings change) more    *)
(* holds.  A row and its task move together, so the invariant ties each    *)
(* status to the task states it can meet, and each signal to its row.      *)
(***************************************************************************)
OneManager == \A g, h \in Managers : g = h

ProcessInv ==
    /\ missed = {}
    /\ up => ready # {}
    /\ ~up => ready = {} /\ \A j \in Jobs : pc[j] = "none"

RowInv ==
    \A j \in Jobs :
        /\ status[j] = "absent" => pc[j] = "none"
        /\ pc[j] = "scheduled" => status[j] \in {"queued", "canceled"}
        /\ pc[j] \in {"thread", "returned"} => status[j] \in {"running", "canceled"}

SignalInv ==
    \A j \in Jobs :
        /\ pc[j] # "none" => owner[j] \in Managers
        /\ \A g \in Managers : signals[g][j] = "set" => status[j] = "canceled"
        /\ pc[j] = "returned" /\ outcome[j] = "canceled" => status[j] = "canceled"

LifecycleInv == ProcessInv /\ RowInv /\ SignalInv /\ CancelReachesRunner

\* The invariant is inductive: with a single manager no row is failed under a
\* live task and no cancel goes to a manager the task does not poll.
LEMMA LifecycleStep ==
    ASSUME OneManager, TypeOK, LifecycleInv, [Next]_vars
    PROVE  LifecycleInv'
<1> USE JobAssumption DEF JobAssumption, OneManager, TypeOK, LifecycleInv, ProcessInv,
      RowInv, SignalInv, CancelReachesRunner, CancelRequested, rowVars, taskVars, mgrVars
<1>1. ASSUME NEW g \in Managers, Startup(g) PROVE LifecycleInv'
  BY <1>1 DEF Startup, OrphansFailed, NoSignals
<1>2. ASSUME NEW g \in Managers, MissManager(g) PROVE LifecycleInv'
  BY <1>2 DEF MissManager
<1>3. ASSUME NEW g \in Managers, ConstructManager(g) PROVE LifecycleInv'
  BY <1>3 DEF ConstructManager
<1>4. CASE Crash
  BY <1>4 DEF Crash, NoSignals
<1>5. CASE ResetCachedDependencies
  BY <1>5 DEF ResetCachedDependencies
<1>6. ASSUME NEW i \in Jobs, NEW g \in Managers, g \in ready,
             NEW m, NEW hosts, CreateAndEnqueue(i, m, hosts, g)
      PROVE LifecycleInv'
  <2>1. ProcessInv'
    BY <1>6 DEF CreateAndEnqueue
  <2>2. RowInv'
    BY <1>6 DEF CreateAndEnqueue
  <2>3. SignalInv' /\ CancelReachesRunner'
    BY <1>6 DEF CreateAndEnqueue
  <2>4. QED
    BY <2>1, <2>2, <2>3
<1>7. ASSUME NEW i \in Jobs, NEW g \in Managers, CancelJob(i, g) PROVE LifecycleInv'
  <2>1. ProcessInv' /\ RowInv'
    BY <1>7 DEF CancelJob, Active
  <2>2. SignalInv'
    BY <1>7 DEF CancelJob
  <2>3. CancelReachesRunner'
    BY <1>7 DEF CancelJob
  <2>4. QED
    BY <2>1, <2>2, <2>3
<1>8. ASSUME NEW i \in Jobs, Runner(i) PROVE LifecycleInv'
  <2>1. CASE SkipCanceled(i)
    BY <2>1 DEF SkipCanceled, ClearSignal
  <2>2. CASE StartThread(i)
    BY <2>2 DEF StartThread
  <2>3. ASSUME NEW r \in Results, ThreadEnds(i, r) PROVE LifecycleInv'
    BY <2>3 DEF ThreadEnds, Results
  <2>4. CASE RecordOutcome(i)
    BY <2>4 DEF RecordOutcome, FinalStatus
  <2>5. CASE FinishTask(i)
    BY <2>5 DEF FinishTask, ClearSignal
  <2>6. CASE ReleaseTask(i)
    BY <2>6 DEF ReleaseTask
  <2>7. CASE StartFails(i)
    BY <2>7 DEF StartFails, GiveUp
  <2>8. CASE RecordFails(i)
    BY <2>8 DEF RecordFails, GiveUp
  <2>9. QED
    BY <1>8, <2>1, <2>2, <2>3, <2>4, <2>5, <2>6, <2>7, <2>8 DEF Runner
<1>9. CASE UNCHANGED vars
  BY <1>9 DEF vars
<1>10. ASSUME NEW i \in Jobs, NEW g \in Managers, Client(i, g) PROVE LifecycleInv'
  BY <1>6, <1>7, <1>10 DEF Client, EnsureBuild, RetryJob
<1>11. QED
  BY <1>1, <1>2, <1>3, <1>4, <1>5, <1>8, <1>9, <1>10 DEF Next, Server

\* LifecycleInv is an invariant of every behaviour with a single manager.
LEMMA LifecycleHolds ==
    ASSUME OneManager
    PROVE  Spec => []LifecycleInv
<1>1. Init => LifecycleInv
  BY JobAssumption DEF Init, LifecycleInv, ProcessInv, RowInv, SignalInv,
        CancelReachesRunner, NoSignals
<1>2. TypeOK /\ LifecycleInv /\ [Next]_vars => LifecycleInv'
  BY OneManager, LifecycleStep
<1>3. QED
  BY <1>1, <1>2, TypeCorrect, PTL DEF Spec

\* With a single manager, a failed or succeeded row has no build behind it: a
\* retry never builds beside the job it replaces.
THEOREM FailedStopped ==
    ASSUME OneManager
    PROVE  Spec => []FailedMeansStopped
<1>1. LifecycleInv => FailedMeansStopped
  BY DEF LifecycleInv, RowInv, FailedMeansStopped
<1>2. QED
  BY <1>1, OneManager, LifecycleHolds, PTL

\* With a single manager, the thread of a canceled job polls a signal that is
\* set.
THEOREM CancelReaches ==
    ASSUME OneManager
    PROVE  Spec => []CancelReachesRunner
<1>1. LifecycleInv => CancelReachesRunner
  BY DEF LifecycleInv
<1>2. QED
  BY <1>1, OneManager, LifecycleHolds, PTL

\* Every step of the server is a step of the abstract job contract.
LEMMA ContractStep ==
    ASSUME TypeOK, TypeOK', LifecycleInv, [Next]_vars
    PROVE  [Contract!Next]_status
<1> USE DEF TypeOK, LifecycleInv, ProcessInv, RowInv, rowVars, taskVars, mgrVars
<1> SUFFICES ASSUME NEW j \in Jobs PROVE status'[j] \in Contract!Successors(status[j])
  BY DEF Contract!Next, Contract!Statuses, Contract!Active, Contract!Terminal,
         Statuses, Active, Terminal
<1> USE DEF Contract!Successors, Contract!Terminal, Statuses, Active, Terminal
<1>0. status[j] \in Contract!Successors(status[j])
  OBVIOUS
<1>1. ASSUME NEW g \in Managers, Server(g)
      PROVE  status'[j] \in Contract!Successors(status[j])
  BY <1>0, <1>1 DEF Server, Startup, MissManager, ConstructManager, OrphansFailed
<1>2. CASE Crash \/ ResetCachedDependencies \/ UNCHANGED vars
  BY <1>0, <1>2 DEF Crash, ResetCachedDependencies, vars
<1>3. ASSUME NEW i \in Jobs, NEW g \in Managers, Client(i, g)
      PROVE  status'[j] \in Contract!Successors(status[j])
  BY <1>0, <1>3 DEF Client, EnsureBuild, RetryJob, CreateAndEnqueue, CancelJob
<1>4. ASSUME NEW i \in Jobs, Runner(i)
      PROVE  status'[j] \in Contract!Successors(status[j])
  <2>1. CASE StartThread(i)
    BY <1>0, <2>1 DEF StartThread
  <2>2. CASE RecordOutcome(i)
    BY <1>0, <2>2 DEF RecordOutcome, FinalStatus
  <2>3. CASE StartFails(i) \/ RecordFails(i)
    BY <1>0, <2>3 DEF StartFails, RecordFails
  <2>4. CASE UNCHANGED status
    BY <1>0, <2>4
  <2>5. QED
    BY <1>4, <2>1, <2>2, <2>3, <2>4
       DEF Runner, SkipCanceled, ThreadEnds, FinishTask, ReleaseTask
<1>5. QED
  BY <1>1, <1>2, <1>3, <1>4 DEF Next

\* With a single manager the job system implements JobContract: rows are run
\* at most once, end at most once and are final then, crashes included.
THEOREM ImplementsContract ==
    ASSUME OneManager
    PROVE  Spec => ContractSpec
<1>1. Init => Contract!Init
  BY DEF Init, Contract!Init
<1>2. TypeOK /\ TypeOK' /\ LifecycleInv /\ [Next]_vars => [Contract!Next]_status
  BY ContractStep
<1>3. QED
  BY <1>1, <1>2, OneManager, LifecycleHolds, TypeCorrect, PTL
     DEF Spec, ContractSpec, Contract!Spec

=============================================================================
