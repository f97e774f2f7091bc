--------------------------- MODULE EnsurePipeline ---------------------------
(***************************************************************************)
(* The ensure pipeline: ensure_internal (domain/ensure.py), the build lock *)
(* (domain/locking.py), execute_plan with its builders, captures and hooks *)
(* (builders/plan_executor.py), and the artifact rows of the catalog       *)
(* (catalog/store.py), for one (profile, stack) pair.  Locks and stale     *)
(* marks never cross pairs.  The invocations run in web worker threads and *)
(* in CLI processes, so every catalog or Docker call is a step of its own. *)
(*                                                                         *)
(* A plan is its fingerprint: the tag is derived from the fingerprint, so  *)
(* tag and fingerprint name the same row and the same image.  A spec or    *)
(* base-image change, or another variant, gives another fingerprint.       *)
(***************************************************************************)
EXTENDS Naturals, FiniteSets

CONSTANTS
    Builds,        \* ensure invocations
    NoBuild,
    Plans,         \* fingerprints a plan can resolve to
    VariantOf,     \* the variant (hash) a plan is for
    FlagSets,      \* rebuild and immutable flags an invocation may have
    Operators      \* what may happen beside the builds: operator commands,
                   \* changes to the images, a busy catalog database

ASSUME PipelineAssumption ==
    /\ NoBuild \notin Builds
    /\ FlagSets \subseteq [rebuild : BOOLEAN, immutable : BOOLEAN]

VARIABLES
    pc,        \* where each invocation stands
    plan,      \* the fingerprint its plan resolved to
    flags,     \* its flags
    cancel,    \* its cancel signal is set
    seen,      \* what check_existing saw of the image
    recId,     \* the row check_existing read (by its inserter)
    result,    \* status of the artifact record it returned
    lock,      \* holder of each variant's file lock
    artifact,  \* catalog status of each plan's row ("none": no row)
    inserter,  \* which invocation inserted that row (its id)
    image,     \* the local Docker image under each plan's tag
    suspect,   \* plans a running verify --fix found an error for
    doomed     \* what a running prune still has to do

buildVars    == <<pc, plan, flags, cancel, seen, recId, result>>
catalogVars  == <<artifact, inserter>>
operatorVars == <<suspect, doomed>>
vars         == <<buildVars, lock, catalogVars, image, operatorVars>>

-----------------------------------------------------------------------------
Polls  == {"prelude", "locked", "preMark", "preBuild", "postBuild"}
Steps  == Polls \union {"lock", "check", "checkRow", "markDrift", "mark", "prune",
                        "insert", "build", "record", "capture"}
Ended  == {"returned", "drift", "error", "canceled", "crashed"}
States == {"idle"} \union Steps \union Ended

ArtifactStatuses == {"building", "built", "failed", "stale"}
Images           == {"none", "fresh", "drifted"}
Variants         == {VariantOf[f] : f \in Plans}

\* No prune is running.
NoPrune == [status |-> "none", rows |-> {}, gone |-> {}]

Locked == Steps \ {"prelude", "lock"}

Init ==
    /\ pc = [b \in Builds |-> "idle"]
    /\ plan \in [Builds -> Plans]
    /\ flags \in [Builds -> FlagSets]
    /\ cancel = [b \in Builds |-> FALSE]
    /\ seen = [b \in Builds |-> "none"]
    /\ recId = [b \in Builds |-> NoBuild]
    /\ result = [b \in Builds |-> "none"]
    /\ lock = [v \in Variants |-> NoBuild]
    /\ artifact = [f \in Plans |-> "none"]
    /\ inserter = [f \in Plans |-> NoBuild]
    /\ image = [f \in Plans |-> "none"]
    /\ suspect = {}
    /\ doomed = NoPrune

-----------------------------------------------------------------------------
Goto(b, l) == pc' = [pc EXCEPT ![b] = l]

\* Leaving execute_plan releases the lock, whichever way it is left.
ReleaseLock(b) ==
    lock' = [v \in Variants |-> IF lock[v] = b THEN NoBuild ELSE lock[v]]

End(b, how) == Goto(b, how) /\ ReleaseLock(b)

\* update_artifact: by row id, so a row deleted meanwhile stays deleted.
UpdateArtifact(f, id, s) ==
    /\ artifact' = IF inserter[f] = id /\ artifact[f] # "none"
                   THEN [artifact EXCEPT ![f] = s] ELSE artifact
    /\ UNCHANGED inserter

\* update_artifact with the record this invocation inserted.
UpdateOwn(b, s) == UpdateArtifact(plan[b], b, s)

\* prune_artifact
DeleteArtifact(f) ==
    /\ artifact' = [artifact EXCEPT ![f] = "none"]
    /\ inserter' = [inserter EXCEPT ![f] = NoBuild]

\* CatalogStore.mark_stale: every live row of the (profile, stack) pair,
\* whatever its variant.
StaleMarked ==
    [f \in Plans |-> IF artifact[f] \in {"built", "building"} THEN "stale" ELSE artifact[f]]

-----------------------------------------------------------------------------
\* ensure_internal starts: specs are loaded and the plan is resolved.
Begin(b) ==
    /\ pc[b] = "idle"
    /\ Goto(b, "prelude")
    /\ UNCHANGED <<plan, flags, cancel, seen, recId, result, lock, catalogVars, image, operatorVars>>

\* Loading, resolving or the registry policy refuses the plan.
Refuse(b) ==
    /\ pc[b] = "prelude"
    /\ Goto(b, "error")
    /\ UNCHANGED <<plan, flags, cancel, seen, recId, result, lock, catalogVars, image, operatorVars>>

\* Mutant of AcquireLock: the holder is not looked at.
TakeLock(b) ==
    /\ pc[b] = "lock"
    /\ lock' = [lock EXCEPT ![VariantOf[plan[b]]] = b]
    /\ Goto(b, "locked")
    /\ UNCHANGED <<plan, flags, cancel, seen, recId, result, catalogVars, image, operatorVars>>

AcquireLock(b) ==
    /\ pc[b] = "lock"
    /\ lock[VariantOf[plan[b]]] = NoBuild
    /\ lock' = [lock EXCEPT ![VariantOf[plan[b]]] = b]
    /\ Goto(b, "locked")
    /\ UNCHANGED <<plan, flags, cancel, seen, recId, result, catalogVars, image, operatorVars>>

\* filelock.Timeout
LockTimeout(b) ==
    /\ pc[b] = "lock"
    /\ lock[VariantOf[plan[b]]] # NoBuild
    /\ Goto(b, "error")
    /\ UNCHANGED <<plan, flags, cancel, seen, recId, result, lock, catalogVars, image, operatorVars>>

\* Mutant of AfterPoll: the image is checked once more before the rebuild.
AfterPollRecheck(b) ==
    [prelude   |-> "lock",
     locked    |-> IF flags[b].rebuild THEN "preMark" ELSE "check",
     preMark   |-> "check",
     preBuild  |-> "build",
     postBuild |-> "capture"][pc[b]]

\* Where each checkpoint leads when there is no cancellation.
AfterPoll(b) ==
    [prelude   |-> "lock",
     locked    |-> IF flags[b].rebuild THEN "preMark" ELSE "check",
     preMark   |-> "mark",
     preBuild  |-> "build",
     postBuild |-> "capture"][pc[b]]

\* Mutant of PollCancel: the row of a canceled build is left as it is.
PollCancelOnly(b) ==
    /\ pc[b] \in Polls
    /\ IF cancel[b] THEN End(b, "canceled") ELSE Goto(b, AfterPoll(b)) /\ UNCHANGED lock
    /\ UNCHANGED <<plan, flags, cancel, seen, recId, result, catalogVars, image, operatorVars>>

\* The cancellation checkpoints.  Around the builder, a canceled build also
\* marks its row failed.
PollCancel(b) ==
    /\ pc[b] \in Polls
    /\ IF cancel[b]
       THEN /\ End(b, "canceled")
            /\ IF pc[b] \in {"preBuild", "postBuild"} THEN UpdateOwn(b, "failed")
                                                      ELSE UNCHANGED catalogVars
       ELSE /\ Goto(b, AfterPoll(b))
            /\ UNCHANGED <<lock, catalogVars>>
    /\ UNCHANGED <<plan, flags, cancel, seen, recId, result, image, operatorVars>>

-----------------------------------------------------------------------------
\* check_existing: the image and its labels ...
CheckImage(b) ==
    /\ pc[b] = "check"
    /\ seen' = [seen EXCEPT ![b] = image[plan[b]]]
    /\ Goto(b, "checkRow")
    /\ UNCHANGED <<plan, flags, cancel, recId, result, lock, catalogVars, image, operatorVars>>

\* ... then the catalog row of the tag.  An image without drift is returned
\* with its row whatever the row's status, and is built again without a row.
RowDrifted(b) == seen[b] = "drifted" \/ (seen[b] = "none" /\ artifact[plan[b]] = "built")

CheckRow(b) ==
    /\ pc[b] = "checkRow"
    /\ \/ /\ seen[b] = "fresh"
          /\ artifact[plan[b]] # "none"
          /\ End(b, "returned")
          /\ result' = [result EXCEPT ![b] = artifact[plan[b]]]
          /\ UNCHANGED recId
       \/ /\ flags[b].immutable
          /\ RowDrifted(b)
          /\ End(b, "drift")
          /\ UNCHANGED <<recId, result>>
       \/ /\ seen[b] = "drifted"
          /\ ~flags[b].immutable
          /\ artifact[plan[b]] = "built"
          /\ Goto(b, "markDrift")
          /\ recId' = [recId EXCEPT ![b] = inserter[plan[b]]]
          /\ UNCHANGED <<lock, result>>
       \/ /\ seen[b] = "fresh" => artifact[plan[b]] = "none"
          /\ flags[b].immutable => ~RowDrifted(b)
          /\ ~(seen[b] = "drifted" /\ artifact[plan[b]] = "built")
          /\ Goto(b, "preMark")
          /\ UNCHANGED <<lock, recId, result>>
    /\ UNCHANGED <<plan, flags, cancel, seen, catalogVars, image, operatorVars>>

\* The drifted row is written back as stale, from the copy read before.
MarkDrift(b) ==
    /\ pc[b] = "markDrift"
    /\ UpdateArtifact(plan[b], recId[b], "stale")
    /\ Goto(b, "preMark")
    /\ UNCHANGED <<plan, flags, cancel, seen, recId, result, lock, image, operatorVars>>

MarkStale(b) ==
    /\ pc[b] = "mark"
    /\ artifact' = StaleMarked
    /\ Goto(b, "prune")
    /\ UNCHANGED <<plan, flags, cancel, seen, recId, result, lock, inserter, image, operatorVars>>

\* Mutant of PruneExisting: only a row that is still "built" makes room.
PruneBuilt(b) ==
    /\ pc[b] = "prune"
    /\ IF artifact[plan[b]] = "built" THEN DeleteArtifact(plan[b]) ELSE UNCHANGED catalogVars
    /\ Goto(b, "insert")
    /\ UNCHANGED <<plan, flags, cancel, seen, recId, result, lock, image, operatorVars>>

\* The row of this fingerprint makes room for the new one.
PruneExisting(b) ==
    /\ pc[b] = "prune"
    /\ DeleteArtifact(plan[b])
    /\ Goto(b, "insert")
    /\ UNCHANGED <<plan, flags, cancel, seen, recId, result, lock, image, operatorVars>>

\* insert_artifact: tag and fingerprint are unique columns.
InsertBuilding(b) ==
    /\ pc[b] = "insert"
    /\ IF artifact[plan[b]] = "none"
       THEN /\ artifact' = [artifact EXCEPT ![plan[b]] = "building"]
            /\ inserter' = [inserter EXCEPT ![plan[b]] = b]
            /\ Goto(b, "preBuild")
            /\ UNCHANGED lock
       ELSE /\ End(b, "error")
            /\ UNCHANGED catalogVars
    /\ UNCHANGED <<plan, flags, cancel, seen, recId, result, image, operatorVars>>

\* Mutant of BuildImage: a build without --load.
BuildUnloaded(b) ==
    /\ pc[b] = "build"
    /\ Goto(b, "record")
    /\ UNCHANGED <<plan, flags, cancel, seen, recId, result, lock, catalogVars, image, operatorVars>>

\* The builder loads the image under its tag ...
BuildImage(b) ==
    /\ pc[b] = "build"
    /\ image' = [image EXCEPT ![plan[b]] = "fresh"]
    /\ Goto(b, "record")
    /\ UNCHANGED <<plan, flags, cancel, seen, recId, result, lock, catalogVars, operatorVars>>

\* Mutant of BuildFails: the error is passed on and the row forgotten.
BuildFailsOnly(b) ==
    /\ pc[b] \in {"build", "record"}
    /\ End(b, "error")
    /\ UNCHANGED <<plan, flags, cancel, seen, recId, result, catalogVars, image, operatorVars>>

\* ... or raises, as may the catalog update that follows it: the row is
\* marked failed.
BuildFails(b) ==
    /\ \/ pc[b] \in {"build", "record"}
       \/ pc[b] = "preBuild" /\ cancel[b] /\ "busy" \in Operators
    /\ UpdateOwn(b, "failed")
    /\ End(b, "error")
    /\ UNCHANGED <<plan, flags, cancel, seen, recId, result, image, operatorVars>>

\* _commit_with_retry gives up on a busy database: the step it was part of
\* raises.  While the builder runs, the attempt to mark the row failed may be
\* lost too; at the cancellation checkpoints only a canceled build writes.
\* (A capture that cannot be saved is only logged.)
CatalogBusy(b) ==
    /\ "busy" \in Operators
    /\ \/ pc[b] \in {"markDrift", "mark", "prune", "insert", "build", "record", "capture"}
       \/ cancel[b] /\ pc[b] \in {"preBuild", "postBuild"}
    /\ End(b, "error")
    /\ UNCHANGED <<plan, flags, cancel, seen, recId, result, catalogVars, image, operatorVars>>

RecordBuilt(b) ==
    /\ pc[b] = "record"
    /\ UpdateOwn(b, "built")
    /\ Goto(b, "postBuild")
    /\ UNCHANGED <<plan, flags, cancel, seen, recId, result, lock, image, operatorVars>>

\* The captures (manifest, optimization, snapshots, SBOM): each one that
\* succeeds writes the whole record back, status included.
Capture(b) ==
    /\ pc[b] = "capture"
    /\ UpdateOwn(b, "built")
    /\ UNCHANGED <<buildVars, lock, image, operatorVars>>

\* The post-build hooks, if any, and the end of the build.
RunHooks(b, s) ==
    /\ pc[b] = "capture"
    /\ IF s = "failed" THEN UpdateOwn(b, "failed") ELSE UNCHANGED catalogVars
    /\ End(b, "returned")
    /\ result' = [result EXCEPT ![b] = s]
    /\ UNCHANGED <<plan, flags, cancel, seen, recId, image, operatorVars>>

-----------------------------------------------------------------------------
\* The cancel signal of a web job; a CLI build has none.
RequestCancel(b) ==
    /\ pc[b] \in Steps
    /\ ~cancel[b]
    /\ cancel' = [cancel EXCEPT ![b] = TRUE]
    /\ UNCHANGED <<pc, plan, flags, seen, recId, result, lock, catalogVars, image, operatorVars>>

\* The process of an invocation dies; the operating system frees its lock.
Crash(b) ==
    /\ pc[b] \in Steps
    /\ End(b, "crashed")
    /\ UNCHANGED <<plan, flags, cancel, seen, recId, result, catalogVars, image, operatorVars>>

\* POST /artifacts/{id}/mark-stale
ManualMarkStale ==
    /\ "markStale" \in Operators
    /\ \E f \in Plans : artifact[f] # "none"
    /\ artifact' = StaleMarked
    /\ UNCHANGED <<buildVars, lock, inserter, image, operatorVars>>

\* DELETE /artifacts/{id}
ManualDelete(f) ==
    /\ "delete" \in Operators
    /\ artifact[f] # "none"
    /\ DeleteArtifact(f)
    /\ UNCHANGED <<buildVars, lock, image, operatorVars>>

\* POST /verify: the report has an error (no row, a row that is not built,
\* no image, wrong labels or, under strict, no snapshot files, which a row
\* that was just built does not have yet) ...
VerifyArtifact(f) ==
    /\ "verify" \in Operators
    /\ f \notin suspect
    /\ suspect' = suspect \union {f}
    /\ UNCHANGED <<buildVars, lock, catalogVars, image, doomed>>

\* ... and with "fix" the row, read again, is marked stale.
ApplyFix(f) ==
    /\ f \in suspect
    /\ suspect' = suspect \ {f}
    /\ artifact' = IF artifact[f] = "none" THEN artifact ELSE [artifact EXCEPT ![f] = "stale"]
    /\ UNCHANGED <<buildVars, lock, inserter, image, doomed>>

\* stackwarden prune lists the rows of a status: "stale", "failed" or, for
\* --all-unused, "built".  Without --force the newest row is protected: one
\* for all variants, because no build fills in the variant_json by which
\* find_unused tells them apart.
Newest(protected) ==
    LET built == {f \in Plans : artifact[f] = "built"}
    IN  built # {} => \E f \in built : protected = {f}

PruneList(s, protected) ==
    /\ "prune" \in Operators
    /\ doomed = NoPrune
    /\ protected = {} \/ (s = "built" /\ Newest(protected))
    /\ doomed' = [NoPrune EXCEPT !.status = s,
                  !.rows = {<<f, inserter[f]>> : f \in {g \in Plans \ protected : artifact[g] = s}}]
    /\ UNCHANGED <<buildVars, lock, catalogVars, image, suspect>>

\* The image of a listed row is removed, or cannot be, which is only logged.
\* An unused row is deleted before the next image is.
PruneImage(r) ==
    /\ "prune" \in Operators
    /\ r \in doomed.rows
    /\ doomed.status = "built" => doomed.gone = {}
    /\ doomed' = [doomed EXCEPT !.rows = @ \ {r}, !.gone = @ \union {r}]
    /\ \E i \in {image[r[1]], "none"} : image' = [image EXCEPT ![r[1]] = i]
    /\ UNCHANGED <<buildVars, lock, catalogVars, suspect>>

\* prune_artifact deletes the one unused row by its id; prune_by_status
\* deletes every row that now has the status, listed or not.
PruneRows ==
    /\ "prune" \in Operators
    /\ doomed # NoPrune
    /\ doomed.status # "built" => doomed.rows = {}
    /\ doomed.rows = {} \/ doomed.gone # {}
    /\ LET dead == IF doomed.status = "built" THEN {f \in Plans : <<f, inserter[f]>> \in doomed.gone}
                   ELSE {f \in Plans : artifact[f] = doomed.status}
       IN  /\ artifact' = [f \in Plans |-> IF f \in dead THEN "none" ELSE artifact[f]]
           /\ inserter' = [f \in Plans |-> IF f \in dead THEN NoBuild ELSE inserter[f]]
    /\ doomed' = IF doomed.rows = {} THEN NoPrune ELSE [doomed EXCEPT !.gone = {}]
    /\ UNCHANGED <<buildVars, lock, image, suspect>>

\* Someone removes the image, or points the tag at another one.
DockerChange(f, i) ==
    /\ "docker" \in Operators
    /\ image[f] # i
    /\ image' = [image EXCEPT ![f] = i]
    /\ UNCHANGED <<buildVars, lock, catalogVars, operatorVars>>

-----------------------------------------------------------------------------
\* The steps an invocation takes by itself.
Run(b) ==
    \/ Refuse(b) \/ AcquireLock(b) \/ LockTimeout(b) \/ PollCancel(b)
    \/ CheckImage(b) \/ CheckRow(b) \/ MarkDrift(b)
    \/ MarkStale(b) \/ PruneExisting(b) \/ InsertBuilding(b)
    \/ BuildImage(b) \/ BuildFails(b) \/ RecordBuilt(b)
    \/ \E s \in {"built", "failed"} : RunHooks(b, s)

Operator ==
    \/ ManualMarkStale
    \/ \E f \in Plans : ManualDelete(f) \/ VerifyArtifact(f) \/ ApplyFix(f)
    \/ \E f \in Plans, i \in {"none", "drifted"} : DockerChange(f, i)
    \/ \E s \in {"stale", "failed", "built"}, protected \in SUBSET Plans : PruneList(s, protected)
    \/ \E r \in doomed.rows : PruneImage(r)
    \/ PruneRows

Next ==
    \/ \E b \in Builds : Begin(b) \/ Run(b) \/ Capture(b) \/ CatalogBusy(b)
    \/ \E b \in Builds : RequestCancel(b) \/ Crash(b)
    \/ Operator

Spec == Init /\ [][Next]_vars

\* A started invocation keeps going: lock waits, builds and hooks time out.
FairSpec == Spec /\ \A b \in Builds : WF_vars(Run(b))

-----------------------------------------------------------------------------
\* Every variable keeps its type.
TypeOK ==
    /\ pc \in [Builds -> States]
    /\ plan \in [Builds -> Plans]
    /\ flags \in [Builds -> FlagSets]
    /\ cancel \in [Builds -> BOOLEAN]
    /\ seen \in [Builds -> Images]
    /\ recId \in [Builds -> Builds \union {NoBuild}]
    /\ result \in [Builds -> ArtifactStatuses \union {"none"}]
    /\ lock \in [Variants -> Builds \union {NoBuild}]
    /\ artifact \in [Plans -> ArtifactStatuses \union {"none"}]
    /\ inserter \in [Plans -> Builds \union {NoBuild}]
    /\ image \in [Plans -> Images]
    /\ suspect \subseteq Plans
    /\ doomed \in [status : ArtifactStatuses \union {"none"},
                   rows : SUBSET (Plans \X (Builds \union {NoBuild})),
                   gone : SUBSET (Plans \X (Builds \union {NoBuild}))]

\* insert_artifact never collides with the unique tag and fingerprint: the
\* lock covers everything from the existence check to the end of the build.
InsertNeverCollides ==
    \A b \in Builds : pc[b] = "insert" => artifact[plan[b]] = "none"

\* A row says "building" only while the invocation that inserted it still
\* builds, or after that invocation crashed: every other ending settles it.
BuildingHasBuilder ==
    \A f \in Plans : artifact[f] = "building" =>
        \E b \in Builds : /\ inserter[f] = b
                          /\ plan[b] = f
                          /\ pc[b] \in {"preBuild", "build", "record", "crashed"}

\* A row says "built" only when its image was loaded, and, as long as nobody
\* touches the images behind the catalog's back, the image is there.
BuiltHasImage ==
    \A f \in Plans : artifact[f] = "built" => image[f] = "fresh"

\* A build that was canceled leaves no row saying "built".
CanceledLeavesNoBuilt ==
    \A b \in Builds : pc[b] = "canceled" /\ inserter[plan[b]] = b
                        => artifact[plan[b]] # "built"

\* The build lock excludes: two invocations of one variant are never both
\* past the lock.
OneBuilderPerVariant ==
    \A b, c \in Builds :
        b # c /\ pc[b] \in Locked /\ pc[c] \in Locked => VariantOf[plan[b]] # VariantOf[plan[c]]

\* Of the rows of one variant at most one is live ("building" or "built"):
\* mark_stale retires the others before a row is inserted, even one a crashed
\* build left behind, and no later write-back of a record revives them.
OneLiveRowPerVariant ==
    \A f, g \in Plans :
        {artifact[f], artifact[g]} \subseteq {"building", "built"} /\ VariantOf[f] = VariantOf[g]
            => f = g

\* An invocation that has begun ends, even when others hold its lock.
EnsureEnds == \A b \in Builds : pc[b] = "prelude" ~> pc[b] \in Ended

\* What ensure returns without an error is usable, a built artifact or the
\* verdict of this run's own hooks ("Check whether a usable image already
\* exists", plan_executor.py:100).
ExistingIsUsable ==
    \A b \in Builds : pc[b] = "returned" /\ inserter[plan[b]] # b => result[b] = "built"

=============================================================================
