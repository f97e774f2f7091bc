------------------------ MODULE EnsurePipelineProofs ------------------------
(***************************************************************************)
(* Proofs about EnsurePipeline, for any number of invocations, plans and   *)
(* variants and any choice of operators.                                   *)
(***************************************************************************)
EXTENDS EnsurePipeline, TLAPS

\* Every plan has a variant.
LEMMA VariantKnown == \A f \in Plans : VariantOf[f] \in Variants
  BY DEF Variants

\* The parts of TypeOK that most actions disturb, stated for the helpers.
LEMMA GotoType ==
  ASSUME TypeOK, NEW b \in Builds, NEW l \in States, Goto(b, l)
  PROVE  pc' \in [Builds -> States]
  BY DEF TypeOK, Goto

\* The types of a released lock ...
LEMMA ReleaseType ==
  ASSUME TypeOK, NEW b \in Builds, ReleaseLock(b)
  PROVE  lock' \in [Variants -> Builds \union {NoBuild}]
  BY DEF TypeOK, ReleaseLock

\* ... and of an updated row.
LEMMA UpdateType ==
  ASSUME TypeOK, NEW f \in Plans, NEW id, NEW s \in ArtifactStatuses, UpdateArtifact(f, id, s)
  PROVE  /\ artifact' \in [Plans -> ArtifactStatuses \union {"none"}]
         /\ inserter' \in [Plans -> Builds \union {NoBuild}]
<1>1. /\ artifact \in [Plans -> ArtifactStatuses \union {"none"}]
      /\ inserter \in [Plans -> Builds \union {NoBuild}]
  BY DEF TypeOK
<1> QED BY <1>1 DEF UpdateArtifact

\* prune deletes rows and leaves the others as they are.
LEMMA PruneRowsStep ==
  ASSUME PruneRows
  PROVE  /\ artifact' = [f \in Plans |-> artifact'[f]]
         /\ inserter' = [f \in Plans |-> inserter'[f]]
         /\ \A f \in Plans : \/ artifact'[f] = artifact[f] /\ inserter'[f] = inserter[f]
                             \/ artifact'[f] = "none" /\ inserter'[f] = NoBuild
<1> DEFINE dead == IF doomed.status = "built" THEN {f \in Plans : <<f, inserter[f]>> \in doomed.gone}
                   ELSE {f \in Plans : artifact[f] = doomed.status}
<1>1. /\ artifact' = [f \in Plans |-> IF f \in dead THEN "none" ELSE artifact[f]]
      /\ inserter' = [f \in Plans |-> IF f \in dead THEN NoBuild ELSE inserter[f]]
  BY DEF PruneRows
<1> HIDE DEF dead
<1> QED BY <1>1

\* An operator command never adds a row: each row stays, is marked stale or goes.
LEMMA OperatorStep ==
  ASSUME TypeOK, Operator
  PROVE  /\ plan' = plan /\ pc' = pc
         /\ \A f \in Plans : \/ artifact'[f] = artifact[f] /\ inserter'[f] = inserter[f]
                             \/ artifact[f] # "none" /\ artifact'[f] = "stale" /\ inserter'[f] = inserter[f]
                             \/ artifact'[f] = "none" /\ inserter'[f] = NoBuild
<1>1. plan' = plan /\ pc' = pc
  BY DEF Operator, ManualMarkStale, ManualDelete, VerifyArtifact, ApplyFix, DockerChange,
     PruneList, PruneImage, PruneRows, buildVars
<1>2. CASE PruneRows
  BY <1>1, <1>2, PruneRowsStep
<1>3. CASE Operator /\ ~PruneRows
  BY <1>1, <1>3 DEF Operator, ManualMarkStale, ManualDelete, VerifyArtifact, ApplyFix, DockerChange,
     PruneList, PruneImage, StaleMarked, DeleteArtifact, TypeOK, catalogVars
<1> QED BY <1>2, <1>3

\* Every reachable state of the pipeline has the types TypeOK gives it.
THEOREM TypeCorrect == Spec => []TypeOK
<1>1. Init => TypeOK
  BY DEF Init, NoPrune, TypeOK, States, Images, ArtifactStatuses
<1>2. ASSUME TypeOK, [Next]_vars PROVE TypeOK'
  <2> USE <1>2
  <2> DEFINE Names == {"idle", "prelude", "lock", "locked", "check", "checkRow", "markDrift",
                       "preMark", "mark", "prune", "insert", "preBuild", "build", "record",
                       "postBuild", "capture", "returned", "drift", "error", "canceled", "crashed"}
  <2>0. Names \subseteq States
    BY DEF States, Steps, Polls, Ended
  <2> USE DEF operatorVars
  <2>1. ASSUME NEW b \in Builds, Begin(b) \/ Refuse(b) \/ LockTimeout(b) PROVE TypeOK'
    BY <2>0, <2>1, GotoType DEF Begin, Refuse, LockTimeout, TypeOK, catalogVars
  <2>2. ASSUME NEW b \in Builds, AcquireLock(b) PROVE TypeOK'
    BY <2>0, <2>2, GotoType, VariantKnown DEF AcquireLock, TypeOK, catalogVars
  <2>3. ASSUME NEW b \in Builds, PollCancel(b) PROVE TypeOK'
    <3>1. AfterPoll(b) \in States
      BY <2>0, <2>3 DEF PollCancel, AfterPoll, Polls
    <3>2. plan[b] \in Plans /\ "failed" \in ArtifactStatuses
      BY DEF TypeOK, ArtifactStatuses
    <3>3. CASE cancel[b]
      BY <2>0, <2>3, <3>2, <3>3, GotoType, ReleaseType, UpdateType
         DEF PollCancel, End, UpdateOwn, TypeOK, catalogVars
    <3>4. CASE ~cancel[b]
      BY <2>3, <3>1, <3>4, GotoType DEF PollCancel, TypeOK, catalogVars
    <3> QED BY <3>3, <3>4
  <2>4. ASSUME NEW b \in Builds, CheckImage(b) PROVE TypeOK'
    BY <2>0, <2>4, GotoType DEF CheckImage, TypeOK, catalogVars
  <2>5. ASSUME NEW b \in Builds, CheckRow(b) PROVE TypeOK'
    <3>1. plan[b] \in Plans
      BY DEF TypeOK
    <3>2. pc' \in [Builds -> States] /\ lock' \in [Variants -> Builds \union {NoBuild}]
      BY <2>0, <2>5, GotoType, ReleaseType DEF CheckRow, End, TypeOK
    <3>3. /\ result' \in [Builds -> ArtifactStatuses \union {"none"}]
          /\ recId' \in [Builds -> Builds \union {NoBuild}]
      BY <2>5, <3>1 DEF CheckRow, TypeOK
    <3> QED BY <2>5, <3>2, <3>3 DEF CheckRow, TypeOK, catalogVars
  <2>6. ASSUME NEW b \in Builds, MarkDrift(b) PROVE TypeOK'
    <3>1. plan[b] \in Plans /\ "stale" \in ArtifactStatuses
      BY DEF TypeOK, ArtifactStatuses
    <3> QED BY <2>0, <2>6, <3>1, GotoType, UpdateType DEF MarkDrift, TypeOK
  <2>7. ASSUME NEW b \in Builds, MarkStale(b) PROVE TypeOK'
    BY <2>0, <2>7, GotoType DEF MarkStale, StaleMarked, TypeOK, ArtifactStatuses
  <2>8. ASSUME NEW b \in Builds, PruneExisting(b) PROVE TypeOK'
    BY <2>0, <2>8, GotoType DEF PruneExisting, DeleteArtifact, TypeOK
  <2>9. ASSUME NEW b \in Builds, InsertBuilding(b) PROVE TypeOK'
    <3>1. pc' \in [Builds -> States] /\ lock' \in [Variants -> Builds \union {NoBuild}]
      BY <2>0, <2>9, GotoType, ReleaseType DEF InsertBuilding, End, TypeOK
    <3> QED BY <2>9, <3>1 DEF InsertBuilding, TypeOK, ArtifactStatuses, catalogVars
  <2>10. ASSUME NEW b \in Builds, BuildImage(b) PROVE TypeOK'
    BY <2>0, <2>10, GotoType DEF BuildImage, TypeOK, Images, catalogVars
  <2>11. ASSUME NEW b \in Builds, BuildFails(b) PROVE TypeOK'
    <3>1. plan[b] \in Plans /\ "failed" \in ArtifactStatuses
      BY DEF TypeOK, ArtifactStatuses
    <3> QED BY <2>0, <2>11, <3>1, GotoType, ReleaseType, UpdateType
            DEF BuildFails, End, UpdateOwn, TypeOK
  <2>12. ASSUME NEW b \in Builds, RecordBuilt(b) \/ Capture(b) PROVE TypeOK'
    <3>1. plan[b] \in Plans /\ "built" \in ArtifactStatuses
      BY DEF TypeOK, ArtifactStatuses
    <3>2. CASE RecordBuilt(b)
      BY <2>0, <3>1, <3>2, GotoType, UpdateType DEF RecordBuilt, UpdateOwn, TypeOK
    <3>3. CASE Capture(b)
      BY <3>1, <3>3, UpdateType DEF Capture, UpdateOwn, TypeOK, buildVars
    <3> QED BY <2>12, <3>2, <3>3
  <2>13. ASSUME NEW b \in Builds, NEW s \in {"built", "failed"}, RunHooks(b, s) PROVE TypeOK'
    <3>1. plan[b] \in Plans /\ s \in ArtifactStatuses /\ "failed" \in ArtifactStatuses
      BY DEF TypeOK, ArtifactStatuses
    <3>2. /\ artifact' \in [Plans -> ArtifactStatuses \union {"none"}]
          /\ inserter' \in [Plans -> Builds \union {NoBuild}]
      BY <2>13, <3>1, UpdateType DEF RunHooks, UpdateOwn, TypeOK, catalogVars
    <3>3. result' \in [Builds -> ArtifactStatuses \union {"none"}]
      BY <2>13, <3>1 DEF RunHooks, TypeOK
    <3> QED BY <2>0, <2>13, <3>2, <3>3, GotoType, ReleaseType DEF RunHooks, End, TypeOK
  <2>14. ASSUME NEW b \in Builds, CatalogBusy(b) \/ Crash(b) PROVE TypeOK'
    BY <2>0, <2>14, GotoType, ReleaseType DEF CatalogBusy, Crash, End, TypeOK, catalogVars
  <2>15. ASSUME NEW b \in Builds, RequestCancel(b) PROVE TypeOK'
    BY <2>15 DEF RequestCancel, TypeOK, catalogVars
  <2>16. CASE Operator
    <3>1. ASSUME NEW s \in {"stale", "failed", "built"}, NEW p \in SUBSET Plans, PruneList(s, p)
          PROVE  TypeOK'
      <4>1. \A f \in Plans : <<f, inserter[f]>> \in Plans \X (Builds \union {NoBuild})
        BY DEF TypeOK
      <4>2. doomed' \in [status : ArtifactStatuses \union {"none"},
                         rows : SUBSET (Plans \X (Builds \union {NoBuild})),
                         gone : SUBSET (Plans \X (Builds \union {NoBuild}))]
        <5>1. doomed' = [status |-> s, gone |-> {},
                         rows |-> {<<f, inserter[f]>> : f \in {g \in Plans \ p : artifact[g] = s}}]
          BY <3>1 DEF PruneList, NoPrune
        <5>2. {<<f, inserter[f]>> : f \in {g \in Plans \ p : artifact[g] = s}}
                 \subseteq Plans \X (Builds \union {NoBuild})
          BY <4>1
        <5>3. s \in ArtifactStatuses
          BY DEF ArtifactStatuses
        <5> QED BY <5>1, <5>2, <5>3
      <4> QED BY <3>1, <4>2 DEF PruneList, TypeOK, buildVars, catalogVars
    <3>2. ASSUME NEW r \in doomed.rows, PruneImage(r) PROVE TypeOK'
      <4>1. r \in Plans \X (Builds \union {NoBuild})
        BY DEF TypeOK
      <4>2. doomed' \in [status : ArtifactStatuses \union {"none"},
                         rows : SUBSET (Plans \X (Builds \union {NoBuild})),
                         gone : SUBSET (Plans \X (Builds \union {NoBuild}))]
        BY <3>2, <4>1 DEF PruneImage, TypeOK
      <4>3. image' \in [Plans -> Images]
        BY <3>2, <4>1 DEF PruneImage, TypeOK, Images
      <4> QED BY <3>2, <4>2, <4>3 DEF PruneImage, TypeOK, buildVars, catalogVars
    <3>3. ASSUME PruneRows PROVE TypeOK'
      <4>1. doomed' \in [status : ArtifactStatuses \union {"none"},
                         rows : SUBSET (Plans \X (Builds \union {NoBuild})),
                         gone : SUBSET (Plans \X (Builds \union {NoBuild}))]
        BY <3>3 DEF PruneRows, NoPrune, TypeOK
      <4>2. /\ artifact' \in [Plans -> ArtifactStatuses \union {"none"}]
            /\ inserter' \in [Plans -> Builds \union {NoBuild}]
        BY <3>3, PruneRowsStep DEF TypeOK, ArtifactStatuses
      <4> QED BY <3>3, <4>1, <4>2 DEF PruneRows, TypeOK, buildVars, catalogVars
    <3>4. CASE ManualMarkStale \/ \E f \in Plans : \/ ManualDelete(f) \/ VerifyArtifact(f) \/ ApplyFix(f)
                                                   \/ \E i \in {"none", "drifted"} : DockerChange(f, i)
      BY <3>4 DEF ManualMarkStale, ManualDelete, VerifyArtifact, ApplyFix, DockerChange,
         StaleMarked, DeleteArtifact, TypeOK, ArtifactStatuses, Images, buildVars, catalogVars
    <3> QED BY <2>16, <3>1, <3>2, <3>3, <3>4 DEF Operator
  <2>17. CASE UNCHANGED vars
    BY <2>17 DEF vars, buildVars, catalogVars, TypeOK
  <2> QED
    BY <2>1, <2>2, <2>3, <2>4, <2>5, <2>6, <2>7, <2>8, <2>9, <2>10, <2>11, <2>12, <2>13, <2>14,
       <2>15, <2>16, <2>17 DEF Next, Run
<1> QED BY <1>1, <1>2, PTL DEF Spec

-----------------------------------------------------------------------------
Live     == {"building", "built"}
Filling  == {"preBuild", "build", "record", "postBuild", "capture"}

\* An invocation past the lock holds the lock of its variant.
HoldsLock ==
    \A b \in Builds : pc[b] \in Locked => lock[VariantOf[plan[b]]] = b

\* A row belongs to the plan of the invocation that inserted it, which is
\* past its insert.
OwnRow ==
    \A f \in Plans, b \in Builds :
        inserter[f] = b => plan[b] = f /\ pc[b] \in Filling \union Ended

\* From mark_stale to the end of its build, an invocation's row is the only
\* one of its variant that may be live.
Retired ==
    \A b \in Builds : pc[b] \in {"prune", "insert"} \union Filling =>
        \A f \in Plans : VariantOf[f] = VariantOf[plan[b]] /\ f # plan[b] => artifact[f] \notin Live

PipelineInv ==
    /\ TypeOK
    /\ HoldsLock
    /\ OwnRow
    /\ Retired
    /\ InsertNeverCollides
    /\ OneLiveRowPerVariant
    /\ CanceledLeavesNoBuilt

\* The step lemmas below split Next the same way: the steps that only move
\* one invocation, the steps that end one, and the others one by one.
USE PipelineAssumption DEF PipelineAssumption

\* An invocation that goes on under the lock keeps it.
LEMMA MoveKeepsLock ==
  ASSUME TypeOK, HoldsLock, NEW b \in Builds, NEW l, Goto(b, l), pc[b] \in Locked,
         UNCHANGED <<plan, lock>>
  PROVE  HoldsLock'
  BY DEF TypeOK, HoldsLock, Goto

\* One that ends gives it back.
LEMMA EndKeepsLock ==
  ASSUME TypeOK, HoldsLock, NEW b \in Builds, NEW l \in Ended, End(b, l), UNCHANGED plan
  PROVE  HoldsLock'
  <1>1. l \notin Locked
    BY DEF Locked, Steps, Polls, Ended
  <1>2. ASSUME NEW c \in Builds, pc'[c] \in Locked PROVE lock'[VariantOf[plan'[c]]] = c
    <2>1. c # b /\ pc[c] \in Locked /\ plan[c] \in Plans
      BY <1>1, <1>2 DEF End, Goto, TypeOK
    <2> QED BY <2>1, VariantKnown DEF End, ReleaseLock, HoldsLock, TypeOK
  <1> QED BY <1>2 DEF HoldsLock

\* Every step keeps locks and positions together.
LEMMA LockStep ==
  ASSUME TypeOK, HoldsLock, [Next]_vars
  PROVE  HoldsLock'
<1> USE DEF Locked, Steps, Polls
<1>1. ASSUME NEW b \in Builds, Begin(b) PROVE HoldsLock'
  BY <1>1 DEF Begin, Goto, HoldsLock, TypeOK
<1>2. ASSUME NEW b \in Builds, Refuse(b) \/ LockTimeout(b) PROVE HoldsLock'
  BY <1>2 DEF Refuse, LockTimeout, Goto, HoldsLock, TypeOK
<1>3. ASSUME NEW b \in Builds, AcquireLock(b) PROVE HoldsLock'
  <2>1. ASSUME NEW c \in Builds, pc'[c] \in Locked PROVE lock'[VariantOf[plan'[c]]] = c
    <3>1. plan[c] \in Plans /\ plan[b] \in Plans
      BY DEF TypeOK
    <3>2. CASE c = b
      BY <1>3, <3>1, <3>2, VariantKnown DEF AcquireLock, TypeOK
    <3>3. CASE c # b
      <4>1. pc[c] \in Locked /\ lock[VariantOf[plan[c]]] = c
        BY <1>3, <2>1, <3>3 DEF AcquireLock, Goto, HoldsLock, TypeOK
      <4> QED BY <1>3, <3>1, <4>1, VariantKnown DEF AcquireLock, TypeOK
    <3> QED BY <3>2, <3>3
  <2> QED BY <2>1 DEF HoldsLock
<1>4. ASSUME NEW b \in Builds, PollCancel(b) PROVE HoldsLock'
  <2>1. CASE cancel[b]
    BY <1>4, <2>1, EndKeepsLock DEF PollCancel, Ended
  <2>2. CASE ~cancel[b] /\ pc[b] = "prelude"
    <3>1. AfterPoll(b) = "lock"
      BY <2>2 DEF AfterPoll
    <3> QED BY <1>4, <2>2, <3>1 DEF PollCancel, Goto, HoldsLock, TypeOK
  <2>3. CASE ~cancel[b] /\ pc[b] # "prelude"
    <3>1. pc[b] \in Locked
      BY <1>4, <2>3 DEF PollCancel
    <3> QED BY <1>4, <2>3, <3>1, MoveKeepsLock DEF PollCancel
  <2> QED BY <2>1, <2>2, <2>3
<1>5. ASSUME NEW b \in Builds, CheckRow(b) PROVE HoldsLock'
  <2>1. pc[b] \in Locked
    BY <1>5 DEF CheckRow
  <2>2. "returned" \in Ended /\ "drift" \in Ended
    BY DEF Ended
  <2> QED BY <1>5, <2>1, <2>2, MoveKeepsLock, EndKeepsLock DEF CheckRow
<1>6. ASSUME NEW b \in Builds,
             CheckImage(b) \/ MarkDrift(b) \/ MarkStale(b) \/ PruneExisting(b) \/ BuildImage(b)
               \/ RecordBuilt(b)
      PROVE HoldsLock'
  <2>1. pc[b] \in Locked
    BY <1>6 DEF CheckImage, MarkDrift, MarkStale, PruneExisting, BuildImage, RecordBuilt
  <2> QED BY <1>6, <2>1, MoveKeepsLock
          DEF CheckImage, MarkDrift, MarkStale, PruneExisting, BuildImage, RecordBuilt
<1>7. ASSUME NEW b \in Builds, InsertBuilding(b) PROVE HoldsLock'
  <2>1. pc[b] \in Locked /\ "error" \in Ended
    BY <1>7 DEF InsertBuilding, Ended
  <2> QED BY <1>7, <2>1, MoveKeepsLock, EndKeepsLock DEF InsertBuilding
<1>8. ASSUME NEW b \in Builds,
             \/ BuildFails(b) \/ CatalogBusy(b) \/ Crash(b)
             \/ \E s \in {"built", "failed"} : RunHooks(b, s)
      PROVE HoldsLock'
  <2>1. {"error", "crashed", "returned"} \subseteq Ended
    BY DEF Ended
  <2> QED BY <1>8, <2>1, EndKeepsLock DEF BuildFails, CatalogBusy, Crash, RunHooks
<1>9. ASSUME UNCHANGED <<pc, plan, lock>> PROVE HoldsLock'
  BY <1>9 DEF HoldsLock
<1>10. ASSUME NEW b \in Builds, Capture(b) \/ RequestCancel(b) PROVE HoldsLock'
  BY <1>9, <1>10 DEF Capture, RequestCancel, buildVars
<1>11. CASE Operator
  BY <1>9, <1>11 DEF Operator, ManualMarkStale, ManualDelete, VerifyArtifact, ApplyFix,
     DockerChange,
         PruneList, PruneImage, PruneRows, buildVars
<1>12. CASE UNCHANGED vars
  BY <1>9, <1>12 DEF vars, buildVars
<1> QED
  BY <1>1, <1>2, <1>3, <1>4, <1>5, <1>6, <1>7, <1>8, <1>10, <1>11, <1>12 DEF Next, Run

-----------------------------------------------------------------------------
\* The row half of PipelineInv.
RowInv == OwnRow /\ Retired /\ InsertNeverCollides /\ OneLiveRowPerVariant /\ CanceledLeavesNoBuilt

\* Two invocations past the lock never share a variant.
LEMMA LockedApart ==
  ASSUME TypeOK, HoldsLock, NEW b \in Builds, NEW c \in Builds, b # c,
         pc[b] \in Locked, pc[c] \in Locked
  PROVE  VariantOf[plan[b]] # VariantOf[plan[c]] /\ plan[b] # plan[c]
  BY DEF HoldsLock, TypeOK

\* All steps but three keep, retire or delete rows and never make one live.
LEMMA RetiringStep ==
  ASSUME TypeOK, RowInv, plan' = plan,
         \A f \in Plans :
             artifact'[f] = artifact[f] \/ (artifact[f] # "none" /\ artifact'[f] \in {"failed", "stale"})
                \/ artifact'[f] = "none",
         \A f \in Plans : inserter'[f] \in {inserter[f], NoBuild},
         \A c \in Builds :
           /\ pc[c] \in Filling \union Ended => pc'[c] \in Filling \union Ended
           /\ pc'[c] \in {"prune", "insert"} \union Filling =>
                 \/ pc[c] \in {"prune", "insert"} \union Filling
                 \/ \A f \in Plans : artifact'[f] \notin Live
           /\ pc'[c] = "insert" => pc[c] = "insert" \/ artifact'[plan[c]] = "none"
           /\ pc'[c] = "canceled" /\ inserter'[plan[c]] = c =>
                 pc[c] = "canceled" \/ artifact'[plan[c]] # "built"
  PROVE  RowInv'
<1> USE DEF RowInv
<1>0. \A f \in Plans : artifact'[f] \in Live => artifact'[f] = artifact[f]
  BY DEF Live
<1>1. OwnRow'
  BY DEF OwnRow
<1>2. Retired'
  BY <1>0 DEF Retired
<1>3. InsertNeverCollides'
  BY DEF InsertNeverCollides, TypeOK
<1>4. OneLiveRowPerVariant'
  <2> SUFFICES ASSUME NEW f \in Plans, NEW g \in Plans, VariantOf[f] = VariantOf[g],
                      artifact'[f] \in Live, artifact'[g] \in Live
               PROVE  f = g
    BY DEF OneLiveRowPerVariant, Live
  <2> QED BY <1>0 DEF OneLiveRowPerVariant, Live
<1>5. CanceledLeavesNoBuilt'
  <2> SUFFICES ASSUME NEW c \in Builds, pc'[c] = "canceled", inserter'[plan[c]] = c
               PROVE  artifact'[plan[c]] # "built"
    BY DEF CanceledLeavesNoBuilt
  <2>1. plan[c] \in Plans
    BY DEF TypeOK
  <2> QED BY <2>1 DEF CanceledLeavesNoBuilt
<1> QED BY <1>1, <1>2, <1>3, <1>4, <1>5

\* An invocation that fills its row writes "built" into it, or into nothing.
LEMMA BuiltStep ==
  ASSUME TypeOK, HoldsLock, RowInv, plan' = plan,
         NEW b \in Builds, pc[b] \in Filling, pc'[b] \in Filling,
         \A c \in Builds : c # b => pc'[c] = pc[c], UpdateOwn(b, "built")
  PROVE  RowInv'
<1> USE DEF RowInv
<1>0. /\ plan[b] \in Plans /\ inserter' = inserter
      /\ \A f \in Plans : f # plan[b] => artifact'[f] = artifact[f]
      /\ \/ artifact' = artifact
         \/ inserter[plan[b]] = b /\ artifact[plan[b]] # "none"
      /\ pc[b] \in Locked
  BY DEF UpdateOwn, UpdateArtifact, TypeOK, Filling, Locked, Steps, Polls
<1>1. OwnRow'
  BY <1>0 DEF OwnRow
<1>2. Retired'
  <2> SUFFICES ASSUME NEW c \in Builds, pc'[c] \in {"prune", "insert"} \union Filling,
                      NEW f \in Plans, VariantOf[f] = VariantOf[plan[c]], f # plan[c]
               PROVE  artifact'[f] \notin Live
    BY DEF Retired
  <2>1. pc[c] \in {"prune", "insert"} \union Filling
    OBVIOUS
  <2>2. pc[c] \in Locked
    BY <2>1 DEF Filling, Locked, Steps, Polls
  <2>3. f # plan[b]
    BY <1>0, <2>2, LockedApart
  <2> QED BY <1>0, <2>1, <2>3 DEF Retired
<1>3. InsertNeverCollides'
  <2> SUFFICES ASSUME NEW c \in Builds, pc'[c] = "insert" PROVE artifact'[plan[c]] = "none"
    BY DEF InsertNeverCollides
  <2>1. pc[c] = "insert" /\ artifact[plan[c]] = "none" /\ plan[c] \in Plans
    BY DEF InsertNeverCollides, Filling, TypeOK
  <2> QED BY <1>0, <2>1
<1>4. OneLiveRowPerVariant'
  <2> SUFFICES ASSUME NEW f \in Plans, NEW g \in Plans, VariantOf[f] = VariantOf[g],
                      artifact'[f] \in Live, artifact'[g] \in Live, f # g
               PROVE  FALSE
    BY DEF OneLiveRowPerVariant, Live
  <2>1. CASE f # plan[b] /\ g # plan[b]
    BY <1>0, <2>1 DEF OneLiveRowPerVariant, Live
  <2>2. CASE f = plan[b] \/ g = plan[b]
    BY <1>0, <2>2 DEF Retired
  <2> QED BY <2>1, <2>2
<1>5. CanceledLeavesNoBuilt'
  <2> SUFFICES ASSUME NEW c \in Builds, pc'[c] = "canceled", inserter'[plan[c]] = c
               PROVE  artifact'[plan[c]] # "built"
    BY DEF CanceledLeavesNoBuilt
  <2>1. c # b /\ pc[c] = "canceled" /\ plan[c] \in Plans
    BY DEF Filling, TypeOK
  <2> QED BY <1>0, <2>1 DEF CanceledLeavesNoBuilt
<1> QED BY <1>1, <1>2, <1>3, <1>4, <1>5

\* A row is inserted where there was none.
LEMMA InsertStep ==
  ASSUME TypeOK, HoldsLock, RowInv, NEW b \in Builds, InsertBuilding(b), artifact[plan[b]] = "none"
  PROVE  RowInv'
<1> USE DEF RowInv
<1>0. /\ plan' = plan /\ plan[b] \in Plans /\ pc[b] = "insert" /\ pc'[b] = "preBuild"
      /\ \A c \in Builds : c # b => pc'[c] = pc[c]
      /\ \A f \in Plans : f # plan[b] => artifact'[f] = artifact[f] /\ inserter'[f] = inserter[f]
      /\ artifact'[plan[b]] = "building" /\ inserter'[plan[b]] = b
  BY DEF InsertBuilding, Goto, TypeOK
<1>1. OwnRow'
  <2> SUFFICES ASSUME NEW f \in Plans, NEW c \in Builds, inserter'[f] = c
               PROVE  plan[c] = f /\ pc'[c] \in Filling \union Ended
    BY <1>0 DEF OwnRow
  <2>1. CASE f = plan[b]
    BY <1>0, <2>1 DEF Filling
  <2>2. CASE f # plan[b]
    BY <1>0, <2>2 DEF OwnRow, Filling
  <2> QED BY <2>1, <2>2
<1>2. ASSUME NEW c \in Builds, c # b, pc'[c] \in {"prune", "insert"} \union Filling
      PROVE  VariantOf[plan[c]] # VariantOf[plan[b]]
  <2>1. pc[c] \in Locked /\ pc[b] \in Locked
    BY <1>0, <1>2 DEF Filling, Locked, Steps, Polls
  <2> QED BY <1>2, <2>1, LockedApart
<1>3. Retired'
  <2> SUFFICES ASSUME NEW c \in Builds, pc'[c] \in {"prune", "insert"} \union Filling,
                      NEW f \in Plans, VariantOf[f] = VariantOf[plan[c]], f # plan[c]
               PROVE  artifact'[f] \notin Live
    BY <1>0 DEF Retired
  <2>1. f # plan[b]
    BY <1>2
  <2>2. pc[c] \in {"prune", "insert"} \union Filling
    BY <1>0
  <2> QED BY <1>0, <2>1, <2>2 DEF Retired
<1>4. InsertNeverCollides'
  <2> SUFFICES ASSUME NEW c \in Builds, pc'[c] = "insert" PROVE artifact'[plan[c]] = "none"
    BY <1>0 DEF InsertNeverCollides
  <2>1. c # b
    BY <1>0
  <2>2. plan[c] # plan[b] /\ plan[c] \in Plans /\ pc[c] = "insert"
    BY <1>0, <1>2, <2>1 DEF TypeOK
  <2> QED BY <1>0, <2>2 DEF InsertNeverCollides
<1>5. OneLiveRowPerVariant'
  <2> SUFFICES ASSUME NEW f \in Plans, NEW g \in Plans, VariantOf[f] = VariantOf[g],
                      artifact'[f] \in Live, artifact'[g] \in Live, f # g
               PROVE  FALSE
    BY DEF OneLiveRowPerVariant, Live
  <2>1. CASE f # plan[b] /\ g # plan[b]
    BY <1>0, <2>1 DEF OneLiveRowPerVariant, Live
  <2>2. CASE f = plan[b] \/ g = plan[b]
    BY <1>0, <2>2 DEF Retired
  <2> QED BY <2>1, <2>2
<1>6. CanceledLeavesNoBuilt'
  <2> SUFFICES ASSUME NEW c \in Builds, pc'[c] = "canceled", inserter'[plan[c]] = c
               PROVE  artifact'[plan[c]] # "built"
    BY <1>0 DEF CanceledLeavesNoBuilt
  <2>1. c # b /\ pc[c] = "canceled" /\ plan[c] \in Plans
    BY <1>0 DEF TypeOK
  <2> QED BY <1>0, <2>1 DEF CanceledLeavesNoBuilt
<1> QED BY <1>1, <1>3, <1>4, <1>5, <1>6

\* Every step keeps what is known of rows.
LEMMA RowStep ==
  ASSUME TypeOK, HoldsLock, RowInv, [Next]_vars
  PROVE  RowInv'
<1> USE DEF Live, Filling, Ended
<1>1. ASSUME NEW b \in Builds, Begin(b) \/ Refuse(b) \/ LockTimeout(b) \/ AcquireLock(b)
                                 \/ CheckImage(b) \/ BuildImage(b) \/ CatalogBusy(b) \/ Crash(b)
      PROVE  RowInv'
  <2>1. plan' = plan /\ artifact' = artifact /\ inserter' = inserter
    BY <1>1 DEF Begin, Refuse, LockTimeout, AcquireLock, CheckImage, BuildImage, CatalogBusy, Crash,
       catalogVars
  <2>2. /\ \A c \in Builds : c # b => pc'[c] = pc[c]
        /\ \/ pc[b] \notin Filling \union Ended /\ pc'[b] \notin {"prune", "insert", "canceled"} \union Filling
           \/ pc'[b] \in {"error", "crashed"}
           \/ pc[b] = "build" /\ pc'[b] = "record"
    BY <1>1 DEF Begin, Refuse, LockTimeout, AcquireLock, CheckImage, BuildImage, CatalogBusy, Crash,
       End, Goto, TypeOK, Steps, Polls
  <2> QED BY <2>1, <2>2, RetiringStep
<1>2. ASSUME NEW b \in Builds, PollCancel(b) PROVE RowInv'
  <2>1. plan' = plan /\ plan[b] \in Plans /\ pc[b] \in Polls /\ \A c \in Builds : c # b => pc'[c] = pc[c]
    BY <1>2 DEF PollCancel, End, Goto, TypeOK
  <2>2. CASE ~cancel[b]
    <3>1. artifact' = artifact /\ inserter' = inserter /\ pc'[b] = AfterPoll(b)
      BY <1>2, <2>2 DEF PollCancel, Goto, TypeOK, catalogVars
    <3>2. \/ pc[b] \in {"prelude", "locked", "preMark"} /\ AfterPoll(b) \in {"lock", "check", "preMark", "mark"}
          \/ pc[b] \in {"preBuild", "postBuild"} /\ AfterPoll(b) \in {"build", "capture"}
      BY <2>1 DEF AfterPoll, Polls
    <3> QED BY <2>1, <3>1, <3>2, RetiringStep
  <2>3. CASE cancel[b] /\ pc[b] \in {"preBuild", "postBuild"}
    <3>1. pc'[b] = "canceled" /\ UpdateOwn(b, "failed")
      BY <1>2, <2>3 DEF PollCancel, End, Goto, TypeOK
    <3>2. /\ inserter' = inserter
          /\ \A f \in Plans : artifact'[f] = artifact[f]
                                \/ (artifact[f] # "none" /\ artifact'[f] = "failed")
          /\ inserter[plan[b]] = b => artifact'[plan[b]] # "built"
      BY <2>1, <3>1 DEF UpdateOwn, UpdateArtifact, TypeOK
    <3> QED BY <2>1, <2>3, <3>1, <3>2, RetiringStep
  <2>4. CASE cancel[b] /\ pc[b] \notin {"preBuild", "postBuild"}
    <3>1. pc'[b] = "canceled" /\ artifact' = artifact /\ inserter' = inserter
      BY <1>2, <2>4 DEF PollCancel, End, Goto, TypeOK, catalogVars
    <3>2. inserter[plan[b]] # b
      BY <2>1, <2>4 DEF RowInv, OwnRow, Polls
    <3> QED BY <2>1, <2>4, <3>1, <3>2, RetiringStep DEF Polls
  <2> QED BY <2>2, <2>3, <2>4
<1>3. ASSUME NEW b \in Builds, CheckRow(b) PROVE RowInv'
  <2>1. /\ plan' = plan /\ artifact' = artifact /\ inserter' = inserter
        /\ \A c \in Builds : c # b => pc'[c] = pc[c]
        /\ pc[b] = "checkRow" /\ pc'[b] \in {"returned", "drift", "markDrift", "preMark"}
    BY <1>3 DEF CheckRow, End, Goto, TypeOK, catalogVars
  <2> QED BY <2>1, RetiringStep
<1>4. ASSUME NEW b \in Builds, MarkDrift(b) PROVE RowInv'
  <2>1. /\ plan' = plan /\ inserter' = inserter /\ \A c \in Builds : c # b => pc'[c] = pc[c]
        /\ pc[b] = "markDrift" /\ pc'[b] = "preMark"
        /\ \A f \in Plans : artifact'[f] = artifact[f]
                              \/ (artifact[f] # "none" /\ artifact'[f] = "stale")
    BY <1>4 DEF MarkDrift, UpdateArtifact, Goto, TypeOK
  <2> QED BY <2>1, RetiringStep
<1>5. ASSUME NEW b \in Builds, MarkStale(b) PROVE RowInv'
  <2>1. /\ plan' = plan /\ inserter' = inserter /\ \A c \in Builds : c # b => pc'[c] = pc[c]
        /\ pc[b] = "mark" /\ pc'[b] = "prune"
        /\ \A f \in Plans : artifact'[f] \notin Live
        /\ \A f \in Plans : artifact'[f] = artifact[f]
                              \/ (artifact[f] # "none" /\ artifact'[f] = "stale")
    BY <1>5 DEF MarkStale, StaleMarked, Goto, TypeOK
  <2> QED BY <2>1, RetiringStep
<1>6. ASSUME NEW b \in Builds, PruneExisting(b) PROVE RowInv'
  <2>1. /\ plan' = plan /\ \A c \in Builds : c # b => pc'[c] = pc[c]
        /\ pc[b] = "prune" /\ pc'[b] = "insert" /\ artifact'[plan[b]] = "none"
        /\ \A f \in Plans : inserter'[f] \in {inserter[f], NoBuild}
        /\ \A f \in Plans : artifact'[f] = artifact[f] \/ artifact'[f] = "none"
    BY <1>6 DEF PruneExisting, DeleteArtifact, Goto, TypeOK
  <2> QED BY <2>1, RetiringStep
<1>7. ASSUME NEW b \in Builds, InsertBuilding(b) PROVE RowInv'
  <2>1. artifact[plan[b]] = "none"
    BY <1>7 DEF InsertBuilding, RowInv, InsertNeverCollides
  <2> QED BY <1>7, <2>1, InsertStep
<1>8. ASSUME NEW b \in Builds, BuildFails(b) PROVE RowInv'
  <2>1. /\ plan' = plan /\ inserter' = inserter /\ \A c \in Builds : c # b => pc'[c] = pc[c]
        /\ pc'[b] = "error"
        /\ \A f \in Plans : artifact'[f] = artifact[f]
                              \/ (artifact[f] # "none" /\ artifact'[f] = "failed")
    BY <1>8 DEF BuildFails, UpdateOwn, UpdateArtifact, End, Goto, TypeOK
  <2> QED BY <2>1, RetiringStep
<1>9. ASSUME NEW b \in Builds, RecordBuilt(b) \/ Capture(b) PROVE RowInv'
  <2>1. /\ plan' = plan /\ \A c \in Builds : c # b => pc'[c] = pc[c]
        /\ pc[b] \in Filling /\ pc'[b] \in Filling /\ UpdateOwn(b, "built")
    BY <1>9 DEF RecordBuilt, Capture, Goto, TypeOK, buildVars
  <2> QED BY <2>1, BuiltStep
<1>10. ASSUME NEW b \in Builds, NEW s \in {"built", "failed"}, RunHooks(b, s) PROVE RowInv'
  <2>1. /\ plan' = plan /\ inserter' = inserter /\ \A c \in Builds : c # b => pc'[c] = pc[c]
        /\ pc'[b] = "returned"
        /\ \A f \in Plans : artifact'[f] = artifact[f]
                              \/ (artifact[f] # "none" /\ artifact'[f] = "failed")
    BY <1>10 DEF RunHooks, UpdateOwn, UpdateArtifact, End, Goto, TypeOK, catalogVars
  <2> QED BY <2>1, RetiringStep
<1>11. ASSUME NEW b \in Builds, RequestCancel(b) PROVE RowInv'
  <2>1. plan' = plan /\ pc' = pc /\ artifact' = artifact /\ inserter' = inserter
    BY <1>11 DEF RequestCancel, catalogVars
  <2> QED BY <2>1, RetiringStep
<1>12. CASE Operator
  <2>1. /\ plan' = plan /\ pc' = pc
        /\ \A f \in Plans : inserter'[f] \in {inserter[f], NoBuild}
        /\ \A f \in Plans : \/ artifact'[f] = artifact[f]
                            \/ artifact[f] # "none" /\ artifact'[f] = "stale"
                            \/ artifact'[f] = "none"
    BY <1>12, OperatorStep
  <2>2. \A c \in Builds : pc[c] = "insert" => artifact[plan[c]] = "none" /\ plan[c] \in Plans
    BY DEF RowInv, InsertNeverCollides, TypeOK
  <2> QED BY <2>1, <2>2, RetiringStep
<1>13. CASE UNCHANGED vars
  BY <1>13 DEF vars, buildVars, catalogVars, RowInv, OwnRow, Retired, InsertNeverCollides,
     OneLiveRowPerVariant, CanceledLeavesNoBuilt
<1> QED
  BY <1>1, <1>2, <1>3, <1>4, <1>5, <1>6, <1>7, <1>8, <1>9, <1>10, <1>11, <1>12, <1>13 DEF Next, Run

-----------------------------------------------------------------------------
\* The inductive invariant of the pipeline holds in every reachable state.
THEOREM PipelineInvariant == Spec => []PipelineInv
<1>1. Init => HoldsLock /\ RowInv
  BY DEF Init, HoldsLock, RowInv, OwnRow, Retired, InsertNeverCollides, OneLiveRowPerVariant,
     CanceledLeavesNoBuilt, Locked, Steps, Polls, Filling, Live
<1>2. ASSUME TypeOK, HoldsLock, RowInv, [Next]_vars PROVE HoldsLock' /\ RowInv'
  BY <1>2, LockStep, RowStep
<1>3. TypeOK /\ HoldsLock /\ RowInv => PipelineInv
  BY DEF PipelineInv, RowInv
<1> QED BY <1>1, <1>2, <1>3, TypeCorrect, PTL DEF Spec

\* execute_plan's insert never meets the unique tag and fingerprint of another
\* row, whatever the number of invocations and whatever operators do meanwhile.
THEOREM InsertIsSafe == Spec => []InsertNeverCollides
  BY PipelineInvariant, PTL DEF PipelineInv

\* At most one row of a variant is ever live.
THEOREM OneLiveRow == Spec => []OneLiveRowPerVariant
  BY PipelineInvariant, PTL DEF PipelineInv

\* A canceled build never leaves a row of its own that says "built".
THEOREM CanceledNotBuilt == Spec => []CanceledLeavesNoBuilt
  BY PipelineInvariant, PTL DEF PipelineInv

-----------------------------------------------------------------------------
\* What a step may do to a row, for the two theorems that follow.  Only an
\* invocation's own insert makes a row "building" and only its own update
\* makes it "built".
Keeps(f) == artifact'[f] = artifact[f] /\ inserter'[f] = inserter[f]
Drops(f) == artifact'[f] \in {"none", "failed", "stale"}

\* While the catalog database answers, every way a build ends settles its row:
\* a row says "building" only for a build that is going on or has crashed.
THEOREM NoOrphanBuilding ==
  ASSUME "busy" \notin Operators
  PROVE  Spec => []BuildingHasBuilder
<1> DEFINE Builder(b) == pc[b] \in {"preBuild", "build", "record", "crashed"}
<1>1. Init => BuildingHasBuilder
  BY DEF Init, BuildingHasBuilder
<1>2. ASSUME TypeOK, BuildingHasBuilder, [Next]_vars PROVE BuildingHasBuilder'
  <2> USE <1>2
  <2>1. ASSUME plan' = plan,
               \A f \in Plans : Keeps(f) \/ Drops(f) \/ artifact'[f] = "built",
               \A b \in Builds : Builder(b) => Builder(b)' \/ artifact'[plan[b]] # "building"
                                                 \/ inserter'[plan[b]] # b
        PROVE BuildingHasBuilder'
    BY <2>1 DEF BuildingHasBuilder, Keeps, Drops
  <2>2. ASSUME NEW b \in Builds, Begin(b) \/ Refuse(b) \/ LockTimeout(b) \/ AcquireLock(b)
                 \/ CheckImage(b) \/ BuildImage(b) \/ CheckRow(b) \/ Crash(b) \/ RequestCancel(b)
        PROVE  BuildingHasBuilder'
    <3>1. plan' = plan /\ artifact' = artifact /\ inserter' = inserter
      BY <2>2 DEF Begin, Refuse, LockTimeout, AcquireLock, CheckImage, BuildImage, CheckRow, Crash,
         RequestCancel, catalogVars
    <3>2. \A c \in Builds : Builder(c) => Builder(c)'
      BY <2>2 DEF Begin, Refuse, LockTimeout, AcquireLock, CheckImage, BuildImage, CheckRow, Crash,
         RequestCancel, End, Goto, TypeOK
    <3> QED BY <2>1, <3>1, <3>2 DEF Keeps
  <2>3. ASSUME NEW b \in Builds, UpdateOwn(b, "failed") \/ UpdateOwn(b, "built"), plan' = plan,
               \A c \in Builds : c # b => pc'[c] = pc[c]
        PROVE  BuildingHasBuilder'
    <3>1. plan[b] \in Plans
      BY DEF TypeOK
    <3>2. \A f \in Plans : Keeps(f) \/ Drops(f) \/ artifact'[f] = "built"
      BY <2>3, <3>1 DEF UpdateOwn, UpdateArtifact, TypeOK, Keeps, Drops
    <3>3. artifact'[plan[b]] # "building" \/ inserter'[plan[b]] # b
      BY <2>3, <3>1 DEF UpdateOwn, UpdateArtifact, TypeOK
    <3> QED BY <2>1, <2>3, <3>2, <3>3
  <2>4. ASSUME NEW b \in Builds, PollCancel(b) PROVE BuildingHasBuilder'
    <3>1. plan' = plan /\ \A c \in Builds : c # b => pc'[c] = pc[c]
      BY <2>4 DEF PollCancel, End, Goto, TypeOK
    <3>2. CASE cancel[b] /\ pc[b] \in {"preBuild", "postBuild"}
      BY <2>3, <2>4, <3>1, <3>2 DEF PollCancel
    <3>3. CASE ~(cancel[b] /\ pc[b] \in {"preBuild", "postBuild"})
      <4>1. artifact' = artifact /\ inserter' = inserter
        BY <2>4, <3>3 DEF PollCancel, catalogVars
      <4>2. Builder(b) => Builder(b)'
        BY <2>4, <3>3 DEF PollCancel, AfterPoll, Polls, Goto, TypeOK
      <4> QED BY <2>1, <3>1, <4>1, <4>2 DEF Keeps
    <3> QED BY <3>2, <3>3
  <2>5. ASSUME NEW b \in Builds, MarkDrift(b) \/ MarkStale(b) \/ PruneExisting(b)
        PROVE  BuildingHasBuilder'
    <3>1. plan' = plan /\ \A c \in Builds : Builder(c) => Builder(c)'
      BY <2>5 DEF MarkDrift, MarkStale, PruneExisting, Goto, TypeOK
    <3>2. \A f \in Plans : Keeps(f) \/ Drops(f)
      BY <2>5 DEF MarkDrift, MarkStale, PruneExisting, UpdateArtifact, StaleMarked, DeleteArtifact,
         TypeOK, Keeps, Drops
    <3> QED BY <2>1, <3>1, <3>2
  <2>6. ASSUME NEW b \in Builds, InsertBuilding(b) PROVE BuildingHasBuilder'
    <3>1. plan[b] \in Plans /\ plan' = plan /\ \A c \in Builds : Builder(c) => Builder(c)'
      BY <2>6 DEF InsertBuilding, End, Goto, TypeOK
    <3>2. CASE artifact[plan[b]] = "none"
      <4>1. /\ Builder(b)' /\ inserter'[plan[b]] = b
            /\ \A f \in Plans : f # plan[b] => Keeps(f)
        BY <2>6, <3>1, <3>2 DEF InsertBuilding, Goto, TypeOK, Keeps
      <4> QED BY <3>1, <4>1 DEF BuildingHasBuilder, Keeps
    <3>3. CASE artifact[plan[b]] # "none"
      BY <2>1, <2>6, <3>1, <3>3 DEF InsertBuilding, catalogVars, Keeps
    <3> QED BY <3>2, <3>3
  <2>7. ASSUME NEW b \in Builds, BuildFails(b) \/ RecordBuilt(b) \/ Capture(b) PROVE BuildingHasBuilder'
    <3>1. plan' = plan /\ \A c \in Builds : c # b => pc'[c] = pc[c]
      BY <2>7 DEF BuildFails, RecordBuilt, Capture, End, Goto, TypeOK, buildVars
    <3> QED BY <2>3, <2>7, <3>1 DEF BuildFails, RecordBuilt, Capture
  <2>8. ASSUME NEW b \in Builds, NEW s \in {"built", "failed"}, RunHooks(b, s) PROVE BuildingHasBuilder'
    <3>1. plan' = plan /\ \A c \in Builds : c # b => pc'[c] = pc[c]
      BY <2>8 DEF RunHooks, End, Goto, TypeOK
    <3>2. CASE s = "failed"
      BY <2>3, <2>8, <3>1, <3>2 DEF RunHooks
    <3>3. CASE s # "failed"
      BY <2>1, <2>8, <3>1, <3>3 DEF RunHooks, catalogVars, Keeps
    <3> QED BY <3>2, <3>3
  <2>9. CASE Operator
    <3>1. plan' = plan /\ pc' = pc
      BY <2>9, OperatorStep
    <3>2. \A f \in Plans : Keeps(f) \/ Drops(f)
      BY <2>9, OperatorStep DEF Keeps, Drops
    <3> QED BY <2>1, <3>1, <3>2
  <2>10. CASE UNCHANGED vars
    BY <2>10 DEF vars, buildVars, catalogVars, BuildingHasBuilder
  <2>11. \A b \in Builds : ~CatalogBusy(b)
    BY DEF CatalogBusy
  <2> QED
    BY <2>2, <2>4, <2>5, <2>6, <2>7, <2>8, <2>9, <2>10, <2>11 DEF Next, Run
<1> QED BY <1>1, <1>2, TypeCorrect, PTL DEF Spec

\* An invocation whose builder has finished has its image loaded.
ImageReady ==
    \A b \in Builds : pc[b] \in {"record", "postBuild", "capture"} => image[plan[b]] = "fresh"

\* As long as nobody changes the images, a row that says "built" has the image
\* its build loaded, however builds, cancels, crashes and operators interleave.
THEOREM BuiltIsLoaded ==
  ASSUME Operators \cap {"docker", "prune"} = {}
  PROVE  Spec => []BuiltHasImage
<1> DEFINE Inv == ImageReady /\ BuiltHasImage
<1>1. Init => Inv
  BY DEF Init, ImageReady, BuiltHasImage
<1>2. ASSUME TypeOK, Inv, [Next]_vars PROVE Inv'
  <2> USE <1>2
  <2>1. /\ plan' = plan
        /\ \A f \in Plans : image'[f] = image[f] \/ image'[f] = "fresh"
    <3>1. ASSUME NEW b \in Builds, Begin(b) \/ Run(b) \/ Capture(b) \/ CatalogBusy(b)
                                     \/ RequestCancel(b) \/ Crash(b)
          PROVE plan' = plan /\ \A f \in Plans : image'[f] = image[f] \/ image'[f] = "fresh"
      BY <3>1 DEF Begin, Run, Capture, CatalogBusy, RequestCancel, Crash, Refuse, AcquireLock,
         LockTimeout, PollCancel, CheckImage, CheckRow, MarkDrift, MarkStale, PruneExisting,
         InsertBuilding, BuildImage, BuildFails, RecordBuilt, RunHooks, buildVars, TypeOK
    <3>2. CASE Operator
      BY <3>2 DEF Operator, ManualMarkStale, ManualDelete, VerifyArtifact, ApplyFix, DockerChange,
         PruneList, PruneImage, PruneRows,
         buildVars
    <3>3. CASE UNCHANGED vars
      BY <3>3 DEF vars, buildVars
    <3> QED BY <3>1, <3>2, <3>3 DEF Next
  <2>2. ImageReady'
    <3>1. ASSUME NEW b \in Builds, BuildImage(b) PROVE ImageReady'
      <4>1. image'[plan[b]] = "fresh" /\ \A c \in Builds : c # b => pc'[c] = pc[c] /\ plan[c] \in Plans
        BY <3>1 DEF BuildImage, Goto, TypeOK
      <4> QED BY <2>1, <4>1 DEF ImageReady
    <3>2. ASSUME NEW b \in Builds, PollCancel(b) PROVE ImageReady'
      <4>1. \A c \in Builds : c # b => pc'[c] = pc[c]
        BY <3>2 DEF PollCancel, End, Goto, TypeOK
      <4>2. pc'[b] \in {"record", "postBuild", "capture"} => pc[b] = "postBuild"
        BY <3>2 DEF PollCancel, AfterPoll, Polls, End, Goto, TypeOK
      <4> QED BY <2>1, <4>1, <4>2 DEF ImageReady, TypeOK
    <3>3. ASSUME \A c \in Builds : pc'[c] \in {"record", "postBuild", "capture"} =>
                                      pc[c] \in {"record", "postBuild", "capture"}
          PROVE  ImageReady'
      BY <2>1, <3>3 DEF ImageReady, TypeOK
    <3>4. ASSUME NEW b \in Builds, Begin(b) \/ Refuse(b) \/ AcquireLock(b) \/ LockTimeout(b)
                   \/ CheckImage(b) \/ CheckRow(b) \/ MarkDrift(b) \/ MarkStale(b)
                   \/ PruneExisting(b) \/ InsertBuilding(b)
          PROVE ImageReady'
      BY <3>3, <3>4 DEF Begin, Refuse, AcquireLock, LockTimeout, CheckImage, CheckRow, MarkDrift,
         MarkStale, PruneExisting, InsertBuilding, End, Goto, TypeOK
    <3>5. ASSUME NEW b \in Builds, BuildFails(b) \/ RecordBuilt(b) \/ Capture(b) \/ CatalogBusy(b)
                   \/ RequestCancel(b) \/ Crash(b) \/ \E s \in {"built", "failed"} : RunHooks(b, s)
          PROVE ImageReady'
      BY <3>3, <3>5 DEF BuildFails, RecordBuilt, Capture, CatalogBusy, RequestCancel, Crash,
         RunHooks, End, Goto, TypeOK, buildVars
    <3>6. CASE Operator \/ UNCHANGED vars
      BY <3>3, <3>6 DEF Operator, ManualMarkStale, ManualDelete, VerifyArtifact, ApplyFix,
         DockerChange,
         PruneList, PruneImage, PruneRows, vars, buildVars
    <3> QED BY <3>1, <3>2, <3>4, <3>5, <3>6 DEF Next, Run
  <2>3. BuiltHasImage'
    <3>1. ASSUME \A f \in Plans : artifact'[f] = "built" =>
                    artifact[f] = "built" \/ \E b \in Builds : plan[b] = f /\ pc[b] \in {"record", "capture"}
          PROVE  BuiltHasImage'
      BY <2>1, <3>1 DEF ImageReady, BuiltHasImage
    <3>2. ASSUME NEW b \in Builds, RecordBuilt(b) \/ Capture(b) PROVE BuiltHasImage'
      BY <3>1, <3>2 DEF RecordBuilt, Capture, UpdateOwn, UpdateArtifact, TypeOK
    <3>3. ASSUME NEW b \in Builds, Begin(b) \/ Refuse(b) \/ AcquireLock(b) \/ LockTimeout(b)
                   \/ CheckImage(b) \/ CheckRow(b) \/ BuildImage(b) \/ CatalogBusy(b)
                   \/ RequestCancel(b) \/ Crash(b)
          PROVE BuiltHasImage'
      BY <3>1, <3>3 DEF Begin, Refuse, AcquireLock, LockTimeout, CheckImage, CheckRow, BuildImage,
         CatalogBusy, RequestCancel, Crash, catalogVars
    <3>4. ASSUME NEW b \in Builds, PollCancel(b) \/ MarkDrift(b) \/ MarkStale(b) \/ PruneExisting(b)
                   \/ InsertBuilding(b) \/ BuildFails(b) \/ \E s \in {"built", "failed"} : RunHooks(b, s)
          PROVE BuiltHasImage'
      BY <3>1, <3>4 DEF PollCancel, MarkDrift, MarkStale, PruneExisting, InsertBuilding, BuildFails,
         RunHooks, UpdateOwn, UpdateArtifact, StaleMarked, DeleteArtifact, catalogVars, TypeOK
    <3>5. CASE Operator \/ UNCHANGED vars
      BY <3>1, <3>5 DEF Operator, ManualMarkStale, ManualDelete, VerifyArtifact, ApplyFix,
         DockerChange,
         PruneList, PruneImage, PruneRows, StaleMarked, DeleteArtifact, vars, buildVars, catalogVars, TypeOK
    <3> QED BY <3>2, <3>3, <3>4, <3>5 DEF Next, Run
  <2> QED BY <2>2, <2>3
<1> QED BY <1>1, <1>2, TypeCorrect, PTL DEF Spec

=============================================================================
