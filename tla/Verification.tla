---------------------------- MODULE Verification ----------------------------
(***************************************************************************)
(* What becomes of a plan after its build: the labels of the image, the    *)
(* catalog record, the snapshots of its inputs (domain/snapshots.py), the  *)
(* drift check of the next ensure (domain/drift.py) and the recomputation  *)
(* of the fingerprint by verify (domain/verify.py).                        *)
(*                                                                         *)
(* An image and a record go by the fingerprint, which the tag is made of.  *)
(* The digest of a base image is part of the image here; the hash of the   *)
(* template is never handed to the resolver and empty everywhere.          *)
(***************************************************************************)
EXTENDS Planner

\* The schema versions among the labels of a plan: of the stack, the profile
\* and the newest layer.
SchemaLabels(p, s) ==
    [stack   |-> s.schema,
     profile |-> p.schema,
     layers  |-> IF Layers(s) = {} THEN 1 ELSE Max({l.schema : l \in Layers(s)})]

\* resolve, step 6.
Labels(p, s, fingerprint) ==
    [fingerprint |-> fingerprint, schemas |-> SchemaLabels(p, s)]

\* _make_record: of the labels of the plan, when its build begins.
Record(labels, base) == [base |-> base, schemas |-> labels.schemas]

\* write_snapshot_files, as execute_plan calls it: with the profile and the
\* stack that were given to the resolver.
Snapshot(p, recipe) == [profile |-> p, stack |-> MergedStack(recipe)]

-----------------------------------------------------------------------------
\* Mutant of Drift: only the fingerprint is compared.
DriftOfFingerprint(labels, record, expected) ==
    IF labels.fingerprint # expected.fingerprint THEN {"fingerprint"} ELSE {}

\* detect_drift: the image and the catalog record against the plan.
Drift(labels, record, expected) ==
    {k \in DOMAIN expected.schemas :
        \/ labels.schemas[k] # expected.schemas[k]
        \/ record.schemas[k] # expected.schemas[k]}
    \union IF labels.fingerprint # expected.fingerprint THEN {"fingerprint"} ELSE {}

\* verify_artifact of a built artifact whose image is there: the fingerprint
\* of the snapshots is compared with the label and with the catalog's; when
\* the snapshots could not be written that is a warning.
VerifyErrors(fingerprint, labels, record, snapshot) ==
    LET recomputed == Fingerprint(snapshot.profile, snapshot.stack, record.base)
    IN  (IF labels.fingerprint # fingerprint THEN {"mismatch"} ELSE {})
        \union (IF snapshot # Nothing /\ ~(recomputed = labels.fingerprint /\ recomputed = fingerprint)
                THEN {"diverged"} ELSE {})
=============================================================================
