------------------------------ MODULE SpecFiles ------------------------------
(***************************************************************************)
(* The specification files: profiles, stacks and layers in the roots the   *)
(* loader searches, the file of deleted profile ids that hides profiles of *)
(* every root, and the settings that choose the roots (config.py,          *)
(* application/create_flows.py, web/routes/create.py, profiles.py,         *)
(* stacks.py, layers.py and settings.py, web/util/write_yaml.py).          *)
(*                                                                         *)
(* The handlers of the server run one after another in its event loop; a   *)
(* command of the CLI is another process.  Each file access is a step of   *)
(* its own.  A document is the number of the operation that wrote it, 0    *)
(* for a shipped one; the file of deleted ids holds a set of ids.          *)
(***************************************************************************)
EXTENDS Naturals, Sequences, FiniteSets

CONSTANTS
    Procs,         \* "server" and "cli"
    Profiles, Stacks, Layers,
    Shipped,       \* <<root, id>>: the files there before anyone wrote one
    TargetOf,      \* the profile a stack is created for
    LayersOf,      \* the layers a stack is a recipe of
    MaxOps         \* bound: operations begun

ASSUME SpecAssumption ==
    \A s \in Stacks : LayersOf[s] \subseteq Layers

VARIABLES
    file,          \* each target's file: NoFile, or its document and the
                   \* processes that hold it open for writing
    temp,          \* the same for its temporary file
    config,        \* the roots that are configured, the default profile
    op,            \* the operation each process is in
    pc,            \* the step it is at
    writing,       \* what it writes, where, and what it does next
    begun,         \* operations begun so far
    promise,       \* what the last operation on an id that ended has promised
    raced          \* whether two processes have been at one file at once

specVars == <<file, temp, config, op, pc, writing, begun, promise, raced>>

Ids    == Profiles \union Stacks \union Layers
Roots  == {"overrides", "local", "bundled"}
Deleted == <<"config", "deleted_profiles">>
Targets == (Roots \X Ids) \union {Deleted}

Document(n)  == [by |-> n, ids |-> {}, torn |-> FALSE]
Hiding(s) == [by |-> 0, ids |-> s, torn |-> FALSE]
Torn     == [by |-> 0, ids |-> {}, torn |-> TRUE]
NoFile   == [none |-> TRUE]
Holding(doc, ps) == [doc |-> doc, writers |-> ps]

\* Promises: nothing, that the id is deleted, or which document it has.
Open       == [deleted |-> FALSE, by |-> 0]
Gone       == [deleted |-> TRUE, by |-> 0]
Written(n) == [deleted |-> FALSE, by |-> n]

NoOp      == [kind |-> "none", id |-> "", number |-> 0]
NoWriting == [target |-> Deleted, doc |-> Torn, next |-> "done"]

-----------------------------------------------------------------------------
\* _spec_roots: the roots in search order, without duplicates.
SearchOrder ==
    (IF config.overrides THEN <<"overrides">> ELSE <<>>)
        \o (IF config.local THEN <<"local", "bundled">> ELSE <<"bundled">>)

\* get_profiles_dir, get_stacks_dir, get_layers_dir
TargetRoot == SearchOrder[1]

\* _find_spec_path
Holders(id) == {i \in DOMAIN SearchOrder : file[<<SearchOrder[i], id>>] # NoFile}
FoundAt(id) == <<SearchOrder[CHOOSE i \in Holders(id) : \A j \in Holders(id) : i <= j], id>>

\* _load_deleted_profile_ids: a file that says nothing hides nothing.
DeletedIds == IF file[Deleted] = NoFile THEN {} ELSE file[Deleted].doc.ids

\* load_profile, load_layer: the document, or why there is none.
NotFound == [by |-> 0, ids |-> {"not found"}, torn |-> FALSE]
Invalid  == Torn

LoadFile(id) ==
    IF Holders(id) = {} \/ id \in Profiles \intersect DeletedIds THEN NotFound
    ELSE file[FoundAt(id)].doc

\* load_stack composes the layers of a recipe: it is not found when one of
\* them is not.
Load(id) ==
    IF id \notin Stacks \/ LoadFile(id) \in {NotFound, Invalid} THEN LoadFile(id)
    ELSE IF \E l \in LayersOf[id] : LoadFile(l) = NotFound THEN NotFound
    ELSE IF \E l \in LayersOf[id] : LoadFile(l) = Invalid THEN Invalid
    ELSE LoadFile(id)

Loads(id) == Load(id) \notin {NotFound, Invalid}

-----------------------------------------------------------------------------
SpecInit ==
    /\ file = [t \in Targets |->
                 IF t \in Shipped THEN Holding(Document(0), {}) ELSE NoFile]
    /\ temp = [t \in Targets |-> NoFile]
    /\ config \in [overrides : BOOLEAN, local : BOOLEAN, default : {""}]
    /\ op = [p \in Procs |-> NoOp]
    /\ pc = [p \in Procs |-> "idle"]
    /\ writing = [p \in Procs |-> NoWriting]
    /\ begun = 0
    /\ promise = [id \in Ids |-> Open]
    /\ raced = FALSE

Goto(p, step) == pc' = [pc EXCEPT ![p] = step]

\* Two processes are at one file when their operations are for the same id
\* or both are between reading and replacing the file of deleted ids.
AtDeleted(p) == pc[p] \in {"open", "write", "replace"} /\ writing[p].target = Deleted

Meets(p, id, deleted) ==
    \E q \in Procs \ {p} : pc[q] # "idle" /\ (op[q].id = id \/ (deleted /\ AtDeleted(q)))

\* The end of an operation, with what it promises of its id from now on.
Promised(p, what) ==
    promise' = [promise EXCEPT ![op[p].id] = what]

EndOp(p) ==
    /\ Goto(p, "idle")
    /\ op' = [op EXCEPT ![p] = NoOp]
    /\ writing' = [writing EXCEPT ![p] = NoWriting]

\* An operation that is refused promises nothing and changes nothing.
Refused(p) ==
    /\ EndOp(p)
    /\ UNCHANGED <<file, temp, config, begun, promise, raced>>

\* What each process may be asked to do: the commands have no duplicate, and
\* delete nothing but stacks.
Requests(p) ==
    [kind : {"create", "update"}, id : Ids]
    \union [kind : {"delete"}, id : IF p = "server" THEN Ids ELSE Stacks]
    \union [kind : {"duplicate"}, id : IF p = "server" THEN Profiles \union Stacks ELSE {}]

\* The CLI's edit shows the user what there is before it updates it.
Begin(p, r) ==
    /\ pc[p] = "idle"
    /\ begun < MaxOps
    /\ p = "cli" /\ r.kind = "update" => Loads(r.id)
    /\ begun' = begun + 1
    /\ op' = [op EXCEPT ![p] = [kind |-> r.kind, id |-> r.id, number |-> begun + 1]]
    /\ Goto(p, "prepare")
    /\ promise' = [promise EXCEPT ![r.id] = Open]
    /\ raced' = (raced \/ Meets(p, r.id, FALSE))
    /\ UNCHANGED <<file, temp, config, writing>>

-----------------------------------------------------------------------------
\* prepare_*: the request is validated; a stack needs its target profile.
PrepareFails(p) ==
    /\ pc[p] = "prepare"
    /\ op[p].kind \in {"create", "update"}
    /\ op[p].id \in Stacks /\ ~Loads(TargetOf[op[p].id])
    /\ Refused(p)

Prepared(p) ==
    /\ pc[p] = "prepare"
    /\ op[p].id \in Stacks /\ op[p].kind \in {"create", "update"} => Loads(TargetOf[op[p].id])

\* duplicate_*: the copy of a source that loads, under the new id.
SourceLoads(id) == \E src \in (IF id \in Profiles THEN Profiles ELSE Stacks) \ {id} : Loads(src)

Write(p, target, doc, next) ==
    /\ writing' = [writing EXCEPT ![p] = [target |-> target, doc |-> doc, next |-> next]]
    /\ Goto(p, "open")

AfterWrite(id) == IF id \in Profiles THEN "unmark" ELSE "done"

\* Mutant of Available: only the loader is asked.
AvailableByLoader(id) == Load(id) = NotFound

\* _assert_id_available: no file where it will go, and nothing that loads.
Available(id) ==
    /\ file[<<TargetRoot, id>>] = NoFile
    /\ Load(id) = NotFound

\* create_* and duplicate_*, up to the write.
Create(p) ==
    /\ op[p].kind \in {"create", "duplicate"}
    /\ Prepared(p)
    /\ op[p].kind = "duplicate" => SourceLoads(op[p].id)
    /\ Available(op[p].id)
    /\ Write(p, <<TargetRoot, op[p].id>>, Document(op[p].number), AfterWrite(op[p].id))
    /\ UNCHANGED <<file, temp, config, op, begun, promise, raced>>

CreateConflict(p) ==
    /\ op[p].kind \in {"create", "duplicate"}
    /\ Prepared(p)
    /\ \/ ~Available(op[p].id)
       \/ op[p].kind = "duplicate" /\ ~SourceLoads(op[p].id)
    /\ Refused(p)

Updatable(id) == file[<<TargetRoot, id>>] # NoFile

\* update_*, up to the write.
Update(p) ==
    /\ op[p].kind = "update"
    /\ Prepared(p)
    /\ Updatable(op[p].id)
    /\ Write(p, <<TargetRoot, op[p].id>>, Document(op[p].number), AfterWrite(op[p].id))
    /\ UNCHANGED <<file, temp, config, op, begun, promise, raced>>

UpdateMissing(p) ==
    /\ op[p].kind = "update"
    /\ Prepared(p)
    /\ ~Updatable(op[p].id)
    /\ Refused(p)

\* DELETE of a stack or layer: only where specifications are written to.
DeleteOther(p) ==
    /\ pc[p] = "prepare" /\ op[p].kind = "delete" /\ op[p].id \notin Profiles
    /\ file' = [file EXCEPT ![<<TargetRoot, op[p].id>>] = NoFile]
    /\ EndOp(p)
    /\ UNCHANGED <<temp, config, begun, promise, raced>>

\* DELETE of a profile: the file the search finds, deleted before or not, ...
UnlinkProfile(p) ==
    /\ pc[p] = "prepare" /\ op[p].kind = "delete" /\ op[p].id \in Profiles
    /\ Holders(op[p].id) # {}
    /\ file' = [file EXCEPT ![FoundAt(op[p].id)] = NoFile]
    /\ Goto(p, "mark")
    /\ UNCHANGED <<temp, config, op, writing, begun, promise, raced>>

DeleteMissing(p) ==
    /\ pc[p] = "prepare" /\ op[p].kind = "delete"
    /\ op[p].id \in Profiles /\ Holders(op[p].id) = {}
    /\ Refused(p)

\* Mutant of MarkDeleted: the ids that are there are forgotten.
MarkOnly(p) ==
    /\ pc[p] = "mark"
    /\ Write(p, Deleted, Hiding({op[p].id}), "settings")
    /\ raced' = (raced \/ Meets(p, op[p].id, TRUE))
    /\ UNCHANGED <<file, temp, config, op, begun, promise>>

\* ... then mark_profile_deleted, which reads the ids and writes them with
\* one more, ...
MarkDeleted(p) ==
    /\ pc[p] = "mark"
    /\ Write(p, Deleted, Hiding(DeletedIds \union {op[p].id}), "settings")
    /\ raced' = (raced \/ Meets(p, op[p].id, TRUE))
    /\ UNCHANGED <<file, temp, config, op, begun, promise>>

\* ... and the default profile is cleared if it was this one.
ClearDefault(p) ==
    /\ pc[p] = "settings"
    /\ config' = IF config.default = op[p].id THEN [config EXCEPT !.default = ""] ELSE config
    /\ Promised(p, Gone)
    /\ EndOp(p)
    /\ UNCHANGED <<file, temp, begun, raced>>

\* Mutant of Unmark: skipped.
UnmarkNothing(p) ==
    /\ pc[p] = "unmark"
    /\ Promised(p, Written(op[p].number))
    /\ EndOp(p)
    /\ UNCHANGED <<file, temp, config, begun, raced>>

\* unmark_profile_deleted, after a profile was written.
Unmark(p) ==
    /\ pc[p] = "unmark"
    /\ \/ /\ op[p].id \in DeletedIds
          /\ Write(p, Deleted, Hiding(DeletedIds \ {op[p].id}), "done")
          /\ raced' = (raced \/ Meets(p, op[p].id, TRUE))
          /\ UNCHANGED <<op, promise>>
       \/ /\ op[p].id \notin DeletedIds
          /\ Promised(p, Written(op[p].number))
          /\ EndOp(p)
          /\ UNCHANGED raced
    /\ UNCHANGED <<file, temp, config, begun>>

-----------------------------------------------------------------------------
\* Mutant of OpenTemp: the target itself is opened.
OpenTarget(p) ==
    /\ pc[p] = "open"
    /\ LET t == writing[p].target
       IN  /\ file' = [file EXCEPT ![t] = Holding(Torn, {p})]
           /\ temp' = [temp EXCEPT ![t] = file'[t]]
    /\ Goto(p, "write")
    /\ UNCHANGED <<config, op, writing, begun, promise, raced>>

\* atomic_write_yaml: the temporary file of the target is made, or emptied
\* when one is there, ...
OpenTemp(p) ==
    /\ pc[p] = "open"
    /\ LET t == writing[p].target
           others == IF temp[t] = NoFile THEN {} ELSE temp[t].writers
       IN  temp' = [temp EXCEPT ![t] = Holding(Torn, others \union {p})]
    /\ Goto(p, "write")
    /\ UNCHANGED <<file, config, op, writing, begun, promise, raced>>

\* ... written, wherever another process has moved it to (into a file that
\* was written meanwhile, the texts may mix), ...
Wrote(f, p, doc) == Holding(doc, f.writers \ {p})

WriteDocument(p) ==
    /\ pc[p] = "write"
    /\ LET t == writing[p].target
           Holds(f) == f # NoFile /\ p \in f.writers
           Results(f) == IF f.doc = Torn THEN {writing[p].doc} ELSE {writing[p].doc, Torn}
       IN  \/ /\ Holds(temp[t])
              /\ \E d \in Results(temp[t]) : temp' = [temp EXCEPT ![t] = Wrote(@, p, d)]
              /\ UNCHANGED file
           \/ /\ ~Holds(temp[t]) /\ Holds(file[t])
              /\ \E d \in Results(file[t]) : file' = [file EXCEPT ![t] = Wrote(@, p, d)]
              /\ UNCHANGED temp
           \/ /\ ~Holds(temp[t]) /\ ~Holds(file[t])
              /\ UNCHANGED <<file, temp>>
    /\ Goto(p, "replace")
    /\ UNCHANGED <<config, op, writing, begun, promise, raced>>

\* ... and put in the target's place, unless another process has done so.
Replace(p) ==
    /\ pc[p] = "replace"
    /\ LET t == writing[p].target
       IN  /\ temp[t] # NoFile
           /\ file' = [file EXCEPT ![t] = temp[t]]
           /\ temp' = [temp EXCEPT ![t] = NoFile]
    /\ \/ /\ writing[p].next = "done"
          /\ Promised(p, Written(op[p].number))
          /\ EndOp(p)
       \/ /\ writing[p].next # "done"
          /\ Goto(p, writing[p].next)
          /\ UNCHANGED <<op, writing, promise>>
    /\ UNCHANGED <<config, begun, raced>>

ReplaceFails(p) ==
    /\ pc[p] = "replace"
    /\ temp[writing[p].target] = NoFile
    /\ Refused(p)

-----------------------------------------------------------------------------
\* A process dies: its files are closed, the temporary one stays.
Abandon(files, p) ==
    [t \in Targets |-> IF files[t] = NoFile THEN NoFile
                       ELSE Holding(files[t].doc, files[t].writers \ {p})]

Crash(p) ==
    /\ pc[p] # "idle"
    /\ file' = Abandon(file, p)
    /\ temp' = Abandon(temp, p)
    /\ EndOp(p)
    /\ UNCHANGED <<config, begun, promise, raced>>

\* POST /settings/config.  A new search order may shadow what was promised
\* to be visible; what was deleted stays hidden.
UpdateConfig ==
    /\ pc["server"] = "idle" /\ begun < MaxOps
    /\ begun' = begun + 1
    /\ \/ \E p \in Profiles : config.default # p /\ config' = [config EXCEPT !.default = p]
       \/ config' = [config EXCEPT !.overrides = ~config.overrides]
    /\ promise' = [id \in Ids |-> IF promise[id] = Gone THEN Gone ELSE Open]
    /\ raced' = (raced \/ \E q \in Procs : pc[q] # "idle")
    /\ UNCHANGED <<file, temp, op, pc, writing>>

SpecStep(p) ==
    \/ PrepareFails(p) \/ Create(p) \/ CreateConflict(p) \/ Update(p) \/ UpdateMissing(p)
    \/ DeleteOther(p) \/ UnlinkProfile(p) \/ DeleteMissing(p) \/ MarkDeleted(p)
    \/ ClearDefault(p) \/ Unmark(p)
    \/ OpenTemp(p) \/ WriteDocument(p) \/ Replace(p) \/ ReplaceFails(p)

SpecNext ==
    \/ \E p \in Procs : SpecStep(p) \/ Crash(p) \/ \E r \in Requests(p) : Begin(p, r)
    \/ UpdateConfig

-----------------------------------------------------------------------------
\* A reader finds a whole document in every file, wherever a writer was
\* stopped ("Write data as YAML to target atomically", write_yaml.py:12);
\* only processes that wrote one target at once can tear it, because they
\* share the name of the temporary file.
WholeDocuments == ~raced => \A t \in Targets : file[t] # NoFile => file[t].doc # Torn

\* A profile whose delete succeeded stays hidden in every root, under every
\* setting, until it is created or updated again ("Keep deleted ids hidden
\* across merged profile roots", profiles.py:119).
DeletedStaysDeleted == ~raced => \A id \in Profiles : promise[id] = Gone => Load(id) = NotFound

\* What a create, an update or a duplicate has written is what the loader
\* finds afterwards: it went to the root that is searched first and is not
\* hidden by an earlier delete.
WrittenIsFound ==
    ~raced => \A id \in Ids : promise[id].by > 0 => LoadFile(id) = Document(promise[id].by)

\* A create never takes the place of a document: not of one that is visible,
\* and not of one that a deleted id still has.
CreateReplacesNothing ==
    [][\A p \in Procs : \A t \in Targets \ {Deleted} :
          (/\ ~raced /\ pc[p] = "replace" /\ pc'[p] # "replace"
           /\ op[p].kind \in {"create", "duplicate"} /\ writing[p].target = t
           /\ file'[t] # file[t]) => file[t] = NoFile]_specVars

=============================================================================
