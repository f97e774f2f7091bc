-------------------------- MODULE SpecFilesProofs --------------------------
(***************************************************************************)
(* For any number of processes, any profiles, stacks and layers and any    *)
(* files to begin with: as long as no two processes have been at one file  *)
(* at once, every file is whole, what was deleted stays hidden, what was   *)
(* written is found, and a create replaces nothing.                        *)
(*                                                                         *)
(* The invariant says what each process is in the middle of (Midway), and  *)
(* that no other process can disturb it: active processes have different   *)
(* ids (Apart), one at most is between reading and replacing the file of   *)
(* deleted ids, and a temporary file is held by nobody but the process     *)
(* that writes its target.  A step of one process is then reasoned about   *)
(* by what it does to that process and its id alone (OneProcess).          *)
(***************************************************************************)
EXTENDS SpecFiles, SequenceTheorems, TLAPS

Kinds    == {"create", "update", "duplicate", "delete"}
Ops      == [kind : Kinds, id : Ids, number : Nat \ {0}]
Docs     == [by : Nat, ids : SUBSET Ids, torn : BOOLEAN]
Files    == {NoFile} \union [doc : Docs, writers : SUBSET Procs]
WriteSteps == {"open", "write", "replace"}
Promises == {Open, Gone} \union {Written(n) : n \in Nat \ {0}}

SpecType ==
    /\ file \in [Targets -> Files]
    /\ temp \in [Targets -> Files]
    /\ config \in [overrides : BOOLEAN, local : BOOLEAN, default : Profiles \union {""}]
    /\ op \in [Procs -> Ops \union {NoOp}]
    /\ pc \in [Procs -> {"idle", "prepare", "mark", "settings", "unmark"} \union WriteSteps]
    /\ writing \in [Procs -> [target : Targets, doc : Docs, next : {"done", "unmark", "settings"}]]
    /\ begun \in Nat
    /\ promise \in [Ids -> Promises]
    /\ raced \in BOOLEAN
    /\ \A p \in Procs : pc[p] # "idle" => op[p] \in Ops

-----------------------------------------------------------------------------
\* No two processes are at one file.
Apart ==
    \A p, q \in Procs : p # q /\ pc[p] # "idle" /\ pc[q] # "idle" =>
        op[p].id # op[q].id /\ ~(AtDeleted(p) /\ AtDeleted(q))

\* Nobody holds a file open, and each has a document; only the file of
\* deleted ids has ids.
WholeFiles ==
    \A t \in Targets : file[t] # NoFile =>
        /\ file[t].writers = {} /\ ~file[t].doc.torn
        /\ t # Deleted => file[t].doc = Document(file[t].doc.by)

\* Who holds a temporary file open is writing its target.
TempsHeld ==
    \A t \in Targets : temp[t] # NoFile =>
        \A p \in temp[t].writers : p \in Procs /\ pc[p] = "write" /\ writing[p].target = t

Has(id, n) == file[<<TargetRoot, id>>] # NoFile /\ file[<<TargetRoot, id>>].doc = Document(n)

WritesOwn(p) ==
    /\ writing[p] = [target |-> <<TargetRoot, op[p].id>>, doc |-> Document(op[p].number),
                     next |-> AfterWrite(op[p].id)]
    /\ op[p].kind \in {"create", "duplicate"} => file[<<TargetRoot, op[p].id>>] = NoFile

WritesMark(p) ==
    writing[p] = [target |-> Deleted, doc |-> Hiding(DeletedIds \union {op[p].id}),
                  next |-> "settings"]

WritesUnmark(p) ==
    /\ writing[p] = [target |-> Deleted, doc |-> Hiding(DeletedIds \ {op[p].id}), next |-> "done"]
    /\ Has(op[p].id, op[p].number)

\* What an operation has done so far and is about to do.
Midway(p) ==
    /\ pc[p] \in WriteSteps => WritesOwn(p) \/ WritesMark(p) \/ WritesUnmark(p)
    /\ pc[p] = "write" => temp[writing[p].target] = Holding(Torn, {p})
    /\ pc[p] = "replace" => temp[writing[p].target] = Holding(writing[p].doc, {})
    /\ pc[p] = "unmark" => Has(op[p].id, op[p].number)
    /\ pc[p] = "settings" => op[p].id \in DeletedIds
    /\ pc[p] # "idle" => promise[op[p].id] = Open

\* What was promised of an id holds.
Kept(id) ==
    /\ promise[id] = Gone => id \in DeletedIds
    /\ promise[id].by > 0 => Has(id, promise[id].by) /\ (id \in Profiles => id \notin DeletedIds)

Calm ==
    /\ Apart
    /\ WholeFiles
    /\ TempsHeld
    /\ \A p \in Procs : Midway(p)
    /\ \A id \in Ids : Kept(id)

FilesInv == SpecType /\ (~raced => Calm)

-----------------------------------------------------------------------------
\* The file of deleted ids is none of the others.
LEMMA TargetsDiffer ==
    /\ Deleted \in Targets
    /\ \A r \in Roots, id \in Ids : <<r, id>> \in Targets /\ <<r, id>> # Deleted
  BY DEF Targets, Deleted, Roots

\* The kinds of documents and states, told apart.
LEMMA DocumentTypes ==
    /\ Torn \in Docs /\ Torn.torn
    /\ \A n \in Nat : Document(n) \in Docs /\ ~Document(n).torn /\ Document(n).by = n
    /\ \A s \in SUBSET Ids : Hiding(s) \in Docs /\ ~Hiding(s).torn /\ Hiding(s).ids = s
    /\ \A n \in Nat : Document(n) # NotFound /\ Document(n) # Invalid
    /\ Written(0) = Open
    /\ \A n \in Nat : Written(n).by = n /\ Written(n) # Gone
    /\ ~(Open.by > 0) /\ ~(Gone.by > 0) /\ Open # Gone
<1>1. Open.by = 0 /\ Gone.by = 0 /\ Open # Gone /\ Written(0) = Open
  BY DEF Open, Gone, Written
<1>2. ~(Open.by > 0) /\ ~(Gone.by > 0)
  BY <1>1
<1>3. \A n \in Nat : Written(n).by = n /\ Written(n) # Gone
  BY DEF Written, Gone
<1>4. \A n \in Nat : /\ Document(n) \in Docs /\ ~Document(n).torn /\ Document(n).by = n
                     /\ Document(n) # NotFound /\ Document(n) # Invalid
  BY DEF Docs, Document, NotFound, Invalid, Torn
<1>5. /\ Torn \in Docs /\ Torn.torn
      /\ \A s \in SUBSET Ids : Hiding(s) \in Docs /\ ~Hiding(s).torn /\ Hiding(s).ids = s
  BY DEF Docs, Torn, Hiding
<1> QED
  BY <1>1, <1>2, <1>3, <1>4, <1>5

\* A file that is held is there, with its document and writers.
LEMMA HeldFiles ==
    /\ NoFile \in Files
    /\ \A doc \in Docs, ps \in SUBSET Procs :
          /\ Holding(doc, ps) \in Files /\ Holding(doc, ps) # NoFile
          /\ Holding(doc, ps).doc = doc /\ Holding(doc, ps).writers = ps
    /\ \A f \in Files \ {NoFile} :
          f.doc \in Docs /\ f.writers \in SUBSET Procs /\ f = Holding(f.doc, f.writers)
<1>1. \A doc, ps : DOMAIN Holding(doc, ps) = {"doc", "writers"} /\ DOMAIN NoFile = {"none"}
  BY DEF Holding, NoFile
<1>2. \A doc, ps : Holding(doc, ps) # NoFile
  BY <1>1
<1>3. \A f \in [doc : Docs, writers : SUBSET Procs] : f = Holding(f.doc, f.writers)
  BY DEF Holding
<1> QED
  BY <1>2, <1>3 DEF Files, Holding

\* Writing goes to the first root that is searched.
LEMMA SearchedRoots ==
    ASSUME SpecType
    PROVE  /\ TargetRoot \in Roots
           /\ 1 \in DOMAIN SearchOrder
           /\ DOMAIN SearchOrder \subseteq {1, 2, 3}
           /\ \A i \in DOMAIN SearchOrder : SearchOrder[i] \in Roots
           /\ SearchOrder[1] = TargetRoot
<1>1. config.overrides \in BOOLEAN /\ config.local \in BOOLEAN
  BY DEF SpecType
<1> DEFINE first == IF config.overrides THEN <<"overrides">> ELSE <<>>
<1> DEFINE rest == IF config.local THEN <<"local", "bundled">> ELSE <<"bundled">>
<1>2. /\ first \in Seq(Roots) /\ Len(first) \in {0, 1}
      /\ rest \in Seq(Roots) /\ Len(rest) \in {1, 2}
  <2>1. \A a, b \in Roots : /\ <<a>> \in Seq(Roots) /\ Len(<<a>>) = 1
                            /\ <<a, b>> \in Seq(Roots) /\ Len(<<a, b>>) = 2
    OBVIOUS
  <2>2. <<>> \in Seq(Roots) /\ Len(<<>>) = 0
    OBVIOUS
  <2>3. "overrides" \in Roots /\ "local" \in Roots /\ "bundled" \in Roots
    BY DEF Roots
  <2>4. first \in Seq(Roots) /\ Len(first) \in {0, 1}
    BY <2>1, <2>2, <2>3
  <2>5. rest \in Seq(Roots) /\ Len(rest) \in {1, 2}
    <3>1. CASE config.local
      BY <2>1, <2>3, <3>1, Zenon
    <3>2. CASE ~config.local
      BY <2>1, <2>3, <3>2, Zenon
    <3> QED
      BY <3>1, <3>2
  <2> QED
    BY <2>4, <2>5
<1>3. SearchOrder = first \o rest
  BY DEF SearchOrder
<1> HIDE DEF first, rest
<1>4. SearchOrder \in Seq(Roots) /\ Len(SearchOrder) = Len(first) + Len(rest)
  BY <1>2, <1>3, ConcatProperties
<1>5. DOMAIN SearchOrder = 1..Len(SearchOrder) /\ Len(SearchOrder) \in {1, 2, 3}
  <2>1. DOMAIN SearchOrder = 1..Len(SearchOrder)
    BY <1>4, LenProperties
  <2>2. \A m \in {0, 1}, n \in {1, 2} : m + n \in {1, 2, 3}
    OBVIOUS
  <2> QED
    BY <1>2, <1>4, <2>1, <2>2
<1>6. \A i \in DOMAIN SearchOrder : SearchOrder[i] \in Roots
  BY <1>4, <1>5, ElementOfSeq
<1> QED
  BY <1>5, <1>6 DEF TargetRoot

\* The deleted ids are ids.
LEMMA DeletedIdsType ==
    ASSUME SpecType
    PROVE  DeletedIds \in SUBSET Ids
<1>1. file[Deleted] \in Files
  BY TargetsDiffer DEF SpecType
<1> QED
  BY <1>1, HeldFiles DEF DeletedIds, Docs

\* The search finds a file of the id, in one of the roots.
LEMMA FoundInRoots ==
    ASSUME SpecType, NEW id \in Ids, Holders(id) # {}
    PROVE  /\ FoundAt(id) \in Roots \X {id}
           /\ file[FoundAt(id)] # NoFile
<1>1. Holders(id) \subseteq {1, 2, 3} /\ \A i \in Holders(id) : SearchOrder[i] \in Roots
  BY SearchedRoots DEF Holders
<1>2. \E i \in Holders(id) : \A j \in Holders(id) : i <= j
  <2>1. CASE 1 \in Holders(id)
    BY <1>1, <2>1
  <2>2. CASE 1 \notin Holders(id) /\ 2 \in Holders(id)
    BY <1>1, <2>2
  <2>3. CASE 1 \notin Holders(id) /\ 2 \notin Holders(id)
    BY <1>1, <2>3
  <2> QED
    BY <2>1, <2>2, <2>3
<1>3. PICK k \in Holders(id) : FoundAt(id) = <<SearchOrder[k], id>>
  BY <1>2, Zenon DEF FoundAt
<1> QED
  BY <1>1, <1>3 DEF Holders

\* What was written to the first root is what the loader finds.
LEMMA WrittenIsLoaded ==
    ASSUME SpecType, NEW id \in Ids, NEW n \in Nat, Has(id, n), id \notin Profiles \intersect DeletedIds
    PROVE  LoadFile(id) = Document(n)
<1>1. 1 \in Holders(id) /\ Holders(id) \subseteq {1, 2, 3}
  BY SearchedRoots DEF Holders, Has
<1> DEFINE k == CHOOSE i \in Holders(id) : \A j \in Holders(id) : i <= j
<1>2. \E i \in Holders(id) : \A j \in Holders(id) : i <= j
  BY <1>1
<1>3. k \in Holders(id) /\ \A j \in Holders(id) : k <= j
  BY <1>2, Zenon
<1>4. k = 1
  BY <1>1, <1>3
<1>5. FoundAt(id) = <<TargetRoot, id>>
  BY <1>4, SearchedRoots DEF FoundAt
<1> QED
  BY <1>1, <1>5 DEF LoadFile, Has

-----------------------------------------------------------------------------
\* A step of p that is about id leaves every other process and id as it was.
LEMMA OneProcess ==
    ASSUME SpecType, SpecType', Calm, NEW p \in Procs, NEW id \in Ids,
           \A q \in Procs \ {p} : pc[q] # "idle" => op[q].id # id,
           \A q \in Procs \ {p} : pc'[q] = pc[q] /\ op'[q] = op[q] /\ writing'[q] = writing[q],
           pc'[p] # "idle" => op'[p].id = id,
           AtDeleted(p)' => \A q \in Procs \ {p} : ~AtDeleted(q),
           TargetRoot' = TargetRoot,
           \A t \in Targets : file'[t] # file[t] =>
               t \in Roots \X {id} \/ (t = Deleted /\ pc[p] # "idle" /\ AtDeleted(p)),
           \A i \in Ids \ {id} : i \in DeletedIds' <=> i \in DeletedIds,
           \A t \in Targets : temp'[t] # temp[t] => pc[p] \in WriteSteps /\ writing[p].target = t,
           WholeFiles', TempsHeld', Midway(p)',
           \A i \in Ids \ {id} : promise'[i] = promise[i],
           Kept(id)'
    PROVE  Calm'
<1>1. Apart'
  <2> SUFFICES ASSUME NEW q \in Procs, NEW r \in Procs, q # r, pc'[q] # "idle", pc'[r] # "idle"
               PROVE  op'[q].id # op'[r].id /\ ~(AtDeleted(q)' /\ AtDeleted(r)')
    BY DEF Apart
  <2>1. CASE q # p /\ r # p
    BY <2>1 DEF Calm, Apart, AtDeleted
  <2>2. CASE q = p
    BY <2>2 DEF AtDeleted
  <2>3. CASE r = p
    BY <2>3 DEF AtDeleted
  <2> QED
    BY <2>1, <2>2, <2>3
<1>2. ASSUME NEW i \in Ids \ {id}
      PROVE  /\ file'[<<TargetRoot', i>>] = file[<<TargetRoot, i>>]
             /\ \A n : Has(i, n)' <=> Has(i, n)
  <2>1. <<TargetRoot, i>> \in Targets /\ <<TargetRoot, i>> # Deleted
        /\ <<TargetRoot, i>> \notin Roots \X {id}
    BY TargetsDiffer, SearchedRoots
  <2> QED
    BY <2>1 DEF Has
<1>3. \A i \in Ids : Kept(i)'
  <2>1. ASSUME NEW i \in Ids \ {id} PROVE Kept(i)'
    <3>1. Kept(i) /\ promise'[i] = promise[i]
      BY <2>1 DEF Calm
    <3>2. i \in DeletedIds' <=> i \in DeletedIds
      BY <2>1
    <3> QED
      BY <1>2, <2>1, <3>1, <3>2 DEF Kept
  <2> QED
    BY <2>1
<1>4. ASSUME NEW q \in Procs, q # p PROVE Midway(q)'
  <2>1. CASE pc[q] = "idle"
    BY <2>1, <1>4 DEF Midway, WriteSteps
  <2>2. CASE pc[q] # "idle"
    <3>1. /\ pc'[q] = pc[q] /\ op'[q] = op[q] /\ writing'[q] = writing[q]
          /\ op[q].id \in Ids /\ op[q].id # id
          /\ promise'[op[q].id] = promise[op[q].id]
      BY <1>4, <2>2 DEF SpecType, Ops
    <3>2. Has(op[q].id, op[q].number)' <=> Has(op[q].id, op[q].number)
      BY <1>2, <3>1
    <3>3. AtDeleted(q) => file'[Deleted] = file[Deleted] /\ DeletedIds' = DeletedIds
      <4>1. AtDeleted(q) => ~(pc[p] # "idle" /\ AtDeleted(p))
        BY <1>4, <2>2 DEF Calm, Apart
      <4>2. AtDeleted(q) => file'[Deleted] = file[Deleted]
        BY <4>1, TargetsDiffer
      <4> QED
        BY <4>2 DEF DeletedIds
    <3>4. Midway(q)
      BY DEF Calm
    <3>5. CASE pc[q] \notin WriteSteps
      BY <3>1, <3>2, <3>4, <3>5 DEF Midway, WriteSteps
    <3>6. CASE pc[q] \in WriteSteps
      <4>1. WritesOwn(q) \/ WritesMark(q) \/ WritesUnmark(q)
        BY <3>4, <3>6 DEF Midway
      <4>2. WritesOwn(q)' \/ WritesMark(q)' \/ WritesUnmark(q)'
        <5>1. CASE WritesOwn(q)
          <6>1. file'[<<TargetRoot', op'[q].id>>] = file[<<TargetRoot, op[q].id>>]
            BY <1>2, <3>1
          <6>2. WritesOwn(q)'
            BY <3>1, <5>1, <6>1 DEF WritesOwn, AfterWrite, Document
          <6> QED
            BY <6>2
        <5>2. CASE WritesMark(q)
          <6>1. AtDeleted(q)
            BY <3>6, <5>2 DEF WritesMark, AtDeleted, WriteSteps
          <6>2. WritesMark(q)'
            BY <3>1, <3>3, <5>2, <6>1 DEF WritesMark, Hiding
          <6> QED
            BY <6>2
        <5>3. CASE WritesUnmark(q)
          <6>1. AtDeleted(q)
            BY <3>6, <5>3 DEF WritesUnmark, AtDeleted, WriteSteps
          <6>2. WritesUnmark(q)'
            BY <3>1, <3>2, <3>3, <5>3, <6>1 DEF WritesUnmark, Hiding
          <6> QED
            BY <6>2
        <5> QED
          BY <4>1, <5>1, <5>2, <5>3
      <4>3. writing[q].target = Deleted \/ writing[q].target = <<TargetRoot, op[q].id>>
        BY <4>1 DEF WritesOwn, WritesMark, WritesUnmark
      <4>4. pc[p] \in WriteSteps => writing[p].target # writing[q].target
        <5> SUFFICES ASSUME pc[p] \in WriteSteps, writing[p].target = writing[q].target PROVE FALSE
          OBVIOUS
        <5>1. pc[p] # "idle" /\ op[p].id # op[q].id /\ ~(AtDeleted(p) /\ AtDeleted(q))
          BY <1>4, <2>2 DEF Calm, Apart, WriteSteps
        <5>2. WritesOwn(p) \/ WritesMark(p) \/ WritesUnmark(p)
          BY DEF Calm, Midway
        <5>3. writing[p].target = Deleted \/ writing[p].target = <<TargetRoot, op[p].id>>
          BY <5>2 DEF WritesOwn, WritesMark, WritesUnmark
        <5>4. op[p].id \in Ids /\ TargetRoot \in Roots
          BY <5>1, SearchedRoots DEF SpecType, Ops
        <5>5. writing[p].target = Deleted /\ writing[q].target = Deleted
          BY <3>1, <4>3, <5>1, <5>3, <5>4, TargetsDiffer
        <5> QED
          BY <3>6, <5>1, <5>5 DEF AtDeleted, WriteSteps
      <4>5. temp'[writing[q].target] = temp[writing[q].target]
        BY <4>4 DEF SpecType
      <4> QED
        BY <3>1, <3>4, <3>6, <4>2, <4>5 DEF Midway, WriteSteps
    <3> QED
      BY <3>5, <3>6
  <2> QED
    BY <2>1, <2>2
<1> QED
  BY <1>1, <1>3, <1>4 DEF Calm

-----------------------------------------------------------------------------
Active == {"prepare", "mark", "settings", "unmark"} \union WriteSteps

\* An operation ends, goes on, or prepares a write: its process alone changes.
LEMMA Ended ==
    ASSUME SpecType, NEW p \in Procs, EndOp(p)
    PROVE  /\ pc'[p] = "idle"
           /\ \A q \in Procs \ {p} : pc'[q] = pc[q] /\ op'[q] = op[q] /\ writing'[q] = writing[q]
           /\ op' \in [Procs -> Ops \union {NoOp}]
           /\ pc' \in [Procs -> {"idle"} \union Active]
           /\ writing' \in [Procs -> [target : Targets, doc : Docs, next : {"done", "unmark", "settings"}]]
           /\ \A q \in Procs : pc'[q] # "idle" => op'[q] \in Ops
<1>1. NoWriting \in [target : Targets, doc : Docs, next : {"done", "unmark", "settings"}]
  BY TargetsDiffer, DocumentTypes DEF NoWriting
<1>2. /\ pc' = [pc EXCEPT ![p] = "idle"] /\ op' = [op EXCEPT ![p] = NoOp]
      /\ writing' = [writing EXCEPT ![p] = NoWriting]
  BY DEF EndOp, Goto
<1> QED
  BY <1>1, <1>2 DEF SpecType, Active

\* A process goes on with its operation.
LEMMA WentOn ==
    ASSUME SpecType, NEW p \in Procs, pc[p] # "idle", NEW step \in Active, Goto(p, step), op' = op
    PROVE  /\ pc'[p] = step /\ step # "idle"
           /\ \A q \in Procs \ {p} : pc'[q] = pc[q] /\ op'[q] = op[q]
           /\ op' \in [Procs -> Ops \union {NoOp}]
           /\ pc' \in [Procs -> {"idle"} \union Active]
           /\ \A q \in Procs : pc'[q] # "idle" => op'[q] \in Ops
           /\ op[p] \in Ops /\ op[p].id \in Ids /\ op[p].number \in Nat \ {0}
  BY DEF SpecType, Active, WriteSteps, Goto, Ops

\* A process begins to write.
LEMMA WillWrite ==
    ASSUME SpecType, NEW p \in Procs, NEW target \in Targets, NEW doc \in Docs,
           NEW next \in {"done", "unmark", "settings"}, Write(p, target, doc, next)
    PROVE  /\ writing'[p] = [target |-> target, doc |-> doc, next |-> next]
           /\ \A q \in Procs \ {p} : writing'[q] = writing[q]
           /\ writing' \in [Procs -> [target : Targets, doc : Docs, next : {"done", "unmark", "settings"}]]
  BY DEF SpecType, Write

\* Two processes that write, write different files.
LEMMA TargetsApart ==
    ASSUME SpecType, Calm, NEW p \in Procs, NEW q \in Procs, p # q,
           pc[p] \in WriteSteps, pc[q] \in WriteSteps
    PROVE  writing[p].target # writing[q].target
<1> SUFFICES ASSUME writing[p].target = writing[q].target PROVE FALSE
  OBVIOUS
<1>1. /\ pc[p] # "idle" /\ pc[q] # "idle" /\ op[p].id # op[q].id
      /\ ~(AtDeleted(p) /\ AtDeleted(q))
  BY DEF Calm, Apart, WriteSteps
<1>2. \A r \in {p, q} : WritesOwn(r) \/ WritesMark(r) \/ WritesUnmark(r)
  BY DEF Calm, Midway
<1>3. \A r \in {p, q} : writing[r].target = Deleted \/ writing[r].target = <<TargetRoot, op[r].id>>
  BY <1>2 DEF WritesOwn, WritesMark, WritesUnmark
<1>4. op[p].id \in Ids /\ op[q].id \in Ids /\ TargetRoot \in Roots
  BY <1>1, SearchedRoots DEF SpecType, Ops
<1>5. writing[p].target = Deleted /\ writing[q].target = Deleted
  BY <1>1, <1>3, <1>4, TargetsDiffer
<1> QED
  BY <1>1, <1>5 DEF AtDeleted, WriteSteps

\* A step that leaves the files alone.
LEMMA NoFileChanged ==
    ASSUME SpecType, SpecType', Calm, NEW p \in Procs, pc[p] \notin {"idle", "write"},
           NEW id \in Ids, op[p].id = id,
           \A q \in Procs \ {p} : pc'[q] = pc[q] /\ op'[q] = op[q] /\ writing'[q] = writing[q],
           pc'[p] # "idle" => op'[p].id = id,
           AtDeleted(p)' => \A q \in Procs \ {p} : ~AtDeleted(q),
           UNCHANGED <<file, temp>>,
           config'.overrides = config.overrides, config'.local = config.local,
           Midway(p)',
           \A i \in Ids \ {id} : promise'[i] = promise[i],
           Kept(id)'
    PROVE  Calm'
<1>1. pc[p] # "idle"
  OBVIOUS
<1>2. TargetRoot' = TargetRoot
  BY DEF TargetRoot, SearchOrder
<1>3. DeletedIds' = DeletedIds
  BY DEF DeletedIds
<1>4. WholeFiles'
  BY DEF Calm, WholeFiles
<1>5. TempsHeld'
  BY DEF Calm, TempsHeld
<1>6. \A q \in Procs \ {p} : pc[q] # "idle" => op[q].id # id
  BY <1>1 DEF Calm, Apart
<1>7. /\ \A t \in Targets : file'[t] # file[t] =>
             t \in Roots \X {id} \/ (t = Deleted /\ pc[p] # "idle" /\ AtDeleted(p))
      /\ \A i \in Ids \ {id} : i \in DeletedIds' <=> i \in DeletedIds
      /\ \A t \in Targets : temp'[t] # temp[t] => pc[p] \in WriteSteps /\ writing[p].target = t
  BY <1>3
<1> QED
  BY <1>2, <1>4, <1>5, <1>6, <1>7, OneProcess

-----------------------------------------------------------------------------
\* What the state says of a process that is in an operation.
LEMMA InOperation ==
    ASSUME SpecType, NEW p \in Procs, pc[p] # "idle"
    PROVE  /\ op[p] \in Ops /\ op[p].id \in Ids /\ op[p].number \in Nat \ {0}
           /\ <<TargetRoot, op[p].id>> \in Targets /\ <<TargetRoot, op[p].id>> # Deleted
           /\ Document(op[p].number) \in Docs
           /\ AfterWrite(op[p].id) \in {"done", "unmark", "settings"}
           /\ Hiding(DeletedIds \union {op[p].id}) \in Docs
           /\ Hiding(DeletedIds \ {op[p].id}) \in Docs
<1>1. op[p] \in Ops /\ op[p].id \in Ids /\ op[p].number \in Nat \ {0}
  BY DEF SpecType, Ops
<1>2. DeletedIds \union {op[p].id} \in SUBSET Ids /\ DeletedIds \ {op[p].id} \in SUBSET Ids
  BY <1>1, DeletedIdsType
<1> QED
  BY <1>1, <1>2, TargetsDiffer, SearchedRoots, DocumentTypes DEF AfterWrite

\* Nothing is owed for a process that is idle.
LEMMA IdleIsMidway == ASSUME NEW p \in Procs, pc[p] = "idle" PROVE Midway(p)
  BY DEF Midway, WriteSteps

\* A refused operation changes no file.
LEMMA RefusedKeeps ==
    ASSUME FilesInv, NEW p \in Procs, pc[p] \in {"prepare", "replace"}, Refused(p)
    PROVE  FilesInv'
<1>1. EndOp(p) /\ UNCHANGED <<file, temp, config, begun, promise, raced>> /\ SpecType
  BY DEF Refused, FilesInv
<1>2. SpecType'
  BY <1>1, Ended DEF SpecType, Active
<1>3. ASSUME ~raced' PROVE Calm'
  <2>1. Calm /\ pc'[p] = "idle"
    BY <1>1, <1>3, Ended DEF FilesInv
  <2>2. PICK id \in Ids : op[p].id = id
    BY <1>1, InOperation
  <2>3. Midway(p)'
    BY <2>1, IdleIsMidway DEF Midway, WriteSteps
  <2>4. Kept(id)'
    BY <1>1, <2>1 DEF Calm, Kept, Has, TargetRoot, SearchOrder, DeletedIds
  <2>5. \A q \in Procs \ {p} : pc'[q] = pc[q] /\ op'[q] = op[q] /\ writing'[q] = writing[q]
    BY <1>1, Ended
  <2>6. ~AtDeleted(p)'
    BY <2>1 DEF AtDeleted
  <2> QED
    BY <1>1, <1>2, <2>1, <2>2, <2>3, <2>4, <2>5, <2>6, NoFileChanged
<1> QED
  BY <1>2, <1>3 DEF FilesInv

\* Create and Update, up to the write.
LEMMA WriteOwnKeeps ==
    ASSUME FilesInv, NEW p \in Procs, pc[p] = "prepare",
           op[p].kind \in {"create", "duplicate"} => file[<<TargetRoot, op[p].id>>] = NoFile,
           Write(p, <<TargetRoot, op[p].id>>, Document(op[p].number), AfterWrite(op[p].id)),
           UNCHANGED <<file, temp, config, op, begun, promise, raced>>
    PROVE  FilesInv'
<1>1. SpecType /\ Goto(p, "open") /\ "open" \in Active
  BY DEF FilesInv, Write, Active, WriteSteps
<1>2. /\ writing'[p] = [target |-> <<TargetRoot, op[p].id>>, doc |-> Document(op[p].number),
                        next |-> AfterWrite(op[p].id)]
      /\ \A q \in Procs \ {p} : writing'[q] = writing[q]
      /\ writing' \in [Procs -> [target : Targets, doc : Docs, next : {"done", "unmark", "settings"}]]
  BY <1>1, InOperation, WillWrite
<1>3. /\ pc'[p] = "open"
      /\ \A q \in Procs \ {p} : pc'[q] = pc[q] /\ op'[q] = op[q]
      /\ op' \in [Procs -> Ops \union {NoOp}]
      /\ pc' \in [Procs -> {"idle"} \union Active]
      /\ \A q \in Procs : pc'[q] # "idle" => op'[q] \in Ops
      /\ op[p].id \in Ids
  BY <1>1, WentOn
<1>4. SpecType'
  BY <1>1, <1>2, <1>3 DEF SpecType, Active
<1>5. ASSUME ~raced' PROVE Calm'
  <2>1. Calm
    BY <1>5 DEF FilesInv
  <2>2. PICK id \in Ids : op[p].id = id
    BY <1>3
  <2>3. TargetRoot' = TargetRoot /\ DeletedIds' = DeletedIds
    BY DEF TargetRoot, SearchOrder, DeletedIds
  <2>4. WritesOwn(p)'
    BY <1>2, <2>3 DEF WritesOwn, Document, AfterWrite
  <2>5. Midway(p)'
    BY <1>3, <2>1, <2>4 DEF Calm, Midway, WriteSteps
  <2>6. Kept(id)'
    BY <2>1, <2>3 DEF Calm, Kept, Has
  <2>7. ~AtDeleted(p)'
    <3>1. <<TargetRoot, op[p].id>> # Deleted
      BY <1>1, InOperation
    <3>2. writing'[p].target # Deleted
      BY <1>2, <3>1
    <3> QED
      BY <3>2 DEF AtDeleted
  <2> QED
    BY <1>1, <1>2, <1>3, <1>4, <2>1, <2>2, <2>5, <2>6, <2>7, NoFileChanged
<1> QED
  BY <1>4, <1>5 DEF FilesInv

\* The two that read the deleted ids and will write them.
LEMMA WriteDeletedKeeps ==
    ASSUME FilesInv, NEW p \in Procs, pc[p] \in {"mark", "unmark"},
           \/ pc[p] = "mark" /\ Write(p, Deleted, Hiding(DeletedIds \union {op[p].id}), "settings")
           \/ pc[p] = "unmark" /\ Write(p, Deleted, Hiding(DeletedIds \ {op[p].id}), "done"),
           raced' = (raced \/ Meets(p, op[p].id, TRUE)),
           UNCHANGED <<file, temp, config, op, begun, promise>>
    PROVE  FilesInv'
<1>1. SpecType /\ Goto(p, "open") /\ "open" \in Active
  BY DEF FilesInv, Write, Active, WriteSteps
<1>2. /\ \/ /\ pc[p] = "mark"
            /\ writing'[p] = [target |-> Deleted, doc |-> Hiding(DeletedIds \union {op[p].id}),
                              next |-> "settings"]
         \/ /\ pc[p] = "unmark"
            /\ writing'[p] = [target |-> Deleted, doc |-> Hiding(DeletedIds \ {op[p].id}),
                              next |-> "done"]
      /\ \A q \in Procs \ {p} : writing'[q] = writing[q]
      /\ writing' \in [Procs -> [target : Targets, doc : Docs, next : {"done", "unmark", "settings"}]]
  BY <1>1, InOperation, WillWrite, TargetsDiffer
<1>3. /\ pc'[p] = "open"
      /\ \A q \in Procs \ {p} : pc'[q] = pc[q] /\ op'[q] = op[q]
      /\ op' \in [Procs -> Ops \union {NoOp}]
      /\ pc' \in [Procs -> {"idle"} \union Active]
      /\ \A q \in Procs : pc'[q] # "idle" => op'[q] \in Ops
      /\ op[p].id \in Ids
  BY <1>1, WentOn
<1>4. SpecType'
  <2>1. raced' \in BOOLEAN
    BY <1>1 DEF SpecType, Meets
  <2> QED
    BY <1>1, <1>2, <1>3, <2>1 DEF SpecType, Active
<1>5. ASSUME ~raced' PROVE Calm'
  <2>1. ~raced /\ ~Meets(p, op[p].id, TRUE)
    BY <1>5
  <2>2. Calm
    BY <2>1 DEF FilesInv
  <2>3. PICK id \in Ids : op[p].id = id
    BY <1>3
  <2>4. TargetRoot' = TargetRoot /\ DeletedIds' = DeletedIds
    BY DEF TargetRoot, SearchOrder, DeletedIds
  <2>5. pc[p] = "mark" => WritesMark(p)'
    BY <1>2, <2>4 DEF WritesMark, Hiding
  <2>6. pc[p] = "unmark" => Has(op[p].id, op[p].number)'
    BY <2>2, <2>4 DEF Calm, Midway, Has
  <2>7. pc[p] = "unmark" => WritesUnmark(p)'
    BY <1>2, <2>4, <2>6 DEF WritesUnmark, Hiding
  <2>8. Midway(p)'
    BY <1>3, <2>2, <2>5, <2>7 DEF Calm, Midway, WriteSteps
  <2>9. Kept(id)'
    BY <2>2, <2>4 DEF Calm, Kept, Has
  <2>10. \A q \in Procs \ {p} : ~AtDeleted(q)
    BY <2>1 DEF Meets, AtDeleted
  <2> QED
    BY <1>1, <1>2, <1>3, <1>4, <2>2, <2>3, <2>8, <2>9, <2>10, NoFileChanged
<1> QED
  BY <1>4, <1>5 DEF FilesInv

\* Unmark of an id nothing hides, and ClearDefault: the operation is done.
LEMMA ProfileDoneKeeps ==
    ASSUME FilesInv, NEW p \in Procs, EndOp(p),
           \/ /\ pc[p] = "unmark" /\ op[p].id \notin DeletedIds
              /\ Promised(p, Written(op[p].number))
           \/ pc[p] = "settings" /\ Promised(p, Gone),
           config' \in [overrides : BOOLEAN, local : BOOLEAN, default : Profiles \union {""}],
           config'.overrides = config.overrides, config'.local = config.local,
           UNCHANGED <<file, temp, begun, raced>>
    PROVE  FilesInv'
<1>1. SpecType /\ pc[p] # "idle" /\ pc[p] \in {"unmark", "settings"}
  BY DEF FilesInv
<1>2. op[p].id \in Ids /\ op[p].number \in Nat \ {0}
  BY <1>1, InOperation
<1>3. PICK id \in Ids : op[p].id = id
  BY <1>2
<1> DEFINE what == IF pc[p] = "unmark" THEN Written(op[p].number) ELSE Gone
<1>4. /\ promise' \in [Ids -> Promises]
      /\ \A i \in Ids \ {id} : promise'[i] = promise[i]
      /\ promise'[id] = what
  <2>1. what \in Promises
    BY <1>2 DEF Promises
  <2>2. promise' = [promise EXCEPT ![id] = what]
    BY <1>3 DEF Promised
  <2> QED
    BY <1>1, <2>1, <2>2 DEF SpecType
<1>5. SpecType'
  BY <1>1, <1>4, Ended DEF SpecType, Active
<1>6. ASSUME ~raced' PROVE Calm'
  <2>1. Calm /\ pc'[p] = "idle"
    BY <1>1, <1>6, Ended DEF FilesInv
  <2>2. TargetRoot' = TargetRoot /\ DeletedIds' = DeletedIds
    BY DEF TargetRoot, SearchOrder, DeletedIds
  <2>3. Midway(p)'
    BY <2>1 DEF Midway, WriteSteps
  <2>4. Kept(id)'
    <3>1. CASE pc[p] = "unmark"
      <4>1. PICK n \in Nat \ {0} : op[p].number = n
        BY <1>2
      <4>2. Has(id, n) /\ id \notin DeletedIds
        BY <1>3, <2>1, <3>1, <4>1 DEF Calm, Midway
      <4>3. promise'[id].by = n /\ promise'[id] # Gone
        BY <1>4, <3>1, <4>1, DocumentTypes
      <4> QED
        BY <2>2, <4>2, <4>3 DEF Kept, Has
    <3>2. CASE pc[p] = "settings"
      <4>1. id \in DeletedIds
        BY <1>3, <2>1, <3>2 DEF Calm, Midway
      <4>2. promise'[id] = Gone
        BY <1>4, <3>2
      <4>3. ~(promise'[id].by > 0)
        BY <4>2, DocumentTypes, Zenon
      <4> QED
        BY <2>2, <4>1, <4>3, Zenon DEF Kept
    <3> QED
      BY <1>1, <3>1, <3>2
  <2>5. \A q \in Procs \ {p} : pc'[q] = pc[q] /\ op'[q] = op[q] /\ writing'[q] = writing[q]
    BY <1>1, Ended
  <2>6. ~AtDeleted(p)'
    BY <2>1 DEF AtDeleted
  <2> QED
    BY <1>1, <1>3, <1>4, <1>5, <2>1, <2>3, <2>4, <2>5, <2>6, NoFileChanged
<1> QED
  BY <1>5, <1>6 DEF FilesInv

\* The two that remove a file of their id.
LEMMA RemoveKeeps ==
    ASSUME FilesInv, NEW p \in Procs, DeleteOther(p) \/ UnlinkProfile(p)
    PROVE  FilesInv'
<1>1. SpecType /\ pc[p] = "prepare" /\ UNCHANGED <<temp, config, begun, promise, raced>>
  BY DEF FilesInv, DeleteOther, UnlinkProfile
<1>2. op[p].id \in Ids
  BY <1>1, InOperation
<1>3. PICK id \in Ids : op[p].id = id
  BY <1>2
<1>4. PICK t \in Roots \X {id} : file' = [file EXCEPT ![t] = NoFile]
  <2>1. CASE DeleteOther(p)
    BY <1>1, <1>3, <2>1, SearchedRoots DEF DeleteOther
  <2>2. CASE UnlinkProfile(p)
    BY <1>1, <1>3, <2>2, FoundInRoots DEF UnlinkProfile
  <2> QED
    BY <2>1, <2>2
<1>5. t \in Targets /\ t # Deleted
  BY TargetsDiffer
<1>6. /\ \A q \in Procs \ {p} : pc'[q] = pc[q] /\ op'[q] = op[q] /\ writing'[q] = writing[q]
      /\ pc'[p] \in {"idle", "mark"}
      /\ pc'[p] = "mark" => op'[p].id = id
      /\ op' \in [Procs -> Ops \union {NoOp}]
      /\ pc' \in [Procs -> {"idle"} \union Active]
      /\ writing' \in [Procs -> [target : Targets, doc : Docs, next : {"done", "unmark", "settings"}]]
      /\ \A q \in Procs : pc'[q] # "idle" => op'[q] \in Ops
  <2>1. CASE DeleteOther(p)
    BY <1>1, <2>1, Ended DEF DeleteOther
  <2>2. CASE UnlinkProfile(p)
    <3>1. Goto(p, "mark") /\ op' = op /\ writing' = writing /\ "mark" \in Active
      BY <2>2 DEF UnlinkProfile, Active
    <3> QED
      BY <1>1, <1>3, <3>1, WentOn DEF SpecType
  <2> QED
    BY <2>1, <2>2
<1>7. SpecType'
  <2>1. file' \in [Targets -> Files]
    BY <1>1, <1>4, HeldFiles DEF SpecType
  <2> QED
    BY <1>1, <1>6, <2>1 DEF SpecType, Active
<1>8. ASSUME ~raced' PROVE Calm'
  <2>1. Calm
    BY <1>1, <1>8 DEF FilesInv
  <2>2. TargetRoot' = TargetRoot
    BY <1>1 DEF TargetRoot, SearchOrder
  <2>3. /\ file'[Deleted] = file[Deleted] /\ DeletedIds' = DeletedIds
        /\ \A u \in Targets : file'[u] = IF u = t THEN NoFile ELSE file[u]
    BY <1>1, <1>4, <1>5, TargetsDiffer DEF SpecType, DeletedIds
  <2>4. promise'[id] = Open
    BY <1>1, <1>3, <2>1 DEF Calm, Midway
  <2>5. Midway(p)'
    BY <1>6, <2>4 DEF Midway, WriteSteps
  <2>6. Kept(id)'
    BY <2>4, DocumentTypes DEF Kept
  <2>7. WholeFiles'
    BY <2>1, <2>3 DEF Calm, WholeFiles
  <2>8. TempsHeld'
    BY <1>1, <1>6, <2>1 DEF Calm, TempsHeld
  <2>9. ~AtDeleted(p)'
    BY <1>6 DEF AtDeleted
  <2>10. \A q \in Procs \ {p} : pc[q] # "idle" => op[q].id # id
    BY <1>1, <1>3, <2>1 DEF Calm, Apart
  <2>11. \A u \in Targets : file'[u] # file[u] => u \in Roots \X {id}
    BY <2>3
  <2> QED
    BY <1>1, <1>6, <1>7, <2>1, <2>2, <2>3, <2>5, <2>6, <2>7, <2>8, <2>9, <2>10, <2>11, OneProcess
<1> QED
  BY <1>7, <1>8 DEF FilesInv

-----------------------------------------------------------------------------
\* The temporary file is opened: nobody else is at it.
LEMMA OpenTempKeeps ==
    ASSUME FilesInv, NEW p \in Procs, OpenTemp(p)
    PROVE  FilesInv'
<1> DEFINE t == writing[p].target
<1> DEFINE others == IF temp[t] = NoFile THEN {} ELSE temp[t].writers
<1>1. /\ SpecType /\ pc[p] = "open" /\ Goto(p, "write") /\ "write" \in Active
      /\ UNCHANGED <<file, config, op, writing, begun, promise, raced>>
      /\ temp' = [temp EXCEPT ![t] = Holding(Torn, others \union {p})]
  BY DEF FilesInv, OpenTemp, Active, WriteSteps
<1>2. t \in Targets /\ temp[t] \in Files
  BY <1>1 DEF SpecType
<1>3. others \in SUBSET Procs
  BY <1>2, HeldFiles
<1>4. /\ pc'[p] = "write"
      /\ \A q \in Procs \ {p} : pc'[q] = pc[q] /\ op'[q] = op[q]
      /\ op' \in [Procs -> Ops \union {NoOp}]
      /\ pc' \in [Procs -> {"idle"} \union Active]
      /\ \A q \in Procs : pc'[q] # "idle" => op'[q] \in Ops
      /\ op[p].id \in Ids
  BY <1>1, WentOn
<1>5. SpecType'
  <2>1. others \union {p} \in SUBSET Procs
    BY <1>3
  <2>2. Holding(Torn, others \union {p}) \in Files
    BY <2>1, DocumentTypes, HeldFiles
  <2>3. temp' \in [Targets -> Files]
    BY <1>1, <1>2, <2>2 DEF SpecType
  <2> QED
    BY <1>1, <1>4, <2>3 DEF SpecType, Active
<1>6. ASSUME ~raced' PROVE Calm'
  <2>1. Calm
    BY <1>1, <1>6 DEF FilesInv
  <2>2. PICK id \in Ids : op[p].id = id
    BY <1>4
  <2>3. others = {}
    <3> SUFFICES ASSUME temp[t] # NoFile, NEW q \in temp[t].writers PROVE FALSE
      OBVIOUS
    <3>1. q \in Procs /\ pc[q] = "write" /\ writing[q].target = t
      BY <1>2, <2>1 DEF Calm, TempsHeld
    <3> QED
      BY <1>1, <2>1, <3>1, TargetsApart DEF WriteSteps
  <2>4. /\ temp'[t] = Holding(Torn, {p})
        /\ \A u \in Targets : u # t => temp'[u] = temp[u]
    BY <1>1, <1>2, <2>3 DEF SpecType
  <2>5. TargetRoot' = TargetRoot /\ DeletedIds' = DeletedIds
    BY <1>1 DEF TargetRoot, SearchOrder, DeletedIds
  <2>6. WritesOwn(p)' \/ WritesMark(p)' \/ WritesUnmark(p)'
    <3>1. WritesOwn(p) \/ WritesMark(p) \/ WritesUnmark(p)
      BY <1>1, <2>1 DEF Calm, Midway, WriteSteps
    <3>2. WritesOwn(p) => WritesOwn(p)'
      BY <1>1, <2>5 DEF WritesOwn, Document, AfterWrite
    <3>3. WritesMark(p) => WritesMark(p)'
      BY <1>1, <2>5 DEF WritesMark, Hiding
    <3>4. WritesUnmark(p) => WritesUnmark(p)'
      BY <1>1, <2>5 DEF WritesUnmark, Hiding, Has
    <3> QED
      BY <3>1, <3>2, <3>3, <3>4
  <2>7. Midway(p)'
    <3>1. promise'[op'[p].id] = Open
      BY <1>1, <2>1 DEF Calm, Midway
    <3> QED
      BY <1>1, <1>4, <2>4, <2>6, <3>1 DEF Midway, Holding, Torn
  <2>8. Kept(id)'
    BY <1>1, <2>1, <2>5 DEF Calm, Kept, Has
  <2>9. WholeFiles'
    BY <1>1, <2>1 DEF Calm, WholeFiles
  <2>10. TempsHeld'
    <3> SUFFICES ASSUME NEW u \in Targets, temp'[u] # NoFile, NEW q \in temp'[u].writers
                 PROVE  q \in Procs /\ pc'[q] = "write" /\ writing'[q].target = u
      BY DEF TempsHeld
    <3>1. CASE u = t
      BY <1>1, <1>4, <2>4, <3>1, DocumentTypes, HeldFiles
    <3>2. CASE u # t
      <4>1. q \in Procs /\ pc[q] = "write" /\ writing[q].target = u
        BY <2>1, <2>4, <3>2 DEF Calm, TempsHeld
      <4> QED
        BY <1>1, <1>4, <4>1
    <3> QED
      BY <3>1, <3>2
  <2>11. AtDeleted(p)' => \A q \in Procs \ {p} : ~AtDeleted(q)
    <3>1. AtDeleted(p)' => AtDeleted(p) /\ pc[p] # "idle"
      BY <1>1 DEF AtDeleted
    <3>2. \A q \in Procs : AtDeleted(q) => pc[q] # "idle"
      BY DEF AtDeleted
    <3> QED
      BY <2>1, <3>1, <3>2 DEF Calm, Apart
  <2>12. \A q \in Procs \ {p} : pc[q] # "idle" => op[q].id # id
    BY <1>1, <2>1, <2>2 DEF Calm, Apart
  <2>13. pc[p] \in WriteSteps /\ \A u \in Targets : temp'[u] # temp[u] => t = u
    BY <1>1, <2>4 DEF WriteSteps
  <2> QED
    BY <1>1, <1>4, <1>5, <2>1, <2>2, <2>5, <2>7, <2>8, <2>9, <2>10, <2>11, <2>12, <2>13, OneProcess
<1> QED
  BY <1>5, <1>6 DEF FilesInv

\* A document is in place and its writer gone.
LEMMA WroteFile ==
    ASSUME NEW f \in Files \ {NoFile}, NEW p \in Procs, NEW doc \in Docs
    PROVE  /\ Wrote(f, p, doc) = Holding(doc, f.writers \ {p})
           /\ Wrote(f, p, doc) \in Files
<1>1. f.writers \ {p} \in SUBSET Procs
  BY HeldFiles
<1> QED
  BY <1>1, HeldFiles DEF Wrote

\* The document is written: into a temporary file of this process alone.
LEMMA WriteDocumentKeeps ==
    ASSUME FilesInv, NEW p \in Procs, WriteDocument(p)
    PROVE  FilesInv'
<1> DEFINE t == writing[p].target
<1> DEFINE Holds(f) == f # NoFile /\ p \in f.writers
<1> DEFINE Results(f) == IF f.doc = Torn THEN {writing[p].doc} ELSE {writing[p].doc, Torn}
<1>1. /\ SpecType /\ pc[p] = "write" /\ Goto(p, "replace") /\ "replace" \in Active
      /\ UNCHANGED <<config, op, writing, begun, promise, raced>>
  BY DEF FilesInv, WriteDocument, Active, WriteSteps
<1>2. \/ /\ Holds(temp[t])
         /\ \E d \in Results(temp[t]) : temp' = [temp EXCEPT ![t] = Wrote(temp[t], p, d)]
         /\ file' = file
      \/ /\ ~Holds(temp[t]) /\ Holds(file[t])
         /\ \E d \in Results(file[t]) : file' = [file EXCEPT ![t] = Wrote(file[t], p, d)]
         /\ temp' = temp
      \/ /\ ~Holds(temp[t]) /\ file' = file /\ temp' = temp
  BY DEF WriteDocument
<1>3. t \in Targets /\ temp[t] \in Files /\ file[t] \in Files /\ writing[p].doc \in Docs
  BY <1>1 DEF SpecType
<1>4. /\ pc'[p] = "replace"
      /\ \A q \in Procs \ {p} : pc'[q] = pc[q] /\ op'[q] = op[q]
      /\ op' \in [Procs -> Ops \union {NoOp}]
      /\ pc' \in [Procs -> {"idle"} \union Active]
      /\ \A q \in Procs : pc'[q] # "idle" => op'[q] \in Ops
      /\ op[p].id \in Ids
  BY <1>1, WentOn
<1>5. SpecType'
  <2>1. temp' \in [Targets -> Files] /\ file' \in [Targets -> Files]
    <3>1. \A f \in Files : \A d \in Results(f) : Holds(f) => Wrote(f, p, d) \in Files
      BY <1>3, DocumentTypes, WroteFile
    <3> HIDE DEF Results, Holds, t
    <3>2. CASE /\ Holds(temp[t])
               /\ \E d \in Results(temp[t]) : temp' = [temp EXCEPT ![t] = Wrote(temp[t], p, d)]
               /\ file' = file
      <4>1. PICK d \in Results(temp[t]) : temp' = [temp EXCEPT ![t] = Wrote(temp[t], p, d)]
        BY <3>2
      <4>2. Wrote(temp[t], p, d) \in Files
        BY <1>3, <3>1, <3>2
      <4> QED
        BY <1>1, <3>2, <4>1, <4>2 DEF SpecType
    <3>3. CASE /\ ~Holds(temp[t]) /\ Holds(file[t])
               /\ \E d \in Results(file[t]) : file' = [file EXCEPT ![t] = Wrote(file[t], p, d)]
               /\ temp' = temp
      <4>1. PICK d \in Results(file[t]) : file' = [file EXCEPT ![t] = Wrote(file[t], p, d)]
        BY <3>3
      <4>2. Wrote(file[t], p, d) \in Files
        BY <1>3, <3>1, <3>3
      <4> QED
        BY <1>1, <3>3, <4>1, <4>2 DEF SpecType
    <3>4. CASE ~Holds(temp[t]) /\ file' = file /\ temp' = temp
      BY <1>1, <3>4 DEF SpecType
    <3> QED
      BY <1>2, <3>2, <3>3, <3>4
  <2> QED
    BY <1>1, <1>4, <2>1 DEF SpecType, Active
<1>6. ASSUME ~raced' PROVE Calm'
  <2>1. Calm
    BY <1>1, <1>6 DEF FilesInv
  <2>2. PICK id \in Ids : op[p].id = id
    BY <1>4
  <2>3. temp[t] = Holding(Torn, {p}) /\ Torn \in Docs /\ {p} \in SUBSET Procs
    BY <1>1, <2>1, DocumentTypes DEF Calm, Midway
  <2>4. temp[t] # NoFile /\ temp[t].writers = {p} /\ temp[t].doc = Torn
    BY <2>3, HeldFiles
  <2>5. temp' = [temp EXCEPT ![t] = Wrote(temp[t], p, writing[p].doc)] /\ file' = file
    BY <1>2, <2>4
  <2>6. Wrote(temp[t], p, writing[p].doc) = Holding(writing[p].doc, {})
    BY <2>4 DEF Wrote
  <2>7. /\ temp'[t] = Holding(writing[p].doc, {})
        /\ \A u \in Targets : u # t => temp'[u] = temp[u]
    BY <1>1, <1>3, <2>5, <2>6 DEF SpecType
  <2>8. TargetRoot' = TargetRoot /\ DeletedIds' = DeletedIds
    BY <1>1, <2>5 DEF TargetRoot, SearchOrder, DeletedIds
  <2>9. WritesOwn(p)' \/ WritesMark(p)' \/ WritesUnmark(p)'
    <3>1. WritesOwn(p) \/ WritesMark(p) \/ WritesUnmark(p)
      BY <1>1, <2>1 DEF Calm, Midway, WriteSteps
    <3>2. WritesOwn(p) => WritesOwn(p)'
      BY <1>1, <2>5, <2>8 DEF WritesOwn, Document, AfterWrite
    <3>3. WritesMark(p) => WritesMark(p)'
      BY <1>1, <2>8 DEF WritesMark, Hiding
    <3>4. WritesUnmark(p) => WritesUnmark(p)'
      BY <1>1, <2>5, <2>8 DEF WritesUnmark, Hiding, Has
    <3> QED
      BY <3>1, <3>2, <3>3, <3>4
  <2>10. Midway(p)'
    <3>1. promise'[op'[p].id] = Open
      BY <1>1, <2>1 DEF Calm, Midway
    <3>2. temp'[writing'[p].target] = Holding(writing'[p].doc, {})
      BY <1>1, <2>7
    <3> QED
      BY <1>4, <2>9, <3>1, <3>2 DEF Midway, Holding
  <2>11. Kept(id)'
    BY <1>1, <2>1, <2>5, <2>8 DEF Calm, Kept, Has
  <2>12. WholeFiles'
    BY <2>1, <2>5 DEF Calm, WholeFiles
  <2>13. TempsHeld'
    <3> SUFFICES ASSUME NEW u \in Targets, temp'[u] # NoFile, NEW q \in temp'[u].writers
                 PROVE  q \in Procs /\ pc'[q] = "write" /\ writing'[q].target = u
      BY DEF TempsHeld
    <3>1. CASE u = t
      BY <2>7, <3>1 DEF Holding
    <3>2. CASE u # t
      <4>1. q \in Procs /\ pc[q] = "write" /\ writing[q].target = u
        BY <2>1, <2>7, <3>2 DEF Calm, TempsHeld
      <4> QED
        BY <1>1, <1>4, <3>2, <4>1
    <3> QED
      BY <3>1, <3>2
  <2>14. AtDeleted(p)' => \A q \in Procs \ {p} : ~AtDeleted(q)
    <3>1. AtDeleted(p)' => AtDeleted(p) /\ pc[p] # "idle"
      BY <1>1 DEF AtDeleted
    <3>2. \A q \in Procs : AtDeleted(q) => pc[q] # "idle"
      BY DEF AtDeleted
    <3> QED
      BY <2>1, <3>1, <3>2 DEF Calm, Apart
  <2>15. \A q \in Procs \ {p} : pc[q] # "idle" => op[q].id # id
    BY <1>1, <2>1, <2>2 DEF Calm, Apart
  <2>16. pc[p] \in WriteSteps /\ \A u \in Targets : temp'[u] # temp[u] => t = u
    BY <1>1, <2>7 DEF WriteSteps
  <2> QED
    BY <1>1, <1>4, <1>5, <2>1, <2>2, <2>5, <2>8, <2>10, <2>11, <2>12, <2>13, <2>14, <2>15,
       <2>16, OneProcess
<1> QED
  BY <1>5, <1>6 DEF FilesInv

\* What a replace leaves of the process: it is done, or goes on.
LEMMA ReplaceGoesOn ==
    ASSUME SpecType, NEW p \in Procs, Replace(p)
    PROVE  /\ \A q \in Procs \ {p} : pc'[q] = pc[q] /\ op'[q] = op[q] /\ writing'[q] = writing[q]
           /\ op' \in [Procs -> Ops \union {NoOp}]
           /\ pc' \in [Procs -> {"idle"} \union Active]
           /\ writing' \in [Procs -> [target : Targets, doc : Docs, next : {"done", "unmark", "settings"}]]
           /\ \A q \in Procs : pc'[q] # "idle" => op'[q] \in Ops
           /\ promise' \in [Ids -> Promises]
           /\ \A i \in Ids : i # op[p].id => promise'[i] = promise[i]
           /\ writing[p].next = "done" =>
                 pc'[p] = "idle" /\ promise'[op[p].id] = Written(op[p].number)
           /\ writing[p].next # "done" =>
                 pc'[p] = writing[p].next /\ op'[p] = op[p] /\ promise' = promise
           /\ pc'[p] \in {"idle", "unmark", "settings"}
<1>1. pc[p] = "replace" /\ op[p].id \in Ids /\ op[p].number \in Nat \ {0}
  BY InOperation DEF Replace
<1>2. writing[p].next \in {"done", "unmark", "settings"}
  BY DEF SpecType
<1>3. CASE writing[p].next = "done"
  <2>1. EndOp(p) /\ promise' = [promise EXCEPT ![op[p].id] = Written(op[p].number)]
    BY <1>3 DEF Replace, Promised
  <2>2. Written(op[p].number) \in Promises
    BY <1>1 DEF Promises
  <2>3. /\ promise' \in [Ids -> Promises]
        /\ \A i \in Ids : i # op[p].id => promise'[i] = promise[i]
        /\ promise'[op[p].id] = Written(op[p].number)
    BY <1>1, <2>1, <2>2 DEF SpecType
  <2> QED
    BY <1>3, <2>1, <2>3, Ended
<1>4. CASE writing[p].next # "done"
  <2>1. Goto(p, writing[p].next) /\ UNCHANGED <<op, writing, promise>>
    BY <1>4 DEF Replace
  <2>2. writing[p].next \in Active /\ writing[p].next \in {"unmark", "settings"}
    BY <1>2, <1>4 DEF Active
  <2>3. /\ pc'[p] = writing[p].next
        /\ \A q \in Procs \ {p} : pc'[q] = pc[q] /\ op'[q] = op[q]
        /\ op' \in [Procs -> Ops \union {NoOp}]
        /\ pc' \in [Procs -> {"idle"} \union Active]
        /\ \A q \in Procs : pc'[q] # "idle" => op'[q] \in Ops
    BY <1>1, <2>1, <2>2, WentOn
  <2> QED
    BY <1>4, <2>1, <2>2, <2>3 DEF SpecType
<1> QED
  BY <1>3, <1>4

\* The temporary file takes the target's place.
LEMMA ReplaceKeeps ==
    ASSUME FilesInv, NEW p \in Procs, Replace(p)
    PROVE  FilesInv'
<1> DEFINE t == writing[p].target
<1>1. /\ SpecType /\ pc[p] = "replace" /\ UNCHANGED <<config, begun, raced>>
      /\ temp[t] # NoFile
      /\ file' = [file EXCEPT ![t] = temp[t]] /\ temp' = [temp EXCEPT ![t] = NoFile]
  BY DEF FilesInv, Replace
<1>2. t \in Targets /\ temp[t] \in Files /\ writing[p].doc \in Docs
  BY <1>1 DEF SpecType
<1>3. PICK id \in Ids, n \in Nat \ {0} : op[p].id = id /\ op[p].number = n
  BY <1>1, InOperation
<1>4. /\ \A q \in Procs \ {p} : pc'[q] = pc[q] /\ op'[q] = op[q] /\ writing'[q] = writing[q]
      /\ op' \in [Procs -> Ops \union {NoOp}]
      /\ pc' \in [Procs -> {"idle"} \union Active]
      /\ writing' \in [Procs -> [target : Targets, doc : Docs, next : {"done", "unmark", "settings"}]]
      /\ \A q \in Procs : pc'[q] # "idle" => op'[q] \in Ops
      /\ promise' \in [Ids -> Promises]
      /\ \A i \in Ids \ {id} : promise'[i] = promise[i]
      /\ writing[p].next = "done" => pc'[p] = "idle" /\ promise'[id] = Written(n)
      /\ writing[p].next # "done" => pc'[p] = writing[p].next /\ op'[p] = op[p] /\ promise' = promise
      /\ pc'[p] \in {"idle", "unmark", "settings"}
  BY <1>1, <1>3, ReplaceGoesOn
<1>5. SpecType'
  <2>1. file' \in [Targets -> Files] /\ temp' \in [Targets -> Files]
    BY <1>1, <1>2, HeldFiles DEF SpecType
  <2> QED
    BY <1>1, <1>4, <2>1 DEF SpecType, Active
<1>6. ASSUME ~raced' PROVE Calm'
  <2>1. Calm
    BY <1>1, <1>6 DEF FilesInv
  <2>2. TargetRoot' = TargetRoot /\ TargetRoot \in Roots
    BY <1>1, SearchedRoots DEF TargetRoot, SearchOrder
  <2>3. /\ file'[t] = Holding(writing[p].doc, {}) /\ temp'[t] = NoFile
        /\ \A u \in Targets : u # t => file'[u] = file[u] /\ temp'[u] = temp[u]
    BY <1>1, <1>2, <2>1 DEF Calm, Midway, SpecType
  <2>4. file'[t] # NoFile /\ file'[t].doc = writing[p].doc /\ file'[t].writers = {}
    BY <1>2, <2>3, HeldFiles
  <2>5. WritesOwn(p) \/ WritesMark(p) \/ WritesUnmark(p)
    BY <1>1, <2>1 DEF Calm, Midway, WriteSteps
  <2>6. promise[id] = Open
    BY <1>1, <1>3, <2>1 DEF Calm, Midway
  <2>7. DeletedIds \in SUBSET Ids /\ <<TargetRoot, id>> \in Targets /\ <<TargetRoot, id>> # Deleted
    BY <1>1, <2>2, DeletedIdsType, TargetsDiffer
  <2>8. TempsHeld'
    <3> SUFFICES ASSUME NEW u \in Targets, temp'[u] # NoFile, NEW q \in temp'[u].writers
                 PROVE  q \in Procs /\ pc'[q] = "write" /\ writing'[q].target = u
      BY DEF TempsHeld
    <3>1. u # t /\ temp'[u] = temp[u]
      BY <2>3
    <3>2. q \in Procs /\ pc[q] = "write" /\ writing[q].target = u
      BY <2>1, <3>1 DEF Calm, TempsHeld
    <3> QED
      BY <1>1, <1>4, <3>1, <3>2
  <2>9. ASSUME ~writing[p].doc.torn,
               t # Deleted => writing[p].doc = Document(writing[p].doc.by)
        PROVE  WholeFiles'
    <3> SUFFICES ASSUME NEW u \in Targets, file'[u] # NoFile
                 PROVE  /\ file'[u].writers = {} /\ ~file'[u].doc.torn
                        /\ u # Deleted => file'[u].doc = Document(file'[u].doc.by)
      BY DEF WholeFiles
    <3>1. CASE u = t
      BY <2>4, <2>9, <3>1
    <3>2. CASE u # t
      BY <2>1, <2>3, <3>2 DEF Calm, WholeFiles
    <3> QED
      BY <3>1, <3>2
  <2>10. /\ WholeFiles'
         /\ Midway(p)'
         /\ Kept(id)'
         /\ t \in Roots \X {id} \/ (t = Deleted /\ AtDeleted(p))
         /\ \A i \in Ids \ {id} : i \in DeletedIds' <=> i \in DeletedIds
    <3>1. CASE WritesOwn(p)
      <4>1. t = <<TargetRoot, id>> /\ writing[p].doc = Document(n) /\ writing[p].next = AfterWrite(id)
        BY <1>3, <3>1 DEF WritesOwn
      <4>2. DeletedIds' = DeletedIds
        BY <2>3, <2>7, <4>1, TargetsDiffer DEF DeletedIds
      <4>3. Has(id, n)'
        BY <2>2, <2>4, <4>1 DEF Has
      <4>4. WholeFiles'
        BY <1>3, <2>9, <4>1, DocumentTypes
      <4>5. CASE id \in Profiles
        <5>1. pc'[p] = "unmark" /\ op'[p].id = id /\ op'[p].number = n /\ promise'[id] = Open
          BY <1>3, <1>4, <2>6, <4>1, <4>5 DEF AfterWrite
        <5>2. Has(op[p].id, op[p].number)'
          BY <4>3, <5>1 DEF Has
        <5>3. Midway(p)' /\ Kept(id)'
          BY <5>1, <5>2, DocumentTypes DEF Midway, Kept, WriteSteps
        <5> QED
          BY <2>2, <4>1, <4>2, <4>4, <5>3
      <4>6. CASE id \notin Profiles
        <5>1. pc'[p] = "idle" /\ promise'[id] = Written(n)
          BY <1>4, <4>1, <4>6 DEF AfterWrite
        <5>2. promise'[id] # Gone /\ promise'[id].by = n
          BY <5>1, DocumentTypes
        <5>3. Kept(id)'
          BY <4>3, <4>6, <5>2 DEF Kept, Has
        <5>4. Midway(p)'
          BY <5>1 DEF Midway, WriteSteps
        <5> QED
          BY <2>2, <4>1, <4>2, <4>4, <5>3, <5>4
      <4> QED
        BY <4>5, <4>6
    <3>2. CASE WritesMark(p)
      <4>1. /\ t = Deleted /\ writing[p].doc = Hiding(DeletedIds \union {id})
            /\ writing[p].next = "settings"
        BY <1>3, <3>2 DEF WritesMark
      <4>2. DeletedIds \union {id} \in SUBSET Ids
        BY <2>7
      <4>3. DeletedIds' = DeletedIds \union {id}
        BY <2>4, <4>1, <4>2, DocumentTypes DEF DeletedIds
      <4>4. WholeFiles'
        BY <2>9, <4>1, <4>2, DocumentTypes
      <4>5. pc'[p] = "settings" /\ op'[p].id = id /\ promise'[id] = Open
        BY <1>3, <1>4, <2>6, <4>1
      <4>6. Midway(p)' /\ Kept(id)'
        BY <4>3, <4>5, DocumentTypes DEF Midway, Kept, WriteSteps
      <4>7. AtDeleted(p)
        BY <1>1, <4>1 DEF AtDeleted
      <4> QED
        BY <4>1, <4>3, <4>4, <4>6, <4>7
    <3>3. CASE WritesUnmark(p)
      <4>1. /\ t = Deleted /\ writing[p].doc = Hiding(DeletedIds \ {id})
            /\ writing[p].next = "done" /\ Has(id, n)
        BY <1>3, <3>3 DEF WritesUnmark
      <4>2. DeletedIds \ {id} \in SUBSET Ids
        BY <2>7
      <4>3. DeletedIds' = DeletedIds \ {id}
        BY <2>4, <4>1, <4>2, DocumentTypes DEF DeletedIds
      <4>4. WholeFiles'
        BY <2>9, <4>1, <4>2, DocumentTypes
      <4>5. pc'[p] = "idle" /\ promise'[id] = Written(n)
        BY <1>4, <4>1
      <4>6. promise'[id] # Gone /\ promise'[id].by = n
        BY <4>5, DocumentTypes
      <4>7. Has(id, n)'
        BY <2>2, <2>3, <2>7, <4>1 DEF Has
      <4>8. Kept(id)'
        BY <4>3, <4>6, <4>7 DEF Kept, Has
      <4>9. Midway(p)' /\ AtDeleted(p)
        BY <1>1, <4>1, <4>5 DEF Midway, WriteSteps, AtDeleted
      <4> QED
        BY <4>1, <4>3, <4>4, <4>8, <4>9
    <3> QED
      BY <2>5, <3>1, <3>2, <3>3
  <2>11. ~AtDeleted(p)'
    BY <1>4 DEF AtDeleted
  <2>12. \A q \in Procs \ {p} : pc[q] # "idle" => op[q].id # id
    BY <1>1, <1>3, <2>1 DEF Calm, Apart
  <2>13. pc[p] \in WriteSteps /\ \A u \in Targets : temp'[u] # temp[u] => t = u
    BY <1>1, <2>3 DEF WriteSteps
  <2>14. \A u \in Targets : file'[u] # file[u] =>
             u \in Roots \X {id} \/ (u = Deleted /\ pc[p] # "idle" /\ AtDeleted(p))
    BY <1>1, <2>3, <2>10
  <2>15. pc'[p] # "idle" => op'[p].id = id
    BY <1>3, <1>4
  <2> QED
    BY <1>1, <1>4, <1>5, <2>1, <2>2, <2>8, <2>10, <2>11, <2>12, <2>13, <2>14, <2>15, OneProcess
<1> QED
  BY <1>5, <1>6 DEF FilesInv

-----------------------------------------------------------------------------
\* Files that agree everywhere are the same.
LEMMA SameFiles ==
    ASSUME NEW f \in [Targets -> Files], NEW g \in [Targets -> Files],
           \A t \in Targets : f[t] = g[t]
    PROVE  f = g
  OBVIOUS

\* A process that dies lets go of its files and leaves their documents.
LEMMA AbandonedFiles ==
    ASSUME NEW files \in [Targets -> Files], NEW p \in Procs
    PROVE  /\ Abandon(files, p) \in [Targets -> Files]
           /\ \A t \in Targets :
                 /\ files[t] = NoFile => Abandon(files, p)[t] = NoFile
                 /\ files[t] # NoFile =>
                       /\ Abandon(files, p)[t] # NoFile
                       /\ Abandon(files, p)[t].doc = files[t].doc
                       /\ Abandon(files, p)[t].writers = files[t].writers \ {p}
                 /\ files[t] # NoFile /\ p \notin files[t].writers =>
                       Abandon(files, p)[t] = files[t]
<1>1. \A f \in Files \ {NoFile} :
          LET g == Holding(f.doc, f.writers \ {p})
          IN  /\ g \in Files /\ g # NoFile /\ g.doc = f.doc /\ g.writers = f.writers \ {p}
              /\ p \notin f.writers => g = f
  <2> SUFFICES ASSUME NEW f \in Files \ {NoFile}
               PROVE  LET g == Holding(f.doc, f.writers \ {p})
                      IN  /\ g \in Files /\ g # NoFile /\ g.doc = f.doc
                          /\ g.writers = f.writers \ {p}
                          /\ p \notin f.writers => g = f
    OBVIOUS
  <2>1. f.writers \ {p} \in SUBSET Procs /\ f.doc \in Docs /\ f = Holding(f.doc, f.writers)
    BY HeldFiles
  <2>2. p \notin f.writers => f.writers \ {p} = f.writers
    OBVIOUS
  <2> QED
    BY <2>1, <2>2, HeldFiles
<1>2. \A t \in Targets : files[t] \in Files
  OBVIOUS
<1> QED
  BY <1>1, <1>2, HeldFiles DEF Abandon

\* A process dies: what it held open was its temporary file, if anything.
LEMMA CrashKeeps ==
    ASSUME FilesInv, NEW p \in Procs, Crash(p)
    PROVE  FilesInv'
<1>1. /\ SpecType /\ pc[p] # "idle" /\ EndOp(p)
      /\ file' = Abandon(file, p) /\ temp' = Abandon(temp, p)
      /\ UNCHANGED <<config, begun, promise, raced>>
  BY DEF FilesInv, Crash
<1>2. file \in [Targets -> Files] /\ temp \in [Targets -> Files]
  BY <1>1 DEF SpecType
<1>3. SpecType'
  <2>1. file' \in [Targets -> Files] /\ temp' \in [Targets -> Files]
    BY <1>1, <1>2, AbandonedFiles
  <2> QED
    BY <1>1, <2>1, Ended DEF SpecType, Active
<1>4. ASSUME ~raced' PROVE Calm'
  <2>1. Calm /\ pc'[p] = "idle"
    BY <1>1, <1>4, Ended DEF FilesInv
  <2>2. PICK id \in Ids : op[p].id = id
    BY <1>1, InOperation
  <2>3. file' = file
    <3>1. \A t \in Targets : file[t] # NoFile => p \notin file[t].writers
      BY <2>1 DEF Calm, WholeFiles
    <3>2. \A t \in Targets : file'[t] = file[t]
      BY <1>1, <1>2, <3>1, AbandonedFiles
    <3>3. file' \in [Targets -> Files]
      BY <1>3 DEF SpecType
    <3> QED
      BY <1>2, <3>2, <3>3, SameFiles
  <2>4. ASSUME NEW t \in Targets, temp'[t] # temp[t]
        PROVE  pc[p] \in WriteSteps /\ writing[p].target = t
    <3>1. temp[t] # NoFile /\ p \in temp[t].writers
      BY <1>1, <1>2, <2>4, AbandonedFiles
    <3> QED
      BY <2>1, <3>1 DEF Calm, TempsHeld, WriteSteps
  <2>5. TargetRoot' = TargetRoot /\ DeletedIds' = DeletedIds
    BY <1>1, <2>3 DEF TargetRoot, SearchOrder, DeletedIds
  <2>6. WholeFiles'
    BY <2>1, <2>3 DEF Calm, WholeFiles
  <2>7. \A q \in Procs \ {p} : pc'[q] = pc[q] /\ op'[q] = op[q] /\ writing'[q] = writing[q]
    BY <1>1, Ended
  <2>8. TempsHeld'
    <3> SUFFICES ASSUME NEW t \in Targets, temp'[t] # NoFile, NEW q \in temp'[t].writers
                 PROVE  q \in Procs /\ pc'[q] = "write" /\ writing'[q].target = t
      BY DEF TempsHeld
    <3>1. temp[t] # NoFile /\ q \in temp[t].writers /\ q # p
      BY <1>1, <1>2, AbandonedFiles
    <3>2. q \in Procs /\ pc[q] = "write" /\ writing[q].target = t
      BY <2>1, <3>1 DEF Calm, TempsHeld
    <3> QED
      BY <2>7, <3>1, <3>2
  <2>9. Midway(p)'
    BY <2>1 DEF Midway, WriteSteps
  <2>10. Kept(id)'
    BY <1>1, <2>1, <2>3, <2>5 DEF Calm, Kept, Has
  <2>11. ~AtDeleted(p)'
    BY <2>1 DEF AtDeleted
  <2>12. \A q \in Procs \ {p} : pc[q] # "idle" => op[q].id # id
    BY <1>1, <2>1, <2>2 DEF Calm, Apart
  <2> QED
    BY <1>1, <1>3, <2>1, <2>3, <2>4, <2>5, <2>6, <2>7, <2>8, <2>9, <2>10, <2>11, <2>12, OneProcess
<1> QED
  BY <1>3, <1>4 DEF FilesInv

\* An operation begins, on an id that no other is at.
LEMMA BeginKeeps ==
    ASSUME FilesInv, NEW p \in Procs, NEW r \in Requests(p), Begin(p, r)
    PROVE  FilesInv'
<1>1. r.kind \in Kinds /\ r.id \in Ids
  BY DEF Requests, Kinds, Ids
<1>2. PICK id \in Ids : r.id = id
  BY <1>1
<1> DEFINE new == [kind |-> r.kind, id |-> id, number |-> begun + 1]
<1>3. /\ SpecType /\ pc[p] = "idle" /\ begun \in Nat
      /\ begun' = begun + 1
      /\ op' = [op EXCEPT ![p] = new]
      /\ pc' = [pc EXCEPT ![p] = "prepare"]
      /\ promise' = [promise EXCEPT ![id] = Open]
      /\ raced' = (raced \/ Meets(p, id, FALSE))
      /\ UNCHANGED <<file, temp, config, writing>>
  BY <1>2 DEF FilesInv, SpecType, Begin, Goto
<1>4. new \in Ops /\ new.id = id
  <2>1. begun + 1 \in Nat \ {0}
    BY <1>3
  <2> QED
    BY <1>1, <2>1 DEF Ops
<1> HIDE DEF new
<1>5. /\ op' \in [Procs -> Ops \union {NoOp}]
      /\ pc' \in [Procs -> {"idle"} \union Active]
      /\ op'[p] = new /\ pc'[p] = "prepare"
      /\ \A q \in Procs \ {p} : pc'[q] = pc[q] /\ op'[q] = op[q]
      /\ promise' \in [Ids -> Promises]
      /\ promise'[id] = Open
      /\ \A i \in Ids \ {id} : promise'[i] = promise[i]
  <2>1. Open \in Promises
    BY DEF Promises
  <2> QED
    BY <1>3, <1>4, <2>1 DEF SpecType, Active
<1>6. SpecType'
  <2>1. raced' \in BOOLEAN
    BY <1>3 DEF SpecType, Meets
  <2>2. begun' \in Nat
    BY <1>3
  <2>3. \A q \in Procs : pc'[q] # "idle" => op'[q] \in Ops
    BY <1>3, <1>4, <1>5 DEF SpecType
  <2> QED
    BY <1>3, <1>5, <2>1, <2>2, <2>3 DEF SpecType, Active
<1>7. ASSUME ~raced' PROVE Calm'
  <2>1. ~raced /\ ~Meets(p, id, FALSE)
    BY <1>3, <1>7
  <2>2. Calm
    BY <2>1 DEF FilesInv
  <2>3. \A q \in Procs \ {p} : pc[q] # "idle" => op[q].id # id
    BY <2>1 DEF Meets
  <2>4. TargetRoot' = TargetRoot /\ DeletedIds' = DeletedIds
    BY <1>3 DEF TargetRoot, SearchOrder, DeletedIds
  <2>5. Midway(p)'
    <3>1. promise'[op'[p].id] = Open
      BY <1>4, <1>5
    <3> QED
      BY <1>5, <3>1 DEF Midway, WriteSteps
  <2>6. Kept(id)'
    BY <1>5, DocumentTypes DEF Kept
  <2>7. WholeFiles'
    BY <1>3, <2>2 DEF Calm, WholeFiles
  <2>8. TempsHeld'
    BY <1>3, <1>5, <2>2 DEF Calm, TempsHeld
  <2>9. ~AtDeleted(p)'
    BY <1>5 DEF AtDeleted
  <2> QED
    BY <1>3, <1>4, <1>5, <1>6, <2>2, <2>3, <2>4, <2>5, <2>6, <2>7, <2>8, <2>9, OneProcess
<1> QED
  BY <1>6, <1>7 DEF FilesInv

\* The settings change while nothing is in an operation: only deletes remain
\* promised.
LEMMA UpdateConfigKeeps ==
    ASSUME FilesInv, UpdateConfig
    PROVE  FilesInv'
<1>1. /\ SpecType /\ begun' = begun + 1
      /\ promise' = [id \in Ids |-> IF promise[id] = Gone THEN Gone ELSE Open]
      /\ raced' = (raced \/ \E q \in Procs : pc[q] # "idle")
      /\ UNCHANGED <<file, temp, op, pc, writing>>
  BY DEF FilesInv, UpdateConfig
<1>2. config' \in [overrides : BOOLEAN, local : BOOLEAN, default : Profiles \union {""}]
  <2>1. config \in [overrides : BOOLEAN, local : BOOLEAN, default : Profiles \union {""}]
    BY <1>1 DEF SpecType
  <2>2. CASE \E id \in Profiles : config' = [config EXCEPT !.default = id]
    BY <2>1, <2>2, Zenon
  <2>3. CASE config' = [config EXCEPT !.overrides = ~config.overrides]
    BY <2>1, <2>3, Zenon
  <2> QED
    BY <2>2, <2>3, Zenon DEF UpdateConfig
<1>3. SpecType'
  <2>1. promise' \in [Ids -> Promises]
    BY <1>1 DEF Promises
  <2>2. begun \in Nat /\ raced \in BOOLEAN
    BY <1>1 DEF SpecType
  <2>3. begun' \in Nat
    BY <1>1, <2>2
  <2>4. raced' \in BOOLEAN
    BY <1>1, <2>2, Zenon
  <2> QED
    BY <1>1, <1>2, <2>1, <2>3, <2>4 DEF SpecType
<1>4. ASSUME ~raced' PROVE Calm'
  <2>1. Calm /\ \A p \in Procs : pc'[p] = "idle"
    BY <1>1, <1>4 DEF FilesInv
  <2>2. Apart'
    BY <2>1 DEF Apart
  <2>3. WholeFiles' /\ TempsHeld'
    BY <1>1, <2>1 DEF Calm, WholeFiles, TempsHeld
  <2>4. \A p \in Procs : Midway(p)'
    BY <2>1 DEF Midway, WriteSteps
  <2>5. ASSUME NEW id \in Ids PROVE Kept(id)'
    <3>1. DeletedIds' = DeletedIds
      BY <1>1 DEF DeletedIds
    <3>2. CASE promise[id] = Gone
      <4>1. promise'[id] = Gone /\ id \in DeletedIds
        BY <1>1, <2>1, <3>2 DEF Calm, Kept
      <4>2. ~(promise'[id].by > 0)
        BY <4>1, DocumentTypes, Zenon
      <4> QED
        BY <3>1, <4>1, <4>2, Zenon DEF Kept
    <3>3. CASE promise[id] # Gone
      <4>1. promise'[id] = Open
        BY <1>1, <3>3
      <4>2. ~(promise'[id].by > 0) /\ promise'[id] # Gone
        BY <4>1, DocumentTypes, Zenon
      <4> QED
        BY <4>2, Zenon DEF Kept
    <3> QED
      BY <3>2, <3>3
  <2> QED
    BY <2>2, <2>3, <2>4, <2>5 DEF Calm
<1> QED
  BY <1>3, <1>4 DEF FilesInv

-----------------------------------------------------------------------------
\* It holds at first ...
LEMMA InitFilesInv == SpecInit => FilesInv
<1> SUFFICES ASSUME SpecInit PROVE FilesInv
  OBVIOUS
<1>1. /\ file = [t \in Targets |-> IF t \in Shipped THEN Holding(Document(0), {}) ELSE NoFile]
      /\ temp = [t \in Targets |-> NoFile]
      /\ config \in [overrides : BOOLEAN, local : BOOLEAN, default : {""}]
      /\ op = [p \in Procs |-> NoOp]
      /\ pc = [p \in Procs |-> "idle"]
      /\ writing = [p \in Procs |-> NoWriting]
      /\ begun = 0
      /\ promise = [id \in Ids |-> Open]
      /\ raced = FALSE
  BY DEF SpecInit
<1>2. /\ Document(0) \in Docs /\ ~Document(0).torn /\ Document(0).by = 0
      /\ Holding(Document(0), {}) \in Files
      /\ Holding(Document(0), {}).doc = Document(0)
      /\ Holding(Document(0), {}).writers = {}
      /\ NoFile \in Files
  <2>1. Document(0) \in Docs /\ ~Document(0).torn /\ Document(0).by = 0
    BY DocumentTypes
  <2> QED
    BY <2>1, HeldFiles
<1>3. SpecType
  <2>1. file \in [Targets -> Files] /\ temp \in [Targets -> Files]
    BY <1>1, <1>2
  <2>2. config \in [overrides : BOOLEAN, local : BOOLEAN, default : Profiles \union {""}]
    BY <1>1
  <2>3. NoWriting \in [target : Targets, doc : Docs, next : {"done", "unmark", "settings"}]
    BY TargetsDiffer, DocumentTypes DEF NoWriting
  <2>4. Open \in Promises
    BY DEF Promises
  <2> QED
    BY <1>1, <2>1, <2>2, <2>3, <2>4 DEF SpecType
<1>4. Apart /\ \A p \in Procs : Midway(p)
  BY <1>1, IdleIsMidway DEF Apart
<1>5. WholeFiles /\ TempsHeld
  BY <1>1, <1>2 DEF WholeFiles, TempsHeld
<1>6. ASSUME NEW id \in Ids PROVE Kept(id)
  <2>1. promise[id] = Open
    BY <1>1
  <2> QED
    BY <2>1, DocumentTypes, Zenon DEF Kept
<1> QED
  BY <1>3, <1>4, <1>5, <1>6 DEF FilesInv, Calm

\* ... and every step keeps it ...
LEMMA NextFilesInv == FilesInv /\ [SpecNext]_specVars => FilesInv'
<1> SUFFICES ASSUME FilesInv, [SpecNext]_specVars PROVE FilesInv'
  OBVIOUS
<1>1. ASSUME NEW p \in Procs, SpecStep(p) PROVE FilesInv'
  <2>1. CASE PrepareFails(p) \/ CreateConflict(p) \/ UpdateMissing(p) \/ DeleteMissing(p)
             \/ ReplaceFails(p)
    <3>1. pc[p] \in {"prepare", "replace"} /\ Refused(p)
      BY <2>1 DEF PrepareFails, CreateConflict, UpdateMissing, DeleteMissing, ReplaceFails, Prepared
    <3> QED
      BY <3>1, RefusedKeeps
  <2>2. CASE Create(p)
    <3>1. /\ pc[p] = "prepare" /\ file[<<TargetRoot, op[p].id>>] = NoFile
          /\ Write(p, <<TargetRoot, op[p].id>>, Document(op[p].number), AfterWrite(op[p].id))
          /\ UNCHANGED <<file, temp, config, op, begun, promise, raced>>
      BY <2>2 DEF Create, Prepared, Available
    <3> QED
      BY <3>1, WriteOwnKeeps
  <2>3. CASE Update(p)
    <3>1. /\ pc[p] = "prepare" /\ op[p].kind = "update"
          /\ Write(p, <<TargetRoot, op[p].id>>, Document(op[p].number), AfterWrite(op[p].id))
          /\ UNCHANGED <<file, temp, config, op, begun, promise, raced>>
      BY <2>3 DEF Update, Prepared
    <3> QED
      BY <3>1, WriteOwnKeeps
  <2>4. CASE DeleteOther(p) \/ UnlinkProfile(p)
    BY <2>4, RemoveKeeps
  <2>5. CASE MarkDeleted(p)
    BY <2>5, WriteDeletedKeeps DEF MarkDeleted
  <2>6. CASE ClearDefault(p)
    <3>1. /\ pc[p] = "settings" /\ Promised(p, Gone) /\ EndOp(p)
          /\ UNCHANGED <<file, temp, begun, raced>>
      BY <2>6 DEF ClearDefault
    <3>2. config \in [overrides : BOOLEAN, local : BOOLEAN, default : Profiles \union {""}]
      BY DEF FilesInv, SpecType
    <3>3. config' = [config EXCEPT !.default = ""] \/ config' = config
      BY <2>6 DEF ClearDefault
    <3>4. /\ config' \in [overrides : BOOLEAN, local : BOOLEAN, default : Profiles \union {""}]
          /\ config'.overrides = config.overrides /\ config'.local = config.local
      BY <3>2, <3>3
    <3> QED
      BY <3>1, <3>4, ProfileDoneKeeps
  <2>7. CASE Unmark(p)
    <3>1. /\ pc[p] = "unmark" /\ UNCHANGED <<file, temp, config, begun>>
          /\ \/ /\ Write(p, Deleted, Hiding(DeletedIds \ {op[p].id}), "done")
                /\ raced' = (raced \/ Meets(p, op[p].id, TRUE))
                /\ UNCHANGED <<op, promise>>
             \/ /\ op[p].id \notin DeletedIds
                /\ Promised(p, Written(op[p].number))
                /\ EndOp(p) /\ UNCHANGED raced
      BY <2>7 DEF Unmark
    <3>2. config \in [overrides : BOOLEAN, local : BOOLEAN, default : Profiles \union {""}]
      BY DEF FilesInv, SpecType
    <3> QED
      BY <3>1, <3>2, WriteDeletedKeeps, ProfileDoneKeeps
  <2>8. CASE OpenTemp(p)
    BY <2>8, OpenTempKeeps
  <2>9. CASE WriteDocument(p)
    BY <2>9, WriteDocumentKeeps
  <2>10. CASE Replace(p)
    BY <2>10, ReplaceKeeps
  <2> QED
    BY <1>1, <2>1, <2>2, <2>3, <2>4, <2>5, <2>6, <2>7, <2>8, <2>9, <2>10 DEF SpecStep
<1>2. CASE UpdateConfig
  BY <1>2, UpdateConfigKeeps
<1>3. CASE UNCHANGED specVars
  <2>1. /\ UNCHANGED <<file, temp, config, op, pc, writing, begun, promise, raced>>
        /\ SpecType
    BY <1>3 DEF specVars, FilesInv
  <2>2. SpecType'
    BY <2>1 DEF SpecType
  <2>3. ASSUME ~raced' PROVE Calm'
    <3>1. Calm
      BY <2>1, <2>3 DEF FilesInv
    <3>2. TargetRoot' = TargetRoot /\ DeletedIds' = DeletedIds
      BY <2>1 DEF TargetRoot, SearchOrder, DeletedIds
    <3>3. Apart' /\ WholeFiles' /\ TempsHeld'
      BY <2>1, <3>1 DEF Calm, Apart, AtDeleted, WholeFiles, TempsHeld
    <3>4. \A id \in Ids : Kept(id)'
      BY <2>1, <3>1, <3>2 DEF Calm, Kept, Has
    <3>5. ASSUME NEW p \in Procs PROVE Midway(p)'
      <4>1. Midway(p)
        BY <3>1 DEF Calm
      <4>2. WritesOwn(p) => WritesOwn(p)'
        BY <2>1, <3>2 DEF WritesOwn, Document, AfterWrite
      <4>3. WritesMark(p) => WritesMark(p)'
        BY <2>1, <3>2 DEF WritesMark, Hiding
      <4>4. WritesUnmark(p) => WritesUnmark(p)'
        BY <2>1, <3>2 DEF WritesUnmark, Hiding, Has
      <4> QED
        BY <2>1, <3>2, <4>1, <4>2, <4>3, <4>4 DEF Midway, WriteSteps, Has, Holding, Torn
    <3> QED
      BY <3>3, <3>4, <3>5 DEF Calm
  <2> QED
    BY <2>2, <2>3 DEF FilesInv
<1> QED
  BY <1>1, <1>2, <1>3, CrashKeeps, BeginKeeps DEF SpecNext

\* ... so it holds at any time.
LEMMA FilesInvHolds == SpecInit /\ [][SpecNext]_specVars => []FilesInv
  BY InitFilesInv, NextFilesInv, PTL

-----------------------------------------------------------------------------
\* Wherever a writer was stopped, a reader finds a whole document in every
\* file, unless two processes were at one file at once.
THEOREM FilesAreWhole == SpecInit /\ [][SpecNext]_specVars => []WholeDocuments
<1>1. FilesInv => WholeDocuments
  <2>1. Torn.torn
    BY DocumentTypes
  <2> QED
    BY <2>1 DEF FilesInv, Calm, WholeFiles, WholeDocuments
<1> QED
  BY <1>1, FilesInvHolds, PTL

\* A deleted profile stays hidden in every root, whatever the search order
\* becomes, until it is written again.
THEOREM DeletedIsHidden == SpecInit /\ [][SpecNext]_specVars => []DeletedStaysDeleted
<1>1. ASSUME FilesInv PROVE DeletedStaysDeleted
  <2> SUFFICES ASSUME ~raced, NEW id \in Profiles, promise[id] = Gone PROVE Load(id) = NotFound
    BY DEF DeletedStaysDeleted
  <2>1. id \in Ids
    BY DEF Ids
  <2>2. id \in DeletedIds
    BY <1>1, <2>1 DEF FilesInv, Calm, Kept
  <2>3. LoadFile(id) = NotFound
    BY <2>2 DEF LoadFile
  <2> QED
    BY <2>3 DEF Load
<1> QED
  BY <1>1, FilesInvHolds, PTL

\* What was written is found: first in the search, and hidden by no delete.
THEOREM WrittenDocumentIsFound == SpecInit /\ [][SpecNext]_specVars => []WrittenIsFound
<1>1. ASSUME FilesInv PROVE WrittenIsFound
  <2> SUFFICES ASSUME ~raced, NEW id \in Ids, promise[id].by > 0
               PROVE  LoadFile(id) = Document(promise[id].by)
    BY DEF WrittenIsFound
  <2>1. PICK n \in Nat : promise[id].by = n
    <3>1. promise[id] \in Promises
      BY <1>1 DEF FilesInv, SpecType
    <3> QED
      BY <3>1 DEF Promises, Open, Gone, Written
  <2>2. Has(id, n) /\ id \notin Profiles \intersect DeletedIds
    BY <1>1, <2>1 DEF FilesInv, Calm, Kept
  <2> QED
    BY <1>1, <2>1, <2>2, WrittenIsLoaded DEF FilesInv
<1> QED
  BY <1>1, FilesInvHolds, PTL

\* Where a create or duplicate puts its document, there was no file, however
\* long before it has asked.
THEOREM NothingIsReplaced == SpecInit /\ [][SpecNext]_specVars => CreateReplacesNothing
<1> DEFINE Replaces ==
      \A p \in Procs : \A t \in Targets \ {Deleted} :
          (/\ ~raced /\ pc[p] = "replace" /\ pc'[p] # "replace"
           /\ op[p].kind \in {"create", "duplicate"} /\ writing[p].target = t
           /\ file'[t] # file[t]) => file[t] = NoFile
<1>1. ASSUME FilesInv PROVE Replaces
  <2> SUFFICES ASSUME ~raced, NEW p \in Procs, NEW t \in Targets \ {Deleted}, pc[p] = "replace",
                      op[p].kind \in {"create", "duplicate"}, writing[p].target = t
               PROVE  file[t] = NoFile
    OBVIOUS
  <2>1. WritesOwn(p) \/ WritesMark(p) \/ WritesUnmark(p)
    BY <1>1 DEF FilesInv, Calm, Midway, WriteSteps
  <2>2. WritesOwn(p)
    BY <2>1 DEF WritesMark, WritesUnmark
  <2> QED
    BY <2>2 DEF WritesOwn
<1>2. FilesInv /\ [SpecNext]_specVars => [Replaces]_specVars
  BY <1>1
<1> QED
  BY <1>2, FilesInvHolds, PTL DEF CreateReplacesNothing

=============================================================================
