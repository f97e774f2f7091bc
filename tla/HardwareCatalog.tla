--------------------------- MODULE HardwareCatalog ---------------------------
(***************************************************************************)
(* The hardware catalog: clients fetch it, edit one item and save with the *)
(* revision they saw or without one (web/routes/settings.py,               *)
(* domain/hardware_catalog.py).                                            *)
(*                                                                         *)
(* One list of the catalog is modelled.  An item is its id and the number  *)
(* of the edit that wrote it, 0 for a built-in one.                        *)
(***************************************************************************)
EXTENDS Naturals, Sequences, FiniteSets

CONSTANTS
    Clients,
    ItemIds,
    FirstIds,     \* the ids of the built-in list, in order
    MaxEdits      \* bound: edits sent

\* The built-in ids are distinct.
ASSUME FirstIdsAssumption ==
    /\ FirstIds \in Seq(ItemIds)
    /\ \A i, j \in DOMAIN FirstIds : FirstIds[i] = FirstIds[j] => i = j

VARIABLES
    saved,        \* the catalog in the file: its revision and its items
    view,         \* the catalog each client saw last
    lastEdit,     \* the last edit accepted, of each item id
    edits         \* edits sent so far

catalogVars == <<saved, view, lastEdit, edits>>

NoView == [revision |-> 0, items |-> <<>>]

CatalogInit ==
    /\ saved = [revision |-> 1, items |-> [i \in DOMAIN FirstIds |-> [id |-> FirstIds[i], edit |-> 0]]]
    /\ view = [c \in Clients |-> NoView]
    /\ lastEdit = [id \in ItemIds |-> 0]
    /\ edits = 0

\* GET /settings/hardware-catalogs
Fetch(c) ==
    /\ view' = [view EXCEPT ![c] = saved]
    /\ UNCHANGED <<saved, lastEdit, edits>>

\* The item of that id is replaced in its place, a new one comes last.
WithItem(items, item) ==
    IF \E i \in DOMAIN items : items[i].id = item.id
    THEN [i \in DOMAIN items |-> IF items[i].id = item.id THEN item ELSE items[i]]
    ELSE Append(items, item)

\* Mutant of Updated: the client's copy is saved.
UpdatedView(c, item) == WithItem(view[c].items, item)

\* upsert_hardware_catalog_item edits the catalog as it is by then.
Updated(c, item) == WithItem(saved.items, item)

\* save_hardware_catalog, with expected_revision.
RevisionMatches(c) == view[c].revision = saved.revision

\* Mutant of NextRevision: the catalog that is sent in keeps its revision.
SameRevision == saved.revision

\* Whatever revision the catalog came with, it gets the next one.
NextRevision == saved.revision + 1

\* POST /settings/hardware-catalogs/{catalog}: the client gets what was saved.
Upsert(c, id, checked) ==
    /\ view[c] # NoView /\ edits < MaxEdits
    /\ edits' = edits + 1
    /\ \/ /\ checked => RevisionMatches(c)
          /\ saved' = [revision |-> NextRevision, items |-> Updated(c, [id |-> id, edit |-> edits + 1])]
          /\ view' = [view EXCEPT ![c] = saved']
          /\ lastEdit' = [lastEdit EXCEPT ![id] = edits + 1]
       \/ /\ checked /\ ~RevisionMatches(c)
          /\ UNCHANGED <<saved, view, lastEdit>>

CatalogNext ==
    \E c \in Clients :
        \/ Fetch(c)
        \/ \E id \in ItemIds, checked \in BOOLEAN : Upsert(c, id, checked)

-----------------------------------------------------------------------------
EditOf(id) ==
    LET found == {i \in DOMAIN saved.items : saved.items[i].id = id}
    IN  IF found = {} THEN 0 ELSE saved.items[CHOOSE i \in found : TRUE].edit

\* An accepted edit stays until the same item is edited again, though every
\* save writes the whole catalog and clients save from old copies.
NoEditLost == \A id \in ItemIds : EditOf(id) = lastEdit[id]

\* A revision names one content: a client that holds the current revision
\* holds the current catalog, so the check of expected_revision is enough.
RevisionNamesContent ==
    \A c \in Clients : view[c].revision = saved.revision => view[c] = saved

=============================================================================
