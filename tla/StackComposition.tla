-------------------------- MODULE StackComposition --------------------------
(***************************************************************************)
(* Composition of a stack from a recipe and its ordered layers, and the    *)
(* three analyzers the compose preview shows beside it                     *)
(* (domain/composition.py), with the validators of the specification       *)
(* models that composition runs again (domain/models.py).                  *)
(*                                                                         *)
(* A recipe and a layer are records of one shape, a "part": optional       *)
(* fields are "" when absent, install modes always have a value.  A pip    *)
(* version specifier is the set of versions it pins (== and ===) and the   *)
(* set it admits; an npm version is a text, "" for latest.  The keyed      *)
(* fields (environment, apt constraints, variants) are lists of entries.   *)
(***************************************************************************)
EXTENDS Naturals, Sequences, FiniteSets, SequencesExt

CONSTANTS
    LayerOf,      \* the layers the loader knows, by id
    Packages,     \* pip package names
    NpmKeys,      \* npm (name, manager, scope) triples
    Versions,     \* versions of a pip package
    Lockfiles     \* copied files that are npm lockfiles

\* What a layer and a recipe may bring.  Dependencies and keyed entries are
\* lists, and a dependency names a package.
KeyedFields   == {"env", "aptPins", "variants"}
ContentFields == {"baseRole", "strategy", "entrypoint", "pip", "npm", "apt", "copies", "ports"} \union KeyedFields

IsPart(p) ==
    /\ ContentFields \subseteq DOMAIN p
    /\ p.pip \in Seq(Range(p.pip)) /\ \A d \in Range(p.pip) : d.name \in Packages
    /\ p.npm \in Seq(Range(p.npm)) /\ \A d \in Range(p.npm) : d.name \in NpmKeys
    /\ \A f \in KeyedFields : p[f] \in Seq(Range(p[f]))

IsRecipe(r) == IsPart(r) /\ "layers" \in DOMAIN r /\ r.layers \in Seq(Range(r.layers))

ASSUME LayersAssumption ==
    \A l \in DOMAIN LayerOf : IsPart(LayerOf[l]) /\ LayerOf[l].id = l

-----------------------------------------------------------------------------
Latest == [pins |-> {}, admits |-> Versions]

\* PipDep: what "", "==v" and a range mean.
Pinned(v)    == [pins |-> {v}, admits |-> {v}]
Ranging(vs)  == [pins |-> {}, admits |-> vs]

\* _pip_constraints_compatible: pins must meet, a pin must be admitted by a
\* range, and two ranges are taken to be compatible.
ConstraintsCompatible(a, b) ==
    \/ a = Latest \/ b = Latest
    \/ a.pins # {} /\ b.pins # {} /\ a.pins \intersect b.pins # {}
    \/ a.pins # {} /\ b.pins = {} /\ a.pins \intersect b.admits # {}
    \/ a.pins = {} /\ b.pins # {} /\ b.pins \intersect a.admits # {}
    \/ a.pins = {} /\ b.pins = {}

\* Two custom versions that differ.
NpmClash(a, b) == a # "" /\ b # "" /\ a # b

-----------------------------------------------------------------------------
Unset == [none |-> TRUE]

\* The accumulators of _merge_pip and _merge_npm after each dependency: it
\* replaces the one of its name, unless it clashes with it.
Merged(names, Clash(_, _), deps) ==
    LET Clashes(acc, dep) ==
            acc[dep.name] # Unset /\ Clash(acc[dep.name].version, dep.version)
        after[i \in 0..Len(deps)] ==
            IF i = 0 THEN [chosen |-> [n \in names |-> Unset], clash |-> FALSE]
            ELSE LET before == after[i - 1]
                 IN  IF before.clash \/ Clashes(before.chosen, deps[i])
                     THEN [before EXCEPT !.clash = TRUE]
                     ELSE [before EXCEPT !.chosen[deps[i].name] = [version |-> deps[i].version]]
    IN  after[Len(deps)]

PipIncompatible(a, b) == ~ConstraintsCompatible(a, b)

MergePip(deps) == Merged(Packages, PipIncompatible, deps)
MergeNpm(deps) == Merged(NpmKeys, NpmClash, deps)

\* The last part that declares a value, or the default.
LastDeclared(values, default) ==
    LET declared == {i \in DOMAIN values : values[i] # ""}
    IN  IF declared = {} THEN default ELSE values[Max(declared)]

-----------------------------------------------------------------------------
\* The parts in the order they are consumed: the layers, then the recipe.
Parts(recipe) ==
    Append([i \in DOMAIN recipe.layers |-> LayerOf[recipe.layers[i]]], recipe)

Field(parts, f) == [i \in DOMAIN parts |-> parts[i][f]]
PipDeps(parts)  == FlattenSeq(Field(parts, "pip"))
NpmDeps(parts)  == FlattenSeq(Field(parts, "npm"))
UnionOf(parts, f) == UNION {parts[i][f] : i \in DOMAIN parts}
Entries(parts, f) == FlattenSeq(Field(parts, f))

\* Every entry of a keyed field replaces the one with its key.
LastByKey(parts, f) ==
    LET entries == Entries(parts, f)
    IN  [k \in {e.key : e \in Range(entries)} |->
            entries[Max({i \in DOMAIN entries : entries[i].key = k})].value]

\* Mutant of ValidComponents: pin_only is not checked.
ValidComponentsUnpinned(p) ==
    /\ DOMAIN p.aptPins \subseteq p.apt
    /\ p.pipMode # "index" => p.wheelhouse # ""
    /\ p.npmMode = "lock_only" => p.copies \intersect Lockfiles # {}

\* _validate_component_policies and the lockfile policy, of a merged stack.
ValidComponents(p) ==
    /\ DOMAIN p.aptPins \subseteq p.apt
    /\ p.aptMode = "pin_only" => p.apt \subseteq DOMAIN p.aptPins
    /\ p.pipMode # "index" => p.wheelhouse # ""
    /\ p.npmMode = "lock_only" => p.copies \intersect Lockfiles # {}

\* The merged stack, before its own validation.  Only the recipe's install
\* modes count: it always has them, if only by default.
MergedStack(recipe) ==
    LET parts == Parts(recipe)
    IN  [id         |-> recipe.id,
         schema     |-> recipe.schema,
         baseRole   |-> LastDeclared(Field(parts, "baseRole"), "python"),
         strategy   |-> LastDeclared(Field(parts, "strategy"), "overlay"),
         entrypoint |-> LastDeclared(Field(parts, "entrypoint"), "sleep"),
         pip        |-> MergePip(PipDeps(parts)).chosen,
         npm        |-> MergeNpm(NpmDeps(parts)).chosen,
         apt        |-> UnionOf(parts, "apt"),
         aptPins    |-> LastByKey(parts, "aptPins"),
         copies     |-> UnionOf(parts, "copies"),
         env        |-> LastByKey(parts, "env"),
         ports      |-> UnionOf(parts, "ports"),
         variants   |-> LastByKey(parts, "variants"),
         aptMode    |-> recipe.aptMode,
         pipMode    |-> recipe.pipMode,
         wheelhouse |-> IF recipe.pipMode = "index" THEN "" ELSE recipe.wheelhouse,
         npmMode    |-> recipe.npmMode,
         layers     |-> recipe.layers,
         needs      |-> recipe.needs,
         derived    |-> recipe.derived,
         serve      |-> "custom",
         baseImage  |-> "",
         baseTag    |-> "",
         wheelhouseHint |-> ""]

\* compose_stack, as the error it raises; "" when it returns MergedStack.
ComposeError(recipe) ==
    IF \E i, j \in DOMAIN recipe.layers : i # j /\ recipe.layers[i] = recipe.layers[j]
    THEN "duplicate"
    ELSE IF ~(\A i \in DOMAIN recipe.layers : recipe.layers[i] \in DOMAIN LayerOf)
    THEN "unknown"
    ELSE IF MergePip(PipDeps(Parts(recipe))).clash \/ MergeNpm(NpmDeps(Parts(recipe))).clash
    THEN "dependency"
    ELSE IF ~ValidComponents(MergedStack(recipe))
    THEN "invalid"
    ELSE ""

-----------------------------------------------------------------------------
\* The parts the analyzers look at: unknown layers are skipped.
KnownParts(recipe) ==
    LET known == {i \in DOMAIN recipe.layers : recipe.layers[i] \in DOMAIN LayerOf}
        Place(k) == CHOOSE i \in known : Cardinality({j \in known : j <= i}) = k
    IN  Append([k \in 1..Cardinality(known) |-> LayerOf[recipe.layers[Place(k)]]], recipe)

\* Consecutive mentions of one name: the analyzers compare each mention
\* with the last one they have seen.
Consecutive(deps) ==
    {p \in (DOMAIN deps) \X (DOMAIN deps) :
        /\ p[1] < p[2]
        /\ deps[p[1]].name = deps[p[2]].name
        /\ \A k \in (p[1] + 1)..(p[2] - 1) : deps[k].name # deps[p[1]].name}

\* Mutant of PipConflicts: compared with the first mention.
PipConflictsFirst(deps) ==
    {p \in (DOMAIN deps) \X (DOMAIN deps) :
        /\ p[1] < p[2]
        /\ \A k \in 1..(p[1] - 1) : deps[k].name # deps[p[1]].name
        /\ deps[p[1]].name = deps[p[2]].name
        /\ ~ConstraintsCompatible(deps[p[1]].version, deps[p[2]].version)}

\* analyze_recipe_dependency_conflicts: what has severity "error" ...
PipConflicts(deps) ==
    {p \in Consecutive(deps) :
        ~ConstraintsCompatible(deps[p[1]].version, deps[p[2]].version)}

NpmConflicts(deps) ==
    {p \in Consecutive(deps) : NpmClash(deps[p[1]].version, deps[p[2]].version)}

\* ... among them two wheelhouse-only parts in a row with different paths,
\* for which compose_stack does not raise ...
WheelhouseConflicts(parts) ==
    {i \in 1..(Len(parts) - 1) :
        /\ parts[i].pipMode = "wheelhouse_only" /\ parts[i + 1].pipMode = "wheelhouse_only"
        /\ parts[i].wheelhouse # parts[i + 1].wheelhouse}

\* Parts that install pip packages otherwise than the part before them.
WheelhouseChanges(parts) ==
    {i \in 1..(Len(parts) - 1) :
        <<parts[i].pipMode, parts[i].wheelhouse>> # <<parts[i + 1].pipMode, parts[i + 1].wheelhouse>>}

\* Mutant of Overlaps: only pinned versions are compared.
OverlapsPinned(deps) ==
    {p \in Consecutive(deps) :
        /\ deps[p[1]].version.pins # {} /\ deps[p[2]].version.pins # {}
        /\ deps[p[1]].version # deps[p[2]].version}

\* ... and those of severity "warning": overlaps precedence will settle.
Overlaps(deps) ==
    {p \in Consecutive(deps) : deps[p[1]].version # deps[p[2]].version}

\* analyze_recipe_tuple_conflicts: consecutive values of one watched
\* requirement that differ, as they are written.
Watched == {"arch", "osFamily", "osVersion", "runtime", "vendorId", "familyId"}

TupleConflicts(parts) ==
    {c \in Watched \X (DOMAIN parts) \X (DOMAIN parts) :
        LET Wanted(i) == parts[i].requires[c[1]]
        IN  /\ c[2] < c[3]
            /\ Wanted(c[2]) # "" /\ Wanted(c[3]) # "" /\ Wanted(c[2]) # Wanted(c[3])
            /\ \A k \in (c[2] + 1)..(c[3] - 1) : Wanted(k) = ""}

\* analyze_recipe_runtime_conflicts: the fields whose value is overridden.
Overridden(values) ==
    \E i, j \in DOMAIN values : values[i] # "" /\ values[j] # "" /\ values[i] # values[j]

\* The keys of a keyed field that two entries give different values.
Disagree(parts, f) ==
    LET entries == Entries(parts, f)
        Differ(i, j) == entries[i].key = entries[j].key /\ entries[i].value # entries[j].value
        differing == {i \in DOMAIN entries : \E j \in DOMAIN entries : Differ(i, j)}
    IN  {entries[i].key : i \in differing}

RuntimeConflicts(parts) ==
    {f \in {"baseRole", "entrypoint"} : Overridden(Field(parts, f))} \union Disagree(parts, "env")

\* compose_stack_preview, what it shows beside the composed stack: conflicts
\* carry their type.
OfType(type, conflicts) == {<<type, c>> : c \in conflicts}

Preview(recipe) ==
    LET parts == KnownParts(recipe)
    IN  [errors   |-> OfType("pip", PipConflicts(PipDeps(parts)))
                      \union OfType("npm", NpmConflicts(NpmDeps(parts)))
                      \union OfType("wheelhouse", WheelhouseConflicts(parts)),
         overlaps |-> OfType("pip", Overlaps(PipDeps(parts)))
                      \union OfType("npm", Overlaps(NpmDeps(parts)))
                      \union OfType("wheelhouse", WheelhouseChanges(parts)),
         tuples   |-> TupleConflicts(parts),
         runtime  |-> RuntimeConflicts(parts)]

\* What no analyzer looks at although the last part to declare it wins: the
\* build strategy, the constraints of apt packages, and the variants.
Unwatched(parts) ==
    {f \in {"strategy"} : Overridden(Field(parts, f))}
    \union {f \in {"aptPins", "variants"} : Disagree(parts, f) # {}}

=============================================================================
