---------------------------- MODULE Compatibility ----------------------------
(***************************************************************************)
(* Compatibility of a profile with a stack and its layers: the layers'     *)
(* requirements, the tuple catalog and the rule catalog                    *)
(* (resolvers/compatibility.py, resolvers/rules.py,                        *)
(* resolvers/rule_catalog.py, domain/tuple_catalog.py).                    *)
(*                                                                         *)
(* A profile's gpu vendor and family are the id when there is one, else    *)
(* the name.  Unknown texts are "".  A version is the sequence of its      *)
(* numbers: <<550, 54, 15>> is "550.54.15", <<>> is no version.            *)
(***************************************************************************)
EXTENDS Integers, Sequences, FiniteSets, SequencesExt

CONSTANTS
    Canonical,     \* hardware catalog: the id each alias stands for
    Rules,         \* the compatibility rule catalog
    RootTuples     \* the tuples of the configured roots' catalogs, root by root

\* A catalog is a list.
ASSUME TupleAssumption == RootTuples \in Seq(Range(RootTuples))

-----------------------------------------------------------------------------
Unknown == -1

\* _to_float: a version as a decimal number, in hundredths.  Three numbers
\* are not a decimal, and 12.10 is 12.1.
ToFloat(v) ==
    IF Len(v) \notin {1, 2} THEN Unknown
    ELSE v[1] * 100 + (IF Len(v) = 1 THEN 0 ELSE IF v[2] < 10 THEN v[2] * 10 ELSE v[2])

Known(n) == n # Unknown

\* A known value lies outside the bounds; an unknown value never does.
Outside(n, low, high) ==
    /\ Known(n)
    /\ \/ Known(low) /\ n < low
       \/ Known(high) /\ n > high

\* _resolve_hardware_id
ResolveId(v) == IF v \in DOMAIN Canonical THEN Canonical[v] ELSE v

-----------------------------------------------------------------------------
\* The requirement handlers, by the requirement each of them answers for.
\* Only os and container_runtime refuse a profile that does not know.
Mismatches(req, p) ==
    LET Unlike(wanted, actual) == wanted # "" /\ actual # "" /\ wanted # actual
        Refused ==
            [arch        |-> Unlike(ResolveId(req.arch), ResolveId(p.arch)),
             os          |-> req.os # "" /\ req.os # p.os,
             osFamily    |-> Unlike(ResolveId(req.osFamily), ResolveId(p.osFamilyId)),
             osVersion   |-> Unlike(ResolveId(req.osVersion), ResolveId(p.osVersion)),
             vendor      |-> Unlike(req.vendor, p.vendor) \/ Unlike(req.vendorId, p.vendor),
             family      |-> Unlike(req.familyId, p.family),
             runtime     |-> req.runtime # "" /\ req.runtime # p.runtime,
             driver      |-> Outside(ToFloat(p.driver), ToFloat(req.driverMin), Unknown),
             cuda        |-> Outside(ToFloat(p.cuda), ToFloat(req.cudaMin), ToFloat(req.cudaMax)),
             cudaVariant |-> /\ req.cudaVariants # {} /\ p.cudaVariant # ""
                             /\ p.cudaVariant \notin req.cudaVariants]
    IN  {k \in DOMAIN Refused : Refused[k]}

\* The errors the layers raise themselves.
LayerErrors(stack, layers, p) ==
    {<<l.id, "conflict">> : l \in {m \in layers : m.incompatible \intersect Range(stack.layers) # {}}}
    \union UNION {{<<l.id, k>> : k \in Mismatches(l.requires, p)} : l \in layers}

-----------------------------------------------------------------------------
\* load_tuple_catalog: the built-in tuples, each replaced in its place by
\* the last root that has its id; new ids come after.  Every tuple stands at
\* the place where its id was first met.
MergeTuples(builtin) ==
    LET all    == builtin \o RootTuples
        Met(i) == \E j \in 1..(i - 1) : all[j].id = all[i].id
    IN  [i \in {k \in DOMAIN all : ~Met(k)} |->
            all[Max({j \in DOMAIN all : all[j].id = all[i].id})]]

\* _profile_tuple_facts and _tuple_matches: a selector's text must be met,
\* its gpu family, cuda and driver bounds only when the profile knows them.
VendorFact(p) == IF p.vendor = "" THEN "cpu" ELSE ResolveId(p.vendor)

Matches(p, t) ==
    LET s == t.selector
    IN  /\ s.arch      \in {"", ResolveId(p.arch)}
        /\ s.osFamily  \in {"", ResolveId(p.osFamilyId)}
        /\ s.osVersion \in {"", ResolveId(p.osVersion)}
        /\ s.runtime   \in {"", p.runtime}
        /\ s.vendor    \in {"", VendorFact(p)}
        /\ s.family = "" \/ p.family = "" \/ s.family = ResolveId(p.family)
        /\ ~Outside(ToFloat(p.cuda), ToFloat(s.cudaMin), ToFloat(s.cudaMax))
        /\ ~Outside(ToFloat(p.driver), ToFloat(s.driverMin), Unknown)

NoTuple == [id |-> "", status |-> "unsupported", base |-> [name |-> "", tag |-> ""], wheelhouse |-> ""]

\* Mutant of TupleDecision: the first match of any status is taken.
FirstTuple(p, mode, tuples) ==
    LET met == {i \in DOMAIN tuples : Matches(p, tuples[i])}
    IN  CASE mode = "off" -> [NoTuple EXCEPT !.status = "disabled"]
          [] mode # "off" /\ met = {} -> NoTuple
          [] OTHER -> tuples[Min(met)]

\* _evaluate_tuple_resolution: the first supported match, else the first
\* match of any other status.
TupleDecision(p, mode, tuples) ==
    LET met       == {i \in DOMAIN tuples : Matches(p, tuples[i])}
        supported == {i \in met : tuples[i].status = "supported"}
    IN  CASE mode = "off" -> [NoTuple EXCEPT !.status = "disabled"]
          [] mode # "off" /\ met = {} -> NoTuple
          [] OTHER -> tuples[Min(IF supported = {} THEN met ELSE supported)]

TupleMatched(d, mode) == mode = "off" \/ d.id # ""

-----------------------------------------------------------------------------
\* _apply_catalog_rule: what the rule is about.
Applies(r, p) ==
    /\ r.when.arch      \in {"", p.arch}
    /\ r.when.osFamily  \in {"", p.osFamily}
    /\ r.when.vendor    \in {"", p.vendor}
    /\ r.when.family    \in {"", p.family}
    /\ ~Outside(ToFloat(p.cc), ToFloat(r.when.ccMin), ToFloat(r.when.ccMax))

\* What it demands.  A driver that is no number counts as too old only for
\* a strict rule, in strict mode, and when it was detected on the host.
RuleViolated(r, p, strict) ==
    \/ r.requires.runtime # "" /\ r.requires.runtime # p.runtime
    \/ /\ Known(ToFloat(r.requires.driverMin))
       /\ IF Known(ToFloat(p.driver))
          THEN ToFloat(p.driver) < ToFloat(r.requires.driverMin)
          ELSE r.strictHard /\ strict /\ p.driverDetected
    \/ Outside(ToFloat(p.cuda), ToFloat(r.requires.cudaMin), ToFloat(r.requires.cudaMax))

\* The errors of the catalog: an error outcome of a rule that is not strict,
\* or outside strict mode, is only a warning.
RuleErrors(p, strict) ==
    {<<r.id, r.severity>> : r \in {q \in Rules :
        /\ q.enabled /\ ~q.deprecated
        /\ Applies(q, p)
        /\ RuleViolated(q, p, strict)
        /\ q.severity = "error" /\ q.strictHard /\ strict}}

RuleWarnings(p, strict) ==
    {<<r.id, r.severity>> : r \in {q \in Rules :
        /\ q.enabled /\ ~q.deprecated
        /\ Applies(q, p)
        /\ RuleViolated(q, p, strict)
        /\ \/ q.severity = "warning"
           \/ q.severity = "error" /\ ~(q.strictHard /\ strict)}}

-----------------------------------------------------------------------------
\* evaluate_compatibility.  strict only matters to the rules, mode only to
\* the tuples.
CompatErrors(p, stack, layers, mode, strict, tuples) ==
    LayerErrors(stack, layers, p)
    \union (IF mode = "enforce" /\ ~TupleMatched(TupleDecision(p, mode, tuples), mode)
            THEN {<<"tuple", "unsupported">>} ELSE {})
    \union RuleErrors(p, strict)

\* Effective capabilities: derived ones, and cuda when the facts show it.
HasCuda(p) ==
    \/ "cuda" \in p.caps
    \/ p.cuda # <<>> /\ p.cuda[1] > 0
    \/ p.runtime = "nvidia"

\* rules.evaluate_all: what the resolver refuses beside the report.
StackErrors(p, stack) ==
    (IF stack.serve \in p.disallowed THEN {<<"serve", "disallowed">>} ELSE {})
    \union (IF stack.serve \in {"triton", "vllm"} /\ ~HasCuda(p)
            THEN {<<"serve", "needs cuda">>} ELSE {})

=============================================================================
