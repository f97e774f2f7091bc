---------------------------- MODULE PipOverrides ----------------------------
(***************************************************************************)
(* The pip compatibility overrides: how the rules of                       *)
(* pip_compatibility_overrides.yaml change the requirements of an image    *)
(* (domain/pip_compatibility.py), and how a failed build adds to them      *)
(* (domain/compatibility_fix.py).                                          *)
(*                                                                         *)
(* A rule names the base images it is for by a text they contain: "" for   *)
(* none.  Within is the relation "is a substring of" on the texts used.    *)
(***************************************************************************)
EXTENDS Naturals, Sequences

CONSTANTS
    Within,         \* pairs <<text, longer text>>; not reflexive
    KnownFixes,     \* version known to work, by package: _NGC_PYTORCH_OVERRIDES
    NgcHint,        \* "nvcr.io/nvidia/pytorch"
    FamilyOf        \* an nvidia base image without its tag; DOMAIN: those images

PartOf(needle, text) == needle = text \/ <<needle, text>> \in Within

\* The first of some rules of a file.
FirstOf(places) == CHOOSE i \in places : \A j \in places : i <= j

\* The rules that are about a base image.
RulesFor(base, rules) ==
    {i \in DOMAIN rules : rules[i].contains # "" /\ PartOf(rules[i].contains, base)}

\* apply_overrides: the first rule for the base that names the package.
OverriddenVersion(name, version, base, rules) ==
    LET naming == {i \in RulesFor(base, rules) : name \in DOMAIN rules[i].packages}
    IN  IF naming = {} THEN version ELSE rules[FirstOf(naming)].packages[name]

\* get_pip_install_options: every rule for the base adds its own.
InstallOptions(base, rules) ==
    UNION {rules[i].noBinary : i \in RulesFor(base, rules)}

-----------------------------------------------------------------------------
\* analyze_build_failure: a failure is its pip conflict, if it is one, and
\* the known packages its text mentions.
Relaxed(pkg) == IF pkg = "dill" THEN "datasets" ELSE pkg

Suggested(failure) ==
    IF ~failure.pipConflict THEN <<>>
    ELSE LET fixable == {Relaxed(pkg) : pkg \in failure.mentions} \intersect DOMAIN KnownFixes
         IN  [pkg \in fixable |-> KnownFixes[pkg]]

\* The text the new overrides are filed under.
Hint(base) ==
    IF PartOf(NgcHint, base) \/ base \notin DOMAIN FamilyOf THEN NgcHint ELSE FamilyOf[base]

\* apply_compatibility_fix: merged into the first rule of the same family,
\* one text containing the other, else into a rule of its own.
SameFamily(r, hint) ==
    r.contains # "" /\ (PartOf(hint, r.contains) \/ PartOf(r.contains, hint))

MergedInto(r, suggested) ==
    [contains |-> r.contains,
     packages |->
        [pkg \in (DOMAIN r.packages) \union (DOMAIN suggested) |->
            IF pkg \in DOMAIN suggested THEN suggested[pkg] ELSE r.packages[pkg]],
     noBinary |-> r.noBinary]

NewRule(suggested, hint) ==
    [contains |-> hint, packages |-> suggested, noBinary |-> {}]

\* Mutant of WithFix: the new rule replaces the file.
WithFixOnly(rules, suggested, hint) == <<NewRule(suggested, hint)>>

\* The rules of the family a text belongs to.
Family(rules, hint) == {i \in DOMAIN rules : SameFamily(rules[i], hint)}

\* Mutant of WithFix: a rule behind the first one gets it.
WithFixLast(rules, suggested, hint) ==
    LET family == Family(rules, hint)
        last   == CHOOSE i \in family : \A j \in family : j <= i
    IN  IF family = {} THEN Append(rules, NewRule(suggested, hint))
        ELSE [rules EXCEPT ![last] = MergedInto(rules[last], suggested)]

WithFix(rules, suggested, hint) ==
    LET family == Family(rules, hint)
        first  == FirstOf(family)
    IN  IF family = {} THEN Append(rules, NewRule(suggested, hint))
        ELSE [rules EXCEPT ![first] = MergedInto(rules[first], suggested)]

=============================================================================
