-------------------------- MODULE MCEnsurePipeline --------------------------
(***************************************************************************)
(* Small instances of EnsurePipeline for TLC: v1 and v2 are fingerprints   *)
(* of one variant before and after a change of the specs, w is another     *)
(* variant of the same stack.                                              *)
(***************************************************************************)
EXTENDS EnsurePipeline, TLC

CONSTANTS b1, b2, v1, v2, w, plain, other

TwoVariants == v1 :> plain @@ v2 :> plain @@ w :> other
OneVariant  == v1 :> plain @@ v2 :> plain

Flags(r, i) == [rebuild |-> r, immutable |-> i]

NoFlags  == {Flags(FALSE, FALSE)}
OneFlag  == {Flags(FALSE, FALSE), Flags(TRUE, FALSE), Flags(FALSE, TRUE)}

BuildSymmetry == Permutations(Builds)

\* Plans of one variant may be exchanged too.
BuildAndPlanSymmetry == Permutations(Builds) \union Permutations(Plans)

=============================================================================
