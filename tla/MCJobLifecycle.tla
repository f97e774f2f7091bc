--------------------------- MODULE MCJobLifecycle ---------------------------
(***************************************************************************)
(* Small instances of JobLifecycle for TLC.                                *)
(***************************************************************************)
EXTENDS JobLifecycle, TLC

CONSTANTS j1, j2, j3, g1, g2, known, unknown

\* A host with a budget of 3 GB, and one whose memory is not known.
Hosts == known :> 5 @@ unknown :> 0

JobSymmetry == Permutations(Jobs)

=============================================================================
