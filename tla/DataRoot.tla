------------------------------ MODULE DataRoot ------------------------------
(***************************************************************************)
(* The files under the data root that several actors change: the           *)
(* specification files with the deleted profile ids, the pip overrides and *)
(* the hardware catalog.                                                   *)
(*                                                                         *)
(* The three share no file, no lock and no memory, so a behaviour follows  *)
(* one of them, chosen at the start, while the others rest.                *)
(***************************************************************************)
EXTENDS SpecFiles, FixFile, HardwareCatalog, TLC

VARIABLE family   \* the files this behaviour is about

rootVars == <<specVars, fixVars, catalogVars, family>>

\* The families at rest start in one state each.
DataRootInit ==
    /\ family \in {"specs", "fixes", "hardware"}
    /\ SpecInit /\ FixInit /\ CatalogInit
    /\ family # "specs" => ~config.overrides /\ ~config.local
    /\ family # "fixes" =>
          rules = NoRules /\ \A r \in Retries : failure[r] = CHOOSE f \in Failures : TRUE

DataRootNext ==
    /\ UNCHANGED family
    /\ \/ family = "specs" /\ SpecNext /\ UNCHANGED <<fixVars, catalogVars>>
       \/ family = "fixes" /\ FixNext /\ UNCHANGED <<specVars, catalogVars>>
       \/ family = "hardware" /\ CatalogNext /\ UNCHANGED <<specVars, fixVars>>

DataRootSpec == DataRootInit /\ [][DataRootNext]_rootVars
=============================================================================
