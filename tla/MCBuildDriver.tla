---------------------------- MODULE MCBuildDriver ----------------------------
(***************************************************************************)
(* Instances of BuildDriver for TLC: three flavors, so that what the       *)
(* driver left running for one of them can reach an AMI of a later one     *)
(* across the flavor on which the link is found dead.                      *)
(***************************************************************************)
EXTENDS BuildProperties

CONSTANTS f1, f2, f3

MCFlavor == {f1, f2, f3}
MCManifest == <<f1, f2, f3>>

\* The artifact that may not be as it should be has a flavor before and after it.
CasesInit == Init /\ kind[f1] = "good" /\ kind[f3] = "good"

CasesSpec == CasesInit /\ [][Next]_vars /\ WF_vars(Driver)
=============================================================================
