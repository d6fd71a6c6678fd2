------------------------- MODULE MCAttestedDeployment -------------------------
(***************************************************************************)
(* Model-checking instance of DeploymentProperties: a root that is as it    *)
(* should be on a machine with a GPU, one whose manifest is another's, and  *)
(* one whose manifest names no configuration.                              *)
(***************************************************************************)
EXTENDS DeploymentProperties

CONSTANTS m1, m2, bad

Manifests == {m1, m2, bad}

BakedTrees ==
  {[expected |-> e, manifest |-> m, archive |-> a, gpu |-> g, noTpm |-> ~g] :
     <<e, m, a, g>> \in {<<m1, m1, m1, TRUE>>, <<m1, m2, m2, FALSE>>,
                         <<bad, bad, m1, TRUE>>}}
=============================================================================
