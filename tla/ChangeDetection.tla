--------------------------- MODULE ChangeDetection ---------------------------
(***************************************************************************)
(* Which flavors a workflow run rebuilds, and at which level: the pure     *)
(* part of .github/scripts/detect_changes.py.                              *)
(*                                                                         *)
(* A changed path counts by its class:                                     *)
(*   <<"global", None>>  matches one of GLOBAL_INVALIDATOR_PATTERNS        *)
(*   <<"lock", None>>    flavors.lock                                      *)
(*   <<"env", f>>        flavors/<f>/env                                   *)
(*   <<"image", f>>      anything else under flavors/<f>/                  *)
(*   <<"other", None>>   any other path                                    *)
(* with None for f where flavors/<f>/ is no known flavor.                  *)
(***************************************************************************)
CONSTANTS Flavor, None

Path == ({"global", "lock", "other"} \X {None})
          \cup ({"image", "env"} \X (Flavor \cup {None}))

\* Values of --force-flavor; "none" is its absence.
ForceFlavor == Flavor \cup {"none", "all", "unknown"}

ASSUME DetectionAssumption ==
  /\ None \notin Flavor
  /\ Flavor \cap {"none", "all", "unknown"} = {}

Matrix == [image : SUBSET Flavor, amiOnly : SUBSET Flavor]

Everything == [image |-> Flavor, amiOnly |-> {}]
Nothing == [image |-> {}, amiOnly |-> {}]

\* A faulty variant of LoopGuard: one changed lock file is enough.
LoopGuardAny(changed) == changed = {} \/ <<"lock", None>> \in changed

\* No path changed, or none but the lock file that the pipeline itself writes.
LoopGuard(changed) == changed \subseteq {<<"lock", None>>}

\* compute_matrix: the last part, the classification of paths.
PathMap(changed) ==
  LET image == {f \in Flavor : <<"image", f>> \in changed}
      env == {f \in Flavor : <<"env", f>> \in changed}
  IN  IF <<"global", None>> \in changed
        THEN Everything
        ELSE [image |-> image, amiOnly |-> env \ image]

\* compute_matrix: the overrides, the fail-safe and the guards before it.
ComputeMatrix(force, baseline, changed) ==
  CASE force = "all"          -> Everything
    [] force \in Flavor       -> [image |-> {force}, amiOnly |-> {}]
    [] force = "none" /\ ~baseline         -> Everything
    [] force = "none" /\ baseline /\ LoopGuard(changed)  -> Nothing
    [] force = "none" /\ baseline /\ ~LoopGuard(changed) -> PathMap(changed)
    [] force = "unknown"      -> Nothing
=============================================================================
