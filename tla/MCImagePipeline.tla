---------------------------- MODULE MCImagePipeline ----------------------------
(***************************************************************************)
(* Model-checking instance of PipelineProperties with two flavors.  The    *)
(* pushes: the lock alone, a file of no consequence, the lock with an      *)
(* image, an environment, an environment with its image, two flavors at    *)
(* different levels, a global file, a directory of no known flavor.        *)
(***************************************************************************)
EXTENDS PipelineProperties

CONSTANTS f1, f2, r1, r2, r3

Flavors == {f1, f2}

AllChanges ==
  { {},
    {<<"lock", None>>},
    {<<"other", None>>, <<"image", None>>},
    {<<"lock", None>>, <<"image", f1>>},
    {<<"env", f1>>},
    {<<"image", f1>>, <<"env", f1>>},
    {<<"image", f1>>, <<"env", f2>>},
    {<<"global", None>>, <<"env", f1>>} }

Runs == {r1, r2, r3}

\* One run is triggered in every way, one by a push to an environment, and one
\* by hand for the same flavor: a run writes, one waits, one displaces it.
ByPush(r, f) ==
  /\ Push(r)
  /\ run'[r].matrix = [image |-> {}, amiOnly |-> {f}]

ByHand(r, f) ==
  /\ Dispatch(r)
  /\ run'[r].event = "dispatch" /\ run'[r].matrix = [image |-> {f}, amiOnly |-> {}]

GroupNext ==
  \/ Push(r1) \/ Dispatch(r1) \/ ByPush(r2, f1) \/ ByHand(r3, f1)
  \/ \E r \in Run : RunStep(r) \/ Rerun(r)

GroupSpec == Init /\ [][GroupNext]_vars /\ \A r \in Run : WF_vars(RunStep(r))
=============================================================================
