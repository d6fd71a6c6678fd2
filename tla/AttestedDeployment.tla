-------------------------- MODULE AttestedDeployment --------------------------
(***************************************************************************)
(* Images, the scripts that deploy and remove them, and the machine that    *)
(* Terraform tracks: launched with its image, replaced with it, destroyed   *)
(* at any moment of what runs on it.  A machine Terraform lost is not       *)
(* followed any further.                                                   *)
(***************************************************************************)
EXTENDS Deployment, RequestFiles

CONSTANT Trees  \* the roots that image builds bake

ASSUME TreesAssumption == Trees \subseteq Tree /\ None \notin Tree

VARIABLE baked  \* image -> its root

vars == <<deployVars, hostVars, baked>>

Init ==
  /\ DeployInit
  /\ HostIs(NoMachine)
  /\ baked \in [Ami -> Trees]

HostBecomes(h) ==
  /\ sealed' = h.sealed /\ server' = h.server /\ daemon' = h.daemon
  /\ disk' = h.disk /\ task' = h.task /\ outcome' = h.outcome

\* What Terraform does to the machine.
MachineFollows ==
  CASE tfstate'.tracked = tfstate.tracked -> UNCHANGED hostVars
    [] tfstate'.tracked # tfstate.tracked /\ tfstate'.tracked = Nobody ->
         HostBecomes(NoMachine)
    [] tfstate'.tracked # tfstate.tracked /\ tfstate'.tracked # Nobody ->
         HostBecomes(Booted(baked[tfstate'.tracked]))

Operate == ScriptStep /\ MachineFollows /\ UNCHANGED baked

MachineRuns == (Startup \/ RequestStep) /\ UNCHANGED <<deployVars, baked>>

Next == Operate \/ MachineRuns

Spec == Init /\ [][Next]_vars
=============================================================================
