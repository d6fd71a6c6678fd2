------------------------------ MODULE Deployment ------------------------------
(***************************************************************************)
(* The operator's scripts scripts/deploy.py and scripts/cleanup.py, with    *)
(* Terraform and EC2 as they use them.  The scripts run one at a time, in   *)
(* any order and any number of times, while images are built.               *)
(*                                                                         *)
(* An image stands for its AMI, its snapshot and its region; cleanup.py     *)
(* passes no region to `terraform destroy`, which then looks in the default *)
(* region of terraform/deploy/variables.tf.                                 *)
(***************************************************************************)
CONSTANTS
  Ami,
  Away,   \* images outside the default region
  Nobody  \* no image, no instance

ASSUME DeploymentAssumption == Away \subseteq Ami /\ Nobody \notin Ami

VARIABLES
  result,   \* ami_build_result.json: the image it names
  cloud,    \* EC2: registered images, snapshots, instances Terraform lost
  tfstate,  \* terraform.tfstate: whether it exists, whose instance it tracks
  script,   \* the script that runs, or how the last one ended
  report    \* cleanup.py: what it listed as remaining, what it could not check

deployVars == <<result, cloud, tfstate, script, report>>

Kind == {"ami", "snapshot"}
NoReport == [listed |-> {}, unchecked |-> {}]
Idle == [name |-> "none", stage |-> "idle", ami |-> Nobody, keep |-> FALSE,
         aimed |-> TRUE, exit |-> 0]

DeployInit ==
  /\ result = Nobody
  /\ cloud = [amis |-> {}, snapshots |-> {}, lost |-> {}]
  /\ tfstate = [exists |-> FALSE, tracked |-> Nobody]
  /\ script = Idle
  /\ report = NoReport

In(name, stage) == script.name = name /\ script.stage = stage
Resting == script.stage = "idle"

ToStage(stage) == script' = [script EXCEPT !.stage = stage]
Exits(code) == script' = [Idle EXCEPT !.exit = code]

\* build-ami.py: another image is registered and recorded.
BuildImage(a) ==
  /\ Resting
  /\ a \notin cloud.amis \cup cloud.snapshots \cup cloud.lost \cup {tfstate.tracked}
  /\ result' = a
  /\ cloud' = [cloud EXCEPT !.amis = @ \cup {a}, !.snapshots = @ \cup {a}]
  /\ script' = Idle
  /\ report' = NoReport
  /\ UNCHANGED tfstate
-----------------------------------------------------------------------------
(* deploy.py.                                                              *)

\* Arguments and result file are there, the public address is known if needed.
StartDeploy ==
  /\ Resting /\ result # Nobody
  /\ script' = [Idle EXCEPT !.name = "deploy", !.stage = "init", !.ami = result]
  /\ report' = NoReport
  /\ UNCHANGED <<result, cloud, tfstate>>

DeployInitTerraform ==
  /\ In("deploy", "init")
  /\ ToStage("apply") \/ Exits(1)
  /\ UNCHANGED <<result, cloud, tfstate, report>>

\* Terraform drops from its state what it does not find in the region it was
\* given; the instance is still there.
Forgotten(away) ==
  IF tfstate.tracked # Nobody /\ (tfstate.tracked \in Away) # away
    THEN {tfstate.tracked} ELSE {}

\* One instance: another image replaces it, and the old one is destroyed first.
\* An apply that fails stops before, between or after the two.
Apply ==
  /\ In("deploy", "apply")
  /\ \E launched \in {script.ami} \cap cloud.amis :
       /\ tfstate' = [exists |-> TRUE, tracked |-> launched]
       /\ cloud' = [cloud EXCEPT !.lost = @ \cup Forgotten(launched \in Away)]
  /\ ToStage("output") \/ Exits(1)
  /\ UNCHANGED <<result, report>>

ApplyFails ==
  /\ In("deploy", "apply")
  /\ \E left \in {tfstate.tracked, Nobody} :
       /\ left = Nobody => script.ami # tfstate.tracked
       /\ left # Nobody => Forgotten(script.ami \in Away) = {}
       /\ tfstate' = [exists |-> TRUE, tracked |-> left]
  /\ cloud' = [cloud EXCEPT !.lost = @ \cup Forgotten(script.ami \in Away)]
  /\ Exits(1)
  /\ UNCHANGED <<result, report>>

\* terraform output, and infrastructure_state.json.
Persist ==
  /\ In("deploy", "output")
  /\ Exits(0) \/ Exits(1)
  /\ UNCHANGED <<result, cloud, tfstate, report>>
-----------------------------------------------------------------------------
(* cleanup.py.                                                             *)

\* aimed is FALSE when --terraform-dir names a directory without a state.
StartCleanup ==
  /\ Resting /\ result # Nobody
  /\ \E keep, aimed \in BOOLEAN :
       script' = [name |-> "cleanup", stage |-> "confirm", ami |-> result,
                  keep |-> keep, aimed |-> aimed, exit |-> 0]
  /\ report' = NoReport
  /\ UNCHANGED <<result, cloud, tfstate>>

\* Anything but a yes ends the script, with exit code 0.
Confirm ==
  /\ In("cleanup", "confirm")
  /\ ToStage("destroy") \/ Exits(0)
  /\ UNCHANGED <<result, cloud, tfstate, report>>

SkipDestroy ==
  /\ In("cleanup", "destroy") /\ (~script.aimed \/ ~tfstate.exists)
  /\ ToStage("describe")
  /\ UNCHANGED <<result, cloud, tfstate, report>>

\* init or destroy exits with an error; destroy may have come as far as the
\* instance.
DestroyFails ==
  /\ In("cleanup", "destroy") /\ script.aimed /\ tfstate.exists
  /\ \/ UNCHANGED <<cloud, tfstate>>
     \/ /\ tfstate' = [tfstate EXCEPT !.tracked = Nobody]
        /\ cloud' = [cloud EXCEPT !.lost = @ \cup Forgotten(FALSE)]
  /\ Exits(1)
  /\ UNCHANGED <<result, report>>

Destroy ==
  /\ In("cleanup", "destroy") /\ script.aimed /\ tfstate.exists
  /\ tfstate' = [tfstate EXCEPT !.tracked = Nobody]
  /\ cloud' = [cloud EXCEPT !.lost = @ \cup Forgotten(FALSE)]
  /\ ToStage("describe")
  /\ UNCHANGED <<result, report>>

\* --keep-ami skips all of it; an image that is gone skips the rest of it.
DescribeImage ==
  /\ In("cleanup", "describe")
  /\ \/ ToStage(IF script.keep \/ script.ami \notin cloud.amis
                  THEN "verify" ELSE "deregister")
     \/ ~script.keep /\ Exits(1)
  /\ UNCHANGED <<result, cloud, tfstate, report>>

\* DeleteAssociatedSnapshots tells of a snapshot it could not delete in its
\* answer, which is not looked at; losing the connection afterwards is an error.
DeregisterImage ==
  /\ In("cleanup", "deregister")
  /\ \E deleted \in {{}, {script.ami}} :
       cloud' = [cloud EXCEPT !.amis = @ \ {script.ami}, !.snapshots = @ \ deleted]
  /\ ToStage("verify") \/ Exits(1)
  /\ UNCHANGED <<result, tfstate, report>>

DeregisterFails ==
  /\ In("cleanup", "deregister")
  /\ Exits(1)
  /\ UNCHANGED <<result, cloud, tfstate, report>>

\* A faulty variant of Remaining: the snapshot is taken to go with the image.
RemainingImageOnly == {k \in {"ami"} : script.ami \in cloud.amis}

Remaining ==
  {k \in Kind : \/ k = "ami" /\ script.ami \in cloud.amis
                \/ k = "snapshot" /\ script.ami \in cloud.snapshots}

\* Instances are looked for by a tag that nothing sets, so none is found; a
\* check that EC2 refuses is a warning.
VerifyCleanup ==
  /\ In("cleanup", "verify")
  /\ \E failed \in SUBSET Kind :
       report' = IF script.keep THEN NoReport
                 ELSE [listed |-> Remaining \ failed, unchecked |-> failed]
  /\ Exits(0)
  /\ UNCHANGED <<result, cloud, tfstate>>

\* The connection to EC2 is lost.
VerifyFails ==
  /\ In("cleanup", "verify")
  /\ Exits(1)
  /\ UNCHANGED <<result, cloud, tfstate, report>>

ScriptStep ==
  \/ \E a \in Ami : BuildImage(a)
  \/ StartDeploy \/ DeployInitTerraform \/ Apply \/ ApplyFails \/ Persist
  \/ StartCleanup \/ Confirm \/ SkipDestroy \/ DestroyFails \/ Destroy
  \/ DescribeImage \/ DeregisterImage \/ DeregisterFails
  \/ VerifyCleanup \/ VerifyFails
=============================================================================
