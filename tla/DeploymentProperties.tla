------------------------- MODULE DeploymentProperties -------------------------
(***************************************************************************)
(* The correctness properties of a deployment and its machine.             *)
(***************************************************************************)
EXTENDS AttestedDeployment

ServerStage == {"down", "tpm", "docker", "verify", "load", "bind", "gpu", "probe",
                "ready", "serving"}
TaskStage == {"none", "helper", "undo", "refused", "cloned", "validate", "attest",
              "signed", "unsigned", "attested", "drop", "reply"}
               \cup {"clone", "fetch", "checkout", "inspect", "strip", "degit"}

Scripts ==
  [name : {"none", "deploy", "cleanup"},
   stage : {"idle", "init", "apply", "output", "confirm", "destroy", "describe", "deregister",
            "verify"},
   ami : Ami \cup {Nobody}, keep : BOOLEAN, aimed : BOOLEAN, exit : {0, 1}]
Servers ==
  [stage : ServerStage, derived : Images \cup {None}, bound : Images \cup {None}]
Daemons == [images : SUBSET Images, probes : 0..MaxProbes]
Tasks ==
  [req : Request \cup {None}, call : Call \cup {"none"}, stage : TaskStage,
   todo : Seq(AttestKind), clean : BOOLEAN]
Outcomes == {"new", "replied", "handed_off", "died", "unclean"}

\* The scripts and the cloud.
DeployTypeOK ==
  /\ result \in Ami \cup {Nobody}
  /\ cloud \in [amis : SUBSET Ami, snapshots : SUBSET Ami, lost : SUBSET Ami]
  /\ tfstate \in [exists : BOOLEAN, tracked : Ami \cup {Nobody}]
  /\ script \in Scripts
  /\ report \in [listed : SUBSET Kind, unchecked : SUBSET Kind]
  /\ baked \in [Ami -> Trees]

\* The machine; a probe is removed only where there is one.
HostTypeOK ==
  /\ sealed \in Trees \cup {None}
  /\ server \in Servers
  /\ daemon \in Daemons
  /\ server.stage = "probe" => daemon.probes > 0
  /\ disk \subseteq FileKind \X Request
  /\ task \in Tasks
  /\ outcome \in [Request -> Outcomes]
  /\ task.req = None => task = NoTask

\* The types of the variables.
DeploymentTypeOK == DeployTypeOK /\ HostTypeOK
-----------------------------------------------------------------------------
(***************************************************************************)
(* Whatever a machine went through before (failed starts, images that are  *)
(* still in Docker, another machine in its place), while it serves it is   *)
(* the one Terraform tracks, on the root its image was built with, and the *)
(* image it runs scripts in is there and is the one whose manifest that     *)
(* root expects.                                                           *)
(***************************************************************************)
ServingIsMeasured ==
  server.stage = "serving" =>
    /\ tfstate.tracked # Nobody
    /\ sealed = baked[tfstate.tracked]
    /\ sealed.expected # None
    /\ server.bound = ImageId(sealed.expected)
    /\ server.bound \in daemon.images

(***************************************************************************)
(* Each temporary file is on disk only while it is needed, on every path   *)
(* through clone and attestation: the helper with the caller's token and   *)
(* .git are gone before the repository's code can run, the files of the    *)
(* attestation outlive no call, and the clone outlives its request only in *)
(* the hands of the executor.  What is left behind is left by a process    *)
(* that died, a removal that failed, or a helper that could not be made.   *)
(***************************************************************************)
Cloning == {"clone", "fetch", "checkout", "inspect", "strip", "degit", "undo"}

Needed(kind, call, stage) ==
  /\ kind = "clone" => call = "execute" /\ stage \notin {"refused", "reply"}
  /\ kind = "git" => stage \in Cloning
  /\ kind = "askpass" => stage \in Cloning \cup {"cloned", "refused"}
  /\ kind \in AttestKind => stage \in {"attest", "signed", "unsigned"}

FilesConfined ==
  \A kind \in FileKind, r \in Request : <<kind, r>> \in disk =>
    \/ outcome[r] \in {"died", "unclean"}
    \/ outcome[r] = "handed_off" /\ kind = "clone"
    \/ task.req = r /\ (task.clean => Needed(kind, task.call, task.stage))

(***************************************************************************)
(* When cleanup.py, once confirmed, exits with 0 and was not told to keep  *)
(* the image, the image is gone, Terraform tracks no instance unless it    *)
(* was pointed at another directory, and a snapshot that remains was       *)
(* listed for the operator unless the check for it failed.                 *)
(***************************************************************************)
CleanedUp ==
  /\ script.name = "cleanup" /\ script.stage # "confirm" /\ ~script.keep
  /\ script'.stage = "idle" /\ script'.exit = 0

LeftoversReported ==
  [][CleanedUp =>
       /\ script.ami \notin cloud'.amis
       /\ script.aimed => tfstate'.tracked = Nobody
       /\ script.ami \in cloud'.snapshots =>
            "snapshot" \in report'.listed \cup report'.unchecked]_vars
=============================================================================
