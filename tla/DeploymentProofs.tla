--------------------------- MODULE DeploymentProofs ---------------------------
(***************************************************************************)
(* Type correctness of a deployment and its machine, and the four things    *)
(* the runs check of it, for any images, roots, requests and failures.      *)
(***************************************************************************)
EXTENDS DeploymentProperties, TLAPS

\* The machine is the one Terraform tracks, and how far its start has come.
MachineInv ==
  /\ sealed = IF tfstate.tracked = Nobody THEN None ELSE baked[tfstate.tracked]
  /\ server.stage # "down" => sealed # None
  /\ server.stage \in {"load", "bind", "gpu", "probe", "ready", "serving"} =>
       sealed.expected # None /\ server.derived = ImageId(sealed.expected)
  /\ server.stage \in {"gpu", "probe", "ready", "serving"} =>
       server.bound = server.derived /\ server.bound \in daemon.images

\* What cleanup.py has already brought about at each of its steps.
CleanupInv ==
  /\ tfstate.tracked # Nobody => tfstate.exists
  /\ script.name = "cleanup" =>
       /\ script.stage \in {"confirm", "destroy", "describe", "deregister", "verify"}
       /\ script.stage \notin {"confirm", "destroy"} /\ script.aimed =>
            tfstate.tracked = Nobody
       /\ script.stage = "verify" /\ ~script.keep => script.ami \notin cloud.amis

FilesInv ==
  /\ task.req # None => outcome[task.req] = "new"
  /\ FilesConfined

LEMMA RootsAreTrees == \A t \in Trees : t \in Tree /\ t # None
  BY TreesAssumption
-----------------------------------------------------------------------------
(* Types.                                                                  *)

LEMMA IdleIsScript == Idle \in Scripts
  BY DEF Idle, Scripts

LEMMA NoMachineTypes ==
  /\ NoMachine.sealed = None
  /\ NoMachine.server = Down /\ Down \in Servers /\ Down.stage = "down"
  /\ NoMachine.daemon \in Daemons /\ NoMachine.daemon.images = {}
  /\ NoMachine.disk = {}
  /\ NoMachine.task = NoTask /\ NoTask \in Tasks /\ NoTask.req = None
  /\ NoMachine.outcome = [r \in Request |-> "new"]
  /\ NoMachine.outcome \in [Request -> Outcomes]
  <1>1. NoTask \in Tasks
    BY DEF NoTask, Tasks, TaskStage
  <1>2. Down \in Servers
    BY DEF Down, Servers, ServerStage
  <1>3. NoMachine.daemon \in Daemons
    BY HostAssumption DEF NoMachine, Daemons
  <1> QED
    BY <1>1, <1>2, <1>3 DEF NoMachine, NoTask, Down, Outcomes

LEMMA BootedTypes ==
  ASSUME NEW root
  PROVE  /\ Booted(root).sealed = root
         /\ Booted(root).server = NoMachine.server
         /\ Booted(root).daemon = NoMachine.daemon
         /\ Booted(root).disk = NoMachine.disk
         /\ Booted(root).task = NoMachine.task
         /\ Booted(root).outcome = NoMachine.outcome
  BY DEF Booted, NoMachine

LEMMA InitTypes == Init => DeploymentTypeOK
  <1> SUFFICES ASSUME Init PROVE DeploymentTypeOK
    OBVIOUS
  <1>1. DeployTypeOK
    BY IdleIsScript DEF Init, DeployInit, DeployTypeOK, NoReport
  <1>2. /\ sealed = None /\ server = Down /\ daemon = NoMachine.daemon
        /\ disk = {} /\ task = NoTask /\ outcome = NoMachine.outcome
    BY NoMachineTypes DEF Init, HostIs
  <1>3. HostTypeOK
    BY <1>2, NoMachineTypes DEF HostTypeOK
  <1> QED
    BY <1>1, <1>3 DEF DeploymentTypeOK

LEMMA ExitTypes ==
  ASSUME NEW code \in {0, 1}, Exits(code)
  PROVE  script' \in Scripts
  BY DEF Exits, Idle, Scripts

LEMMA StageTypes ==
  ASSUME NEW stage \in {"apply", "output", "destroy", "describe", "deregister", "verify"},
         script \in Scripts, ToStage(stage)
  PROVE  script' \in Scripts
  BY DEF ToStage, Scripts

LEMMA ScriptTypes == DeployTypeOK /\ ScriptStep /\ UNCHANGED baked => DeployTypeOK'
  <1> SUFFICES ASSUME DeployTypeOK, ScriptStep, UNCHANGED baked
               PROVE  DeployTypeOK'
    OBVIOUS
  <1> USE DEF DeployTypeOK
  <1>1. ASSUME NEW a \in Ami, BuildImage(a)
        PROVE  DeployTypeOK'
    BY <1>1, IdleIsScript DEF BuildImage, NoReport
  <1>2. CASE StartDeploy
    <2>1. script' \in Scripts
      BY <1>2 DEF StartDeploy, Idle, Scripts
    <2> QED
      BY <1>2, <2>1 DEF StartDeploy, NoReport
  <1>3. CASE DeployInitTerraform
    <2>1. script' \in Scripts
      BY <1>3, ExitTypes, StageTypes DEF DeployInitTerraform
    <2> QED
      BY <1>3, <2>1 DEF DeployInitTerraform
  <1>4. CASE Apply
    <2>1. script' \in Scripts
      BY <1>4, ExitTypes, StageTypes DEF Apply
    <2> QED
      BY <1>4, <2>1 DEF Apply, Forgotten
  <1>5. CASE ApplyFails
    <2>1. script' \in Scripts
      BY <1>5, ExitTypes DEF ApplyFails
    <2> QED
      BY <1>5, <2>1 DEF ApplyFails, Forgotten
  <1>6. CASE Persist
    <2>1. script' \in Scripts
      BY <1>6, ExitTypes DEF Persist
    <2> QED
      BY <1>6, <2>1 DEF Persist
  <1>7. CASE StartCleanup
    <2>1. script' \in Scripts
      BY <1>7 DEF StartCleanup, Scripts
    <2> QED
      BY <1>7, <2>1 DEF StartCleanup, NoReport
  <1>8. CASE SkipDestroy
    <2>1. script' \in Scripts
      BY <1>8, StageTypes DEF SkipDestroy
    <2> QED
      BY <1>8, <2>1 DEF SkipDestroy
  <1>9. CASE DestroyFails
    <2>1. script' \in Scripts
      BY <1>9, ExitTypes DEF DestroyFails
    <2>2. CASE UNCHANGED <<cloud, tfstate>>
      BY <1>9, <2>1, <2>2 DEF DestroyFails
    <2>3. CASE /\ tfstate' = [tfstate EXCEPT !.tracked = Nobody]
               /\ cloud' = [cloud EXCEPT !.lost = @ \cup Forgotten(FALSE)]
      BY <1>9, <2>1, <2>3 DEF DestroyFails, Forgotten
    <2> QED
      BY <1>9, <2>2, <2>3 DEF DestroyFails
  <1>10. CASE Destroy
    <2>1. script' \in Scripts
      BY <1>10, StageTypes DEF Destroy
    <2> QED
      BY <1>10, <2>1 DEF Destroy, Forgotten
  <1>11. CASE DescribeImage
    <2>1. script' \in Scripts
      BY <1>11, ExitTypes, StageTypes DEF DescribeImage
    <2> QED
      BY <1>11, <2>1 DEF DescribeImage
  <1>12. CASE DeregisterImage
    <2>1. script' \in Scripts
      BY <1>12, ExitTypes, StageTypes DEF DeregisterImage
    <2>2. PICK deleted :
            cloud' = [cloud EXCEPT !.amis = @ \ {script.ami}, !.snapshots = @ \ deleted]
      BY <1>12, Zenon DEF DeregisterImage
    <2>3. UNCHANGED <<result, tfstate, report>>
      BY <1>12, Zenon DEF DeregisterImage
    <2> QED
      BY <2>1, <2>2, <2>3
  <1>13. CASE DeregisterFails
    <2>1. script' \in Scripts
      BY <1>13, ExitTypes DEF DeregisterFails
    <2> QED
      BY <1>13, <2>1 DEF DeregisterFails
  <1>14. CASE VerifyCleanup
    <2>1. script' \in Scripts
      BY <1>14, ExitTypes DEF VerifyCleanup
    <2>2. report' \in [listed : SUBSET Kind, unchecked : SUBSET Kind]
      BY <1>14 DEF VerifyCleanup, NoReport, Remaining
    <2> QED
      BY <1>14, <2>1, <2>2 DEF VerifyCleanup
  <1>15. CASE Confirm
    <2>1. script' \in Scripts
      BY <1>15, ExitTypes, StageTypes DEF Confirm
    <2> QED
      BY <1>15, <2>1 DEF Confirm
  <1>16. CASE VerifyFails
    <2>1. script' \in Scripts
      BY <1>16, ExitTypes DEF VerifyFails
    <2> QED
      BY <1>16, <2>1 DEF VerifyFails
  <1> QED
    BY <1>1, <1>2, <1>3, <1>4, <1>5, <1>6, <1>7, <1>8, <1>9, <1>10, <1>11, <1>12,
       <1>13, <1>14, <1>15, <1>16 DEF ScriptStep

LEMMA FollowTypes == DeploymentTypeOK /\ DeployTypeOK' /\ MachineFollows => HostTypeOK'
  <1> SUFFICES ASSUME DeploymentTypeOK, DeployTypeOK', MachineFollows
               PROVE  HostTypeOK'
    OBVIOUS
  <1>1. CASE UNCHANGED hostVars
    BY <1>1 DEF DeploymentTypeOK, HostTypeOK, hostVars
  <1>2. CASE HostBecomes(NoMachine)
    <2>1. /\ sealed' = None /\ server' = Down /\ daemon' = NoMachine.daemon
          /\ disk' = {} /\ task' = NoTask /\ outcome' = NoMachine.outcome
      BY <1>2, NoMachineTypes DEF HostBecomes
    <2> QED
      BY <2>1, NoMachineTypes DEF HostTypeOK
  <1>3. ASSUME tfstate'.tracked # Nobody, HostBecomes(Booted(baked[tfstate'.tracked])),
               baked[tfstate'.tracked] \in Trees
        PROVE  HostTypeOK'
    <2>1. /\ sealed' = baked[tfstate'.tracked]
          /\ server' = Down /\ daemon' = NoMachine.daemon
          /\ disk' = {} /\ task' = NoTask /\ outcome' = NoMachine.outcome
      BY <1>3, BootedTypes, NoMachineTypes DEF HostBecomes
    <2> QED
      BY <1>3, <2>1, NoMachineTypes DEF HostTypeOK
  <1>4. tfstate'.tracked # Nobody => baked[tfstate'.tracked] \in Trees
    BY DEF DeploymentTypeOK, DeployTypeOK
  <1> QED
    BY <1>1, <1>2, <1>3, <1>4 DEF MachineFollows

LEMMA ProceedTypes ==
  ASSUME NEW stage \in ServerStage, server \in Servers, Proceed(stage)
  PROVE  server' \in Servers /\ server'.stage = stage
  BY DEF Proceed, Servers

LEMMA ExitServerTypes ==
  ASSUME Exit
  PROVE  server' \in Servers /\ server'.stage = "down"
  BY NoMachineTypes DEF Exit

LEMMA StartupTypes == HostTypeOK /\ Startup => HostTypeOK'
  <1> SUFFICES ASSUME HostTypeOK, Startup PROVE HostTypeOK'
    OBVIOUS
  <1> USE DEF HostTypeOK, requestVars
  <1>a. "down" \in ServerStage /\ "tpm" \in ServerStage /\ "docker" \in ServerStage
        /\ "verify" \in ServerStage /\ "load" \in ServerStage /\ "bind" \in ServerStage
        /\ "gpu" \in ServerStage /\ "probe" \in ServerStage /\ "ready" \in ServerStage
        /\ "serving" \in ServerStage
    BY DEF ServerStage
  <1>1. CASE StartServer
    <2>1. server' \in Servers /\ server'.stage # "probe"
      BY <1>1, <1>a, ProceedTypes DEF StartServer
    <2> QED
      BY <1>1, <2>1 DEF StartServer
  <1>2. CASE VerifyTpm
    <2>1. server' \in Servers /\ server'.stage # "probe"
      BY <1>2, <1>a, ProceedTypes, ExitServerTypes DEF VerifyTpm
    <2> QED
      BY <1>2, <2>1 DEF VerifyTpm
  <1>3. CASE ConnectDocker
    <2>1. server' \in Servers /\ server'.stage # "probe"
      BY <1>3, <1>a, ProceedTypes, ExitServerTypes DEF ConnectDocker
    <2> QED
      BY <1>3, <2>1 DEF ConnectDocker
  <1>4. CASE VerifyManifest
    <2>1. CASE Exit
      BY <1>4, <2>1, ExitServerTypes DEF VerifyManifest
    <2>2. CASE /\ Verified(sealed)
               /\ server' = [server EXCEPT !.stage = "load",
                                           !.derived = ImageId(sealed.manifest)]
      <3>1. sealed \in Tree
        BY <1>4, RootsAreTrees DEF VerifyManifest, ServerAt
      <3>2. ImageId(sealed.manifest) \in Images
        BY <2>2, <3>1 DEF Verified, Tree, Images
      <3>3. server' \in Servers /\ server'.stage = "load"
        BY <2>2, <3>2, <1>a DEF Servers
      <3> QED
        BY <1>4, <3>3 DEF VerifyManifest
    <2> QED
      BY <1>4, <2>1, <2>2 DEF VerifyManifest
  <1>5. CASE LoadArchive
    <2>1. server' \in Servers /\ server'.stage # "probe"
      BY <1>5, <1>a, ProceedTypes, ExitServerTypes DEF LoadArchive
    <2>2. daemon' \in Daemons
      <3>1. sealed \in Tree
        BY <1>5, RootsAreTrees DEF LoadArchive, ServerAt
      <3>2. sealed.archive # None => ImageId(sealed.archive) \in Images
        BY <3>1 DEF Tree, Images
      <3>3. Rewritten \in Images
        BY DEF Images
      <3> QED
        BY <1>5, <3>2, <3>3 DEF LoadArchive, Daemons
    <2> QED
      BY <1>5, <2>1, <2>2 DEF LoadArchive
  <1>6. CASE BindImage
    <2>1. CASE Exit
      BY <1>6, <2>1, ExitServerTypes DEF BindImage
    <2>2. CASE /\ server.derived \in daemon.images
               /\ server' = [server EXCEPT !.bound = server.derived,
                                           !.stage = IF sealed.gpu THEN "gpu" ELSE "ready"]
      <3>1. server.derived \in Images
        BY <2>2 DEF Daemons
      <3>2. server' \in Servers /\ server'.stage # "probe"
        BY <2>2, <3>1, <1>a DEF Servers
      <3> QED
        BY <1>6, <3>2 DEF BindImage
    <2> QED
      BY <1>6, <2>1, <2>2 DEF BindImage
  <1>7. CASE CreateProbe
    <2>1. CASE Exit /\ UNCHANGED daemon
      BY <1>7, <2>1, ExitServerTypes DEF CreateProbe
    <2>2. CASE /\ daemon.probes < MaxProbes
               /\ daemon' = [daemon EXCEPT !.probes = @ + 1]
               /\ Proceed("probe")
      <3>1. server' \in Servers
        BY <2>2, <1>a, ProceedTypes
      <3>2. daemon' \in Daemons /\ daemon'.probes > 0
        BY <2>2, HostAssumption DEF Daemons
      <3> QED
        BY <1>7, <3>1, <3>2 DEF CreateProbe
    <2> QED
      BY <1>7, <2>1, <2>2 DEF CreateProbe
  <1>8. CASE RemoveProbe
    <2>1. CASE Exit /\ UNCHANGED daemon
      BY <1>8, <2>1, ExitServerTypes DEF RemoveProbe
    <2>2. CASE daemon' = [daemon EXCEPT !.probes = @ - 1] /\ Proceed("ready")
      <3>1. server' \in Servers /\ server'.stage # "probe"
        BY <2>2, <1>a, ProceedTypes
      <3>2. daemon.probes > 0
        BY <1>8 DEF RemoveProbe, ServerAt
      <3>3. daemon' \in Daemons
        BY <2>2, <3>2, HostAssumption DEF Daemons
      <3> QED
        BY <1>8, <3>1, <3>3 DEF RemoveProbe
    <2> QED
      BY <1>8, <2>1, <2>2 DEF RemoveProbe
  <1>9. CASE Listen
    <2>1. server' \in Servers /\ server'.stage # "probe"
      BY <1>9, <1>a, ProceedTypes, ExitServerTypes DEF Listen
    <2> QED
      BY <1>9, <2>1 DEF Listen
  <1>10. CASE Die
    <2>1. server' \in Servers /\ server'.stage # "probe"
      BY <1>10, ExitServerTypes DEF Die
    <2>2. outcome' \in [Request -> Outcomes]
      BY <1>10 DEF Die, Outcomes
    <2> QED
      BY <1>10, <2>1, <2>2, NoMachineTypes DEF Die
  <1> QED
    BY <1>1, <1>2, <1>3, <1>4, <1>5, <1>6, <1>7, <1>8, <1>9, <1>10 DEF Startup
-----------------------------------------------------------------------------
(* The steps of a request, in one form: what each does to files and task.  *)

LEMMA AtWork ==
  ASSUME HostTypeOK, task.stage # "none"
  PROVE  task.req \in Request /\ task.req # None
  BY HostAssumption DEF HostTypeOK, Tasks, NoTask

LEMMA OfKinds ==
  ASSUME NEW kinds
  PROVE  \A k, r : <<k, r>> \in Of(kinds) <=> k \in kinds /\ r = task.req
  BY DEF Of

LEMMA DiskTypes ==
  ASSUME HostTypeOK, task.stage # "none", NEW kinds \in SUBSET FileKind
  PROVE  Of(kinds) \subseteq FileKind \X Request
  BY AtWork DEF Of

LEMMA GotoTypes ==
  ASSUME HostTypeOK, NEW stage \in TaskStage, Goto(stage)
  PROVE  /\ task' \in Tasks /\ task'.req = task.req /\ task'.call = task.call
         /\ task'.stage = stage /\ task'.clean = task.clean
  BY DEF HostTypeOK, Goto, Tasks

LEMMA RemovesTypes ==
  ASSUME HostTypeOK, NEW stage \in TaskStage, NEW kinds \in SUBSET FileKind,
         NEW fault, Removes(kinds, fault, stage)
  PROVE  /\ task' \in Tasks /\ task'.req = task.req /\ task'.call = task.call
         /\ task'.stage = stage
         /\ disk' \subseteq disk
         /\ task'.clean => task.clean /\ disk' = disk \ Of(kinds)
  <1>1. CASE disk' = disk \ Of(kinds) /\ Goto(stage)
    BY <1>1, GotoTypes
  <1>2. CASE /\ UNCHANGED disk
             /\ task' = [task EXCEPT !.stage = stage, !.clean = FALSE]
    BY <1>2 DEF HostTypeOK, Tasks
  <1> QED
    BY <1>1, <1>2 DEF Removes

LEMMA EndsTypes ==
  ASSUME HostTypeOK, task.stage # "none", NEW how \in Outcomes, Ends(how)
  PROVE  /\ task' = NoTask /\ task' \in Tasks
         /\ outcome' \in [Request -> Outcomes]
         /\ \A r \in Request : r # task.req => outcome'[r] = outcome[r]
         /\ outcome'[task.req] = IF task.clean THEN how ELSE "unclean"
  BY AtWork, NoMachineTypes DEF Ends, HostTypeOK, Outcomes

\* A step of the request at work that keeps it at work.
LEMMA WorkTypes ==
  ASSUME HostTypeOK, task.stage # "none", Quietly,
         disk' \subseteq FileKind \X Request, task' \in Tasks, task'.req = task.req
  PROVE  HostTypeOK'
  BY AtWork DEF HostTypeOK, Quietly

LEMMA WorkFiles ==
  ASSUME HostTypeOK, FilesInv, task.stage # "none", Quietly, task'.req = task.req,
         task'.clean => task.clean,
         \A kind \in FileKind, r \in Request :
           <<kind, r>> \in disk' /\ r # task.req => <<kind, r>> \in disk,
         \A kind \in FileKind :
           <<kind, task.req>> \in disk' /\ task'.clean =>
             Needed(kind, task'.call, task'.stage)
  PROVE  FilesInv'
  <1>1. outcome' = outcome
    BY DEF Quietly
  <1>2. FilesConfined'
    <2> SUFFICES ASSUME NEW kind \in FileKind, NEW r \in Request, <<kind, r>> \in disk'
                 PROVE  \/ outcome[r] \in {"died", "unclean"}
                        \/ outcome[r] = "handed_off" /\ kind = "clone"
                        \/ /\ task'.req = r
                           /\ task'.clean => Needed(kind, task'.call, task'.stage)
      BY <1>1 DEF FilesConfined, Needed
    <2>1. CASE r = task.req
      BY <2>1
    <2>2. CASE r # task.req
      BY <2>2 DEF FilesInv, FilesConfined
    <2> QED
      BY <2>1, <2>2
  <1> QED
    BY <1>1, <1>2 DEF FilesInv

\* What the files of the request at work tell before a step.
LEMMA Before ==
  ASSUME HostTypeOK, FilesInv, task.stage # "none", task.clean,
         NEW kind \in FileKind, <<kind, task.req>> \in disk
  PROVE  Needed(kind, task.call, task.stage)
  BY AtWork DEF FilesInv, FilesConfined

LEMMA StageNames ==
  /\ "none" \notin Cloning
  /\ Cloning \cup {"refused", "cloned", "validate", "attest", "signed", "unsigned",
                   "attested", "drop", "reply", "helper"} \subseteq TaskStage
  /\ \A i \in 1..6 : CloneStage[i] \in Cloning
  BY DEF Cloning, TaskStage, CloneStage

LEMMA AttestFilesTypes ==
  ASSUME NEW call, NEW nonce
  PROVE  AttestFiles(call, nonce) \in Seq(AttestKind)
  <1> DEFINE kinds == {"user_data", "nonce", "public_key"}
  <1>1. <<>> \in Seq(kinds) /\ \A k \in kinds : <<k>> \in Seq(kinds)
    OBVIOUS
  <1>2. \A p, q \in Seq(kinds) : p \o q \in Seq(kinds)
    OBVIOUS
  <1> DEFINE first == IF call = "attest" THEN <<>> ELSE <<"user_data">>
             second == IF nonce THEN <<"nonce">> ELSE <<>>
             third == IF call = "attest" THEN <<"public_key">> ELSE <<>>
  <1>3. first \in Seq(kinds) /\ second \in Seq(kinds) /\ third \in Seq(kinds)
    BY <1>1
  <1>4. AttestFiles(call, nonce) = first \o second \o third
    BY DEF AttestFiles
  <1>5. AttestKind = kinds
    BY DEF AttestKind
  <1> HIDE DEF first, second, third, kinds
  <1>6. (first \o second) \o third \in Seq(kinds)
    BY <1>2, <1>3
  <1> QED
    BY <1>4, <1>5, <1>6

LEMMA BeginSteps ==
  ASSUME HostTypeOK, FilesInv, NEW r \in Request, BeginExecute(r) \/ BeginAttest(r)
  PROVE  HostTypeOK' /\ FilesInv'
  <1>1. /\ task = NoTask /\ outcome[r] = "new" /\ Quietly
        /\ task'.req = r /\ task'.clean
    BY DEF BeginExecute, BeginAttest
  <1>2. r # None /\ task.req = None
    BY <1>1, HostAssumption, NoMachineTypes
  <1>3. \A kind \in FileKind : <<kind, r>> \notin disk
    BY <1>1, <1>2 DEF FilesInv, FilesConfined
  <1>4. outcome' = outcome /\ sealed' = sealed /\ server' = server /\ daemon' = daemon
    BY <1>1 DEF Quietly
  <1>5. /\ \A kind \in FileKind, q \in Request :
             <<kind, q>> \in disk' => \/ <<kind, q>> \in disk
                                      \/ q = r /\ Needed(kind, task'.call, task'.stage)
        /\ task' \in Tasks /\ disk' \subseteq FileKind \X Request
    <2>1. CASE BeginExecute(r)
      <3>1. task' = [req |-> r, call |-> "execute", stage |-> "helper", todo |-> <<>>,
                     clean |-> TRUE]
        BY <2>1 DEF BeginExecute
      <3>2. task' \in Tasks /\ task'.call = "execute" /\ task'.stage = "helper"
        BY <3>1 DEF Tasks, Call, TaskStage
      <3>3. disk' = disk \cup {<<"clone", r>>} /\ "clone" \in FileKind
        BY <2>1 DEF BeginExecute, FileKind
      <3> QED
        BY <3>2, <3>3 DEF Needed, HostTypeOK, AttestKind
    <2>2. CASE BeginAttest(r)
      <3>1. PICK call \in {"output", "attest"}, nonce \in BOOLEAN :
              task' = [req |-> r, call |-> call, stage |-> "attest",
                       todo |-> AttestFiles(call, nonce), clean |-> TRUE]
        BY <2>2 DEF BeginAttest
      <3>2. AttestFiles(call, nonce) \in Seq(AttestKind)
        BY AttestFilesTypes
      <3>3. task' \in Tasks
        BY <3>1, <3>2 DEF Tasks, Call, TaskStage
      <3>4. disk' = disk
        BY <2>2 DEF BeginAttest
      <3> QED
        BY <3>3, <3>4 DEF HostTypeOK
    <2> QED
      BY <2>1, <2>2
  <1>6. HostTypeOK'
    BY <1>1, <1>2, <1>4, <1>5 DEF HostTypeOK
  <1>7. FilesConfined'
    <2> SUFFICES ASSUME NEW kind \in FileKind, NEW q \in Request, <<kind, q>> \in disk'
                 PROVE  \/ outcome[q] \in {"died", "unclean"}
                        \/ outcome[q] = "handed_off" /\ kind = "clone"
                        \/ /\ task'.req = q
                           /\ task'.clean => Needed(kind, task'.call, task'.stage)
      BY <1>4 DEF FilesConfined, Needed
    <2>1. CASE q = r /\ Needed(kind, task'.call, task'.stage)
      BY <1>1, <2>1
    <2>2. CASE <<kind, q>> \in disk
      <3>1. task.req # q
        BY <1>2, HostAssumption
      <3> QED
        BY <2>2, <3>1 DEF FilesInv, FilesConfined
    <2> QED
      BY <1>5, <2>1, <2>2
  <1> QED
    BY <1>1, <1>4, <1>6, <1>7 DEF FilesInv

LEMMA CloneSteps ==
  ASSUME HostTypeOK, FilesInv,
         \/ CreateHelper \/ CloneStep \/ CloneStepFails \/ UndoClone \/ UnlinkHelper
  PROVE  HostTypeOK' /\ FilesInv'
  <1> USE DEF HostTypeOK
  <1>1. CASE CreateHelper
    <2>1. task.stage = "helper" /\ Quietly
      BY <1>1 DEF CreateHelper, At
    <2>2. /\ task' \in Tasks /\ task'.req = task.req /\ task'.call = task.call
          /\ task'.stage = "clone" /\ task'.clean = task.clean
      BY <1>1, GotoTypes, StageNames DEF CreateHelper, Cloning
    <2>3. disk' = disk \cup Of({"askpass"}) /\ {"askpass"} \in SUBSET FileKind
      BY <1>1 DEF CreateHelper, FileKind
    <2>4. disk' \subseteq FileKind \X Request
      BY <2>1, <2>3, DiskTypes
    <2>5. \A kind \in FileKind :
            <<kind, task.req>> \in disk' /\ task'.clean =>
              Needed(kind, task'.call, task'.stage)
      BY <2>1, <2>2, <2>3, OfKinds, Before DEF Needed, Cloning, AttestKind
    <2> QED
      BY <2>1, <2>2, <2>3, <2>4, <2>5, OfKinds, WorkTypes, WorkFiles
  <1>2. CASE CloneStep
    <2>1. PICK i \in 1..6 :
            /\ task.stage = CloneStage[i] /\ Quietly
            /\ disk' = CloneEffect(CloneStage[i])
            /\ Goto(IF i = 6 THEN "cloned" ELSE CloneStage[i + 1])
      BY <1>2 DEF CloneStep, At
    <2>2. task.stage \in Cloning /\ task.stage # "none"
      BY <2>1, StageNames
    <2> DEFINE stage == IF i = 6 THEN "cloned" ELSE CloneStage[i + 1]
    <2>3. stage \in Cloning \cup {"cloned"} /\ stage \in TaskStage
      BY StageNames
    <2>4. /\ task' \in Tasks /\ task'.req = task.req /\ task'.call = task.call
          /\ task'.stage = stage /\ task'.clean = task.clean
      BY <2>1, <2>3, GotoTypes
    <2>5. \/ stage \in Cloning /\ disk' \subseteq disk \cup Of({"git"})
          \/ stage = "cloned" /\ disk' = disk \ Of({"git"})
      <3>1. CASE i = 6
        BY <2>1, <3>1 DEF CloneEffect, CloneStage
      <3>2. CASE i # 6
        <4>1. i \in 1..5
          BY <3>2
        <4>2. stage \in Cloning
          BY <3>2, <4>1, StageNames
        <4>3. CloneStage[i] # "degit"
          BY <4>1 DEF CloneStage
        <4> QED
          BY <2>1, <4>2, <4>3 DEF CloneEffect
      <3> QED
        BY <3>1, <3>2
    <2> HIDE DEF stage
    <2>6. disk' \subseteq FileKind \X Request
      BY <2>2, <2>5, DiskTypes DEF FileKind
    <2>7. \A kind \in FileKind :
            <<kind, task.req>> \in disk' /\ task'.clean =>
              Needed(kind, task'.call, task'.stage)
      <3> SUFFICES ASSUME NEW kind \in FileKind, <<kind, task.req>> \in disk', task'.clean
                   PROVE  Needed(kind, task.call, stage)
        BY <2>4
      <3>1. CASE <<kind, task.req>> \in disk
        <4>1. Needed(kind, task.call, task.stage)
          BY <2>2, <2>4, <3>1, Before
        <4>2. kind = "git" => stage \in Cloning
          BY <2>5, OfKinds
        <4> QED
          BY <2>2, <2>3, <4>1, <4>2 DEF Needed, Cloning, AttestKind
      <3>2. CASE <<kind, task.req>> \notin disk
        BY <2>5, <3>2, OfKinds DEF Needed, AttestKind
      <3> QED
        BY <3>1, <3>2
    <2> QED
      BY <2>1, <2>2, <2>4, <2>5, <2>6, <2>7, OfKinds, WorkTypes, WorkFiles
  <1>3. CASE CloneStepFails
    <2>1. task.stage \in Cloning /\ task.stage # "none" /\ Quietly
      BY <1>3, StageNames DEF CloneStepFails, At
    <2>2. /\ task' \in Tasks /\ task'.req = task.req /\ task'.call = task.call
          /\ task'.stage = "undo" /\ task'.clean = task.clean
      BY <1>3, GotoTypes, StageNames DEF CloneStepFails, Cloning
    <2>3. disk \subseteq disk' /\ disk' \subseteq disk \cup Of({"git"})
      BY <1>3, OfKinds DEF CloneStepFails, Of
    <2>4. disk' \subseteq FileKind \X Request
      BY <2>1, <2>3, DiskTypes DEF FileKind
    <2>5. \A kind \in FileKind :
            <<kind, task.req>> \in disk' /\ task'.clean =>
              Needed(kind, task'.call, task'.stage)
      <3> SUFFICES ASSUME NEW kind \in FileKind, <<kind, task.req>> \in disk', task'.clean
                   PROVE  Needed(kind, task.call, "undo")
        BY <2>2
      <3>1. kind = "git" \/ Needed(kind, task.call, task.stage)
        BY <2>1, <2>2, <2>3, OfKinds, Before
      <3> QED
        BY <2>1, <3>1 DEF Needed, Cloning, AttestKind
    <2> QED
      BY <2>1, <2>2, <2>3, <2>4, <2>5, OfKinds, WorkTypes, WorkFiles
  <1>4. CASE UndoClone
    <2>1. task.stage = "undo" /\ Quietly /\ Removes({"clone", "git"}, "rmtree", "refused")
      BY <1>4 DEF UndoClone, At
    <2>2. /\ task' \in Tasks /\ task'.req = task.req /\ task'.call = task.call
          /\ task'.stage = "refused" /\ disk' \subseteq disk
          /\ task'.clean => task.clean /\ disk' = disk \ Of({"clone", "git"})
      BY <2>1, RemovesTypes, StageNames DEF FileKind
    <2>3. \A kind \in FileKind :
            <<kind, task.req>> \in disk' /\ task'.clean =>
              Needed(kind, task'.call, task'.stage)
      BY <2>1, <2>2, OfKinds, Before DEF Needed, AttestKind
    <2> QED
      BY <2>1, <2>2, <2>3, WorkTypes, WorkFiles
  <1>5. CASE UnlinkHelper
    <2> DEFINE stage == IF At("cloned") THEN "validate" ELSE "reply"
    <2>1. /\ task.stage \in {"cloned", "refused"} /\ Quietly
          /\ Removes({"askpass"}, "unlink", stage)
          /\ stage = IF task.stage = "cloned" THEN "validate" ELSE "reply"
      BY <1>5 DEF UnlinkHelper, At
    <2> HIDE DEF stage
    <2>2. stage \in TaskStage
      BY <2>1, StageNames
    <2>3. /\ task' \in Tasks /\ task'.req = task.req /\ task'.call = task.call
          /\ task'.stage = stage /\ disk' \subseteq disk
          /\ task'.clean => task.clean /\ disk' = disk \ Of({"askpass"})
      BY <2>1, <2>2, RemovesTypes DEF FileKind
    <2>4. \A kind \in FileKind :
            <<kind, task.req>> \in disk' /\ task'.clean =>
              Needed(kind, task'.call, task'.stage)
      <3> SUFFICES ASSUME NEW kind \in FileKind, <<kind, task.req>> \in disk', task'.clean
                   PROVE  Needed(kind, task.call, stage)
        BY <2>3
      <3>1. Needed(kind, task.call, task.stage) /\ kind # "askpass"
        BY <2>1, <2>3, OfKinds, Before
      <3> QED
        BY <2>1, <3>1 DEF Needed, Cloning, AttestKind
    <2> QED
      BY <2>1, <2>3, <2>4, WorkTypes, WorkFiles
  <1> QED
    BY <1>1, <1>2, <1>3, <1>4, <1>5

\* A step that ends the request at work.
LEMMA EndFiles ==
  ASSUME HostTypeOK, FilesInv, task.stage # "none", task' = NoTask,
         UNCHANGED <<sealed, server, daemon>>,
         outcome' \in [Request -> Outcomes],
         \A r \in Request : r # task.req => outcome'[r] = outcome[r],
         disk' \subseteq FileKind \X Request,
         \A kind \in FileKind, r \in Request :
           <<kind, r>> \in disk' /\ r # task.req => <<kind, r>> \in disk,
         \A kind \in FileKind :
           <<kind, task.req>> \in disk' =>
             \/ outcome'[task.req] \in {"died", "unclean"}
             \/ outcome'[task.req] = "handed_off" /\ kind = "clone"
  PROVE  HostTypeOK' /\ FilesInv'
  <1>1. HostTypeOK'
    BY NoMachineTypes DEF HostTypeOK
  <1>2. task'.req = None
    BY NoMachineTypes
  <1>3. FilesConfined'
    <2> SUFFICES ASSUME NEW kind \in FileKind, NEW r \in Request, <<kind, r>> \in disk'
                 PROVE  \/ outcome'[r] \in {"died", "unclean"}
                        \/ outcome'[r] = "handed_off" /\ kind = "clone"
      BY DEF FilesConfined
    <2>1. CASE r = task.req
      BY <2>1
    <2>2. CASE r # task.req
      BY <2>2 DEF FilesInv, FilesConfined
    <2> QED
      BY <2>1, <2>2
  <1> QED
    BY <1>1, <1>2, <1>3 DEF FilesInv

LEMMA HelperFails ==
  ASSUME HostTypeOK, FilesInv, CreateHelperFails
  PROVE  HostTypeOK' /\ FilesInv'
  <1>1. task.stage = "helper" /\ task' = NoTask /\ UNCHANGED <<sealed, server, daemon>>
    BY DEF CreateHelperFails, At
  <1>2. PICK made \in {{}, {"askpass"}} : disk' = disk \cup Of(made)
    BY DEF CreateHelperFails
  <1>3. made \in SUBSET FileKind
    BY DEF FileKind
  <1>4. disk' \subseteq FileKind \X Request
    BY <1>1, <1>2, <1>3, DiskTypes DEF HostTypeOK
  <1>5. /\ outcome' \in [Request -> Outcomes]
        /\ \A r \in Request : r # task.req => outcome'[r] = outcome[r]
        /\ outcome'[task.req] = "unclean"
    BY <1>1, AtWork DEF CreateHelperFails, HostTypeOK, Outcomes
  <1> QED
    BY <1>1, <1>2, <1>4, <1>5, OfKinds, EndFiles

LEMMA ReplySteps ==
  ASSUME HostTypeOK, FilesInv, HandOff \/ Reply
  PROVE  HostTypeOK' /\ FilesInv'
  <1>1. PICK how \in {"handed_off", "replied"} :
          /\ Ends(how)
          /\ \/ /\ how = "handed_off"
                /\ task.stage = "attested" /\ task.call = "execute"
             \/ /\ how = "replied"
                /\ \/ task.stage = "reply"
                   \/ task.stage = "attested" /\ task.call # "execute"
    BY DEF HandOff, Reply, At
  <1>2. task.stage # "none" /\ disk' = disk /\ UNCHANGED <<sealed, server, daemon>>
    BY <1>1 DEF HandOff, Reply, Ends
  <1>3. /\ task' = NoTask /\ outcome' \in [Request -> Outcomes]
        /\ \A r \in Request : r # task.req => outcome'[r] = outcome[r]
        /\ outcome'[task.req] = IF task.clean THEN how ELSE "unclean"
    BY <1>1, <1>2, EndsTypes DEF Outcomes
  <1>4. \A kind \in FileKind :
          <<kind, task.req>> \in disk /\ task.clean => how = "handed_off" /\ kind = "clone"
    <2> SUFFICES ASSUME NEW kind \in FileKind, <<kind, task.req>> \in disk, task.clean
                 PROVE  how = "handed_off" /\ kind = "clone"
      OBVIOUS
    <2>1. Needed(kind, task.call, task.stage)
      BY <1>2, Before
    <2> QED
      BY <1>1, <2>1 DEF Needed, Cloning, FileKind, AttestKind
  <1>5. \A kind \in FileKind :
          <<kind, task.req>> \in disk' =>
            \/ outcome'[task.req] \in {"died", "unclean"}
            \/ outcome'[task.req] = "handed_off" /\ kind = "clone"
    BY <1>2, <1>3, <1>4
  <1> QED
    BY <1>2, <1>3, <1>5, EndFiles DEF HostTypeOK

LEMMA ValidateSteps ==
  ASSUME HostTypeOK, FilesInv, Validate \/ ValidateFails \/ HandOffFails \/ InvokeTpm \/ DropClone
  PROVE  HostTypeOK' /\ FilesInv'
  <1> USE DEF HostTypeOK
  <1>1. CASE Validate
    <2>1. PICK nonce \in BOOLEAN :
            task' = [task EXCEPT !.stage = "attest",
                                 !.todo = AttestFiles("execute", nonce)]
      BY <1>1 DEF Validate
    <2>2. task.stage = "validate" /\ disk' = disk /\ Quietly
      BY <1>1 DEF Validate, At
    <2>3. /\ task' \in Tasks /\ task'.req = task.req /\ task'.call = task.call
          /\ task'.stage = "attest" /\ task'.clean = task.clean
      BY <2>1, AttestFilesTypes, StageNames DEF Tasks
    <2>4. \A kind \in FileKind :
            <<kind, task.req>> \in disk' /\ task'.clean =>
              Needed(kind, task'.call, task'.stage)
      BY <2>2, <2>3, Before DEF Needed, Cloning, AttestKind
    <2> QED
      BY <2>2, <2>3, <2>4, WorkTypes, WorkFiles
  <1>2. CASE ValidateFails \/ HandOffFails
    <2>1. task.stage \in {"validate", "attested"} /\ disk' = disk /\ Quietly /\ Goto("drop")
      BY <1>2 DEF ValidateFails, HandOffFails, At
    <2>2. /\ task' \in Tasks /\ task'.req = task.req /\ task'.call = task.call
          /\ task'.stage = "drop" /\ task'.clean = task.clean
      BY <2>1, GotoTypes, StageNames
    <2>3. \A kind \in FileKind :
            <<kind, task.req>> \in disk' /\ task'.clean =>
              Needed(kind, task'.call, task'.stage)
      BY <2>1, <2>2, Before DEF Needed, Cloning, AttestKind
    <2> QED
      BY <2>1, <2>2, <2>3, WorkTypes, WorkFiles
  <1>3. CASE InvokeTpm
    <2>1. task.stage = "attest" /\ disk' = disk /\ Quietly /\ Goto("signed")
      BY <1>3 DEF InvokeTpm, At
    <2>2. /\ task' \in Tasks /\ task'.req = task.req /\ task'.call = task.call
          /\ task'.stage = "signed" /\ task'.clean = task.clean
      BY <2>1, GotoTypes, StageNames
    <2>3. \A kind \in FileKind :
            <<kind, task.req>> \in disk' /\ task'.clean =>
              Needed(kind, task'.call, task'.stage)
      BY <2>1, <2>2, Before DEF Needed, Cloning
    <2> QED
      BY <2>1, <2>2, <2>3, WorkTypes, WorkFiles
  <1>4. CASE DropClone
    <2>1. task.stage = "drop" /\ Quietly /\ Removes({"clone", "git"}, "rmtree", "reply")
      BY <1>4 DEF DropClone, At
    <2>2. /\ task' \in Tasks /\ task'.req = task.req /\ task'.call = task.call
          /\ task'.stage = "reply" /\ disk' \subseteq disk
          /\ task'.clean => task.clean /\ disk' = disk \ Of({"clone", "git"})
      BY <2>1, RemovesTypes, StageNames DEF FileKind
    <2>3. \A kind \in FileKind :
            <<kind, task.req>> \in disk' /\ task'.clean =>
              Needed(kind, task'.call, task'.stage)
      BY <2>1, <2>2, OfKinds, Before DEF Needed, Cloning, AttestKind
    <2> QED
      BY <2>1, <2>2, <2>3, WorkTypes, WorkFiles
  <1> QED
    BY <1>1, <1>2, <1>3, <1>4

LEMMA AttestSteps ==
  ASSUME HostTypeOK, FilesInv, WriteAttestFile \/ AttestFails \/ ReleaseAttestFiles
  PROVE  HostTypeOK' /\ FilesInv'
  <1> USE DEF HostTypeOK
  <1>a. AttestKind \in SUBSET FileKind
    BY DEF FileKind
  <1>b. task.todo # <<>> => Head(task.todo) \in AttestKind /\ Tail(task.todo) \in Seq(AttestKind)
    BY DEF Tasks
  <1>1. CASE WriteAttestFile
    <2>1. /\ task.stage = "attest" /\ Quietly
          /\ disk' = disk \cup Of({Head(task.todo)})
          /\ task' = [task EXCEPT !.todo = Tail(task.todo)]
          /\ {Head(task.todo)} \in SUBSET AttestKind
      BY <1>1, <1>b DEF WriteAttestFile, At
    <2>2. /\ task' \in Tasks /\ task'.req = task.req /\ task'.call = task.call
          /\ task'.stage = "attest" /\ task'.clean = task.clean
      BY <1>1, <1>b, <2>1 DEF WriteAttestFile, Tasks
    <2>3. disk' \subseteq FileKind \X Request
      BY <1>a, <2>1, DiskTypes
    <2>4. \A kind \in FileKind :
            <<kind, task.req>> \in disk' /\ task'.clean =>
              Needed(kind, task'.call, task'.stage)
      BY <2>1, <2>2, OfKinds, Before DEF Needed, AttestKind
    <2> QED
      BY <2>1, <2>2, <2>3, <2>4, OfKinds, WorkTypes, WorkFiles
  <1>2. CASE AttestFails
    <2>1. PICK made \in SUBSET AttestKind : disk' = disk \cup Of(made)
      BY <1>2, <1>b DEF AttestFails
    <2>2. task.stage = "attest" /\ Quietly /\ Goto("unsigned")
      BY <1>2 DEF AttestFails, At
    <2>3. /\ task' \in Tasks /\ task'.req = task.req /\ task'.call = task.call
          /\ task'.stage = "unsigned" /\ task'.clean = task.clean
      BY <2>2, GotoTypes, StageNames
    <2>4. disk' \subseteq FileKind \X Request
      BY <1>a, <2>1, <2>2, DiskTypes
    <2>5. \A kind \in FileKind :
            <<kind, task.req>> \in disk' /\ task'.clean =>
              Needed(kind, task'.call, task'.stage)
      BY <2>1, <2>2, <2>3, OfKinds, Before DEF Needed, Cloning, AttestKind
    <2> QED
      BY <2>1, <2>2, <2>3, <2>4, <2>5, OfKinds, WorkTypes, WorkFiles
  <1>3. CASE ReleaseAttestFiles
    <2> DEFINE stage == IF At("signed") THEN "attested"
                        ELSE IF task.call = "execute" THEN "drop" ELSE "reply"
    <2>1. /\ task.stage \in {"signed", "unsigned"} /\ Quietly
          /\ Removes(AttestKind, "unlink", stage)
          /\ stage \in {"attested", "drop", "reply"}
          /\ stage = "reply" => task.call # "execute"
      BY <1>3 DEF ReleaseAttestFiles, At
    <2> HIDE DEF stage
    <2>2. stage \in TaskStage
      BY <2>1, StageNames
    <2>3. /\ task' \in Tasks /\ task'.req = task.req /\ task'.call = task.call
          /\ task'.stage = stage /\ disk' \subseteq disk
          /\ task'.clean => task.clean /\ disk' = disk \ Of(AttestKind)
      BY <1>a, <2>1, <2>2, RemovesTypes
    <2>4. \A kind \in FileKind :
            <<kind, task.req>> \in disk' /\ task'.clean =>
              Needed(kind, task'.call, task'.stage)
      <3> SUFFICES ASSUME NEW kind \in FileKind, <<kind, task.req>> \in disk', task'.clean
                   PROVE  Needed(kind, task.call, stage)
        BY <2>3
      <3>1. Needed(kind, task.call, task.stage) /\ kind \notin AttestKind
        BY <2>1, <2>3, OfKinds, Before
      <3> QED
        BY <2>1, <3>1 DEF Needed, Cloning
    <2> QED
      BY <2>1, <2>3, <2>4, WorkTypes, WorkFiles
  <1> QED
    BY <1>1, <1>2, <1>3

LEMMA RequestSteps ==
  ASSUME HostTypeOK, FilesInv, RequestStep
  PROVE  HostTypeOK' /\ FilesInv'
  BY BeginSteps, CloneSteps, HelperFails, ReplySteps, ValidateSteps, AttestSteps
     DEF RequestStep

LEMMA StartupFiles ==
  ASSUME HostTypeOK, FilesInv, Startup
  PROVE  FilesInv'
  <1>1. CASE Die
    <2>1. task' = NoTask /\ task'.req = None /\ disk' = disk
      BY <1>1, NoMachineTypes DEF Die
    <2>2. \A r \in Request : outcome'[r] = IF r = task.req THEN "died" ELSE outcome[r]
      BY <1>1 DEF Die
    <2>3. FilesConfined'
      <3> SUFFICES ASSUME NEW kind \in FileKind, NEW r \in Request, <<kind, r>> \in disk
                   PROVE  \/ outcome'[r] \in {"died", "unclean"}
                          \/ outcome'[r] = "handed_off" /\ kind = "clone"
        BY <2>1 DEF FilesConfined
      <3> QED
        BY <2>2 DEF FilesInv, FilesConfined
    <2> QED
      BY <2>1, <2>3 DEF FilesInv
  <1>2. CASE UNCHANGED <<disk, task, outcome>>
    BY <1>2 DEF FilesInv, FilesConfined, Needed
  <1>3. Die \/ UNCHANGED <<disk, task, outcome>>
    BY DEF Startup, StartServer, VerifyTpm, ConnectDocker, VerifyManifest, LoadArchive,
           BindImage, CreateProbe, RemoveProbe, Listen, requestVars
  <1> QED
    BY <1>1, <1>2, <1>3

\* What a step of a script does to the machine.
LEMMA Followed ==
  ASSUME DeploymentTypeOK, DeployTypeOK', MachineFollows, UNCHANGED baked
  PROVE  \/ UNCHANGED hostVars /\ tfstate'.tracked = tfstate.tracked
         \/ /\ sealed' = IF tfstate'.tracked = Nobody THEN None
                         ELSE baked'[tfstate'.tracked]
            /\ server' = Down /\ disk' = {} /\ task' = NoTask
  <1>1. CASE UNCHANGED hostVars /\ tfstate'.tracked = tfstate.tracked
    BY <1>1
  <1>2. CASE HostBecomes(NoMachine) /\ tfstate'.tracked = Nobody
    BY <1>2, NoMachineTypes DEF HostBecomes
  <1>3. CASE HostBecomes(Booted(baked[tfstate'.tracked])) /\ tfstate'.tracked # Nobody
    BY <1>3, BootedTypes, NoMachineTypes DEF HostBecomes
  <1> QED
    BY <1>1, <1>2, <1>3 DEF MachineFollows

LEMMA FollowFiles ==
  ASSUME DeploymentTypeOK, DeployTypeOK', FilesInv, MachineFollows, UNCHANGED baked
  PROVE  FilesInv'
  <1>1. CASE UNCHANGED hostVars
    BY <1>1 DEF FilesInv, FilesConfined, Needed, hostVars
  <1>2. CASE disk' = {} /\ task' = NoTask
    BY <1>2, NoMachineTypes DEF FilesInv, FilesConfined
  <1> QED
    BY <1>1, <1>2, Followed
-----------------------------------------------------------------------------
(* The machine and the image it binds.                                     *)

LEMMA FollowMachine ==
  ASSUME DeploymentTypeOK, DeployTypeOK', MachineInv, MachineFollows, UNCHANGED baked
  PROVE  MachineInv'
  <1>1. CASE UNCHANGED hostVars /\ tfstate'.tracked = tfstate.tracked
    BY <1>1 DEF MachineInv, hostVars
  <1>2. CASE /\ sealed' = IF tfstate'.tracked = Nobody THEN None
                          ELSE baked'[tfstate'.tracked]
             /\ server' = Down
    BY <1>2, NoMachineTypes DEF MachineInv
  <1> QED
    BY <1>1, <1>2, Followed

\* A step that leaves the root alone, and binds nothing.
LEMMA ServerMoves ==
  ASSUME HostTypeOK, MachineInv, UNCHANGED <<sealed, tfstate, baked>>, sealed # None,
         daemon.images \subseteq daemon'.images,
         server'.derived = server.derived, server'.bound = server.bound,
         \/ server'.stage \in {"down", "tpm", "docker", "verify"}
         \/ server.stage = "load" /\ server'.stage = "bind"
         \/ /\ server.stage \in {"gpu", "probe", "ready"}
            /\ server'.stage \in {"probe", "ready", "serving"}
  PROVE  MachineInv'
  BY DEF MachineInv

LEMMA ServerDown ==
  ASSUME MachineInv, UNCHANGED <<sealed, tfstate, baked>>, Exit
  PROVE  MachineInv'
  BY NoMachineTypes DEF MachineInv, Exit

LEMMA ProceedMoves ==
  ASSUME HostTypeOK, NEW stage \in ServerStage, Proceed(stage)
  PROVE  /\ server'.stage = stage /\ server'.derived = server.derived
         /\ server'.bound = server.bound
  BY DEF Proceed, HostTypeOK, Servers

LEMMA StartupMachine ==
  ASSUME HostTypeOK, MachineInv, Startup, UNCHANGED <<tfstate, baked>>
  PROVE  MachineInv'
  <1>a. "tpm" \in ServerStage /\ "docker" \in ServerStage /\ "verify" \in ServerStage
        /\ "bind" \in ServerStage /\ "probe" \in ServerStage /\ "ready" \in ServerStage
        /\ "serving" \in ServerStage
    BY DEF ServerStage
  <1>b. UNCHANGED sealed /\ sealed # None
    BY DEF Startup, StartServer, VerifyTpm, ConnectDocker, VerifyManifest, LoadArchive,
           BindImage, CreateProbe, RemoveProbe, Listen, Die, ServerAt
  <1>c. CASE Exit
    BY <1>b, <1>c, ServerDown
  <1>1. CASE StartServer
    <2>1. Proceed("tpm") /\ UNCHANGED daemon
      BY <1>1 DEF StartServer
    <2> QED
      BY <2>1, <1>a, <1>b, ProceedMoves, ServerMoves
  <1>2. CASE VerifyTpm
    <2>1. CASE Proceed("docker") /\ UNCHANGED daemon
      BY <2>1, <1>a, <1>b, ProceedMoves, ServerMoves
    <2> QED
      BY <1>2, <1>c, <2>1 DEF VerifyTpm
  <1>3. CASE ConnectDocker
    <2>1. CASE Proceed("verify") /\ UNCHANGED daemon
      BY <2>1, <1>a, <1>b, ProceedMoves, ServerMoves
    <2> QED
      BY <1>3, <1>c, <2>1 DEF ConnectDocker
  <1>4. CASE VerifyManifest
    <2>1. CASE /\ Verified(sealed) /\ UNCHANGED daemon
               /\ server' = [server EXCEPT !.stage = "load",
                                           !.derived = ImageId(sealed.manifest)]
      <3>1. /\ server'.stage = "load" /\ server'.derived = ImageId(sealed.manifest)
        BY <2>1 DEF HostTypeOK, Servers
      <3>2. sealed.expected # None /\ sealed.expected = sealed.manifest
        BY <2>1 DEF Verified
      <3> QED
        BY <1>b, <3>1, <3>2 DEF MachineInv
    <2> QED
      BY <1>4, <1>c, <2>1 DEF VerifyManifest
  <1>5. CASE LoadArchive
    <2>1. CASE Proceed("bind") /\ server.stage = "load"
               /\ \E id : daemon' = [daemon EXCEPT !.images = @ \cup {id}]
      <3>1. daemon.images \subseteq daemon'.images
        BY <2>1 DEF HostTypeOK, Daemons
      <3> QED
        BY <2>1, <3>1, <1>a, <1>b, ProceedMoves, ServerMoves
    <2> QED
      BY <1>5, <1>c, <2>1 DEF LoadArchive, ServerAt
  <1>6. CASE BindImage
    <2>1. CASE /\ server.stage = "bind" /\ server.derived \in daemon.images
               /\ server' = [server EXCEPT !.bound = server.derived,
                                !.stage = IF sealed.gpu THEN "gpu" ELSE "ready"]
               /\ UNCHANGED daemon
      <3>1. /\ server'.stage \in {"gpu", "ready"} /\ server'.derived = server.derived
            /\ server'.bound = server.derived
        BY <2>1 DEF HostTypeOK, Servers
      <3> QED
        BY <1>b, <2>1, <3>1 DEF MachineInv
    <2> QED
      BY <1>6, <1>c, <2>1 DEF BindImage, ServerAt
  <1>7. CASE CreateProbe
    <2>1. CASE /\ Proceed("probe") /\ server.stage = "gpu"
               /\ daemon' = [daemon EXCEPT !.probes = @ + 1]
      <3>1. daemon'.images = daemon.images
        BY <2>1 DEF HostTypeOK, Daemons
      <3> QED
        BY <2>1, <3>1, <1>a, <1>b, ProceedMoves, ServerMoves
    <2> QED
      BY <1>7, <1>c, <2>1 DEF CreateProbe, ServerAt
  <1>8. CASE RemoveProbe
    <2>1. CASE /\ Proceed("ready") /\ server.stage = "probe"
               /\ daemon' = [daemon EXCEPT !.probes = @ - 1]
      <3>1. daemon'.images = daemon.images
        BY <2>1 DEF HostTypeOK, Daemons
      <3> QED
        BY <2>1, <3>1, <1>a, <1>b, ProceedMoves, ServerMoves
    <2> QED
      BY <1>8, <1>c, <2>1 DEF RemoveProbe, ServerAt
  <1>9. CASE Listen
    <2>1. CASE Proceed("serving") /\ server.stage = "ready" /\ UNCHANGED daemon
      BY <2>1, <1>a, <1>b, ProceedMoves, ServerMoves
    <2> QED
      BY <1>9, <1>c, <2>1 DEF Listen, ServerAt
  <1>10. CASE Die
    BY <1>10, <1>c DEF Die
  <1> QED
    BY <1>1, <1>2, <1>3, <1>4, <1>5, <1>6, <1>7, <1>8, <1>9, <1>10 DEF Startup

LEMMA RequestLeavesServer ==
  ASSUME RequestStep
  PROVE  UNCHANGED <<sealed, server, daemon>>
  BY DEF RequestStep, BeginExecute, BeginAttest, CreateHelper, CreateHelperFails,
         CloneStep, CloneStepFails, UndoClone, UnlinkHelper, Validate, ValidateFails,
         DropClone, HandOff, HandOffFails, Reply, WriteAttestFile, InvokeTpm, AttestFails,
         ReleaseAttestFiles, Ends, Quietly
-----------------------------------------------------------------------------
(* What cleanup.py has done at each of its steps.                          *)

LEMMA ExitsIdle ==
  ASSUME NEW code, Exits(code)
  PROVE  script'.name = "none" /\ script'.exit = code
  BY DEF Exits, Idle

LEMMA StageMoves ==
  ASSUME DeployTypeOK, NEW stage, ToStage(stage)
  PROVE  /\ script'.name = script.name /\ script'.stage = stage
         /\ script'.ami = script.ami /\ script'.keep = script.keep
         /\ script'.aimed = script.aimed
  BY DEF DeployTypeOK, Scripts, ToStage

LEMMA CleanupSteps ==
  ASSUME DeployTypeOK, CleanupInv, ScriptStep
  PROVE  CleanupInv'
  <1>a. ASSUME NEW code, Exits(code), tfstate'.tracked # Nobody => tfstate'.exists
        PROVE  CleanupInv'
    BY <1>a, ExitsIdle DEF CleanupInv
  <1>b. Nobody \notin Ami
    BY DeploymentAssumption
  <1>1. ASSUME NEW a \in Ami, BuildImage(a)
        PROVE  CleanupInv'
    BY <1>1 DEF BuildImage, Idle, CleanupInv
  <1>2. CASE StartDeploy
    <2>1. script'.name = "deploy" /\ tfstate' = tfstate
      BY <1>2 DEF StartDeploy, Idle
    <2> QED
      BY <2>1 DEF CleanupInv
  <1>3. CASE DeployInitTerraform
    <2>1. CASE ToStage("apply") /\ script.name = "deploy" /\ UNCHANGED tfstate
      BY <2>1, StageMoves DEF CleanupInv
    <2> QED
      BY <1>3, <1>a, <2>1 DEF DeployInitTerraform, In, CleanupInv
  <1>4. CASE Apply
    <2>1. script.name = "deploy" /\ tfstate'.exists
      BY <1>4 DEF Apply, In
    <2>2. CASE ToStage("output")
      BY <2>1, <2>2, StageMoves DEF CleanupInv
    <2> QED
      BY <1>4, <1>a, <2>1, <2>2 DEF Apply
  <1>5. CASE ApplyFails
    BY <1>5, <1>a DEF ApplyFails
  <1>6. CASE Persist
    BY <1>6, <1>a DEF Persist, CleanupInv
  <1>7. CASE StartCleanup
    <2>1. script'.stage = "confirm" /\ tfstate' = tfstate
      BY <1>7 DEF StartCleanup
    <2> QED
      BY <2>1 DEF CleanupInv
  <1>8. CASE SkipDestroy
    <2>1. /\ ToStage("describe") /\ UNCHANGED <<cloud, tfstate>>
          /\ ~script.aimed \/ ~tfstate.exists
      BY <1>8 DEF SkipDestroy
    <2> QED
      BY <2>1, StageMoves DEF CleanupInv
  <1>9. CASE DestroyFails
    <2>1. CASE tfstate' = tfstate
      BY <1>9, <1>a, <2>1 DEF DestroyFails, CleanupInv
    <2>2. CASE tfstate' = [tfstate EXCEPT !.tracked = Nobody]
      BY <1>9, <1>a, <2>2 DEF DestroyFails, CleanupInv, DeployTypeOK
    <2> QED
      BY <1>9, <2>1, <2>2 DEF DestroyFails
  <1>10. CASE Destroy
    <2>1. ToStage("describe") /\ tfstate'.tracked = Nobody
      BY <1>10 DEF Destroy, DeployTypeOK
    <2> QED
      BY <2>1, StageMoves DEF CleanupInv
  <1>11. CASE DescribeImage
    <2>1. UNCHANGED <<cloud, tfstate>> /\ script.name = "cleanup" /\ script.stage = "describe"
      BY <1>11 DEF DescribeImage, In
    <2>2. CASE ToStage(IF script.keep \/ script.ami \notin cloud.amis
                         THEN "verify" ELSE "deregister")
      <3>1. CASE script.keep \/ script.ami \notin cloud.amis
        <4>1. ToStage("verify")
          BY <2>2, <3>1
        <4> QED
          BY <2>1, <3>1, <4>1, StageMoves DEF CleanupInv
      <3>2. CASE ~(script.keep \/ script.ami \notin cloud.amis)
        <4>1. ToStage("deregister")
          BY <2>2, <3>2
        <4> QED
          BY <2>1, <4>1, StageMoves DEF CleanupInv
      <3> QED
        BY <3>1, <3>2
    <2> QED
      BY <1>11, <1>a, <2>1, <2>2 DEF DescribeImage, CleanupInv
  <1>12. CASE DeregisterImage
    <2>1. /\ UNCHANGED tfstate
          /\ script.name = "cleanup" /\ script.stage = "deregister"
      BY <1>12 DEF DeregisterImage, In
    <2>2. script.ami \notin cloud'.amis
      BY <1>12 DEF DeregisterImage, DeployTypeOK
    <2>3. CASE ToStage("verify")
      BY <2>1, <2>2, <2>3, StageMoves DEF CleanupInv
    <2> QED
      BY <1>12, <1>a, <2>1, <2>3 DEF DeregisterImage, CleanupInv
  <1>13. CASE DeregisterFails
    BY <1>13, <1>a DEF DeregisterFails, CleanupInv
  <1>14. CASE VerifyCleanup
    BY <1>14, <1>a DEF VerifyCleanup, CleanupInv
  <1>15. CASE Confirm
    <2>1. UNCHANGED tfstate
      BY <1>15 DEF Confirm
    <2>2. CASE ToStage("destroy")
      BY <2>1, <2>2, StageMoves DEF CleanupInv
    <2> QED
      BY <1>15, <1>a, <2>1, <2>2 DEF Confirm, CleanupInv
  <1>16. CASE VerifyFails
    BY <1>16, <1>a DEF VerifyFails, CleanupInv
  <1> QED
    BY <1>1, <1>2, <1>3, <1>4, <1>5, <1>6, <1>7, <1>8, <1>9, <1>10, <1>11, <1>12,
       <1>13, <1>14, <1>15, <1>16 DEF ScriptStep

\* Only the last step of cleanup.py exits with 0.
LEMMA CleanedUpVerifies ==
  ASSUME DeployTypeOK, CleanupInv, ScriptStep, CleanedUp
  PROVE  VerifyCleanup
  <1>1. script.name = "cleanup" /\ script.stage \notin {"idle", "confirm"}
    BY DEF CleanedUp, CleanupInv
  <1>2. script'.stage = "idle" /\ script'.exit = 0
    BY DEF CleanedUp
  <1>3. ~Exits(1)
    BY <1>2, ExitsIdle
  <1>4. \A stage \in {"describe", "verify", "deregister"} : ~ToStage(stage)
    BY <1>2, StageMoves
  <1> QED
    BY <1>1, <1>3, <1>4 DEF ScriptStep, BuildImage, StartDeploy, DeployInitTerraform, Apply,
       ApplyFails, Persist, StartCleanup, Confirm, VerifyFails, SkipDestroy, DestroyFails, Destroy,
       DescribeImage, DeregisterImage, DeregisterFails, In, Resting

LEMMA VerifiedReports ==
  ASSUME DeployTypeOK, CleanupInv, VerifyCleanup, ~script.keep
  PROVE  /\ script.ami \notin cloud'.amis
         /\ script.aimed => tfstate'.tracked = Nobody
         /\ script.ami \in cloud'.snapshots =>
              "snapshot" \in report'.listed \cup report'.unchecked
  <1>1. script.name = "cleanup" /\ script.stage = "verify" /\ UNCHANGED <<cloud, tfstate>>
    BY DEF VerifyCleanup, In
  <1>2. PICK failed \in SUBSET Kind :
          report' = [listed |-> Remaining \ failed, unchecked |-> failed]
    BY DEF VerifyCleanup
  <1>3. script.ami \in cloud.snapshots => "snapshot" \in Remaining
    BY DEF Remaining, Kind
  <1> QED
    BY <1>1, <1>2, <1>3 DEF CleanupInv
-----------------------------------------------------------------------------
(* The theorems.                                                           *)

DeploymentInv == DeploymentTypeOK /\ MachineInv /\ FilesInv /\ CleanupInv

LEMMA DeploymentInvStarts == Init => DeploymentInv
  <1> SUFFICES ASSUME Init PROVE DeploymentInv
    OBVIOUS
  <1>1. DeploymentTypeOK
    BY InitTypes
  <1>2. /\ sealed = None /\ server.stage = "down" /\ disk = {} /\ task.req = None
    BY NoMachineTypes DEF Init, HostIs
  <1>3. tfstate.tracked = Nobody /\ script.name = "none"
    BY DEF Init, DeployInit, Idle
  <1>4. MachineInv
    BY <1>2, <1>3 DEF MachineInv
  <1>5. FilesInv
    BY <1>2 DEF FilesInv, FilesConfined
  <1>6. CleanupInv
    BY <1>3 DEF CleanupInv
  <1> QED
    BY <1>1, <1>4, <1>5, <1>6 DEF DeploymentInv

LEMMA DeploymentInvKept == DeploymentInv /\ [Next]_vars => DeploymentInv'
  <1> SUFFICES ASSUME DeploymentInv, [Next]_vars
               PROVE  DeploymentInv'
    OBVIOUS
  <1> USE DEF DeploymentInv, DeploymentTypeOK
  <1>1. CASE Operate
    <2>1. ScriptStep /\ MachineFollows /\ UNCHANGED baked
      BY <1>1 DEF Operate
    <2>2. DeployTypeOK'
      BY <2>1, ScriptTypes
    <2>3. HostTypeOK'
      BY <2>1, <2>2, FollowTypes
    <2> QED
      BY <2>1, <2>2, <2>3, FollowMachine, FollowFiles, CleanupSteps
  <1>2. CASE MachineRuns
    <2>1. UNCHANGED <<deployVars, baked>>
      BY <1>2 DEF MachineRuns
    <2>2. UNCHANGED <<result, cloud, tfstate, script, report>>
      BY <2>1 DEF deployVars
    <2>3. DeployTypeOK' /\ CleanupInv'
      BY <2>1, <2>2 DEF DeployTypeOK, CleanupInv
    <2>4. CASE Startup
      BY <2>1, <2>2, <2>3, <2>4, StartupTypes, StartupFiles, StartupMachine
    <2>5. CASE RequestStep
      <3>1. HostTypeOK' /\ FilesInv'
        BY <2>5, RequestSteps
      <3>2. MachineInv'
        BY <2>1, <2>2, <2>5, RequestLeavesServer DEF MachineInv
      <3> QED
        BY <2>3, <3>1, <3>2
    <2> QED
      BY <1>2, <2>4, <2>5 DEF MachineRuns
  <1>3. CASE UNCHANGED vars
    <2>1. UNCHANGED <<result, cloud, tfstate, script, report, baked>>
      BY <1>3 DEF vars, deployVars
    <2>2. UNCHANGED <<sealed, server, daemon, disk, task, outcome>>
      BY <1>3 DEF vars, hostVars
    <2>3. DeploymentTypeOK' /\ CleanupInv' /\ MachineInv'
      BY <2>1, <2>2 DEF DeployTypeOK, HostTypeOK, CleanupInv, MachineInv
    <2>4. FilesInv'
      BY <2>2 DEF FilesInv, FilesConfined, Needed
    <2> QED
      BY <2>3, <2>4
  <1> QED
    BY <1>1, <1>2, <1>3 DEF Next

LEMMA DeploymentInvariant == Spec => []DeploymentInv
  <1> QED
    BY DeploymentInvStarts, DeploymentInvKept, PTL DEF Spec

(***************************************************************************)
(* Every variable of the scripts, the cloud and the machine keeps its type,*)
(* whatever fails and in whatever order the operator runs the scripts.     *)
(***************************************************************************)
THEOREM DeploymentTypeCorrect == Spec => []DeploymentTypeOK
  <1>1. DeploymentInv => DeploymentTypeOK
    BY DEF DeploymentInv
  <1> QED
    BY <1>1, DeploymentInvariant, PTL

(***************************************************************************)
(* A machine serves only with the image its measured root expects, loaded  *)
(* and bound by this very start.                                           *)
(***************************************************************************)
THEOREM MachinesAreMeasured == Spec => []ServingIsMeasured
  <1>1. DeploymentInv => ServingIsMeasured
    <2> SUFFICES ASSUME DeploymentInv, server.stage = "serving"
                 PROVE  /\ tfstate.tracked # Nobody
                        /\ sealed = baked[tfstate.tracked]
                        /\ sealed.expected # None
                        /\ server.bound = ImageId(sealed.expected)
                        /\ server.bound \in daemon.images
      BY DEF ServingIsMeasured
    <2> QED
      BY DEF DeploymentInv, MachineInv
  <1> QED
    BY <1>1, DeploymentInvariant, PTL

(***************************************************************************)
(* The caller's token, the repository's history and the material of an     *)
(* attestation are on disk only while they are needed.                     *)
(***************************************************************************)
THEOREM FilesAreConfined == Spec => []FilesConfined
  <1>1. DeploymentInv => FilesConfined
    BY DEF DeploymentInv, FilesInv
  <1> QED
    BY <1>1, DeploymentInvariant, PTL

(***************************************************************************)
(* cleanup.py does not exit with 0 over an image that is still there, an   *)
(* instance it was aimed at, or a snapshot that nothing speaks of.         *)
(***************************************************************************)
THEOREM LeftoversAreReported == Spec => LeftoversReported
  <1>1. DeploymentInv /\ [Next]_vars =>
          [CleanedUp =>
             /\ script.ami \notin cloud'.amis
             /\ script.aimed => tfstate'.tracked = Nobody
             /\ script.ami \in cloud'.snapshots =>
                  "snapshot" \in report'.listed \cup report'.unchecked]_vars
    <2> SUFFICES ASSUME DeploymentInv, Next, CleanedUp
                 PROVE  /\ script.ami \notin cloud'.amis
                        /\ script.aimed => tfstate'.tracked = Nobody
                        /\ script.ami \in cloud'.snapshots =>
                             "snapshot" \in report'.listed \cup report'.unchecked
      OBVIOUS
    <2>1. DeployTypeOK /\ CleanupInv
      BY DEF DeploymentInv, DeploymentTypeOK
    <2>2. CASE Operate
      <3>1. VerifyCleanup
        BY <2>1, <2>2, CleanedUpVerifies DEF Operate
      <3>2. ~script.keep
        BY DEF CleanedUp
      <3> QED
        BY <2>1, <3>1, <3>2, VerifiedReports
    <2>3. CASE MachineRuns
      <3>1. script' = script
        BY <2>3 DEF MachineRuns, deployVars
      <3> QED
        BY <2>1, <3>1 DEF CleanedUp, CleanupInv
    <2> QED
      BY <2>2, <2>3 DEF Next
  <1> QED
    BY <1>1, DeploymentInvariant, PTL DEF Spec, LeftoversReported
=============================================================================
