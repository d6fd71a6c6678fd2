--------------------------------- MODULE Host ---------------------------------
(***************************************************************************)
(* One machine running an attestable image: the start of the executor      *)
(* (src/main.py, load_baked_image), restarted by systemd whenever it ends, *)
(* and the files a request makes on it: the clone with its credentials     *)
(* (src/repository.py) and the files handed to nitro-tpm-attest            *)
(* (src/attestation.py).  The calls that make them block the event loop, so *)
(* one request at a time makes files.                                      *)
(*                                                                         *)
(* A manifest stands for its bytes and hence for its digest; its image ID  *)
(* is the digest of its configuration, another value altogether.           *)
(***************************************************************************)
EXTENDS Naturals, Sequences

CONSTANTS
  Manifest,   \* OCI manifests
  Malformed,  \* those without a configuration digest
  Request,
  None,
  MaxProbes,  \* bound: GPU probes left behind
  HostFaults  \* of {"helper", "unlink", "rmtree"}: clean-up that may fail

ASSUME HostAssumption ==
  /\ Malformed \subseteq Manifest
  /\ None \notin Manifest \cup Request
  /\ MaxProbes \in Nat

VARIABLES
  sealed,   \* the measured root of the machine, or None without a machine
  server,   \* main(): the stage it is in, the image ID it derived and bound
  daemon,   \* Docker: the IDs of its images, the probe containers left in it
  disk,     \* <<kind, request>> of every temporary file
  task,     \* the request whose handler is at work
  outcome   \* request -> how its handler ended

hostVars == <<sealed, server, daemon, disk, task, outcome>>

\* What the image build baked; None where a file is missing or corrupt.
Tree == [expected : Manifest \cup {None}, manifest : Manifest \cup {None},
         archive : Manifest \cup {None}, gpu : BOOLEAN, noTpm : BOOLEAN]

ImageId(m) == <<"config", m>>
Rewritten == <<"config", None>>  \* by a loader that changes the configuration
Images == {ImageId(m) : m \in Manifest} \cup {Rewritten}

Down == [stage |-> "down", derived |-> None, bound |-> None]
NoTask == [req |-> None, call |-> "none", stage |-> "none", todo |-> <<>>, clean |-> TRUE]

NoMachine ==
  [sealed |-> None, server |-> Down, daemon |-> [images |-> {}, probes |-> 0],
   disk |-> {}, task |-> NoTask, outcome |-> [r \in Request |-> "new"]]

\* A machine launched from an image with this root.
Booted(root) == [NoMachine EXCEPT !.sealed = root]

HostIs(h) ==
  /\ sealed = h.sealed /\ server = h.server /\ daemon = h.daemon
  /\ disk = h.disk /\ task = h.task /\ outcome = h.outcome
-----------------------------------------------------------------------------
(* Startup.                                                                *)

ServerAt(stage) == sealed # None /\ server.stage = stage

Proceed(stage) == server' = [server EXCEPT !.stage = stage]

\* main returns 1, or raises; systemd starts it again.
Exit == server' = Down

requestVars == <<disk, task, outcome>>

\* Logging and load_config; a start that fails here leaves everything as it is.
StartServer ==
  /\ ServerAt("down") /\ Proceed("tpm")
  /\ UNCHANGED <<sealed, daemon, requestVars>>

VerifyTpm ==
  /\ ServerAt("tpm")
  /\ \E available \in BOOLEAN :
       IF available \/ sealed.noTpm THEN Proceed("docker") ELSE Exit
  /\ UNCHANGED <<sealed, daemon, requestVars>>

\* The client, its ping and the removal of dangling execution containers.
ConnectDocker ==
  /\ ServerAt("docker")
  /\ Proceed("verify") \/ Exit
  /\ UNCHANGED <<sealed, daemon, requestVars>>

\* A faulty variant of Verified: a manifest that can be read will do.
VerifiedReadable(root) == root.manifest # None

\* The digest of the manifest's bytes is the one the configuration expects.
Verified(root) == root.manifest # None /\ root.manifest = root.expected

\* _read_baked_manifest, _verify_manifest_digest and _derive_image_id.
VerifyManifest ==
  /\ ServerAt("verify")
  /\ IF Verified(sealed) /\ sealed.manifest \notin Malformed
       THEN server' = [server EXCEPT !.stage = "load",
                                     !.derived = ImageId(sealed.manifest)]
       ELSE Exit
  /\ UNCHANGED <<sealed, daemon, requestVars>>

\* docker load; what an earlier start loaded is still there.
LoadArchive ==
  /\ ServerAt("load")
  /\ \/ /\ sealed.archive # None
        /\ \E id \in {ImageId(sealed.archive), Rewritten} :
             daemon' = [daemon EXCEPT !.images = @ \cup {id}]
        /\ Proceed("bind")
     \/ Exit /\ UNCHANGED daemon
  /\ UNCHANGED <<sealed, requestVars>>

BindImage ==
  /\ ServerAt("bind")
  /\ \/ /\ server.derived \in daemon.images
        /\ server' = [server EXCEPT !.bound = server.derived,
                                    !.stage = IF sealed.gpu THEN "gpu" ELSE "ready"]
     \/ Exit
  /\ UNCHANGED <<sealed, daemon, requestVars>>

\* The NVIDIA runtime is registered, and a probe container can be created.
CreateProbe ==
  /\ ServerAt("gpu")
  /\ \/ /\ daemon.probes < MaxProbes
        /\ daemon' = [daemon EXCEPT !.probes = @ + 1]
        /\ Proceed("probe")
     \/ Exit /\ UNCHANGED daemon
  /\ UNCHANGED <<sealed, requestVars>>

\* If the removal fails the probe stays: no later start looks for it.
RemoveProbe ==
  /\ ServerAt("probe")
  /\ \/ daemon' = [daemon EXCEPT !.probes = @ - 1] /\ Proceed("ready")
     \/ Exit /\ UNCHANGED daemon
  /\ UNCHANGED <<sealed, requestVars>>

\* The encryption manager, create_app and uvicorn.
Listen ==
  /\ ServerAt("ready")
  /\ Proceed("serving") \/ Exit
  /\ UNCHANGED <<sealed, daemon, requestVars>>

\* The process ends, at any point; files and images stay.
Die ==
  /\ sealed # None /\ server.stage # "down"
  /\ Exit
  /\ task' = NoTask
  /\ outcome' = [r \in Request |-> IF r = task.req THEN "died" ELSE outcome[r]]
  /\ UNCHANGED <<sealed, daemon, disk>>

Startup ==
  \/ StartServer \/ VerifyTpm \/ ConnectDocker \/ VerifyManifest \/ LoadArchive
  \/ BindImage \/ CreateProbe \/ RemoveProbe \/ Listen \/ Die
=============================================================================
