----------------------------- MODULE BuildDriver -----------------------------
(***************************************************************************)
(* The AMI build driver (scripts/build-ami.py): one process on the runner  *)
(* that builds the flavors of its manifest one after the other over SSH on *)
(* a single instance (pass 1), and then registers an AMI for every         *)
(* snapshot it captured through the EC2 API, without the instance (pass 2).*)
(*                                                                         *)
(* Three parties move: the driver, the instance, which can die, and the    *)
(* remote commands it no longer hears of because their link was lost or    *)
(* their time ran out: nothing stops those but kill_stale_coldsnap, which  *)
(* stops uploads only.  All flavors share the artifacts directory, the     *)
(* names of the two files in it (KIWI names the image after the appliance, *)
(* not after the flavor) and attestation_result.json in the home directory.*)
(***************************************************************************)
EXTENDS Integers, Sequences, FiniteSets

CONSTANTS
  Flavor,            \* names of flavors
  None,              \* no flavor
  Manifest,          \* the flavors to build, in order
  Tools,             \* installation steps
  ConnectAttempts,   \* verify_ssh_connectivity(max_attempts)
  InstallAttempts,   \* INSTALL_MAX_ATTEMPTS
  ReconnectAttempts, \* RECONNECT_MAX_ATTEMPTS
  AllowDebug         \* --allow-debug

(***************************************************************************)
(* What the registry holds under the digest of a flavor's artifact_ref:    *)
(* unsigned     gh finds no attestation for it                             *)
(* foreign      attested by another workflow than --expected-workflow      *)
(* debug        annotated as a debug image                                 *)
(* unmeasured   without pcr_measurements.json                              *)
(* odd          its PCR values are not strings                             *)
(***************************************************************************)
Kind == {"good", "unsigned", "foreign", "debug", "unmeasured", "odd"}

\* The workflow names each flavor of its matrix once.
ASSUME BuildAssumption ==
  /\ None \notin Flavor
  /\ Manifest \in Seq(Flavor) /\ Manifest # <<>>
  /\ \A i, j \in DOMAIN Manifest : Manifest[i] = Manifest[j] => i = j
  /\ Tools \in Nat \ {0} /\ ConnectAttempts \in Nat \ {0}
  /\ InstallAttempts \in Nat \ {0} /\ ReconnectAttempts \in Nat \ {0}
  /\ AllowDebug \in BOOLEAN

VARIABLES
  kind,        \* flavor -> what its artifact is
  host,        \* the build instance: "up" or "down"
  linked,      \* ssh_client has an active transport
  phase,       \* where the driver is
  attempt,     \* of connecting, installing or reconnecting, from 1
  tool,        \* the installation step under way
  idx,         \* position in Manifest (pass 1) or captured (pass 2)
  step,        \* the remote command (pass 1) or API call (pass 2) under way
  measured,    \* whose PCR values validate_pcr_measurements returned
  results,     \* run_build_driver's results, by flavor
  captured,    \* the flavors whose snapshot id was returned, with their PCRs
  tree,        \* whose image and measurements are in <base>/build-output
  attestation, \* whose verification attestation_result.json tells of
  abandoned,   \* remote commands that run on without their channel
  ranOn,       \* history: every command that was ever abandoned
  snapshots,   \* EBS: flavor -> the snapshot its upload started
  amis,        \* EC2: images registered by this run
  files,       \* flavors with an ami_build_result-<flavor>.json
  killLost     \* history: a kill_stale_coldsnap did not reach the host

driverVars == <<phase, attempt, tool, idx, step, measured, results, captured>>
hostVars == <<tree, attestation, abandoned, ranOn>>
vars == <<kind, host, linked, driverVars, hostVars, snapshots, amis, files, killLost>>

Phase == {"connect", "install", "pass1", "reconnect", "kill", "pass2", "done", "aborted"}
Command == {"reset", "verify", "identity", "pull", "files", "debug", "pcr", "find", "upload"}
Call == {"wait", "register", "report"}
Result == {"pass1-ok", "failed-transport-indeterminate", "failed-application",
           "skipped-host-dead", "failed-pass2", "success"}

\* Abandoned commands that still change something after the driver is gone.
Stray == {"reset", "verify", "pull", "upload"}

Empty == [image |-> None, pcr |-> None]
Current == Manifest[idx]

BuildTypeOK ==
  /\ kind \in [Flavor -> Kind]
  /\ host \in {"up", "down"} /\ linked \in BOOLEAN
  /\ phase \in Phase /\ step \in Command \cup Call
  /\ attempt \in Nat /\ tool \in Nat /\ idx \in Nat \ {0}
  /\ phase \in {"pass1", "reconnect", "kill"} => idx \in DOMAIN Manifest
  /\ measured \in Flavor \cup {None}
  /\ DOMAIN results \subseteq Flavor
  /\ \A f \in DOMAIN results : results[f] \in Result
  /\ captured \in Seq([flavor : Flavor, pcr : Flavor])
  /\ tree \in [image : Flavor \cup {None}, pcr : Flavor \cup {None}]
  /\ attestation \in Flavor \cup {None}
  /\ abandoned \subseteq ranOn /\ ranOn \subseteq Stray \X Flavor
  /\ DOMAIN snapshots \subseteq Flavor
  /\ \A f \in DOMAIN snapshots :
       snapshots[f] \in [image : Flavor, state : {"uploading", "complete", "error"}]
  /\ amis \subseteq [flavor : Flavor, image : Flavor, pcr : Flavor]
  /\ files \subseteq Flavor
  /\ killLost \in BOOLEAN

Init ==
  /\ kind \in [Flavor -> Kind]
  /\ host = "up" /\ linked = FALSE
  /\ phase = "connect" /\ attempt = 1 /\ tool = 1 /\ idx = 1 /\ step = "reset"
  /\ measured = None /\ results = <<>> /\ captured = <<>>
  /\ tree = Empty /\ attestation = None /\ abandoned = {} /\ ranOn = {}
  /\ snapshots = <<>> /\ amis = {} /\ files = {}
  /\ killLost = FALSE

\* f[x] becomes y, whether or not x was in the domain.
Put(f, x, y) == [z \in DOMAIN f \cup {x} |-> IF z = x THEN y ELSE f[z]]

----------------------------------------------------------------------------
(* main: connecting and the toolchain, which is a gate for every flavor.   *)

Online == host = "up" /\ linked

\* main catches every exception that reaches it: exit code 1, no results.  Its
\* finally closes the connection.
Abort ==
  /\ phase' = "aborted" /\ linked' = FALSE
  /\ UNCHANGED <<attempt, tool, idx, step, measured, results, captured>>

Connect ==
  /\ phase = "connect" /\ host = "up"
  /\ linked' = TRUE /\ phase' = "install" /\ attempt' = 1
  /\ UNCHANGED <<kind, host, tool, idx, step, measured, results, captured, hostVars,
                 snapshots, amis, files, killLost>>

ConnectFails ==
  /\ phase = "connect"
  /\ IF attempt < ConnectAttempts
       THEN /\ attempt' = attempt + 1
            /\ UNCHANGED <<linked, phase, tool, idx, step, measured, results, captured>>
       ELSE Abort
  /\ UNCHANGED <<kind, host, hostVars, snapshots, amis, files, killLost>>

\* One run_install_step of install_all_tools returned.
Install ==
  /\ phase = "install" /\ Online
  /\ attempt' = 1
  /\ IF tool < Tools THEN tool' = tool + 1 /\ UNCHANGED phase
                     ELSE phase' = "pass1" /\ UNCHANGED tool
  /\ UNCHANGED <<kind, host, linked, idx, step, measured, results, captured, hostVars,
                 snapshots, amis, files, killLost>>

\* TransientInstallError is retried.  The exit code it stands for may be the -1 of
\* a dead link, on which the next attempt raises.
InstallRetried ==
  /\ phase = "install" /\ linked /\ attempt < InstallAttempts
  /\ attempt' = attempt + 1
  /\ linked' = FALSE \/ (Online /\ UNCHANGED linked)
  /\ UNCHANGED <<kind, host, phase, tool, idx, step, measured, results, captured,
                 hostVars, snapshots, amis, files, killLost>>

\* A deterministic failure, the last transient one, or a transport error.
InstallFails ==
  /\ phase = "install"
  /\ Abort
  /\ UNCHANGED <<kind, host, hostVars, snapshots, amis, files, killLost>>

----------------------------------------------------------------------------
(* Pass 1: the remote commands of build_flavor_pass1 for one flavor.       *)

\* A faulty variant of Following: the bundle is downloaded before it is verified.
FollowingPullFirst ==
  [reset |-> "pull", pull |-> "verify", verify |-> "identity", identity |-> "files",
   files |-> "debug", debug |-> "pcr", pcr |-> "find", find |-> "upload"]

Following ==
  [reset |-> "verify", verify |-> "identity", identity |-> "pull", pull |-> "files",
   files |-> "debug", debug |-> "pcr", pcr |-> "find", find |-> "upload"]

\* A faulty variant of TreeAfter: no wipe before the pull.
TreeAfterNoWipe(c, f) ==
  IF c = "pull" THEN [image |-> f, pcr |-> IF kind[f] = "unmeasured" THEN tree.pcr ELSE f]
                ELSE tree

\* What command c, run for flavor f, makes of the shared files.
TreeAfter(c, f) ==
  CASE c = "reset" -> Empty
    [] c = "pull"  -> [image |-> f, pcr |-> IF kind[f] = "unmeasured" THEN tree.pcr ELSE f]
    [] OTHER       -> tree

\* A faulty variant of AttestationAfter: a result that is already there is kept.
AttestationAfterKept(c, f) ==
  IF c # "verify" \/ attestation # None THEN attestation
  ELSE IF kind[f] = "unsigned" THEN None ELSE f

AttestationAfter(c, f) ==
  IF c # "verify" THEN attestation ELSE IF kind[f] = "unsigned" THEN None ELSE f

\* Whether command c ends with what its caller asks for.
Passes(c, f) ==
  CASE c = "verify"   -> kind[f] # "unsigned"
    [] c = "identity" -> attestation # None /\ kind[attestation] # "foreign"
    [] c = "files"    -> tree.image # None /\ tree.pcr # None
    [] c = "debug"    -> AllowDebug \/ kind[f] # "debug"
    [] c = "pcr"      -> tree.pcr # None /\ kind[tree.pcr] # "odd"
    [] c = "find"     -> tree.image # None
    [] OTHER          -> TRUE

\* A faulty variant of Advance: the loop does not move on.
AdvanceNowhere ==
  /\ phase' = "pass1" /\ step' = "reset"
  /\ UNCHANGED idx

\* The next flavor of the manifest, or pass 2 over what was captured.
Advance ==
  IF idx < Len(Manifest)
    THEN phase' = "pass1" /\ idx' = idx + 1 /\ step' = "reset"
    ELSE phase' = "pass2" /\ idx' = 1 /\ step' = "wait"

RemoteCommand ==
  /\ phase = "pass1" /\ step # "upload" /\ Online
  /\ Passes(step, Current)
  /\ step' = Following[step]
  /\ tree' = TreeAfter(step, Current)
  /\ attestation' = AttestationAfter(step, Current)
  /\ measured' = IF step = "pcr" THEN tree.pcr ELSE measured
  /\ snapshots' = IF step = "find"
                    THEN Put(snapshots, Current, [image |-> tree.image, state |-> "uploading"])
                    ELSE snapshots
  /\ UNCHANGED <<kind, host, linked, phase, attempt, tool, idx, results, captured, abandoned,
                 ranOn, amis, files, killLost>>

\* coldsnap printed the id of the snapshot it completed.
Capture ==
  /\ phase = "pass1" /\ step = "upload" /\ Online
  /\ snapshots' = [snapshots EXCEPT ![Current].state = "complete"]
  /\ captured' = Append(captured, [flavor |-> Current, pcr |-> measured])
  /\ results' = Put(results, Current, "pass1-ok")
  /\ Advance
  /\ UNCHANGED <<kind, host, linked, attempt, tool, measured, hostVars, amis, files, killLost>>

\* What becomes of a command whose link is lost under it: it was not started, it
\* ends unheard, or it runs on.
Unheard ==
  \/ /\ step = "upload" => ~Online
     /\ UNCHANGED <<hostVars, snapshots>>
  \/ /\ step = "upload" /\ Online
     /\ \E s \in {"complete", "error"} :
          snapshots' = [snapshots EXCEPT ![Current].state = s]
     /\ UNCHANGED hostVars
  \/ /\ Online /\ step # "upload"
     /\ tree' = TreeAfter(step, Current)
     /\ attestation' = AttestationAfter(step, Current)
     /\ UNCHANGED <<abandoned, ranOn, snapshots>>
  \/ /\ Online /\ step \in Stray
     /\ abandoned' = abandoned \cup {<<step, Current>>}
     /\ ranOn' = ranOn \cup {<<step, Current>>}
     /\ UNCHANGED <<tree, attestation, snapshots>>

\* A refused artifact or a non-zero exit: RuntimeError, the next flavor.  A
\* command that exits non-zero may have done its work in part or in full.  A
\* closed channel is ready with the exit code -1 before its transport is found
\* inactive: the loss of a link reads as a failed command, too.
ApplicationFails ==
  /\ phase = "pass1" /\ linked
  /\ ~(step = "debug" /\ AllowDebug)
  /\ \/ /\ Online
        /\ tree' \in {tree, TreeAfter(step, Current)}
        /\ attestation' \in {attestation, AttestationAfter(step, Current)}
        /\ \/ step # "upload" /\ UNCHANGED snapshots
           \/ step = "upload" /\ \E s \in {"complete", "error"} :
                snapshots' = [snapshots EXCEPT ![Current].state = s]
        /\ UNCHANGED <<linked, abandoned, ranOn>>
     \/ linked' = FALSE /\ Unheard
  /\ results' = Put(results, Current, "failed-application")
  /\ Advance
  /\ UNCHANGED <<kind, host, attempt, tool, measured, captured, amis, files, killLost>>

\* re.match raises TypeError on a PCR that is no string: no handler of
\* run_build_driver catches it.
MeasurementsRaise ==
  /\ phase = "pass1" /\ step = "pcr" /\ Online
  /\ tree.pcr # None /\ kind[tree.pcr] = "odd"
  /\ Abort
  /\ UNCHANGED <<kind, host, hostVars, snapshots, amis, files, killLost>>

\* TransportError or RemoteCommandTimeout.  A link that an earlier failure has
\* taken along is found dead before the command is sent.
Interrupted ==
  /\ phase = "pass1"
  /\ linked' = FALSE /\ phase' = "reconnect" /\ attempt' = 1
  /\ results' = Put(results, Current, "failed-transport-indeterminate")
  /\ Unheard
  /\ UNCHANGED <<kind, host, tool, idx, step, measured, captured, amis, files, killLost>>

----------------------------------------------------------------------------
(* The reconnect decides whether the host is alive.                        *)

Reconnect ==
  /\ phase = "reconnect" /\ host = "up"
  /\ linked' = TRUE /\ phase' = "kill" /\ attempt' = 1
  /\ UNCHANGED <<kind, host, tool, idx, step, measured, results, captured, hostVars,
                 snapshots, amis, files, killLost>>

\* A faulty variant of SkipRest: flavors[idx + 2:].
SkipRestOffByOne ==
  [f \in DOMAIN results \cup {Manifest[i] : i \in idx + 2 .. Len(Manifest)} |->
     IF f \in DOMAIN results THEN results[f] ELSE "skipped-host-dead"]

\* A faulty variant of SkipRest: every flavor is marked.
SkipAll ==
  [f \in DOMAIN results \cup {Manifest[i] : i \in DOMAIN Manifest} |-> "skipped-host-dead"]

\* results for flavors[idx + 1:].
SkipRest ==
  [f \in DOMAIN results \cup {Manifest[i] : i \in idx + 1 .. Len(Manifest)} |->
     IF f \in DOMAIN results THEN results[f] ELSE "skipped-host-dead"]

ReconnectFails ==
  /\ phase = "reconnect"
  /\ IF attempt < ReconnectAttempts
       THEN attempt' = attempt + 1 /\ UNCHANGED <<phase, idx, step, results>>
       ELSE /\ results' = SkipRest
            /\ phase' = "pass2" /\ idx' = 1 /\ step' = "wait" /\ UNCHANGED attempt
  /\ UNCHANGED <<kind, host, linked, tool, measured, captured, hostVars,
                 snapshots, amis, files, killLost>>

\* Uploads that lose their process stay pending until EBS gives them up.
Stopped(fs) ==
  [f \in DOMAIN snapshots |->
     IF f \in fs /\ snapshots[f].state = "uploading"
       THEN [snapshots[f] EXCEPT !.state = "error"] ELSE snapshots[f]]

\* A faulty variant of SurviveKill: the kill names another process.
SurviveOrasKill == {a \in abandoned : a[1] # "pull"}

\* pkill -f coldsnap, whichever flavor they belong to.
SurviveKill == {a \in abandoned : a[1] # "upload"}

KillStaleColdsnap ==
  /\ phase = "kill" /\ Online
  /\ abandoned' = SurviveKill
  /\ snapshots' = Stopped({a[2] : a \in abandoned \ abandoned'})
  /\ Advance
  /\ UNCHANGED <<kind, host, linked, attempt, tool, measured, results, captured,
                 tree, attestation, ranOn, amis, files, killLost>>

\* Every exception of the kill is swallowed and the loop goes on.
KillFails ==
  /\ phase = "kill"
  /\ killLost' = TRUE
  /\ linked' \in {linked, FALSE}
  /\ Advance
  /\ UNCHANGED <<kind, host, attempt, tool, measured, results, captured, hostVars,
                 snapshots, amis, files>>

----------------------------------------------------------------------------
(* Pass 2: one captured snapshot after the other, through the EC2 API.     *)

Finishing == phase = "pass2" /\ idx <= Len(captured)
Entry == captured[idx]

NextCaptured == idx' = idx + 1 /\ step' = "wait"

Registered == [flavor |-> Entry.flavor, image |-> snapshots[Entry.flavor].image, pcr |-> Entry.pcr]

WaitForSnapshot ==
  /\ Finishing /\ step = "wait"
  /\ step' = "register"
  /\ UNCHANGED <<kind, host, linked, phase, attempt, tool, idx, measured, results, captured,
                 hostVars, snapshots, amis, files, killLost>>

RegisterAmi ==
  /\ Finishing /\ step = "register"
  /\ amis' = amis \cup {Registered}
  /\ step' = "report"
  /\ UNCHANGED <<kind, host, linked, phase, attempt, tool, idx, measured, results, captured,
                 hostVars, snapshots, files, killLost>>

GenerateBuildResult ==
  /\ Finishing /\ step = "report"
  /\ files' = files \cup {Entry.flavor}
  /\ results' = Put(results, Entry.flavor, "success")
  /\ NextCaptured
  /\ UNCHANGED <<kind, host, linked, phase, attempt, tool, measured, captured, hostVars,
                 snapshots, amis, killLost>>

\* Any exception of the three calls.  A registration may have happened
\* although its reply was lost.
Pass2Fails ==
  /\ Finishing
  /\ \/ UNCHANGED amis
     \/ step = "register" /\ amis' = amis \cup {Registered}
  /\ results' = Put(results, Entry.flavor, "failed-pass2")
  /\ NextCaptured
  /\ UNCHANGED <<kind, host, linked, phase, attempt, tool, measured, captured, hostVars,
                 snapshots, files, killLost>>

Return ==
  /\ phase = "pass2" /\ idx > Len(captured)
  /\ phase' = "done" /\ linked' = FALSE
  /\ UNCHANGED <<kind, host, attempt, tool, idx, step, measured, results, captured,
                 hostVars, snapshots, amis, files, killLost>>

----------------------------------------------------------------------------
(* The instance and what still runs on it.                                 *)

\* Spot loss, crash or the self-destruct timer: every upload loses its process.
HostDies ==
  /\ host = "up"
  /\ host' = "down" /\ abandoned' = {}
  /\ snapshots' = Stopped(Flavor)
  /\ UNCHANGED <<kind, linked, driverVars, tree, attestation, ranOn, amis, files, killLost>>

\* An abandoned command has its effect after all; a pull writes file by file.
StrayActs(c, f) ==
  /\ <<c, f>> \in abandoned
  /\ \/ /\ c = "pull"
        /\ tree' \in {[tree EXCEPT !.image = f], [tree EXCEPT !.pcr = TreeAfter(c, f).pcr]}
        /\ UNCHANGED <<attestation, abandoned, snapshots>>
     \/ /\ c \in {"reset", "verify"}
        /\ tree' = TreeAfter(c, f) /\ attestation' = AttestationAfter(c, f)
        /\ abandoned' = abandoned \ {<<c, f>>} /\ UNCHANGED snapshots
     \/ /\ c = "upload"
        /\ snapshots' = [snapshots EXCEPT ![f].state = "complete"]
        /\ abandoned' = abandoned \ {<<c, f>>} /\ UNCHANGED <<tree, attestation>>
  /\ UNCHANGED <<kind, host, linked, driverVars, ranOn, amis, files, killLost>>

\* It ends, or dies of the closed channel.
StrayEnds(c, f) ==
  /\ <<c, f>> \in abandoned
  /\ abandoned' = abandoned \ {<<c, f>>}
  /\ snapshots' = IF c = "upload" THEN Stopped({f}) ELSE snapshots
  /\ UNCHANGED <<kind, host, linked, driverVars, tree, attestation, ranOn, amis, files, killLost>>

Driver ==
  \/ Connect \/ ConnectFails \/ Install \/ InstallRetried \/ InstallFails
  \/ RemoteCommand \/ Capture \/ ApplicationFails \/ MeasurementsRaise \/ Interrupted
  \/ Reconnect \/ ReconnectFails \/ KillStaleColdsnap \/ KillFails
  \/ WaitForSnapshot \/ RegisterAmi \/ GenerateBuildResult \/ Pass2Fails \/ Return

Instance ==
  \/ HostDies
  \/ \E c \in Stray, f \in Flavor : StrayActs(c, f) \/ StrayEnds(c, f)

Next == Driver \/ Instance

Spec == Init /\ [][Next]_vars

\* The driver keeps going: execute_remote_command ends by itself, with the
\* command, with the transport or with the wall clock.
FairSpec == Spec /\ WF_vars(Driver)
=============================================================================
