--------------------------- MODULE BuildProperties ---------------------------
(***************************************************************************)
(* What the AMI build driver promises (openspec/specs/ami-build/spec.md,   *)
(* docstrings of scripts/build-ami.py).                                    *)
(***************************************************************************)
EXTENDS BuildDriver

Position(f) == CHOOSE i \in DOMAIN Manifest : Manifest[i] = f

\* The earlier flavors of which command c was left running.
LeftRunning(c, f) ==
  {g \in Flavor : <<c, g>> \in ranOn /\ Position(g) < Position(f)}

(***************************************************************************)
(* Nothing unsigned ever becomes a snapshot: neither the flavor's own      *)
(* artifact nor one that an abandoned pull of an earlier flavor brings     *)
(* into the shared directory.  This is what verifying before downloading   *)
(* is worth.                                                               *)
(***************************************************************************)
OnlySigned ==
  \A f \in DOMAIN snapshots : kind[snapshots[f].image] # "unsigned"

(***************************************************************************)
(* The image and the PCR values of an AMI are those of its flavor.  The    *)
(* wipe keeps the leftovers of earlier flavors out, whatever part of their *)
(* commands failed, except of those whose pull was left running when the   *)
(* link was lost under it, which the driver records either as a transport  *)
(* failure or, from the exit code -1, as an application failure.           *)
(***************************************************************************)
OwnArtifact ==
  \A a \in amis :
    {a.image, a.pcr} \subseteq {a.flavor} \cup LeftRunning("pull", a.flavor)

(***************************************************************************)
(* No AMI carries the name of a flavor whose artifact is unsigned or a     *)
(* debug image; one attested by another workflow gets through only over    *)
(* the result of an earlier flavor's verification that was left running.   *)
(***************************************************************************)
GatesHold ==
  \A a \in amis :
    /\ kind[a.flavor] \notin IF AllowDebug THEN {"unsigned"} ELSE {"unsigned", "debug"}
    /\ kind[a.flavor] = "foreign" => LeftRunning("verify", a.flavor) # {}

(***************************************************************************)
(* When the driver returns every flavor has its one result, and a snapshot *)
(* that was captured has been through pass 2, whatever became of the host  *)
(* and of the other flavors.  A success has its AMI and its result file,   *)
(* from a complete snapshot; nothing else has a result file.               *)
(***************************************************************************)
ResultsComplete ==
  phase = "done" =>
    /\ DOMAIN results = {Manifest[i] : i \in DOMAIN Manifest}
    /\ \A f \in DOMAIN results : results[f] # "pass1-ok"
    /\ \A i \in DOMAIN captured : results[captured[i].flavor] \in {"success", "failed-pass2"}
    /\ \A f \in DOMAIN results : results[f] = "success" <=> f \in files
    /\ \A f \in files : snapshots[f].state = "complete" /\ \E a \in amis : a.flavor = f

(***************************************************************************)
(* A result other than "pass1-ok" is final: neither the abort of pass 1    *)
(* nor pass 2 overwrites the failure of a flavor.                          *)
(***************************************************************************)
ResultsFinal ==
  [][\A f \in DOMAIN results : results[f] # "pass1-ok" =>
       f \in DOMAIN results' /\ results'[f] = results[f]]_vars

(***************************************************************************)
(* Two uploads run at once only after a kill of the abandoned one failed.  *)
(***************************************************************************)
UploadsSequential ==
  Cardinality({f \in DOMAIN snapshots : snapshots[f].state = "uploading"}) > 1 => killLost

\* Whatever drops, dies or fails, the driver comes to an end.
DriverEnds == <>(phase \in {"done", "aborted"})

(***************************************************************************)
(* "so every flavor builds from a known-empty tree" (spec.md:336) and      *)
(* "make resuming clean for the instance-local and in-process state"       *)
(* (spec.md:379): an AMI holds its own flavor's image and measurements.    *)
(* Does not hold: an abandoned oras pull writes after the wipe.            *)
(***************************************************************************)
BuildsFromOwnTree ==
  \A a \in amis : a.image = a.flavor /\ a.pcr = a.flavor
=============================================================================
