---------------------------- MODULE ImagePipeline ----------------------------
(***************************************************************************)
(* The workflow that builds machine images and records them in flavors.lock *)
(* (.github/workflows/build-attestable-image.yml), on its branch: several   *)
(* runs at a time, each with the jobs detect-changes, build-flavor-image,   *)
(* build-ami and update-flavors-lock, while developers go on pushing.       *)
(*                                                                         *)
(* The branch is the sequence of its commits.  The inputs of a flavor are   *)
(* known by the commit that changed them last, and a container image by the *)
(* inputs it was built from.                                               *)
(***************************************************************************)
EXTENDS ChangeDetection, Naturals, Sequences

CONSTANTS
  Run,      \* runs of the workflow
  NoEntry,  \* a flavor without an entry in flavors.lock
  Changes   \* the sets of paths a push may change: subsets of Path

ASSUME PipelineAssumption ==
  /\ None \notin Run
  /\ Changes \subseteq SUBSET Path

VARIABLES
  main,  \* the commits of the branch
  run    \* run -> its record

vars == <<main, run>>

Phase ==
  {"none",       \* not triggered yet
   "skipped",    \* nothing to build, or a forced flavor that is unknown
   "produce",    \* build-flavor-image
   "ami",        \* build-ami
   "waiting",    \* update-flavors-lock, pending in its concurrency group
   "writing",    \* update-flavors-lock, before its checkout (view = 0) or after
   "done", "failed",
   "cancelled",  \* by its concurrency group
   "rejected"}   \* git push was refused: not a fast-forward

\* An entry of flavors.lock; ami is the run that registered the AMI.
Entry == [image : Nat, env : Nat, producing : Nat, ami : Run \cup {None}]

Commit == [image : [Flavor -> Nat], env : [Flavor -> Nat],
           lock : [Flavor -> Entry \cup {NoEntry}]]

Tip == Len(main)

Idle == [phase |-> "none", event |-> "push", baseline |-> TRUE, sha |-> 0,
         matrix |-> Nothing, digest |-> <<>>, results |-> <<>>, view |-> 0]

Rebuilt(r) == run[r].matrix.image \cup run[r].matrix.amiOnly

\* The branch has sources and, for some flavors, entries of earlier runs.
Init ==
  /\ \E recorded \in SUBSET Flavor :
       LET sources(lock) == [image |-> [f \in Flavor |-> 1],
                             env |-> [f \in Flavor |-> 1], lock |-> lock]
           first == [image |-> 1, env |-> 1, producing |-> 1, ami |-> None]
       IN  main = <<sources([f \in Flavor |-> NoEntry]),
                    sources([f \in Flavor |->
                               IF f \in recorded THEN first ELSE NoEntry])>>
  /\ run = [r \in Run |-> Idle]
-----------------------------------------------------------------------------
(* Triggers and detect-changes.                                            *)

\* The commit that changes these paths on top of the head.
Edited(changed) ==
  LET n == Tip + 1
      touched(kind, f) == {<<"global", None>>, <<kind, f>>} \cap changed # {}
      latest(kind, old) == [f \in Flavor |-> IF touched(kind, f) THEN n ELSE old[f]]
  IN  [image |-> latest("image", main[Tip].image),
       env |-> latest("env", main[Tip].env),
       lock |-> main[Tip].lock]

\* The run r of an event on commit n.
Triggered(r, event, baseline, n, matrix) ==
  run' = [run EXCEPT ![r] =
            [phase |-> IF matrix = Nothing THEN "skipped" ELSE "produce",
             event |-> event, baseline |-> baseline, sha |-> n, matrix |-> matrix,
             digest |-> <<>>, results |-> <<>>, view |-> 0]]

\* A push; without a baseline when the commit before it is not in the clone.  git
\* lists a moved file under its new name only: pushes here move none to another
\* flavor's directory or out of all of them.
Push(r) ==
  /\ run[r].phase = "none"
  /\ \E changed \in Changes, baseline \in BOOLEAN :
       /\ main' = Append(main, Edited(changed))
       /\ Triggered(r, "push", baseline, Tip + 1, ComputeMatrix("none", baseline, changed))

\* workflow_dispatch at the head, with enable_ssh for a debug build.
Dispatch(r) ==
  /\ run[r].phase = "none"
  /\ \E force \in ForceFlavor, event \in {"dispatch", "debug"} :
       Triggered(r, event, FALSE, Tip, ComputeMatrix(force, FALSE, {}))
  /\ UNCHANGED main
-----------------------------------------------------------------------------
(* build-flavor-image and build-ami.                                       *)

\* An AMI-only rebuild reuses the image recorded in the lock it checked out.
Produce(r) ==
  LET tree == main[run[r].sha]
  IN  /\ run[r].phase = "produce"
      /\ \A f \in run[r].matrix.amiOnly : tree.lock[f] # NoEntry
      /\ run' = [run EXCEPT
                   ![r].phase = "ami",
                   ![r].digest = [f \in Rebuilt(r) |->
                                    IF f \in run[r].matrix.image THEN tree.image[f]
                                                                 ELSE tree.lock[f].image]]
      /\ UNCHANGED main

\* Also when an AMI-only flavor has no entry to reuse.  One failure fails the job.
ProduceFails(r) ==
  /\ run[r].phase = "produce"
  /\ run' = [run EXCEPT ![r].phase = "failed"]
  /\ UNCHANGED main

\* A faulty variant of VerifierRecord: the head of the branch at registration.
VerifierRecordOfHead(r, f) ==
  [image |-> run[r].digest[f], env |-> main[run[r].sha].env[f],
   producing |-> Tip, ami |-> r]

\* The result of a flavor, with the commit that was checked out as its producer.
VerifierRecord(r, f) ==
  [image |-> run[r].digest[f], env |-> main[run[r].sha].env[f],
   producing |-> run[r].sha, ami |-> r]

Records(r, built) == [f \in built |-> VerifierRecord(r, f)]

(***************************************************************************)
(* update-flavors-lock joins its concurrency group: one run at a time      *)
(* writes, one waits, and a newer one takes the place of the one that      *)
(* waits (cancel-in-progress: false spares only the one that writes).      *)
(***************************************************************************)
Writing == {r \in Run : run[r].phase = "writing"}
Waiting == {r \in Run : run[r].phase = "waiting"}

Joins(r, results) ==
  [s \in Run |->
     CASE s = r -> [run[r] EXCEPT !.results = results, !.view = 0,
                                  !.phase = IF Writing = {} THEN "writing" ELSE "waiting"]
       [] s # r /\ Writing # {} /\ s \in Waiting -> [run[s] EXCEPT !.phase = "cancelled"]
       [] s # r /\ ~(Writing # {} /\ s \in Waiting) -> run[s]]

\* The driver succeeds if any flavor does; then comes `terraform destroy`.  A
\* debug build is not recorded.
RegisterAmis(r) ==
  /\ run[r].phase = "ami"
  /\ \E built \in (SUBSET Rebuilt(r)) \ {{}} :
       run' = IF run[r].event = "debug"
                THEN [run EXCEPT ![r].results = Records(r, built), ![r].phase = "done"]
                ELSE Joins(r, Records(r, built))
  /\ UNCHANGED main

\* No flavor was built, or the job failed after images were registered.
BuildAmiFails(r) ==
  /\ run[r].phase = "ami"
  /\ \E built \in SUBSET Rebuilt(r) :
       run' = [run EXCEPT ![r].results = Records(r, built), ![r].phase = "failed"]
  /\ UNCHANGED main
-----------------------------------------------------------------------------
(* update-flavors-lock.                                                    *)

\* The job checks out the head of the branch, not the commit of the run.
CheckOut(r) ==
  /\ run[r].phase = "writing" /\ run[r].view = 0
  /\ run' = [run EXCEPT ![r].view = Tip]
  /\ UNCHANGED main

\* A faulty variant of Leaves: the run that waits is not woken.
LeavesAlone(r, phase) == run' = [run EXCEPT ![r].phase = phase]

\* Run r leaves the group, and the run that waits takes its turn.
Leaves(r, phase) ==
  run' = [s \in Run |->
            CASE s = r -> [run[s] EXCEPT !.phase = phase]
              [] s # r /\ s \in Waiting -> [run[s] EXCEPT !.phase = "writing"]
              [] s # r /\ s \notin Waiting -> run[s]]

\* The lock of the tree at n with the results of run r merged in.
Merged(r, n) ==
  [f \in Flavor |-> IF f \in DOMAIN run[r].results THEN run[r].results[f]
                                                   ELSE main[n].lock[f]]

\* A faulty variant of FastForward: git push --force.
ForcedPush(r) == TRUE

\* git push is not forced: it takes a commit on top of the head only.
FastForward(r) == run[r].view = Tip

WriteBack(r) ==
  LET n == run[r].view
  IN  /\ run[r].phase = "writing" /\ n # 0 /\ FastForward(r)
      /\ main' = Append(SubSeq(main, 1, n), [main[n] EXCEPT !.lock = Merged(r, n)])
      /\ Leaves(r, "done")

\* Somebody pushed since the checkout.
PushRejected(r) ==
  /\ run[r].phase = "writing" /\ run[r].view # 0 /\ ~FastForward(r)
  /\ Leaves(r, "rejected")
  /\ UNCHANGED main

\* The runner, the checkout or the download of the results fails.
WriteBackFails(r) ==
  /\ run[r].phase = "writing"
  /\ Leaves(r, "failed")
  /\ UNCHANGED main

\* Somebody re-runs a job that was cancelled or refused: its inputs are kept.
Rerun(r) ==
  /\ run[r].phase \in {"cancelled", "rejected"}
  /\ run' = Joins(r, run[r].results)
  /\ UNCHANGED main
-----------------------------------------------------------------------------
RunStep(r) ==
  \/ Produce(r) \/ ProduceFails(r)
  \/ RegisterAmis(r) \/ BuildAmiFails(r)
  \/ CheckOut(r) \/ WriteBack(r) \/ PushRejected(r) \/ WriteBackFails(r)

Next == \E r \in Run : Push(r) \/ Dispatch(r) \/ RunStep(r) \/ Rerun(r)

Spec == Init /\ [][Next]_vars

\* Jobs run: each succeeds, fails or exceeds its time limit.
FairSpec == Spec /\ \A r \in Run : WF_vars(RunStep(r))
=============================================================================
