-------------------------- MODULE PipelineProperties --------------------------
(***************************************************************************)
(* The correctness properties of the image pipeline.                       *)
(***************************************************************************)
EXTENDS ImagePipeline

Digests == UNION {[F -> Nat] : F \in SUBSET Flavor}
Results == UNION {[F -> Entry] : F \in SUBSET Flavor}

Record ==
  [phase : Phase, event : {"push", "dispatch", "debug"}, baseline : BOOLEAN,
   sha : Nat, matrix : Matrix, digest : Digests, results : Results, view : Nat]

(***************************************************************************)
(* The types of the variables, and that every commit a run points to is on *)
(* the branch.                                                             *)
(***************************************************************************)
PipelineTypeOK ==
  /\ main \in Seq(Commit)
  /\ run \in [Run -> Record]
  /\ \A r \in Run :
       /\ run[r].phase # "none" => run[r].sha \in DOMAIN main
       /\ run[r].view \in DOMAIN main \cup {0}
-----------------------------------------------------------------------------
(***************************************************************************)
(* Change detection is exact: a push rebuilds a flavor's image if its      *)
(* image inputs differ from the commit before, its AMI only if nothing but *)
(* its environment does, and nothing else; without a commit to compare     *)
(* with it rebuilds everything.  The guards, the order of the checks and   *)
(* the promotion to image level all decide it.                             *)
(***************************************************************************)
MatrixExact ==
  \A r \in Run : run[r].phase # "none" /\ run[r].event = "push" =>
    LET new == main[run[r].sha]
        old == main[run[r].sha - 1]
        image == {f \in Flavor : new.image[f] # old.image[f]}
        env == {f \in Flavor : new.env[f] # old.env[f]}
    IN  run[r].matrix = IF run[r].baseline
                          THEN [image |-> image, amiOnly |-> env \ image]
                          ELSE [image |-> Flavor, amiOnly |-> {}]

(***************************************************************************)
(* An entry of flavors.lock, in any commit, can be followed to its inputs: *)
(* its producing commit precedes it on the branch and holds the            *)
(* environment that was baked in; its image was built from that commit or  *)
(* is the one that commit's own lock records; and it is what a run that is *)
(* no debug build registered for this flavor.                              *)
(***************************************************************************)
Traceable(n, f) ==
  LET e == main[n].lock[f]
      tree == main[e.producing]
  IN  /\ e.producing \in 1..(n - 1)
      /\ e.env = tree.env[f]
      /\ \/ e.image = tree.image[f]
         \/ tree.lock[f] # NoEntry /\ e.image = tree.lock[f].image
      /\ e.ami # None =>
           /\ run[e.ami].event # "debug"
           /\ f \in DOMAIN run[e.ami].results /\ run[e.ami].results[f] = e

EntriesTraceable ==
  \A n \in DOMAIN main, f \in Flavor :
    main[n].lock[f] # NoEntry => Traceable(n, f)

(***************************************************************************)
(* Reading the lock, merging and pushing it, spread over three steps of    *)
(* one run between which others write back and developers push, amounts to *)
(* one atomic merge at the head of the branch: no entry and no commit of   *)
(* anybody else is lost, and each result lands whole.                      *)
(***************************************************************************)
Register == INSTANCE LockRegister WITH
  source <- <<main[Tip].image, main[Tip].env>>,
  lock <- main[Tip].lock,
  offers <- {run[r].results : r \in {s \in Run : DOMAIN run[s].results # {}}}

ImplementsLockRegister == Register!Spec

(***************************************************************************)
(* No write-back waits, or keeps others waiting, for ever: whoever is in   *)
(* the concurrency group leaves it.                                        *)
(***************************************************************************)
GroupDrains ==
  \A r \in Run : run[r].phase \in {"waiting", "writing"}
                   ~> run[r].phase \notin {"waiting", "writing"}
=============================================================================
