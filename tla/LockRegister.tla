----------------------------- MODULE LockRegister -----------------------------
(***************************************************************************)
(* What the write-backs promise of a branch: flavors.lock is a register    *)
(* with one entry per flavor, and a run merges the entries it offers in    *)
(* one atomic step that carries all others forward and touches no source.  *)
(* Who pushes when, and whose push is refused, is not visible here.        *)
(***************************************************************************)
CONSTANT Flavor

VARIABLES
  source,  \* the inputs of the flavors at the head of the branch
  lock,    \* flavor -> the entry of flavors.lock at the head
  offers   \* what runs have registered: functions from flavors to entries

vars == <<source, lock, offers>>

Init ==
  /\ DOMAIN lock = Flavor
  /\ offers = {}

\* Developers push sources; the lock comes along as it was.
Develop == UNCHANGED <<lock, offers>>

\* Runs register images.
Offer == offers \subseteq offers' /\ UNCHANGED <<source, lock>>

Merge ==
  /\ \E o \in offers :
       lock' = [f \in Flavor |-> IF f \in DOMAIN o THEN o[f] ELSE lock[f]]
  /\ UNCHANGED <<source, offers>>

Next == Develop \/ Offer \/ Merge

Spec == Init /\ [][Next]_vars
=============================================================================
