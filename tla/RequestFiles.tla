----------------------------- MODULE RequestFiles -----------------------------
(***************************************************************************)
(* The files a request makes on its machine and takes away again: /execute *)
(* clones with a helper that holds the caller's token, then attests;       *)
(* /attest and /output attest only.  Every call may fail, and the process  *)
(* may die between any two steps (Die).                                    *)
(***************************************************************************)
EXTENDS Host

Call == {"execute", "output", "attest"}

\* Files of nitro-tpm-attest, in the order they are written.
AttestFiles(call, nonce) ==
  (IF call = "attest" THEN <<>> ELSE <<"user_data">>)
    \o (IF nonce THEN <<"nonce">> ELSE <<>>)
    \o (IF call = "attest" THEN <<"public_key">> ELSE <<>>)

AttestKind == {"user_data", "nonce", "public_key"}
FileKind == AttestKind \cup {"clone", "git", "askpass"}

Of(kinds) == kinds \X {task.req}

At(stage) == task.stage = stage
Goto(stage) == task' = [task EXCEPT !.stage = stage]
Quietly == UNCHANGED <<sealed, server, daemon, outcome>>

\* The handler has replied.
Ends(how) ==
  /\ task' = NoTask
  /\ outcome' = [outcome EXCEPT ![task.req] = IF task.clean THEN how ELSE "unclean"]
  /\ UNCHANGED <<sealed, server, daemon>>

\* Removes these files of the request, or fails to and goes on; fault names why.
Removes(kinds, fault, stage) ==
  \/ /\ disk' = disk \ Of(kinds)
     /\ Goto(stage)
  \/ /\ fault \in HostFaults
     /\ UNCHANGED disk
     /\ task' = [task EXCEPT !.stage = stage, !.clean = FALSE]
-----------------------------------------------------------------------------
(* clone_repo.                                                             *)

\* The checks before the clone are RequestAdmission's; then mkdtemp.
BeginExecute(r) ==
  /\ server.stage = "serving" /\ task = NoTask /\ outcome[r] = "new"
  /\ task' = [req |-> r, call |-> "execute", stage |-> "helper", todo |-> <<>>,
              clean |-> TRUE]
  /\ disk' = disk \cup {<<"clone", r>>}
  /\ Quietly

CreateHelper ==
  /\ At("helper")
  /\ disk' = disk \cup Of({"askpass"})
  /\ Goto("clone")
  /\ Quietly

\* Outside the try block: nothing removes the directory, nor a helper that was
\* made but not filled or made executable.
CreateHelperFails ==
  /\ At("helper") /\ "helper" \in HostFaults
  /\ \E made \in {{}, {"askpass"}} : disk' = disk \cup Of(made)
  /\ task' = NoTask
  /\ outcome' = [outcome EXCEPT ![task.req] = "unclean"]
  /\ UNCHANGED <<sealed, server, daemon>>

\* The steps of the try block; fetch and strip may return an error code, too.
CloneStage == <<"clone", "fetch", "checkout", "inspect", "strip", "degit">>

\* A faulty variant of CloneEffect: .git stays, for its token was stripped.
CloneEffectKeepsGit(stage) ==
  disk \cup (IF stage = "clone" THEN Of({"git"}) ELSE {})

\* What the step leaves of the clone: git clone makes .git, the last rmtree drops it.
CloneEffect(stage) ==
  CASE stage = "clone" -> disk \cup Of({"git"})
    [] stage = "degit" -> disk \ Of({"git"})
    [] stage \notin {"clone", "degit"} -> disk

CloneStep ==
  \E i \in 1..6 :
    /\ At(CloneStage[i])
    /\ disk' = CloneEffect(CloneStage[i])
    /\ Goto(IF i = 6 THEN "cloned" ELSE CloneStage[i + 1])
    /\ Quietly

\* A timeout, a refusal or an exception; a clone that was killed leaves a part.
CloneStepFails ==
  /\ \E i \in 1..6 : At(CloneStage[i])
  /\ \E part \in {{}, {"git"}} :
       disk' = IF At("clone") THEN disk \cup Of(part) ELSE disk
  /\ Goto("undo")
  /\ Quietly

\* cleanup_clone in the except clauses, which swallows an OSError.
UndoClone ==
  /\ At("undo")
  /\ Removes({"clone", "git"}, "rmtree", "refused")
  /\ Quietly

\* The finally block.
UnlinkHelper ==
  /\ At("cloned") \/ At("refused")
  /\ Removes({"askpass"}, "unlink", IF At("cloned") THEN "validate" ELSE "reply")
  /\ Quietly
-----------------------------------------------------------------------------
(* /execute after the clone.                                               *)

\* validate_script_exists, the size, the environment and the capacity.
Validate ==
  /\ At("validate")
  /\ \E nonce \in BOOLEAN :
       task' = [task EXCEPT !.stage = "attest", !.todo = AttestFiles("execute", nonce)]
  /\ UNCHANGED disk
  /\ Quietly

ValidateFails ==
  /\ At("validate")
  /\ Goto("drop")
  /\ UNCHANGED disk
  /\ Quietly

\* cleanup_clone, or the finally block that removes what was not handed off.
DropClone ==
  /\ At("drop")
  /\ Removes({"clone", "git"}, "rmtree", "reply")
  /\ Quietly

HandOff ==
  /\ At("attested") /\ task.call = "execute"
  /\ Ends("handed_off")
  /\ UNCHANGED disk

\* No thread can be started, or the response cannot be put together.
HandOffFails ==
  /\ At("attested") /\ task.call = "execute"
  /\ Goto("drop")
  /\ UNCHANGED disk
  /\ Quietly

Reply ==
  /\ At("reply") \/ (At("attested") /\ task.call # "execute")
  /\ Ends("replied")
  /\ UNCHANGED disk
-----------------------------------------------------------------------------
(* generate_attestation and generate_output_attestation.                   *)

BeginAttest(r) ==
  /\ server.stage = "serving" /\ task = NoTask /\ outcome[r] = "new"
  /\ \E call \in {"output", "attest"}, nonce \in BOOLEAN :
       task' = [req |-> r, call |-> call, stage |-> "attest",
                todo |-> AttestFiles(call, nonce), clean |-> TRUE]
  /\ UNCHANGED disk
  /\ Quietly

WriteAttestFile ==
  /\ At("attest") /\ task.todo # <<>>
  /\ disk' = disk \cup Of({Head(task.todo)})
  /\ task' = [task EXCEPT !.todo = Tail(@)]
  /\ Quietly

InvokeTpm ==
  /\ At("attest") /\ task.todo = <<>>
  /\ Goto("signed")
  /\ UNCHANGED disk
  /\ Quietly

\* The GPU claims, a file that is made but not written, a timeout, an exit code.
AttestFails ==
  /\ At("attest")
  /\ \E made \in {{}} \cup (IF task.todo = <<>> THEN {} ELSE {{Head(task.todo)}}) :
       disk' = disk \cup Of(made)
  /\ Goto("unsigned")
  /\ Quietly

\* The finally block; an error of unlink is ignored.
ReleaseAttestFiles ==
  /\ At("signed") \/ At("unsigned")
  /\ Removes(AttestKind, "unlink",
             IF At("signed") THEN "attested"
             ELSE IF task.call = "execute" THEN "drop" ELSE "reply")
  /\ Quietly

RequestStep ==
  \/ \E r \in Request : BeginExecute(r) \/ BeginAttest(r)
  \/ CreateHelper \/ CreateHelperFails \/ CloneStep \/ CloneStepFails
  \/ UndoClone \/ UnlinkHelper
  \/ Validate \/ ValidateFails \/ DropClone
  \/ HandOff \/ HandOffFails \/ Reply
  \/ WriteAttestFile \/ InvokeTpm \/ AttestFails \/ ReleaseAttestFiles
=============================================================================
