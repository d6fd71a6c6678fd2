-------------------------- MODULE ExecutionLifecycle --------------------------
(***************************************************************************)
(* What the executor service promises about an execution, whatever threads *)
(* and stores it is made of: the lifecycle documented in update_status     *)
(* (execution_manager.py), the admission limit, one final answer in the    *)
(* output that precedes and agrees with the verdict in the record, and     *)
(* removal of a record, then of its output, once it is over.               *)
(***************************************************************************)
EXTENDS Executions

CONSTANT Limit   \* executions that may be queued or running at a time

VARIABLES
  phase,    \* the status of each execution
  answer    \* the exit code a finished output reports, NoExit before

lifecycleVars == <<phase, answer>>

Init ==
  /\ phase = [e \in Execution |-> "none"]
  /\ answer = [e \in Execution |-> NoExit]

Submit(e) ==
  /\ phase[e] = "none"
  /\ Cardinality({x \in Execution : phase[x] \in Active}) < Limit
  /\ phase' = [phase EXCEPT ![e] = "queued"]
  /\ UNCHANGED answer

Begin(e) ==
  /\ phase[e] = "queued"
  /\ phase' = [phase EXCEPT ![e] = "running"]
  /\ UNCHANGED answer

\* The output becomes final while the record still says running ...
Publish(e) ==
  /\ phase[e] = "running"
  /\ answer[e] = NoExit
  /\ \E code \in ExitCode : answer' = [answer EXCEPT ![e] = code]
  /\ UNCHANGED phase

\* ... and decides the verdict.
Conclude(e) ==
  /\ phase[e] = "running"
  /\ answer[e] # NoExit
  /\ \E verdict \in Terminal :
       /\ (verdict = "completed") <=> (answer[e] = 0)
       /\ phase' = [phase EXCEPT ![e] = verdict]
  /\ UNCHANGED answer

Expire(S) ==
  /\ \A e \in S : phase[e] \in Terminal
  /\ phase' = [e \in Execution |-> IF e \in S THEN "removed" ELSE phase[e]]
  /\ UNCHANGED answer

Forget(S) ==
  /\ \A e \in S : phase[e] = "removed"
  /\ answer' = [e \in Execution |-> IF e \in S THEN NoExit ELSE answer[e]]
  /\ UNCHANGED phase

\* The service stops: everything it knew is gone.
Reset ==
  /\ phase' = [e \in Execution |->
                 IF phase[e] = "none" THEN "none" ELSE "removed"]
  /\ answer' = [e \in Execution |-> NoExit]

Next ==
  \/ \E e \in Execution : Submit(e) \/ Begin(e) \/ Publish(e) \/ Conclude(e)
  \/ \E S \in SUBSET Execution : Expire(S) \/ Forget(S)
  \/ Reset

Spec == Init /\ [][Next]_lifecycleVars
=============================================================================
