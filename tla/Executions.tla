------------------------------ MODULE Executions ------------------------------
(***************************************************************************)
(* Vocabulary shared by the modules of the executor service: execution     *)
(* identifiers, the statuses of an execution record and the exit codes a   *)
(* record or an output buffer can carry (src/src/models.py).               *)
(***************************************************************************)
EXTENDS Integers, FiniteSets

CONSTANTS
  Execution,   \* the uuid4 identifiers the process may generate, never reused
  NoExit       \* Python's None in an exit_code field

(***************************************************************************)
(* The statuses of ExecutionStatus, and two for an identifier that has no  *)
(* entry in _executions: one not generated yet ("none") and one whose      *)
(* entry was deleted or lost with the process ("removed").                 *)
(***************************************************************************)
Active == {"queued", "running"}
Terminal == {"completed", "failed", "timed_out"}
Recorded == Active \cup Terminal
Status == Recorded \cup {"none", "removed"}

(***************************************************************************)
(* Exit codes: 0, 1 (any non-zero code of the script) and -1 (the code     *)
(* the executor writes when there is none to report).                      *)
(***************************************************************************)
ExitCode == {-1, 0, 1}

ASSUME ExecutionsAssumption ==
  /\ IsFiniteSet(Execution)
  /\ NoExit \notin ExitCode
=============================================================================
