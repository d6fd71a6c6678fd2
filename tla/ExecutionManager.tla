--------------------------- MODULE ExecutionManager ---------------------------
(***************************************************************************)
(* The in-memory registry of executions (src/src/execution_manager.py).    *)
(* Each operator is one critical section under ExecutionManager._lock, to  *)
(* be used as a conjunct of the action of the thread that calls it.        *)
(***************************************************************************)
EXTENDS Executions

CONSTANT MaxConcurrent   \* config.max_concurrent_executions

ASSUME ManagerAssumption == MaxConcurrent \in Nat \ {0}

VARIABLES
  status,       \* record.status of each identifier, "none"/"removed" if absent
  exitCode,     \* record.exit_code
  aged,         \* records whose completed_at lies before the retention cutoff
  total,        \* _total_executions
  successful,   \* _successful_executions
  failed        \* _failed_executions

managerVars == <<status, exitCode, aged, total, successful, failed>>

ManagerTypeOK ==
  /\ status \in [Execution -> Status]
  /\ exitCode \in [Execution -> ExitCode \cup {NoExit}]
  /\ aged \subseteq Execution
  /\ total \in Nat
  /\ successful \in Nat
  /\ failed \in Nat

ManagerInit ==
  /\ status = [e \in Execution |-> "none"]
  /\ exitCode = [e \in Execution |-> NoExit]
  /\ aged = {}
  /\ total = 0
  /\ successful = 0
  /\ failed = 0
-----------------------------------------------------------------------------
\* get_execution(e) returns a record.
HasRecord(e) == status[e] \in Recorded

\* The records try_create_execution, get_active_count and get_metrics count.
ActiveSet == {e \in Execution : status[e] \in Active}

\* A faulty variant of AtCapacity: one execution too many.
AtCapacityOffByOne == Cardinality(ActiveSet) > MaxConcurrent

AtCapacity == Cardinality(ActiveSet) >= MaxConcurrent

\* A faulty variant of RegisterExecution: the metrics miss the execution.
RegisterUncounted(e) ==
  /\ status' = [status EXCEPT ![e] = "queued"]
  /\ UNCHANGED <<total, exitCode, aged, successful, failed>>

\* The branch of try_create_execution that inserts the QUEUED record.
RegisterExecution(e) ==
  /\ status' = [status EXCEPT ![e] = "queued"]
  /\ total' = total + 1
  /\ UNCHANGED <<exitCode, aged, successful, failed>>

(***************************************************************************)
(* update_status(e, s, x): no check of the current status, a missing       *)
(* record is ignored, the exit code is written on a terminal status only   *)
(* and every call with a terminal status counts in the metrics.            *)
(***************************************************************************)
UpdateStatus(e, s, x) ==
  IF HasRecord(e)
  THEN /\ status' = [status EXCEPT ![e] = s]
       /\ exitCode' = [exitCode EXCEPT ![e] = IF s \in Terminal THEN x ELSE @]
       /\ successful' = IF s = "completed" THEN successful + 1 ELSE successful
       /\ failed' = IF s \in {"failed", "timed_out"} THEN failed + 1 ELSE failed
       /\ UNCHANGED <<aged, total>>
  ELSE UNCHANGED managerVars

\* The clock passes completed_at + output_retention_hours of a record.
RetentionElapses(e) ==
  /\ status[e] \in Terminal
  /\ e \notin aged
  /\ aged' = aged \cup {e}
  /\ UNCHANGED <<status, exitCode, total, successful, failed>>

\* A faulty variant of Expired: unfinished executions are not skipped.
ExpiredAnyStatus == {e \in Execution : status[e] \in Recorded}

\* The records cleanup_expired deletes: terminal and past the cutoff.
Expired == {e \in Execution : status[e] \in Terminal /\ e \in aged}

\* A faulty variant of RemoveExpired: the successes are counted down.
RemoveExpiredUncounts ==
  /\ status' = [e \in Execution |-> IF e \in Expired THEN "removed" ELSE status[e]]
  /\ exitCode' = [e \in Execution |-> IF e \in Expired THEN NoExit ELSE exitCode[e]]
  /\ aged' = aged \ Expired
  /\ successful' = successful - Cardinality(Expired)
  /\ UNCHANGED <<total, failed>>

\* The locked section of cleanup_expired: the expired records disappear.
RemoveExpired ==
  /\ status' = [e \in Execution |-> IF e \in Expired THEN "removed" ELSE status[e]]
  /\ exitCode' = [e \in Execution |-> IF e \in Expired THEN NoExit ELSE exitCode[e]]
  /\ aged' = aged \ Expired
  /\ UNCHANGED <<total, successful, failed>>

\* The process ends: every record and counter is lost with its memory.
ForgetRecords ==
  /\ status' = [e \in Execution |->
                  IF status[e] = "none" THEN "none" ELSE "removed"]
  /\ exitCode' = [e \in Execution |-> NoExit]
  /\ aged' = {}
  /\ total' = 0
  /\ successful' = 0
  /\ failed' = 0
-----------------------------------------------------------------------------
(***************************************************************************)
(* The number of queued and running records never exceeds the configured   *)
(* limit.  try_create_execution checks it once, on entry; it holds only    *)
(* because no thread ever moves a finished record back to an active        *)
(* status, which update_status would let it do.                            *)
(***************************************************************************)
ConcurrencyLimit == Cardinality(ActiveSet) <= MaxConcurrent

(***************************************************************************)
(* The counters of get_metrics add up: every execution created is active,  *)
(* succeeded or failed, and is counted once.  update_status counts every   *)
(* call with a terminal status, so a second verdict for one execution, or  *)
(* the removal of an unfinished record, would break the sum.               *)
(***************************************************************************)
MetricsLaw == total = successful + failed + Cardinality(ActiveSet)
=============================================================================
