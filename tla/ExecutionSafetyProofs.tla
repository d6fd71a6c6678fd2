------------------------- MODULE ExecutionSafetyProofs -------------------------
(***************************************************************************)
(* The safety properties of the executor service, for every number of      *)
(* executions, every limit and every set of failures of the environment.   *)
(*                                                                         *)
(* The argument: where a thread stands decides the status of its record    *)
(* (ThreadPhase), where the handler stands decides that of the execution   *)
(* it works for (HandlerPhase).  From this follow the effect of a step on  *)
(* the registry, the limit, the metrics and that a verdict is final.       *)
(* At the end: a thread only ever moves towards its end (Ahead).           *)
(***************************************************************************)
EXTENDS ExecutionServiceProofs

-----------------------------------------------------------------------------
(***************************************************************************)
(* A step of thread e moves it between two program points and leaves the   *)
(* record as it is, starts it, or gives it its verdict.                    *)
(***************************************************************************)
Keeps == UNCHANGED managerVars

Starts(e, s) ==
  /\ status[e] = "queued" /\ s = "running"
  /\ UNCHANGED <<exitCode, aged, total, successful, failed>>

Ends(e, s) ==
  /\ status[e] = "running" /\ s \in Terminal
  /\ \A x \in Execution \ {e} : exitCode'[x] = exitCode[x]
  /\ \/ successful' = successful + 1 /\ failed' = failed
     \/ successful' = successful /\ failed' = failed + 1
  /\ total' = total

Moves(e, to, s) ==
  /\ to # "idle" /\ Fits(to, s)
  /\ pc' = [pc EXCEPT ![e] = to]
  /\ status' = [status EXCEPT ![e] = s]
  /\ \/ s = status[e] /\ Keeps
     \/ Starts(e, s)
     \/ Ends(e, s)

(***************************************************************************)
(* Every step of a thread, from where ThreadPhase lets it stand, has one   *)
(* of these effects: update_status is only ever called on a queued or a    *)
(* running record.                                                         *)
(***************************************************************************)
LEMMA ThreadEffect ==
  ASSUME TypeOK, ThreadPhase, NEW e \in Execution, ThreadStep(e)
  PROVE  pc[e] # "idle" /\ \E to \in ThreadPC, s \in Status : Moves(e, to, s)
<1> USE DEF Goto
<1>1. /\ pc \in [Execution -> ThreadPC] /\ status \in [Execution -> Status]
      /\ successful \in Nat /\ failed \in Nat
      /\ exitCode \in [Execution -> ExitCode \cup {NoExit}]
      /\ exitSeen[e] \in {0, 1, NoExit}
  BY DEF TypeOK, ExecutorTypeOK, ManagerTypeOK
<1>2. Fits(pc[e], status[e])
  BY DEF ThreadPhase
<1>3. ASSUME UNCHANGED managerVars, NEW to \in ThreadPC, to # "idle",
             pc' = [pc EXCEPT ![e] = to], Fits(to, status[e]), pc[e] # "idle"
      PROVE  pc[e] # "idle" /\ \E t \in ThreadPC, s \in Status : Moves(e, t, s)
  <2>1. status' = [status EXCEPT ![e] = status[e]]
    BY <1>1, <1>3 DEF managerVars
  <2>2. Moves(e, to, status[e])
    BY <1>3, <2>1 DEF Moves, Keeps
  <2> QED BY <1>1, <1>3, <2>2
<1>4. CASE CreateOutputBuffer(e)
  BY <1>1, <1>2, <1>3, <1>4 DEF CreateOutputBuffer, Fits, ThreadPC, InBody, HasRecord, Recorded, Active
<1>5. CASE CreateContainer(e)
  BY <1>1, <1>2, <1>3, <1>5 DEF CreateContainer, Fits, ThreadPC, InBody, HasRecord, Recorded, Active
<1>6. CASE CreateContainerFails(e)
  BY <1>1, <1>2, <1>3, <1>6 DEF CreateContainerFails, Fits, ThreadPC, InBody, HasRecord, Recorded, Active
<1>7. CASE StartContainer(e)
  BY <1>1, <1>2, <1>3, <1>7 DEF StartContainer, Fits, ThreadPC, InBody, HasRecord, Recorded, Active
<1>8. CASE StartContainerFails(e)
  BY <1>1, <1>2, <1>3, <1>8 DEF StartContainerFails, Fits, ThreadPC, InBody, HasRecord, Recorded, Active
<1>9. CASE StartStreams(e)
  BY <1>1, <1>2, <1>3, <1>9 DEF StartStreams, Fits, ThreadPC, InBody, HasRecord, Recorded, Active
<1>10. CASE StartStreamsFails(e)
  BY <1>1, <1>2, <1>3, <1>10 DEF StartStreamsFails, Fits, ThreadPC, InBody, HasRecord, Recorded, Active
<1>11. CASE WaitReturns(e)
  BY <1>1, <1>2, <1>3, <1>11 DEF WaitReturns, Fits, ThreadPC, InBody, HasRecord, Recorded, Active
<1>12. CASE WaitRaises(e)
  BY <1>1, <1>2, <1>3, <1>12 DEF WaitRaises, Fits, ThreadPC, InBody, HasRecord, Recorded, Active
<1>13. CASE StopContainer(e)
  BY <1>1, <1>2, <1>3, <1>13 DEF StopContainer, Fits, ThreadPC, InBody, HasRecord, Recorded, Active
<1>14. CASE StopFails(e)
  BY <1>1, <1>2, <1>3, <1>14 DEF StopFails, Fits, ThreadPC, InBody, HasRecord, Recorded, Active
<1>15. CASE JoinStreams(e)
  BY <1>1, <1>2, <1>3, <1>15 DEF JoinStreams, Fits, ThreadPC, InBody, HasRecord, Recorded, Active
<1>16. CASE MarkComplete(e)
  BY <1>1, <1>2, <1>3, <1>16 DEF MarkComplete, Fits, ThreadPC, InBody, HasRecord, Recorded, Active
<1>17. CASE HandleException(e)
  BY <1>1, <1>2, <1>3, <1>17 DEF HandleException, Fits, ThreadPC, InBody, HasRecord, Recorded, Active
<1>18. CASE Untrack(e)
  BY <1>1, <1>2, <1>3, <1>18 DEF Untrack, Fits, ThreadPC, InBody, HasRecord, Recorded, Active
<1>19. CASE RemoveContainer(e)
  BY <1>1, <1>2, <1>3, <1>19 DEF RemoveContainer, Fits, ThreadPC, InBody, HasRecord, Recorded, Active
<1>20. CASE RemoveContainerFails(e)
  BY <1>1, <1>2, <1>3, <1>20 DEF RemoveContainerFails, Fits, ThreadPC, InBody, HasRecord, Recorded, Active
<1>21. CASE RemoveCloneDir(e)
  BY <1>1, <1>2, <1>3, <1>21 DEF RemoveCloneDir, Fits, ThreadPC, InBody, HasRecord, Recorded, Active
<1>22. CASE LookUpRecord(e)
  BY <1>1, <1>2, <1>3, <1>22 DEF LookUpRecord, Fits, ThreadPC, InBody, HasRecord, Recorded, Active
<1>23. CASE MarkRunning(e)
  <2>1. pc[e] # "idle" /\ pc' = [pc EXCEPT ![e] = "create"] /\ HasRecord(e)
    BY <1>1, <1>2, <1>23 DEF MarkRunning, Fits, InBody, HasRecord, Recorded, Active
  <2>2. status' = [status EXCEPT ![e] = "running"] /\ UpdateStatus(e, "running", NoExit)
    BY <1>23, <2>1 DEF MarkRunning, UpdateStatus
  <2>3. Starts(e, "running")
    BY <1>1, <1>2, <1>23, <2>1, <2>2
    DEF MarkRunning, UpdateStatus, Starts, Terminal, Fits
  <2>4. Moves(e, "create", "running")
    BY <2>1, <2>2, <2>3 DEF Moves, Fits, InBody
  <2> QED BY <2>1, <2>4, <2>3 DEF ThreadPC, Status, Recorded, Active
<1>24. CASE RecordVerdict(e)
  <2>1. pc[e] # "idle" /\ pc' = [pc EXCEPT ![e] = "untrack"] /\ HasRecord(e)
    BY <1>1, <1>2, <1>24 DEF RecordVerdict, Fits, InBody, HasRecord, Recorded, Active
  <2>2. status' = [status EXCEPT ![e] = FinalStatus(e)] /\ UpdateStatus(e, FinalStatus(e), FinalCode(e))
    BY <1>24, <2>1 DEF RecordVerdict, UpdateStatus
  <2>3. FinalStatus(e) \in Terminal
    BY DEF FinalStatus, Terminal
  <2>4. Ends(e, FinalStatus(e))
    BY <1>1, <1>2, <1>24, <2>1, <2>2, <2>3
    DEF RecordVerdict, UpdateStatus, Ends, Terminal, Fits, InBody
  <2>5. Moves(e, "untrack", FinalStatus(e))
    BY <2>1, <2>2, <2>3, <2>4 DEF Moves, Fits, InBody
  <2> QED BY <2>1, <2>5, <2>3 DEF ThreadPC, Status, Recorded, Active
<1>25. CASE RecordFailure(e)
  <2>1. pc[e] # "idle" /\ pc' = [pc EXCEPT ![e] = "untrack"] /\ HasRecord(e)
    BY <1>1, <1>2, <1>25 DEF RecordFailure, Fits, InBody, HasRecord, Recorded, Active
  <2>2. status' = [status EXCEPT ![e] = "failed"] /\ UpdateStatus(e, "failed", -1)
    BY <1>25, <2>1 DEF RecordFailure, UpdateStatus
  <2>3. "failed" \in Terminal
    BY DEF Terminal
  <2>4. Ends(e, "failed")
    BY <1>1, <1>2, <1>25, <2>1, <2>2, <2>3
    DEF RecordFailure, UpdateStatus, Ends, Terminal, Fits, InBody
  <2>5. Moves(e, "untrack", "failed")
    BY <2>1, <2>2, <2>3, <2>4 DEF Moves, Fits, InBody
  <2> QED BY <2>1, <2>5, <2>3 DEF ThreadPC, Status, Recorded, Active
<1> QED
  BY <1>4, <1>5, <1>6, <1>7, <1>8, <1>9, <1>10, <1>11, <1>12, <1>13,
     <1>14, <1>15, <1>16, <1>17, <1>18, <1>19, <1>20, <1>21, <1>22, <1>23,
     <1>24, <1>25 DEF ThreadStep

(***************************************************************************)
(* A step of a thread keeps the phases: it moves its own execution only,   *)
(* which no handler works for.                                             *)
(***************************************************************************)
LEMMA ThreadKeepsPhases ==
  ASSUME TypeOK, ThreadPhase, HandlerPhase, NEW e \in Execution, Executor(e)
  PROVE  ThreadPhase' /\ HandlerPhase'
<1>1. ThreadStep(e) /\ UNCHANGED loopVars
  BY DEF Executor
<1>2. PICK to \in ThreadPC, s \in Status : pc[e] # "idle" /\ Moves(e, to, s)
  BY <1>1, ThreadEffect
<1>3. pc \in [Execution -> ThreadPC] /\ status \in [Execution -> Status]
  BY DEF TypeOK, ExecutorTypeOK, ManagerTypeOK
<1>4. ThreadPhase'
  BY <1>2, <1>3 DEF ThreadPhase, Moves
<1>5. HandlerPhase'
  <2>1. loop \in Handling \ {"respond"} => request \in Execution /\ request # e
    BY <1>2 DEF HandlerPhase, TypeOK, LoopTypeOK
  <2>2. loop \in Handling \ {"respond"} =>
          pc'[request] = pc[request] /\ status'[request] = status[request]
    BY <1>2, <1>3, <2>1 DEF Moves
  <2> QED BY <1>1, <2>2 DEF HandlerPhase, loopVars, Handling
<1> QED BY <1>4, <1>5

(***************************************************************************)
(* Steps that touch neither the registry nor a program point.              *)
(***************************************************************************)
LEMMA QuietKeepsPhases ==
  ASSUME ThreadPhase, HandlerPhase, UNCHANGED <<pc, status>>,
         \/ UNCHANGED <<loop, request, contexts>>
         \/ loop' \notin Handling \ {"respond"}
         \/ /\ loop \in Handling \ {"respond"} /\ UNCHANGED <<request, contexts>>
            /\ loop \in {"check", "admit"} /\ loop' \in {"check", "admit"}
         \/ /\ loop \in {"attest", "store"} /\ UNCHANGED request
            /\ \/ loop' = "store"
               \/ loop' = "spawn" /\ request \in contexts'
  PROVE  ThreadPhase' /\ HandlerPhase'
BY DEF ThreadPhase, HandlerPhase, Handling

\* The /execute handler keeps the phases.
LEMMA HandlerKeepsPhases ==
  ASSUME TypeOK, ThreadPhase, HandlerPhase, Execute
  PROVE  ThreadPhase' /\ HandlerPhase'
<1>1. pc \in [Execution -> ThreadPC] /\ status \in [Execution -> Status]
  BY DEF TypeOK, ExecutorTypeOK, ManagerTypeOK
<1>2. loop \in Handling => request \in Execution
  BY DEF TypeOK, LoopTypeOK
<1>3. CASE \E e \in Execution : CloneRepository(e)
  BY <1>1, <1>3
  DEF CloneRepository, ThreadPhase, HandlerPhase, Fits, threadVars, managerVars,
      Handling, InBody, Terminal, ThreadPC
<1>4. CASE AcceptScript \/ AttestExecution
  <2>1. UNCHANGED <<pc, status, request, contexts>>
    BY <1>4 DEF AcceptScript, AttestExecution, Advance, executorVars, threadVars,
                managerVars
  <2>2. \/ loop = "check" /\ loop' = "admit"
        \/ loop = "attest" /\ loop' = "store"
    BY <1>4 DEF AcceptScript, AttestExecution, Advance
  <2> QED BY <2>1, <2>2, QuietKeepsPhases DEF Handling
<1>5. CASE RejectScript \/ RejectAtCapacity \/ AttestationFails \/ HandOffFails
  BY <1>5, QuietKeepsPhases
  DEF RejectScript, RejectAtCapacity, AttestationFails, HandOffFails, Abandon,
      threadVars, managerVars, Handling
<1>6. CASE AdmitExecution
  BY <1>1, <1>2, <1>6
  DEF AdmitExecution, Advance, RegisterExecution, ThreadPhase, HandlerPhase, Fits,
      threadVars, Handling, InBody
<1>7. CASE StoreContext
  BY <1>7, QuietKeepsPhases
  DEF StoreContext, Advance, executorVars, threadVars, managerVars, Handling
<1>8. CASE HandOff
  BY <1>1, <1>2, <1>8
  DEF HandOff, Advance, ThreadPhase, HandlerPhase, Fits, managerVars, Handling,
      InBody
<1>9. CASE Respond
  BY <1>9, QuietKeepsPhases
  DEF Respond, executorVars, threadVars, managerVars, Handling
<1> QED BY <1>3, <1>4, <1>5, <1>6, <1>7, <1>8, <1>9 DEF Execute

(***************************************************************************)
(* So do the sweep, polls, log streams, scripts, the clock, a crash and a  *)
(* restart.                                                                *)
(***************************************************************************)
LEMMA OthersKeepPhases ==
  ASSUME TypeOK, ThreadPhase, HandlerPhase, [Next]_vars,
         ~Execute, \A e \in Execution : ~Executor(e)
  PROVE  ThreadPhase' /\ HandlerPhase'
<1>1. pc \in [Execution -> ThreadPC] /\ status \in [Execution -> Status]
  BY DEF TypeOK, ExecutorTypeOK, ManagerTypeOK
<1>2. CASE SweepRecords
  <2>1. \A e \in Execution :
          status'[e] = status[e] \/ (status[e] \in Terminal /\ status'[e] = "removed")
    <3>1. status' = [e \in Execution |-> IF e \in Expired THEN "removed" ELSE status[e]]
      BY <1>2 DEF SweepRecords, RemoveExpired
    <3>2. \A e \in Expired : status[e] \in Terminal
      BY DEF Expired
    <3> QED BY <3>1, <3>2
  <2>2. ThreadPhase'
    BY <1>1, <1>2, <2>1
    DEF SweepRecords, ThreadPhase, Fits, threadVars, Terminal, InBody
  <2> QED BY <1>2, <2>2 DEF SweepRecords, HandlerPhase, Handling
<1>3. CASE DropContexts \/ DropBuffers \/ \E p \in Poller : Polling(p)
  BY <1>3, QuietKeepsPhases, PollingFrame
    DEF DropContexts, DropBuffers, Advance, executorVars, threadVars, managerVars, Handling
<1>4. CASE \/ UNCHANGED vars
           \/ \E e \in Execution : Age(e) \/ Script(e)
           \/ \E e \in Execution : \E s \in Stream : Streams(e, s)
  BY <1>4, QuietKeepsPhases
  DEF vars, executorVars, threadVars, managerVars, loopVars, Age,
      RetentionElapses, Script, ScriptStep, ScriptExits, ScriptWrites, Streams,
      StreamStep, StreamChunk, StreamEnds
<1>5. CASE Crash
  BY <1>1, <1>5
  DEF Crash, ForgetRecords, ThreadPhase, HandlerPhase, Fits, Handling, InBody
<1>6. CASE Restart
  BY <1>6, QuietKeepsPhases DEF Restart, threadVars, managerVars
<1> QED BY <1>2, <1>3, <1>4, <1>5, <1>6 DEF Next, Cleanup

(***************************************************************************)
(* Where a thread or the handler stands decides the status of its record.  *)
(***************************************************************************)
THEOREM Phases == Spec => [](ThreadPhase /\ HandlerPhase)
<1>1. Init => ThreadPhase /\ HandlerPhase
  BY DEF Init, ThreadInit, ManagerInit, ThreadPhase, HandlerPhase, Fits, Handling,
         InBody
<1>2. TypeOK /\ ThreadPhase /\ HandlerPhase /\ [Next]_vars
        => (ThreadPhase /\ HandlerPhase)'
  BY ThreadKeepsPhases, HandlerKeepsPhases, OthersKeepPhases
<1> QED BY <1>1, <1>2, TypeCorrect, PTL DEF Spec
-----------------------------------------------------------------------------
(***************************************************************************)
(* Which steps change the registry.                                        *)
(***************************************************************************)
LEMMA RegistryEffect ==
  ASSUME [Next]_vars
  PROVE  \/ UNCHANGED <<status, exitCode, total, successful, failed>>
         \/ AdmitExecution
         \/ \E e \in Execution : Executor(e)
         \/ SweepRecords
         \/ Crash
<1>1. CASE Execute \/ Cleanup
  BY <1>1
  DEF Execute, CloneRepository, AcceptScript, RejectScript, RejectAtCapacity,
      AttestExecution, AttestationFails, StoreContext, HandOff, HandOffFails,
      Respond, Cleanup, DropContexts, DropBuffers, executorVars, managerVars
<1>2. CASE \E p \in Poller : Polling(p)
  <2>1. UNCHANGED executorVars
    BY <1>2, PollingFrame
  <2> QED BY <2>1 DEF executorVars, managerVars
<1>3. CASE UNCHANGED vars \/ Restart \/ \E e \in Execution : Age(e)
  BY <1>3 DEF vars, executorVars, managerVars, Restart, Age, RetentionElapses
<1>4. CASE \/ \E e \in Execution : Script(e)
           \/ \E e \in Execution : \E s \in Stream : Streams(e, s)
  BY <1>4
  DEF managerVars, Script, ScriptStep, ScriptExits, ScriptWrites, Streams, StreamStep,
      StreamChunk, StreamEnds
<1> QED BY <1>1, <1>2, <1>3, <1>4 DEF Next

\* The records a sweep removes are terminal, the others stay as they are.
LEMMA SweepEffect ==
  ASSUME SweepRecords \/ RemoveExpired
  PROVE  \A e \in Execution :
           \/ status'[e] = status[e] /\ exitCode'[e] = exitCode[e] /\ e \notin Expired
           \/ status[e] \in Terminal /\ status'[e] = "removed" /\ e \in Expired
<1>1. /\ status' = [e \in Execution |-> IF e \in Expired THEN "removed" ELSE status[e]]
      /\ exitCode' = [e \in Execution |-> IF e \in Expired THEN NoExit ELSE exitCode[e]]
  BY DEF SweepRecords, RemoveExpired
<1>2. \A e \in Expired : status[e] \in Terminal
  BY DEF Expired
<1> QED BY <1>1, <1>2

(***************************************************************************)
(* The arithmetic of a verdict: one active execution less, one success or  *)
(* failure more.                                                           *)
(***************************************************************************)
LEMMA Balance ==
  ASSUME NEW t \in Int, NEW s \in Int, NEW f \in Int, NEW n \in Int,
         t = s + f + n
  PROVE  /\ t = (s + 1) + f + (n - 1)
         /\ t = s + (f + 1) + (n - 1)
OBVIOUS

(***************************************************************************)
(* Each step keeps the number of active records within the limit and the   *)
(* counters in balance.                                                    *)
(***************************************************************************)
LEMMA CountsStep ==
  ASSUME TypeOK, TypeOK', ThreadPhase, HandlerPhase, [Next]_vars,
         ConcurrencyLimit, MetricsLaw
  PROVE  ConcurrencyLimit' /\ MetricsLaw'
<1>1. IsFiniteSet(ActiveSet) /\ Cardinality(ActiveSet) \in Nat
  BY ExecutionsAssumption, FS_Subset, FS_CardinalityType DEF ActiveSet
<1>2. /\ total \in Nat /\ successful \in Nat /\ failed \in Nat
      /\ successful' \in Nat /\ failed' \in Nat /\ MaxConcurrent \in Nat \ {0}
      /\ status \in [Execution -> Status]
  BY ManagerAssumption DEF TypeOK, ManagerTypeOK
<1>3. ASSUME ActiveSet' = ActiveSet, UNCHANGED <<total, successful, failed>>
      PROVE  ConcurrencyLimit' /\ MetricsLaw'
  BY <1>3 DEF ConcurrencyLimit, MetricsLaw
<1>4. CASE UNCHANGED <<status, exitCode, total, successful, failed>>
  BY <1>3, <1>4 DEF ActiveSet
<1>5. CASE AdmitExecution
  <2>1. request \in Execution /\ request \notin ActiveSet
    BY <1>5 DEF AdmitExecution, Advance, HandlerPhase, TypeOK, LoopTypeOK, Handling,
                ActiveSet, Active
  <2>2. ActiveSet' = ActiveSet \cup {request}
    BY <1>2, <1>5, <2>1 DEF AdmitExecution, RegisterExecution, ActiveSet, Active
  <2>3. Cardinality(ActiveSet') = Cardinality(ActiveSet) + 1
    BY <1>1, <2>1, <2>2, FS_AddElement
  <2>4. Cardinality(ActiveSet) < MaxConcurrent
    BY <1>1, <1>2, <1>5 DEF AdmitExecution, AtCapacity
  <2>5. total' = total + 1 /\ UNCHANGED <<successful, failed>>
    BY <1>5 DEF AdmitExecution, RegisterExecution
  <2>6. ConcurrencyLimit'
    BY <1>1, <1>2, <2>3, <2>4 DEF ConcurrencyLimit
  <2>7. MetricsLaw'
    BY <1>1, <1>2, <2>3, <2>5 DEF MetricsLaw
  <2> QED BY <2>6, <2>7
<1>6. CASE \E e \in Execution : Executor(e)
  <2>1. PICK e \in Execution : ThreadStep(e)
    BY <1>6 DEF Executor
  <2>2. PICK to \in ThreadPC, s \in Status : Moves(e, to, s)
    BY <2>1, ThreadEffect
  <2>3. status' = [status EXCEPT ![e] = s]
    BY <2>2 DEF Moves
  <2>4. CASE (s = status[e] /\ Keeps) \/ Starts(e, s)
    <3>1. ActiveSet' = ActiveSet
      BY <1>2, <2>3, <2>4 DEF ActiveSet, Active, Starts
    <3>2. UNCHANGED <<total, successful, failed>>
      BY <2>4 DEF Keeps, Starts, managerVars
    <3> QED BY <1>3, <3>1, <3>2
  <2>5. CASE Ends(e, s)
    <3>1. e \in ActiveSet /\ ActiveSet' = ActiveSet \ {e}
      BY <1>2, <2>3, <2>5 DEF ActiveSet, Active, Terminal, Ends
    <3>2. Cardinality(ActiveSet') = Cardinality(ActiveSet) - 1
      BY <1>1, <3>1, FS_RemoveElement
    <3>3. ConcurrencyLimit'
      BY <1>1, <1>2, <3>2 DEF ConcurrencyLimit
    <3>4. CASE successful' = successful + 1 /\ failed' = failed
      <4>1. total = (successful + 1) + failed + (Cardinality(ActiveSet) - 1)
        BY <1>1, <1>2, Balance DEF MetricsLaw
      <4> QED BY <2>5, <3>2, <3>3, <3>4, <4>1 DEF Ends, MetricsLaw
    <3>5. CASE successful' = successful /\ failed' = failed + 1
      <4>1. total = successful + (failed + 1) + (Cardinality(ActiveSet) - 1)
        BY <1>1, <1>2, Balance DEF MetricsLaw
      <4> QED BY <2>5, <3>2, <3>3, <3>5, <4>1 DEF Ends, MetricsLaw
    <3> QED BY <2>5, <3>3, <3>4, <3>5 DEF Ends
  <2> QED BY <2>2, <2>4, <2>5 DEF Moves
<1>7. CASE SweepRecords
  <2>1. ActiveSet' = ActiveSet
    BY <1>7, SweepEffect DEF ActiveSet, Active, Terminal
  <2> QED BY <1>3, <1>7, <2>1 DEF SweepRecords, RemoveExpired
<1>8. CASE Crash
  <2>1. ActiveSet' = {}
    BY <1>8 DEF Crash, ForgetRecords, ActiveSet, Active
  <2>2. Cardinality(ActiveSet') = 0
    BY <2>1, FS_EmptySet
  <2> QED BY <1>2, <1>8, <2>2 DEF Crash, ForgetRecords, ConcurrencyLimit, MetricsLaw
<1> QED BY <1>4, <1>5, <1>6, <1>7, <1>8, RegistryEffect

\* An empty registry is within the limit and its counters balance.
LEMMA CountsInit == Init => ConcurrencyLimit /\ MetricsLaw
<1> SUFFICES ASSUME Init PROVE ConcurrencyLimit /\ MetricsLaw
  OBVIOUS
<1>1. ActiveSet = {}
  BY DEF Init, ManagerInit, ActiveSet, Active
<1>2. Cardinality(ActiveSet) = 0
  BY <1>1, FS_EmptySet
<1> QED BY <1>2, ManagerAssumption
        DEF Init, ManagerInit, ConcurrencyLimit, MetricsLaw

(***************************************************************************)
(* The number of queued and running records never exceeds                  *)
(* max_concurrent_executions: threads only move records from queued to     *)
(* running to a verdict, so that the check of try_create_execution, made   *)
(* once and under the same lock as the insertion, is enough.               *)
(***************************************************************************)
THEOREM LimitHolds == Spec => []ConcurrencyLimit
<1>1. (TypeOK /\ ThreadPhase /\ HandlerPhase) /\ TypeOK' /\ [Next]_vars
        /\ (ConcurrencyLimit /\ MetricsLaw)
        => (ConcurrencyLimit /\ MetricsLaw)'
  BY CountsStep
<1> QED BY <1>1, CountsInit, TypeCorrect, Phases, PTL DEF Spec

(***************************************************************************)
(* Every execution that was created is active, succeeded or failed, and is *)
(* counted exactly once, whatever the threads and the sweep do.            *)
(***************************************************************************)
THEOREM MetricsHold == Spec => []MetricsLaw
<1>1. (TypeOK /\ ThreadPhase /\ HandlerPhase) /\ TypeOK' /\ [Next]_vars
        /\ (ConcurrencyLimit /\ MetricsLaw)
        => (ConcurrencyLimit /\ MetricsLaw)'
  BY CountsStep
<1> QED BY <1>1, CountsInit, TypeCorrect, Phases, PTL DEF Spec

(***************************************************************************)
(* A verdict is final: no step changes the status or the exit code of a    *)
(* terminal record, except the one that removes it.                        *)
(***************************************************************************)
VerdictKept ==
  \A e \in Execution : status[e] \in Terminal =>
    \/ status'[e] = "removed"
    \/ status'[e] = status[e] /\ exitCode'[e] = exitCode[e]

(***************************************************************************)
(* Only an admission, a thread, a sweep or a crash touches the registry,   *)
(* and none of them rewrites a verdict.                                    *)
(***************************************************************************)
LEMMA VerdictStep ==
  ASSUME TypeOK, ThreadPhase, HandlerPhase, [Next]_vars
  PROVE  VerdictKept
<1>1. status \in [Execution -> Status] /\ exitCode \in [Execution -> ExitCode \cup {NoExit}]
  BY DEF TypeOK, ManagerTypeOK
<1>2. CASE UNCHANGED <<status, exitCode, total, successful, failed>>
  BY <1>2 DEF VerdictKept
<1>3. CASE AdmitExecution
  <2>1. request \in Execution /\ status[request] = "none"
    BY <1>3 DEF AdmitExecution, Advance, HandlerPhase, TypeOK, LoopTypeOK, Handling
  <2> QED BY <1>1, <1>3, <2>1
          DEF AdmitExecution, RegisterExecution, VerdictKept, Terminal
<1>4. CASE \E e \in Execution : Executor(e)
  <2>1. PICK e \in Execution : ThreadStep(e)
    BY <1>4 DEF Executor
  <2>2. PICK to \in ThreadPC, s \in Status : Moves(e, to, s)
    BY <2>1, ThreadEffect
  <2>3. status' = [status EXCEPT ![e] = s]
    BY <2>2 DEF Moves
  <2>4. CASE s = status[e] /\ Keeps
    BY <1>1, <2>3, <2>4 DEF Keeps, managerVars, VerdictKept
  <2>5. CASE Starts(e, s)
    BY <1>1, <2>3, <2>5 DEF Starts, VerdictKept, Terminal
  <2>6. CASE Ends(e, s)
    BY <1>1, <2>3, <2>6 DEF Ends, VerdictKept, Terminal
  <2> QED BY <2>2, <2>4, <2>5, <2>6 DEF Moves
<1>5. CASE SweepRecords
  BY <1>5, SweepEffect DEF VerdictKept
<1>6. CASE Crash
  BY <1>6 DEF Crash, ForgetRecords, VerdictKept, Terminal
<1> QED BY <1>2, <1>3, <1>4, <1>5, <1>6, RegistryEffect

(***************************************************************************)
(* A client that has seen a verdict never sees another one for the same    *)
(* execution: no thread calls update_status on a record that is terminal.  *)
(***************************************************************************)
THEOREM VerdictsAreFinal == Spec => VerdictFinal
<1>1. (TypeOK /\ ThreadPhase /\ HandlerPhase) /\ [Next]_vars => [VerdictKept]_vars
  BY VerdictStep
<1>2. [][VerdictKept]_vars => VerdictFinal
  BY DEF VerdictKept, VerdictFinal
<1> QED BY <1>1, <1>2, TypeCorrect, Phases, PTL DEF Spec
-----------------------------------------------------------------------------
(***************************************************************************)
(* A thread only moves forward.  Nothing in _execute_in_container loops,   *)
(* so the points a thread can still reach give each of its steps a lower   *)
(* number than the one before.                                             *)
(***************************************************************************)
Ahead(at) ==
  CASE at = "idle" -> 18       [] at = "lookup" -> 17   [] at = "buffer" -> 16
    [] at = "markRunning" -> 15 [] at = "create" -> 14  [] at = "start" -> 13
    [] at = "streams" -> 12    [] at = "wait" -> 11     [] at = "stop" -> 10
    [] at = "join" -> 9        [] at = "complete" -> 8  [] at = "finish" -> 7
    [] at = "exception" -> 6   [] at = "recordFailure" -> 5 [] at = "untrack" -> 4
    [] at = "remove" -> 3      [] at = "rmdir" -> 2     [] at = "done" -> 1

LEMMA ThreadMovesAhead ==
  ASSUME TypeOK, NEW e \in Execution, ThreadStep(e)
  PROVE  /\ Ahead(pc'[e]) < Ahead(pc[e])
         /\ \A x \in Execution \ {e} : pc'[x] = pc[x]
<1>1. pc \in [Execution -> ThreadPC]
  BY DEF TypeOK, ExecutorTypeOK
<1>2. ASSUME NEW from, NEW to, Goto(e, from, to)
      PROVE  pc[e] = from /\ pc'[e] = to /\ \A x \in Execution \ {e} : pc'[x] = pc[x]
  BY <1>1, <1>2 DEF Goto
<1>3. CASE LookUpRecord(e) \/ CreateOutputBuffer(e) \/ MarkRunning(e) \/ CreateContainer(e)
  BY <1>2, <1>3 DEF LookUpRecord, CreateOutputBuffer, MarkRunning, CreateContainer, Ahead
<1>4. CASE \/ CreateContainerFails(e) \/ StartContainer(e) \/ StartContainerFails(e)
           \/ StartStreams(e) \/ StartStreamsFails(e)
  BY <1>2, <1>4 DEF CreateContainerFails, StartContainer, StartContainerFails,
                    StartStreams, StartStreamsFails, Ahead
<1>5. CASE WaitReturns(e) \/ WaitRaises(e) \/ StopContainer(e) \/ StopFails(e)
  BY <1>2, <1>5 DEF WaitReturns, WaitRaises, StopContainer, StopFails, Ahead
<1>6. CASE JoinStreams(e) \/ MarkComplete(e) \/ RecordVerdict(e)
  BY <1>2, <1>6 DEF JoinStreams, MarkComplete, RecordVerdict, Ahead
<1>7. CASE HandleException(e) \/ RecordFailure(e) \/ Untrack(e)
  BY <1>2, <1>7 DEF HandleException, RecordFailure, Untrack, Ahead
<1>8. CASE RemoveContainer(e) \/ RemoveContainerFails(e) \/ RemoveCloneDir(e)
  BY <1>2, <1>8 DEF RemoveContainer, RemoveContainerFails, RemoveCloneDir, Ahead
<1> QED BY <1>3, <1>4, <1>5, <1>6, <1>7, <1>8 DEF ThreadStep

(***************************************************************************)
(* Only its own steps move a thread that has been started, until a crash   *)
(* ends it.                                                                *)
(***************************************************************************)
LEMMA OthersLeaveThread ==
  ASSUME TypeOK, HandlerPhase, [Next]_vars, ~Crash, NEW e \in Execution,
         pc[e] # "idle", ~Executor(e)
  PROVE  pc'[e] = pc[e]
<1>1. pc \in [Execution -> ThreadPC]
  BY DEF TypeOK, ExecutorTypeOK
<1>2. CASE Execute
  <2>1. CASE HandOff
    <3>1. pc[request] = "idle" /\ pc' = [pc EXCEPT ![request] = "lookup"]
      BY <2>1 DEF HandOff, Advance, HandlerPhase, Handling
    <3> QED BY <1>1, <3>1
  <2> QED
    BY <1>2, <2>1
    DEF Execute, CloneRepository, AcceptScript, RejectScript, AdmitExecution, Advance,
        RejectAtCapacity, AttestExecution, AttestationFails, StoreContext, HandOffFails,
        Respond, Abandon, executorVars, threadVars
<1>3. CASE Cleanup \/ Restart
  BY <1>3 DEF Cleanup, SweepRecords, DropContexts, DropBuffers, Restart, Advance,
              executorVars, threadVars
<1>4. CASE \E p \in Poller : Polling(p)
  BY <1>4, PollingFrame DEF executorVars, threadVars
<1>5. CASE \E x \in Execution : Executor(x)
  BY <1>5, ThreadMovesAhead DEF Executor
<1>6. CASE \/ UNCHANGED vars
           \/ \E x \in Execution : Age(x) \/ Script(x)
           \/ \E x \in Execution : \E s \in Stream : Streams(x, s)
  BY <1>6
  DEF vars, executorVars, threadVars, Age, RetentionElapses, Script, ScriptStep, ScriptExits,
      ScriptWrites, Streams, StreamStep, StreamChunk, StreamEnds
<1> QED BY <1>2, <1>3, <1>4, <1>5, <1>6 DEF Next

(***************************************************************************)
(* What EveryExecutionEnds rests on besides fairness: a started thread     *)
(* takes at most 16 steps, and no step of another thread, of the event     *)
(* loop, of a client or of the container puts it back.                     *)
(***************************************************************************)
ThreadsOnlyAdvance ==
  \A e \in Execution :
    /\ Executor(e) => Ahead(pc'[e]) < Ahead(pc[e])
    /\ pc[e] # "idle" /\ ~Executor(e) => pc'[e] = pc[e] \/ Crash

THEOREM ThreadsAdvance == Spec => [][ThreadsOnlyAdvance]_vars
<1>1. TypeOK /\ ThreadPhase /\ HandlerPhase /\ [Next]_vars => ThreadsOnlyAdvance
  BY ThreadMovesAhead, OthersLeaveThread DEF ThreadsOnlyAdvance, Executor
<1> QED BY <1>1, TypeCorrect, Phases, PTL DEF Spec
=============================================================================
