---------------------- MODULE ExecutionRefinementProofs ----------------------
(***************************************************************************)
(* The answer of an execution, in its output buffer, and the verdict, in   *)
(* its record, agree; and with them the executor service implements the    *)
(* lifecycle of ExecutionLifecycle.                                        *)
(*                                                                         *)
(* The argument: the point a thread has reached says what its buffer       *)
(* holds (BufferPhase).  It publishes its answer in `complete` or in the   *)
(* handler of an exception, and the very next step on either path records  *)
(* the verdict that goes with this answer.  It publishes once, so nothing  *)
(* a poll has shown to a client is ever taken back (Polls).  A buffer      *)
(* holds, in order, the bytes its log-stream threads have taken, unless it *)
(* is full (TextFits); so a poll shows them in their places.               *)
(***************************************************************************)
EXTENDS ExecutionStoreProofs

Answers == BufferPhase /\ VerdictAgreement

\* BufferPhase and VerdictAgreement, of one execution.
BufferFits(e) ==
  /\ pc[e] \in InBody \cup {"markRunning"} => HasBuffer(e)
  /\ pc[e] = "finish" => buffer[e].complete /\ buffer[e].exitCode = FinalCode(e)
  /\ pc[e] = "recordFailure" => buffer[e].complete /\ buffer[e].exitCode = -1

VerdictFits(e) ==
  status[e] \in Terminal =>
    /\ HasBuffer(e)
    /\ buffer[e].complete
    /\ buffer[e].exitCode = exitCode[e]
    /\ (status[e] = "completed") <=> (exitCode[e] = 0)

(***************************************************************************)
(* Both invariants speak of each execution on its own.                     *)
(***************************************************************************)
LEMMA AnswersPerExecution ==
  Answers <=> \A e \in Execution : BufferFits(e) /\ VerdictFits(e)
BY DEF Answers, BufferPhase, VerdictAgreement, BufferFits, VerdictFits

\* The same after a step.
LEMMA AnswersPerExecutionNext ==
  Answers' <=> \A e \in Execution : BufferFits(e)' /\ VerdictFits(e)'
BY DEF Answers, BufferPhase, VerdictAgreement, BufferFits, VerdictFits

\* What a step may do to an execution without touching its answer.
Untouched(e) ==
  /\ pc'[e] = pc[e]
  /\ status'[e] = status[e] /\ exitCode'[e] = exitCode[e]
  /\ exitSeen'[e] = exitSeen[e]
  /\ HasBuffer(e) => /\ HasBuffer(e)'
                     /\ buffer'[e].complete = buffer[e].complete
                     /\ buffer'[e].exitCode = buffer[e].exitCode

(***************************************************************************)
(* An execution whose state a step leaves alone still fits.                *)
(***************************************************************************)
LEMMA UntouchedFits ==
  ASSUME NEW e \in Execution, BufferFits(e), VerdictFits(e), Untouched(e)
  PROVE  BufferFits(e)' /\ VerdictFits(e)'
<1>1. BufferFits(e)'
  <2>1. FinalCode(e)' = FinalCode(e)
    BY DEF Untouched, FinalCode
  <2> QED BY <2>1 DEF BufferFits, Untouched, InBody
<1>2. VerdictFits(e)'
  BY DEF VerdictFits, Untouched
<1> QED BY <1>1, <1>2
-----------------------------------------------------------------------------
(***************************************************************************)
(* A step of thread e leaves every other execution alone.                  *)
(***************************************************************************)
LEMMA ThreadLeavesOthers ==
  ASSUME Phased, NEW e \in Execution, ThreadStep(e), NEW x \in Execution \ {e}
  PROVE  Untouched(x)
<1>1. PICK to \in ThreadPC, s \in Status : Moves(e, to, s)
  BY ThreadEffect DEF Phased
<1>2. /\ pc \in [Execution -> ThreadPC] /\ status \in [Execution -> Status]
      /\ exitSeen \in [Execution -> {0, 1, NoExit}]
  BY DEF Phased, TypeOK, ExecutorTypeOK, ManagerTypeOK
<1>3. pc'[x] = pc[x] /\ status'[x] = status[x]
  BY <1>1, <1>2 DEF Moves
<1>4. exitCode'[x] = exitCode[x]
  BY <1>1 DEF Moves, Keeps, managerVars, Starts, Ends
<1>5. exitSeen'[x] = exitSeen[x]
  BY <1>2 DEF ThreadStep, LookUpRecord, CreateOutputBuffer, MarkRunning, CreateContainer,
       CreateContainerFails, StartContainer, StartContainerFails, StartStreams,
       StartStreamsFails, WaitReturns, WaitRaises, StopContainer, StopFails,
       JoinStreams, MarkComplete, RecordVerdict, HandleException, RecordFailure,
       Untrack, RemoveContainer, RemoveContainerFails, RemoveCloneDir
<1>6. HasBuffer(x) => HasBuffer(x)' /\ buffer'[x] = buffer[x]
  <2>1. CASE CreateOutputBuffer(e)
    BY <2>1 DEF CreateOutputBuffer, CreateBuffer, HasBuffer
  <2>2. CASE (MarkComplete(e) \/ HandleException(e)) /\ HasBuffer(e)
    BY <2>2 DEF MarkComplete, HandleException, MarkBufferComplete, HasBuffer
  <2> QED BY <2>1, <2>2, ThreadBuffers DEF HasBuffer
<1> QED BY <1>3, <1>4, <1>5, <1>6 DEF Untouched

(***************************************************************************)
(* A step of its own thread that writes neither store and does not move it *)
(* to a point where an answer is due keeps an execution fitting.           *)
(***************************************************************************)
LEMMA QuietFits ==
  ASSUME Phased, NEW e \in Execution, BufferFits(e), VerdictFits(e),
         NEW to \in ThreadPC \ {"finish", "recordFailure"},
         pc' = [pc EXCEPT ![e] = to], UNCHANGED <<managerVars, buffer>>,
         to \in InBody \cup {"markRunning"} => pc[e] \in InBody \cup {"markRunning"}
  PROVE  BufferFits(e)' /\ VerdictFits(e)'
<1>1. pc'[e] = to
  BY DEF Phased, TypeOK, ExecutorTypeOK
<1> QED BY <1>1 DEF BufferFits, VerdictFits, HasBuffer, managerVars

(***************************************************************************)
(* The answer and the verdict along a step of the thread itself.           *)
(***************************************************************************)
LEMMA ThreadFits ==
  ASSUME Phased, NEW e \in Execution, BufferFits(e), VerdictFits(e), ThreadStep(e)
  PROVE  BufferFits(e)' /\ VerdictFits(e)'
<1> USE DEF Goto
<1>1. /\ pc \in [Execution -> ThreadPC] /\ status \in [Execution -> Status]
      /\ exitCode \in [Execution -> ExitCode \cup {NoExit}]
      /\ exitSeen[e] \in {0, 1, NoExit} /\ DOMAIN buffer \subseteq Execution
      /\ Fits(pc[e], status[e])
  BY DEF Phased, TypeOK, ExecutorTypeOK, ManagerTypeOK, CollectorTypeOK, ThreadPhase
<1>2. CASE LookUpRecord(e)
  BY <1>2, QuietFits DEF LookUpRecord, ThreadPC, InBody
<1>3. CASE CreateOutputBuffer(e)
  BY <1>1, <1>3 DEF CreateOutputBuffer, CreateBuffer, BufferFits, VerdictFits, HasBuffer,
                    Fits, Terminal, InBody, managerVars
<1>4. CASE MarkRunning(e)
  BY <1>1, <1>4 DEF MarkRunning, UpdateStatus, BufferFits, VerdictFits, HasBuffer,
                    HasRecord, Recorded, Active, Fits, Terminal, InBody
<1>5. CASE \/ CreateContainer(e) \/ CreateContainerFails(e)
           \/ StartContainer(e) \/ StartContainerFails(e)
           \/ StartStreams(e) \/ StartStreamsFails(e)
  BY <1>5, QuietFits
  DEF CreateContainer, CreateContainerFails, StartContainer, StartContainerFails,
      StartStreams, StartStreamsFails, ThreadPC, InBody
<1>6. CASE \/ WaitReturns(e) \/ WaitRaises(e)
           \/ StopContainer(e) \/ StopFails(e) \/ JoinStreams(e)
  BY <1>6, QuietFits
  DEF WaitReturns, WaitRaises, StopContainer, StopFails, JoinStreams, ThreadPC, InBody
<1>7. CASE MarkComplete(e)
  <2>1. HasBuffer(e) /\ pc[e] = "complete"
    BY <1>7 DEF MarkComplete, BufferFits, InBody
  <2>2. /\ pc'[e] = "finish" /\ exitSeen' = exitSeen /\ status' = status
        /\ buffer' = [buffer EXCEPT ![e].complete = TRUE, ![e].exitCode = FinalCode(e)]
    BY <1>1, <1>7, <2>1 DEF MarkComplete, MarkBufferComplete, managerVars
  <2>3. buffer[e] \in Buffer
    BY <2>1 DEF HasBuffer, Phased, TypeOK, CollectorTypeOK
  <2>4. buffer'[e].complete /\ buffer'[e].exitCode = FinalCode(e)
    BY <2>1, <2>2, <2>3 DEF HasBuffer, Buffer
  <2>5. FinalCode(e)' = FinalCode(e)
    BY <2>2 DEF FinalCode
  <2> QED BY <1>1, <2>1, <2>2, <2>4, <2>5
          DEF BufferFits, VerdictFits, HasBuffer, Fits, Terminal, InBody
<1>8. CASE RecordVerdict(e)
  <2>1. /\ pc[e] = "finish" /\ pc'[e] = "untrack" /\ buffer' = buffer
        /\ status'[e] = FinalStatus(e) /\ exitCode'[e] = FinalCode(e)
    BY <1>1, <1>8 DEF RecordVerdict, UpdateStatus, HasRecord, Recorded, Active, Fits,
                      InBody, FinalStatus, Terminal
  <2>2. (FinalStatus(e) = "completed") <=> (FinalCode(e) = 0)
    BY <1>1, ExecutionsAssumption DEF FinalStatus, FinalCode, ExitCode
  <2> QED BY <2>1, <2>2 DEF BufferFits, VerdictFits, HasBuffer, InBody
<1>9. CASE HandleException(e)
  <2>1. HasBuffer(e) /\ pc[e] = "exception"
    BY <1>9 DEF HandleException, BufferFits, InBody
  <2>2. /\ pc'[e] = "recordFailure" /\ status' = status
        /\ buffer' = [buffer EXCEPT ![e].complete = TRUE, ![e].exitCode = -1]
    BY <1>1, <1>9, <2>1 DEF HandleException, MarkBufferComplete, managerVars
  <2>3. buffer[e] \in Buffer
    BY <2>1 DEF HasBuffer, Phased, TypeOK, CollectorTypeOK
  <2>4. buffer'[e].complete /\ buffer'[e].exitCode = -1
    BY <2>1, <2>2, <2>3 DEF HasBuffer, Buffer
  <2> QED BY <1>1, <2>1, <2>2, <2>4
          DEF BufferFits, VerdictFits, HasBuffer, Fits, Terminal, InBody
<1>10. CASE RecordFailure(e)
  <2>1. /\ pc[e] = "recordFailure" /\ pc'[e] = "untrack" /\ buffer' = buffer
        /\ status'[e] = "failed" /\ exitCode'[e] = -1
    BY <1>1, <1>10 DEF RecordFailure, UpdateStatus, HasRecord, Recorded, Active, Fits,
                       InBody, Terminal
  <2> QED BY <2>1 DEF BufferFits, VerdictFits, HasBuffer, InBody
<1>11. CASE \/ Untrack(e) \/ RemoveContainer(e) \/ RemoveContainerFails(e)
            \/ RemoveCloneDir(e)
  BY <1>11, QuietFits
  DEF Untrack, RemoveContainer, RemoveContainerFails, RemoveCloneDir, ThreadPC, InBody
<1> QED BY <1>2, <1>3, <1>4, <1>5, <1>6, <1>7, <1>8, <1>9, <1>10, <1>11 DEF ThreadStep
-----------------------------------------------------------------------------
(***************************************************************************)
(* Where the event loop and the environment leave an execution.            *)
(***************************************************************************)
\* An execution that has neither a thread nor a verdict after the step.
Blank(e) ==
  /\ pc'[e] \notin InBody \cup {"markRunning"}
  /\ status'[e] \notin Terminal

(***************************************************************************)
(* With neither a thread at work nor a verdict nothing is asked of a       *)
(* buffer.                                                                 *)
(***************************************************************************)
LEMMA BlankFits ==
  ASSUME NEW e \in Execution, Blank(e)
  PROVE  BufferFits(e)' /\ VerdictFits(e)'
BY DEF Blank, BufferFits, VerdictFits, InBody

(***************************************************************************)
(* The /execute handler touches the answer of no execution: the one it     *)
(* works for has neither a thread nor a verdict.                           *)
(***************************************************************************)
LEMMA HandlerAnswers ==
  ASSUME Phased, Execute, NEW e \in Execution
  PROVE  Untouched(e) \/ Blank(e)
<1>1. CASE UNCHANGED <<pc, status, exitCode, exitSeen, buffer>>
  BY <1>1 DEF Untouched, HasBuffer
<1>2. CASE AdmitExecution
  <2>1. /\ request \in Execution /\ pc[request] = "idle"
        /\ UNCHANGED <<pc, exitCode, exitSeen, buffer>>
        /\ status' = [status EXCEPT ![request] = "queued"]
    BY <1>2 DEF AdmitExecution, Advance, RegisterExecution, Phased, HandlerPhase,
                TypeOK, LoopTypeOK, Handling, threadVars
  <2>2. status \in [Execution -> Status]
    BY DEF Phased, TypeOK, ManagerTypeOK
  <2> QED BY <2>1, <2>2 DEF Untouched, Blank, HasBuffer, InBody, Terminal
<1>3. CASE HandOff
  <2>1. /\ request \in Execution /\ status[request] = "queued"
        /\ UNCHANGED <<status, exitCode, exitSeen, buffer>>
        /\ pc' = [pc EXCEPT ![request] = "lookup"]
    BY <1>3 DEF HandOff, Advance, Phased, HandlerPhase, TypeOK, LoopTypeOK, Handling,
                managerVars
  <2>2. pc \in [Execution -> ThreadPC]
    BY DEF Phased, TypeOK, ExecutorTypeOK
  <2> QED BY <2>1, <2>2 DEF Untouched, Blank, HasBuffer, InBody, Terminal
<1>4. \/ UNCHANGED <<pc, status, exitCode, exitSeen, buffer>>
      \/ AdmitExecution
      \/ HandOff
  BY DEF Execute, CloneRepository, AcceptScript, RejectScript, RejectAtCapacity,
         AttestExecution, AttestationFails, StoreContext, HandOffFails, Respond,
         Abandon, executorVars, threadVars, managerVars
<1> QED BY <1>1, <1>2, <1>3, <1>4

(***************************************************************************)
(* The sweep removes records, then the buffers of records it has removed.  *)
(***************************************************************************)
LEMMA SweepAnswers ==
  ASSUME Phased, Stores, Cleanup, NEW e \in Execution
  PROVE  \/ Untouched(e)
         \/ Blank(e)
<1>1. status[e] \in Terminal \cup {"removed"} =>
        pc[e] \notin InBody \cup {"markRunning"}
  BY DEF Phased, ThreadPhase, Fits, InBody, Terminal
<1>2. CASE SweepRecords
  <2>1. UNCHANGED <<pc, exitSeen, buffer>>
    BY <1>2 DEF SweepRecords, threadVars
  <2>2. exitCode'[e] = IF e \in Expired THEN NoExit ELSE exitCode[e]
    BY <1>2 DEF SweepRecords, RemoveExpired
  <2>3. \/ status'[e] = status[e] /\ e \notin Expired
        \/ status[e] \in Terminal /\ status'[e] = "removed"
    BY <1>2, SweepEffect
  <2> QED BY <1>1, <2>1, <2>2, <2>3 DEF Untouched, Blank, HasBuffer, Terminal
<1>3. CASE DropContexts
  BY <1>3 DEF DropContexts, Advance, executorVars, threadVars, managerVars, Untouched,
              HasBuffer
<1>4. CASE DropBuffers
  <2>1. /\ UNCHANGED <<pc, exitSeen, status, exitCode>>
        /\ DOMAIN buffer' = DOMAIN buffer \ expiring
        /\ \A x \in DOMAIN buffer' : buffer'[x] = buffer[x]
    BY <1>4 DEF DropBuffers, RemoveOutputs, threadVars, managerVars
  <2>2. CASE e \in expiring
    BY <1>1, <2>1, <2>2 DEF Stores, SweepPhase, Blank, Terminal
  <2>3. CASE e \notin expiring
    BY <2>1, <2>3 DEF Untouched, HasBuffer
  <2> QED BY <2>2, <2>3
<1> QED BY <1>2, <1>3, <1>4 DEF Cleanup

(***************************************************************************)
(* Polls, log streams, scripts and the clock touch no answer; a crash      *)
(* leaves none.                                                            *)
(***************************************************************************)
LEMMA OtherAnswers ==
  ASSUME Phased, [Next]_vars, ~Execute, ~Cleanup,
         \A x \in Execution : ~Executor(x), NEW e \in Execution
  PROVE  Untouched(e) \/ Blank(e)
<1>1. CASE \E p \in Poller : Polling(p)
  <2>1. UNCHANGED executorVars
    BY <1>1, PollingFrame
  <2> QED BY <2>1 DEF executorVars, threadVars, managerVars, Untouched, HasBuffer
<1>2. CASE \E x \in Execution : \E s \in Stream : Streams(x, s)
  BY <1>2, StreamBuffers DEF Untouched, HasBuffer
<1>3. CASE UNCHANGED vars \/ Restart \/ \E x \in Execution : Age(x) \/ Script(x)
  <2>1. UNCHANGED <<pc, exitSeen, status, exitCode, buffer>>
    BY <1>3 DEF vars, executorVars, managerVars, threadVars, Restart, Age,
                RetentionElapses, Script, ScriptStep, ScriptExits, ScriptWrites
  <2> QED BY <2>1 DEF Untouched, HasBuffer
<1>4. CASE Crash
  BY <1>4 DEF Crash, ForgetRecords, Blank, InBody, Terminal
<1> QED BY <1>1, <1>2, <1>3, <1>4 DEF Next
-----------------------------------------------------------------------------
\* Every step keeps buffers and verdicts in agreement.
LEMMA AnswersStep ==
  ASSUME Phased, Stores, Answers, [Next]_vars
  PROVE  Answers'
<1>1. ASSUME NEW e \in Execution
      PROVE  BufferFits(e)' /\ VerdictFits(e)'
  <2>1. BufferFits(e) /\ VerdictFits(e)
    BY AnswersPerExecution
  <2>2. CASE \E x \in Execution : Executor(x)
    <3>1. PICK x \in Execution : ThreadStep(x)
      BY <2>2 DEF Executor
    <3>2. CASE x = e
      BY <2>1, <3>1, <3>2, ThreadFits
    <3>3. CASE x # e
      BY <2>1, <3>1, <3>3, ThreadLeavesOthers, UntouchedFits
    <3> QED BY <3>2, <3>3
  <2>3. CASE \A x \in Execution : ~Executor(x)
    BY <2>1, <2>3, HandlerAnswers, SweepAnswers, OtherAnswers, UntouchedFits, BlankFits
  <2> QED BY <2>2, <2>3
<1> QED BY <1>1, AnswersPerExecutionNext

\* At the start no execution has a thread or a verdict.
LEMMA AnswersInit == Init => Answers
BY DEF Init, ManagerInit, ThreadInit, Answers, BufferPhase, VerdictAgreement, InBody,
       Terminal

(***************************************************************************)
(* Buffers and verdicts agree, with where each thread stands, in every     *)
(* behaviour.                                                              *)
(***************************************************************************)
LEMMA AnswersInvariant == Spec => []Answers
BY AnswersInit, AnswersStep, StoresInvariant, TypeCorrect, Phases, PTL DEF Spec, Phased

(***************************************************************************)
(* An execution with a verdict has a complete output whose exit code is    *)
(* the one of its record, 0 exactly for a completed execution.             *)
(***************************************************************************)
THEOREM VerdictsAgree == Spec => []VerdictAgreement
BY AnswersInvariant, PTL DEF Answers
-----------------------------------------------------------------------------
(***************************************************************************)
(* The refinement needs one more fact: an answer is published once.  Until *)
(* a thread reaches the step that publishes it, its execution has no       *)
(* answer.                                                                 *)
(***************************************************************************)
BeforeAnswer == (InBody \ {"finish", "recordFailure"}) \cup {"markRunning"}

Pending(e) ==
  /\ pc[e] \in {"idle", "lookup", "buffer"} => ~HasBuffer(e)
  /\ pc[e] \in BeforeAnswer => HasBuffer(e) /\ buffer[e].exitCode = NoExit

Unanswered == \A e \in Execution : Pending(e)

(***************************************************************************)
(* A step of thread e publishes the answer of e or keeps the answer it has.*)
(***************************************************************************)
LEMMA ThreadPending ==
  ASSUME Phased, NEW e \in Execution, Pending(e), ThreadStep(e)
  PROVE  Pending(e)'
<1> USE DEF Goto, BeforeAnswer, InBody
<1>1. /\ pc \in [Execution -> ThreadPC] /\ Fits(pc[e], status[e])
  BY DEF Phased, TypeOK, ExecutorTypeOK, ThreadPhase
<1>2. CASE LookUpRecord(e)
  BY <1>1, <1>2 DEF LookUpRecord, Pending, HasBuffer
<1>3. CASE CreateOutputBuffer(e)
  BY <1>1, <1>3 DEF CreateOutputBuffer, CreateBuffer, EmptyBuffer, Pending, HasBuffer
<1>4. CASE MarkRunning(e)
  BY <1>1, <1>4 DEF MarkRunning, Pending, HasBuffer
<1>5. CASE \/ CreateContainer(e) \/ CreateContainerFails(e)
           \/ StartContainer(e) \/ StartContainerFails(e)
           \/ StartStreams(e) \/ StartStreamsFails(e)
  BY <1>1, <1>5
  DEF CreateContainer, CreateContainerFails, StartContainer, StartContainerFails,
      StartStreams, StartStreamsFails, Pending, HasBuffer
<1>6. CASE \/ WaitReturns(e) \/ WaitRaises(e)
           \/ StopContainer(e) \/ StopFails(e) \/ JoinStreams(e)
  BY <1>1, <1>6
  DEF WaitReturns, WaitRaises, StopContainer, StopFails, JoinStreams, Pending, HasBuffer
<1>7. CASE MarkComplete(e)
  BY <1>1, <1>7 DEF MarkComplete, Pending
<1>8. CASE RecordVerdict(e)
  BY <1>1, <1>8 DEF RecordVerdict, Pending
<1>9. CASE HandleException(e)
  BY <1>1, <1>9 DEF HandleException, Pending
<1>10. CASE RecordFailure(e)
  BY <1>1, <1>10 DEF RecordFailure, Pending
<1>11. CASE \/ Untrack(e) \/ RemoveContainer(e) \/ RemoveContainerFails(e)
            \/ RemoveCloneDir(e)
  BY <1>1, <1>11
  DEF Untrack, RemoveContainer, RemoveContainerFails, RemoveCloneDir, Pending
<1> QED BY <1>2, <1>3, <1>4, <1>5, <1>6, <1>7, <1>8, <1>9, <1>10, <1>11 DEF ThreadStep

(***************************************************************************)
(* Steps of the event loop, of another thread and of the environment.      *)
(***************************************************************************)
LEMMA OthersPending ==
  ASSUME Phased, Stores, [Next]_vars, NEW e \in Execution, Pending(e), ~Executor(e)
  PROVE  Pending(e)'
<1>1. /\ pc \in [Execution -> ThreadPC] /\ Fits(pc[e], status[e])
      /\ DOMAIN buffer \subseteq Execution
  BY DEF Phased, TypeOK, ExecutorTypeOK, CollectorTypeOK, ThreadPhase
<1>2. CASE UNCHANGED <<pc, buffer>>
  BY <1>2 DEF Pending, HasBuffer
<1>3. CASE \E x \in Execution : Executor(x)
  <2>1. PICK x \in Execution : ThreadStep(x)
    BY <1>3 DEF Executor
  <2>2. x # e
    BY <1>3, <2>1 DEF Executor
  <2>3. Untouched(e)
    BY <2>1, <2>2, ThreadLeavesOthers
  <2>4. ~HasBuffer(e) => ~HasBuffer(e)'
    BY <2>1, <2>2, ThreadDomain DEF HasBuffer
  <2> QED BY <2>3, <2>4 DEF Untouched, Pending
<1>4. CASE HandOff
  <2>1. /\ request \in Execution /\ pc[request] = "idle" /\ UNCHANGED buffer
        /\ pc' = [pc EXCEPT ![request] = "lookup"]
    BY <1>4 DEF HandOff, Advance, Phased, HandlerPhase, TypeOK, LoopTypeOK, Handling
  <2> QED BY <1>1, <2>1 DEF Pending, HasBuffer, BeforeAnswer, InBody
<1>5. CASE DropBuffers
  <2>1. /\ UNCHANGED pc
        /\ DOMAIN buffer' = DOMAIN buffer \ expiring
        /\ \A x \in DOMAIN buffer' : buffer'[x] = buffer[x]
    BY <1>5 DEF DropBuffers, RemoveOutputs, threadVars
  <2>2. e \in expiring => pc[e] \notin BeforeAnswer
    BY <1>1 DEF Stores, SweepPhase, Fits, BeforeAnswer, InBody
  <2> QED BY <2>1, <2>2 DEF Pending, HasBuffer
<1>6. CASE \E x \in Execution : \E s \in Stream : Streams(x, s)
  BY <1>6, StreamBuffers DEF Pending, HasBuffer
<1>7. CASE Crash
  BY <1>1, <1>7 DEF Crash, RemoveOutputs, Pending, HasBuffer, BeforeAnswer, InBody
<1>8. CASE Execute \/ Cleanup
  BY <1>2, <1>4, <1>5, <1>8
  DEF Execute, CloneRepository, AcceptScript, RejectScript, AdmitExecution,
      RejectAtCapacity, AttestExecution, AttestationFails, StoreContext,
      HandOffFails, Respond, Cleanup, SweepRecords, DropContexts, Advance,
      Abandon, executorVars, threadVars
<1>9. CASE \E p \in Poller : Polling(p)
  <2>1. UNCHANGED executorVars
    BY <1>9, PollingFrame
  <2> QED BY <1>2, <2>1 DEF executorVars, threadVars
<1>10. CASE UNCHANGED vars \/ Restart \/ \E x \in Execution : Age(x) \/ Script(x)
  BY <1>2, <1>10
  DEF vars, executorVars, threadVars, Restart, Age, RetentionElapses, Script,
      ScriptStep, ScriptExits, ScriptWrites
<1> QED BY <1>3, <1>6, <1>7, <1>8, <1>9, <1>10 DEF Next

(***************************************************************************)
(* No execution has an answer before its thread publishes one.             *)
(***************************************************************************)
LEMMA UnansweredInvariant == Spec => []Unanswered
<1>1. Init => Unanswered
  BY DEF Init, ThreadInit, CollectorInit, Unanswered, Pending, HasBuffer,
         BeforeAnswer, InBody
<1>2. Phased /\ Stores /\ Unanswered /\ [Next]_vars => Unanswered'
  <2> SUFFICES ASSUME Phased, Stores, Unanswered, [Next]_vars, NEW e \in Execution
               PROVE  Pending(e)'
    BY DEF Unanswered
  <2>1. Pending(e)
    BY DEF Unanswered
  <2>2. CASE Executor(e)
    BY <2>1, <2>2, ThreadPending DEF Executor
  <2>3. CASE ~Executor(e)
    BY <2>1, <2>3, OthersPending
  <2> QED BY <2>2, <2>3
<1> QED BY <1>1, <1>2, StoresInvariant, TypeCorrect, Phases, PTL DEF Spec, Phased
-----------------------------------------------------------------------------
(***************************************************************************)
(* The steps of the service, as steps of the lifecycle.                    *)
(***************************************************************************)
Mapped == Phased /\ Stores /\ Answers /\ Unanswered

\* A step of the lifecycle, or a stutter.
LifecycleStep == [Lifecycle!Next]_(Lifecycle!lifecycleVars)

(***************************************************************************)
(* A step that changes neither a status nor an answer is a stutter of the  *)
(* lifecycle.                                                              *)
(***************************************************************************)
LEMMA Stutter ==
  ASSUME UNCHANGED <<status, Answer>>
  PROVE  LifecycleStep
BY DEF LifecycleStep, Lifecycle!lifecycleVars

\* Answers depend on the exit codes in the buffers only.
LEMMA AnswerKept ==
  ASSUME DOMAIN buffer' = DOMAIN buffer,
         \A x \in DOMAIN buffer : buffer'[x].exitCode = buffer[x].exitCode
  PROVE  UNCHANGED Answer
BY DEF Answer, HasBuffer

(***************************************************************************)
(* Publication of an answer: mark_complete in the body of the thread and   *)
(* in its exception handler.                                               *)
(***************************************************************************)
LEMMA PublishMaps ==
  ASSUME Mapped, NEW e \in Execution, NEW code \in ExitCode,
         pc[e] \in BeforeAnswer \cap InBody, MarkBufferComplete(e, code),
         UNCHANGED status
  PROVE  LifecycleStep
<1>1. HasBuffer(e) /\ buffer[e] \in Buffer /\ buffer[e].exitCode = NoExit
  BY DEF Mapped, Unanswered, Pending, Phased, TypeOK, CollectorTypeOK, HasBuffer
<1>2. status[e] = "running"
  BY DEF Mapped, Phased, ThreadPhase, Fits
<1>3. /\ DOMAIN buffer' = DOMAIN buffer
      /\ \A x \in DOMAIN buffer :
           buffer'[x].exitCode = IF x = e THEN code ELSE buffer[x].exitCode
  <2>1. buffer' = [buffer EXCEPT ![e].complete = TRUE, ![e].exitCode = code]
    BY DEF MarkBufferComplete
  <2> QED BY <1>1, <2>1 DEF HasBuffer, Buffer
<1>4. Answer[e] = NoExit /\ Answer' = [Answer EXCEPT ![e] = code]
  BY <1>1, <1>3 DEF Answer, HasBuffer
<1>5. Lifecycle!Publish(e)
  BY <1>2, <1>4 DEF Lifecycle!Publish, Lifecycle!ExitCode, ExitCode
<1> QED BY <1>5 DEF LifecycleStep, Lifecycle!Next

(***************************************************************************)
(* A verdict: update_status, after the answer and in agreement with it.    *)
(***************************************************************************)
LEMMA ConcludeMaps ==
  ASSUME Mapped, NEW e \in Execution, NEW verdict \in Terminal,
         pc[e] \in {"finish", "recordFailure"}, UNCHANGED buffer,
         status' = [status EXCEPT ![e] = verdict],
         buffer[e].exitCode \in ExitCode,
         (verdict = "completed") <=> (buffer[e].exitCode = 0)
  PROVE  LifecycleStep
<1>1. HasBuffer(e) /\ status[e] = "running"
  BY DEF Mapped, Phased, ThreadPhase, Fits, Answers, BufferPhase, InBody
<1>2. UNCHANGED Answer /\ Answer[e] = buffer[e].exitCode
  BY <1>1 DEF Answer, HasBuffer
<1>3. Lifecycle!Conclude(e)
  BY <1>1, <1>2, ExecutionsAssumption
  DEF Lifecycle!Conclude, Lifecycle!Terminal, Terminal
<1> QED BY <1>3 DEF LifecycleStep, Lifecycle!Next

(***************************************************************************)
(* The steps of a thread.                                                  *)
(***************************************************************************)
LEMMA ThreadMaps ==
  ASSUME Mapped, NEW e \in Execution, ThreadStep(e)
  PROVE  LifecycleStep
<1>1. /\ status \in [Execution -> Status] /\ exitSeen[e] \in {0, 1, NoExit}
      /\ Fits(pc[e], status[e]) /\ BufferFits(e) /\ Pending(e)
  BY AnswersPerExecution
  DEF Mapped, Phased, TypeOK, ManagerTypeOK, ExecutorTypeOK, ThreadPhase, Unanswered
<1>2. FinalCode(e) \in ExitCode /\ ((FinalStatus(e) = "completed") <=> (FinalCode(e) = 0))
      /\ FinalStatus(e) \in Terminal
  BY <1>1, ExecutionsAssumption DEF FinalCode, FinalStatus, ExitCode, Terminal
<1>3. CASE UNCHANGED <<managerVars, buffer>>
  BY <1>3, Stutter DEF managerVars, Answer, HasBuffer
<1>4. CASE CreateOutputBuffer(e)
  <2>1. ~HasBuffer(e) /\ UNCHANGED status
    BY <1>1, <1>4 DEF CreateOutputBuffer, Goto, Pending, managerVars
  <2>2. UNCHANGED Answer
    BY <1>4, <2>1
    DEF CreateOutputBuffer, CreateBuffer, EmptyBuffer, Answer, HasBuffer
  <2> QED BY <2>1, <2>2, Stutter
<1>5. CASE MarkRunning(e)
  <2>1. /\ status[e] = "queued" /\ status' = [status EXCEPT ![e] = "running"]
        /\ UNCHANGED buffer
    BY <1>1, <1>5 DEF MarkRunning, Goto, UpdateStatus, Fits, HasRecord, Recorded, Active
  <2>2. Lifecycle!Begin(e)
    BY <2>1 DEF Lifecycle!Begin, Answer, HasBuffer
  <2> QED BY <2>2 DEF LifecycleStep, Lifecycle!Next
<1>6. CASE MarkComplete(e)
  <2>1. pc[e] = "complete" /\ HasBuffer(e) /\ UNCHANGED status
    BY <1>1, <1>6 DEF MarkComplete, Goto, BufferFits, InBody, managerVars
  <2> QED BY <1>2, <1>6, <2>1, PublishMaps DEF MarkComplete, BeforeAnswer, InBody
<1>7. CASE HandleException(e)
  <2>1. pc[e] = "exception" /\ HasBuffer(e) /\ UNCHANGED status
    BY <1>1, <1>7 DEF HandleException, Goto, BufferFits, InBody, managerVars
  <2> QED BY <1>7, <2>1, PublishMaps DEF HandleException, BeforeAnswer, InBody, ExitCode
<1>8. CASE RecordVerdict(e)
  <2>1. /\ pc[e] = "finish" /\ status' = [status EXCEPT ![e] = FinalStatus(e)]
        /\ UNCHANGED buffer
    BY <1>1, <1>8 DEF RecordVerdict, Goto, UpdateStatus, Fits, HasRecord, Recorded,
                      Active, InBody
  <2>2. buffer[e].exitCode = FinalCode(e)
    BY <1>1, <2>1 DEF BufferFits
  <2> QED BY <1>2, <2>1, <2>2, ConcludeMaps
<1>9. CASE RecordFailure(e)
  <2>1. /\ pc[e] = "recordFailure" /\ status' = [status EXCEPT ![e] = "failed"]
        /\ UNCHANGED buffer
    BY <1>1, <1>9 DEF RecordFailure, Goto, UpdateStatus, Fits, HasRecord, Recorded,
                      Active, InBody
  <2>2. buffer[e].exitCode = -1
    BY <1>1, <2>1 DEF BufferFits
  <2>3. buffer[e].exitCode \in ExitCode /\ buffer[e].exitCode # 0
    BY <2>2 DEF ExitCode
  <2> QED BY <2>1, <2>3, ConcludeMaps DEF Terminal
<1>10. \/ UNCHANGED <<managerVars, buffer>>
       \/ CreateOutputBuffer(e) \/ MarkRunning(e) \/ MarkComplete(e)
       \/ HandleException(e) \/ RecordVerdict(e) \/ RecordFailure(e)
  BY DEF ThreadStep, LookUpRecord, CreateContainer, CreateContainerFails,
         StartContainer, StartContainerFails, StartStreams, StartStreamsFails,
         WaitReturns, WaitRaises, StopContainer, StopFails, JoinStreams, Untrack,
         RemoveContainer, RemoveContainerFails, RemoveCloneDir
<1> QED BY <1>3, <1>4, <1>5, <1>6, <1>7, <1>8, <1>9, <1>10

(***************************************************************************)
(* The steps of the handlers and the sweep.                                *)
(***************************************************************************)
LEMMA LoopMaps ==
  ASSUME Mapped, Execute \/ Cleanup
  PROVE  LifecycleStep
<1>1. CASE UNCHANGED <<status, buffer>>
  BY <1>1, Stutter DEF Answer, HasBuffer
<1>2. CASE AdmitExecution
  <2>1. /\ request \in Execution /\ status[request] = "none"
        /\ status' = [status EXCEPT ![request] = "queued"] /\ UNCHANGED buffer
    BY <1>2 DEF AdmitExecution, Advance, RegisterExecution, Mapped, Phased,
                HandlerPhase, TypeOK, LoopTypeOK, Handling
  <2>2. Cardinality(ActiveSet) < MaxConcurrent
    <3>1. Cardinality(ActiveSet) \in Nat
      BY ExecutionsAssumption, FS_Subset, FS_CardinalityType DEF ActiveSet
    <3> QED BY <1>2, <3>1, ManagerAssumption DEF AdmitExecution, AtCapacity
  <2>3. UNCHANGED Answer
    BY <2>1 DEF Answer, HasBuffer
  <2>4. Cardinality({x \in Execution : status[x] \in Lifecycle!Active}) < MaxConcurrent
    BY <2>2 DEF ActiveSet, Active, Lifecycle!Active
  <2>5. Lifecycle!Submit(request)
    BY <2>1, <2>3, <2>4
    DEF Lifecycle!Submit, Lifecycle!Cardinality, Cardinality
  <2> QED BY <2>1, <2>5 DEF LifecycleStep, Lifecycle!Next
<1>3. CASE SweepRecords
  <2>1. /\ status' = [e \in Execution |-> IF e \in Expired THEN "removed" ELSE status[e]]
        /\ UNCHANGED buffer
        /\ \A e \in Expired : status[e] \in Terminal
        /\ Expired \in SUBSET Execution
    BY <1>3 DEF SweepRecords, RemoveExpired, Expired
  <2>2. Lifecycle!Expire(Expired)
    BY <2>1 DEF Lifecycle!Expire, Lifecycle!Terminal, Terminal, Answer, HasBuffer
  <2> QED BY <2>1, <2>2 DEF LifecycleStep, Lifecycle!Next
<1>4. CASE DropBuffers
  <2>1. /\ UNCHANGED status
        /\ buffer' = [e \in DOMAIN buffer \ expiring |-> buffer[e]]
        /\ \A e \in expiring : status[e] = "removed"
        /\ expiring \in SUBSET Execution
    BY <1>4 DEF DropBuffers, RemoveOutputs, managerVars, Mapped, Stores, SweepPhase,
                Phased, TypeOK, LoopTypeOK
  <2>2. Answer' = [e \in Execution |-> IF e \in expiring THEN NoExit ELSE Answer[e]]
    BY <2>1 DEF Answer, HasBuffer
  <2>3. Lifecycle!Forget(expiring)
    BY <2>1, <2>2 DEF Lifecycle!Forget
  <2> QED BY <2>1, <2>3 DEF LifecycleStep, Lifecycle!Next
<1>5. \/ UNCHANGED <<status, buffer>>
      \/ AdmitExecution \/ SweepRecords \/ DropBuffers
  BY DEF Execute, CloneRepository, AcceptScript, RejectScript, RejectAtCapacity,
         AttestExecution, AttestationFails, StoreContext, HandOff, HandOffFails,
         Respond, Cleanup, DropContexts, Advance, Abandon, executorVars, managerVars
<1> QED BY <1>1, <1>2, <1>3, <1>4, <1>5

(***************************************************************************)
(* Every step of the service is a step of the lifecycle or a stutter.      *)
(***************************************************************************)
LEMMA StepMaps ==
  ASSUME Mapped, [Next]_vars
  PROVE  LifecycleStep
<1>1. CASE Execute \/ Cleanup
  BY <1>1, LoopMaps
<1>2. CASE \E e \in Execution : Executor(e)
  BY <1>2, ThreadMaps DEF Executor
<1>3. CASE Crash
  <2>1. /\ DOMAIN buffer' = {}
        /\ status' = [e \in Execution |->
                        IF status[e] = "none" THEN "none" ELSE "removed"]
    BY <1>3 DEF Crash, RemoveOutputs, ForgetRecords, Mapped, Phased, TypeOK,
                CollectorTypeOK
  <2>2. Answer' = [e \in Execution |-> NoExit]
    BY <2>1 DEF Answer, HasBuffer
  <2>3. Lifecycle!Reset
    BY <2>1, <2>2 DEF Lifecycle!Reset
  <2> QED BY <2>3 DEF LifecycleStep, Lifecycle!Next
<1>4. CASE \E e \in Execution : \E s \in Stream : Streams(e, s)
  <2>1. UNCHANGED status /\ UNCHANGED Answer
    BY <1>4, StreamBuffers, AnswerKept DEF Mapped
  <2> QED BY <2>1, Stutter
<1>5. CASE \E p \in Poller : Polling(p)
  <2>1. UNCHANGED executorVars
    BY <1>5, PollingFrame
  <2> QED BY <2>1, Stutter DEF executorVars, managerVars, Answer, HasBuffer
<1>6. CASE UNCHANGED vars \/ Restart \/ \E x \in Execution : Age(x) \/ Script(x)
  <2>1. UNCHANGED <<status, buffer>>
    BY <1>6 DEF vars, executorVars, managerVars, Restart, Age, RetentionElapses,
                Script, ScriptStep, ScriptExits, ScriptWrites
  <2> QED BY <2>1, Stutter DEF Answer, HasBuffer
<1> QED BY <1>1, <1>2, <1>3, <1>4, <1>5, <1>6 DEF Next

(***************************************************************************)
(* The executor service implements ExecutionLifecycle: whatever its        *)
(* threads, locks, failures and crashes, a client sees an execution that   *)
(* is submitted within the limit, runs, publishes one answer, gets the     *)
(* verdict that goes with it, and is then forgotten.                       *)
(***************************************************************************)
THEOREM ServiceImplementsLifecycle == Spec => ImplementsLifecycle
<1>1. Init => Lifecycle!Init
  BY DEF Init, ManagerInit, CollectorInit, Lifecycle!Init, Answer, HasBuffer
<1>2. Mapped /\ [Next]_vars => [Lifecycle!Next]_(Lifecycle!lifecycleVars)
  BY StepMaps DEF LifecycleStep
<1>3. Spec => []Mapped
  BY TypeCorrect, Phases, StoresInvariant, AnswersInvariant, UnansweredInvariant, PTL
  DEF Mapped, Phased
<1> QED BY <1>1, <1>2, <1>3, PTL DEF Spec, ImplementsLifecycle, Lifecycle!Spec
-----------------------------------------------------------------------------
(***************************************************************************)
(* What a step may do to an output buffer: append a chunk, publish the     *)
(* answer, or drop it with its record.                                     *)
(***************************************************************************)
Appends(e) ==
  \E s \in Stream, chunk \in Seq(Nat) :
    stream[e][s] = "open" /\ buffer'[e] = Captured(buffer[e], s, chunk)

Publishes(e) ==
  /\ pc[e] \in {"complete", "exception"}
  /\ \E x \in ExitCode :
       buffer'[e] = [buffer[e] EXCEPT !.complete = TRUE, !.exitCode = x]

Drops(e) ==
  /\ e \notin DOMAIN buffer'
  /\ Crash \/ (loop = "dropBuffers" /\ e \in expiring)

\* A thread changes no buffer but its own, and that by publishing.
LEMMA ThreadPublishes ==
  ASSUME TypeOK, NEW e \in Execution, ThreadStep(e), NEW x, x \in DOMAIN buffer
  PROVE  /\ x \in DOMAIN buffer'
         /\ buffer'[x] = buffer[x] \/ (x = e /\ Publishes(e))
<1>1. buffer \in [DOMAIN buffer -> Buffer] /\ exitSeen[e] \in {0, 1, NoExit}
  BY DEF TypeOK, CollectorTypeOK, ExecutorTypeOK
<1>2. CASE UNCHANGED buffer
  BY <1>2
<1>3. CASE CreateOutputBuffer(e)
  BY <1>1, <1>3 DEF CreateOutputBuffer, CreateBuffer, HasBuffer
<1>4. ASSUME NEW code \in ExitCode, MarkBufferComplete(e, code),
             pc[e] \in {"complete", "exception"}
      PROVE  /\ x \in DOMAIN buffer'
             /\ buffer'[x] = buffer[x] \/ (x = e /\ Publishes(e))
  <2>1. buffer' = [buffer EXCEPT ![e] = [buffer[e] EXCEPT !.complete = TRUE,
                                                          !.exitCode = code]]
    BY <1>1, <1>4 DEF MarkBufferComplete
  <2> QED BY <1>1, <1>4, <2>1 DEF Publishes
<1>5. CASE MarkComplete(e) /\ HasBuffer(e)
  <2>1. FinalCode(e) \in ExitCode
    BY <1>1 DEF FinalCode, ExitCode
  <2>2. MarkBufferComplete(e, FinalCode(e)) /\ pc[e] = "complete"
    BY <1>5 DEF MarkComplete, Goto
  <2> QED BY <1>4, <2>1, <2>2
<1>6. CASE HandleException(e) /\ HasBuffer(e)
  <2>1. MarkBufferComplete(e, -1) /\ pc[e] = "exception" /\ -1 \in ExitCode
    BY <1>6 DEF HandleException, Goto, ExitCode
  <2> QED BY <1>4, <2>1
<1> QED BY <1>2, <1>3, <1>5, <1>6, ThreadBuffers

\* A log-stream thread changes no buffer but the one of its execution.
LEMMA StreamAppends ==
  ASSUME TypeOK, NEW e \in Execution, NEW s \in Stream, StreamStep(e, s),
         NEW x, x \in DOMAIN buffer
  PROVE  /\ x \in DOMAIN buffer'
         /\ buffer'[x] = buffer[x] \/ (x = e /\ Appends(e))
<1>1. CASE UNCHANGED buffer
  BY <1>1
<1>2. CASE StreamChunk(e, s) /\ HasBuffer(e)
  <2>1. PICK last \in consumed[e][s] + 1 .. container[e].out[s] :
          CaptureOutput(e, s, [k \in 1 .. last - consumed[e][s] |-> consumed[e][s] + k])
    BY <1>2 DEF StreamChunk
  <2> DEFINE chunk == [k \in 1 .. last - consumed[e][s] |-> consumed[e][s] + k]
  <2>2. /\ consumed[e][s] \in Nat /\ container[e].out[s] \in Nat
        /\ last \in Nat /\ last - consumed[e][s] \in Nat
    <3>1. consumed[e][s] \in Nat /\ container[e].out[s] \in Nat
      BY DEF TypeOK, ExecutorTypeOK, Container
    <3> QED BY <3>1
  <2>3. chunk \in Seq(Nat)
    BY <2>2, BytesAreSequence DEF Bytes
  <2>4. buffer' = [buffer EXCEPT ![e] = Captured(buffer[e], s, chunk)]
    BY <2>1 DEF CaptureOutput
  <2>5. stream[e][s] = "open"
    BY <1>2 DEF StreamChunk
  <2> HIDE DEF chunk
  <2> QED BY <2>3, <2>4, <2>5 DEF Appends
<1> QED BY <1>1, <1>2 DEF StreamStep, StreamChunk, StreamEnds

\* These are the only steps that touch a buffer.
LEMMA BufferSteps ==
  ASSUME TypeOK, [Next]_vars, NEW x, x \in DOMAIN buffer
  PROVE  \/ Drops(x)
         \/ /\ x \in DOMAIN buffer'
            /\ buffer'[x] = buffer[x] \/ Appends(x) \/ Publishes(x)
<1>1. CASE UNCHANGED buffer
  BY <1>1
<1>2. CASE Execute
  BY <1>1, <1>2
  DEF Execute, CloneRepository, AcceptScript, RejectScript, AdmitExecution,
      RejectAtCapacity, AttestExecution, AttestationFails, StoreContext,
      HandOff, HandOffFails, Respond, Abandon, executorVars
<1>3. CASE Cleanup
  <2>1. CASE DropBuffers
    BY <2>1 DEF DropBuffers, RemoveOutputs, Drops
  <2> QED BY <1>1, <1>3, <2>1 DEF Cleanup, SweepRecords, DropContexts, executorVars
<1>4. CASE \E p \in Poller : Polling(p)
  BY <1>1, <1>4, PollingFrame DEF executorVars
<1>5. CASE \E e \in Execution : Executor(e)
  BY <1>5, ThreadPublishes DEF Executor
<1>6. CASE \E e \in Execution : \E s \in Stream : Streams(e, s)
  BY <1>6, StreamAppends DEF Streams
<1>7. CASE UNCHANGED vars \/ Restart \/ \E e \in Execution : Age(e) \/ Script(e)
  BY <1>1, <1>7 DEF vars, executorVars, Restart, Age, Script, ScriptStep, ScriptExits,
                    ScriptWrites
<1>8. CASE Crash
  BY <1>8 DEF Crash, RemoveOutputs, Drops, TypeOK, CollectorTypeOK
<1> QED BY <1>2, <1>3, <1>4, <1>5, <1>6, <1>7, <1>8 DEF Next

\* A buffer is born empty, in create_buffer.
LEMMA BufferBirth ==
  ASSUME TypeOK, [Next]_vars, NEW x, x \in DOMAIN buffer', x \notin DOMAIN buffer
  PROVE  buffer'[x] = EmptyBuffer
<1>1. CASE UNCHANGED buffer
  BY <1>1
<1>2. CASE \E S : RemoveOutputs(S)
  BY <1>2 DEF RemoveOutputs
<1>3. CASE Execute \/ Cleanup
  BY <1>1, <1>2, <1>3
  DEF Execute, CloneRepository, AcceptScript, RejectScript, AdmitExecution,
      RejectAtCapacity, AttestExecution, AttestationFails, StoreContext,
      HandOff, HandOffFails, Respond, Abandon, executorVars,
      Cleanup, SweepRecords, DropContexts, DropBuffers
<1>4. CASE \E p \in Poller : Polling(p)
  BY <1>1, <1>4, PollingFrame DEF executorVars
<1>5. ASSUME NEW e \in Execution, Executor(e)
      PROVE  buffer'[x] = EmptyBuffer
  <2>1. CASE CreateOutputBuffer(e)
    BY <2>1 DEF CreateOutputBuffer, CreateBuffer, HasBuffer
  <2>2. CASE (MarkComplete(e) \/ HandleException(e)) /\ HasBuffer(e)
    BY <2>2 DEF MarkComplete, HandleException, MarkBufferComplete
  <2> QED BY <1>1, <1>5, <2>1, <2>2, ThreadBuffers DEF Executor
<1>6. CASE \E e \in Execution : \E s \in Stream : Streams(e, s)
  <2>1. DOMAIN buffer' = DOMAIN buffer
    BY <1>6 DEF Streams, StreamStep, StreamChunk, StreamEnds, CaptureOutput
  <2> QED BY <2>1
<1>7. CASE UNCHANGED vars \/ Restart \/ \E e \in Execution : Age(e) \/ Script(e)
  BY <1>1, <1>7 DEF vars, executorVars, Restart, Age, Script, ScriptStep, ScriptExits,
                    ScriptWrites
<1>8. CASE Crash
  BY <1>2, <1>8 DEF Crash
<1> QED BY <1>3, <1>4, <1>5, <1>6, <1>7, <1>8 DEF Next

\* Appending leaves the answer alone.
LEMMA AppendsKeepAnswer ==
  ASSUME TypeOK, NEW x, x \in DOMAIN buffer, Appends(x)
  PROVE  /\ buffer'[x].complete = buffer[x].complete
         /\ buffer'[x].exitCode = buffer[x].exitCode
<1>1. buffer[x] \in Buffer
  BY DEF TypeOK, CollectorTypeOK
<1>2. PICK s \in Stream, chunk \in Seq(Nat) : buffer'[x] = Captured(buffer[x], s, chunk)
  BY DEF Appends
<1> QED BY <1>1, <1>2 DEF Captured, Buffer
-----------------------------------------------------------------------------
\* A buffer has an exit code exactly when it is complete.
Whole == \A x \in DOMAIN buffer : buffer[x].complete <=> buffer[x].exitCode # NoExit

\* Publishing writes both fields.
LEMMA WholeStep == TypeOK /\ Whole /\ [Next]_vars => Whole'
<1> SUFFICES ASSUME TypeOK, Whole, [Next]_vars, NEW x, x \in DOMAIN buffer'
             PROVE  buffer'[x].complete <=> buffer'[x].exitCode # NoExit
  BY DEF Whole
<1>1. CASE x \notin DOMAIN buffer
  BY <1>1, BufferBirth DEF EmptyBuffer
<1>2. CASE x \in DOMAIN buffer
  <2>1. buffer[x] \in Buffer
    BY <1>2 DEF TypeOK, CollectorTypeOK
  <2>2. CASE Appends(x)
    BY <1>2, <2>2, AppendsKeepAnswer DEF Whole
  <2>3. CASE Publishes(x)
    BY <2>1, <2>3, ExecutionsAssumption DEF Publishes, Buffer
  <2> QED BY <1>2, <2>2, <2>3, BufferSteps DEF Whole, Drops
<1> QED BY <1>1, <1>2

\* Hence in every behaviour.
LEMMA WholeInvariant == Spec => []Whole
<1>1. Init => Whole
  BY DEF Init, CollectorInit, Whole
<1> QED BY <1>1, WholeStep, TypeCorrect, PTL DEF Spec

\* An answer is published once.
LEMMA AnswerIsFinal ==
  ASSUME Phased, Unanswered, Whole, [Next]_vars,
         NEW x, x \in DOMAIN buffer, buffer[x].complete
  PROVE  \/ Drops(x)
         \/ /\ x \in DOMAIN buffer'
            /\ buffer'[x] = buffer[x] \/ Appends(x)
<1>1. x \in Execution
  BY DEF Phased, TypeOK, CollectorTypeOK
<1>2. ~Publishes(x)
  BY <1>1 DEF Publishes, Unanswered, Pending, BeforeAnswer, InBody, Whole
<1> QED BY <1>2, BufferSteps DEF Phased
-----------------------------------------------------------------------------
(***************************************************************************)
(* A container stops when it is told to, and the log-stream threads start  *)
(* and end with it.                                                        *)
(***************************************************************************)
Orderly == Faults \cap {"stop", "stop_transport", "join_timeout", "thread_start"} = {}

\* Thread e strays from its container or its streams: the start of a stream or a
\* stop fails, or the join gives up on a stream of a container that has ended.
Strays(e) ==
  \/ StartStreamsFails(e)
  \/ StopFails(e)
  \/ /\ JoinStreams(e)
     /\ container[e].state # "running"
     /\ \E s \in Stream : stream[e][s] = "open"

LEMMA OrderlyNeverStrays ==
  ASSUME Orderly, NEW e \in Execution
  PROVE  ~Strays(e)
BY DEF Orderly, Fault, Strays, StartStreamsFails, StopFails, JoinStreams

Quiet(e) ==
  /\ \A s \in Stream : stream[e][s] = "open" => pc[e] \in {"wait", "stop", "join"}
  /\ pc[e] = "join" => container[e].state # "running"

\* The join of a thread whose container has ended returns when they have.
LEMMA ThreadKeepsQuiet ==
  ASSUME TypeOK, NEW e \in Execution, Quiet(e), ThreadStep(e), ~Strays(e)
  PROVE  Quiet(e)'
<1> USE DEF Goto, Quiet
<1>1. /\ pc \in [Execution -> ThreadPC] /\ container \in [Execution -> Container]
      /\ stream \in [Execution -> [Stream -> StreamState]]
  BY DEF TypeOK, ExecutorTypeOK
<1>2. CASE \/ LookUpRecord(e) \/ CreateOutputBuffer(e) \/ MarkRunning(e)
           \/ CreateContainerFails(e) \/ StartContainerFails(e)
  BY <1>1, <1>2 DEF LookUpRecord, CreateOutputBuffer, MarkRunning, CreateContainerFails,
                    StartContainerFails
<1>3. CASE CreateContainer(e) \/ StartContainer(e)
  BY <1>1, <1>3 DEF CreateContainer, StartContainer
<1>4. CASE StartStreams(e) \/ StartStreamsFails(e)
  BY <1>1, <1>4 DEF StartStreams, Strays
<1>5. CASE WaitReturns(e) \/ WaitRaises(e)
  BY <1>1, <1>5 DEF WaitReturns, WaitRaises, hostVars
<1>6. CASE StopContainer(e)
  <2>1. /\ pc'[e] = "join" /\ stream' = stream /\ container' = Stopped(e)
    BY <1>1, <1>6 DEF StopContainer
  <2>2. container'[e].state # "running"
    BY <1>1, <2>1 DEF Container, Stopped
  <2> QED BY <2>1, <2>2
<1>7. CASE StopFails(e) \/ JoinStreams(e)
  <2>1. pc[e] = "join" /\ pc'[e] = "complete" /\ stream' = stream
    BY <1>1, <1>7 DEF JoinStreams, Strays
  <2>2. \A s \in Stream : stream[e][s] # "open"
    BY <1>7, <2>1 DEF Strays
  <2> QED BY <2>1, <2>2
<1>8. CASE \/ MarkComplete(e) \/ RecordVerdict(e) \/ HandleException(e)
           \/ RecordFailure(e) \/ Untrack(e)
  BY <1>1, <1>8 DEF MarkComplete, RecordVerdict, HandleException, RecordFailure, Untrack
<1>9. CASE RemoveContainer(e) \/ RemoveContainerFails(e) \/ RemoveCloneDir(e)
  BY <1>1, <1>9 DEF RemoveContainer, RemoveContainerFails, RemoveCloneDir
<1> QED BY <1>2, <1>3, <1>4, <1>5, <1>6, <1>7, <1>8, <1>9 DEF ThreadStep

\* A thread starts and ends no log stream of another.
LEMMA ThreadLeavesStreams ==
  ASSUME TypeOK, NEW e \in Execution, ThreadStep(e), NEW x \in Execution \ {e}
  PROVE  stream'[x] = stream[x]
<1>1. stream' = stream \/ \E new : stream' = [stream EXCEPT ![e] = new]
  BY DEF ThreadStep, LookUpRecord, CreateOutputBuffer, MarkRunning, CreateContainer,
         CreateContainerFails, StartContainer, StartContainerFails, StartStreams,
         StartStreamsFails, WaitReturns, WaitRaises, StopContainer, StopFails, JoinStreams,
         MarkComplete, RecordVerdict, HandleException, RecordFailure, Untrack,
         RemoveContainer, RemoveContainerFails, RemoveCloneDir
<1> QED BY <1>1 DEF TypeOK, ExecutorTypeOK

\* Neither does any other step disturb what an open stream says of its thread.
LEMMA QuietStep ==
  ASSUME Phased, [Next]_vars, NEW e \in Execution, Quiet(e), ~Strays(e)
  PROVE  Quiet(e)'
<1>1. /\ pc \in [Execution -> ThreadPC] /\ container \in [Execution -> Container]
      /\ stream \in [Execution -> [Stream -> StreamState]]
  BY DEF Phased, TypeOK, ExecutorTypeOK
<1>2. CASE UNCHANGED <<pc, stream, container>>
  BY <1>2 DEF Quiet
<1>3. CASE HandOff
  <2>1. /\ request \in Execution /\ pc[request] = "idle" /\ UNCHANGED <<stream, container>>
        /\ pc' = [pc EXCEPT ![request] = "lookup"]
    BY <1>3 DEF HandOff, Advance, Phased, HandlerPhase, TypeOK, LoopTypeOK, Handling, hostVars
  <2> QED BY <1>1, <2>1 DEF Quiet
<1>4. CASE Execute \/ Cleanup
  BY <1>2, <1>3, <1>4
  DEF Execute, CloneRepository, AcceptScript, RejectScript, AdmitExecution,
      RejectAtCapacity, AttestExecution, AttestationFails, StoreContext,
      HandOffFails, Respond, Cleanup, SweepRecords, DropContexts, DropBuffers,
      Advance, Abandon, executorVars, threadVars, hostVars
<1>5. CASE \E p \in Poller : Polling(p)
  BY <1>2, <1>5, PollingFrame DEF executorVars, threadVars, hostVars
<1>6. ASSUME NEW x \in Execution, Executor(x)
      PROVE  Quiet(e)'
  <2>1. CASE x = e
    BY <1>6, <2>1, ThreadKeepsQuiet DEF Executor, Phased
  <2>2. CASE x # e
    <3>1. pc'[e] = pc[e] /\ container'[e] = container[e]
      BY <1>6, <2>2, ThreadLeavesHost DEF Executor, Phased
    <3>2. stream'[e] = stream[e]
      BY <1>6, <2>2, ThreadLeavesStreams DEF Executor, Phased
    <3> QED BY <3>1, <3>2 DEF Quiet
  <2> QED BY <2>1, <2>2
<1>7. ASSUME NEW x \in Execution, NEW s \in Stream, Streams(x, s)
      PROVE  Quiet(e)'
  <2>1. /\ UNCHANGED <<pc, container>>
        /\ stream' = stream \/ stream' = [stream EXCEPT ![x][s] = "done"]
    BY <1>7 DEF Streams, StreamStep, StreamChunk, StreamEnds, hostVars
  <2>2. \A t \in Stream : stream'[e][t] \in {stream[e][t], "done"}
    BY <1>1, <2>1
  <2> QED BY <2>1, <2>2 DEF Quiet
<1>8. ASSUME NEW x \in Execution, Script(x)
      PROVE  Quiet(e)'
  <2>1. UNCHANGED <<pc, stream>>
    BY <1>8 DEF Script, ScriptStep, ScriptWrites, ScriptExits, threadVars
  <2>2. \/ \E code : container' = [container EXCEPT ![x].state = "exited", ![x].code = code]
        \/ \E s \in Stream : container' = [container EXCEPT ![x].out[s] = @ + 1]
    BY <1>8 DEF Script, ScriptStep, ScriptWrites, ScriptExits
  <2>3. container'[e].state \in {container[e].state, "exited"}
    BY <1>1, <2>2 DEF Container
  <2> QED BY <2>1, <2>3 DEF Quiet
<1>9. CASE Restart
  <2>1. UNCHANGED <<pc, stream>> /\ container'[e] \in {container[e], NoContainer}
    BY <1>9 DEF Restart, threadVars
  <2> QED BY <2>1 DEF Quiet, NoContainer
<1>10. CASE Crash
  BY <1>10 DEF Crash, Quiet
<1>11. CASE UNCHANGED vars \/ \E x \in Execution : Age(x)
  BY <1>2, <1>11 DEF vars, executorVars, threadVars, hostVars, Age
<1> QED BY <1>4, <1>5, <1>6, <1>7, <1>8, <1>9, <1>10, <1>11 DEF Next

\* An open stream means that the thread has yet to join it, and to publish.
LEMMA QuietIsFinal ==
  ASSUME Phased, Unanswered, Whole, [Next]_vars, NEW e \in DOMAIN buffer, Quiet(e),
         buffer[e].complete, e \in DOMAIN buffer'
  PROVE  buffer'[e] = buffer[e]
<1>1. e \in Execution
  BY DEF Phased, TypeOK, CollectorTypeOK
<1>2. pc[e] \notin {"wait", "stop", "join"}
  BY <1>1 DEF Unanswered, Pending, BeforeAnswer, InBody, Whole
<1>3. ~Appends(e)
  BY <1>1, <1>2 DEF Appends, Quiet
<1> QED BY <1>3, AnswerIsFinal DEF Drops

LEMMA QuietAtFirst == Init => \A e \in Execution : Quiet(e)
BY DEF Init, ThreadInit, Quiet

(***************************************************************************)
(* Nothing is appended to an output once its exit code is known, where a   *)
(* container stops when told to and its streams start and end with it: an  *)
(* open stream means that the thread has yet to join it.                   *)
(***************************************************************************)
THEOREM OutputsAreFinal ==
  ASSUME Orderly
  PROVE  Spec => OutputFinal
<1> DEFINE AllQuiet == \A e \in Execution : Quiet(e)
           Fixed == \A e \in DOMAIN buffer : buffer[e].complete =>
                      (e \in DOMAIN buffer' => buffer'[e] = buffer[e])
<1>1. Phased /\ AllQuiet /\ [Next]_vars => AllQuiet'
  BY QuietStep, OrderlyNeverStrays
<1>2. Phased /\ Unanswered /\ Whole /\ AllQuiet /\ [Next]_vars => [Fixed]_vars
  <2> SUFFICES ASSUME Phased, Unanswered, Whole, AllQuiet, [Next]_vars,
                      NEW e \in DOMAIN buffer, buffer[e].complete, e \in DOMAIN buffer'
               PROVE  buffer'[e] = buffer[e]
    OBVIOUS
  <2>1. Quiet(e)
    BY DEF Phased, TypeOK, CollectorTypeOK
  <2> QED BY <2>1, QuietIsFinal
<1> QED BY QuietAtFirst, <1>1, <1>2, UnansweredInvariant, WholeInvariant, TypeCorrect,
           Phases, PTL DEF Spec, Phased, OutputFinal

\* One thread at a time: what another one does disturbs no stream of e.
LEMMA QuietAlone ==
  ASSUME NEW e \in Execution
  PROVE  Spec /\ [][~Strays(e)]_vars => []Quiet(e)
<1>1. Phased /\ Quiet(e) /\ [Next]_vars /\ [~Strays(e)]_vars => Quiet(e)'
  <2> SUFFICES ASSUME Phased, Quiet(e), [Next]_vars, [~Strays(e)]_vars
               PROVE  Quiet(e)'
    OBVIOUS
  <2>1. CASE ~Strays(e)
    BY <2>1, QuietStep
  <2>2. CASE UNCHANGED vars
    BY <2>2 DEF vars, executorVars, threadVars, hostVars, Quiet
  <2> QED BY <2>1, <2>2
<1>2. Init => Quiet(e)
  BY QuietAtFirst
<1> QED BY <1>1, <1>2, TypeCorrect, Phases, PTL DEF Spec, Phased

(***************************************************************************)
(* The output of an execution is final once its exit code is known, as     *)
(* long as its own thread does not stray, whatever the other threads and   *)
(* their containers do: the late chunk of a stream that outlived its join  *)
(* reaches no other output.                                                *)
(***************************************************************************)
THEOREM OutputOfOneIsFinal ==
  ASSUME NEW e \in Execution
  PROVE  Spec /\ [][~Strays(e)]_vars
           => [][HasBuffer(e) /\ buffer[e].complete /\ HasBuffer(e)'
                   => buffer'[e] = buffer[e]]_vars
<1>1. Phased /\ Unanswered /\ Whole /\ Quiet(e) /\ [Next]_vars
        => [HasBuffer(e) /\ buffer[e].complete /\ HasBuffer(e)'
              => buffer'[e] = buffer[e]]_vars
  BY QuietIsFinal DEF HasBuffer
<1> QED BY <1>1, QuietAlone, UnansweredInvariant, WholeInvariant, TypeCorrect, Phases,
           PTL DEF Spec, Phased
-----------------------------------------------------------------------------
(***************************************************************************)
(* What a client has seen of an execution.  While its record is there,     *)
(* output only grows, an answer stays and so does a verdict; the record    *)
(* cannot go while a poll is being answered.                               *)
(***************************************************************************)
Have(e) == IF HasBuffer(e) THEN Len(buffer[e].stdout) ELSE 0

Shown(e, complete, code) ==
  complete => HasBuffer(e) /\ buffer[e].complete /\ buffer[e].exitCode = code

\* Nothing is known of an execution that was never admitted.
Unseen(p) ==
  (poll[p].exec \in Execution => status[poll[p].exec] = "none")
    => poll[p].reply.code # 200 /\ poll[p].offset = 0

\* What was replied still holds of the stores.
Seen(p) ==
  LET e == poll[p].exec
      r == poll[p].reply
  IN  e \in Execution /\ HasRecord(e) =>
        /\ poll[p].offset <= Have(e)
        /\ r.code = 200 => /\ Shown(e, r.complete, r.exitCode)
                           /\ r.status \in Terminal => status[e] = r.status

\* A poll that has its output and waits for the status.
Asked(p) ==
  LET e == poll[p].exec
      r == poll[p].reply
  IN  poll[p].at = "status" =>
        /\ loop = "poll"
        /\ HasRecord(e)
        /\ Shown(e, snapshot.complete, snapshot.exitCode)
        /\ poll[p].offset <= snapshot.stdoutOffset
        /\ snapshot.stdoutOffset <= Have(e)
        /\ r.code = 200 /\ r.complete => snapshot.complete

Alone == \A p, q \in Poller : poll[p].at = "status" /\ poll[q].at = "status" => p = q

SnapshotWhole == snapshot.complete <=> snapshot.exitCode # NoExit

Polls ==
  /\ \A p \in Poller : Unseen(p) /\ Seen(p) /\ Asked(p)
  /\ Alone
  /\ SnapshotWhole

\* The facts the steps of a poll rest on.
Backed == Phased /\ Stores /\ Answers /\ Unanswered /\ Whole

\* A stream is never cut back.
LEMMA CapturedGrows ==
  ASSUME NEW b \in Buffer, NEW s \in Stream, NEW chunk \in Seq(Nat)
  PROVE  Len(b.stdout) <= Len(Captured(b, s, chunk).stdout)
<1> DEFINE remaining == MaxOutput - Size(b)
           n == IF Len(chunk) > remaining THEN remaining ELSE Len(chunk)
           kept == SubSeq(chunk, 1, n)
<1>1. b.stdout \in Seq(Nat) /\ Len(b.stdout) \in Nat
  BY LenProperties DEF Buffer
<1>2. Captured(b, s, chunk).stdout \in {b.stdout, b.stdout \o kept}
  BY DEF Captured, Buffer
<1>3. CASE Captured(b, s, chunk).stdout = b.stdout
  BY <1>1, <1>3
<1>4. CASE Captured(b, s, chunk).stdout # b.stdout
  <2>1. /\ ~(remaining <= 0)
        /\ Captured(b, s, chunk).stdout = b.stdout \o kept
    BY <1>2, <1>4 DEF Captured, Buffer
  <2>2. MaxOutput \in Nat /\ Size(b) \in Nat /\ Len(chunk) \in Nat
    <3>1. Len(b.stdout) \in Nat /\ Len(b.stderr) \in Nat
      BY LenProperties DEF Buffer
    <3>2. Size(b) \in Nat
      BY <3>1, SumType, Zenon DEF Size
    <3> QED BY <3>2, LenProperties, CollectorAssumption
  <2>3. n \in Nat /\ n <= Len(chunk)
    BY <2>1, <2>2, Room
  <2>4. kept \in Seq(Nat) /\ Len(kept) = n
    BY <2>2, <2>3, SubSeqProperties
  <2> HIDE DEF kept, n
  <2>5. Len(b.stdout \o kept) = Len(b.stdout) + n
    BY <1>1, <2>4, ConcatProperties
  <2> QED BY <1>1, <2>1, <2>3, <2>5
<1> QED BY <1>3, <1>4

\* Records come and go in order, and stay while a poll is answered.
LEMMA RecordSteps ==
  ASSUME Phased, [Next]_vars, NEW e \in Execution
  PROVE  /\ HasRecord(e)' => HasRecord(e) \/ status[e] = "none"
         /\ status'[e] = "none" => status[e] = "none"
         /\ HasRecord(e) /\ loop = "poll" => HasRecord(e)' \/ Crash
         /\ status[e] \in Terminal /\ HasRecord(e)' => status'[e] = status[e]
<1> USE DEF HasRecord, Recorded, Active, Terminal
<1>1. status \in [Execution -> Status]
  BY DEF Phased, TypeOK, ManagerTypeOK
<1>2. CASE UNCHANGED <<status, exitCode, total, successful, failed>>
  BY <1>2
<1>3. CASE AdmitExecution
  <2>1. request \in Execution /\ status[request] = "none"
    BY <1>3 DEF AdmitExecution, Advance, Phased, HandlerPhase, TypeOK, LoopTypeOK, Handling
  <2> QED BY <1>1, <1>3, <2>1 DEF AdmitExecution, RegisterExecution
<1>4. CASE \E x \in Execution : Executor(x)
  <2>1. PICK x \in Execution : ThreadStep(x)
    BY <1>4 DEF Executor
  <2>2. PICK to \in ThreadPC, s \in Status : Moves(x, to, s)
    BY <2>1, ThreadEffect DEF Phased
  <2>3. \/ s = status[x]
        \/ status[x] \in Active /\ s \in Recorded
    BY <2>2 DEF Moves, Starts, Ends
  <2>4. status' = [status EXCEPT ![x] = s]
    BY <2>2 DEF Moves
  <2> QED BY <1>1, <2>3, <2>4
<1>5. CASE SweepRecords
  <2>1. loop = "idle"
    BY <1>5 DEF SweepRecords
  <2> QED BY <1>5, <2>1, SweepEffect
<1>6. CASE Crash
  BY <1>6 DEF Crash, ForgetRecords
<1> QED BY <1>2, <1>3, <1>4, <1>5, <1>6, RegistryEffect

\* What is captured of an execution with a record grows, and its answer stays.
LEMMA OutputGrows ==
  ASSUME Backed, TypeOK', [Next]_vars, NEW e \in Execution, HasRecord(e)'
  PROVE  /\ Have(e) \in Nat /\ Have(e)' \in Nat /\ Have(e) <= Have(e)'
         /\ \A complete, code : Shown(e, complete, code) => Shown(e, complete, code)'
<1>1. Have(e) \in Nat /\ Have(e)' \in Nat
  BY LenProperties
  DEF Backed, Phased, TypeOK, CollectorTypeOK, Buffer, Have, HasBuffer
<1>2. CASE ~HasBuffer(e)
  BY <1>1, <1>2 DEF Have, Shown
<1>3. CASE HasBuffer(e)
  <2>1. buffer[e] \in Buffer /\ e \in DOMAIN buffer
    BY <1>3 DEF Backed, Phased, TypeOK, CollectorTypeOK, HasBuffer
  <2>2. ~Drops(e)
    <3>1. CASE Crash
      BY <3>1 DEF Crash, ForgetRecords, HasRecord, Recorded, Active, Terminal
    <3>2. CASE e \in expiring
      BY <3>2, RecordSteps
      DEF Backed, Stores, SweepPhase, HasRecord, Recorded, Active, Terminal
    <3> QED BY <3>1, <3>2 DEF Drops
  <2>3. HasBuffer(e)' /\ (buffer'[e] = buffer[e] \/ Appends(e) \/ Publishes(e))
    BY <2>1, <2>2, BufferSteps DEF Backed, Phased, HasBuffer
  <2>4. Len(buffer[e].stdout) <= Len(buffer'[e].stdout)
    <3>1. Len(buffer[e].stdout) \in Nat
      BY <2>1, LenProperties DEF Buffer
    <3>2. CASE Appends(e)
      BY <2>1, <3>2, CapturedGrows DEF Appends
    <3>3. CASE buffer'[e] = buffer[e] \/ Publishes(e)
      <4>1. buffer'[e].stdout = buffer[e].stdout
        BY <2>1, <3>3 DEF Publishes, Buffer
      <4> QED BY <3>1, <4>1
    <3> QED BY <2>3, <3>2, <3>3
  <2>5. buffer[e].complete => /\ buffer'[e].complete
                              /\ buffer'[e].exitCode = buffer[e].exitCode
    BY <2>1, <2>2, AnswerIsFinal, AppendsKeepAnswer DEF Backed, Phased
  <2> QED BY <1>1, <1>3, <2>3, <2>4, <2>5 DEF Have, Shown
<1> QED BY <1>2, <1>3

(***************************************************************************)
(* A step that answers no poll leaves what clients have seen true.         *)
(***************************************************************************)
LEMMA OthersKeepSeen ==
  ASSUME Backed, TypeOK', [Next]_vars, NEW p \in Poller, poll'[p] = poll[p],
         Unseen(p), Seen(p)
  PROVE  Unseen(p)' /\ Seen(p)'
<1> DEFINE e == poll[p].exec
<1>1. CASE e \notin Execution
  BY <1>1 DEF Unseen, Seen
<1>2. CASE e \in Execution
  <2>1. Unseen(p)'
    BY <1>2, RecordSteps DEF Backed, Unseen
  <2>2. Seen(p)'
    <3> SUFFICES ASSUME HasRecord(e)'
                 PROVE  Seen(p)'
      BY DEF Seen
    <3>1. /\ Have(e) \in Nat /\ Have(e)' \in Nat /\ Have(e) <= Have(e)'
          /\ \A complete, code : Shown(e, complete, code) => Shown(e, complete, code)'
      BY <1>2, OutputGrows
    <3>2. CASE status[e] = "none"
      BY <1>2, <3>1, <3>2 DEF Unseen, Seen
    <3>3. CASE HasRecord(e)
      <4>1. status[e] \in Terminal => status'[e] = status[e]
        BY <1>2, RecordSteps DEF Backed
      <4>2. poll[p].offset \in Nat
        BY DEF Backed, Phased, TypeOK, LoopTypeOK, Poll
      <4>3. poll[p].offset <= Have(e)'
        BY <1>2, <3>1, <3>3, <4>2 DEF Seen
      <4> QED BY <1>2, <3>1, <3>3, <4>1, <4>3 DEF Seen
    <3> QED BY <1>2, <3>2, <3>3, RecordSteps DEF Backed
  <2> QED BY <2>1, <2>2
<1> QED BY <1>1, <1>2

\* The same for a poll that is being answered.
LEMMA OthersKeepAsked ==
  ASSUME Backed, TypeOK', [Next]_vars, ~Crash, NEW p \in Poller, poll'[p] = poll[p],
         Asked(p), UNCHANGED snapshot, loop = "poll" => loop' = "poll"
  PROVE  Asked(p)'
<1> DEFINE e == poll[p].exec
<1> SUFFICES ASSUME poll[p].at = "status"
             PROVE  Asked(p)'
  BY DEF Asked
<1>1. e \in Execution /\ loop = "poll" /\ HasRecord(e)
  BY DEF Asked, Backed, Phased, TypeOK, LoopTypeOK
<1>2. HasRecord(e)'
  BY <1>1, RecordSteps DEF Backed
<1>3. /\ Have(e) \in Nat /\ Have(e)' \in Nat /\ Have(e) <= Have(e)'
      /\ \A complete, code : Shown(e, complete, code) => Shown(e, complete, code)'
  BY <1>1, <1>2, OutputGrows
<1>4. snapshot.stdoutOffset \in Nat
  BY DEF Backed, Phased, TypeOK, LoopTypeOK, Output
<1>5. snapshot.stdoutOffset <= Have(e)'
  BY <1>3, <1>4 DEF Asked
<1> QED BY <1>1, <1>2, <1>3, <1>5 DEF Asked
-----------------------------------------------------------------------------
\* A poll that is begun or refused.
LEMMA RefusedPoll ==
  ASSUME Backed, TypeOK', Polls, NEW p \in Poller, WithoutOutput(p)
  PROVE  /\ Polls'
         /\ UNCHANGED executorVars
         /\ \A q \in Poller \ {p} : poll'[q] = poll[q]
         /\ poll'[p].reply = poll[p].reply \/ poll'[p].reply.code \in {400, 404}
         /\ poll'[p].offset = poll[p].offset
<1>1. poll \in [Poller -> Poll]
  BY DEF Backed, Phased, TypeOK, LoopTypeOK
<1>2. poll[p].at # "idle" => poll[p].exec \in Execution
  BY DEF Backed, Phased, TypeOK, LoopTypeOK
<1>3. /\ loop = "idle" /\ UNCHANGED <<loop, snapshot, executorVars>>
      /\ \A q \in Poller \ {p} : poll'[q] = poll[q]
      /\ poll'[p].at # "status"
      /\ poll'[p].reply = poll[p].reply \/ poll'[p].reply.code \in {400, 404}
      /\ poll'[p].offset = poll[p].offset
      /\ poll'[p].exec = poll[p].exec \/ poll[p].exec = NoExecution
  BY <1>1, <1>2, WithoutOutputEffect
<1>4. \A q \in Poller : poll'[q].at # "status"
  BY <1>3 DEF Polls, Asked
<1>5. UNCHANGED <<status, buffer>>
  BY <1>3 DEF executorVars, managerVars
<1>6. \A e : Have(e)' = Have(e) /\ HasRecord(e)' = HasRecord(e)
             /\ \A complete, code : Shown(e, complete, code)' = Shown(e, complete, code)
  BY <1>5 DEF Have, HasRecord, HasBuffer, Shown
<1>7. ASSUME NEW q \in Poller \ {p}
      PROVE  Unseen(q)' /\ Seen(q)'
  BY <1>3, <1>5, <1>6 DEF Polls, Unseen, Seen
<1>8. Unseen(p)' /\ Seen(p)'
  <2>1. CASE poll'[p].exec = poll[p].exec
    BY <1>3, <1>5, <1>6, <2>1 DEF Polls, Unseen, Seen
  <2>2. CASE poll[p].exec = NoExecution
    <3>1. poll[p].reply.code # 200 /\ poll[p].offset = 0
      BY <2>2, ServiceAssumption DEF Polls, Unseen
    <3>2. \A e \in Execution : 0 <= Have(e)
      BY LenProperties DEF Have, HasBuffer, Backed, Phased, TypeOK, CollectorTypeOK, Buffer
    <3> QED BY <1>3, <1>6, <3>1, <3>2 DEF Unseen, Seen
  <2> QED BY <1>3, <2>1, <2>2
<1> QED BY <1>3, <1>4, <1>7, <1>8 DEF Polls, Asked, Alone, SnapshotWhole

\* A poll that takes its output.
LEMMA PollTakesOutput ==
  ASSUME Backed, TypeOK', Polls, NEW p \in Poller, PollOutput(p)
  PROVE  Polls'
<1> DEFINE e == poll[p].exec
<1>1. poll \in [Poller -> Poll] /\ e \in Execution /\ HasRecord(e) /\ loop = "idle"
  BY DEF Backed, Phased, TypeOK, LoopTypeOK, PollOutput
<1>2. /\ \A q \in Poller \ {p} : poll'[q] = poll[q]
      /\ poll'[p] = [poll[p] EXCEPT !.at = "status"] /\ poll[p] \in Poll
      /\ loop' = "poll" /\ UNCHANGED <<status, buffer>>
  BY <1>1 DEF PollOutput, executorVars, managerVars
<1>3. /\ poll'[p].at = "status" /\ poll'[p].exec = e /\ poll'[p].reply = poll[p].reply
      /\ poll'[p].offset = poll[p].offset
  BY <1>2 DEF Poll
<1>4. \A q \in Poller \ {p} : poll'[q].at # "status"
  BY <1>1, <1>2 DEF Polls, Asked
<1>5. \A x : Have(x)' = Have(x) /\ HasRecord(x)' = HasRecord(x)
             /\ \A complete, code : Shown(x, complete, code)' = Shown(x, complete, code)
  BY <1>2 DEF Have, HasRecord, HasBuffer, Shown
<1>6. ASSUME NEW q \in Poller
      PROVE  Unseen(q)' /\ Seen(q)'
  <2>1. /\ poll'[q].exec = poll[q].exec /\ poll'[q].reply = poll[q].reply
        /\ poll'[q].offset = poll[q].offset
    BY <1>2, <1>3
  <2>2. Unseen(q) /\ Seen(q)
    BY DEF Polls
  <2> QED BY <1>2, <1>5, <2>1, <2>2 DEF Unseen, Seen
<1>7. /\ snapshot'.complete => HasBuffer(e) /\ buffer[e].complete
      /\ HasBuffer(e) => /\ snapshot'.complete = buffer[e].complete
                         /\ snapshot'.exitCode = buffer[e].exitCode
      /\ ~HasBuffer(e) => ~snapshot'.complete /\ snapshot'.exitCode = NoExit
      /\ snapshot'.stdoutOffset = Have(e)
  BY DEF PollOutput, GetOutput, NoOutput, Have
<1>8. SnapshotWhole'
  BY <1>7 DEF SnapshotWhole, Backed, Whole, HasBuffer
<1>9. Asked(p)'
  <2>1. Have(e) \in Nat
    BY <1>1, LenProperties DEF Backed, Phased, TypeOK, CollectorTypeOK, Buffer, Have, HasBuffer
  <2>2. Shown(e, snapshot.complete, snapshot.exitCode)'
    BY <1>2, <1>7 DEF Shown, HasBuffer
  <2>3. /\ poll[p].offset <= Have(e)
        /\ poll[p].reply.code = 200 => Shown(e, poll[p].reply.complete, poll[p].reply.exitCode)
    BY <1>1 DEF Polls, Seen
  <2>4. poll[p].reply.code = 200 /\ poll[p].reply.complete => snapshot'.complete
    BY <1>7, <2>3 DEF Shown
  <2> QED BY <1>1, <1>2, <1>3, <1>5, <1>7, <2>1, <2>2, <2>3, <2>4 DEF Asked
<1> QED BY <1>2, <1>4, <1>6, <1>8, <1>9 DEF Polls, Asked, Alone

\* A poll that is answered.
LEMMA PollIsAnswered ==
  ASSUME Backed, TypeOK', Polls, NEW p \in Poller, PollStatus(p)
  PROVE  Polls'
<1> DEFINE e == poll[p].exec
<1>1. /\ poll \in [Poller -> Poll] /\ e \in Execution /\ HasRecord(e)
      /\ Shown(e, snapshot.complete, snapshot.exitCode)
      /\ snapshot.stdoutOffset <= Have(e)
  BY DEF Backed, Phased, TypeOK, LoopTypeOK, PollStatus, Polls, Asked
<1>2. /\ \A q \in Poller \ {p} : poll'[q] = poll[q]
      /\ UNCHANGED <<status, buffer>> /\ snapshot' = NoOutput
  BY <1>1 DEF PollStatus, executorVars, managerVars
<1>3. /\ poll'[p].at = "idle" /\ poll'[p].exec = e
      /\ poll'[p].offset = snapshot.stdoutOffset
      /\ poll'[p].reply = [code |-> 200, status |-> status[e],
                           complete |-> snapshot.complete,
                           exitCode |-> snapshot.exitCode]
  BY <1>1 DEF PollStatus, Poll
<1>4. \A q \in Poller : poll'[q].at # "status"
  <2>1. poll[p].at = "status" /\ Alone
    BY DEF PollStatus, Polls
  <2> QED BY <1>2, <1>3, <2>1 DEF Alone
<1>5. \A x : Have(x)' = Have(x) /\ HasRecord(x)' = HasRecord(x)
             /\ \A complete, code : Shown(x, complete, code)' = Shown(x, complete, code)
  BY <1>2 DEF Have, HasRecord, HasBuffer, Shown
<1>6. ASSUME NEW q \in Poller \ {p}
      PROVE  Unseen(q)' /\ Seen(q)'
  BY <1>2, <1>5 DEF Polls, Unseen, Seen
<1>7. Unseen(p)' /\ Seen(p)'
  BY <1>1, <1>2, <1>3, <1>5 DEF Unseen, Seen, HasRecord, Recorded, Active, Terminal
<1> QED BY <1>2, <1>4, <1>6, <1>7 DEF Polls, Asked, Alone, SnapshotWhole, NoOutput
-----------------------------------------------------------------------------
\* Every step keeps what clients have seen true of the stores.
LEMMA PollsStep == Backed /\ TypeOK' /\ Polls /\ [Next]_vars => Polls'
<1> SUFFICES ASSUME Backed, TypeOK', Polls, [Next]_vars
             PROVE  Polls'
  OBVIOUS
<1>1. CASE \E p \in Poller : Polling(p)
  BY <1>1, RefusedPoll, PollTakesOutput, PollIsAnswered DEF Polling, WithoutOutput
<1>2. CASE Crash
  <2>1. \A p \in Poller : poll'[p] = NoPoll
    BY <1>2 DEF Crash
  <2>2. snapshot' = NoOutput
    BY <1>2 DEF Crash
  <2>3. ASSUME NEW p \in Poller
        PROVE  Unseen(p)' /\ Seen(p)' /\ Asked(p)' /\ poll'[p].at # "status"
    <3>1. /\ poll'[p].at = "idle" /\ poll'[p].exec = NoExecution
          /\ poll'[p].offset = 0 /\ poll'[p].reply.code = 0
      BY <2>1, ClientUnknown
    <3> QED BY <3>1, ServiceAssumption DEF Unseen, Seen, Asked
  <2> QED BY <2>2, <2>3 DEF Polls, Alone, SnapshotWhole, NoOutput
<1>3. CASE /\ ~Crash
           /\ UNCHANGED <<poll, snapshot>>
           /\ loop = "poll" => loop' = "poll"
  <2>1. \A p \in Poller : Unseen(p)' /\ Seen(p)' /\ Asked(p)'
    BY <1>3, OthersKeepSeen, OthersKeepAsked DEF Polls
  <2> QED BY <1>3, <2>1 DEF Polls, Alone, SnapshotWhole
<1>4. CASE Execute \/ Cleanup
  <2>1. ~Crash => /\ UNCHANGED <<poll, snapshot>>
                  /\ loop = "poll" => loop' = "poll"
    BY <1>4
    DEF Execute, CloneRepository, AcceptScript, RejectScript, AdmitExecution,
        RejectAtCapacity, AttestExecution, AttestationFails, StoreContext,
        HandOff, HandOffFails, Respond, Cleanup, SweepRecords, DropContexts,
        DropBuffers, Advance, Abandon
  <2> QED BY <1>2, <1>3, <2>1
<1>5. CASE \/ UNCHANGED vars \/ Restart
           \/ \E e \in Execution : Executor(e) \/ Script(e) \/ Age(e)
           \/ \E e \in Execution : \E s \in Stream : Streams(e, s)
  <2>1. UNCHANGED <<poll, snapshot, loop>>
    BY <1>5 DEF vars, loopVars, Restart, Executor, Script, Age, Streams
  <2> QED BY <1>2, <1>3, <2>1
<1> QED BY <1>1, <1>2, <1>4, <1>5 DEF Next

\* The invariants of this module and of the ones before it.
LEMMA BackedInvariant == Spec => []Backed
BY AnswersInvariant, UnansweredInvariant, WholeInvariant, StoresInvariant, TypeCorrect,
   Phases, PTL DEF Backed, Phased

\* What clients have seen holds in every behaviour.
LEMMA PollsInvariant == Spec => []Polls
<1>1. Init => Polls
  BY ServiceAssumption, ClientUnknown
  DEF Init, Polls, Unseen, Seen, Asked, Alone, SnapshotWhole, NoOutput
<1> QED BY <1>1, PollsStep, BackedInvariant, TypeCorrect, PTL DEF Spec

\* A client hears nothing new, is refused, or is answered from the snapshot.
LEMMA ReplySteps ==
  ASSUME Backed, TypeOK', Polls, [Next]_vars, NEW p \in Poller
  PROVE  \/ poll'[p].reply = poll[p].reply /\ poll'[p].offset = poll[p].offset
         \/ poll'[p].reply.code \in {0, 400, 404}
         \/ /\ HasRecord(poll[p].exec) /\ poll[p].exec \in Execution
            /\ poll[p].at = "status"
            /\ poll'[p].offset = snapshot.stdoutOffset
            /\ poll'[p].reply = [code |-> 200, status |-> status[poll[p].exec],
                                 complete |-> snapshot.complete,
                                 exitCode |-> snapshot.exitCode]
<1>t. poll \in [Poller -> Poll]
  BY DEF Backed, Phased, TypeOK, LoopTypeOK
<1>1. CASE poll'[p] = poll[p]
  BY <1>1
<1>2. ASSUME NEW x \in Poller, Polling(x)
      PROVE  \/ poll'[p].reply = poll[p].reply /\ poll'[p].offset = poll[p].offset
             \/ poll'[p].reply.code \in {0, 400, 404}
             \/ p = x /\ PollStatus(x)
  <2>1. CASE WithoutOutput(x)
    BY <1>1, <2>1, RefusedPoll
  <2>2. CASE PollOutput(x)
    BY <1>t, <2>2 DEF PollOutput, Poll
  <2>3. CASE PollStatus(x)
    BY <1>t, <2>3 DEF PollStatus
  <2> QED BY <1>2, <2>1, <2>2, <2>3 DEF Polling, WithoutOutput
<1>3. CASE PollStatus(p)
  <2>1. poll[p].at = "status" /\ poll[p].exec \in Execution /\ HasRecord(poll[p].exec)
    BY <1>3 DEF PollStatus, Polls, Asked, Backed, Phased, TypeOK, LoopTypeOK
  <2>2. /\ poll'[p].offset = snapshot.stdoutOffset
        /\ poll'[p].reply = [code |-> 200, status |-> status[poll[p].exec],
                             complete |-> snapshot.complete,
                             exitCode |-> snapshot.exitCode]
    BY <1>t, <1>3 DEF PollStatus, Poll
  <2> QED BY <2>1, <2>2
<1>4. CASE Crash
  BY <1>4, ClientUnknown DEF Crash
<1>5. CASE Execute \/ Cleanup
  BY <1>1, <1>5
  DEF Execute, CloneRepository, AcceptScript, RejectScript, AdmitExecution,
      RejectAtCapacity, AttestExecution, AttestationFails, StoreContext,
      HandOff, HandOffFails, Respond, Cleanup, SweepRecords, DropContexts,
      DropBuffers, Advance, Abandon
<1>6. CASE \/ UNCHANGED vars \/ Restart
           \/ \E e \in Execution : Executor(e) \/ Script(e) \/ Age(e)
           \/ \E e \in Execution : \E s \in Stream : Streams(e, s)
  BY <1>1, <1>6 DEF vars, loopVars, Restart, Executor, Script, Age, Streams
<1> QED BY <1>2, <1>3, <1>4, <1>5, <1>6 DEF Next

(***************************************************************************)
(* The parts of a reply go together, although one is read from the output  *)
(* store and, later, the other from the record: an exit code exactly with  *)
(* a complete output, and a verdict that goes with it.                     *)
(***************************************************************************)
THEOREM RepliesAreConsistent == Spec => []ReplyConsistent
<1>1. Init => ReplyConsistent
  BY ClientUnknown DEF Init, ReplyConsistent
<1>2. Backed /\ TypeOK' /\ Polls /\ ReplyConsistent /\ [Next]_vars => ReplyConsistent'
  <2> SUFFICES ASSUME Backed, TypeOK', Polls, ReplyConsistent, [Next]_vars,
                      NEW p \in Poller, poll'[p].reply.code = 200
               PROVE  LET r == poll'[p].reply
                      IN  /\ r.complete <=> r.exitCode # NoExit
                          /\ r.complete /\ r.status \in Terminal =>
                               (r.status = "completed" <=> r.exitCode = 0)
    BY DEF ReplyConsistent
  <2>1. CASE poll'[p].reply = poll[p].reply
    BY <2>1 DEF ReplyConsistent
  <2>2. CASE /\ poll[p].exec \in Execution /\ poll[p].at = "status"
             /\ poll'[p].reply = [code |-> 200, status |-> status[poll[p].exec],
                                  complete |-> snapshot.complete,
                                  exitCode |-> snapshot.exitCode]
    <3> DEFINE e == poll[p].exec
    <3>1. SnapshotWhole /\ Shown(e, snapshot.complete, snapshot.exitCode)
      BY <2>2 DEF Polls, Asked
    <3>2. snapshot.complete /\ status[e] \in Terminal =>
            (status[e] = "completed" <=> snapshot.exitCode = 0)
      BY <2>2, <3>1 DEF Shown, Backed, Answers, VerdictAgreement
    <3> QED BY <2>2, <3>1, <3>2 DEF SnapshotWhole
  <2> QED BY <2>1, <2>2, ReplySteps
<1> QED BY <1>1, <1>2, PollsInvariant, BackedInvariant, TypeCorrect, PTL DEF Spec

(***************************************************************************)
(* From one answer to the next a client never loses what it has: offsets   *)
(* do not go back, an exit code and a verdict stay.                        *)
(***************************************************************************)
THEOREM PollsAreMonotone == Spec => PollsMonotone
<1> DEFINE Onward(p) ==
             LET old == poll[p].reply
                 new == poll'[p].reply
             IN  old.code = 200 /\ new.code = 200 =>
                   /\ poll'[p].offset >= poll[p].offset
                   /\ old.complete => new.complete /\ new.exitCode = old.exitCode
                   /\ old.status \in Terminal => new.status = old.status
<1>1. Backed /\ TypeOK' /\ Polls /\ [Next]_vars => [\A p \in Poller : Onward(p)]_vars
  <2> SUFFICES ASSUME Backed, TypeOK', Polls, [Next]_vars, NEW p \in Poller,
                      poll[p].reply.code = 200, poll'[p].reply.code = 200
               PROVE  Onward(p)
    OBVIOUS
  <2>t. poll[p].offset \in Nat /\ snapshot.stdoutOffset \in Nat
    BY DEF Backed, Phased, TypeOK, LoopTypeOK, Poll, Output
  <2>1. CASE poll'[p].reply = poll[p].reply /\ poll'[p].offset = poll[p].offset
    BY <2>t, <2>1
  <2>2. CASE /\ HasRecord(poll[p].exec) /\ poll[p].exec \in Execution
             /\ poll[p].at = "status"
             /\ poll'[p].offset = snapshot.stdoutOffset
             /\ poll'[p].reply = [code |-> 200, status |-> status[poll[p].exec],
                                  complete |-> snapshot.complete,
                                  exitCode |-> snapshot.exitCode]
    <3> DEFINE e == poll[p].exec
               r == poll[p].reply
    <3>1. /\ Shown(e, snapshot.complete, snapshot.exitCode)
          /\ poll[p].offset <= snapshot.stdoutOffset
          /\ r.complete => snapshot.complete
      BY <2>2 DEF Polls, Asked
    <3>2. Shown(e, r.complete, r.exitCode) /\ (r.status \in Terminal => status[e] = r.status)
      BY <2>2 DEF Polls, Seen
    <3>3. r.complete => snapshot.exitCode = r.exitCode
      BY <3>1, <3>2 DEF Shown
    <3> QED BY <2>t, <2>2, <3>1, <3>2, <3>3
  <2>3. poll'[p].reply.code \notin {0, 400, 404}
    OBVIOUS
  <2> HIDE DEF Onward
  <2> QED BY <2>1, <2>2, <2>3, ReplySteps
<1> QED BY <1>1, PollsInvariant, BackedInvariant, TypeCorrect, PTL DEF Spec, PollsMonotone
-----------------------------------------------------------------------------
(***************************************************************************)
(* The text of an output.  A buffer holds what its log-stream threads have *)
(* taken from the daemon, in order, and all of it unless it is truncated.  *)
(***************************************************************************)
Text(b, s) == IF s = "stdout" THEN b.stdout ELSE b.stderr

InOrder(text) == \A k \in 1 .. Len(text) : text[k] = k

\* Text that continues where the text before it ends stays in order.
LEMMA AppendInOrder ==
  ASSUME NEW text \in Seq(Nat), InOrder(text), NEW length \in Nat, NEW n \in 0 .. length
  PROVE  LET kept == SubSeq(Bytes(Len(text), length), 1, n)
         IN  /\ kept \in Seq(Nat)
             /\ text \o kept \in Seq(Nat) /\ Len(text \o kept) = Len(text) + n
             /\ InOrder(text \o kept)
<1> DEFINE from == Len(text)
           chunk == Bytes(from, length)
           kept == SubSeq(chunk, 1, n)
<1>1. from \in Nat /\ n \in Nat /\ n <= length
  BY LenProperties
<1>2. chunk \in Seq(Nat) /\ Len(chunk) = length
  BY <1>1, BytesAreSequence
<1>3. /\ kept \in Seq(Nat) /\ Len(kept) = n
      /\ \A k \in 1 .. n : kept[k] = from + k
  <2>1. kept \in Seq(Nat) /\ Len(kept) = n
    BY <1>1, <1>2, SubSeqProperties
  <2>2. ASSUME NEW k \in 1 .. n
        PROVE  kept[k] = from + k
    <3>1. kept[k] = chunk[k] /\ k \in 1 .. length
      BY <1>1, <1>2, SubSeqProperties
    <3> QED BY <3>1 DEF Bytes
  <2> QED BY <2>1, <2>2
<1> HIDE DEF from, kept
<1>4. /\ text \o kept \in Seq(Nat) /\ Len(text \o kept) = Len(text) + n
      /\ \A k \in 1 .. Len(text) + n :
           (text \o kept)[k] = IF k <= Len(text) THEN text[k] ELSE kept[k - Len(text)]
  BY <1>3, ConcatProperties
<1>5. ASSUME NEW k \in 1 .. Len(text) + n
      PROVE  (text \o kept)[k] = k
  <2>1. CASE k <= from
    BY <1>1, <1>4, <2>1 DEF InOrder, from
  <2>2. CASE ~(k <= from)
    <3>1. k - from \in 1 .. n
      BY <1>1, <2>2 DEF from
    <3>2. (text \o kept)[k] = from + (k - from)
      BY <1>3, <1>4, <2>2, <3>1 DEF from
    <3> QED BY <1>1, <3>2
  <2> QED BY <2>1, <2>2
<1> QED BY <1>3, <1>4, <1>5 DEF InOrder, kept, from

-----------------------------------------------------------------------------
\* What a buffer of execution e holds, beside its answer.
Holds(b, taken) ==
  /\ InOrder(b.stdout) /\ InOrder(b.stderr)
  /\ Size(b) <= MaxOutput
  /\ b.truncated => Size(b) = MaxOutput
  /\ ~b.truncated => \A s \in Stream : Len(Text(b, s)) = taken[s]

LEMMA CapturedHolds ==
  ASSUME NEW b \in Buffer, NEW s \in Stream, NEW length \in Nat, length > 0,
         NEW taken \in [Stream -> Nat], Holds(b, taken)
  PROVE  Holds(Captured(b, s, Bytes(taken[s], length)),
               [taken EXCEPT ![s] = taken[s] + length])
<1> DEFINE chunk == Bytes(taken[s], length)
           remaining == MaxOutput - Size(b)
           n == IF Len(chunk) > remaining THEN remaining ELSE Len(chunk)
           kept == SubSeq(chunk, 1, n)
           after == [taken EXCEPT ![s] = taken[s] + length]
<1>1. /\ b.stdout \in Seq(Nat) /\ b.stderr \in Seq(Nat)
      /\ Text(b, s) \in Seq(Nat)
      /\ Len(b.stdout) \in Nat /\ Len(b.stderr) \in Nat /\ Len(Text(b, s)) \in Nat
  BY LenProperties DEF Buffer, Text
<1>2. Size(b) \in Nat /\ MaxOutput \in Nat /\ taken[s] \in Nat
  BY <1>1, SumType, CollectorAssumption, Zenon DEF Size
<1>3. chunk \in Seq(Nat) /\ Len(chunk) = length /\ chunk # <<>>
  <2>1. chunk \in Seq(Nat) /\ Len(chunk) = length
    BY <1>2, BytesAreSequence
  <2> QED BY <2>1
<1>4. CASE b.truncated
  <2>1. Captured(b, s, chunk) = b
    BY <1>4 DEF Captured
  <2> QED BY <1>4, <2>1 DEF Holds
<1>5. CASE ~b.truncated /\ remaining <= 0
  <2>1. PICK c : c = Captured(b, s, chunk)
    OBVIOUS
  <2>2. c = [b EXCEPT !.truncated = TRUE]
    BY <1>3, <1>5, <2>1 DEF Captured
  <2>3. c.stdout = b.stdout /\ c.stderr = b.stderr /\ c.truncated
    BY <2>2 DEF Buffer
  <2>4. Size(b) = MaxOutput
    BY <1>2, <1>5 DEF Holds
  <2> QED BY <2>1, <2>3, <2>4 DEF Holds, Size
<1>6. CASE ~b.truncated /\ ~(remaining <= 0)
  <2>1. n \in Nat /\ n <= length /\ Size(b) + n <= MaxOutput
    BY <1>2, <1>3, <1>6, Room
  <2>2. PICK c : c = Captured(b, s, chunk)
    OBVIOUS
  <2>3. /\ c.stdout = IF s = "stdout" THEN b.stdout \o kept ELSE b.stdout
        /\ c.stderr = IF s = "stderr" THEN b.stderr \o kept ELSE b.stderr
        /\ c.truncated = (Len(chunk) > remaining)
    BY <1>3, <1>6, <2>2 DEF Captured, Buffer
  <2>4. Len(Text(b, s)) = taken[s] /\ InOrder(Text(b, s))
    BY <1>6 DEF Holds, Text
  <2>5. Text(c, s) = Text(b, s) \o kept
    BY <2>3, ExecutorAssumption DEF Text
  <2>6. Len(Text(c, s)) = taken[s] + n /\ InOrder(Text(c, s))
    <3>1. kept = SubSeq(Bytes(Len(Text(b, s)), length), 1, n) /\ n \in 0 .. length
      BY <2>1, <2>4
    <3>2. Len(Text(b, s) \o kept) = Len(Text(b, s)) + n /\ InOrder(Text(b, s) \o kept)
      <4>1. PICK text : text = Text(b, s)
        OBVIOUS
      <4>2. text \in Seq(Nat) /\ InOrder(text) /\ n \in 0 .. length
        BY <1>1, <2>4, <3>1, <4>1
      <4> HIDE DEF n, kept
      <4>3. /\ Len(text \o SubSeq(Bytes(Len(text), length), 1, n)) = Len(text) + n
            /\ InOrder(text \o SubSeq(Bytes(Len(text), length), 1, n))
        BY <4>2, AppendInOrder
      <4> QED BY <3>1, <4>1, <4>3
    <3> HIDE DEF kept, n
    <3> QED BY <2>4, <2>5, <3>2
  <2>7. ASSUME NEW t \in {"stdout", "stderr"}, t # s
        PROVE  Text(c, t) = Text(b, t)
    BY <2>3, <2>7 DEF Text
  <2>8. InOrder(c.stdout) /\ InOrder(c.stderr)
    <3>1. CASE s = "stdout"
      BY <2>3, <2>6, <3>1 DEF Holds, Text
    <3>2. CASE s = "stderr"
      BY <2>3, <2>6, <3>2 DEF Holds, Text
    <3> QED BY <3>1, <3>2, ExecutorAssumption
  <2> HIDE DEF kept
  <2>9. Size(c) = Size(b) + n
    <3>1. CASE s = "stdout"
      <4>1. Len(c.stdout) = Len(b.stdout) + n /\ c.stderr = b.stderr
        BY <2>3, <2>4, <2>6, <3>1 DEF Text
      <4>2. Size(c) = (Len(b.stdout) + n) + Len(b.stderr)
        BY <4>1 DEF Size
      <4>3. Size(b) = Len(b.stdout) + Len(b.stderr)
        BY DEF Size
      <4>4. Len(b.stdout) \in Nat /\ Len(b.stderr) \in Nat /\ n \in Nat
        BY <1>1, <2>1
      <4> HIDE DEF n
      <4>5. (Len(b.stdout) + n) + Len(b.stderr) = (Len(b.stdout) + Len(b.stderr)) + n
        BY <4>4, SumOrder, ZenonT(30)
      <4> QED BY <4>2, <4>3, <4>5, Zenon
    <3>2. CASE s = "stderr"
      <4>1. Len(c.stderr) = Len(b.stderr) + n /\ c.stdout = b.stdout
        BY <2>3, <2>4, <2>6, <3>2 DEF Text
      <4>2. Size(c) = Len(b.stdout) + (Len(b.stderr) + n)
        BY <4>1 DEF Size
      <4>3. Size(b) = Len(b.stdout) + Len(b.stderr)
        BY DEF Size
      <4>4. Len(b.stdout) \in Nat /\ Len(b.stderr) \in Nat /\ n \in Nat
        BY <1>1, <2>1
      <4> HIDE DEF n
      <4>5. Len(b.stdout) + (Len(b.stderr) + n) = (Len(b.stdout) + Len(b.stderr)) + n
        BY <4>4, SumOrder, ZenonT(30)
      <4> QED BY <4>2, <4>3, <4>5, Zenon
    <3> QED BY <3>1, <3>2, ExecutorAssumption
  <2>10. c.truncated => Size(c) = MaxOutput
    <3>1. c.truncated => n = MaxOutput - Size(b)
      BY <2>3
    <3> QED BY <1>2, <2>9, <3>1
  <2>11. ~c.truncated => \A t \in Stream : Len(Text(c, t)) = after[t]
    <3>1. ~c.truncated => n = length
      BY <1>3, <2>3
    <3>2. \A t \in Stream : t # s => after[t] = taken[t] /\ Len(Text(c, t)) = taken[t]
      BY <1>6, <2>7, ExecutorAssumption DEF Holds
    <3>3. after[s] = taken[s] + length
      OBVIOUS
    <3> QED BY <2>6, <3>1, <3>2, <3>3
  <2>12. Size(c) <= MaxOutput
    BY <2>1, <2>9
  <2> QED BY <2>2, <2>8, <2>10, <2>11, <2>12 DEF Holds
<1> QED BY <1>4, <1>5, <1>6

-----------------------------------------------------------------------------
\* A thread whose output buffer is not there yet.
NotStarted == {"idle", "lookup", "buffer"}

TextFits(e) ==
  /\ pc[e] \in NotStarted => \A s \in Stream : stream[e][s] # "open" /\ consumed[e][s] = 0
  /\ HasBuffer(e) => Holds(buffer[e], consumed[e])

Texts == \A e \in Execution : TextFits(e)

\* An empty buffer holds the nothing that has been taken.
LEMMA EmptyHolds ==
  ASSUME NEW taken \in [Stream -> Nat], \A s \in Stream : taken[s] = 0
  PROVE  Holds(EmptyBuffer, taken)
<1>1. /\ Size(EmptyBuffer) = 0 /\ ~EmptyBuffer.truncated
      /\ EmptyBuffer.stdout = <<>> /\ EmptyBuffer.stderr = <<>>
  BY DEF EmptyBuffer, Size
<1>2. InOrder(<<>>)
  BY DEF InOrder
<1>3. \A s \in Stream : Len(Text(EmptyBuffer, s)) = taken[s]
  BY <1>1 DEF Text
<1> QED BY <1>1, <1>2, <1>3, CollectorAssumption DEF Holds

\* What it holds is untouched when its answer is published.
LEMMA PublishHolds ==
  ASSUME TypeOK, NEW e \in DOMAIN buffer, Publishes(e), NEW taken, Holds(buffer[e], taken)
  PROVE  Holds(buffer'[e], taken)
<1>1. buffer[e] \in Buffer
  BY DEF TypeOK, CollectorTypeOK
<1>2. /\ buffer'[e].stdout = buffer[e].stdout
      /\ buffer'[e].stderr = buffer[e].stderr
      /\ buffer'[e].truncated = buffer[e].truncated
  BY <1>1 DEF Publishes, Buffer
<1> QED BY <1>2 DEF Holds, Size, Text

\* Before it has a buffer a thread touches no stream; it never takes a byte.
LEMMA ThreadTakesNothing ==
  ASSUME TypeOK, NEW e \in Execution, ThreadStep(e)
  PROVE  /\ UNCHANGED consumed
         /\ pc'[e] \in NotStarted => pc[e] \in NotStarted /\ UNCHANGED stream
<1>1. pc \in [Execution -> ThreadPC]
  BY DEF TypeOK, ExecutorTypeOK
<1> QED
  BY <1>1
  DEF ThreadStep, Goto, NotStarted, LookUpRecord, CreateOutputBuffer, MarkRunning,
      CreateContainer, CreateContainerFails, StartContainer, StartContainerFails,
      StartStreams, StartStreamsFails, WaitReturns, WaitRaises, StopContainer, StopFails,
      JoinStreams, MarkComplete, RecordVerdict, HandleException, RecordFailure, Untrack,
      RemoveContainer, RemoveContainerFails, RemoveCloneDir

\* A thread keeps what its buffer holds and says so of a new one.
LEMMA ThreadKeepsText ==
  ASSUME TypeOK, NEW e \in Execution, TextFits(e), NEW x \in Execution, Executor(x)
  PROVE  TextFits(e)'
<1>1. ThreadStep(x) /\ UNCHANGED consumed
  BY ThreadTakesNothing DEF Executor
<1>2. consumed[e] \in [Stream -> Nat]
  BY DEF TypeOK, ExecutorTypeOK
<1>3. pc'[e] \in NotStarted => pc[e] \in NotStarted /\ stream'[e] = stream[e]
  <2>1. CASE x = e
    BY <1>1, <2>1, ThreadTakesNothing
  <2>2. CASE x # e
    BY <1>1, <2>2, ThreadLeavesHost, ThreadLeavesStreams
  <2> QED BY <2>1, <2>2
<1>4. HasBuffer(e)' => Holds(buffer'[e], consumed[e])
  <2>1. CASE HasBuffer(e)
    <3>1. e \in DOMAIN buffer /\ Holds(buffer[e], consumed[e])
      BY <2>1 DEF TextFits, HasBuffer
    <3>2. buffer'[e] = buffer[e] \/ Publishes(e)
      BY <1>1, <3>1, ThreadPublishes
    <3> QED BY <3>1, <3>2, PublishHolds
  <2>2. CASE ~HasBuffer(e) /\ HasBuffer(e)'
    <3>1. x = e /\ pc[e] = "buffer"
      <4>1. e \notin DOMAIN buffer /\ e \in DOMAIN buffer'
        BY <2>2 DEF HasBuffer
      <4>2. \/ DOMAIN buffer' = DOMAIN buffer
            \/ pc[x] = "buffer" /\ DOMAIN buffer' = DOMAIN buffer \cup {x}
        BY <1>1, ThreadDomain
      <4> QED BY <4>1, <4>2
    <3>2. buffer'[e] = EmptyBuffer
      <4>1. Next
        BY DEF Next
      <4> QED BY <2>2, <4>1, BufferBirth DEF HasBuffer
    <3> QED BY <1>2, <3>1, <3>2, EmptyHolds DEF TextFits, NotStarted
  <2> QED BY <2>1, <2>2
<1> QED BY <1>1, <1>3, <1>4 DEF TextFits

\* A log-stream thread appends what it takes.
LEMMA StreamKeepsText ==
  ASSUME TypeOK, NEW e \in Execution, TextFits(e),
         NEW x \in Execution, NEW s \in Stream, StreamStep(x, s)
  PROVE  TextFits(e)'
<1>1. /\ consumed \in [Execution -> [Stream -> Nat]] /\ buffer \in [DOMAIN buffer -> Buffer]
      /\ stream \in [Execution -> [Stream -> StreamState]]
      /\ container \in [Execution -> Container]
      /\ consumed[x][s] \in Nat /\ container[x].out[s] \in Nat
  BY DEF TypeOK, ExecutorTypeOK, CollectorTypeOK, Container
<1>2. CASE UNCHANGED <<consumed, buffer>>
  <2>1. /\ UNCHANGED pc
        /\ stream' = stream \/ stream' = [stream EXCEPT ![x][s] = "done"]
    BY DEF StreamStep, StreamChunk, StreamEnds
  <2>2. \A t \in Stream : stream'[e][t] \in {stream[e][t], "done"}
    BY <1>1, <2>1
  <2> QED BY <1>2, <2>1, <2>2 DEF TextFits, HasBuffer
<1>3. CASE StreamChunk(x, s) /\ HasBuffer(x)
  <2>1. PICK last \in consumed[x][s] + 1 .. container[x].out[s] :
          /\ CaptureOutput(x, s, [k \in 1 .. last - consumed[x][s] |-> consumed[x][s] + k])
          /\ consumed' = [consumed EXCEPT ![x][s] = last]
    BY <1>3 DEF StreamChunk
  <2> DEFINE length == last - consumed[x][s]
  <2>2. length \in Nat /\ length > 0 /\ last = consumed[x][s] + length
    BY <1>1
  <2>3. UNCHANGED <<pc, stream>> /\ stream[x][s] = "open"
    BY <1>3 DEF StreamChunk
  <2>4. CASE x # e
    <3>1. consumed'[e] = consumed[e]
      BY <1>1, <2>1, <2>4
    <3>2. HasBuffer(e)' = HasBuffer(e) /\ (HasBuffer(e) => buffer'[e] = buffer[e])
      BY <1>1, <2>1, <2>4 DEF CaptureOutput, HasBuffer
    <3> QED BY <2>3, <3>1, <3>2 DEF TextFits
  <2>5. CASE x = e
    <3>1. buffer'[e] = Captured(buffer[e], s, Bytes(consumed[e][s], length))
      BY <1>1, <1>3, <2>1, <2>5 DEF CaptureOutput, HasBuffer, Bytes
    <3>2. consumed'[e] = [consumed[e] EXCEPT ![s] = consumed[e][s] + length]
      BY <1>1, <2>1, <2>2, <2>5
    <3> HIDE DEF length
    <3>3. buffer[e] \in Buffer /\ consumed[e] \in [Stream -> Nat]
      BY <1>1, <1>3, <2>5 DEF HasBuffer
    <3>4. Holds(buffer'[e], consumed'[e])
      BY <1>3, <2>2, <2>5, <3>1, <3>2, <3>3, CapturedHolds DEF TextFits
    <3>5. pc'[e] \notin NotStarted
      BY <2>3, <2>5 DEF TextFits
    <3> QED BY <3>4, <3>5 DEF TextFits
  <2> QED BY <2>4, <2>5
<1> QED BY <1>2, <1>3 DEF StreamStep, StreamChunk, StreamEnds

\* So does every other step.
LEMMA TextStep ==
  ASSUME Phased, [Next]_vars, NEW e \in Execution, TextFits(e)
  PROVE  TextFits(e)'
<1>1. pc \in [Execution -> ThreadPC]
  BY DEF Phased, TypeOK, ExecutorTypeOK
<1>2. CASE UNCHANGED <<pc, stream, consumed, buffer>>
  BY <1>2 DEF TextFits, HasBuffer
<1>3. CASE HandOff
  <2>1. /\ request \in Execution /\ pc[request] = "idle"
        /\ UNCHANGED <<stream, consumed, buffer>>
        /\ pc' = [pc EXCEPT ![request] = "lookup"]
    BY <1>3 DEF HandOff, Advance, Phased, HandlerPhase, TypeOK, LoopTypeOK, Handling
  <2>2. pc'[e] \in NotStarted => pc[e] \in NotStarted
    BY <1>1, <2>1 DEF NotStarted
  <2> QED BY <2>1, <2>2 DEF TextFits, HasBuffer
<1>4. CASE DropBuffers
  BY <1>4 DEF DropBuffers, RemoveOutputs, threadVars, TextFits, HasBuffer
<1>5. CASE Execute \/ Cleanup
  BY <1>2, <1>3, <1>4, <1>5
  DEF Execute, CloneRepository, AcceptScript, RejectScript, AdmitExecution,
      RejectAtCapacity, AttestExecution, AttestationFails, StoreContext,
      HandOffFails, Respond, Cleanup, SweepRecords, DropContexts,
      Advance, Abandon, executorVars, threadVars
<1>6. CASE \E p \in Poller : Polling(p)
  BY <1>2, <1>6, PollingFrame DEF executorVars, threadVars
<1>7. CASE \E x \in Execution : Executor(x)
  BY <1>7, ThreadKeepsText DEF Phased
<1>8. CASE \E x \in Execution : \E s \in Stream : Streams(x, s)
  BY <1>8, StreamKeepsText DEF Phased, Streams
<1>9. CASE UNCHANGED vars \/ Restart \/ \E x \in Execution : Age(x) \/ Script(x)
  BY <1>2, <1>9 DEF vars, executorVars, threadVars, Restart, Age, Script, ScriptStep,
                    ScriptExits, ScriptWrites
<1>10. CASE Crash
  BY <1>10 DEF Crash, RemoveOutputs, TextFits, HasBuffer
<1> QED BY <1>5, <1>6, <1>7, <1>8, <1>9, <1>10 DEF Next

\* Hence in every behaviour.
LEMMA TextInvariant == Spec => []Texts
<1>1. Init => Texts
  BY DEF Init, ThreadInit, CollectorInit, Texts, TextFits, HasBuffer
<1>2. Phased /\ Texts /\ [Next]_vars => Texts'
  BY TextStep DEF Texts
<1> QED BY <1>1, <1>2, TypeCorrect, Phases, PTL DEF Spec, Phased

-----------------------------------------------------------------------------
(***************************************************************************)
(* The text a client has.  A rendered text shows, from an offset on, every *)
(* byte in its place or as a replacement of half a character.              *)
(***************************************************************************)
Shows(character, k) ==
  character = k \/ (character = Replacement /\ {k - 1, k} \cap WideLead # {})

Rendered(text, from) == \A k \in 1 .. Len(text) : Shows(text[k], from + k)

Reassembled(p) ==
  /\ Len(poll[p].stdout) = poll[p].offset
  /\ Rendered(poll[p].stdout, 0)
  /\ poll[p].at = "status" =>
       /\ Len(snapshot.stdout) = snapshot.stdoutOffset - poll[p].offset
       /\ Rendered(snapshot.stdout, poll[p].offset)

\* What decodes of a text in order, from an offset on.
LEMMA SliceRendered ==
  ASSUME NEW text \in Seq(Nat), InOrder(text), NEW from \in 0 .. Len(text)
  PROVE  LET slice == Decode(From(text, from))
         IN  slice \in Seq(Nat) /\ Len(slice) = Len(text) - from /\ Rendered(slice, from)
<1> DEFINE bytes == From(text, from)
           slice == Decode(bytes)
           n == Len(text) - from
<1>1. Len(text) \in Nat /\ from \in Nat /\ n \in Nat
  BY LenProperties
<1>2. bytes \in Seq(Nat) /\ Len(bytes) = n /\ \A k \in 1 .. n : bytes[k] = from + k
  <2>1. /\ bytes \in Seq(Nat) /\ Len(bytes) = n
        /\ \A k \in 1 .. n : bytes[k] = text[from + k]
    BY <1>1, SubSeqProperties DEF From
  <2>2. \A k \in 1 .. n : from + k \in 1 .. Len(text)
    BY <1>1
  <2> QED BY <2>1, <2>2 DEF InOrder
<1>3. slice \in Seq(Nat)
  BY <1>2, DecodeType
<1> HIDE DEF bytes, n
<1>4. Len(slice) = n /\ DOMAIN slice = 1 .. n
  BY <1>1, <1>2, <1>3, LenProperties DEF Decode, n
<1>5. ASSUME NEW k \in 1 .. n
      PROVE  Shows(slice[k], from + k)
  <2>1. bytes[k] = from + k
    BY <1>2
  <2>2. slice[k] = IF /\ bytes[k] \in WideLead =>
                           k < Len(bytes) /\ bytes[k + 1] = bytes[k] + 1
                      /\ bytes[k] - 1 \in WideLead =>
                           k > 1 /\ bytes[k - 1] = bytes[k] - 1
                   THEN bytes[k] ELSE Replacement
    BY <1>2 DEF Decode
  <2>3. \/ slice[k] = from + k
        \/ /\ slice[k] = Replacement
           /\ from + k \in WideLead \/ (from + k) - 1 \in WideLead
    BY <2>1, <2>2
  <2> QED BY <2>3 DEF Shows
<1> HIDE DEF slice
<1>6. Rendered(slice, from)
  BY <1>4, <1>5 DEF Rendered
<1> QED BY <1>3, <1>4, <1>6 DEF slice, bytes, n

\* A slice appended to the text that ends at its offset.
LEMMA AppendRendered ==
  ASSUME NEW text \in Seq(Nat), Rendered(text, 0),
         NEW slice \in Seq(Nat), Rendered(slice, Len(text))
  PROVE  /\ Len(text \o slice) = Len(text) + Len(slice)
         /\ Rendered(text \o slice, 0)
<1>1. Len(text) \in Nat /\ Len(slice) \in Nat
  BY LenProperties
<1>2. /\ Len(text \o slice) = Len(text) + Len(slice)
      /\ \A k \in 1 .. Len(text) + Len(slice) :
           (text \o slice)[k] = IF k <= Len(text) THEN text[k] ELSE slice[k - Len(text)]
  BY ConcatProperties
<1>3. ASSUME NEW k \in 1 .. Len(text) + Len(slice)
      PROVE  Shows((text \o slice)[k], 0 + k)
  <2>1. CASE k <= Len(text)
    <3>1. k \in 1 .. Len(text) /\ (text \o slice)[k] = text[k]
      BY <1>1, <1>2, <2>1
    <3> QED BY <3>1 DEF Rendered
  <2>2. CASE ~(k <= Len(text))
    <3>1. /\ k - Len(text) \in 1 .. Len(slice)
          /\ (text \o slice)[k] = slice[k - Len(text)]
          /\ Len(text) + (k - Len(text)) = 0 + k
      BY <1>1, <1>2, <2>2
    <3> QED BY <3>1 DEF Rendered
  <2> QED BY <2>1, <2>2
<1> QED BY <1>2, <1>3 DEF Rendered

\* A poll takes the part of the output it asked for.
LEMMA TakesReassembled ==
  ASSUME Backed, Polls, \A e \in Execution : TextFits(e),
         NEW p \in Poller, PollOutput(p), Reassembled(p)
  PROVE  Reassembled(p)'
<1> DEFINE e == poll[p].exec
           offset == poll[p].offset
<1>1. /\ poll \in [Poller -> Poll] /\ e \in Execution /\ HasRecord(e) /\ offset \in Nat
  BY DEF Backed, Phased, TypeOK, LoopTypeOK, PollOutput, Poll
<1>2. /\ poll'[p].at = "status" /\ poll'[p].offset = offset
      /\ poll'[p].stdout = poll[p].stdout
  BY <1>1 DEF PollOutput, Poll
<1>3. offset <= Have(e)
  BY <1>1 DEF Polls, Seen
<1>4. CASE HasBuffer(e)
  <2> DEFINE text == buffer[e].stdout
  <2>1. text \in Seq(Nat) /\ InOrder(text)
    BY <1>1, <1>4 DEF TextFits, Holds, Backed, Phased, TypeOK, CollectorTypeOK, Buffer, HasBuffer
  <2>2. offset \in 0 .. Len(text)
    BY <1>1, <1>3, <1>4, <2>1, LenProperties DEF Have
  <2>3. snapshot'.stdout = Decode(From(text, offset)) /\ snapshot'.stdoutOffset = Len(text)
    BY <1>4 DEF PollOutput, GetOutput
  <2> HIDE DEF text
  <2>4. /\ Len(snapshot'.stdout) = snapshot'.stdoutOffset - offset
        /\ Rendered(snapshot'.stdout, offset)
    BY <2>1, <2>2, <2>3, SliceRendered
  <2> QED BY <1>2, <2>4 DEF Reassembled
<1>5. CASE ~HasBuffer(e)
  <2>1. snapshot'.stdout = <<>> /\ snapshot'.stdoutOffset = 0 /\ offset = 0
    BY <1>1, <1>3, <1>5 DEF PollOutput, NoOutput, Have
  <2> QED BY <1>2, <2>1 DEF Reassembled, Rendered
<1> QED BY <1>4, <1>5

\* The client appends it to what it has.
LEMMA AnswerReassembled ==
  ASSUME TypeOK, NEW p \in Poller, PollStatus(p), Reassembled(p)
  PROVE  Reassembled(p)'
<1>1. /\ poll'[p].at = "idle" /\ poll'[p].offset = snapshot.stdoutOffset
      /\ poll'[p].stdout = poll[p].stdout \o snapshot.stdout
  <2>1. poll[p] \in Poll /\ poll \in [Poller -> Poll]
    BY DEF TypeOK, LoopTypeOK
  <2> QED BY <2>1 DEF PollStatus, Poll
<1>2. /\ poll[p].stdout \in Seq(Nat) /\ snapshot.stdout \in Seq(Nat)
      /\ poll[p].offset \in Nat /\ snapshot.stdoutOffset \in Nat
  BY DEF TypeOK, LoopTypeOK, Poll, Output
<1>3. /\ Len(poll[p].stdout) = poll[p].offset /\ Rendered(poll[p].stdout, 0)
      /\ Len(snapshot.stdout) = snapshot.stdoutOffset - poll[p].offset
      /\ Rendered(snapshot.stdout, poll[p].offset)
  BY DEF Reassembled, PollStatus
<1>4. /\ Len(poll'[p].stdout) = Len(poll[p].stdout) + Len(snapshot.stdout)
      /\ Rendered(poll'[p].stdout, 0)
  BY <1>1, <1>2, <1>3, AppendRendered
<1>5. Len(poll'[p].stdout) = poll'[p].offset
  BY <1>1, <1>2, <1>3, <1>4
<1> QED BY <1>1, <1>4, <1>5 DEF Reassembled
-----------------------------------------------------------------------------
\* Refusals and the polls of others leave the text alone.
LEMMA ReassembledStep ==
  ASSUME Backed, TypeOK', Polls, \A e \in Execution : TextFits(e), [Next]_vars,
         NEW p \in Poller, Reassembled(p)
  PROVE  Reassembled(p)'
<1>1. poll \in [Poller -> Poll]
  BY DEF Backed, Phased, TypeOK, LoopTypeOK
<1>2. CASE /\ poll'[p].stdout = poll[p].stdout /\ poll'[p].offset = poll[p].offset
           /\ poll'[p].at = "status" => poll[p].at = "status" /\ UNCHANGED snapshot
  BY <1>2 DEF Reassembled
<1>3. ASSUME NEW q \in Poller, Polling(q)
      PROVE  Reassembled(p)'
  <2>1. CASE WithoutOutput(q)
    <3>1. poll[q].at # "idle" => poll[q].exec \in Execution
      BY DEF Backed, Phased, TypeOK, LoopTypeOK
    <3>2. /\ \A x \in Poller \ {q} : poll'[x] = poll[x]
          /\ UNCHANGED snapshot /\ poll'[q].at \in {"idle", "body"}
          /\ poll'[q].offset = poll[q].offset /\ poll'[q].stdout = poll[q].stdout
      BY <1>1, <2>1, <3>1, WithoutOutputEffect
    <3> QED BY <1>2, <3>2
  <2>3. CASE PollOutput(q)
    <3>1. CASE q = p
      BY <2>3, <3>1, TakesReassembled
    <3>2. CASE q # p
      <4>1. poll'[p] = poll[p] /\ loop = "idle"
        BY <1>1, <2>3, <3>2 DEF PollOutput
      <4>2. poll[p].at # "status"
        BY <4>1 DEF Polls, Asked
      <4> QED BY <1>2, <4>1, <4>2
    <3> QED BY <3>1, <3>2
  <2>4. CASE PollStatus(q)
    <3>1. CASE q = p
      BY <2>4, <3>1, AnswerReassembled DEF Backed, Phased
    <3>2. CASE q # p
      <4>1. poll'[p] = poll[p] /\ poll[q].at = "status"
        BY <1>1, <2>4, <3>2 DEF PollStatus
      <4>2. poll[p].at # "status"
        BY <3>2, <4>1 DEF Polls, Alone
      <4> QED BY <1>2, <4>1, <4>2
    <3> QED BY <3>1, <3>2
  <2> QED BY <1>3, <2>1, <2>3, <2>4 DEF Polling, WithoutOutput
<1>4. CASE Crash
  BY <1>4 DEF Crash, NoPoll, Reassembled, Rendered
<1>5. CASE Execute \/ Cleanup
  BY <1>2, <1>5
  DEF Execute, CloneRepository, AcceptScript, RejectScript, AdmitExecution,
      RejectAtCapacity, AttestExecution, AttestationFails, StoreContext,
      HandOff, HandOffFails, Respond, Cleanup, SweepRecords, DropContexts,
      DropBuffers, Advance, Abandon
<1>6. CASE \/ UNCHANGED vars \/ Restart
           \/ \E e \in Execution : Executor(e) \/ Script(e) \/ Age(e)
           \/ \E e \in Execution : \E s \in Stream : Streams(e, s)
  BY <1>2, <1>6 DEF vars, loopVars, Restart, Executor, Script, Age, Streams
<1> QED BY <1>3, <1>4, <1>5, <1>6 DEF Next

(***************************************************************************)
(* A client that hands back the offset it was given has every byte of the  *)
(* standard output once and in its place, or the replacement of a          *)
(* character that was cut in two, whatever happens between its polls.      *)
(***************************************************************************)
THEOREM StdoutIsReassembled == Spec => []StdoutReassembled
<1> DEFINE All == \A p \in Poller : Reassembled(p)
<1>1. Init => All
  BY DEF Init, NoPoll, Reassembled, Rendered
<1>2. Backed /\ TypeOK' /\ Polls /\ Texts /\ All /\ [Next]_vars => All'
  BY ReassembledStep DEF Texts
<1>3. TypeOK /\ All => StdoutReassembled
  <2> SUFFICES ASSUME TypeOK, All, NEW p \in Poller
               PROVE  /\ Len(poll[p].stdout) = poll[p].offset
                      /\ \A k \in DOMAIN poll[p].stdout :
                           \/ poll[p].stdout[k] = k
                           \/ /\ poll[p].stdout[k] = Replacement
                              /\ {k - 1, k} \cap WideLead # {}
    BY DEF StdoutReassembled
  <2>1. poll[p].stdout \in Seq(Nat)
    BY DEF TypeOK, LoopTypeOK, Poll
  <2>2. DOMAIN poll[p].stdout = 1 .. Len(poll[p].stdout) /\ Len(poll[p].stdout) \in Nat
    BY <2>1, LenProperties
  <2>3. \A k \in DOMAIN poll[p].stdout : k \in Int /\ Shows(poll[p].stdout[k], 0 + k)
    BY <2>2 DEF Reassembled, Rendered
  <2>4. \A k \in DOMAIN poll[p].stdout : 0 + k = k
    BY <2>3
  <2> QED BY <2>3, <2>4 DEF Reassembled, Shows
<1> QED BY <1>1, <1>2, <1>3, TextInvariant, PollsInvariant, BackedInvariant, TypeCorrect,
           PTL DEF Spec

-----------------------------------------------------------------------------
(***************************************************************************)
(* That the output of an exited container is whole when it is marked       *)
(* complete takes more: a log stream ends with everything its container    *)
(* wrote, and the answer is published when all streams have ended, or it   *)
(* is -1 and no stream was ever started, although the container may run.   *)
(***************************************************************************)
Unbroken == Orderly /\ "stream_error" \notin Faults

\* A log stream of e breaks: it ends before its container, or without all of it.
Breaks(e) ==
  \E s \in Stream :
    /\ StreamEnds(e, s)
    /\ container[e].state # "absent"
    /\ ~(container[e].state = "exited" /\ consumed[e][s] = container[e].out[s])

LEMMA UnbrokenNeverBreaks ==
  ASSUME Unbroken, NEW e \in Execution
  PROVE  ~Breaks(e) /\ ~Strays(e)
<1>1. ~Strays(e)
  BY OrderlyNeverStrays DEF Unbroken
<1>2. ~Breaks(e)
  BY DEF Unbroken, Fault, Breaks, StreamEnds
<1> QED BY <1>1, <1>2

\* Where no log stream is open or has been: before they start, and on the path
\* of a call that failed before them.
WithoutStreams ==
  {"idle", "lookup", "buffer", "markRunning", "create", "start", "streams",
   "exception", "recordFailure"}

WithStreams == {"wait", "stop", "join", "complete", "finish"}

Unfollowed(e) == \A s \in Stream : stream[e][s] = "off"

TakenAll(e, s) ==
  \/ ~HasBuffer(e)
  \/ container[e].state = "absent"
  \/ container[e].state = "exited" /\ consumed[e][s] = container[e].out[s]

Drained(e) ==
  /\ pc[e] \in WithoutStreams => Unfollowed(e)
  /\ pc[e] \in WithStreams => Followed(e)
  /\ \A s \in Stream : stream[e][s] = "done" => TakenAll(e, s)
  /\ HasBuffer(e) /\ buffer[e].complete =>
       \/ \A s \in Stream : stream[e][s] = "done"
       \/ Unfollowed(e) /\ buffer[e].exitCode = -1

\* A step of the thread itself.
LEMMA ThreadKeepsDrained ==
  ASSUME Backed, NEW e \in Execution, Quiet(e), Drained(e), ThreadStep(e), ~Strays(e)
  PROVE  Drained(e)'
<1> USE DEF Goto, WithoutStreams, WithStreams, Unfollowed, Followed
<1>t. /\ pc \in [Execution -> ThreadPC] /\ container \in [Execution -> Container]
      /\ stream \in [Execution -> [Stream -> StreamState]]
      /\ buffer \in [DOMAIN buffer -> Buffer] /\ DOMAIN buffer \subseteq Execution
  BY DEF Backed, Phased, TypeOK, ExecutorTypeOK, CollectorTypeOK
<1>c. UNCHANGED consumed
  BY ThreadTakesNothing DEF Backed, Phased
<1>p. pc[e] \in BeforeAnswer => HasBuffer(e) /\ ~buffer[e].complete
  BY DEF Backed, Unanswered, Pending, Whole, HasBuffer
<1>2. ASSUME UNCHANGED <<container, stream, buffer>>
      PROVE  /\ \A s \in Stream : stream'[e][s] = "done" => TakenAll(e, s)'
             /\ HasBuffer(e)' /\ buffer'[e].complete =>
                  \/ \A s \in Stream : stream'[e][s] = "done"
                  \/ Unfollowed(e)' /\ buffer'[e].exitCode = -1
  BY <1>2, <1>c DEF Drained, TakenAll, HasBuffer
<1>3. CASE LookUpRecord(e) \/ MarkRunning(e)
  <2>1. /\ UNCHANGED <<container, stream, buffer>>
        /\ \/ pc[e] = "lookup" /\ pc'[e] \in {"buffer", "untrack"}
           \/ pc[e] = "markRunning" /\ pc'[e] = "create"
    BY <1>t, <1>3 DEF LookUpRecord, MarkRunning, hostVars
  <2> QED BY <1>2, <2>1 DEF Drained
<1>4. CASE \/ WaitReturns(e) \/ WaitRaises(e) \/ StopFails(e) \/ JoinStreams(e)
           \/ RecordVerdict(e) \/ RecordFailure(e) \/ Untrack(e) \/ RemoveCloneDir(e)
  <2>1. /\ UNCHANGED <<container, stream, buffer>>
        /\ \/ pc[e] \in WithStreams /\ pc'[e] \in WithStreams \cup {"untrack"}
           \/ pc'[e] \in {"untrack", "remove", "rmdir", "done"}
    BY <1>t, <1>4 DEF WaitReturns, WaitRaises, JoinStreams, RecordVerdict,
                      RecordFailure, Untrack, RemoveCloneDir, hostVars, Strays
  <2> QED BY <1>2, <2>1 DEF Drained
<1>5. CASE CreateOutputBuffer(e)
  <2>1. /\ pc[e] = "buffer" /\ pc'[e] = "markRunning" /\ UNCHANGED <<container, stream>>
    BY <1>t, <1>5 DEF CreateOutputBuffer, hostVars
  <2>2. ~HasBuffer(e)
    BY <2>1 DEF Backed, Unanswered, Pending
  <2>3. buffer'[e] = EmptyBuffer
    BY <1>5, <2>2 DEF CreateOutputBuffer, CreateBuffer
  <2> QED BY <2>1, <2>3 DEF Drained, EmptyBuffer
<1>6. CASE \/ CreateContainer(e) \/ CreateContainerFails(e)
           \/ StartContainer(e) \/ StartContainerFails(e)
  <2>1. /\ pc[e] \in {"create", "start"} /\ pc'[e] \in {"start", "streams", "exception"}
        /\ UNCHANGED <<stream, buffer>>
    BY <1>t, <1>6 DEF CreateContainer, CreateContainerFails, StartContainer,
                      StartContainerFails
  <2>2. HasBuffer(e)' => ~buffer'[e].complete
    BY <1>p, <2>1 DEF BeforeAnswer, InBody
  <2>3. Unfollowed(e)'
    BY <2>1 DEF Drained
  <2> QED BY <2>1, <2>2, <2>3 DEF Drained
<1>7. CASE StartStreams(e) \/ StartStreamsFails(e)
  <2>1. /\ pc[e] = "streams" /\ pc'[e] = "wait" /\ UNCHANGED <<container, buffer>>
        /\ stream'[e] = [s \in Stream |-> "open"]
    BY <1>t, <1>7 DEF StartStreams, Strays, hostVars
  <2>2. HasBuffer(e)' => ~buffer'[e].complete
    BY <1>p, <2>1 DEF BeforeAnswer, InBody
  <2> QED BY <2>1, <2>2 DEF Drained
<1>8. CASE StopContainer(e)
  <2>1. /\ pc[e] = "stop" /\ pc'[e] = "join" /\ UNCHANGED <<stream, buffer>>
        /\ container' = Stopped(e)
    BY <1>t, <1>8 DEF StopContainer
  <2>2. /\ container'[e].out = container[e].out
        /\ container'[e].state = IF container[e].state = "running" THEN "exited"
                                                                   ELSE container[e].state
    BY <1>t, <2>1 DEF Container, Stopped
  <2>3. ~buffer[e].complete
    BY <1>p, <2>1 DEF BeforeAnswer, InBody
  <2> QED BY <1>c, <2>1, <2>2, <2>3 DEF Drained, TakenAll, HasBuffer
<1>9. CASE MarkComplete(e)
  <2>1. pc[e] = "complete" /\ UNCHANGED <<container, stream>>
    BY <1>9 DEF MarkComplete, hostVars
  <2>2. HasBuffer(e)
    BY <1>p, <2>1 DEF BeforeAnswer, InBody
  <2>3. pc'[e] = "finish" /\ DOMAIN buffer' = DOMAIN buffer
    BY <1>t, <1>9, <2>2 DEF MarkComplete, MarkBufferComplete
  <2>4. \A s \in Stream : stream[e][s] = "done"
    <3>1. \A s \in Stream : stream[e][s] \notin {"off", "open"}
      BY <2>1 DEF Drained, Quiet
    <3> QED BY <1>t, <3>1 DEF StreamState
  <2> QED BY <1>c, <2>1, <2>3, <2>4 DEF Drained, TakenAll, HasBuffer
<1>10. CASE HandleException(e)
  <2>1. /\ pc[e] = "exception" /\ pc'[e] = "recordFailure" /\ UNCHANGED <<container, stream>>
    BY <1>t, <1>10 DEF HandleException, hostVars
  <2>2. HasBuffer(e)
    BY <1>p, <2>1 DEF BeforeAnswer, InBody
  <2>3. buffer'[e].exitCode = -1
    <3>1. MarkBufferComplete(e, -1)
      BY <1>10, <2>2 DEF HandleException
    <3>2. e \in DOMAIN buffer /\ buffer[e] \in Buffer
      BY <1>t, <2>2 DEF HasBuffer
    <3>3. buffer' = [buffer EXCEPT ![e] = [buffer[e] EXCEPT !.complete = TRUE, !.exitCode = -1]]
      BY <3>1, <3>2 DEF MarkBufferComplete
    <3> QED BY <3>2, <3>3 DEF Buffer
  <2> QED BY <2>1, <2>3 DEF Drained
<1>11. CASE RemoveContainer(e) \/ RemoveContainerFails(e)
  <2>1. /\ pc'[e] \in {"rmdir", "done"} /\ UNCHANGED <<stream, buffer>>
        /\ container'[e] \in {container[e], NoContainer}
    BY <1>t, <1>11 DEF RemoveContainer, RemoveContainerFails
  <2>2. container'[e] = container[e] \/ container'[e].state = "absent"
    BY <2>1 DEF NoContainer
  <2> QED BY <1>c, <2>1, <2>2 DEF Drained, TakenAll, HasBuffer
<1> QED BY <1>3, <1>4, <1>5, <1>6, <1>7, <1>8, <1>9, <1>10, <1>11 DEF ThreadStep

-----------------------------------------------------------------------------
\* A step of another thread.
LEMMA OthersKeepDrained ==
  ASSUME Backed, NEW e \in Execution, Drained(e), NEW x \in Execution \ {e}, Executor(x)
  PROVE  Drained(e)'
<1>t. TypeOK /\ ThreadStep(x)
  BY DEF Backed, Phased, Executor
<1>1. pc'[e] = pc[e] /\ container'[e] = container[e]
  BY <1>t, ThreadLeavesHost
<1>2. stream'[e] = stream[e] /\ consumed'[e] = consumed[e]
  BY <1>t, ThreadLeavesStreams, ThreadTakesNothing
<1>3. HasBuffer(e)' = HasBuffer(e) /\ (HasBuffer(e) => buffer'[e] = buffer[e])
  <2>1. \/ DOMAIN buffer' = DOMAIN buffer
        \/ DOMAIN buffer' = DOMAIN buffer \cup {x}
    BY <1>t, ThreadDomain
  <2>2. HasBuffer(e) => buffer'[e] = buffer[e]
    BY <1>t, ThreadPublishes DEF HasBuffer
  <2> QED BY <2>1, <2>2 DEF HasBuffer
<1> QED BY <1>1, <1>2, <1>3 DEF Drained, TakenAll, Unfollowed, Followed

\* A log stream ends with everything its container wrote.
LEMMA StreamKeepsDrained ==
  ASSUME Backed, NEW e \in Execution, Drained(e), ~Breaks(e),
         NEW x \in Execution, NEW s \in Stream, Streams(x, s)
  PROVE  Drained(e)'
<1>t. /\ TypeOK /\ StreamStep(x, s)
      /\ consumed \in [Execution -> [Stream -> Nat]] /\ buffer \in [DOMAIN buffer -> Buffer]
      /\ stream \in [Execution -> [Stream -> StreamState]]
      /\ DOMAIN buffer \subseteq Execution
  BY DEF Backed, Phased, Streams, TypeOK, ExecutorTypeOK, CollectorTypeOK
<1>1. UNCHANGED <<pc, container>> /\ stream[x][s] = "open"
  BY <1>t DEF StreamStep, StreamChunk, StreamEnds, hostVars
<1>2. /\ DOMAIN buffer' = DOMAIN buffer
      /\ \A y \in DOMAIN buffer : /\ buffer'[y].complete = buffer[y].complete
                                  /\ buffer'[y].exitCode = buffer[y].exitCode
  BY <1>t, StreamBuffers DEF Backed
<1>3. CASE StreamEnds(x, s) \/ (StreamChunk(x, s) /\ ~HasBuffer(x))
  <2>1. stream' = [stream EXCEPT ![x][s] = "done"] /\ UNCHANGED <<consumed, buffer>>
    BY <1>3 DEF StreamEnds, StreamChunk
  <2>2. x = e => TakenAll(e, s)
    BY <1>3 DEF StreamEnds, StreamChunk, TakenAll, Breaks
  <2>3. /\ \A t \in Stream : stream'[e][t] = stream[e][t]
                             \/ (x = e /\ t = s /\ stream'[e][t] = "done")
        /\ x = e => stream'[e][s] = "done"
    BY <1>t, <2>1
  <2>4. \A t \in Stream : stream'[e][t] = "done" => TakenAll(e, t)
    BY <2>2, <2>3 DEF Drained
  <2>5. /\ Unfollowed(e) => Unfollowed(e)'
        /\ Followed(e) => Followed(e)'
        /\ (\A t \in Stream : stream[e][t] = "done") => (\A t \in Stream : stream'[e][t] = "done")
    BY <1>1, <2>3 DEF Unfollowed, Followed
  <2> QED BY <1>1, <2>1, <2>4, <2>5 DEF Drained, TakenAll, HasBuffer
<1>4. CASE StreamChunk(x, s) /\ HasBuffer(x)
  <2>1. /\ UNCHANGED stream
        /\ \E last : consumed' = [consumed EXCEPT ![x][s] = last]
    BY <1>4 DEF StreamChunk
  <2>2. \A t \in Stream : stream[e][t] = "done" => consumed'[e][t] = consumed[e][t]
    BY <1>t, <1>1, <2>1
  <2>3. /\ HasBuffer(e)' = HasBuffer(e)
        /\ HasBuffer(e) => /\ buffer'[e].complete = buffer[e].complete
                           /\ buffer'[e].exitCode = buffer[e].exitCode
    BY <1>2 DEF HasBuffer
  <2> QED BY <1>1, <2>1, <2>2, <2>3 DEF Drained, TakenAll, Unfollowed, Followed
<1> QED BY <1>t, <1>3, <1>4 DEF StreamStep

\* What a script writes, it writes while its container runs.
LEMMA ScriptKeepsDrained ==
  ASSUME Backed, NEW e \in Execution, Drained(e), NEW x \in Execution, Script(x)
  PROVE  Drained(e)'
<1>t. container \in [Execution -> Container]
  BY DEF Backed, Phased, TypeOK, ExecutorTypeOK
<1>1. /\ UNCHANGED <<pc, stream, consumed, buffer>>
      /\ container[x].state = "running"
      /\ \/ \E code : container' = [container EXCEPT ![x].state = "exited", ![x].code = code]
         \/ \E s \in Stream : container' = [container EXCEPT ![x].out[s] = @ + 1]
  BY DEF Script, ScriptStep, ScriptWrites, ScriptExits, threadVars
<1>2. CASE x # e
  <2>1. container'[e] = container[e]
    BY <1>t, <1>1, <1>2
  <2> QED BY <1>1, <2>1 DEF Drained, TakenAll, HasBuffer, Unfollowed, Followed
<1>3. CASE x = e
  <2>1. container[e].state = "running" /\ container'[e].state \in {"running", "exited"}
    BY <1>t, <1>1, <1>3 DEF Container
  <2>2. \A s \in Stream : stream[e][s] = "done" => ~HasBuffer(e)
    BY <2>1 DEF Drained, TakenAll
  <2> QED BY <1>1, <2>1, <2>2 DEF Drained, TakenAll, HasBuffer, Unfollowed, Followed
<1> QED BY <1>2, <1>3

\* Every step keeps it.
LEMMA DrainedStep ==
  ASSUME Backed, [Next]_vars, NEW e \in Execution, Quiet(e), Drained(e),
         ~Strays(e), ~Breaks(e)
  PROVE  Drained(e)'
<1> USE DEF Unfollowed, Followed
<1>t. pc \in [Execution -> ThreadPC] /\ TypeOK
  BY DEF Backed, Phased, TypeOK, ExecutorTypeOK
<1>1. CASE UNCHANGED <<pc, container, stream, consumed, buffer>>
  BY <1>1 DEF Drained, TakenAll, HasBuffer
<1>2. CASE HandOff
  <2>1. /\ request \in Execution /\ pc[request] = "idle"
        /\ UNCHANGED <<container, stream, consumed, buffer>>
        /\ pc' = [pc EXCEPT ![request] = "lookup"]
    BY <1>2 DEF HandOff, Advance, Backed, Phased, HandlerPhase, TypeOK, LoopTypeOK,
                Handling, hostVars
  <2>2. pc'[e] = pc[e] \/ (pc[e] = "idle" /\ pc'[e] = "lookup")
    BY <1>t, <2>1
  <2> QED BY <2>1, <2>2 DEF Drained, TakenAll, HasBuffer, WithoutStreams, WithStreams
<1>3. CASE DropBuffers
  <2>1. UNCHANGED <<pc, container, stream, consumed>>
    BY <1>3 DEF DropBuffers, threadVars, hostVars
  <2>2. HasBuffer(e)' => HasBuffer(e) /\ buffer'[e] = buffer[e]
    BY <1>3 DEF DropBuffers, RemoveOutputs, HasBuffer
  <2> QED BY <2>1, <2>2 DEF Drained, TakenAll
<1>4. CASE Execute \/ Cleanup
  BY <1>1, <1>2, <1>3, <1>4
  DEF Execute, CloneRepository, AcceptScript, RejectScript, AdmitExecution,
      RejectAtCapacity, AttestExecution, AttestationFails, StoreContext,
      HandOffFails, Respond, Cleanup, SweepRecords, DropContexts,
      Advance, Abandon, executorVars, threadVars, hostVars
<1>5. CASE \E p \in Poller : Polling(p)
  BY <1>1, <1>5, PollingFrame DEF executorVars, threadVars, hostVars
<1>6. ASSUME NEW x \in Execution, Executor(x)
      PROVE  Drained(e)'
  <2>1. CASE x = e
    BY <1>6, <2>1, ThreadKeepsDrained DEF Executor
  <2>2. CASE x # e
    BY <1>6, <2>2, OthersKeepDrained
  <2> QED BY <2>1, <2>2
<1>7. CASE \E x \in Execution : \E s \in Stream : Streams(x, s)
  BY <1>7, StreamKeepsDrained
<1>8. CASE \E x \in Execution : Script(x)
  BY <1>8, ScriptKeepsDrained
<1>9. CASE Restart
  <2>1. /\ UNCHANGED <<pc, stream, consumed, buffer>>
        /\ container'[e] = container[e] \/ container'[e].state = "absent"
    BY <1>9 DEF Restart, threadVars, NoContainer
  <2> QED BY <2>1 DEF Drained, TakenAll, HasBuffer
<1>10. CASE Crash
  <2>1. /\ ~HasBuffer(e)' /\ pc'[e] = "idle"
        /\ \A s \in Stream : stream'[e][s] = "off"
    BY <1>10 DEF Crash, RemoveOutputs, HasBuffer
  <2> QED BY <2>1 DEF Drained, WithStreams
<1>11. CASE UNCHANGED vars \/ \E x \in Execution : Age(x)
  BY <1>1, <1>11 DEF vars, executorVars, threadVars, hostVars, Age
<1> QED BY <1>4, <1>5, <1>6, <1>7, <1>8, <1>9, <1>10, <1>11 DEF Next

\* Text in order is the bytes up to its length.
LEMMA InOrderIs ==
  ASSUME NEW text \in Seq(Nat), InOrder(text)
  PROVE  text = BytesUpTo(Len(text))
<1>1. Len(text) \in Nat /\ DOMAIN text = 1 .. Len(text) /\ text \in [1 .. Len(text) -> Nat]
  BY LenProperties
<1> QED BY <1>1 DEF InOrder, BytesUpTo

\* What the output store holds of e, in the order of the script's bytes.
InOrderCapture(e) ==
  /\ buffer[e].stdout = BytesUpTo(Len(buffer[e].stdout))
  /\ buffer[e].stderr = BytesUpTo(Len(buffer[e].stderr))
  /\ buffer[e].truncated => Size(buffer[e]) = MaxOutput

\* The output of e is all there when it is marked complete, or its exit code is
\* -1 and the start of its script or of its streams was answered by an error.
WholeCapture(e) ==
  /\ buffer[e].complete /\ ~Followed(e) => buffer[e].exitCode = -1
  /\ /\ buffer[e].complete /\ ~buffer[e].truncated
     /\ container[e].state = "exited" /\ Followed(e)
     =>
    /\ "stdout" \in Stream => Len(buffer[e].stdout) = container[e].out["stdout"]
    /\ "stderr" \in Stream => Len(buffer[e].stderr) = container[e].out["stderr"]

LEMMA TextIsInOrder ==
  ASSUME TypeOK, NEW e \in DOMAIN buffer, TextFits(e)
  PROVE  InOrderCapture(e)
<1>1. /\ e \in Execution /\ HasBuffer(e)
      /\ buffer[e].stdout \in Seq(Nat) /\ buffer[e].stderr \in Seq(Nat)
  BY DEF TypeOK, CollectorTypeOK, Buffer, HasBuffer
<1>2. Holds(buffer[e], consumed[e])
  BY <1>1 DEF TextFits
<1> QED BY <1>1, <1>2, InOrderIs DEF Holds, InOrderCapture

LEMMA DrainedIsWhole ==
  ASSUME TypeOK, NEW e \in DOMAIN buffer, TextFits(e), Drained(e)
  PROVE  WholeCapture(e)
<1>1. HasBuffer(e)
  BY DEF TypeOK, CollectorTypeOK, HasBuffer
<1>2. Holds(buffer[e], consumed[e])
  BY <1>1 DEF TextFits
<1>3. ASSUME buffer[e].complete, ~buffer[e].truncated, container[e].state = "exited",
             Followed(e), NEW s \in Stream
      PROVE  Len(Text(buffer[e], s)) = container[e].out[s]
  <2>1. consumed[e][s] = container[e].out[s]
    BY <1>1, <1>3 DEF Drained, TakenAll, Unfollowed, Followed
  <2> QED BY <1>2, <1>3, <2>1 DEF Holds
<1>4. buffer[e].complete /\ ~Followed(e) => buffer[e].exitCode = -1
  BY <1>1 DEF Drained, Followed
<1> QED BY <1>3, <1>4 DEF WholeCapture, Text

LEMMA DrainedAtFirst == Init => \A e \in Execution : Drained(e)
BY DEF Init, ThreadInit, HostInit, CollectorInit, NoContainer, Drained, TakenAll,
       HasBuffer, WithoutStreams, WithStreams, Unfollowed

(***************************************************************************)
(* Whatever fails, the output store holds a prefix of what the script      *)
(* wrote on each stream, byte for byte, and calls it truncated only when   *)
(* it is full.                                                             *)
(***************************************************************************)
THEOREM CaptureIsInOrder ==
  Spec => [](\A e \in DOMAIN buffer : InOrderCapture(e))
<1>1. TypeOK /\ Texts => \A e \in DOMAIN buffer : InOrderCapture(e)
  BY TextIsInOrder DEF Texts, TypeOK, CollectorTypeOK
<1> QED BY <1>1, TextInvariant, TypeCorrect, PTL

(***************************************************************************)
(* The output store holds what the script wrote, in order and without a    *)
(* gap, and all of it up to the limit once it is marked complete, unless   *)
(* no stream follows the script, which the exit code -1 then tells: where  *)
(* a container stops when told to and its log streams do not break.        *)
(***************************************************************************)
THEOREM CaptureIsFaithful ==
  ASSUME Unbroken
  PROVE  Spec => []CaptureFaithful
<1> DEFINE AllQuiet == \A e \in Execution : Quiet(e)
           AllDrained == \A e \in Execution : Drained(e)
<1>1. Init => AllQuiet /\ AllDrained
  BY QuietAtFirst, DrainedAtFirst
<1>2. Phased /\ AllQuiet /\ [Next]_vars => AllQuiet'
  BY QuietStep, UnbrokenNeverBreaks
<1>3. Backed /\ AllQuiet /\ AllDrained /\ [Next]_vars => AllDrained'
  BY DrainedStep, UnbrokenNeverBreaks
<1>4. TypeOK /\ AllDrained /\ Texts => CaptureFaithful
  <2> SUFFICES ASSUME TypeOK, AllDrained, Texts, NEW e \in DOMAIN buffer
               PROVE  InOrderCapture(e) /\ WholeCapture(e)
    BY DEF CaptureFaithful, InOrderCapture, WholeCapture
  <2>1. e \in Execution
    BY DEF TypeOK, CollectorTypeOK
  <2> QED BY <2>1, TextIsInOrder, DrainedIsWhole DEF Texts
<1> QED BY <1>1, <1>2, <1>3, <1>4, BackedInvariant, TextInvariant, TypeCorrect, Phases,
           PTL DEF Spec, Phased

\* The text of one execution.
LEMMA TextOfOne ==
  ASSUME NEW e \in Execution
  PROVE  Spec => []TextFits(e)
<1>1. Texts => TextFits(e)
  BY DEF Texts
<1> QED BY <1>1, TextInvariant, PTL

(***************************************************************************)
(* The complete output of one execution is all the script wrote, up to the *)
(* limit, or comes with the exit code -1 of a script that was not followed *)
(* (its start was answered by an error), as long as its own thread does    *)
(* not stray and none of its own streams breaks, whatever becomes of the   *)
(* others.                                                                 *)
(***************************************************************************)
THEOREM CaptureOfOneIsWhole ==
  ASSUME NEW e \in Execution
  PROVE  Spec /\ [][~Strays(e) /\ ~Breaks(e)]_vars
           => [](HasBuffer(e) => WholeCapture(e))
<1>1. /\ Backed /\ Quiet(e) /\ Drained(e) /\ [Next]_vars
      /\ [~Strays(e) /\ ~Breaks(e)]_vars
      => Quiet(e)' /\ Drained(e)'
  <2> SUFFICES ASSUME Backed, Quiet(e), Drained(e), [Next]_vars,
                      [~Strays(e) /\ ~Breaks(e)]_vars
               PROVE  Quiet(e)' /\ Drained(e)'
    OBVIOUS
  <2>1. CASE ~Strays(e) /\ ~Breaks(e)
    BY <2>1, QuietStep, DrainedStep DEF Backed
  <2>2. CASE UNCHANGED vars
    BY <2>2 DEF vars, executorVars, threadVars, hostVars, managerVars, Quiet, Drained,
                TakenAll, HasBuffer, Unfollowed, Followed
  <2> QED BY <2>1, <2>2
<1>2. Init => Quiet(e) /\ Drained(e)
  BY QuietAtFirst, DrainedAtFirst
<1>3. TypeOK /\ Drained(e) /\ TextFits(e) => (HasBuffer(e) => WholeCapture(e))
  BY DrainedIsWhole DEF HasBuffer
<1> QED BY <1>1, <1>2, <1>3, BackedInvariant, TextOfOne, TypeCorrect, PTL DEF Spec
=============================================================================
