------------------------ MODULE ExecutionServiceProofs ------------------------
(***************************************************************************)
(* Type correctness of the executor service, for every set of executions,  *)
(* every limit and every set of failures.  One lemma per operation of a    *)
(* store, one per group of actions; TypeOK is inductive as it stands.      *)
(***************************************************************************)
EXTENDS ExecutionProperties, TLAPS, FiniteSetTheorems, SequenceTheorems

(***************************************************************************)
(* A chunk appended to a buffer leaves a buffer: the kept part is a        *)
(* sequence even at the limit, where a part of the chunk is dropped.       *)
(***************************************************************************)
LEMMA CapturedType ==
  ASSUME NEW b \in Buffer, NEW s \in {"stdout", "stderr"}, NEW chunk \in Seq(Nat)
  PROVE  Captured(b, s, chunk) \in Buffer
<1> DEFINE remaining == MaxOutput - Size(b)
           n == IF Len(chunk) > remaining THEN remaining ELSE Len(chunk)
           kept == SubSeq(chunk, 1, n)
<1>1. b.stdout \in Seq(Nat) /\ b.stderr \in Seq(Nat) /\ b.truncated \in BOOLEAN
  BY DEF Buffer
<1>2. remaining \in Int
  BY <1>1, LenProperties, CollectorAssumption DEF Size
<1>3. CASE remaining <= 0 \/ b.truncated \/ chunk = <<>>
  BY <1>3, <1>1, <1>2 DEF Captured, Buffer
<1>4. CASE ~(remaining <= 0 \/ b.truncated \/ chunk = <<>>)
  <2>1. n \in Nat /\ n <= Len(chunk)
    BY <1>4, <1>2, LenProperties
  <2>2. kept \in Seq(Nat)
    BY <2>1, SubSeqProperties
  <2>3. b.stdout \o kept \in Seq(Nat) /\ b.stderr \o kept \in Seq(Nat)
    BY <1>1, <2>2, ConcatProperties
  <2>4. Captured(b, s, chunk) =
          [b EXCEPT !.stdout = IF s = "stdout" THEN @ \o kept ELSE @,
                    !.stderr = IF s = "stderr" THEN @ \o kept ELSE @,
                    !.truncated = Len(chunk) > remaining]
    BY <1>4 DEF Captured
  <2>5. (Len(chunk) > remaining) \in BOOLEAN
    BY <1>2, LenProperties
  <2> HIDE DEF kept, remaining
  <2>6. CASE s = "stdout"
    BY <1>1, <2>3, <2>4, <2>5, <2>6 DEF Buffer
  <2>7. CASE s = "stderr"
    BY <1>1, <2>3, <2>4, <2>5, <2>7 DEF Buffer
  <2> QED BY <2>6, <2>7
<1> QED BY <1>3, <1>4

\* Decoding replaces bytes one for one.
LEMMA DecodeType ==
  ASSUME NEW bytes \in Seq(Nat)
  PROVE  Decode(bytes) \in Seq(Nat)
<1>1. Len(bytes) \in Nat /\ \A k \in 1..Len(bytes) : bytes[k] \in Nat
  BY LenProperties
<1>2. Decode(bytes) \in [1..Len(bytes) -> Nat]
  BY <1>1 DEF Decode, Replacement
<1> QED BY <1>1, <1>2, SeqDef

\* Consecutive bytes.
Bytes(from, length) == [k \in 1 .. length |-> from + k]

LEMMA BytesAreSequence ==
  ASSUME NEW from \in Nat, NEW length \in Nat
  PROVE  Bytes(from, length) \in Seq(Nat) /\ Len(Bytes(from, length)) = length
<1>1. Bytes(from, length) \in [1 .. length -> Nat]
  BY DEF Bytes
<1>2. Bytes(from, length) \in Seq(Nat)
  BY <1>1, SeqDef
<1> QED BY <1>1, <1>2, LenProperties DEF Bytes

\* The rest of a stream from an offset, which may lie beyond its end.
LEMMA FromType ==
  ASSUME NEW bytes \in Seq(Nat), NEW offset \in Nat
  PROVE  From(bytes, offset) \in Seq(Nat)
<1>1. Len(bytes) \in Nat /\ \A k \in 1..Len(bytes) : bytes[k] \in Nat
  BY LenProperties
<1>2. \A k \in offset + 1 .. Len(bytes) : bytes[k] \in Nat
  BY <1>1
<1> QED BY <1>1, <1>2, SubSeqProperties DEF From

\* get_output returns two texts, two offsets and an optional exit code.
LEMMA GetOutputType ==
  ASSUME CollectorTypeOK, NEW e \in DOMAIN buffer, NEW offset \in Nat
  PROVE  GetOutput(e, offset) \in Output
<1>1. buffer[e] \in Buffer
  BY DEF CollectorTypeOK
<1>2. /\ buffer[e].stdout \in Seq(Nat) /\ buffer[e].stderr \in Seq(Nat)
      /\ buffer[e].complete \in BOOLEAN /\ buffer[e].exitCode \in ExitCode \cup {NoExit}
  BY <1>1 DEF Buffer
<1>3. Len(buffer[e].stdout) \in Nat /\ Len(buffer[e].stderr) \in Nat
  BY <1>2, LenProperties
<1>4. /\ Decode(From(buffer[e].stdout, offset)) \in Seq(Nat)
      /\ Decode(From(buffer[e].stderr, offset)) \in Seq(Nat)
  BY <1>2, FromType, DecodeType
<1> QED BY <1>2, <1>3, <1>4 DEF GetOutput, Output

\* A new OutputBuffer is a buffer.
LEMMA EmptyBufferType == EmptyBuffer \in Buffer
<1>1. <<>> \in Seq(Nat)
  BY EmptySeq
<1> QED BY <1>1 DEF EmptyBuffer, Buffer

\* create_buffer adds a buffer or changes nothing.
LEMMA CreateBufferType ==
  ASSUME CollectorTypeOK, NEW e \in Execution, CreateBuffer(e)
  PROVE  CollectorTypeOK'
BY EmptyBufferType DEF CollectorTypeOK, CreateBuffer, HasBuffer

\* capture_output replaces a buffer by a buffer.
LEMMA CaptureOutputType ==
  ASSUME CollectorTypeOK, NEW e \in Execution, HasBuffer(e),
         NEW s \in {"stdout", "stderr"}, NEW chunk \in Seq(Nat),
         CaptureOutput(e, s, chunk)
  PROVE  CollectorTypeOK'
<1>1. buffer[e] \in Buffer
  BY DEF CollectorTypeOK, HasBuffer
<1>2. Captured(buffer[e], s, chunk) \in Buffer
  BY <1>1, CapturedType
<1>3. buffer' = [buffer EXCEPT ![e] = Captured(buffer[e], s, chunk)]
  BY DEF CaptureOutput
<1> QED BY <1>2, <1>3 DEF CollectorTypeOK, HasBuffer

\* mark_complete writes an exit code.
LEMMA MarkBufferCompleteType ==
  ASSUME CollectorTypeOK, NEW e \in Execution, HasBuffer(e),
         NEW x \in ExitCode, MarkBufferComplete(e, x)
  PROVE  CollectorTypeOK'
<1>1. buffer' = [buffer EXCEPT ![e] = [buffer[e] EXCEPT !.complete = TRUE, !.exitCode = x]]
  BY Zenon DEF MarkBufferComplete
<1>2. buffer[e] \in Buffer /\ e \in DOMAIN buffer
  BY DEF CollectorTypeOK, HasBuffer
<1>3. [buffer[e] EXCEPT !.complete = TRUE, !.exitCode = x] \in Buffer
  <2>1. \A b \in Buffer : [b EXCEPT !.complete = TRUE, !.exitCode = x] \in Buffer
    BY Zenon DEF Buffer
  <2> QED BY <1>2, <2>1, Zenon
<1> QED BY <1>1, <1>2, <1>3 DEF CollectorTypeOK

\* remove_output takes buffers away.
LEMMA RemoveOutputsType ==
  ASSUME CollectorTypeOK, NEW S, RemoveOutputs(S)
  PROVE  CollectorTypeOK'
BY DEF CollectorTypeOK, RemoveOutputs

\* update_status writes a status and an exit code, or nothing.
LEMMA UpdateStatusType ==
  ASSUME ManagerTypeOK, NEW e \in Execution, NEW s \in Recorded,
         NEW x \in ExitCode \cup {NoExit}, UpdateStatus(e, s, x)
  PROVE  ManagerTypeOK'
BY DEF ManagerTypeOK, UpdateStatus, managerVars, Status, Recorded, Terminal

\* try_create_execution inserts a queued record.
LEMMA RegisterExecutionType ==
  ASSUME ManagerTypeOK, NEW e \in Execution, RegisterExecution(e)
  PROVE  ManagerTypeOK'
BY DEF ManagerTypeOK, RegisterExecution, Status, Recorded, Active

\* cleanup_expired deletes records.
LEMMA RemoveExpiredType ==
  ASSUME ManagerTypeOK, RemoveExpired
  PROVE  ManagerTypeOK'
BY DEF ManagerTypeOK, RemoveExpired, Status

\* A process that ended has an empty registry.
LEMMA ForgetRecordsType ==
  ASSUME ManagerTypeOK, ForgetRecords
  PROVE  ManagerTypeOK'
BY DEF ManagerTypeOK, ForgetRecords, Status

(***************************************************************************)
(* Updating one stream of one execution keeps a table of streams well      *)
(* typed.                                                                  *)
(***************************************************************************)
LEMMA GridUpdate ==
  ASSUME NEW V, NEW f \in [Execution -> [Stream -> V]],
         NEW e \in Execution, NEW s \in Stream, NEW v \in V
  PROVE  [f EXCEPT ![e][s] = v] \in [Execution -> [Stream -> V]]
<1>1. [f[e] EXCEPT ![s] = v] \in [Stream -> V]
  OBVIOUS
<1> QED BY <1>1

\* A container that changes state, exits or is written to is a container.
LEMMA ContainerUpdate ==
  ASSUME NEW c \in Container
  PROVE  /\ \A st \in ContainerState : [c EXCEPT !.state = st] \in Container
         /\ \A st \in ContainerState, x \in {0, 1} :
              [c EXCEPT !.state = st, !.code = x] \in Container
         /\ \A s \in Stream : [c EXCEPT !.out[s] = @ + 1] \in Container
<1>1. c.out \in [Stream -> Nat] /\ c.code \in {0, 1} /\ c.state \in ContainerState
  BY DEF Container
<1>2. \A s \in Stream : [c.out EXCEPT ![s] = @ + 1] \in [Stream -> Nat]
  BY <1>1
<1> QED BY <1>1, <1>2 DEF Container

(***************************************************************************)
(* The executor thread, the log-stream threads and the script.             *)
(***************************************************************************)
LEMMA ThreadStepType ==
  ASSUME TypeOK, NEW e \in Execution, ThreadStep(e)
  PROVE  ManagerTypeOK' /\ CollectorTypeOK' /\ ExecutorTypeOK'
<1> USE DEF Goto, ThreadPC
<1>1. ManagerTypeOK /\ CollectorTypeOK /\ ExecutorTypeOK
  BY DEF TypeOK
<1>2. UNCHANGED managerVars => ManagerTypeOK'
  BY <1>1 DEF ManagerTypeOK, managerVars
<1>3. UNCHANGED buffer => CollectorTypeOK'
  BY <1>1 DEF CollectorTypeOK
<1>4. CASE LookUpRecord(e)
  BY <1>1, <1>2, <1>3, <1>4 DEF LookUpRecord, ExecutorTypeOK, hostVars
<1>5. CASE CreateContainer(e)
  <2>1. container' = [container EXCEPT ![e] = [container[e] EXCEPT !.state = "created"]]
    BY <1>1, <1>5, Zenon DEF CreateContainer, ExecutorTypeOK
  <2>2. "created" \in ContainerState /\ container \in [Execution -> Container]
    BY <1>1, Zenon DEF ContainerState, ExecutorTypeOK
  <2>3. [container[e] EXCEPT !.state = "created"] \in Container
    BY <2>2, ContainerUpdate, Zenon
  <2>4. container' \in [Execution -> Container]
    BY <2>1, <2>2, <2>3, Zenon
  <2>5. UNCHANGED <<managerVars, buffer>>
    BY <1>5, Zenon DEF CreateContainer
  <2>6. ExecutorTypeOK'
    BY <1>1, <1>5, <2>4, Zenon DEF CreateContainer, ExecutorTypeOK
  <2> QED BY <1>2, <1>3, <2>5, <2>6
<1>6. CASE CreateContainerFails(e)
  <2>1. container[e] \in Container /\ "created" \in ContainerState
    BY <1>1, Zenon DEF ExecutorTypeOK, ContainerState
  <2>2. [container[e] EXCEPT !.state = "created"] \in Container
    BY <2>1, ContainerUpdate, Zenon
  <2>3. container' \in [Execution -> Container]
    BY <1>1, <1>6, <2>2 DEF CreateContainerFails, ExecutorTypeOK
  <2> QED BY <1>1, <1>2, <1>3, <1>6, <2>3
          DEF CreateContainerFails, ExecutorTypeOK
<1>7. CASE StartContainer(e)
  <2>1. container' = [container EXCEPT ![e] = [container[e] EXCEPT !.state = "running"]]
    BY <1>1, <1>7, Zenon DEF StartContainer, ExecutorTypeOK
  <2>2. "running" \in ContainerState /\ container \in [Execution -> Container]
    BY <1>1, Zenon DEF ContainerState, ExecutorTypeOK
  <2>3. [container[e] EXCEPT !.state = "running"] \in Container
    BY <2>2, ContainerUpdate, Zenon
  <2>4. container' \in [Execution -> Container]
    BY <2>1, <2>2, <2>3, Zenon
  <2>5. UNCHANGED <<managerVars, buffer>>
    BY <1>7, Zenon DEF StartContainer
  <2>6. ExecutorTypeOK'
    BY <1>1, <1>7, <2>4, Zenon DEF StartContainer, ExecutorTypeOK
  <2> QED BY <1>2, <1>3, <2>5, <2>6
<1>8. CASE StartContainerFails(e)
  <2>1. "running" \in ContainerState /\ container \in [Execution -> Container]
    BY <1>1, Zenon DEF ContainerState, ExecutorTypeOK
  <2>2. [container[e] EXCEPT !.state = "running"] \in Container
    BY <2>1, ContainerUpdate, Zenon
  <2>3. container' \in [Execution -> Container]
    BY <2>1, <2>2, <1>8 DEF StartContainerFails
  <2> QED BY <1>1, <1>2, <1>3, <1>8, <2>3 DEF StartContainerFails, ExecutorTypeOK
<1>9. CASE StartStreams(e)
  BY <1>1, <1>2, <1>3, <1>9 DEF StartStreams, StreamState, ExecutorTypeOK, hostVars
<1>10. CASE StartStreamsFails(e)
  BY <1>1, <1>2, <1>3, <1>10 DEF StartStreamsFails, StreamState, ExecutorTypeOK, hostVars
<1>11. CASE WaitReturns(e)
  BY <1>1, <1>2, <1>3, <1>11 DEF WaitReturns, Container, ExecutorTypeOK, hostVars
<1>12. CASE WaitRaises(e)
  BY <1>1, <1>2, <1>3, <1>12 DEF WaitRaises, ExecutorTypeOK, hostVars
<1>s. Stopped(e) \in [Execution -> Container]
  <2>1. container[e] \in Container /\ "exited" \in ContainerState
    BY <1>1, Zenon DEF ExecutorTypeOK, ContainerState
  <2>2. [container[e] EXCEPT !.state = "exited", !.code = 1] \in Container
    BY <2>1, ContainerUpdate, Zenon
  <2>3. CASE container[e].state = "running"
    <3>1. Stopped(e) = [container EXCEPT ![e] =
                          [container[e] EXCEPT !.state = "exited", !.code = 1]]
      BY <1>1, <2>3 DEF Stopped, ExecutorTypeOK, Container
    <3> QED BY <1>1, <2>2, <3>1 DEF ExecutorTypeOK
  <2>4. CASE container[e].state # "running"
    <3>1. Stopped(e) = container
      BY <1>1, <2>4 DEF Stopped, ExecutorTypeOK, Container
    <3> QED BY <1>1, <3>1 DEF ExecutorTypeOK
  <2> QED BY <2>3, <2>4
<1>13. CASE StopContainer(e)
  BY <1>1, <1>2, <1>3, <1>13, <1>s DEF StopContainer, ExecutorTypeOK
<1>14. CASE StopFails(e)
  BY <1>1, <1>2, <1>3, <1>14, <1>s DEF StopFails, ExecutorTypeOK
<1>15. CASE JoinStreams(e)
  BY <1>1, <1>2, <1>3, <1>15 DEF JoinStreams, ExecutorTypeOK, hostVars
<1>16. CASE Untrack(e)
  BY <1>1, <1>2, <1>3, <1>16 DEF Untrack, ExecutorTypeOK, hostVars
<1>17. CASE RemoveContainer(e)
  BY <1>1, <1>2, <1>3, <1>17 DEF RemoveContainer, Container, ContainerState, NoContainer, ExecutorTypeOK, hostVars
<1>18. CASE RemoveContainerFails(e)
  <2>1. NoContainer \in Container
    BY DEF NoContainer, Container, ContainerState
  <2>2. container' \in [Execution -> Container]
    BY <1>1, <1>18, <2>1 DEF RemoveContainerFails, ExecutorTypeOK
  <2>3. pc' \in [Execution -> ThreadPC]
    BY <1>1, <1>18 DEF RemoveContainerFails, ExecutorTypeOK
  <2> QED BY <1>1, <1>2, <1>3, <1>18, <2>2, <2>3
          DEF RemoveContainerFails, ExecutorTypeOK
<1>19. CASE RemoveCloneDir(e)
  BY <1>1, <1>2, <1>3, <1>19 DEF RemoveCloneDir, ExecutorTypeOK, hostVars
<1>20. CASE CreateOutputBuffer(e)
  BY <1>1, <1>2, <1>20, CreateBufferType DEF CreateOutputBuffer, ExecutorTypeOK, hostVars
<1>21. CASE MarkRunning(e)
  BY <1>1, <1>3, <1>21, UpdateStatusType
  DEF MarkRunning, ExecutorTypeOK, hostVars, Recorded, Active
<1>22. CASE MarkComplete(e)
  <2>1. FinalCode(e) \in ExitCode
    BY <1>1 DEF FinalCode, ExecutorTypeOK, ExitCode
  <2> QED BY <1>1, <1>2, <1>3, <1>22, <2>1, MarkBufferCompleteType
          DEF MarkComplete, ExecutorTypeOK, hostVars
<1>23. CASE RecordVerdict(e)
  <2>1. FinalCode(e) \in ExitCode /\ FinalStatus(e) \in Recorded
    BY <1>1 DEF FinalCode, FinalStatus, ExecutorTypeOK, ExitCode, Recorded, Terminal
  <2> QED BY <1>1, <1>3, <1>23, <2>1, UpdateStatusType
          DEF RecordVerdict, ExecutorTypeOK, hostVars
<1>24. CASE HandleException(e)
  <2>1. -1 \in ExitCode
    BY DEF ExitCode
  <2> QED BY <1>1, <1>2, <1>3, <1>24, <2>1, MarkBufferCompleteType
          DEF HandleException, ExecutorTypeOK, hostVars
<1>25. CASE RecordFailure(e)
  <2>1. -1 \in ExitCode /\ "failed" \in Recorded
    BY DEF ExitCode, Recorded, Terminal
  <2> QED BY <1>1, <1>3, <1>25, <2>1, UpdateStatusType
          DEF RecordFailure, ExecutorTypeOK, hostVars
<1> QED
  BY <1>4, <1>5, <1>6, <1>7, <1>8, <1>9, <1>10, <1>11, <1>12, <1>13,
     <1>14, <1>15, <1>16, <1>17, <1>18, <1>19, <1>20, <1>21, <1>22, <1>23,
     <1>24, <1>25 DEF ThreadStep

(***************************************************************************)
(* A log-stream thread hands a chunk of the log to capture_output, or      *)
(* ends.                                                                   *)
(***************************************************************************)
LEMMA StreamStepType ==
  ASSUME TypeOK, NEW e \in Execution, NEW s \in Stream, StreamStep(e, s)
  PROVE  ManagerTypeOK' /\ CollectorTypeOK' /\ ExecutorTypeOK'
<1>1. ManagerTypeOK /\ CollectorTypeOK /\ ExecutorTypeOK
  BY DEF TypeOK
<1>2. CASE StreamChunk(e, s)
  <2>1. PICK last \in consumed[e][s] + 1 .. container[e].out[s] :
          IF HasBuffer(e)
          THEN /\ CaptureOutput(e, s, [k \in 1 .. last - consumed[e][s] |->
                                          consumed[e][s] + k])
               /\ consumed' = [consumed EXCEPT ![e][s] = last]
               /\ UNCHANGED stream
          ELSE /\ stream' = [stream EXCEPT ![e][s] = "done"]
               /\ UNCHANGED <<consumed, buffer>>
    BY <1>2 DEF StreamChunk
  <2> DEFINE chunk == [k \in 1 .. last - consumed[e][s] |-> consumed[e][s] + k]
  <2>2. consumed[e][s] \in Nat /\ container[e].out[s] \in Nat
    BY <1>1 DEF ExecutorTypeOK, Container
  <2>3. last \in Nat /\ last - consumed[e][s] \in Nat
    BY <2>2
  <2>4. chunk \in Seq(Nat)
    BY <2>2, <2>3, BytesAreSequence DEF Bytes
  <2>5. s \in {"stdout", "stderr"}
    BY ExecutorAssumption
  <2>6. CollectorTypeOK'
    <3>1. CASE HasBuffer(e)
      <4>1. CaptureOutput(e, s, chunk)
        BY <2>1, <3>1
      <4> QED BY <1>1, <2>4, <2>5, <3>1, <4>1, CaptureOutputType
    <3>2. CASE ~HasBuffer(e)
      BY <1>1, <2>1, <3>2 DEF CollectorTypeOK
    <3> QED BY <3>1, <3>2
  <2>7. consumed' \in [Execution -> [Stream -> Nat]]
    <3>1. consumed \in [Execution -> [Stream -> Nat]]
      BY <1>1 DEF ExecutorTypeOK
    <3>2. [consumed EXCEPT ![e][s] = last] \in [Execution -> [Stream -> Nat]]
      BY <2>3, <3>1, GridUpdate
    <3>3. consumed' = consumed \/ consumed' = [consumed EXCEPT ![e][s] = last]
      BY <2>1
    <3> QED BY <3>1, <3>2, <3>3
  <2>8. stream' \in [Execution -> [Stream -> StreamState]]
    <3>1. "done" \in StreamState
      BY DEF StreamState
    <3>2. stream \in [Execution -> [Stream -> StreamState]]
      BY <1>1 DEF ExecutorTypeOK
    <3>3. [stream EXCEPT ![e][s] = "done"] \in [Execution -> [Stream -> StreamState]]
      BY <3>1, <3>2, GridUpdate
    <3>4. stream' = stream \/ stream' = [stream EXCEPT ![e][s] = "done"]
      BY <2>1
    <3> QED BY <3>2, <3>3, <3>4
  <2> QED BY <1>1, <1>2, <2>6, <2>7, <2>8
          DEF StreamChunk, ExecutorTypeOK, ManagerTypeOK, managerVars, hostVars
<1>3. CASE StreamEnds(e, s)
  BY <1>1, <1>3
  DEF StreamEnds, ExecutorTypeOK, ManagerTypeOK, CollectorTypeOK, managerVars,
      hostVars, StreamState
<1> QED BY <1>2, <1>3 DEF StreamStep

\* The script writes or exits.
LEMMA ScriptStepType ==
  ASSUME TypeOK, NEW e \in Execution, ScriptStep(e)
  PROVE  ManagerTypeOK' /\ CollectorTypeOK' /\ ExecutorTypeOK'
<1>1. container[e] \in Container /\ container \in [Execution -> Container]
  BY DEF TypeOK, ExecutorTypeOK
<1>2. container' \in [Execution -> Container]
  <2>1. CASE ScriptExits(e)
    <3>1. PICK x \in {0, 1} : container' = [container EXCEPT
            ![e] = [container[e] EXCEPT !.state = "exited", !.code = x]]
      BY <1>1, <2>1, Zenon DEF ScriptExits
    <3>2. "exited" \in ContainerState
      BY Zenon DEF ContainerState
    <3>3. [container[e] EXCEPT !.state = "exited", !.code = x] \in Container
      BY <1>1, <3>2, ContainerUpdate, Zenon
    <3> QED BY <1>1, <3>1, <3>3, Zenon
  <2>2. CASE \E s \in Stream : ScriptWrites(e, s)
    <3>1. PICK s \in Stream : container' = [container EXCEPT
            ![e] = [container[e] EXCEPT !.out[s] = @ + 1]]
      BY <1>1, <2>2, Zenon DEF ScriptWrites
    <3>2. [container[e] EXCEPT !.out[s] = @ + 1] \in Container
      BY <1>1, ContainerUpdate, Zenon
    <3> QED BY <1>1, <3>1, <3>2, Zenon
  <2> QED BY <2>1, <2>2 DEF ScriptStep
<1> QED BY <1>2
        DEF ScriptStep, ScriptExits, ScriptWrites, TypeOK, ManagerTypeOK,
            CollectorTypeOK, ExecutorTypeOK, managerVars, threadVars
(***************************************************************************)
(* The event loop: handlers, cleanup and polls.                            *)
(***************************************************************************)
LEMMA LoopStepType ==
  ASSUME TypeOK, [Execute \/ Cleanup \/ \E e \in Execution : Age(e)]_vars
  PROVE  TypeOK'
<1>1. ManagerTypeOK /\ CollectorTypeOK /\ ExecutorTypeOK /\ LoopTypeOK
  BY DEF TypeOK
<1>2. UNCHANGED managerVars => ManagerTypeOK'
  BY <1>1 DEF ManagerTypeOK, managerVars
<1>3. UNCHANGED buffer => CollectorTypeOK'
  BY <1>1 DEF CollectorTypeOK
<1>4. UNCHANGED <<threadVars, container>> /\ cloneDir' \subseteq Execution
        => ExecutorTypeOK'
  BY <1>1 DEF ExecutorTypeOK, threadVars
<1>5. UNCHANGED <<threadVars, hostVars>> => ExecutorTypeOK'
  BY <1>1 DEF ExecutorTypeOK, threadVars, hostVars
<1>6. cloneDir \subseteq Execution
  BY <1>1 DEF ExecutorTypeOK
<1>7. CASE UNCHANGED vars
  BY <1>1, <1>2, <1>3, <1>5, <1>7 DEF vars, loopVars, executorVars, LoopTypeOK, TypeOK
<1>8. CASE \E e \in Execution : CloneRepository(e)
  BY <1>1, <1>2, <1>3, <1>4, <1>6, <1>8
  DEF CloneRepository, LoopTypeOK, LoopState, Handling, TypeOK
<1>9. CASE AcceptScript \/ AttestExecution
  BY <1>1, <1>2, <1>3, <1>5, <1>9
  DEF AcceptScript, AttestExecution, Advance, LoopTypeOK, LoopState, Handling,
      executorVars, TypeOK
<1>10. CASE RejectScript \/ RejectAtCapacity \/ AttestationFails \/ HandOffFails
  BY <1>1, <1>2, <1>3, <1>4, <1>6, <1>10
  DEF RejectScript, RejectAtCapacity, AttestationFails, HandOffFails, Abandon,
      LoopTypeOK, LoopState, Handling, TypeOK
<1>11. CASE AdmitExecution
  <2>1. request \in Execution
    BY <1>1, <1>11 DEF AdmitExecution, Advance, LoopTypeOK, Handling
  <2>2. ManagerTypeOK'
    BY <1>1, <1>11, <2>1, RegisterExecutionType DEF AdmitExecution
  <2> QED BY <1>1, <1>3, <1>5, <1>11, <2>2
          DEF AdmitExecution, Advance, LoopTypeOK, LoopState, Handling, TypeOK
<1>12. CASE StoreContext
  BY <1>1, <1>2, <1>3, <1>5, <1>12
  DEF StoreContext, Advance, LoopTypeOK, LoopState, Handling, executorVars, TypeOK
<1>13. CASE HandOff
  <2>1. ExecutorTypeOK'
    BY <1>1, <1>13 DEF HandOff, Advance, ExecutorTypeOK, ThreadPC, hostVars
  <2> QED BY <1>1, <1>2, <1>3, <1>13, <2>1
          DEF HandOff, Advance, LoopTypeOK, LoopState, Handling, TypeOK
<1>14. CASE Respond
  BY <1>1, <1>2, <1>3, <1>5, <1>14
  DEF Respond, LoopTypeOK, LoopState, Handling, executorVars, TypeOK
<1>15. CASE SweepRecords
  <2>1. ManagerTypeOK' /\ expiring' \subseteq Execution
    BY <1>1, <1>15, RemoveExpiredType DEF SweepRecords, Expired
  <2> QED BY <1>1, <1>3, <1>5, <1>15, <2>1
          DEF SweepRecords, LoopTypeOK, LoopState, Handling, TypeOK
<1>16. CASE DropContexts
  BY <1>1, <1>2, <1>3, <1>5, <1>16
  DEF DropContexts, Advance, LoopTypeOK, LoopState, Handling, executorVars, TypeOK
<1>17. CASE DropBuffers
  <2>1. CollectorTypeOK'
    BY <1>1, <1>17, RemoveOutputsType DEF DropBuffers
  <2> QED BY <1>1, <1>2, <1>5, <1>17, <2>1
          DEF DropBuffers, LoopTypeOK, LoopState, Handling, TypeOK
<1>18. CASE \E e \in Execution : Age(e)
  <2>1. ManagerTypeOK'
    BY <1>1, <1>18 DEF Age, RetentionElapses, ManagerTypeOK
  <2> QED BY <1>1, <1>3, <1>5, <1>18, <2>1 DEF Age, loopVars, LoopTypeOK, TypeOK
<1> QED BY <1>7, <1>8, <1>9, <1>10, <1>11, <1>12, <1>13, <1>14, <1>15, <1>16,
           <1>17, <1>18 DEF Execute, Cleanup

(***************************************************************************)
(* What a poll leaves alone, and what a client has after the steps that    *)
(* give it no output.                                                      *)
(***************************************************************************)
LEMMA PollingFrame ==
  ASSUME NEW p \in Poller, Polling(p)
  PROVE  /\ UNCHANGED <<executorVars, up, request, contexts, expiring>>
         /\ loop \in {"idle", "poll"} /\ loop' \in {"idle", "poll"}
<1>1. ASSUME NEW e \in Execution, BeginPoll(p, e)
      PROVE  UNCHANGED <<executorVars, up, request, contexts, expiring, loop>> /\ loop = "idle"
  BY <1>1, Zenon DEF BeginPoll
<1>2. CASE PollRejected(p) \/ PollMissesRecord(p)
  <2>1. UNCHANGED <<executorVars, up, request, contexts, expiring, loop>> /\ loop = "idle"
    BY <1>2, Zenon DEF PollRejected, PollMissesRecord
  <2> QED BY <2>1
<1>3. CASE PollOutput(p) \/ PollStatus(p)
  <2>1. /\ UNCHANGED <<executorVars, up, request, contexts, expiring>>
        /\ loop \in {"idle", "poll"} /\ loop' \in {"idle", "poll"}
    BY <1>3, Zenon DEF PollOutput, PollStatus
  <2> QED BY <2>1
<1> QED BY <1>1, <1>2, <1>3 DEF Polling

LEMMA RefusalTyped ==
  ASSUME NEW c \in {0, 200, 400, 404}
  PROVE  Refusal(c) \in Reply /\ Refusal(c).code = c
<1>1. "none" \in Status /\ NoExit \in ExitCode \cup {NoExit}
  BY DEF Status
<1> QED BY <1>1 DEF Refusal, Reply

\* A client that has not been answered.
LEMMA ClientUnknown ==
  /\ NoPoll.at = "idle" /\ NoPoll.exec = NoExecution /\ NoPoll.offset = 0
  /\ NoPoll.reply.code = 0
<1>1. NoReply.code = 0
  BY DEF NoReply, Refusal
<1> QED BY <1>1 DEF NoPoll

\* A poll that begins, is refused or finds no record.
WithoutOutput(p) ==
  (\E e \in Execution : BeginPoll(p, e)) \/ PollRejected(p) \/ PollMissesRecord(p)

\* The client side of a poll after such a step.
LEMMA ClientBegins ==
  ASSUME NEW old \in Poll, NEW e \in Execution
  PROVE  [old EXCEPT !.exec = e, !.at = "body"] \in Poll
BY Zenon DEF Poll

LEMMA ClientRefused ==
  ASSUME NEW old \in Poll, NEW e \in Execution, NEW r \in Reply
  PROVE  [old EXCEPT !.exec = e, !.reply = r] \in Poll
BY Zenon DEF Poll

LEMMA ClientStops ==
  ASSUME NEW old \in Poll, NEW r \in Reply
  PROVE  [old EXCEPT !.at = "idle", !.reply = r] \in Poll
BY Zenon DEF Poll

LEMMA WithoutOutputEffect ==
  ASSUME poll \in [Poller -> Poll], NEW p \in Poller, WithoutOutput(p),
         poll[p].at # "idle" => poll[p].exec \in Execution
  PROVE  /\ UNCHANGED <<executorVars, loop, snapshot>> /\ loop = "idle"
         /\ poll' \in [Poller -> Poll] /\ \A q \in Poller \ {p} : poll'[q] = poll[q]
         /\ poll'[p].at \in {"idle", "body"} /\ poll'[p].exec \in Execution
         /\ poll'[p].exec = poll[p].exec \/ poll[p].exec = NoExecution
         /\ poll'[p].offset = poll[p].offset /\ poll'[p].stdout = poll[p].stdout
         /\ poll'[p].reply = poll[p].reply \/ poll'[p].reply.code \in {400, 404}
<1> DEFINE old == poll[p]
<1>1. old \in Poll
  OBVIOUS
<1>2. UNCHANGED <<executorVars, loop, snapshot>> /\ loop = "idle"
  <2>1. ASSUME NEW e \in Execution, BeginPoll(p, e)
        PROVE  UNCHANGED <<executorVars, loop, snapshot>> /\ loop = "idle"
    BY <2>1, Zenon DEF BeginPoll
  <2>2. CASE PollRejected(p)
    BY <2>2, Zenon DEF PollRejected
  <2>3. CASE PollMissesRecord(p)
    BY <2>3, Zenon DEF PollMissesRecord
  <2> QED BY <2>1, <2>2, <2>3 DEF WithoutOutput
<1>3. ASSUME NEW new \in Poll, poll' = [poll EXCEPT ![p] = new]
      PROVE  /\ poll' \in [Poller -> Poll] /\ \A q \in Poller \ {p} : poll'[q] = poll[q]
             /\ poll'[p] = new
  BY <1>3
<1>4. ASSUME NEW e \in Execution, BeginPoll(p, e), e \in contexts
      PROVE  /\ poll' \in [Poller -> Poll] /\ \A q \in Poller \ {p} : poll'[q] = poll[q]
             /\ poll'[p].at = "body" /\ poll'[p].exec = e
             /\ old.exec = e \/ old.exec = NoExecution
             /\ poll'[p].offset = old.offset /\ poll'[p].stdout = old.stdout
             /\ poll'[p].reply = old.reply
  <2> DEFINE new == [old EXCEPT !.exec = e, !.at = "body"]
  <2>1. poll' = [poll EXCEPT ![p] = new] /\ old.exec \in {NoExecution, e}
    BY <1>4, Zenon DEF BeginPoll
  <2>2. /\ new.at = "body" /\ new.exec = e /\ new.offset = old.offset
        /\ new.stdout = old.stdout /\ new.reply = old.reply
    BY <1>1 DEF Poll
  <2>3. new \in Poll
    BY <1>1, ClientBegins, Zenon
  <2> HIDE DEF new
  <2> QED BY <1>3, <2>1, <2>2, <2>3
<1>5. ASSUME NEW e \in Execution, BeginPoll(p, e), e \notin contexts
      PROVE  /\ poll' \in [Poller -> Poll] /\ \A q \in Poller \ {p} : poll'[q] = poll[q]
             /\ poll'[p].at = "idle" /\ poll'[p].exec = e
             /\ old.exec = e \/ old.exec = NoExecution
             /\ poll'[p].offset = old.offset /\ poll'[p].stdout = old.stdout
             /\ poll'[p].reply.code \in {400, 404}
  <2> DEFINE refusal == Refusal(IF HasRecord(e) THEN 400 ELSE 404)
             new == [old EXCEPT !.exec = e, !.reply = refusal]
  <2>1. poll' = [poll EXCEPT ![p] = new] /\ old.at = "idle" /\ old.exec \in {NoExecution, e}
    BY <1>5, Zenon DEF BeginPoll
  <2>2. refusal \in Reply /\ refusal.code \in {400, 404}
    BY RefusalTyped
  <2> HIDE DEF refusal
  <2>3. /\ new.at = old.at /\ new.exec = e /\ new.offset = old.offset
        /\ new.stdout = old.stdout /\ new.reply = refusal
    BY <1>1 DEF Poll
  <2>4. new \in Poll
    <3>1. old \in Poll /\ refusal \in Reply
      BY <1>1, <2>2
    <3> HIDE DEF old
    <3> QED BY <3>1, ClientRefused, Zenon
  <2> HIDE DEF new
  <2> QED BY <1>3, <2>1, <2>2, <2>3, <2>4
<1>6. ASSUME PollRejected(p) \/ PollMissesRecord(p)
      PROVE  /\ poll' \in [Poller -> Poll] /\ \A q \in Poller \ {p} : poll'[q] = poll[q]
             /\ poll'[p].at = "idle" /\ poll'[p].exec = old.exec /\ old.exec \in Execution
             /\ poll'[p].offset = old.offset /\ poll'[p].stdout = old.stdout
             /\ poll'[p].reply.code \in {400, 404}
  <2>1. /\ \E c \in {400, 404} : poll' = Replied(p, c)
        /\ old.at = "body"
    <3>1. CASE PollRejected(p)
      BY <3>1, Zenon DEF PollRejected
    <3>2. CASE PollMissesRecord(p)
      BY <3>2, Zenon DEF PollMissesRecord
    <3> QED BY <1>6, <3>1, <3>2
  <2>2. PICK c \in {400, 404} : poll' = Replied(p, c)
    BY <2>1
  <2> DEFINE refusal == Refusal(c)
             new == [old EXCEPT !.at = "idle", !.reply = refusal]
  <2>3. poll' = [poll EXCEPT ![p] = new]
    BY <2>2, Zenon DEF Replied
  <2>4. refusal \in Reply /\ refusal.code = c
    BY RefusalTyped
  <2> HIDE DEF refusal
  <2>5. /\ new.at = "idle" /\ new.exec = old.exec /\ new.offset = old.offset
        /\ new.stdout = old.stdout /\ new.reply = refusal
    BY <1>1 DEF Poll
  <2>6. new \in Poll
    <3>1. old \in Poll /\ refusal \in Reply
      BY <1>1, <2>4
    <3> HIDE DEF old
    <3> QED BY <3>1, ClientStops, Zenon
  <2> HIDE DEF new
  <2> QED BY <1>3, <2>1, <2>3, <2>4, <2>5, <2>6
<1> QED BY <1>2, <1>4, <1>5, <1>6 DEF WithoutOutput

\* Polls keep their own state well typed and touch nothing else.
LEMMA PollingType ==
  ASSUME TypeOK, NEW p \in Poller, Polling(p)
  PROVE  TypeOK'
<1> DEFINE PollsOK == /\ poll' \in [Poller -> Poll]
                      /\ \A q \in Poller :
                           poll'[q].at # "idle" => poll'[q].exec \in Execution
<1>1. ManagerTypeOK /\ CollectorTypeOK /\ ExecutorTypeOK /\ LoopTypeOK
  BY DEF TypeOK
<1>2. UNCHANGED executorVars => ManagerTypeOK' /\ CollectorTypeOK' /\ ExecutorTypeOK'
  BY <1>1 DEF ManagerTypeOK, CollectorTypeOK, ExecutorTypeOK, executorVars,
              managerVars, threadVars, hostVars
<1>3. poll[p] \in Poll /\ poll \in [Poller -> Poll]
  BY <1>1 DEF LoopTypeOK
<1>4. \A q \in Poller : poll[q].at # "idle" => poll[q].exec \in Execution
  BY <1>1 DEF LoopTypeOK
<1>6. ASSUME NEW new \in Poll, poll' = [poll EXCEPT ![p] = new],
             new.at # "idle" => new.exec \in Execution
      PROVE  PollsOK
  BY <1>3, <1>4, <1>6
<1>7. NoOutput \in Output
  <2>1. <<>> \in Seq(Nat)
    BY EmptySeq
  <2> QED BY <2>1 DEF NoOutput, Output
<1>8. CASE WithoutOutput(p)
  <2>1. /\ poll' \in [Poller -> Poll] /\ \A q \in Poller \ {p} : poll'[q] = poll[q]
        /\ poll'[p].exec \in Execution
        /\ UNCHANGED <<loop, snapshot, executorVars>> /\ loop = "idle"
    BY <1>3, <1>4, <1>8, WithoutOutputEffect
  <2>2. PollsOK
    BY <1>4, <2>1
  <2>3. UNCHANGED <<up, request, contexts, expiring>>
    BY PollingFrame
  <2> QED BY <1>1, <1>2, <2>1, <2>2, <2>3 DEF LoopTypeOK, TypeOK
<1>10. CASE PollOutput(p)
  <2> DEFINE new == [poll[p] EXCEPT !.at = "status"]
  <2>1. poll' = [poll EXCEPT ![p] = new]
    BY <1>3, <1>10 DEF PollOutput
  <2>2. new \in Poll /\ new.exec = poll[p].exec
    BY <1>3 DEF Poll
  <2>3. poll[p].exec \in Execution
    BY <1>4, <1>10 DEF PollOutput
  <2>4. PollsOK
    BY <1>6, <2>1, <2>2, <2>3
  <2>5. poll[p].offset \in Nat
    BY <1>3 DEF Poll
  <2>6. snapshot' \in Output
    BY <1>1, <1>7, <1>10, <2>5, GetOutputType DEF PollOutput, HasBuffer
  <2> QED BY <1>1, <1>2, <1>10, <2>4, <2>6
          DEF PollOutput, LoopTypeOK, LoopState, Handling, TypeOK
<1>11. CASE PollStatus(p)
  <2> DEFINE reply == [code |-> 200, status |-> status[poll[p].exec],
                       complete |-> snapshot.complete,
                       exitCode |-> snapshot.exitCode]
             out == poll[p].stdout \o snapshot.stdout
             err == poll[p].stderr \o snapshot.stderr
             new == [poll[p] EXCEPT !.at = "idle",
                                    !.offset = snapshot.stdoutOffset,
                                    !.stdout = out, !.stderr = err,
                                    !.reply = reply]
  <2>1. poll' = [poll EXCEPT ![p] = new]
    BY <1>3, <1>11 DEF PollStatus
  <2>2. /\ snapshot.stdout \in Seq(Nat) /\ snapshot.stderr \in Seq(Nat)
        /\ snapshot.stdoutOffset \in Nat /\ snapshot.complete \in BOOLEAN
        /\ snapshot.exitCode \in ExitCode \cup {NoExit}
    BY <1>1 DEF LoopTypeOK, Output
  <2>3. out \in Seq(Nat) /\ err \in Seq(Nat)
    <3>1. poll[p].stdout \in Seq(Nat) /\ poll[p].stderr \in Seq(Nat)
      BY <1>3 DEF Poll
    <3> QED BY <2>2, <3>1, ConcatProperties
  <2>4. status[poll[p].exec] \in Status
    BY <1>1, <1>4, <1>11 DEF PollStatus, ManagerTypeOK
  <2>5. reply \in Reply
    BY <2>2, <2>4 DEF Reply
  <2> HIDE DEF reply, out, err
  <2>6. new \in Poll /\ new.at = "idle"
    BY <1>3, <2>2, <2>3, <2>5 DEF Poll
  <2>7. PollsOK
    BY <1>6, <2>1, <2>6
  <2> QED BY <1>1, <1>2, <1>7, <1>11, <2>7
          DEF PollStatus, LoopTypeOK, LoopState, Handling, TypeOK
<1> QED BY <1>8, <1>10, <1>11 DEF Polling, WithoutOutput

\* The initial state is well typed.
LEMMA InitType == Init => TypeOK
<1> SUFFICES ASSUME Init PROVE TypeOK
  OBVIOUS
<1>1. ManagerTypeOK
  BY DEF Init, ManagerInit, ManagerTypeOK, Status
<1>2. CollectorTypeOK
  BY DEF Init, CollectorInit, CollectorTypeOK
<1>3. ExecutorTypeOK
  BY DEF Init, ThreadInit, HostInit, ExecutorTypeOK, ThreadPC, StreamState,
         NoContainer, Container, ContainerState
<1>4. LoopTypeOK
  <2>1. <<>> \in Seq(Nat)
    BY EmptySeq
  <2>2. NoReply \in Reply
    BY RefusalTyped DEF NoReply
  <2>3. NoPoll \in Poll /\ NoPoll.at = "idle"
    BY <2>1, <2>2 DEF NoPoll, Poll
  <2> QED BY <2>1, <2>3 DEF Init, LoopTypeOK, LoopState, Handling, NoOutput, Output
<1> QED BY <1>1, <1>2, <1>3, <1>4 DEF TypeOK

\* So is the state a crash leaves.
LEMMA CrashType ==
  ASSUME TypeOK, Crash \/ Restart
  PROVE  TypeOK'
<1>1. ManagerTypeOK /\ CollectorTypeOK /\ ExecutorTypeOK /\ LoopTypeOK
  BY DEF TypeOK
<1>2. NoContainer \in Container
  BY DEF NoContainer, Container, ContainerState
<1>3. CASE Crash
  <2>1. ManagerTypeOK' /\ CollectorTypeOK'
    BY <1>1, <1>3, ForgetRecordsType, RemoveOutputsType DEF Crash
  <2>2. ExecutorTypeOK'
    BY <1>1, <1>3 DEF Crash, ExecutorTypeOK, ThreadPC, StreamState, hostVars
  <2>3. LoopTypeOK'
    <3>1. <<>> \in Seq(Nat)
      BY EmptySeq
    <3>2. NoReply \in Reply
      BY RefusalTyped DEF NoReply
    <3>3. NoPoll \in Poll /\ NoPoll.at = "idle"
      BY <3>1, <3>2 DEF NoPoll, Poll
    <3> QED BY <1>3, <3>1, <3>3
            DEF Crash, LoopTypeOK, LoopState, Handling, NoOutput, Output
  <2> QED BY <2>1, <2>2, <2>3 DEF TypeOK
<1>4. CASE Restart
  BY <1>1, <1>2, <1>4
  DEF Restart, TypeOK, ManagerTypeOK, CollectorTypeOK, ExecutorTypeOK, LoopTypeOK,
      managerVars, threadVars
<1> QED BY <1>3, <1>4

(***************************************************************************)
(* Type correctness, for any set of executions and pollers and any limits. *)
(***************************************************************************)
THEOREM TypeCorrect == Spec => []TypeOK
<1>1. TypeOK /\ [Next]_vars => TypeOK'
  <2> SUFFICES ASSUME TypeOK, [Next]_vars PROVE TypeOK'
    OBVIOUS
  <2>1. UNCHANGED loopVars => LoopTypeOK'
    BY DEF TypeOK, loopVars, LoopTypeOK
  <2>2. CASE [Execute \/ Cleanup \/ \E e \in Execution : Age(e)]_vars
    BY <2>2, LoopStepType
  <2>3. CASE \E p \in Poller : Polling(p)
    BY <2>3, PollingType
  <2>4. CASE \E e \in Execution : Executor(e)
    BY <2>1, <2>4, ThreadStepType DEF Executor, TypeOK
  <2>5. CASE \E e \in Execution : \E s \in Stream : Streams(e, s)
    BY <2>1, <2>5, StreamStepType DEF Streams, TypeOK
  <2>6. CASE \E e \in Execution : Script(e)
    BY <2>1, <2>6, ScriptStepType DEF Script, TypeOK
  <2>7. CASE Crash \/ Restart
    BY <2>7, CrashType
  <2> QED BY <2>2, <2>3, <2>4, <2>5, <2>6, <2>7 DEF Next
<1> QED BY <1>1, InitType, PTL DEF Spec
=============================================================================
