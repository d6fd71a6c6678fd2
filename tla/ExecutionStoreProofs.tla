------------------------- MODULE ExecutionStoreProofs -------------------------
(***************************************************************************)
(* The agreement of the stores an execution is spread over, its record,    *)
(* its key and its output buffer, and what it keeps on the host, its       *)
(* container and its clone, for every number of executions and every set   *)
(* of failures of the environment, a crash included.                       *)
(*                                                                         *)
(* The argument: a key is written while the record is queued and an output *)
(* buffer while its thread runs, so both are born under a live record; the *)
(* sweep takes the record first, then remembers in `expiring` what it      *)
(* still has to drop.  The thread writes its verdict to the buffer before  *)
(* the record, and the point it has reached says how far it got.  That     *)
(* point also decides what it has on the host.  The size of an output is   *)
(* bounded by the append of a chunk alone.                                 *)
(***************************************************************************)
EXTENDS ExecutionSafetyProofs

Phased == TypeOK /\ ThreadPhase /\ HandlerPhase

Stores == SweepPhase /\ KeyBeforeThread /\ StoresAgree

(***************************************************************************)
(* What a step of a thread does to the output store.                       *)
(***************************************************************************)
LEMMA ThreadBuffers ==
  ASSUME NEW e \in Execution, ThreadStep(e)
  PROVE  \/ UNCHANGED buffer
         \/ CreateOutputBuffer(e)
         \/ MarkComplete(e) /\ HasBuffer(e)
         \/ HandleException(e) /\ HasBuffer(e)
BY DEF ThreadStep, LookUpRecord, MarkRunning, CreateContainer, CreateContainerFails,
       StartContainer, StartContainerFails, StartStreams, StartStreamsFails,
       WaitReturns, WaitRaises, StopContainer, StopFails, JoinStreams, MarkComplete,
       RecordVerdict, HandleException, RecordFailure, Untrack, RemoveContainer,
       RemoveContainerFails, RemoveCloneDir

\* A thread adds its own buffer only, in create_buffer.
LEMMA ThreadDomain ==
  ASSUME NEW e \in Execution, ThreadStep(e)
  PROVE  \/ DOMAIN buffer' = DOMAIN buffer
         \/ pc[e] = "buffer" /\ DOMAIN buffer' = DOMAIN buffer \cup {e}
<1>1. CASE UNCHANGED buffer
  BY <1>1
<1>2. CASE CreateOutputBuffer(e)
  BY <1>2 DEF CreateOutputBuffer, CreateBuffer, Goto, HasBuffer
<1>3. CASE (MarkComplete(e) \/ HandleException(e)) /\ HasBuffer(e)
  BY <1>3 DEF MarkComplete, HandleException, MarkBufferComplete
<1> QED BY <1>1, <1>2, <1>3, ThreadBuffers

(***************************************************************************)
(* A log-stream thread appends to a buffer: it adds none and changes       *)
(* neither a completion flag nor an exit code.                             *)
(***************************************************************************)
LEMMA StreamBuffers ==
  ASSUME Phased, NEW e \in Execution, NEW s \in Stream, Streams(e, s)
  PROVE  /\ UNCHANGED <<pc, exitSeen, status, exitCode, loopVars>>
         /\ DOMAIN buffer' = DOMAIN buffer
         /\ \A x \in DOMAIN buffer : /\ buffer'[x].complete = buffer[x].complete
                                     /\ buffer'[x].exitCode = buffer[x].exitCode
<1>1. UNCHANGED <<pc, exitSeen, status, exitCode, loopVars>>
  BY DEF Streams, StreamStep, StreamChunk, StreamEnds, managerVars
<1>2. CASE UNCHANGED buffer
  BY <1>1, <1>2
<1>3. ASSUME NEW chunk, HasBuffer(e),
             buffer' = [buffer EXCEPT ![e] = Captured(buffer[e], s, chunk)]
      PROVE  /\ DOMAIN buffer' = DOMAIN buffer
             /\ \A x \in DOMAIN buffer : /\ buffer'[x].complete = buffer[x].complete
                                         /\ buffer'[x].exitCode = buffer[x].exitCode
  <2>1. buffer[e] \in Buffer
    BY <1>3 DEF Phased, TypeOK, CollectorTypeOK, HasBuffer
  <2>2. Captured(buffer[e], s, chunk).complete = buffer[e].complete
        /\ Captured(buffer[e], s, chunk).exitCode = buffer[e].exitCode
    BY <2>1 DEF Captured, Buffer
  <2> QED BY <1>3, <2>2 DEF HasBuffer
<1>4. \/ UNCHANGED buffer
      \/ /\ HasBuffer(e)
         /\ \E chunk : buffer' = [buffer EXCEPT ![e] = Captured(buffer[e], s, chunk)]
  BY DEF Streams, StreamStep, StreamChunk, StreamEnds, CaptureOutput
<1> QED BY <1>1, <1>2, <1>3, <1>4
-----------------------------------------------------------------------------
(***************************************************************************)
(* Keys and buffers.                                                       *)
(***************************************************************************)
LEMMA ThreadKeepsStores ==
  ASSUME Phased, Stores, NEW e \in Execution, Executor(e)
  PROVE  Stores'
<1>1. ThreadStep(e) /\ UNCHANGED <<loop, contexts, expiring>>
  BY DEF Executor, loopVars
<1>2. PICK to \in ThreadPC, s \in Status : pc[e] # "idle" /\ Moves(e, to, s)
  BY <1>1, ThreadEffect DEF Phased
<1>3. pc \in [Execution -> ThreadPC] /\ status \in [Execution -> Status]
  BY DEF Phased, TypeOK, ExecutorTypeOK, ManagerTypeOK
<1>4. \A x \in Execution : /\ HasRecord(x)' <=> HasRecord(x)
                           /\ status[x] = "removed" => status'[x] = "removed"
                           /\ pc'[x] # "idle" => pc[x] # "idle"
  <2>1. \A x \in Execution \ {e} : status'[x] = status[x] /\ pc'[x] = pc[x]
    BY <1>2, <1>3 DEF Moves
  <2>2. status'[e] = s
    BY <1>2, <1>3 DEF Moves
  <2>3. \/ s = status[e]
        \/ status[e] \in {"queued", "running"} /\ s \in {"running"} \cup Terminal
    BY <1>2 DEF Moves, Starts, Ends
  <2> QED BY <1>2, <2>1, <2>2, <2>3 DEF HasRecord, Recorded, Active, Terminal
<1>5. SweepPhase'
  BY <1>1, <1>4 DEF Stores, SweepPhase, Phased, TypeOK, LoopTypeOK
<1>6. KeyBeforeThread'
  BY <1>1, <1>4 DEF Stores, KeyBeforeThread
<1>7. StoresAgree'
  <2>1. pc[e] = "buffer" => HasRecord(e)
    BY DEF Phased, ThreadPhase, Fits, HasRecord, Recorded, Active
  <2>2. \A x \in contexts \cup DOMAIN buffer' : x \in contexts \cup DOMAIN buffer \/ HasRecord(x)
    BY <1>1, <2>1, ThreadDomain
  <2>3. contexts \cup DOMAIN buffer' \subseteq Execution
    BY <1>1, ThreadDomain DEF Phased, TypeOK, LoopTypeOK, CollectorTypeOK
  <2> QED BY <1>1, <1>4, <2>2, <2>3 DEF Stores, StoresAgree
<1> QED BY <1>5, <1>6, <1>7 DEF Stores

(***************************************************************************)
(* The /execute handler stores a key for the queued record it has just     *)
(* created.                                                                *)
(***************************************************************************)
LEMMA HandlerKeepsStores ==
  ASSUME Phased, Stores, Execute
  PROVE  Stores'
<1>1. expiring = {} /\ expiring' = {} /\ UNCHANGED buffer
  BY DEF Stores, SweepPhase, Execute, CloneRepository, AcceptScript, RejectScript,
         AdmitExecution, RejectAtCapacity, AttestExecution, AttestationFails,
         StoreContext, HandOff, HandOffFails, Respond, Advance, Abandon, executorVars
<1>2. SweepPhase'
  BY <1>1 DEF SweepPhase
<1>3. CASE UNCHANGED <<status, pc, contexts>>
  BY <1>1, <1>2, <1>3 DEF Stores, KeyBeforeThread, StoresAgree, HasRecord
<1>4. CASE AdmitExecution
  <2>1. /\ request \in Execution /\ pc[request] = "idle" /\ status[request] = "none"
        /\ UNCHANGED <<pc, contexts>> /\ status' = [status EXCEPT ![request] = "queued"]
    BY <1>4 DEF AdmitExecution, Advance, RegisterExecution, Phased, HandlerPhase,
                TypeOK, LoopTypeOK, Handling, threadVars
  <2>2. \A x \in Execution : HasRecord(x) => HasRecord(x)'
    BY <2>1 DEF HasRecord, Recorded, Active, Terminal, Phased, TypeOK, ManagerTypeOK
  <2>3. \A x \in Execution : x # request => (HasRecord(x)' <=> HasRecord(x))
    BY <2>1 DEF HasRecord, Phased, TypeOK, ManagerTypeOK
  <2>4. KeyBeforeThread'
    BY <2>1, <2>3 DEF Stores, KeyBeforeThread
  <2>5. contexts \cup DOMAIN buffer \subseteq Execution
    BY DEF Phased, TypeOK, LoopTypeOK, CollectorTypeOK
  <2> QED BY <1>1, <1>2, <2>1, <2>2, <2>4, <2>5 DEF Stores, StoresAgree
<1>5. CASE StoreContext
  <2>1. /\ request \in Execution /\ HasRecord(request) /\ UNCHANGED <<pc, status>>
        /\ contexts' = contexts \cup {request}
    BY <1>5 DEF StoreContext, Advance, Phased, HandlerPhase, TypeOK, LoopTypeOK,
                Handling, HasRecord, Recorded, Active, executorVars, threadVars,
                managerVars
  <2> QED BY <1>1, <1>2, <2>1
          DEF Stores, KeyBeforeThread, StoresAgree, HasRecord
<1>6. CASE HandOff
  <2>1. /\ request \in Execution /\ request \in contexts
        /\ UNCHANGED <<status, contexts>> /\ pc' = [pc EXCEPT ![request] = "lookup"]
    BY <1>6 DEF HandOff, Advance, Phased, HandlerPhase, TypeOK, LoopTypeOK, Handling,
                managerVars
  <2>2. KeyBeforeThread'
    BY <2>1 DEF Stores, KeyBeforeThread, HasRecord, Phased, TypeOK, ExecutorTypeOK
  <2> QED BY <1>1, <1>2, <2>1, <2>2 DEF Stores, StoresAgree, HasRecord
<1>7. \/ UNCHANGED <<status, pc, contexts>>
      \/ AdmitExecution
      \/ StoreContext
      \/ HandOff
  BY DEF Execute, CloneRepository, AcceptScript, RejectScript, RejectAtCapacity,
         AttestExecution, AttestationFails, HandOffFails, Respond, Abandon,
         executorVars, threadVars, managerVars
<1> QED BY <1>3, <1>4, <1>5, <1>6, <1>7

(***************************************************************************)
(* The sweep remembers the records it removed until it has dropped their   *)
(* keys and buffers.                                                       *)
(***************************************************************************)
LEMMA SweepKeepsStores ==
  ASSUME Phased, Stores, Cleanup
  PROVE  Stores'
<1>1. contexts \cup DOMAIN buffer \subseteq Execution /\ expiring \subseteq Execution
  BY DEF Phased, TypeOK, LoopTypeOK, CollectorTypeOK
<1>2. CASE SweepRecords
  <2>1. /\ expiring = {} /\ expiring' = Expired
        /\ UNCHANGED <<pc, contexts, buffer>>
        /\ loop' = IF Expired = {} THEN "idle" ELSE "dropContexts"
    BY <1>2 DEF SweepRecords, Stores, SweepPhase, threadVars
  <2>2. \A e \in Execution :
          \/ status'[e] = status[e] /\ e \notin Expired
          \/ status[e] \in Terminal /\ status'[e] = "removed" /\ e \in Expired
    BY <1>2, SweepEffect
  <2>3. SweepPhase'
    BY <2>1, <2>2 DEF SweepPhase, Expired
  <2>4. \A e \in Execution : HasRecord(e)' => HasRecord(e)
    BY <2>2 DEF HasRecord, Recorded, Active, Terminal
  <2>5. \A e \in Execution : HasRecord(e) => HasRecord(e)' \/ e \in Expired
    BY <2>2 DEF HasRecord
  <2>6. KeyBeforeThread'
    BY <2>1, <2>4 DEF Stores, KeyBeforeThread
  <2>7. StoresAgree'
    BY <1>1, <2>1, <2>5 DEF Stores, StoresAgree
  <2> QED BY <2>3, <2>6, <2>7 DEF Stores
<1>3. \A e \in expiring : ~HasRecord(e)
  BY DEF Stores, SweepPhase, HasRecord, Recorded, Active, Terminal
<1>4. CASE DropContexts
  <2>1. /\ UNCHANGED <<pc, status, buffer, expiring>> /\ loop' = "dropBuffers"
        /\ contexts' = contexts \ expiring
    BY <1>4 DEF DropContexts, Advance, executorVars, threadVars, managerVars
  <2> QED BY <1>3, <2>1
          DEF Stores, SweepPhase, KeyBeforeThread, StoresAgree, HasRecord
<1>5. CASE DropBuffers
  <2>1. /\ UNCHANGED <<pc, status, contexts>> /\ expiring' = {}
        /\ contexts \cap expiring = {}
        /\ DOMAIN buffer' = DOMAIN buffer \ expiring
    BY <1>5 DEF DropBuffers, RemoveOutputs, threadVars, managerVars, Stores, SweepPhase
  <2> QED BY <2>1 DEF Stores, SweepPhase, KeyBeforeThread, StoresAgree, HasRecord
<1> QED BY <1>2, <1>4, <1>5 DEF Cleanup

\* Polls, log streams, scripts, the clock, a crash and a restart.
LEMMA OthersKeepStores ==
  ASSUME Phased, Stores, [Next]_vars,
         ~Execute, ~Cleanup, \A e \in Execution : ~Executor(e)
  PROVE  Stores'
<1>1. CASE \E p \in Poller : Polling(p)
  <2>1. UNCHANGED <<executorVars, contexts, expiring>> /\ expiring = {}
    BY <1>1, PollingFrame DEF Stores, SweepPhase
  <2> QED BY <2>1
          DEF executorVars, threadVars, managerVars, Stores, SweepPhase,
              KeyBeforeThread, StoresAgree, HasRecord
<1>2. CASE \E e \in Execution : \E s \in Stream : Streams(e, s)
  BY <1>2, StreamBuffers
  DEF loopVars, Stores, SweepPhase, KeyBeforeThread, StoresAgree, HasRecord
<1>3. CASE UNCHANGED vars \/ Restart \/ \E e \in Execution : Age(e) \/ Script(e)
  <2>1. UNCHANGED <<pc, status, loop, contexts, expiring, buffer>>
    BY <1>3 DEF vars, executorVars, managerVars, threadVars, loopVars, Restart, Age,
                RetentionElapses, Script, ScriptStep, ScriptExits, ScriptWrites
  <2> QED BY <2>1
          DEF Stores, SweepPhase, KeyBeforeThread, StoresAgree, HasRecord
<1>4. CASE Crash
  <2>1. contexts' = {} /\ expiring' = {} /\ DOMAIN buffer' = {}
    BY <1>4 DEF Crash, RemoveOutputs, Phased, TypeOK, CollectorTypeOK
  <2>2. \A e \in Execution : ~HasRecord(e)'
    BY <1>4 DEF Crash, ForgetRecords, HasRecord, Recorded, Active, Terminal
  <2> QED BY <2>1, <2>2 DEF Stores, SweepPhase, KeyBeforeThread, StoresAgree
<1> QED BY <1>1, <1>2, <1>3, <1>4 DEF Next

\* The stores are empty at the start.
LEMMA StoresInit == Init => Stores
BY DEF Init, ManagerInit, ThreadInit, CollectorInit, Stores, SweepPhase,
       KeyBeforeThread, StoresAgree, HasRecord, Recorded, Active, Terminal

\* The stores agree in every behaviour.
LEMMA StoresInvariant == Spec => []Stores
<1>1. Phased /\ Stores /\ [Next]_vars => Stores'
  BY ThreadKeepsStores, HandlerKeepsStores, SweepKeepsStores, OthersKeepStores
<1> QED BY <1>1, StoresInit, TypeCorrect, Phases, PTL DEF Spec, Phased

(***************************************************************************)
(* No key and no output buffer outlives its record, except while the sweep *)
(* that removed the record is about to drop them.                          *)
(***************************************************************************)
THEOREM StoresStayTogether == Spec => []StoresAgree
BY StoresInvariant, PTL DEF Stores

(***************************************************************************)
(* From the start of its thread to the removal of its record an execution  *)
(* has its key, so that the client that started it can poll it.            *)
(***************************************************************************)
THEOREM KeysAreThere == Spec => []KeyBeforeThread
BY StoresInvariant, PTL DEF Stores

-----------------------------------------------------------------------------
(***************************************************************************)
(* What an execution has on the host.  Where its thread stands decides     *)
(* whether it holds a container and a clone.                               *)
(***************************************************************************)
WithContainer == {"start", "streams", "wait", "stop", "join", "complete", "finish",
                  "exception", "recordFailure", "untrack", "remove"}

WithClone == WithContainer \cup {"lookup", "buffer", "markRunning", "create"}

OnHost(e) ==
  /\ e \in held => pc[e] \in WithContainer
  /\ pc[e] = "start" => e \in held
  /\ pc[e] \in WithClone => e \in cloneDir

HandlerOnHost ==
  /\ loop \in Handling \ {"respond"} => request \in cloneDir
  /\ loop = "respond" => pc[request] # "idle"

HostInv == HandlerOnHost /\ \A e \in Execution : OnHost(e)

\* The host obeys: no creation is half done and no removal fails.
Obliging ==
  Faults \cap {"container_create", "remove", "remove_transport", "rmtree"} = {}

\* The host disobeys for e: in this step a creation is half done or a removal
\* fails.
Disobeys(e) ==
  \/ CreateContainerFails(e) /\ container'[e].state # "absent"
  \/ RemoveContainerFails(e)
  \/ Restart /\ container'[e].state # "absent"
  \/ /\ \/ RemoveCloneDir(e)
        \/ /\ request = e
           /\ RejectScript \/ RejectAtCapacity \/ AttestationFails \/ HandOffFails
     /\ e \in cloneDir'

Tidy(e) ==
  /\ pc[e] = "done" => e \notin cloneDir
  /\ up /\ container[e].state # "absent" => e \in held

\* A host that obeys does so for every execution.
LEMMA ObligingObeys ==
  ASSUME Obliging, TypeOK, NEW e \in Execution, Next
  PROVE  ~Disobeys(e)
<1>1. /\ ~Fault("container_create") /\ ~Fault("remove")
      /\ ~Fault("remove_transport") /\ ~Fault("rmtree")
  BY DEF Obliging, Fault
<1>2. ~CreateContainerFails(e) /\ ~RemoveContainerFails(e)
  BY <1>1 DEF CreateContainerFails, RemoveContainerFails
<1>3. Restart => container'[e].state = "absent"
  BY <1>1 DEF Restart, NoContainer
<1>4. RemoveCloneDir(e) => e \notin cloneDir'
  BY <1>1 DEF RemoveCloneDir
<1>5. request = e /\ (RejectScript \/ RejectAtCapacity \/ AttestationFails \/ HandOffFails)
        => e \notin cloneDir'
  BY <1>1 DEF RejectScript, RejectAtCapacity, AttestationFails, HandOffFails, Abandon
<1> QED BY <1>2, <1>3, <1>4, <1>5 DEF Disobeys

(***************************************************************************)
(* A step of thread e concerns what e has on the host and nothing else.    *)
(***************************************************************************)
LEMMA ThreadLeavesHost ==
  ASSUME TypeOK, NEW e \in Execution, ThreadStep(e)
  PROVE  \A x \in Execution \ {e} :
           /\ pc'[x] = pc[x] /\ container'[x] = container[x]
           /\ x \in held' <=> x \in held
           /\ x \in cloneDir' <=> x \in cloneDir
<1>1. pc \in [Execution -> ThreadPC] /\ container \in [Execution -> Container]
  BY DEF TypeOK, ExecutorTypeOK
<1>2. \E to : pc' = [pc EXCEPT ![e] = to]
  BY DEF ThreadStep, Goto, LookUpRecord, CreateOutputBuffer, MarkRunning, CreateContainer,
         CreateContainerFails, StartContainer, StartContainerFails, StartStreams,
         StartStreamsFails, WaitReturns, WaitRaises, StopContainer, StopFails, JoinStreams,
         MarkComplete, RecordVerdict, HandleException, RecordFailure, Untrack,
         RemoveContainer, RemoveContainerFails, RemoveCloneDir
<1>3. \/ UNCHANGED <<held, cloneDir, container>>
      \/ CreateContainer(e) \/ CreateContainerFails(e) \/ StartContainer(e)
      \/ StartContainerFails(e) \/ StopContainer(e) \/ StopFails(e) \/ RemoveContainer(e)
      \/ RemoveContainerFails(e) \/ RemoveCloneDir(e)
  BY DEF ThreadStep, LookUpRecord, CreateOutputBuffer, MarkRunning,
         StartStreams, StartStreamsFails, WaitReturns, WaitRaises, JoinStreams,
         MarkComplete, RecordVerdict, HandleException, RecordFailure, Untrack, hostVars
<1>4. \A x \in Execution \ {e} : pc'[x] = pc[x]
  BY <1>1, <1>2
<1>5. CASE CreateContainer(e) \/ StartContainer(e)
  BY <1>1, <1>4, <1>5 DEF CreateContainer, StartContainer
<1>6. CASE CreateContainerFails(e) \/ StartContainerFails(e)
  BY <1>1, <1>4, <1>6 DEF CreateContainerFails, StartContainerFails
<1>7. CASE StopContainer(e) \/ StopFails(e)
  BY <1>1, <1>4, <1>7 DEF StopContainer, StopFails, Stopped
<1>8. CASE RemoveContainer(e) \/ RemoveContainerFails(e)
  BY <1>1, <1>4, <1>8 DEF RemoveContainer, RemoveContainerFails
<1>9. CASE RemoveCloneDir(e)
  BY <1>1, <1>4, <1>9 DEF RemoveCloneDir
<1> QED BY <1>3, <1>4, <1>5, <1>6, <1>7, <1>8, <1>9

(***************************************************************************)
(* It keeps what its position says it has, and where the host obeys it     *)
(* leaves nothing behind that it does not hold.                            *)
(***************************************************************************)
LEMMA ThreadKeepsHost ==
  ASSUME TypeOK, NEW e \in Execution, ThreadStep(e), OnHost(e), up' = up
  PROVE  /\ OnHost(e)'
         /\ Tidy(e) /\ ~Disobeys(e) => Tidy(e)'
<1> USE DEF Goto, OnHost, Tidy, WithContainer, WithClone
<1>1. /\ pc \in [Execution -> ThreadPC] /\ container \in [Execution -> Container]
      /\ cloneDir \subseteq Execution
  BY DEF TypeOK, ExecutorTypeOK
<1>2. CASE LookUpRecord(e) \/ CreateOutputBuffer(e) \/ MarkRunning(e)
  BY <1>1, <1>2 DEF LookUpRecord, CreateOutputBuffer, MarkRunning, hostVars
<1>3. CASE CreateContainer(e)
  BY <1>1, <1>3 DEF CreateContainer
<1>4. CASE CreateContainerFails(e)
  <2>1. container'[e].state # "absent" => Disobeys(e)
    BY <1>4 DEF Disobeys
  <2> QED BY <1>1, <1>4, <2>1 DEF CreateContainerFails
<1>5. CASE StartContainer(e) \/ StartContainerFails(e)
  BY <1>1, <1>5 DEF StartContainer, StartContainerFails
<1>6. CASE StartStreams(e) \/ StartStreamsFails(e)
  BY <1>1, <1>6 DEF StartStreams, StartStreamsFails, hostVars
<1>7. CASE WaitReturns(e) \/ WaitRaises(e) \/ JoinStreams(e)
  BY <1>1, <1>7 DEF WaitReturns, WaitRaises, JoinStreams, hostVars
<1>8. CASE StopContainer(e) \/ StopFails(e)
  <2>1. container'[e].state = "absent" <=> container[e].state = "absent"
    BY <1>1, <1>8 DEF StopContainer, StopFails, Stopped, Container
  <2> QED BY <1>1, <1>8, <2>1 DEF StopContainer, StopFails
<1>9. CASE MarkComplete(e) \/ RecordVerdict(e) \/ HandleException(e) \/ RecordFailure(e)
  BY <1>1, <1>9 DEF MarkComplete, RecordVerdict, HandleException, RecordFailure, hostVars
<1>10. CASE Untrack(e)
  BY <1>1, <1>10 DEF Untrack, hostVars
<1>11. CASE RemoveContainer(e)
  BY <1>1, <1>11 DEF RemoveContainer, NoContainer
<1>12. CASE RemoveContainerFails(e)
  <2>1. Disobeys(e)
    BY <1>12 DEF Disobeys
  <2> QED BY <1>1, <1>12, <2>1 DEF RemoveContainerFails
<1>13. CASE RemoveCloneDir(e)
  <2>1. e \in cloneDir' => Disobeys(e)
    BY <1>13 DEF Disobeys
  <2> QED BY <1>1, <1>13, <2>1 DEF RemoveCloneDir
<1> QED
  BY <1>2, <1>3, <1>4, <1>5, <1>6, <1>7, <1>8, <1>9, <1>10, <1>11, <1>12, <1>13 DEF ThreadStep

\* The handler clones before it hands over, and removes only what is its own.
LEMMA HandlerKeepsHost ==
  ASSUME Phased, HostInv, Execute
  PROVE  /\ HostInv'
         /\ \A e \in Execution : Tidy(e) => Tidy(e)'
<1>1. /\ pc \in [Execution -> ThreadPC] /\ held \subseteq Execution /\ loop \in LoopState
      /\ loop \in Handling => request \in Execution
      /\ loop \in Handling \ {"respond"} => pc[request] = "idle"
  BY DEF Phased, TypeOK, ExecutorTypeOK, LoopTypeOK, HandlerPhase
<1>2. UNCHANGED <<up, held, container>>
  BY DEF Execute, CloneRepository, AcceptScript, RejectScript, AdmitExecution,
         RejectAtCapacity, AttestExecution, AttestationFails, StoreContext, HandOff,
         HandOffFails, Respond, Advance, Abandon, executorVars, threadVars, hostVars
<1>3. CASE \E e \in Execution : CloneRepository(e)
  <2>1. PICK e \in Execution : CloneRepository(e)
    BY <1>3
  <2>2. /\ pc' = pc /\ cloneDir' = cloneDir \cup {e} /\ loop' = "check" /\ request' = e
        /\ pc[e] = "idle"
    BY <2>1 DEF CloneRepository, threadVars, Phased, ThreadPhase, Fits, InBody, Terminal,
                TypeOK, ExecutorTypeOK, ThreadPC
  <2> QED BY <1>2, <2>2 DEF HostInv, HandlerOnHost, OnHost, Tidy
<1>4. CASE AcceptScript \/ AdmitExecution \/ AttestExecution \/ StoreContext
  <2>1. /\ UNCHANGED <<pc, cloneDir, request>>
        /\ loop \in Handling \ {"respond"} /\ loop' \in Handling \ {"respond"}
    BY <1>4 DEF AcceptScript, AdmitExecution, AttestExecution, StoreContext, Advance,
                executorVars, threadVars, hostVars, Handling
  <2> QED BY <1>2, <2>1 DEF HostInv, HandlerOnHost, OnHost, Tidy
<1>5. CASE RejectScript \/ RejectAtCapacity \/ AttestationFails \/ HandOffFails
  <2>1. /\ pc' = pc /\ loop \in Handling \ {"respond"} /\ loop' = "idle"
        /\ cloneDir' = cloneDir \/ cloneDir' = cloneDir \ {request}
    BY <1>5 DEF RejectScript, RejectAtCapacity, AttestationFails, HandOffFails, Abandon,
                threadVars, Handling
  <2>2. HostInv'
    BY <1>1, <1>2, <2>1 DEF HostInv, HandlerOnHost, OnHost, WithClone, WithContainer, Handling
  <2> QED BY <1>2, <2>1, <2>2 DEF Tidy
<1>6. CASE HandOff
  <2>1. /\ pc' = [pc EXCEPT ![request] = "lookup"] /\ cloneDir' = cloneDir
        /\ loop = "spawn" /\ loop' = "respond" /\ request' = request
    BY <1>6 DEF HandOff, Advance, hostVars
  <2>2. request \in Execution /\ pc[request] = "idle" /\ request \in cloneDir
    BY <1>1, <2>1 DEF Handling, HostInv, HandlerOnHost
  <2>3. HandlerOnHost'
    BY <1>1, <2>1, <2>2 DEF HandlerOnHost, Handling
  <2>4. \A e \in Execution : OnHost(e)'
    BY <1>1, <1>2, <2>1, <2>2 DEF HostInv, OnHost, WithContainer
  <2>5. \A e \in Execution : Tidy(e) => Tidy(e)'
    BY <1>1, <1>2, <2>1, <2>2 DEF Tidy
  <2> QED BY <2>3, <2>4, <2>5 DEF HostInv
<1>7. CASE Respond
  <2>1. UNCHANGED <<pc, cloneDir>> /\ loop' = "idle"
    BY <1>7 DEF Respond, executorVars, threadVars, hostVars
  <2> QED BY <1>2, <2>1 DEF HostInv, HandlerOnHost, OnHost, Tidy, Handling
<1> QED BY <1>3, <1>4, <1>5, <1>6, <1>7 DEF Execute

\* Nothing else adds to what is on the host but the script's own container.
LEMMA OthersKeepHost ==
  ASSUME Phased, HostInv, [Next]_vars, ~Execute, \A e \in Execution : ~Executor(e)
  PROVE  /\ HostInv'
         /\ \A e \in Execution : Tidy(e) /\ ~Disobeys(e) => Tidy(e)'
<1>1. container \in [Execution -> Container] /\ pc \in [Execution -> ThreadPC]
  BY DEF Phased, TypeOK, ExecutorTypeOK
<1>2. CASE /\ UNCHANGED <<pc, held, cloneDir, up>>
           /\ \A e \in Execution : container'[e].state # "absent" => container[e].state # "absent"
           /\ \/ UNCHANGED <<loop, request>>
              \/ loop' \notin Handling
  BY <1>2 DEF HostInv, HandlerOnHost, OnHost, Tidy, Handling
<1>3. CASE Cleanup \/ \E p \in Poller : Polling(p)
  <2>1. /\ UNCHANGED <<pc, held, cloneDir, container, up>>
        /\ \/ UNCHANGED <<loop, request>>
           \/ loop' \notin Handling
    BY <1>3, PollingFrame
      DEF Cleanup, SweepRecords, DropContexts, DropBuffers, Advance, executorVars,
          threadVars, hostVars, Handling
  <2> QED BY <1>2, <2>1
<1>4. CASE \/ UNCHANGED vars \/ \E e \in Execution : Age(e)
           \/ \E e \in Execution : \E s \in Stream : Streams(e, s)
  <2>1. UNCHANGED <<pc, held, cloneDir, container, up, loop, request>>
    BY <1>4 DEF vars, executorVars, threadVars, hostVars, loopVars, Age, Streams, StreamStep,
                StreamChunk, StreamEnds
  <2> QED BY <1>2, <2>1
<1>5. CASE \E e \in Execution : Script(e)
  <2>1. UNCHANGED <<pc, held, cloneDir, up, loop, request>>
    BY <1>5 DEF Script, ScriptStep, ScriptExits, ScriptWrites, threadVars, loopVars
  <2>2. \A e \in Execution : container'[e].state # "absent" => container[e].state # "absent"
    BY <1>1, <1>5 DEF Script, ScriptStep, ScriptExits, ScriptWrites, Container
  <2> QED BY <1>2, <2>1, <2>2
<1>6. CASE Crash
  BY <1>6 DEF Crash, HostInv, HandlerOnHost, OnHost, Tidy, Handling, WithClone, WithContainer
<1>7. CASE Restart
  <2>1. UNCHANGED <<pc, held, cloneDir, loop, request>>
    BY <1>7 DEF Restart, threadVars
  <2>2. \A e \in Execution : ~Disobeys(e) => container'[e].state = "absent"
    BY <1>7 DEF Disobeys
  <2> QED BY <2>1, <2>2 DEF HostInv, HandlerOnHost, OnHost, Tidy
<1> QED BY <1>3, <1>4, <1>5, <1>6, <1>7 DEF Next

\* So every step keeps both.
LEMMA HostStep ==
  ASSUME Phased, HostInv, [Next]_vars
  PROVE  /\ HostInv'
         /\ \A e \in Execution : Tidy(e) /\ ~Disobeys(e) => Tidy(e)'
<1>1. ASSUME NEW e \in Execution, Executor(e)
      PROVE  /\ HostInv'
             /\ \A x \in Execution : Tidy(x) /\ ~Disobeys(x) => Tidy(x)'
  <2>1. ThreadStep(e) /\ UNCHANGED <<up, loop, request>>
    BY <1>1 DEF Executor, loopVars
  <2>2. pc[e] # "idle" /\ pc'[e] # "idle"
    <3>1. PICK to \in ThreadPC, s \in Status : pc[e] # "idle" /\ Moves(e, to, s)
      BY <2>1, ThreadEffect DEF Phased
    <3> QED BY <3>1 DEF Moves, Phased, TypeOK, ExecutorTypeOK
  <2>3. \A x \in Execution \ {e} :
          /\ pc'[x] = pc[x] /\ container'[x] = container[x]
          /\ x \in held' <=> x \in held
          /\ x \in cloneDir' <=> x \in cloneDir
    BY <2>1, ThreadLeavesHost DEF Phased
  <2>4. OnHost(e)' /\ (Tidy(e) /\ ~Disobeys(e) => Tidy(e)')
    BY <2>1, ThreadKeepsHost DEF Phased, HostInv
  <2>5. \A x \in Execution : OnHost(x)'
    BY <2>3, <2>4 DEF HostInv, OnHost
  <2>6. HandlerOnHost'
    <3>1. loop \in Handling \ {"respond"} => request \in Execution \ {e}
      BY <2>2 DEF Phased, HandlerPhase, TypeOK, LoopTypeOK
    <3>2. loop = "respond" => request \in Execution
      BY DEF Phased, TypeOK, LoopTypeOK, Handling
    <3> QED BY <2>1, <2>2, <2>3, <3>1, <3>2 DEF HostInv, HandlerOnHost
  <2>7. \A x \in Execution : Tidy(x) /\ ~Disobeys(x) => Tidy(x)'
    BY <2>1, <2>3, <2>4 DEF Tidy
  <2> QED BY <2>5, <2>6, <2>7 DEF HostInv
<1> QED BY <1>1, HandlerKeepsHost, OthersKeepHost

LEMMA HostAtFirst == Init => HostInv /\ \A e \in Execution : Tidy(e)
BY DEF Init, ThreadInit, HostInit, HostInv, HandlerOnHost, OnHost, Tidy, WithClone,
       WithContainer, Handling, NoContainer

LEMMA HostInvariant == Spec => []HostInv
<1>1. Phased /\ HostInv /\ [Next]_vars => HostInv'
  BY HostStep
<1>2. Init => HostInv
  BY HostAtFirst
<1> QED BY <1>1, <1>2, TypeCorrect, Phases, PTL DEF Spec, Phased

(***************************************************************************)
(* A container that may run still has its workspace, whatever fails and    *)
(* whenever the process ends: the clone goes after the container.          *)
(***************************************************************************)
THEOREM WorkspaceIsKept == Spec => []WorkspaceInUse
<1>1. TypeOK /\ HostInv => WorkspaceInUse
  BY DEF HostInv, OnHost, WithClone, WorkspaceInUse, TypeOK, ExecutorTypeOK
<1> QED BY <1>1, HostInvariant, TypeCorrect, PTL

\* On a host that obeys nothing is there without its thread.
LEMMA TidyInvariant ==
  ASSUME Obliging
  PROVE  Spec => [](\A e \in Execution : Tidy(e))
<1>1. Phased /\ HostInv /\ (\A e \in Execution : Tidy(e)) /\ [Next]_vars
        => (\A e \in Execution : Tidy(e))'
  <2> SUFFICES ASSUME Phased, HostInv, [Next]_vars, NEW e \in Execution, Tidy(e)
               PROVE  Tidy(e)'
    OBVIOUS
  <2>1. CASE Next
    BY <2>1, HostStep, ObligingObeys DEF Phased
  <2>2. CASE UNCHANGED vars
    BY <2>2 DEF vars, executorVars, threadVars, hostVars, loopVars, Tidy
  <2> QED BY <2>1, <2>2
<1>2. Init => \A e \in Execution : Tidy(e)
  BY HostAtFirst
<1> QED BY <1>1, <1>2, HostInvariant, TypeCorrect, Phases, PTL DEF Spec, Phased

(***************************************************************************)
(* While the service is up every container on the host belongs to a thread *)
(* that will remove it, where creations are whole and removals succeed:    *)
(* not even a crash leaves one that the next start does not remove.        *)
(***************************************************************************)
THEOREM ContainersAreSupervised ==
  ASSUME Obliging
  PROVE  Spec => []Supervised
<1>1. (\A e \in Execution : Tidy(e)) => Supervised
  BY DEF Tidy, Supervised
<1> QED BY <1>1, TidyInvariant, PTL

(***************************************************************************)
(* One execution at a time: an execution the host never disobeys for stays *)
(* tidy, whatever it does to the others.                                   *)
(***************************************************************************)
LEMMA TidyAlone ==
  ASSUME NEW e \in Execution
  PROVE  Spec /\ [][~Disobeys(e)]_vars => []Tidy(e)
<1>1. Phased /\ HostInv /\ Tidy(e) /\ [Next]_vars /\ [~Disobeys(e)]_vars => Tidy(e)'
  <2> SUFFICES ASSUME Phased, HostInv, Tidy(e), [Next]_vars, [~Disobeys(e)]_vars
               PROVE  Tidy(e)'
    OBVIOUS
  <2>1. CASE ~Disobeys(e)
    BY <2>1, HostStep
  <2>2. CASE UNCHANGED vars
    BY <2>2 DEF vars, executorVars, threadVars, hostVars, loopVars, Tidy
  <2> QED BY <2>1, <2>2
<1>2. Init => Tidy(e)
  BY HostAtFirst
<1> QED BY <1>1, <1>2, HostInvariant, TypeCorrect, Phases, PTL DEF Spec, Phased

(***************************************************************************)
(* The container of an execution is supervised as long as the host obeys   *)
(* for that execution: a failed removal of one container makes no other    *)
(* one an orphan, neither in the threads nor at the start of the process.  *)
(***************************************************************************)
THEOREM ContainerIsSupervised ==
  ASSUME NEW e \in Execution
  PROVE  Spec /\ [][~Disobeys(e)]_vars
           => [](up /\ container[e].state # "absent" => e \in held)
<1>1. Tidy(e) => (up /\ container[e].state # "absent" => e \in held)
  BY DEF Tidy
<1> QED BY <1>1, TidyAlone, PTL

\* A thread does not return to its start, and a handler that gives up on an
\* execution before it has a thread removes its clone.
LEMMA EndsTidily ==
  ASSUME Phased, HostInv, [Next]_vars, NEW e \in Execution, ~Disobeys(e),
         up, up', ~Over(e), Over(e)', pc'[e] = "idle"
  PROVE  e \notin cloneDir'
<1>1. pc \in [Execution -> ThreadPC] /\ ~Crash
  BY DEF Phased, TypeOK, ExecutorTypeOK, Crash
<1>2. ASSUME NEW x \in Execution, Executor(x) PROVE pc[e] = "idle" /\ request' = request
  <2>1. PICK to \in ThreadPC, s \in Status : pc[x] # "idle" /\ Moves(x, to, s)
    BY <1>2, ThreadEffect DEF Phased, Executor
  <2> QED BY <1>1, <1>2, <2>1 DEF Moves, Executor, loopVars
<1>3. pc[e] = "idle"
  <2>1. CASE \E x \in Execution : Executor(x)
    BY <1>2, <2>1
  <2>2. CASE HandOff
    BY <1>1, <2>2 DEF HandOff, Phased, TypeOK, LoopTypeOK
  <2>3. CASE pc' = pc
    BY <2>3
  <2> QED BY <1>1, <2>1, <2>2, <2>3, PollingFrame
            DEF Next, vars, executorVars, threadVars, Execute, CloneRepository,
                AcceptScript, RejectScript, AdmitExecution, RejectAtCapacity,
                AttestExecution, AttestationFails, StoreContext, HandOffFails, Respond,
                Advance, Abandon, Cleanup, SweepRecords, DropContexts, DropBuffers,
                Streams, StreamStep, StreamChunk, StreamEnds, Script, ScriptStep,
                ScriptExits, ScriptWrites, Age, Restart
<1>4. request = e /\ request' # e
  BY <1>3 DEF Over
<1>5. loop # "respond"
  BY <1>3, <1>4 DEF HostInv, HandlerOnHost
<1>6. RejectScript \/ RejectAtCapacity \/ AttestationFails \/ HandOffFails
  <2>1. request # NoExecution
    BY <1>4, ServiceAssumption
  <2>2. loop \in Handling
    BY <2>1 DEF Phased, TypeOK, LoopTypeOK
  <2> QED BY <1>1, <1>2, <1>4, <1>5, <2>2, PollingFrame
            DEF Next, vars, loopVars, Execute, CloneRepository, AcceptScript,
                AdmitExecution, AttestExecution, StoreContext, HandOff, Respond, Advance,
                Cleanup, SweepRecords, DropContexts, DropBuffers, Streams, Script, Age,
                Restart, Handling
<1> QED BY <1>4, <1>6 DEF Disobeys

\* The step that ends the work for e.
WorkEnds(e) == up /\ up' /\ ~Over(e) /\ Over(e)'

\* It leaves nothing of an execution the host obeys for.
LEMMA EndsWithNothing ==
  ASSUME Phased, HostInv, HostInv', [Next]_vars, NEW e \in Execution, Tidy(e)', ~Disobeys(e),
         WorkEnds(e)
  PROVE  e \notin cloneDir' /\ container'[e].state = "absent"
<1>1. pc'[e] \in {"idle", "done"}
  BY DEF WorkEnds, Over
<1>2. OnHost(e)'
  BY DEF HostInv
<1>3. e \notin held'
  BY <1>1, <1>2 DEF OnHost, WithContainer
<1>4. container'[e].state = "absent"
  BY <1>3 DEF Tidy, WorkEnds
<1>5. CASE pc'[e] = "done"
  BY <1>4, <1>5 DEF Tidy
<1>6. CASE pc'[e] = "idle"
  BY <1>4, <1>6, EndsTidily DEF WorkEnds
<1> QED BY <1>1, <1>5, <1>6

(***************************************************************************)
(* The step that ends the work for an execution leaves neither a container *)
(* nor a clone, where creations are whole and removals succeed.            *)
(***************************************************************************)
THEOREM NothingIsLeaked ==
  ASSUME Obliging
  PROVE  Spec => NothingLeaked
<1> DEFINE Inv == Phased /\ HostInv /\ \A e \in Execution : Tidy(e)
           Leaves(e) == up /\ up' /\ ~Over(e) /\ Over(e)' =>
                          e \notin cloneDir' /\ container'[e].state = "absent"
<1>1. ASSUME Inv, Inv', Next PROVE \A e \in Execution : Leaves(e)
  BY <1>1, EndsWithNothing, ObligingObeys DEF WorkEnds, Phased
<1>2. Inv /\ Inv' /\ [Next]_vars => [\A e \in Execution : Leaves(e)]_vars
  BY <1>1
<1>3. Spec => []Inv
  BY HostInvariant, TidyInvariant, TypeCorrect, Phases, PTL DEF Phased
<1> QED BY <1>2, <1>3, PTL DEF Spec, NothingLeaked

(***************************************************************************)
(* The same of one execution the host never disobeys for: what fails for   *)
(* the others leaves nothing of this one behind.                           *)
(***************************************************************************)
THEOREM NothingOfOneIsLeaked ==
  ASSUME NEW e \in Execution
  PROVE  Spec /\ [][~Disobeys(e)]_vars
           => [][WorkEnds(e) => e \notin cloneDir' /\ container'[e].state = "absent"]_vars
<1> DEFINE Inv == Phased /\ HostInv /\ Tidy(e)
<1>1. Inv /\ Inv' /\ [Next]_vars /\ [~Disobeys(e)]_vars
        => [WorkEnds(e) => e \notin cloneDir' /\ container'[e].state = "absent"]_vars
  BY EndsWithNothing
<1>2. Spec /\ [][~Disobeys(e)]_vars => []Inv
  BY HostInvariant, TidyAlone, TypeCorrect, Phases, PTL DEF Phased
<1> QED BY <1>1, <1>2, PTL DEF Spec
-----------------------------------------------------------------------------
(***************************************************************************)
(* What the documentation promises and the code does not always keep: each *)
(* promise holds of every behaviour without the steps named here, so these *)
(* are all the ways in which it is broken.                                 *)
(*                                                                         *)
(* A container runs on although its thread has gone past it: its start was *)
(* answered by an error, its stop or the start of its streams failed, or   *)
(* the start of the process left it.                                       *)
(***************************************************************************)
Escapes(e) ==
  /\ container'[e].state = "running"
  /\ StartContainerFails(e) \/ StartStreamsFails(e) \/ StopFails(e) \/ Restart

\* A running container is one whose thread is between its start and its end.
Watched(e) ==
  up /\ container[e].state = "running" => pc[e] \in {"streams", "wait", "stop"}

LEMMA ThreadKeepsWatch ==
  ASSUME TypeOK, NEW e \in Execution, ThreadStep(e), up, up' = up, Watched(e), ~Escapes(e)
  PROVE  Watched(e)'
<1> USE DEF Goto, Watched
<1>1. pc \in [Execution -> ThreadPC] /\ container \in [Execution -> Container]
  BY DEF TypeOK, ExecutorTypeOK
<1>2. CASE CreateContainer(e) \/ CreateContainerFails(e)
  <2>1. pc[e] = "create" /\ container[e].state # "running"
    BY <1>2 DEF CreateContainer, CreateContainerFails
  <2>2. container'[e].state # "running"
    BY <1>1, <1>2, <2>1 DEF CreateContainer, CreateContainerFails, Container
  <2> QED BY <2>2
<1>3. CASE StartContainer(e)
  BY <1>1, <1>3 DEF StartContainer
<1>4. CASE StopContainer(e)
  <2>1. container'[e].state # "running"
    BY <1>1, <1>4 DEF StopContainer, Stopped, Container
  <2> QED BY <2>1
<1>5. CASE RemoveContainer(e) \/ RemoveContainerFails(e)
  <2>1. pc[e] = "remove" /\ container[e].state # "running"
    BY <1>5 DEF RemoveContainer, RemoveContainerFails
  <2>2. container'[e] \in {container[e], NoContainer}
    BY <1>1, <1>5 DEF RemoveContainer, RemoveContainerFails
  <2> QED BY <2>1, <2>2 DEF NoContainer
<1>6. CASE StartContainerFails(e) \/ StartStreamsFails(e) \/ StopFails(e)
  BY <1>6 DEF Escapes
<1>7. CASE StartStreams(e) \/ WaitRaises(e)
  BY <1>1, <1>7 DEF StartStreams, WaitRaises, hostVars
<1>8. CASE WaitReturns(e)
  BY <1>1, <1>8 DEF WaitReturns, hostVars
<1>9. CASE \/ LookUpRecord(e) \/ CreateOutputBuffer(e) \/ MarkRunning(e)
           \/ JoinStreams(e) \/ MarkComplete(e) \/ RecordVerdict(e)
           \/ HandleException(e) \/ RecordFailure(e) \/ Untrack(e) \/ RemoveCloneDir(e)
  <2>1. container' = container
    BY <1>9 DEF LookUpRecord, CreateOutputBuffer, MarkRunning,
                JoinStreams, MarkComplete, RecordVerdict, HandleException, RecordFailure,
                Untrack, RemoveCloneDir, hostVars
  <2>2. pc[e] \notin {"streams", "wait", "stop"}
    BY <1>9 DEF LookUpRecord, CreateOutputBuffer, MarkRunning,
                JoinStreams, MarkComplete, RecordVerdict, HandleException, RecordFailure,
                Untrack, RemoveCloneDir
  <2> QED BY <2>1, <2>2
<1> QED BY <1>2, <1>3, <1>4, <1>5, <1>6, <1>7, <1>8, <1>9 DEF ThreadStep

\* A script ends its container or leaves it running; it starts none.
LEMMA ScriptStartsNothing ==
  ASSUME TypeOK, NEW x \in Execution, ScriptStep(x), NEW e \in Execution
  PROVE  container'[e].state = "running" => container[e].state = "running"
<1>1. container \in [Execution -> Container]
  BY DEF TypeOK, ExecutorTypeOK
<1> QED BY <1>1 DEF ScriptStep, ScriptExits, ScriptWrites, Container

\* The service, down or up, starts no container but by a step of its thread.
LEMMA OnlyThreadsStart ==
  ASSUME Phased, [Next]_vars, NEW e \in Execution, ~Executor(e),
         container'[e].state = "running"
  PROVE  container[e].state = "running"
<1>1. CASE UNCHANGED container
  BY <1>1
<1>2. CASE \E x \in Execution : Executor(x)
  <2>1. PICK x \in Execution : Executor(x)
    BY <1>2
  <2>2. x # e
    BY <2>1
  <2>3. container'[e] = container[e]
    BY <2>1, <2>2, ThreadLeavesHost DEF Executor, Phased
  <2> QED BY <2>3
<1>3. CASE \E x \in Execution : Script(x)
  BY <1>3, ScriptStartsNothing DEF Script, Phased
<1>4. CASE Restart
  BY <1>4 DEF Restart, NoContainer
<1>5. CASE \E p \in Poller : Polling(p)
  BY <1>1, <1>5, PollingFrame DEF executorVars, hostVars
<1> QED
  BY <1>1, <1>2, <1>3, <1>4, <1>5
  DEF Next, vars, executorVars, hostVars, Execute, CloneRepository, AcceptScript,
      RejectScript, AdmitExecution, RejectAtCapacity, AttestExecution, AttestationFails,
      StoreContext, HandOff, HandOffFails, Respond, Advance, Abandon, Cleanup,
      SweepRecords, DropContexts, DropBuffers, Age, Streams, StreamStep, StreamChunk,
      StreamEnds, Crash

\* Threads move at their own steps, but for their start and the end of the process.
LEMMA OnlyThreadsMove ==
  ASSUME Phased, [Next]_vars, NEW e \in Execution, ~Executor(e)
  PROVE  pc'[e] = pc[e] \/ Crash \/ (HandOff /\ pc[e] = "idle")
<1>1. pc \in [Execution -> ThreadPC]
  BY DEF Phased, TypeOK, ExecutorTypeOK
<1>2. CASE UNCHANGED pc
  BY <1>2
<1>3. CASE \E x \in Execution : Executor(x)
  <2>1. PICK x \in Execution : Executor(x)
    BY <1>3
  <2> QED BY <2>1, ThreadLeavesHost DEF Executor, Phased
<1>4. CASE HandOff
  <2>1. /\ pc' = [pc EXCEPT ![request] = "lookup"] /\ loop = "spawn"
    BY <1>4 DEF HandOff, Advance
  <2>2. pc[request] = "idle"
    BY <2>1 DEF Phased, HandlerPhase, Handling
  <2> QED BY <1>1, <1>4, <2>1, <2>2
<1>5. CASE \E p \in Poller : Polling(p)
  BY <1>2, <1>5, PollingFrame DEF executorVars, threadVars
<1> QED
  BY <1>2, <1>3, <1>4, <1>5
  DEF Next, vars, executorVars, threadVars, Execute, CloneRepository, AcceptScript,
      RejectScript, AdmitExecution, RejectAtCapacity, AttestExecution, AttestationFails,
      StoreContext, HandOffFails, Respond, Advance, Abandon, Cleanup, SweepRecords,
      DropContexts, DropBuffers, Age, Streams, StreamStep, StreamChunk, StreamEnds,
      Script, ScriptStep, ScriptExits, ScriptWrites, Restart

\* The process ends and starts at its own steps.
LEMMA UpAndDown ==
  ASSUME [Next]_vars
  PROVE  up' = up \/ (Crash /\ up /\ ~up') \/ (Restart /\ ~up /\ up')
<1>1. CASE Crash \/ Restart
  BY <1>1 DEF Crash, Restart
<1>2. CASE \E p \in Poller : Polling(p)
  BY <1>2, PollingFrame
<1>3. CASE Execute
  BY <1>3 DEF Execute, CloneRepository, AcceptScript, RejectScript, AdmitExecution,
              RejectAtCapacity, AttestExecution, AttestationFails, StoreContext, HandOff,
              HandOffFails, Respond, Advance, Abandon
<1>4. CASE Cleanup
  BY <1>4 DEF Cleanup, SweepRecords, DropContexts, DropBuffers, Advance
<1> QED
  BY <1>1, <1>2, <1>3, <1>4 DEF Next, vars, loopVars, Age, Executor, Streams, Script

\* A process that ended runs neither a thread nor a handler.
Still == ~up => loop \notin Handling /\ \A e \in Execution : pc[e] = "idle"

LEMMA StillStep == Phased /\ Still /\ [Next]_vars => Still'
<1> SUFFICES ASSUME Phased, Still, [Next]_vars, ~up'
             PROVE  loop' \notin Handling /\ \A e \in Execution : pc'[e] = "idle"
  BY DEF Still
<1>1. CASE Crash
  BY <1>1 DEF Crash, Handling
<1>2. CASE ~Crash
  <2>1. ~up /\ loop \notin Handling /\ \A e \in Execution : pc[e] = "idle"
    BY <1>2, UpAndDown DEF Still
  <2>2. \A e \in Execution : ~Executor(e)
    BY <2>1, ThreadEffect DEF Executor, Phased
  <2>3. ~HandOff
    BY <2>1 DEF HandOff, Advance, Handling
  <2>4. \A e \in Execution : pc'[e] = "idle"
    BY <1>2, <2>1, <2>2, <2>3, OnlyThreadsMove
  <2>5. loop' \notin Handling
    <3>1. CASE \E p \in Poller : Polling(p)
      BY <3>1, PollingFrame DEF Handling
    <3> QED
      BY <1>2, <2>1, <2>2, <3>1
      DEF Next, vars, loopVars, Execute, CloneRepository, AcceptScript, RejectScript,
          AdmitExecution, RejectAtCapacity, AttestExecution, AttestationFails,
          StoreContext, HandOff, HandOffFails, Respond, Advance, Abandon, Cleanup,
          SweepRecords, DropContexts, DropBuffers, Age, Streams, Script, Restart, Handling
  <2> QED BY <2>4, <2>5
<1> QED BY <1>1, <1>2

\* Only a step that lets it escape leaves a running container unwatched.
LEMMA WatchStep ==
  ASSUME Phased, [Next]_vars, NEW e \in Execution, Watched(e), ~Escapes(e)
  PROVE  Watched(e)'
<1> SUFFICES ASSUME up', container'[e].state = "running"
             PROVE  pc'[e] \in {"streams", "wait", "stop"}
  BY DEF Watched
<1>1. ~Crash /\ up
  BY UpAndDown DEF Escapes, Crash
<1>2. CASE Executor(e)
  BY <1>1, <1>2, ThreadKeepsWatch DEF Executor, loopVars, Watched, Phased
<1>3. CASE ~Executor(e)
  BY <1>1, <1>3, OnlyThreadsMove, OnlyThreadsStart DEF Watched
<1> QED BY <1>2, <1>3

\* The containers that run, and what is known of them.
RunningSet == {e \in Execution : container[e].state = "running"}

RunningInv ==
  /\ RunningContainersLimit
  /\ Still
  /\ \A e \in Execution : Watched(e)

LEMMA FewerRunning ==
  ASSUME NEW S \in SUBSET Execution, NEW T \in SUBSET S, Cardinality(S) <= MaxConcurrent
  PROVE  Cardinality(T) <= MaxConcurrent
<1>1. IsFiniteSet(S)
  BY FS_Subset, ExecutionsAssumption
<1> QED BY <1>1, FS_Subset, FS_CardinalityType, ManagerAssumption

(***************************************************************************)
(* As long as no container escapes from its thread, no more containers run *)
(* than max_concurrent_executions, which the document promises of all      *)
(* behaviours (openspec/specs/remote-executor/spec.md:174): the verdict    *)
(* that frees the slot comes after the end of the container.               *)
(***************************************************************************)
THEOREM RunningContainersAreLimited ==
  Spec /\ [][\A e \in Execution : ~Escapes(e)]_vars => []RunningContainersLimit
<1>1. Init => RunningInv
  <2> SUFFICES ASSUME Init PROVE RunningInv
    OBVIOUS
  <2>1. \A e \in Execution : container[e].state # "running"
    BY DEF Init, HostInit, NoContainer
  <2>2. RunningSet = {} /\ {} \in SUBSET ActiveSet /\ ActiveSet \in SUBSET Execution
    BY <2>1 DEF RunningSet, ActiveSet
  <2>3. RunningContainersLimit
    BY <2>2, FS_EmptySet, ManagerAssumption DEF RunningSet, RunningContainersLimit
  <2> QED BY <2>1, <2>3 DEF Init, RunningInv, Still, Watched
<1>2. /\ Phased /\ Phased' /\ ConcurrencyLimit' /\ RunningInv
      /\ [Next]_vars /\ [\A e \in Execution : ~Escapes(e)]_vars
      => RunningInv'
  <2> SUFFICES ASSUME Phased, Phased', ConcurrencyLimit', RunningInv, [Next]_vars,
                      [\A e \in Execution : ~Escapes(e)]_vars
               PROVE  RunningInv'
    OBVIOUS
  <2>1. CASE UNCHANGED vars
    BY <2>1 DEF vars, loopVars, executorVars, threadVars, hostVars, RunningInv,
                RunningContainersLimit, Still, Watched
  <2>2. CASE \A e \in Execution : ~Escapes(e)
    <3>1. Still'
      BY StillStep DEF RunningInv
    <3>2. \A e \in Execution : Watched(e)'
      BY <2>2, WatchStep DEF RunningInv
    <3>3. RunningContainersLimit'
      <4>1. CASE up'
        <5>1. \A e \in Execution : container'[e].state = "running" => status'[e] = "running"
          BY <3>2, <4>1 DEF Watched, Phased, ThreadPhase, Fits, InBody
        <5>2. RunningSet' \in SUBSET ActiveSet' /\ ActiveSet' \in SUBSET Execution
          BY <5>1 DEF RunningSet, ActiveSet, Active
        <5> QED BY <5>2, FewerRunning DEF RunningSet, RunningContainersLimit, ConcurrencyLimit
      <4>2. CASE ~up'
        <5>1. \A e \in Execution : ~Executor(e)
          BY <4>2, UpAndDown, ThreadEffect DEF RunningInv, Still, Executor, Crash, loopVars, Phased
        <5>2. RunningSet' \in SUBSET RunningSet /\ RunningSet \in SUBSET Execution
          BY <5>1, OnlyThreadsStart DEF RunningSet
        <5> QED BY <5>2, FewerRunning DEF RunningSet, RunningContainersLimit, RunningInv
      <4> QED BY <4>1, <4>2
    <3> QED BY <3>1, <3>2, <3>3 DEF RunningInv
  <2> QED BY <2>1, <2>2
<1>3. RunningInv => RunningContainersLimit
  BY DEF RunningInv
<1> QED BY <1>1, <1>2, <1>3, TypeCorrect, Phases, LimitHolds, PTL DEF Spec, Phased

\* A record is queued when it is admitted, and at no other step.
LEMMA QueuedBirth ==
  ASSUME Phased, [Next]_vars, NEW e \in Execution, status'[e] = "queued"
  PROVE  status[e] = "queued" \/ (AdmitExecution /\ request = e)
<1>1. status \in [Execution -> Status]
  BY DEF Phased, TypeOK, ManagerTypeOK
<1>2. CASE AdmitExecution
  BY <1>1, <1>2 DEF AdmitExecution, RegisterExecution
<1>3. CASE \E x \in Execution : Executor(x)
  <2>1. PICK x \in Execution : ThreadStep(x)
    BY <1>3 DEF Executor
  <2>2. PICK to \in ThreadPC, s \in Status : Moves(x, to, s)
    BY <2>1, ThreadEffect DEF Phased
  <2>3. s = status[x] \/ s \in {"running"} \cup Terminal
    BY <2>2 DEF Moves, Starts, Ends
  <2> QED BY <1>1, <2>2, <2>3 DEF Moves, Terminal
<1>4. CASE SweepRecords
  BY <1>4, SweepEffect
<1>5. CASE Crash
  BY <1>5 DEF Crash, ForgetRecords
<1> QED BY <1>2, <1>3, <1>4, <1>5, RegistryEffect

\* A handler with a queued record serves it until its thread is there, or gives up.
LEMMA HandlerStays ==
  ASSUME [Next]_vars, loop \in {"attest", "store", "spawn"},
         ~Crash, ~AttestationFails, ~HandOffFails
  PROVE  request' = request
<1>1. CASE Execute
  BY <1>1 DEF Execute, CloneRepository, AcceptScript, RejectScript, AdmitExecution,
              RejectAtCapacity, AttestExecution, StoreContext, HandOff, Respond, Advance,
              Abandon
<1>2. CASE \E p \in Poller : Polling(p)
  BY <1>2, PollingFrame
<1> QED
  BY <1>1, <1>2 DEF Next, vars, loopVars, Cleanup, SweepRecords, DropContexts, DropBuffers,
                    Advance, Age, Executor, Streams, Script, Restart

\* A record still queued has a handler or a thread that will take it further,
\* after every step but those that give it up.
LEMMA QueuedStep ==
  ASSUME Phased, Phased', HostInv, [Next]_vars, QueuedHasOwner,
         ~AttestationFails, ~HandOffFails
  PROVE  QueuedHasOwner'
<1> SUFFICES ASSUME NEW e \in Execution, status'[e] = "queued"
             PROVE  request' = e \/ pc'[e] \in {"lookup", "buffer", "markRunning"}
  BY DEF QueuedHasOwner
<1>1. pc'[e] \in {"idle", "lookup", "buffer", "markRunning"}
  BY DEF Phased, ThreadPhase, Fits, InBody, Terminal, TypeOK, ExecutorTypeOK, ThreadPC
<1> SUFFICES ASSUME pc'[e] = "idle" PROVE request' = e
  BY <1>1
<1>2. status[e] = "queued" \/ (AdmitExecution /\ request = e)
  BY QueuedBirth
<1>3. CASE AdmitExecution /\ request = e
  BY <1>3 DEF AdmitExecution, Advance
<1>4. CASE status[e] = "queued"
  <2>1. ~Executor(e) /\ ~Crash
    <3>1. ASSUME Executor(e) PROVE FALSE
      <4>1. PICK to \in ThreadPC, s \in Status : Moves(e, to, s)
        BY <3>1, ThreadEffect DEF Executor, Phased
      <4> QED BY <4>1 DEF Moves, Phased, TypeOK, ExecutorTypeOK
    <3>2. ASSUME Crash PROVE FALSE
      BY <3>2 DEF Crash, ForgetRecords
    <3> QED BY <3>1, <3>2
  <2>2. pc[e] = "idle"
    BY <2>1, OnlyThreadsMove
  <2>3. request = e
    BY <1>4, <2>2 DEF QueuedHasOwner
  <2>4. loop \in Handling \ {"check", "admit", "respond"}
    BY <1>4, <2>2, <2>3, ServiceAssumption
    DEF Phased, TypeOK, LoopTypeOK, HandlerPhase, HostInv, HandlerOnHost, Handling
  <2> QED BY <2>1, <2>3, <2>4, HandlerStays DEF Handling
<1> QED BY <1>2, <1>3, <1>4

(***************************************************************************)
(* As long as no attestation and no handover fails, every queued record is *)
(* one that a handler or a thread is going to take further.  A failed      *)
(* attestation leaves its record queued for ever, against                  *)
(* openspec/specs/remote-executor/spec.md:99.                              *)
(***************************************************************************)
THEOREM QueuedRecordsAreOwned ==
  Spec /\ [][~AttestationFails /\ ~HandOffFails]_vars => []QueuedHasOwner
<1>1. Init => QueuedHasOwner
  BY DEF Init, ManagerInit, QueuedHasOwner
<1>2. /\ Phased /\ Phased' /\ HostInv /\ QueuedHasOwner
      /\ [Next]_vars /\ [~AttestationFails /\ ~HandOffFails]_vars
      => QueuedHasOwner'
  <2> SUFFICES ASSUME Phased, Phased', HostInv, QueuedHasOwner, [Next]_vars,
                      [~AttestationFails /\ ~HandOffFails]_vars
               PROVE  QueuedHasOwner'
    OBVIOUS
  <2>1. CASE UNCHANGED vars
    BY <2>1 DEF vars, loopVars, executorVars, threadVars, managerVars, QueuedHasOwner
  <2>2. CASE ~AttestationFails /\ ~HandOffFails
    BY <2>2, QueuedStep
  <2> QED BY <2>1, <2>2
<1> QED BY <1>1, <1>2, HostInvariant, TypeCorrect, Phases, PTL DEF Spec, Phased
-----------------------------------------------------------------------------
(* The size of an output.  Only the append of a chunk makes a buffer grow.  *)

\* Sums, stated for provers that take them as they are.
LEMMA SumType == \A i, j \in Nat : i + j \in Nat
OBVIOUS

LEMMA SumOrder ==
  ASSUME NEW i \in Nat, NEW j \in Nat, NEW n \in Nat
  PROVE  (i + n) + j = (i + j) + n /\ i + (j + n) = (i + j) + n
OBVIOUS

\* What a chunk is cut to fits into the room that is left.
LEMMA Room ==
  \A size, length, max \in Nat :
    ~(max - size <= 0)
      => LET n == IF length > max - size THEN max - size ELSE length
         IN  n \in Nat /\ n <= length /\ size + n <= max
OBVIOUS

\* Captured never exceeds the limit.
LEMMA CapturedFits ==
  ASSUME NEW b \in Buffer, NEW s \in Stream, NEW chunk \in Seq(Nat), Size(b) <= MaxOutput
  PROVE  Size(Captured(b, s, chunk)) <= MaxOutput
<1> DEFINE remaining == MaxOutput - Size(b)
           n == IF Len(chunk) > remaining THEN remaining ELSE Len(chunk)
           kept == SubSeq(chunk, 1, n)
<1>0. b.stdout \in Seq(Nat) /\ b.stderr \in Seq(Nat)
  BY DEF Buffer
<1>1. PICK i, j : /\ i \in Nat /\ j \in Nat /\ Size(b) = i + j
                 /\ i = Len(b.stdout) /\ j = Len(b.stderr)
  BY <1>0, LenProperties DEF Size
<1>m. MaxOutput \in Nat /\ Len(chunk) \in Nat
  BY LenProperties, CollectorAssumption
<1>2. CASE b.truncated \/ chunk = <<>>
  BY <1>2 DEF Captured
<1>3. CASE ~b.truncated /\ chunk # <<>> /\ remaining <= 0
  BY <1>3 DEF Captured, Size, Buffer
<1>4. CASE ~b.truncated /\ chunk # <<>> /\ ~(remaining <= 0)
  <2>1. n \in Nat /\ n <= Len(chunk) /\ Size(b) + n <= MaxOutput
    <3>1. Size(b) \in Nat
      BY <1>1, SumType, Zenon
    <3> QED BY <1>m, <1>4, <3>1, Room
  <2>2. kept \in Seq(Nat) /\ Len(kept) = n
    BY <2>1, <1>m, SubSeqProperties
  <2>3. PICK c : c = Captured(b, s, chunk)
    OBVIOUS
  <2>4. /\ c.stdout = IF s = "stdout" THEN b.stdout \o kept ELSE b.stdout
        /\ c.stderr = IF s = "stderr" THEN b.stderr \o kept ELSE b.stderr
    BY <1>4, <2>3 DEF Captured, Buffer
  <2> HIDE DEF kept, n, remaining
  <2>5. Len(b.stdout \o kept) = i + n /\ Len(b.stderr \o kept) = j + n
    BY <1>0, <1>1, <2>2, ConcatProperties
  <2>6. Size(c) = (i + j) + n
    <3>1. CASE s = "stdout"
      <4>1. Len(c.stdout) = i + n /\ Len(c.stderr) = j
        BY <1>1, <2>4, <2>5, <3>1
      <4>2. Size(c) = (i + n) + j
        BY <4>1 DEF Size
      <4> QED BY <1>1, <2>1, <4>2, SumOrder, Zenon
    <3>2. CASE s = "stderr"
      <4>1. Len(c.stdout) = i /\ Len(c.stderr) = j + n
        BY <1>1, <2>4, <2>5, <3>2
      <4>2. Size(c) = i + (j + n)
        BY <4>1 DEF Size
      <4> QED BY <1>1, <2>1, <4>2, SumOrder, Zenon
    <3> QED BY <3>1, <3>2, ExecutorAssumption
  <2> QED BY <1>1, <2>1, <2>3, <2>6
<1> QED BY <1>2, <1>3, <1>4

\* A buffer that is new is empty, one that is marked complete as large as it was.
LEMMA OthersFit ==
  ASSUME TypeOK, OutputBound, NEW e \in Execution, ThreadStep(e)
  PROVE  OutputBound'
<1>t. /\ DOMAIN buffer \subseteq Execution /\ buffer \in [DOMAIN buffer -> Buffer]
      /\ MaxOutput \in Nat /\ Size(EmptyBuffer) = 0
  BY CollectorAssumption DEF TypeOK, CollectorTypeOK, EmptyBuffer, Size
<1>1. CASE UNCHANGED buffer
  BY <1>1 DEF OutputBound, Size
<1>2. CASE CreateOutputBuffer(e)
  BY <1>t, <1>2 DEF CreateOutputBuffer, CreateBuffer, OutputBound, HasBuffer
<1>3. ASSUME HasBuffer(e), NEW x, MarkBufferComplete(e, x)
      PROVE  OutputBound'
  <2>1. /\ DOMAIN buffer' = DOMAIN buffer
        /\ \A y \in DOMAIN buffer : /\ buffer'[y].stdout = buffer[y].stdout
                                    /\ buffer'[y].stderr = buffer[y].stderr
    BY <1>t, <1>3 DEF MarkBufferComplete, HasBuffer, Buffer
  <2> QED BY <2>1 DEF OutputBound, Size
<1> QED BY <1>1, <1>2, <1>3, ThreadBuffers DEF MarkComplete, HandleException

\* Neither does a log-stream thread exceed the limit with its chunk.
LEMMA StreamFits ==
  ASSUME TypeOK, OutputBound, NEW e \in Execution, NEW s \in Stream, StreamStep(e, s)
  PROVE  OutputBound'
<1>1. CASE UNCHANGED buffer
  BY <1>1 DEF OutputBound, Size
<1>2. CASE StreamChunk(e, s) /\ HasBuffer(e)
  <2>1. PICK last \in consumed[e][s] + 1 .. container[e].out[s] :
          CaptureOutput(e, s, [k \in 1 .. last - consumed[e][s] |-> consumed[e][s] + k])
    BY <1>2 DEF StreamChunk
  <2> DEFINE chunk == [k \in 1 .. last - consumed[e][s] |-> consumed[e][s] + k]
  <2>2. /\ consumed[e][s] \in Nat /\ container[e].out[s] \in Nat
        /\ last \in Nat /\ last - consumed[e][s] \in Nat
    <3>1. consumed[e][s] \in Nat /\ container[e].out[s] \in Nat
      BY DEF TypeOK, ExecutorTypeOK, Container
    <3> QED BY <3>1
  <2>3. chunk \in Seq(Nat)
    BY <2>2, BytesAreSequence DEF Bytes
  <2>4. buffer[e] \in Buffer /\ Size(buffer[e]) <= MaxOutput
    BY <1>2 DEF TypeOK, CollectorTypeOK, HasBuffer, OutputBound
  <2>5. buffer' = [buffer EXCEPT ![e] = Captured(buffer[e], s, chunk)]
    BY <2>1 DEF CaptureOutput
  <2>6. Size(Captured(buffer[e], s, chunk)) <= MaxOutput
    BY <2>3, <2>4, CapturedFits
  <2> HIDE DEF chunk
  <2> QED BY <1>2, <2>5, <2>6 DEF OutputBound, HasBuffer
<1> QED BY <1>1, <1>2 DEF StreamStep, StreamChunk, StreamEnds

(***************************************************************************)
(* The bytes held for an execution never exceed max_output_size_bytes,     *)
(* however the chunks of its two streams are cut and interleaved.          *)
(***************************************************************************)
THEOREM OutputIsBounded == Spec => []OutputBound
<1>1. Init => OutputBound
  BY DEF Init, CollectorInit, OutputBound
<1>2. TypeOK /\ OutputBound /\ [Next]_vars => OutputBound'
  <2> SUFFICES ASSUME TypeOK, OutputBound, [Next]_vars PROVE OutputBound'
    OBVIOUS
  <2>0. CASE UNCHANGED buffer
    BY <2>0 DEF OutputBound, Size
  <2>1. CASE Execute
    <3>1. UNCHANGED buffer
      BY <2>1 DEF Execute, CloneRepository, AcceptScript, RejectScript, AdmitExecution,
                  RejectAtCapacity, AttestExecution, AttestationFails, StoreContext,
                  HandOff, HandOffFails, Respond, Abandon, executorVars
    <3> QED BY <2>0, <3>1
  <2>2. CASE Cleanup
    <3>1. UNCHANGED buffer \/ RemoveOutputs(expiring)
      BY <2>2 DEF Cleanup, SweepRecords, DropContexts, DropBuffers, executorVars
    <3> QED BY <2>0, <3>1 DEF RemoveOutputs, OutputBound
  <2>3. CASE \E p \in Poller : Polling(p)
    BY <2>0, <2>3, PollingFrame DEF executorVars
  <2>4. ASSUME NEW e \in Execution, Executor(e)
        PROVE  OutputBound'
    BY <2>4, OthersFit DEF Executor
  <2>5. ASSUME NEW e \in Execution, NEW s \in Stream, Streams(e, s)
        PROVE  OutputBound'
    BY <2>5, StreamFits DEF Streams
  <2>6. CASE UNCHANGED vars \/ Restart \/ \E e \in Execution : Age(e) \/ Script(e)
    BY <2>0, <2>6 DEF vars, executorVars, Restart, Age, Script, ScriptStep, ScriptExits,
                      ScriptWrites
  <2>7. CASE Crash
    <3>1. RemoveOutputs(Execution)
      BY <2>7 DEF Crash
    <3> QED BY <3>1 DEF RemoveOutputs, OutputBound
  <2> QED BY <2>1, <2>2, <2>3, <2>4, <2>5, <2>6, <2>7 DEF Next
<1> QED BY <1>1, <1>2, TypeCorrect, PTL DEF Spec
=============================================================================
