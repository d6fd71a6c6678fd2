---------------------------- MODULE ScriptExecutor ----------------------------
(***************************************************************************)
(* The executor thread of each execution, its two log-stream threads and   *)
(* the Docker container they drive (src/src/script_executor.py).           *)
(*                                                                         *)
(* Threads interleave at every lock acquisition and every blocking call.   *)
(* The container, the files of the clone directory and the clock are the   *)
(* environment.                                                            *)
(***************************************************************************)
EXTENDS ExecutionManager, OutputCollector

CONSTANTS
  Stream,   \* the log streams followed: a subset of {"stdout", "stderr"}
  MaxEmit,  \* bytes a script may write on one stream (bounds the model)
  Faults    \* the failures of the environment this instance lets happen

(***************************************************************************)
(* container_create  chmod or containers.create raises                     *)
(* container_start   container.start raises, its reply perhaps lost        *)
(* thread_start      Thread.start raises (no thread can be created)        *)
(* stop              container.stop raises an APIError                     *)
(* stop_transport    container.stop raises anything else (a read timeout)  *)
(* join_timeout      thread.join(timeout=5) returns with the thread alive  *)
(* stream_error      the log stream of a container raises                  *)
(* remove            container.remove raises an APIError                   *)
(* remove_transport  container.remove or its check raises anything else    *)
(* rmtree            shutil.rmtree fails                                   *)
(***************************************************************************)
ExecutorFaults ==
  {"container_create", "container_start", "thread_start", "stop",
   "stop_transport", "join_timeout", "stream_error", "remove",
   "remove_transport", "rmtree"}

ASSUME ExecutorAssumption ==
  /\ Stream \subseteq {"stdout", "stderr"}
  /\ MaxEmit \in Nat

VARIABLES
  pc,         \* where the thread of _execute_in_container stands
  held,       \* threads whose local variable `container` is not None
  tracked,    \* the keys of _active_containers
  exitSeen,   \* the local exit_code after container.wait returned
  stream,     \* state of each log-stream thread
  consumed,   \* bytes each log-stream thread has taken from the daemon
  container,  \* the Docker daemon's view of gare-exec-<e>
  cloneDir    \* the clone directories that exist on disk

threadVars == <<pc, held, tracked, exitSeen, stream, consumed>>
hostVars == <<container, cloneDir>>

ThreadPC ==
  {"idle", "lookup", "buffer", "markRunning", "create", "start", "streams",
   "wait", "stop", "join", "complete", "finish", "exception", "recordFailure",
   "untrack", "remove", "rmdir", "done"}

StreamState == {"off", "open", "done"}

ContainerState == {"absent", "created", "running", "exited"}

NoContainer == [state |-> "absent", code |-> 0, out |-> [s \in Stream |-> 0]]

Container == [state : ContainerState, code : {0, 1}, out : [Stream -> Nat]]

ExecutorTypeOK ==
  /\ pc \in [Execution -> ThreadPC]
  /\ held \subseteq Execution
  /\ tracked \subseteq Execution
  /\ exitSeen \in [Execution -> {0, 1, NoExit}]
  /\ stream \in [Execution -> [Stream -> StreamState]]
  /\ consumed \in [Execution -> [Stream -> Nat]]
  /\ container \in [Execution -> Container]
  /\ cloneDir \subseteq Execution

ThreadInit ==
  /\ pc = [e \in Execution |-> "idle"]
  /\ held = {}
  /\ tracked = {}
  /\ exitSeen = [e \in Execution |-> NoExit]
  /\ stream = [e \in Execution |-> [s \in Stream |-> "off"]]
  /\ consumed = [e \in Execution |-> [s \in Stream |-> 0]]

HostInit ==
  /\ container = [e \in Execution |-> NoContainer]
  /\ cloneDir = {}

Fault(f) == f \in Faults

\* Thread e moves from one program point to another.
Goto(e, from, to) ==
  /\ pc[e] = from
  /\ pc' = [pc EXCEPT ![e] = to]
-----------------------------------------------------------------------------
\* _execute_in_container: up to the status RUNNING.
LookUpRecord(e) ==
  /\ Goto(e, "lookup", IF HasRecord(e) THEN "buffer" ELSE "untrack")
  /\ UNCHANGED <<held, tracked, exitSeen, stream, consumed, hostVars,
                 managerVars, buffer>>

CreateOutputBuffer(e) ==
  /\ Goto(e, "buffer", "markRunning")
  /\ CreateBuffer(e)
  /\ UNCHANGED <<held, tracked, exitSeen, stream, consumed, hostVars, managerVars>>

MarkRunning(e) ==
  /\ Goto(e, "markRunning", "create")
  /\ UpdateStatus(e, "running", NoExit)
  /\ UNCHANGED <<held, tracked, exitSeen, stream, consumed, hostVars, buffer>>

\* chmod, containers.create and the insertion in _active_containers.
CreateContainer(e) ==
  /\ Goto(e, "create", "start")
  /\ container' = [container EXCEPT ![e].state = "created"]
  /\ held' = held \cup {e}
  /\ tracked' = tracked \cup {e}
  /\ UNCHANGED <<exitSeen, stream, consumed, cloneDir, managerVars, buffer>>

\* The daemon may have created the container before the call failed.
CreateContainerFails(e) ==
  /\ Fault("container_create")
  /\ Goto(e, "create", "exception")
  /\ container' \in {container, [container EXCEPT ![e].state = "created"]}
  /\ UNCHANGED <<held, tracked, exitSeen, stream, consumed, cloneDir,
                 managerVars, buffer>>

StartContainer(e) ==
  /\ Goto(e, "start", "streams")
  /\ container' = [container EXCEPT ![e].state = "running"]
  /\ UNCHANGED <<held, tracked, exitSeen, stream, consumed, cloneDir,
                 managerVars, buffer>>

\* The call raises.  Where only its reply was lost the script runs, and no
\* log stream follows it.
StartContainerFails(e) ==
  /\ Fault("container_start")
  /\ Goto(e, "start", "exception")
  /\ container' \in {container, [container EXCEPT ![e].state = "running"]}
  /\ UNCHANGED <<held, tracked, exitSeen, stream, consumed, cloneDir,
                 managerVars, buffer>>

\* Thread stdout is started before thread stderr.
StartStreams(e) ==
  /\ Goto(e, "streams", "wait")
  /\ stream' = [stream EXCEPT ![e] = [s \in Stream |-> "open"]]
  /\ UNCHANGED <<held, tracked, exitSeen, consumed, hostVars, managerVars, buffer>>

StartStreamsFails(e) ==
  /\ Fault("thread_start")
  /\ Goto(e, "streams", "exception")
  /\ \E opened \in {{}, {"stdout"}} :
       stream' = [stream EXCEPT ![e] =
                    [s \in Stream |-> IF s \in opened THEN "open" ELSE "off"]]
  /\ UNCHANGED <<held, tracked, exitSeen, consumed, hostVars, managerVars, buffer>>
-----------------------------------------------------------------------------
\* container.wait returns the exit code of the script.
WaitReturns(e) ==
  /\ container[e].state = "exited"
  /\ Goto(e, "wait", "join")
  /\ exitSeen' = [exitSeen EXCEPT ![e] = container[e].code]
  /\ UNCHANGED <<held, tracked, stream, consumed, hostVars, managerVars, buffer>>

\* container.wait raises: the timeout expired or the call failed.
WaitRaises(e) ==
  /\ Goto(e, "wait", "stop")
  /\ UNCHANGED <<held, tracked, exitSeen, stream, consumed, hostVars,
                 managerVars, buffer>>

\* The containers once the daemon has stopped the one of e.
Stopped(e) ==
  [container EXCEPT ![e].state = IF @ = "running" THEN "exited" ELSE @,
                    ![e].code = IF container[e].state = "running" THEN 1 ELSE @]

\* A faulty variant of StopContainer: the streams are not joined.
StopContainerNoJoin(e) ==
  /\ Goto(e, "stop", "complete")
  /\ container' = Stopped(e)
  /\ UNCHANGED <<held, tracked, exitSeen, stream, consumed, cloneDir,
                 managerVars, buffer>>

\* container.stop: SIGTERM, then SIGKILL after 5 seconds.
StopContainer(e) ==
  /\ Goto(e, "stop", "join")
  /\ container' = Stopped(e)
  /\ UNCHANGED <<held, tracked, exitSeen, stream, consumed, cloneDir,
                 managerVars, buffer>>

\* An APIError is swallowed; any other exception, a lost reply for one, leaves
\* the handler.
StopFails(e) ==
  /\ \/ Fault("stop") /\ Goto(e, "stop", "join") /\ UNCHANGED container
     \/ /\ Fault("stop_transport")
        /\ Goto(e, "stop", "exception")
        /\ container' \in {container, Stopped(e)}
  /\ UNCHANGED <<held, tracked, exitSeen, stream, consumed, cloneDir,
                 managerVars, buffer>>

\* A faulty variant of JoinStreams: only the stdout thread is joined.
JoinStdoutOnly(e) ==
  /\ \/ \A s \in Stream \cap {"stdout"} : stream[e][s] # "open"
     \/ container[e].state = "running"
     \/ Fault("join_timeout")
  /\ Goto(e, "join", "complete")
  /\ UNCHANGED <<held, tracked, exitSeen, stream, consumed, hostVars,
                 managerVars, buffer>>

\* Both join(timeout=5) calls have returned: the streams have ended, or the
\* five seconds are over, as they must be while the script still runs.
JoinStreams(e) ==
  /\ \/ \A s \in Stream : stream[e][s] # "open"
     \/ container[e].state = "running"
     \/ Fault("join_timeout")
  /\ Goto(e, "join", "complete")
  /\ UNCHANGED <<held, tracked, exitSeen, stream, consumed, hostVars,
                 managerVars, buffer>>

\* exitSeen is None exactly on the path of a failed or expired wait.
FinalStatus(e) ==
  IF exitSeen[e] = NoExit THEN "timed_out"
  ELSE IF exitSeen[e] = 0 THEN "completed" ELSE "failed"

FinalCode(e) == IF exitSeen[e] = NoExit THEN -1 ELSE exitSeen[e]

\* A faulty variant of MarkComplete: the exit code is always 0.
MarkCompleteZero(e) ==
  /\ Goto(e, "complete", IF HasBuffer(e) THEN "finish" ELSE "exception")
  /\ IF HasBuffer(e) THEN MarkBufferComplete(e, 0) ELSE UNCHANGED buffer
  /\ UNCHANGED <<held, tracked, exitSeen, stream, consumed, hostVars, managerVars>>

\* mark_complete; its ValueError would be caught by the outer handler.
MarkComplete(e) ==
  /\ Goto(e, "complete", IF HasBuffer(e) THEN "finish" ELSE "exception")
  /\ IF HasBuffer(e) THEN MarkBufferComplete(e, FinalCode(e)) ELSE UNCHANGED buffer
  /\ UNCHANGED <<held, tracked, exitSeen, stream, consumed, hostVars, managerVars>>

\* A faulty variant of RecordVerdict: it falls through to the outer handler.
RecordVerdictFallsThrough(e) ==
  /\ Goto(e, "finish", IF exitSeen[e] = NoExit THEN "exception" ELSE "untrack")
  /\ UpdateStatus(e, FinalStatus(e), FinalCode(e))
  /\ UNCHANGED <<held, tracked, exitSeen, stream, consumed, hostVars, buffer>>

RecordVerdict(e) ==
  /\ Goto(e, "finish", "untrack")
  /\ UpdateStatus(e, FinalStatus(e), FinalCode(e))
  /\ UNCHANGED <<held, tracked, exitSeen, stream, consumed, hostVars, buffer>>

-----------------------------------------------------------------------------
\* A faulty variant of HandleException: it leaves the record as it is.
HandleExceptionReturns(e) ==
  /\ Goto(e, "exception", "untrack")
  /\ IF HasBuffer(e) THEN MarkBufferComplete(e, -1) ELSE UNCHANGED buffer
  /\ UNCHANGED <<held, tracked, exitSeen, stream, consumed, hostVars, managerVars>>

\* except Exception: mark_complete(e, -1) where a buffer exists ...
HandleException(e) ==
  /\ Goto(e, "exception", "recordFailure")
  /\ IF HasBuffer(e) THEN MarkBufferComplete(e, -1) ELSE UNCHANGED buffer
  /\ UNCHANGED <<held, tracked, exitSeen, stream, consumed, hostVars, managerVars>>

\* ... then update_status(e, FAILED, -1).
RecordFailure(e) ==
  /\ Goto(e, "recordFailure", "untrack")
  /\ UpdateStatus(e, "failed", -1)
  /\ UNCHANGED <<held, tracked, exitSeen, stream, consumed, hostVars, buffer>>

\* finally: leave _active_containers, remove the container, then the clone.
Untrack(e) ==
  /\ Goto(e, "untrack", IF e \in held THEN "remove" ELSE "rmdir")
  /\ tracked' = tracked \ {e}
  /\ UNCHANGED <<held, exitSeen, stream, consumed, hostVars, managerVars, buffer>>

\* A faulty variant of RemoveContainer: the clone is forgotten.
RemoveContainerReturns(e) ==
  /\ Goto(e, "remove", "done")
  /\ container' = [container EXCEPT ![e] = NoContainer]
  /\ held' = held \ {e}
  /\ UNCHANGED <<tracked, exitSeen, stream, consumed, cloneDir, managerVars, buffer>>

RemoveContainer(e) ==
  /\ Goto(e, "remove", "rmdir")
  /\ container' = [container EXCEPT ![e] = NoContainer]
  /\ held' = held \ {e}
  /\ UNCHANGED <<tracked, exitSeen, stream, consumed, cloneDir, managerVars, buffer>>

\* An APIError is logged; any other exception, from the removal or from its
\* verification, ends the thread in `finally` with the clone left on disk.
RemoveContainerFails(e) ==
  /\ \/ Fault("remove") /\ Goto(e, "remove", "rmdir") /\ UNCHANGED container
     \/ /\ Fault("remove_transport")
        /\ Goto(e, "remove", "done")
        /\ container' \in {container, [container EXCEPT ![e] = NoContainer]}
  /\ held' = held \ {e}
  /\ UNCHANGED <<tracked, exitSeen, stream, consumed, cloneDir, managerVars, buffer>>

RemoveCloneDir(e) ==
  /\ Goto(e, "rmdir", "done")
  /\ cloneDir' \in {cloneDir \ {e}} \cup (IF Fault("rmtree") THEN {cloneDir} ELSE {})
  /\ UNCHANGED <<held, tracked, exitSeen, stream, consumed, container,
                 managerVars, buffer>>
-----------------------------------------------------------------------------
\* _stream_container_logs: one chunk of the log reaches capture_output.  A
\* missing buffer raises, and the exception ends the stream thread.
StreamChunk(e, s) ==
  /\ stream[e][s] = "open"
  /\ \E last \in consumed[e][s] + 1 .. container[e].out[s] :
       IF HasBuffer(e)
       THEN /\ CaptureOutput(e, s, [k \in 1 .. last - consumed[e][s] |->
                                       consumed[e][s] + k])
            /\ consumed' = [consumed EXCEPT ![e][s] = last]
            /\ UNCHANGED stream
       ELSE /\ stream' = [stream EXCEPT ![e][s] = "done"]
            /\ UNCHANGED <<consumed, buffer>>
  /\ UNCHANGED <<pc, held, tracked, exitSeen, hostVars, managerVars>>

\* The log ends with the container, or its stream raises.
StreamEnds(e, s) ==
  /\ stream[e][s] = "open"
  /\ \/ container[e].state = "exited" /\ consumed[e][s] = container[e].out[s]
     \/ container[e].state = "absent"
     \/ Fault("stream_error")
  /\ stream' = [stream EXCEPT ![e][s] = "done"]
  /\ UNCHANGED <<pc, held, tracked, exitSeen, consumed, hostVars,
                 managerVars, buffer>>
-----------------------------------------------------------------------------
\* The script writes a byte, or ends with a code.
ScriptWrites(e, s) ==
  /\ container[e].state = "running"
  /\ container[e].out[s] < MaxEmit
  /\ container' = [container EXCEPT ![e].out[s] = @ + 1]
  /\ UNCHANGED <<threadVars, cloneDir, managerVars, buffer>>

ScriptExits(e) ==
  /\ container[e].state = "running"
  /\ \E code \in {0, 1} :
       container' = [container EXCEPT ![e].state = "exited", ![e].code = code]
  /\ UNCHANGED <<threadVars, cloneDir, managerVars, buffer>>
-----------------------------------------------------------------------------
ThreadStep(e) ==
  \/ LookUpRecord(e)
  \/ CreateOutputBuffer(e)
  \/ MarkRunning(e)
  \/ CreateContainer(e)
  \/ CreateContainerFails(e)
  \/ StartContainer(e)
  \/ StartContainerFails(e)
  \/ StartStreams(e)
  \/ StartStreamsFails(e)
  \/ WaitReturns(e)
  \/ WaitRaises(e)
  \/ StopContainer(e)
  \/ StopFails(e)
  \/ JoinStreams(e)
  \/ MarkComplete(e)
  \/ RecordVerdict(e)
  \/ HandleException(e)
  \/ RecordFailure(e)
  \/ Untrack(e)
  \/ RemoveContainer(e)
  \/ RemoveContainerFails(e)
  \/ RemoveCloneDir(e)

StreamStep(e, s) == StreamChunk(e, s) \/ StreamEnds(e, s)

ScriptStep(e) == ScriptExits(e) \/ \E s \in Stream : ScriptWrites(e, s)
=============================================================================
