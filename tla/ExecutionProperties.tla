------------------------- MODULE ExecutionProperties -------------------------
(***************************************************************************)
(* The correctness properties of the executor service.  ConcurrencyLimit   *)
(* and MetricsLaw are stated in ExecutionManager, OutputBound in           *)
(* OutputCollector, TypeOK in ExecutionService.                            *)
(***************************************************************************)
EXTENDS ExecutionService

InContainer(e) == container[e].state \in {"created", "running"}

-----------------------------------------------------------------------------
(***************************************************************************)
(* The verdict in the record and the answer in the output buffer, written  *)
(* by two calls under two locks, agree: an execution with a terminal       *)
(* status has a complete buffer with the same exit code, which is 0 for    *)
(* "completed" and nothing else.  A path of _execute_in_container that     *)
(* updates one store only, or that reaches the outer handler after a       *)
(* verdict, would break it.                                                *)
(***************************************************************************)
VerdictAgreement ==
  \A e \in Execution : status[e] \in Terminal =>
    /\ HasBuffer(e)
    /\ buffer[e].complete
    /\ buffer[e].exitCode = exitCode[e]
    /\ (status[e] = "completed") <=> (exitCode[e] = 0)

(***************************************************************************)
(* A container that may still run its script has its workspace: neither    *)
(* the `finally` of the handler that cloned it (execution_handed_off) nor  *)
(* the thread's own cleanup removes the clone under a live container it    *)
(* still holds.                                                            *)
(***************************************************************************)
WorkspaceInUse ==
  \A e \in held : InContainer(e) => e \in cloneDir

(***************************************************************************)
(* Once the executor thread exists, and for as long as the record does,    *)
(* the client's key is there, so that every poll of a known execution can  *)
(* be decrypted: the key is stored before execute_async and dropped only   *)
(* after the record.                                                       *)
(***************************************************************************)
KeyBeforeThread ==
  \A e \in Execution :
    HasRecord(e) /\ pc[e] # "idle" => e \in contexts

(***************************************************************************)
(* Keys and output buffers never outlive their record, except during the   *)
(* sweep that is about to drop them.  A buffer or a key written for a      *)
(* record that is already gone would stay in memory for ever: cleanup      *)
(* looks at records only.                                                  *)
(***************************************************************************)
StoresAgree ==
  \A e \in contexts \cup DOMAIN buffer : HasRecord(e) \/ e \in expiring

(***************************************************************************)
(* A verdict is final: once a record is terminal its status and exit code  *)
(* never change until it is removed.  update_status itself would let a     *)
(* late call overwrite them.                                               *)
(***************************************************************************)
VerdictFinal ==
  [][\A e \in Execution : status[e] \in Terminal =>
       \/ status'[e] = "removed"
       \/ status'[e] = status[e] /\ exitCode'[e] = exitCode[e]]_vars

\* Nothing is under way for e: no handler serves it and no thread runs it.
Over(e) == request # e /\ pc[e] \in {"idle", "done"}

(***************************************************************************)
(* The step that ends the work for an execution, on whichever path of the  *)
(* handler and of the thread, leaves no container and no clone of it on    *)
(* the host.  Where the host obeys: no removal fails and no creation is    *)
(* half done; what the end of the process leaves is Supervised's matter.   *)
(***************************************************************************)
NothingLeaked ==
  [][\A e \in Execution : up /\ up' /\ ~Over(e) /\ Over(e)' =>
       e \notin cloneDir' /\ container'[e].state = "absent"]_vars

(***************************************************************************)
(* While the service is up every container on the host belongs to a thread *)
(* that will remove it: none survives a crash and the startup that follows *)
(* it (cleanup_dangling_containers).  Same condition on the host.          *)
(***************************************************************************)
Supervised ==
  up => \A e \in Execution : container[e].state # "absent" => e \in held

\* The exit code a client that polls e would be given.
Answer == [e \in Execution |->
             IF HasBuffer(e) THEN buffer[e].exitCode ELSE NoExit]

(***************************************************************************)
(* The service implements the lifecycle documented in update_status        *)
(* (execution_manager.py): the status of each execution, its answer and    *)
(* the admission limit, with threads, locks and failures abstracted away.  *)
(***************************************************************************)
Lifecycle == INSTANCE ExecutionLifecycle WITH
  Limit <- MaxConcurrent, phase <- status, answer <- Answer

ImplementsLifecycle == Lifecycle!Spec
-----------------------------------------------------------------------------
(***************************************************************************)
(* A complete buffer is final: nothing is appended to an output after the  *)
(* exit code was reported with it.  Where both stream threads end within   *)
(* their join and container.stop works.                                    *)
(***************************************************************************)
OutputFinal ==
  [][\A e \in DOMAIN buffer : buffer[e].complete =>
       (e \in DOMAIN buffer' => buffer'[e] = buffer[e])]_vars

BytesUpTo(n) == [k \in 1..n |-> k]

\* Every stream of the script has had its thread.
Followed(e) == \A s \in Stream : stream[e][s] # "off"

(***************************************************************************)
(* The two stream threads capture what the script wrote: each stream as a  *)
(* prefix without gap, repetition or reordering; nothing is dropped while  *)
(* there is room; and the output of an exited container is whole, up to    *)
(* the size limit, when it is marked complete.  Only a script whose start  *)
(* was answered by an error, or whose stream threads could not all be      *)
(* created, is not followed and loses output; the exit code -1 then tells  *)
(* the client, so that a code of the script's own vouches for all it       *)
(* wrote.  Where no log stream breaks and both end within their join.      *)
(***************************************************************************)
CaptureFaithful ==
  \A e \in DOMAIN buffer :
    LET b == buffer[e]
        written(s) == container[e].out[s]
    IN  /\ b.stdout = BytesUpTo(Len(b.stdout))
        /\ b.stderr = BytesUpTo(Len(b.stderr))
        /\ b.truncated => Size(b) = MaxOutput
        /\ b.complete /\ ~Followed(e) => b.exitCode = -1
        /\ /\ b.complete /\ ~b.truncated
           /\ container[e].state = "exited" /\ Followed(e)
           =>
             /\ "stdout" \in Stream => Len(b.stdout) = written("stdout")
             /\ "stderr" \in Stream => Len(b.stderr) = written("stderr")

(***************************************************************************)
(* Successive polls of one client never go back: the offset does not       *)
(* decrease, a complete execution stays complete with the same exit code   *)
(* and a finished one is never seen active again.                          *)
(***************************************************************************)
PollsMonotone ==
  [][\A p \in Poller :
       LET old == poll[p].reply
           new == poll'[p].reply
       IN  old.code = 200 /\ new.code = 200 =>
             /\ poll'[p].offset >= poll[p].offset
             /\ old.complete => new.complete /\ new.exitCode = old.exitCode
             /\ old.status \in Terminal => new.status = old.status]_vars

(***************************************************************************)
(* A reply is consistent although its parts are read from the output store *)
(* and, later, from the record: it has an exit code exactly when it is     *)
(* complete, and a verdict that goes with that exit code.                  *)
(***************************************************************************)
ReplyConsistent ==
  \A p \in Poller :
    LET r == poll[p].reply
    IN  r.code = 200 =>
          /\ r.complete <=> r.exitCode # NoExit
          /\ r.complete /\ r.status \in Terminal =>
               (r.status = "completed" <=> r.exitCode = 0)

(***************************************************************************)
(* A client that passes the stdout_offset of each response to the next     *)
(* poll (README.md:527) reassembles the script's standard output: it has   *)
(* as much as its offset says, and every byte once and in its place.  Only *)
(* the bytes of a character that a poll or the size limit cut in two come  *)
(* as replacement characters.                                              *)
(***************************************************************************)
StdoutReassembled ==
  \A p \in Poller :
    /\ Len(poll[p].stdout) = poll[p].offset
    /\ \A k \in DOMAIN poll[p].stdout :
         \/ poll[p].stdout[k] = k
         \/ poll[p].stdout[k] = Replacement /\ {k - 1, k} \cap WideLead # {}
-----------------------------------------------------------------------------
(***************************************************************************)
(* Every execution the service accepts ends: its thread waits for nothing  *)
(* without a timeout and records a verdict on every path.  Where the       *)
(* attestation succeeds and the thread can be created.                     *)
(***************************************************************************)
EveryExecutionEnds ==
  \A e \in Execution : status[e] \in Active ~> status[e] \notin Active

(***************************************************************************)
(* Everything an execution holds is given back: clone, key and output all  *)
(* go in the end, whether it was rejected, failed, or ran to the end of    *)
(* its retention.  Where removals on the host succeed.                     *)
(***************************************************************************)
Holding(e) == e \in cloneDir \cup contexts \cup DOMAIN buffer

EverythingReclaimed ==
  \A e \in Execution : Holding(e) ~> ~Holding(e)
-----------------------------------------------------------------------------
(***************************************************************************)
(* Statements of the documentation and of comments that the code does not  *)
(* meet in every behaviour (README.md, "Divergences").                     *)
(***************************************************************************)

(***************************************************************************)
(* openspec/specs/remote-executor/spec.md:174: the server limits the       *)
(* number of concurrent containers.  The slot is freed by the verdict,     *)
(* which is recorded before the container is removed.                      *)
(***************************************************************************)
RunningContainersLimit ==
  Cardinality({e \in Execution : container[e].state = "running"})
    <= MaxConcurrent

(***************************************************************************)
(* openspec/specs/remote-executor/spec.md:99: a failed attestation is      *)
(* recorded for the execution.  So a record that is still queued is one    *)
(* that a handler or a thread is going to take further.                    *)
(***************************************************************************)
QueuedHasOwner ==
  \A e \in Execution : status[e] = "queued" =>
    \/ request = e
    \/ pc[e] \in {"lookup", "buffer", "markRunning"}
-----------------------------------------------------------------------------
(***************************************************************************)
(* What makes the safety properties above inductive: where a thread, a     *)
(* handler or the sweep stands decides what the stores hold.               *)
(***************************************************************************)

\* The body of the `try` of _execute_in_container after update_status(RUNNING).
InBody == {"create", "start", "streams", "wait", "stop", "join", "complete",
           "finish", "exception", "recordFailure"}

\* The statuses a record can have while its thread is at program point p.
Fits(p, s) ==
  /\ p = "idle" => s \in {"none", "queued", "removed"}
  /\ p \in {"lookup", "buffer", "markRunning"} => s = "queued"
  /\ p \in InBody => s = "running"
  /\ p \in {"untrack", "remove", "rmdir", "done"} => s \in Terminal \cup {"removed"}

ThreadPhase == \A e \in Execution : Fits(pc[e], status[e])

HandlerPhase ==
  /\ loop \in Handling \ {"respond"} => pc[request] = "idle"
  /\ loop \in {"check", "admit"} => status[request] = "none"
  /\ loop \in {"attest", "store", "spawn"} => status[request] = "queued"
  /\ loop = "spawn" => request \in contexts

SweepPhase ==
  /\ expiring # {} => loop \in {"dropContexts", "dropBuffers"}
  /\ \A e \in expiring : status[e] = "removed"
  /\ loop = "dropBuffers" => contexts \cap expiring = {}

BufferPhase ==
  \A e \in Execution :
    /\ pc[e] \in InBody \cup {"markRunning"} => HasBuffer(e)
    /\ pc[e] = "finish" => buffer[e].complete /\ buffer[e].exitCode = FinalCode(e)
    /\ pc[e] = "recordFailure" => buffer[e].complete /\ buffer[e].exitCode = -1

IndInv ==
  /\ TypeOK
  /\ ThreadPhase
  /\ HandlerPhase
  /\ ConcurrencyLimit
  /\ MetricsLaw
  /\ SweepPhase
  /\ KeyBeforeThread
  /\ StoresAgree
  /\ BufferPhase
  /\ VerdictAgreement
=============================================================================
