--------------------------- MODULE ExecutionService ---------------------------
(***************************************************************************)
(* The executor service as one system: the event loop that runs the        *)
(* /execute and /output handlers and the periodic cleanup (server.py), the *)
(* executor and log-stream threads (ScriptExecutor), the stores they share *)
(* (ExecutionManager, OutputCollector, the encryption contexts) and the    *)
(* end and restart of the process (main.py).                               *)
(*                                                                         *)
(* Every handler is a coroutine of one event loop and awaits only its      *)
(* request body.  /execute awaits it before it touches anything modelled   *)
(* here, so its code from the clone on excludes other handlers and the     *)
(* cleanup; /output looks up its key before the await and does the rest    *)
(* after it.  `loop` says which such block the event loop is inside; the   *)
(* threads run at any point of it.                                         *)
(***************************************************************************)
EXTENDS ScriptExecutor

CONSTANTS
  Poller,        \* clients that poll /execution/{id}/output
  MaxText,       \* a client with more characters stops (bounds the model)
  NoExecution    \* the absence of an execution

(***************************************************************************)
(* bad_script  the script is missing, too large or has a denied env key    *)
(* attest      generate_attestation returns an error                       *)
(* bad_poll    an /output body is rejected before the record is looked up  *)
(* crash       the process ends, by signal or by failure, and is restarted *)
(***************************************************************************)
ServiceFaults == {"bad_script", "attest", "bad_poll", "crash"}

ASSUME ServiceAssumption ==
  /\ NoExecution \notin Execution
  /\ MaxText \in Nat
  /\ Faults \subseteq ExecutorFaults \cup ServiceFaults

VARIABLES
  up,         \* the process is running
  loop,       \* the block of handler code the event loop is executing
  request,    \* the execution the running /execute handler works for
  contexts,   \* EncryptionManager._contexts
  expiring,   \* the local expired_ids of a running cleanup_expired
  snapshot,   \* the local output_data of a running /output handler
  poll        \* each client's poll: progress and what it has received

loopVars == <<up, loop, request, contexts, expiring, snapshot, poll>>
executorVars == <<threadVars, hostVars, managerVars, buffer>>
vars == <<loopVars, executorVars>>

\* Where the event loop is inside /execute, after the clone.
Handling == {"check", "admit", "attest", "store", "spawn", "respond"}

LoopState == Handling \cup {"idle", "dropContexts", "dropBuffers", "poll"}

NoOutput == [stdout |-> <<>>, stderr |-> <<>>, stdoutOffset |-> 0,
             stderrOffset |-> 0, complete |-> FALSE, exitCode |-> NoExit]

Output == [stdout : Seq(Nat), stderr : Seq(Nat), stdoutOffset : Nat,
           stderrOffset : Nat, complete : BOOLEAN,
           exitCode : ExitCode \cup {NoExit}]

\* HTTP status, record status and completion as the client last saw them; a
\* refusal has an HTTP status only.
Refusal(code) == [code |-> code, status |-> "none", complete |-> FALSE, exitCode |-> NoExit]

NoReply == Refusal(0)

Reply == [code : {0, 200, 400, 404}, status : Status, complete : BOOLEAN,
          exitCode : ExitCode \cup {NoExit}]

\* The client side of a poll (README.md, "Poll execution output"): it keeps
\* the text received so far and sends the offset of the last response.
Poll == [at : {"idle", "body", "status"}, exec : Execution \cup {NoExecution},
         offset : Nat, stdout : Seq(Nat), stderr : Seq(Nat), reply : Reply]

NoPoll == [at |-> "idle", exec |-> NoExecution, offset |-> 0,
           stdout |-> <<>>, stderr |-> <<>>, reply |-> NoReply]

LoopTypeOK ==
  /\ up \in BOOLEAN
  /\ loop \in LoopState
  /\ request \in IF loop \in Handling THEN Execution ELSE {NoExecution}
  /\ contexts \subseteq Execution
  /\ expiring \subseteq Execution
  /\ snapshot \in Output
  /\ poll \in [Poller -> Poll]
  /\ \A p \in Poller : poll[p].at # "idle" => poll[p].exec \in Execution

\* Every variable ranges over the values its code can give it.
TypeOK ==
  /\ ManagerTypeOK
  /\ CollectorTypeOK
  /\ ExecutorTypeOK
  /\ LoopTypeOK

Init ==
  /\ ManagerInit
  /\ CollectorInit
  /\ ThreadInit
  /\ HostInit
  /\ up = TRUE
  /\ loop = "idle"
  /\ request = NoExecution
  /\ contexts = {}
  /\ expiring = {}
  /\ snapshot = NoOutput
  /\ poll = [p \in Poller |-> NoPoll]
-----------------------------------------------------------------------------
\* /execute after its body: the request is valid and the clone succeeded.
CloneRepository(e) ==
  /\ up
  /\ loop = "idle"
  /\ status[e] = "none"
  /\ e \notin cloneDir
  /\ loop' = "check"
  /\ request' = e
  /\ cloneDir' = cloneDir \cup {e}
  /\ UNCHANGED <<up, contexts, expiring, snapshot, poll, threadVars,
                 container, managerVars, buffer>>

\* The handler moves on to its next statement.
Advance(from, to) ==
  /\ loop = from
  /\ loop' = to
  /\ UNCHANGED <<up, request, expiring, snapshot, poll>>

\* A faulty variant of Abandon: the clone is left behind.
AbandonKeepsClone(from) ==
  /\ loop = from
  /\ loop' = "idle"
  /\ request' = NoExecution
  /\ UNCHANGED <<up, expiring, snapshot, poll, threadVars, hostVars, buffer>>

\* The handler returns an error or raises: `finally` removes the clone.
Abandon(from) ==
  /\ loop = from
  /\ loop' = "idle"
  /\ request' = NoExecution
  /\ cloneDir' \in {cloneDir \ {request}}
                     \cup (IF Fault("rmtree") THEN {cloneDir} ELSE {})
  /\ UNCHANGED <<up, expiring, snapshot, poll, threadVars,
                 container, buffer>>

AcceptScript ==
  /\ Advance("check", "admit")
  /\ UNCHANGED <<contexts, executorVars>>

RejectScript ==
  /\ Fault("bad_script")
  /\ Abandon("check")
  /\ UNCHANGED <<contexts, managerVars>>

\* try_create_execution
AdmitExecution ==
  /\ ~AtCapacity
  /\ Advance("admit", "attest")
  /\ RegisterExecution(request)
  /\ UNCHANGED <<contexts, threadVars, hostVars, buffer>>

RejectAtCapacity ==
  /\ AtCapacity
  /\ Abandon("admit")
  /\ UNCHANGED <<contexts, managerVars>>

AttestExecution ==
  /\ Advance("attest", "store")
  /\ UNCHANGED <<contexts, executorVars>>

\* The error reply leaves the QUEUED record as it is.
AttestationFails ==
  /\ Fault("attest")
  /\ Abandon("attest")
  /\ UNCHANGED <<contexts, managerVars>>

\* A faulty variant of StoreContext: the key is not stored.
StoreContextForgotten ==
  /\ Advance("store", "spawn")
  /\ UNCHANGED <<contexts, executorVars>>

StoreContext ==
  /\ Advance("store", "spawn")
  /\ contexts' = contexts \cup {request}
  /\ UNCHANGED executorVars

\* A faulty variant of HandOff: `finally` still removes the clone.
HandOffStillOwned ==
  /\ Advance("spawn", "respond")
  /\ pc' = [pc EXCEPT ![request] = "lookup"]
  /\ cloneDir' = cloneDir \ {request}
  /\ UNCHANGED <<contexts, held, tracked, exitSeen, stream, consumed, container,
                 managerVars, buffer>>

\* execute_async; from here on the clone belongs to the executor thread.
HandOff ==
  /\ Advance("spawn", "respond")
  /\ pc' = [pc EXCEPT ![request] = "lookup"]
  /\ UNCHANGED <<contexts, held, tracked, exitSeen, stream, consumed, hostVars,
                 managerVars, buffer>>

HandOffFails ==
  /\ Fault("thread_start")
  /\ Abandon("spawn")
  /\ UNCHANGED <<contexts, managerVars>>

\* The encrypted 200 response, or a 500 when its encryption raises: either
\* way the execution is under way.
Respond ==
  /\ loop = "respond"
  /\ loop' = "idle"
  /\ request' = NoExecution
  /\ UNCHANGED <<up, contexts, expiring, snapshot, poll, executorVars>>
-----------------------------------------------------------------------------
\* periodic_cleanup wakes up and cleanup_expired deletes the records ...
SweepRecords ==
  /\ up
  /\ loop = "idle"
  /\ loop' = IF Expired = {} THEN "idle" ELSE "dropContexts"
  /\ expiring' = Expired
  /\ RemoveExpired
  /\ UNCHANGED <<up, request, contexts, snapshot, poll, threadVars,
                 hostVars, buffer>>

\* A faulty variant of DropContexts: the keys are kept.
DropContextsSkipped ==
  /\ Advance("dropContexts", "dropBuffers")
  /\ UNCHANGED <<contexts, executorVars>>

\* ... then their keys ...
DropContexts ==
  /\ Advance("dropContexts", "dropBuffers")
  /\ contexts' = contexts \ expiring
  /\ UNCHANGED executorVars

\* ... then their output.
DropBuffers ==
  /\ loop = "dropBuffers"
  /\ loop' = "idle"
  /\ RemoveOutputs(expiring)
  /\ expiring' = {}
  /\ UNCHANGED <<up, request, contexts, snapshot, poll, threadVars,
                 hostVars, managerVars>>

\* The clock: a record reaches the end of its retention period.
Age(e) ==
  /\ RetentionElapses(e)
  /\ UNCHANGED <<loopVars, threadVars, hostVars, buffer>>
-----------------------------------------------------------------------------
Replied(p, code) ==
  [poll EXCEPT ![p] = [@ EXCEPT !.at = "idle", !.reply = Refusal(code)]]

\* /output up to its await: the key is looked up before the body is read.
BeginPoll(p, e) ==
  /\ up
  /\ loop = "idle"
  /\ poll[p].at = "idle"
  /\ poll[p].exec \in {NoExecution, e}
  /\ Len(poll[p].stdout) + Len(poll[p].stderr) <= MaxText
  /\ poll' = [poll EXCEPT ![p] =
       IF e \in contexts
       THEN [@ EXCEPT !.exec = e, !.at = "body"]
       ELSE [@ EXCEPT !.exec = e, !.reply = Refusal(IF HasRecord(e) THEN 400 ELSE 404)]]
  /\ UNCHANGED <<up, loop, request, contexts, expiring, snapshot,
                 executorVars>>

\* The body is too large, malformed, undecryptable, replayed or invalid.
PollRejected(p) ==
  /\ Fault("bad_poll")
  /\ loop = "idle"
  /\ poll[p].at = "body"
  /\ poll' = Replied(p, 400)
  /\ UNCHANGED <<up, loop, request, contexts, expiring, snapshot,
                 executorVars>>

\* get_execution finds nothing: the record expired while the body arrived.
PollMissesRecord(p) ==
  /\ loop = "idle"
  /\ poll[p].at = "body"
  /\ ~HasRecord(poll[p].exec)
  /\ poll' = Replied(p, 404)
  /\ UNCHANGED <<up, loop, request, contexts, expiring, snapshot,
                 executorVars>>

\* get_execution, then get_output; a missing buffer reads as no output.
PollOutput(p) ==
  /\ loop = "idle"
  /\ poll[p].at = "body"
  /\ HasRecord(poll[p].exec)
  /\ loop' = "poll"
  /\ snapshot' = IF HasBuffer(poll[p].exec)
                 THEN GetOutput(poll[p].exec, poll[p].offset)
                 ELSE NoOutput
  /\ poll' = [poll EXCEPT ![p].at = "status"]
  /\ UNCHANGED <<up, request, contexts, expiring, executorVars>>

\* The response takes the status the record has by now; the client appends
\* what it receives and continues from stdout_offset.
PollStatus(p) ==
  /\ loop = "poll"
  /\ poll[p].at = "status"
  /\ loop' = "idle"
  /\ snapshot' = NoOutput
  /\ poll' = [poll EXCEPT
       ![p].at = "idle",
       ![p].offset = snapshot.stdoutOffset,
       ![p].stdout = @ \o snapshot.stdout,
       ![p].stderr = @ \o snapshot.stderr,
       ![p].reply = [code |-> 200, status |-> status[poll[p].exec],
                     complete |-> snapshot.complete,
                     exitCode |-> snapshot.exitCode]]
  /\ UNCHANGED <<up, request, contexts, expiring, executorVars>>
-----------------------------------------------------------------------------
\* The process ends: memory and threads go, containers and clones stay.
Crash ==
  /\ Fault("crash")
  /\ up
  /\ up' = FALSE
  /\ loop' = "idle"
  /\ request' = NoExecution
  /\ contexts' = {}
  /\ expiring' = {}
  /\ snapshot' = NoOutput
  /\ poll' = [p \in Poller |-> NoPoll]
  /\ ForgetRecords
  /\ RemoveOutputs(Execution)
  /\ pc' = [e \in Execution |-> "idle"]
  /\ held' = {}
  /\ tracked' = {}
  /\ exitSeen' = [e \in Execution |-> NoExit]
  /\ stream' = [e \in Execution |-> [s \in Stream |-> "off"]]
  /\ consumed' = [e \in Execution |-> [s \in Stream |-> 0]]
  /\ UNCHANGED hostVars

\* A faulty variant of Restart: only running containers are listed.
RestartRunningOnly ==
  /\ ~up
  /\ up' = TRUE
  /\ container' = [e \in Execution |->
                     IF container[e].state = "running" THEN NoContainer
                                                      ELSE container[e]]
  /\ UNCHANGED <<loop, request, contexts, expiring, snapshot, poll,
                 threadVars, cloneDir, managerVars, buffer>>

\* main(): cleanup_dangling_containers removes what it can, then the service
\* starts.  A failed removal is logged and startup goes on.
Restart ==
  /\ ~up
  /\ up' = TRUE
  /\ \E kept \in IF Fault("remove") THEN SUBSET Execution ELSE {{}} :
       container' = [e \in Execution |->
                       IF e \in kept THEN container[e] ELSE NoContainer]
  /\ UNCHANGED <<loop, request, contexts, expiring, snapshot, poll,
                 threadVars, cloneDir, managerVars, buffer>>
-----------------------------------------------------------------------------
Execute ==
  \/ \E e \in Execution : CloneRepository(e)
  \/ AcceptScript
  \/ RejectScript
  \/ AdmitExecution
  \/ RejectAtCapacity
  \/ AttestExecution
  \/ AttestationFails
  \/ StoreContext
  \/ HandOff
  \/ HandOffFails
  \/ Respond

Cleanup == SweepRecords \/ DropContexts \/ DropBuffers

Polling(p) ==
  \/ \E e \in Execution : BeginPoll(p, e)
  \/ PollRejected(p)
  \/ PollMissesRecord(p)
  \/ PollOutput(p)
  \/ PollStatus(p)

Executor(e) == ThreadStep(e) /\ UNCHANGED loopVars
Streams(e, s) == StreamStep(e, s) /\ UNCHANGED loopVars
Script(e) == ScriptStep(e) /\ UNCHANGED loopVars

Next ==
  \/ Execute
  \/ Cleanup
  \/ \E p \in Poller : Polling(p)
  \/ \E e \in Execution : Executor(e)
  \/ \E e \in Execution : \E s \in Stream : Streams(e, s)
  \/ \E e \in Execution : Script(e)
  \/ \E e \in Execution : Age(e)
  \/ Crash
  \/ Restart

Spec == Init /\ [][Next]_vars

(***************************************************************************)
(* Threads are scheduled, blocking calls return (each has a timeout), the  *)
(* clock advances, the process is restarted, and the event loop runs every *)
(* block it started.  A sweep must win against handlers that keep finding  *)
(* the loop idle: asyncio runs ready callbacks in the order they became    *)
(* ready, hence strong fairness.  Clients and scripts owe nothing.         *)
(***************************************************************************)
HandlerStep ==
  \/ AcceptScript
  \/ AdmitExecution
  \/ RejectAtCapacity
  \/ AttestExecution
  \/ StoreContext
  \/ HandOff
  \/ Respond
  \/ DropContexts
  \/ DropBuffers
  \/ \E p \in Poller : PollStatus(p)

FairSpec ==
  /\ Spec
  /\ WF_vars(HandlerStep)
  /\ SF_vars(SweepRecords)
  /\ WF_vars(Restart)
  /\ \A e \in Execution : WF_vars(Executor(e)) /\ WF_vars(Age(e))
  /\ \A e \in Execution : \A s \in Stream : WF_vars(Streams(e, s))
=============================================================================
