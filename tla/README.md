# Verification of the GitHub Actions remote executor

TLA+ specifications of the service in `src/src/`, of the machine it runs on, and of
what builds, records, deploys and removes its images; the TLC configurations that
check them on small instances, and TLAPS proofs of their main properties for
every value of the constants. Line numbers refer to the files of the repository;
`PROJECT.json` maps every definition to the lines it stands for.

Contents: [the system](#1-the-system) ·
[modules](#2-modules-and-how-they-follow-the-code) ·
[properties and runs](#3-properties-and-runs) ·
[bounds](#4-bounds) · [fairness](#5-fairness) · [proofs](#6-proofs) ·
[divergences](#7-divergences-from-documents-and-comments) ·
[not modelled](#8-what-is-not-modelled) · [plan](#9-plan) ·
[running](#10-running-it)

## 1. The system

A client (a GitHub Actions workflow) asks `/attest` for the server's public key,
seals a request with it and posts it to `/execute`. The server decrypts it,
authenticates the OIDC token inside, clones the repository, obtains a TPM
attestation, answers with an execution id and runs the script in a Docker
container from a thread. The client polls `/execution/{id}/output`, sealed with
the key the two now share, until the output is complete. All state is in memory;
a restart forgets everything except containers and clone directories on the host.
Machine images for this service are built, recorded in `flavors.lock`, deployed and
cleaned up by scripts and a workflow around it.

| Component | State | Operations | Interacts with |
|---|---|---|---|
| **Execution registry** `execution_manager.py` | `_executions`, counters, lock | `try_create_execution`, `get_execution`, `update_status`, `cleanup_expired`, metrics | called by handlers, executor threads, periodic clean-up; drops keys and output of expired records |
| **Output store** `output_collector.py` | `_buffers`, a lock for the table and one per buffer | `create_buffer`, `capture_output`, `mark_complete`, `get_output`, `remove_output` | written by executor and log-stream threads, read by polls, dropped by the clean-up |
| **Script executor** `script_executor.py` | `_active_containers`, locals of one thread per execution and two log threads per container | `execute_async`, `_execute_in_container`, `_stream_container_logs`, `cleanup_dangling_containers` | Docker daemon, registry, output store, file system |
| **Handlers and periodic clean-up** `server.py` | coroutines of one event loop | `/execute`, `/execution/{id}/output`, `periodic_cleanup` | everything |
| **Per-IP rate limiter** `server.py:162` | timestamps per address | `check_rate_limit`, `cleanup_stale_ips` | middleware, periodic clean-up |
| **Nonce cache** `nonce_cache.py` | nonce → time | `check_and_store` | `/execute` and `/output` |
| **Attestation limiter** `output_attestation_rate_limiter.py` | timestamps per execution | `check_and_record` | `/output` |
| **Request validation** `validation.py` | `_jwks_cache` | token, claims and field checks, `_fetch_jwks`, `_find_signing_key` | `/execute`, the token issuer |
| **Encryption** `encryption.py` | key pair of the process, `_contexts` | `decrypt_request`, store/get/remove of shared keys | handlers, clean-up |
| **Attestation** `attestation.py` | files for the tool, during a call | execution and output attestation documents | `nitro-tpm-attest`, handlers |
| **Repository client** `repository.py` | clone directory, `.git`, credential helper on disk | `clone_repo`, `cleanup_clone`, `validate_script_exists` | git, `/execute` |
| **Start-up** `main.py`, `load_baked_image` | images and containers in Docker outlive the process | checks of TPM, baked image, Docker, GPU; removal of dangling containers; restart by systemd | all |
| **AMI build driver** `scripts/build-ami.py` | state of a remote build instance | two-pass build per flavor, reconnects, install gate | AWS, SSH |
| **Change detection, flavors lock** `detect_changes.py`, the workflow | the branch with `flavors.lock`, the runs in flight | which flavors to build; images, AMIs; merge of results | git, GitHub Actions, build driver |
| **AMI clean-up, deployment** `scripts/cleanup.py`, `deploy.py` | `terraform.tfstate`, `ami_build_result.json`, AWS resources | apply, destroy, deregister, verify | AWS, Terraform, the machine |

What is hard here, and what makes each part correct:

* *Threads against one event loop.* Executor and stream threads run at any point
  of a handler or of the sweep. The stores have locks of their own, and no lock
  covers two of them: the record, the output and the key of an execution must
  still tell one story (`VerdictAgreement`, `StoresAgree`, `KeyBeforeThread`,
  `ReplyConsistent`).
* *Failure on every line.* Each Docker call, thread start and removal can raise,
  with two kinds of exception that the code treats differently; slots, clones
  and containers must be given back on all paths (`NothingLeaked`,
  `EveryExecutionEnds`, `EverythingReclaimed`).
* *Admission.* A limit checked and taken in one step (`ConcurrencyLimit`), and a
  verdict that is never overwritten although `update_status` accepts any
  transition (`VerdictFinal`).
* *Lifetimes that have to fit together.* Token, nonce, key pair and process each
  end at a time of their own; a message must be acted on once (`NoReplay`).
* *Windows.* What a limiter counts is pruned by requests and by the clean-up, and
  must still bound every stretch of time (`RateBound`, `AttestationBound`), while
  refusing nobody without cause (`RefusalsJustified`).
* *Incremental output.* Offsets are lengths in bytes of two streams, cut into
  slices, limited and decoded separately (`CaptureFaithful`, `StdoutReassembled`).
* *Restart.* Containers of a dead process must not outlive the next start-up
  (`Supervised`).
* *A remote host under a two-pass build.* The driver hears of its instance only
  through SSH: a lost connection may mean a dead host or a command that runs on
  beside the next flavor, in the same directory. Flavors must not mix
  (`OwnArtifact`, `GatesHold`, `OnlySigned`), uploads not overlap
  (`UploadsSequential`), results not be lost (`ResultsComplete`, `ResultsFinal`).
* *A lock file that several runs write.* Checkout, merge and push of `flavors.lock` are
  minutes apart, with other runs and developers in between; nothing of anybody may
  be lost (`ImplementsLockRegister`), an entry must be what its commit says
  (`EntriesTraceable`), the run must have built what changed (`MatrixExact`), and
  the concurrency group must not stall (`GroupDrains`).
* *Leftovers.* Docker images of earlier starts, temporary files with a token in them,
  clones, snapshots: each is made by one block of code and removed by another, with
  failures and restarts in between (`ServingIsMeasured`, `FilesConfined`,
  `LeftoversReported`).

## 2. Modules and how they follow the code

Executor service (what happens after a request is accepted):

| Module | Models | Notes |
|---|---|---|
| `Executions` | statuses and exit codes (`models.py`) | "none" and "removed" stand for an id without an entry in `_executions` |
| `ExecutionManager` | the registry | one operator per critical section; `aged` is the set of terminal records past their retention |
| `OutputCollector` | the output store | a byte is a number; characters of two bytes are given by `WideLead`; a decoded fragment is a negative number |
| `ScriptExecutor` | executor thread, stream threads, container, clone directory | `pc[e]` is the program point of `_execute_in_container`; one action per statement that takes a lock, blocks or touches the host |
| `ExecutionService` | event loop, sweep, polls, crash and restart; composes the four above | `loop` is the block of handler code being executed |
| `ExecutionLifecycle` | **abstract specification**: what a client may see of an execution | no threads, locks, stores or failures |
| `ExecutionProperties` | properties, refinement mapping, inductive invariant | |
| `MCExecutionService` | instance for TLC, symmetry of identifiers | |

Admission of requests (what happens before):

| Module | Models | Notes |
|---|---|---|
| `RateLimits` | both sliding windows | a list of timestamps is the set of the calls in it with the time each entered |
| `NonceCache` | the anti-replay cache | |
| `SigningKeys` | the key cache and the issuer | a key set, nothing, or a document without usable keys |
| `RequestAdmission` | composes the three with the handlers, clients, network, clock and restart | a delivery is a `Call`; the network may deliver a sealed message at any time, again and again |
| `AdmissionProperties`, `MCRequestAdmission` | properties; instance for TLC | |

Building machine images (`scripts/build-ami.py`):

| Module | Models | Notes |
|---|---|---|
| `BuildDriver` | `main` and `run_build_driver`, the instance, commands that run on without their channel, EBS and EC2 as the driver sees them | `step` is the remote command under way; an artifact is one of the six kinds the gates tell apart (`Kind`) |
| `BuildProperties`, `MCBuildDriver` | properties; instance for TLC | |

Recording machine images (`.github/`):

| Module | Models | Notes |
|---|---|---|
| `ChangeDetection` | `compute_matrix` of `detect_changes.py` | a pure function; a path counts by its class |
| `ImagePipeline` | the workflow `build-attestable-image.yml` on its branch: several runs, their jobs, developers' pushes, the concurrency group, re-runs | the inputs of a flavor are known by the commit that changed them last, a container image by the inputs it was built from |
| `LockRegister` | **abstract specification**: `flavors.lock` as a register that results are merged into atomically | no runs, checkouts or refused pushes |
| `PipelineProperties`, `MCImagePipeline` | properties, refinement mapping; instance for TLC | |

Deployment and the machine:

| Module | Models | Notes |
|---|---|---|
| `Deployment` | `deploy.py` and `cleanup.py`, one at a time and in any order, with Terraform and EC2 as they use them | an image stands for its AMI, its snapshot and its region |
| `Host` | a machine: the stages of `main`, `load_baked_image`, Docker, restarts | a manifest stands for its bytes, hence for its digest; its image ID is another value |
| `RequestFiles` | the temporary files of `/execute`, `/output` and `/attest`: `clone_repo`, `cleanup_clone`, both functions of `attestation.py`, the handler's own clean-up | `disk` is a set of kinds of file with the request they belong to |
| `AttestedDeployment` | composes them: the machine comes, changes and goes with what Terraform does | |
| `DeploymentProperties`, `MCAttestedDeployment` | properties; instance for TLC | |

Correspondence that is not obvious:

* **Atomicity.** All handlers are coroutines of one event loop and await only the
  request body. `/execute` does so before it touches the stores; from then on it
  excludes other handlers and the sweep, *not* the threads, so its statements are
  separate actions guarded by `loop`. `/output` looks its key up before the await
  and does the rest after it (`BeginPoll`, then `PollOutput`/`PollStatus`): the
  execution may expire in between. In `RequestAdmission` the handler that keeps
  the loop is `busy`, and time and the issuer move on meanwhile, because fetching
  keys blocks for up to 10 seconds.
* **`Arrive`** is the middleware and the first statements of the handler, up to
  the await. It decides the limit, and for `/output` whether there is a key.
* **Identifiers.** In `RequestAdmission` the execution an `/execute` message
  starts is identified with the message.
* **Failures** are enabled one by one by the constant `Faults`; each is an action
  or disjunct that follows the `except` clause it lands in. `stop`/`remove` are
  the `APIError`s, `stop_transport`/`remove_transport` everything else.
* **Lost replies.** A call that raises may have taken effect: `StartContainerFails` leaves
  the container as it was or running, the `stop_transport` of `StopFails` running or
  stopped. A script whose start was answered by an error runs without log streams,
  while its thread completes the output with -1, records `FAILED` and removes the
  container.
* **Timeouts.** `WaitRaises` is enabled at any time: the code treats any exception
  of `container.wait` as the timeout. A join ends when the stream threads have
  ended, or after its five seconds: always while the script still runs, otherwise
  only with the fault `join_timeout`.
* **`Lag`** is the time between the check of `exp` and the check of the nonce, with
  nothing awaited in between: less than a second.
* **Restart** in `RequestAdmission` starts a process with a new key pair, empty
  caches and windows; calls under way are lost, sealed messages are not.
* **Abandoned commands.** In `BuildDriver` a command whose link was lost, or whose wall
  clock ran out, was not started, did its work unheard, or runs on (`Unheard`). The
  driver takes that for a transport failure (`Interrupted`) or, because a transport
  that ends sets the exit status of its channels to -1 before it is inactive and the
  loop asks for the exit status first (`build-ami.py:377`), for a command that failed
  (`ApplicationFails`); then the next command finds the link dead. What runs on is in
  `abandoned` and may still act (`StrayActs`, file by file for a download) until it
  ends; `kill_stale_coldsnap` reaches uploads only. `exec_command` gives them no
  terminal, so nothing stops them by itself. `ranOn` keeps what was ever left running.
* **One tree.** The artifacts directory, the names of the image and the measurements
  in it (KIWI names the image after the appliance, not the flavor) and
  `attestation_result.json` in the home directory are shared by all flavors;
  `tree` and `attestation` record whose content is there.
* **One branch, append only.** `main` of `ImagePipeline` is the sequence of commits; a
  write-back is built on the commit it checked out (`view`) and git takes it only if
  that is still the head. `Joins` and `Leaves` are GitHub's concurrency group: one
  run writes, one waits, and a newer one displaces the one that waits
  (`cancel-in-progress: false` spares only the run in progress).
* **Two lock files.** An AMI-only rebuild reads the image from the lock of the commit
  the run was triggered for; the write-back merges into the lock at the head.
* **Failure with a part done.** Where a call can fail half-way (`git clone`, `mkstemp`
  and the write after it, `terraform apply` and `destroy`, `DeleteAssociatedSnapshots`)
  the action leaves either part; a replacement that fails may leave the old machine, the
  new one or neither. `clean` of a task records whether every removal so
  far succeeded.
* **The region.** `deploy.py` passes the image's region to Terraform, `cleanup.py` none
  (81-91), so Terraform uses the default of `terraform/deploy/variables.tf:25`.
  Refreshing its state in a region where the instance is not found drops the
  instance from the state (`Forgotten`); a machine lost so is not followed further.
* **Blocking calls.** `clone_repo` and the calls of `nitro-tpm-attest` block the event
  loop, so one request at a time makes files: `task`.
* Operators named `…OffByOne`, `…Forgotten` and the like, marked "A faulty variant
  of", are plausible bugs. They are used by no action; replacing the operator
  they vary by one of them must violate a property (`mutants` in `PROJECT.json`).

## 3. Properties and runs

Every property of a passing run is violated by its mutant. The sources of the
risk are listed under `hazards` in `PROJECT.json`.

| Run | Instance | Properties | What it shows |
|---|---|---|---|
| `lifecycle` | 3 requests, 2 slots, failures of script, attestation, threads, start and stop; the process ends at any step and restarts | `TypeOK`, `ConcurrencyLimit`, `MetricsLaw`, `WorkspaceInUse`, `Supervised`, `NothingLeaked`, `VerdictAgreement`, `KeyBeforeThread`, `StoresAgree`, `VerdictFinal`, `ImplementsLifecycle` | The limit holds while slots are freed and taken again; every execution is counted once; a live container keeps its clone; the step that ends an execution leaves nothing of it on the host; no container is without a thread while the service is up; record, output and key stay consistent and a verdict is written once, whatever raises where; all of it implements `ExecutionLifecycle`. The faults that make a removal itself fail are off: with them a leak is unavoidable (`polling` has them). |
| `polling` | one execution writing on both streams up to one byte beyond the limit, one client | `OutputBound`, `CaptureFaithful`, `OutputFinal`, `ReplyConsistent`, `StdoutReassembled`, `PollsMonotone` | The buffer is a faithful, bounded, final capture; replies are consistent, never go back and reassemble standard output, but for the two bytes of a character that a poll cut in two. |
| `liveness` | 2 requests for one slot | `EveryExecutionEnds`, `EverythingReclaimed` | Every accepted execution gets a verdict; clone, key and output are given back. |
| `admission` | 2 deliveries of 2 messages, of the same one or of both; issuer rotates or is down; 2 processes | `NoReplay`, `CurrentKeyAccepted` | No message is acted upon twice; no token signed with a published key is refused for want of the key. |
| `limits` | 3 deliveries of requests and polls, 2 addresses, windows of 2 and 3 ticks | `RateBound`, `NonceOnce`, `AttestationBound`, `RefusalsJustified`, `StaleAddressesGo` | The limits hold in every stretch of a window, not only in those the code looks at; no refusal lacks a cause; idle addresses are forgotten. |
| `build` | 3 flavors, the second of every kind of artifact; links lost under a command, stray commands, a host that may die, calls that fail | `OnlySigned`, `OwnArtifact`, `GatesHold`, `ResultsComplete`, `UploadsSequential`, `ResultsFinal`, `DriverEnds` | Nothing unsigned becomes a snapshot, whatever an abandoned download brings; image, measurements and gates are a flavor's own but for a pull or a verification of an earlier flavor that was left running; every flavor gets one final result, and what was captured goes through pass 2 although the host died; the driver ends. |
| `pipeline` | 3 runs of the workflow, 2 flavors: one run triggered by 8 kinds of push or in every way by hand, one by a push to an environment, one by hand for that flavor; jobs that fail, pushes that are refused, re-runs | `MatrixExact`, `EntriesTraceable`, `ImplementsLockRegister`, `GroupDrains` | A push rebuilds what differs from the commit before, at the right level, and nothing else; every entry of the lock, in every commit, leads to the environment and image it was built from; a write-back spread over three steps is one atomic merge at the head; whoever joins the concurrency group leaves it, displaced while it waits or handed on. |
| `deployment` | 2 images, one outside the default region; 3 baked roots; scripts with every failure; a machine that restarts at any step, one request | `ServingIsMeasured`, `FilesConfined`, `LeftoversReported` | A machine serves only with the image its own root expects, whatever Docker still holds; helper, `.git`, attestation files and clone are gone when they are no longer needed, on every path but a failed removal or a death; a confirmed clean-up that exits with 0 has removed the image and listed the snapshot that remains. |
| `slot_reuse`, `attestation_slot`, `stale_keys`, `stale_pull` | smallest instance that shows it | one each | Counterexamples, see section 7. |

Preconditions a property needs (a removal that succeeds, a stream that does not
break) are expressed by the faults the run leaves out and are named in the
property's comment. They are weak points of the environment, not of the model: the
actions exist, and other runs fire them.

`VerdictAgreement` demands less of a *reply* than of the stores: a poll reads the
output first and the status later, so a reply may carry a terminal status with
`complete` false. `ReplyConsistent` states what does hold, `PollsMonotone` that the
client sees the rest on the next poll.

## 4. Bounds

| Bound | Value | Why it is enough |
|---|---|---|
| executions | 3 with two slots, 2 elsewhere, 1 where bytes are modelled | the limit must be reached and exceeded by one; two executions suffice for interference, since threads share only the stores |
| `MaxOutput`, `MaxEmit` | 3, 2 per stream | four bytes against three: one chunk is cut, one is dropped, either stream may be the one that fills the buffer |
| `MaxText` | 3 | a client stops polling with more characters; the counterexamples need two or three |
| `Call` | 2 or 3 | a replay needs two; a limit of 2 is exceeded by the third |
| windows, lifetimes | 1 to 3 ticks, `MaxClock` 2 or 3 | each window opens, is exactly as old as its length, and closes; `TokenLifetime + Lag = NonceTTL`, the tightest the assumption admits |
| characters | one two-byte character (`WideLead = {1}`) | a limit or a poll can cut it in two |
| flavors of a build | 3, the second of six kinds, the others in order (`CasesInit`) | interference is between a flavor and an earlier one; a link that was lost unnoticed is found dead one flavor later, so what was left running meets an AMI of the flavor after that |
| `Tools`, attempts | 2 | one retry and one failure after the last attempt, one step after another |
| `MaxEpoch`, `MaxKey` | 2 | one restart, one rotation |
| runs of the workflow | 3 | one writes, one waits and is displaced by the third; triggers are free for one run and fixed for two (`GroupNext`), since what a run rebuilds is decided by its own trigger |
| `Changes` | 8 sets of paths | each class of path alone or beside the one that overrides it: the lock with an image, an environment with its image, two flavors at two levels, a global file |
| images, regions, roots | 2, 2, 3 | one image replaced by another, in the region `cleanup.py` looks in and in one it does not; a root as it should be, one with another's manifest, one whose manifest names no configuration |
| requests on a machine | 1 | files of different requests do not meet; the proofs hold for any number |
| `MaxProbes` | 1 | a probe that could not be removed, and a start after it |

`CHECK_DEADLOCK FALSE` stands in the configurations of `RequestAdmission`, whose calls
and clock are bounded (a server without requests is at rest), and of `BuildDriver`,
which comes to an end, and of `ImagePipeline`, whose runs are finite. The executor
service and the deployment are checked for deadlock.

## 5. Fairness

`ExecutionService!FairSpec`: weak fairness of each executor and stream thread (the
operating system schedules threads, and every blocking call has a timeout), of
the statements of a handler that has begun (an event loop runs a coroutine to its
next await), of the ageing of a record (time) and of a restart (the service
manager); strong fairness of the sweep, which other handlers may delay again and
again but, as asyncio runs ready callbacks in order, not for ever. Failures,
requests, clients, and the script itself have none: a script that never ends is
ended by the timeout.

`RequestAdmission!FairSpec`: the handler that keeps the loop goes on, and the
clean-up gets its turn (strong, as above). Nothing is assumed of clients, the
network, the issuer or even the clock.

`BuildDriver!FairSpec` (and `CasesSpec` of its instance): weak fairness of the driver
alone. `execute_remote_command` returns with the command, with the transport (keepalive) or with the wall clock
(377-405), and connection attempts and API waits are bounded. The wall clock is looked
at on silent polls only (382-397): a command that writes without a pause for ever would
not be ended by it, and is taken not to exist. Nothing is assumed of
the instance or of abandoned commands: an abandoned download may last for ever.

`ImagePipeline!FairSpec` (and `GroupSpec` of its instance): weak fairness of the jobs of each run: a job ends by itself,
fails or exceeds GitHub's time limit. Nothing is assumed of developers, of manual
triggers or of whoever re-runs a job. No liveness is claimed of `AttestedDeployment`:
its scripts are run by an operator, and a start that fails may fail for ever.

## 6. Proofs

Checked by TLAPS, for any values of the constants that satisfy the named assumptions in
the modules: any finite set of executions or calls, any limits, manifests, flavors,
runs, pushes, images, roots and requests.

| Module | Theorem | Claim |
|---|---|---|
| `ExecutionServiceProofs` | `TypeCorrect` | `TypeOK` |
| `ExecutionSafetyProofs` | `Phases` | where thread and handler stand decides the status of the record |
| | `LimitHolds`, `MetricsHold`, `VerdictsAreFinal` | `ConcurrencyLimit`, `MetricsLaw`, `VerdictFinal` |
| | `ThreadsAdvance` | each step of a thread lowers `Ahead`; nobody else moves it but a crash |
| `ExecutionStoreProofs` | `StoresStayTogether`, `KeysAreThere` | `StoresAgree`, `KeyBeforeThread` |
| | `WorkspaceIsKept`, `OutputIsBounded` | `WorkspaceInUse`, `OutputBound` |
| | `ContainersAreSupervised`, `NothingIsLeaked` | `Supervised`, `NothingLeaked`, without the faults `Obliging` excludes |
| | `ContainerIsSupervised`, `NothingOfOneIsLeaked` | the same for one execution, without its own steps `Disobeys` |
| | `RunningContainersAreLimited` | `RunningContainersLimit`, without steps `Escapes` |
| | `QueuedRecordsAreOwned` | `QueuedHasOwner`, without steps `AttestationFails`, `HandOffFails` |
| `ExecutionRefinementProofs` | `VerdictsAgree` | `VerdictAgreement` |
| | `ServiceImplementsLifecycle` | `ImplementsLifecycle`: every step is a step of `ExecutionLifecycle` or a stutter |
| | `RepliesAreConsistent`, `PollsAreMonotone`, `StdoutIsReassembled` | `ReplyConsistent`, `PollsMonotone`, `StdoutReassembled` |
| | `OutputsAreFinal` | `OutputFinal`, without the faults `Orderly` excludes |
| | `OutputOfOneIsFinal` | the same for one execution, without its own steps `Strays` |
| | `CaptureIsInOrder` | what a buffer holds is a prefix of what was written, whatever fails |
| | `CaptureOfOneIsWhole` | a complete output is whole, without its own steps `Strays`, `Breaks` |
| | `CaptureIsFaithful` | `CaptureFaithful`, without the faults `Unbroken` excludes |
| `AdmissionProofs` | `AdmissionTypeCorrect` | `AdmissionTypeOK` |
| | `MessagesAreNotReplayed`, `NoncesAreUsedOnce`, `RateLimitHolds` | `NoReplay`, `NonceOnce`, `RateBound` |
| | `AttestationLimitHolds`, `RefusalsAreJustified` | `AttestationBound`, `RefusalsJustified` |
| | `KeyRefusalsAreExplained` | a published key is missed only over a cached answer without keys |
| | `CurrentKeysAreAccepted` | `CurrentKeyAccepted`, without the fault `keyless` |
| `BuildProofs` | `BuildTypeCorrect`, `SnapshotsAreSigned` | `BuildTypeOK`, `OnlySigned` |
| | `ResultsAreComplete`, `ResultsAreFinal` | `ResultsComplete`, `ResultsFinal` |
| | `UploadsAreSequential` | `UploadsSequential` |
| | `ArtifactsAreOwn`, `GatesAreHeld` | `OwnArtifact`, `GatesHold` |
| | `TreesAreOwn` | `BuildsFromOwnTree`, while no pull runs on unwatched |
| | `IdentitiesAreOwn` | no AMI of a foreign artifact, while no verification runs on unwatched |
| | `DriverAdvances` | each step of the driver lowers four naturals; the instance changes none |
| `PipelineProofs` | `PipelineTypeCorrect` | `PipelineTypeOK` |
| | `DetectionIsExact`, `EntriesAreTraceable` | `MatrixExact`, `EntriesTraceable` |
| | `WriteBackIsAtomic` | `ImplementsLockRegister`: every step is a step of `LockRegister` or a stutter |
| `DeploymentProofs` | `DeploymentTypeCorrect` | `DeploymentTypeOK` |
| | `MachinesAreMeasured`, `FilesAreConfined`, `LeftoversAreReported` | `ServingIsMeasured`, `FilesConfined`, `LeftoversReported` |

The type invariants `AdmissionTypeOK`, `BuildTypeOK`, `PipelineTypeOK` and `DeploymentTypeOK` are in no
configuration: the theorems show them for every instance.

*Executor service.* None of the properties is inductive alone. That a verdict is
final, for instance, depends on no thread calling `update_status` on a terminal
record, hence on where each thread stands. The strengthening is `IndInv` in
`ExecutionProperties`: `ThreadPhase` (program point → status), `HandlerPhase`,
`SweepPhase` (what the sweep has dropped so far), `BufferPhase` (what the buffer
holds at each point), with the properties themselves. A lemma reduces the 22
actions of a thread to one shape (`Moves`): from an allowed point and status to
another. The counts rest on the library's theorems on finite sets. The refinement
maps a record's status to `phase` and the exit code of a complete buffer to
`answer`; marking the buffer maps to `Publish`, `update_status` to `Begin` or
`Conclude`, the two halves of a sweep to `Expire` and `Forget`, a crash to `Reset`.

*What an execution has on the host.* `HostInv`: the point a thread has reached decides
whether it holds a container and a clone; the clone goes after the container, so
`WorkspaceInUse` needs no assumption, not even that the process stays alive. `Tidy`
adds that nothing is left behind, which a refused removal breaks: hence `Obliging`.

*Assumptions on steps.* `Obliging`, `Orderly` and `Unbroken` speak of the whole service:
a fault never happens to anybody. Stronger theorems exclude steps of one execution
only. `Disobeys(e)` is a creation of e's container that failed half-way, a removal of
e's container or clone that failed, or a restart that did not remove e's container; a
behaviour without such steps keeps `Tidy(e)`, whatever happens to the other executions.
`Strays(e)` is a stop of e or a start of its streams that failed, or a join of e
that gave up; `Breaks(e)` a log stream of e that ended early. A start of the container
that failed is not among them: whether or not it took effect, no stream follows the
script, and its output carries -1 (`CaptureFaithful`, `Drained`). The invariants `Quiet(e)`
and `Drained(e)` need no more than that of e, since neither threads nor streams of
another execution reach e's container or buffer. That what is captured is in order
needs no assumption at all (`CaptureIsInOrder`).

*Promises that do not hold.* For the documented properties with a counterexample
(section 7) the theorems say that the counterexample shows the only cause. At most
`max_concurrent_executions` containers run unless one escapes: its start
was answered by an error but took effect, its streams did not start, its stop failed, or
a restart left it running (`RunningContainersAreLimited`;
`Watched` ties a running container to a thread whose record is `RUNNING`). A queued
record has a handler or a thread unless an attestation or the start of a thread failed
(`QueuedRecordsAreOwned`). Between an issuer that answers, a published key and its
token stands nothing but a cached answer without keys (`KeyRefusalsAreExplained`).
Every AMI holds its own flavor's image and measurements unless an `oras pull` runs on
behind a lost link (`TreesAreOwn`): a stray wipe, verification or upload brings
nothing foreign into the tree.

*Output and polls.* `Whole` and `Unanswered`: an answer is published once, in one step
of the store. `Polls`: what a poll has shown still holds of the stores as long as
the record is there, and the record cannot go between the two reads of a reply
(`Asked`); `ReplyConsistent` and `PollsMonotone` follow. `TextFits` says a buffer
holds, in order, exactly the bytes its stream threads have taken, unless it is
full; `Reassembled`, that a client has the text up to its offset. Both are about
positions, not about sequences as a whole, and need no induction over data.
`Quiet`, for `OutputFinal`: an open stream means its thread has yet to join it.
`Drained`, for `CaptureFaithful`: a stream ends with everything its container wrote, and
an output is complete with all streams at their end, or with -1 and no stream.
The faults that `Orderly` and `Unbroken` exclude are the ones with which these two
properties fail (section 7).

*Admission.* A message is not acted upon twice because three things hold together:
it is opened only by the process it is sealed for (`Acceptance`, `Positions`); that
process remembers an accepted nonce for `NonceTTL` (`Remembered`); and by then its
token has expired (`TokenFresh`, with the assumption
`TokenLifetime + Lag <= NonceTTL`, which is what "matching OIDC token lifetime" in
`nonce_cache.py:15` and `request-encryption/spec.md:121` asks of the operator; the
default of 300 seconds, `README.md:109`, is right only for tokens that live no
longer). `RateBound` speaks of every stretch of time, the code only of the one that
ends now: `Counted` says the list holds every recent request, and a window that
ends earlier has not changed since it was the present one. `AttestationBound` is
proved along the same lines (`Recorded`). `RefusalsJustified` is the converse and
needs the converse invariants: a list holds only requests that were let through
(`Entered`) or attested (`Granted`), the cache only nonces that were accepted, with
the time they were (`Traced`). `CurrentKeyAccepted` fails once the issuer has
answered without keys (`stale_keys`); without such an answer `Keyed` holds, and the
second attempt looks at what is published now.

*Build driver.* `OnlySigned` is about snapshots, but it is decided much earlier: an
unsigned image must never reach the shared directory, because nothing after the
download asks again, and a download that was left running may write at any time
later. `Clean` says so: the image in the tree, the snapshots and every abandoned
download are signed, and so is the current flavor from the end of its verification
on. The proof would fail if the download came before the verification, as the
specification has it (`ami-build/spec.md:336`). `Places` bounds the indices and ties
the upload under way to its snapshot. Three more invariants stand on these. `Ledger`:
which flavors have a result at each point; before pass 2 a flavor is `pass1-ok`
exactly if it was captured, in pass 2 the captured ones are settled up to `idx`.
`Uploads`: an upload runs under the driver's eyes or was abandoned, and an abandoned
one is gone before the next flavor, unless its kill was lost. `Own`: what can be
in the tree, in the attestation or in a snapshot comes from the flavor itself or
from a pull (a verification) of an earlier one that was left running; this needs that a
failure is final, for only a flavor that failed, in either way, has a command left
running. `OwnTree` and `OwnIdentity` are sharper, for
behaviours without a stray pull or a stray verification: the tree and the
attestation are the flavor's own from its wipe, or its verification, on.

*Progress.* Fairness is out of reach, but what a fair scheduler has to be fair *to* is
proved. A thread has at most 16 steps in it, and nobody puts it back
(`ThreadsAdvance`). The driver lowers, in lexicographic order, the stages left, the
items of the stage (tools, flavors, captured snapshots), the commands of the item and
the attempts, all of them naturals (`DriverAdvances`, with the invariant `Bounded`), so
that no mixture of retries, drops and reconnects goes on for ever. `EveryExecutionEnds`
and `DriverEnds` add that such steps are taken as long as there are any.

*Image pipeline.* `Traceable` follows an entry to a commit, but a step only copies results
into it; so the invariant ties each run to the commit it checked out. `Sourced`:
what a run holds as digest is an image of its commit or the one that commit's lock
records. `Registered`: its results are made of that, and exist only from `build-ami`
on. `Dated`: no input of a commit is younger than the commit, which is why a push
differs from the commit before exactly where it touched something. The branch is
append-only (`Grown`), so what holds of a commit keeps holding; that needs the
write-back to be on top of the head, and is where `FastForward` enters. For the
refinement, `WriteBack` is a `Merge` of an offer that was made before, and everything
a run does short of it is an `Offer` or a stutter.

*Deployment.* `MachineInv` says what each stage of `main` has established: from `load` on
the derived image ID is that of the expected manifest, from `gpu` on the bound image
is it and is in Docker, whatever else an earlier start left there. It also ties the
machine to Terraform's state, because a machine can be replaced at any stage.
`FilesInv` adds to `FilesConfined` that a request at work has no outcome yet.
`CleanupInv` says what `cleanup.py` has brought about at each of its steps: what
`LeftoversReported` says of its last step was decided several steps earlier.

*Only model-checked:* the liveness properties `EveryExecutionEnds`,
`EverythingReclaimed`, `StaleAddressesGo`, `DriverEnds` and `GroupDrains`, since fairness is
outside this prover's reach (for the first and the fourth see *Progress*). Every other property of a passing run is a theorem.

## 7. Divergences from documents and comments

Each has a run whose counterexample is the evidence.

1. `slot_reuse`: the verdict frees the slot before the container is removed
   (`script_executor.py:393`, `431`), and when `container.stop` fails the script is
   still running, so more containers than the limit run (`remote-executor/spec.md:174`). So does one
   whose start was answered by an error but took effect, until it is removed.
   `RunningContainersAreLimited` names the steps that make it possible.
2. `attestation_slot`: a failed attestation leaves a `QUEUED` record for ever
   (`server.py:866`); it counts against the limit and is never swept. The
   specification says an attestation error is recorded (`remote-executor/spec.md:99`).
   Together with a thread that does not start it is the only way
   (`QueuedRecordsAreOwned`).
3. `stale_keys`: a 200 answer of the issuer without usable keys is cached
   (`validation.py:83`), and `PyJWKSet.from_dict` raises outside the `try` (344) on
   the first attempt of every later request, before the refresh that
   `validation.py:337` promises. Only a restart helps (`KeyRefusalsAreExplained`).
4. `stale_pull`: after a reconnect `build-ami.py` kills `coldsnap` only (1526, 1702). An
   `oras pull` left running without its connection can write its files, which have the
   same names for every flavor, after the next flavor's wipe; that flavor's AMI then
   holds the image or the measurements of the one before. `ami-build/spec.md:336` has
   every flavor build "from a known-empty tree", and line 379 has resuming "clean for
   the instance-local and in-process state". Both artifacts are signed
   (`SnapshotsAreSigned`); what is wrong is which of them an AMI holds. Without a stray
   pull nothing is (`TreesAreOwn`).

Read in the code, and visible in the model's actions, without a run of their own:

* An error of a log stream ends its thread, and the output that follows is lost
  without a mark (`script_executor.py:466`); `remote-executor/spec.md:132` says it
  logs a warning and continues. This is why `CaptureFaithful` is checked without
  `stream_error`.
* A transport error while a timed-out container is stopped reaches the outer
  handler, which records `FAILED` rather than a timeout (`script_executor.py:381`;
  `remote-executor/spec.md:113`).
* One `offset` slices both streams (`output_collector.py:130`), while `README.md:527` has
  the client pass "the `stdout_offset` / `stderr_offset`": with one of them the other
  stream misses or repeats output. This is why `StdoutReassembled` speaks of one stream.
* Each slice of output is decoded on its own with `errors='replace'`
  (`output_collector.py:133`), so a character that a poll cuts in two is never
  delivered as it was written. This is why `StdoutReassembled` excepts its bytes.
* A start that raises although it took effect leaves a script running whose output is
  complete and whose record is `FAILED`; what it writes until it is removed is captured
  nowhere (`script_executor.py:350`, `419-429`). `CaptureFaithful` asks for the exit code
  -1 then.
* A removal that raises anything but `APIError` leaves the `finally` before the clone is
  removed (`script_executor.py:437-441`), and nothing removes it later. This is why
  `NothingLeaked` and `EverythingReclaimed` are checked without `remove_transport`.
* If `container.stop` fails, or a join times out, output may be appended after the
  output was marked complete (`script_executor.py:385`, `402`). This is why
  `OutputFinal` and `CaptureFaithful` are checked without those faults.
* `remote-executor/spec.md:136` has `/output` return the stored attestation document;
  the handler returns the output attestation only (`server.py:1144-1204`).
* `_records` of the attestation limiter is never pruned for expired executions, and
  cached signing keys that the issuer withdraws stay trusted until a miss.
* `ami-build/spec.md:336` lists wipe, pull, verify; the code verifies before it pulls
  (`build-ami.py:1602-1616`), and `OnlySigned` rests on that order.
* `attestation_result.json` lies outside the wiped directory, so an abandoned
  verification can replace the result the next flavor's identity check reads.
* `execute_remote_command` "Raises TransportError: If the SSH transport dies during the
  command" (`build-ami.py:332`), and an application error means "host healthy"
  (1661-1662). A transport that ends first makes its channels ready with the exit code
  -1, so the loop (377) ends without asking `is_active()` and the flavor is
  `failed-application`: no reconnect and no kill before the next flavor, whose first
  command finds the link dead. `ApplicationFails` has both cases, and the promises above
  are stated for either.
* With `--allow-debug` a debug check whose link was lost so counts as passed
  (`build-ami.py:982`), and the next command raises: in the model the loss is met there.
* A PCR value that is no string raises `TypeError` in `re.match` (`build-ami.py:1088`),
  which ends the whole run and loses what was captured (`MeasurementsRaise`).
* "Queued runs proceed in order rather than being cancelled" (comment of the workflow,
  610): GitHub keeps one pending run per concurrency group and cancels it for a
  newer one, whatever `cancel-in-progress` says. The write-back of the run that was
  displaced is lost until somebody re-runs it (`Joins`, `Rerun`).
* Write-backs are in the order the runs get there, so an older run that ends later
  puts an older entry over a newer one; and a refused push (a developer was faster)
  is not retried and loses the run's entries (`PushRejected`).
* A flavor whose build failed is not rebuilt by the next push, which looks at the commit
  before it only. A `build-ami` job that fails after it registered AMIs, for instance
  in `terraform destroy`, leaves them out of the lock (`BuildAmiFails`).
* After an AMI-only rebuild the image of an entry is not the one its
  `producing_commit` would build (`execution-build-images/spec.md:222`, `243`): it was
  built from an earlier commit. `Traceable` says what does hold. Which image that is depends on the lock at the
  triggering commit (workflow, 149), not on the one the entry is merged into: a run that
  replaced the image in between is undone by it. `EntriesTraceable` admits this.
* `git diff --name-only` lists a moved file under its new name only (workflow, 64), so a
  file that is moved out of a flavor does not rebuild it, contrary to "anything else
  under `flavors/<flavor>/`". `MatrixExact` is checked for pushes that move none.
* `cleanup.py` exits with 0 and "All resources have been removed" (390) while a snapshot
  it listed remains, a check failed, or an instance in another region lives on, since
  `destroy` is given no region. Instances are looked for by a tag `Purpose` that
  nothing sets, so none is ever listed. A second run stops at "AMI not found"
  (147-149) and does not touch the snapshot that was left. This is why
  `LeftoversReported` asks for a report, and of the state file rather than of machines.
* A credential helper that cannot be made executable, or a failure before that, is
  outside the `try` of `clone_repo` (`repository.py:137`): the directory and perhaps
  the helper stay (`CreateHelperFails`).
* A GPU probe whose removal fails ends the start (`main.py:211`), and no later start
  looks for it: every restart can leave another.
* A flavor recorded as `failed-pass2` may have an AMI: its result file is written, or
  the reply of the registration lost, after the registration.

## 8. What is not modelled

* Cryptography, the contents of attestation documents and their claims, log
  formatting, error texts, the layout of responses, durations in metrics.
* Parsing of the configuration: its outcome is that a start goes on or ends.
* `/health`, and of `/attest` everything but its files: they pass the rate limiter like
  any request and change nothing else.
* Code without callers in `src/src`: `create_execution`, `terminate`,
  `validate_oidc_token`.
* The claim and field checks of `/execute` are one outcome, `bad_claim` or `late`;
  they are pure functions of the request. So is `validate_script_exists`.
* Clocks that are set back: both limiters read `time.time()`.
* Of the build driver: the checks of its arguments, what each installation step does
  (each succeeds, is retried or fails), tags and names, the removal of the key file.
* Of the pipeline: the `develop` branch, whose runs register no AMI and write nothing
  back; pushes that move files between flavors; the steps that shape summaries.
* Of the deployment: debug access, the network around the instance, scripts that are
  killed, machines that Terraform lost. EC2 is taken to be consistent: a check made
  after a call sees its effect, or fails.
* `merge_env.py`, `validate_env.py`, `print_config.py` and the KIWI build: text processing
  and provisioning without interacting state.

`PROJECT.json` gives the status of every component.

## 9. Plan

1. **Done.** Executor service with its abstract lifecycle; admission of requests; the AMI
   build driver; the image pipeline with its abstract register; deployment, start of
   the machine and the files of requests; their proofs.
2. **Model more of the system.** `AttestationClaims`: one envelope for both kinds of
   document, and what its digest binds. Files that move between flavors, once the
   divergence is settled.
3. **Prove more.** Progress measures for `EverythingReclaimed`, `StaleAddressesGo` and
   `GroupDrains`, as `ThreadsAdvance` and `DriverAdvances` are for the other two; for
   `LeftoversReported` and `FilesConfined` theorems of one resource, under the failures of
   that resource alone.

## 10. Running it

    tlc -workers 2 -config lifecycle.cfg MCExecutionService
    tlc -workers 2 -config admission.cfg MCRequestAdmission
    tlapm AdmissionProofs.tla

`lifecycle`, `polling`, `liveness`, `slot_reuse` and `attestation_slot` use
`MCExecutionService`; `admission`, `limits` and `stale_keys` use `MCRequestAdmission`;
`build` and `stale_pull` use `MCBuildDriver`; `pipeline` uses `MCImagePipeline` and
`deployment` `MCAttestedDeployment`.
