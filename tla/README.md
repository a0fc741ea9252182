# Qnector: specifications, model checks and proofs

Qnector is a desktop agent that gives a remote assistant (over MCP) access to
the files, shells and long-running commands of one machine. This directory
holds TLA+ specifications of the parts of it whose correctness depends on the
order in which processes, handlers and failures come; the TLC configurations
that check them on small instances; and theorems, proved with TLAPS, that hold
for every value of the constants. Paths below are relative to the repository
root; `execution/` is short for `packages/execution/src/`, `core/` for
`packages/core/src/`, `transports/` for
`packages/transports/src/`, `relay/` for `apps/relay/src/`.

Contents: [what is here](#what-is-here), [inventory](#inventory),
[the durable execution core](#the-durable-execution-core),
[the output spool](#the-output-spool),
[the resource coordinator](#the-resource-coordinator),
[the workflow manager](#the-workflow-manager),
[persistent shells](#persistent-shells), [the relay](#the-relay),
[transports](#transports), [runs](#runs), [findings](#findings),
[proofs](#proofs), [not modelled](#not-modelled), [plan](#plan),
[how to run](#how-to-run).

## What is here

| Module | What it is |
| --- | --- |
| `DurableTask` | what the durable runtime promises of a task, without machinery |
| `DurableExecution` | store, daemon, workers, commands, and the failures of each |
| `DurableInvariant` | its inductive invariant `IInv` |
| `DurableProofs` | `TypeOK` and `IInv` hold, and the safety invariants that follow; then what one step may do to store and commands, the action property, the bound on workers, and that `DurableExecution` implements `DurableTask` |
| `MCDurableExecution`, `MCDurableLiveness` | small instances for TLC |
| `OutputSpool` | output of an attempt: the worker that writes it, the daemon that pages it |
| `OutputSpoolProofs` | its invariants, proved |
| `MCOutputSpool` | the texts TLC uses |
| `ResourceCoordinator` | leases on overlapping resources: calls, nested calls, waiters, aborts |
| `ResourceCoordinatorProofs` | mutual exclusion, and that nobody waits for what is free |
| `MCResourceCoordinator` | six calls that overlap through directories and a key |
| `WorkflowManager` | one run: its file, its copies in memory, calls, executions and executors |
| `WorkflowRun` | what a workflow run promises of its steps, without files, queues, calls and loops |
| `WorkflowInvariant` | the inductive invariant of `WorkflowManager`, for calls that do not overlap |
| `WorkflowProofs` | every step has one of some fifteen effects, the invariant is inductive, and the properties that follow |
| `WorkflowRefinement` | the parts of the invariant on what is promised of each step and on who waits for what: that nobody is stuck, and that `WorkflowManager` implements `WorkflowRun` |
| `MCWorkflowManager` | a sequential and a graph workflow |
| `PowerShellWorker` | the pool of persistent shells and its fallback |
| `PowerShellWorkerProofs` | its invariants, proved |
| `RelayTunnel` | relay client, sockets, registry and tunnel of one device |
| `RelayTunnelProofs` | its invariants, proved |
| `ResilientTransport` | the wrapper that retries, over an adapter that runs a tunnel process |
| `ResilientTransportProofs` | its properties, proved |
| `MCPowerShellWorker`, `MCRelayTunnel`, `MCResilientTransport` | the modules TLC is given |

`PROJECT.json` lists components, runs, the source lines behind each definition,
the hazards of the code with the properties that watch them, one mutation per
checked property that breaks it, the findings and the theorems.

## Inventory

For each component: its state, its operations, whom it talks to, what is hard,
and what makes it correct.

**Execution store** (`execution/execution-store.ts`). SQLite tables of tasks,
attempts, dispatch intents, idempotency keys and events. Each operation
(`accept`, `claim`, `markStarted`, `requestCancel`, `finalizeCanceled`,
`finish`, `interruptUnverified`) is one IMMEDIATE transaction guarded by the
state it expects. Called by the runner only. Hard: late callers whose
expectation is stale. Correct: a key has one task, a task one attempt, a
settled task never changes.

**Durable runner** (`execution/durable-runner.ts`). In memory: the workers it
listens to, a closed flag, the time of its last inspection. Operations: submit,
get, wait, cancel, inspect, recover, pump, launch, and the handlers of a
worker's READY line, close event and guard timer. It writes the store, then the
bootstrap, cancel-request files and pipes; a handler is synchronous, but a
process death falls between any two of its writes. Correct: a command is
authorized once, only after its start is durable; slots are returned;
manifests are imported, whoever notices them first.

**Detached worker** (`execution/worker-main.ts`) and **worker identity**
(`execution/worker-identity.ts`). One process per attempt that outlives the
daemon: READY, GO or CANCEL, identity file, spawn, cancel poll, timeout,
manifest. Hard: natural end, cancel poll and timeout race; it may die
anywhere; the daemon asks the operating system about it meanwhile. Correct: the
manifest tells what the command did.

**Output spool** (`execution/output-spool.ts`). Two append-only files, byte
counters and the completion manifest of an attempt; written by the worker and
read by the daemon at the same time. Correct: quota, no gaps, pages that always
advance, cut at characters and reach the end.

**Daemon server, client and command line** (`apps/daemon/src`). A named pipe or
socket with one request per connection, a token, the recovery timer, polling
waits. Hard: answers lost to timeouts, waits of clients that went away.
Correct: a retry with the same key is the same task.

**Windows job host** (`packages/execution/job-host/Program.cs`). A native
supervisor that puts the command in a kill-on-close job; owner loss, cancel,
timeout and exit race in its loop.

**MCP durable task facade** (`packages/mcp-server/src/durable-task-tool.ts`,
`execution-facade.ts`). Bounded waits and stable idempotency keys on top of the
daemon client.

**MCP server and hosts** (`packages/mcp-server/src`). Sessions, tool routing
and request logging.

**Transports** (`packages/transports/src`) and **relay server**
(`apps/relay/src`). `ResilientTransportAdapter` keeps `desiredRunning`, a
generation, a pending connect and a retry timer around an inner adapter; the
relay client forwards requests that the relay tunnels over a web socket. Hard:
start, stop and retries overlap with a pending connect; answers arrive after a
timeout or on a socket that was replaced. Correct: after stop nothing is
started; what the user is shown is so; a request has one answer.

**Workflow manager** (`core/workflow-manager.ts`) and **resource coordinator**
(`core/resource-coordinator.ts`). Runs of steps, in memory and in a JSON file,
with leases on paths; start, resume, cancel, shutdown with awaits between check
and launch. Correct: a run executes once at a time, a step with unknown outcome
is not silently repeated, overlapping leases belong to one owner.

**Persistent shells** (`core/powershell-worker.ts`, and `run` of
`core/process-manager.ts`). A pool of workers, each with a queue, a shell and
one pending request with a timeout. Hard: the shell answers, dies, hangs or
closes at any moment of a request. Correct: a command reported as not started
did not run, none runs twice, none waits behind a forgotten one.

**Process and shell managers** (`core/process-manager.ts`, `pty-manager.ts`).
Child processes of sessions and their ring buffers. Correct: a wait never misses
the exit.

**Caches and budgets** (`core/content-cache.ts`, `document-session.ts`,
`resource-budget.ts`). Bounded maps with loads in flight. Correct: a load that
began before an invalidation is not stored; limits hold.

**Memory, evidence and activity stores**, **search and code intelligence**,
**automation and files**, **configuration and release**, **tools**,
**desktop application**: mostly local persistence, parsing, wrappers of
operating system interfaces, and user interface.

## The durable execution core

### State

Three kinds of state live apart in the code and are kept apart in
`DurableExecution`.

| Kind | Variables | In the code |
| --- | --- | --- |
| store | `taskKey`, `taskState`, `taskAttempt`, `attemptTask`, `intent` | the tables of `execution.sqlite` |
| spool directory | `identity`, `cancelRequest`, `manifest` | `worker-identity.json`, `cancel.request`, `completion.json` |
| worker and command | `worker`, `handshake`, `timedOut`, `cancelConfirmed`, `command` | where `worker-main` is, its pipes, its flags, its process tree |
| daemon | `daemon`, `attached`, `phase`, `target`, `todo`, `sweep` | the process, the children it listens to, the point its handler has reached |

A JavaScript handler is not interrupted by another handler, but workers run
beside it and the process may die in the middle of it. So a handler that
makes more than one durable change is cut into one action per change, joined by
`phase` (`pump`, `launch`, `go`, `cancel`, `inspect`, `recheck`, `recover`),
and no other handler runs until `phase` is `idle`. The system calls of
`inspectWorker` are separate steps too, since a worker may finish between the
question and the transaction that uses its answer.

### Actions

| Code | Actions |
| --- | --- |
| `submit` (`accept`, then `pump`) | `Submit`, `PumpClaim`, `launch`, `PumpDone`, `LaunchFails` |
| READY handler and guard of `launch` | `ReadyCancel`, `ReadyMarkStarted` + `SendGo`, `ReadyKill`, `GuardExpires` |
| close event | `WorkerClosed`, then the pump |
| `get`, `result`, `output`, one poll of `wait` | `Get` |
| `cancel` | `CancelQueued`; `CancelActive` + `WriteCancelRequest` or `WriteCancelFails` |
| `inspect` | `Inspect`, `InspectExited` or `InspectOther`, `Recheck` |
| server start, recovery timer, `recover` | `Start`, `RecoverTick`, `RecoverAttempt`, `RecoverDone`, `RecoverFails` |
| close, death of the daemon | `Close`, `Exit` |
| `worker-main` | `WorkerReady`, `ReadGo`, `ReadCancel`, `HandshakeLost`, `WriteIdentity`, `SpawnCommand`, `PollCancel`, `Timeout`, `Finalize`, `WorkerExit` |
| the command itself | `CommandExits` |

An exception in a close event, or in the recovery that the start makes, is not
caught anywhere and ends the daemon; `Exit` covers it. A daemon owns its pipe
before it opens the store, so two daemons never work on one store.

### Failures

`Faults` chooses among `close` (orderly shutdown), `crash` (the daemon dies
between any two writes), `worker` (a worker dies), `io` (a file or database
operation throws, an inspection has no answer) and `kill` (killing a command
tree is not confirmed). When the daemon ends, each line it wrote last into a
pipe may or may not be read.

### Abstracted

Identifiers are model values. Attempt tokens and generations, signatures,
hashes and reused process identifiers are abstracted to exact identity. The
columns `output_state`, `outcome` and `reason` and the event log follow the
state. The order of `pending` is left open, since `created_at` has millisecond
resolution. The command runs directly under the worker; the job host is not
part of this module.

### Properties

| Property | Says |
| --- | --- |
| `RunsAtMostOnce` | one key never spawns two commands, over retries, recoveries and restarts |
| `CanceledMeansStopped` | a canceled task has no live command, and no worker that would spawn it |
| `InterruptedLeftNoManifest` | an outcome is called unknown only if no manifest exists, also when one appears during the inspection |
| `ResultIsEvidence` | a result says what the command did; a natural end that beats a cancel is kept |
| `StartIsDurable` | a command runs only after store and identity record it |
| `SupervisedBounded` | workers that may run commands stay within `Concurrency`, orphans of an earlier daemon included |
| `CancelEvidenceWasRequested` | a cancel manifest is only of a task that is canceling, so it is never dropped |
| `SettledIsFinal` | no late event, request or recovery changes a settled task |
| `ImplementsDurableTask` | the whole is an implementation of `DurableTask` |
| `EveryTaskSettles` | without faults every queued task settles: slots come back |
| `ManifestIsImported` | a daemon that stays up imports every manifest |
| `IdentifiedCancelSettles` | a daemon that stays up settles each cancellation of a worker with identity |

`DurableTask` has one status and one command per task: accept, begin at most
once, settle at most once, and only with a status that is true of the command.
The refinement maps `queued`, `starting`, `running` and `canceling` to
`accepted`, and the command of a task's attempt to `effect`.

### Fairness

- `WF(Proceed)`: a synchronous handler does not stop in the middle.
- `WF(Start)`: the desktop starts a daemon when there is none
  (`apps/desktop/src/main/durable-daemon.ts`).
- `SF(RecoverTick("canceling"))`: the timer fires every second; other handlers
  come in between, hence strong.
- `SF` of the READY handler and of the close event of each attempt: the event
  loop reaches every pipe and child, between other handlers.
- `WF(WorkerStep(a))`, `WF(Timeout(a))`: processes run, and every attempt has
  an execution timeout (`worker-main.ts:139`).

Nothing is assumed of clients, of commands (which may never end) or of faults.

## The output spool

`OutputSpool` has a worker that takes chunks of any size from two pipes
(`Collect`), whose append may fail half-way (`AppendFails`, then `Drain`), and
that commits the manifest (`Finalize`) or is lost (`WorkerLost`); and a daemon
that answers page requests. Each request constructs a new `OutputSpool`: it
takes the file size (`OpenSpool`), looks for the manifest (`LoadManifest`), and
reads the page (`Page`). These are three steps because another process writes
the files; requests do not overlap each other because the handler does not
await. The client asks for either stream, from its last `nextCursor` on, until
a page is complete.

A byte is its class in UTF-8: a lead byte of a one- to four-byte character or
a continuation byte, which is what the cut of a page depends on. `safeLength`
is that cut; it is stated by what the loop finds (the last lead byte, if its
character does not fit), and the cases of a stray continuation byte or
malformed lead follow the code. Hashes, `fsync` and the retry on Windows
sharing violations are left out: the manifest is visible from its rename on.

| Property | Says |
| --- | --- |
| `QuotaHeld` | both files together stay within `maxBytes`, wherever a write failed |
| `NoGap` | what is retained is a prefix of what was printed: after a drop nothing more is appended |
| `ManifestAttests` | a manifest agrees with the files, and accounts for every byte read |
| `CursorAdvances` | a page with bytes left returns at least one, on any bytes |
| `PagesWhole` | a page that ends before the bytes it knew of does not split a character |
| `TruncationTold` | the last page says truncated exactly if output was dropped |
| `OutputEnds` | after the manifest, a client that keeps asking reaches the end |

`PagesWhole` has its condition because a page is trimmed only if more bytes
follow at the time of the read (`output-spool.ts:162`): while the command runs, a
chunk may end within a character, and a page that reaches it does too.

Fairness: `SF(OpenSpool(s))` (the client goes on asking; requests for the other
stream come in between), `WF` of the daemon's two steps; none of the worker.

## The resource coordinator

A call of `withResources` is one member of `Calls`, at most one execution each:
`Begin` (the synchronous part of `acquire`), `Recheck` (a woken waiter's turn of
its loop), `Finish` (`release`), `Abort` and `Deadline` (its signal). `pc` is
where a call is, `leases` and `waiters` are the two collections of the class,
`aborted` the signals. A workflow step holds its lease while its tool calls
`withResources` again under the same owner; `Outer` says which call makes which
nested one. Such a call gets the step's signal or its tool's deadline.

| Property | Says |
| --- | --- |
| `Exclusion` | two owners never work on overlapping resources, in whatever order woken waiters look again |
| `WaitsForAnother` | who waits, waits for a lease of another owner: no wake is missed, no step waits for itself |
| `WaitsEnd` | two steps that hold what the other's tool asks for are set free by a deadline |

Fairness: woken waiters are microtasks and run (`WF(Recheck)`); a call that has
its lease ends when its own nested calls have (`WF(Finish)`), since executors
have timeouts; a nested call belongs to a tool with a deadline
(`WF(Deadline)`). Nobody has to abort.

## The workflow manager

### State and actions

`WorkflowManager` is one run under one key: `file` is what the disk holds;
`runs` names which of the objects in `copy` the map in memory has, because a load
installs its own object over another; `execution` and `controllers` are the maps
of the same names; `writes` is the run's promise chain of writes, each with the
snapshot taken when it was asked for. The maps matter separately: a second
execution of a run replaces the entry of the first but does not end it.

An action is the code from one await to the next. A call begins and takes its
first turn at once (`Begin`, `FirstTurn`); what its promises bring later is
`Progress`.

| Code | Actions |
| --- | --- |
| `loadRun` | `StartReading`, `Read`, `Rewrite`, `ReadFails`, `NotLoaded` |
| `start` | `StartJoins`, `StartReads`, `StartFinds`, `StartCreates`, `Launches`, `JoinReturns` |
| `resume` | `Resume`, `Launches` |
| `cancel`, `finalizeCanceled` | `Cancel`, `CancelAborts`, `CancelReturns` |
| `wait` | `Wait`, `WaitReturns` |
| `shutdown`, `resumeAccepting` | `Shutdown`, `ShutdownAborts`, `ShutdownReturns`, `ResumeAccepting` |
| sequential loop | `SequentialTurn`, `SequentialAfter`, `Returns` |
| graph loop | `GraphTurn`, `GraphSchedule`, `GraphRaces`, `GraphDrained` |
| end of `execute` | `ExecutionEnds` |
| `executeOne` | `StepMarked` (running is written), `StepLeased` (its resources), `StepEnds`, `StepReturns` |
| write queue | `WriteRun` |
| death of the runtime | `Crash` |

Definitions of the workflow (save, list, get), result files and recipes are left
out; writes do not fail; a mismatch between key and definition is refused
before anything changes. Leases of other owners are the coordinator's; here a
step with resources waits as long as it may.

### Properties

| Property | Says |
| --- | --- |
| `WorkIsOnRecord` | a step is executed only while memory and file say running and the run is open in both: no caller is told of an end meanwhile, and the next runtime calls the step interrupted |
| `EndIsQuiet` | a run reported as succeeded, failed or canceled has no executor at work (proved; it follows from `WorkIsOnRecord`, so no run checks it by itself) |
| `EndIsComplete` | an end on record leaves no step pending or running, if definitions list a step after those it depends on |
| `NoUnconfirmedReplay` | a mutation with unknown outcome is not repeated without confirmation, over crashes |
| `StartsOnce` | one key is launched by one start at most, wherever the runtime dies in between |
| `ImplementsWorkflowRun` | the whole is an implementation of `WorkflowRun`, see below |
| `PassedStays` | no later write, load or resume takes back a step on record as succeeded (proved; the refinement has it too, so no run checks it by itself) |
| `NobodyIsStuck` | while a call or an execution has not ended, something is due: a write or who waited for it, a call, a turn of a loop, an executor (`Due`) |
| `DueIsEnabled` | what is due can happen: a writer whose write is done waits for it, a pass of a loop over the steps has an outcome, a lease comes |
| `Inductive` | the invariant behind the proofs, see [proofs](#proofs) |
| `CancelSettles` | a cancel returns canceled only after the executors have settled: violated, see findings |

`NobodyIsStuck` with `DueIsEnabled` stands for liveness. The calls of an instance are bounded and
each takes finitely many steps, so if something is always due until all have
returned, all return once writes are made and executors end; the instance is
too large for a check under fairness.

`WorkflowRun` has one status per step, the definition, and the set of mutations
in doubt. A step that is `open` begins once all it needs has `passed` (the steps
before it, or its dependencies), while fewer than `maxConcurrency` steps are
under way, none of which shares a resource with it; then it is `working`, `done`
or `ended`, and with the record of its outcome `passed` or `open` again. A tool
past its deadline, and a crash, put a mutation in doubt, and it does not begin
until somebody confirms. The map (`StatusOf`):

| Status | In the manager |
| --- | --- |
| `working` | an executor executes the step |
| `passed` | the file says succeeded |
| `begun` | the file says running, its executor is still about to work (marking, waiting for its lease) |
| `done`, `ended` | its executor has settled and the file still says running; which one is in the copy in memory |
| `open` | all else: not begun, marked in memory only, or on record as failed, canceled, skipped or interrupted |

So a step begins with the write of its mark, not with the decision of the
scheduler, and its outcome counts from the write on; what lies between, and what
a crash loses of it, is for the queue to get right. The definition is that of
the file; who is in doubt is the history variable `unknown`, since the file has
it only together with what loading makes of it.

The passing run has `CallsOverlap = FALSE`: while a call loads the file there is
no other call, and a resume or shutdown begins when no other call is under way;
starts, waits and cancels of a run in memory overlap freely, also with all
executions, schedulers and executors. With `TRUE` two loads make two objects of
one run, and two resumes make two executions of it; then
`WorkIsOnRecord`, `EndIsComplete`, `NoUnconfirmedReplay`, `PassedStays` and with
them the refinement fail too. That is one flaw, shown by the run `CancelOvertaken`; the passing run and
the theorems say what holds without it.

`EndIsComplete` needs definitions in order. The check of a definition
(`core/workflow-manager.ts:1542-1573`) lets a graph's step depend on a later one.
In a chain listed backwards (step 1 needs 2, step 2 needs 3) the failure of step
3 is followed by one pass over the steps in their order (lines 787-806): it goes
past 1 while 2 is still pending, and skips 2 only. The same turn then finds
nothing to start and nothing active, and ends the run as
WORKFLOW_SCHEDULER_DEADLOCK (lines 857-862) with step 1 pending on record. The
run is failed, as it should be, but `docs/tool-reference.md:99` ("A failed branch
skips only downstream dependents") has step 1 skipped. TLC found this behaviour
in an instance with that chain in place of the two definitions. That order is
sufficient is the theorem `EndsComplete`.

## Persistent shells

`PowerShellWorker` models the pool (`Run` picks an idle worker, a new one or the
least loaded), each worker's turn (`Execute` with `ensureChild`, `TurnStopped`),
the timer (`Timeout`), the write callback (`Written`, `WriteFailed`), the answer
line (`Answer`), the end of a shell (`Exit`, `Close`), the shutdown of the pool,
and the fallback of `ProcessManager.run` (`OneShot`). The shells are processes
of their own: they take a line, run it, print the answer, or die (`Takes`,
`ReadLine`, `WriteLine`, `Die`).

What is assumed of the system is in the head of the module: the callback of a
write that was taken comes before the answer to it and before the close; an
answer comes before the close. A failed write may be told at any time. An
`error` of stdin or of the spawn is the death of the shell, which has the same
handler. No command prints the private prefix of an answer.

| Property | Says |
| --- | --- |
| `NeverReplayed` | no command runs twice: the fallback never repeats what a shell began or may yet begin |
| `OutcomeIsTrue` | an answer is the shell's, unknown means handed over, not started means it never will be |
| `NobodyWaitsBehind` | a worker's shell is at work for its pending request only, never for one whose caller was already told |
| `EveryRunReturns` | every queued command settles |

Fairness: microtasks and timers (`WF(Execute)`, `WF(TurnStopped)`,
`WF(Timeout)`, `WF(OneShot)`); nothing of the shells, which may hang for ever.
A consequence the model has and no property forbids: the callback of a failed
write resets whatever shell the worker has by then
(`core/powershell-worker.ts:188`), so a later request can lose its shell and
then ends by its own timeout.

## The relay

`RelayTunnel` has one device: the fields of the relay client (`socket`,
`reconnectTimer`, `stopped`, `snapshot`, and per connect the promise of its
start), both ends of every socket, the registry entry, and per request the
tunnel's `pending` and `reply` and the client's `job`. `up` and `down` are what
is under way on a socket: in order, until `Cut` or a close.

| Code | Actions |
| --- | --- |
| `transports/relay-client.ts` start, stop, timer | `CallerStarts`, `Reconnect`, `Stop`, `ConnectTimeout`, `ConnectFails`, `Opens` |
| its message and close handlers | `handleReady`, `handleRequest`, `handleCancel`, `handleClose` |
| its forwarding of a request | `JobAnswers`, `JobFails` |
| `relay/device-registry.ts` and the socket server | `register`, `OnServerClose` |
| `relay/http-tunnel.ts` | `handle`, `onStart`, `onEnd`, `timeout`, `CallerLeaves` |
| network | `Cut` |

`CallerStarts` is whoever starts the client: the user or
`ResilientTransportAdapter`, which do so when the last start has settled and the
snapshot does not say connected. Chunks of a body and heartbeats change none of
this state. Both ends learn of a connection in one step. The stop of the relay
and a hello for another device are left out.

| Property | Says |
| --- | --- |
| `DeviceIsReachable` | while a socket of the device is registered and open, the registry has that one, however late older ones close |
| `NobodyWaitsForTheDead` | a reply is open exactly while its request is pending on a socket that has not closed: none is left without its timer, none is written after its end |
| `NoWorkLeftBehind` | a desktop whose sockets have closed does no work for the relay |

What the model shows besides, without a property of its own: no document
promises otherwise, or the promise is that of the transport wrapper, which is
a module of its own (next section).

- A stop during a reconnect is undone: the rejected start is caught and
  schedules the next attempt without looking at `stopped`
  (`transports/relay-client.ts:112`). `transports/resilient.ts:13-16` and its
  test "never reconnects after an explicit disconnect" promise the contrary of
  the wrapped transport.
- A stop clears the timer but not the field that holds it, so a client started
  again never reconnects by itself (`stale` in the model).
- After a quick stop and start, the late close of the old socket aborts the
  requests of the new one and schedules one more connect.
- A start whose socket fails while the snapshot says connected never settles
  (`lost`).
- A job that sends on a socket that is connecting ends without an answer; the
  caller waits for the relay's timeout.

## Transports

`ResilientTransport` is `ResilientTransportAdapter` around an adapter that runs a
tunnel process: the quick tunnel, which is connected when its process prints a
URL (ngrok without a domain does the same), or the named one, which is connected
after half a second. The state is that of the wrapper (`desiredRunning`,
`retryTimer`, `connectPromise`, `snapshot`), of the inner adapter (`inner`,
`child`), and of each process and its start (`process`, `attempt`).

| Code | Actions |
| --- | --- |
| `transports/resilient.ts` `start`, `stop` | `start`, `stop`, `StopEnds` |
| its timer | `RetryFires` |
| `start` of the inner adapter, and the `then`, `catch`, `finally` of `connect` | `Spawns` within `connect`; `Connected`, `UrlTimeout`, `Exit`, `SpawnError` |
| `handleInnerState`, `scheduleRetry` | operators of the same names, within each event of the adapter |
| the process | `Dies` |

The generation is abstracted to whether a start under way is of the current one
(`attempt` is `current` or `stale`); a timer always is, since whatever changes
the generation clears it. A process may die at any moment, so being killed is
no step of its own. On Windows a stop waits for `taskkill`, and another start,
stop or event may come before it ends (`stopping`). A spawn that fails is told
before anything else happens. The profile checks of the OpenAI tunnel, ngrok
with a domain, the local-only adapter and `dispose` are left out.

| Property | Says |
| --- | --- |
| `StaysDown` | after a disconnect no process is started, whatever timers, events and starts were under way, and none while another start has not settled |
| `SnapshotIsTrue` | connecting, or an error that can be retried, means that a start or a timer is under way (or that the timeout of the last process was lost, see below); connected means that the quick tunnel has a process whose end is not known yet |

No fairness: both are safety properties. What the model shows besides:

- A second `start` while one is connecting makes the first stale and returns its
  promise (`transports/resilient.ts:64,99`). If its URL timeout comes then,
  nobody hears of it: the user is shown connecting for ever and nothing retries.
  This is the exception `lost` in `SnapshotIsTrue`; the class comment
  (`resilient.ts:13-16`) says that the class keeps a transport alive.
- A `start` after a `stop`, while the old start has not settled, returns the
  old promise too; its result is dropped, and the user is shown disconnected
  although running is desired and nothing tries.
- A named tunnel whose process ends within half a second is shown connected, and
  the retry its end had scheduled is canceled (`transports/cloudflare.ts:78-85`).
  So the connected half of `SnapshotIsTrue` is for the quick tunnel only.
- After a URL timeout the process goes on. The retry replaces it in `child`, so
  no stop ends it, and its late exit is taken for the end of the new one. A stop
  that ends late clears the `child` of a start that came meanwhile.

## Runs

| Run | Instance | Distinct states | Shows |
| --- | --- | --- | --- |
| `DurableSafety` | 2 keys, 2 tasks, 2 attempts, `Concurrency` 1, all faults, symmetry | 431,289 | all invariants, `SettledIsFinal`, `ImplementsDurableTask`, `IInv`; no deadlock |
| `DurableLiveness` | the same sets, no faults, names in order of creation | 61,477 | `EveryTaskSettles` |
| `DurableRestart` | 1 of each, `close`, `crash` and `worker` | 3,977 | `ManifestIsImported`, `IdentifiedCancelSettles` |
| `DurableCancelLost` | 1 of each, `close` | | violates `CancelSurvivesRestart`, see findings |
| `OutputSpool` | two texts, 6 bytes of quota, pages of 3 and 4 | 237,525 | all properties of the table above |
| `OutputCutShort` | one text, quota 4, pages of 4 | | violates `CompleteIsTheEnd` |
| `ResourceCoordinator` | two steps with a nested call each, a direct call, a call for nothing | 18,175 | all properties of its table |
| `Workflow` | a sequence of two steps and a graph of three, 3 calls, 1 crash | 191,751 | all properties of its table but `CancelSettles` and `PassedStays` |
| `CancelOvertaken` | the sequence, 3 calls that overlap, no crash | | violates `CancelSettles` |
| `PowerShellWorker` | 2 commands, pool of 1 | 31,454 | all properties of its table |
| `RelayTunnel` | 2 connects, 1 request | 174,932 | all properties of its table |
| `ResilientTransport` | 3 processes, 2 stops that overlap | 11,611 | both properties of its table; no deadlock |

Why these bounds are enough. Two submissions with one slot are the least that
compete: one waits while the other starts, runs, is canceled, is orphaned or is
recovered, and a pump follows each of these. Two attempts are enough for
`recover` to visit one after the other and to be left in between. Faults are
not counted: each may happen any number of times at any step, so all
combinations with restarts are there. Tasks never disappear and a third would
only queue behind the second. Liveness runs cannot use symmetry;
`MCDurableLiveness` keeps instead, of behaviours that differ in names only, the
one that uses names in order.

The texts of `OutputSpool` put characters of every width across the end of a
page, and runs of continuation bytes that belong to nothing. Eight bytes are
printed against a quota of six, so it is reached with bytes left, on either
stream, in the middle of a chunk. A page of three bytes is refused and one of
four is the smallest allowed, where a four-byte character fills the page.
Deadlock is not checked there: the client stops when both streams are complete.
In the core and in `ResilientTransport` it is checked, and there is none. It is
not checked in the other modules, whose bounded calls, commands and connects
come to an end.

`MCResourceCoordinator` gives two steps resources that the other's tool asks
for, so they wait for each other; one direct call overlaps both, through
directories above its files, and competes with each woken waiter. Longer chains
of waiters only repeat `Recheck`; the theorems are for any number.

`Workflow`: three calls are a start, something that overlaps or follows it (a
cancel, a wait, a second start, a shutdown) and a resume, or start, resume,
resume with a crash between any two steps of them. The sequence has a tool that
must not be replayed and a command that may; the graph has two branches at work
at once, so one fails or ends while the other is at work, and a step that is
skipped or started depending on that. A second crash finds what the first left:
a file with interrupted steps or none. `LastCallBound` leaves out a third call
on the graph that waits, starts again or shuts down, which the sequence has; all
third calls on both were checked once (357,951 states, no error). The theorems
are for any number of calls and crashes.

`PowerShellWorker`: with one worker the two commands share a queue and, unless
it is given up, a shell; the second is the one that could wait behind the first,
be answered by it or lose its shell to it. Three commands were checked once
(5.2 million states, the invariants, no error); the theorems are for any number
of commands and any size of the pool.

`RelayTunnel`: two connects are an old socket and the one that replaces it, with
every order of their closes. Two requests were checked once (4.93 million
states, no error); they meet only at `abortRequests` and `cancelSocket`, which
treat all alike. The theorems are for any number of both.

`ResilientTransport`: three processes are one whose start is stale, its
replacement and a retry of that; two stops that overlap are one of each of the
first two. The theorems are for any number of both.

## Findings

1. **A cancellation can be lost over a restart** (`DurableCancelLost`). A task
   is canceled while its worker is being started; `cancel` writes canceling and
   `cancel.request`. The daemon is then closed in order before it answers READY,
   and the worker is killed (`durable-runner.ts:381-384`) or loses its handshake
   (`worker-main.ts:64`), without an identity or a manifest. The next daemon
   finds the worker *missing* (`worker-identity.ts:102`), and `recover` settles
   only *exited* (`durable-runner.ts:81`). The task stays canceling for ever,
   and its slot stays taken (`durable-runner.ts:317`).
   `docs/durable-runtime-p2-cancellation.md:10` and
   `docs/durable-runtime-p2-windows-job-object.md:9` say that a request
   survives the daemon.
2. **A page may say complete before the end** (`OutputCutShort`). The sizes are
   taken before the manifest is looked for (`output-spool.ts:89-99`); a worker
   that appends its last chunk and commits in between makes `complete: true` at
   the old size, and a client that stops there misses the rest.
3. **A cancel may return while the run is at work** (`CancelOvertaken`).
   `docs/tool-reference.md:101` says that `workflow_cancel` does not report
   canceled until the executors have settled. `resume` looks at executions and
   state (`core/workflow-manager.ts:651-657`) and launches only after the
   write of line 692; `startDefinitionOnce` has the same gap (lines 499-501). A
   resume that comes in the gap passes the same test: two executions of the run
   are at work, the second replaces the first in the map (line 699) and its steps
   replace the controllers of the first (line 877). `cancel` aborts and awaits
   what the maps hold (lines 610-614), so it returns canceled with an executor
   of the first at work.

## Proofs

All theorems assume only the named assumption of their module
(`ConstantsAssumption`, `SpoolAssumption`, `CoordinatorAssumption`,
`WorkerAssumption`, `RelayAssumption`, `TransportAssumption`): identifiers of any number, any
concurrency from 1 to 8, any subset of the faults; any texts, quota and page
sizes; any calls, owners and resources with one level of nesting; any number of
commands, workers, connects, requests, tunnel processes and stops; any set of
workflow definitions, calls and crashes (`WorkflowAssumption` is what
`validateDefinition` lets through). The theorems about workflows name one or two
hypotheses more, see there.

**Core.** None of the safety properties is inductive by itself: whether a late
READY, close event or inspection may change a task depends on how far store,
files and worker of that attempt have come. `TypeOK /\ IInv` is inductive.
`IInv` (`DurableInvariant`) has four parts:

- `Linked`: tasks and attempts name each other;
- `Accepted`: a key has one task, and exactly dispatched tasks have attempts;
- per attempt, `Untouched`, `WorkerOrder` (what the worker's position implies
  of pipes, identity, command, manifest), `StoreFollows` (what the store must
  have committed by then) and `Evident` (manifests say what commands did,
  settled states what manifests say);
- `HandlerKnows`: what a handler waiting in a phase still knows of its target.
  Without it, the second half of a handler is unsound on its own.

`DurableProofs` shows that each action preserves it (`Invariance`), and derives
`AtMostOnce`, `CancelStops`, `NoLostCompletion`, `ResultsAreEvidence`,
`DurableStart`, `CancelEvidence`, besides `TypeCorrect`. Its second half
classifies steps by what they do to tasks (`StoreMoves`) and to commands
(`CommandMoves`); `Settled` follows, and `WorkersBounded` with one more
invariant, that active attempts never exceed the slots: supervised workers
are a subset of them. `Refinement` maps each step to an action of
`DurableTask` or a stutter.

**Output spool.** `SpoolInv` joins the worker's invariant with the reader's.
While no append has failed, counters equal file sizes and bytes plus dropped
equal what was read; something dropped means the quota is full, hence no later
byte is appended and no gap arises. Files only grow and the manifest stays as
it is, so what a reader has learned in one step remains true while the worker
goes on; its page cannot lie beyond the file. The lemma about a page's end
shows that a cut removes at most three bytes, so pages of four or more advance;
pages of one would not, which the code refuses. Theorems: `Quota`, `Gapless`,
`Attested`, `Progress`, `WholeCharacters`, `Truncation`.

**Resource coordinator.** `CoordinatorInv` adds `LeasesMatch` to the two
properties: who works on something has a lease, only those have one, and the
registered callbacks are those of the waiting calls. `Exclusion` needs it
because `acquire` looks at leases, not at who works; `WaitsForAnother` because a
release wakes exactly the registered. Theorems: `OwnersExclude`, `NoMissedWake`,
`CoordinatorHolds`. That overlap is symmetric is a lemma on the operator.

**Workflow manager.** The theorems are for `~CallsOverlap`, because without it
the properties are false (`CancelOvertaken`). The difficulty is that four
accounts of a step exist at once: the copy of the run in memory, the snapshots
that wait in the write queue, the file, and the executor that works on the step.
`WorkflowInv` (`WorkflowInvariant`) says how they agree:

- `CallsShape`: who reads the file is alone, and at most one call is about to
  launch, with nothing executing;
- `ExecutionShape`: at most one execution is under way, it is the one in the map,
  works on the run in memory, and only it has executors (one at a time if the
  workflow is sequential);
- `WritersWait`: each snapshot in the queue has its own writer waiting for it, and
  no writer has two. Without it a call or a loop could go on after a write that
  was not its own;
- `CopyAgrees`: in memory a step is running exactly while its executor has not
  settled it, and what a sequential loop has ahead is not begun. This is what
  `EndIsQuiet` and `CancelSettles` rest on;
- `RecordsFollow`: the last snapshot is the copy in memory, and from the file
  on each one keeps what succeeded in the one before;
- `WorkRecorded`: what executes is running in the file and in every snapshot,
  what is still marking from its own snapshot on. Without the snapshots the
  property is not inductive: a write would replace the file by something unknown;
- `UnknownKept`: a mutation that was cut off is running or interrupted in all
  records, so no load, and no resume without confirmation, makes it pending;
- `OneStart`: a start that launched or is about to has a run on record, so that
  no other one creates a run.

`PromiseInv` is a second part, and what `WorkflowRun` needs besides:

- `OwnWriteQueued`, `MarkedByOwnWrite`, `ClosedByOwnWrite`: the write of an executor
  that waits is in the queue; the records before the mark do not have the step
  running, and the records before the outcome still have it. So the write that
  changes the status of a step is its executor's, and no other write does;
- `RecordsHeld`, `SuccessKept`, `SuccessRecorded`: a record that has a step running
  has an executor of it, and what one record has as succeeded all have, unless
  the executor that said so is about to return;
- `AbortsAreCancels`, `BehindIsPassed`: an abort comes with a cancellation, and
  without one all that a sequential loop has behind it has succeeded. That is
  why `executeSequential` need not look at what a step depends on;
- `NeedsPassed`, `HasRoom`: for the write of a mark yet to be made, what the step
  needs has succeeded, on record or in a write before it; and there is room
  beside all that have an executor, those excepted whose mark comes later in the
  queue. Without the exception `HasRoom` would not follow from what one turn of
  `executeGraph` checks, since it counts only the steps it started before.

`WaitInv` is about who waits for what: who waits for a write has it in the queue
(`WritersQueued`, the converse of `WritersWait`), the start that callers of its key
joined is under way or over (`LockHeld`, `CallsWait`), the execution a call waits
for has begun, and a loop that waits for an executor has one at work
(`LoopsBusy`). The chain of waiting then ends at something that is due: a call
waits for a start or an execution, an execution for a write or an executor, an
executor for a write or its command, and a write for the one before it. That is
`NothingIsStuck`.

`NothingLeftOver` is the last part, for definitions in order (`ListedInOrder`):
all records are complete at their end (`RecordsComplete`, `ReadIsComplete`), what
a sequential loop has behind it is over (`PassedIsOver`), and a graph's loop that
goes on after a write finds an executor at work or nothing left to skip
(`GraphGoesOn`). Two arguments carry it. A run with pending steps, none of
them blocked, none running, has a least pending step in the order of the
definition; what that depends on is earlier, so it has succeeded, and the step can
start: the scheduler is not stuck. And an executor that has not settled, or whose
last write comes after the loop's in the queue, is still active when the loop goes
on (`Outlasts`): hence the loop does not take a run that has just started steps
for one that is at its end.

`WorkflowProofs` first reduces each action to one of some fifteen effects
(`CallStep`, `CallWrites`, `LaunchStep`, `LoopGoes`, `LoopEnds`, `StartsSteps`,
`ExecutorSettles`, `WriteStep`, `CrashStep`, ...), which say what changes for one
call, execution or executor and which write is queued (`NextIs`); each part of
the invariant is then shown for each effect. A turn of a graph is the one effect
with more than one write: `StartsAre` gives every step it starts its place in the
queue, in the order of the steps. Theorems: `Typing`, `Invariance`,
`LeftOverInvariance`; `QuietAtTheEnd`, `CancelWaits`, `WorkOnRecord`, `NoReplay`, `OneStartLaunches`,
`PassedWorkStays`; and `EndsComplete` for definitions in order.

`WorkflowRefinement` adds `PromiseInvariance` and `WaitInvariance`, with which
the parts together are the `Inductive` that TLC checks (`InductiveInvariance`), and `NothingIsStuck`. `PassesHaveOneOutcome` shows of the two
definitions that stand for loops over the steps (`Blocked`, `Startable`) that each
has one solution for every run, so that the model takes the turn the code takes.
`Refinement` maps each effect to an action of `WorkflowRun` or a stutter. Under
the invariant the status of a step is a function of the phase of its executor and
of what the file, or the copy in memory, says of it (`StatusFollows`). Then
calls, loops and the decision to start steps are stutters; an executor that goes
on is `Work`; one that settles is `Succeed`, `End` or `GiveUp`; a resume with
confirmation is `Confirm`; a death is `Crash`, and `CutOff` puts in doubt exactly
what the abstract crash does. A write is `Start` if there was no file, `Begin` if
an executor that is marking asked for it (`MarkBegins`, with `NeedsPassed` and
`HasRoom`), `Record` if one that is closing did (`CloseRecords`), and otherwise
leaves every status as it was (`WriteLeaves`).

**Persistent shells.** `PoolInv` has what ties the five places a command is
known in: `Queues` (a queue holds commands of its worker), `Pendings` (the
pending request heads its queue and was written to the shell of its worker or
to none), `Writes` (a command reaches a shell through its write only), `Belongs`
(a shell has one worker) and `Counts` (a command ran as often as a shell read it
or the fallback took it). `NeverReplayed` follows from `Counts` and
`OutcomeIsTrue`: who fell back never reached a shell. Theorems: `RunsOnce`,
`OutcomesTrue`, `ShellIsFree`, `PoolHolds`.

**Relay.** `RelayInv` adds to the three properties that the server knows no
connection before the client does (`Handshakes`), so no close event is
forgotten, and that the registry has a socket that said hello and has not closed
(`Registered`). Theorems: `Reachable`, `NobodyWaits`, `WorkEnds`, `RelayHolds`.

**Transports.** `TransportInv` adds to `SnapshotIsTrue` that the pending promise is
that of the one start that has not settled (`Promise`), that a failed spawn is
told while its start is the last one (`Broken`), when a start has outlived the
stop of its process (`Children`), and that after a stop nothing is shown
(`Shows`). `Children` is what keeps a stale start from being shown: a new one
cannot begin before it has settled. Theorems: `ShownIsTrue`, `Down`,
`TransportHolds`.

The type invariants of all modules are part of these theorems, so no run
repeats them.

**Only model-checked.** All liveness properties (`EveryTaskSettles`,
`ManifestIsImported`, `IdentifiedCancelSettles`, `OutputEnds`, `WaitsEnd`,
`EveryRunReturns`): liveness under fairness is out of the prover's reach.
`DueIsEnabled` of the workflow manager uses `ENABLED`, which is out of reach
too: that something is due is proved, that what is due can happen is checked
(that the passes of a graph have an outcome is proved as well). No recursion over
data is used in the proved modules.

## Not modelled

- The Windows job-host mode of the worker, and `Program.cs`: planned.
- Requests, authentication and waiting at the daemon's socket: planned. The
  handlers behind them are in `DurableExecution`; a lost answer is a client that
  submits the same key again, which changes nothing.
- Submissions in conflict with a known key change no state; input validation
  and quotas of arguments are left out.
- Of transports: the profile checks of the OpenAI tunnel, ngrok with a domain,
  the local-only adapter, `dispose`; and the wrapper around the relay client,
  for which the free caller of `RelayTunnel` stands: planned.
- Of the relay: its stop, a hello for another device, heartbeats, body chunks.
  The tunnel does not check the `sequence` of chunks, a timeout does not cancel
  the work on the desktop, and an error after the headers is appended to the
  body; none of this is a property of the model.
- Of workflows: definitions, result files, failing writes, recipes.
- Sessions and ring buffers of the process manager, caches and budgets: planned.
- Search, code intelligence, document parsing, user-interface and browser
  automation, configuration, tools, renderer: data transformation or wrappers
  of interfaces outside the repository, with little control of their own.
- Memory and evidence stores: local persistence, a later candidate.

## Plan

In order of importance.

1. Writes of the workflow manager that fail (`persistRun` rejects, and the
   snapshot is lost while memory goes on), and result files.
2. `ResilientTransport` composed with `RelayTunnel` in place of its free caller.
3. `JobHost`: the supervisor loop with owner loss, cancel, timeout and exit, as
   another implementation of the worker of `DurableExecution`, which keeps
   `CanceledMeansStopped`.
4. The daemon's socket: a lost answer, a wait whose client left, close with
   requests under way; with the durable task facade that retries over it.
5. Content cache (a load that began before an invalidation is not stored) and
   sessions of the process manager (a wait never misses the exit).

## How to run

    tlc -workers 2 -config DurableSafety.cfg MCDurableExecution
    tlc -workers 2 -config OutputSpool.cfg MCOutputSpool
    tlc -workers 2 -config Workflow.cfg MCWorkflowManager
    tlapm DurableProofs.tla

`PROJECT.json` names the module and configuration of each run.
`DurableCancelLost`, `OutputCutShort` and `CancelOvertaken` end with the
counterexamples described above; every other run ends without error.
