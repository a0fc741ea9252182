-------------------------- MODULE DurableExecution --------------------------
(***************************************************************************)
(* The durable execution core: the SQLite task store, the daemon's         *)
(* DurableRunner and its detached workers, with crashes of each.           *)
(*                                                                         *)
(* Three kinds of state live apart in the code and are kept apart here:    *)
(*   - the store and the spool directory are durable and survive anything; *)
(*   - the daemon is one JavaScript thread: a handler runs to its end      *)
(*     without another handler in between, but workers run beside it and   *)
(*     it may die after any of its commits, so a handler that writes more  *)
(*     than once is cut into one action per write, joined by phase;        *)
(*   - a worker is an operating system process per attempt, which outlives *)
(*     the daemon, and its command is a process tree which outlives it.    *)
(*                                                                         *)
(* The command runs directly under the worker, which is how the daemon     *)
(* runs it when it has no Windows job host.                                *)
(***************************************************************************)
EXTENDS Naturals, FiniteSets

CONSTANTS
    Keys,         \* idempotency scopes: owner, workspace, operation and key
    Tasks,        \* task identifiers
    Attempts,     \* attempt identifiers, each with its token and generation
    NoKey, NoTask, NoAttempt,
    Concurrency,  \* DurableRunner.concurrency
    Faults        \* the failures that may happen, see FaultKinds

(* close: the daemon is closed in order; crash: it dies; worker: a worker  *)
(* dies; io: a file or database operation throws, or the inspection of a   *)
(* process gives no answer; kill: killing a command tree is not confirmed. *)
FaultKinds == {"close", "crash", "worker", "io", "kill"}

ASSUME ConstantsAssumption ==
    /\ NoKey \notin Keys /\ NoTask \notin Tasks /\ NoAttempt \notin Attempts
    /\ IsFiniteSet(Attempts)
    /\ Concurrency \in 1..8
    /\ Faults \subseteq FaultKinds

VARIABLES
    \* execution.sqlite
    taskKey,          \* idempotency_keys: the scope each task was accepted for
    taskState,        \* tasks.state
    taskAttempt,      \* tasks.attempt_id
    attemptTask,      \* attempts.task_id
    intent,           \* dispatch_intents.state
    \* the spool directory of an attempt
    identity,         \* attempts with a worker-identity.json
    cancelRequest,    \* attempts with a cancel.request
    manifest,         \* completion.json
    \* the worker process of an attempt and its command
    worker,           \* where worker-main is
    handshake,        \* the last line in the pipes between daemon and worker
    timedOut,         \* attempts whose worker set timedOut
    cancelConfirmed,  \* attempts whose worker set cancelConfirmed
    command,          \* the process tree of the command
    \* the daemon process
    daemon,           \* down, up or closed
    attached,         \* attempts whose child process events it listens to
    phase,            \* where its current handler is
    target,           \* the attempt the handler works on
    todo,             \* attempts recover has still to visit
    sweep             \* what recover inspects, or that a close event pumps

storeVars == <<taskKey, taskState, taskAttempt, attemptTask, intent>>
workerVars == <<worker, handshake, timedOut, cancelConfirmed, command>>
spoolVars == <<identity, cancelRequest, manifest>>
daemonVars == <<daemon, attached, phase, target, todo, sweep>>
vars == <<storeVars, spoolVars, workerVars, daemonVars>>

Active == {"starting", "running", "canceling"}
Terminal == {"succeeded", "failed", "canceled", "interrupted"}
TaskStates == {"absent", "queued"} \cup Active \cup Terminal

(* boot: spawned; ready: READY written; authorized: GO read; identified:   *)
(* identity durable; supervising: command spawned; done: manifest durable. *)
BeforeSpawn == {"boot", "ready", "authorized", "identified"}
Supervised == BeforeSpawn \cup {"supervising"}
Alive == Supervised \cup {"done"}

CommandStates == {"none", "live", "zero", "nonzero", "killed"}

TypeOK ==
    /\ taskKey \in [Tasks -> Keys \cup {NoKey}]
    /\ taskState \in [Tasks -> TaskStates]
    /\ taskAttempt \in [Tasks -> Attempts \cup {NoAttempt}]
    /\ attemptTask \in [Attempts -> Tasks \cup {NoTask}]
    /\ intent \in [Tasks -> {"none", "pending", "claimed", "finished",
                             "canceled", "needs_reconciliation"}]
    /\ identity \subseteq Attempts
    /\ cancelRequest \subseteq Attempts
    /\ manifest \in [Attempts -> {"none", "zero", "nonzero", "canceled"}]
    /\ worker \in [Attempts -> {"none", "exited"} \cup Alive]
    /\ handshake \in [Attempts -> {"none", "READY", "GO", "CANCEL", "eof"}]
    /\ timedOut \subseteq Attempts
    /\ cancelConfirmed \subseteq Attempts
    /\ command \in [Attempts -> CommandStates]
    /\ daemon \in {"down", "up", "closed"}
    /\ attached \subseteq Attempts
    /\ phase \in {"idle", "pump", "launch", "go", "cancel", "inspect",
                  "recheck", "recover"}
    /\ target \in Attempts \cup {NoAttempt}
    /\ todo \subseteq Attempts
    /\ sweep \in {"none", "manifests", "canceling", "initial", "event"}

Init ==
    /\ taskKey = [t \in Tasks |-> NoKey]
    /\ taskState = [t \in Tasks |-> "absent"]
    /\ taskAttempt = [t \in Tasks |-> NoAttempt]
    /\ attemptTask = [a \in Attempts |-> NoTask]
    /\ intent = [t \in Tasks |-> "none"]
    /\ identity = {} /\ cancelRequest = {}
    /\ manifest = [a \in Attempts |-> "none"]
    /\ worker = [a \in Attempts |-> "none"]
    /\ handshake = [a \in Attempts |-> "none"]
    /\ timedOut = {} /\ cancelConfirmed = {}
    /\ command = [a \in Attempts |-> "none"]
    /\ daemon = "down" /\ attached = {}
    /\ phase = "idle" /\ target = NoAttempt /\ todo = {} /\ sweep = "none"

-----------------------------------------------------------------------------
(* The store.  Each operator below is one IMMEDIATE transaction.           *)

SetTask(t, s, i) ==
    /\ taskState' = [taskState EXCEPT ![t] = s]
    /\ intent' = [intent EXCEPT ![t] = i]
    /\ UNCHANGED <<taskKey, taskAttempt, attemptTask>>

\* A key that no committed task holds; accept reuses the task of any other.
UnusedKeyMutant(k) == k \in Keys
UnusedKey(k) == \A t \in Tasks : taskKey[t] # k

accept(t, k) ==
    /\ taskState[t] = "absent"
    /\ taskKey' = [taskKey EXCEPT ![t] = k]
    /\ taskState' = [taskState EXCEPT ![t] = "queued"]
    /\ intent' = [intent EXCEPT ![t] = "pending"]
    /\ UNCHANGED <<taskAttempt, attemptTask>>

\* Tasks a pump may claim: their order is created_at, in whole milliseconds.
PendingMutant == {t \in Tasks : taskState[t] \in {"queued", "interrupted"}}
pending == {t \in Tasks : intent[t] = "pending" /\ taskState[t] = "queued"}

ActiveAttemptsMutant ==
    {a \in Attempts : /\ attemptTask[a] # NoTask
                      /\ taskAttempt[attemptTask[a]] = a
                      /\ taskState[attemptTask[a]] \in {"starting", "running"}}
activeAttempts ==
    {a \in Attempts : /\ attemptTask[a] # NoTask
                      /\ taskAttempt[attemptTask[a]] = a
                      /\ taskState[attemptTask[a]] \in Active}

\* a is a fresh identifier.
claim(t, a) ==
    /\ attemptTask[a] = NoTask
    /\ taskState' = [taskState EXCEPT ![t] = "starting"]
    /\ attemptTask' = [attemptTask EXCEPT ![a] = t]
    /\ intent' = [intent EXCEPT ![t] = "claimed"]
    /\ taskAttempt' = [taskAttempt EXCEPT ![t] = a]
    /\ UNCHANGED taskKey

InterruptSettledMutant(t) == SetTask(t, "interrupted", "needs_reconciliation")
interruptUnverified(t) ==
    IF taskState[t] \in Active
    THEN SetTask(t, "interrupted", "needs_reconciliation")
    ELSE UNCHANGED storeVars

(* reconcile imports a completion manifest.  Started is the task's state   *)
(* after its markStarted, and Imported the state it settles on, or the     *)
(* Started state when reconcile returns false.                             *)
Started(a) ==
    LET s == taskState[attemptTask[a]]
    IN  IF s = "starting" /\ manifest[a] # "none" THEN "running" ELSE s

CancelWinsMutant(a) ==
    CASE manifest[a] # "none" /\ Started(a) = "canceling" -> "canceled"
      [] manifest[a] = "zero" /\ Started(a) = "running" -> "succeeded"
      [] manifest[a] = "nonzero" /\ Started(a) = "running" -> "failed"
      [] OTHER -> Started(a)
Imported(a) ==
    CASE manifest[a] = "canceled" /\ Started(a) = "canceling" -> "canceled"
      [] manifest[a] = "zero" /\ Started(a) \in {"running", "canceling"}
            -> "succeeded"
      [] manifest[a] = "nonzero" /\ Started(a) \in {"running", "canceling"}
            -> "failed"
      [] OTHER -> Started(a)

Importable(a) ==
    /\ taskState[attemptTask[a]] \in Active
    /\ Imported(a) \in Terminal

reconcile(a) ==
    IF taskState[attemptTask[a]] \notin Active
    THEN UNCHANGED storeVars
    ELSE SetTask(attemptTask[a], Imported(a),
                 IF Importable(a) THEN "finished" ELSE "claimed")

\* The manifest is looked for again once the worker is known to be gone.
NoRecheckMutant(a) == interruptUnverified(attemptTask[a])
OnlyReconcileMutant(a) == reconcile(a)
ReconcileOrInterrupt(a) ==
    IF Importable(a) THEN reconcile(a)
                     ELSE interruptUnverified(attemptTask[a])

-----------------------------------------------------------------------------
(* The daemon.                                                             *)

Serving == daemon = "up" /\ phase = "idle"

\* The handler waits at p for its next step on attempt a.
Continue(p, a) ==
    /\ phase' = p /\ target' = a
    /\ UNCHANGED <<daemon, attached, todo, sweep>>

\* The step was the last of its handler, or of one attempt of recover.
Return ==
    /\ phase' = IF sweep = "none" THEN "idle" ELSE "recover"
    /\ target' = NoAttempt
    /\ UNCHANGED <<daemon, attached, todo, sweep>>

(* submit of a key for the first time; of a known key it changes nothing,  *)
(* whether it answers with the task or with IDEMPOTENCY_CONFLICT.          *)
Submit(k) ==
    /\ Serving
    /\ UnusedKey(k)
    /\ \E t \in Tasks : accept(t, k)
    /\ Continue("pump", NoAttempt)
    /\ UNCHANGED <<spoolVars, workerVars>>

HasSlotMutant == Cardinality(attached) < Concurrency
HasSlot == Cardinality(activeAttempts) < Concurrency

PumpClaim(t, a) ==
    /\ phase = "pump"
    /\ HasSlot
    /\ t \in pending
    /\ claim(t, a)
    /\ Continue("launch", a)
    /\ UNCHANGED <<spoolVars, workerVars>>

PumpDone ==
    /\ phase = "pump"
    /\ pending = {} \/ ~HasSlot
    /\ phase' = "idle" /\ sweep' = "none"
    /\ UNCHANGED <<daemon, attached, target, todo>>
    /\ UNCHANGED <<storeVars, spoolVars, workerVars>>

launch ==
    /\ phase = "launch"
    /\ worker' = [worker EXCEPT ![target] = "boot"]
    /\ attached' = attached \cup {target}
    /\ phase' = "pump" /\ target' = NoAttempt
    /\ UNCHANGED <<daemon, todo, sweep, storeVars, spoolVars>>
    /\ UNCHANGED <<handshake, timedOut, cancelConfirmed, command>>

(* Writing the bootstrap throws: the pump ends, the claim stays committed. *)
(* Nothing catches what a close event throws, nor start what its recover   *)
(* throws: see Exit.                                                       *)
LaunchFails ==
    /\ "io" \in Faults
    /\ phase = "launch" /\ sweep \notin {"initial", "event"}
    /\ phase' = "idle" /\ target' = NoAttempt /\ sweep' = "none"
    /\ UNCHANGED <<daemon, attached, todo>>
    /\ UNCHANGED <<storeVars, spoolVars, workerVars>>

(* worker.kill() once the ten seconds for READY are over.  A READY already *)
(* in the pipe is still read and answered afterwards.                      *)
GuardExpires(a) ==
    /\ Serving
    /\ a \in attached
    /\ worker[a] \in {"boot", "ready"} /\ handshake[a] \in {"none", "READY"}
    /\ worker' = [worker EXCEPT ![a] = "exited"]
    /\ UNCHANGED <<handshake, timedOut, cancelConfirmed, command>>
    /\ UNCHANGED <<storeVars, spoolVars, daemonVars>>

Answer(a, line) ==
    /\ handshake' = [handshake EXCEPT ![a] = line]
    /\ UNCHANGED <<worker, timedOut, cancelConfirmed, command>>

(* READY has been read.  A task being canceled is answered CANCEL; the GO  *)
(* of any other follows only the commit of markStarted.                    *)
ReadyCancel(a) ==
    /\ Serving
    /\ a \in attached /\ handshake[a] = "READY"
    /\ taskState[attemptTask[a]] = "canceling"
    /\ Answer(a, "CANCEL")
    /\ UNCHANGED <<storeVars, spoolVars, daemonVars>>

StartableMutant(a) == taskState[attemptTask[a]] \in Active
Startable(a) == taskState[attemptTask[a]] = "starting"

GoFirstMutant(a) ==
    /\ Serving
    /\ a \in attached /\ handshake[a] = "READY"
    /\ Startable(a)
    /\ Answer(a, "GO")
    /\ UNCHANGED <<storeVars, spoolVars, daemonVars>>

ReadyMarkStarted(a) ==
    /\ Serving
    /\ a \in attached /\ handshake[a] = "READY"
    /\ Startable(a)
    /\ SetTask(attemptTask[a], "running", "claimed")
    /\ Continue("go", a)
    /\ UNCHANGED <<spoolVars, workerVars>>

SendGo ==
    /\ phase = "go"
    /\ Answer(target, "GO")
    /\ Continue("idle", NoAttempt)
    /\ UNCHANGED <<storeVars, spoolVars>>

(* READY is read by a runner that is closed, or of an attempt that is      *)
(* neither starting nor being canceled: the worker is killed.              *)
ReadyKill(a) ==
    /\ a \in attached /\ handshake[a] = "READY"
    /\ daemon = "up" =>
           phase = "idle" /\ taskState[attemptTask[a]] \notin {"starting", "canceling"}
    /\ worker' = [worker EXCEPT ![a] = "exited"]
    /\ handshake' = [handshake EXCEPT ![a] = "eof"]
    /\ UNCHANGED <<timedOut, cancelConfirmed, command>>
    /\ UNCHANGED <<storeVars, spoolVars, daemonVars>>

\* The close event: the worker is gone and its pipes are read to their end.
WorkerClosed(a) ==
    /\ Serving
    /\ a \in attached
    /\ worker[a] = "exited" /\ handshake[a] # "READY"
    /\ attached' = attached \ {a}
    /\ ReconcileOrInterrupt(a)
    /\ phase' = "pump" /\ sweep' = "event"
    /\ UNCHANGED <<daemon, target, todo, spoolVars, workerVars>>

\* get, result, output or a poll of wait: imports the manifest, if there is one.
Get(t) ==
    /\ Serving
    /\ taskState[t] \in Active
    /\ Importable(taskAttempt[t])
    /\ reconcile(taskAttempt[t])
    /\ UNCHANGED <<spoolVars, workerVars, daemonVars>>

\* requestCancel settles at once only what was never dispatched.
NotDispatchedMutant(t) == taskState[t] \in {"queued", "starting"}
NotDispatched(t) == taskState[t] = "queued"

CancelQueued(t) ==
    /\ Serving
    /\ NotDispatched(t)
    /\ SetTask(t, "canceled", "canceled")
    /\ UNCHANGED <<spoolVars, workerVars, daemonVars>>

(* requestCancel of a dispatched task, after a get that found no manifest; *)
(* the worker may finalize at any moment, also before this commit.         *)
CancelActive(t) ==
    /\ Serving
    /\ taskState[t] \in Active
    /\ SetTask(t, "canceling", "claimed")
    /\ Continue("cancel", taskAttempt[t])
    /\ UNCHANGED <<spoolVars, workerVars>>

\* cancel writes the request, then reads the task once more.
WriteCancelRequest ==
    /\ phase = "cancel"
    /\ cancelRequest' = cancelRequest \cup {target}
    /\ reconcile(target)
    /\ Continue("idle", NoAttempt)
    /\ UNCHANGED <<identity, manifest, workerVars>>

WriteCancelFails ==
    /\ "io" \in Faults
    /\ phase = "cancel"
    /\ Continue("idle", NoAttempt)
    /\ UNCHANGED <<storeVars, spoolVars, workerVars>>

\* inspect of a task whose manifest get did not find.
Inspect(t) ==
    /\ Serving
    /\ taskState[t] \in Active
    /\ Continue("inspect", taskAttempt[t])
    /\ UNCHANGED <<storeVars, spoolVars, workerVars>>

(* inspectWorker: without an identity the worker is missing, whatever the  *)
(* operating system would say of it.                                       *)
VerifiedExitedMutant(a) == worker[a] = "exited" \/ a \notin identity
VerifiedExited(a) == a \in identity /\ worker[a] = "exited"

InspectExited ==
    /\ phase = "inspect"
    /\ VerifiedExited(target)
    /\ Continue("recheck", target)
    /\ UNCHANGED <<storeVars, spoolVars, workerVars>>

InspectOther ==
    /\ phase = "inspect"
    /\ ~VerifiedExited(target) \/ "io" \in Faults
    /\ Return
    /\ UNCHANGED <<storeVars, spoolVars, workerVars>>

Recheck ==
    /\ phase = "recheck"
    /\ ReconcileOrInterrupt(target)
    /\ Return
    /\ UNCHANGED <<spoolVars, workerVars>>

-----------------------------------------------------------------------------
(* Recovery, closing and crashes of the daemon.                            *)

BeginRecover(s) ==
    /\ phase' = "recover" /\ sweep' = s
    /\ todo' = activeAttempts
    /\ UNCHANGED <<attached, target, storeVars, spoolVars, workerVars>>

\* A daemon owns the pipe before it opens the store, so there is only one.
Start ==
    /\ daemon = "down"
    /\ daemon' = "up"
    /\ BeginRecover("initial")

(* Every second; five seconds after the last one that did, recover also    *)
(* inspects the workers of tasks being canceled.                           *)
RecoverTick(s) ==
    /\ Serving
    /\ BeginRecover(s)
    /\ UNCHANGED daemon

InspectsMutant(a) == sweep = "initial"
Inspects(a) ==
    \/ sweep = "initial"
    \/ sweep = "canceling" /\ taskState[attemptTask[a]] = "canceling"

RecoverAttempt(a) ==
    /\ phase = "recover" /\ a \in todo
    /\ todo' = todo \ {a}
    /\ reconcile(a)
    /\ IF ~Importable(a) /\ Inspects(a)
       THEN phase' = "inspect" /\ target' = a
       ELSE UNCHANGED <<phase, target>>
    /\ UNCHANGED <<daemon, attached, sweep, spoolVars, workerVars>>

RecoverDone ==
    /\ phase = "recover" /\ todo = {}
    /\ phase' = "pump"
    /\ UNCHANGED <<daemon, attached, target, todo, sweep>>
    /\ UNCHANGED <<storeVars, spoolVars, workerVars>>

\* An exception leaves the loop: the attempts left are not visited.
RecoverFails ==
    /\ "io" \in Faults
    /\ phase \in {"recover", "inspect", "recheck"} /\ sweep \in {"manifests", "canceling"}
    /\ phase' = "idle" /\ target' = NoAttempt /\ todo' = {} /\ sweep' = "none"
    /\ UNCHANGED <<daemon, attached, storeVars, spoolVars, workerVars>>

\* close() stops the handlers and nothing else.
Close ==
    /\ "close" \in Faults
    /\ Serving
    /\ daemon' = "closed"
    /\ UNCHANGED <<attached, phase, target, todo, sweep>>
    /\ UNCHANGED <<storeVars, spoolVars, workerVars>>

(* The daemon process ends: after close, by a crash, or because its start  *)
(* or a close event threw.  Its ends of the pipes close, and what it wrote *)
(* into them last may never be read.                                       *)
Exit ==
    /\ \/ daemon = "closed"
       \/ daemon = "up" /\ "crash" \in Faults
       \/ sweep \in {"initial", "event"} /\ "io" \in Faults
    /\ daemon' = "down" /\ attached' = {}
    /\ phase' = "idle" /\ target' = NoAttempt /\ todo' = {} /\ sweep' = "none"
    /\ \E lost \in SUBSET {a \in attached : /\ worker[a] = "ready"
                                            /\ handshake[a] \in {"GO", "CANCEL"}} :
           handshake' = [a \in Attempts |->
               IF a \in lost \/ (a \in attached /\ handshake[a] \in {"none", "READY"})
               THEN "eof" ELSE handshake[a]]
    /\ UNCHANGED <<worker, timedOut, cancelConfirmed, command>>
    /\ UNCHANGED <<storeVars, spoolVars>>

-----------------------------------------------------------------------------
(* The worker of an attempt, and its command.                              *)

Step(a, from, to) ==
    /\ worker[a] = from
    /\ worker' = [worker EXCEPT ![a] = to]

WorkerReady(a) ==
    /\ Step(a, "boot", "ready")
    /\ handshake' = [handshake EXCEPT ![a] = IF @ = "none" THEN "READY" ELSE @]
    /\ UNCHANGED <<timedOut, cancelConfirmed, command>>
    /\ UNCHANGED <<storeVars, spoolVars, daemonVars>>

ReadGo(a) ==
    /\ handshake[a] = "GO"
    /\ Step(a, "ready", "authorized")
    /\ UNCHANGED <<handshake, timedOut, cancelConfirmed, command>>
    /\ UNCHANGED <<storeVars, spoolVars, daemonVars>>

\* CANCEL: the worker attests that it never spawned a command.
ReadCancel(a) ==
    /\ handshake[a] = "CANCEL"
    /\ Step(a, "ready", "done")
    /\ manifest' = [manifest EXCEPT ![a] = "canceled"]
    /\ UNCHANGED <<handshake, timedOut, cancelConfirmed, command>>
    /\ UNCHANGED <<storeVars, identity, cancelRequest, daemonVars>>

\* WORKER_HANDSHAKE_LOST: no identity, no command and no manifest.
HandshakeLost(a) ==
    /\ handshake[a] = "eof"
    /\ Step(a, "ready", "exited")
    /\ UNCHANGED <<handshake, timedOut, cancelConfirmed, command>>
    /\ UNCHANGED <<storeVars, spoolVars, daemonVars>>

WriteIdentity(a) ==
    /\ Step(a, "authorized", "identified")
    /\ identity' = identity \cup {a}
    /\ UNCHANGED <<handshake, timedOut, cancelConfirmed, command>>
    /\ UNCHANGED <<storeVars, cancelRequest, manifest, daemonVars>>

\* The command runs, or its executable cannot be started.
SpawnCommand(a) ==
    /\ Step(a, "identified", "supervising")
    /\ \E c \in {"live", "nonzero"} : command' = [command EXCEPT ![a] = c]
    /\ UNCHANGED <<handshake, timedOut, cancelConfirmed>>
    /\ UNCHANGED <<storeVars, spoolVars, daemonVars>>

CommandExits(a) ==
    /\ command[a] = "live"
    /\ \E c \in {"zero", "nonzero"} : command' = [command EXCEPT ![a] = c]
    /\ UNCHANGED <<worker, handshake, timedOut, cancelConfirmed>>
    /\ UNCHANGED <<storeVars, spoolVars, daemonVars>>

(* stopTree: what it makes of the command, and whether it returns true.    *)
(* Killing a group whose leader has ended but is not reaped succeeds on    *)
(* POSIX; taskkill of a process that is gone fails.                        *)
StopTree(a) ==
    {r \in [tree : CommandStates, confirmed : BOOLEAN] :
        IF command[a] = "live"
        THEN IF r.confirmed THEN r.tree = "killed"
                            ELSE "kill" \in Faults /\ r.tree \in {"killed", "live"}
        ELSE r.tree = command[a]}

(* The interval that polls cancel.request, until a stop is confirmed.      *)
PollCancel(a) ==
    /\ worker[a] = "supervising"
    /\ a \in cancelRequest \ cancelConfirmed
    /\ \E r \in StopTree(a) :
           /\ command' = [command EXCEPT ![a] = r.tree]
           /\ cancelConfirmed' = IF r.confirmed THEN cancelConfirmed \cup {a}
                                         ELSE cancelConfirmed
    /\ UNCHANGED <<worker, handshake, timedOut>>
    /\ UNCHANGED <<storeVars, spoolVars, daemonVars>>

\* The execution timeout fires once and does not look at stopTree's answer.
Timeout(a) ==
    /\ worker[a] = "supervising"
    /\ a \notin timedOut
    /\ timedOut' = timedOut \cup {a}
    /\ \E r \in StopTree(a) : command' = [command EXCEPT ![a] = r.tree]
    /\ UNCHANGED <<worker, handshake, cancelConfirmed>>
    /\ UNCHANGED <<storeVars, spoolVars, daemonVars>>

Evidence(a) ==
    IF a \in cancelConfirmed THEN "canceled"
    ELSE IF command[a] = "zero" /\ a \notin timedOut THEN "zero" ELSE "nonzero"

\* The command's close event: its tree has ended and its output is read.
Finalize(a) ==
    /\ command[a] # "live"
    /\ Step(a, "supervising", "done")
    /\ manifest' = [manifest EXCEPT ![a] = Evidence(a)]
    /\ UNCHANGED <<handshake, timedOut, cancelConfirmed, command>>
    /\ UNCHANGED <<storeVars, identity, cancelRequest, daemonVars>>

(* main returns, the worker throws (its identity, its output or its        *)
(* manifest cannot be written), or it dies.                                *)
WorkerExit(a) ==
    /\ \/ worker[a] = "done"
       \/ worker[a] \in {"boot", "ready", "authorized"} /\ "io" \in Faults
       \/ worker[a] = "supervising" /\ command[a] # "live" /\ "io" \in Faults
       \/ worker[a] \in Alive /\ "worker" \in Faults
    /\ worker' = [worker EXCEPT ![a] = "exited"]
    /\ UNCHANGED <<handshake, timedOut, cancelConfirmed, command>>
    /\ UNCHANGED <<storeVars, spoolVars, daemonVars>>

-----------------------------------------------------------------------------

Client ==
    \/ \E k \in Keys : Submit(k)
    \/ \E t \in Tasks : Get(t) \/ CancelQueued(t) \/ CancelActive(t) \/ Inspect(t)

\* A handler goes on from where it is.
Proceed ==
    \/ \E t \in Tasks, a \in Attempts : PumpClaim(t, a)
    \/ PumpDone \/ launch \/ LaunchFails \/ SendGo
    \/ WriteCancelRequest \/ WriteCancelFails
    \/ InspectExited \/ InspectOther \/ Recheck
    \/ \E a \in Attempts : RecoverAttempt(a)
    \/ RecoverDone \/ RecoverFails

WorkerEvent(a) ==
    \/ ReadyCancel(a) \/ ReadyMarkStarted(a) \/ ReadyKill(a)
    \/ WorkerClosed(a) \/ GuardExpires(a)

WorkerStep(a) ==
    \/ WorkerReady(a) \/ ReadGo(a) \/ ReadCancel(a) \/ HandshakeLost(a)
    \/ WriteIdentity(a) \/ SpawnCommand(a)
    \/ PollCancel(a) \/ Timeout(a) \/ Finalize(a) \/ WorkerExit(a)

Next ==
    \/ Client \/ Proceed
    \/ \E a \in Attempts : WorkerEvent(a) \/ WorkerStep(a) \/ CommandExits(a)
    \/ Start \/ \E s \in {"manifests", "canceling"} : RecoverTick(s)
    \/ Close \/ Exit

Spec == Init /\ [][Next]_vars

(* Handlers and processes do not stop by themselves; the event loop gets   *)
(* to every pipe and timer, also when other handlers run in between; the   *)
(* desktop starts a daemon when there is none.  Nothing is assumed of      *)
(* clients, of commands, which may run forever, or of faults.              *)
Fairness ==
    /\ WF_vars(Proceed) /\ WF_vars(Start) /\ SF_vars(RecoverTick("canceling"))
    /\ \A a \in Attempts :
           /\ SF_vars(ReadyCancel(a) \/ ReadyMarkStarted(a))
           /\ SF_vars(WorkerClosed(a))
           /\ WF_vars(WorkerStep(a))
           /\ WF_vars(Timeout(a))

FairSpec == Spec /\ Fairness

-----------------------------------------------------------------------------
(* Properties.                                                             *)

Ran(a) == command[a] # "none"

StateOf(a) == IF attemptTask[a] = NoTask THEN "absent" ELSE taskState[attemptTask[a]]

(* A submission runs its command at most once: no resubmission of its key, *)
(* pump, recovery or restart of the daemon spawns a second command for it. *)
RunsAtMostOnce ==
    \A a, b \in Attempts :
        Ran(a) /\ Ran(b) /\ taskKey[attemptTask[a]] = taskKey[attemptTask[b]]
            => a = b

(* A task is canceled only when its command is not running and no worker   *)
(* is left that would still spawn it, also when the cancellation raced the *)
(* claim, the handshake or a restart.                                      *)
CanceledMeansStopped ==
    \A a \in Attempts :
        StateOf(a) = "canceled"
            => command[a] # "live" /\ worker[a] \notin Supervised

(* The outcome of a task is called unknown only if its worker left no      *)
(* completion manifest, also when the manifest appears while recover or    *)
(* inspect is asking the operating system about the worker.                *)
InterruptedLeftNoManifest ==
    \A a \in Attempts :
        StateOf(a) = "interrupted"
            => manifest[a] = "none" /\ worker[a] \in {"none", "exited"}

(* What a task settles on is what its command did: a success is a command  *)
(* that ended with code 0, before its timeout and without a confirmed      *)
(* stop, and a natural end that wins the race with a cancel is kept.       *)
ResultIsEvidence ==
    \A a \in Attempts :
        /\ StateOf(a) = "succeeded" => /\ command[a] = "zero"
                                       /\ a \notin timedOut \cup cancelConfirmed
        /\ StateOf(a) = "failed" => Ran(a) /\ a \notin cancelConfirmed
        /\ StateOf(a) = "canceled" => a \in cancelConfirmed \/ ~Ran(a)

(* The command starts only after the store has committed that its task was *)
(* started and the worker has committed its identity: a daemon that comes  *)
(* back can never take a task whose command ran for one that did not.      *)
StartIsDurable ==
    \A a \in Attempts : Ran(a) =>
        /\ a \in identity
        /\ StateOf(a) \in {"running", "canceling"} \cup Terminal

(* The workers that may run a command are never more than Concurrency,     *)
(* those that outlived the daemon that spawned them included.              *)
SupervisedBounded ==
    Cardinality({a \in Attempts : worker[a] \in Supervised}) <= Concurrency

(* A worker attests a cancellation only of a task that was asked to cancel *)
(* and still is canceling, so reconcile never drops such a manifest.       *)
CancelEvidenceWasRequested ==
    \A a \in Attempts : manifest[a] = "canceled" =>
        StateOf(a) \in {"canceling", "canceled"}

(* A settled task never changes again, whatever late request, event or     *)
(* recovery still names it.                                                *)
SettledIsFinal ==
    [][\A t \in Tasks : taskState[t] \in Terminal =>
           taskState'[t] = taskState[t] /\ taskAttempt'[t] = taskAttempt[t]]_vars

(* The runtime implements DurableTask: what a client reads of a task and   *)
(* what its command does are a behaviour of that specification.            *)
Task == INSTANCE DurableTask WITH
    status <- [t \in Tasks |-> IF taskState[t] \in {"queued"} \cup Active
                               THEN "accepted" ELSE taskState[t]],
    effect <- [t \in Tasks |-> IF taskAttempt[t] = NoAttempt
                               THEN "none" ELSE command[taskAttempt[t]]]
ImplementsDurableTask == Task!TaskSpec

(* While the daemon stays up and nothing fails, every accepted task        *)
(* settles: its slot is given back, and the next one is dispatched.        *)
EveryTaskSettles ==
    \A t \in Tasks : taskState[t] = "queued" ~> taskState[t] \in Terminal

(* Once the daemon is back for good, every manifest a worker left behind   *)
(* is imported, also when no client ever asks for the task.                *)
ManifestIsImported ==
    <>[](daemon = "up") =>
        \A a \in Attempts :
            manifest[a] # "none" ~> StateOf(a) \in Terminal

(* Once the daemon is back for good, a task being canceled whose worker    *)
(* committed its identity settles, whether the worker saw the request,     *)
(* ran out of time or died on the way: recover asks for it again.          *)
IdentifiedCancelSettles ==
    <>[](daemon = "up") =>
        \A a \in Attempts :
            StateOf(a) = "canceling" /\ a \in identity ~> StateOf(a) \in Terminal

(* docs/durable-runtime-p2-cancellation.md: a cancel request survives the  *)
(* shutdown of the daemon, and is still carried out by the next one.       *)
CancelSurvivesRestart ==
    <>[](daemon = "up") =>
        \A t \in Tasks : taskState[t] = "canceling" ~> taskState[t] \in Terminal
=============================================================================
