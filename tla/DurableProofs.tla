---------------------------- MODULE DurableProofs ----------------------------
(***************************************************************************)
(* DurableExecution for any number of keys, tasks and attempts, any        *)
(* concurrency and any faults.  TypeOK and IInv are inductive together;    *)
(* the safety properties follow from them.                                 *)
(***************************************************************************)
EXTENDS DurableInvariant, FiniteSetTheorems, TLAPS

\* Nothing is accepted and nothing runs at first.
LEMMA InitInv == Init => TypeOK /\ IInv
<1> SUFFICES ASSUME Init PROVE TypeOK /\ IInv
    OBVIOUS
<1> USE ConstantsAssumption DEF Init
<1>1. TypeOK
    BY DEF TypeOK, TaskStates, CommandStates, Active, Terminal, Alive,
           Supervised, BeforeSpawn
<1>2. Linked /\ Accepted /\ HandlerKnows
    BY DEF Linked, Accepted, HandlerKnows, Active
<1>3. \A a \in Attempts : AttemptInv(a)
    BY DEF AttemptInv, Untouched, WorkerOrder, StoreFollows, Evident, StateOf,
           Supervised, BeforeSpawn
<1> QED BY <1>1, <1>2, <1>3 DEF IInv

\* No step leaves the types; a handler's target is an attempt by HandlerKnows.
LEMMA TypeStep == TypeOK /\ IInv /\ [Next]_vars => TypeOK'
<1> SUFFICES ASSUME TypeOK, IInv, [Next]_vars PROVE TypeOK'
    OBVIOUS
<1> USE DEF
        TypeOK, TaskStates, CommandStates, Active, Terminal, Alive, Supervised,
        BeforeSpawn, storeVars, spoolVars, workerVars, daemonVars, IInv, Linked,
        Accepted, HandlerKnows
<1>1. CASE Client
    <2>1. ASSUME NEW k \in Keys, Submit(k) PROVE TypeOK'
        BY <2>1 DEF Submit, accept, Continue
    <2>2. ASSUME NEW t \in Tasks, Get(t) PROVE TypeOK'
        BY <2>2 DEF Get, reconcile, SetTask, Imported, Started, Importable
    <2>3. ASSUME NEW t \in Tasks, CancelQueued(t) PROVE TypeOK'
        BY <2>3 DEF CancelQueued, SetTask
    <2>4. ASSUME NEW t \in Tasks, CancelActive(t) PROVE TypeOK'
        BY <2>4 DEF CancelActive, SetTask, Continue
    <2>5. ASSUME NEW t \in Tasks, Inspect(t) PROVE TypeOK'
        BY <2>5 DEF Inspect, Continue
    <2> QED BY <1>1, <2>1, <2>2, <2>3, <2>4, <2>5 DEF Client
<1>2. CASE Proceed
    <2>1. ASSUME NEW t \in Tasks, NEW a \in Attempts, PumpClaim(t, a) PROVE TypeOK'
        BY <2>1 DEF PumpClaim, claim, Continue
    <2>2. CASE PumpDone
        BY <2>2 DEF PumpDone, Continue
    <2>3. CASE launch
        BY <2>3 DEF launch
    <2>4. CASE LaunchFails
        BY <2>4 DEF LaunchFails, Continue
    <2>5. CASE SendGo
        BY <2>5 DEF SendGo, Continue, Answer
    <2>6. CASE WriteCancelRequest
        BY <2>6 DEF WriteCancelRequest, Continue, reconcile, SetTask, Imported, Started
    <2>7. CASE WriteCancelFails
        BY <2>7 DEF WriteCancelFails, Continue
    <2>8. CASE InspectExited
        BY <2>8 DEF InspectExited, Continue
    <2>9. CASE InspectOther
        BY <2>9 DEF InspectOther, Return
    <2>10. CASE Recheck
        BY <2>10 DEF Recheck, Return, ReconcileOrInterrupt, reconcile,
          interruptUnverified, SetTask, Imported, Started
    <2>11. ASSUME NEW a \in Attempts, RecoverAttempt(a) PROVE TypeOK'
        BY <2>11 DEF RecoverAttempt, reconcile, SetTask, Imported, Started
    <2>12. CASE RecoverDone
        BY <2>12 DEF RecoverDone
    <2>13. CASE RecoverFails
        BY <2>13 DEF RecoverFails
    <2> QED BY <1>2, <2>1, <2>2, <2>3, <2>4, <2>5, <2>6, <2>7, <2>8, <2>9, <2>10, <2>11, <2>12, <2>13 DEF Proceed
<1>3. ASSUME NEW a \in Attempts, WorkerEvent(a) PROVE TypeOK'
    <2>1. CASE ReadyCancel(a)
        BY <2>1 DEF ReadyCancel, Answer
    <2>2. CASE ReadyMarkStarted(a)
        BY <2>2 DEF ReadyMarkStarted, SetTask, Continue
    <2>3. CASE ReadyKill(a)
        BY <2>3 DEF ReadyKill
    <2>4. CASE WorkerClosed(a)
        BY <2>4 DEF WorkerClosed, ReconcileOrInterrupt, reconcile, interruptUnverified,
          SetTask, Imported, Started
    <2>5. CASE GuardExpires(a)
        BY <2>5 DEF GuardExpires
    <2> QED BY <1>3, <2>1, <2>2, <2>3, <2>4, <2>5 DEF WorkerEvent
<1>4. ASSUME NEW a \in Attempts, WorkerStep(a) PROVE TypeOK'
    <2>1. CASE WorkerReady(a)
        BY <2>1 DEF WorkerReady, Step
    <2>2. CASE ReadGo(a)
        BY <2>2 DEF ReadGo, Step
    <2>3. CASE ReadCancel(a)
        BY <2>3 DEF ReadCancel, Step
    <2>4. CASE HandshakeLost(a)
        BY <2>4 DEF HandshakeLost, Step
    <2>5. CASE WriteIdentity(a)
        BY <2>5 DEF WriteIdentity, Step
    <2>6. CASE SpawnCommand(a)
        BY <2>6 DEF SpawnCommand, Step
    <2>7. CASE PollCancel(a)
        BY <2>7 DEF PollCancel, StopTree
    <2>8. CASE Timeout(a)
        BY <2>8 DEF Timeout, StopTree
    <2>9. CASE Finalize(a)
        BY <2>9 DEF Finalize, Step, Evidence
    <2>10. CASE WorkerExit(a)
        BY <2>10 DEF WorkerExit
    <2> QED BY <1>4, <2>1, <2>2, <2>3, <2>4, <2>5, <2>6, <2>7, <2>8, <2>9, <2>10 DEF WorkerStep
<1>5. ASSUME NEW a \in Attempts, CommandExits(a) PROVE TypeOK'
    BY <1>5 DEF CommandExits
<1>6. CASE Start
    BY <1>6 DEF Start, BeginRecover, activeAttempts
<1>7. ASSUME NEW s \in {"manifests", "canceling"}, RecoverTick(s) PROVE TypeOK'
    BY <1>7 DEF RecoverTick, BeginRecover, activeAttempts
<1>8. CASE Close
    BY <1>8 DEF Close
<1>9. CASE Exit
    BY <1>9 DEF Exit
<1>10. CASE UNCHANGED vars
    BY <1>10 DEF vars
<1> QED BY <1>1, <1>2, <1>3, <1>4, <1>5, <1>6, <1>7, <1>8, <1>9, <1>10 DEF Next

\* Every step of the store, the daemon, a worker or a fault keeps IInv.
LEMMA InvStep == TypeOK /\ IInv /\ [Next]_vars => IInv'
<1> SUFFICES ASSUME TypeOK, IInv, [Next]_vars PROVE IInv'
    BY SMTT(30)
<1> USE ConstantsAssumption DEF
        TypeOK, TaskStates, CommandStates, Active, Terminal, Alive, Supervised,
        BeforeSpawn, storeVars, spoolVars, workerVars, daemonVars, IInv, Linked,
        Accepted, HandlerKnows, AttemptInv, Untouched, WorkerOrder,
        StoreFollows, Evident, StateOf, Serving
<1>1. CASE Client
    <2>1. ASSUME NEW k \in Keys, Submit(k) PROVE IInv'
        BY <2>1 DEF Submit, accept, Continue, UnusedKey
    <2>2. ASSUME NEW t \in Tasks, Get(t) PROVE IInv'
        BY <2>2 DEF Get, reconcile, SetTask, Imported, Started, Importable, Importable
    <2>3. ASSUME NEW t \in Tasks, CancelQueued(t) PROVE IInv'
        BY <2>3 DEF CancelQueued, SetTask, NotDispatched
    <2>4. ASSUME NEW t \in Tasks, CancelActive(t) PROVE IInv'
        BY <2>4 DEF CancelActive, SetTask, Continue
    <2>5. ASSUME NEW t \in Tasks, Inspect(t) PROVE IInv'
        BY <2>5, SMTT(30) DEF Inspect, Continue
    <2> QED BY <1>1, <2>1, <2>2, <2>3, <2>4, <2>5 DEF Client
<1>2. CASE Proceed
    <2>1. ASSUME NEW t \in Tasks, NEW a \in Attempts, PumpClaim(t, a) PROVE IInv'
        BY <2>1 DEF PumpClaim, claim, Continue, pending
    <2>2. CASE PumpDone
        BY <2>2 DEF PumpDone, Continue
    <2>3. CASE launch
        BY <2>3 DEF launch
    <2>4. CASE LaunchFails
        BY <2>4 DEF LaunchFails, Continue
    <2>5. CASE SendGo
        BY <2>5 DEF SendGo, Continue, Answer
    <2>6. CASE WriteCancelRequest
        BY <2>6 DEF WriteCancelRequest, Continue, reconcile, SetTask, Imported, Started,
          Importable
    <2>7. CASE WriteCancelFails
        BY <2>7 DEF WriteCancelFails, Continue
    <2>8. CASE InspectExited
        BY <2>8 DEF InspectExited, Continue, VerifiedExited
    <2>9. CASE InspectOther
        BY <2>9 DEF InspectOther, Return, VerifiedExited
    <2>10. CASE Recheck
        BY <2>10 DEF Recheck, Return, ReconcileOrInterrupt, reconcile,
          interruptUnverified, SetTask, Imported, Started, Importable
    <2>11. ASSUME NEW a \in Attempts, RecoverAttempt(a) PROVE IInv'
        BY <2>11 DEF RecoverAttempt, reconcile, SetTask, Imported, Started, Importable
    <2>12. CASE RecoverDone
        BY <2>12 DEF RecoverDone
    <2>13. CASE RecoverFails
        BY <2>13, SMTT(30) DEF RecoverFails
    <2> QED BY <1>2, <2>1, <2>2, <2>3, <2>4, <2>5, <2>6, <2>7, <2>8, <2>9, <2>10, <2>11, <2>12, <2>13 DEF Proceed
<1>3. ASSUME NEW a \in Attempts, WorkerEvent(a) PROVE IInv'
    <2>1. CASE ReadyCancel(a)
        BY <2>1 DEF ReadyCancel, Answer
    <2>2. CASE ReadyMarkStarted(a)
        BY <2>2 DEF ReadyMarkStarted, SetTask, Continue, Startable
    <2>3. CASE ReadyKill(a)
        BY <2>3 DEF ReadyKill
    <2>4. CASE WorkerClosed(a)
        BY <2>4 DEF WorkerClosed, ReconcileOrInterrupt, reconcile, interruptUnverified,
          SetTask, Imported, Started, Importable
    <2>5. CASE GuardExpires(a)
        BY <2>5, SMTT(30) DEF GuardExpires
    <2> QED BY <1>3, <2>1, <2>2, <2>3, <2>4, <2>5 DEF WorkerEvent
<1>4. ASSUME NEW a \in Attempts, WorkerStep(a) PROVE IInv'
    <2>1. CASE WorkerReady(a)
        BY <2>1 DEF WorkerReady, Step
    <2>2. CASE ReadGo(a)
        BY <2>2 DEF ReadGo, Step
    <2>3. CASE ReadCancel(a)
        BY <2>3 DEF ReadCancel, Step
    <2>4. CASE HandshakeLost(a)
        BY <2>4 DEF HandshakeLost, Step
    <2>5. CASE WriteIdentity(a)
        BY <2>5 DEF WriteIdentity, Step
    <2>6. CASE SpawnCommand(a)
        BY <2>6 DEF SpawnCommand, Step
    <2>7. CASE PollCancel(a)
        BY <2>7 DEF PollCancel, StopTree
    <2>8. CASE Timeout(a)
        BY <2>8 DEF Timeout, StopTree
    <2>9. CASE Finalize(a)
        BY <2>9 DEF Finalize, Step, Evidence
    <2>10. CASE WorkerExit(a)
        BY <2>10 DEF WorkerExit
    <2> QED BY <1>4, <2>1, <2>2, <2>3, <2>4, <2>5, <2>6, <2>7, <2>8, <2>9, <2>10 DEF WorkerStep
<1>5. ASSUME NEW a \in Attempts, CommandExits(a) PROVE IInv'
    BY <1>5 DEF CommandExits
<1>6. CASE Start
    BY <1>6 DEF Start, BeginRecover, activeAttempts
<1>7. ASSUME NEW s \in {"manifests", "canceling"}, RecoverTick(s) PROVE IInv'
    BY <1>7 DEF RecoverTick, BeginRecover, activeAttempts
<1>8. CASE Close
    BY <1>8 DEF Close
<1>9. CASE Exit
    BY <1>9 DEF Exit
<1>10. CASE UNCHANGED vars
    BY <1>10 DEF vars
<1> HIDE DEF IInv
<1> QED BY <1>1, <1>2, <1>3, <1>4, <1>5, <1>6, <1>7, <1>8, <1>9, <1>10 DEF Next

\* The inductive invariant holds in every behaviour of the runtime.
THEOREM Invariance == Spec => [](TypeOK /\ IInv)
<1>1. Init => TypeOK /\ IInv
    BY InitInv
<1>2. TypeOK /\ IInv /\ [Next]_vars => (TypeOK /\ IInv)'
    BY TypeStep, InvStep
<1> QED BY <1>1, <1>2, PTL DEF Spec

\* Every variable of the runtime keeps its type.
THEOREM TypeCorrect == Spec => []TypeOK
BY Invariance, PTL

(* A submission runs its command at most once, however often its key is    *)
(* submitted, the daemon restarts and its tasks are recovered: a key has   *)
(* one task, a task one attempt and an attempt one worker.                 *)
THEOREM AtMostOnce == Spec => []RunsAtMostOnce
<1>1. TypeOK /\ IInv => RunsAtMostOnce
    <2> SUFFICES ASSUME TypeOK, IInv, NEW a \in Attempts, NEW b \in Attempts,
                        Ran(a), Ran(b),
                        taskKey[attemptTask[a]] = taskKey[attemptTask[b]]
                 PROVE  a = b
        BY DEF RunsAtMostOnce
    <2> USE ConstantsAssumption
    <2>1. \A x \in {a, b} : attemptTask[x] \in Tasks /\ taskAttempt[attemptTask[x]] = x
        BY DEF TypeOK, IInv, Linked, AttemptInv, Untouched, Ran
    <2>2. \A x \in {a, b} : taskKey[attemptTask[x]] \in Keys
        BY <2>1 DEF TypeOK, IInv, Accepted
    <2> QED BY <2>1, <2>2 DEF IInv, Accepted
<1> QED BY <1>1, Invariance, PTL

(* A canceled task has no running command and no worker that would still   *)
(* spawn it: only a worker that is done attests a cancellation.            *)
THEOREM CancelStops == Spec => []CanceledMeansStopped
<1>1. TypeOK /\ IInv => CanceledMeansStopped
    BY DEF CanceledMeansStopped, IInv, AttemptInv, Evident, WorkerOrder,
           Supervised, BeforeSpawn
<1> QED BY <1>1, Invariance, PTL

(* No completion is lost: a task is interrupted only when its worker is    *)
(* gone and has left no manifest, and then none can appear any more.       *)
THEOREM NoLostCompletion == Spec => []InterruptedLeftNoManifest
<1>1. TypeOK /\ IInv => InterruptedLeftNoManifest
    BY DEF InterruptedLeftNoManifest, IInv, AttemptInv, Evident
<1> QED BY <1>1, Invariance, PTL

\* The state a task settles on agrees with what its command did.
THEOREM ResultsAreEvidence == Spec => []ResultIsEvidence
<1>1. TypeOK /\ IInv => ResultIsEvidence
    BY DEF ResultIsEvidence, IInv, AttemptInv, Evident, Ran
<1> QED BY <1>1, Invariance, PTL

(* A command runs only after its task's start and its worker's identity    *)
(* are durable.                                                            *)
THEOREM DurableStart == Spec => []StartIsDurable
<1>1. TypeOK /\ IInv => StartIsDurable
    <2> SUFFICES ASSUME TypeOK, IInv, NEW a \in Attempts, Ran(a)
                 PROVE  /\ a \in identity
                        /\ StateOf(a) \in {"running", "canceling"} \cup Terminal
        BY DEF StartIsDurable
    <2>1. a \in identity /\ handshake[a] = "GO" /\ attemptTask[a] # NoTask
        BY DEF IInv, AttemptInv, WorkerOrder, Untouched, Ran
    <2>2. StateOf(a) \in TaskStates \ {"absent", "queued", "starting"}
        BY <2>1, ConstantsAssumption
           DEF StateOf, TypeOK, IInv, AttemptInv, StoreFollows, Accepted, Linked
    <2> QED BY <2>1, <2>2 DEF TaskStates, Active, Terminal
<1> QED BY <1>1, Invariance, PTL

\* A cancellation manifest is never one that reconcile must drop.
THEOREM CancelEvidence == Spec => []CancelEvidenceWasRequested
<1>1. TypeOK /\ IInv => CancelEvidenceWasRequested
    BY DEF CancelEvidenceWasRequested, IInv, AttemptInv, Evident
<1> QED BY <1>1, Invariance, PTL

-----------------------------------------------------------------------------
(* What one step of the runtime may do to the store and to a command, and  *)
(* what follows from it: a settled task is final, the workers are never    *)
(* more than the concurrency, and the runtime implements DurableTask.      *)

\* The moves a transaction makes from one state of a task to another.
CanMove(from, to) ==
    \/ from = to
    \/ from = "queued" /\ to = "canceled"
    \/ from = "starting" /\ to = "running"
    \/ from \in {"starting", "running"} /\ to = "canceling"
    \/ from \in Active /\ to \in Terminal

IntentStates ==
    {"pending", "claimed", "finished", "canceled", "needs_reconciliation"}

Move(t) ==
    \E s \in TaskStates, i \in IntentStates :
        SetTask(t, s, i) /\ CanMove(taskState[t], s)

StoreStep ==
    \/ UNCHANGED storeVars
    \/ \E t \in Tasks, k \in Keys : accept(t, k)
    \/ \E t \in pending, a \in Attempts : HasSlot /\ claim(t, a)
    \/ \E t \in Tasks : Move(t)

(* The command of an attempt begins, or its tree ends or is killed.        *)
CommandChange(a, c) ==
    /\ command' = [command EXCEPT ![a] = c]
    /\ \/ /\ command[a] = "none" /\ c \in {"live", "nonzero"}
          /\ worker[a] = "identified"
       \/ command[a] = "live" /\ c \in {"zero", "nonzero", "killed"}

CommandStep ==
    \/ UNCHANGED command
    \/ UNCHANGED storeVars /\ \E a \in Attempts, c \in CommandStates : CommandChange(a, c)

\* Importing a manifest, or failing to, is a move.
LEMMA ReconcileMoves ==
    ASSUME TypeOK, NEW a \in Attempts, attemptTask[a] \in Tasks, reconcile(a)
    PROVE  StoreStep
<1> DEFINE t == attemptTask[a]
<1>1. CASE taskState[t] \notin Active
    BY <1>1 DEF reconcile, StoreStep
<1>2. CASE taskState[t] \in Active
    <2>1. PICK i \in {"finished", "claimed"} : SetTask(t, Imported(a), i)
        BY <1>2 DEF reconcile
    <2>2. Imported(a) \in TaskStates /\ CanMove(taskState[t], Imported(a))
        BY <1>2 DEF Imported, Started, CanMove, TaskStates, Active, Terminal
    <2> QED BY <2>1, <2>2 DEF StoreStep, Move, IntentStates
<1> QED BY <1>1, <1>2

\* So is what follows the exit of a worker.
LEMMA SettleMoves ==
    ASSUME TypeOK, NEW a \in Attempts, attemptTask[a] \in Tasks,
           ReconcileOrInterrupt(a)
    PROVE  StoreStep
<1> DEFINE t == attemptTask[a]
<1>1. CASE reconcile(a)
    BY <1>1, ReconcileMoves
<1>2. CASE interruptUnverified(t)
    <2>1. CASE taskState[t] \notin Active
        BY <1>2, <2>1 DEF interruptUnverified, StoreStep
    <2>2. CASE taskState[t] \in Active
        <3>1. SetTask(t, "interrupted", "needs_reconciliation")
            BY <1>2, <2>2 DEF interruptUnverified
        <3> QED BY <3>1, <2>2
                DEF StoreStep, Move, IntentStates, CanMove, Terminal, TaskStates
    <2> QED BY <2>1, <2>2
<1> QED BY <1>1, <1>2 DEF ReconcileOrInterrupt

\* An attempt named by a task, by todo or by its worker belongs to a task.
LEMMA AttemptOfTask ==
    ASSUME TypeOK, IInv
    PROVE  /\ \A t \in Tasks : taskState[t] \in Active =>
                  taskAttempt[t] \in Attempts /\ attemptTask[taskAttempt[t]] = t
           /\ \A a \in attached \cup todo : a \in Attempts /\ attemptTask[a] \in Tasks
           /\ phase \in {"cancel", "recheck"} =>
                  target \in Attempts /\ attemptTask[target] \in Tasks
BY ConstantsAssumption
   DEF TypeOK, IInv, Linked, Accepted, HandlerKnows, AttemptInv, Untouched

\* Every transaction accepts, claims within the concurrency, or makes a move.
LEMMA StoreMoves == TypeOK /\ IInv /\ [Next]_vars => StoreStep
<1> SUFFICES ASSUME TypeOK, IInv, [Next]_vars PROVE StoreStep
    OBVIOUS
<1>1. CASE Client
    <2>1. ASSUME NEW k \in Keys, Submit(k) PROVE StoreStep
        BY <2>1 DEF Submit, StoreStep
    <2>2. ASSUME NEW t \in Tasks, Get(t) PROVE StoreStep
        BY <2>2, AttemptOfTask, ReconcileMoves DEF Get
    <2>3. ASSUME NEW t \in Tasks, CancelQueued(t) PROVE StoreStep
        BY <2>3 DEF CancelQueued, NotDispatched, StoreStep, Move,
          IntentStates, CanMove, TaskStates, Active, Terminal
    <2>4. ASSUME NEW t \in Tasks, CancelActive(t) PROVE StoreStep
        BY <2>4 DEF CancelActive, StoreStep, Move, IntentStates, CanMove,
          TaskStates, Active, Terminal
    <2>5. ASSUME NEW t \in Tasks, Inspect(t) PROVE StoreStep
        BY <2>5 DEF Inspect, StoreStep, storeVars
    <2> QED
        BY <1>1, <2>1, <2>2, <2>3, <2>4, <2>5
        DEF Client
<1>2. CASE Proceed
    <2>1. ASSUME NEW t \in Tasks, NEW a \in Attempts, PumpClaim(t, a) PROVE StoreStep
        BY <2>1 DEF PumpClaim, StoreStep
    <2>2. CASE PumpDone
        BY <2>2 DEF PumpDone, StoreStep, storeVars
    <2>3. CASE launch
        BY <2>3 DEF launch, StoreStep, storeVars
    <2>4. CASE LaunchFails
        BY <2>4 DEF LaunchFails, StoreStep, storeVars
    <2>5. CASE SendGo
        BY <2>5 DEF SendGo, StoreStep, storeVars
    <2>6. CASE WriteCancelRequest
        BY <2>6, AttemptOfTask, ReconcileMoves DEF WriteCancelRequest
    <2>7. CASE WriteCancelFails
        BY <2>7 DEF WriteCancelFails, StoreStep, storeVars
    <2>8. CASE InspectExited
        BY <2>8 DEF InspectExited, StoreStep, storeVars
    <2>9. CASE InspectOther
        BY <2>9 DEF InspectOther, StoreStep, storeVars
    <2>10. CASE Recheck
        BY <2>10, AttemptOfTask, SettleMoves DEF Recheck
    <2>11. ASSUME NEW a \in Attempts, RecoverAttempt(a) PROVE StoreStep
        BY <2>11, AttemptOfTask, ReconcileMoves DEF RecoverAttempt
    <2>12. CASE RecoverDone
        BY <2>12 DEF RecoverDone, StoreStep, storeVars
    <2>13. CASE RecoverFails
        BY <2>13 DEF RecoverFails, StoreStep, storeVars
    <2> QED
        BY <1>2, <2>1, <2>2, <2>3, <2>4, <2>5, <2>6, <2>7, <2>8, <2>9, <2>10, <2>11,
           <2>12, <2>13
        DEF Proceed
<1>3. ASSUME NEW a \in Attempts, WorkerEvent(a) PROVE StoreStep
    <2>1. CASE ReadyCancel(a)
        BY <2>1 DEF ReadyCancel, StoreStep, storeVars
    <2>2. CASE ReadyMarkStarted(a)
        BY <2>2, AttemptOfTask DEF ReadyMarkStarted, Serving, Startable,
          StoreStep, Move, IntentStates, CanMove, TaskStates, Active, Terminal
    <2>3. CASE ReadyKill(a)
        BY <2>3 DEF ReadyKill, StoreStep, storeVars
    <2>4. CASE WorkerClosed(a)
        BY <2>4, AttemptOfTask, SettleMoves DEF WorkerClosed
    <2>5. CASE GuardExpires(a)
        BY <2>5 DEF GuardExpires, StoreStep, storeVars
    <2> QED
        BY <1>3, <2>1, <2>2, <2>3, <2>4, <2>5
        DEF WorkerEvent
<1>4. ASSUME NEW a \in Attempts, WorkerStep(a) PROVE StoreStep
    <2>1. CASE WorkerReady(a)
        BY <2>1 DEF WorkerReady, StoreStep, storeVars
    <2>2. CASE ReadGo(a)
        BY <2>2 DEF ReadGo, StoreStep, storeVars
    <2>3. CASE ReadCancel(a)
        BY <2>3 DEF ReadCancel, StoreStep, storeVars
    <2>4. CASE HandshakeLost(a)
        BY <2>4 DEF HandshakeLost, StoreStep, storeVars
    <2>5. CASE WriteIdentity(a)
        BY <2>5 DEF WriteIdentity, StoreStep, storeVars
    <2>6. CASE SpawnCommand(a)
        BY <2>6 DEF SpawnCommand, StoreStep, storeVars
    <2>7. CASE PollCancel(a)
        BY <2>7 DEF PollCancel, StoreStep, storeVars
    <2>8. CASE Timeout(a)
        BY <2>8 DEF Timeout, StoreStep, storeVars
    <2>9. CASE Finalize(a)
        BY <2>9 DEF Finalize, StoreStep, storeVars
    <2>10. CASE WorkerExit(a)
        BY <2>10 DEF WorkerExit, StoreStep, storeVars
    <2> QED
        BY <1>4, <2>1, <2>2, <2>3, <2>4, <2>5, <2>6, <2>7, <2>8, <2>9, <2>10
        DEF WorkerStep
<1>5. ASSUME NEW a \in Attempts, CommandExits(a) PROVE StoreStep
    BY <1>5 DEF CommandExits, StoreStep, storeVars
<1>6. CASE Start \/ \E s \in {"manifests", "canceling"} : RecoverTick(s)
    BY <1>6 DEF Start, RecoverTick, BeginRecover, StoreStep, storeVars
<1>7. CASE Close \/ Exit
    BY <1>7 DEF Close, Exit, StoreStep, storeVars
<1>8. CASE UNCHANGED vars
    BY <1>8 DEF vars, StoreStep, storeVars
<1> QED
    BY <1>1, <1>2, <1>3, <1>4, <1>5, <1>6, <1>7, <1>8
    DEF Next

\* A command changes only by beginning once and ending once.
LEMMA CommandMoves == TypeOK /\ IInv /\ [Next]_vars => CommandStep
<1> SUFFICES ASSUME TypeOK, IInv, [Next]_vars PROVE CommandStep
    OBVIOUS
<1>1. CASE Client
    <2>1. ASSUME NEW k \in Keys, Submit(k) PROVE CommandStep
        BY <2>1 DEF Submit, CommandStep, workerVars
    <2>2. ASSUME NEW t \in Tasks, Get(t) PROVE CommandStep
        BY <2>2 DEF Get, CommandStep, workerVars
    <2>3. ASSUME NEW t \in Tasks, CancelQueued(t) PROVE CommandStep
        BY <2>3 DEF CancelQueued, CommandStep, workerVars
    <2>4. ASSUME NEW t \in Tasks, CancelActive(t) PROVE CommandStep
        BY <2>4 DEF CancelActive, CommandStep, workerVars
    <2>5. ASSUME NEW t \in Tasks, Inspect(t) PROVE CommandStep
        BY <2>5 DEF Inspect, CommandStep, workerVars
    <2> QED
        BY <1>1, <2>1, <2>2, <2>3, <2>4, <2>5
        DEF Client
<1>2. CASE Proceed
    <2>1. ASSUME NEW t \in Tasks, NEW a \in Attempts, PumpClaim(t, a) PROVE CommandStep
        BY <2>1 DEF PumpClaim, CommandStep, workerVars
    <2>2. CASE PumpDone
        BY <2>2 DEF PumpDone, CommandStep, workerVars
    <2>3. CASE launch
        BY <2>3 DEF launch, CommandStep, workerVars
    <2>4. CASE LaunchFails
        BY <2>4 DEF LaunchFails, CommandStep, workerVars
    <2>5. CASE SendGo
        BY <2>5 DEF SendGo, CommandStep, workerVars, Answer
    <2>6. CASE WriteCancelRequest
        BY <2>6 DEF WriteCancelRequest, CommandStep, workerVars
    <2>7. CASE WriteCancelFails
        BY <2>7 DEF WriteCancelFails, CommandStep, workerVars
    <2>8. CASE InspectExited
        BY <2>8 DEF InspectExited, CommandStep, workerVars
    <2>9. CASE InspectOther
        BY <2>9 DEF InspectOther, CommandStep, workerVars
    <2>10. CASE Recheck
        BY <2>10 DEF Recheck, CommandStep, workerVars
    <2>11. ASSUME NEW a \in Attempts, RecoverAttempt(a) PROVE CommandStep
        BY <2>11 DEF RecoverAttempt, CommandStep, workerVars
    <2>12. CASE RecoverDone
        BY <2>12 DEF RecoverDone, CommandStep, workerVars
    <2>13. CASE RecoverFails
        BY <2>13 DEF RecoverFails, CommandStep, workerVars
    <2> QED
        BY <1>2, <2>1, <2>2, <2>3, <2>4, <2>5, <2>6, <2>7, <2>8, <2>9, <2>10, <2>11,
           <2>12, <2>13
        DEF Proceed
<1>3. ASSUME NEW a \in Attempts, WorkerEvent(a) PROVE CommandStep
    <2>1. CASE ReadyCancel(a)
        BY <2>1 DEF ReadyCancel, CommandStep, workerVars, Answer
    <2>2. CASE ReadyMarkStarted(a)
        BY <2>2 DEF ReadyMarkStarted, CommandStep, workerVars
    <2>3. CASE ReadyKill(a)
        BY <2>3 DEF ReadyKill, CommandStep, workerVars
    <2>4. CASE WorkerClosed(a)
        BY <2>4 DEF WorkerClosed, CommandStep, workerVars
    <2>5. CASE GuardExpires(a)
        BY <2>5 DEF GuardExpires, CommandStep, workerVars
    <2> QED
        BY <1>3, <2>1, <2>2, <2>3, <2>4, <2>5
        DEF WorkerEvent
<1>4. ASSUME NEW a \in Attempts, WorkerStep(a) PROVE CommandStep
    <2>1. CASE WorkerReady(a)
        BY <2>1 DEF WorkerReady, CommandStep, workerVars
    <2>2. CASE ReadGo(a)
        BY <2>2 DEF ReadGo, CommandStep, workerVars
    <2>3. CASE ReadCancel(a)
        BY <2>3 DEF ReadCancel, CommandStep, workerVars
    <2>4. CASE HandshakeLost(a)
        BY <2>4 DEF HandshakeLost, CommandStep, workerVars
    <2>5. CASE WriteIdentity(a)
        BY <2>5 DEF WriteIdentity, CommandStep, workerVars
    <2>6. CASE SpawnCommand(a)
        <3>1. PICK c \in {"live", "nonzero"} : command' = [command EXCEPT ![a] = c]
            BY <2>6 DEF SpawnCommand
        <3>2. UNCHANGED storeVars /\ worker[a] = "identified"
            BY <2>6 DEF SpawnCommand, Step
        <3>3. command[a] = "none"
            BY <3>2 DEF TypeOK, CommandStates, IInv, AttemptInv, WorkerOrder
        <3> QED
            BY <3>1, <3>2, <3>3 DEF CommandStep, CommandChange, CommandStates
    <2>7. CASE PollCancel(a)
        <3>1. PICK r \in StopTree(a) : command' = [command EXCEPT ![a] = r.tree]
            BY <2>7 DEF PollCancel
        <3>2. r.tree = command[a] \/ (command[a] = "live" /\ r.tree = "killed")
            BY DEF StopTree
        <3>3. UNCHANGED storeVars
            BY <2>7 DEF PollCancel
        <3> QED
            BY <3>1, <3>2, <3>3 DEF CommandStep, CommandChange, CommandStates, TypeOK
    <2>8. CASE Timeout(a)
        <3>1. PICK r \in StopTree(a) : command' = [command EXCEPT ![a] = r.tree]
            BY <2>8 DEF Timeout
        <3>2. r.tree = command[a] \/ (command[a] = "live" /\ r.tree = "killed")
            BY DEF StopTree
        <3>3. UNCHANGED storeVars
            BY <2>8 DEF Timeout
        <3> QED
            BY <3>1, <3>2, <3>3 DEF CommandStep, CommandChange, CommandStates, TypeOK
    <2>9. CASE Finalize(a)
        BY <2>9 DEF Finalize, CommandStep, workerVars
    <2>10. CASE WorkerExit(a)
        BY <2>10 DEF WorkerExit, CommandStep, workerVars
    <2> QED
        BY <1>4, <2>1, <2>2, <2>3, <2>4, <2>5, <2>6, <2>7, <2>8, <2>9, <2>10
        DEF WorkerStep
<1>5. ASSUME NEW a \in Attempts, CommandExits(a) PROVE CommandStep
    BY <1>5 DEF CommandExits, CommandStep, CommandChange, CommandStates
<1>6. CASE Start \/ \E s \in {"manifests", "canceling"} : RecoverTick(s)
    BY <1>6 DEF Start, RecoverTick, BeginRecover, CommandStep, workerVars
<1>7. CASE Close \/ Exit
    BY <1>7 DEF Close, Exit, CommandStep, workerVars
<1>8. CASE UNCHANGED vars
    BY <1>8 DEF vars, CommandStep, workerVars
<1> QED
    BY <1>1, <1>2, <1>3, <1>4, <1>5, <1>6, <1>7, <1>8
    DEF Next

(* A settled task never changes again, whatever late request, event or     *)
(* recovery still names it.                                                *)
THEOREM Settled == Spec => SettledIsFinal
<1>1. ASSUME TypeOK, IInv, StoreStep, NEW t \in Tasks, taskState[t] \in Terminal
      PROVE  taskState'[t] = taskState[t] /\ taskAttempt'[t] = taskAttempt[t]
    BY <1>1 DEF StoreStep, storeVars, accept, pending, claim, Move, CanMove, SetTask,
                TypeOK, Active, Terminal
<1>2. TypeOK /\ IInv /\ [Next]_vars =>
          [\A t \in Tasks : taskState[t] \in Terminal =>
              taskState'[t] = taskState[t] /\ taskAttempt'[t] = taskAttempt[t]]_vars
    BY <1>1, StoreMoves
<1> QED BY <1>2, Invariance, PTL DEF Spec, SettledIsFinal

\* The slots in use, those of workers that outlived their daemon included.
SlotsBounded == Cardinality(activeAttempts) <= Concurrency

\* Only a claim takes a slot, and it finds one free.
LEMMA SlotStep == TypeOK /\ StoreStep /\ SlotsBounded => SlotsBounded'
<1> SUFFICES ASSUME TypeOK, StoreStep, SlotsBounded PROVE SlotsBounded'
    OBVIOUS
<1>1. activeAttempts \subseteq Attempts /\ IsFiniteSet(activeAttempts)
    BY ConstantsAssumption, FS_Subset DEF activeAttempts
<1>2. ASSUME activeAttempts' \subseteq activeAttempts PROVE SlotsBounded'
    <2>1. Cardinality(activeAttempts') <= Cardinality(activeAttempts)
        BY <1>1, <1>2, FS_Subset
    <2>2. Cardinality(activeAttempts') \in Nat /\ Cardinality(activeAttempts) \in Nat
        BY <1>1, <1>2, FS_Subset, FS_CardinalityType
    <2> QED BY <2>1, <2>2, ConstantsAssumption DEF SlotsBounded
<1>3. CASE UNCHANGED storeVars
    BY <1>2, <1>3 DEF storeVars, activeAttempts
<1>4. ASSUME NEW t \in Tasks, NEW k \in Keys, accept(t, k) PROVE SlotsBounded'
    <2>1. activeAttempts' \subseteq activeAttempts
        BY <1>4 DEF accept, activeAttempts, TypeOK, Active
    <2> QED BY <1>2, <2>1
<1>5. ASSUME NEW t \in pending, NEW a \in Attempts, HasSlot, claim(t, a)
      PROVE  SlotsBounded'
    <2>1. t \in Tasks /\ taskState[t] = "queued"
        BY DEF pending
    <2>2. activeAttempts' \subseteq activeAttempts \cup {a}
        BY <1>5, <2>1 DEF claim, activeAttempts, TypeOK, Active
    <2>3. /\ IsFiniteSet(activeAttempts \cup {a})
          /\ \/ Cardinality(activeAttempts \cup {a}) = Cardinality(activeAttempts)
             \/ Cardinality(activeAttempts \cup {a}) = Cardinality(activeAttempts) + 1
        BY <1>1, FS_AddElement
    <2>4. Cardinality(activeAttempts') <= Cardinality(activeAttempts \cup {a})
        BY <2>2, <2>3, FS_Subset
    <2>5. /\ Cardinality(activeAttempts) \in Nat
          /\ Cardinality(activeAttempts \cup {a}) \in Nat
          /\ Cardinality(activeAttempts') \in Nat
        BY <1>1, <2>2, <2>3, FS_Subset, FS_CardinalityType
    <2> QED BY <1>5, <2>3, <2>4, <2>5, ConstantsAssumption DEF HasSlot, SlotsBounded
<1>6. ASSUME NEW t \in Tasks, Move(t) PROVE SlotsBounded'
    <2>1. PICK s \in TaskStates, i \in IntentStates :
              SetTask(t, s, i) /\ CanMove(taskState[t], s)
        BY <1>6 DEF Move
    <2>2. s \in Active => taskState[t] \in Active
        BY <2>1 DEF CanMove, Active, Terminal
    <2>3. activeAttempts' \subseteq activeAttempts
        BY <2>1, <2>2 DEF SetTask, activeAttempts, TypeOK
    <2> QED BY <1>2, <2>3
<1> QED BY <1>3, <1>4, <1>5, <1>6 DEF StoreStep

(* The workers that may run a command are never more than the concurrency: *)
(* each of them belongs to an attempt that holds a slot.                   *)
THEOREM WorkersBounded == Spec => []SupervisedBounded
<1>1. Init => SlotsBounded
    <2> SUFFICES ASSUME Init PROVE SlotsBounded
        OBVIOUS
    <2>1. activeAttempts = {}
        BY ConstantsAssumption DEF Init, activeAttempts
    <2> QED BY <2>1, FS_EmptySet, ConstantsAssumption DEF SlotsBounded
<1>2. TypeOK /\ IInv /\ [Next]_vars /\ SlotsBounded => SlotsBounded'
    BY StoreMoves, SlotStep
<1>3. TypeOK /\ IInv /\ SlotsBounded => SupervisedBounded
    <2> SUFFICES ASSUME TypeOK, IInv, SlotsBounded PROVE SupervisedBounded
        OBVIOUS
    <2> DEFINE S == {a \in Attempts : worker[a] \in Supervised}
    <2>1. S \subseteq activeAttempts
        BY DEF IInv, AttemptInv, StoreFollows, Untouched, StateOf, Linked,
               activeAttempts, Supervised, BeforeSpawn
    <2>2. IsFiniteSet(activeAttempts)
        BY ConstantsAssumption, FS_Subset DEF activeAttempts
    <2>3. /\ Cardinality(S) <= Cardinality(activeAttempts)
          /\ Cardinality(S) \in Nat /\ Cardinality(activeAttempts) \in Nat
        BY <2>1, <2>2, FS_Subset, FS_CardinalityType
    <2> QED BY <2>3, ConstantsAssumption DEF SlotsBounded, SupervisedBounded
<1> QED BY <1>1, <1>2, <1>3, Invariance, PTL DEF Spec

-----------------------------------------------------------------------------
(* DurableExecution implements DurableTask.                                *)
\* The refinement mapping, task by task.
StatusOf(t) ==
    IF taskState[t] \in {"queued"} \cup Active THEN "accepted" ELSE taskState[t]

EffectOf(t) ==
    IF taskAttempt[t] = NoAttempt THEN "none" ELSE command[taskAttempt[t]]

\* What neither a client nor a command can tell apart is a stutter.
LEMMA SameIsStutter ==
    ASSUME \A t \in Tasks : StatusOf(t)' = StatusOf(t) /\ EffectOf(t)' = EffectOf(t)
    PROVE  UNCHANGED Task!tvars
BY DEF StatusOf, EffectOf, Task!tvars

\* A step that changes the status of one task and no command.
LEMMA StatusChange ==
    ASSUME NEW t \in Tasks, NEW s,
           StatusOf(t)' = s, \A u \in Tasks \ {t} : StatusOf(u)' = StatusOf(u),
           \A u \in Tasks : EffectOf(u)' = EffectOf(u),
           \/ StatusOf(t) = "absent" /\ s = "accepted"
           \/ /\ StatusOf(t) = "accepted"
              /\ \/ s = "succeeded" /\ EffectOf(t) = "zero"
                 \/ s = "failed" /\ EffectOf(t) \in {"zero", "nonzero", "killed"}
                 \/ s = "canceled" /\ EffectOf(t) # "live"
                 \/ s = "interrupted"
    PROVE  Task!TaskNext
<1>1. Task!Accept(t) \/ Task!Succeed(t) \/ Task!Fail(t)
          \/ Task!ConfirmCanceled(t) \/ Task!Interrupt(t)
    BY ZenonT(30) DEF Task!Accept, Task!Succeed, Task!Fail, Task!ConfirmCanceled,
           Task!Interrupt, Task!Settle, StatusOf, EffectOf
<1> QED BY <1>1 DEF Task!TaskNext

\* A step that changes the command of one task and no status.
LEMMA EffectChange ==
    ASSUME NEW t \in Tasks, NEW e,
           EffectOf(t)' = e, \A u \in Tasks \ {t} : EffectOf(u)' = EffectOf(u),
           \A u \in Tasks : StatusOf(u)' = StatusOf(u),
           \/ /\ EffectOf(t) = "none" /\ e \in {"live", "nonzero"}
              /\ StatusOf(t) = "accepted"
           \/ EffectOf(t) = "live" /\ e \in {"zero", "nonzero", "killed"}
    PROVE  Task!TaskNext
<1> USE DEF StatusOf, EffectOf
<1>1. CASE EffectOf(t) = "none"
    <2>1. e = "live" => Task!Begin(t)
        BY <1>1, ZenonT(30) DEF Task!Begin
    <2>2. e = "nonzero" => Task!FailToStart(t)
        BY <1>1, ZenonT(30) DEF Task!FailToStart
    <2> QED BY <1>1, <2>1, <2>2 DEF Task!TaskNext
<1>2. CASE EffectOf(t) = "live"
    <2>1. e \in {"zero", "nonzero", "killed"}
        BY <1>2
    <2>2. Task!End(t)
        BY <1>2, <2>1, ZenonT(30) DEF Task!End
    <2> QED BY <2>2 DEF Task!TaskNext
<1> QED BY <1>1, <1>2

\* A transaction accepts a task, settles one, or changes nothing seen.
LEMMA StoreRefines ==
    ASSUME TypeOK, IInv, IInv', StoreStep, UNCHANGED command
    PROVE  Task!TaskNext \/ UNCHANGED Task!tvars
<1>1. CASE UNCHANGED storeVars
    BY <1>1, SameIsStutter DEF storeVars, StatusOf, EffectOf
<1>2. ASSUME NEW t \in Tasks, NEW k \in Keys, accept(t, k) PROVE Task!TaskNext
    <2>1. StatusOf(t) = "absent" /\ StatusOf(t)' = "accepted"
        BY <1>2 DEF accept, StatusOf, Active, TypeOK
    <2>2. /\ \A u \in Tasks \ {t} : StatusOf(u)' = StatusOf(u)
          /\ \A u \in Tasks : EffectOf(u)' = EffectOf(u)
        BY <1>2 DEF accept, StatusOf, EffectOf, TypeOK
    <2> QED BY <2>1, <2>2, StatusChange
<1>3. ASSUME NEW t \in pending, NEW a \in Attempts, claim(t, a)
      PROVE  UNCHANGED Task!tvars
    <2>1. t \in Tasks /\ taskState[t] = "queued" /\ taskAttempt[t] = NoAttempt
        BY DEF pending, IInv, Accepted
    <2>2. command[a] = "none"
        BY <1>3 DEF claim, IInv, AttemptInv, Untouched
    <2>3. \A u \in Tasks : StatusOf(u)' = StatusOf(u)
        BY <1>3, <2>1 DEF claim, StatusOf, Active, TypeOK
    <2>4. \A u \in Tasks : EffectOf(u)' = EffectOf(u)
        BY <1>3, <2>1, <2>2, ConstantsAssumption DEF claim, EffectOf, TypeOK
    <2> QED BY <2>3, <2>4, SameIsStutter
<1>4. ASSUME NEW t \in Tasks, Move(t) PROVE Task!TaskNext \/ UNCHANGED Task!tvars
    <2>1. PICK s \in TaskStates, i \in IntentStates :
              SetTask(t, s, i) /\ CanMove(taskState[t], s)
        BY <1>4 DEF Move
    <2>2. /\ taskState'[t] = s
          /\ \A u \in Tasks \ {t} : StatusOf(u)' = StatusOf(u)
          /\ \A u \in Tasks : EffectOf(u)' = EffectOf(u)
        BY <2>1 DEF SetTask, StatusOf, EffectOf, TypeOK
    <2>3. CASE StatusOf(t)' = StatusOf(t)
        BY <2>2, <2>3, SameIsStutter
    <2>4. CASE StatusOf(t)' # StatusOf(t)
        <3>1. /\ taskState[t] \in {"queued"} \cup Active /\ s \in Terminal
              /\ taskState[t] = "queued" => s = "canceled"
            BY <2>1, <2>2, <2>4 DEF CanMove, StatusOf, Active, Terminal
        <3>2. StatusOf(t) = "accepted" /\ StatusOf(t)' = s
            BY <2>2, <3>1 DEF StatusOf, Active, Terminal
        <3>3. CASE taskAttempt[t] = NoAttempt
            <4>1. s = "canceled"
                BY <3>1, <3>3 DEF IInv, Accepted
            <4>2. EffectOf(t) = "none"
                BY <3>3 DEF EffectOf
            <4> QED BY <2>2, <3>2, <4>1, <4>2, StatusChange
        <3>4. CASE taskAttempt[t] # NoAttempt
            <4>0. PICK a \in Attempts : a = taskAttempt[t]
                BY <3>4 DEF TypeOK
            <4>1. attemptTask'[a] = t /\ EffectOf(t) = command[a]
                BY <2>1, <3>4, <4>0 DEF SetTask, IInv, Linked, EffectOf
            <4>2. StateOf(a)' = s
                BY <2>2, <4>1, ConstantsAssumption DEF StateOf
            <4>3. AttemptInv(a)'
                BY DEF IInv
            <4>4. /\ s = "succeeded" => command[a] = "zero"
                  /\ s = "failed" => command[a] \notin {"none", "live"}
                  /\ s = "canceled" => command[a] # "live"
                BY <4>2, <4>3 DEF AttemptInv, Evident, WorkerOrder
            <4>5. command[a] \in CommandStates
                BY DEF TypeOK
            <4> QED
                BY <2>2, <3>1, <3>2, <4>1, <4>4, <4>5, StatusChange
                DEF Terminal, CommandStates
        <3> QED BY <3>3, <3>4
    <2> QED BY <2>3, <2>4
<1> QED BY <1>1, <1>2, <1>3, <1>4 DEF StoreStep

\* A command begins for an accepted task only; it ends whatever the status.
LEMMA CommandRefines ==
    ASSUME TypeOK, IInv, UNCHANGED storeVars, NEW a \in Attempts, NEW c,
           CommandChange(a, c)
    PROVE  Task!TaskNext
<1>1. worker[a] # "none" /\ (command[a] = "none" => worker[a] \in Supervised)
    BY DEF CommandChange, Supervised, BeforeSpawn, IInv, AttemptInv, Untouched
<1>2. PICK t \in Tasks : t = attemptTask[a] /\ taskAttempt[t] = a
    BY <1>1 DEF TypeOK, IInv, Linked, AttemptInv, Untouched
<1>3. command[a] = "none" => StatusOf(t) = "accepted"
    BY <1>1, <1>2, ConstantsAssumption
       DEF StatusOf, StateOf, IInv, AttemptInv, StoreFollows
<1>4. EffectOf(t) = command[a] /\ EffectOf(t)' = c
    BY <1>2, ConstantsAssumption DEF EffectOf, CommandChange, storeVars, TypeOK
<1>5. \A u \in Tasks \ {t} : EffectOf(u)' = EffectOf(u)
    <2> SUFFICES ASSUME NEW u \in Tasks \ {t}, taskAttempt[u] # NoAttempt
                 PROVE  command'[taskAttempt[u]] = command[taskAttempt[u]]
        BY DEF EffectOf, storeVars
    <2>1. taskAttempt[u] \in Attempts /\ attemptTask[taskAttempt[u]] = u
        BY DEF TypeOK, IInv, Linked
    <2>2. taskAttempt[u] # a
        BY <1>2, <2>1
    <2> QED BY <2>1, <2>2 DEF CommandChange, TypeOK
<1>6. \A u \in Tasks : StatusOf(u)' = StatusOf(u)
    BY DEF StatusOf, storeVars
<1> QED BY <1>2, <1>3, <1>4, <1>5, <1>6, EffectChange DEF CommandChange

(* What a client reads of a task and what its command does is a behaviour  *)
(* of DurableTask, whatever the daemon, the workers and faults do.         *)
THEOREM Refinement == Spec => ImplementsDurableTask
<1>1. Init => Task!TaskInit
    BY DEF Init, Task!TaskInit, Active
<1>2. TypeOK /\ IInv /\ [Next]_vars /\ (TypeOK /\ IInv)'
          => [Task!TaskNext]_(Task!tvars)
    <2> SUFFICES ASSUME TypeOK, IInv, [Next]_vars, IInv'
                 PROVE  Task!TaskNext \/ UNCHANGED Task!tvars
        OBVIOUS
    <2>1. StoreStep
        BY StoreMoves
    <2>2. CASE UNCHANGED command
        BY <2>1, <2>2, StoreRefines
    <2>3. ASSUME UNCHANGED storeVars,
                 NEW a \in Attempts, NEW c \in CommandStates, CommandChange(a, c)
          PROVE  Task!TaskNext
        BY <2>3, CommandRefines
    <2> QED BY <2>2, <2>3, CommandMoves DEF CommandStep
<1> QED BY <1>1, <1>2, Invariance, PTL DEF Spec, ImplementsDurableTask, Task!TaskSpec
=============================================================================
