--------------------------- MODULE WorkflowManager ---------------------------
(***************************************************************************)
(* The runs of one workflow under one idempotency key: its run file, the   *)
(* copies of the run in memory, the calls of clients, the executions they  *)
(* launch and the executors of the steps.                                  *)
(*                                                                         *)
(* JavaScript runs one callback at a time: an action is the code from one  *)
(* await to the next.  A call names everything it brings about: the copy   *)
(* of the run it made or loaded, and the execution it launched.            *)
(*                                                                         *)
(* Leases of other owners are in ResourceCoordinator; here a step with     *)
(* resources waits for them for as long as it may.  Writes do not fail.    *)
(***************************************************************************)
EXTENDS Integers, Sequences, FiniteSets

CONSTANTS
    Definitions,   \* the definitions a client may start
    MaxCalls,      \* bound: the calls of all clients
    MaxCrashes,    \* bound: how often the runtime dies
    CallsOverlap,  \* FALSE: see MayBegin
    None

Calls == 1 .. MaxCalls
Steps == UNION {1 .. Len(d.steps) : d \in Definitions}

RunStates == {"pending", "running", "canceling",
              "succeeded", "failed", "canceled", "interrupted"}
StepStates == {"pending", "running",
               "succeeded", "failed", "canceled", "interrupted", "skipped"}
TERMINAL_RUN_STATES == {"succeeded", "failed", "canceled", "interrupted"}
TERMINAL_STEP_STATES == StepStates \ {"pending", "running"}

(* A run carries its definition; step i is in the state run.step[i].       *)
Runs == UNION {[def : {d}, state : RunStates, step : [1 .. Len(d.steps) -> StepStates]] :
                  d \in Definitions}

(* The writers of the run file: calls, the loops of executions, executors. *)
Writers == Calls \X ({-1, 0} \union Steps)

(* What validateDefinition lets through (deps may name later steps).       *)
ASSUME WorkflowAssumption ==
    /\ MaxCalls \in Nat /\ MaxCrashes \in Nat /\ CallsOverlap \in BOOLEAN
    /\ \A d \in Definitions :
          /\ d.mode \in {"sequential", "graph"}
          /\ Len(d.steps) \in Nat /\ d.maxConcurrency \in Nat \ {0}
          /\ \A s \in 1 .. Len(d.steps) :
                d.steps[s].safe \in BOOLEAN /\ d.steps[s].deps \subseteq 1 .. Len(d.steps)
    /\ None \notin Calls \union Writers \union Runs \union Definitions

VARIABLES
    file,         \* the run file
    runs,         \* the copy the map in memory holds
    copy,         \* every copy of the run in memory
    canceled,     \* the run is in the set of canceled runs
    execution,    \* the entry of the map of executions
    controllers,  \* the entry of the map of active controllers
    writes,       \* the write queue of the run
    ready,        \* the writer whose write is done and who has not gone on
    startLock,    \* the start that is under way
    accepting,
    call,         \* the calls
    exec,         \* the executions
    executor,     \* the executors of each execution
    unknown,      \* steps whose mutation was cut off, not confirmed since
    crashes

memory == <<runs, copy, canceled, execution, controllers, startLock, accepting>>
(* What the executions of the run leave alone, and what belongs to them.   *)
outside == <<file, runs, canceled, startLock, accepting, call, crashes>>
executions == <<execution, controllers, exec, executor>>
vars == <<file, memory, writes, ready, call, exec, executor, unknown, crashes>>

NewCall == [op |-> None, pc |-> "idle", obj |-> None, def |-> None,
            confirm |-> FALSE, target |-> None]
NoExecution == [pc |-> "none", obj |-> None, index |-> 0]
Idle == [phase |-> "idle", aborted |-> FALSE, mapped |-> FALSE]

CallRecords ==
    [op : {"start", "wait", "cancel", "resume", "shutdown", None},
     pc : {"idle", "begun", "reading", "rewriting", "loaded", "joined",
           "persisting", "awaiting", "finalizing", "done"},
     obj : Calls \union {None}, def : Definitions \union {None},
     confirm : BOOLEAN, target : Calls \union {None}]
ExecutionRecords ==
    [pc : {"none", "launched", "turn", "stepping", "stepped", "schedule",
           "started", "racing", "drain", "return", "ending", "ended"},
     obj : Calls \union {None}, index : Nat]
ExecutorRecords ==
    [phase : {"idle", "marking", "waiting", "executing", "closing"},
     aborted : BOOLEAN, mapped : BOOLEAN]

TypeOK ==
    /\ file \in Runs \union {None}
    /\ runs \in Calls \union {None}
    /\ copy \in [Calls -> Runs \union {None}]
    /\ runs # None => copy[runs] # None
    /\ canceled \in BOOLEAN /\ accepting \in BOOLEAN
    /\ execution \in Calls \union {None}
    /\ controllers \in [Steps -> Calls \union {None}]
    /\ startLock \in Calls \union {None}
    /\ writes \in Seq([run : Runs, by : Writers])
    /\ ready \in Writers \union {None}
    /\ call \in [Calls -> CallRecords]
    /\ exec \in [Calls -> ExecutionRecords]
    /\ executor \in [Calls -> [Steps -> ExecutorRecords]]
    /\ unknown \subseteq Steps
    /\ crashes \in Nat

Init ==
    /\ file = None /\ runs = None
    /\ copy = [c \in Calls |-> None]
    /\ canceled = FALSE /\ accepting = TRUE
    /\ execution = None /\ startLock = None
    /\ controllers = [s \in Steps |-> None]
    /\ writes = <<>> /\ ready = None
    /\ call = [c \in Calls |-> NewCall]
    /\ exec = [c \in Calls |-> NoExecution]
    /\ executor = [c \in Calls |-> [s \in Steps |-> Idle]]
    /\ unknown = {} /\ crashes = 0

-----------------------------------------------------------------------------
(* Writing the run: a snapshot taken now goes to the end of the queue.     *)
Caller(c) == <<c, -1>>
Loop(c) == <<c, 0>>
Worker(c, s) == <<c, s>>

GoesOn(writer) == ready = writer /\ ready' = None
persistRun(run, writer) == writes' = Append(writes, [run |-> run, by |-> writer])

(* The next write begins after the writer of the last one has gone on.     *)
WriteRun ==
    /\ writes # <<>> /\ ready = None
    /\ file' = Head(writes).run
    /\ ready' = Head(writes).by
    /\ writes' = Tail(writes)
    /\ UNCHANGED <<memory, call, exec, executor, unknown, crashes>>

WithState(run, st) == [run EXCEPT !.state = st]
WithStep(run, s, st) == [run EXCEPT !.step[s] = st]
Marked(run, S, st) ==
    [run EXCEPT !.step = [s \in DOMAIN run.step |-> IF s \in S THEN st ELSE run.step[s]]]

LostAsPendingMutant(run) ==
    [run EXCEPT !.state = IF @ \in TERMINAL_RUN_STATES THEN @ ELSE "interrupted",
                !.step = [s \in DOMAIN run.step |->
                    IF run.step[s] = "running" THEN "pending" ELSE run.step[s]]]

(* Reading it: executors of a run that was under way are lost.             *)
Loaded(run) ==
    IF run.state \notin {"pending", "running", "canceling"} THEN run
    ELSE [def |-> run.def, state |-> "interrupted",
          step |-> [s \in DOMAIN run.step |->
                       IF run.step[s] = "running" THEN "interrupted" ELSE run.step[s]]]

KeepPendingMutant(run) ==
    [run EXCEPT !.state = "canceled",
                !.step = [s \in DOMAIN run.step |->
                    IF run.step[s] = "running" THEN "canceled" ELSE run.step[s]]]
finalized(run) ==
    [def |-> run.def, state |-> "canceled",
     step |-> [s \in DOMAIN run.step |->
                  IF run.step[s] \in {"running", "pending"} THEN "canceled" ELSE run.step[s]]]

verdict(run) ==
    WithState(run, IF \E s \in DOMAIN run.step : run.step[s] \in {"failed", "interrupted"}
                   THEN "failed" ELSE "succeeded")

FreshRun(d) == [def |-> d, state |-> "pending", step |-> [s \in 1 .. Len(d.steps) |-> "pending"]]

Mutates(run, s) == run.def.steps[s].kind \in {"command", "tool"}
Unconfirmed(run) ==
    {s \in DOMAIN run.step : /\ run.step[s] = "interrupted" /\ Mutates(run, s)
                             /\ ~run.def.steps[s].safe}

(* The run a resume starts from: what succeeded stays.                     *)
Reset(run) ==
    [def |-> run.def, state |-> "pending",
     step |-> [s \in DOMAIN run.step |->
                  IF run.step[s] = "succeeded" THEN "succeeded" ELSE "pending"]]

-----------------------------------------------------------------------------
(* Calls.  A call that finds no copy in memory reads the file first.       *)
Busy(c) == call[c].pc \notin {"idle", "done"}
Reading(c) == call[c].pc \in {"reading", "rewriting", "loaded"}

(* With ~CallsOverlap nobody calls while a call reads the file, and a call *)
(* that reads the file, resumes or shuts down is alone when it begins.     *)
MayBegin(c, op) ==
    /\ call[c].pc = "idle"
    /\ \A d \in Calls : d < c => call[d].pc # "idle"
    /\ CallsOverlap \/
          /\ \A d \in Calls : ~Reading(d)
          /\ runs = None \/ op \in {"resume", "shutdown"} => \A d \in Calls : ~Busy(d)

At(c, pc) == [call EXCEPT ![c].pc = pc]
Return(c) == call' = [call EXCEPT ![c] = [NewCall EXCEPT !.op = call[c].op, !.pc = "done"]]

Begin(c, op, d, confirm) ==
    /\ MayBegin(c, op)
    /\ call' = [call EXCEPT ![c] = [NewCall EXCEPT !.op = op, !.pc = "begun",
                                       !.def = d, !.confirm = confirm]]
    /\ UNCHANGED <<memory, file, writes, exec, executor, unknown, ready, crashes>>

(* loadRun: read, rewrite what was interrupted, go on.                     *)
StartReading(c) ==
    /\ call' = At(c, "reading")
    /\ UNCHANGED <<executions, file, copy, runs, writes, canceled, accepting, unknown, ready, crashes>>

Read(c) ==
    /\ call[c].pc = "reading"
    /\ copy' = [copy EXCEPT ![c] = IF file = None THEN None ELSE Loaded(file)]
    /\ call' = At(c, IF file # None /\ Loaded(file) # file THEN "rewriting" ELSE "loaded")
    /\ UNCHANGED <<executions, file, runs, canceled, startLock, accepting, writes, unknown, ready, crashes>>

Rewrite(c) ==
    /\ call[c].pc = "rewriting"
    /\ file' = copy[c]
    /\ call' = At(c, "loaded")
    /\ UNCHANGED <<memory, writes, exec, executor, unknown, ready, crashes>>

(* A read that failed: the call fails, a start creates the run instead.    *)
ReadFails(c) ==
    /\ call[c].pc = "loaded" /\ copy[c] = None
    /\ call[c].op # "start"
    /\ Return(c)
    /\ UNCHANGED <<memory, file, writes, exec, executor, unknown, ready, crashes>>

(* Before its first await a call goes on with the copy in memory; after    *)
(* loadRun it installs its own, whatever the map holds by then.            *)
Has(c, obj) ==
    \/ call[c].pc = "begun" /\ runs # None /\ obj = runs
    \/ call[c].pc = "loaded" /\ copy[c] # None /\ obj = c

NotLoaded(c) ==
    /\ call[c].pc = "begun" /\ call[c].op \in {"wait", "cancel", "resume"}
    /\ runs = None
    /\ StartReading(c) /\ UNCHANGED startLock

(* launch and the first turn of execute: the state is running again, also  *)
(* when a cancel came while the run was being written.                     *)
launch(c, obj) ==
    /\ copy' = [copy EXCEPT ![obj] = WithState(@, "running")]
    /\ persistRun(copy'[obj], Loop(c))
    /\ exec' = [exec EXCEPT ![c] = [pc |-> "launched", obj |-> obj, index |-> 1]]
    /\ execution' = c

(* start: callers of one key share the start that is under way.            *)
StartJoins(c) ==
    /\ call[c].pc = "begun" /\ call[c].op = "start"
    /\ startLock # None
    /\ call' = [call EXCEPT ![c].pc = "joined", ![c].target = startLock]
    /\ UNCHANGED <<memory, file, writes, exec, executor, unknown, ready, crashes>>

StartReads(c) ==
    /\ call[c].pc = "begun" /\ call[c].op = "start"
    /\ startLock = None /\ runs = None
    /\ startLock' = c
    /\ StartReading(c)

Unlocked(c) == startLock' = IF startLock = c THEN None ELSE startLock

(* A stored run is the answer; another definition is a conflict, and the   *)
(* run is not installed.                                                   *)
StartFinds(c, obj) ==
    /\ call[c].op = "start" /\ Has(c, obj)
    /\ call[c].pc = "begun" => startLock = None
    /\ runs' = IF copy[obj].def = call[c].def THEN obj ELSE runs
    /\ Unlocked(c)
    /\ Return(c)
    /\ UNCHANGED <<executions, file, copy, canceled, accepting, writes, unknown, ready, crashes>>

IgnoreStoredMutant(c) ==
    /\ call[c].op = "start" /\ call[c].pc = "loaded"
    /\ copy' = [copy EXCEPT ![c] = FreshRun(call[c].def)]
    /\ runs' = c
    /\ persistRun(copy'[c], Caller(c))
    /\ call' = [call EXCEPT ![c].pc = "persisting", ![c].obj = c]
    /\ UNCHANGED <<executions, file, startLock, canceled, accepting, unknown, ready, crashes>>

(* startDefinitionOnce, up to its write.                                   *)
StartCreates(c) ==
    /\ call[c].op = "start" /\ call[c].pc = "loaded" /\ copy[c] = None
    /\ IF accepting
       THEN /\ copy' = [copy EXCEPT ![c] = FreshRun(call[c].def)]
            /\ runs' = c
            /\ persistRun(copy'[c], Caller(c))
            /\ call' = [call EXCEPT ![c].pc = "persisting", ![c].obj = c]
            /\ UNCHANGED startLock
       ELSE /\ Unlocked(c) /\ Return(c)
            /\ UNCHANGED <<copy, runs, writes>>
    /\ UNCHANGED <<executions, file, canceled, accepting, unknown, ready, crashes>>

Launches(c) ==
    /\ call[c].op \in {"start", "resume"} /\ call[c].pc = "persisting"
    /\ GoesOn(Caller(c))
    /\ launch(c, call[c].obj)
    /\ Unlocked(c)
    /\ Return(c)
    /\ UNCHANGED <<file, runs, canceled, controllers, accepting, executor, unknown, crashes>>

JoinReturns(c) ==
    /\ call[c].pc = "joined" /\ ~Busy(call[c].target)
    /\ Return(c)
    /\ UNCHANGED <<memory, file, writes, exec, executor, unknown, ready, crashes>>

(* resume, up to its write.                                                *)
Resume(c, obj) ==
    LET run == copy[obj]
        refused == \/ execution # None
                   \/ run.state \in {"running", "canceling", "succeeded"}
                   \/ Unconfirmed(run) # {} /\ ~call[c].confirm
    IN
    /\ call[c].op = "resume" /\ Has(c, obj)
    /\ runs' = obj
    /\ IF refused
       THEN /\ Return(c)
            /\ UNCHANGED <<copy, canceled, writes, unknown>>
       ELSE /\ copy' = [copy EXCEPT ![obj] = Reset(run)]
            /\ canceled' = FALSE
            /\ unknown' = IF call[c].confirm THEN {} ELSE unknown
            /\ persistRun(Reset(run), Caller(c))
            /\ call' = [call EXCEPT ![c].pc = "persisting", ![c].obj = obj]
    /\ UNCHANGED <<executions, file, startLock, accepting, ready, crashes>>

(* Abort the controllers the map holds.                                    *)
AbortControllers ==
    executor' = [c \in Calls |-> [s \in Steps |->
        IF controllers[s] = c THEN [executor[c][s] EXCEPT !.aborted = TRUE]
        ELSE executor[c][s]]]

(* cancel: mark, write, abort, then wait for the execution; without one    *)
(* the call ends the run itself.                                           *)
Cancel(c, obj) ==
    /\ call[c].op = "cancel" /\ Has(c, obj)
    /\ runs' = obj
    /\ IF copy[obj].state \in TERMINAL_RUN_STATES
       THEN Return(c) /\ UNCHANGED <<copy, canceled, writes>>
       ELSE /\ canceled' = TRUE
            /\ copy' = [copy EXCEPT ![obj] = WithState(@, "canceling")]
            /\ persistRun(copy'[obj], Caller(c))
            /\ call' = [call EXCEPT ![c].pc = "persisting", ![c].obj = obj]
    /\ UNCHANGED <<executions, file, startLock, accepting, unknown, ready, crashes>>

CancelAborts(c) ==
    /\ call[c].op = "cancel" /\ call[c].pc = "persisting" /\ GoesOn(Caller(c))
    /\ AbortControllers
    /\ IF execution # None
       THEN /\ call' = [call EXCEPT ![c].pc = "awaiting", ![c].target = execution]
            /\ UNCHANGED <<copy, writes>>
       ELSE /\ copy' = [copy EXCEPT ![call[c].obj] = finalized(@)]
            /\ persistRun(copy'[call[c].obj], Caller(c))
            /\ call' = At(c, "finalizing")
    /\ UNCHANGED <<file, runs, canceled, execution, controllers, startLock, accepting, exec, unknown, crashes>>

CancelReturns(c) ==
    /\ call[c].op = "cancel"
    /\ \/ call[c].pc = "awaiting" /\ exec[call[c].target].pc = "ended" /\ UNCHANGED ready
       \/ call[c].pc = "finalizing" /\ GoesOn(Caller(c))
    /\ Return(c)
    /\ UNCHANGED <<memory, file, writes, exec, executor, unknown, crashes>>

(* wait, and with a timeout at once status, result and the list of runs.   *)
Wait(c, obj) ==
    /\ call[c].op = "wait" /\ Has(c, obj)
    /\ runs' = obj
    /\ IF copy[obj].state \in TERMINAL_RUN_STATES \/ execution = None
       THEN Return(c)
       ELSE call' = [call EXCEPT ![c].pc = "awaiting", ![c].target = execution]
    /\ UNCHANGED <<executions, file, copy, canceled, startLock, accepting, writes, unknown, ready, crashes>>

WaitReturns(c) ==
    /\ call[c].op = "wait" /\ call[c].pc = "awaiting"
    /\ Return(c)
    /\ UNCHANGED <<memory, file, writes, exec, executor, unknown, ready, crashes>>

(* shutdown: like cancel for the run that is executing.                    *)
Shutdown(c) ==
    /\ call[c].op = "shutdown" /\ call[c].pc = "begun"
    /\ accepting' = FALSE
    /\ canceled' = (canceled \/ execution # None)
    /\ \/ /\ execution # None
          /\ copy[runs].state \notin TERMINAL_RUN_STATES
          /\ copy' = [copy EXCEPT ![runs] = WithState(@, "canceling")]
          /\ persistRun(copy'[runs], Caller(c))
          /\ call' = At(c, "persisting")
          /\ UNCHANGED executor
       \/ /\ execution # None => copy[runs].state \in TERMINAL_RUN_STATES
          /\ IF execution = None THEN UNCHANGED executor ELSE AbortControllers
          /\ call' = [call EXCEPT ![c].pc = "awaiting", ![c].target = execution]
          /\ UNCHANGED <<copy, writes>>
    /\ UNCHANGED <<file, runs, execution, controllers, startLock, exec, unknown, ready, crashes>>

ShutdownAborts(c) ==
    /\ call[c].op = "shutdown" /\ call[c].pc = "persisting" /\ GoesOn(Caller(c))
    /\ AbortControllers
    /\ call' = [call EXCEPT ![c].pc = "awaiting", ![c].target = execution]
    /\ UNCHANGED <<memory, file, writes, exec, unknown, crashes>>

ShutdownReturns(c) ==
    /\ call[c].op = "shutdown" /\ call[c].pc = "awaiting"
    /\ call[c].target # None => exec[call[c].target].pc = "ended"
    /\ writes = <<>> /\ ready = None
    /\ Return(c)
    /\ UNCHANGED <<memory, file, writes, exec, executor, unknown, ready, crashes>>

(* The server starts again in the same process.                            *)
ResumeAccepting ==
    /\ ~accepting /\ \A c \in Calls : call[c].op = "shutdown" => ~Busy(c)
    /\ accepting' = TRUE
    /\ UNCHANGED <<executions, file, runs, copy, canceled, startLock, writes, call, unknown, ready, crashes>>

-----------------------------------------------------------------------------
(* Executions: execute and its two schedulers.                             *)
Run(e) == copy[exec[e].obj]
Active(e) == {s \in Steps : executor[e][s].phase # "idle"}
Goes(e, pc) == exec' = [exec EXCEPT ![e].pc = pc]
SetRun(e, run) == copy' = [copy EXCEPT ![exec[e].obj] = run]

(* The end of execute, once its scheduler returned or threw.               *)
Ends(e, outcome) ==
    LET run == IF canceled THEN finalized(Run(e)) ELSE outcome IN
    /\ SetRun(e, run)
    /\ persistRun(run, Loop(e))
    /\ Goes(e, "ending")

StartAtOnceMutant(e, S) ==
    /\ controllers' = [s \in Steps |-> IF s \in S THEN e ELSE controllers[s]]
    /\ executor' = [executor EXCEPT ![e] = [s \in Steps |->
            IF s \in S THEN [phase |-> "executing", aborted |-> FALSE, mapped |-> TRUE]
            ELSE executor[e][s]]]

(* The synchronous part of executeOne for each step of S.                  *)
Starting(e, S) ==
    /\ controllers' = [s \in Steps |-> IF s \in S THEN e ELSE controllers[s]]
    /\ executor' = [executor EXCEPT ![e] = [s \in Steps |->
            IF s \in S THEN [phase |-> "marking", aborted |-> FALSE, mapped |-> TRUE]
            ELSE executor[e][s]]]

(* A turn of a scheduler's loop; the first comes after execute's write.    *)
Turn(e) ==
    \/ exec[e].pc = "launched" /\ GoesOn(Loop(e))
    \/ exec[e].pc = "turn" /\ UNCHANGED ready

(* executeSequential: one turn of its loop.                                *)
SequentialTurn(e) ==
    LET open == {s \in DOMAIN Run(e).step : s >= exec[e].index /\ Run(e).step[s] # "succeeded"} IN
    /\ Turn(e) /\ Run(e).def.mode = "sequential"
    /\ \/ /\ canceled \/ open = {}
          /\ Ends(e, verdict(Run(e)))
          /\ UNCHANGED <<controllers, executor>>
       \/ \E s \in open :
             /\ ~canceled /\ \A t \in open : s <= t
             /\ SetRun(e, WithStep(Run(e), s, "running"))
             /\ persistRun(copy'[exec[e].obj], Worker(e, s))
             /\ Starting(e, {s})
             /\ exec' = [exec EXCEPT ![e].pc = "stepping", ![e].index = s]
    /\ UNCHANGED <<outside, execution, unknown>>

(* Its step settled: the rest is skipped if the step did not succeed.      *)
SequentialAfter(e) ==
    LET run == Run(e)
        i == exec[e].index
        stop == run.step[i] \in {"failed", "interrupted"} IN
    /\ exec[e].pc = "stepped"
    /\ IF stop
       THEN /\ LET rest == {s \in DOMAIN run.step : s > i /\ run.step[s] = "pending"} IN
               SetRun(e, Marked(run, rest, "skipped"))
            /\ persistRun(copy'[exec[e].obj], Loop(e))
            /\ Goes(e, "return")
       ELSE /\ exec' = [exec EXCEPT ![e].pc = "turn", ![e].index = i + 1]
            /\ UNCHANGED <<copy, writes>>
    /\ UNCHANGED <<outside, execution, controllers, executor, unknown, ready>>

Returns(e) ==
    /\ exec[e].pc = "return" /\ GoesOn(Loop(e))
    /\ Ends(e, verdict(Run(e)))
    /\ UNCHANGED <<outside, execution, controllers, executor, unknown>>

(* executeGraph: B is what one pass over the steps in their order skips,   *)
(* because they depend on a step that did not succeed.                     *)
Blocked(run, B) ==
    B = {s \in DOMAIN run.step :
            /\ run.step[s] = "pending"
            /\ \E d \in run.def.steps[s].deps :
                  \/ run.step[d] \in {"failed", "canceled", "interrupted", "skipped"}
                  \/ d \in B /\ d < s}

IgnoreDepsMutant(run, active, S) ==
    S = {s \in DOMAIN run.step :
            LET before == active \union {t \in S : t < s} IN
            /\ run.step[s] = "pending"
            /\ Cardinality(before) < run.def.maxConcurrency
            /\ \A t \in before :
                  run.def.steps[s].resources \intersect run.def.steps[t].resources = {}}

(* S is what a turn starts, in the order of the steps: dependencies have   *)
(* succeeded, their number is bounded, no resource of an active step.      *)
Startable(run, active, S) ==
    S = {s \in DOMAIN run.step :
            LET before == active \union {t \in S : t < s} IN
            /\ run.step[s] = "pending"
            /\ \A d \in run.def.steps[s].deps : run.step[d] = "succeeded"
            /\ Cardinality(before) < run.def.maxConcurrency
            /\ \A t \in before :
                  run.def.steps[s].resources \intersect run.def.steps[t].resources = {}}

(* Each step started is one write, in their order; the loop adds its own.  *)
Orders(S) ==
    {q \in [1 .. Cardinality(S) -> S] : \A i, j \in DOMAIN q : i < j => q[i] < q[j]}
UpTo(q, i) == {q[j] : j \in 1 .. i}
StartWrites(e, run, q) ==
    [i \in DOMAIN q |-> [run |-> Marked(run, UpTo(q, i), "running"), by |-> Worker(e, q[i])]]

(* Nothing runs and nothing can start: the end, or WORKFLOW_SCHEDULER_DEADLOCK. *)
NothingActive(e) ==
    LET stuck == \E s \in DOMAIN Run(e).step : Run(e).step[s] = "pending" IN
    Ends(e, IF stuck THEN WithState(Run(e), "failed") ELSE verdict(Run(e)))

Starts(e, S) ==
    LET run == Marked(Run(e), S, "running") IN
    /\ SetRun(e, run)
    /\ \E q \in Orders(S) :
          writes' = writes \o Append(StartWrites(e, Run(e), q), [run |-> run, by |-> Loop(e)])
    /\ Starting(e, S)
    /\ Goes(e, "started")

Schedule(e) ==
    \E S \in SUBSET DOMAIN Run(e).step :
        /\ Startable(Run(e), Active(e), S)
        /\ \/ S # {} /\ Starts(e, S)
           \/ /\ S = {} /\ Active(e) # {}
              /\ Goes(e, "racing")
              /\ UNCHANGED <<copy, writes, controllers, executor>>
           \/ /\ S = {} /\ Active(e) = {}
              /\ NothingActive(e)
              /\ UNCHANGED <<controllers, executor>>

GraphTurn(e) ==
    /\ Turn(e) /\ Run(e).def.mode = "graph"
    /\ \/ /\ canceled
          /\ Goes(e, "drain")
          /\ UNCHANGED <<copy, writes, controllers, executor>>
       \/ \E B \in SUBSET DOMAIN Run(e).step :
             /\ ~canceled /\ Blocked(Run(e), B)
             /\ \/ /\ B # {}
                   /\ SetRun(e, Marked(Run(e), B, "skipped"))
                   /\ persistRun(copy'[exec[e].obj], Loop(e))
                   /\ Goes(e, "schedule")
                   /\ UNCHANGED <<controllers, executor>>
                \/ B = {} /\ Schedule(e)
    /\ UNCHANGED <<outside, execution, unknown>>

GraphSchedule(e) ==
    /\ exec[e].pc = "schedule" /\ GoesOn(Loop(e))
    /\ Schedule(e)
    /\ UNCHANGED <<outside, execution, unknown>>

(* After its write the loop waits for an executor that is still active.    *)
GraphRaces(e) ==
    /\ exec[e].pc = "started" /\ GoesOn(Loop(e))
    /\ IF Active(e) = {} THEN NothingActive(e)
       ELSE Goes(e, "racing") /\ UNCHANGED <<copy, writes>>
    /\ UNCHANGED <<outside, execution, controllers, executor, unknown>>

GraphDrained(e) ==
    /\ exec[e].pc = "drain" /\ Active(e) = {}
    /\ Ends(e, verdict(Run(e)))
    /\ UNCHANGED <<outside, execution, controllers, executor, unknown, ready>>

KeepsEntryMutant(e) ==
    /\ exec[e].pc = "ending" /\ GoesOn(Loop(e))
    /\ exec' = [exec EXCEPT ![e] = [NoExecution EXCEPT !.pc = "ended"]]
    /\ UNCHANGED <<outside, copy, writes, unknown, execution, controllers, executor>>

(* The map of controllers goes, the entry of the execution too unless a    *)
(* later launch replaced it.                                               *)
ExecutionEnds(e) ==
    /\ exec[e].pc = "ending" /\ GoesOn(Loop(e))
    /\ exec' = [exec EXCEPT ![e] = [NoExecution EXCEPT !.pc = "ended"]]
    /\ execution' = IF execution = e THEN None ELSE execution
    /\ controllers' = [s \in Steps |-> None]
    /\ executor' = [c \in Calls |-> [s \in Steps |-> [executor[c][s] EXCEPT !.mapped = FALSE]]]
    /\ UNCHANGED <<outside, copy, writes, unknown>>

-----------------------------------------------------------------------------
(* Executors: executeOne after its first write, and executeStep.           *)
Step(e, s) == Run(e).def.steps[s]
Phase(e, s, phase) == executor' = [executor EXCEPT ![e][s].phase = phase]

(* The outcome of the step: its controller goes, the run is written.       *)
Settles(e, s, outcome) ==
    /\ SetRun(e, WithStep(Run(e), s, outcome))
    /\ persistRun(copy'[exec[e].obj], Worker(e, s))
    /\ executor' = [executor EXCEPT ![e][s] = [Idle EXCEPT !.phase = "closing"]]
    /\ controllers' = IF executor[e][s].mapped THEN [controllers EXCEPT ![s] = None]
                      ELSE controllers

(* The outcome of an error: canceled if the step is aborted or the run is  *)
(* canceled by now.                                                        *)
Thrown(e, s) == IF executor[e][s].aborted \/ canceled THEN "canceled" ELSE "failed"

(* The executor begins.  A command or a wait looks at the signal first; a  *)
(* tool gets a fresh signal that follows the signal of the step, and does  *)
(* not hear of an abort that came before.                                  *)
BeginExecute(e, s) ==
    /\ IF executor[e][s].aborted /\ Step(e, s).kind # "tool"
       THEN Settles(e, s, Thrown(e, s))
       ELSE Phase(e, s, "executing") /\ UNCHANGED <<copy, writes, controllers>>

(* A step with resources may find them leased.                             *)
StepMarked(e, s) ==
    /\ executor[e][s].phase = "marking" /\ GoesOn(Worker(e, s))
    /\ \/ BeginExecute(e, s)
       \/ /\ Step(e, s).resources # {}
          /\ IF executor[e][s].aborted THEN Settles(e, s, Thrown(e, s))
             ELSE Phase(e, s, "waiting") /\ UNCHANGED <<copy, writes, controllers>>
    /\ UNCHANGED <<outside, execution, exec, unknown>>

NotWokenMutant(e, s) ==
    /\ executor[e][s].phase = "waiting" /\ executor[e][s].aborted
    /\ Settles(e, s, Thrown(e, s))
    /\ UNCHANGED <<outside, execution, exec, unknown, ready>>

(* The lease is granted, or the abort ends the wait.                       *)
StepLeased(e, s) ==
    /\ executor[e][s].phase = "waiting"
    /\ \/ BeginExecute(e, s)
       \/ executor[e][s].aborted /\ Settles(e, s, Thrown(e, s))
    /\ UNCHANGED <<outside, execution, exec, unknown, ready>>

(* The executor ends: success, a failure it reports, an error (a missing   *)
(* or stale output among them), the deadline of a tool.                    *)
Outcomes(e, s) ==
    IF executor[e][s].aborted THEN {"canceled"} ELSE {"succeeded", "failed", Thrown(e, s)}

StepEnds(e, s) ==
    /\ executor[e][s].phase = "executing"
    /\ \/ /\ \E outcome \in Outcomes(e, s) : Settles(e, s, outcome)
          /\ UNCHANGED unknown
       \/ /\ Step(e, s).kind = "tool"
          /\ Settles(e, s, "interrupted")
          /\ unknown' = IF Step(e, s).safe THEN unknown ELSE unknown \union {s}
    /\ UNCHANGED <<outside, execution, exec, ready>>

NoWakeMutant(e, s) ==
    /\ executor[e][s].phase = "closing" /\ GoesOn(Worker(e, s))
    /\ executor' = [executor EXCEPT ![e][s] = Idle]
    /\ UNCHANGED <<memory, file, writes, exec, call, unknown, crashes>>

(* executeOne returns to its scheduler.                                    *)
StepReturns(e, s) ==
    /\ executor[e][s].phase = "closing" /\ GoesOn(Worker(e, s))
    /\ executor' = [executor EXCEPT ![e][s] = Idle]
    /\ exec' = [exec EXCEPT ![e].pc = CASE @ = "racing" -> "turn"
                                        [] @ = "stepping" -> "stepped"
                                        [] OTHER -> @]
    /\ UNCHANGED <<memory, file, writes, call, unknown, crashes>>

-----------------------------------------------------------------------------
(* The runtime dies: memory is lost, and what was not written.             *)
CutOff(e, s) ==
    /\ exec[e].obj # None
    /\ s \in DOMAIN Run(e).step
    /\ Mutates(Run(e), s) /\ ~Step(e, s).safe
    /\ \/ executor[e][s].phase = "executing"
       \/ executor[e][s].phase = "closing" /\ file.step[s] = "running"

Crash ==
    /\ crashes < MaxCrashes
    /\ crashes' = crashes + 1
    /\ unknown' = unknown \union {s \in Steps : \E e \in Calls : CutOff(e, s)}
    /\ runs' = None /\ copy' = [c \in Calls |-> None]
    /\ canceled' = FALSE /\ accepting' = TRUE
    /\ execution' = None /\ startLock' = None
    /\ controllers' = [s \in Steps |-> None]
    /\ writes' = <<>> /\ ready' = None
    /\ call' = [c \in Calls |-> IF Busy(c) THEN [NewCall EXCEPT !.op = call[c].op, !.pc = "done"]
                                ELSE call[c]]
    /\ exec' = [c \in Calls |-> IF exec[c].pc = "none" THEN exec[c]
                                ELSE [NoExecution EXCEPT !.pc = "ended"]]
    /\ executor' = [c \in Calls |-> [s \in Steps |-> Idle]]
    /\ UNCHANGED file

(* The first turn of a call, at once after its beginning.                  *)
FirstTurn(c) ==
    \/ NotLoaded(c) \/ StartJoins(c) \/ StartReads(c) \/ Shutdown(c)
    \/ \E obj \in Calls : StartFinds(c, obj) \/ Resume(c, obj) \/ Cancel(c, obj) \/ Wait(c, obj)

Progress(c) ==
    \/ Read(c) \/ Rewrite(c) \/ ReadFails(c)
    \/ StartCreates(c) \/ Launches(c) \/ JoinReturns(c)
    \/ StartFinds(c, c) \/ Resume(c, c) \/ Cancel(c, c) \/ Wait(c, c)
    \/ CancelAborts(c) \/ CancelReturns(c) \/ WaitReturns(c)
    \/ ShutdownAborts(c) \/ ShutdownReturns(c)

Executes(e) ==
    \/ SequentialTurn(e) \/ SequentialAfter(e) \/ Returns(e)
    \/ GraphTurn(e) \/ GraphSchedule(e) \/ GraphRaces(e) \/ GraphDrained(e)
    \/ ExecutionEnds(e)

StepRuns(e, s) == StepMarked(e, s) \/ StepLeased(e, s) \/ StepEnds(e, s) \/ StepReturns(e, s)

Begun == {c \in Calls : call[c].pc = "begun"}

(* What is due once there are calls.                                       *)
Work ==
    \/ \E c \in Begun : FirstTurn(c)
    \/ /\ Begun = {}
       /\ \/ WriteRun
          \/ \E c \in Calls :
                \/ Progress(c) \/ Executes(c)
                \/ \E s \in Steps : StepRuns(c, s)

Next ==
    \/ Work
    \/ /\ Begun = {}
       /\ \/ \E c \in Calls :
                \/ \E d \in Definitions : Begin(c, "start", d, FALSE)
                \/ \E op \in {"wait", "cancel", "shutdown"} : Begin(c, op, None, FALSE)
                \/ \E confirm \in BOOLEAN : Begin(c, "resume", None, confirm)
          \/ ResumeAccepting
          \/ Crash

Spec == Init /\ [][Next]_vars

-----------------------------------------------------------------------------
Executing(s) == \E e \in Calls : executor[e][s].phase = "executing"

(* A run that is reported at its end is quiet: status, wait and cancel do  *)
(* not say succeeded, failed or canceled while an executor is at work.     *)
EndIsQuiet ==
    runs # None /\ copy[runs].state \in {"succeeded", "failed", "canceled"} =>
        \A s \in Steps : ~Executing(s)

(* workflow_cancel does not report canceled until the executors of the run *)
(* have settled (cancel, finalizeCanceled).                                *)
CancelSettles ==
    [][\A c \in Calls :
          call[c].op = "cancel" /\ Busy(c) /\ ~Busy(c)' /\ crashes' = crashes
          /\ runs # None /\ copy[runs].state = "canceled"
          => \A s \in Steps : ~Executing(s)]_vars

(* What is at work is on record, in memory and in the file: no status, wait *)
(* or cancel reports a run at its end meanwhile (EndIsQuiet), and whenever *)
(* the runtime dies, the next one finds the step running and calls it      *)
(* interrupted (executeOne, execute, loadRun).                             *)
WorkIsOnRecord ==
    \A s \in Steps : Executing(s) =>
        /\ runs # None
        /\ \A run \in {file, copy[runs]} :
              /\ run # None
              /\ run.step[s] = "running"
              /\ run.state \in {"running", "canceling"}

(* A run whose end is on record has no step left over: every step ran, was *)
(* skipped or was canceled (both schedulers, finalizeCanceled), provided   *)
(* that definitions list a step after the steps it depends on.             *)
EndIsComplete ==
    file # None /\ file.state \in {"succeeded", "failed", "canceled"} =>
        \A s \in DOMAIN file.step : file.step[s] \in TERMINAL_STEP_STATES

(* A mutation whose outcome is unknown is not replayed unless a caller     *)
(* confirmed it or the step is declared safe, across crashes (resume).     *)
NoUnconfirmedReplay == \A s \in unknown : ~Executing(s)

(* One key starts one execution, whatever crashes between the write of the *)
(* run and its launch; all others are resumed (startDefinition).           *)
StartsOnce == Cardinality({c \in Calls : call[c].op = "start" /\ exec[c].pc # "none"}) <= 1

(* Work that passed stays: once the file says that a step succeeded, no    *)
(* later write takes it back (the queue writes snapshots in order, resume  *)
(* keeps what succeeded) and no executor begins it again.                  *)
PassedStays ==
    [][\A s \in Steps :
          file # None /\ s \in DOMAIN file.step /\ file.step[s] = "succeeded" =>
              /\ file'.step[s] = "succeeded"
              /\ Executing(s)' => Executing(s)]_vars

(* The manager implements WorkflowRun: what the file says of a step and    *)
(* what its executor does are a behaviour of that specification.           *)
InPhase(s, phases) == \E e \in Calls : executor[e][s].phase \in phases
Recorded(s, states) == file # None /\ s \in DOMAIN file.step /\ file.step[s] \in states
StatusOf(s) ==
    IF Executing(s) THEN "working"
    ELSE IF Recorded(s, {"succeeded"}) THEN "passed"
    ELSE IF ~Recorded(s, {"running"}) THEN "open"
    ELSE IF InPhase(s, {"marking", "waiting"}) THEN "begun"
    ELSE IF ~InPhase(s, {"closing"}) THEN "open"
    ELSE IF copy[runs].step[s] = "succeeded" THEN "done" ELSE "ended"

Promise == INSTANCE WorkflowRun WITH
    definition <- IF file = None THEN None ELSE file.def,
    status <- [s \in Steps |-> StatusOf(s)],
    doubtful <- unknown
ImplementsWorkflowRun == Promise!RunSpec

(* What is due: a write or who waited for it, a call that reads the file   *)
(* or whose execution or shared start is over, a turn of a loop, an        *)
(* executor that has its lease to come or its command to end.              *)
Due ==
    \/ writes # <<>> \/ ready # None
    \/ \E c \in Calls :
          \/ call[c].pc \in {"begun", "reading", "rewriting", "loaded"}
          \/ call[c].pc = "joined" /\ ~Busy(call[c].target)
          \/ /\ call[c].pc = "awaiting"
             /\ \/ call[c].op = "wait" \/ call[c].target = None
                \/ exec[call[c].target].pc = "ended"
    \/ \E e \in Calls :
          \/ exec[e].pc \in {"turn", "stepped"}
          \/ exec[e].pc = "drain" /\ Active(e) = {}
          \/ \E s \in Steps : executor[e][s].phase \in {"waiting", "executing"}

(* Nobody waits for what does not come: as long as a call has not returned *)
(* or an execution has not ended, some write, callback or executor is due. *)
(* As the calls of the model make finitely many steps, every call returns  *)
(* once writes are made and executors end; each kind has a timeout.        *)
NobodyIsStuck == (\E c \in Calls : Busy(c) \/ exec[c].pc \notin {"none", "ended"}) => Due

(* And what is due can happen: the writer whose write is done waits for it,*)
(* a pass of a loop over the steps has an outcome, a lease comes.          *)
DueIsEnabled == Due => ENABLED Work
=============================================================================
