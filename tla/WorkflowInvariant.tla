-------------------------- MODULE WorkflowInvariant --------------------------
(***************************************************************************)
(* The inductive invariant of WorkflowManager for calls that do not        *)
(* overlap (see MayBegin), in parts that build on one another: who is      *)
(* under way, whose writes are queued, what the copy in memory says, what  *)
(* the file and the queued snapshots say, and what is known of steps whose *)
(* outcome is unknown.  The last part, that no step is left over, is for   *)
(* definitions that list dependencies first.                               *)
(***************************************************************************)
EXTENDS WorkflowManager

Phase3 == {"marking", "waiting", "executing"}
Live(e) == exec[e].pc \notin {"none", "ended"}
Quiet(e) == \A s \in Steps : executor[e][s].phase = "idle"
Launching(c) == call[c].pc = "persisting" /\ call[c].op \in {"start", "resume"}

(* Calls: who reads the file is alone, and who is about to launch is the   *)
(* only one, with nothing executing.                                       *)
CallShape(c) ==
    /\ call[c].pc = "begun" => \A d \in Calls \ {c} :
          /\ ~Reading(d) /\ call[d].pc # "begun"
          /\ runs = None \/ call[c].op \in {"resume", "shutdown"} => ~Busy(d)
    /\ Reading(c) => runs = None /\ \A d \in Calls \ {c} : ~Busy(d)
    /\ call[c].pc = "rewriting" => file # None /\ copy[c] = Loaded(file)
    /\ call[c].pc = "loaded" => copy[c] = file
    /\ Launching(c) => execution = None /\ \A d \in Calls \ {c} : ~Launching(d)
    /\ call[c].pc \in {"persisting", "finalizing"} =>
          runs # None /\ (call[c].op # "shutdown" => call[c].obj = runs)
    /\ call[c].pc # "done" => exec[c].pc = "none"
    /\ Busy(c) /\ call[c].op = "start" => call[c].def # None
CallsShape == \A c \in Calls : CallShape(c)

(* Executions: at most one is under way, on the run in memory; executors   *)
(* are of that one, and at most one at a time in a sequential workflow.    *)
Sequential(run) == run.def.mode = "sequential"
ExecShape(e) ==
    /\ Live(e) <=> execution = e
    /\ Live(e) => exec[e].obj = runs
    /\ ~Live(e) \/ exec[e].pc \in {"launched", "ending"} => Quiet(e)
    /\ \A s \in Steps : executor[e][s].phase # "idle" => s \in DOMAIN copy[runs].step
    /\ Live(e) /\ Sequential(copy[runs]) =>
          /\ exec[e].pc \notin {"schedule", "started", "racing", "drain"}
          /\ exec[e].pc # "stepping" => Quiet(e)
          /\ \A s \in Steps : executor[e][s].phase # "idle" => s = exec[e].index
    /\ Live(e) /\ ~Sequential(copy[runs]) => exec[e].pc \notin {"stepping", "stepped", "return"}
ExecutionShape ==
    /\ runs = None => execution = None /\ writes = <<>> /\ ready = None
    /\ ready # None \/ execution # None => file # None
    /\ \A e \in Calls : ExecShape(e)

(* The queue: position 0 is the file and the writer that has not gone on.  *)
Positions == 0 .. Len(writes)
Rec(i) == IF i = 0 THEN file ELSE writes[i].run
By(i) == IF i = 0 THEN ready ELSE writes[i].by

(* Who writes waits for that write, and for no other one.                  *)
Awaits(w) ==
    \/ \E c \in Calls : w = Caller(c) /\ call[c].pc \in {"persisting", "finalizing"}
    \/ \E e \in Calls : w = Loop(e) /\ exec[e].pc \in {"launched", "return", "schedule", "started", "ending"}
    \/ \E e \in Calls, s \in Steps : w = Worker(e, s) /\ executor[e][s].phase \in {"marking", "closing"}

WritersWait ==
    /\ \A i \in Positions : By(i) # None => Awaits(By(i))
    /\ \A i, j \in Positions : By(i) # None /\ By(i) = By(j) => i = j

(* The copy in memory: a step is running exactly if its executor has not   *)
(* settled it, and then the run is running or canceling; what is read or   *)
(* about to be launched has nothing running, and what a sequential loop    *)
(* has before it has not begun.                                            *)
HasRunning(run) == \E s \in DOMAIN run.step : run.step[s] = "running"
Unbegun == {"pending", "succeeded", "canceled"}

RunningIsHeld ==
    runs # None => \A s \in DOMAIN copy[runs].step : copy[runs].step[s] = "running" =>
        execution # None /\ executor[execution][s].phase \in Phase3
ExecutorsAgree ==
    \A e \in Calls, s \in Steps :
        /\ executor[e][s].phase \in Phase3 => copy[runs].step[s] = "running"
        /\ executor[e][s].phase = "closing" => copy[runs].step[s] \in TERMINAL_STEP_STATES
OpenWhileLive ==
    \A e \in Calls : Live(e) /\ exec[e].pc # "ending" => copy[runs].state \in {"running", "canceling"}
ReadIsAtRest ==
    \A c \in Calls : call[c].pc \in {"rewriting", "loaded"} /\ copy[c] # None => ~HasRunning(copy[c])
LaunchIsFresh ==
    \A c \in Calls : Launching(c) => \A s \in DOMAIN copy[runs].step : copy[runs].step[s] \in Unbegun
Ahead(e, s) ==
    \/ exec[e].pc = "launched"
    \/ exec[e].pc = "turn" /\ s >= exec[e].index
    \/ exec[e].pc \in {"stepping", "stepped"} /\ s > exec[e].index
AheadIsUnbegun ==
    \A e \in Calls : Live(e) /\ Sequential(copy[runs]) =>
        \A s \in DOMAIN copy[runs].step : Ahead(e, s) => copy[runs].step[s] \in Unbegun

CopyAgrees ==
    RunningIsHeld /\ ExecutorsAgree /\ OpenWhileLive /\ ReadIsAtRest /\ LaunchIsFresh /\ AheadIsUnbegun

(* The file and the snapshots: the last one is the copy in memory; none    *)
(* takes back what succeeded, none has a step running once the run is at   *)
(* its end; and every step at work is running in all of them.              *)
Follows(a, b) ==
    /\ a.def = b.def
    /\ \A s \in DOMAIN a.step : a.step[s] = "succeeded" => b.step[s] = "succeeded"
RunningIsOpen(run) == HasRunning(run) => run.state \in {"running", "canceling"}
OnRecord(run, s) ==
    /\ run # None /\ s \in DOMAIN run.step
    /\ run.step[s] = "running" /\ run.state \in {"running", "canceling"}

RecordsFollow ==
    /\ runs # None => copy[runs] = Rec(Len(writes))
    /\ \A i \in Positions : i + 1 \in Positions /\ Rec(i) # None => Follows(Rec(i), Rec(i + 1))
    /\ \A i \in Positions : Rec(i) # None => RunningIsOpen(Rec(i))
    /\ runs # None => \A i \in Positions : Rec(i) # None => Rec(i).def = copy[runs].def

WorkRecorded ==
    \A e \in Calls, s \in Steps :
        /\ executor[e][s].phase \in {"waiting", "executing"} =>
              \A i \in Positions : OnRecord(Rec(i), s)
        /\ executor[e][s].phase = "marking" =>
              \A i, j \in Positions : By(i) = Worker(e, s) /\ i <= j => OnRecord(Rec(j), s)

(* A step whose outcome is unknown is interrupted, or will be when the     *)
(* file is read.                                                           *)
UnknownKept ==
    /\ unknown # {} => file # None
    /\ \A s \in unknown :
          /\ \A i \in Positions : /\ s \in DOMAIN Rec(i).step
                                  /\ Mutates(Rec(i), s) /\ ~Rec(i).def.steps[s].safe
                                  /\ Rec(i).step[s] \in {"running", "interrupted"}
          /\ runs # None => copy[runs].step[s] = "interrupted"
          /\ \A c \in Calls : call[c].pc \in {"rewriting", "loaded"} => copy[c].step[s] = "interrupted"

(* A start that launches, has launched or is about to is the only one.     *)
Started(c) == call[c].op = "start" /\ (call[c].pc = "persisting" \/ exec[c].pc # "none")
OneStart ==
    \A c \in Calls : Started(c) =>
        /\ exec[c].pc # "none" => file # None
        /\ \A d \in Calls \ {c} : ~Started(d)

WorkflowInv ==
    /\ CallsShape /\ ExecutionShape /\ WritersWait /\ CopyAgrees
    /\ RecordsFollow /\ WorkRecorded /\ UnknownKept /\ OneStart

-----------------------------------------------------------------------------
(* What ties a step to WorkflowRun.  Aborts come with a cancellation, and  *)
(* without one all that a sequential loop has behind it has succeeded.     *)
AbortsAreCancels ==
    /\ \A c \in Calls : call[c].op \in {"cancel", "shutdown"} /\ call[c].pc = "persisting" => canceled
    /\ \A e \in Calls, s \in Steps :
          executor[e][s].phase # "idle" /\ executor[e][s].aborted => canceled
BehindIsPassed ==
    \A e \in Calls : Live(e) /\ Sequential(copy[runs]) /\ ~canceled =>
        \A s \in DOMAIN copy[runs].step :
            /\ exec[e].pc \in {"launched", "turn", "stepping", "stepped"} /\ s < exec[e].index
                  => copy[runs].step[s] = "succeeded"
            /\ exec[e].pc \in {"stepping", "stepped"} /\ s = exec[e].index
                  => copy[runs].step[s] \in {"running", "succeeded", "failed", "interrupted"}

(* The write of an executor that waits for it is in the queue: the records *)
(* before it do not have what it says, those from it on do.                *)
Succeeded(run, s) == run # None /\ s \in DOMAIN run.step /\ run.step[s] = "succeeded"
RunsOn(run, s) == run # None /\ s \in DOMAIN run.step /\ run.step[s] = "running"
OwnWriteQueued ==
    \A e \in Calls, s \in Steps : executor[e][s].phase \in {"marking", "closing"} =>
        \E i \in Positions : By(i) = Worker(e, s)
MarkedByOwnWrite ==
    \A e \in Calls, s \in Steps : executor[e][s].phase = "marking" =>
        \A i, j \in Positions : By(j) = Worker(e, s) /\ i < j => ~RunsOn(Rec(i), s)
ClosedByOwnWrite ==
    \A e \in Calls, s \in Steps : executor[e][s].phase = "closing" =>
        \A i, j \in Positions : By(j) = Worker(e, s) =>
            IF i < j THEN OnRecord(Rec(i), s) ELSE Rec(i).step[s] = copy[runs].step[s]

(* A record that has a step running has an executor of it; one that has it *)
(* succeeded agrees with the copy in memory, and all do that once the      *)
(* executor has returned.                                                  *)
RecordsHeld ==
    runs # None => \A i \in Positions, s \in Steps :
        RunsOn(Rec(i), s) => execution # None /\ executor[execution][s].phase # "idle"
SuccessKept ==
    runs # None => \A i \in Positions, s \in Steps :
        Succeeded(Rec(i), s) => Succeeded(copy[runs], s)
SuccessRecorded ==
    runs # None => \A s \in Steps : Succeeded(copy[runs], s) =>
        \/ \A i \in Positions : Succeeded(Rec(i), s)
        \/ \E e \in Calls : executor[e][s].phase = "closing"

(* When the write that marks a step running is made, what it needs is on   *)
(* record as succeeded, and there is room beside the steps under way: all  *)
(* that have an executor, except those to be marked later.                 *)
Precedes(u, w) == \E i, j \in Positions : By(i) = u /\ By(j) = w /\ i < j
Needed(run, s) == IF Sequential(run) THEN 1 .. s - 1 ELSE run.def.steps[s].deps
Beside(e, s) ==
    {t \in Steps \ {s} : /\ executor[e][t].phase # "idle"
                         /\ executor[e][t].phase = "marking" => ~Precedes(Worker(e, s), Worker(e, t))}
NeedsPassed ==
    \A e \in Calls, s \in Steps : executor[e][s].phase = "marking" =>
        \A d \in Needed(copy[runs], s) :
            /\ Succeeded(copy[runs], d)
            /\ executor[e][d].phase = "closing" => Precedes(Worker(e, d), Worker(e, s))
HasRoom ==
    \A e \in Calls, s \in Steps : executor[e][s].phase = "marking" =>
        /\ Cardinality(Beside(e, s)) < copy[runs].def.maxConcurrency
        /\ \A t \in Beside(e, s) :
              copy[runs].def.steps[s].resources \intersect copy[runs].def.steps[t].resources = {}

PromiseInv ==
    /\ AbortsAreCancels /\ BehindIsPassed
    /\ OwnWriteQueued /\ MarkedByOwnWrite /\ ClosedByOwnWrite
    /\ RecordsHeld /\ SuccessKept /\ SuccessRecorded
    /\ NeedsPassed /\ HasRoom

-----------------------------------------------------------------------------
(* Nobody waits for what does not come: who waits for a write has it in    *)
(* the queue, a call waits for a start or an execution there is, a loop    *)
(* for an executor at work.                                                *)
Queued(w) == \E i \in Positions : By(i) = w
WritersQueued == \A w \in Writers : Awaits(w) => Queued(w)

UnderStart(c) == call[c].op = "start" /\ call[c].pc \in {"reading", "rewriting", "loaded", "persisting"}
LockHeld == startLock # None => UnderStart(startLock)
CallWaits(c) ==
    /\ call[c].pc = "joined" =>
          /\ call[c].op = "start" /\ call[c].target # None
          /\ UnderStart(call[c].target) \/ call[call[c].target].pc = "done"
    /\ call[c].pc = "awaiting" =>
          IF call[c].target = None THEN call[c].op = "shutdown" ELSE exec[call[c].target].pc # "none"
CallsWait == \A c \in Calls : CallWaits(c)

LoopsBusy == \A e \in Calls : exec[e].pc \in {"racing", "stepping"} => ~Quiet(e)

WaitInv == WritersQueued /\ LockHeld /\ CallsWait /\ LoopsBusy

-----------------------------------------------------------------------------
(* Definitions that list every step after the steps it depends on.         *)
ListedInOrder ==
    \A d \in Definitions : \A s \in 1 .. Len(d.steps) : d.steps[s].deps \subseteq 1 .. s - 1

Complete(run) ==
    run.state \in {"succeeded", "failed", "canceled"} =>
        \A s \in DOMAIN run.step : run.step[s] \in TERMINAL_STEP_STATES

(* No step is blocked but not skipped.                                     *)
Closed(run) ==
    \A s \in DOMAIN run.step : run.step[s] = "pending" =>
        \A d \in run.def.steps[s].deps :
            run.step[d] \notin {"failed", "canceled", "interrupted", "skipped"}

(* Step s is at work, or its last write comes after the one of the loop.   *)
Before(u, w) == \A i, j \in Positions : By(i) = w /\ By(j) = u => j < i
Outlasts(e, s) ==
    \/ executor[e][s].phase \in Phase3
    \/ executor[e][s].phase = "closing" /\ Before(Loop(e), Worker(e, s))

RecordsComplete == \A i \in Positions : Rec(i) # None => Complete(Rec(i))
ReadIsComplete ==
    \A c \in Calls : call[c].pc \in {"rewriting", "loaded"} /\ copy[c] # None => Complete(copy[c])

(* A graph's loop whose write is under way has it in the queue, and finds  *)
(* an executor at work when it goes on, or nothing left to skip.           *)
GraphGoesOn ==
    \A e \in Calls :
        /\ exec[e].pc \in {"schedule", "started"} => \E i \in Positions : By(i) = Loop(e)
        /\ exec[e].pc = "schedule" => Closed(copy[runs]) \/ \E s \in Steps : Outlasts(e, s)
        /\ exec[e].pc = "started" => \E s \in Steps : Outlasts(e, s)
DrainIsCanceled == \A e \in Calls : exec[e].pc = "drain" => canceled

(* What a sequential loop has behind it is over.                           *)
PassedIsOver ==
    \A e \in Calls : Live(e) /\ Sequential(copy[runs]) =>
        \A s \in DOMAIN copy[runs].step :
            /\ exec[e].pc \in {"launched", "turn", "stepping", "stepped"} /\ s < exec[e].index
                  => copy[runs].step[s] \in TERMINAL_STEP_STATES
            /\ exec[e].pc \in {"stepping", "stepped"} /\ s = exec[e].index
                  => copy[runs].step[s] # "pending"
            /\ exec[e].pc = "return" => copy[runs].step[s] \in TERMINAL_STEP_STATES

NothingLeftOver ==
    RecordsComplete /\ ReadIsComplete /\ GraphGoesOn /\ DrainIsCanceled /\ PassedIsOver

(* The inductive invariant: a run has at most one execution, what the      *)
(* copies in memory, the queued snapshots and the file say of every step   *)
(* agrees with its executor, each writer waits for its own write and has   *)
(* it in the queue, and the loops leave no step over (launch, executeOne,  *)
(* persistRun, executeGraph).                                              *)
Inductive == TypeOK /\ WorkflowInv /\ PromiseInv /\ WaitInv /\ (ListedInOrder => NothingLeftOver)
=============================================================================
