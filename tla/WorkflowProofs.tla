---------------------------- MODULE WorkflowProofs ----------------------------
(***************************************************************************)
(* Theorems about WorkflowManager, for any definitions, any number of      *)
(* calls that do not overlap, and any number of crashes.                   *)
(***************************************************************************)
EXTENDS WorkflowInvariant, FiniteSetTheorems, SequenceTheorems, WellFoundedInduction, TLAPS

-----------------------------------------------------------------------------
(* What a step amounts to: the effect of each action on the calls, the     *)
(* executions, the copy in memory and the queue, without the conditions    *)
(* and the results the proofs do not need.  Every step has one of these    *)
(* effects (NextIs), and the proofs then reason about the effects alone.   *)

(* A run that differs from r in its state and in the states of its steps.  *)
Varies(q, r) ==
    /\ q \in Runs /\ q.def = r.def /\ DOMAIN q.step = DOMAIN r.step

(* What a step leaves alone.                                               *)
OneCall(c) == call' \in [Calls -> CallRecords] /\ \A d \in Calls \ {c} : call'[d] = call[d]

OneExecution(e) ==
    exec' \in [Calls -> ExecutionRecords] /\ \A d \in Calls \ {e} : exec'[d] = exec[d]

SamePhases ==
    /\ executor' \in [Calls -> [Steps -> ExecutorRecords]]
    /\ \A e \in Calls, s \in Steps : executor'[e][s].phase = executor[e][s].phase

PhasesBut(e, S) ==
    /\ executor' \in [Calls -> [Steps -> ExecutorRecords]]
    /\ \A d \in Calls, s \in Steps :
          d # e \/ s \notin S => executor'[d][s].phase = executor[d][s].phase

(* The shape: types, calls and executions.                                 *)
Shape == TypeOK /\ CallsShape /\ ExecutionShape

(* What holds of the rest of the state, by its type.                       *)
Rest ==
    /\ canceled \in BOOLEAN /\ accepting \in BOOLEAN
    /\ startLock \in Calls \union {None}
    /\ controllers \in [Steps -> Calls \union {None}]
    /\ unknown \subseteq Steps /\ crashes \in Nat

(* A step of a call that writes nothing, and launches nothing.             *)
CallStep(c) ==
    /\ UNCHANGED <<file, copy, writes, execution, exec, unknown>>
    /\ Rest' /\ (canceled => canceled')
    /\ SamePhases /\ OneCall(c)
    /\ call'[c].op = call[c].op /\ (call'[c].pc # "done" => call'[c].def = call[c].def)
    /\ call[c].pc \notin {"idle", "done"}
    /\ call'[c].pc \in {"reading", "joined", "awaiting", "done"}
    /\ call'[c].pc = "reading" => call[c].pc = "begun" /\ runs = None
    /\ IF call[c].pc \in {"persisting", "finalizing"}
       THEN ready = Caller(c) /\ ready' = None
       ELSE ready' = ready
    /\ \/ runs' = runs
       \/ runs = None /\ runs' = c /\ call[c].pc = "loaded" /\ copy[c] # None

(* A step of a call that writes run.                                       *)
CallWrites(c, run) ==
    /\ UNCHANGED <<file, execution, exec>>
    /\ Rest' /\ (execution # None /\ canceled => canceled')
    /\ SamePhases /\ OneCall(c)
    /\ call'[c].op = call[c].op /\ call'[c].def = call[c].def
    /\ call'[c].op # "shutdown" => call'[c].obj = runs'
    /\ runs' \in Calls /\ run \in Runs
    /\ IF runs = None THEN call[c].pc = "loaded" /\ runs' = c
       ELSE call[c].pc \in {"begun", "persisting"} /\ runs' = runs
    /\ copy' = [copy EXCEPT ![runs'] = run]
    /\ writes' = Append(writes, [run |-> run, by |-> Caller(c)])
    /\ IF call[c].pc = "persisting" THEN ready = Caller(c) /\ ready' = None
       ELSE ready' = ready
    /\ \/ /\ call[c].op = "start" /\ call'[c].pc = "persisting"
          /\ runs = None /\ copy[c] = None /\ unknown' = unknown
          /\ run.state = "pending" /\ \A s \in DOMAIN run.step : run.step[s] = "pending"
       \/ /\ call[c].op = "resume" /\ call'[c].pc = "persisting"
          /\ execution = None /\ call[c].pc # "persisting"
          /\ copy[runs'] \in Runs /\ run = Reset(copy[runs'])
          /\ \/ Unconfirmed(copy[runs']) = {} /\ unknown' = unknown
             \/ unknown' = {}
       \/ /\ call[c].op \in {"cancel", "shutdown"} /\ call'[c].pc = "persisting"
          /\ copy[runs'] \in Runs /\ copy[runs'].state \notin TERMINAL_RUN_STATES
          /\ run = WithState(copy[runs'], "canceling") /\ unknown' = unknown
       \/ /\ call[c].op = "cancel" /\ call'[c].pc = "finalizing"
          /\ execution = None /\ runs # None
          /\ copy[runs'] \in Runs /\ run = finalized(copy[runs']) /\ unknown' = unknown

(* A call launches the execution of the run.                               *)
LaunchStep(c) ==
    LET run == WithState(copy[runs], "running") IN
    /\ UNCHANGED <<file, runs, unknown, canceled>> /\ Rest'
    /\ SamePhases /\ OneCall(c) /\ OneExecution(c)
    /\ call[c].op \in {"start", "resume"} /\ call'[c].op = call[c].op
    /\ call[c].pc = "persisting" /\ call'[c].pc = "done"
    /\ exec'[c].pc = "launched" /\ exec'[c].obj = runs /\ exec'[c].index = 1
    /\ runs \in Calls /\ copy[runs] \in Runs /\ run \in Runs
    /\ copy' = [copy EXCEPT ![runs] = run]
    /\ writes' = Append(writes, [run |-> run, by |-> Loop(c)])
    /\ ready = Caller(c) /\ ready' = None
    /\ execution = None /\ execution' = c

(* A call begins, reads the file, rewrites it.                             *)
BeginStep(c) ==
    /\ UNCHANGED <<memory, file, writes, exec, executor, unknown, ready, crashes>>
    /\ OneCall(c) /\ call[c].pc = "idle" /\ call'[c].pc = "begun"

ReadStep(c) ==
    /\ UNCHANGED <<executions, file, runs, canceled, startLock, accepting, writes, unknown, ready, crashes>>
    /\ OneCall(c) /\ call[c].pc = "reading" /\ call'[c].op = call[c].op
    /\ copy' = [copy EXCEPT ![c] = IF file = None THEN None ELSE Loaded(file)]
    /\ call'[c].pc = IF file # None /\ Loaded(file) # file THEN "rewriting" ELSE "loaded"
    /\ runs = None /\ execution = None /\ writes = <<>> /\ ready = None

RewriteStep(c) ==
    /\ UNCHANGED <<memory, writes, exec, executor, unknown, ready, crashes>>
    /\ OneCall(c) /\ call[c].pc = "rewriting" /\ call'[c].pc = "loaded" /\ call'[c].op = call[c].op
    /\ file \in Runs /\ copy[c] = Loaded(file) /\ file' = copy[c] /\ file' \in Runs
    /\ runs = None /\ execution = None /\ writes = <<>> /\ ready = None

AtWork(e) ==
    /\ UNCHANGED <<file, runs, call, execution, canceled>> /\ Rest'
    /\ execution = e /\ runs \in Calls /\ copy[runs] \in Runs
    /\ OneExecution(e) /\ exec'[e].obj = exec[e].obj
    /\ executor' \in [Calls -> [Steps -> ExecutorRecords]]
    /\ \A d \in Calls \ {e}, s \in Steps : executor'[d][s].phase = executor[d][s].phase
    /\ ready' \in {ready, None}

Becomes(run, w) ==
    /\ Varies(run, copy[runs])
    /\ copy' = [copy EXCEPT ![runs] = run]
    /\ writes' = Append(writes, [run |-> run, by |-> w])

(* Where the loop of an execution is, and what it waited for.              *)
Loops(e) ==
    /\ AtWork(e) /\ UNCHANGED unknown
    /\ exec[e].pc \in {"launched", "turn", "stepped", "return", "schedule", "started", "drain"}
    /\ IF exec[e].pc \in {"launched", "return", "schedule", "started"}
       THEN ready = Loop(e) /\ ready' = None ELSE ready' = ready

LoopGoes(e) ==
    /\ Loops(e) /\ SamePhases /\ UNCHANGED <<copy, writes>>
    /\ \/ /\ exec[e].pc = "stepped" /\ exec'[e].pc = "turn"
          /\ exec'[e].index = exec[e].index + 1
          /\ copy[runs].step[exec[e].index] \notin {"failed", "interrupted"}
       \/ /\ exec'[e].pc = "drain" /\ canceled /\ exec[e].pc \in {"launched", "turn"}
          /\ ~Sequential(copy[runs])
       \/ /\ exec'[e].pc = "racing" /\ exec[e].pc \in {"launched", "turn", "schedule", "started"}
          /\ ~Sequential(copy[runs]) /\ ~Quiet(e)

Stuck(run) == \E s \in DOMAIN run.step : run.step[s] = "pending"

(* The execution ends.                                                     *)
LoopEnds(e, run) ==
    /\ Loops(e) /\ SamePhases /\ Becomes(run, Loop(e))
    /\ exec'[e].pc = "ending" /\ Quiet(e)
    /\ \/ canceled /\ run = finalized(copy[runs])
       \/ ~canceled /\ run = verdict(copy[runs])
       \/ /\ ~canceled /\ ~Sequential(copy[runs])
          /\ run = WithState(copy[runs], "failed") /\ exec[e].pc # "drain"

(* It skips the steps of B.                                                *)
Later(run, i) == {s \in DOMAIN run.step : s > i /\ run.step[s] = "pending"}

LoopSkips(e, B, run) ==
    /\ Loops(e) /\ SamePhases /\ Becomes(run, Loop(e))
    /\ run = Marked(copy[runs], B, "skipped")
    /\ \A s \in B : s \in DOMAIN copy[runs].step /\ copy[runs].step[s] = "pending"
    /\ \/ /\ exec[e].pc = "stepped" /\ exec'[e].pc = "return"
          /\ B = Later(copy[runs], exec[e].index)
       \/ /\ exec[e].pc \in {"launched", "turn"} /\ exec'[e].pc = "schedule"
          /\ ~Sequential(copy[runs]) /\ ~canceled /\ Blocked(copy[runs], B)

(* It starts a step of a sequential workflow, or the steps S of a graph.   *)
LoopStarts(e, S, run) ==
    /\ Loops(e) /\ PhasesBut(e, S) /\ \A s \in S : executor'[e][s].phase = "marking"
    /\ S # {} /\ S \subseteq DOMAIN copy[runs].step
    /\ copy' = [copy EXCEPT ![runs] = run] /\ run = Marked(copy[runs], S, "running")

StartsStep(e, s, run) ==
    /\ LoopStarts(e, {s}, run) /\ Becomes(run, Worker(e, s))
    /\ Sequential(copy[runs]) /\ Quiet(e) /\ ~canceled
    /\ exec[e].pc \in {"launched", "turn"} /\ exec'[e].pc = "stepping" /\ exec'[e].index = s
    /\ s >= exec[e].index /\ copy[runs].step[s] # "succeeded"
    /\ \A t \in DOMAIN copy[runs].step : t >= exec[e].index /\ t < s => copy[runs].step[t] = "succeeded"

StartsSteps(e, S, run) ==
    /\ LoopStarts(e, S, run) /\ ~Sequential(copy[runs])
    /\ exec[e].pc \in {"launched", "turn", "schedule"} /\ exec'[e].pc = "started"
    /\ \A s \in S : copy[runs].step[s] = "pending"
    /\ Startable(copy[runs], Active(e), S)
    /\ \E q \in Orders(S) :
          writes' = writes \o Append(StartWrites(e, copy[runs], q), [run |-> run, by |-> Loop(e)])

(* An executor goes on, settles its step, returns.                         *)
ExecutorGoes(e, s) ==
    /\ AtWork(e) /\ UNCHANGED <<copy, writes, exec, unknown>>
    /\ PhasesBut(e, {s})
    /\ \/ executor[e][s].phase = "marking" /\ ready = Worker(e, s) /\ ready' = None
       \/ executor[e][s].phase = "waiting" /\ ready' = ready
    /\ executor'[e][s].phase \in {"waiting", "executing"}

ExecutorSettles(e, s, outcome, run) ==
    /\ AtWork(e) /\ UNCHANGED exec
    /\ Becomes(run, Worker(e, s)) /\ run = WithStep(copy[runs], s, outcome)
    /\ s \in DOMAIN copy[runs].step
    /\ PhasesBut(e, {s}) /\ executor'[e][s].phase = "closing"
    /\ \/ executor[e][s].phase = "marking" /\ ready = Worker(e, s) /\ ready' = None
       \/ executor[e][s].phase \in {"waiting", "executing"} /\ ready' = ready
    /\ outcome \in {"succeeded", "failed", "canceled", "interrupted"}
    /\ outcome = "canceled" => canceled \/ executor[e][s].aborted
    /\ executor[e][s].phase # "executing" => outcome # "succeeded"
    /\ \/ unknown' = unknown
       \/ /\ outcome = "interrupted" /\ executor[e][s].phase = "executing"
          /\ Mutates(copy[runs], s) /\ ~copy[runs].def.steps[s].safe
          /\ unknown' = unknown \union {s}

ExecutorReturns(e, s) ==
    /\ AtWork(e) /\ UNCHANGED <<copy, writes, unknown>>
    /\ PhasesBut(e, {s}) /\ executor'[e][s].phase = "idle"
    /\ executor[e][s].phase = "closing" /\ ready = Worker(e, s) /\ ready' = None
    /\ exec'[e].index = exec[e].index
    /\ \/ exec[e].pc = "racing" /\ exec'[e].pc = "turn"
       \/ exec[e].pc = "stepping" /\ exec'[e].pc = "stepped"
       \/ exec[e].pc \notin {"racing", "stepping"} /\ exec'[e].pc = exec[e].pc

(* An executor's turn that ends no execution and settles at most its step. *)
ExecutorStep(e, s) ==
    \/ ExecutorGoes(e, s) \/ ExecutorReturns(e, s)
    \/ \E outcome, run : ExecutorSettles(e, s, outcome, run)

(* The other steps: an execution has ended, the queue goes on, the runtime *)
(* dies, the manager accepts calls again.                                  *)
CloseStep(e) ==
    /\ UNCHANGED <<file, runs, call, canceled, copy, writes, unknown>> /\ Rest'
    /\ execution = e /\ execution' = None /\ exec[e].pc = "ending"
    /\ OneExecution(e) /\ exec'[e].pc = "ended"
    /\ SamePhases /\ ready = Loop(e) /\ ready' = None

WriteStep ==
    /\ UNCHANGED <<memory, call, exec, executor, unknown, crashes>>
    /\ writes # <<>> /\ ready = None
    /\ file' = writes[1].run /\ ready' = writes[1].by /\ file' \in Runs /\ ready' \in Writers
    /\ Len(writes) \in Nat \ {0} /\ Len(writes') = Len(writes) - 1
    /\ \A i \in 1 .. Len(writes') : writes'[i] = writes[i + 1]

(* Nothing is under way after the runtime died.                            *)
CrashStep ==
    /\ file' = file /\ runs' = None /\ execution' = None /\ writes' = <<>> /\ ready' = None
    /\ unknown' = unknown \union {s \in Steps : \E e \in Calls : CutOff(e, s)}
    /\ \A c \in Calls : /\ copy'[c] = None /\ call'[c].pc \in {"idle", "done"}
                        /\ call'[c].op = call[c].op
                        /\ exec'[c].pc \in {"none", "ended"}
                        /\ exec'[c].pc # "none" => exec[c].pc # "none"
                        /\ \A s \in Steps : executor'[c][s].phase = "idle"

AcceptStep ==
    UNCHANGED <<file, runs, copy, canceled, execution, writes, ready, call, exec, executor, unknown>>

(* Every step of the system is one of these effects.                       *)
CallTurn(c) ==
    \/ CallStep(c) \/ LaunchStep(c) \/ ReadStep(c) \/ RewriteStep(c) \/ BeginStep(c)
    \/ \E run \in Runs : CallWrites(c, run)

LoopTurn(e) ==
    \/ LoopGoes(e) \/ CloseStep(e)
    \/ \E run : LoopEnds(e, run)
    \/ \E B, run : LoopSkips(e, B, run)
    \/ \E s \in Steps : \E run : StartsStep(e, s, run)
    \/ \E S, run : StartsSteps(e, S, run)

Effect ==
    \/ \E c \in Calls : CallTurn(c)
    \/ \E e \in Calls : LoopTurn(e)
    \/ \E e \in Calls, s \in Steps : ExecutorStep(e, s)
    \/ WriteStep \/ CrashStep \/ AcceptStep

(* The queue: what one write, and the writes of a graph's turn, add to it. *)
OneWrite(run, w) ==
    /\ file' = file /\ writes' = Append(writes, [run |-> run, by |-> w])
    /\ runs' \in Calls /\ copy'[runs'] = run /\ run \in Runs /\ RunningIsOpen(run)
    /\ \A i \in Positions : Rec(i) # None => Rec(i).def = run.def
    /\ Rec(Len(writes)) # None => Follows(Rec(Len(writes)), run)

(* new is the queue with the writes of a graph's turn that starts the      *)
(* steps S of r in the order q, the last one by the loop.                  *)
StartsAdded(e, r, S, q, run, new) ==
    /\ Len(writes) \in Nat /\ Cardinality(S) \in Nat
    /\ Len(new) = Len(writes) + Cardinality(S) + 1
    /\ \A i \in 1 .. Len(writes) : new[i] = writes[i]
    /\ \A i \in 1 .. Cardinality(S) :
          new[Len(writes) + i] = [run |-> Marked(r, UpTo(q, i), "running"), by |-> Worker(e, q[i])]
    /\ new[Len(writes) + Cardinality(S) + 1] = [run |-> run, by |-> Loop(e)]

(* The writes of the steps S are the last m + 1 ones.                      *)
ManyWrites(e, S, n, m) ==
    /\ file' = file /\ n \in Nat /\ m \in Nat /\ n = Len(writes) /\ Len(writes') = n + m + 1
    /\ \A i \in 1 .. n : writes'[i] = writes[i]
    /\ \A i \in 1 .. m + 1 :
          /\ Varies(writes'[n + i].run, copy[runs]) /\ writes'[n + i].run.state = copy[runs].state
          /\ \A s \in DOMAIN copy[runs].step :
                IF s \in S THEN writes'[n + i].run.step[s] \in {"pending", "running"}
                ELSE writes'[n + i].run.step[s] = copy[runs].step[s]
    /\ writes'[n + m + 1].run = copy'[runs] /\ writes'[n + m + 1].by = Loop(e)
    /\ \A i \in 1 .. m : \E s \in S :
          /\ writes'[n + i].by = Worker(e, s)
          /\ \A j \in i .. m + 1 : writes'[n + j].run.step[s] = "running"
    /\ \A i, j \in 1 .. m : writes'[n + i].by = writes'[n + j].by => i = j

(* The writer of a step of a call, of a loop, of an executor.              *)
Writing(run, w) ==
    \/ \E c \in Calls : w = Caller(c) /\ CallWrites(c, run)
    \/ \E c \in Calls : w = Loop(c) /\ run = WithState(copy[runs], "running") /\ LaunchStep(c)
    \/ \E e \in Calls : w = Loop(e) /\ LoopEnds(e, run)
    \/ \E e \in Calls : \E B : w = Loop(e) /\ LoopSkips(e, B, run)
    \/ \E e \in Calls, s \in Steps : w = Worker(e, s) /\ StartsStep(e, s, run)
    \/ \E e \in Calls, s \in Steps : \E outcome : w = Worker(e, s) /\ ExecutorSettles(e, s, outcome, run)

(* Steps that write nothing.                                               *)
Keeping ==
    \/ \E c \in Calls : CallStep(c) \/ ReadStep(c) \/ BeginStep(c)
    \/ \E e \in Calls : LoopGoes(e) \/ CloseStep(e)
    \/ \E e \in Calls, s \in Steps : ExecutorGoes(e, s) \/ ExecutorReturns(e, s)
    \/ AcceptStep

(* Who writes waits for that write: a step moves the writers of W, which   *)
(* have nothing in the queue.                                              *)
Moves(W) ==
    /\ ready' \in {ready, None}
    /\ \A v \in Writers \ W : Awaits(v) => Awaits(v)'
    /\ \A v \in W : ~Awaits(v) \/ (ready = v /\ ready' = None)

(* What a step does to an executor: nothing, it begins, or it settles and  *)
(* closes; its write is the one that is added.                             *)
Stays(d, t) ==
    /\ executor'[d][t].phase = executor[d][t].phase
    /\ ready = Worker(d, t) => ready' = ready

Opens(d, t) ==
    /\ executor[d][t].phase = "idle" /\ executor'[d][t].phase = "marking" /\ Quiet(d)

Closes(d, t) ==
    /\ executor[d][t].phase \in Phase3 /\ executor'[d][t].phase = "closing"
    /\ executor[d][t].phase = "marking" => ready = Worker(d, t)

(* What ties a step to WorkflowRun, as the queue grows by one write w of   *)
(* run: where the records and the writers are, and what run says.          *)
Grows(run, w, n) ==
    /\ n \in Nat \ {0} /\ Len(writes) = n - 1 /\ n - 1 \in Positions
    /\ Positions = 0 .. n - 1 /\ Positions' = Positions \union {n} /\ n \notin Positions
    /\ \A i \in Positions : Rec(i)' = Rec(i) /\ By(i)' \in {By(i), None}
    /\ \A i \in Positions, d \in Calls, t \in Steps :
          By(i) = Worker(d, t) /\ Stays(d, t) => By(i)' = Worker(d, t)
    /\ \A i \in Positions' : By(i)' = w => i = n
    /\ Rec(n)' = run /\ By(n)' = w /\ w # None
    /\ runs' # None /\ copy'[runs'] = run /\ run \in Runs
    /\ file' = file /\ (runs # None => runs' = runs)

(* Steps that write nothing: an executor that writes or waits goes on, one *)
(* that has written its outcome returns.                                   *)
Proceeds(d, t) ==
    /\ executor[d][t].phase \in {"marking", "waiting"}
    /\ executor'[d][t].phase \in {"waiting", "executing"}
    /\ executor[d][t].phase = "marking" => ready = Worker(d, t)

Leaves(d, t) ==
    /\ executor[d][t].phase = "closing" /\ executor'[d][t].phase = "idle"
    /\ ready = Worker(d, t) /\ ready' = None

(* A turn of a graph that starts steps: each has its place in the queue,   *)
(* in the order of the steps, and is running from that record on.          *)
Places(e, S, n, m, at) ==
    /\ n \in Nat /\ m \in Nat /\ Positions = 0 .. n /\ Positions' = 0 .. n + m + 1
    /\ \A i \in 0 .. n : Rec(i)' = Rec(i) /\ By(i)' \in {By(i), None}
    /\ \A i \in 0 .. n, d \in Calls, t \in Steps : By(i) = Worker(d, t) => By(i)' = Worker(d, t)
    /\ at \in [S -> n + 1 .. n + m]
    /\ \A s \in S : By(at[s])' = Worker(e, s)
    /\ \A s, t \in S : at[s] < at[t] <=> s < t
    /\ \A i \in n + 1 .. n + m + 1, d \in Calls, t \in Steps :
          By(i)' = Worker(d, t) => d = e /\ t \in S /\ i = at[t]
    /\ \A i \in n + 1 .. n + m + 1 :
          /\ Rec(i)' # None /\ DOMAIN Rec(i)'.step = DOMAIN copy[runs].step
          /\ Rec(i)'.state = copy[runs].state
          /\ \A t \in DOMAIN copy[runs].step : Rec(i)'.step[t] =
                IF t \in S /\ at[t] <= i THEN "running" ELSE copy[runs].step[t]
    /\ copy'[runs'] = Rec(n + m + 1)' /\ copy'[runs'].def = copy[runs].def

-----------------------------------------------------------------------------
(* Runs, and what the operators on them keep.                              *)
LEMMA RunForm ==
    ASSUME NEW r \in Runs
    PROVE  /\ r.def \in Definitions /\ r.state \in RunStates
           /\ r.step \in [1 .. Len(r.def.steps) -> StepStates]
           /\ r \in [def : {r.def}, state : RunStates, step : [DOMAIN r.step -> StepStates]]
           /\ DOMAIN r.step = 1 .. Len(r.def.steps) /\ DOMAIN r.step \subseteq Steps
           /\ r # None
<1>1. PICK d \in Definitions :
         r \in [def : {d}, state : RunStates, step : [1 .. Len(d.steps) -> StepStates]]
  BY DEF Runs
<1>2. r.def = d
  BY <1>1
<1> QED BY <1>1, <1>2, WorkflowAssumption DEF Steps

LEMMA RunMade ==
    ASSUME NEW d \in Definitions, NEW st \in RunStates,
           NEW f \in [1 .. Len(d.steps) -> StepStates]
    PROVE  [def |-> d, state |-> st, step |-> f] \in Runs
<1>1. [def |-> d, state |-> st, step |-> f]
          \in [def : {d}, state : RunStates, step : [1 .. Len(d.steps) -> StepStates]]
  OBVIOUS
<1> QED BY <1>1 DEF Runs

LEMMA Variant ==
    ASSUME NEW r \in Runs, NEW st \in RunStates, NEW f \in [DOMAIN r.step -> StepStates]
    PROVE  /\ Varies([def |-> r.def, state |-> st, step |-> f], r)
<1>1. /\ r.def \in Definitions /\ DOMAIN r.step = 1 .. Len(r.def.steps)
  BY RunForm
<1>2. [def |-> r.def, state |-> st, step |-> f] \in Runs
  BY <1>1, RunMade
<1> QED BY <1>2 DEF Varies

LEMMA WithStateIs ==
    ASSUME NEW r \in Runs, NEW st \in RunStates
    PROVE  /\ Varies(WithState(r, st), r)
           /\ WithState(r, st).state = st /\ WithState(r, st).step = r.step
<1>1. r \in [def : {r.def}, state : RunStates, step : [DOMAIN r.step -> StepStates]]
  BY RunForm
<1>2. WithState(r, st) = [def |-> r.def, state |-> st, step |-> r.step]
  BY <1>1 DEF WithState
<1> QED BY <1>1, <1>2, Variant

LEMMA WithStepIs ==
    ASSUME NEW r \in Runs, NEW s \in DOMAIN r.step, NEW st \in StepStates
    PROVE  /\ Varies(WithStep(r, s, st), r)
           /\ WithStep(r, s, st).state = r.state
           /\ WithStep(r, s, st).step = [r.step EXCEPT ![s] = st]
<1>1. /\ r \in [def : {r.def}, state : RunStates, step : [DOMAIN r.step -> StepStates]]
      /\ r.state \in RunStates
  BY RunForm
<1>2. [r.step EXCEPT ![s] = st] \in [DOMAIN r.step -> StepStates]
  BY <1>1
<1>3. WithStep(r, s, st) = [def |-> r.def, state |-> r.state, step |-> [r.step EXCEPT ![s] = st]]
  BY <1>1 DEF WithStep
<1> QED BY <1>1, <1>2, <1>3, Variant

LEMMA MarkedIs ==
    ASSUME NEW r \in Runs, NEW S, NEW st \in StepStates
    PROVE  /\ Varies(Marked(r, S, st), r)
           /\ Marked(r, S, st).state = r.state
           /\ \A s \in DOMAIN r.step :
                 Marked(r, S, st).step[s] = IF s \in S THEN st ELSE r.step[s]
<1> DEFINE f == [s \in DOMAIN r.step |-> IF s \in S THEN st ELSE r.step[s]]
<1>1. /\ r \in [def : {r.def}, state : RunStates, step : [DOMAIN r.step -> StepStates]]
      /\ r.state \in RunStates
  BY RunForm
<1>2. f \in [DOMAIN r.step -> StepStates]
  BY <1>1
<1>3. Marked(r, S, st) = [def |-> r.def, state |-> r.state, step |-> f]
  BY <1>1 DEF Marked
<1> HIDE DEF f
<1>4. Varies(Marked(r, S, st), r)
  BY <1>1, <1>2, <1>3, Variant
<1> QED BY <1>3, <1>4 DEF f

(* A run that is read has no step running: what was is interrupted.        *)
LEMMA LoadedIs ==
    ASSUME NEW r \in Runs
    PROVE  /\ Varies(Loaded(r), r)
           /\ \A s \in DOMAIN r.step :
                 Loaded(r).step[s] = IF r.state \in {"pending", "running", "canceling"}
                                        /\ r.step[s] = "running"
                                     THEN "interrupted" ELSE r.step[s]
           /\ Loaded(r).state \in TERMINAL_RUN_STATES
           /\ Loaded(r) # r => Loaded(r).state = "interrupted"
           /\ r.state \notin {"pending", "running", "canceling"} => Loaded(r) = r
<1> DEFINE f == [s \in DOMAIN r.step |->
                    IF r.step[s] = "running" THEN "interrupted" ELSE r.step[s]]
<1>1. /\ r \in [def : {r.def}, state : RunStates, step : [DOMAIN r.step -> StepStates]]
      /\ r.state \in RunStates
  BY RunForm
<1>2. CASE r.state \notin {"pending", "running", "canceling"}
  BY <1>1, <1>2 DEF Loaded, Varies, TERMINAL_RUN_STATES, RunStates
<1>3. CASE r.state \in {"pending", "running", "canceling"}
  <2>1. f \in [DOMAIN r.step -> StepStates] /\ "interrupted" \in RunStates
    BY <1>1 DEF StepStates, RunStates
  <2>2. Loaded(r) = [def |-> r.def, state |-> "interrupted", step |-> f]
    BY <1>1, <1>3 DEF Loaded
  <2> HIDE DEF f
  <2>3. Varies(Loaded(r), r)
    BY <2>1, <2>2, Variant
  <2> QED BY <1>3, <2>2, <2>3 DEF f, TERMINAL_RUN_STATES
<1> QED BY <1>2, <1>3

(* A run that is finalized has every step at its end.                      *)
LEMMA FinalizedIs ==
    ASSUME NEW r \in Runs
    PROVE  /\ Varies(finalized(r), r)
           /\ finalized(r).state = "canceled"
           /\ \A s \in DOMAIN r.step :
                 finalized(r).step[s] = IF r.step[s] \in {"running", "pending"}
                                        THEN "canceled" ELSE r.step[s]
<1> DEFINE f == [s \in DOMAIN r.step |->
                    IF r.step[s] \in {"running", "pending"} THEN "canceled" ELSE r.step[s]]
<1>1. r \in [def : {r.def}, state : RunStates, step : [DOMAIN r.step -> StepStates]]
  BY RunForm
<1>2. f \in [DOMAIN r.step -> StepStates] /\ "canceled" \in RunStates
  BY <1>1 DEF StepStates, RunStates
<1>3. finalized(r) = [def |-> r.def, state |-> "canceled", step |-> f]
  BY <1>1 DEF finalized
<1> HIDE DEF f
<1>4. Varies(finalized(r), r)
  BY <1>2, <1>3, Variant
<1> QED BY <1>3, <1>4 DEF f

(* The verdict leaves the steps alone and says succeeded or failed.        *)
LEMMA VerdictIs ==
    ASSUME NEW r \in Runs
    PROVE  /\ Varies(verdict(r), r) /\ verdict(r).step = r.step
           /\ verdict(r).state \in {"failed", "succeeded"}
BY WithStateIs DEF verdict, RunStates

(* A resume keeps what succeeded and sets the rest to pending.             *)
LEMMA ResetIs ==
    ASSUME NEW r \in Runs
    PROVE  /\ Varies(Reset(r), r)
           /\ \A s \in DOMAIN r.step :
                 Reset(r).step[s] = IF r.step[s] = "succeeded" THEN "succeeded" ELSE "pending"
           /\ Reset(r).state = "pending"
<1> DEFINE f == [s \in DOMAIN r.step |->
                    IF r.step[s] = "succeeded" THEN "succeeded" ELSE "pending"]
<1>1. r \in [def : {r.def}, state : RunStates, step : [DOMAIN r.step -> StepStates]]
  BY RunForm
<1>2. f \in [DOMAIN r.step -> StepStates] /\ "pending" \in RunStates
  BY <1>1 DEF StepStates, RunStates
<1>3. Reset(r) = [def |-> r.def, state |-> "pending", step |-> f]
  BY <1>1 DEF Reset
<1> HIDE DEF f
<1>4. Varies(Reset(r), r)
  BY <1>2, <1>3, Variant
<1> QED BY <1>3, <1>4 DEF f

LEMMA FreshIs ==
    ASSUME NEW d \in Definitions
    PROVE  /\ FreshRun(d) \in Runs /\ FreshRun(d).def = d /\ FreshRun(d).state = "pending"
           /\ \A s \in DOMAIN FreshRun(d).step : FreshRun(d).step[s] = "pending"
<1>1. [s \in 1 .. Len(d.steps) |-> "pending"] \in [1 .. Len(d.steps) -> StepStates]
  BY DEF StepStates
<1>2. "pending" \in RunStates
  BY DEF RunStates
<1> QED BY <1>1, <1>2, RunMade DEF FreshRun

-----------------------------------------------------------------------------
(* What the operators on the state do to it.                               *)
LEMMA StepsAreNumbers == Steps \subseteq Nat \ {0}
BY WorkflowAssumption DEF Steps

LEMMA ReturnIs ==
    ASSUME call \in [Calls -> CallRecords], NEW c \in Calls, Return(c)
    PROVE  OneCall(c) /\ call'[c].pc = "done" /\ call'[c].op = call[c].op
BY DEF Return, NewCall, OneCall, CallRecords

LEMMA AtIs ==
    ASSUME call \in [Calls -> CallRecords], NEW c \in Calls,
           NEW pc \in {"reading", "rewriting", "loaded", "persisting", "finalizing"}, call' = At(c, pc)
    PROVE  /\ OneCall(c) /\ call'[c].pc = pc
           /\ call'[c].op = call[c].op /\ call'[c].obj = call[c].obj /\ call'[c].def = call[c].def
BY DEF At, OneCall, CallRecords

LEMMA PersistingIs ==
    ASSUME call \in [Calls -> CallRecords], NEW c \in Calls, NEW obj \in Calls,
           call' = [call EXCEPT ![c].pc = "persisting", ![c].obj = obj]
    PROVE  /\ OneCall(c) /\ call'[c].pc = "persisting" /\ call'[c].obj = obj
           /\ call'[c].op = call[c].op /\ call'[c].def = call[c].def
BY ZenonT(60) DEF OneCall, CallRecords

LEMMA WaitingIs ==
    ASSUME call \in [Calls -> CallRecords], NEW c \in Calls, NEW e \in Calls \union {None},
           NEW pc \in {"joined", "awaiting"},
           call' = [call EXCEPT ![c].pc = pc, ![c].target = e]
    PROVE  /\ OneCall(c) /\ call'[c].pc = pc
           /\ call'[c].op = call[c].op /\ call'[c].def = call[c].def
BY ZenonT(60) DEF OneCall, CallRecords

LEMMA BeginIs ==
    ASSUME call \in [Calls -> CallRecords], NEW c \in Calls, NEW confirm \in BOOLEAN,
           NEW op \in {"start", "wait", "cancel", "resume", "shutdown"},
           NEW d \in Definitions \union {None}, Begin(c, op, d, confirm)
    PROVE  OneCall(c) /\ call'[c].pc = "begun" /\ call'[c].op = op /\ call'[c].def = d
BY DEF Begin, NewCall, OneCall, CallRecords

LEMMA GoesIs ==
    ASSUME exec \in [Calls -> ExecutionRecords], NEW e \in Calls,
           NEW pc \in {"schedule", "started", "racing", "drain", "return", "ending"}, Goes(e, pc)
    PROVE  /\ OneExecution(e) /\ exec'[e].pc = pc
           /\ exec'[e].obj = exec[e].obj /\ exec'[e].index = exec[e].index
BY DEF Goes, OneExecution, ExecutionRecords

LEMMA IndexIs ==
    ASSUME exec \in [Calls -> ExecutionRecords], NEW e \in Calls, NEW i \in Nat,
           NEW pc \in {"turn", "stepping"},
           exec' = [exec EXCEPT ![e].pc = pc, ![e].index = i]
    PROVE  /\ OneExecution(e) /\ exec'[e].pc = pc
           /\ exec'[e].obj = exec[e].obj /\ exec'[e].index = i
BY DEF OneExecution, ExecutionRecords

LEMMA AbortIs ==
    ASSUME executor \in [Calls -> [Steps -> ExecutorRecords]], AbortControllers
    PROVE  SamePhases
<1>1. ASSUME NEW c \in Calls, NEW s \in Steps
      PROVE  /\ executor'[c][s] \in ExecutorRecords
             /\ executor'[c][s].phase = executor[c][s].phase
  <2>1. executor[c][s] \in ExecutorRecords
    OBVIOUS
  <2>2. executor'[c][s] = IF controllers[s] = c THEN [executor[c][s] EXCEPT !.aborted = TRUE]
                          ELSE executor[c][s]
    BY DEF AbortControllers
  <2> QED BY <2>1, <2>2 DEF ExecutorRecords
<1>2. executor' = [c \in Calls |-> [s \in Steps |-> executor'[c][s]]]
  BY DEF AbortControllers
<1> QED BY <1>1, <1>2 DEF SamePhases

LEMMA PhaseIs ==
    ASSUME executor \in [Calls -> [Steps -> ExecutorRecords]], NEW e \in Calls, NEW s \in Steps,
           NEW phase \in {"waiting", "executing"}, Phase(e, s, phase)
    PROVE  PhasesBut(e, {s}) /\ executor'[e][s].phase = phase
<1>1. executor[e][s] \in ExecutorRecords
  OBVIOUS
<1>2. [executor[e][s] EXCEPT !.phase = phase] \in ExecutorRecords
  BY <1>1 DEF ExecutorRecords
<1>3. [executor[e][s] EXCEPT !.phase = phase].phase = phase
  BY <1>1 DEF ExecutorRecords
<1>4. executor' = [executor EXCEPT ![e][s] = [executor[e][s] EXCEPT !.phase = phase]]
  BY DEF Phase
<1> DEFINE x == [executor[e][s] EXCEPT !.phase = phase]
<1> HIDE DEF x
<1>5. executor' = [executor EXCEPT ![e][s] = x] /\ x \in ExecutorRecords /\ x.phase = phase
  BY <1>2, <1>3, <1>4 DEF x
<1> QED BY <1>5 DEF PhasesBut

LEMMA SettledIs ==
    ASSUME executor \in [Calls -> [Steps -> ExecutorRecords]], NEW e \in Calls, NEW s \in Steps,
           executor' = [executor EXCEPT ![e][s] = [Idle EXCEPT !.phase = "closing"]]
    PROVE  PhasesBut(e, {s}) /\ executor'[e][s].phase = "closing"
BY DEF PhasesBut, ExecutorRecords, Idle

LEMMA IdleIs ==
    ASSUME executor \in [Calls -> [Steps -> ExecutorRecords]], NEW e \in Calls, NEW s \in Steps,
           executor' = [executor EXCEPT ![e][s] = Idle]
    PROVE  PhasesBut(e, {s}) /\ executor'[e][s].phase = "idle"
BY DEF PhasesBut, ExecutorRecords, Idle

(* Which executors a turn of the loop starts, and what it leaves alone.    *)
LEMMA StartingIs ==
    ASSUME executor \in [Calls -> [Steps -> ExecutorRecords]], NEW e \in Calls,
           controllers \in [Steps -> Calls \union {None}],
           NEW S \in SUBSET Steps, Starting(e, S)
    PROVE  /\ PhasesBut(e, S) /\ \A s \in S : executor'[e][s].phase = "marking"
           /\ controllers' \in [Steps -> Calls \union {None}]
BY DEF Starting, PhasesBut, ExecutorRecords

-----------------------------------------------------------------------------
(* The shape: types, calls and executions.                                 *)
LEMMA HasIs ==
    ASSUME Shape, NEW c \in Calls, NEW obj, Has(c, obj)
    PROVE  /\ obj \in Calls /\ copy[obj] \in Runs /\ call[c].pc \in {"begun", "loaded"}
           /\ call[c].pc = "begun" => runs = obj /\ runs # None
           /\ call[c].pc = "loaded" => runs = None /\ obj = c
BY DEF Has, Shape, TypeOK, CallsShape, CallShape, Reading

LEMMA FindsIs ==
    ASSUME Shape, NEW c \in Calls, NEW obj, StartFinds(c, obj)
    PROVE  CallStep(c)
<1>1. OneCall(c) /\ call'[c].pc = "done" /\ call'[c].op = call[c].op
  BY ReturnIs DEF StartFinds, Shape, TypeOK
<1>2. /\ obj \in Calls /\ call[c].pc \in {"begun", "loaded"}
      /\ call[c].pc = "begun" => runs = obj
      /\ call[c].pc = "loaded" => runs = None /\ obj = c /\ copy[obj] # None
  BY HasIs DEF StartFinds, Has
<1>3. SamePhases /\ Rest'
  BY DEF StartFinds, executions, Unlocked, SamePhases, Rest, Shape, TypeOK
<1> QED BY <1>1, <1>2, <1>3 DEF StartFinds, CallStep, executions

LEMMA WaitIs ==
    ASSUME Shape, NEW c \in Calls, NEW obj, Wait(c, obj)
    PROVE  CallStep(c)
<1>1. /\ OneCall(c) /\ call'[c].pc \in {"awaiting", "done"} /\ call'[c].op = call[c].op
      /\ call'[c].pc # "done" => call'[c].def = call[c].def
  BY ReturnIs, WaitingIs DEF Wait, Shape, TypeOK
<1>2. /\ obj \in Calls /\ call[c].pc \in {"begun", "loaded"}
      /\ call[c].pc = "begun" => runs = obj
      /\ call[c].pc = "loaded" => runs = None /\ obj = c /\ copy[obj] # None
  BY HasIs DEF Wait, Has
<1>3. SamePhases /\ Rest'
  BY DEF Wait, executions, SamePhases, Rest, Shape, TypeOK
<1> QED BY <1>1, <1>2, <1>3 DEF Wait, CallStep, executions

LEMMA RefusedIs ==
    ASSUME Shape, NEW c \in Calls, NEW obj,
           /\ Has(c, obj) /\ runs' = obj /\ Return(c)
           /\ UNCHANGED <<executions, file, copy, canceled, startLock, accepting,
                          writes, unknown, ready, crashes>>
    PROVE  CallStep(c)
<1>1. OneCall(c) /\ call'[c].pc = "done" /\ call'[c].op = call[c].op
  BY ReturnIs DEF Shape, TypeOK
<1>2. /\ obj \in Calls /\ call[c].pc \in {"begun", "loaded"}
      /\ call[c].pc = "begun" => runs = obj
      /\ call[c].pc = "loaded" => runs = None /\ obj = c /\ copy[obj] # None
  BY HasIs DEF Has
<1>3. SamePhases /\ Rest'
  BY DEF executions, SamePhases, Rest, Shape, TypeOK
<1> QED BY <1>1, <1>2, <1>3 DEF CallStep, executions

LEMMA ReadsIs ==
    ASSUME Shape, NEW c \in Calls, NotLoaded(c) \/ StartReads(c)
    PROVE  CallStep(c)
<1>1. OneCall(c) /\ call'[c].pc = "reading"
      /\ call'[c].op = call[c].op /\ call'[c].def = call[c].def
  BY AtIs DEF NotLoaded, StartReads, StartReading, Shape, TypeOK
<1>2. SamePhases /\ Rest'
  BY DEF NotLoaded, StartReads, StartReading, executions, SamePhases, Rest, Shape, TypeOK
<1> QED BY <1>1, <1>2 DEF NotLoaded, StartReads, StartReading, CallStep, executions

LEMMA ReturnsIs ==
    ASSUME Shape, NEW c \in Calls,
           ReadFails(c) \/ JoinReturns(c) \/ CancelReturns(c) \/ WaitReturns(c) \/ ShutdownReturns(c)
    PROVE  CallStep(c)
<1>1. OneCall(c) /\ call'[c].pc = "done" /\ call'[c].op = call[c].op
  BY ReturnIs DEF ReadFails, JoinReturns, CancelReturns, WaitReturns, ShutdownReturns, Shape, TypeOK
<1>2. SamePhases /\ Rest' /\ UNCHANGED <<memory, file, writes, exec, executor, unknown, crashes>>
  BY DEF ReadFails, JoinReturns, CancelReturns, WaitReturns, ShutdownReturns,
         memory, SamePhases, Rest, Shape, TypeOK
<1>3. \/ call[c].pc \in {"loaded", "joined", "awaiting"} /\ ready' = ready
      \/ call[c].pc = "finalizing" /\ ready = Caller(c) /\ ready' = None
  BY DEF ReadFails, JoinReturns, CancelReturns, WaitReturns, ShutdownReturns, GoesOn
<1> QED BY <1>1, <1>2, <1>3 DEF CallStep, memory

LEMMA JoinsIs ==
    ASSUME Shape, NEW c \in Calls, StartJoins(c)
    PROVE  CallStep(c)
<1>1. OneCall(c) /\ call'[c].pc = "joined"
      /\ call'[c].op = call[c].op /\ call'[c].def = call[c].def
  BY WaitingIs DEF StartJoins, Shape, TypeOK
<1>2. SamePhases /\ Rest'
  BY DEF StartJoins, memory, SamePhases, Rest, Shape, TypeOK
<1> QED BY <1>1, <1>2 DEF StartJoins, CallStep, memory

LEMMA AppendIs ==
    ASSUME writes \in Seq([run : Runs, by : Writers]), NEW x, writes' = Append(writes, x)
    PROVE  /\ Len(writes) \in Nat /\ Len(writes') = Len(writes) + 1 /\ writes' # writes
           /\ \A i \in 1 .. Len(writes) : writes'[i] = writes[i]
           /\ writes'[Len(writes) + 1] = x
           /\ x \in [run : Runs, by : Writers] => writes' \in Seq([run : Runs, by : Writers])
OBVIOUS

LEMMA AbortsIs ==
    ASSUME Shape, NEW c \in Calls,
           \/ ShutdownAborts(c)
           \/ CancelAborts(c) /\ execution # None
           \/ Shutdown(c) /\ UNCHANGED writes
    PROVE  CallStep(c)
<1> USE DEF Shape, TypeOK
<1>1. CASE ShutdownAborts(c)
  <2>1. OneCall(c) /\ call'[c].pc = "awaiting"
      /\ call'[c].op = call[c].op /\ call'[c].def = call[c].def
    BY <1>1, WaitingIs DEF ShutdownAborts
  <2>2. SamePhases /\ Rest'
    BY <1>1, AbortIs DEF ShutdownAborts, memory, Rest
  <2> QED BY <1>1, <2>1, <2>2 DEF ShutdownAborts, CallStep, memory, GoesOn
<1>2. CASE CancelAborts(c) /\ execution # None
  <2>1. OneCall(c) /\ call'[c].pc = "awaiting"
      /\ call'[c].op = call[c].op /\ call'[c].def = call[c].def
    BY <1>2, WaitingIs DEF CancelAborts
  <2>2. SamePhases /\ Rest'
    BY <1>2, AbortIs DEF CancelAborts, Rest
  <2> QED BY <1>2, <2>1, <2>2 DEF CancelAborts, CallStep, GoesOn
<1>3. CASE Shutdown(c) /\ UNCHANGED writes
  <2>1. ~(persistRun(copy'[runs], Caller(c)))
    BY <1>3, AppendIs DEF persistRun
  <2>2. call' = [call EXCEPT ![c].pc = "awaiting", ![c].target = execution] /\ UNCHANGED copy
    BY <1>3, <2>1 DEF Shutdown
  <2>3. OneCall(c) /\ call'[c].pc = "awaiting"
      /\ call'[c].op = call[c].op /\ call'[c].def = call[c].def
    BY <2>2, WaitingIs
  <2>4. SamePhases
    BY <1>3, <2>1, AbortIs DEF Shutdown, SamePhases
  <2>5. Rest'
    BY <1>3 DEF Shutdown, Rest
  <2> QED BY <1>3, <2>2, <2>3, <2>4, <2>5 DEF Shutdown, CallStep
<1> QED BY <1>1, <1>2, <1>3

LEMMA CreatesIs ==
    ASSUME Shape, NEW c \in Calls, StartCreates(c)
    PROVE  CallStep(c) \/ \E run \in Runs : CallWrites(c, run)
<1> USE DEF Shape, TypeOK
<1>1. runs = None /\ copy[c] = None /\ call[c].pc = "loaded" /\ call[c].op = "start"
  BY DEF CallsShape, CallShape, Reading, StartCreates
<1>2. CASE ~accepting
  <2>1. OneCall(c) /\ call'[c].pc = "done" /\ call'[c].op = call[c].op
    BY <1>2, ReturnIs DEF StartCreates
  <2>2. SamePhases /\ Rest'
    BY <1>2 DEF StartCreates, Unlocked, executions, SamePhases, Rest
  <2> QED BY <1>1, <1>2, <2>1, <2>2 DEF StartCreates, executions, CallStep
<1>3. CASE accepting
  <2> DEFINE run == FreshRun(call[c].def)
  <2>1. call[c].def \in Definitions
    BY <1>1 DEF CallsShape, CallShape, Busy, CallRecords
  <2>2. run \in Runs /\ run.state = "pending" /\ \A s \in DOMAIN run.step : run.step[s] = "pending"
    BY <2>1, FreshIs
  <2>3. OneCall(c) /\ call'[c].pc = "persisting" /\ call'[c].obj = c
      /\ call'[c].op = call[c].op /\ call'[c].def = call[c].def
    BY <1>3, PersistingIs DEF StartCreates
  <2>4. SamePhases /\ Rest'
    BY <1>3 DEF StartCreates, executions, SamePhases, Rest
  <2>5. copy'[c] = run
    BY <1>3 DEF StartCreates
  <2> HIDE DEF run
  <2>6. CallWrites(c, run)
    BY <1>1, <1>3, <2>2, <2>3, <2>4, <2>5 DEF StartCreates, executions, persistRun, CallWrites, run
  <2> QED BY <2>2, <2>6
<1> QED BY <1>2, <1>3

LEMMA ResumeIs ==
    ASSUME Shape, NEW c \in Calls, NEW obj, Resume(c, obj)
    PROVE  CallStep(c) \/ \E run \in Runs : CallWrites(c, run)
<1> USE DEF Shape, TypeOK
<1> DEFINE run == copy[obj]
           refused == \/ execution # None
                      \/ run.state \in {"running", "canceling", "succeeded"}
                      \/ Unconfirmed(run) # {} /\ ~call[c].confirm
<1>1. /\ obj \in Calls /\ copy[obj] \in Runs /\ call[c].pc \in {"begun", "loaded"}
      /\ call[c].pc = "begun" => runs = obj /\ runs # None
      /\ call[c].pc = "loaded" => runs = None /\ obj = c
  BY HasIs DEF Resume
<1>2. CASE refused
  BY <1>2, RefusedIs DEF Resume
<1>3. CASE ~refused
  <2>1. /\ copy' = [copy EXCEPT ![obj] = Reset(run)] /\ canceled' = FALSE
        /\ unknown' = (IF call[c].confirm THEN {} ELSE unknown)
        /\ persistRun(Reset(run), Caller(c))
        /\ call' = [call EXCEPT ![c].pc = "persisting", ![c].obj = obj]
        /\ call[c].op = "resume" /\ runs' = obj
        /\ UNCHANGED <<executions, file, startLock, accepting, ready, crashes>>
    BY <1>3 DEF Resume
  <2>2. OneCall(c) /\ call'[c].pc = "persisting" /\ call'[c].obj = obj
        /\ call'[c].op = call[c].op /\ call'[c].def = call[c].def
    BY <1>1, <2>1, PersistingIs
  <2>3. SamePhases /\ Rest'
    BY <2>1 DEF executions, SamePhases, Rest
  <2>4. Reset(run) \in Runs
    BY <1>1, ResetIs DEF Varies
  <2>5. execution = None /\ ((Unconfirmed(run) = {} /\ unknown' = unknown) \/ unknown' = {})
    BY <1>3, <2>1
  <2>6. runs # None => call[c].pc = "begun"
    BY <1>1
  <2>7. CallWrites(c, Reset(run))
    BY <1>1, <2>1, <2>2, <2>3, <2>4, <2>5, <2>6 DEF executions, persistRun, CallWrites
  <2> QED BY <2>4, <2>7
<1> QED BY <1>2, <1>3

LEMMA CancelIs ==
    ASSUME Shape, NEW c \in Calls, NEW obj, Cancel(c, obj)
    PROVE  CallStep(c) \/ \E run \in Runs : CallWrites(c, run)
<1> USE DEF Shape, TypeOK
<1>1. /\ obj \in Calls /\ copy[obj] \in Runs /\ call[c].pc \in {"begun", "loaded"}
      /\ call[c].pc = "begun" => runs = obj /\ runs # None
      /\ call[c].pc = "loaded" => runs = None /\ obj = c
  BY HasIs DEF Cancel
<1>2. CASE copy[obj].state \in TERMINAL_RUN_STATES
  BY <1>2, RefusedIs DEF Cancel
<1>3. CASE copy[obj].state \notin TERMINAL_RUN_STATES
  <2> DEFINE run == WithState(copy[obj], "canceling")
  <2>1. /\ copy' = [copy EXCEPT ![obj] = run] /\ canceled' = TRUE
        /\ persistRun(copy'[obj], Caller(c))
        /\ call' = [call EXCEPT ![c].pc = "persisting", ![c].obj = obj]
        /\ call[c].op = "cancel" /\ runs' = obj
        /\ UNCHANGED <<executions, file, startLock, accepting, unknown, ready, crashes>>
    BY <1>3 DEF Cancel
  <2>2. OneCall(c) /\ call'[c].pc = "persisting" /\ call'[c].obj = obj
        /\ call'[c].op = call[c].op /\ call'[c].def = call[c].def
    BY <1>1, <2>1, PersistingIs
  <2>3. SamePhases /\ Rest'
    BY <2>1 DEF executions, SamePhases, Rest
  <2>4. run \in Runs
    BY <1>1, WithStateIs DEF Varies, RunStates
  <2>5. copy'[obj] = run
    BY <1>1, <2>1
  <2>6. runs # None => call[c].pc = "begun"
    BY <1>1
  <2> HIDE DEF run
  <2>7. CallWrites(c, run)
    <3>1. run = WithState(copy[obj], "canceling")
      BY DEF run
    <3> QED BY <1>1, <1>3, <2>1, <2>2, <2>3, <2>4, <2>5, <2>6, <3>1
            DEF executions, persistRun, CallWrites
  <2> QED BY <2>4, <2>7
<1> QED BY <1>2, <1>3

LEMMA ShutdownIs ==
    ASSUME Shape, NEW c \in Calls, Shutdown(c)
    PROVE  CallStep(c) \/ \E run \in Runs : CallWrites(c, run)
<1> USE DEF Shape, TypeOK
<1>1. CASE UNCHANGED writes
  BY <1>1, AbortsIs
<1>2. CASE writes' # writes
  <2> DEFINE run == WithState(copy[runs], "canceling")
  <2>1. /\ copy' = [copy EXCEPT ![runs] = run] /\ canceled' = TRUE /\ accepting' = FALSE
        /\ persistRun(copy'[runs], Caller(c)) /\ call' = At(c, "persisting")
        /\ call[c].op = "shutdown" /\ call[c].pc = "begun" /\ execution # None
        /\ copy[runs].state \notin TERMINAL_RUN_STATES
        /\ UNCHANGED executor
        /\ UNCHANGED <<file, runs, execution, controllers, startLock, exec, unknown, ready, crashes>>
    BY <1>2 DEF Shutdown
  <2>2. OneCall(c) /\ call'[c].pc = "persisting"
        /\ call'[c].op = call[c].op /\ call'[c].def = call[c].def
    BY <2>1, AtIs
  <2>3. SamePhases /\ Rest'
    BY <2>1 DEF SamePhases, Rest
  <2>4. runs \in Calls /\ copy[runs] \in Runs
    BY <2>1 DEF ExecutionShape
  <2>5. run \in Runs
    BY <2>4, WithStateIs DEF Varies, RunStates
  <2>6. copy'[runs] = run
    BY <2>1, <2>4
  <2> HIDE DEF run
  <2>7. CallWrites(c, run)
    <3>1. run = WithState(copy[runs], "canceling") /\ runs # None
      BY <2>1 DEF run, ExecutionShape
    <3> QED BY <2>1, <2>2, <2>3, <2>4, <2>5, <2>6, <3>1 DEF persistRun, CallWrites
  <2> QED BY <2>5, <2>7
<1> QED BY <1>1, <1>2

LEMMA CancelAbortsIs ==
    ASSUME Shape, NEW c \in Calls, CancelAborts(c)
    PROVE  CallStep(c) \/ \E run \in Runs : CallWrites(c, run)
<1> USE DEF Shape, TypeOK
<1>1. CASE execution # None
  BY <1>1, AbortsIs
<1>2. CASE execution = None
  <2>1. call[c].op = "cancel" /\ call[c].pc = "persisting" /\ call[c].obj = runs
        /\ runs \in Calls /\ copy[runs] \in Runs
    BY DEF CancelAborts, CallsShape, CallShape
  <2> DEFINE run == finalized(copy[runs])
  <2>2. /\ copy' = [copy EXCEPT ![runs] = run]
        /\ persistRun(copy'[runs], Caller(c)) /\ call' = At(c, "finalizing")
        /\ ready = Caller(c) /\ ready' = None
        /\ UNCHANGED <<file, runs, canceled, execution, controllers, startLock, accepting,
                       exec, unknown, crashes>>
    BY <1>2, <2>1 DEF CancelAborts, GoesOn
  <2>3. OneCall(c) /\ call'[c].pc = "finalizing" /\ call'[c].obj = call[c].obj
        /\ call'[c].op = call[c].op /\ call'[c].def = call[c].def
    BY <2>2, AtIs
  <2>4. SamePhases /\ Rest'
    BY <2>2, AbortIs DEF CancelAborts, Rest
  <2>5. run \in Runs
    BY <2>1, FinalizedIs DEF Varies
  <2>6. copy'[runs] = run
    BY <2>1, <2>2
  <2> HIDE DEF run
  <2>7. CallWrites(c, run)
    <3>1. run = finalized(copy[runs]) /\ runs # None
      BY <2>1 DEF run, CallsShape, CallShape
    <3> QED BY <1>2, <2>1, <2>2, <2>3, <2>4, <2>5, <2>6, <3>1 DEF persistRun, CallWrites
  <2> QED BY <2>5, <2>7
<1> QED BY <1>1, <1>2

LEMMA LaunchesIs ==
    ASSUME Shape, NEW c \in Calls, Launches(c)
    PROVE  LaunchStep(c)
<1> USE DEF Shape, TypeOK
<1>1. /\ call[c].op \in {"start", "resume"} /\ call[c].pc = "persisting"
      /\ call[c].obj = runs /\ runs \in Calls /\ copy[runs] \in Runs /\ execution = None
  BY DEF Launches, CallsShape, CallShape, Launching
<1>2. OneCall(c) /\ call'[c].pc = "done" /\ call'[c].op = call[c].op
  BY ReturnIs DEF Launches
<1> DEFINE run == WithState(copy[runs], "running")
<1>3. run \in Runs
  BY <1>1, WithStateIs DEF Varies, RunStates
<1>4. SamePhases /\ Rest'
  BY DEF Launches, launch, Unlocked, SamePhases, Rest
<1>5. OneExecution(c) /\ exec'[c].pc = "launched" /\ exec'[c].obj = runs /\ exec'[c].index = 1
  BY <1>1 DEF Launches, launch, OneExecution, ExecutionRecords
<1>6. copy' = [copy EXCEPT ![runs] = run]
  BY <1>1 DEF Launches, launch
<1>7. copy'[runs] = run
  BY <1>1, <1>6
<1> QED BY <1>1, <1>2, <1>3, <1>4, <1>5, <1>6, <1>7
        DEF Launches, launch, persistRun, GoesOn, LaunchStep

-----------------------------------------------------------------------------
(* Every step of a call keeps the shape.                                   *)
Alone(c) == \A d \in Calls \ {c} : call[d].pc # "begun"

LEMMA NoneIsNoCall == None \notin Calls /\ None \notin Runs /\ None \notin Writers
BY WorkflowAssumption

LEMMA CallStepShape ==
    ASSUME Shape, NEW c \in Calls, Alone(c), CallStep(c)
    PROVE  Shape'
<1>1. TypeOK'
  BY NoneIsNoCall DEF Shape, TypeOK, CallStep, Rest, OneCall, SamePhases
<1>2. ASSUME NEW x \in Calls
      PROVE  CallShape(x)'
  <2>1. /\ CallShape(x) /\ CallShape(c) /\ Busy(c)
        /\ \A d \in Calls : call'[d].pc # "begun" /\ (d # c => call'[d] = call[d])
    BY DEF Shape, CallsShape, CallStep, OneCall, Alone, Busy
  <2>2. CASE x = c
    BY <2>1, <2>2, NoneIsNoCall DEF CallStep, CallShape, Reading, Busy, Launching
  <2>3. CASE x # c
    <3>1. call'[x] = call[x] /\ ~Reading(x)
      BY <2>1, <2>3 DEF CallShape, Reading, Busy
    <3>2. UNCHANGED <<execution, exec>> /\ (runs' = runs \/ runs = None)
          /\ call'[c].pc \notin {"persisting", "finalizing"}
      BY DEF CallStep
    <3> QED BY <2>1, <2>3, <3>1, <3>2 DEF CallShape, Reading, Busy, Launching
  <2> QED BY <2>2, <2>3
<1>3. ASSUME NEW e \in Calls
      PROVE  ExecShape(e)'
  <2>1. /\ ExecShape(e) /\ UNCHANGED <<execution, exec, copy>>
        /\ \A s \in Steps : executor'[e][s].phase = executor[e][s].phase
        /\ runs' = runs \/ execution = None
    BY DEF Shape, ExecutionShape, CallStep, SamePhases
  <2> QED BY <2>1, NoneIsNoCall DEF ExecShape, Live, Quiet
<1>4. ExecutionShape'
  BY <1>3, NoneIsNoCall DEF Shape, TypeOK, ExecutionShape, CallStep
<1> QED BY <1>1, <1>2, <1>4 DEF Shape, CallsShape

LEMMA CallWritesShape ==
    ASSUME Shape, NEW c \in Calls, Alone(c), NEW run \in Runs, CallWrites(c, run)
    PROVE  Shape'
<1>1. /\ copy'[runs'] = run /\ runs' \in Calls /\ runs' # None
      /\ runs = None \/ runs' = runs
  BY NoneIsNoCall DEF Shape, TypeOK, CallWrites
<1>2. TypeOK'
  <2>1. copy' \in [Calls -> Runs \union {None}]
    BY DEF Shape, TypeOK, CallWrites
  <2>2. writes' \in Seq([run : Runs, by : Writers])
    BY AppendIs DEF CallWrites, Shape, TypeOK, Caller, Writers
  <2> QED BY <1>1, <2>1, <2>2, NoneIsNoCall DEF Shape, TypeOK, CallWrites, Rest, OneCall, SamePhases
<1>3. ASSUME NEW x \in Calls
      PROVE  CallShape(x)'
  <2>1. /\ CallShape(x) /\ CallShape(c) /\ Busy(c)
        /\ \A d \in Calls : call'[d].pc # "begun" /\ (d # c => call'[d] = call[d])
    BY DEF Shape, CallsShape, CallWrites, OneCall, Alone, Busy
  <2>2. CASE x = c
    <3>1. runs = None => execution = None
      BY DEF Shape, ExecutionShape
    <3>2. Launching(c)' => execution' = None
      BY <2>1, <3>1 DEF CallWrites, CallShape, Reading, Launching
    <3>3. Launching(c)' => \A d \in Calls \ {c} : ~Busy(d)
      BY <2>1 DEF CallWrites, CallShape, Reading, Launching
    <3>4. Launching(c)' => \A d \in Calls \ {c} : ~Launching(d)'
      BY <2>1, <3>3 DEF Launching, Busy
    <3> QED BY <1>1, <2>1, <2>2, <3>2, <3>4 DEF CallWrites, CallShape, Reading, Busy
  <2>3. CASE x # c
    <3>1. call'[x] = call[x] /\ ~Reading(x)
      BY <2>1, <2>3 DEF CallShape, Reading, Busy
    <3>2. UNCHANGED <<execution, exec>> /\ (Launching(x) => ~Launching(c)')
      BY <2>1, <2>3 DEF CallWrites, CallShape, Launching, Busy, Reading
    <3> QED BY <1>1, <2>1, <2>3, <3>1, <3>2 DEF CallShape, Reading, Busy, Launching
  <2> QED BY <2>2, <2>3
<1>4. runs # None => copy'[runs'].def = copy[runs].def /\ DOMAIN copy'[runs'].step = DOMAIN copy[runs].step
  BY <1>1, WithStateIs, ResetIs, FinalizedIs DEF CallWrites, Varies, RunStates
<1>5. ASSUME NEW e \in Calls
      PROVE  ExecShape(e)'
  <2>1. /\ ExecShape(e) /\ UNCHANGED <<execution, exec>>
        /\ \A s \in Steps : executor'[e][s].phase = executor[e][s].phase
        /\ \/ /\ runs' = runs /\ Sequential(copy'[runs']) = Sequential(copy[runs])
              /\ DOMAIN copy'[runs'].step = DOMAIN copy[runs].step
           \/ execution = None
    BY <1>1, <1>4 DEF Shape, ExecutionShape, CallWrites, SamePhases, Sequential
  <2> QED BY <2>1, NoneIsNoCall DEF ExecShape, Live, Quiet
<1>6. ExecutionShape'
  BY <1>1, <1>5, NoneIsNoCall DEF Shape, TypeOK, ExecutionShape, CallWrites
<1> QED BY <1>2, <1>3, <1>6 DEF Shape, CallsShape

LEMMA BeginShape ==
    ASSUME ~CallsOverlap, Shape, NEW c \in Calls, NEW confirm \in BOOLEAN,
           NEW op \in {"start", "wait", "cancel", "resume", "shutdown"},
           NEW d \in Definitions \union {None}, op = "start" => d # None,
           Begin(c, op, d, confirm), \A x \in Calls : call[x].pc # "begun"
    PROVE  Shape' /\ BeginStep(c)
<1>1. OneCall(c) /\ call'[c].pc = "begun" /\ call'[c].op = op /\ call'[c].def = d
  BY BeginIs DEF Shape, TypeOK
<1>2. /\ call[c].pc = "idle" /\ \A x \in Calls : ~Reading(x)
      /\ runs = None \/ op \in {"resume", "shutdown"} => \A x \in Calls : ~Busy(x)
      /\ UNCHANGED <<memory, file, writes, exec, executor, unknown, ready, crashes>>
  BY DEF Begin, MayBegin
<1>3. TypeOK'
  BY <1>1, <1>2 DEF Shape, TypeOK, memory, OneCall
<1>4. ASSUME NEW x \in Calls
      PROVE  CallShape(x)'
  <2>1. CallShape(x) /\ CallShape(c)
    BY DEF Shape, CallsShape
  <2>2. CASE x = c
    BY <1>1, <1>2, <2>1, <2>2 DEF memory, OneCall, CallShape, Reading, Busy, Launching
  <2>3. CASE x # c
    BY <1>1, <1>2, <2>1, <2>3 DEF memory, OneCall, CallShape, Reading, Busy, Launching
  <2> QED BY <2>2, <2>3
<1>5. ExecutionShape'
  BY <1>2 DEF memory, Shape, ExecutionShape, ExecShape, Live, Quiet
<1> QED BY <1>1, <1>2, <1>3, <1>4, <1>5 DEF Shape, CallsShape, BeginStep

LEMMA ReadShape ==
    ASSUME Shape, NEW c \in Calls, Read(c), Alone(c)
    PROVE  Shape' /\ ReadStep(c)
<1> DEFINE pc == IF file # None /\ Loaded(file) # file THEN "rewriting" ELSE "loaded"
<1>1. OneCall(c) /\ call'[c].pc = pc /\ call'[c].op = call[c].op /\ call'[c].def = call[c].def
  BY AtIs DEF Shape, TypeOK, Read
<1>2. /\ call[c].pc = "reading" /\ runs = None /\ execution = None /\ writes = <<>> /\ ready = None
      /\ \A d \in Calls \ {c} : ~Busy(d)
  BY DEF Shape, CallsShape, CallShape, Reading, ExecutionShape, Read
<1>3. /\ copy' = [copy EXCEPT ![c] = IF file = None THEN None ELSE Loaded(file)]
      /\ copy'[c] = IF file = None THEN None ELSE Loaded(file)
      /\ copy' \in [Calls -> Runs \union {None}]
  BY LoadedIs DEF Shape, TypeOK, Read, Varies
<1>4. TypeOK'
  BY <1>1, <1>2, <1>3 DEF Shape, TypeOK, Read, executions, OneCall
<1>5. ASSUME NEW x \in Calls
      PROVE  CallShape(x)'
  <2>1. CallShape(x) /\ CallShape(c) /\ (call[x].pc # "begun" \/ x = c)
    BY DEF Shape, CallsShape, Alone
  <2>2. CASE x = c
    BY <1>1, <1>2, <1>3, <2>1, <2>2 DEF Read, executions, OneCall, CallShape, Reading, Busy, Launching
  <2>3. CASE x # c
    BY <1>1, <1>2, <1>3, <2>1, <2>3 DEF Read, executions, OneCall, CallShape, Reading, Busy, Launching
  <2> QED BY <2>2, <2>3
<1>6. ExecutionShape'
  BY <1>2, NoneIsNoCall DEF Read, executions, Shape, ExecutionShape, ExecShape, Live, Quiet
<1> QED BY <1>1, <1>2, <1>3, <1>4, <1>5, <1>6 DEF Read, Shape, CallsShape, ReadStep

LEMMA RewriteShape ==
    ASSUME Shape, NEW c \in Calls, Rewrite(c), Alone(c)
    PROVE  Shape' /\ RewriteStep(c)
<1>1. OneCall(c) /\ call'[c].pc = "loaded" /\ call'[c].op = call[c].op /\ call'[c].def = call[c].def
  BY AtIs DEF Shape, TypeOK, Rewrite
<1>2. /\ call[c].pc = "rewriting" /\ runs = None /\ execution = None /\ writes = <<>> /\ ready = None
      /\ \A d \in Calls \ {c} : ~Busy(d)
  BY DEF Shape, CallsShape, CallShape, Reading, ExecutionShape, Rewrite
<1>3. file \in Runs /\ copy[c] = Loaded(file) /\ file' = copy[c] /\ file' \in Runs
  BY <1>2, LoadedIs DEF Shape, TypeOK, Rewrite, CallsShape, CallShape, Varies
<1>4. TypeOK'
  BY <1>1, <1>3 DEF Shape, TypeOK, Rewrite, memory, OneCall
<1>5. ASSUME NEW x \in Calls
      PROVE  CallShape(x)'
  <2>1. CallShape(x) /\ CallShape(c) /\ (call[x].pc # "begun" \/ x = c)
    BY DEF Shape, CallsShape, Alone
  <2>2. CASE x = c
    BY <1>1, <1>2, <1>3, <2>1, <2>2 DEF Rewrite, memory, OneCall, CallShape, Reading, Busy, Launching
  <2>3. CASE x # c
    BY <1>1, <1>2, <1>3, <2>1, <2>3 DEF Rewrite, memory, OneCall, CallShape, Reading, Busy, Launching
  <2> QED BY <2>2, <2>3
<1>6. ExecutionShape'
  BY <1>2, <1>3, NoneIsNoCall DEF Rewrite, memory, Shape, ExecutionShape, ExecShape, Live, Quiet
<1> QED BY <1>1, <1>2, <1>3, <1>4, <1>5, <1>6 DEF Rewrite, Shape, CallsShape, RewriteStep

LEMMA LaunchShape ==
    ASSUME Shape, NEW c \in Calls, Alone(c), LaunchStep(c)
    PROVE  Shape'
<1> DEFINE run == WithState(copy[runs], "running")
<1>1. /\ copy'[runs] = run /\ run.def = copy[runs].def /\ runs' = runs /\ runs # None
      /\ copy' \in [Calls -> Runs \union {None}]
  BY NoneIsNoCall, WithStateIs DEF Shape, TypeOK, LaunchStep, Varies, RunStates
<1>2. writes' \in Seq([run : Runs, by : Writers])
  BY AppendIs DEF LaunchStep, Shape, TypeOK, Loop, Writers
<1>3. TypeOK'
  BY <1>1, <1>2, NoneIsNoCall DEF Shape, TypeOK, LaunchStep, Rest, OneCall, SamePhases, OneExecution
<1>4. ASSUME NEW x \in Calls
      PROVE  CallShape(x)'
  <2>1. /\ CallShape(x) /\ CallShape(c) /\ (call[x].pc # "begun" \/ x = c) /\ Launching(c)
    BY DEF Shape, CallsShape, Alone, LaunchStep, Launching
  <2>2. CASE x = c
    BY <1>1, <2>1, <2>2 DEF LaunchStep, CallShape, Reading, Busy, Launching
  <2>3. CASE x # c
    BY <1>1, <2>1, <2>3 DEF LaunchStep, OneCall, OneExecution, CallShape, Reading, Busy, Launching
  <2> QED BY <2>2, <2>3
<1>5. file # None
  BY NoneIsNoCall DEF Shape, ExecutionShape, LaunchStep, Caller, Writers
<1>6. ASSUME NEW e \in Calls
      PROVE  ExecShape(e)'
  <2>1. /\ ExecShape(e) /\ ExecShape(c) /\ execution = None /\ execution' = c
        /\ \A s \in Steps : executor'[e][s].phase = executor[e][s].phase
    BY DEF Shape, ExecutionShape, LaunchStep, SamePhases
  <2>2. CASE e = c
    BY <1>1, <2>1, <2>2, NoneIsNoCall, SMTT(25) DEF LaunchStep, ExecShape, Live, Quiet
  <2>3. CASE e # c
    BY <1>1, <2>1, <2>3, NoneIsNoCall DEF LaunchStep, OneExecution, ExecShape, Live, Quiet
  <2> QED BY <2>2, <2>3
<1>7. ExecutionShape'
  BY <1>1, <1>5, <1>6, NoneIsNoCall DEF LaunchStep, ExecutionShape
<1> QED BY <1>3, <1>4, <1>7 DEF Shape, CallsShape

-----------------------------------------------------------------------------
(* Every step of an execution and its executors keeps the shape.           *)
LEMMA LiveIs ==
    ASSUME Shape, NEW e \in Calls, Live(e)
    PROVE  /\ execution = e /\ exec[e].obj = runs /\ Run(e) = copy[runs]
           /\ runs \in Calls /\ runs # None /\ copy[runs] \in Runs /\ file \in Runs
           /\ DOMAIN copy[runs].step \subseteq Steps
BY RunForm, NoneIsNoCall DEF Shape, TypeOK, ExecutionShape, ExecShape, Run

LEMMA AtWorkShape ==
    ASSUME Shape, NEW e \in Calls, AtWork(e),
           copy' \in [Calls -> Runs \union {None}], copy'[runs] \in Runs,
           writes' \in Seq([run : Runs, by : Writers]), ExecShape(e)', Live(e)'
    PROVE  Shape'
<1>1. TypeOK'
  BY NoneIsNoCall DEF Shape, TypeOK, AtWork, Rest, OneExecution
<1>2. runs # None /\ file # None /\ Live(e)
  BY NoneIsNoCall DEF Shape, ExecutionShape, ExecShape, AtWork
<1>3. ASSUME NEW x \in Calls
      PROVE  CallShape(x)'
  <2>1. CallShape(x) /\ ~Reading(x) /\ ~Launching(x)
    BY <1>2, NoneIsNoCall DEF Shape, CallsShape, CallShape, AtWork
  <2>4. x # e => exec'[x] = exec[x]
    BY DEF AtWork, OneExecution
  <2>2. x = e => call[x].pc = "done"
    BY <1>2, <2>1 DEF CallShape, Live
  <2>3. \A d \in Calls : ~Reading(d)
    BY <1>2 DEF Shape, CallsShape, CallShape
  <2> QED BY <1>2, <2>1, <2>2, <2>3, <2>4 DEF AtWork, CallShape, Reading, Busy, Launching
<1>4. ASSUME NEW x \in Calls, x # e
      PROVE  ExecShape(x)'
  <2>1. ~Live(x) /\ Quiet(x)
    BY <1>4 DEF Shape, ExecutionShape, ExecShape, AtWork
  <2>2. Quiet(x)'
    BY <1>4, <2>1 DEF AtWork, Quiet
  <2> QED BY <1>4, <2>1, <2>2 DEF AtWork, OneExecution, ExecShape, Live, Quiet
<1>5. ExecutionShape'
  BY <1>2, <1>4 DEF ExecutionShape, AtWork
<1> QED BY <1>1, <1>3, <1>5 DEF Shape, CallsShape

LEMMA BecomesIs ==
    ASSUME Shape, NEW run, NEW w \in Writers, runs \in Calls, Becomes(run, w)
    PROVE  /\ copy' \in [Calls -> Runs \union {None}] /\ copy'[runs] = run /\ run \in Runs
           /\ Sequential(run) = Sequential(copy[runs]) /\ DOMAIN run.step = DOMAIN copy[runs].step
           /\ writes' \in Seq([run : Runs, by : Writers])
BY AppendIs DEF Becomes, Varies, Sequential, Shape, TypeOK

LEMMA LoopGoesShape ==
    ASSUME Shape, NEW e \in Calls, LoopGoes(e)
    PROVE  Shape'
<1>1. ExecShape(e) /\ Live(e) /\ exec[e].obj = runs /\ AtWork(e) /\ UNCHANGED copy
  BY DEF Shape, ExecutionShape, ExecShape, LoopGoes, Loops, AtWork
<1>2. Quiet(e)' <=> Quiet(e)
  BY DEF LoopGoes, SamePhases, Quiet
<1>3. Live(e)' /\ ExecShape(e)'
  <2>1. exec[e].pc = "stepped" => Sequential(copy[runs]) /\ Quiet(e)
    BY <1>1 DEF ExecShape
  <2> QED BY <1>1, <1>2, <2>1 DEF LoopGoes, Loops, AtWork, SamePhases, ExecShape, Live, Quiet
<1>4. copy[runs] \in Runs /\ copy' \in [Calls -> Runs \union {None}]
      /\ writes' \in Seq([run : Runs, by : Writers])
  BY <1>1 DEF AtWork, LoopGoes, Shape, TypeOK
<1> QED BY <1>1, <1>3, <1>4, AtWorkShape

LEMMA LoopWritesShape ==
    ASSUME Shape, NEW e \in Calls, NEW run, Becomes(run, Loop(e)), Loops(e), SamePhases,
           exec'[e].pc \in {"ending", "return", "schedule"},
           exec'[e].pc = "ending" => Quiet(e),
           exec'[e].pc = "return" => exec[e].pc = "stepped",
           exec'[e].pc = "schedule" => ~Sequential(copy[runs])
    PROVE  Shape'
<1>1. ExecShape(e) /\ Live(e) /\ exec[e].obj = runs /\ AtWork(e) /\ runs \in Calls
  BY DEF Shape, ExecutionShape, ExecShape, Loops, AtWork
<1>2. Quiet(e)' <=> Quiet(e)
  BY DEF SamePhases, Quiet
<1>3. /\ copy' \in [Calls -> Runs \union {None}] /\ copy'[runs] = run /\ run \in Runs
      /\ Sequential(run) = Sequential(copy[runs]) /\ DOMAIN run.step = DOMAIN copy[runs].step
      /\ writes' \in Seq([run : Runs, by : Writers])
  BY <1>1, BecomesIs DEF Loop, Writers
<1>4. Live(e)' /\ ExecShape(e)'
  <2>1. exec[e].pc = "stepped" => Sequential(copy[runs]) /\ Quiet(e)
    BY <1>1 DEF ExecShape
  <2>2. runs' = runs /\ Sequential(copy[runs])' = Sequential(copy[runs])
    BY <1>1, <1>3 DEF AtWork, Sequential
  <2>5. \A s \in Steps : executor'[e][s].phase # "idle" => s \in DOMAIN copy'[runs'].step
    BY <1>1, <1>3, <2>2 DEF ExecShape, SamePhases
  <2>3. Quiet(e) => \A s \in Steps : executor'[e][s].phase = "idle"
    BY DEF Quiet, SamePhases
  <2>4. Sequential(copy[runs]) /\ exec[e].pc # "stepping" => Quiet(e)
    BY <1>1 DEF ExecShape
  <2> QED BY <1>1, <1>2, <2>1, <2>2, <2>3, <2>4, <2>5 DEF Loops, AtWork, ExecShape, Live
<1> QED BY <1>1, <1>3, <1>4, AtWorkShape

LEMMA IsSequence ==
    ASSUME NEW R, NEW n \in Nat, NEW f, f \in [1 .. n -> R]
    PROVE  f \in Seq(R) /\ Len(f) = n
OBVIOUS

LEMMA ConcatIs ==
    ASSUME NEW R, NEW a \in Seq(R), NEW b \in Seq(R), NEW x \in R
    PROVE  LET ab == a \o Append(b, x) IN
           /\ ab \in Seq(R) /\ Len(a) \in Nat /\ Len(b) \in Nat
           /\ Len(ab) = Len(a) + Len(b) + 1
           /\ \A i \in 1 .. Len(a) : ab[i] = a[i]
           /\ \A i \in 1 .. Len(b) : ab[Len(a) + i] = b[i]
           /\ ab[Len(a) + Len(b) + 1] = x
<1>1. /\ Append(b, x) \in Seq(R) /\ Len(Append(b, x)) = Len(b) + 1 /\ Append(b, x)[Len(b) + 1] = x
      /\ \A i \in 1 .. Len(b) : Append(b, x)[i] = b[i]
      /\ Len(a) \in Nat /\ Len(b) \in Nat
  OBVIOUS
<1> DEFINE c == Append(b, x)
<1> HIDE DEF c
<1>2. /\ a \o c \in Seq(R) /\ Len(a \o c) = Len(a) + Len(c)
      /\ \A i \in 1 .. Len(a) : (a \o c)[i] = a[i]
      /\ \A i \in 1 .. Len(c) : (a \o c)[Len(a) + i] = c[i]
  BY <1>1 DEF c
<1>3. Len(c) = Len(b) + 1 /\ c[Len(b) + 1] = x /\ \A i \in 1 .. Len(b) : c[i] = b[i]
  BY <1>1 DEF c
<1>4. \A i \in 1 .. Len(b) : i \in 1 .. Len(c)
  BY <1>1, <1>3
<1>5. Len(b) + 1 \in 1 .. Len(c) /\ Len(a) + (Len(b) + 1) = Len(a) + Len(b) + 1
  BY <1>1, <1>3
<1>6. Len(a) + Len(c) = Len(a) + Len(b) + 1
  BY <1>1, <1>3
<1> QED BY <1>1, <1>2, <1>3, <1>4, <1>5, <1>6 DEF c

LEMMA IntervalIsFinite == \A n \in Nat : IsFiniteSet(1 .. n)
<1> TAKE n \in Nat
<1>1. 1 \in Int /\ n \in Int
  OBVIOUS
<1> QED BY <1>1, FS_Interval

LEMMA StartWritesIs ==
    ASSUME Shape, NEW e \in Calls, NEW r \in Runs, NEW S, S \subseteq DOMAIN r.step,
           NEW q \in Orders(S)
    PROVE  /\ Cardinality(S) \in Nat /\ q \in [1 .. Cardinality(S) -> S]
           /\ \A i, j \in 1 .. Cardinality(S) : q[i] = q[j] => i = j
           /\ StartWrites(e, r, q) \in Seq([run : Runs, by : Writers])
           /\ Len(StartWrites(e, r, q)) = Cardinality(S)
           /\ \A i \in 1 .. Cardinality(S) :
                 StartWrites(e, r, q)[i] = [run |-> Marked(r, UpTo(q, i), "running"),
                                            by |-> Worker(e, q[i])]
<1>1. DOMAIN r.step \subseteq Steps /\ DOMAIN r.step = 1 .. Len(r.def.steps) /\ Len(r.def.steps) \in Nat
  BY RunForm, WorkflowAssumption
<1>2. IsFiniteSet(1 .. Len(r.def.steps))
  BY <1>1, IntervalIsFinite
<1>3. IsFiniteSet(S)
  BY <1>1, <1>2, FS_Subset
<1>4. Cardinality(S) \in Nat
  BY <1>3, FS_CardinalityType
<1>5. q \in [1 .. Cardinality(S) -> S] /\ \A i, j \in 1 .. Cardinality(S) : i < j => q[i] < q[j]
  BY DEF Orders
<1>6. \A i, j \in 1 .. Cardinality(S) : q[i] = q[j] => i = j
  <2> SUFFICES ASSUME NEW i \in 1 .. Cardinality(S), NEW j \in 1 .. Cardinality(S), q[i] = q[j]
               PROVE  i = j
    OBVIOUS
  <2>1. q[i] \in Nat /\ q[j] \in Nat
    BY <1>1, <1>5
  <2> QED BY <1>4, <1>5, <2>1
<1>7. StartWrites(e, r, q) =
         [i \in 1 .. Cardinality(S) |-> [run |-> Marked(r, UpTo(q, i), "running"),
                                         by |-> Worker(e, q[i])]]
  BY <1>5 DEF StartWrites
<1>8. ASSUME NEW i \in 1 .. Cardinality(S)
      PROVE  [run |-> Marked(r, UpTo(q, i), "running"), by |-> Worker(e, q[i])]
                \in [run : Runs, by : Writers]
  <2>1. Marked(r, UpTo(q, i), "running") \in Runs
    BY MarkedIs DEF Varies, StepStates
  <2>2. q[i] \in Steps
    BY <1>1, <1>5
  <2>3. Worker(e, q[i]) \in Writers
    BY <2>2 DEF Worker, Writers
  <2> QED BY <2>1, <2>3
<1>9. /\ StartWrites(e, r, q) \in [1 .. Cardinality(S) -> [run : Runs, by : Writers]]
      /\ \A i \in 1 .. Cardinality(S) : StartWrites(e, r, q)[i] =
           [run |-> Marked(r, UpTo(q, i), "running"), by |-> Worker(e, q[i])]
  BY <1>7, <1>8
<1>10. StartWrites(e, r, q) \in Seq([run : Runs, by : Writers])
       /\ Len(StartWrites(e, r, q)) = Cardinality(S)
  BY <1>4, <1>9, IsSequence
<1> QED BY <1>4, <1>5, <1>6, <1>9, <1>10

(* The snapshots a turn of the graph scheduler adds to the queue.          *)
LEMMA StartsQueue ==
    ASSUME Shape, NEW e \in Calls, NEW r \in Runs, NEW S, S \subseteq DOMAIN r.step,
           NEW q \in Orders(S), NEW run \in Runs
    PROVE  LET new == writes \o Append(StartWrites(e, r, q), [run |-> run, by |-> Loop(e)]) IN
           new \in Seq([run : Runs, by : Writers]) /\ StartsAdded(e, r, S, q, run, new)
<1>1. StartWrites(e, r, q) \in Seq([run : Runs, by : Writers])
  BY StartWritesIs
<1>2. Len(StartWrites(e, r, q)) = Cardinality(S) /\ Cardinality(S) \in Nat
  BY StartWritesIs
<1>3. \A i \in 1 .. Cardinality(S) : StartWrites(e, r, q)[i] =
         [run |-> Marked(r, UpTo(q, i), "running"), by |-> Worker(e, q[i])]
  BY StartWritesIs
<1> DEFINE R == [run : Runs, by : Writers]
           W == StartWrites(e, r, q)
           x == [run |-> run, by |-> Loop(e)]
           new == writes \o Append(W, x)
<1>4. W \in Seq(R) /\ writes \in Seq(R) /\ x \in R
  BY <1>1 DEF Shape, TypeOK, Loop, Writers
<1> HIDE DEF R, W, x
<1>5. /\ new \in Seq(R) /\ Len(writes) \in Nat
      /\ Len(new) = Len(writes) + Len(W) + 1
      /\ \A i \in 1 .. Len(writes) : new[i] = writes[i]
      /\ \A i \in 1 .. Len(W) : new[Len(writes) + i] = W[i]
      /\ new[Len(writes) + Len(W) + 1] = x
  BY <1>4, ConcatIs
<1> HIDE DEF new
<1>6. Len(W) = Cardinality(S)
  BY <1>2 DEF W
<1>7. \A i \in 1 .. Len(W) : new[Len(writes) + i] = StartWrites(e, r, q)[i]
  BY <1>5 DEF W
<1>8. new \in Seq([run : Runs, by : Writers])
  BY <1>5 DEF R
<1>9. new[Len(writes) + Cardinality(S) + 1] = [run |-> run, by |-> Loop(e)]
  BY <1>5, <1>6 DEF x
<1>10. \A i \in 1 .. Cardinality(S) :
          new[Len(writes) + i] = [run |-> Marked(r, UpTo(q, i), "running"), by |-> Worker(e, q[i])]
  BY <1>3, <1>6, <1>7
<1>11. /\ Len(writes) \in Nat /\ Len(new) = Len(writes) + Cardinality(S) + 1
       /\ \A i \in 1 .. Len(writes) : new[i] = writes[i]
  BY <1>5, <1>6
<1>12. StartsAdded(e, r, S, q, run, new)
  BY <1>2, <1>9, <1>10, <1>11 DEF StartsAdded
<1> QED BY <1>8, <1>12 DEF new, W, x

LEMMA StartsShape ==
    ASSUME Shape, NEW e \in Calls, NEW S, NEW run,
           \/ \E s \in S : S = {s} /\ StartsStep(e, s, run)
           \/ StartsSteps(e, S, run)
    PROVE  Shape'
<1>1. /\ LoopStarts(e, S, run) /\ Loops(e) /\ AtWork(e)
  BY DEF StartsStep, StartsSteps, LoopStarts, Loops
<1>2. ExecShape(e) /\ Live(e) /\ exec[e].obj = runs /\ runs \in Calls /\ copy[runs] \in Runs
  BY <1>1 DEF Shape, ExecutionShape, ExecShape, AtWork
<1>3. run \in Runs /\ run.def = copy[runs].def /\ DOMAIN run.step = DOMAIN copy[runs].step
  BY <1>1, <1>2, MarkedIs DEF LoopStarts, Varies, StepStates
<1>4. copy' \in [Calls -> Runs \union {None}] /\ copy'[runs] = run
  BY <1>1, <1>2, <1>3 DEF LoopStarts, Shape, TypeOK
<1>5. runs' = runs /\ Sequential(copy[runs])' = Sequential(copy[runs])
  BY <1>1, <1>3, <1>4 DEF AtWork, Sequential
<1>8. \A s \in Steps : executor'[e][s].phase # "idle" => s \in DOMAIN copy'[runs'].step
  BY <1>1, <1>2, <1>3, <1>4, <1>5 DEF LoopStarts, PhasesBut, ExecShape
<1>6. CASE \E s \in S : S = {s} /\ StartsStep(e, s, run)
  <2>1. PICK s \in S : S = {s} /\ StartsStep(e, s, run)
    BY <1>6
  <2>2. writes' \in Seq([run : Runs, by : Writers])
    <3>1. s \in Steps
      BY <1>1, <1>2, RunForm DEF LoopStarts
    <3>2. Worker(e, s) \in Writers
      BY <3>1 DEF Worker, Writers
    <3> QED BY <1>2, <2>1, <3>2, BecomesIs DEF StartsStep
  <2>3. \A t \in Steps : executor'[e][t].phase # "idle" => t = s
    BY <2>1 DEF StartsStep, LoopStarts, PhasesBut, Quiet
  <2>4. ExecShape(e)' /\ Live(e)'
    BY <1>2, <1>5, <1>8, <2>1, <2>3 DEF StartsStep, LoopStarts, Loops, AtWork, ExecShape, Live
  <2> QED BY <1>1, <1>2, <1>3, <1>4, <2>2, <2>4, AtWorkShape
<1>7. CASE StartsSteps(e, S, run)
  <2>1. PICK q \in Orders(S) :
           writes' = writes \o Append(StartWrites(e, copy[runs], q), [run |-> run, by |-> Loop(e)])
    BY <1>7 DEF StartsSteps
  <2>3. S \subseteq DOMAIN copy[runs].step
    BY <1>1 DEF LoopStarts
  <2>4. writes \o Append(StartWrites(e, copy[runs], q), [run |-> run, by |-> Loop(e)])
           \in Seq([run : Runs, by : Writers])
    BY <1>2, <1>3, <2>3, StartsQueue
  <2>2. ExecShape(e)' /\ Live(e)'
    BY <1>2, <1>5, <1>7, <1>8 DEF StartsSteps, LoopStarts, Loops, AtWork, ExecShape, Live
  <2> QED BY <1>1, <1>2, <1>3, <1>4, <2>1, <2>2, <2>4, AtWorkShape
<1> QED BY <1>6, <1>7

LEMMA ExecutorShape ==
    ASSUME Shape, NEW e \in Calls, NEW s \in Steps,
           \/ ExecutorGoes(e, s) \/ ExecutorReturns(e, s)
           \/ \E outcome, run : ExecutorSettles(e, s, outcome, run)
    PROVE  Shape'
<1>1. AtWork(e) /\ PhasesBut(e, {s})
  BY DEF ExecutorGoes, ExecutorReturns, ExecutorSettles
<1>2. ExecShape(e) /\ Live(e) /\ exec[e].obj = runs /\ runs \in Calls /\ copy[runs] \in Runs
  BY <1>1 DEF Shape, ExecutionShape, ExecShape, AtWork
<1>3. executor[e][s].phase # "idle" /\ ~Quiet(e) /\ exec[e].pc \notin {"launched", "ending"}
      /\ (Sequential(copy[runs]) => exec[e].pc = "stepping" /\ s = exec[e].index)
  BY <1>2 DEF ExecutorGoes, ExecutorReturns, ExecutorSettles, Quiet, ExecShape
<1>4. Live(e)' /\ exec'[e].pc \notin {"launched", "ending"} /\ exec'[e].index = exec[e].index
      /\ exec'[e].obj = runs
      /\ \/ exec'[e].pc = exec[e].pc
         \/ exec[e].pc = "racing" /\ exec'[e].pc = "turn"
         \/ exec[e].pc = "stepping" /\ exec'[e].pc = "stepped" /\ executor'[e][s].phase = "idle"
  BY <1>1, <1>2, <1>3 DEF ExecutorGoes, ExecutorReturns, ExecutorSettles, AtWork, Live
<1>5. /\ copy' \in [Calls -> Runs \union {None}] /\ copy'[runs] \in Runs
      /\ Sequential(copy'[runs]) = Sequential(copy[runs])
      /\ DOMAIN copy'[runs].step = DOMAIN copy[runs].step
      /\ writes' \in Seq([run : Runs, by : Writers])
  <2>1. CASE UNCHANGED <<copy, writes>>
    BY <1>2, <2>1 DEF Shape, TypeOK
  <2>2. CASE \E outcome, run : ExecutorSettles(e, s, outcome, run)
    <3>1. Worker(e, s) \in Writers
      BY DEF Worker, Writers
    <3> QED BY <1>2, <2>2, <3>1, BecomesIs DEF ExecutorSettles
  <2> QED BY <2>1, <2>2 DEF ExecutorGoes, ExecutorReturns
<1>6. ExecShape(e)'
  <2>1. runs' = runs /\ Sequential(copy[runs])' = Sequential(copy[runs]) /\ execution' = e
    BY <1>1, <1>5 DEF AtWork, Sequential
  <2>2. \A t \in Steps \ {s} : executor'[e][t].phase = executor[e][t].phase
    BY <1>1 DEF PhasesBut
  <2>3. Sequential(copy[runs]) => \A t \in Steps \ {s} : executor[e][t].phase = "idle"
    BY <1>2, <1>3 DEF ExecShape
  <2>4. Sequential(copy[runs]) /\ exec'[e].pc # "stepping" => Quiet(e)'
    BY <1>3, <1>4, <2>2, <2>3 DEF Quiet
  <2>5. \A t \in Steps : executor'[e][t].phase # "idle" => t \in DOMAIN copy'[runs'].step
    BY <1>2, <1>3, <1>5, <2>1, <2>2 DEF ExecShape
  <2> QED BY <1>2, <1>3, <1>4, <2>1, <2>2, <2>3, <2>4, <2>5 DEF ExecShape, Live
<1> QED BY <1>1, <1>4, <1>5, <1>6, AtWorkShape

(* What each action of an execution does.                                  *)
LEMMA TurnIs ==
    ASSUME Shape, NEW e \in Calls, Turn(e)
    PROVE  /\ exec[e].pc \in {"launched", "turn"} /\ ready' \in {ready, None}
           /\ IF exec[e].pc \in {"launched", "return", "schedule", "started"}
              THEN ready = Loop(e) /\ ready' = None ELSE ready' = ready
BY DEF Turn, GoesOn

LEMMA LoopsIs ==
    ASSUME Shape, NEW e \in Calls,
           exec[e].pc \in {"launched", "turn", "stepped", "return", "schedule", "started", "drain"},
           UNCHANGED <<outside, execution, unknown>>,
           OneExecution(e), exec'[e].obj = exec[e].obj,
           executor' \in [Calls -> [Steps -> ExecutorRecords]],
           controllers' \in [Steps -> Calls \union {None}],
           \A d \in Calls \ {e}, s \in Steps : executor'[d][s].phase = executor[d][s].phase,
           IF exec[e].pc \in {"launched", "return", "schedule", "started"}
           THEN ready = Loop(e) /\ ready' = None ELSE ready' = ready
    PROVE  Loops(e)
<1>1. Live(e)
  BY DEF Live
<1>2. execution = e /\ runs \in Calls /\ copy[runs] \in Runs
  BY <1>1, LiveIs
<1>3. Rest'
  BY DEF outside, Rest, Shape, TypeOK
<1> QED BY <1>2, <1>3 DEF outside, Loops, AtWork

LEMMA EndsIs ==
    ASSUME Shape, NEW e \in Calls, Live(e), NEW outcome, Varies(outcome, copy[runs]),
           Ends(e, outcome)
    PROVE  /\ OneExecution(e) /\ exec'[e].pc = "ending" /\ exec'[e].obj = exec[e].obj
           /\ Becomes(IF canceled THEN finalized(copy[runs]) ELSE outcome, Loop(e))
<1>1. exec[e].obj = runs /\ Run(e) = copy[runs] /\ copy[runs] \in Runs
  BY LiveIs
<1> DEFINE run == IF canceled THEN finalized(copy[runs]) ELSE outcome
<1>2. Varies(run, copy[runs])
  BY <1>1, FinalizedIs
<1>3. copy' = [copy EXCEPT ![runs] = run] /\ writes' = Append(writes, [run |-> run, by |-> Loop(e)])
      /\ Goes(e, "ending")
  BY <1>1 DEF Ends, SetRun, persistRun
<1>4. OneExecution(e) /\ exec'[e].pc = "ending" /\ exec'[e].obj = exec[e].obj
  BY <1>3, GoesIs DEF Shape, TypeOK
<1> QED BY <1>2, <1>3, <1>4 DEF Becomes

(* The turn of a sequential loop ends the execution or starts the next     *)
(* step.                                                                   *)
LEMMA SequentialTurnIs ==
    ASSUME Shape, NEW e \in Calls, SequentialTurn(e)
    PROVE  \/ \E run : LoopEnds(e, run)
           \/ \E s \in Steps : \E run : StartsStep(e, s, run)
<1> USE DEF Shape, TypeOK
<1>1. /\ exec[e].pc \in {"launched", "turn"}
      /\ IF exec[e].pc \in {"launched", "return", "schedule", "started"}
         THEN ready = Loop(e) /\ ready' = None ELSE ready' = ready
      /\ UNCHANGED <<outside, execution, unknown>>
  BY TurnIs DEF SequentialTurn
<1>2. Live(e)
  BY <1>1 DEF Live
<1>3. /\ exec[e].obj = runs /\ Run(e) = copy[runs] /\ runs \in Calls /\ copy[runs] \in Runs
      /\ DOMAIN copy[runs].step \subseteq Steps
  BY <1>2, LiveIs
<1>4. Sequential(copy[runs])
  BY <1>3 DEF SequentialTurn, Sequential
<1>5. Quiet(e)
  BY <1>1, <1>2, <1>4 DEF ExecutionShape, ExecShape
<1> DEFINE open == {s \in DOMAIN Run(e).step : s >= exec[e].index /\ Run(e).step[s] # "succeeded"}
<1>6. CASE /\ canceled \/ open = {}
           /\ Ends(e, verdict(Run(e)))
           /\ UNCHANGED <<controllers, executor>>
  <2> DEFINE run == IF canceled THEN finalized(copy[runs]) ELSE verdict(copy[runs])
  <2>1. Varies(verdict(copy[runs]), copy[runs])
    BY <1>3, VerdictIs
  <2>2. OneExecution(e) /\ exec'[e].pc = "ending" /\ exec'[e].obj = exec[e].obj /\ Becomes(run, Loop(e))
    BY <1>2, <1>3, <1>6, <2>1, EndsIs
  <2>3. SamePhases
    BY <1>6 DEF SamePhases
  <2>4. Loops(e)
    BY <1>1, <1>6, <2>2, LoopsIs
  <2>5. LoopEnds(e, run)
    BY <1>5, <2>2, <2>3, <2>4 DEF LoopEnds
  <2> QED BY <2>5
<1>7. ASSUME NEW s \in open, ~canceled, \A t \in open : s <= t,
             SetRun(e, WithStep(Run(e), s, "running")),
             persistRun(copy'[exec[e].obj], Worker(e, s)), Starting(e, {s}),
             exec' = [exec EXCEPT ![e].pc = "stepping", ![e].index = s]
      PROVE  \E t \in Steps : \E run : StartsStep(e, t, run)
  <2> DEFINE run == Marked(copy[runs], {s}, "running")
  <2>1. s \in DOMAIN copy[runs].step /\ s \in Steps /\ s \in Nat /\ exec[e].index \in Nat
    BY <1>3, StepsAreNumbers DEF ExecutionRecords
  <2>2. /\ Varies(run, copy[runs]) /\ run.state = copy[runs].state
        /\ \A t \in DOMAIN copy[runs].step :
              run.step[t] = IF t \in {s} THEN "running" ELSE copy[runs].step[t]
    BY <1>3, MarkedIs DEF StepStates
  <2>3. WithStep(copy[runs], s, "running") = run
    BY <1>3, RunForm DEF WithStep, Marked
  <2>4. copy' = [copy EXCEPT ![runs] = run] /\ copy'[runs] = run
    BY <1>3, <1>7, <2>3 DEF SetRun
  <2>5. Becomes(run, Worker(e, s))
    BY <1>3, <1>7, <2>2, <2>4 DEF persistRun, Becomes
  <2>6. /\ OneExecution(e) /\ exec'[e].pc = "stepping"
        /\ exec'[e].obj = exec[e].obj /\ exec'[e].index = s
    BY <1>7, <2>1, IndexIs
  <2>7. /\ PhasesBut(e, {s}) /\ executor'[e][s].phase = "marking"
        /\ controllers' \in [Steps -> Calls \union {None}]
    BY <1>7, <2>1, StartingIs
  <2>8. Loops(e)
    BY <1>1, <2>6, <2>7, LoopsIs DEF PhasesBut
  <2>9. LoopStarts(e, {s}, run)
    BY <2>1, <2>4, <2>7, <2>8 DEF LoopStarts
  <2>10. \A t \in DOMAIN copy[runs].step : t >= exec[e].index /\ t < s => copy[runs].step[t] = "succeeded"
    <3> SUFFICES ASSUME NEW t \in DOMAIN copy[runs].step, t >= exec[e].index, t < s,
                        copy[runs].step[t] # "succeeded"
                 PROVE  FALSE
      OBVIOUS
    <3>1. t \in open /\ t \in Nat
      BY <1>3, StepsAreNumbers
    <3> QED BY <1>7, <2>1, <3>1
  <2>11. s >= exec[e].index /\ copy[runs].step[s] # "succeeded"
    BY <1>3
  <2> HIDE DEF run, open
  <2>12. StartsStep(e, s, run)
    BY <1>1, <1>4, <1>5, <1>7, <2>5, <2>6, <2>9, <2>10, <2>11 DEF StartsStep
  <2> QED BY <2>1, <2>12
<1> QED BY <1>6, <1>7 DEF SequentialTurn

LEMMA SequentialAfterIs ==
    ASSUME Shape, NEW e \in Calls, SequentialAfter(e)
    PROVE  LoopGoes(e) \/ \E B, run : LoopSkips(e, B, run)
<1> USE DEF Shape, TypeOK
<1>1. exec[e].pc = "stepped" /\ UNCHANGED <<outside, execution, controllers, executor, unknown, ready>>
  BY DEF SequentialAfter
<1>2. Live(e)
  BY <1>1 DEF Live
<1>3. exec[e].obj = runs /\ Run(e) = copy[runs] /\ runs \in Calls /\ copy[runs] \in Runs
  BY <1>2, LiveIs
<1> DEFINE i == exec[e].index
<1>5. CASE copy[runs].step[i] \in {"failed", "interrupted"}
  <2> DEFINE B == Later(copy[runs], i)
             run == Marked(copy[runs], B, "skipped")
  <2>1. copy' = [copy EXCEPT ![runs] = run] /\ persistRun(copy'[runs], Loop(e)) /\ Goes(e, "return")
    BY <1>3, <1>5 DEF SequentialAfter, SetRun, Later
  <2>2. Varies(run, copy[runs])
    BY <1>3, MarkedIs DEF StepStates
  <2>3. copy'[runs] = run
    BY <1>3, <2>1
  <2>4. OneExecution(e) /\ exec'[e].pc = "return" /\ exec'[e].obj = exec[e].obj
    BY <2>1, GoesIs
  <2>5. Loops(e)
    BY <1>1, <2>4, LoopsIs
  <2>6. \A s \in B : s \in DOMAIN copy[runs].step /\ copy[runs].step[s] = "pending"
    BY DEF Later
  <2>7. B = Later(copy[runs], exec[e].index)
    OBVIOUS
  <2>8. SamePhases
    BY <1>1 DEF SamePhases
  <2>9. run = Marked(copy[runs], B, "skipped")
    OBVIOUS
  <2> HIDE DEF B, run
  <2>10. Becomes(run, Loop(e))
    BY <2>1, <2>2, <2>3 DEF Becomes, persistRun
  <2>11. LoopSkips(e, B, run)
    BY <1>1, <2>4, <2>5, <2>6, <2>7, <2>8, <2>9, <2>10 DEF LoopSkips
  <2> QED BY <2>11
<1>6. CASE copy[runs].step[i] \notin {"failed", "interrupted"}
  <2>1. exec' = [exec EXCEPT ![e].pc = "turn", ![e].index = i + 1] /\ UNCHANGED <<copy, writes>>
    BY <1>3, <1>6 DEF SequentialAfter
  <2>2. i + 1 \in Nat
    BY DEF ExecutionRecords
  <2>3. /\ OneExecution(e) /\ exec'[e].pc = "turn"
        /\ exec'[e].obj = exec[e].obj /\ exec'[e].index = i + 1
    BY <2>1, <2>2, IndexIs
  <2>4. Loops(e)
    BY <1>1, <2>3, LoopsIs
  <2>5. SamePhases
    BY <1>1 DEF SamePhases
  <2> QED BY <1>1, <1>6, <2>1, <2>3, <2>4, <2>5 DEF LoopGoes
<1> QED BY <1>5, <1>6

LEMMA OutcomeIs ==
    ASSUME Shape, NEW e \in Calls, Live(e), NEW outcome, Ends(e, outcome), Quiet(e),
           exec[e].pc \in {"launched", "turn", "return", "schedule", "started", "drain"},
           IF exec[e].pc \in {"launched", "return", "schedule", "started"}
           THEN ready = Loop(e) /\ ready' = None ELSE ready' = ready,
           UNCHANGED <<outside, execution, controllers, executor, unknown>>,
           \/ outcome = verdict(copy[runs])
           \/ /\ ~Sequential(copy[runs]) /\ exec[e].pc # "drain"
              /\ outcome = WithState(copy[runs], "failed")
    PROVE  \E run : LoopEnds(e, run)
<1> USE DEF Shape, TypeOK
<1>1. /\ runs \in Calls /\ copy[runs] \in Runs
  BY LiveIs
<1>2. Varies(outcome, copy[runs])
  BY <1>1, VerdictIs, WithStateIs DEF RunStates
<1> DEFINE run == IF canceled THEN finalized(copy[runs]) ELSE outcome
<1>3. OneExecution(e) /\ exec'[e].pc = "ending" /\ exec'[e].obj = exec[e].obj /\ Becomes(run, Loop(e))
  BY <1>2, EndsIs
<1>4. SamePhases
  BY DEF SamePhases
<1>5. Loops(e)
  BY <1>3, LoopsIs
<1>6. LoopEnds(e, run)
  BY <1>3, <1>4, <1>5 DEF LoopEnds
<1> QED BY <1>6

LEMMA EndReturnsIs ==
    ASSUME Shape, NEW e \in Calls, Returns(e)
    PROVE  \E run : LoopEnds(e, run)
<1>1. Live(e) /\ exec[e].pc = "return"
  BY DEF Returns, Live
<1>2. Run(e) = copy[runs]
  BY <1>1, LiveIs
<1>3. Quiet(e)
  BY <1>1 DEF Shape, ExecutionShape, ExecShape
<1> QED BY <1>1, <1>2, <1>3, OutcomeIs DEF Returns, GoesOn

(* A loop that finds nothing active ends the execution.                    *)
LEMMA NothingActiveIs ==
    ASSUME Shape, NEW e \in Calls, Live(e), NothingActive(e), Active(e) = {}, ~Sequential(copy[runs]),
           exec[e].pc \in {"launched", "turn", "schedule", "started"},
           IF exec[e].pc \in {"launched", "return", "schedule", "started"}
           THEN ready = Loop(e) /\ ready' = None ELSE ready' = ready,
           UNCHANGED <<outside, execution, controllers, executor, unknown>>
    PROVE  \E run : LoopEnds(e, run)
<1>1. Run(e) = copy[runs]
  BY LiveIs
<1>2. Quiet(e)
  BY DEF Active, Quiet
<1>3. PICK outcome \in {verdict(copy[runs]), WithState(copy[runs], "failed")} : Ends(e, outcome)
  BY <1>1 DEF NothingActive
<1> QED BY <1>2, <1>3, OutcomeIs

(* A graph's turn starts some pending steps, waits for one at work, or     *)
(* ends.                                                                   *)
LEMMA ScheduleIs ==
    ASSUME Shape, NEW e \in Calls, Schedule(e), ~Sequential(copy[runs]),
           exec[e].pc \in {"launched", "turn", "schedule"},
           IF exec[e].pc \in {"launched", "return", "schedule", "started"}
           THEN ready = Loop(e) /\ ready' = None ELSE ready' = ready,
           UNCHANGED <<outside, execution, unknown>>
    PROVE  \/ LoopGoes(e)
           \/ \E run : LoopEnds(e, run)
           \/ \E S, run : StartsSteps(e, S, run)
<1> USE DEF Shape, TypeOK
<1>1. Live(e)
  BY DEF Live
<1>2. /\ exec[e].obj = runs /\ Run(e) = copy[runs] /\ runs \in Calls /\ copy[runs] \in Runs
      /\ DOMAIN copy[runs].step \subseteq Steps
  BY <1>1, LiveIs
<1>3. PICK S \in SUBSET DOMAIN Run(e).step :
         /\ Startable(Run(e), Active(e), S)
         /\ \/ S # {} /\ Starts(e, S)
            \/ /\ S = {} /\ Active(e) # {}
               /\ Goes(e, "racing")
               /\ UNCHANGED <<copy, writes, controllers, executor>>
            \/ /\ S = {} /\ Active(e) = {}
               /\ NothingActive(e)
               /\ UNCHANGED <<controllers, executor>>
  BY DEF Schedule
<1>4. CASE S # {} /\ Starts(e, S)
  <2> DEFINE run == Marked(copy[runs], S, "running")
  <2>1. S \subseteq DOMAIN copy[runs].step /\ S \in SUBSET Steps
    BY <1>2
  <2>2. \A s \in S : copy[runs].step[s] = "pending"
    BY <1>2, <1>3 DEF Startable
  <2>3. copy' = [copy EXCEPT ![runs] = run] /\ Starting(e, S) /\ Goes(e, "started")
    BY <1>2, <1>4 DEF Starts, SetRun
  <2>4. \E q \in Orders(S) :
          writes' = writes \o Append(StartWrites(e, copy[runs], q), [run |-> run, by |-> Loop(e)])
    BY <1>2, <1>4 DEF Starts
  <2>5. OneExecution(e) /\ exec'[e].pc = "started" /\ exec'[e].obj = exec[e].obj
    BY <2>3, GoesIs
  <2>6. /\ PhasesBut(e, S) /\ \A s \in S : executor'[e][s].phase = "marking"
        /\ controllers' \in [Steps -> Calls \union {None}]
    BY <2>1, <2>3, StartingIs
  <2>7. Loops(e)
    BY <2>5, <2>6, LoopsIs DEF PhasesBut
  <2>8. run = Marked(copy[runs], S, "running")
    OBVIOUS
  <2> HIDE DEF run
  <2>9. StartsSteps(e, S, run)
    BY <1>2, <1>3, <1>4, <2>1, <2>2, <2>3, <2>4, <2>5, <2>6, <2>7, <2>8 DEF LoopStarts, StartsSteps
  <2> QED BY <2>9
<1>5. CASE /\ Active(e) # {} /\ Goes(e, "racing")
           /\ UNCHANGED <<copy, writes, controllers, executor>>
  <2>1. OneExecution(e) /\ exec'[e].pc = "racing" /\ exec'[e].obj = exec[e].obj
    BY <1>5, GoesIs
  <2>2. Loops(e) /\ SamePhases
    BY <1>5, <2>1, LoopsIs DEF SamePhases
  <2>3. ~Quiet(e)
    BY <1>5 DEF Active, Quiet
  <2> QED BY <1>5, <2>1, <2>2, <2>3 DEF LoopGoes
<1>6. CASE /\ Active(e) = {} /\ NothingActive(e)
           /\ UNCHANGED <<controllers, executor>>
  BY <1>1, <1>6, NothingActiveIs
<1> QED BY <1>3, <1>4, <1>5, <1>6

LEMMA GraphTurnIs ==
    ASSUME Shape, NEW e \in Calls, GraphTurn(e)
    PROVE  \/ LoopGoes(e)
           \/ \E run : LoopEnds(e, run)
           \/ \E B, run : LoopSkips(e, B, run)
           \/ \E S, run : StartsSteps(e, S, run)
<1> USE DEF Shape, TypeOK
<1>1. /\ exec[e].pc \in {"launched", "turn"}
      /\ IF exec[e].pc \in {"launched", "return", "schedule", "started"}
         THEN ready = Loop(e) /\ ready' = None ELSE ready' = ready
      /\ UNCHANGED <<outside, execution, unknown>> /\ Run(e).def.mode = "graph"
  BY TurnIs DEF GraphTurn
<1>2. /\ exec[e].obj = runs /\ Run(e) = copy[runs] /\ runs \in Calls /\ copy[runs] \in Runs
  BY <1>1, LiveIs DEF Live
<1>3. ~Sequential(copy[runs])
  BY <1>1, <1>2 DEF Sequential
<1>4. CASE /\ canceled /\ Goes(e, "drain")
           /\ UNCHANGED <<copy, writes, controllers, executor>>
  <2>1. OneExecution(e) /\ exec'[e].pc = "drain" /\ exec'[e].obj = exec[e].obj
    BY <1>4, GoesIs
  <2>2. Loops(e) /\ SamePhases
    BY <1>1, <1>4, <2>1, LoopsIs DEF SamePhases
  <2> QED BY <1>1, <1>3, <1>4, <2>1, <2>2 DEF LoopGoes
<1>5. CASE Schedule(e)
  BY <1>1, <1>3, <1>5, ScheduleIs
<1>6. ASSUME NEW B \in SUBSET DOMAIN Run(e).step, ~canceled, Blocked(Run(e), B),
             SetRun(e, Marked(Run(e), B, "skipped")), persistRun(copy'[exec[e].obj], Loop(e)),
             Goes(e, "schedule"), UNCHANGED <<controllers, executor>>
      PROVE  \E run : LoopSkips(e, B, run)
  <2> DEFINE run == Marked(copy[runs], B, "skipped")
  <2>1. copy' = [copy EXCEPT ![runs] = run] /\ persistRun(copy'[runs], Loop(e))
    BY <1>2, <1>6 DEF SetRun
  <2>2. Varies(run, copy[runs])
    BY <1>2, MarkedIs DEF StepStates
  <2>3. copy'[runs] = run
    BY <1>2, <2>1
  <2>4. OneExecution(e) /\ exec'[e].pc = "schedule" /\ exec'[e].obj = exec[e].obj
    BY <1>6, GoesIs
  <2>5. Loops(e) /\ SamePhases
    BY <1>1, <1>6, <2>4, LoopsIs DEF SamePhases
  <2>6. \A s \in B : s \in DOMAIN copy[runs].step /\ copy[runs].step[s] = "pending"
    BY <1>2, <1>6 DEF Blocked
  <2>7. run = Marked(copy[runs], B, "skipped") /\ Blocked(copy[runs], B)
    BY <1>2, <1>6
  <2> HIDE DEF run
  <2>8. Becomes(run, Loop(e))
    BY <2>1, <2>2, <2>3 DEF Becomes, persistRun
  <2>9. LoopSkips(e, B, run)
    BY <1>1, <1>3, <1>6, <2>4, <2>5, <2>6, <2>7, <2>8 DEF LoopSkips
  <2> QED BY <2>9
<1> QED BY <1>4, <1>5, <1>6 DEF GraphTurn

LEMMA GraphScheduleIs ==
    ASSUME Shape, NEW e \in Calls, GraphSchedule(e)
    PROVE  \/ LoopGoes(e)
           \/ \E run : LoopEnds(e, run)
           \/ \E S, run : StartsSteps(e, S, run)
<1>1. Live(e) /\ exec[e].pc = "schedule"
  BY DEF GraphSchedule, Live
<1>2. ~Sequential(copy[runs])
  BY <1>1 DEF Shape, ExecutionShape, ExecShape
<1> QED BY <1>1, <1>2, ScheduleIs DEF GraphSchedule, GoesOn

LEMMA GraphRacesIs ==
    ASSUME Shape, NEW e \in Calls, GraphRaces(e)
    PROVE  LoopGoes(e) \/ \E run : LoopEnds(e, run)
<1> USE DEF Shape, TypeOK
<1>1. /\ Live(e) /\ exec[e].pc = "started" /\ GoesOn(Loop(e))
      /\ UNCHANGED <<outside, execution, controllers, executor, unknown>>
  BY DEF GraphRaces, Live
<1>2. ~Sequential(copy[runs])
  BY <1>1 DEF ExecutionShape, ExecShape
<1>3. CASE Active(e) = {}
  BY <1>1, <1>2, <1>3, NothingActiveIs DEF GraphRaces, GoesOn
<1>4. CASE Active(e) # {}
  <2>1. Goes(e, "racing") /\ UNCHANGED <<copy, writes>>
    BY <1>4 DEF GraphRaces
  <2>2. OneExecution(e) /\ exec'[e].pc = "racing" /\ exec'[e].obj = exec[e].obj
    BY <2>1, GoesIs
  <2>3. Loops(e) /\ SamePhases
    BY <1>1, <2>2, LoopsIs DEF SamePhases, GoesOn
  <2>4. ~Quiet(e)
    BY <1>4 DEF Active, Quiet
  <2> QED BY <1>1, <1>2, <2>1, <2>2, <2>3, <2>4 DEF LoopGoes
<1> QED BY <1>3, <1>4

LEMMA GraphDrainedIs ==
    ASSUME Shape, NEW e \in Calls, GraphDrained(e)
    PROVE  \E run : LoopEnds(e, run)
<1>1. /\ Live(e) /\ exec[e].pc = "drain" /\ Active(e) = {} /\ Ends(e, verdict(Run(e)))
      /\ UNCHANGED <<outside, execution, controllers, executor, unknown, ready>>
  BY DEF GraphDrained, Live
<1>2. Run(e) = copy[runs]
  BY <1>1, LiveIs
<1>3. Quiet(e)
  BY <1>1 DEF Active, Quiet
<1> QED BY <1>1, <1>2, <1>3, OutcomeIs

(* What each action of an executor does.                                   *)
LEMMA ExecutorIs ==
    ASSUME Shape, NEW e \in Calls, NEW s \in Steps, executor[e][s].phase # "idle"
    PROVE  /\ Live(e) /\ execution = e /\ exec[e].obj = runs /\ Run(e) = copy[runs]
           /\ runs \in Calls /\ copy[runs] \in Runs /\ s \in DOMAIN copy[runs].step
<1>1. Live(e) /\ s \in DOMAIN copy[runs].step
  BY DEF Shape, ExecutionShape, ExecShape, Quiet
<1> QED BY <1>1, LiveIs

LEMMA AtWorkIs ==
    ASSUME Shape, NEW e \in Calls, Live(e), UNCHANGED <<outside, execution>>,
           OneExecution(e), exec'[e].obj = exec[e].obj,
           NEW s \in Steps, PhasesBut(e, {s}), ready' \in {ready, None}, unknown' \subseteq Steps,
           controllers' \in [Steps -> Calls \union {None}]
    PROVE  AtWork(e)
<1>1. execution = e /\ runs \in Calls /\ copy[runs] \in Runs
  BY LiveIs
<1>2. Rest'
  BY DEF outside, Rest, Shape, TypeOK
<1> QED BY <1>1, <1>2 DEF outside, AtWork, PhasesBut

LEMMA SettlesIs ==
    ASSUME Shape, NEW e \in Calls, NEW s \in Steps, NEW outcome, Settles(e, s, outcome),
           outcome \in {"succeeded", "failed", "canceled", "interrupted"},
           outcome = "canceled" => canceled \/ executor[e][s].aborted,
           executor[e][s].phase # "executing" => outcome # "succeeded",
           UNCHANGED <<outside, execution, exec>>,
           \/ executor[e][s].phase = "marking" /\ ready = Worker(e, s) /\ ready' = None
           \/ executor[e][s].phase \in {"waiting", "executing"} /\ ready' = ready,
           \/ unknown' = unknown
           \/ /\ outcome = "interrupted" /\ executor[e][s].phase = "executing"
              /\ Mutates(copy[runs], s) /\ ~copy[runs].def.steps[s].safe
              /\ unknown' = unknown \union {s}
    PROVE  \E run : ExecutorSettles(e, s, outcome, run)
<1> USE DEF Shape, TypeOK
<1>1. /\ Live(e) /\ exec[e].obj = runs /\ Run(e) = copy[runs]
      /\ runs \in Calls /\ copy[runs] \in Runs /\ s \in DOMAIN copy[runs].step
  BY ExecutorIs
<1> DEFINE run == WithStep(copy[runs], s, outcome)
<1>2. Varies(run, copy[runs])
  BY <1>1, WithStepIs DEF StepStates
<1>3. copy' = [copy EXCEPT ![runs] = run] /\ persistRun(copy'[runs], Worker(e, s))
  BY <1>1 DEF Settles, SetRun
<1>4. copy'[runs] = run
  BY <1>1, <1>3
<1>5. PhasesBut(e, {s}) /\ executor'[e][s].phase = "closing"
  BY SettledIs DEF Settles
<1>6. controllers' \in [Steps -> Calls \union {None}] /\ unknown' \subseteq Steps
  BY DEF Settles
<1>7. OneExecution(e) /\ exec'[e].obj = exec[e].obj
  BY DEF OneExecution
<1>8. AtWork(e)
  BY <1>1, <1>5, <1>6, <1>7, AtWorkIs
<1>9. run = WithStep(copy[runs], s, outcome)
  OBVIOUS
<1> HIDE DEF run
<1>10. Becomes(run, Worker(e, s))
  BY <1>2, <1>3, <1>4 DEF Becomes, persistRun
<1>11. ExecutorSettles(e, s, outcome, run)
  BY <1>1, <1>5, <1>8, <1>9, <1>10 DEF ExecutorSettles
<1> QED BY <1>11

LEMMA GoesPhaseIs ==
    ASSUME Shape, NEW e \in Calls, NEW s \in Steps, NEW phase \in {"waiting", "executing"},
           Phase(e, s, phase), UNCHANGED <<copy, writes, controllers>>,
           UNCHANGED <<outside, execution, exec, unknown>>,
           \/ executor[e][s].phase = "marking" /\ ready = Worker(e, s) /\ ready' = None
           \/ executor[e][s].phase = "waiting" /\ ready' = ready
    PROVE  ExecutorGoes(e, s)
<1> USE DEF Shape, TypeOK
<1>1. Live(e)
  BY ExecutorIs
<1>2. PhasesBut(e, {s}) /\ executor'[e][s].phase = phase
  BY PhaseIs
<1>3. OneExecution(e) /\ exec'[e].obj = exec[e].obj
  BY DEF OneExecution
<1>4. AtWork(e)
  BY <1>1, <1>2, <1>3, AtWorkIs
<1> QED BY <1>2, <1>4 DEF ExecutorGoes

LEMMA BeginExecuteIs ==
    ASSUME Shape, NEW e \in Calls, NEW s \in Steps,
           \/ BeginExecute(e, s) \/ Settles(e, s, Thrown(e, s))
           \/ Phase(e, s, "waiting") /\ UNCHANGED <<copy, writes, controllers>>,
           UNCHANGED <<outside, execution, exec, unknown>>,
           \/ executor[e][s].phase = "marking" /\ ready = Worker(e, s) /\ ready' = None
           \/ executor[e][s].phase = "waiting" /\ ready' = ready
    PROVE  ExecutorStep(e, s)
<1>1. /\ Thrown(e, s) \in {"failed", "canceled"}
      /\ Thrown(e, s) = "canceled" => canceled \/ executor[e][s].aborted
  BY DEF Thrown
<1>2. CASE Settles(e, s, Thrown(e, s))
  BY <1>1, <1>2, SettlesIs DEF ExecutorStep
<1>3. ASSUME NEW phase \in {"waiting", "executing"}, Phase(e, s, phase),
             UNCHANGED <<copy, writes, controllers>>
      PROVE  ExecutorStep(e, s)
  BY <1>3, GoesPhaseIs DEF ExecutorStep
<1> QED BY <1>2, <1>3 DEF BeginExecute

LEMMA StepRunsIs ==
    ASSUME Shape, NEW e \in Calls, NEW s \in Steps, StepRuns(e, s)
    PROVE  ExecutorStep(e, s)
<1>1. CASE StepMarked(e, s)
  BY <1>1, BeginExecuteIs DEF StepMarked, GoesOn
<1>2. CASE StepLeased(e, s)
  BY <1>2, BeginExecuteIs DEF StepLeased
<1>3. CASE StepEnds(e, s)
  <2>1. /\ executor[e][s].phase = "executing" /\ UNCHANGED <<outside, execution, exec, ready>>
        /\ Run(e) = copy[runs]
    BY <1>3, ExecutorIs DEF StepEnds
  <2>2. ASSUME NEW outcome \in Outcomes(e, s), Settles(e, s, outcome), UNCHANGED unknown
        PROVE  ExecutorStep(e, s)
    <3>1. /\ outcome \in {"succeeded", "failed", "canceled", "interrupted"}
          /\ outcome = "canceled" => canceled \/ executor[e][s].aborted
      BY DEF Outcomes, Thrown
    <3> QED BY <2>1, <2>2, <3>1, SettlesIs DEF ExecutorStep
  <2>3. ASSUME Step(e, s).kind = "tool", Settles(e, s, "interrupted"),
               unknown' = IF Step(e, s).safe THEN unknown ELSE unknown \union {s}
        PROVE  ExecutorStep(e, s)
    <3>1. Step(e, s) = copy[runs].def.steps[s]
      BY <2>1 DEF Step
    <3>2. Mutates(copy[runs], s)
      BY <2>3, <3>1 DEF Mutates
    <3>3. ~copy[runs].def.steps[s].safe \/ unknown' = unknown
      BY <2>3, <3>1
    <3> QED BY <2>1, <2>3, <3>2, <3>3, SettlesIs DEF ExecutorStep
  <2> QED BY <1>3, <2>2, <2>3 DEF StepEnds
<1>4. CASE StepReturns(e, s)
  <2>1. /\ executor[e][s].phase = "closing" /\ ready = Worker(e, s) /\ ready' = None
        /\ UNCHANGED <<memory, file, writes, call, unknown, crashes>>
        /\ UNCHANGED <<outside, execution>>
    BY <1>4 DEF StepReturns, GoesOn, memory, outside
  <2>2. PhasesBut(e, {s}) /\ executor'[e][s].phase = "idle"
    BY <1>4, IdleIs DEF StepReturns, Shape, TypeOK
  <2> DEFINE pc == CASE exec[e].pc = "racing" -> "turn"
                     [] exec[e].pc = "stepping" -> "stepped"
                     [] OTHER -> exec[e].pc
  <2>6. /\ exec[e].pc = "racing" => pc = "turn"
        /\ exec[e].pc = "stepping" => pc = "stepped"
        /\ exec[e].pc \notin {"racing", "stepping"} => pc = exec[e].pc
    OBVIOUS
  <2>7. exec' = [exec EXCEPT ![e].pc = pc]
    BY <1>4 DEF StepReturns, Shape, TypeOK
  <2> HIDE DEF pc
  <2>3. /\ OneExecution(e) /\ exec'[e].obj = exec[e].obj /\ exec'[e].index = exec[e].index
        /\ exec'[e].pc = pc
    BY <2>6, <2>7, ZenonT(60) DEF OneExecution, Shape, TypeOK, ExecutionRecords
  <2>4. Live(e) /\ controllers' \in [Steps -> Calls \union {None}] /\ unknown' \subseteq Steps
    BY <2>1, ExecutorIs DEF memory, Shape, TypeOK
  <2>5. AtWork(e)
    BY <2>1, <2>2, <2>3, <2>4, AtWorkIs
  <2> QED BY <2>1, <2>2, <2>3, <2>5, <2>6 DEF ExecutorReturns, ExecutorStep, memory
<1> QED BY <1>1, <1>2, <1>3, <1>4 DEF StepRuns

-----------------------------------------------------------------------------
(* The other steps: an execution has ended, the queue goes on, the runtime *)
(* dies, the manager accepts calls again.                                  *)
LEMMA CloseShape ==
    ASSUME Shape, NEW e \in Calls, ExecutionEnds(e)
    PROVE  Shape' /\ CloseStep(e)
<1> USE DEF Shape, TypeOK
<1>1. /\ exec[e].pc = "ending" /\ ready = Loop(e) /\ ready' = None
      /\ UNCHANGED <<outside, copy, writes, unknown>>
  BY DEF ExecutionEnds, GoesOn
<1>2. Live(e)
  BY <1>1 DEF Live
<1>3. execution = e /\ runs # None /\ execution' = None
  BY <1>2, LiveIs DEF ExecutionEnds
<1>4. OneExecution(e) /\ exec'[e].pc = "ended"
  BY DEF ExecutionEnds, NoExecution, OneExecution, ExecutionRecords
<1>5. SamePhases
  <2>1. ASSUME NEW c \in Calls, NEW s \in Steps
        PROVE  /\ executor'[c][s] \in ExecutorRecords
               /\ executor'[c][s].phase = executor[c][s].phase
    <3>1. executor[c][s] \in ExecutorRecords
      OBVIOUS
    <3>2. executor'[c][s] = [executor[c][s] EXCEPT !.mapped = FALSE]
      BY DEF ExecutionEnds
    <3> QED BY <3>1, <3>2 DEF ExecutorRecords
  <2>2. executor' = [c \in Calls |-> [s \in Steps |-> executor'[c][s]]]
    BY DEF ExecutionEnds
  <2> QED BY <2>1, <2>2 DEF SamePhases
<1>6. Rest'
  BY <1>1 DEF ExecutionEnds, outside, Rest
<1>7. CloseStep(e)
  BY <1>1, <1>3, <1>4, <1>5, <1>6 DEF CloseStep, outside
<1>8. TypeOK'
  BY <1>4, <1>5, <1>6, <1>7 DEF CloseStep, Rest, OneExecution, SamePhases
<1>9. ASSUME NEW x \in Calls
      PROVE  CallShape(x)'
  <2>1. CallShape(x) /\ (x = e => call[x].pc = "done") /\ ~Launching(x)
    BY <1>3, <1>2, NoneIsNoCall DEF CallsShape, CallShape, Live
  <2>2. \A d \in Calls : ~Reading(d)
    BY <1>3 DEF CallsShape, CallShape
  <2>3. x # e => exec'[x] = exec[x]
    BY <1>7 DEF CloseStep, OneExecution
  <2> QED BY <1>3, <1>7, <2>1, <2>2, <2>3 DEF CloseStep, CallShape, Reading, Busy, Launching
<1>10. ASSUME NEW x \in Calls
       PROVE  ExecShape(x)'
  <2>1. ~Live(x)'
    BY <1>3, <1>7 DEF CloseStep, OneExecution, ExecutionShape, ExecShape, Live
  <2>2. Quiet(x)
    BY <1>1, <1>3 DEF ExecutionShape, ExecShape
  <2>3. Quiet(x)'
    BY <1>7, <2>2 DEF CloseStep, SamePhases, Quiet
  <2> QED BY <1>3, <2>1, <2>3, NoneIsNoCall DEF ExecShape, Quiet
<1>11. ExecutionShape'
  BY <1>3, <1>7, <1>10 DEF CloseStep, ExecutionShape
<1> QED BY <1>7, <1>8, <1>9, <1>11 DEF CallsShape

LEMMA TailIs ==
    ASSUME NEW R, NEW q \in Seq(R), q # <<>>
    PROVE  /\ Len(q) \in Nat \ {0} /\ Head(q) = q[1] /\ q[1] \in R
           /\ Tail(q) \in Seq(R) /\ Len(Tail(q)) = Len(q) - 1
           /\ \A i \in 1 .. Len(Tail(q)) : Tail(q)[i] = q[i + 1]
OBVIOUS

LEMMA WriteShape ==
    ASSUME Shape, WriteRun
    PROVE  Shape' /\ WriteStep
<1> DEFINE R == [run : Runs, by : Writers]
<1>1. writes \in Seq(R) /\ writes # <<>> /\ ready = None
      /\ UNCHANGED <<memory, call, exec, executor, unknown, crashes>>
  BY DEF Shape, TypeOK, WriteRun
<1> HIDE DEF R
<1>2. /\ Len(writes) \in Nat \ {0} /\ Head(writes) = writes[1] /\ writes[1] \in R
      /\ Tail(writes) \in Seq(R) /\ Len(Tail(writes)) = Len(writes) - 1
      /\ \A i \in 1 .. Len(Tail(writes)) : Tail(writes)[i] = writes[i + 1]
  BY <1>1, TailIs
<1>3. /\ file' = writes[1].run /\ ready' = writes[1].by /\ file' \in Runs /\ ready' \in Writers
      /\ writes' \in Seq(R)
  BY <1>2 DEF WriteRun, R
<1>4. WriteStep
  BY <1>1, <1>2, <1>3 DEF WriteRun, WriteStep
<1>5. writes' \in Seq([run : Runs, by : Writers])
  BY <1>3 DEF R
<1>6. TypeOK'
  BY <1>1, <1>3, <1>5 DEF Shape, TypeOK, memory
<1>7. runs # None /\ file' # None
  BY <1>1, <1>3, NoneIsNoCall DEF Shape, ExecutionShape
<1>8. ASSUME NEW x \in Calls
      PROVE  CallShape(x)'
  <2>1. CallShape(x) /\ ~Reading(x)
    BY <1>7 DEF Shape, CallsShape, CallShape
  <2> QED BY <1>1, <2>1 DEF memory, CallShape, Reading, Busy, Launching
<1>9. ExecutionShape'
  BY <1>1, <1>7 DEF memory, Shape, ExecutionShape, ExecShape, Live, Quiet
<1> QED BY <1>4, <1>6, <1>8, <1>9 DEF Shape, CallsShape

LEMMA CrashShape ==
    ASSUME Shape, Crash
    PROVE  Shape' /\ CrashStep
<1> USE DEF Shape, TypeOK
<1>1. /\ call' \in [Calls -> CallRecords]
      /\ \A c \in Calls : /\ call'[c].pc \in {"idle", "done"} /\ call'[c].op = call[c].op
                          /\ call[c].pc = "idle" => call'[c].pc = "idle"
                          /\ call[c].pc # "idle" => call'[c].pc = "done"
  BY DEF Crash, CallRecords, NewCall, Busy
<1>2. /\ exec' \in [Calls -> ExecutionRecords]
      /\ \A c \in Calls : /\ exec'[c].pc \in {"none", "ended"}
                          /\ exec'[c].pc # "none" => exec[c].pc # "none"
                          /\ exec[c].pc = "none" => exec'[c].pc = "none"
  BY DEF Crash, ExecutionRecords, NoExecution
<1>3. /\ executor' \in [Calls -> [Steps -> ExecutorRecords]]
      /\ \A c \in Calls, s \in Steps : executor'[c][s].phase = "idle"
  BY DEF Crash, Idle, ExecutorRecords
<1>4. CrashStep
  BY <1>1, <1>2, <1>3 DEF Crash, CrashStep
<1>5. <<>> \in Seq([run : Runs, by : Writers])
  OBVIOUS
<1>6. TypeOK'
  <2> DEFINE U == unknown \union {s \in Steps : \E e \in Calls : CutOff(e, s)}
  <2>1. U \subseteq Steps /\ unknown' = U
    BY DEF Crash
  <2> HIDE DEF U
  <2>2. /\ file' = file /\ runs' = None /\ copy' = [c \in Calls |-> None]
        /\ canceled' = FALSE /\ accepting' = TRUE /\ execution' = None /\ startLock' = None
        /\ controllers' = [s \in Steps |-> None] /\ writes' = <<>> /\ ready' = None
        /\ crashes' = crashes + 1
    BY DEF Crash
  <2>3. writes' \in Seq([run : Runs, by : Writers])
    BY <1>5, <2>2
  <2>4. copy' \in [Calls -> Runs \union {None}] /\ (runs' # None => copy'[runs'] # None)
    BY <2>2
  <2>5. controllers' \in [Steps -> Calls \union {None}] /\ crashes' \in Nat /\ file' \in Runs \union {None}
    BY <2>2
  <2>6. executor' \in [Calls -> [Steps -> ExecutorRecords]]
    BY <1>3
  <2> QED BY <1>1, <1>2, <2>1, <2>2, <2>3, <2>4, <2>5, <2>6
<1>7. ASSUME NEW x \in Calls
      PROVE  CallShape(x)'
  <2>1. CallShape(x)
    BY DEF CallsShape
  <2> QED BY <1>1, <1>2, <2>1 DEF CallShape, Reading, Busy, Launching
<1>8. ExecutionShape'
  BY <1>2, <1>3, <1>4, NoneIsNoCall DEF CrashStep, ExecutionShape, ExecShape, Live, Quiet
<1> QED BY <1>4, <1>6, <1>7, <1>8 DEF CallsShape

LEMMA AcceptShape ==
    ASSUME Shape, ResumeAccepting
    PROVE  Shape' /\ AcceptStep
<1>1. AcceptStep /\ UNCHANGED <<canceled, startLock, controllers, crashes>> /\ accepting' \in BOOLEAN
  BY DEF ResumeAccepting, executions, AcceptStep
<1>2. TypeOK'
  BY <1>1 DEF AcceptStep, Shape, TypeOK
<1>3. CallsShape'
  BY <1>1 DEF AcceptStep, Shape, CallsShape, CallShape, Reading, Busy, Launching
<1>4. ExecutionShape'
  BY <1>1 DEF AcceptStep, Shape, ExecutionShape, ExecShape, Live, Quiet
<1> QED BY <1>1, <1>2, <1>3, <1>4 DEF Shape

LEMMA StutterShape ==
    ASSUME Shape, UNCHANGED vars
    PROVE  Shape' /\ AcceptStep
<1>1. AcceptStep /\ UNCHANGED <<canceled, accepting, startLock, controllers, crashes>>
  BY DEF vars, memory, AcceptStep
<1>2. TypeOK'
  BY <1>1 DEF AcceptStep, Shape, TypeOK
<1>3. CallsShape'
  BY <1>1 DEF AcceptStep, Shape, CallsShape, CallShape, Reading, Busy, Launching
<1>4. ExecutionShape'
  BY <1>1 DEF AcceptStep, Shape, ExecutionShape, ExecShape, Live, Quiet
<1> QED BY <1>1, <1>2, <1>3, <1>4 DEF Shape

-----------------------------------------------------------------------------
(* The turns of calls: each is one of the effects of a call.               *)
LEMMA CallTurns ==
    ASSUME Shape, NEW c \in Calls, Alone(c), FirstTurn(c) \/ Progress(c)
    PROVE  CallTurn(c) /\ Shape'
<1>1. CASE \/ NotLoaded(c) \/ StartReads(c) \/ StartJoins(c) \/ ReadFails(c) \/ JoinReturns(c)
           \/ CancelReturns(c) \/ WaitReturns(c) \/ ShutdownReturns(c) \/ ShutdownAborts(c)
           \/ \E obj \in Calls : StartFinds(c, obj) \/ Wait(c, obj)
  <2>1. CallStep(c)
    BY <1>1, ReadsIs, JoinsIs, ReturnsIs, AbortsIs, FindsIs, WaitIs
  <2> QED BY <2>1, CallStepShape DEF CallTurn
<1>2. CASE \/ Shutdown(c) \/ StartCreates(c) \/ CancelAborts(c)
           \/ \E obj \in Calls : Resume(c, obj) \/ Cancel(c, obj)
  <2>1. CallStep(c) \/ \E run \in Runs : CallWrites(c, run)
    BY <1>2, ShutdownIs, CreatesIs, CancelAbortsIs, ResumeIs, CancelIs
  <2> QED BY <2>1, CallStepShape, CallWritesShape DEF CallTurn
<1>3. CASE Launches(c)
  BY <1>3, LaunchesIs, LaunchShape DEF CallTurn
<1>4. CASE Read(c)
  BY <1>4, ReadShape DEF CallTurn
<1>5. CASE Rewrite(c)
  BY <1>5, RewriteShape DEF CallTurn
<1> QED BY <1>1, <1>2, <1>3, <1>4, <1>5 DEF FirstTurn, Progress

(* The turns of the loops: each is one of the effects of an execution.     *)
LEMMA LoopTurns ==
    ASSUME Shape, NEW e \in Calls, Executes(e)
    PROVE  LoopTurn(e) /\ Shape'
<1>1. CASE ExecutionEnds(e)
  BY <1>1, CloseShape DEF LoopTurn
<1>2. CASE ~ExecutionEnds(e)
  <2>1. \/ LoopGoes(e)
        \/ \E run : LoopEnds(e, run)
        \/ \E B, run : LoopSkips(e, B, run)
        \/ \E s \in Steps : \E run : StartsStep(e, s, run)
        \/ \E S, run : StartsSteps(e, S, run)
    BY <1>2, SequentialTurnIs, SequentialAfterIs, EndReturnsIs, GraphTurnIs, GraphScheduleIs,
       GraphRacesIs, GraphDrainedIs DEF Executes
  <2>2. ASSUME NEW run, LoopEnds(e, run)
        PROVE  Shape'
    BY <2>2, LoopWritesShape DEF LoopEnds
  <2>3. ASSUME NEW B, NEW run, LoopSkips(e, B, run)
        PROVE  Shape'
    BY <2>3, LoopWritesShape DEF LoopSkips
  <2>4. ASSUME NEW s \in Steps, NEW run, StartsStep(e, s, run)
        PROVE  Shape'
    BY <2>4, StartsShape
  <2>5. ASSUME NEW S, NEW run, StartsSteps(e, S, run)
        PROVE  Shape'
    BY <2>5, StartsShape
  <2> QED BY <2>1, <2>2, <2>3, <2>4, <2>5, LoopGoesShape DEF LoopTurn
<1> QED BY <1>1, <1>2

(* Every step of the system is one of the effects, and keeps the shape.    *)
LEMMA NextIs ==
    ASSUME ~CallsOverlap, Shape, [Next]_vars
    PROVE  Effect /\ Shape'
<1>1. ASSUME NEW c \in Begun, FirstTurn(c)
      PROVE  Effect /\ Shape'
  <2>1. c \in Calls /\ Alone(c)
    BY DEF Begun, Alone, Shape, CallsShape, CallShape
  <2> QED BY <1>1, <2>1, CallTurns DEF Effect
<1>2. CASE Begun = {}
  <2>1. \A c \in Calls : call[c].pc # "begun" /\ Alone(c)
    BY <1>2 DEF Begun, Alone
  <2>2. ASSUME NEW c \in Calls, Progress(c)
        PROVE  Effect /\ Shape'
    BY <2>1, <2>2, CallTurns DEF Effect
  <2>3. ASSUME NEW e \in Calls, Executes(e)
        PROVE  Effect /\ Shape'
    BY <2>3, LoopTurns DEF Effect
  <2>4. ASSUME NEW e \in Calls, NEW s \in Steps, StepRuns(e, s)
        PROVE  Effect /\ Shape'
    BY <2>4, StepRunsIs, ExecutorShape DEF Effect, ExecutorStep
  <2>5. ASSUME NEW c \in Calls, NEW confirm \in BOOLEAN,
               NEW op \in {"start", "wait", "cancel", "resume", "shutdown"},
               NEW d \in Definitions \union {None}, op = "start" => d # None,
               Begin(c, op, d, confirm)
        PROVE  Effect /\ Shape'
    BY <2>1, <2>5, BeginShape DEF Effect, CallTurn
  <2>6. ASSUME NEW c \in Calls, NEW d \in Definitions, Begin(c, "start", d, FALSE)
        PROVE  Effect /\ Shape'
    BY <2>5, <2>6, WorkflowAssumption
  <2>7. ASSUME NEW c \in Calls, NEW op \in {"wait", "cancel", "shutdown"}, Begin(c, op, None, FALSE)
        PROVE  Effect /\ Shape'
    BY <2>5, <2>7
  <2>8. ASSUME NEW c \in Calls, NEW confirm \in BOOLEAN, Begin(c, "resume", None, confirm)
        PROVE  Effect /\ Shape'
    BY <2>5, <2>8
  <2>9. CASE WriteRun
    BY <2>9, WriteShape DEF Effect
  <2>10. CASE Crash
    BY <2>10, CrashShape DEF Effect
  <2>11. CASE ResumeAccepting
    BY <2>11, AcceptShape DEF Effect
  <2>12. CASE UNCHANGED vars
    BY <2>12, StutterShape DEF Effect
  <2>13. Begun = {} => \A c \in Begun : FALSE
    OBVIOUS
  <2> QED BY <1>2, <2>2, <2>3, <2>4, <2>6, <2>7, <2>8, <2>9, <2>10, <2>11, <2>12 DEF Next, Work
<1>3. CASE UNCHANGED vars
  BY <1>3, StutterShape DEF Effect
<1> QED BY <1>1, <1>2, <1>3 DEF Next, Work

LEMMA InitShape == Init => Shape
<1> SUFFICES ASSUME Init PROVE Shape
  OBVIOUS
<1>1. <<>> \in Seq([run : Runs, by : Writers])
  OBVIOUS
<1>2. TypeOK
  BY <1>1, WorkflowAssumption
     DEF Init, TypeOK, NewCall, NoExecution, Idle, CallRecords, ExecutionRecords, ExecutorRecords
<1>3. CallsShape
  BY DEF Init, CallsShape, CallShape, NewCall, NoExecution, Reading, Busy, Launching
<1>4. ExecutionShape
  BY NoneIsNoCall DEF Init, ExecutionShape, ExecShape, NoExecution, Idle, Live, Quiet
<1> QED BY <1>2, <1>3, <1>4 DEF Shape

(* Of calls that do not overlap, one at most reads the file or is about to *)
(* launch, and one execution at most is under way, on the run in memory:   *)
(* loadRun, startDefinition, resume and launch do not meet each other.     *)
THEOREM ShapeInvariant ==
    ASSUME ~CallsOverlap
    PROVE  Spec => [](TypeOK /\ CallsShape /\ ExecutionShape)
<1>1. Init => Shape
  BY InitShape
<1>2. Shape /\ [Next]_vars => Shape'
  BY NextIs
<1>3. Spec => []Shape
  BY <1>1, <1>2, PTL DEF Spec
<1> QED BY <1>3, PTL DEF Shape

-----------------------------------------------------------------------------
(* The copy in memory agrees with the executors.                           *)
LEMMA CallStepAgrees ==
    ASSUME Shape, CopyAgrees, NEW c \in Calls, CallStep(c)
    PROVE  CopyAgrees'
<1>1. /\ UNCHANGED <<copy, execution, exec>> /\ OneCall(c)
      /\ \A e \in Calls, s \in Steps : executor'[e][s].phase = executor[e][s].phase
      /\ call'[c].pc \in {"reading", "joined", "awaiting", "done"}
      /\ \/ runs' = runs
         \/ runs = None /\ runs' = c /\ call[c].pc = "loaded" /\ copy[c] # None
  BY DEF CallStep, SamePhases
<1>2. /\ \A e \in Calls, s \in Steps : executor[e][s].phase # "idle" => Live(e)
      /\ \A e \in Calls : Live(e) => execution = e /\ runs # None
      /\ execution # None => execution \in Calls /\ runs # None
      /\ \A d \in Calls : Launching(d) => runs # None
  BY LiveIs, ExecutorIs DEF Shape, TypeOK, ExecutionShape, CallsShape, CallShape, Launching
<1>3. runs # None => runs \in Calls /\ copy[runs] \in Runs /\ DOMAIN copy[runs].step \subseteq Steps
  BY RunForm DEF Shape, TypeOK
<1>4. RunningIsHeld'
  <2>1. CASE runs' = runs
    BY <1>1, <1>2, <1>3, <2>1 DEF CopyAgrees, RunningIsHeld
  <2>2. CASE runs' = c /\ call[c].pc = "loaded" /\ copy[c] # None
    BY <1>1, <2>2 DEF CopyAgrees, ReadIsAtRest, HasRunning, RunningIsHeld
  <2> QED BY <1>1, <2>1, <2>2
<1>5. ExecutorsAgree'
  BY <1>1, <1>2 DEF CopyAgrees, ExecutorsAgree, Phase3
<1>6. OpenWhileLive' /\ AheadIsUnbegun'
  BY <1>1, <1>2 DEF CopyAgrees, OpenWhileLive, AheadIsUnbegun, Ahead, Live
<1>7. ReadIsAtRest'
  BY <1>1 DEF CopyAgrees, ReadIsAtRest, OneCall
<1>8. LaunchIsFresh'
  BY <1>1, <1>2 DEF CopyAgrees, LaunchIsFresh, OneCall, Launching
<1> QED BY <1>4, <1>5, <1>6, <1>7, <1>8 DEF CopyAgrees

(* The run a call writes: a fresh one, or what the call makes of the copy. *)
LEMMA CallWritesRun ==
    ASSUME Shape, NEW c \in Calls, NEW run \in Runs, CallWrites(c, run)
    PROVE  /\ RunningIsOpen(run)
           /\ Launching(c)' => \A s \in DOMAIN run.step : run.step[s] \in Unbegun
           /\ \/ /\ copy[runs'] = None /\ runs = None /\ call[c].op = "start" /\ ~HasRunning(run)
                 /\ call'[c].pc = "persisting" /\ unknown' = unknown
              \/ /\ copy[runs'] \in Runs /\ Varies(run, copy[runs'])
                 /\ call[c].op = "start" => call'[c].pc # "persisting"
                 /\ execution # None => run.step = copy[runs'].step /\ run.state = "canceling"
                 /\ \A s \in DOMAIN run.step :
                       /\ run.step[s] = "running" => copy[runs'].step[s] = "running"
                       /\ copy[runs'].step[s] \in Unbegun => run.step[s] \in Unbegun
                       /\ copy[runs'].step[s] = "succeeded" => run.step[s] = "succeeded"
                 /\ \/ /\ unknown' = unknown
                       /\ \A s \in DOMAIN run.step :
                             copy[runs'].step[s] = "interrupted" => run.step[s] = "interrupted"
                    \/ unknown' = unknown /\ Unconfirmed(copy[runs']) = {}
                    \/ unknown' = {}
<1>1. CASE /\ call[c].op = "start" /\ call'[c].pc = "persisting"
           /\ runs = None /\ copy[c] = None /\ unknown' = unknown
           /\ run.state = "pending" /\ \A s \in DOMAIN run.step : run.step[s] = "pending"
  BY <1>1 DEF CallWrites, RunningIsOpen, HasRunning, Unbegun
<1>2. CASE /\ call[c].op = "resume" /\ call'[c].pc = "persisting"
           /\ execution = None /\ call[c].pc # "persisting"
           /\ copy[runs'] \in Runs /\ run = Reset(copy[runs'])
           /\ \/ Unconfirmed(copy[runs']) = {} /\ unknown' = unknown
              \/ unknown' = {}
  <2>1. /\ Varies(run, copy[runs'])
        /\ \A s \in DOMAIN copy[runs'].step :
              run.step[s] = IF copy[runs'].step[s] = "succeeded" THEN "succeeded" ELSE "pending"
    BY <1>2, ResetIs
  <2>2. \A s \in DOMAIN run.step : run.step[s] \in {"succeeded", "pending"}
    BY <2>1 DEF Varies
  <2>3. RunningIsOpen(run)
    BY <2>2 DEF RunningIsOpen, HasRunning
  <2> QED BY <1>2, <2>1, <2>2, <2>3 DEF Varies, Unbegun
<1>3. CASE /\ call[c].op \in {"cancel", "shutdown"} /\ call'[c].pc = "persisting"
           /\ copy[runs'] \in Runs /\ copy[runs'].state \notin TERMINAL_RUN_STATES
           /\ run = WithState(copy[runs'], "canceling") /\ unknown' = unknown
  <2>1. Varies(run, copy[runs']) /\ run.step = copy[runs'].step /\ run.state = "canceling"
    BY <1>3, WithStateIs DEF RunStates
  <2> QED BY <1>3, <2>1 DEF CallWrites, Launching, RunningIsOpen
<1>4. CASE /\ call[c].op = "cancel" /\ call'[c].pc = "finalizing"
           /\ execution = None /\ runs # None
           /\ copy[runs'] \in Runs /\ run = finalized(copy[runs']) /\ unknown' = unknown
  <2>1. /\ Varies(run, copy[runs'])
        /\ \A s \in DOMAIN copy[runs'].step :
              run.step[s] = IF copy[runs'].step[s] \in {"running", "pending"} THEN "canceled"
                            ELSE copy[runs'].step[s]
    BY <1>4, FinalizedIs
  <2>2. ~HasRunning(run)
    BY <2>1 DEF HasRunning, Varies
  <2> QED BY <1>4, <2>1, <2>2 DEF Launching, RunningIsOpen, Varies, Unbegun
<1>5. copy[c] = None /\ runs = None => copy[runs'] = None
  BY DEF CallWrites
<1> QED BY <1>1, <1>2, <1>3, <1>4, <1>5 DEF CallWrites

LEMMA CallWritesAgrees ==
    ASSUME Shape, CopyAgrees, NEW c \in Calls, NEW run \in Runs, CallWrites(c, run)
    PROVE  CopyAgrees'
<1>1. /\ UNCHANGED <<execution, exec>> /\ OneCall(c) /\ runs' \in Calls
      /\ \A e \in Calls, s \in Steps : executor'[e][s].phase = executor[e][s].phase
      /\ call'[c].pc \in {"persisting", "finalizing"}
      /\ runs # None => runs' = runs
      /\ runs = None => call[c].pc = "loaded" /\ runs' = c
      /\ copy' = [copy EXCEPT ![runs'] = run] /\ copy'[runs'] = run
  BY DEF CallWrites, SamePhases, Shape, TypeOK
<1>2. /\ \A e \in Calls, s \in Steps : executor[e][s].phase # "idle" => Live(e)
      /\ \A e \in Calls : Live(e) => execution = e /\ runs # None
      /\ execution # None => execution \in Calls /\ runs # None
      /\ \A d \in Calls : Launching(d) => runs # None
  BY LiveIs, ExecutorIs DEF Shape, TypeOK, ExecutionShape, CallsShape, CallShape, Launching
<1>3. /\ DOMAIN run.step \subseteq Steps
      /\ runs # None => runs \in Calls /\ copy[runs] \in Runs /\ DOMAIN copy[runs].step \subseteq Steps
  BY RunForm DEF Shape, TypeOK
<1>4. CASE runs = None
  <2>1. execution = None
    BY <1>2, <1>4
  <2>2. copy[runs'] # None => ~HasRunning(copy[runs'])
    BY <1>1, <1>4 DEF CopyAgrees, ReadIsAtRest
  <2>3. ~HasRunning(run)
    BY <2>2, CallWritesRun, NoneIsNoCall DEF HasRunning, Varies
  <2>4. \A d \in Calls \ {c} : ~Busy(d)
    BY <1>1, <1>4 DEF Shape, CallsShape, CallShape, Reading
  <2>5. RunningIsHeld'
    BY <1>1, <2>3 DEF HasRunning, RunningIsHeld
  <2>6. ExecutorsAgree' /\ OpenWhileLive' /\ AheadIsUnbegun'
    BY <1>1, <1>2, <1>4 DEF ExecutorsAgree, OpenWhileLive, AheadIsUnbegun, Live, Phase3
  <2>7. ReadIsAtRest'
    BY <1>1, <2>4 DEF ReadIsAtRest, OneCall, Busy
  <2>8. Launching(c)' => \A s \in DOMAIN run.step : run.step[s] \in Unbegun
    BY CallWritesRun
  <2>9. LaunchIsFresh'
    BY <1>1, <2>4, <2>8 DEF LaunchIsFresh, OneCall, Busy, Launching
  <2> QED BY <2>5, <2>6, <2>7, <2>9 DEF CopyAgrees
<1>5. CASE runs # None
  <2>1. runs' = runs /\ copy[runs] \in Runs
    BY <1>1, <1>3, <1>5
  <2>2. /\ Varies(run, copy[runs])
        /\ \A s \in DOMAIN run.step : run.step[s] = "running" => copy[runs].step[s] = "running"
        /\ \A s \in DOMAIN run.step : copy[runs].step[s] \in Unbegun => run.step[s] \in Unbegun
        /\ execution # None => run.step = copy[runs].step /\ run.state = "canceling"
    BY <1>5, <2>1, CallWritesRun
  <2>3. RunningIsHeld'
    BY <1>1, <1>2, <1>3, <1>5, <2>1, <2>2 DEF CopyAgrees, RunningIsHeld, Varies
  <2>4. ExecutorsAgree'
    BY <1>1, <1>2, <2>1, <2>2, NoneIsNoCall DEF CopyAgrees, ExecutorsAgree, Phase3
  <2>5. OpenWhileLive'
    BY <1>1, <1>2, <2>1, <2>2, NoneIsNoCall DEF CopyAgrees, OpenWhileLive, Live
  <2>6. AheadIsUnbegun'
    BY <1>1, <1>2, <2>1, <2>2, NoneIsNoCall DEF CopyAgrees, AheadIsUnbegun, Ahead, Live, Sequential, Varies
  <2>7. ReadIsAtRest'
    BY <1>1, <1>5 DEF Shape, CallsShape, CallShape, Reading, ReadIsAtRest, OneCall
  <2>8. ASSUME NEW d \in Calls, Launching(d)'
        PROVE  \A s \in DOMAIN run.step : run.step[s] \in Unbegun
    <3>1. CASE d # c
      <4>1. Launching(d)
        BY <1>1, <2>8, <3>1 DEF OneCall, Launching
      <4> QED BY <2>2, <4>1 DEF CopyAgrees, LaunchIsFresh, Varies
    <3>2. CASE d = c
      BY <2>8, <3>2, CallWritesRun
    <3> QED BY <3>1, <3>2
  <2>9. LaunchIsFresh'
    BY <1>1, <2>8 DEF LaunchIsFresh
  <2> QED BY <2>3, <2>4, <2>5, <2>6, <2>7, <2>9 DEF CopyAgrees
<1> QED BY <1>4, <1>5

LEMMA LaunchAgrees ==
    ASSUME Shape, CopyAgrees, NEW c \in Calls, LaunchStep(c)
    PROVE  CopyAgrees'
<1> DEFINE run == WithState(copy[runs], "running")
<1>1. /\ runs' = runs /\ runs \in Calls /\ runs # None /\ copy[runs] \in Runs
      /\ copy' = [copy EXCEPT ![runs] = run] /\ copy'[runs'] = run
      /\ run.step = copy[runs].step /\ run.state = "running" /\ run.def = copy[runs].def
      /\ execution = None /\ execution' = c
      /\ OneCall(c) /\ OneExecution(c) /\ exec'[c].pc = "launched" /\ call'[c].pc = "done"
      /\ \A e \in Calls, s \in Steps : executor'[e][s].phase = executor[e][s].phase
      /\ Launching(c)
  BY WithStateIs, NoneIsNoCall DEF LaunchStep, SamePhases, Shape, TypeOK, Varies, RunStates, Launching
<1>2. \A s \in DOMAIN run.step : run.step[s] \in Unbegun
  BY <1>1 DEF CopyAgrees, LaunchIsFresh
<1>3. \A e \in Calls : ~Live(e) /\ Quiet(e)
  BY <1>1, NoneIsNoCall DEF Shape, ExecutionShape, ExecShape
<1> HIDE DEF run
<1>4. RunningIsHeld'
  BY <1>1, <1>2 DEF RunningIsHeld, Unbegun
<1>5. ExecutorsAgree'
  BY <1>1, <1>3 DEF ExecutorsAgree, Quiet, Phase3
<1>6. OpenWhileLive'
  BY <1>1, <1>3 DEF OpenWhileLive, Live, OneExecution
<1>7. ReadIsAtRest'
  BY <1>1 DEF Shape, CallsShape, CallShape, Reading, ReadIsAtRest, OneCall
<1>8. LaunchIsFresh'
  BY <1>1, <1>2 DEF LaunchIsFresh
<1>9. AheadIsUnbegun'
  BY <1>1, <1>2 DEF AheadIsUnbegun
<1> QED BY <1>4, <1>5, <1>6, <1>7, <1>8, <1>9 DEF CopyAgrees

(* A step that leaves memory and executors alone.                          *)
LEMMA RestAgrees ==
    ASSUME Shape, CopyAgrees, UNCHANGED <<runs, copy, execution, exec, executor>>,
           \A c \in Calls : call'[c].pc \in {"rewriting", "loaded"} => call[c].pc \in {"rewriting", "loaded"},
           \A c \in Calls : Launching(c)' => Launching(c)
    PROVE  CopyAgrees'
<1>1. RunningIsHeld' /\ ExecutorsAgree' /\ OpenWhileLive' /\ AheadIsUnbegun'
  BY DEF CopyAgrees, RunningIsHeld, ExecutorsAgree, OpenWhileLive, AheadIsUnbegun, Live, Ahead
<1>2. ReadIsAtRest' /\ LaunchIsFresh'
  BY DEF CopyAgrees, ReadIsAtRest, LaunchIsFresh
<1> QED BY <1>1, <1>2 DEF CopyAgrees

LEMMA ReadAgrees ==
    ASSUME Shape, CopyAgrees, NEW c \in Calls, ReadStep(c), file # None => RunningIsOpen(file)
    PROVE  CopyAgrees'
<1>1. /\ UNCHANGED <<runs, execution, exec, executor>> /\ OneCall(c) /\ runs = None /\ execution = None
      /\ copy' = [copy EXCEPT ![c] = IF file = None THEN None ELSE Loaded(file)]
      /\ call'[c].pc \in {"rewriting", "loaded"}
  BY DEF ReadStep, executions
<1>2. copy'[c] = (IF file = None THEN None ELSE Loaded(file)) /\ (file # None => file \in Runs)
  BY <1>1 DEF Shape, TypeOK
<1>3. file # None => ~HasRunning(Loaded(file))
  BY <1>2, LoadedIs DEF RunningIsOpen, HasRunning, Varies
<1>4. RunningIsHeld'
  BY <1>1 DEF RunningIsHeld
<1>5. \A e \in Calls : ~Live(e) /\ Quiet(e)
  BY <1>1, NoneIsNoCall DEF Shape, ExecutionShape, ExecShape
<1>6. ExecutorsAgree' /\ OpenWhileLive' /\ AheadIsUnbegun'
  BY <1>1, <1>5 DEF ExecutorsAgree, OpenWhileLive, AheadIsUnbegun, Live, Quiet, Phase3
<1>7. ReadIsAtRest'
  BY <1>1, <1>2, <1>3 DEF CopyAgrees, ReadIsAtRest, OneCall
<1>8. LaunchIsFresh'
  BY <1>1 DEF Shape, CallsShape, CallShape, LaunchIsFresh, OneCall, Launching
<1> QED BY <1>4, <1>6, <1>7, <1>8 DEF CopyAgrees

(* It is enough to look at the execution that is at work.                  *)
HoldsFor(e) ==
    /\ \A s \in DOMAIN copy[runs].step :
          copy[runs].step[s] = "running" => executor[e][s].phase \in Phase3
    /\ \A s \in Steps :
          /\ executor[e][s].phase \in Phase3 => copy[runs].step[s] = "running"
          /\ executor[e][s].phase = "closing" => copy[runs].step[s] \in TERMINAL_STEP_STATES
    /\ exec[e].pc # "ending" => copy[runs].state \in {"running", "canceling"}
    /\ Sequential(copy[runs]) =>
          \A s \in DOMAIN copy[runs].step : Ahead(e, s) => copy[runs].step[s] \in Unbegun

LEMMA HoldsNow ==
    ASSUME Shape, CopyAgrees, NEW e \in Calls, AtWork(e)
    PROVE  /\ HoldsFor(e) /\ Live(e) /\ ExecShape(e) /\ runs # None /\ runs \in Calls
           /\ copy[runs] \in Runs /\ DOMAIN copy[runs].step \subseteq Steps
<1>1. Live(e)
  BY DEF Shape, ExecutionShape, ExecShape, AtWork
<1>2. /\ execution = e /\ runs # None /\ execution # None /\ runs \in Calls
      /\ copy[runs] \in Runs /\ DOMAIN copy[runs].step \subseteq Steps
  BY <1>1, LiveIs, NoneIsNoCall
<1>3. HoldsFor(e)
  BY <1>1, <1>2 DEF CopyAgrees, RunningIsHeld, ExecutorsAgree, OpenWhileLive, AheadIsUnbegun, HoldsFor
<1> QED BY <1>1, <1>2, <1>3 DEF Shape, ExecutionShape

LEMMA AtWorkAgrees ==
    ASSUME Shape, Shape', CopyAgrees, NEW e \in Calls, AtWork(e), HoldsFor(e)'
    PROVE  CopyAgrees'
<1>1. /\ execution = e /\ UNCHANGED <<runs, call, execution>> /\ runs # None /\ e # None
  BY HoldsNow, NoneIsNoCall DEF AtWork
<1>2. /\ \A d \in Calls : ~Launching(d) /\ ~Reading(d)
  BY <1>1 DEF Shape, CallsShape, CallShape
<1>3. ReadIsAtRest' /\ LaunchIsFresh'
  BY <1>1, <1>2 DEF Reading, ReadIsAtRest, LaunchIsFresh, Launching
<1>4. \A d \in Calls \ {e} : ~Live(d)' /\ Quiet(d)'
  BY <1>1 DEF Shape, ExecutionShape, ExecShape
<1>5. RunningIsHeld'
  BY <1>1 DEF HoldsFor, RunningIsHeld
<1>6. ExecutorsAgree'
  BY <1>4 DEF HoldsFor, ExecutorsAgree, Quiet, Phase3
<1>7. OpenWhileLive'
  BY <1>4 DEF HoldsFor, OpenWhileLive
<1>8. AheadIsUnbegun'
  BY <1>4 DEF HoldsFor, AheadIsUnbegun
<1> QED BY <1>3, <1>5, <1>6, <1>7, <1>8 DEF CopyAgrees

LEMMA LoopGoesAgrees ==
    ASSUME Shape, Shape', CopyAgrees, NEW e \in Calls, LoopGoes(e)
    PROVE  CopyAgrees'
<1>1. AtWork(e) /\ Loops(e) /\ SamePhases /\ UNCHANGED <<runs, copy>> /\ exec[e].pc # "ending"
  BY DEF LoopGoes, Loops, AtWork
<1>2. HoldsFor(e) /\ ExecShape(e) /\ DOMAIN copy[runs].step \subseteq Nat /\ exec[e].index \in Nat
  BY <1>1, HoldsNow, StepsAreNumbers DEF Shape, TypeOK, ExecutionRecords
<1>3. Sequential(copy[runs]) => exec[e].pc = "stepped" /\ exec'[e].pc = "turn"
                                /\ exec'[e].index = exec[e].index + 1
  BY DEF LoopGoes
<1>4. ASSUME NEW s \in DOMAIN copy[runs].step, Sequential(copy[runs]), Ahead(e, s)'
      PROVE  copy[runs].step[s] \in Unbegun
  <2>1. s >= exec[e].index + 1 /\ s \in Nat
    BY <1>2, <1>3, <1>4 DEF Ahead
  <2>2. s > exec[e].index
    BY <1>2, <2>1
  <2> QED BY <1>2, <1>3, <1>4, <2>2 DEF HoldsFor, Ahead
<1>5. \A s \in Steps : executor'[e][s].phase = executor[e][s].phase
  BY <1>1 DEF SamePhases
<1>6. DOMAIN copy[runs].step \subseteq Steps /\ copy'[runs'] = copy[runs]
  BY <1>1, HoldsNow
<1>7. HoldsFor(e)'
  BY <1>1, <1>2, <1>4, <1>5, <1>6 DEF HoldsFor
<1> QED BY <1>1, <1>7, AtWorkAgrees

LEMMA LoopEndsAgrees ==
    ASSUME Shape, Shape', CopyAgrees, NEW e \in Calls, NEW run, LoopEnds(e, run)
    PROVE  CopyAgrees'
<1>1. AtWork(e) /\ Loops(e) /\ SamePhases /\ runs' = runs /\ Becomes(run, Loop(e)) /\ Quiet(e)
      /\ exec'[e].pc = "ending"
  BY DEF LoopEnds, Loops, AtWork
<1>2. HoldsFor(e) /\ runs \in Calls /\ copy[runs] \in Runs /\ DOMAIN copy[runs].step \subseteq Steps
  BY <1>1, HoldsNow
<1>3. copy'[runs] = run /\ DOMAIN run.step = DOMAIN copy[runs].step
  BY <1>1, <1>2, BecomesIs DEF Loop, Writers
<1>4. ~HasRunning(copy[runs])
  BY <1>1, <1>2 DEF HoldsFor, HasRunning, Quiet, Phase3
<1>5. ~HasRunning(run)
  BY <1>2, <1>4, FinalizedIs, VerdictIs, WithStateIs DEF LoopEnds, HasRunning, Varies, RunStates
<1>6. HoldsFor(e)'
  BY <1>1, <1>3, <1>5 DEF HoldsFor, HasRunning, SamePhases, Quiet, Ahead, Phase3
<1> QED BY <1>1, <1>6, AtWorkAgrees

LEMMA LoopSkipsAgrees ==
    ASSUME Shape, Shape', CopyAgrees, NEW e \in Calls, NEW B, NEW run, LoopSkips(e, B, run)
    PROVE  CopyAgrees'
<1>1. AtWork(e) /\ Loops(e) /\ SamePhases /\ runs' = runs /\ Becomes(run, Loop(e))
      /\ exec[e].pc # "ending"
  BY DEF LoopSkips, Loops, AtWork
<1>2. HoldsFor(e) /\ runs \in Calls /\ copy[runs] \in Runs /\ DOMAIN copy[runs].step \subseteq Steps
  BY <1>1, HoldsNow
<1>3. copy'[runs] = run /\ DOMAIN run.step = DOMAIN copy[runs].step
      /\ Sequential(run) = Sequential(copy[runs])
  BY <1>1, <1>2, BecomesIs DEF Loop, Writers
<1>4. /\ run.state = copy[runs].state
      /\ \A s \in DOMAIN copy[runs].step :
            run.step[s] = IF s \in B THEN "skipped" ELSE copy[runs].step[s]
      /\ \A s \in B : s \in DOMAIN copy[runs].step /\ copy[runs].step[s] = "pending"
  BY <1>2, MarkedIs DEF LoopSkips, StepStates
<1>5. Sequential(copy[runs]) => exec'[e].pc = "return"
  BY DEF LoopSkips
<1>6. "skipped" \in TERMINAL_STEP_STATES
  BY DEF TERMINAL_STEP_STATES, StepStates
<1>7. \A s \in Steps : /\ executor'[e][s].phase = executor[e][s].phase
                       /\ executor[e][s].phase # "idle" => s \in DOMAIN copy[runs].step
  BY <1>1, HoldsNow DEF SamePhases, ExecShape
<1>8. /\ \A s \in DOMAIN run.step : run.step[s] = "running" => executor'[e][s].phase \in Phase3
      /\ \A s \in Steps : /\ executor'[e][s].phase \in Phase3 => run.step[s] = "running"
                          /\ executor'[e][s].phase = "closing" => run.step[s] \in TERMINAL_STEP_STATES
  BY <1>2, <1>3, <1>4, <1>6, <1>7 DEF HoldsFor, Phase3
<1>9. run.state \in {"running", "canceling"}
  BY <1>1, <1>2, <1>4 DEF HoldsFor
<1>10. HoldsFor(e)'
  BY <1>1, <1>3, <1>5, <1>8, <1>9 DEF HoldsFor, Ahead
<1> QED BY <1>1, <1>10, AtWorkAgrees

(* Steps that start are running in the copy and marking as executors.      *)
LEMMA StartsAgrees ==
    ASSUME Shape, Shape', CopyAgrees, NEW e \in Calls, NEW S, NEW run,
           \/ \E s \in S : S = {s} /\ StartsStep(e, s, run)
           \/ StartsSteps(e, S, run)
    PROVE  CopyAgrees'
<1>1. LoopStarts(e, S, run) /\ Loops(e) /\ AtWork(e) /\ runs' = runs /\ exec[e].pc # "ending"
  BY DEF StartsStep, StartsSteps, LoopStarts, Loops, AtWork
<1>2. HoldsFor(e) /\ runs \in Calls /\ copy[runs] \in Runs /\ DOMAIN copy[runs].step \subseteq Steps
      /\ ExecShape(e)
  BY <1>1, HoldsNow
<1>3. /\ copy'[runs] = run /\ run.state = copy[runs].state /\ Sequential(run) = Sequential(copy[runs])
      /\ DOMAIN run.step = DOMAIN copy[runs].step /\ S \subseteq DOMAIN copy[runs].step
      /\ \A s \in DOMAIN copy[runs].step :
            run.step[s] = IF s \in S THEN "running" ELSE copy[runs].step[s]
  BY <1>1, <1>2, MarkedIs DEF LoopStarts, Shape, TypeOK, Varies, Sequential, StepStates
<1>4. \A s \in Steps : /\ s \in S => executor'[e][s].phase = "marking"
                       /\ s \notin S => executor'[e][s].phase = executor[e][s].phase
                       /\ executor[e][s].phase # "idle" => s \in DOMAIN copy[runs].step
  BY <1>1, <1>2 DEF LoopStarts, PhasesBut, ExecShape
<1>5. /\ \A s \in DOMAIN run.step : run.step[s] = "running" => executor'[e][s].phase \in Phase3
      /\ \A s \in Steps : /\ executor'[e][s].phase \in Phase3 => run.step[s] = "running"
                          /\ executor'[e][s].phase = "closing" => run.step[s] \in TERMINAL_STEP_STATES
  BY <1>2, <1>3, <1>4 DEF HoldsFor, Phase3
<1>6. run.state \in {"running", "canceling"}
  BY <1>1, <1>2, <1>3 DEF HoldsFor
<1>7. ASSUME NEW s \in DOMAIN run.step, Sequential(run), Ahead(e, s)'
      PROVE  run.step[s] \in Unbegun
  <2>1. PICK t \in S : S = {t} /\ StartsStep(e, t, run)
    BY <1>3, <1>7 DEF StartsSteps
  <2>2. /\ exec'[e].pc = "stepping" /\ exec'[e].index = t /\ t >= exec[e].index
        /\ exec[e].pc \in {"launched", "turn"}
    BY <2>1 DEF StartsStep
  <2>3. s \in Nat /\ t \in Nat /\ exec[e].index \in Nat
    BY <1>2, <1>3, StepsAreNumbers DEF Shape, TypeOK, ExecutionRecords
  <2>4. s > t /\ s >= exec[e].index
    BY <1>7, <2>2, <2>3 DEF Ahead
  <2>5. Ahead(e, s) /\ s \notin S
    BY <2>1, <2>2, <2>3, <2>4 DEF Ahead
  <2> QED BY <1>2, <1>3, <1>7, <2>5 DEF HoldsFor
<1>8. HoldsFor(e)'
  BY <1>1, <1>3, <1>5, <1>6, <1>7 DEF HoldsFor
<1> QED BY <1>1, <1>8, AtWorkAgrees

LEMMA ExecutorAgrees ==
    ASSUME Shape, Shape', CopyAgrees, NEW e \in Calls, NEW s \in Steps, ExecutorStep(e, s)
    PROVE  CopyAgrees'
<1>1. AtWork(e) /\ PhasesBut(e, {s}) /\ runs' = runs
  BY DEF ExecutorStep, ExecutorGoes, ExecutorReturns, ExecutorSettles, AtWork
<1>2. HoldsFor(e) /\ runs \in Calls /\ copy[runs] \in Runs /\ DOMAIN copy[runs].step \subseteq Steps
      /\ ExecShape(e)
  BY <1>1, HoldsNow
<1>3. /\ executor[e][s].phase # "idle" /\ s \in DOMAIN copy[runs].step /\ exec[e].pc # "ending"
      /\ Sequential(copy[runs]) => exec[e].pc = "stepping" /\ s = exec[e].index
  BY <1>2 DEF ExecutorStep, ExecutorGoes, ExecutorReturns, ExecutorSettles, ExecShape, Quiet
<1>4. \A t \in Steps \ {s} : executor'[e][t].phase = executor[e][t].phase
  BY <1>1 DEF PhasesBut
<1>5. CASE ExecutorGoes(e, s) \/ ExecutorReturns(e, s)
  <2>1. /\ executor[e][s].phase \in Phase3 <=> executor'[e][s].phase \in Phase3
        /\ executor'[e][s].phase # "closing" /\ UNCHANGED copy /\ exec'[e].index = exec[e].index
        /\ \/ exec'[e].pc = exec[e].pc
           \/ exec[e].pc = "stepping" /\ exec'[e].pc = "stepped"
           \/ exec[e].pc = "racing" /\ exec'[e].pc = "turn"
    BY <1>5 DEF ExecutorGoes, ExecutorReturns, Phase3
  <2>2. \A t \in Steps : /\ executor'[e][t].phase \in Phase3 <=> executor[e][t].phase \in Phase3
                         /\ executor'[e][t].phase = "closing" => executor[e][t].phase = "closing"
    BY <1>4, <2>1
  <2>3. Sequential(copy[runs]) => \A t \in DOMAIN copy[runs].step : Ahead(e, t)' => Ahead(e, t)
    BY <1>3, <2>1 DEF Ahead
  <2>4. HoldsFor(e)'
    BY <1>1, <1>2, <1>3, <2>1, <2>2, <2>3 DEF HoldsFor
  <2> QED BY <1>1, <2>4, AtWorkAgrees
<1>6. ASSUME NEW outcome, NEW run, ExecutorSettles(e, s, outcome, run)
      PROVE  CopyAgrees'
  <2>1. /\ copy'[runs] = run /\ DOMAIN run.step = DOMAIN copy[runs].step
        /\ Sequential(run) = Sequential(copy[runs])
    BY <1>2, <1>6, BecomesIs DEF ExecutorSettles, Worker, Writers
  <2>2. /\ run.state = copy[runs].state /\ run.step = [copy[runs].step EXCEPT ![s] = outcome]
        /\ outcome \in TERMINAL_STEP_STATES /\ outcome # "running"
        /\ executor'[e][s].phase = "closing" /\ exec' = exec
    <3>1. /\ run = WithStep(copy[runs], s, outcome)
          /\ outcome \in {"succeeded", "failed", "canceled", "interrupted"}
          /\ executor'[e][s].phase = "closing" /\ exec' = exec
      BY <1>6 DEF ExecutorSettles
    <3>2. outcome \in StepStates /\ outcome \in TERMINAL_STEP_STATES /\ outcome # "running"
      BY <3>1 DEF StepStates, TERMINAL_STEP_STATES
    <3> QED BY <1>2, <1>3, <3>1, <3>2, WithStepIs
  <2>3. copy[runs].step \in [DOMAIN copy[runs].step -> StepStates]
    BY <1>2, RunForm
  <2>4. \A t \in DOMAIN copy[runs].step : run.step[t] = IF t = s THEN outcome ELSE copy[runs].step[t]
    BY <1>3, <2>2, <2>3
  <2>5. \A t \in Steps : executor[e][t].phase # "idle" => t \in DOMAIN copy[runs].step
    BY <1>2 DEF ExecShape
  <2>6. /\ \A t \in DOMAIN run.step : run.step[t] = "running" => executor'[e][t].phase \in Phase3
        /\ \A t \in Steps : /\ executor'[e][t].phase \in Phase3 => run.step[t] = "running"
                            /\ executor'[e][t].phase = "closing" => run.step[t] \in TERMINAL_STEP_STATES
    BY <1>2, <1>3, <1>4, <2>1, <2>2, <2>4, <2>5 DEF HoldsFor, Phase3
  <2>7. Sequential(run) => \A t \in DOMAIN run.step : Ahead(e, t)' => t # s /\ Ahead(e, t)
    <3>1. s \in Nat
      BY StepsAreNumbers
    <3> QED BY <1>3, <2>1, <2>2, <3>1 DEF Ahead
  <2>8. HoldsFor(e)'
    BY <1>1, <1>2, <1>3, <2>1, <2>2, <2>4, <2>6, <2>7 DEF HoldsFor
  <2> QED BY <1>1, <2>8, AtWorkAgrees
<1> QED BY <1>5, <1>6 DEF ExecutorStep

LEMMA CloseAgrees ==
    ASSUME Shape, CopyAgrees, NEW e \in Calls, CloseStep(e)
    PROVE  CopyAgrees'
<1>1. /\ UNCHANGED <<runs, copy, call>> /\ execution = e /\ execution' = None
      /\ exec[e].pc = "ending" /\ exec'[e].pc = "ended"
      /\ \A d \in Calls, s \in Steps : executor'[d][s].phase = executor[d][s].phase
      /\ \A d \in Calls \ {e} : exec'[d] = exec[d]
  BY DEF CloseStep, SamePhases, OneExecution
<1>2. \A d \in Calls : Quiet(d) /\ (d # e => ~Live(d)) /\ runs # None
  BY <1>1, NoneIsNoCall DEF Shape, ExecutionShape, ExecShape
<1>3. runs # None => runs \in Calls /\ DOMAIN copy[runs].step \subseteq Steps
  BY RunForm DEF Shape, TypeOK
<1>4. RunningIsHeld'
  BY <1>1, <1>2, <1>3 DEF CopyAgrees, RunningIsHeld, Quiet, Phase3
<1>5. ExecutorsAgree'
  BY <1>1, <1>2 DEF ExecutorsAgree, Quiet, Phase3
<1>6. OpenWhileLive' /\ AheadIsUnbegun'
  BY <1>1, <1>2 DEF OpenWhileLive, AheadIsUnbegun, Live
<1>7. ReadIsAtRest' /\ LaunchIsFresh'
  BY <1>1 DEF CopyAgrees, ReadIsAtRest, LaunchIsFresh, Launching
<1> QED BY <1>4, <1>5, <1>6, <1>7 DEF CopyAgrees

(* After a crash there is no copy, and no executor.                        *)
LEMMA CrashAgrees ==
    ASSUME CrashStep
    PROVE  CopyAgrees'
<1>1. RunningIsHeld' /\ ExecutorsAgree' /\ OpenWhileLive'
  BY DEF CrashStep, RunningIsHeld, ExecutorsAgree, OpenWhileLive, Live, Phase3
<1>2. ReadIsAtRest' /\ LaunchIsFresh' /\ AheadIsUnbegun'
  BY DEF CrashStep, ReadIsAtRest, LaunchIsFresh, AheadIsUnbegun, Live, Launching
<1> QED BY <1>1, <1>2 DEF CopyAgrees

(* Every effect keeps the agreement of the copy in memory with the         *)
(* executors.                                                              *)
LEMMA CopyAgreesStep ==
    ASSUME Shape, Shape', CopyAgrees, RecordsFollow, Effect
    PROVE  CopyAgrees'
<1>1. ASSUME NEW c \in Calls, CallTurn(c)
      PROVE  CopyAgrees'
  <2>1. CASE RewriteStep(c) \/ BeginStep(c)
    <3>1. UNCHANGED <<runs, copy, execution, exec, executor>> /\ OneCall(c)
      BY <2>1 DEF RewriteStep, BeginStep, memory
    <3>2. \/ call[c].pc = "rewriting" /\ call'[c].pc = "loaded"
          \/ call'[c].pc = "begun"
      BY <2>1 DEF RewriteStep, BeginStep
    <3> QED BY <3>1, <3>2, RestAgrees DEF OneCall, Launching
  <2>2. CASE ReadStep(c)
    <3>1. file # None => RunningIsOpen(file)
      <4>1. Len(writes) \in Nat
        BY DEF Shape, TypeOK
      <4>2. 0 \in Positions
        BY <4>1 DEF Positions
      <4> QED BY <4>2 DEF RecordsFollow, Rec
    <3> QED BY <2>2, <3>1, ReadAgrees
  <2> QED BY <1>1, <2>1, <2>2, CallStepAgrees, CallWritesAgrees, LaunchAgrees DEF CallTurn
<1>2. ASSUME NEW e \in Calls, LoopTurn(e)
      PROVE  CopyAgrees'
  <2>1. ASSUME NEW s \in Steps, NEW run, StartsStep(e, s, run)
        PROVE  CopyAgrees'
    BY <2>1, StartsAgrees
  <2>2. ASSUME NEW S, NEW run, StartsSteps(e, S, run)
        PROVE  CopyAgrees'
    BY <2>2, StartsAgrees
  <2>3. CASE \/ LoopGoes(e) \/ CloseStep(e)
             \/ \E run : LoopEnds(e, run)
             \/ \E B, run : LoopSkips(e, B, run)
    BY <2>3, LoopGoesAgrees, CloseAgrees, LoopEndsAgrees, LoopSkipsAgrees
  <2> QED BY <1>2, <2>1, <2>2, <2>3 DEF LoopTurn
<1>3. ASSUME NEW e \in Calls, NEW s \in Steps, ExecutorStep(e, s)
      PROVE  CopyAgrees'
  BY <1>3, ExecutorAgrees
<1>4. CASE WriteStep
  BY <1>4, RestAgrees DEF WriteStep, memory, Launching
<1>5. CASE CrashStep
  BY <1>5, CrashAgrees
<1>6. CASE AcceptStep
  BY <1>6, RestAgrees DEF AcceptStep, Launching
<1> QED BY <1>1, <1>2, <1>3, <1>4, <1>5, <1>6 DEF Effect

-----------------------------------------------------------------------------
(* One more write: the records before it keep their positions.             *)
LEMMA OneWriteIs ==
    ASSUME Shape, NEW run, NEW w, file' = file, writes' = Append(writes, [run |-> run, by |-> w]),
           NEW n, n = Len(writes) + 1
    PROVE  /\ Len(writes) \in Nat /\ Len(writes') = n /\ n \in Nat \ {0}
           /\ Positions' = Positions \union {n} /\ n \notin Positions /\ Len(writes) \in Positions
           /\ \A i \in Positions : Rec(i)' = Rec(i) /\ (i # 0 => By(i)' = By(i))
           /\ Rec(n)' = run /\ By(n)' = w
<1>1. /\ Len(writes) \in Nat /\ Len(writes') = n
      /\ \A i \in 1 .. Len(writes) : writes'[i] = writes[i]
      /\ writes'[n] = [run |-> run, by |-> w]
  BY AppendIs DEF Shape, TypeOK
<1>2. 0 .. n = (0 .. Len(writes)) \union {n}
  BY <1>1
<1> QED BY <1>1, <1>2 DEF Positions, Rec, By

(* A write that follows the last record extends what follows.              *)
LEMMA OneWriteFollows ==
    ASSUME Shape, RecordsFollow, NEW run, NEW w, OneWrite(run, w)
    PROVE  RecordsFollow'
<1>1. PICK k : k = Len(writes) + 1
  OBVIOUS
<1>2. /\ Len(writes) \in Nat /\ Len(writes') = k /\ k \in Nat \ {0}
      /\ Positions' = Positions \union {k} /\ k \notin Positions /\ Len(writes) \in Positions
      /\ \A i \in Positions : Rec(i)' = Rec(i)
      /\ Rec(k)' = run
  BY <1>1, OneWriteIs DEF OneWrite
<1>3. \A i \in Positions : i \in Int /\ (i + 1 \in Positions \/ i = Len(writes))
  BY <1>2 DEF Positions
<1>4. copy'[runs'] = run /\ run # None
  BY NoneIsNoCall DEF OneWrite
<1>5. copy'[runs'] = Rec(Len(writes))'
  BY <1>2, <1>4 DEF Rec
<1>6. ASSUME NEW i \in Positions', i + 1 \in Positions', Rec(i)' # None
      PROVE  Follows(Rec(i)', Rec(i + 1)')
  <2>1. CASE i + 1 \in Positions
    <3>1. i \in Positions
      BY <1>2, <2>1 DEF Positions
    <3>2. Rec(i)' = Rec(i) /\ Rec(i + 1)' = Rec(i + 1)
      BY <1>2, <2>1, <3>1
    <3> QED BY <1>6, <2>1, <3>1, <3>2 DEF RecordsFollow
  <2>2. CASE i + 1 = k
    <3>1. i = Len(writes)
      BY <1>1, <1>2, <2>2, <1>6 DEF Positions
    <3>2. Rec(i)' = Rec(i) /\ Rec(i + 1)' = run
      BY <1>2, <2>2, <3>1
    <3> QED BY <1>6, <3>1, <3>2 DEF OneWrite
  <2> QED BY <1>2, <1>6, <2>1, <2>2
<1>7. ASSUME NEW i \in Positions', Rec(i)' # None
      PROVE  RunningIsOpen(Rec(i)') /\ Rec(i)'.def = run.def
  BY <1>2, <1>7 DEF RecordsFollow, OneWrite
<1>8. ASSUME NEW i \in Positions', Rec(i)' # None
      PROVE  RunningIsOpen(Rec(i))'
  BY <1>7, <1>8 DEF RunningIsOpen, HasRunning
<1>9. ASSUME NEW i \in Positions', i + 1 \in Positions', Rec(i)' # None
      PROVE  Follows(Rec(i), Rec(i + 1))'
  BY <1>6, <1>9 DEF Follows
<1> QED BY <1>4, <1>5, <1>7, <1>8, <1>9 DEF RecordsFollow

(* The turn of a graph adds the writes of its executors and its own.       *)
LEMMA ManyWritesIs ==
    ASSUME Shape, NEW e \in Calls, NEW S, NEW run, StartsSteps(e, S, run)
    PROVE  \E n, m : ManyWrites(e, S, n, m)
<1> DEFINE r == copy[runs]
<1>1. /\ file' = file /\ runs \in Calls /\ r \in Runs
      /\ S \subseteq DOMAIN r.step /\ copy' = [copy EXCEPT ![runs] = run]
      /\ run = Marked(r, S, "running") /\ \A s \in S : r.step[s] = "pending"
  BY DEF StartsSteps, LoopStarts, Loops, AtWork
<1>2. PICK q \in Orders(S) :
         writes' = writes \o Append(StartWrites(e, r, q), [run |-> run, by |-> Loop(e)])
  BY DEF StartsSteps
<1>3. run \in Runs /\ copy'[runs] = run
  BY <1>1, MarkedIs DEF Varies, StepStates, Shape, TypeOK
<1> DEFINE n == Len(writes)
           m == Cardinality(S)
           new == writes \o Append(StartWrites(e, r, q), [run |-> run, by |-> Loop(e)])
<1>20. StartsAdded(e, r, S, q, run, new)
  BY <1>1, <1>3, StartsQueue
<1>12. /\ n \in Nat /\ m \in Nat /\ Len(new) = n + m + 1
       /\ \A i \in 1 .. n : new[i] = writes[i]
       /\ \A i \in 1 .. m : new[n + i] = [run |-> Marked(r, UpTo(q, i), "running"),
                                         by |-> Worker(e, q[i])]
       /\ new[n + m + 1] = [run |-> run, by |-> Loop(e)]
  BY <1>20 DEF StartsAdded
<1>13. writes' = new
  BY <1>2
<1> HIDE DEF new, n, m, r
<1>14. /\ \A i \in 1 .. m : /\ new[n + i].run = Marked(r, UpTo(q, i), "running")
                            /\ new[n + i].by = Worker(e, q[i])
       /\ new[n + m + 1].run = run /\ new[n + m + 1].by = Loop(e)
  <2>1. ASSUME NEW i \in 1 .. m
        PROVE  new[n + i].run = Marked(r, UpTo(q, i), "running") /\ new[n + i].by = Worker(e, q[i])
    <3>1. new[n + i] = [run |-> Marked(r, UpTo(q, i), "running"), by |-> Worker(e, q[i])]
      BY <1>12
    <3> QED BY <3>1
  <2>2. new[n + m + 1] = [run |-> run, by |-> Loop(e)]
    BY <1>12
  <2> QED BY <2>1, <2>2
<1>4. /\ n \in Nat /\ m \in Nat /\ Len(writes') = n + m + 1
      /\ \A i \in 1 .. n : writes'[i] = writes[i]
      /\ \A i \in 1 .. m : /\ writes'[n + i].run = Marked(r, UpTo(q, i), "running")
                           /\ writes'[n + i].by = Worker(e, q[i])
      /\ writes'[n + m + 1].run = run /\ writes'[n + m + 1].by = Loop(e)
  BY <1>12, <1>13, <1>14
<1>5. /\ q \in [1 .. m -> S] /\ \A i, j \in 1 .. m : q[i] = q[j] => i = j
  BY <1>1, StartWritesIs DEF r, m
<1>6. ASSUME NEW A, A \subseteq S
      PROVE  /\ Varies(Marked(r, A, "running"), r) /\ Marked(r, A, "running").state = r.state
             /\ \A s \in DOMAIN r.step :
                   IF s \in S THEN Marked(r, A, "running").step[s] \in {"pending", "running"}
                   ELSE Marked(r, A, "running").step[s] = r.step[s]
             /\ \A s \in A : Marked(r, A, "running").step[s] = "running"
  BY <1>1, <1>6, MarkedIs DEF StepStates
<1>7. ASSUME NEW i \in 1 .. m + 1
      PROVE  /\ Varies(writes'[n + i].run, r) /\ writes'[n + i].run.state = r.state
             /\ \A s \in DOMAIN r.step :
                   IF s \in S THEN writes'[n + i].run.step[s] \in {"pending", "running"}
                   ELSE writes'[n + i].run.step[s] = r.step[s]
  <2>1. CASE i \in 1 .. m
    <3>1. UpTo(q, i) \subseteq S
      BY <1>4, <1>5, <2>1 DEF UpTo
    <3>2. writes'[n + i].run = Marked(r, UpTo(q, i), "running")
      BY <1>4, <2>1
    <3> HIDE DEF UpTo
    <3> QED BY <1>6, <3>1, <3>2
  <2>2. CASE i = m + 1
    <3>1. writes'[n + i].run = Marked(r, S, "running")
      <4>1. n + i = n + m + 1
        BY <1>4, <2>2
      <4> QED BY <1>1, <1>4, <4>1
    <3> QED BY <1>6, <3>1
  <2> QED BY <1>4, <2>1, <2>2
<1>8. ASSUME NEW i \in 1 .. m
      PROVE  \E s \in S : /\ writes'[n + i].by = Worker(e, s)
                          /\ \A j \in i .. m + 1 : writes'[n + j].run.step[s] = "running"
  <2>1. q[i] \in S /\ writes'[n + i].by = Worker(e, q[i])
    BY <1>4, <1>5
  <2>2. ASSUME NEW j \in i .. m + 1
        PROVE  writes'[n + j].run.step[q[i]] = "running"
    <3>1. CASE j \in 1 .. m
      <4>1. q[i] \in UpTo(q, j) /\ UpTo(q, j) \subseteq S
        BY <1>4, <1>5, <3>1 DEF UpTo
      <4>2. writes'[n + j].run = Marked(r, UpTo(q, j), "running")
        BY <1>4, <3>1
      <4> QED BY <1>6, <4>1, <4>2
    <3>2. CASE j = m + 1
      <4>1. n + j = n + m + 1
        BY <1>4, <3>2
      <4>2. writes'[n + j].run = Marked(r, S, "running")
        BY <1>1, <1>4, <4>1
      <4> QED BY <1>6, <2>1, <4>2
    <3> QED BY <1>4, <3>1, <3>2
  <2> QED BY <2>1, <2>2
<1>9. ASSUME NEW i \in 1 .. m, NEW j \in 1 .. m, writes'[n + i].by = writes'[n + j].by
      PROVE  i = j
  <2>1. Worker(e, q[i]) = Worker(e, q[j])
    BY <1>4, <1>9
  <2>2. q[i] = q[j]
    BY <2>1 DEF Worker
  <2> QED BY <1>5, <2>2
<1>10. writes'[n + m + 1].run = copy'[runs] /\ writes'[n + m + 1].by = Loop(e)
  BY <1>3, <1>4
<1>11. ManyWrites(e, S, n, m)
  <2>1. n = Len(writes) /\ r = copy[runs]
    BY DEF n, r
  <2> QED BY <1>1, <1>4, <1>7, <1>8, <1>9, <1>10, <2>1 DEF ManyWrites
<1> QED BY <1>11

LEMMA ManyWritesFollow ==
    ASSUME Shape, CopyAgrees, RecordsFollow, NEW e \in Calls, NEW S, NEW run, StartsSteps(e, S, run)
    PROVE  RecordsFollow'
<1>1. PICK n, m : ManyWrites(e, S, n, m)
  BY ManyWritesIs
<1>2. /\ AtWork(e) /\ runs' = runs /\ \A s \in S : copy[runs].step[s] = "pending"
      /\ exec[e].pc # "ending" /\ S \subseteq DOMAIN copy[runs].step
  BY DEF StartsSteps, LoopStarts, Loops, AtWork
<1>3. /\ runs # None /\ runs \in Calls /\ copy[runs] \in Runs
      /\ copy[runs].state \in {"running", "canceling"}
  BY <1>2, HoldsNow DEF HoldsFor
<1> DEFINE r == copy[runs]
<1>4. /\ n \in Nat /\ m \in Nat /\ Len(writes) = n /\ Len(writes') = n + m + 1
      /\ Positions = 0 .. n /\ Positions' = 0 .. n + m + 1
      /\ \A i \in 0 .. n : Rec(i)' = Rec(i)
      /\ \A i \in 1 .. m + 1 : Rec(n + i)' = writes'[n + i].run
      /\ Rec(n) = r /\ r # None
  BY <1>1, <1>3, NoneIsNoCall DEF ManyWrites, Positions, Rec, RecordsFollow
<1>5. \A i \in 1 .. m + 1 :
          /\ Rec(n + i)' \in Runs /\ Rec(n + i)'.def = r.def /\ Rec(n + i)'.state = r.state
          /\ DOMAIN Rec(n + i)'.step = DOMAIN r.step
          /\ \A s \in DOMAIN r.step : Rec(n + i)'.step[s] = "succeeded" <=> r.step[s] = "succeeded"
  <2>1. ASSUME NEW i \in 1 .. m + 1
        PROVE  /\ Varies(writes'[n + i].run, r) /\ writes'[n + i].run.state = r.state
               /\ \A s \in DOMAIN r.step :
                     writes'[n + i].run.step[s] = "succeeded" <=> r.step[s] = "succeeded"
    BY <1>1, <1>2, ZenonT(60) DEF ManyWrites
  <2> QED BY <1>4, <2>1 DEF Varies
<1> HIDE DEF r
<1>6. ASSUME NEW i \in 0 .. n + m + 1
      PROVE  i \in 0 .. n \/ \E j \in 1 .. m + 1 : i = n + j
  <2>1. CASE i > n
    <3>1. i - n \in 1 .. m + 1 /\ i = n + (i - n)
      BY <1>4, <2>1
    <3> QED BY <3>1
  <2> QED BY <1>4, <2>1
<1>7. ASSUME NEW i \in n .. n + m + 1
      PROVE  /\ Rec(i)' # None /\ Rec(i)'.def = r.def /\ Rec(i)'.state = r.state
             /\ DOMAIN Rec(i)'.step = DOMAIN r.step
             /\ \A s \in DOMAIN r.step : Rec(i)'.step[s] = "succeeded" <=> r.step[s] = "succeeded"
  <2>1. CASE i = n
    BY <1>4, <2>1
  <2>2. CASE i # n
    <3>1. PICK j \in 1 .. m + 1 : i = n + j
      BY <1>4, <1>6, <2>2
    <3> QED BY <1>5, <3>1, NoneIsNoCall
  <2> QED BY <2>1, <2>2
<1>8. ASSUME NEW i \in 0 .. n + m + 1, i + 1 \in 0 .. n + m + 1, Rec(i)' # None
      PROVE  Follows(Rec(i), Rec(i + 1))'
  <2>1. CASE i < n
    <3>1. i \in Positions /\ i + 1 \in Positions /\ Rec(i)' = Rec(i) /\ Rec(i + 1)' = Rec(i + 1)
      BY <1>4, <1>8, <2>1
    <3>2. Follows(Rec(i), Rec(i + 1))
      BY <1>8, <3>1 DEF RecordsFollow
    <3> QED BY <3>1, <3>2 DEF Follows
  <2>2. CASE i >= n
    <3>1. i \in n .. n + m + 1 /\ i + 1 \in n .. n + m + 1
      BY <1>4, <1>8, <2>2
    <3> QED BY <1>7, <3>1 DEF Follows
  <2> QED BY <1>4, <2>1, <2>2
<1>9. ASSUME NEW i \in 0 .. n + m + 1, Rec(i)' # None
      PROVE  RunningIsOpen(Rec(i))' /\ Rec(i)'.def = r.def
  <2>1. CASE i \in 0 .. n
    BY <1>3, <1>4, <1>9, <2>1 DEF RecordsFollow, RunningIsOpen, HasRunning, r
  <2>2. CASE i \in n .. n + m + 1
    BY <1>3, <1>7, <2>2 DEF RunningIsOpen, HasRunning, r
  <2> QED BY <1>4, <2>1, <2>2
<1>10. /\ runs' # None /\ copy'[runs'].def = r.def
       /\ copy'[runs'] = Rec(Len(writes))'
  <2>1. copy'[runs] = writes'[n + m + 1].run
    BY <1>1 DEF ManyWrites
  <2>2. m + 1 \in 1 .. m + 1 /\ n + (m + 1) = n + m + 1
    BY <1>4
  <2>3. Rec(n + (m + 1))' = writes'[n + (m + 1)].run
    BY <1>4, <2>2
  <2>4. copy'[runs] = Rec(n + m + 1)'
    BY <2>1, <2>2, <2>3
  <2>5. n + m + 1 \in n .. n + m + 1 /\ n + m + 1 # 0
    BY <1>4
  <2>7. copy'[runs'] = Rec(Len(writes))'
    BY <1>2, <1>4, <2>1, <2>5 DEF Rec
  <2> QED BY <1>2, <1>3, <1>7, <2>4, <2>5, <2>7
<1> QED BY <1>4, <1>8, <1>9, <1>10 DEF RecordsFollow

(* The last record, in the queue or in the file, is the copy in memory.    *)
LEMMA LastIs ==
    ASSUME Shape, RecordsFollow
    PROVE  /\ Len(writes) \in Nat /\ Positions \subseteq Nat
           /\ 0 \in Positions /\ Len(writes) \in Positions
           /\ runs # None => /\ copy[runs] = Rec(Len(writes)) /\ copy[runs] \in Runs /\ copy[runs] # None
                             /\ \A i \in Positions : Rec(i) # None => Rec(i).def = copy[runs].def
           /\ runs = None => Positions = {0} /\ Len(writes) = 0 /\ writes = <<>> /\ Rec(0) = file
<1>1. Len(writes) \in Nat
  BY DEF Shape, TypeOK
<1>2. runs = None => writes = <<>>
  BY DEF Shape, ExecutionShape
<1>3. runs = None => Len(writes) = 0
  BY <1>2
<1>4. runs # None => copy[runs] \in Runs /\ copy[runs] # None
  BY DEF Shape, TypeOK
<1> QED BY <1>1, <1>2, <1>3, <1>4 DEF Positions, Rec, RecordsFollow

LEMMA BecomesOneWrite ==
    ASSUME Shape, RecordsFollow, NEW run, NEW w \in Writers, runs # None, runs' = runs, file' = file,
           Becomes(run, w), RunningIsOpen(run),
           \A s \in DOMAIN run.step : copy[runs].step[s] = "succeeded" => run.step[s] = "succeeded"
    PROVE  OneWrite(run, w)
<1>1. runs \in Calls /\ copy'[runs] = run /\ run \in Runs /\ run.def = copy[runs].def
      /\ DOMAIN run.step = DOMAIN copy[runs].step
  BY BecomesIs DEF Shape, TypeOK, Becomes, Varies
<1> QED BY <1>1, LastIs DEF OneWrite, Becomes, Follows

LEMMA WritingIs ==
    ASSUME Shape, Shape', CopyAgrees, RecordsFollow, NEW run, NEW w, Writing(run, w)
    PROVE  OneWrite(run, w)
<1>1. ASSUME NEW c \in Calls, CallWrites(c, run), w = Caller(c)
      PROVE  OneWrite(run, w)
  <2>1. /\ file' = file /\ runs' \in Calls /\ copy' = [copy EXCEPT ![runs'] = run] /\ run \in Runs
        /\ writes' = Append(writes, [run |-> run, by |-> Caller(c)])
        /\ IF runs = None THEN call[c].pc = "loaded" /\ runs' = c ELSE runs' = runs
    BY <1>1 DEF CallWrites
  <2>2. copy'[runs'] = run
    BY <2>1 DEF Shape, TypeOK
  <2>3. copy[runs'] = Rec(Len(writes))
    <3>1. call[c].pc = "loaded" => copy[c] = file
      BY DEF Shape, CallsShape, CallShape
    <3> QED BY <2>1, <3>1, LastIs
  <2>4. RunningIsOpen(run)
    BY <1>1, <2>1, CallWritesRun
  <2>5. copy[runs'] # None => Varies(run, copy[runs']) /\ Follows(copy[runs'], run)
    BY <1>1, <2>1, CallWritesRun, NoneIsNoCall DEF Varies, Follows
  <2>6. ASSUME NEW i \in Positions, Rec(i) # None
        PROVE  Rec(i).def = run.def
    <3>1. CASE runs = None
      BY <2>3, <2>5, <2>6, <3>1, LastIs DEF Varies
    <3>2. CASE runs # None
      BY <2>1, <2>5, <2>6, <3>2, LastIs DEF Varies
    <3> QED BY <3>1, <3>2
  <2> QED BY <1>1, <2>1, <2>2, <2>3, <2>4, <2>5, <2>6 DEF OneWrite
<1>2. ASSUME NEW c \in Calls, LaunchStep(c), w = Loop(c), run = WithState(copy[runs], "running")
      PROVE  OneWrite(run, w)
  <2>1. /\ runs' = runs /\ file' = file /\ runs \in Calls /\ runs # None /\ copy[runs] \in Runs
        /\ copy' = [copy EXCEPT ![runs] = run] /\ writes' = Append(writes, [run |-> run, by |-> w])
    BY <1>2, NoneIsNoCall DEF LaunchStep
  <2>2. Varies(run, copy[runs]) /\ run.state = "running" /\ run.step = copy[runs].step
    BY <1>2, <2>1, WithStateIs DEF RunStates
  <2>3. w \in Writers /\ Becomes(run, w)
    BY <1>2, <2>1, <2>2 DEF Becomes, Loop, Writers
  <2>4. RunningIsOpen(run)
    BY <2>2 DEF RunningIsOpen
  <2> QED BY <2>1, <2>2, <2>3, <2>4, BecomesOneWrite
<1>3. ASSUME NEW e \in Calls, LoopEnds(e, run), w = Loop(e)
      PROVE  OneWrite(run, w)
  <2>1. AtWork(e) /\ Becomes(run, w) /\ runs' = runs /\ file' = file /\ Quiet(e) /\ w \in Writers
    BY <1>3 DEF LoopEnds, Loops, AtWork, Loop, Writers
  <2>2. HoldsFor(e) /\ runs # None /\ copy[runs] \in Runs /\ DOMAIN copy[runs].step \subseteq Steps
    BY <2>1, HoldsNow
  <2>3. ~HasRunning(copy[runs])
    BY <2>1, <2>2 DEF HoldsFor, HasRunning, Quiet, Phase3
  <2>4. run \in {finalized(copy[runs]), verdict(copy[runs]), WithState(copy[runs], "failed")}
    BY <1>3 DEF LoopEnds
  <2>5. /\ ~HasRunning(run)
        /\ \A s \in DOMAIN run.step : copy[runs].step[s] = "succeeded" => run.step[s] = "succeeded"
    BY <2>2, <2>3, <2>4, FinalizedIs, VerdictIs, WithStateIs DEF HasRunning, Varies, RunStates
  <2> QED BY <2>1, <2>2, <2>5, BecomesOneWrite DEF RunningIsOpen
<1>4. ASSUME NEW e \in Calls, NEW B, LoopSkips(e, B, run), w = Loop(e)
      PROVE  OneWrite(run, w)
  <2>1. AtWork(e) /\ Becomes(run, w) /\ runs' = runs /\ file' = file /\ w \in Writers
        /\ exec[e].pc # "ending"
    BY <1>4 DEF LoopSkips, Loops, AtWork, Loop, Writers
  <2>2. HoldsFor(e) /\ runs # None /\ copy[runs] \in Runs
    BY <2>1, HoldsNow
  <2>3. /\ run.state = copy[runs].state /\ DOMAIN run.step = DOMAIN copy[runs].step
        /\ \A s \in DOMAIN run.step : copy[runs].step[s] = "succeeded" => run.step[s] = "succeeded"
    BY <1>4, <2>2, MarkedIs DEF LoopSkips, StepStates, Varies
  <2>4. RunningIsOpen(run)
    BY <2>1, <2>2, <2>3 DEF HoldsFor, RunningIsOpen
  <2> QED BY <2>1, <2>2, <2>3, <2>4, BecomesOneWrite
<1>5. ASSUME NEW e \in Calls, NEW s \in Steps, StartsStep(e, s, run), w = Worker(e, s)
      PROVE  OneWrite(run, w)
  <2>1. AtWork(e) /\ Becomes(run, w) /\ runs' = runs /\ file' = file /\ w \in Writers
        /\ exec[e].pc # "ending"
    BY <1>5 DEF StartsStep, LoopStarts, Loops, AtWork, Worker, Writers
  <2>2. HoldsFor(e) /\ runs # None /\ copy[runs] \in Runs
    BY <2>1, HoldsNow
  <2>3. /\ run.state = copy[runs].state /\ DOMAIN run.step = DOMAIN copy[runs].step
        /\ \A t \in DOMAIN run.step : copy[runs].step[t] = "succeeded" => run.step[t] = "succeeded"
    <3>1. run = Marked(copy[runs], {s}, "running") /\ copy[runs].step[s] # "succeeded"
      BY <1>5 DEF StartsStep, LoopStarts
    <3> QED BY <2>2, <3>1, MarkedIs DEF StepStates, Varies
  <2>4. RunningIsOpen(run)
    BY <2>1, <2>2, <2>3 DEF HoldsFor, RunningIsOpen
  <2> QED BY <2>1, <2>2, <2>3, <2>4, BecomesOneWrite
<1>6. ASSUME NEW e \in Calls, NEW s \in Steps, NEW outcome, ExecutorSettles(e, s, outcome, run),
             w = Worker(e, s)
      PROVE  OneWrite(run, w)
  <2>1. AtWork(e) /\ Becomes(run, w) /\ runs' = runs /\ file' = file /\ w \in Writers
        /\ executor[e][s].phase \in Phase3 /\ s \in DOMAIN copy[runs].step
        /\ run = WithStep(copy[runs], s, outcome) /\ outcome \in StepStates
    BY <1>6 DEF ExecutorSettles, AtWork, Worker, Writers, Phase3, StepStates
  <2>2. HoldsFor(e) /\ runs # None /\ copy[runs] \in Runs /\ ExecShape(e)
    BY <2>1, HoldsNow
  <2>3. /\ copy[runs].step[s] = "running" /\ exec[e].pc # "ending"
    BY <2>1, <2>2 DEF HoldsFor, ExecShape, Quiet, Phase3
  <2>4. copy[runs].step \in [DOMAIN copy[runs].step -> StepStates]
    BY <2>2, RunForm
  <2>5. /\ run.state = copy[runs].state /\ DOMAIN run.step = DOMAIN copy[runs].step
        /\ \A t \in DOMAIN run.step : copy[runs].step[t] = "succeeded" => run.step[t] = "succeeded"
    <3>1. /\ run.state = copy[runs].state /\ DOMAIN run.step = DOMAIN copy[runs].step
          /\ run.step = [copy[runs].step EXCEPT ![s] = outcome]
      BY <2>1, <2>2, WithStepIs DEF Varies
    <3> QED BY <2>3, <2>4, <3>1
  <2>6. RunningIsOpen(run)
    BY <2>2, <2>3, <2>5 DEF HoldsFor, RunningIsOpen
  <2>7. OneWrite(run, w)
    BY <2>1, <2>2, <2>5, <2>6, BecomesOneWrite
  <2> QED BY <2>7
<1> QED BY <1>1, <1>2, <1>3, <1>4, <1>5, <1>6 DEF Writing

(* For the queue there are six kinds of effects: one more write, the       *)
(* writes of a turn of a graph, none, the next write is made, a read run   *)
(* is rewritten, a crash.                                                  *)
LEMMA EffectIs ==
    ASSUME Effect
    PROVE  \/ \E run, w : Writing(run, w)
           \/ \E e \in Calls : \E S, run : StartsSteps(e, S, run)
           \/ Keeping \/ WriteStep \/ CrashStep \/ \E c \in Calls : RewriteStep(c)
<1>1. ASSUME NEW c \in Calls, CallTurn(c)
      PROVE  (\E run, w : Writing(run, w)) \/ Keeping \/ RewriteStep(c)
  BY <1>1 DEF CallTurn, Writing, Keeping
<1>2. ASSUME NEW e \in Calls, LoopTurn(e)
      PROVE  (\E run, w : Writing(run, w)) \/ Keeping \/ \E S, run : StartsSteps(e, S, run)
  BY <1>2 DEF LoopTurn, Writing, Keeping
<1>3. ASSUME NEW e \in Calls, NEW s \in Steps, ExecutorStep(e, s)
      PROVE  (\E run, w : Writing(run, w)) \/ Keeping
  BY <1>3 DEF ExecutorStep, Writing, Keeping
<1> QED BY <1>1, <1>2, <1>3 DEF Effect, Keeping

LEMMA KeepingIs ==
    ASSUME Shape, Keeping
    PROVE  /\ UNCHANGED <<file, writes, unknown>> /\ ready' \in {ready, None}
           /\ \/ runs' = runs /\ (runs # None => copy'[runs'] = copy[runs])
              \/ runs = None /\ runs' # None /\ copy'[runs'] = file /\ file # None
<1>1. ASSUME NEW c \in Calls, CallStep(c)
      PROVE  /\ UNCHANGED <<file, writes, unknown>> /\ ready' \in {ready, None}
             /\ \/ runs' = runs /\ (runs # None => copy'[runs'] = copy[runs])
                \/ runs = None /\ runs' # None /\ copy'[runs'] = file /\ file # None
  BY <1>1, NoneIsNoCall DEF CallStep, Shape, CallsShape, CallShape
<1>2. ASSUME NEW c \in Calls, ReadStep(c) \/ BeginStep(c)
      PROVE  /\ UNCHANGED <<file, writes, unknown>> /\ ready' \in {ready, None}
             /\ runs' = runs /\ (runs # None => copy'[runs'] = copy[runs])
  BY <1>2 DEF ReadStep, BeginStep, memory
<1>3. ASSUME NEW e \in Calls, LoopGoes(e) \/ CloseStep(e)
      PROVE  /\ UNCHANGED <<file, writes, unknown>> /\ ready' \in {ready, None}
             /\ runs' = runs /\ (runs # None => copy'[runs'] = copy[runs])
  BY <1>3 DEF LoopGoes, CloseStep, Loops, AtWork
<1>4. ASSUME NEW e \in Calls, NEW s \in Steps, ExecutorGoes(e, s) \/ ExecutorReturns(e, s)
      PROVE  /\ UNCHANGED <<file, writes, unknown>> /\ ready' \in {ready, None}
             /\ runs' = runs /\ (runs # None => copy'[runs'] = copy[runs])
  BY <1>4 DEF ExecutorGoes, ExecutorReturns, AtWork
<1> QED BY <1>1, <1>2, <1>3, <1>4 DEF Keeping, AcceptStep

(* Every effect keeps the order of the records.                            *)
LEMMA RecordsFollowStep ==
    ASSUME Shape, Shape', CopyAgrees, RecordsFollow, Effect
    PROVE  RecordsFollow'
<1>1. ASSUME NEW run, NEW w, Writing(run, w)
      PROVE  RecordsFollow'
  BY <1>1, WritingIs, OneWriteFollows
<1>2. ASSUME NEW e \in Calls, NEW S, NEW run, StartsSteps(e, S, run)
      PROVE  RecordsFollow'
  BY <1>2, ManyWritesFollow
<1>3. CASE Keeping
  <2>1. /\ UNCHANGED <<file, writes>> /\ Positions' = Positions
        /\ \A i : Rec(i)' = Rec(i)
    BY <1>3, KeepingIs DEF Positions, Rec
  <2>2. \A i : /\ RunningIsOpen(Rec(i))' <=> RunningIsOpen(Rec(i))
               /\ Follows(Rec(i), Rec(i + 1))' <=> Follows(Rec(i), Rec(i + 1))
    BY <2>1 DEF RunningIsOpen, HasRunning, Follows
  <2>3. runs' # None => copy'[runs'] = Rec(Len(writes))'
    <3>1. Rec(Len(writes))' = Rec(Len(writes))
      BY <2>1 DEF Rec
    <3> QED BY <1>3, <3>1, KeepingIs, LastIs
  <2>4. runs' # None => \A i \in Positions : Rec(i) # None => Rec(i).def = copy'[runs'].def
    BY <1>3, KeepingIs, LastIs
  <2> QED BY <2>1, <2>2, <2>3, <2>4 DEF RecordsFollow
<1>4. CASE WriteStep
  <2>1. /\ Positions' = 0 .. Len(writes) - 1 /\ Positions = 0 .. Len(writes) /\ Len(writes) \in Nat \ {0}
        /\ \A i \in 0 .. Len(writes) - 1 : Rec(i)' = Rec(i + 1)
        /\ UNCHANGED <<runs, copy>> /\ Len(writes') = Len(writes) - 1
    BY <1>4 DEF WriteStep, memory, Positions, Rec
  <2>2. \A i \in Positions' : /\ i + 1 \in Positions
                              /\ i + 1 \in Positions' => i + 1 + 1 \in Positions
    BY <2>1
  <2>3. ASSUME NEW i \in Positions', i + 1 \in Positions', Rec(i)' # None
        PROVE  Follows(Rec(i), Rec(i + 1))'
    <3>1. Rec(i)' = Rec(i + 1) /\ Rec(i + 1)' = Rec(i + 1 + 1)
      BY <2>1, <2>3
    <3>2. Follows(Rec(i + 1), Rec(i + 1 + 1))
      BY <2>2, <2>3, <3>1 DEF RecordsFollow
    <3> QED BY <3>1, <3>2 DEF Follows
  <2>4. ASSUME NEW i \in Positions', Rec(i)' # None
        PROVE  RunningIsOpen(Rec(i))' /\ (runs' # None => Rec(i)'.def = copy'[runs'].def)
    BY <2>1, <2>2, <2>4 DEF RecordsFollow, RunningIsOpen, HasRunning
  <2>5. runs' # None => copy'[runs'] = Rec(Len(writes))'
    <3>1. PICK k : k = Len(writes) - 1
      OBVIOUS
    <3>2. k \in 0 .. Len(writes) - 1 /\ k + 1 = Len(writes)
      BY <2>1, <3>1
    <3>3. Rec(k)' = Rec(Len(writes))
      BY <2>1, <3>2
    <3>4. Rec(Len(writes))' = Rec(k)'
      BY <2>1, <3>1 DEF Rec
    <3> QED BY <2>1, <3>3, <3>4 DEF RecordsFollow
  <2> QED BY <2>3, <2>4, <2>5 DEF RecordsFollow
<1>5. CASE CrashStep
  <2>1. Positions' = {0} /\ Rec(0)' = Rec(0) /\ runs' = None
    <3>1. writes' = <<>>
      BY <1>5 DEF CrashStep
    <3>2. Len(writes') = 0
      BY <3>1
    <3> QED BY <1>5, <3>2 DEF CrashStep, Positions, Rec
  <2>2. RunningIsOpen(Rec(0))' <=> RunningIsOpen(Rec(0))
    BY <2>1 DEF RunningIsOpen, HasRunning
  <2> QED BY <2>1, <2>2, LastIs DEF RecordsFollow
<1>6. ASSUME NEW c \in Calls, RewriteStep(c)
      PROVE  RecordsFollow'
  <2>1. /\ runs' = None /\ writes' = <<>> /\ file' = copy[c] /\ copy[c] \in Runs /\ call[c].pc = "rewriting"
    BY <1>6 DEF RewriteStep, memory
  <2>2. Len(writes') = 0
    BY <2>1
  <2>3. Positions' = {0} /\ Rec(0)' = copy[c]
    BY <2>1, <2>2 DEF Positions, Rec
  <2>4. ~HasRunning(copy[c])
    BY <2>1, NoneIsNoCall DEF CopyAgrees, ReadIsAtRest
  <2>5. RunningIsOpen(Rec(0))'
    BY <2>3, <2>4 DEF RunningIsOpen, HasRunning
  <2> QED BY <2>1, <2>3, <2>5 DEF RecordsFollow
<1> QED BY <1>1, <1>2, <1>3, <1>4, <1>5, <1>6, EffectIs

-----------------------------------------------------------------------------
(* Who writes waits for that write.                                        *)
(* Callers, loops and executors are different writers.                     *)
LEMMA WritersAre ==
    /\ \A c, d \in Calls : (Caller(c) = Caller(d)) <=> (c = d)
    /\ \A c, d \in Calls : (Loop(c) = Loop(d)) <=> (c = d)
    /\ \A c, d \in Calls, s, t \in Steps : (Worker(c, s) = Worker(d, t)) <=> (c = d /\ s = t)
    /\ \A c, d \in Calls : Caller(c) # Loop(d)
    /\ \A c, d \in Calls, s \in Steps : Caller(c) # Worker(d, s) /\ Loop(c) # Worker(d, s)
    /\ \A c \in Calls : Caller(c) \in Writers /\ Loop(c) \in Writers
    /\ \A c \in Calls, s \in Steps : Worker(c, s) \in Writers
BY StepsAreNumbers DEF Caller, Loop, Worker, Writers

LEMMA AwaitsIs ==
    /\ \A c \in Calls : Awaits(Caller(c)) <=> call[c].pc \in {"persisting", "finalizing"}
    /\ \A e \in Calls : Awaits(Loop(e)) <=>
          exec[e].pc \in {"launched", "return", "schedule", "started", "ending"}
    /\ \A e \in Calls, s \in Steps : Awaits(Worker(e, s)) <=>
          executor[e][s].phase \in {"marking", "closing"}
BY WritersAre DEF Awaits

LEMMA AwaitsThen ==
    /\ \A c \in Calls : Awaits(Caller(c))' <=> call'[c].pc \in {"persisting", "finalizing"}
    /\ \A e \in Calls : Awaits(Loop(e))' <=>
          exec'[e].pc \in {"launched", "return", "schedule", "started", "ending"}
    /\ \A e \in Calls, s \in Steps : Awaits(Worker(e, s))' <=>
          executor'[e][s].phase \in {"marking", "closing"}
BY WritersAre DEF Awaits

LEMMA ElementIs ==
    ASSUME NEW R, NEW q \in Seq(R), NEW i \in 1 .. Len(q)
    PROVE  q[i] \in R
OBVIOUS

(* The writers that stay in the queue.                                     *)
LEMMA OthersWait ==
    ASSUME Shape, WritersWait, NEW W, Moves(W)
    PROVE  \A i \in Positions : \A w : w # None /\ w = (IF i = 0 THEN ready' ELSE By(i)) =>
              w = By(i) /\ w \in Writers \ W /\ Awaits(w)'
<1>1. ASSUME NEW i \in Positions, By(i) # None
      PROVE  By(i) \in Writers
  <2>1. CASE i = 0
    BY <1>1, <2>1 DEF Shape, TypeOK, By
  <2>2. CASE i # 0
    <3>1. writes \in Seq([run : Runs, by : Writers]) /\ i \in 1 .. Len(writes)
      BY <2>2 DEF Shape, TypeOK, Positions
    <3>2. writes[i] \in [run : Runs, by : Writers]
      BY <3>1, ElementIs
    <3> QED BY <2>2, <3>2 DEF By
  <2> QED BY <2>1, <2>2
<1>2. 0 \in Positions /\ By(0) = ready
  BY DEF Shape, TypeOK, Positions, By
<1>3. ASSUME NEW i \in Positions, NEW w, w = IF i = 0 THEN ready' ELSE By(i), w # None
      PROVE  w = By(i) /\ w \in Writers \ W /\ Awaits(w)'
  <2>1. w = By(i)
    BY <1>2, <1>3 DEF Moves
  <2>2. Awaits(w) /\ w \in Writers
    <3>1. Awaits(By(i)) /\ By(i) \in Writers
      BY <1>1, <1>3, <2>1 DEF WritersWait
    <3> QED BY <2>1, <3>1
  <2>3. w \notin W
    <3> SUFFICES ASSUME w \in W PROVE FALSE
      OBVIOUS
    <3>1. ready = w /\ ready' = None
      BY <2>2 DEF Moves
    <3>2. i = 0
      BY <1>2, <1>3, <2>1, <3>1 DEF WritersWait
    <3> QED BY <1>3, <3>1, <3>2
  <2>4. Awaits(w)'
    BY <2>2, <2>3 DEF Moves
  <2> QED BY <2>1, <2>2, <2>3, <2>4
<1> QED BY <1>3

(* Writers that move without a write had none in the queue.                *)
LEMMA NoWriteWaits ==
    ASSUME Shape, WritersWait, NEW W, Moves(W), writes' = writes
    PROVE  WritersWait'
<1>1. /\ Positions' = Positions
      /\ \A i \in Positions : By(i)' = IF i = 0 THEN ready' ELSE By(i)
  BY DEF Positions, By
<1>2. ASSUME NEW i \in Positions, By(i)' # None
      PROVE  By(i)' = By(i) /\ Awaits(By(i))'
  <2>1. PICK w : w = By(i)'
    OBVIOUS
  <2>2. w # None /\ w = IF i = 0 THEN ready' ELSE By(i)
    BY <1>1, <1>2, <2>1
  <2>3. w = By(i) /\ Awaits(w)'
    BY <2>2, OthersWait
  <2>4. Awaits(By(i))'
    BY <2>1, <2>3 DEF Awaits
  <2> QED BY <2>1, <2>3, <2>4
<1> QED BY <1>1, <1>2 DEF WritersWait

(* A writer that moves on writes once, and waits for that write.           *)
LEMMA OneWriteWaits ==
    ASSUME Shape, WritersWait, NEW W, Moves(W), NEW run, NEW u \in W, Awaits(u)',
           file' = file, writes' = Append(writes, [run |-> run, by |-> u])
    PROVE  WritersWait'
<1>1. PICK n : n = Len(writes) + 1
  OBVIOUS
<1>2. /\ n \in Nat \ {0} /\ Positions' = Positions \union {n} /\ n \notin Positions
      /\ \A i \in Positions : By(i)' = IF i = 0 THEN ready' ELSE By(i)
      /\ By(n)' = u
  BY <1>1, OneWriteIs DEF By
<1>3. ASSUME NEW i \in Positions, By(i)' # None
      PROVE  By(i)' = By(i) /\ Awaits(By(i))' /\ By(i)' # u
  <2>1. PICK w : w = By(i)'
    OBVIOUS
  <2>2. w # None /\ w = IF i = 0 THEN ready' ELSE By(i)
    BY <1>2, <1>3, <2>1
  <2>3. w = By(i) /\ Awaits(w)' /\ w \notin W
    BY <2>2, OthersWait
  <2>4. Awaits(By(i))'
    BY <2>1, <2>3 DEF Awaits
  <2> QED BY <2>1, <2>3, <2>4
<1>4. Awaits(By(n))'
  BY <1>2 DEF Awaits
<1> QED BY <1>2, <1>3, <1>4 DEF WritersWait

(* Which writers a step moves.                                             *)
LEMMA CallMoves ==
    ASSUME NEW c \in Calls, OneCall(c), SamePhases, exec' = exec,
           IF call[c].pc \in {"persisting", "finalizing"}
           THEN ready = Caller(c) /\ ready' = None ELSE ready' = ready
    PROVE  Moves({Caller(c)})
<1>1. ASSUME NEW v, v # Caller(c), Awaits(v)
      PROVE  Awaits(v)'
  BY <1>1 DEF OneCall, SamePhases, Awaits
<1> QED BY <1>1, AwaitsIs DEF Moves

LEMMA LoopMoves ==
    ASSUME NEW e \in Calls, Loops(e), NEW S, PhasesBut(e, S), S \subseteq Steps,
           \A s \in S : executor[e][s].phase = "idle"
    PROVE  Moves({Loop(e)} \union {Worker(e, s) : s \in S})
<1>1. ASSUME NEW v, v # Loop(e), v \notin {Worker(e, s) : s \in S}, Awaits(v)
      PROVE  Awaits(v)'
  BY <1>1 DEF Loops, AtWork, OneExecution, PhasesBut, Awaits
<1>2. Awaits(Loop(e)) => ready = Loop(e) /\ ready' = None
  BY AwaitsIs DEF Loops
<1>3. \A s \in S : ~Awaits(Worker(e, s))
  BY AwaitsIs
<1> QED BY <1>1, <1>2, <1>3 DEF Moves, Loops, AtWork

LEMMA ExecutorMoves ==
    ASSUME NEW e \in Calls, NEW s \in Steps, AtWork(e), PhasesBut(e, {s}),
           exec'[e].pc = exec[e].pc \/ exec[e].pc \in {"racing", "stepping"},
           \/ ready = Worker(e, s) /\ ready' = None
           \/ executor[e][s].phase \notin {"marking", "closing"} /\ ready' = ready
    PROVE  Moves({Worker(e, s)})
<1>1. ASSUME NEW v, v # Worker(e, s), Awaits(v)
      PROVE  Awaits(v)'
  BY <1>1 DEF AtWork, OneExecution, PhasesBut, Awaits
<1> QED BY <1>1, AwaitsIs DEF Moves

LEMMA ManyWritesWait ==
    ASSUME Shape, CopyAgrees, WritersWait, NEW e \in Calls, NEW S, NEW run, StartsSteps(e, S, run)
    PROVE  WritersWait'
<1> DEFINE W == {Loop(e)} \union {Worker(e, s) : s \in S}
<1>1. PICK n, m : ManyWrites(e, S, n, m)
  BY ManyWritesIs
<1>2. /\ Loops(e) /\ AtWork(e) /\ PhasesBut(e, S) /\ S \subseteq DOMAIN copy[runs].step
      /\ \A s \in S : executor'[e][s].phase = "marking" /\ copy[runs].step[s] = "pending"
      /\ exec'[e].pc = "started"
  BY DEF StartsSteps, LoopStarts, Loops
<1>3. S \subseteq Steps /\ \A s \in S : executor[e][s].phase = "idle"
  <2>1. HoldsFor(e) /\ S \subseteq Steps
    BY <1>2, HoldsNow
  <2>2. ASSUME NEW s \in S
        PROVE  executor[e][s].phase = "idle"
    <3>1. executor[e][s] \in ExecutorRecords
      BY <2>1 DEF Shape, TypeOK
    <3>2. executor[e][s].phase \notin Phase3 \union {"closing"}
      BY <1>2, <2>1 DEF HoldsFor, TERMINAL_STEP_STATES
    <3> QED BY <3>1, <3>2 DEF ExecutorRecords, Phase3
  <2> QED BY <2>1, <2>2
<1>4. Moves(W)
  BY <1>2, <1>3, LoopMoves
<1>5. Awaits(Loop(e))' /\ \A s \in S : Awaits(Worker(e, s))'
  BY <1>2, <1>3, AwaitsThen
<1>6. /\ n \in Nat /\ m \in Nat /\ Positions = 0 .. n /\ Positions' = 0 .. n + m + 1
      /\ \A i \in 0 .. n : By(i)' = IF i = 0 THEN ready' ELSE By(i)
      /\ \A i \in 1 .. m : By(n + i)' = writes'[n + i].by
      /\ By(n + m + 1)' = Loop(e)
  BY <1>1 DEF ManyWrites, Positions, By
<1>7. ASSUME NEW i \in 0 .. n, By(i)' # None
      PROVE  By(i)' = By(i) /\ Awaits(By(i))' /\ By(i)' \notin W
  <2>1. PICK w : w = By(i)'
    OBVIOUS
  <2>2. w # None /\ w = IF i = 0 THEN ready' ELSE By(i)
    BY <1>6, <1>7, <2>1
  <2>3. w = By(i) /\ Awaits(w)' /\ w \notin W
    BY <1>4, <1>6, <2>2, OthersWait
  <2>4. Awaits(By(i))'
    BY <2>1, <2>3 DEF Awaits
  <2> QED BY <2>1, <2>3, <2>4
<1>8. ASSUME NEW i \in 1 .. m
      PROVE  \E s \in S : By(n + i)' = Worker(e, s)
  <2>1. \E s \in S : writes'[n + i].by = Worker(e, s)
    BY <1>1 DEF ManyWrites
  <2> QED BY <1>6, <2>1
<1>9. ASSUME NEW i \in 1 .. m, NEW j \in 1 .. m, By(n + i)' = By(n + j)'
      PROVE  i = j
  BY <1>1, <1>6, <1>9 DEF ManyWrites
<1> HIDE DEF W
<1>10. ASSUME NEW i \in 0 .. n + m + 1
       PROVE  i \in 0 .. n \/ i = n + m + 1 \/ \E k \in 1 .. m : i = n + k
  <2>1. CASE i > n /\ i # n + m + 1
    <3>1. i - n \in 1 .. m /\ i = n + (i - n)
      BY <1>6, <2>1
    <3> QED BY <3>1
  <2> QED BY <1>6, <2>1
<1>11. ASSUME NEW i \in 0 .. n + m + 1, i \notin 0 .. n
       PROVE  By(i)' \in W /\ Awaits(By(i))'
  <2>1. CASE i = n + m + 1
    <3>1. By(i)' = Loop(e)
      BY <1>6, <2>1
    <3>2. Awaits(By(i))'
      BY <1>5, <3>1 DEF Awaits
    <3> QED BY <3>1, <3>2 DEF W
  <2>2. CASE \E k \in 1 .. m : i = n + k
    <3>1. PICK k \in 1 .. m : i = n + k
      BY <2>2
    <3>2. PICK s \in S : By(i)' = Worker(e, s)
      BY <1>8, <3>1
    <3>3. Awaits(Worker(e, s))'
      BY <1>5
    <3>4. Awaits(By(i))'
      BY <3>2, <3>3 DEF Awaits
    <3> QED BY <3>2, <3>4 DEF W
  <2> QED BY <1>10, <1>11, <2>1, <2>2
<1>12. ASSUME NEW i \in 0 .. n + m + 1, NEW j \in 0 .. n + m + 1, By(i)' # None, By(i)' = By(j)'
       PROVE  i = j
  <2>1. CASE i \in 0 .. n /\ j \in 0 .. n
    BY <1>6, <1>7, <1>12, <2>1 DEF WritersWait
  <2>2. CASE i \notin 0 .. n /\ j \notin 0 .. n
    <3>1. \A k \in 1 .. m : By(n + k)' # Loop(e)
      BY <1>3, <1>8, WritersAre
    <3>2. \A k \in 0 .. n + m + 1 : k \notin 0 .. n => k = n + m + 1 \/ \E l \in 1 .. m : k = n + l
      BY <1>10
    <3>3. CASE i = n + m + 1 /\ j # n + m + 1
      BY <1>6, <1>12, <2>2, <3>1, <3>2, <3>3
    <3>4. CASE j = n + m + 1 /\ i # n + m + 1
      BY <1>6, <1>12, <2>2, <3>1, <3>2, <3>4
    <3>5. CASE i # n + m + 1 /\ j # n + m + 1
      <4>1. PICK k \in 1 .. m, l \in 1 .. m : i = n + k /\ j = n + l
        BY <2>2, <3>2, <3>5
      <4> QED BY <1>9, <1>12, <4>1
    <3> QED BY <3>3, <3>4, <3>5
  <2>3. CASE (i \in 0 .. n) # (j \in 0 .. n)
    BY <1>7, <1>11, <1>12, <2>3
  <2> QED BY <2>1, <2>2, <2>3
<1> QED BY <1>6, <1>7, <1>10, <1>11, <1>12 DEF WritersWait

LEMMA WriteStepWaits ==
    ASSUME Shape, WritersWait, WriteStep
    PROVE  WritersWait'
<1>1. /\ Positions' = 0 .. Len(writes) - 1 /\ Positions = 0 .. Len(writes) /\ Len(writes) \in Nat \ {0}
      /\ \A i \in 0 .. Len(writes) - 1 : By(i)' = By(i + 1)
      /\ UNCHANGED <<call, exec, executor>>
  BY DEF WriteStep, Positions, By
<1>2. ASSUME NEW i \in 0 .. Len(writes) - 1, By(i)' # None
      PROVE  Awaits(By(i))'
  <2>1. i + 1 \in Positions /\ By(i)' = By(i + 1)
    BY <1>1
  <2>2. Awaits(By(i + 1))
    BY <1>2, <2>1 DEF WritersWait
  <2> QED BY <1>1, <2>1, <2>2 DEF Awaits
<1>3. ASSUME NEW i \in 0 .. Len(writes) - 1, NEW j \in 0 .. Len(writes) - 1, By(i)' # None, By(i)' = By(j)'
      PROVE  i = j
  <2>1. i + 1 \in Positions /\ j + 1 \in Positions /\ By(i + 1) # None /\ By(i + 1) = By(j + 1)
    BY <1>1, <1>3
  <2>2. i + 1 = j + 1
    BY <2>1 DEF WritersWait
  <2> QED BY <1>1, <2>2
<1> QED BY <1>1, <1>2, <1>3 DEF WritersWait

LEMMA EmptyWaits ==
    ASSUME writes' = <<>>, ready' = None
    PROVE  WritersWait'
<1>1. Len(writes') = 0
  OBVIOUS
<1>2. Positions' = {0} /\ By(0)' = None
  BY <1>1 DEF Positions, By
<1> QED BY <1>2 DEF WritersWait

(* Every effect keeps the writers waiting for their own writes.            *)
LEMMA WritersWaitStep ==
    ASSUME Shape, Shape', CopyAgrees, WritersWait, Effect
    PROVE  WritersWait'
<1>1. ASSUME NEW c \in Calls, CallTurn(c)
      PROVE  WritersWait'
  <2>1. CASE CallStep(c)
    BY <2>1, CallMoves, NoWriteWaits DEF CallStep
  <2>2. ASSUME NEW run, CallWrites(c, run)
        PROVE  WritersWait'
    <3>1. call[c].pc # "finalizing" /\ call'[c].pc \in {"persisting", "finalizing"}
      BY <2>2 DEF CallWrites
    <3>2. Moves({Caller(c)})
      BY <2>2, <3>1, CallMoves DEF CallWrites
    <3>3. Awaits(Caller(c))'
      BY <3>1, AwaitsThen
    <3> QED BY <2>2, <3>2, <3>3, OneWriteWaits DEF CallWrites
  <2>3. CASE LaunchStep(c)
    <3>1. call[c].pc # "done" /\ exec[c].pc = "none" /\ ready = Caller(c) /\ ready' = None
      BY <2>3 DEF LaunchStep, Shape, CallsShape, CallShape
    <3>2. ASSUME NEW v, v # Caller(c), v # Loop(c), Awaits(v)
          PROVE  Awaits(v)'
      BY <2>3, <3>2 DEF LaunchStep, OneCall, OneExecution, SamePhases, Awaits
    <3>3. Moves({Caller(c), Loop(c)})
      BY <3>1, <3>2, AwaitsIs DEF Moves
    <3>4. Awaits(Loop(c))'
      BY <2>3, AwaitsThen DEF LaunchStep
    <3>5. PICK run : writes' = Append(writes, [run |-> run, by |-> Loop(c)]) /\ file' = file
      BY <2>3 DEF LaunchStep
    <3> QED BY <3>3, <3>4, <3>5, OneWriteWaits
  <2>4. CASE ReadStep(c) \/ BeginStep(c)
    <3>1. /\ UNCHANGED <<exec, executor, writes, ready>> /\ OneCall(c)
          /\ call[c].pc \in {"reading", "idle"}
      BY <2>4 DEF ReadStep, BeginStep, memory, executions
    <3>2. SamePhases
      BY <3>1 DEF Shape, TypeOK, SamePhases
    <3> QED BY <3>1, <3>2, CallMoves, NoWriteWaits
  <2>5. CASE RewriteStep(c)
    BY <2>5, EmptyWaits DEF RewriteStep, memory
  <2> QED BY <1>1, <2>1, <2>2, <2>3, <2>4, <2>5 DEF CallTurn
<1>2. ASSUME NEW e \in Calls, LoopTurn(e)
      PROVE  WritersWait'
  <2>1. ASSUME Loops(e), SamePhases
        PROVE  Moves({Loop(e)})
    <3>1. PhasesBut(e, {})
      BY <2>1 DEF SamePhases, PhasesBut
    <3>2. Moves({Loop(e)} \union {Worker(e, s) : s \in {}})
      BY <2>1, <3>1, LoopMoves
    <3>3. {Loop(e)} \union {Worker(e, s) : s \in {}} = {Loop(e)}
      OBVIOUS
    <3> QED BY <3>2, <3>3
  <2>2. CASE LoopGoes(e)
    BY <2>1, <2>2, NoWriteWaits DEF LoopGoes
  <2>3. ASSUME NEW run, Becomes(run, Loop(e)), Loops(e), SamePhases,
               exec'[e].pc \in {"ending", "return", "schedule"}
        PROVE  WritersWait'
    <3>1. Awaits(Loop(e))'
      BY <2>3, AwaitsThen
    <3> QED BY <2>1, <2>3, <3>1, OneWriteWaits DEF Becomes, Loops, AtWork
  <2>4. ASSUME NEW s \in Steps, NEW run, StartsStep(e, s, run)
        PROVE  WritersWait'
    <3>1. /\ Loops(e) /\ PhasesBut(e, {s}) /\ executor'[e][s].phase = "marking"
          /\ executor[e][s].phase = "idle"
          /\ file' = file /\ writes' = Append(writes, [run |-> run, by |-> Worker(e, s)])
      BY <2>4 DEF StartsStep, LoopStarts, Loops, AtWork, Becomes, Quiet
    <3>2. Moves({Loop(e)} \union {Worker(e, t) : t \in {s}})
      BY <3>1, LoopMoves
    <3>3. Awaits(Worker(e, s))'
      BY <3>1, AwaitsThen
    <3> QED BY <3>1, <3>2, <3>3, OneWriteWaits
  <2>5. CASE CloseStep(e)
    <3>1. ASSUME NEW v, v # Loop(e), Awaits(v)
          PROVE  Awaits(v)'
      BY <2>5, <3>1 DEF CloseStep, OneExecution, SamePhases, Awaits
    <3>2. Moves({Loop(e)})
      BY <2>5, <3>1 DEF Moves, CloseStep
    <3> QED BY <2>5, <3>2, NoWriteWaits DEF CloseStep
  <2> QED BY <1>2, <2>2, <2>3, <2>4, <2>5, ManyWritesWait DEF LoopTurn, LoopEnds, LoopSkips
<1>3. ASSUME NEW e \in Calls, NEW s \in Steps, ExecutorStep(e, s)
      PROVE  WritersWait'
  <2>1. CASE ExecutorGoes(e, s)
    BY <2>1, ExecutorMoves, NoWriteWaits DEF ExecutorGoes
  <2>2. ASSUME NEW outcome, NEW run, ExecutorSettles(e, s, outcome, run)
        PROVE  WritersWait'
    <3>1. Moves({Worker(e, s)})
      BY <2>2, ExecutorMoves DEF ExecutorSettles
    <3>2. Awaits(Worker(e, s))'
      BY <2>2, AwaitsThen DEF ExecutorSettles
    <3>3. file' = file /\ writes' = Append(writes, [run |-> run, by |-> Worker(e, s)])
      BY <2>2 DEF ExecutorSettles, AtWork, Becomes
    <3> QED BY <3>1, <3>2, <3>3, OneWriteWaits
  <2>3. CASE ExecutorReturns(e, s)
    <3>1. Moves({Worker(e, s)})
      BY <2>3, ExecutorMoves DEF ExecutorReturns
    <3> QED BY <2>3, <3>1, NoWriteWaits DEF ExecutorReturns
  <2> QED BY <1>3, <2>1, <2>2, <2>3 DEF ExecutorStep
<1>4. CASE CrashStep
  BY <1>4, EmptyWaits DEF CrashStep
<1>5. CASE AcceptStep
  BY <1>5 DEF AcceptStep, WritersWait, Positions, By, Awaits
<1> QED BY <1>1, <1>2, <1>3, <1>4, <1>5, WriteStepWaits DEF Effect

-----------------------------------------------------------------------------
(* What is at work is on record, in the file and in every snapshot.        *)
LEMMA CurrentOnRecord ==
    ASSUME Shape', CopyAgrees', NEW e \in Calls, NEW s \in Steps, executor'[e][s].phase \in Phase3
    PROVE  /\ runs' # None /\ OnRecord(copy[runs], s)' /\ execution' = e
           /\ copy'[runs'].step[s] = "running" /\ copy'[runs'].state \in {"running", "canceling"}
           /\ s \in DOMAIN copy'[runs'].step
<1>1. ExecShape(e)' /\ ~Quiet(e)'
  BY DEF Shape, ExecutionShape, Quiet, Phase3
<1>2. /\ Live(e)' /\ exec'[e].pc # "ending" /\ execution' = e
      /\ s \in DOMAIN copy'[runs'].step
  BY <1>1 DEF ExecShape, Phase3
<1>3. runs' # None /\ copy'[runs'] # None
  BY <1>2, NoneIsNoCall DEF Shape, TypeOK, ExecutionShape
<1>4. copy'[runs'].step[s] = "running" /\ copy'[runs'].state \in {"running", "canceling"}
  BY <1>2 DEF CopyAgrees, ExecutorsAgree, OpenWhileLive
<1> QED BY <1>2, <1>3, <1>4 DEF OnRecord

(* A write of the copy in memory records what is at work.                  *)
LEMMA OneWriteRecorded ==
    ASSUME Shape, Shape', CopyAgrees', WritersWait, WorkRecorded, NEW run, NEW w, OneWrite(run, w),
           ready' \in {ready, None},
           \A e \in Calls, s \in Steps :
              /\ executor'[e][s].phase \in {"waiting", "executing"} =>
                    executor'[e][s].phase = executor[e][s].phase
              /\ executor'[e][s].phase = "marking" => executor[e][s].phase \in {"marking", "idle"}
    PROVE  WorkRecorded'
<1>1. PICK n : n = Len(writes) + 1
  OBVIOUS
<1>2. /\ n \in Nat \ {0} /\ Positions' = Positions \union {n} /\ n \notin Positions
      /\ \A i \in Positions : Rec(i)' = Rec(i) /\ By(i)' \in {By(i), None}
      /\ Rec(n)' = run /\ Positions = 0 .. n - 1
  BY <1>1, OneWriteIs DEF OneWrite, By, Positions
<1>3. ASSUME NEW e \in Calls, NEW s \in Steps, executor'[e][s].phase \in Phase3
      PROVE  OnRecord(Rec(n), s)'
  BY <1>2, <1>3, CurrentOnRecord DEF OneWrite, OnRecord
<1>4. ASSUME NEW e \in Calls, NEW s \in Steps, executor'[e][s].phase \in {"waiting", "executing"},
             NEW i \in Positions'
      PROVE  OnRecord(Rec(i), s)'
  <2>1. CASE i \in Positions
    <3>1. OnRecord(Rec(i), s)
      BY <1>4, <2>1 DEF WorkRecorded
    <3> QED BY <1>2, <2>1, <3>1 DEF OnRecord
  <2>2. CASE i = n
    BY <1>3, <1>4, <2>2 DEF Phase3
  <2> QED BY <1>2, <2>1, <2>2
<1>5. ASSUME NEW e \in Calls, NEW s \in Steps, executor'[e][s].phase = "marking",
             NEW i \in Positions', NEW j \in Positions', By(i)' = Worker(e, s), i <= j
      PROVE  OnRecord(Rec(j), s)'
  <2>1. CASE j = n
    BY <1>3, <1>5, <2>1 DEF Phase3
  <2>2. CASE j # n
    <3>1. i \in Positions /\ j \in Positions
      BY <1>2, <1>5, <2>2
    <3>2. By(i) = Worker(e, s) /\ By(i) # None
      BY <1>2, <1>5, <3>1, WritersAre, NoneIsNoCall
    <3>3. Awaits(Worker(e, s))
      BY <3>1, <3>2 DEF WritersWait
    <3>4. executor[e][s].phase = "marking"
      BY <1>5, <3>3, AwaitsIs
    <3>5. OnRecord(Rec(j), s)
      BY <1>5, <3>1, <3>2, <3>4 DEF WorkRecorded
    <3> QED BY <1>2, <3>1, <3>5 DEF OnRecord
  <2> QED BY <2>1, <2>2
<1> QED BY <1>4, <1>5 DEF WorkRecorded

LEMMA NoWriteRecorded ==
    ASSUME Shape, WorkRecorded, file' = file, writes' = writes, ready' \in {ready, None},
           \A e \in Calls, s \in Steps :
              /\ executor'[e][s].phase \in {"waiting", "executing"} =>
                    \/ executor[e][s].phase \in {"waiting", "executing"}
                    \/ executor[e][s].phase = "marking" /\ ready = Worker(e, s)
              /\ executor'[e][s].phase = "marking" => executor[e][s].phase = "marking"
    PROVE  WorkRecorded'
<1>1. /\ Positions' = Positions /\ 0 \in Positions /\ \A i \in Positions : 0 <= i
      /\ \A i \in Positions : Rec(i)' = Rec(i) /\ By(i)' \in {By(i), None}
      /\ By(0) = ready
  BY DEF Shape, TypeOK, Positions, Rec, By
<1>2. ASSUME NEW e \in Calls, NEW s \in Steps, executor'[e][s].phase \in {"waiting", "executing"},
             NEW i \in Positions
      PROVE  OnRecord(Rec(i), s)'
  <2>1. OnRecord(Rec(i), s)
    BY <1>1, <1>2 DEF WorkRecorded
  <2> QED BY <1>1, <2>1 DEF OnRecord
<1>3. ASSUME NEW e \in Calls, NEW s \in Steps, executor'[e][s].phase = "marking",
             NEW i \in Positions, NEW j \in Positions, By(i)' = Worker(e, s), i <= j
      PROVE  OnRecord(Rec(j), s)'
  <2>1. By(i) = Worker(e, s)
    BY <1>1, <1>3, WritersAre, NoneIsNoCall
  <2>2. OnRecord(Rec(j), s)
    BY <1>3, <2>1 DEF WorkRecorded
  <2> QED BY <1>1, <2>2 DEF OnRecord
<1> QED BY <1>1, <1>2, <1>3 DEF WorkRecorded

(* The file holds the next snapshot, its writer may go on: records move up.*)
LEMMA WriteStepRecorded ==
    ASSUME Shape, WorkRecorded, WriteStep
    PROVE  WorkRecorded'
<1>1. /\ Positions' = 0 .. Len(writes) - 1 /\ Positions = 0 .. Len(writes) /\ Len(writes) \in Nat \ {0}
      /\ \A i \in 0 .. Len(writes) - 1 : By(i)' = By(i + 1) /\ Rec(i)' = Rec(i + 1)
      /\ executor' = executor
  BY DEF WriteStep, Positions, By, Rec
<1>2. ASSUME NEW e \in Calls, NEW s \in Steps, executor[e][s].phase \in {"waiting", "executing"},
             NEW i \in Positions'
      PROVE  OnRecord(Rec(i), s)'
  <2>1. i + 1 \in Positions
    BY <1>1
  <2>2. OnRecord(Rec(i + 1), s)
    BY <1>2, <2>1 DEF WorkRecorded
  <2> QED BY <1>1, <2>2 DEF OnRecord
<1>3. ASSUME NEW e \in Calls, NEW s \in Steps, executor[e][s].phase = "marking",
             NEW i \in Positions', NEW j \in Positions', By(i)' = Worker(e, s), i <= j
      PROVE  OnRecord(Rec(j), s)'
  <2>1. i + 1 \in Positions /\ j + 1 \in Positions /\ i + 1 <= j + 1 /\ By(i + 1) = Worker(e, s)
    BY <1>1, <1>3
  <2>2. OnRecord(Rec(j + 1), s)
    BY <1>3, <2>1 DEF WorkRecorded
  <2> QED BY <1>1, <2>2 DEF OnRecord
<1> QED BY <1>1, <1>2, <1>3 DEF WorkRecorded

LEMMA ManyWritesRecorded ==
    ASSUME Shape, Shape', CopyAgrees, CopyAgrees', WritersWait, WorkRecorded,
           NEW e \in Calls, NEW S, NEW run, StartsSteps(e, S, run)
    PROVE  WorkRecorded'
<1>1. PICK n, m : ManyWrites(e, S, n, m)
  BY ManyWritesIs
<1>2. /\ AtWork(e) /\ runs' = runs /\ PhasesBut(e, S) /\ S \subseteq DOMAIN copy[runs].step
      /\ \A s \in S : executor'[e][s].phase = "marking" /\ copy[runs].step[s] = "pending"
      /\ ready' \in {ready, None}
  BY DEF StartsSteps, LoopStarts, Loops, AtWork
<1>3. /\ HoldsFor(e) /\ S \subseteq Steps /\ copy[runs] \in Runs
      /\ \A s \in S : executor[e][s].phase \notin {"marking", "closing"}
  <2>1. HoldsFor(e) /\ S \subseteq Steps /\ copy[runs] \in Runs
    BY <1>2, HoldsNow
  <2> QED BY <1>2, <2>1 DEF HoldsFor, Phase3, TERMINAL_STEP_STATES
<1>4. /\ n \in Nat /\ m \in Nat /\ Positions = 0 .. n /\ Positions' = 0 .. n + m + 1
      /\ \A i \in 0 .. n : Rec(i)' = Rec(i) /\ By(i)' \in {By(i), None}
      /\ \A i \in 1 .. m + 1 : Rec(n + i)' = writes'[n + i].run /\ By(n + i)' = writes'[n + i].by
  BY <1>1, <1>2 DEF ManyWrites, Positions, Rec, By
<1>5. \A i \in 1 .. m + 1 :
         /\ Rec(n + i)' # None /\ DOMAIN Rec(n + i)'.step = DOMAIN copy[runs].step
         /\ Rec(n + i)'.state = copy[runs].state
         /\ \A s \in DOMAIN copy[runs].step : s \notin S => Rec(n + i)'.step[s] = copy[runs].step[s]
  <2>1. ASSUME NEW i \in 1 .. m + 1
        PROVE  /\ Varies(writes'[n + i].run, copy[runs])
               /\ writes'[n + i].run.state = copy[runs].state
               /\ \A s \in DOMAIN copy[runs].step :
                     s \notin S => writes'[n + i].run.step[s] = copy[runs].step[s]
    BY <1>1 DEF ManyWrites
  <2> QED BY <1>4, <2>1, NoneIsNoCall DEF Varies
<1>6. \A i \in 1 .. m + 1 :
         \/ i = m + 1 /\ By(n + i)' = Loop(e)
         \/ \E s \in S : /\ By(n + i)' = Worker(e, s)
                         /\ \A j \in i .. m + 1 : Rec(n + j)'.step[s] = "running"
  <2>1. ASSUME NEW i \in 1 .. m + 1
        PROVE  \/ i = m + 1 /\ writes'[n + i].by = Loop(e)
               \/ \E s \in S : /\ writes'[n + i].by = Worker(e, s)
                               /\ \A j \in i .. m + 1 : writes'[n + j].run.step[s] = "running"
    <3>1. CASE i = m + 1
      <4>1. n + i = n + m + 1
        BY <1>4, <3>1
      <4> QED BY <1>1, <3>1, <4>1 DEF ManyWrites
    <3>2. CASE i \in 1 .. m
      BY <1>1, <3>2 DEF ManyWrites
    <3> QED BY <1>4, <3>1, <3>2
  <2>2. ASSUME NEW i \in 1 .. m + 1, NEW s \in S,
               \A j \in i .. m + 1 : writes'[n + j].run.step[s] = "running"
        PROVE  \A j \in i .. m + 1 : Rec(n + j)'.step[s] = "running"
    <3>1. ASSUME NEW j \in i .. m + 1
          PROVE  Rec(n + j)'.step[s] = "running"
      <4>1. j \in 1 .. m + 1
        BY <1>4, <2>2, <3>1
      <4>2. Rec(n + j)' = writes'[n + j].run
        BY <1>4, <4>1
      <4> QED BY <2>2, <4>2
    <3> QED BY <3>1
  <2> QED BY <1>4, <2>1, <2>2
<1>7. ASSUME NEW i \in 0 .. n + m + 1
      PROVE  i \in 0 .. n \/ \E k \in 1 .. m + 1 : i = n + k
  <2>1. CASE i > n
    <3>1. i - n \in 1 .. m + 1 /\ i = n + (i - n)
      BY <1>4, <2>1
    <3> QED BY <3>1
  <2> QED BY <1>4, <2>1
<1>8. \A d \in Calls \ {e}, s \in Steps : executor'[d][s].phase \notin Phase3
  BY <1>2, CurrentOnRecord DEF AtWork
<1>9. /\ \A s \in Steps : executor'[e][s].phase \in Phase3 =>
            /\ s \in DOMAIN copy[runs].step /\ copy[runs].state \in {"running", "canceling"}
            /\ s \notin S => executor'[e][s].phase = executor[e][s].phase
                             /\ copy[runs].step[s] = "running"
      /\ \A s \in S : s \in DOMAIN copy[runs].step
  <2>1. ASSUME NEW s \in Steps, executor'[e][s].phase \in Phase3
        PROVE  /\ s \in DOMAIN copy[runs].step /\ copy[runs].state \in {"running", "canceling"}
               /\ s \notin S => executor'[e][s].phase = executor[e][s].phase
                             /\ copy[runs].step[s] = "running"
    <3>1. /\ s \in DOMAIN copy'[runs].step /\ copy'[runs].state \in {"running", "canceling"}
      BY <1>2, <2>1, CurrentOnRecord
    <3>2. DOMAIN copy'[runs].step = DOMAIN copy[runs].step /\ copy'[runs].state = copy[runs].state
      <4>1. /\ m + 1 \in 1 .. m + 1 /\ n + (m + 1) = n + m + 1
        BY <1>4
      <4>2. copy'[runs] = writes'[n + m + 1].run
        BY <1>1, ZenonT(30) DEF ManyWrites
      <4>3. writes'[n + m + 1].run = writes'[n + (m + 1)].run
        BY <4>1
      <4>4. Rec(n + (m + 1))' = writes'[n + (m + 1)].run
        BY <1>4, <4>1
      <4> QED BY <1>5, <4>1, <4>2, <4>3, <4>4
    <3>3. s \notin S => executor'[e][s].phase = executor[e][s].phase
      BY <1>2 DEF PhasesBut
    <3> QED BY <1>3, <2>1, <3>1, <3>2, <3>3 DEF HoldsFor
  <2> QED BY <1>2, <2>1
<1>10. ASSUME NEW s \in Steps, executor'[e][s].phase \in Phase3, s \notin S, NEW k \in 1 .. m + 1
       PROVE  OnRecord(Rec(n + k), s)'
  BY <1>4, <1>5, <1>9, <1>10 DEF OnRecord
<1>11. ASSUME NEW s \in Steps, executor'[e][s].phase \in {"waiting", "executing"},
              NEW i \in Positions'
       PROVE  OnRecord(Rec(i), s)'
  <2>1. s \notin S
    BY <1>2, <1>11
  <2>2. CASE i \in 0 .. n
    <3>1. executor[e][s].phase \in {"waiting", "executing"}
      BY <1>9, <1>11, <2>1 DEF Phase3
    <3>2. OnRecord(Rec(i), s)
      BY <1>4, <2>2, <3>1 DEF WorkRecorded
    <3> QED BY <1>4, <2>2, <3>2 DEF OnRecord
  <2>3. CASE \E k \in 1 .. m + 1 : i = n + k
    <3>1. PICK k \in 1 .. m + 1 : i = n + k
      BY <2>3
    <3>2. OnRecord(Rec(n + k), s)'
      BY <1>10, <1>11, <2>1 DEF Phase3
    <3>3. Rec(i)' = Rec(n + k)'
      BY <3>1 DEF Rec
    <3> QED BY <3>2, <3>3 DEF OnRecord
  <2> QED BY <1>4, <1>7, <1>11, <2>2, <2>3
<1>12. ASSUME NEW s \in Steps, executor'[e][s].phase = "marking",
              NEW i \in Positions', NEW j \in Positions', By(i)' = Worker(e, s), i <= j
       PROVE  OnRecord(Rec(j), s)'
  <2>1. CASE i \in 0 .. n
    <3>1. By(i) = Worker(e, s) /\ By(i) # None
      BY <1>4, <1>12, <2>1, WritersAre, NoneIsNoCall
    <3>2. Awaits(Worker(e, s))
      BY <1>4, <2>1, <3>1 DEF WritersWait
    <3>3. s \notin S
      BY <1>3, <3>2, AwaitsIs
    <3>4. executor[e][s].phase = "marking"
      BY <1>9, <1>12, <3>3 DEF Phase3
    <3>5. CASE j \in 0 .. n
      <4>1. OnRecord(Rec(j), s)
        BY <1>4, <1>12, <2>1, <3>1, <3>4, <3>5 DEF WorkRecorded
      <4> QED BY <1>4, <3>5, <4>1 DEF OnRecord
    <3>6. CASE \E k \in 1 .. m + 1 : j = n + k
      <4>1. PICK k \in 1 .. m + 1 : j = n + k
        BY <3>6
      <4>2. OnRecord(Rec(n + k), s)'
        BY <1>10, <1>12, <3>3 DEF Phase3
      <4>3. Rec(j)' = Rec(n + k)'
        BY <4>1 DEF Rec
      <4> QED BY <4>2, <4>3 DEF OnRecord
    <3> QED BY <1>4, <1>7, <1>12, <3>5, <3>6
  <2>2. CASE \E k \in 1 .. m + 1 : i = n + k
    <3>1. PICK k \in 1 .. m + 1 : i = n + k
      BY <2>2
    <3>2. By(n + k)' = Worker(e, s)
      BY <1>12, <3>1 DEF By
    <3>3. PICK t \in S : /\ By(n + k)' = Worker(e, t)
                         /\ \A l \in k .. m + 1 : Rec(n + l)'.step[t] = "running"
      BY <1>6, <3>2, WritersAre
    <3>4. s = t
      BY <1>3, <3>2, <3>3, WritersAre
    <3>5. j - n \in k .. m + 1 /\ j = n + (j - n) /\ j - n \in 1 .. m + 1
      BY <1>4, <1>12, <3>1
    <3>6. PICK l \in k .. m + 1 : j = n + l /\ l \in 1 .. m + 1
      BY <3>5
    <3>7. OnRecord(Rec(n + l), s)'
      BY <1>5, <1>9, <1>12, <3>3, <3>4, <3>6 DEF OnRecord, Phase3
    <3>8. Rec(j)' = Rec(n + l)'
      BY <3>6 DEF Rec
    <3> QED BY <3>7, <3>8 DEF OnRecord
  <2> QED BY <1>4, <1>7, <1>12, <2>1, <2>2
<1> QED BY <1>8, <1>11, <1>12 DEF WorkRecorded, Phase3

LEMMA WritingMoves ==
    ASSUME Shape, NEW run, NEW w, Writing(run, w)
    PROVE  /\ ready' \in {ready, None}
           /\ \A d \in Calls, t \in Steps :
                 \/ Stays(d, t) /\ w # Worker(d, t)
                 \/ w = Worker(d, t) /\ (Opens(d, t) \/ Closes(d, t))
<1>1. ASSUME NEW c \in Calls, w = Caller(c), CallWrites(c, run)
      PROVE  /\ ready' \in {ready, None}
             /\ \A d \in Calls, t \in Steps : Stays(d, t) /\ w # Worker(d, t)
  BY <1>1, WritersAre DEF CallWrites, SamePhases, Stays
<1>2. ASSUME NEW c \in Calls, w = Loop(c), LaunchStep(c)
      PROVE  /\ ready' \in {ready, None}
             /\ \A d \in Calls, t \in Steps : Stays(d, t) /\ w # Worker(d, t)
  BY <1>2, WritersAre DEF LaunchStep, SamePhases, Stays
<1>3. ASSUME NEW e \in Calls, w = Loop(e), Loops(e), SamePhases
      PROVE  /\ ready' \in {ready, None}
             /\ \A d \in Calls, t \in Steps : Stays(d, t) /\ w # Worker(d, t)
  BY <1>3, WritersAre DEF Loops, SamePhases, Stays
<1>4. ASSUME NEW e \in Calls, NEW s \in Steps, w = Worker(e, s), StartsStep(e, s, run)
      PROVE  /\ ready' \in {ready, None}
             /\ \A d \in Calls, t \in Steps :
                   \/ Stays(d, t) /\ w # Worker(d, t)
                   \/ w = Worker(d, t) /\ Opens(d, t)
  <2>1. /\ Loops(e) /\ PhasesBut(e, {s}) /\ executor'[e][s].phase = "marking" /\ Quiet(e)
    BY <1>4 DEF StartsStep, LoopStarts
  <2>2. ready' = ready \/ (ready = Loop(e) /\ ready' = None)
    BY <2>1 DEF Loops
  <2>3. Opens(e, s)
    BY <2>1 DEF Opens, Quiet
  <2>4. ASSUME NEW d \in Calls, NEW t \in Steps, ~(d = e /\ t = s)
        PROVE  Stays(d, t) /\ w # Worker(d, t)
    BY <1>4, <2>1, <2>2, <2>4, WritersAre DEF PhasesBut, Stays
  <2> QED BY <1>4, <2>2, <2>3, <2>4
<1>5. ASSUME NEW e \in Calls, NEW s \in Steps, NEW outcome, w = Worker(e, s),
             ExecutorSettles(e, s, outcome, run)
      PROVE  /\ ready' \in {ready, None}
             /\ \A d \in Calls, t \in Steps :
                   \/ Stays(d, t) /\ w # Worker(d, t)
                   \/ w = Worker(d, t) /\ Closes(d, t)
  <2>1. /\ PhasesBut(e, {s}) /\ executor'[e][s].phase = "closing"
        /\ \/ executor[e][s].phase = "marking" /\ ready = Worker(e, s) /\ ready' = None
           \/ executor[e][s].phase \in {"waiting", "executing"} /\ ready' = ready
    BY <1>5 DEF ExecutorSettles
  <2>2. Closes(e, s)
    BY <2>1 DEF Closes, Phase3
  <2>3. ASSUME NEW d \in Calls, NEW t \in Steps, ~(d = e /\ t = s)
        PROVE  Stays(d, t) /\ w # Worker(d, t)
    BY <1>5, <2>1, <2>3, WritersAre DEF PhasesBut, Stays
  <2> QED BY <1>5, <2>1, <2>2, <2>3
<1>6. ASSUME NEW e \in Calls, w = Loop(e), LoopEnds(e, run) \/ \E B : LoopSkips(e, B, run)
      PROVE  Loops(e) /\ SamePhases
  BY <1>6 DEF LoopEnds, LoopSkips
<1> QED BY <1>1, <1>2, <1>3, <1>4, <1>5, <1>6 DEF Writing

(* Every effect keeps what is at work on record.                           *)
LEMMA WorkRecordedStep ==
    ASSUME Shape, Shape', CopyAgrees, CopyAgrees', WritersWait, RecordsFollow, WorkRecorded, Effect
    PROVE  WorkRecorded'
<1>1. ASSUME NEW run, NEW w, Writing(run, w)
      PROVE  WorkRecorded'
  <2>1. OneWrite(run, w)
    BY <1>1, WritingIs
  <2>2. ready' \in {ready, None}
    BY <1>1, WritingMoves
  <2>3. ASSUME NEW d \in Calls, NEW t \in Steps
        PROVE  /\ executor'[d][t].phase \in {"waiting", "executing"} =>
                    executor'[d][t].phase = executor[d][t].phase
               /\ executor'[d][t].phase = "marking" => executor[d][t].phase \in {"marking", "idle"}
    <3>1. Stays(d, t) \/ Opens(d, t) \/ Closes(d, t)
      BY <1>1, WritingMoves
    <3> QED BY <3>1 DEF Stays, Opens, Closes
  <2> QED BY <2>1, <2>2, <2>3, OneWriteRecorded
<1>2. ASSUME NEW e \in Calls, NEW S, NEW run, StartsSteps(e, S, run)
      PROVE  WorkRecorded'
  BY <1>2, ManyWritesRecorded
<1>3. CASE Keeping
  <2>1. UNCHANGED <<file, writes>> /\ ready' \in {ready, None}
    BY <1>3, KeepingIs
  <2>2. ASSUME NEW d \in Calls, NEW t \in Steps
        PROVE  /\ executor'[d][t].phase \in {"waiting", "executing"} =>
                    \/ executor[d][t].phase \in {"waiting", "executing"}
                    \/ executor[d][t].phase = "marking" /\ ready = Worker(d, t)
               /\ executor'[d][t].phase = "marking" => executor[d][t].phase = "marking"
    <3>1. \/ SamePhases \/ executor' = executor
          \/ \E e \in Calls, s \in Steps :
                /\ PhasesBut(e, {s})
                /\ \/ executor'[e][s].phase = "idle"
                   \/ /\ executor'[e][s].phase \in {"waiting", "executing"}
                      /\ \/ executor[e][s].phase = "marking" /\ ready = Worker(e, s)
                         \/ executor[e][s].phase = "waiting"
      BY <1>3 DEF Keeping, CallStep, ReadStep, BeginStep, LoopGoes, CloseStep, ExecutorGoes,
                  ExecutorReturns, AcceptStep, executions
    <3> QED BY <3>1 DEF SamePhases, PhasesBut
  <2> QED BY <2>1, <2>2, NoWriteRecorded
<1>4. CASE CrashStep
  BY <1>4 DEF CrashStep, WorkRecorded
<1>5. ASSUME NEW c \in Calls, RewriteStep(c)
      PROVE  WorkRecorded'
  <2>1. execution' = None /\ None \notin Calls
    BY <1>5, NoneIsNoCall DEF RewriteStep, memory
  <2>2. \A e \in Calls, s \in Steps : executor'[e][s].phase \notin Phase3
    BY <2>1, CurrentOnRecord
  <2> QED BY <2>2 DEF WorkRecorded, Phase3
<1> QED BY <1>1, <1>2, <1>3, <1>4, <1>5, EffectIs, WriteStepRecorded

-----------------------------------------------------------------------------
(* A step whose outcome is unknown stays on record as such.                *)
Doubtful(run, s) ==
    /\ s \in DOMAIN run.step /\ Mutates(run, s) /\ ~run.def.steps[s].safe
    /\ run.step[s] \in {"running", "interrupted"}

LEMMA SameDefinition ==
    ASSUME NEW q \in Runs, NEW r \in Runs, q.def = r.def
    PROVE  /\ DOMAIN q.step = DOMAIN r.step
           /\ \A s : Mutates(q, s) <=> Mutates(r, s)
BY RunForm DEF Mutates

(* A step whose outcome is unknown is running or interrupted in all records*)
LEMMA UnknownNow ==
    ASSUME Shape, RecordsFollow, UnknownKept, NEW s \in unknown
    PROVE  /\ file \in Runs /\ \A i \in Positions : Doubtful(Rec(i), s)
           /\ runs # None => copy[runs].step[s] = "interrupted" /\ s \in DOMAIN copy[runs].step
<1>1. file \in Runs
  BY DEF Shape, TypeOK, UnknownKept
<1>2. \A i \in Positions : Doubtful(Rec(i), s)
  BY DEF UnknownKept, Doubtful
<1> QED BY <1>1, <1>2, LastIs DEF UnknownKept, Doubtful

LEMMA WritingKeeps ==
    ASSUME Shape, CopyAgrees, RecordsFollow, WorkRecorded, UnknownKept,
           NEW run, NEW w, Writing(run, w), NEW s \in unknown'
    PROVE  /\ run.step[s] = "interrupted"
           /\ \/ s \in unknown
              \/ /\ \A i \in Positions : OnRecord(Rec(i), s)
                 /\ Mutates(run, s) /\ ~run.def.steps[s].safe
<1>1. ASSUME NEW c \in Calls, CallWrites(c, run)
      PROVE  run.step[s] = "interrupted" /\ s \in unknown
  <2>1. run \in Runs /\ (unknown' = unknown \/ unknown' = {})
    BY <1>1 DEF CallWrites
  <2>2. s \in unknown /\ unknown' # {}
    BY <2>1
  <2>3. runs = None => call[c].pc = "loaded" /\ runs' = c /\ copy[c] = file
    BY <1>1 DEF CallWrites, Shape, CallsShape, CallShape
  <2>4. runs # None => runs' = runs
    BY <1>1 DEF CallWrites
  <2>5. copy[runs'].step[s] = "interrupted" /\ copy[runs'] # None
    <3>1. CASE runs = None
      <4>1. copy[c] = Rec(0) /\ 0 \in Positions
        BY <2>3, <3>1, LastIs
      <4> QED BY <2>2, <2>3, <3>1, <4>1, UnknownNow, NoneIsNoCall DEF UnknownKept
    <3>2. CASE runs # None
      BY <2>2, <2>4, <3>2, UnknownNow, LastIs
    <3> QED BY <3>1, <3>2
  <2>6. s \in DOMAIN copy[runs'].step /\ Mutates(copy[runs'], s) /\ ~copy[runs'].def.steps[s].safe
    <3>1. CASE runs = None
      <4>1. copy[c] = Rec(0) /\ 0 \in Positions
        BY <2>3, <3>1, LastIs
      <4> QED BY <2>2, <2>3, <3>1, <4>1, UnknownNow DEF Doubtful
    <3>2. CASE runs # None
      BY <2>2, <2>4, <3>2, UnknownNow, LastIs DEF Doubtful
    <3> QED BY <3>1, <3>2
  <2>7. s \in Unconfirmed(copy[runs'])
    BY <2>5, <2>6 DEF Unconfirmed
  <2>8. /\ Varies(run, copy[runs'])
        /\ \A t \in DOMAIN run.step : copy[runs'].step[t] = "interrupted" => run.step[t] = "interrupted"
    BY <1>1, <2>1, <2>2, <2>5, <2>7, CallWritesRun
  <2> QED BY <2>2, <2>5, <2>6, <2>8 DEF Varies
<1>2. ASSUME NEW c \in Calls, LaunchStep(c), run = WithState(copy[runs], "running")
      PROVE  run.step[s] = "interrupted" /\ s \in unknown
  <2>1. unknown' = unknown /\ runs # None /\ copy[runs] \in Runs
    BY <1>2, NoneIsNoCall DEF LaunchStep
  <2>2. run.step = copy[runs].step
    BY <1>2, <2>1, WithStateIs DEF RunStates
  <2> QED BY <2>1, <2>2, UnknownNow
<1>3. ASSUME NEW e \in Calls, AtWork(e), unknown' = unknown,
             \A t \in DOMAIN copy[runs].step :
                copy[runs].step[t] = "interrupted" => run.step[t] = "interrupted"
      PROVE  run.step[s] = "interrupted" /\ s \in unknown
  BY <1>3, HoldsNow, UnknownNow
<1>4. ASSUME NEW e \in Calls, LoopEnds(e, run)
      PROVE  run.step[s] = "interrupted" /\ s \in unknown
  <2>1. AtWork(e) /\ unknown' = unknown /\ copy[runs] \in Runs
        /\ run \in {finalized(copy[runs]), verdict(copy[runs]), WithState(copy[runs], "failed")}
    BY <1>4 DEF LoopEnds, Loops, AtWork
  <2>2. \A t \in DOMAIN copy[runs].step :
                copy[runs].step[t] = "interrupted" => run.step[t] = "interrupted"
    BY <2>1, FinalizedIs, VerdictIs, WithStateIs DEF RunStates
  <2> QED BY <1>3, <2>1, <2>2
<1>5. ASSUME NEW e \in Calls, NEW B, LoopSkips(e, B, run)
      PROVE  run.step[s] = "interrupted" /\ s \in unknown
  <2>1. AtWork(e) /\ unknown' = unknown /\ copy[runs] \in Runs
    BY <1>5 DEF LoopSkips, Loops, AtWork
  <2>2. run = Marked(copy[runs], B, "skipped") /\ \A t \in B : copy[runs].step[t] = "pending"
    BY <1>5 DEF LoopSkips
  <2>3. \A t \in DOMAIN copy[runs].step :
                copy[runs].step[t] = "interrupted" => run.step[t] = "interrupted"
    BY <2>1, <2>2, MarkedIs DEF StepStates
  <2> QED BY <1>3, <2>1, <2>3
<1>6. ASSUME NEW e \in Calls, NEW u \in Steps, StartsStep(e, u, run)
      PROVE  run.step[s] = "interrupted" /\ s \in unknown
  <2>1. AtWork(e) /\ unknown' = unknown /\ copy[runs] \in Runs
        /\ run = Marked(copy[runs], {u}, "running") /\ u \in DOMAIN copy[runs].step
    BY <1>6 DEF StartsStep, LoopStarts, Loops, AtWork
  <2>2. copy[runs].step[u] # "interrupted"
    <3>1. HoldsFor(e)
      BY <2>1, HoldsNow
    <3>2. Ahead(e, u) /\ Sequential(copy[runs])
      BY <1>6 DEF StartsStep, Ahead
    <3> QED BY <2>1, <3>1, <3>2 DEF HoldsFor, Unbegun
  <2>3. \A t \in DOMAIN copy[runs].step :
                copy[runs].step[t] = "interrupted" => run.step[t] = "interrupted"
    BY <2>1, <2>2, MarkedIs DEF StepStates
  <2> QED BY <1>3, <2>1, <2>3
<1>7. ASSUME NEW e \in Calls, NEW u \in Steps, NEW outcome, ExecutorSettles(e, u, outcome, run)
      PROVE  /\ run.step[s] = "interrupted"
             /\ \/ s \in unknown
                \/ /\ \A i \in Positions : OnRecord(Rec(i), s)
                   /\ Mutates(run, s) /\ ~run.def.steps[s].safe
  <2>1. /\ AtWork(e) /\ copy[runs] \in Runs /\ u \in DOMAIN copy[runs].step
        /\ run = WithStep(copy[runs], u, outcome) /\ outcome \in StepStates
        /\ executor[e][u].phase \in Phase3
    BY <1>7 DEF ExecutorSettles, AtWork, StepStates, Phase3
  <2>2. /\ HoldsFor(e) /\ runs # None /\ copy[runs].step[u] = "running"
    BY <2>1, HoldsNow DEF HoldsFor
  <2>3. /\ Varies(run, copy[runs]) /\ run.step = [copy[runs].step EXCEPT ![u] = outcome]
    BY <2>1, WithStepIs
  <2>4. CASE s \in unknown
    <3>1. s \in DOMAIN copy[runs].step /\ copy[runs].step[s] = "interrupted"
      BY <2>2, <2>4, UnknownNow
    <3> QED BY <2>2, <2>3, <2>4, <3>1
  <2>5. CASE s \notin unknown
    <3>1. /\ s = u /\ outcome = "interrupted" /\ executor[e][u].phase = "executing"
          /\ Mutates(copy[runs], s) /\ ~copy[runs].def.steps[s].safe
      BY <1>7, <2>5 DEF ExecutorSettles
    <3>2. run.step[s] = "interrupted"
      BY <2>1, <2>3, <3>1
    <3>3. Mutates(run, s) /\ ~run.def.steps[s].safe
      BY <2>3, <3>1 DEF Varies, Mutates
    <3>4. \A i \in Positions : OnRecord(Rec(i), s)
      BY <3>1 DEF WorkRecorded
    <3> QED BY <3>2, <3>3, <3>4
  <2> QED BY <2>4, <2>5
<1> QED BY <1>1, <1>2, <1>4, <1>5, <1>6, <1>7 DEF Writing

LEMMA OneWriteUnknown ==
    ASSUME Shape, Shape', RecordsFollow, UnknownKept, NEW run, NEW w, OneWrite(run, w),
           \A s \in unknown' :
              /\ run.step[s] = "interrupted"
              /\ \/ s \in unknown
                 \/ /\ \A i \in Positions : OnRecord(Rec(i), s)
                    /\ Mutates(run, s) /\ ~run.def.steps[s].safe
    PROVE  UnknownKept'
<1>1. PICK n : n = Len(writes) + 1
  OBVIOUS
<1>2. /\ Positions' = Positions \union {n} /\ n \notin Positions
      /\ \A i \in Positions : Rec(i)' = Rec(i)
      /\ Rec(n)' = run /\ 0 \in Positions /\ Rec(0) = file
      /\ runs' # None /\ copy'[runs'] = run /\ run \in Runs /\ file' = file
  BY <1>1, OneWriteIs, LastIs, NoneIsNoCall, ZenonT(60) DEF OneWrite, Rec
<1>3. ASSUME NEW s \in unknown'
      PROVE  /\ file \in Runs /\ Doubtful(run, s)
             /\ \A i \in Positions : Doubtful(Rec(i), s)
  <2>1. ASSUME NEW i \in Positions, Rec(i) # None
        PROVE  Rec(i) \in Runs /\ Rec(i).def = run.def
    <3>1. writes \in Seq([run : Runs, by : Writers]) /\ (i # 0 => i \in 1 .. Len(writes))
      BY DEF Shape, TypeOK, Positions
    <3>2. i # 0 => writes[i] \in [run : Runs, by : Writers]
      BY <3>1, ElementIs
    <3> QED BY <2>1, <3>2 DEF OneWrite, Rec, Shape, TypeOK
  <2>2. CASE s \in unknown
    <3>1. file \in Runs /\ \A i \in Positions : Doubtful(Rec(i), s)
      BY <2>2, UnknownNow
    <3>2. file.def = run.def
      BY <1>2, <2>1, <3>1, NoneIsNoCall
    <3> QED BY <1>2, <3>1, <3>2, SameDefinition DEF Doubtful
  <2>3. CASE s \notin unknown
    <3>1. /\ \A i \in Positions : OnRecord(Rec(i), s)
          /\ Mutates(run, s) /\ ~run.def.steps[s].safe /\ run.step[s] = "interrupted"
      BY <2>3
    <3>2. ASSUME NEW i \in Positions
          PROVE  Doubtful(Rec(i), s) /\ s \in DOMAIN run.step
      <4>1. Rec(i) # None /\ s \in DOMAIN Rec(i).step /\ Rec(i).step[s] = "running"
        BY <3>1 DEF OnRecord
      <4>2. Rec(i) \in Runs /\ Rec(i).def = run.def
        BY <2>1, <4>1
      <4> QED BY <1>2, <3>1, <4>1, <4>2, SameDefinition DEF Doubtful
    <3>3. file \in Runs
      BY <1>2, <2>1, <3>1 DEF OnRecord
    <3> QED BY <1>2, <3>1, <3>2, <3>3 DEF Doubtful
  <2> QED BY <2>2, <2>3
<1>4. ASSUME NEW s \in unknown', NEW i \in Positions'
      PROVE  Doubtful(Rec(i)', s)
  BY <1>2, <1>3
<1>5. \A c \in Calls : ~Reading(c)'
  BY <1>2 DEF Shape, CallsShape, CallShape
<1> QED BY <1>2, <1>3, <1>4, <1>5, NoneIsNoCall DEF UnknownKept, Doubtful, Reading, Mutates

LEMMA NoWriteUnknown ==
    ASSUME Shape, RecordsFollow, UnknownKept, file' = file, writes' = writes, unknown' = unknown,
           \A s \in unknown :
              /\ runs' # None => copy'[runs'].step[s] = "interrupted"
              /\ \A c \in Calls :
                    call'[c].pc \in {"rewriting", "loaded"} => copy'[c].step[s] = "interrupted"
    PROVE  UnknownKept'
<1>1. Positions' = Positions /\ \A i \in Positions : Rec(i)' = Rec(i)
  BY DEF Positions, Rec
<1> QED BY <1>1 DEF UnknownKept, Mutates

LEMMA KeepingUnknown ==
    ASSUME Shape, RecordsFollow, UnknownKept, Keeping
    PROVE  UnknownKept'
<1>1. ASSUME NEW c \in Calls, CallStep(c)
      PROVE  UnknownKept'
  <2>1. /\ UNCHANGED <<file, writes, copy, unknown>> /\ OneCall(c)
        /\ call'[c].pc \notin {"rewriting", "loaded"}
        /\ runs' = runs \/ (runs' = c /\ call[c].pc = "loaded")
    BY <1>1 DEF CallStep
  <2>2. \A s \in unknown : runs' # None => copy'[runs'].step[s] = "interrupted"
    BY <2>1 DEF UnknownKept
  <2>3. \A s \in unknown, d \in Calls :
           call'[d].pc \in {"rewriting", "loaded"} => copy'[d].step[s] = "interrupted"
    BY <2>1 DEF UnknownKept, OneCall
  <2> QED BY <2>1, <2>2, <2>3, NoWriteUnknown
<1>2. ASSUME NEW c \in Calls, ReadStep(c)
      PROVE  UnknownKept'
  <2>1. /\ UNCHANGED <<file, writes, unknown>> /\ OneCall(c) /\ runs' = None
        /\ copy' = [copy EXCEPT ![c] = IF file = None THEN None ELSE Loaded(file)]
    BY <1>2 DEF ReadStep, executions
  <2>2. ASSUME NEW s \in unknown, NEW d \in Calls, call'[d].pc \in {"rewriting", "loaded"}
        PROVE  copy'[d].step[s] = "interrupted"
    <3>1. CASE d = c
      <4>1. 0 \in Positions /\ Rec(0) = file
        BY LastIs DEF Rec
      <4>2. file \in Runs /\ Doubtful(file, s)
        BY <4>1, UnknownNow
      <4>3. file.step[s] = "running" => file.state \in {"running", "canceling"}
        BY <4>1, <4>2, NoneIsNoCall DEF RecordsFollow, RunningIsOpen, HasRunning, Doubtful
      <4>4. copy'[c] = Loaded(file)
        BY <2>1, <4>2, NoneIsNoCall DEF Shape, TypeOK
      <4> QED BY <3>1, <4>2, <4>3, <4>4, LoadedIs DEF Doubtful
    <3>2. CASE d # c
      BY <2>1, <2>2, <3>2 DEF OneCall, UnknownKept, Shape, TypeOK
    <3> QED BY <3>1, <3>2
  <2> QED BY <2>1, <2>2, NoWriteUnknown
<1>3. ASSUME UNCHANGED <<file, writes, copy, runs, unknown>>,
             \A c \in Calls : call'[c].pc = call[c].pc \/ call'[c].pc = "begun"
      PROVE  UnknownKept'
  <2>1. \A s \in unknown : runs' # None => copy'[runs'].step[s] = "interrupted"
    BY <1>3 DEF UnknownKept
  <2>2. \A s \in unknown, d \in Calls :
           call'[d].pc \in {"rewriting", "loaded"} => copy'[d].step[s] = "interrupted"
    BY <1>3 DEF UnknownKept
  <2> QED BY <1>3, <2>1, <2>2, NoWriteUnknown
<1>4. ASSUME NEW c \in Calls, BeginStep(c)
      PROVE  UnknownKept'
  BY <1>3, <1>4 DEF BeginStep, memory, OneCall
<1>5. ASSUME NEW e \in Calls, LoopGoes(e) \/ CloseStep(e)
      PROVE  UnknownKept'
  BY <1>3, <1>5 DEF LoopGoes, Loops, AtWork, CloseStep
<1>6. ASSUME NEW e \in Calls, NEW s \in Steps, ExecutorGoes(e, s) \/ ExecutorReturns(e, s)
      PROVE  UnknownKept'
  BY <1>3, <1>6 DEF ExecutorGoes, ExecutorReturns, AtWork
<1> QED BY <1>1, <1>2, <1>3, <1>4, <1>5, <1>6 DEF Keeping, AcceptStep

LEMMA ManyWritesUnknown ==
    ASSUME Shape, Shape', CopyAgrees, RecordsFollow, UnknownKept,
           NEW e \in Calls, NEW S, NEW run, StartsSteps(e, S, run)
    PROVE  UnknownKept'
<1>1. PICK n, m : ManyWrites(e, S, n, m)
  BY ManyWritesIs
<1>2. /\ AtWork(e) /\ runs' = runs /\ unknown' = unknown /\ file' = file
      /\ \A s \in S : copy[runs].step[s] = "pending"
  BY DEF StartsSteps, LoopStarts, Loops, AtWork
<1>3. /\ runs # None /\ copy[runs] \in Runs
  BY <1>2, HoldsNow
<1>4. /\ n \in Nat /\ m \in Nat /\ Positions = 0 .. n /\ Positions' = 0 .. n + m + 1
      /\ \A i \in 0 .. n : Rec(i)' = Rec(i)
      /\ \A i \in 1 .. m + 1 : Rec(n + i)' = writes'[n + i].run
  BY <1>1, <1>2 DEF ManyWrites, Positions, Rec
<1>5. ASSUME NEW s \in unknown
      PROVE  /\ \A i \in Positions : Doubtful(Rec(i), s)
             /\ file # None /\ s \notin S /\ copy[runs].step[s] = "interrupted"
             /\ s \in DOMAIN copy[runs].step /\ Doubtful(copy[runs], s)
  BY <1>2, <1>3, UnknownNow, LastIs, NoneIsNoCall DEF Doubtful
<1>6. ASSUME NEW s \in unknown, NEW i \in 1 .. m + 1
      PROVE  writes'[n + i].run.step[s] = "interrupted" /\ Doubtful(writes'[n + i].run, s)
  <2>1. /\ Varies(writes'[n + i].run, copy[runs])
        /\ writes'[n + i].run.step[s] = copy[runs].step[s]
    BY <1>1, <1>5, <1>6 DEF ManyWrites
  <2> QED BY <1>5, <1>6, <2>1 DEF Varies, Doubtful, Mutates
<1>7. ASSUME NEW s \in unknown, NEW i \in Positions'
      PROVE  Doubtful(Rec(i)', s)
  <2>1. CASE i \in 0 .. n
    BY <1>4, <1>5, <2>1
  <2>2. CASE i \notin 0 .. n
    <3>1. i - n \in 1 .. m + 1 /\ i = n + (i - n)
      BY <1>4, <2>2
    <3>2. PICK k \in 1 .. m + 1 : i = n + k
      BY <3>1
    <3>3. Rec(n + k)' = writes'[n + k].run
      BY <1>4
    <3>4. Rec(i)' = Rec(n + k)'
      BY <3>2 DEF Rec
    <3> QED BY <1>6, <3>3, <3>4
  <2> QED BY <2>1, <2>2
<1>8. ASSUME NEW s \in unknown
      PROVE  copy'[runs'].step[s] = "interrupted"
  <2>1. m + 1 \in 1 .. m + 1 /\ n + (m + 1) = n + m + 1
    BY <1>4
  <2>2. copy'[runs] = writes'[n + (m + 1)].run
    BY <1>1, <2>1 DEF ManyWrites
  <2> QED BY <1>2, <1>6, <1>8, <2>1, <2>2
<1>9. \A c \in Calls : ~Reading(c)'
  BY <1>2, <1>3 DEF Shape, CallsShape, CallShape
<1>10. unknown' # {} => file' # None
  BY <1>2, <1>5
<1> QED BY <1>2, <1>7, <1>8, <1>9, <1>10 DEF UnknownKept, Doubtful, Reading, Mutates

(* Every effect keeps what is unknown on record as such.                   *)
LEMMA UnknownKeptStep ==
    ASSUME Shape, Shape', CopyAgrees, RecordsFollow, WorkRecorded, UnknownKept, Effect
    PROVE  UnknownKept'
<1>1. ASSUME NEW run, NEW w, Writing(run, w)
      PROVE  UnknownKept'
  BY <1>1, WritingIs, WritingKeeps, OneWriteUnknown
<1>2. CASE WriteStep
  <2>1. /\ Positions' = 0 .. Len(writes) - 1 /\ Positions = 0 .. Len(writes) /\ Len(writes) \in Nat \ {0}
        /\ \A i \in 0 .. Len(writes) - 1 : Rec(i)' = Rec(i + 1)
        /\ UNCHANGED <<runs, copy, call, unknown>> /\ file' # None
    BY <1>2, NoneIsNoCall DEF WriteStep, memory, Positions, Rec
  <2>2. ASSUME NEW s \in unknown, NEW i \in Positions'
        PROVE  Doubtful(Rec(i)', s)
    <3>1. i + 1 \in Positions /\ Rec(i)' = Rec(i + 1)
      BY <2>1
    <3> QED BY <3>1, UnknownNow
  <2>3. \A s \in unknown : /\ runs # None => copy[runs].step[s] = "interrupted"
                           /\ \A c \in Calls : call[c].pc \in {"rewriting", "loaded"} =>
                                copy[c].step[s] = "interrupted"
    BY DEF UnknownKept
  <2> QED BY <2>1, <2>2, <2>3 DEF UnknownKept, Doubtful, Mutates
<1>3. CASE CrashStep
  <2>1. /\ file' = file /\ runs' = None /\ Positions' = {0} /\ Rec(0)' = file
        /\ unknown' = unknown \union {s \in Steps : \E e \in Calls : CutOff(e, s)}
        /\ \A c \in Calls : call'[c].pc \in {"idle", "done"}
    <3>1. writes' = <<>>
      BY <1>3 DEF CrashStep
    <3>2. Len(writes') = 0
      BY <3>1
    <3> QED BY <1>3, <3>2 DEF CrashStep, Positions, Rec
  <2>2. 0 \in Positions /\ Rec(0) = file
    BY LastIs DEF Rec
  <2>3. ASSUME NEW s \in Steps, NEW e \in Calls, CutOff(e, s)
        PROVE  file # None /\ Doubtful(file, s)
    <3>1. /\ Run(e) = copy[runs] /\ runs \in Calls /\ copy[runs] \in Runs
          /\ s \in DOMAIN copy[runs].step /\ file # None
      <4>1. executor[e][s].phase # "idle"
        BY <2>3 DEF CutOff
      <4>2. execution = e /\ e # None
        BY <4>1, ExecutorIs, NoneIsNoCall
      <4> QED BY <4>1, <4>2, ExecutorIs DEF Shape, ExecutionShape
    <3>2. Mutates(copy[runs], s) /\ ~copy[runs].def.steps[s].safe
      BY <2>3, <3>1 DEF CutOff, Step
    <3>3. file.step[s] = "running"
      <4>1. executor[e][s].phase = "executing" => OnRecord(Rec(0), s)
        BY <2>2 DEF WorkRecorded
      <4> QED BY <2>2, <2>3, <4>1 DEF CutOff, OnRecord
    <3>4. file \in Runs /\ file.def = copy[runs].def
      BY <2>2, <3>1, LastIs, NoneIsNoCall DEF Shape, TypeOK
    <3> QED BY <3>1, <3>2, <3>3, <3>4, SameDefinition DEF Doubtful
  <2>4. ASSUME NEW s \in unknown'
        PROVE  file # None /\ Doubtful(file, s)
    <3>1. CASE s \in unknown
      BY <2>2, <3>1, UnknownNow, NoneIsNoCall
    <3>2. CASE s \notin unknown
      <4>1. s \in Steps /\ \E e \in Calls : CutOff(e, s)
        BY <2>1, <3>2
      <4> QED BY <2>3, <4>1
    <3> QED BY <3>1, <3>2
  <2> QED BY <2>1, <2>4 DEF UnknownKept, Doubtful, Mutates
<1>4. ASSUME NEW c \in Calls, RewriteStep(c)
      PROVE  UnknownKept'
  <2>1. /\ runs' = None /\ UNCHANGED <<copy, unknown>> /\ OneCall(c)
        /\ call[c].pc = "rewriting" /\ file' = copy[c] /\ file' \in Runs
        /\ file \in Runs /\ copy[c] = Loaded(file) /\ writes' = <<>>
    BY <1>4 DEF RewriteStep, memory
  <2>2. Len(writes') = 0
    BY <2>1
  <2>3. Positions' = {0} /\ Rec(0)' = copy[c]
    BY <2>1, <2>2 DEF Positions, Rec
  <2>4. ASSUME NEW s \in unknown
        PROVE  copy[c].step[s] = "interrupted" /\ Doubtful(copy[c], s)
    <3>1. 0 \in Positions /\ Rec(0) = file
      BY LastIs DEF Rec
    <3>2. Doubtful(file, s)
      BY <3>1, UnknownNow
    <3>3. copy[c].def = file.def
      BY <2>1, LoadedIs DEF Varies
    <3>4. copy[c].step[s] = "interrupted"
      BY <2>1 DEF UnknownKept
    <3> QED BY <2>1, <3>2, <3>3, <3>4, SameDefinition DEF Doubtful
  <2>5. \A s \in unknown, d \in Calls : call'[d].pc \in {"rewriting", "loaded"} =>
              copy'[d].step[s] = "interrupted"
    BY <2>1, <2>4 DEF UnknownKept, OneCall
  <2> QED BY <2>1, <2>3, <2>4, <2>5, NoneIsNoCall DEF UnknownKept, Doubtful, Mutates
<1> QED BY <1>1, <1>2, <1>3, <1>4, EffectIs, KeepingUnknown, ManyWritesUnknown

-----------------------------------------------------------------------------
(* One start launches.                                                     *)
LEMMA NoNewStart ==
    ASSUME OneStart, file # None => file' # None,
           \A c \in Calls : Started(c)' =>
              Started(c) /\ (exec'[c].pc # "none" => exec[c].pc # "none" \/ file' # None)
    PROVE  OneStart'
BY DEF OneStart

(* Every effect keeps the only start that launches.                        *)
LEMMA OneStartStep ==
    ASSUME Shape, OneStart, Effect
    PROVE  OneStart'
<1>1. ASSUME NEW c \in Calls, CallStep(c)
      PROVE  OneStart'
  <2>1. \A d \in Calls : Started(d)' => Started(d)
    BY <1>1 DEF CallStep, OneCall, Started
  <2> QED BY <1>1, <2>1, NoNewStart DEF CallStep
<1>2. ASSUME NEW c \in Calls, NEW run, CallWrites(c, run)
      PROVE  OneStart'
  <2>1. UNCHANGED <<file, exec>> /\ OneCall(c) /\ call'[c].op = call[c].op
    BY <1>2 DEF CallWrites
  <2>2. CASE Started(c)' /\ ~Started(c)
    <3>1. call[c].pc = "loaded" /\ copy[c] = None /\ runs = None
      BY <1>2, <2>2 DEF CallWrites, Started
    <3>2. file = None /\ \A d \in Calls \ {c} : ~Busy(d)
      BY <3>1 DEF Shape, CallsShape, CallShape, Reading
    <3>3. \A d \in Calls : ~Started(d)
      BY <2>2, <3>2 DEF OneStart, Started, Busy
    <3>4. \A d \in Calls \ {c} : ~Started(d)'
      BY <2>1, <3>3 DEF OneCall, Started
    <3>5. exec'[c].pc = "none"
      BY <2>1, <3>1 DEF Shape, CallsShape, CallShape
    <3> QED BY <3>4, <3>5 DEF OneStart
  <2>3. CASE Started(c)' => Started(c)
    <3>1. \A d \in Calls : Started(d)' => Started(d)
      BY <2>1, <2>3 DEF OneCall, Started
    <3> QED BY <2>1, <3>1, NoNewStart
  <2> QED BY <2>2, <2>3
<1>3. ASSUME NEW c \in Calls, LaunchStep(c)
      PROVE  OneStart'
  <2>1. file' # None
    BY <1>3, WritersAre, NoneIsNoCall DEF LaunchStep, Shape, ExecutionShape
  <2>2. \A d \in Calls : Started(d)' => Started(d)
    BY <1>3 DEF LaunchStep, OneCall, OneExecution, Started
  <2> QED BY <2>1, <2>2, NoNewStart
<1>4. ASSUME NEW c \in Calls, BeginStep(c)
      PROVE  OneStart'
  <2>1. exec'[c].pc = "none" /\ call'[c].pc = "begun" /\ UNCHANGED <<file, exec>> /\ OneCall(c)
    BY <1>4 DEF BeginStep, Shape, CallsShape, CallShape
  <2>2. \A d \in Calls : Started(d)' => Started(d)
    BY <2>1 DEF OneCall, Started
  <2> QED BY <2>1, <2>2, NoNewStart
<1>5. ASSUME NEW c \in Calls, ReadStep(c) \/ RewriteStep(c)
      PROVE  OneStart'
  <2>1. /\ exec' = exec /\ OneCall(c) /\ call'[c].op = call[c].op
        /\ call'[c].pc \in {"rewriting", "loaded"} /\ (file # None => file' # None)
    BY <1>5, NoneIsNoCall DEF ReadStep, RewriteStep, memory, executions
  <2>2. \A d \in Calls : Started(d)' => Started(d)
    BY <2>1 DEF OneCall, Started
  <2> QED BY <2>1, <2>2, NoNewStart
<1>6. ASSUME NEW e \in Calls, exec[e].pc # "none", OneExecution(e), call' = call, file' = file
      PROVE  OneStart'
  <2>1. \A d \in Calls : Started(d)' => Started(d)
    BY <1>6 DEF OneExecution, Started
  <2> QED BY <1>6, <2>1, NoNewStart DEF OneExecution
<1>7. ASSUME NEW e \in Calls, AtWork(e)
      PROVE  OneStart'
  <2>1. exec[e].pc # "none"
    BY <1>7 DEF AtWork, Shape, ExecutionShape, ExecShape, Live
  <2> QED BY <1>6, <1>7, <2>1 DEF AtWork
<1>8. ASSUME NEW e \in Calls, LoopTurn(e)
      PROVE  OneStart'
  <2>1. CloseStep(e) \/ AtWork(e)
    BY <1>8 DEF LoopTurn, LoopGoes, LoopEnds, LoopSkips, StartsStep, StartsSteps, LoopStarts, Loops
  <2> QED BY <1>6, <1>7, <2>1 DEF CloseStep
<1>9. ASSUME NEW e \in Calls, NEW s \in Steps, ExecutorStep(e, s)
      PROVE  OneStart'
  BY <1>7, <1>9 DEF ExecutorStep, ExecutorGoes, ExecutorSettles, ExecutorReturns
<1>10. CASE WriteStep
  <2>1. UNCHANGED <<call, exec>> /\ file' # None
    BY <1>10, NoneIsNoCall DEF WriteStep
  <2> QED BY <2>1, NoNewStart DEF Started
<1>11. CASE CrashStep
  <2>1. \A d \in Calls : Started(d)' => Started(d) /\ (exec'[d].pc # "none" => exec[d].pc # "none")
    BY <1>11 DEF CrashStep, Started
  <2> QED BY <1>11, <2>1, NoNewStart DEF CrashStep
<1>12. CASE AcceptStep
  BY <1>12, NoNewStart DEF AcceptStep, Started
<1> QED BY <1>1, <1>2, <1>3, <1>4, <1>5, <1>8, <1>9, <1>10, <1>11, <1>12 DEF Effect, CallTurn

-----------------------------------------------------------------------------
(* The invariant.                                                          *)
LEMMA InitInv == Init => WorkflowInv
<1> SUFFICES ASSUME Init PROVE WorkflowInv
  OBVIOUS
<1>1. Shape
  BY InitShape
<1>2. Len(writes) = 0
  BY DEF Init
<1>3. Positions = {0} /\ Rec(0) = None /\ By(0) = None
  BY <1>2 DEF Init, Positions, Rec, By
<1>4. WritersWait /\ RecordsFollow
  BY <1>3 DEF Init, WritersWait, RecordsFollow
<1>5. CopyAgrees
  BY DEF Init, NewCall, NoExecution, Idle, CopyAgrees, RunningIsHeld, ExecutorsAgree, OpenWhileLive,
         ReadIsAtRest, LaunchIsFresh, AheadIsUnbegun, Live, Launching, Phase3
<1>6. WorkRecorded /\ UnknownKept /\ OneStart
  BY DEF Init, NewCall, NoExecution, Idle, WorkRecorded, UnknownKept, OneStart, Started
<1> QED BY <1>1, <1>4, <1>5, <1>6 DEF WorkflowInv, Shape

(* The invariant is inductive.                                             *)
LEMMA InvStep ==
    ASSUME ~CallsOverlap, TypeOK, WorkflowInv, [Next]_vars
    PROVE  TypeOK' /\ WorkflowInv'
<1>1. Shape /\ Shape' /\ Effect
  BY NextIs DEF Shape, WorkflowInv
<1>2. CopyAgrees'
  BY <1>1, CopyAgreesStep DEF WorkflowInv
<1>3. WritersWait' /\ RecordsFollow'
  BY <1>1, WritersWaitStep, RecordsFollowStep DEF WorkflowInv
<1>4. WorkRecorded'
  BY <1>1, <1>2, WorkRecordedStep DEF WorkflowInv
<1>5. UnknownKept' /\ OneStart'
  BY <1>1, UnknownKeptStep, OneStartStep DEF WorkflowInv
<1> QED BY <1>1, <1>2, <1>3, <1>4, <1>5 DEF WorkflowInv, Shape

(* The types: the control of calls, executions and executors is of their   *)
(* shape, and each refers to a copy, an execution or a step that is there. *)
THEOREM Typing ==
    ASSUME ~CallsOverlap
    PROVE  Spec => []TypeOK
BY ShapeInvariant, PTL

(* The invariant: one execution at most, each writer waits for its own     *)
(* write in the queue, and what the copies in memory, the queued snapshots *)
(* and the file say of a step follows the executor that works on it.       *)
THEOREM Invariance ==
    ASSUME ~CallsOverlap
    PROVE  Spec => []WorkflowInv
<1>1. Init => TypeOK /\ WorkflowInv
  BY InitShape, InitInv DEF Shape
<1>2. TypeOK /\ WorkflowInv /\ [Next]_vars => (TypeOK /\ WorkflowInv)'
  BY InvStep
<1> QED BY <1>1, <1>2, PTL DEF Spec

-----------------------------------------------------------------------------
(* What the invariant says of executors, and the properties.               *)
LEMMA WorkIs ==
    ASSUME TypeOK, WorkflowInv, NEW s \in Steps, Executing(s)
    PROVE  /\ runs # None /\ copy[runs].step[s] = "running"
           /\ copy[runs].state \in {"running", "canceling"}
           /\ OnRecord(file, s)
<1>1. PICK e \in Calls : executor[e][s].phase = "executing"
  BY DEF Executing
<1>2. Shape
  BY DEF Shape, WorkflowInv
<1>3. Live(e) /\ runs \in Calls /\ exec[e].pc # "ending"
  BY <1>1, <1>2, ExecutorIs DEF Shape, ExecutionShape, ExecShape, Quiet
<1>4. 0 \in Positions /\ Rec(0) = file
  BY <1>2, LastIs DEF WorkflowInv, Rec
<1> QED BY <1>1, <1>3, <1>4, NoneIsNoCall
        DEF WorkflowInv, CopyAgrees, ExecutorsAgree, OpenWhileLive, WorkRecorded, Phase3

(* A run reported succeeded, failed or canceled has no executor at work,   *)
(* whatever calls, callbacks and crashes came in between (execute writes   *)
(* its outcome when its executors have returned).                          *)
THEOREM QuietAtTheEnd ==
    ASSUME ~CallsOverlap
    PROVE  Spec => []EndIsQuiet
<1>1. TypeOK /\ WorkflowInv => EndIsQuiet
  BY WorkIs DEF EndIsQuiet
<1> QED BY <1>1, Typing, Invariance, PTL

(* cancel returns for a canceled run when no executor of it is at work.    *)
THEOREM CancelWaits ==
    ASSUME ~CallsOverlap
    PROVE  Spec => CancelSettles
<1>1. TypeOK /\ WorkflowInv => EndIsQuiet
  BY WorkIs DEF EndIsQuiet
<1>2. EndIsQuiet /\ [Next]_vars => [\A c \in Calls :
          call[c].op = "cancel" /\ Busy(c) /\ ~Busy(c)' /\ crashes' = crashes
          /\ runs # None /\ copy[runs].state = "canceled"
          => \A s \in Steps : ~Executing(s)]_vars
  BY DEF EndIsQuiet
<1> QED BY <1>1, <1>2, Typing, Invariance, PTL DEF Spec, CancelSettles

(* A step at work is running in memory and in the run file: no caller is   *)
(* told of an end, and a runtime that finds the file after a crash calls   *)
(* the step interrupted, never pending or succeeded.                       *)
THEOREM WorkOnRecord ==
    ASSUME ~CallsOverlap
    PROVE  Spec => []WorkIsOnRecord
<1>1. ASSUME TypeOK, WorkflowInv
      PROVE  WorkIsOnRecord
  <2>1. ASSUME NEW s \in Steps, Executing(s)
        PROVE  runs # None /\ copy[runs] # None
    BY <1>1, <2>1, WorkIs, NoneIsNoCall DEF TypeOK, WorkflowInv, CopyAgrees
  <2> QED BY <1>1, <2>1, WorkIs DEF WorkIsOnRecord, OnRecord
<1> QED BY <1>1, Typing, Invariance, PTL

(* No executor is at work on a step whose mutation was cut off and neither *)
(* confirmed by a caller nor declared safe, across crashes (resume).       *)
THEOREM NoReplay ==
    ASSUME ~CallsOverlap
    PROVE  Spec => []NoUnconfirmedReplay
<1>1. ASSUME TypeOK, WorkflowInv
      PROVE  NoUnconfirmedReplay
  <2>1. ASSUME NEW s \in unknown, Executing(s)
        PROVE  FALSE
    <3>1. s \in Steps
      BY <1>1 DEF TypeOK
    <3>2. runs # None /\ copy[runs].step[s] = "running"
      BY <1>1, <2>1, <3>1, WorkIs
    <3> QED BY <1>1, <3>2 DEF WorkflowInv, UnknownKept
  <2> QED BY <2>1 DEF NoUnconfirmedReplay
<1> QED BY <1>1, Typing, Invariance, PTL

(* One start of a key launches an execution, whatever crashes between the  *)
(* write of the run and the launch (startDefinition).                      *)
THEOREM OneStartLaunches ==
    ASSUME ~CallsOverlap
    PROVE  Spec => []StartsOnce
<1>1. ASSUME OneStart
      PROVE  StartsOnce
  <2> DEFINE S == {c \in Calls : call[c].op = "start" /\ exec[c].pc # "none"}
  <2>1. \A c, d \in S : c = d
    BY <1>1 DEF OneStart, Started
  <2> HIDE DEF S
  <2>2. ASSUME S = {}
        PROVE  Cardinality(S) <= 1
    BY <2>2, FS_EmptySet
  <2>3. ASSUME S # {}
        PROVE  Cardinality(S) <= 1
    <3>1. PICK c : S = {c}
      BY <2>1, <2>3
    <3>2. Cardinality(S) = 1
      BY <3>1, FS_Singleton
    <3> QED BY <3>2
  <2>4. Cardinality(S) <= 1
    BY <2>2, <2>3
  <2> QED BY <2>4 DEF S, StartsOnce
<1>2. WorkflowInv => OneStart
  BY DEF WorkflowInv
<1> QED BY <1>1, <1>2, Invariance, PTL

(* Snapshots are written in their order, a resume keeps what succeeded, and*)
(* what is at work is running in the file.                                 *)
LEMMA PassedStep ==
    ASSUME ~CallsOverlap, TypeOK, WorkflowInv, [Next]_vars, NEW s \in Steps,
           file # None, s \in DOMAIN file.step, file.step[s] = "succeeded"
    PROVE  file'.step[s] = "succeeded" /\ (Executing(s)' => Executing(s))
<1>1. Shape /\ Shape' /\ Effect
  BY NextIs DEF Shape, WorkflowInv
<1>2. TypeOK' /\ WorkflowInv'
  BY InvStep
<1>3. file \in Runs /\ 0 \in Positions /\ Rec(0) = file
  BY <1>1, LastIs DEF Shape, TypeOK, Rec, WorkflowInv
<1>4. ASSUME file' = file
      PROVE  file'.step[s] = "succeeded"
  BY <1>4
<1>5. ASSUME WriteStep
      PROVE  file'.step[s] = "succeeded"
  <2>1. 0 + 1 \in Positions /\ Rec(0 + 1) = file'
    BY <1>5 DEF WriteStep, Positions, Rec
  <2>2. Follows(file, file')
    BY <1>3, <2>1 DEF WorkflowInv, RecordsFollow
  <2> QED BY <2>2 DEF Follows
<1>6. ASSUME NEW c \in Calls, RewriteStep(c)
      PROVE  file'.step[s] = "succeeded"
  BY <1>3, <1>6, LoadedIs DEF RewriteStep
<1>7. file'.step[s] = "succeeded"
  <2>1. ASSUME NEW run, NEW w, Writing(run, w)
        PROVE  file' = file
    BY <1>1, <2>1, WritingIs DEF OneWrite, WorkflowInv
  <2>2. ASSUME NEW e \in Calls, NEW S, NEW run, StartsSteps(e, S, run)
        PROVE  file' = file
    BY <2>2 DEF StartsSteps, LoopStarts, Loops, AtWork
  <2>3. CASE Keeping \/ CrashStep
    BY <1>1, <2>3, KeepingIs DEF CrashStep
  <2> QED BY <1>1, <1>4, <1>5, <1>6, <2>1, <2>2, <2>3, EffectIs
<1>8. ASSUME Executing(s)'
      PROVE  FALSE
  <2>1. PICK e \in Calls : executor'[e][s].phase = "executing"
    BY <1>8 DEF Executing
  <2>2. 0 \in Positions' /\ Rec(0)' = file'
    BY <1>2 DEF TypeOK, Positions, Rec
  <2>3. OnRecord(Rec(0), s)'
    BY <1>2, <2>1, <2>2 DEF WorkflowInv, WorkRecorded
  <2> QED BY <1>7, <2>2, <2>3 DEF OnRecord
<1> QED BY <1>7, <1>8

(* Once the file says that a step succeeded no write takes it back and no  *)
(* executor begins it again (persistRun, resume, executeOne).              *)
THEOREM PassedWorkStays ==
    ASSUME ~CallsOverlap
    PROVE  Spec => PassedStays
<1>1. TypeOK /\ WorkflowInv /\ [Next]_vars =>
        [\A s \in Steps :
          file # None /\ s \in DOMAIN file.step /\ file.step[s] = "succeeded" =>
              /\ file'.step[s] = "succeeded"
              /\ Executing(s)' => Executing(s)]_vars
  BY PassedStep
<1> QED BY <1>1, Typing, Invariance, PTL DEF Spec, PassedStays

-----------------------------------------------------------------------------
(* Runs that end have no step left over, for definitions listed in order.  *)
LEMMA Least ==
    ASSUME NEW T, T \subseteq Nat, T # {}
    PROVE  \E x \in T : \A y \in T : x <= y
<1> DEFINE R == OpToRel(<, Nat)
<1>1. IsWellFoundedOn(R, Nat)
  BY NatLessThanWellFounded
<1>2. \A x, y \in Nat : x < y => <<x, y>> \in R
  BY DEF OpToRel
<1> HIDE DEF R
<1>3. \E x \in T : \A y \in T : ~(<<y, x>> \in R)
  BY <1>1, WFMin
<1>4. \A x, y \in T : ~(y < x) => x <= y
  OBVIOUS
<1> QED BY <1>2, <1>3, <1>4

LEMMA DependenciesAre ==
    ASSUME ListedInOrder, NEW r \in Runs, NEW s \in DOMAIN r.step, NEW d \in r.def.steps[s].deps
    PROVE  d \in DOMAIN r.step /\ d < s /\ s \in Nat
BY RunForm, WorkflowAssumption DEF ListedInOrder

LEMMA StatesAre ==
    ASSUME NEW r \in Runs, NEW s \in DOMAIN r.step
    PROVE  r.step[s] \in StepStates
BY RunForm

(* Of a run with no step running or blocked, some pending step can start.  *)
LEMMA NotStuck ==
    ASSUME ListedInOrder, NEW r \in Runs, Closed(r), ~HasRunning(r), Startable(r, {}, {})
    PROVE  ~Stuck(r)
<1> DEFINE T == {s \in DOMAIN r.step : r.step[s] = "pending"}
<1> SUFFICES ASSUME T # {} PROVE FALSE
  BY DEF Stuck
<1>1. T \subseteq Nat
  BY RunForm, StepsAreNumbers
<1>2. PICK s \in T : \A t \in T : s <= t
  BY <1>1, Least
<1>3. ASSUME NEW d \in r.def.steps[s].deps
      PROVE  r.step[d] = "succeeded"
  <2>1. d \in DOMAIN r.step /\ d < s /\ s \in Nat /\ d \in Nat
    BY DependenciesAre, RunForm, StepsAreNumbers
  <2>2. r.step[d] # "pending"
    BY <1>2, <2>1
  <2>3. r.step[d] \in StepStates
    BY <2>1, StatesAre
  <2> QED BY <2>1, <2>2, <2>3 DEF Closed, HasRunning, StepStates
<1>4. Cardinality({}) < r.def.maxConcurrency
  BY RunForm, WorkflowAssumption, FS_EmptySet
<1>5. {} \union {t \in {} : t < s} = {}
  OBVIOUS
<1>6. s \in {}
  BY <1>3, <1>4, <1>5 DEF Startable
<1> QED BY <1>6

(* A run without a pending or running step is complete.                    *)
LEMMA CompleteIs ==
    ASSUME NEW r \in Runs
    PROVE  /\ ~HasRunning(r) /\ ~Stuck(r) => Complete(r)
           /\ Complete(finalized(r))
           /\ ~HasRunning(r) /\ ~Stuck(r) => Complete(verdict(r))
<1>1. \A s \in DOMAIN r.step : r.step[s] \in StepStates
  BY StatesAre
<1>2. ~HasRunning(r) /\ ~Stuck(r) => \A s \in DOMAIN r.step : r.step[s] \in TERMINAL_STEP_STATES
  BY <1>1 DEF HasRunning, Stuck, TERMINAL_STEP_STATES
<1>3. Complete(finalized(r))
  BY <1>1, FinalizedIs DEF Complete, Varies, TERMINAL_STEP_STATES, StepStates
<1> QED BY <1>2, <1>3, VerdictIs DEF Complete

(* Without an executor at work no step of the copy is running.             *)
LEMMA NothingRuns ==
    ASSUME Shape, CopyAgrees, NEW e \in Calls, Live(e), Quiet(e)
    PROVE  ~HasRunning(copy[runs]) /\ Run(e) = copy[runs] /\ copy[runs] \in Runs
BY LiveIs, NoneIsNoCall DEF Quiet, CopyAgrees, RunningIsHeld, HasRunning, Phase3

(* The end of an execution is that of all its steps.                       *)
LEMMA EndsIsComplete ==
    ASSUME Shape, CopyAgrees, NEW e \in Calls, Live(e), NEW outcome,
           Ends(e, outcome), canceled \/ Complete(outcome)
    PROVE  Complete(copy'[runs])
<1>1. Run(e) = copy[runs] /\ copy[runs] \in Runs /\ runs \in Calls /\ exec[e].obj = runs
  BY LiveIs
<1>2. copy'[runs] = IF canceled THEN finalized(copy[runs]) ELSE outcome
  BY <1>1 DEF Ends, SetRun, Shape, TypeOK
<1> QED BY <1>1, <1>2, CompleteIs

(* A loop that finds nothing active and nothing pending leaves a complete  *)
(* run.                                                                    *)
LEMMA NothingActiveEnds ==
    ASSUME Shape, CopyAgrees, NEW e \in Calls, Live(e), NothingActive(e), Active(e) = {},
           ~Stuck(copy[runs])
    PROVE  Complete(copy'[runs])
<1>1. Quiet(e)
  BY DEF Active, Quiet
<1>2. ~HasRunning(copy[runs]) /\ Run(e) = copy[runs] /\ copy[runs] \in Runs
  BY <1>1, NothingRuns
<1>3. Ends(e, verdict(copy[runs]))
  BY <1>2 DEF NothingActive, Stuck
<1> QED BY <1>2, <1>3, CompleteIs, EndsIsComplete

(* A graph's loop that ends leaves a complete run: some pending step could *)
(* start otherwise (NotStuck).                                             *)
LEMMA ScheduleEnds ==
    ASSUME ListedInOrder, Shape, CopyAgrees, NEW e \in Calls, Live(e), Schedule(e),
           exec'[e].pc = "ending", Active(e) # {} \/ Closed(copy[runs])
    PROVE  Complete(copy'[runs])
<1>1. exec \in [Calls -> ExecutionRecords]
  BY DEF Shape, TypeOK
<1>2. Run(e) = copy[runs] /\ copy[runs] \in Runs
  BY LiveIs
<1>3. ~Goes(e, "started") /\ ~Goes(e, "racing")
  BY <1>1, GoesIs
<1>4. /\ Startable(Run(e), Active(e), {}) /\ Active(e) = {} /\ NothingActive(e)
  BY <1>3 DEF Schedule, Starts
<1>5. Quiet(e)
  BY <1>4 DEF Active, Quiet
<1>6. ~Stuck(copy[runs])
  BY <1>2, <1>4, <1>5, NothingRuns, NotStuck
<1> QED BY <1>4, <1>6, NothingActiveEnds

(* Where an execution ends, its run is complete.                           *)
LEMMA EndingIsComplete ==
    ASSUME ListedInOrder, Shape, CopyAgrees, NothingLeftOver, NEW e \in Calls, Executes(e),
           exec'[e].pc = "ending"
    PROVE  Complete(copy'[runs])
<1>1. exec \in [Calls -> ExecutionRecords]
  BY DEF Shape, TypeOK
<1>2. \A pc \in {"schedule", "started", "racing", "drain", "return"} : ~Goes(e, pc)
  BY <1>1, GoesIs
<1>3. CASE SequentialTurn(e)
  <2> DEFINE open == {s \in DOMAIN Run(e).step : s >= exec[e].index /\ Run(e).step[s] # "succeeded"}
  <2>1. /\ exec[e].pc \in {"launched", "turn"} /\ Live(e)
    BY <1>3, TurnIs DEF SequentialTurn, Live
  <2>2. /\ Run(e) = copy[runs] /\ copy[runs] \in Runs /\ DOMAIN copy[runs].step \subseteq Steps
        /\ exec[e].index \in Nat
    BY <1>1, <2>1, LiveIs DEF ExecutionRecords
  <2>3. Sequential(copy[runs])
    BY <1>3, <2>2 DEF SequentialTurn, Sequential
  <2>4. ASSUME NEW s \in Steps
        PROVE  exec' # [exec EXCEPT ![e].pc = "stepping", ![e].index = s]
    BY <1>1, StepsAreNumbers, IndexIs
  <2>5. (canceled \/ open = {}) /\ Ends(e, verdict(Run(e)))
    BY <1>3, <2>2, <2>4 DEF SequentialTurn
  <2>6. ASSUME open = {}
        PROVE  Complete(verdict(copy[runs]))
    <3>1. ASSUME NEW s \in DOMAIN copy[runs].step
          PROVE  copy[runs].step[s] \in TERMINAL_STEP_STATES
      <4>1. s \in Nat
        BY <2>2, StepsAreNumbers
      <4>2. CASE s < exec[e].index
        BY <2>1, <2>3, <4>2 DEF NothingLeftOver, PassedIsOver
      <4>3. CASE s >= exec[e].index
        BY <2>2, <2>6, <4>3 DEF TERMINAL_STEP_STATES, StepStates
      <4> QED BY <2>2, <4>1, <4>2, <4>3
    <3>2. ~HasRunning(copy[runs]) /\ ~Stuck(copy[runs])
      BY <3>1 DEF HasRunning, Stuck, TERMINAL_STEP_STATES
    <3> QED BY <2>2, <3>2, CompleteIs
  <2> QED BY <2>1, <2>2, <2>5, <2>6, EndsIsComplete
<1>4. CASE SequentialAfter(e)
  <2>1. exec[e].index + 1 \in Nat
    BY <1>1 DEF ExecutionRecords
  <2>2. exec' # [exec EXCEPT ![e].pc = "turn", ![e].index = exec[e].index + 1]
    BY <1>1, <2>1, IndexIs
  <2> QED BY <1>2, <1>4, <2>2 DEF SequentialAfter
<1>5. CASE Returns(e)
  <2>1. Live(e) /\ exec[e].pc = "return" /\ Ends(e, verdict(Run(e)))
    BY <1>5 DEF Returns, Live
  <2>2. Run(e) = copy[runs] /\ copy[runs] \in Runs /\ Sequential(copy[runs])
    BY <2>1, LiveIs DEF Shape, ExecutionShape, ExecShape
  <2>3. \A s \in DOMAIN copy[runs].step : copy[runs].step[s] \in TERMINAL_STEP_STATES
    BY <2>1, <2>2 DEF NothingLeftOver, PassedIsOver
  <2>4. ~HasRunning(copy[runs]) /\ ~Stuck(copy[runs])
    BY <2>3 DEF HasRunning, Stuck, TERMINAL_STEP_STATES
  <2> QED BY <2>1, <2>2, <2>4, CompleteIs, EndsIsComplete
<1>6. CASE GraphTurn(e)
  <2>1. Live(e)
    BY <1>6, TurnIs DEF GraphTurn, Live
  <2>2. Run(e) = copy[runs]
    BY <2>1, LiveIs
  <2>3. Blocked(Run(e), {}) /\ Schedule(e)
    BY <1>2, <1>6 DEF GraphTurn
  <2>4. Closed(copy[runs])
    BY <2>2, <2>3 DEF Blocked, Closed
  <2> QED BY <2>1, <2>3, <2>4, ScheduleEnds
<1>7. CASE GraphSchedule(e)
  <2>1. Live(e) /\ exec[e].pc = "schedule" /\ Schedule(e)
    BY <1>7 DEF GraphSchedule, Live
  <2>2. Active(e) = {} => \A s \in Steps : ~Outlasts(e, s)
    BY DEF Active, Outlasts, Phase3
  <2>3. Active(e) # {} \/ Closed(copy[runs])
    BY <2>1, <2>2 DEF NothingLeftOver, GraphGoesOn
  <2> QED BY <2>1, <2>3, ScheduleEnds
<1>8. CASE GraphRaces(e)
  <2>1. exec[e].pc = "started" /\ Active(e) = {}
    BY <1>2, <1>8 DEF GraphRaces
  <2>2. \A s \in Steps : ~Outlasts(e, s)
    BY <2>1 DEF Active, Outlasts, Phase3
  <2> QED BY <2>1, <2>2 DEF NothingLeftOver, GraphGoesOn
<1>9. CASE GraphDrained(e)
  <2>1. Live(e) /\ exec[e].pc = "drain" /\ Ends(e, verdict(Run(e)))
    BY <1>9 DEF GraphDrained, Live
  <2>2. canceled
    BY <2>1 DEF NothingLeftOver, DrainIsCanceled
  <2> QED BY <2>1, <2>2, EndsIsComplete
<1>10. CASE ExecutionEnds(e)
  BY <1>1, <1>10 DEF ExecutionEnds, NoExecution
<1> QED BY <1>3, <1>4, <1>5, <1>6, <1>7, <1>8, <1>9, <1>10 DEF Executes

(* An execution gets to its end only by a turn of its loop.                *)
LEMMA OnlyLoopsEnd ==
    ASSUME ~CallsOverlap, Shape, [Next]_vars, NEW e \in Calls,
           exec[e].pc # "ending", exec'[e].pc = "ending"
    PROVE  Executes(e)
<1>1. exec \in [Calls -> ExecutionRecords]
  BY DEF Shape, TypeOK
<1>2. ASSUME NEW c \in Calls, CallTurn(c)
      PROVE  FALSE
  BY <1>1, <1>2 DEF CallTurn, CallStep, CallWrites, LaunchStep, ReadStep, RewriteStep, BeginStep,
                    OneExecution, executions
<1>3. ASSUME NEW c \in Begun, FirstTurn(c)
      PROVE  FALSE
  <2>1. c \in Calls /\ Alone(c)
    BY DEF Begun, Alone, Shape, CallsShape, CallShape
  <2> QED BY <1>2, <1>3, <2>1, CallTurns
<1>4. CASE Begun = {}
  <2>1. \A c \in Calls : call[c].pc # "begun" /\ Alone(c)
    BY <1>4 DEF Begun, Alone
  <2>2. ASSUME NEW c \in Calls, Progress(c)
        PROVE  FALSE
    BY <1>2, <2>1, <2>2, CallTurns
  <2>3. ASSUME NEW d \in Calls, Executes(d), d # e
        PROVE  FALSE
    <3>1. OneExecution(d)
      BY <2>3, LoopTurns DEF LoopTurn, LoopGoes, LoopEnds, LoopSkips, LoopStarts, StartsStep,
                             StartsSteps, Loops, AtWork, CloseStep
    <3> QED BY <2>3, <3>1 DEF OneExecution
  <2>4. ASSUME NEW d \in Calls, NEW s \in Steps, StepRuns(d, s)
        PROVE  FALSE
    <3>1. OneExecution(d) /\ (exec'[d].pc \in {exec[d].pc, "turn", "stepped"})
      BY <2>4, StepRunsIs DEF ExecutorStep, ExecutorGoes, ExecutorSettles, ExecutorReturns, AtWork
    <3> QED BY <3>1 DEF OneExecution
  <2>5. CASE Crash
    BY <1>1, <2>5, CrashShape DEF CrashStep
  <2>6. \A c \in Begun : FALSE
    BY <1>4
  <2>7. ASSUME NEW c \in Calls, NEW op, NEW d, NEW confirm, Begin(c, op, d, confirm)
        PROVE  FALSE
    BY <2>7 DEF Begin
  <2>8. ~WriteRun /\ ~ResumeAccepting
    BY DEF WriteRun, ResumeAccepting, executions
  <2> QED BY <1>4, <2>2, <2>3, <2>4, <2>5, <2>6, <2>7, <2>8 DEF Next, Work, vars
<1> QED BY <1>3, <1>4 DEF Next, Work, vars

EndIsNew == \A e \in Calls : exec[e].pc # "ending" /\ exec'[e].pc = "ending" => Complete(copy'[runs])

LEMMA OpenIsComplete ==
    ASSUME NEW run, run.state \in {"pending", "running", "canceling"}
    PROVE  Complete(run)
BY DEF Complete

LEMMA WritingIsComplete ==
    ASSUME Shape, CopyAgrees, EndIsNew, NEW run, NEW w, Writing(run, w)
    PROVE  Complete(run)
<1>1. ASSUME NEW c \in Calls, CallWrites(c, run)
      PROVE  Complete(run)
  <2>1. CASE run.state \in {"pending", "canceling"}
    BY <2>1, OpenIsComplete
  <2>2. CASE copy[runs'] \in Runs /\ run = Reset(copy[runs'])
    BY <2>2, ResetIs, OpenIsComplete
  <2>3. CASE copy[runs'] \in Runs /\ run = WithState(copy[runs'], "canceling")
    BY <2>3, WithStateIs, OpenIsComplete DEF RunStates
  <2>4. CASE copy[runs'] \in Runs /\ run = finalized(copy[runs'])
    BY <2>4, CompleteIs
  <2> QED BY <1>1, <2>1, <2>2, <2>3, <2>4 DEF CallWrites
<1>2. ASSUME NEW c \in Calls, run = WithState(copy[runs], "running"), LaunchStep(c)
      PROVE  Complete(run)
  BY <1>2, WithStateIs, OpenIsComplete DEF LaunchStep, RunStates
<1>3. ASSUME NEW e \in Calls, LoopEnds(e, run)
      PROVE  Complete(run)
  <2>1. /\ copy' = [copy EXCEPT ![runs] = run] /\ runs \in Calls
        /\ exec[e].pc # "ending" /\ exec'[e].pc = "ending"
    BY <1>3 DEF LoopEnds, Becomes, Loops, AtWork
  <2>2. copy'[runs] = run
    BY <2>1 DEF Shape, TypeOK
  <2> QED BY <2>1, <2>2 DEF EndIsNew
<1>4. ASSUME NEW e \in Calls, AtWork(e), exec[e].pc # "ending", run.state = copy[runs].state
      PROVE  Complete(run)
  BY <1>4, HoldsNow, OpenIsComplete DEF HoldsFor
<1>5. ASSUME NEW e \in Calls, NEW B, LoopSkips(e, B, run)
      PROVE  Complete(run)
  <2>1. AtWork(e) /\ exec[e].pc # "ending" /\ run = Marked(copy[runs], B, "skipped")
    BY <1>5 DEF LoopSkips, Loops
  <2>2. run.state = copy[runs].state
    BY <2>1, HoldsNow, MarkedIs DEF StepStates
  <2> QED BY <1>4, <2>1, <2>2
<1>6. ASSUME NEW e \in Calls, NEW s \in Steps, StartsStep(e, s, run)
      PROVE  Complete(run)
  <2>1. AtWork(e) /\ exec[e].pc # "ending" /\ run = Marked(copy[runs], {s}, "running")
    BY <1>6 DEF StartsStep, LoopStarts, Loops
  <2>2. run.state = copy[runs].state
    BY <2>1, HoldsNow, MarkedIs DEF StepStates
  <2> QED BY <1>4, <2>1, <2>2
<1>7. ASSUME NEW e \in Calls, NEW s \in Steps, NEW outcome, ExecutorSettles(e, s, outcome, run)
      PROVE  Complete(run)
  <2>1. /\ AtWork(e) /\ run = WithStep(copy[runs], s, outcome) /\ s \in DOMAIN copy[runs].step
        /\ executor[e][s].phase # "idle" /\ outcome \in StepStates
    BY <1>7 DEF ExecutorSettles, StepStates
  <2>2. exec[e].pc # "ending"
    BY <2>1, HoldsNow DEF ExecShape, Quiet
  <2>3. run.state = copy[runs].state
    BY <2>1, HoldsNow, WithStepIs, ZenonT(60)
  <2> QED BY <1>4, <2>1, <2>2, <2>3
<1> QED BY <1>1, <1>2, <1>3, <1>5, <1>6, <1>7 DEF Writing

(* Every effect keeps the records complete: only a loop at its end and a   *)
(* cancel without an execution write an end.                               *)
LEMMA RecordsCompleteStep ==
    ASSUME Shape, Shape', CopyAgrees, RecordsFollow, Effect, EndIsNew, RecordsComplete, ReadIsComplete
    PROVE  RecordsComplete'
<1>1. ASSUME NEW run, NEW w, Writing(run, w)
      PROVE  RecordsComplete'
  <2>1. PICK n : n = Len(writes) + 1
    OBVIOUS
  <2>2. OneWrite(run, w) /\ Complete(run)
    BY <1>1, WritingIs, WritingIsComplete
  <2>3. Positions' = Positions \union {n} /\ (\A i \in Positions : Rec(i)' = Rec(i)) /\ Rec(n)' = run
    BY <2>1, <2>2, OneWriteIs DEF OneWrite
  <2> QED BY <2>2, <2>3 DEF RecordsComplete, Complete
<1>2. ASSUME NEW e \in Calls, NEW S, NEW run, StartsSteps(e, S, run)
      PROVE  RecordsComplete'
  <2>1. PICK n, m : ManyWrites(e, S, n, m)
    BY <1>2, ManyWritesIs
  <2>2. copy[runs].state \in {"running", "canceling"}
    BY <1>2, HoldsNow DEF StartsSteps, LoopStarts, Loops, AtWork, HoldsFor
  <2>3. /\ n \in Nat /\ m \in Nat /\ Positions = 0 .. n /\ Positions' = 0 .. n + m + 1
        /\ \A i \in 0 .. n : Rec(i)' = Rec(i)
        /\ \A i \in 1 .. m + 1 : Rec(n + i)' = writes'[n + i].run
    BY <2>1 DEF ManyWrites, Positions, Rec
  <2>4. ASSUME NEW i \in 0 .. n + m + 1, Rec(i)' # None
        PROVE  Complete(Rec(i))'
    <3>1. CASE i \in 0 .. n
      BY <2>3, <2>4, <3>1 DEF RecordsComplete, Complete
    <3>2. CASE i \notin 0 .. n
      <4>1. PICK j \in 1 .. m + 1 : i = n + j
        <5>1. i - n \in 1 .. m + 1 /\ i = n + (i - n)
          BY <2>3, <3>2
        <5> QED BY <5>1
      <4>2. Rec(i)'.state = copy[runs].state
        BY <2>1, <2>3, <4>1 DEF ManyWrites
      <4> QED BY <2>2, <4>2 DEF Complete
    <3> QED BY <3>1, <3>2
  <2> QED BY <2>3, <2>4 DEF RecordsComplete
<1>3. CASE Keeping
  <2>1. Positions' = Positions /\ \A i \in Positions : Rec(i)' = Rec(i)
    BY <1>3, KeepingIs DEF Positions, Rec
  <2> QED BY <2>1 DEF RecordsComplete, Complete
<1>4. CASE WriteStep
  <2>1. /\ Positions' = 0 .. Len(writes) - 1 /\ Positions = 0 .. Len(writes) /\ Len(writes) \in Nat \ {0}
        /\ \A i \in 0 .. Len(writes) - 1 : Rec(i)' = Rec(i + 1)
    BY <1>4 DEF WriteStep, Positions, Rec
  <2>2. \A i \in Positions' : i + 1 \in Positions
    BY <2>1
  <2> QED BY <2>1, <2>2 DEF RecordsComplete, Complete
<1>5. CASE CrashStep
  <2>1. writes' = <<>> /\ file' = file
    BY <1>5 DEF CrashStep
  <2>2. Len(writes') = 0
    BY <2>1
  <2>3. Positions' = {0} /\ Rec(0)' = Rec(0) /\ 0 \in Positions
    BY <2>1, <2>2, LastIs DEF Positions, Rec
  <2> QED BY <2>3 DEF RecordsComplete, Complete
<1>6. ASSUME NEW c \in Calls, RewriteStep(c)
      PROVE  RecordsComplete'
  <2>1. writes' = <<>> /\ file' = copy[c] /\ copy[c] \in Runs /\ call[c].pc = "rewriting"
    BY <1>6 DEF RewriteStep, memory
  <2>2. Len(writes') = 0
    BY <2>1
  <2>3. Positions' = {0} /\ Rec(0)' = copy[c]
    BY <2>1, <2>2 DEF Positions, Rec
  <2> QED BY <2>1, <2>3, NoneIsNoCall DEF RecordsComplete, ReadIsComplete, Complete
<1> QED BY <1>1, <1>2, <1>3, <1>4, <1>5, <1>6, EffectIs

(* What is read is complete: the file, or a run that was interrupted.      *)
LEMMA ReadIsCompleteStep ==
    ASSUME Shape, Shape', RecordsFollow, Effect, RecordsComplete, ReadIsComplete
    PROVE  ReadIsComplete'
<1> SUFFICES ASSUME NEW c \in Calls, call'[c].pc \in {"rewriting", "loaded"}, copy'[c] # None
             PROVE  Complete(copy'[c])
  BY DEF ReadIsComplete, Complete
<1>1. runs' = None
  BY DEF Shape, CallsShape, CallShape, Reading
<1>2. CASE call[c].pc \in {"rewriting", "loaded"} /\ copy'[c] = copy[c]
  BY <1>2 DEF ReadIsComplete
<1>3. CASE call'[c].pc = call[c].pc /\ copy'[c] = copy[c]
  BY <1>3 DEF ReadIsComplete
<1>4. CASE ReadStep(c)
  <2>1. copy'[c] = Loaded(file) /\ file \in Runs
    BY <1>4 DEF ReadStep, Shape, TypeOK
  <2>2. Complete(file)
    <3>1. 0 \in Positions /\ Rec(0) = file
      BY LastIs DEF Rec
    <3> QED BY <2>1, <3>1, NoneIsNoCall DEF RecordsComplete
  <2>3. Loaded(file) = file \/ Loaded(file).state = "interrupted"
    BY <2>1, LoadedIs
  <2> QED BY <2>1, <2>2, <2>3 DEF Complete
<1>5. ASSUME NEW d \in Calls, CallTurn(d)
      PROVE  Complete(copy'[c])
  <2>1. ~LaunchStep(d) /\ \A run \in Runs : ~CallWrites(d, run)
    BY <1>1, NoneIsNoCall DEF LaunchStep, CallWrites
  <2>2. CASE CallStep(d) \/ BeginStep(d)
    BY <1>2, <1>3, <2>2 DEF CallStep, BeginStep, OneCall, memory
  <2>3. CASE RewriteStep(d)
    BY <1>2, <1>3, <2>3 DEF RewriteStep, OneCall, memory
  <2>4. CASE ReadStep(d)
    BY <1>3, <1>4, <2>4 DEF ReadStep, OneCall, Shape, TypeOK
  <2> QED BY <1>5, <2>1, <2>2, <2>3, <2>4 DEF CallTurn
<1>6. ASSUME NEW e \in Calls, AtWork(e)
      PROVE  FALSE
  BY <1>1, <1>6, NoneIsNoCall DEF AtWork
<1>7. ASSUME NEW e \in Calls, LoopTurn(e)
      PROVE  Complete(copy'[c])
  BY <1>3, <1>6, <1>7 DEF LoopTurn, LoopGoes, LoopEnds, LoopSkips, StartsStep, StartsSteps, LoopStarts,
                          Loops, CloseStep
<1>8. ASSUME NEW e \in Calls, NEW s \in Steps, ExecutorStep(e, s)
      PROVE  FALSE
  BY <1>6, <1>8 DEF ExecutorStep, ExecutorGoes, ExecutorSettles, ExecutorReturns
<1>9. CASE WriteStep \/ AcceptStep
  BY <1>3, <1>9 DEF WriteStep, AcceptStep, memory
<1>10. CASE CrashStep
  BY <1>10 DEF CrashStep
<1> QED BY <1>5, <1>7, <1>8, <1>9, <1>10 DEF Effect

(* A graph's loop drains only when the run is canceled.                    *)
LEMMA DrainIsCanceledStep ==
    ASSUME Shape, Shape', Effect, DrainIsCanceled
    PROVE  DrainIsCanceled'
<1> SUFFICES ASSUME NEW e \in Calls, exec'[e].pc = "drain"
             PROVE  canceled'
  BY DEF DrainIsCanceled
<1>1. exec[e].pc = "drain" => canceled /\ execution # None
  BY NoneIsNoCall DEF DrainIsCanceled, Shape, ExecutionShape, ExecShape, Live
<1>2. ASSUME NEW c \in Calls, CallTurn(c)
      PROVE  canceled'
  BY <1>1, <1>2 DEF CallTurn, CallStep, CallWrites, LaunchStep, ReadStep, RewriteStep, BeginStep,
                    OneExecution, executions, memory
<1>3. ASSUME NEW d \in Calls, AtWork(d), exec'[d].pc = "drain" => canceled \/ exec[d].pc = "drain"
      PROVE  canceled'
  BY <1>1, <1>3 DEF AtWork, OneExecution
<1>4. ASSUME NEW d \in Calls, LoopTurn(d)
      PROVE  canceled'
  BY <1>1, <1>3, <1>4 DEF LoopTurn, LoopGoes, LoopEnds, LoopSkips, StartsStep, StartsSteps, LoopStarts,
                          Loops, CloseStep, OneExecution
<1>5. ASSUME NEW d \in Calls, NEW s \in Steps, ExecutorStep(d, s)
      PROVE  canceled'
  BY <1>3, <1>5 DEF ExecutorStep, ExecutorGoes, ExecutorSettles, ExecutorReturns
<1>6. CASE WriteStep \/ AcceptStep
  BY <1>1, <1>6 DEF WriteStep, AcceptStep, memory
<1>7. CASE CrashStep
  BY <1>7 DEF CrashStep
<1> QED BY <1>2, <1>4, <1>5, <1>6, <1>7 DEF Effect

(* What a sequential loop has behind it stays over.                        *)
Passed(e) ==
    \A s \in DOMAIN copy[runs].step :
        /\ exec[e].pc \in {"launched", "turn", "stepping", "stepped"} /\ s < exec[e].index
              => copy[runs].step[s] \in TERMINAL_STEP_STATES
        /\ exec[e].pc \in {"stepping", "stepped"} /\ s = exec[e].index
              => copy[runs].step[s] # "pending"
        /\ exec[e].pc = "return" => copy[runs].step[s] \in TERMINAL_STEP_STATES

LEMMA PassedAtWork ==
    ASSUME Shape, Shape', NEW e \in Calls, AtWork(e), Sequential(copy'[runs']) => Passed(e)'
    PROVE  PassedIsOver'
<1>1. execution' = e
  BY DEF AtWork
<1>2. \A d \in Calls \ {e} : ~Live(d)'
  BY <1>1 DEF Shape, ExecutionShape, ExecShape
<1> QED BY <1>2 DEF PassedIsOver, Passed

LEMMA PassedStayed ==
    ASSUME Shape, Shape', PassedIsOver, exec' = exec,
           execution # None => copy'[runs'].step = copy[runs].step /\ copy'[runs'].def = copy[runs].def
    PROVE  PassedIsOver'
<1> SUFFICES ASSUME NEW e \in Calls, Live(e)', Sequential(copy'[runs'])
             PROVE  Passed(e)'
  BY DEF PassedIsOver, Passed
<1>1. Live(e) /\ execution # None
  BY NoneIsNoCall DEF Live, Shape, ExecutionShape, ExecShape
<1>2. copy'[runs'].step = copy[runs].step /\ Sequential(copy[runs])
  BY <1>1 DEF Sequential
<1>3. Passed(e)
  BY <1>1, <1>2 DEF PassedIsOver, Passed
<1> QED BY <1>2, <1>3 DEF Passed

LEMMA LoopPasses ==
    ASSUME Shape, Shape', CopyAgrees, PassedIsOver, NEW e \in Calls,
           \/ LoopGoes(e) \/ \E run : LoopEnds(e, run)
           \/ \E B, run : LoopSkips(e, B, run)
           \/ \E s \in Steps : \E run : StartsStep(e, s, run)
           \/ \E S, run : StartsSteps(e, S, run)
    PROVE  PassedIsOver'
<1>1. Loops(e) /\ AtWork(e) /\ runs' = runs /\ exec[e].pc # "ending"
  BY DEF LoopGoes, LoopEnds, LoopSkips, StartsStep, StartsSteps, LoopStarts, Loops, AtWork
<1>2. /\ HoldsFor(e) /\ Live(e) /\ ExecShape(e) /\ runs # None /\ runs \in Calls
      /\ copy[runs] \in Runs /\ DOMAIN copy[runs].step \subseteq Steps /\ copy \in [Calls -> Runs \union {None}]
      /\ exec[e].index \in Nat
  BY <1>1, HoldsNow DEF Shape, TypeOK, ExecutionRecords
<1>3. /\ \A s \in DOMAIN copy[runs].step : s \in Nat /\ copy[runs].step[s] \in StepStates
  BY <1>2, StatesAre, StepsAreNumbers
<1> SUFFICES ASSUME Sequential(copy'[runs])
             PROVE  Passed(e)'
  BY <1>1, PassedAtWork
<1>4. ASSUME Quiet(e), NEW s \in DOMAIN copy[runs].step, copy[runs].step[s] # "pending"
      PROVE  copy[runs].step[s] \in TERMINAL_STEP_STATES
  <2>1. copy[runs].step[s] # "running"
    BY <1>2, <1>4 DEF HoldsFor, Quiet, Phase3
  <2> QED BY <1>3, <1>4, <2>1 DEF TERMINAL_STEP_STATES
<1>5. Sequential(copy[runs]) => Passed(e)
  BY <1>2 DEF PassedIsOver, Passed
<1>6. CASE LoopGoes(e)
  <2>1. copy' = copy /\ Sequential(copy[runs])
    BY <1>1, <1>6 DEF LoopGoes
  <2>2. exec[e].pc = "stepped" /\ exec'[e].pc = "turn" /\ exec'[e].index = exec[e].index + 1
    BY <1>6, <2>1 DEF LoopGoes
  <2>3. Quiet(e)
    BY <1>2, <2>1, <2>2 DEF ExecShape
  <2>4. ASSUME NEW s \in DOMAIN copy[runs].step, s < exec[e].index + 1
        PROVE  copy[runs].step[s] \in TERMINAL_STEP_STATES
    <3>1. s < exec[e].index \/ s = exec[e].index
      BY <1>2, <1>3, <2>4
    <3> QED BY <1>4, <1>5, <2>1, <2>2, <2>3, <3>1 DEF Passed
  <2> QED BY <1>1, <2>1, <2>2, <2>4 DEF Passed
<1>7. ASSUME NEW run, LoopEnds(e, run)
      PROVE  Passed(e)'
  BY <1>7 DEF LoopEnds, Passed
<1>8. ASSUME NEW B, NEW run, LoopSkips(e, B, run)
      PROVE  Passed(e)'
  <2>1. /\ copy' = [copy EXCEPT ![runs] = run] /\ run.def = copy[runs].def
        /\ DOMAIN run.step = DOMAIN copy[runs].step
    BY <1>8 DEF LoopSkips, Becomes, Varies
  <2>2. copy'[runs] = run /\ Sequential(copy[runs])
    BY <1>2, <2>1 DEF Sequential
  <2>3. /\ exec[e].pc = "stepped" /\ exec'[e].pc = "return"
        /\ B = Later(copy[runs], exec[e].index)
    BY <1>8, <2>2 DEF LoopSkips
  <2>4. Quiet(e)
    BY <1>2, <2>2, <2>3 DEF ExecShape
  <2>5. ASSUME NEW s \in DOMAIN copy[runs].step
        PROVE  run.step[s] \in TERMINAL_STEP_STATES
    <3>1. run.step[s] = IF s \in B THEN "skipped" ELSE copy[runs].step[s]
      BY <1>2, <1>8, MarkedIs DEF LoopSkips, StepStates
    <3>2. CASE s \in B
      BY <3>1, <3>2 DEF TERMINAL_STEP_STATES, StepStates
    <3>3. CASE s \notin B
      <4>1. copy[runs].step[s] # "pending" \/ s < exec[e].index \/ s = exec[e].index
        BY <1>2, <1>3, <2>3, <3>3 DEF Later
      <4>2. s < exec[e].index \/ s = exec[e].index => copy[runs].step[s] # "pending"
        BY <1>5, <2>2, <2>3 DEF Passed, TERMINAL_STEP_STATES
      <4> QED BY <1>4, <2>4, <3>1, <3>3, <4>1, <4>2
    <3> QED BY <3>2, <3>3
  <2> QED BY <1>1, <2>1, <2>2, <2>3, <2>5 DEF Passed
<1>9. ASSUME NEW s \in Steps, NEW run, StartsStep(e, s, run)
      PROVE  Passed(e)'
  <2>1. /\ copy' = [copy EXCEPT ![runs] = run] /\ run.def = copy[runs].def
        /\ DOMAIN run.step = DOMAIN copy[runs].step /\ run = Marked(copy[runs], {s}, "running")
        /\ exec[e].pc \in {"launched", "turn"} /\ exec'[e].pc = "stepping" /\ exec'[e].index = s
        /\ \A t \in DOMAIN copy[runs].step : t >= exec[e].index /\ t < s => copy[runs].step[t] = "succeeded"
        /\ Sequential(copy[runs]) /\ s \in Nat
    BY <1>9, StepsAreNumbers DEF StartsStep, LoopStarts, Becomes, Varies
  <2>2. copy'[runs] = run
    BY <1>2, <2>1
  <2>3. ASSUME NEW t \in DOMAIN copy[runs].step
        PROVE  run.step[t] = IF t = s THEN "running" ELSE copy[runs].step[t]
    BY <1>2, <2>1, MarkedIs DEF StepStates
  <2>4. ASSUME NEW t \in DOMAIN copy[runs].step, t < s
        PROVE  run.step[t] \in TERMINAL_STEP_STATES
    <3>1. t < exec[e].index \/ t >= exec[e].index
      BY <1>2, <1>3
    <3>2. t # s
      BY <1>3, <2>1, <2>4
    <3>3. copy[runs].step[t] \in TERMINAL_STEP_STATES
      BY <1>5, <2>1, <2>4, <3>1 DEF Passed, TERMINAL_STEP_STATES, StepStates
    <3> QED BY <2>3, <3>2, <3>3
  <2> QED BY <1>1, <2>1, <2>2, <2>3, <2>4 DEF Passed
<1>10. ASSUME NEW S, NEW run, StartsSteps(e, S, run)
       PROVE  FALSE
  <2>1. /\ copy' = [copy EXCEPT ![runs] = run] /\ ~Sequential(copy[runs])
        /\ run = Marked(copy[runs], S, "running")
    BY <1>10 DEF StartsSteps, LoopStarts
  <2>2. copy'[runs] = run /\ run.def = copy[runs].def
    BY <1>2, <2>1, MarkedIs DEF StepStates, Varies
  <2> QED BY <2>1, <2>2 DEF Sequential
<1> QED BY <1>6, <1>7, <1>8, <1>9, <1>10

(* Every effect keeps what a sequential loop has behind it over.           *)
LEMMA PassedIsOverStep ==
    ASSUME Shape, Shape', CopyAgrees, Effect, PassedIsOver
    PROVE  PassedIsOver'
<1>1. /\ execution # None => /\ runs \in Calls /\ runs # None
                             /\ copy[runs] \in Runs /\ \A c \in Calls : ~Launching(c) /\ ~Reading(c)
      /\ copy \in [Calls -> Runs \union {None}]
  BY NoneIsNoCall DEF Shape, TypeOK, CallsShape, CallShape, ExecutionShape
<1>2. ASSUME NEW c \in Calls, CallTurn(c)
      PROVE  PassedIsOver'
  <2>1. CASE CallStep(c) \/ BeginStep(c) \/ RewriteStep(c)
    BY <1>1, <2>1, PassedStayed DEF CallStep, BeginStep, RewriteStep, memory
  <2>2. CASE ReadStep(c)
    BY <2>2, PassedStayed DEF ReadStep, executions
  <2>3. ASSUME NEW run \in Runs, CallWrites(c, run)
        PROVE  PassedIsOver'
    <3>1. execution # None => /\ runs' = runs /\ copy'[runs] = run
                              /\ run.step = copy[runs].step /\ run.def = copy[runs].def
      BY <1>1, <2>3, CallWritesRun, NoneIsNoCall, ZenonT(60) DEF CallWrites, Varies
    <3> QED BY <2>3, <3>1, PassedStayed DEF CallWrites
  <2>4. CASE LaunchStep(c)
    <3>1. execution' = c /\ exec'[c].pc = "launched" /\ exec'[c].index = 1
      BY <2>4 DEF LaunchStep
    <3>2. \A d \in Calls \ {c} : ~Live(d)'
      BY <3>1 DEF Shape, ExecutionShape, ExecShape
    <3>3. copy'[runs'] \in Runs
      BY <2>4 DEF LaunchStep, Shape, TypeOK
    <3>4. DOMAIN copy'[runs'].step \subseteq Nat \ {0}
      BY <3>3, RunForm, StepsAreNumbers
    <3>5. Passed(c)'
      BY <3>1, <3>4 DEF Passed
    <3> QED BY <3>2, <3>5 DEF PassedIsOver, Passed
  <2> QED BY <1>2, <2>1, <2>2, <2>3, <2>4 DEF CallTurn
<1>3. ASSUME NEW e \in Calls, CloseStep(e)
      PROVE  PassedIsOver'
  <2>1. \A d \in Calls : ~Live(d)'
    BY <1>3, NoneIsNoCall DEF CloseStep, Shape, ExecutionShape, ExecShape
  <2> QED BY <2>1 DEF PassedIsOver
<1>4. ASSUME NEW e \in Calls, LoopTurn(e)
      PROVE  PassedIsOver'
  BY <1>3, <1>4, LoopPasses DEF LoopTurn
<1>5. ASSUME NEW e \in Calls, NEW s \in Steps, ExecutorStep(e, s)
      PROVE  PassedIsOver'
  <2>1. AtWork(e) /\ runs' = runs
    BY <1>5 DEF ExecutorStep, ExecutorGoes, ExecutorSettles, ExecutorReturns, AtWork
  <2>2. /\ Live(e) /\ ExecShape(e) /\ runs \in Calls /\ copy[runs] \in Runs
        /\ Sequential(copy[runs]) => Passed(e)
    BY <2>1, HoldsNow DEF PassedIsOver, Passed
  <2>3. CASE ExecutorGoes(e, s)
    BY <1>1, <2>1, <2>3, PassedStayed DEF ExecutorGoes
  <2>4. CASE ExecutorReturns(e, s)
    <3>1. /\ copy' = copy /\ exec'[e].index = exec[e].index
          /\ \/ exec[e].pc = "racing" /\ exec'[e].pc = "turn"
             \/ exec[e].pc = "stepping" /\ exec'[e].pc = "stepped"
             \/ exec[e].pc \notin {"racing", "stepping"} /\ exec'[e].pc = exec[e].pc
      BY <2>4 DEF ExecutorReturns
    <3>2. Sequential(copy[runs]) => exec[e].pc # "racing"
      BY <2>2 DEF ExecShape
    <3>3. Sequential(copy[runs]) => Passed(e)'
      BY <2>1, <2>2, <3>1, <3>2 DEF Passed
    <3> QED BY <2>1, <3>1, <3>3, PassedAtWork
  <2>5. ASSUME NEW outcome, NEW run, ExecutorSettles(e, s, outcome, run)
        PROVE  PassedIsOver'
    <3>1. /\ copy' = [copy EXCEPT ![runs] = run] /\ exec' = exec
          /\ run = WithStep(copy[runs], s, outcome) /\ s \in DOMAIN copy[runs].step
          /\ outcome \in TERMINAL_STEP_STATES /\ outcome \in StepStates /\ outcome # "pending"
      BY <2>5 DEF ExecutorSettles, Becomes, TERMINAL_STEP_STATES, StepStates
    <3>2. /\ run.def = copy[runs].def /\ DOMAIN run.step = DOMAIN copy[runs].step
          /\ \A t \in DOMAIN copy[runs].step :
                run.step[t] = IF t = s THEN outcome ELSE copy[runs].step[t]
      <4>1. Varies(run, copy[runs]) /\ run.step = [copy[runs].step EXCEPT ![s] = outcome]
        BY <2>2, <3>1, WithStepIs
      <4>2. copy[runs].step \in [DOMAIN copy[runs].step -> StepStates]
        BY <2>2, RunForm
      <4> QED BY <4>1, <4>2 DEF Varies
    <3>3. copy'[runs] = run
      BY <1>1, <2>2, <3>1
    <3>4. Sequential(copy[runs]) => Passed(e)'
      BY <2>1, <2>2, <3>1, <3>2, <3>3 DEF Passed
    <3> QED BY <2>1, <3>2, <3>3, <3>4, PassedAtWork DEF Sequential
  <2> QED BY <1>5, <2>3, <2>4, <2>5 DEF ExecutorStep
<1>6. CASE WriteStep \/ AcceptStep
  BY <1>6, PassedStayed DEF WriteStep, AcceptStep, memory
<1>7. CASE CrashStep
  BY <1>7 DEF CrashStep, PassedIsOver, Live
<1> QED BY <1>2, <1>4, <1>5, <1>6, <1>7 DEF Effect

(* The order of the queue: what is in it stays, in its order, and what is  *)
(* written comes last.                                                     *)
LEMMA NoWriteKeeps ==
    ASSUME Shape, writes' = writes, ready' \in {ready, None}, NEW u, NEW w, u # None, w # None
    PROVE  /\ Queued(u) /\ (ready = u => ready' = u) => Queued(u)'
           /\ Before(u, w) => Before(u, w)'
<1>1. Positions' = Positions /\ \A i \in Positions : By(i)' = IF i = 0 THEN ready' ELSE By(i)
  BY DEF Positions, By
<1>2. \A i \in Positions : By(i)' \in {By(i), None}
  BY <1>1 DEF By
<1>3. ASSUME NEW i \in Positions, By(i) = u, ready = u => ready' = u
      PROVE  By(i)' = u
  BY <1>1, <1>3 DEF By
<1> QED BY <1>1, <1>2, <1>3 DEF Queued, Before

LEMMA OneWriteKeeps ==
    ASSUME Shape, ready' \in {ready, None}, file' = file, NEW u, NEW w, u # None, w # None,
           NEW x, x # u, NEW run, writes' = Append(writes, [run |-> run, by |-> x])
    PROVE  /\ Queued(u) /\ (ready = u => ready' = u) => Queued(u)'
           /\ Before(u, w) => Before(u, w)'
<1>1. PICK n : n = Len(writes) + 1
  OBVIOUS
<1>2. /\ Len(writes) \in Nat /\ n \in Nat \ {0} /\ Positions' = Positions \union {n}
      /\ \A i \in Positions : By(i)' = IF i = 0 THEN ready' ELSE By(i)
      /\ By(n)' = x
  BY <1>1, OneWriteIs DEF By
<1>3. \A i \in Positions : i \in Nat /\ i < n /\ By(i)' \in {By(i), None}
  BY <1>1, <1>2 DEF Positions, By
<1>4. ASSUME NEW i \in Positions, By(i) = u, ready = u => ready' = u
      PROVE  By(i)' = u
  BY <1>2, <1>4 DEF By
<1>5. ASSUME Before(u, w), NEW i \in Positions', NEW j \in Positions', By(i)' = w, By(j)' = u
      PROVE  j < i
  <2>1. j \in Positions
    BY <1>2, <1>5
  <2>2. CASE i = n
    BY <1>3, <2>1, <2>2
  <2>3. CASE i \in Positions
    <3>1. By(i) = w /\ By(j) = u
      BY <1>3, <1>5, <2>1, <2>3
    <3> QED BY <1>5, <2>1, <2>3, <3>1 DEF Before
  <2> QED BY <1>2, <2>2, <2>3
<1> QED BY <1>2, <1>4, <1>5 DEF Queued, Before

LEMMA WriteStepKeeps ==
    ASSUME Shape, WriteStep, NEW u, NEW w, u # None, w # None
    PROVE  /\ Queued(u) => Queued(u)'
           /\ Before(u, w) => Before(u, w)'
<1>1. /\ Len(writes) \in Nat \ {0} /\ Positions = 0 .. Len(writes) /\ Positions' = 0 .. Len(writes) - 1
      /\ By(0) = None /\ \A i \in 0 .. Len(writes) - 1 : By(i)' = By(i + 1)
  BY DEF WriteStep, Positions, By
<1>2. ASSUME NEW i \in Positions, By(i) = u
      PROVE  \E j \in Positions' : By(j)' = u
  <2>1. i - 1 \in 0 .. Len(writes) - 1 /\ i - 1 + 1 = i
    BY <1>1, <1>2
  <2>2. By(i - 1)' = By(i)
    BY <1>1, <2>1
  <2> QED BY <1>1, <1>2, <2>1, <2>2
<1>3. ASSUME Before(u, w), NEW i \in Positions', NEW j \in Positions', By(i)' = w, By(j)' = u
      PROVE  j < i
  <2>1. i \in Int /\ j \in Int /\ i + 1 \in Positions /\ j + 1 \in Positions
    BY <1>1
  <2>2. By(i + 1) = w /\ By(j + 1) = u
    BY <1>1, <1>3
  <2>3. j + 1 < i + 1
    BY <1>3, <2>1, <2>2 DEF Before
  <2> QED BY <2>1, <2>3
<1> QED BY <1>2, <1>3 DEF Queued, Before

(* A write that was just added is in the queue behind all others.          *)
LEMMA OwnWriteIsLast ==
    ASSUME Shape, WritersWait', file' = file, NEW u, NEW w, w # None, u # w, NEW run,
           writes' = Append(writes, [run |-> run, by |-> w])
    PROVE  Before(u, w)' /\ Queued(w)'
<1>1. PICK n : n = Len(writes) + 1
  OBVIOUS
<1>2. Len(writes) \in Nat /\ n \in Nat \ {0} /\ Positions' = Positions \union {n} /\ By(n)' = w
  BY <1>1, OneWriteIs
<1>3. \A i \in Positions : i \in Nat /\ i < n
  BY <1>1, <1>2 DEF Positions
<1>4. \A i \in Positions' : By(i)' = w => i = n
  BY <1>2 DEF WritersWait
<1>5. ASSUME NEW i \in Positions', NEW j \in Positions', By(i)' = w, By(j)' = u
      PROVE  j < i
  <2>1. i = n /\ j # n
    BY <1>2, <1>4, <1>5
  <2> QED BY <1>2, <1>3, <2>1
<1> QED BY <1>2, <1>5 DEF Before, Queued

(* The loop of a graph: what it waits for, and what it finds.              *)
GraphFor(e) ==
    /\ exec[e].pc \in {"schedule", "started"} => Queued(Loop(e))
    /\ exec[e].pc = "schedule" => Closed(copy[runs]) \/ \E s \in Steps : Outlasts(e, s)
    /\ exec[e].pc = "started" => \E s \in Steps : Outlasts(e, s)

LEMMA GraphAtWork ==
    ASSUME Shape', NEW e \in Calls, execution' = e, GraphFor(e)'
    PROVE  GraphGoesOn'
<1>1. \A d \in Calls \ {e} : exec'[d].pc \in {"none", "ended"}
  BY DEF Shape, ExecutionShape, ExecShape, Live
<1> QED BY <1>1 DEF GraphGoesOn, GraphFor, Queued

(* Somebody is at work as long as the step is not one of its own returns.  *)
LEMMA GraphStays ==
    ASSUME Shape, Shape', GraphGoesOn, NEW e \in Calls, execution' = e,
           exec'[e].pc = exec[e].pc,
           Queued(Loop(e)) => Queued(Loop(e))',
           \A s \in Steps : Queued(Loop(e)) /\ Outlasts(e, s) => \E t \in Steps : Outlasts(e, t)',
           \/ copy'[runs'].step = copy[runs].step /\ copy'[runs'].def = copy[runs].def
           \/ \E s \in Steps : Outlasts(e, s)'
    PROVE  GraphGoesOn'
<1>1. GraphFor(e)
  BY DEF GraphGoesOn, GraphFor, Queued
<1>2. copy'[runs'].step = copy[runs].step /\ copy'[runs'].def = copy[runs].def =>
         (Closed(copy[runs]) => Closed(copy[runs])')
  BY DEF Closed
<1>3. GraphFor(e)'
  BY <1>1, <1>2 DEF GraphFor
<1> QED BY <1>3, GraphAtWork

(* One pass over steps listed in order skips all that depends on a         *)
(* failure.                                                                *)
LEMMA SkippedIsClosed ==
    ASSUME ListedInOrder, NEW r \in Runs, NEW B, Blocked(r, B)
    PROVE  Closed(Marked(r, B, "skipped"))
<1> DEFINE q == Marked(r, B, "skipped")
<1>1. /\ q.def = r.def /\ DOMAIN q.step = DOMAIN r.step
      /\ \A s \in DOMAIN r.step : q.step[s] = IF s \in B THEN "skipped" ELSE r.step[s]
  BY MarkedIs DEF Varies, StepStates
<1> HIDE DEF q
<1>2. ASSUME NEW s \in DOMAIN r.step, q.step[s] = "pending", NEW d \in r.def.steps[s].deps,
             q.step[d] \in {"failed", "canceled", "interrupted", "skipped"}
      PROVE  FALSE
  <2>1. d \in DOMAIN r.step /\ d < s
    BY DependenciesAre
  <2>2. s \notin B /\ r.step[s] = "pending"
    BY <1>1, <1>2
  <2>3. d \in B \/ r.step[d] \in {"failed", "canceled", "interrupted", "skipped"}
    BY <1>1, <1>2, <2>1
  <2> QED BY <2>1, <2>2, <2>3 DEF Blocked
<1>3. Closed(q)
  BY <1>1, <1>2 DEF Closed
<1> QED BY <1>3 DEF q

(* What leaves the phases alone leaves the loop's executor at work.        *)
LEMMA GraphKeeps ==
    ASSUME Shape, Shape', GraphGoesOn, NEW e \in Calls, execution' = e,
           exec'[e].pc = exec[e].pc, SamePhases,
           Queued(Loop(e)) => Queued(Loop(e))',
           \A s \in Steps : Before(Loop(e), Worker(e, s)) => Before(Loop(e), Worker(e, s))',
           copy'[runs'].step = copy[runs].step, copy'[runs'].def = copy[runs].def
    PROVE  GraphGoesOn'
<1>1. ASSUME NEW s \in Steps, Outlasts(e, s)
      PROVE  Outlasts(e, s)'
  <2>1. executor'[e][s].phase = executor[e][s].phase
    BY DEF SamePhases
  <2> QED BY <1>1, <2>1 DEF Outlasts
<1> QED BY <1>1, GraphStays

LEMMA NobodyIsLive ==
    ASSUME Shape', \/ execution' = None
                   \/ \E e \in Calls : execution' = e /\ exec'[e].pc \notin {"schedule", "started"}
    PROVE  GraphGoesOn'
<1>1. \A e \in Calls : exec'[e].pc \notin {"schedule", "started"}
  BY NoneIsNoCall DEF Shape, ExecutionShape, ExecShape, Live
<1> QED BY <1>1 DEF GraphGoesOn

LEMMA CallsGraph ==
    ASSUME Shape, Shape', GraphGoesOn, NEW c \in Calls, CallTurn(c)
    PROVE  GraphGoesOn'
<1>1. CASE execution = None
  <2>1. CASE LaunchStep(c)
    <3>1. execution' = c /\ exec'[c].pc = "launched"
      BY <2>1 DEF LaunchStep
    <3> QED BY <3>1, NobodyIsLive
  <2>2. CASE ~LaunchStep(c)
    BY <1>1, <2>2, NobodyIsLive
       DEF CallTurn, CallStep, CallWrites, ReadStep, RewriteStep, BeginStep, memory, executions
  <2> QED BY <2>1, <2>2
<1>2. ASSUME execution # None
      PROVE  GraphGoesOn'
  <2>1. PICK e \in Calls : e = execution
    BY <1>2 DEF Shape, TypeOK
  <2>2. /\ Live(e) /\ runs \in Calls /\ runs # None /\ copy[runs] \in Runs
        /\ copy \in [Calls -> Runs \union {None}]
    BY <2>1, LiveIs DEF Shape, TypeOK, ExecutionShape, ExecShape
  <2>3. /\ Loop(e) # None /\ Loop(e) # Caller(c)
        /\ \A s \in Steps : Worker(e, s) # None
    BY WritersAre, NoneIsNoCall
  <2>4. ~LaunchStep(c) /\ ~ReadStep(c) /\ ~RewriteStep(c)
    BY <1>2 DEF LaunchStep, ReadStep, RewriteStep
  <2>5. CASE CallStep(c) \/ BeginStep(c)
    <3>1. /\ writes' = writes /\ exec' = exec /\ execution' = execution /\ SamePhases
          /\ runs' = runs /\ copy' = copy
          /\ ready' = ready \/ (ready = Caller(c) /\ ready' = None)
      BY <2>2, <2>5 DEF CallStep, BeginStep, memory, SamePhases, Shape, TypeOK
    <3>2. Queued(Loop(e)) => Queued(Loop(e))'
      BY <2>3, <3>1, NoWriteKeeps
    <3>3. \A s \in Steps : Before(Loop(e), Worker(e, s)) => Before(Loop(e), Worker(e, s))'
      BY <2>3, <3>1, NoWriteKeeps
    <3> QED BY <2>1, <3>1, <3>2, <3>3, GraphKeeps
  <2>6. ASSUME NEW run \in Runs, CallWrites(c, run)
        PROVE  GraphGoesOn'
    <3>1. /\ writes' = Append(writes, [run |-> run, by |-> Caller(c)]) /\ file' = file
          /\ exec' = exec /\ execution' = execution /\ SamePhases /\ runs' = runs
          /\ ready' = ready \/ (ready = Caller(c) /\ ready' = None)
      BY <2>2, <2>6 DEF CallWrites
    <3>2. copy'[runs] = run /\ run.step = copy[runs].step /\ run.def = copy[runs].def
      BY <1>2, <2>2, <2>6, <3>1, CallWritesRun, NoneIsNoCall DEF CallWrites, Varies
    <3>3. Queued(Loop(e)) => Queued(Loop(e))'
      <4>1. ready' \in {ready, None} /\ (ready = Loop(e) => ready' = Loop(e))
        BY <2>3, <3>1
      <4>2. PICK u, x : u = Loop(e) /\ x = Caller(c)
        OBVIOUS
      <4>3. /\ u # None /\ x # u /\ (ready = u => ready' = u) /\ file' = file
            /\ writes' = Append(writes, [run |-> run, by |-> x])
        BY <2>3, <3>1, <4>1, <4>2
      <4>4. \A w : w # None => (Queued(u) => Queued(u)')
        BY <4>1, <4>3, OneWriteKeeps
      <4> QED BY <4>2, <4>3, <4>4 DEF Queued
    <3>4. \A s \in Steps : Before(Loop(e), Worker(e, s)) => Before(Loop(e), Worker(e, s))'
      BY <2>3, <3>1, OneWriteKeeps
    <3> QED BY <2>1, <3>1, <3>2, <3>3, <3>4, GraphKeeps
  <2> QED BY <2>4, <2>5, <2>6 DEF CallTurn
<1> QED BY <1>1, <1>2

LEMMA LoopsGraph ==
    ASSUME ListedInOrder, Shape, Shape', WritersWait', CopyAgrees, NEW e \in Calls, LoopTurn(e)
    PROVE  GraphGoesOn'
<1>1. CASE CloseStep(e)
  BY <1>1, NobodyIsLive DEF CloseStep
<1>2. ASSUME AtWork(e), exec'[e].pc \notin {"schedule", "started"}
      PROVE  GraphGoesOn'
  BY <1>2, NobodyIsLive DEF AtWork
<1>3. ASSUME NEW B, NEW run, LoopSkips(e, B, run), exec'[e].pc = "schedule"
      PROVE  GraphGoesOn'
  <2>1. /\ AtWork(e) /\ file' = file /\ execution' = e /\ runs' = runs /\ ready' \in {ready, None}
        /\ writes' = Append(writes, [run |-> run, by |-> Loop(e)])
        /\ copy' = [copy EXCEPT ![runs] = run] /\ run = Marked(copy[runs], B, "skipped")
        /\ Blocked(copy[runs], B)
    BY <1>3 DEF LoopSkips, Loops, AtWork, Becomes
  <2>2. runs \in Calls /\ copy[runs] \in Runs /\ copy'[runs] = run
    BY <2>1, HoldsNow DEF Shape, TypeOK
  <2>3. PICK u : u = None
    OBVIOUS
  <2>4. Loop(e) # None
    BY WritersAre, NoneIsNoCall
  <2>5. Queued(Loop(e))'
    BY <2>1, <2>3, <2>4, OwnWriteIsLast
  <2>6. Closed(run)
    BY <2>1, <2>2, SkippedIsClosed
  <2>7. Closed(copy[runs])'
    BY <2>1, <2>2, <2>6 DEF Closed
  <2>8. GraphFor(e)'
    BY <1>3, <2>5, <2>7 DEF GraphFor
  <2> QED BY <2>1, <2>8, GraphAtWork
<1>4. ASSUME NEW S, NEW run, StartsSteps(e, S, run)
      PROVE  GraphGoesOn'
  <2>1. PICK n, m : ManyWrites(e, S, n, m)
    BY <1>4, ManyWritesIs
  <2>2. /\ n \in Nat /\ m \in Nat /\ Len(writes') = n + m + 1 /\ writes'[n + m + 1].by = Loop(e)
    BY <2>1 DEF ManyWrites
  <2>3. PICK k : k = n + m + 1
    OBVIOUS
  <2>4. k \in Positions' /\ By(k)' = Loop(e)
    BY <2>2, <2>3 DEF Positions, By
  <2>5. /\ AtWork(e) /\ execution' = e /\ exec'[e].pc = "started"
        /\ S # {} /\ S \subseteq DOMAIN copy[runs].step
        /\ \A s \in S : executor'[e][s].phase = "marking"
    BY <1>4 DEF StartsSteps, LoopStarts, Loops, AtWork
  <2>6. DOMAIN copy[runs].step \subseteq Steps
    BY <2>5, HoldsNow
  <2>7. PICK s \in Steps : executor'[e][s].phase = "marking"
    BY <2>5, <2>6
  <2>8. Outlasts(e, s)'
    BY <2>7 DEF Outlasts, Phase3
  <2>9. GraphFor(e)'
    BY <2>4, <2>5, <2>8 DEF GraphFor, Queued
  <2> QED BY <2>5, <2>9, GraphAtWork
<1> QED BY <1>1, <1>2, <1>3, <1>4
        DEF LoopTurn, LoopGoes, LoopEnds, LoopSkips, StartsStep, LoopStarts, Loops

LEMMA ExecutorsGraph ==
    ASSUME Shape, Shape', WritersWait', CopyAgrees, GraphGoesOn,
           NEW e \in Calls, NEW s \in Steps, ExecutorStep(e, s)
    PROVE  GraphGoesOn'
<1>1. /\ AtWork(e) /\ execution' = e /\ runs' = runs /\ file' = file
      /\ runs \in Calls /\ copy[runs] \in Runs /\ PhasesBut(e, {s}) /\ ready' \in {ready, None}
      /\ ready' = ready \/ (ready = Worker(e, s) /\ ready' = None)
  BY DEF ExecutorStep, ExecutorGoes, ExecutorSettles, ExecutorReturns, AtWork
<1>2. /\ Loop(e) # None /\ Worker(e, s) # None /\ Loop(e) # Worker(e, s)
      /\ \A t \in Steps : Worker(e, t) # None /\ Worker(e, t) # Loop(e)
  BY WritersAre, NoneIsNoCall
<1>3. CASE ExecutorGoes(e, s)
  <2>1. writes' = writes /\ exec' = exec
    BY <1>3 DEF ExecutorGoes
  <2>2. Queued(Loop(e)) => Queued(Loop(e))'
    BY <1>1, <1>2, <2>1, NoWriteKeeps
  <2>3. Outlasts(e, s)'
    BY <1>3 DEF ExecutorGoes, Outlasts, Phase3
  <2> QED BY <1>1, <2>1, <2>2, <2>3, GraphStays
<1>4. ASSUME NEW outcome, NEW run, ExecutorSettles(e, s, outcome, run)
      PROVE  GraphGoesOn'
  <2>1. /\ writes' = Append(writes, [run |-> run, by |-> Worker(e, s)]) /\ exec' = exec
        /\ executor'[e][s].phase = "closing"
    BY <1>4 DEF ExecutorSettles, Becomes
  <2>2. Queued(Loop(e)) => Queued(Loop(e))'
    BY <1>1, <1>2, <2>1, OneWriteKeeps
  <2>3. Before(Loop(e), Worker(e, s))'
    BY <1>1, <1>2, <2>1, OwnWriteIsLast
  <2>4. Outlasts(e, s)'
    BY <2>1, <2>3 DEF Outlasts
  <2> QED BY <1>1, <2>1, <2>2, <2>4, GraphStays
<1>5. CASE ExecutorReturns(e, s)
  <2>1. /\ writes' = writes /\ copy' = copy /\ ready = Worker(e, s)
        /\ executor[e][s].phase = "closing" /\ executor'[e][s].phase = "idle"
        /\ exec'[e].pc = exec[e].pc \/ exec'[e].pc \in {"turn", "stepped"}
    BY <1>5 DEF ExecutorReturns
  <2>2. CASE exec'[e].pc \in {"turn", "stepped"}
    BY <1>1, <2>2, NobodyIsLive
  <2>3. CASE exec'[e].pc = exec[e].pc
    <3>1. Queued(Loop(e)) => Queued(Loop(e))'
      BY <1>1, <1>2, <2>1, NoWriteKeeps
    <3>2. ASSUME NEW t \in Steps, Queued(Loop(e)), Outlasts(e, t)
          PROVE  Outlasts(e, t)'
      <4>1. CASE t = s
        <5>1. Before(Loop(e), Worker(e, s))
          BY <2>1, <3>2, <4>1 DEF Outlasts, Phase3
        <5>2. 0 \in Positions /\ By(0) = Worker(e, s) /\ Positions \subseteq Nat
          BY <2>1 DEF Positions, By, Shape, TypeOK
        <5> QED BY <3>2, <5>1, <5>2 DEF Queued, Before
      <4>2. CASE t # s
        <5>1. executor'[e][t].phase = executor[e][t].phase
          BY <1>1, <4>2 DEF PhasesBut
        <5>2. Before(Loop(e), Worker(e, t)) => Before(Loop(e), Worker(e, t))'
          BY <1>1, <1>2, <2>1, NoWriteKeeps
        <5> QED BY <3>2, <5>1, <5>2 DEF Outlasts
      <4> QED BY <4>1, <4>2
    <3> QED BY <1>1, <2>1, <2>3, <3>1, <3>2, GraphStays
  <2> QED BY <2>1, <2>2, <2>3
<1> QED BY <1>3, <1>4, <1>5 DEF ExecutorStep

(* Every effect keeps a graph's loop going on, or with nothing left to     *)
(* skip.                                                                   *)
LEMMA GraphGoesOnStep ==
    ASSUME ListedInOrder, Shape, Shape', WritersWait', CopyAgrees, Effect, GraphGoesOn
    PROVE  GraphGoesOn'
<1>1. CASE WriteStep \/ AcceptStep
  <2>1. UNCHANGED <<runs, copy, execution, exec, executor>>
    BY <1>1 DEF WriteStep, AcceptStep, memory
  <2>2. CASE execution = None
    BY <2>1, <2>2, NobodyIsLive
  <2>3. ASSUME execution # None
        PROVE  GraphGoesOn'
    <3>1. PICK e \in Calls : e = execution
      BY <2>3 DEF Shape, TypeOK
    <3>2. Loop(e) # None /\ \A s \in Steps : Worker(e, s) # None
      BY WritersAre, NoneIsNoCall
    <3>3. /\ Queued(Loop(e)) => Queued(Loop(e))'
          /\ \A s \in Steps : Before(Loop(e), Worker(e, s)) => Before(Loop(e), Worker(e, s))'
      <4>1. CASE WriteStep
        BY <3>2, <4>1, WriteStepKeeps
      <4>2. CASE AcceptStep
        BY <4>2 DEF AcceptStep, Queued, Before, Positions, By
      <4> QED BY <1>1, <4>1, <4>2
    <3>4. SamePhases
      BY <2>1 DEF SamePhases, Shape, TypeOK
    <3> QED BY <2>1, <3>1, <3>3, <3>4, GraphKeeps
  <2> QED BY <2>2, <2>3
<1>2. CASE CrashStep
  BY <1>2, NobodyIsLive DEF CrashStep
<1> QED BY <1>1, <1>2, CallsGraph, LoopsGraph, ExecutorsGraph DEF Effect

(* Nothing is left over, step by step.                                     *)
LEMMA InitLeftOver == Init => NothingLeftOver
<1> SUFFICES ASSUME Init PROVE NothingLeftOver
  OBVIOUS
<1>1. Len(writes) = 0
  BY DEF Init
<1>2. Positions = {0} /\ Rec(0) = None
  BY <1>1 DEF Init, Positions, Rec
<1>3. \A e \in Calls : exec[e].pc = "none" /\ call[e].pc = "idle"
  BY DEF Init, NoExecution, NewCall
<1> QED BY <1>2, <1>3 DEF NothingLeftOver, RecordsComplete, ReadIsComplete, GraphGoesOn, DrainIsCanceled,
                          PassedIsOver, Live

(* The second part of the invariant is inductive, given the first.         *)
LEMMA LeftOverStep ==
    ASSUME ~CallsOverlap, ListedInOrder, TypeOK, WorkflowInv, NothingLeftOver, [Next]_vars
    PROVE  NothingLeftOver'
<1>1. Shape /\ Shape' /\ Effect /\ WorkflowInv'
  BY NextIs, InvStep DEF Shape, WorkflowInv
<1>2. CopyAgrees /\ RecordsFollow /\ WritersWait'
  BY <1>1 DEF WorkflowInv
<1>3. EndIsNew
  BY <1>1, <1>2, OnlyLoopsEnd, EndingIsComplete DEF EndIsNew
<1>4. RecordsComplete' /\ ReadIsComplete'
  BY <1>1, <1>2, <1>3, RecordsCompleteStep, ReadIsCompleteStep DEF NothingLeftOver
<1>5. GraphGoesOn'
  BY <1>1, <1>2, GraphGoesOnStep DEF NothingLeftOver
<1>6. DrainIsCanceled' /\ PassedIsOver'
  BY <1>1, <1>2, DrainIsCanceledStep, PassedIsOverStep DEF NothingLeftOver
<1> QED BY <1>4, <1>5, <1>6 DEF NothingLeftOver

(* A loop that goes on finds an executor at work or nothing left to skip,  *)
(* and whatever is on record at the end of a run is complete: the second   *)
(* part of the invariant.                                                  *)
THEOREM LeftOverInvariance ==
    ASSUME ~CallsOverlap, ListedInOrder
    PROVE  Spec => []NothingLeftOver
<1>1. TypeOK /\ WorkflowInv /\ NothingLeftOver /\ [Next]_vars => NothingLeftOver'
  BY LeftOverStep
<1> QED BY <1>1, InitLeftOver, Typing, Invariance, PTL DEF Spec

(* If definitions list each step after the steps it depends on, a run that *)
(* is succeeded, failed or canceled on record has no step pending or       *)
(* running: both schedulers skip, run or cancel every one of them, and     *)
(* WORKFLOW_SCHEDULER_DEADLOCK does not come up.                           *)
THEOREM EndsComplete ==
    ASSUME ~CallsOverlap, ListedInOrder
    PROVE  Spec => []EndIsComplete
<1>1. ASSUME TypeOK, WorkflowInv, NothingLeftOver
      PROVE  EndIsComplete
  <2>1. Shape
    BY <1>1 DEF Shape, WorkflowInv
  <2>2. 0 \in Positions /\ Rec(0) = file
    BY <1>1, <2>1, LastIs DEF WorkflowInv, Rec
  <2> QED BY <1>1, <2>2 DEF NothingLeftOver, RecordsComplete, Complete, EndIsComplete
<1> QED BY <1>1, Typing, Invariance, LeftOverInvariance, PTL

==============================================================================
