--------------------------- MODULE WorkflowRefinement ---------------------------
(***************************************************************************)
(* The manager implements WorkflowRun, for any definitions, any number of  *)
(* calls that do not overlap, and any number of crashes: the part of the   *)
(* invariant the refinement rests on, and the steps of the two             *)
(* specifications side by side; and nobody waits for what does not come.   *)
(***************************************************************************)
EXTENDS WorkflowProofs

-----------------------------------------------------------------------------
(* Aborts come with a cancellation: a step that aborts nobody.             *)
AbortsNobody ==
    /\ \A e \in Calls, s \in Steps : executor'[e][s].phase # "idle" /\ executor'[e][s].aborted =>
          executor[e][s].phase # "idle" /\ executor[e][s].aborted

LEMMA StartingAborts ==
    ASSUME executor \in [Calls -> [Steps -> ExecutorRecords]], NEW e \in Calls, NEW S, Starting(e, S)
    PROVE  AbortsNobody
<1>1. executor' = [executor EXCEPT ![e] = [s \in Steps |->
            IF s \in S THEN [phase |-> "marking", aborted |-> FALSE, mapped |-> TRUE]
            ELSE executor[e][s]]]
  BY DEF Starting
<1>2. ASSUME NEW d \in Calls, NEW s \in Steps
      PROVE  executor'[d][s] = IF d = e /\ s \in S
                               THEN [phase |-> "marking", aborted |-> FALSE, mapped |-> TRUE]
                               ELSE executor[d][s]
  BY <1>1
<1> QED BY <1>2 DEF AbortsNobody

LEMMA SettlesAborts ==
    ASSUME executor \in [Calls -> [Steps -> ExecutorRecords]], NEW e \in Calls, NEW s \in Steps,
           \/ \E outcome : Settles(e, s, outcome)
           \/ \E phase : Phase(e, s, phase) /\ executor[e][s].phase # "idle"
           \/ executor' = [executor EXCEPT ![e][s] = Idle]
    PROVE  AbortsNobody
<1>1. executor[e][s] \in ExecutorRecords
  OBVIOUS
<1>2. CASE \E outcome : Settles(e, s, outcome)
  <2>1. executor' = [executor EXCEPT ![e][s] = [Idle EXCEPT !.phase = "closing"]]
    BY <1>2 DEF Settles
  <2> DEFINE x == [Idle EXCEPT !.phase = "closing"]
  <2>2. ~x.aborted
    BY DEF Idle
  <2>3. executor' = [executor EXCEPT ![e][s] = x]
    BY <2>1
  <2> HIDE DEF x
  <2>4. \A d \in Calls, t \in Steps : executor'[d][t] = IF d = e /\ t = s THEN x ELSE executor[d][t]
    BY <2>3
  <2> QED BY <2>2, <2>4 DEF AbortsNobody
<1>3. CASE \E phase : Phase(e, s, phase) /\ executor[e][s].phase # "idle"
  <2>1. PICK phase : executor' = [executor EXCEPT ![e][s] = [executor[e][s] EXCEPT !.phase = phase]]
    BY <1>3 DEF Phase
  <2>2. \A d \in Calls, t \in Steps : executor'[d][t] = IF d = e /\ t = s
             THEN [executor[e][s] EXCEPT !.phase = phase] ELSE executor[d][t]
    BY <2>1
  <2> QED BY <1>1, <1>3, <2>2 DEF AbortsNobody, ExecutorRecords
<1>4. CASE executor' = [executor EXCEPT ![e][s] = Idle]
  <2>1. \A d \in Calls, t \in Steps : executor'[d][t] = IF d = e /\ t = s
             THEN [phase |-> "idle", aborted |-> FALSE, mapped |-> FALSE] ELSE executor[d][t]
    BY <1>4 DEF Idle
  <2> QED BY <2>1 DEF AbortsNobody
<1> QED BY <1>2, <1>3, <1>4

(* What keeps the invariant: the flag stays, nobody is aborted, and nobody *)
(* begins to write a cancellation.                                         *)
LEMMA CancelsStay ==
    ASSUME AbortsAreCancels, canceled => canceled', AbortsNobody \/ executor' = executor,
           \A c \in Calls : call'[c].op \in {"cancel", "shutdown"} /\ call'[c].pc = "persisting" =>
               call[c].op \in {"cancel", "shutdown"} /\ call[c].pc = "persisting"
    PROVE  AbortsAreCancels'
BY DEF AbortsAreCancels, AbortsNobody

LEMMA CallAborts ==
    ASSUME Shape, AbortsAreCancels, NEW c \in Calls, FirstTurn(c) \/ Progress(c)
    PROVE  AbortsAreCancels'
<1> USE DEF Shape, TypeOK
<1>1. CASE \/ NotLoaded(c) \/ StartReads(c) \/ StartJoins(c) \/ ReadFails(c) \/ JoinReturns(c)
           \/ CancelReturns(c) \/ WaitReturns(c) \/ ShutdownReturns(c)
           \/ \E obj \in Calls : StartFinds(c, obj) \/ Wait(c, obj)
           \/ StartCreates(c) \/ Launches(c) \/ Read(c) \/ Rewrite(c)
  <2>1. executor' = executor /\ canceled' = canceled
    BY <1>1 DEF NotLoaded, StartReads, StartJoins, ReadFails, JoinReturns, CancelReturns, WaitReturns,
                ShutdownReturns, StartFinds, Wait, StartCreates, Launches, Read, Rewrite, StartReading,
                executions, memory
  <2>2. \A d \in Calls \ {c} : call'[d] = call[d]
    BY <1>1 DEF NotLoaded, StartReads, StartJoins, ReadFails, JoinReturns, CancelReturns, WaitReturns,
                ShutdownReturns, StartFinds, Wait, StartCreates, Launches, Read, Rewrite, StartReading,
                Return, At
  <2>3. call'[c].op \notin {"cancel", "shutdown"} \/ call'[c].pc # "persisting"
    <3>1. CASE StartCreates(c)
      <4>1. call[c].op = "start" /\ (Return(c) \/ call' = [call EXCEPT ![c].pc = "persisting", ![c].obj = c])
        BY <3>1 DEF StartCreates
      <4> QED BY <4>1, ReturnIs, PersistingIs
    <3>2. CASE Wait(c, c) \/ \E obj \in Calls : Wait(c, obj)
      <4>1. Return(c) \/ call' = [call EXCEPT ![c].pc = "awaiting", ![c].target = execution]
        BY <3>2 DEF Wait
      <4> QED BY <4>1, ReturnIs, WaitingIs
    <3>3. CASE NotLoaded(c) \/ StartReads(c) \/ Read(c) \/ Rewrite(c)
      <4>1. \E pc \in {"reading", "rewriting", "loaded"} : call' = At(c, pc)
        BY <3>3 DEF NotLoaded, StartReads, StartReading, Read, Rewrite
      <4> QED BY <4>1, AtIs
    <3>4. CASE StartJoins(c)
      <4>1. call' = [call EXCEPT ![c].pc = "joined", ![c].target = startLock]
        BY <3>4 DEF StartJoins
      <4> QED BY <4>1, WaitingIs
    <3>5. CASE \/ ReadFails(c) \/ JoinReturns(c) \/ CancelReturns(c) \/ WaitReturns(c)
               \/ ShutdownReturns(c) \/ Launches(c) \/ \E obj \in Calls : StartFinds(c, obj)
      <4>1. Return(c)
        BY <3>5 DEF ReadFails, JoinReturns, CancelReturns, WaitReturns, ShutdownReturns, Launches, StartFinds
      <4> QED BY <4>1, ReturnIs
    <3> QED BY <1>1, <3>1, <3>2, <3>3, <3>4, <3>5
  <2> QED BY <2>1, <2>2, <2>3, CancelsStay
<1>2. CASE Shutdown(c)
  <2>1. /\ canceled' = (canceled \/ execution # None)
        /\ \/ execution # None /\ call' = At(c, "persisting") /\ UNCHANGED executor
           \/ /\ IF execution = None THEN UNCHANGED executor ELSE AbortControllers
              /\ call' = [call EXCEPT ![c].pc = "awaiting", ![c].target = execution]
    BY <1>2 DEF Shutdown
  <2>2. CASE execution # None
    BY <2>1, <2>2 DEF AbortsAreCancels
  <2>3. CASE execution = None
    <3>1. executor' = executor /\ call'[c].pc = "awaiting" /\ OneCall(c)
      BY <2>1, <2>3, WaitingIs
    <3> QED BY <2>1, <3>1, CancelsStay DEF OneCall
  <2> QED BY <2>2, <2>3
<1>3. CASE \E obj \in Calls : Resume(c, obj)
  <2>1. PICK obj \in Calls : Resume(c, obj)
    BY <1>3
  <2>2. CASE Return(c) /\ UNCHANGED <<copy, canceled, writes, unknown>>
    <3>1. executor' = executor /\ canceled' = canceled
      BY <2>1, <2>2 DEF Resume, executions
    <3>2. OneCall(c) /\ call'[c].pc = "done"
      BY <2>2, ReturnIs
    <3> QED BY <3>1, <3>2, CancelsStay DEF OneCall
  <2>3. CASE execution = None /\ call' = [call EXCEPT ![c].pc = "persisting", ![c].obj = obj]
    <3>1. executor' = executor /\ call[c].op = "resume" /\ call[c].pc \in {"begun", "loaded"}
      BY <2>1 DEF Resume, executions, Has
    <3>2. \A e \in Calls, s \in Steps : executor'[e][s].phase = "idle"
      <4>1. \A e \in Calls : ~Live(e) /\ ExecShape(e)
        BY <2>3, NoneIsNoCall DEF ExecutionShape, ExecShape
      <4> QED BY <3>1, <4>1 DEF ExecShape, Quiet
    <3>3. OneCall(c) /\ call'[c].op = "resume"
      BY <2>3, <3>1, PersistingIs
    <3>4. \A d \in Calls \ {c} : call'[d].pc # "persisting"
      <4>1. \A d \in Calls \ {c} : ~Busy(d)
        BY <3>1 DEF CallsShape, CallShape, Reading
      <4> QED BY <3>3, <4>1 DEF Busy, OneCall
    <3> QED BY <3>2, <3>3, <3>4 DEF AbortsAreCancels
  <2> QED BY <2>1, <2>2, <2>3 DEF Resume
<1>4. CASE \E obj \in Calls : Cancel(c, obj)
  <2>1. PICK obj \in Calls : Cancel(c, obj)
    BY <1>4
  <2>2. CASE Return(c) /\ UNCHANGED canceled
    <3>1. executor' = executor /\ OneCall(c) /\ call'[c].pc = "done"
      BY <2>1, <2>2, ReturnIs DEF Cancel, executions
    <3> QED BY <2>2, <3>1, CancelsStay DEF OneCall
  <2>3. CASE canceled' = TRUE
    BY <2>3 DEF AbortsAreCancels
  <2> QED BY <2>1, <2>2, <2>3 DEF Cancel
<1>5. CASE CancelAborts(c) \/ ShutdownAborts(c)
  <2>1. canceled /\ canceled' = canceled
    BY <1>5 DEF CancelAborts, ShutdownAborts, AbortsAreCancels, memory
  <2> QED BY <2>1 DEF AbortsAreCancels
<1> QED BY <1>1, <1>2, <1>3, <1>4, <1>5 DEF FirstTurn, Progress

LEMMA LoopAborts ==
    ASSUME Shape, AbortsAreCancels, NEW e \in Calls, Executes(e)
    PROVE  AbortsAreCancels'
<1> USE DEF Shape, TypeOK
<1>1. canceled' = canceled /\ call' = call
  BY DEF Executes, SequentialTurn, SequentialAfter, Returns, GraphTurn, GraphSchedule, GraphRaces,
         GraphDrained, ExecutionEnds, outside
<1>2. \/ executor' = executor
      \/ \E S : Starting(e, S)
      \/ executor' = [c \in Calls |-> [s \in Steps |-> [executor[c][s] EXCEPT !.mapped = FALSE]]]
  <2>1. Schedule(e) => executor' = executor \/ \E S : Starting(e, S)
    BY DEF Schedule, Starts
  <2>2. CASE \/ SequentialTurn(e) \/ SequentialAfter(e) \/ Returns(e) \/ GraphRaces(e) \/ GraphDrained(e)
             \/ ExecutionEnds(e)
    BY <2>2 DEF SequentialTurn, SequentialAfter, Returns, GraphRaces, GraphDrained, ExecutionEnds
  <2>3. CASE GraphTurn(e) \/ GraphSchedule(e)
    BY <2>1, <2>3 DEF GraphTurn, GraphSchedule
  <2> QED BY <2>2, <2>3 DEF Executes
<1>3. CASE executor' = [c \in Calls |-> [s \in Steps |-> [executor[c][s] EXCEPT !.mapped = FALSE]]]
  <2>1. ASSUME NEW c \in Calls, NEW s \in Steps
        PROVE  /\ executor'[c][s].phase = executor[c][s].phase
               /\ executor'[c][s].aborted = executor[c][s].aborted
    <3>1. executor[c][s] \in ExecutorRecords /\ executor'[c][s] = [executor[c][s] EXCEPT !.mapped = FALSE]
      BY <1>3
    <3> QED BY <3>1 DEF ExecutorRecords
  <2>2. AbortsNobody
    BY <2>1 DEF AbortsNobody
  <2> QED BY <1>1, <2>2, CancelsStay
<1> QED BY <1>1, <1>2, <1>3, StartingAborts, CancelsStay

LEMMA ExecutorAborts ==
    ASSUME Shape, AbortsAreCancels, NEW e \in Calls, NEW s \in Steps, StepRuns(e, s)
    PROVE  AbortsAreCancels'
<1> USE DEF Shape, TypeOK
<1>1. canceled' = canceled /\ call' = call
  BY DEF StepRuns, StepMarked, StepLeased, StepEnds, StepReturns, outside, memory
<1>2. BeginExecute(e, s) =>
         \/ \E outcome : Settles(e, s, outcome)
         \/ \E phase : Phase(e, s, phase)
  BY DEF BeginExecute
<1>3. \/ \E outcome : Settles(e, s, outcome)
      \/ \E phase : Phase(e, s, phase) /\ executor[e][s].phase # "idle"
      \/ executor' = [executor EXCEPT ![e][s] = Idle]
  BY <1>2 DEF StepRuns, StepMarked, StepLeased, StepEnds, StepReturns
<1> QED BY <1>1, <1>3, SettlesAborts, CancelsStay

(* A controller is aborted by a call that has marked the run canceled, and *)
(* no resume takes the mark back while an execution is under way.          *)
LEMMA AbortsAreCancelsStep ==
    ASSUME ~CallsOverlap, Shape, AbortsAreCancels, [Next]_vars
    PROVE  AbortsAreCancels'
<1> USE DEF Shape, TypeOK
<1>1. ASSUME NEW c \in Calls, FirstTurn(c) \/ Progress(c)
      PROVE  AbortsAreCancels'
  BY <1>1, CallAborts
<1>2. ASSUME NEW c \in Calls, NEW confirm \in BOOLEAN,
             NEW op \in {"start", "wait", "cancel", "resume", "shutdown"},
             NEW d \in Definitions \union {None}, Begin(c, op, d, confirm)
      PROVE  AbortsAreCancels'
  <2>1. OneCall(c) /\ call'[c].pc = "begun"
    BY <1>2, BeginIs
  <2>2. executor' = executor /\ canceled' = canceled
    BY <1>2 DEF Begin, memory
  <2> QED BY <2>1, <2>2, CancelsStay DEF OneCall
<1>3. CASE \E c \in Calls : \/ \E d \in Definitions : Begin(c, "start", d, FALSE)
                            \/ \E op \in {"wait", "cancel", "shutdown"} : Begin(c, op, None, FALSE)
                            \/ \E confirm \in BOOLEAN : Begin(c, "resume", None, confirm)
  BY <1>2, <1>3
<1>4. CASE WriteRun \/ ResumeAccepting \/ UNCHANGED vars
  BY <1>4, CancelsStay DEF WriteRun, ResumeAccepting, vars, memory, executions
<1>5. CASE Crash
  <2>1. \A c \in Calls : call'[c].pc \in {"idle", "done"} /\ \A s \in Steps : executor'[c][s].phase = "idle"
    BY <1>5, CrashShape DEF CrashStep
  <2> QED BY <2>1 DEF AbortsAreCancels
<1> QED BY <1>1, <1>3, <1>4, <1>5, LoopAborts, ExecutorAborts DEF Next, Work, Begun

(* Without a cancellation, what a sequential loop has behind it stays      *)
(* succeeded.                                                              *)
Behind(e) ==
    ~canceled => \A s \in DOMAIN copy[runs].step :
        /\ exec[e].pc \in {"launched", "turn", "stepping", "stepped"} /\ s < exec[e].index
              => copy[runs].step[s] = "succeeded"
        /\ exec[e].pc \in {"stepping", "stepped"} /\ s = exec[e].index
              => copy[runs].step[s] \in {"running", "succeeded", "failed", "interrupted"}

LEMMA BehindAtWork ==
    ASSUME Shape, Shape', NEW e \in Calls, AtWork(e), Sequential(copy'[runs']) => Behind(e)'
    PROVE  BehindIsPassed'
<1>1. execution' = e
  BY DEF AtWork
<1>2. \A d \in Calls \ {e} : ~Live(d)'
  BY <1>1 DEF Shape, ExecutionShape, ExecShape
<1> QED BY <1>2 DEF BehindIsPassed, Behind

LEMMA BehindStayed ==
    ASSUME Shape, Shape', BehindIsPassed, exec' = exec,
           execution # None => /\ copy'[runs'].step = copy[runs].step /\ copy'[runs'].def = copy[runs].def
                               /\ canceled => canceled'
    PROVE  BehindIsPassed'
<1> SUFFICES ASSUME NEW e \in Calls, Live(e)', Sequential(copy'[runs'])
             PROVE  Behind(e)'
  BY DEF BehindIsPassed, Behind
<1>1. Live(e) /\ execution # None
  BY NoneIsNoCall DEF Live, Shape, ExecutionShape, ExecShape
<1>2. copy'[runs'].step = copy[runs].step /\ Sequential(copy[runs]) /\ (canceled => canceled')
  BY <1>1 DEF Sequential
<1>3. Behind(e)
  BY <1>1, <1>2 DEF BehindIsPassed, Behind
<1> QED BY <1>2, <1>3 DEF Behind

LEMMA LoopLeavesBehind ==
    ASSUME Shape, Shape', CopyAgrees, BehindIsPassed, NEW e \in Calls,
           \/ LoopGoes(e) \/ \E run : LoopEnds(e, run)
           \/ \E B, run : LoopSkips(e, B, run)
           \/ \E s \in Steps : \E run : StartsStep(e, s, run)
           \/ \E S, run : StartsSteps(e, S, run)
    PROVE  BehindIsPassed'
<1>1. Loops(e) /\ AtWork(e) /\ runs' = runs /\ canceled' = canceled
  BY DEF LoopGoes, LoopEnds, LoopSkips, StartsStep, StartsSteps, LoopStarts, Loops, AtWork
<1>2. /\ HoldsFor(e) /\ Live(e) /\ ExecShape(e) /\ runs # None /\ runs \in Calls
      /\ copy[runs] \in Runs /\ DOMAIN copy[runs].step \subseteq Steps /\ copy \in [Calls -> Runs \union {None}]
      /\ exec[e].index \in Nat
  BY <1>1, HoldsNow DEF Shape, TypeOK, ExecutionRecords
<1>3. \A s \in DOMAIN copy[runs].step : s \in Nat
  BY <1>2, StepsAreNumbers
<1> SUFFICES ASSUME Sequential(copy'[runs])
             PROVE  Behind(e)'
  BY <1>1, BehindAtWork
<1>5. Sequential(copy[runs]) => Behind(e)
  BY <1>2 DEF BehindIsPassed, Behind
<1>6. CASE LoopGoes(e)
  <2>1. copy' = copy /\ Sequential(copy[runs])
    BY <1>1, <1>6 DEF LoopGoes
  <2>2. /\ exec[e].pc = "stepped" /\ exec'[e].pc = "turn" /\ exec'[e].index = exec[e].index + 1
        /\ copy[runs].step[exec[e].index] \notin {"failed", "interrupted"}
    BY <1>6, <2>1 DEF LoopGoes
  <2>3. Quiet(e)
    BY <1>2, <2>1, <2>2 DEF ExecShape
  <2>4. ASSUME ~canceled, NEW s \in DOMAIN copy[runs].step, s < exec[e].index + 1
        PROVE  copy[runs].step[s] = "succeeded"
    <3>1. s < exec[e].index \/ s = exec[e].index
      BY <1>2, <1>3, <2>4
    <3>2. copy[runs].step[s] # "running"
      BY <1>2, <2>3 DEF HoldsFor, Quiet, Phase3
    <3> QED BY <1>5, <2>1, <2>2, <2>4, <3>1, <3>2 DEF Behind
  <2> QED BY <1>1, <2>1, <2>2, <2>4 DEF Behind
<1>7. ASSUME \/ \E run : LoopEnds(e, run)
             \/ \E B, run : LoopSkips(e, B, run)
      PROVE  Behind(e)'
  BY <1>7 DEF LoopEnds, LoopSkips, Behind
<1>9. ASSUME NEW s \in Steps, NEW run, StartsStep(e, s, run)
      PROVE  Behind(e)'
  <2>1. /\ copy' = [copy EXCEPT ![runs] = run] /\ run.def = copy[runs].def
        /\ DOMAIN run.step = DOMAIN copy[runs].step /\ run = Marked(copy[runs], {s}, "running")
        /\ exec[e].pc \in {"launched", "turn"} /\ exec'[e].pc = "stepping" /\ exec'[e].index = s
        /\ \A t \in DOMAIN copy[runs].step : t >= exec[e].index /\ t < s => copy[runs].step[t] = "succeeded"
        /\ Sequential(copy[runs]) /\ s \in Nat /\ ~canceled
    BY <1>9, StepsAreNumbers DEF StartsStep, LoopStarts, Becomes, Varies
  <2>2. copy'[runs] = run
    BY <1>2, <2>1
  <2>3. ASSUME NEW t \in DOMAIN copy[runs].step
        PROVE  run.step[t] = IF t = s THEN "running" ELSE copy[runs].step[t]
    BY <1>2, <2>1, MarkedIs DEF StepStates
  <2>4. ASSUME NEW t \in DOMAIN copy[runs].step, t < s
        PROVE  run.step[t] = "succeeded"
    <3>1. t < exec[e].index \/ t >= exec[e].index
      BY <1>2, <1>3
    <3>2. t # s
      BY <1>3, <2>1, <2>4
    <3> QED BY <1>5, <2>1, <2>3, <2>4, <3>1, <3>2 DEF Behind
  <2> QED BY <1>1, <2>1, <2>2, <2>3, <2>4, SMTT(25) DEF Behind
<1>10. ASSUME NEW S, NEW run, StartsSteps(e, S, run)
       PROVE  FALSE
  <2>1. /\ copy' = [copy EXCEPT ![runs] = run] /\ ~Sequential(copy[runs])
        /\ run = Marked(copy[runs], S, "running")
    BY <1>10 DEF StartsSteps, LoopStarts
  <2>2. copy'[runs] = run /\ run.def = copy[runs].def
    BY <1>2, <2>1, MarkedIs DEF StepStates, Varies
  <2> QED BY <2>1, <2>2 DEF Sequential
<1> QED BY <1>6, <1>7, <1>9, <1>10

LEMMA BehindIsPassedStep ==
    ASSUME Shape, Shape', CopyAgrees, AbortsAreCancels, Effect, BehindIsPassed
    PROVE  BehindIsPassed'
<1>1. /\ execution # None => /\ runs \in Calls /\ runs # None
                             /\ copy[runs] \in Runs /\ \A c \in Calls : ~Launching(c) /\ ~Reading(c)
      /\ copy \in [Calls -> Runs \union {None}]
  BY NoneIsNoCall DEF Shape, TypeOK, CallsShape, CallShape, ExecutionShape
<1>2. ASSUME NEW c \in Calls, CallTurn(c)
      PROVE  BehindIsPassed'
  <2>1. CASE CallStep(c) \/ BeginStep(c) \/ RewriteStep(c)
    BY <1>1, <2>1, BehindStayed DEF CallStep, BeginStep, RewriteStep, memory
  <2>2. CASE ReadStep(c)
    BY <2>2, BehindStayed DEF ReadStep, executions
  <2>3. ASSUME NEW run \in Runs, CallWrites(c, run)
        PROVE  BehindIsPassed'
    <3>1. execution # None => /\ runs' = runs /\ copy'[runs] = run
                              /\ run.step = copy[runs].step /\ run.def = copy[runs].def
      BY <1>1, <2>3, CallWritesRun, NoneIsNoCall, ZenonT(60) DEF CallWrites, Varies
    <3> QED BY <2>3, <3>1, BehindStayed DEF CallWrites
  <2>4. CASE LaunchStep(c)
    <3>1. execution' = c /\ exec'[c].pc = "launched" /\ exec'[c].index = 1
      BY <2>4 DEF LaunchStep
    <3>2. \A d \in Calls \ {c} : ~Live(d)'
      BY <3>1 DEF Shape, ExecutionShape, ExecShape
    <3>3. copy'[runs'] \in Runs
      BY <2>4 DEF LaunchStep, Shape, TypeOK
    <3>4. DOMAIN copy'[runs'].step \subseteq Nat \ {0}
      BY <3>3, RunForm, StepsAreNumbers
    <3>5. Behind(c)'
      BY <3>1, <3>4 DEF Behind
    <3> QED BY <3>2, <3>5 DEF BehindIsPassed, Behind
  <2> QED BY <1>2, <2>1, <2>2, <2>3, <2>4 DEF CallTurn
<1>3. ASSUME NEW e \in Calls, CloseStep(e)
      PROVE  BehindIsPassed'
  <2>1. \A d \in Calls : ~Live(d)'
    BY <1>3, NoneIsNoCall DEF CloseStep, Shape, ExecutionShape, ExecShape
  <2> QED BY <2>1 DEF BehindIsPassed
<1>4. ASSUME NEW e \in Calls, LoopTurn(e)
      PROVE  BehindIsPassed'
  BY <1>3, <1>4, LoopLeavesBehind DEF LoopTurn
<1>5. ASSUME NEW e \in Calls, NEW s \in Steps, ExecutorStep(e, s)
      PROVE  BehindIsPassed'
  <2>1. AtWork(e) /\ runs' = runs /\ canceled' = canceled
    BY <1>5 DEF ExecutorStep, ExecutorGoes, ExecutorSettles, ExecutorReturns, AtWork
  <2>2. /\ Live(e) /\ ExecShape(e) /\ runs \in Calls /\ copy[runs] \in Runs
        /\ Sequential(copy[runs]) => Behind(e)
    BY <2>1, HoldsNow DEF BehindIsPassed, Behind
  <2>3. CASE ExecutorGoes(e, s)
    BY <1>1, <2>1, <2>3, BehindStayed DEF ExecutorGoes
  <2>4. CASE ExecutorReturns(e, s)
    <3>1. /\ copy' = copy /\ exec'[e].index = exec[e].index
          /\ \/ exec[e].pc = "racing" /\ exec'[e].pc = "turn"
             \/ exec[e].pc = "stepping" /\ exec'[e].pc = "stepped"
             \/ exec[e].pc \notin {"racing", "stepping"} /\ exec'[e].pc = exec[e].pc
      BY <2>4 DEF ExecutorReturns
    <3>2. Sequential(copy[runs]) => exec[e].pc # "racing"
      BY <2>2 DEF ExecShape
    <3>3. Sequential(copy[runs]) => Behind(e)'
      BY <2>1, <2>2, <3>1, <3>2 DEF Behind
    <3> QED BY <2>1, <3>1, <3>3, BehindAtWork
  <2>5. ASSUME NEW outcome, NEW run, ExecutorSettles(e, s, outcome, run)
        PROVE  BehindIsPassed'
    <3>1. /\ copy' = [copy EXCEPT ![runs] = run] /\ exec' = exec
          /\ run = WithStep(copy[runs], s, outcome) /\ s \in DOMAIN copy[runs].step
          /\ outcome \in StepStates /\ outcome \in {"succeeded", "failed", "canceled", "interrupted"}
          /\ outcome = "canceled" => canceled \/ executor[e][s].aborted
          /\ executor[e][s].phase # "idle"
      BY <2>5 DEF ExecutorSettles, Becomes, StepStates
    <3>2. /\ run.def = copy[runs].def /\ DOMAIN run.step = DOMAIN copy[runs].step
          /\ \A t \in DOMAIN copy[runs].step :
                run.step[t] = IF t = s THEN outcome ELSE copy[runs].step[t]
      <4>1. Varies(run, copy[runs]) /\ run.step = [copy[runs].step EXCEPT ![s] = outcome]
        BY <2>2, <3>1, WithStepIs
      <4>2. copy[runs].step \in [DOMAIN copy[runs].step -> StepStates]
        BY <2>2, RunForm
      <4> QED BY <4>1, <4>2 DEF Varies
    <3>3. copy'[runs] = run
      BY <1>1, <2>2, <3>1
    <3>4. ~canceled => outcome \in {"succeeded", "failed", "interrupted"}
      BY <3>1 DEF AbortsAreCancels
    <3>5. Sequential(copy[runs]) => s = exec[e].index /\ exec[e].index \in Nat
      BY <2>2, <3>1 DEF ExecShape, Shape, TypeOK, ExecutionRecords
    <3>6. Sequential(copy[runs]) => Behind(e)'
      BY <2>1, <2>2, <3>1, <3>2, <3>3, <3>4, <3>5 DEF Behind
    <3> QED BY <2>1, <3>2, <3>3, <3>6, BehindAtWork DEF Sequential
  <2> QED BY <1>5, <2>3, <2>4, <2>5 DEF ExecutorStep
<1>6. CASE WriteStep \/ AcceptStep
  BY <1>6, BehindStayed DEF WriteStep, AcceptStep, memory
<1>7. CASE CrashStep
  BY <1>7 DEF CrashStep, BehindIsPassed, Live
<1> QED BY <1>2, <1>4, <1>5, <1>6, <1>7 DEF Effect

-----------------------------------------------------------------------------
(* What ties a step to WorkflowRun, as the queue grows by one write w of   *)
(* run: where the records and the writers are, and what run says.          *)
LEMMA WriterIsIts ==
    ASSUME NEW run, NEW w, Writing(run, w)
    PROVE  w \in Writers /\ w # None
BY WritersAre, NoneIsNoCall DEF Writing

LEMMA WritingGrows ==
    ASSUME Shape, Shape', CopyAgrees, WritersWait', RecordsFollow, NEW run, NEW w, Writing(run, w)
    PROVE  \E n : Grows(run, w, n)
<1>1. PICK n : n = Len(writes) + 1
  OBVIOUS
<1>2. OneWrite(run, w) /\ w # None /\ ready' \in {ready, None}
  BY WritingIs, WriterIsIts, WritingMoves
<1>3. /\ Len(writes) \in Nat /\ n \in Nat \ {0} /\ Len(writes) = n - 1
      /\ Positions' = Positions \union {n} /\ n \notin Positions /\ Len(writes) \in Positions
      /\ \A i \in Positions : Rec(i)' = Rec(i) /\ (i # 0 => By(i)' = By(i))
      /\ Rec(n)' = run /\ By(n)' = w
  BY <1>1, <1>2, OneWriteIs DEF OneWrite
<1>4. Positions = 0 .. n - 1 /\ By(0) = ready /\ By(0)' = ready'
  BY <1>3 DEF Positions, By
<1>5. \A i \in Positions : By(i)' \in {By(i), None}
  BY <1>2, <1>3, <1>4
<1>6. ASSUME NEW i \in Positions, NEW d \in Calls, NEW t \in Steps, By(i) = Worker(d, t), Stays(d, t)
      PROVE  By(i)' = Worker(d, t)
  BY <1>3, <1>4, <1>6 DEF Stays
<1>7. \A i \in Positions' : By(i)' = w => i = n
  BY <1>2, <1>3 DEF WritersWait
<1>8. runs' # None /\ copy'[runs'] = run /\ run \in Runs /\ file' = file
  BY <1>2, NoneIsNoCall DEF OneWrite
<1>9. runs # None => runs' = runs
  BY ZenonT(60) DEF Writing, CallWrites, LaunchStep, LoopEnds, LoopSkips, StartsStep, LoopStarts, Loops,
         ExecutorSettles, AtWork
<1>10. Grows(run, w, n)
  BY <1>2, <1>3, <1>4, <1>5, <1>6, <1>7, <1>8, <1>9 DEF Grows
<1> QED BY <1>10

(* The records of an execution are runs of one definition.                 *)
LEMMA RecordsAre ==
    ASSUME Shape, RecordsFollow, execution # None
    PROVE  /\ runs # None /\ copy[runs] \in Runs /\ DOMAIN copy[runs].step \subseteq Steps
           /\ \A i \in Positions : /\ Rec(i) \in Runs /\ Rec(i) # None /\ Rec(i).def = copy[runs].def
                                   /\ DOMAIN Rec(i).step = DOMAIN copy[runs].step
<1>1. runs # None /\ file # None /\ copy[runs] \in Runs /\ file \in Runs
  BY DEF Shape, TypeOK, ExecutionShape
<1>2. ASSUME NEW i \in Positions
      PROVE  Rec(i) \in Runs
  <2>1. CASE i = 0
    BY <1>1, <2>1 DEF Rec
  <2>2. CASE i # 0
    <3>1. writes \in Seq([run : Runs, by : Writers]) /\ i \in 1 .. Len(writes)
      BY <2>2 DEF Shape, TypeOK, Positions
    <3>2. writes[i] \in [run : Runs, by : Writers]
      BY <3>1, ElementIs
    <3> QED BY <2>2, <3>2 DEF Rec
  <2> QED BY <2>1, <2>2
<1>3. \A i \in Positions : Rec(i) # None /\ Rec(i).def = copy[runs].def
  BY <1>1, <1>2, NoneIsNoCall DEF RecordsFollow
<1> QED BY <1>1, <1>2, <1>3, SameDefinition, RunForm

(* An executor that is not idle is of the execution.                       *)
LEMMA BusyIs ==
    ASSUME Shape, NEW e \in Calls, NEW s \in Steps, executor[e][s].phase # "idle"
    PROVE  /\ execution = e /\ execution # None /\ runs # None /\ Live(e) /\ exec[e].pc # "ending"
           /\ s \in DOMAIN copy[runs].step
<1>1. ExecShape(e) /\ ~Quiet(e)
  BY DEF Shape, ExecutionShape, Quiet
<1> QED BY <1>1, NoneIsNoCall DEF ExecShape, Shape, ExecutionShape

(* What the write says of a step: of one with another executor than the    *)
(* writer what the copy said, and that a step succeeded only if its        *)
(* executor writes it or the last record says so.                          *)
LEMMA WritingSays ==
    ASSUME Shape, Shape', CopyAgrees, RecordsFollow, NEW run, NEW w, Writing(run, w), NEW t \in Steps
    PROVE  /\ \A d \in Calls : executor[d][t].phase # "idle" /\ w # Worker(d, t) =>
                 run.step[t] = copy[runs].step[t]
           /\ Succeeded(run, t) =>
                 \/ Succeeded(Rec(Len(writes)), t)
                 \/ \E d \in Calls : w = Worker(d, t) /\ executor'[d][t].phase = "closing"
           /\ Succeeded(Rec(Len(writes)), t) => Succeeded(run, t)
<1> DEFINE last == Rec(Len(writes))
<1>1. Succeeded(last, t) => Succeeded(run, t)
  <2> SUFFICES ASSUME Succeeded(last, t) PROVE Succeeded(run, t)
    OBVIOUS
  <2>1. OneWrite(run, w) /\ last # None
    BY WritingIs DEF Succeeded
  <2>2. run \in Runs /\ Follows(last, run) /\ last.def = run.def
    BY <2>1 DEF OneWrite, Follows
  <2>3. last \in Runs
    <3>1. CASE runs = None
      BY <2>1, <3>1, LastIs DEF Shape, TypeOK
    <3>2. CASE runs # None
      BY <3>2, LastIs
    <3> QED BY <3>1, <3>2
  <2>4. DOMAIN last.step = DOMAIN run.step
    BY <2>2, <2>3, SameDefinition
  <2> QED BY <2>2, <2>4, NoneIsNoCall DEF Succeeded, Follows
<1>2. ASSUME NEW q \in Runs, Varies(run, q), last = q,
             \A s \in DOMAIN q.step : run.step[s] = "succeeded" => q.step[s] = "succeeded"
      PROVE  Succeeded(run, t) => Succeeded(last, t)
  BY <1>2, NoneIsNoCall DEF Succeeded, Varies
<1>3. runs # None => last = copy[runs] /\ copy[runs] \in Runs
  BY LastIs
<1>4. ASSUME NEW c \in Calls, CallWrites(c, run)
      PROVE  /\ Succeeded(run, t) => Succeeded(last, t)
             /\ \A d \in Calls : executor[d][t].phase # "idle" => run.step[t] = copy[runs].step[t]
  <2>1. run \in Runs
    BY <1>4 DEF CallWrites
  <2>2. ASSUME NEW d \in Calls, executor[d][t].phase # "idle"
        PROVE  run.step[t] = copy[runs].step[t]
    <3>1. execution # None /\ runs # None
      BY <2>2, BusyIs
    <3>2. runs' = runs /\ copy[runs] # None
      BY <1>3, <1>4, <3>1, NoneIsNoCall DEF CallWrites
    <3> QED BY <1>4, <2>1, <3>1, <3>2, CallWritesRun
  <2>3. copy[runs'] = last
    <3>1. call[c].pc = "loaded" => copy[c] = file
      BY DEF Shape, CallsShape, CallShape
    <3> QED BY <1>4, <3>1, LastIs DEF CallWrites
  <2>4. CASE \A s \in DOMAIN run.step : run.step[s] = "pending"
    BY <2>2, <2>4 DEF Succeeded
  <2>5. CASE copy[runs'] \in Runs /\ run \in {Reset(copy[runs']), WithState(copy[runs'], "canceling"),
                                              finalized(copy[runs'])}
    <3>1. PICK q \in Runs : q = copy[runs']
      BY <2>5
    <3>2. Varies(run, q) /\ \A s \in DOMAIN q.step : run.step[s] = "succeeded" => q.step[s] = "succeeded"
      BY <2>5, <3>1, ResetIs, WithStateIs, FinalizedIs DEF RunStates
    <3>3. last = q
      BY <2>3, <3>1
    <3> QED BY <1>2, <2>2, <3>2, <3>3
  <2> QED BY <1>4, <2>4, <2>5 DEF CallWrites
<1>5. ASSUME NEW c \in Calls, LaunchStep(c), run = WithState(copy[runs], "running")
      PROVE  /\ Succeeded(run, t) => Succeeded(last, t)
             /\ \A d \in Calls : executor[d][t].phase = "idle"
  <2>1. runs # None /\ copy[runs] \in Runs /\ execution = None
    BY <1>5, NoneIsNoCall DEF LaunchStep
  <2>2. Varies(run, copy[runs]) /\ run.step = copy[runs].step
    BY <1>5, <2>1, WithStateIs DEF RunStates
  <2> QED BY <1>2, <1>3, <2>1, <2>2, BusyIs
<1>6. ASSUME NEW e \in Calls, LoopEnds(e, run)
      PROVE  /\ Succeeded(run, t) => Succeeded(last, t)
             /\ \A d \in Calls : executor[d][t].phase = "idle"
  <2>1. runs # None /\ copy[runs] \in Runs /\ execution = e /\ Quiet(e)
    BY <1>6, NoneIsNoCall DEF LoopEnds, Loops, AtWork
  <2>2. run \in {finalized(copy[runs]), verdict(copy[runs]), WithState(copy[runs], "failed")}
    BY <1>6 DEF LoopEnds
  <2>3. /\ Varies(run, copy[runs])
        /\ \A s \in DOMAIN copy[runs].step :
              run.step[s] = "succeeded" => copy[runs].step[s] = "succeeded"
    BY <2>1, <2>2, FinalizedIs, VerdictIs, WithStateIs DEF RunStates
  <2> QED BY <1>2, <1>3, <2>1, <2>3, BusyIs DEF Quiet
<1>7. ASSUME NEW e \in Calls, NEW B, LoopSkips(e, B, run)
      PROVE  /\ Succeeded(run, t) => Succeeded(last, t)
             /\ \A d \in Calls : executor[d][t].phase # "idle" => run.step[t] = copy[runs].step[t]
  <2>1. /\ runs # None /\ copy[runs] \in Runs /\ run = Marked(copy[runs], B, "skipped")
        /\ \A s \in B : copy[runs].step[s] = "pending"
    BY <1>7, NoneIsNoCall DEF LoopSkips, Loops, AtWork
  <2>2. /\ Varies(run, copy[runs])
        /\ \A s \in DOMAIN copy[runs].step :
              run.step[s] = IF s \in B THEN "skipped" ELSE copy[runs].step[s]
    BY <2>1, MarkedIs DEF StepStates
  <2>3. ASSUME NEW d \in Calls, executor[d][t].phase # "idle"
        PROVE  t \in DOMAIN copy[runs].step /\ copy[runs].step[t] # "pending"
    <3>1. t \in DOMAIN copy[runs].step /\ executor[d][t] \in ExecutorRecords
      BY <2>3, BusyIs DEF Shape, TypeOK
    <3>2. executor[d][t].phase \in Phase3 \/ executor[d][t].phase = "closing"
      BY <2>3, <3>1 DEF ExecutorRecords, Phase3
    <3> QED BY <3>1, <3>2 DEF CopyAgrees, ExecutorsAgree, TERMINAL_STEP_STATES
  <2> QED BY <1>2, <1>3, <2>1, <2>2, <2>3
<1>8. ASSUME NEW e \in Calls, NEW s \in Steps, StartsStep(e, s, run)
      PROVE  /\ Succeeded(run, t) => Succeeded(last, t)
             /\ \A d \in Calls : executor[d][t].phase = "idle"
  <2>1. /\ runs # None /\ copy[runs] \in Runs /\ run = Marked(copy[runs], {s}, "running")
        /\ Quiet(e) /\ execution = e
    BY <1>8, NoneIsNoCall DEF StartsStep, LoopStarts, Loops, AtWork
  <2>2. /\ Varies(run, copy[runs])
        /\ \A u \in DOMAIN copy[runs].step :
              run.step[u] = IF u = s THEN "running" ELSE copy[runs].step[u]
    BY <2>1, MarkedIs DEF StepStates
  <2> QED BY <1>2, <1>3, <2>1, <2>2, BusyIs DEF Quiet
<1>9. ASSUME NEW e \in Calls, NEW s \in Steps, NEW outcome, ExecutorSettles(e, s, outcome, run),
             w = Worker(e, s)
      PROVE  /\ \A d \in Calls : executor[d][t].phase # "idle" /\ w # Worker(d, t) =>
                   run.step[t] = copy[runs].step[t]
             /\ Succeeded(run, t) =>
                   \/ Succeeded(last, t)
                   \/ \E d \in Calls : w = Worker(d, t) /\ executor'[d][t].phase = "closing"
  <2>1. /\ runs # None /\ copy[runs] \in Runs /\ run = WithStep(copy[runs], s, outcome)
        /\ execution = e /\ s \in DOMAIN copy[runs].step /\ outcome \in StepStates
        /\ executor'[e][s].phase = "closing"
    BY <1>9, NoneIsNoCall DEF ExecutorSettles, AtWork, StepStates
  <2>2. /\ Varies(run, copy[runs])
        /\ \A u \in DOMAIN copy[runs].step :
              run.step[u] = IF u = s THEN outcome ELSE copy[runs].step[u]
    <3>1. Varies(run, copy[runs]) /\ run.step = [copy[runs].step EXCEPT ![s] = outcome]
      BY <2>1, WithStepIs
    <3>2. copy[runs].step \in [DOMAIN copy[runs].step -> StepStates]
      BY <2>1, RunForm
    <3> QED BY <3>1, <3>2
  <2>3. ASSUME NEW d \in Calls, executor[d][t].phase # "idle", w # Worker(d, t)
        PROVE  run.step[t] = copy[runs].step[t]
    <3>1. d = e /\ t \in DOMAIN copy[runs].step
      BY <2>1, <2>3, BusyIs
    <3> QED BY <1>9, <2>2, <2>3, <3>1
  <2>4. CASE t = s
    BY <1>9, <2>1, <2>3, <2>4
  <2>5. CASE t # s
    <3>1. Succeeded(run, t) => Succeeded(last, t)
      BY <1>3, <2>1, <2>2, <2>5, NoneIsNoCall DEF Succeeded, Varies
    <3> QED BY <2>3, <3>1
  <2> QED BY <2>4, <2>5
<1> HIDE DEF last
<1>10. /\ \A d \in Calls : executor[d][t].phase # "idle" /\ w # Worker(d, t) =>
             run.step[t] = copy[runs].step[t]
       /\ Succeeded(run, t) =>
             \/ Succeeded(last, t)
             \/ \E d \in Calls : w = Worker(d, t) /\ executor'[d][t].phase = "closing"
  BY <1>4, <1>5, <1>6, <1>7, <1>8, <1>9 DEF Writing
<1> QED BY <1>1, <1>10 DEF last

LEMMA BusyThen ==
    ASSUME Shape', NEW e \in Calls, NEW s \in Steps, executor'[e][s].phase # "idle"
    PROVE  /\ execution' = e /\ execution' # None /\ runs' # None /\ Live(e)' /\ exec'[e].pc # "ending"
           /\ s \in DOMAIN copy'[runs'].step
<1>1. ExecShape(e)' /\ ~Quiet(e)'
  BY DEF Shape, ExecutionShape, Quiet
<1> QED BY <1>1, NoneIsNoCall DEF ExecShape, Shape, ExecutionShape

(* The run a call installs has nothing running.                            *)
LEMMA InstalledAtRest ==
    ASSUME Shape, CopyAgrees, runs = None, NEW c \in Calls, call[c].pc = "loaded"
    PROVE  \A s : ~RunsOn(file, s)
<1>1. copy[c] = file
  BY DEF Shape, CallsShape, CallShape
<1> QED BY <1>1 DEF CopyAgrees, ReadIsAtRest, HasRunning, RunsOn

LEMMA OpeningIs ==
    ASSUME NEW run, NEW e \in Calls, NEW s \in Steps, Writing(run, Worker(e, s)), Opens(e, s)
    PROVE  StartsStep(e, s, run)
<1>1. ~\E outcome : ExecutorSettles(e, s, outcome, run)
  BY DEF ExecutorSettles, Opens
<1> QED BY <1>1, WritersAre DEF Writing

LEMMA GrowsPrecedes ==
    ASSUME NEW run, NEW w, NEW n, Grows(run, w, n), NEW d \in Calls, NEW s \in Steps, NEW t \in Steps,
           Stays(d, s), Stays(d, t), Precedes(Worker(d, s), Worker(d, t))
    PROVE  Precedes(Worker(d, s), Worker(d, t))'
<1>1. PICK i \in Positions, j \in Positions : By(i) = Worker(d, s) /\ By(j) = Worker(d, t) /\ i < j
  BY DEF Precedes
<1>2. By(i)' = Worker(d, s) /\ By(j)' = Worker(d, t) /\ i \in Positions' /\ j \in Positions'
  BY <1>1 DEF Grows
<1> QED BY <1>1, <1>2 DEF Precedes

(* The steps beside one are finitely many.                                 *)
LEMMA BesideIsFinite ==
    ASSUME Shape, NEW e \in Calls, NEW s \in Steps, NEW T, T \subseteq Beside(e, s)
    PROVE  /\ IsFiniteSet(T) /\ IsFiniteSet(Beside(e, s))
           /\ Cardinality(T) \in Nat /\ Cardinality(Beside(e, s)) \in Nat
           /\ Cardinality(T) <= Cardinality(Beside(e, s))
<1>1. IsFiniteSet(Beside(e, s))
  <2>1. CASE Beside(e, s) = {}
    BY <2>1, FS_EmptySet
  <2>2. CASE Beside(e, s) # {}
    <3>1. PICK t \in Steps : executor[e][t].phase # "idle"
      BY <2>2 DEF Beside
    <3>2. runs # None /\ copy[runs] \in Runs
      BY <3>1, BusyIs DEF Shape, TypeOK
    <3>3. DOMAIN copy[runs].step = 1 .. Len(copy[runs].def.steps) /\ Len(copy[runs].def.steps) \in Nat
      BY <3>2, RunForm, WorkflowAssumption
    <3>4. IsFiniteSet(DOMAIN copy[runs].step)
      BY <3>3, IntervalIsFinite
    <3>5. Beside(e, s) \subseteq DOMAIN copy[runs].step
      BY BusyIs DEF Beside
    <3> QED BY <3>4, <3>5, FS_Subset
  <2> QED BY <2>1, <2>2
<1>2. IsFiniteSet(T) /\ Cardinality(T) <= Cardinality(Beside(e, s))
  BY <1>1, FS_Subset
<1> QED BY <1>1, <1>2, FS_CardinalityType

(* One more write keeps what ties a step to WorkflowRun.                   *)
QueuePromises ==
    /\ OwnWriteQueued /\ MarkedByOwnWrite /\ ClosedByOwnWrite
    /\ RecordsHeld /\ SuccessKept /\ SuccessRecorded
    /\ NeedsPassed /\ HasRoom

LEMMA WritingPromises ==
    ASSUME Shape, Shape', CopyAgrees, CopyAgrees', WritersWait, WritersWait', RecordsFollow,
           WorkRecorded, BehindIsPassed, QueuePromises, NEW run, NEW w, Writing(run, w)
    PROVE  QueuePromises'
<1>1. PICK n : Grows(run, w, n)
  BY WritingGrows
<1>2. ASSUME NEW d \in Calls, NEW t \in Steps
      PROVE  \/ Stays(d, t) /\ w # Worker(d, t)
             \/ w = Worker(d, t) /\ (Opens(d, t) \/ Closes(d, t))
  BY WritingMoves
<1>3. \A d \in Calls, t \in Steps : Worker(d, t) # None
  BY WritersAre, NoneIsNoCall
<1>4. runs = None => Positions = {0} /\ \A s : ~RunsOn(Rec(0), s)
  <2> SUFFICES ASSUME runs = None
               PROVE  Positions = {0} /\ \A s : ~RunsOn(Rec(0), s)
    OBVIOUS
  <2>1. \E c \in Calls : call[c].pc = "loaded"
    BY NoneIsNoCall, ZenonT(60) DEF Writing, CallWrites, LaunchStep, LoopEnds, LoopSkips, StartsStep, LoopStarts,
                        Loops, ExecutorSettles, AtWork
  <2> QED BY <2>1, InstalledAtRest, LastIs
<1>5. OwnWriteQueued'
  <2>1. ASSUME NEW d \in Calls, NEW t \in Steps, executor'[d][t].phase \in {"marking", "closing"}
        PROVE  \E i \in Positions' : By(i)' = Worker(d, t)
    <3>1. CASE Stays(d, t)
      <4>1. PICK i \in Positions : By(i) = Worker(d, t)
        BY <2>1, <3>1 DEF Stays, QueuePromises, OwnWriteQueued
      <4> QED BY <1>1, <3>1, <4>1 DEF Grows
    <3>2. CASE w = Worker(d, t)
      BY <1>1, <3>2 DEF Grows
    <3> QED BY <1>2, <3>1, <3>2
  <2> QED BY <2>1 DEF OwnWriteQueued
<1>6. ASSUME NEW d \in Calls, NEW t \in Steps, Stays(d, t), w # Worker(d, t),
             NEW i \in Positions', By(i)' = Worker(d, t)
      PROVE  i \in Positions /\ By(i) = Worker(d, t)
  BY <1>1, <1>3, <1>6 DEF Grows
<1>7. ASSUME NEW i \in Positions', NEW j \in Positions', i < j
      PROVE  i \in Positions /\ Rec(i)' = Rec(i) /\ i \in Nat /\ j \in Nat
  BY <1>1, <1>7 DEF Grows
<1>8. MarkedByOwnWrite'
  <2>1. ASSUME NEW d \in Calls, NEW t \in Steps, executor'[d][t].phase = "marking",
               NEW i \in Positions', NEW j \in Positions', By(j)' = Worker(d, t), i < j
        PROVE  ~RunsOn(Rec(i), t)'
    <3>1. CASE Stays(d, t) /\ w # Worker(d, t)
      <4>1. i \in Positions /\ Rec(i)' = Rec(i) /\ j \in Positions /\ By(j) = Worker(d, t)
        BY <1>6, <1>7, <2>1, <3>1
      <4>2. ~RunsOn(Rec(i), t)
        BY <2>1, <3>1, <4>1 DEF Stays, QueuePromises, MarkedByOwnWrite
      <4> QED BY <4>1, <4>2 DEF RunsOn
    <3>2. CASE Opens(d, t)
      <4>1. executor[d][t].phase = "idle" /\ i \in Positions /\ Rec(i)' = Rec(i)
        BY <1>7, <2>1, <3>2 DEF Opens
      <4>2. ~RunsOn(Rec(i), t)
        <5>1. CASE runs = None
          BY <1>4, <4>1, <5>1
        <5>2. CASE runs # None
          <6>1. execution # None => execution = d
            <7>1. execution' = d
              BY <2>1, BusyThen
            <7>2. execution # None => execution' = execution
              BY ZenonT(60) DEF Writing, CallWrites, LaunchStep, LoopEnds, LoopSkips, StartsStep, LoopStarts,
                     Loops, ExecutorSettles, AtWork
            <7> QED BY <7>1, <7>2
          <6> QED BY <4>1, <5>2, <6>1 DEF QueuePromises, RecordsHeld
        <5> QED BY <5>1, <5>2
      <4> QED BY <4>1, <4>2 DEF RunsOn
    <3>3. ~Closes(d, t)
      BY <2>1 DEF Closes
    <3> QED BY <1>2, <3>1, <3>2, <3>3
  <2> QED BY <2>1 DEF MarkedByOwnWrite
<1>9. ASSUME NEW d \in Calls, NEW t \in Steps, executor'[d][t].phase # "idle",
             Stays(d, t), w # Worker(d, t)
      PROVE  /\ copy'[runs'].step[t] = copy[runs].step[t] /\ executor[d][t].phase # "idle"
  <2>1. executor[d][t].phase # "idle"
    BY <1>9 DEF Stays
  <2>2. run.step[t] = copy[runs].step[t]
    BY <1>9, <2>1, WritingSays
  <2> QED BY <1>1, <2>1, <2>2 DEF Grows
<1>10. ClosedByOwnWrite'
  <2>1. ASSUME NEW d \in Calls, NEW t \in Steps, executor'[d][t].phase = "closing",
               NEW i \in Positions', NEW j \in Positions', By(j)' = Worker(d, t)
        PROVE  IF i < j THEN OnRecord(Rec(i), t)' ELSE Rec(i)'.step[t] = copy'[runs'].step[t]
    <3>1. CASE Stays(d, t) /\ w # Worker(d, t)
      <4>1. j \in Positions /\ By(j) = Worker(d, t) /\ executor[d][t].phase = "closing"
        BY <1>6, <2>1, <3>1 DEF Stays
      <4>2. copy'[runs'].step[t] = copy[runs].step[t]
        BY <1>9, <2>1, <3>1
      <4>3. CASE i \in Positions
        <5>1. IF i < j THEN OnRecord(Rec(i), t) ELSE Rec(i).step[t] = copy[runs].step[t]
          BY <4>1, <4>3 DEF QueuePromises, ClosedByOwnWrite
        <5>2. Rec(i)' = Rec(i)
          BY <1>1, <4>3 DEF Grows
        <5> QED BY <4>2, <5>1, <5>2 DEF OnRecord
      <4>4. CASE i \notin Positions
        <5>1. i = n /\ ~(i < j) /\ Rec(i)' = copy'[runs']
          BY <1>1, <4>1, <4>4, <2>1 DEF Grows
        <5> QED BY <5>1
      <4> QED BY <4>3, <4>4
    <3>2. CASE w = Worker(d, t) /\ Closes(d, t)
      <4>1. j = n /\ Rec(n)' = copy'[runs']
        BY <1>1, <2>1, <3>2 DEF Grows
      <4>2. CASE i \in Positions
        <5>1. i < j /\ Rec(i)' = Rec(i)
          BY <1>1, <4>1, <4>2 DEF Grows
        <5>2. OnRecord(Rec(i), t)
          <6>1. CASE executor[d][t].phase \in {"waiting", "executing"}
            BY <4>2, <6>1 DEF WorkRecorded
          <6>2. CASE executor[d][t].phase = "marking"
            <7>1. By(0) = Worker(d, t) /\ 0 \in Positions /\ 0 <= i
              BY <1>1, <3>2, <4>2, <6>2 DEF Closes, By, Grows
            <7> QED BY <4>2, <6>2, <7>1 DEF WorkRecorded
          <6> QED BY <3>2, <6>1, <6>2 DEF Closes, Phase3
        <5> QED BY <5>1, <5>2 DEF OnRecord
      <4>3. CASE i \notin Positions
        BY <1>1, <4>1, <4>3, <2>1 DEF Grows
      <4> QED BY <4>2, <4>3
    <3>3. ~Opens(d, t)
      BY <2>1 DEF Opens
    <3> QED BY <1>2, <3>1, <3>2, <3>3
  <2> QED BY <2>1 DEF ClosedByOwnWrite
<1>11. RecordsHeld'
  <2>1. ASSUME NEW i \in Positions', NEW s \in Steps, RunsOn(Rec(i), s)'
        PROVE  execution' # None /\ executor'[execution'][s].phase # "idle"
    <3>1. CASE i \in Positions
      <4>1. RunsOn(Rec(i), s) /\ runs # None
        <5>1. RunsOn(Rec(i), s)
          BY <1>1, <2>1, <3>1 DEF Grows, RunsOn
        <5> QED BY <1>4, <3>1, <5>1
      <4>2. execution # None /\ executor[execution][s].phase # "idle" /\ execution \in Calls
        BY <3>1, <4>1 DEF QueuePromises, RecordsHeld, Shape, TypeOK
      <4>3. executor'[execution][s].phase # "idle"
        BY <1>2, <4>2 DEF Stays, Opens, Closes
      <4> QED BY <4>2, <4>3, BusyThen
    <3>2. CASE i \notin Positions
      <4>1. /\ s \in DOMAIN copy'[runs'].step /\ copy'[runs'].step[s] = "running" /\ runs' # None
        BY <1>1, <2>1, <3>2 DEF Grows, RunsOn
      <4>2. execution' # None /\ executor'[execution'][s].phase \in Phase3
        BY <4>1 DEF CopyAgrees, RunningIsHeld
      <4> QED BY <4>2 DEF Phase3
    <3> QED BY <3>1, <3>2
  <2> QED BY <2>1 DEF RecordsHeld
<1>12. Len(writes) \in Positions /\ (runs # None => copy[runs] = Rec(Len(writes)))
       /\ (runs = None => Len(writes) = 0)
  BY LastIs
<1>13. SuccessKept'
  <2>1. ASSUME NEW i \in Positions', NEW s \in Steps, Succeeded(Rec(i), s)'
        PROVE  Succeeded(copy[runs], s)'
    <3>1. CASE i \in Positions
      <4>1. Succeeded(Rec(i), s)
        BY <1>1, <2>1, <3>1 DEF Grows, Succeeded
      <4>2. Succeeded(Rec(Len(writes)), s)
        BY <1>4, <1>12, <3>1, <4>1 DEF QueuePromises, SuccessKept
      <4>3. Succeeded(run, s)
        BY <4>2, WritingSays
      <4> QED BY <1>1, <4>3 DEF Grows, Succeeded
    <3>2. CASE i \notin Positions
      BY <1>1, <2>1, <3>2 DEF Grows, Succeeded
    <3> QED BY <3>1, <3>2
  <2> QED BY <2>1 DEF SuccessKept
<1>14. SuccessRecorded'
  <2>1. ASSUME NEW s \in Steps, Succeeded(copy[runs], s)', ~\E d \in Calls : executor'[d][s].phase = "closing"
        PROVE  \A i \in Positions' : Succeeded(Rec(i), s)'
    <3>1. Succeeded(run, s)
      BY <1>1, <2>1 DEF Grows, Succeeded
    <3>2. Succeeded(Rec(Len(writes)), s)
      BY <2>1, <3>1, WritingSays
    <3>3. ~\E d \in Calls : executor[d][s].phase = "closing"
      BY <1>2, <2>1 DEF Stays, Opens, Closes, Phase3
    <3>4. \A i \in Positions : Succeeded(Rec(i), s)
      BY <1>4, <1>12, <3>2, <3>3 DEF QueuePromises, SuccessRecorded
    <3>5. ASSUME NEW i \in Positions'
          PROVE  Succeeded(Rec(i), s)'
      BY <1>1, <3>1, <3>4 DEF Grows, Succeeded
    <3> QED BY <3>5
  <2> QED BY <2>1 DEF SuccessRecorded
<1>15. runs # None => run.def = copy[runs].def
  <2>1. OneWrite(run, w)
    BY WritingIs
  <2> QED BY <1>12, <2>1, LastIs DEF OneWrite
<1>16. ASSUME NEW d \in Calls, NEW t \in Steps, executor'[d][t].phase = "marking", Opens(d, t),
              w = Worker(d, t)
       PROVE  /\ StartsStep(d, t, run) /\ Quiet(d) /\ Sequential(copy[runs]) /\ runs # None
              /\ copy[runs] \in Runs /\ Live(d) /\ exec[d].pc \in {"launched", "turn"} /\ ~canceled
  <2>1. StartsStep(d, t, run)
    BY <1>16, OpeningIs
  <2>2. AtWork(d) /\ Quiet(d) /\ Sequential(copy[runs]) /\ exec[d].pc \in {"launched", "turn"} /\ ~canceled
    BY <2>1 DEF StartsStep, LoopStarts, Loops
  <2> QED BY <2>1, <2>2, HoldsNow
<1>17. NeedsPassed'
  <2>1. ASSUME NEW d \in Calls, NEW t \in Steps, executor'[d][t].phase = "marking",
               NEW u \in Needed(copy'[runs'], t)
        PROVE  /\ Succeeded(copy[runs], u)'
               /\ executor'[d][u].phase = "closing" => Precedes(Worker(d, u), Worker(d, t))'
    <3>1. CASE Stays(d, t) /\ w # Worker(d, t)
      <4>1. executor[d][t].phase = "marking"
        BY <2>1, <3>1 DEF Stays
      <4>2. runs # None /\ copy[runs] \in Runs
        BY <4>1, BusyIs DEF Shape, TypeOK
      <4>3. u \in Needed(copy[runs], t)
        BY <1>1, <1>15, <2>1, <4>2 DEF Grows, Needed, Sequential
      <4>4. /\ Succeeded(copy[runs], u)
            /\ executor[d][u].phase = "closing" => Precedes(Worker(d, u), Worker(d, t))
        BY <4>1, <4>3 DEF QueuePromises, NeedsPassed
      <4>5. u \in Steps /\ u \in DOMAIN copy[runs].step /\ copy[runs].step[u] = "succeeded"
        BY <4>2, <4>4, RunForm DEF Succeeded
      <4>6. Succeeded(copy[runs], u)'
        BY <1>1, <1>12, <4>2, <4>4, <4>5, WritingSays DEF Grows, Succeeded
      <4>7. ASSUME executor'[d][u].phase = "closing"
            PROVE  Precedes(Worker(d, u), Worker(d, t))'
        <5>1. ~Closes(d, u)
          BY <4>5 DEF Closes, CopyAgrees, ExecutorsAgree
        <5>2. Stays(d, u)
          BY <1>2, <4>5, <4>7, <5>1 DEF Opens
        <5>3. Precedes(Worker(d, u), Worker(d, t))
          BY <4>4, <4>7, <5>2 DEF Stays
        <5> QED BY <1>1, <3>1, <4>5, <5>2, <5>3, GrowsPrecedes
      <4> QED BY <4>6, <4>7
    <3>2. CASE w = Worker(d, t) /\ Opens(d, t)
      <4>1. /\ StartsStep(d, t, run) /\ Quiet(d) /\ Sequential(copy[runs]) /\ runs # None
            /\ copy[runs] \in Runs /\ Live(d) /\ exec[d].pc \in {"launched", "turn"} /\ ~canceled
        BY <1>16, <2>1, <3>2
      <4>2. u \in 1 .. t - 1 /\ t \in Nat
        BY <1>1, <1>15, <2>1, <4>1, StepsAreNumbers DEF Grows, Needed, Sequential
      <4>3. t \in DOMAIN copy[runs].step
        BY <4>1 DEF StartsStep, LoopStarts
      <4>4. u \in DOMAIN copy[runs].step /\ u \in Steps /\ u < t /\ u \in Nat
        BY <4>1, <4>2, <4>3, RunForm, WorkflowAssumption
      <4>5. copy[runs].step[u] = "succeeded"
        <5>1. exec[d].index \in Nat
          BY DEF Shape, TypeOK, ExecutionRecords
        <5>2. CASE u < exec[d].index
          BY <4>1, <4>4, <5>2 DEF BehindIsPassed
        <5>3. CASE u >= exec[d].index
          BY <4>1, <4>4, <5>3 DEF StartsStep
        <5> QED BY <4>4, <5>1, <5>2, <5>3
      <4>6. Succeeded(copy[runs], u)'
        BY <1>1, <1>12, <4>1, <4>4, <4>5, WritingSays, NoneIsNoCall DEF Grows, Succeeded
      <4>7. executor'[d][u].phase = "idle"
        <5>1. executor[d][u].phase = "idle" /\ w # Worker(d, u)
          BY <3>2, <4>1, <4>4, WritersAre DEF Quiet
        <5> QED BY <1>2, <4>4, <5>1 DEF Stays
      <4> QED BY <4>6, <4>7
    <3>3. ~Closes(d, t)
      BY <2>1 DEF Closes
    <3> QED BY <1>2, <3>1, <3>2, <3>3
  <2> QED BY <2>1 DEF NeedsPassed
<1>18. HasRoom'
  <2>1. ASSUME NEW d \in Calls, NEW t \in Steps, executor'[d][t].phase = "marking"
        PROVE  /\ Cardinality(Beside(d, t)') < copy'[runs'].def.maxConcurrency
               /\ \A u \in Beside(d, t)' :
                     copy'[runs'].def.steps[t].resources \intersect copy'[runs'].def.steps[u].resources = {}
    <3>1. CASE Stays(d, t) /\ w # Worker(d, t)
      <4>1. executor[d][t].phase = "marking"
        BY <2>1, <3>1 DEF Stays
      <4>2. runs # None /\ copy[runs] \in Runs /\ copy'[runs'].def = copy[runs].def
        BY <1>1, <1>15, <4>1, BusyIs DEF Shape, TypeOK, Grows
      <4>3. Beside(d, t)' \subseteq Beside(d, t)
        <5>1. ASSUME NEW u \in Steps, u # t, executor'[d][u].phase # "idle",
                     executor'[d][u].phase = "marking" => ~Precedes(Worker(d, t), Worker(d, u))'
              PROVE  u \in Beside(d, t)
          <6>1. CASE Stays(d, u)
            BY <1>1, <3>1, <5>1, <6>1, GrowsPrecedes DEF Stays, Beside
          <6>2. CASE Closes(d, u)
            <7>1. executor[d][u].phase = "marking" => By(0) = Worker(d, u) /\ 0 \in Positions
              BY <1>1, <6>2 DEF Closes, By, Grows
            <7>2. executor[d][u].phase = "marking" => ~Precedes(Worker(d, t), Worker(d, u))
              BY <1>1, <1>3, <7>1 DEF WritersWait, Precedes, Grows
            <7> QED BY <5>1, <6>2, <7>2 DEF Beside, Closes, Phase3
          <6>3. ~Opens(d, u)
            BY <4>1 DEF Opens, Quiet
          <6> QED BY <1>2, <6>1, <6>2, <6>3
        <5> QED BY <5>1 DEF Beside
      <4>4. Cardinality(Beside(d, t)') <= Cardinality(Beside(d, t))
            /\ Cardinality(Beside(d, t)') \in Nat /\ Cardinality(Beside(d, t)) \in Nat
        BY <4>3, BesideIsFinite
      <4>5. /\ Cardinality(Beside(d, t)) < copy[runs].def.maxConcurrency
            /\ \A u \in Beside(d, t) :
                 copy[runs].def.steps[t].resources \intersect copy[runs].def.steps[u].resources = {}
        BY <4>1 DEF QueuePromises, HasRoom
      <4>6. copy[runs].def.maxConcurrency \in Nat
        BY <4>2, RunForm, WorkflowAssumption
      <4> QED BY <4>2, <4>3, <4>4, <4>5, <4>6
    <3>2. CASE w = Worker(d, t) /\ Opens(d, t)
      <4>1. Quiet(d) /\ run \in Runs /\ copy'[runs'] = run
        BY <1>1, <1>16, <2>1, <3>2 DEF Grows
      <4>2. ASSUME NEW u \in Steps, u # t
            PROVE  executor'[d][u].phase = "idle"
        <5>1. executor[d][u].phase = "idle" /\ w # Worker(d, u)
          BY <3>2, <4>1, <4>2, WritersAre DEF Quiet
        <5> QED BY <1>2, <5>1 DEF Stays
      <4>3. Beside(d, t)' = {}
        BY <4>2 DEF Beside
      <4>4. run.def.maxConcurrency \in Nat \ {0}
        BY <4>1, RunForm, WorkflowAssumption
      <4> QED BY <4>1, <4>3, <4>4, FS_EmptySet
    <3>3. ~Closes(d, t)
      BY <2>1 DEF Closes
    <3> QED BY <1>2, <3>1, <3>2, <3>3
  <2> QED BY <2>1 DEF HasRoom
<1> QED BY <1>5, <1>8, <1>10, <1>11, <1>13, <1>14, <1>17, <1>18 DEF QueuePromises

LEMMA KeepingMoves ==
    ASSUME Shape, Keeping
    PROVE  /\ \A d \in Calls, t \in Steps : Stays(d, t) \/ Proceeds(d, t) \/ Leaves(d, t)
           /\ execution' = execution \/ \A d \in Calls : Quiet(d)
<1>1. ASSUME NEW e \in Calls, NEW s \in Steps, ExecutorGoes(e, s) \/ ExecutorReturns(e, s)
      PROVE  /\ \A d \in Calls, t \in Steps : Stays(d, t) \/ Proceeds(d, t) \/ Leaves(d, t)
             /\ execution' = execution
  <2>1. PhasesBut(e, {s}) /\ execution' = execution
    BY <1>1 DEF ExecutorGoes, ExecutorReturns, AtWork
  <2>2. Proceeds(e, s) \/ Leaves(e, s)
    BY <1>1 DEF ExecutorGoes, ExecutorReturns, Proceeds, Leaves
  <2>3. ready' = ready \/ ready = Worker(e, s)
    BY <1>1 DEF ExecutorGoes, ExecutorReturns
  <2>4. ASSUME NEW d \in Calls, NEW t \in Steps, ~(d = e /\ t = s)
        PROVE  Stays(d, t)
    BY <2>1, <2>3, <2>4, WritersAre DEF PhasesBut, Stays
  <2> QED BY <2>1, <2>2, <2>4
<1>2. ASSUME NEW c \in Calls, CallStep(c) \/ ReadStep(c) \/ BeginStep(c)
      PROVE  /\ \A d \in Calls, t \in Steps : Stays(d, t)
             /\ execution' = execution
  BY <1>2, WritersAre DEF CallStep, ReadStep, BeginStep, memory, executions, SamePhases, Stays
<1>3. ASSUME NEW e \in Calls, LoopGoes(e) \/ CloseStep(e)
      PROVE  /\ \A d \in Calls, t \in Steps : Stays(d, t)
             /\ execution' = execution \/ \A d \in Calls : Quiet(d)
  <2>1. CASE LoopGoes(e)
    BY <2>1, WritersAre DEF LoopGoes, Loops, AtWork, SamePhases, Stays
  <2>2. CASE CloseStep(e)
    <3>1. \A d \in Calls, t \in Steps : Stays(d, t)
      BY <2>2, WritersAre DEF CloseStep, SamePhases, Stays
    <3>2. \A d \in Calls : Quiet(d)
      BY <2>2, BusyIs DEF CloseStep, Quiet
    <3> QED BY <3>1, <3>2
  <2> QED BY <1>3, <2>1, <2>2
<1>4. CASE AcceptStep
  BY <1>4 DEF AcceptStep, Stays
<1> QED BY <1>1, <1>2, <1>3, <1>4 DEF Keeping

LEMMA KeepingPromises ==
    ASSUME Shape, Shape', CopyAgrees, CopyAgrees', WritersWait, WritersWait', RecordsFollow,
           QueuePromises, Keeping
    PROVE  QueuePromises'
<1>1. /\ Positions' = Positions /\ ready' \in {ready, None} /\ 0 \in Positions
      /\ \A i : Rec(i)' = Rec(i)
      /\ \A i \in Positions : By(i)' = IF i = 0 THEN ready' ELSE By(i)
      /\ By(0) = ready /\ Positions \subseteq Nat
  BY KeepingIs, LastIs DEF Positions, Rec, By
<1>2. ASSUME NEW d \in Calls, NEW t \in Steps
      PROVE  Stays(d, t) \/ Proceeds(d, t) \/ Leaves(d, t)
  BY KeepingMoves
<1>3. \A d \in Calls, t \in Steps : Worker(d, t) # None
  BY WritersAre, NoneIsNoCall
<1>4. ASSUME NEW i \in Positions, NEW d \in Calls, NEW t \in Steps
      PROVE  /\ By(i)' = Worker(d, t) => By(i) = Worker(d, t)
             /\ By(i) = Worker(d, t) /\ Stays(d, t) => By(i)' = Worker(d, t)
  BY <1>1, <1>3 DEF Stays
<1>5. runs # None => runs' = runs /\ copy'[runs'] = copy[runs]
  BY KeepingIs
<1>6. runs = None /\ runs' # None =>
         Positions = {0} /\ copy'[runs'] = Rec(0) /\ \A s : ~RunsOn(Rec(0), s)
  <2> SUFFICES ASSUME runs = None, runs' # None
               PROVE  Positions = {0} /\ copy'[runs'] = Rec(0) /\ \A s : ~RunsOn(Rec(0), s)
    OBVIOUS
  <2>1. \E c \in Calls : call[c].pc = "loaded"
    BY DEF Keeping, CallStep, ReadStep, BeginStep, LoopGoes, Loops, CloseStep, ExecutorGoes,
           ExecutorReturns, AtWork, AcceptStep, memory
  <2>2. copy'[runs'] = file
    BY KeepingIs
  <2> QED BY <2>1, <2>2, InstalledAtRest, LastIs
<1>7. \A i, s : /\ RunsOn(Rec(i), s)' <=> RunsOn(Rec(i), s)
                /\ Succeeded(Rec(i), s)' <=> Succeeded(Rec(i), s)
                /\ OnRecord(Rec(i), s)' <=> OnRecord(Rec(i), s)
  BY <1>1 DEF RunsOn, Succeeded, OnRecord
<1>8. OwnWriteQueued'
  <2>1. ASSUME NEW d \in Calls, NEW t \in Steps, executor'[d][t].phase \in {"marking", "closing"}
        PROVE  \E i \in Positions : By(i)' = Worker(d, t)
    <3>1. Stays(d, t)
      BY <1>2, <2>1 DEF Proceeds, Leaves
    <3>2. PICK i \in Positions : By(i) = Worker(d, t)
      BY <2>1, <3>1 DEF Stays, QueuePromises, OwnWriteQueued
    <3> QED BY <1>4, <3>1, <3>2
  <2> QED BY <1>1, <2>1 DEF OwnWriteQueued
<1>9. MarkedByOwnWrite'
  <2>1. ASSUME NEW d \in Calls, NEW t \in Steps, executor'[d][t].phase = "marking",
               NEW i \in Positions, NEW j \in Positions, By(j)' = Worker(d, t), i < j
        PROVE  ~RunsOn(Rec(i), t)'
    <3>1. Stays(d, t)
      BY <1>2, <2>1 DEF Proceeds, Leaves
    <3> QED BY <1>4, <1>7, <2>1, <3>1 DEF Stays, QueuePromises, MarkedByOwnWrite
  <2> QED BY <1>1, <2>1 DEF MarkedByOwnWrite
<1>10. ClosedByOwnWrite'
  <2>1. ASSUME NEW d \in Calls, NEW t \in Steps, executor'[d][t].phase = "closing",
               NEW i \in Positions, NEW j \in Positions, By(j)' = Worker(d, t)
        PROVE  IF i < j THEN OnRecord(Rec(i), t)' ELSE Rec(i)'.step[t] = copy'[runs'].step[t]
    <3>1. Stays(d, t)
      BY <1>2, <2>1 DEF Proceeds, Leaves
    <3>2. executor[d][t].phase = "closing" /\ By(j) = Worker(d, t) /\ runs # None
      BY <1>4, <2>1, <3>1, BusyIs DEF Stays
    <3>3. IF i < j THEN OnRecord(Rec(i), t) ELSE Rec(i).step[t] = copy[runs].step[t]
      BY <3>2 DEF QueuePromises, ClosedByOwnWrite
    <3> QED BY <1>1, <1>5, <1>7, <3>2, <3>3
  <2> QED BY <1>1, <2>1 DEF ClosedByOwnWrite
(* Once an executor returns, all records say what the copy says.           *)
<1>11. ASSUME NEW d \in Calls, NEW t \in Steps, Leaves(d, t), NEW i \in Positions
       PROVE  /\ runs # None /\ t \in DOMAIN Rec(i).step /\ Rec(i) # None
              /\ Rec(i).step[t] = copy[runs].step[t] /\ copy[runs].step[t] \in TERMINAL_STEP_STATES
  <2>1. executor[d][t].phase = "closing" /\ By(0) = Worker(d, t) /\ ~(i < 0)
    BY <1>1, <1>11 DEF Leaves
  <2>2. Rec(i).step[t] = copy[runs].step[t]
    BY <1>1, <2>1 DEF QueuePromises, ClosedByOwnWrite
  <2>3. copy[runs].step[t] \in TERMINAL_STEP_STATES
    BY <2>1 DEF CopyAgrees, ExecutorsAgree
  <2>4. execution # None /\ t \in DOMAIN copy[runs].step
    BY <2>1, BusyIs
  <2> QED BY <2>2, <2>3, <2>4, RecordsAre
<1>12. RecordsHeld'
  <2>1. ASSUME runs' # None, NEW i \in Positions, NEW s \in Steps, RunsOn(Rec(i), s)
        PROVE  execution' # None /\ executor'[execution'][s].phase # "idle"
    <3>1. runs # None
      BY <1>6, <2>1
    <3>2. execution # None /\ executor[execution][s].phase # "idle" /\ execution \in Calls
      BY <2>1, <3>1 DEF QueuePromises, RecordsHeld, Shape, TypeOK
    <3>3. execution' = execution
      BY <3>2, KeepingMoves DEF Quiet
    <3>4. ~Leaves(execution, s)
      BY <1>11, <2>1, <3>2 DEF RunsOn, TERMINAL_STEP_STATES
    <3>5. executor'[execution][s].phase # "idle"
      BY <1>2, <3>2, <3>4 DEF Stays, Proceeds
    <3> QED BY <3>2, <3>3, <3>5
  <2> QED BY <1>1, <1>7, <2>1 DEF RecordsHeld
<1>13. SuccessKept'
  <2>1. ASSUME runs' # None, NEW i \in Positions, NEW s \in Steps, Succeeded(Rec(i), s)
        PROVE  Succeeded(copy[runs], s)'
    <3>1. CASE runs = None
      BY <1>6, <2>1, <3>1 DEF Succeeded
    <3>2. CASE runs # None
      BY <1>5, <2>1, <3>2 DEF QueuePromises, SuccessKept, Succeeded
    <3> QED BY <3>1, <3>2
  <2> QED BY <1>1, <1>7, <2>1 DEF SuccessKept
<1>14. SuccessRecorded'
  <2>1. ASSUME runs' # None, NEW s \in Steps, Succeeded(copy[runs], s)',
               ~\E d \in Calls : executor'[d][s].phase = "closing"
        PROVE  \A i \in Positions : Succeeded(Rec(i), s)
    <3>1. CASE runs = None
      BY <1>6, <2>1, <3>1 DEF Succeeded
    <3>2. CASE runs # None
      <4>1. Succeeded(copy[runs], s)
        BY <1>5, <2>1, <3>2 DEF Succeeded
      <4>2. CASE \E d \in Calls : executor[d][s].phase = "closing"
        <5>1. PICK d \in Calls : executor[d][s].phase = "closing"
          BY <4>2
        <5>2. Leaves(d, s)
          BY <1>2, <2>1, <5>1 DEF Stays, Proceeds
        <5> QED BY <1>11, <4>1, <5>2 DEF Succeeded
      <4> QED BY <3>2, <4>1, <4>2 DEF QueuePromises, SuccessRecorded
    <3> QED BY <3>1, <3>2
  <2> QED BY <1>1, <1>7, <2>1 DEF SuccessRecorded
<1>15. ASSUME NEW d \in Calls, NEW s \in Steps, NEW t \in Steps, Stays(d, s), Stays(d, t),
              Precedes(Worker(d, s), Worker(d, t))
       PROVE  Precedes(Worker(d, s), Worker(d, t))'
  <2>1. PICK i \in Positions, j \in Positions : By(i) = Worker(d, s) /\ By(j) = Worker(d, t) /\ i < j
    BY <1>15 DEF Precedes
  <2> QED BY <1>1, <1>4, <1>15, <2>1 DEF Precedes
<1>16. ASSUME NEW d \in Calls, NEW t \in Steps, executor'[d][t].phase = "marking"
       PROVE  /\ Stays(d, t) /\ executor[d][t].phase = "marking"
              /\ runs # None /\ copy[runs] \in Runs /\ copy'[runs'] = copy[runs]
  <2>1. Stays(d, t)
    BY <1>2, <1>16 DEF Proceeds, Leaves
  <2>2. executor[d][t].phase = "marking"
    BY <1>16, <2>1 DEF Stays
  <2> QED BY <1>5, <2>1, <2>2, BusyIs DEF Shape, TypeOK
<1>17. NeedsPassed'
  <2>1. ASSUME NEW d \in Calls, NEW t \in Steps, executor'[d][t].phase = "marking",
               NEW u \in Needed(copy'[runs'], t)
        PROVE  /\ Succeeded(copy[runs], u)'
               /\ executor'[d][u].phase = "closing" => Precedes(Worker(d, u), Worker(d, t))'
    <3>1. /\ Stays(d, t) /\ executor[d][t].phase = "marking"
          /\ runs # None /\ copy[runs] \in Runs /\ copy'[runs'] = copy[runs]
      BY <1>16, <2>1
    <3>2. /\ Succeeded(copy[runs], u)
          /\ executor[d][u].phase = "closing" => Precedes(Worker(d, u), Worker(d, t))
      BY <2>1, <3>1 DEF QueuePromises, NeedsPassed
    <3>3. u \in Steps
      BY <3>1, <3>2, RunForm DEF Succeeded
    <3>4. ASSUME executor'[d][u].phase = "closing"
          PROVE  Precedes(Worker(d, u), Worker(d, t))'
      <4>1. Stays(d, u)
        BY <1>2, <3>3, <3>4 DEF Proceeds, Leaves
      <4>2. Precedes(Worker(d, u), Worker(d, t))
        BY <3>2, <3>4, <4>1 DEF Stays
      <4> QED BY <1>15, <3>1, <3>3, <4>1, <4>2
    <3> QED BY <3>1, <3>2, <3>4 DEF Succeeded
  <2> QED BY <2>1 DEF NeedsPassed
<1>18. HasRoom'
  <2>1. ASSUME NEW d \in Calls, NEW t \in Steps, executor'[d][t].phase = "marking"
        PROVE  /\ Cardinality(Beside(d, t)') < copy'[runs'].def.maxConcurrency
               /\ \A u \in Beside(d, t)' :
                     copy'[runs'].def.steps[t].resources \intersect copy'[runs'].def.steps[u].resources = {}
    <3>1. /\ Stays(d, t) /\ executor[d][t].phase = "marking"
          /\ runs # None /\ copy[runs] \in Runs /\ copy'[runs'] = copy[runs]
      BY <1>16, <2>1
    <3>2. Beside(d, t)' \subseteq Beside(d, t)
      <4>1. ASSUME NEW u \in Steps, u # t, executor'[d][u].phase # "idle",
                   executor'[d][u].phase = "marking" => ~Precedes(Worker(d, t), Worker(d, u))'
            PROVE  u \in Beside(d, t)
        <5>1. CASE Stays(d, u)
          BY <1>15, <3>1, <4>1, <5>1 DEF Stays, Beside
        <5>2. CASE Proceeds(d, u)
          <6>1. executor[d][u].phase = "marking" => ~Precedes(Worker(d, t), Worker(d, u))
            BY <1>1, <1>3, <5>2 DEF Proceeds, WritersWait, Precedes
          <6> QED BY <4>1, <5>2, <6>1 DEF Beside, Proceeds
        <5>3. ~Leaves(d, u)
          BY <4>1 DEF Leaves
        <5> QED BY <1>2, <5>1, <5>2, <5>3
      <4> QED BY <4>1 DEF Beside
    <3>3. Cardinality(Beside(d, t)') <= Cardinality(Beside(d, t))
          /\ Cardinality(Beside(d, t)') \in Nat /\ Cardinality(Beside(d, t)) \in Nat
      BY <3>2, BesideIsFinite
    <3>4. /\ Cardinality(Beside(d, t)) < copy[runs].def.maxConcurrency
          /\ \A u \in Beside(d, t) :
               copy[runs].def.steps[t].resources \intersect copy[runs].def.steps[u].resources = {}
      BY <3>1 DEF QueuePromises, HasRoom
    <3>5. copy[runs].def.maxConcurrency \in Nat
      BY <3>1, RunForm, WorkflowAssumption
    <3> QED BY <3>1, <3>2, <3>3, <3>4, <3>5
  <2> QED BY <2>1 DEF HasRoom
<1> QED BY <1>8, <1>9, <1>10, <1>12, <1>13, <1>14, <1>17, <1>18 DEF QueuePromises

LEMMA WriteStepPromises ==
    ASSUME Shape, WriteStep, QueuePromises
    PROVE  QueuePromises'
<1>1. /\ Positions' = 0 .. Len(writes) - 1 /\ Positions = 0 .. Len(writes) /\ Len(writes) \in Nat \ {0}
      /\ \A i \in 0 .. Len(writes) - 1 : Rec(i)' = Rec(i + 1) /\ By(i)' = By(i + 1)
      /\ By(0) = None
      /\ UNCHANGED <<runs, copy, execution, exec, executor>>
  BY DEF WriteStep, memory, Positions, Rec, By
<1>2. ASSUME NEW i \in Positions'
      PROVE  i \in Nat /\ i + 1 \in Positions /\ Rec(i)' = Rec(i + 1) /\ By(i)' = By(i + 1)
  BY <1>1, <1>2
<1>3. ASSUME NEW u, u # None, NEW i \in Positions, By(i) = u
      PROVE  i - 1 \in Positions' /\ By(i - 1)' = u
  <2>1. i \in 1 .. Len(writes)
    BY <1>1, <1>3
  <2>2. i - 1 \in 0 .. Len(writes) - 1 /\ i - 1 + 1 = i
    BY <1>1, <2>1
  <2> QED BY <1>1, <1>3, <2>2
<1>4. \A d \in Calls, t \in Steps : Worker(d, t) # None
  BY WritersAre, NoneIsNoCall
<1>5. ASSUME NEW i \in Positions', NEW s
      PROVE  /\ RunsOn(Rec(i), s)' <=> RunsOn(Rec(i + 1), s)
             /\ Succeeded(Rec(i), s)' <=> Succeeded(Rec(i + 1), s)
             /\ OnRecord(Rec(i), s)' <=> OnRecord(Rec(i + 1), s)
  BY <1>2, <1>5 DEF RunsOn, Succeeded, OnRecord
<1>6. \A s : Succeeded(copy[runs], s)' <=> Succeeded(copy[runs], s)
  BY <1>1 DEF Succeeded
<1>7. OwnWriteQueued'
  BY <1>1, <1>3, <1>4, ZenonT(60) DEF QueuePromises, OwnWriteQueued
<1>8. MarkedByOwnWrite'
  <2>1. ASSUME NEW d \in Calls, NEW t \in Steps, executor[d][t].phase = "marking",
               NEW i \in Positions', NEW j \in Positions', By(j)' = Worker(d, t), i < j
        PROVE  ~RunsOn(Rec(i), t)'
    <3>1. i + 1 \in Positions /\ j + 1 \in Positions /\ By(j + 1) = Worker(d, t) /\ i + 1 < j + 1
      BY <1>2, <2>1
    <3> QED BY <1>5, <2>1, <3>1 DEF QueuePromises, MarkedByOwnWrite
  <2> QED BY <1>1, <2>1 DEF MarkedByOwnWrite
<1>9. ClosedByOwnWrite'
  <2>1. ASSUME NEW d \in Calls, NEW t \in Steps, executor[d][t].phase = "closing",
               NEW i \in Positions', NEW j \in Positions', By(j)' = Worker(d, t)
        PROVE  IF i < j THEN OnRecord(Rec(i), t)' ELSE Rec(i)'.step[t] = copy[runs].step[t]
    <3>1. /\ i + 1 \in Positions /\ j + 1 \in Positions /\ By(j + 1) = Worker(d, t)
          /\ (i + 1 < j + 1) <=> (i < j)
          /\ Rec(i)' = Rec(i + 1)
      BY <1>2, <2>1
    <3>2. IF i + 1 < j + 1 THEN OnRecord(Rec(i + 1), t) ELSE Rec(i + 1).step[t] = copy[runs].step[t]
      BY <2>1, <3>1 DEF QueuePromises, ClosedByOwnWrite
    <3> QED BY <1>5, <2>1, <3>1, <3>2
  <2> QED BY <1>1, <2>1 DEF ClosedByOwnWrite
<1>10. RecordsHeld'
  <2>1. ASSUME runs # None, NEW i \in Positions', NEW s \in Steps, RunsOn(Rec(i), s)'
        PROVE  execution # None /\ executor[execution][s].phase # "idle"
    BY <1>2, <1>5, <2>1 DEF QueuePromises, RecordsHeld
  <2> QED BY <1>1, <2>1 DEF RecordsHeld
<1>11. SuccessKept'
  <2>1. ASSUME runs # None, NEW i \in Positions', NEW s \in Steps, Succeeded(Rec(i), s)'
        PROVE  Succeeded(copy[runs], s)
    BY <1>2, <1>5, <2>1 DEF QueuePromises, SuccessKept
  <2> QED BY <1>1, <1>6, <2>1 DEF SuccessKept
<1>12. SuccessRecorded'
  <2>1. ASSUME runs # None, NEW s \in Steps, Succeeded(copy[runs], s),
               ~\E d \in Calls : executor[d][s].phase = "closing"
        PROVE  \A i \in Positions' : Succeeded(Rec(i), s)'
    BY <1>2, <1>5, <2>1 DEF QueuePromises, SuccessRecorded
  <2> QED BY <1>1, <1>6, <2>1 DEF SuccessRecorded
<1>13. ASSUME NEW u, NEW w, u # None, w # None
       PROVE  Precedes(u, w)' <=> Precedes(u, w)
  <2>1. Precedes(u, w) => Precedes(u, w)'
    <3> SUFFICES ASSUME NEW i \in Positions, NEW j \in Positions, By(i) = u, By(j) = w, i < j
                 PROVE  Precedes(u, w)'
      BY DEF Precedes
    <3>1. /\ i - 1 \in Positions' /\ By(i - 1)' = u /\ j - 1 \in Positions' /\ By(j - 1)' = w
      BY <1>3, <1>13
    <3>2. i - 1 < j - 1
      BY <1>1
    <3> QED BY <3>1, <3>2 DEF Precedes
  <2>2. Precedes(u, w)' => Precedes(u, w)
    <3> SUFFICES ASSUME NEW i \in Positions', NEW j \in Positions', By(i)' = u, By(j)' = w, i < j
                 PROVE  Precedes(u, w)
      BY DEF Precedes
    <3>1. /\ i + 1 \in Positions /\ By(i + 1) = u /\ j + 1 \in Positions /\ By(j + 1) = w /\ i + 1 < j + 1
      BY <1>2
    <3> QED BY <3>1 DEF Precedes
  <2> QED BY <2>1, <2>2
<1>14. NeedsPassed'
  <2>1. ASSUME NEW d \in Calls, NEW t \in Steps, executor[d][t].phase = "marking",
               NEW u \in Needed(copy[runs], t)
        PROVE  /\ Succeeded(copy[runs], u)
               /\ executor[d][u].phase = "closing" => Precedes(Worker(d, u), Worker(d, t))'
    <3>1. /\ Succeeded(copy[runs], u)
          /\ executor[d][u].phase = "closing" => Precedes(Worker(d, u), Worker(d, t))
      BY <2>1 DEF QueuePromises, NeedsPassed
    <3>2. u \in Steps
      <4>1. runs # None /\ copy[runs] \in Runs
        BY <2>1, BusyIs DEF Shape, TypeOK
      <4> QED BY <3>1, <4>1, RunForm DEF Succeeded
    <3> QED BY <1>4, <1>13, <3>1, <3>2
  <2> QED BY <1>1, <1>6, <2>1 DEF NeedsPassed
<1>15. HasRoom'
  <2>1. ASSUME NEW d \in Calls, NEW t \in Steps
        PROVE  Beside(d, t)' = Beside(d, t)
    BY <1>1, <1>4, <1>13 DEF Beside
  <2> QED BY <1>1, <2>1 DEF QueuePromises, HasRoom
<1> QED BY <1>7, <1>8, <1>9, <1>10, <1>11, <1>12, <1>14, <1>15 DEF QueuePromises

(* With no run in memory there is nothing to hold.                         *)
LEMMA NobodyPromises ==
    ASSUME runs' = None, \A e \in Calls, s \in Steps : executor'[e][s].phase = "idle"
    PROVE  QueuePromises'
BY DEF QueuePromises, OwnWriteQueued, MarkedByOwnWrite, ClosedByOwnWrite, RecordsHeld, SuccessKept,
       SuccessRecorded, NeedsPassed, HasRoom

(* The order of a start has every step in it.                              *)
LEMMA OrdersAreOnto ==
    ASSUME NEW r \in Runs, NEW S, S \subseteq DOMAIN r.step, NEW q \in Orders(S)
    PROVE  /\ IsFiniteSet(S) /\ Cardinality(S) \in Nat /\ S \subseteq Nat
           /\ q \in [1 .. Cardinality(S) -> S]
           /\ \A i, j \in 1 .. Cardinality(S) : i < j <=> q[i] < q[j]
           /\ \A s \in S : \E k \in 1 .. Cardinality(S) : q[k] = s
<1>1. DOMAIN r.step = 1 .. Len(r.def.steps) /\ Len(r.def.steps) \in Nat
  BY RunForm, WorkflowAssumption
<1>2. IsFiniteSet(S) /\ S \subseteq Nat
  BY <1>1, IntervalIsFinite, FS_Subset
<1>3. Cardinality(S) \in Nat
  BY <1>2, FS_CardinalityType
<1>4. q \in [1 .. Cardinality(S) -> S] /\ \A i, j \in 1 .. Cardinality(S) : i < j => q[i] < q[j]
  BY DEF Orders
<1>5. \A i, j \in 1 .. Cardinality(S) : i < j <=> q[i] < q[j]
  <2> SUFFICES ASSUME NEW i \in 1 .. Cardinality(S), NEW j \in 1 .. Cardinality(S), q[i] < q[j]
               PROVE  i < j
    BY <1>4
  <2>1. q[i] \in Nat /\ q[j] \in Nat
    BY <1>2, <1>4
  <2>2. i = j \/ j < i \/ i < j
    BY <1>3
  <2>3. j < i => q[j] < q[i]
    BY <1>4
  <2> QED BY <2>1, <2>2, <2>3
<1>6. \A i, j \in 1 .. Cardinality(S) : q[i] = q[j] => i = j
  <2> SUFFICES ASSUME NEW i \in 1 .. Cardinality(S), NEW j \in 1 .. Cardinality(S), q[i] = q[j]
               PROVE  i = j
    OBVIOUS
  <2>1. q[i] \in Nat /\ q[j] \in Nat
    BY <1>2, <1>4
  <2> QED BY <1>3, <1>4, <2>1
<1>7. q \in Injection(1 .. Cardinality(S), S)
  BY <1>4, <1>6 DEF Injection, IsInjective
<1>8. Cardinality(1 .. Cardinality(S)) = Cardinality(S)
  <2>1. 1 \in Int /\ Cardinality(S) \in Int
    BY <1>3
  <2>2. Cardinality(1 .. Cardinality(S)) = IF 1 > Cardinality(S) THEN 0 ELSE Cardinality(S) - 1 + 1
    BY <2>1, FS_Interval
  <2> QED BY <1>3, <2>2
<1>9. q \in Surjection(1 .. Cardinality(S), S)
  BY <1>2, <1>7, <1>8, FS_Injection
<1> QED BY <1>2, <1>3, <1>4, <1>5, <1>9 DEF Surjection

LEMMA StartsAre ==
    ASSUME Shape, NEW e \in Calls, NEW S, NEW run, StartsSteps(e, S, run)
    PROVE  \E n, m, at : Places(e, S, n, m, at)
<1>1. /\ file' = file /\ runs' = runs /\ runs \in Calls /\ copy[runs] \in Runs
      /\ S \subseteq DOMAIN copy[runs].step /\ copy' = [copy EXCEPT ![runs] = run]
      /\ run = Marked(copy[runs], S, "running")
      /\ ready' = ready \/ (ready = Loop(e) /\ ready' = None)
  BY DEF StartsSteps, LoopStarts, Loops, AtWork
<1>2. PICK q \in Orders(S) :
         writes' = writes \o Append(StartWrites(e, copy[runs], q), [run |-> run, by |-> Loop(e)])
  BY DEF StartsSteps
<1>3. PICK r \in Runs : r = copy[runs]
  BY <1>1
<1>4. run \in Runs /\ copy'[runs] = run /\ S \subseteq Steps
  BY <1>1, MarkedIs, RunForm DEF Varies, StepStates, Shape, TypeOK
<1> DEFINE new == writes \o Append(StartWrites(e, r, q), [run |-> run, by |-> Loop(e)])
<1>25. S \subseteq DOMAIN r.step /\ run \in Runs
  BY <1>1, <1>3, <1>4
<1>26. StartsAdded(e, r, S, q, run, new)
  BY <1>25, StartsQueue
<1>23. /\ Len(writes) \in Nat /\ Cardinality(S) \in Nat
       /\ Len(new) = Len(writes) + Cardinality(S) + 1
       /\ \A i \in 1 .. Len(writes) : new[i] = writes[i]
       /\ \A i \in 1 .. Cardinality(S) :
             new[Len(writes) + i] = [run |-> Marked(r, UpTo(q, i), "running"), by |-> Worker(e, q[i])]
       /\ new[Len(writes) + Cardinality(S) + 1] = [run |-> run, by |-> Loop(e)]
  BY <1>26 DEF StartsAdded
<1>24. writes' = new
  BY <1>2, <1>3
<1> HIDE DEF new
<1>5. PICK n, m : n = Len(writes) /\ m = Cardinality(S)
  OBVIOUS
<1>6. /\ n \in Nat /\ m \in Nat /\ Len(writes') = n + m + 1
      /\ \A i \in 1 .. n : writes'[i] = writes[i]
      /\ \A k \in 1 .. m : writes'[n + k] = [run |-> Marked(r, UpTo(q, k), "running"),
                                             by |-> Worker(e, q[k])]
      /\ writes'[n + m + 1] = [run |-> run, by |-> Loop(e)]
  BY <1>5, <1>23, <1>24
<1>7. /\ S \subseteq Nat /\ q \in [1 .. m -> S]
      /\ \A i, j \in 1 .. m : i < j <=> q[i] < q[j]
      /\ \A s \in S : \E k \in 1 .. m : q[k] = s
  BY <1>1, <1>3, <1>5, OrdersAreOnto
<1>8. Positions = 0 .. n /\ Positions' = 0 .. n + m + 1
  BY <1>5, <1>6 DEF Positions
<1>9. \A i \in 0 .. n : /\ Rec(i)' = Rec(i)
                        /\ By(i)' = IF i = 0 THEN ready' ELSE By(i)
                        /\ By(0) = ready
  BY <1>1, <1>6 DEF Rec, By
<1>10. /\ \A i \in 0 .. n : By(i)' \in {By(i), None}
       /\ \A i \in 0 .. n, d \in Calls, t \in Steps : By(i) = Worker(d, t) => By(i)' = Worker(d, t)
  BY <1>1, <1>9, WritersAre
<1> DEFINE at == [s \in S |-> n + CHOOSE k \in 1 .. m : q[k] = s]
<1>11. \A s \in S : \E k \in 1 .. m : q[k] = s /\ at[s] = n + k
  <2>1. ASSUME NEW s \in S
        PROVE  \E k \in 1 .. m : q[k] = s /\ at[s] = n + k
    <3>1. \E k \in 1 .. m : q[k] = s
      BY <1>7
    <3>2. PICK k : k = CHOOSE j \in 1 .. m : q[j] = s
      OBVIOUS
    <3>3. k \in 1 .. m /\ q[k] = s
      BY <3>1, <3>2
    <3> QED BY <3>2, <3>3
  <2> QED BY <2>1
<1>12. DOMAIN at = S /\ at = [s \in S |-> at[s]]
  OBVIOUS
<1> HIDE DEF at
<1>13. at \in [S -> n + 1 .. n + m]
  BY <1>6, <1>11, <1>12
<1>14. \A s, t \in S : at[s] < at[t] <=> s < t
  <2> SUFFICES ASSUME NEW s \in S, NEW t \in S PROVE at[s] < at[t] <=> s < t
    OBVIOUS
  <2>1. PICK i \in 1 .. m : q[i] = s /\ at[s] = n + i
    BY <1>11
  <2>2. PICK j \in 1 .. m : q[j] = t /\ at[t] = n + j
    BY <1>11
  <2>3. at[s] < at[t] <=> i < j
    BY <1>6, <2>1, <2>2
  <2> QED BY <1>7, <2>1, <2>2, <2>3
<1>15. ASSUME NEW k \in 1 .. m
       PROVE  /\ Rec(n + k)' = Marked(r, UpTo(q, k), "running") /\ By(n + k)' = Worker(e, q[k])
              /\ at[q[k]] = n + k
  <2>1. n + k # 0
    BY <1>6
  <2>2. writes'[n + k].run = Marked(r, UpTo(q, k), "running") /\ writes'[n + k].by = Worker(e, q[k])
    <3>1. writes'[n + k] = [run |-> Marked(r, UpTo(q, k), "running"), by |-> Worker(e, q[k])]
      BY <1>6
    <3> QED BY <3>1
  <2>3. q[k] \in S
    BY <1>7
  <2>4. PICK j \in 1 .. m : q[j] = q[k] /\ at[q[k]] = n + j
    BY <1>11, <2>3
  <2>5. q[j] \in Nat /\ q[k] \in Nat
    BY <1>7, <2>3
  <2>6. j = k
    BY <1>6, <1>7, <2>4, <2>5
  <2> QED BY <2>1, <2>2, <2>4, <2>6 DEF Rec, By
<1>16. Rec(n + m + 1)' = run /\ By(n + m + 1)' = Loop(e)
  <2>1. n + m + 1 # 0
    BY <1>6
  <2>2. writes'[n + m + 1].run = run /\ writes'[n + m + 1].by = Loop(e)
    BY <1>6
  <2> QED BY <2>1, <2>2 DEF Rec, By
<1>17. ASSUME NEW i \in n + 1 .. n + m + 1
       PROVE  i = n + m + 1 \/ \E k \in 1 .. m : i = n + k
  <2>1. i # n + m + 1 => i - n \in 1 .. m /\ i = n + (i - n)
    BY <1>6
  <2> QED BY <2>1
<1>18. \A s \in S : By(at[s])' = Worker(e, s)
  <2> SUFFICES ASSUME NEW s \in S PROVE By(at[s])' = Worker(e, s)
    OBVIOUS
  <2>1. PICK k \in 1 .. m : q[k] = s /\ at[s] = n + k
    BY <1>11
  <2>2. By(n + k)' = Worker(e, s)
    BY <1>15, <2>1
  <2> QED BY <2>1, <2>2 DEF By
<1>19. ASSUME NEW i \in n + 1 .. n + m + 1, NEW d \in Calls, NEW t \in Steps, By(i)' = Worker(d, t)
       PROVE  d = e /\ t \in S /\ i = at[t]
  <2>1. i # n + m + 1
    BY <1>16, <1>19, WritersAre
  <2>2. PICK k \in 1 .. m : i = n + k
    BY <1>17, <2>1
  <2>3. By(n + k)' = Worker(d, t) /\ q[k] \in S
    BY <1>7, <1>19, <2>2 DEF By
  <2> QED BY <1>4, <1>15, <2>2, <2>3, WritersAre
<1>20. ASSUME NEW i \in n + 1 .. n + m + 1
       PROVE  /\ Rec(i)' # None /\ DOMAIN Rec(i)'.step = DOMAIN r.step
              /\ Rec(i)'.state = r.state
              /\ \A t \in DOMAIN r.step : Rec(i)'.step[t] =
                    IF t \in S /\ at[t] <= i THEN "running" ELSE r.step[t]
  <2>1. CASE i = n + m + 1
    <3>1. Rec(i)' = Marked(r, S, "running")
      BY <1>1, <1>3, <1>16, <2>1
    <3>2. \A t \in S : at[t] <= i
      BY <1>6, <1>13, <2>1
    <3> QED BY <3>1, <3>2, MarkedIs, NoneIsNoCall DEF Varies, StepStates
  <2>2. CASE i # n + m + 1
    <3>1. PICK k \in 1 .. m : i = n + k
      BY <1>17, <2>2
    <3>2. Rec(i)' = Marked(r, UpTo(q, k), "running")
      BY <1>15, <3>1 DEF Rec
    <3>3. \A t : t \in UpTo(q, k) <=> t \in S /\ at[t] <= i
      <4>1. ASSUME NEW t \in UpTo(q, k)
            PROVE  t \in S /\ at[t] <= i
        <5>1. PICK j \in 1 .. k : t = q[j]
          BY DEF UpTo
        <5>2. j \in 1 .. m /\ j <= k
          BY <1>6, <5>1
        <5> QED BY <1>6, <1>7, <1>15, <3>1, <5>1, <5>2
      <4>2. ASSUME NEW t \in S, at[t] <= i
            PROVE  t \in UpTo(q, k)
        <5>1. PICK j \in 1 .. m : q[j] = t /\ at[t] = n + j
          BY <1>11
        <5>2. j \in 1 .. k
          BY <1>6, <3>1, <4>2, <5>1
        <5> QED BY <5>1, <5>2 DEF UpTo
      <4> QED BY <4>1, <4>2
    <3> QED BY <3>2, <3>3, MarkedIs, NoneIsNoCall DEF Varies, StepStates
  <2> QED BY <2>1, <2>2
<1>21. copy'[runs'] = Rec(n + m + 1)' /\ copy'[runs'].def = r.def
  BY <1>1, <1>3, <1>4, <1>16, MarkedIs DEF Varies, StepStates
<1>22. Places(e, S, n, m, at)
  BY <1>3, <1>6, <1>8, <1>9, <1>10, <1>13, <1>14, <1>18, <1>19, <1>20, <1>21 DEF Places
<1> QED BY <1>22

(* A graph that starts steps keeps what ties a step to WorkflowRun.        *)
LEMMA StartsPromise ==
    ASSUME Shape, Shape', CopyAgrees, CopyAgrees', WritersWait, RecordsFollow, QueuePromises,
           NEW e \in Calls, NEW S, NEW run, StartsSteps(e, S, run)
    PROVE  QueuePromises'
<1>1. PICK n, m, at : Places(e, S, n, m, at)
  BY StartsAre
<1>2. /\ AtWork(e) /\ runs' = runs /\ PhasesBut(e, S) /\ S \subseteq DOMAIN copy[runs].step
      /\ \A s \in S : executor'[e][s].phase = "marking" /\ copy[runs].step[s] = "pending"
      /\ Startable(copy[runs], Active(e), S) /\ ~Sequential(copy[runs])
      /\ execution = e /\ execution' = e /\ e # None
  BY NoneIsNoCall DEF StartsSteps, LoopStarts, Loops, AtWork
<1>3. /\ HoldsFor(e) /\ runs # None /\ copy[runs] \in Runs /\ copy[runs] # None
      /\ DOMAIN copy[runs].step \subseteq Steps /\ S \subseteq Steps /\ S \subseteq Nat
  <2>1. HoldsFor(e) /\ runs # None /\ copy[runs] \in Runs /\ DOMAIN copy[runs].step \subseteq Steps
    BY <1>2, HoldsNow
  <2> QED BY <1>2, <2>1, NoneIsNoCall, StepsAreNumbers
<1>4. \A s \in S : executor[e][s].phase = "idle"
  <2>1. ASSUME NEW s \in S
        PROVE  executor[e][s].phase = "idle"
    <3>1. executor[e][s].phase \notin Phase3 /\ executor[e][s].phase # "closing"
      BY <1>2, <1>3 DEF HoldsFor, TERMINAL_STEP_STATES
    <3>2. executor[e][s] \in ExecutorRecords
      BY <1>3 DEF Shape, TypeOK
    <3> QED BY <3>1, <3>2 DEF ExecutorRecords, Phase3
  <2> QED BY <2>1
<1>5. /\ n \in Nat /\ m \in Nat /\ Positions = 0 .. n
      /\ \A i \in Positions' : i \in Nat /\ (i \in Positions \/ (i \in n + 1 .. n + m + 1 /\ i > n))
      /\ \A i \in Positions : i \in Positions' /\ i <= n /\ i \in Nat
      /\ \A i \in n + 1 .. n + m + 1 : i \in Positions'
      /\ n + m + 1 \in n + 1 .. n + m + 1
  BY <1>1 DEF Places
<1>6. \A s \in S : at[s] \in Positions' /\ at[s] \in Nat /\ at[s] > n /\ By(at[s])' = Worker(e, s)
  <2>1. \A s \in S : at[s] \in n + 1 .. n + m
    BY <1>1 DEF Places
  <2> QED BY <1>1, <1>5, <2>1 DEF Places
<1>7. \A d \in Calls, t \in Steps : ~(d = e /\ t \in S) => executor'[d][t].phase = executor[d][t].phase
  BY <1>2 DEF PhasesBut, AtWork
<1>8. \A i \in Positions, d \in Calls, t \in Steps : By(i) = Worker(d, t) => By(i)' = Worker(d, t)
  BY <1>1, <1>5 DEF Places
<1>9. ASSUME NEW i \in Positions', NEW d \in Calls, NEW t \in Steps, By(i)' = Worker(d, t)
      PROVE  \/ i \in Positions /\ By(i) = Worker(d, t) /\ ~(d = e /\ t \in S)
             \/ d = e /\ t \in S /\ i = at[t]
  <2>1. CASE i \in Positions
    <3>1. By(i) = Worker(d, t) /\ By(i) # None
      <4>1. By(i)' \in {By(i), None}
        BY <1>1, <1>5, <2>1 DEF Places
      <4> QED BY <1>9, <4>1, WritersAre, NoneIsNoCall
    <3>2. executor[d][t].phase \in {"marking", "closing"}
      BY <2>1, <3>1, AwaitsIs DEF WritersWait
    <3> QED BY <1>4, <2>1, <3>1, <3>2
  <2>2. CASE i \in n + 1 .. n + m + 1
    BY <1>1, <1>9, <2>2 DEF Places
  <2> QED BY <1>5, <2>1, <2>2
<1>10. ASSUME NEW i \in Positions, NEW t
       PROVE  /\ RunsOn(Rec(i), t)' <=> RunsOn(Rec(i), t)
              /\ Succeeded(Rec(i), t)' <=> Succeeded(Rec(i), t)
              /\ OnRecord(Rec(i), t)' <=> OnRecord(Rec(i), t)
              /\ Rec(i)' = Rec(i)
  <2>1. Rec(i)' = Rec(i)
    BY <1>1, <1>5 DEF Places
  <2> QED BY <2>1 DEF RunsOn, Succeeded, OnRecord
<1>11. ASSUME NEW i \in n + 1 .. n + m + 1
       PROVE  /\ Rec(i)' # None /\ DOMAIN Rec(i)'.step = DOMAIN copy[runs].step
              /\ \A t \in S : /\ ~Succeeded(Rec(i), t)'
                              /\ RunsOn(Rec(i), t)' => at[t] <= i
              /\ \A t \in Steps : t \notin S =>
                    /\ RunsOn(Rec(i), t)' => RunsOn(copy[runs], t)
                    /\ Succeeded(Rec(i), t)' <=> Succeeded(copy[runs], t)
                    /\ t \in DOMAIN copy[runs].step => Rec(i)'.step[t] = copy[runs].step[t]
  <2>1. /\ Rec(i)' # None /\ DOMAIN Rec(i)'.step = DOMAIN copy[runs].step
        /\ \A t \in DOMAIN copy[runs].step : Rec(i)'.step[t] =
              IF t \in S /\ at[t] <= i THEN "running" ELSE copy[runs].step[t]
    BY <1>1 DEF Places
  <2> QED BY <1>2, <1>3, <2>1 DEF RunsOn, Succeeded
<1>12. /\ copy'[runs'] = Rec(n + m + 1)' /\ copy'[runs'].def = copy[runs].def /\ copy'[runs'] # None
       /\ \A t \in Steps : Succeeded(copy[runs], t)' <=> Succeeded(copy[runs], t)
       /\ \A t \in DOMAIN copy[runs].step : t \notin S => copy'[runs'].step[t] = copy[runs].step[t]
  <2>1. copy'[runs'] = Rec(n + m + 1)' /\ copy'[runs'].def = copy[runs].def
    BY <1>1 DEF Places
  <2>2. \A t : Succeeded(copy[runs], t)' <=> Succeeded(Rec(n + m + 1), t)'
    BY <2>1 DEF Succeeded
  <2>3. \A t \in S : ~Succeeded(copy[runs], t)
    BY <1>2 DEF Succeeded
  <2>4. \A t \in Steps : Succeeded(copy[runs], t)' <=> Succeeded(copy[runs], t)
    BY <1>5, <1>11, <2>2, <2>3
  <2> QED BY <1>3, <1>5, <1>11, <2>1, <2>4
<1>13. OwnWriteQueued'
  <2>1. ASSUME NEW d \in Calls, NEW t \in Steps, executor'[d][t].phase \in {"marking", "closing"}
        PROVE  \E i \in Positions' : By(i)' = Worker(d, t)
    <3>1. CASE d = e /\ t \in S
      BY <1>6, <3>1
    <3>2. CASE ~(d = e /\ t \in S)
      <4>1. PICK i \in Positions : By(i) = Worker(d, t)
        BY <1>7, <2>1, <3>2 DEF QueuePromises, OwnWriteQueued
      <4> QED BY <1>5, <1>8, <4>1
    <3> QED BY <3>1, <3>2
  <2> QED BY <2>1 DEF OwnWriteQueued
<1>14. MarkedByOwnWrite'
  <2>1. ASSUME NEW d \in Calls, NEW t \in Steps, executor'[d][t].phase = "marking",
               NEW i \in Positions', NEW j \in Positions', By(j)' = Worker(d, t), i < j
        PROVE  ~RunsOn(Rec(i), t)'
    <3>1. CASE d = e /\ t \in S /\ j = at[t]
      <4>1. CASE i \in Positions
        <5>1. ~RunsOn(Rec(i), t)
          BY <1>2, <1>3, <1>4, <3>1, <4>1 DEF QueuePromises, RecordsHeld
        <5> QED BY <1>10, <4>1, <5>1
      <4>2. CASE i \in n + 1 .. n + m + 1
        BY <1>5, <1>6, <1>11, <2>1, <3>1, <4>2
      <4> QED BY <1>5, <4>1, <4>2
    <3>2. CASE j \in Positions /\ By(j) = Worker(d, t) /\ ~(d = e /\ t \in S)
      <4>1. i \in Positions
        BY <1>5, <2>1, <3>2
      <4>2. ~RunsOn(Rec(i), t)
        BY <1>7, <2>1, <3>2, <4>1 DEF QueuePromises, MarkedByOwnWrite
      <4> QED BY <1>10, <4>1, <4>2
    <3> QED BY <1>9, <2>1, <3>1, <3>2
  <2> QED BY <2>1 DEF MarkedByOwnWrite
<1>15. ClosedByOwnWrite'
  <2>1. ASSUME NEW d \in Calls, NEW t \in Steps, executor'[d][t].phase = "closing",
               NEW i \in Positions', NEW j \in Positions', By(j)' = Worker(d, t)
        PROVE  IF i < j THEN OnRecord(Rec(i), t)' ELSE Rec(i)'.step[t] = copy'[runs'].step[t]
    <3>1. j \in Positions /\ By(j) = Worker(d, t) /\ ~(d = e /\ t \in S)
      BY <1>2, <1>9, <2>1
    <3>2. executor[d][t].phase = "closing" /\ d = e /\ t \in DOMAIN copy[runs].step
      BY <1>2, <1>7, <2>1, <3>1, BusyIs
    <3>3. copy'[runs'].step[t] = copy[runs].step[t]
      BY <1>12, <3>1, <3>2
    <3>4. CASE i \in Positions
      <4>1. IF i < j THEN OnRecord(Rec(i), t) ELSE Rec(i).step[t] = copy[runs].step[t]
        BY <3>1, <3>2, <3>4 DEF QueuePromises, ClosedByOwnWrite
      <4> QED BY <1>10, <3>3, <3>4, <4>1
    <3>5. CASE i \in n + 1 .. n + m + 1
      <4>1. ~(i < j)
        BY <1>5, <3>1, <3>5
      <4> QED BY <1>11, <3>1, <3>2, <3>3, <3>5, <4>1
    <3> QED BY <1>5, <3>4, <3>5
  <2> QED BY <2>1 DEF ClosedByOwnWrite
<1>16. RecordsHeld'
  <2>1. ASSUME NEW i \in Positions', NEW t \in Steps, RunsOn(Rec(i), t)'
        PROVE  executor'[e][t].phase # "idle"
    <3>1. CASE t \in S
      BY <1>2, <3>1
    <3>2. CASE t \notin S
      <4>1. executor[e][t].phase # "idle"
        <5>1. CASE i \in Positions
          BY <1>2, <1>3, <1>10, <2>1, <5>1 DEF QueuePromises, RecordsHeld
        <5>2. CASE i \in n + 1 .. n + m + 1
          <6>1. RunsOn(copy[runs], t)
            BY <1>11, <2>1, <3>2, <5>2
          <6> QED BY <1>3, <6>1 DEF RunsOn, HoldsFor, Phase3
        <5> QED BY <1>5, <5>1, <5>2
      <4> QED BY <1>7, <3>2, <4>1
    <3> QED BY <3>1, <3>2
  <2> QED BY <1>2, <2>1 DEF RecordsHeld
<1>17. SuccessKept'
  <2>1. ASSUME NEW i \in Positions', NEW t \in Steps, Succeeded(Rec(i), t)'
        PROVE  Succeeded(copy[runs], t)'
    <3>1. CASE i \in Positions
      BY <1>3, <1>10, <1>12, <2>1, <3>1 DEF QueuePromises, SuccessKept
    <3>2. CASE i \in n + 1 .. n + m + 1
      BY <1>11, <1>12, <2>1, <3>2
    <3> QED BY <1>5, <3>1, <3>2
  <2> QED BY <2>1 DEF SuccessKept
<1>18. SuccessRecorded'
  <2>1. ASSUME NEW t \in Steps, Succeeded(copy[runs], t)', ~\E d \in Calls : executor'[d][t].phase = "closing",
               NEW i \in Positions'
        PROVE  Succeeded(Rec(i), t)'
    <3>1. Succeeded(copy[runs], t) /\ t \notin S
      BY <1>2, <1>12, <2>1 DEF Succeeded
    <3>2. ~\E d \in Calls : executor[d][t].phase = "closing"
      BY <1>7, <2>1, <3>1
    <3>3. CASE i \in Positions
      BY <1>3, <1>10, <3>1, <3>2, <3>3 DEF QueuePromises, SuccessRecorded
    <3>4. CASE i \in n + 1 .. n + m + 1
      BY <1>11, <3>1, <3>4
    <3> QED BY <1>5, <3>3, <3>4
  <2> QED BY <2>1 DEF SuccessRecorded
<1>19. ASSUME NEW t \in Steps, NEW u \in Steps, Precedes(Worker(e, u), Worker(e, t))
       PROVE  Precedes(Worker(e, u), Worker(e, t))'
  <2>1. PICK i \in Positions, j \in Positions : By(i) = Worker(e, u) /\ By(j) = Worker(e, t) /\ i < j
    BY <1>19 DEF Precedes
  <2> QED BY <1>5, <1>8, <2>1 DEF Precedes
<1>20. ASSUME NEW t \in S, NEW u \in Steps, u \notin S, executor[e][u].phase \in {"marking", "closing"}
       PROVE  Precedes(Worker(e, u), Worker(e, t))'
  <2>1. PICK i \in Positions : By(i) = Worker(e, u)
    BY <1>20 DEF QueuePromises, OwnWriteQueued
  <2>2. /\ i \in Positions' /\ By(i)' = Worker(e, u)
        /\ at[t] \in Positions' /\ By(at[t])' = Worker(e, t) /\ i < at[t]
    BY <1>5, <1>6, <1>8, <1>20, <2>1
  <2> QED BY <2>2 DEF Precedes
<1>21. ASSUME NEW d \in Calls, NEW t \in Steps, executor'[d][t].phase = "marking"
       PROVE  d = e /\ (t \notin S => executor[e][t].phase = "marking")
  BY <1>2, <1>7, <1>21, BusyThen
<1>22. \A t \in S : \A u \in copy[runs].def.steps[t].deps : copy[runs].step[u] = "succeeded" /\ u \in Steps
                                                           /\ u \in DOMAIN copy[runs].step
  <2>1. ASSUME NEW t \in S, NEW u \in copy[runs].def.steps[t].deps
        PROVE  copy[runs].step[u] = "succeeded" /\ u \in Steps /\ u \in DOMAIN copy[runs].step
    <3>1. copy[runs].step[u] = "succeeded"
      BY <1>2, <2>1 DEF Startable
    <3>2. u \in DOMAIN copy[runs].step
      BY <1>2, <1>3, <2>1, RunForm, WorkflowAssumption
    <3> QED BY <1>3, <3>1, <3>2
  <2> QED BY <2>1
<1>23. NeedsPassed'
  <2>1. ASSUME NEW t \in Steps, executor'[e][t].phase = "marking", NEW u \in Needed(copy'[runs'], t)
        PROVE  /\ Succeeded(copy[runs], u)'
               /\ executor'[e][u].phase = "closing" => Precedes(Worker(e, u), Worker(e, t))'
    <3>1. u \in Needed(copy[runs], t) /\ Needed(copy[runs], t) = copy[runs].def.steps[t].deps
      BY <1>2, <1>12, <2>1 DEF Needed, Sequential
    <3>2. CASE t \in S
      <4>1. Succeeded(copy[runs], u) /\ u \in Steps
        BY <1>3, <1>22, <3>1, <3>2 DEF Succeeded
      <4>2. ASSUME executor'[e][u].phase = "closing"
            PROVE  Precedes(Worker(e, u), Worker(e, t))'
        BY <1>2, <1>7, <1>20, <3>2, <4>1, <4>2
      <4> QED BY <1>12, <4>1, <4>2
    <3>3. CASE t \notin S
      <4>1. executor[e][t].phase = "marking"
        BY <1>21, <2>1, <3>3
      <4>2. /\ Succeeded(copy[runs], u)
            /\ executor[e][u].phase = "closing" => Precedes(Worker(e, u), Worker(e, t))
        BY <3>1, <4>1 DEF QueuePromises, NeedsPassed
      <4>3. u \in Steps
        BY <1>3, <4>2 DEF Succeeded
      <4>4. ASSUME executor'[e][u].phase = "closing"
            PROVE  Precedes(Worker(e, u), Worker(e, t))'
        BY <1>2, <1>7, <1>19, <4>2, <4>3, <4>4
      <4> QED BY <1>12, <4>2, <4>3, <4>4
    <3> QED BY <3>2, <3>3
  <2> QED BY <1>21, <2>1 DEF NeedsPassed
<1>24. HasRoom'
  <2>1. ASSUME NEW t \in Steps, executor'[e][t].phase = "marking"
        PROVE  /\ Cardinality(Beside(e, t)') < copy[runs].def.maxConcurrency
               /\ \A u \in Beside(e, t)' :
                     copy[runs].def.steps[t].resources \intersect copy[runs].def.steps[u].resources = {}
    <3>1. copy[runs].def.maxConcurrency \in Nat
      BY <1>3, RunForm, WorkflowAssumption
    <3>2. CASE t \in S
      <4> DEFINE before == Active(e) \union {u \in S : u < t}
      <4>1. /\ Cardinality(before) < copy[runs].def.maxConcurrency
            /\ \A u \in before :
                  copy[runs].def.steps[t].resources \intersect copy[runs].def.steps[u].resources = {}
        BY <1>2, <3>2 DEF Startable
      <4>2. Beside(e, t)' \subseteq before
        <5>1. ASSUME NEW u \in Steps, u # t, executor'[e][u].phase # "idle",
                     executor'[e][u].phase = "marking" => ~Precedes(Worker(e, t), Worker(e, u))'
              PROVE  u \in before
          <6>1. CASE u \in S
            <7>1. ~Precedes(Worker(e, t), Worker(e, u))'
              BY <1>2, <5>1, <6>1
            <7>2. ~(at[t] < at[u])
              BY <1>6, <3>2, <6>1, <7>1 DEF Precedes
            <7>3. ~(t < u)
              BY <1>1, <3>2, <6>1, <7>2 DEF Places
            <7>4. t \in Nat /\ u \in Nat
              BY <1>3, <3>2, <6>1
            <7> QED BY <5>1, <6>1, <7>3, <7>4
          <6>2. CASE u \notin S
            BY <1>7, <5>1, <6>2 DEF Active
          <6> QED BY <6>1, <6>2
        <5> QED BY <5>1 DEF Beside
      <4>3. IsFiniteSet(before)
        <5>1. DOMAIN copy[runs].step = 1 .. Len(copy[runs].def.steps) /\ Len(copy[runs].def.steps) \in Nat
          BY <1>3, RunForm, WorkflowAssumption
        <5>2. IsFiniteSet(DOMAIN copy[runs].step)
          BY <5>1, IntervalIsFinite
        <5>3. before \subseteq DOMAIN copy[runs].step
          BY <1>2, BusyIs DEF Active
        <5> QED BY <5>2, <5>3, FS_Subset
      <4> HIDE DEF before
      <4>4. /\ Cardinality(Beside(e, t)') <= Cardinality(before)
            /\ Cardinality(before) \in Nat /\ Cardinality(Beside(e, t)') \in Nat
        <5>1. IsFiniteSet(Beside(e, t)') /\ Cardinality(Beside(e, t)') <= Cardinality(before)
          BY <4>2, <4>3, FS_Subset
        <5> QED BY <4>3, <5>1, FS_CardinalityType
      <4> QED BY <3>1, <4>1, <4>2, <4>4
    <3>3. CASE t \notin S
      <4>1. executor[e][t].phase = "marking"
        BY <1>21, <2>1, <3>3
      <4>2. Beside(e, t)' \subseteq Beside(e, t)
        <5>1. ASSUME NEW u \in Steps, u # t, executor'[e][u].phase # "idle",
                     executor'[e][u].phase = "marking" => ~Precedes(Worker(e, t), Worker(e, u))'
              PROVE  u \in Beside(e, t)
          <6>1. u \notin S
            BY <1>2, <1>20, <3>3, <4>1, <5>1
          <6>2. executor'[e][u].phase = executor[e][u].phase
            BY <1>7, <6>1
          <6> QED BY <1>19, <5>1, <6>2 DEF Beside
        <5> QED BY <5>1 DEF Beside
      <4>3. /\ Cardinality(Beside(e, t)') <= Cardinality(Beside(e, t))
            /\ Cardinality(Beside(e, t)') \in Nat /\ Cardinality(Beside(e, t)) \in Nat
        BY <4>2, BesideIsFinite
      <4>4. /\ Cardinality(Beside(e, t)) < copy[runs].def.maxConcurrency
            /\ \A u \in Beside(e, t) :
                 copy[runs].def.steps[t].resources \intersect copy[runs].def.steps[u].resources = {}
        BY <4>1 DEF QueuePromises, HasRoom
      <4> QED BY <3>1, <4>2, <4>3, <4>4
    <3> QED BY <3>2, <3>3
  <2> QED BY <1>12, <1>21, <2>1 DEF HasRoom
<1> QED BY <1>13, <1>14, <1>15, <1>16, <1>17, <1>18, <1>23, <1>24 DEF QueuePromises

(* Every effect keeps what ties a step to WorkflowRun.                     *)
LEMMA QueuePromisesStep ==
    ASSUME Shape, Shape', WorkflowInv, WorkflowInv', BehindIsPassed, QueuePromises, Effect
    PROVE  QueuePromises'
<1>1. /\ CopyAgrees /\ CopyAgrees' /\ WritersWait /\ WritersWait' /\ RecordsFollow /\ WorkRecorded
  BY DEF WorkflowInv
<1>2. ASSUME NEW run, NEW w, Writing(run, w)
      PROVE  QueuePromises'
  BY <1>1, <1>2, WritingPromises
<1>3. ASSUME NEW e \in Calls, NEW S, NEW run, StartsSteps(e, S, run)
      PROVE  QueuePromises'
  BY <1>1, <1>3, StartsPromise
<1>4. CASE Keeping
  BY <1>1, <1>4, KeepingPromises
<1>5. CASE WriteStep
  BY <1>5, WriteStepPromises
<1>6. CASE CrashStep
  BY <1>6, NobodyPromises DEF CrashStep
<1>7. ASSUME NEW c \in Calls, RewriteStep(c)
      PROVE  QueuePromises'
  <2>1. runs' = None /\ execution = None /\ executor' = executor
    BY <1>7 DEF RewriteStep, memory
  <2>2. \A e \in Calls, s \in Steps : executor'[e][s].phase = "idle"
    BY <2>1, BusyIs
  <2> QED BY <2>1, <2>2, NobodyPromises
<1> QED BY <1>2, <1>3, <1>4, <1>5, <1>6, <1>7, EffectIs

LEMMA InitPromise == Init => PromiseInv
<1> SUFFICES ASSUME Init PROVE PromiseInv
  OBVIOUS
<1>1. AbortsAreCancels /\ BehindIsPassed
  BY DEF Init, NewCall, NoExecution, Idle, AbortsAreCancels, BehindIsPassed, Live
<1>2. OwnWriteQueued /\ MarkedByOwnWrite /\ ClosedByOwnWrite /\ NeedsPassed /\ HasRoom
  BY DEF Init, Idle, OwnWriteQueued, MarkedByOwnWrite, ClosedByOwnWrite, NeedsPassed, HasRoom
<1>3. RecordsHeld /\ SuccessKept /\ SuccessRecorded
  BY DEF Init, RecordsHeld, SuccessKept, SuccessRecorded
<1> QED BY <1>1, <1>2, <1>3 DEF PromiseInv

(* The third part of the invariant is inductive, given the first.          *)
LEMMA PromiseStep ==
    ASSUME ~CallsOverlap, TypeOK, WorkflowInv, PromiseInv, [Next]_vars
    PROVE  PromiseInv'
<1>1. Shape /\ Shape' /\ Effect /\ WorkflowInv'
  BY NextIs, InvStep DEF Shape, WorkflowInv
<1>2. AbortsAreCancels /\ BehindIsPassed /\ QueuePromises
  BY DEF PromiseInv, QueuePromises
<1>3. AbortsAreCancels'
  BY <1>1, <1>2, AbortsAreCancelsStep
<1>4. BehindIsPassed'
  BY <1>1, <1>2, BehindIsPassedStep DEF WorkflowInv
<1>5. QueuePromises'
  BY <1>1, <1>2, QueuePromisesStep
<1> QED BY <1>3, <1>4, <1>5 DEF PromiseInv, QueuePromises

(* When a step is marked running on record, what it needs has succeeded on *)
(* record and there is room for it; no record takes a success back before  *)
(* its time or invents one: the third part of the invariant (executeOne,   *)
(* persistRun and both schedulers).                                        *)
THEOREM PromiseInvariance ==
    ASSUME ~CallsOverlap
    PROVE  Spec => []PromiseInv
<1>1. TypeOK /\ WorkflowInv /\ PromiseInv /\ [Next]_vars => PromiseInv'
  BY PromiseStep
<1> QED BY <1>1, InitPromise, Typing, Invariance, PTL DEF Spec

-----------------------------------------------------------------------------
(* Nobody waits for what does not come.  Who comes to wait for a write has *)
(* asked for it: a step asks for the writes of W, and leaves the others    *)
(* that are waited for in the queue.                                       *)
Asks(W) ==
    \A v \in Writers \ W : Awaits(v)' => Awaits(v) /\ (ready = v => ready' = v)

LEMMA QueueKeeps ==
    ASSUME WritersQueued, NEW W, Asks(W), 0 \in Positions',
           \A i \in Positions : i # 0 => i \in Positions' /\ By(i)' = By(i),
           \A v \in W : Awaits(v)' => \E i \in Positions' : By(i)' = v
    PROVE  WritersQueued'
<1>1. ASSUME NEW v \in Writers, Awaits(v)'
      PROVE  \E i \in Positions' : By(i)' = v
  <2>1. CASE v \notin W
    <3>1. Awaits(v) /\ (ready = v => ready' = v)
      BY <1>1, <2>1 DEF Asks
    <3>2. PICK i \in Positions : By(i) = v
      BY <3>1 DEF WritersQueued, Queued
    <3>3. CASE i = 0
      BY <3>1, <3>2, <3>3 DEF By
    <3>4. CASE i # 0
      BY <3>2, <3>4
    <3> QED BY <3>3, <3>4
  <2> QED BY <1>1, <2>1
<1>2. ASSUME NEW v \in Writers, Awaits(v)'
      PROVE  Queued(v)'
  <2>1. PICK i \in Positions' : By(i)' = v
    BY <1>1, <1>2
  <2> QED BY <2>1 DEF Queued
<1> QED BY <1>2 DEF WritersQueued

LEMMA NoWriteQueued ==
    ASSUME Shape, WritersQueued, NEW W, Asks(W), writes' = writes, \A v \in W : ~Awaits(v)'
    PROVE  WritersQueued'
<1>1. Positions' = Positions /\ 0 \in Positions /\ \A i \in Positions : i # 0 => By(i)' = By(i)
  BY DEF Positions, By, Shape, TypeOK
<1> QED BY <1>1, QueueKeeps

LEMMA OneWriteQueued ==
    ASSUME Shape, WritersQueued, NEW W, Asks(W), NEW run, NEW u,
           \A v \in W : Awaits(v)' => v = u,
           file' = file, writes' = Append(writes, [run |-> run, by |-> u])
    PROVE  WritersQueued'
<1>1. PICK n : n = Len(writes) + 1
  OBVIOUS
<1>2. /\ Positions' = Positions \union {n} /\ 0 \in Positions /\ By(n)' = u
      /\ \A i \in Positions : i # 0 => By(i)' = By(i)
  BY <1>1, OneWriteIs DEF Positions
<1> QED BY <1>2, QueueKeeps

(* Which writes a step asks for.                                           *)
LEMMA CallAsks ==
    ASSUME NEW c \in Calls, OneCall(c), SamePhases, exec' = exec,
           IF call[c].pc \in {"persisting", "finalizing"}
           THEN ready = Caller(c) /\ ready' = None ELSE ready' = ready
    PROVE  Asks({Caller(c)})
<1>1. ASSUME NEW v, v # Caller(c), Awaits(v)'
      PROVE  Awaits(v)
  BY <1>1 DEF OneCall, SamePhases, Awaits
<1> QED BY <1>1 DEF Asks

LEMMA LoopAsks ==
    ASSUME NEW e \in Calls, Loops(e), NEW S, PhasesBut(e, S), S \subseteq Steps
    PROVE  Asks({Loop(e)} \union {Worker(e, s) : s \in S})
<1>1. ASSUME NEW v, v # Loop(e), v \notin {Worker(e, s) : s \in S}, Awaits(v)'
      PROVE  Awaits(v)
  <2>1. /\ call' = call /\ \A d \in Calls \ {e} : exec'[d] = exec[d]
        /\ \A d \in Calls, s \in Steps : d # e \/ s \notin S => executor'[d][s].phase = executor[d][s].phase
    BY DEF Loops, AtWork, OneExecution, PhasesBut
  <2> QED BY <1>1, <2>1 DEF Awaits
<1>2. ready' = ready \/ ready = Loop(e)
  BY DEF Loops
<1> QED BY <1>1, <1>2 DEF Asks

LEMMA ExecutorAsks ==
    ASSUME NEW e \in Calls, NEW s \in Steps, AtWork(e), PhasesBut(e, {s}),
           exec'[e].pc = exec[e].pc \/ exec'[e].pc \in {"turn", "stepped"},
           ready = Worker(e, s) \/ ready' = ready
    PROVE  Asks({Worker(e, s)})
<1>1. ASSUME NEW v, v # Worker(e, s), Awaits(v)'
      PROVE  Awaits(v)
  BY <1>1 DEF AtWork, OneExecution, PhasesBut, Awaits
<1> QED BY <1>1 DEF Asks

LEMMA ManyWritesQueued ==
    ASSUME Shape, CopyAgrees, WritersQueued, NEW e \in Calls, NEW S, NEW run, StartsSteps(e, S, run)
    PROVE  WritersQueued'
<1> DEFINE W == {Loop(e)} \union {Worker(e, s) : s \in S}
<1>1. /\ 0 \in Positions' /\ \A i \in Positions : i # 0 => i \in Positions' /\ By(i)' = By(i)
      /\ \E i \in Positions' : By(i)' = Loop(e)
  <2>1. PICK n, m : ManyWrites(e, S, n, m)
    BY ManyWritesIs
  <2>2. /\ n \in Nat /\ m \in Nat /\ Positions = 0 .. n /\ Positions' = 0 .. n + m + 1
        /\ \A i \in 1 .. n : By(i)' = By(i)
        /\ By(n + m + 1)' = Loop(e)
    BY <2>1 DEF ManyWrites, Positions, By
  <2> QED BY <2>2
<1>2. ASSUME NEW s \in S
      PROVE  \E i \in Positions' : By(i)' = Worker(e, s)
  <2>1. PICK n, m, at : Places(e, S, n, m, at)
    BY StartsAre
  <2>2. /\ n \in Nat /\ m \in Nat /\ Positions' = 0 .. n + m + 1
        /\ at[s] \in n + 1 .. n + m /\ By(at[s])' = Worker(e, s)
    BY <1>2, <2>1 DEF Places
  <2> QED BY <2>2
<1>3. Asks(W)
  <2>1. Loops(e) /\ PhasesBut(e, S) /\ S \subseteq Steps
    BY HoldsNow DEF StartsSteps, LoopStarts, Loops
  <2> QED BY <2>1, LoopAsks
<1> QED BY <1>1, <1>2, <1>3, QueueKeeps

LEMMA WriteStepQueued ==
    ASSUME Shape, WritersQueued, WriteStep
    PROVE  WritersQueued'
<1>1. /\ Positions' = 0 .. Len(writes) - 1 /\ Positions = 0 .. Len(writes) /\ Len(writes) \in Nat \ {0}
      /\ \A i \in 0 .. Len(writes) - 1 : By(i)' = By(i + 1)
      /\ By(0) = None /\ UNCHANGED <<call, exec, executor>>
  BY DEF WriteStep, Positions, By
<1>2. ASSUME NEW v \in Writers, Awaits(v)'
      PROVE  Queued(v)'
  <2>1. Awaits(v)
    BY <1>1, <1>2 DEF Awaits
  <2>2. PICK i \in Positions : By(i) = v
    BY <2>1 DEF WritersQueued, Queued
  <2>3. i # 0
    BY <1>1, <2>2, WorkflowAssumption
  <2>4. i - 1 \in Positions' /\ By(i - 1)' = v
    <3>1. i - 1 \in 0 .. Len(writes) - 1 /\ (i - 1) + 1 = i
      BY <1>1, <2>3
    <3>2. By(i - 1)' = By((i - 1) + 1)
      BY <1>1, <3>1
    <3> QED BY <1>1, <2>2, <3>1, <3>2
  <2> QED BY <2>4 DEF Queued
<1> QED BY <1>2 DEF WritersQueued

(* Every effect keeps what is waited for in the queue.                     *)
LEMMA WritersQueuedStep ==
    ASSUME Shape, CopyAgrees, WritersQueued, Effect
    PROVE  WritersQueued'
<1>1. ASSUME NEW c \in Calls, CallTurn(c)
      PROVE  WritersQueued'
  <2>1. CASE CallStep(c)
    <3>1. ~Awaits(Caller(c))' /\ writes' = writes
      BY <2>1, AwaitsThen DEF CallStep
    <3>2. Asks({Caller(c)})
      BY <2>1, CallAsks DEF CallStep
    <3> QED BY <3>1, <3>2, NoWriteQueued
  <2>2. ASSUME NEW run, CallWrites(c, run)
        PROVE  WritersQueued'
    <3>1. call[c].pc # "finalizing"
      BY <2>2 DEF CallWrites
    <3>2. Asks({Caller(c)})
      BY <2>2, <3>1, CallAsks DEF CallWrites
    <3> QED BY <2>2, <3>2, OneWriteQueued DEF CallWrites
  <2>3. CASE LaunchStep(c)
    <3>1. ASSUME NEW v, v # Caller(c), v # Loop(c), Awaits(v)'
          PROVE  Awaits(v)
      BY <2>3, <3>1 DEF LaunchStep, OneCall, OneExecution, SamePhases, Awaits
    <3>2. Asks({Caller(c), Loop(c)})
      BY <2>3, <3>1 DEF Asks, LaunchStep
    <3>3. ~Awaits(Caller(c))'
      BY <2>3, AwaitsThen DEF LaunchStep
    <3>4. PICK run : writes' = Append(writes, [run |-> run, by |-> Loop(c)]) /\ file' = file
      BY <2>3 DEF LaunchStep
    <3> QED BY <3>2, <3>3, <3>4, OneWriteQueued
  <2>4. CASE ReadStep(c) \/ BeginStep(c) \/ RewriteStep(c)
    <3>1. /\ UNCHANGED <<exec, executor, writes, ready>> /\ OneCall(c)
          /\ call[c].pc \in {"reading", "idle", "rewriting"}
          /\ call'[c].pc \in {"rewriting", "loaded", "begun"}
      BY <2>4 DEF ReadStep, BeginStep, RewriteStep, memory, executions
    <3>2. SamePhases
      BY <3>1 DEF Shape, TypeOK, SamePhases
    <3>3. Asks({Caller(c)})
      BY <3>1, <3>2, CallAsks
    <3>4. ~Awaits(Caller(c))'
      BY <3>1, AwaitsThen
    <3> QED BY <3>1, <3>3, <3>4, NoWriteQueued
  <2> QED BY <1>1, <2>1, <2>2, <2>3, <2>4 DEF CallTurn
<1>2. ASSUME NEW e \in Calls, LoopTurn(e)
      PROVE  WritersQueued'
  <2>1. ASSUME Loops(e), SamePhases
        PROVE  Asks({Loop(e)})
    <3>1. PhasesBut(e, {})
      BY <2>1 DEF SamePhases, PhasesBut
    <3>2. Asks({Loop(e)} \union {Worker(e, s) : s \in {}})
      BY <2>1, <3>1, LoopAsks
    <3>3. {Loop(e)} \union {Worker(e, s) : s \in {}} = {Loop(e)}
      OBVIOUS
    <3> QED BY <3>2, <3>3
  <2>2. CASE LoopGoes(e)
    <3>1. Loops(e) /\ SamePhases /\ writes' = writes /\ exec'[e].pc \in {"turn", "drain", "racing"}
      BY <2>2 DEF LoopGoes
    <3>2. ~Awaits(Loop(e))'
      BY <3>1, AwaitsThen
    <3> QED BY <2>1, <3>1, <3>2, NoWriteQueued
  <2>3. ASSUME NEW run, Becomes(run, Loop(e)), Loops(e), SamePhases
        PROVE  WritersQueued'
    <3>1. file' = file /\ writes' = Append(writes, [run |-> run, by |-> Loop(e)])
      BY <2>3 DEF Becomes, Loops, AtWork
    <3> QED BY <2>1, <2>3, <3>1, OneWriteQueued
  <2>4. ASSUME NEW s \in Steps, NEW run, StartsStep(e, s, run)
        PROVE  WritersQueued'
    <3>1. /\ Loops(e) /\ PhasesBut(e, {s}) /\ exec'[e].pc = "stepping"
          /\ file' = file /\ writes' = Append(writes, [run |-> run, by |-> Worker(e, s)])
      BY <2>4 DEF StartsStep, LoopStarts, Loops, AtWork, Becomes
    <3>2. Asks({Loop(e)} \union {Worker(e, t) : t \in {s}})
      BY <3>1, LoopAsks
    <3>3. ~Awaits(Loop(e))'
      BY <3>1, AwaitsThen
    <3>4. \A v \in {Loop(e)} \union {Worker(e, t) : t \in {s}} : Awaits(v)' => v = Worker(e, s)
      BY <3>3
    <3> QED BY <3>1, <3>2, <3>4, OneWriteQueued
  <2>5. CASE CloseStep(e)
    <3>1. ASSUME NEW v, v # Loop(e), Awaits(v)'
          PROVE  Awaits(v)
      BY <2>5, <3>1 DEF CloseStep, OneExecution, SamePhases, Awaits
    <3>2. Asks({Loop(e)}) /\ writes' = writes
      BY <2>5, <3>1 DEF Asks, CloseStep
    <3>3. ~Awaits(Loop(e))'
      BY <2>5, AwaitsThen DEF CloseStep
    <3> QED BY <3>2, <3>3, NoWriteQueued
  <2> QED BY <1>2, <2>2, <2>3, <2>4, <2>5, ManyWritesQueued DEF LoopTurn, LoopEnds, LoopSkips
<1>3. ASSUME NEW e \in Calls, NEW s \in Steps, ExecutorStep(e, s)
      PROVE  WritersQueued'
  <2>1. ASSUME ExecutorGoes(e, s) \/ ExecutorReturns(e, s)
        PROVE  WritersQueued'
    <3>1. /\ AtWork(e) /\ PhasesBut(e, {s}) /\ writes' = writes
          /\ exec'[e].pc = exec[e].pc \/ exec'[e].pc \in {"turn", "stepped"}
          /\ ready = Worker(e, s) \/ ready' = ready
          /\ executor'[e][s].phase \in {"waiting", "executing", "idle"}
      BY <2>1 DEF ExecutorGoes, ExecutorReturns
    <3>2. Asks({Worker(e, s)})
      BY <3>1, ExecutorAsks
    <3>3. ~Awaits(Worker(e, s))'
      BY <3>1, AwaitsThen
    <3> QED BY <3>1, <3>2, <3>3, NoWriteQueued
  <2>2. ASSUME NEW outcome, NEW run, ExecutorSettles(e, s, outcome, run)
        PROVE  WritersQueued'
    <3>1. Asks({Worker(e, s)})
      BY <2>2, ExecutorAsks DEF ExecutorSettles
    <3>2. file' = file /\ writes' = Append(writes, [run |-> run, by |-> Worker(e, s)])
      BY <2>2 DEF ExecutorSettles, AtWork, Becomes
    <3> QED BY <3>1, <3>2, OneWriteQueued
  <2> QED BY <1>3, <2>1, <2>2 DEF ExecutorStep
<1>4. CASE CrashStep
  <2>1. \A v \in Writers : ~Awaits(v)'
    BY <1>4 DEF CrashStep, Awaits
  <2> QED BY <2>1 DEF WritersQueued
<1>5. CASE AcceptStep
  BY <1>5 DEF AcceptStep, WritersQueued, Queued, Positions, By, Awaits
<1> QED BY <1>1, <1>2, <1>3, <1>4, <1>5, WriteStepQueued DEF Effect

(* A loop that waits for an executor has one at work.                      *)
LEMMA LoopsBusyStep ==
    ASSUME Shape, LoopsBusy, Effect
    PROVE  LoopsBusy'
<1>1. ASSUME exec' = exec, \A e \in Calls, s \in Steps : executor'[e][s].phase = executor[e][s].phase
      PROVE  LoopsBusy'
  BY <1>1 DEF LoopsBusy, Quiet
<1>2. ASSUME NEW e \in Calls, OneExecution(e), exec'[e].pc \notin {"racing", "stepping"} \/ ~Quiet(e)',
             \A d \in Calls \ {e}, s \in Steps : executor'[d][s].phase = executor[d][s].phase
      PROVE  LoopsBusy'
  BY <1>2 DEF OneExecution, LoopsBusy, Quiet
<1>3. ASSUME NEW c \in Calls, CallTurn(c)
      PROVE  LoopsBusy'
  <2>1. CASE LaunchStep(c)
    BY <1>2, <2>1 DEF LaunchStep, SamePhases
  <2>2. CASE ~LaunchStep(c)
    BY <1>1, <1>3, <2>2 DEF CallTurn, CallStep, CallWrites, ReadStep, RewriteStep, BeginStep, SamePhases, memory, executions
  <2> QED BY <2>1, <2>2
<1>4. ASSUME NEW e \in Calls, LoopTurn(e)
      PROVE  LoopsBusy'
  <2>1. CASE LoopGoes(e)
    BY <1>2, <2>1 DEF LoopGoes, Loops, AtWork, SamePhases, Quiet
  <2>2. CASE CloseStep(e)
    BY <1>2, <2>2 DEF CloseStep, SamePhases
  <2>3. ASSUME NEW run, LoopEnds(e, run) \/ (\E B : LoopSkips(e, B, run)) \/ \E S : StartsSteps(e, S, run)
        PROVE  LoopsBusy'
    BY <1>2, <2>3 DEF LoopEnds, LoopSkips, StartsSteps, LoopStarts, Loops, AtWork
  <2>4. ASSUME NEW s \in Steps, NEW run, StartsStep(e, s, run)
        PROVE  LoopsBusy'
    BY <1>2, <2>4 DEF StartsStep, LoopStarts, Loops, AtWork, Quiet
  <2> QED BY <1>4, <2>1, <2>2, <2>3, <2>4 DEF LoopTurn
<1>5. ASSUME NEW e \in Calls, NEW s \in Steps, ExecutorStep(e, s)
      PROVE  LoopsBusy'
  <2>1. CASE ExecutorReturns(e, s)
    BY <1>2, <2>1 DEF ExecutorReturns, AtWork
  <2>2. CASE executor'[e][s].phase \in {"waiting", "executing", "closing"} /\ AtWork(e)
    BY <1>2, <2>2 DEF AtWork, Quiet
  <2> QED BY <1>5, <2>1, <2>2 DEF ExecutorStep, ExecutorGoes, ExecutorSettles
<1>6. CASE WriteStep
  BY <1>1, <1>6 DEF WriteStep
<1>7. CASE CrashStep
  BY <1>7 DEF CrashStep, LoopsBusy
<1>8. CASE AcceptStep
  BY <1>1, <1>8 DEF AcceptStep
<1> QED BY <1>3, <1>4, <1>5, <1>6, <1>7, <1>8 DEF Effect

(* An execution that has begun has begun for good, while the runtime lives.*)
LEMMA ExecutionsStay ==
    ASSUME Shape, Effect, ~CrashStep
    PROVE  \A e \in Calls : exec[e].pc # "none" => exec'[e].pc # "none"
<1>1. ASSUME NEW c \in Calls, OneExecution(c), exec'[c].pc # "none"
      PROVE  \A e \in Calls : exec[e].pc # "none" => exec'[e].pc # "none"
  BY <1>1 DEF OneExecution
<1>2. ASSUME NEW c \in Calls, CallTurn(c)
      PROVE  exec' = exec \/ (OneExecution(c) /\ exec'[c].pc # "none")
  BY <1>2 DEF CallTurn, CallStep, LaunchStep, ReadStep, RewriteStep, BeginStep, CallWrites, memory, executions
<1>3. ASSUME NEW c \in Calls, LoopTurn(c)
      PROVE  OneExecution(c) /\ exec'[c].pc # "none"
  BY <1>3 DEF LoopTurn, LoopGoes, LoopEnds, LoopSkips, StartsStep, StartsSteps, LoopStarts, Loops, AtWork, CloseStep
<1>4. ASSUME NEW c \in Calls, NEW s \in Steps, ExecutorStep(c, s)
      PROVE  OneExecution(c) /\ exec'[c].pc # "none"
  <2>1. AtWork(c) /\ exec[c].pc # "none"
    BY <1>4 DEF ExecutorStep, ExecutorGoes, ExecutorSettles, ExecutorReturns, AtWork, Shape, ExecutionShape,
                ExecShape, Live
  <2>2. exec'[c].pc # "none"
    BY <1>4, <2>1 DEF ExecutorStep, ExecutorGoes, ExecutorSettles, ExecutorReturns
  <2> QED BY <2>1, <2>2 DEF AtWork
<1>5. CASE WriteStep \/ AcceptStep
  BY <1>5 DEF WriteStep, AcceptStep
<1> QED BY <1>1, <1>2, <1>3, <1>4, <1>5 DEF Effect

(* What a step of a call says of who waits for it, and for whom it waits:  *)
(* it returns, goes on with what it does, joins a start, awaits the        *)
(* execution.                                                              *)
CallGoes(c) ==
    /\ call[c].pc # "done" /\ \A d \in Calls \ {c} : call'[d] = call[d]
    /\ \/ /\ call'[c].pc = "done" /\ startLock' \in {startLock, None} /\ startLock' # c
       \/ /\ call'[c].pc \notin {"done", "joined", "awaiting"} /\ startLock' \in {startLock, c}
          /\ UnderStart(c) \/ startLock' = c => UnderStart(c)'
       \/ /\ ~UnderStart(c) /\ startLock' = startLock
          /\ call'[c].pc = "joined" /\ call'[c].op = "start" /\ call'[c].target = startLock
          /\ startLock \in Calls
       \/ /\ ~UnderStart(c) /\ startLock' = startLock
          /\ call'[c].pc = "awaiting" /\ call'[c].target = execution
          /\ execution = None => call'[c].op = "shutdown"

LEMMA CallGoesWaits ==
    ASSUME Shape, Shape', LockHeld, CallsWait, NEW c \in Calls, CallGoes(c)
    PROVE  /\ LockHeld'
           /\ (\A e \in Calls : exec[e].pc # "none" => exec'[e].pc # "none") => CallsWait'
<1>1. ASSUME NEW d \in Calls, d # c, UnderStart(d)
      PROVE  UnderStart(d)'
  BY <1>1 DEF CallGoes, UnderStart
<1>2. UnderStart(c) => UnderStart(c)' \/ call'[c].pc = "done"
  BY DEF CallGoes, UnderStart
<1>3. startLock' \in Calls => UnderStart(startLock)'
  <2>1. startLock \in Calls => UnderStart(startLock)
    BY NoneIsNoCall DEF LockHeld
  <2>2. CASE startLock' = c
    BY <2>1, <2>2, NoneIsNoCall DEF CallGoes
  <2>3. CASE startLock' # c /\ startLock' \in Calls
    <3>1. startLock' = startLock
      BY <2>3, NoneIsNoCall DEF CallGoes
    <3>2. UnderStart(startLock')
      BY <2>1, <2>3, <3>1
    <3> QED BY <1>1, <2>3, <3>2 DEF UnderStart
  <2> QED BY <2>2, <2>3
<1>4. LockHeld'
  BY <1>3 DEF LockHeld, Shape, TypeOK
<1>5. ASSUME \A e \in Calls : exec[e].pc # "none" => exec'[e].pc # "none", NEW d \in Calls
      PROVE  CallWaits(d)'
  <2>1. \A t \in Calls : UnderStart(t) \/ call[t].pc = "done" => UnderStart(t)' \/ call'[t].pc = "done"
    BY <1>1, <1>2 DEF CallGoes
  <2>2. CASE d # c
    <3>1. call'[d] = call[d] /\ CallWaits(d) /\ call[d].target \in Calls \union {None}
      BY <2>2 DEF CallGoes, CallsWait, Shape, TypeOK, CallRecords
    <3> QED BY <1>5, <2>1, <3>1 DEF CallWaits, UnderStart
  <2>3. CASE d = c /\ call'[c].pc = "joined"
    <3>1. PICK t \in Calls : t = startLock
      BY <2>3 DEF CallGoes
    <3>2. call'[c].op = "start" /\ call'[c].target = t /\ UnderStart(t)
      BY <2>3, <3>1, NoneIsNoCall DEF CallGoes, LockHeld
    <3>3. UnderStart(t)' \/ call'[t].pc = "done"
      BY <2>1, <3>2
    <3> QED BY <2>3, <3>1, <3>2, <3>3, NoneIsNoCall DEF CallWaits, UnderStart
  <2>4. CASE d = c /\ call'[c].pc = "awaiting"
    <3>1. /\ call'[c].target = execution /\ (execution = None => call'[c].op = "shutdown")
      BY <2>4 DEF CallGoes
    <3>2. execution # None => execution \in Calls /\ exec[execution].pc # "none"
      BY DEF Shape, TypeOK, ExecutionShape, ExecShape, Live
    <3> QED BY <1>5, <2>4, <3>1, <3>2 DEF CallWaits
  <2>5. CASE d = c /\ call'[c].pc \notin {"joined", "awaiting"}
    BY <2>5 DEF CallWaits
  <2> QED BY <2>2, <2>3, <2>4, <2>5
<1> QED BY <1>4, <1>5 DEF CallsWait

(* Which way each action of a call goes.                                   *)
LEMMA ReturnMoves ==
    ASSUME TypeOK, LockHeld, NEW c \in Calls, Return(c), call[c].pc # "done",
           Unlocked(c) \/ (startLock' = startLock /\ ~UnderStart(c))
    PROVE  CallGoes(c)
<1>1. startLock' \in {startLock, None} /\ startLock' # c
  BY NoneIsNoCall DEF Unlocked, LockHeld
<1> QED BY <1>1, ReturnIs DEF CallGoes, OneCall, TypeOK

LEMMA GoMoves ==
    ASSUME TypeOK, LockHeld, NEW c \in Calls, call[c].pc # "done", startLock' = startLock,
           \A d \in Calls \ {c} : call'[d] = call[d], call'[c].op = call[c].op \/ call[c].pc = "idle",
           call'[c].pc \notin {"done", "joined", "awaiting"},
           UnderStart(c) => call'[c].pc \in {"reading", "rewriting", "loaded", "persisting"}
    PROVE  CallGoes(c)
<1>1. UnderStart(c) \/ startLock' = c => UnderStart(c)'
  BY NoneIsNoCall DEF UnderStart, LockHeld
<1> QED BY <1>1 DEF CallGoes

LEMMA AwaitMoves ==
    ASSUME TypeOK, NEW c \in Calls, call[c].pc # "done", startLock' = startLock, ~UnderStart(c),
           call' = [call EXCEPT ![c].pc = "awaiting", ![c].target = execution],
           execution # None \/ call[c].op = "shutdown"
    PROVE  CallGoes(c)
<1>1. /\ call'[c].pc = "awaiting" /\ call'[c].target = execution /\ call'[c].op = call[c].op
      /\ \A d \in Calls \ {c} : call'[d] = call[d]
  BY DEF TypeOK, CallRecords
<1> QED BY <1>1 DEF CallGoes

LEMMA WriteMoves ==
    ASSUME TypeOK, LockHeld, NEW c \in Calls, NEW obj, call[c].pc # "done", startLock' = startLock,
           call' = [call EXCEPT ![c].pc = "persisting", ![c].obj = obj]
    PROVE  CallGoes(c)
<1>1. /\ call'[c].pc = "persisting" /\ call'[c].op = call[c].op
      /\ \A d \in Calls \ {c} : call'[d] = call[d]
  BY DEF TypeOK, CallRecords
<1> QED BY <1>1, GoMoves DEF UnderStart

LEMMA FirstTurnMoves ==
    ASSUME TypeOK, LockHeld, NEW c \in Calls, call[c].pc = "begun", FirstTurn(c)
    PROVE  CallGoes(c)
<1>1. ~UnderStart(c)
  BY DEF UnderStart
<1>2. CASE NotLoaded(c)
  BY <1>1, <1>2, AtIs, GoMoves DEF NotLoaded, StartReading, OneCall, TypeOK
<1>3. CASE StartJoins(c)
  <2>1. /\ call'[c].pc = "joined" /\ call'[c].op = "start" /\ call'[c].target = startLock
        /\ startLock \in Calls /\ startLock' = startLock
        /\ \A d \in Calls \ {c} : call'[d] = call[d]
    BY <1>3 DEF StartJoins, TypeOK, CallRecords, memory
  <2> QED BY <1>1, <2>1 DEF CallGoes
<1>4. CASE StartReads(c)
  <2>1. startLock' = c /\ call' = At(c, "reading") /\ call[c].op = "start"
    BY <1>4 DEF StartReads, StartReading
  <2>2. call'[c].pc = "reading" /\ call'[c].op = "start" /\ \A d \in Calls \ {c} : call'[d] = call[d]
    BY <2>1, AtIs DEF OneCall, TypeOK
  <2> QED BY <2>1, <2>2 DEF CallGoes, UnderStart
<1>5. CASE Shutdown(c)
  <2>1. startLock' = startLock /\ call[c].op = "shutdown"
    BY <1>5 DEF Shutdown
  <2>2. CASE call' = At(c, "persisting")
    BY <1>1, <2>1, <2>2, AtIs, GoMoves DEF OneCall, TypeOK
  <2>3. CASE call' = [call EXCEPT ![c].pc = "awaiting", ![c].target = execution]
    BY <1>1, <2>1, <2>3, AwaitMoves
  <2> QED BY <1>5, <2>2, <2>3 DEF Shutdown
<1>6. ASSUME NEW obj \in Calls, StartFinds(c, obj)
      PROVE  CallGoes(c)
  BY <1>6, ReturnMoves DEF StartFinds
<1>7. ASSUME NEW obj \in Calls, Resume(c, obj) \/ Cancel(c, obj)
      PROVE  CallGoes(c)
  BY <1>1, <1>7, ReturnMoves, WriteMoves DEF Resume, Cancel
<1>8. ASSUME NEW obj \in Calls, Wait(c, obj)
      PROVE  CallGoes(c)
  BY <1>1, <1>8, ReturnMoves, AwaitMoves DEF Wait
<1> QED BY <1>2, <1>3, <1>4, <1>5, <1>6, <1>7, <1>8 DEF FirstTurn

LEMMA ProgressMoves ==
    ASSUME TypeOK, LockHeld, NEW c \in Calls, call[c].pc # "begun", Progress(c)
    PROVE  CallGoes(c)
<1>1. CASE Read(c)
  <2>1. PICK pc \in {"rewriting", "loaded"} : call' = At(c, pc)
    BY <1>1 DEF Read
  <2>2. startLock' = startLock /\ call[c].pc = "reading"
    BY <1>1 DEF Read
  <2> QED BY <2>1, <2>2, AtIs, GoMoves DEF OneCall, TypeOK, UnderStart
<1>2. CASE Rewrite(c)
  BY <1>2, AtIs, GoMoves DEF Rewrite, memory, OneCall, TypeOK
<1>3. CASE ReadFails(c) \/ JoinReturns(c)
  BY <1>3, ReturnMoves DEF ReadFails, JoinReturns, memory, UnderStart
<1>4. CASE StartCreates(c)
  BY <1>4, ReturnMoves, WriteMoves DEF StartCreates
<1>5. CASE Launches(c)
  BY <1>5, ReturnMoves DEF Launches
<1>6. CASE StartFinds(c, c)
  BY <1>6, ReturnMoves DEF StartFinds, Has
<1>7. CASE Resume(c, c) \/ Cancel(c, c)
  <2>1. ~UnderStart(c) /\ call[c].pc # "done"
    BY <1>7 DEF Resume, Cancel, Has, UnderStart
  <2> QED BY <1>7, <2>1, ReturnMoves, WriteMoves DEF Resume, Cancel
<1>8. CASE Wait(c, c)
  <2>1. ~UnderStart(c) /\ call[c].pc # "done"
    BY <1>8 DEF Wait, Has, UnderStart
  <2> QED BY <1>8, <2>1, ReturnMoves, AwaitMoves DEF Wait
<1>9. CASE CancelAborts(c)
  <2>1. ~UnderStart(c) /\ call[c].pc # "done" /\ startLock' = startLock
    BY <1>9 DEF CancelAborts, UnderStart
  <2> QED BY <1>9, <2>1, AtIs, GoMoves, AwaitMoves DEF CancelAborts, OneCall, TypeOK
<1>10. CASE CancelReturns(c) \/ WaitReturns(c) \/ ShutdownReturns(c)
  BY <1>10, ReturnMoves DEF CancelReturns, WaitReturns, ShutdownReturns, UnderStart, memory
<1>11. CASE ShutdownAborts(c)
  BY <1>11, AwaitMoves DEF ShutdownAborts, UnderStart, memory
<1> QED BY <1>1, <1>2, <1>3, <1>4, <1>5, <1>6, <1>7, <1>8, <1>9, <1>10, <1>11 DEF Progress

(* A call waits for a start or an execution there is.                      *)
LEMMA CallsWaitStep ==
    ASSUME ~CallsOverlap, Shape, LockHeld, CallsWait, [Next]_vars
    PROVE  LockHeld' /\ CallsWait'
<1>1. Effect /\ Shape' /\ TypeOK
  BY NextIs DEF Shape
<1>2. ASSUME NEW c \in Calls, CallGoes(c)
      PROVE  LockHeld' /\ CallsWait'
  <2>1. CASE CrashStep
    <3>1. CallsWait'
      BY <2>1 DEF CrashStep, CallsWait, CallWaits
    <3> QED BY <1>1, <1>2, <3>1, CallGoesWaits
  <2>2. CASE ~CrashStep
    BY <1>1, <1>2, <2>2, ExecutionsStay, CallGoesWaits
  <2> QED BY <2>1, <2>2
<1>3. CASE UNCHANGED <<call, startLock>>
  <2>1. LockHeld'
    BY <1>3 DEF LockHeld, UnderStart
  <2>2. CASE CrashStep
    BY <2>1, <2>2 DEF CrashStep, CallsWait, CallWaits
  <2>3. CASE ~CrashStep
    <3>1. \A e \in Calls : exec[e].pc # "none" => exec'[e].pc # "none"
      BY <1>1, <2>3, ExecutionsStay
    <3>2. \A c \in Calls : call[c].target \in Calls \union {None}
      BY <1>1 DEF TypeOK, CallRecords
    <3> QED BY <1>3, <2>1, <3>1, <3>2 DEF CallsWait, CallWaits, UnderStart
  <2> QED BY <2>2, <2>3
<1>4. ASSUME NEW e \in Calls, Executes(e) \/ \E s \in Steps : StepRuns(e, s)
      PROVE  UNCHANGED <<call, startLock>>
  BY <1>4 DEF Executes, SequentialTurn, SequentialAfter, Returns, GraphTurn, GraphSchedule, GraphRaces,
              GraphDrained, ExecutionEnds, StepRuns, StepMarked, StepLeased, StepEnds, StepReturns,
              outside, memory
<1>5. ASSUME NEW c \in Calls, NEW op, NEW d, NEW confirm, Begin(c, op, d, confirm)
      PROVE  CallGoes(c)
  <2>1. /\ call[c].pc = "idle" /\ call'[c].pc = "begun" /\ startLock' = startLock
        /\ \A x \in Calls \ {c} : call'[x] = call[x]
    BY <1>1, <1>5 DEF Begin, MayBegin, NewCall, memory, TypeOK
  <2> QED BY <1>1, <2>1, GoMoves DEF UnderStart
<1>6. CASE Crash
  BY <1>6 DEF Crash, LockHeld, CallsWait, CallWaits, Busy, NewCall
<1>7. CASE WriteRun \/ ResumeAccepting \/ UNCHANGED vars
  BY <1>3, <1>7 DEF WriteRun, ResumeAccepting, vars, memory
<1>8. CASE Next /\ Begun # {}
  <2>1. PICK c \in Begun : FirstTurn(c)
    BY <1>8 DEF Next, Work
  <2> QED BY <1>1, <1>2, <2>1, FirstTurnMoves DEF Begun
<1>9. CASE Next /\ Begun = {}
  <2>1. \A c \in Calls : call[c].pc # "begun"
    BY <1>9 DEF Begun
  <2>2. \A c \in Calls : Progress(c) => CallGoes(c)
    BY <1>1, <2>1, ProgressMoves
  <2> QED BY <1>2, <1>3, <1>4, <1>5, <1>6, <1>7, <1>9, <2>2 DEF Next, Work
<1> QED BY <1>7, <1>8, <1>9

LEMMA WaitStep ==
    ASSUME ~CallsOverlap, TypeOK, WorkflowInv, WaitInv, [Next]_vars
    PROVE  WaitInv'
<1>1. Shape /\ CopyAgrees
  BY DEF Shape, WorkflowInv
<1>2. Effect
  BY <1>1, NextIs
<1> QED BY <1>1, <1>2, WritersQueuedStep, LoopsBusyStep, CallsWaitStep DEF WaitInv

LEMMA InitWaits == Init => WaitInv
<1> SUFFICES ASSUME Init PROVE WaitInv
  OBVIOUS
<1>1. WritersQueued
  BY DEF Init, WritersQueued, Awaits, NewCall, NoExecution, Idle
<1>2. LockHeld /\ CallsWait /\ LoopsBusy
  BY DEF Init, LockHeld, CallsWait, CallWaits, LoopsBusy, NewCall, NoExecution
<1> QED BY <1>1, <1>2 DEF WaitInv

(* Who waits for a write has it in the queue, who waits for a call or an   *)
(* execution waits for one there is, and a loop that waits for an executor *)
(* has one at work (persistRun, startDefinition, wait, cancel, shutdown,   *)
(* executeGraph).                                                          *)
THEOREM WaitInvariance ==
    ASSUME ~CallsOverlap
    PROVE  Spec => []WaitInv
<1>1. TypeOK /\ WorkflowInv /\ WaitInv /\ [Next]_vars => WaitInv'
  BY WaitStep
<1> QED BY <1>1, InitWaits, Typing, Invariance, PTL DEF Spec

(* The manager does not deadlock: as long as a call has not returned or an *)
(* execution has not ended, a write, a call, a loop or an executor is due. *)
THEOREM NothingIsStuck ==
    ASSUME ~CallsOverlap
    PROVE  Spec => []NobodyIsStuck
<1>1. ASSUME TypeOK, WorkflowInv, WaitInv, ~Due
      PROVE  NobodyIsStuck
  <2>1. \A v \in Writers : ~Awaits(v)
    <3>1. Positions = {0} /\ By(0) = None
      BY <1>1 DEF Due, Positions, By
    <3> QED BY <1>1, <3>1, WorkflowAssumption DEF WaitInv, WritersQueued, Queued
  <2>2. /\ \A c \in Calls : call[c].pc \notin {"persisting", "finalizing"}
        /\ \A e \in Calls : exec[e].pc \notin {"launched", "return", "schedule", "started", "ending"}
        /\ \A e \in Calls, s \in Steps : executor[e][s].phase \notin {"marking", "closing"}
    BY <2>1, AwaitsIs, WritersAre
  <2>3. \A e \in Calls : Quiet(e) /\ Active(e) = {}
    <3>1. \A e \in Calls, s \in Steps : executor[e][s].phase = "idle"
      BY <1>1, <2>2 DEF Due, TypeOK, ExecutorRecords
    <3> QED BY <3>1 DEF Quiet, Active
  <2>4. \A e \in Calls : exec[e].pc \in {"none", "ended"}
    <3>1. \A e \in Calls : exec[e].pc \notin {"racing", "stepping", "turn", "stepped", "drain"}
      BY <1>1, <2>3 DEF WaitInv, LoopsBusy, Due
    <3>2. \A e \in Calls : exec[e] \in ExecutionRecords
      BY <1>1 DEF TypeOK
    <3> QED BY <2>2, <3>1, <3>2 DEF ExecutionRecords
  <2>5. \A c \in Calls : ~Busy(c)
    <3>1. ASSUME NEW c \in Calls, Busy(c)
          PROVE  call[c].pc \in {"joined", "awaiting"}
      <4>1. call[c] \in CallRecords
        BY <1>1 DEF TypeOK
      <4> QED BY <1>1, <2>2, <3>1, <4>1 DEF Due, CallRecords, Busy
    <3>2. ASSUME NEW c \in Calls, call[c].pc = "joined"
          PROVE  FALSE
      <4>1. /\ call[c].target \in Calls /\ Busy(call[c].target) /\ call[call[c].target].pc # "done"
            /\ UnderStart(call[c].target) \/ call[call[c].target].pc = "done"
        BY <1>1, <3>2 DEF WaitInv, CallsWait, CallWaits, Due, TypeOK, CallRecords, Busy
      <4> QED BY <1>1, <2>2, <4>1 DEF UnderStart, Due
    <3>3. ASSUME NEW c \in Calls, call[c].pc = "awaiting"
          PROVE  FALSE
      <4>1. call[c].target \in Calls /\ exec[call[c].target].pc # "none"
        BY <1>1, <3>3 DEF WaitInv, CallsWait, CallWaits, Due, TypeOK, CallRecords
      <4> QED BY <1>1, <2>4, <3>3, <4>1 DEF Due
    <3> QED BY <3>1, <3>2, <3>3
  <2> QED BY <2>4, <2>5 DEF NobodyIsStuck
<1>2. TypeOK /\ WorkflowInv /\ WaitInv => NobodyIsStuck
  BY <1>1 DEF NobodyIsStuck
<1> QED BY <1>2, Typing, Invariance, WaitInvariance, PTL

(* A pass over the steps 1 .. n in their order that takes a step or not,   *)
(* by what it took before: F has <<s, X>> if s is taken after X.           *)
Below(S, s) == {t \in S : t < s}
Passes(F, n, S) == S = {s \in 1 .. n : <<s, Below(S, s)>> \in F}

LEMMA PassTakes ==
    ASSUME NEW F, NEW n, NEW S
    PROVE  Passes(F, n, S) <=>
             /\ S \subseteq 1 .. n
             /\ \A s \in 1 .. n : s \in S <=> <<s, Below(S, s)>> \in F
<1>1. ASSUME Passes(F, n, S)
      PROVE  /\ S \subseteq 1 .. n
             /\ \A s \in 1 .. n : s \in S <=> <<s, Below(S, s)>> \in F
  BY <1>1, Zenon DEF Passes
<1>2. ASSUME S \subseteq 1 .. n, \A s \in 1 .. n : s \in S <=> <<s, Below(S, s)>> \in F
      PROVE  Passes(F, n, S)
  BY <1>2, Zenon DEF Passes
<1> QED BY <1>1, <1>2

LEMMA PassExists ==
    ASSUME NEW n \in Nat, NEW F
    PROVE  \E S : Passes(F, n, S)
<1> DEFINE Fails == {m \in 0 .. n : ~ \E S : Passes(F, m, S)}
<1>1. ASSUME NEW m \in Fails, \A k \in Fails : m <= k
      PROVE  FALSE
  <2>1. CASE m = 0
    <3>1. Passes(F, 0, {})
      BY PassTakes
    <3> QED BY <1>1, <2>1, <3>1
  <2>2. CASE m # 0
    <3>1. /\ m \in Nat /\ m - 1 \in 0 .. n /\ m - 1 \notin Fails
          /\ 1 .. m = (1 .. (m - 1)) \union {m} /\ m \notin 1 .. (m - 1)
      BY <1>1, <2>2
    <3>2. PICK S : Passes(F, m - 1, S)
      BY <3>1
    <3>3. /\ S \subseteq 1 .. (m - 1)
          /\ \A s \in 1 .. (m - 1) : s \in S <=> <<s, Below(S, s)>> \in F
      BY <3>2, PassTakes
    <3> DEFINE R == S \union {s \in {m} : <<s, S>> \in F}
    <3>4. \A t \in S : t \in Int /\ t < m
      BY <3>1, <3>3
    <3>5. \A s \in 1 .. (m - 1) : Below(R, s) = Below(S, s)
      BY <3>1, <3>3 DEF Below
    <3>6. Below(R, m) = S
      BY <3>1, <3>4 DEF Below
    <3>7. /\ R \subseteq 1 .. m
          /\ \A s \in 1 .. (m - 1) : s \in R <=> s \in S
          /\ m \in R <=> <<m, S>> \in F
      BY <3>1, <3>3
    <3> HIDE DEF R
    <3>8. \A s \in 1 .. m : s \in R <=> <<s, Below(R, s)>> \in F
      <4>1. ASSUME NEW s \in 1 .. (m - 1)
            PROVE  s \in R <=> <<s, Below(R, s)>> \in F
        BY <3>3, <3>5, <3>7
      <4> QED BY <3>1, <3>6, <3>7, <4>1
    <3>9. Passes(F, m, R)
      BY <3>7, <3>8, PassTakes
    <3> QED BY <1>1, <3>9
  <2> QED BY <2>1, <2>2
<1>2. Fails = {}
  <2> HIDE DEF Fails
  <2>1. Fails \subseteq Nat
    BY DEF Fails
  <2> QED BY <1>1, <2>1, Least
<1>3. n \in 0 .. n
  OBVIOUS
<1> QED BY <1>2, <1>3

LEMMA PassIsOne ==
    ASSUME NEW n \in Nat, NEW F, NEW S, NEW R, Passes(F, n, S), Passes(F, n, R)
    PROVE  S = R
<1> DEFINE Differ == {s \in 1 .. n : ~(s \in S <=> s \in R)}
<1>1. /\ S \subseteq 1 .. n
      /\ \A s \in 1 .. n : s \in S <=> <<s, Below(S, s)>> \in F
  BY PassTakes
<1>2. /\ R \subseteq 1 .. n
      /\ \A s \in 1 .. n : s \in R <=> <<s, Below(R, s)>> \in F
  BY PassTakes
<1>3. ASSUME NEW x \in Differ, \A y \in Differ : x <= y
      PROVE  FALSE
  <2>1. ASSUME NEW t, t < x, t \in S \union R
        PROVE  t \in S <=> t \in R
    <3>1. t \in 1 .. n /\ x \in 1 .. n
      BY <1>1, <1>2, <2>1
    <3>2. t \notin Differ
      BY <1>3, <2>1, <3>1
    <3> QED BY <3>1, <3>2
  <2>2. Below(S, x) = Below(R, x)
    BY <2>1 DEF Below
  <2>3. x \in 1 .. n /\ ~(x \in S <=> x \in R)
    OBVIOUS
  <2> QED BY <1>1, <1>2, <2>2, <2>3
<1>4. Differ = {}
  <2> HIDE DEF Differ
  <2>1. Differ \subseteq Nat
    BY DEF Differ
  <2> QED BY <1>3, <2>1, Least
<1> QED BY <1>1, <1>2, <1>4

(* The pass that skips what is blocked, and the one that starts what can   *)
(* start, have one outcome each: a turn of a graph's loop is determined by *)
(* the run and by what is active, and never without an outcome             *)
(* (executeGraph).                                                         *)
THEOREM PassesHaveOneOutcome ==
    ASSUME NEW run \in Runs, NEW active \in SUBSET Steps
    PROVE  /\ \E B \in SUBSET DOMAIN run.step :
                 Blocked(run, B) /\ \A C : Blocked(run, C) => C = B
           /\ \E S \in SUBSET DOMAIN run.step :
                 Startable(run, active, S) /\ \A R : Startable(run, active, R) => R = S
<1>1. PICK n \in Nat : DOMAIN run.step = 1 .. n
  BY RunForm, WorkflowAssumption
<1>2. \A X \in SUBSET (1 .. n), s \in 1 .. n : Below(X, s) \in SUBSET (1 .. n)
  BY DEF Below
<1>3. \E B \in SUBSET DOMAIN run.step : Blocked(run, B) /\ \A C : Blocked(run, C) => C = B
  <2> DEFINE MustSkip(s, X) ==
                 /\ run.step[s] = "pending"
                 /\ \E d \in run.def.steps[s].deps :
                       run.step[d] \in {"failed", "canceled", "interrupted", "skipped"} \/ d \in X
             F == {p \in (1 .. n) \X SUBSET (1 .. n) : MustSkip(p[1], p[2])}
  <2>1. ASSUME NEW B
        PROVE  Blocked(run, B) <=> Passes(F, n, B)
    <3>1. ASSUME B \subseteq 1 .. n
          PROVE  \A s \in 1 .. n : <<s, Below(B, s)>> \in F <=> MustSkip(s, Below(B, s))
      BY <1>2, <3>1
    <3>2. ASSUME NEW s \in 1 .. n
          PROVE  MustSkip(s, Below(B, s)) <=>
                    /\ run.step[s] = "pending"
                    /\ \E d \in run.def.steps[s].deps :
                          \/ run.step[d] \in {"failed", "canceled", "interrupted", "skipped"}
                          \/ d \in B /\ d < s
      BY DEF Below
    <3> HIDE DEF MustSkip, F
    <3>3. Blocked(run, B) <=> /\ B \subseteq 1 .. n
                              /\ \A s \in 1 .. n : s \in B <=> MustSkip(s, Below(B, s))
      <4>1. Blocked(run, B) <=>
               B = {s \in 1 .. n :
                      /\ run.step[s] = "pending"
                      /\ \E d \in run.def.steps[s].deps :
                            \/ run.step[d] \in {"failed", "canceled", "interrupted", "skipped"}
                            \/ d \in B /\ d < s}
        BY <1>1, Zenon DEF Blocked
      <4> QED BY <3>2, <4>1
    <3> QED BY <3>1, <3>3, PassTakes
  <2> HIDE DEF F
  <2>2. PICK B : Passes(F, n, B)
    BY PassExists
  <2>3. Blocked(run, B) /\ B \subseteq 1 .. n /\ \A C : Blocked(run, C) => C = B
    BY <2>1, <2>2, PassTakes, PassIsOne
  <2> QED BY <1>1, <2>3
<1>4. \E S \in SUBSET DOMAIN run.step :
         Startable(run, active, S) /\ \A R : Startable(run, active, R) => R = S
  <2> DEFINE MayStart(s, X) ==
                 LET before == active \union X IN
                 /\ run.step[s] = "pending"
                 /\ \A d \in run.def.steps[s].deps : run.step[d] = "succeeded"
                 /\ Cardinality(before) < run.def.maxConcurrency
                 /\ \A t \in before :
                       run.def.steps[s].resources \intersect run.def.steps[t].resources = {}
             F == {p \in (1 .. n) \X SUBSET (1 .. n) : MayStart(p[1], p[2])}
  <2>1. ASSUME NEW S
        PROVE  Startable(run, active, S) <=> Passes(F, n, S)
    <3>1. ASSUME S \subseteq 1 .. n
          PROVE  \A s \in 1 .. n : <<s, Below(S, s)>> \in F <=> MayStart(s, Below(S, s))
      BY <1>2, <3>1
    <3>2. Startable(run, active, S) <=> S = {s \in 1 .. n : MayStart(s, Below(S, s))}
      BY <1>1, Zenon DEF Startable, Below
    <3> HIDE DEF MayStart, F
    <3> QED BY <3>1, <3>2, PassTakes
  <2> HIDE DEF F
  <2>2. PICK S : Passes(F, n, S)
    BY PassExists
  <2>3. Startable(run, active, S) /\ S \subseteq 1 .. n
        /\ \A R : Startable(run, active, R) => R = S
    BY <2>1, <2>2, PassTakes, PassIsOne
  <2> QED BY <1>1, <2>3
<1> QED BY <1>3, <1>4

(* What the run of TLC checks, whether definitions list their steps in     *)
(* order or not: the control of the manager, the agreement of memory and   *)
(* file, what is promised of steps, the waiting of writers and calls and   *)
(* the completeness of what is on record hold together.                    *)
THEOREM InductiveInvariance ==
    ASSUME ~CallsOverlap
    PROVE  Spec => []Inductive
<1>1. CASE ListedInOrder
  <2>1. Spec => []NothingLeftOver
    BY <1>1, LeftOverInvariance
  <2>2. TypeOK /\ WorkflowInv /\ PromiseInv /\ WaitInv /\ NothingLeftOver => Inductive
    BY DEF Inductive
  <2> QED BY <2>1, <2>2, Typing, Invariance, PromiseInvariance, WaitInvariance, PTL
<1>2. CASE ~ListedInOrder
  <2>1. TypeOK /\ WorkflowInv /\ PromiseInv /\ WaitInv => Inductive
    BY <1>2 DEF Inductive
  <2> QED BY <2>1, Typing, Invariance, PromiseInvariance, WaitInvariance, PTL
<1> QED BY <1>1, <1>2

-----------------------------------------------------------------------------
(* The manager implements WorkflowRun.  Under the invariant, the status of *)
(* a step follows its executor and what the file says.                     *)
Agreed == TypeOK /\ WorkflowInv /\ PromiseInv

StatusLaw ==
    \A s \in Steps :
        /\ (\A e \in Calls : executor[e][s].phase = "idle") =>
              StatusOf(s) = IF Succeeded(file, s) THEN "passed" ELSE "open"
        /\ \A e \in Calls :
              /\ executor[e][s].phase = "executing" =>
                    StatusOf(s) = "working" /\ RunsOn(file, s)
              /\ executor[e][s].phase = "waiting" => StatusOf(s) = "begun" /\ RunsOn(file, s)
              /\ executor[e][s].phase = "marking" =>
                    /\ StatusOf(s) = IF RunsOn(file, s) THEN "begun" ELSE "open"
                    /\ ~Succeeded(file, s)
              /\ executor[e][s].phase = "closing" =>
                    StatusOf(s) = IF Succeeded(file, s) THEN "passed"
                                  ELSE IF ~RunsOn(file, s) THEN "open"
                                  ELSE IF Succeeded(copy[runs], s) THEN "done" ELSE "ended"

LEMMA StatusFollows == Agreed => StatusLaw
<1> SUFFICES ASSUME Agreed PROVE StatusLaw
  OBVIOUS
<1>1. Shape /\ RecordsFollow /\ WorkRecorded /\ CopyAgrees /\ SuccessKept
  BY DEF Agreed, WorkflowInv, PromiseInv, Shape
<1>2. 0 \in Positions /\ Rec(0) = file
  BY <1>1, LastIs DEF Rec
<1>3. \A s : /\ Recorded(s, {"succeeded"}) <=> Succeeded(file, s)
             /\ Recorded(s, {"running"}) <=> RunsOn(file, s)
  BY DEF Recorded, Succeeded, RunsOn
<1>4. ASSUME NEW s \in Steps, \A e \in Calls : executor[e][s].phase = "idle"
      PROVE  StatusOf(s) = IF Succeeded(file, s) THEN "passed" ELSE "open"
  <2>1. ~Executing(s) /\ ~InPhase(s, {"marking", "waiting"}) /\ ~InPhase(s, {"closing"})
    BY <1>4 DEF Executing, InPhase
  <2> QED BY <1>3, <2>1 DEF StatusOf
<1>5. ASSUME NEW s \in Steps, NEW e \in Calls, executor[e][s].phase # "idle"
      PROVE  /\ Executing(s) <=> executor[e][s].phase = "executing"
             /\ InPhase(s, {"marking", "waiting"}) <=> executor[e][s].phase \in {"marking", "waiting"}
             /\ InPhase(s, {"closing"}) <=> executor[e][s].phase = "closing"
             /\ runs # None /\ copy[runs] # None /\ s \in DOMAIN copy[runs].step
  <2>1. runs # None /\ s \in DOMAIN copy[runs].step /\ execution = e
    BY <1>1, <1>5, BusyIs
  <2>2. \A d \in Calls \ {e} : executor[d][s].phase = "idle"
    BY <1>1, <2>1, BusyIs
  <2>3. copy[runs] # None
    BY <1>1, <2>1, LastIs
  <2> QED BY <1>5, <2>1, <2>2, <2>3 DEF Executing, InPhase
<1>6. ASSUME NEW s \in Steps, NEW e \in Calls, executor[e][s].phase \in {"waiting", "executing"}
      PROVE  RunsOn(file, s) /\ ~Succeeded(file, s)
  <2>1. OnRecord(file, s)
    BY <1>1, <1>2, <1>6 DEF WorkRecorded
  <2> QED BY <2>1 DEF OnRecord, RunsOn, Succeeded
<1>7. ASSUME NEW s \in Steps, NEW e \in Calls, executor[e][s].phase = "marking"
      PROVE  ~Succeeded(file, s)
  <2>1. copy[runs].step[s] = "running" /\ runs # None
    BY <1>1, <1>5, <1>7 DEF CopyAgrees, ExecutorsAgree, Phase3
  <2> QED BY <1>1, <1>2, <2>1 DEF SuccessKept, Succeeded
<1>8. ASSUME NEW s \in Steps, NEW e \in Calls, executor[e][s].phase = "executing"
      PROVE  StatusOf(s) = "working"
  BY <1>5, <1>8 DEF StatusOf
<1>9. ASSUME NEW s \in Steps, NEW e \in Calls, executor[e][s].phase = "waiting"
      PROVE  StatusOf(s) = "begun"
  BY <1>3, <1>5, <1>6, <1>9 DEF StatusOf
<1>10. ASSUME NEW s \in Steps, NEW e \in Calls, executor[e][s].phase = "marking"
       PROVE  StatusOf(s) = IF RunsOn(file, s) THEN "begun" ELSE "open"
  BY <1>3, <1>5, <1>7, <1>10 DEF StatusOf
<1>11. ASSUME NEW s \in Steps, NEW e \in Calls, executor[e][s].phase = "closing"
       PROVE  StatusOf(s) = IF Succeeded(file, s) THEN "passed"
                            ELSE IF ~RunsOn(file, s) THEN "open"
                            ELSE IF Succeeded(copy[runs], s) THEN "done" ELSE "ended"
  <2>1. Succeeded(copy[runs], s) <=> copy[runs].step[s] = "succeeded"
    BY <1>5, <1>11 DEF Succeeded
  <2> QED BY <1>3, <1>5, <1>11, <2>1 DEF StatusOf
<1> QED BY <1>4, <1>6, <1>7, <1>8, <1>9, <1>10, <1>11 DEF StatusLaw

LEMMA StatusThen == Agreed' => StatusLaw'
BY StatusFollows, PTL

(* What is left of a step for WorkflowRun: its status, and the definition. *)
DefinitionOf == IF file = None THEN None ELSE file.def
Refines == Promise!RunNext \/ UNCHANGED Promise!rvars

LEMMA Stutters ==
    ASSUME DefinitionOf' = DefinitionOf, unknown' = unknown,
           \A t \in Steps : StatusOf(t)' = StatusOf(t)
    PROVE  UNCHANGED Promise!rvars
BY DEF DefinitionOf, Promise!rvars

LEMMA MovesIs ==
    ASSUME DefinitionOf' = DefinitionOf, NEW s \in Steps, NEW from, NEW to,
           StatusOf(s) = from, StatusOf(s)' = to,
           \A t \in Steps \ {s} : StatusOf(t)' = StatusOf(t)
    PROVE  Promise!Moves(s, from, to)
BY DEF DefinitionOf, Promise!Moves

(* A step keeps its status if its executor stays where it is and neither   *)
(* the file nor the outcome of the executor change.                        *)
LEMMA StatusStays ==
    ASSUME Shape, StatusLaw, StatusLaw', NEW t \in Steps,
           \A d \in Calls : executor'[d][t].phase = executor[d][t].phase,
           Succeeded(file, t)' <=> Succeeded(file, t), RunsOn(file, t)' <=> RunsOn(file, t),
           \A d \in Calls : executor[d][t].phase = "closing" =>
              (Succeeded(copy[runs], t)' <=> Succeeded(copy[runs], t))
    PROVE  StatusOf(t)' = StatusOf(t)
<1>1. CASE \A d \in Calls : executor[d][t].phase = "idle"
  BY <1>1 DEF StatusLaw
<1>2. ASSUME NEW e \in Calls, executor[e][t].phase # "idle"
      PROVE  StatusOf(t)' = StatusOf(t)
  <2>1. executor[e][t].phase \in {"marking", "waiting", "executing", "closing"}
    BY <1>2 DEF Shape, TypeOK, ExecutorRecords
  <2> QED BY <2>1 DEF StatusLaw
<1> QED BY <1>1, <1>2

(* The executors of a step that is idle, or not, in the execution.         *)
LEMMA AllIdle ==
    ASSUME Shape, NEW s \in Steps, NEW e \in Calls, execution = e \/ execution = None,
           executor[e][s].phase = "idle"
    PROVE  \A d \in Calls : executor[d][s].phase = "idle"
BY BusyIs, NoneIsNoCall

(* What is idle is passed or open as the file says.                        *)
LEMMA IdleStatus ==
    ASSUME StatusLaw, NEW s \in Steps, \A d \in Calls : executor[d][s].phase = "idle"
    PROVE  StatusOf(s) = IF Succeeded(file, s) THEN "passed" ELSE "open"
BY DEF StatusLaw

(* A step is passed exactly if the file says that it succeeded.            *)
LEMMA PassedIs ==
    ASSUME Shape, StatusLaw, NEW s \in Steps
    PROVE  StatusOf(s) = "passed" <=> Succeeded(file, s)
<1>1. RunsOn(file, s) => ~Succeeded(file, s)
  BY DEF RunsOn, Succeeded
<1>2. CASE \A d \in Calls : executor[d][s].phase = "idle"
  BY <1>2, IdleStatus
<1>3. ASSUME NEW e \in Calls, executor[e][s].phase # "idle"
      PROVE  StatusOf(s) = "passed" <=> Succeeded(file, s)
  <2>1. executor[e][s].phase \in {"marking", "waiting", "executing", "closing"}
    BY <1>3 DEF Shape, TypeOK, ExecutorRecords
  <2> QED BY <1>1, <2>1 DEF StatusLaw
<1> QED BY <1>2, <1>3

(* An executor that settles its step: a success, an end without success,   *)
(* or a mutation of which nobody knows.                                    *)
LEMMA SettlesRefines ==
    ASSUME Shape, Shape', WorkRecorded, RecordsFollow, StatusLaw, StatusLaw',
           NEW e \in Calls, NEW s \in Steps, NEW outcome, NEW run, ExecutorSettles(e, s, outcome, run),
           \A t \in Steps \ {s} : StatusOf(t)' = StatusOf(t)
    PROVE  Promise!RunNext
<1>1. /\ file' = file /\ runs' = runs /\ runs \in Calls /\ copy[runs] \in Runs
      /\ execution = e /\ s \in DOMAIN copy[runs].step
      /\ run = WithStep(copy[runs], s, outcome) /\ copy' = [copy EXCEPT ![runs] = run]
      /\ executor[e][s].phase \in Phase3 /\ executor'[e][s].phase = "closing"
      /\ outcome \in {"succeeded", "failed", "canceled", "interrupted"}
  BY DEF ExecutorSettles, AtWork, Becomes, Phase3
<1>2. RunsOn(file, s) /\ file # None /\ file.def = copy[runs].def
  <2>1. 0 \in Positions /\ Rec(0) = file /\ By(0) = ready
    BY LastIs DEF Rec, By
  <2>2. OnRecord(file, s)
    <3>1. CASE executor[e][s].phase \in {"waiting", "executing"}
      BY <2>1, <3>1 DEF WorkRecorded
    <3>2. CASE executor[e][s].phase = "marking"
      <4>1. By(0) = Worker(e, s) /\ 0 <= 0
        BY <2>1, <3>2 DEF ExecutorSettles
      <4> QED BY <2>1, <3>2, <4>1 DEF WorkRecorded
    <3> QED BY <1>1, <3>1, <3>2 DEF Phase3
  <2> QED BY <1>1, <2>1, <2>2, RecordsAre, NoneIsNoCall DEF OnRecord, RunsOn
<1>3. RunsOn(file, s)' /\ ~Succeeded(file, s)'
  BY <1>1, <1>2 DEF RunsOn, Succeeded
<1>4. Succeeded(copy[runs], s)' <=> outcome = "succeeded"
  <2>1. copy'[runs'] = run /\ run \in Runs /\ DOMAIN run.step = DOMAIN copy[runs].step
    BY <1>1, BecomesIs DEF ExecutorSettles, Worker, Writers
  <2>2. run.step = [copy[runs].step EXCEPT ![s] = outcome]
    <3>1. PICK r \in Runs : r = copy[runs]
      BY <1>1
    <3>2. s \in DOMAIN r.step /\ outcome \in StepStates
      BY <1>1, <3>1 DEF StepStates
    <3>3. WithStep(r, s, outcome).step = [r.step EXCEPT ![s] = outcome]
      BY <3>2, WithStepIs
    <3> QED BY <1>1, <3>1, <3>3
  <2>3. run.step[s] = outcome
    BY <1>1, <2>2, RunForm
  <2> QED BY <1>1, <2>1, <2>2, <2>3, NoneIsNoCall DEF Succeeded
<1>5. StatusOf(s) = IF executor[e][s].phase = "executing" THEN "working" ELSE "begun"
  BY <1>1, <1>2 DEF StatusLaw, Phase3
<1>6. StatusOf(s)' = IF outcome = "succeeded" THEN "done" ELSE "ended"
  BY <1>1, <1>3, <1>4 DEF StatusLaw
<1>7. DefinitionOf' = DefinitionOf
  BY <1>1 DEF DefinitionOf
<1>8. Promise!Moves(s, StatusOf(s), StatusOf(s)')
  BY <1>7, MovesIs
<1>9. CASE unknown' = unknown
  <2>1. outcome = "succeeded" => executor[e][s].phase = "executing"
    BY DEF ExecutorSettles
  <2>2. CASE outcome = "succeeded"
    <3>1. Promise!Succeed(s)
      BY <1>5, <1>6, <1>8, <1>9, <2>1, <2>2 DEF Promise!Succeed
    <3> QED BY <3>1 DEF Promise!RunNext
  <2>3. CASE outcome # "succeeded"
    <3>1. Promise!End(s)
      BY <1>5, <1>6, <1>8, <1>9, <2>3 DEF Promise!End
    <3> QED BY <3>1 DEF Promise!RunNext
  <2> QED BY <2>2, <2>3
<1>10. CASE unknown' # unknown
  <2>1. /\ outcome = "interrupted" /\ executor[e][s].phase = "executing"
        /\ Mutates(copy[runs], s) /\ ~copy[runs].def.steps[s].safe
        /\ unknown' = unknown \union {s}
    BY <1>10 DEF ExecutorSettles
  <2>2. Promise!Unsafe(s)
    BY <1>2, <2>1 DEF Promise!Unsafe, Promise!StepOf, Mutates
  <2>3. Promise!GiveUp(s)
    BY <1>5, <1>6, <1>8, <2>1, <2>2 DEF Promise!GiveUp
  <2> QED BY <2>3 DEF Promise!RunNext
<1> QED BY <1>9, <1>10

(* A step that its execution starts is open before and after: its record   *)
(* is yet to be written.                                                   *)
LEMMA StartedStaysOpen ==
    ASSUME Shape, RecordsHeld, RecordsFollow, StatusLaw, StatusLaw', file' = file, runs # None,
           NEW e \in Calls, execution = e, NEW s \in Steps,
           executor[e][s].phase = "idle", executor'[e][s].phase = "marking"
    PROVE  StatusOf(s)' = StatusOf(s)
<1>1. \A d \in Calls : executor[d][s].phase = "idle"
  BY AllIdle
<1>2. ~RunsOn(file, s) /\ ~RunsOn(file, s)'
  <2>1. 0 \in Positions /\ Rec(0) = file
    BY LastIs DEF Rec
  <2>2. ~RunsOn(file, s)
    BY <1>1, <2>1 DEF RecordsHeld
  <2> QED BY <2>2 DEF RunsOn
<1>3. ~Succeeded(file, s)' /\ ~Succeeded(file, s)
  BY DEF StatusLaw, Succeeded
<1> QED BY <1>1, <1>2, <1>3 DEF StatusLaw

(* Confirmed, or not: a write into the queue moves at most its executor.   *)
LEMMA WritingRefines ==
    ASSUME Shape, Shape', CopyAgrees, RecordsFollow, WorkRecorded, RecordsHeld, StatusLaw, StatusLaw',
           NEW run, NEW w, Writing(run, w)
    PROVE  Refines
<1>1. OneWrite(run, w) /\ file' = file /\ copy'[runs'] = run /\ run \in Runs
  BY WritingIs DEF OneWrite
<1>2. DefinitionOf' = DefinitionOf
  BY <1>1 DEF DefinitionOf
<1>3. ASSUME NEW t \in Steps, \A d \in Calls : Stays(d, t) /\ w # Worker(d, t)
      PROVE  StatusOf(t)' = StatusOf(t)
  <2>1. Succeeded(file, t)' <=> Succeeded(file, t)
    BY <1>1 DEF Succeeded
  <2>2. RunsOn(file, t)' <=> RunsOn(file, t)
    BY <1>1 DEF RunsOn
  <2>3. ASSUME NEW d \in Calls, executor[d][t].phase = "closing"
        PROVE  Succeeded(copy[runs], t)' <=> Succeeded(copy[runs], t)
    <3>1. run.step[t] = copy[runs].step[t]
      BY <1>3, <2>3, WritingSays
    <3>2. runs # None /\ copy[runs] = Rec(Len(writes)) /\ copy[runs] \in Runs
      BY <2>3, BusyIs, LastIs
    <3>3. copy[runs].def = run.def
      BY <1>1, <3>2, LastIs DEF OneWrite
    <3>4. DOMAIN copy[runs].step = DOMAIN run.step
      BY <1>1, <3>2, <3>3, SameDefinition
    <3> QED BY <1>1, <3>1, <3>2, <3>4, NoneIsNoCall DEF Succeeded
  <2>4. \A d \in Calls : executor'[d][t].phase = executor[d][t].phase
    BY <1>3 DEF Stays
  <2> QED BY <2>1, <2>2, <2>3, <2>4, StatusStays
<1>4. ASSUME NEW e \in Calls, NEW s \in Steps, w = Worker(e, s), NEW t \in Steps \ {s}
      PROVE  StatusOf(t)' = StatusOf(t)
  <2>1. \A d \in Calls : w # Worker(d, t)
    BY <1>4, WritersAre
  <2>2. \A d \in Calls : Stays(d, t)
    BY <2>1, WritingMoves
  <2> QED BY <1>3, <2>1, <2>2
<1>5. ASSUME NEW e \in Calls, NEW s \in Steps, NEW outcome, w = Worker(e, s),
             ExecutorSettles(e, s, outcome, run)
      PROVE  Refines
  <2>1. Promise!RunNext
    BY <1>4, <1>5, SettlesRefines
  <2> QED BY <2>1 DEF Refines
<1>6. ASSUME NEW e \in Calls, NEW s \in Steps, w = Worker(e, s), StartsStep(e, s, run)
      PROVE  Refines
  <2>1. /\ runs # None /\ execution = e /\ executor[e][s].phase = "idle"
        /\ executor'[e][s].phase = "marking" /\ unknown' = unknown
    BY <1>6, NoneIsNoCall DEF StartsStep, LoopStarts, Loops, AtWork, Quiet
  <2>2. StatusOf(s)' = StatusOf(s)
    BY <1>1, <2>1, StartedStaysOpen
  <2>3. \A t \in Steps : StatusOf(t)' = StatusOf(t)
    BY <1>4, <1>6, <2>2
  <2> QED BY <1>2, <2>1, <2>3, Stutters DEF Refines
<1>7. ASSUME \A d \in Calls, t \in Steps : w # Worker(d, t)
      PROVE  \A t \in Steps : StatusOf(t)' = StatusOf(t)
  BY <1>3, <1>7, WritingMoves
<1>8. ASSUME NEW e \in Calls, w = Loop(e), LaunchStep(e) \/ LoopEnds(e, run) \/ \E B : LoopSkips(e, B, run)
      PROVE  Refines
  <2>1. unknown' = unknown
    BY <1>8 DEF LaunchStep, LoopEnds, LoopSkips, Loops
  <2>2. \A d \in Calls, t \in Steps : w # Worker(d, t)
    BY <1>8, WritersAre
  <2> QED BY <1>2, <1>7, <2>1, <2>2, Stutters DEF Refines
<1>9. ASSUME NEW c \in Calls, w = Caller(c), CallWrites(c, run)
      PROVE  Refines
  <2>1. \A t \in Steps : StatusOf(t)' = StatusOf(t)
    <3>1. \A d \in Calls, t \in Steps : w # Worker(d, t)
      BY <1>9, WritersAre
    <3> QED BY <1>7, <3>1
  <2>2. CASE unknown' = unknown
    BY <1>2, <2>1, <2>2, Stutters DEF Refines
  <2>3. CASE unknown' # unknown
    <3>1. unknown' = {} /\ execution = None
      BY <1>9, <2>3 DEF CallWrites
    <3>2. \A s \in Steps : StatusOf(s) \in {"passed", "open"}
      BY <3>1, AllIdle, BusyIs, IdleStatus
    <3>3. Promise!UnderWay = {}
      BY <3>2 DEF Promise!UnderWay
    <3>4. Promise!Confirm
      BY <1>2, <2>1, <3>1, <3>3 DEF Promise!Confirm, DefinitionOf
    <3> QED BY <3>4 DEF Refines, Promise!RunNext
  <2> QED BY <2>2, <2>3
<1> QED BY <1>5, <1>6, <1>8, <1>9 DEF Writing

(* A graph that starts steps.                                              *)
LEMMA StartsRefine ==
    ASSUME Shape, Shape', CopyAgrees, RecordsFollow, RecordsHeld, StatusLaw, StatusLaw',
           NEW e \in Calls, NEW S, NEW run, StartsSteps(e, S, run)
    PROVE  Refines
<1>1. /\ file' = file /\ runs' = runs /\ runs \in Calls /\ runs # None /\ copy[runs] \in Runs
      /\ execution = e /\ unknown' = unknown /\ PhasesBut(e, S)
      /\ S \subseteq DOMAIN copy[runs].step /\ copy' = [copy EXCEPT ![runs] = run]
      /\ run = Marked(copy[runs], S, "running")
      /\ \A s \in S : copy[runs].step[s] = "pending" /\ executor'[e][s].phase = "marking"
  BY NoneIsNoCall DEF StartsSteps, LoopStarts, Loops, AtWork
<1>2. DefinitionOf' = DefinitionOf
  BY <1>1 DEF DefinitionOf
<1>3. ASSUME NEW s \in Steps, s \in S
      PROVE  StatusOf(s)' = StatusOf(s)
  <2>1. executor[e][s].phase = "idle"
    <3>1. executor[e][s].phase \in {"idle", "marking", "waiting", "executing", "closing"}
      BY DEF Shape, TypeOK, ExecutorRecords
    <3> QED BY <1>1, <1>3, <3>1 DEF CopyAgrees, ExecutorsAgree, Phase3, TERMINAL_STEP_STATES
  <2> QED BY <1>1, <1>3, <2>1, StartedStaysOpen
<1>4. ASSUME NEW t \in Steps, t \notin S
      PROVE  StatusOf(t)' = StatusOf(t)
  <2>1. \A d \in Calls : executor'[d][t].phase = executor[d][t].phase
    BY <1>1, <1>4 DEF PhasesBut
  <2>2. Succeeded(file, t)' <=> Succeeded(file, t)
    BY <1>1 DEF Succeeded
  <2>3. RunsOn(file, t)' <=> RunsOn(file, t)
    BY <1>1 DEF RunsOn
  <2>4. Succeeded(copy[runs], t)' <=> Succeeded(copy[runs], t)
    <3>1. copy'[runs'] = run /\ run \in Runs /\ DOMAIN run.step = DOMAIN copy[runs].step
      BY <1>1, MarkedIs DEF Shape, TypeOK, Varies, StepStates
    <3>2. t \in DOMAIN copy[runs].step => run.step[t] = copy[runs].step[t]
      BY <1>1, <1>4, MarkedIs DEF StepStates
    <3> QED BY <1>1, <3>1, <3>2, NoneIsNoCall DEF Succeeded
  <2> QED BY <2>1, <2>2, <2>3, <2>4, StatusStays
<1> QED BY <1>1, <1>2, <1>3, <1>4, Stutters DEF Refines

(* An executor that goes on works, once its step is on record; one that    *)
(* returns, and whatever else writes nothing, moves no step.               *)
LEMMA KeepingRefines ==
    ASSUME Shape, Shape', CopyAgrees, RecordsFollow, WorkRecorded, ClosedByOwnWrite,
           StatusLaw, StatusLaw', Keeping
    PROVE  Refines
<1>1. /\ file' = file /\ unknown' = unknown
      /\ \/ runs' = runs /\ (runs # None => copy'[runs'] = copy[runs])
         \/ runs = None /\ runs' # None /\ copy'[runs'] = file /\ file # None
  BY KeepingIs
<1>2. DefinitionOf' = DefinitionOf
  BY <1>1 DEF DefinitionOf
<1>3. 0 \in Positions /\ Rec(0) = file /\ By(0) = ready
  BY LastIs DEF Rec, By
<1>4. ASSUME NEW t \in Steps, \A d \in Calls : executor'[d][t].phase = executor[d][t].phase
      PROVE  StatusOf(t)' = StatusOf(t)
  <2>1. Succeeded(file, t)' <=> Succeeded(file, t)
    BY <1>1 DEF Succeeded
  <2>2. RunsOn(file, t)' <=> RunsOn(file, t)
    BY <1>1 DEF RunsOn
  <2>3. ASSUME NEW d \in Calls, executor[d][t].phase = "closing"
        PROVE  Succeeded(copy[runs], t)' <=> Succeeded(copy[runs], t)
    <3>1. runs # None
      BY <2>3, BusyIs
    <3> QED BY <1>1, <3>1 DEF Succeeded
  <2> QED BY <1>4, <2>1, <2>2, <2>3, StatusStays
<1>5. ASSUME NEW e \in Calls, NEW s \in Steps, ExecutorGoes(e, s)
      PROVE  Refines
  <2>1. /\ PhasesBut(e, {s}) /\ executor'[e][s].phase \in {"waiting", "executing"}
        /\ \/ executor[e][s].phase = "marking" /\ ready = Worker(e, s)
           \/ executor[e][s].phase = "waiting"
    BY <1>5 DEF ExecutorGoes
  <2>2. \A t \in Steps \ {s} : StatusOf(t)' = StatusOf(t)
    BY <1>4, <2>1 DEF PhasesBut
  <2>3. RunsOn(file, s)
    <3>1. OnRecord(file, s)
      BY <1>3, <2>1 DEF WorkRecorded
    <3> QED BY <3>1 DEF OnRecord, RunsOn
  <2>4. StatusOf(s) = "begun"
    BY <2>1, <2>3 DEF StatusLaw
  <2>5. CASE executor'[e][s].phase = "waiting"
    <3>1. StatusOf(s)' = "begun"
      BY <2>5 DEF StatusLaw
    <3>2. \A t \in Steps : StatusOf(t)' = StatusOf(t)
      BY <2>2, <2>4, <3>1
    <3> QED BY <1>1, <1>2, <3>2, Stutters DEF Refines
  <2>6. CASE executor'[e][s].phase = "executing"
    <3>1. StatusOf(s)' = "working"
      BY <2>6 DEF StatusLaw
    <3>2. Promise!Work(s)
      BY <1>1, <1>2, <2>2, <2>4, <3>1, MovesIs DEF Promise!Work
    <3> QED BY <3>2 DEF Refines, Promise!RunNext
  <2> QED BY <2>1, <2>5, <2>6
<1>6. ASSUME NEW e \in Calls, NEW s \in Steps, ExecutorReturns(e, s)
      PROVE  Refines
  <2>1. /\ PhasesBut(e, {s}) /\ executor'[e][s].phase = "idle" /\ execution' = execution
        /\ executor[e][s].phase = "closing" /\ ready = Worker(e, s) /\ execution = e
    BY <1>6 DEF ExecutorReturns, AtWork
  <2>2. \A t \in Steps \ {s} : StatusOf(t)' = StatusOf(t)
    BY <1>4, <2>1 DEF PhasesBut
  <2>3. ~RunsOn(file, s)
    <3>1. file.step[s] = copy[runs].step[s]
      BY <1>3, <2>1, ~(0 < 0) DEF ClosedByOwnWrite
    <3>2. copy[runs].step[s] # "running"
      BY <2>1 DEF CopyAgrees, ExecutorsAgree, TERMINAL_STEP_STATES
    <3> QED BY <3>1, <3>2 DEF RunsOn
  <2>4. StatusOf(s) = IF Succeeded(file, s) THEN "passed" ELSE "open"
    BY <2>1, <2>3 DEF StatusLaw
  <2>5. \A d \in Calls : executor'[d][s].phase = "idle"
    <3>1. \A d \in Calls \ {e} : executor[d][s].phase = "idle"
      BY <2>1, BusyIs
    <3> QED BY <2>1, <3>1 DEF PhasesBut
  <2>6. StatusOf(s)' = IF Succeeded(file, s)' THEN "passed" ELSE "open"
    BY <2>5 DEF StatusLaw
  <2>7. Succeeded(file, s)' <=> Succeeded(file, s)
    BY <1>1 DEF Succeeded
  <2>8. \A t \in Steps : StatusOf(t)' = StatusOf(t)
    BY <2>2, <2>4, <2>6, <2>7
  <2> QED BY <1>1, <1>2, <2>8, Stutters DEF Refines
<1>7. CASE SamePhases \/ executor' = executor
  <2>1. \A d \in Calls, t \in Steps : executor'[d][t].phase = executor[d][t].phase
    BY <1>7 DEF SamePhases
  <2>2. \A t \in Steps : StatusOf(t)' = StatusOf(t)
    BY <1>4, <2>1
  <2> QED BY <1>1, <1>2, <2>2, Stutters DEF Refines
<1> QED BY <1>5, <1>6, <1>7 DEF Keeping, CallStep, ReadStep, BeginStep, LoopGoes, CloseStep,
                               AcceptStep, executions

(* The runtime dies: what is not on record is lost, and mutations that may *)
(* have been cut off are in doubt.                                         *)
LEMMA CrashRefines ==
    ASSUME Shape, Shape', RecordsFollow, StatusLaw, StatusLaw', CrashStep
    PROVE  Refines
<1>1. /\ file' = file /\ \A c \in Calls, s \in Steps : executor'[c][s].phase = "idle"
      /\ unknown' = unknown \union {s \in Steps : \E e \in Calls : CutOff(e, s)}
  BY DEF CrashStep
<1>2. DefinitionOf' = DefinitionOf
  BY <1>1 DEF DefinitionOf
<1>3. ASSUME NEW s \in Steps
      PROVE  StatusOf(s)' = IF StatusOf(s) = "passed" THEN "passed" ELSE "open"
  <2>1. StatusOf(s)' = IF Succeeded(file, s)' THEN "passed" ELSE "open"
    BY <1>1 DEF StatusLaw
  <2>2. Succeeded(file, s)' <=> Succeeded(file, s)
    BY <1>1 DEF Succeeded
  <2> QED BY <2>1, <2>2, PassedIs
<1>4. ASSUME NEW s \in Steps
      PROVE  (\E e \in Calls : CutOff(e, s)) <=>
                StatusOf(s) \in {"working", "done", "ended"} /\ Promise!Unsafe(s)
  <2>1. CASE \A d \in Calls : executor[d][s].phase = "idle"
    BY <2>1, IdleStatus DEF CutOff
  <2>2. ASSUME NEW e \in Calls, executor[e][s].phase # "idle"
        PROVE  (\E d \in Calls : CutOff(d, s)) <=>
                  StatusOf(s) \in {"working", "done", "ended"} /\ Promise!Unsafe(s)
    <3>1. /\ execution = e /\ execution # None /\ runs # None /\ Live(e)
          /\ s \in DOMAIN copy[runs].step
      BY <2>2, BusyIs
    <3>2. exec[e].obj = runs /\ Run(e) = copy[runs] /\ file \in Runs
      BY <3>1, LiveIs
    <3>3. file # None /\ file.def = copy[runs].def /\ s \in DOMAIN file.step
      <4>1. 0 \in Positions /\ Rec(0) = file
        BY LastIs DEF Rec
      <4> QED BY <3>1, <4>1, RecordsAre
    <3>4. ASSUME NEW d \in Calls, CutOff(d, s)
          PROVE  d = e
      BY <3>1, <3>4, BusyIs DEF CutOff
    <3>5. CutOff(e, s) <=>
             /\ Promise!Unsafe(s)
             /\ \/ executor[e][s].phase = "executing"
                \/ executor[e][s].phase = "closing" /\ RunsOn(file, s)
      BY <3>1, <3>2, <3>3 DEF CutOff, Mutates, Step, Promise!Unsafe, Promise!StepOf, RunsOn
    <3>6. StatusOf(s) \in {"working", "done", "ended"} <=>
             \/ executor[e][s].phase = "executing"
             \/ executor[e][s].phase = "closing" /\ RunsOn(file, s)
      <4>1. executor[e][s].phase \in {"marking", "waiting", "executing", "closing"}
        BY <2>2 DEF Shape, TypeOK, ExecutorRecords
      <4>2. RunsOn(file, s) => ~Succeeded(file, s)
        BY DEF RunsOn, Succeeded
      <4> QED BY <4>1, <4>2 DEF StatusLaw
    <3> QED BY <3>4, <3>5, <3>6
  <2> QED BY <2>1, <2>2
<1>5. Promise!Crash
  <2>1. {s \in Steps : \E e \in Calls : CutOff(e, s)} =
        {s \in Steps : StatusOf(s) \in {"working", "done", "ended"} /\ Promise!Unsafe(s)}
    BY <1>4
  <2> QED BY <1>1, <1>2, <1>3, <2>1 DEF Promise!Crash, DefinitionOf
<1> QED BY <1>5 DEF Refines, Promise!RunNext

(* What was interrupted is rewritten: nothing that succeeded is lost.      *)
LEMMA RewriteRefines ==
    ASSUME Shape, StatusLaw, StatusLaw', NEW c \in Calls, RewriteStep(c)
    PROVE  Refines
<1>1. /\ file \in Runs /\ file' = Loaded(file) /\ execution = None
      /\ executor' = executor /\ unknown' = unknown
  BY DEF RewriteStep
<1>2. DefinitionOf' = DefinitionOf
  BY <1>1, LoadedIs, NoneIsNoCall DEF DefinitionOf, Varies
<1>3. ASSUME NEW s \in Steps
      PROVE  StatusOf(s)' = StatusOf(s)
  <2>1. \A d \in Calls : executor[d][s].phase = "idle" /\ executor'[d][s].phase = "idle"
    BY <1>1, BusyIs
  <2>2. Succeeded(file, s)' <=> Succeeded(file, s)
    BY <1>1, LoadedIs, NoneIsNoCall DEF Succeeded, Varies
  <2> QED BY <2>1, <2>2 DEF StatusLaw
<1> QED BY <1>1, <1>2, <1>3, Stutters DEF Refines

(* Before a write nobody has a write that is done and waits: what the file *)
(* is going to say is the second record.                                   *)
ToWrite ==
    /\ Shape /\ CopyAgrees /\ WritersWait /\ RecordsFollow /\ WorkRecorded /\ UnknownKept
    /\ PromiseInv /\ StatusLaw

LEMMA WriteIs ==
    ASSUME ToWrite, WriteStep
    PROVE  /\ {0, 1} \subseteq Positions /\ Rec(0) = file /\ Rec(1) = file' /\ By(0) = None
           /\ runs # None /\ runs' = runs /\ copy[runs] \in Runs /\ file' \in Runs
           /\ UNCHANGED <<copy, execution, executor, unknown>>
           /\ file # None => file.def = file'.def
           /\ file'.def = copy[runs].def /\ DOMAIN file'.step = DOMAIN copy[runs].step
           /\ file # None => DOMAIN file.step = DOMAIN copy[runs].step
<1>1. /\ {0, 1} \subseteq Positions /\ Rec(0) = file /\ Rec(1) = file' /\ By(0) = None
      /\ runs' = runs /\ file' \in Runs /\ UNCHANGED <<copy, execution, executor, unknown>>
  BY DEF WriteStep, memory, Positions, Rec, By
<1>2. runs # None /\ copy[runs] \in Runs
  BY LastIs DEF ToWrite, WriteStep
<1>3. file'.def = copy[runs].def /\ (file # None => file.def = copy[runs].def)
  BY <1>1, <1>2, LastIs, NoneIsNoCall DEF ToWrite
<1>4. file # None => file \in Runs
  BY DEF ToWrite, Shape, TypeOK
<1> QED BY <1>1, <1>2, <1>3, <1>4, SameDefinition

(* The write of an executor that waits for it is the next one, or later;   *)
(* then the file says of its step what it said before.                     *)
LEMMA OwnWriteIs ==
    ASSUME ToWrite, WriteStep, NEW e \in Calls, NEW s \in Steps,
           executor[e][s].phase \in {"marking", "closing"}
    PROVE  \/ By(1) = Worker(e, s)
           \/ \E i \in Positions : By(i) = Worker(e, s) /\ 0 < i /\ 1 < i
<1>1. By(0) = None /\ Worker(e, s) # None
  BY WriteIs, WritersAre, NoneIsNoCall
<1>2. PICK i \in Positions : By(i) = Worker(e, s)
  BY DEF ToWrite, PromiseInv, OwnWriteQueued
<1>3. i \in Nat /\ i # 0
  BY <1>1, <1>2 DEF Positions
<1> QED BY <1>2, <1>3

(* A step whose executor does not wait for this write keeps its status.    *)
LEMMA WriteLeaves ==
    ASSUME ToWrite, ToWrite', WriteStep, file # None, NEW t \in Steps,
           \A d \in Calls : By(1) # Worker(d, t)
    PROVE  StatusOf(t)' = StatusOf(t)
<1>1. /\ {0, 1} \subseteq Positions /\ Rec(0) = file /\ Rec(1) = file'
      /\ runs # None /\ runs' = runs /\ copy[runs] \in Runs /\ file' \in Runs
      /\ UNCHANGED <<copy, execution, executor>>
      /\ DOMAIN file'.step = DOMAIN copy[runs].step /\ DOMAIN file.step = DOMAIN copy[runs].step
  BY WriteIs
<1>2. StatusLaw /\ StatusLaw'
  BY DEF ToWrite
<1>3. Succeeded(copy[runs], t)' <=> Succeeded(copy[runs], t)
  BY <1>1 DEF Succeeded
<1>4. CASE \A d \in Calls : executor[d][t].phase = "idle"
  <2>1. Succeeded(file, t) => Succeeded(file, t)'
    <3>1. 0 + 1 \in Positions /\ Rec(0 + 1) = file'
      BY <1>1
    <3>2. Follows(file, file')
      BY <1>1, <3>1 DEF ToWrite, RecordsFollow
    <3> QED BY <1>1, <3>2, NoneIsNoCall DEF Succeeded, Follows
  <2>2. Succeeded(file, t)' => Succeeded(file, t)
    <3>1. Succeeded(file, t)' => Succeeded(Rec(1), t)
      BY <1>1 DEF Succeeded
    <3>2. Succeeded(Rec(1), t) => Succeeded(copy[runs], t)
      BY <1>1 DEF ToWrite, PromiseInv, SuccessKept
    <3>3. Succeeded(copy[runs], t) => Succeeded(Rec(0), t)
      BY <1>1, <1>4 DEF ToWrite, PromiseInv, SuccessRecorded
    <3> QED BY <1>1, <3>1, <3>2, <3>3
  <2>3. \A d \in Calls : executor'[d][t].phase = "idle"
    BY <1>1, <1>4
  <2> QED BY <1>2, <1>4, <2>1, <2>2, <2>3 DEF StatusLaw
<1>5. ASSUME NEW e \in Calls, executor[e][t].phase \in {"waiting", "executing"}
      PROVE  StatusOf(t)' = StatusOf(t)
  BY <1>1, <1>2, <1>5 DEF StatusLaw
<1>6. ASSUME NEW e \in Calls, executor[e][t].phase = "marking"
      PROVE  StatusOf(t)' = StatusOf(t)
  <2>1. PICK i \in Positions : By(i) = Worker(e, t) /\ 0 < i /\ 1 < i
    BY <1>6, OwnWriteIs
  <2>2. ~RunsOn(Rec(0), t) /\ ~RunsOn(Rec(1), t)
    BY <1>1, <1>6, <2>1 DEF ToWrite, PromiseInv, MarkedByOwnWrite
  <2>3. ~RunsOn(file, t) /\ ~RunsOn(file, t)'
    BY <1>1, <2>2 DEF RunsOn
  <2> QED BY <1>1, <1>2, <1>6, <2>3 DEF StatusLaw
<1>7. ASSUME NEW e \in Calls, executor[e][t].phase = "closing"
      PROVE  StatusOf(t)' = StatusOf(t)
  <2>1. PICK i \in Positions : By(i) = Worker(e, t) /\ 0 < i /\ 1 < i
    BY <1>7, OwnWriteIs
  <2>2. OnRecord(Rec(0), t) /\ OnRecord(Rec(1), t)
    BY <1>1, <1>7, <2>1 DEF ToWrite, PromiseInv, ClosedByOwnWrite
  <2>3. /\ RunsOn(file, t) /\ RunsOn(file, t)'
        /\ ~Succeeded(file, t) /\ ~Succeeded(file, t)'
    BY <1>1, <2>2 DEF OnRecord, RunsOn, Succeeded
  <2>4. executor'[e][t].phase = "closing"
    BY <1>1, <1>7
  <2>5. /\ StatusOf(t) = IF Succeeded(copy[runs], t) THEN "done" ELSE "ended"
        /\ StatusOf(t)' = IF Succeeded(copy[runs], t)' THEN "done" ELSE "ended"
    BY <1>2, <1>7, <2>3, <2>4 DEF StatusLaw
  <2> QED BY <1>3, <2>5
<1>8. \A d \in Calls : executor[d][t].phase \in {"idle", "marking", "waiting", "executing", "closing"}
  BY DEF ToWrite, Shape, TypeOK, ExecutorRecords
<1> QED BY <1>4, <1>5, <1>6, <1>7, <1>8

(* The write that marks a step running is its beginning: what it needs has *)
(* passed, and there is room beside the steps under way.                   *)
LEMMA MarkBegins ==
    ASSUME ToWrite, ToWrite', WriteStep, file # None, NEW e \in Calls, NEW s \in Steps,
           By(1) = Worker(e, s), executor[e][s].phase = "marking",
           \A t \in Steps \ {s} : StatusOf(t)' = StatusOf(t)
    PROVE  Promise!Begin(s)
<1>1. /\ {0, 1} \subseteq Positions /\ Rec(0) = file /\ Rec(1) = file' /\ By(0) = None
      /\ runs # None /\ copy[runs] \in Runs /\ copy[runs].def = file.def
      /\ file'.def = file.def /\ UNCHANGED <<executor, unknown>>
  BY WriteIs
<1>2. /\ execution = e /\ s \in DOMAIN copy[runs].step
      /\ \A d \in Calls, t \in Steps : executor[d][t].phase # "idle" => d = e
  BY BusyIs DEF ToWrite
<1>3. StatusOf(s) = "open"
  <2>1. ~RunsOn(Rec(0), s)
    BY <1>1, 0 < 1 DEF ToWrite, PromiseInv, MarkedByOwnWrite
  <2> QED BY <1>1, <2>1 DEF ToWrite, StatusLaw
<1>4. StatusOf(s)' = "begun"
  <2>1. OnRecord(Rec(1), s)
    BY <1>1, 1 <= 1 DEF ToWrite, WorkRecorded
  <2>2. RunsOn(file, s)'
    BY <1>1, <2>1 DEF OnRecord, RunsOn
  <2> QED BY <1>1, <2>2 DEF ToWrite, StatusLaw
<1>5. Promise!Moves(s, "open", "begun") /\ unknown' = unknown
  <2>1. DefinitionOf' = DefinitionOf
    BY <1>1, NoneIsNoCall, WriteIs DEF DefinitionOf
  <2> QED BY <1>1, <1>3, <1>4, <2>1, MovesIs
<1>6. /\ copy[runs].def \in Definitions /\ DOMAIN copy[runs].step = 1 .. Len(copy[runs].def.steps)
      /\ DOMAIN copy[runs].step \subseteq Steps /\ Len(copy[runs].def.steps) \in Nat
      /\ copy[runs].def.maxConcurrency \in Nat
  BY <1>1, RunForm, WorkflowAssumption
<1>7. s \notin unknown
  <2>1. copy[runs].step[s] = "running"
    BY DEF ToWrite, CopyAgrees, ExecutorsAgree, Phase3
  <2> QED BY <1>1, <2>1 DEF ToWrite, UnknownKept
<1>8. ASSUME NEW d \in Needed(copy[runs], s)
      PROVE  d \in Steps /\ StatusOf(d) = "passed"
  <2>1. Succeeded(copy[runs], d) /\ (executor[e][d].phase = "closing" => Precedes(Worker(e, d), Worker(e, s)))
    BY DEF ToWrite, PromiseInv, NeedsPassed
  <2>2. d \in Steps
    BY <1>6, <2>1 DEF Succeeded
  <2>3. ~Precedes(Worker(e, d), Worker(e, s))
    <3>1. ASSUME NEW i \in Positions, NEW j \in Positions,
                 By(i) = Worker(e, d), By(j) = Worker(e, s), i < j
          PROVE  FALSE
      <4>1. j = 1
        BY <1>1, <3>1, WritersAre, NoneIsNoCall DEF ToWrite, WritersWait
      <4>2. i = 0
        BY <3>1, <4>1 DEF Positions
      <4> QED BY <1>1, <2>2, <3>1, <4>2, WritersAre, NoneIsNoCall
    <3> QED BY <3>1 DEF Precedes
  <2>4. \A c \in Calls : executor[c][d].phase # "closing"
    BY <1>2, <2>1, <2>2, <2>3
  <2>5. Succeeded(Rec(0), d)
    BY <1>1, <2>1, <2>2, <2>4 DEF ToWrite, PromiseInv, SuccessRecorded
  <2> QED BY <1>1, <2>2, <2>5, PassedIs DEF ToWrite
<1>9. Needed(copy[runs], s) = Promise!Needs(s)
  BY <1>1 DEF Needed, Sequential, Promise!Needs, Promise!StepOf
<1>10. Promise!UnderWay \subseteq Beside(e, s)
  <2> SUFFICES ASSUME NEW t \in Steps, StatusOf(t) \in {"begun", "working", "done", "ended"}
               PROVE  t \in Beside(e, s)
    BY DEF Promise!UnderWay
  <2>1. t # s
    BY <1>3
  <2>2. executor[e][t].phase # "idle"
    <3>1. executor[e][t].phase = "idle" => \A d \in Calls : executor[d][t].phase = "idle"
      BY <1>2
    <3> QED BY <3>1, IdleStatus DEF ToWrite
  <2>3. ASSUME executor[e][t].phase = "marking", Precedes(Worker(e, s), Worker(e, t))
        PROVE  FALSE
    <3>1. PICK i \in Positions, j \in Positions : By(i) = Worker(e, s) /\ By(j) = Worker(e, t) /\ i < j
      BY <2>3 DEF Precedes
    <3>2. j \in Nat /\ i \in Nat /\ 0 < j
      BY <3>1 DEF Positions
    <3>3. ~RunsOn(Rec(0), t)
      BY <1>1, <2>3, <3>1, <3>2 DEF ToWrite, PromiseInv, MarkedByOwnWrite
    <3> QED BY <1>1, <2>3, <3>3 DEF ToWrite, StatusLaw
  <2> QED BY <2>1, <2>2, <2>3 DEF Beside
<1>11. Cardinality(Promise!UnderWay) < copy[runs].def.maxConcurrency
  <2>1. /\ Cardinality(Promise!UnderWay) \in Nat /\ Cardinality(Beside(e, s)) \in Nat
        /\ Cardinality(Promise!UnderWay) <= Cardinality(Beside(e, s))
    BY <1>10, BesideIsFinite DEF ToWrite
  <2>2. Cardinality(Beside(e, s)) < copy[runs].def.maxConcurrency
    BY DEF ToWrite, PromiseInv, HasRoom
  <2> QED BY <1>6, <2>1, <2>2
<1>12. \A t \in Promise!UnderWay :
          copy[runs].def.steps[s].resources \intersect copy[runs].def.steps[t].resources = {}
  BY <1>10 DEF ToWrite, PromiseInv, HasRoom
<1>13. \A d \in Promise!Needs(s) : d \in Steps /\ StatusOf(d) = "passed"
  BY <1>8, <1>9
<1>14. s \in 1 .. Len(file.def.steps) /\ file.def # None
  BY <1>1, <1>2, <1>6, WorkflowAssumption
<1>15. Promise!Cardinality(Promise!UnderWay) = Cardinality(Promise!UnderWay)
  BY DEF Promise!Cardinality, Cardinality
<1> QED BY <1>1, <1>5, <1>7, <1>11, <1>12, <1>13, <1>14, <1>15 DEF Promise!Begin, Promise!StepOf

(* The write of the outcome records it.                                    *)
LEMMA CloseRecords ==
    ASSUME ToWrite, ToWrite', WriteStep, file # None, NEW e \in Calls, NEW s \in Steps,
           By(1) = Worker(e, s), executor[e][s].phase = "closing",
           \A t \in Steps \ {s} : StatusOf(t)' = StatusOf(t)
    PROVE  Promise!Record(s)
<1>1. /\ {0, 1} \subseteq Positions /\ Rec(0) = file /\ Rec(1) = file'
      /\ runs # None /\ runs' = runs /\ copy[runs] \in Runs /\ file' \in Runs
      /\ UNCHANGED <<copy, executor, unknown>> /\ file'.def = file.def
      /\ DOMAIN file'.step = DOMAIN copy[runs].step
  BY WriteIs
<1>2. OnRecord(Rec(0), s) /\ Rec(1).step[s] = copy[runs].step[s]
  BY <1>1, 0 < 1, ~(1 < 1) DEF ToWrite, PromiseInv, ClosedByOwnWrite
<1>3. RunsOn(file, s) /\ ~Succeeded(file, s)
  BY <1>1, <1>2 DEF OnRecord, RunsOn, Succeeded
<1>4. ~RunsOn(file, s)' /\ (Succeeded(file, s)' <=> Succeeded(copy[runs], s))
  <2>1. copy[runs].step[s] # "running"
    BY DEF ToWrite, CopyAgrees, ExecutorsAgree, TERMINAL_STEP_STATES
  <2> QED BY <1>1, <1>2, <2>1, NoneIsNoCall DEF RunsOn, Succeeded
<1>5. StatusOf(s) = IF Succeeded(copy[runs], s) THEN "done" ELSE "ended"
  BY <1>3 DEF ToWrite, StatusLaw
<1>6. StatusOf(s)' = IF Succeeded(file, s)' THEN "passed" ELSE "open"
  <2>1. executor'[e][s].phase = "closing"
    BY <1>1
  <2> QED BY <1>4, <2>1 DEF ToWrite, StatusLaw
<1>7. DefinitionOf' = DefinitionOf
  BY <1>1, NoneIsNoCall DEF DefinitionOf
<1>8. Promise!Moves(s, StatusOf(s), StatusOf(s)')
  BY <1>7, MovesIs
<1> QED BY <1>1, <1>4, <1>5, <1>6, <1>8 DEF Promise!Record

(* A write is the start of the run, the beginning of one step, the outcome *)
(* of one, or of neither.                                                  *)
LEMMA WriteRefines ==
    ASSUME ToWrite, ToWrite', WriteStep
    PROVE  Refines
<1>1. /\ {0, 1} \subseteq Positions /\ Rec(0) = file /\ Rec(1) = file' /\ By(0) = None
      /\ runs # None /\ file' \in Runs /\ UNCHANGED <<copy, execution, executor, unknown>>
      /\ file # None => file.def = file'.def
  BY WriteIs
<1>2. CASE file = None
  <2>1. \A s \in Steps, d \in Calls : executor[d][s].phase = "idle" /\ executor'[d][s].phase = "idle"
    <3>1. execution = None
      BY <1>2 DEF ToWrite, Shape, ExecutionShape
    <3> QED BY <1>1, <3>1, BusyIs DEF ToWrite
  <2>2. ASSUME NEW s \in Steps
        PROVE  StatusOf(s)' = StatusOf(s)
    <3>1. ~Succeeded(file, s)
      BY <1>2 DEF Succeeded
    <3>2. ~Succeeded(Rec(1), s)
      <4>1. Succeeded(Rec(1), s) => Succeeded(copy[runs], s)
        BY <1>1 DEF ToWrite, PromiseInv, SuccessKept
      <4>2. Succeeded(copy[runs], s) => Succeeded(Rec(0), s)
        BY <1>1, <2>1 DEF ToWrite, PromiseInv, SuccessRecorded
      <4> QED BY <1>1, <3>1, <4>1, <4>2
    <3>3. ~Succeeded(file, s)'
      BY <1>1, <3>2 DEF Succeeded
    <3> QED BY <2>1, <3>1, <3>3 DEF ToWrite, StatusLaw
  <2>3. file'.def \in Definitions /\ file' # None
    BY <1>1, RunForm
  <2>4. Promise!Start(file'.def)
    BY <1>1, <1>2, <2>2, <2>3 DEF Promise!Start
  <2> QED BY <2>3, <2>4 DEF Refines, Promise!RunNext
<1>3. CASE file # None
  <2>1. ASSUME NEW e \in Calls, NEW s \in Steps, By(1) = Worker(e, s)
        PROVE  Refines
    <3>1. \A t \in Steps \ {s} : StatusOf(t)' = StatusOf(t)
      BY <1>3, <2>1, WriteLeaves, WritersAre
    <3>2. executor[e][s].phase \in {"marking", "closing"}
      <4>1. Awaits(Worker(e, s))
        BY <1>1, <2>1, WritersAre, NoneIsNoCall DEF ToWrite, WritersWait
      <4> QED BY <4>1, AwaitsIs
    <3>3. CASE executor[e][s].phase = "marking"
      <4>1. Promise!Begin(s)
        BY <1>3, <2>1, <3>1, <3>3, MarkBegins
      <4> QED BY <4>1 DEF Refines, Promise!RunNext
    <3>4. CASE executor[e][s].phase = "closing"
      <4>1. Promise!Record(s)
        BY <1>3, <2>1, <3>1, <3>4, CloseRecords
      <4> QED BY <4>1 DEF Refines, Promise!RunNext
    <3> QED BY <3>2, <3>3, <3>4
  <2>2. CASE \A e \in Calls, s \in Steps : By(1) # Worker(e, s)
    <3>1. \A t \in Steps : StatusOf(t)' = StatusOf(t)
      BY <1>3, <2>2, WriteLeaves
    <3>2. DefinitionOf' = DefinitionOf
      BY <1>1, <1>3, NoneIsNoCall DEF DefinitionOf
    <3> QED BY <1>1, <3>1, <3>2, Stutters DEF Refines
  <2> QED BY <2>1, <2>2
<1> QED BY <1>2, <1>3

(* Every step of the manager is one of the run, or none.                   *)
LEMMA StepRefines ==
    ASSUME ~CallsOverlap, Agreed, Agreed', [Next]_vars
    PROVE  Refines
<1>1. Shape /\ Shape' /\ Effect
  BY NextIs DEF Agreed, WorkflowInv, Shape
<1>2. StatusLaw /\ StatusLaw'
  BY StatusFollows, StatusThen
<1>3. /\ CopyAgrees /\ WritersWait /\ RecordsFollow /\ WorkRecorded /\ UnknownKept
      /\ RecordsHeld /\ ClosedByOwnWrite /\ PromiseInv
  BY DEF Agreed, WorkflowInv, PromiseInv
<1>4. ASSUME NEW run, NEW w, Writing(run, w)
      PROVE  Refines
  BY <1>1, <1>2, <1>3, <1>4, WritingRefines
<1>5. ASSUME NEW e \in Calls, NEW S, NEW run, StartsSteps(e, S, run)
      PROVE  Refines
  BY <1>1, <1>2, <1>3, <1>5, StartsRefine
<1>6. CASE Keeping
  BY <1>1, <1>2, <1>3, <1>6, KeepingRefines
<1>7. CASE WriteStep
  <2>1. ToWrite /\ ToWrite'
    BY <1>1, <1>2 DEF ToWrite, Agreed, WorkflowInv
  <2> QED BY <1>7, <2>1, WriteRefines
<1>8. CASE CrashStep
  BY <1>1, <1>2, <1>3, <1>8, CrashRefines
<1>9. ASSUME NEW c \in Calls, RewriteStep(c)
      PROVE  Refines
  BY <1>1, <1>2, <1>9, RewriteRefines
<1> QED BY <1>1, <1>4, <1>5, <1>6, <1>7, <1>8, <1>9, EffectIs

LEMMA InitRefines == Init => Promise!RunInit
<1> SUFFICES ASSUME Init PROVE Promise!RunInit
  OBVIOUS
<1>1. ASSUME NEW s \in Steps
      PROVE  StatusOf(s) = "open"
  <2>1. ~Executing(s)
    BY DEF Init, Idle, Executing
  <2>2. ~Recorded(s, {"succeeded"}) /\ ~Recorded(s, {"running"})
    BY DEF Init, Recorded
  <2> QED BY <2>1, <2>2 DEF StatusOf
<1>2. file = None /\ unknown = {}
  BY DEF Init
<1> QED BY <1>1, <1>2 DEF Promise!RunInit

(* What the run file says of a step and what its executor does are a       *)
(* behaviour of WorkflowRun: whatever queues, loops, calls and crashes do, *)
(* no step begins before what it needs is on record, beside more steps     *)
(* than allowed or one that shares a resource, while in doubt, or again    *)
(* once it passed (executeGraph, executeOne, persistRun, loadRun, resume). *)
THEOREM Refinement ==
    ASSUME ~CallsOverlap
    PROVE  Spec => ImplementsWorkflowRun
<1>1. Init => Promise!RunInit
  BY InitRefines
<1>2. Agreed /\ [Next]_vars /\ Agreed' => [Promise!RunNext]_(Promise!rvars)
  BY StepRefines DEF Refines
<1>3. Spec => []Agreed
  <2>1. TypeOK /\ WorkflowInv /\ PromiseInv => Agreed
    BY DEF Agreed
  <2> QED BY <2>1, Typing, Invariance, PromiseInvariance, PTL
<1> QED BY <1>1, <1>2, <1>3, PTL DEF Spec, ImplementsWorkflowRun, Promise!RunSpec
=============================================================================
