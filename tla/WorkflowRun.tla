----------------------------- MODULE WorkflowRun -----------------------------
(***************************************************************************)
(* What a workflow run promises, without files, queues, calls and loops.   *)
(* A step begins on record once all it needs has passed, while fewer than  *)
(* maxConcurrency steps are under way and none of them shares a resource   *)
(* with it.  It works at most once for each time it begins, and what passed*)
(* never begins again.  A mutation that was cut off is in doubt and does   *)
(* not begin until a caller confirms it.  A crash costs what is not on     *)
(* record, and puts the mutations it may have cut off in doubt.            *)
(***************************************************************************)
EXTENDS Integers, FiniteSets, Sequences

CONSTANTS Definitions, Steps, None

VARIABLES
    definition,  \* of the run, None before the first start
    status,      \* of each step
    doubtful     \* steps whose mutation was cut off, not confirmed since

rvars == <<definition, status, doubtful>>

UnderWay == {s \in Steps : status[s] \in {"begun", "working", "done", "ended"}}
StepOf(s) == definition.steps[s]
Needs(s) == IF definition.mode = "sequential" THEN 1 .. s - 1 ELSE StepOf(s).deps
Unsafe(s) == StepOf(s).kind \in {"command", "tool"} /\ ~StepOf(s).safe

Moves(s, from, to) ==
    /\ status[s] = from
    /\ status' = [status EXCEPT ![s] = to]
    /\ UNCHANGED definition

RunInit ==
    /\ definition = None
    /\ status = [s \in Steps |-> "open"]
    /\ doubtful = {}

Start(d) ==
    /\ definition = None
    /\ definition' = d
    /\ UNCHANGED <<status, doubtful>>

Begin(s) ==
    /\ definition # None /\ s \in 1 .. Len(definition.steps)
    /\ s \notin doubtful
    /\ \A d \in Needs(s) : status[d] = "passed"
    /\ Cardinality(UnderWay) < definition.maxConcurrency
    /\ \A t \in UnderWay : StepOf(s).resources \intersect StepOf(t).resources = {}
    /\ Moves(s, "open", "begun") /\ UNCHANGED doubtful

Work(s) == Moves(s, "begun", "working") /\ UNCHANGED doubtful

(* A step succeeds, or ends without success or before it worked; of a tool *)
(* that missed its deadline nobody knows whether it is still at work.      *)
Succeed(s) == Moves(s, "working", "done") /\ UNCHANGED doubtful
End(s) == (Moves(s, "working", "ended") \/ Moves(s, "begun", "ended")) /\ UNCHANGED doubtful
GiveUp(s) ==
    /\ Moves(s, "working", "ended")
    /\ Unsafe(s) /\ doubtful' = doubtful \union {s}

(* The outcome is on record.                                               *)
Record(s) == (Moves(s, "done", "passed") \/ Moves(s, "ended", "open")) /\ UNCHANGED doubtful

Confirm == UnderWay = {} /\ doubtful' = {} /\ UNCHANGED <<definition, status>>

Crash ==
    /\ status' = [s \in Steps |-> IF status[s] = "passed" THEN "passed" ELSE "open"]
    /\ doubtful' = doubtful \union
          {s \in Steps : status[s] \in {"working", "done", "ended"} /\ Unsafe(s)}
    /\ UNCHANGED definition

RunNext ==
    \/ \E d \in Definitions : Start(d)
    \/ \E s \in Steps :
          Begin(s) \/ Work(s) \/ Succeed(s) \/ End(s) \/ GiveUp(s) \/ Record(s)
    \/ Confirm \/ Crash

RunSpec == RunInit /\ [][RunNext]_rvars
=============================================================================
