-------------------------- MODULE MCWorkflowManager --------------------------
(* WorkflowManager and its invariant on two short workflows: a sequence of *)
(* a tool and a command, and a graph of two independent branches and a     *)
(* step that depends on one of them.                                       *)
EXTENDS WorkflowInvariant

StepOf(kind, safe, deps, resources) ==
    [kind |-> kind, safe |-> safe, deps |-> deps, resources |-> resources]

Sequence ==
    [mode |-> "sequential", maxConcurrency |-> 1,
     steps |-> <<StepOf("tool", FALSE, {}, {}), StepOf("command", TRUE, {}, {"a"})>>]

Graph ==
    [mode |-> "graph", maxConcurrency |-> 2,
     steps |-> <<StepOf("command", FALSE, {}, {"a"}), StepOf("wait", FALSE, {}, {}),
                 StepOf("tool", FALSE, {1}, {})>>]

TwoDefinitions == {Sequence, Graph}
OneDefinition == {Sequence}

(* A bound: the last call on a graph is a resume or a cancel.  All last    *)
(* calls on the sequence are there.                                        *)
LastCallBound ==
    file # None /\ file.def = Graph /\ call[MaxCalls].pc # "idle"
    => call[MaxCalls].op \in {"resume", "cancel"}
=============================================================================
