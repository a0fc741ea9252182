-------------------------- MODULE MCDurableLiveness --------------------------
(***************************************************************************)
(* DurableExecution for liveness, where symmetry cannot be used: the two   *)
(* submissions, tasks and attempts are named in the order of their         *)
(* creation instead, which keeps one behaviour of each class that differs  *)
(* in names only.                                                          *)
(***************************************************************************)
EXTENDS DurableExecution

CONSTANTS k1, k2, t1, t2, a1, a2

NamedInOrder ==
    /\ taskKey[t1] # k2 /\ taskKey[t2] # k1
    /\ taskKey[t2] = k2 => taskKey[t1] = k1
    /\ attemptTask[a2] # NoTask => attemptTask[a1] # NoTask

OrderedSpec == Init /\ [][Next /\ NamedInOrder']_vars /\ Fairness
=============================================================================
