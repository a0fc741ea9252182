----------------------------- MODULE DurableTask -----------------------------
(***************************************************************************)
(* What the durable runtime promises of an accepted task, with none of its *)
(* machinery.  A task is accepted, its command begins at most once, and it *)
(* settles at most once.  A settled status says only what is known to be   *)
(* true of the command: succeeded and failed commands have ended, the      *)
(* command of a canceled task is not running, and an interrupted task says *)
(* nothing about its command, which may even be running still.             *)
(***************************************************************************)
CONSTANT Tasks

VARIABLES
    status,   \* what a client reads: absent, accepted or a settled status
    effect    \* the command: none, live, or the way it ended

tvars == <<status, effect>>

Settled == {"succeeded", "failed", "canceled", "interrupted"}

TaskInit ==
    /\ status = [t \in Tasks |-> "absent"]
    /\ effect = [t \in Tasks |-> "none"]

Settle(t, s) ==
    /\ status[t] = "accepted"
    /\ status' = [status EXCEPT ![t] = s]
    /\ UNCHANGED effect

Accept(t) ==
    /\ status[t] = "absent"
    /\ status' = [status EXCEPT ![t] = "accepted"]
    /\ UNCHANGED effect

\* The command begins, or fails to start at all.
Begin(t) ==
    /\ status[t] = "accepted"
    /\ effect[t] = "none"
    /\ effect' = [effect EXCEPT ![t] = "live"]
    /\ UNCHANGED status

FailToStart(t) ==
    /\ status[t] = "accepted"
    /\ effect[t] = "none"
    /\ effect' = [effect EXCEPT ![t] = "nonzero"]
    /\ UNCHANGED status

\* A running command ends by itself or is killed, whatever the status says.
End(t) ==
    /\ effect[t] = "live"
    /\ \E e \in {"zero", "nonzero", "killed"} :
           effect' = [effect EXCEPT ![t] = e]
    /\ UNCHANGED status

Succeed(t) == effect[t] = "zero" /\ Settle(t, "succeeded")

Fail(t) == effect[t] \in {"zero", "nonzero", "killed"} /\ Settle(t, "failed")

ConfirmCanceled(t) == effect[t] # "live" /\ Settle(t, "canceled")

Interrupt(t) == Settle(t, "interrupted")

TaskNext ==
    \E t \in Tasks :
        \/ Accept(t) \/ Begin(t) \/ FailToStart(t) \/ End(t)
        \/ Succeed(t) \/ Fail(t) \/ ConfirmCanceled(t) \/ Interrupt(t)

TaskSpec == TaskInit /\ [][TaskNext]_tvars
=============================================================================
