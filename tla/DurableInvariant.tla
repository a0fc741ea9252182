-------------------------- MODULE DurableInvariant --------------------------
(***************************************************************************)
(* The inductive invariant of DurableExecution.  It says, attempt by       *)
(* attempt, how far the three places that hold an attempt's state may be   *)
(* apart: the store, the spool directory, and the worker with its command. *)
(***************************************************************************)
EXTENDS DurableExecution

(* Tasks and attempts name each other, so a task has at most one attempt.  *)
Linked ==
    /\ \A t \in Tasks : taskAttempt[t] # NoAttempt =>
           attemptTask[taskAttempt[t]] = t
    /\ \A a \in Attempts : attemptTask[a] # NoTask =>
           taskAttempt[attemptTask[a]] = a

(* A key has at most one task, and a task an attempt unless it was never   *)
(* dispatched.                                                             *)
Accepted ==
    /\ \A t, u \in Tasks : taskKey[t] \in Keys /\ taskKey[t] = taskKey[u] => t = u
    /\ \A t \in Tasks :
           /\ taskState[t] = "absent" <=> taskKey[t] = NoKey
           /\ taskState[t] \in {"absent", "queued"} => taskAttempt[t] = NoAttempt
           /\ taskState[t] \in Active \cup {"succeeded", "failed", "interrupted"}
                  => taskAttempt[t] # NoAttempt

(* An attempt without a worker has no files and no command.                *)
Untouched(a) ==
    /\ worker[a] = "none" => /\ handshake[a] = "none" /\ manifest[a] = "none"
                             /\ command[a] = "none" /\ a \notin identity
                             /\ a \notin attached
                             /\ a \notin timedOut \cup cancelConfirmed
    /\ attemptTask[a] = NoTask => /\ worker[a] = "none" /\ a \notin cancelRequest
                                  /\ a \notin todo

(* What the worker has done bounds what the pipes, its identity, its       *)
(* command and its manifest can be.                                        *)
WorkerOrder(a) ==
    /\ worker[a] \in {"authorized", "identified", "supervising"}
           => handshake[a] = "GO"
    /\ worker[a] \in {"identified", "supervising"} => a \in identity
    /\ worker[a] = "supervising" => command[a] # "none"
    /\ a \in identity => handshake[a] = "GO"
                         /\ worker[a] \notin {"boot", "ready", "authorized"}
    /\ command[a] # "none" => a \in identity
                              /\ worker[a] \in {"supervising", "done", "exited"}
    /\ a \in timedOut \cup cancelConfirmed => command[a] # "none"
    /\ a \in cancelConfirmed => a \in cancelRequest /\ command[a] # "live"
    /\ manifest[a] # "none" => worker[a] \in {"done", "exited"}
                               /\ handshake[a] \in {"GO", "CANCEL"}
                               /\ command[a] # "live"

(* What the store must have committed by then.                             *)
StoreFollows(a) ==
    /\ worker[a] \in Supervised => StateOf(a) \in Active
    /\ handshake[a] = "GO" => StateOf(a) # "starting"
    /\ handshake[a] = "CANCEL" => StateOf(a) \in {"canceling"} \cup Terminal
    /\ a \in cancelRequest => StateOf(a) \in {"canceling"} \cup Terminal

(* A manifest tells what the command did, and a settled task is settled by *)
(* the manifest of its attempt or by the exit of its worker.               *)
Evident(a) ==
    /\ manifest[a] = "zero" =>
           /\ command[a] = "zero" /\ a \notin timedOut \cup cancelConfirmed
           /\ StateOf(a) \in {"running", "canceling", "succeeded"}
    /\ manifest[a] = "nonzero" =>
           /\ command[a] # "none" /\ a \notin cancelConfirmed
           /\ StateOf(a) \in {"running", "canceling", "failed"}
    /\ manifest[a] = "canceled" =>
           /\ a \in cancelConfirmed \/ command[a] = "none"
           /\ StateOf(a) \in {"canceling", "canceled"}
    /\ StateOf(a) = "succeeded" => manifest[a] = "zero"
    /\ StateOf(a) = "failed" => manifest[a] = "nonzero"
    /\ StateOf(a) = "canceled" => manifest[a] = "canceled"
    /\ StateOf(a) = "interrupted" => manifest[a] = "none" /\ worker[a] = "exited"

(* What a handler that waits for its next step knows of its attempt.       *)
HandlerKnows ==
    /\ phase # "idle" => daemon = "up"
    /\ phase \in {"launch", "go", "cancel", "inspect", "recheck"} =>
           /\ target \in Attempts
           /\ attemptTask[target] # NoTask
    /\ phase = "launch" => worker[target] = "none" /\ StateOf(target) = "starting"
    /\ phase = "go" => /\ handshake[target] = "READY" /\ worker[target] # "none"
                       /\ StateOf(target) = "running"
    /\ phase = "cancel" => StateOf(target) = "canceling"
    /\ phase = "recheck" => worker[target] = "exited"

AttemptInv(a) == Untouched(a) /\ WorkerOrder(a) /\ StoreFollows(a) /\ Evident(a)

IInv ==
    /\ Linked
    /\ Accepted
    /\ \A a \in Attempts : AttemptInv(a)
    /\ HandlerKnows
=============================================================================
