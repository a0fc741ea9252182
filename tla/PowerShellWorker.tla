-------------------------- MODULE PowerShellWorker --------------------------
(***************************************************************************)
(* The pool of persistent shells and the commands ProcessManager.run gives *)
(* to them: each worker serves its queue one command at a time, writes a   *)
(* command to its shell and waits for the answer, the end of the shell or  *)
(* the timeout.  A command whose worker failed before it was handed over   *)
(* runs once more in a shell of its own.                                   *)
(*                                                                         *)
(* The shells run beside the event loop.  Their notices come in an order   *)
(* the operating system keeps: the callback of a write that was taken      *)
(* before the answer to it and before the close of the shell, and an       *)
(* answer before the close.  The callback of a write that failed may come  *)
(* at any time.  No command prints the private prefix of an answer.        *)
(***************************************************************************)
EXTENDS Naturals, Sequences, FiniteSets

CONSTANTS
    MaxRuns,    \* bound: the commands
    MAX_WORKERS_PER_EXECUTABLE,
    None

(* Every command brings at most one worker and one shell into being.       *)
Runs == 1 .. MaxRuns
Workers == 1 .. MaxRuns
Shells == 1 .. MaxRuns

ASSUME WorkerAssumption ==
    /\ MaxRuns \in Nat /\ MAX_WORKERS_PER_EXECUTABLE \in Nat \ {0}
    /\ None \notin Nat

Settled == {"answer", "timeout", "unknown", "stopped", "oneshot"}

VARIABLES
    run,         \* where the caller of each command is
    at,          \* the worker it was given to
    on,          \* the shell it was written to
    write,       \* its write: none, writing, taken, called, failed
    work,        \* what the shell made of it: none, inbox, running, finished, read
    ran,         \* how often it began to run
    dispatched,  \* the flag of its pending request
    pool,        \* the workers of the cache
    queue,       \* of each worker: its commands that have not settled
    pending,     \* of each worker: the command that waits for the shell
    child,       \* of each worker: its shell
    stopped,     \* of each worker
    shell        \* none, alive, dead, exited (exitCode is set), closed

command == <<at, on, write, work, ran, dispatched>>
workers == <<pool, queue, pending, child, stopped>>
vars == <<run, command, workers, shell>>

TypeOK ==
    /\ run \in [Runs -> {"new", "queued", "executing", "not_started"} \union Settled]
    /\ at \in [Runs -> Workers \union {None}]
    /\ on \in [Runs -> Shells \union {None}]
    /\ write \in [Runs -> {"none", "writing", "taken", "called", "failed"}]
    /\ work \in [Runs -> {"none", "inbox", "running", "finished", "read"}]
    /\ ran \in [Runs -> Nat]
    /\ dispatched \in [Runs -> BOOLEAN]
    /\ pool \subseteq Workers
    /\ queue \in [Workers -> Seq(Runs)]
    /\ pending \in [Workers -> Runs \union {None}]
    /\ child \in [Workers -> Shells \union {None}]
    /\ stopped \in [Workers -> BOOLEAN]
    /\ shell \in [Shells -> {"none", "alive", "dead", "exited", "closed"}]

Init ==
    /\ run = [q \in Runs |-> "new"]
    /\ at = [q \in Runs |-> None]
    /\ on = [q \in Runs |-> None]
    /\ write = [q \in Runs |-> "none"]
    /\ work = [q \in Runs |-> "none"]
    /\ ran = [q \in Runs |-> 0]
    /\ dispatched = [q \in Runs |-> FALSE]
    /\ pool = {}
    /\ queue = [w \in Workers |-> <<>>]
    /\ pending = [w \in Workers |-> None]
    /\ child = [w \in Workers |-> None]
    /\ stopped = [w \in Workers |-> FALSE]
    /\ shell = [s \in Shells |-> "none"]

-----------------------------------------------------------------------------
(* The pool: a worker without load, else a new one while there is room,    *)
(* else one with the least load.                                           *)
Load(w) == Len(queue[w])
New(w) == w \notin pool /\ ~stopped[w]

Chosen(w) ==
    \/ w \in pool /\ Load(w) = 0
    \/ /\ \A v \in pool : Load(v) # 0
       /\ IF Cardinality(pool) < MAX_WORKERS_PER_EXECUTABLE
          THEN New(w) /\ \A v \in Workers : New(v) => w <= v
          ELSE w \in pool /\ \A v \in pool : Load(w) <= Load(v)

(* Commands are numbered as they come.                                     *)
Run(q) ==
    /\ run[q] = "new" /\ \A p \in Runs : p < q => run[p] # "new"
    /\ \E w \in Workers :
          /\ Chosen(w)
          /\ pool' = pool \union {w}
          /\ queue' = [queue EXCEPT ![w] = Append(@, q)]
          /\ at' = [at EXCEPT ![q] = w]
    /\ run' = [run EXCEPT ![q] = "queued"]
    /\ UNCHANGED <<on, write, work, ran, dispatched, pending, child, stopped, shell>>

(* The command of worker w that comes first is settled: it leaves.         *)
Settle(w, outcome) ==
    /\ run' = [run EXCEPT ![Head(queue[w])] = outcome]
    /\ queue' = [queue EXCEPT ![w] = Tail(@)]

(* ensureChild: a shell whose exit is known is replaced.                   *)
ensureChild(w, s) ==
    \/ /\ child[w] = s /\ shell[s] \in {"alive", "dead"}
       /\ UNCHANGED <<child, shell>>
    \/ /\ child[w] # None => shell[child[w]] \in {"exited", "closed"}
       /\ shell[s] = "none" /\ \A t \in Shells : shell[t] = "none" => s <= t
       /\ child' = [child EXCEPT ![w] = s]
       /\ shell' = [shell EXCEPT ![s] = "alive"]

(* The turn of the next command: it is written to the shell.               *)
Waiting(w) == queue[w] # <<>> /\ run[Head(queue[w])] = "queued"

Execute(w) ==
    LET q == Head(queue[w]) IN
    /\ Waiting(w) /\ ~stopped[w]
    /\ \E s \in Shells :
          /\ ensureChild(w, s)
          /\ on' = [on EXCEPT ![q] = s]
    /\ run' = [run EXCEPT ![q] = "executing"]
    /\ write' = [write EXCEPT ![q] = "writing"]
    /\ pending' = [pending EXCEPT ![w] = q]
    /\ UNCHANGED <<at, work, ran, dispatched, pool, queue, stopped>>

TurnStopped(w) ==
    /\ Waiting(w) /\ stopped[w]
    /\ Settle(w, "stopped")
    /\ UNCHANGED <<command, pool, pending, child, stopped, shell>>

-----------------------------------------------------------------------------
(* Events of the loop.  No turn is due when an event comes.                *)
Event == \A w \in Workers : ~Waiting(w)

KeepShellMutant(w) ==
    /\ Event /\ pending[w] # None
    /\ pending' = [pending EXCEPT ![w] = None]
    /\ Settle(w, "timeout")
    /\ UNCHANGED <<command, pool, child, stopped, shell>>

(* The shell is given up and killed, which takes its time.                 *)
Timeout(w) ==
    /\ Event /\ pending[w] # None
    /\ pending' = [pending EXCEPT ![w] = None]
    /\ Settle(w, "timeout")
    /\ child' = [child EXCEPT ![w] = None]
    /\ UNCHANGED <<command, pool, stopped, shell>>

(* The callback of a write that was taken.                                 *)
Written(q) ==
    /\ Event /\ write[q] = "taken"
    /\ write' = [write EXCEPT ![q] = "called"]
    /\ dispatched' = IF pending[at[q]] = q THEN [dispatched EXCEPT ![q] = TRUE]
                     ELSE dispatched
    /\ UNCHANGED <<run, at, on, work, ran, workers, shell>>

ForgetMutant(q) ==
    /\ Event /\ write[q] = "writing" /\ shell[on[q]] # "alive"
    /\ write' = [write EXCEPT ![q] = "failed"]
    /\ pending' = [pending EXCEPT ![at[q]] = IF @ = q THEN None ELSE @]
    /\ child' = [child EXCEPT ![at[q]] = None]
    /\ UNCHANGED <<run, at, on, work, ran, dispatched, pool, queue, stopped, shell>>

(* The callback of a write that failed: it gives up the shell the worker   *)
(* has by now, which may be a later one.                                   *)
WriteFailed(q) ==
    LET w == at[q] IN
    /\ Event /\ write[q] = "writing" /\ shell[on[q]] # "alive"
    /\ write' = [write EXCEPT ![q] = "failed"]
    /\ IF pending[w] = q
       THEN pending' = [pending EXCEPT ![w] = None] /\ Settle(w, "not_started")
       ELSE UNCHANGED <<pending, queue, run>>
    /\ child' = [child EXCEPT ![w] = None]
    /\ UNCHANGED <<at, on, work, ran, dispatched, pool, stopped, shell>>

(* An answer counts if it comes from the shell the worker has, for the     *)
(* request that is pending.                                                *)
Answer(q) ==
    LET w == at[q] IN
    /\ Event /\ work[q] = "finished" /\ write[q] # "taken" /\ shell[on[q]] # "closed"
    /\ work' = [work EXCEPT ![q] = "read"]
    /\ IF child[w] = on[q] /\ pending[w] = q
       THEN pending' = [pending EXCEPT ![w] = None] /\ Settle(w, "answer")
       ELSE UNCHANGED <<pending, queue, run>>
    /\ UNCHANGED <<at, on, write, ran, dispatched, pool, child, stopped, shell>>

ReplayMutant(q) == "not_started"
NeverStartedMutant(q) == "unknown"
failPending(q) == IF dispatched[q] THEN "unknown" ELSE "not_started"

Exit(s) ==
    /\ Event /\ shell[s] = "dead"
    /\ shell' = [shell EXCEPT ![s] = "exited"]
    /\ UNCHANGED <<run, command, workers>>

(* The close of a shell that was given up does not count.                  *)
Close(s) ==
    /\ Event /\ shell[s] = "exited"
    /\ \A q \in Runs : on[q] = s => write[q] # "taken" /\ work[q] # "finished"
    /\ shell' = [shell EXCEPT ![s] = "closed"]
    /\ \/ /\ \A w \in Workers : child[w] # s
          /\ UNCHANGED <<run, queue, pending, child>>
       \/ \E w \in Workers :
             /\ child[w] = s
             /\ child' = [child EXCEPT ![w] = None]
             /\ pending' = [pending EXCEPT ![w] = None]
             /\ IF pending[w] # None THEN Settle(w, failPending(pending[w]))
                ELSE UNCHANGED <<run, queue>>
    /\ UNCHANGED <<command, pool, stopped>>

(* The cache is emptied; the workers stop and reject what is pending.      *)
shutdownPowerShellWorkers ==
    /\ Event /\ pool # {}
    /\ pool' = {}
    /\ stopped' = [w \in Workers |-> stopped[w] \/ w \in pool]
    /\ child' = [w \in Workers |-> IF w \in pool THEN None ELSE child[w]]
    /\ pending' = [w \in Workers |-> IF w \in pool THEN None ELSE pending[w]]
    /\ queue' = [w \in Workers |->
            IF w \in pool /\ pending[w] # None THEN Tail(queue[w]) ELSE queue[w]]
    /\ run' = [q \in Runs |->
            IF \E w \in pool : pending[w] = q THEN "stopped" ELSE run[q]]
    /\ UNCHANGED <<command, shell>>

(* ProcessManager.run: only a command that was not handed over runs again. *)
OneShot(q) ==
    /\ run[q] = "not_started"
    /\ run' = [run EXCEPT ![q] = "oneshot"]
    /\ ran' = [ran EXCEPT ![q] = @ + 1]
    /\ UNCHANGED <<at, on, write, work, dispatched, workers, shell>>

-----------------------------------------------------------------------------
(* The shells.  A line is taken whole, and read when the shell is free.    *)
Busy(s) == \E q \in Runs : on[q] = s /\ work[q] = "running"

Takes(q) ==
    /\ write[q] = "writing" /\ shell[on[q]] = "alive"
    /\ write' = [write EXCEPT ![q] = "taken"]
    /\ work' = [work EXCEPT ![q] = "inbox"]
    /\ UNCHANGED <<run, at, on, ran, dispatched, workers, shell>>

ReadLine(q) ==
    /\ work[q] = "inbox" /\ shell[on[q]] = "alive" /\ ~Busy(on[q])
    /\ work' = [work EXCEPT ![q] = "running"]
    /\ ran' = [ran EXCEPT ![q] = @ + 1]
    /\ UNCHANGED <<run, at, on, write, dispatched, workers, shell>>

WriteLine(q) ==
    /\ work[q] = "running" /\ shell[on[q]] = "alive"
    /\ work' = [work EXCEPT ![q] = "finished"]
    /\ UNCHANGED <<run, at, on, write, ran, dispatched, workers, shell>>

(* A shell ends: killed, at the end of its input, by its command, or       *)
(* because it could not be started.                                        *)
Die(s) ==
    /\ shell[s] = "alive"
    /\ shell' = [shell EXCEPT ![s] = "dead"]
    /\ UNCHANGED <<run, command, workers>>

Next ==
    \/ \E q \in Runs :
          \/ Run(q) \/ Written(q) \/ WriteFailed(q) \/ Answer(q) \/ OneShot(q)
          \/ Takes(q) \/ ReadLine(q) \/ WriteLine(q)
    \/ \E w \in Workers : Execute(w) \/ TurnStopped(w) \/ Timeout(w)
    \/ \E s \in Shells : Exit(s) \/ Close(s) \/ Die(s)
    \/ shutdownPowerShellWorkers

(* Microtasks run and timers fire; nothing is assumed of the shells.       *)
Fairness ==
    /\ \A w \in Workers :
          WF_vars(Execute(w)) /\ WF_vars(TurnStopped(w)) /\ WF_vars(Timeout(w))
    /\ \A q \in Runs : WF_vars(OneShot(q))

Spec == Init /\ [][Next]_vars /\ Fairness

-----------------------------------------------------------------------------
(* No command runs twice: whatever dies, is killed or times out at which   *)
(* moment, the fallback of ProcessManager.run never repeats what a shell   *)
(* began or may still begin (failPending, the callback of the write).      *)
NeverReplayed == \A q \in Runs : ran[q] <= 1

(* The caller hears the truth: an answer is one the shell gave, an unknown *)
(* outcome belongs to a command that was handed over, and one that fell    *)
(* back never reached a shell and never will (PowerShellWorkerExecutionError). *)
OutcomeIsTrue ==
    \A q \in Runs :
        /\ run[q] = "answer" => work[q] = "read"
        /\ run[q] = "unknown" => write[q] = "called"
        /\ run[q] \in {"not_started", "oneshot"} =>
              work[q] = "none" /\ (write[q] = "writing" => shell[on[q]] # "alive")

(* No command waits behind one that its caller was told about: the shell a *)
(* worker has is at work only for the request that is pending (resetChild).*)
NobodyWaitsBehind ==
    \A w \in Workers : child[w] # None =>
        \A q \in Runs : on[q] = child[w] /\ pending[w] # q =>
            work[q] \in {"none", "read"} /\ write[q] # "writing"

(* Every command settles, also when shells hang and the pool is shut down: *)
(* a failure never holds up the queue behind it (run, execute, stop).      *)
EveryRunReturns == \A q \in Runs : run[q] = "queued" ~> run[q] \in Settled
=============================================================================
