------------------------- MODULE ResilientTransport -------------------------
(***************************************************************************)
(* ResilientTransportAdapter around an adapter that runs a tunnel process: *)
(* the quick tunnel of cloudflared (connected when the process prints its  *)
(* URL; ngrok without a domain does the same) or the named one (connected  *)
(* after half a second).  The user connects and disconnects at any moment. *)
(*                                                                         *)
(* Each start of the inner adapter spawns one process.  The generation is  *)
(* abstracted to whether a start under way is of the current one; a timer  *)
(* always is, since whatever changes the generation clears it.  A process  *)
(* may die at any moment, so being killed is not a step of its own.        *)
(***************************************************************************)
EXTENDS Naturals

CONSTANTS
    MaxProcesses,   \* bound: the processes
    MaxStops,       \* bound: stops that wait for taskkill at the same time
    None

Processes == 1 .. MaxProcesses

ASSUME TransportAssumption ==
    MaxProcesses \in Nat /\ MaxStops \in Nat /\ None \notin Nat

VARIABLES
    mode,             \* of the inner adapter: quick or named
    asked,            \* the last call of the user: start, stop
    desiredRunning, retryTimer, connectPromise,
    snapshot,         \* what the user is shown
    inner,            \* the snapshot of the inner adapter
    child,            \* its process
    attempt,          \* the start of each process: none, current, stale, over,
                      \* lost (its timeout was stale, and heard by nobody)
    process,          \* none, alive, broken (not spawned), dead, gone (events told)
    stopping          \* the stops that wait for taskkill

user == <<mode, asked, desiredRunning>>
shown == <<retryTimer, snapshot>>
tries == <<connectPromise, attempt>>
vars == <<user, shown, tries, inner, child, process, stopping>>

(* An error that shouldRetry refuses is permanent.                         *)
States == {"disconnected", "connecting", "connected", "error", "permanent"}

TypeOK ==
    /\ mode \in {"quick", "named"}
    /\ asked \in {"start", "stop"}
    /\ desiredRunning \in BOOLEAN
    /\ retryTimer \in {"off", "armed"}
    /\ connectPromise \in Processes \union {None}
    /\ snapshot \in States /\ inner \in States
    /\ child \in Processes \union {None}
    /\ attempt \in [Processes -> {"none", "current", "stale", "over", "lost"}]
    /\ process \in [Processes -> {"none", "alive", "broken", "dead", "gone"}]
    /\ stopping \in 0 .. MaxStops

Init ==
    /\ mode \in {"quick", "named"}
    /\ asked = "stop" /\ desiredRunning = FALSE
    /\ retryTimer = "off" /\ connectPromise = None
    /\ snapshot = "disconnected" /\ inner = "disconnected"
    /\ child = None
    /\ attempt = [p \in Processes |-> "none"]
    /\ process = [p \in Processes |-> "none"]
    /\ stopping = 0

-----------------------------------------------------------------------------
(* The wrapper: what it shows, and its timer.                              *)
Wrapper == [snapshot |-> snapshot, timer |-> retryTimer]
Becomes(w) == snapshot' = w.snapshot /\ retryTimer' = w.timer

NoRetryMutant(w) == w
scheduleRetry(w) ==
    IF w.snapshot = "error" /\ w.timer = "off"
    THEN [snapshot |-> "connecting", timer |-> "armed"] ELSE w

Failed(w, error) == scheduleRetry([w EXCEPT !.snapshot = error])

handleInnerState(w, state) ==
    CASE ~desiredRunning -> IF state = "disconnected" THEN [w EXCEPT !.snapshot = state] ELSE w
      [] desiredRunning /\ state = "connected" -> [snapshot |-> state, timer |-> "off"]
      [] desiredRunning /\ state \in {"error", "permanent"} -> Failed(w, state)
      [] OTHER -> [w EXCEPT !.snapshot = state]

(* The catch of connect.                                                   *)
Rejected(w, p, error) ==
    IF attempt[p] = "current" /\ desiredRunning THEN Failed(w, error) ELSE w

(* The start of p has settled (finally).                                   *)
Settles(p, how) ==
    /\ attempt' = [attempt EXCEPT ![p] = how]
    /\ connectPromise' = None

Stale == [p \in Processes |-> IF attempt[p] = "current" THEN "stale" ELSE attempt[p]]

(* connect, when nothing is under way: the inner adapter spawns process p. *)
Spawns(p, attempts) ==
    /\ process[p] = "none" /\ \A q \in Processes : q < p => process[q] # "none"
    /\ \E state \in {"alive", "broken"} : process' = [process EXCEPT ![p] = state]
    /\ attempt' = [attempts EXCEPT ![p] = "current"]
    /\ connectPromise' = p /\ child' = p
    /\ snapshot' = "connecting" /\ inner' = "connecting"

connect(attempts) ==
    \/ /\ connectPromise # None
       /\ attempt' = attempts
       /\ UNCHANGED <<connectPromise, snapshot, inner, child, process>>
    \/ /\ connectPromise = None
       /\ \E p \in Processes : Spawns(p, attempts)

start ==
    /\ asked' = "start" /\ desiredRunning' = TRUE
    /\ \/ /\ snapshot = "connected"
          /\ UNCHANGED <<shown, tries, inner, child, process>>
       \/ /\ snapshot # "connected"
          /\ retryTimer' = "off"
          /\ connect(Stale)
    /\ UNCHANGED <<mode, stopping>>

RetryFires ==
    /\ retryTimer = "armed"
    /\ retryTimer' = "off"
    /\ \/ desiredRunning /\ connect(attempt)
       \/ ~desiredRunning /\ UNCHANGED <<tries, snapshot, inner, child, process>>
    /\ UNCHANGED <<user, stopping>>

ForgetMutant == UNCHANGED desiredRunning
NotDesired == desiredRunning' = FALSE

(* The inner adapter has stopped.                                          *)
Stopped ==
    /\ child' = None
    /\ inner' = "disconnected" /\ snapshot' = "disconnected"

(* stop: on Windows it waits for taskkill if the process is not known to   *)
(* have exited.                                                            *)
stop ==
    /\ asked' = "stop" /\ NotDesired
    /\ retryTimer' = "off" /\ attempt' = Stale
    /\ \/ Stopped /\ UNCHANGED stopping
       \/ /\ child # None /\ process[child] \in {"alive", "dead"}
          /\ stopping < MaxStops
          /\ stopping' = stopping + 1
          /\ UNCHANGED <<snapshot, inner, child>>
    /\ UNCHANGED <<mode, connectPromise, process>>

StopEnds ==
    /\ stopping > 0
    /\ stopping' = stopping - 1
    /\ Stopped
    /\ UNCHANGED <<user, retryTimer, tries, process>>

-----------------------------------------------------------------------------
(* The inner adapter and its processes.                                    *)
UnderWay(p) == attempt[p] \in {"current", "stale"}

(* A URL is printed, or half a second is over.                             *)
Connected(p) ==
    /\ UnderWay(p)
    /\ mode = "quick" => process[p] \in {"alive", "dead"}
    /\ inner' = "connected"
    /\ Becomes(handleInnerState(Wrapper, "connected"))
    /\ Settles(p, "over")
    /\ UNCHANGED <<user, child, process, stopping>>

(* waitForOrigin gives up; the process goes on.                            *)
UrlTimeout(p) ==
    /\ mode = "quick" /\ UnderWay(p)
    /\ Becomes(Rejected(Wrapper, p, "error"))
    /\ Settles(p, IF attempt[p] = "stale" THEN "lost" ELSE "over")
    /\ UNCHANGED <<user, inner, child, process, stopping>>

(* The waiting start of a quick tunnel hears of the failure after the      *)
(* adapter has.                                                            *)
Fails(p, w, error) ==
    /\ process' = [process EXCEPT ![p] = "gone"]
    /\ IF mode = "quick" /\ UnderWay(p)
       THEN Becomes(Rejected(w, p, error)) /\ Settles(p, "over")
       ELSE Becomes(w) /\ UNCHANGED tries
    /\ UNCHANGED <<user, child, stopping>>

Exit(p) ==
    /\ process[p] = "dead"
    /\ \/ /\ inner # "disconnected"
          /\ inner' = "error"
          /\ Fails(p, handleInnerState(Wrapper, "error"), "error")
       \/ /\ inner = "disconnected"
          /\ Fails(p, Wrapper, "error")
          /\ UNCHANGED inner

SpawnError(p) ==
    /\ process[p] = "broken"
    /\ \E error \in {"error", "permanent"} :
          /\ inner' = error
          /\ Fails(p, handleInnerState(Wrapper, error), error)

Dies(p) ==
    /\ process[p] = "alive"
    /\ process' = [process EXCEPT ![p] = "dead"]
    /\ UNCHANGED <<user, shown, tries, inner, child, stopping>>

(* A spawn that failed is told before anything else happens.               *)
Event == \A p \in Processes : process[p] # "broken"

Next ==
    \/ Event /\ (start \/ stop \/ StopEnds \/ RetryFires)
    \/ \E p \in Processes :
          \/ Event /\ (Connected(p) \/ UrlTimeout(p) \/ Exit(p))
          \/ SpawnError(p) \/ Dies(p)

Spec == Init /\ [][Next]_vars

-----------------------------------------------------------------------------
(* After the user disconnected no process is started, whatever timers,     *)
(* events and starts were under way; and none while another start has not  *)
(* settled (desiredRunning, generation, connectPromise).                   *)
StaysDown ==
    [][\A p \in Processes : process[p] = "none" /\ process'[p] # "none" =>
          asked' = "start" /\ \A q \in Processes : ~UnderWay(q)]_vars

(* What the user is shown is so, once stops have ended: connecting, or an  *)
(* error that can be retried, means that a start or a timer is under way,  *)
(* or that the timeout of the last process was lost to a second connect;   *)
(* connected means that a process of the quick tunnel runs whose end is    *)
(* not known yet (handleInnerState, connect, scheduleRetry).               *)
SnapshotIsTrue ==
    stopping = 0 /\ desiredRunning =>
        /\ snapshot \in {"connecting", "error"} =>
              \/ retryTimer = "armed" \/ connectPromise # None
              \/ child # None /\ attempt[child] = "lost"
        /\ snapshot = "connected" /\ mode = "quick" =>
              \E p \in Processes : process[p] \in {"alive", "dead"}
=============================================================================
