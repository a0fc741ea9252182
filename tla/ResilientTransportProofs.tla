----------------------- MODULE ResilientTransportProofs -----------------------
(***************************************************************************)
(* Theorems about ResilientTransport, for any number of processes and of   *)
(* stops that overlap.                                                     *)
(***************************************************************************)
EXTENDS ResilientTransport, TLAPS

(* The promise is that of the one start that has not settled.              *)
Promise == \A p \in Processes : UnderWay(p) <=> connectPromise = p

(* A process that was not spawned is the last one, its start under way.    *)
Broken == \A p \in Processes : process[p] = "broken" => connectPromise = p /\ child = p

(* An adapter with a process does not say disconnected; a start that has   *)
(* outlived the stop of its process is neither shown nor heard of.         *)
Children ==
    /\ child # None => inner # "disconnected"
    /\ connectPromise # None /\ child # connectPromise =>
          inner = "disconnected" /\ snapshot = "disconnected"

(* After a stop nothing is shown; connected is what the adapter says.      *)
Shows ==
    /\ desiredRunning <=> asked = "start"
    /\ stopping = 0 /\ ~desiredRunning => snapshot = "disconnected"
    /\ stopping = 0 /\ snapshot = "connected" => inner = "connected"

TransportInv == TypeOK /\ Promise /\ Broken /\ Children /\ Shows /\ SnapshotIsTrue

LEMMA NoneIsNoProcess == None \notin Processes
BY TransportAssumption DEF Processes

LEMMA InitTransport == Init => TransportInv
<1> SUFFICES ASSUME Init PROVE TransportInv
  OBVIOUS
<1>1. TypeOK
  <2>1. /\ mode \in {"quick", "named"} /\ asked \in {"start", "stop"}
        /\ desiredRunning \in BOOLEAN /\ retryTimer \in {"off", "armed"}
        /\ snapshot \in States /\ inner \in States
    BY DEF Init, States
  <2>2. /\ connectPromise \in Processes \union {None} /\ child \in Processes \union {None}
        /\ attempt \in [Processes -> {"none", "current", "stale", "over", "lost"}]
        /\ process \in [Processes -> {"none", "alive", "broken", "dead", "gone"}]
    BY DEF Init
  <2>3. stopping \in 0 .. MaxStops
    BY TransportAssumption DEF Init
  <2> QED BY <2>1, <2>2, <2>3 DEF TypeOK
<1>2. Promise /\ Broken /\ Children /\ Shows /\ SnapshotIsTrue
  BY NoneIsNoProcess DEF Init, Promise, UnderWay, Broken, Children, Shows, SnapshotIsTrue
<1> QED BY <1>1, <1>2 DEF TransportInv

(* What a failure shows: a timer is armed, unless the error is permanent.  *)
LEMMA FailedShows ==
    ASSUME NEW w \in [snapshot : States, timer : {"off", "armed"}],
           NEW error \in {"error", "permanent"}
    PROVE  /\ Failed(w, error) \in [snapshot : States, timer : {"off", "armed"}]
           /\ Failed(w, error).snapshot \in {"connecting", "error", "permanent"}
           /\ error = "error" => Failed(w, error).timer = "armed"
           /\ w.timer = "armed" => Failed(w, error).timer = "armed"
           /\ error = "permanent" => Failed(w, error).snapshot = "permanent"
BY DEF Failed, scheduleRetry, States

LEMMA WrapperType ==
    TypeOK => Wrapper \in [snapshot : States, timer : {"off", "armed"}]
BY DEF TypeOK, Wrapper

(* A start or a retry that reaches connect, with the starts under way as   *)
(* attempts says.                                                          *)
LEMMA ConnectStep ==
    ASSUME TransportInv, NEW attempts, attempts \in {attempt, Stale},
           connect(attempts), retryTimer' = "off", Event,
           asked' = "start", desiredRunning' = TRUE,
           UNCHANGED <<mode, stopping>>
    PROVE  TransportInv'
<1> USE NoneIsNoProcess DEF TransportInv
<1>1. /\ attempts \in [Processes -> {"none", "current", "stale", "over", "lost"}]
      /\ \A p \in Processes : attempts[p] \in {"current", "stale"} <=> UnderWay(p)
  BY DEF TypeOK, Stale, UnderWay
<1>2. CASE connectPromise # None /\ attempt' = attempts
           /\ UNCHANGED <<connectPromise, snapshot, inner, child, process>>
  <2>1. TypeOK'
    BY <1>1, <1>2 DEF TypeOK
  <2>2. Promise' /\ Broken' /\ Children'
    BY <1>1, <1>2 DEF Promise, UnderWay, Broken, Children
  <2>3. Shows' /\ SnapshotIsTrue'
    <3>1. Shows'
      BY <1>2 DEF Shows
    <3>2. ASSUME stopping = 0, snapshot = "connected", mode = "quick"
          PROVE  \E p \in Processes : process[p] \in {"alive", "dead"}
      BY <3>2 DEF Shows, SnapshotIsTrue
    <3> QED BY <1>2, <3>1, <3>2 DEF SnapshotIsTrue
  <2> QED BY <2>1, <2>2, <2>3
<1>3. CASE connectPromise = None /\ \E p \in Processes : Spawns(p, attempts)
  <2> PICK p \in Processes : Spawns(p, attempts)
    BY <1>3
  <2>1. TypeOK'
    BY <1>1 DEF TypeOK, Spawns, States
  <2>2. Promise'
    BY <1>1, <1>3 DEF Promise, UnderWay, Spawns, TypeOK
  <2>3. Broken' /\ Children'
    BY DEF Broken, Children, Spawns, Event, TypeOK
  <2>4. Shows' /\ SnapshotIsTrue'
    BY DEF Shows, SnapshotIsTrue, Spawns
  <2> QED BY <2>1, <2>2, <2>3, <2>4
<1> QED BY <1>2, <1>3 DEF connect

LEMMA StartStep == TransportInv /\ Event /\ start => TransportInv'
<1> SUFFICES ASSUME TransportInv, Event, start PROVE TransportInv'
  OBVIOUS
<1> USE DEF TransportInv
<1>1. CASE snapshot = "connected" /\ UNCHANGED <<shown, tries, inner, child, process>>
  <2>1. TypeOK' /\ Promise' /\ Broken' /\ Children'
    BY <1>1 DEF start, shown, tries, TypeOK, Promise, UnderWay, Broken, Children
  <2>2. Shows' /\ SnapshotIsTrue'
    BY <1>1 DEF start, shown, tries, Shows, SnapshotIsTrue
  <2> QED BY <2>1, <2>2
<1>2. CASE retryTimer' = "off" /\ connect(Stale)
  BY <1>2, ConnectStep DEF start
<1> QED BY <1>1, <1>2 DEF start

LEMMA RetryStep == TransportInv /\ Event /\ RetryFires => TransportInv'
<1> SUFFICES ASSUME TransportInv, Event, RetryFires PROVE TransportInv'
  OBVIOUS
<1> USE DEF TransportInv
<1>1. CASE desiredRunning /\ connect(attempt)
  <2>1. asked' = "start" /\ desiredRunning' = TRUE
    BY <1>1 DEF RetryFires, user, Shows, TypeOK
  <2> QED BY <1>1, <2>1, ConnectStep DEF RetryFires, user
<1>2. CASE ~desiredRunning /\ UNCHANGED <<tries, snapshot, inner, child, process>>
  <2>1. TypeOK' /\ Promise' /\ Broken' /\ Children'
    BY <1>2 DEF RetryFires, user, tries, TypeOK, Promise, UnderWay, Broken, Children
  <2>2. Shows' /\ SnapshotIsTrue'
    BY <1>2 DEF RetryFires, user, tries, Shows, SnapshotIsTrue
  <2> QED BY <2>1, <2>2
<1> QED BY <1>1, <1>2 DEF RetryFires

LEMMA StopStep == TransportInv /\ Event /\ stop => TransportInv'
<1> SUFFICES ASSUME TransportInv, Event, stop PROVE TransportInv'
  OBVIOUS
<1> USE NoneIsNoProcess DEF TransportInv
<1>1. TypeOK'
  <2>1. stopping' \in 0 .. MaxStops
    BY TransportAssumption DEF stop, TypeOK
  <2>2. snapshot' \in States /\ inner' \in States /\ child' \in Processes \union {None}
    BY DEF stop, Stopped, TypeOK, States
  <2>3. attempt' \in [Processes -> {"none", "current", "stale", "over", "lost"}]
    BY DEF stop, Stale, TypeOK
  <2> QED BY <2>1, <2>2, <2>3 DEF stop, NotDesired, TypeOK
<1>2. Promise'
  BY DEF stop, Stale, Promise, UnderWay, TypeOK
<1>3. Broken' /\ Children'
  BY DEF stop, Stopped, Broken, Children, Event, TypeOK
<1>4. Shows' /\ SnapshotIsTrue'
  BY DEF stop, Stopped, NotDesired, Shows, SnapshotIsTrue, TypeOK
<1> QED BY <1>1, <1>2, <1>3, <1>4

LEMMA StopEndsStep == TransportInv /\ Event /\ StopEnds => TransportInv'
<1> SUFFICES ASSUME TransportInv, Event, StopEnds PROVE TransportInv'
  OBVIOUS
<1> USE NoneIsNoProcess DEF TransportInv
<1>1. TypeOK'
  BY TransportAssumption DEF StopEnds, Stopped, user, tries, TypeOK, States
<1>2. Promise' /\ Broken' /\ Children'
  BY DEF StopEnds, Stopped, user, tries, Promise, UnderWay, Broken, Children, Event, TypeOK
<1>3. Shows' /\ SnapshotIsTrue'
  BY DEF StopEnds, Stopped, user, tries, Shows, SnapshotIsTrue
<1> QED BY <1>1, <1>2, <1>3
(* What the wrapper makes of an event of its adapter while running is      *)
(* desired, and while it is not.                                           *)
LEMMA Handles ==
    ASSUME TypeOK, NEW error \in {"error", "permanent"}
    PROVE  LET w == handleInnerState(Wrapper, error) IN
           /\ w \in [snapshot : States, timer : {"off", "armed"}]
           /\ ~desiredRunning => w.snapshot = snapshot
           /\ desiredRunning => w = Failed(Wrapper, error)
<1> DEFINE w == handleInnerState(Wrapper, error)
<1>1. CASE desiredRunning
  <2>1. w = Failed(Wrapper, error)
    BY <1>1 DEF handleInnerState
  <2> QED BY <1>1, <2>1, WrapperType, FailedShows
<1>2. CASE ~desiredRunning
  <2>1. w = Wrapper
    BY <1>2 DEF handleInnerState
  <2> QED BY <1>2, <2>1, WrapperType DEF Wrapper
<1> QED BY <1>1, <1>2 DEF TypeOK

LEMMA ConnectedStep ==
    ASSUME TransportInv, Event, NEW p \in Processes, Connected(p)
    PROVE  TransportInv'
<1> USE NoneIsNoProcess DEF TransportInv
<1>1. \/ desiredRunning /\ snapshot' = "connected" /\ retryTimer' = "off"
      \/ ~desiredRunning /\ snapshot' = snapshot /\ retryTimer' = retryTimer
  BY DEF Connected, handleInnerState, Wrapper, Becomes
<1>2. TypeOK'
  BY <1>1 DEF Connected, Settles, user, TypeOK, States
<1>3. Promise'
  BY DEF Connected, Settles, Promise, UnderWay, TypeOK
<1>4. Broken' /\ Children'
  BY <1>1 DEF Connected, Settles, Broken, Children, Event
<1>5. Shows'
  BY <1>1 DEF Connected, user, Shows
<1>6. SnapshotIsTrue'
  BY <1>1 DEF Connected, user, SnapshotIsTrue
<1> QED BY <1>2, <1>3, <1>4, <1>5, <1>6

LEMMA UrlTimeoutStep ==
    ASSUME TransportInv, Event, NEW p \in Processes, UrlTimeout(p)
    PROVE  TransportInv'
<1> USE NoneIsNoProcess DEF TransportInv
<1>0. connectPromise = p
  BY DEF UrlTimeout, Promise
<1>1. CASE attempt[p] = "current" /\ desiredRunning
  <2> DEFINE w == Failed(Wrapper, "error")
  <2>1. /\ w \in [snapshot : States, timer : {"off", "armed"}]
        /\ w.snapshot \in {"connecting", "error", "permanent"} /\ w.timer = "armed"
    BY WrapperType, FailedShows
  <2>2. snapshot' = w.snapshot /\ retryTimer' = w.timer
    BY <1>1 DEF UrlTimeout, Rejected, Becomes
  <2> HIDE DEF w
  <2>3. TypeOK'
    BY <2>1, <2>2 DEF UrlTimeout, Settles, user, TypeOK
  <2>4. Promise' /\ Broken' /\ Children'
    BY <1>0, <2>2 DEF UrlTimeout, Settles, Promise, UnderWay, Broken, Children, Event, TypeOK
  <2>5. Shows' /\ SnapshotIsTrue'
    BY <1>1, <2>1, <2>2 DEF UrlTimeout, user, Shows, SnapshotIsTrue
  <2> QED BY <2>3, <2>4, <2>5
<1>2. CASE ~(attempt[p] = "current" /\ desiredRunning)
  <2>1. snapshot' = snapshot /\ retryTimer' = retryTimer
    BY <1>2 DEF UrlTimeout, Rejected, Becomes, Wrapper
  <2>2. TypeOK'
    BY <2>1 DEF UrlTimeout, Settles, user, TypeOK
  <2>3. Promise' /\ Broken' /\ Children'
    BY <1>0, <2>1 DEF UrlTimeout, Settles, Promise, UnderWay, Broken, Children, Event, TypeOK
  <2>4. Shows'
    BY <2>1 DEF UrlTimeout, user, Shows
  <2>5. desiredRunning /\ child = p => attempt'[p] = "lost"
    BY <1>2 DEF UrlTimeout, UnderWay, Settles, TypeOK
  <2>6. SnapshotIsTrue'
    BY <1>0, <2>1, <2>5 DEF UrlTimeout, user, Children, SnapshotIsTrue
  <2> QED BY <2>2, <2>3, <2>4, <2>6
<1> QED BY <1>1, <1>2

(* A failure is shown, and tried again unless it is permanent.             *)
FailureShown ==
    /\ snapshot' \in {"connecting", "error", "permanent"}
    /\ retryTimer' \in {"off", "armed"}
    /\ snapshot' # "permanent" => retryTimer' = "armed"

LEMMA BecomesFailed ==
    ASSUME NEW w \in [snapshot : States, timer : {"off", "armed"}],
           NEW error \in {"error", "permanent"},
           Becomes(Failed(w, error))
    PROVE  FailureShown
<1> DEFINE v == Failed(w, error)
<1>1. /\ v \in [snapshot : States, timer : {"off", "armed"}]
      /\ v.snapshot \in {"connecting", "error", "permanent"}
      /\ error = "error" => v.timer = "armed"
      /\ error = "permanent" => v.snapshot = "permanent"
  BY FailedShows
<1>2. snapshot' = v.snapshot /\ retryTimer' = v.timer
  BY DEF Becomes
<1> HIDE DEF v
<1> QED BY <1>1, <1>2 DEF FailureShown

(* What the end of a process shows once the start that may wait for it has *)
(* been told, w being what the adapter made of it.                         *)
LEMMA FailsShows ==
    ASSUME NEW p \in Processes, NEW error \in {"error", "permanent"},
           NEW w \in [snapshot : States, timer : {"off", "armed"}],
           Fails(p, w, error)
    PROVE  \/ desiredRunning /\ FailureShown /\ Settles(p, "over")
           \/ Becomes(w)
<1>1. CASE mode = "quick" /\ UnderWay(p) /\ attempt[p] = "current" /\ desiredRunning
  <2>1. Becomes(Failed(w, error))
    BY <1>1 DEF Fails, Rejected
  <2>2. Settles(p, "over")
    BY <1>1 DEF Fails
  <2> QED BY <1>1, <2>1, <2>2, BecomesFailed
<1>2. CASE ~(mode = "quick" /\ UnderWay(p) /\ attempt[p] = "current" /\ desiredRunning)
  <2> QED BY <1>2 DEF Fails, Rejected
<1> QED BY <1>1, <1>2

(* What it does to everything else.                                        *)
LEMMA FailsKeeps ==
    ASSUME TransportInv, NEW p \in Processes, NEW error, NEW w, Fails(p, w, error),
           snapshot' \in States, retryTimer' \in {"off", "armed"}, inner' \in States,
           \A q \in Processes : process[q] = "broken" => q = p
    PROVE  /\ TypeOK' /\ Promise' /\ Broken'
           /\ UNCHANGED <<user, child, stopping>>
           /\ connectPromise' \in {connectPromise, None}
           /\ connectPromise # None /\ ~UnderWay(p) => connectPromise' = connectPromise
<1> USE NoneIsNoProcess DEF TransportInv
<1>1. \/ Settles(p, "over") /\ UnderWay(p)
      \/ UNCHANGED tries
  BY DEF Fails
<1>2. TypeOK'
  BY <1>1 DEF Fails, Settles, tries, user, TypeOK
<1>3. Promise'
  BY <1>1 DEF Settles, tries, Promise, UnderWay, TypeOK
<1>4. Broken'
  BY DEF Fails, Broken, TypeOK
<1>5. /\ connectPromise' \in {connectPromise, None}
      /\ connectPromise # None /\ ~UnderWay(p) => connectPromise' = connectPromise
  BY <1>1 DEF Settles, tries
<1> QED BY <1>2, <1>3, <1>4, <1>5 DEF Fails

(* The end of a process that the adapter hears of.                         *)
LEMMA HeardStep ==
    ASSUME TransportInv, NEW p \in Processes, NEW error \in {"error", "permanent"},
           Fails(p, handleInnerState(Wrapper, error), error), inner' = error,
           connectPromise # None => child = connectPromise,
           \A q \in Processes : process[q] = "broken" => q = p
    PROVE  TransportInv'
<1> USE NoneIsNoProcess DEF TransportInv
<1> DEFINE w == handleInnerState(Wrapper, error)
<1>1. CASE desiredRunning
  <2>1. w = Failed(Wrapper, error) /\ w \in [snapshot : States, timer : {"off", "armed"}]
    BY <1>1, Handles
  <2>2. FailureShown
    BY <2>1, FailsShows, BecomesFailed, WrapperType
  <2>3. snapshot' \in States /\ inner' \in States /\ retryTimer' \in {"off", "armed"}
    BY <2>2 DEF FailureShown, States
  <2>4. /\ TypeOK' /\ Promise' /\ Broken'
        /\ UNCHANGED <<user, child, stopping>>
        /\ connectPromise' \in {connectPromise, None}
    BY <2>3, FailsKeeps
  <2>5. Children'
    BY <2>4 DEF Children
  <2>6. Shows' /\ SnapshotIsTrue'
    BY <1>1, <2>2, <2>4 DEF FailureShown, user, Shows, SnapshotIsTrue
  <2> QED BY <2>4, <2>5, <2>6
<1>2. CASE ~desiredRunning
  <2>1. w.snapshot = snapshot /\ w \in [snapshot : States, timer : {"off", "armed"}]
    BY <1>2, Handles
  <2>2. Becomes(w)
    BY <1>2, <2>1, FailsShows
  <2> HIDE DEF w
  <2>3. snapshot' = snapshot /\ retryTimer' \in {"off", "armed"}
    BY <2>1, <2>2 DEF Becomes
  <2>4. snapshot' \in States /\ inner' \in States
    BY <2>3 DEF TypeOK, States
  <2>5. /\ TypeOK' /\ Promise' /\ Broken'
        /\ UNCHANGED <<user, child, stopping>>
        /\ connectPromise' \in {connectPromise, None}
    BY <2>3, <2>4, FailsKeeps
  <2>6. Children' /\ Shows' /\ SnapshotIsTrue'
    BY <1>2, <2>3, <2>5 DEF user, Children, Shows, SnapshotIsTrue
  <2> QED BY <2>5, <2>6
<1> QED BY <1>1, <1>2

(* The end of a process of an adapter that has been stopped.               *)
LEMMA UnheardStep ==
    ASSUME TransportInv, Event, NEW p \in Processes, process[p] = "dead",
           Fails(p, Wrapper, "error"), inner = "disconnected", UNCHANGED inner
    PROVE  TransportInv'
<1> USE NoneIsNoProcess DEF TransportInv
<1>1. child = None
  BY DEF Children
<1>2. CASE desiredRunning /\ FailureShown /\ Settles(p, "over")
  <2>1. snapshot' \in States /\ inner' \in States /\ retryTimer' \in {"off", "armed"}
    BY <1>2 DEF FailureShown, States
  <2>2. /\ TypeOK' /\ Promise' /\ Broken'
        /\ UNCHANGED <<user, child, stopping>>
    BY <2>1, FailsKeeps DEF Event
  <2>3. Children'
    BY <1>1, <1>2, <2>2 DEF Settles, Children
  <2>4. Shows' /\ SnapshotIsTrue'
    BY <1>2, <2>2 DEF FailureShown, user, Shows, SnapshotIsTrue
  <2> QED BY <2>2, <2>3, <2>4
<1>3. CASE Becomes(Wrapper)
  <2>1. snapshot' = snapshot /\ retryTimer' = retryTimer
    BY <1>3 DEF Becomes, Wrapper
  <2>2. snapshot' \in States /\ inner' \in States /\ retryTimer' \in {"off", "armed"}
    BY <2>1 DEF TypeOK, States
  <2>3. /\ TypeOK' /\ Promise' /\ Broken'
        /\ UNCHANGED <<user, child, stopping>>
        /\ connectPromise' \in {connectPromise, None}
    BY <2>2, FailsKeeps DEF Event
  <2>4. Children' /\ Shows'
    BY <2>1, <2>3 DEF user, Children, Shows
  <2>5. SnapshotIsTrue'
    BY <1>1, <2>1, <2>3 DEF user, Children, Shows, SnapshotIsTrue
  <2> QED BY <2>3, <2>4, <2>5
<1> QED BY <1>2, <1>3, WrapperType, FailsShows

LEMMA ExitStep ==
    ASSUME TransportInv, Event, NEW p \in Processes, Exit(p)
    PROVE  TransportInv'
<1>1. CASE inner # "disconnected" /\ inner' = "error"
           /\ Fails(p, handleInnerState(Wrapper, "error"), "error")
  <2>1. connectPromise # None => child = connectPromise
    BY <1>1 DEF TransportInv, Children
  <2> QED BY <1>1, <2>1, HeardStep DEF Event
<1>2. CASE inner = "disconnected" /\ Fails(p, Wrapper, "error") /\ UNCHANGED inner
  BY <1>2, UnheardStep DEF Exit
<1> QED BY <1>1, <1>2 DEF Exit

LEMMA SpawnErrorStep ==
    ASSUME TransportInv, NEW p \in Processes, SpawnError(p)
    PROVE  TransportInv'
<1>1. PICK error \in {"error", "permanent"} :
          inner' = error /\ Fails(p, handleInnerState(Wrapper, error), error)
  BY DEF SpawnError
<1>2. connectPromise = p /\ child = p
  BY DEF TransportInv, Broken, SpawnError
<1>3. \A q \in Processes : process[q] = "broken" => q = p
  BY <1>2 DEF TransportInv, Broken
<1> QED BY <1>1, <1>2, <1>3, HeardStep

LEMMA DiesStep ==
    ASSUME TransportInv, NEW p \in Processes, Dies(p)
    PROVE  TransportInv'
<1> USE DEF TransportInv
<1>1. TypeOK'
  BY DEF Dies, user, shown, tries, TypeOK
<1>2. Promise' /\ Broken' /\ Children' /\ Shows'
  BY DEF Dies, user, shown, tries, TypeOK, Promise, UnderWay, Broken, Children, Shows
<1>3. \A q \in Processes : process[q] \in {"alive", "dead"} => process'[q] \in {"alive", "dead"}
  BY DEF Dies, TypeOK
<1>4. SnapshotIsTrue'
  BY <1>3 DEF Dies, user, shown, tries, SnapshotIsTrue
<1> QED BY <1>1, <1>2, <1>4

LEMMA TransportStep == TransportInv /\ [Next]_vars => TransportInv'
<1> SUFFICES ASSUME TransportInv, [Next]_vars PROVE TransportInv'
  OBVIOUS
<1>1. CASE Event /\ (start \/ stop \/ StopEnds \/ RetryFires)
  BY <1>1, StartStep, StopStep, StopEndsStep, RetryStep
<1>2. ASSUME NEW p \in Processes, Event, Connected(p) \/ UrlTimeout(p) \/ Exit(p)
      PROVE  TransportInv'
  BY <1>2, ConnectedStep, UrlTimeoutStep, ExitStep
<1>3. ASSUME NEW p \in Processes, SpawnError(p) \/ Dies(p)
      PROVE  TransportInv'
  BY <1>3, SpawnErrorStep, DiesStep
<1>4. CASE UNCHANGED vars
  BY <1>4 DEF vars, user, shown, tries, TransportInv, TypeOK, Promise, UnderWay, Broken,
              Children, Shows, SnapshotIsTrue
<1> QED BY <1>1, <1>2, <1>3, <1>4 DEF Next

(* The invariant that ties timer, promise, adapter and what is shown.      *)
THEOREM TransportHolds == Spec => []TransportInv
BY InitTransport, TransportStep, PTL DEF Spec

(* What the user is shown as connecting is being worked on, and a quick    *)
(* tunnel shown as connected has a process (handleInnerState, connect).    *)
THEOREM ShownIsTrue == Spec => []SnapshotIsTrue
<1>1. TransportInv => SnapshotIsTrue
  BY DEF TransportInv
<1> QED BY <1>1, TransportHolds, PTL

(* A process is spawned by connect only, with nothing under way.           *)
LEMMA SpawnsDesired ==
    ASSUME TransportInv, Next, NEW p \in Processes, process[p] = "none", process'[p] # "none"
    PROVE  asked' = "start" /\ \A q \in Processes : ~UnderWay(q)
<1> USE NoneIsNoProcess DEF TransportInv
<1>1. ASSUME NEW attempts, connect(attempts)
      PROVE  \A q \in Processes : ~UnderWay(q)
  BY <1>1 DEF connect, Promise
<1>2. CASE start
  <2>1. connect(Stale)
    BY <1>2 DEF start
  <2> QED BY <1>1, <1>2, <2>1 DEF start
<1>3. CASE RetryFires
  <2>1. desiredRunning /\ connect(attempt)
    BY <1>3 DEF RetryFires
  <2> QED BY <1>1, <1>3, <2>1 DEF RetryFires, user, Shows
<1>4. CASE stop \/ StopEnds
  BY <1>4 DEF stop, StopEnds
<1>5. ASSUME NEW q \in Processes,
             Connected(q) \/ UrlTimeout(q) \/ Exit(q) \/ SpawnError(q) \/ Dies(q)
      PROVE  FALSE
  BY <1>5 DEF Connected, UrlTimeout, Exit, SpawnError, Fails, Dies, TypeOK
<1> QED BY <1>2, <1>3, <1>4, <1>5 DEF Next

(* After a disconnect no process is started until the next connect, and    *)
(* never two at a time (desiredRunning, generation, connectPromise).       *)
THEOREM Down == Spec => StaysDown
<1>1. TransportInv /\ [Next]_vars =>
          [\A p \in Processes : process[p] = "none" /\ process'[p] # "none" =>
              asked' = "start" /\ \A q \in Processes : ~UnderWay(q)]_vars
  BY SpawnsDesired
<1> QED BY <1>1, TransportHolds, PTL DEF Spec, StaysDown
=============================================================================
