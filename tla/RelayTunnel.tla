---------------------------- MODULE RelayTunnel ----------------------------
(***************************************************************************)
(* A desktop behind the relay: the relay client with its reconnect timer,  *)
(* the WebSockets it opens one after another, the registry of the relay    *)
(* and the HTTP requests it sends through the tunnel, for one device.      *)
(*                                                                         *)
(* Whoever starts the client again (ResilientTransportAdapter or the user) *)
(* is free to do so when its last start has settled and the client does    *)
(* not say connected.  A socket delivers in order until it closes; the     *)
(* network may cut it at any moment.  Both ends learn of the connection in *)
(* one step.  The chunks of a body and the heartbeats change nothing here. *)
(***************************************************************************)
EXTENDS Naturals, Sequences

CONSTANTS
    MaxSockets,     \* bound: the connects of the client
    Requests,       \* the HTTP requests of the device
    None

Sockets == 1 .. MaxSockets

ASSUME RelayAssumption == MaxSockets \in Nat /\ None \notin Requests \union Nat

VARIABLES
    socket,          \* the client's current socket
    reconnectTimer,  \* off, armed, stale: cleared, but still in its field
    stopped, snapshot,
    owner,           \* of each socket: who called start, caller or reconnect
    promise,         \* of each start: pending, settled, lost (never settles)
    client,          \* the client's end of each socket
    job,             \* the client's work on each request
    server,          \* the server's end of each socket
    registry,        \* the socket the device is registered with
    pending,         \* of each request: the socket it was sent to
    reply,           \* none, open, started, ended, gone (the caller left)
    up, down         \* of each socket: what is under way to the server, to the client

clientVars == <<socket, reconnectTimer, stopped, snapshot, owner, promise, client>>
serverVars == <<server, registry, pending, reply>>
vars == <<clientVars, job, serverVars, up, down>>

Message == [type : {"hello", "ready", "close"}, id : {None}]
    \union [type : {"request", "cancel", "start", "end", "error"}, id : Requests]

TypeOK ==
    /\ socket \in Sockets \union {None}
    /\ reconnectTimer \in {"off", "armed", "stale"}
    /\ stopped \in BOOLEAN
    /\ snapshot \in {"disconnected", "connecting", "connected", "error"}
    /\ owner \in [Sockets -> {"caller", "reconnect"}]
    /\ promise \in [Sockets -> {"none", "pending", "settled", "lost"}]
    /\ client \in [Sockets -> {"none", "connecting", "open", "closing", "closed"}]
    /\ job \in [Requests -> {"none", "fetching", "started", "over"}]
    /\ server \in [Sockets -> {"none", "accepted", "registered", "closing", "closed"}]
    /\ registry \in Sockets \union {None}
    /\ pending \in [Requests -> Sockets \union {None}]
    /\ reply \in [Requests -> {"none", "open", "started", "ended", "gone"}]
    /\ up \in [Sockets -> Seq(Message)]
    /\ down \in [Sockets -> Seq(Message)]

Init ==
    /\ socket = None /\ reconnectTimer = "off" /\ stopped = FALSE
    /\ snapshot = "disconnected"
    /\ owner = [s \in Sockets |-> "caller"]
    /\ promise = [s \in Sockets |-> "none"]
    /\ client = [s \in Sockets |-> "none"]
    /\ job = [r \in Requests |-> "none"]
    /\ server = [s \in Sockets |-> "none"]
    /\ registry = None
    /\ pending = [r \in Requests |-> None]
    /\ reply = [r \in Requests |-> "none"]
    /\ up = [s \in Sockets |-> <<>>]
    /\ down = [s \in Sockets |-> <<>>]

Signal(t) == [type |-> t, id |-> None]
Of(t, r) == [type |-> t, id |-> r]

(* What is sent to an end that has closed is lost.                         *)
ToServer(s, m) == IF server[s] = "closed" THEN up[s] ELSE Append(up[s], m)
ToClient(s, m) == IF client[s] = "closed" THEN down[s] ELSE Append(down[s], m)

-----------------------------------------------------------------------------
(* The client.                                                             *)
start(s, who) ==
    /\ client[s] = "none" /\ \A t \in Sockets : t < s => client[t] # "none"
    /\ client' = [client EXCEPT ![s] = "connecting"]
    /\ owner' = [owner EXCEPT ![s] = who]
    /\ promise' = [promise EXCEPT ![s] = "pending"]
    /\ socket' = s /\ stopped' = FALSE /\ snapshot' = "connecting"
    /\ UNCHANGED <<job, serverVars, up, down>>

CallerStarts ==
    /\ snapshot # "connected"
    /\ \A s \in Sockets : owner[s] = "caller" => promise[s] \in {"none", "settled"}
    /\ \E s \in Sockets : start(s, "caller")
    /\ UNCHANGED reconnectTimer

Reconnect ==
    /\ reconnectTimer = "armed"
    /\ reconnectTimer' = "off"
    /\ \E s \in Sockets : start(s, "reconnect")

scheduleReconnect == IF reconnectTimer = "off" THEN "armed" ELSE reconnectTimer

(* The start of s is rejected: only that of a reconnect tries again.       *)
Rejects(s) == promise[s] = "pending" /\ owner[s] = "reconnect"

abortRequestsMutant == job
abortRequests == [r \in Requests |-> IF job[r] \in {"fetching", "started"} THEN "over" ELSE job[r]]

(* The close event of a socket, that of an older one included.             *)
OnClose(rejects) ==
    /\ job' = abortRequests
    /\ snapshot' = IF stopped THEN snapshot ELSE "error"
    /\ reconnectTimer' = IF ~stopped \/ rejects THEN scheduleReconnect ELSE reconnectTimer

(* A connect that fails: the events error and close.                       *)
ConnectFails(s) ==
    LET rejected == snapshot # "connected" IN
    /\ client[s] = "connecting"
    /\ client' = [client EXCEPT ![s] = "closed"]
    /\ promise' = [promise EXCEPT ![s] =
           IF @ = "pending" THEN IF rejected THEN "settled" ELSE "lost" ELSE @]
    /\ OnClose(rejected /\ Rejects(s))
    /\ UNCHANGED <<socket, stopped, owner, serverVars, up, down>>

(* The timeout of a start: its socket is closed.                           *)
ConnectTimeout(s) ==
    /\ promise[s] = "pending"
    /\ promise' = [promise EXCEPT ![s] = "settled"]
    /\ \/ /\ client[s] = "connecting"
          /\ client' = [client EXCEPT ![s] = "closed"]
          /\ OnClose(Rejects(s))
          /\ UNCHANGED up
       \/ /\ client[s] # "connecting"
          /\ reconnectTimer' = IF Rejects(s) THEN scheduleReconnect ELSE reconnectTimer
          /\ IF client[s] = "open"
             THEN /\ client' = [client EXCEPT ![s] = "closing"]
                  /\ up' = [up EXCEPT ![s] = ToServer(s, Signal("close"))]
             ELSE UNCHANGED <<client, up>>
          /\ UNCHANGED <<snapshot, job>>
    /\ UNCHANGED <<socket, stopped, owner, serverVars, down>>

Opens(s) ==
    /\ client[s] = "connecting"
    /\ client' = [client EXCEPT ![s] = "open"]
    /\ server' = [server EXCEPT ![s] = "accepted"]
    /\ up' = [up EXCEPT ![s] = ToServer(s, Signal("hello"))]
    /\ UNCHANGED <<socket, reconnectTimer, stopped, snapshot, owner, promise, job,
                   registry, pending, reply, down>>

(* stop; a connect under way is rejected by it.                            *)
Stop ==
    /\ stopped' = TRUE /\ snapshot' = "disconnected" /\ socket' = None
    /\ job' = abortRequests
    /\ \/ /\ socket # None /\ client[socket] = "connecting"
          /\ client' = [client EXCEPT ![socket] = "closed"]
          /\ promise' = [promise EXCEPT ![socket] = IF @ = "pending" THEN "settled" ELSE @]
          /\ reconnectTimer' = IF reconnectTimer # "off" THEN "stale"
                               ELSE IF Rejects(socket) THEN "armed" ELSE "off"
          /\ UNCHANGED up
       \/ /\ socket # None => client[socket] # "connecting"
          /\ reconnectTimer' = IF reconnectTimer # "off" THEN "stale" ELSE "off"
          /\ IF socket # None /\ client[socket] = "open"
             THEN /\ client' = [client EXCEPT ![socket] = "closing"]
                  /\ up' = [up EXCEPT ![socket] = ToServer(socket, Signal("close"))]
             ELSE UNCHANGED <<client, up>>
          /\ UNCHANGED promise
    /\ UNCHANGED <<owner, serverVars, down>>

(* A message reaches the client, also one whose socket is closing.         *)
ClientTakes(s, m) ==
    /\ client[s] \in {"open", "closing"}
    /\ down[s] # <<>> /\ m = Head(down[s])
    /\ down' = [down EXCEPT ![s] = Tail(@)]

handleReady(s) ==
    /\ ClientTakes(s, Signal("ready"))
    /\ snapshot' = "connected"
    /\ promise' = [promise EXCEPT ![s] = "settled"]
    /\ UNCHANGED <<socket, reconnectTimer, stopped, owner, client, job, serverVars, up>>

handleRequest(s, r) ==
    /\ ClientTakes(s, Of("request", r))
    /\ job' = [job EXCEPT ![r] = "fetching"]
    /\ UNCHANGED <<clientVars, serverVars, up>>

handleCancel(s, r) ==
    /\ ClientTakes(s, Of("cancel", r))
    /\ job' = [job EXCEPT ![r] = "over"]
    /\ UNCHANGED <<clientVars, serverVars, up>>

handleClose(s) ==
    /\ ClientTakes(s, Signal("close"))
    /\ client' = [client EXCEPT ![s] = "closed"]
    /\ up' = IF client[s] = "open" THEN [up EXCEPT ![s] = ToServer(s, Signal("close"))] ELSE up
    /\ OnClose(FALSE)
    /\ UNCHANGED <<socket, stopped, owner, promise, serverVars>>

(* What a job sends goes to the current socket: it is lost unless that is  *)
(* open, and ends the job without a word while that is connecting.         *)
Sends(r, type, then) ==
    LET up2 == [up EXCEPT ![socket] = ToServer(socket, Of(type, r))] IN
    /\ up' = IF socket # None /\ client[socket] = "open" THEN up2 ELSE up
    /\ job' = [job EXCEPT ![r] =
           IF socket # None /\ client[socket] = "connecting" THEN "over" ELSE then]
    /\ UNCHANGED <<clientVars, serverVars, down>>

JobAnswers(r) ==
    \/ job[r] = "fetching" /\ Sends(r, "start", "started")
    \/ job[r] = "started" /\ Sends(r, "end", "over")

JobFails(r) == job[r] \in {"fetching", "started"} /\ Sends(r, "error", "over")

-----------------------------------------------------------------------------
(* The network cuts a connection: each end that is not closed will learn   *)
(* of it; what was under way is lost.                                      *)
Cut(s) ==
    /\ server[s] \notin {"none", "closed"} \/ client[s] \in {"open", "closing"}
    /\ up' = [up EXCEPT ![s] = IF server[s] = "closed" THEN <<>> ELSE <<Signal("close")>>]
    /\ down' = [down EXCEPT ![s] = IF client[s] = "closed" THEN <<>> ELSE <<Signal("close")>>]
    /\ UNCHANGED <<clientVars, job, serverVars>>

-----------------------------------------------------------------------------
(* The relay.                                                              *)
Open(s) == server[s] \in {"accepted", "registered"}

ServerTakes(s, m) ==
    /\ server[s] \in {"accepted", "registered", "closing"}
    /\ up[s] # <<>> /\ m = Head(up[s])
    /\ up' = [up EXCEPT ![s] = Tail(@)]

(* agent.hello: the device is registered with its new socket, the socket   *)
(* it had is closed.                                                       *)
register(s) ==
    LET replaced == {t \in Sockets : registry = t /\ Open(t)} IN
    /\ server[s] = "accepted"
    /\ ServerTakes(s, Signal("hello"))
    /\ server' = [t \in Sockets |->
           IF t = s THEN "registered" ELSE IF t \in replaced THEN "closing" ELSE server[t]]
    /\ down' = [t \in Sockets |->
           IF t = s THEN ToClient(t, Signal("ready"))
           ELSE IF t \in replaced THEN ToClient(t, Signal("close")) ELSE down[t]]
    /\ registry' = s
    /\ UNCHANGED <<clientVars, job, pending, reply>>

(* An HTTP request for the device.                                         *)
handle(r) ==
    /\ reply[r] = "none"
    /\ \/ /\ registry # None /\ Open(registry)
          /\ pending' = [pending EXCEPT ![r] = registry]
          /\ reply' = [reply EXCEPT ![r] = "open"]
          /\ down' = [down EXCEPT ![registry] = ToClient(registry, Of("request", r))]
       \/ /\ registry # None => ~Open(registry)
          /\ reply' = [reply EXCEPT ![r] = "ended"]
          /\ UNCHANGED <<pending, down>>
    /\ UNCHANGED <<clientVars, job, server, registry, up>>

(* The end of a request: its reply is ended and it is forgotten.           *)
finish(r) ==
    /\ reply' = [reply EXCEPT ![r] = "ended"]
    /\ pending' = [pending EXCEPT ![r] = None]

(* onMessage: whatever socket a piece of an answer comes by.               *)
onStart(s, r) ==
    /\ ServerTakes(s, Of("start", r))
    /\ reply' = IF pending[r] # None THEN [reply EXCEPT ![r] = "started"] ELSE reply
    /\ UNCHANGED <<clientVars, job, server, registry, pending, down>>

onEnd(s, r) ==
    /\ ServerTakes(s, Of("end", r)) \/ ServerTakes(s, Of("error", r))
    /\ IF pending[r] # None THEN finish(r) ELSE UNCHANGED <<pending, reply>>
    /\ UNCHANGED <<clientVars, job, server, registry, down>>

timeout(r) ==
    /\ pending[r] # None
    /\ finish(r)
    /\ UNCHANGED <<clientVars, job, server, registry, up, down>>

(* The caller goes: the device is told to cancel.                          *)
CallerLeaves(r) ==
    /\ pending[r] # None
    /\ pending' = [pending EXCEPT ![r] = None]
    /\ reply' = [reply EXCEPT ![r] = "gone"]
    /\ down' = IF Open(pending[r]) THEN [down EXCEPT ![pending[r]] = ToClient(pending[r], Of("cancel", r))]
               ELSE down
    /\ UNCHANGED <<clientVars, job, server, registry, up>>

UnregisteredMutant(s) == None
Unregistered(s) == IF registry = s THEN None ELSE registry

(* The close event of a socket: the registry forgets the device if it has  *)
(* no other socket, the requests sent to this one fail (cancelSocket).     *)
cancelSocketMutant(s) == {}
cancelSocket(s) == {r \in Requests : pending[r] = s}

OnServerClose(s) ==
    /\ ServerTakes(s, Signal("close"))
    /\ server' = [server EXCEPT ![s] = "closed"]
    /\ registry' = Unregistered(s)
    /\ reply' = [r \in Requests |-> IF r \in cancelSocket(s) THEN "ended" ELSE reply[r]]
    /\ pending' = [r \in Requests |-> IF r \in cancelSocket(s) THEN None ELSE pending[r]]
    /\ down' = IF Open(s) THEN [down EXCEPT ![s] = ToClient(s, Signal("close"))] ELSE down
    /\ UNCHANGED <<clientVars, job>>

Next ==
    \/ CallerStarts \/ Reconnect \/ Stop
    \/ \E s \in Sockets :
          \/ ConnectFails(s) \/ ConnectTimeout(s) \/ Opens(s)
          \/ handleReady(s) \/ handleClose(s)
          \/ Cut(s) \/ register(s) \/ OnServerClose(s)
          \/ \E r \in Requests :
                handleRequest(s, r) \/ handleCancel(s, r) \/ onStart(s, r) \/ onEnd(s, r)
    \/ \E r \in Requests :
          JobAnswers(r) \/ JobFails(r) \/ handle(r) \/ timeout(r) \/ CallerLeaves(r)

Spec == Init /\ [][Next]_vars

-----------------------------------------------------------------------------
(* The device stays reachable: while a socket of it is registered and      *)
(* open, the registry has that one, whichever sockets replaced each other  *)
(* and however late the old ones close (register, its close handler).      *)
DeviceIsReachable == \A s \in Sockets : server[s] = "registered" => registry = s

(* No caller waits for the dead: a reply is open exactly while its request *)
(* is pending on a socket that is not closed, so nothing is written to a   *)
(* reply that ended and no reply is left without its timer (HttpTunnel).   *)
NobodyWaitsForTheDead ==
    \A r \in Requests :
        /\ reply[r] \in {"open", "started"} <=> pending[r] # None
        /\ pending[r] # None => server[pending[r]] \in {"registered", "closing"}

(* A desktop whose sockets have all closed does no work for the relay      *)
(* (abortRequests).                                                        *)
NoWorkLeftBehind ==
    (\E r \in Requests : job[r] \in {"fetching", "started"}) =>
        \E s \in Sockets : client[s] \in {"open", "closing"}
=============================================================================
