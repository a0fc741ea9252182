------------------------- MODULE RelayTunnelProofs -------------------------
(***************************************************************************)
(* Theorems about RelayTunnel, for any number of connects and every set of *)
(* requests.                                                               *)
(***************************************************************************)
EXTENDS RelayTunnel, TLAPS

(* The server knows no connection before the client does.                  *)
Handshakes == \A s \in Sockets : client[s] \in {"none", "connecting"} => server[s] = "none"

(* The registry has a socket that said hello and has not closed.           *)
Registered == registry # None => server[registry] \in {"registered", "closing"}

RelayInv ==
    TypeOK /\ Handshakes /\ Registered
    /\ DeviceIsReachable /\ NobodyWaitsForTheDead /\ NoWorkLeftBehind

(* None is neither a socket nor a request.                                 *)
LEMMA NoneIsNothing == None \notin Sockets /\ None \notin Requests
BY RelayAssumption DEF Sockets

(* What is under way stays a sequence of messages.                         *)
LEMMA SendTypes ==
    ASSUME TypeOK, NEW s \in Sockets, NEW m \in Message
    PROVE  ToServer(s, m) \in Seq(Message) /\ ToClient(s, m) \in Seq(Message)
BY DEF TypeOK, ToServer, ToClient

(* The messages of the protocol.                                           *)
LEMMA MessageTypes ==
    /\ \A t \in {"hello", "ready", "close"} : Signal(t) \in Message
    /\ \A t \in {"request", "cancel", "start", "end", "error"} :
          \A r \in Requests : Of(t, r) \in Message
BY DEF Signal, Of, Message

LEMMA TailTypes == \A q \in Seq(Message) : q # <<>> => Tail(q) \in Seq(Message)
OBVIOUS

(* The initial state.                                                      *)
LEMMA InitRelay == Init => RelayInv
<1> SUFFICES ASSUME Init PROVE RelayInv
  OBVIOUS
<1>1. TypeOK
  <2>1. <<>> \in Seq(Message)
    OBVIOUS
  <2>2. up \in [Sockets -> Seq(Message)] /\ down \in [Sockets -> Seq(Message)]
    BY <2>1 DEF Init
  <2> QED BY <2>2 DEF Init, TypeOK
<1>2. Handshakes /\ Registered /\ DeviceIsReachable
  BY DEF Init, Handshakes, Registered, DeviceIsReachable
<1>3. NobodyWaitsForTheDead /\ NoWorkLeftBehind
  BY DEF Init, NobodyWaitsForTheDead, NoWorkLeftBehind
<1> QED BY <1>1, <1>2, <1>3 DEF RelayInv

(* A start by the caller or the timer.                                     *)
LEMMA StartStep ==
    ASSUME RelayInv, NEW s \in Sockets, NEW who \in {"caller", "reconnect"},
           start(s, who),
           reconnectTimer' \in {"off", "armed", "stale"}
    PROVE  RelayInv'
<1> USE NoneIsNothing DEF RelayInv
<1>1. TypeOK'
  BY SendTypes, MessageTypes, TailTypes DEF start, serverVars, TypeOK
<1>2. Handshakes'
  BY DEF start, serverVars, TypeOK, Handshakes
<1>3. Registered'
  BY DEF start, serverVars, TypeOK, Registered
<1>4. DeviceIsReachable'
  BY DEF start, serverVars, TypeOK, DeviceIsReachable, Registered
<1>5. NobodyWaitsForTheDead'
  BY DEF start, serverVars, TypeOK, NobodyWaitsForTheDead, Registered, Open, DeviceIsReachable
<1>6. NoWorkLeftBehind'
  BY DEF start, serverVars, TypeOK, NoWorkLeftBehind
<1> QED BY <1>1, <1>2, <1>3, <1>4, <1>5, <1>6

(* A connect fails.                                                        *)
LEMMA ConnectFailsStep ==
    ASSUME RelayInv, NEW s \in Sockets, ConnectFails(s)
    PROVE  RelayInv'
<1> USE NoneIsNothing DEF RelayInv
<1>1. TypeOK'
  BY SendTypes, MessageTypes, TailTypes DEF ConnectFails, serverVars, OnClose, abortRequests, Rejects, scheduleReconnect, TypeOK
<1>2. Handshakes'
  BY DEF ConnectFails, serverVars, OnClose, abortRequests, Rejects, scheduleReconnect, TypeOK, Handshakes
<1>3. Registered'
  BY DEF ConnectFails, serverVars, OnClose, abortRequests, Rejects, scheduleReconnect, TypeOK, Registered
<1>4. DeviceIsReachable'
  BY DEF ConnectFails, serverVars, OnClose, abortRequests, Rejects, scheduleReconnect, TypeOK, DeviceIsReachable, Registered
<1>5. NobodyWaitsForTheDead'
  BY DEF ConnectFails, serverVars, OnClose, abortRequests, Rejects, scheduleReconnect, TypeOK, NobodyWaitsForTheDead, Registered, Open, DeviceIsReachable
<1>6. NoWorkLeftBehind'
  BY DEF ConnectFails, serverVars, OnClose, abortRequests, Rejects, scheduleReconnect, TypeOK, NoWorkLeftBehind
<1> QED BY <1>1, <1>2, <1>3, <1>4, <1>5, <1>6

(* A connect times out.                                                    *)
LEMMA ConnectTimeoutStep ==
    ASSUME RelayInv, NEW s \in Sockets, ConnectTimeout(s)
    PROVE  RelayInv'
<1> USE NoneIsNothing DEF RelayInv
<1>a. ToServer(s, Signal("close")) \in Seq(Message)
  BY SendTypes, MessageTypes
<1>1. TypeOK'
  <2>1. CASE client[s] = "connecting"
    <3>1. /\ job' = abortRequests /\ snapshot' \in {snapshot, "error"}
          /\ reconnectTimer' \in {"armed", reconnectTimer} /\ UNCHANGED up
          /\ client' = [client EXCEPT ![s] = "closed"]
      BY <2>1 DEF ConnectTimeout, OnClose, scheduleReconnect
    <3>2. abortRequests \in [Requests -> {"none", "fetching", "started", "over"}]
      BY DEF abortRequests, TypeOK
    <3>3. /\ promise' = [promise EXCEPT ![s] = "settled"]
          /\ UNCHANGED <<socket, stopped, owner, serverVars, down>>
      BY DEF ConnectTimeout
    <3> QED BY <3>1, <3>2, <3>3 DEF serverVars, TypeOK
  <2>2. CASE client[s] = "open"
    <3>1. /\ client' = [client EXCEPT ![s] = "closing"]
          /\ up' = [up EXCEPT ![s] = ToServer(s, Signal("close"))]
          /\ reconnectTimer' \in {"armed", reconnectTimer}
          /\ promise' = [promise EXCEPT ![s] = "settled"]
          /\ UNCHANGED <<socket, stopped, owner, serverVars, down, snapshot, job>>
      BY <2>2 DEF ConnectTimeout, scheduleReconnect
    <3> QED BY <1>a, <3>1 DEF serverVars, TypeOK
  <2>3. CASE client[s] \notin {"connecting", "open"}
    BY <2>3 DEF ConnectTimeout, serverVars, scheduleReconnect, TypeOK
  <2> QED BY <2>1, <2>2, <2>3
<1>2. Handshakes'
  BY <1>a DEF ConnectTimeout, serverVars, OnClose, abortRequests, Rejects, scheduleReconnect, TypeOK, Handshakes
<1>3. Registered'
  BY <1>a DEF ConnectTimeout, serverVars, OnClose, abortRequests, Rejects, scheduleReconnect, TypeOK, Registered
<1>4. DeviceIsReachable'
  BY <1>a DEF ConnectTimeout, serverVars, OnClose, abortRequests, Rejects, scheduleReconnect, TypeOK, DeviceIsReachable, Registered
<1>5. NobodyWaitsForTheDead'
  BY <1>a DEF ConnectTimeout, serverVars, OnClose, abortRequests, Rejects, scheduleReconnect, TypeOK, NobodyWaitsForTheDead, Registered, Open, DeviceIsReachable
<1>6. NoWorkLeftBehind'
  BY <1>a DEF ConnectTimeout, serverVars, OnClose, abortRequests, Rejects, scheduleReconnect, TypeOK, NoWorkLeftBehind
<1> QED BY <1>1, <1>2, <1>3, <1>4, <1>5, <1>6

(* A connection is made.                                                   *)
LEMMA OpensStep ==
    ASSUME RelayInv, NEW s \in Sockets, Opens(s)
    PROVE  RelayInv'
<1> USE NoneIsNothing DEF RelayInv
<1>a. /\ ToServer(s, Signal("hello")) \in Seq(Message) /\ registry # s
      /\ \A r \in Requests : pending[r] # s
  <2>1. server[s] = "none"
    BY DEF Opens, Handshakes
  <2> QED BY <2>1, SendTypes, MessageTypes DEF Registered, NobodyWaitsForTheDead
<1>1. TypeOK'
  BY <1>a DEF Opens, TypeOK
<1>2. Handshakes'
  BY <1>a DEF Opens, TypeOK, Handshakes
<1>3. Registered'
  BY <1>a DEF Opens, TypeOK, Registered
<1>4. DeviceIsReachable'
  BY <1>a DEF Opens, TypeOK, DeviceIsReachable, Registered
<1>5. NobodyWaitsForTheDead'
  BY <1>a DEF Opens, TypeOK, NobodyWaitsForTheDead, Registered, Open, DeviceIsReachable
<1>6. NoWorkLeftBehind'
  BY <1>a DEF Opens, TypeOK, NoWorkLeftBehind
<1> QED BY <1>1, <1>2, <1>3, <1>4, <1>5, <1>6

(* The client is stopped.                                                  *)
LEMMA StopStep ==
    ASSUME RelayInv, Stop
    PROVE  RelayInv'
<1> USE NoneIsNothing DEF RelayInv
<1>a. socket # None => ToServer(socket, Signal("close")) \in Seq(Message)
  BY SendTypes, MessageTypes DEF TypeOK
<1>1. TypeOK'
  <2>a. /\ stopped' = TRUE /\ snapshot' = "disconnected" /\ socket' = None
        /\ job' = abortRequests /\ UNCHANGED <<owner, serverVars, down>>
        /\ reconnectTimer' \in {"off", "armed", "stale"}
    BY DEF Stop
  <2>b. abortRequests \in [Requests -> {"none", "fetching", "started", "over"}]
    BY DEF abortRequests, TypeOK
  <2>1. CASE socket # None /\ client[socket] = "connecting"
    <3>1. /\ client' = [client EXCEPT ![socket] = "closed"]
          /\ promise' = [promise EXCEPT ![socket] = IF @ = "pending" THEN "settled" ELSE @]
          /\ UNCHANGED up
      BY <2>1 DEF Stop
    <3> QED BY <2>a, <2>b, <2>1, <3>1 DEF serverVars, TypeOK
  <2>2. CASE socket # None /\ client[socket] = "open"
    <3>1. /\ client' = [client EXCEPT ![socket] = "closing"]
          /\ up' = [up EXCEPT ![socket] = ToServer(socket, Signal("close"))]
          /\ UNCHANGED promise
      BY <2>2 DEF Stop
    <3> QED BY <1>a, <2>a, <2>b, <2>2, <3>1 DEF serverVars, TypeOK
  <2>3. CASE socket = None \/ client[socket] \notin {"connecting", "open"}
    <3>1. UNCHANGED <<client, up, promise>>
      BY <2>3 DEF Stop
    <3> QED BY <2>a, <2>b, <3>1 DEF serverVars, TypeOK
  <2> QED BY <2>1, <2>2, <2>3
<1>2. Handshakes'
  BY <1>a DEF Stop, serverVars, abortRequests, Rejects, TypeOK, Handshakes
<1>3. Registered'
  BY <1>a DEF Stop, serverVars, abortRequests, Rejects, TypeOK, Registered
<1>4. DeviceIsReachable'
  BY <1>a DEF Stop, serverVars, abortRequests, Rejects, TypeOK, DeviceIsReachable, Registered
<1>5. NobodyWaitsForTheDead'
  BY <1>a DEF Stop, serverVars, abortRequests, Rejects, TypeOK, NobodyWaitsForTheDead, Registered, Open, DeviceIsReachable
<1>6. NoWorkLeftBehind'
  BY <1>a DEF Stop, serverVars, abortRequests, Rejects, TypeOK, NoWorkLeftBehind
<1> QED BY <1>1, <1>2, <1>3, <1>4, <1>5, <1>6

(* agent.ready.                                                            *)
LEMMA ReadyStep ==
    ASSUME RelayInv, NEW s \in Sockets, handleReady(s)
    PROVE  RelayInv'
<1> USE NoneIsNothing DEF RelayInv
<1>1. TypeOK'
  BY SendTypes, MessageTypes, TailTypes DEF handleReady, ClientTakes, clientVars, serverVars, TypeOK
<1>2. Handshakes'
  BY DEF handleReady, ClientTakes, clientVars, serverVars, TypeOK, Handshakes
<1>3. Registered'
  BY DEF handleReady, ClientTakes, clientVars, serverVars, TypeOK, Registered
<1>4. DeviceIsReachable'
  BY DEF handleReady, ClientTakes, clientVars, serverVars, TypeOK, DeviceIsReachable, Registered
<1>5. NobodyWaitsForTheDead'
  BY DEF handleReady, ClientTakes, clientVars, serverVars, TypeOK, NobodyWaitsForTheDead, Registered, Open, DeviceIsReachable
<1>6. NoWorkLeftBehind'
  BY DEF handleReady, ClientTakes, clientVars, serverVars, TypeOK, NoWorkLeftBehind
<1> QED BY <1>1, <1>2, <1>3, <1>4, <1>5, <1>6

(* http.request.                                                           *)
LEMMA RequestStep ==
    ASSUME RelayInv, NEW s \in Sockets, NEW r \in Requests, handleRequest(s, r)
    PROVE  RelayInv'
<1> USE NoneIsNothing DEF RelayInv
<1>1. TypeOK'
  BY SendTypes, MessageTypes, TailTypes DEF handleRequest, ClientTakes, clientVars, serverVars, TypeOK
<1>2. Handshakes'
  BY DEF handleRequest, ClientTakes, clientVars, serverVars, TypeOK, Handshakes
<1>3. Registered'
  BY DEF handleRequest, ClientTakes, clientVars, serverVars, TypeOK, Registered
<1>4. DeviceIsReachable'
  BY DEF handleRequest, ClientTakes, clientVars, serverVars, TypeOK, DeviceIsReachable, Registered
<1>5. NobodyWaitsForTheDead'
  BY DEF handleRequest, ClientTakes, clientVars, serverVars, TypeOK, NobodyWaitsForTheDead, Registered, Open, DeviceIsReachable
<1>6. NoWorkLeftBehind'
  BY DEF handleRequest, ClientTakes, clientVars, serverVars, TypeOK, NoWorkLeftBehind
<1> QED BY <1>1, <1>2, <1>3, <1>4, <1>5, <1>6

(* request.cancel.                                                         *)
LEMMA CancelStep ==
    ASSUME RelayInv, NEW s \in Sockets, NEW r \in Requests, handleCancel(s, r)
    PROVE  RelayInv'
<1> USE NoneIsNothing DEF RelayInv
<1>1. TypeOK'
  BY SendTypes, MessageTypes, TailTypes DEF handleCancel, ClientTakes, clientVars, serverVars, TypeOK
<1>2. Handshakes'
  BY DEF handleCancel, ClientTakes, clientVars, serverVars, TypeOK, Handshakes
<1>3. Registered'
  BY DEF handleCancel, ClientTakes, clientVars, serverVars, TypeOK, Registered
<1>4. DeviceIsReachable'
  BY DEF handleCancel, ClientTakes, clientVars, serverVars, TypeOK, DeviceIsReachable, Registered
<1>5. NobodyWaitsForTheDead'
  BY DEF handleCancel, ClientTakes, clientVars, serverVars, TypeOK, NobodyWaitsForTheDead, Registered, Open, DeviceIsReachable
<1>6. NoWorkLeftBehind'
  BY DEF handleCancel, ClientTakes, clientVars, serverVars, TypeOK, NoWorkLeftBehind
<1> QED BY <1>1, <1>2, <1>3, <1>4, <1>5, <1>6

(* The client's end closes.                                                *)
LEMMA ClientCloseStep ==
    ASSUME RelayInv, NEW s \in Sockets, handleClose(s)
    PROVE  RelayInv'
<1> USE NoneIsNothing DEF RelayInv
<1>1. TypeOK'
  BY SendTypes, MessageTypes, TailTypes DEF handleClose, ClientTakes, clientVars, serverVars, OnClose, abortRequests, Rejects, scheduleReconnect, TypeOK
<1>2. Handshakes'
  BY DEF handleClose, ClientTakes, clientVars, serverVars, OnClose, abortRequests, Rejects, scheduleReconnect, TypeOK, Handshakes
<1>3. Registered'
  BY DEF handleClose, ClientTakes, clientVars, serverVars, OnClose, abortRequests, Rejects, scheduleReconnect, TypeOK, Registered
<1>4. DeviceIsReachable'
  BY DEF handleClose, ClientTakes, clientVars, serverVars, OnClose, abortRequests, Rejects, scheduleReconnect, TypeOK, DeviceIsReachable, Registered
<1>5. NobodyWaitsForTheDead'
  BY DEF handleClose, ClientTakes, clientVars, serverVars, OnClose, abortRequests, Rejects, scheduleReconnect, TypeOK, NobodyWaitsForTheDead, Registered, Open, DeviceIsReachable
<1>6. NoWorkLeftBehind'
  BY DEF handleClose, ClientTakes, clientVars, serverVars, OnClose, abortRequests, Rejects, scheduleReconnect, TypeOK, NoWorkLeftBehind
<1> QED BY <1>1, <1>2, <1>3, <1>4, <1>5, <1>6

(* A job sends a piece of its answer.                                      *)
LEMMA SendsStep ==
    ASSUME RelayInv, NEW r \in Requests, NEW t \in {"start", "end", "error"},
           NEW then \in {"started", "over"},
           job[r] \in {"fetching", "started"}, Sends(r, t, then)
    PROVE  RelayInv'
<1> USE NoneIsNothing DEF RelayInv
<1>1. TypeOK'
  BY SendTypes, MessageTypes, TailTypes DEF Sends, clientVars, serverVars, TypeOK
<1>2. Handshakes'
  BY DEF Sends, clientVars, serverVars, TypeOK, Handshakes
<1>3. Registered'
  BY DEF Sends, clientVars, serverVars, TypeOK, Registered
<1>4. DeviceIsReachable'
  BY DEF Sends, clientVars, serverVars, TypeOK, DeviceIsReachable, Registered
<1>5. NobodyWaitsForTheDead'
  BY DEF Sends, clientVars, serverVars, TypeOK, NobodyWaitsForTheDead, Registered, Open, DeviceIsReachable
<1>6. NoWorkLeftBehind'
  BY DEF Sends, clientVars, serverVars, TypeOK, NoWorkLeftBehind
<1> QED BY <1>1, <1>2, <1>3, <1>4, <1>5, <1>6

(* The network cuts a connection.                                          *)
LEMMA CutStep ==
    ASSUME RelayInv, NEW s \in Sockets, Cut(s)
    PROVE  RelayInv'
<1> USE NoneIsNothing DEF RelayInv
<1>a. <<>> \in Seq(Message) /\ <<Signal("close")>> \in Seq(Message)
  BY MessageTypes
<1>1. TypeOK'
  BY <1>a DEF Cut, clientVars, serverVars, TypeOK
<1>2. Handshakes'
  BY <1>a DEF Cut, clientVars, serverVars, TypeOK, Handshakes
<1>3. Registered'
  BY <1>a DEF Cut, clientVars, serverVars, TypeOK, Registered
<1>4. DeviceIsReachable'
  BY <1>a DEF Cut, clientVars, serverVars, TypeOK, DeviceIsReachable, Registered
<1>5. NobodyWaitsForTheDead'
  BY <1>a DEF Cut, clientVars, serverVars, TypeOK, NobodyWaitsForTheDead, Registered, Open, DeviceIsReachable
<1>6. NoWorkLeftBehind'
  BY <1>a DEF Cut, clientVars, serverVars, TypeOK, NoWorkLeftBehind
<1> QED BY <1>1, <1>2, <1>3, <1>4, <1>5, <1>6

(* agent.hello.                                                            *)
LEMMA RegisterStep ==
    ASSUME RelayInv, NEW s \in Sockets, register(s)
    PROVE  RelayInv'
<1> USE NoneIsNothing DEF RelayInv
<1>a. /\ \A t \in Sockets : /\ ToClient(t, Signal("ready")) \in Seq(Message)
                             /\ ToClient(t, Signal("close")) \in Seq(Message)
      /\ up[s] # <<>> /\ Tail(up[s]) \in Seq(Message)
  BY SendTypes, MessageTypes, TailTypes DEF TypeOK, register, ServerTakes
<1>1. TypeOK'
  BY <1>a DEF register, ServerTakes, Open, clientVars, TypeOK
<1>2. Handshakes'
  BY <1>a DEF register, ServerTakes, Open, clientVars, TypeOK, Handshakes
<1>3. Registered'
  BY <1>a DEF register, ServerTakes, Open, clientVars, TypeOK, Registered
<1>4. DeviceIsReachable'
  BY <1>a DEF register, ServerTakes, Open, clientVars, TypeOK, DeviceIsReachable, Registered
<1>5. NobodyWaitsForTheDead'
  BY <1>a DEF register, ServerTakes, Open, clientVars, TypeOK, NobodyWaitsForTheDead, Registered, DeviceIsReachable
<1>6. NoWorkLeftBehind'
  BY <1>a DEF register, ServerTakes, Open, clientVars, TypeOK, NoWorkLeftBehind
<1> QED BY <1>1, <1>2, <1>3, <1>4, <1>5, <1>6

(* An HTTP request.                                                        *)
LEMMA HandleStep ==
    ASSUME RelayInv, NEW r \in Requests, handle(r)
    PROVE  RelayInv'
<1> USE NoneIsNothing DEF RelayInv
<1>a. registry # None => registry \in Sockets /\ ToClient(registry, Of("request", r)) \in Seq(Message)
  BY SendTypes, MessageTypes DEF TypeOK
<1>1. TypeOK'
  <2>1. CASE registry # None /\ Open(registry)
    <3>1. /\ pending' = [pending EXCEPT ![r] = registry]
          /\ reply' = [reply EXCEPT ![r] = "open"]
          /\ down' = [down EXCEPT ![registry] = ToClient(registry, Of("request", r))]
          /\ UNCHANGED <<clientVars, job, server, registry, up>>
      BY <2>1 DEF handle
    <3> QED BY <1>a, <2>1, <3>1 DEF clientVars, TypeOK
  <2>2. CASE registry # None => ~Open(registry)
    BY <2>2 DEF handle, clientVars, TypeOK
  <2> QED BY <2>1, <2>2
<1>2. Handshakes'
  BY <1>a DEF handle, Open, clientVars, TypeOK, Handshakes
<1>3. Registered'
  BY <1>a DEF handle, Open, clientVars, TypeOK, Registered
<1>4. DeviceIsReachable'
  BY <1>a DEF handle, Open, clientVars, TypeOK, DeviceIsReachable, Registered
<1>5. NobodyWaitsForTheDead'
  BY <1>a DEF handle, Open, clientVars, TypeOK, NobodyWaitsForTheDead, Registered, DeviceIsReachable
<1>6. NoWorkLeftBehind'
  BY <1>a DEF handle, Open, clientVars, TypeOK, NoWorkLeftBehind
<1> QED BY <1>1, <1>2, <1>3, <1>4, <1>5, <1>6

(* http.response.start.                                                    *)
LEMMA OnStartStep ==
    ASSUME RelayInv, NEW s \in Sockets, NEW r \in Requests, onStart(s, r)
    PROVE  RelayInv'
<1> USE NoneIsNothing DEF RelayInv
<1>1. TypeOK'
  BY SendTypes, MessageTypes, TailTypes DEF onStart, ServerTakes, Open, clientVars, TypeOK
<1>2. Handshakes'
  BY DEF onStart, ServerTakes, Open, clientVars, TypeOK, Handshakes
<1>3. Registered'
  BY DEF onStart, ServerTakes, Open, clientVars, TypeOK, Registered
<1>4. DeviceIsReachable'
  BY DEF onStart, ServerTakes, Open, clientVars, TypeOK, DeviceIsReachable, Registered
<1>5. NobodyWaitsForTheDead'
  BY DEF onStart, ServerTakes, Open, clientVars, TypeOK, NobodyWaitsForTheDead, Registered, DeviceIsReachable
<1>6. NoWorkLeftBehind'
  BY DEF onStart, ServerTakes, Open, clientVars, TypeOK, NoWorkLeftBehind
<1> QED BY <1>1, <1>2, <1>3, <1>4, <1>5, <1>6

(* http.response.end and agent.error.                                      *)
LEMMA OnEndStep ==
    ASSUME RelayInv, NEW s \in Sockets, NEW r \in Requests, onEnd(s, r)
    PROVE  RelayInv'
<1> USE NoneIsNothing DEF RelayInv
<1>a. up[s] # <<>> /\ Tail(up[s]) \in Seq(Message) /\ up' = [up EXCEPT ![s] = Tail(@)]
  BY TailTypes DEF TypeOK, onEnd, ServerTakes
<1>1. TypeOK'
  <2>1. CASE pending[r] # None
    <3>1. finish(r) /\ UNCHANGED <<clientVars, job, server, registry, down>>
      BY <2>1 DEF onEnd
    <3> QED BY <1>a, <3>1 DEF finish, clientVars, TypeOK
  <2>2. CASE pending[r] = None
    <3>1. UNCHANGED <<clientVars, job, server, registry, down, pending, reply>>
      BY <2>2 DEF onEnd
    <3> QED BY <1>a, <3>1 DEF clientVars, TypeOK
  <2> QED BY <2>1, <2>2
<1>2. Handshakes'
  BY <1>a DEF onEnd, finish, ServerTakes, Open, clientVars, TypeOK, Handshakes
<1>3. Registered'
  BY <1>a DEF onEnd, finish, ServerTakes, Open, clientVars, TypeOK, Registered
<1>4. DeviceIsReachable'
  BY <1>a DEF onEnd, finish, ServerTakes, Open, clientVars, TypeOK, DeviceIsReachable, Registered
<1>5. NobodyWaitsForTheDead'
  BY <1>a DEF onEnd, finish, ServerTakes, Open, clientVars, TypeOK, NobodyWaitsForTheDead, Registered, DeviceIsReachable
<1>6. NoWorkLeftBehind'
  BY <1>a DEF onEnd, finish, ServerTakes, Open, clientVars, TypeOK, NoWorkLeftBehind
<1> QED BY <1>1, <1>2, <1>3, <1>4, <1>5, <1>6

(* The timeout of a request.                                               *)
LEMMA TimeoutStep ==
    ASSUME RelayInv, NEW r \in Requests, timeout(r)
    PROVE  RelayInv'
<1> USE NoneIsNothing DEF RelayInv
<1>1. TypeOK'
  BY SendTypes, MessageTypes, TailTypes DEF timeout, finish, clientVars, TypeOK
<1>2. Handshakes'
  BY DEF timeout, finish, clientVars, TypeOK, Handshakes
<1>3. Registered'
  BY DEF timeout, finish, clientVars, TypeOK, Registered
<1>4. DeviceIsReachable'
  BY DEF timeout, finish, clientVars, TypeOK, DeviceIsReachable, Registered
<1>5. NobodyWaitsForTheDead'
  BY DEF timeout, finish, clientVars, TypeOK, NobodyWaitsForTheDead, Registered, Open, DeviceIsReachable
<1>6. NoWorkLeftBehind'
  BY DEF timeout, finish, clientVars, TypeOK, NoWorkLeftBehind
<1> QED BY <1>1, <1>2, <1>3, <1>4, <1>5, <1>6

(* The caller goes.                                                        *)
LEMMA CallerLeavesStep ==
    ASSUME RelayInv, NEW r \in Requests, CallerLeaves(r)
    PROVE  RelayInv'
<1> USE NoneIsNothing DEF RelayInv
<1>a. pending[r] \in Sockets /\ ToClient(pending[r], Of("cancel", r)) \in Seq(Message)
  <2>1. pending[r] \in Sockets
    BY DEF TypeOK, CallerLeaves
  <2> QED BY <2>1, SendTypes, MessageTypes
<1>1. TypeOK'
  BY <1>a DEF CallerLeaves, Open, clientVars, TypeOK
<1>2. Handshakes'
  BY <1>a DEF CallerLeaves, Open, clientVars, TypeOK, Handshakes
<1>3. Registered'
  BY <1>a DEF CallerLeaves, Open, clientVars, TypeOK, Registered
<1>4. DeviceIsReachable'
  BY <1>a DEF CallerLeaves, Open, clientVars, TypeOK, DeviceIsReachable, Registered
<1>5. NobodyWaitsForTheDead'
  BY <1>a DEF CallerLeaves, Open, clientVars, TypeOK, NobodyWaitsForTheDead, Registered, DeviceIsReachable
<1>6. NoWorkLeftBehind'
  BY <1>a DEF CallerLeaves, Open, clientVars, TypeOK, NoWorkLeftBehind
<1> QED BY <1>1, <1>2, <1>3, <1>4, <1>5, <1>6

(* The server's end closes.                                                *)
LEMMA ServerCloseStep ==
    ASSUME RelayInv, NEW s \in Sockets, OnServerClose(s)
    PROVE  RelayInv'
<1> USE NoneIsNothing DEF RelayInv
<1>1. TypeOK'
  BY SendTypes, MessageTypes, TailTypes DEF OnServerClose, Unregistered, cancelSocket, ServerTakes, Open, clientVars, TypeOK
<1>2. Handshakes'
  BY DEF OnServerClose, Unregistered, cancelSocket, ServerTakes, Open, clientVars, TypeOK, Handshakes
<1>3. Registered'
  BY DEF OnServerClose, Unregistered, cancelSocket, ServerTakes, Open, clientVars, TypeOK, Registered
<1>4. DeviceIsReachable'
  BY DEF OnServerClose, Unregistered, cancelSocket, ServerTakes, Open, clientVars, TypeOK, DeviceIsReachable, Registered
<1>5. NobodyWaitsForTheDead'
  BY DEF OnServerClose, Unregistered, cancelSocket, ServerTakes, Open, clientVars, TypeOK, NobodyWaitsForTheDead, Registered, DeviceIsReachable
<1>6. NoWorkLeftBehind'
  BY DEF OnServerClose, Unregistered, cancelSocket, ServerTakes, Open, clientVars, TypeOK, NoWorkLeftBehind
<1> QED BY <1>1, <1>2, <1>3, <1>4, <1>5, <1>6

(* Every step keeps the invariant.                                         *)
LEMMA StepRelay == RelayInv /\ [Next]_vars => RelayInv'
<1> SUFFICES ASSUME RelayInv, [Next]_vars PROVE RelayInv'
  OBVIOUS
<1>1. CASE UNCHANGED vars
  BY <1>1 DEF RelayInv, vars, clientVars, serverVars, TypeOK, Handshakes, Registered,
     DeviceIsReachable, NobodyWaitsForTheDead, NoWorkLeftBehind
<1>2. CASE CallerStarts \/ Reconnect
  <2>1. reconnectTimer' \in {"off", "armed", "stale"}
    BY <1>2 DEF CallerStarts, Reconnect, RelayInv, TypeOK
  <2>2. PICK s \in Sockets, who \in {"caller", "reconnect"} : start(s, who)
    BY <1>2 DEF CallerStarts, Reconnect
  <2> QED BY <2>1, <2>2, StartStep
<1>3. CASE Stop
  BY <1>3, StopStep
<1>4. ASSUME NEW s \in Sockets,
             \/ ConnectFails(s) \/ ConnectTimeout(s) \/ Opens(s)
             \/ handleReady(s) \/ handleClose(s)
             \/ Cut(s) \/ register(s) \/ OnServerClose(s)
      PROVE  RelayInv'
  BY <1>4, ConnectFailsStep, ConnectTimeoutStep, OpensStep, ReadyStep, ClientCloseStep,
     CutStep, RegisterStep, ServerCloseStep
<1>5. ASSUME NEW s \in Sockets, NEW r \in Requests,
             handleRequest(s, r) \/ handleCancel(s, r) \/ onStart(s, r) \/ onEnd(s, r)
      PROVE  RelayInv'
  BY <1>5, RequestStep, CancelStep, OnStartStep, OnEndStep
<1>6. ASSUME NEW r \in Requests, JobAnswers(r) \/ JobFails(r)
      PROVE  RelayInv'
  BY <1>6, SendsStep DEF JobAnswers, JobFails
<1>7. ASSUME NEW r \in Requests, handle(r) \/ timeout(r) \/ CallerLeaves(r)
      PROVE  RelayInv'
  BY <1>7, HandleStep, TimeoutStep, CallerLeavesStep
<1> QED BY <1>1, <1>2, <1>3, <1>4, <1>5, <1>6, <1>7 DEF Next

(* The sockets, the registry, the requests and the jobs fit together.      *)
THEOREM RelayHolds == Spec => []RelayInv
<1>1. Init => RelayInv
  BY InitRelay
<1>2. RelayInv /\ [Next]_vars => RelayInv'
  BY StepRelay
<1> QED BY <1>1, <1>2, PTL DEF Spec

(* Types, for every number of connects and every set of requests.          *)
THEOREM RelayTypes == Spec => []TypeOK
<1>1. RelayInv => TypeOK
  BY DEF RelayInv
<1> QED BY <1>1, RelayHolds, PTL

(* The registry has the socket of the device that is open.                 *)
THEOREM Reachable == Spec => []DeviceIsReachable
<1>1. RelayInv => DeviceIsReachable
  BY DEF RelayInv
<1> QED BY <1>1, RelayHolds, PTL

(* Every open reply is pending on a socket that can still end it.          *)
THEOREM NobodyWaits == Spec => []NobodyWaitsForTheDead
<1>1. RelayInv => NobodyWaitsForTheDead
  BY DEF RelayInv
<1> QED BY <1>1, RelayHolds, PTL

(* No work goes on when all sockets of the client are closed.              *)
THEOREM WorkEnds == Spec => []NoWorkLeftBehind
<1>1. RelayInv => NoWorkLeftBehind
  BY DEF RelayInv
<1> QED BY <1>1, RelayHolds, PTL
=============================================================================
