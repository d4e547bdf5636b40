----------------------------- MODULE LazerPool -----------------------------
(***************************************************************************)
(* The connections of the Lazer client (lazer/sdk/js/src): a WebSocketPool *)
(* of redundant ResilientWebSockets.  Requests go out on every connection, *)
(* and a message that arrives on several of them is passed on once.        *)
(*                                                                         *)
(* A ResilientWebSocket replaces a socket that closed.  The events of its  *)
(* sockets, its timers and the functions that wait for a socket interleave *)
(* at every await; sock keeps every socket ever made, so that one that is  *)
(* forgotten while it is open would be seen.                               *)
(*                                                                         *)
(* The caller awaits a request before it makes the next one.  A handshake  *)
(* of a restart that fails rejects a promise that nobody handles (`void    *)
(* this.handleClose()`): by default that ends a Node process, and the      *)
(* restarts go on only where --unhandled-rejections or a handler says so.  *)
(* Both are modelled, for a client in Node; a browser is not.              *)
(***************************************************************************)
EXTENDS Integers, Sequences, FiniteSets

CONSTANTS
  Conn,        \* the connections of rwsPool
  Sub,         \* subscription ids
  Msg,         \* messages the service publishes
  Unhandled,   \* what a rejection does that nobody handles: "throw", "warn"
  MaxRequest,  \* bound on the requests of the user
  MaxTimeout,  \* bound on the handshakes that exceed CONNECTION_TIMEOUT
  MaxFault     \* bound on the failures, those handshakes included

VARIABLES
  phase,         \* "creating", "ready", "shutdown"; "ended" for the process
  created,       \* the promises create awaits: "pending", "resolved", "rejected"
  unhandledRejections,  \* "throw" or "warn"
  sock,          \* the sockets each connection has made
  wsClient,      \* index of the current socket, 0 for undefined
  wsUserClosed,
  promise,       \* connectionPromise: "none", "pending", "settled"
  restart,       \* the restart after a close: "none", "sleep", "connect"
  terminated,    \* a restart after a heartbeat timeout waits for a socket
  subscriptions,
  sends,         \* calls of send that wait for a socket
  wasAllDown,
  cache,         \* messages seen in the last ten seconds
  arriving,      \* messages under way on each connection
  delivered,     \* how often each message was passed to the listeners
  requests, timeouts, faults

poolVars == <<phase, created, unhandledRejections>>
connVars == <<sock, wsClient, wsUserClosed, promise, restart, terminated>>
msgVars == <<cache, arriving, delivered>>
countVars == <<requests, timeouts, faults>>
vars == <<poolVars, connVars, subscriptions, sends, wasAllDown, msgVars, countVars>>

NewSocket == [state |-> "connecting", subs |-> {}, late |-> FALSE]
Request == [type : {"subscribe", "unsubscribe"}, id : Sub]

Init ==
  /\ phase = "creating" /\ created = [r \in Conn |-> "pending"]
  /\ unhandledRejections \in Unhandled
  /\ sock = [r \in Conn |-> <<NewSocket>>]
  /\ wsClient = [r \in Conn |-> 1]
  /\ wsUserClosed = [r \in Conn |-> FALSE]
  /\ promise = [r \in Conn |-> "pending"]
  /\ restart = [r \in Conn |-> "none"]
  /\ terminated = [r \in Conn |-> FALSE]
  /\ subscriptions = {} /\ sends = [r \in Conn |-> {}]
  /\ wasAllDown = TRUE
  /\ cache = {} /\ arriving = [r \in Conn |-> {}]
  /\ delivered = [m \in Msg |-> 0]
  /\ requests = 0 /\ timeouts = 0 /\ faults = 0

\* The fields have their types, and the current socket of a connection is
\* one that it made.
TypeOK ==
  /\ phase \in {"creating", "ready", "shutdown", "ended"}
  /\ created \in [Conn -> {"pending", "resolved", "rejected"}]
  /\ unhandledRejections \in Unhandled
  /\ sock \in [Conn -> Seq([state : {"connecting", "open", "closing", "closed"},
                            subs : SUBSET Sub, late : BOOLEAN])]
  /\ \A r \in Conn : wsClient[r] \in 0..Len(sock[r])
  /\ wsUserClosed \in [Conn -> BOOLEAN]
  /\ promise \in [Conn -> {"none", "pending", "settled"}]
  /\ restart \in [Conn -> {"none", "sleep", "connect"}]
  /\ terminated \in [Conn -> BOOLEAN]
  /\ subscriptions \subseteq Sub /\ sends \in [Conn -> SUBSET Request]
  /\ wasAllDown \in BOOLEAN
  /\ cache \subseteq Msg /\ arriving \in [Conn -> SUBSET Msg]
  /\ delivered \in [Msg -> Nat]

fail == faults < MaxFault /\ faults' = faults + 1

current(r) == sock[r][wsClient[r]]
isConnected(r) == wsClient[r] # 0 /\ current(r).state = "open"

setState(r, k, state) ==
  sock' = [sock EXCEPT ![r][k].state = state,
                       ![r][k].subs = IF state = "open" THEN @ ELSE {}]

-----------------------------------------------------------------------------
(* ResilientWebSocket *)

awaits(r) == restart[r] = "connect" /\ promise[r] = "pending"

\* A restart that awaits a rejected promise throws, and nobody handles it.
throws(condition) ==
  phase' = IF condition /\ unhandledRejections = "throw" THEN "ended" ELSE phase

settleCreated(r, outcome) ==
  created' = [created EXCEPT ![r] = IF @ = "pending" THEN outcome ELSE @]

\* Settling the promise wakes the restart that awaits it: it goes on to
\* onReconnect when the socket is open, and throws when it was rejected.
settle(r, outcome) ==
  /\ settleCreated(r, outcome)
  /\ throws(outcome = "rejected" /\ awaits(r))
  /\ promise' = [promise EXCEPT ![r] = IF @ = "pending" THEN "settled" ELSE @]
  /\ restart' = [restart EXCEPT ![r] = IF awaits(r) THEN "none" ELSE @]

\* Mutant: a socket that replaces another gets no subscription.
openWithoutSubscriptions(r, k) ==
  /\ sock[r][k].state = "connecting"
  /\ settle(r, "resolved")
  /\ sock' = [sock EXCEPT ![r][k].state = "open"]
  /\ UNCHANGED <<unhandledRejections, wsClient, wsUserClosed, terminated, subscriptions,
                 sends, wasAllDown, msgVars, countVars>>

\* The open event.  onReconnect sends every subscription of the pool.
open(r, k) ==
  /\ sock[r][k].state = "connecting"
  /\ settle(r, "resolved")
  /\ sock' = [sock EXCEPT ![r][k].state = "open",
                          ![r][k].subs = IF restart'[r] # restart[r]
                                         THEN subscriptions ELSE @]
  /\ UNCHANGED <<unhandledRejections, wsClient, wsUserClosed, terminated, subscriptions,
                 sends, wasAllDown, msgVars, countVars>>

\* The error event of a handshake; the close event follows.
connectionFails(r, k) ==
  /\ sock[r][k].state = "connecting" /\ fail
  /\ settle(r, "rejected")
  /\ setState(r, k, "closing")
  /\ UNCHANGED <<unhandledRejections, wsClient, wsUserClosed, terminated, subscriptions,
                 sends, wasAllDown, msgVars, requests, timeouts>>

\* Mutant: the timeout forgets the socket without closing it.
abandonsHandshake(r) ==
  /\ wsClient[r] # 0 /\ current(r).state = "connecting"
  /\ promise[r] = "pending"
  /\ timeouts < MaxTimeout /\ timeouts' = timeouts + 1 /\ fail
  /\ settle(r, "rejected")
  /\ wsClient' = [wsClient EXCEPT ![r] = 0]
  /\ UNCHANGED <<unhandledRejections, sock, wsUserClosed, terminated, subscriptions,
                 sends, wasAllDown, msgVars, requests>>

\* The promise is rejected, while the handshake goes on.
connectionTimeout(r) ==
  /\ wsClient[r] # 0 /\ current(r).state = "connecting"
  /\ promise[r] = "pending"
  /\ timeouts < MaxTimeout /\ timeouts' = timeouts + 1 /\ fail
  /\ settle(r, "rejected")
  /\ sock' = [sock EXCEPT ![r][wsClient[r]].late = TRUE]
  /\ UNCHANGED <<unhandledRejections, wsClient, wsUserClosed, terminated, subscriptions,
                 sends, wasAllDown, msgVars, requests>>

disconnect(r, k) ==
  /\ sock[r][k].state = "open" /\ fail
  /\ setState(r, k, "closing")
  /\ UNCHANGED <<poolVars, wsClient, wsUserClosed, promise, restart, terminated,
                 subscriptions, sends, wasAllDown, msgVars, requests,
                 timeouts>>

\* No message and no ping for ten seconds: the socket is terminated, and a
\* restart begins at once; the current socket is still there.  The restart
\* awaits the promise of that socket, and throws if it was rejected.
heartbeatTimeout(r) ==
  /\ isConnected(r) /\ fail
  /\ throws(current(r).late)
  /\ setState(r, wsClient[r], "closing")
  /\ terminated' = [terminated EXCEPT ![r] = @ \/ ~current(r).late]
  /\ UNCHANGED <<created, unhandledRejections, wsClient, wsUserClosed, promise,
                 restart, subscriptions, sends, wasAllDown, msgVars, requests,
                 timeouts>>

\* That restart goes on when the current socket is open, or ends when there
\* is none.
terminatedReady(r) ==
  /\ terminated[r] /\ (wsClient[r] = 0 \/ isConnected(r))
  /\ terminated' = [terminated EXCEPT ![r] = FALSE]
  /\ sock' = IF isConnected(r)
             THEN [sock EXCEPT ![r][wsClient[r]].subs = subscriptions]
             ELSE sock
  /\ UNCHANGED <<poolVars, wsClient, wsUserClosed, promise, restart,
                 subscriptions, sends, wasAllDown, msgVars, countVars>>

\* The close event, which rejects a promise still pending, and handleClose
\* up to its sleep.  After closeWebSocket there is no promise to reject.
handleClose(r, k) ==
  /\ sock[r][k].state = "closing"
  /\ setState(r, k, "closed")
  /\ IF wsUserClosed[r]
     THEN UNCHANGED <<phase, created, wsClient, promise, restart>>
     ELSE /\ settleCreated(r, "rejected") /\ throws(awaits(r))
          /\ wsClient' = [wsClient EXCEPT ![r] = 0]
          /\ promise' = [promise EXCEPT ![r] = "none"]
          /\ restart' = [restart EXCEPT ![r] = "sleep"]
  /\ UNCHANGED <<unhandledRejections, wsUserClosed, terminated, subscriptions,
                 sends, wasAllDown, msgVars, countVars>>

\* Mutant: the client is set although the socket could not be made.
startWithoutSocket(r) ==
  IF wsClient[r] # 0
  THEN UNCHANGED <<sock, wsClient, promise>>
  ELSE /\ wsClient' = [wsClient EXCEPT ![r] = Len(sock[r]) + 1]
       /\ UNCHANGED <<sock, promise>>

startWebSocket(r) ==
  IF wsClient[r] # 0
  THEN UNCHANGED <<sock, wsClient, promise>>
  ELSE /\ sock' = [sock EXCEPT ![r] = Append(@, NewSocket)]
       /\ wsClient' = [wsClient EXCEPT ![r] = Len(sock[r]) + 1]
       /\ promise' = [promise EXCEPT ![r] = "pending"]

\* Mutant: the restart does not look whether the user closed the socket.
restartsAfterShutdown(r) ==
  /\ restart[r] = "sleep"
  /\ restart' = [restart EXCEPT ![r] = "connect"]
  /\ startWebSocket(r)
  /\ UNCHANGED <<poolVars, wsUserClosed, terminated, subscriptions, sends,
                 wasAllDown, msgVars, countVars>>

\* restartUnexpectedClosedWebsocket after the sleep.
restartUnexpectedClosedWebsocket(r) ==
  /\ restart[r] = "sleep"
  /\ IF wsUserClosed[r]
     THEN /\ restart' = [restart EXCEPT ![r] = "none"]
          /\ UNCHANGED <<sock, wsClient, promise>>
     ELSE /\ restart' = [restart EXCEPT ![r] = "connect"]
          /\ startWebSocket(r)
  /\ UNCHANGED <<poolVars, wsUserClosed, terminated, subscriptions, sends,
                 wasAllDown, msgVars, countVars>>

-----------------------------------------------------------------------------
(* Requests *)

serverApply(subs, request) ==
  IF request.type = "subscribe" THEN subs \cup {request.id}
                                ELSE subs \ {request.id}

\* send after its wait; without a socket the request is dropped.
send(r, request) ==
  /\ request \in sends[r] /\ (wsClient[r] = 0 \/ isConnected(r))
  /\ sends' = [sends EXCEPT ![r] = @ \ {request}]
  /\ sock' = IF isConnected(r)
             THEN [sock EXCEPT ![r][wsClient[r]].subs = serverApply(@, request)]
             ELSE sock
  /\ UNCHANGED <<poolVars, wsClient, wsUserClosed, promise, restart, terminated,
                 subscriptions, wasAllDown, msgVars, countVars>>

\* A wait of more than five seconds closes the socket; the request is lost.
sendTimeout(r, request) ==
  /\ request \in sends[r] /\ wsClient[r] # 0
  /\ current(r).state = "connecting" /\ fail
  /\ sends' = [sends EXCEPT ![r] = @ \ {request}]
  /\ setState(r, wsClient[r], "closing")
  /\ UNCHANGED <<poolVars, wsClient, wsUserClosed, promise, restart, terminated,
                 subscriptions, wasAllDown, msgVars, requests, timeouts>>

awaited == \A r \in Conn : sends[r] = {}

sendRequest(request) ==
  /\ requests < MaxRequest /\ requests' = requests + 1
  /\ sends' = [r \in Conn |-> {request}]

addSubscription(s) ==
  /\ phase = "ready" /\ awaited /\ s \notin subscriptions
  /\ subscriptions' = subscriptions \cup {s}
  /\ sendRequest([type |-> "subscribe", id |-> s])
  /\ UNCHANGED <<poolVars, connVars, wasAllDown, msgVars, timeouts, faults>>

removeSubscription(s) ==
  /\ phase = "ready" /\ awaited /\ s \in subscriptions
  /\ subscriptions' = subscriptions \ {s}
  /\ sendRequest([type |-> "unsubscribe", id |-> s])
  /\ UNCHANGED <<poolVars, connVars, wasAllDown, msgVars, timeouts, faults>>

-----------------------------------------------------------------------------
(* WebSocketPool *)

create ==
  /\ phase = "creating" /\ \A r \in Conn : created[r] = "resolved"
  /\ phase' = "ready"
  /\ UNCHANGED <<created, unhandledRejections, connVars, subscriptions, sends,
                 wasAllDown, msgVars, countVars>>

\* closeWebSocket on every connection.
shutdown ==
  /\ phase' = "shutdown"
  /\ sock' = [r \in Conn |-> [k \in DOMAIN sock[r] |->
                IF k = wsClient[r] /\ sock[r][k].state # "closed"
                THEN [sock[r][k] EXCEPT !.state = "closing", !.subs = {}]
                ELSE sock[r][k]]]
  /\ wsClient' = [r \in Conn |-> 0]
  /\ promise' = [r \in Conn |-> "none"]
  /\ wsUserClosed' = [r \in Conn |-> TRUE]
  /\ subscriptions' = {}
  /\ UNCHANGED <<created, unhandledRejections, restart, terminated, sends,
                 wasAllDown, msgVars, countVars>>

\* create cleans up when one of its connections fails.
createFails ==
  /\ phase = "creating" /\ \E r \in Conn : created[r] = "rejected"
  /\ shutdown

userShutdown == phase = "ready" /\ shutdown

isReconnecting(r) == restart[r] # "none"
areAllConnectionsDown == \A r \in Conn : ~isConnected(r) \/ isReconnecting(r)

checkConnectionStates ==
  /\ phase # "shutdown"
  /\ wasAllDown' = areAllConnectionsDown
  /\ UNCHANGED <<poolVars, connVars, subscriptions, sends, msgVars, countVars>>

\* The service publishes a message to every socket that has a subscription.
publish(m) ==
  /\ delivered[m] = 0 /\ m \notin cache
  /\ \A r \in Conn : m \notin arriving[r]
  /\ arriving' = [r \in Conn |->
                    IF isConnected(r) /\ current(r).subs # {}
                    THEN arriving[r] \cup {m} ELSE arriving[r]]
  /\ UNCHANGED <<poolVars, connVars, subscriptions, sends, wasAllDown, cache,
                 delivered, countVars>>

\* Mutant: the first copy is not put into the cache.
dedupeWithoutCaching(r, m) ==
  /\ m \in arriving[r]
  /\ arriving' = [arriving EXCEPT ![r] = @ \ {m}]
  /\ delivered' = [delivered EXCEPT ![m] = IF phase = "shutdown" THEN @ ELSE @ + 1]
  /\ UNCHANGED <<poolVars, connVars, subscriptions, sends, wasAllDown, cache, countVars>>

dedupeHandler(r, m) ==
  /\ m \in arriving[r]
  /\ arriving' = [arriving EXCEPT ![r] = @ \ {m}]
  /\ cache' = cache \cup {m}
  /\ delivered' = [delivered EXCEPT ![m] =
                     IF m \in cache \/ phase = "shutdown" THEN @ ELSE @ + 1]
  /\ UNCHANGED <<poolVars, connVars, subscriptions, sends, wasAllDown, countVars>>

\* The cache forgets a message ten seconds after its first copy; the copies
\* of a message arrive within that time.
expire(m) ==
  /\ m \in cache /\ \A r \in Conn : m \notin arriving[r]
  /\ cache' = cache \ {m}
  /\ UNCHANGED <<poolVars, connVars, subscriptions, sends, wasAllDown, arriving,
                 delivered, countVars>>

-----------------------------------------------------------------------------
SocketNext ==
  \E r \in Conn :
    \/ connectionTimeout(r) \/ heartbeatTimeout(r) \/ terminatedReady(r)
    \/ restartUnexpectedClosedWebsocket(r)
    \/ \E k \in DOMAIN sock[r] :
         \/ open(r, k) \/ connectionFails(r, k) \/ disconnect(r, k)
         \/ handleClose(r, k)

RequestNext ==
  \/ \E s \in Sub : addSubscription(s) \/ removeSubscription(s)
  \/ \E r \in Conn : \E request \in sends[r] :
       send(r, request) \/ sendTimeout(r, request)

PoolNext ==
  \/ create \/ createFails \/ userShutdown \/ checkConnectionStates
  \/ \E m \in Msg :
       publish(m) \/ expire(m) \/ \E r \in Conn : dedupeHandler(r, m)

Next == phase # "ended" /\ (SocketNext \/ RequestNext \/ PoolNext)

SocketStep(r) ==
  /\ phase # "ended"
  /\ \/ terminatedReady(r) \/ restartUnexpectedClosedWebsocket(r)
     \/ \E k \in DOMAIN sock[r] : open(r, k) \/ handleClose(r, k)
     \/ \E request \in sends[r] : send(r, request)

\* The service accepts connections, close events and timers arrive.
Fairness == (\A r \in Conn : WF_vars(SocketStep(r))) /\ WF_vars(create \/ createFails)

Spec == Init /\ [][Next]_vars

FairSpec == Spec /\ Fairness

-----------------------------------------------------------------------------
(* Properties *)

\* A connection never forgets a socket that is open or about to be: such a
\* socket is its current one, so there is at most one, through any order of
\* close events, heartbeat timeouts and restarts.
NoSocketLeaked ==
  \A r \in Conn : \A k \in DOMAIN sock[r] :
    sock[r][k].state \in {"connecting", "open"} => wsClient[r] = k

\* A message that arrives on several connections reaches the listeners once.
DeliveredOnce == \A m \in Msg : delivered[m] <= 1

Restored(r) == isConnected(r) /\ subscriptions \subseteq current(r).subs

\* When no handshake takes longer than CONNECTION_TIMEOUT, every connection
\* of a pool that runs gets, after any sequence of disconnections, failed
\* handshakes and heartbeat timeouts, a socket that is open and has every
\* subscription of the pool (restart and onReconnect).
SubscriptionsRestored ==
  [](\A r \in Conn : \A k \in DOMAIN sock[r] : ~sock[r][k].late)
    => \A r \in Conn : []<>(phase # "ready" \/ Restored(r))

\* What the comment at onReconnect says, with no condition: a connection that
\* was lost is made again and onReconnect is called, until the user shuts the
\* pool down.
ReconnectCallsBack ==
  \A r \in Conn : []<>(phase \in {"creating", "shutdown"} \/ Restored(r))

\* A shut down pool closes its sockets for good: no restart that was under
\* way opens another.
ShutdownIsFinal ==
  phase = "shutdown" ~>
    [](\A r \in Conn : \A k \in DOMAIN sock[r] : sock[r][k].state = "closed")
=============================================================================
