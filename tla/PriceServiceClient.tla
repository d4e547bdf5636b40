------------------------- MODULE PriceServiceClient -------------------------
(***************************************************************************)
(* The WebSocket side of PriceServiceConnection (price_service/client/js). *)
(* The connection makes a ResilientWebSocket when it is first needed and   *)
(* closes it when no price feed has a callback left; a later subscription  *)
(* makes another one.  Each replaces its own socket when that closes, and  *)
(* then subscribes again to every feed that has a callback.                *)
(*                                                                         *)
(* Calls overlap at their awaits, and the caller need not await them.  An  *)
(* await that waits for nothing yields only to the rest of the turn of the *)
(* event loop, in which the caller may make more calls: events and timers  *)
(* come after it.  The caller sets an onWsError that does not end the      *)
(* process, and leaves startWebSocket to the calls.                        *)
(***************************************************************************)
EXTENDS Integers, SequencesExt

CONSTANTS
  Feed,        \* price ids
  MaxRequest,  \* bound on the calls of the user
  MaxFault     \* bound on the failures

VARIABLES
  priceFeedCallbacks,  \* the ids that have a callback
  connection,          \* wsClient of the connection, 0 for undefined
  clients,             \* every ResilientWebSocket made so far
  calls,               \* calls of the user that have not returned, in order
  overlapped,          \* history: the user interfered with a call (see below)
  requests, faults

userVars == <<requests, overlapped>>
vars == <<priceFeedCallbacks, connection, clients, calls, userVars, faults>>

NewSocket == [state |-> "connecting", subs |-> {}]

\* A ResilientWebSocket that was just started.  sockets keeps those it has
\* made and wsClient names the current one, 0 for undefined; sleeping and
\* waiting are a restart in its backoff, and one that waits for a socket.
Started == [sockets |-> <<NewSocket>>, wsClient |-> 1, wsUserClosed |-> FALSE,
            sleeping |-> FALSE, waiting |-> FALSE]

Init ==
  /\ priceFeedCallbacks = {} /\ connection = 0 /\ clients = <<>> /\ calls = <<>>
  /\ overlapped = FALSE /\ requests = 0 /\ faults = 0

fail == faults < MaxFault /\ faults' = faults + 1

socketState(i) ==
  IF clients[i].wsClient = 0 THEN "none"
  ELSE clients[i].sockets[clients[i].wsClient].state

inState(i, k, state) == clients[i].sockets[k].state = state

\* A call runs in the turn of the loop that made it while it is at
\* "starting", the await of startWebSocket, or at "sending", a send that need
\* not wait.  One that polls for a socket is at "waiting".
turnOver == \A c \in DOMAIN calls : calls[c].at = "waiting"

-----------------------------------------------------------------------------
(* ResilientWebSocket *)

setState(i, k, state) ==
  clients' = [clients EXCEPT ![i].sockets[k] = [state |-> state, subs |-> {}]]

onopen(i, k) ==
  /\ inState(i, k, "connecting") /\ setState(i, k, "open")
  /\ UNCHANGED <<priceFeedCallbacks, connection, calls, userVars, faults>>

\* The handshake fails or the connection is lost; onclose follows.
disconnect(i, k) ==
  /\ inState(i, k, "connecting") \/ inState(i, k, "open")
  /\ fail /\ setState(i, k, "closing")
  /\ UNCHANGED <<priceFeedCallbacks, connection, calls, userVars>>

\* onclose up to its sleep.
onclose(i, k) ==
  /\ inState(i, k, "closing")
  /\ clients' = [clients EXCEPT
       ![i].sockets[k].state = "closed",
       ![i].wsClient = IF clients[i].wsUserClosed THEN @ ELSE 0,
       ![i].sleeping = @ \/ ~clients[i].wsUserClosed]
  /\ UNCHANGED <<priceFeedCallbacks, connection, calls, userVars, faults>>

\* No ping for 33 seconds: the socket is terminated, and a restart begins
\* that waits at once, because the socket is still there.
heartbeatTimeout(i) ==
  /\ socketState(i) = "open" /\ fail
  /\ clients' = [clients EXCEPT
       ![i].sockets[clients[i].wsClient] = [state |-> "closing", subs |-> {}],
       ![i].waiting = TRUE]
  /\ UNCHANGED <<priceFeedCallbacks, connection, calls, userVars>>

startWebSocket(c) ==
  IF c.wsClient # 0 THEN c
  ELSE [c EXCEPT !.sockets = Append(@, NewSocket),
                 !.wsClient = Len(c.sockets) + 1, !.wsUserClosed = FALSE]

\* Mutant: the restart does not look whether the user closed the socket.
restartsAfterClose(i) ==
  /\ clients[i].sleeping
  /\ clients' = [clients EXCEPT ![i] =
       [startWebSocket(@) EXCEPT !.sleeping = FALSE, !.waiting = TRUE]]
  /\ UNCHANGED <<priceFeedCallbacks, connection, calls, userVars, faults>>

\* restartUnexpectedClosedWebsocket after the sleep.
restartUnexpectedClosedWebsocket(i) ==
  /\ clients[i].sleeping
  /\ clients' = [clients EXCEPT ![i] =
       IF @.wsUserClosed THEN [@ EXCEPT !.sleeping = FALSE]
       ELSE [startWebSocket(@) EXCEPT !.sleeping = FALSE, !.waiting = TRUE]]
  /\ UNCHANGED <<priceFeedCallbacks, connection, calls, userVars, faults>>

\* Mutant: a socket that replaces another gets no subscription.
resubscribesNothing(subs) == subs

onReconnect(subs) == subs \cup priceFeedCallbacks

reopened(c) ==
  IF c.wsClient = 0 THEN [c EXCEPT !.waiting = FALSE]
  ELSE [c EXCEPT !.waiting = FALSE, !.sockets[c.wsClient].subs = onReconnect(@)]

\* A restart that waited finds a socket that is open, or none.
reconnected(i) ==
  /\ clients[i].waiting /\ socketState(i) \in {"none", "open"}
  /\ clients' = [clients EXCEPT ![i] = reopened(@)]
  /\ UNCHANGED <<priceFeedCallbacks, connection, calls, userVars, faults>>

\* A restart that has waited for five seconds closes the socket.
restartTimeout(i) ==
  /\ clients[i].waiting /\ socketState(i) = "connecting" /\ fail
  /\ clients' = [clients EXCEPT
       ![i].sockets[clients[i].wsClient].state = "closing",
       ![i].waiting = FALSE]
  /\ UNCHANGED <<priceFeedCallbacks, connection, calls, userVars>>

closed(c) ==
  IF c.wsClient = 0 THEN [c EXCEPT !.wsUserClosed = TRUE]
  ELSE [c EXCEPT !.sockets[c.wsClient] =
                   [state |-> IF @.state = "closed" THEN @.state ELSE "closing",
                    subs |-> {}],
                 !.wsClient = 0, !.wsUserClosed = TRUE]

-----------------------------------------------------------------------------
(* PriceServiceConnection *)

\* closeWebSocket, on ResilientWebSockets that a call leaves as cs.
closeWebSocket(cs) ==
  /\ clients' = IF connection = 0 THEN cs
                ELSE [cs EXCEPT ![connection] = closed(@)]
  /\ connection' = 0 /\ priceFeedCallbacks' = {}

userCloses ==
  /\ connection # 0
  /\ requests < MaxRequest /\ requests' = requests + 1
  /\ overlapped' = (overlapped \/ ~turnOver)
  /\ closeWebSocket(clients)
  /\ UNCHANGED <<calls, faults>>

\* The ids whose first callback a call adds, or whose callbacks it removes.
newPriceIds(type, f) ==
  IF type = "subscribe" THEN {f} \ priceFeedCallbacks
                        ELSE {f} \cap priceFeedCallbacks

updated(subs, type, ids) ==
  IF type = "subscribe" THEN subs \cup ids ELSE subs \ ids

\* The part of a call after startWebSocket, up to the wait in its send.
sending(call) ==
  [call EXCEPT !.at = IF socketState(connection) \in {"none", "open"}
                      THEN "sending" ELSE "waiting",
               !.to = connection, !.ids = newPriceIds(call.type, call.id)]

updateCallbacks(call) ==
  priceFeedCallbacks' = updated(priceFeedCallbacks, call.type, {call.id})

\* A call of the user.  Without a client it makes one and yields; else it goes
\* on to the callbacks at once.
request(type, f) ==
  LET call == [type |-> type, id |-> f, at |-> "starting", to |-> 0, ids |-> {}]
  IN  /\ requests < MaxRequest /\ requests' = requests + 1
      /\ overlapped' = (\/ overlapped \/ (connection = 0 /\ ~turnOver)
                         \/ \E c \in DOMAIN calls : calls[c].id = f)
      /\ IF connection = 0
         THEN /\ connection' = Len(clients) + 1
              /\ clients' = Append(clients, Started)
              /\ calls' = Append(calls, call)
              /\ UNCHANGED priceFeedCallbacks
         ELSE /\ updateCallbacks(call) /\ calls' = Append(calls, sending(call))
              /\ UNCHANGED <<connection, clients>>
      /\ UNCHANGED faults

subscribePriceFeedUpdates(f) == request("subscribe", f)

unsubscribePriceFeedUpdates(f) == request("unsubscribe", f)

\* A call goes on after startWebSocket; calls do so in their order.  If the
\* client is gone by then, it sends nothing and returns.
started(c) ==
  /\ calls[c].at = "starting" /\ \A b \in 1..(c - 1) : calls[b].at # "starting"
  /\ updateCallbacks(calls[c])
  /\ calls' = IF connection = 0 THEN RemoveAt(calls, c)
              ELSE [calls EXCEPT ![c] = sending(@)]
  /\ UNCHANGED <<connection, clients, userVars, faults>>

\* After its message, unsubscribePriceFeedUpdates closes an unused socket.
afterSend(call, cs) ==
  IF call.type = "unsubscribe" /\ priceFeedCallbacks = {}
  THEN closeWebSocket(cs)
  ELSE clients' = cs /\ UNCHANGED <<connection, priceFeedCallbacks>>

\* send after its wait, which may find that there is no socket any more: the
\* message is dropped then.
send(c) ==
  LET call == calls[c]
      i == call.to
  IN  /\ call.at = "sending" \/ (call.at = "waiting" /\ turnOver)
      /\ socketState(i) \in {"none", "open"}
      /\ calls' = RemoveAt(calls, c)
      /\ afterSend(call,
           IF socketState(i) = "none" THEN clients
           ELSE [clients EXCEPT ![i].sockets[clients[i].wsClient].subs =
                                   updated(@, call.type, call.ids)])
      /\ UNCHANGED <<userVars, faults>>

\* A call that has waited for five seconds closes the socket.
sendTimeout(c) ==
  LET call == calls[c]
      i == call.to
  IN  /\ call.at = "waiting" /\ turnOver
      /\ socketState(i) = "connecting" /\ fail
      /\ calls' = RemoveAt(calls, c)
      /\ afterSend(call,
           [clients EXCEPT ![i].sockets[clients[i].wsClient].state = "closing"])
      /\ UNCHANGED userVars

-----------------------------------------------------------------------------
ClientStep(i) ==
  \/ restartUnexpectedClosedWebsocket(i) \/ reconnected(i)
  \/ \E k \in DOMAIN clients[i].sockets : onopen(i, k) \/ onclose(i, k)

\* What happens by itself in the end: the server accepts connections, close
\* events and timers arrive.
Step ==
  \/ \E c \in DOMAIN calls : started(c) \/ send(c)
  \/ turnOver /\ \E i \in DOMAIN clients : ClientStep(i)

Next ==
  \/ Step \/ userCloses
  \/ \E f \in Feed :
       subscribePriceFeedUpdates(f) \/ unsubscribePriceFeedUpdates(f)
  \/ \E c \in DOMAIN calls : sendTimeout(c)
  \/ turnOver /\ \E i \in DOMAIN clients :
       \/ heartbeatTimeout(i) \/ restartTimeout(i)
       \/ \E k \in DOMAIN clients[i].sockets : disconnect(i, k)

Spec == Init /\ [][Next]_vars /\ WF_vars(Step)

-----------------------------------------------------------------------------
(* Properties *)

OpenSockets ==
  UNION {{<<i, k>> : k \in {n \in DOMAIN clients[i].sockets :
                              inState(i, n, "connecting") \/ inState(i, n, "open")}} :
         i \in DOMAIN clients}

Subscribed ==
  /\ connection # 0 /\ socketState(connection) = "open"
  /\ OpenSockets = {<<connection, clients[connection].wsClient>>}
  /\ priceFeedCallbacks \subseteq
       clients[connection].sockets[clients[connection].wsClient].subs

\* No socket is forgotten while it is open or about to be, whatever calls
\* overlap: it is the current socket of the client that the connection uses,
\* so that closeWebSocket and the last unsubscription reach it.
NoSocketLeaked ==
  \A i \in DOMAIN clients : \A k \in DOMAIN clients[i].sockets :
    inState(i, k, "connecting") \/ inState(i, k, "open")
      => connection = i /\ clients[i].wsClient = k

\* Through lost connections, slow handshakes and calls that overlap, every
\* feed that has a callback gets subscribed on the one socket that is open,
\* and when no feed has one no socket stays open (restart and onReconnect of
\* ResilientWebSocket, closeWebSocket after the last unsubscription).  It
\* takes a caller that lets a call for a feed return before the next one for
\* that feed, and that neither closes the connection nor makes another one in
\* the turn of a call.
SubscriptionsFollowCallbacks ==
  []~overlapped
    => []<>(IF priceFeedCallbacks = {} THEN OpenSockets = {} ELSE Subscribed)
=============================================================================
