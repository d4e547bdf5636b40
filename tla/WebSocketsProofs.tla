-------------------------- MODULE WebSocketsProofs --------------------------
(***************************************************************************)
(* Proofs about the connection pool of the Lazer client: for any number of *)
(* connections, subscriptions, messages and failures, no open socket is    *)
(* forgotten and no message is passed on twice.  And about the connection  *)
(* of the price service client: no open socket is forgotten, however calls *)
(* overlap.                                                                *)
(***************************************************************************)
EXTENDS MCWebSockets, TLAPS

Socket == [state : {"connecting", "open", "closing", "closed"},
           subs : SUBSET Sub, late : BOOLEAN]

Typed == Lazer!TypeOK /\ wsClient \in [Conn -> Nat]

\* Unless the user closed the connection, a socket that is not closed is
\* the current one, also while its close event is awaited: only then does
\* the close event, which clears the current socket, clear the right one.
\* Once the user closed it no socket is open or about to be.
SocketInv ==
  \A r \in Conn : \A k \in DOMAIN sock[r] :
    /\ ~wsUserClosed[r] /\ sock[r][k].state # "closed" => wsClient[r] = k
    /\ wsUserClosed[r] => sock[r][k].state \in {"closing", "closed"}

\* A message that was passed on is still in the cache or has no copy left.
DeliveryInv ==
  \A m \in Msg :
    /\ delivered[m] \in {0, 1}
    /\ delivered[m] = 1 => m \in cache \/ \A r \in Conn : m \notin arriving[r]

-----------------------------------------------------------------------------
(* Changes of one socket *)

replaced(r, k, s) == sock' = [sock EXCEPT ![r] = [sock[r] EXCEPT ![k] = s]]

\* The sockets have their types.
LEMMA SocketsTyped ==
  ASSUME Typed
  PROVE  /\ sock \in [Conn -> Seq(Socket)]
         /\ \A r \in Conn : \A k \in DOMAIN sock[r] : sock[r][k] \in Socket
<1>1. sock \in [Conn -> Seq(Socket)]
  BY DEF Typed, Lazer!TypeOK, Socket
<1> QED BY <1>1

\* Replacing one socket leaves the others and keeps the type.
LEMMA ReplacedSocket ==
  ASSUME Typed, NEW r \in Conn, NEW k \in DOMAIN sock[r], NEW s \in Socket,
         replaced(r, k, s)
  PROVE  /\ sock' \in [Conn -> Seq(Socket)]
         /\ \A q \in Conn : /\ DOMAIN sock'[q] = DOMAIN sock[q]
                            /\ Len(sock'[q]) = Len(sock[q])
         /\ \A q \in Conn : \A j \in DOMAIN sock[q] :
              sock'[q][j] = IF q = r /\ j = k THEN s ELSE sock[q][j]
<1>1. sock \in [Conn -> Seq(Socket)]
  BY DEF Typed, Lazer!TypeOK, Socket
<1> DEFINE t == [sock[r] EXCEPT ![k] = s]
<1>2. /\ t \in Seq(Socket) /\ DOMAIN t = DOMAIN sock[r] /\ Len(t) = Len(sock[r])
      /\ \A j \in DOMAIN sock[r] : t[j] = IF j = k THEN s ELSE sock[r][j]
  BY <1>1
<1>3. sock' = [sock EXCEPT ![r] = t]
  BY DEF replaced
<1> HIDE DEF t
<1>4. \A q \in Conn : sock'[q] = IF q = r THEN t ELSE sock[q]
  BY <1>1, <1>3
<1>5. sock' \in [Conn -> Seq(Socket)]
  BY <1>1, <1>2, <1>3
<1> QED BY <1>2, <1>4, <1>5

\* The current socket of a connection that has one is among its sockets.
LEMMA CurrentSocket ==
  ASSUME Typed, NEW r \in Conn, wsClient[r] # 0
  PROVE  wsClient[r] \in DOMAIN sock[r]
<1>1. sock[r] \in Seq(Socket) /\ wsClient[r] \in 0..Len(sock[r])
  BY DEF Typed, Lazer!TypeOK, Socket
<1> QED BY <1>1

\* setState replaces a socket by one in the new state.
LEMMA SetState ==
  ASSUME Typed, NEW r \in Conn, NEW k \in DOMAIN sock[r],
         NEW state \in {"closing", "closed"}, Lazer!setState(r, k, state)
  PROVE  \E s \in Socket : replaced(r, k, s) /\ s.state = state
<1> DEFINE s == [sock[r][k] EXCEPT !.state = state,
                   !.subs = IF state = "open" THEN sock[r][k].subs ELSE {}]
<1>1. sock \in [Conn -> Seq(Socket)]
  BY DEF Typed, Lazer!TypeOK, Socket
<1>2. replaced(r, k, s)
  BY <1>1 DEF Lazer!setState, replaced, Socket
<1>3. sock[r][k] \in Socket
  BY <1>1
<1>4. s \in Socket /\ s.state = state
  BY <1>3 DEF Socket
<1> HIDE DEF s
<1> QED BY <1>2, <1>4

\* A change of the subscriptions of a socket leaves its state.
LEMMA SetSubs ==
  ASSUME Typed, NEW r \in Conn, NEW k \in DOMAIN sock[r],
         NEW subs \in SUBSET Sub,
         sock' = [sock EXCEPT ![r][k].subs = subs]
  PROVE  \E s \in Socket : replaced(r, k, s) /\ s.state = sock[r][k].state
<1> DEFINE s == [sock[r][k] EXCEPT !.subs = subs]
<1>1. sock \in [Conn -> Seq(Socket)]
  BY DEF Typed, Lazer!TypeOK, Socket
<1>2. replaced(r, k, s)
  BY <1>1 DEF replaced, Socket
<1>3. sock[r][k] \in Socket
  BY <1>1
<1>4. s \in Socket /\ s.state = sock[r][k].state
  BY <1>3 DEF Socket
<1> HIDE DEF s
<1> QED BY <1>2, <1>4

-----------------------------------------------------------------------------
(* How a step changes the sockets *)

\* One socket is replaced by one that is no more alive, or none changes.
SocketsDecline ==
  /\ UNCHANGED <<wsClient, wsUserClosed>>
  /\ \/ sock' = sock
     \/ \E r \in Conn : \E k \in DOMAIN sock[r] : \E s \in Socket :
          /\ replaced(r, k, s)
          /\ s.state # "closed"
          /\ sock[r][k].state # "closed"
          /\ sock[r][k].state = "closing" => s.state = "closing"

\* A close event that is not the user's clears the current socket.
CloseEvent(r, k) ==
  /\ sock[r][k].state = "closing" /\ UNCHANGED wsUserClosed
  /\ \E s \in Socket : replaced(r, k, s) /\ s.state = "closed"
  /\ wsClient' = IF wsUserClosed[r] THEN wsClient
                 ELSE [wsClient EXCEPT ![r] = 0]

\* A restart makes a socket when there is no current one.
NewCurrent(r) ==
  /\ wsClient[r] = 0 /\ ~wsUserClosed[r] /\ UNCHANGED wsUserClosed
  /\ sock' = [sock EXCEPT ![r] = Append(@, Lazer!NewSocket)]
  /\ wsClient' = [wsClient EXCEPT ![r] = Len(sock[r]) + 1]

SocketChange ==
  \/ SocketsDecline \/ Lazer!shutdown
  \/ \E r \in Conn : NewCurrent(r) \/ \E k \in DOMAIN sock[r] : CloseEvent(r, k)

\* The steps of a connection change its sockets in one of these ways.
LEMMA ConnectionChanges ==
  ASSUME Typed, Lazer!SocketNext
  PROVE  SocketChange
<1> PICK r \in Conn :
      \/ Lazer!connectionTimeout(r) \/ Lazer!heartbeatTimeout(r)
      \/ Lazer!terminatedReady(r) \/ Lazer!restartUnexpectedClosedWebsocket(r)
      \/ \E k \in DOMAIN sock[r] :
           \/ Lazer!open(r, k) \/ Lazer!connectionFails(r, k)
           \/ Lazer!disconnect(r, k) \/ Lazer!handleClose(r, k)
  BY DEF Lazer!SocketNext
<1>t. /\ sock \in [Conn -> Seq(Socket)] /\ subscriptions \subseteq Sub
      /\ \A k \in DOMAIN sock[r] : sock[r][k] \in Socket
  BY SocketsTyped DEF Typed, Lazer!TypeOK
<1>1. CASE Lazer!connectionTimeout(r)
  <2> DEFINE k == wsClient[r]
             s == [sock[r][k] EXCEPT !.late = TRUE]
  <2>1. /\ k \in DOMAIN sock[r] /\ sock[r][k].state = "connecting"
        /\ sock' = [sock EXCEPT ![r][k].late = TRUE]
        /\ UNCHANGED <<wsClient, wsUserClosed>>
    BY <1>1, CurrentSocket DEF Lazer!connectionTimeout, Lazer!current
  <2> HIDE DEF k
  <2>2. s \in Socket /\ s.state = "connecting"
    BY <1>t, <2>1 DEF Socket
  <2>3. replaced(r, k, s)
    BY <1>t, <2>1 DEF replaced, Socket
  <2> HIDE DEF s
  <2> QED BY <2>1, <2>2, <2>3 DEF SocketsDecline, SocketChange
<1>2. CASE Lazer!heartbeatTimeout(r)
  <2>1. /\ wsClient[r] \in DOMAIN sock[r]
        /\ sock[r][wsClient[r]].state = "open"
        /\ Lazer!setState(r, wsClient[r], "closing")
        /\ UNCHANGED <<wsClient, wsUserClosed>>
    BY <1>2, CurrentSocket
       DEF Lazer!heartbeatTimeout, Lazer!isConnected, Lazer!current
  <2> QED BY <2>1, SetState DEF SocketsDecline, SocketChange
<1>3. CASE Lazer!terminatedReady(r)
  <2>1. UNCHANGED <<wsClient, wsUserClosed>>
    BY <1>3 DEF Lazer!terminatedReady
  <2>2. CASE Lazer!isConnected(r)
    <3>1. /\ wsClient[r] \in DOMAIN sock[r]
          /\ sock[r][wsClient[r]].state = "open"
          /\ sock' = [sock EXCEPT ![r][wsClient[r]].subs = subscriptions]
      BY <1>3, <2>2, CurrentSocket
         DEF Lazer!terminatedReady, Lazer!isConnected, Lazer!current
    <3>2. \E s \in Socket : replaced(r, wsClient[r], s) /\ s.state = "open"
      BY <1>t, <3>1, SetSubs
    <3> QED BY <2>1, <3>1, <3>2 DEF SocketsDecline, SocketChange
  <2>3. CASE ~Lazer!isConnected(r)
    BY <1>3, <2>1, <2>3 DEF Lazer!terminatedReady, SocketsDecline, SocketChange
  <2> QED BY <2>2, <2>3
<1>4. CASE Lazer!restartUnexpectedClosedWebsocket(r)
  <2>1. CASE UNCHANGED <<sock, wsClient>>
    BY <1>4, <2>1 DEF Lazer!restartUnexpectedClosedWebsocket, SocketsDecline, SocketChange
  <2>2. CASE ~UNCHANGED <<sock, wsClient>>
    BY <1>4, <2>2 DEF Lazer!restartUnexpectedClosedWebsocket, NewCurrent, SocketChange,
                 Lazer!startWebSocket
  <2> QED BY <2>1, <2>2
<1>5. ASSUME NEW k \in DOMAIN sock[r], Lazer!open(r, k) PROVE SocketChange
  <2> DEFINE s == [sock[r][k] EXCEPT !.state = "open",
                     !.subs = IF restart'[r] # restart[r]
                              THEN subscriptions ELSE sock[r][k].subs]
  <2>1. s \in Socket /\ s.state = "open"
    BY <1>t DEF Socket
  <2>2. replaced(r, k, s)
    BY <1>5, <1>t DEF Lazer!open, replaced, Socket
  <2> HIDE DEF s
  <2> QED BY <1>5, <2>1, <2>2 DEF Lazer!open, SocketsDecline, SocketChange
<1>6. ASSUME NEW k \in DOMAIN sock[r], Lazer!connectionFails(r, k)
      PROVE  SocketChange
  BY <1>6, SetState DEF Lazer!connectionFails, SocketsDecline, SocketChange
<1>7. ASSUME NEW k \in DOMAIN sock[r], Lazer!disconnect(r, k) PROVE SocketChange
  BY <1>7, SetState DEF Lazer!disconnect, SocketsDecline, SocketChange
<1>8. ASSUME NEW k \in DOMAIN sock[r], Lazer!handleClose(r, k) PROVE SocketChange
  BY <1>8, SetState DEF Lazer!handleClose, CloseEvent, SocketChange
<1> QED BY <1>1, <1>2, <1>3, <1>4, <1>5, <1>6, <1>7, <1>8

\* So do the steps of requests.
LEMMA RequestChanges ==
  ASSUME Typed, Lazer!RequestNext
  PROVE  SocketChange
<1>1. ASSUME NEW s \in Sub,
             Lazer!addSubscription(s) \/ Lazer!removeSubscription(s)
      PROVE  SocketChange
  BY <1>1 DEF Lazer!addSubscription, Lazer!removeSubscription, Lazer!connVars,
              SocketsDecline, SocketChange
<1>2. ASSUME NEW r \in Conn, NEW request \in sends[r], Lazer!send(r, request)
      PROVE  SocketChange
  <2>1. UNCHANGED <<wsClient, wsUserClosed>>
    BY <1>2 DEF Lazer!send
  <2>2. CASE Lazer!isConnected(r)
    <3> DEFINE k == wsClient[r]
               subs == Lazer!serverApply(sock[r][k].subs, request)
    <3>1. /\ k \in DOMAIN sock[r] /\ sock[r][k].state = "open"
          /\ sock' = [sock EXCEPT ![r][k].subs = subs]
      BY <1>2, <2>2, CurrentSocket, SocketsTyped
         DEF Lazer!send, Lazer!isConnected, Lazer!current
    <3>2. sock[r][k].subs \in SUBSET Sub
      BY <3>1, SocketsTyped DEF Socket
    <3>3. request.id \in Sub
      BY DEF Typed, Lazer!TypeOK, Lazer!Request
    <3>4. subs \in SUBSET Sub
      BY <3>2, <3>3 DEF Lazer!serverApply
    <3> HIDE DEF k, subs
    <3>5. \E s \in Socket : replaced(r, k, s) /\ s.state = "open"
      BY <3>1, <3>4, SetSubs
    <3> QED BY <2>1, <3>1, <3>5 DEF SocketsDecline, SocketChange
  <2>3. CASE ~Lazer!isConnected(r)
    BY <1>2, <2>1, <2>3 DEF Lazer!send, SocketsDecline, SocketChange
  <2> QED BY <2>2, <2>3
<1>3. ASSUME NEW r \in Conn, NEW request \in sends[r],
             Lazer!sendTimeout(r, request)
      PROVE  SocketChange
  <2>1. /\ wsClient[r] \in DOMAIN sock[r]
        /\ sock[r][wsClient[r]].state = "connecting"
        /\ Lazer!setState(r, wsClient[r], "closing")
        /\ UNCHANGED <<wsClient, wsUserClosed>>
    BY <1>3, CurrentSocket DEF Lazer!sendTimeout, Lazer!current
  <2> QED BY <2>1, SetState DEF SocketsDecline, SocketChange
<1> QED BY <1>1, <1>2, <1>3 DEF Lazer!RequestNext

\* The pool changes sockets only when it is shut down.
LEMMA PoolChanges ==
  ASSUME Lazer!PoolNext
  PROVE  SocketChange
<1>1. CASE UNCHANGED Lazer!connVars
  BY <1>1 DEF Lazer!connVars, SocketsDecline, SocketChange
<1> QED BY <1>1
        DEF Lazer!PoolNext, Lazer!create, Lazer!createFails,
            Lazer!userShutdown, Lazer!checkConnectionStates, Lazer!publish,
            Lazer!expire, Lazer!dedupeHandler, SocketChange

-----------------------------------------------------------------------------
(* Types *)

\* A shutdown closes the current sockets and leaves the others.
LEMMA ShutdownSockets ==
  ASSUME Typed, Lazer!shutdown
  PROVE  /\ sock' \in [Conn -> Seq(Socket)]
         /\ \A r \in Conn : DOMAIN sock'[r] = DOMAIN sock[r]
         /\ \A r \in Conn : \A k \in DOMAIN sock[r] :
              \/ sock'[r][k].state = "closing"
              \/ sock'[r][k] = sock[r][k]
                   /\ (k = wsClient[r] => sock[r][k].state = "closed")
<1> DEFINE s(r, k) == IF k = wsClient[r] /\ sock[r][k].state # "closed"
                      THEN [sock[r][k] EXCEPT !.state = "closing", !.subs = {}]
                      ELSE sock[r][k]
           t(r) == [k \in DOMAIN sock[r] |-> s(r, k)]
<1>1. sock' = [r \in Conn |-> t(r)]
  BY DEF Lazer!shutdown
<1>2. \A r \in Conn : \A k \in DOMAIN sock[r] :
        /\ s(r, k) \in Socket
        /\ \/ s(r, k).state = "closing"
           \/ s(r, k) = sock[r][k] /\ (k = wsClient[r] => sock[r][k].state = "closed")
  BY SocketsTyped DEF Socket
<1> HIDE DEF s
<1>3. ASSUME NEW r \in Conn PROVE t(r) \in Seq(Socket)
  <2>1. sock[r] \in Seq(Socket)
    BY SocketsTyped
  <2>2. DOMAIN sock[r] = 1..Len(sock[r]) /\ Len(sock[r]) \in Nat
    BY <2>1
  <2>3. t(r) \in [1..Len(sock[r]) -> Socket]
    BY <1>2, <2>2
  <2> HIDE DEF t
  <2> QED BY <2>2, <2>3
<1>4. \A r \in Conn : /\ DOMAIN t(r) = DOMAIN sock[r]
                      /\ \A k \in DOMAIN sock[r] : t(r)[k] = s(r, k)
  OBVIOUS
<1> HIDE DEF t
<1>5. \A r \in Conn : sock'[r] = t(r)
  BY <1>1
<1>6. sock' \in [Conn -> Seq(Socket)]
  BY <1>1, <1>3
<1> QED BY <1>2, <1>4, <1>5, <1>6

\* Every way in which sockets change keeps their types.
LEMMA ChangeTyped ==
  ASSUME Typed, SocketChange
  PROVE  /\ sock' \in [Conn -> Seq(Socket)] /\ wsClient' \in [Conn -> Nat]
         /\ \A r \in Conn : wsClient'[r] \in 0..Len(sock'[r])
         /\ wsUserClosed' \in [Conn -> BOOLEAN]
<1>t. /\ sock \in [Conn -> Seq(Socket)] /\ wsClient \in [Conn -> Nat]
      /\ \A r \in Conn : wsClient[r] \in 0..Len(sock[r])
      /\ wsUserClosed \in [Conn -> BOOLEAN]
  BY SocketsTyped DEF Typed, Lazer!TypeOK
<1>1. CASE SocketsDecline
  <2>1. CASE sock' = sock
    BY <1>1, <1>t, <2>1 DEF SocketsDecline
  <2>2. CASE sock' # sock
    <3>1. PICK r \in Conn : \E k \in DOMAIN sock[r] : \E s \in Socket :
                 replaced(r, k, s)
      BY <1>1, <2>2 DEF SocketsDecline
    <3>2. \A q \in Conn : Len(sock'[q]) = Len(sock[q])
      BY <3>1, ReplacedSocket
    <3>3. sock' \in [Conn -> Seq(Socket)]
      BY <3>1, ReplacedSocket
    <3> QED BY <1>1, <1>t, <3>2, <3>3 DEF SocketsDecline
  <2> QED BY <2>1, <2>2
<1>2. ASSUME NEW r \in Conn, NEW k \in DOMAIN sock[r], CloseEvent(r, k)
      PROVE  /\ sock' \in [Conn -> Seq(Socket)] /\ wsClient' \in [Conn -> Nat]
             /\ \A q \in Conn : wsClient'[q] \in 0..Len(sock'[q])
             /\ wsUserClosed' \in [Conn -> BOOLEAN]
  <2>1. /\ \A q \in Conn : Len(sock'[q]) = Len(sock[q])
        /\ sock' \in [Conn -> Seq(Socket)]
    BY <1>2, ReplacedSocket DEF CloseEvent
  <2>2. wsClient' \in [Conn -> Nat]
        /\ \A q \in Conn : wsClient'[q] = wsClient[q] \/ wsClient'[q] = 0
    BY <1>2, <1>t DEF CloseEvent
  <2>3. \A q \in Conn : Len(sock[q]) \in Nat
    BY <1>t
  <2> QED BY <1>2, <1>t, <2>1, <2>2, <2>3 DEF CloseEvent
<1>3. ASSUME NEW r \in Conn, NewCurrent(r)
      PROVE  /\ sock' \in [Conn -> Seq(Socket)] /\ wsClient' \in [Conn -> Nat]
             /\ \A q \in Conn : wsClient'[q] \in 0..Len(sock'[q])
             /\ wsUserClosed' \in [Conn -> BOOLEAN]
  <2> DEFINE t == Append(sock[r], Lazer!NewSocket)
  <2>1. Lazer!NewSocket \in Socket
    BY DEF Lazer!NewSocket, Socket
  <2>2. t \in Seq(Socket) /\ Len(t) = Len(sock[r]) + 1 /\ Len(sock[r]) \in Nat
    BY <1>t, <2>1
  <2>3. sock' = [sock EXCEPT ![r] = t]
    BY <1>3 DEF NewCurrent
  <2> HIDE DEF t
  <2>4. sock' \in [Conn -> Seq(Socket)] /\ sock'[r] = t
        /\ \A q \in Conn : q # r => sock'[q] = sock[q]
    BY <1>t, <2>2, <2>3
  <2>5. wsClient' \in [Conn -> Nat] /\ wsClient'[r] = Len(sock[r]) + 1
        /\ \A q \in Conn : q # r => wsClient'[q] = wsClient[q]
    BY <1>3, <1>t, <2>2 DEF NewCurrent
  <2> QED BY <1>3, <1>t, <2>2, <2>4, <2>5 DEF NewCurrent
<1>4. CASE Lazer!shutdown
  <2>1. sock' \in [Conn -> Seq(Socket)]
    BY <1>4, ShutdownSockets
  <2>2. \A r \in Conn : Len(sock'[r]) \in Nat
    BY <2>1
  <2>3. /\ wsClient' = [r \in Conn |-> 0] /\ wsUserClosed' = [r \in Conn |-> TRUE]
    BY <1>4 DEF Lazer!shutdown
  <2>4. \A r \in Conn : wsClient'[r] \in 0..Len(sock'[r])
    BY <2>2, <2>3
  <2> QED BY <2>1, <2>3, <2>4
<1> QED BY <1>1, <1>2, <1>3, <1>4 DEF SocketChange

\* The fields besides the sockets.
RestTyped ==
  /\ phase \in {"creating", "ready", "shutdown", "ended"}
  /\ created \in [Conn -> {"pending", "resolved", "rejected"}]
  /\ unhandledRejections \in Unhandled
  /\ promise \in [Conn -> {"none", "pending", "settled"}]
  /\ restart \in [Conn -> {"none", "sleep", "connect"}]
  /\ terminated \in [Conn -> BOOLEAN]
  /\ subscriptions \subseteq Sub /\ sends \in [Conn -> SUBSET Lazer!Request]
  /\ wasAllDown \in BOOLEAN
  /\ cache \subseteq Msg /\ arriving \in [Conn -> SUBSET Msg]
  /\ delivered \in [Msg -> Nat]

\* The type invariant speaks of the sockets and of the other fields.
LEMMA TypedParts ==
  Typed <=> /\ sock \in [Conn -> Seq(Socket)] /\ wsClient \in [Conn -> Nat]
            /\ \A r \in Conn : wsClient[r] \in 0..Len(sock[r])
            /\ wsUserClosed \in [Conn -> BOOLEAN]
            /\ RestTyped
  BY DEF Typed, Lazer!TypeOK, RestTyped, Socket

\* The steps of a connection keep the types of the other fields.
LEMMA SocketRestTyped ==
  ASSUME RestTyped, Lazer!SocketNext
  PROVE  RestTyped'
<1> USE DEF RestTyped, Lazer!msgVars, Lazer!poolVars
<1> PICK r \in Conn :
      \/ Lazer!connectionTimeout(r) \/ Lazer!heartbeatTimeout(r)
      \/ Lazer!terminatedReady(r) \/ Lazer!restartUnexpectedClosedWebsocket(r)
      \/ \E k \in DOMAIN sock[r] :
           \/ Lazer!open(r, k) \/ Lazer!connectionFails(r, k)
           \/ Lazer!disconnect(r, k) \/ Lazer!handleClose(r, k)
  BY DEF Lazer!SocketNext
<1>p. ASSUME NEW condition, Lazer!throws(condition)
      PROVE  phase' \in {"creating", "ready", "shutdown", "ended"}
  BY <1>p DEF Lazer!throws
<1>c. ASSUME NEW outcome \in {"resolved", "rejected"},
             Lazer!settleCreated(r, outcome)
      PROVE  created' \in [Conn -> {"pending", "resolved", "rejected"}]
  BY <1>c DEF Lazer!settleCreated
<1>s. ASSUME NEW outcome \in {"resolved", "rejected"}, Lazer!settle(r, outcome)
      PROVE  /\ promise' \in [Conn -> {"none", "pending", "settled"}]
             /\ restart' \in [Conn -> {"none", "sleep", "connect"}]
             /\ created' \in [Conn -> {"pending", "resolved", "rejected"}]
             /\ phase' \in {"creating", "ready", "shutdown", "ended"}
  <2>1. Lazer!settleCreated(r, outcome) /\ phase' \in {phase, "ended"}
    BY <1>s DEF Lazer!settle, Lazer!throws
  <2>2. promise' \in [Conn -> {"none", "pending", "settled"}]
    BY <1>s DEF Lazer!settle
  <2>3. restart' \in [Conn -> {"none", "sleep", "connect"}]
    BY <1>s DEF Lazer!settle
  <2> QED BY <1>c, <2>1, <2>2, <2>3
<1>1. CASE Lazer!connectionTimeout(r)
  BY <1>1, <1>s DEF Lazer!connectionTimeout
<1>2. CASE Lazer!heartbeatTimeout(r)
  <2>1. terminated' \in [Conn -> BOOLEAN]
    BY <1>2 DEF Lazer!heartbeatTimeout
  <2>2. phase' \in {"creating", "ready", "shutdown", "ended"}
    BY <1>2, <1>p DEF Lazer!heartbeatTimeout
  <2> QED BY <1>2, <2>1, <2>2 DEF Lazer!heartbeatTimeout
<1>3. CASE Lazer!terminatedReady(r)
  BY <1>3 DEF Lazer!terminatedReady
<1>4. CASE Lazer!restartUnexpectedClosedWebsocket(r)
  <2>1. restart' \in [Conn -> {"none", "sleep", "connect"}]
    BY <1>4 DEF Lazer!restartUnexpectedClosedWebsocket
  <2>2. promise' \in [Conn -> {"none", "pending", "settled"}]
    BY <1>4 DEF Lazer!restartUnexpectedClosedWebsocket, Lazer!startWebSocket
  <2> QED BY <1>4, <2>1, <2>2 DEF Lazer!restartUnexpectedClosedWebsocket
<1>5. ASSUME NEW k \in DOMAIN sock[r], Lazer!open(r, k) PROVE RestTyped'
  <2>1. Lazer!settle(r, "resolved")
    BY <1>5 DEF Lazer!open
  <2> QED BY <1>5, <1>s, <2>1 DEF Lazer!open
<1>6. ASSUME NEW k \in DOMAIN sock[r], Lazer!connectionFails(r, k)
      PROVE  RestTyped'
  BY <1>6, <1>s DEF Lazer!connectionFails
<1>7. ASSUME NEW k \in DOMAIN sock[r], Lazer!disconnect(r, k) PROVE RestTyped'
  BY <1>7 DEF Lazer!disconnect
<1>8. ASSUME NEW k \in DOMAIN sock[r], Lazer!handleClose(r, k) PROVE RestTyped'
  <2>1. CASE wsUserClosed[r]
    BY <1>8, <2>1 DEF Lazer!handleClose
  <2>2. CASE ~wsUserClosed[r]
    <3>1. /\ created' \in [Conn -> {"pending", "resolved", "rejected"}]
          /\ phase' \in {"creating", "ready", "shutdown", "ended"}
      BY <1>8, <1>c, <1>p, <2>2 DEF Lazer!handleClose
    <3>2. /\ promise' \in [Conn -> {"none", "pending", "settled"}]
          /\ restart' \in [Conn -> {"none", "sleep", "connect"}]
      BY <1>8, <2>2 DEF Lazer!handleClose
    <3> QED BY <1>8, <3>1, <3>2 DEF Lazer!handleClose
  <2> QED BY <2>1, <2>2
<1> QED BY <1>1, <1>2, <1>3, <1>4, <1>5, <1>6, <1>7, <1>8

\* The steps of requests keep them.
LEMMA RequestRestTyped ==
  ASSUME RestTyped, Lazer!RequestNext
  PROVE  RestTyped'
<1> USE DEF RestTyped, Lazer!msgVars, Lazer!poolVars
<1>1. ASSUME NEW s \in Sub, NEW type \in {"subscribe", "unsubscribe"},
             Lazer!sendRequest([type |-> type, id |-> s])
      PROVE  sends' \in [Conn -> SUBSET Lazer!Request]
  BY <1>1 DEF Lazer!sendRequest, Lazer!Request
<1>2. ASSUME NEW s \in Sub, Lazer!addSubscription(s) PROVE RestTyped'
  BY <1>1, <1>2 DEF Lazer!addSubscription, Lazer!connVars
<1>3. ASSUME NEW s \in Sub, Lazer!removeSubscription(s) PROVE RestTyped'
  BY <1>1, <1>3 DEF Lazer!removeSubscription, Lazer!connVars
<1>4. ASSUME NEW r \in Conn, NEW request \in sends[r], Lazer!send(r, request)
      PROVE  RestTyped'
  BY <1>4 DEF Lazer!send
<1>5. ASSUME NEW r \in Conn, NEW request \in sends[r],
             Lazer!sendTimeout(r, request)
      PROVE  RestTyped'
  BY <1>5 DEF Lazer!sendTimeout
<1> QED BY <1>2, <1>3, <1>4, <1>5 DEF Lazer!RequestNext

\* The steps of the pool keep them.
LEMMA PoolRestTyped ==
  ASSUME RestTyped, Lazer!PoolNext
  PROVE  RestTyped'
<1> USE DEF RestTyped, Lazer!msgVars, Lazer!connVars, Lazer!poolVars
<1>1. CASE Lazer!create
  BY <1>1 DEF Lazer!create
<1>2. CASE Lazer!shutdown
  BY <1>2 DEF Lazer!shutdown
<1>3. CASE Lazer!checkConnectionStates
  BY <1>3 DEF Lazer!checkConnectionStates, Lazer!areAllConnectionsDown
<1>4. ASSUME NEW m \in Msg, Lazer!publish(m) PROVE RestTyped'
  <2>1. arriving' \in [Conn -> SUBSET Msg]
    BY <1>4 DEF Lazer!publish
  <2> QED BY <1>4, <2>1 DEF Lazer!publish
<1>5. ASSUME NEW m \in Msg, Lazer!expire(m) PROVE RestTyped'
  BY <1>5 DEF Lazer!expire
<1>6. ASSUME NEW m \in Msg, NEW r \in Conn, Lazer!dedupeHandler(r, m)
      PROVE  RestTyped'
  <2>1. arriving' \in [Conn -> SUBSET Msg] /\ cache' \subseteq Msg
    BY <1>6 DEF Lazer!dedupeHandler
  <2>2. delivered' \in [Msg -> Nat]
    BY <1>6 DEF Lazer!dedupeHandler
  <2> QED BY <1>6, <2>1, <2>2 DEF Lazer!dedupeHandler
<1> QED BY <1>1, <1>2, <1>3, <1>4, <1>5, <1>6
        DEF Lazer!PoolNext, Lazer!createFails, Lazer!userShutdown

\* Every step of the Lazer client keeps the types.
LEMMA LazerStepTyped ==
  ASSUME Typed, Lazer!Next
  PROVE  Typed' /\ SocketChange
<1>1. SocketChange
  BY ConnectionChanges, RequestChanges, PoolChanges DEF Lazer!Next
<1>2. RestTyped'
  BY TypedParts, SocketRestTyped, RequestRestTyped, PoolRestTyped DEF Lazer!Next
<1>3. /\ sock' \in [Conn -> Seq(Socket)] /\ wsClient' \in [Conn -> Nat]
      /\ \A r \in Conn : wsClient'[r] \in 0..Len(sock'[r])
      /\ wsUserClosed' \in [Conn -> BOOLEAN]
  BY <1>1, ChangeTyped
<1>4. Typed'
  BY <1>2, <1>3 DEF Typed, Lazer!TypeOK, RestTyped, Socket
<1> QED BY <1>1, <1>4

-----------------------------------------------------------------------------
(* Sockets and messages *)

\* Every way in which sockets change keeps track of the open ones.
LEMMA ChangeKeepsSockets ==
  ASSUME Typed, SocketInv, SocketChange
  PROVE  SocketInv'
<1>t. /\ sock \in [Conn -> Seq(Socket)] /\ wsClient \in [Conn -> Nat]
      /\ wsUserClosed \in [Conn -> BOOLEAN]
      /\ \A r \in Conn : wsClient[r] \in 0..Len(sock[r])
  BY TypedParts
<1>1. CASE SocketsDecline
  <2>1. CASE sock' = sock
    BY <1>1, <2>1 DEF SocketsDecline, SocketInv
  <2>2. CASE sock' # sock
    <3>0. PICK r \in Conn : \E k \in DOMAIN sock[r] : \E s \in Socket :
            /\ replaced(r, k, s) /\ s.state # "closed"
            /\ sock[r][k].state # "closed"
            /\ sock[r][k].state = "closing" => s.state = "closing"
      BY <1>1, <2>2 DEF SocketsDecline
    <3>1. PICK k \in DOMAIN sock[r], s \in Socket :
            /\ replaced(r, k, s) /\ s.state # "closed"
            /\ sock[r][k].state # "closed"
            /\ sock[r][k].state = "closing" => s.state = "closing"
      BY <3>0
    <3>2. /\ \A q \in Conn : DOMAIN sock'[q] = DOMAIN sock[q]
          /\ \A q \in Conn : \A j \in DOMAIN sock[q] :
               sock'[q][j] = IF q = r /\ j = k THEN s ELSE sock[q][j]
      BY <3>1, ReplacedSocket
    <3>3. wsClient' = wsClient /\ wsUserClosed' = wsUserClosed
      BY <1>1 DEF SocketsDecline
    <3> QED BY <3>1, <3>2, <3>3 DEF SocketInv
  <2> QED BY <2>1, <2>2
<1>2. ASSUME NEW r \in Conn, NEW k \in DOMAIN sock[r], CloseEvent(r, k)
      PROVE  SocketInv'
  <2>1. PICK s \in Socket : replaced(r, k, s) /\ s.state = "closed"
    BY <1>2 DEF CloseEvent
  <2>2. /\ \A q \in Conn : DOMAIN sock'[q] = DOMAIN sock[q]
        /\ \A q \in Conn : \A j \in DOMAIN sock[q] :
             sock'[q][j] = IF q = r /\ j = k THEN s ELSE sock[q][j]
    BY <2>1, ReplacedSocket
  <2>3. /\ wsUserClosed' = wsUserClosed
        /\ \A q \in Conn : q # r => wsClient'[q] = wsClient[q]
    BY <1>2, <1>t DEF CloseEvent
  <2>4. CASE wsUserClosed[r]
    <3>1. wsClient' = wsClient
      BY <1>2, <2>4 DEF CloseEvent
    <3> QED BY <2>1, <2>2, <2>3, <3>1 DEF SocketInv
  <2>5. CASE ~wsUserClosed[r]
    <3>1. wsClient[r] = k
      BY <1>2, <2>5 DEF CloseEvent, SocketInv
    <3>2. \A j \in DOMAIN sock[r] : sock'[r][j].state = "closed"
      BY <2>1, <2>2, <2>5, <3>1 DEF SocketInv
    <3> QED BY <2>2, <2>3, <2>5, <3>2 DEF SocketInv
  <2> QED BY <2>4, <2>5
<1>3. ASSUME NEW r \in Conn, NewCurrent(r) PROVE SocketInv'
  <2> DEFINE n == Len(sock[r])
  <2>1. sock[r] \in Seq(Socket) /\ n \in Nat /\ DOMAIN sock[r] = 1..n
    BY <1>t
  <2>2. Lazer!NewSocket \in Socket
    BY DEF Lazer!NewSocket, Socket
  <2>3. \A q \in Conn : q # r => /\ sock'[q] = sock[q]
                                 /\ wsClient'[q] = wsClient[q]
    BY <1>3, <1>t DEF NewCurrent
  <2>4. /\ sock'[r] = Append(sock[r], Lazer!NewSocket)
        /\ wsClient'[r] = n + 1
        /\ wsUserClosed' = wsUserClosed /\ ~wsUserClosed[r]
    BY <1>3, <1>t DEF NewCurrent
  <2>5. /\ DOMAIN sock'[r] = 1..(n + 1)
        /\ \A k \in 1..n : sock'[r][k] = sock[r][k]
    BY <2>1, <2>2, <2>4
  <2>6. \A k \in 1..n : sock[r][k].state = "closed"
    <3>1. wsClient[r] = 0 /\ \A k \in 1..n : k # 0
      BY <1>3, <2>1 DEF NewCurrent
    <3> QED BY <2>1, <2>4, <3>1 DEF SocketInv
  <2> HIDE DEF n
  <2>7. \A k \in 1..(n + 1) : k \in 1..n \/ k = n + 1
    BY <2>1
  <2>8. \A k \in DOMAIN sock'[r] : sock'[r][k].state # "closed" => wsClient'[r] = k
    BY <2>4, <2>5, <2>6, <2>7
  <2> QED BY <2>3, <2>4, <2>8 DEF SocketInv
<1>4. CASE Lazer!shutdown
  <2>1. \A r \in Conn : wsUserClosed'[r] = TRUE
    BY <1>4 DEF Lazer!shutdown
  <2>2. \A r \in Conn : \A k \in DOMAIN sock[r] :
          sock'[r][k].state \in {"closing", "closed"}
    BY <1>4, <1>t, ShutdownSockets DEF SocketInv
  <2>3. \A r \in Conn : DOMAIN sock'[r] = DOMAIN sock[r]
    BY <1>4, ShutdownSockets
  <2> QED BY <2>1, <2>2, <2>3 DEF SocketInv
<1> QED BY <1>1, <1>2, <1>3, <1>4 DEF SocketChange

\* A message is passed on while it is not in the cache, and stays there until
\* its last copy has arrived.
LEMMA StepKeepsDelivery ==
  ASSUME Typed, DeliveryInv, Lazer!Next
  PROVE  DeliveryInv'
<1>t. arriving \in [Conn -> SUBSET Msg] /\ delivered \in [Msg -> Nat]
  BY TypedParts DEF RestTyped
<1>1. CASE UNCHANGED Lazer!msgVars
  BY <1>1 DEF Lazer!msgVars, DeliveryInv
<1>2. ASSUME NEW m \in Msg, Lazer!publish(m) PROVE DeliveryInv'
  <2>1. /\ delivered' = delivered /\ cache' = cache /\ delivered[m] = 0
        /\ \A r \in Conn, n \in Msg :
             n # m => (n \in arriving'[r] <=> n \in arriving[r])
    BY <1>2, <1>t DEF Lazer!publish
  <2> QED BY <2>1 DEF DeliveryInv
<1>3. ASSUME NEW m \in Msg, Lazer!expire(m) PROVE DeliveryInv'
  BY <1>3 DEF Lazer!expire, DeliveryInv
<1>4. ASSUME NEW m \in Msg, NEW r \in Conn, Lazer!dedupeHandler(r, m)
      PROVE  DeliveryInv'
  <2>1. /\ m \in arriving[r] /\ cache' = cache \cup {m}
        /\ \A q \in Conn : arriving'[q] \subseteq arriving[q]
    BY <1>4, <1>t DEF Lazer!dedupeHandler
  <2>2. /\ delivered'[m] = IF m \in cache \/ phase = "shutdown"
                           THEN delivered[m] ELSE delivered[m] + 1
        /\ \A n \in Msg : n # m => delivered'[n] = delivered[n]
    BY <1>4, <1>t DEF Lazer!dedupeHandler
  <2>3. m \notin cache => delivered[m] = 0
    BY <2>1 DEF DeliveryInv
  <2>4. delivered'[m] \in {0, 1}
    BY <2>2, <2>3 DEF DeliveryInv
  <2> QED BY <2>1, <2>2, <2>4 DEF DeliveryInv
<1>5. CASE Lazer!SocketNext
  BY <1>1, <1>5
     DEF Lazer!SocketNext, Lazer!connectionTimeout, Lazer!heartbeatTimeout,
         Lazer!terminatedReady, Lazer!restartUnexpectedClosedWebsocket,
         Lazer!open, Lazer!connectionFails, Lazer!disconnect, Lazer!handleClose
<1>6. CASE Lazer!RequestNext
  BY <1>1, <1>6
     DEF Lazer!RequestNext, Lazer!addSubscription, Lazer!removeSubscription,
         Lazer!send, Lazer!sendTimeout
<1>7. CASE Lazer!PoolNext
  BY <1>1, <1>2, <1>3, <1>4, <1>7
     DEF Lazer!PoolNext, Lazer!create, Lazer!createFails, Lazer!userShutdown,
         Lazer!shutdown, Lazer!checkConnectionStates
<1> QED BY <1>5, <1>6, <1>7 DEF Lazer!Next

-----------------------------------------------------------------------------
(* Theorems *)

IInv == Typed /\ SocketInv /\ DeliveryInv

\* The invariant holds when the pool is created.
LEMMA InitIInv == Init => IInv
<1> SUFFICES ASSUME Lazer!Init PROVE IInv
  BY DEF Init
<1> DEFINE one == <<Lazer!NewSocket>>
<1>1. /\ one \in Seq(Socket) /\ Len(one) = 1 /\ DOMAIN one = {1}
      /\ one[1].state = "connecting"
  BY DEF Lazer!NewSocket, Socket
<1>2. sock = [r \in Conn |-> one]
  BY DEF Lazer!Init
<1> HIDE DEF one
<1>3. \A r \in Conn : sock[r] = one
  BY <1>2
<1>4. sock \in [Conn -> Seq(Socket)] /\ wsClient \in [Conn -> Nat]
      /\ \A r \in Conn : wsClient[r] = 1 /\ ~wsUserClosed[r]
  BY <1>1, <1>2 DEF Lazer!Init
<1>5. \A r \in Conn : wsClient[r] \in 0..Len(sock[r])
  <2>1. \A r \in Conn : wsClient[r] = 1 /\ Len(sock[r]) = 1
    BY <1>1, <1>3, <1>4
  <2>2. 1 \in 0..1
    OBVIOUS
  <2> QED BY <2>1, <2>2, Zenon
<1>6. RestTyped /\ wsUserClosed \in [Conn -> BOOLEAN]
  BY DEF RestTyped, Lazer!Init
<1>7. Typed
  BY <1>4, <1>5, <1>6, TypedParts
<1>8. SocketInv
  BY <1>1, <1>3, <1>4 DEF SocketInv
<1>9. DeliveryInv
  BY DEF Lazer!Init, DeliveryInv
<1> QED BY <1>7, <1>8, <1>9 DEF IInv

\* Every step of either client keeps the invariant.
LEMMA NextIInv == IInv /\ [Next]_vars => IInv'
<1> SUFFICES ASSUME IInv, [Next]_vars PROVE IInv'
  OBVIOUS
<1>1. CASE Lazer!Next
  BY <1>1, LazerStepTyped, ChangeKeepsSockets, StepKeepsDelivery DEF IInv
<1>2. CASE UNCHANGED lazerVars
  <2>1. Typed'
    BY <1>2 DEF IInv, lazerVars, Typed, Lazer!TypeOK
  <2>2. SocketInv' /\ DeliveryInv'
    BY <1>2 DEF IInv, lazerVars, SocketInv, DeliveryInv
  <2> QED BY <2>1, <2>2 DEF IInv
<1> QED BY <1>1, <1>2 DEF Next, InLazer, InPriceService, vars

\* The invariant holds in every reachable state.
LEMMA InvariantHolds == Spec => []IInv
  BY InitIInv, NextIInv, PTL DEF Spec

\* The fields of the Lazer pool keep their types; the current socket is
\* always one that the connection made.
THEOREM LazerTypeCorrect == Spec => []LazerTypeOK
<1>1. IInv => LazerTypeOK
  BY DEF IInv, Typed, LazerTypeOK
<1> QED BY <1>1, InvariantHolds, PTL

\* Whatever the order of close events, heartbeat timeouts, restarts and the
\* shutdown, a socket that is open or about to be is the current one.
THEOREM LazerForgetsNoSocket == Spec => []LazerNoSocketLeaked
<1>1. IInv => LazerNoSocketLeaked
  <2> SUFFICES ASSUME IInv, NEW r \in Conn, NEW k \in DOMAIN sock[r],
                      sock[r][k].state \in {"connecting", "open"}
               PROVE  wsClient[r] = k
    BY DEF LazerNoSocketLeaked, Lazer!NoSocketLeaked
  <2>1. ~wsUserClosed[r]
    BY DEF IInv, SocketInv
  <2> QED BY <2>1 DEF IInv, SocketInv
<1> QED BY <1>1, InvariantHolds, PTL

\* A message that arrives on any number of connections is passed to the
\* listeners at most once.
THEOREM LazerDeliversOnce == Spec => []LazerDeliveredOnce
<1>1. IInv => LazerDeliveredOnce
  BY DEF IInv, DeliveryInv, LazerDeliveredOnce, Lazer!DeliveredOnce
<1> QED BY <1>1, InvariantHolds, PTL

-----------------------------------------------------------------------------
(* The sockets of PriceServiceConnection *)

ClientSocket == [state : {"connecting", "open", "closing", "closed"},
                 subs : SUBSET Feed]
Client == [sockets : Seq(ClientSocket), wsClient : Nat, wsUserClosed : BOOLEAN,
           sleeping : BOOLEAN, waiting : BOOLEAN]
Call == [type : {"subscribe", "unsubscribe"}, id : Feed,
         at : {"starting", "sending", "waiting"}, to : Nat, ids : SUBSET Feed]

\* As in SocketInv: until the user closes a ResilientWebSocket its current
\* socket is the only one that is not closed.
Sound(c) ==
  /\ c.wsClient \in 0..Len(c.sockets)
  /\ c.wsUserClosed =>
       /\ c.wsClient = 0
       /\ \A k \in DOMAIN c.sockets : c.sockets[k].state \in {"closing", "closed"}
  /\ ~c.wsUserClosed =>
       \A k \in DOMAIN c.sockets : c.sockets[k].state # "closed" => c.wsClient = k

\* Every ResilientWebSocket but the one in use was closed by the user.
AllSound(cs, conn) ==
  /\ cs \in Seq(Client) /\ conn \in 0..Len(cs)
  /\ \A i \in DOMAIN cs : Sound(cs[i]) /\ (~cs[i].wsUserClosed => conn = i)

CallsTyped == calls \in Seq(Call) /\ priceFeedCallbacks \subseteq Feed

PriceServiceInv == AllSound(clients, connection) /\ CallsTyped

\* A socket that is replaced by one no more alive leaves the rest sound.
LEMMA SocketDeclines ==
  ASSUME NEW c \in Client, Sound(c), NEW k \in DOMAIN c.sockets,
         NEW s \in ClientSocket, s.state # "closed",
         c.sockets[k].state # "closed",
         c.sockets[k].state = "closing" => s.state = "closing",
         NEW d, d.sockets = [c.sockets EXCEPT ![k] = s],
         d.wsClient = c.wsClient, d.wsUserClosed = c.wsUserClosed
  PROVE  d.sockets \in Seq(ClientSocket) /\ Sound(d)
<1>1. c.sockets \in Seq(ClientSocket)
  BY DEF Client
<1>2. /\ d.sockets \in Seq(ClientSocket)
      /\ DOMAIN d.sockets = DOMAIN c.sockets /\ Len(d.sockets) = Len(c.sockets)
      /\ \A j \in DOMAIN c.sockets :
           d.sockets[j] = IF j = k THEN s ELSE c.sockets[j]
  BY <1>1
<1>3. s.state \in {"connecting", "open", "closing"}
  BY DEF ClientSocket
<1>4. CASE c.wsUserClosed
  <2>1. c.sockets[k].state = "closing" /\ s.state = "closing"
    BY <1>4 DEF Sound
  <2> QED BY <1>2, <1>4, <2>1 DEF Sound
<1>5. CASE ~c.wsUserClosed
  BY <1>2, <1>5 DEF Sound
<1> QED BY <1>2, <1>4, <1>5

\* The current socket of a sound client that has one is among its sockets, and
\* the user has not closed it.
LEMMA CurrentOfClient ==
  ASSUME NEW c \in Client, Sound(c), c.wsClient # 0
  PROVE  c.wsClient \in DOMAIN c.sockets /\ ~c.wsUserClosed
<1>1. c.sockets \in Seq(ClientSocket) /\ c.wsClient \in 0..Len(c.sockets)
  BY DEF Client, Sound
<1> QED BY <1>1 DEF Sound

\* startWebSocket makes a current socket when there is none.
LEMMA StartSound ==
  ASSUME NEW c \in Client, Sound(c), ~c.wsUserClosed
  PROVE  /\ PriceService!startWebSocket(c) \in Client
         /\ Sound(PriceService!startWebSocket(c))
         /\ ~PriceService!startWebSocket(c).wsUserClosed
<1>1. CASE c.wsClient # 0
  BY <1>1 DEF PriceService!startWebSocket
<1>2. CASE c.wsClient = 0
  <2> DEFINE n == Len(c.sockets)
             d == PriceService!startWebSocket(c)
  <2>1. c.sockets \in Seq(ClientSocket) /\ n \in Nat /\ DOMAIN c.sockets = 1..n
    BY DEF Client
  <2>2. PriceService!NewSocket \in ClientSocket
    BY DEF PriceService!NewSocket, ClientSocket
  <2>3. /\ d.sockets = Append(c.sockets, PriceService!NewSocket)
        /\ d.wsClient = n + 1 /\ d.wsUserClosed = FALSE
        /\ d.sleeping = c.sleeping /\ d.waiting = c.waiting
    BY <1>2 DEF PriceService!startWebSocket, Client
  <2>4. /\ d.sockets \in Seq(ClientSocket) /\ Len(d.sockets) = n + 1
        /\ DOMAIN d.sockets = 1..(n + 1)
        /\ \A k \in 1..n : d.sockets[k] = c.sockets[k]
    BY <2>1, <2>2, <2>3
  <2>5. d \in Client
    <3> DEFINE t == Append(c.sockets, PriceService!NewSocket)
    <3>1. t \in Seq(ClientSocket)
      BY <2>1, <2>2
    <3>2. d = [c EXCEPT !.sockets = t, !.wsClient = n + 1, !.wsUserClosed = FALSE]
      BY <1>2 DEF PriceService!startWebSocket
    <3>3. n + 1 \in Nat
      BY <2>1
    <3> HIDE DEF t, d, n
    <3> QED BY <3>1, <3>2, <3>3 DEF Client
  <2>6. \A k \in 1..n : c.sockets[k].state = "closed"
    <3>1. \A k \in 1..n : k # 0
      BY <2>1
    <3> QED BY <1>2, <2>1, <3>1 DEF Sound
  <2> HIDE DEF d, n
  <2>7. \A k \in 1..(n + 1) : k \in 1..n \/ k = n + 1
    BY <2>1
  <2>8. \A k \in DOMAIN d.sockets : d.sockets[k].state # "closed" => d.wsClient = k
    BY <2>3, <2>4, <2>6, <2>7
  <2>9. d.wsClient \in 0..Len(d.sockets)
    BY <2>1, <2>3, <2>4
  <2>10. Sound(d) /\ ~d.wsUserClosed
    BY <2>3, <2>8, <2>9 DEF Sound
  <2> QED BY <2>5, <2>10 DEF d
<1> QED BY <1>1, <1>2

\* closeWebSocket leaves no socket that is open or about to be.
LEMMA ClosedSound ==
  ASSUME NEW c \in Client, Sound(c)
  PROVE  /\ PriceService!closed(c) \in Client /\ Sound(PriceService!closed(c))
         /\ PriceService!closed(c).wsUserClosed
<1> DEFINE d == PriceService!closed(c)
<1>1. CASE c.wsClient = 0
  <2>1. /\ d.sockets = c.sockets /\ d.wsClient = 0 /\ d.wsUserClosed = TRUE
        /\ d \in Client
    BY <1>1 DEF PriceService!closed, Client
  <2>2. c.sockets \in Seq(ClientSocket)
    BY DEF Client
  <2>3. \A k \in DOMAIN c.sockets : c.sockets[k].state \in {"closing", "closed"}
    <3>1. DOMAIN c.sockets = 1..Len(c.sockets) /\ \A k \in 1..Len(c.sockets) : k # 0
      BY <2>2
    <3> QED BY <1>1, <3>1 DEF Sound
  <2>4. 0 \in 0..Len(c.sockets)
    BY <2>2
  <2> QED BY <2>1, <2>3, <2>4 DEF Sound
<1>2. CASE c.wsClient # 0
  <2> DEFINE k == c.wsClient
             s == [state |-> IF c.sockets[k].state = "closed"
                             THEN c.sockets[k].state ELSE "closing",
                   subs |-> {}]
  <2>1. k \in DOMAIN c.sockets /\ ~c.wsUserClosed
    BY <1>2, CurrentOfClient
  <2>2. c.sockets \in Seq(ClientSocket)
    BY DEF Client
  <2>3. s \in ClientSocket /\ s.state \in {"closing", "closed"}
    BY <2>1, <2>2 DEF ClientSocket
  <2> DEFINE t == [c.sockets EXCEPT ![k] = s]
  <2>4. d = [c EXCEPT !.sockets = t, !.wsClient = 0, !.wsUserClosed = TRUE]
    BY <1>2 DEF PriceService!closed, Client
  <2> HIDE DEF s, d
  <2>5. /\ t \in Seq(ClientSocket)
        /\ DOMAIN t = DOMAIN c.sockets /\ Len(t) = Len(c.sockets)
        /\ \A j \in DOMAIN c.sockets : t[j] = IF j = k THEN s ELSE c.sockets[j]
    <3> HIDE DEF k
    <3> QED BY <2>1, <2>2, <2>3
  <2> HIDE DEF t
  <2>6. d \in Client /\ d.sockets = t /\ d.wsClient = 0 /\ d.wsUserClosed = TRUE
    <3> HIDE DEF k
    <3>1. /\ d.sockets = t /\ d.wsClient = 0 /\ d.wsUserClosed = TRUE
          /\ d.sleeping = c.sleeping /\ d.waiting = c.waiting
      BY <2>4 DEF Client
    <3>2. d \in Client
      BY <2>4, <2>5 DEF Client
    <3> QED BY <3>1, <3>2
  <2>7. \A j \in DOMAIN c.sockets : j # k => c.sockets[j].state = "closed"
    BY <2>1 DEF Sound
  <2>8. 0 \in 0..Len(d.sockets)
    BY <2>5, <2>6
  <2>9. Sound(d) /\ d.wsUserClosed
    BY <2>3, <2>5, <2>6, <2>7, <2>8 DEF Sound
  <2> QED BY <2>6, <2>9 DEF d
<1> QED BY <1>1, <1>2

\* One client is replaced by one that is sound, and the others stay.
LEMMA OneClient ==
  ASSUME NEW cs, NEW conn, AllSound(cs, conn), NEW i \in DOMAIN cs,
         NEW d \in Client, Sound(d), ~d.wsUserClosed => conn = i
  PROVE  /\ AllSound([cs EXCEPT ![i] = d], conn)
         /\ DOMAIN [cs EXCEPT ![i] = d] = DOMAIN cs
<1> DEFINE ds == [cs EXCEPT ![i] = d]
<1>1. cs \in Seq(Client) /\ conn \in 0..Len(cs)
  BY DEF AllSound
<1>2. /\ ds \in Seq(Client) /\ Len(ds) = Len(cs) /\ DOMAIN ds = DOMAIN cs
      /\ \A j \in DOMAIN cs : ds[j] = IF j = i THEN d ELSE cs[j]
  BY <1>1
<1> HIDE DEF ds
<1>3. AllSound(ds, conn)
  BY <1>1, <1>2 DEF AllSound
<1> QED BY <1>2, <1>3 DEF ds

\* closeWebSocket of the connection leaves no client in use.
LEMMA CloseConnection ==
  ASSUME NEW cs, AllSound(cs, connection), PriceService!closeWebSocket(cs)
  PROVE  AllSound(clients', connection') /\ priceFeedCallbacks' = {}
<1>1. /\ connection' = 0 /\ priceFeedCallbacks' = {}
      /\ clients' = IF connection = 0 THEN cs
                    ELSE [cs EXCEPT ![connection] =
                            PriceService!closed(cs[connection])]
  BY DEF PriceService!closeWebSocket
<1>2. cs \in Seq(Client) /\ connection \in 0..Len(cs)
  BY DEF AllSound
<1>3. CASE connection = 0
  BY <1>1, <1>3
<1>4. CASE connection # 0
  <2> DEFINE d == PriceService!closed(cs[connection])
  <2>1. connection \in DOMAIN cs /\ cs[connection] \in Client /\ Sound(cs[connection])
    BY <1>2, <1>4 DEF AllSound
  <2>2. d \in Client /\ Sound(d) /\ d.wsUserClosed
    BY <2>1, ClosedSound
  <2>3. clients' = [cs EXCEPT ![connection] = d]
    BY <1>1, <1>4
  <2> HIDE DEF d
  <2>4. /\ clients' \in Seq(Client) /\ DOMAIN clients' = DOMAIN cs
        /\ \A j \in DOMAIN cs : clients'[j] = IF j = connection THEN d ELSE cs[j]
    BY <1>2, <2>1, <2>2, <2>3
  <2>5. \A j \in DOMAIN cs : Sound(clients'[j]) /\ clients'[j].wsUserClosed
    BY <2>2, <2>4 DEF AllSound
  <2>6. 0 \in 0..Len(clients')
    BY <2>4
  <2> QED BY <1>1, <2>4, <2>5, <2>6 DEF AllSound
<1> QED BY <1>3, <1>4

\* A step that changes one client does so soundly.
ClientChanges ==
  /\ UNCHANGED <<connection, calls, priceFeedCallbacks>>
  /\ \E i \in DOMAIN clients : \E d \in Client :
       /\ clients' = [clients EXCEPT ![i] = d] /\ Sound(d)
       /\ d.wsUserClosed = clients[i].wsUserClosed

\* The events and timers of a ResilientWebSocket change one client.
LEMMA ClientStepsChange ==
  ASSUME PriceServiceInv, NEW i \in DOMAIN clients,
         \/ PriceService!ClientStep(i)
         \/ PriceService!heartbeatTimeout(i) \/ PriceService!restartTimeout(i)
         \/ \E k \in DOMAIN clients[i].sockets : PriceService!disconnect(i, k)
  PROVE  ClientChanges
<1> DEFINE c == clients[i]
<1>c. c \in Client /\ Sound(c)
  BY DEF PriceServiceInv, AllSound
<1>f. c = [sockets |-> c.sockets, wsClient |-> c.wsClient,
           wsUserClosed |-> c.wsUserClosed, sleeping |-> c.sleeping,
           waiting |-> c.waiting]
      /\ c.sockets \in Seq(ClientSocket) /\ c.wsClient \in Nat
      /\ c.wsUserClosed \in BOOLEAN /\ c.sleeping \in BOOLEAN
      /\ c.waiting \in BOOLEAN
      /\ \A k \in DOMAIN c.sockets : c.sockets[k] \in ClientSocket
  BY <1>c DEF Client
<1>s. ASSUME NEW k \in DOMAIN c.sockets, NEW state \in {"open", "closing"},
             c.sockets[k].state \in {"connecting", "open"},
             NEW subs \in SUBSET Feed, NEW waiting \in BOOLEAN,
             clients' = [clients EXCEPT ![i] =
               [c EXCEPT !.sockets = [c.sockets EXCEPT ![k] =
                                        [state |-> state, subs |-> subs]],
                         !.waiting = waiting]],
             UNCHANGED <<connection, calls, priceFeedCallbacks>>
      PROVE  ClientChanges
  <2> DEFINE s == [state |-> state, subs |-> subs]
             t == [c.sockets EXCEPT ![k] = s]
             d == [c EXCEPT !.sockets = t, !.waiting = waiting]
  <2>1. s \in ClientSocket /\ s.state = state
    BY <1>s DEF ClientSocket
  <2>2. clients' = [clients EXCEPT ![i] = d]
    BY <1>s
  <2> HIDE DEF s
  <2>3. /\ d.sockets = t /\ d.wsClient = c.wsClient
        /\ d.wsUserClosed = c.wsUserClosed
    BY <1>f
  <2>4. d.sockets \in Seq(ClientSocket) /\ Sound(d)
    <3> HIDE DEF d, c
    <3>1. s.state # "closed" /\ c.sockets[k].state # "closed"
          /\ (c.sockets[k].state = "closing" => s.state = "closing")
      BY <1>s, <2>1
    <3> QED BY <1>c, <1>s, <2>1, <2>3, <3>1, SocketDeclines DEF t
  <2>5. d \in Client
    <3>1. t \in Seq(ClientSocket)
      BY <2>3, <2>4
    <3> HIDE DEF t, c
    <3> QED BY <1>c, <1>s, <3>1 DEF Client
  <2> HIDE DEF d
  <2> QED BY <1>s, <2>2, <2>3, <2>4, <2>5 DEF ClientChanges
<1>u. c.wsClient # 0 => c.wsClient \in DOMAIN c.sockets
  BY <1>c, CurrentOfClient
<1>1. ASSUME NEW k \in DOMAIN c.sockets,
             PriceService!onopen(i, k) \/ PriceService!disconnect(i, k)
      PROVE  ClientChanges
  <2>1. PICK state \in {"open", "closing"} :
          clients' = [clients EXCEPT ![i].sockets[k] = [state |-> state, subs |-> {}]]
    BY <1>1 DEF PriceService!onopen, PriceService!disconnect, PriceService!setState
  <2>2. clients' = [clients EXCEPT ![i] =
          [c EXCEPT !.sockets = [c.sockets EXCEPT ![k] =
                                   [state |-> state, subs |-> {}]],
                    !.waiting = c.waiting]]
    BY <1>f, <2>1
  <2>3. /\ c.sockets[k].state \in {"connecting", "open"}
        /\ UNCHANGED <<connection, calls, priceFeedCallbacks>>
    BY <1>1 DEF PriceService!onopen, PriceService!disconnect, PriceService!inState
  <2> QED BY <1>f, <1>s, <2>2, <2>3
<1>2. CASE PriceService!heartbeatTimeout(i)
  <2>1. /\ c.wsClient # 0 /\ c.sockets[c.wsClient].state = "open"
        /\ clients' = [clients EXCEPT
             ![i].sockets[c.wsClient] = [state |-> "closing", subs |-> {}],
             ![i].waiting = TRUE]
        /\ UNCHANGED <<connection, calls, priceFeedCallbacks>>
    BY <1>2 DEF PriceService!heartbeatTimeout, PriceService!socketState
  <2>2. clients' = [clients EXCEPT ![i] =
          [c EXCEPT !.sockets = [c.sockets EXCEPT ![c.wsClient] =
                                   [state |-> "closing", subs |-> {}]],
                    !.waiting = TRUE]]
    BY <2>1
  <2> QED BY <1>s, <1>u, <2>1, <2>2
<1>3. CASE PriceService!restartTimeout(i)
  <2>1. /\ c.wsClient # 0 /\ c.sockets[c.wsClient].state = "connecting"
        /\ clients' = [clients EXCEPT
             ![i].sockets[c.wsClient].state = "closing", ![i].waiting = FALSE]
        /\ UNCHANGED <<connection, calls, priceFeedCallbacks>>
    BY <1>3 DEF PriceService!restartTimeout, PriceService!socketState
  <2>2. /\ c.sockets[c.wsClient] \in ClientSocket
        /\ c.sockets[c.wsClient].subs \in SUBSET Feed
    BY <1>f, <1>u, <2>1 DEF ClientSocket
  <2>3. [c.sockets[c.wsClient] EXCEPT !.state = "closing"]
          = [state |-> "closing", subs |-> c.sockets[c.wsClient].subs]
    BY <2>2 DEF ClientSocket
  <2>4. clients' = [clients EXCEPT ![i] =
          [c EXCEPT !.sockets = [c.sockets EXCEPT ![c.wsClient] =
                       [state |-> "closing", subs |-> c.sockets[c.wsClient].subs]],
                    !.waiting = FALSE]]
    BY <2>1, <2>3
  <2> QED BY <1>s, <1>u, <2>1, <2>2, <2>4
<1>4. CASE PriceService!reconnected(i) /\ c.wsClient # 0
  <2> DEFINE subs == PriceService!onReconnect(c.sockets[c.wsClient].subs)
  <2>1. /\ c.sockets[c.wsClient].state = "open"
        /\ clients' = [clients EXCEPT ![i] = PriceService!reopened(c)]
        /\ UNCHANGED <<connection, calls, priceFeedCallbacks>>
    <3>1. c.sockets[c.wsClient].state # "none"
      BY <1>4, <1>u, <1>f DEF ClientSocket
    <3> QED BY <1>4, <3>1 DEF PriceService!reconnected, PriceService!socketState
  <2>2. /\ c.sockets[c.wsClient] \in ClientSocket
        /\ subs \in SUBSET Feed
    BY <1>f, <1>u, <1>4 DEF ClientSocket, PriceService!onReconnect, PriceServiceInv,
                            CallsTyped
  <2>3. [c.sockets[c.wsClient] EXCEPT !.subs = subs]
          = [state |-> "open", subs |-> subs]
    BY <2>1, <2>2 DEF ClientSocket
  <2>4. PriceService!reopened(c) =
          [c EXCEPT !.waiting = FALSE,
                    !.sockets = [c.sockets EXCEPT ![c.wsClient] =
                                   [c.sockets[c.wsClient] EXCEPT !.subs = subs]]]
    BY <1>4 DEF PriceService!reopened
  <2> HIDE DEF subs
  <2>5. clients' = [clients EXCEPT ![i] =
          [c EXCEPT !.sockets = [c.sockets EXCEPT ![c.wsClient] =
                                   [state |-> "open", subs |-> subs]],
                    !.waiting = FALSE]]
    BY <1>f, <2>1, <2>3, <2>4
  <2> QED BY <1>s, <1>u, <1>4, <2>1, <2>2, <2>5
<1>5. CASE PriceService!reconnected(i) /\ c.wsClient = 0
  <2> DEFINE d == [c EXCEPT !.waiting = FALSE]
  <2>1. /\ clients' = [clients EXCEPT ![i] = d]
        /\ UNCHANGED <<connection, calls, priceFeedCallbacks>>
    BY <1>5 DEF PriceService!reconnected, PriceService!reopened
  <2>2. d \in Client /\ d.sockets = c.sockets /\ d.wsClient = c.wsClient
        /\ d.wsUserClosed = c.wsUserClosed
    BY <1>c DEF Client
  <2> HIDE DEF d
  <2>3. Sound(d)
    BY <1>c, <2>2 DEF Sound
  <2> QED BY <2>1, <2>2, <2>3 DEF ClientChanges
<1>6. ASSUME NEW k \in DOMAIN c.sockets, PriceService!onclose(i, k)
      PROVE  ClientChanges
  <2> DEFINE s == [c.sockets[k] EXCEPT !.state = "closed"]
             t == [c.sockets EXCEPT ![k] = s]
             w == IF c.wsUserClosed THEN c.wsClient ELSE 0
             p == c.sleeping \/ ~c.wsUserClosed
             d == [c EXCEPT !.sockets = t, !.wsClient = w, !.sleeping = p]
  <2>1. /\ clients' = [clients EXCEPT ![i] = d]
        /\ c.sockets[k].state = "closing"
        /\ UNCHANGED <<connection, calls, priceFeedCallbacks>>
    BY <1>6 DEF PriceService!onclose, PriceService!inState
  <2>2. s \in ClientSocket /\ s.state = "closed"
    BY <1>f DEF ClientSocket
  <2>3. p \in BOOLEAN /\ w \in {c.wsClient, 0} /\ w \in Nat
    BY <1>f
  <2> HIDE DEF s
  <2>4. /\ t \in Seq(ClientSocket) /\ DOMAIN t = DOMAIN c.sockets
        /\ Len(t) = Len(c.sockets)
        /\ \A j \in DOMAIN c.sockets : t[j] = IF j = k THEN s ELSE c.sockets[j]
    BY <1>f, <2>2
  <2> HIDE DEF t, p
  <2>5. /\ d.sockets = t /\ d.wsClient = w /\ d.wsUserClosed = c.wsUserClosed
        /\ d \in Client
    <3> HIDE DEF w, c
    <3> QED BY <1>c, <2>3, <2>4 DEF Client
  <2> HIDE DEF d
  <2>6. w \in 0..Len(t)
    BY <1>c, <1>f, <2>3, <2>4 DEF Sound
  <2>7. Sound(d)
    <3>1. CASE c.wsUserClosed
      BY <1>c, <2>2, <2>4, <2>5, <2>6, <3>1 DEF Sound
    <3>2. CASE ~c.wsUserClosed
      <4>1. \A j \in DOMAIN c.sockets : t[j].state = "closed"
        BY <1>c, <2>1, <2>2, <2>4, <3>2 DEF Sound
      <4> QED BY <2>4, <2>5, <2>6, <3>2, <4>1 DEF Sound
    <3> QED BY <3>1, <3>2
  <2> QED BY <2>1, <2>5, <2>7 DEF ClientChanges
<1>7. CASE PriceService!restartUnexpectedClosedWebsocket(i)
  <2> DEFINE e == IF c.wsUserClosed THEN c ELSE PriceService!startWebSocket(c)
             w == IF c.wsUserClosed THEN c.waiting ELSE TRUE
             d == [e EXCEPT !.sleeping = FALSE, !.waiting = w]
  <2>1. /\ clients' = [clients EXCEPT ![i] =
             IF c.wsUserClosed THEN [c EXCEPT !.sleeping = FALSE]
             ELSE [PriceService!startWebSocket(c) EXCEPT !.sleeping = FALSE,
                                                         !.waiting = TRUE]]
        /\ UNCHANGED <<connection, calls, priceFeedCallbacks>>
    BY <1>7 DEF PriceService!restartUnexpectedClosedWebsocket
  <2>2. /\ e \in Client /\ Sound(e) /\ w \in BOOLEAN
        /\ e.wsUserClosed = c.wsUserClosed
    BY <1>c, <1>f, StartSound DEF Client
  <2>3. clients' = [clients EXCEPT ![i] = d]
    <3>1. c.wsUserClosed => [c EXCEPT !.sleeping = FALSE]
                              = [c EXCEPT !.sleeping = FALSE, !.waiting = c.waiting]
      BY <1>f
    <3> QED BY <2>1, <3>1
  <2> HIDE DEF e, w
  <2>4. d \in Client /\ d.sockets = e.sockets /\ d.wsClient = e.wsClient
        /\ d.wsUserClosed = e.wsUserClosed
    BY <2>2 DEF Client
  <2> HIDE DEF d
  <2>5. Sound(d)
    BY <2>2, <2>4 DEF Sound
  <2> QED BY <2>1, <2>2, <2>3, <2>4, <2>5 DEF ClientChanges
<1> QED BY <1>1, <1>2, <1>3, <1>4, <1>5, <1>6, <1>7 DEF PriceService!ClientStep

\* An event or a timer keeps the invariant.
LEMMA ClientChangesKeep ==
  ASSUME PriceServiceInv, ClientChanges
  PROVE  PriceServiceInv'
<1>1. PICK i \in DOMAIN clients, d \in Client :
        /\ clients' = [clients EXCEPT ![i] = d] /\ Sound(d)
        /\ d.wsUserClosed = clients[i].wsUserClosed
  BY DEF ClientChanges
<1>2. AllSound(clients, connection) /\ (~d.wsUserClosed => connection = i)
  BY <1>1 DEF PriceServiceInv, AllSound
<1>3. AllSound([clients EXCEPT ![i] = d], connection)
  BY <1>1, <1>2, OneClient
<1>4. connection' = connection /\ CallsTyped'
  BY DEF ClientChanges, PriceServiceInv, CallsTyped
<1> QED BY <1>1, <1>3, <1>4 DEF PriceServiceInv

\* A message sent on the current socket of a client, and a wait that closes
\* it, leave the client sound.
LEMMA CurrentChanges ==
  ASSUME PriceServiceInv, NEW i \in DOMAIN clients, clients[i].wsClient # 0,
         clients[i].sockets[clients[i].wsClient].state \in {"connecting", "open"},
         NEW s \in ClientSocket, s.state \in {"open", "closing"}
  PROVE  AllSound([clients EXCEPT ![i].sockets[clients[i].wsClient] = s],
                  connection)
<1> DEFINE c == clients[i]
           k == c.wsClient
           t == [c.sockets EXCEPT ![k] = s]
           d == [c EXCEPT !.sockets = t]
<1>1. AllSound(clients, connection) /\ c \in Client /\ Sound(c)
  BY DEF PriceServiceInv, AllSound
<1>2. k \in DOMAIN c.sockets /\ ~c.wsUserClosed
  BY <1>1, CurrentOfClient
<1>3. [clients EXCEPT ![i].sockets[clients[i].wsClient] = s]
        = [clients EXCEPT ![i] = d]
  OBVIOUS
<1>4. c.sockets[k].state \in {"connecting", "open"}
  OBVIOUS
<1> HIDE DEF k
<1>5. t \in Seq(ClientSocket)
  BY <1>1, <1>2 DEF Client
<1> HIDE DEF c
<1>6. /\ d.sockets = t /\ d.wsClient = c.wsClient
      /\ d.wsUserClosed = c.wsUserClosed
  BY <1>1 DEF Client
<1>7. Sound(d)
  <2> HIDE DEF d
  <2> QED BY <1>1, <1>2, <1>4, <1>6, SocketDeclines DEF t
<1>8. d \in Client
  <2> HIDE DEF t
  <2> QED BY <1>1, <1>5 DEF Client
<1>9. ~d.wsUserClosed => connection = i
  BY <1>1, <1>6 DEF AllSound, c
<1> HIDE DEF d
<1> QED BY <1>1, <1>3, <1>7, <1>8, <1>9, OneClient

\* A call that returns leaves the others.
LEMMA CallReturns ==
  ASSUME calls \in Seq(Call), NEW c \in DOMAIN calls
  PROVE  PriceService!RemoveAt(calls, c) \in Seq(Call)
<1>1. c \in 1..Len(calls)
  OBVIOUS
<1>2. SubSeq(calls, 1, c - 1) \in Seq(Call)
      /\ SubSeq(calls, c + 1, Len(calls)) \in Seq(Call)
  BY <1>1
<1> QED BY <1>2 DEF PriceService!RemoveAt

\* What unsubscribePriceFeedUpdates does after its message is sound.
LEMMA AfterSendSound ==
  ASSUME NEW call, NEW cs, AllSound(cs, connection), priceFeedCallbacks \subseteq Feed,
         PriceService!afterSend(call, cs)
  PROVE  AllSound(clients', connection') /\ priceFeedCallbacks' \subseteq Feed
<1>1. CASE PriceService!closeWebSocket(cs)
  BY <1>1, CloseConnection
<1>2. CASE clients' = cs /\ UNCHANGED <<connection, priceFeedCallbacks>>
  BY <1>2
<1> QED BY <1>1, <1>2 DEF PriceService!afterSend

\* A call that goes on to its send is a call.
LEMMA SendingCall ==
  ASSUME NEW call \in Call, connection \in Nat
  PROVE  PriceService!sending(call) \in Call
<1> DEFINE ids == PriceService!newPriceIds(call.type, call.id)
           at == IF PriceService!socketState(connection) \in {"none", "open"}
                 THEN "sending" ELSE "waiting"
<1>1. ids \in SUBSET Feed
  BY DEF PriceService!newPriceIds, Call
<1>2. at \in {"starting", "sending", "waiting"}
  OBVIOUS
<1>3. PriceService!sending(call)
        = [call EXCEPT !.at = at, !.to = connection, !.ids = ids]
  BY DEF PriceService!sending
<1> HIDE DEF ids, at
<1> QED BY <1>1, <1>2, <1>3 DEF Call

\* A call that begins, and one that goes on after startWebSocket, keep the
\* invariant: a client is made only when every other one was closed.
LEMMA CallBegins ==
  ASSUME PriceServiceInv,
         \/ \E f \in Feed : \/ PriceService!subscribePriceFeedUpdates(f)
                            \/ PriceService!unsubscribePriceFeedUpdates(f)
         \/ \E c \in DOMAIN calls : PriceService!started(c)
  PROVE  PriceServiceInv'
<1>0. /\ clients \in Seq(Client) /\ connection \in 0..Len(clients)
      /\ calls \in Seq(Call) /\ priceFeedCallbacks \subseteq Feed
      /\ connection \in Nat
  BY DEF PriceServiceInv, AllSound, CallsTyped
<1>1. ASSUME NEW call \in Call, PriceService!updateCallbacks(call)
      PROVE  priceFeedCallbacks' \subseteq Feed
  BY <1>0, <1>1 DEF PriceService!updateCallbacks, PriceService!updated, Call
<1>2. ASSUME NEW f \in Feed, NEW type \in {"subscribe", "unsubscribe"},
             PriceService!request(type, f)
      PROVE  PriceServiceInv'
  <2> DEFINE call == [type |-> type, id |-> f, at |-> "starting", to |-> 0,
                      ids |-> {}]
  <2>1. call \in Call
    BY DEF Call
  <2>2. CASE connection = 0
    <3>1. /\ connection' = Len(clients) + 1
          /\ clients' = Append(clients, PriceService!Started)
          /\ calls' = Append(calls, call) /\ priceFeedCallbacks' = priceFeedCallbacks
      BY <1>2, <2>2 DEF PriceService!request
    <3> HIDE DEF call
    <3>2. CallsTyped'
      BY <1>0, <2>1, <3>1 DEF CallsTyped
    <3> DEFINE d == PriceService!Started
               one == <<PriceService!NewSocket>>
    <3>3. PriceService!NewSocket \in ClientSocket
      BY DEF PriceService!NewSocket, ClientSocket
    <3>4. /\ one \in Seq(ClientSocket) /\ Len(one) = 1 /\ DOMAIN one = {1}
      BY <3>3
    <3>5. d = [sockets |-> one, wsClient |-> 1, wsUserClosed |-> FALSE,
               sleeping |-> FALSE, waiting |-> FALSE]
      BY DEF PriceService!Started
    <3> HIDE DEF d, one
    <3>6. d \in Client /\ d.sockets = one /\ d.wsClient = 1 /\ ~d.wsUserClosed
      BY <3>4, <3>5 DEF Client
    <3>7. Sound(d)
      BY <3>4, <3>6 DEF Sound
    <3> DEFINE n == Len(clients)
    <3>8. /\ clients' \in Seq(Client) /\ Len(clients') = n + 1 /\ n \in Nat
          /\ DOMAIN clients' = 1..(n + 1) /\ DOMAIN clients = 1..n
          /\ clients'[n + 1] = d /\ \A j \in 1..n : clients'[j] = clients[j]
      BY <1>0, <3>1, <3>6 DEF d
    <3>9. \A j \in 1..n : Sound(clients[j]) /\ clients[j].wsUserClosed
      <4>1. \A j \in 1..n : j # 0
        BY <3>8
      <4> QED BY <2>2, <3>8, <4>1 DEF PriceServiceInv, AllSound
    <3> HIDE DEF n
    <3>10. \A j \in 1..(n + 1) : j \in 1..n \/ j = n + 1
      BY <3>8
    <3>11. connection' = n + 1 /\ n + 1 \in 0..(n + 1)
      BY <3>1, <3>8 DEF n
    <3>12. \A j \in DOMAIN clients' :
             Sound(clients'[j]) /\ (~clients'[j].wsUserClosed => connection' = j)
      BY <3>6, <3>7, <3>8, <3>9, <3>10, <3>11
    <3> QED BY <3>2, <3>8, <3>11, <3>12 DEF PriceServiceInv, AllSound
  <2>3. CASE connection # 0
    <3>1. /\ PriceService!updateCallbacks(call)
          /\ calls' = Append(calls, PriceService!sending(call))
          /\ connection' = connection /\ clients' = clients
      BY <1>2, <2>3 DEF PriceService!request
    <3>2. priceFeedCallbacks' \subseteq Feed /\ PriceService!sending(call) \in Call
      BY <1>0, <1>1, <2>1, <3>1, SendingCall
    <3> HIDE DEF call
    <3>3. CallsTyped'
      BY <1>0, <3>1, <3>2 DEF CallsTyped
    <3> QED BY <3>1, <3>3 DEF PriceServiceInv
  <2> QED BY <2>2, <2>3
<1>3. ASSUME NEW c \in DOMAIN calls, PriceService!started(c)
      PROVE  PriceServiceInv'
  <2>1. calls[c] \in Call
    BY <1>0
  <2>2. /\ priceFeedCallbacks' \subseteq Feed
        /\ connection' = connection /\ clients' = clients
    BY <1>1, <1>3, <2>1 DEF PriceService!started
  <2>3. calls' \in Seq(Call)
    <3>1. CASE connection = 0
      BY <1>0, <1>3, <3>1, CallReturns DEF PriceService!started
    <3>2. CASE connection # 0
      <4>1. PriceService!sending(calls[c]) \in Call
        BY <1>0, <2>1, SendingCall
      <4>2. calls' = [calls EXCEPT ![c] = PriceService!sending(calls[c])]
        BY <1>3, <3>2 DEF PriceService!started
      <4> QED BY <1>0, <4>1, <4>2
    <3> QED BY <3>1, <3>2
  <2> QED BY <2>2, <2>3 DEF PriceServiceInv, CallsTyped
<1> QED BY <1>2, <1>3
     DEF PriceService!subscribePriceFeedUpdates, PriceService!unsubscribePriceFeedUpdates

\* A call that ends, with its message or after five seconds, and
\* closeWebSocket keep the invariant.
LEMMA CallEnds ==
  ASSUME PriceServiceInv,
         \/ PriceService!userCloses
         \/ \E c \in DOMAIN calls : PriceService!send(c) \/ PriceService!sendTimeout(c)
  PROVE  PriceServiceInv'
<1>0. /\ AllSound(clients, connection) /\ clients \in Seq(Client)
      /\ calls \in Seq(Call) /\ priceFeedCallbacks \subseteq Feed
  BY DEF PriceServiceInv, AllSound, CallsTyped
<1>1. CASE PriceService!userCloses
  <2>1. PriceService!closeWebSocket(clients) /\ calls' = calls
    BY <1>1 DEF PriceService!userCloses
  <2>2. AllSound(clients', connection') /\ priceFeedCallbacks' = {}
    BY <1>0, <2>1, CloseConnection
  <2> QED BY <1>0, <2>1, <2>2 DEF PriceServiceInv, CallsTyped
<1>2. ASSUME NEW c \in DOMAIN calls, NEW cs, AllSound(cs, connection),
             calls' = PriceService!RemoveAt(calls, c),
             PriceService!afterSend(calls[c], cs)
      PROVE  PriceServiceInv'
  <2>1. AllSound(clients', connection') /\ priceFeedCallbacks' \subseteq Feed
    BY <1>0, <1>2, AfterSendSound
  <2>2. calls' \in Seq(Call)
    BY <1>0, <1>2, CallReturns
  <2> QED BY <2>1, <2>2 DEF PriceServiceInv, CallsTyped
<1>3. ASSUME NEW i, i \notin DOMAIN clients, NEW e
      PROVE  [clients EXCEPT ![i] = e] = clients
  BY <1>0, <1>3
<1>4. ASSUME NEW c \in DOMAIN calls, PriceService!send(c)
      PROVE  PriceServiceInv'
  <2> DEFINE call == calls[c]
             i == call.to
             k == clients[i].wsClient
             subs == PriceService!updated(clients[i].sockets[k].subs, call.type,
                                          call.ids)
             cs == IF PriceService!socketState(i) = "none" THEN clients
                   ELSE [clients EXCEPT ![i].sockets[k].subs = subs]
  <2>1. /\ PriceService!socketState(i) \in {"none", "open"}
        /\ calls' = PriceService!RemoveAt(calls, c)
        /\ PriceService!afterSend(call, cs)
    BY <1>4 DEF PriceService!send
  <2>2. AllSound(cs, connection)
    <3>1. CASE PriceService!socketState(i) = "none"
      BY <1>0, <3>1
    <3>2. CASE i \notin DOMAIN clients
      BY <1>0, <1>3, <3>2
    <3>3. CASE PriceService!socketState(i) # "none" /\ i \in DOMAIN clients
      <4> DEFINE s == [state |-> "open", subs |-> subs]
      <4>1. k # 0 /\ clients[i].sockets[k].state = "open"
        BY <2>1, <3>3 DEF PriceService!socketState
      <4>2. clients[i] \in Client /\ Sound(clients[i])
        BY <1>0, <3>3 DEF AllSound
      <4>3. clients[i].sockets[k] \in ClientSocket
        <5>1. k \in DOMAIN clients[i].sockets
          BY <4>1, <4>2, CurrentOfClient
        <5>2. clients[i].sockets \in Seq(ClientSocket)
          BY <4>2 DEF Client
        <5> QED BY <5>1, <5>2
      <4>4. call \in Call
        BY <1>0
      <4>5. subs \in SUBSET Feed
        <5> HIDE DEF call, k
        <5> QED BY <4>3, <4>4 DEF PriceService!updated, ClientSocket, Call
      <4>6. [clients[i].sockets[k] EXCEPT !.subs = subs] = s
        <5> HIDE DEF subs, k, i
        <5> QED BY <4>1, <4>3 DEF ClientSocket
      <4>7. cs = [clients EXCEPT ![i].sockets[k] =
                    [clients[i].sockets[k] EXCEPT !.subs = subs]]
        <5> HIDE DEF subs, k, i
        <5> QED BY <3>3
      <4>8. s \in ClientSocket /\ s.state = "open"
        <5> HIDE DEF subs
        <5> QED BY <4>5 DEF ClientSocket
      <4>9. AllSound([clients EXCEPT ![i].sockets[k] = s], connection)
        <5> HIDE DEF s, i
        <5> QED BY <3>3, <4>1, <4>8, CurrentChanges
      <4> QED BY <4>6, <4>7, <4>9
    <3> QED BY <3>1, <3>2, <3>3
  <2> HIDE DEF cs
  <2> QED BY <1>2, <2>1, <2>2
<1>5. ASSUME NEW c \in DOMAIN calls, PriceService!sendTimeout(c)
      PROVE  PriceServiceInv'
  <2> DEFINE i == calls[c].to
             k == clients[i].wsClient
             cs == [clients EXCEPT ![i].sockets[k].state = "closing"]
  <2>1. /\ PriceService!socketState(i) = "connecting"
        /\ calls' = PriceService!RemoveAt(calls, c)
        /\ PriceService!afterSend(calls[c], cs)
    BY <1>5 DEF PriceService!sendTimeout
  <2>2. AllSound(cs, connection)
    <3>1. CASE i \notin DOMAIN clients
      BY <1>0, <1>3, <3>1
    <3>2. CASE i \in DOMAIN clients
      <4> DEFINE s == [state |-> "closing", subs |-> clients[i].sockets[k].subs]
      <4>1. k # 0 /\ clients[i].sockets[k].state = "connecting"
        BY <2>1 DEF PriceService!socketState
      <4>2. clients[i] \in Client /\ Sound(clients[i])
        BY <1>0, <3>2 DEF AllSound
      <4>3. clients[i].sockets[k] \in ClientSocket
        <5>1. k \in DOMAIN clients[i].sockets
          BY <4>1, <4>2, CurrentOfClient
        <5>2. clients[i].sockets \in Seq(ClientSocket)
          BY <4>2 DEF Client
        <5> QED BY <5>1, <5>2
      <4> HIDE DEF k, i
      <4>4. [clients[i].sockets[k] EXCEPT !.state = "closing"] = s
            /\ s \in ClientSocket /\ s.state = "closing"
        BY <4>3 DEF ClientSocket
      <4>5. cs = [clients EXCEPT ![i].sockets[k] =
                    [clients[i].sockets[k] EXCEPT !.state = "closing"]]
        OBVIOUS
      <4>6. AllSound([clients EXCEPT ![i].sockets[k] = s], connection)
        <5> HIDE DEF s
        <5> QED BY <3>2, <4>1, <4>4, CurrentChanges DEF k
      <4> QED BY <4>4, <4>5, <4>6
    <3> QED BY <3>1, <3>2
  <2> HIDE DEF cs
  <2> QED BY <1>2, <2>1, <2>2
<1> QED BY <1>1, <1>4, <1>5

\* The invariant holds before the first call.
LEMMA InitPriceServiceInv == Init => PriceServiceInv
<1>1. <<>> \in Seq(Client) /\ <<>> \in Seq(Call) /\ Len(<<>>) = 0
      /\ DOMAIN <<>> = {} /\ 0 \in 0..0
  OBVIOUS
<1>2. Init => /\ clients = <<>> /\ calls = <<>> /\ connection = 0
              /\ priceFeedCallbacks = {}
  BY DEF Init, PriceService!Init
<1> QED BY <1>1, <1>2 DEF PriceServiceInv, AllSound, CallsTyped

\* Every step of either client keeps the invariant.
LEMMA NextPriceServiceInv == PriceServiceInv /\ [Next]_vars => PriceServiceInv'
<1> SUFFICES ASSUME PriceServiceInv, [Next]_vars PROVE PriceServiceInv'
  OBVIOUS
<1>1. CASE PriceService!Next
  <2>1. CASE \E c \in DOMAIN calls : PriceService!started(c)
    BY <2>1, CallBegins
  <2>2. CASE \E f \in Feed : \/ PriceService!subscribePriceFeedUpdates(f)
                             \/ PriceService!unsubscribePriceFeedUpdates(f)
    BY <2>2, CallBegins
  <2>3. CASE \/ PriceService!userCloses
             \/ \E c \in DOMAIN calls :
                  PriceService!send(c) \/ PriceService!sendTimeout(c)
    BY <2>3, CallEnds
  <2>4. CASE \E i \in DOMAIN clients :
               \/ PriceService!ClientStep(i)
               \/ PriceService!heartbeatTimeout(i) \/ PriceService!restartTimeout(i)
               \/ \E k \in DOMAIN clients[i].sockets : PriceService!disconnect(i, k)
    BY <2>4, ClientStepsChange, ClientChangesKeep
  <2> QED BY <1>1, <2>1, <2>2, <2>3, <2>4, Zenon
        DEF PriceService!Next, PriceService!Step
<1>2. CASE UNCHANGED priceServiceVars
  BY <1>2 DEF priceServiceVars, PriceServiceInv, AllSound, CallsTyped
<1> QED BY <1>1, <1>2 DEF Next, InLazer, InPriceService, vars

\* Whatever calls, events and timers interleave, a socket that is open or
\* about to be is the current one of the client that the connection uses.
THEOREM PriceServiceForgetsNoSocket == Spec => []PriceServiceNoSocketLeaked
<1>1. PriceServiceInv => PriceServiceNoSocketLeaked
  <2> SUFFICES ASSUME PriceServiceInv, NEW i \in DOMAIN clients,
                      NEW k \in DOMAIN clients[i].sockets,
                      clients[i].sockets[k].state \in {"connecting", "open"}
               PROVE  connection = i /\ clients[i].wsClient = k
    BY DEF PriceServiceNoSocketLeaked, PriceService!NoSocketLeaked,
           PriceService!inState
  <2>1. Sound(clients[i]) /\ (~clients[i].wsUserClosed => connection = i)
    BY DEF PriceServiceInv, AllSound
  <2>2. ~clients[i].wsUserClosed
    BY <2>1 DEF Sound
  <2> QED BY <2>1, <2>2 DEF Sound
<1> QED BY <1>1, InitPriceServiceInv, NextPriceServiceInv, PTL DEF Spec
=============================================================================
