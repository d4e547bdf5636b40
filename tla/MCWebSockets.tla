---------------------------- MODULE MCWebSockets ----------------------------
(***************************************************************************)
(* Two clients that keep subscriptions over sockets which they replace:    *)
(* the pool of the Lazer SDK and the connection of the price service SDK.  *)
(* They are alternatives: a behaviour is one of the client that sdk names. *)
(***************************************************************************)
EXTENDS Integers, Sequences

CONSTANTS
  Sdk,  \* the clients to check
  Conn, Sub, Msg, Unhandled, MaxRequest, MaxTimeout, MaxFault,
  Feed, MaxCall

VARIABLES
  sdk,
  phase, created, unhandledRejections, sock, wsClient, wsUserClosed, promise,
  restart, terminated, subscriptions, sends, wasAllDown, cache, arriving,
  delivered, timeouts,
  priceFeedCallbacks, connection, clients, calls, overlapped,
  requests, faults

Lazer == INSTANCE LazerPool
PriceService == INSTANCE PriceServiceClient WITH MaxRequest <- MaxCall

lazerVars == <<phase, created, unhandledRejections, sock, wsClient,
               wsUserClosed, promise, restart, terminated, subscriptions,
               sends, wasAllDown, cache, arriving, delivered, timeouts>>
priceServiceVars == <<priceFeedCallbacks, connection, clients, calls, overlapped>>
vars == <<sdk, lazerVars, priceServiceVars, requests, faults>>

Init ==
  /\ sdk \in Sdk
  /\ Lazer!Init /\ PriceService!Init
  /\ sdk = "lazer" \/ unhandledRejections = CHOOSE u \in Unhandled : TRUE

InLazer(A) == sdk = "lazer" /\ A /\ UNCHANGED <<sdk, priceServiceVars>>
InPriceService(A) == sdk = "price_service" /\ A /\ UNCHANGED <<sdk, lazerVars>>

Next == InLazer(Lazer!Next) \/ InPriceService(PriceService!Next)

\* Servers accept connections, and close events and timers arrive.
Fairness ==
  /\ \A r \in Conn : WF_vars(InLazer(Lazer!SocketStep(r)))
  /\ WF_vars(InLazer(Lazer!create \/ Lazer!createFails))
  /\ WF_vars(InPriceService(PriceService!Step))

Spec == Init /\ [][Next]_vars /\ Fairness

\* The fields of the Lazer pool and of its connections have their types.
LazerTypeOK == Lazer!TypeOK

\* A connection of the Lazer pool never forgets a socket that is open.
LazerNoSocketLeaked == Lazer!NoSocketLeaked

\* A message reaches the listeners of the Lazer pool once.
LazerDeliveredOnce == Lazer!DeliveredOnce

\* Every connection of the Lazer pool gets its subscriptions back when no
\* handshake takes longer than CONNECTION_TIMEOUT.
LazerSubscriptionsRestored == sdk = "lazer" => Lazer!SubscriptionsRestored

\* Every connection of the Lazer pool gets its subscriptions back, however
\* long a handshake takes, as the comment at onReconnect says.
LazerReconnectCallsBack == sdk = "lazer" => Lazer!ReconnectCallsBack

\* No restart opens a socket of a Lazer pool that was shut down.
LazerShutdownIsFinal == Lazer!ShutdownIsFinal

\* PriceServiceConnection never forgets a socket that is open.
PriceServiceNoSocketLeaked == PriceService!NoSocketLeaked

\* The sockets of PriceServiceConnection follow its callbacks, for a caller
\* that does not interfere with its own calls.
PriceServiceFollowsCallbacks ==
  sdk = "price_service" => PriceService!SubscriptionsFollowCallbacks
=============================================================================
