----------------------------- MODULE PushProofs -----------------------------
(***************************************************************************)
(* The websocket server on top of the feed, for any number of clients,     *)
(* venues, channels and overlapping pushes: subscribers are asked for      *)
(* upstream across reconnects, closed sockets leave the index, and no      *)
(* change of the user's state is lost on its way to a subscriber.          *)
(*                                                                         *)
(* Each property needs what the code keeps between the socket's list, the  *)
(* client's own record and the index: Relay, Index and Told below.         *)
(***************************************************************************)
EXTENDS Push, TLAPS

(* The variables the three arguments are about have their shape.           *)
ServerTypes ==
  /\ conn \in [Clients -> {"none", "open", "closing", "closed"}]
  /\ subs \in [Clients -> SUBSET Keys] /\ index \in [Keys -> SUBSET Clients]
  /\ clients \subseteq Clients
  /\ ver \in Nat /\ hook \in Nat
  /\ snap \in [Clients -> {"idle", "read", "send"} \X Nat]
  /\ cast \in [Slots -> {"idle", "read", "send"} \X Nat]
  /\ told \in [Clients -> Nat]

(* Whatever a client of the index wants is on the list that is replayed    *)
(* when a socket opens, and an open socket has been asked for the list.    *)
Relay ==
  /\ \A k \in Markets : index[k] # {} => k \in subscriptions
  /\ up = "open" => subscriptions \subseteq sent

(* The index and the client's record agree: a client is indexed only under *)
(* keys of its record, under all of them while its socket is open, and not *)
(* at all when the socket has closed or is not there yet.                  *)
Index ==
  \A c \in Clients :
    /\ \A k \in Keys : c \in index[k] => k \in subs[c]
    /\ conn[c] = "open" => \A k \in subs[c] : c \in index[k]
    /\ conn[c] \in {"none", "closed"} => subs[c] = {}

(* A push that will tell the state of the last event or a later one.       *)
Carries(w) == w[1] = "read" \/ (w[1] = "send" /\ w[2] >= hook)

Informed(c) == told[c] >= hook \/ Carries(snap[c]) \/ \E s \in Slots : Carries(cast[s])

Told ==
  /\ hook <= ver
  /\ \A c \in Clients : conn[c] = "open" /\ User \in subs[c] => Informed(c)

Inv == ServerTypes /\ Relay /\ Index /\ Told

-----------------------------------------------------------------------------
LEMMA InitInv == Init => Inv
<1> SUFFICES ASSUME Init PROVE Inv
  OBVIOUS
<1>1. ServerTypes
  BY DEF Init, ServerTypes, Rest
<1>2. Relay /\ Index /\ Told
  BY DEF Init, FeedInit, Relay, Index, Told, Keys
<1> QED BY <1>1, <1>2 DEF Inv

(* The feed's own steps: the list only grows, and a socket that opens or   *)
(* is open has been asked for all of it.                                   *)
LEMMA FeedRelay ==
  ASSUME Relay, FeedNext \/ \E s \in Subs : HlFrame(s), UNCHANGED index
  PROVE  Relay'
<1>1. subscriptions \subseteq subscriptions' => \A k \in Markets : index'[k] # {} => k \in subscriptions'
  BY DEF Relay
<1>2. CASE Start
  BY <1>1, <1>2 DEF Start, Relay
<1>3. CASE Open \/ Drop \/ scheduleReconnect
  BY <1>1, <1>3 DEF Open, Drop, Closed, scheduleReconnect, Relay
<1>4. CASE FallSilent \/ Quiet \/ Heartbeat
  BY <1>1, <1>4 DEF FallSilent, Quiet, Heartbeat, Closed, Relay
<1>5. CASE \E k \in WorkerSubs : WorkerSubscribes(k)
  BY <1>1, <1>5 DEF WorkerSubscribes, subscribe, Relay
<1>6. CASE HlMoves \/ (\E s \in Subs : HlFrame(s))
  BY <1>1, <1>6 DEF HlMoves, HlFrame, socketVars, Relay
<1>7. CASE \E t \in Ticks : TickStart(t) \/ TickAnswer(t) \/ TickFails(t) \/ TickWrite(t)
  BY <1>1, <1>7 DEF TickStart, TickAnswer, TickFails, TickWrite, socketVars, Relay
<1> QED BY <1>2, <1>3, <1>4, <1>5, <1>6, <1>7 DEF FeedNext

(* A step of the feed leaves the server alone.                             *)
LEMMA FeedInv ==
  ASSUME Inv, FeedNext \/ \E s \in Subs : HlFrame(s), UNCHANGED <<clientVars, stateVars>>
  PROVE  Inv'
<1>1. UNCHANGED <<conn, subs, index, clients, ver, hook, snap, cast, told>>
  BY DEF clientVars, stateVars
<1>2. Relay'
  BY <1>1, FeedRelay DEF Inv
<1>3. ServerTypes' /\ Index' /\ Told'
  BY <1>1 DEF Inv, ServerTypes, Index, Told, Informed, Carries
<1> QED BY <1>2, <1>3 DEF Inv

(* Sockets come and go, and clients leave the index: nothing is pushed, and *)
(* no socket opens but one without subscriptions.                          *)
LEMMA SocketInv ==
  ASSUME Inv,
         \/ \E c \in Clients : handleConnection(c) \/ Error(c) \/ Close(c) \/ Pong(c)
         \/ PingClients
  PROVE  Inv'
<1> USE DEF Inv
<1>1. ASSUME NEW c \in Clients, handleConnection(c) PROVE Inv'
  <2>1. UNCHANGED <<subs, index, ver, hook, snap, cast, told, up, subscriptions, sent>>
    BY <1>1 DEF handleConnection, stateVars, feedVars, socketVars
  <2>2. conn[c] = "none" /\ conn' = [conn EXCEPT ![c] = "open"] /\ clients' = clients \cup {c}
    BY <1>1 DEF handleConnection
  <2>3. ServerTypes'
    BY <2>1, <2>2 DEF ServerTypes
  <2>4. Relay' /\ Index'
    BY <2>1, <2>2 DEF Relay, Index, ServerTypes
  <2>5. Told'
    BY <2>1, <2>2 DEF Told, Index, ServerTypes, Informed, Carries
  <2> QED BY <2>3, <2>4, <2>5
<1>2. ASSUME NEW c \in Clients, Error(c) PROVE Inv'
  <2>1. UNCHANGED <<subs, ver, hook, snap, cast, told, up, subscriptions, sent>>
    BY <1>2 DEF Error, stateVars, feedVars, socketVars
  <2>2. /\ conn' = [conn EXCEPT ![c] = "closing"] /\ clients' = clients \ {c}
        /\ index' = [k \in Keys |-> index[k] \ {d \in {c} : k \in subs[d]}]
    BY <1>2 DEF Error, handleDisconnect
  <2>3. ServerTypes'
    BY <2>1, <2>2 DEF ServerTypes
  <2>4. Relay' /\ Index'
    BY <2>1, <2>2 DEF Relay, Index, ServerTypes, Keys
  <2>5. Told'
    BY <2>1, <2>2 DEF Told, ServerTypes, Informed, Carries
  <2> QED BY <2>3, <2>4, <2>5
<1>3. ASSUME NEW c \in Clients, Close(c) PROVE Inv'
  <2>1. UNCHANGED <<ver, hook, snap, cast, up, subscriptions, sent>>
    BY <1>3 DEF Close, feedVars, socketVars
  <2>2. /\ conn' = [conn EXCEPT ![c] = "closed"] /\ clients' = clients \ {c}
        /\ index' = [k \in Keys |-> index[k] \ {d \in {c} : k \in subs[d]}]
        /\ subs' = [subs EXCEPT ![c] = {}] /\ told' = [told EXCEPT ![c] = 0]
    BY <1>3 DEF Close, handleDisconnect
  <2>3. ServerTypes'
    BY <2>1, <2>2 DEF ServerTypes
  <2>4. Relay' /\ Index'
    BY <2>1, <2>2 DEF Relay, Index, ServerTypes, Keys
  <2>5. Told'
    BY <2>1, <2>2 DEF Told, ServerTypes, Informed, Carries
  <2> QED BY <2>3, <2>4, <2>5
<1>4. ASSUME NEW c \in Clients, Pong(c) PROVE Inv'
  <2>1. UNCHANGED <<conn, subs, index, clients, ver, hook, snap, cast, told, up, subscriptions, sent>>
    BY <1>4 DEF Pong, stateVars, feedVars, socketVars
  <2> QED BY <2>1 DEF ServerTypes, Relay, Index, Told, Informed, Carries
<1>5. CASE PingClients
  <2> DEFINE dead == {c \in clients : ~alive[c]}
  <2>1. UNCHANGED <<subs, ver, hook, snap, cast, told, up, subscriptions, sent>>
    BY <1>5 DEF PingClients, stateVars, feedVars, socketVars
  <2>2. /\ conn' = [c \in Clients |-> IF c \in dead THEN "closing" ELSE conn[c]]
        /\ index' = [k \in Keys |-> index[k] \ {c \in dead : k \in subs[c]}]
        /\ clients' = clients \ dead
    BY <1>5 DEF PingClients, handleDisconnect
  <2>3. ServerTypes'
    BY <2>1, <2>2 DEF ServerTypes
  <2>4. Relay' /\ Index'
    BY <2>1, <2>2 DEF Relay, Index, ServerTypes, Keys
  <2>5. Told'
    BY <2>1, <2>2 DEF Told, ServerTypes, Informed, Carries
  <2> QED BY <2>3, <2>4, <2>5
<1> QED BY <1>1, <1>2, <1>3, <1>4, <1>5

(* A subscription enters the record, the index and, for a relayed channel, *)
(* the list; for the user's state a snapshot that has yet to be read.      *)
LEMMA SubscribeInv ==
  ASSUME Inv, NEW c \in Clients, NEW k \in Keys, handleSubscribe(c, k) \/ handleUnsubscribe(c, k)
  PROVE  Inv'
<1> USE DEF Inv
<1>1. CASE handleSubscribe(c, k)
  <2>1. /\ conn[c] \in {"open", "closing"} /\ subs' = [subs EXCEPT ![c] = @ \cup {k}]
        /\ index' = [index EXCEPT ![k] = @ \cup {c}]
        /\ UNCHANGED <<conn, clients, ver, hook, cast, told>>
    BY <1>1 DEF handleSubscribe
  <2>2. \/ k \in Markets /\ ensureUpstreamMarketSub(k) /\ UNCHANGED <<up, snap>>
        \/ k = User /\ snap' = [snap EXCEPT ![c] = <<"read", 0>>] /\ UNCHANGED <<up, subscriptions, sent>>
    BY <1>1 DEF handleSubscribe, socketVars
  <2>3. ServerTypes'
    BY <2>1, <2>2 DEF ServerTypes
  <2>4. Index'
    BY <2>1 DEF Index, ServerTypes
  <2>5. Relay'
    <3>1. CASE k \in Markets /\ ensureUpstreamMarketSub(k) /\ UNCHANGED up
      <4>1. k \in subscriptions' /\ subscriptions \subseteq subscriptions'
        BY <3>1 DEF ensureUpstreamMarketSub, subscribe
      <4>2. up' = "open" => subscriptions' \subseteq sent'
        BY <3>1 DEF ensureUpstreamMarketSub, subscribe, Relay
      <4> QED BY <4>1, <4>2, <2>1 DEF Relay, ServerTypes, Keys
    <3>2. CASE k = User /\ UNCHANGED <<up, subscriptions, sent>>
      BY <3>2, <2>1, PushAssumption DEF Relay, ServerTypes, Keys
    <3> QED BY <3>1, <3>2, <2>2
  <2>6. Told'
    <3>1. \A d \in Clients : d # c => snap'[d] = snap[d] /\ subs'[d] = subs[d]
      BY <2>1, <2>2 DEF ServerTypes
    <3>2. CASE k = User /\ snap' = [snap EXCEPT ![c] = <<"read", 0>>]
      <4>1. snap'[c] = <<"read", 0>>
        BY <3>2 DEF ServerTypes
      <4> QED BY <4>1, <3>1, <2>1 DEF Told, Informed, Carries
    <3>3. CASE k \in Markets /\ UNCHANGED snap
      <4>1. User \in subs'[c] <=> User \in subs[c]
        BY <3>3, <2>1, PushAssumption DEF ServerTypes
      <4> QED BY <4>1, <3>3, <3>1, <2>1 DEF Told, Informed, Carries
    <3> QED BY <3>2, <3>3, <2>2
  <2> QED BY <2>3, <2>4, <2>5, <2>6
<1>2. CASE handleUnsubscribe(c, k)
  <2>1. /\ subs' = [subs EXCEPT ![c] = @ \ {k}] /\ index' = [index EXCEPT ![k] = @ \ {c}]
        /\ UNCHANGED <<conn, clients, ver, hook, snap, cast, told, up, subscriptions, sent>>
    BY <1>2 DEF handleUnsubscribe, stateVars, feedVars, socketVars
  <2>2. ServerTypes'
    BY <2>1 DEF ServerTypes
  <2>3. Relay' /\ Index'
    BY <2>1 DEF Relay, Index, ServerTypes, Keys
  <2>4. Told'
    BY <2>1 DEF Told, ServerTypes, Informed, Carries
  <2> QED BY <2>2, <2>3, <2>4
<1> QED BY <1>1, <1>2

(* What a push carries is told to every open subscriber.                   *)
LEMMA PushInv ==
  ASSUME Inv,
         \/ Change \/ Emit
         \/ \E c \in Clients : SnapRead(c) \/ SnapSend(c)
         \/ \E s \in Slots : CastRead(s) \/ CastSend(s)
  PROVE  Inv'
<1> USE DEF Inv
<1>1. UNCHANGED <<conn, subs, index, clients, up, subscriptions, sent>>
  BY DEF Change, Emit, SnapRead, SnapSend, CastRead, CastSend, clientVars, feedVars, socketVars
<1>2. Relay' /\ Index'
  BY <1>1 DEF Relay, Index
<1>3. CASE Change
  <2>1. ver' = ver + 1 /\ UNCHANGED <<hook, snap, cast, told>>
    BY <1>3 DEF Change
  <2> QED BY <2>1, <1>1, <1>2 DEF ServerTypes, Told, Informed, Carries
<1>4. CASE Emit
  <2>1. hook < ver /\ hook' = hook + 1 /\ UNCHANGED <<ver, snap, told>>
    BY <1>4 DEF Emit
  <2>2. CASE index[User] = {} /\ cast' = cast
    <3>1. ServerTypes'
      BY <2>1, <2>2, <1>1 DEF ServerTypes
    <3>2. \A c \in Clients : ~(conn'[c] = "open" /\ User \in subs'[c])
      BY <2>2, <1>1 DEF Index, ServerTypes
    <3> QED BY <3>1, <3>2, <2>1, <1>2 DEF Told, ServerTypes
  <2>3. ASSUME NEW s \in Slots, cast' = [cast EXCEPT ![s] = <<"read", 0>>] PROVE Inv'
    <3>1. ServerTypes'
      BY <2>1, <2>3, <1>1 DEF ServerTypes
    <3>2. cast'[s] = <<"read", 0>>
      BY <2>3 DEF ServerTypes
    <3>3. Told'
      BY <3>2, <2>1 DEF Told, ServerTypes, Informed, Carries
    <3> QED BY <3>1, <3>3, <1>2
  <2> QED BY <1>4, <2>2, <2>3 DEF Emit
<1>5. ASSUME NEW c \in Clients, SnapRead(c) PROVE Inv'
  <2>1. snap' = [snap EXCEPT ![c] = <<"send", ver>>] /\ UNCHANGED <<ver, hook, cast, told>>
    BY <1>5 DEF SnapRead
  <2>2. ServerTypes' /\ snap'[c] = <<"send", ver>>
    BY <2>1, <1>1 DEF ServerTypes
  <2>3. Told'
    BY <2>1, <2>2, <1>1 DEF Told, ServerTypes, Informed, Carries
  <2> QED BY <2>2, <2>3, <1>2
<1>6. ASSUME NEW c \in Clients, SnapSend(c) PROVE Inv'
  <2>1. snap[c][1] = "send" /\ snap' = [snap EXCEPT ![c] = Rest] /\ UNCHANGED <<ver, hook, cast>>
    BY <1>6 DEF SnapSend
  <2>2. told' = [d \in Clients |-> IF d \in {e \in {c} : conn[e] = "open"} /\ snap[c][2] > told[d]
                                   THEN snap[c][2] ELSE told[d]]
    BY <1>6 DEF SnapSend, send
  <2>3. snap[c][2] \in Nat
    BY DEF ServerTypes
  <2>4. ServerTypes'
    BY <2>1, <2>2, <2>3, <1>1 DEF ServerTypes, Rest
  <2>5. \A d \in Clients : told'[d] >= told[d]
    BY <2>2, <2>3 DEF ServerTypes
  <2>6. conn[c] = "open" => told'[c] >= snap[c][2]
    BY <2>2, <2>3 DEF ServerTypes
  <2>7. ASSUME NEW d \in Clients, conn'[d] = "open", User \in subs'[d] PROVE Informed(d)'
    <3>1. Informed(d) /\ told[d] \in Nat /\ told'[d] \in Nat /\ hook \in Nat
      BY <2>7, <1>1, <2>4 DEF Told, ServerTypes
    <3>2. told[d] >= hook => told'[d] >= hook'
      BY <3>1, <2>1, <2>5
    <3>3. CASE d = c
      BY <3>1, <3>2, <3>3, <2>1, <2>3, <2>6, <2>7, <1>1 DEF Informed, Carries
    <3>4. CASE d # c
      <4>1. snap'[d] = snap[d]
        BY <3>4, <2>1 DEF ServerTypes
      <4> QED BY <4>1, <3>1, <3>2, <2>1 DEF Informed, Carries
    <3> QED BY <3>3, <3>4
  <2>8. Told'
    BY <2>1, <2>7 DEF Told
  <2> QED BY <2>4, <2>8, <1>2
<1>7. ASSUME NEW s \in Slots, CastRead(s) PROVE Inv'
  <2>1. cast' = [cast EXCEPT ![s] = <<"send", ver>>] /\ UNCHANGED <<ver, hook, snap, told>>
    BY <1>7 DEF CastRead
  <2>2. ServerTypes' /\ cast'[s] = <<"send", ver>>
    BY <2>1, <1>1 DEF ServerTypes
  <2>3. Told'
    BY <2>1, <2>2, <1>1 DEF Told, ServerTypes, Informed, Carries
  <2> QED BY <2>2, <2>3, <1>2
<1>8. ASSUME NEW s \in Slots, CastSend(s) PROVE Inv'
  <2>1. cast[s][1] = "send" /\ cast' = [cast EXCEPT ![s] = Rest] /\ UNCHANGED <<ver, hook, snap>>
    BY <1>8 DEF CastSend
  <2>2. told' = [d \in Clients |-> IF d \in {e \in index[User] : conn[e] = "open"} /\ cast[s][2] > told[d]
                                   THEN cast[s][2] ELSE told[d]]
    BY <1>8 DEF CastSend, send
  <2>3. cast[s][2] \in Nat
    BY DEF ServerTypes
  <2>4. ServerTypes'
    BY <2>1, <2>2, <2>3, <1>1 DEF ServerTypes, Rest
  <2>5. \A d \in Clients : told'[d] >= told[d]
    BY <2>2, <2>3 DEF ServerTypes
  <2>6. \A d \in index[User] : conn[d] = "open" => d \in Clients /\ told'[d] >= cast[s][2]
    BY <2>2, <2>3 DEF ServerTypes, Keys
  <2>7. ASSUME NEW d \in Clients, conn'[d] = "open", User \in subs'[d] PROVE Informed(d)'
    <3>1. Informed(d) /\ told[d] \in Nat /\ told'[d] \in Nat /\ hook \in Nat
      BY <2>7, <1>1, <2>4 DEF Told, ServerTypes
    <3>2. d \in index[User]
      BY <2>7, <1>1 DEF Index
    <3>3. told[d] >= hook => told'[d] >= hook'
      BY <3>1, <2>1, <2>5
    <3>4. Carries(cast[s]) => told'[d] >= hook'
      BY <3>1, <3>2, <2>1, <2>3, <2>6, <2>7, <1>1 DEF Carries
    <3>5. \A t \in Slots : t # s => cast'[t] = cast[t]
      BY <2>1 DEF ServerTypes
    <3>6. (\E t \in Slots : Carries(cast[t])) => told'[d] >= hook' \/ \E t \in Slots : Carries(cast[t])'
      BY <3>4, <3>5, <2>1 DEF Carries
    <3> QED BY <3>1, <3>3, <3>6, <2>1 DEF Informed, Carries
  <2>8. Told'
    BY <2>1, <2>7 DEF Told
  <2> QED BY <2>4, <2>8, <1>2
<1> QED BY <1>3, <1>4, <1>5, <1>6, <1>7, <1>8

LEMMA NextInv == Inv /\ [Next]_vars => Inv'
<1> SUFFICES ASSUME Inv, [Next]_vars PROVE Inv'
  OBVIOUS
<1>1. CASE FeedNext /\ UNCHANGED <<clientVars, stateVars>>
  BY <1>1, FeedInv
<1>2. CASE \E s \in Subs : HlFrame(s) /\ UNCHANGED <<clientVars, stateVars>>
  BY <1>2, FeedInv
<1>3. CASE UNCHANGED vars
  <2>1. UNCHANGED <<conn, subs, index, clients, ver, hook, snap, cast, told, up, subscriptions, sent>>
    BY <1>3 DEF vars, clientVars, stateVars, feedVars, socketVars
  <2> QED BY <2>1 DEF Inv, ServerTypes, Relay, Index, Told, Informed, Carries
<1> QED BY <1>1, <1>2, <1>3, SocketInv, SubscribeInv, PushInv DEF Next

(* The server's invariant holds whatever clients, the exchange and the     *)
(* timers of ws/server.ts and ws-client.ts do.                             *)
THEOREM Invariance == Spec => []Inv
<1> QED BY InitInv, NextInv, PTL DEF Spec

-----------------------------------------------------------------------------
(* A subscriber's channel is asked for on the socket that is open:         *)
(* ensureUpstreamMarketSub and the replay on 'open' (ws-client.ts).        *)
THEOREM Relayed == Spec => []RelayReachable
<1>1. Inv => RelayReachable
  BY DEF Inv, Relay, RelayReachable
<1> QED BY <1>1, Invariance, PTL

(* Broadcasts never walk over a socket that has closed: handleDisconnect   *)
(* and the subscriptions handled after it (ws/server.ts).                  *)
THEOREM Unindexed == Spec => []IndexClean
<1>1. Inv => IndexClean
  BY DEF Inv, Index, IndexClean
<1> QED BY <1>1, Invariance, PTL

(* No change of the user's state is lost between handleSubscribe's         *)
(* snapshot and the broadcasts under way (broadcastWebData2).              *)
THEOREM NothingMissed == Spec => []ToldOfEveryChange
<1>1. Inv => ToldOfEveryChange
  BY DEF Inv, Told, Informed, Carries, Rest, ToldOfEveryChange
<1> QED BY <1>1, Invariance, PTL
=============================================================================
