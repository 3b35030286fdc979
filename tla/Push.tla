-------------------------------- MODULE Push --------------------------------
(***************************************************************************)
(* The websocket server (ws/server.ts) on top of the feed: clients, their  *)
(* subscriptions, the index the broadcasts use, and the pushes of user     *)
(* state, each of which reads the state over several round trips and sends *)
(* what it read later.                                                     *)
(*                                                                         *)
(* User is the channel of state that is read and pushed (webData2; the     *)
(* per-venue clearinghouseState, openOrders and allDexs aggregates and     *)
(* activeAssetData work alike); its content is a version number.  Markets  *)
(* are the channels relayed from the exchange, which need a subscription   *)
(* upstream.  Frames carrying their own payload (fills, orderUpdates,      *)
(* funding, ledger) go through the same index in the step of their event.  *)
(***************************************************************************)
EXTENDS Feed

CONSTANTS Clients,    \* sockets: a client that comes back is another one
          User,       \* the user-state channel
          Slots,      \* broadcasts of it that may overlap
          MaxVer      \* bound on the changes of the user's state

ASSUME PushAssumption == User \notin Markets /\ MaxVer \in Nat

VARIABLES conn,       \* readyState of each client's socket
          alive,      \* ClientState.isAlive
          subs,       \* ClientState.subscriptions
          clients,    \* the clients map
          index,      \* subscriptionIndex
          ver, hook,  \* the user's state; the changes whose event was emitted
          snap, cast, \* snapshots and broadcasts under way
          told        \* the newest state each client was sent

clientVars == <<conn, alive, subs, clients, index>>
stateVars == <<ver, hook, snap, cast, told>>
vars == <<feedVars, clientVars, stateVars>>

Keys == Markets \cup {User}
Work == {"idle", "read"} \X {0} \cup {"send"} \X (0..MaxVer)
Rest == <<"idle", 0>>

\* Types of the feed and of the server.
TypeOK ==
  /\ FeedTypeOK
  /\ conn \in [Clients -> {"none", "open", "closing", "closed"}]
  /\ alive \in [Clients -> BOOLEAN] /\ subs \in [Clients -> SUBSET Keys]
  /\ clients \subseteq Clients /\ index \in [Keys -> SUBSET Clients]
  /\ ver \in 0..MaxVer /\ hook \in 0..MaxVer
  /\ snap \in [Clients -> Work] /\ cast \in [Slots -> Work]
  /\ told \in [Clients -> 0..MaxVer]

Init ==
  /\ FeedInit
  /\ conn = [c \in Clients |-> "none"] /\ alive = [c \in Clients |-> FALSE]
  /\ subs = [c \in Clients |-> {}] /\ clients = {} /\ index = [k \in Keys |-> {}]
  /\ ver = 0 /\ hook = 0
  /\ snap = [c \in Clients |-> Rest] /\ cast = [s \in Slots |-> Rest]
  /\ told = [c \in Clients |-> 0]

-----------------------------------------------------------------------------
(* Connections. *)

\* The server is attached once the worker has started.
handleConnection(c) ==
  /\ up # "boot" /\ conn[c] = "none"
  /\ conn' = [conn EXCEPT ![c] = "open"] /\ alive' = [alive EXCEPT ![c] = TRUE]
  /\ clients' = clients \cup {c}
  /\ UNCHANGED <<subs, index, stateVars, feedVars>>

\* A client that is not in the map is left alone.
handleDisconnectKnown(D) ==
  /\ index' = [k \in Keys |-> index[k] \ {c \in D \cap clients : k \in subs[c]}]
  /\ clients' = clients \ D

\* handleDisconnect, for every socket of D: leave the index and the map.  The
\* client's own record keeps its keys.
handleDisconnect(D) ==
  /\ index' = [k \in Keys |-> index[k] \ {c \in D : k \in subs[c]}]
  /\ clients' = clients \ D

\* 'error' and 'close'.  Messages read before the socket died are still
\* delivered until 'close', which is the last event: the record of the client
\* goes with it.
Error(c) ==
  /\ conn[c] = "open"
  /\ conn' = [conn EXCEPT ![c] = "closing"]
  /\ handleDisconnect({c})
  /\ UNCHANGED <<alive, subs, stateVars, feedVars>>

Close(c) ==
  /\ conn[c] \in {"open", "closing"}
  /\ conn' = [conn EXCEPT ![c] = "closed"]
  /\ handleDisconnect({c})
  /\ subs' = [subs EXCEPT ![c] = {}] /\ alive' = [alive EXCEPT ![c] = FALSE]
  /\ told' = [told EXCEPT ![c] = 0]
  /\ UNCHANGED <<ver, hook, snap, cast, feedVars>>

\* startHeartbeat: terminate who did not answer, ping the others.
PingClients ==
  LET dead == {c \in clients : ~alive[c]}
  IN  /\ clients # {}
      /\ conn' = [c \in Clients |-> IF c \in dead THEN "closing" ELSE conn[c]]
      /\ alive' = [c \in Clients |-> alive[c] /\ c \notin clients]
      /\ handleDisconnect(dead)
      /\ UNCHANGED <<subs, stateVars, feedVars>>

Pong(c) ==
  /\ conn[c] = "open" /\ ~alive[c]
  /\ alive' = [alive EXCEPT ![c] = TRUE]
  /\ UNCHANGED <<conn, subs, clients, index, stateVars, feedVars>>

-----------------------------------------------------------------------------
(* Subscriptions. *)

\* ensureUpstreamMarketSub, once per subscription.
ensureUpstreamMarketSub(k) ==
  IF k \in subscriptions THEN UNCHANGED <<subscriptions, sent>> ELSE subscribe({k})

\* handleSubscribe: the index first, then the upstream subscription or the
\* snapshot, which is read afterwards.  Bound: one snapshot per client at a time.
handleSubscribe(c, k) ==
  /\ conn[c] \in {"open", "closing"}
  /\ subs' = [subs EXCEPT ![c] = @ \cup {k}]
  /\ index' = [index EXCEPT ![k] = @ \cup {c}]
  /\ \/ /\ k \in Markets
        /\ ensureUpstreamMarketSub(k)
        /\ UNCHANGED <<up, quiet, mute, snap>>
     \/ /\ k = User /\ snap[c] = Rest
        /\ snap' = [snap EXCEPT ![c] = <<"read", 0>>]
        /\ UNCHANGED socketVars
  /\ UNCHANGED <<conn, alive, clients, ver, hook, cast, told, priceVars>>

handleUnsubscribe(c, k) ==
  /\ conn[c] \in {"open", "closing"} /\ k \in subs[c]
  /\ subs' = [subs EXCEPT ![c] = @ \ {k}]
  /\ index' = [index EXCEPT ![k] = @ \ {c}]
  /\ UNCHANGED <<conn, alive, clients, stateVars, feedVars>>

\* send: only to an open socket.
send(C, v) ==
  LET to == {c \in C : conn[c] = "open"}
  IN  told' = [c \in Clients |-> IF c \in to /\ v > told[c] THEN v ELSE told[c]]

\* sendWebData2 after a subscribe: the reads, then the send.
SnapRead(c) ==
  /\ snap[c] = <<"read", 0>>
  /\ snap' = [snap EXCEPT ![c] = <<"send", ver>>]
  /\ UNCHANGED <<clientVars, ver, hook, cast, told, feedVars>>

SnapSend(c) ==
  /\ snap[c][1] = "send"
  /\ send({c}, snap[c][2])
  /\ snap' = [snap EXCEPT ![c] = Rest]
  /\ UNCHANGED <<clientVars, ver, hook, cast, feedVars>>

-----------------------------------------------------------------------------
(* The user's state changes, and the event of each change is emitted later; *)
(* its listener broadcasts when somebody is subscribed.                     *)

Change ==
  /\ up # "boot" /\ ver < MaxVer
  /\ ver' = ver + 1
  /\ UNCHANGED <<clientVars, hook, snap, cast, told, feedVars>>

\* The event leaves before the state is written.
EmitEarly ==
  /\ hook < MaxVer
  /\ hook' = hook + 1
  /\ IF index[User] = {}
     THEN cast' = cast
     ELSE \E s \in Slots : /\ cast[s] = Rest
                           /\ cast' = [cast EXCEPT ![s] = <<"read", 0>>]
  /\ UNCHANGED <<clientVars, ver, snap, told, feedVars>>

Emit ==
  /\ hook < ver
  /\ hook' = hook + 1
  /\ IF index[User] = {}
     THEN cast' = cast
     ELSE \E s \in Slots : /\ cast[s] = Rest
                           /\ cast' = [cast EXCEPT ![s] = <<"read", 0>>]
  /\ UNCHANGED <<clientVars, ver, snap, told, feedVars>>

\* broadcastWebData2: what was read goes to whoever is in the index by then.
CastRead(s) ==
  /\ cast[s] = <<"read", 0>>
  /\ cast' = [cast EXCEPT ![s] = <<"send", ver>>]
  /\ UNCHANGED <<clientVars, ver, hook, snap, told, feedVars>>

CastSend(s) ==
  /\ cast[s][1] = "send"
  /\ send(index[User], cast[s][2])
  /\ cast' = [cast EXCEPT ![s] = Rest]
  /\ UNCHANGED <<clientVars, ver, hook, snap, feedVars>>

-----------------------------------------------------------------------------
Next ==
  \/ FeedNext /\ UNCHANGED <<clientVars, stateVars>>
  \/ \E s \in Subs : HlFrame(s) /\ UNCHANGED <<clientVars, stateVars>>
  \/ \E c \in Clients :
       \/ handleConnection(c) \/ Error(c) \/ Close(c) \/ Pong(c)
       \/ SnapRead(c) \/ SnapSend(c)
       \/ \E k \in Keys : handleSubscribe(c, k) \/ handleUnsubscribe(c, k)
  \/ PingClients \/ Change \/ Emit
  \/ \E s \in Slots : CastRead(s) \/ CastSend(s)

\* Timers fire; a connection and a request to the exchange do not fail for ever.
Fairness ==
  /\ WF_vars(Start /\ UNCHANGED <<clientVars, stateVars>>)
  /\ WF_vars(scheduleReconnect /\ UNCHANGED <<clientVars, stateVars>>)
  /\ WF_vars(Quiet /\ UNCHANGED <<clientVars, stateVars>>)
  /\ WF_vars(Heartbeat /\ UNCHANGED <<clientVars, stateVars>>)
  /\ \A t \in Ticks :
       /\ WF_vars(TickStart(t) /\ UNCHANGED <<clientVars, stateVars>>)
       /\ WF_vars(TickWrite(t) /\ UNCHANGED <<clientVars, stateVars>>)
       /\ \A d \in Venues :
            SF_vars(/\ TickAnswer(t) /\ NextVenue(tick[t].todo) = d
                    /\ UNCHANGED <<clientVars, stateVars>>)

Spec == Init /\ [][Next]_vars /\ Fairness

-----------------------------------------------------------------------------
\* A client subscribed to a relayed market channel gets its frames: whenever
\* both sockets are open the exchange was asked for that feed on this socket,
\* across reconnects and whoever asked first.
RelayReachable ==
  \A c \in Clients, k \in Markets :
    up = "open" /\ conn[c] = "open" /\ c \in index[k] => k \in sent

\* The index holds no socket that has closed, even when a subscription is
\* handled after the heartbeat gave the socket up: broadcasts would walk over
\* it for as long as the process lives.
IndexClean ==
  \A c \in Clients : conn[c] = "closed" => \A k \in Keys : c \notin index[k]

\* No change is lost on the way to a subscriber: with no snapshot and no
\* broadcast under way, it was sent a state at least as new as every change
\* whose event was emitted, however the subscription interleaved with them.
ToldOfEveryChange ==
  (\A s \in Slots : cast[s] = Rest)
    => \A c \in Clients :
         conn[c] = "open" /\ User \in subs[c] /\ snap[c] = Rest => told[c] >= hook

\* The feed recovers.  Once the exchange's prices settle, Redis holds them for
\* the native venue and every cached one, whatever the socket does: the true-up
\* writes last.  And a socket that stays open and silent is given up.
FeedRecovers ==
  /\ <>[](\A d \in {Main} \cup listed : mids[d] = hl)
  /\ (up = "open" /\ mute) ~> (up # "open")
=============================================================================
