-------------------------------- MODULE Feed --------------------------------
(***************************************************************************)
(* The market data feed: the one socket to the exchange (worker/           *)
(* ws-client.ts), the updater that writes its frames to Redis (worker/     *)
(* price-updater.ts), the boot seeding, the on-demand subscriptions and    *)
(* the periodic HTTP true-up of the mids (worker/index.ts).                *)
(*                                                                         *)
(* Prices are versions: hl is the exchange's current one, mids[d] the one  *)
(* Redis holds for venue d.  The exchange may move, fall silent on an open *)
(* socket, drop the socket, refuse a connection or fail a request at any   *)
(* time.  A frame is applied when it is received (the writes of one        *)
(* process leave on one connection, in order); a true-up is a request, an  *)
(* answer computed by the exchange and a write, three steps with anything  *)
(* in between.  Time is the age of the last message, in three steps.       *)
(***************************************************************************)
EXTENDS Naturals

CONSTANTS Main,       \* the native venue
          Dexes,      \* the other perp venues
          Markets,    \* relayed feeds: trades, bbo, candle, activeAssetCtx
          Ctx,        \* the one of them that also carries a price of Main
          WorkerSubs, \* what the worker asks for itself: books, marks
          Ticks,      \* true-up ticks that may overlap: the timer does not wait
          MaxPx,      \* bound on the exchange's moves
          None

ASSUME FeedAssumption ==
  /\ Main \notin Dexes /\ Ctx \in Markets
  /\ None \notin Nat /\ MaxPx \in Nat

VARIABLES up,            \* the upstream socket
          subscriptions, \* HlWebSocketClient.subscriptions, kept across sockets
          sent,          \* what the exchange was asked for on this socket
          quiet,         \* age of lastMessageAt: 0 < 30 s <= 1 < 90 s <= 2
          mute,          \* the exchange stopped talking on this socket
          hl, mids,      \* prices: the exchange's, Redis'
          listed,        \* the perpDexs list cached in Redis
          tick           \* true-up ticks: venues to do, and an answer in hand

socketVars == <<up, subscriptions, sent, quiet, mute>>
priceVars == <<hl, mids, listed, tick>>
feedVars == <<socketVars, priceVars>>

Venues == {Main} \cup Dexes
Subs == Venues \cup Markets \cup WorkerSubs  \* a venue stands for its allMids
Idle == [todo |-> {}, px |-> None]

FeedTypeOK ==
  /\ up \in {"boot", "connecting", "open", "down"}
  /\ subscriptions \subseteq Subs /\ sent \subseteq Subs
  /\ quiet \in 0..2 /\ mute \in BOOLEAN
  /\ hl \in 0..MaxPx /\ mids \in [Venues -> 0..MaxPx]
  /\ listed \subseteq Dexes
  /\ tick \in [Ticks -> [todo : SUBSET Venues, px : 0..MaxPx \cup {None}]]

FeedInit ==
  /\ up = "boot" /\ subscriptions = {} /\ sent = {} /\ quiet = 0 /\ mute = FALSE
  /\ hl = 0 /\ mids = [d \in Venues |-> 0] /\ listed = {}
  /\ tick = [t \in Ticks |-> Idle]

-----------------------------------------------------------------------------
(* The socket. *)

\* subscribe: remember it, and send it at once when the socket is open
\* (several at a time where the code loops over them).
subscribe(S) ==
  /\ subscriptions' = subscriptions \cup S
  /\ sent' = IF up = "open" THEN sent \cup S ELSE sent

\* seedMarketData: the main venue and the others whose requests came through.
Seeded(ok) == [d \in Venues |-> IF d \in {Main} \cup ok THEN hl ELSE mids[d]]

\* Worker.start: the seeding, then connect(), the allMids subscription of each
\* cached venue and the per-coin marks of trailing stops left by the last run.
\* A venue whose seeding failed keeps the price of the last run; when the list
\* itself cannot be fetched no other venue is subscribed or trued up.
Start ==
  /\ up = "boot"
  /\ \E list \in {{}, Dexes} : \E ok \in SUBSET list, marks \in SUBSET (WorkerSubs \cap {Ctx}) :
       /\ listed' = list
       /\ mids' = Seeded(ok)
       /\ subscriptions' = subscriptions \cup {Main} \cup list \cup marks
  /\ up' = "connecting"
  /\ UNCHANGED <<sent, quiet, mute, hl, tick>>

OpenForgets ==
  /\ up = "connecting"
  /\ up' = "open" /\ quiet' = 0 /\ mute' = FALSE
  /\ sent' = {}
  /\ UNCHANGED <<subscriptions, priceVars>>

\* 'open': the age is reset, the heartbeat started, every subscription replayed.
Open ==
  /\ up = "connecting"
  /\ up' = "open" /\ quiet' = 0 /\ mute' = FALSE
  /\ sent' = subscriptions
  /\ UNCHANGED <<subscriptions, priceVars>>

\* 'close': the heartbeat stops and a reconnect is scheduled.  close() of the
\* client, at shutdown, is the end of the process.
Closed == up' = "down" /\ sent' = {} /\ quiet' = 0 /\ mute' = FALSE

Drop ==
  /\ up \in {"connecting", "open"}
  /\ Closed
  /\ UNCHANGED <<subscriptions, priceVars>>

\* The reconnect timer: the delay doubles up to a maximum, so it always fires.
scheduleReconnect ==
  /\ up = "down"
  /\ up' = "connecting"
  /\ UNCHANGED <<subscriptions, sent, quiet, mute, priceVars>>

\* The exchange stops sending on a socket that stays open; time passes without
\* a message, which on a socket that works ends when the ping is answered.
FallSilent ==
  /\ up = "open" /\ ~mute
  /\ mute' = TRUE
  /\ UNCHANGED <<up, subscriptions, sent, quiet, priceVars>>

Quiet ==
  /\ up = "open" /\ quiet < (IF mute THEN 2 ELSE 1)
  /\ quiet' = quiet + 1
  /\ UNCHANGED <<up, subscriptions, sent, mute, priceVars>>

\* The ping counts as a message.
HeartbeatPingResets ==
  /\ up = "open"
  /\ \/ /\ quiet = 2
        /\ Closed
     \/ /\ quiet = 1
        /\ quiet' = 0
        /\ UNCHANGED <<up, sent, mute>>
  /\ UNCHANGED <<subscriptions, priceVars>>

\* The heartbeat: a stale socket is terminated, a quiet one is pinged (a ping
\* on a mute socket changes nothing).
Heartbeat ==
  /\ up = "open"
  /\ \/ /\ quiet = 2
        /\ Closed
     \/ /\ quiet = 1
        /\ quiet' = IF mute THEN quiet ELSE 0
        /\ UNCHANGED <<up, sent, mute>>
  /\ UNCHANGED <<subscriptions, priceVars>>

-----------------------------------------------------------------------------
(* The prices. *)

HlMoves ==
  /\ hl < MaxPx
  /\ hl' = hl + 1
  /\ UNCHANGED <<socketVars, mids, listed, tick>>

\* handleMessage: allMids writes the venue's mids, activeAssetCtx the mid of its
\* coin, l2Book the book; trades, bbo and candle are only relayed.  Any message
\* resets the age.
HlFrame(s) ==
  /\ up = "open" /\ ~mute /\ s \in sent
  /\ quiet' = 0
  /\ LET d == IF s = Ctx THEN Main ELSE s
     IN  mids' = IF d \in Venues THEN [mids EXCEPT ![d] = hl] ELSE mids
  /\ UNCHANGED <<up, subscriptions, sent, mute, hl, listed, tick>>

\* The worker's own subscriptions, each once: l2Book of a coin with resting
\* orders (the reconciler of startL2Subscriptions), the mark of a coin with a
\* trailing stop (markSub).
WorkerSubscribes(k) ==
  /\ up # "boot" /\ k \notin subscriptions
  /\ subscribe({k})
  /\ UNCHANGED <<up, quiet, mute, priceVars>>

-----------------------------------------------------------------------------
(* The true-up: main first, then each cached venue.  A failure of main ends *)
(* the tick, a failure of another venue is skipped.                         *)

NextVenue(todo) == IF Main \in todo THEN Main ELSE CHOOSE d \in todo : TRUE

TickStart(t) ==
  /\ up # "boot" /\ tick[t] = Idle
  /\ tick' = [tick EXCEPT ![t].todo = {Main} \cup listed]
  /\ UNCHANGED <<socketVars, hl, mids, listed>>

\* trueupOneDex: the exchange answers with its prices of now ...
TickAnswer(t) ==
  /\ tick[t].todo # {} /\ tick[t].px = None
  /\ tick' = [tick EXCEPT ![t].px = hl]
  /\ UNCHANGED <<socketVars, hl, mids, listed>>

\* ... or the request fails ...
TickFails(t) ==
  /\ tick[t].todo # {} /\ tick[t].px = None
  /\ tick' = [tick EXCEPT ![t].todo = IF Main \in @ THEN {} ELSE @ \ {NextVenue(@)}]
  /\ UNCHANGED <<socketVars, hl, mids, listed>>

\* ... and the answer is written whatever arrived in the meantime.
TickWrite(t) ==
  /\ tick[t].px # None
  /\ mids' = [mids EXCEPT ![NextVenue(tick[t].todo)] = tick[t].px]
  /\ tick' = [tick EXCEPT ![t] = [todo |-> @.todo \ {NextVenue(@.todo)}, px |-> None]]
  /\ UNCHANGED <<socketVars, hl, listed>>

FeedNext ==
  \/ Start \/ Open \/ Drop \/ scheduleReconnect \/ FallSilent \/ Quiet \/ Heartbeat
  \/ HlMoves \/ \E k \in WorkerSubs : WorkerSubscribes(k)
  \/ \E t \in Ticks : TickStart(t) \/ TickAnswer(t) \/ TickFails(t) \/ TickWrite(t)

=============================================================================
