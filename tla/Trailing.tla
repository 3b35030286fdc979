------------------------------ MODULE Trailing ------------------------------
(***************************************************************************)
(* Trailing stops of one user in one asset: the rules of                   *)
(* engine/trailing-math.ts, placement (engine/trailingStop.ts), the        *)
(* matcher's pass over orders:trailing, the fire, and the orphan handling  *)
(* of engine/trailing-state.ts, beside the user's other fills, cancels,    *)
(* a scheduled cancel (worker/index.ts), resetAccount (routes/hypaper.ts)  *)
(* and the mark feed of worker/mark-feed.ts.                               *)
(*                                                                         *)
(* Five processes interleave at their Redis commands: the matcher, a       *)
(* client that places and cancels stops, a trader whose orders and         *)
(* liquidations change the position, the worker of scheduled cancels, and  *)
(* an administrator who resets the account. Only fills hold the user's     *)
(* lock.                                                                   *)
(*                                                                         *)
(* Prices are whole price steps.  A distance or a percentage arrives with  *)
(* a finer grain, Grain units to the step or the permitted granularity.    *)
(* Only the matcher writes the trailing fields of a resting stop, so its   *)
(* evaluation and the write of its result are one step.                    *)
(***************************************************************************)
EXTENDS Integers, Sequences, FiniteSets

CONSTANTS
  Stops,      \* oids
  Wires,      \* the trailingStop actions that clients send
  Prices,     \* marks
  Grain,      \* units of a wire's distance to a price step
  Trades,     \* the user's other fills: [buy, sz, ro]
  None,       \* null
  Held,       \* bound: the positions at the start
  MaxMarks,   \* bound: frames that change the mark
  MaxOps      \* bound: requests, other fills, scheduled cancels and resets

WireType == [isBuy : BOOLEAN, kind : {"px", "pct"}, value : Nat, act : Nat \cup {None},
             sz : Nat, ro : BOOLEAN]

ASSUME TrailingAssumption ==
  /\ Wires \subseteq WireType /\ Prices \subseteq Nat \ {0} /\ Grain \in Nat \ {0}
  /\ None \notin Int /\ None \notin Stops /\ None \notin {"matcher", "trader"}
  /\ Trades \subseteq [buy : BOOLEAN, sz : Nat \ {0}, ro : BOOLEAN]
  /\ Held \subseteq Int /\ MaxMarks \in Nat /\ MaxOps \in Nat

VARIABLES
  order,    \* order:{oid} of each stop
  trailing, \* orders:trailing
  mark,     \* market:ctx: the mark and whether its stamp is recent
  szi,      \* the position
  lock,     \* who holds the user's lock
  fill,     \* executeFill in the matcher and in the trader
  matcher,  \* the matcher's pass over the stops
  client,   \* the request being served
  rows,     \* the history rows of each stop, oldest first
  raced,    \* stops ended by a writer that did not see them end before
  seen,     \* stops that rested through a fill since the account was reset
  schedule, \* the worker's tick over a scheduled cancel that is due
  reset,    \* resetAccount
  gone,     \* stops whose entry in user:<u>:orders a reset deleted
  silent,   \* stops that a reset wrote "cancelled" over, without a row
  unsnapped,\* stops that a scheduled cancel ended, without a snapshot
  marks, ops \* counts for the bounds

orderVars == <<order, trailing, rows, raced>>
fillVars == <<szi, lock, fill, seen>>
markVars == <<mark, marks>>
sweepVars == <<schedule, reset, gone, silent, unsnapped>>
vars == <<orderVars, fillVars, markVars, sweepVars, matcher, client, ops>>

-----------------------------------------------------------------------------
Request == ops < MaxOps /\ ops' = ops + 1

(* The rules.                                                              *)

normalizePx(px) == px \div Grain

\* The shape was checked by canonicalizeTrailingStop: WireType.
validateTrailingStop(w) ==
  /\ w.sz > 0
  /\ IF w.kind = "pct" THEN w.value % Grain = 0 /\ w.value \in 1 .. 100 * Grain - 1
     ELSE normalizePx(w.value) > 0
  /\ w.act # None => w.act > 0

paramsFromWire(w) ==
  [isBuy |-> w.isBuy, kind |-> w.kind, act |-> w.act,
   value |-> IF w.kind = "pct" THEN w.value \div Grain ELSE normalizePx(w.value)]

\* Only a sell at a fixed distance is bounded.
validatePxAgainstReference(p, m) ==
  p.kind = "px" /\ ~p.isBuy => p.value < (IF p.act = None THEN m ELSE p.act)

\* Rounded half up to the price step.
computeTrigger(p, best) ==
  LET sign == IF p.isBuy THEN 1 ELSE -1
  IN IF p.kind = "px" THEN best + sign * p.value
     ELSE (best * (100 + sign * p.value) + 50) \div 100

\* The 10% cap, for prices of five digits and more (a step of 1).
computeLimit(p, trigger) ==
  IF p.isBuy THEN (trigger * 11) \div 10 ELSE (trigger * 9) \div 10 + 1

\* The trail follows every mark.
BetterLast(p, a, b) == b

Better(p, a, b) == IF (a < b) = p.isBuy THEN a ELSE b
Reached(p, m) == p.act = None \/ (IF p.isBuy THEN m <= p.act ELSE m >= p.act)
Crossed(p, m, trigger) == IF p.isBuy THEN m >= trigger ELSE m <= trigger

\* One step of the state machine on a mark; best is None while waiting.
evaluateTrailing(p, prev, m) ==
  LET best == IF prev = None THEN (IF Reached(p, m) THEN m ELSE None)
              ELSE Better(p, prev, m)
      trigger == computeTrigger(p, IF best = None THEN p.act ELSE best)
  IN [best |-> best, trigger |-> IF best = None THEN None ELSE trigger,
      limit |-> computeLimit(p, trigger),
      fire |-> best # None /\ Crossed(p, m, trigger)]

\* What orderStatus and the history show of a stop: the live state, or what
\* is left of a finished one.
remainderSz(d) == IF d.sz > d.filled THEN d.sz - d.filled ELSE 0
buildTrailingBody(d, finished) ==
  IF finished THEN [sz |-> remainderSz(d), best |-> None, trigger |-> None, limit |-> d.limit]
  ELSE [sz |-> d.sz, best |-> d.best, trigger |-> d.trigger, limit |-> d.limit]

\* trSnap is always there once placed; live is TRAILING_ORDERSTATUS_LIVE.
buildTrailingOrderStatus(d, live) ==
  IF d.status = "filled" THEN buildTrailingBody(d, TRUE)
  ELSE IF d.status = "open" /\ live THEN buildTrailingBody(d, FALSE) ELSE d.snap

canReduce(isBuy, n) == IF isBuy THEN n < 0 ELSE n > 0

-----------------------------------------------------------------------------
NoParams == [isBuy |-> FALSE, kind |-> "px", value |-> 0, act |-> None]
NoBody == [sz |-> 0, best |-> None, trigger |-> None, limit |-> 0]
NoStop == [status |-> "none", p |-> NoParams, sz |-> 0, filled |-> 0, ro |-> FALSE,
           best |-> None, trigger |-> None, limit |-> 0, snap |-> NoBody]

NoFill == [stage |-> "none", oid |-> None, buy |-> FALSE, sz |-> 0, ro |-> FALSE,
           cur |-> 0, torn |-> FALSE, todo |-> {}, at |-> None, held |-> NoStop]
NoPass == [stage |-> "idle", todo |-> {}, oid |-> None, data |-> NoStop, px |-> 0]
NoTick == [stage |-> "idle", todo |-> {}, due |-> {}]
NoReset == [stage |-> "idle", held |-> FALSE, oids |-> {}]
NoRequest == [stage |-> "idle", oid |-> None, wire |-> None, data |-> NoStop, px |-> 0, tried |-> FALSE]

\* The boot seed is a mark without a stamp.
Init ==
  /\ order = [o \in Stops |-> NoStop] /\ trailing = {} /\ rows = [o \in Stops |-> <<>>]
  /\ raced = {} /\ seen = {}
  /\ mark \in [px : Prices, fresh : {FALSE}]
  /\ szi \in Held /\ lock = None /\ fill = [w \in {"matcher", "trader"} |-> NoFill]
  /\ matcher = NoPass /\ client = NoRequest /\ schedule = NoTick /\ reset = NoReset
  /\ gone = {} /\ silent = {} /\ unsnapped = {}
  /\ marks = 0 /\ ops = 0

-----------------------------------------------------------------------------
(* The mark feed.                                                          *)

\* A frame of activeAssetCtx, or refreshMarks when the stamp is old.
MarkFrame(p) ==
  /\ marks < MaxMarks /\ marks' = marks + 1
  /\ mark' = [px |-> p, fresh |-> TRUE]
  /\ UNCHANGED <<orderVars, fillVars, matcher, client, ops>>

\* MARK_FRESH_MS pass without a frame.
MarkAges ==
  /\ mark.fresh /\ mark' = [mark EXCEPT !.fresh = FALSE]
  /\ UNCHANGED <<marks, orderVars, fillVars, matcher, client, ops>>

-----------------------------------------------------------------------------
(* The client: placement and cancel.                                       *)

emitTrailingHistory(o, status, body) ==
  rows' = [rows EXCEPT ![o] = Append(@, [status |-> status, body |-> body])]

\* Validated before anything is read; getFreshMark reads the price first.
PlaceReadPx(w) ==
  /\ client.stage = "idle" /\ Request /\ \E o \in Stops : order[o] = NoStop
  /\ validateTrailingStop(w)
  /\ client' = [NoRequest EXCEPT !.stage = "stamp", !.wire = w, !.px = mark.px]
  /\ UNCHANGED <<orderVars, fillVars, markVars, matcher>>

\* then the stamp; an old one is refreshed over HTTP once.
PlaceReadStamp ==
  /\ client.stage = "stamp"
  /\ client' = IF mark.fresh THEN [client EXCEPT !.stage = "place"]
               ELSE IF client.tried THEN NoRequest
               ELSE [client EXCEPT !.stage = "refresh", !.tried = TRUE]
  /\ UNCHANGED <<orderVars, fillVars, markVars, matcher, ops>>

\* refreshMarks succeeds or fails; then the price is read again.
PlaceRefresh ==
  /\ client.stage = "refresh"
  /\ \/ UNCHANGED mark
     \/ \E p \in Prices : mark' = [px |-> p, fresh |-> TRUE]
  /\ client' = [client EXCEPT !.stage = "stamp", !.px = mark'.px]
  /\ UNCHANGED <<marks, orderVars, fillVars, matcher, ops>>

\* The stop is evaluated on the mark that was read and saved with its
\* snapshot; its open row follows.
placeTrailingStop(o) ==
  LET w == client.wire
      p == paramsFromWire(w)
      ev == evaluateTrailing(p, None, client.px)
      d == [NoStop EXCEPT !.status = "open", !.p = p, !.sz = w.sz, !.ro = w.ro,
                          !.best = ev.best, !.trigger = ev.trigger, !.limit = ev.limit]
      body == buildTrailingBody(d, FALSE)
  IN /\ client.stage = "place" /\ order[o] = NoStop
     /\ client' = NoRequest
     /\ IF validatePxAgainstReference(p, client.px)
        THEN /\ order' = [order EXCEPT ![o] = [d EXCEPT !.snap = body]]
             /\ trailing' = trailing \cup {o}
             /\ emitTrailingHistory(o, "open", body)
        ELSE UNCHANGED <<order, trailing, rows>>
     /\ UNCHANGED <<raced, fillVars, markVars, matcher, ops>>

\* An end, or a snapshot, written over another end is remembered.
Race(o) == raced' = IF order[o].status = "open" THEN raced ELSE raced \cup {o}

\* cancelOrders: the hash is read and must be open.
CancelRead(o) ==
  /\ client.stage = "idle" /\ Request /\ order[o].status = "open"
  /\ client' = [NoRequest EXCEPT !.stage = "cancel", !.oid = o, !.data = order[o]]
  /\ UNCHANGED <<orderVars, fillVars, markVars, matcher>>

\* One pipeline, with the snapshot of what was read, then the row.
CancelWrite ==
  LET o == client.oid
      body == buildTrailingBody(client.data, FALSE)
  IN /\ client.stage = "cancel" /\ client' = NoRequest
     /\ order' = [order EXCEPT ![o].status = "cancelled", ![o].snap = body]
     /\ trailing' = trailing \ {o}
     /\ emitTrailingHistory(o, "canceled", body) /\ Race(o)
     /\ UNCHANGED <<fillVars, markVars, matcher, ops>>

-----------------------------------------------------------------------------
(* executeFill, in either process w.                                       *)

Become(w, f) == fill' = [fill EXCEPT ![w] = f]

\* The trader's order comes to its fill.
Trade(t) ==
  /\ fill["trader"] = NoFill /\ Request
  /\ Become("trader", [NoFill EXCEPT !.stage = "wait", !.buy = t.buy, !.sz = t.sz, !.ro = t.ro])
  /\ UNCHANGED <<orderVars, szi, lock, seen, markVars, matcher, client>>

\* The lock, then the position is read. It is torn once a reset has deleted
\* the position that was read or written.
FillRead(w) ==
  /\ fill[w].stage = "wait" /\ lock = None
  /\ lock' = w /\ Become(w, [fill[w] EXCEPT !.stage = "write", !.cur = szi, !.torn = FALSE])
  /\ UNCHANGED <<orderVars, szi, seen, markVars, matcher, client, ops>>

SizeUnclamped(f) == f.sz

Size(f) ==
  LET abs == IF f.cur < 0 THEN -f.cur ELSE f.cur
  IN IF ~f.ro THEN f.sz
     ELSE IF ~canReduce(f.buy, f.cur) THEN 0 ELSE IF f.sz > abs THEN abs ELSE f.sz

\* A reduce-only order that cannot reduce returns at once.
FillNothing(w) ==
  /\ fill[w].stage = "write" /\ Size(fill[w]) = 0
  /\ lock' = None /\ Become(w, NoFill)
  /\ UNCHANGED <<orderVars, szi, seen, markVars, matcher, client, ops>>

\* The pipeline: the position, and the order with its whole size filled,
\* whatever its status has become.
FillWrite(w) ==
  LET f == fill[w]
      n == f.cur + (IF f.buy THEN Size(f) ELSE -Size(f))
  IN /\ f.stage = "write" /\ Size(f) # 0
     /\ szi' = n /\ seen' = seen \cup trailing
     /\ IF f.oid \in Stops
        THEN /\ order' = [order EXCEPT ![f.oid].status = "filled", ![f.oid].filled = f.sz]
             /\ trailing' = trailing \ {f.oid} /\ Race(f.oid)
        ELSE UNCHANGED <<order, trailing, raced>>
     /\ Become(w, [f EXCEPT !.stage = "list", !.cur = n, !.torn = FALSE])
     /\ UNCHANGED <<rows, lock, markVars, matcher, client, ops>>

ReconcileListNone(w) ==
  /\ fill[w].stage = "list"
  /\ Become(w, [fill[w] EXCEPT !.stage = "orphans"])
  /\ UNCHANGED <<orderVars, szi, lock, seen, markVars, matcher, client, ops>>

\* reconcileReduceOnlyStops lists the stops after the position is written.
ReconcileList(w) ==
  /\ fill[w].stage = "list"
  /\ Become(w, [fill[w] EXCEPT !.stage = "orphans", !.todo = trailing])
  /\ UNCHANGED <<orderVars, szi, lock, seen, markVars, matcher, client, ops>>

\* terminateTrailingStop reads an orphan that is open,
ReconcileRead(w, o) ==
  LET d == order[o]
      orphan == d.status = "open" /\ d.ro /\ ~canReduce(d.p.isBuy, fill[w].cur)
  IN /\ fill[w].stage = "orphans" /\ o \in fill[w].todo
     /\ Become(w, [fill[w] EXCEPT !.todo = @ \ {o}, !.at = o, !.held = d,
                                  !.stage = IF orphan THEN "end" ELSE "orphans"])
     /\ UNCHANGED <<orderVars, szi, lock, seen, markVars, matcher, client, ops>>

terminateTrailingStopSilent(o, d, status, before) ==
  LET body == buildTrailingBody(d, FALSE)
  IN /\ order' = [order EXCEPT ![o].status = status, ![o].snap = body]
     /\ trailing' = trailing \ {o}
     /\ rows' = [rows EXCEPT ![o] = Append(@, [status |-> status, body |-> body])]
     /\ Race(o)

terminateTrailingStop(o, d, status, before) ==
  LET body == buildTrailingBody(d, FALSE)
      row(s) == [status |-> s, body |-> body]
  IN /\ order' = [order EXCEPT ![o].status = status, ![o].snap = body]
     /\ trailing' = trailing \ {o}
     /\ rows' = [rows EXCEPT ![o] = @ \o before \o <<row(status)>>]
     /\ Race(o)

\* and ends it.
ReconcileEnd(w) ==
  /\ fill[w].stage = "end"
  /\ terminateTrailingStop(fill[w].at, fill[w].held, "reduceOnlyCanceled", <<>>)
  /\ Become(w, [fill[w] EXCEPT !.stage = "orphans"])
  /\ UNCHANGED <<szi, lock, seen, markVars, matcher, client, ops>>

\* emitTrailingFire for a stop: the rows triggered (with the snapshot) and
\* filled.  Then the lock is released.
FillEnd(w) ==
  LET o == fill[w].oid IN
  /\ fill[w].stage = "orphans" /\ fill[w].todo = {}
  /\ IF o \in Stops
     THEN rows' = [rows EXCEPT ![o] = @ \o
            << [status |-> "triggered", body |-> order[o].snap],
               [status |-> "filled", body |-> buildTrailingBody(order[o], TRUE)] >>]
     ELSE UNCHANGED rows
  /\ lock' = None /\ Become(w, NoFill)
  /\ UNCHANGED <<order, trailing, raced, szi, seen, markVars, matcher, client, ops>>

FillStep(w) ==
  \/ FillRead(w) \/ FillNothing(w) \/ FillWrite(w) \/ ReconcileList(w)
  \/ (\E o \in Stops : ReconcileRead(w, o)) \/ ReconcileEnd(w) \/ FillEnd(w)

-----------------------------------------------------------------------------
(* ScheduleCancelWorker.tick, once the time of the user's key has come.    *)

\* user:<u>:orders: every stop since the last reset, ended ones included.
Listed == {o \in Stops : order[o] # NoStop} \ gone

ScheduleList ==
  /\ schedule = NoTick /\ Request
  /\ schedule' = [NoTick EXCEPT !.stage = "read", !.todo = Listed]
  /\ UNCHANGED <<orderVars, fillVars, markVars, matcher, client, reset, gone, silent, unsnapped>>

\* The hashes are read one by one, for those that are open,
ScheduleRead(o) ==
  /\ schedule.stage = "read" /\ o \in schedule.todo
  /\ schedule' = [schedule EXCEPT !.todo = @ \ {o},
                                  !.due = IF order[o].status = "open" THEN @ \cup {o} ELSE @]
  /\ UNCHANGED <<orderVars, fillVars, markVars, matcher, client, reset, gone, silent, unsnapped, ops>>

\* cancelled in one pipeline, which leaves the snapshot as it was,
Cancelled(O) == [o \in Stops |-> IF o \in O THEN [order[o] EXCEPT !.status = "cancelled"] ELSE order[o]]

ScheduleCancel ==
  LET due == schedule.due IN
  /\ schedule.stage = "read" /\ schedule.todo = {}
  /\ order' = Cancelled(due) /\ trailing' = trailing \ due
  /\ raced' = raced \cup {o \in due : order[o].status # "open"}
  /\ unsnapped' = unsnapped \cup due
  /\ schedule' = [NoTick EXCEPT !.stage = "tell", !.todo = due]
  /\ UNCHANGED <<rows, fillVars, markVars, matcher, client, reset, gone, silent, ops>>

\* and read again, each for its row.
ScheduleTell(o) ==
  /\ schedule.stage = "tell" /\ o \in schedule.todo
  /\ schedule' = [schedule EXCEPT !.todo = @ \ {o}]
  /\ emitTrailingHistory(o, "canceled", buildTrailingBody(order[o], FALSE))
  /\ UNCHANGED <<order, trailing, raced, fillVars, markVars, matcher, client,
                 reset, gone, silent, unsnapped, ops>>

ScheduleEnd ==
  /\ schedule.stage = "tell" /\ schedule.todo = {} /\ schedule' = NoTick
  /\ UNCHANGED <<orderVars, fillVars, markVars, matcher, client, reset, gone, silent, unsnapped, ops>>

ScheduleStep ==
  \/ ScheduleList \/ ScheduleCancel \/ ScheduleEnd
  \/ (\E o \in Stops : ScheduleRead(o) \/ ScheduleTell(o))

-----------------------------------------------------------------------------
(* resetAccount, outside the user's lock.                                  *)

\* The positions are listed, then the orders,
ResetPositions ==
  /\ reset = NoReset /\ Request
  /\ reset' = [NoReset EXCEPT !.stage = "orders", !.held = szi # 0]
  /\ UNCHANGED <<orderVars, fillVars, markVars, matcher, client, schedule, gone, silent, unsnapped>>

ResetOrders ==
  /\ reset.stage = "orders"
  /\ reset' = [reset EXCEPT !.stage = "write", !.oids = Listed]
  /\ UNCHANGED <<orderVars, fillVars, markVars, matcher, client, schedule, gone, silent, unsnapped, ops>>

\* and one pipeline deletes the position, writes "cancelled" over every order
\* that was listed, whatever it had become, and deletes the list.
resetAccount ==
  LET oids == reset.oids IN
  /\ reset.stage = "write" /\ reset' = NoReset
  /\ szi' = IF reset.held THEN 0 ELSE szi
  /\ fill' = [w \in DOMAIN fill |-> IF reset.held /\ lock = w THEN [fill[w] EXCEPT !.torn = TRUE]
                                   ELSE fill[w]]
  /\ order' = Cancelled(oids) /\ trailing' = trailing \ oids
  /\ seen' = {} /\ silent' = silent \cup oids
  /\ gone' = {o \in Stops : order[o] # NoStop}
  /\ UNCHANGED <<rows, raced, lock, markVars, matcher, client, schedule, unsnapped, ops>>

ResetStep == ResetPositions \/ ResetOrders \/ resetAccount

-----------------------------------------------------------------------------
(* matchTrailingStops.                                                     *)

StartPass ==
  /\ matcher.stage = "idle" /\ fill["matcher"] = NoFill /\ trailing # {}
  /\ matcher' = [NoPass EXCEPT !.stage = "next", !.todo = trailing]
  /\ UNCHANGED <<orderVars, fillVars, markVars, client, ops>>

Skip == matcher' = [matcher EXCEPT !.stage = "next", !.oid = None, !.data = NoStop, !.px = 0]

\* The next stop's hash; one that is not open leaves the set.
MatchRead(o) ==
  /\ matcher.stage = "next" /\ fill["matcher"] = NoFill /\ o \in matcher.todo
  /\ IF order[o].status = "open"
     THEN /\ UNCHANGED trailing
          /\ matcher' = [matcher EXCEPT !.stage = "price", !.oid = o, !.data = order[o],
                                        !.todo = @ \ {o}]
     ELSE /\ trailing' = trailing \ {o}
          /\ matcher' = [matcher EXCEPT !.todo = @ \ {o}]
  /\ UNCHANGED <<order, rows, raced, fillVars, markVars, client, ops>>

\* getFreshMark: the price,
MatchReadPx ==
  /\ matcher.stage = "price"
  /\ matcher' = [matcher EXCEPT !.stage = "stamp", !.px = mark.px]
  /\ UNCHANGED <<orderVars, fillVars, markVars, client, ops>>

\* then the stamp; an old one skips the stop.  The evaluation is persisted.
MatchEvaluate ==
  LET o == matcher.oid
      d == matcher.data
      ev == evaluateTrailing(d.p, d.best, matcher.px)
      Updated(x) == [x EXCEPT !.best = ev.best, !.trigger = ev.trigger, !.limit = ev.limit]
  IN /\ matcher.stage = "stamp"
     /\ IF ~mark.fresh THEN Skip /\ UNCHANGED order
        ELSE /\ order' = [order EXCEPT ![o] = Updated(@)]
             /\ IF ev.fire THEN matcher' = [matcher EXCEPT !.stage = "fire", !.data = Updated(d)]
                ELSE Skip
     /\ UNCHANGED <<trailing, rows, raced, fillVars, markVars, client, ops>>

\* fireTrailingStop: still open, and a reduce-only stop must be able to reduce.
FireCheck ==
  /\ matcher.stage = "fire"
  /\ IF order[matcher.oid].status # "open" \/ (matcher.data.ro /\ ~canReduce(matcher.data.p.isBuy, szi))
     THEN Skip ELSE matcher' = [matcher EXCEPT !.stage = "freeze"]
  /\ UNCHANGED <<orderVars, fillVars, markVars, client, ops>>

freezeTrailingSnapshot ==
  /\ matcher.stage = "freeze" /\ matcher' = [matcher EXCEPT !.stage = "margin"]
  /\ order' = [order EXCEPT ![matcher.oid].snap = buildTrailingBody(matcher.data, FALSE)]
  /\ Race(matcher.oid)
  /\ UNCHANGED <<trailing, rows, fillVars, markVars, client, ops>>

\* maxAffordableOrderSize, any size as far as this module knows; nothing
\* affordable ends a stop that is still open.
FireMargin ==
  LET o == matcher.oid
      Goes(n) == /\ Become("matcher", [NoFill EXCEPT !.stage = "wait", !.oid = o, !.ro = matcher.data.ro,
                                       !.buy = matcher.data.p.isBuy, !.sz = n])
                 /\ Skip
  IN /\ matcher.stage = "margin"
     /\ \/ Goes(matcher.data.sz) /\ UNCHANGED orderVars
        \/ ~matcher.data.ro /\ \E n \in 1 .. matcher.data.sz - 1 : Goes(n) /\ UNCHANGED orderVars
        \/ /\ ~matcher.data.ro /\ order[o].status # "open" /\ Skip /\ UNCHANGED <<fill, orderVars>>
        \/ /\ ~matcher.data.ro /\ order[o].status = "open"
           /\ matcher' = [matcher EXCEPT !.stage = "end", !.data = order[o]]
           /\ UNCHANGED <<fill, orderVars>>
     /\ UNCHANGED <<szi, lock, seen, markVars, client, ops>>

FireMarginEnd ==
  LET body == buildTrailingBody(matcher.data, FALSE) IN
  /\ matcher.stage = "end" /\ Skip
  /\ terminateTrailingStop(matcher.oid, matcher.data, "marginCanceled",
                           << [status |-> "triggered", body |-> body] >>)
  /\ UNCHANGED <<fillVars, markVars, client, ops>>

MatchStep ==
  \/ (\E o \in Stops : MatchRead(o)) \/ MatchReadPx \/ MatchEvaluate
  \/ FireCheck \/ freezeTrailingSnapshot \/ FireMargin \/ FireMarginEnd

EndPass ==
  /\ matcher.stage = "next" /\ matcher.todo = {} /\ fill["matcher"] = NoFill
  /\ matcher' = NoPass
  /\ UNCHANGED <<orderVars, fillVars, markVars, client, ops>>

ClientStep ==
  \/ (\E w \in Wires : PlaceReadPx(w)) \/ PlaceReadStamp \/ PlaceRefresh
  \/ (\E o \in Stops : placeTrailingStop(o) \/ CancelRead(o)) \/ CancelWrite

Around ==
  \/ (\E p \in Prices : MarkFrame(p)) \/ MarkAges \/ ClientStep
  \/ (\E t \in Trades : Trade(t)) \/ (\E w \in {"matcher", "trader"} : FillStep(w))

Pass == StartPass \/ MatchStep \/ EndPass

Sweep == ScheduleStep \/ ResetStep

Next == ((Around \/ Pass) /\ UNCHANGED sweepVars) \/ Sweep

Spec == Init /\ [][Next]_vars

-----------------------------------------------------------------------------
(* Properties.                                                             *)

\* The trigger of a resting stop only ever moves in the trader's favour, and a
\* stop once activated stays so, whatever the matcher had read before the mark
\* moved or went stale.
NeverLoosens ==
  [][\A o \in Stops : order[o].status = "open" /\ order'[o].status = "open" /\ order[o].best # None =>
       /\ order'[o].best # None
       /\ IF order[o].p.isBuy THEN order'[o].trigger <= order[o].trigger
          ELSE order'[o].trigger >= order[o].trigger]_vars

\* reconcileReduceOnlyStops: once the section of a fill is over, no open
\* reduce-only stop that rested through it is left that cannot reduce the
\* position.  resetAccount reconciles nothing: a stop that was placed since
\* its reads is left without the position until the next fill.
OrphansEnded ==
  lock = None =>
    \A o \in seen : order[o].status = "open" /\ order[o].ro => canReduce(order[o].p.isBuy, szi)

\* A reduce-only stop or order never grows or turns the position, although the
\* check at fire time is made before the lock is taken: unless a reset, which
\* takes no lock, deleted the position in the middle of the section.
ReduceOnlyReduces ==
  [][\A w \in {"matcher", "trader"} : fill[w].ro /\ ~fill[w].torn /\ szi' # szi /\ lock = w =>
       IF szi > 0 THEN szi' \in 0 .. szi - 1 ELSE szi' \in szi + 1 .. 0]_vars

\* The rows of a stop read as one life, unless two ends overlapped (a cancel
\* and a fire, say, each having read it open).  Once those who owe it a row
\* have written it, the last row is its status, unless a reset ended it, which
\* writes none, and what orderStatus serves of an ended stop is the body of
\* that row, unless a scheduled cancel ended it, which leaves the snapshot as
\* it was.
Lives == { <<>>, <<"open">>, <<"open", "canceled">>, <<"open", "reduceOnlyCanceled">>,
           <<"open", "triggered", "filled">>, <<"open", "triggered", "marginCanceled">> }
Row(o) == [i \in DOMAIN rows[o] |-> rows[o][i].status]
Told == [open |-> "open", cancelled |-> "canceled", filled |-> "filled",
         reduceOnlyCanceled |-> "reduceOnlyCanceled", marginCanceled |-> "marginCanceled"]

\* The fill of a stop, or the tick that cancelled it, has yet to write a row.
Owed(o) == \/ \E w \in {"matcher", "trader"} : fill[w].oid = o
           \/ schedule.stage = "tell" /\ o \in schedule.todo

HistoryTells ==
  \A o \in Stops \ raced :
    /\ Row(o) \in Lives
    /\ order[o] # NoStop /\ o \notin silent /\ ~Owed(o)
         => LET last == rows[o][Len(rows[o])] IN
            /\ last.status = Told[order[o].status]
            /\ order[o].status # "open" /\ o \notin unsnapped
                 => buildTrailingOrderStatus(order[o], FALSE) = last.body

\* mark-feed.ts: getFreshMark "refuses marks older than MARK_FRESH_MS so a
\* stop can never fire off a stale price": the mark a stop is evaluated on is
\* the one whose stamp was recent.
NeverOffAStalePrice ==
  [][matcher.stage = "stamp" /\ matcher'.stage = "fire" => matcher.px = mark.px]_vars
=============================================================================
