------------------------------ MODULE Persist ------------------------------
(* How what happens in Redis reaches Postgres: the engine changes Redis and  *)
(* then emits events; the sink (src/src/store/pg-sink.ts) turns each event   *)
(* into a write of one in-memory FIFO queue and runs the writes one by one,  *)
(* logging the ones that fail; the boot sequence (src/src/index.ts) starts   *)
(* the worker, which may already fill orders, before it attaches the sink;   *)
(* and a new sink moves the Redis id counters past what Postgres holds.      *)
(*                                                                           *)
(* One account.  Orders and fills are named by the ids the two counters      *)
(* issue.  What happens to an order in Redis is OrderBook's subject: here an *)
(* order is placed, then read open, and then filled or cancelled by who read *)
(* it, whatever it is by then; and what matters is which events follow, in   *)
(* which order, and what becomes of them.                                    *)
EXTENDS Integers, Sequences, FiniteSets, SequencesExt, FiniteSetsExt, Functions

CONSTANTS Cushion,   \* how far past Postgres' ids the counters are moved (the code: 1000)
          MaxWork,   \* bound: placements, liquidations, resets, records and ended TWAPs, together
          MaxTroubles \* bound: crashes, and writes Postgres refuses, together

ASSUME CushionAssumption == Cushion \in Nat

VARIABLES
  phase,    \* "down", "worker" (worker started, no sink yet) or "up"
  acct,     \* the account exists in Redis
  seq,      \* the Redis counters seq:oid and seq:tid
  twaps,    \* the Redis counter seq:twap, as far as it names TWAPs that have ended
  orders,   \* Redis: oid -> "open", "filled" or "cancelled"
  fills,    \* the fills made since Redis was last empty: tid -> the order it filled
  inHand,   \* the orders a cancel, or a fill, has read open and not yet written
  unsaid,   \* changes made in Redis whose event is not emitted yet
  queue,    \* the writes waiting in the sink's promise chain
  pg,       \* Postgres: the user's row, orders, fills, twap rows, records
  sync,     \* where syncSeqCountersToPgMax is, and the maxima it read
  lost,     \* the writes that were missed, dropped by a crash or refused by Postgres
  odd,      \* what the properties except: ids issued that were in use, orders whose ends overlapped
            \* or that were ended unannounced or by a reset, a counter set back
  counts    \* of the bounds; and records, the funding and ledger records and ended TWAPs so far

\* What the engine writes, what the sink does, and what the properties look back on.
engineVars == <<acct, seq, twaps, orders, fills, inHand, unsaid>>
sinkVars == <<queue, pg, sync>>
persistVars == <<phase, engineVars, sinkVars, lost, odd, counts>>

Ids == {"oid", "tid"}
Zero == [i \in Ids |-> 0]
Statuses == {"open", "filled", "cancelled"}

\* A write of the queue: the table and key it writes, and of the row an order's status, the order
\* of a fill, or of a TWAP which one it is and the slice fills that had been announced at its end.
Write(kind, key) == [kind |-> kind, key |-> key, status |-> "none", oid |-> 0, said |-> {}]
orderRow(oid, status) == [Write("order", oid) EXCEPT !.status = status]
fillRow(tid, oid) == [Write("fill", tid) EXCEPT !.oid = oid]
twapRow(id, n, said) == [Write("twap", id) EXCEPT !.oid = n, !.said = said]
userRow == Write("user", 0)

\* The row k of a table: overwritten, or left alone when there is one.
Upsert(f, k, v) == [x \in DOMAIN f \cup {k} |-> IF x = k THEN v ELSE f[x]]
InsertOnce(f, k, v) == IF k \in DOMAIN f THEN f ELSE Upsert(f, k, v)
NoRows == [k \in {} |-> 0]

EmptyPg == [user |-> FALSE, orders |-> NoRows, fills |-> NoRows, twap |-> NoRows, records |-> {}]

\* After the first start, with Redis and Postgres empty.
Init ==
  /\ phase = "up"
  /\ acct = FALSE
  /\ seq = Zero
  /\ twaps = 0
  /\ orders = NoRows
  /\ fills = NoRows
  /\ inHand = [cancel |-> {}, fill |-> {}]
  /\ unsaid = {}
  /\ queue = <<>>
  /\ pg = EmptyPg
  /\ sync = [at |-> "done", max |-> Zero, got |-> Zero, ok |-> TRUE]
  /\ lost = {}
  /\ odd = {}
  /\ counts = [work |-> 0, troubles |-> 0, records |-> 0]

-----------------------------------------------------------------------------
(* The sink *)

\* enqueueWrite puts a write at the end of the promise chain.  The event listeners are only there
\* once startPgSink has attached them: before that an emitted event is nobody's.
enqueueWriteFirst(ws) == queue' = ws \o queue /\ UNCHANGED lost
enqueueWrite(ws) == queue' = queue \o ws /\ UNCHANGED lost
emitted(ws) ==
  IF phase = "up"
  THEN enqueueWrite(ws)
  ELSE queue' = queue /\ lost' = lost \cup ToSet(ws)

\* What Postgres answers to a write: every row needs the user's row, a fill needs its order's row.
References(w) ==
  /\ w.kind # "user" => pg.user
  /\ w.kind = "fill" => w.oid \in DOMAIN pg.orders

\* A fill keeps the first row of its tid; an order's row is overwritten by the last event; the row
\* of a finished TWAP sums the slice fills Postgres holds when the write runs, and is dropped when
\* there is one of its id.
Stored(w) ==
  CASE w.kind = "user" -> [pg EXCEPT !.user = TRUE]
    [] w.kind = "order" -> [pg EXCEPT !.orders = Upsert(@, w.key, w.status)]
    [] w.kind = "fill" -> [pg EXCEPT !.fills = InsertOnce(@, w.key, w.oid)]
    [] w.kind = "twap" ->
         [pg EXCEPT !.twap = InsertOnce(@, w.key,
            [of |-> w.oid, said |-> w.said, found |-> DOMAIN pg.fills])]
    [] OTHER -> [pg EXCEPT !.records = @ \cup {<<w.kind, w.key>>}]

\* The chain runs its first write.  A write that throws is logged and the next one runs.  Without
\* the user's row, if that was lost, every write is.
WriteNext ==
  /\ phase # "down"
  /\ queue # <<>>
  /\ queue' = Tail(queue)
  /\ pg' = IF References(Head(queue)) THEN Stored(Head(queue)) ELSE pg
  /\ lost' = IF ~pg.user /\ userRow \in lost THEN lost \cup {Head(queue)} ELSE lost
  /\ UNCHANGED <<phase, engineVars, sync, odd, counts>>

\* The same, with Postgres out of reach for this write.
WriteFails ==
  /\ phase # "down"
  /\ queue # <<>>
  /\ counts.troubles < MaxTroubles
  /\ queue' = Tail(queue)
  /\ lost' = lost \cup {Head(queue)}
  /\ counts' = [counts EXCEPT !.troubles = @ + 1]
  /\ UNCHANGED <<phase, engineVars, pg, sync, odd>>

\* syncSeqCountersToPgMax, started with the sink and not awaited: it reads the largest ids Postgres
\* holds (a query that fails counts as 0), then the Redis counters, and then sets the counters that
\* were behind the maxima plus the cushion.  Each is done for the tids and then for the oids; here
\* for both at once, since nothing relates the two counters.
PgMax == [oid |-> Max({0} \cup DOMAIN pg.orders), tid |-> Max({0} \cup DOMAIN pg.fills)]

SyncRead ==
  /\ phase = "up"
  /\ sync.at = "start"
  /\ \/ sync' = [sync EXCEPT !.at = "read", !.max = PgMax, !.ok = TRUE]
     \/ sync' = [sync EXCEPT !.at = "read", !.max = Zero, !.ok = FALSE]
  /\ UNCHANGED <<phase, engineVars, queue, pg, lost, odd, counts>>

SyncGet ==
  /\ phase = "up"
  /\ sync.at = "read"
  /\ sync' = [sync EXCEPT !.at = "got", !.got = seq]
  /\ UNCHANGED <<phase, engineVars, queue, pg, lost, odd, counts>>

Raised(i) == sync.max[i] + Cushion

SyncSetKnown ==
  /\ phase = "up"
  /\ sync.at = "got"
  /\ seq' = [i \in Ids |-> IF sync.got[i] \in 1..Raised(i) THEN Raised(i) ELSE seq[i]]
  /\ sync' = [sync EXCEPT !.at = "done", !.max = Zero, !.got = Zero]
  /\ UNCHANGED <<phase, acct, twaps, orders, fills, inHand, unsaid, queue, pg, lost, odd, counts>>

\* Ids issued since the counter was read may be past what it is set to: it is then set back.
SyncSet ==
  /\ phase = "up"
  /\ sync.at = "got"
  /\ seq' = [i \in Ids |-> IF sync.got[i] < Raised(i) THEN Raised(i) ELSE seq[i]]
  /\ sync' = [sync EXCEPT !.at = "done", !.max = Zero, !.got = Zero]
  /\ odd' = odd \cup {<<"back", i>> : i \in {j \in Ids : seq'[j] < seq[j]}}
  /\ UNCHANGED <<phase, acct, twaps, orders, fills, inHand, unsaid, queue, pg, lost, counts>>

-----------------------------------------------------------------------------
(* The engine, as the sink sees it: a change of Redis, then the event *)

\* INCR of the counters in ids.  odd notes an id that Postgres or Redis already has a row of, and
\* apart from it an order of Redis whose id another order gets; and what else the step finds odd.
Held(i) == IF i = "oid" THEN DOMAIN pg.orders \cup DOMAIN orders ELSE DOMAIN pg.fills \cup DOMAIN fills
Issue(ids, found) ==
  /\ seq' = [i \in Ids |-> IF i \in ids THEN seq[i] + 1 ELSE seq[i]]
  /\ odd' = odd \cup {<<i, seq[i] + 1>> : i \in {j \in ids : seq[j] + 1 \in Held(j)}}
                 \cup {<<"order", o>> : o \in {n \in DOMAIN orders : "oid" \in ids /\ n = seq.oid + 1}}
                 \cup found

\* A request of the API: ensureAccount seeds the account and queues the user's row before the
\* deposit of the ledger and before anything else of the request.
ensureAccount ==
  /\ phase = "up"
  /\ ~acct
  /\ acct' = TRUE
  /\ enqueueWrite(<<userRow, Write("record", 0)>>)
  /\ UNCHANGED <<phase, seq, twaps, orders, fills, inHand, unsaid, pg, sync, odd, counts>>

\* placeOrder saves the order; its "open" event follows once it is in the indexes.  An order that
\* crosses the market is in no index and is filled by its own placement.
saveOrder ==
  /\ phase = "up"
  /\ acct
  /\ counts.work < MaxWork
  /\ Issue({"oid"}, {})
  /\ orders' = Upsert(orders, seq.oid + 1, "open")
  /\ unsaid' = unsaid \cup {orderRow(seq.oid + 1, "open")}
  /\ counts' = [counts EXCEPT !.work = @ + 1]
  /\ UNCHANGED <<phase, acct, twaps, fills, inHand, queue, pg, sync, lost>>

\* A cancel, by client id as soon as the order is saved, reads the order and goes on if it is open;
\* and so does the matcher before it takes the account's lock for a fill.  A placement has the order
\* it fills at once in hand from the start.
readOpen(use, oid) ==
  /\ phase # "down"
  /\ orders[oid] = "open"
  /\ inHand' = [inHand EXCEPT ![use] = @ \cup {oid}]
  /\ UNCHANGED <<phase, acct, seq, twaps, orders, fills, unsaid, sinkVars, lost, odd, counts>>

\* A cancel writes the order and, after the bracket's cascade, emits the event.  (Two that have the
\* order in hand write and say the same: one stands for both.)  odd notes a cancel before the order
\* is announced or after a fill.
cancelOrders(oid) ==
  /\ phase # "down"
  /\ oid \in inHand.cancel
  /\ inHand' = [inHand EXCEPT !.cancel = @ \ {oid}]
  /\ orders' = [orders EXCEPT ![oid] = "cancelled"]
  /\ unsaid' = unsaid \cup {orderRow(oid, "cancelled")}
  /\ odd' = IF orderRow(oid, "open") \in unsaid \/ orders[oid] = "filled"
            THEN odd \cup {<<"order", oid>>} ELSE odd
  /\ UNCHANGED <<phase, acct, seq, twaps, fills, sinkVars, lost, counts>>

\* executeFill does not read the status again.  It fills the order and pushes the fill; the events
\* follow after the reduce-only stops have been reconciled.  An order its own placement fills may
\* never be announced as open.  odd notes a fill of an order that has ended.
executeFill(oid) ==
  /\ phase # "down"
  /\ oid \in inHand.fill
  /\ inHand' = [inHand EXCEPT !.fill = @ \ {oid}]
  /\ Issue({"tid"}, IF orders[oid] = "open" THEN {} ELSE {<<"order", oid>>})
  /\ orders' = [orders EXCEPT ![oid] = "filled"]
  /\ fills' = Upsert(fills, seq.tid + 1, oid)
  /\ unsaid' = (unsaid \ {orderRow(oid, "open")}) \cup {fillRow(seq.tid + 1, oid)}
  /\ UNCHANGED <<phase, acct, twaps, sinkVars, lost, counts>>

\* resetAccount reads the list of the orders rested on the main market and writes every one of them
\* cancelled, the ended ones too and without an event, and queues the user's row.  Orders rested
\* since the list was read, or elsewhere, or filled at once are not in it.
resetAccount ==
  /\ phase = "up"
  /\ acct
  /\ counts.work < MaxWork
  /\ \E list \in SUBSET {o \in DOMAIN orders : orderRow(o, "open") \notin unsaid} :
       /\ orders' = [o \in DOMAIN orders |-> IF o \in list THEN "cancelled" ELSE orders[o]]
       /\ odd' = odd \cup {<<"order", o>> : o \in {n \in list : orders[n] # "cancelled"}}
  /\ enqueueWrite(<<userRow>>)
  /\ counts' = [counts EXCEPT !.work = @ + 1]
  /\ UNCHANGED <<phase, acct, seq, twaps, fills, inHand, unsaid, pg, sync>>

\* What an event says: an order's status, or an order filled and then its fill.
SaysFillFirst(w) == IF w.kind = "fill" THEN <<w, orderRow(w.oid, "filled")>> ELSE <<w>>
Says(w) == IF w.kind = "fill" THEN <<orderRow(w.oid, "filled"), w>> ELSE <<w>>

Emit(w) ==
  /\ phase # "down"
  /\ w \in unsaid
  /\ unsaid' = unsaid \ {w}
  /\ emitted(Says(w))
  /\ UNCHANGED <<phase, acct, seq, twaps, orders, fills, inHand, pg, sync, odd, counts>>

\* A liquidation closes the position with an order of its own, and emits that order's row, the fill
\* and the ledger's delta in the same step, in that order.
settleLiquidation ==
  /\ phase # "down"
  /\ acct
  /\ counts.work < MaxWork
  /\ Issue({"oid", "tid"}, {})
  /\ fills' = Upsert(fills, seq.tid + 1, seq.oid + 1)
  /\ emitted(Says(fillRow(seq.tid + 1, seq.oid + 1)) \o <<Write("ledger", seq.oid + 1)>>)
  /\ counts' = [counts EXCEPT !.work = @ + 1]
  /\ UNCHANGED <<phase, acct, twaps, orders, inHand, unsaid, pg, sync>>

\* recordFunding and recordLedgerUpdate are called, not emitted: they queue their row with or
\* without the listeners.
record ==
  /\ phase # "down"
  /\ acct
  /\ counts.work < MaxWork
  /\ enqueueWrite(<<Write("record", counts.records + 1)>>)
  /\ counts' = [counts EXCEPT !.work = @ + 1, !.records = @ + 1]
  /\ UNCHANGED <<phase, engineVars, pg, sync, odd>>

\* recordTwapHistory queues the row of a TWAP that has ended, by the id it got from seq:twap when
\* it was created (here the TWAPs are numbered as they end).  said names the slice fills announced
\* by then, for comparison with what the write will find.  odd notes an id that has a row.
recordTwapHistory ==
  /\ phase # "down"
  /\ acct
  /\ counts.work < MaxWork
  /\ LET n == counts.records + 1
         said == {t \in DOMAIN fills : fillRow(t, fills[t]) \notin unsaid}
     IN  /\ enqueueWrite(<<twapRow(twaps + 1, n, said)>>)
         /\ odd' = IF twaps + 1 \in DOMAIN pg.twap THEN odd \cup {<<"twap", n>>} ELSE odd
  /\ twaps' = twaps + 1
  /\ counts' = [counts EXCEPT !.work = @ + 1, !.records = @ + 1]
  /\ UNCHANGED <<phase, acct, seq, orders, fills, inHand, unsaid, pg, sync>>

-----------------------------------------------------------------------------
(* The process *)

Crash ==
  /\ phase # "down"
  /\ counts.troubles < MaxTroubles
  /\ phase' = "down"
  /\ counts' = [counts EXCEPT !.troubles = @ + 1]
  /\ lost' = lost \cup ToSet(queue) \cup UNION {ToSet(Says(w)) : w \in unsaid}
  /\ queue' = <<>>
  /\ unsaid' = {}
  /\ inHand' = [cancel |-> {}, fill |-> {}]
  /\ UNCHANGED <<acct, seq, twaps, orders, fills, pg, sync, odd>>

\* Redis comes back empty, its counters too.  What said, lost and odd note of ids is gone with them.
Flush ==
  /\ phase = "down"
  /\ acct
  /\ acct' = FALSE
  /\ seq' = Zero
  /\ twaps' = 0
  /\ orders' = NoRows
  /\ fills' = NoRows
  /\ lost' = {w \in lost : w.kind \in {"record", "twap"}}
  /\ odd' = {x \in odd : x[1] = "twap"}
  /\ pg' = [pg EXCEPT !.twap = [k \in DOMAIN @ |-> [@[k] EXCEPT !.said = {}]]]
  /\ UNCHANGED <<phase, inHand, unsaid, queue, sync, counts>>

\* main: the worker is started and awaited, then the sink attached and the server opened.
startWorker ==
  /\ phase = "down"
  /\ phase' = "worker"
  /\ UNCHANGED <<engineVars, sinkVars, lost, odd, counts>>

startPgSink ==
  /\ phase = "worker"
  /\ phase' = "up"
  /\ sync' = [sync EXCEPT !.at = "start"]
  /\ UNCHANGED <<engineVars, queue, pg, lost, odd, counts>>

EngineStep ==
  \/ ensureAccount \/ saveOrder \/ resetAccount \/ settleLiquidation \/ record \/ recordTwapHistory
  \/ \E oid \in DOMAIN orders :
       cancelOrders(oid) \/ executeFill(oid) \/ \E use \in {"cancel", "fill"} : readOpen(use, oid)

SinkStep == WriteNext \/ WriteFails \/ SyncRead \/ SyncGet \/ SyncSet

Next ==
  \/ EngineStep \/ SinkStep
  \/ \E w \in unsaid : Emit(w)
  \/ Crash \/ Flush \/ startWorker \/ startPgSink

Spec == Init /\ [][Next]_persistVars

-----------------------------------------------------------------------------
(* Properties *)

\* Once every event is said and every write has run, Postgres agrees with Redis on every order,
\* fill, record and ended TWAP, except where one of that row's own writes was lost (with the user's
\* row, which every row refers to, all are) and where
\*   - the id was in use when it was issued, as ids of TWAPs are again after a flush;
\*   - an order was cancelled before it was announced;
\*   - an order was cancelled and filled, each having read it open before the other wrote: Redis
\*     has what was written last, Postgres what was emitted last;
\*   - a reset wrote over the order, and emitted nothing.
\* In particular no write is refused because the row it refers to comes later in the queue.
Settled == phase = "up" /\ queue = <<>> /\ unsaid = {}
OrderKept(o) ==
  \/ o \in DOMAIN pg.orders /\ pg.orders[o] = orders[o]
  \/ orderRow(o, orders[o]) \in lost
  \/ <<"order", o>> \in odd
FillKept(t) ==
  \/ t \in DOMAIN pg.fills /\ pg.fills[t] = fills[t]
  \/ {fillRow(t, fills[t]), orderRow(fills[t], "filled")} \cap lost # {}
  \/ <<"tid", t>> \in odd
RecordKept(n) ==
  \/ <<"record", n>> \in pg.records \/ \E k \in DOMAIN pg.twap : pg.twap[k].of = n
  \/ \E w \in lost : <<w.kind, w.key>> = <<"record", n>> \/ <<w.kind, w.oid>> = <<"twap", n>>
  \/ <<"twap", n>> \in odd
LossIsLocal ==
  Settled =>
    /\ \A o \in DOMAIN orders : OrderKept(o)
    /\ \A t \in DOMAIN fills : FillKept(t)
    /\ \A n \in 1..counts.records : RecordKept(n)

\* The row of an ended TWAP counts every slice fill that was announced before it and that Postgres
\* ever gets: the sum is taken when the write runs, and the queue is first in, first out.  A fill
\* whose id was in use before it got it may come later.
TwapRowSumsFills ==
  \A k \in DOMAIN pg.twap : \A t \in pg.twap[k].said \cap DOMAIN pg.fills :
    t \in pg.twap[k].found \/ <<"tid", t>> \in odd

\* When the counters have been raised past what Postgres answered and were never set back, no id is
\* issued that Postgres or Redis has a row of, whatever was lost in a crash or a flush and whatever
\* was issued while the counters were being raised.
SetBack == \E i \in Ids : <<"back", i>> \in odd
FreshIds ==
  [][sync.at = "done" /\ sync.ok /\ phase # "down" /\ ~SetBack
       => {x \in odd' \ odd : x[1] \in Ids} = {}]_persistVars

\* What pg-sink.ts says of the sync: "Bump the counters at startup so newly-generated ids are
\* always safe."  No id is ever issued that Postgres or Redis has a row of.
NewIdsAreSafe == [][{x \in odd' \ odd : x[1] \in Ids} = {}]_persistVars
=============================================================================
