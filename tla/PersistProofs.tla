---------------------------- MODULE PersistProofs ----------------------------
(***************************************************************************)
(* What reaches Postgres, for any number of orders, failed writes, crashes *)
(* and flushes, and any cushion of the id counters.                        *)
(*                                                                         *)
(* Ids (IdsInv). No id in Redis, in an event to come or in a waiting write *)
(* is past its counter, and once the counters were set no id in Postgres   *)
(* is; before that, none is past both the counter and the maximum the sync *)
(* has read. A counter set to a value computed from an older one ends the  *)
(* argument, and the property names it.                                    *)
(*                                                                         *)
(* TWAP rows (TwapInv). When a TWAP ends every fill it names has been      *)
(* announced, so in the queue nothing behind its write stores such a fill  *)
(* (Past), and none is stored after the row has been summed, unless the id *)
(* of the fill was in use.                                                 *)
(*                                                                         *)
(* Losses (LossInv). The user's row is stored, lost or first in the queue. *)
(* A fill is stored, lost, to be announced, or waits behind its order. The *)
(* last write about an order gives the status that Redis has, unless two   *)
(* ends of the order overlapped or a reset wrote over it. The TWAP rows    *)
(* waiting have ids of their own, none of which has a row (TwapIds), but   *)
(* for the ids used again after a flush. What the steps of the engine have *)
(* in common is in EngineCases, what the sink does with a write in Popped. *)
(***************************************************************************)
EXTENDS Persist, WellFoundedInduction, TLAPS

Kinds == {"user", "record", "ledger", "order", "fill", "twap"}

\* The writes that the queue may hold.
Writes ==
  {w \in [kind : Kinds, key : Nat, status : Statuses \cup {"none"}, oid : Nat, said : SUBSET Nat] :
     /\ w.kind = "user" => w = userRow
     /\ w.kind = "order" => w.status \in Statuses /\ w = orderRow(w.key, w.status)
     /\ w.kind = "fill" => w = fillRow(w.key, w.oid)}

Rows(f) == DOMAIN f \subseteq Nat /\ \E b \in Nat : \A n \in DOMAIN f : n <= b

RedisTypes ==
  /\ acct \in BOOLEAN /\ seq \in [Ids -> Nat] /\ twaps \in Nat
  /\ DOMAIN orders \subseteq Nat /\ \A o \in DOMAIN orders : orders[o] \in Statuses
  /\ DOMAIN fills \subseteq Nat /\ \A t \in DOMAIN fills : fills[t] \in Nat
  /\ unsaid \subseteq Writes /\ \A w \in unsaid : w.kind \in {"order", "fill"}

PgTypes(p) ==
  /\ p \in [user : BOOLEAN, orders : {p.orders}, fills : {p.fills}, twap : {p.twap}, records : {p.records}]
  /\ Rows(p.orders) /\ Rows(p.fills)
  /\ \A k \in DOMAIN p.twap : p.twap[k] \in [of : Nat, said : SUBSET Nat, found : SUBSET Nat]

SinkTypes ==
  /\ phase \in {"down", "worker", "up"}
  /\ queue \in Seq(Writes) /\ PgTypes(pg)
  /\ sync \in [at : {"start", "read", "got", "done"}, max : [Ids -> Nat], got : [Ids -> Nat], ok : BOOLEAN]
  /\ counts \in [work : Nat, troubles : Nat, records : Nat]

\* Nothing waits while the process is down, and without an account.
Calm ==
  /\ phase = "down" \/ ~acct => queue = <<>> /\ unsaid = {}
  /\ ~acct => DOMAIN orders = {} /\ DOMAIN fills = {}

TypesOk == RedisTypes /\ SinkTypes /\ Calm

-----------------------------------------------------------------------------
(* Writes, rows and the queue.                                             *)

LEMMA WriteKinds ==
  /\ userRow \in Writes
  /\ \A k \in Nat : Write("record", k) \in Writes /\ Write("ledger", k) \in Writes
  /\ \A o \in Nat, s \in Statuses : orderRow(o, s) \in Writes
  /\ \A t, o \in Nat : fillRow(t, o) \in Writes
  /\ \A k, n \in Nat, S \in SUBSET Nat : twapRow(k, n, S) \in Writes
<1>1. userRow \in Writes
  BY DEF Writes, Kinds, userRow, Write, Statuses
<1>2. \A k \in Nat : Write("record", k) \in Writes /\ Write("ledger", k) \in Writes
  BY DEF Writes, Kinds, Write, Statuses
<1>3. \A o \in Nat, s \in Statuses : orderRow(o, s) \in Writes
  BY DEF Writes, Kinds, orderRow, Write, Statuses
<1>4. \A t, o \in Nat : fillRow(t, o) \in Writes
  BY DEF Writes, Kinds, fillRow, Write, Statuses
<1>5. ASSUME NEW k \in Nat, NEW n \in Nat, NEW S \in SUBSET Nat PROVE twapRow(k, n, S) \in Writes
  <2> DEFINE a == [Write("twap", k) EXCEPT !.oid = n]
  <2>1. twapRow(k, n, S) = [a EXCEPT !.said = S]
    BY DEF twapRow
  <2>2. a = [kind |-> "twap", key |-> k, status |-> "none", oid |-> n, said |-> {}]
    BY DEF Write
  <2> HIDE DEF a
  <2> QED
    BY <2>1, <2>2 DEF Writes, Kinds
<1> QED
  BY <1>1, <1>2, <1>3, <1>4, <1>5

LEMMA WriteFields ==
  /\ userRow.kind = "user"
  /\ \A k : Write("record", k).kind = "record" /\ Write("record", k).key = k
  /\ \A k : Write("ledger", k).kind = "ledger" /\ Write("ledger", k).key = k
  /\ \A o, s : /\ orderRow(o, s).kind = "order" /\ orderRow(o, s).key = o
               /\ orderRow(o, s).status = s
  /\ \A t, o : fillRow(t, o).kind = "fill" /\ fillRow(t, o).key = t /\ fillRow(t, o).oid = o
  /\ \A k, n, S : /\ twapRow(k, n, S).kind = "twap" /\ twapRow(k, n, S).key = k
                  /\ twapRow(k, n, S).oid = n /\ twapRow(k, n, S).said = S
  BY DEF twapRow, userRow, orderRow, fillRow, Write

LEMMA WriteIs ==
  ASSUME NEW w \in Writes
  PROVE  /\ w.kind \in Kinds /\ w.key \in Nat /\ w.oid \in Nat /\ w.said \in SUBSET Nat
         /\ w.kind = "user" => w = userRow
         /\ w.kind = "order" => w.status \in Statuses /\ w = orderRow(w.key, w.status)
         /\ w.kind = "fill" => w = fillRow(w.key, w.oid)
  BY DEF Writes

LEMMA Upserted ==
  ASSUME NEW f, NEW k, NEW v
  PROVE  /\ DOMAIN Upsert(f, k, v) = DOMAIN f \cup {k} /\ Upsert(f, k, v)[k] = v
         /\ \A x \in DOMAIN f : x # k => Upsert(f, k, v)[x] = f[x]
  BY DEF Upsert

LEMMA InsertedOnce ==
  ASSUME NEW f, NEW k, NEW v
  PROVE  /\ DOMAIN InsertOnce(f, k, v) = DOMAIN f \cup {k}
         /\ \A x \in DOMAIN f : InsertOnce(f, k, v)[x] = f[x]
         /\ k \notin DOMAIN f => InsertOnce(f, k, v)[k] = v
  BY DEF InsertOnce, Upsert

LEMMA RowsAdded ==
  ASSUME NEW f, NEW g, Rows(f), NEW k \in Nat, DOMAIN g = DOMAIN f \cup {k}
  PROVE  Rows(g)
<1>1. PICK b \in Nat : \A n \in DOMAIN f : n <= b
  BY DEF Rows
<1>2. b + k \in Nat /\ \A n \in DOMAIN g : n <= b + k
  BY <1>1 DEF Rows
<1> QED
  BY <1>2 DEF Rows

LEMMA NoRowsAre == DOMAIN NoRows = {} /\ Rows(NoRows)
  BY DEF NoRows, Rows

\* The queue when its first write has run, and when writes are put behind it.
LEMMA QueueTail ==
  ASSUME queue \in Seq(Writes), queue # <<>>, NEW q, q = Tail(queue)
  PROVE  /\ Head(queue) = queue[1] /\ queue[1] \in Writes /\ q \in Seq(Writes)
         /\ Len(queue) \in Nat /\ Len(queue) >= 1 /\ Len(q) = Len(queue) - 1
         /\ \A i \in 1 .. Len(q) : q[i] = queue[i + 1]
  OBVIOUS

LEMMA QueueMore ==
  ASSUME NEW s \in Seq(Writes), NEW ws \in Seq(Writes), NEW q, q = s \o ws
  PROVE  /\ q \in Seq(Writes) /\ Len(s) \in Nat /\ Len(ws) \in Nat /\ Len(q) = Len(s) + Len(ws)
         /\ \A i \in 1 .. Len(s) : q[i] = s[i]
         /\ \A i \in 1 .. Len(ws) : q[Len(s) + i] = ws[i]
  OBVIOUS

LEMMA QueueMembers ==
  ASSUME NEW q \in Seq(Writes)
  PROVE  Len(q) \in Nat /\ (\A i \in 1 .. Len(q) : q[i] \in Writes /\ q[i] \in ToSet(q))
         /\ \A w \in ToSet(q) : \E i \in 1 .. Len(q) : q[i] = w
  BY DEF ToSet

LEMMA EmptyQueue == <<>> \in Seq(Writes) /\ Len(<<>>) = 0 /\ ToSet(<<>>) = {}
  BY DEF ToSet

\* What an event puts into the queue.
LEMMA SaysWrites ==
  ASSUME NEW w \in Writes
  PROVE  /\ Says(w) \in Seq(Writes)
         /\ w.kind = "fill" => Says(w) = <<orderRow(w.oid, "filled"), w>>
         /\ w.kind # "fill" => Says(w) = <<w>>
<1>1. orderRow(w.oid, "filled") \in Writes
  BY WriteIs, WriteKinds DEF Statuses
<1>2. <<w>> \in Seq(Writes) /\ <<orderRow(w.oid, "filled"), w>> \in Seq(Writes)
  BY <1>1
<1> QED
  BY <1>2 DEF Says

-----------------------------------------------------------------------------
(* What a write does to Postgres.                                          *)

LEMMA StoredIs ==
  ASSUME PgTypes(pg), NEW w \in Writes, NEW p, p = Stored(w)
  PROVE  /\ PgTypes(p)
         /\ p.user = (IF w.kind = "user" THEN TRUE ELSE pg.user)
         /\ p.orders = (IF w.kind = "order" THEN Upsert(pg.orders, w.key, w.status) ELSE pg.orders)
         /\ p.fills = (IF w.kind = "fill" THEN InsertOnce(pg.fills, w.key, w.oid) ELSE pg.fills)
         /\ p.twap = (IF w.kind = "twap"
                      THEN InsertOnce(pg.twap, w.key,
                             [of |-> w.oid, said |-> w.said, found |-> DOMAIN pg.fills])
                      ELSE pg.twap)
         /\ p.records = (IF w.kind \in {"record", "ledger"}
                         THEN pg.records \cup {<<w.kind, w.key>>} ELSE pg.records)
<1>1. /\ w.kind \in Kinds /\ w.key \in Nat /\ w.oid \in Nat /\ w.said \in SUBSET Nat
  BY WriteIs
<1>2. /\ pg \in [user : BOOLEAN, orders : {pg.orders}, fills : {pg.fills}, twap : {pg.twap},
                 records : {pg.records}]
      /\ Rows(pg.orders) /\ Rows(pg.fills)
      /\ \A k \in DOMAIN pg.twap : pg.twap[k] \in [of : Nat, said : SUBSET Nat, found : SUBSET Nat]
  BY DEF PgTypes
<1> DEFINE up == Upsert(pg.orders, w.key, w.status)
           in == InsertOnce(pg.fills, w.key, w.oid)
           row == [of |-> w.oid, said |-> w.said, found |-> DOMAIN pg.fills]
           tw == InsertOnce(pg.twap, w.key, row)
           re == pg.records \cup {<<w.kind, w.key>>}
<1>3. Rows(up) /\ Rows(in)
  <2>1. DOMAIN up = DOMAIN pg.orders \cup {w.key}
    BY DEF Upsert
  <2>2. DOMAIN in = DOMAIN pg.fills \cup {w.key}
    BY DEF InsertOnce, Upsert
  <2> HIDE DEF up, in
  <2> QED
    BY <1>1, <1>2, <2>1, <2>2, RowsAdded
<1>4. row \in [of : Nat, said : SUBSET Nat, found : SUBSET Nat]
  BY <1>1, <1>2 DEF Rows
<1> HIDE DEF row
<1>5. \A k \in DOMAIN tw : tw[k] \in [of : Nat, said : SUBSET Nat, found : SUBSET Nat]
  <2>1. /\ DOMAIN tw = DOMAIN pg.twap \cup {w.key}
        /\ \A x \in DOMAIN pg.twap : tw[x] = pg.twap[x]
        /\ w.key \notin DOMAIN pg.twap => tw[w.key] = row
    BY InsertedOnce
  <2> HIDE DEF tw
  <2> QED
    BY <1>2, <1>4, <2>1
<1>6. /\ w.kind = "user" => p = [pg EXCEPT !.user = TRUE]
      /\ w.kind = "order" => p = [pg EXCEPT !.orders = up]
      /\ w.kind = "fill" => p = [pg EXCEPT !.fills = in]
      /\ w.kind = "twap" => p = [pg EXCEPT !.twap = tw]
      /\ w.kind \in {"record", "ledger"} => p = [pg EXCEPT !.records = re]
  BY DEF Stored, row
<1> HIDE DEF up, in, tw, re
<1>7. CASE w.kind = "user"
  <2>1. /\ p.user = TRUE /\ p.orders = pg.orders /\ p.fills = pg.fills /\ p.twap = pg.twap
        /\ p.records = pg.records
        /\ p \in [user : BOOLEAN, orders : {pg.orders}, fills : {pg.fills}, twap : {pg.twap},
                  records : {pg.records}]
    BY <1>2, <1>6, <1>7
  <2> QED
    BY <1>2, <1>7, <2>1 DEF PgTypes
<1>8. CASE w.kind = "order"
  BY <1>2, <1>3, <1>6, <1>8 DEF PgTypes, up
<1>9. CASE w.kind = "fill"
  BY <1>2, <1>3, <1>6, <1>9 DEF PgTypes, in
<1>10. CASE w.kind = "twap"
  BY <1>2, <1>5, <1>6, <1>10 DEF PgTypes, tw, row
<1>11. CASE w.kind \in {"record", "ledger"}
  <2>1. /\ p.user = pg.user /\ p.orders = pg.orders /\ p.fills = pg.fills /\ p.twap = pg.twap
        /\ p.records = re
        /\ p \in [user : BOOLEAN, orders : {pg.orders}, fills : {pg.fills}, twap : {pg.twap},
                  records : {re}]
    BY <1>2, <1>6, <1>11
  <2> QED
    BY <1>2, <1>11, <2>1 DEF PgTypes, re
<1> QED
  BY <1>1, <1>7, <1>8, <1>9, <1>10, <1>11 DEF Kinds

\* The first write runs: h, and what Postgres holds then.
LEMMA Ran ==
  ASSUME TypesOk, WriteNext, NEW h, h = queue[1]
  PROVE  /\ h \in Writes /\ PgTypes(pg') /\ queue # <<>> /\ queue' = Tail(queue)
         /\ UNCHANGED <<phase, acct, seq, twaps, orders, fills, unsaid, sync, odd, counts>>
         /\ lost' = IF ~pg.user /\ userRow \in lost THEN lost \cup {h} ELSE lost
         /\ References(h) => /\ pg'.user = (IF h.kind = "user" THEN TRUE ELSE pg.user)
                             /\ pg'.orders = (IF h.kind = "order" THEN Upsert(pg.orders, h.key, h.status) ELSE pg.orders)
                             /\ pg'.fills = (IF h.kind = "fill" THEN InsertOnce(pg.fills, h.key, h.oid) ELSE pg.fills)
                             /\ pg'.twap = (IF h.kind = "twap"
                                  THEN InsertOnce(pg.twap, h.key, [of |-> h.oid, said |-> h.said, found |-> DOMAIN pg.fills])
                                  ELSE pg.twap)
                             /\ pg'.records = (IF h.kind \in {"record", "ledger"}
                                  THEN pg.records \cup {<<h.kind, h.key>>} ELSE pg.records)
         /\ ~References(h) => pg' = pg
<1>1. queue \in Seq(Writes) /\ queue # <<>> /\ PgTypes(pg)
  BY DEF WriteNext, TypesOk, SinkTypes, engineVars
<1>2. Head(queue) = h /\ h \in Writes
  BY <1>1, QueueTail
<1>3. /\ queue' = Tail(queue) /\ pg' = (IF References(h) THEN Stored(h) ELSE pg)
      /\ lost' = IF ~pg.user /\ userRow \in lost THEN lost \cup {h} ELSE lost
      /\ UNCHANGED <<phase, acct, seq, twaps, orders, fills, unsaid, sync, odd, counts>>
  BY <1>2 DEF WriteNext, engineVars
<1>4. CASE References(h)
  <2>1. pg' = Stored(h)
    BY <1>3, <1>4
  <2> QED
    BY <1>1, <1>2, <1>3, <1>4, <2>1, StoredIs
<1>5. CASE ~References(h)
  BY <1>1, <1>2, <1>3, <1>5
<1> QED
  BY <1>4, <1>5

-----------------------------------------------------------------------------
(* Types.                                                                  *)

\* A step that leaves Redis, the queue and Postgres alone.
Quiet ==
  /\ UNCHANGED <<acct, orders, fills, unsaid, queue, pg, lost>> /\ odd \subseteq odd'
  /\ UNCHANGED <<twaps, counts>> /\ (phase' = "down" => phase = "down")

LEMMA QuietSteps ==
  ASSUME SyncRead \/ SyncGet \/ SyncSet \/ startWorker \/ startPgSink
  PROVE  Quiet
<1>1. UNCHANGED <<acct, orders, fills, unsaid, queue, pg, lost>> /\ odd \subseteq odd'
  BY DEF SyncRead, SyncGet, SyncSet, startWorker, startPgSink, engineVars, sinkVars
<1>2. UNCHANGED <<twaps, counts>>
  BY DEF SyncRead, SyncGet, SyncSet, startWorker, startPgSink, engineVars, sinkVars
<1>3. phase' = "down" => phase = "down"
  BY DEF SyncRead, SyncGet, SyncSet, startWorker, startPgSink, engineVars, sinkVars
<1> QED
  BY <1>1, <1>2, <1>3 DEF Quiet

\* A step that does nothing but note which orders are in hand.
Idle == UNCHANGED <<phase, acct, seq, twaps, orders, fills, unsaid, queue, pg, sync, lost, odd, counts>>

LEMMA IdleIsQuiet == Idle => Quiet
  BY DEF Idle, Quiet

\* A write of the engine, or an event of it.
EngineOrEvent ==
  \/ ensureAccount \/ saveOrder \/ resetAccount \/ settleLiquidation \/ record \/ recordTwapHistory
  \/ \E oid \in DOMAIN orders : cancelOrders(oid) \/ executeFill(oid)
  \/ \E w \in unsaid : Emit(w)

Sync == SyncRead \/ SyncGet \/ SyncSet \/ startWorker \/ startPgSink

LEMMA NextCases ==
  ASSUME [Next]_persistVars
  PROVE  EngineOrEvent \/ Sync \/ WriteNext \/ WriteFails \/ Crash \/ Flush \/ Idle
<1>1. UNCHANGED persistVars => Idle
  BY DEF persistVars, engineVars, sinkVars, Idle
<1>2. \A use, oid : readOpen(use, oid) => Idle
  BY DEF readOpen, sinkVars, Idle
<1>3. EngineStep => EngineOrEvent \/ Idle
  BY <1>2 DEF EngineStep, EngineOrEvent
<1>4. (\E w \in unsaid : Emit(w)) => EngineOrEvent
  BY DEF EngineOrEvent
<1>5. SinkStep \/ startWorker \/ startPgSink => Sync \/ WriteNext \/ WriteFails
  BY DEF SinkStep, Sync
<1>6. Next => EngineOrEvent \/ Sync \/ WriteNext \/ WriteFails \/ Crash \/ Flush \/ Idle
  BY <1>3, <1>4, <1>5 DEF Next
<1> QED
  BY <1>1, <1>6

LEMMA NatMin ==
  ASSUME NEW T, T \subseteq Nat, T # {}
  PROVE  \E x \in T : \A y \in T : x <= y
<1> DEFINE R == OpToRel(<, Nat)
<1>1. IsWellFoundedOn(R, Nat)
  BY NatLessThanWellFounded
<1>2. \A x, y \in Nat : <<x, y>> \in R <=> x < y
  BY DEF OpToRel
<1> HIDE DEF R
<1>3. PICK x \in T : \A y \in T : ~(<<y, x>> \in R)
  BY <1>1, WFMin
<1>4. \A y \in T : x \in Nat /\ y \in Nat /\ ~(y < x)
  BY <1>2, <1>3
<1> QED
  BY <1>4

LEMMA NatMax ==
  ASSUME NEW S, S \subseteq Nat, S # {}, NEW b \in Nat, \A n \in S : n <= b
  PROVE  Max(S) \in S /\ \A n \in S : n <= Max(S)
<1> DEFINE T == {m \in Nat : \A n \in S : n <= m}
<1>1. PICK m \in T : \A y \in T : m <= y
  BY NatMin
<1>2. m \in S
  <2> SUFFICES ASSUME m \notin S PROVE FALSE
    OBVIOUS
  <2>1. \A n \in S : n \in Nat /\ n <= m /\ n # m
    OBVIOUS
  <2>2. m # 0
    <3>1. PICK n : n \in S
      OBVIOUS
    <3>2. n \in Nat /\ n <= m /\ n # m
      BY <2>1, <3>1
    <3> QED
      BY <3>2
  <2>3. m - 1 \in T
    <3>1. m \in Nat /\ m - 1 \in Nat
      BY <2>2
    <3>2. \A n \in S : n <= m - 1
      BY <2>1, <3>1
    <3> QED
      BY <3>1, <3>2
  <2> QED
    BY <1>1, <2>3
<1>3. \E x \in S : \A y \in S : x >= y
  BY <1>2
<1> QED
  BY <1>3 DEF Max

LEMMA PgMaxIs ==
  ASSUME PgTypes(pg)
  PROVE  /\ PgMax \in [Ids -> Nat]
         /\ \A n \in DOMAIN pg.orders : n <= PgMax["oid"]
         /\ \A n \in DOMAIN pg.fills : n <= PgMax["tid"]
<1>1. ASSUME NEW f, Rows(f)
      PROVE  Max({0} \cup DOMAIN f) \in Nat /\ \A n \in DOMAIN f : n <= Max({0} \cup DOMAIN f)
  <2>1. PICK b \in Nat : \A n \in DOMAIN f : n <= b
    BY <1>1 DEF Rows
  <2> DEFINE S == {0} \cup DOMAIN f
  <2>2. S \subseteq Nat /\ S # {} /\ \A n \in S : n <= b
    BY <1>1, <2>1 DEF Rows
  <2> HIDE DEF S
  <2>3. Max(S) \in S /\ \A n \in S : n <= Max(S)
    BY <2>2, NatMax
  <2>4. Max(S) \in Nat
    BY <2>2, <2>3
  <2> QED
    BY <2>3, <2>4 DEF S
<1> DEFINE a == Max({0} \cup DOMAIN pg.orders)
           b == Max({0} \cup DOMAIN pg.fills)
<1>2. a \in Nat /\ b \in Nat
  BY <1>1 DEF PgTypes
<1>3. (\A n \in DOMAIN pg.orders : n <= a) /\ (\A n \in DOMAIN pg.fills : n <= b)
  BY <1>1 DEF PgTypes
<1> HIDE DEF a, b
<1>4. PgMax = [oid |-> a, tid |-> b]
  BY DEF PgMax, a, b
<1>5. PgMax["oid"] = a /\ PgMax["tid"] = b /\ PgMax \in [Ids -> Nat]
  BY <1>2, <1>4 DEF Ids
<1> QED
  BY <1>3, <1>5

LEMMA SyncTypes ==
  ASSUME TypesOk, Sync
  PROVE  TypesOk'
<1>0. SyncRead \/ SyncGet \/ SyncSet \/ startWorker \/ startPgSink
  BY DEF Sync
<1>1. /\ seq \in [Ids -> Nat] /\ PgTypes(pg)
      /\ sync \in [at : {"start", "read", "got", "done"}, max : [Ids -> Nat], got : [Ids -> Nat], ok : BOOLEAN]
      /\ counts \in [work : Nat, troubles : Nat, records : Nat]
      /\ phase \in {"down", "worker", "up"}
  BY DEF TypesOk, SinkTypes, RedisTypes
<1>2. Quiet
  BY <1>0, QuietSteps
<1>3. Zero \in [Ids -> Nat] /\ PgMax \in [Ids -> Nat]
  BY <1>1, PgMaxIs DEF Zero
<1>4. seq' \in [Ids -> Nat]
  <2>1. CASE SyncSet
    <3>1. \A i \in Ids : Raised(i) \in Nat
      BY <1>1, CushionAssumption DEF Raised
    <3> QED
      BY <1>1, <2>1, <3>1 DEF SyncSet
  <2> QED
    BY <1>0, <1>1, <2>1 DEF SyncRead, SyncGet, startWorker, startPgSink, engineVars, sinkVars
<1>5. sync' \in [at : {"start", "read", "got", "done"}, max : [Ids -> Nat], got : [Ids -> Nat], ok : BOOLEAN]
  BY <1>0, <1>1, <1>3 DEF SyncRead, SyncGet, SyncSet, startWorker, startPgSink, engineVars, sinkVars
<1>6. counts' \in [work : Nat, troubles : Nat, records : Nat]
  BY <1>1, <1>2 DEF Quiet
<1>7. phase' \in {"down", "worker", "up"} /\ (phase' = "down" => phase = "down")
  BY <1>0, <1>1 DEF SyncRead, SyncGet, SyncSet, startWorker, startPgSink, engineVars, sinkVars
<1> QED
  BY <1>2, <1>4, <1>5, <1>6, <1>7 DEF TypesOk, RedisTypes, SinkTypes, Calm, Quiet

LEMMA EmittedIs ==
  ASSUME queue \in Seq(Writes), NEW ws \in Seq(Writes), emitted(ws)
  PROVE  /\ queue' \in Seq(Writes)
         /\ \/ phase = "up" /\ queue' = queue \o ws /\ lost' = lost
            \/ phase # "up" /\ queue' = queue /\ lost' = lost \cup ToSet(ws)
<1>1. \/ phase = "up" /\ queue' = queue \o ws /\ lost' = lost
      \/ phase # "up" /\ queue' = queue /\ lost' = lost \cup ToSet(ws)
  BY DEF emitted, enqueueWrite
<1>2. queue \o ws \in Seq(Writes)
  OBVIOUS
<1> QED
  BY <1>1, <1>2

\* A step of the engine, by what it does to the queue, the account, the orders and the fills.
TypeParts ==
  /\ acct \in BOOLEAN /\ seq \in [Ids -> Nat] /\ twaps \in Nat
  /\ DOMAIN orders \subseteq Nat /\ \A o \in DOMAIN orders : orders[o] \in Statuses
  /\ DOMAIN fills \subseteq Nat /\ \A t \in DOMAIN fills : fills[t] \in Nat
  /\ unsaid \subseteq Writes /\ \A w \in unsaid : w.kind \in {"order", "fill"}
  /\ phase \in {"down", "worker", "up"} /\ queue \in Seq(Writes) /\ PgTypes(pg)
  /\ sync \in [at : {"start", "read", "got", "done"}, max : [Ids -> Nat], got : [Ids -> Nat], ok : BOOLEAN]
  /\ counts \in [work : Nat, troubles : Nat, records : Nat]

LEMMA Parts == TypesOk <=> TypeParts /\ Calm
  BY DEF TypesOk, RedisTypes, SinkTypes, TypeParts

LEMMA Issued ==
  ASSUME seq \in [Ids -> Nat], NEW ids, NEW found, Issue(ids, found)
  PROVE  /\ seq' \in [Ids -> Nat] /\ odd \subseteq odd' /\ seq.oid = seq["oid"] /\ seq.tid = seq["tid"]
         /\ \A i \in Ids : seq'[i] = (IF i \in ids THEN seq[i] + 1 ELSE seq[i]) /\ seq[i] \in Nat
         /\ seq["oid"] \in Nat /\ seq["tid"] \in Nat
<1>1. "oid" \in Ids /\ "tid" \in Ids
  BY DEF Ids
<1>2. seq' = [i \in Ids |-> IF i \in ids THEN seq[i] + 1 ELSE seq[i]] /\ odd \subseteq odd'
  BY DEF Issue
<1> QED
  BY <1>1, <1>2

Counts == [work : Nat, troubles : Nat, records : Nat]

LEMMA Counted ==
  ASSUME NEW c \in Counts
  PROVE  /\ [c EXCEPT !.work = @ + 1] \in Counts /\ [c EXCEPT !.work = @ + 1].records = c.records
         /\ [c EXCEPT !.troubles = @ + 1] \in Counts /\ [c EXCEPT !.troubles = @ + 1].records = c.records
         /\ [c EXCEPT !.work = @ + 1, !.records = @ + 1] \in Counts
         /\ [c EXCEPT !.work = @ + 1, !.records = @ + 1].records = c.records + 1
         /\ c.records \in Nat
<1>1. /\ [c EXCEPT !.work = @ + 1] \in Counts /\ [c EXCEPT !.work = @ + 1].records = c.records
      /\ [c EXCEPT !.troubles = @ + 1] \in Counts /\ [c EXCEPT !.troubles = @ + 1].records = c.records
      /\ c.records \in Nat
  BY DEF Counts
<1> DEFINE d == [c EXCEPT !.work = @ + 1]
           e == [d EXCEPT !.records = c.records + 1]
<1>2. [c EXCEPT !.work = @ + 1, !.records = @ + 1] = e
  OBVIOUS
<1>3. d \in Counts
  BY <1>1
<1> HIDE DEF d
<1>4. e \in Counts /\ e.records = c.records + 1
  BY <1>1, <1>3 DEF Counts
<1> HIDE DEF e
<1> QED
  BY <1>1, <1>2, <1>4

LEMMA CountsStep ==
  ASSUME counts \in Counts
  PROVE  /\ saveOrder \/ resetAccount \/ settleLiquidation \/ WriteFails \/ Crash
              => counts' \in Counts /\ counts'.records = counts.records
         /\ record \/ recordTwapHistory => counts' \in Counts /\ counts'.records = counts.records + 1
<1>1. /\ saveOrder \/ resetAccount \/ settleLiquidation => counts' = [counts EXCEPT !.work = @ + 1]
      /\ WriteFails \/ Crash => counts' = [counts EXCEPT !.troubles = @ + 1]
      /\ record \/ recordTwapHistory => counts' = [counts EXCEPT !.work = @ + 1, !.records = @ + 1]
  <2>1. saveOrder \/ resetAccount \/ settleLiquidation => counts' = [counts EXCEPT !.work = @ + 1]
    BY DEF saveOrder, resetAccount, settleLiquidation
  <2>2. WriteFails \/ Crash => counts' = [counts EXCEPT !.troubles = @ + 1]
    BY DEF WriteFails, Crash
  <2>3. record \/ recordTwapHistory => counts' = [counts EXCEPT !.work = @ + 1, !.records = @ + 1]
    BY DEF record, recordTwapHistory
  <2> QED
    BY <2>1, <2>2, <2>3
<1> DEFINE c == counts
<1>2. c \in Counts
  OBVIOUS
<1> HIDE DEF c
<1>3. /\ [c EXCEPT !.work = @ + 1] \in Counts /\ [c EXCEPT !.work = @ + 1].records = c.records
      /\ [c EXCEPT !.troubles = @ + 1] \in Counts /\ [c EXCEPT !.troubles = @ + 1].records = c.records
      /\ [c EXCEPT !.work = @ + 1, !.records = @ + 1] \in Counts
      /\ [c EXCEPT !.work = @ + 1, !.records = @ + 1].records = c.records + 1
  BY <1>2, Counted, Zenon
<1>4. saveOrder \/ resetAccount \/ settleLiquidation \/ WriteFails \/ Crash
        => counts' \in Counts /\ counts'.records = counts.records
  BY <1>1, <1>3 DEF c
<1>5. record \/ recordTwapHistory => counts' \in Counts /\ counts'.records = counts.records + 1
  BY <1>1, <1>3 DEF c
<1> QED
  BY <1>4, <1>5

\* What record and recordTwapHistory queue.
LEMMA RecordQueues ==
  ASSUME record \/ recordTwapHistory
  PROVE  LET k == counts.records + 1
             S == {t \in DOMAIN fills : fillRow(t, fills[t]) \notin unsaid}
         IN  /\ \/ queue' = queue \o <<Write("record", k)>> /\ twaps' = twaps /\ odd' = odd
                \/ /\ queue' = queue \o <<twapRow(twaps + 1, k, S)>> /\ twaps' = twaps + 1
                   /\ odd' = IF twaps + 1 \in DOMAIN pg.twap THEN odd \cup {<<"twap", k>>} ELSE odd
             /\ UNCHANGED <<phase, acct, seq, orders, fills, unsaid, pg, sync, lost>>
<1>1. CASE record
  BY <1>1 DEF record, enqueueWrite, engineVars
<1>2. CASE recordTwapHistory
  BY <1>2 DEF recordTwapHistory, enqueueWrite
<1> QED
  BY <1>1, <1>2

LEMMA EngineTypes ==
  ASSUME TypesOk, EngineOrEvent
  PROVE  TypesOk'
<1>0. TypeParts /\ Calm
  BY Parts
<1> SUFFICES TypeParts' /\ Calm'
  BY Parts DEF TypesOk, TypeParts, RedisTypes, SinkTypes
<1>1. CASE ensureAccount
  <2> DEFINE ws == <<userRow, Write("record", 0)>>
  <2>1. ws \in Seq(Writes)
    BY WriteKinds
  <2> HIDE DEF ws
  <2>2. queue' = queue \o ws /\ queue' \in Seq(Writes)
    BY <1>0, <1>1, <2>1, QueueMore DEF ensureAccount, enqueueWrite, ws, TypeParts
  <2> QED
    BY <1>0, <1>1, <2>2 DEF ensureAccount, TypeParts, Calm
<1>2. CASE saveOrder
  <2> DEFINE n == seq["oid"] + 1
  <2>1. /\ seq' \in [Ids -> Nat] /\ n \in Nat /\ orders' = Upsert(orders, n, "open")
        /\ unsaid' = unsaid \cup {orderRow(n, "open")} /\ acct /\ phase = "up"
        /\ UNCHANGED <<phase, acct, twaps, fills, queue, pg, sync>>
    BY <1>0, <1>2, Issued DEF saveOrder, TypeParts
  <2>2. counts' \in [work : Nat, troubles : Nat, records : Nat]
    BY <1>0, <1>2, CountsStep DEF Counts, TypeParts
  <2> HIDE DEF n
  <2>3. DOMAIN orders' \subseteq Nat /\ \A o \in DOMAIN orders' : orders'[o] \in Statuses
    BY <1>0, <2>1 DEF TypeParts, Upsert, Statuses
  <2>4. orderRow(n, "open") \in Writes /\ orderRow(n, "open").kind = "order"
    BY <2>1, WriteKinds, WriteFields DEF Statuses
  <2> QED
    BY <1>0, <2>1, <2>2, <2>3, <2>4 DEF TypeParts, Calm
<1>3. ASSUME NEW oid \in DOMAIN orders, cancelOrders(oid)
      PROVE  TypeParts' /\ Calm'
  <2>1. /\ phase # "down" /\ orders' = [orders EXCEPT ![oid] = "cancelled"]
        /\ unsaid' = unsaid \cup {orderRow(oid, "cancelled")}
        /\ UNCHANGED <<phase, acct, seq, twaps, fills, queue, pg, sync, counts>>
    BY <1>3 DEF cancelOrders, sinkVars
  <2>2. DOMAIN orders' = DOMAIN orders /\ \A o \in DOMAIN orders' : orders'[o] \in Statuses
    BY <1>0, <2>1 DEF TypeParts, Statuses
  <2>3. orderRow(oid, "cancelled") \in Writes /\ orderRow(oid, "cancelled").kind = "order"
    BY <1>0, WriteKinds, WriteFields DEF Statuses, TypeParts
  <2>4. acct
    BY <1>0 DEF Calm, TypeParts
  <2> QED
    BY <1>0, <2>1, <2>2, <2>3, <2>4 DEF TypeParts, Calm
<1>4. ASSUME NEW oid \in DOMAIN orders, executeFill(oid)
      PROVE  TypeParts' /\ Calm'
  <2> DEFINE t == seq["tid"] + 1
  <2>1. /\ seq' \in [Ids -> Nat] /\ t \in Nat /\ fills' = Upsert(fills, t, oid) /\ phase # "down"
        /\ orders' = [orders EXCEPT ![oid] = "filled"]
        /\ unsaid' \subseteq unsaid \cup {fillRow(t, oid)}
        /\ UNCHANGED <<phase, acct, twaps, queue, pg, sync, counts>>
    BY <1>0, <1>4, Issued DEF executeFill, TypeParts, sinkVars
  <2> HIDE DEF t
  <2>2. DOMAIN orders' = DOMAIN orders /\ \A o \in DOMAIN orders' : orders'[o] \in Statuses
    BY <1>0, <2>1 DEF TypeParts, Statuses
  <2>3. oid \in Nat /\ fillRow(t, oid) \in Writes /\ fillRow(t, oid).kind = "fill"
    BY <1>0, <2>1, WriteKinds, WriteFields DEF TypeParts
  <2>4. DOMAIN fills' \subseteq Nat /\ \A x \in DOMAIN fills' : fills'[x] \in Nat
    BY <1>0, <2>1, <2>3 DEF TypeParts, Upsert
  <2>5. acct
    BY <1>0 DEF Calm, TypeParts
  <2> QED
    BY <1>0, <2>1, <2>2, <2>3, <2>4, <2>5 DEF TypeParts, Calm
<1>5. ASSUME NEW w \in unsaid, Emit(w)
      PROVE  TypeParts' /\ Calm'
  <2>1. /\ phase # "down" /\ unsaid' = unsaid \ {w} /\ emitted(Says(w))
        /\ UNCHANGED <<phase, acct, seq, twaps, orders, fills, pg, sync, counts>>
    BY <1>5 DEF Emit
  <2>2. Says(w) \in Seq(Writes) /\ acct
    BY <1>0, SaysWrites DEF TypeParts, Calm
  <2>3. queue' \in Seq(Writes)
    BY <1>0, <2>1, <2>2, EmittedIs DEF TypeParts
  <2> QED
    BY <1>0, <2>1, <2>2, <2>3 DEF TypeParts, Calm
<1>6. CASE settleLiquidation
  <2> DEFINE t == seq["tid"] + 1
             o == seq["oid"] + 1
             ws == Says(fillRow(t, o)) \o <<Write("ledger", o)>>
  <2>1. /\ seq' \in [Ids -> Nat] /\ t \in Nat /\ o \in Nat /\ fills' = Upsert(fills, t, o)
        /\ phase # "down" /\ acct /\ emitted(ws)
        /\ UNCHANGED <<phase, acct, twaps, orders, unsaid, pg, sync>>
    <3>1. Issue({"oid", "tid"}, {}) /\ seq \in [Ids -> Nat]
      BY <1>0, <1>6 DEF settleLiquidation, TypeParts
    <3>2. /\ seq' \in [Ids -> Nat] /\ t \in Nat /\ o \in Nat /\ seq.oid = seq["oid"] /\ seq.tid = seq["tid"]
      BY <3>1, Issued
    <3> QED
      BY <1>6, <3>2 DEF settleLiquidation
  <2>2. counts' \in [work : Nat, troubles : Nat, records : Nat]
    BY <1>0, <1>6, CountsStep DEF Counts, TypeParts
  <2> HIDE DEF t, o
  <2>3. ws \in Seq(Writes)
    <3>1. Says(fillRow(t, o)) \in Seq(Writes) /\ Write("ledger", o) \in Writes
      BY <2>1, WriteKinds, SaysWrites
    <3> QED
      BY <3>1
  <2> HIDE DEF ws
  <2>4. queue' \in Seq(Writes)
    BY <1>0, <2>1, <2>3, EmittedIs DEF TypeParts
  <2>5. DOMAIN fills' \subseteq Nat /\ \A x \in DOMAIN fills' : fills'[x] \in Nat
    BY <1>0, <2>1 DEF TypeParts, Upsert
  <2> QED
    BY <1>0, <2>1, <2>2, <2>4, <2>5 DEF TypeParts, Calm
<1>7. CASE record \/ recordTwapHistory
  <2> DEFINE k == counts.records + 1
             S == {t \in DOMAIN fills : fillRow(t, fills[t]) \notin unsaid}
  <2>1. /\ phase # "down" /\ acct
        /\ \/ queue' = queue \o <<Write("record", k)>>
           \/ queue' = queue \o <<twapRow(twaps + 1, k, S)>>
        /\ UNCHANGED <<phase, acct, seq, orders, fills, unsaid, pg, sync>>
    <3>1. phase # "down" /\ acct
      BY <1>7 DEF record, recordTwapHistory
    <3> QED
      BY <1>7, <3>1, RecordQueues
  <2>2. counts' \in [work : Nat, troubles : Nat, records : Nat] /\ k \in Nat
    <3>1. counts' \in [work : Nat, troubles : Nat, records : Nat]
      BY <1>0, <1>7, CountsStep DEF Counts, TypeParts
    <3>2. k \in Nat
      BY <1>0 DEF TypeParts
    <3> QED
      BY <3>1, <3>2
  <2>6. twaps + 1 \in Nat /\ twaps' \in Nat
    <3>1. twaps' = twaps \/ twaps' = twaps + 1
      BY <1>7, RecordQueues
    <3> QED
      BY <1>0, <3>1 DEF TypeParts
  <2>3. S \in SUBSET Nat
    BY <1>0 DEF TypeParts
  <2> HIDE DEF k, S
  <2>4. Write("record", k) \in Writes /\ twapRow(twaps + 1, k, S) \in Writes
    BY <2>2, <2>3, <2>6, WriteKinds
  <2>5. queue' \in Seq(Writes)
    <3> DEFINE a == Write("record", k)
               b == twapRow(twaps + 1, k, S)
    <3>1. queue \in Seq(Writes) /\ a \in Writes /\ b \in Writes
      BY <1>0, <2>4 DEF TypeParts
    <3> HIDE DEF a, b
    <3>2. queue \o <<a>> \in Seq(Writes) /\ queue \o <<b>> \in Seq(Writes)
      BY <3>1
    <3> QED
      BY <2>1, <3>2 DEF a, b
  <2> QED
    BY <1>0, <2>1, <2>2, <2>5, <2>6 DEF TypeParts, Calm
<1>8. CASE resetAccount
  <2>1. /\ phase = "up" /\ acct /\ queue' = queue \o <<userRow>>
        /\ DOMAIN orders' = DOMAIN orders
        /\ \A o \in DOMAIN orders : orders'[o] = orders[o] \/ orders'[o] = "cancelled"
        /\ UNCHANGED <<phase, acct, seq, twaps, fills, unsaid, pg, sync>>
    BY <1>8 DEF resetAccount, enqueueWrite
  <2>2. counts' \in [work : Nat, troubles : Nat, records : Nat]
    BY <1>0, <1>8, CountsStep DEF Counts, TypeParts
  <2>3. \A o \in DOMAIN orders' : orders'[o] \in Statuses
    BY <1>0, <2>1 DEF TypeParts, Statuses
  <2>4. userRow \in Writes
    BY WriteKinds
  <2>5. queue' \in Seq(Writes)
    BY <1>0, <2>1, <2>4 DEF TypeParts
  <2> QED
    BY <1>0, <2>1, <2>2, <2>3, <2>5 DEF TypeParts, Calm
<1> QED
  BY <1>1, <1>2, <1>3, <1>4, <1>5, <1>6, <1>7, <1>8 DEF EngineOrEvent

LEMMA SinkStepTypes ==
  ASSUME TypesOk, WriteNext \/ WriteFails \/ Crash \/ Flush
  PROVE  TypesOk'
<1>0. TypeParts /\ Calm
  BY Parts
<1> SUFFICES TypeParts' /\ Calm'
  BY Parts DEF TypesOk, TypeParts, RedisTypes, SinkTypes
<1>1. CASE WriteNext
  <2>1. /\ PgTypes(pg') /\ queue # <<>> /\ queue' = Tail(queue)
        /\ UNCHANGED <<phase, acct, seq, twaps, orders, fills, unsaid, sync, odd, counts>>
    BY <1>1, Ran
  <2>2. queue' \in Seq(Writes)
    BY <1>0, <2>1 DEF TypeParts
  <2> QED
    BY <1>0, <2>1, <2>2 DEF TypeParts, Calm
<1>2. CASE WriteFails
  <2>1. /\ queue # <<>> /\ queue' = Tail(queue)
        /\ UNCHANGED <<phase, acct, seq, twaps, orders, fills, unsaid, pg, sync>>
    BY <1>2 DEF WriteFails, engineVars
  <2>2. queue' \in Seq(Writes)
    BY <1>0, <2>1 DEF TypeParts
  <2>3. counts' \in [work : Nat, troubles : Nat, records : Nat]
    BY <1>0, <1>2, CountsStep DEF Counts, TypeParts
  <2> QED
    BY <1>0, <2>1, <2>2, <2>3 DEF TypeParts, Calm
<1>3. CASE Crash
  <2>1. counts' \in [work : Nat, troubles : Nat, records : Nat]
    BY <1>0, <1>3, CountsStep DEF Counts, TypeParts
  <2> QED
    BY <1>0, <1>3, <2>1 DEF Crash, TypeParts, Calm
<1>4. CASE Flush
  <2> DEFINE tw == [k \in DOMAIN pg.twap |-> [pg.twap[k] EXCEPT !.said = {}]]
  <2>1. /\ phase = "down" /\ acct' = FALSE /\ seq' = Zero /\ twaps' = 0
        /\ orders' = NoRows /\ fills' = NoRows
        /\ pg' = [pg EXCEPT !.twap = tw] /\ UNCHANGED <<phase, unsaid, queue, sync, counts>>
    BY <1>4 DEF Flush
  <2>2. \A k \in DOMAIN tw : tw[k] \in [of : Nat, said : SUBSET Nat, found : SUBSET Nat]
    <3>1. \A k \in DOMAIN pg.twap : pg.twap[k] \in [of : Nat, said : SUBSET Nat, found : SUBSET Nat]
      BY <1>0 DEF TypeParts, PgTypes
    <3> QED
      BY <3>1
  <2> HIDE DEF tw
  <2>3. PgTypes(pg')
    BY <1>0, <2>1, <2>2 DEF TypeParts, PgTypes
  <2>4. DOMAIN orders' = {} /\ DOMAIN fills' = {} /\ seq' \in [Ids -> Nat]
    BY <2>1, NoRowsAre DEF Zero
  <2> QED
    BY <1>0, <2>1, <2>3, <2>4 DEF TypeParts, Calm
<1> QED
  BY <1>1, <1>2, <1>3, <1>4

LEMMA TypesInit == Init => TypesOk
<1> SUFFICES ASSUME Init PROVE TypeParts /\ Calm
  BY Parts
<1>1. /\ DOMAIN NoRows = {} /\ Rows(NoRows) /\ Zero \in [Ids -> Nat] /\ <<>> \in Seq(Writes)
  BY NoRowsAre DEF Zero
<1>2. pg = EmptyPg /\ PgTypes(EmptyPg)
  BY <1>1 DEF PgTypes, EmptyPg, Init
<1> QED
  BY <1>1, <1>2 DEF Init, TypeParts, Calm

LEMMA TypesNext ==
  ASSUME TypesOk, [Next]_persistVars
  PROVE  TypesOk'
<1>1. CASE Idle
  BY <1>1 DEF Idle, TypesOk, RedisTypes, SinkTypes, Calm
<1> QED
  BY <1>1, NextCases, EngineTypes, SinkStepTypes, SyncTypes

-----------------------------------------------------------------------------
(* Ids.                                                                    *)

Below(w, s) ==
  /\ w.kind = "order" => w.key <= s["oid"]
  /\ w.kind = "fill" => w.key <= s["tid"] /\ w.oid <= s["oid"]

\* Unless a counter was set back, no id of Redis, of an event or of a waiting write is past it.
LifeBelow ==
  ~SetBack =>
    /\ \A o \in DOMAIN orders : o <= seq["oid"]
    /\ \A t \in DOMAIN fills : t <= seq["tid"]
    /\ \A w \in unsaid \cup ToSet(queue) : Below(w, seq)

\* The ids of Postgres, before the counters are set (b: the maxima the sync has read) and after.
PgWithin(b, c) ==
  /\ \A o \in DOMAIN pg.orders : o <= b["oid"] \/ o <= c["oid"]
  /\ \A t \in DOMAIN pg.fills : t <= b["tid"] \/ t <= c["tid"]

PgBelow ==
  /\ sync.at = "got" /\ phase = "up" => \A i \in Ids : sync.got[i] <= seq[i]
  /\ sync.at \in {"read", "got"} /\ phase = "up" /\ sync.ok /\ ~SetBack => PgWithin(sync.max, seq)
  /\ sync.at = "done" /\ (acct \/ phase = "up") /\ sync.ok /\ ~SetBack => PgWithin(seq, seq)

IdsInv == LifeBelow /\ PgBelow

LEMMA ToSetTail ==
  ASSUME queue \in Seq(Writes), queue # <<>>, NEW q, q = Tail(queue)
  PROVE  ToSet(q) \subseteq ToSet(queue) /\ queue[1] \in ToSet(queue)
<1>1. /\ q \in Seq(Writes) /\ Len(queue) \in Nat /\ Len(queue) >= 1 /\ Len(q) = Len(queue) - 1
      /\ \A i \in 1 .. Len(q) : q[i] = queue[i + 1]
  BY QueueTail
<1>2. \A i \in 1 .. Len(q) : q[i] \in ToSet(queue)
  <2> TAKE i \in 1 .. Len(q)
  <2>1. i + 1 \in 1 .. Len(queue)
    BY <1>1
  <2> QED
    BY <1>1, <2>1, QueueMembers
<1>3. queue[1] \in ToSet(queue)
  BY <1>1, QueueMembers
<1>4. \A w \in ToSet(q) : \E i \in 1 .. Len(q) : q[i] = w
  BY <1>1, QueueMembers
<1> QED
  BY <1>2, <1>3, <1>4

LEMMA ToSetMore ==
  ASSUME NEW s \in Seq(Writes), NEW ws \in Seq(Writes)
  PROVE  ToSet(s \o ws) = ToSet(s) \cup ToSet(ws)
<1> DEFINE q == s \o ws
<1>0. q = s \o ws
  OBVIOUS
<1> HIDE DEF q
<1>1. /\ q \in Seq(Writes) /\ Len(s) \in Nat /\ Len(ws) \in Nat /\ Len(q) = Len(s) + Len(ws)
      /\ \A i \in 1 .. Len(s) : q[i] = s[i]
      /\ \A i \in 1 .. Len(ws) : q[Len(s) + i] = ws[i]
  BY <1>0, QueueMore
<1>2. ASSUME NEW w \in ToSet(q) PROVE w \in ToSet(s) \cup ToSet(ws)
  <2>1. PICK i \in 1 .. Len(q) : q[i] = w
    BY <1>1, QueueMembers
  <2>2. CASE i <= Len(s)
    <3>1. i \in 1 .. Len(s)
      BY <1>1, <2>2
    <3> QED
      BY <1>1, <2>1, <3>1, QueueMembers
  <2>3. CASE ~(i <= Len(s))
    <3> DEFINE j == i - Len(s)
    <3>1. j \in 1 .. Len(ws) /\ Len(s) + j = i
      BY <1>1, <2>3
    <3> HIDE DEF j
    <3>2. ws[j] = w
      BY <1>1, <2>1, <3>1
    <3> QED
      BY <3>1, <3>2, QueueMembers
  <2> QED
    BY <2>2, <2>3
<1>3. ASSUME NEW w \in ToSet(s) PROVE w \in ToSet(q)
  <2>1. PICK i \in 1 .. Len(s) : s[i] = w
    BY QueueMembers
  <2>2. i \in 1 .. Len(q) /\ q[i] = w
    BY <1>1, <2>1
  <2> QED
    BY <1>1, <2>2, QueueMembers
<1>4. ASSUME NEW w \in ToSet(ws) PROVE w \in ToSet(q)
  <2>1. PICK i \in 1 .. Len(ws) : ws[i] = w
    BY QueueMembers
  <2>2. Len(s) + i \in 1 .. Len(q) /\ q[Len(s) + i] = w
    BY <1>1, <2>1
  <2> QED
    BY <1>1, <2>2, QueueMembers
<1> QED
  BY <1>0, <1>2, <1>3, <1>4

LEMMA ToSetShort ==
  /\ \A a : ToSet(<<a>>) = {a}
  /\ \A a, b : ToSet(<<a, b>>) = {a, b}
  /\ \A a, b, c : ToSet(<<a, b, c>>) = {a, b, c}
  BY DEF ToSet

LEMMA BackKept ==
  ASSUME odd \subseteq odd', ~SetBack'
  PROVE  ~SetBack
  BY DEF SetBack

LEMMA BelowGrows ==
  ASSUME NEW w \in Writes, NEW s \in [Ids -> Nat], NEW t \in [Ids -> Nat], Below(w, s),
         s["oid"] <= t["oid"], s["tid"] <= t["tid"]
  PROVE  Below(w, t)
<1>1. s["oid"] \in Nat /\ s["tid"] \in Nat /\ t["oid"] \in Nat /\ t["tid"] \in Nat
  BY DEF Ids
<1>2. w.key \in Nat /\ w.oid \in Nat
  BY WriteIs
<1> QED
  BY <1>1, <1>2 DEF Below

LEMMA LifeStep ==
  ASSUME TypesOk, TypesOk', LifeBelow,
         ~SetBack' => /\ ~SetBack /\ seq["oid"] <= seq'["oid"] /\ seq["tid"] <= seq'["tid"]
                      /\ \A o \in DOMAIN orders' : o \in DOMAIN orders \/ o <= seq'["oid"]
                      /\ \A t \in DOMAIN fills' : t \in DOMAIN fills \/ t <= seq'["tid"]
                      /\ \A w \in unsaid' \cup ToSet(queue') : w \in unsaid \cup ToSet(queue) \/ Below(w, seq')
  PROVE  LifeBelow'
<1> SUFFICES ASSUME ~SetBack'
             PROVE  /\ \A o \in DOMAIN orders' : o <= seq'["oid"]
                    /\ \A t \in DOMAIN fills' : t <= seq'["tid"]
                    /\ \A w \in unsaid' \cup ToSet(queue') : Below(w, seq')
  BY DEF LifeBelow
<1>1. /\ seq \in [Ids -> Nat] /\ seq' \in [Ids -> Nat] /\ DOMAIN orders \subseteq Nat /\ DOMAIN fills \subseteq Nat
      /\ unsaid \subseteq Writes /\ queue \in Seq(Writes)
  BY DEF TypesOk, RedisTypes, SinkTypes
<1>2. seq["oid"] \in Nat /\ seq["tid"] \in Nat /\ seq'["oid"] \in Nat /\ seq'["tid"] \in Nat
  BY <1>1 DEF Ids
<1>3. /\ \A o \in DOMAIN orders : o <= seq["oid"]
      /\ \A t \in DOMAIN fills : t <= seq["tid"]
      /\ \A w \in unsaid \cup ToSet(queue) : Below(w, seq)
  BY DEF LifeBelow
<1>4. \A o \in DOMAIN orders' : o <= seq'["oid"]
  BY <1>1, <1>2, <1>3
<1>5. \A t \in DOMAIN fills' : t <= seq'["tid"]
  BY <1>1, <1>2, <1>3
<1>6. unsaid \cup ToSet(queue) \subseteq Writes
  BY <1>1, QueueMembers
<1>7. \A w \in unsaid' \cup ToSet(queue') : Below(w, seq')
  BY <1>1, <1>3, <1>6, BelowGrows
<1> QED
  BY <1>4, <1>5, <1>7

LEMMA WithinGrows ==
  ASSUME PgTypes(pg), NEW b \in [Ids -> Nat], NEW c \in [Ids -> Nat], NEW d \in [Ids -> Nat],
         NEW e \in [Ids -> Nat], PgWithin(b, c),
         \A i \in Ids : b[i] <= d[i] /\ c[i] <= e[i]
  PROVE  PgWithin(d, e)
<1>1. /\ b["oid"] \in Nat /\ b["tid"] \in Nat /\ c["oid"] \in Nat /\ c["tid"] \in Nat
      /\ d["oid"] \in Nat /\ d["tid"] \in Nat /\ e["oid"] \in Nat /\ e["tid"] \in Nat
      /\ b["oid"] <= d["oid"] /\ c["oid"] <= e["oid"] /\ b["tid"] <= d["tid"] /\ c["tid"] <= e["tid"]
  BY DEF Ids
<1>2. DOMAIN pg.orders \subseteq Nat /\ DOMAIN pg.fills \subseteq Nat
  BY DEF PgTypes, Rows
<1> QED
  BY <1>1, <1>2 DEF PgWithin

LEMMA EngineGrows ==
  ASSUME TypesOk, EngineOrEvent
  PROVE  /\ odd \subseteq odd' /\ seq' \in [Ids -> Nat] /\ (\A i \in Ids : seq[i] <= seq'[i])
         /\ UNCHANGED <<pg, sync, phase>> /\ (acct' => acct \/ phase = "up")
<1>1. seq \in [Ids -> Nat]
  BY DEF TypesOk, RedisTypes
<1>2. ASSUME NEW ids, NEW found, Issue(ids, found)
      PROVE  odd \subseteq odd' /\ seq' \in [Ids -> Nat] /\ \A i \in Ids : seq[i] <= seq'[i]
  <2>1. /\ seq' \in [Ids -> Nat] /\ odd \subseteq odd'
        /\ \A i \in Ids : seq'[i] = (IF i \in ids THEN seq[i] + 1 ELSE seq[i]) /\ seq[i] \in Nat
    BY <1>1, <1>2, Issued
  <2>2. \A i \in Ids : seq[i] <= seq'[i]
    BY <2>1
  <2> QED
    BY <2>1, <2>2
<1>3. ASSUME UNCHANGED seq PROVE seq' \in [Ids -> Nat] /\ \A i \in Ids : seq[i] <= seq'[i]
  BY <1>1, <1>3
<1>4. CASE saveOrder \/ settleLiquidation
  BY <1>2, <1>4 DEF saveOrder, settleLiquidation
<1>5. CASE ensureAccount \/ resetAccount \/ record \/ recordTwapHistory
  BY <1>3, <1>5 DEF ensureAccount, resetAccount, record, recordTwapHistory, engineVars
<1>6. ASSUME NEW oid \in DOMAIN orders, executeFill(oid)
      PROVE  /\ odd \subseteq odd' /\ seq' \in [Ids -> Nat] /\ (\A i \in Ids : seq[i] <= seq'[i])
             /\ UNCHANGED <<pg, sync, phase>> /\ (acct' => acct \/ phase = "up")
  BY <1>2, <1>6 DEF executeFill, sinkVars
<1>7. ASSUME NEW oid \in DOMAIN orders, cancelOrders(oid)
      PROVE  /\ odd \subseteq odd' /\ seq' \in [Ids -> Nat] /\ (\A i \in Ids : seq[i] <= seq'[i])
             /\ UNCHANGED <<pg, sync, phase>> /\ (acct' => acct \/ phase = "up")
  BY <1>3, <1>7 DEF cancelOrders, sinkVars
<1>8. ASSUME NEW w \in unsaid, Emit(w)
      PROVE  /\ odd \subseteq odd' /\ seq' \in [Ids -> Nat] /\ (\A i \in Ids : seq[i] <= seq'[i])
             /\ UNCHANGED <<pg, sync, phase>> /\ (acct' => acct \/ phase = "up")
  BY <1>3, <1>8 DEF Emit
<1> QED
  BY <1>4, <1>5, <1>6, <1>7, <1>8 DEF EngineOrEvent

LEMMA EmittedSet ==
  ASSUME queue \in Seq(Writes), NEW ws \in Seq(Writes), emitted(ws)
  PROVE  ToSet(queue') \subseteq ToSet(queue) \cup ToSet(ws)
<1>1. queue' = queue \o ws \/ queue' = queue
  BY EmittedIs
<1>2. ToSet(queue \o ws) = ToSet(queue) \cup ToSet(ws)
  BY ToSetMore
<1> QED
  BY <1>1, <1>2

LEMMA EngineLife ==
  ASSUME TypesOk, TypesOk', LifeBelow, EngineOrEvent
  PROVE  LifeBelow'
<1>0. /\ seq \in [Ids -> Nat] /\ seq' \in [Ids -> Nat] /\ queue \in Seq(Writes) /\ unsaid \subseteq Writes
      /\ DOMAIN orders \subseteq Nat /\ DOMAIN fills \subseteq Nat
  BY DEF TypesOk, RedisTypes, SinkTypes
<1>1. /\ odd \subseteq odd' /\ seq["oid"] <= seq'["oid"] /\ seq["tid"] <= seq'["tid"]
      /\ seq["oid"] \in Nat /\ seq["tid"] \in Nat /\ seq'["oid"] \in Nat /\ seq'["tid"] \in Nat
  BY <1>0, EngineGrows DEF Ids
<1> SUFFICES ASSUME ~SetBack'
             PROVE  /\ \A o \in DOMAIN orders' : o \in DOMAIN orders \/ o <= seq'["oid"]
                    /\ \A t \in DOMAIN fills' : t \in DOMAIN fills \/ t <= seq'["tid"]
                    /\ \A w \in unsaid' \cup ToSet(queue') : w \in unsaid \cup ToSet(queue) \/ Below(w, seq')
  BY <1>1, LifeStep, BackKept
<1>2. /\ \A o \in DOMAIN orders : o <= seq["oid"]
      /\ \A t \in DOMAIN fills : t <= seq["tid"]
      /\ \A w \in unsaid \cup ToSet(queue) : Below(w, seq)
  BY <1>1, BackKept DEF LifeBelow
<1>3. ASSUME NEW w \in Writes, w.kind \notin {"order", "fill"} PROVE Below(w, seq')
  BY <1>3 DEF Below
<1>4. CASE ensureAccount
  <2> DEFINE a == userRow
             b == Write("record", 0)
  <2>1. a \in Writes /\ b \in Writes /\ Below(a, seq') /\ Below(b, seq')
    BY <1>3, WriteKinds, WriteFields
  <2>2. queue' = queue \o <<a, b>> /\ UNCHANGED <<orders, fills, unsaid>>
    BY <1>4 DEF ensureAccount, enqueueWrite
  <2> HIDE DEF a, b
  <2>3. ToSet(queue') = ToSet(queue) \cup {a, b}
    <3>1. <<a, b>> \in Seq(Writes) /\ ToSet(<<a, b>>) = {a, b}
      BY <2>1, ToSetShort
    <3> QED
      <4>1. ToSet(queue \o <<a, b>>) = ToSet(queue) \cup ToSet(<<a, b>>)
        BY <1>0, <3>1, ToSetMore
      <4> QED
        BY <2>2, <3>1, <4>1
  <2> QED
    BY <2>1, <2>2, <2>3
<1>5. CASE saveOrder
  <2> DEFINE n == seq["oid"] + 1
             a == orderRow(n, "open")
  <2>1. /\ orders' = Upsert(orders, n, "open") /\ n = seq'["oid"] /\ n \in Nat
        /\ unsaid' = unsaid \cup {a} /\ UNCHANGED <<fills, queue>>
    BY <1>0, <1>5, Issued DEF saveOrder, Ids
  <2>2. a.kind = "order" /\ a.key = n
    BY WriteFields
  <2> HIDE DEF n, a
  <2>3. Below(a, seq')
    BY <2>1, <2>2 DEF Below
  <2>4. DOMAIN orders' = DOMAIN orders \cup {n}
    BY <2>1, Upserted
  <2> QED
    BY <2>1, <2>3, <2>4
<1>6. ASSUME NEW oid \in DOMAIN orders, cancelOrders(oid)
      PROVE  /\ \A o \in DOMAIN orders' : o \in DOMAIN orders \/ o <= seq'["oid"]
             /\ \A t \in DOMAIN fills' : t \in DOMAIN fills \/ t <= seq'["tid"]
             /\ \A w \in unsaid' \cup ToSet(queue') : w \in unsaid \cup ToSet(queue) \/ Below(w, seq')
  <2> DEFINE a == orderRow(oid, "cancelled")
  <2>1. /\ orders' = [orders EXCEPT ![oid] = "cancelled"] /\ unsaid' = unsaid \cup {a}
        /\ UNCHANGED <<seq, fills, queue>>
    BY <1>6 DEF cancelOrders, sinkVars
  <2>2. a.kind = "order" /\ a.key = oid
    BY WriteFields
  <2> HIDE DEF a
  <2>3. Below(a, seq')
    BY <1>2, <2>1, <2>2 DEF Below
  <2> QED
    BY <2>1, <2>3
<1>7. ASSUME NEW oid \in DOMAIN orders, executeFill(oid)
      PROVE  /\ \A o \in DOMAIN orders' : o \in DOMAIN orders \/ o <= seq'["oid"]
             /\ \A t \in DOMAIN fills' : t \in DOMAIN fills \/ t <= seq'["tid"]
             /\ \A w \in unsaid' \cup ToSet(queue') : w \in unsaid \cup ToSet(queue) \/ Below(w, seq')
  <2> DEFINE t == seq["tid"] + 1
             a == fillRow(t, oid)
  <2>1. /\ orders' = [orders EXCEPT ![oid] = "filled"] /\ unsaid' \subseteq unsaid \cup {a}
        /\ fills' = Upsert(fills, t, oid) /\ seq'["tid"] = t /\ t \in Nat /\ UNCHANGED <<queue>>
    BY <1>0, <1>7, Issued DEF executeFill, Ids, sinkVars
  <2>2. a.kind = "fill" /\ a.key = t /\ a.oid = oid
    BY WriteFields
  <2> HIDE DEF a, t
  <2>3. oid \in Nat /\ oid <= seq'["oid"]
    BY <1>0, <1>1, <1>2
  <2>4. Below(a, seq')
    BY <2>1, <2>2, <2>3 DEF Below
  <2>5. DOMAIN fills' = DOMAIN fills \cup {t} /\ DOMAIN orders' = DOMAIN orders
    BY <2>1, Upserted
  <2> QED
    BY <2>1, <2>4, <2>5
<1>8. ASSUME NEW w \in unsaid, Emit(w)
      PROVE  /\ \A o \in DOMAIN orders' : o \in DOMAIN orders \/ o <= seq'["oid"]
             /\ \A t \in DOMAIN fills' : t \in DOMAIN fills \/ t <= seq'["tid"]
             /\ \A x \in unsaid' \cup ToSet(queue') : x \in unsaid \cup ToSet(queue) \/ Below(x, seq')
  <2> DEFINE a == orderRow(w.oid, "filled")
  <2>1. emitted(Says(w)) /\ unsaid' = unsaid \ {w} /\ UNCHANGED <<seq, orders, fills>>
    BY <1>8 DEF Emit
  <2>2. w \in Writes /\ Below(w, seq)
    BY <1>0, <1>2
  <2>3. /\ w.kind = "fill" => Says(w) = <<a, w>>
        /\ w.kind # "fill" => Says(w) = <<w>>
    BY <2>2, SaysWrites
  <2>4. a.kind = "order" /\ a.key = w.oid
    BY WriteFields
  <2> HIDE DEF a
  <2>5. \A x \in ToSet(Says(w)) : x = w \/ (x = a /\ w.kind = "fill")
    BY <2>3, ToSetShort
  <2>6. w.kind = "fill" => Below(a, seq')
    BY <2>1, <2>2, <2>4 DEF Below
  <2>7. Says(w) \in Seq(Writes)
    BY <2>2, SaysWrites
  <2>8. ToSet(queue') \subseteq ToSet(queue) \cup ToSet(Says(w))
    BY <1>0, <2>1, <2>7, EmittedSet
  <2> QED
    BY <2>1, <2>5, <2>6, <2>8
<1>9. CASE settleLiquidation
  <2> DEFINE t == seq["tid"] + 1
             o == seq["oid"] + 1
             f == fillRow(t, o)
             a == orderRow(o, "filled")
             g == Write("ledger", o)
  <2>1. /\ t \in Nat /\ o \in Nat /\ fills' = Upsert(fills, t, o) /\ seq'["oid"] = o /\ seq'["tid"] = t
        /\ emitted(Says(f) \o <<g>>) /\ UNCHANGED <<orders, unsaid>>
    BY <1>0, <1>9, Issued DEF settleLiquidation, Ids
  <2>2. /\ f \in Writes /\ a \in Writes /\ g \in Writes /\ f.kind = "fill" /\ f.key = t /\ f.oid = o
        /\ a.kind = "order" /\ a.key = o /\ g.kind = "ledger"
    BY <2>1, WriteKinds, WriteFields DEF Statuses
  <2>3. Says(f) = <<orderRow(f.oid, "filled"), f>>
    BY <2>2, SaysWrites
  <2>4. Says(f) = <<a, f>>
    BY <2>2, <2>3
  <2> HIDE DEF f, a, g, t, o
  <2>5. Below(f, seq') /\ Below(a, seq') /\ Below(g, seq')
    BY <2>1, <2>2 DEF Below
  <2>6. Says(f) \o <<g>> \in Seq(Writes) /\ ToSet(Says(f) \o <<g>>) = {a, f, g}
    <3>1. Says(f) \in Seq(Writes) /\ <<g>> \in Seq(Writes)
      BY <2>2, <2>4
    <3>2. ToSet(Says(f)) = {a, f} /\ ToSet(<<g>>) = {g}
      BY <2>4, ToSetShort
    <3>3. Says(f) \o <<g>> \in Seq(Writes)
      BY <3>1
    <3>4. ToSet(Says(f) \o <<g>>) = ToSet(Says(f)) \cup ToSet(<<g>>)
      BY <3>1, ToSetMore
    <3> QED
      BY <3>2, <3>3, <3>4
  <2>7. ToSet(queue') \subseteq ToSet(queue) \cup {a, f, g}
    BY <1>0, <2>1, <2>6, EmittedSet
  <2>8. DOMAIN fills' = DOMAIN fills \cup {t}
    BY <2>1, Upserted
  <2> QED
    BY <2>1, <2>5, <2>7, <2>8
<1>10. CASE record \/ recordTwapHistory
  <2> DEFINE k == counts.records + 1
             S == {t \in DOMAIN fills : fillRow(t, fills[t]) \notin unsaid}
             a == Write("record", k)
             b == twapRow(twaps + 1, k, S)
  <2>1. /\ queue' = queue \o <<a>> \/ queue' = queue \o <<b>>
        /\ UNCHANGED <<orders, fills, unsaid>>
    BY <1>10, RecordQueues
  <2>2. k \in Nat /\ S \in SUBSET Nat /\ twaps + 1 \in Nat
    BY <1>0 DEF TypesOk, SinkTypes, RedisTypes
  <2> HIDE DEF k, S
  <2>3. a \in Writes /\ b \in Writes /\ a.kind = "record" /\ b.kind = "twap"
    BY <2>2, WriteKinds, WriteFields
  <2> HIDE DEF a, b
  <2>4. Below(a, seq') /\ Below(b, seq')
    BY <1>3, <2>3
  <2>5. /\ <<a>> \in Seq(Writes) /\ <<b>> \in Seq(Writes)
        /\ ToSet(<<a>>) = {a} /\ ToSet(<<b>>) = {b}
    <3>1. <<a>> \in Seq(Writes) /\ <<b>> \in Seq(Writes)
      BY <2>3
    <3>2. ToSet(<<a>>) = {a} /\ ToSet(<<b>>) = {b}
      BY ToSetShort
    <3> QED
      BY <3>1, <3>2
  <2>6. ToSet(queue') = ToSet(queue) \cup {a} \/ ToSet(queue') = ToSet(queue) \cup {b}
    <3>1. /\ ToSet(queue \o <<a>>) = ToSet(queue) \cup {a}
          /\ ToSet(queue \o <<b>>) = ToSet(queue) \cup {b}
      BY <1>0, <2>5, ToSetMore
    <3> QED
      BY <2>1, <3>1
  <2> QED
    BY <2>1, <2>4, <2>6
<1>11. CASE resetAccount
  <2> DEFINE a == userRow
  <2>1. queue' = queue \o <<a>> /\ DOMAIN orders' = DOMAIN orders /\ UNCHANGED <<fills, unsaid>>
    BY <1>11 DEF resetAccount, enqueueWrite
  <2>2. a \in Writes /\ Below(a, seq')
    BY <1>3, WriteKinds, WriteFields
  <2> HIDE DEF a
  <2>3. <<a>> \in Seq(Writes) /\ ToSet(<<a>>) = {a}
    BY <2>2, ToSetShort
  <2>4. ToSet(queue \o <<a>>) = ToSet(queue) \cup {a}
    BY <1>0, <2>3, ToSetMore
  <2> QED
    BY <2>1, <2>2, <2>4
<1> QED
  BY <1>4, <1>5, <1>6, <1>7, <1>8, <1>9, <1>10, <1>11 DEF EngineOrEvent

LEMMA EnginePgBelow ==
  ASSUME TypesOk, PgBelow, EngineOrEvent
  PROVE  PgBelow'
<1>1. /\ odd \subseteq odd' /\ seq' \in [Ids -> Nat] /\ (\A i \in Ids : seq[i] <= seq'[i])
      /\ UNCHANGED <<pg, sync, phase>> /\ (acct' => acct \/ phase = "up")
  BY EngineGrows
<1>2. /\ seq \in [Ids -> Nat] /\ PgTypes(pg)
      /\ sync \in [at : {"start", "read", "got", "done"}, max : [Ids -> Nat], got : [Ids -> Nat], ok : BOOLEAN]
  BY DEF TypesOk, RedisTypes, SinkTypes
<1>3. sync.at = "got" /\ phase = "up" => \A i \in Ids : sync.got[i] <= seq'[i]
  <2> SUFFICES ASSUME sync.at = "got", phase = "up", NEW i \in Ids PROVE sync.got[i] <= seq'[i]
    OBVIOUS
  <2>1. sync.got[i] <= seq[i] /\ sync.got[i] \in Nat /\ seq[i] \in Nat /\ seq'[i] \in Nat /\ seq[i] <= seq'[i]
    BY <1>1, <1>2 DEF PgBelow
  <2> QED
    BY <2>1
<1>4. ~SetBack' => ~SetBack
  BY <1>1, BackKept
<1>5. PgWithin(sync.max, seq) => PgWithin(sync.max, seq')
  <2>1. sync.max \in [Ids -> Nat] /\ \A i \in Ids : sync.max[i] <= sync.max[i]
    BY <1>2
  <2> QED
    BY <1>1, <1>2, <2>1, WithinGrows
<1>6. PgWithin(seq, seq) => PgWithin(seq', seq')
  BY <1>1, <1>2, WithinGrows
<1>8. PgWithin(sync.max, seq)' <=> PgWithin(sync.max, seq')
  BY <1>1 DEF PgWithin
<1>9. PgWithin(seq, seq)' <=> PgWithin(seq', seq')
  BY <1>1 DEF PgWithin
<1> QED
  BY <1>1, <1>3, <1>4, <1>5, <1>6, <1>8, <1>9 DEF PgBelow

\* While Postgres' ids are below the counters no id that is in use is issued.
LEMMA IssueFresh ==
  ASSUME TypesOk, LifeBelow, PgWithin(seq, seq), ~SetBack, NEW ids, ids \subseteq Ids,
         NEW found, \A x \in found : x[1] = "order", Issue(ids, found)
  PROVE  {x \in odd' \ odd : x[1] \in Ids} = {}
<1>1. /\ seq \in [Ids -> Nat] /\ DOMAIN orders \subseteq Nat /\ DOMAIN fills \subseteq Nat
      /\ DOMAIN pg.orders \subseteq Nat /\ DOMAIN pg.fills \subseteq Nat
  BY DEF TypesOk, RedisTypes, SinkTypes, PgTypes, Rows
<1>2. seq["oid"] \in Nat /\ seq["tid"] \in Nat
  BY <1>1 DEF Ids
<1>3. \A j \in ids : seq[j] + 1 \notin Held(j)
  <2> SUFFICES ASSUME NEW j \in ids PROVE seq[j] + 1 \notin Held(j)
    OBVIOUS
  <2>1. CASE j = "oid"
    <3>1. \A n \in DOMAIN pg.orders \cup DOMAIN orders : n \in Nat /\ n <= seq["oid"]
      BY <1>1 DEF LifeBelow, PgWithin
    <3>2. Held("oid") = DOMAIN pg.orders \cup DOMAIN orders
      BY DEF Held
    <3> QED
      BY <1>2, <2>1, <3>1, <3>2
  <2>2. CASE j = "tid"
    <3>1. \A n \in DOMAIN pg.fills \cup DOMAIN fills : n \in Nat /\ n <= seq["tid"]
      BY <1>1 DEF LifeBelow, PgWithin
    <3>2. Held("tid") = DOMAIN pg.fills \cup DOMAIN fills
      BY DEF Held
    <3> QED
      BY <1>2, <2>2, <3>1, <3>2
  <2> QED
    BY <2>1, <2>2 DEF Ids
<1>4. odd' = odd \cup {<<i, seq[i] + 1>> : i \in {j \in ids : seq[j] + 1 \in Held(j)}}
                 \cup {<<"order", o>> : o \in {n \in DOMAIN orders : "oid" \in ids /\ n = seq.oid + 1}}
                 \cup found
  BY DEF Issue
<1>5. \A x \in odd' \ odd : x \in found \/ \E o : x = <<"order", o>>
  BY <1>3, <1>4
<1>6. \A x \in odd' \ odd : x[1] = "order"
  BY <1>5
<1> QED
  BY <1>6 DEF Ids

LEMMA EngineFresh ==
  ASSUME TypesOk, IdsInv, EngineOrEvent, sync.at = "done", sync.ok, phase # "down", ~SetBack
  PROVE  {x \in odd' \ odd : x[1] \in Ids} = {}
<1>1. acct \/ phase = "up" => PgWithin(seq, seq)
  BY DEF IdsInv, PgBelow
<1>2. ASSUME NEW ids, ids \subseteq Ids, NEW found, \A x \in found : x[1] = "order", Issue(ids, found),
             acct \/ phase = "up"
      PROVE  {x \in odd' \ odd : x[1] \in Ids} = {}
  BY <1>1, <1>2, IssueFresh DEF IdsInv
<1>3. {"oid"} \subseteq Ids /\ {"tid"} \subseteq Ids /\ {"oid", "tid"} \subseteq Ids
  BY DEF Ids
<1>4. CASE saveOrder
  <2>1. Issue({"oid"}, {}) /\ acct
    BY <1>4 DEF saveOrder
  <2> QED
    BY <1>2, <1>3, <2>1
<1>5. CASE settleLiquidation
  <2>1. Issue({"oid", "tid"}, {}) /\ acct
    BY <1>5 DEF settleLiquidation
  <2> QED
    BY <1>2, <1>3, <2>1
<1>6. ASSUME NEW oid \in DOMAIN orders, executeFill(oid)
      PROVE  {x \in odd' \ odd : x[1] \in Ids} = {}
  <2> DEFINE found == IF orders[oid] = "open" THEN {} ELSE {<<"order", oid>>}
  <2>1. acct
    BY DEF TypesOk, Calm
  <2>2. Issue({"tid"}, found)
    BY <1>6 DEF executeFill
  <2>3. \A x \in found : x[1] = "order"
    OBVIOUS
  <2> HIDE DEF found
  <2> QED
    BY <1>2, <1>3, <2>1, <2>2, <2>3
<1>7. ASSUME NEW oid \in DOMAIN orders, cancelOrders(oid)
      PROVE  {x \in odd' \ odd : x[1] \in Ids} = {}
  <2>1. \A x \in odd' \ odd : x = <<"order", oid>>
    BY <1>7 DEF cancelOrders, sinkVars
  <2>2. \A x \in odd' \ odd : x[1] = "order"
    BY <2>1
  <2> QED
    BY <2>2 DEF Ids
<1>8. CASE ensureAccount \/ record \/ \E w \in unsaid : Emit(w)
  <2>1. odd' = odd
    BY <1>8 DEF ensureAccount, record, Emit
  <2> QED
    BY <2>1
<1>9. CASE resetAccount
  <2>1. \A x \in odd' \ odd : \E o : x = <<"order", o>>
    BY <1>9 DEF resetAccount
  <2>2. \A x \in odd' \ odd : x[1] = "order"
    BY <2>1
  <2> QED
    BY <2>2 DEF Ids
<1>10. CASE recordTwapHistory
  <2>1. \A x \in odd' \ odd : x = <<"twap", counts.records + 1>>
    BY <1>10 DEF recordTwapHistory
  <2>2. \A x \in odd' \ odd : x[1] = "twap"
    BY <2>1
  <2> QED
    BY <2>2 DEF Ids
<1> QED
  BY <1>4, <1>5, <1>6, <1>7, <1>8, <1>9, <1>10 DEF EngineOrEvent

LEMMA SyncIds ==
  ASSUME TypesOk, TypesOk', IdsInv, Sync
  PROVE  IdsInv'
<1>0. SyncRead \/ SyncGet \/ SyncSet \/ startWorker \/ startPgSink
  BY DEF Sync
<1>1. UNCHANGED <<acct, orders, fills, unsaid, queue, pg, lost>> /\ odd \subseteq odd'
  BY <1>0, QuietSteps DEF Quiet
<1>2. /\ seq \in [Ids -> Nat] /\ PgTypes(pg) /\ seq' \in [Ids -> Nat]
      /\ sync \in [at : {"start", "read", "got", "done"}, max : [Ids -> Nat], got : [Ids -> Nat], ok : BOOLEAN]
  BY DEF TypesOk, RedisTypes, SinkTypes
<1>3. ~SetBack' => ~SetBack /\ \A i \in Ids : seq[i] <= seq'[i]
  <2>1. CASE SyncSet
    <3>1. odd' = odd \cup {<<"back", i>> : i \in {j \in Ids : seq'[j] < seq[j]}}
      BY <2>1 DEF SyncSet
    <3>2. ~SetBack' => \A j \in Ids : ~(seq'[j] < seq[j])
      BY <3>1 DEF SetBack
    <3>3. \A j \in Ids : seq[j] \in Nat /\ seq'[j] \in Nat
      BY <1>2
    <3> QED
      BY <1>1, <3>2, <3>3, BackKept
  <2>2. CASE SyncRead \/ SyncGet \/ startWorker \/ startPgSink
    <3>1. seq' = seq /\ \A i \in Ids : seq[i] \in Nat
      BY <1>2, <2>2 DEF SyncRead, SyncGet, startWorker, startPgSink, engineVars, sinkVars
    <3> QED
      BY <1>1, <3>1, BackKept
  <2> QED
    BY <1>0, <2>1, <2>2
<1>4. LifeBelow'
  <2>1. ~SetBack' => ~SetBack /\ seq["oid"] <= seq'["oid"] /\ seq["tid"] <= seq'["tid"]
    BY <1>3 DEF Ids
  <2> QED
    BY <1>1, <2>1, LifeStep DEF IdsInv
<1>6. CASE SyncRead
  <2>1. /\ sync'.at = "read" /\ (sync'.ok => sync'.max = PgMax) /\ phase' = phase
    BY <1>2, <1>6 DEF SyncRead, engineVars
  <2>2. PgWithin(PgMax, seq')
    BY <1>2, PgMaxIs DEF PgWithin
  <2>3. sync'.ok => PgWithin(sync.max, seq)'
    BY <1>1, <2>1, <2>2 DEF PgWithin
  <2> QED
    BY <1>4, <2>1, <2>3 DEF IdsInv, PgBelow
<1>7. CASE SyncGet
  <2>1. /\ sync.at = "read" /\ sync'.at = "got" /\ sync'.got = seq /\ sync'.max = sync.max /\ sync'.ok = sync.ok
        /\ seq' = seq /\ phase' = phase
    BY <1>2, <1>7 DEF SyncGet, engineVars
  <2>2. \A i \in Ids : sync'.got[i] <= seq'[i]
    BY <1>2, <2>1
  <2>3. PgWithin(sync.max, seq)' <=> PgWithin(sync.max, seq)
    BY <1>1, <2>1 DEF PgWithin
  <2> QED
    BY <1>3, <1>4, <2>1, <2>2, <2>3 DEF IdsInv, PgBelow
<1>8. CASE SyncSet
  <2>1. /\ sync.at = "got" /\ phase = "up" /\ phase' = phase /\ sync'.at = "done" /\ sync'.ok = sync.ok
        /\ seq' = [i \in Ids |-> IF sync.got[i] < Raised(i) THEN Raised(i) ELSE seq[i]]
    BY <1>2, <1>8 DEF SyncSet
  <2>2. ASSUME NEW i \in Ids PROVE sync.max[i] <= seq'[i]
    <3>1. sync.max[i] \in Nat /\ sync.got[i] \in Nat /\ seq[i] \in Nat /\ sync.got[i] <= seq[i]
      BY <1>2, <2>1 DEF IdsInv, PgBelow
    <3>2. Raised(i) \in Nat /\ sync.max[i] <= Raised(i)
      BY <3>1, CushionAssumption DEF Raised
    <3>3. seq'[i] = IF sync.got[i] < Raised(i) THEN Raised(i) ELSE seq[i]
      BY <2>1
    <3> QED
      BY <3>1, <3>2, <3>3
  <2>3. sync.ok /\ ~SetBack' => PgWithin(seq', seq')
    <3> SUFFICES ASSUME sync.ok, ~SetBack' PROVE PgWithin(seq', seq')
      OBVIOUS
    <3>1. PgWithin(sync.max, seq)
      BY <1>3, <2>1 DEF IdsInv, PgBelow
    <3>2. sync.max \in [Ids -> Nat]
      BY <1>2
    <3> QED
      BY <1>2, <1>3, <2>2, <3>1, <3>2, WithinGrows
  <2>4. PgWithin(seq, seq)' <=> PgWithin(seq', seq')
    BY <1>1 DEF PgWithin
  <2> QED
    BY <1>4, <2>1, <2>3, <2>4 DEF IdsInv, PgBelow
<1>9. CASE startWorker
  <2>1. sync' = sync /\ phase = "down" /\ phase' = "worker" /\ seq' = seq /\ acct' = acct
    BY <1>9 DEF startWorker, engineVars, sinkVars
  <2>2. PgWithin(seq, seq)' <=> PgWithin(seq, seq)
    BY <1>1, <2>1 DEF PgWithin
  <2> QED
    BY <1>3, <1>4, <2>1, <2>2 DEF IdsInv, PgBelow
<1>10. CASE startPgSink
  <2>1. sync'.at = "start"
    BY <1>2, <1>10 DEF startPgSink, engineVars, sinkVars
  <2> QED
    BY <1>4, <2>1 DEF IdsInv, PgBelow
<1> QED
  BY <1>0, <1>6, <1>7, <1>8, <1>9, <1>10

LEMMA SinkIds ==
  ASSUME TypesOk, TypesOk', IdsInv, WriteNext \/ WriteFails \/ Crash \/ Flush
  PROVE  IdsInv'
<1>1. /\ seq \in [Ids -> Nat] /\ PgTypes(pg) /\ queue \in Seq(Writes)
      /\ sync \in [at : {"start", "read", "got", "done"}, max : [Ids -> Nat], got : [Ids -> Nat], ok : BOOLEAN]
      /\ DOMAIN pg.orders \subseteq Nat /\ DOMAIN pg.fills \subseteq Nat
  BY DEF TypesOk, RedisTypes, SinkTypes, PgTypes, Rows
<1>2. seq["oid"] \in Nat /\ seq["tid"] \in Nat
  BY <1>1 DEF Ids
<1>3. CASE WriteNext
  <2> DEFINE h == queue[1]
  <2>1. /\ h \in Writes /\ queue # <<>> /\ queue' = Tail(queue)
        /\ UNCHANGED <<phase, acct, seq, orders, fills, unsaid, sync, odd>>
        /\ DOMAIN pg'.orders \subseteq DOMAIN pg.orders \cup (IF h.kind = "order" THEN {h.key} ELSE {})
        /\ DOMAIN pg'.fills \subseteq DOMAIN pg.fills \cup (IF h.kind = "fill" THEN {h.key} ELSE {})
    <3>1. h \in Writes /\ queue # <<>> /\ queue' = Tail(queue)
          /\ UNCHANGED <<phase, acct, seq, orders, fills, unsaid, sync, odd>>
      BY <1>3, Ran
    <3>2. CASE References(h)
      <4>1. /\ pg'.orders = (IF h.kind = "order" THEN Upsert(pg.orders, h.key, h.status) ELSE pg.orders)
            /\ pg'.fills = (IF h.kind = "fill" THEN InsertOnce(pg.fills, h.key, h.oid) ELSE pg.fills)
        BY <1>3, <3>2, Ran
      <4> QED
        BY <3>1, <4>1 DEF Upsert, InsertOnce
    <3>3. CASE ~References(h)
      <4>1. pg' = pg
        BY <1>3, <3>3, Ran
      <4> QED
        BY <3>1, <4>1
    <3> QED
      BY <3>2, <3>3
  <2> HIDE DEF h
  <2>2. ToSet(queue') \subseteq ToSet(queue) /\ h \in ToSet(queue)
    BY <1>1, <2>1, ToSetTail DEF h
  <2>3. ~SetBack' => ~SetBack
    BY <2>1 DEF SetBack
  <2>4. LifeBelow'
    <3>1. seq["oid"] <= seq'["oid"] /\ seq["tid"] <= seq'["tid"]
      BY <1>2, <2>1
    <3> QED
      BY <2>1, <2>2, <2>3, <3>1, LifeStep DEF IdsInv
  <2>5. ~SetBack => Below(h, seq)
    BY <2>2 DEF IdsInv, LifeBelow
  <2>6. ~SetBack => /\ (PgWithin(sync.max, seq) => PgWithin(sync.max, seq)')
                    /\ (PgWithin(seq, seq) => PgWithin(seq, seq)')
    <3> SUFFICES ASSUME ~SetBack, NEW b, PgWithin(b, seq)
                 PROVE  /\ \A o \in DOMAIN pg'.orders : o <= b["oid"] \/ o <= seq["oid"]
                        /\ \A t \in DOMAIN pg'.fills : t <= b["tid"] \/ t <= seq["tid"]
      BY <2>1 DEF PgWithin
    <3> QED
      BY <2>1, <2>5 DEF Below, PgWithin
  <2> QED
    BY <2>1, <2>3, <2>4, <2>6 DEF IdsInv, PgBelow
<1>4. CASE WriteFails
  <2>1. /\ queue # <<>> /\ queue' = Tail(queue)
        /\ UNCHANGED <<phase, acct, seq, orders, fills, unsaid, pg, sync, odd>>
    BY <1>4 DEF WriteFails, engineVars
  <2>2. ToSet(queue') \subseteq ToSet(queue)
    BY <1>1, <2>1, ToSetTail
  <2>3. SetBack' <=> SetBack
    BY <2>1 DEF SetBack
  <2>4. LifeBelow'
    BY <2>1, <2>2, <2>3 DEF IdsInv, LifeBelow
  <2> QED
    BY <2>1, <2>3, <2>4 DEF IdsInv, PgBelow, PgWithin
<1>5. CASE Crash
  <2>1. /\ queue' = <<>> /\ unsaid' = {} /\ phase' = "down"
        /\ UNCHANGED <<acct, seq, orders, fills, pg, sync, odd>>
    BY <1>5 DEF Crash
  <2>2. ToSet(queue') = {}
    BY <2>1, EmptyQueue
  <2>3. SetBack' <=> SetBack
    BY <2>1 DEF SetBack
  <2>4. LifeBelow'
    BY <2>1, <2>2, <2>3 DEF IdsInv, LifeBelow
  <2>5. PgWithin(seq, seq)' <=> PgWithin(seq, seq)
    BY <2>1 DEF PgWithin
  <2> QED
    BY <2>1, <2>3, <2>4, <2>5 DEF IdsInv, PgBelow
<1>6. CASE Flush
  <2>1. /\ phase = "down" /\ acct' = FALSE /\ orders' = NoRows /\ fills' = NoRows
        /\ UNCHANGED <<phase, unsaid, queue, sync>>
    BY <1>6 DEF Flush
  <2>2. DOMAIN orders' = {} /\ DOMAIN fills' = {} /\ unsaid' = {} /\ queue' = <<>>
    BY <2>1, NoRowsAre DEF TypesOk, Calm
  <2>3. ToSet(queue') = {}
    BY <2>2, EmptyQueue
  <2> QED
    BY <2>1, <2>2, <2>3 DEF IdsInv, LifeBelow, PgBelow
<1> QED
  BY <1>3, <1>4, <1>5, <1>6

IdSafe == TypesOk /\ IdsInv

LEMMA IdsInit == Init => IdsInv
<1> SUFFICES ASSUME Init PROVE IdsInv
  OBVIOUS
<1>1. DOMAIN orders = {} /\ DOMAIN fills = {} /\ DOMAIN pg.orders = {} /\ DOMAIN pg.fills = {}
  BY NoRowsAre DEF Init, EmptyPg
<1>2. unsaid = {} /\ ToSet(queue) = {} /\ sync.at = "done"
  BY EmptyQueue DEF Init
<1> QED
  BY <1>1, <1>2 DEF IdsInv, LifeBelow, PgBelow, PgWithin

LEMMA IdsNext ==
  ASSUME IdSafe, [Next]_persistVars
  PROVE  IdSafe'
<1>0. TypesOk /\ TypesOk' /\ IdsInv
  BY TypesNext DEF IdSafe
<1>1. CASE Idle
  BY <1>0, <1>1 DEF Idle, IdSafe, IdsInv, LifeBelow, PgBelow, PgWithin, SetBack
<1>2. CASE EngineOrEvent
  BY <1>0, <1>2, EngineLife, EnginePgBelow DEF IdSafe, IdsInv
<1> QED
  BY <1>0, <1>1, <1>2, NextCases, SyncIds, SinkIds DEF IdSafe

\* When the counters have been raised past what Postgres answered and were never set back, no id is
\* issued that Postgres or Redis has a row of (FreshIds).
THEOREM IdsFresh == Spec => FreshIds
<1>1. Init => IdSafe
  BY TypesInit, IdsInit DEF IdSafe
<1>2. IdSafe /\ [Next]_persistVars => IdSafe'
  BY IdsNext
<1>3. IdSafe /\ [Next]_persistVars =>
        [sync.at = "done" /\ sync.ok /\ phase # "down" /\ ~SetBack
           => {x \in odd' \ odd : x[1] \in Ids} = {}]_persistVars
  <2> SUFFICES ASSUME IdSafe, Next, sync.at = "done", sync.ok, phase # "down", ~SetBack
               PROVE  {x \in odd' \ odd : x[1] \in Ids} = {}
    OBVIOUS
  <2>1. CASE EngineOrEvent
    BY <2>1, EngineFresh DEF IdSafe
  <2>2. CASE SyncSet
    BY <2>2 DEF SyncSet
  <2>3. CASE \/ WriteNext \/ WriteFails \/ SyncRead \/ SyncGet
             \/ Crash \/ Flush \/ startWorker \/ startPgSink
    <3>1. odd' \subseteq odd
      BY <2>3 DEF WriteNext, WriteFails, SyncRead, SyncGet, Crash, Flush, startWorker, startPgSink
    <3> QED
      BY <3>1
  <2>4. CASE Idle
    BY <2>4 DEF Idle
  <2> QED
    BY <2>1, <2>2, <2>3, <2>4, NextCases DEF Sync
<1> QED
  BY <1>1, <1>2, <1>3, PTL DEF Spec, FreshIds

-----------------------------------------------------------------------------
(* The engine's steps, by what they leave for the sink.                    *)

\* ws is queued, or emitted while nobody listens.
Adds(ws) ==
  \/ queue' = queue \o ws /\ lost' = lost
  \/ queue' = queue /\ lost' = lost \cup ToSet(ws)

\* A tid that is issued although it is in use.
TidUsed(t) == t \in DOMAIN fills \cup DOMAIN pg.fills => <<"tid", t>> \in odd'

Opened == UNCHANGED <<orders, fills, unsaid>> /\ Adds(<<userRow, Write("record", 0)>>) /\ ~acct
          /\ queue' = queue \o <<userRow, Write("record", 0)>>

Saved(n) ==
  /\ n \in Nat /\ orders' = Upsert(orders, n, "open") /\ unsaid' = unsaid \cup {orderRow(n, "open")}
  /\ n \in DOMAIN orders => <<"order", n>> \in odd'
  /\ UNCHANGED <<fills, queue, lost>>

Cancelled(o) ==
  /\ o \in DOMAIN orders /\ orders' = [orders EXCEPT ![o] = "cancelled"]
  /\ unsaid' = unsaid \cup {orderRow(o, "cancelled")}
  /\ orderRow(o, "open") \in unsaid \/ orders[o] = "filled" => <<"order", o>> \in odd'
  /\ UNCHANGED <<fills, queue, lost>>

Filled(o, t) ==
  /\ o \in DOMAIN orders /\ orders' = [orders EXCEPT ![o] = "filled"]
  /\ orders[o] # "open" => <<"order", o>> \in odd'
  /\ unsaid' = (unsaid \ {orderRow(o, "open")}) \cup {fillRow(t, o)}
  /\ t \in Nat /\ fills' = Upsert(fills, t, o) /\ TidUsed(t)
  /\ UNCHANGED <<queue, lost>>

\* A reset overwrites orders and tells nobody.
Reset ==
  /\ DOMAIN orders' = DOMAIN orders
  /\ \A o \in DOMAIN orders : orders'[o] = orders[o] \/ <<"order", o>> \in odd'
  /\ queue' = queue \o <<userRow>> /\ UNCHANGED <<fills, unsaid, lost>>

Said(w) ==
  /\ w \in unsaid /\ unsaid' = unsaid \ {w} /\ Adds(Says(w))
  /\ UNCHANGED <<orders, fills>>

Liquidated(o, t, ws) ==
  /\ o \in Nat /\ t \in Nat /\ fills' = Upsert(fills, t, o) /\ TidUsed(t)
  /\ o \in DOMAIN orders => <<"order", o>> \in odd'
  /\ ws \in Seq(Writes) /\ Len(ws) = 3 /\ ws[1] = orderRow(o, "filled")
  /\ ws[2] = fillRow(t, o) /\ ws[3] = Write("ledger", o) /\ Adds(ws)
  /\ UNCHANGED <<orders, unsaid>>

IsRecord(w, n) ==
  \/ w.kind = "record" /\ w.key = n
  \/ w.kind = "twap" /\ w.oid = n

Recorded(w) ==
  /\ w \in Writes /\ IsRecord(w, counts.records + 1)
  /\ w.kind = "twap" => /\ w.said = {t \in DOMAIN fills : fillRow(t, fills[t]) \notin unsaid}
                        /\ w.key = twaps + 1 /\ twaps' = twaps + 1
                        /\ w.key \in DOMAIN pg.twap => <<"twap", w.oid>> \in odd'
  /\ queue' = queue \o <<w>> /\ UNCHANGED <<orders, fills, unsaid, lost>>
  /\ counts'.records = counts.records + 1

LEMMA EngineCases ==
  ASSUME TypesOk, EngineOrEvent
  PROVE  /\ UNCHANGED <<pg, phase>> /\ odd \subseteq odd' /\ twaps' \in {twaps, twaps + 1}
         /\ \/ \E w : Recorded(w)
            \/ /\ counts'.records = counts.records
               /\ \/ Opened
                  \/ \E n : Saved(n)
                  \/ \E o : Cancelled(o)
                  \/ \E o, t : Filled(o, t)
                  \/ Reset
                  \/ \E w : Said(w)
                  \/ \E o, t, ws : Liquidated(o, t, ws)
<1>0. /\ seq \in [Ids -> Nat] /\ queue \in Seq(Writes) /\ counts \in Counts
      /\ DOMAIN orders \subseteq Nat /\ DOMAIN fills \subseteq Nat /\ unsaid \subseteq Writes
  BY DEF TypesOk, RedisTypes, SinkTypes, Counts
<1>1. UNCHANGED <<pg, phase>> /\ odd \subseteq odd'
  BY EngineGrows
<1>2. twaps' \in {twaps, twaps + 1}
  <2>1. record \/ recordTwapHistory => twaps' \in {twaps, twaps + 1}
    BY RecordQueues
  <2>2. ensureAccount \/ saveOrder \/ resetAccount \/ settleLiquidation => twaps' = twaps
    BY DEF ensureAccount, saveOrder, resetAccount, settleLiquidation
  <2>3. \A oid : cancelOrders(oid) \/ executeFill(oid) => twaps' = twaps
    BY DEF cancelOrders, executeFill
  <2>4. \A w : Emit(w) => twaps' = twaps
    BY DEF Emit
  <2> QED
    BY <2>1, <2>2, <2>3, <2>4 DEF EngineOrEvent
<1>3. \A ws : emitted(ws) => Adds(ws)
  BY DEF emitted, enqueueWrite, Adds
<1>4. ASSUME NEW ids, NEW found, Issue(ids, found)
      PROVE  /\ seq["oid"] + 1 \in Nat /\ seq["tid"] + 1 \in Nat /\ seq.oid = seq["oid"] /\ seq.tid = seq["tid"]
             /\ "tid" \in ids => TidUsed(seq["tid"] + 1)
             /\ "oid" \in ids => (seq["oid"] + 1 \in DOMAIN orders => <<"order", seq["oid"] + 1>> \in odd')
             /\ found \subseteq odd'
  <2>1. seq["oid"] \in Nat /\ seq["tid"] \in Nat /\ seq.oid = seq["oid"] /\ seq.tid = seq["tid"]
    BY <1>0, <1>4, Issued
  <2>2. odd' = odd \cup {<<i, seq[i] + 1>> : i \in {j \in ids : seq[j] + 1 \in Held(j)}}
                 \cup {<<"order", o>> : o \in {n \in DOMAIN orders : "oid" \in ids /\ n = seq.oid + 1}}
                 \cup found
    BY <1>4 DEF Issue
  <2>3. Held("tid") = DOMAIN pg.fills \cup DOMAIN fills
    BY DEF Held
  <2>4. "tid" \in ids => TidUsed(seq["tid"] + 1)
    BY <2>2, <2>3 DEF TidUsed
  <2>5. "oid" \in ids => (seq["oid"] + 1 \in DOMAIN orders => <<"order", seq["oid"] + 1>> \in odd')
    BY <2>1, <2>2
  <2>6. found \subseteq odd'
    BY <2>2
  <2> QED
    BY <2>1, <2>4, <2>5, <2>6
<1>5. CASE ensureAccount
  <2>1. Opened /\ UNCHANGED counts
    BY <1>5 DEF ensureAccount, enqueueWrite, Adds, Opened
  <2> QED
    BY <1>1, <1>2, <2>1
<1>6. CASE saveOrder
  <2>1. Issue({"oid"}, {}) /\ orders' = Upsert(orders, seq.oid + 1, "open")
        /\ unsaid' = unsaid \cup {orderRow(seq.oid + 1, "open")} /\ UNCHANGED <<fills, queue, lost>>
    BY <1>6 DEF saveOrder
  <2>2. Saved(seq["oid"] + 1)
    BY <1>4, <2>1 DEF Saved
  <2>3. counts'.records = counts.records
    BY <1>0, <1>6, CountsStep
  <2> QED
    BY <1>1, <1>2, <2>2, <2>3
<1>7. ASSUME NEW oid \in DOMAIN orders, cancelOrders(oid)
      PROVE  Cancelled(oid) /\ UNCHANGED counts
  BY <1>7 DEF cancelOrders, Cancelled, sinkVars
<1>8. ASSUME NEW oid \in DOMAIN orders, executeFill(oid)
      PROVE  Filled(oid, seq["tid"] + 1) /\ UNCHANGED counts
  <2> DEFINE found == IF orders[oid] = "open" THEN {} ELSE {<<"order", oid>>}
  <2>1. /\ Issue({"tid"}, found) /\ fills' = Upsert(fills, seq.tid + 1, oid)
        /\ unsaid' = (unsaid \ {orderRow(oid, "open")}) \cup {fillRow(seq.tid + 1, oid)}
        /\ orders' = [orders EXCEPT ![oid] = "filled"] /\ UNCHANGED <<queue, lost, counts>>
    BY <1>8 DEF executeFill, sinkVars
  <2>2. orders[oid] # "open" => <<"order", oid>> \in found
    OBVIOUS
  <2> HIDE DEF found
  <2>3. /\ seq["tid"] + 1 \in Nat /\ seq.tid = seq["tid"] /\ TidUsed(seq["tid"] + 1)
        /\ found \subseteq odd'
    BY <1>4, <2>1
  <2> QED
    BY <2>1, <2>2, <2>3 DEF Filled
<1>9. ASSUME NEW w \in unsaid, Emit(w)
      PROVE  Said(w) /\ UNCHANGED counts
  BY <1>3, <1>9 DEF Emit, Said
<1>10. CASE settleLiquidation
  <2> DEFINE t == seq["tid"] + 1
             o == seq["oid"] + 1
             f == fillRow(t, o)
             a == orderRow(o, "filled")
             g == Write("ledger", o)
             ws == Says(f) \o <<g>>
  <2>1. /\ Issue({"oid", "tid"}, {}) /\ UNCHANGED <<orders, unsaid>>
        /\ fills' = Upsert(fills, seq.tid + 1, seq.oid + 1)
        /\ emitted(Says(fillRow(seq.tid + 1, seq.oid + 1)) \o <<Write("ledger", seq.oid + 1)>>)
    BY <1>10 DEF settleLiquidation
  <2>2. /\ t \in Nat /\ o \in Nat /\ fills' = Upsert(fills, t, o) /\ emitted(ws) /\ TidUsed(t)
        /\ (o \in DOMAIN orders => <<"order", o>> \in odd')
    BY <1>4, <2>1
  <2>3. f \in Writes /\ a \in Writes /\ g \in Writes /\ f.kind = "fill" /\ f.oid = o
    BY <2>2, WriteKinds, WriteFields DEF Statuses
  <2>4. Says(f) = <<orderRow(f.oid, "filled"), f>> /\ Says(f) \in Seq(Writes)
    BY <2>3, SaysWrites
  <2>5. Says(f) = <<a, f>>
    BY <2>3, <2>4
  <2> HIDE DEF f, a, g, t, o
  <2>6. ws \in Seq(Writes) /\ Len(ws) = 3 /\ ws[1] = a /\ ws[2] = f /\ ws[3] = g
    <3>1. <<g>> \in Seq(Writes) /\ Len(<<g>>) = 1 /\ <<g>>[1] = g
      BY <2>3
    <3>2. Len(Says(f)) = 2 /\ Says(f)[1] = a /\ Says(f)[2] = f
      BY <2>5
    <3>3. /\ ws \in Seq(Writes) /\ Len(ws) = Len(Says(f)) + Len(<<g>>)
          /\ \A i \in 1 .. Len(Says(f)) : ws[i] = Says(f)[i]
          /\ \A i \in 1 .. Len(<<g>>) : ws[Len(Says(f)) + i] = <<g>>[i]
      <4> DEFINE s == Says(f)
                 r == <<g>>
      <4>1. s \in Seq(Writes) /\ r \in Seq(Writes) /\ ws = s \o r
        BY <2>4, <3>1
      <4> HIDE DEF s, r, ws
      <4> QED
        BY <4>1, QueueMore DEF s, r
    <3> HIDE DEF ws
    <3>4. 1 \in 1 .. Len(Says(f)) /\ 2 \in 1 .. Len(Says(f)) /\ 1 \in 1 .. Len(<<g>>)
      BY <3>1, <3>2
    <3>5. ws[1] = a /\ ws[2] = f /\ ws[2 + 1] = g
      BY <3>1, <3>2, <3>3, <3>4
    <3>6. Len(ws) = 2 + 1
      BY <3>1, <3>2, <3>3
    <3>7. 2 + 1 = 3
      OBVIOUS
    <3>8. ws[3] = g /\ Len(ws) = 3
      BY <3>5, <3>6, <3>7
    <3> QED
      BY <3>3, <3>5, <3>8
  <2>7. Adds(ws)
    BY <1>3, <2>2
  <2> HIDE DEF ws
  <2>8. Liquidated(o, t, ws)
    BY <2>1, <2>2, <2>6, <2>7 DEF Liquidated, a, f, g
  <2>9. counts'.records = counts.records
    BY <1>0, <1>10, CountsStep
  <2> QED
    BY <1>1, <1>2, <2>8, <2>9
<1>11. CASE record \/ recordTwapHistory
  <2> DEFINE k == counts.records + 1
             S == {t \in DOMAIN fills : fillRow(t, fills[t]) \notin unsaid}
             m == twaps + 1
             a == Write("record", k)
             b == twapRow(m, k, S)
  <2>1. /\ \/ queue' = queue \o <<a>>
           \/ /\ queue' = queue \o <<b>> /\ twaps' = m
              /\ odd' = IF m \in DOMAIN pg.twap THEN odd \cup {<<"twap", k>>} ELSE odd
        /\ UNCHANGED <<orders, fills, unsaid, lost>>
    BY <1>11, RecordQueues
  <2>2. k \in Nat /\ m \in Nat /\ S \in SUBSET Nat
    BY <1>0 DEF TypesOk, RedisTypes, Counts
  <2>3. counts'.records = k
    BY <1>0, <1>11, CountsStep
  <2>4. /\ a \in Writes /\ a.kind = "record" /\ a.key = k
        /\ b \in Writes /\ b.kind = "twap" /\ b.key = m /\ b.oid = k /\ b.said = S
    <3> HIDE DEF k, m, S
    <3> QED
      BY <2>2, WriteKinds, WriteFields
  <2>5. IsRecord(a, k) /\ IsRecord(b, k)
    <3> HIDE DEF a, b, k, m, S
    <3> QED
      BY <2>4 DEF IsRecord
  <2>6. k = counts.records + 1 /\ m = twaps + 1
    OBVIOUS
  <2> HIDE DEF a, b, k, m
  <2>7. queue' = queue \o <<a>> => Recorded(a)
    BY <2>1, <2>3, <2>4, <2>5, <2>6 DEF Recorded
  <2>8. queue' = queue \o <<b>> /\ twaps' = m
          /\ odd' = (IF m \in DOMAIN pg.twap THEN odd \cup {<<"twap", k>>} ELSE odd) => Recorded(b)
    BY <2>1, <2>3, <2>4, <2>5, <2>6 DEF Recorded
  <2> QED
    BY <1>1, <1>2, <2>1, <2>7, <2>8
<1>14. CASE resetAccount
  <2>1. Reset
    BY <1>14 DEF resetAccount, enqueueWrite, Reset
  <2>2. counts'.records = counts.records
    BY <1>0, <1>14, CountsStep
  <2> QED
    BY <1>1, <1>2, <2>1, <2>2
<1>12. CASE \E oid \in DOMAIN orders : cancelOrders(oid) \/ executeFill(oid)
  BY <1>1, <1>2, <1>7, <1>8, <1>12
<1>13. CASE \E w \in unsaid : Emit(w)
  BY <1>1, <1>2, <1>9, <1>13
<1> QED
  BY <1>5, <1>6, <1>10, <1>11, <1>12, <1>13, <1>14 DEF EngineOrEvent

\* The queue after Adds: what was there stays where it was, what is new comes from ws, and a write
\* of ws is in the queue or lost.
LEMMA Added ==
  ASSUME queue \in Seq(Writes), NEW ws \in Seq(Writes), Adds(ws)
  PROVE  /\ Len(queue) \in Nat /\ Len(queue') \in Nat /\ Len(queue) <= Len(queue') /\ lost \subseteq lost'
         /\ \A i \in 1 .. Len(queue) : i \in 1 .. Len(queue') /\ queue'[i] = queue[i]
         /\ \A i \in 1 .. Len(queue') : ~(i <= Len(queue)) =>
              \E m \in 1 .. Len(ws) : queue'[i] = ws[m] /\ i = Len(queue) + m
         /\ \/ \A m \in 1 .. Len(ws) : ws[m] \in lost'
            \/ /\ Len(queue') = Len(queue) + Len(ws)
               /\ \A m \in 1 .. Len(ws) : Len(queue) + m \in 1 .. Len(queue') /\ queue'[Len(queue) + m] = ws[m]
<1>1. CASE queue' = queue \o ws /\ lost' = lost
  <2>1. /\ queue' \in Seq(Writes) /\ Len(queue) \in Nat /\ Len(ws) \in Nat /\ Len(queue') = Len(queue) + Len(ws)
        /\ \A i \in 1 .. Len(queue) : queue'[i] = queue[i]
        /\ \A i \in 1 .. Len(ws) : queue'[Len(queue) + i] = ws[i]
    BY <1>1, QueueMore
  <2>2. ASSUME NEW i \in 1 .. Len(queue'), ~(i <= Len(queue))
        PROVE  \E m \in 1 .. Len(ws) : queue'[i] = ws[m] /\ i = Len(queue) + m
    <3> DEFINE m == i - Len(queue)
    <3>1. m \in 1 .. Len(ws) /\ i = Len(queue) + m
      BY <2>1, <2>2
    <3> HIDE DEF m
    <3> QED
      BY <2>1, <3>1
  <2>3. \A m \in 1 .. Len(ws) : Len(queue) + m \in 1 .. Len(queue')
    BY <2>1
  <2>4. \A i \in 1 .. Len(queue) : i \in 1 .. Len(queue')
    BY <2>1
  <2>5. Len(queue') \in Nat /\ Len(queue) <= Len(queue')
    BY <2>1
  <2> QED
    BY <1>1, <2>1, <2>2, <2>3, <2>4, <2>5
<1>2. CASE queue' = queue /\ lost' = lost \cup ToSet(ws)
  <2>1. Len(queue) \in Nat /\ Len(queue') = Len(queue)
    BY <1>2
  <2>2. \A m \in 1 .. Len(ws) : ws[m] \in lost'
    BY <1>2, QueueMembers
  <2>3. \A i \in 1 .. Len(queue') : i <= Len(queue)
    BY <2>1
  <2>4. Len(queue) <= Len(queue')
    BY <2>1
  <2> QED
    BY <1>2, <2>1, <2>2, <2>3, <2>4
<1> QED
  BY <1>1, <1>2 DEF Adds

-----------------------------------------------------------------------------
(* The sums of ended TWAPs.                                                *)

OddTid(t) == <<"tid", t>> \in odd
IsFill(w, t) == w.kind = "fill" /\ w.key = t

\* A fill whose event is still to come is the one Redis has, unless its id was in use.
UnsaidAgree == \A w \in unsaid : w.kind = "fill" => w.key \in DOMAIN fills /\ (OddTid(w.key) \/ fills[w.key] = w.oid)

\* Nothing still to be said, and no write of the queue past p, stores the fill t.
Past(t, p) ==
  /\ t \in DOMAIN fills
  /\ \A w \in unsaid : IsFill(w, t) => OddTid(t)
  /\ \A i \in 1 .. Len(queue) : i > p /\ IsFill(queue[i], t) => OddTid(t)

TwapQueued == \A j \in 1 .. Len(queue) : queue[j].kind = "twap" => \A t \in queue[j].said : Past(t, j)
TwapStored ==
  \A k \in DOMAIN pg.twap : \A t \in pg.twap[k].said :
    Past(t, 0) /\ (t \in DOMAIN pg.fills => t \in pg.twap[k].found \/ OddTid(t))

TwapInv == UnsaidAgree /\ TwapQueued /\ TwapStored

\* What an engine's step does to a fill that is past: every fill it says or queues was to be said,
\* or has an id that was in use if Redis had it.
FillsKept ==
  /\ odd \subseteq odd' /\ DOMAIN fills \subseteq DOMAIN fills'
  /\ \A w \in unsaid' : w.kind = "fill" => w \in unsaid \/ (w.key \in DOMAIN fills => OddTid(w.key)')
  /\ Len(queue) \in Nat /\ Len(queue') \in Nat /\ Len(queue) <= Len(queue')
  /\ \A i \in 1 .. Len(queue) : i \in 1 .. Len(queue') /\ queue'[i] = queue[i]
  /\ \A i \in 1 .. Len(queue') : ~(i <= Len(queue)) /\ queue'[i].kind = "fill" =>
       queue'[i] \in unsaid \/ (queue'[i].key \in DOMAIN fills => <<"tid", queue'[i].key>> \in odd')
  /\ \A i \in 1 .. Len(queue') : ~(i <= Len(queue)) /\ queue'[i].kind = "twap" =>
       i = Len(queue') /\ i = Len(queue) + 1 /\ Recorded(queue'[i])
  /\ UnsaidAgree => UnsaidAgree'

LEMMA FillsUpserted ==
  ASSUME NEW t, NEW o, fills' = Upsert(fills, t, o)
  PROVE  /\ DOMAIN fills' = DOMAIN fills \cup {t} /\ fills'[t] = o
         /\ \A x \in DOMAIN fills : x # t => fills'[x] = fills[x]
  BY DEF Upsert

LEMMA EngineFills ==
  ASSUME TypesOk, EngineOrEvent
  PROVE  FillsKept
<1>0. /\ queue \in Seq(Writes) /\ unsaid \subseteq Writes /\ odd \subseteq odd' /\ Len(queue) \in Nat
  BY EngineCases DEF TypesOk, RedisTypes, SinkTypes
<1>1. ASSUME NEW t \in Nat, NEW o, fills' = Upsert(fills, t, o), TidUsed(t), UnsaidAgree,
             unsaid' \subseteq unsaid \cup {fillRow(t, o)}
      PROVE  UnsaidAgree'
  <2> SUFFICES ASSUME NEW w \in unsaid', w.kind = "fill"
               PROVE  w.key \in DOMAIN fills' /\ (OddTid(w.key)' \/ fills'[w.key] = w.oid)
    BY DEF UnsaidAgree
  <2>1. fillRow(t, o).key = t /\ fillRow(t, o).oid = o
    BY WriteFields
  <2>2. DOMAIN fills' = DOMAIN fills \cup {t} /\ fills'[t] = o /\ \A x \in DOMAIN fills : x # t => fills'[x] = fills[x]
    BY <1>1, FillsUpserted
  <2>3. CASE w = fillRow(t, o)
    BY <2>1, <2>2, <2>3
  <2>4. CASE w \in unsaid
    <3>1. w.key \in DOMAIN fills /\ (OddTid(w.key) \/ fills[w.key] = w.oid)
      BY <1>1, <2>4 DEF UnsaidAgree
    <3>2. OddTid(w.key) => OddTid(w.key)'
      BY <1>0 DEF OddTid
    <3>3. w.key = t => OddTid(w.key)'
      BY <1>1, <3>1 DEF TidUsed, OddTid
    <3> QED
      BY <2>2, <3>1, <3>2, <3>3
  <2> QED
    BY <1>1, <2>3, <2>4
<1>3. ASSUME UNCHANGED queue
      PROVE  /\ Len(queue') \in Nat /\ Len(queue) <= Len(queue')
             /\ \A i \in 1 .. Len(queue) : i \in 1 .. Len(queue') /\ queue'[i] = queue[i]
             /\ \A i \in 1 .. Len(queue') : i <= Len(queue)
  BY <1>0, <1>3
<1>4. ASSUME NEW w, Recorded(w) PROVE FillsKept
  <2>1. /\ w \in Writes /\ queue' = queue \o <<w>> /\ UNCHANGED <<fills, unsaid, lost>>
        /\ w.kind \in {"record", "twap"}
    BY <1>4 DEF Recorded, IsRecord
  <2>2. <<w>> \in Seq(Writes) /\ Len(<<w>>) = 1 /\ <<w>>[1] = w
    BY <2>1
  <2>3. Adds(<<w>>)
    BY <2>1 DEF Adds
  <2>4. /\ Len(queue') \in Nat /\ Len(queue) <= Len(queue')
        /\ \A i \in 1 .. Len(queue) : i \in 1 .. Len(queue') /\ queue'[i] = queue[i]
        /\ \A i \in 1 .. Len(queue') : ~(i <= Len(queue)) =>
             \E m \in 1 .. Len(<<w>>) : queue'[i] = <<w>>[m] /\ i = Len(queue) + m
    BY <1>0, <2>2, <2>3, Added
  <2>5. Len(queue') = Len(queue) + 1
    BY <1>0, <2>1
  <2>6. \A i \in 1 .. Len(queue') : ~(i <= Len(queue)) =>
          queue'[i] = w /\ i = Len(queue') /\ i = Len(queue) + 1
    BY <1>0, <2>2, <2>4, <2>5
  <2>7. UnsaidAgree => UnsaidAgree'
    BY <1>0, <2>1 DEF UnsaidAgree, OddTid
  <2> QED
    BY <1>0, <1>4, <2>1, <2>4, <2>6, <2>7 DEF FillsKept
<1>11. CASE Reset
  <2> DEFINE a == userRow
  <2>1. a \in Writes /\ a.kind = "user"
    BY WriteKinds, WriteFields
  <2>2. queue' = queue \o <<a>> /\ UNCHANGED <<fills, unsaid>>
    BY <1>11 DEF Reset
  <2> HIDE DEF a
  <2>3. /\ Len(queue') \in Nat /\ Len(queue) <= Len(queue')
        /\ \A i \in 1 .. Len(queue) : i \in 1 .. Len(queue') /\ queue'[i] = queue[i]
        /\ \A i \in 1 .. Len(queue') : ~(i <= Len(queue)) => queue'[i] = a
    BY <1>0, <2>1, <2>2
  <2>4. UnsaidAgree => UnsaidAgree'
    BY <1>0, <2>2 DEF UnsaidAgree, OddTid
  <2> QED
    BY <1>0, <2>1, <2>2, <2>3, <2>4 DEF FillsKept
<1>5. CASE Opened
  <2> DEFINE a == userRow
             b == Write("record", 0)
  <2>1. a \in Writes /\ b \in Writes /\ a.kind = "user" /\ b.kind = "record"
    BY WriteKinds, WriteFields
  <2>2. Adds(<<a, b>>) /\ UNCHANGED <<fills, unsaid>>
    BY <1>5 DEF Opened
  <2> HIDE DEF a, b
  <2>3. <<a, b>> \in Seq(Writes) /\ Len(<<a, b>>) = 2 /\ <<a, b>>[1] = a /\ <<a, b>>[2] = b
    BY <2>1
  <2>4. /\ Len(queue') \in Nat /\ Len(queue) <= Len(queue')
        /\ \A i \in 1 .. Len(queue) : i \in 1 .. Len(queue') /\ queue'[i] = queue[i]
        /\ \A i \in 1 .. Len(queue') : ~(i <= Len(queue)) =>
             \E m \in 1 .. Len(<<a, b>>) : queue'[i] = <<a, b>>[m] /\ i = Len(queue) + m
    BY <1>0, <2>2, <2>3, Added
  <2>5. \A m \in 1 .. Len(<<a, b>>) : <<a, b>>[m] = a \/ <<a, b>>[m] = b
    BY <2>3
  <2>6. \A i \in 1 .. Len(queue') : ~(i <= Len(queue)) => queue'[i].kind \in {"user", "record"}
    BY <2>1, <2>4, <2>5
  <2>7. UnsaidAgree => UnsaidAgree'
    BY <1>0, <2>2 DEF UnsaidAgree, OddTid
  <2> QED
    BY <1>0, <2>2, <2>4, <2>6, <2>7 DEF FillsKept
<1>6. ASSUME NEW n, Saved(n) PROVE FillsKept
  <2>1. n \in Nat /\ unsaid' = unsaid \cup {orderRow(n, "open")} /\ UNCHANGED <<fills, queue, lost>>
    BY <1>6 DEF Saved
  <2>2. orderRow(n, "open").kind = "order"
    BY WriteFields
  <2>3. UnsaidAgree => UnsaidAgree'
    BY <1>0, <2>1, <2>2 DEF UnsaidAgree, OddTid
  <2> QED
    BY <1>0, <1>3, <2>1, <2>2, <2>3 DEF FillsKept
<1>7. ASSUME NEW o, Cancelled(o) PROVE FillsKept
  <2>1. unsaid' = unsaid \cup {orderRow(o, "cancelled")} /\ UNCHANGED <<fills, queue, lost>>
    BY <1>7 DEF Cancelled
  <2>2. orderRow(o, "cancelled").kind = "order"
    BY WriteFields
  <2>3. UnsaidAgree => UnsaidAgree'
    BY <1>0, <2>1, <2>2 DEF UnsaidAgree, OddTid
  <2> QED
    BY <1>0, <1>3, <2>1, <2>2, <2>3 DEF FillsKept
<1>8. ASSUME NEW o, NEW t, Filled(o, t) PROVE FillsKept
  <2>1. /\ t \in Nat /\ fills' = Upsert(fills, t, o) /\ TidUsed(t)
        /\ unsaid' \subseteq unsaid \cup {fillRow(t, o)} /\ UNCHANGED queue
    BY <1>8 DEF Filled
  <2>2. fillRow(t, o).key = t /\ DOMAIN fills' = DOMAIN fills \cup {t}
    <3>1. DOMAIN fills' = DOMAIN fills \cup {t}
      BY <2>1, FillsUpserted
    <3> QED
      BY <3>1, WriteFields
  <2>3. t \in DOMAIN fills => OddTid(t)'
    BY <2>1 DEF TidUsed, OddTid
  <2>4. UnsaidAgree => UnsaidAgree'
    BY <1>1, <2>1
  <2> QED
    BY <1>0, <1>3, <2>1, <2>2, <2>3, <2>4 DEF FillsKept
<1>9. ASSUME NEW w, Said(w) PROVE FillsKept
  <2> DEFINE a == orderRow(w.oid, "filled")
             ws == Says(w)
  <2>1. w \in unsaid /\ w \in Writes /\ unsaid' = unsaid \ {w} /\ Adds(ws) /\ UNCHANGED fills
    BY <1>0, <1>9 DEF Said
  <2>2. /\ ws \in Seq(Writes)
        /\ w.kind = "fill" => ws = <<a, w>>
        /\ w.kind # "fill" => ws = <<w>>
    BY <2>1, SaysWrites
  <2>3. a.kind = "order" /\ w.kind \in {"order", "fill"}
    BY <2>1, WriteFields DEF TypesOk, RedisTypes
  <2> HIDE DEF a, ws
  <2>4. \A m \in 1 .. Len(ws) : ws[m] = w \/ ws[m] = a
    BY <2>2
  <2>5. /\ Len(queue') \in Nat /\ Len(queue) <= Len(queue')
        /\ \A i \in 1 .. Len(queue) : i \in 1 .. Len(queue') /\ queue'[i] = queue[i]
        /\ \A i \in 1 .. Len(queue') : ~(i <= Len(queue)) =>
             \E m \in 1 .. Len(ws) : queue'[i] = ws[m] /\ i = Len(queue) + m
    BY <1>0, <2>1, <2>2, Added
  <2>6. \A i \in 1 .. Len(queue') : ~(i <= Len(queue)) => queue'[i] = w \/ queue'[i] = a
    BY <2>4, <2>5
  <2>7. UnsaidAgree => UnsaidAgree'
    BY <1>0, <2>1 DEF UnsaidAgree, OddTid
  <2> QED
    BY <1>0, <2>1, <2>3, <2>5, <2>6, <2>7 DEF FillsKept
<1>10. ASSUME NEW o, NEW t, NEW ws, Liquidated(o, t, ws) PROVE FillsKept
  <2> DEFINE a == orderRow(o, "filled")
             f == fillRow(t, o)
             g == Write("ledger", o)
  <2>1. /\ t \in Nat /\ fills' = Upsert(fills, t, o) /\ TidUsed(t) /\ UNCHANGED unsaid
        /\ ws \in Seq(Writes) /\ Len(ws) = 3 /\ ws[1] = a /\ ws[2] = f /\ ws[3] = g /\ Adds(ws)
    BY <1>10 DEF Liquidated
  <2>2. f.key = t /\ DOMAIN fills' = DOMAIN fills \cup {t} /\ a.kind = "order" /\ g.kind = "ledger"
    <3>1. DOMAIN fills' = DOMAIN fills \cup {t}
      BY <2>1, FillsUpserted
    <3> QED
      BY <3>1, WriteFields
  <2> HIDE DEF a, f, g
  <2>3. t \in DOMAIN fills => OddTid(t)'
    BY <2>1 DEF TidUsed, OddTid
  <2>4. UnsaidAgree => UnsaidAgree'
    BY <1>1, <2>1
  <2>5. \A m \in 1 .. Len(ws) : ws[m] = a \/ ws[m] = f \/ ws[m] = g
    BY <2>1
  <2>6. /\ Len(queue') \in Nat /\ Len(queue) <= Len(queue')
        /\ \A i \in 1 .. Len(queue) : i \in 1 .. Len(queue') /\ queue'[i] = queue[i]
        /\ \A i \in 1 .. Len(queue') : ~(i <= Len(queue)) =>
             \E m \in 1 .. Len(ws) : queue'[i] = ws[m] /\ i = Len(queue) + m
    BY <1>0, <2>1, Added
  <2>7. \A i \in 1 .. Len(queue') : ~(i <= Len(queue)) => queue'[i] = a \/ queue'[i] = f \/ queue'[i] = g
    BY <2>5, <2>6
  <2>8. f.kind = "fill"
    BY WriteFields DEF f
  <2>9. \A i \in 1 .. Len(queue') : ~(i <= Len(queue)) =>
          /\ queue'[i].kind # "twap"
          /\ queue'[i].kind = "fill" => (queue'[i].key \in DOMAIN fills => <<"tid", queue'[i].key>> \in odd')
    <3> SUFFICES ASSUME NEW i \in 1 .. Len(queue'), ~(i <= Len(queue))
                 PROVE  /\ queue'[i].kind # "twap"
                        /\ queue'[i].kind = "fill" => (queue'[i].key \in DOMAIN fills => <<"tid", queue'[i].key>> \in odd')
      OBVIOUS
    <3>1. CASE queue'[i] = f
      <4>1. queue'[i].key = t /\ queue'[i].kind = "fill"
        BY <2>2, <2>8, <3>1
      <4> QED
        BY <2>3, <4>1 DEF OddTid
    <3>2. CASE queue'[i] = a \/ queue'[i] = g
      BY <2>2, <3>2
    <3> QED
      BY <2>7, <3>1, <3>2
  <2> QED
    BY <1>0, <2>1, <2>2, <2>4, <2>6, <2>9 DEF FillsKept
<1> QED
  BY <1>4, <1>5, <1>6, <1>7, <1>8, <1>9, <1>10, <1>11, EngineCases

LEMMA EngineTwap ==
  ASSUME TypesOk, TwapInv, EngineOrEvent
  PROVE  TwapInv'
<1>0. FillsKept /\ pg' = pg /\ unsaid \subseteq Writes
  BY EngineFills, EngineCases DEF TypesOk, RedisTypes
<1>1. UnsaidAgree'
  BY <1>0 DEF FillsKept, TwapInv
<1>2. \A t : OddTid(t) => OddTid(t)'
  BY <1>0 DEF FillsKept, OddTid
<1>3. ASSUME NEW t, NEW p \in Nat, p <= Len(queue), Past(t, p)
      PROVE  Past(t, p)'
  <2>1. t \in DOMAIN fills'
    BY <1>0, <1>3 DEF FillsKept, Past
  <2>2. ASSUME NEW w \in unsaid', IsFill(w, t) PROVE OddTid(t)'
    <3>1. w \in unsaid \/ OddTid(t)'
      BY <1>0, <1>3, <2>2 DEF FillsKept, IsFill, Past
    <3>2. w \in unsaid => OddTid(t)
      BY <1>3, <2>2 DEF Past
    <3> QED
      BY <1>2, <3>1, <3>2
  <2>3. ASSUME NEW i \in 1 .. Len(queue'), i > p, IsFill(queue'[i], t) PROVE OddTid(t)'
    <3>1. CASE i <= Len(queue)
      <4>1. i \in 1 .. Len(queue)
        BY <1>0, <2>3, <3>1 DEF FillsKept
      <4>2. queue'[i] = queue[i]
        BY <1>0, <4>1 DEF FillsKept
      <4>3. OddTid(t)
        BY <1>3, <2>3, <4>1, <4>2 DEF Past
      <4> QED
        BY <1>2, <4>3
    <3>2. CASE ~(i <= Len(queue))
      <4>1. queue'[i].kind = "fill" /\ queue'[i].key = t
        BY <2>3 DEF IsFill
      <4>2. queue'[i] \in unsaid \/ (t \in DOMAIN fills => <<"tid", t>> \in odd')
        BY <1>0, <3>2, <4>1 DEF FillsKept
      <4>3. queue'[i] \in unsaid => OddTid(t)
        BY <1>3, <2>3 DEF Past
      <4> QED
        BY <1>2, <1>3, <4>2, <4>3 DEF Past, OddTid
    <3> QED
      BY <3>1, <3>2
  <2> QED
    BY <2>1, <2>2, <2>3 DEF Past
<1>4. TwapQueued'
  <2> SUFFICES ASSUME NEW j \in 1 .. Len(queue'), queue'[j].kind = "twap", NEW t \in queue'[j].said
               PROVE  Past(t, j)'
    BY DEF TwapQueued
  <2>1. CASE j <= Len(queue)
    <3>1. j \in 1 .. Len(queue) /\ j \in Nat
      BY <1>0, <2>1 DEF FillsKept
    <3>2. queue'[j] = queue[j]
      BY <1>0, <3>1 DEF FillsKept
    <3>3. Past(t, j)
      BY <3>1, <3>2 DEF TwapInv, TwapQueued
    <3> QED
      BY <1>3, <2>1, <3>1, <3>3
  <2>2. CASE ~(j <= Len(queue))
    <3>1. j = Len(queue') /\ Recorded(queue'[j])
      BY <1>0, <2>2 DEF FillsKept
    <3>2. /\ t \in DOMAIN fills /\ fillRow(t, fills[t]) \notin unsaid
          /\ UNCHANGED <<fills, unsaid>>
      BY <3>1 DEF Recorded
    <3>3. ASSUME NEW x \in unsaid', IsFill(x, t) PROVE OddTid(t)'
      <4>1. x \in unsaid /\ x \in Writes /\ x.kind = "fill" /\ x.key = t
        BY <1>0, <3>2, <3>3 DEF IsFill
      <4>2. OddTid(t) \/ fills[t] = x.oid
        BY <4>1 DEF TwapInv, UnsaidAgree
      <4>3. x = fillRow(t, x.oid)
        BY <4>1, WriteIs
      <4>4. OddTid(t)
        BY <3>2, <4>1, <4>2, <4>3
      <4> QED
        BY <1>2, <4>4
    <3>4. \A i \in 1 .. Len(queue') : ~(i > j)
      BY <1>0, <3>1 DEF FillsKept
    <3> QED
      BY <3>2, <3>3, <3>4 DEF Past
  <2> QED
    BY <2>1, <2>2
<1>5. TwapStored'
  <2> SUFFICES ASSUME NEW k \in DOMAIN pg.twap, NEW t \in pg.twap[k].said
               PROVE  Past(t, 0)' /\ (t \in DOMAIN pg.fills => t \in pg.twap[k].found \/ OddTid(t)')
    BY <1>0 DEF TwapStored
  <2>1. Past(t, 0) /\ (t \in DOMAIN pg.fills => t \in pg.twap[k].found \/ OddTid(t))
    BY DEF TwapInv, TwapStored
  <2>2. 0 \in Nat /\ 0 <= Len(queue)
    BY <1>0 DEF FillsKept
  <2> QED
    BY <1>2, <1>3, <2>1, <2>2
<1> QED
  BY <1>1, <1>4, <1>5 DEF TwapInv

LEMMA TailPast ==
  ASSUME TypesOk, queue # <<>>, queue' = Tail(queue), UNCHANGED <<fills, unsaid, odd>>,
         NEW t, NEW p \in Nat, Past(t, p + 1) \/ Past(t, p)
  PROVE  Past(t, p)'
<1>1. /\ queue \in Seq(Writes) /\ Len(queue) \in Nat /\ Len(queue') = Len(queue) - 1
      /\ \A i \in 1 .. Len(queue') : queue'[i] = queue[i + 1]
  BY QueueTail DEF TypesOk, SinkTypes
<1>2. t \in DOMAIN fills' /\ \A w \in unsaid' : IsFill(w, t) => OddTid(t)'
  BY DEF Past, OddTid
<1>3. ASSUME NEW i \in 1 .. Len(queue'), i > p, IsFill(queue'[i], t) PROVE OddTid(t)'
  <2>1. i + 1 \in 1 .. Len(queue) /\ i + 1 > p + 1 /\ i + 1 > p /\ queue'[i] = queue[i + 1]
    BY <1>1, <1>3
  <2>2. OddTid(t)
    BY <1>3, <2>1 DEF Past
  <2> QED
    BY <2>2 DEF OddTid
<1> QED
  BY <1>2, <1>3 DEF Past

LEMMA SinkTwap ==
  ASSUME TypesOk, TwapInv, WriteNext \/ WriteFails
  PROVE  TwapInv'
<1>1. /\ queue # <<>> /\ queue' = Tail(queue) /\ UNCHANGED <<fills, unsaid, odd>>
  BY DEF WriteNext, WriteFails, engineVars
<1>2. /\ queue \in Seq(Writes) /\ Len(queue) \in Nat /\ Len(queue) >= 1 /\ Len(queue') = Len(queue) - 1
      /\ \A i \in 1 .. Len(queue') : queue'[i] = queue[i + 1]
  BY <1>1, QueueTail DEF TypesOk, SinkTypes
<1>3. UnsaidAgree'
  BY <1>1 DEF TwapInv, UnsaidAgree, OddTid
<1>4. TwapQueued'
  <2> SUFFICES ASSUME NEW j \in 1 .. Len(queue'), queue'[j].kind = "twap", NEW t \in queue'[j].said
               PROVE  Past(t, j)'
    BY DEF TwapQueued
  <2>1. j \in Nat /\ j + 1 \in 1 .. Len(queue) /\ queue'[j] = queue[j + 1]
    BY <1>2
  <2>2. Past(t, j + 1)
    BY <2>1 DEF TwapInv, TwapQueued
  <2> QED
    BY <1>1, <2>1, <2>2, TailPast
<1>5. \A t : Past(t, 0) \/ Past(t, 1) => Past(t, 0)'
  <2>1. 0 \in Nat /\ 0 + 1 = 1
    OBVIOUS
  <2> QED
    BY <1>1, <2>1, TailPast
<1>6. \A t : OddTid(t)' <=> OddTid(t)
  BY <1>1 DEF OddTid
<1>7. ASSUME pg' = pg PROVE TwapStored'
  BY <1>5, <1>6, <1>7 DEF TwapInv, TwapStored
<1>8. CASE WriteNext
  <2> DEFINE h == queue[1]
  <2>1. h \in Writes
    BY <1>8, Ran
  <2>2. 1 \in 1 .. Len(queue) /\ 1 > 0
    BY <1>2
  <2>3. CASE ~References(h)
    <3>1. pg' = pg
      BY <1>8, <2>3, Ran
    <3> QED
      BY <1>3, <1>4, <1>7, <3>1 DEF TwapInv
  <2>4. CASE References(h)
    <3>1. /\ pg'.fills = (IF h.kind = "fill" THEN InsertOnce(pg.fills, h.key, h.oid) ELSE pg.fills)
          /\ pg'.twap = (IF h.kind = "twap"
                THEN InsertOnce(pg.twap, h.key, [of |-> h.oid, said |-> h.said, found |-> DOMAIN pg.fills])
                ELSE pg.twap)
      BY <1>8, <2>4, Ran
    <3>2. CASE h.kind = "fill"
      <4>1. /\ pg'.twap = pg.twap /\ DOMAIN pg'.fills = DOMAIN pg.fills \cup {h.key}
        BY <3>1, <3>2 DEF InsertOnce, Upsert
      <4> SUFFICES ASSUME NEW k \in DOMAIN pg.twap, NEW t \in pg.twap[k].said
                   PROVE  Past(t, 0)' /\ (t \in DOMAIN pg'.fills => t \in pg.twap[k].found \/ OddTid(t)')
        BY <1>3, <1>4, <4>1 DEF TwapInv, TwapStored
      <4>2. Past(t, 0) /\ (t \in DOMAIN pg.fills => t \in pg.twap[k].found \/ OddTid(t))
        BY DEF TwapInv, TwapStored
      <4>3. t = h.key => OddTid(t)
        BY <2>2, <3>2, <4>2 DEF Past, IsFill
      <4> QED
        BY <1>5, <1>6, <4>1, <4>2, <4>3
    <3>3. CASE h.kind = "twap"
      <4> DEFINE row == [of |-> h.oid, said |-> h.said, found |-> DOMAIN pg.fills]
      <4>1. pg'.fills = pg.fills /\ pg'.twap = InsertOnce(pg.twap, h.key, row)
        BY <3>1, <3>3
      <4>2. row.said = h.said /\ row.found = DOMAIN pg.fills
        OBVIOUS
      <4> HIDE DEF row
      <4>3. /\ DOMAIN pg'.twap = DOMAIN pg.twap \cup {h.key}
            /\ \A k \in DOMAIN pg.twap : pg'.twap[k] = pg.twap[k]
            /\ h.key \notin DOMAIN pg.twap => pg'.twap[h.key] = row
        BY <4>1 DEF InsertOnce, Upsert
      <4> SUFFICES ASSUME NEW k \in DOMAIN pg'.twap, NEW t \in pg'.twap[k].said
                   PROVE  Past(t, 0)' /\ (t \in DOMAIN pg.fills => t \in pg'.twap[k].found \/ OddTid(t)')
        BY <1>3, <1>4, <4>1 DEF TwapInv, TwapStored
      <4>4. CASE k \in DOMAIN pg.twap
        <5>1. pg'.twap[k] = pg.twap[k]
          BY <4>3, <4>4
        <5>2. Past(t, 0) /\ (t \in DOMAIN pg.fills => t \in pg.twap[k].found \/ OddTid(t))
          BY <4>4, <5>1 DEF TwapInv, TwapStored
        <5> QED
          BY <1>5, <1>6, <5>1, <5>2
      <4>5. CASE k \notin DOMAIN pg.twap
        <5>1. pg'.twap[k] = row
          BY <4>3, <4>5
        <5>2. Past(t, 1)
          BY <2>2, <3>3, <4>2, <5>1 DEF TwapInv, TwapQueued
        <5> QED
          BY <1>5, <4>2, <5>1, <5>2
      <4> QED
        BY <4>4, <4>5
    <3>4. CASE h.kind \notin {"fill", "twap"}
      <4>1. pg'.twap = pg.twap /\ pg'.fills = pg.fills
        BY <3>1, <3>4
      <4> QED
        BY <1>3, <1>4, <1>5, <1>6, <4>1 DEF TwapInv, TwapStored
    <3> QED
      BY <3>2, <3>3, <3>4
  <2> QED
    BY <2>3, <2>4
<1>9. CASE WriteFails
  <2>1. pg' = pg
    BY <1>9 DEF WriteFails, engineVars
  <2> QED
    BY <1>3, <1>4, <1>7, <2>1 DEF TwapInv
<1> QED
  BY <1>8, <1>9

LEMMA StopTwap ==
  ASSUME TypesOk, TwapInv, Crash \/ Flush
  PROVE  TwapInv'
<1>1. queue' = <<>> /\ unsaid' = {}
  BY DEF Crash, Flush, TypesOk, Calm
<1>2. UnsaidAgree' /\ TwapQueued'
  BY <1>1, EmptyQueue DEF UnsaidAgree, TwapQueued
<1>3. CASE Crash
  <2>1. UNCHANGED <<fills, odd, pg>>
    BY <1>3 DEF Crash
  <2>2. \A t : Past(t, 0) => Past(t, 0)'
    BY <1>1, <2>1, EmptyQueue DEF Past
  <2> QED
    BY <1>2, <2>1, <2>2 DEF TwapInv, TwapStored, OddTid
<1>4. CASE Flush
  <2> DEFINE tw == [k \in DOMAIN pg.twap |-> [pg.twap[k] EXCEPT !.said = {}]]
  <2>1. pg' = [pg EXCEPT !.twap = tw]
    BY <1>4 DEF Flush
  <2>2. \A k \in DOMAIN tw : tw[k].said = {}
    BY DEF TypesOk, SinkTypes, PgTypes
  <2> HIDE DEF tw
  <2>3. pg'.twap = tw
    BY <2>1 DEF TypesOk, SinkTypes, PgTypes
  <2> QED
    BY <1>2, <2>2, <2>3 DEF TwapInv, TwapStored
<1> QED
  BY <1>3, <1>4

LEMMA QuietTwap ==
  ASSUME TwapInv, Quiet
  PROVE  TwapInv'
<1>1. UNCHANGED <<fills, unsaid, queue, pg>> /\ odd \subseteq odd'
  BY DEF Quiet
<1>2. \A t : OddTid(t) => OddTid(t)'
  BY <1>1 DEF OddTid
<1>3. \A t, p : Past(t, p) => Past(t, p)'
  BY <1>1, <1>2 DEF Past
<1>4. UnsaidAgree'
  BY <1>1, <1>2 DEF TwapInv, UnsaidAgree
<1>5. TwapQueued'
  BY <1>1, <1>3 DEF TwapInv, TwapQueued
<1>6. TwapStored'
  BY <1>1, <1>2, <1>3 DEF TwapInv, TwapStored
<1> QED
  BY <1>4, <1>5, <1>6 DEF TwapInv

LEMMA TwapInit == Init => TwapInv
<1> SUFFICES ASSUME Init PROVE TwapInv
  OBVIOUS
<1>1. unsaid = {} /\ Len(queue) = 0 /\ DOMAIN pg.twap = {}
  BY EmptyQueue, NoRowsAre DEF Init, EmptyPg
<1> QED
  BY <1>1 DEF TwapInv, UnsaidAgree, TwapQueued, TwapStored

\* The row of an ended TWAP counts every slice fill announced before it that Postgres ever gets.
THEOREM TwapSumsKept == Spec => []TwapRowSumsFills
<1>1. Init => TypesOk /\ TwapInv
  BY TypesInit, TwapInit
<1>2. TypesOk /\ TwapInv /\ [Next]_persistVars => TypesOk' /\ TwapInv'
  <2> SUFFICES ASSUME TypesOk, TwapInv, [Next]_persistVars PROVE TypesOk' /\ TwapInv'
    OBVIOUS
  <2>1. TypesOk'
    BY TypesNext
  <2>2. CASE EngineOrEvent
    BY <2>1, <2>2, EngineTwap
  <2>3. CASE Sync \/ Idle
    <3>1. Quiet
      BY <2>3, QuietSteps, IdleIsQuiet DEF Sync
    <3> QED
      BY <2>1, <3>1, QuietTwap
  <2>4. CASE WriteNext \/ WriteFails
    BY <2>1, <2>4, SinkTwap
  <2>5. CASE Crash \/ Flush
    BY <2>1, <2>5, StopTwap
  <2> QED
    BY <2>2, <2>3, <2>4, <2>5, NextCases
<1>3. TwapInv => TwapRowSumsFills
  BY DEF TwapInv, TwapStored, TwapRowSumsFills, OddTid
<1> QED
  BY <1>1, <1>2, <1>3, PTL DEF Spec

-----------------------------------------------------------------------------
(* What is lost.                                                           *)

\* The user's row is stored, lost, or the first write waiting.
UserFirst == acct => pg.user \/ userRow \in lost \/ (queue # <<>> /\ queue[1] = userRow)

IsOrder(w, o) == w.kind = "order" /\ w.key = o
OddOrder(o) == <<"order", o>> \in odd

\* The first write has run or failed: Popped(h) says what became of it.
Popped(h) ==
  /\ h = queue[1] /\ h \in Writes /\ queue # <<>> /\ queue' = Tail(queue)
  /\ UNCHANGED <<acct, twaps, orders, fills, unsaid, odd>> /\ lost \subseteq lost'
  /\ counts'.records = counts.records
  /\ (pg.user => pg'.user) /\ pg.records \subseteq pg'.records
  /\ \A x \in DOMAIN pg.twap : x \in DOMAIN pg'.twap /\ pg'.twap[x].of = pg.twap[x].of
  /\ \A x \in DOMAIN pg'.twap : x \in DOMAIN pg.twap \/ (h.kind = "twap" /\ x = h.key)
  /\ \A x \in DOMAIN pg.orders : /\ x \in DOMAIN pg'.orders
                                 /\ pg'.orders[x] = pg.orders[x] \/ (IsOrder(h, x) /\ pg'.orders[x] = h.status)
  /\ \A x \in DOMAIN pg.fills : x \in DOMAIN pg'.fills /\ pg'.fills[x] = pg.fills[x]
  /\ \A x \in DOMAIN pg'.fills : x \in DOMAIN pg.fills \/ (IsFill(h, x) /\ pg'.fills[x] = h.oid)
  /\ h.kind = "user" => pg'.user \/ userRow \in lost'
  /\ h.kind = "order" => h \in lost' \/ (h.key \in DOMAIN pg'.orders /\ pg'.orders[h.key] = h.status)
  /\ h.kind = "fill" /\ h.oid \in DOMAIN pg.orders => h \in lost' \/ h.key \in DOMAIN pg'.fills
  /\ h.kind = "record" => h \in lost' \/ <<"record", h.key>> \in pg'.records
  /\ h.kind = "twap" => \/ h \in lost' \/ h.key \in DOMAIN pg.twap
                        \/ \E x \in DOMAIN pg'.twap : pg'.twap[x].of = h.oid

LEMMA Pops ==
  ASSUME TypesOk, UserFirst, WriteNext \/ WriteFails
  PROVE  Popped(queue[1])
<1> DEFINE h == queue[1]
<1>1. h = queue[1] /\ queue \in Seq(Writes) /\ queue # <<>> /\ queue' = Tail(queue)
  BY DEF WriteNext, WriteFails, TypesOk, SinkTypes, engineVars
<1>2. Head(queue) = h /\ h \in Writes
  BY <1>1, QueueTail
<1>3. acct
  BY <1>1 DEF TypesOk, Calm
<1> HIDE DEF h
<1> SUFFICES Popped(h)
  BY DEF h
<1>4. CASE WriteFails
  <2>1. /\ lost' = lost \cup {h} /\ UNCHANGED <<acct, twaps, orders, fills, unsaid, odd, pg>>
    BY <1>2, <1>4 DEF WriteFails, engineVars
  <2>2. counts'.records = counts.records
    BY <1>4, CountsStep DEF TypesOk, SinkTypes, Counts
  <2>3. h.kind = "user" => h = userRow
    BY <1>2, WriteIs
  <2> QED
    BY <1>1, <1>2, <2>1, <2>2, <2>3 DEF Popped
<1>5. CASE WriteNext
  <2>1. /\ UNCHANGED <<acct, twaps, orders, fills, unsaid, odd, counts>>
        /\ lost' = IF ~pg.user /\ userRow \in lost THEN lost \cup {h} ELSE lost
    BY <1>1, <1>5, Ran
  <2>2. userRow.kind = "user" /\ (h.kind = "user" => h = userRow)
    BY <1>2, WriteFields, WriteIs
  <2>3. h.kind # "user" => pg.user \/ userRow \in lost
    BY <1>1, <1>3, <2>2 DEF UserFirst
  <2>4. CASE ~References(h)
    <3>1. pg' = pg
      BY <1>1, <1>5, <2>4, Ran
    <3>2. h.kind # "user"
      BY <2>4 DEF References
    <3>3. h \in lost' \/ (h.kind = "fill" /\ h.oid \notin DOMAIN pg.orders)
      BY <2>1, <2>3, <2>4, <3>2 DEF References
    <3> QED
      BY <1>1, <1>2, <2>1, <3>1, <3>2, <3>3 DEF Popped
  <2>5. CASE References(h)
    <3>1. /\ pg'.user = (IF h.kind = "user" THEN TRUE ELSE pg.user)
          /\ pg'.orders = (IF h.kind = "order" THEN Upsert(pg.orders, h.key, h.status) ELSE pg.orders)
          /\ pg'.fills = (IF h.kind = "fill" THEN InsertOnce(pg.fills, h.key, h.oid) ELSE pg.fills)
          /\ pg'.twap = (IF h.kind = "twap"
               THEN InsertOnce(pg.twap, h.key, [of |-> h.oid, said |-> h.said, found |-> DOMAIN pg.fills])
               ELSE pg.twap)
          /\ pg'.records = (IF h.kind \in {"record", "ledger"}
               THEN pg.records \cup {<<h.kind, h.key>>} ELSE pg.records)
      BY <1>1, <1>5, <2>5, Ran
    <3>2. /\ (pg.user => pg'.user) /\ pg.records \subseteq pg'.records
          /\ (h.kind = "user" => pg'.user) /\ (h.kind = "record" => <<"record", h.key>> \in pg'.records)
      BY <3>1
    <3>3. /\ \A x \in DOMAIN pg.twap : x \in DOMAIN pg'.twap /\ pg'.twap[x].of = pg.twap[x].of
          /\ \A x \in DOMAIN pg'.twap : x \in DOMAIN pg.twap \/ (h.kind = "twap" /\ x = h.key)
          /\ h.kind = "twap" => h.key \in DOMAIN pg.twap \/ \E x \in DOMAIN pg'.twap : pg'.twap[x].of = h.oid
      <4> DEFINE row == [of |-> h.oid, said |-> h.said, found |-> DOMAIN pg.fills]
      <4>1. row.of = h.oid
        OBVIOUS
      <4> HIDE DEF row
      <4>2. pg'.twap = IF h.kind = "twap" THEN InsertOnce(pg.twap, h.key, row) ELSE pg.twap
        BY <3>1 DEF row
      <4>3. CASE h.kind # "twap"
        BY <4>2, <4>3
      <4>4. CASE h.kind = "twap"
        <5> DEFINE f == pg.twap
                   g == pg'.twap
                   k == h.key
        <5>1. g = InsertOnce(f, k, row)
          BY <4>2, <4>4
        <5> HIDE DEF f, g, k
        <5>2. DOMAIN g = DOMAIN f \cup {k} /\ \A x \in DOMAIN f : g[x] = f[x]
          BY <5>1 DEF InsertOnce, Upsert
        <5>3. k \notin DOMAIN f => g[k] = row
          BY <5>1, InsertedOnce
        <5>4. \A x \in DOMAIN f : x \in DOMAIN g /\ g[x].of = f[x].of
          BY <5>2
        <5>5. k \in DOMAIN f \/ \E x \in DOMAIN g : g[x].of = h.oid
          BY <4>1, <5>2, <5>3
        <5> QED
          BY <4>4, <5>2, <5>4, <5>5 DEF f, g, k
      <4> QED
        BY <4>3, <4>4
    <3>4. /\ \A x \in DOMAIN pg.orders :
               /\ x \in DOMAIN pg'.orders
               /\ pg'.orders[x] = pg.orders[x] \/ (IsOrder(h, x) /\ pg'.orders[x] = h.status)
          /\ h.kind = "order" => h.key \in DOMAIN pg'.orders /\ pg'.orders[h.key] = h.status
      BY <3>1 DEF Upsert, IsOrder
    <3>5. /\ \A x \in DOMAIN pg.fills : x \in DOMAIN pg'.fills /\ pg'.fills[x] = pg.fills[x]
          /\ \A x \in DOMAIN pg'.fills : x \in DOMAIN pg.fills \/ (IsFill(h, x) /\ pg'.fills[x] = h.oid)
          /\ h.kind = "fill" => h.key \in DOMAIN pg'.fills
      BY <3>1 DEF InsertOnce, Upsert, IsFill
    <3> QED
      BY <1>1, <1>2, <2>1, <3>2, <3>3, <3>4, <3>5 DEF Popped
  <2> QED
    BY <2>4, <2>5
<1> QED
  BY <1>4, <1>5

\* The engine puts writes behind the queue and forgets none that was lost.
Extends ==
  /\ odd \subseteq odd' /\ lost \subseteq lost' /\ UNCHANGED pg
  /\ Len(queue) \in Nat /\ Len(queue') \in Nat /\ Len(queue) <= Len(queue')
  /\ \A i \in 1 .. Len(queue) : i \in 1 .. Len(queue') /\ queue'[i] = queue[i]

LEMMA EngineExtends ==
  ASSUME TypesOk, EngineOrEvent
  PROVE  Extends
<1>1. lost \subseteq lost' /\ UNCHANGED pg
  BY EngineCases DEF Recorded, Opened, Saved, Cancelled, Filled, Reset, Said, Liquidated, Adds
<1> QED
  BY <1>1, EngineFills DEF Extends, FillsKept

-----------------------------------------------------------------------------
(* The user's row, and the records.                                        *)

LEMMA EngineUser ==
  ASSUME TypesOk, UserFirst, EngineOrEvent
  PROVE  UserFirst'
<1>1. Extends
  BY EngineExtends
<1>2. CASE ensureAccount
  <2> DEFINE b == Write("record", 0)
  <2>1. queue' = queue \o <<userRow, b>> /\ queue = <<>>
    BY <1>2 DEF ensureAccount, enqueueWrite, TypesOk, Calm
  <2> HIDE DEF b
  <2>2. queue' # <<>> /\ queue'[1] = userRow
    BY <2>1
  <2> QED
    BY <2>2 DEF UserFirst
<1>3. CASE acct' = acct
  <2> SUFFICES ASSUME acct PROVE UserFirst'
    BY <1>3 DEF UserFirst
  <2>1. CASE pg.user \/ userRow \in lost
    BY <1>1, <2>1 DEF UserFirst, Extends
  <2>2. CASE queue # <<>> /\ queue[1] = userRow
    <3>1. queue \in Seq(Writes) /\ queue' \in Seq(Writes)
      BY EngineTypes DEF TypesOk, SinkTypes
    <3>2. 1 \in 1 .. Len(queue)
      BY <2>2, <3>1
    <3>3. queue'[1] = userRow /\ 1 \in 1 .. Len(queue')
      BY <1>1, <2>2, <3>2 DEF Extends
    <3>4. queue' # <<>>
      BY <3>1, <3>3
    <3> QED
      BY <3>3, <3>4 DEF UserFirst
  <2> QED
    BY <2>1, <2>2 DEF UserFirst
<1>4. saveOrder \/ resetAccount \/ settleLiquidation \/ record \/ recordTwapHistory => acct' = acct
  BY DEF saveOrder, resetAccount, settleLiquidation, record, recordTwapHistory, engineVars
<1>5. \A o, w : cancelOrders(o) \/ executeFill(o) \/ Emit(w) => acct' = acct
  BY DEF cancelOrders, executeFill, Emit
<1> QED
  BY <1>2, <1>3, <1>4, <1>5 DEF EngineOrEvent

RecOk(k) == RecordKept(k) \/ \E i \in 1 .. Len(queue) : IsRecord(queue[i], k)
RecsOk == \A k \in 1 .. counts.records : RecOk(k)

LEMMA EngineRecs ==
  ASSUME TypesOk, RecsOk, EngineOrEvent
  PROVE  RecsOk'
<1>1. Extends
  BY EngineExtends
<1>2. ASSUME NEW k, RecOk(k) PROVE RecOk(k)'
  <2>1. RecordKept(k) => RecordKept(k)'
    BY <1>1 DEF RecordKept, Extends
  <2>2. ASSUME NEW i \in 1 .. Len(queue), IsRecord(queue[i], k) PROVE RecOk(k)'
    <3>1. i \in 1 .. Len(queue') /\ queue'[i] = queue[i]
      BY <1>1 DEF Extends
    <3> QED
      BY <2>2, <3>1 DEF RecOk, IsRecord
  <2> QED
    BY <1>2, <2>1, <2>2 DEF RecOk
<1>3. CASE counts'.records = counts.records
  BY <1>2, <1>3 DEF RecsOk
<1>4. ASSUME NEW w, Recorded(w) PROVE RecsOk'
  <2>1. /\ w \in Writes /\ IsRecord(w, counts.records + 1)
        /\ queue' = queue \o <<w>> /\ counts'.records = counts.records + 1
    BY <1>4 DEF Recorded
  <2>2. queue \in Seq(Writes) /\ counts.records \in Nat
    BY DEF TypesOk, SinkTypes
  <2>3. Len(queue) + 1 \in 1 .. Len(queue') /\ queue'[Len(queue) + 1] = w
    BY <2>1, <2>2
  <2>4. ASSUME NEW k, k = counts.records + 1 PROVE RecOk(k)'
    <3>1. IsRecord(queue'[Len(queue) + 1], k)
      BY <2>1, <2>3, <2>4
    <3>2. \E i \in 1 .. Len(queue') : IsRecord(queue'[i], k)
      BY <2>3, <3>1
    <3> QED
      BY <3>2 DEF RecOk, IsRecord
  <2>5. \A k \in 1 .. counts'.records : k \in 1 .. counts.records \/ k = counts.records + 1
    BY <2>1, <2>2
  <2> QED
    BY <1>2, <2>4, <2>5 DEF RecsOk
<1> QED
  BY <1>3, <1>4, EngineCases

\* The TWAP rows waiting have ids of their own, none past the counter, and one whose id has a row
\* already is odd.
TwapAt(i) == i \in 1 .. Len(queue) /\ queue[i].kind = "twap"
OddTwap(n) == <<"twap", n>> \in odd
TwapIds ==
  /\ \A i : TwapAt(i) => /\ queue[i].key <= twaps
                         /\ queue[i].key \in DOMAIN pg.twap => OddTwap(queue[i].oid)
  /\ \A i, j : TwapAt(i) /\ TwapAt(j) /\ i # j => queue[i].key # queue[j].key

LEMMA EngineTwapIds ==
  ASSUME TypesOk, TwapIds, EngineOrEvent
  PROVE  TwapIds'
<1>1. Extends
  BY EngineExtends
<1>2. twaps \in Nat /\ twaps' \in {twaps, twaps + 1} /\ queue \in Seq(Writes) /\ pg' = pg
  BY <1>1, EngineCases DEF TypesOk, RedisTypes, SinkTypes, Extends
<1>3. \A i \in 1 .. Len(queue') : ~(i <= Len(queue)) /\ queue'[i].kind = "twap" =>
        i = Len(queue) + 1 /\ Recorded(queue'[i])
  BY EngineFills DEF FillsKept
<1>4. ASSUME NEW i, TwapAt(i)', i <= Len(queue)
      PROVE  TwapAt(i) /\ queue'[i] = queue[i] /\ queue[i].key \in Nat
  <2>1. i \in 1 .. Len(queue)
    BY <1>1, <1>4 DEF TwapAt, Extends
  <2>2. queue'[i] = queue[i]
    BY <1>1, <2>1 DEF Extends
  <2>3. queue[i] \in Writes
    BY <1>2, <2>1
  <2>4. queue[i].key \in Nat
    BY <2>3, WriteIs
  <2> QED
    BY <1>4, <2>1, <2>2, <2>4 DEF TwapAt
<1>5. ASSUME NEW i, TwapAt(i)', ~(i <= Len(queue))
      PROVE  /\ i = Len(queue) + 1
             /\ queue'[i].key = twaps + 1 /\ twaps' = twaps + 1
             /\ queue'[i].key \in DOMAIN pg.twap => <<"twap", queue'[i].oid>> \in odd'
  <2>1. i = Len(queue) + 1 /\ Recorded(queue'[i]) /\ queue'[i].kind = "twap"
    BY <1>3, <1>5 DEF TwapAt
  <2> QED
    BY <2>1 DEF Recorded, OddTwap
<1>6. ASSUME NEW i, TwapAt(i)'
      PROVE  queue'[i].key <= twaps' /\ (queue'[i].key \in DOMAIN pg'.twap => <<"twap", queue'[i].oid>> \in odd')
  <2>1. CASE i <= Len(queue)
    <3>1. TwapAt(i) /\ queue'[i] = queue[i] /\ queue[i].key \in Nat
      BY <1>4, <1>6, <2>1
    <3>2. queue[i].key <= twaps /\ (queue[i].key \in DOMAIN pg.twap => OddTwap(queue[i].oid))
      BY <3>1 DEF TwapIds
    <3>3. OddTwap(queue[i].oid) => <<"twap", queue'[i].oid>> \in odd'
      BY <1>1, <3>1 DEF OddTwap, Extends
    <3>4. queue[i].key <= twaps'
      BY <1>2, <3>1, <3>2
    <3> QED
      BY <1>2, <3>1, <3>2, <3>3, <3>4
  <2>2. CASE ~(i <= Len(queue))
    BY <1>2, <1>5, <1>6, <2>2
  <2> QED
    BY <2>1, <2>2
<1>7. ASSUME NEW i, NEW j, TwapAt(i)', TwapAt(j)', i # j PROVE queue'[i].key # queue'[j].key
  <2>1. CASE i <= Len(queue) /\ j <= Len(queue)
    BY <1>4, <1>7, <2>1 DEF TwapIds
  <2>2. ASSUME NEW k, NEW l, TwapAt(k)', TwapAt(l)', k <= Len(queue), ~(l <= Len(queue))
        PROVE  queue'[k].key # queue'[l].key
    <3>1. TwapAt(k) /\ queue'[k] = queue[k] /\ queue[k].key \in Nat
      BY <1>4, <2>2
    <3>2. queue[k].key <= twaps
      BY <3>1 DEF TwapIds
    <3>3. queue'[l].key = twaps + 1
      BY <1>5, <2>2
    <3> QED
      BY <1>2, <3>1, <3>2, <3>3
  <2>3. CASE ~(i <= Len(queue)) /\ ~(j <= Len(queue))
    <3>1. i = Len(queue) + 1
      BY <1>5, <1>7, <2>3
    <3>2. j = Len(queue) + 1
      BY <1>5, <1>7, <2>3
    <3> QED
      BY <1>7, <3>1, <3>2
  <2> QED
    BY <1>7, <2>1, <2>2, <2>3
<1> QED
  BY <1>6, <1>7 DEF TwapIds, TwapAt, OddTwap

-----------------------------------------------------------------------------
(* Fills.                                                                  *)

\* A fill to be said, waiting or stored is the one Redis has under that id, unless it was in use.
Agrees(w) == w.kind = "fill" => w.key \in DOMAIN fills /\ (OddTid(w.key) \/ fills[w.key] = w.oid)
FillsAgree ==
  /\ \A w \in unsaid \cup ToSet(queue) : Agrees(w)
  /\ \A t \in DOMAIN fills : t \in DOMAIN pg.fills => OddTid(t) \/ pg.fills[t] = fills[t]

\* The fill t of order o is waiting, behind a write of its order or with that one stored.
FillWaits(t, o) ==
  \E j \in 1 .. Len(queue) :
    /\ queue[j] = fillRow(t, o)
    /\ o \in DOMAIN pg.orders \/ \E i \in 1 .. Len(queue) : i < j /\ queue[i] = orderRow(o, "filled")

FillOf(t, o) ==
  \/ OddTid(t)
  \/ fillRow(t, o) \in lost \/ orderRow(o, "filled") \in lost
  \/ fillRow(t, o) \in unsaid
  \/ FillWaits(t, o)
  \/ t \in DOMAIN pg.fills
FillOk(t) == FillOf(t, fills[t])
FillsOk == \A t \in DOMAIN fills : FillOk(t)

LEMMA WaitsOn ==
  ASSUME Extends, NEW t, NEW o, FillWaits(t, o)
  PROVE  FillWaits(t, o)'
<1>1. PICK j \in 1 .. Len(queue) :
        /\ queue[j] = fillRow(t, o)
        /\ o \in DOMAIN pg.orders \/ \E i \in 1 .. Len(queue) : i < j /\ queue[i] = orderRow(o, "filled")
  BY DEF FillWaits
<1>2. j \in 1 .. Len(queue') /\ queue'[j] = fillRow(t, o)
  BY <1>1 DEF Extends
<1>3. CASE o \in DOMAIN pg.orders
  BY <1>2, <1>3 DEF FillWaits, Extends
<1>4. ASSUME NEW i \in 1 .. Len(queue), i < j, queue[i] = orderRow(o, "filled")
      PROVE  FillWaits(t, o)'
  <2>1. i \in 1 .. Len(queue') /\ queue'[i] = orderRow(o, "filled")
    BY <1>4 DEF Extends
  <2> QED
    BY <1>2, <1>4, <2>1 DEF FillWaits
<1> QED
  BY <1>1, <1>3, <1>4

LEMMA FillStays ==
  ASSUME Extends, NEW t, NEW o, FillOf(t, o), fillRow(t, o) \in unsaid => fillRow(t, o) \in unsaid'
  PROVE  FillOf(t, o)'
<1>1. FillWaits(t, o) => FillWaits(t, o)'
  BY WaitsOn
<1> QED
  BY <1>1 DEF FillOf, Extends, OddTid

\* An announced fill waits behind its order, or nobody heard of it.
LEMMA FillAdded ==
  ASSUME queue \in Seq(Writes), NEW ws \in Seq(Writes), Adds(ws), NEW t, NEW o, Len(ws) \in {2, 3},
         ws[1] = orderRow(o, "filled"), ws[2] = fillRow(t, o)
  PROVE  FillOf(t, o)'
<1>1. \/ \A m \in 1 .. Len(ws) : ws[m] \in lost'
      \/ /\ Len(queue') = Len(queue) + Len(ws)
         /\ \A m \in 1 .. Len(ws) : Len(queue) + m \in 1 .. Len(queue') /\ queue'[Len(queue) + m] = ws[m]
  BY Added
<1>2. 1 \in 1 .. Len(ws) /\ 2 \in 1 .. Len(ws) /\ Len(queue) \in Nat
  OBVIOUS
<1>3. CASE \A m \in 1 .. Len(ws) : ws[m] \in lost'
  <2>1. fillRow(t, o) \in lost'
    BY <1>2, <1>3
  <2> QED
    BY <2>1 DEF FillOf
<1>4. CASE \A m \in 1 .. Len(ws) : Len(queue) + m \in 1 .. Len(queue') /\ queue'[Len(queue) + m] = ws[m]
  <2> DEFINE i == Len(queue) + 1
             j == Len(queue) + 2
  <2>1. /\ i \in 1 .. Len(queue') /\ queue'[i] = orderRow(o, "filled")
        /\ j \in 1 .. Len(queue') /\ queue'[j] = fillRow(t, o)
    BY <1>2, <1>4
  <2>2. i < j
    BY <1>2
  <2> HIDE DEF i, j
  <2>3. FillWaits(t, o)'
    BY <2>1, <2>2 DEF FillWaits
  <2> QED
    BY <2>3 DEF FillOf
<1> QED
  BY <1>1, <1>3, <1>4

LEMMA EngineFillsOk ==
  ASSUME TypesOk, FillsOk, EngineOrEvent
  PROVE  FillsOk'
<1>0. Extends /\ queue \in Seq(Writes) /\ unsaid \subseteq Writes
  BY EngineExtends DEF TypesOk, RedisTypes, SinkTypes
<1>1. ASSUME UNCHANGED fills, \A w \in unsaid : w.kind = "fill" => w \in unsaid' PROVE FillsOk'
  <2> SUFFICES ASSUME NEW t \in DOMAIN fills PROVE FillOk(t)'
    BY <1>1 DEF FillsOk
  <2> DEFINE o == fills[t]
  <2>1. FillOf(t, o)
    BY DEF FillsOk, FillOk
  <2>2. fills'[t] = o
    BY <1>1
  <2> HIDE DEF o
  <2>3. ASSUME NEW x, x = o PROVE FillOf(t, x)'
    <3>1. FillOf(t, x)
      BY <2>1, <2>3
    <3>2. fillRow(t, x).kind = "fill"
      BY WriteFields
    <3>3. fillRow(t, x) \in unsaid => fillRow(t, x) \in unsaid'
      BY <1>1, <3>2
    <3> QED
      BY <1>0, <3>1, <3>3, FillStays
  <2> QED
    BY <2>2, <2>3 DEF FillOk
<1>2. ASSUME NEW t, NEW o, fills' = Upsert(fills, t, o), FillOf(t, o)',
             \A w \in unsaid : w.kind = "fill" => w \in unsaid'
      PROVE  FillsOk'
  <2>1. /\ DOMAIN fills' = DOMAIN fills \cup {t} /\ fills'[t] = o
        /\ \A x \in DOMAIN fills : x # t => fills'[x] = fills[x]
    BY <1>2, FillsUpserted
  <2> SUFFICES ASSUME NEW x \in DOMAIN fills' PROVE FillOk(x)'
    BY DEF FillsOk
  <2>2. CASE x = t
    BY <1>2, <2>1, <2>2 DEF FillOk
  <2>3. CASE x # t
    <3>1. x \in DOMAIN fills /\ fills'[x] = fills[x]
      BY <2>1, <2>3
    <3>2. FillOf(x, fills[x])
      BY <3>1 DEF FillsOk, FillOk
    <3>3. ASSUME NEW y, y = fills[x] PROVE FillOf(x, y)'
      <4>1. FillOf(x, y)
        BY <3>2, <3>3
      <4>2. fillRow(x, y).kind = "fill"
        BY WriteFields
      <4>3. fillRow(x, y) \in unsaid => fillRow(x, y) \in unsaid'
        BY <1>2, <4>2
      <4> QED
        BY <1>0, <4>1, <4>3, FillStays
    <3> QED
      BY <3>1, <3>3 DEF FillOk
  <2> QED
    BY <2>2, <2>3
<1>3. ASSUME NEW w, Recorded(w) PROVE FillsOk'
  BY <1>1, <1>3 DEF Recorded
<1>4. CASE Opened
  BY <1>1, <1>4 DEF Opened
<1>5. ASSUME NEW n, Saved(n) PROVE FillsOk'
  BY <1>1, <1>5 DEF Saved
<1>6. ASSUME NEW o, Cancelled(o) PROVE FillsOk'
  BY <1>1, <1>6 DEF Cancelled
<1>7. ASSUME NEW o, NEW t, Filled(o, t) PROVE FillsOk'
  <2>1. fills' = Upsert(fills, t, o) /\ unsaid' = (unsaid \ {orderRow(o, "open")}) \cup {fillRow(t, o)}
    BY <1>7 DEF Filled
  <2>2. FillOf(t, o)'
    BY <2>1 DEF FillOf
  <2>3. orderRow(o, "open").kind = "order"
    BY WriteFields
  <2>4. \A w \in unsaid : w.kind = "fill" => w \in unsaid'
    BY <2>1, <2>3
  <2> QED
    BY <1>2, <2>1, <2>2, <2>4
<1>8. ASSUME NEW o, NEW t, NEW ws, Liquidated(o, t, ws) PROVE FillsOk'
  <2>1. /\ fills' = Upsert(fills, t, o) /\ unsaid' = unsaid /\ ws \in Seq(Writes) /\ Len(ws) = 3
        /\ ws[1] = orderRow(o, "filled") /\ ws[2] = fillRow(t, o) /\ Adds(ws)
    BY <1>8 DEF Liquidated
  <2>2. FillOf(t, o)'
    BY <1>0, <2>1, FillAdded
  <2> QED
    BY <1>2, <2>1, <2>2
<1>9. ASSUME NEW w, Said(w) PROVE FillsOk'
  <2>1. w \in unsaid /\ w \in Writes /\ unsaid' = unsaid \ {w} /\ Adds(Says(w)) /\ UNCHANGED fills
    BY <1>0, <1>9 DEF Said
  <2> SUFFICES ASSUME NEW t \in DOMAIN fills PROVE FillOk(t)'
    BY <2>1 DEF FillsOk
  <2> DEFINE o == fills[t]
  <2>2. FillOf(t, o) /\ fills'[t] = o
    BY <2>1 DEF FillsOk, FillOk
  <2> HIDE DEF o
  <2>3. CASE w = fillRow(t, o)
    <3> DEFINE ws == Says(w)
    <3>1. w.kind = "fill" /\ w.oid = o
      BY <2>3, WriteFields
    <3>2. ws \in Seq(Writes) /\ ws = <<orderRow(w.oid, "filled"), w>>
      BY <2>1, <3>1, SaysWrites
    <3>3. Adds(ws)
      BY <2>1
    <3> HIDE DEF ws
    <3>4. Len(ws) = 2 /\ ws[1] = orderRow(o, "filled") /\ ws[2] = fillRow(t, o)
      BY <2>3, <3>1, <3>2
    <3>5. ASSUME NEW x, x = o PROVE FillOf(t, x)'
      <4>1. /\ ws \in Seq(Writes) /\ Adds(ws) /\ Len(ws) \in {2, 3}
            /\ ws[1] = orderRow(x, "filled") /\ ws[2] = fillRow(t, x)
        BY <3>2, <3>3, <3>4, <3>5
      <4> QED
        BY <1>0, <4>1, FillAdded
    <3> QED
      BY <2>2, <3>5 DEF FillOk
  <2>4. CASE w # fillRow(t, o)
    <3>1. \A x : x = o => FillOf(t, x)'
      BY <1>0, <2>1, <2>2, <2>4, FillStays
    <3> QED
      BY <2>2, <3>1 DEF FillOk
  <2> QED
    BY <2>3, <2>4
<1>10. CASE Reset
  BY <1>1, <1>10 DEF Reset
<1> QED
  BY <1>3, <1>4, <1>5, <1>6, <1>7, <1>8, <1>9, <1>10, EngineCases

LEMMA AgreesOn ==
  ASSUME odd \subseteq odd', NEW w, Agrees(w),
         \/ UNCHANGED fills
         \/ \E t, o : fills' = Upsert(fills, t, o) /\ TidUsed(t)
  PROVE  Agrees(w)'
<1> SUFFICES ASSUME w.kind = "fill"
             PROVE  w.key \in DOMAIN fills' /\ (OddTid(w.key)' \/ fills'[w.key] = w.oid)
  BY DEF Agrees
<1>1. w.key \in DOMAIN fills /\ (OddTid(w.key) \/ fills[w.key] = w.oid)
  BY DEF Agrees
<1>2. OddTid(w.key) => OddTid(w.key)'
  BY DEF OddTid
<1>3. CASE UNCHANGED fills
  BY <1>1, <1>2, <1>3
<1>4. ASSUME NEW t, NEW o, fills' = Upsert(fills, t, o), TidUsed(t)
      PROVE  w.key \in DOMAIN fills' /\ (OddTid(w.key)' \/ fills'[w.key] = w.oid)
  <2>1. /\ DOMAIN fills' = DOMAIN fills \cup {t} /\ fills'[t] = o
        /\ \A x \in DOMAIN fills : x # t => fills'[x] = fills[x]
    BY <1>4, FillsUpserted
  <2>2. w.key = t => OddTid(w.key)'
    BY <1>1, <1>4 DEF TidUsed, OddTid
  <2> QED
    BY <1>1, <1>2, <2>1, <2>2
<1> QED
  BY <1>3, <1>4

LEMMA NewAgrees ==
  ASSUME NEW t, NEW o, fills' = Upsert(fills, t, o)
  PROVE  Agrees(fillRow(t, o))'
<1>1. DOMAIN fills' = DOMAIN fills \cup {t} /\ fills'[t] = o
  BY FillsUpserted
<1>2. fillRow(t, o).key = t /\ fillRow(t, o).oid = o
  BY WriteFields
<1> QED
  BY <1>1, <1>2 DEF Agrees

LEMMA PgAgreesOn ==
  ASSUME odd \subseteq odd', UNCHANGED pg,
         \A t \in DOMAIN fills : t \in DOMAIN pg.fills => OddTid(t) \/ pg.fills[t] = fills[t],
         \/ UNCHANGED fills
         \/ \E t, o : fills' = Upsert(fills, t, o) /\ TidUsed(t)
  PROVE  \A t \in DOMAIN fills' : t \in DOMAIN pg'.fills => OddTid(t)' \/ pg'.fills[t] = fills'[t]
<1>1. \A t : OddTid(t) => OddTid(t)'
  BY DEF OddTid
<1>2. CASE UNCHANGED fills
  BY <1>1, <1>2
<1>3. ASSUME NEW t, NEW o, fills' = Upsert(fills, t, o), TidUsed(t), NEW x \in DOMAIN fills', x \in DOMAIN pg'.fills
      PROVE  OddTid(x)' \/ pg'.fills[x] = fills'[x]
  <2>1. /\ DOMAIN fills' = DOMAIN fills \cup {t} /\ fills'[t] = o
        /\ \A y \in DOMAIN fills : y # t => fills'[y] = fills[y]
    BY <1>3, FillsUpserted
  <2>2. x = t => OddTid(x)'
    BY <1>3 DEF TidUsed, OddTid
  <2> QED
    BY <1>1, <1>3, <2>1, <2>2
<1> QED
  BY <1>2, <1>3

LEMMA AddedSet ==
  ASSUME queue \in Seq(Writes), NEW ws \in Seq(Writes), Adds(ws)
  PROVE  ToSet(queue') \subseteq ToSet(queue) \cup ToSet(ws)
<1>1. ToSet(queue \o ws) = ToSet(queue) \cup ToSet(ws)
  BY ToSetMore
<1> QED
  BY <1>1 DEF Adds

LEMMA EngineAgree ==
  ASSUME TypesOk, FillsAgree, EngineOrEvent
  PROVE  FillsAgree'
<1>0. Extends /\ queue \in Seq(Writes) /\ unsaid \subseteq Writes
  BY EngineExtends DEF TypesOk, RedisTypes, SinkTypes
<1>1. \/ UNCHANGED fills
      \/ \E t, o : fills' = Upsert(fills, t, o) /\ TidUsed(t)
  BY EngineCases DEF Recorded, Opened, Saved, Cancelled, Filled, Reset, Said, Liquidated
<1>2. \A t \in DOMAIN fills' : t \in DOMAIN pg'.fills => OddTid(t)' \/ pg'.fills[t] = fills'[t]
  BY <1>0, <1>1, PgAgreesOn DEF FillsAgree, Extends
<1>3. \A w : Agrees(w) => Agrees(w)'
  BY <1>0, <1>1, AgreesOn DEF Extends
<1>4. ASSUME NEW w, w.kind # "fill" PROVE Agrees(w)'
  BY <1>4 DEF Agrees
<1> SUFFICES \A w \in unsaid' \cup ToSet(queue') : w \in unsaid \cup ToSet(queue) \/ Agrees(w)'
  BY <1>2, <1>3 DEF FillsAgree
<1>5. ASSUME NEW x, Recorded(x)
      PROVE  \A w \in unsaid' \cup ToSet(queue') : w \in unsaid \cup ToSet(queue) \/ Agrees(w)'
  <2>1. x \in Writes /\ x.kind \in {"record", "twap"} /\ queue' = queue \o <<x>> /\ UNCHANGED unsaid
    BY <1>5 DEF Recorded, IsRecord
  <2>2. <<x>> \in Seq(Writes) /\ ToSet(<<x>>) = {x}
    BY <2>1, ToSetShort
  <2>3. ToSet(queue \o <<x>>) = ToSet(queue) \cup ToSet(<<x>>)
    BY <1>0, <2>2, ToSetMore
  <2> QED
    BY <1>4, <2>1, <2>2, <2>3
<1>6. CASE Opened
  <2> DEFINE a == userRow
             b == Write("record", 0)
  <2>1. a \in Writes /\ b \in Writes /\ a.kind = "user" /\ b.kind = "record"
    BY WriteKinds, WriteFields
  <2>2. Adds(<<a, b>>) /\ UNCHANGED unsaid
    BY <1>6 DEF Opened
  <2> HIDE DEF a, b
  <2>3. <<a, b>> \in Seq(Writes)
    BY <2>1
  <2>4. ToSet(<<a, b>>) = {a, b}
    BY ToSetShort
  <2>5. ToSet(queue') \subseteq ToSet(queue) \cup ToSet(<<a, b>>)
    BY <1>0, <2>2, <2>3, AddedSet
  <2>6. Agrees(a)' /\ Agrees(b)'
    BY <2>1 DEF Agrees
  <2> QED
    BY <2>2, <2>4, <2>5, <2>6
<1>7. ASSUME NEW n, Saved(n)
      PROVE  \A w \in unsaid' \cup ToSet(queue') : w \in unsaid \cup ToSet(queue) \/ Agrees(w)'
  <2>1. unsaid' = unsaid \cup {orderRow(n, "open")} /\ UNCHANGED queue
    BY <1>7 DEF Saved
  <2>2. Agrees(orderRow(n, "open"))'
    BY <1>4, WriteFields
  <2> QED
    BY <2>1, <2>2
<1>8. ASSUME NEW o, Cancelled(o)
      PROVE  \A w \in unsaid' \cup ToSet(queue') : w \in unsaid \cup ToSet(queue) \/ Agrees(w)'
  <2>1. unsaid' = unsaid \cup {orderRow(o, "cancelled")} /\ UNCHANGED queue
    BY <1>8 DEF Cancelled
  <2>2. Agrees(orderRow(o, "cancelled"))'
    BY <1>4, WriteFields
  <2> QED
    BY <2>1, <2>2
<1>9. ASSUME NEW o, NEW t, Filled(o, t)
      PROVE  \A w \in unsaid' \cup ToSet(queue') : w \in unsaid \cup ToSet(queue) \/ Agrees(w)'
  <2>1. /\ unsaid' = (unsaid \ {orderRow(o, "open")}) \cup {fillRow(t, o)}
        /\ fills' = Upsert(fills, t, o) /\ UNCHANGED queue
    BY <1>9 DEF Filled
  <2>2. Agrees(fillRow(t, o))'
    BY <2>1, NewAgrees
  <2> QED
    BY <2>1, <2>2
<1>10. ASSUME NEW x, Said(x)
      PROVE  \A w \in unsaid' \cup ToSet(queue') : w \in unsaid \cup ToSet(queue) \/ Agrees(w)'
  <2> DEFINE a == orderRow(x.oid, "filled")
             ws == Says(x)
  <2>1. x \in unsaid /\ x \in Writes /\ unsaid' = unsaid \ {x} /\ Adds(ws)
    BY <1>0, <1>10 DEF Said
  <2>2. /\ ws \in Seq(Writes)
        /\ x.kind = "fill" => ws = <<a, x>>
        /\ x.kind # "fill" => ws = <<x>>
    BY <2>1, SaysWrites
  <2>3. Agrees(a)'
    BY <1>4, WriteFields
  <2> HIDE DEF a, ws
  <2>4. ToSet(ws) \subseteq {a, x}
    BY <2>2, ToSetShort
  <2>5. ToSet(queue') \subseteq ToSet(queue) \cup ToSet(ws)
    BY <1>0, <2>1, <2>2, AddedSet
  <2> QED
    BY <2>1, <2>3, <2>4, <2>5
<1>11. ASSUME NEW o, NEW t, NEW ws, Liquidated(o, t, ws)
      PROVE  \A w \in unsaid' \cup ToSet(queue') : w \in unsaid \cup ToSet(queue) \/ Agrees(w)'
  <2>1. /\ fills' = Upsert(fills, t, o) /\ UNCHANGED unsaid /\ ws \in Seq(Writes) /\ Len(ws) = 3 /\ Adds(ws)
        /\ ws[1] = orderRow(o, "filled") /\ ws[2] = fillRow(t, o) /\ ws[3] = Write("ledger", o)
    BY <1>11 DEF Liquidated
  <2>2. Agrees(orderRow(o, "filled"))' /\ Agrees(Write("ledger", o))'
    BY <1>4, WriteFields
  <2>3. Agrees(fillRow(t, o))'
    BY <2>1, NewAgrees
  <2>4. \A i \in 1 .. Len(ws) : i = 1 \/ i = 2 \/ i = 3
    BY <2>1
  <2>5. \A w \in ToSet(ws) : w = ws[1] \/ w = ws[2] \/ w = ws[3]
    BY <2>1, <2>4, QueueMembers
  <2>6. ToSet(queue') \subseteq ToSet(queue) \cup ToSet(ws)
    BY <1>0, <2>1, AddedSet
  <2> QED
    BY <2>1, <2>2, <2>3, <2>5, <2>6
<1>12. CASE Reset
  <2> DEFINE a == userRow
  <2>1. a \in Writes /\ a.kind = "user"
    BY WriteKinds, WriteFields
  <2>2. queue' = queue \o <<a>> /\ UNCHANGED unsaid
    BY <1>12 DEF Reset
  <2> HIDE DEF a
  <2>3. <<a>> \in Seq(Writes) /\ ToSet(<<a>>) = {a}
    BY <2>1, ToSetShort
  <2>4. ToSet(queue \o <<a>>) = ToSet(queue) \cup ToSet(<<a>>)
    BY <1>0, <2>3, ToSetMore
  <2> QED
    BY <1>4, <2>1, <2>2, <2>3, <2>4
<1> QED
  BY <1>5, <1>6, <1>7, <1>8, <1>9, <1>10, <1>11, <1>12, EngineCases

-----------------------------------------------------------------------------
(* The sink's side.                                                        *)

LEMMA PoppedQueue ==
  ASSUME TypesOk, NEW h, Popped(h)
  PROVE  /\ Len(queue) \in Nat /\ Len(queue') \in Nat /\ Len(queue') = Len(queue) - 1 /\ h \in ToSet(queue)
         /\ \A i \in 1 .. Len(queue') : i + 1 \in 1 .. Len(queue) /\ queue'[i] = queue[i + 1]
         /\ \A i \in 1 .. Len(queue) : i = 1 \/ (i - 1 \in 1 .. Len(queue') /\ queue'[i - 1] = queue[i])
         /\ ToSet(queue') \subseteq ToSet(queue)
<1>1. queue \in Seq(Writes) /\ queue # <<>> /\ queue' = Tail(queue) /\ h = queue[1]
  BY DEF TypesOk, SinkTypes, Popped
<1>2. /\ Len(queue) \in Nat /\ Len(queue) >= 1 /\ Len(queue') = Len(queue) - 1
      /\ \A i \in 1 .. Len(queue') : queue'[i] = queue[i + 1]
  BY <1>1, QueueTail
<1>3. \A i \in 1 .. Len(queue') : i + 1 \in 1 .. Len(queue)
  BY <1>2
<1>4. ASSUME NEW i \in 1 .. Len(queue), i # 1
      PROVE  i - 1 \in 1 .. Len(queue') /\ queue'[i - 1] = queue[i]
  <2>1. i - 1 \in 1 .. Len(queue') /\ (i - 1) + 1 = i
    BY <1>2, <1>4
  <2> QED
    BY <1>2, <2>1
<1>5. ToSet(queue') \subseteq ToSet(queue) /\ h \in ToSet(queue)
  BY <1>1, ToSetTail
<1>6. Len(queue') \in Nat
  BY <1>2
<1> QED
  BY <1>2, <1>3, <1>4, <1>5, <1>6

LEMMA PoppedUser ==
  ASSUME TypesOk, UserFirst, NEW h, Popped(h)
  PROVE  UserFirst'
<1>1. h = userRow => pg'.user \/ userRow \in lost'
  BY WriteFields DEF Popped
<1> QED
  BY <1>1 DEF UserFirst, Popped

LEMMA PoppedRecs ==
  ASSUME TypesOk, TwapIds, RecsOk, NEW h, Popped(h)
  PROVE  RecsOk'
<1> SUFFICES ASSUME NEW k, RecOk(k) PROVE RecOk(k)'
  BY DEF RecsOk, Popped
<1>1. CASE RecordKept(k)
  <2>1. <<"record", k>> \in pg.records => <<"record", k>> \in pg'.records
    BY DEF Popped
  <2>2. ASSUME NEW x \in DOMAIN pg.twap, pg.twap[x].of = k PROVE x \in DOMAIN pg'.twap /\ pg'.twap[x].of = k
    BY <2>2 DEF Popped
  <2>3. lost \subseteq lost' /\ odd' = odd
    BY DEF Popped
  <2> QED
    BY <1>1, <2>1, <2>2, <2>3 DEF RecordKept, RecOk
<1>2. ASSUME NEW i \in 1 .. Len(queue), IsRecord(queue[i], k) PROVE RecOk(k)'
  <2>1. CASE i = 1
    <3>1. h = queue[1] /\ IsRecord(h, k) /\ UNCHANGED odd
      BY <1>2, <2>1 DEF Popped
    <3>2. CASE h.kind = "record" /\ h.key = k
      <4>1. h \in lost' \/ <<"record", k>> \in pg'.records
        BY <3>2 DEF Popped
      <4> QED
        BY <3>2, <4>1 DEF RecOk, RecordKept
    <3>3. CASE h.kind = "twap" /\ h.oid = k
      <4>1. TwapAt(1)
        BY <1>2, <2>1, <3>1, <3>3 DEF TwapAt
      <4>2. h.key \in DOMAIN pg.twap => OddTwap(k)
        BY <3>1, <3>3, <4>1 DEF TwapIds
      <4>3. h \in lost' \/ h.key \in DOMAIN pg.twap \/ \E x \in DOMAIN pg'.twap : pg'.twap[x].of = k
        BY <3>3 DEF Popped
      <4> QED
        BY <3>1, <3>3, <4>2, <4>3 DEF RecOk, RecordKept, OddTwap
    <3> QED
      BY <3>1, <3>2, <3>3 DEF IsRecord
  <2>2. CASE i # 1
    <3>1. i - 1 \in 1 .. Len(queue') /\ queue'[i - 1] = queue[i]
      BY <2>2, PoppedQueue
    <3>2. IsRecord(queue'[i - 1], k)
      BY <1>2, <3>1
    <3> DEFINE m == i - 1
    <3>3. m \in 1 .. Len(queue') /\ IsRecord(queue'[m], k)
      BY <3>1, <3>2
    <3> HIDE DEF m
    <3> QED
      BY <3>3 DEF RecOk, IsRecord
  <2> QED
    BY <2>1, <2>2
<1> QED
  BY <1>1, <1>2 DEF RecOk

LEMMA PoppedTwapIds ==
  ASSUME TypesOk, TwapIds, NEW h, Popped(h)
  PROVE  TwapIds'
<1>1. UNCHANGED <<twaps, odd>> /\ h = queue[1]
  BY DEF Popped
<1>2. ASSUME NEW i, TwapAt(i)'
      PROVE  TwapAt(i + 1) /\ queue'[i] = queue[i + 1] /\ i + 1 # 1
  <2>1. i \in 1 .. Len(queue')
    BY <1>2 DEF TwapAt
  <2>2. i + 1 \in 1 .. Len(queue) /\ queue'[i] = queue[i + 1] /\ i + 1 # 1
    BY <2>1, PoppedQueue
  <2> QED
    BY <1>2, <2>2 DEF TwapAt
<1>3. ASSUME NEW i, TwapAt(i)'
      PROVE  queue'[i].key <= twaps' /\ (queue'[i].key \in DOMAIN pg'.twap => <<"twap", queue'[i].oid>> \in odd')
  <2>1. TwapAt(i + 1) /\ queue'[i] = queue[i + 1] /\ i + 1 # 1
    BY <1>2, <1>3
  <2>2. queue'[i].key <= twaps /\ (queue'[i].key \in DOMAIN pg.twap => OddTwap(queue'[i].oid))
    BY <2>1 DEF TwapIds
  <2>3. h.kind = "twap" => TwapAt(1)
    <3>1. 1 \in 1 .. Len(queue)
      BY PoppedQueue
    <3> QED
      BY <1>1, <3>1 DEF TwapAt
  <2>4. h.kind = "twap" => h.key # queue'[i].key
    BY <1>1, <2>1, <2>3 DEF TwapIds
  <2>5. queue'[i].key \in DOMAIN pg'.twap => queue'[i].key \in DOMAIN pg.twap
    BY <2>4 DEF Popped
  <2> QED
    BY <1>1, <2>2, <2>5 DEF OddTwap
<1>4. ASSUME NEW i, NEW j, TwapAt(i)', TwapAt(j)', i # j PROVE queue'[i].key # queue'[j].key
  <2>1. TwapAt(i + 1) /\ queue'[i] = queue[i + 1] /\ TwapAt(j + 1) /\ queue'[j] = queue[j + 1]
    BY <1>2, <1>4
  <2>2. i \in Int /\ j \in Int
    BY <1>4, PoppedQueue DEF TwapAt
  <2>3. i + 1 # j + 1
    BY <1>4, <2>2
  <2> QED
    BY <2>1, <2>3 DEF TwapIds
<1> QED
  BY <1>3, <1>4 DEF TwapIds, TwapAt, OddTwap

LEMMA PoppedAgree ==
  ASSUME TypesOk, FillsAgree, NEW h, Popped(h)
  PROVE  FillsAgree'
<1>1. UNCHANGED <<fills, unsaid, odd>>
  BY DEF Popped
<1>2. \A w : Agrees(w)' <=> Agrees(w)
  BY <1>1 DEF Agrees, OddTid
<1>3. \A w \in unsaid' \cup ToSet(queue') : Agrees(w)'
  BY <1>1, <1>2, PoppedQueue DEF FillsAgree
<1>4. Agrees(h)
  BY PoppedQueue DEF FillsAgree
<1>5. ASSUME NEW t \in DOMAIN fills, t \in DOMAIN pg'.fills
      PROVE  OddTid(t) \/ pg'.fills[t] = fills[t]
  <2>1. CASE t \in DOMAIN pg.fills
    BY <2>1 DEF FillsAgree, Popped
  <2>2. CASE t \notin DOMAIN pg.fills
    <3>1. h.kind = "fill" /\ h.key = t /\ pg'.fills[t] = h.oid
      BY <1>5, <2>2 DEF Popped, IsFill
    <3> QED
      BY <1>4, <3>1 DEF Agrees
  <2> QED
    BY <2>1, <2>2
<1> QED
  BY <1>1, <1>3, <1>5 DEF FillsAgree, OddTid

LEMMA PoppedFills ==
  ASSUME TypesOk, FillsOk, NEW h, Popped(h)
  PROVE  FillsOk'
<1>1. UNCHANGED <<fills, unsaid, odd>> /\ lost \subseteq lost' /\ h = queue[1]
  BY DEF Popped
<1> SUFFICES ASSUME NEW t, NEW o, FillOf(t, o) PROVE FillOf(t, o)'
  BY <1>1 DEF FillsOk, FillOk
<1>2. CASE ~FillWaits(t, o)
  BY <1>1, <1>2 DEF FillOf, OddTid, Popped
<1>3. CASE FillWaits(t, o)
  <2> DEFINE f == fillRow(t, o)
             a == orderRow(o, "filled")
  <2>1. f.kind = "fill" /\ f.key = t /\ f.oid = o /\ a.kind = "order" /\ a.key = o
    BY WriteFields
  <2>2. PICK j \in 1 .. Len(queue) :
          /\ queue[j] = f
          /\ o \in DOMAIN pg.orders \/ \E i \in 1 .. Len(queue) : i < j /\ queue[i] = a
    BY <1>3 DEF FillWaits
  <2> HIDE DEF f, a
  <2>3. CASE j = 1
    <3>1. \A i \in 1 .. Len(queue) : ~(i < j)
      BY <2>3, PoppedQueue
    <3>2. h = f /\ o \in DOMAIN pg.orders
      BY <1>1, <2>2, <2>3, <3>1
    <3>3. f \in lost' \/ t \in DOMAIN pg'.fills
      BY <2>1, <3>2 DEF Popped
    <3> QED
      BY <3>3 DEF FillOf, f
  <2>4. CASE j # 1
    <3> DEFINE m == j - 1
    <3>1. m \in 1 .. Len(queue') /\ queue'[m] = f
      BY <2>2, <2>4, PoppedQueue
    <3> HIDE DEF m
    <3>2. CASE o \in DOMAIN pg'.orders
      BY <3>1, <3>2 DEF FillOf, FillWaits, f
    <3>3. CASE o \in DOMAIN pg.orders
      BY <3>2, <3>3 DEF Popped
    <3>4. ASSUME NEW i \in 1 .. Len(queue), i < j, queue[i] = a PROVE FillOf(t, o)'
      <4>1. CASE i = 1
        <5>1. a \in lost' \/ o \in DOMAIN pg'.orders
          BY <1>1, <2>1, <3>4, <4>1 DEF Popped
        <5> QED
          BY <3>2, <5>1 DEF FillOf, a
      <4>2. CASE i # 1
        <5> DEFINE n == i - 1
        <5>1. n \in 1 .. Len(queue') /\ queue'[n] = a
          BY <3>4, <4>2, PoppedQueue
        <5>2. n < m
          BY <3>4, PoppedQueue DEF m
        <5> HIDE DEF n
        <5>3. FillWaits(t, o)'
          BY <3>1, <5>1, <5>2 DEF FillWaits, f, a
        <5> QED
          BY <5>3 DEF FillOf
      <4> QED
        BY <4>1, <4>2
    <3> QED
      BY <2>2, <3>3, <3>4
  <2> QED
    BY <2>3, <2>4
<1> QED
  BY <1>2, <1>3

-----------------------------------------------------------------------------
(* Orders.                                                                 *)

\* The order an event is about, and the status it gives it.
Of(w) == IF w.kind = "fill" THEN w.oid ELSE w.key
Tells(w) == IF w.kind = "fill" THEN "filled" ELSE w.status

\* An event still to come gives its order the status it has.
UnsaidTells ==
  \A w \in unsaid : Of(w) \in DOMAIN orders /\ (OddOrder(Of(w)) \/ Tells(w) = orders[Of(w)])

\* No write of the queue past p gives o a status other than s.
LaterTells(o, s, p) == \A i \in 1 .. Len(queue) : i > p /\ IsOrder(queue[i], o) => queue[i].status = s

OrderOf(o, s) ==
  \/ OddOrder(o)
  \/ orderRow(o, s) \in lost
  \/ \E w \in unsaid : Of(w) = o
  \/ \E j \in 1 .. Len(queue) : queue[j] = orderRow(o, s) /\ LaterTells(o, s, j)
  \/ LaterTells(o, s, 0) /\ o \in DOMAIN pg.orders /\ pg.orders[o] = s
OrderOk(o) == OrderOf(o, orders[o])
OrdersOk == \A o \in DOMAIN orders : OrderOk(o)

LEMMA RowsTell ==
  /\ \A o, s : Of(orderRow(o, s)) = o /\ Tells(orderRow(o, s)) = s
  /\ \A t, o : Of(fillRow(t, o)) = o /\ Tells(fillRow(t, o)) = "filled"
<1>1. \A o, s : orderRow(o, s).kind = "order" /\ orderRow(o, s).key = o /\ orderRow(o, s).status = s
  BY WriteFields
<1>2. \A t, o : fillRow(t, o).kind = "fill" /\ fillRow(t, o).oid = o
  BY WriteFields
<1> QED
  BY <1>1, <1>2 DEF Of, Tells

LEMMA LaterOn ==
  ASSUME Extends, NEW o, NEW s, NEW p, LaterTells(o, s, p),
         \A i \in 1 .. Len(queue') : ~(i <= Len(queue)) /\ IsOrder(queue'[i], o) => queue'[i].status = s
  PROVE  LaterTells(o, s, p)'
<1> SUFFICES ASSUME NEW i \in 1 .. Len(queue'), i > p, IsOrder(queue'[i], o)
             PROVE  queue'[i].status = s
  BY DEF LaterTells, IsOrder
<1>1. CASE i <= Len(queue)
  <2>1. i \in 1 .. Len(queue)
    BY <1>1 DEF Extends
  <2>2. queue'[i] = queue[i]
    BY <2>1 DEF Extends
  <2> QED
    BY <2>1, <2>2 DEF LaterTells
<1> QED
  BY <1>1

LEMMA OrderStays ==
  ASSUME Extends, NEW o, NEW s, OrderOf(o, s), (\E w \in unsaid : Of(w) = o) => (\E w \in unsaid' : Of(w) = o),
         \A i \in 1 .. Len(queue') : ~(i <= Len(queue)) /\ IsOrder(queue'[i], o) => queue'[i].status = s
  PROVE  OrderOf(o, s)'
<1>1. CASE OddOrder(o) \/ orderRow(o, s) \in lost \/ \E w \in unsaid : Of(w) = o
  BY <1>1 DEF OrderOf, Extends, OddOrder
<1>2. ASSUME NEW j \in 1 .. Len(queue), queue[j] = orderRow(o, s), LaterTells(o, s, j) PROVE OrderOf(o, s)'
  <2>1. j \in 1 .. Len(queue') /\ queue'[j] = orderRow(o, s)
    BY <1>2 DEF Extends
  <2>2. LaterTells(o, s, j)'
    BY <1>2, LaterOn
  <2> QED
    BY <2>1, <2>2 DEF OrderOf
<1>3. CASE LaterTells(o, s, 0) /\ o \in DOMAIN pg.orders /\ pg.orders[o] = s
  <2>1. LaterTells(o, s, 0)'
    BY <1>3, LaterOn
  <2> QED
    BY <1>3, <2>1 DEF OrderOf, Extends
<1> QED
  BY <1>1, <1>2, <1>3 DEF OrderOf

\* The event of an order is queued as its last word, or nobody heard it.
LEMMA OrderAdded ==
  ASSUME queue \in Seq(Writes), NEW ws \in Seq(Writes), Adds(ws), NEW o, NEW s,
         ws[1] = orderRow(o, s), Len(ws) >= 1, \A m \in 1 .. Len(ws) : m # 1 => ws[m].kind # "order"
  PROVE  OrderOf(o, s)'
<1>1. /\ Len(queue) \in Nat
      /\ \A i \in 1 .. Len(queue') : ~(i <= Len(queue)) =>
           \E m \in 1 .. Len(ws) : queue'[i] = ws[m] /\ i = Len(queue) + m
      /\ \/ \A m \in 1 .. Len(ws) : ws[m] \in lost'
         \/ /\ Len(queue') = Len(queue) + Len(ws)
            /\ \A m \in 1 .. Len(ws) : Len(queue) + m \in 1 .. Len(queue') /\ queue'[Len(queue) + m] = ws[m]
  BY Added
<1>2. 1 \in 1 .. Len(ws)
  OBVIOUS
<1>3. CASE \A m \in 1 .. Len(ws) : ws[m] \in lost'
  BY <1>2, <1>3 DEF OrderOf
<1>4. CASE \A m \in 1 .. Len(ws) : Len(queue) + m \in 1 .. Len(queue') /\ queue'[Len(queue) + m] = ws[m]
  <2> DEFINE j == Len(queue) + 1
  <2>1. j \in 1 .. Len(queue') /\ queue'[j] = orderRow(o, s)
    BY <1>2, <1>4
  <2>2. ASSUME NEW i \in 1 .. Len(queue'), i > j PROVE queue'[i].kind # "order"
    <3>1. ~(i <= Len(queue))
      BY <1>1, <2>2
    <3>2. PICK m \in 1 .. Len(ws) : queue'[i] = ws[m] /\ i = Len(queue) + m
      BY <1>1, <3>1
    <3>3. m # 1
      BY <1>1, <2>2, <3>2
    <3> QED
      BY <3>2, <3>3
  <2> HIDE DEF j
  <2>3. \E k \in 1 .. Len(queue') : queue'[k] = orderRow(o, s) /\ LaterTells(o, s, k)'
    <3>1. ASSUME NEW k, k = j PROVE LaterTells(o, s, k)'
      BY <2>2, <3>1 DEF LaterTells, IsOrder
    <3> QED
      BY <2>1, <3>1
  <2> QED
    BY <2>3 DEF OrderOf
<1> QED
  BY <1>1, <1>3, <1>4

\* orders and unsaid after an order is given the status s by the event w.
LEMMA OrderTold ==
  ASSUME TypesOk, UnsaidTells, Extends, NEW o, NEW s, NEW x, Of(x) = o, Tells(x) = s, unsaid' \ {x} \subseteq unsaid,
         DOMAIN orders' = DOMAIN orders \cup {o}, orders'[o] = s,
         \A n \in DOMAIN orders : n # o => orders'[n] = orders[n],
         \A w \in unsaid' : w # x /\ Of(w) = o => OddOrder(o)' \/ Tells(w) = s
  PROVE  UnsaidTells'
<1> SUFFICES ASSUME NEW w \in unsaid'
             PROVE  Of(w) \in DOMAIN orders' /\ (OddOrder(Of(w))' \/ Tells(w) = orders'[Of(w)])
  BY DEF UnsaidTells, Of, Tells
<1>1. CASE w = x
  BY <1>1
<1>2. CASE w # x
  <2>1. Of(w) \in DOMAIN orders /\ (OddOrder(Of(w)) \/ Tells(w) = orders[Of(w)])
    BY <1>2 DEF UnsaidTells
  <2>2. OddOrder(Of(w)) => OddOrder(Of(w))'
    BY DEF OddOrder, Extends
  <2>3. Of(w) = o => OddOrder(Of(w))' \/ Tells(w) = s
    BY <1>2
  <2> QED
    BY <2>1, <2>2, <2>3
<1> QED
  BY <1>1, <1>2

LEMMA EngineOrders ==
  ASSUME TypesOk, UnsaidTells, OrdersOk, EngineOrEvent
  PROVE  UnsaidTells' /\ OrdersOk'
<1>0. Extends /\ queue \in Seq(Writes) /\ unsaid \subseteq Writes
  BY EngineExtends DEF TypesOk, RedisTypes, SinkTypes
<1>1. ASSUME NEW n \in DOMAIN orders, orders'[n] = orders[n],
             (\E w \in unsaid : Of(w) = n) => (\E w \in unsaid' : Of(w) = n),
             \A i \in 1 .. Len(queue') : ~(i <= Len(queue)) => ~IsOrder(queue'[i], n)
      PROVE  OrderOk(n)'
  <2>1. OrderOf(n, orders[n])
    BY DEF OrdersOk, OrderOk
  <2>2. ASSUME NEW s, s = orders[n] PROVE OrderOf(n, s)'
    <3>1. OrderOf(n, s)
      BY <2>1, <2>2
    <3> QED
      BY <1>0, <1>1, <3>1, OrderStays
  <2> QED
    BY <1>1, <2>2 DEF OrderOk
<1>2. ASSUME UNCHANGED orders, unsaid' \subseteq unsaid PROVE UnsaidTells'
  <2> SUFFICES ASSUME NEW w \in unsaid
               PROVE  Of(w) \in DOMAIN orders /\ (OddOrder(Of(w))' \/ Tells(w) = orders[Of(w)])
    BY <1>2 DEF UnsaidTells, OddOrder, Of, Tells
  <2>1. Of(w) \in DOMAIN orders /\ (OddOrder(Of(w)) \/ Tells(w) = orders[Of(w)])
    BY DEF UnsaidTells
  <2>2. OddOrder(Of(w)) => OddOrder(Of(w))'
    BY <1>0 DEF OddOrder, Extends
  <2> QED
    BY <2>1, <2>2
<1>3. ASSUME UNCHANGED queue PROVE \A i \in 1 .. Len(queue') : i <= Len(queue)
  BY <1>0, <1>3
<1>4. ASSUME NEW o, NEW s, NEW x, Of(x) = o, Tells(x) = s, UNCHANGED queue,
             x \in unsaid', unsaid' \ {x} \subseteq unsaid, \A w \in unsaid : Of(w) # o => w \in unsaid',
             DOMAIN orders' = DOMAIN orders \cup {o}, orders'[o] = s,
             \A n \in DOMAIN orders : n # o => orders'[n] = orders[n],
             \A w \in unsaid' : w # x /\ Of(w) = o => OddOrder(o)' \/ Tells(w) = s
      PROVE  UnsaidTells' /\ OrdersOk'
  <2>1. UnsaidTells'
    BY <1>0, <1>4, OrderTold
  <2>2. ASSUME NEW n \in DOMAIN orders' PROVE OrderOk(n)'
    <3>1. CASE n = o
      <4>1. \E w \in unsaid' : Of(w) = n
        BY <1>4, <3>1
      <4> QED
        BY <4>1 DEF OrderOk, OrderOf, Of
    <3>2. CASE n # o
      <4>1. n \in DOMAIN orders /\ orders'[n] = orders[n]
        BY <1>4, <3>2
      <4>2. (\E w \in unsaid : Of(w) = n) => (\E w \in unsaid' : Of(w) = n)
        BY <1>4, <3>2
      <4> QED
        BY <1>1, <1>3, <1>4, <4>1, <4>2
    <3> QED
      BY <3>1, <3>2
  <2> QED
    BY <2>1, <2>2 DEF OrdersOk
<1>5. ASSUME NEW x, Recorded(x) PROVE UnsaidTells' /\ OrdersOk'
  <2>1. x \in Writes /\ x.kind \in {"record", "twap"} /\ queue' = queue \o <<x>> /\ UNCHANGED <<orders, unsaid, lost>>
    BY <1>5 DEF Recorded, IsRecord
  <2>2. \A i \in 1 .. Len(queue') : ~(i <= Len(queue)) => queue'[i] = x
    BY <1>0, <2>1
  <2>3. \A n, i : i \in 1 .. Len(queue') /\ ~(i <= Len(queue)) => ~IsOrder(queue'[i], n)
    BY <2>1, <2>2 DEF IsOrder
  <2> QED
    BY <1>1, <1>2, <2>1, <2>3 DEF OrdersOk
<1>6. CASE Opened
  <2>1. DOMAIN orders = {} /\ UNCHANGED <<orders, unsaid>>
    BY <1>6 DEF Opened, TypesOk, Calm
  <2> QED
    BY <1>2, <2>1 DEF OrdersOk
<1>7. ASSUME NEW n, Saved(n) PROVE UnsaidTells' /\ OrdersOk'
  <2> DEFINE x == orderRow(n, "open")
  <2>1. /\ orders' = Upsert(orders, n, "open") /\ unsaid' = unsaid \cup {x} /\ UNCHANGED queue
        /\ n \in DOMAIN orders => <<"order", n>> \in odd'
    BY <1>7 DEF Saved
  <2>2. Of(x) = n /\ Tells(x) = "open"
    BY RowsTell
  <2> HIDE DEF x
  <2>3. /\ DOMAIN orders' = DOMAIN orders \cup {n} /\ orders'[n] = "open"
        /\ \A m \in DOMAIN orders : m # n => orders'[m] = orders[m]
    BY <2>1 DEF Upsert
  <2>4. \A w \in unsaid : Of(w) = n => OddOrder(n)'
    BY <2>1 DEF UnsaidTells, OddOrder
  <2>5. \A w \in unsaid' : w # x /\ Of(w) = n => OddOrder(n)' \/ Tells(w) = "open"
    BY <2>1, <2>4
  <2>6. x \in unsaid' /\ unsaid' \ {x} \subseteq unsaid /\ \A w \in unsaid : Of(w) # n => w \in unsaid'
    BY <2>1
  <2> QED
    BY <1>4, <2>1, <2>2, <2>3, <2>5, <2>6
<1>8. ASSUME NEW o, o \in DOMAIN orders, orders[o] = "open", NEW w \in unsaid, Of(w) = o
      PROVE  OddOrder(o)' \/ orderRow(o, "open") \in unsaid
  <2>1. OddOrder(o) \/ Tells(w) = "open"
    BY <1>8 DEF UnsaidTells
  <2>2. OddOrder(o) => OddOrder(o)'
    BY <1>0 DEF OddOrder, Extends
  <2>3. ASSUME Tells(w) = "open" PROVE orderRow(o, "open") \in unsaid
    <3>1. w \in Writes /\ w.kind \in {"order", "fill"}
      BY <1>0 DEF TypesOk, RedisTypes
    <3>2. w.kind = "order" /\ w.key = o /\ w.status = "open"
      BY <1>8, <2>3, <3>1 DEF Tells, Of
    <3>3. w = orderRow(w.key, w.status)
      BY <3>1, <3>2, WriteIs
    <3> QED
      BY <3>2, <3>3
  <2> QED
    BY <2>1, <2>2, <2>3
<1>9. ASSUME NEW o, Cancelled(o) PROVE UnsaidTells' /\ OrdersOk'
  <2> DEFINE x == orderRow(o, "cancelled")
  <2>1. /\ o \in DOMAIN orders /\ orders' = [orders EXCEPT ![o] = "cancelled"]
        /\ unsaid' = unsaid \cup {x} /\ UNCHANGED queue
        /\ orderRow(o, "open") \in unsaid \/ orders[o] = "filled" => <<"order", o>> \in odd'
    BY <1>9 DEF Cancelled
  <2>2. Of(x) = o /\ Tells(x) = "cancelled"
    BY RowsTell
  <2> HIDE DEF x
  <2>3. /\ DOMAIN orders' = DOMAIN orders \cup {o} /\ orders'[o] = "cancelled"
        /\ \A m \in DOMAIN orders : m # o => orders'[m] = orders[m]
    BY <2>1
  <2>4. ASSUME NEW w \in unsaid, Of(w) = o PROVE OddOrder(o)' \/ Tells(w) = "cancelled"
    <3>1. orders[o] \in Statuses
      BY <2>1 DEF TypesOk, RedisTypes
    <3>2. CASE orders[o] = "open"
      <4>1. OddOrder(o)' \/ orderRow(o, "open") \in unsaid
        BY <1>8, <2>1, <2>4, <3>2
      <4> QED
        BY <2>1, <4>1 DEF OddOrder
    <3>3. CASE orders[o] = "filled"
      BY <2>1, <3>3 DEF OddOrder
    <3>4. CASE orders[o] = "cancelled"
      <4>1. OddOrder(o) \/ Tells(w) = "cancelled"
        BY <2>4, <3>4 DEF UnsaidTells
      <4> QED
        BY <1>0, <4>1 DEF OddOrder, Extends
    <3> QED
      BY <3>1, <3>2, <3>3, <3>4 DEF Statuses
  <2>5. \A w \in unsaid' : w # x /\ Of(w) = o => OddOrder(o)' \/ Tells(w) = "cancelled"
    BY <2>1, <2>4
  <2>6. x \in unsaid' /\ unsaid' \ {x} \subseteq unsaid /\ \A w \in unsaid : Of(w) # o => w \in unsaid'
    BY <2>1
  <2> QED
    BY <1>4, <2>1, <2>2, <2>3, <2>5, <2>6
<1>10. ASSUME NEW o, NEW t, Filled(o, t) PROVE UnsaidTells' /\ OrdersOk'
  <2> DEFINE x == fillRow(t, o)
             a == orderRow(o, "open")
  <2>1. /\ o \in DOMAIN orders /\ orders' = [orders EXCEPT ![o] = "filled"]
        /\ unsaid' = (unsaid \ {a}) \cup {x} /\ UNCHANGED queue
        /\ orders[o] # "open" => <<"order", o>> \in odd'
    BY <1>10 DEF Filled
  <2>2. Of(x) = o /\ Tells(x) = "filled" /\ Of(a) = o
    BY RowsTell
  <2> HIDE DEF x
  <2>3. /\ DOMAIN orders' = DOMAIN orders \cup {o} /\ orders'[o] = "filled"
        /\ \A m \in DOMAIN orders : m # o => orders'[m] = orders[m]
    BY <2>1
  <2>4. ASSUME NEW w \in unsaid, w # a, Of(w) = o PROVE OddOrder(o)'
    <3>1. CASE orders[o] # "open"
      BY <2>1, <3>1 DEF OddOrder
    <3>2. CASE orders[o] = "open"
      <4>1. OddOrder(o) \/ Tells(w) = "open"
        BY <2>4, <3>2 DEF UnsaidTells
      <4>2. Tells(w) = "open" => w = a
        <5>1. w \in Writes /\ w.kind \in {"order", "fill"}
          BY <1>0 DEF TypesOk, RedisTypes
        <5>2. Tells(w) = "open" => w.kind = "order" /\ w.key = o /\ w.status = "open"
          BY <2>4, <5>1 DEF Tells, Of
        <5>3. w.kind = "order" => w = orderRow(w.key, w.status)
          BY <5>1, WriteIs
        <5> QED
          BY <5>2, <5>3
      <4> QED
        BY <1>0, <2>4, <4>1, <4>2 DEF OddOrder, Extends
    <3> QED
      BY <3>1, <3>2
  <2> HIDE DEF a
  <2>5. \A w \in unsaid' : w # x /\ Of(w) = o => OddOrder(o)' \/ Tells(w) = "filled"
    BY <2>1, <2>4
  <2>6. x \in unsaid' /\ unsaid' \ {x} \subseteq unsaid /\ \A w \in unsaid : Of(w) # o => w \in unsaid'
    BY <2>1, <2>2
  <2> QED
    BY <1>4, <2>1, <2>2, <2>3, <2>5, <2>6
<1>11. ASSUME NEW w, Said(w) PROVE UnsaidTells' /\ OrdersOk'
  <2> DEFINE ws == Says(w)
             o == Of(w)
             a == orderRow(o, Tells(w))
  <2>1. w \in unsaid /\ w \in Writes /\ unsaid' = unsaid \ {w} /\ Adds(ws) /\ UNCHANGED orders
    BY <1>0, <1>11 DEF Said
  <2>2. w.kind \in {"order", "fill"}
    BY <2>1 DEF TypesOk, RedisTypes
  <2>3. /\ ws \in Seq(Writes) /\ ws[1] = a /\ Len(ws) >= 1
        /\ \A m \in 1 .. Len(ws) : m = 1 \/ ws[m].kind # "order"
    <3>1. ws \in Seq(Writes)
      BY <2>1, SaysWrites
    <3>2. CASE w.kind = "fill"
      <4>1. ws = <<orderRow(w.oid, "filled"), w>> /\ a = orderRow(w.oid, "filled")
        BY <2>1, <3>2, SaysWrites DEF Of, Tells
      <4> HIDE DEF a, ws
      <4>2. ws[1] = a /\ ws[2] = w /\ Len(ws) = 2
        BY <4>1
      <4> QED
        BY <3>1, <3>2, <4>2
    <3>3. CASE w.kind = "order"
      <4>1. ws = <<w>> /\ w = orderRow(w.key, w.status) /\ a = orderRow(w.key, w.status)
        BY <2>1, <3>3, SaysWrites, WriteIs DEF Of, Tells
      <4> HIDE DEF a, ws
      <4>2. ws[1] = a /\ Len(ws) = 1
        BY <4>1
      <4> QED
        BY <3>1, <4>2
    <3> QED
      BY <2>2, <3>2, <3>3
  <2> HIDE DEF ws
  <2>4. a.kind = "order" /\ a.key = o
    BY WriteFields
  <2>5. ASSUME NEW n \in DOMAIN orders PROVE OrderOk(n)'
    <3>1. CASE n = o
      <4>1. OddOrder(n) \/ Tells(w) = orders[n]
        BY <2>1, <3>1 DEF UnsaidTells
      <4>2. CASE OddOrder(n)
        BY <1>0, <4>2 DEF OrderOk, OrderOf, OddOrder, Extends
      <4>3. CASE Tells(w) = orders[n]
        <5>1. ASSUME NEW s, s = orders[n] PROVE OrderOf(n, s)'
          <6>1. ws[1] = orderRow(n, s) /\ \A m \in 1 .. Len(ws) : m # 1 => ws[m].kind # "order"
            BY <2>3, <3>1, <4>3, <5>1
          <6> QED
            BY <1>0, <2>1, <2>3, <6>1, OrderAdded
        <5> QED
          BY <2>1, <5>1 DEF OrderOk
      <4> QED
        BY <4>1, <4>2, <4>3
    <3>2. CASE n # o
      <4>1. \A i \in 1 .. Len(queue') : ~(i <= Len(queue)) =>
              \E m \in 1 .. Len(ws) : queue'[i] = ws[m] /\ i = Len(queue) + m
        BY <1>0, <2>1, <2>3, Added
      <4>2. \A m \in 1 .. Len(ws) : ~IsOrder(ws[m], n)
        BY <2>3, <2>4, <3>2 DEF IsOrder
      <4>3. \A i \in 1 .. Len(queue') : ~(i <= Len(queue)) => ~IsOrder(queue'[i], n)
        BY <4>1, <4>2
      <4>4. (\E x \in unsaid : Of(x) = n) => (\E x \in unsaid' : Of(x) = n)
        BY <2>1, <3>2
      <4>5. orders'[n] = orders[n]
        BY <2>1
      <4> QED
        BY <1>1, <4>3, <4>4, <4>5
    <3> QED
      BY <3>1, <3>2
  <2> QED
    BY <1>2, <2>1, <2>5 DEF OrdersOk
<1>12. ASSUME NEW o, NEW t, NEW ws, Liquidated(o, t, ws) PROVE UnsaidTells' /\ OrdersOk'
  <2>1. /\ o \in DOMAIN orders => <<"order", o>> \in odd'
        /\ ws \in Seq(Writes) /\ Len(ws) = 3 /\ Adds(ws) /\ UNCHANGED <<orders, unsaid>>
        /\ ws[1] = orderRow(o, "filled") /\ ws[2] = fillRow(t, o) /\ ws[3] = Write("ledger", o)
    BY <1>12 DEF Liquidated
  <2>2. ws[1].key = o /\ ws[2].kind = "fill" /\ ws[3].kind = "ledger"
    BY <2>1, WriteFields
  <2>3. ASSUME NEW n \in DOMAIN orders PROVE OrderOk(n)'
    <3>1. CASE n = o
      BY <2>1, <3>1 DEF OrderOk, OrderOf, OddOrder
    <3>2. CASE n # o
      <4>1. \A i \in 1 .. Len(queue') : ~(i <= Len(queue)) =>
              \E m \in 1 .. Len(ws) : queue'[i] = ws[m] /\ i = Len(queue) + m
        BY <1>0, <2>1, Added
      <4>2. \A m \in 1 .. Len(ws) : m = 1 \/ m = 2 \/ m = 3
        BY <2>1
      <4>3. \A m \in 1 .. Len(ws) : ~IsOrder(ws[m], n)
        BY <2>2, <3>2, <4>2 DEF IsOrder
      <4>4. \A i \in 1 .. Len(queue') : ~(i <= Len(queue)) => ~IsOrder(queue'[i], n)
        BY <4>1, <4>3
      <4> QED
        BY <1>1, <2>1, <4>4
    <3> QED
      BY <3>1, <3>2
  <2> QED
    BY <1>2, <2>1, <2>3 DEF OrdersOk
<1>13. CASE Reset
  <2>1. /\ DOMAIN orders' = DOMAIN orders /\ UNCHANGED unsaid /\ queue' = queue \o <<userRow>>
        /\ \A n \in DOMAIN orders : orders'[n] = orders[n] \/ OddOrder(n)'
    BY <1>13 DEF Reset, OddOrder
  <2>2. \A i \in 1 .. Len(queue') : ~(i <= Len(queue)) => queue'[i] = userRow
    BY <1>0, <2>1
  <2>3. \A n, i : i \in 1 .. Len(queue') /\ ~(i <= Len(queue)) => ~IsOrder(queue'[i], n)
    BY <2>2, WriteFields DEF IsOrder
  <2>4. ASSUME NEW n \in DOMAIN orders PROVE OrderOk(n)'
    <3>1. CASE orders'[n] = orders[n]
      BY <1>1, <2>1, <2>3, <3>1
    <3>2. CASE OddOrder(n)'
      BY <3>2 DEF OrderOk, OrderOf
    <3> QED
      BY <2>1, <3>1, <3>2
  <2>5. ASSUME NEW w \in unsaid PROVE Of(w) \in DOMAIN orders' /\ (OddOrder(Of(w))' \/ Tells(w) = orders'[Of(w)])
    <3>1. Of(w) \in DOMAIN orders /\ (OddOrder(Of(w)) \/ Tells(w) = orders[Of(w)])
      BY DEF UnsaidTells
    <3>2. OddOrder(Of(w)) => OddOrder(Of(w))'
      BY <1>0 DEF OddOrder, Extends
    <3> QED
      BY <2>1, <3>1, <3>2
  <2>6. UnsaidTells'
    BY <2>1, <2>5 DEF UnsaidTells, Of, Tells
  <2> QED
    BY <2>1, <2>4, <2>6 DEF OrdersOk
<1> QED
  BY <1>5, <1>6, <1>7, <1>9, <1>10, <1>11, <1>12, <1>13, EngineCases

LEMMA PoppedOrders ==
  ASSUME TypesOk, UnsaidTells, OrdersOk, NEW h, Popped(h)
  PROVE  UnsaidTells' /\ OrdersOk'
<1>1. UNCHANGED <<orders, unsaid, odd>> /\ lost \subseteq lost' /\ h = queue[1] /\ h \in Writes
  BY DEF Popped
<1>2. UnsaidTells'
  <2>1. \A w \in unsaid : Of(w) \in DOMAIN orders /\ (OddOrder(Of(w)) \/ Tells(w) = orders[Of(w)])
    BY DEF UnsaidTells
  <2> QED
    BY <1>1, <2>1 DEF UnsaidTells, OddOrder, Of, Tells
<1>3. ASSUME NEW o, NEW s, NEW p \in Nat, LaterTells(o, s, p + 1) \/ LaterTells(o, s, p) PROVE LaterTells(o, s, p)'
  <2> SUFFICES ASSUME NEW i \in 1 .. Len(queue'), i > p, IsOrder(queue'[i], o)
               PROVE  queue'[i].status = s
    BY DEF LaterTells, IsOrder
  <2>1. i + 1 \in 1 .. Len(queue) /\ queue'[i] = queue[i + 1]
    BY PoppedQueue
  <2>2. i + 1 > p + 1 /\ i + 1 > p
    BY PoppedQueue
  <2> QED
    BY <1>3, <2>1, <2>2 DEF LaterTells
<1>4. ASSUME NEW o, NEW s, OrderOf(o, s) PROVE OrderOf(o, s)'
  <2> DEFINE a == orderRow(o, s)
  <2>1. a.kind = "order" /\ a.key = o /\ a.status = s
    BY WriteFields
  <2> HIDE DEF a
  <2>2. CASE OddOrder(o) \/ a \in lost \/ \E w \in unsaid : Of(w) = o
    BY <1>1, <2>2 DEF OrderOf, OddOrder, a
  <2>3. ASSUME NEW j \in 1 .. Len(queue), queue[j] = a, LaterTells(o, s, j) PROVE OrderOf(o, s)'
    <3>1. CASE j = 1
      <4>1. a \in lost' \/ (o \in DOMAIN pg'.orders /\ pg'.orders[o] = s)
        BY <1>1, <2>1, <2>3, <3>1 DEF Popped
      <4>2. LaterTells(o, s, 0)'
        <5>1. 0 \in Nat /\ 0 + 1 = 1
          OBVIOUS
        <5> QED
          BY <1>3, <2>3, <3>1, <5>1
      <4> QED
        BY <4>1, <4>2 DEF OrderOf, a
    <3>2. CASE j # 1
      <4>1. j - 1 \in 1 .. Len(queue') /\ queue'[j - 1] = a /\ j - 1 \in Nat /\ (j - 1) + 1 = j
        BY <2>3, <3>2, PoppedQueue
      <4>2. ASSUME NEW m, m = j - 1 PROVE OrderOf(o, s)'
        <5>1. m \in 1 .. Len(queue') /\ queue'[m] = a /\ m \in Nat /\ m + 1 = j
          BY <4>1, <4>2
        <5>2. LaterTells(o, s, m)'
          BY <1>3, <2>3, <5>1
        <5> QED
          BY <5>1, <5>2 DEF OrderOf, a
      <4> QED
        BY <4>2
    <3> QED
      BY <3>1, <3>2
  <2>4. CASE LaterTells(o, s, 0) /\ o \in DOMAIN pg.orders /\ pg.orders[o] = s
    <3>1. LaterTells(o, s, 0)'
      BY <1>3, <2>4
    <3>2. IsOrder(h, o) => h.status = s
      <4>1. 1 \in 1 .. Len(queue) /\ 1 > 0
        BY PoppedQueue DEF TypesOk, SinkTypes, Popped
      <4> QED
        BY <1>1, <2>4, <4>1 DEF LaterTells
    <3>3. o \in DOMAIN pg'.orders /\ pg'.orders[o] = s
      BY <2>4, <3>2 DEF Popped
    <3> QED
      BY <3>1, <3>3 DEF OrderOf
  <2> QED
    BY <1>4, <2>2, <2>3, <2>4 DEF OrderOf, a
<1>5. ASSUME NEW o \in DOMAIN orders PROVE OrderOk(o)'
  <2>1. OrderOf(o, orders[o]) /\ orders'[o] = orders[o]
    BY <1>1 DEF OrdersOk, OrderOk
  <2>2. ASSUME NEW s, s = orders[o] PROVE OrderOf(o, s)'
    BY <1>4, <2>1, <2>2
  <2> QED
    BY <2>1, <2>2 DEF OrderOk
<1> QED
  BY <1>1, <1>2, <1>5 DEF OrdersOk

-----------------------------------------------------------------------------
(* Crash, flush and the rest.                                              *)

LossInv == UserFirst /\ FillsAgree /\ FillsOk /\ UnsaidTells /\ OrdersOk /\ TwapIds /\ RecsOk

LEMMA CrashLoss ==
  ASSUME TypesOk, LossInv, Crash
  PROVE  LossInv'
<1>1. /\ queue' = <<>> /\ unsaid' = {} /\ UNCHANGED <<acct, orders, fills, pg, odd>>
      /\ lost' = lost \cup ToSet(queue) \cup UNION {ToSet(Says(w)) : w \in unsaid}
  BY DEF Crash
<1>2. /\ queue \in Seq(Writes) /\ unsaid \subseteq Writes /\ Len(queue') = 0 /\ ToSet(queue') = {}
      /\ counts'.records = counts.records
  BY <1>1, CountsStep, EmptyQueue DEF TypesOk, RedisTypes, SinkTypes, Counts
<1>3. \A i \in 1 .. Len(queue) : queue[i] \in lost'
  BY <1>1, <1>2, QueueMembers
<1>4. ASSUME NEW w \in unsaid PROVE w \in lost' /\ orderRow(Of(w), Tells(w)) \in lost'
  <2>1. w \in Writes /\ w.kind \in {"order", "fill"}
    BY <1>2 DEF TypesOk, RedisTypes
  <2>2. CASE w.kind = "fill"
    <3> DEFINE a == orderRow(w.oid, "filled")
    <3>1. Says(w) = <<a, w>> /\ orderRow(Of(w), Tells(w)) = a
      BY <2>1, <2>2, SaysWrites DEF Of, Tells
    <3> HIDE DEF a
    <3>2. ToSet(Says(w)) = {a, w}
      BY <3>1, ToSetShort
    <3> QED
      BY <1>1, <3>1, <3>2
  <2>3. CASE w.kind = "order"
    <3>1. Says(w) = <<w>> /\ orderRow(Of(w), Tells(w)) = w
      BY <2>1, <2>3, SaysWrites, WriteIs DEF Of, Tells
    <3>2. ToSet(Says(w)) = {w}
      BY <3>1, ToSetShort
    <3> QED
      BY <1>1, <3>1, <3>2
  <2> QED
    BY <2>1, <2>2, <2>3
<1>5. UserFirst'
  <2> SUFFICES ASSUME acct PROVE pg.user \/ userRow \in lost'
    BY <1>1 DEF UserFirst
  <2>1. CASE queue # <<>> /\ queue[1] = userRow
    <3>1. 1 \in 1 .. Len(queue)
      BY <1>2, <2>1
    <3> QED
      BY <1>3, <2>1, <3>1
  <2> QED
    BY <1>1, <2>1 DEF LossInv, UserFirst
<1>6. FillsAgree'
  BY <1>1, <1>2 DEF LossInv, FillsAgree, OddTid
<1>7. FillsOk'
  <2> SUFFICES ASSUME NEW t, NEW o, FillOf(t, o) PROVE FillOf(t, o)'
    BY <1>1 DEF LossInv, FillsOk, FillOk
  <2>1. FillWaits(t, o) => fillRow(t, o) \in lost'
    BY <1>3 DEF FillWaits
  <2>2. fillRow(t, o) \in unsaid => fillRow(t, o) \in lost'
    BY <1>4
  <2>3. lost \subseteq lost'
    BY <1>1
  <2> QED
    BY <1>1, <2>1, <2>2, <2>3 DEF FillOf, OddTid
<1>8. UnsaidTells'
  BY <1>1 DEF UnsaidTells
<1>9. OrdersOk'
  <2> SUFFICES ASSUME NEW o \in DOMAIN orders PROVE OrderOk(o)'
    BY <1>1 DEF OrdersOk
  <2>1. OrderOf(o, orders[o]) /\ orders'[o] = orders[o]
    BY <1>1 DEF LossInv, OrdersOk, OrderOk
  <2>2. ASSUME NEW s, s = orders[o] PROVE OrderOf(o, s)'
    <3>1. LaterTells(o, s, 0)'
      BY <1>2 DEF LaterTells
    <3>2. ASSUME NEW w \in unsaid, Of(w) = o PROVE OddOrder(o) \/ orderRow(o, s) \in lost'
      BY <1>4, <2>2, <3>2 DEF LossInv, UnsaidTells
    <3>3. lost \subseteq lost'
      BY <1>1
    <3>4. (\E j \in 1 .. Len(queue) : queue[j] = orderRow(o, s) /\ LaterTells(o, s, j)) => orderRow(o, s) \in lost'
      BY <1>3
    <3>5. OrderOf(o, s)
      BY <2>1, <2>2
    <3> QED
      BY <1>1, <3>1, <3>2, <3>3, <3>4, <3>5 DEF OrderOf, OddOrder
  <2> QED
    BY <2>1, <2>2 DEF OrderOk
<1>10. RecsOk'
  <2> SUFFICES ASSUME NEW k, RecOk(k) PROVE RecOk(k)'
    BY <1>2 DEF LossInv, RecsOk
  <2>1. ASSUME NEW i \in 1 .. Len(queue), IsRecord(queue[i], k) PROVE RecordKept(k)'
    <3>1. queue[i] \in lost'
      BY <1>3
    <3> QED
      BY <2>1, <3>1 DEF RecordKept, IsRecord
  <2>2. RecordKept(k) => RecordKept(k)'
    BY <1>1 DEF RecordKept
  <2> QED
    BY <2>1, <2>2 DEF RecOk
<1>11. TwapIds'
  BY <1>2 DEF TwapIds, TwapAt
<1> QED
  BY <1>5, <1>6, <1>7, <1>8, <1>9, <1>10, <1>11 DEF LossInv

LEMMA FlushLoss ==
  ASSUME TypesOk, LossInv, Flush
  PROVE  LossInv'
<1> DEFINE tw == [k \in DOMAIN pg.twap |-> [pg.twap[k] EXCEPT !.said = {}]]
<1>1. /\ acct' = FALSE /\ orders' = NoRows /\ fills' = NoRows /\ unsaid' = {} /\ queue' = <<>> /\ queue = <<>>
      /\ lost' = {w \in lost : w.kind \in {"record", "twap"}} /\ counts' = counts
      /\ pg' = [pg EXCEPT !.twap = tw]
  BY DEF Flush, TypesOk, Calm
<1>2. DOMAIN tw = DOMAIN pg.twap /\ \A x \in DOMAIN pg.twap : tw[x].of = pg.twap[x].of
  <2>1. \A x \in DOMAIN pg.twap : pg.twap[x] \in [of : Nat, said : SUBSET Nat, found : SUBSET Nat]
    BY DEF TypesOk, SinkTypes, PgTypes
  <2> QED
    BY <2>1
<1> HIDE DEF tw
<1>3. pg'.twap = tw /\ pg'.records = pg.records
  BY <1>1 DEF TypesOk, SinkTypes, PgTypes
<1>4. DOMAIN orders' = {} /\ DOMAIN fills' = {} /\ ToSet(queue') = {} /\ Len(queue) = 0
  BY <1>1, NoRowsAre, EmptyQueue
<1>5. UserFirst' /\ FillsAgree' /\ FillsOk' /\ UnsaidTells' /\ OrdersOk'
  BY <1>1, <1>4 DEF UserFirst, FillsAgree, FillsOk, UnsaidTells, OrdersOk
<1>6. RecsOk'
  <2> SUFFICES ASSUME NEW k, RecOk(k) PROVE RecOk(k)'
    BY <1>1 DEF LossInv, RecsOk
  <2>1. RecordKept(k)
    BY <1>4 DEF RecOk
  <2>2. (\E x \in DOMAIN pg.twap : pg.twap[x].of = k) => \E x \in DOMAIN pg'.twap : pg'.twap[x].of = k
    BY <1>2, <1>3
  <2>3. ASSUME NEW w \in lost, <<w.kind, w.key>> = <<"record", k>> \/ <<w.kind, w.oid>> = <<"twap", k>>
        PROVE  w \in lost'
    BY <1>1, <2>3
  <2>4. <<"twap", k>> \in odd => <<"twap", k>> \in odd'
    BY DEF Flush
  <2> QED
    BY <1>3, <2>1, <2>2, <2>3, <2>4 DEF RecordKept, RecOk
<1>7. TwapIds'
  <2>1. Len(queue') = 0
    BY <1>1, EmptyQueue
  <2> QED
    BY <2>1 DEF TwapIds, TwapAt
<1> QED
  BY <1>5, <1>6, <1>7 DEF LossInv

LEMMA QuietLoss ==
  ASSUME LossInv, Quiet
  PROVE  LossInv'
<1>1. UNCHANGED <<acct, twaps, orders, fills, unsaid, queue, pg, lost, counts>> /\ odd \subseteq odd'
  BY DEF Quiet
<1>2. \A t : (OddTid(t) => OddTid(t)') /\ (OddOrder(t) => OddOrder(t)')
  BY <1>1 DEF OddTid, OddOrder
<1>3. UserFirst' /\ RecsOk'
  BY <1>1 DEF LossInv, UserFirst, RecsOk, RecOk, RecordKept, IsRecord
<1>8. TwapIds'
  BY <1>1 DEF LossInv, TwapIds, TwapAt, OddTwap
<1>4. FillsAgree'
  BY <1>1, <1>2 DEF LossInv, FillsAgree, Agrees
<1>5. FillsOk'
  <2>1. \A t, o : FillOf(t, o) => FillOf(t, o)'
    BY <1>1, <1>2 DEF FillOf, FillWaits
  <2> QED
    BY <1>1, <2>1 DEF LossInv, FillsOk, FillOk
<1>6. UnsaidTells'
  BY <1>1, <1>2 DEF LossInv, UnsaidTells, Of, Tells
<1>7. OrdersOk'
  <2>1. \A o, s : OrderOf(o, s) => OrderOf(o, s)'
    BY <1>1, <1>2 DEF OrderOf, LaterTells, Of
  <2> QED
    BY <1>1, <2>1 DEF LossInv, OrdersOk, OrderOk
<1> QED
  BY <1>3, <1>4, <1>5, <1>6, <1>7, <1>8 DEF LossInv

LEMMA LossInit == Init => LossInv
<1> SUFFICES ASSUME Init PROVE LossInv
  OBVIOUS
<1>1. /\ DOMAIN orders = {} /\ DOMAIN fills = {} /\ unsaid = {} /\ ToSet(queue) = {} /\ acct = FALSE
      /\ counts.records = 0 /\ Len(queue) = 0
  BY NoRowsAre, EmptyQueue DEF Init
<1>2. TwapIds
  BY <1>1 DEF TwapIds, TwapAt
<1> QED
  BY <1>1, <1>2 DEF LossInv, UserFirst, FillsAgree, FillsOk, UnsaidTells, OrdersOk, RecsOk

LEMMA LossNext ==
  ASSUME TypesOk, LossInv, [Next]_persistVars
  PROVE  LossInv'
<1>1. CASE EngineOrEvent
  BY <1>1, EngineUser, EngineAgree, EngineFillsOk, EngineOrders, EngineTwapIds, EngineRecs DEF LossInv
<1>2. CASE WriteNext \/ WriteFails
  <2> DEFINE h == queue[1]
  <2>1. Popped(h)
    BY <1>2, Pops DEF LossInv
  <2>2. ASSUME NEW x, Popped(x) PROVE LossInv'
    BY <2>2, PoppedUser, PoppedAgree, PoppedFills, PoppedOrders, PoppedTwapIds, PoppedRecs DEF LossInv
  <2> HIDE DEF h
  <2> QED
    BY <2>1, <2>2
<1>3. CASE Sync \/ Idle
  <2>1. Quiet
    BY <1>3, QuietSteps, IdleIsQuiet DEF Sync
  <2> QED
    BY <2>1, QuietLoss
<1> QED
  BY <1>1, <1>2, <1>3, CrashLoss, FlushLoss, NextCases

\* Once every event is said and every write has run, Postgres agrees with Redis on every order, fill
\* and record but the ones whose own write was lost and the odd ones (LossIsLocal).
THEOREM LossesLocal == Spec => []LossIsLocal
<1>1. Init => TypesOk /\ LossInv
  BY TypesInit, LossInit
<1>2. TypesOk /\ LossInv /\ [Next]_persistVars => TypesOk' /\ LossInv'
  BY TypesNext, LossNext
<1>3. LossInv => LossIsLocal
  <2> SUFFICES ASSUME LossInv, Settled
               PROVE  /\ \A o \in DOMAIN orders : OrderKept(o)
                      /\ \A t \in DOMAIN fills : FillKept(t)
                      /\ \A k \in 1 .. counts.records : RecordKept(k)
    BY DEF LossIsLocal
  <2>1. unsaid = {} /\ Len(queue) = 0
    BY EmptyQueue DEF Settled
  <2>2. ASSUME NEW o \in DOMAIN orders PROVE OrderKept(o)
    BY <2>1 DEF LossInv, OrdersOk, OrderOk, OrderOf, OrderKept, OddOrder
  <2>3. ASSUME NEW t \in DOMAIN fills PROVE FillKept(t)
    <3>1. FillOf(t, fills[t]) /\ (t \in DOMAIN pg.fills => OddTid(t) \/ pg.fills[t] = fills[t])
      BY DEF LossInv, FillsOk, FillOk, FillsAgree
    <3>2. ~FillWaits(t, fills[t])
      BY <2>1 DEF FillWaits
    <3> QED
      BY <2>1, <3>1, <3>2 DEF FillOf, FillKept, OddTid
  <2>4. ASSUME NEW k \in 1 .. counts.records PROVE RecordKept(k)
    BY <2>1 DEF LossInv, RecsOk, RecOk
  <2> QED
    BY <2>2, <2>3, <2>4
<1> QED
  BY <1>1, <1>2, <1>3, PTL DEF Spec
=============================================================================
