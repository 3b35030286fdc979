----------------------------- MODULE TwapProofs -----------------------------
(***************************************************************************)
(* Trailing stops and TWAPs of a user, for any stops, requests, trades,    *)
(* prices and clock: the trigger of a resting stop never loosens, a        *)
(* reduce-only order only reduces, the orphans of a change of position are *)
(* ended before its section is left, the history of a stop is one life,    *)
(* and a TWAP trades no more than it was asked for.                        *)
(*                                                                         *)
(* TrInv holds what the properties share: in a section the size a fill     *)
(* read is the position; a stop that rests is in orders:trailing; what the *)
(* matcher read of a stop before the mark is what the stop still holds.    *)
(* TwInv adds the TWAP: what its slices traded is the progress that was    *)
(* saved, plus the slice of a pass that has not saved it yet. OrphanInv    *)
(* follows the list of a section: a stop that the new position orphans is  *)
(* on the list still to be walked, or has ended, as long as no reset tore  *)
(* the section (torn).  HistInv follows a stop beside its rows: the rows   *)
(* are those of its status (Life), except while the fill that fired it or  *)
(* the tick that cancelled it still owes them; a stop that a reset wrote   *)
(* over (silent) keeps the rows it had (Closed), of one of four shapes.    *)
(***************************************************************************)
EXTENDS Twap, SequenceTheorems, TLAPS

Procs == {"matcher", "trader"}
Section == {"write", "list", "orphans", "end"}
StopStatus == {"none", "open", "cancelled", "filled", "reduceOnlyCanceled", "marginCanceled"}

Params == [isBuy : BOOLEAN, kind : {"px", "pct"}, value : Nat, act : Nat \cup {None}]
Body == [sz : Nat, best : Nat \cup {None}, trigger : Int \cup {None}, limit : Int]
Stop == [status : StopStatus, p : Params, sz : Nat, filled : Nat, ro : BOOLEAN,
         best : Nat \cup {None}, trigger : Int \cup {None}, limit : Int, snap : Body]
Fill == [stage : Section \cup {"none", "wait"}, oid : Stops \cup {None}, buy : BOOLEAN, sz : Nat,
         ro : BOOLEAN, cur : Int, torn : BOOLEAN, todo : SUBSET Stops, at : Stops \cup {None}, held : Stop]
Match == [stage : {"idle", "next", "price", "stamp", "fire", "freeze", "margin", "end"},
          todo : SUBSET Stops, oid : Stops \cup {None}, data : Stop, px : Nat]
Client == [stage : {"idle", "stamp", "refresh", "place", "cancel"}, oid : Stops \cup {None},
           wire : WireType \cup {None}, data : Stop, px : Nat, tried : BOOLEAN]

Types ==
  /\ order \in [Stops -> Stop] /\ trailing \subseteq Stops /\ seen \subseteq Stops
  /\ mark \in [px : Nat, fresh : BOOLEAN] /\ szi \in Int
  /\ lock \in Procs \cup {None} /\ fill \in [Procs -> Fill]
  /\ matcher \in Match /\ client \in Client

SweepTypes ==
  /\ schedule \in [stage : {"idle", "read", "tell"}, todo : SUBSET Stops, due : SUBSET Stops]
  /\ reset \in [stage : {"idle", "orders", "write"}, held : BOOLEAN, oids : SUBSET Stops]
  /\ gone \subseteq Stops /\ silent \subseteq Stops /\ unsnapped \subseteq Stops

StopOk(d) ==
  /\ d.status = "none" => d = NoStop
  /\ d.p.kind = "pct" => d.p.value <= 99
  /\ d.best # None => d.trigger = computeTrigger(d.p, d.best)

StopsOk(ord, tr, sn) ==
  \A o \in Stops : /\ StopOk(ord[o])
                   /\ ord[o].status = "open" => o \in tr
                   /\ o \in tr \cup sn => ord[o].status # "none"

FillOk(w, f, lk, z, ord) ==
  /\ f.stage \in Section <=> lk = w
  /\ f.stage \in Section /\ ~f.torn => f.cur = z
  /\ f.stage = "none" => f = NoFill
  /\ f.oid \in Stops => ord[f.oid].status # "none"
  /\ f.stage = "end" => f.at \in Stops /\ ord[f.at].status # "none"
  /\ w = "trader" => f.oid = None

MatchOk(m, ord, f) ==
  /\ m.stage \notin {"idle", "next"} =>
       /\ m.oid \in Stops /\ ord[m.oid].status # "none" /\ f["matcher"] = NoFill
       /\ m.data.p = ord[m.oid].p
  /\ m.stage \in {"price", "stamp"} => m.data.best = ord[m.oid].best

ClientOk(k, ord) ==
  /\ k.stage \in {"stamp", "refresh", "place"} => k.wire \in WireType /\ validateTrailingStop(k.wire)
  /\ k.stage = "cancel" => k.oid \in Stops /\ ord[k.oid].status # "none"

TrInv ==
  /\ Types /\ StopsOk(order, trailing, seen)
  /\ \A w \in Procs : FillOk(w, fill[w], lock, szi, order)
  /\ MatchOk(matcher, order, fill) /\ ClientOk(client, order)

\* The matcher is with the stops or with the TWAP.
PassOk ==
  /\ pass.stage = "idle" => pass = NoTwapPass
  /\ pass.stage # "idle" => matcher.stage = "idle"
  /\ pass.stage \in {"read", "finish", "submit", "bump"} => fill["matcher"] = NoFill

-----------------------------------------------------------------------------
(* The invariants of the single properties.                                *)

\* The orphans of the position as it is are ended, or the section that changed
\* it still has them to end.
Bad(d, z) == d.status = "open" /\ d.ro /\ ~canReduce(d.p.isBuy, z)

OrphanOk(lk, f, z, ord, sn) ==
  \A o \in sn : Bad(ord[o], z) =>
    /\ lk \in Procs /\ f[lk].stage # "write" /\ ~f[lk].torn
    /\ f[lk].stage = "list" \/ o \in f[lk].todo \/ (f[lk].stage = "end" /\ f[lk].at = o)

\* The rows of a stop that one writer ended, by its status.
RowType == [status : {"open", "canceled", "reduceOnlyCanceled", "triggered", "filled", "marginCanceled"},
            body : Body]

Firing(f, o) == f["matcher"].oid = o /\ f["matcher"].stage \in {"list", "orphans", "end"}

Life(d, r, firing, telling, snapped) ==
  /\ d.status = "none" => r = <<>>
  /\ d.status # "none" => r # <<>> /\ r[1].status = "open"
  /\ firing => d.status = "filled"
  /\ telling => d.status = "cancelled" /\ ~snapped
  /\ d.status = "open" \/ firing \/ telling => Len(r) = 1
  /\ d.status = "cancelled" /\ ~telling =>
       Len(r) = 2 /\ r[2].status = "canceled" /\ (snapped => r[2].body = d.snap)
  /\ d.status = "reduceOnlyCanceled" =>
       Len(r) = 2 /\ r[2].status = "reduceOnlyCanceled" /\ r[2].body = d.snap
  /\ d.status = "marginCanceled" =>
       /\ Len(r) = 3 /\ r[2].status = "triggered"
       /\ r[3].status = "marginCanceled" /\ r[3].body = d.snap
  /\ d.status = "filled" /\ ~firing =>
       /\ Len(r) = 3 /\ r[2].status = "triggered"
       /\ r[3].status = "filled" /\ r[3].body = buildTrailingBody(d, TRUE)

\* The rows of a stop that a reset wrote over.
Shape(r) ==
  \/ r = <<>>
  \/ Len(r) = 1 /\ r[1].status = "open"
  \/ Len(r) = 2 /\ r[1].status = "open" /\ r[2].status \in {"canceled", "reduceOnlyCanceled"}
  \/ /\ Len(r) = 3 /\ r[1].status = "open" /\ r[2].status = "triggered"
     /\ r[3].status \in {"filled", "marginCanceled"}

Closed(d, r, firing, telling) ==
  /\ d.status = "cancelled" /\ Shape(r) /\ ~(firing /\ telling)
  /\ firing \/ telling => Len(r) = 1 /\ r[1].status = "open"

Telling(s, o) == s.stage = "tell" /\ o \in s.todo

Story(d, r, firing, telling, sil, snapped) ==
  IF sil THEN Closed(d, r, firing, telling) ELSE Life(d, r, firing, telling, snapped)

Unfilled(m, ord) == m.stage \notin {"idle", "next"} => m.oid \in Stops /\ ord[m.oid].status # "filled"

HistInv ==
  /\ rows \in [Stops -> Seq(RowType)] /\ raced \subseteq Stops
  /\ Unfilled(matcher, order)
  /\ \A o \in Stops \ raced :
       Story(order[o], rows[o], Firing(fill, o), Telling(schedule, o), o \in silent, o \notin unsnapped)

\* The progress of a TWAP.
TwapStatus == {"none", "running", "cancelled", "finished"}
TwapRec == [status : TwapStatus, buy : BOOLEAN, ro : BOOLEAN, total : Nat, slices : Nat,
            filled : Nat, start : Nat, next : Nat]
Slice == [stage : {"idle", "read", "finish", "submit", "slice", "bump"}, data : TwapRec,
          now : Nat, slice : Nat]

TwapTypes ==
  /\ now \in Nat /\ twap \in TwapRec /\ active \in BOOLEAN /\ pass \in Slice
  /\ canceller \in TwapRec \cup {None} /\ executed \in Nat /\ clobbered \in BOOLEAN
  /\ history \in [status : TwapStatus, executed : Nat] \cup {None}

\* What the slices traded is the progress that was saved and, once the slice
\* of this pass went through, that slice; less when it was clamped.
Counts(x, t, n) == x <= n /\ (~t.ro => x = n)

TwapOk ==
  /\ twap.status = "none" => twap = NoTwap /\ ~active /\ executed = 0 /\ history = None
  /\ twap.status # "none" => twap.slices > 0
  /\ pass.stage # "idle" => twap.status # "none"
  /\ pass.stage \in {"finish", "submit", "slice", "bump"} =>
       pass.data = [twap EXCEPT !.status = "running"]
  /\ pass.stage \in {"submit", "slice"} => pass.slice > 0 /\ twap.filled + pass.slice <= twap.total
  /\ twap.filled <= twap.total
  /\ pass.stage # "slice" => Counts(executed, twap, twap.filled)

SliceOk ==
  LET f == fill["matcher"] IN
  pass.stage = "slice" =>
    /\ f.stage \in {"wait", "write"} =>
         f.sz = pass.slice /\ f.ro = twap.ro /\ Counts(executed, twap, twap.filled)
    /\ f.stage \notin {"wait", "write"} => Counts(executed, twap, twap.filled + pass.slice)

HistoryOk ==
  /\ twap.status = "running" => history = None
  /\ active => twap.status = "running"
  /\ canceller # None => canceller.status = "running" /\ twap.status # "none"
  /\ history # None /\ ~clobbered =>
       /\ pass.stage = "idle" /\ history.status = twap.status
       /\ ~twap.ro => history.executed = executed

-----------------------------------------------------------------------------
(* The rules and the records.                                              *)

LEMMA Nones == None \notin Int /\ None \notin Nat /\ None \notin Stops /\ None \notin Procs
  BY TrailingAssumption DEF Procs

LEMMA NoStopType == NoStop \in Stop /\ StopOk(NoStop)
  BY Nones DEF NoStop, NoParams, NoBody, Stop, StopStatus, Params, Body, StopOk

LEMMA NoFillType == NoFill \in Fill
  BY NoStopType DEF NoFill, Fill, Section

LEMMA NoPassType == NoPass \in Match
  BY NoStopType DEF NoPass, Match

LEMMA NoRequestType == NoRequest \in Client
  BY NoStopType DEF NoRequest, Client

LEMMA BodyType ==
  ASSUME NEW d \in Stop, NEW fin \in BOOLEAN
  PROVE  buildTrailingBody(d, fin) \in Body
  BY DEF Stop, Body, buildTrailingBody, remainderSz

LEMMA TriggerType ==
  ASSUME NEW p \in Params, NEW best \in Nat
  PROVE  computeTrigger(p, best) \in Int
<1>1. p.value \in Nat /\ p.isBuy \in BOOLEAN
  BY DEF Params
<1>2. \A sign \in {1, -1} : best * (100 + sign * p.value) + 50 \in Int
  BY <1>1
<1>3. \A n \in Int : n \div 100 \in Int
  OBVIOUS
<1> QED
  BY <1>1, <1>2, <1>3 DEF computeTrigger

LEMMA LimitType ==
  ASSUME NEW p \in Params, NEW t \in Int
  PROVE  computeLimit(p, t) \in Int
  BY DEF computeLimit, Params

\* A step of the state machine, whatever the mark.
LEMMA Evaluated ==
  ASSUME NEW p \in Params, NEW prev \in Nat \cup {None}, NEW m \in Nat
  PROVE  LET ev == evaluateTrailing(p, prev, m) IN
         /\ ev.best \in Nat \cup {None} /\ ev.trigger \in Int \cup {None} /\ ev.limit \in Int
         /\ ev.best # None => ev.trigger = computeTrigger(p, ev.best)
         /\ prev # None => ev.best = Better(p, prev, m)
<1> DEFINE best == IF prev = None THEN (IF Reached(p, m) THEN m ELSE None) ELSE Better(p, prev, m)
           from == IF best = None THEN p.act ELSE best
           trigger == computeTrigger(p, from)
<1>1. best \in Nat \cup {None}
  BY DEF Better
<1>2. from \in Nat
  BY <1>1, Nones DEF Reached, Better, Params
<1> HIDE DEF from
<1>3. trigger \in Int /\ computeLimit(p, trigger) \in Int
  BY <1>2, TriggerType, LimitType
<1>4. evaluateTrailing(p, prev, m) =
        [best |-> best, trigger |-> IF best = None THEN None ELSE trigger,
         limit |-> computeLimit(p, trigger), fire |-> best # None /\ Crossed(p, m, trigger)]
  BY DEF evaluateTrailing, from
<1>5. best # None => from = best
  BY DEF from
<1>6. prev # None => best = Better(p, prev, m)
  OBVIOUS
<1> HIDE DEF best, trigger
<1>7. trigger = computeTrigger(p, from)
  BY DEF trigger
<1> QED
  BY <1>1, <1>3, <1>4, <1>5, <1>6, <1>7

\* What validateTrailingStop lets through.
LEMMA WireParams ==
  ASSUME NEW w \in WireType, validateTrailingStop(w)
  PROVE  /\ paramsFromWire(w) \in Params
         /\ paramsFromWire(w).kind = "pct" => paramsFromWire(w).value <= 99
<1>1. w.value \in Nat /\ w.kind \in {"px", "pct"} /\ w.isBuy \in BOOLEAN /\ w.act \in Nat \cup {None}
  BY DEF WireType
<1>2. Grain \in Nat \ {0}
  BY TrailingAssumption
<1>3. w.value \div Grain \in Nat
  BY <1>1, <1>2
<1>4. w.kind = "pct" => w.value < 100 * Grain
  BY <1>1, <1>2 DEF validateTrailingStop
<1>5. w.kind = "pct" => w.value \div Grain <= 99
  BY <1>1, <1>2, <1>3, <1>4, Z3
<1> QED
  BY <1>1, <1>3, <1>5 DEF paramsFromWire, normalizePx, Params

-----------------------------------------------------------------------------
(* TrInv, step by step.                                                    *)

\* What every step leaves of a stop that was placed.
Kept(d, e) == d.status # "none" => e.status # "none" /\ e.p = d.p

LEMMA CarryFill ==
  ASSUME NEW w, NEW f, NEW lk, NEW z, NEW ord, NEW ord2,
         \A o \in Stops : Kept(ord[o], ord2[o]), FillOk(w, f, lk, z, ord)
  PROVE  FillOk(w, f, lk, z, ord2)
  BY DEF FillOk, Kept

LEMMA CarryMatch ==
  ASSUME NEW m, NEW f, NEW ord, NEW ord2,
         \A o \in Stops : Kept(ord[o], ord2[o]), MatchOk(m, ord, f),
         \A o \in Stops : ord2[o].best = ord[o].best
  PROVE  MatchOk(m, ord2, f)
  BY DEF MatchOk, Kept

LEMMA CarryClient ==
  ASSUME NEW k, NEW ord, NEW ord2,
         \A o \in Stops : Kept(ord[o], ord2[o]), ClientOk(k, ord)
  PROVE  ClientOk(k, ord2)
  BY DEF ClientOk, Kept

\* A stop as a writer of an end leaves it.
WithEnd(d, s, b) == [d EXCEPT !.status = s, !.snap = b]

LEMMA EndedType ==
  ASSUME NEW d \in Stop, NEW s \in StopStatus, NEW b \in Body
  PROVE  /\ WithEnd(d, s, b) \in Stop /\ WithEnd(d, s, b).status = s /\ WithEnd(d, s, b).snap = b
         /\ WithEnd(d, s, b).p = d.p /\ WithEnd(d, s, b).best = d.best
         /\ WithEnd(d, s, b).trigger = d.trigger /\ WithEnd(d, s, b).ro = d.ro
  BY DEF Stop, WithEnd

\* A stop that is ended.
LEMMA Ended ==
  ASSUME Types, StopsOk(order, trailing, seen), NEW o \in Stops, order[o].status # "none",
         NEW s \in StopStatus \ {"none", "open"}, NEW b \in Body,
         order' = [order EXCEPT ![o].status = s, ![o].snap = b], trailing' = trailing \ {o}
  PROVE  /\ order' \in [Stops -> Stop] /\ trailing' \subseteq Stops
         /\ StopsOk(order', trailing', seen)
         /\ \A x \in Stops : Kept(order[x], order'[x]) /\ order'[x].best = order[x].best
<1>1. order \in [Stops -> Stop] /\ trailing \subseteq Stops /\ seen \subseteq Stops
  BY DEF Types
<1>2. /\ order'[o] = WithEnd(order[o], s, b)
      /\ \A x \in Stops \ {o} : order'[x] = order[x]
  BY <1>1 DEF WithEnd
<1>3. /\ order'[o] \in Stop /\ order'[o].status = s /\ order'[o].p = order[o].p
      /\ order'[o].best = order[o].best /\ order'[o].trigger = order[o].trigger
  <2>1. order[o] \in Stop /\ s \in StopStatus
    BY <1>1
  <2> QED
    BY <1>2, <2>1, EndedType
<1>4. order' \in [Stops -> Stop]
  BY <1>1, <1>3
<1>5. StopOk(order'[o])
  BY <1>3 DEF StopsOk, StopOk
<1> QED
  BY <1>1, <1>2, <1>3, <1>4, <1>5 DEF StopsOk, Kept

LEMMA MarkSteps ==
  ASSUME TrInv, (\E p \in Prices : MarkFrame(p)) \/ MarkAges
  PROVE  TrInv'
<1>1. mark' \in [px : Nat, fresh : BOOLEAN]
  <2>1. mark \in [px : Nat, fresh : BOOLEAN]
    BY DEF TrInv, Types
  <2>2. ASSUME NEW p \in Prices, MarkFrame(p)
        PROVE  mark' \in [px : Nat, fresh : BOOLEAN]
    BY <2>2, TrailingAssumption DEF MarkFrame
  <2>3. CASE MarkAges
    BY <2>1, <2>3 DEF MarkAges
  <2> QED
    BY <2>2, <2>3
<1>2. UNCHANGED <<orderVars, fillVars, matcher, client>>
  BY DEF MarkFrame, MarkAges
<1> QED
  BY <1>1, <1>2 DEF TrInv, Types, orderVars, fillVars

LEMMA ClientReads ==
  ASSUME TrInv,
         (\E w \in Wires : PlaceReadPx(w)) \/ PlaceReadStamp \/ PlaceRefresh \/ (\E o \in Stops : CancelRead(o))
  PROVE  TrInv'
<1>1. UNCHANGED <<orderVars, fillVars, matcher>>
  BY DEF PlaceReadPx, PlaceReadStamp, PlaceRefresh, CancelRead
<1>2. /\ order \in [Stops -> Stop] /\ mark \in [px : Nat, fresh : BOOLEAN] /\ client \in Client
      /\ ClientOk(client, order)
  BY DEF TrInv, Types
<1>3. mark' \in [px : Nat, fresh : BOOLEAN] /\ client' \in Client /\ ClientOk(client', order)
  <2>1. ASSUME NEW w \in Wires, PlaceReadPx(w)
        PROVE  mark' \in [px : Nat, fresh : BOOLEAN] /\ client' \in Client /\ ClientOk(client', order)
    BY <2>1, <1>2, TrailingAssumption, NoStopType
       DEF PlaceReadPx, Client, ClientOk, NoRequest, markVars
  <2>2. CASE PlaceReadStamp
    BY <2>2, <1>2, NoRequestType DEF PlaceReadStamp, Client, ClientOk, NoRequest, markVars
  <2>3. CASE PlaceRefresh
    <3>1. mark' \in [px : Nat, fresh : BOOLEAN]
      <4>1. ASSUME NEW p \in Prices, mark' = [px |-> p, fresh |-> TRUE]
            PROVE  mark' \in [px : Nat, fresh : BOOLEAN]
        BY <4>1, TrailingAssumption
      <4> QED
        BY <2>3, <1>2, <4>1 DEF PlaceRefresh
    <3> QED
      BY <2>3, <1>2, <3>1 DEF PlaceRefresh, Client, ClientOk
  <2>4. ASSUME NEW o \in Stops, CancelRead(o)
        PROVE  mark' \in [px : Nat, fresh : BOOLEAN] /\ client' \in Client /\ ClientOk(client', order)
    BY <2>4, <1>2, NoStopType DEF CancelRead, Client, ClientOk, NoRequest, markVars
  <2> QED
    BY <2>1, <2>2, <2>3, <2>4
<1> QED
  BY <1>1, <1>3 DEF TrInv, Types, orderVars, fillVars

\* What placeTrailingStop saves.
LEMMA Placed ==
  ASSUME TrInv, NEW o \in Stops, placeTrailingStop(o)
  PROVE  \E e \in Stop, b \in Body :
           /\ e.status = "open" /\ StopOk(e) /\ order[o] = NoStop /\ client' = NoRequest
           /\ UNCHANGED <<fillVars, markVars, matcher, raced>>
           /\ \/ /\ order' = [order EXCEPT ![o] = e] /\ trailing' = trailing \cup {o}
                 /\ rows' = [rows EXCEPT ![o] = Append(@, [status |-> "open", body |-> b])]
              \/ UNCHANGED <<order, trailing, rows>>
<1> DEFINE p == paramsFromWire(client.wire)
           ev == evaluateTrailing(p, None, client.px)
           d == [NoStop EXCEPT !.status = "open", !.p = p, !.sz = client.wire.sz, !.ro = client.wire.ro,
                               !.best = ev.best, !.trigger = ev.trigger, !.limit = ev.limit]
           body == buildTrailingBody(d, FALSE)
           e == [d EXCEPT !.snap = body]
<1>1. /\ order \in [Stops -> Stop] /\ trailing \subseteq Stops /\ client \in Client
      /\ ClientOk(client, order) /\ StopsOk(order, trailing, seen) /\ seen \subseteq Stops
  BY DEF TrInv, Types
<1>2. client.stage = "place" /\ order[o] = NoStop
  BY DEF placeTrailingStop
<1>3. client.wire \in WireType /\ validateTrailingStop(client.wire) /\ client.px \in Nat
  BY <1>1, <1>2 DEF ClientOk, Client
<1>4. p \in Params /\ (p.kind = "pct" => p.value <= 99)
  BY <1>3, WireParams
<1> HIDE DEF p
<1>5. /\ ev.best \in Nat \cup {None} /\ ev.trigger \in Int \cup {None} /\ ev.limit \in Int
      /\ ev.best # None => ev.trigger = computeTrigger(p, ev.best)
  BY <1>3, <1>4, Evaluated
<1> HIDE DEF ev
<1>6. client.wire.sz \in Nat /\ client.wire.ro \in BOOLEAN
  BY <1>3 DEF WireType
<1>7. /\ d \in Stop /\ d.status = "open" /\ d.p = p /\ d.best = ev.best /\ d.trigger = ev.trigger
  BY <1>4, <1>5, <1>6, NoStopType DEF Stop, NoStop, StopStatus
<1>8. body \in Body
  BY <1>7, BodyType
<1> HIDE DEF d, body
<1>9. e \in Stop /\ e.status = "open" /\ e.p = p /\ e.best = ev.best /\ e.trigger = ev.trigger
  BY <1>7, <1>8 DEF Stop
<1>10. StopOk(e)
  BY <1>4, <1>5, <1>9 DEF StopOk
<1> HIDE DEF e
<1>11. /\ client' = NoRequest /\ UNCHANGED <<fillVars, markVars, matcher, raced>>
       /\ \/ /\ order' = [order EXCEPT ![o] = e] /\ trailing' = trailing \cup {o}
             /\ rows' = [rows EXCEPT ![o] = Append(@, [status |-> "open", body |-> body])]
          \/ UNCHANGED <<order, trailing, rows>>
  BY DEF placeTrailingStop, emitTrailingHistory, p, ev, d, body, e
<1> QED
  BY <1>2, <1>8, <1>9, <1>10, <1>11

LEMMA PlaceStep ==
  ASSUME TrInv, NEW o \in Stops, placeTrailingStop(o)
  PROVE  TrInv'
<1>1. /\ order \in [Stops -> Stop] /\ trailing \subseteq Stops /\ StopsOk(order, trailing, seen)
      /\ seen \subseteq Stops
  BY DEF TrInv, Types
<1>2. PICK e \in Stop :
        /\ e.status = "open" /\ StopOk(e) /\ order[o] = NoStop /\ client' = NoRequest
        /\ UNCHANGED <<fillVars, markVars, matcher>>
        /\ \/ order' = [order EXCEPT ![o] = e] /\ trailing' = trailing \cup {o}
           \/ UNCHANGED <<order, trailing>>
  BY Placed
<1>3. order[o].status = "none"
  BY <1>2 DEF NoStop
<1>4. /\ order' \in [Stops -> Stop] /\ trailing' \subseteq Stops
      /\ StopsOk(order', trailing', seen)
      /\ \A x \in Stops : Kept(order[x], order'[x]) /\ (order'[x] = order[x] \/ x = o)
  BY <1>1, <1>2, <1>3 DEF StopsOk, Kept
<1>5. MatchOk(matcher, order', fill)
  BY <1>3, <1>4 DEF TrInv, MatchOk, Kept
<1>6. \A w \in Procs : FillOk(w, fill[w], lock, szi, order')
  BY <1>4, CarryFill DEF TrInv
<1>7. NoRequest \in Client /\ ClientOk(NoRequest, order')
  BY NoRequestType DEF ClientOk, NoRequest
<1>8. /\ seen' = seen /\ szi' = szi /\ lock' = lock /\ fill' = fill /\ matcher' = matcher
      /\ mark' = mark /\ client' = NoRequest
  BY <1>2 DEF fillVars, markVars
<1>9. Types'
  BY <1>4, <1>7, <1>8 DEF TrInv, Types
<1> QED
  BY <1>4, <1>5, <1>6, <1>7, <1>8, <1>9 DEF TrInv

LEMMA CancelStep ==
  ASSUME TrInv, CancelWrite
  PROVE  TrInv'
<1> DEFINE o == client.oid
           body == buildTrailingBody(client.data, FALSE)
<1>1. /\ client.stage = "cancel" /\ client \in Client /\ ClientOk(client, order) /\ Types
      /\ StopsOk(order, trailing, seen)
  BY DEF TrInv, Types, CancelWrite
<1>2. o \in Stops /\ order[o].status # "none"
  BY <1>1 DEF ClientOk
<1>3. body \in Body
  BY <1>1, BodyType DEF Client
<1>4. /\ order' = [order EXCEPT ![o].status = "cancelled", ![o].snap = body]
      /\ trailing' = trailing \ {o} /\ client' = NoRequest /\ UNCHANGED <<fillVars, markVars, matcher>>
  BY DEF CancelWrite
<1> HIDE DEF o, body
<1>5. /\ order' \in [Stops -> Stop] /\ trailing' \subseteq Stops
      /\ StopsOk(order', trailing', seen)
      /\ \A x \in Stops : Kept(order[x], order'[x]) /\ order'[x].best = order[x].best
  BY <1>1, <1>2, <1>3, <1>4, Ended DEF StopStatus
<1>6. MatchOk(matcher, order', fill)
  BY <1>5, CarryMatch DEF TrInv
<1>7. \A w \in Procs : FillOk(w, fill[w], lock, szi, order')
  BY <1>5, CarryFill DEF TrInv
<1>8. NoRequest \in Client /\ ClientOk(NoRequest, order')
  BY NoRequestType DEF ClientOk, NoRequest
<1>9. /\ seen' = seen /\ szi' = szi /\ lock' = lock /\ fill' = fill /\ matcher' = matcher
      /\ mark' = mark
  BY <1>4 DEF fillVars, markVars
<1>10. Types'
  BY <1>1, <1>4, <1>5, <1>8, <1>9 DEF Types
<1> QED
  BY <1>4, <1>5, <1>6, <1>7, <1>8, <1>9, <1>10 DEF TrInv

LEMMA FillMatch ==
  ASSUME NEW w \in Procs, NEW m, NEW ord, NEW f, NEW g, NEW f2,
         MatchOk(m, ord, f), f \in [Procs -> Fill], f[w].stage # "none", f2 = [f EXCEPT ![w] = g]
  PROVE  MatchOk(m, ord, f2)
<1>1. f[w] # NoFill
  BY DEF NoFill
<1> QED
  BY <1>1 DEF MatchOk, Procs

\* The steps of executeFill that write no order.
LEMMA FillMoves ==
  ASSUME TrInv, NEW w \in Procs,
         \/ FillRead(w) \/ FillNothing(w) \/ ReconcileList(w)
         \/ (\E o \in Stops : ReconcileRead(w, o)) \/ FillEnd(w)
  PROVE  TrInv'
<1>1. /\ Types /\ fill \in [Procs -> Fill] /\ fill[w] \in Fill /\ lock \in Procs \cup {None} /\ szi \in Int
      /\ StopsOk(order, trailing, seen) /\ order \in [Stops -> Stop] /\ trailing \subseteq Stops
      /\ FillOk(w, fill[w], lock, szi, order) /\ ClientOk(client, order)
      /\ \A v \in Procs : FillOk(v, fill[v], lock, szi, order)
  BY DEF TrInv, Types
<1>2. fill[w].stage # "none"
  BY DEF FillRead, FillNothing, ReconcileList, ReconcileRead, FillEnd
<1>3. UNCHANGED <<order, trailing, szi, seen, mark, matcher, client>>
  BY DEF FillRead, FillNothing, ReconcileList, ReconcileRead, FillEnd, orderVars, markVars
<1>4. PICK g \in Fill : /\ fill' = [fill EXCEPT ![w] = g] /\ lock' \in Procs \cup {None}
                        /\ FillOk(w, g, lock', szi, order)
                        /\ lock' = lock \/ (lock \in {w, None} /\ lock' \in {w, None})
  <2>1. CASE FillRead(w)
    BY <2>1, <1>1 DEF FillRead, Become, Fill, FillOk, Section
  <2>2. CASE FillNothing(w) \/ FillEnd(w)
    BY <2>2, <1>1, NoFillType, Nones DEF FillNothing, FillEnd, Become, FillOk, Section, NoFill
  <2>3. CASE ReconcileList(w)
    BY <2>3, <1>1 DEF ReconcileList, Become, Fill, FillOk, Section
  <2>4. ASSUME NEW o \in Stops, ReconcileRead(w, o)
        PROVE  \E g \in Fill : /\ fill' = [fill EXCEPT ![w] = g] /\ lock' \in Procs \cup {None}
                               /\ FillOk(w, g, lock', szi, order)
                               /\ lock' = lock \/ (lock \in {w, None} /\ lock' \in {w, None})
    <3> DEFINE orphan == /\ order[o].status = "open" /\ order[o].ro
                         /\ ~canReduce(order[o].p.isBuy, fill[w].cur)
               g == [fill[w] EXCEPT !.todo = @ \ {o}, !.at = o, !.held = order[o],
                                    !.stage = IF orphan THEN "end" ELSE "orphans"]
    <3>1. /\ fill' = [fill EXCEPT ![w] = g] /\ lock' = lock /\ fill[w].stage = "orphans"
      BY <2>4 DEF ReconcileRead, Become
    <3>2. orphan => order[o].status # "none"
      OBVIOUS
    <3> HIDE DEF orphan
    <3>3. order[o] \in Stop
      BY <1>1
    <3>4. /\ g \in Fill /\ g.stage \in {"end", "orphans"} /\ (g.stage = "end" => orphan) /\ g.at = o
          /\ g.cur = fill[w].cur /\ g.oid = fill[w].oid /\ g.torn = fill[w].torn
      BY <1>1, <3>3 DEF Fill, Section
    <3> HIDE DEF g
    <3>5. FillOk(w, g, lock, szi, order)
      BY <1>1, <3>1, <3>2, <3>4 DEF FillOk, Section
    <3> QED
      BY <1>1, <3>1, <3>4, <3>5
  <2> QED
    BY <2>1, <2>2, <2>3, <2>4
<1>5. fill' \in [Procs -> Fill] /\ fill'[w] = g /\ \A v \in Procs \ {w} : fill'[v] = fill[v]
  BY <1>1, <1>4
<1>6. \A v \in Procs : FillOk(v, fill'[v], lock', szi, order)
  BY <1>1, <1>4, <1>5, Nones DEF FillOk
<1>7. MatchOk(matcher, order, fill')
  BY <1>1, <1>2, <1>4, FillMatch DEF TrInv
<1>8. Types'
  BY <1>1, <1>3, <1>4, <1>5 DEF Types
<1> QED
  BY <1>1, <1>3, <1>6, <1>7, <1>8 DEF TrInv

\* A fill's size is at most what was asked.
LEMMA SizeBound ==
  ASSUME NEW f \in Fill
  PROVE  /\ Size(f) \in Nat /\ Size(f) <= f.sz
         /\ ~f.ro => Size(f) = f.sz
         /\ f.ro /\ Size(f) # 0 =>
              IF f.buy THEN f.cur < 0 /\ f.cur + Size(f) <= 0 ELSE f.cur > 0 /\ f.cur - Size(f) >= 0
<1>1. f.sz \in Nat /\ f.cur \in Int /\ f.ro \in BOOLEAN /\ f.buy \in BOOLEAN
  BY DEF Fill
<1> QED
  BY <1>1 DEF Size, canReduce

WithFill(d, n) == [d EXCEPT !.status = "filled", !.filled = n]

LEMMA FilledType ==
  ASSUME NEW d \in Stop, NEW n \in Nat
  PROVE  /\ WithFill(d, n) \in Stop /\ WithFill(d, n).status = "filled" /\ WithFill(d, n).p = d.p
         /\ WithFill(d, n).best = d.best /\ WithFill(d, n).trigger = d.trigger
         /\ WithFill(d, n).ro = d.ro
  BY DEF Stop, WithFill, StopStatus

LEMMA WriteStep ==
  ASSUME TrInv, NEW w \in Procs, FillWrite(w)
  PROVE  TrInv'
<1> DEFINE f == fill[w]
           n == f.cur + (IF f.buy THEN Size(f) ELSE -Size(f))
           g == [f EXCEPT !.stage = "list", !.cur = n, !.torn = FALSE]
<1>1. /\ Types /\ fill \in [Procs -> Fill] /\ f \in Fill /\ lock \in Procs \cup {None} /\ szi \in Int
      /\ StopsOk(order, trailing, seen) /\ order \in [Stops -> Stop] /\ trailing \subseteq Stops
      /\ FillOk(w, f, lock, szi, order) /\ seen \subseteq Stops
      /\ \A v \in Procs : FillOk(v, fill[v], lock, szi, order)
  BY DEF TrInv, Types
<1>2. f.stage = "write" /\ szi' = n /\ seen' = seen \cup trailing /\ fill' = [fill EXCEPT ![w] = g]
      /\ UNCHANGED <<lock, mark, matcher, client>>
  BY DEF FillWrite, Become, markVars
<1>3. n \in Int
  BY <1>1, SizeBound DEF Fill
<1>4. lock = w
  BY <1>1, <1>2 DEF FillOk, Section
<1>5. g \in Fill /\ g.stage = "list" /\ g.cur = n /\ g.oid = f.oid
  BY <1>1, <1>3 DEF Fill, Section
<1>6. /\ order' \in [Stops -> Stop] /\ trailing' \subseteq Stops
      /\ StopsOk(order', trailing', seen')
      /\ \A x \in Stops : Kept(order[x], order'[x]) /\ order'[x].best = order[x].best
  <2>1. CASE f.oid \in Stops
    <3>1. order' = [order EXCEPT ![f.oid].status = "filled", ![f.oid].filled = f.sz]
          /\ trailing' = trailing \ {f.oid}
      BY <2>1 DEF FillWrite
    <3>2. /\ order'[f.oid] = WithFill(order[f.oid], f.sz)
          /\ \A x \in Stops \ {f.oid} : order'[x] = order[x]
      BY <1>1, <2>1, <3>1 DEF WithFill
    <3>3. order[f.oid] \in Stop /\ f.sz \in Nat /\ order[f.oid].status # "none"
      BY <1>1, <2>1 DEF Fill, FillOk
    <3>4. /\ order'[f.oid] \in Stop /\ order'[f.oid].status = "filled"
          /\ order'[f.oid].p = order[f.oid].p /\ order'[f.oid].best = order[f.oid].best
          /\ order'[f.oid].trigger = order[f.oid].trigger
      BY <3>2, <3>3, FilledType
    <3>5. StopOk(order'[f.oid])
      BY <1>1, <2>1, <3>3, <3>4 DEF StopsOk, StopOk
    <3>6. order' \in [Stops -> Stop]
      BY <1>1, <2>1, <3>1, <3>4
    <3> QED
      BY <1>1, <1>2, <2>1, <3>1, <3>2, <3>3, <3>4, <3>5, <3>6 DEF StopsOk, Kept
  <2>2. CASE f.oid \notin Stops
    <3>1. UNCHANGED <<order, trailing>>
      BY <2>2 DEF FillWrite
    <3> QED
      BY <1>1, <1>2, <3>1 DEF StopsOk, Kept
  <2> QED
    BY <2>1, <2>2
<1> HIDE DEF f, n, g
<1>7. fill' \in [Procs -> Fill] /\ fill'[w] = g /\ \A v \in Procs \ {w} : fill'[v] = fill[v]
  BY <1>1, <1>2, <1>5
<1>8. \A v \in Procs : FillOk(v, fill[v], lock, szi, order')
  BY <1>1, <1>6, CarryFill
<1>9. \A v \in Procs : FillOk(v, fill'[v], lock, n, order')
  <2>1. FillOk(w, g, lock, n, order')
    BY <1>2, <1>4, <1>5, <1>8 DEF FillOk, Section, f
  <2>2. ASSUME NEW v \in Procs \ {w}
        PROVE  FillOk(v, fill[v], lock, n, order')
    BY <1>4, <1>8 DEF FillOk
  <2> QED
    BY <1>7, <2>1, <2>2
<1>10. MatchOk(matcher, order', fill)
  BY <1>6, CarryMatch DEF TrInv
<1>11. MatchOk(matcher, order', fill')
  BY <1>1, <1>2, <1>10, FillMatch DEF f
<1>12. ClientOk(client, order')
  BY <1>6, CarryClient DEF TrInv
<1>13. Types'
  BY <1>1, <1>2, <1>3, <1>6, <1>7 DEF Types
<1> QED
  BY <1>2, <1>6, <1>9, <1>11, <1>12, <1>13 DEF TrInv

LEMMA OrphanStep ==
  ASSUME TrInv, NEW w \in Procs, ReconcileEnd(w)
  PROVE  TrInv'
<1> DEFINE f == fill[w]
           body == buildTrailingBody(f.held, FALSE)
           g == [f EXCEPT !.stage = "orphans"]
<1>1. /\ Types /\ fill \in [Procs -> Fill] /\ f \in Fill
      /\ StopsOk(order, trailing, seen) /\ order \in [Stops -> Stop] /\ trailing \subseteq Stops
      /\ FillOk(w, f, lock, szi, order) /\ seen \subseteq Stops
      /\ \A v \in Procs : FillOk(v, fill[v], lock, szi, order)
  BY DEF TrInv, Types
<1>2. /\ f.stage = "end" /\ fill' = [fill EXCEPT ![w] = g]
      /\ order' = [order EXCEPT ![f.at].status = "reduceOnlyCanceled", ![f.at].snap = body]
      /\ trailing' = trailing \ {f.at} /\ UNCHANGED <<szi, seen, lock, mark, matcher, client>>
  BY DEF ReconcileEnd, terminateTrailingStop, Become, markVars
<1>3. f.at \in Stops /\ order[f.at].status # "none"
  BY <1>1, <1>2 DEF FillOk
<1>4. body \in Body
  BY <1>1, BodyType DEF Fill
<1>5. g \in Fill /\ g.stage = "orphans" /\ g.cur = f.cur /\ g.oid = f.oid /\ g.torn = f.torn
  BY <1>1 DEF Fill, Section
<1> HIDE DEF f, body, g
<1>6. /\ order' \in [Stops -> Stop] /\ trailing' \subseteq Stops
      /\ StopsOk(order', trailing', seen)
      /\ \A x \in Stops : Kept(order[x], order'[x]) /\ order'[x].best = order[x].best
  BY <1>1, <1>2, <1>3, <1>4, Ended DEF StopStatus
<1>7. fill' \in [Procs -> Fill] /\ fill'[w] = g /\ \A v \in Procs \ {w} : fill'[v] = fill[v]
  BY <1>1, <1>2, <1>5
<1>8. \A v \in Procs : FillOk(v, fill[v], lock, szi, order')
  BY <1>1, <1>6, CarryFill
<1>9. FillOk(w, g, lock, szi, order')
  BY <1>2, <1>5, <1>8 DEF FillOk, Section, f
<1>10. MatchOk(matcher, order', fill)
  BY <1>6, CarryMatch DEF TrInv
<1>11. MatchOk(matcher, order', fill')
  BY <1>1, <1>2, <1>10, FillMatch DEF f
<1>12. ClientOk(client, order')
  BY <1>6, CarryClient DEF TrInv
<1>13. Types'
  BY <1>1, <1>2, <1>6, <1>7 DEF Types
<1> QED
  BY <1>2, <1>6, <1>7, <1>8, <1>9, <1>11, <1>12, <1>13 DEF TrInv

LEMMA TradeStep ==
  ASSUME TrInv, NEW t \in Trades, Trade(t)
  PROVE  TrInv'
<1> DEFINE g == [NoFill EXCEPT !.stage = "wait", !.buy = t.buy, !.sz = t.sz, !.ro = t.ro]
<1>1. /\ Types /\ fill \in [Procs -> Fill] /\ StopsOk(order, trailing, seen)
      /\ "trader" \in Procs /\ "matcher" \in Procs
      /\ \A v \in Procs : FillOk(v, fill[v], lock, szi, order)
  BY DEF TrInv, Types, Procs
<1>2. /\ fill["trader"] = NoFill /\ fill' = [fill EXCEPT !["trader"] = g]
      /\ UNCHANGED <<order, trailing, szi, seen, lock, mark, matcher, client>>
  BY DEF Trade, Become, markVars, orderVars
<1>3. t.buy \in BOOLEAN /\ t.sz \in Nat /\ t.ro \in BOOLEAN
  BY TrailingAssumption
<1>4. g \in Fill /\ g.stage = "wait" /\ g.oid = None
  BY <1>3, NoFillType DEF Fill, NoFill
<1> HIDE DEF g
<1>5. fill' \in [Procs -> Fill] /\ fill'["trader"] = g /\ fill'["matcher"] = fill["matcher"]
  BY <1>1, <1>2, <1>4
<1>6. FillOk("trader", g, lock, szi, order)
  BY <1>1, <1>2, <1>4, Nones DEF FillOk, NoFill, Section
<1>7. MatchOk(matcher, order, fill')
  BY <1>5 DEF TrInv, MatchOk
<1>8. Types'
  BY <1>1, <1>2, <1>5 DEF Types
<1> QED
  BY <1>1, <1>2, <1>5, <1>6, <1>7, <1>8 DEF TrInv, Procs

\* The matcher between two stops.
LEMMA Skipped ==
  ASSUME matcher \in Match, Skip
  PROVE  matcher' \in Match /\ matcher'.stage = "next"
  BY NoStopType DEF Match, Skip

LEMMA NextMatches ==
  ASSUME NEW m, NEW ord, NEW f, m.stage \in {"idle", "next"}
  PROVE  MatchOk(m, ord, f)
  BY DEF MatchOk

\* The steps of the matcher that write no stop's hash and start no fill.
LEMMA MatchMoves ==
  ASSUME TrInv,
         StartPass \/ EndPass \/ (\E o \in Stops : MatchRead(o)) \/ MatchReadPx \/ FireCheck
  PROVE  TrInv'
<1>1. /\ Types /\ order \in [Stops -> Stop] /\ trailing \subseteq Stops /\ matcher \in Match
      /\ StopsOk(order, trailing, seen) /\ MatchOk(matcher, order, fill)
      /\ mark \in [px : Nat, fresh : BOOLEAN] /\ fill \in [Procs -> Fill]
  BY DEF TrInv, Types
<1>2. UNCHANGED <<order, fill, szi, lock, seen, mark, client>>
  BY DEF StartPass, EndPass, MatchRead, MatchReadPx, FireCheck, orderVars, fillVars, markVars
<1>3. /\ matcher' \in Match /\ MatchOk(matcher', order, fill)
      /\ trailing' \subseteq Stops /\ StopsOk(order, trailing', seen)
  <2>1. CASE StartPass
    <3>1. matcher' \in Match /\ matcher'.stage = "next"
      BY <1>1, <2>1, NoStopType DEF StartPass, NoPass, Match
    <3>2. MatchOk(matcher', order, fill)
      BY <3>1, NextMatches
    <3>3. trailing' = trailing
      BY <2>1 DEF StartPass, orderVars
    <3> QED
      BY <1>1, <3>1, <3>2, <3>3
  <2>2. CASE EndPass
    BY <1>1, <2>2, NoPassType, NextMatches DEF EndPass, NoPass, orderVars
  <2>3. ASSUME NEW o \in Stops, MatchRead(o)
        PROVE  /\ matcher' \in Match /\ MatchOk(matcher', order, fill)
               /\ trailing' \subseteq Stops /\ StopsOk(order, trailing', seen)
    <3>1. CASE order[o].status = "open"
      <4> DEFINE m == [matcher EXCEPT !.stage = "price", !.oid = o, !.data = order[o], !.todo = @ \ {o}]
      <4>1. matcher' = m /\ trailing' = trailing /\ fill["matcher"] = NoFill
        BY <2>3, <3>1 DEF MatchRead
      <4>2. order[o] \in Stop
        BY <1>1
      <4>3. m \in Match /\ m.stage = "price" /\ m.oid = o /\ m.data = order[o]
        BY <1>1, <4>2 DEF Match
      <4> HIDE DEF m
      <4>4. MatchOk(m, order, fill)
        BY <3>1, <4>1, <4>3 DEF MatchOk
      <4> QED
        BY <1>1, <4>1, <4>3, <4>4
    <3>2. CASE order[o].status # "open"
      <4>1. /\ matcher' = [matcher EXCEPT !.todo = @ \ {o}] /\ trailing' = trailing \ {o}
            /\ matcher.stage = "next"
        BY <2>3, <3>2 DEF MatchRead
      <4>2. matcher' \in Match /\ matcher'.stage = "next"
        BY <1>1, <4>1 DEF Match
      <4>3. MatchOk(matcher', order, fill)
        BY <4>2, NextMatches
      <4>4. StopsOk(order, trailing', seen)
        BY <1>1, <3>2, <4>1 DEF StopsOk
      <4> QED
        BY <1>1, <4>1, <4>2, <4>3, <4>4
    <3> QED
      BY <3>1, <3>2
  <2>4. CASE MatchReadPx
    <3>1. matcher' = [matcher EXCEPT !.stage = "stamp", !.px = mark.px] /\ matcher.stage = "price"
          /\ UNCHANGED <<trailing>>
      BY <2>4 DEF MatchReadPx, orderVars
    <3>2. /\ matcher' \in Match /\ matcher'.stage = "stamp" /\ matcher'.oid = matcher.oid
          /\ matcher'.data = matcher.data
      BY <1>1, <3>1 DEF Match
    <3> QED
      BY <1>1, <3>1, <3>2 DEF MatchOk
  <2>5. CASE FireCheck
    <3>1. matcher.stage = "fire" /\ UNCHANGED <<trailing>>
          /\ (Skip \/ matcher' = [matcher EXCEPT !.stage = "freeze"])
      BY <2>5 DEF FireCheck, orderVars
    <3>2. CASE Skip
      BY <1>1, <3>1, <3>2, Skipped, NextMatches
    <3>3. CASE matcher' = [matcher EXCEPT !.stage = "freeze"]
      <4>1. /\ matcher' \in Match /\ matcher'.stage = "freeze" /\ matcher'.oid = matcher.oid
            /\ matcher'.data = matcher.data
        BY <1>1, <3>3 DEF Match
      <4> QED
        BY <1>1, <3>1, <4>1 DEF MatchOk
    <3> QED
      BY <3>1, <3>2, <3>3
  <2> QED
    BY <2>1, <2>2, <2>3, <2>4, <2>5
<1>4. Types'
  BY <1>1, <1>2, <1>3 DEF Types
<1> QED
  BY <1>2, <1>3, <1>4 DEF TrInv

WithTrail(d, ev) == [d EXCEPT !.best = ev.best, !.trigger = ev.trigger, !.limit = ev.limit]

LEMMA TrailedType ==
  ASSUME NEW d \in Stop, NEW ev, ev.best \in Nat \cup {None}, ev.trigger \in Int \cup {None}, ev.limit \in Int
  PROVE  /\ WithTrail(d, ev) \in Stop /\ WithTrail(d, ev).status = d.status /\ WithTrail(d, ev).p = d.p
         /\ WithTrail(d, ev).best = ev.best /\ WithTrail(d, ev).trigger = ev.trigger
         /\ WithTrail(d, ev).ro = d.ro /\ WithTrail(d, ev).snap = d.snap
  BY DEF Stop, WithTrail

\* What MatchEvaluate does to the stops, for any matcher that read one.
LEMMA EvaluateOrder ==
  ASSUME TrInv, MatchEvaluate, mark.fresh
  PROVE  LET o == matcher.oid
             ev == evaluateTrailing(order[o].p, order[o].best, matcher.px)
         IN /\ o \in Stops /\ matcher.px \in Nat /\ order[o] \in Stop /\ order[o].status # "none"
            /\ order'[o] = WithTrail(order[o], ev)
            /\ order' \in [Stops -> Stop]
            /\ \A x \in Stops \ {o} : order'[x] = order[x]
            /\ Skip \/ matcher' = [matcher EXCEPT !.stage = "fire", !.data = WithTrail(matcher.data, ev)]
            /\ ev.best \in Nat \cup {None} /\ ev.trigger \in Int \cup {None} /\ ev.limit \in Int
            /\ ev.best # None => ev.trigger = computeTrigger(order[o].p, ev.best)
            /\ order[o].best # None => ev.best = Better(order[o].p, order[o].best, matcher.px)
<1> DEFINE o == matcher.oid
           ev == evaluateTrailing(order[o].p, order[o].best, matcher.px)
<1>1. /\ order \in [Stops -> Stop] /\ matcher \in Match /\ MatchOk(matcher, order, fill)
      /\ matcher.stage = "stamp"
  BY DEF TrInv, Types, MatchEvaluate
<1>2. /\ o \in Stops /\ matcher.data.p = order[o].p /\ matcher.data.best = order[o].best
      /\ matcher.px \in Nat /\ order[o].status # "none" /\ order[o] \in Stop
  BY <1>1 DEF MatchOk, Match
<1>3. /\ order' = [order EXCEPT ![o] = WithTrail(@, ev)]
      /\ Skip \/ matcher' = [matcher EXCEPT !.stage = "fire", !.data = WithTrail(matcher.data, ev)]
  BY <1>2 DEF MatchEvaluate, WithTrail
<1>4. order[o].p \in Params /\ order[o].best \in Nat \cup {None}
  BY <1>2 DEF Stop
<1>5. /\ ev.best \in Nat \cup {None} /\ ev.trigger \in Int \cup {None} /\ ev.limit \in Int
      /\ ev.best # None => ev.trigger = computeTrigger(order[o].p, ev.best)
      /\ order[o].best # None => ev.best = Better(order[o].p, order[o].best, matcher.px)
  BY <1>2, <1>4, Evaluated
<1> HIDE DEF o, ev
<1>6. order'[o] = WithTrail(order[o], ev) /\ \A x \in Stops \ {o} : order'[x] = order[x]
  BY <1>1, <1>2, <1>3
<1>7. order' \in [Stops -> Stop]
  BY <1>1, <1>2, <1>3, <1>5, TrailedType
<1> QED
  BY <1>2, <1>3, <1>5, <1>6, <1>7 DEF o, ev

LEMMA EvaluateStep ==
  ASSUME TrInv, MatchEvaluate
  PROVE  TrInv'
<1>1. /\ Types /\ order \in [Stops -> Stop] /\ matcher \in Match /\ MatchOk(matcher, order, fill)
      /\ StopsOk(order, trailing, seen) /\ ClientOk(client, order)
      /\ \A v \in Procs : FillOk(v, fill[v], lock, szi, order)
  BY DEF TrInv, Types
<1>2. matcher.stage = "stamp" /\ UNCHANGED <<trailing, fill, szi, lock, seen, mark, client>>
  BY DEF MatchEvaluate, fillVars, markVars
<1>3. CASE ~mark.fresh
  <2>1. Skip /\ UNCHANGED order
    BY <1>3 DEF MatchEvaluate
  <2>2. matcher' \in Match /\ MatchOk(matcher', order, fill)
    BY <1>1, <2>1, Skipped, NextMatches
  <2>3. Types'
    BY <1>1, <1>2, <2>1, <2>2 DEF Types
  <2> QED
    BY <1>1, <1>2, <2>1, <2>2, <2>3 DEF TrInv
<1>4. CASE mark.fresh
  <2> DEFINE o == matcher.oid
             ev == evaluateTrailing(order[o].p, order[o].best, matcher.px)
  <2>1. /\ o \in Stops /\ order[o] \in Stop /\ order[o].status # "none"
        /\ order'[o] = WithTrail(order[o], ev)
        /\ order' \in [Stops -> Stop]
        /\ \A x \in Stops \ {o} : order'[x] = order[x]
        /\ Skip \/ matcher' = [matcher EXCEPT !.stage = "fire", !.data = WithTrail(matcher.data, ev)]
        /\ ev.best \in Nat \cup {None} /\ ev.trigger \in Int \cup {None} /\ ev.limit \in Int
        /\ ev.best # None => ev.trigger = computeTrigger(order[o].p, ev.best)
    BY <1>4, EvaluateOrder
  <2> HIDE DEF ev
  <2>2. /\ order'[o].status = order[o].status /\ order'[o].p = order[o].p
        /\ order'[o].best = ev.best /\ order'[o].trigger = ev.trigger
    BY <2>1, TrailedType
  <2>3. \A x \in Stops : Kept(order[x], order'[x])
    BY <2>1, <2>2 DEF Kept
  <2>4. StopsOk(order', trailing, seen)
    BY <1>1, <2>1, <2>2 DEF StopsOk, StopOk
  <2>5. matcher' \in Match /\ MatchOk(matcher', order', fill)
    <3>1. CASE Skip
      BY <1>1, <3>1, Skipped, NextMatches
    <3>2. CASE matcher' = [matcher EXCEPT !.stage = "fire", !.data = WithTrail(matcher.data, ev)]
      <4>1. /\ matcher.data \in Stop /\ matcher.data.p = order[o].p /\ fill["matcher"] = NoFill
        BY <1>1, <1>2 DEF Match, MatchOk
      <4>2. WithTrail(matcher.data, ev) \in Stop /\ WithTrail(matcher.data, ev).p = order[o].p
        BY <2>1, <4>1, TrailedType
      <4>3. /\ matcher' \in Match /\ matcher'.stage = "fire" /\ matcher'.oid = o
            /\ matcher'.data.p = order[o].p
        BY <1>1, <3>2, <4>2 DEF Match
      <4> QED
        BY <2>1, <2>2, <4>1, <4>3 DEF MatchOk
    <3> QED
      BY <2>1, <3>1, <3>2
  <2>6. \A v \in Procs : FillOk(v, fill[v], lock, szi, order')
    BY <1>1, <2>3, CarryFill
  <2>7. ClientOk(client, order')
    BY <1>1, <2>3, CarryClient
  <2>8. Types'
    BY <1>1, <1>2, <2>1, <2>5 DEF Types
  <2> QED
    BY <1>2, <2>4, <2>5, <2>6, <2>7, <2>8 DEF TrInv
<1> QED
  BY <1>3, <1>4

WithSnap(d, b) == [d EXCEPT !.snap = b]

LEMMA SnapType ==
  ASSUME NEW d \in Stop, NEW b \in Body
  PROVE  /\ WithSnap(d, b) \in Stop /\ WithSnap(d, b).status = d.status /\ WithSnap(d, b).p = d.p
         /\ WithSnap(d, b).best = d.best /\ WithSnap(d, b).trigger = d.trigger
         /\ WithSnap(d, b).ro = d.ro
  BY DEF Stop, WithSnap

LEMMA FreezeStep ==
  ASSUME TrInv, freezeTrailingSnapshot
  PROVE  TrInv'
<1> DEFINE o == matcher.oid
           body == buildTrailingBody(matcher.data, FALSE)
<1>1. /\ Types /\ order \in [Stops -> Stop] /\ matcher \in Match /\ MatchOk(matcher, order, fill)
      /\ StopsOk(order, trailing, seen) /\ ClientOk(client, order)
      /\ \A v \in Procs : FillOk(v, fill[v], lock, szi, order)
  BY DEF TrInv, Types
<1>2. /\ matcher.stage = "freeze" /\ UNCHANGED <<trailing, fill, szi, lock, seen, mark, client>>
      /\ matcher' = [matcher EXCEPT !.stage = "margin"]
      /\ order' = [order EXCEPT ![o].snap = body]
  BY DEF freezeTrailingSnapshot, fillVars, markVars
<1>3. o \in Stops /\ order[o].status # "none" /\ matcher.data \in Stop
  BY <1>1, <1>2 DEF MatchOk, Match
<1>4. body \in Body
  BY <1>3, BodyType
<1> HIDE DEF o, body
<1>5. order'[o] = WithSnap(order[o], body) /\ \A x \in Stops \ {o} : order'[x] = order[x]
  BY <1>1, <1>2, <1>3 DEF WithSnap
<1>6. order[o] \in Stop
  BY <1>1, <1>3
<1>7. /\ order'[o] \in Stop /\ order'[o].status = order[o].status /\ order'[o].p = order[o].p
      /\ order'[o].best = order[o].best /\ order'[o].trigger = order[o].trigger
  BY <1>4, <1>5, <1>6, SnapType
<1>8. order' \in [Stops -> Stop]
  BY <1>1, <1>2, <1>3, <1>7
<1>9. StopsOk(order', trailing, seen)
  BY <1>1, <1>3, <1>5, <1>7 DEF StopsOk, StopOk
<1>10. \A x \in Stops : Kept(order[x], order'[x]) /\ order'[x].best = order[x].best
  BY <1>3, <1>5, <1>7 DEF Kept
<1>11. MatchOk(matcher, order', fill)
  BY <1>1, <1>10, CarryMatch
<1>12. /\ matcher' \in Match /\ matcher'.stage = "margin" /\ matcher'.oid = matcher.oid
       /\ matcher'.data = matcher.data
  BY <1>1, <1>2 DEF Match
<1>13. MatchOk(matcher', order', fill)
  BY <1>2, <1>11, <1>12 DEF MatchOk
<1>14. \A v \in Procs : FillOk(v, fill[v], lock, szi, order')
  BY <1>1, <1>10, CarryFill
<1>15. ClientOk(client, order')
  BY <1>1, <1>10, CarryClient
<1>16. Types'
  BY <1>1, <1>2, <1>8, <1>12 DEF Types
<1> QED
  BY <1>2, <1>9, <1>13, <1>14, <1>15, <1>16 DEF TrInv

\* A fire goes on to its fill with its size, or with less when it may trade
\* the other way; or it ends.
LEMMA MarginStep ==
  ASSUME TrInv, FireMargin
  PROVE  TrInv'
<1> DEFINE o == matcher.oid
<1>1. /\ Types /\ order \in [Stops -> Stop] /\ matcher \in Match /\ MatchOk(matcher, order, fill)
      /\ StopsOk(order, trailing, seen) /\ ClientOk(client, order) /\ fill \in [Procs -> Fill]
      /\ \A v \in Procs : FillOk(v, fill[v], lock, szi, order)
      /\ "matcher" \in Procs /\ "trader" \in Procs
  BY DEF TrInv, Types, Procs
<1>2. matcher.stage = "margin" /\ UNCHANGED <<order, trailing, szi, lock, seen, mark, client>>
  BY DEF FireMargin, orderVars, markVars
<1>3. /\ o \in Stops /\ order[o].status # "none" /\ matcher.data \in Stop /\ fill["matcher"] = NoFill
      /\ order[o] \in Stop
  BY <1>1, <1>2 DEF MatchOk, Match
<1>4. ASSUME NEW n \in Nat, Skip,
             Become("matcher", [NoFill EXCEPT !.stage = "wait", !.oid = o, !.ro = matcher.data.ro,
                                              !.buy = matcher.data.p.isBuy, !.sz = n])
      PROVE  TrInv'
  <2> DEFINE g == [NoFill EXCEPT !.stage = "wait", !.oid = o, !.ro = matcher.data.ro,
                                 !.buy = matcher.data.p.isBuy, !.sz = n]
  <2>1. fill' = [fill EXCEPT !["matcher"] = g]
    BY <1>4 DEF Become
  <2>2. matcher.data.ro \in BOOLEAN /\ matcher.data.p.isBuy \in BOOLEAN
    BY <1>3 DEF Stop, Params
  <2>3. g \in Fill /\ g.stage = "wait" /\ g.oid = o
    BY <1>3, <2>2, NoFillType DEF Fill, NoFill
  <2> HIDE DEF g
  <2>4. fill' \in [Procs -> Fill] /\ fill'["matcher"] = g /\ fill'["trader"] = fill["trader"]
    BY <1>1, <2>1, <2>3
  <2>5. FillOk("matcher", g, lock, szi, order)
    BY <1>1, <1>3, <2>3 DEF FillOk, NoFill, Section
  <2>6. matcher' \in Match /\ MatchOk(matcher', order, fill')
    BY <1>1, <1>4, Skipped, NextMatches
  <2>7. Types'
    BY <1>1, <1>2, <2>4, <2>6 DEF Types
  <2> QED
    BY <1>1, <1>2, <2>4, <2>5, <2>6, <2>7 DEF TrInv, Procs
<1>5. ASSUME Skip, UNCHANGED fill
      PROVE  TrInv'
  <2>1. matcher' \in Match /\ MatchOk(matcher', order, fill)
    BY <1>1, <1>5, Skipped, NextMatches
  <2>2. Types'
    BY <1>1, <1>2, <1>5, <2>1 DEF Types
  <2> QED
    BY <1>1, <1>2, <1>5, <2>1, <2>2 DEF TrInv
<1>6. ASSUME matcher' = [matcher EXCEPT !.stage = "end", !.data = order[o]], UNCHANGED fill
      PROVE  TrInv'
  <2>1. /\ matcher' \in Match /\ matcher'.stage = "end" /\ matcher'.oid = o
        /\ matcher'.data = order[o]
    BY <1>1, <1>3, <1>6 DEF Match
  <2>2. MatchOk(matcher', order, fill)
    BY <1>3, <2>1 DEF MatchOk
  <2>3. Types'
    BY <1>1, <1>2, <1>6, <2>1 DEF Types
  <2> QED
    BY <1>1, <1>2, <1>6, <2>2, <2>3 DEF TrInv
<1>7. matcher.data.sz \in Nat /\ \A n \in 1 .. matcher.data.sz - 1 : n \in Nat
  BY <1>3 DEF Stop
<1> QED
  BY <1>4, <1>5, <1>6, <1>7 DEF FireMargin

LEMMA MarginEndStep ==
  ASSUME TrInv, FireMarginEnd
  PROVE  TrInv'
<1> DEFINE o == matcher.oid
           body == buildTrailingBody(matcher.data, FALSE)
<1>1. /\ Types /\ order \in [Stops -> Stop] /\ matcher \in Match /\ MatchOk(matcher, order, fill)
      /\ StopsOk(order, trailing, seen) /\ ClientOk(client, order)
      /\ \A v \in Procs : FillOk(v, fill[v], lock, szi, order)
  BY DEF TrInv, Types
<1>2. /\ matcher.stage = "end" /\ UNCHANGED <<fill, szi, lock, seen, mark, client>> /\ Skip
      /\ order' = [order EXCEPT ![o].status = "marginCanceled", ![o].snap = body]
      /\ trailing' = trailing \ {o}
  BY DEF FireMarginEnd, terminateTrailingStop, fillVars, markVars
<1>3. o \in Stops /\ order[o].status # "none" /\ matcher.data \in Stop
  BY <1>1, <1>2 DEF MatchOk, Match
<1>4. body \in Body
  BY <1>3, BodyType
<1> HIDE DEF o, body
<1>5. /\ order' \in [Stops -> Stop] /\ trailing' \subseteq Stops
      /\ StopsOk(order', trailing', seen)
      /\ \A x \in Stops : Kept(order[x], order'[x]) /\ order'[x].best = order[x].best
  BY <1>1, <1>2, <1>3, <1>4, Ended DEF StopStatus
<1>6. matcher' \in Match /\ MatchOk(matcher', order', fill)
  BY <1>1, <1>2, Skipped, NextMatches
<1>7. \A v \in Procs : FillOk(v, fill[v], lock, szi, order')
  BY <1>1, <1>5, CarryFill
<1>8. ClientOk(client, order')
  BY <1>1, <1>5, CarryClient
<1>9. Types'
  BY <1>1, <1>2, <1>5, <1>6 DEF Types
<1> QED
  BY <1>2, <1>5, <1>6, <1>7, <1>8, <1>9 DEF TrInv

LEMMA TrSame ==
  ASSUME TrInv, UNCHANGED <<order, trailing, seen, mark, szi, lock, fill, matcher, client>>
  PROVE  TrInv'
  BY DEF TrInv, Types

WithCancel(d) == [d EXCEPT !.status = "cancelled"]

LEMMA CancelType ==
  ASSUME NEW d \in Stop
  PROVE  /\ WithCancel(d) \in Stop /\ WithCancel(d).status = "cancelled" /\ WithCancel(d).p = d.p
         /\ WithCancel(d).best = d.best /\ WithCancel(d).trigger = d.trigger
         /\ WithCancel(d).ro = d.ro /\ WithCancel(d).snap = d.snap
  BY DEF Stop, WithCancel, StopStatus

\* Stops that a scheduled cancel or a reset writes over, by their list.
LEMMA CancelledOnes ==
  ASSUME TrInv, NEW O, order' = Cancelled(O), NEW x \in Stops
  PROVE  order'[x] = (IF x \in O THEN WithCancel(order[x]) ELSE order[x])
  BY DEF Cancelled, WithCancel

LEMMA CancelledKept ==
  ASSUME TrInv, NEW O, order' = Cancelled(O), trailing' = trailing \ O, seen' = seen \/ seen' = {}
  PROVE  /\ order' \in [Stops -> Stop] /\ trailing' \subseteq Stops /\ seen' \subseteq Stops
         /\ StopsOk(order', trailing', seen')
         /\ \A x \in Stops : Kept(order[x], order'[x]) /\ order'[x].best = order[x].best
<1>1. /\ order \in [Stops -> Stop] /\ trailing \subseteq Stops /\ seen \subseteq Stops
      /\ StopsOk(order, trailing, seen)
  BY DEF TrInv, Types
<1>2. \A x \in Stops : order'[x] = IF x \in O THEN WithCancel(order[x]) ELSE order[x]
  BY CancelledOnes
<1>3. ASSUME NEW x \in Stops
      PROVE  /\ order'[x] \in Stop /\ order'[x].p = order[x].p /\ order'[x].best = order[x].best
             /\ order'[x].trigger = order[x].trigger
             /\ order'[x].status = IF x \in O THEN "cancelled" ELSE order[x].status
  <2>1. order[x] \in Stop
    BY <1>1
  <2> QED
    BY <1>2, <2>1, CancelType
<1>4. order' \in [Stops -> Stop]
  <2>1. order' = [x \in Stops |-> order'[x]]
    BY DEF Cancelled
  <2> QED
    BY <1>3, <2>1
<1>5. ASSUME NEW x \in Stops
      PROVE  StopOk(order'[x])
  <2>1. StopOk(order[x])
    BY <1>1 DEF StopsOk
  <2>2. CASE x \in O
    BY <1>3, <2>1, <2>2 DEF StopOk
  <2>3. CASE x \notin O
    BY <1>2, <2>1, <2>3
  <2> QED
    BY <2>2, <2>3
<1>6. StopsOk(order', trailing', seen')
  BY <1>1, <1>3, <1>5 DEF StopsOk
<1> QED
  BY <1>1, <1>3, <1>4, <1>6 DEF Kept

\* A reset leaves every fill where it is.
LEMMA ResetFill ==
  ASSUME TrInv, resetAccount, NEW w \in Procs
  PROVE  /\ fill' \in [Procs -> Fill]
         /\ fill'[w] = fill[w] \/ (fill'[w] = [fill[w] EXCEPT !.torn = TRUE] /\ reset.held /\ lock = w)
         /\ fill'[w].stage = fill[w].stage /\ fill'[w].oid = fill[w].oid /\ fill'[w].at = fill[w].at
         /\ fill'[w].sz = fill[w].sz /\ fill'[w].ro = fill[w].ro /\ fill'[w].cur = fill[w].cur
         /\ fill'[w].torn = (fill[w].torn \/ (reset.held /\ lock = w))
         /\ fill[w] = NoFill => fill'[w] = NoFill
<1>1. fill \in [Procs -> Fill] /\ \A v \in Procs : fill[v] \in Fill
  BY DEF TrInv, Types
<1>2. fill' = [v \in Procs |-> IF reset.held /\ lock = v THEN [fill[v] EXCEPT !.torn = TRUE] ELSE fill[v]]
  BY <1>1 DEF resetAccount
<1>3. \A v \in Procs : [fill[v] EXCEPT !.torn = TRUE] \in Fill
  BY <1>1 DEF Fill
<1>4. fill' \in [Procs -> Fill]
  BY <1>1, <1>2, <1>3
<1>5. FillOk(w, fill[w], lock, szi, order)
  BY DEF TrInv
<1>6. CASE reset.held /\ lock = w
  <2>1. fill'[w] = [fill[w] EXCEPT !.torn = TRUE]
    BY <1>2, <1>6
  <2>2. fill[w].stage # "none"
    BY <1>5, <1>6 DEF FillOk, Section
  <2>3. fill[w] # NoFill
    BY <2>2 DEF NoFill
  <2>4. fill[w] \in Fill
    BY <1>1
  <2>5. /\ fill'[w].stage = fill[w].stage /\ fill'[w].oid = fill[w].oid /\ fill'[w].at = fill[w].at
        /\ fill'[w].sz = fill[w].sz /\ fill'[w].ro = fill[w].ro /\ fill'[w].cur = fill[w].cur
        /\ fill'[w].torn = TRUE
    BY <2>1, <2>4 DEF Fill
  <2> QED
    BY <1>4, <1>6, <2>1, <2>3, <2>5
<1>7. CASE ~(reset.held /\ lock = w)
  <2>1. fill'[w] = fill[w]
    BY <1>2, <1>7
  <2>2. fill[w].torn \in BOOLEAN
    BY <1>1 DEF Fill
  <2> QED
    BY <1>4, <1>7, <2>1, <2>2
<1> QED
  BY <1>6, <1>7

LEMMA ResetStepKeeps ==
  ASSUME TrInv, resetAccount
  PROVE  TrInv'
<1>1. /\ Types /\ fill \in [Procs -> Fill] /\ szi \in Int
      /\ MatchOk(matcher, order, fill) /\ ClientOk(client, order)
      /\ \A v \in Procs : FillOk(v, fill[v], lock, szi, order)
  BY DEF TrInv, Types
<1>2. /\ UNCHANGED <<lock, mark, matcher, client>> /\ seen' = {}
      /\ szi' = IF reset.held THEN 0 ELSE szi
      /\ order' = Cancelled(reset.oids) /\ trailing' = trailing \ reset.oids
  BY DEF resetAccount, markVars
<1>3. /\ order' \in [Stops -> Stop] /\ trailing' \subseteq Stops /\ seen' \subseteq Stops
      /\ StopsOk(order', trailing', seen')
      /\ \A x \in Stops : Kept(order[x], order'[x]) /\ order'[x].best = order[x].best
  BY <1>2, CancelledKept
<1>4. fill' \in [Procs -> Fill]
  BY ResetFill DEF Procs
<1>5. ASSUME NEW w \in Procs
      PROVE  FillOk(w, fill'[w], lock, szi', order')
  <2>1. FillOk(w, fill[w], lock, szi, order')
    BY <1>1, <1>3, CarryFill
  <2>2. /\ fill'[w].stage = fill[w].stage /\ fill'[w].oid = fill[w].oid /\ fill'[w].at = fill[w].at
        /\ fill'[w].cur = fill[w].cur
        /\ fill'[w].torn = (fill[w].torn \/ (reset.held /\ lock = w))
        /\ fill[w] = NoFill => fill'[w] = NoFill
    BY ResetFill
  <2>3. fill'[w].stage \in Section /\ ~fill'[w].torn => fill'[w].cur = szi'
    BY <1>2, <2>1, <2>2 DEF FillOk
  <2> QED
    BY <2>1, <2>2, <2>3 DEF FillOk
<1>6. MatchOk(matcher, order', fill')
  <2>1. MatchOk(matcher, order', fill)
    BY <1>1, <1>3, CarryMatch
  <2>2. fill["matcher"] = NoFill => fill'["matcher"] = NoFill
    BY ResetFill DEF Procs
  <2> QED
    BY <2>1, <2>2 DEF MatchOk
<1>7. ClientOk(client, order')
  BY <1>1, <1>3, CarryClient
<1>8. Types'
  BY <1>1, <1>2, <1>3, <1>4 DEF Types
<1> QED
  BY <1>2, <1>3, <1>5, <1>6, <1>7, <1>8 DEF TrInv

LEMMA ScheduleCancelKeeps ==
  ASSUME TrInv, ScheduleCancel
  PROVE  TrInv'
<1>1. /\ Types /\ MatchOk(matcher, order, fill) /\ ClientOk(client, order)
      /\ \A v \in Procs : FillOk(v, fill[v], lock, szi, order)
  BY DEF TrInv
<1>2. /\ UNCHANGED <<lock, fill, szi, seen, mark, matcher, client>>
      /\ order' = Cancelled(schedule.due) /\ trailing' = trailing \ schedule.due
  BY DEF ScheduleCancel, markVars, fillVars
<1>3. /\ order' \in [Stops -> Stop] /\ trailing' \subseteq Stops /\ seen' \subseteq Stops
      /\ StopsOk(order', trailing', seen')
      /\ \A x \in Stops : Kept(order[x], order'[x]) /\ order'[x].best = order[x].best
  BY <1>2, CancelledKept
<1>4. \A w \in Procs : FillOk(w, fill[w], lock, szi, order')
  BY <1>1, <1>3, CarryFill
<1>5. MatchOk(matcher, order', fill) /\ ClientOk(client, order')
  BY <1>1, <1>3, CarryMatch, CarryClient
<1>6. Types'
  BY <1>1, <1>2, <1>3 DEF Types
<1> QED
  BY <1>2, <1>3, <1>4, <1>5, <1>6 DEF TrInv

\* The other steps of the tick and of the reset write no stop, no fill and no
\* position.
LEMMA SweepReads ==
  ASSUME Sweep, ~ScheduleCancel, ~resetAccount
  PROVE  UNCHANGED <<order, trailing, raced, fillVars, markVars, matcher, client>>
  BY DEF Sweep, ScheduleStep, ScheduleList, ScheduleRead, ScheduleTell, ScheduleEnd,
         ResetStep, ResetPositions, ResetOrders, orderVars, emitTrailingHistory

LEMMA SweepKeeps ==
  ASSUME TrInv, Sweep
  PROVE  TrInv'
<1>1. CASE ~ScheduleCancel /\ ~resetAccount
  <2>1. UNCHANGED <<order, trailing, seen, mark, szi, lock, fill, matcher, client>>
    BY <1>1, SweepReads DEF fillVars, markVars
  <2> QED
    BY <2>1, TrSame
<1> QED
  BY <1>1, ScheduleCancelKeeps, ResetStepKeeps

LEMMA SweepTyped ==
  ASSUME SweepTypes, Sweep
  PROVE  SweepTypes'
<1>1. CASE ScheduleStep
  <2>1. Listed \subseteq Stops /\ UNCHANGED <<reset, gone, silent>>
    BY <1>1 DEF Listed, ScheduleStep, ScheduleList, ScheduleRead, ScheduleCancel, ScheduleTell, ScheduleEnd
  <2>2. schedule' \in [stage : {"idle", "read", "tell"}, todo : SUBSET Stops, due : SUBSET Stops]
    <3>1. CASE ScheduleList
      BY <2>1, <3>1 DEF ScheduleList, NoTick
    <3>2. ASSUME NEW o \in Stops, ScheduleRead(o)
          PROVE  schedule' \in [stage : {"idle", "read", "tell"}, todo : SUBSET Stops, due : SUBSET Stops]
      BY <3>2 DEF SweepTypes, ScheduleRead
    <3>3. CASE ScheduleCancel
      BY <3>3 DEF SweepTypes, ScheduleCancel, NoTick
    <3>4. ASSUME NEW o \in Stops, ScheduleTell(o)
          PROVE  schedule' \in [stage : {"idle", "read", "tell"}, todo : SUBSET Stops, due : SUBSET Stops]
      BY <3>4 DEF SweepTypes, ScheduleTell
    <3>5. CASE ScheduleEnd
      BY <3>5 DEF ScheduleEnd, NoTick
    <3> QED
      BY <1>1, <3>1, <3>2, <3>3, <3>4, <3>5 DEF ScheduleStep
  <2>3. unsnapped' \subseteq Stops
    BY <1>1 DEF SweepTypes, ScheduleStep, ScheduleList, ScheduleRead, ScheduleCancel, ScheduleTell, ScheduleEnd
  <2> QED
    BY <2>1, <2>2, <2>3 DEF SweepTypes
<1>2. CASE ResetStep
  <2>1. Listed \subseteq Stops /\ UNCHANGED <<schedule, unsnapped>>
    BY <1>2 DEF Listed, ResetStep, ResetPositions, ResetOrders, resetAccount
  <2>2. reset' \in [stage : {"idle", "orders", "write"}, held : BOOLEAN, oids : SUBSET Stops]
    <3>1. CASE ResetPositions
      BY <3>1 DEF ResetPositions, NoReset
    <3>2. CASE ResetOrders
      BY <2>1, <3>2 DEF SweepTypes, ResetOrders
    <3>3. CASE resetAccount
      BY <3>3 DEF resetAccount, NoReset
    <3> QED
      BY <1>2, <3>1, <3>2, <3>3 DEF ResetStep
  <2>3. gone' \subseteq Stops /\ silent' \subseteq Stops
    BY <1>2 DEF SweepTypes, ResetStep, ResetPositions, ResetOrders, resetAccount
  <2> QED
    BY <2>1, <2>2, <2>3 DEF SweepTypes
<1> QED
  BY <1>1, <1>2 DEF Sweep

LEMMA TrStep ==
  ASSUME TrInv, Around \/ Pass \/ Sweep
  PROVE  TrInv'
<1>1. ASSUME NEW w \in Procs, FillStep(w)
      PROVE  TrInv'
  BY <1>1, FillMoves, WriteStep, OrphanStep DEF FillStep
<1>2. CASE ClientStep
  BY <1>2, ClientReads, PlaceStep, CancelStep DEF ClientStep
<1>3. CASE Pass
  BY <1>3, MatchMoves, EvaluateStep, FreezeStep, MarginStep, MarginEndStep DEF Pass, MatchStep
<1> QED
  BY <1>1, <1>2, <1>3, MarkSteps, TradeStep, SweepKeeps DEF Around, Procs

LEMMA TrInit == Init => TrInv
<1> SUFFICES ASSUME Init PROVE TrInv
  OBVIOUS
<1>1. /\ order = [o \in Stops |-> NoStop] /\ trailing = {} /\ seen = {} /\ lock = None
      /\ fill = [w \in Procs |-> NoFill] /\ matcher = NoPass /\ client = NoRequest
  BY DEF Init, Procs
<1>2. mark \in [px : Nat, fresh : BOOLEAN] /\ szi \in Int
  BY TrailingAssumption DEF Init
<1>3. \A o \in Stops : order[o] = NoStop
  BY <1>1
<1>4. \A w \in Procs : fill[w] = NoFill
  BY <1>1
<1>5. Types
  BY <1>1, <1>2, NoStopType, NoFillType, NoPassType, NoRequestType DEF Types
<1>6. StopsOk(order, trailing, seen)
  BY <1>1, <1>3, NoStopType DEF StopsOk, NoStop
<1>7. \A w \in Procs : FillOk(w, fill[w], lock, szi, order)
  BY <1>1, <1>4, Nones DEF FillOk, NoFill, Section
<1>8. MatchOk(matcher, order, fill) /\ ClientOk(client, order)
  BY <1>1 DEF MatchOk, ClientOk, NoPass, NoRequest
<1> QED
  BY <1>5, <1>6, <1>7, <1>8 DEF TrInv

-----------------------------------------------------------------------------
(* The TWAP beside the stops.                                              *)

\* What happens around a pass of the matcher leaves the matcher where it is,
\* and writes the position in a fill only.
LEMMA AroundKeeps ==
  ASSUME TrInv, Around
  PROVE  /\ matcher' = matcher
         /\ FillStep("matcher") \/ fill'["matcher"] = fill["matcher"]
         /\ szi' = szi \/ \E w \in Procs : FillWrite(w)
<1>1. fill \in [Procs -> Fill] /\ "matcher" \in Procs /\ "trader" \in Procs
  BY DEF TrInv, Types, Procs
<1>2. ASSUME NEW w \in Procs, FillStep(w)
      PROVE  /\ matcher' = matcher
             /\ \E g : fill' = [fill EXCEPT ![w] = g]
             /\ szi' = szi \/ FillWrite(w)
  BY <1>2 DEF FillStep, FillRead, FillNothing, FillWrite, ReconcileList, ReconcileRead, ReconcileEnd,
              FillEnd, Become
<1>3. CASE ClientStep
  BY <1>3 DEF ClientStep, PlaceReadPx, PlaceReadStamp, PlaceRefresh, placeTrailingStop, CancelRead,
              CancelWrite, fillVars
<1>4. ASSUME NEW t \in Trades, Trade(t)
      PROVE  matcher' = matcher /\ szi' = szi /\ \E g : fill' = [fill EXCEPT !["trader"] = g]
  BY <1>4 DEF Trade, Become
<1>5. CASE MarkAges \/ \E p \in Prices : MarkFrame(p)
  BY <1>5 DEF MarkAges, MarkFrame, fillVars
<1> QED
  BY <1>1, <1>2, <1>3, <1>4, <1>5 DEF Around, Procs

\* The tick and the reset leave the matcher, and the fills but for the mark of
\* a reset.
LEMMA SweepApart ==
  ASSUME TrInv, Sweep, NEW w \in Procs
  PROVE  /\ matcher' = matcher /\ lock' = lock
         /\ fill'[w].stage = fill[w].stage /\ fill'[w].oid = fill[w].oid
         /\ fill'[w].sz = fill[w].sz /\ fill'[w].ro = fill[w].ro
         /\ fill[w] = NoFill => fill'[w] = NoFill
         /\ resetAccount \/ UNCHANGED <<szi, seen, fill>>
<1>1. CASE resetAccount
  <2>1. matcher' = matcher /\ lock' = lock
    BY <1>1 DEF resetAccount
  <2> QED
    BY <1>1, <2>1, ResetFill
<1>2. CASE ScheduleCancel
  BY <1>2 DEF ScheduleCancel, fillVars
<1>3. CASE ~ScheduleCancel /\ ~resetAccount
  BY <1>3, SweepReads DEF fillVars
<1> QED
  BY <1>1, <1>2, <1>3

\* The write of a fill: its holder's section, on the position as it is.
LEMMA Written ==
  ASSUME TrInv, NEW w \in Procs, FillWrite(w)
  PROVE  /\ lock = w /\ fill[w] \in Fill /\ szi \in Int /\ Size(fill[w]) # 0
         /\ szi' = fill[w].cur + (IF fill[w].buy THEN Size(fill[w]) ELSE -Size(fill[w]))
         /\ ~fill[w].torn => fill[w].cur = szi
  BY DEF TrInv, Types, FillOk, FillWrite, Section

\* What a pass leaves to the fill of its slice.
LEMMA SlicePass ==
  ASSUME TrInv, Around \/ Sweep, pass.stage = "slice", pass' = pass, twap' = twap, SliceOk,
         executed \in Nat, twap \in TwapRec, pass \in Slice, pass.slice > 0,
         executed' = IF Filling THEN executed + Size(fill["matcher"]) ELSE executed
  PROVE  SliceOk' /\ executed' \in Nat
<1> DEFINE f == fill["matcher"]
           Sized(g) == g.sz = pass.slice /\ g.ro = twap.ro
<1>1. /\ "matcher" \in Procs /\ "trader" \in Procs /\ fill \in [Procs -> Fill] /\ f \in Fill /\ szi \in Int
      /\ FillOk("matcher", f, lock, szi, order)
  BY DEF TrInv, Types, Procs
<1>2. pass.slice \in Nat /\ twap.filled \in Nat /\ twap.ro \in BOOLEAN
  BY DEF TwapRec, Slice
<1>3. /\ f.stage \in {"wait", "write"} => Sized(f) /\ Counts(executed, twap, twap.filled)
      /\ f.stage \notin {"wait", "write"} => Counts(executed, twap, twap.filled + pass.slice)
  BY DEF SliceOk
<1>4. SUFFICES /\ fill'["matcher"].stage \in {"wait", "write"} =>
                    Sized(fill'["matcher"]) /\ Counts(executed', twap, twap.filled)
               /\ fill'["matcher"].stage \notin {"wait", "write"} =>
                    Counts(executed', twap, twap.filled + pass.slice)
               /\ executed' \in Nat
  BY DEF SliceOk
<1>5. ~Filling => executed' = executed
  OBVIOUS
<1>6. CASE FillStep("matcher")
  <2>1. CASE FillRead("matcher")
    <3>1. /\ fill' = [fill EXCEPT !["matcher"] = [f EXCEPT !.stage = "write", !.cur = szi, !.torn = FALSE]]
          /\ f.stage = "wait" /\ ~Filling
      BY <2>1 DEF FillRead, Become, Filling
    <3>2. fill'["matcher"].stage = "write" /\ fill'["matcher"].sz = f.sz /\ fill'["matcher"].ro = f.ro
      BY <1>1, <3>1 DEF Fill
    <3> QED
      BY <1>3, <1>5, <3>1, <3>2
  <2>2. CASE FillNothing("matcher")
    <3>1. f.stage = "write" /\ Size(f) = 0 /\ fill'["matcher"] = NoFill
      BY <1>1, <2>2 DEF FillNothing, Become
    <3>2. f.ro
      BY <1>1, <1>2, <1>3, <3>1, SizeBound
    <3>3. fill'["matcher"].stage = "none"
      BY <3>1 DEF NoFill
    <3>4. f.ro = twap.ro /\ executed <= twap.filled
      BY <1>3, <3>1 DEF Counts
    <3>5. twap.ro
      BY <3>2, <3>4
    <3>6. executed' = executed /\ executed <= twap.filled + pass.slice
      BY <1>2, <1>5, <3>3, <3>4 DEF Filling
    <3> QED
      BY <3>3, <3>5, <3>6 DEF Counts
  <2>3. CASE FillWrite("matcher")
    <3>2. Size(f) \in Nat /\ Size(f) <= f.sz /\ (~f.ro => Size(f) = f.sz)
      BY <1>1, SizeBound
    <3>4. f.stage = "write" /\ fill'["matcher"].stage = "list"
      <4>1. /\ f.stage = "write"
            /\ \E n : fill' = [fill EXCEPT !["matcher"] = [f EXCEPT !.stage = "list", !.cur = n, !.torn = FALSE]]
        BY <2>3 DEF FillWrite, Become
      <4> QED
        BY <1>1, <4>1 DEF Fill
    <3>5. executed' = executed + Size(f)
      BY <3>4 DEF Filling
    <3> QED
      BY <1>2, <1>3, <3>2, <3>4, <3>5 DEF Counts
  <2>4. CASE \/ ReconcileList("matcher") \/ ReconcileEnd("matcher")
             \/ (\E o \in Stops : ReconcileRead("matcher", o)) \/ FillEnd("matcher")
    <3>1. ~Filling /\ f.stage \notin {"wait", "write"}
      BY <2>4 DEF ReconcileList, ReconcileEnd, ReconcileRead, FillEnd, Filling
    <3>2. fill'["matcher"].stage \in {"orphans", "end", "none"}
      <4>1. CASE FillEnd("matcher")
        BY <1>1, <4>1 DEF FillEnd, Become, NoFill
      <4>2. CASE ReconcileList("matcher")
        BY <1>1, <4>2 DEF ReconcileList, Become, Fill
      <4>3. CASE ReconcileEnd("matcher")
        BY <1>1, <4>3 DEF ReconcileEnd, Become, Fill
      <4>4. ASSUME NEW o \in Stops, ReconcileRead("matcher", o)
            PROVE  fill'["matcher"].stage \in {"orphans", "end", "none"}
        BY <1>1, <4>4 DEF ReconcileRead, Become, Fill
      <4> QED
        BY <2>4, <4>1, <4>2, <4>3, <4>4
    <3> QED
      BY <1>3, <1>5, <3>1, <3>2
  <2> QED
    BY <1>6, <2>1, <2>2, <2>3, <2>4 DEF FillStep
<1>7. CASE ~FillStep("matcher")
  <2>1. fill'["matcher"].stage = f.stage /\ fill'["matcher"].sz = f.sz /\ fill'["matcher"].ro = f.ro
    <3>1. CASE Around
      BY <1>7, <3>1, AroundKeeps
    <3>2. CASE Sweep
      BY <1>1, <3>2, SweepApart
    <3> QED
      BY <3>1, <3>2
  <2>2. executed' = executed
    BY <2>1 DEF Filling
  <2> QED
    BY <1>3, <2>1, <2>2
<1> QED
  BY <1>6, <1>7

\* A slice is what is left at most.
LEMMA SliceBound ==
  ASSUME NEW d \in TwapRec, NEW t \in Nat, d.slices > 0, d.filled <= d.total
  PROVE  SliceSize(d, t) \in Nat /\ d.filled + SliceSize(d, t) <= d.total
<1> DEFINE gap == Max2(0, d.total * (t - d.start) - d.filled * d.slices)
           remaining == Max2(0, d.total - d.filled)
           most == Min2(Max2(gap, d.total), d.total * Catchup)
           share == Min2(most, remaining * d.slices)
<1>1. /\ d.total \in Nat /\ d.filled \in Nat /\ d.slices \in Nat /\ d.start \in Nat
      /\ Catchup \in Nat
  BY TwapAssumption DEF TwapRec
<1>2. \A a, b \in Int : a * b \in Int
  OBVIOUS
<1>3. \A a, b \in Nat : a * b \in Nat
  OBVIOUS
<1>4. d.total * (t - d.start) \in Int /\ d.filled * d.slices \in Int
  BY <1>1, <1>2
<1>5. gap \in Nat
  BY <1>4 DEF Max2
<1>6. remaining \in Nat /\ remaining = d.total - d.filled
  BY <1>1 DEF Max2
<1>7. d.total * Catchup \in Nat /\ remaining * d.slices \in Nat
  BY <1>1, <1>3, <1>6
<1> HIDE DEF gap, remaining
<1>8. most \in Nat
  BY <1>1, <1>5, <1>7 DEF Min2, Max2
<1> HIDE DEF most
<1>9. share \in Nat /\ share <= remaining * d.slices
  BY <1>7, <1>8 DEF Min2
<1> HIDE DEF share
<1>10. SliceSize(d, t) = share \div d.slices
  BY DEF SliceSize, share, most, gap, remaining
<1>11. \A x, r \in Nat, k \in Nat \ {0} : x <= r * k => x \div k \in Nat /\ x \div k <= r
  BY Z3
<1>12. share \div d.slices \in Nat /\ share \div d.slices <= remaining
  BY <1>1, <1>6, <1>9, <1>11
<1> QED
  BY <1>1, <1>6, <1>10, <1>12

TwInv == TrInv /\ SweepTypes /\ PassOk /\ TwapTypes /\ TwapOk /\ SliceOk /\ HistoryOk

LEMMA NoTwapTypes == NoTwap \in TwapRec /\ NoTwapPass \in Slice
  BY DEF NoTwap, TwapRec, TwapStatus, NoTwapPass, Slice

LEMMA TwInit == TwapInit => TwInv
<1> SUFFICES ASSUME TwapInit PROVE TwInv
  OBVIOUS
<1>1. TrInv
  BY TrInit DEF TwapInit
<1>2. /\ now = 0 /\ twap = NoTwap /\ active = FALSE /\ pass = NoTwapPass /\ canceller = None
      /\ history = None /\ executed = 0 /\ clobbered = FALSE
  BY DEF TwapInit
<1>3. TwapTypes
  BY <1>2, NoTwapTypes DEF TwapTypes
<1>4. TwapOk /\ SliceOk /\ HistoryOk /\ PassOk
  BY <1>2 DEF TwapOk, SliceOk, HistoryOk, PassOk, NoTwap, NoTwapPass, Counts
<1>5. SweepTypes
  BY DEF TwapInit, Init, SweepTypes, NoTick, NoReset
<1> QED
  BY <1>1, <1>3, <1>4, <1>5 DEF TwInv

LEMMA TwTrailing ==
  ASSUME TwInv, TrailingStep
  PROVE  TwInv'
<1>1. TrInv /\ SweepTypes /\ PassOk /\ TwapTypes /\ TwapOk /\ SliceOk /\ HistoryOk
  BY DEF TwInv
<1>2. UNCHANGED <<now, twap, active, pass, canceller, history, clobbered>> /\ TrInv' /\ SweepTypes'
  <2>1. UNCHANGED sweepVars => SweepTypes'
    BY <1>1 DEF SweepTypes, sweepVars
  <2> QED
    BY <1>1, <2>1, TrStep, SweepTyped DEF TrailingStep
<1>3. twap \in TwapRec /\ pass \in Slice /\ executed \in Nat
  BY <1>1 DEF TwapTypes
<1>4. CASE pass.stage = "slice"
  <2>1. (Around \/ Sweep) /\ executed' = IF Filling THEN executed + Size(fill["matcher"]) ELSE executed
    BY <1>4 DEF TrailingStep, NoTwapPass
  <2>2. SliceOk' /\ executed' \in Nat
    BY <1>1, <1>2, <1>3, <1>4, <2>1, SlicePass DEF TwapOk
  <2>3. matcher' = matcher
    BY <1>1, <2>1, AroundKeeps, SweepApart DEF Procs
  <2>4. TwapTypes'
    BY <1>1, <1>2, <2>2 DEF TwapTypes
  <2>5. TwapOk' /\ HistoryOk' /\ PassOk'
    BY <1>1, <1>2, <1>4, <2>3 DEF TwapOk, HistoryOk, PassOk
  <2> QED
    BY <1>2, <2>2, <2>4, <2>5 DEF TwInv
<1>5. CASE pass.stage # "slice"
  <2>1. executed' = executed
    BY <1>5 DEF TrailingStep, Filling
  <2>2. TwapTypes' /\ TwapOk' /\ SliceOk' /\ HistoryOk'
    BY <1>1, <1>2, <1>5, <2>1 DEF TwapTypes, TwapOk, SliceOk, HistoryOk
  <2>3. PassOk'
    <3>1. CASE Around
      <4>1. fill["matcher"] = NoFill => ~FillStep("matcher")
        BY DEF FillStep, FillRead, FillNothing, FillWrite, ReconcileList, ReconcileRead, ReconcileEnd,
               FillEnd, NoFill
      <4> QED
        BY <1>1, <1>2, <3>1, <4>1, AroundKeeps DEF PassOk
    <3>2. CASE pass = NoTwapPass
      BY <1>2, <3>2 DEF PassOk, NoTwapPass
    <3>3. CASE Sweep
      BY <1>1, <1>2, <3>3, SweepApart DEF PassOk, Procs
    <3> QED
      BY <3>1, <3>2, <3>3 DEF TrailingStep
  <2> QED
    BY <1>2, <2>2, <2>3 DEF TwInv
<1> QED
  BY <1>4, <1>5

\* The steps of the clock, of the client and of an idle pass.
LEMMA TwClient ==
  ASSUME TwInv,
         Tick \/ (\E r \in Orders : createTwapOrder(r)) \/ CancelTwapRead \/ cancelTwapOrder \/ StartTwaps
  PROVE  TwInv'
<1>1. TrInv /\ SweepTypes /\ PassOk /\ TwapTypes /\ TwapOk /\ SliceOk /\ HistoryOk
  BY DEF TwInv
<1>2. UNCHANGED <<order, trailing, seen, mark, szi, lock, fill, matcher, client, executed>>
  BY DEF Tick, createTwapOrder, CancelTwapRead, cancelTwapOrder, StartTwaps, vars, aside,
         orderVars, fillVars, markVars
<1>3. TrInv' /\ SweepTypes'
  <2>1. UNCHANGED sweepVars
    BY DEF Tick, createTwapOrder, CancelTwapRead, cancelTwapOrder, StartTwaps, vars, aside
  <2> QED
    BY <1>1, <1>2, <2>1, TrSame DEF SweepTypes, sweepVars
<1>4. twap \in TwapRec /\ pass \in Slice /\ now \in Nat
  BY <1>1 DEF TwapTypes
<1>5. CASE Tick
  <2>1. UNCHANGED <<twap, active, pass, canceller, history, clobbered>> /\ now' = now + 1
    BY <1>5 DEF Tick
  <2> QED
    BY <1>1, <1>2, <1>3, <2>1 DEF TwInv, PassOk, TwapTypes, TwapOk, SliceOk, HistoryOk
<1>6. ASSUME NEW r \in Orders, createTwapOrder(r)
      PROVE  TwInv'
  <2>1. /\ r.buy \in BOOLEAN /\ r.ro \in BOOLEAN /\ r.total \in Nat /\ r.slices \in Nat /\ r.slices > 0
    BY TwapAssumption
  <2>2. /\ twap = NoTwap /\ active' = TRUE /\ UNCHANGED <<now, pass, canceller, history, clobbered>>
        /\ twap' = [status |-> "running", buy |-> r.buy, ro |-> r.ro, total |-> r.total,
                    slices |-> r.slices, filled |-> 0, start |-> now, next |-> now]
    BY <1>6 DEF createTwapOrder
  <2>3. /\ twap' \in TwapRec /\ twap'.status = "running" /\ twap'.slices > 0 /\ twap'.filled = 0
        /\ twap'.total \in Nat
    BY <1>4, <2>1, <2>2 DEF TwapRec, TwapStatus
  <2>4. /\ pass.stage = "idle" /\ executed = 0 /\ history = None /\ canceller = None
    BY <1>1, <2>2 DEF TwapOk, HistoryOk, NoTwap
  <2>5. TwapTypes'
    BY <1>1, <1>2, <2>2, <2>3 DEF TwapTypes
  <2>6. TwapOk' /\ SliceOk' /\ HistoryOk' /\ PassOk'
    BY <1>1, <1>2, <2>2, <2>3, <2>4 DEF TwapOk, SliceOk, HistoryOk, PassOk, Counts
  <2> QED
    BY <1>3, <2>5, <2>6 DEF TwInv
<1>7. CASE CancelTwapRead
  <2>1. /\ canceller' = twap /\ twap.status = "running"
        /\ UNCHANGED <<now, twap, active, pass, history, clobbered>>
    BY <1>7 DEF CancelTwapRead
  <2> QED
    BY <1>1, <1>2, <1>3, <2>1 DEF TwInv, PassOk, TwapTypes, TwapOk, SliceOk, HistoryOk
<1>8. CASE cancelTwapOrder
  <2>1. /\ canceller # None /\ twap' = [twap EXCEPT !.status = "cancelled"] /\ active' = FALSE
        /\ history' = IF history = None THEN [status |-> "cancelled", executed |-> canceller.filled] ELSE history
        /\ clobbered' = (clobbered \/ twap # canceller \/ pass.stage # "idle") /\ canceller' = None
        /\ UNCHANGED <<now, pass>>
    BY <1>8 DEF cancelTwapOrder, recordTwapHistory
  <2>2. /\ twap.status # "none" /\ canceller \in TwapRec /\ canceller.status = "running"
        /\ canceller.filled \in Nat
    BY <1>1, <2>1 DEF HistoryOk, TwapTypes, TwapRec
  <2>3. /\ twap' \in TwapRec /\ twap'.status = "cancelled" /\ twap'.slices = twap.slices
        /\ twap'.filled = twap.filled /\ twap'.total = twap.total /\ twap'.ro = twap.ro
        /\ [twap' EXCEPT !.status = "running"] = [twap EXCEPT !.status = "running"]
    BY <1>4, <2>1 DEF TwapRec, TwapStatus
  <2>4. TwapTypes'
    BY <1>1, <1>2, <2>1, <2>2, <2>3 DEF TwapTypes, TwapStatus
  <2>5. TwapOk' /\ SliceOk' /\ PassOk'
    BY <1>1, <1>2, <2>1, <2>2, <2>3 DEF TwapOk, SliceOk, PassOk, Counts
  <2>6. HistoryOk'
    <3>1. ~clobbered' => ~clobbered /\ twap = canceller /\ pass.stage = "idle"
      BY <1>1, <2>1 DEF TwapTypes
    <3>2. ~clobbered' => history = None
      BY <1>1, <2>2, <3>1 DEF HistoryOk
    <3>3. ~clobbered' /\ ~twap.ro => canceller.filled = executed
      BY <1>1, <3>1 DEF TwapOk, Counts
    <3> QED
      BY <1>2, <2>1, <2>3, <3>1, <3>2, <3>3 DEF HistoryOk
  <2> QED
    BY <1>3, <2>4, <2>5, <2>6 DEF TwInv
<1>9. CASE StartTwaps
  <2>1. /\ matcher = NoPass /\ fill["matcher"] = NoFill /\ pass = NoTwapPass /\ active
        /\ pass' = [NoTwapPass EXCEPT !.stage = "read", !.now = now]
        /\ UNCHANGED <<now, twap, active, canceller, history, clobbered>>
    BY <1>9 DEF StartTwaps
  <2>2. pass' \in Slice /\ pass'.stage = "read"
    BY <1>4, <2>1, NoTwapTypes DEF Slice, NoTwapPass
  <2>3. TwapTypes'
    BY <1>1, <1>2, <2>1, <2>2 DEF TwapTypes
  <2>4. twap.status # "none" /\ pass.stage = "idle"
    BY <1>1, <2>1 DEF TwapOk, NoTwapPass
  <2>5. TwapOk' /\ SliceOk' /\ PassOk'
    BY <1>1, <1>2, <2>1, <2>2, <2>4 DEF TwapOk, SliceOk, PassOk, NoPass
  <2>6. HistoryOk'
    BY <1>1, <1>2, <2>1, <2>2, <2>4 DEF HistoryOk, TwapOk
  <2> QED
    BY <1>3, <2>3, <2>5, <2>6 DEF TwInv
<1> QED
  BY <1>5, <1>6, <1>7, <1>8, <1>9

\* The steps of the matcher's pass over the TWAP.
LEMMA TwPass ==
  ASSUME TwInv, TwapRead \/ TwapFinish \/ TwapSubmit \/ TwapProgress
  PROVE  TwInv'
<1>1. TrInv /\ SweepTypes /\ PassOk /\ TwapTypes /\ TwapOk /\ SliceOk /\ HistoryOk
  BY DEF TwInv
<1>2. /\ UNCHANGED <<order, trailing, seen, mark, szi, lock, matcher, client, executed, now>>
      /\ TwapSubmit \/ UNCHANGED fill
  BY DEF TwapRead, TwapFinish, TwapSubmit, TwapProgress, vars, orderVars, fillVars, markVars
<1>3. SweepTypes' /\ (TwapSubmit \/ TrInv')
  <2>1. UNCHANGED sweepVars
    BY DEF TwapRead, TwapFinish, TwapSubmit, TwapProgress, vars
  <2> QED
    BY <1>1, <1>2, <2>1, TrSame DEF SweepTypes, sweepVars
<1>4. /\ twap \in TwapRec /\ pass \in Slice /\ now \in Nat /\ executed \in Nat /\ clobbered \in BOOLEAN
      /\ history \in [status : TwapStatus, executed : Nat] \cup {None}
  BY <1>1 DEF TwapTypes
<1>5. pass.now \in Nat /\ pass.slice \in Nat /\ twap.filled \in Nat /\ twap.total \in Nat /\ twap.slices \in Nat
      /\ twap.status \in TwapStatus
  BY <1>4 DEF Slice, TwapRec
<1>6. CASE TwapRead
  <2>1. /\ pass.stage = "read" /\ UNCHANGED <<twap, canceller, clobbered, fill>>
        /\ \/ /\ twap.status # "running" /\ active' = FALSE /\ pass' = NoTwapPass
              /\ history' = IF history = None THEN [status |-> twap.status, executed |-> twap.filled] ELSE history
           \/ /\ twap.status = "running" /\ UNCHANGED <<active, history>>
              /\ \/ pass' = NoTwapPass
                 \/ pass' = [pass EXCEPT !.stage = "finish", !.data = twap]
                 \/ /\ pass' = [pass EXCEPT !.stage = "submit", !.data = twap, !.slice = SliceSize(twap, pass.now)]
                    /\ SliceSize(twap, pass.now) # 0
    BY <1>6 DEF TwapRead, recordTwapHistory, vars, fillVars
  <2>2. /\ twap.status # "none" /\ matcher.stage = "idle" /\ fill["matcher"] = NoFill
        /\ Counts(executed, twap, twap.filled)
    BY <1>1, <2>1 DEF PassOk, TwapOk
  <2>3. CASE twap.status # "running"
    <3>1. pass' = NoTwapPass /\ active' = FALSE
          /\ history' = IF history = None THEN [status |-> twap.status, executed |-> twap.filled] ELSE history
      BY <2>1, <2>3
    <3>2. TwapTypes'
      BY <1>1, <1>2, <1>5, <2>1, <3>1, NoTwapTypes DEF TwapTypes
    <3>3. TwapOk' /\ SliceOk' /\ PassOk'
      BY <1>1, <1>2, <2>1, <2>2, <3>1 DEF TwapOk, SliceOk, PassOk, NoTwapPass
    <3>4. HistoryOk'
      BY <1>1, <1>2, <2>1, <2>2, <2>3, <3>1 DEF HistoryOk, NoTwapPass, Counts
    <3> QED
      BY <1>2, <1>1, <2>1, <3>2, <3>3, <3>4, <1>3, TrSame DEF TwInv
  <2>4. CASE twap.status = "running"
    <3>1. /\ UNCHANGED <<active, history>>
          /\ \/ pass' = NoTwapPass
             \/ pass' = [pass EXCEPT !.stage = "finish", !.data = twap]
             \/ /\ pass' = [pass EXCEPT !.stage = "submit", !.data = twap, !.slice = SliceSize(twap, pass.now)]
                /\ SliceSize(twap, pass.now) # 0
      BY <2>1, <2>4
    <3>2. SliceSize(twap, pass.now) \in Nat /\ twap.filled + SliceSize(twap, pass.now) <= twap.total
      BY <1>1, <1>4, <1>5, <2>2, SliceBound DEF TwapOk
    <3>3. /\ pass' \in Slice /\ (pass' = NoTwapPass \/ (pass'.stage \in {"finish", "submit"} /\ pass'.data = twap))
          /\ pass'.stage = "submit" => pass'.slice > 0 /\ twap.filled + pass'.slice <= twap.total
      <4> DEFINE x == SliceSize(twap, pass.now)
      <4> HIDE DEF x
      <4>1. x \in Nat /\ twap.filled + x <= twap.total
        BY <3>2 DEF x
      <4>2. CASE pass' = NoTwapPass
        <5>1. pass'.stage # "submit"
          BY <4>2 DEF NoTwapPass
        <5>2. pass' \in Slice
          BY <4>2, NoTwapTypes
        <5> QED
          BY <4>2, <5>1, <5>2
      <4>3. CASE pass' = [pass EXCEPT !.stage = "finish", !.data = twap]
        BY <1>4, <4>3 DEF Slice
      <4>4. CASE pass' = [pass EXCEPT !.stage = "submit", !.data = twap, !.slice = x] /\ x # 0
        <5>1. pass' \in Slice /\ pass'.stage = "submit" /\ pass'.data = twap /\ pass'.slice = x
          BY <1>4, <4>1, <4>4 DEF Slice
        <5> QED
          BY <4>1, <4>4, <5>1
      <4> QED
        BY <3>1, <4>2, <4>3, <4>4 DEF x
    <3>4. twap = [twap EXCEPT !.status = "running"]
      BY <1>4, <2>4 DEF TwapRec
    <3>5. pass' = NoTwapPass => pass'.stage = "idle"
      BY DEF NoTwapPass
    <3>6. TwapTypes'
      BY <1>1, <1>2, <2>1, <3>1, <3>3 DEF TwapTypes
    <3>7. TwapOk'
      BY <1>1, <1>2, <2>1, <2>2, <3>1, <3>3, <3>4, <3>5 DEF TwapOk
    <3>8. SliceOk' /\ PassOk'
      BY <1>1, <1>2, <2>1, <2>2, <3>1, <3>3, <3>5 DEF SliceOk, PassOk
    <3>9. HistoryOk'
      BY <1>1, <1>2, <2>1, <2>4, <3>1 DEF HistoryOk
    <3> QED
      BY <1>2, <1>1, <2>1, <3>6, <3>7, <3>8, <3>9, <1>3, TrSame DEF TwInv
  <2> QED
    BY <2>3, <2>4
<1>7. CASE TwapFinish
  <2>1. /\ pass.stage = "finish" /\ pass' = NoTwapPass /\ UNCHANGED <<canceller, fill>>
        /\ twap' = [twap EXCEPT !.status = "finished"] /\ active' = FALSE
        /\ history' = IF history = None THEN [status |-> "finished", executed |-> pass.data.filled] ELSE history
        /\ clobbered' = (clobbered \/ twap # pass.data \/ canceller # None)
    BY <1>7 DEF TwapFinish, recordTwapHistory, vars, fillVars
  <2>2. /\ twap.status # "none" /\ matcher.stage = "idle" /\ fill["matcher"] = NoFill
        /\ Counts(executed, twap, twap.filled) /\ pass.data = [twap EXCEPT !.status = "running"]
    BY <1>1, <2>1 DEF PassOk, TwapOk
  <2>3. /\ twap' \in TwapRec /\ twap'.status = "finished" /\ twap'.slices = twap.slices
        /\ twap'.filled = twap.filled /\ twap'.total = twap.total /\ twap'.ro = twap.ro
        /\ pass.data.filled = twap.filled
    BY <1>4, <2>1, <2>2 DEF TwapRec, TwapStatus
  <2>4. TwapTypes'
    BY <1>1, <1>2, <1>5, <2>1, <2>3, NoTwapTypes DEF TwapTypes, TwapStatus
  <2>5. TwapOk' /\ SliceOk' /\ PassOk'
    BY <1>1, <1>2, <2>1, <2>2, <2>3 DEF TwapOk, SliceOk, PassOk, NoTwapPass, Counts
  <2>6. HistoryOk'
    <3>1. clobbered \/ history = None
      BY <1>1, <2>1 DEF HistoryOk
    <3>2. ~clobbered' => ~clobbered /\ history = None
      BY <2>1, <3>1
    <3>3. pass'.stage = "idle"
      BY <2>1 DEF NoTwapPass
    <3> QED
      BY <1>1, <1>2, <2>1, <2>2, <2>3, <3>2, <3>3 DEF HistoryOk, Counts
  <2> QED
    BY <1>2, <1>1, <2>1, <2>4, <2>5, <2>6, <1>3, TrSame DEF TwInv
<1>8. CASE TwapProgress
  <2>1. /\ pass.stage = "bump" \/ (pass.stage = "slice" /\ fill["matcher"] = NoFill)
        /\ pass' = NoTwapPass /\ UNCHANGED <<active, canceller, history, fill>>
        /\ twap' = [twap EXCEPT !.next = pass.now + 1,
                      !.filled = IF pass.stage = "slice" THEN pass.data.filled + pass.slice ELSE @]
        /\ clobbered' = (clobbered \/ twap # pass.data)
    BY <1>8 DEF TwapProgress, Overwrites, vars, fillVars
  <2>2. /\ twap.status # "none" /\ matcher.stage = "idle" /\ fill["matcher"] = NoFill
        /\ pass.data = [twap EXCEPT !.status = "running"]
    BY <1>1, <2>1 DEF PassOk, TwapOk
  <2>3. pass.data.filled = twap.filled
    BY <1>4, <2>2 DEF TwapRec
  <2> DEFINE n == IF pass.stage = "slice" THEN twap.filled + pass.slice ELSE twap.filled
  <2>4. n \in Nat /\ n <= twap.total
    BY <1>1, <1>5 DEF TwapOk
  <2>5. Counts(executed, twap, n)
    BY <1>1, <2>1, <2>2 DEF SliceOk, TwapOk, NoFill
  <2>6. twap' = [twap EXCEPT !.next = pass.now + 1, !.filled = n]
    BY <2>1, <2>3
  <2> HIDE DEF n
  <2>7. /\ twap' \in TwapRec /\ twap'.status = twap.status /\ twap'.slices = twap.slices
        /\ twap'.filled = n /\ twap'.total = twap.total /\ twap'.ro = twap.ro
    <3>1. pass.now + 1 \in Nat
      BY <1>5
    <3> QED
      BY <1>4, <2>4, <2>6, <3>1 DEF TwapRec
  <2>8. TwapTypes'
    BY <1>1, <1>2, <2>1, <2>7, NoTwapTypes DEF TwapTypes
  <2>9. TwapOk' /\ SliceOk' /\ PassOk'
    BY <1>1, <1>2, <2>1, <2>2, <2>4, <2>5, <2>7 DEF TwapOk, SliceOk, PassOk, NoTwapPass, Counts
  <2>10. HistoryOk'
    <3>1. ~clobbered' => ~clobbered
      BY <2>1
    <3> QED
      BY <1>1, <1>2, <2>1, <2>2, <2>7, <3>1 DEF HistoryOk
  <2> QED
    BY <1>2, <1>1, <2>1, <2>8, <2>9, <2>10, <1>3, TrSame DEF TwInv
<1>9. CASE TwapSubmit
  <2> DEFINE g == [NoFill EXCEPT !.stage = "wait", !.buy = pass.data.buy, !.sz = pass.slice, !.ro = pass.data.ro]
  <2>1. /\ pass.stage = "submit" /\ UNCHANGED <<twap, active, canceller, history, clobbered>>
        /\ \/ pass' = [pass EXCEPT !.stage = "bump"] /\ UNCHANGED fill
           \/ pass' = [pass EXCEPT !.stage = "slice"] /\ fill' = [fill EXCEPT !["matcher"] = g]
    BY <1>9 DEF TwapSubmit, Become
  <2>2. /\ twap.status # "none" /\ matcher.stage = "idle" /\ fill["matcher"] = NoFill
        /\ pass.data = [twap EXCEPT !.status = "running"] /\ Counts(executed, twap, twap.filled)
        /\ pass.slice > 0 /\ twap.filled + pass.slice <= twap.total
    BY <1>1, <2>1 DEF PassOk, TwapOk
  <2>3. pass.data.ro = twap.ro /\ pass.data.buy = twap.buy /\ twap.ro \in BOOLEAN /\ twap.buy \in BOOLEAN
    BY <1>4, <2>2 DEF TwapRec
  <2>4. /\ g \in Fill /\ g.stage = "wait" /\ g.oid = None /\ g.sz = pass.slice /\ g.ro = twap.ro
    BY <1>5, <2>3, NoFillType DEF Fill, NoFill
  <2>5. HistoryOk' /\ TwapTypes'
    <3>1. clobbered \/ history = None
      BY <1>1, <2>1 DEF HistoryOk
    <3>2. pass' \in Slice
      BY <1>4, <2>1 DEF Slice
    <3> QED
      BY <1>1, <1>2, <2>1, <3>1, <3>2 DEF HistoryOk, TwapTypes
  <2> HIDE DEF g
  <2>6. /\ pass'.slice = pass.slice /\ pass'.data = pass.data
        /\ pass'.stage = "bump" \/ pass'.stage = "slice"
    BY <1>4, <2>1 DEF Slice
  <2>7. TwapOk'
    BY <1>1, <1>2, <2>1, <2>2, <2>6 DEF TwapOk
  <2>8. CASE pass' = [pass EXCEPT !.stage = "bump"] /\ UNCHANGED fill
    <3>1. pass'.stage = "bump"
      BY <1>4, <2>8 DEF Slice
    <3> QED
      BY <1>1, <1>2, <2>2, <2>5, <2>7, <2>8, <3>1, <1>3, TrSame DEF TwInv, SliceOk, PassOk
  <2>9. CASE pass' = [pass EXCEPT !.stage = "slice"] /\ fill' = [fill EXCEPT !["matcher"] = g]
    <3>1. pass'.stage = "slice"
      BY <1>4, <2>9 DEF Slice
    <3>2. /\ fill \in [Procs -> Fill] /\ "matcher" \in Procs /\ "trader" \in Procs
          /\ \A w \in Procs : FillOk(w, fill[w], lock, szi, order)
      BY <1>1 DEF TrInv, Types, Procs
    <3>3. fill' \in [Procs -> Fill] /\ fill'["matcher"] = g /\ fill'["trader"] = fill["trader"]
      BY <2>4, <2>9, <3>2
    <3>4. FillOk("matcher", g, lock, szi, order)
      BY <2>2, <2>4, <3>2, Nones DEF FillOk, NoFill, Section
    <3>5. MatchOk(matcher, order, fill')
      BY <2>2, NextMatches
    <3>6. Types'
      BY <1>1, <1>2, <3>3 DEF TrInv, Types
    <3>7. TrInv'
      BY <1>1, <1>2, <3>2, <3>3, <3>4, <3>5, <3>6 DEF TrInv, Procs
    <3>8. SliceOk' /\ PassOk'
      BY <1>2, <2>1, <2>2, <2>4, <2>6, <3>1, <3>3 DEF SliceOk, PassOk
    <3> QED
      BY <1>3, <2>5, <2>7, <3>7, <3>8 DEF TwInv
  <2> QED
    BY <2>1, <2>8, <2>9
<1> QED
  BY <1>6, <1>7, <1>8, <1>9

LEMMA TwStep ==
  ASSUME TwInv, [TwapNext]_<<vars, twapVars>>
  PROVE  TwInv'
<1>1. CASE UNCHANGED <<vars, twapVars>>
  <2>1. /\ UNCHANGED <<order, trailing, seen, mark, szi, lock, fill, matcher, client>>
        /\ UNCHANGED <<now, twap, active, pass, canceller, history, executed, clobbered>>
    BY <1>1 DEF vars, twapVars, orderVars, fillVars, markVars
  <2>2. SweepTypes'
    BY <1>1 DEF TwInv, SweepTypes, vars, sweepVars
  <2> QED
    BY <2>1, <2>2, TrSame DEF TwInv, PassOk, TwapTypes, TwapOk, SliceOk, HistoryOk
<1> QED
  BY <1>1, TwTrailing, TwClient, TwPass DEF TwapNext

\* In every state of the TWAP and of the stops beside it: the types, the
\* stops in orders:trailing and their triggers, the sections of the fills, the
\* reads of the matcher and of the client, the progress and the slice under way.
THEOREM Invariance == TwapSpec => []TwInv
<1>1. TwInv /\ [TwapNext]_<<vars, twapVars>> => TwInv'
  BY TwStep
<1> QED
  BY TwInit, <1>1, PTL DEF TwapSpec

\* TwapAccounted: matchTwaps never trades more than the TWAP's size, whatever
\* slices are missed, late, refused, clamped or caught up, and whatever cancel
\* lands in the middle; the terminal row tells what was traded.
THEOREM Accounted == TwapSpec => []TwapAccounted
<1>1. TwInv => TwapAccounted
  <2> SUFFICES ASSUME TwInv PROVE TwapAccounted
    OBVIOUS
  <2>1. twap \in TwapRec /\ pass \in Slice /\ executed \in Nat /\ TwapOk /\ SliceOk /\ HistoryOk
    BY DEF TwInv, TwapTypes
  <2>2. twap.filled \in Nat /\ twap.total \in Nat /\ pass.slice \in Nat
    BY <2>1 DEF TwapRec, Slice
  <2>3. executed <= twap.total
    BY <2>1, <2>2 DEF TwapOk, SliceOk, Counts
  <2> QED
    BY <2>1, <2>3 DEF TwapAccounted, HistoryOk
<1> QED
  BY Invariance, <1>1, PTL

-----------------------------------------------------------------------------
(* What a step does to a stop.                                             *)

\* It is placed; or ended, or left open, with its trail as it was or one
\* evaluation further.
Trailed(d, e, m) == d.best # None => e.best = Better(d.p, d.best, m) /\ e.trigger = computeTrigger(d.p, e.best)

Effect(d, e) ==
  \/ d = NoStop /\ e.status = "open"
  \/ /\ e.p = d.p /\ e.ro = d.ro /\ (e.status = d.status \/ e.status \notin {"none", "open"})
     /\ (e.best = d.best /\ e.trigger = d.trigger) \/ (\E m \in Nat : Trailed(d, e, m))

LEMMA EndEffect ==
  ASSUME TrInv, NEW o \in Stops, NEW s \in StopStatus \ {"none", "open"}, NEW b \in Body,
         order' = [order EXCEPT ![o].status = s, ![o].snap = b]
  PROVE  \A x \in Stops : Effect(order[x], order'[x])
<1>1. order \in [Stops -> Stop] /\ order[o] \in Stop /\ s \in StopStatus
  BY DEF TrInv, Types
<1>2. order'[o] = WithEnd(order[o], s, b) /\ \A x \in Stops \ {o} : order'[x] = order[x]
  BY <1>1 DEF WithEnd
<1>3. Effect(order[o], order'[o])
  BY <1>1, <1>2, EndedType DEF Effect
<1> QED
  BY <1>2, <1>3 DEF Effect

LEMMA Effects ==
  ASSUME TrInv, Around \/ Pass \/ Sweep
  PROVE  \A x \in Stops : Effect(order[x], order'[x])
<1>1. /\ order \in [Stops -> Stop] /\ matcher \in Match /\ client \in Client /\ fill \in [Procs -> Fill]
      /\ MatchOk(matcher, order, fill) /\ ClientOk(client, order)
      /\ \A w \in Procs : FillOk(w, fill[w], lock, szi, order)
  BY DEF TrInv, Types
<1>2. ASSUME UNCHANGED order
      PROVE  \A x \in Stops : Effect(order[x], order'[x])
  BY <1>2 DEF Effect
<1>3. ASSUME NEW w \in Procs, FillStep(w)
      PROVE  \A x \in Stops : Effect(order[x], order'[x])
  <2>1. fill[w] \in Fill
    BY <1>1
  <2>2. CASE ReconcileEnd(w)
    <3>1. /\ fill[w].stage = "end"
          /\ order' = [order EXCEPT ![fill[w].at].status = "reduceOnlyCanceled",
                                    ![fill[w].at].snap = buildTrailingBody(fill[w].held, FALSE)]
      BY <2>2 DEF ReconcileEnd, terminateTrailingStop
    <3>2. fill[w].at \in Stops /\ fill[w].held \in Stop
      BY <1>1, <2>1, <3>1 DEF FillOk, Fill
    <3>3. buildTrailingBody(fill[w].held, FALSE) \in Body
      BY <3>2, BodyType
    <3> QED
      BY <3>1, <3>2, <3>3, EndEffect DEF StopStatus
  <2>3. CASE FillWrite(w)
    <3>1. CASE fill[w].oid \notin Stops
      BY <1>2, <2>3, <3>1 DEF FillWrite
    <3>2. CASE fill[w].oid \in Stops
      <4> DEFINE o == fill[w].oid
                 n == fill[w].sz
      <4>1. order' = [order EXCEPT ![o].status = "filled", ![o].filled = n]
        BY <2>3, <3>2 DEF FillWrite
      <4>2. n \in Nat /\ order[o] \in Stop
        BY <1>1, <2>1, <3>2 DEF Fill
      <4> HIDE DEF o, n
      <4>3. order'[o] = WithFill(order[o], n) /\ \A x \in Stops \ {o} : order'[x] = order[x]
        BY <1>1, <3>2, <4>1 DEF WithFill, o
      <4>4. Effect(order[o], order'[o])
        BY <4>2, <4>3, FilledType DEF Effect
      <4> QED
        BY <4>3, <4>4 DEF Effect
    <3> QED
      BY <3>1, <3>2
  <2>4. CASE ~ReconcileEnd(w) /\ ~FillWrite(w)
    <3>1. UNCHANGED order
      BY <1>3, <2>4 DEF FillStep, FillRead, FillNothing, ReconcileList, ReconcileRead, FillEnd, orderVars
    <3> QED
      BY <1>2, <3>1
  <2> QED
    BY <2>2, <2>3, <2>4
<1>4. CASE CancelWrite
  <2>1. /\ client.stage = "cancel"
        /\ order' = [order EXCEPT ![client.oid].status = "cancelled",
                                  ![client.oid].snap = buildTrailingBody(client.data, FALSE)]
    BY <1>4 DEF CancelWrite
  <2>2. client.oid \in Stops /\ client.data \in Stop
    BY <1>1, <2>1 DEF ClientOk, Client
  <2>3. buildTrailingBody(client.data, FALSE) \in Body
    BY <2>2, BodyType
  <2> QED
    BY <2>1, <2>2, <2>3, EndEffect DEF StopStatus
<1>5. ASSUME NEW o \in Stops, placeTrailingStop(o)
      PROVE  \A x \in Stops : Effect(order[x], order'[x])
  <2>1. PICK e \in Stop : /\ e.status = "open" /\ order[o] = NoStop
                          /\ UNCHANGED order \/ order' = [order EXCEPT ![o] = e]
    BY <1>5, Placed
  <2>2. CASE order' = [order EXCEPT ![o] = e]
    BY <1>1, <2>1, <2>2 DEF Effect
  <2> QED
    BY <1>2, <2>1, <2>2
<1>6. CASE MatchEvaluate
  <2>1. CASE ~mark.fresh
    BY <1>2, <1>6, <2>1 DEF MatchEvaluate
  <2>2. CASE mark.fresh
    <3> DEFINE o == matcher.oid
               ev == evaluateTrailing(order[o].p, order[o].best, matcher.px)
    <3>1. /\ o \in Stops /\ matcher.px \in Nat /\ order[o] \in Stop
          /\ order'[o] = WithTrail(order[o], ev)
          /\ \A x \in Stops \ {o} : order'[x] = order[x]
          /\ ev.best \in Nat \cup {None} /\ ev.trigger \in Int \cup {None} /\ ev.limit \in Int
          /\ ev.best # None => ev.trigger = computeTrigger(order[o].p, ev.best)
          /\ order[o].best # None => ev.best = Better(order[o].p, order[o].best, matcher.px)
      BY <1>6, <2>2, EvaluateOrder
    <3> HIDE DEF ev
    <3>2. /\ order'[o].status = order[o].status /\ order'[o].p = order[o].p /\ order'[o].ro = order[o].ro
          /\ order'[o].best = ev.best /\ order'[o].trigger = ev.trigger
      BY <3>1, TrailedType
    <3>3. order[o].best # None => ev.best # None
      <4>1. order[o].best \in Nat \cup {None}
        BY <3>1 DEF Stop
      <4> QED
        BY <3>1, <4>1, Nones DEF Better
    <3>4. Trailed(order[o], order'[o], matcher.px)
      BY <3>1, <3>2, <3>3 DEF Trailed
    <3>5. Effect(order[o], order'[o])
      BY <3>1, <3>2, <3>4 DEF Effect
    <3> QED
      BY <3>1, <3>5 DEF Effect
  <2> QED
    BY <2>1, <2>2
<1>7. CASE freezeTrailingSnapshot
  <2> DEFINE o == matcher.oid
             b == buildTrailingBody(matcher.data, FALSE)
  <2>1. matcher.stage = "freeze" /\ order' = [order EXCEPT ![o].snap = b]
    BY <1>7 DEF freezeTrailingSnapshot
  <2>2. o \in Stops /\ matcher.data \in Stop /\ order[o] \in Stop
    BY <1>1, <2>1 DEF MatchOk, Match
  <2>3. b \in Body
    BY <2>2, BodyType
  <2> HIDE DEF o, b
  <2>4. order'[o] = WithSnap(order[o], b) /\ \A x \in Stops \ {o} : order'[x] = order[x]
    BY <1>1, <2>1, <2>2 DEF WithSnap
  <2>5. Effect(order[o], order'[o])
    BY <2>2, <2>3, <2>4, SnapType DEF Effect
  <2> QED
    BY <2>4, <2>5 DEF Effect
<1>8. CASE FireMarginEnd
  <2>1. /\ matcher.stage = "end"
        /\ order' = [order EXCEPT ![matcher.oid].status = "marginCanceled",
                                  ![matcher.oid].snap = buildTrailingBody(matcher.data, FALSE)]
    BY <1>8 DEF FireMarginEnd, terminateTrailingStop
  <2>2. matcher.oid \in Stops /\ matcher.data \in Stop
    BY <1>1, <2>1 DEF MatchOk, Match
  <2>3. buildTrailingBody(matcher.data, FALSE) \in Body
    BY <2>2, BodyType
  <2> QED
    BY <2>1, <2>2, <2>3, EndEffect DEF StopStatus
<1>9. CASE \/ StartPass \/ EndPass \/ (\E o \in Stops : MatchRead(o)) \/ MatchReadPx \/ FireCheck \/ FireMargin
  BY <1>2, <1>9 DEF StartPass, EndPass, MatchRead, MatchReadPx, FireCheck, FireMargin, orderVars
<1>10. CASE \/ (\E w \in Wires : PlaceReadPx(w)) \/ PlaceReadStamp \/ PlaceRefresh
            \/ (\E o \in Stops : CancelRead(o))
  BY <1>2, <1>10 DEF PlaceReadPx, PlaceReadStamp, PlaceRefresh, CancelRead, orderVars
<1>11. CASE (\E p \in Prices : MarkFrame(p)) \/ MarkAges \/ (\E t \in Trades : Trade(t))
  BY <1>2, <1>11 DEF MarkFrame, MarkAges, Trade, orderVars
<1>12. ASSUME NEW O, order' = Cancelled(O)
       PROVE  \A x \in Stops : Effect(order[x], order'[x])
  <2> SUFFICES ASSUME NEW x \in Stops PROVE Effect(order[x], order'[x])
    OBVIOUS
  <2>1. order[x] \in Stop
    BY <1>1
  <2>2. order'[x] = IF x \in O THEN WithCancel(order[x]) ELSE order[x]
    BY <1>12, CancelledOnes
  <2> QED
    BY <2>1, <2>2, CancelType DEF Effect
<1>13. CASE Sweep
  <2>1. UNCHANGED order \/ order' = Cancelled(schedule.due) \/ order' = Cancelled(reset.oids)
    BY <1>13, SweepReads DEF ScheduleCancel, resetAccount
  <2> QED
    BY <1>2, <1>12, <2>1
<1> QED
  BY <1>3, <1>4, <1>5, <1>6, <1>7, <1>8, <1>9, <1>10, <1>11, <1>13
     DEF Around, Pass, MatchStep, ClientStep, Procs

-----------------------------------------------------------------------------
(* The trigger.                                                            *)

LEMMA Tightens ==
  ASSUME NEW p \in Params, p.kind = "pct" => p.value <= 99, NEW a \in Nat, NEW m \in Nat
  PROVE  LET b == Better(p, a, m) IN
         /\ b \in Nat
         /\ IF p.isBuy THEN computeTrigger(p, b) <= computeTrigger(p, a)
            ELSE computeTrigger(p, b) >= computeTrigger(p, a)
<1> DEFINE b == Better(p, a, m)
<1>1. p.isBuy \in BOOLEAN /\ p.kind \in {"px", "pct"} /\ p.value \in Nat
  BY DEF Params
<1>2. b \in Nat /\ (p.isBuy => b <= a) /\ (~p.isBuy => b >= a)
  BY <1>1 DEF Better
<1> HIDE DEF b
<1>3. CASE p.kind = "px"
  BY <1>1, <1>2, <1>3 DEF computeTrigger, b
<1>4. CASE p.kind = "pct"
  <2>1. \A x, y, k \in Nat : x <= y => x * k <= y * k
    BY Z3
  <2>2. \A x, y \in Int : x <= y => x \div 100 <= y \div 100
    BY Z3
  <2>3. CASE p.isBuy
    <3> DEFINE k == 100 + p.value
    <3>1. k \in Nat /\ k = 100 + 1 * p.value
      BY <1>1
    <3> HIDE DEF k
    <3>2. b * k <= a * k /\ b * k \in Int /\ a * k \in Int
      BY <1>2, <2>1, <2>3, <3>1
    <3>3. b * k + 50 <= a * k + 50 /\ b * k + 50 \in Int /\ a * k + 50 \in Int
      BY <3>2
    <3>4. (b * k + 50) \div 100 <= (a * k + 50) \div 100
      BY <2>2, <3>3
    <3>5. /\ computeTrigger(p, b) = (b * k + 50) \div 100
          /\ computeTrigger(p, a) = (a * k + 50) \div 100
      BY <1>4, <2>3, <3>1 DEF computeTrigger
    <3> QED
      BY <1>2, <2>3, <3>4, <3>5 DEF b
  <2>4. CASE ~p.isBuy
    <3> DEFINE k == 100 - p.value
    <3>1. k \in Nat /\ k = 100 + (-1) * p.value
      BY <1>1, <1>4
    <3> HIDE DEF k
    <3>2. a * k <= b * k /\ b * k \in Int /\ a * k \in Int
      BY <1>2, <2>1, <2>4, <3>1
    <3>3. a * k + 50 <= b * k + 50 /\ b * k + 50 \in Int /\ a * k + 50 \in Int
      BY <3>2
    <3>4. (a * k + 50) \div 100 <= (b * k + 50) \div 100 /\ (a * k + 50) \div 100 \in Int
          /\ (b * k + 50) \div 100 \in Int
      BY <2>2, <3>3
    <3>5. /\ computeTrigger(p, b) = (b * k + 50) \div 100
          /\ computeTrigger(p, a) = (a * k + 50) \div 100
      BY <1>4, <2>4, <3>1 DEF computeTrigger
    <3> QED
      BY <1>2, <2>4, <3>4, <3>5 DEF b
  <2> QED
    BY <1>1, <2>3, <2>4
<1> QED
  BY <1>1, <1>3, <1>4

\* The steps that are not of the stops or of a fill leave the stops and the
\* position alone.
LEMMA Others ==
  ASSUME [TwapNext]_<<vars, twapVars>>, ~(Around \/ Pass \/ Sweep)
  PROVE  /\ UNCHANGED <<order, trailing, seen, szi, lock, rows, raced, matcher, schedule, silent, unsnapped>>
         /\ UNCHANGED fill \/ TwapSubmit
  BY DEF TwapNext, TrailingStep, Tick, createTwapOrder, CancelTwapRead, cancelTwapOrder, StartTwaps,
         TwapRead, TwapFinish, TwapSubmit, TwapProgress, vars, twapVars, aside, orderVars, fillVars, markVars, sweepVars

\* NeverLoosens: matchTrailingStops moves the trigger of a resting stop in the
\* trader's favour only, for every mark and every kind of distance, although
\* what it evaluates was read before the price and the stamp were.
THEOREM Tightening == TwapSpec => NeverLoosens
<1>1. TwInv /\ [TwapNext]_<<vars, twapVars>> =>
        [\A o \in Stops : order[o].status = "open" /\ order'[o].status = "open" /\ order[o].best # None =>
           /\ order'[o].best # None
           /\ IF order[o].p.isBuy THEN order'[o].trigger <= order[o].trigger
              ELSE order'[o].trigger >= order[o].trigger]_vars
  <2> SUFFICES ASSUME TwInv, [TwapNext]_<<vars, twapVars>>, NEW o \in Stops,
                      order[o].status = "open", order'[o].status = "open", order[o].best # None
               PROVE  /\ order'[o].best # None
                      /\ IF order[o].p.isBuy THEN order'[o].trigger <= order[o].trigger
                         ELSE order'[o].trigger >= order[o].trigger
    OBVIOUS
  <2>1. /\ TrInv /\ order[o] \in Stop /\ StopOk(order[o])
    BY DEF TwInv, TrInv, Types, StopsOk
  <2>2. /\ order[o].p \in Params /\ order[o].best \in Nat /\ order[o].p.isBuy \in BOOLEAN
        /\ order[o].trigger = computeTrigger(order[o].p, order[o].best)
        /\ order[o].p.kind = "pct" => order[o].p.value <= 99
    BY <2>1 DEF Stop, StopOk, Params
  <2>3. order[o].trigger \in Int
    BY <2>2, TriggerType
  <2>4. ASSUME order'[o].best = order[o].best, order'[o].trigger = order[o].trigger
        PROVE  /\ order'[o].best # None
               /\ IF order[o].p.isBuy THEN order'[o].trigger <= order[o].trigger
                  ELSE order'[o].trigger >= order[o].trigger
    BY <2>3, <2>4
  <2>5. CASE Around \/ Pass \/ Sweep
    <3>1. Effect(order[o], order'[o])
      BY <2>1, <2>5, Effects
    <3>2. order[o] # NoStop
      BY DEF NoStop
    <3>3. ASSUME NEW m \in Nat, Trailed(order[o], order'[o], m)
          PROVE  /\ order'[o].best # None
                 /\ IF order[o].p.isBuy THEN order'[o].trigger <= order[o].trigger
                    ELSE order'[o].trigger >= order[o].trigger
      <4>1. /\ order'[o].best = Better(order[o].p, order[o].best, m)
            /\ order'[o].trigger = computeTrigger(order[o].p, order'[o].best)
        BY <3>3 DEF Trailed
      <4> QED
        BY <2>2, <4>1, Tightens, Nones
    <3> QED
      BY <2>4, <3>1, <3>2, <3>3 DEF Effect
  <2>6. CASE ~(Around \/ Pass \/ Sweep)
    BY <2>4, <2>6, Others
  <2> QED
    BY <2>5, <2>6
<1> QED
  BY <1>1, Invariance, PTL DEF TwapSpec, NeverLoosens

LEMMA Writers ==
  ASSUME TwInv, [TwapNext]_<<vars, twapVars>>, szi' # szi
  PROVE  (\E w \in Procs : FillWrite(w)) \/ resetAccount
<1>1. CASE Around
  BY <1>1, AroundKeeps DEF TwInv
<1>2. CASE Pass
  BY <1>2 DEF Pass, StartPass, EndPass, MatchStep, MatchRead, MatchReadPx, MatchEvaluate, FireCheck,
              freezeTrailingSnapshot, FireMargin, FireMarginEnd, fillVars
<1>3. CASE Sweep
  BY <1>3, SweepApart DEF TwInv, Procs
<1> QED
  BY <1>1, <1>2, <1>3, Others

\* ReduceOnlyReduces: executeFill never lets a reduce-only order grow or turn
\* the position, for any sizes and any other fills before its section, unless
\* resetAccount deletes the position inside it.
THEOREM Reducing == TwapSpec => ReduceOnlyReduces
<1>1. TwInv /\ [TwapNext]_<<vars, twapVars>> =>
        [\A w \in {"matcher", "trader"} : fill[w].ro /\ ~fill[w].torn /\ szi' # szi /\ lock = w =>
           IF szi > 0 THEN szi' \in 0 .. szi - 1 ELSE szi' \in szi + 1 .. 0]_vars
  <2> SUFFICES ASSUME TwInv, [TwapNext]_<<vars, twapVars>>, NEW w \in Procs,
                      fill[w].ro, ~fill[w].torn, szi' # szi, lock = w
               PROVE  IF szi > 0 THEN szi' \in 0 .. szi - 1 ELSE szi' \in szi + 1 .. 0
    BY DEF Procs
  <2>1. ASSUME NEW v \in Procs, FillWrite(v)
        PROVE  IF szi > 0 THEN szi' \in 0 .. szi - 1 ELSE szi' \in szi + 1 .. 0
    <3>1. /\ lock = v /\ fill[v] \in Fill /\ szi \in Int /\ Size(fill[v]) # 0
          /\ szi' = fill[v].cur + (IF fill[v].buy THEN Size(fill[v]) ELSE -Size(fill[v]))
          /\ ~fill[v].torn => fill[v].cur = szi
      BY <2>1, Written DEF TwInv
    <3>2. v = w /\ fill[w].cur = szi
      BY <3>1
    <3>3. /\ Size(fill[w]) \in Nat /\ fill[w].buy \in BOOLEAN
          /\ IF fill[w].buy THEN szi < 0 /\ szi + Size(fill[w]) <= 0 ELSE szi > 0 /\ szi - Size(fill[w]) >= 0
      BY <3>1, <3>2, SizeBound DEF Fill
    <3> QED
      BY <3>1, <3>2, <3>3
  <2>2. CASE resetAccount
    <3>1. szi' = 0 /\ szi \in Int
      BY <2>2 DEF resetAccount, TwInv, TrInv, Types
    <3> QED
      BY <3>1
  <2> QED
    BY <2>1, <2>2, Writers
<1> QED
  BY <1>1, Invariance, PTL DEF TwapSpec, ReduceOnlyReduces

-----------------------------------------------------------------------------
(* The orphans.                                                            *)

\* A fill comes, in a process without one.
LEMMA Comes ==
  ASSUME TwInv, NEW w \in Procs, fill[w] = NoFill, NEW g, fill' = [fill EXCEPT ![w] = g], lock \in Procs
  PROVE  fill'[lock] = fill[lock]
<1>1. fill \in [Procs -> Fill] /\ FillOk(w, fill[w], lock, szi, order)
  BY DEF TwInv, TrInv, Types
<1>2. lock # w
  BY <1>1 DEF FillOk, NoFill, Section
<1> QED
  BY <1>1, <1>2

\* Outside the steps of a fill, whoever holds the lock is where it was.
LEMMA Apart ==
  ASSUME TwInv, [TwapNext]_<<vars, twapVars>>, ~ \E w \in Procs : FillStep(w), ~resetAccount
  PROVE  /\ szi' = szi /\ seen' = seen /\ lock' = lock
         /\ lock \in Procs => fill'[lock] = fill[lock]
<1>1. "matcher" \in Procs /\ "trader" \in Procs
  BY DEF Procs
<1>2. CASE Around
  <2>1. ASSUME NEW t \in Trades, Trade(t)
        PROVE  /\ szi' = szi /\ seen' = seen /\ lock' = lock
               /\ lock \in Procs => fill'[lock] = fill[lock]
    <3>1. /\ fill["trader"] = NoFill /\ \E g : fill' = [fill EXCEPT !["trader"] = g]
          /\ szi' = szi /\ seen' = seen /\ lock' = lock
      BY <2>1 DEF Trade, Become
    <3> QED
      BY <1>1, <3>1, Comes
  <2>2. CASE ClientStep \/ MarkAges \/ \E p \in Prices : MarkFrame(p)
    BY <2>2 DEF ClientStep, PlaceReadPx, PlaceReadStamp, PlaceRefresh, placeTrailingStop, CancelRead,
                CancelWrite, MarkAges, MarkFrame, fillVars
  <2> QED
    BY <1>2, <2>1, <2>2 DEF Around, Procs
<1>3. CASE Pass
  <2>1. CASE FireMargin
    <3>1. matcher.stage = "margin" /\ szi' = szi /\ seen' = seen /\ lock' = lock
          /\ (UNCHANGED fill \/ \E g : fill' = [fill EXCEPT !["matcher"] = g])
      BY <2>1 DEF FireMargin, Become
    <3>2. fill["matcher"] = NoFill
      BY <3>1 DEF TwInv, TrInv, MatchOk
    <3> QED
      BY <1>1, <3>1, <3>2, Comes
  <2>2. CASE ~FireMargin
    BY <1>3, <2>2 DEF Pass, StartPass, EndPass, MatchStep, MatchRead, MatchReadPx, MatchEvaluate,
                      FireCheck, freezeTrailingSnapshot, FireMarginEnd, fillVars
  <2> QED
    BY <2>1, <2>2
<1>5. CASE Sweep
  BY <1>1, <1>5, SweepApart DEF TwInv
<1>4. CASE ~(Around \/ Pass \/ Sweep)
  <2>1. szi' = szi /\ seen' = seen /\ lock' = lock
    BY <1>4, Others
  <2>2. CASE TwapSubmit
    <3>1. /\ pass.stage = "submit" /\ (UNCHANGED fill \/ \E g : fill' = [fill EXCEPT !["matcher"] = g])
      BY <2>2 DEF TwapSubmit, Become
    <3>2. fill["matcher"] = NoFill
      BY <3>1 DEF TwInv, PassOk
    <3> QED
      BY <1>1, <2>1, <3>1, <3>2, Comes
  <2> QED
    BY <1>4, <2>1, <2>2, Others
<1> QED
  BY <1>2, <1>3, <1>4, <1>5

OrphanInv == OrphanOk(lock, fill, szi, order, seen)

LEMMA OrphanKept ==
  ASSUME TwInv, OrphanInv, [TwapNext]_<<vars, twapVars>>
  PROVE  OrphanInv'
<1>1. /\ TrInv /\ order \in [Stops -> Stop] /\ fill \in [Procs -> Fill] /\ seen \subseteq Stops
      /\ StopsOk(order, trailing, seen) /\ \A w \in Procs : FillOk(w, fill[w], lock, szi, order)
  BY DEF TwInv, TrInv, Types
<1> DEFINE Ok(o, lk, f) == /\ lk \in Procs /\ f[lk].stage # "write" /\ ~f[lk].torn
                           /\ \/ f[lk].stage = "list" \/ o \in f[lk].todo
                              \/ (f[lk].stage = "end" /\ f[lk].at = o)
<1>2. SUFFICES ASSUME NEW o \in seen', Bad(order'[o], szi')
               PROVE  Ok(o, lock', fill')
  BY DEF OrphanInv, OrphanOk
<1>3. ASSUME NEW w \in Procs, FillWrite(w)
      PROVE  Ok(o, lock', fill')
  <2>1. lock = w /\ lock' = lock
    BY <1>1, <1>3, Written DEF FillWrite
  <2>2. \E n : fill' = [fill EXCEPT ![w] = [fill[w] EXCEPT !.stage = "list", !.cur = n, !.torn = FALSE]]
    BY <1>3 DEF FillWrite, Become
  <2>3. fill'[w].stage = "list" /\ fill'[w].torn = FALSE
    BY <1>1, <2>2 DEF Fill
  <2> QED
    BY <2>1, <2>3
<1>4. CASE ~ \E w \in Procs : FillWrite(w)
  <2> ~resetAccount
    BY <1>2 DEF resetAccount
  <2>1. szi' = szi /\ seen' = seen
    <3>1. ASSUME NEW w \in Procs, FillStep(w)
          PROVE  szi' = szi /\ seen' = seen
      BY <1>4, <3>1 DEF FillStep, FillRead, FillNothing, ReconcileList, ReconcileRead, ReconcileEnd, FillEnd
    <3> QED
      BY <3>1, Apart
  <2>2. o \in Stops /\ order[o].status # "none" /\ o \in seen
    BY <1>1, <2>1 DEF StopsOk
  <2>3. Bad(order[o], szi)
    <3>1. CASE Around \/ Pass \/ Sweep
      <4>1. Effect(order[o], order'[o]) /\ order[o] # NoStop
        BY <1>1, <2>2, <3>1, Effects DEF NoStop
      <4> QED
        BY <1>2, <2>1, <4>1 DEF Effect, Bad
    <3>2. CASE ~(Around \/ Pass \/ Sweep)
      BY <1>2, <3>2, Others DEF Bad
    <3> QED
      BY <3>1, <3>2
  <2>4. Ok(o, lock, fill)
    BY <2>2, <2>3 DEF OrphanInv, OrphanOk
  <2>5. CASE ~ \E w \in Procs : FillStep(w)
    BY <2>4, <2>5, Apart
  <2>6. ASSUME NEW w \in Procs, FillStep(w)
        PROVE  Ok(o, lock', fill')
    <3>1. fill[w] \in Fill /\ FillOk(w, fill[w], lock, szi, order)
      BY <1>1
    <3>2. CASE FillRead(w)
      BY <2>4, <3>2, Nones DEF FillRead
    <3>3. CASE FillNothing(w)
      BY <2>4, <3>1, <3>3 DEF FillNothing, FillOk, Section
    <3>4. CASE FillEnd(w)
      BY <2>4, <3>1, <3>4 DEF FillEnd, FillOk, Section
    <3>5. CASE ReconcileList(w)
      <4>1. /\ fill[w].stage = "list" /\ lock' = lock
            /\ fill' = [fill EXCEPT ![w] = [fill[w] EXCEPT !.stage = "orphans", !.todo = trailing]]
        BY <3>5 DEF ReconcileList, Become
      <4>2. lock = w
        BY <3>1, <4>1 DEF FillOk, Section
      <4>3. fill'[w].stage = "orphans" /\ fill'[w].todo = trailing /\ fill'[w].torn = fill[w].torn
        BY <1>1, <3>1, <4>1 DEF Fill
      <4>4. o \in trailing
        BY <1>1, <2>2, <2>3 DEF StopsOk, Bad
      <4> QED
        BY <2>4, <4>1, <4>2, <4>3, <4>4
    <3>6. ASSUME NEW x \in Stops, ReconcileRead(w, x)
          PROVE  Ok(o, lock', fill')
      <4> DEFINE orphan == /\ order[x].status = "open" /\ order[x].ro
                           /\ ~canReduce(order[x].p.isBuy, fill[w].cur)
      <4>1. /\ fill[w].stage = "orphans" /\ lock' = lock
            /\ fill' = [fill EXCEPT ![w] = [fill[w] EXCEPT !.todo = @ \ {x}, !.at = x, !.held = order[x],
                                              !.stage = IF orphan THEN "end" ELSE "orphans"]]
        BY <3>6 DEF ReconcileRead, Become
      <4>2. lock = w /\ ~fill[w].torn /\ fill[w].cur = szi
        <5>1. lock = w
          BY <3>1, <4>1 DEF FillOk, Section
        <5>2. ~fill[w].torn
          BY <2>4, <5>1
        <5> QED
          BY <3>1, <4>1, <5>1, <5>2 DEF FillOk, Section
      <4>3. x = o => orphan
        BY <2>3, <4>2 DEF Bad
      <4> HIDE DEF orphan
      <4>4. /\ fill'[w].todo = fill[w].todo \ {x} /\ fill'[w].at = x /\ fill'[w].torn = fill[w].torn
            /\ fill'[w].stage = IF orphan THEN "end" ELSE "orphans"
        BY <1>1, <3>1, <4>1 DEF Fill
      <4>5. o \in fill[w].todo
        BY <2>4, <4>1, <4>2
      <4> QED
        BY <4>1, <4>2, <4>3, <4>4, <4>5
    <3>7. CASE ReconcileEnd(w)
      <4>1. /\ fill[w].stage = "end" /\ lock' = lock
            /\ fill' = [fill EXCEPT ![w] = [fill[w] EXCEPT !.stage = "orphans"]]
            /\ \E b : order' = [order EXCEPT ![fill[w].at].status = "reduceOnlyCanceled", ![fill[w].at].snap = b]
        BY <3>7 DEF ReconcileEnd, Become, terminateTrailingStop
      <4>2. lock = w
        BY <3>1, <4>1 DEF FillOk, Section
      <4>3. fill'[w].todo = fill[w].todo /\ fill'[w].stage = "orphans" /\ fill'[w].torn = fill[w].torn
        BY <1>1, <3>1, <4>1 DEF Fill
      <4>4. fill[w].at # o
        <5>1. SUFFICES ASSUME fill[w].at = o PROVE FALSE
          OBVIOUS
        <5>2. order[o] \in Stop
          BY <1>1, <2>2
        <5>3. PICK b : order' = [order EXCEPT ![o].status = "reduceOnlyCanceled", ![o].snap = b]
          BY <4>1, <5>1
        <5>4. order'[o] = WithEnd(order[o], "reduceOnlyCanceled", b)
          BY <1>1, <2>2, <5>3 DEF WithEnd
        <5>5. order'[o].status = "reduceOnlyCanceled"
          BY <5>2, <5>4 DEF WithEnd, Stop
        <5> QED
          BY <1>2, <5>5 DEF Bad
      <4> QED
        BY <2>4, <4>1, <4>2, <4>3, <4>4
    <3> QED
      BY <1>4, <2>6, <3>2, <3>3, <3>4, <3>5, <3>6, <3>7 DEF FillStep
  <2> QED
    BY <2>5, <2>6
<1> QED
  BY <1>3, <1>4

\* OrphansEnded: when the section of a fill is left, reconcileReduceOnlyStops
\* has ended every open reduce-only stop that rested through a change of the
\* position and can no longer reduce it, whatever was placed, cancelled or
\* evaluated between its commands. What a reset strands is not counted.
THEOREM NoOrphanLeft == TwapSpec => []OrphansEnded
<1>1. TwapInit => OrphanInv
  BY DEF TwapInit, Init, OrphanInv, OrphanOk
<1>2. TwInv /\ OrphanInv /\ [TwapNext]_<<vars, twapVars>> => OrphanInv'
  BY OrphanKept
<1>3. TwInv /\ OrphanInv => OrphansEnded
  BY Nones DEF OrphanInv, OrphanOk, OrphansEnded, Bad
<1> QED
  BY Invariance, <1>1, <1>2, <1>3, PTL DEF TwapSpec

-----------------------------------------------------------------------------
(* The history.                                                            *)

LEMMA RowsAdded ==
  ASSUME NEW r \in Seq(RowType), NEW a \in RowType, NEW b \in RowType
  PROVE  /\ Append(r, a) \in Seq(RowType) /\ (r \o <<>>) \o <<a>> \in Seq(RowType)
         /\ (r \o <<b>>) \o <<a>> \in Seq(RowType) /\ r \o <<b, a>> \in Seq(RowType)
  OBVIOUS

LEMMA AppendFacts ==
  ASSUME NEW r \in Seq(RowType), NEW a \in RowType
  PROVE  /\ Append(r, a) \in Seq(RowType) /\ r \o <<a>> = Append(r, a) /\ r \o <<>> = r
         /\ Len(r) \in Nat /\ Len(Append(r, a)) = Len(r) + 1
         /\ \A i \in 1 .. Len(r) : Append(r, a)[i] = r[i]
         /\ \A i \in {Len(r) + 1} : Append(r, a)[i] = a
<1>1. Append(r, a) \in Seq(RowType) /\ r \o <<>> = r /\ Len(r) \in Nat
  OBVIOUS
<1>2. r \o <<a>> = Append(r, a)
  BY AppendIsConcat
<1>3. Len(Append(r, a)) = Len(r) + 1
  BY AppendProperties
<1>4. \A i \in 1 .. Len(r) : Append(r, a)[i] = r[i]
  BY AppendProperties
<1>5. Append(r, a)[Len(r) + 1] = a
  BY AppendProperties
<1> QED
  BY <1>1, <1>2, <1>3, <1>4, <1>5

LEMMA SecondRow ==
  ASSUME NEW r \in Seq(RowType), NEW a \in RowType, NEW q, q = Append(r, a) \/ q = (r \o <<>>) \o <<a>>,
         Len(r) = 1
  PROVE  Len(q) = 2 /\ q[1] = r[1] /\ q[2] = a
<1>1. q = Append(r, a)
  BY AppendFacts
<1>2. 1 \in 1 .. Len(r) /\ 2 \in {Len(r) + 1}
  OBVIOUS
<1>3. q[1] = r[1] /\ q[2] = a
  BY <1>1, <1>2, AppendFacts, Zenon
<1>4. Len(q) = Len(r) + 1
  BY <1>1, AppendFacts
<1> QED
  BY <1>3, <1>4

LEMMA ThirdRow ==
  ASSUME NEW r \in Seq(RowType), NEW a \in RowType, NEW b \in RowType,
         NEW q, q = (r \o <<b>>) \o <<a>> \/ q = r \o <<b, a>>, Len(r) = 1
  PROVE  Len(q) = 3 /\ q[1] = r[1] /\ q[2] = b /\ q[3] = a
<1>1. CASE q = (r \o <<b>>) \o <<a>>
  <2> DEFINE t == Append(r, b)
  <2>1. t \in Seq(RowType) /\ r \o <<b>> = t
    BY AppendFacts
  <2>2. Len(t) = 2 /\ t[1] = r[1] /\ t[2] = b
    BY SecondRow
  <2> HIDE DEF t
  <2>3. q = Append(t, a)
    BY <1>1, <2>1, AppendFacts
  <2>4. 1 \in 1 .. Len(t) /\ 2 \in 1 .. Len(t) /\ 3 \in {Len(t) + 1}
    BY <2>2
  <2>5. q[1] = t[1] /\ q[2] = t[2] /\ q[3] = a
    BY <2>1, <2>3, <2>4, AppendFacts, Zenon
  <2>6. Len(q) = Len(t) + 1
    BY <2>1, <2>3, AppendFacts
  <2> QED
    BY <2>2, <2>5, <2>6
<1>2. CASE q = r \o <<b, a>>
  <2> DEFINE t == <<b, a>>
  <2>1. t \in Seq(RowType) /\ Len(t) = 2 /\ t[1] = b /\ t[2] = a /\ q = r \o t
    BY <1>2
  <2> HIDE DEF t
  <2>2. 1 \in 1 .. Len(r) + Len(t) /\ 2 \in 1 .. Len(r) + Len(t) /\ 3 \in 1 .. Len(r) + Len(t)
    BY <2>1
  <2>3. /\ (r \o t)[1] = IF 1 <= Len(r) THEN r[1] ELSE t[1 - Len(r)]
        /\ (r \o t)[2] = IF 2 <= Len(r) THEN r[2] ELSE t[2 - Len(r)]
        /\ (r \o t)[3] = IF 3 <= Len(r) THEN r[3] ELSE t[3 - Len(r)]
    BY <2>1, <2>2, ConcatProperties, Zenon
  <2>4. Len(r \o t) = Len(r) + Len(t)
    BY <2>1, ConcatProperties
  <2> QED
    BY <2>1, <2>3, <2>4
<1> QED
  BY <1>1, <1>2

LEMMA ThirdAppended ==
  ASSUME NEW r \in Seq(RowType), NEW a \in RowType, NEW b \in RowType, Len(r) = 1
  PROVE  LET q == Append(Append(r, b), a)
         IN  Len(q) = 3 /\ q[1] = r[1] /\ q[2] = b /\ q[3] = a
<1> DEFINE t == Append(r, b)
           q == Append(t, a)
<1>1. t \in Seq(RowType)
  BY AppendFacts
<1>2. Len(t) = 2 /\ t[1] = r[1] /\ t[2] = b
  BY SecondRow
<1> HIDE DEF t
<1>3. 1 \in 1 .. Len(t) /\ 2 \in 1 .. Len(t) /\ 3 \in {Len(t) + 1}
  BY <1>2
<1>4. q[1] = t[1] /\ q[2] = t[2] /\ q[3] = a
  <2>1. (\A i \in 1 .. Len(t) : q[i] = t[i]) /\ \A i \in {Len(t) + 1} : q[i] = a
    BY <1>1, AppendFacts
  <2> HIDE DEF q
  <2> QED
    BY <1>3, <2>1
<1>5. Len(q) = Len(t) + 1
  BY <1>1, AppendFacts
<1>6. Len(q) = 3 /\ q[1] = r[1] /\ q[2] = b /\ q[3] = a
  BY <1>2, <1>4, <1>5
<1> QED
  BY <1>6 DEF t

LEMMA SameStory ==
  ASSUME NEW x \in Stops, NEW d, NEW r, NEW sil, NEW snapped,
         Firing(fill', x) <=> Firing(fill, x), Telling(schedule', x) <=> Telling(schedule, x),
         Story(d, r, Firing(fill, x), Telling(schedule, x), sil, snapped)
  PROVE  Story(d, r, Firing(fill', x), Telling(schedule', x), sil, snapped)
<1>1. CASE sil
  BY <1>1 DEF Story, Closed
<1>2. CASE ~sil
  BY <1>2 DEF Story, Life
<1> QED
  BY <1>1, <1>2

LEMMA Quiet ==
  ASSUME HistInv, UNCHANGED <<order, rows, raced>>, Unfilled(matcher', order),
         \A x \in Stops : Firing(fill', x) <=> Firing(fill, x),
         \A x \in Stops : Telling(schedule', x) <=> Telling(schedule, x),
         UNCHANGED <<silent, unsnapped>>
  PROVE  HistInv'
<1>1. ASSUME NEW x \in Stops \ raced
      PROVE  Story(order[x], rows[x], Firing(fill', x), Telling(schedule', x), x \in silent, x \notin unsnapped)
  <2>1. Story(order[x], rows[x], Firing(fill, x), Telling(schedule, x), x \in silent, x \notin unsnapped)
    BY DEF HistInv
  <2> QED
    BY <2>1, SameStory
<1> QED
  BY <1>1 DEF HistInv

\* An open stop has one row, which nobody is about to add to.
LEMMA OpenStory ==
  ASSUME NEW d, NEW r, NEW firing, NEW telling, NEW sil, NEW snapped,
         Story(d, r, firing, telling, sil, snapped), d.status = "open"
  PROVE  ~sil /\ ~firing /\ ~telling /\ Len(r) = 1 /\ r # <<>> /\ r[1].status = "open"
<1>1. ~sil
  BY DEF Story, Closed
<1> QED
  BY <1>1 DEF Story, Life

\* The rows of every stop read as a life, or as the start of one.
LEMMA Shapely ==
  ASSUME NEW d, NEW r, NEW firing, NEW telling, NEW sil, NEW snapped,
         Story(d, r, firing, telling, sil, snapped), d.status \in StopStatus
  PROVE  Shape(r) /\ ~(firing /\ telling) /\ (firing \/ telling => Len(r) = 1 /\ r[1].status = "open")
<1>1. CASE sil
  BY <1>1 DEF Story, Closed
<1>2. CASE ~sil
  <2>1. Life(d, r, firing, telling, snapped)
    BY <1>2 DEF Story
  <2>2. ~(firing /\ telling) /\ (firing \/ telling => Len(r) = 1 /\ r[1].status = "open")
    BY <2>1 DEF Life
  <2>3. Shape(r)
    BY <2>1, <2>2 DEF Life, Shape, StopStatus
  <2> QED
    BY <2>2, <2>3
<1> QED
  BY <1>1, <1>2

\* A writer ends a stop: when it was open, the history it adds is its end.
LEMMA EndRows ==
  ASSUME TrInv, HistInv, NEW o \in Stops, order[o].status # "none",
         NEW s \in {"cancelled", "reduceOnlyCanceled", "marginCanceled"}, NEW b \in Body,
         NEW r \in Seq(RowType),
         Len(rows[o]) = 1 => /\ r # <<>> /\ r[1] = rows[o][1]
                             /\ IF s = "marginCanceled"
                                THEN /\ Len(r) = 3 /\ r[2].status = "triggered"
                                     /\ r[3].status = "marginCanceled" /\ r[3].body = b
                                ELSE Len(r) = 2 /\ r[2].status = Told[s] /\ r[2].body = b,
         order' = [order EXCEPT ![o].status = s, ![o].snap = b],
         rows' = [rows EXCEPT ![o] = r], Race(o), Unfilled(matcher', order),
         \A x \in Stops : Firing(fill', x) <=> Firing(fill, x), UNCHANGED <<schedule, silent, unsnapped>>
  PROVE  HistInv'
<1>1. order \in [Stops -> Stop] /\ order[o] \in Stop /\ s \in StopStatus /\ s # "filled"
  BY DEF TrInv, Types, StopStatus
<1>2. order'[o] = WithEnd(order[o], s, b) /\ \A x \in Stops \ {o} : order'[x] = order[x]
  BY <1>1 DEF WithEnd
<1>3. order'[o].status = s /\ order'[o].snap = b
  BY <1>1, <1>2, EndedType
<1>4. rows \in [Stops -> Seq(RowType)] /\ raced \subseteq Stops
  BY DEF HistInv
<1>5. rows' \in [Stops -> Seq(RowType)] /\ rows'[o] = r /\ \A x \in Stops \ {o} : rows'[x] = rows[x]
  BY <1>4
<1>6. raced' \subseteq Stops /\ raced \subseteq raced' /\ (o \notin raced' => order[o].status = "open" /\ o \notin raced)
  BY <1>4 DEF Race
<1>7. ASSUME NEW x \in Stops \ raced'
      PROVE  Story(order'[x], rows'[x], Firing(fill', x), Telling(schedule, x), x \in silent, x \notin unsnapped)
  <2>1. /\ x \in Stops \ raced /\ (Firing(fill', x) <=> Firing(fill, x))
        /\ Story(order[x], rows[x], Firing(fill, x), Telling(schedule, x), x \in silent, x \notin unsnapped)
    BY <1>6 DEF HistInv
  <2>2. CASE x # o
    <3>1. order'[x] = order[x] /\ rows'[x] = rows[x]
      BY <1>2, <1>5, <2>2
    <3> QED
      BY <2>1, <3>1, SameStory
  <2>3. CASE x = o
    <3>1. order[o].status = "open"
      BY <1>6, <2>3
    <3>2. /\ ~Firing(fill', o) /\ Len(rows[o]) = 1 /\ rows[o][1].status = "open"
          /\ o \notin silent /\ ~Telling(schedule, o)
      BY <2>1, <2>3, <3>1, OpenStory
    <3>3. r # <<>> /\ r[1].status = "open" /\ rows'[x] = r
      BY <1>5, <2>3, <3>2
    <3>4. CASE s = "marginCanceled"
      BY <1>3, <2>3, <3>2, <3>3, <3>4 DEF Story, Life
    <3>5. CASE s \in {"cancelled", "reduceOnlyCanceled"}
      <4>1. Len(r) = 2 /\ r[2].status = Told[s] /\ r[2].body = b
        BY <3>2, <3>5
      <4>2. Told["cancelled"] = "canceled" /\ Told["reduceOnlyCanceled"] = "reduceOnlyCanceled"
        BY DEF Told
      <4> QED
        BY <1>3, <2>3, <3>2, <3>3, <3>5, <4>1, <4>2 DEF Story, Life
    <3> QED
      BY <3>4, <3>5
  <2> QED
    BY <2>2, <2>3
<1>8. Unfilled(matcher', order')
  <2>1. \A x \in Stops : order'[x].status = "filled" => order[x].status = "filled"
    BY <1>1, <1>2, <1>3
  <2> QED
    BY <2>1 DEF Unfilled
<1> QED
  BY <1>5, <1>6, <1>7, <1>8 DEF HistInv

\* What a step outside the matcher's own fill leaves of it.
LEMMA FiringSame ==
  ASSUME fill'["matcher"] = fill["matcher"]
  PROVE  \A x \in Stops : Firing(fill', x) <=> Firing(fill, x)
  BY DEF Firing

LEMMA HistClient ==
  ASSUME TrInv, HistInv, UNCHANGED <<schedule, silent, unsnapped>>,
         (\E p \in Prices : MarkFrame(p)) \/ MarkAges \/ ClientStep \/ (\E t \in Trades : Trade(t))
  PROVE  HistInv'
<1>1. /\ order \in [Stops -> Stop] /\ client \in Client /\ ClientOk(client, order) /\ fill \in [Procs -> Fill]
      /\ "matcher" \in Procs /\ "trader" \in Procs /\ Unfilled(matcher, order)
      /\ rows \in [Stops -> Seq(RowType)]
  BY DEF TrInv, Types, Procs, HistInv
<1>2. matcher' = matcher /\ fill'["matcher"] = fill["matcher"]
  <2>1. ASSUME NEW t \in Trades, Trade(t)
        PROVE  matcher' = matcher /\ fill'["matcher"] = fill["matcher"]
    BY <1>1, <2>1 DEF Trade, Become
  <2> QED
    BY <2>1 DEF MarkFrame, MarkAges, ClientStep, PlaceReadPx, PlaceReadStamp, PlaceRefresh,
                placeTrailingStop, CancelRead, CancelWrite, fillVars
<1>3. \A x \in Stops : Firing(fill', x) <=> Firing(fill, x)
  BY <1>2, FiringSame
<1>4. CASE CancelWrite
  <2> DEFINE o == client.oid
             b == buildTrailingBody(client.data, FALSE)
             row == [status |-> "canceled", body |-> b]
             r == Append(rows[o], row)
  <2>1. /\ client.stage = "cancel" /\ Race(o) /\ rows' = [rows EXCEPT ![o] = r]
        /\ order' = [order EXCEPT ![o].status = "cancelled", ![o].snap = b]
    BY <1>4 DEF CancelWrite, emitTrailingHistory
  <2>2. o \in Stops /\ order[o].status # "none" /\ client.data \in Stop
    BY <1>1, <2>1 DEF ClientOk, Client
  <2>3. b \in Body
    BY <2>2, BodyType
  <2> HIDE DEF o, b
  <2>4. row \in RowType /\ row.status = "canceled" /\ row.body = b
    BY <2>3 DEF RowType
  <2> HIDE DEF row
  <2>5. rows[o] \in Seq(RowType)
    BY <1>1, <2>2
  <2>6. r \in Seq(RowType)
    BY <2>4, <2>5
  <2>7. Len(rows[o]) = 1 => Len(r) = 2 /\ r[1] = rows[o][1] /\ r[2] = row
    BY <2>4, <2>5, SecondRow
  <2>8. r # <<>>
    BY <2>4, <2>5, AppendProperties
  <2> HIDE DEF r
  <2>9. Told["cancelled"] = "canceled"
    BY DEF Told
  <2> QED
    BY <1>1, <1>2, <1>3, <2>1, <2>2, <2>3, <2>4, <2>6, <2>7, <2>8, <2>9, EndRows
<1>5. ASSUME NEW o \in Stops, placeTrailingStop(o)
      PROVE  HistInv'
  <2>1. PICK e \in Stop, b \in Body :
           /\ e.status = "open" /\ StopOk(e) /\ order[o] = NoStop /\ client' = NoRequest
           /\ UNCHANGED <<fillVars, markVars, matcher, raced>>
           /\ \/ /\ order' = [order EXCEPT ![o] = e] /\ trailing' = trailing \cup {o}
                 /\ rows' = [rows EXCEPT ![o] = Append(@, [status |-> "open", body |-> b])]
              \/ UNCHANGED <<order, trailing, rows>>
    BY <1>5, Placed
  <2>2. CASE UNCHANGED <<order, rows>>
    BY <1>1, <1>2, <1>3, <2>1, <2>2, Quiet
  <2>3. CASE /\ order' = [order EXCEPT ![o] = e]
             /\ rows' = [rows EXCEPT ![o] = Append(@, [status |-> "open", body |-> b])]
    <3> DEFINE row == [status |-> "open", body |-> b]
    <3>1. row \in RowType /\ row.status = "open"
      BY DEF RowType
    <3> HIDE DEF row
    <3>2. rows[o] \in Seq(RowType) /\ order[o].status = "none"
      BY <1>1, <2>1 DEF NoStop
    <3>3. Append(rows[o], row) \in Seq(RowType)
      BY <3>1, <3>2
    <3>4. /\ rows' \in [Stops -> Seq(RowType)] /\ rows'[o] = Append(rows[o], row)
          /\ \A x \in Stops \ {o} : rows'[x] = rows[x] /\ order'[x] = order[x]
          /\ order'[o] = e
      BY <1>1, <2>3, <3>3 DEF row
    <3>5. ASSUME NEW x \in Stops \ raced'
          PROVE  Story(order'[x], rows'[x], Firing(fill', x), Telling(schedule, x), x \in silent, x \notin unsnapped)
      <4>1. /\ Story(order[x], rows[x], Firing(fill, x), Telling(schedule, x), x \in silent, x \notin unsnapped)
            /\ Firing(fill', x) <=> Firing(fill, x)
        BY <1>3, <2>1, <3>5 DEF HistInv
      <4>2. CASE x # o
        <5>1. order'[x] = order[x] /\ rows'[x] = rows[x]
          BY <3>4, <4>2
        <5> QED
          BY <4>1, <5>1, SameStory
      <4>3. CASE x = o
        <5> DEFINE d == order[o]
                   q == rows[o]
        <5>4. d.status = "none" /\ Story(d, q, Firing(fill, o), Telling(schedule, o), o \in silent, o \notin unsnapped)
          BY <3>2, <4>1, <4>3
        <5> HIDE DEF d, q
        <5>5. o \notin silent
          BY <5>4 DEF Story, Closed
        <5>6. q = <<>> /\ ~Firing(fill, o) /\ ~Telling(schedule, o)
          BY <5>4, <5>5 DEF Story, Life
        <5>1. rows[o] = <<>> /\ ~Firing(fill', o)
          BY <4>1, <4>3, <5>6 DEF q
        <5>2. rows'[o] = <<row>>
          BY <3>1, <3>4, <5>1
        <5>3. Len(<<row>>) = 1 /\ <<row>>[1] = row /\ <<row>> # <<>>
          OBVIOUS
        <5> QED
          BY <2>1, <3>1, <3>4, <4>3, <5>1, <5>2, <5>3, <5>5, <5>6 DEF Story, Life
      <4> QED
        BY <4>2, <4>3
    <3>6. Unfilled(matcher', order')
      BY <1>1, <1>2, <2>1, <3>4 DEF Unfilled
    <3> QED
      BY <2>1, <3>4, <3>5, <3>6 DEF HistInv
  <2> QED
    BY <2>1, <2>2, <2>3
<1>6. CASE ~CancelWrite /\ ~ \E o \in Stops : placeTrailingStop(o)
  <2>1. UNCHANGED <<order, rows, raced>>
    BY <1>6 DEF MarkFrame, MarkAges, ClientStep, PlaceReadPx, PlaceReadStamp, PlaceRefresh,
                CancelRead, Trade, orderVars
  <2> QED
    BY <1>1, <1>2, <1>3, <2>1, Quiet
<1> QED
  BY <1>4, <1>5, <1>6

Late == {"list", "orphans", "end"}

LEMMA FillQuiet ==
  ASSUME fill \in [Procs -> Fill], NEW w \in Procs, NEW g, fill' = [fill EXCEPT ![w] = g],
         \/ fill[w].stage \in Late /\ g.stage \in Late /\ g.oid = fill[w].oid
         \/ fill[w].stage \notin Late /\ g.stage \notin Late
         \/ fill[w].oid \notin Stops /\ g.oid \notin Stops
  PROVE  \A x \in Stops : Firing(fill', x) <=> Firing(fill, x)
<1>1. CASE w = "matcher"
  <2>1. fill'["matcher"] = g
    BY <1>1
  <2> QED
    BY <1>1, <2>1 DEF Firing, Late
<1>2. CASE w # "matcher"
  <2>1. fill'["matcher"] = fill["matcher"]
    BY <1>2 DEF Procs
  <2> QED
    BY <2>1, FiringSame
<1> QED
  BY <1>1, <1>2

LEMMA HistFill ==
  ASSUME TrInv, HistInv, NEW w \in Procs, FillStep(w), UNCHANGED <<schedule, silent, unsnapped>>
  PROVE  HistInv'
<1> DEFINE f == fill[w]
<1>1. /\ order \in [Stops -> Stop] /\ fill \in [Procs -> Fill] /\ f \in Fill
      /\ FillOk(w, f, lock, szi, order) /\ Unfilled(matcher, order)
      /\ rows \in [Stops -> Seq(RowType)] /\ MatchOk(matcher, order, fill) /\ raced \subseteq Stops
  BY DEF TrInv, Types, Procs, HistInv
<1>2. matcher' = matcher
  BY DEF FillStep, FillRead, FillNothing, FillWrite, ReconcileList, ReconcileRead, ReconcileEnd, FillEnd
<1>3. CASE FillRead(w) \/ FillNothing(w) \/ ReconcileList(w) \/ (\E o \in Stops : ReconcileRead(w, o))
  <2>1. UNCHANGED <<order, rows, raced>>
    BY <1>3 DEF FillRead, FillNothing, ReconcileList, ReconcileRead, orderVars
  <2>2. \E g : /\ fill' = [fill EXCEPT ![w] = g]
               /\ \/ f.stage \in Late /\ g.stage \in Late /\ g.oid = f.oid
                  \/ f.stage \notin Late /\ g.stage \notin Late
    <3>1. CASE FillRead(w)
      <4> DEFINE g == [f EXCEPT !.stage = "write", !.cur = szi, !.torn = FALSE]
      <4>1. fill' = [fill EXCEPT ![w] = g] /\ f.stage = "wait"
        BY <3>1 DEF FillRead, Become
      <4>2. g.stage \notin Late
        BY <1>1 DEF Fill, Late
      <4> QED
        BY <4>1, <4>2 DEF Late
    <3>2. CASE FillNothing(w)
      <4>1. fill' = [fill EXCEPT ![w] = NoFill] /\ f.stage = "write"
        BY <3>2 DEF FillNothing, Become
      <4>2. NoFill.stage \notin Late
        BY DEF NoFill, Late
      <4> QED
        BY <4>1, <4>2 DEF Late
    <3>3. CASE ReconcileList(w)
      <4> DEFINE g == [f EXCEPT !.stage = "orphans", !.todo = trailing]
      <4>1. fill' = [fill EXCEPT ![w] = g] /\ f.stage = "list"
        BY <3>3 DEF ReconcileList, Become
      <4>2. g.stage \in Late /\ g.oid = f.oid
        BY <1>1 DEF Fill, Late
      <4> QED
        BY <4>1, <4>2 DEF Late
    <3>4. ASSUME NEW o \in Stops, ReconcileRead(w, o)
          PROVE  \E g : /\ fill' = [fill EXCEPT ![w] = g]
                        /\ f.stage \in Late /\ g.stage \in Late /\ g.oid = f.oid
      <4> DEFINE g == [f EXCEPT !.todo = @ \ {o}, !.at = o, !.held = order[o],
                                !.stage = IF order[o].status = "open" /\ order[o].ro
                                               /\ ~canReduce(order[o].p.isBuy, f.cur)
                                          THEN "end" ELSE "orphans"]
      <4>1. fill' = [fill EXCEPT ![w] = g] /\ f.stage = "orphans"
        BY <3>4 DEF ReconcileRead, Become
      <4>2. g.stage \in Late /\ g.oid = f.oid
        BY <1>1 DEF Fill, Late
      <4> QED
        BY <4>1, <4>2 DEF Late
    <3> QED
      BY <1>3, <3>1, <3>2, <3>3, <3>4
  <2>3. \A x \in Stops : Firing(fill', x) <=> Firing(fill, x)
    BY <1>1, <2>2, FillQuiet
  <2> QED
    BY <1>1, <1>2, <2>1, <2>3, Quiet
<1>4. CASE ReconcileEnd(w)
  <2> DEFINE o == f.at
             b == buildTrailingBody(f.held, FALSE)
             row == [status |-> "reduceOnlyCanceled", body |-> b]
             r == (rows[o] \o <<>>) \o <<row>>
             g == [f EXCEPT !.stage = "orphans"]
  <2>1. /\ f.stage = "end" /\ Race(o) /\ rows' = [rows EXCEPT ![o] = r] /\ fill' = [fill EXCEPT ![w] = g]
        /\ order' = [order EXCEPT ![o].status = "reduceOnlyCanceled", ![o].snap = b]
    BY <1>4 DEF ReconcileEnd, terminateTrailingStop, Become
  <2>2. o \in Stops /\ order[o].status # "none" /\ f.held \in Stop
    BY <1>1, <2>1 DEF FillOk, Fill
  <2>3. b \in Body
    BY <2>2, BodyType
  <2>4. g.stage = "orphans" /\ g.oid = f.oid
    BY <1>1 DEF Fill
  <2>5. \A x \in Stops : Firing(fill', x) <=> Firing(fill, x)
    BY <1>1, <2>1, <2>4, FillQuiet DEF Late
  <2> HIDE DEF o, b, g, f
  <2>6. row \in RowType /\ row.status = "reduceOnlyCanceled" /\ row.body = b
    BY <2>3 DEF RowType
  <2> HIDE DEF row
  <2>7. rows[o] \in Seq(RowType)
    BY <1>1, <2>2
  <2>8. r \in Seq(RowType) /\ r # <<>>
    BY <2>6, <2>7, AppendFacts, AppendProperties
  <2>9. Len(rows[o]) = 1 => Len(r) = 2 /\ r[1] = rows[o][1] /\ r[2] = row
    BY <2>6, <2>7, SecondRow
  <2> HIDE DEF r
  <2>10. Told["reduceOnlyCanceled"] = "reduceOnlyCanceled"
    BY DEF Told
  <2> QED
    BY <1>1, <1>2, <2>1, <2>2, <2>3, <2>5, <2>6, <2>8, <2>9, <2>10, EndRows
<1>5. CASE FillWrite(w)
  <2>1. PICK n : /\ f.stage = "write"
                 /\ fill' = [fill EXCEPT ![w] = [f EXCEPT !.stage = "list", !.cur = n, !.torn = FALSE]]
    BY <1>5 DEF FillWrite, Become
  <2> DEFINE g == [f EXCEPT !.stage = "list", !.cur = n, !.torn = FALSE]
  <2>2. g.stage = "list" /\ g.oid = f.oid
    BY <1>1 DEF Fill
  <2> HIDE DEF g
  <2>3. fill' = [fill EXCEPT ![w] = g]
    BY <2>1 DEF g
  <2>4. CASE f.oid \notin Stops
    <3>1. UNCHANGED <<order, rows, raced>>
      BY <1>5, <2>4 DEF FillWrite
    <3>2. \A x \in Stops : Firing(fill', x) <=> Firing(fill, x)
      BY <1>1, <2>2, <2>3, <2>4, FillQuiet
    <3> QED
      BY <1>1, <1>2, <3>1, <3>2, Quiet
  <2>5. CASE f.oid \in Stops
    <3> DEFINE o == f.oid
    <3>1. /\ w = "matcher" /\ UNCHANGED rows /\ Race(o)
          /\ order' = [order EXCEPT ![o].status = "filled", ![o].filled = f.sz]
      BY <1>1, <1>5, <2>5, Nones DEF FillWrite, FillOk, Procs
    <3>2. /\ fill'["matcher"] = g /\ matcher.stage \in {"idle", "next"}
      BY <1>1, <2>1, <2>3, <3>1 DEF MatchOk, NoFill
    <3>3. \A x \in Stops : ~Firing(fill, x) /\ (Firing(fill', x) <=> x = o)
      BY <2>1, <2>2, <3>1, <3>2 DEF Firing
    <3>4. f.sz \in Nat /\ order[o] \in Stop
      BY <1>1, <2>5 DEF Fill
    <3>5. order'[o] = WithFill(order[o], f.sz) /\ \A x \in Stops \ {o} : order'[x] = order[x]
      BY <1>1, <2>5, <3>1 DEF WithFill
    <3>6. order'[o].status = "filled"
      BY <3>4, <3>5, FilledType
    <3>7. raced' \subseteq Stops /\ raced \subseteq raced' /\ (o \notin raced' => order[o].status = "open" /\ o \notin raced)
      BY <1>1, <2>5, <3>1 DEF Race
    <3> HIDE DEF o
    <3>8. ASSUME NEW x \in Stops \ raced'
          PROVE  Story(order'[x], rows[x], Firing(fill', x), Telling(schedule, x), x \in silent, x \notin unsnapped)
      <4>1. Story(order[x], rows[x], Firing(fill, x), Telling(schedule, x), x \in silent, x \notin unsnapped)
        BY <3>7 DEF HistInv
      <4>2. CASE x # o
        <5>1. order'[x] = order[x] /\ (Firing(fill', x) <=> Firing(fill, x))
          BY <3>3, <3>5, <4>2
        <5> QED
          BY <4>1, <5>1, SameStory
      <4>3. CASE x = o
        <5>1. order[x].status = "open" /\ Firing(fill', x)
          BY <3>3, <3>7, <4>3
        <5>2. /\ rows[x] # <<>> /\ rows[x][1].status = "open" /\ Len(rows[x]) = 1
              /\ x \notin silent /\ ~Telling(schedule, x)
          BY <4>1, <5>1, OpenStory
        <5> QED
          BY <3>6, <4>3, <5>1, <5>2 DEF Story, Life
      <4> QED
        BY <4>2, <4>3
    <3>9. Unfilled(matcher', order')
      BY <1>2, <3>2 DEF Unfilled
    <3> QED
      BY <1>1, <3>1, <3>7, <3>8, <3>9 DEF HistInv
  <2> QED
    BY <2>4, <2>5
<1>6. CASE FillEnd(w)
  <2>1. fill' = [fill EXCEPT ![w] = NoFill] /\ f.stage = "orphans" /\ UNCHANGED <<order, raced>>
    BY <1>6 DEF FillEnd, Become
  <2>2. CASE f.oid \notin Stops
    <3>1. UNCHANGED rows
      BY <1>6, <2>2 DEF FillEnd
    <3>2. NoFill.oid \notin Stops
      BY Nones DEF NoFill
    <3>3. \A x \in Stops : Firing(fill', x) <=> Firing(fill, x)
      BY <1>1, <2>1, <2>2, <3>2, FillQuiet
    <3> QED
      BY <1>1, <1>2, <2>1, <3>1, <3>3, Quiet
  <2>3. CASE f.oid \in Stops
    <3> DEFINE o == f.oid
               t == [status |-> "triggered", body |-> order[o].snap]
               d == [status |-> "filled", body |-> buildTrailingBody(order[o], TRUE)]
    <3>1. w = "matcher" /\ rows' = [rows EXCEPT ![o] = @ \o <<t, d>>]
      BY <1>1, <1>6, <2>3, Nones DEF FillEnd, FillOk, Procs
    <3>2. fill'["matcher"] = NoFill
      BY <1>1, <2>1, <3>1
    <3>3. \A x \in Stops : ~Firing(fill', x) /\ (Firing(fill, x) <=> x = o)
      BY <2>1, <3>1, <3>2 DEF Firing, NoFill
    <3>4. order[o] \in Stop /\ rows[o] \in Seq(RowType)
      BY <1>1, <2>3
    <3>5. order[o].snap \in Body /\ buildTrailingBody(order[o], TRUE) \in Body
      BY <3>4, BodyType DEF Stop
    <3>6. /\ t \in RowType /\ d \in RowType /\ t.status = "triggered" /\ d.status = "filled"
          /\ d.body = buildTrailingBody(order[o], TRUE)
      BY <3>5 DEF RowType
    <3> HIDE DEF t, d
    <3>7. rows[o] \o <<t, d>> \in Seq(RowType)
      BY <3>4, <3>6
    <3>8. /\ rows' \in [Stops -> Seq(RowType)] /\ rows'[o] = rows[o] \o <<t, d>>
          /\ \A x \in Stops \ {o} : rows'[x] = rows[x]
      BY <1>1, <2>3, <3>1, <3>7
    <3> HIDE DEF o
    <3>9. ASSUME NEW x \in Stops \ raced'
          PROVE  Story(order[x], rows'[x], Firing(fill', x), Telling(schedule, x), x \in silent, x \notin unsnapped)
      <4>1. Story(order[x], rows[x], Firing(fill, x), Telling(schedule, x), x \in silent, x \notin unsnapped)
        BY <2>1 DEF HistInv
      <4>2. CASE x # o
        <5>1. rows'[x] = rows[x] /\ (Firing(fill', x) <=> Firing(fill, x))
          BY <3>3, <3>8, <4>2
        <5> QED
          BY <4>1, <5>1, SameStory
      <4>3. CASE x = o
        <5>4. Firing(fill, x)
          BY <3>3, <4>3
        <5>1. /\ Len(rows[o]) = 1 /\ rows[o][1].status = "open" /\ ~Telling(schedule, o)
              /\ order[o].status = IF o \in silent THEN "cancelled" ELSE "filled"
          BY <4>1, <4>3, <5>4 DEF Story, Life, Closed
        <5>2. Len(rows'[o]) = 3 /\ rows'[o][1] = rows[o][1] /\ rows'[o][2] = t /\ rows'[o][3] = d
          BY <3>4, <3>6, <3>8, <5>1, ThirdRow
        <5>3. rows'[o] # <<>>
          BY <5>2, EmptySeq
        <5>5. CASE o \in silent
          BY <3>3, <3>6, <4>3, <5>1, <5>2, <5>5 DEF Story, Closed, Shape
        <5>6. CASE o \notin silent
          BY <3>3, <3>6, <4>3, <5>1, <5>2, <5>3, <5>6 DEF Story, Life
        <5> QED
          BY <5>5, <5>6
      <4> QED
        BY <4>2, <4>3
    <3> QED
      BY <1>1, <1>2, <2>1, <3>8, <3>9 DEF HistInv
  <2> QED
    BY <2>2, <2>3
<1> QED
  BY <1>3, <1>4, <1>5, <1>6 DEF FillStep

\* The matcher's own steps.
LEMMA HistPass ==
  ASSUME TrInv, HistInv, Pass, UNCHANGED <<schedule, silent, unsnapped>>
  PROVE  HistInv'
<1> DEFINE o == matcher.oid
<1>1. /\ order \in [Stops -> Stop] /\ fill \in [Procs -> Fill] /\ matcher \in Match
      /\ Unfilled(matcher, order) /\ rows \in [Stops -> Seq(RowType)]
      /\ MatchOk(matcher, order, fill) /\ raced \subseteq Stops /\ "matcher" \in Procs
  BY DEF TrInv, Types, Procs, HistInv
<1>2. UNCHANGED fill => \A x \in Stops : Firing(fill', x) <=> Firing(fill, x)
  BY FiringSame
<1>3. Skip => Unfilled(matcher', order)
  BY <1>1, Skipped DEF Unfilled
<1>4. CASE StartPass \/ EndPass \/ (\E x \in Stops : MatchRead(x)) \/ MatchReadPx \/ FireCheck \/ FireMargin
  <2>1. UNCHANGED <<order, rows, raced>>
    BY <1>4 DEF StartPass, EndPass, MatchRead, MatchReadPx, FireCheck, FireMargin, orderVars
  <2>2. Unfilled(matcher', order)
    <3>1. CASE StartPass \/ EndPass
      <4>1. CASE EndPass
        BY <4>1 DEF EndPass, NoPass, Unfilled
      <4>2. CASE StartPass
        BY <4>2 DEF StartPass, NoPass, Unfilled
      <4> QED
        BY <3>1, <4>1, <4>2
    <3>2. ASSUME NEW x \in Stops, MatchRead(x)
          PROVE  Unfilled(matcher', order)
      BY <1>1, <3>2 DEF MatchRead, Unfilled, Match
    <3>3. CASE MatchReadPx
      BY <1>1, <3>3 DEF MatchReadPx, Unfilled, Match
    <3>4. CASE FireCheck
      BY <1>1, <1>3, <3>4 DEF FireCheck, Unfilled, Match
    <3>5. CASE FireMargin
      BY <1>1, <1>3, <3>5 DEF FireMargin, Unfilled, Match
    <3> QED
      BY <1>4, <3>1, <3>2, <3>3, <3>4, <3>5
  <2>3. \A x \in Stops : Firing(fill', x) <=> Firing(fill, x)
    <3>1. CASE FireMargin
      <4>1. matcher.stage = "margin" /\ fill["matcher"] = NoFill
        BY <1>1, <3>1 DEF FireMargin, MatchOk
      <4>2. ASSUME NEW n, Become("matcher", [NoFill EXCEPT !.stage = "wait", !.oid = o, !.ro = matcher.data.ro,
                                                           !.buy = matcher.data.p.isBuy, !.sz = n])
            PROVE  \A x \in Stops : Firing(fill', x) <=> Firing(fill, x)
        <5>1. fill'["matcher"].stage = "wait"
          BY <1>1, <4>2 DEF Become, NoFill
        <5> QED
          BY <4>1, <5>1 DEF Firing, NoFill
      <4>3. UNCHANGED fill \/ \E n : Become("matcher", [NoFill EXCEPT !.stage = "wait", !.oid = o,
                                        !.ro = matcher.data.ro, !.buy = matcher.data.p.isBuy, !.sz = n])
        BY <3>1 DEF FireMargin
      <4> QED
        BY <1>2, <4>2, <4>3
    <3>2. CASE ~FireMargin
      BY <1>2, <1>4, <3>2 DEF StartPass, EndPass, MatchRead, MatchReadPx, FireCheck, fillVars
    <3> QED
      BY <3>1, <3>2
  <2> QED
    BY <2>1, <2>2, <2>3, Quiet
<1>5. ASSUME NEW d \in Stop, order' = [order EXCEPT ![o] = d], d.status = order[o].status,
             o \in Stops, matcher.stage \notin {"idle", "next"},
             d.snap = order[o].snap \/ o \in raced' \/ order[o].status = "open",
             UNCHANGED <<rows, fill>>, raced \subseteq raced', raced' \subseteq Stops,
             matcher'.stage \in {"idle", "next"} \/ matcher'.oid = o
      PROVE  HistInv'
  <2>1. order'[o] = d /\ \A x \in Stops \ {o} : order'[x] = order[x]
    BY <1>1, <1>5
  <2>2. order[o].status # "filled"
    BY <1>1, <1>5 DEF Unfilled
  <2>3. ASSUME NEW x \in Stops \ raced'
        PROVE  Story(order'[x], rows[x], Firing(fill, x), Telling(schedule, x), x \in silent, x \notin unsnapped)
    <3>1. Story(order[x], rows[x], Firing(fill, x), Telling(schedule, x), x \in silent, x \notin unsnapped)
      BY <1>5, <2>3 DEF HistInv
    <3>2. CASE x # o
      <4>1. order'[x] = order[x]
        BY <2>1, <3>2
      <4> QED
        BY <3>1, <4>1
    <3>3. CASE x = o
      <4>1. order'[o].status = order[o].status
        BY <1>5, <2>1
      <4>2. order'[o].snap = order[o].snap \/ order[o].status = "open"
        BY <1>5, <2>1, <2>3, <3>3
      <4>3. CASE o \in silent
        BY <3>1, <3>3, <4>1, <4>3 DEF Story, Closed
      <4>4. CASE o \notin silent
        <5>1. ~ Firing(fill, o)
          BY <2>2, <3>1, <3>3, <4>4 DEF Story, Life
        <5> QED
          BY <2>2, <3>1, <3>3, <4>1, <4>2, <4>4, <5>1 DEF Story, Life
      <4> QED
        BY <4>3, <4>4
    <3> QED
      BY <3>2, <3>3
  <2>4. Unfilled(matcher', order')
    BY <1>5, <2>1, <2>2 DEF Unfilled
  <2> QED
    BY <1>1, <1>5, <2>3, <2>4 DEF HistInv
<1>6. CASE MatchEvaluate
  <2>1. CASE ~mark.fresh
    <3>1. Skip /\ UNCHANGED <<order, rows, raced, fill>>
      BY <1>6, <2>1 DEF MatchEvaluate, fillVars
    <3> QED
      BY <1>2, <1>3, <3>1, Quiet
  <2>2. CASE mark.fresh
    <3> DEFINE ev == evaluateTrailing(order[o].p, order[o].best, matcher.px)
               d == WithTrail(order[o], ev)
    <3>1. /\ o \in Stops /\ order[o] \in Stop /\ order'[o] = d /\ order' \in [Stops -> Stop]
          /\ \A x \in Stops \ {o} : order'[x] = order[x]
          /\ Skip \/ matcher' = [matcher EXCEPT !.stage = "fire", !.data = WithTrail(matcher.data, ev)]
          /\ ev.best \in Nat \cup {None} /\ ev.trigger \in Int \cup {None} /\ ev.limit \in Int
      BY <1>6, <2>2, EvaluateOrder
    <3> HIDE DEF ev
    <3>2. d \in Stop /\ d.status = order[o].status /\ d.snap = order[o].snap
      BY <3>1, TrailedType
    <3> HIDE DEF d
    <3>3. UNCHANGED <<rows, raced, fill>> /\ matcher.stage = "stamp"
      BY <1>6 DEF MatchEvaluate, fillVars
    <3>4. matcher'.stage \in {"idle", "next"} \/ matcher'.oid = o
      BY <1>1, <3>1, Skipped DEF Match
    <3>5. order' = [order EXCEPT ![o] = d]
      BY <1>1, <3>1
    <3> QED
      BY <1>1, <1>5, <3>1, <3>2, <3>3, <3>4, <3>5
  <2> QED
    BY <2>1, <2>2
<1>7. CASE freezeTrailingSnapshot
  <2> DEFINE b == buildTrailingBody(matcher.data, FALSE)
             d == WithSnap(order[o], b)
  <2>1. /\ matcher.stage = "freeze" /\ matcher' = [matcher EXCEPT !.stage = "margin"]
        /\ order' = [order EXCEPT ![o].snap = b] /\ Race(o) /\ UNCHANGED <<rows, fill>>
    BY <1>7 DEF freezeTrailingSnapshot, fillVars
  <2>2. o \in Stops /\ matcher.data \in Stop /\ order[o] \in Stop
    BY <1>1, <2>1 DEF MatchOk, Match
  <2>3. b \in Body
    BY <2>2, BodyType
  <2> HIDE DEF b
  <2>4. d \in Stop /\ d.status = order[o].status
    BY <2>2, <2>3, SnapType
  <2>5. order' = [order EXCEPT ![o] = d]
    BY <2>1 DEF WithSnap
  <2> HIDE DEF d
  <2>6. /\ raced \subseteq raced' /\ raced' \subseteq Stops /\ (o \in raced' \/ order[o].status = "open")
        /\ matcher'.oid = o
    BY <1>1, <2>1, <2>2 DEF Race, Match
  <2> QED
    BY <1>5, <2>1, <2>2, <2>4, <2>5, <2>6
<1>8. CASE FireMarginEnd
  <2> DEFINE b == buildTrailingBody(matcher.data, FALSE)
             t == [status |-> "triggered", body |-> b]
             row == [status |-> "marginCanceled", body |-> b]
             r == (rows[o] \o <<t>>) \o <<row>>
  <2>1. /\ matcher.stage = "end" /\ Race(o) /\ rows' = [rows EXCEPT ![o] = r] /\ UNCHANGED fill /\ Skip
        /\ order' = [order EXCEPT ![o].status = "marginCanceled", ![o].snap = b]
    BY <1>8 DEF FireMarginEnd, terminateTrailingStop, fillVars
  <2>2. o \in Stops /\ order[o].status # "none" /\ matcher.data \in Stop
    BY <1>1, <2>1 DEF MatchOk, Match
  <2>3. b \in Body
    BY <2>2, BodyType
  <2> HIDE DEF o, b
  <2>4. /\ row \in RowType /\ row.status = "marginCanceled" /\ row.body = b
        /\ t \in RowType /\ t.status = "triggered"
    BY <2>3 DEF RowType
  <2> HIDE DEF row, t
  <2>5. rows[o] \in Seq(RowType)
    BY <1>1, <2>2
  <2>6. r \in Seq(RowType) /\ r = (rows[o] \o <<t>>) \o <<row>>
    BY <2>4, <2>5, RowsAdded
  <2> HIDE DEF r
  <2>7. Len(rows[o]) = 1 => Len(r) = 3 /\ r[1] = rows[o][1] /\ r[2] = t /\ r[3] = row
    <3> DEFINE R == rows[o]
    <3>1. R \in Seq(RowType) /\ t \in RowType /\ row \in RowType
      BY <2>4, <2>5
    <3>2. r = (R \o <<t>>) \o <<row>>
      BY <2>6
    <3> HIDE DEF R
    <3>3. R \o <<t>> = Append(R, t) /\ Append(R, t) \in Seq(RowType)
      BY <3>1, AppendFacts
    <3>4. Append(R, t) \o <<row>> = Append(Append(R, t), row)
      BY <3>1, <3>3, AppendFacts
    <3>5. r = Append(Append(R, t), row)
      BY <3>2, <3>3, <3>4
    <3>6. Len(R) = 1 => Len(r) = 3 /\ r[1] = R[1] /\ r[2] = t /\ r[3] = row
      BY <3>1, <3>5, ThirdAppended
    <3> QED
      BY <3>6 DEF R
  <2>8. Len(rows[o]) = 1 => r # <<>>
    BY <2>7, EmptySeq
  <2> QED
    BY <1>1, <1>2, <1>3, <2>1, <2>2, <2>3, <2>4, <2>6, <2>7, <2>8, EndRows
<1> QED
  BY <1>4, <1>6, <1>7, <1>8 DEF Pass, MatchStep

\* The steps of the others leave what the tick and the reset keep.
LEMMA Aside ==
  ASSUME [TwapNext]_<<vars, twapVars>>
  PROVE  Sweep \/ UNCHANGED <<schedule, silent, unsnapped>>
  BY DEF TwapNext, TrailingStep, Tick, createTwapOrder, CancelTwapRead, cancelTwapOrder, StartTwaps,
         TwapRead, TwapFinish, TwapSubmit, TwapProgress, vars, twapVars, aside, sweepVars

\* The reads of the tick and of the reset.
LEMMA HistReads ==
  ASSUME HistInv, Sweep, ~ScheduleCancel, ~resetAccount, ~ \E o \in Stops : ScheduleTell(o)
  PROVE  HistInv'
<1>1. UNCHANGED <<order, rows, raced, matcher, fill, silent, unsnapped>>
  BY DEF Sweep, ScheduleStep, ScheduleList, ScheduleRead, ScheduleEnd, ResetStep, ResetPositions,
         ResetOrders, orderVars, fillVars
<1>2. \A x \in Stops : Telling(schedule', x) <=> Telling(schedule, x)
  <2>1. CASE ScheduleList
    BY <2>1 DEF ScheduleList, NoTick, Telling
  <2>2. ASSUME NEW o \in Stops, ScheduleRead(o)
        PROVE  schedule.stage = "read" /\ schedule'.stage # "tell"
    BY <2>2 DEF ScheduleRead
  <2>3. CASE ScheduleEnd
    BY <2>3 DEF ScheduleEnd, NoTick, Telling
  <2>4. CASE ResetStep
    BY <2>4 DEF ResetStep, ResetPositions, ResetOrders, resetAccount
  <2> QED
    BY <2>1, <2>2, <2>3, <2>4 DEF Sweep, ScheduleStep, Telling
<1>3. Unfilled(matcher', order) /\ \A x \in Stops : Firing(fill', x) <=> Firing(fill, x)
  BY <1>1, FiringSame DEF HistInv
<1> QED
  BY <1>1, <1>2, <1>3, Quiet

\* The row of a stop that the tick cancelled.
LEMMA HistTell ==
  ASSUME TrInv, HistInv, NEW o \in Stops, ScheduleTell(o)
  PROVE  HistInv'
<1> DEFINE row == [status |-> "canceled", body |-> buildTrailingBody(order[o], FALSE)]
           r == Append(rows[o], row)
<1>1. /\ UNCHANGED <<order, raced, matcher, fill, silent, unsnapped>> /\ Telling(schedule, o)
      /\ schedule' = [schedule EXCEPT !.todo = @ \ {o}] /\ rows' = [rows EXCEPT ![o] = r]
  BY DEF ScheduleTell, Telling, fillVars, emitTrailingHistory
<1>2. rows \in [Stops -> Seq(RowType)] /\ raced \subseteq Stops /\ order[o] \in Stop /\ Unfilled(matcher, order)
  BY DEF HistInv, TrInv, Types
<1>3. buildTrailingBody(order[o], FALSE) \in Body
  BY <1>2, BodyType
<1>4. row \in RowType /\ row.status = "canceled"
  BY <1>3 DEF RowType
<1> HIDE DEF row
<1>5. rows[o] \in Seq(RowType)
  BY <1>2
<1>6. r \in Seq(RowType)
  BY <1>4, <1>5
<1>7. Len(rows[o]) = 1 => Len(r) = 2 /\ r[1] = rows[o][1] /\ r[2] = row
  BY <1>4, <1>5, SecondRow
<1> HIDE DEF r
<1>8. rows' \in [Stops -> Seq(RowType)] /\ rows'[o] = r /\ \A x \in Stops \ {o} : rows'[x] = rows[x]
  BY <1>1, <1>2, <1>6
<1>9. \A x \in Stops : Telling(schedule', x) <=> (Telling(schedule, x) /\ x # o)
  BY <1>1 DEF Telling
<1>10. \A x \in Stops : Firing(fill', x) <=> Firing(fill, x)
  BY <1>1, FiringSame
<1>11. ASSUME NEW x \in Stops \ raced
       PROVE  Story(order[x], rows'[x], Firing(fill', x), Telling(schedule', x), x \in silent, x \notin unsnapped)
  <2>1. Story(order[x], rows[x], Firing(fill, x), Telling(schedule, x), x \in silent, x \notin unsnapped)
    BY DEF HistInv
  <2>2. CASE x # o
    <3>1. rows'[x] = rows[x] /\ (Telling(schedule', x) <=> Telling(schedule, x)) /\ (Firing(fill', x) <=> Firing(fill, x))
      BY <1>8, <1>9, <1>10, <2>2
    <3> QED
      BY <2>1, <3>1, SameStory
  <2>3. CASE x = o
    <3>1. Telling(schedule, x) /\ ~Telling(schedule', x) /\ (Firing(fill', x) <=> Firing(fill, x))
      BY <1>1, <1>9, <1>10, <2>3
    <3>2. /\ Len(rows[x]) = 1 /\ rows[x][1].status = "open" /\ order[x].status = "cancelled"
          /\ ~Firing(fill, x)
      <4>1. CASE x \in silent
        BY <2>1, <3>1, <4>1 DEF Story, Closed
      <4>2. CASE x \notin silent
        BY <2>1, <3>1, <4>2 DEF Story, Life
      <4> QED
        BY <4>1, <4>2
    <3>3. Len(rows'[x]) = 2 /\ rows'[x][1].status = "open" /\ rows'[x][2].status = "canceled"
      BY <1>4, <1>7, <1>8, <2>3, <3>2
    <3>4. rows'[x] # <<>>
      BY <3>3, EmptySeq
    <3>5. x \notin silent => x \in unsnapped
      BY <2>1, <3>1 DEF Story, Life
    <3>6. CASE x \in silent
      BY <3>1, <3>2, <3>3, <3>6 DEF Story, Closed, Shape
    <3>7. CASE x \notin silent
      BY <3>1, <3>2, <3>3, <3>4, <3>5, <3>7 DEF Story, Life
    <3> QED
      BY <3>6, <3>7
  <2> QED
    BY <2>2, <2>3
<1> QED
  BY <1>1, <1>2, <1>8, <1>11 DEF HistInv

\* The tick cancels the stops that it read open.
LEMMA HistCancel ==
  ASSUME TrInv, SweepTypes, HistInv, ScheduleCancel
  PROVE  HistInv'
<1> DEFINE due == schedule.due
<1>1. /\ UNCHANGED <<rows, matcher, fill, silent>> /\ order' = Cancelled(due)
      /\ raced' = raced \cup {o \in due : order[o].status # "open"} /\ unsnapped' = unsnapped \cup due
      /\ schedule' = [NoTick EXCEPT !.stage = "tell", !.todo = due] /\ schedule.stage = "read"
  BY DEF ScheduleCancel, fillVars
<1>2. /\ rows \in [Stops -> Seq(RowType)] /\ raced \subseteq Stops /\ due \subseteq Stops
      /\ Unfilled(matcher, order) /\ order \in [Stops -> Stop]
  BY DEF HistInv, SweepTypes, TrInv, Types
<1> HIDE DEF due
<1>3. \A x \in Stops : ~Telling(schedule, x) /\ (Telling(schedule', x) <=> x \in due)
  BY <1>1 DEF NoTick, Telling
<1>4. \A x \in Stops : Firing(fill', x) <=> Firing(fill, x)
  BY <1>1, FiringSame
<1>5. ASSUME NEW x \in Stops
      PROVE  /\ order'[x] = IF x \in due THEN WithCancel(order[x]) ELSE order[x]
             /\ order[x] \in Stop /\ WithCancel(order[x]).status = "cancelled"
  BY <1>1, <1>2, CancelledOnes, CancelType
<1>6. ASSUME NEW x \in Stops \ raced'
      PROVE  Story(order'[x], rows[x], Firing(fill', x), Telling(schedule', x), x \in silent, x \notin unsnapped')
  <2>1. Story(order[x], rows[x], Firing(fill, x), Telling(schedule, x), x \in silent, x \notin unsnapped) /\ x \in Stops \ raced
    BY <1>1 DEF HistInv
  <2>2. CASE x \notin due
    <3>1. order'[x] = order[x] /\ (Telling(schedule', x) <=> Telling(schedule, x)) /\ (Firing(fill', x) <=> Firing(fill, x))
      BY <1>3, <1>4, <1>5, <2>2
    <3>2. x \notin unsnapped' <=> x \notin unsnapped
      BY <1>1, <2>2
    <3> QED
      BY <2>1, <3>1, <3>2, SameStory
  <2>3. CASE x \in due
    <3>1. order[x].status = "open" /\ order'[x].status = "cancelled" /\ Telling(schedule', x)
      BY <1>1, <1>3, <1>5, <2>3
    <3>2. /\ x \notin silent /\ ~Firing(fill', x) /\ rows[x] # <<>>
          /\ Len(rows[x]) = 1 /\ rows[x][1].status = "open"
      BY <1>4, <2>1, <3>1, OpenStory
    <3>3. x \in unsnapped'
      BY <1>1, <2>3
    <3> QED
      BY <3>1, <3>2, <3>3 DEF Story, Life
  <2> QED
    BY <2>2, <2>3
<1>7. Unfilled(matcher', order')
  BY <1>1, <1>2, <1>5 DEF Unfilled
<1> QED
  BY <1>1, <1>2, <1>6, <1>7 DEF HistInv

\* A reset writes over every stop that it listed, and tells nobody.
LEMMA HistReset ==
  ASSUME TrInv, HistInv, resetAccount
  PROVE  HistInv'
<1> DEFINE oids == reset.oids
<1>1. /\ UNCHANGED <<rows, raced, matcher, schedule, unsnapped>> /\ order' = Cancelled(oids)
      /\ silent' = silent \cup oids
  BY DEF resetAccount
<1>2. /\ rows \in [Stops -> Seq(RowType)] /\ raced \subseteq Stops /\ "matcher" \in Procs
      /\ Unfilled(matcher, order) /\ order \in [Stops -> Stop]
  BY DEF HistInv, TrInv, Types, Procs
<1> HIDE DEF oids
<1>3. \A x \in Stops : Firing(fill', x) <=> Firing(fill, x)
  BY <1>2, ResetFill DEF Firing
<1>4. ASSUME NEW x \in Stops
      PROVE  /\ order'[x] = IF x \in oids THEN WithCancel(order[x]) ELSE order[x]
             /\ order[x] \in Stop /\ WithCancel(order[x]).status = "cancelled"
  BY <1>1, <1>2, CancelledOnes, CancelType
<1>5. ASSUME NEW x \in Stops \ raced
      PROVE  Story(order'[x], rows[x], Firing(fill', x), Telling(schedule, x), x \in silent', x \notin unsnapped)
  <2>1. Story(order[x], rows[x], Firing(fill, x), Telling(schedule, x), x \in silent, x \notin unsnapped) /\ (Firing(fill', x) <=> Firing(fill, x))
    BY <1>3 DEF HistInv
  <2>2. CASE x \notin oids
    <3>1. order'[x] = order[x] /\ (x \in silent' <=> x \in silent) /\ Telling(schedule', x) = Telling(schedule, x)
      BY <1>1, <1>4, <2>2
    <3>2. Story(order[x], rows[x], Firing(fill', x), Telling(schedule, x), x \in silent, x \notin unsnapped)
      BY <1>1, <2>1, SameStory
    <3> QED
      BY <3>1, <3>2
  <2>3. CASE x \in oids
    <3>1. order'[x].status = "cancelled" /\ x \in silent'
      BY <1>1, <1>4, <2>3
    <3> DEFINE d == order[x]
               r == rows[x]
               f == Firing(fill, x)
               t == Telling(schedule, x)
    <3>2. Story(d, r, f, t, x \in silent, x \notin unsnapped) /\ d.status \in StopStatus
      BY <1>4, <2>1 DEF Stop
    <3> HIDE DEF d, r, f, t
    <3>3. Shape(r) /\ ~(f /\ t) /\ (f \/ t => Len(r) = 1 /\ r[1].status = "open")
      BY <3>2, Shapely
    <3>4. Closed(order'[x], rows[x], Firing(fill', x), Telling(schedule, x))
      BY <2>1, <3>1, <3>3 DEF Closed, d, r, f, t
    <3> QED
      BY <3>1, <3>4 DEF Story
  <2> QED
    BY <2>2, <2>3
<1>6. Unfilled(matcher', order')
  BY <1>1, <1>2, <1>4 DEF Unfilled
<1> QED
  BY <1>1, <1>2, <1>5, <1>6 DEF HistInv

LEMMA HistSweep ==
  ASSUME TrInv, SweepTypes, HistInv, Sweep
  PROVE  HistInv'
  BY HistReads, HistTell, HistCancel, HistReset

LEMMA HistKept ==
  ASSUME TwInv, HistInv, [TwapNext]_<<vars, twapVars>>
  PROVE  HistInv'
<1>0. Sweep \/ UNCHANGED <<schedule, silent, unsnapped>>
  BY Aside
<1>4. CASE Sweep
  BY <1>4, HistSweep DEF TwInv
<1>1. CASE Around /\ ~Sweep
  <2>1. ASSUME NEW w \in Procs, FillStep(w)
        PROVE  HistInv'
    BY <1>0, <1>1, <2>1, HistFill DEF TwInv
  <2> QED
    BY <1>0, <1>1, <2>1, HistClient DEF TwInv, Around, Procs
<1>2. CASE Pass /\ ~Sweep
  BY <1>0, <1>2, HistPass DEF TwInv
<1>3. CASE ~(Around \/ Pass \/ Sweep)
  <2>1. UNCHANGED <<order, rows, raced, matcher, schedule, silent, unsnapped>>
    BY <1>3, Others
  <2>2. \A x \in Stops : Firing(fill', x) <=> Firing(fill, x)
    <3>1. CASE UNCHANGED fill
      BY <3>1, FiringSame
    <3>2. CASE TwapSubmit
      <4>1. /\ pass.stage = "submit" /\ fill \in [Procs -> Fill] /\ "matcher" \in Procs
            /\ fill["matcher"] = NoFill
        BY <3>2 DEF TwapSubmit, TwInv, TrInv, Types, Procs, PassOk
      <4>2. UNCHANGED fill \/ fill'["matcher"].stage = "wait"
        <5>1. PICK f : f = [NoFill EXCEPT !.stage = "wait", !.buy = pass.data.buy, !.sz = pass.slice, !.ro = pass.data.ro]
          OBVIOUS
        <5>2. f.stage = "wait"
          BY <5>1 DEF NoFill
        <5>3. UNCHANGED fill \/ fill' = [fill EXCEPT !["matcher"] = f]
          BY <3>2, <5>1 DEF TwapSubmit, Become
        <5> QED
          BY <4>1, <5>2, <5>3
      <4> QED
        BY <3>1, <4>1, <4>2 DEF Firing, NoFill
    <3> QED
      BY <1>3, <3>1, <3>2, Others
  <2>3. Unfilled(matcher', order)
    BY <2>1 DEF HistInv
  <2> QED
    BY <2>1, <2>2, <2>3, Quiet
<1> QED
  BY <1>1, <1>2, <1>3, <1>4

\* A shape is one of the Lives.
LEMMA ShapeIsLived ==
  ASSUME NEW r \in Seq(RowType), Shape(r)
  PROVE  [i \in DOMAIN r |-> r[i].status] \in Lives
<1> DEFINE q == [i \in DOMAIN r |-> r[i].status]
<1>1. DOMAIN r = 1 .. Len(r) /\ Len(r) \in Nat
  OBVIOUS
<1>2. CASE r = <<>>
  <2>1. q = <<>>
    BY <1>2
  <2> QED
    BY <2>1 DEF Lives
<1>3. CASE Len(r) = 1 /\ r[1].status = "open"
  <2>1. q = <<"open">>
    BY <1>1, <1>3
  <2> QED
    BY <2>1 DEF Lives
<1>4. CASE Len(r) = 2 /\ r[1].status = "open" /\ r[2].status \in {"canceled", "reduceOnlyCanceled"}
  <2>1. q = <<"open", r[2].status>>
    BY <1>1, <1>4
  <2> QED
    BY <1>4, <2>1 DEF Lives
<1>5. CASE /\ Len(r) = 3 /\ r[1].status = "open" /\ r[2].status = "triggered"
           /\ r[3].status \in {"filled", "marginCanceled"}
  <2>1. q = <<"open", "triggered", r[3].status>>
    BY <1>1, <1>5
  <2> QED
    BY <1>5, <2>1 DEF Lives
<1> HIDE DEF q
<1> QED
  BY <1>2, <1>3, <1>4, <1>5 DEF Shape, q

\* HistoryTells: the rows that a stop leaves in the order history read as one
\* life, unless a second writer ended a stop it had read open; they end with
\* its status, unless a reset ended it, and show the body that orderStatus
\* serves, unless a scheduled cancel ended it.
THEOREM HistoryIsOneLife == TwapSpec => []HistoryTells
<1>1. TwapInit => HistInv
  <2> SUFFICES ASSUME TwapInit PROVE HistInv
    OBVIOUS
  <2>1. /\ order = [o \in Stops |-> NoStop] /\ rows = [o \in Stops |-> <<>>] /\ raced = {}
        /\ matcher = NoPass /\ fill["matcher"] = NoFill
    BY DEF TwapInit, Init
  <2>2. <<>> \in Seq(RowType)
    OBVIOUS
  <2>3. /\ silent = {}
        /\ \A o \in Stops : /\ order[o].status = "none" /\ rows[o] = <<>> /\ ~Firing(fill, o)
                           /\ ~Telling(schedule, o)
    BY <2>1 DEF NoStop, Firing, NoFill, Telling, TwapInit, Init, NoTick
  <2>4. \A o \in Stops : Story(order[o], rows[o], Firing(fill, o), Telling(schedule, o), o \in silent, o \notin unsnapped)
    BY <2>3 DEF Story, Life
  <2> QED
    BY <2>1, <2>2, <2>4 DEF HistInv, Unfilled, NoPass
<1>2. TwInv /\ HistInv /\ [TwapNext]_<<vars, twapVars>> => HistInv'
  BY HistKept
<1>3. TwInv /\ HistInv => HistoryTells
  <2> SUFFICES ASSUME TwInv, HistInv, NEW o \in Stops \ raced
               PROVE  /\ Row(o) \in Lives
                      /\ order[o] # NoStop /\ o \notin silent /\ ~Owed(o)
                           => /\ rows[o][Len(rows[o])].status = Told[order[o].status]
                              /\ order[o].status # "open" /\ o \notin unsnapped =>
                                   buildTrailingOrderStatus(order[o], FALSE) = rows[o][Len(rows[o])].body
    BY DEF HistoryTells
  <2>1. /\ order[o] \in Stop /\ StopOk(order[o]) /\ rows[o] \in Seq(RowType)
        /\ Story(order[o], rows[o], Firing(fill, o), Telling(schedule, o), o \in silent, o \notin unsnapped)
        /\ order[o].status \in StopStatus
    BY DEF TwInv, TrInv, Types, StopsOk, HistInv, Stop
  <2>2. Shape(rows[o])
    BY <2>1, Shapely
  <2>3. Row(o) \in Lives
    BY <2>1, <2>2, ShapeIsLived DEF Row
  <2>4. ASSUME order[o] # NoStop, o \notin silent, ~Owed(o)
        PROVE  /\ rows[o][Len(rows[o])].status = Told[order[o].status]
               /\ order[o].status # "open" /\ o \notin unsnapped =>
                    buildTrailingOrderStatus(order[o], FALSE) = rows[o][Len(rows[o])].body
    <3>1. /\ ~Firing(fill, o) /\ ~Telling(schedule, o) /\ order[o].status # "none"
          /\ Life(order[o], rows[o], FALSE, FALSE, o \notin unsnapped)
      <4>1. ~Firing(fill, o) /\ ~Telling(schedule, o) /\ order[o].status # "none"
        BY <2>1, <2>4 DEF Firing, StopOk, Owed, Telling
      <4>2. Life(order[o], rows[o], Firing(fill, o), Telling(schedule, o), o \notin unsnapped)
        BY <2>1, <2>4 DEF Story
      <4> QED
        BY <4>1, <4>2 DEF Life
    <3>2. /\ Told["open"] = "open" /\ Told["cancelled"] = "canceled" /\ Told["filled"] = "filled"
          /\ Told["reduceOnlyCanceled"] = "reduceOnlyCanceled" /\ Told["marginCanceled"] = "marginCanceled"
      BY DEF Told
    <3>3. CASE order[o].status = "open"
      BY <3>1, <3>2, <3>3 DEF Life
    <3>4. CASE order[o].status \in {"cancelled", "reduceOnlyCanceled", "marginCanceled"}
      BY <3>1, <3>2, <3>4 DEF Life, buildTrailingOrderStatus
    <3>5. CASE order[o].status = "filled"
      BY <3>1, <3>2, <3>5 DEF Life, buildTrailingOrderStatus
    <3> QED
      BY <2>1, <3>1, <3>3, <3>4, <3>5 DEF StopStatus
  <2> QED
    BY <2>3, <2>4
<1> QED
  BY Invariance, <1>1, <1>2, <1>3, PTL DEF TwapSpec

=============================================================================
