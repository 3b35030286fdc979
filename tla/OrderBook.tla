------------------------------ MODULE OrderBook ------------------------------
(***************************************************************************)
(* The life of one user's limit and TP/SL orders in HyPaper: placement,    *)
(* bracket wiring, cancel, modify, the matcher's passes, expiry, scheduled *)
(* cancel and account reset, as engine/order.ts, worker/order-matcher.ts,  *)
(* worker/index.ts and api/routes/hypaper.ts execute them against Redis.   *)
(*                                                                         *)
(* HyPaper is one Node process with one Redis connection: the code runs    *)
(* undisturbed between two awaits, a pipeline is one uninterrupted batch   *)
(* of commands, and everything may happen at an await.  So one action is   *)
(* one Redis command or pipeline that reads or writes shared state, with   *)
(* two exceptions.  A read of an order's status and the delete from an     *)
(* index or of links that it alone decides are one action: an order that   *)
(* is not open never opens again, so the delete may as well come at once.  *)
(* Consecutive commands that read or delete the bracket links of one order *)
(* are one action: this leaves out another call rewriting the links of     *)
(* that very order in between, and nothing else.  A process is one running *)
(* call, and pc says what it does after the await it is suspended on.  A   *)
(* restart ends every call where it stands and keeps what Redis holds.     *)
(*                                                                         *)
(* Abstracted data: prices (whether an order crosses or a trigger is hit   *)
(* is a free choice each time it is read), sizes, fees and positions       *)
(* (whether a reduce-only order finds something to reduce is a free        *)
(* choice), margin and leverage checks (a placement may be refused), and   *)
(* time in force (an Ioc, Alo and Gtc order together may be refused, fill  *)
(* at once or rest, which is what a limit wire may do here).               *)
(***************************************************************************)
EXTENDS Naturals, FiniteSets, Sequences

CONSTANTS
  Passes,       \* matchAll() calls that may be running
  Reqs,         \* API calls and scheduled-cancel ticks that may be running
  NoProc,       \* the lock holder when nobody holds the user's lock
  MaxOid,       \* bound: oids nextOid() hands out
  MaxOps,       \* bound: API calls and ticks started in a behaviour
  MaxCrashes,   \* bound: restarts of the Node process
  Batches,      \* placeOrders() arguments: [grouping, wires, expires]
  Replacements  \* wires a modify may place

ASSUME ConstantsAssumption ==
  /\ MaxOid \in Nat /\ MaxOps \in Nat /\ MaxCrashes \in Nat
  /\ Passes \cap Reqs = {} /\ NoProc \notin Passes \cup Reqs

Oids  == 1..MaxOid
NoOid == 0
Procs == Passes \cup Reqs

Kinds     == {"limit", "trigger"}
Wires     == [kind : Kinds, reduceOnly : BOOLEAN]
Groupings == {"na", "normalTpsl", "positionTpsl"}
Statuses  == {"none", "open", "filled", "cancelled"}

ASSUME WiresAssumption ==
  /\ Batches \subseteq [grouping : Groupings, wires : Seq(Wires), expires : BOOLEAN]
  /\ Replacements \subseteq Wires

VARIABLES
  order,          \* order:<oid> hashes; status "none" where there is no hash
  lastOid,        \* the seq:oid counter
  ordersOpen,     \* orders:open
  ordersTriggers, \* orders:triggers
  ordersExpiry,   \* orders:expiry
  due,            \* oids whose expiresAfter has passed
  userOrders,     \* user:<u>:orders
  children,       \* order:<oid>:children
  parent,         \* order:<oid>:parent
  bracket,        \* order:<oid>:bracket
  isRunning,      \* OrderMatcher.isRunning
  lock,           \* who is in the user's withUserLock section
  ops,            \* calls started so far
  crashes,        \* restarts so far
  pc,             \* what each process does next
  cur,            \* the order each process works on
  loc             \* the other local variables of each process

book  == <<ordersOpen, ordersTriggers, ordersExpiry, userOrders>>
links == <<children, parent, bracket>>
ctl   == <<isRunning, lock, ops, crashes>>

(* History: what has been executed, for the properties.                    *)
VARIABLES
  fills,          \* fills executed per order
  explicit,       \* orders cancelled by anything but a sibling's fill
  finalCancel,    \* orders cancelled unfilled while no process held them
  interrupted,    \* filled orders whose cancelOrderSiblings a restart cut short
  oco,            \* pairs of legs linked while both unfilled
  under,          \* the entry a leg was linked to
  entryOf         \* the same, if nobody held the leg then

hist == <<fills, explicit, finalCancel, interrupted, oco, under, entryOf>>
vars == <<order, lastOid, book, due, links, ctl, pc, cur, loc, hist>>

-----------------------------------------------------------------------------
(* Local variables of a process: the oids still to visit, the children to  *)
(* unlink, the siblings and parent read, the wires still to place, the     *)
(* first and the other oids placed, the batch options, the order being     *)
(* modified, whether the current wire crosses, and the matcher's phase.    *)

Local == [todo : SUBSET Oids, kids : SUBSET Oids, sibs : SUBSET Oids,
          par : Oids \cup {NoOid}, wires : Seq(Wires),
          first : Oids \cup {NoOid}, rest : SUBSET Oids,
          grouping : Groupings, expires : BOOLEAN,
          old : Oids \cup {NoOid}, crosses : BOOLEAN, phase : Kinds]

Blank == [todo |-> {}, kids |-> {}, sibs |-> {}, par |-> NoOid,
          wires |-> <<>>, first |-> NoOid, rest |-> {}, grouping |-> "na",
          expires |-> FALSE, old |-> NoOid, crosses |-> FALSE, phase |-> "limit"]

\* Inside cancelOrderSiblings.
Siblings == {"sibChildren", "sibUnparent", "sibBracket", "sibUnlink", "sibNext",
             "sibCancel"}

Labels == {"idle", "open", "trig", "parent", "check", "fill", "locked", "unindex",
           "sweep", "sweepCancel", "place", "save", "rest", "list", "modify",
           "carry", "cancel", "cancelWrite", "cascade", "unlink", "kids", "tick",
           "reset"} \cup Siblings

Goto(p, l)   == pc' = [pc EXCEPT ![p] = l]
Hold(p, o)   == cur' = [cur EXCEPT ![p] = o]
Keep(p, l)   == loc' = [loc EXCEPT ![p] = l]
Unlink(f, S) == [o \in Oids |-> IF o \in S THEN {} ELSE f[o]]
Unparent(S)  == [o \in Oids |-> IF o \in S THEN NoOid ELSE parent[o]]
SetStatus(S, st) ==
  order' = [o \in Oids |-> IF o \in S THEN [order[o] EXCEPT !.status = st]
                                      ELSE order[o]]

\* The process ends its call.
Finish(p) ==
  /\ Goto(p, "idle") /\ Hold(p, NoOid)
  /\ Keep(p, Blank)

\* A process that has read o as open and may go on to fill it.
InHand(o) ==
  \E p \in Procs : cur[p] = o /\ pc[p] \in {"parent", "check", "fill", "locked"}

\* History of a cancel of the orders in S.  A sibling's fill cancels without
\* being asked to; every other cancel is explicit.
RecordCancel(S, asked) ==
  /\ explicit' = IF asked THEN explicit \cup S ELSE explicit
  /\ finalCancel' = finalCancel \cup {o \in S : fills[o] = 0 /\ ~InHand(o)}
  /\ UNCHANGED <<fills, interrupted, oco, under, entryOf>>

-----------------------------------------------------------------------------
Init ==
  /\ order = [o \in Oids |-> [status |-> "none", kind |-> "limit", reduceOnly |-> FALSE]]
  /\ lastOid = 0
  /\ ordersOpen = {} /\ ordersTriggers = {} /\ ordersExpiry = {} /\ userOrders = {}
  /\ due = {}
  /\ children = [o \in Oids |-> {}]
  /\ parent = [o \in Oids |-> NoOid]
  /\ bracket = [o \in Oids |-> {}]
  /\ isRunning = FALSE /\ lock = NoProc /\ ops = 0 /\ crashes = 0
  /\ pc = [p \in Procs |-> "idle"]
  /\ cur = [p \in Procs |-> NoOid]
  /\ loc = [p \in Procs |-> Blank]
  /\ fills = [o \in Oids |-> 0]
  /\ explicit = {} /\ finalCancel = {} /\ interrupted = {} /\ oco = {}
  /\ under = [o \in Oids |-> NoOid] /\ entryOf = [o \in Oids |-> NoOid]

-----------------------------------------------------------------------------
(* placeOrders and placeSingleOrder.                                       *)

StartCall(r) ==
  /\ r \in Reqs /\ pc[r] = "idle" /\ ops < MaxOps
  /\ ops' = ops + 1
  /\ UNCHANGED <<isRunning, lock, crashes>>

PlaceOrders(r, b) ==
  /\ StartCall(r)
  /\ Goto(r, "place")
  /\ Keep(r, [Blank EXCEPT !.wires = b.wires, !.expires = b.expires,
                           !.grouping = b.grouping])
  /\ UNCHANGED <<order, lastOid, book, due, links, cur, hist>>

\* placeSingleOrder has answered.  A batch collects the oids that rested or
\* filled and goes on; a modify keeps the new oid only if it rests.
Answer(r, o, resting) ==
  LET l == loc[r] IN
  /\ Goto(r, IF l.old = NoOid THEN "place" ELSE "carry")
  /\ Hold(r, NoOid)
  /\ Keep(r, [l EXCEPT !.wires = Tail(l.wires), !.crosses = FALSE, !.sibs = {}, !.par = NoOid,
                       !.first = IF l.old # NoOid THEN (IF resting THEN o ELSE NoOid)
                                 ELSE IF l.first = NoOid THEN o ELSE l.first,
                       !.rest = IF l.old = NoOid /\ l.first # NoOid /\ o # NoOid
                                THEN l.rest \cup {o} ELSE l.rest])

\* A refused wire gets no oid.
RejectOrder(r) ==
  /\ pc[r] = "place" /\ loc[r].wires # <<>>
  /\ Answer(r, NoOid, FALSE)
  /\ UNCHANGED <<order, lastOid, book, due, links, ctl, hist>>

\* An accepted wire gets the next oid.  Only a limit order fills at once.
NextOid(r, crosses) ==
  /\ pc[r] = "place" /\ loc[r].wires # <<>> /\ lastOid < MaxOid
  /\ crosses => Head(loc[r].wires).kind = "limit"
  /\ lastOid' = lastOid + 1
  /\ Hold(r, lastOid + 1)
  /\ Keep(r, [loc[r] EXCEPT !.crosses = crosses])
  /\ Goto(r, "save")
  /\ UNCHANGED <<order, book, due, links, ctl, hist>>

\* saveOrder: the hash and, for a limit order of a batch that expires, the
\* expiry entry.  placeTriggeredOrder passes no expiresAfter.
SaveOrder(r) ==
  LET o == cur[r]
      w == Head(loc[r].wires)
  IN
  /\ pc[r] = "save"
  /\ order' = [order EXCEPT ![o] = [status |-> "open", kind |-> w.kind,
                                    reduceOnly |-> w.reduceOnly]]
  /\ ordersExpiry' = IF loc[r].expires /\ w.kind = "limit"
                     THEN ordersExpiry \cup {o} ELSE ordersExpiry
  /\ Goto(r, IF loc[r].crosses THEN "fill" ELSE "rest")
  /\ UNCHANGED <<lastOid, ordersOpen, ordersTriggers, userOrders, due, links,
                 ctl, cur, loc, hist>>

\* restOrder: both sets in one pipeline.
RestOrder(r) ==
  LET o == cur[r] IN
  /\ pc[r] = "rest" /\ order[o].kind = "limit"
  /\ ordersOpen' = ordersOpen \cup {o}
  /\ userOrders' = userOrders \cup {o}
  /\ Answer(r, o, TRUE)
  /\ UNCHANGED <<order, lastOid, ordersTriggers, ordersExpiry, due, links, ctl, hist>>

\* placeTriggeredOrder: the trigger set first ...
RestTrigger(r) ==
  LET o == cur[r] IN
  /\ pc[r] = "rest" /\ order[o].kind = "trigger"
  /\ ordersTriggers' = ordersTriggers \cup {o}
  /\ Goto(r, "list")
  /\ UNCHANGED <<order, lastOid, ordersOpen, ordersExpiry, userOrders, due,
                 links, ctl, cur, loc, hist>>

\* ... then the user's order list.
ListTrigger(r) ==
  LET o == cur[r] IN
  /\ pc[r] = "list"
  /\ userOrders' = userOrders \cup {o}
  /\ Answer(r, o, TRUE)
  /\ UNCHANGED <<order, lastOid, ordersOpen, ordersTriggers, ordersExpiry, due,
                 links, ctl, hist>>

\* Variant: every grouping wired as parent and children, so that the first
\* leg of a positionTpsl pair is no sibling of the second.
LegsParentFirst(l) == l.rest

\* The legs of a bracket, OCO siblings of each other, and the entry they
\* depend on: normalTpsl takes the first order placed as the entry.
Legs(l) == IF l.grouping = "positionTpsl" THEN {l.first} \cup l.rest ELSE l.rest
Entry(l) == IF l.grouping = "positionTpsl" THEN NoOid ELSE l.first

\* The exits of which only one may fill: what the grouping promises.
Exits(l) == IF l.grouping = "positionTpsl" THEN {l.first} \cup l.rest ELSE l.rest

\* History of linking the exits S, in pairs, to each other and to entry e:
\* only links that are in place before a fill of the leg is under way count.
RecordLinks(S, pairs, e) ==
  /\ oco' = oco \cup {x \in pairs : \A o \in x : fills[o] = 0}
  /\ under' = [o \in Oids |-> IF o \in S /\ e # NoOid THEN e ELSE under[o]]
  /\ entryOf' = [o \in Oids |-> IF o \in S /\ e # NoOid /\ fills[o] = 0 /\ ~InHand(o)
                                THEN e ELSE entryOf[o]]
  /\ UNCHANGED <<fills, explicit, finalCancel, interrupted>>

\* The end of placeOrders: one pipeline writes the bracket's links.
LinkBracket(r) ==
  LET l == loc[r]
      L == Legs(l)
      e == Entry(l)
  IN
  /\ pc[r] = "place" /\ l.old = NoOid /\ l.wires = <<>>
  /\ Finish(r)
  /\ IF l.grouping # "na" /\ l.rest # {}
     THEN /\ bracket' = [o \in Oids |-> IF o \in L THEN bracket[o] \cup (L \ {o})
                                                  ELSE bracket[o]]
          /\ parent' = [o \in Oids |-> IF o \in L /\ e # NoOid THEN e ELSE parent[o]]
          /\ children' = [o \in Oids |-> IF o = e THEN children[o] \cup L
                                                  ELSE children[o]]
          /\ RecordLinks(Exits(l), {{a, b} : a, b \in Exits(l)} \ {{a} : a \in Exits(l)}, e)
     ELSE UNCHANGED <<links, hist>>
  /\ UNCHANGED <<order, lastOid, book, due, ctl>>

-----------------------------------------------------------------------------
(* cancelOrders, and the cascade it and a modify of an entry run.          *)

\* The hash is read; a call on an order that is not open changes nothing.
CancelOrder(r, o) ==
  /\ StartCall(r) /\ order[o].status = "open"
  /\ Goto(r, "cancelWrite") /\ Hold(r, o)
  /\ UNCHANGED <<order, lastOid, book, due, links, loc, hist>>

CancelWrite(r) ==
  LET o == cur[r] IN
  /\ pc[r] = "cancelWrite"
  /\ SetStatus({o}, "cancelled")
  /\ ordersOpen' = ordersOpen \ {o}
  /\ ordersTriggers' = ordersTriggers \ {o}
  /\ ordersExpiry' = ordersExpiry \ {o}
  /\ Goto(r, "cascade")
  /\ RecordCancel({o}, TRUE)
  /\ UNCHANGED <<lastOid, userOrders, due, links, ctl, cur, loc>>

\* The children are read ...
Cascade(r) ==
  /\ pc[r] = "cascade"
  /\ Keep(r, [loc[r] EXCEPT !.kids = children[cur[r]]])
  /\ Goto(r, "unlink")
  /\ UNCHANGED <<order, lastOid, book, due, links, ctl, cur, hist>>

\* ... a parent drops the set and goes on to cancel them; any other order
\* drops the links it owns.
CascadeUnlink(r) ==
  LET o == cur[r] IN
  /\ pc[r] = "unlink"
  /\ IF loc[r].kids # {}
     THEN /\ children' = Unlink(children, {o})
          /\ Goto(r, "kids")
          /\ UNCHANGED <<bracket, parent>>
     ELSE /\ bracket' = Unlink(bracket, {o})
          /\ parent' = Unparent({o})
          /\ Goto(r, "cancel")
          /\ UNCHANGED children
  /\ Hold(r, NoOid)
  /\ UNCHANGED <<order, lastOid, book, due, ctl, loc, hist>>

\* One child: read, unlinked, and queued for cancelling if it is open.
CascadeChild(r, c) ==
  /\ pc[r] = "kids" /\ c \in loc[r].kids
  /\ Keep(r, [loc[r] EXCEPT !.kids = @ \ {c},
                            !.todo = IF order[c].status = "open" THEN @ \cup {c} ELSE @])
  /\ parent' = Unparent({c})
  /\ bracket' = Unlink(bracket, {c})
  /\ Goto(r, IF loc[r].kids = {c} THEN "cancel" ELSE "kids")
  /\ UNCHANGED <<order, lastOid, book, due, children, ctl, cur, hist>>

\* The recursive cancelOrders reads a queued child again.
CancelNext(r, o) ==
  /\ pc[r] = "cancel" /\ o \in loc[r].todo
  /\ Keep(r, [loc[r] EXCEPT !.todo = @ \ {o}])
  /\ IF order[o].status = "open"
     THEN Goto(r, "cancelWrite") /\ Hold(r, o)
     ELSE UNCHANGED <<pc, cur>>
  /\ UNCHANGED <<order, lastOid, book, due, links, ctl, hist>>

CancelDone(r) ==
  /\ pc[r] = "cancel" /\ loc[r].todo = {} /\ loc[r].old = NoOid
  /\ Finish(r)
  /\ UNCHANGED <<order, lastOid, book, due, links, ctl, hist>>

-----------------------------------------------------------------------------
(* modifyOrder / batchModifyOrders: cancel, place the replacement, carry   *)
(* the bracket links over to it.                                           *)

ModifyOrder(r, o, w) ==
  /\ StartCall(r) /\ order[o].status = "open"
  /\ Goto(r, "modify")
  /\ Keep(r, [Blank EXCEPT !.old = o, !.wires = <<w>>])
  /\ UNCHANGED <<order, lastOid, book, due, links, cur, hist>>

ModifyWrite(r) ==
  LET o == loc[r].old IN
  /\ pc[r] = "modify"
  /\ SetStatus({o}, "cancelled")
  /\ ordersOpen' = ordersOpen \ {o}
  /\ ordersTriggers' = ordersTriggers \ {o}
  /\ ordersExpiry' = ordersExpiry \ {o}
  /\ Goto(r, "place")
  /\ RecordCancel({o}, TRUE)
  /\ UNCHANGED <<lastOid, userOrders, due, links, ctl, cur, loc>>

\* carryBracketLinks reads the old order's links; the children of a modified
\* entry are unlinked and cancelled first.
CarryRead(r) ==
  LET o == loc[r].old IN
  /\ pc[r] = "carry"
  /\ Keep(r, [loc[r] EXCEPT !.par = parent[o], !.sibs = bracket[o],
                            !.kids = children[o]])
  /\ children' = Unlink(children, {o})
  /\ Goto(r, IF children[o] # {} THEN "kids" ELSE "cancel")
  /\ UNCHANGED <<order, lastOid, book, due, parent, bracket, ctl, cur, hist>>

\* The last pipeline: the old order's links go, the new order takes its
\* place under the parent and among the siblings.
CarryWrite(r) ==
  LET l   == loc[r]
      old == l.old
      new == l.first
      N   == {new} \ {NoOid}
  IN
  /\ pc[r] = "cancel" /\ l.todo = {} /\ old # NoOid
  /\ children' = [o \in Oids |-> IF o = l.par THEN (children[o] \ {old}) \cup N
                                               ELSE children[o]]
  /\ parent' = [o \in Oids |-> IF o = old THEN NoOid
                              ELSE IF o \in N /\ l.par # NoOid THEN l.par
                              ELSE parent[o]]
  /\ bracket' = [o \in Oids |-> IF o = old THEN {}
                               ELSE IF o \in l.sibs THEN (bracket[o] \ {old}) \cup N
                               ELSE IF o \in N THEN bracket[o] \cup l.sibs
                               ELSE bracket[o]]
  /\ Finish(r)
  /\ RecordLinks(N, {{a, b} : a \in N, b \in l.sibs}, l.par)
  /\ UNCHANGED <<order, lastOid, book, due, ctl>>

-----------------------------------------------------------------------------
(* executeFill, under the user's lock, and cancelOrderSiblings.            *)

FillLock(p) ==
  /\ pc[p] = "fill" /\ lock = NoProc
  /\ lock' = p
  /\ Goto(p, "locked")
  /\ UNCHANGED <<order, lastOid, book, due, links, isRunning, ops, crashes, cur, loc, hist>>

\* Variant: the lock is not released.
FillReturnKeepsLock(p) ==
  /\ UNCHANGED ctl
  /\ IF p \in Reqs
     THEN Answer(p, cur[p], FALSE)
     ELSE /\ Goto(p, IF loc[p].phase = "limit" THEN "open" ELSE "unindex")
          /\ Hold(p, IF loc[p].phase = "limit" THEN NoOid ELSE cur[p])
          /\ Keep(p, [loc[p] EXCEPT !.sibs = {}, !.par = NoOid])

\* executeFill returns to its caller: a placement reports the order filled
\* whether or not it was; the matcher goes on with its phase.
FillReturn(p) ==
  /\ lock' = NoProc
  /\ UNCHANGED <<isRunning, ops, crashes>>
  /\ IF p \in Reqs
     THEN Answer(p, cur[p], FALSE)
     ELSE /\ Goto(p, IF loc[p].phase = "limit" THEN "open" ELSE "unindex")
          /\ Hold(p, IF loc[p].phase = "limit" THEN NoOid ELSE cur[p])
          /\ Keep(p, [loc[p] EXCEPT !.sibs = {}, !.par = NoOid])

\* A reduce-only order with nothing to reduce is left as it is.
FillSkip(p) ==
  /\ pc[p] = "locked" /\ order[cur[p]].reduceOnly
  /\ FillReturn(p)
  /\ UNCHANGED <<order, lastOid, book, due, links, hist>>

\* The fill pipeline.  The order was read before the lock and is not read
\* again: its status now plays no part.
FillWrite(p) ==
  LET o == cur[p] IN
  /\ pc[p] = "locked"
  /\ SetStatus({o}, "filled")
  /\ ordersOpen' = ordersOpen \ {o}
  /\ ordersTriggers' = ordersTriggers \ {o}
  /\ fills' = [fills EXCEPT ![o] = @ + 1]
  /\ Goto(p, "sibChildren")
  /\ UNCHANGED <<lastOid, ordersExpiry, userOrders, due, links, ctl, cur, loc,
                 explicit, finalCancel, interrupted, oco, under, entryOf>>

SibChildren(p) ==
  LET o == cur[p] IN
  /\ pc[p] = "sibChildren"
  /\ Keep(p, [loc[p] EXCEPT !.sibs = children[o]])
  /\ Goto(p, IF children[o] # {} THEN "sibUnparent" ELSE "sibBracket")
  /\ UNCHANGED <<order, lastOid, book, due, links, ctl, cur, hist>>

\* A filled entry: its children stay and lose their parent pointer.
SibUnparent(p) ==
  /\ pc[p] = "sibUnparent"
  /\ children' = Unlink(children, {cur[p]})
  /\ parent' = Unparent(loc[p].sibs)
  /\ FillReturn(p)
  /\ UNCHANGED <<order, lastOid, book, due, bracket, hist>>

\* A filled leg reads its siblings; with none it only drops its parent.
SibBracket(p) ==
  LET o == cur[p] IN
  /\ pc[p] = "sibBracket"
  /\ IF bracket[o] = {}
     THEN /\ parent' = Unparent({o})
          /\ FillReturn(p)
     ELSE /\ Keep(p, [loc[p] EXCEPT !.sibs = bracket[o]])
          /\ Goto(p, "sibUnlink")
          /\ UNCHANGED <<parent, ctl, cur>>
  /\ UNCHANGED <<order, lastOid, book, due, children, bracket, hist>>

SibUnlink(p) ==
  LET o == cur[p] IN
  /\ pc[p] = "sibUnlink"
  /\ Keep(p, [loc[p] EXCEPT !.par = parent[o]])
  /\ bracket' = Unlink(bracket, {o})
  /\ parent' = Unparent({o})
  /\ children' = [q \in Oids |-> IF q = parent[o] THEN children[q] \ {o} ELSE children[q]]
  /\ Goto(p, "sibNext")
  /\ UNCHANGED <<order, lastOid, book, due, ctl, cur, hist>>

SibRead(p, s) ==
  /\ pc[p] = "sibNext" /\ s \in loc[p].sibs
  /\ Keep(p, [loc[p] EXCEPT !.sibs = @ \ {s},
                            !.kids = IF order[s].status = "open" THEN {s} ELSE {}])
  /\ Goto(p, IF order[s].status = "open" THEN "sibCancel" ELSE "sibNext")
  /\ UNCHANGED <<order, lastOid, book, due, links, ctl, cur, hist>>

\* The sibling's pipeline leaves orders:expiry alone.
SibCancel(p) ==
  LET S == loc[p].kids IN
  /\ pc[p] = "sibCancel"
  /\ SetStatus(S, "cancelled")
  /\ ordersOpen' = ordersOpen \ S
  /\ ordersTriggers' = ordersTriggers \ S
  /\ bracket' = Unlink(bracket, S)
  /\ parent' = Unparent(S)
  /\ children' = [q \in Oids |-> IF q = loc[p].par THEN children[q] \ S ELSE children[q]]
  /\ Keep(p, [loc[p] EXCEPT !.kids = {}])
  /\ Goto(p, "sibNext")
  /\ RecordCancel(S, FALSE)
  /\ UNCHANGED <<lastOid, ordersExpiry, userOrders, due, ctl, cur>>

SibDone(p) ==
  /\ pc[p] = "sibNext" /\ loc[p].sibs = {}
  /\ FillReturn(p)
  /\ UNCHANGED <<order, lastOid, book, due, links, hist>>

-----------------------------------------------------------------------------
(* OrderMatcher.matchAll: limit orders, then triggers, then expiries.  The *)
(* trailing-stop and TWAP phases between them touch other orders only.     *)

\* Variant: no concurrency guard.
MatchAllUnguarded(m) ==
  /\ pc[m] = "idle"
  /\ isRunning' = TRUE
  /\ Goto(m, "open")
  /\ Keep(m, [loc[m] EXCEPT !.todo = ordersOpen, !.phase = "limit"])
  /\ UNCHANGED <<order, lastOid, book, due, links, lock, ops, crashes, cur, hist>>

\* A price tick starts a pass unless one is running.
MatchAll(m) ==
  /\ pc[m] = "idle" /\ ~isRunning
  /\ isRunning' = TRUE
  /\ Goto(m, "open")
  /\ Keep(m, [loc[m] EXCEPT !.todo = ordersOpen, !.phase = "limit"])
  /\ UNCHANGED <<order, lastOid, book, due, links, lock, ops, crashes, cur, hist>>

\* Variant: the order's status is not looked at.
MatchOpenOrderAnyStatus(m, o, crosses) ==
  /\ pc[m] = "open" /\ o \in loc[m].todo
  /\ Keep(m, [loc[m] EXCEPT !.todo = @ \ {o}])
  /\ IF crosses THEN Goto(m, "fill") /\ Hold(m, o) ELSE UNCHANGED <<pc, cur>>
  /\ UNCHANGED <<order, lastOid, book, due, links, ctl, hist>>

\* Variant: an order that is not open stays in orders:open.
MatchOpenOrderKeepsDead(m, o, crosses) ==
  /\ pc[m] = "open" /\ o \in loc[m].todo
  /\ Keep(m, [loc[m] EXCEPT !.todo = @ \ {o}])
  /\ IF order[o].status = "open" /\ crosses
     THEN Goto(m, "fill") /\ Hold(m, o)
     ELSE UNCHANGED <<pc, cur>>
  /\ UNCHANGED <<order, lastOid, book, due, links, ctl, hist>>

\* Variant: every visited order is taken off orders:open.
MatchOpenOrderDrops(m, o, crosses) ==
  /\ pc[m] = "open" /\ o \in loc[m].todo
  /\ Keep(m, [loc[m] EXCEPT !.todo = @ \ {o}])
  /\ IF order[o].status = "open" /\ crosses
     THEN Goto(m, "fill") /\ Hold(m, o)
     ELSE UNCHANGED <<pc, cur>>
  /\ ordersOpen' = ordersOpen \ {o}
  /\ UNCHANGED <<order, lastOid, ordersTriggers, ordersExpiry, userOrders, due,
                 links, ctl, hist>>

MatchOpenOrder(m, o, crosses) ==
  /\ pc[m] = "open" /\ o \in loc[m].todo
  /\ Keep(m, [loc[m] EXCEPT !.todo = @ \ {o}])
  /\ IF order[o].status = "open" /\ crosses
     THEN Goto(m, "fill") /\ Hold(m, o)
     ELSE UNCHANGED <<pc, cur>>
  /\ ordersOpen' = IF order[o].status = "open" THEN ordersOpen ELSE ordersOpen \ {o}
  /\ UNCHANGED <<order, lastOid, ordersTriggers, ordersExpiry, userOrders, due,
                 links, ctl, hist>>

MatchTriggers(m) ==
  /\ pc[m] = "open" /\ loc[m].todo = {}
  /\ Goto(m, "trig")
  /\ Keep(m, [loc[m] EXCEPT !.todo = ordersTriggers, !.phase = "trigger"])
  /\ UNCHANGED <<order, lastOid, book, due, links, ctl, cur, hist>>

MatchTriggerOrder(m, o) ==
  /\ pc[m] = "trig" /\ o \in loc[m].todo
  /\ Keep(m, [loc[m] EXCEPT !.todo = @ \ {o}])
  /\ IF order[o].status = "open"
     THEN Goto(m, "parent") /\ Hold(m, o) /\ UNCHANGED ordersTriggers
     ELSE ordersTriggers' = ordersTriggers \ {o} /\ UNCHANGED <<pc, cur>>
  /\ UNCHANGED <<order, lastOid, ordersOpen, ordersExpiry, userOrders, due,
                 links, ctl, hist>>

ReadParent(m) ==
  /\ pc[m] = "parent"
  /\ Keep(m, [loc[m] EXCEPT !.par = parent[cur[m]]])
  /\ Goto(m, "check")
  /\ UNCHANGED <<order, lastOid, book, due, links, ctl, cur, hist>>

\* Variant: legs never sleep.
DormantNever(par) == FALSE

\* A leg whose parent is still open sleeps.
Dormant(par) == par # NoOid /\ order[par].status = "open"

CheckTrigger(m, triggered) ==
  /\ pc[m] = "check"
  /\ Keep(m, [loc[m] EXCEPT !.par = NoOid])
  /\ IF triggered /\ ~Dormant(loc[m].par)
     THEN Goto(m, "fill") /\ UNCHANGED cur
     ELSE Goto(m, "trig") /\ Hold(m, NoOid)
  /\ UNCHANGED <<order, lastOid, book, due, links, ctl, hist>>

\* After executeFill the trigger leaves orders:triggers, filled or not.
Unindex(m) ==
  /\ pc[m] = "unindex"
  /\ ordersTriggers' = ordersTriggers \ {cur[m]}
  /\ Goto(m, "trig") /\ Hold(m, NoOid)
  /\ UNCHANGED <<order, lastOid, ordersOpen, ordersExpiry, userOrders, due,
                 links, ctl, loc, hist>>

SweepExpired(m) ==
  /\ pc[m] = "trig" /\ loc[m].todo = {}
  /\ Goto(m, "sweep")
  /\ Keep(m, [loc[m] EXCEPT !.todo = ordersExpiry \cap due])
  /\ UNCHANGED <<order, lastOid, book, due, links, ctl, cur, hist>>

SweepRead(m, o) ==
  /\ pc[m] = "sweep" /\ o \in loc[m].todo
  /\ Keep(m, [loc[m] EXCEPT !.todo = @ \ {o}])
  /\ ordersExpiry' = ordersExpiry \ {o}
  /\ IF order[o].status = "open"
     THEN Goto(m, "sweepCancel") /\ Hold(m, o)
     ELSE UNCHANGED <<pc, cur>>
  /\ UNCHANGED <<order, lastOid, ordersOpen, ordersTriggers, userOrders, due,
                 links, ctl, hist>>

\* The expired order is cancelled; its bracket links are left as they are.
SweepCancel(m) ==
  LET o == cur[m] IN
  /\ pc[m] = "sweepCancel"
  /\ SetStatus({o}, "cancelled")
  /\ ordersOpen' = ordersOpen \ {o}
  /\ ordersTriggers' = ordersTriggers \ {o}
  /\ Goto(m, "sweep") /\ Hold(m, NoOid)
  /\ RecordCancel({o}, TRUE)
  /\ UNCHANGED <<lastOid, ordersExpiry, userOrders, due, links, ctl, loc>>

\* Variant: isRunning is not reset.
EndPassKeepsRunning(m) ==
  /\ pc[m] = "sweep" /\ loc[m].todo = {}
  /\ Finish(m)
  /\ UNCHANGED <<order, lastOid, book, due, links, ctl, hist>>

EndPass(m) ==
  /\ pc[m] = "sweep" /\ loc[m].todo = {}
  /\ isRunning' = FALSE
  /\ Finish(m)
  /\ UNCHANGED <<order, lastOid, book, due, links, lock, ops, crashes, hist>>

\* An order's expiresAfter passes.
Deadline(o) ==
  /\ o \in ordersExpiry \ due
  /\ due' = due \cup {o}
  /\ UNCHANGED <<order, lastOid, book, links, ctl, pc, cur, loc, hist>>

-----------------------------------------------------------------------------
(* ScheduleCancelWorker.tick for a user whose deadline has passed, and     *)
(* the resetAccount route.                                                 *)

ScheduledCancel(r) ==
  /\ StartCall(r)
  /\ Goto(r, "tick")
  /\ Keep(r, [loc[r] EXCEPT !.todo = userOrders])
  /\ UNCHANGED <<order, lastOid, book, due, links, cur, hist>>

TickRead(r, o) ==
  /\ pc[r] = "tick" /\ o \in loc[r].todo
  /\ Keep(r, [loc[r] EXCEPT !.todo = @ \ {o},
                            !.kids = IF order[o].status = "open" THEN @ \cup {o} ELSE @])
  /\ UNCHANGED <<order, lastOid, book, due, links, ctl, pc, cur, hist>>

\* One pipeline cancels every order that was open when it was read.
TickWrite(r) ==
  LET S == loc[r].kids IN
  /\ pc[r] = "tick" /\ loc[r].todo = {}
  /\ SetStatus(S, "cancelled")
  /\ ordersOpen' = ordersOpen \ S
  /\ ordersTriggers' = ordersTriggers \ S
  /\ ordersExpiry' = ordersExpiry \ S
  /\ Finish(r)
  /\ RecordCancel(S, TRUE)
  /\ UNCHANGED <<lastOid, userOrders, due, links, ctl>>

ResetAccount(r) ==
  /\ StartCall(r)
  /\ Goto(r, "reset")
  /\ Keep(r, [loc[r] EXCEPT !.todo = userOrders])
  /\ UNCHANGED <<order, lastOid, book, due, links, cur, hist>>

\* Every listed order, open or not, is marked cancelled; the list goes.
ResetWrite(r) ==
  LET S == loc[r].todo IN
  /\ pc[r] = "reset"
  /\ SetStatus(S, "cancelled")
  /\ ordersOpen' = ordersOpen \ S
  /\ ordersTriggers' = ordersTriggers \ S
  /\ userOrders' = {}
  /\ Finish(r)
  /\ RecordCancel(S, TRUE)
  /\ UNCHANGED <<lastOid, ordersExpiry, due, links, ctl>>

-----------------------------------------------------------------------------
\* The process exits and starts again: calls end where they are.
StopCalls ==
  /\ crashes < MaxCrashes
  /\ crashes' = crashes + 1
  /\ isRunning' = FALSE /\ lock' = NoProc
  /\ pc' = [p \in Procs |-> "idle"]
  /\ cur' = [p \in Procs |-> NoOid]
  /\ loc' = [p \in Procs |-> Blank]
  /\ interrupted' = interrupted \cup {cur[p] : p \in {q \in Procs : pc[q] \in Siblings}}
  /\ UNCHANGED <<order, book, due, links, ops, fills, explicit, finalCancel, oco, under, entryOf>>

\* seq:oid is in Redis and survives.
Restart == StopCalls /\ UNCHANGED lastOid

-----------------------------------------------------------------------------
Place(r) ==
  \/ \E b \in Batches : PlaceOrders(r, b)
  \/ RejectOrder(r)
  \/ \E crosses \in BOOLEAN : NextOid(r, crosses)
  \/ SaveOrder(r) \/ RestOrder(r) \/ RestTrigger(r) \/ ListTrigger(r)
  \/ LinkBracket(r)

Cancel(r) ==
  \/ \E o \in Oids : CancelOrder(r, o) \/ CascadeChild(r, o) \/ CancelNext(r, o)
  \/ CancelWrite(r) \/ Cascade(r) \/ CascadeUnlink(r) \/ CancelDone(r)

Modify(r) ==
  \/ \E o \in Oids, w \in Replacements : ModifyOrder(r, o, w)
  \/ ModifyWrite(r) \/ CarryRead(r) \/ CarryWrite(r)

Sweepers(r) ==
  \/ ScheduledCancel(r) \/ TickWrite(r) \/ ResetAccount(r) \/ ResetWrite(r)
  \/ \E o \in Oids : TickRead(r, o)

Fill(p) ==
  \/ FillLock(p) \/ FillSkip(p) \/ FillWrite(p)
  \/ SibChildren(p) \/ SibUnparent(p) \/ SibBracket(p) \/ SibUnlink(p)
  \/ \E s \in Oids : SibRead(p, s)
  \/ SibCancel(p) \/ SibDone(p)

Match(m) ==
  \/ MatchAll(m) \/ MatchTriggers(m) \/ ReadParent(m) \/ Unindex(m) \/ SweepExpired(m)
  \/ SweepCancel(m) \/ EndPass(m)
  \/ \E o \in Oids, crosses \in BOOLEAN : MatchOpenOrder(m, o, crosses)
  \/ \E o \in Oids : MatchTriggerOrder(m, o) \/ SweepRead(m, o)
  \/ \E triggered \in BOOLEAN : CheckTrigger(m, triggered)

Next ==
  \/ \E r \in Reqs : Place(r) \/ Cancel(r) \/ Modify(r) \/ Sweepers(r)
  \/ \E p \in Procs : Fill(p)
  \/ \E m \in Passes : Match(m)
  \/ \E o \in Oids : Deadline(o)
  \/ Restart

Spec == Init /\ [][Next]_vars

\* A step of a call that has started.
Working(r) == pc[r] # "idle" /\ (Place(r) \/ Cancel(r) \/ Modify(r) \/ Sweepers(r) \/ Fill(r))

(* Every await resolves, so a started call and a running pass go on; price *)
(* ticks and the 5 s true-up keep starting passes; the lock is first come, *)
(* first served, so a waiting fill gets it.  Nothing obliges a user to     *)
(* call, a deadline to pass or a restart to happen.                        *)
FairSpec ==
  /\ Spec
  /\ \A r \in Reqs : WF_vars(Working(r))
  /\ \A m \in Passes : WF_vars(Match(m) \/ Fill(m))
  /\ \A p \in Procs : SF_vars(FillLock(p))

-----------------------------------------------------------------------------
Order == [status : Statuses, kind : Kinds, reduceOnly : BOOLEAN]

(* Every variable keeps its shape.                                         *)
BookTypes ==
  /\ order \in [Oids -> Order]
  /\ lastOid \in 0..MaxOid
  /\ ordersOpen \subseteq Oids /\ ordersTriggers \subseteq Oids
  /\ ordersExpiry \subseteq Oids /\ userOrders \subseteq Oids /\ due \subseteq Oids
LinkTypes ==
  /\ children \in [Oids -> SUBSET Oids]
  /\ parent \in [Oids -> Oids \cup {NoOid}]
  /\ bracket \in [Oids -> SUBSET Oids]
CtlTypes ==
  /\ isRunning \in BOOLEAN /\ lock \in Procs \cup {NoProc}
  /\ ops \in 0..MaxOps /\ crashes \in 0..MaxCrashes
ProcTypes ==
  /\ pc \in [Procs -> Labels]
  /\ cur \in [Procs -> Oids \cup {NoOid}]
  /\ loc \in [Procs -> Local]
HistTypes ==
  /\ fills \in [Oids -> Nat]
  /\ explicit \subseteq Oids /\ finalCancel \subseteq Oids /\ interrupted \subseteq Oids
  /\ oco \subseteq SUBSET Oids
  /\ under \in [Oids -> Oids \cup {NoOid}]
  /\ entryOf \in [Oids -> Oids \cup {NoOid}]
TypeOK == BookTypes /\ LinkTypes /\ CtlTypes /\ ProcTypes /\ HistTypes

(* No order executes twice: the concurrency guard of matchAll and the fact *)
(* that a placement fills only the order it created keep two fills of one  *)
(* oid apart ("This prevents duplicate fills").                            *)
AtMostOneFill == \A o \in Oids : fills[o] <= 1

(* A cancel is final unless it races a fill already under way: an order    *)
(* cancelled (by cancelOrders, a modify, a sibling's fill, expiry, a       *)
(* scheduled cancel or a reset) while no process held it never fills.      *)
CancelIsFinal == \A o \in finalCancel : fills[o] = 0

(* An open limit order on the user's list is where matchOpenOrders looks.  *)
RestingLimitIndexed ==
  \A o \in userOrders :
    order[o].status = "open" /\ order[o].kind = "limit" => o \in ordersOpen

(* OCO: of two legs linked as siblings before either filled, both fill     *)
(* only if one of them or an entry they were linked to was cancelled       *)
(* explicitly (which drops the sibling links while a leg may still be in   *)
(* the matcher's hands, or before the leg itself is cancelled) or a        *)
(* restart came between a leg's fill and the cancel of its siblings.       *)
OneExitPerBracket ==
  \A x \in oco :
    (\A o \in x : fills[o] > 0)
      => (explicit \cap (x \cup {under[o] : o \in x})) \cup (interrupted \cap x) # {}

(* A trigger leg linked to an entry before the matcher took it in hand     *)
(* does not fill while that entry still rests, unless it was itself        *)
(* cancelled (which drops the pointer) in the middle of the matcher's read.*)
DormantWhileEntryRests ==
  \A o \in Oids \ explicit :
    order[o].kind = "trigger" /\ entryOf[o] # NoOid /\ fills[o] > 0
      => order[entryOf[o]].status # "open"

(* No call waits forever: every API call, tick and matcher pass ends,      *)
(* whoever holds the user's lock.                                          *)
CallsFinish == \A p \in Procs : pc[p] # "idle" ~> pc[p] = "idle"

(* sweepExpired reaches every order past its expiresAfter.                 *)
ExpiryHonoured ==
  \A o \in Oids : o \in due /\ order[o].status = "open" ~> order[o].status # "open"

(* An order that is no longer open leaves the sets the matcher scans for   *)
(* good, even when it was cancelled or swept before restOrder listed it.   *)
DeadOrdersUnindexed ==
  \A o \in Oids :
    order[o].status \in {"filled", "cancelled"}
      ~> [](o \notin ordersOpen \cup ordersTriggers)

-----------------------------------------------------------------------------
(* What comments and documents say of the code and the code does not do:   *)
(* TLC refutes each of these when it is checked in place of the above.     *)

(* "parent cancels -> cascade-cancel children (no entry = no bracket)":    *)
(* when nothing is running, no open leg points at a cancelled entry.       *)
NoEntryNoBracket ==
  (\A p \in Procs : pc[p] = "idle") =>
    \A o \in Oids : order[o].status = "open" /\ parent[o] # NoOid
                     => order[parent[o]].status # "cancelled"

(* "`open`: Resting on book, waiting for fill": when nothing is running,   *)
(* an open trigger order on the user's list is one the matcher looks at.   *)
OpenTriggerWatched ==
  (\A p \in Procs : pc[p] = "idle") =>
    \A o \in userOrders :
      order[o].status = "open" /\ order[o].kind = "trigger" => o \in ordersTriggers

(* "HL modify = atomic cancel-and-replace": once a modify has cancelled an *)
(* order, that order has not filled while the replacement is placed.       *)
ModifyReplaces ==
  \A r \in Reqs : loc[r].old # NoOid /\ pc[r] # "modify" => fills[loc[r].old] = 0

=============================================================================
