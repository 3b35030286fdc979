---------------------------- MODULE StakingProofs ----------------------------
(***************************************************************************)
(* The balances of the transfers and of the staking sweep follow the       *)
(* atomic ledger, and a user's staking events explain the staking summary, *)
(* for any wallets, sub-accounts, amounts, grain of rounding and number of *)
(* requests in flight, however many of one user.                           *)
(*                                                                         *)
(* No step writes money that the session did not put together itself, in   *)
(* commands that others run between. MoneyInv says what a session holds at *)
(* each stage: a seed to write is 0 or the default, a move about to be     *)
(* committed read a source that covered the amount and, when it credits, a *)
(* recipient that is a bucket; a balance about to be set is one an         *)
(* administrator may set. SweepInv says the same of the sweep: what it     *)
(* pays is what was withdrawn.                                             *)
(*                                                                         *)
(* StakeInv relates the places of a user's stake, the balance, the         *)
(* delegations and the queue, to what is told of them: the events, and     *)
(* those that a request or the sweep is about to append. Each place is     *)
(* apart from what is told by a gap, which a step leaves at 0 unless it    *)
(* slips: a write over a balance not seen, an entry that was there         *)
(* already, a delegation that was gone, a list that was cut or cut short.  *)
(* What a set of delegations, withdrawals, events or notes weighs is a sum *)
(* over the set; that adding or removing a member changes it by what the   *)
(* member weighs is shown by taking a smallest set for which it would not. *)
(***************************************************************************)
EXTENDS Staking, FiniteSetTheorems, WellFoundedInduction, TLAPS

Held == Int \cup {Missing}
Hash == [Accounts -> [Fields -> Held]]

Ensuring == {"exists", "pointer", "seed", "mirror", "dexSeed"}

Shape(c) ==
  c \in [stage : {c.stage}, plan : {c.plan}, who : {c.who}, todo : {c.todo},
         src : {c.src}, dst : {c.dst}, seed : {c.seed}]

MoveOk(p) ==
  /\ p.kind = "move" /\ p.amt \in Amounts
  /\ p.src \in Buckets /\ p.dst \in Buckets \cup {None}

\* What is still to be read of a move, and what was read.
ToRead(c) ==
  /\ MoveOk(c.plan) /\ c.src \in Int /\ c.dst \in Held
  /\ \/ c.todo = << {"src"} >>
     \/ /\ c.plan.dst \in Buckets
        /\ \/ c.todo \in {<< {"src", "dst"} >>, << {"src"}, {"dst"} >>, << {"dst"}, {"src"} >>}
           \/ c.todo = << {"dst"} >> /\ c.src >= c.plan.amt

Covered(c) == MoveOk(c.plan) /\ c.src \in Int /\ c.dst \in Held /\ c.src >= c.plan.amt

Named(u, p) == p.kind = "rename" \/ (p.kind = "create" /\ <<u, p.amt>> \in DOMAIN AddrOf)

\* A request that was dispatched and whose first command is still to come.
Planned(u, c) ==
  \/ c.plan.kind = "move" /\ ToRead(c)
  \/ c.plan.kind = "ack"
  \/ Named(u, c.plan)
  \/ c.plan.kind \in {"setBalance", "reset"} /\ c.plan.amt \in Levels

CallOk(u, c) ==
  /\ Shape(c)
  /\ c.stage \in Ensuring => c.who \in Accounts
  /\ c.stage = "seed" => c.seed \in {0, Default}
  /\ c.stage \in Ensuring \cup {"ready"} => c.src = 0 /\ c.dst = Missing
  /\ c.stage = "owner" => Planned(u, c)
  /\ c.stage = "read" => ToRead(c)
  /\ c.stage = "commit" => Covered(c)
  /\ c.stage \in {"names", "register"} => Named(u, c.plan)
  /\ c.stage \in {"prev", "put"} => c.plan.amt \in Levels

Calls(cl) == /\ cl = [u \in Users |-> cl[u]]
             /\ \A u \in Users : CallOk(u, cl[u])

MoneyInv == hash \in Hash /\ Calls(call)

-----------------------------------------------------------------------------
(* Buckets.                                                                *)

FundsOf(h) == [b \in Buckets |-> Balance(h[b[1]][b[2]])]
Wrote(h, b, v) == [h EXCEPT ![b[1]][b[2]] = v]

LEMMA FundsAre == Funds = FundsOf(hash) /\ Funds' = FundsOf(hash')
  BY DEF Funds, FundsOf, At

LEMMA BucketParts ==
  ASSUME NEW b \in Buckets
  PROVE  b[1] \in Accounts /\ b[2] \in Fields /\ b = <<b[1], b[2]>>
  BY DEF Buckets

LEMMA Missings == \A n \in Int : n # Missing /\ Balance(n) = n
  BY TransfersAssumption DEF Balance

LEMMA Balances == \A v \in Held : Balance(v) \in Int
  BY DEF Held, Balance

LEMMA WroteOne ==
  ASSUME NEW h \in Hash, NEW b \in Buckets, NEW v \in Int
  PROVE  /\ Wrote(h, b, v) \in Hash
         /\ FundsOf(Wrote(h, b, v)) = [FundsOf(h) EXCEPT ![b] = v]
<1> DEFINE w == Wrote(h, b, v)
<1>1. b[1] \in Accounts /\ b[2] \in Fields
  BY BucketParts
<1>2. w \in Hash
  BY <1>1 DEF Wrote, Hash, Held
<1>3. w[b[1]][b[2]] = v
  BY <1>1 DEF Wrote, Hash
<1>4. ASSUME NEW x \in Buckets, x # b
      PROVE  w[x[1]][x[2]] = h[x[1]][x[2]]
  <2>1. x[1] \in Accounts /\ x[2] \in Fields /\ (x[1] # b[1] \/ x[2] # b[2])
    BY <1>4, BucketParts
  <2> QED
    BY <1>1, <2>1 DEF Wrote, Hash
<1> HIDE DEF w
<1>5. \A x \in Buckets : Balance(w[x[1]][x[2]]) = IF x = b THEN v ELSE Balance(h[x[1]][x[2]])
  BY <1>3, <1>4, Missings
<1>6. FundsOf(w) = [FundsOf(h) EXCEPT ![b] = v]
  BY <1>5 DEF FundsOf
<1> QED
  BY <1>2, <1>6 DEF w

LEMMA FundsAt ==
  ASSUME NEW h \in Hash, NEW b \in Buckets
  PROVE  FundsOf(h)[b] = Balance(h[b[1]][b[2]]) /\ FundsOf(h)[b] \in Int
  BY BucketParts, Balances DEF FundsOf, Hash

-----------------------------------------------------------------------------
(* Sessions.                                                               *)

LEMMA Became ==
  ASSUME Calls(call), NEW u \in Users, NEW c, CallOk(u, c), Become(u, c)
  PROVE  Calls(call') /\ call'[u] = c
  BY DEF Calls, Become

LEMMA IdleOk == \A u : CallOk(u, Idle)
  BY DEF CallOk, Shape, Idle, Simple, Ensuring

LEMMA Returned ==
  ASSUME Calls(call), NEW u \in Users, Return(u)
  PROVE  Calls(call') /\ call'[u] = Idle
  BY Became, IdleOk DEF Return

\* A stage that says nothing of what the session holds.
LEMMA At0 ==
  ASSUME NEW u, NEW c, CallOk(u, c), NEW s \in {"rows", "done", "ready", "mirror", "pointer", "dexSeed"},
         s \in {"rows", "done"} \/ c.stage \in Ensuring, NEW e
  PROVE  CallOk(u, [c EXCEPT !.stage = s]) /\ CallOk(u, [c EXCEPT !.seed = e, !.stage = s])
<1> DEFINE d == [c EXCEPT !.stage = s]
           f == [c EXCEPT !.seed = e, !.stage = s]
<1>1. /\ Shape(d) /\ d.stage = s /\ d.who = c.who /\ d.src = c.src /\ d.dst = c.dst
      /\ Shape(f) /\ f.stage = s /\ f.who = c.who /\ f.src = c.src /\ f.dst = c.dst
  BY DEF CallOk, Shape
<1> HIDE DEF d, f
<1>2. s \in Ensuring \cup {"ready"} => c.who \in Accounts /\ c.src = 0 /\ c.dst = Missing
  BY DEF CallOk, Ensuring
<1>3. CallOk(u, d) /\ CallOk(u, f)
  BY <1>1, <1>2 DEF CallOk, Ensuring
<1> QED
  BY <1>3 DEF d, f

LEMMA Enters ==
  ASSUME NEW u, NEW c, Shape(c), Planned(u, c)
  PROVE  CallOk(u, [c EXCEPT !.stage = Entry[c.plan.kind]]) /\ CallOk(u, [c EXCEPT !.stage = "owner"])
<1> DEFINE d(s) == [c EXCEPT !.stage = s]
<1>1. \A s : /\ Shape(d(s)) /\ d(s).stage = s /\ d(s).plan = c.plan /\ d(s).todo = c.todo
             /\ d(s).src = c.src /\ d(s).dst = c.dst
  BY DEF Shape
<1> HIDE DEF d
<1>2. \A s : (Planned(u, d(s)) <=> Planned(u, c)) /\ (ToRead(d(s)) <=> ToRead(c))
  BY <1>1 DEF Planned, ToRead
<1>3. CallOk(u, d("owner"))
  BY <1>1, <1>2 DEF CallOk, Ensuring
<1>4. CASE c.plan.kind = "move"
  <2>1. Entry[c.plan.kind] = "read"
    BY <1>4 DEF Entry
  <2>2. ToRead(c)
    BY <1>4 DEF Planned, Named
  <2> QED
    BY <1>1, <1>2, <1>3, <2>1, <2>2 DEF CallOk, Ensuring, d
<1>5. CASE c.plan.kind = "ack"
  <2>1. Entry[c.plan.kind] = "done"
    BY <1>5 DEF Entry
  <2> QED
    BY <1>1, <1>3, <2>1 DEF CallOk, Ensuring, d
<1>6. CASE Named(u, c.plan)
  <2>1. Entry[c.plan.kind] = "names"
    BY <1>6 DEF Entry, Named
  <2> QED
    BY <1>1, <1>3, <1>6, <2>1 DEF CallOk, Ensuring, d
<1>7. CASE c.plan.kind \in {"setBalance", "reset"} /\ c.plan.amt \in Levels
  <2>1. Entry[c.plan.kind] \in {"prev", "put"}
    BY <1>7 DEF Entry
  <2> QED
    BY <1>1, <1>3, <1>7, <2>1 DEF CallOk, Ensuring, d
<1> QED
  BY <1>4, <1>5, <1>6, <1>7 DEF Planned

-----------------------------------------------------------------------------
(* Requests arrive and are dispatched.                                     *)

LEMMA BeginKept ==
  ASSUME MoneyInv, NEW u \in Users, NEW a \in Accounts, Begin(u, a)
  PROVE  MoneyInv' /\ UNCHANGED hash
<1> DEFINE c == [Idle EXCEPT !.stage = "exists", !.who = a]
<1>1. Become(u, c) /\ UNCHANGED hash
  BY DEF Begin, moneyVars
<1>2. CallOk(u, c)
  BY DEF CallOk, Shape, Idle, Simple, Ensuring
<1> HIDE DEF c
<1> QED
  BY <1>1, <1>2, Became DEF MoneyInv

\* The plan p may be served to u.
Servable(u, p) ==
  \/ /\ MoveOk(p)
     /\ \/ p.reads = << {"src"} >>
        \/ /\ p.dst \in Buckets
           /\ p.reads \in {<< {"src", "dst"} >>, << {"src"}, {"dst"} >>, << {"dst"}, {"src"} >>}
  \/ p.kind = "ack"
  \/ Named(u, p)
  \/ p.kind \in {"setBalance", "reset"} /\ p.amt \in Levels

LEMMA ServeKept ==
  ASSUME MoneyInv, NEW u \in Users, call[u].stage = "ready", NEW p, Servable(u, p), Serve(u, p)
  PROVE  MoneyInv' /\ UNCHANGED hash
<1> DEFINE c == call[u]
           d == [c EXCEPT !.plan = p, !.todo = p.reads]
           s == IF p.sub # None THEN "owner" ELSE Entry[p.kind]
           e == [c EXCEPT !.plan = p, !.todo = p.reads, !.stage = s]
<1>1. CallOk(u, c) /\ c.stage = "ready"
  BY DEF MoneyInv, Calls
<1>2. Become(u, e) /\ UNCHANGED hash
  BY DEF Serve, moneyVars
<1> HIDE DEF c, s
<1>3. Shape(c) /\ c.src = 0 /\ c.dst = Missing
  BY <1>1 DEF CallOk
<1>4. /\ Shape(d) /\ d.plan = p /\ d.todo = p.reads /\ d.src = 0 /\ d.dst = Missing
      /\ e = [d EXCEPT !.stage = s]
  BY <1>3 DEF Shape
<1> HIDE DEF d, e
<1>5. Planned(u, d)
  BY <1>4 DEF Servable, Planned, ToRead, Held, MoveOk
<1>6. CallOk(u, [d EXCEPT !.stage = Entry[d.plan.kind]]) /\ CallOk(u, [d EXCEPT !.stage = "owner"])
  BY <1>4, <1>5, Enters
<1>7. CallOk(u, e)
  BY <1>4, <1>6 DEF s
<1> QED
  BY <1>2, <1>7, Became DEF MoneyInv

LEMMA FieldsAre == /\ Users \subseteq Accounts /\ Subs \subseteq Accounts /\ Peers \subseteq Accounts
                   /\ Books \subseteq Fields /\ "perp" \in Fields /\ "vault" \in Fields /\ "spot" \in Fields
  BY TransfersAssumption DEF Accounts, Books, Fields

LEMMA Moved ==
  ASSUME NEW u, NEW src \in Buckets, NEW dst \in Buckets, NEW n \in Amounts, NEW sure, NEW sub, NEW rows
  PROVE  /\ Servable(u, Move(src, dst, n, SrcDst, sure, sub, rows))
         /\ Servable(u, Move(src, dst, n, << {"src", "dst"} >>, sure, sub, rows))
         /\ Servable(u, Move(src, dst, n, << {"dst"}, {"src"} >>, sure, sub, rows))
  BY DEF Servable, Move, MoveOk, SrcDst

LEMMA Spent ==
  ASSUME NEW u, NEW src \in Buckets, NEW n \in Amounts, NEW sure, NEW sub, NEW rows
  PROVE  Servable(u, Move(src, None, n, << {"src"} >>, sure, sub, rows))
  BY DEF Servable, Move, MoveOk

LEMMA Dispatched ==
  ASSUME NEW u \in Users, Dispatch(u)
  PROVE  \E p : Servable(u, p) /\ Serve(u, p)
<1> DEFINE Goal == \E p : Servable(u, p) /\ Serve(u, p)
<1>0. \A a \in Accounts, f \in Fields : <<a, f>> \in Buckets
  BY DEF Buckets
<1>1. ASSUME NEW n \in Amounts, NEW b \in BOOLEAN, Serve(u, usdClassTransfer(u, n, b))
      PROVE  Goal
  <2>1. Servable(u, usdClassTransfer(u, n, b))
    BY <1>0, FieldsAre, Moved DEF usdClassTransfer
  <2> QED
    BY <1>1, <2>1
<1>2. ASSUME NEW n \in Amounts, NEW a \in Peers, NEW b \in BOOLEAN, Serve(u, usdClassTransferSub(u, a, n, b))
      PROVE  Goal
  <2>1. Servable(u, usdClassTransferSub(u, a, n, b))
    BY <1>0, FieldsAre, Moved DEF usdClassTransferSub
  <2> QED
    BY <1>2, <2>1
<1>3. ASSUME NEW n \in Amounts, NEW d \in Peers, Serve(u, usdSend(u, d, n)) \/ Serve(u, spotSend(u, d, n))
      PROVE  Goal
  <2>1. Servable(u, usdSend(u, d, n)) /\ Servable(u, spotSend(u, d, n))
    BY <1>0, FieldsAre, Moved DEF usdSend, spotSend
  <2> QED
    BY <1>3, <2>1
<1>4. ASSUME NEW n \in Amounts, NEW d \in Peers, NEW sf \in Books, NEW df \in Books \cup {None},
             NEW from \in (Subs \cap Peers) \cup {None}, Serve(u, sendAsset(u, d, sf, df, n, from))
      PROVE  Goal
  <2> DEFINE payer == IF from = None THEN u ELSE from
  <2>1. <<payer, sf>> \in Buckets /\ (df # None => <<d, df>> \in Buckets)
    BY <1>0, FieldsAre
  <2> HIDE DEF payer
  <2>2. Servable(u, Move(<<payer, sf>>, None, n, << {"src"} >>, FALSE, None, FALSE))
    BY <2>1, Spent
  <2>3. df # None => Servable(u, Move(<<payer, sf>>, <<d, df>>, n, SrcDst, d = u, None, FALSE))
    BY <2>1, Moved
  <2>4. Servable(u, sendAsset(u, d, sf, df, n, from))
    BY <2>2, <2>3 DEF sendAsset, payer
  <2> QED
    BY <1>4, <2>4
<1>5. ASSUME NEW n \in Amounts, Serve(u, sendToEvmWithData(u, n))
      PROVE  Goal
  <2>1. Servable(u, sendToEvmWithData(u, n))
    BY <1>0, FieldsAre, Spent DEF sendToEvmWithData
  <2> QED
    BY <1>5, <2>1
<1>6. ASSUME NEW n \in Amounts, NEW a \in Subs \cap Peers, NEW d \in BOOLEAN, Serve(u, subAccountTransfer(u, a, n, d))
      PROVE  Goal
  <2>1. Servable(u, subAccountTransfer(u, a, n, d))
    BY <1>0, FieldsAre, Moved DEF subAccountTransfer
  <2> QED
    BY <1>6, <2>1
<1>7. ASSUME NEW n \in Amounts, NEW d \in BOOLEAN, Serve(u, vaultTransfer(u, n, d))
      PROVE  Goal
  <2>1. Servable(u, vaultTransfer(u, n, d))
    BY <1>0, FieldsAre, Moved DEF vaultTransfer
  <2> QED
    BY <1>7, <2>1
<1>8. ASSUME NEW a, Serve(u, subAccountSpotTransfer(a))
      PROVE  Goal
  BY <1>8 DEF subAccountSpotTransfer, Servable, Simple
<1>9. ASSUME NEW n \in {m \in Names : <<u, m>> \in DOMAIN AddrOf}, Serve(u, Simple("create", n, None))
      PROVE  Goal
  BY <1>9 DEF Servable, Named, Simple
<1>10. ASSUME NEW n, NEW a, Serve(u, Simple("rename", n, a))
       PROVE  Goal
  BY <1>10 DEF Servable, Named, Simple
<1>11. ASSUME NEW n \in Levels, Serve(u, Simple("setBalance", n, None)) \/ Serve(u, Simple("reset", Default, None))
       PROVE  Goal
  <2>1. Servable(u, Simple("setBalance", n, None)) /\ Servable(u, Simple("reset", Default, None))
    BY TransfersAssumption DEF Servable, Simple
  <2> QED
    BY <1>11, <2>1
<1> HIDE DEF Goal
<1> QED
  BY <1>1, <1>2, <1>3, <1>4, <1>5, <1>6, <1>7, <1>8, <1>9, <1>10, <1>11, TransfersAssumption DEF Dispatch, Goal

LEMMA DispatchKept ==
  ASSUME MoneyInv, NEW u \in Users, Dispatch(u)
  PROVE  MoneyInv' /\ UNCHANGED hash
  BY Dispatched, ServeKept DEF Dispatch

-----------------------------------------------------------------------------
(* The steps of a session.                                                 *)

\* What ImplementsLedger allows of a step.
Follows ==
  \/ UNCHANGED Funds
  \/ \E u \in Users : LostUpdate(u) \/ SelfCredit(u) \/ Reseed(u)
  \/ Ledger!Next

LEMMA Same == ASSUME UNCHANGED hash PROVE UNCHANGED Funds
  BY FundsAre

\* The steps that write no balance.
Quiet(u) ==
  \/ EnsureExists(u) \/ EnsurePointer(u) \/ EnsureMirror(u) \/ CheckOwner(u) \/ ReadBalances(u)
  \/ RecordRows(u) \/ CheckNames(u) \/ Register(u) \/ ReadPrevious(u) \/ Answer(u)

LEMMA ReadKept ==
  ASSUME MoneyInv, NEW u \in Users, ReadBalances(u)
  PROVE  Calls(call')
<1> DEFINE c == call[u]
           r == Head(c.todo)
           s == IF "src" \in r THEN Balance(At(c.plan.src)) ELSE c.src
           t == IF "dst" \in r THEN At(c.plan.dst) ELSE c.dst
           g == [c EXCEPT !.todo = Tail(@), !.src = s, !.dst = t]
           e == [g EXCEPT !.stage = IF g.todo = <<>> THEN "commit" ELSE "read"]
<1>1. CallOk(u, c) /\ c.stage = "read" /\ Shape(c) /\ ToRead(c)
  BY DEF MoneyInv, Calls, CallOk, ReadBalances
<1>2. Return(u) \/ (("src" \in r => g.src >= c.plan.amt) /\ Become(u, e))
  <2>1. g.src \in Int /\ c.plan.amt \in Int
    <3>1. Shape(g) /\ g.src = s
      BY <1>1 DEF Shape
    <3>2. c.plan.src \in Buckets /\ c.src \in Int /\ c.plan.amt \in Int
      BY <1>1, TransfersAssumption DEF ToRead, MoveOk
    <3>3. At(c.plan.src) \in Held
      BY <3>2, BucketParts DEF At, MoneyInv, Hash
    <3> QED
      BY <3>1, <3>2, <3>3, Balances
  <2> QED
    BY <2>1 DEF ReadBalances
<1>3. At(c.plan.src) \in Held /\ (c.plan.dst \in Buckets => At(c.plan.dst) \in Held)
  BY <1>1, BucketParts DEF At, MoneyInv, Hash, ToRead, MoveOk
<1>4. c.src \in Int /\ c.dst \in Held /\ MoveOk(c.plan)
  BY <1>1 DEF ToRead
<1>5. /\ Shape(g) /\ g.plan = c.plan /\ g.todo = Tail(c.todo) /\ g.src = s /\ g.dst = t
      /\ Shape(e) /\ e.plan = c.plan /\ e.todo = g.todo /\ e.src = s /\ e.dst = t
      /\ e.stage = IF g.todo = <<>> THEN "commit" ELSE "read"
  BY <1>1 DEF Shape
<1> HIDE DEF g, e
<1>6. CASE c.todo = << {"src"} >>
  <2>1. r = {"src"} /\ Tail(c.todo) = <<>>
    BY <1>6
  <2>2. s \in Int /\ t \in Held
    BY <1>3, <1>4, <2>1, Balances
  <2>3. s >= c.plan.amt => CallOk(u, e)
    BY <1>4, <1>5, <2>1, <2>2 DEF CallOk, Covered, Ensuring
  <2> QED
    BY <1>2, <1>5, <2>1, <2>3, Became, Returned DEF MoneyInv
<1>7. CASE c.todo = << {"src", "dst"} >> /\ c.plan.dst \in Buckets
  <2>1. r = {"src", "dst"} /\ Tail(c.todo) = <<>>
    BY <1>7
  <2>2. s \in Int /\ t \in Held
    BY <1>3, <1>4, <1>7, <2>1, Balances
  <2>3. s >= c.plan.amt => CallOk(u, e)
    BY <1>4, <1>5, <2>1, <2>2 DEF CallOk, Covered, Ensuring
  <2> QED
    BY <1>2, <1>5, <2>1, <2>3, Became, Returned DEF MoneyInv
<1>8. CASE c.todo = << {"src"}, {"dst"} >> /\ c.plan.dst \in Buckets
  <2>1. r = {"src"} /\ Tail(c.todo) = << {"dst"} >> /\ Tail(c.todo) # <<>>
    BY <1>8
  <2>2. s \in Int /\ t \in Held
    BY <1>3, <1>4, <1>8, <2>1, Balances
  <2>3. s >= c.plan.amt => CallOk(u, e)
    BY <1>4, <1>5, <1>8, <2>1, <2>2 DEF CallOk, ToRead, Ensuring
  <2> QED
    BY <1>2, <1>5, <2>1, <2>3, Became, Returned DEF MoneyInv
<1>9. CASE c.todo = << {"dst"}, {"src"} >> /\ c.plan.dst \in Buckets
  <2>1. r = {"dst"} /\ Tail(c.todo) = << {"src"} >> /\ Tail(c.todo) # <<>>
    BY <1>9
  <2>2. s \in Int /\ t \in Held
    BY <1>3, <1>4, <1>9, <2>1, Balances
  <2>3. CallOk(u, e)
    BY <1>4, <1>5, <1>9, <2>1, <2>2 DEF CallOk, ToRead, Ensuring
  <2> QED
    BY <1>2, <1>5, <2>1, <2>3, Became, Returned DEF MoneyInv
<1>10. CASE c.todo = << {"dst"} >> /\ c.plan.dst \in Buckets /\ c.src >= c.plan.amt
  <2>1. r = {"dst"} /\ Tail(c.todo) = <<>>
    BY <1>10
  <2>2. s \in Int /\ t \in Held /\ s = c.src
    BY <1>3, <1>4, <1>10, <2>1, Balances
  <2>3. CallOk(u, e)
    BY <1>4, <1>5, <1>10, <2>1, <2>2 DEF CallOk, Covered, Ensuring
  <2> QED
    BY <1>2, <1>5, <2>1, <2>3, Became, Returned DEF MoneyInv
<1> QED
  BY <1>1, <1>6, <1>7, <1>8, <1>9, <1>10 DEF ToRead

LEMMA QuietKept ==
  ASSUME MoneyInv, NEW u \in Users, Quiet(u)
  PROVE  MoneyInv' /\ UNCHANGED hash
<1>0. UNCHANGED hash
  BY DEF Quiet, EnsureExists, EnsurePointer, EnsureMirror, CheckOwner, ReadBalances, RecordRows,
         CheckNames, Register, ReadPrevious, Answer, moneyVars
<1> SUFFICES Calls(call')
  BY <1>0 DEF MoneyInv
<1> DEFINE c == call[u]
<1>1. Calls(call) /\ CallOk(u, c) /\ Shape(c)
  BY DEF MoneyInv, Calls, CallOk
<1>2. ASSUME NEW d, CallOk(u, d), Become(u, d)
      PROVE  Calls(call')
  BY <1>1, <1>2, Became
<1>3. ASSUME Return(u)
      PROVE  Calls(call')
  BY <1>1, <1>3, Returned
<1>4. CASE EnsureExists(u)
  <2>1. c.stage = "exists" /\ \E s \in {"mirror", "pointer"} : Become(u, [c EXCEPT !.stage = s])
    BY <1>4 DEF EnsureExists, Goto
  <2> QED
    BY <1>1, <1>2, <2>1, At0 DEF Ensuring
<1>5. CASE EnsurePointer(u)
  <2> DEFINE e == IF owner[c.who] # None THEN 0 ELSE Default
             d == [c EXCEPT !.stage = "seed", !.seed = e]
  <2>1. c.stage = "pointer" /\ Become(u, d)
    BY <1>5 DEF EnsurePointer
  <2>2. c.who \in Accounts /\ c.src = 0 /\ c.dst = Missing
    BY <1>1, <2>1 DEF CallOk, Ensuring
  <2> HIDE DEF c
  <2>3. /\ Shape(d) /\ d.stage = "seed" /\ d.seed = e /\ d.who = c.who /\ d.src = c.src /\ d.dst = c.dst
    BY <1>1 DEF Shape
  <2> HIDE DEF d
  <2>4. CallOk(u, d)
    BY <2>2, <2>3 DEF CallOk, Ensuring
  <2> QED
    BY <1>2, <2>1, <2>4
<1>6. CASE EnsureMirror(u)
  <2>1. c.stage = "mirror" /\ \E s \in {"dexSeed", "ready"} : Become(u, [c EXCEPT !.seed = None, !.stage = s])
    BY <1>6 DEF EnsureMirror
  <2> QED
    BY <1>1, <1>2, <2>1, At0 DEF Ensuring
<1>7. CASE CheckOwner(u)
  <2>1. c.stage = "owner" /\ (Return(u) \/ Become(u, [c EXCEPT !.stage = Entry[c.plan.kind]]))
    BY <1>7 DEF CheckOwner, Goto
  <2>2. Planned(u, c)
    BY <1>1, <2>1 DEF CallOk
  <2> QED
    BY <1>1, <1>2, <1>3, <2>1, <2>2, Enters
<1>8. CASE ReadBalances(u)
  BY <1>8, ReadKept
<1>9. CASE RecordRows(u) \/ Answer(u)
  BY <1>3, <1>9 DEF RecordRows, Answer
<1>10. CASE CheckNames(u)
  <2> DEFINE d == [c EXCEPT !.stage = "register"]
  <2>1. c.stage = "names" /\ (Return(u) \/ Become(u, d))
    BY <1>10 DEF CheckNames, Goto
  <2>2. Named(u, c.plan)
    BY <1>1, <2>1 DEF CallOk
  <2> HIDE DEF c
  <2>3. Shape(d) /\ d.stage = "register" /\ d.plan = c.plan
    BY <1>1 DEF Shape
  <2> HIDE DEF d
  <2>4. CallOk(u, d)
    BY <2>2, <2>3 DEF CallOk, Ensuring
  <2> QED
    BY <1>2, <1>3, <2>1, <2>4
<1>11. CASE Register(u)
  <2> DEFINE a == AddrOf[<<u, c.plan.amt>>]
             d == [Idle EXCEPT !.stage = "exists", !.who = a, !.plan = Simple("created", 0, None)]
  <2>1. /\ c.stage = "register"
        /\ Return(u) \/ (c.plan.kind # "rename" /\ Become(u, d))
    BY <1>11 DEF Register
  <2>2. c.plan.kind # "rename" => a \in Accounts
    BY <1>1, <2>1, TransfersAssumption DEF CallOk, Named, Accounts
  <2> HIDE DEF a
  <2>3. a \in Accounts => CallOk(u, d)
    BY DEF CallOk, Shape, Idle, Simple, Ensuring
  <2> QED
    BY <1>2, <1>3, <2>1, <2>2, <2>3
<1>12. CASE ReadPrevious(u)
  <2> DEFINE v == Balance(hash[u]["perp"])
             d == [c EXCEPT !.stage = "put", !.src = v]
  <2>1. c.stage = "prev" /\ Become(u, d)
    BY <1>12 DEF ReadPrevious
  <2>2. c.plan.amt \in Levels
    BY <1>1, <2>1 DEF CallOk
  <2> HIDE DEF c, v
  <2>3. Shape(d) /\ d.stage = "put" /\ d.plan = c.plan
    BY <1>1 DEF Shape
  <2> HIDE DEF d
  <2>4. CallOk(u, d)
    BY <2>2, <2>3 DEF CallOk, Ensuring
  <2> QED
    BY <1>2, <2>1, <2>4
<1> QED
  BY <1>4, <1>5, <1>6, <1>7, <1>8, <1>9, <1>10, <1>11, <1>12 DEF Quiet

-----------------------------------------------------------------------------
(* The steps that write balances.                                          *)

LEMMA FundsType ==
  ASSUME NEW h \in Hash
  PROVE  FundsOf(h) \in [Buckets -> Int]
  BY FundsAt DEF FundsOf

LEMMA Zeroed ==
  ASSUME NEW F \in [Buckets -> Int], NEW b \in Buckets, F[b] = 0
  PROVE  [F EXCEPT ![b] = 0] = F
  OBVIOUS

LEMMA SeedKept ==
  ASSUME MoneyInv, NEW u \in Users, EnsureSeed(u)
  PROVE  MoneyInv' /\ Follows
<1> DEFINE c == call[u]
           a == c.who
           p == <<a, "perp">>
           q == <<a, "spot">>
           F == FundsOf(hash)
           h == Wrote(hash, p, c.seed)
<1>1. /\ c.stage = "seed" /\ Become(u, [c EXCEPT !.stage = "mirror"])
      /\ hash' = [hash EXCEPT ![a] = [@ EXCEPT !["perp"] = c.seed, !["spot"] = 0]]
  BY DEF EnsureSeed, Goto
<1>2. hash \in Hash /\ CallOk(u, c) /\ Shape(c) /\ Calls(call)
  BY DEF MoneyInv, Calls, CallOk
<1>3. a \in Accounts /\ c.seed \in {0, Default}
  BY <1>1, <1>2 DEF CallOk, Ensuring
<1>4. CallOk(u, [c EXCEPT !.stage = "mirror"])
  BY <1>1, <1>2, At0 DEF Ensuring
<1>5. Calls(call') /\ call'[u] = [c EXCEPT !.stage = "mirror"]
  BY <1>1, <1>2, <1>4, Became
<1>6. call'[u] # call[u]
  BY <1>1, <1>2, <1>5 DEF Shape
<1> HIDE DEF c
<1>7. p \in Buckets /\ q \in Buckets /\ p # q /\ c.seed \in Int
  BY <1>3, TransfersAssumption DEF Buckets, Fields
<1>8. hash' = Wrote(h, q, 0)
  BY <1>1, <1>2, <1>3 DEF Wrote, Hash, Fields
<1> HIDE DEF p, q
<1>9. h \in Hash /\ FundsOf(h) = [F EXCEPT ![p] = c.seed]
  BY <1>2, <1>7, WroteOne
<1>10. hash' \in Hash /\ FundsOf(hash') = [FundsOf(h) EXCEPT ![q] = 0]
  <2> HIDE DEF h, F, a
  <2>1. Wrote(h, q, 0) \in Hash /\ FundsOf(Wrote(h, q, 0)) = [FundsOf(h) EXCEPT ![q] = 0]
    BY <1>7, <1>9, WroteOne
  <2> QED
    BY <1>8, <2>1
<1>11. MoneyInv'
  BY <1>5, <1>10 DEF MoneyInv
<1>12. CASE F[p] # 0 \/ F[q] # 0
  <2>1. Reseed(u)
    BY <1>1, <1>6, <1>12, FundsAre DEF Reseed, p, q, c
  <2> QED
    BY <1>11, <2>1 DEF Follows
<1>13. CASE F[p] = 0 /\ F[q] = 0
  <2>1. F \in [Buckets -> Int] /\ FundsOf(h) \in [Buckets -> Int] /\ FundsOf(h)[q] = 0
    BY <1>2, <1>7, <1>9, <1>13, FundsType
  <2> HIDE DEF F, h
  <2>2. FundsOf(hash') = [F EXCEPT ![p] = c.seed]
    BY <1>7, <1>9, <1>10, <2>1, Zeroed
  <2>3. CASE c.seed = 0
    <3>1. FundsOf(hash') = F
      BY <1>7, <1>13, <2>1, <2>2, <2>3, Zeroed
    <3> QED
      BY <1>11, <3>1, FundsAre DEF Follows, F
  <2>4. CASE c.seed = Default
    <3>1. Ledger!Open(a)
      BY <1>13, <2>2, <2>4, FundsAre DEF Ledger!Open, Ledger!Put, F, p
    <3> QED
      BY <1>3, <1>11, <3>1 DEF Follows, Ledger!Next
  <2> QED
    BY <1>3, <2>3, <2>4
<1> QED
  BY <1>12, <1>13

LEMMA DexSeedKept ==
  ASSUME MoneyInv, NEW u \in Users, EnsureDexSeed(u)
  PROVE  MoneyInv' /\ Follows
<1> DEFINE c == call[u]
           a == c.who
           q == <<a, "dex">>
           F == FundsOf(hash)
<1>1. /\ c.stage = "dexSeed" /\ Become(u, [c EXCEPT !.stage = "ready"])
      /\ hash' = [hash EXCEPT ![a] = [@ EXCEPT !["dex"] = 0]]
  BY DEF EnsureDexSeed, Goto
<1>2. hash \in Hash /\ CallOk(u, c) /\ Shape(c) /\ Calls(call)
  BY DEF MoneyInv, Calls, CallOk
<1>3. a \in Accounts
  BY <1>1, <1>2 DEF CallOk, Ensuring
<1>4. CallOk(u, [c EXCEPT !.stage = "ready"])
  BY <1>1, <1>2, At0 DEF Ensuring
<1>5. Calls(call') /\ call'[u] = [c EXCEPT !.stage = "ready"]
  BY <1>1, <1>2, <1>4, Became
<1>6. call'[u] # call[u]
  BY <1>1, <1>2, <1>5 DEF Shape
<1> HIDE DEF c
<1>7. q \in Buckets
  BY <1>3 DEF Buckets, Fields
<1>8. hash' = Wrote(hash, q, 0)
  BY <1>1, <1>2, <1>3 DEF Wrote, Hash, Fields
<1> HIDE DEF q
<1>9. hash' \in Hash /\ FundsOf(hash') = [F EXCEPT ![q] = 0]
  BY <1>2, <1>7, <1>8, WroteOne
<1>10. MoneyInv'
  BY <1>5, <1>9 DEF MoneyInv
<1>11. CASE F[q] # 0
  <2>1. Reseed(u)
    BY <1>1, <1>6, <1>11, FundsAre DEF Reseed, q, c
  <2> QED
    BY <1>10, <2>1 DEF Follows
<1>12. CASE F[q] = 0
  <2>1. F \in [Buckets -> Int]
    BY <1>2, FundsType
  <2> HIDE DEF F
  <2>2. FundsOf(hash') = F
    BY <1>7, <1>9, <1>12, <2>1, Zeroed
  <2> QED
    BY <1>10, <2>2, FundsAre DEF Follows, F
<1> QED
  BY <1>11, <1>12

LEMMA PutKept ==
  ASSUME MoneyInv, NEW u \in Users, PutBalance(u)
  PROVE  MoneyInv' /\ Follows
<1> DEFINE n == call[u].plan.amt
           q == <<u, "perp">>
<1>1. call[u].stage = "put" /\ Return(u) /\ hash' = [hash EXCEPT ![u]["perp"] = n]
  BY DEF PutBalance
<1>2. hash \in Hash /\ CallOk(u, call[u]) /\ Calls(call)
  BY DEF MoneyInv, Calls
<1>3. n \in Levels /\ n \in Int
  BY <1>1, <1>2, TransfersAssumption DEF CallOk
<1>4. u \in Accounts /\ q \in Buckets
  BY FieldsAre DEF Buckets
<1> HIDE DEF n
<1>5. hash' = Wrote(hash, q, n)
  BY <1>1 DEF Wrote
<1> HIDE DEF q
<1>6. hash' \in Hash /\ FundsOf(hash') = [FundsOf(hash) EXCEPT ![q] = n]
  BY <1>2, <1>3, <1>4, <1>5, WroteOne
<1>7. Ledger!Set(u, n)
  BY <1>6, FundsAre DEF Ledger!Set, Ledger!Put, q
<1> QED
  BY <1>1, <1>2, <1>3, <1>4, <1>6, <1>7, Returned DEF MoneyInv, Follows, Ledger!Next

LEMMA FillKept ==
  ASSUME MoneyInv, NEW a \in Accounts, NEW n \in Results, Fill(a, n)
  PROVE  MoneyInv' /\ Follows
<1> DEFINE q == <<a, "perp">>
           F == FundsOf(hash)
<1>1. hash[a]["perp"] # Missing /\ hash' = [hash EXCEPT ![a]["perp"] = @ + n] /\ UNCHANGED call
  BY DEF Fill
<1>2. hash \in Hash /\ Calls(call) /\ n \in Int
  BY TransfersAssumption DEF MoneyInv
<1>3. q \in Buckets /\ hash[a]["perp"] \in Int
  BY <1>1, <1>2, FieldsAre DEF Buckets, Hash, Held
<1>4. F[q] = hash[a]["perp"]
  BY <1>2, <1>3, FundsAt, Missings
<1>5. hash' = Wrote(hash, q, F[q] + n) /\ F[q] + n \in Int
  BY <1>1, <1>2, <1>3, <1>4 DEF Wrote, Hash
<1> HIDE DEF q
<1>6. hash' \in Hash /\ FundsOf(hash') = [F EXCEPT ![q] = F[q] + n]
  BY <1>2, <1>3, <1>5, WroteOne
<1>7. Ledger!Earn(a, n)
  BY <1>6, FundsAre DEF Ledger!Earn, Ledger!Put, q
<1> QED
  BY <1>1, <1>2, <1>6, <1>7 DEF MoneyInv, Follows, Ledger!Next

LEMMA Rounds ==
  ASSUME NEW n \in Int, NEW m \in ToFixed(n)
  PROVE  m \in Int /\ m \in Ledger!Near(n)
  BY TransfersAssumption DEF ToFixed, Ledger!Near

LEMMA Transferred ==
  ASSUME NEW F \in [Buckets -> Int], NEW b \in Buckets, NEW c \in Buckets, b # c,
         NEW x \in Int, NEW y \in Int, NEW G, G = [[F EXCEPT ![b] = x] EXCEPT ![c] = y]
  PROVE  G[b] = x /\ G[c] = y /\ G = [F EXCEPT ![b] = G[b], ![c] = G[c]]
  OBVIOUS

LEMMA CommitKept ==
  ASSUME MoneyInv, NEW u \in Users, Commit(u)
  PROVE  MoneyInv' /\ Follows
<1> DEFINE c == call[u]
           p == c.plan
           F == FundsOf(hash)
           left == c.src - p.amt
           got == Balance(c.dst) + p.amt
<1>1. c.stage = "commit" /\ (Return(u) \/ Become(u, [c EXCEPT !.stage = "rows"]))
  BY DEF Commit, Goto
<1>2. hash \in Hash /\ CallOk(u, c) /\ Shape(c) /\ Calls(call)
  BY DEF MoneyInv, Calls, CallOk
<1>3. /\ p.src \in Buckets /\ p.dst \in Buckets \cup {None} /\ p.amt \in Amounts
      /\ c.src \in Int /\ c.dst \in Held /\ c.src >= p.amt
  BY <1>1, <1>2 DEF CallOk, Covered, MoveOk
<1>4. CallOk(u, [c EXCEPT !.stage = "rows"])
  BY <1>2, At0
<1>5. Calls(call') /\ call'[u] # c
  <2>1. CASE Return(u)
    <3>1. Calls(call') /\ call'[u].stage = "idle"
      BY <1>2, <2>1, Returned DEF Idle
    <3> QED
      BY <1>1, <3>1
  <2>2. CASE Become(u, [c EXCEPT !.stage = "rows"])
    <3>1. Calls(call') /\ call'[u] = [c EXCEPT !.stage = "rows"]
      BY <1>2, <1>4, <2>2, Became
    <3> QED
      BY <1>1, <1>2, <3>1 DEF Shape
  <2> QED
    BY <1>1, <2>1, <2>2
<1>6. p.amt \in Nat /\ left \in Int /\ got \in Int /\ Balance(c.dst) \in Int
  BY <1>3, TransfersAssumption, Balances
<1>7. PICK x \in ToFixed(left) :
        IF Credits(c) THEN \E y \in ToFixed(got) : hash' = Wrote(Wrote(hash, p.src, x), p.dst, y)
        ELSE hash' = Wrote(hash, p.src, x)
  BY DEF Commit, Wrote
<1> DEFINE h == Wrote(hash, p.src, x)
<1>8. x \in Int /\ x \in Ledger!Near(left)
  BY <1>6, Rounds
<1>9. h \in Hash /\ FundsOf(h) = [F EXCEPT ![p.src] = x]
  BY <1>2, <1>3, <1>8, WroteOne
<1>10. Credits(c) => p.dst \in Buckets
  BY <1>3 DEF Credits
<1>11. F \in [Buckets -> Int]
  BY <1>2, FundsType
<1>12. CASE ~Credits(c)
  <2>1. hash' = h
    BY <1>7, <1>12
  <2> HIDE DEF h, F, p, c
  <2>2. MoneyInv'
    BY <1>5, <1>9, <2>1 DEF MoneyInv
  <2>3. CASE F[p.src] # c.src
    <3>1. LostUpdate(u)
      BY <1>1, <1>5, <2>3, FundsAre DEF LostUpdate, F, c, p
    <3> QED
      BY <2>2, <3>1 DEF Follows
  <2>4. CASE F[p.src] = c.src
    <3>1. FundsOf(hash') = [F EXCEPT ![p.src] = x]
      BY <1>9, <2>1
    <3>2. FundsOf(hash')[p.src] = x
      BY <1>3, <1>11, <3>1
    <3>3. Ledger!Spend(p.src, p.amt)
      BY <1>3, <1>8, <2>4, <3>1, <3>2, FundsAre DEF Ledger!Spend, Ledger!Put, F
    <3> QED
      BY <1>3, <2>2, <3>3 DEF Follows, Ledger!Next, Ledger!Buckets, Buckets
  <2> QED
    BY <2>3, <2>4
<1>13. CASE Credits(c)
  <2>1. PICK y \in ToFixed(got) : hash' = Wrote(h, p.dst, y)
    BY <1>7, <1>13
  <2>2. y \in Int /\ y \in Ledger!Near(got)
    BY <1>6, Rounds
  <2>3. p.dst \in Buckets
    BY <1>10, <1>13
  <2> DEFINE b == p.src
             d == p.dst
             n == p.amt
             G == FundsOf(hash')
  <2> HIDE DEF h, F, p, c, left, got
  <2>4. hash' \in Hash /\ G = [FundsOf(h) EXCEPT ![d] = y]
    <3>1. hash' = Wrote(h, d, y) /\ d \in Buckets /\ h \in Hash
      BY <1>9, <2>1, <2>3
    <3> HIDE DEF d
    <3> QED
      BY <2>2, <3>1, WroteOne
  <2>5. MoneyInv'
    BY <1>5, <2>4 DEF MoneyInv
  <2>6. CASE F[b] # c.src \/ F[d] # Balance(c.dst)
    <3>1. LostUpdate(u)
      BY <1>1, <1>5, <1>13, <2>6, FundsAre DEF LostUpdate, F, c, p
    <3> QED
      BY <2>5, <3>1 DEF Follows
  <2>7. CASE b = d
    <3>1. SelfCredit(u)
      BY <1>1, <1>5, <2>7 DEF SelfCredit, c, p
    <3> QED
      BY <2>5, <3>1 DEF Follows
  <2>8. CASE F[b] = c.src /\ F[d] = Balance(c.dst) /\ b # d
    <3>1. b \in Buckets /\ d \in Buckets /\ F[b] >= n /\ n \in Amounts
      BY <1>3, <2>3, <2>8
    <3>2. x \in Ledger!Near(F[b] - n) /\ y \in Ledger!Near(F[d] + n)
      BY <1>8, <2>2, <2>8 DEF left, got
    <3>3. G = [[F EXCEPT ![b] = x] EXCEPT ![d] = y]
      BY <1>9, <2>4
    <3> HIDE DEF b, d, G
    <3>4. G[b] = x /\ G[d] = y /\ G = [F EXCEPT ![b] = G[b], ![d] = G[d]]
      BY <1>8, <1>11, <2>2, <2>8, <3>1, <3>3, Transferred
    <3>5. Ledger!Transfer(b, d, n)
      BY <2>8, <3>1, <3>2, <3>4, FundsAre DEF Ledger!Transfer, F, G
    <3> QED
      BY <2>5, <3>1, <3>5 DEF Follows, Ledger!Next, Ledger!Buckets, Buckets
  <2> QED
    BY <2>6, <2>7, <2>8
<1> QED
  BY <1>12, <1>13

-----------------------------------------------------------------------------
(* The transfers.                                                          *)

LEMMA MoneyInit == Init => MoneyInv
<1> SUFFICES ASSUME Init PROVE MoneyInv
  OBVIOUS
<1>1. \A n \in Int : NewAccount(n) \in [Fields -> Held]
  BY DEF NewAccount, Held
<1>2. NoAccount \in [Fields -> Held] /\ Default \in Int
  BY TransfersAssumption DEF NoAccount, Held
<1>3. hash \in Hash
  <2>1. PICK old \in Settled :
          hash = [a \in Accounts |-> IF a \in old THEN NewAccount(Default)
                                     ELSE IF owner[a] # None THEN NewAccount(0) ELSE NoAccount]
    BY DEF Init
  <2> QED
    BY <1>1, <1>2, <2>1 DEF Hash
<1>4. Calls(call)
  BY IdleOk DEF Init, Calls
<1> QED
  BY <1>3, <1>4 DEF MoneyInv

LEMMA MoneyNext ==
  ASSUME MoneyInv, Next
  PROVE  MoneyInv' /\ Follows
<1>1. ASSUME NEW u \in Users, NEW a \in Peers, Begin(u, a)
      PROVE  MoneyInv' /\ Follows
  <2>1. a \in Accounts
    BY FieldsAre
  <2> QED
    BY <1>1, <2>1, BeginKept, Same DEF Follows
<1>2. ASSUME NEW u \in Users, Dispatch(u)
      PROVE  MoneyInv' /\ Follows
  BY <1>2, DispatchKept, Same DEF Follows
<1>3. ASSUME NEW u \in Users, Quiet(u)
      PROVE  MoneyInv' /\ Follows
  BY <1>3, QuietKept, Same DEF Follows
<1>4. ASSUME NEW u \in Users, Step(u)
      PROVE  MoneyInv' /\ Follows
  BY <1>3, <1>4, SeedKept, DexSeedKept, CommitKept, PutKept DEF Step, Quiet
<1>5. ASSUME NEW a \in Traders, NEW n \in Results, Fill(a, n)
      PROVE  MoneyInv' /\ Follows
  <2>1. a \in Accounts
    BY TransfersAssumption
  <2> QED
    BY <1>5, <2>1, FillKept
<1>6. CASE ListDex
  <2>1. UNCHANGED hash /\ UNCHANGED call
    BY <1>6 DEF ListDex
  <2> QED
    BY <2>1, Same DEF MoneyInv, Follows
<1> QED
  BY <1>1, <1>2, <1>4, <1>5, <1>6 DEF Next

LEMMA MoneyStutter ==
  ASSUME MoneyInv, UNCHANGED vars
  PROVE  MoneyInv' /\ Follows
<1>1. UNCHANGED hash /\ UNCHANGED call
  BY DEF vars, moneyVars
<1> QED
  BY <1>1, Same DEF MoneyInv, Follows

\* MoneyInv is an invariant of the transfers: whatever was run between its
\* commands, a session that is about to write a balance holds a seed, a
\* covered move or an administrator's balance.
THEOREM MoneyHeld == Spec => []MoneyInv
<1>1. MoneyInv /\ [Next]_vars => MoneyInv'
  BY MoneyNext, MoneyStutter
<1> QED
  BY MoneyInit, <1>1, PTL DEF Spec

\* ImplementsLedger: the balances that the transfers, the sub-account and
\* vault actions, the seeding of accounts and the fills read and write in
\* separate commands follow the atomic ledger, but for an overwritten change,
\* a send to its own source and a late seeding.
THEOREM TransfersFollow == Spec => ImplementsLedger
<1>1. MoneyInv /\ [Next]_vars =>
        [\/ UNCHANGED hash
         \/ \E u \in Users : LostUpdate(u) \/ SelfCredit(u) \/ Reseed(u)
         \/ Ledger!Next]_Funds
  BY MoneyNext, MoneyStutter DEF Follows
<1> QED
  BY MoneyHeld, <1>1, PTL DEF Spec, ImplementsLedger

-----------------------------------------------------------------------------
(* Staking beside them.                                                    *)

Kinds == {"cDeposit", "cWithdraw", "delegate", "undelegate"}

AskOk(a) ==
  /\ a \in [stage : {a.stage}, who : {a.who}, kind : {a.kind}, wei : {a.wei},
            validator : {a.validator}, bal : {a.bal}, at : {a.at}, old : {a.old}]
  /\ a.at \in Nat
  /\ a.stage # "idle" => a.who \in Users /\ a.wei \in Weis /\ a.kind \in Kinds

Asks == ask = [r \in Requests |-> ask[r]] /\ \A r \in Requests : AskOk(ask[r])

Paid(e) == e.wei \in Weis /\ e.unlock \in Nat

SweepOk(s) ==
  /\ s \in [stage : {s.stage}, who : {s.who}, ready : {s.ready}, entry : {s.entry}, bal : {s.bal}]
  /\ s.stage # "idle" => s.who \in Users
  /\ \A e \in s.ready : Paid(e)
  /\ s.stage \in {"pay", "log"} => Paid(s.entry)
  /\ s.stage = "pay" => s.bal \in Int

QueueOk(q) == q = [u \in Users |-> q[u]] /\ \A u \in Users : \A e \in q[u] : Paid(e)

SweepInv == now \in Nat /\ Asks /\ SweepOk(sweep) /\ QueueOk(queue)

LEMMA SweepIdleOk == SweepOk(SweepIdle)
<1> DEFINE s == SweepIdle
<1>1. /\ s \in [stage : {s.stage}, who : {s.who}, ready : {s.ready}, entry : {s.entry}, bal : {s.bal}]
      /\ s.stage = "idle" /\ s.ready = {}
  BY DEF SweepIdle
<1> HIDE DEF s
<1>2. SweepOk(s)
  BY <1>1 DEF SweepOk
<1> QED
  BY <1>2 DEF s

LEMMA NoAskOk == AskOk(NoAsk)
  BY DEF AskOk, NoAsk

LEMMA Asked ==
  ASSUME Asks, NEW r \in Requests, NEW a, AskOk(a), Ask(r, a)
  PROVE  Asks' /\ ask'[r] = a
  BY DEF Asks, Ask

LEMMA Staged ==
  ASSUME NEW a, AskOk(a), a.stage # "idle", NEW s, NEW n, NEW t \in Nat, NEW d
  PROVE  /\ AskOk([a EXCEPT !.stage = s]) /\ AskOk([a EXCEPT !.stage = s, !.bal = n, !.at = t])
         /\ AskOk([a EXCEPT !.stage = s, !.bal = n]) /\ AskOk([a EXCEPT !.stage = s, !.old = d])
  BY DEF AskOk

\* The commands of a request.
Commands(r) ==
  \/ ReadStake(r) \/ WriteStake(r) \/ FindDelegation(r) \/ ReadRestake(r)
  \/ Undelegate(r) \/ AppendEvent(r) \/ TrimEvents(r)

LEMMA DispatchAsks ==
  ASSUME MoneyInv, SweepInv, NEW u \in Users, NEW r \in Requests, StakeDispatch(u, r)
  PROVE  MoneyInv' /\ SweepInv' /\ UNCHANGED hash
<1>1. PICK wei \in Weis, kind \in Kinds, v \in Validators :
        Ask(r, [NoAsk EXCEPT !.stage = IF kind = "undelegate" THEN "find" ELSE "read",
                             !.who = u, !.kind = kind, !.wei = wei, !.validator = v])
  BY DEF StakeDispatch, Kinds
<1>2. UNCHANGED <<hash, now, queue, sweep>> /\ Return(u)
  BY DEF StakeDispatch, moneyVars, books
<1>3. Calls(call')
  BY <1>2, Returned DEF MoneyInv
<1> DEFINE s == IF kind = "undelegate" THEN "find" ELSE "read"
           a == [NoAsk EXCEPT !.stage = s, !.who = u, !.kind = kind, !.wei = wei, !.validator = v]
<1>4. AskOk(a)
  <2> HIDE DEF s
  <2> QED
    BY DEF AskOk, NoAsk
<1>5. Ask(r, a)
  BY <1>1
<1> HIDE DEF a
<1>6. Asks'
  BY <1>4, <1>5, Asked DEF SweepInv
<1> QED
  BY <1>2, <1>3, <1>6 DEF MoneyInv, SweepInv

LEMMA CommandsKept ==
  ASSUME MoneyInv, SweepInv, NEW r \in Requests, Commands(r)
  PROVE  MoneyInv' /\ SweepInv' /\ UNCHANGED hash
<1> DEFINE a == ask[r]
<1>1. UNCHANGED <<hash, call, now, sweep>>
  BY DEF Commands, ReadStake, WriteStake, FindDelegation, ReadRestake, Undelegate, AppendEvent,
         TrimEvents, Beside, vars, moneyVars
<1>2. AskOk(a) /\ Asks /\ now \in Nat /\ QueueOk(queue)
  BY DEF SweepInv, Asks
<1>3. /\ a.stage # "idle"
      /\ Done(r) \/ (\E s, n, d : \/ Ask(r, [a EXCEPT !.stage = s])
                                  \/ Ask(r, [a EXCEPT !.stage = s, !.bal = n, !.at = now])
                                  \/ Ask(r, [a EXCEPT !.stage = s, !.bal = n])
                                  \/ Ask(r, [a EXCEPT !.stage = s, !.old = d]))
  <2>1. CASE ReadStake(r)
    BY <2>1 DEF ReadStake
  <2>2. CASE WriteStake(r) \/ Undelegate(r) \/ AppendEvent(r) \/ TrimEvents(r)
    BY <2>2 DEF WriteStake, Undelegate, AppendEvent, TrimEvents
  <2>3. CASE FindDelegation(r)
    BY <2>3 DEF FindDelegation
  <2>4. CASE ReadRestake(r)
    BY <2>4 DEF ReadRestake
  <2> QED
    BY <2>1, <2>2, <2>3, <2>4 DEF Commands
<1>4. Asks'
  BY <1>2, <1>3, Staged, Asked, NoAskOk DEF Done
<1>5. QueueOk(queue')
  <2>1. CASE UNCHANGED queue
    BY <1>2, <2>1
  <2>2. CASE WriteStake(r)
    <3> DEFINE w == Withdrawal(a)
               e == IF a.kind = "cWithdraw" THEN {w} ELSE {}
    <3>1. queue' = [queue EXCEPT ![a.who] = @ \cup e]
      BY <2>2 DEF WriteStake
    <3>2. a.wei \in Weis /\ a.at \in Nat /\ QueueTime \in Nat
      BY <1>2, <1>3, StakingAssumption DEF AskOk
    <3>3. w.wei = a.wei /\ w.unlock = a.at + QueueTime
      BY DEF Withdrawal
    <3>4. Paid(w)
      BY <3>2, <3>3 DEF Paid
    <3>5. \A x \in e : Paid(x)
      BY <3>4
    <3> HIDE DEF e
    <3> QED
      BY <1>2, <3>1, <3>5 DEF QueueOk
  <2> QED
    BY <2>1, <2>2 DEF Commands, ReadStake, FindDelegation, ReadRestake, Undelegate, AppendEvent,
                      TrimEvents, books
<1> QED
  BY <1>1, <1>4, <1>5, <1>2 DEF MoneyInv, SweepInv

\* With the sweep beside them.
StakingFollows == Follows \/ SweepOverwrites

\* The steps of the sweep that write no balance.
SweepReads == (\E u \in Users : SweepScan(u)) \/ SweepNext \/ SweepLog \/ SweepTrim

LEMMA SweepKept ==
  ASSUME MoneyInv, SweepInv, SweepReads
  PROVE  MoneyInv' /\ SweepInv' /\ UNCHANGED hash
<1>1. UNCHANGED <<hash, call, queue, now, ask>>
  BY DEF SweepReads, SweepScan, SweepNext, SweepLog, SweepTrim, Beside, vars, moneyVars, books
<1> SUFFICES SweepOk(sweep')
  BY <1>1 DEF MoneyInv, SweepInv, Asks
<1>2. SweepOk(sweep) /\ QueueOk(queue)
  BY DEF SweepInv
<1>3. ASSUME NEW u \in Users, SweepScan(u)
      PROVE  SweepOk(sweep')
  <2> DEFINE due == {e \in queue[u] : e.unlock <= now}
  <2>1. sweep' = [SweepIdle EXCEPT !.stage = "next", !.who = u, !.ready = due]
    BY <1>3 DEF SweepScan
  <2>2. \A e \in due : Paid(e)
    BY <1>2 DEF QueueOk
  <2> HIDE DEF due
  <2> QED
    BY <2>1, <2>2 DEF SweepIdle, SweepOk
<1>4. CASE SweepNext
  <2>1. CASE sweep' = SweepIdle
    BY <2>1, SweepIdleOk
  <2>2. CASE sweep' # SweepIdle
    <3> DEFINE b == Balance(hash[sweep.who]["perp"])
    <3>1. PICK e \in sweep.ready :
            sweep' = [sweep EXCEPT !.stage = "pay", !.entry = e, !.ready = @ \ {e}, !.bal = b]
      BY <1>4, <2>2 DEF SweepNext
    <3>2. sweep.who \in Accounts
      BY <1>2, <1>4, FieldsAre DEF SweepNext, SweepOk
    <3>3. b \in Int
      BY <3>2, FieldsAre, Balances DEF MoneyInv, Hash
    <3> HIDE DEF b
    <3> DEFINE left == sweep.ready \ {e}
    <3>4. /\ sweep' \in [stage : {sweep'.stage}, who : {sweep'.who}, ready : {sweep'.ready},
                         entry : {sweep'.entry}, bal : {sweep'.bal}]
          /\ sweep'.stage = "pay" /\ sweep'.who = sweep.who /\ sweep'.ready = left
          /\ sweep'.entry = e /\ sweep'.bal = b
      BY <1>2, <3>1 DEF SweepOk
    <3>5. sweep.who \in Users /\ Paid(e) /\ \A x \in left : Paid(x)
      BY <1>2, <1>4, <3>1 DEF SweepOk, SweepNext
    <3> HIDE DEF left
    <3> QED
      BY <3>3, <3>4, <3>5 DEF SweepOk
  <2> QED
    BY <2>1, <2>2
<1>5. CASE SweepLog \/ SweepTrim
  <2>1. /\ sweep.stage \in {"log", "trim"}
        /\ \/ sweep' = [sweep EXCEPT !.stage = "trim"]
           \/ sweep' = [sweep EXCEPT !.stage = "next", !.entry = None]
    BY <1>5 DEF SweepLog, SweepTrim
  <2>2. /\ sweep' \in [stage : {sweep'.stage}, who : {sweep'.who}, ready : {sweep'.ready},
                       entry : {sweep'.entry}, bal : {sweep'.bal}]
        /\ sweep'.stage \in {"trim", "next"} /\ sweep'.who = sweep.who /\ sweep'.ready = sweep.ready
    BY <1>2, <2>1 DEF SweepOk
  <2>3. sweep.who \in Users /\ \A x \in sweep.ready : Paid(x)
    BY <1>2, <2>1 DEF SweepOk
  <2> QED
    BY <2>2, <2>3 DEF SweepOk
<1> QED
  BY <1>3, <1>4, <1>5 DEF SweepReads

LEMMA WeisAre == \A n \in Weis : n \in Int /\ n \in Payouts
  BY StakingAssumption

LEMMA PayKept ==
  ASSUME MoneyInv, SweepInv, SweepPay
  PROVE  MoneyInv' /\ SweepInv' /\ StakingFollows
<1> DEFINE u == sweep.who
           n == sweep.entry.wei
           b == sweep.bal
           q == <<u, "perp">>
           F == FundsOf(hash)
<1>1. /\ sweep.stage = "pay" /\ queue' = [queue EXCEPT ![u] = @ \ {sweep.entry}]
      /\ sweep' = [sweep EXCEPT !.stage = "log"] /\ UNCHANGED <<call, now, ask>>
  BY DEF SweepPay
<1>2. hash \in Hash /\ Calls(call) /\ SweepOk(sweep) /\ QueueOk(queue) /\ now \in Nat /\ Asks
  BY DEF MoneyInv, SweepInv
<1>3. u \in Users /\ n \in Weis /\ b \in Int
  BY <1>1, <1>2 DEF SweepOk, Paid
<1>4. PICK x \in ToFixed(b + n) : hash' = [hash EXCEPT ![u]["perp"] = x]
  BY DEF SweepPay
<1>5. n \in Int /\ n \in Payouts
  <2> HIDE DEF n
  <2> QED
    BY <1>3, WeisAre
<1>6. u \in Accounts /\ q \in Buckets
  <2>1. u \in Accounts /\ "perp" \in Fields
    BY <1>3, FieldsAre
  <2> HIDE DEF u
  <2> QED
    BY <2>1 DEF Buckets
<1>7. SweepOk(sweep') /\ sweep'.stage = "log"
  BY <1>1, <1>2, <1>3 DEF SweepOk
<1>8. QueueOk(queue')
  BY <1>1, <1>2, <1>3 DEF QueueOk
<1>9. hash' = Wrote(hash, q, x)
  BY <1>4 DEF Wrote
<1>10. x \in Int /\ x \in Ledger!Near(b + n)
  <2>1. b + n \in Int
    <3> HIDE DEF b, n
    <3> QED
      BY <1>3, <1>5
  <2> HIDE DEF b, n
  <2> QED
    BY <2>1, Rounds
<1> HIDE DEF q, n
<1>11. hash' \in Hash /\ FundsOf(hash') = [F EXCEPT ![q] = x]
  BY <1>2, <1>6, <1>9, <1>10, WroteOne
<1>12. MoneyInv' /\ SweepInv'
  BY <1>1, <1>2, <1>7, <1>8, <1>11 DEF MoneyInv, SweepInv, Asks
<1>13. CASE F[q] # b
  <2>1. SweepOverwrites
    BY <1>1, <1>7, <1>13, FundsAre DEF SweepOverwrites, q
  <2> QED
    BY <1>12, <2>1 DEF StakingFollows
<1>14. CASE F[q] = b
  <2>1. F \in [Buckets -> Int]
    BY <1>2, FundsType
  <2> HIDE DEF F, b
  <2>2. FundsOf(hash')[q] = x
    BY <1>6, <1>11, <2>1
  <2>3. Ledger!PayOut(u, n)
    BY <1>10, <1>11, <1>14, <2>2, FundsAre DEF Ledger!PayOut, Ledger!Put, q, F
  <2> QED
    BY <1>5, <1>6, <1>12, <2>3 DEF StakingFollows, Follows, Ledger!Next
<1> QED
  BY <1>13, <1>14

LEMMA CrashKept ==
  ASSUME MoneyInv, SweepInv, Crash
  PROVE  MoneyInv' /\ SweepInv' /\ UNCHANGED hash
<1>1. /\ UNCHANGED <<hash, now, queue>> /\ call' = [u \in Users |-> Idle]
      /\ ask' = [r \in Requests |-> NoAsk] /\ sweep' = SweepIdle
  BY DEF Crash, moneyVars, books
<1>2. Calls(call')
  BY <1>1, IdleOk DEF Calls
<1>3. SweepOk(sweep')
  BY <1>1, SweepIdleOk
<1>4. Asks'
  BY <1>1, NoAskOk DEF Asks
<1> QED
  BY <1>1, <1>2, <1>3, <1>4 DEF MoneyInv, SweepInv

LEMMA StakingInitial == StakingInit => MoneyInv /\ SweepInv
<1>1. StakingInit => /\ now = 0 /\ sweep = SweepIdle /\ queue = [u \in Users |-> {}]
                     /\ ask = [r \in Requests |-> NoAsk]
  BY DEF StakingInit
<1>2. StakingInit => SweepInv
  BY <1>1, NoAskOk, SweepIdleOk DEF SweepInv, QueueOk, Asks
<1> QED
  BY <1>2, MoneyInit DEF StakingInit

LEMMA StakingKept ==
  ASSUME MoneyInv, SweepInv, [StakingNext]_allVars
  PROVE  MoneyInv' /\ SweepInv' /\ StakingFollows
<1>1. CASE Next /\ UNCHANGED stakeVars
  <2>1. SweepInv'
    BY <1>1 DEF SweepInv, Asks, stakeVars, books
  <2> QED
    BY <1>1, <2>1, MoneyNext DEF StakingFollows
<1>2. ASSUME NEW r \in Requests, Commands(r)
      PROVE  MoneyInv' /\ SweepInv' /\ StakingFollows
  BY <1>2, CommandsKept, Same DEF StakingFollows, Follows
<1>3. ASSUME NEW r \in Requests, NEW u \in Users, StakeDispatch(u, r)
      PROVE  MoneyInv' /\ SweepInv' /\ StakingFollows
  BY <1>3, DispatchAsks, Same DEF StakingFollows, Follows
<1>4. CASE SweepReads
  BY <1>4, SweepKept, Same DEF StakingFollows, Follows
<1>5. CASE SweepPay
  BY <1>5, PayKept
<1>6. CASE Tick
  <2>1. UNCHANGED vars /\ UNCHANGED <<queue, sweep, ask>> /\ now' = now + 1
    BY <1>6 DEF Tick, books
  <2>2. SweepInv'
    BY <2>1 DEF SweepInv, Asks
  <2> QED
    BY <2>1, <2>2, MoneyStutter DEF StakingFollows
<1>7. CASE Crash
  BY <1>7, CrashKept, Same DEF StakingFollows, Follows
<1>8. CASE UNCHANGED allVars
  <2>1. UNCHANGED vars /\ SweepInv'
    BY <1>8 DEF allVars, stakeVars, books, SweepInv, Asks
  <2> QED
    BY <2>1, MoneyStutter DEF StakingFollows
<1> QED
  BY <1>1, <1>2, <1>3, <1>4, <1>5, <1>6, <1>7, <1>8 DEF StakingNext, Commands, SweepReads

\* The invariant of the transfers holds with staking and restarts beside
\* them, and the sweep only ever pays out an amount that a cWithdraw queued.
THEOREM SweepHeld == StakingSpec => [](MoneyInv /\ SweepInv)
<1>1. (MoneyInv /\ SweepInv) /\ [StakingNext]_allVars => (MoneyInv /\ SweepInv)'
  BY StakingKept
<1> QED
  BY StakingInitial, <1>1, PTL DEF StakingSpec

\* StakingImplementsLedger: with the sweep of the staking queue paying into
\* the same balances, each rounded whole, and the process restarted between
\* any two commands, they still follow the ledger to half a grain, but for
\* the transfers' three exceptions and the sweep's own read-then-write.
THEOREM StakingFollow == StakingSpec => StakingImplementsLedger
<1>1. (MoneyInv /\ SweepInv) /\ [StakingNext]_allVars =>
        [\/ UNCHANGED hash
         \/ \E u \in Users : LostUpdate(u) \/ SelfCredit(u) \/ Reseed(u)
         \/ SweepOverwrites
         \/ Ledger!Next]_Funds
  BY StakingKept DEF StakingFollows, Follows
<1> QED
  BY SweepHeld, <1>1, PTL DEF StakingSpec, StakingImplementsLedger

-----------------------------------------------------------------------------
(* Sums.  The library's induction theorems take a predicate; that a finite *)
(* set has minimal subsets of a kind (WFMin) serves as well.               *)

Pick(s) == CHOOSE x \in s : TRUE
Rec(g, S) == [s \in SUBSET S |-> IF s = {} THEN 0 ELSE Pick(s).wei + g[s \ {Pick(s)}]]
Adds(g, S) == g = Rec(g, S)
SumFcn(S) == CHOOSE g : Adds(g, S)

LEMMA SmallestSet ==
  ASSUME NEW S, IsFiniteSet(S), NEW T, T \subseteq SUBSET S, T # {}
  PROVE  \E x \in T : \A y \in T : y \subseteq x => y = x
<1> DEFINE R == StrictSubsetOrdering(S)
<1>1. IsWellFoundedOn(R, SUBSET S)
  BY FS_StrictSubsetOrderingWellFounded, FS_FiniteSubsetsOfFinite
<1>2. \A x, y \in SUBSET S : <<x, y>> \in R <=> x \subseteq y /\ x # y
  BY DEF StrictSubsetOrdering
<1> HIDE DEF R
<1>3. \E x \in T : \A y \in T : ~(<<y, x>> \in R)
  BY <1>1, WFMin
<1>4. PICK x \in T : \A y \in T : ~(<<y, x>> \in R)
  BY <1>3
<1>5. ASSUME NEW y \in T, y \subseteq x
      PROVE  y = x
  BY <1>2, <1>4, <1>5
<1> QED
  BY <1>5

LEMMA Picked == \A s : s # {} => Pick(s) \in s
  BY DEF Pick

LEMMA Unfold ==
  ASSUME NEW g, NEW S, Adds(g, S), NEW s \in SUBSET S
  PROVE  /\ s = {} => g[s] = 0
         /\ s # {} => g[s] = Pick(s).wei + g[s \ {Pick(s)}]
<1>1. g = [r \in SUBSET S |-> IF r = {} THEN 0 ELSE Pick(r).wei + g[r \ {Pick(r)}]]
  BY DEF Adds, Rec
<1> QED
  BY <1>1

LEMMA Agree ==
  ASSUME NEW S, IsFiniteSet(S), NEW T \in SUBSET S, NEW g, NEW h, Adds(g, S), Adds(h, T)
  PROVE  \A s \in SUBSET T : g[s] = h[s]
<1> DEFINE B == {s \in SUBSET T : g[s] # h[s]}
<1> SUFFICES ASSUME B # {} PROVE FALSE
  OBVIOUS
<1>1. B \subseteq SUBSET S
  OBVIOUS
<1>2. PICK s \in B : \A y \in B : y \subseteq s => y = s
  <2> HIDE DEF B
  <2> QED
    BY <1>1, SmallestSet
<1>3. s \in SUBSET T /\ s \in SUBSET S /\ g[s] # h[s]
  OBVIOUS
<1>4. CASE s = {}
  BY <1>3, <1>4, Unfold
<1>5. CASE s # {}
  <2> DEFINE r == s \ {Pick(s)}
  <2>1. r \subseteq s /\ r # s /\ r \in SUBSET T
    BY <1>3, <1>5, Picked
  <2>2. g[r] = h[r]
    BY <1>2, <2>1
  <2>3. g[s] = Pick(s).wei + g[r]
    BY <1>3, <1>5, Unfold
  <2>4. h[s] = Pick(s).wei + h[r]
    BY <1>3, <1>5, Unfold
  <2> QED
    BY <1>3, <2>2, <2>3, <2>4
<1> QED
  BY <1>4, <1>5

LEMMA Extend ==
  ASSUME NEW T, IsFiniteSet(T), \A s \in SUBSET T : s # T => \E g : Adds(g, s)
  PROVE  \E g : Adds(g, T)
<1> DEFINE h(s) == SumFcn(s)
           V(s) == IF s = {} THEN 0 ELSE Pick(s).wei + h(s \ {Pick(s)})[s \ {Pick(s)}]
           G == [s \in SUBSET T |-> V(s)]
<1>1. \A s \in SUBSET T : s # T => Adds(h(s), s)
  BY DEF SumFcn
<1>2. ASSUME NEW r \in SUBSET T, r # T
      PROVE  V(r) = h(r)[r]
  <2>1. Adds(h(r), r) /\ IsFiniteSet(r)
    BY <1>1, <1>2, FS_Subset
  <2>2. CASE r = {}
    BY <2>1, <2>2, Unfold
  <2>3. CASE r # {}
    <3> DEFINE q == r \ {Pick(r)}
    <3>1. q \in SUBSET r /\ q \in SUBSET T /\ q # T
      BY <1>2, <2>3, Picked
    <3>2. Adds(h(q), q)
      BY <1>1, <3>1
    <3>3. h(r)[r] = Pick(r).wei + h(r)[q]
      BY <2>1, <2>3, Unfold
    <3>4. h(r)[q] = h(q)[q]
      BY <2>1, <3>1, <3>2, Agree
    <3> QED
      BY <2>3, <3>3, <3>4
  <2> QED
    BY <2>2, <2>3
<1>3. ASSUME NEW s \in SUBSET T, s # {}
      PROVE  V(s) = Pick(s).wei + G[s \ {Pick(s)}]
  <2> DEFINE r == s \ {Pick(s)}
  <2>1. r \in SUBSET T /\ r # T
    BY <1>3, Picked
  <2>2. V(r) = h(r)[r]
    BY <1>2, <2>1
  <2>3. G[r] = V(r)
    BY <2>1
  <2> QED
    BY <1>3, <2>2, <2>3
<1>4. \A s \in SUBSET T : V(s) = IF s = {} THEN 0 ELSE Pick(s).wei + G[s \ {Pick(s)}]
  BY <1>3
<1>5. Adds(G, T)
  <2> HIDE DEF V
  <2> QED
    BY <1>4 DEF Adds, Rec
<1> QED
  BY <1>5

LEMMA Exists == ASSUME NEW S, IsFiniteSet(S) PROVE Adds(SumFcn(S), S)
<1> DEFINE B == {s \in SUBSET S : ~\E g : Adds(g, s)}
<1>1. B = {}
  <2> SUFFICES ASSUME B # {} PROVE FALSE
    OBVIOUS
  <2>1. B \subseteq SUBSET S
    OBVIOUS
  <2>2. PICK s \in B : \A y \in B : y \subseteq s => y = s
    <3> HIDE DEF B
    <3> QED
      BY <2>1, SmallestSet
  <2>3. IsFiniteSet(s)
    BY FS_Subset
  <2>4. \A r \in SUBSET s : r # s => \E g : Adds(g, r)
    BY <2>2
  <2> QED
    BY <2>3, <2>4, Extend
<1>2. \E g : Adds(g, S)
  BY <1>1
<1> QED
  BY <1>2 DEF SumFcn

LEMMA SumIs == ASSUME NEW S PROVE SumWei(S) = SumFcn(S)[S]
  BY DEF SumWei, MapThenSumSet, MapThenFoldSet, SumFcn, Adds, Rec, Pick

LEMMA SumStep ==
  ASSUME NEW S, IsFiniteSet(S)
  PROVE  /\ S = {} => SumWei(S) = 0
         /\ S # {} => SumWei(S) = Pick(S).wei + SumWei(S \ {Pick(S)})
<1>1. Adds(SumFcn(S), S)
  BY Exists
<1>2. ASSUME NEW T \in SUBSET S
      PROVE  SumFcn(S)[T] = SumWei(T)
  <2>1. Adds(SumFcn(T), T)
    BY Exists, FS_Subset
  <2>2. SumFcn(S)[T] = SumFcn(T)[T]
    BY <1>1, <2>1, Agree
  <2> QED
    BY <2>2, SumIs
<1>3. /\ S = {} => SumFcn(S)[S] = 0
      /\ S # {} => SumFcn(S)[S] = Pick(S).wei + SumFcn(S)[S \ {Pick(S)}]
  BY <1>1, Unfold
<1> QED
  BY <1>2, <1>3

Weighed(S) == IsFiniteSet(S) /\ \A e \in S : e.wei \in Int

LEMMA Smaller ==
  ASSUME NEW S, Weighed(S), NEW T \in SUBSET S
  PROVE  Weighed(T)
  BY FS_Subset DEF Weighed

LEMMA SumType == ASSUME NEW S, Weighed(S) PROVE SumWei(S) \in Int
<1> DEFINE B == {s \in SUBSET S : SumWei(s) \notin Int}
<1>1. B = {}
  <2> SUFFICES ASSUME B # {} PROVE FALSE
    OBVIOUS
  <2>1. B \subseteq SUBSET S /\ IsFiniteSet(S)
    BY DEF Weighed
  <2>2. PICK s \in B : \A y \in B : y \subseteq s => y = s
    <3> HIDE DEF B
    <3> QED
      BY <2>1, SmallestSet
  <2>3. Weighed(s) /\ SumWei(s) \notin Int
    BY Smaller
  <2>4. s # {}
    <3>1. IsFiniteSet(s) /\ 0 \in Int
      BY <2>3 DEF Weighed
    <3>2. s = {} => SumWei(s) = 0
      BY <3>1, SumStep
    <3> QED
      BY <2>3, <3>1, <3>2
  <2> DEFINE r == s \ {Pick(s)}
  <2>5. r \in SUBSET S /\ r \subseteq s /\ r # s /\ Pick(s).wei \in Int
    BY <2>3, <2>4, Picked DEF Weighed
  <2>6. SumWei(r) \in Int
    BY <2>2, <2>5
  <2>7. SumWei(s) = Pick(s).wei + SumWei(r)
    BY <2>3, <2>4, SumStep DEF Weighed
  <2> QED
    BY <2>3, <2>5, <2>6, <2>7
<1> QED
  BY <1>1

LEMMA SumWithout ==
  ASSUME NEW S, Weighed(S), NEW e \in S
  PROVE  SumWei(S) = e.wei + SumWei(S \ {e})
<1> DEFINE Ok(s) == \A x \in s : SumWei(s) = x.wei + SumWei(s \ {x})
           B == {s \in SUBSET S : ~Ok(s)}
<1>1. B = {}
  <2> SUFFICES ASSUME B # {} PROVE FALSE
    OBVIOUS
  <2>1. B \subseteq SUBSET S /\ IsFiniteSet(S)
    BY DEF Weighed
  <2>2. PICK s \in B : \A y \in B : y \subseteq s => y = s
    <3> HIDE DEF B
    <3> QED
      BY <2>1, SmallestSet
  <2>3. \A r \in SUBSET s : r # s => Ok(r)
    <3> HIDE DEF Ok
    <3> QED
      BY <2>2
  <2>4. PICK x \in s : SumWei(s) # x.wei + SumWei(s \ {x})
    OBVIOUS
  <2>5. Weighed(s) /\ s # {}
    BY Smaller
  <2> DEFINE p == Pick(s)
             a == s \ {p}
             b == s \ {x}
             c == (s \ {p}) \ {x}
  <2>6. p \in s /\ SumWei(s) = p.wei + SumWei(a)
    BY <2>5, Picked, SumStep DEF Weighed
  <2>7. p # x
    BY <2>4, <2>6
  <2> HIDE DEF p
  <2>8. a \in SUBSET s /\ a # s /\ b \in SUBSET s /\ b # s /\ x \in a /\ p \in b
    BY <2>6, <2>7
  <2>9. SumWei(a) = x.wei + SumWei(c)
    BY <2>3, <2>8
  <2>10. SumWei(b) = p.wei + SumWei(c)
    <3>1. b \ {p} = c
      OBVIOUS
    <3>2. SumWei(b) = p.wei + SumWei(b \ {p})
      BY <2>3, <2>8
    <3> QED
      BY <3>1, <3>2
  <2>11. p.wei \in Int /\ x.wei \in Int /\ SumWei(c) \in Int
    <3>1. Weighed(c)
      BY <2>5, Smaller
    <3> QED
      BY <2>5, <2>6, <3>1, SumType DEF Weighed
  <2> QED
    BY <2>4, <2>6, <2>9, <2>10, <2>11
<1>2. Ok(S)
  BY <1>1
<1> QED
  BY <1>2

LEMMA SumWith ==
  ASSUME NEW S, Weighed(S), NEW e, e \notin S, e.wei \in Int
  PROVE  Weighed(S \cup {e}) /\ SumWei(S \cup {e}) = SumWei(S) + e.wei
<1>1. Weighed(S \cup {e})
  <2>1. IsFiniteSet(S \cup {e})
    BY FS_AddElement DEF Weighed
  <2> QED
    BY <2>1 DEF Weighed
<1>2. (S \cup {e}) \ {e} = S
  OBVIOUS
<1>3. SumWei(S \cup {e}) = e.wei + SumWei((S \cup {e}) \ {e})
  BY <1>1, SumWithout
<1>4. SumWei(S) \in Int
  BY SumType
<1>5. SumWei(S \cup {e}) = e.wei + SumWei(S)
  BY <1>2, <1>3
<1> QED
  BY <1>1, <1>4, <1>5

-----------------------------------------------------------------------------
(* The staking summary.                                                    *)

\* A delegation: its wei can be replaced.
Recorded(d) ==
  /\ d \in [validator : {d.validator}, wei : {d.wei}, until : {d.until}, at : {d.at}]
  /\ d.wei \in Int

Numbered(E, n) == \A e \in E : e.number \in Int /\ e.number <= n

BookOk(u, st, d, q, e, p) ==
  /\ st[u] \in Int /\ p[u] \in Nat
  /\ Weighed(d[u]) /\ Weighed(q[u]) /\ Weighed(e[u])
  /\ \A x \in d[u] : Recorded(x)
  /\ Numbered(e[u], p[u])

Booked ==
  /\ staked = [u \in Users |-> staked[u]] /\ deleg = [u \in Users |-> deleg[u]]
  /\ queue = [u \in Users |-> queue[u]] /\ events = [u \in Users |-> events[u]]
  /\ pushed = [u \in Users |-> pushed[u]] /\ slips = [u \in Users |-> slips[u]]
  /\ \A u \in Users : BookOk(u, staked, deleg, queue, events, pushed)

\* What a request holds of the books.
Holds(a) ==
  /\ a.stage = "read" => a.kind # "undelegate"
  /\ a.stage = "write" => a.bal \in Int
  /\ a.stage = "restake" \/ (a.stage = "write" /\ a.kind = "undelegate") =>
       Recorded(a.old) /\ a.old.wei >= a.wei

\* The sweep holds entries of the queue.
SweepHolds(s, q) ==
  /\ s.stage # "idle" => s.ready \subseteq q[s.who]
  /\ s.stage = "pay" => s.entry \in q[s.who] /\ s.entry \notin s.ready

\* What the list, the requests and the sweep tell, of a type.
OfType(E, t) == {e \in E : e.type = t}
Logging(f, u, t) == {q \in Requests : f[q].stage = "log" /\ f[q].who = u /\ f[q].kind = t}
Note(f, r) == [request |-> r, wei |-> f[r].wei]
Notes(f, u, t) == {Note(f, r) : r \in Logging(f, u, t)}
Paying(s, u, t) ==
  IF t = "withdrawalComplete" /\ s.stage = "log" /\ s.who = u THEN s.entry.wei ELSE 0
ToldBy(E, f, s, u, t) == SumWei(OfType(E, t)) + (SumWei(Notes(f, u, t)) + Paying(s, u, t))

LEMMA ToldIs ==
  ASSUME NEW u, NEW t
  PROVE  /\ Told(u, t) = ToldBy(events[u], ask, sweep, u, t)
         /\ Told(u, t)' = ToldBy(events'[u], ask', sweep', u, t)
  BY DEF Told, Listed, ToAppend, Unlogged, ToldBy, OfType, Notes, Note, Logging, Paying

Free(sl, s) == sl \cap s = {}

\* How far the delegations, the queue and the balance are from what is told.
DelegGap(u) == SumWei(deleg[u]) - Told(u, "delegate") + Told(u, "undelegate")
QueueGap(u) == SumWei(queue[u]) - Told(u, "cWithdraw") + Told(u, "withdrawalComplete")
FreeGap(u) == staked[u] - Told(u, "cDeposit") + Told(u, "cWithdraw")
              + Told(u, "delegate") - Told(u, "undelegate")

Explained(u) ==
  /\ Free(slips[u], {"trimmed", "untold", "twin", "gone"}) => DelegGap(u) = 0
  /\ Free(slips[u], {"trimmed", "untold", "twin"}) => QueueGap(u) = 0
  /\ Free(slips[u], {"trimmed", "untold", "overwrite"}) => FreeGap(u) = 0

StakeInv ==
  /\ Booked /\ (\A r \in Requests : Holds(ask[r])) /\ SweepHolds(sweep, queue)
  /\ \A u \in Users : Explained(u)

AllInv == MoneyInv /\ SweepInv /\ StakeInv

-----------------------------------------------------------------------------
(* What a step does to the notes.                                          *)

LEMMA NotesWeigh ==
  ASSUME NEW f, \A r \in Requests : AskOk(f[r]), NEW u, NEW t
  PROVE  Weighed(Notes(f, u, t))
<1>1. IsFiniteSet(Logging(f, u, t))
  BY FS_Subset, StakingAssumption DEF Logging
<1>2. IsFiniteSet(Notes(f, u, t))
  <2> DEFINE G == Logging(f, u, t)
             N == Notes(f, u, t)
             h == [r \in G |-> Note(f, r)]
  <2>1. h \in [G -> N] /\ \A n \in N : \E r \in G : h[r] = n
    BY DEF Notes
  <2> HIDE DEF G, N, h
  <2>2. h \in Surjection(G, N)
    BY <2>1 DEF Surjection
  <2> QED
    BY <1>1, <2>2, FS_Surjection DEF G, N
<1>3. \A r \in Logging(f, u, t) : Note(f, r).wei \in Int
  BY WeisAre DEF Logging, AskOk, Note
<1> QED
  BY <1>2, <1>3 DEF Weighed, Notes

LEMMA NotesKept ==
  ASSUME NEW r \in Requests, NEW a, Asks, Ask(r, a), NEW u, NEW t,
         \/ ask[r].stage # "log" \/ ask[r].who # u \/ ask[r].kind # t,
         \/ a.stage # "log" \/ a.who # u \/ a.kind # t
  PROVE  Notes(ask', u, t) = Notes(ask, u, t)
<1>1. \A q \in Requests : ask'[q] = IF q = r THEN a ELSE ask[q]
  BY DEF Asks, Ask
<1>2. Logging(ask', u, t) = Logging(ask, u, t)
  BY <1>1 DEF Logging
<1>3. \A q \in Logging(ask, u, t) : q \in Requests /\ q # r
  BY DEF Logging
<1>4. \A q \in Logging(ask, u, t) : Note(ask', q) = Note(ask, q)
  BY <1>1, <1>3 DEF Note
<1> QED
  BY <1>2, <1>4 DEF Notes

LEMMA NoteAdded ==
  ASSUME NEW r \in Requests, NEW a, Asks, AskOk(a), Ask(r, a), ask[r].stage # "log", a.stage = "log"
  PROVE  SumWei(Notes(ask', a.who, a.kind)) = SumWei(Notes(ask, a.who, a.kind)) + a.wei
<1> DEFINE u == a.who
           t == a.kind
           n == [request |-> r, wei |-> a.wei]
<1>1. \A q \in Requests : ask'[q] = IF q = r THEN a ELSE ask[q]
  BY DEF Asks, Ask
<1>2. Logging(ask', u, t) = Logging(ask, u, t) \cup {r} /\ r \notin Logging(ask, u, t)
  BY <1>1 DEF Logging
<1>3. /\ \A q \in Logging(ask, u, t) : Note(ask', q) = Note(ask, q) /\ Note(ask, q).request # r
      /\ Note(ask', r) = n
  BY <1>1, <1>2 DEF Note, Logging
<1> HIDE DEF n, u, t
<1>4. Notes(ask', u, t) = Notes(ask, u, t) \cup {n}
  BY <1>2, <1>3 DEF Notes
<1>5. n \notin Notes(ask, u, t)
  BY <1>3 DEF Notes, n
<1>6. Weighed(Notes(ask, u, t)) /\ n.wei = a.wei /\ a.wei \in Int
  <2>1. a.wei \in Int
    BY WeisAre DEF AskOk
  <2> QED
    BY <2>1, NotesWeigh DEF Asks, n
<1> QED
  BY <1>4, <1>5, <1>6, SumWith DEF u, t

LEMMA NoteRemoved ==
  ASSUME NEW r \in Requests, NEW a, Asks, Ask(r, a), ask[r].stage = "log", a.stage # "log"
  PROVE  LET b == ask[r] IN
         SumWei(Notes(ask, b.who, b.kind)) = SumWei(Notes(ask', b.who, b.kind)) + b.wei
<1> DEFINE b == ask[r]
           u == b.who
           t == b.kind
           n == [request |-> r, wei |-> b.wei]
<1>1. \A q \in Requests : ask'[q] = IF q = r THEN a ELSE ask[q]
  BY DEF Asks, Ask
<1>2. Logging(ask, u, t) = Logging(ask', u, t) \cup {r} /\ r \notin Logging(ask', u, t)
  BY <1>1 DEF Logging
<1>3. /\ \A q \in Logging(ask', u, t) : Note(ask', q) = Note(ask, q) /\ Note(ask', q).request # r
      /\ Note(ask, r) = n
  BY <1>1, <1>2 DEF Note, Logging
<1>4. n.wei = b.wei /\ b.wei \in Int /\ n.request = r
  BY WeisAre DEF AskOk, Asks
<1>5. Weighed(Notes(ask, u, t))
  BY NotesWeigh DEF Asks
<1> HIDE DEF n, u, t, b
<1>6. Notes(ask, u, t) = Notes(ask', u, t) \cup {n}
  BY <1>2, <1>3 DEF Notes
<1>7. n \notin Notes(ask', u, t)
  BY <1>3, <1>4 DEF Notes
<1>8. Notes(ask', u, t) \in SUBSET Notes(ask, u, t)
  BY <1>6
<1>9. Weighed(Notes(ask', u, t))
  BY <1>5, <1>8, Smaller
<1>10. SumWei(Notes(ask, u, t)) = SumWei(Notes(ask', u, t)) + b.wei
  BY <1>4, <1>6, <1>7, <1>9, SumWith
<1> QED
  BY <1>10 DEF u, t, b

LEMMA Whole ==
  ASSUME NEW st, NEW d, NEW q, NEW e, NEW p, NEW u, BookOk(u, st, d, q, e, p),
         NEW f, \A r \in Requests : AskOk(f[r]), NEW s, SweepOk(s)
  PROVE  /\ st[u] \in Int /\ SumWei(d[u]) \in Int /\ SumWei(q[u]) \in Int
         /\ \A t : SumWei(OfType(e[u], t)) \in Int /\ SumWei(Notes(f, u, t)) \in Int
                   /\ Paying(s, u, t) \in Int /\ ToldBy(e[u], f, s, u, t) \in Int
<1>1. st[u] \in Int /\ SumWei(d[u]) \in Int /\ SumWei(q[u]) \in Int
  BY SumType DEF BookOk
<1>2. ASSUME NEW t
      PROVE  SumWei(OfType(e[u], t)) \in Int /\ SumWei(Notes(f, u, t)) \in Int
             /\ Paying(s, u, t) \in Int /\ ToldBy(e[u], f, s, u, t) \in Int
  <2>1. OfType(e[u], t) \in SUBSET e[u]
    BY DEF OfType
  <2>2. SumWei(OfType(e[u], t)) \in Int
    BY <2>1, Smaller, SumType DEF BookOk
  <2>3. SumWei(Notes(f, u, t)) \in Int
    BY NotesWeigh, SumType
  <2>4. Paying(s, u, t) \in Int
    BY WeisAre DEF Paying, SweepOk, Paid
  <2> QED
    BY <2>2, <2>3, <2>4 DEF ToldBy
<1> QED
  BY <1>1, <1>2

LEMMA Numbers ==
  ASSUME AllInv, NEW u \in Users
  PROVE  /\ staked[u] \in Int /\ SumWei(deleg[u]) \in Int /\ SumWei(queue[u]) \in Int
         /\ \A t : Told(u, t) \in Int /\ SumWei(OfType(events[u], t)) \in Int
                   /\ SumWei(Notes(ask, u, t)) \in Int /\ Paying(sweep, u, t) \in Int
<1>1. /\ BookOk(u, staked, deleg, queue, events, pushed)
      /\ (\A r \in Requests : AskOk(ask[r])) /\ SweepOk(sweep)
  BY DEF AllInv, StakeInv, Booked, SweepInv, Asks
<1> QED
  BY <1>1, Whole, ToldIs

LEMMA ToldSame ==
  ASSUME Asks, NEW r \in Requests, NEW a, Ask(r, a), ask[r].stage # "log", a.stage # "log",
         UNCHANGED <<events, sweep>>, NEW u, NEW t
  PROVE  Told(u, t)' = Told(u, t)
<1>1. Notes(ask', u, t) = Notes(ask, u, t)
  BY NotesKept
<1> QED
  BY <1>1, ToldIs DEF ToldBy

LEMMA ToldMore ==
  ASSUME AllInv, NEW r \in Requests, NEW a, AskOk(a), Ask(r, a), ask[r].stage # "log",
         a.stage = "log", UNCHANGED <<events, sweep>>, NEW u \in Users, NEW t
  PROVE  Told(u, t)' = IF u = a.who /\ t = a.kind THEN Told(u, t) + a.wei ELSE Told(u, t)
<1>1. Asks /\ Told(u, t) = ToldBy(events[u], ask, sweep, u, t)
      /\ Told(u, t)' = ToldBy(events[u], ask', sweep, u, t)
  BY ToldIs DEF AllInv, SweepInv
<1>2. CASE u = a.who /\ t = a.kind
  <2>1. SumWei(Notes(ask', u, t)) = SumWei(Notes(ask, u, t)) + a.wei
    BY <1>1, <1>2, NoteAdded
  <2>2. a.wei \in Int
    BY WeisAre DEF AskOk
  <2>3. /\ SumWei(OfType(events[u], t)) \in Int /\ SumWei(Notes(ask, u, t)) \in Int
        /\ Paying(sweep, u, t) \in Int
    BY Numbers
  <2> QED
    BY <1>1, <1>2, <2>1, <2>2, <2>3 DEF ToldBy
<1>3. CASE ~(u = a.who /\ t = a.kind)
  <2>1. Notes(ask', u, t) = Notes(ask, u, t)
    BY <1>1, <1>3, NotesKept
  <2> QED
    BY <1>1, <1>3, <2>1 DEF ToldBy
<1> QED
  BY <1>2, <1>3

LEMMA Still ==
  ASSUME NEW u, Explained(u), slips[u] \subseteq slips'[u],
         Free(slips'[u], {"trimmed", "untold", "twin", "gone"}) => DelegGap(u)' = DelegGap(u),
         Free(slips'[u], {"trimmed", "untold", "twin"}) => QueueGap(u)' = QueueGap(u),
         Free(slips'[u], {"trimmed", "untold", "overwrite"}) => FreeGap(u)' = FreeGap(u)
  PROVE  Explained(u)'
<1>1. \A s : Free(slips'[u], s) => Free(slips[u], s)
  BY DEF Free
<1> QED
  BY <1>1 DEF Explained

LEMMA Undisturbed ==
  ASSUME NEW u, Explained(u), staked'[u] = staked[u], deleg'[u] = deleg[u], queue'[u] = queue[u],
         \A t : Told(u, t)' = Told(u, t), slips[u] \subseteq slips'[u]
  PROVE  Explained(u)'
<1>1. /\ DelegGap(u)' = DelegGap(u) /\ QueueGap(u)' = QueueGap(u)
      /\ FreeGap(u)' = FreeGap(u)
  BY DEF DelegGap, QueueGap, FreeGap
<1> QED
  BY <1>1, Still

\* A list that lost an event explains nothing.
LEMMA Unexplained ==
  ASSUME NEW u, "trimmed" \in slips'[u] \/ "untold" \in slips'[u]
  PROVE  Explained(u)'
  BY DEF Explained, Free

LEMMA NothingMoved ==
  ASSUME AllInv, UNCHANGED <<books, logs, ask, sweep, slips>>
  PROVE  StakeInv'
<1>1. \A u \in Users : Explained(u)
  BY DEF AllInv, StakeInv
<1>2. \A u \in Users : \A t : Told(u, t)' = Told(u, t)
  BY ToldIs DEF logs
<1>3. \A u \in Users : Explained(u)'
  BY <1>1, <1>2, Undisturbed DEF books
<1>4. Booked' /\ (\A r \in Requests : Holds(ask'[r])) /\ SweepHolds(sweep', queue')
  BY DEF AllInv, StakeInv, Booked, books, logs
<1> QED
  BY <1>3, <1>4 DEF StakeInv

LEMMA HeldBy ==
  ASSUME Asks, \A q \in Requests : Holds(ask[q]), NEW r \in Requests, NEW a, Ask(r, a), Holds(a)
  PROVE  \A q \in Requests : Holds(ask'[q])
  BY DEF Asks, Ask

\* The requests' steps that write none of the four.
LEMMA RequestQuiet ==
  ASSUME AllInv, UNCHANGED <<books, logs, sweep, slips>>, NEW r \in Requests, NEW a,
         Ask(r, a), Holds(a), ask[r].stage # "log", a.stage # "log"
  PROVE  StakeInv'
<1>1. Asks /\ (\A u \in Users : Explained(u)) /\ (\A q \in Requests : Holds(ask[q]))
  BY DEF AllInv, StakeInv, SweepInv
<1>2. \A u \in Users : \A t : Told(u, t)' = Told(u, t)
  BY <1>1, ToldSame DEF logs
<1>3. \A u \in Users : Explained(u)'
  BY <1>1, <1>2, Undisturbed DEF books
<1>4. Booked' /\ SweepHolds(sweep', queue')
  BY DEF AllInv, StakeInv, Booked, books, logs
<1> QED
  BY <1>1, <1>3, <1>4, HeldBy DEF StakeInv

LEMMA NoAskHolds == Holds(NoAsk)
  BY DEF Holds, NoAsk

LEMMA DispatchQuiet ==
  ASSUME AllInv, NEW u \in Users, NEW r \in Requests, StakeDispatch(u, r)
  PROVE  StakeInv'
<1>1. PICK wei \in Weis, kind \in Kinds, v \in Validators :
        Ask(r, [NoAsk EXCEPT !.stage = IF kind = "undelegate" THEN "find" ELSE "read",
                             !.who = u, !.kind = kind, !.wei = wei, !.validator = v])
  BY DEF StakeDispatch, Kinds
<1> DEFINE s == IF kind = "undelegate" THEN "find" ELSE "read"
           a == [NoAsk EXCEPT !.stage = s, !.who = u, !.kind = kind, !.wei = wei, !.validator = v]
<1>2. a.stage \in {"find", "read"} /\ (a.stage = "read" => a.kind # "undelegate")
  BY DEF NoAsk
<1>3. Ask(r, a) /\ UNCHANGED <<books, logs, sweep, slips>> /\ ask[r].stage # "log"
  BY <1>1 DEF StakeDispatch, NoAsk
<1> HIDE DEF a
<1>4. Holds(a) /\ a.stage # "log"
  BY <1>2 DEF Holds
<1> QED
  BY <1>3, <1>4, RequestQuiet

LEMMA ReadQuiet ==
  ASSUME AllInv, NEW r \in Requests, ReadStake(r) \/ FindDelegation(r) \/ ReadRestake(r)
  PROVE  StakeInv'
<1> DEFINE a == ask[r]
<1>1. UNCHANGED <<books, logs, sweep, slips>> /\ a.stage # "log" /\ a.stage # "idle"
  BY DEF ReadStake, FindDelegation, ReadRestake
<1>2. AskOk(a) /\ Holds(a) /\ a.who \in Users
  BY <1>1 DEF AllInv, SweepInv, StakeInv, Asks, AskOk
<1>3. staked[a.who] \in Int /\ \A d \in deleg[a.who] : Recorded(d)
  BY <1>2 DEF AllInv, StakeInv, Booked, BookOk
<1>4. CASE Done(r)
  <2>1. NoAsk.stage # "log" /\ Ask(r, NoAsk)
    BY <1>4 DEF NoAsk, Done
  <2> QED
    BY <1>1, <2>1, NoAskHolds, RequestQuiet
<1>5. CASE ReadStake(r) /\ ~Done(r)
  <2> DEFINE b == [a EXCEPT !.stage = "write", !.bal = staked[a.who], !.at = now]
  <2>1. Ask(r, b) /\ a.stage = "read"
    BY <1>5 DEF ReadStake
  <2>2. b.stage = "write" /\ b.kind = a.kind /\ b.bal = staked[a.who]
    BY <1>2 DEF AskOk
  <2>3. Holds(b) /\ b.stage # "log"
    <3> HIDE DEF b
    <3> QED
      BY <1>2, <1>3, <2>1, <2>2 DEF Holds
  <2> HIDE DEF b
  <2> QED
    BY <1>1, <2>1, <2>3, RequestQuiet
<1>6. CASE FindDelegation(r) /\ ~Done(r)
  <2>1. PICK d \in deleg[a.who] : d.wei >= a.wei /\ Ask(r, [a EXCEPT !.stage = "restake", !.old = d])
    BY <1>6 DEF FindDelegation
  <2> DEFINE b == [a EXCEPT !.stage = "restake", !.old = d]
  <2>2. b.stage = "restake" /\ b.old = d /\ b.wei = a.wei
    BY <1>2 DEF AskOk
  <2>3. Holds(b) /\ b.stage # "log"
    <3> HIDE DEF b
    <3> QED
      BY <1>3, <2>1, <2>2 DEF Holds
  <2>4. Ask(r, b)
    BY <2>1
  <2> HIDE DEF b
  <2> QED
    BY <1>1, <2>4, <2>3, RequestQuiet
<1>7. CASE ReadRestake(r)
  <2> DEFINE b == [a EXCEPT !.stage = "write", !.bal = staked[a.who]]
  <2>1. Ask(r, b) /\ a.stage = "restake"
    BY <1>7 DEF ReadRestake
  <2>2. b.stage = "write" /\ b.old = a.old /\ b.wei = a.wei /\ b.bal = staked[a.who]
    BY <1>2 DEF AskOk
  <2>3. Holds(b) /\ b.stage # "log"
    <3> HIDE DEF b
    <3> QED
      BY <1>2, <1>3, <2>1, <2>2 DEF Holds
  <2> HIDE DEF b
  <2> QED
    BY <1>1, <2>1, <2>3, RequestQuiet
<1> QED
  BY <1>4, <1>5, <1>6, <1>7

LEMMA BookedWrite ==
  ASSUME Booked, NEW u \in Users, NEW n \in Int, NEW D, NEW Q, NEW S,
         Weighed(D), Weighed(Q), \A x \in D : Recorded(x),
         staked' = [staked EXCEPT ![u] = n], deleg' = [deleg EXCEPT ![u] = D],
         queue' = [queue EXCEPT ![u] = Q], slips' = [slips EXCEPT ![u] = @ \cup S], UNCHANGED logs
  PROVE  /\ Booked' /\ (\A v \in Users : slips[v] \subseteq slips'[v])
         /\ staked'[u] = n /\ deleg'[u] = D /\ queue'[u] = Q /\ slips'[u] = slips[u] \cup S
         /\ \A v \in Users \ {u} : /\ staked'[v] = staked[v] /\ deleg'[v] = deleg[v]
                                   /\ queue'[v] = queue[v]
<1>1. /\ \A v \in Users : staked'[v] = IF v = u THEN n ELSE staked[v]
      /\ \A v \in Users : deleg'[v] = IF v = u THEN D ELSE deleg[v]
      /\ \A v \in Users : queue'[v] = IF v = u THEN Q ELSE queue[v]
      /\ \A v \in Users : slips'[v] = IF v = u THEN slips[u] \cup S ELSE slips[v]
      /\ events' = events /\ pushed' = pushed
  BY DEF Booked, logs
<1>2. \A v \in Users : BookOk(v, staked, deleg, queue, events, pushed)
  BY DEF Booked
<1>3. \A v \in Users : BookOk(v, staked', deleg', queue', events', pushed')
  BY <1>1, <1>2 DEF BookOk
<1>4. Booked'
  BY <1>1, <1>3 DEF Booked
<1> QED
  BY <1>1, <1>4

LEMMA Added ==
  ASSUME NEW S, Weighed(S), NEW e, e.wei \in Int
  PROVE  Weighed(S \cup {e}) /\ (e \notin S => SumWei(S \cup {e}) = SumWei(S) + e.wei)
<1>1. CASE e \in S
  <2>1. S \cup {e} = S
    BY <1>1
  <2> QED
    BY <1>1, <2>1
<1>2. CASE e \notin S
  BY <1>2, SumWith
<1> QED
  BY <1>1, <1>2

\* What a request about to write holds.
LEMMA AboutToWrite ==
  ASSUME AllInv, NEW r \in Requests, ask[r].stage = "write"
  PROVE  LET a == ask[r]
             b == [a EXCEPT !.stage = "log"]
         IN /\ AskOk(a) /\ a.who \in Users /\ a.kind \in Kinds /\ a.bal \in Int /\ a.wei \in Int
            /\ a.at \in Nat /\ Holds(a) /\ AskOk(b) /\ Holds(b)
            /\ b.stage = "log" /\ b.who = a.who /\ b.kind = a.kind /\ b.wei = a.wei
            /\ BookOk(a.who, staked, deleg, queue, events, pushed) /\ staked[a.who] \in Int
<1> DEFINE a == ask[r]
           b == [a EXCEPT !.stage = "log"]
<1>1. AskOk(a) /\ Holds(a)
  BY DEF AllInv, SweepInv, Asks, StakeInv
<1>2. a.who \in Users /\ a.kind \in Kinds /\ a.bal \in Int /\ a.at \in Nat /\ a.wei \in Int
  BY <1>1, WeisAre DEF AskOk, Holds
<1>3. b.stage = "log" /\ b.who = a.who /\ b.kind = a.kind /\ b.wei = a.wei
  BY <1>1 DEF AskOk
<1>4. AskOk(b)
  BY <1>1, Staged
<1>5. Holds(b)
  <2> HIDE DEF b
  <2> QED
    BY <1>3 DEF Holds
<1>6. BookOk(a.who, staked, deleg, queue, events, pushed) /\ staked[a.who] \in Int
  BY <1>2 DEF AllInv, StakeInv, Booked, BookOk
<1> QED
  BY <1>1, <1>2, <1>3, <1>4, <1>5, <1>6

\* What is left to prove once the books of the user were written and the
\* request is about to tell.
LEMMA WriteFrame ==
  ASSUME AllInv, NEW r \in Requests, NEW a, AskOk(a), Holds(a), Ask(r, a), a.stage = "log",
         a.who \in Users, ask[r].stage # "log",
         UNCHANGED <<events, sweep>>, Booked', \A v \in Users : slips[v] \subseteq slips'[v],
         \A v \in Users \ {a.who} : /\ staked'[v] = staked[v] /\ deleg'[v] = deleg[v]
                                    /\ queue'[v] = queue[v],
         \A v \in Users : queue[v] \subseteq queue'[v],
         Explained(a.who)'
  PROVE  StakeInv'
<1>1. ASSUME NEW v \in Users \ {a.who}
      PROVE  Explained(v)'
  <2>1. \A t : Told(v, t)' = Told(v, t)
    BY <1>1, ToldMore
  <2>2. Explained(v)
    BY <1>1 DEF AllInv, StakeInv
  <2> QED
    BY <1>1, <2>1, <2>2, Undisturbed
<1>2. SweepHolds(sweep', queue')
  <2>1. SweepHolds(sweep, queue) /\ sweep' = sweep /\ SweepOk(sweep)
    BY DEF AllInv, StakeInv, SweepInv
  <2> QED
    BY <2>1 DEF SweepHolds, SweepOk
<1>3. \A q \in Requests : Holds(ask'[q])
  BY HeldBy DEF AllInv, StakeInv, SweepInv
<1>4. \A v \in Users : Explained(v)'
  BY <1>1
<1> QED
  BY <1>2, <1>3, <1>4 DEF StakeInv

\* By how much an event of a type moves the delegations, the queue and the
\* balance.
DelegDelta(k, n) == IF k = "delegate" THEN n ELSE IF k = "undelegate" THEN 0 - n ELSE 0
QueueDelta(k, n) == IF k = "cWithdraw" THEN n ELSE IF k = "withdrawalComplete" THEN 0 - n ELSE 0
FreeDelta(k, n) == IF k \in {"cDeposit", "undelegate"} THEN n
                   ELSE IF k \in {"cWithdraw", "delegate"} THEN 0 - n ELSE 0

LEMMA Moving ==
  ASSUME NEW u, staked[u] \in Int, SumWei(deleg[u]) \in Int, SumWei(queue[u]) \in Int,
         \A t : Told(u, t) \in Int, NEW k, NEW n \in Int,
         \A t : Told(u, t)' = IF t = k THEN Told(u, t) + n ELSE Told(u, t)
  PROVE  /\ SumWei(deleg'[u]) = SumWei(deleg[u]) + DelegDelta(k, n) => DelegGap(u)' = DelegGap(u)
         /\ SumWei(queue'[u]) = SumWei(queue[u]) + QueueDelta(k, n) => QueueGap(u)' = QueueGap(u)
         /\ staked'[u] = staked[u] + FreeDelta(k, n) => FreeGap(u)' = FreeGap(u)
<1>1. /\ Told(u, "cDeposit") \in Int /\ Told(u, "cWithdraw") \in Int /\ Told(u, "delegate") \in Int
      /\ Told(u, "undelegate") \in Int /\ Told(u, "withdrawalComplete") \in Int
  OBVIOUS
<1>2. /\ Told(u, "cDeposit")' = Told(u, "cDeposit") + (IF k = "cDeposit" THEN n ELSE 0)
      /\ Told(u, "cWithdraw")' = Told(u, "cWithdraw") + (IF k = "cWithdraw" THEN n ELSE 0)
      /\ Told(u, "delegate")' = Told(u, "delegate") + (IF k = "delegate" THEN n ELSE 0)
      /\ Told(u, "undelegate")' = Told(u, "undelegate") + (IF k = "undelegate" THEN n ELSE 0)
      /\ Told(u, "withdrawalComplete")' =
           Told(u, "withdrawalComplete") + (IF k = "withdrawalComplete" THEN n ELSE 0)
  BY <1>1
<1>3. SumWei(deleg'[u]) = SumWei(deleg[u]) + DelegDelta(k, n) => DelegGap(u)' = DelegGap(u)
  BY <1>1, <1>2 DEF DelegGap, DelegDelta
<1>4. SumWei(queue'[u]) = SumWei(queue[u]) + QueueDelta(k, n) => QueueGap(u)' = QueueGap(u)
  BY <1>1, <1>2 DEF QueueGap, QueueDelta
<1>5. staked'[u] = staked[u] + FreeDelta(k, n) => FreeGap(u)' = FreeGap(u)
  BY <1>1, <1>2 DEF FreeGap, FreeDelta
<1> QED
  BY <1>3, <1>4, <1>5

LEMMA Moves ==
  ASSUME NEW u, staked[u] \in Int, SumWei(deleg[u]) \in Int, SumWei(queue[u]) \in Int,
         \A t : Told(u, t) \in Int, NEW k, NEW n \in Int,
         \A t : Told(u, t)' = IF t = k THEN Told(u, t) + n ELSE Told(u, t),
         Explained(u), slips[u] \subseteq slips'[u],
         Free(slips'[u], {"trimmed", "untold", "twin", "gone"}) =>
           SumWei(deleg'[u]) = SumWei(deleg[u]) + DelegDelta(k, n),
         Free(slips'[u], {"trimmed", "untold", "twin"}) =>
           SumWei(queue'[u]) = SumWei(queue[u]) + QueueDelta(k, n),
         Free(slips'[u], {"trimmed", "untold", "overwrite"}) =>
           staked'[u] = staked[u] + FreeDelta(k, n)
  PROVE  Explained(u)'
<1>1. /\ SumWei(deleg'[u]) = SumWei(deleg[u]) + DelegDelta(k, n) => DelegGap(u)' = DelegGap(u)
      /\ SumWei(queue'[u]) = SumWei(queue[u]) + QueueDelta(k, n) => QueueGap(u)' = QueueGap(u)
      /\ staked'[u] = staked[u] + FreeDelta(k, n) => FreeGap(u)' = FreeGap(u)
  BY Moving
<1> QED
  BY <1>1, Still

LEMMA WriteExplain ==
  ASSUME AllInv, NEW r \in Requests, WriteStake(r)
  PROVE  StakeInv'
<1>0. PICK a : a = ask[r]
  OBVIOUS
<1> DEFINE u == a.who
           b == [a EXCEPT !.stage = "log"]
           w == Withdrawal(a)
           d == Delegation(a)
           n == IF a.kind = "cDeposit" THEN a.bal + a.wei ELSE a.bal - a.wei
           Q == queue[u] \cup (IF a.kind = "cWithdraw" THEN {w} ELSE {})
           D == deleg[u] \cup (IF a.kind = "delegate" THEN {d} ELSE {})
           S == Overwritten(a) \cup (IF a.kind = "cWithdraw" THEN Twin(w, queue[u]) ELSE {})
                  \cup (IF a.kind = "delegate" THEN Twin(d, deleg[u]) ELSE {})
<1>1. /\ a.stage = "write" /\ a.kind # "undelegate" /\ Ask(r, b)
      /\ staked' = [staked EXCEPT ![u] = n] /\ deleg' = [deleg EXCEPT ![u] = D]
      /\ queue' = [queue EXCEPT ![u] = Q] /\ slips' = [slips EXCEPT ![u] = @ \cup S]
      /\ UNCHANGED logs /\ UNCHANGED <<events, sweep>>
  <2>1. Slip(u, S)
    BY <1>0 DEF WriteStake
  <2>2. slips' = [slips EXCEPT ![u] = @ \cup S]
    BY <2>1 DEF Slip
  <2>3. queue' = [queue EXCEPT ![u] = Q] /\ deleg' = [deleg EXCEPT ![u] = D]
    BY <1>0 DEF WriteStake
  <2> QED
    BY <1>0, <2>2, <2>3 DEF WriteStake, logs
<1>2. /\ AskOk(b) /\ Holds(b) /\ b.stage = "log" /\ b.who = u /\ b.kind = a.kind /\ b.wei = a.wei
      /\ u \in Users /\ a.kind \in Kinds /\ a.bal \in Int /\ a.wei \in Int /\ a.at \in Nat
      /\ BookOk(u, staked, deleg, queue, events, pushed) /\ staked[u] \in Int
  BY <1>0, <1>1, AboutToWrite
<1>3. w.wei = a.wei /\ d.wei = a.wei
  BY DEF Withdrawal, Delegation
<1>4. Recorded(d)
  <2>1. d \in [validator : {d.validator}, wei : {d.wei}, until : {d.until}, at : {d.at}]
    BY DEF Delegation
  <2> QED
    BY <1>2, <1>3, <2>1 DEF Recorded
<1> HIDE DEF w, d
<1>5. Weighed(queue[u]) /\ Weighed(deleg[u]) /\ \A x \in deleg[u] : Recorded(x)
  BY <1>2 DEF BookOk
<1>6. /\ Weighed(queue[u] \cup {w})
      /\ w \notin queue[u] => SumWei(queue[u] \cup {w}) = SumWei(queue[u]) + a.wei
      /\ Weighed(deleg[u] \cup {d})
      /\ d \notin deleg[u] => SumWei(deleg[u] \cup {d}) = SumWei(deleg[u]) + a.wei
  BY <1>2, <1>3, <1>5, Added
<1>7. n \in Int /\ Weighed(Q) /\ Weighed(D) /\ \A x \in D : Recorded(x)
  <2>1. n \in Int
    BY <1>2
  <2>2. CASE a.kind = "cWithdraw"
    <3>1. Q = queue[u] \cup {w} /\ D = deleg[u]
      BY <2>2
    <3> QED
      BY <1>5, <1>6, <2>1, <3>1
  <2>3. CASE a.kind = "delegate"
    <3>1. Q = queue[u] /\ D = deleg[u] \cup {d}
      BY <2>3
    <3>2. \A x \in D : Recorded(x)
      BY <1>4, <1>5, <3>1
    <3> QED
      BY <1>5, <1>6, <2>1, <3>1, <3>2
  <2>4. CASE a.kind \notin {"cWithdraw", "delegate"}
    <3>1. Q = queue[u] /\ D = deleg[u]
      BY <2>4
    <3> QED
      BY <1>5, <2>1, <3>1
  <2> QED
    BY <2>2, <2>3, <2>4
<1>8. /\ Overwritten(a) \subseteq S
      /\ a.kind = "cWithdraw" => Q = queue[u] \cup {w} /\ Twin(w, queue[u]) \subseteq S
      /\ a.kind # "cWithdraw" => Q = queue[u]
      /\ a.kind = "delegate" => D = deleg[u] \cup {d} /\ Twin(d, deleg[u]) \subseteq S
      /\ a.kind # "delegate" => D = deleg[u]
      /\ n = a.bal + FreeDelta(a.kind, a.wei)
  <2>1. n = a.bal + FreeDelta(a.kind, a.wei)
    BY <1>1, <1>2 DEF FreeDelta, Kinds
  <2> QED
    BY <2>1
<1> HIDE DEF n, Q, D, S, b
<1>9. /\ Booked' /\ (\A v \in Users : slips[v] \subseteq slips'[v])
      /\ staked'[u] = n /\ deleg'[u] = D /\ queue'[u] = Q /\ slips'[u] = slips[u] \cup S
      /\ \A v \in Users \ {u} : /\ staked'[v] = staked[v] /\ deleg'[v] = deleg[v]
                                /\ queue'[v] = queue[v]
  <2>1. Booked
    BY DEF AllInv, StakeInv
  <2> HIDE DEF u
  <2> QED
    BY <1>1, <1>2, <1>7, <2>1, BookedWrite
<1>10. \A t : Told(u, t)' = IF t = a.kind THEN Told(u, t) + a.wei ELSE Told(u, t)
  <2>1. \A t : Told(u, t)' = IF u = b.who /\ t = b.kind THEN Told(u, t) + b.wei ELSE Told(u, t)
    <3>1. /\ AskOk(b) /\ Ask(r, b) /\ ask[r].stage # "log" /\ b.stage = "log" /\ u \in Users
          /\ UNCHANGED <<events, sweep>>
      BY <1>0, <1>1, <1>2
    <3> HIDE DEF u
    <3> QED
      BY <3>1, ToldMore
  <2> QED
    BY <1>2, <2>1
<1>11. /\ \A t : Told(u, t) \in Int
       /\ SumWei(deleg[u]) \in Int /\ SumWei(queue[u]) \in Int /\ Explained(u)
  BY <1>2, Numbers DEF AllInv, StakeInv
<1>12. \A s : Free(slips'[u], s) => Free(S, s)
  BY <1>9 DEF Free
<1>13. Free(slips'[u], {"trimmed", "untold", "overwrite"}) =>
         staked'[u] = staked[u] + FreeDelta(a.kind, a.wei)
  <2>1. Free(S, {"trimmed", "untold", "overwrite"}) => staked[u] = a.bal
    BY <1>8 DEF Overwritten, Free
  <2> QED
    BY <1>8, <1>9, <1>12, <2>1
<1>14. Free(slips'[u], {"trimmed", "untold", "twin"}) =>
         SumWei(queue'[u]) = SumWei(queue[u]) + QueueDelta(a.kind, a.wei)
  <2>1. CASE a.kind = "cWithdraw"
    <3>1. Free(S, {"trimmed", "untold", "twin"}) => w \notin queue[u]
      BY <1>8, <2>1 DEF Twin, Free
    <3>2. QueueDelta(a.kind, a.wei) = a.wei
      BY <2>1 DEF QueueDelta
    <3> QED
      BY <1>6, <1>8, <1>9, <1>12, <2>1, <3>1, <3>2
  <2>2. CASE a.kind # "cWithdraw"
    <3>1. QueueDelta(a.kind, a.wei) = 0
      BY <1>2, <2>2 DEF QueueDelta, Kinds
    <3> QED
      BY <1>8, <1>9, <1>11, <2>2, <3>1
  <2> QED
    BY <2>1, <2>2
<1>15. Free(slips'[u], {"trimmed", "untold", "twin", "gone"}) =>
         SumWei(deleg'[u]) = SumWei(deleg[u]) + DelegDelta(a.kind, a.wei)
  <2>1. CASE a.kind = "delegate"
    <3>1. Free(S, {"trimmed", "untold", "twin", "gone"}) => d \notin deleg[u]
      BY <1>8, <2>1 DEF Twin, Free
    <3>2. DelegDelta(a.kind, a.wei) = a.wei
      BY <2>1 DEF DelegDelta
    <3> QED
      BY <1>6, <1>8, <1>9, <1>12, <2>1, <3>1, <3>2
  <2>2. CASE a.kind # "delegate"
    <3>1. DelegDelta(a.kind, a.wei) = 0
      BY <1>1, <2>2 DEF DelegDelta
    <3> QED
      BY <1>8, <1>9, <1>11, <2>2, <3>1
  <2> QED
    BY <2>1, <2>2
<1> HIDE DEF u
<1>16. Explained(u)'
  <2>1. staked[u] \in Int /\ a.wei \in Int /\ slips[u] \subseteq slips'[u]
    BY <1>2, <1>9
  <2> DEFINE k == a.kind
             m == a.wei
  <2>2. \A t : Told(u, t)' = IF t = k THEN Told(u, t) + m ELSE Told(u, t)
    BY <1>10
  <2>3. /\ Free(slips'[u], {"trimmed", "untold", "overwrite"}) =>
             staked'[u] = staked[u] + FreeDelta(k, m)
        /\ Free(slips'[u], {"trimmed", "untold", "twin"}) =>
             SumWei(queue'[u]) = SumWei(queue[u]) + QueueDelta(k, m)
        /\ Free(slips'[u], {"trimmed", "untold", "twin", "gone"}) =>
             SumWei(deleg'[u]) = SumWei(deleg[u]) + DelegDelta(k, m)
    BY <1>13, <1>14, <1>15
  <2>4. m \in Int
    BY <2>1
  <2> HIDE DEF k, m
  <2> QED
    BY <1>11, <2>1, <2>2, <2>3, <2>4, Moves
<1>17. \A v \in Users : queue[v] \subseteq queue'[v]
  <2>1. queue[u] \subseteq Q
    BY <1>8
  <2> QED
    BY <1>9, <2>1
<1>18. ask[r].stage # "log" /\ Ask(r, b)
  BY <1>0, <1>1
<1>19. \A v \in Users \ {b.who} : /\ staked'[v] = staked[v] /\ deleg'[v] = deleg[v]
                                /\ queue'[v] = queue[v]
  BY <1>2, <1>9
<1>20. Explained(b.who)' /\ b.who \in Users
  BY <1>2, <1>16
<1> QED
  BY <1>1, <1>2, <1>9, <1>17, <1>18, <1>19, <1>20, WriteFrame

LEMMA Reduced ==
  ASSUME NEW S, Weighed(S), \A x \in S : Recorded(x), NEW o, Recorded(o), NEW n \in Int, o.wei >= n
  PROVE  LET R == IF o.wei > n THEN {[o EXCEPT !.wei = @ - n]} ELSE {}
             D == (S \ {o}) \cup R
         IN /\ Weighed(D) /\ \A x \in D : Recorded(x)
            /\ o \in S /\ R \cap S = {} => SumWei(D) = SumWei(S) - n
<1> DEFINE R == IF o.wei > n THEN {[o EXCEPT !.wei = @ - n]} ELSE {}
           T == S \ {o}
           D == T \cup R
<1>1. T \in SUBSET S /\ o.wei \in Int
  BY DEF Recorded
<1>2. Weighed(T) /\ \A x \in T : Recorded(x)
  BY <1>1, Smaller
<1>3. SumWei(T) \in Int /\ SumWei(S) \in Int
  BY <1>2, SumType
<1>4. o \in S => SumWei(S) = o.wei + SumWei(T)
  BY SumWithout
<1>5. CASE o.wei > n
  <2> DEFINE e == [o EXCEPT !.wei = @ - n]
  <2>1. e.wei = o.wei - n /\ e.validator = o.validator /\ e.until = o.until /\ e.at = o.at
    BY DEF Recorded
  <2>2. e \in [validator : {e.validator}, wei : {e.wei}, until : {e.until}, at : {e.at}]
    BY <2>1 DEF Recorded
  <2>3. R = {e} /\ D = T \cup {e}
    BY <1>5
  <2> HIDE DEF e, R, D, T
  <2>4. e.wei \in Int
    BY <1>1, <2>1
  <2>5. Recorded(e)
    BY <2>2, <2>4 DEF Recorded
  <2>6. Weighed(D) /\ (e \notin T => SumWei(D) = SumWei(T) + e.wei)
    BY <1>2, <2>3, <2>4, Added
  <2>7. \A x \in D : Recorded(x)
    BY <1>2, <2>3, <2>5
  <2>8. R \cap S = {} => e \notin T
    BY <1>1, <2>3
  <2>9. o \in S /\ R \cap S = {} => SumWei(D) = SumWei(S) - n
    BY <1>1, <1>3, <1>4, <2>1, <2>6, <2>8
  <2> QED
    BY <2>6, <2>7, <2>9 DEF D, R, T
<1>6. CASE ~(o.wei > n)
  <2>1. o.wei = n /\ D = T
    BY <1>1, <1>6
  <2>2. Weighed(D) /\ \A x \in D : Recorded(x)
    BY <1>2, <2>1
  <2>3. o \in S => SumWei(D) = SumWei(S) - n
    <3> HIDE DEF T, D
    <3> QED
      BY <1>3, <1>4, <2>1
  <2> QED
    BY <2>2, <2>3
<1> QED
  BY <1>5, <1>6

LEMMA UndelegateExplain ==
  ASSUME AllInv, NEW r \in Requests, Undelegate(r)
  PROVE  StakeInv'
<1>0. PICK a : a = ask[r]
  OBVIOUS
<1> DEFINE u == a.who
           b == [a EXCEPT !.stage = "log"]
           n == a.bal + a.wei
           o == a.old
           R == Remainder(a)
           Q == queue[u]
           D == (deleg[u] \ {o}) \cup R
           S == Overwritten(a) \cup (IF o \in deleg[u] THEN {} ELSE {"gone"})
                  \cup UNION {Twin(e, deleg[u]) : e \in R}
<1>1. /\ a.stage = "write" /\ a.kind = "undelegate" /\ Ask(r, b)
      /\ staked' = [staked EXCEPT ![u] = n] /\ deleg' = [deleg EXCEPT ![u] = D]
      /\ queue' = queue /\ slips' = [slips EXCEPT ![u] = @ \cup S]
      /\ UNCHANGED logs /\ UNCHANGED <<events, sweep>>
  <2>1. Slip(u, S)
    BY <1>0 DEF Undelegate
  <2>2. slips' = [slips EXCEPT ![u] = @ \cup S]
    BY <2>1 DEF Slip
  <2>3. deleg' = [deleg EXCEPT ![u] = D]
    BY <1>0 DEF Undelegate
  <2> QED
    BY <1>0, <2>2, <2>3 DEF Undelegate, logs
<1>2. /\ AskOk(b) /\ Holds(b) /\ b.stage = "log" /\ b.who = u /\ b.kind = a.kind /\ b.wei = a.wei
      /\ u \in Users /\ a.bal \in Int /\ a.wei \in Int /\ Holds(a)
      /\ BookOk(u, staked, deleg, queue, events, pushed) /\ staked[u] \in Int
  BY <1>0, <1>1, AboutToWrite
<1>3. Recorded(o) /\ o.wei >= a.wei /\ R = IF o.wei > a.wei THEN {[o EXCEPT !.wei = @ - a.wei]} ELSE {}
  BY <1>1, <1>2 DEF Holds, Remainder
<1>4. Weighed(Q) /\ Weighed(deleg[u]) /\ \A x \in deleg[u] : Recorded(x)
  BY <1>2 DEF BookOk
<1>5. n \in Int
  BY <1>2
<1>6. queue' = [queue EXCEPT ![u] = Q]
  BY <1>1, <1>2 DEF AllInv, StakeInv, Booked
<1>7. /\ Overwritten(a) \subseteq S /\ (o \notin deleg[u] => "gone" \in S)
      /\ \A e \in R : Twin(e, deleg[u]) \subseteq S
  OBVIOUS
<1> HIDE DEF o, R, b, n, S, Q
<1>8. /\ Weighed(D) /\ \A x \in D : Recorded(x)
      /\ o \in deleg[u] /\ R \cap deleg[u] = {} => SumWei(D) = SumWei(deleg[u]) - a.wei
  BY <1>2, <1>3, <1>4, Reduced
<1> HIDE DEF D
<1>9. /\ Booked' /\ (\A v \in Users : slips[v] \subseteq slips'[v])
      /\ staked'[u] = n /\ deleg'[u] = D /\ queue'[u] = Q /\ slips'[u] = slips[u] \cup S
      /\ \A v \in Users \ {u} : /\ staked'[v] = staked[v] /\ deleg'[v] = deleg[v]
                                /\ queue'[v] = queue[v]
  <2>1. Booked
    BY DEF AllInv, StakeInv
  <2> HIDE DEF u
  <2> QED
    BY <1>1, <1>2, <1>4, <1>5, <1>6, <1>8, <2>1, BookedWrite
<1>10. \A t : Told(u, t)' = IF t = "undelegate" THEN Told(u, t) + a.wei ELSE Told(u, t)
  <2>1. \A t : Told(u, t)' = IF u = b.who /\ t = b.kind THEN Told(u, t) + b.wei ELSE Told(u, t)
    <3>1. /\ AskOk(b) /\ Ask(r, b) /\ ask[r].stage # "log" /\ b.stage = "log" /\ u \in Users
          /\ UNCHANGED <<events, sweep>>
      BY <1>0, <1>1, <1>2
    <3> HIDE DEF u
    <3> QED
      BY <3>1, ToldMore
  <2> QED
    BY <1>1, <1>2, <2>1
<1>11. /\ \A t : Told(u, t) \in Int
       /\ SumWei(deleg[u]) \in Int /\ SumWei(queue[u]) \in Int /\ Explained(u)
  BY <1>2, Numbers DEF AllInv, StakeInv
<1>12. \A s : Free(slips'[u], s) => Free(S, s)
  BY <1>9 DEF Free
<1>13. Free(slips'[u], {"trimmed", "untold", "overwrite"}) =>
         staked'[u] = staked[u] + FreeDelta("undelegate", a.wei)
  <2>1. Free(S, {"trimmed", "untold", "overwrite"}) => staked[u] = a.bal
    BY <1>7 DEF Overwritten, Free
  <2>2. FreeDelta("undelegate", a.wei) = a.wei
    BY DEF FreeDelta
  <2> QED
    BY <1>9, <1>12, <2>1, <2>2 DEF n
<1>14. queue'[u] = queue[u] /\ QueueDelta("undelegate", a.wei) = 0
  BY <1>1 DEF QueueDelta
<1>15. Free(slips'[u], {"trimmed", "untold", "twin", "gone"}) =>
         SumWei(deleg'[u]) = SumWei(deleg[u]) + DelegDelta("undelegate", a.wei)
  <2>1. Free(S, {"trimmed", "untold", "twin", "gone"}) => o \in deleg[u]
    BY <1>7 DEF Free
  <2>2. ASSUME Free(S, {"trimmed", "untold", "twin", "gone"})
        PROVE  R \cap deleg[u] = {}
    <3>1. \A e \in R : e \in deleg[u] => "twin" \in S
      BY <1>7 DEF Twin
    <3> QED
      BY <2>2, <3>1 DEF Free
  <2>3. DelegDelta("undelegate", a.wei) = 0 - a.wei
    BY DEF DelegDelta
  <2> QED
    BY <1>2, <1>8, <1>9, <1>11, <1>12, <2>1, <2>2, <2>3
<1> HIDE DEF u
<1>16. Explained(u)'
  <2>1. staked[u] \in Int /\ a.wei \in Int /\ slips[u] \subseteq slips'[u]
    BY <1>2, <1>9
  <2> DEFINE k == "undelegate"
             m == a.wei
  <2>2. \A t : Told(u, t)' = IF t = k THEN Told(u, t) + m ELSE Told(u, t)
    BY <1>10
  <2>3. /\ Free(slips'[u], {"trimmed", "untold", "overwrite"}) =>
             staked'[u] = staked[u] + FreeDelta(k, m)
        /\ Free(slips'[u], {"trimmed", "untold", "twin"}) =>
             SumWei(queue'[u]) = SumWei(queue[u]) + QueueDelta(k, m)
        /\ Free(slips'[u], {"trimmed", "untold", "twin", "gone"}) =>
             SumWei(deleg'[u]) = SumWei(deleg[u]) + DelegDelta(k, m)
    BY <1>11, <1>13, <1>14, <1>15
  <2>4. m \in Int
    BY <2>1
  <2> HIDE DEF k, m
  <2> QED
    BY <1>11, <2>1, <2>2, <2>3, <2>4, Moves
<1>17. \A v \in Users : queue[v] \subseteq queue'[v]
  BY <1>1
<1>18. ask[r].stage # "log" /\ Ask(r, b)
  BY <1>0, <1>1
<1>19. \A v \in Users \ {b.who} : /\ staked'[v] = staked[v] /\ deleg'[v] = deleg[v]
                                /\ queue'[v] = queue[v]
  BY <1>2, <1>9
<1>20. Explained(b.who)' /\ b.who \in Users
  BY <1>2, <1>16
<1> QED
  BY <1>1, <1>2, <1>9, <1>17, <1>18, <1>19, <1>20, WriteFrame

-----------------------------------------------------------------------------
(* The list, and the sweep.                                                *)

\* A numbered event is added, and is the only one that is new.
LEMMA Pushed ==
  ASSUME Booked, NEW u \in Users, NEW t, NEW n \in Int, Push(u, t, n), UNCHANGED <<books, slips>>
  PROVE  /\ Booked' /\ \A v \in Users : v # u => events'[v] = events[v]
         /\ SumWei(OfType(events'[u], t)) = SumWei(OfType(events[u], t)) + n
         /\ \A k : k # t => OfType(events'[u], k) = OfType(events[u], k)
<1> DEFINE e == Event(pushed[u] + 1, t, n)
           E == OfType(events[u], t)
<1>1. /\ pushed' = [pushed EXCEPT ![u] = @ + 1] /\ events' = [events EXCEPT ![u] = @ \cup {e}]
      /\ UNCHANGED <<staked, deleg, queue, slips>>
  BY DEF Push, books
<1>2. BookOk(u, staked, deleg, queue, events, pushed) /\ pushed[u] \in Nat
  BY DEF Booked, BookOk
<1>3. e.number = pushed[u] + 1 /\ e.wei = n /\ e.type = t
  BY DEF Event
<1> HIDE DEF e
<1>4. e.number \in Int /\ e.wei \in Int /\ e \notin events[u]
  BY <1>2, <1>3 DEF BookOk, Numbered
<1>5. events'[u] = events[u] \cup {e} /\ pushed'[u] = pushed[u] + 1
      /\ \A v \in Users : v # u => events'[v] = events[v] /\ pushed'[v] = pushed[v]
  BY <1>1 DEF Booked
<1>6. Weighed(events'[u])
  BY <1>2, <1>4, <1>5, SumWith DEF BookOk
<1>7. Numbered(events'[u], pushed'[u]) /\ pushed'[u] \in Nat
  BY <1>2, <1>3, <1>5 DEF BookOk, Numbered
<1>8. BookOk(u, staked', deleg', queue', events', pushed')
  BY <1>1, <1>2, <1>6, <1>7 DEF BookOk
<1>9. \A v \in Users : v # u => BookOk(v, staked', deleg', queue', events', pushed')
  BY <1>1, <1>5 DEF Booked, BookOk
<1>10. Booked'
  BY <1>1, <1>8, <1>9 DEF Booked
<1>11. OfType(events'[u], t) = E \cup {e} /\ e \notin E
  BY <1>3, <1>4, <1>5 DEF OfType
<1>12. Weighed(E)
  <2>1. E \in SUBSET events[u]
    BY DEF OfType
  <2> QED
    BY <1>2, <2>1, Smaller DEF BookOk
<1>13. \A k : k # t => OfType(events'[u], k) = OfType(events[u], k)
  BY <1>3, <1>5 DEF OfType
<1> HIDE DEF E
<1>14. SumWei(OfType(events'[u], t)) = SumWei(E) + n
  BY <1>3, <1>4, <1>11, <1>12, SumWith
<1> QED
  BY <1>5, <1>10, <1>13, <1>14 DEF E

\* An event that is told already is appended: nothing more is told.
LEMMA PushExplain ==
  ASSUME AllInv, Booked', UNCHANGED <<books, slips>>, \A v \in Users : \A t : Told(v, t)' = Told(v, t),
         \A q \in Requests : Holds(ask'[q]), SweepHolds(sweep', queue')
  PROVE  StakeInv'
<1>1. \A v \in Users : Explained(v)
  BY DEF AllInv, StakeInv
<1>2. \A v \in Users : Explained(v)'
  BY <1>1, Undisturbed DEF books
<1> QED
  BY <1>2 DEF StakeInv

LEMMA AppendExplain ==
  ASSUME AllInv, NEW r \in Requests, AppendEvent(r)
  PROVE  StakeInv'
<1>0. PICK a : a = ask[r]
  OBVIOUS
<1> DEFINE b == [a EXCEPT !.stage = "trim"]
           u == a.who
           k == a.kind
<1>1. a.stage = "log" /\ Push(u, k, a.wei) /\ Ask(r, b) /\ UNCHANGED <<books, slips>> /\ sweep' = sweep
  BY <1>0 DEF AppendEvent
<1>2. /\ AskOk(a) /\ u \in Users /\ a.wei \in Int /\ Asks /\ Booked
      /\ \A q \in Requests : Holds(ask[q])
  BY <1>0, <1>1, WeisAre DEF AllInv, SweepInv, StakeInv, Asks, AskOk
<1>3. b.stage = "trim"
  BY <1>2 DEF AskOk
<1> HIDE DEF b
<1>4. Holds(b)
  BY <1>3 DEF Holds
<1> HIDE DEF u, k
<1>5. /\ Booked' /\ \A v \in Users : v # u => events'[v] = events[v]
      /\ SumWei(OfType(events'[u], k)) = SumWei(OfType(events[u], k)) + a.wei
      /\ \A t : t # k => OfType(events'[u], t) = OfType(events[u], t)
  BY <1>1, <1>2, Pushed
<1>6. SumWei(Notes(ask, u, k)) = SumWei(Notes(ask', u, k)) + a.wei
  BY <1>0, <1>1, <1>2, <1>3, NoteRemoved DEF u, k
<1>7. \A v, t : v # u \/ t # k => Notes(ask', v, t) = Notes(ask, v, t)
  <2>1. ASSUME NEW v, NEW t, v # u \/ t # k
        PROVE  Notes(ask', v, t) = Notes(ask, v, t)
    <3>1. ask[r].who # v \/ ask[r].kind # t
      BY <1>0, <2>1 DEF u, k
    <3> QED
      BY <1>1, <1>2, <1>3, <3>1, NotesKept
  <2> QED
    BY <2>1
<1>8. ASSUME NEW v \in Users, NEW t
      PROVE  Told(v, t)' = Told(v, t)
  <2>1. /\ Told(v, t) = ToldBy(events[v], ask, sweep, v, t)
        /\ Told(v, t)' = ToldBy(events'[v], ask', sweep', v, t)
    BY ToldIs
  <2>2. CASE v # u \/ t # k
    <3>1. OfType(events'[v], t) = OfType(events[v], t)
      BY <1>5, <2>2
    <3> QED
      BY <1>1, <1>7, <2>1, <2>2, <3>1 DEF ToldBy
  <2>3. CASE v = u /\ t = k
    <3> DEFINE L == SumWei(OfType(events[v], t))
               N == SumWei(Notes(ask', v, t))
               P == Paying(sweep, v, t)
    <3>1. /\ Told(v, t) = L + (SumWei(Notes(ask, v, t)) + P)
          /\ Told(v, t)' = SumWei(OfType(events'[v], t)) + (N + P)
      BY <1>1, <2>1 DEF ToldBy
    <3>2. SumWei(OfType(events'[v], t)) = L + a.wei /\ SumWei(Notes(ask, v, t)) = N + a.wei
      BY <1>5, <1>6, <2>3
    <3>3. L \in Int /\ P \in Int
      BY Numbers
    <3>4. N \in Int
      <4>1. AskOk(b)
        BY <1>0, <1>1, <1>2, Staged DEF b
      <4>2. \A q \in Requests : AskOk(ask'[q])
        BY <1>1, <1>2, <4>1, Asked DEF Asks
      <4> QED
        BY <4>2, NotesWeigh, SumType
    <3> HIDE DEF L, N, P
    <3> QED
      BY <1>2, <3>1, <3>2, <3>3, <3>4
  <2> QED
    BY <2>2, <2>3
<1>9. \A q \in Requests : Holds(ask'[q])
  BY <1>1, <1>2, <1>4, HeldBy
<1>10. SweepHolds(sweep', queue')
  BY <1>1 DEF AllInv, StakeInv, books
<1> QED
  BY <1>1, <1>5, <1>8, <1>9, <1>10, PushExplain

LEMMA LogExplain ==
  ASSUME AllInv, SweepLog
  PROVE  StakeInv'
<1>0. PICK u, n : u = sweep.who /\ n = sweep.entry.wei
  OBVIOUS
<1> DEFINE k == "withdrawalComplete"
<1>1. /\ sweep.stage = "log" /\ Push(u, k, n) /\ sweep' = [sweep EXCEPT !.stage = "trim"]
      /\ UNCHANGED <<books, slips>> /\ ask' = ask
  BY <1>0 DEF SweepLog
<1>2. /\ SweepOk(sweep) /\ u \in Users /\ n \in Int /\ Booked /\ SweepHolds(sweep, queue)
      /\ \A q \in Requests : Holds(ask[q])
  BY <1>0, <1>1, WeisAre DEF AllInv, SweepInv, StakeInv, SweepOk, Paid
<1>3. sweep'.stage = "trim" /\ sweep'.ready = sweep.ready /\ sweep'.who = sweep.who
  BY <1>1, <1>2 DEF SweepOk
<1>4. /\ Booked' /\ \A v \in Users : v # u => events'[v] = events[v]
      /\ SumWei(OfType(events'[u], k)) = SumWei(OfType(events[u], k)) + n
      /\ \A t : t # k => OfType(events'[u], t) = OfType(events[u], t)
  BY <1>1, <1>2, Pushed
<1>5. /\ \A v, t : v # u \/ t # k => Paying(sweep', v, t) = Paying(sweep, v, t)
      /\ Paying(sweep, u, k) = n /\ Paying(sweep', u, k) = 0
  BY <1>0, <1>1, <1>3 DEF Paying
<1>6. ASSUME NEW v \in Users, NEW t
      PROVE  Told(v, t)' = Told(v, t)
  <2>1. /\ Told(v, t) = ToldBy(events[v], ask, sweep, v, t)
        /\ Told(v, t)' = ToldBy(events'[v], ask, sweep', v, t)
    BY <1>1, ToldIs
  <2>2. CASE v # u \/ t # k
    <3>1. OfType(events'[v], t) = OfType(events[v], t)
      BY <1>4, <2>2
    <3> QED
      BY <1>5, <2>1, <2>2, <3>1 DEF ToldBy
  <2>3. CASE v = u /\ t = k
    <3> DEFINE L == SumWei(OfType(events[v], t))
               N == SumWei(Notes(ask, v, t))
    <3>1. Told(v, t) = L + (N + n) /\ Told(v, t)' = SumWei(OfType(events'[v], t)) + (N + 0)
      BY <1>5, <2>1, <2>3 DEF ToldBy
    <3>2. SumWei(OfType(events'[v], t)) = L + n
      BY <1>4, <2>3
    <3>3. L \in Int /\ N \in Int
      BY Numbers
    <3> HIDE DEF L, N
    <3> QED
      BY <1>2, <3>1, <3>2, <3>3
  <2> QED
    BY <2>2, <2>3
<1>7. SweepHolds(sweep', queue')
  BY <1>1, <1>2, <1>3 DEF SweepHolds, books
<1> QED
  BY <1>1, <1>2, <1>4, <1>6, <1>7, PushExplain

\* The list is cut: either it loses nothing, or it is marked.
LEMMA TrimExplain ==
  ASSUME AllInv, NEW u \in Users, Trim(u), UNCHANGED books,
         \A v \in Users : \A t : Notes(ask', v, t) = Notes(ask, v, t)
                                 /\ Paying(sweep', v, t) = Paying(sweep, v, t),
         \A q \in Requests : Holds(ask'[q]), SweepHolds(sweep', queue')
  PROVE  StakeInv'
<1> DEFINE S == IF Kept(u) = events[u] THEN {} ELSE {"trimmed"}
<1>1. events' = [events EXCEPT ![u] = Kept(u)] /\ slips' = [slips EXCEPT ![u] = @ \cup S]
      /\ pushed' = pushed /\ UNCHANGED <<staked, deleg, queue>>
  BY DEF Trim, Slip, books
<1>2. /\ Booked /\ \A v \in Users : BookOk(v, staked, deleg, queue, events, pushed) /\ Explained(v)
  BY DEF AllInv, StakeInv, Booked
<1>3. /\ \A v \in Users : events'[v] = IF v = u THEN Kept(u) ELSE events[v]
      /\ \A v \in Users : slips'[v] = IF v = u THEN slips[u] \cup S ELSE slips[v]
  BY <1>1 DEF AllInv, StakeInv, Booked
<1>4. Kept(u) \in SUBSET events[u]
  BY DEF Kept
<1>5. Weighed(Kept(u)) /\ Numbered(Kept(u), pushed[u])
  BY <1>2, <1>4, Smaller DEF BookOk, Numbered
<1>6. \A v \in Users : BookOk(v, staked', deleg', queue', events', pushed')
  BY <1>1, <1>2, <1>3, <1>5 DEF BookOk
<1>7. Booked'
  BY <1>1, <1>2, <1>6 DEF Booked
<1>8. ASSUME NEW v \in Users
      PROVE  Explained(v)'
  <2>1. CASE events'[v] = events[v]
    <3>1. \A t : Told(v, t)' = Told(v, t)
      BY <2>1, ToldIs DEF ToldBy
    <3>2. slips[v] \subseteq slips'[v] /\ Explained(v)
      BY <1>2, <1>3
    <3> QED
      BY <1>1, <3>1, <3>2, Undisturbed
  <2>2. CASE events'[v] # events[v]
    <3>1. "trimmed" \in slips'[v]
      BY <1>3, <2>2
    <3> QED
      BY <3>1, Unexplained
  <2> QED
    BY <2>1, <2>2
<1> QED
  BY <1>7, <1>8 DEF StakeInv

LEMMA RequestTrims ==
  ASSUME AllInv, NEW r \in Requests, TrimEvents(r)
  PROVE  StakeInv'
<1>0. PICK u : u = ask[r].who
  OBVIOUS
<1>1. ask[r].stage = "trim" /\ Trim(u) /\ Ask(r, NoAsk) /\ UNCHANGED books /\ sweep' = sweep
  BY <1>0 DEF TrimEvents, Done
<1>2. u \in Users /\ Asks /\ \A q \in Requests : Holds(ask[q])
  BY <1>0, <1>1 DEF AllInv, SweepInv, StakeInv, Asks, AskOk
<1>3. NoAsk.stage # "log"
  BY DEF NoAsk
<1>4. \A v \in Users : \A t : Notes(ask', v, t) = Notes(ask, v, t)
  BY <1>1, <1>2, <1>3, NotesKept
<1>5. \A q \in Requests : Holds(ask'[q])
  BY <1>1, <1>2, NoAskHolds, HeldBy
<1>6. SweepHolds(sweep', queue')
  BY <1>1 DEF AllInv, StakeInv, books
<1> QED
  BY <1>1, <1>2, <1>4, <1>5, <1>6, TrimExplain

LEMMA SweepTrims ==
  ASSUME AllInv, SweepTrim
  PROVE  StakeInv'
<1>0. PICK u : u = sweep.who
  OBVIOUS
<1>1. /\ sweep.stage = "trim" /\ Trim(u) /\ sweep' = [sweep EXCEPT !.stage = "next", !.entry = None]
      /\ UNCHANGED books /\ ask' = ask
  BY <1>0 DEF SweepTrim
<1>2. /\ SweepOk(sweep) /\ u \in Users /\ SweepHolds(sweep, queue) /\ \A q \in Requests : Holds(ask[q])
  BY <1>0, <1>1 DEF AllInv, SweepInv, StakeInv, SweepOk
<1>3. sweep'.stage = "next" /\ sweep'.ready = sweep.ready /\ sweep'.who = sweep.who
  BY <1>1, <1>2 DEF SweepOk
<1>4. \A v, t : Paying(sweep', v, t) = Paying(sweep, v, t)
  BY <1>1, <1>3 DEF Paying
<1>5. SweepHolds(sweep', queue')
  BY <1>1, <1>2, <1>3 DEF SweepHolds, books
<1> QED
  BY <1>1, <1>2, <1>4, <1>5, TrimExplain

LEMMA SweepQuiet ==
  ASSUME AllInv, (\E u \in Users : SweepScan(u)) \/ SweepNext
  PROVE  StakeInv'
<1>1. /\ UNCHANGED <<books, logs, ask, slips>> /\ sweep.stage \in {"idle", "next"}
      /\ SweepOk(sweep) /\ SweepHolds(sweep, queue)
  BY DEF SweepScan, SweepNext, AllInv, SweepInv, StakeInv
<1>2. sweep'.stage \in {"idle", "next", "pay"} /\ SweepHolds(sweep', queue)
  <2>1. ASSUME NEW u \in Users, SweepScan(u)
        PROVE  sweep'.stage = "next" /\ SweepHolds(sweep', queue)
    <3> DEFINE due == {e \in queue[u] : e.unlock <= now}
    <3>1. sweep' = [SweepIdle EXCEPT !.stage = "next", !.who = u, !.ready = due]
      BY <2>1 DEF SweepScan
    <3>2. due \subseteq queue[u]
      OBVIOUS
    <3> HIDE DEF due
    <3>3. sweep'.stage = "next" /\ sweep'.who = u /\ sweep'.ready = due
      BY <3>1 DEF SweepIdle
    <3> QED
      BY <3>2, <3>3 DEF SweepHolds
  <2>2. CASE SweepNext /\ sweep' = SweepIdle
    <3>1. sweep'.stage = "idle"
      BY <2>2 DEF SweepIdle
    <3> QED
      BY <3>1 DEF SweepHolds
  <2>3. CASE SweepNext /\ sweep' # SweepIdle
    <3> DEFINE b == Balance(hash[sweep.who]["perp"])
    <3>1. PICK e \in sweep.ready :
            sweep' = [sweep EXCEPT !.stage = "pay", !.entry = e, !.ready = @ \ {e}, !.bal = b]
      BY <2>3 DEF SweepNext
    <3> HIDE DEF b
    <3>2. /\ sweep'.stage = "pay" /\ sweep'.who = sweep.who /\ sweep'.entry = e
          /\ sweep'.ready = sweep.ready \ {e}
      BY <1>1, <3>1 DEF SweepOk
    <3>3. sweep.stage = "next"
      BY <2>3 DEF SweepNext
    <3> QED
      BY <1>1, <3>2, <3>3 DEF SweepHolds
  <2> QED
    BY <2>1, <2>2, <2>3
<1>3. \A v, t : Paying(sweep', v, t) = Paying(sweep, v, t)
  BY <1>1, <1>2 DEF Paying
<1>4. \A v \in Users : \A t : Told(v, t)' = Told(v, t)
  BY <1>1, <1>3, ToldIs DEF ToldBy, logs
<1>5. Booked' /\ (\A q \in Requests : Holds(ask'[q])) /\ SweepHolds(sweep', queue')
  BY <1>1, <1>2 DEF AllInv, StakeInv, Booked, books, logs
<1>6. \A v \in Users : Explained(v)'
  <2>1. \A v \in Users : Explained(v) /\ slips[v] \subseteq slips'[v]
    BY <1>1 DEF AllInv, StakeInv
  <2> QED
    BY <1>1, <1>4, <2>1, Undisturbed DEF books
<1> QED
  BY <1>5, <1>6 DEF StakeInv

LEMMA PayExplain ==
  ASSUME AllInv, SweepPay
  PROVE  StakeInv'
<1>0. PICK u, e : u = sweep.who /\ e = sweep.entry
  OBVIOUS
<1> DEFINE k == "withdrawalComplete"
           n == e.wei
           Q == queue[u] \ {e}
<1>1. /\ sweep.stage = "pay" /\ sweep' = [sweep EXCEPT !.stage = "log"]
      /\ queue' = [queue EXCEPT ![u] = Q] /\ staked' = staked /\ deleg' = deleg /\ ask' = ask
      /\ slips' = slips /\ UNCHANGED logs
  BY <1>0 DEF SweepPay
<1>2. /\ SweepOk(sweep) /\ u \in Users /\ n \in Int /\ Booked /\ e \in queue[u] /\ e \notin sweep.ready
      /\ sweep.ready \subseteq queue[u] /\ \A q \in Requests : Holds(ask[q])
  BY <1>0, <1>1, WeisAre DEF AllInv, SweepInv, StakeInv, SweepOk, Paid, SweepHolds
<1>3. sweep'.stage = "log" /\ sweep'.ready = sweep.ready /\ sweep'.who = u /\ sweep'.entry = e
  BY <1>0, <1>1, <1>2 DEF SweepOk
<1>4. /\ BookOk(u, staked, deleg, queue, events, pushed) /\ Explained(u)
      /\ staked[u] \in Int /\ SumWei(deleg[u]) \in Int /\ SumWei(queue[u]) \in Int
      /\ \A t : Told(u, t) \in Int
  BY <1>2, Numbers DEF AllInv, StakeInv, Booked
<1>5. Weighed(Q) /\ Weighed(deleg[u]) /\ \A x \in deleg[u] : Recorded(x)
  <2>1. Q \in SUBSET queue[u]
    OBVIOUS
  <2> QED
    BY <1>4, <2>1, Smaller DEF BookOk
<1>6. SumWei(queue[u]) = n + SumWei(Q)
  BY <1>2, <1>4, SumWithout DEF BookOk
<1>7. /\ Booked' /\ staked'[u] = staked[u] /\ deleg'[u] = deleg[u] /\ queue'[u] = Q
      /\ \A v \in Users \ {u} : /\ staked'[v] = staked[v] /\ deleg'[v] = deleg[v]
                                /\ queue'[v] = queue[v]
  <2>1. /\ staked' = [staked EXCEPT ![u] = staked[u]] /\ deleg' = [deleg EXCEPT ![u] = deleg[u]]
        /\ slips' = [slips EXCEPT ![u] = @ \cup {}]
    BY <1>1, <1>2 DEF Booked
  <2> DEFINE D == deleg[u]
             m == staked[u]
             S == {}
  <2>2. /\ m \in Int /\ Weighed(D) /\ \A x \in D : Recorded(x)
        /\ staked' = [staked EXCEPT ![u] = m] /\ deleg' = [deleg EXCEPT ![u] = D]
        /\ slips' = [slips EXCEPT ![u] = @ \cup S]
        /\ queue' = [queue EXCEPT ![u] = Q] /\ Weighed(Q) /\ UNCHANGED logs
    BY <1>1, <1>4, <1>5, <2>1
  <2> HIDE DEF Q, D, m, S
  <2>3. /\ Booked' /\ (\A v \in Users : slips[v] \subseteq slips'[v])
        /\ staked'[u] = m /\ deleg'[u] = D /\ queue'[u] = Q /\ slips'[u] = slips[u] \cup S
        /\ \A v \in Users \ {u} : /\ staked'[v] = staked[v] /\ deleg'[v] = deleg[v]
                                  /\ queue'[v] = queue[v]
    BY <1>2, <2>2, BookedWrite
  <2> QED
    BY <2>3 DEF D, m
<1>8. /\ \A v, t : v # u \/ t # k => Paying(sweep', v, t) = Paying(sweep, v, t)
      /\ Paying(sweep, u, k) = 0 /\ Paying(sweep', u, k) = n
  BY <1>0, <1>1, <1>3 DEF Paying
<1> HIDE DEF n
<1>9. ASSUME NEW v \in Users, NEW t
      PROVE  Told(v, t)' = IF v = u /\ t = k THEN Told(v, t) + n ELSE Told(v, t)
  <2> DEFINE L == SumWei(OfType(events[v], t))
             N == SumWei(Notes(ask, v, t))
  <2>1. /\ Told(v, t) = L + (N + Paying(sweep, v, t))
        /\ Told(v, t)' = L + (N + Paying(sweep', v, t))
    BY <1>1, ToldIs DEF ToldBy, logs
  <2>2. CASE v # u \/ t # k
    BY <1>8, <2>1, <2>2
  <2>3. CASE v = u /\ t = k
    <3>1. Told(v, t) = L + (N + 0) /\ Told(v, t)' = L + (N + n)
      BY <1>8, <2>1, <2>3
    <3>2. L \in Int /\ N \in Int
      BY Numbers
    <3> HIDE DEF L, N
    <3> QED
      BY <1>2, <2>3, <3>1, <3>2
  <2> QED
    BY <2>2, <2>3
<1>10. Explained(u)'
  <2>1. \A t : Told(u, t)' = IF t = k THEN Told(u, t) + n ELSE Told(u, t)
    BY <1>2, <1>9
  <2>2. staked'[u] = staked[u] + FreeDelta(k, n)
    BY <1>4, <1>7 DEF FreeDelta
  <2>3. SumWei(deleg'[u]) = SumWei(deleg[u]) + DelegDelta(k, n)
    BY <1>4, <1>7 DEF DelegDelta
  <2>4. SumWei(queue'[u]) = SumWei(queue[u]) + QueueDelta(k, n)
    <3>1. SumWei(Q) \in Int /\ QueueDelta(k, n) = 0 - n
      BY <1>5, SumType DEF QueueDelta
    <3> QED
      BY <1>2, <1>6, <1>7, <3>1
  <2> HIDE DEF k
  <2> QED
    BY <1>1, <1>2, <1>4, <2>1, <2>2, <2>3, <2>4, Moves
<1>11. ASSUME NEW v \in Users
       PROVE  Explained(v)'
  <2>1. CASE v = u
    BY <1>10, <2>1
  <2>2. CASE v # u
    <3>1. \A t : Told(v, t)' = Told(v, t)
      BY <1>9, <2>2
    <3>2. Explained(v) /\ slips[v] \subseteq slips'[v]
      BY <1>1 DEF AllInv, StakeInv
    <3> QED
      BY <1>7, <2>2, <3>1, <3>2, Undisturbed
  <2> QED
    BY <2>1, <2>2
<1>12. SweepHolds(sweep', queue')
  BY <1>2, <1>3, <1>7 DEF SweepHolds
<1> QED
  BY <1>1, <1>2, <1>7, <1>11, <1>12 DEF StakeInv

LEMMA NoNotes ==
  ASSUME NEW f, NEW u, NEW t, \A r \in Requests : f[r].stage # "log" \/ f[r].who # u
  PROVE  Notes(f, u, t) = {}
  BY DEF Notes, Logging

LEMMA CrashExplain ==
  ASSUME AllInv, Crash
  PROVE  StakeInv'
<1>1. /\ UNCHANGED <<books, logs>> /\ ask' = [r \in Requests |-> NoAsk] /\ sweep' = SweepIdle
      /\ slips' = [u \in Users |-> slips[u] \cup (IF Untold(u) THEN {"untold"} ELSE {})]
  BY DEF Crash
<1>2. SweepIdle.stage = "idle" /\ NoAsk.stage = "idle"
  BY DEF SweepIdle, NoAsk
<1>3. Booked'
  BY <1>1 DEF AllInv, StakeInv, Booked, books, logs
<1>4. (\A q \in Requests : Holds(ask'[q])) /\ SweepHolds(sweep', queue')
  BY <1>1, <1>2, NoAskHolds DEF SweepHolds
<1>5. ASSUME NEW v \in Users
      PROVE  Explained(v)'
  <2>1. CASE Untold(v)
    <3>1. "untold" \in slips'[v]
      BY <1>1, <2>1
    <3> QED
      BY <3>1, Unexplained
  <2>2. CASE ~Untold(v)
    <3>1. ASSUME NEW t
          PROVE  Told(v, t)' = Told(v, t)
      <4>1. Notes(ask, v, t) = {}
        BY <2>2, NoNotes DEF Untold
      <4>2. Notes(ask', v, t) = {}
        <5>1. \A r \in Requests : ask'[r].stage # "log"
          BY <1>1, <1>2
        <5> QED
          BY <5>1, NoNotes
      <4>3. Paying(sweep, v, t) = 0 /\ Paying(sweep', v, t) = 0
        BY <1>1, <1>2, <2>2 DEF Paying, Untold
      <4> QED
        BY <1>1, <4>1, <4>2, <4>3, ToldIs DEF ToldBy, logs
    <3>2. Explained(v) /\ slips[v] \subseteq slips'[v]
      BY <1>1 DEF AllInv, StakeInv
    <3> QED
      BY <1>1, <3>1, <3>2, Undisturbed DEF books
  <2> QED
    BY <2>1, <2>2
<1> QED
  BY <1>3, <1>4, <1>5 DEF StakeInv

-----------------------------------------------------------------------------
(* The summary.                                                            *)

LEMMA NothingWeighs == Weighed({}) /\ SumWei({}) = 0
<1>1. IsFiniteSet({})
  BY FS_EmptySet
<1> QED
  BY <1>1, SumStep DEF Weighed

LEMMA OneWeighs ==
  ASSUME NEW e, e.wei \in Int
  PROVE  Weighed({e}) /\ SumWei({e}) = e.wei
<1>1. {} \cup {e} = {e} /\ e \notin {}
  OBVIOUS
<1>2. Weighed({} \cup {e}) /\ SumWei({} \cup {e}) = SumWei({}) + e.wei
  BY <1>1, NothingWeighs, SumWith
<1> QED
  BY <1>1, <1>2, NothingWeighs

\* What a user may have done before explains itself.
LEMMA PastExplained ==
  ASSUME NEW p \in Pasts
  PROVE  /\ p.free \in Int /\ p.pushed \in Nat /\ Weighed(p.deleg) /\ Weighed(p.events)
         /\ (\A x \in p.deleg : Recorded(x)) /\ Numbered(p.events, p.pushed)
         /\ \E c, d \in Int : /\ SumWei(OfType(p.events, "cDeposit")) = c
                              /\ SumWei(OfType(p.events, "delegate")) = d
                              /\ SumWei(p.deleg) = d /\ p.free = c - d
         /\ \A t : t \notin {"cDeposit", "delegate"} => OfType(p.events, t) = {}
<1> DEFINE x == Event(1, "cDeposit", 2)
           y == Event(2, "delegate", 2)
<1>1. /\ x.number = 1 /\ x.type = "cDeposit" /\ x.wei = 2
      /\ y.number = 2 /\ y.type = "delegate" /\ y.wei = 2
  BY DEF Event
<1>2. \/ p.free = 0 /\ p.deleg = {} /\ p.events = {} /\ p.pushed = 0
      \/ p.free = 2 /\ p.deleg = {} /\ p.events = {x} /\ p.pushed = 1
      \/ \E v \in Validators :
           /\ p.free = 0 /\ p.deleg = {[validator |-> v, wei |-> 2, until |-> 0, at |-> 0]}
           /\ p.events = {x, y} /\ p.pushed = 2
  BY DEF Pasts
<1> HIDE DEF x, y
<1>3. Weighed({x}) /\ SumWei({x}) = 2 /\ Weighed({y}) /\ SumWei({y}) = 2
  BY <1>1, OneWeighs
<1>4. Weighed({}) /\ SumWei({}) = 0
  BY NothingWeighs
<1>5. CASE p.free = 0 /\ p.deleg = {} /\ p.events = {} /\ p.pushed = 0
  <2>1. \A t : OfType(p.events, t) = {}
    BY <1>5 DEF OfType
  <2>2. Numbered(p.events, p.pushed)
    BY <1>5 DEF Numbered
  <2> QED
    BY <1>4, <1>5, <2>1, <2>2
<1>6. CASE p.free = 2 /\ p.deleg = {} /\ p.events = {x} /\ p.pushed = 1
  <2>1. OfType(p.events, "cDeposit") = {x} /\ \A t : t # "cDeposit" => OfType(p.events, t) = {}
    BY <1>1, <1>6 DEF OfType
  <2>2. Numbered(p.events, p.pushed)
    BY <1>1, <1>6 DEF Numbered
  <2>3. SumWei(OfType(p.events, "cDeposit")) = 2 /\ SumWei(OfType(p.events, "delegate")) = 0
    BY <1>3, <1>4, <2>1
  <2>4. Weighed(p.events) /\ Weighed(p.deleg) /\ SumWei(p.deleg) = 0
    BY <1>3, <1>4, <1>6
  <2>5. \E c, d \in Int : /\ SumWei(OfType(p.events, "cDeposit")) = c
                          /\ SumWei(OfType(p.events, "delegate")) = d
                          /\ SumWei(p.deleg) = d /\ p.free = c - d
    <3>1. 2 \in Int /\ 0 \in Int /\ p.free = 2 - 0
      BY <1>6
    <3> QED
      BY <2>3, <2>4, <3>1
  <2>6. p.free \in Int /\ p.pushed \in Nat /\ \A z \in p.deleg : Recorded(z)
    BY <1>6
  <2>7. \A t : t \notin {"cDeposit", "delegate"} => OfType(p.events, t) = {}
    BY <2>1
  <2> QED
    BY <2>2, <2>4, <2>5, <2>6, <2>7
<1>7. ASSUME NEW v \in Validators, p.free = 0,
             p.deleg = {[validator |-> v, wei |-> 2, until |-> 0, at |-> 0]},
             p.events = {x, y}, p.pushed = 2
      PROVE  /\ p.free \in Int /\ p.pushed \in Nat /\ Weighed(p.deleg) /\ Weighed(p.events)
             /\ (\A z \in p.deleg : Recorded(z)) /\ Numbered(p.events, p.pushed)
             /\ \E c, d \in Int : /\ SumWei(OfType(p.events, "cDeposit")) = c
                                  /\ SumWei(OfType(p.events, "delegate")) = d
                                  /\ SumWei(p.deleg) = d /\ p.free = c - d
             /\ \A t : t \notin {"cDeposit", "delegate"} => OfType(p.events, t) = {}
  <2> DEFINE g == [validator |-> v, wei |-> 2, until |-> 0, at |-> 0]
  <2>1. g.wei = 2 /\ Recorded(g)
    BY DEF Recorded
  <2> HIDE DEF g
  <2>2. p.deleg = {g}
    BY <1>7 DEF g
  <2>3. Weighed(p.deleg) /\ SumWei(p.deleg) = 2
    BY <2>1, <2>2, OneWeighs
  <2>4. /\ OfType(p.events, "cDeposit") = {x} /\ OfType(p.events, "delegate") = {y}
        /\ \A t : t \notin {"cDeposit", "delegate"} => OfType(p.events, t) = {}
    BY <1>1, <1>7 DEF OfType
  <2>5. Numbered(p.events, p.pushed)
    BY <1>1, <1>7 DEF Numbered
  <2>6. Weighed(p.events)
    <3>1. {x} \cup {y} = p.events
      BY <1>7
    <3>2. Weighed({x} \cup {y})
      BY <1>1, <1>3, Added
    <3> QED
      BY <3>1, <3>2
  <2>7. \A z \in p.deleg : Recorded(z)
    BY <2>1, <2>2
  <2>8. \E c, d \in Int : /\ SumWei(OfType(p.events, "cDeposit")) = c
                          /\ SumWei(OfType(p.events, "delegate")) = d
                          /\ SumWei(p.deleg) = d /\ p.free = c - d
    <3>1. 2 \in Int /\ p.free = 2 - 2
      BY <1>7
    <3>2. SumWei(OfType(p.events, "cDeposit")) = 2 /\ SumWei(OfType(p.events, "delegate")) = 2
      BY <1>3, <2>4
    <3> QED
      BY <2>3, <3>1, <3>2
  <2>9. p.free \in Int /\ p.pushed \in Nat
    BY <1>7
  <2> QED
    BY <2>3, <2>4, <2>5, <2>6, <2>7, <2>8, <2>9
<1> QED
  BY <1>2, <1>5, <1>6, <1>7

LEMMA StakeInitial == StakingInit => StakeInv
<1> SUFFICES ASSUME StakingInit PROVE StakeInv
  OBVIOUS
<1>1. PICK past \in [Users -> Pasts] :
        /\ staked = [u \in Users |-> past[u].free] /\ deleg = [u \in Users |-> past[u].deleg]
        /\ events = [u \in Users |-> past[u].events] /\ pushed = [u \in Users |-> past[u].pushed]
  BY DEF StakingInit
<1>2. /\ queue = [u \in Users |-> {}] /\ ask = [r \in Requests |-> NoAsk] /\ sweep = SweepIdle
      /\ slips = [u \in Users |-> {}]
  BY DEF StakingInit
<1>3. NoAsk.stage = "idle" /\ SweepIdle.stage = "idle"
  BY DEF NoAsk, SweepIdle
<1>4. (\A r \in Requests : Holds(ask[r])) /\ SweepHolds(sweep, queue)
  BY <1>2, <1>3, NoAskHolds DEF SweepHolds
<1>5. ASSUME NEW u \in Users
      PROVE  BookOk(u, staked, deleg, queue, events, pushed) /\ Explained(u)
  <2>1. PICK p \in Pasts : /\ staked[u] = p.free /\ deleg[u] = p.deleg /\ events[u] = p.events
                           /\ pushed[u] = p.pushed
    BY <1>1
  <2>2. /\ p.free \in Int /\ p.pushed \in Nat /\ Weighed(p.deleg) /\ Weighed(p.events)
        /\ (\A x \in p.deleg : Recorded(x)) /\ Numbered(p.events, p.pushed)
    BY PastExplained
  <2>3. PICK c \in Int, d \in Int : /\ SumWei(OfType(p.events, "cDeposit")) = c
                                    /\ SumWei(OfType(p.events, "delegate")) = d
                                    /\ SumWei(p.deleg) = d /\ p.free = c - d
    BY PastExplained
  <2>4. \A t : t \notin {"cDeposit", "delegate"} => OfType(p.events, t) = {}
    BY PastExplained
  <2>5. queue[u] = {} /\ Weighed({}) /\ SumWei({}) = 0
    BY <1>2, NothingWeighs
  <2>6. BookOk(u, staked, deleg, queue, events, pushed)
    BY <2>1, <2>2, <2>5 DEF BookOk
  <2>7. \A t : Notes(ask, u, t) = {} /\ Paying(sweep, u, t) = 0
    BY <1>2, <1>3, NoNotes DEF Paying
  <2>8. \A t : Told(u, t) = SumWei(OfType(p.events, t)) + (0 + 0)
    BY <2>1, <2>5, <2>7, ToldIs DEF ToldBy
  <2>9. /\ Told(u, "cDeposit") = c /\ Told(u, "delegate") = d
        /\ Told(u, "cWithdraw") = 0 /\ Told(u, "undelegate") = 0 /\ Told(u, "withdrawalComplete") = 0
    <3>1. Told(u, "cDeposit") = c + (0 + 0) /\ Told(u, "delegate") = d + (0 + 0)
      BY <2>3, <2>8
    <3>2. \A t : t \notin {"cDeposit", "delegate"} => Told(u, t) = 0 + (0 + 0)
      BY <2>4, <2>5, <2>8
    <3> QED
      BY <3>1, <3>2
  <2>10. DelegGap(u) = 0 /\ QueueGap(u) = 0 /\ FreeGap(u) = 0
    BY <2>1, <2>3, <2>5, <2>9 DEF DelegGap, QueueGap, FreeGap
  <2> QED
    BY <2>6, <2>10 DEF Explained
<1>6. Booked
  BY <1>1, <1>2, <1>5 DEF Booked
<1> QED
  BY <1>4, <1>5, <1>6 DEF StakeInv

LEMMA StakeNext ==
  ASSUME AllInv, [StakingNext]_allVars
  PROVE  StakeInv'
<1>1. CASE (Next /\ UNCHANGED stakeVars) \/ UNCHANGED allVars \/ Tick
  <2>1. UNCHANGED <<books, logs, ask, sweep, slips>>
    BY <1>1 DEF stakeVars, allVars, Tick
  <2> QED
    BY <2>1, NothingMoved
<1>2. ASSUME NEW r \in Requests, Commands(r)
      PROVE  StakeInv'
  BY <1>2, ReadQuiet, WriteExplain, UndelegateExplain, AppendExplain, RequestTrims DEF Commands
<1>3. ASSUME NEW r \in Requests, NEW u \in Users, StakeDispatch(u, r)
      PROVE  StakeInv'
  BY <1>3, DispatchQuiet
<1>4. CASE (\E u \in Users : SweepScan(u)) \/ SweepNext
  BY <1>4, SweepQuiet
<1>5. CASE SweepPay \/ SweepLog \/ SweepTrim
  BY <1>5, PayExplain, LogExplain, SweepTrims
<1>6. CASE Crash
  BY <1>6, CrashExplain
<1> QED
  BY <1>1, <1>2, <1>3, <1>4, <1>5, <1>6 DEF StakingNext, Commands

LEMMA StakeIsExplained == AllInv => StakeExplained
<1> SUFFICES ASSUME AllInv, NEW u \in Users
             PROVE  LET s == getDelegatorSummary(u)
                        known == ~Slipped(u, {"trimmed", "untold"})
                    IN /\ known /\ ~Slipped(u, {"twin", "gone"}) =>
                            s.delegated = Told(u, "delegate") - Told(u, "undelegate")
                       /\ known /\ ~Slipped(u, {"twin"}) =>
                            s.pending = Told(u, "cWithdraw") - Told(u, "withdrawalComplete")
                       /\ known /\ ~Slipped(u, {"overwrite"}) =>
                            s.undelegated = Told(u, "cDeposit") - Told(u, "cWithdraw")
                                            - Told(u, "delegate") + Told(u, "undelegate")
  BY DEF StakeExplained
<1>1. /\ getDelegatorSummary(u).delegated = SumWei(deleg[u])
      /\ getDelegatorSummary(u).pending = SumWei(queue[u])
      /\ getDelegatorSummary(u).undelegated = staked[u]
  BY DEF getDelegatorSummary
<1>2. Explained(u)
  BY DEF AllInv, StakeInv
<1>3. /\ staked[u] \in Int /\ SumWei(deleg[u]) \in Int /\ SumWei(queue[u]) \in Int
      /\ Told(u, "cDeposit") \in Int /\ Told(u, "cWithdraw") \in Int
      /\ Told(u, "delegate") \in Int /\ Told(u, "undelegate") \in Int
      /\ Told(u, "withdrawalComplete") \in Int
  BY Numbers
<1>4. ~Slipped(u, {"trimmed", "untold"}) /\ ~Slipped(u, {"twin", "gone"}) => DelegGap(u) = 0
  BY <1>2 DEF Explained, Slipped, Free
<1>5. ~Slipped(u, {"trimmed", "untold"}) /\ ~Slipped(u, {"twin"}) => QueueGap(u) = 0
  BY <1>2 DEF Explained, Slipped, Free
<1>6. ~Slipped(u, {"trimmed", "untold"}) /\ ~Slipped(u, {"overwrite"}) => FreeGap(u) = 0
  BY <1>2 DEF Explained, Slipped, Free
<1>7. DelegGap(u) = 0 => SumWei(deleg[u]) = Told(u, "delegate") - Told(u, "undelegate")
  BY <1>3 DEF DelegGap
<1>8. QueueGap(u) = 0 => SumWei(queue[u]) = Told(u, "cWithdraw") - Told(u, "withdrawalComplete")
  BY <1>3 DEF QueueGap
<1>9. FreeGap(u) = 0 => staked[u] = Told(u, "cDeposit") - Told(u, "cWithdraw")
                                    - Told(u, "delegate") + Told(u, "undelegate")
  <2>1. PICK n \in Int, c \in Int, w \in Int, d \in Int, z \in Int :
          /\ n = staked[u] /\ c = Told(u, "cDeposit") /\ w = Told(u, "cWithdraw")
          /\ d = Told(u, "delegate") /\ z = Told(u, "undelegate")
    BY <1>3
  <2>2. n - c + w + d - z = 0 => n = c - w - d + z
    OBVIOUS
  <2> QED
    BY <2>1, <2>2 DEF FreeGap
<1> QED
  BY <1>1, <1>4, <1>5, <1>6, <1>7, <1>8, <1>9

\* StakeExplained: however many requests of a user run beside each other and
\* beside the sweep, and wherever the process is restarted, the user's events
\* explain the staking summary, each part of it but for the mishaps that
\* touch it: a list cut to its last events or short of one a restart
\* swallowed explains nothing; two equal entries of one millisecond, or one
\* delegation taken twice, leave a sum too small; a balance written over one
\* that was not seen is wrong by itself alone.
THEOREM SummaryExplained == StakingSpec => []StakeExplained
<1>1. AllInv /\ [StakingNext]_allVars => AllInv'
  BY StakingKept, StakeNext DEF AllInv
<1>2. StakingInit => AllInv
  BY StakingInitial, StakeInitial DEF AllInv
<1> QED
  BY <1>1, <1>2, StakeIsExplained, PTL DEF StakingSpec
=============================================================================
