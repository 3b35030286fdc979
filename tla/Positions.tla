------------------------------ MODULE Positions ------------------------------
(***************************************************************************)
(* The position hashes of one user in the native dex, and everyone who     *)
(* writes them: the matcher's fill (worker/order-matcher.ts), liquidation  *)
(* (engine/liquidation.ts), isolated-margin and leverage changes           *)
(* (engine/order.ts), the funding worker and the account reset             *)
(* (api/routes/hypaper.ts).                                                *)
(*                                                                         *)
(* Fills, liquidations and margin changes run inside withUserLock          *)
(* (module UserLock); funding, leverage changes, the reset and the pruning *)
(* of the two user indexes do not.  A step is a group of Redis reads or    *)
(* one pipeline; reads that no unlocked writer can tell apart are grouped. *)
(*                                                                         *)
(* Abstracted data: the mark and the leverage are fixed, so that one unit  *)
(* of size takes one unit of isolated margin; what a close earns, what     *)
(* funding costs and whether an account is liquidatable are free choices.  *)
(***************************************************************************)
EXTENDS Integers, FiniteSetsExt

CONSTANTS
  Assets,
  Traded,     \* bound: the assets the user's own operations are about
  Calls,      \* calls and worker passes that may be running
  None,       \* no holder of the lock, no asset
  Cross,      \* the name of the cross account in cooldown keys
  Ops,        \* the operations that may be started
  Sizes,      \* signed sizes of the orders that fill
  Margins,    \* signed isolated-margin changes (ntli with the sign of isBuy)
  Results,    \* what a close may earn after its fee
  Charges,    \* what funding may cost a position
  Seed,       \* DEFAULT_BALANCE
  MaxOps,     \* bound: operations started in a behaviour
  MaxCrashes  \* bound: restarts in a behaviour

AllOps == {"fill", "margin", "liquidate", "marks", "leverage", "funding", "reset"}

ASSUME PositionsAssumption ==
  /\ None \notin Calls /\ None \notin Assets /\ Cross \notin Assets
  /\ IsFiniteSet(Assets) /\ Traded \subseteq Assets
  /\ Ops \subseteq AllOps
  /\ Sizes \subseteq Int \ {0} /\ Margins \subseteq Int \ {0} /\ Charges \subseteq Int \ {0}
  /\ Results \subseteq Int /\ Seed \in Nat
  /\ MaxOps \in Nat /\ MaxCrashes \in Nat

VARIABLES
  pos,       \* user:<u>:pos:<asset>
  listed,    \* user:<u>:positions
  isCross,   \* the margin type in user:<u>:lev:<asset>
  balance,   \* the user's native balance
  collected, \* totalCollected of the liquidator vault
  holder,    \* positions:holders names the user
  active,    \* users:active names the user
  cooling,   \* liq:cooldown keys that have not expired
  lock,      \* the call in the user's section
  pc,        \* what each call does next
  loc,       \* its local variables
  seen,      \* the balance a liquidation has read, 0 outside one
  ops,       \* operations started so far
  crashes    \* restarts so far

(* History, read by the properties only.                                   *)
VARIABLES
  executed,  \* the sum of the sizes executed on each asset
  charged,   \* the funding charged to each position
  stale,     \* hashes each call has read that were written since
  mixed,     \* assets whose cumFunding was written from such a read
  switched,  \* assets whose margin type changed under a position or its fill
  overtaken, \* indexes a scan is about to prune, or pruned, after a fill
  raced      \* the account was reset while positions were being written

redisVars == <<pos, listed, isCross, balance, collected, holder, active, cooling>>
procVars  == <<lock, pc, loc, seen, ops, crashes>>
history   == <<executed, charged, stale, mixed, switched, overtaken, raced>>
vars == <<redisVars, procVars, history>>

-----------------------------------------------------------------------------
(* A field that is not in the hash reads as 0; asset tells whether the     *)
(* asset field is there.                                                   *)
Hash   == [szi : Int, alloc : Int, raw : Int, cum : Int, asset : BOOLEAN]
NoHash == [szi |-> 0, alloc |-> 0, raw |-> 0, cum |-> 0, asset |-> FALSE]

Local == [op : AllOps \cup {None}, asset : Assets \cup {None}, size : Int,
          reduceOnly : BOOLEAN, todo : SUBSET Assets, view : [Assets -> Hash],
          cross : [Assets -> BOOLEAN], charge : [Assets -> Int]]

Blank == [op |-> None, asset |-> None, size |-> 0, reduceOnly |-> FALSE, todo |-> {},
          view |-> [a \in Assets |-> NoHash], cross |-> [a \in Assets |-> FALSE],
          charge |-> [a \in Assets |-> 0]]

Labels == {"idle", "queued", "fill", "fillFields", "fillWrite", "margin", "marginWrite",
           "liquidate", "isolated", "liqBalance", "cross", "prune",
           "leverage", "levType", "levWrite", "fundRead", "deactivate",
           "resetWrite", "backfill"}

Abs(n)  == IF n < 0 THEN -n ELSE n
Sign(n) == IF n < 0 THEN -1 ELSE 1

\* x in proportion to what is kept of a position.
Scale(x, kept, whole) == (x * kept) \div whole

\* The margin dedicated to an isolated position.
Alloc(h) == IF h.alloc = 0 THEN Abs(h.szi) ELSE h.alloc
IsolatedMarginOf(h) == Alloc(h) + h.raw

\* szi, entryPx and the margin fields are in a hash that a fill has written.
Init ==
  /\ isCross \in [Assets -> BOOLEAN]
  /\ executed \in [Assets -> {0} \cup Sizes]
  /\ pos = [a \in Assets |->
             IF executed[a] = 0 THEN NoHash
             ELSE [NoHash EXCEPT !.szi = executed[a], !.asset = TRUE,
                                 !.alloc = IF isCross[a] THEN 0 ELSE Abs(executed[a])]]
  /\ listed = {a \in Assets : executed[a] # 0}
  /\ balance = Seed /\ collected = 0
  /\ holder = (listed # {}) /\ active = (listed # {})
  /\ cooling = {} /\ lock = None /\ seen = 0
  /\ pc = [c \in Calls |-> "idle"] /\ loc = [c \in Calls |-> Blank]
  /\ ops = 0 /\ crashes = 0
  /\ charged = [a \in Assets |-> 0] /\ stale = [c \in Calls |-> {}]
  /\ mixed = {} /\ switched = {} /\ overtaken = {} /\ raced = FALSE

-----------------------------------------------------------------------------
Goto(c, l) == pc' = [pc EXCEPT ![c] = l]
Keep(c, v) == loc' = [loc EXCEPT ![c] = v]

\* The call ends, and with it the section it may hold.
Return(c) ==
  /\ Goto(c, "idle") /\ Keep(c, Blank)
  /\ lock' = IF lock = c THEN None ELSE lock

Start(c, op, l, v) ==
  /\ op \in Ops /\ pc[c] = "idle" /\ ops < MaxOps
  /\ ops' = ops + 1
  /\ Goto(c, l) /\ Keep(c, [v EXCEPT !.op = op])

\* c has read the hashes in R; c has written cumFunding in, or deleted, those
\* in W and keeps no view of any.
Read(c, R)  == stale' = [stale EXCEPT ![c] = @ \ R]
Wrote(c, W) == stale' = [d \in Calls |-> IF d = c \/ loc[d].op \notin {"fill", "funding"}
                                         THEN {} ELSE stale[d] \cup W]

\* Mutant: a call does not wait for the section.
AcquireAtOnce(c) ==
  /\ pc[c] = "queued"
  /\ lock' = c /\ Goto(c, loc[c].op)
  /\ UNCHANGED <<redisVars, loc, seen, ops, crashes, history>>

\* withUserLock: the calls wait until the section is free.
Acquire(c) ==
  /\ pc[c] = "queued" /\ lock = None
  /\ lock' = c /\ Goto(c, loc[c].op)
  /\ UNCHANGED <<redisVars, loc, seen, ops, crashes, history>>

-----------------------------------------------------------------------------
(* executeFill.                                                            *)

ExecuteFill(c, a, sz, ro) ==
  /\ Start(c, "fill", "queued", [Blank EXCEPT !.asset = a, !.size = sz, !.reduceOnly = ro])
  /\ UNCHANGED <<redisVars, lock, seen, crashes, history>>

\* A reduce-only order that has nothing to reduce.
NothingToReduce(c, szi) ==
  loc[c].reduceOnly /\ (szi = 0 \/ Sign(szi) = Sign(loc[c].size))

FillSkip(c) ==
  /\ pc[c] = "fill" /\ NothingToReduce(c, pos[loc[c].asset].szi)
  /\ Return(c) /\ Wrote(c, {})
  /\ UNCHANGED <<redisVars, seen, ops, crashes, executed, charged, mixed, switched, overtaken, raced>>

\* The size a reduce-only fill is clamped to.
Clamped(c, szi) ==
  IF loc[c].reduceOnly /\ Abs(loc[c].size) > Abs(szi) THEN -szi ELSE loc[c].size

FillRead(c) ==
  LET a == loc[c].asset IN
  /\ pc[c] = "fill" /\ ~NothingToReduce(c, pos[a].szi)
  /\ Goto(c, "fillFields")
  /\ Keep(c, [loc[c] EXCEPT !.view[a] = pos[a], !.size = Clamped(c, pos[a].szi)])
  /\ UNCHANGED <<redisVars, lock, seen, ops, crashes, history>>

\* Mutant: cumFunding is not read before the hash is written.
FillFieldsNoFunding(c) ==
  LET a == loc[c].asset IN
  /\ pc[c] = "fillFields"
  /\ Goto(c, "fillWrite")
  /\ Keep(c, [loc[c] EXCEPT !.view[a] = [pos[a] EXCEPT !.szi = loc[c].view[a].szi, !.cum = 0],
                            !.cross[a] = isCross[a]])
  /\ Read(c, {a})
  /\ UNCHANGED <<redisVars, lock, seen, ops, crashes, executed, charged, mixed, switched, overtaken, raced>>

\* cumFunding, the leverage setting and the margin fields, read after the size.
FillFields(c) ==
  LET a == loc[c].asset IN
  /\ pc[c] = "fillFields"
  /\ Goto(c, "fillWrite")
  /\ Keep(c, [loc[c] EXCEPT !.view[a] = [pos[a] EXCEPT !.szi = loc[c].view[a].szi],
                            !.cross[a] = isCross[a]])
  /\ Read(c, {a})
  /\ UNCHANGED <<redisVars, lock, seen, ops, crashes, executed, charged, mixed, switched, overtaken, raced>>

\* Where a scan of an index has found the user without positions.
Scan(i) == IF i = "holders" THEN "prune" ELSE "deactivate"

\* Mutant: a closed position stays listed.
UnlistedNever(S) == listed

\* srem USER_POSITIONS.
Unlisted(S) == listed \ S

Increasing(szi, sz) == szi = 0 \/ Sign(szi) = Sign(sz)
Flipping(szi, sz)   == ~Increasing(szi, sz) /\ Abs(sz) > Abs(szi)

\* Mutant: a partial close releases no margin.
FilledAllocKept(v, sz) ==
  IF v.szi = 0 THEN Abs(sz)
  ELSE IF Increasing(v.szi, sz) THEN Alloc(v) + Abs(sz)
  ELSE IF Flipping(v.szi, sz) THEN Abs(v.szi + sz)
  ELSE Alloc(v)

\* marginAlloc and rawUsd of an isolated position with view v after a fill of
\* sz; h is the hash they are written into.
FilledAlloc(v, sz) ==
  IF v.szi = 0 THEN Abs(sz)
  ELSE IF Increasing(v.szi, sz) THEN Alloc(v) + Abs(sz)
  ELSE IF Flipping(v.szi, sz) THEN Abs(v.szi + sz)
  ELSE Scale(Alloc(v), Abs(v.szi + sz), Abs(v.szi))
FilledRaw(h, v, sz) ==
  IF Flipping(v.szi, sz) THEN 0
  ELSE IF Increasing(v.szi, sz) \/ v.raw = 0 THEN h.raw
  ELSE Scale(v.raw, Abs(v.szi + sz), Abs(v.szi))

\* The fill's pipeline; r is closedPnl less the fee, and closedPnl is 0 when
\* nothing is closed.
FillWrite(c, r) ==
  LET a   == loc[c].asset
      v   == loc[c].view[a]
      sz  == loc[c].size
      new == v.szi + sz
      iso == ~loc[c].cross[a]
      h   == pos[a]
  IN
  /\ pc[c] = "fillWrite"
  /\ Increasing(v.szi, sz) => r <= 0
  /\ IF new = 0
     THEN /\ pos' = [pos EXCEPT ![a] = NoHash]
          /\ listed' = Unlisted({a}) /\ UNCHANGED holder
          /\ charged' = [charged EXCEPT ![a] = 0] /\ mixed' = mixed \ {a}
     ELSE /\ pos' = [pos EXCEPT ![a] =
                      [szi |-> new, cum |-> v.cum, asset |-> TRUE,
                       alloc |-> IF iso THEN FilledAlloc(v, sz) ELSE h.alloc,
                       raw |-> IF iso THEN FilledRaw(h, v, sz) ELSE h.raw]]
          /\ listed' = listed \cup {a} /\ holder' = TRUE
          /\ mixed' = mixed \cup ({a} \cap stale[c]) /\ UNCHANGED charged
  /\ active' = TRUE
  /\ balance' = balance + r
  /\ executed' = [executed EXCEPT ![a] = @ + sz]
  /\ switched' = IF new = 0 THEN switched \ {a}
                 ELSE switched \cup {b \in {a} : isCross[b] # loc[c].cross[b]}
  /\ Wrote(c, {a}) /\ Return(c)
  /\ overtaken' = (IF new = 0 THEN overtaken \cap {"holders"} ELSE {})
                  \cup {i \in {"holders", "users"} : \E d \in Calls : pc[d] = Scan(i)}
  /\ UNCHANGED <<isCross, collected, cooling, seen, ops, crashes, raced>>

-----------------------------------------------------------------------------
(* updateIsolatedMargin.                                                   *)

UpdateIsolatedMargin(c, a, m) ==
  /\ Start(c, "margin", "queued", [Blank EXCEPT !.asset = a, !.size = m])
  /\ UNCHANGED <<redisVars, lock, seen, crashes, history>>

\* Mutant: margin is added without a position.
MarginReadUnchecked(c) ==
  LET a == loc[c].asset IN
  /\ pc[c] = "margin"
  /\ Goto(c, "marginWrite") /\ Keep(c, [loc[c] EXCEPT !.view[a] = pos[a]])
  /\ UNCHANGED <<redisVars, lock, seen, ops, crashes, history>>

MarginRead(c) ==
  LET a == loc[c].asset IN
  /\ pc[c] = "margin"
  /\ IF pos[a].asset
     THEN Goto(c, "marginWrite") /\ Keep(c, [loc[c] EXCEPT !.view[a] = pos[a]]) /\ UNCHANGED lock
     ELSE Return(c)
  /\ UNCHANGED <<redisVars, seen, ops, crashes, history>>

MarginWrite(c) ==
  LET a == loc[c].asset IN
  /\ pc[c] = "marginWrite"
  /\ pos' = [pos EXCEPT ![a].raw = loc[c].view[a].raw + loc[c].size]
  /\ Return(c)
  /\ UNCHANGED <<listed, isCross, balance, collected, holder, active, cooling, seen, ops, crashes, history>>

-----------------------------------------------------------------------------
(* The liquidation worker.  A tick does not start while one runs.          *)

Running == \E d \in Calls : loc[d].op = "liquidate"

\* checkAndLiquidateAll, and the user's entry in positionHolders.
LiquidationTick(c) ==
  /\ ~Running /\ holder
  /\ Start(c, "liquidate", IF listed = {} THEN "prune" ELSE "queued", Blank)
  /\ UNCHANGED <<redisVars, lock, seen, crashes, history>>

\* Mutant: holders are pruned without a look at their positions.
KeepMarksBlind(c) ==
  /\ holder
  /\ Start(c, "marks", "prune", Blank)
  /\ UNCHANGED <<redisVars, lock, seen, crashes, history>>

\* positionHolders as keepMarks calls it, outside the guard.
KeepMarks(c) ==
  /\ holder /\ listed = {}
  /\ Start(c, "marks", "prune", Blank)
  /\ UNCHANGED <<redisVars, lock, seen, crashes, history>>

PruneHolder(c) ==
  /\ pc[c] = "prune"
  /\ holder' = FALSE
  /\ Return(c)
  /\ UNCHANGED <<pos, listed, isCross, balance, collected, active, cooling, seen, ops, crashes, history>>

\* loadPositions: a hash without size or coin is passed over.
Loaded == {a \in listed : pos[a].szi # 0 /\ pos[a].asset}
Load(c, T, l) ==
  /\ Goto(c, l)
  /\ Keep(c, [loc[c] EXCEPT !.todo = T, !.cross = isCross,
                            !.view = [a \in Assets |-> IF a \in Loaded THEN pos[a] ELSE NoHash]])

CheckAndLiquidateUser(c) ==
  /\ pc[c] = "liquidate"
  /\ Load(c, {a \in Loaded : ~isCross[a]}, "isolated")
  /\ UNCHANGED <<redisVars, lock, seen, ops, crashes, history>>

\* queueClose for the targets T, of which kept stays open.
QueueClose(c, T, kept) ==
  LET v(a) == loc[c].view[a]
      shut == {a \in T : kept[a] = 0}
      left(a) == Sign(v(a).szi) * kept[a]
      scaled(a, x) == Scale(x, kept[a], Abs(v(a).szi))
      iso(a) == ~loc[c].cross[a]
  IN
  /\ pos' = [a \in Assets |->
       CASE a \notin T -> pos[a]
         [] a \in shut -> NoHash
         [] OTHER -> [pos[a] EXCEPT !.szi = left(a),
                        !.alloc = IF iso(a) THEN scaled(a, Alloc(v(a))) ELSE @,
                        !.raw = IF iso(a) /\ v(a).raw # 0 THEN scaled(a, v(a).raw) ELSE @]]
  /\ listed' = Unlisted(shut)
  /\ executed' = [a \in Assets |-> IF a \in T THEN executed[a] - v(a).szi + left(a) ELSE executed[a]]
  /\ charged' = [a \in Assets |-> IF a \in shut THEN 0 ELSE charged[a]]
  /\ mixed' = mixed \ shut /\ switched' = switched \ shut
  /\ Wrote(c, shut)
  /\ UNCHANGED <<isCross, holder, active, ops, crashes, overtaken, raced>>

\* The sizes a market liquidation may leave: outside the cooldown a large
\* position is closed in part.
Kept(c, T, key) ==
  {k \in [T -> 0 .. Max({Abs(loc[c].view[a].szi) : a \in T} \cup {0})] :
     \A a \in T : k[a] < Abs(loc[c].view[a].szi) /\ (key \in cooling => k[a] = 0)}

\* runLiquidation, method market: the closes earn r.
MarketLiquidation(c, T, key, kept, r) ==
  /\ kept \in Kept(c, T, key)
  /\ QueueClose(c, T, kept)
  /\ cooling' = IF \E a \in T : kept[a] # 0 THEN cooling \cup {key} ELSE cooling
  /\ balance' = balance + r
  /\ UNCHANGED collected

\* queueVaultCredit.
VaultCredit(proceeds) == IF proceeds > 0 THEN proceeds ELSE 0

\* Mutants: the user is paid the margin back; the vault takes on a loss.
BackstopRefunds(c, T, p, equity) ==
  /\ QueueClose(c, T, [a \in T |-> 0])
  /\ balance' = balance + p
  /\ collected' = collected + VaultCredit(equity)
  /\ UNCHANGED cooling
\* runLiquidation, method backstop: the closes earn p, and the equity goes to
\* the vault, or is the vault's loss.
Backstop(c, T, p, equity) ==
  /\ QueueClose(c, T, [a \in T |-> 0])
  /\ balance' = balance + p - equity
  /\ collected' = collected + VaultCredit(equity)
  /\ UNCHANGED cooling

Reserved(c) == MapThenSumSet(LAMBDA a : IF loc[c].cross[a] \/ loc[c].view[a].szi = 0 THEN 0
                                        ELSE IsolatedMarginOf(loc[c].view[a]), Assets)

\* The isolated positions, each on its own.
NextIsolated(c, a) ==
  /\ pc[c] = "isolated" /\ a \in loc[c].todo
  /\ Goto(c, "isolated") /\ Keep(c, [loc[c] EXCEPT !.todo = @ \ {a}])
  /\ UNCHANGED <<lock, seen>>

IsolatedPass(c, a) ==
  /\ NextIsolated(c, a)
  /\ UNCHANGED <<redisVars, ops, crashes, history>>

IsolatedMarket(c, a, r) ==
  /\ NextIsolated(c, a)
  /\ \E kept \in Kept(c, {a}, a) : MarketLiquidation(c, {a}, a, kept, r)

IsolatedBackstop(c, a, p) ==
  /\ NextIsolated(c, a)
  /\ Backstop(c, {a}, p, IsolatedMarginOf(loc[c].view[a]) + p)

\* The cross account, read again.
ReloadCross(c) ==
  /\ pc[c] = "isolated" /\ loc[c].todo = {}
  /\ IF \E a \in Loaded : isCross[a]
     THEN Load(c, {a \in Loaded : isCross[a]}, "liqBalance") /\ UNCHANGED lock
     ELSE Return(c)
  /\ UNCHANGED <<redisVars, seen, ops, crashes, history>>

LiqBalance(c) ==
  /\ pc[c] = "liqBalance"
  /\ Goto(c, "cross") /\ seen' = balance
  /\ UNCHANGED <<redisVars, lock, loc, ops, crashes, history>>

CrossPass(c) ==
  /\ pc[c] = "cross" /\ Return(c) /\ seen' = 0
  /\ UNCHANGED <<redisVars, ops, crashes, history>>

CrossMarket(c, r) ==
  /\ pc[c] = "cross" /\ Return(c) /\ seen' = 0
  /\ \E kept \in Kept(c, loc[c].todo, Cross) : MarketLiquidation(c, loc[c].todo, Cross, kept, r)

CrossBackstop(c, p) ==
  /\ pc[c] = "cross" /\ Return(c) /\ seen' = 0
  /\ Backstop(c, loc[c].todo, p, seen - Reserved(c) + p)

CooldownEnds(k) ==
  /\ k \in cooling
  /\ cooling' = cooling \ {k}
  /\ UNCHANGED <<pos, listed, isCross, balance, collected, holder, active, procVars, history>>

-----------------------------------------------------------------------------
(* updateLeverage, outside the lock.                                       *)

UpdateLeverage(c, a, x) ==
  /\ Start(c, "leverage", "leverage", [Blank EXCEPT !.asset = a, !.cross[a] = x])
  /\ UNCHANGED <<redisVars, lock, seen, crashes, history>>

LevRead(c) ==
  /\ pc[c] = "leverage"
  /\ Goto(c, IF pos[loc[c].asset].szi = 0 THEN "levWrite" ELSE "levType")
  /\ UNCHANGED <<redisVars, lock, loc, seen, ops, crashes, history>>

LevType(c) ==
  LET a == loc[c].asset IN
  /\ pc[c] = "levType"
  /\ IF isCross[a] = loc[c].cross[a]
     THEN Goto(c, "levWrite") /\ UNCHANGED <<loc, lock>>
     ELSE Return(c)
  /\ UNCHANGED <<redisVars, seen, ops, crashes, history>>

LevWrite(c) ==
  LET a == loc[c].asset IN
  /\ pc[c] = "levWrite"
  /\ isCross' = [isCross EXCEPT ![a] = loc[c].cross[a]]
  /\ switched' = switched \cup {b \in {a} : isCross'[b] # isCross[b] /\ pos[b].szi # 0}
  /\ Return(c)
  /\ UNCHANGED <<pos, listed, balance, collected, holder, active, cooling, seen, ops, crashes,
                 executed, charged, stale, mixed, overtaken, raced>>

-----------------------------------------------------------------------------
(* applyFunding for the user, outside the lock.                            *)

ApplyFunding(c) ==
  /\ active
  /\ Start(c, "funding", IF listed = {} THEN "deactivate" ELSE "fundRead",
           [Blank EXCEPT !.todo = listed])
  /\ UNCHANGED <<redisVars, lock, seen, crashes, history>>

Deactivate(c) ==
  /\ pc[c] = "deactivate"
  /\ active' = FALSE
  /\ Return(c)
  /\ UNCHANGED <<pos, listed, isCross, balance, collected, holder, cooling, seen, ops, crashes, history>>

\* One asset: the charge, if the position and the funding rate are there.
FundRead(c, a, k) ==
  /\ pc[c] = "fundRead" /\ a \in loc[c].todo
  /\ k # 0 => pos[a].szi # 0 /\ pos[a].asset
  /\ Keep(c, [loc[c] EXCEPT !.todo = @ \ {a}, !.view[a] = pos[a], !.charge[a] = k])
  /\ Read(c, {a})
  /\ UNCHANGED <<redisVars, lock, pc, seen, ops, crashes, executed, charged, mixed, switched,
                 overtaken, raced>>

FundWrite(c) ==
  LET k == loc[c].charge
      C == {a \in Assets : k[a] # 0}
  IN
  /\ pc[c] = "fundRead" /\ loc[c].todo = {}
  /\ pos' = [a \in Assets |-> IF a \in C THEN [pos[a] EXCEPT !.cum = loc[c].view[a].cum + k[a]]
                              ELSE pos[a]]
  /\ balance' = balance - MapThenSumSet(LAMBDA a : k[a], Assets)
  /\ charged' = [a \in Assets |-> charged[a] + k[a]]
  /\ mixed' = mixed \cup (C \cap stale[c])
  /\ Wrote(c, C) /\ Return(c)
  /\ UNCHANGED <<listed, isCross, collected, holder, active, cooling, seen, ops, crashes,
                 executed, switched, overtaken, raced>>

-----------------------------------------------------------------------------
(* resetAccount, outside the lock.                                         *)

\* In the section, with a position read and not yet written.
Snapshot == {"fillFields", "fillWrite", "marginWrite", "isolated", "liqBalance", "cross"}

ResetAccount(c) ==
  /\ Start(c, "reset", "resetWrite", [Blank EXCEPT !.todo = listed])
  /\ UNCHANGED <<redisVars, lock, seen, crashes, history>>

ResetWrite(c) ==
  LET D == loc[c].todo IN
  /\ pc[c] = "resetWrite"
  /\ pos' = [a \in Assets |-> IF a \in D THEN NoHash ELSE pos[a]]
  /\ listed' = {} /\ balance' = Seed
  /\ executed' = [a \in Assets |-> IF a \in D THEN 0 ELSE executed[a]]
  /\ charged' = [a \in Assets |-> IF a \in D THEN 0 ELSE charged[a]]
  /\ mixed' = mixed \ D /\ switched' = switched \ D
  /\ raced' = (raced \/ (\E d \in Calls : pc[d] \in Snapshot)
                     \/ (\E a \in Assets \ D : pos[a].szi # 0))
  /\ Wrote(c, D) /\ Return(c)
  /\ UNCHANGED <<isCross, collected, holder, active, cooling, seen, ops, crashes, overtaken>>

-----------------------------------------------------------------------------
(* A restart loses the calls and the lock; the liquidation worker then     *)
(* fills in the holders.                                                   *)

Restart(c) ==
  /\ crashes < MaxCrashes /\ crashes' = crashes + 1
  /\ pc' = [d \in Calls |-> IF d = c THEN "backfill" ELSE "idle"]
  /\ loc' = [d \in Calls |-> Blank]
  /\ lock' = None /\ seen' = 0
  /\ stale' = [d \in Calls |-> {}]
  /\ UNCHANGED <<redisVars, ops, executed, charged, mixed, switched, overtaken, raced>>

BackfillPositionHolders(c) ==
  /\ pc[c] = "backfill"
  /\ holder' = (holder \/ (active /\ listed # {}))
  /\ Return(c)
  /\ UNCHANGED <<pos, listed, isCross, balance, collected, active, cooling, seen, ops, crashes, history>>

\* The bound is reached and nothing runs.
Terminated ==
  /\ ops = MaxOps /\ \A c \in Calls : pc[c] = "idle"
  /\ UNCHANGED vars

Next ==
  \/ \E c \in Calls :
       \/ Acquire(c)
       \/ FillSkip(c) \/ FillRead(c) \/ FillFields(c)
       \/ MarginRead(c) \/ MarginWrite(c)
       \/ LiquidationTick(c) \/ KeepMarks(c) \/ PruneHolder(c)
       \/ CheckAndLiquidateUser(c) \/ ReloadCross(c) \/ LiqBalance(c) \/ CrossPass(c)
       \/ LevRead(c) \/ LevType(c) \/ LevWrite(c)
       \/ ApplyFunding(c) \/ Deactivate(c) \/ FundWrite(c)
       \/ ResetAccount(c) \/ ResetWrite(c)
       \/ Restart(c) \/ BackfillPositionHolders(c)
       \/ \E r \in Results : FillWrite(c, r) \/ CrossMarket(c, r) \/ CrossBackstop(c, r)
       \/ \E a \in Traded :
            \/ \E sz \in Sizes, ro \in BOOLEAN : ExecuteFill(c, a, sz, ro)
            \/ \E m \in Margins : UpdateIsolatedMargin(c, a, m)
            \/ \E x \in BOOLEAN : UpdateLeverage(c, a, x)
       \/ \E a \in Assets :
            \/ \E k \in Charges \cup {0} : FundRead(c, a, k)
            \/ IsolatedPass(c, a)
            \/ \E r \in Results : IsolatedMarket(c, a, r) \/ IsolatedBackstop(c, a, r)
  \/ \E k \in Assets \cup {Cross} : CooldownEnds(k)
  \/ Terminated

Spec == Init /\ [][Next]_vars

-----------------------------------------------------------------------------
(* Properties.                                                             *)

HoldingTypes ==
  /\ pos \in [Assets -> Hash] /\ listed \in SUBSET Assets
  /\ isCross \in [Assets -> BOOLEAN] /\ holder \in BOOLEAN /\ active \in BOOLEAN
  /\ executed \in [Assets -> Int] /\ raced \in BOOLEAN
  /\ overtaken \in SUBSET {"holders", "users"}
CallTypes ==
  /\ lock \in Calls \cup {None}
  /\ pc \in [Calls -> Labels] /\ loc \in [Calls -> Local]
TypeOK ==
  /\ HoldingTypes /\ CallTypes
  /\ balance \in Int /\ seen \in Int /\ collected \in Nat
  /\ cooling \subseteq Assets \cup {Cross}
  /\ ops \in 0..MaxOps /\ crashes \in 0..MaxCrashes
  /\ charged \in [Assets -> Int] /\ stale \in [Calls -> SUBSET Assets]
  /\ mixed \subseteq Assets /\ switched \subseteq Assets

\* No fill, liquidation or margin change writes a position from a read that
\* another one has overtaken: the size is the sum of all that was executed.
PositionAccounted == ~raced => \A a \in Assets : pos[a].szi = executed[a]

\* The set that liquidation, funding and the account views walk names exactly
\* the assets with a position.
ListedIffOpen == ~raced => listed = {a \in Assets : pos[a].szi # 0}

\* What a fill or a liquidation is about to overwrite is what it read.
Same(h, v) == h.szi = v.szi /\ h.alloc = v.alloc /\ h.raw = v.raw
SnapshotFresh ==
  ~raced => \A c \in Calls :
    /\ pc[c] \in {"fillFields", "fillWrite"} =>
         pos[loc[c].asset].szi = loc[c].view[loc[c].asset].szi
    /\ pc[c] \in {"isolated", "liqBalance", "cross"} =>
         \A a \in loc[c].todo : Same(pos[a], loc[c].view[a])

\* An isolated position's margin is in proportion to its size after any
\* sequence of increases, partial closes, liquidations and flips.
AllocationProportional ==
  ~raced => \A a \in Assets \ switched :
    pos[a].szi # 0 /\ ~isCross[a] => pos[a].alloc = Abs(pos[a].szi)

\* Nothing of a closed position's margin is left for the next one.
NoLeftoverMargin ==
  ~raced => \A a \in Assets : pos[a].szi = 0 => pos[a].alloc = 0 /\ pos[a].raw = 0

\* The funding taken from the balance is the funding recorded with the
\* position, unless a fill or another pass wrote between its read and write.
FundingRecorded == \A a \in Assets \ mixed : pos[a].cum = charged[a]

\* A user with a position is in the indexes that liquidation and funding scan,
\* unless a fill came between a scan's look at the positions and its removal.
Tracked == listed # {} => (holder \/ "holders" \in overtaken) /\ (active \/ "users" \in overtaken)

\* A backstop takes the margin dedicated to an isolated position, whatever its
\* loss; of a cross account it leaves what is dedicated to isolated positions,
\* unless the balance moved meanwhile.
Dedicated == MapThenSumSet(LAMBDA a : IF isCross[a] \/ pos[a].szi = 0 THEN 0
                                      ELSE IsolatedMarginOf(pos[a]), Assets)
BackstopTakesAll ==
  [][~raced =>
      \A c \in Calls, p \in Results :
        /\ \A a \in Assets : IsolatedBackstop(c, a, p) => balance' = balance - IsolatedMarginOf(pos[a])
        /\ CrossBackstop(c, p) /\ balance = seen /\ switched = {}
             => balance' = Dedicated]_vars

-----------------------------------------------------------------------------
(* What the sources say and the code does not keep.                        *)

\* keys.ts: positions:holders has "Every (user, dex) that holds at least one
\* perp position".
EveryHolderIndexed == listed # {} => holder

\* order.ts: "The margin type of an open position can't change".
MarginTypeFixed ==
  [][\A a \in Assets : pos[a].szi # 0 /\ pos'[a].szi # 0 => isCross'[a] = isCross[a]]_vars
=============================================================================
