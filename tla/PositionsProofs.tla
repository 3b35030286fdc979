--------------------------- MODULE PositionsProofs ---------------------------
(***************************************************************************)
(* Positions, for any number of assets, calls, operations and restarts: no *)
(* writer of a position works from a view another has overtaken, so that a *)
(* position is the sum of what was executed and is listed exactly while it *)
(* is open, records the funding it was charged, and keeps margin in        *)
(* proportion to its size.                                                 *)
(*                                                                         *)
(* The properties are not inductive: that a fill writes a size computed    *)
(* from the current one depends on who holds the lock and on what each     *)
(* call in the section has read. OkCall says what a call's label asks of   *)
(* the lock and of its variables, Fresh what it asks of its view, Book     *)
(* what holds between the hashes, the list and the executed sizes. On top  *)
(* of these TInv follows the scans of the indexes, FInv what each call has *)
(* read of cumFunding and which writes it has missed, AInv the margin      *)
(* fields and margin types in each view, and RInv the types of the         *)
(* balances and of the counters.                                           *)
(* Sums over the assets are reasoned about without induction: a smallest   *)
(* set that refutes a fact about them would have a smaller one.            *)
(***************************************************************************)
EXTENDS Positions, FiniteSetTheorems, WellFoundedInduction, TLAPS

\* In the user's section.
Locked == {"fill", "fillFields", "fillWrite", "margin", "marginWrite",
           "liquidate", "isolated", "liqBalance", "cross"}
\* Working on the asset of the call.
OnAsset == {"fill", "fillFields", "fillWrite", "margin", "marginWrite",
            "leverage", "levType", "levWrite"}
\* Liquidating positions it has loaded.
Liquidating == {"isolated", "liqBalance", "cross"}

OkCall(c, lab, l, lk) ==
  /\ lab \in Locked => lk = c
  /\ lab = "queued" => /\ l.op \in {"fill", "margin", "liquidate"}
                       /\ l.op # "liquidate" => l.asset \in Assets
  /\ lab \in OnAsset => l.asset \in Assets
  /\ lab \in Liquidating => \A a \in l.todo : l.view[a].szi # 0

Fresh(lab, l, p) ==
  /\ lab \in {"fillFields", "fillWrite"} => p[l.asset].szi = l.view[l.asset].szi
  /\ lab = "marginWrite" => p[l.asset].szi # 0
  /\ lab \in Liquidating => \A a \in l.todo : Same(p[a], l.view[a])

Book ==
  \A a \in Assets :
    /\ pos[a].szi = executed[a]
    /\ a \in listed <=> pos[a].szi # 0
    /\ pos[a].asset <=> pos[a].szi # 0
    /\ pos[a].szi = 0 => pos[a].alloc = 0 /\ pos[a].raw = 0

IInv ==
  /\ HoldingTypes /\ CallTypes
  /\ \A c \in Calls : OkCall(c, pc[c], loc[c], lock)
  /\ ~raced => Book /\ \A c \in Calls : Fresh(pc[c], loc[c], pos)

-----------------------------------------------------------------------------
(* One call moves.                                                         *)

Moves(c, lab, l) ==
  /\ pc' = [pc EXCEPT ![c] = lab] /\ loc' = [loc EXCEPT ![c] = l]
  /\ lock' = lock \/ (lock \in {c, None} /\ lock' \in {c, None})

\* The others' views are as good as before.
OthersKept(c) ==
  \/ lock = c
  \/ \A d \in Calls : pc[d] \notin Locked \ {"fill", "margin", "liquidate"}
  \/ \A a \in Assets : Same(pos'[a], pos[a])

LEMMA BlankLocal == Blank \in Local
  BY DEF Blank, Local, NoHash, Hash, AllOps

(* A step of one call preserves the invariant if the call ends up where    *)
(* its label asks, the book is right and the others' views are kept.       *)
LEMMA StepInv ==
  ASSUME IInv, NEW c \in Calls, NEW lab \in Labels, NEW l \in Local,
         Moves(c, lab, l), HoldingTypes', OkCall(c, lab, l, lock'),
         ~raced' => ~raced /\ OthersKept(c) /\ Book' /\ Fresh(lab, l, pos')
  PROVE  IInv'
<1>1. CallTypes'
  BY DEF IInv, CallTypes, Moves
<1>2. ASSUME NEW d \in Calls, d # c
      PROVE  pc'[d] = pc[d] /\ loc'[d] = loc[d] /\ loc[d] \in Local
  BY <1>2 DEF IInv, CallTypes, Moves
<1>3. pc'[c] = lab /\ loc'[c] = l
  BY DEF IInv, CallTypes, Moves
<1>4. ASSUME NEW d \in Calls PROVE OkCall(d, pc'[d], loc'[d], lock')
  <2>1. CASE d = c
    BY <2>1, <1>3
  <2>2. CASE d # c
    <3>1. OkCall(d, pc[d], loc[d], lock)
      BY DEF IInv
    <3>2. pc[d] \in Locked => lock' = d
      BY <3>1, <2>2, PositionsAssumption DEF OkCall, Moves
    <3> QED BY <3>1, <3>2, <1>2, <2>2 DEF OkCall
  <2> QED BY <2>1, <2>2
<1>5. ASSUME ~raced', NEW d \in Calls PROVE Fresh(pc'[d], loc'[d], pos')
  <2>1. CASE d = c
    BY <2>1, <1>3, <1>5
  <2>2. CASE d # c
    <3>1. Fresh(pc[d], loc[d], pos) /\ OkCall(d, pc[d], loc[d], lock)
      BY <1>5 DEF IInv
    <3>2. CASE pc[d] \notin Locked \ {"fill", "margin", "liquidate"}
      BY <3>2, <1>2, <2>2 DEF Fresh, Locked, Liquidating
    <3>3. CASE pc[d] \in Locked \ {"fill", "margin", "liquidate"}
      <4>1. lock = d
        BY <3>1, <3>3 DEF OkCall
      <4>2. \A a \in Assets : Same(pos'[a], pos[a])
        BY <4>1, <3>3, <2>2, <1>5 DEF OthersKept
      <4>3. loc[d].todo \subseteq Assets
        BY <1>2, <2>2 DEF Local
      <4>4. pc[d] \in {"fillFields", "fillWrite", "marginWrite"} => loc[d].asset \in Assets
        BY <3>1 DEF OkCall, OnAsset
      <4>5. Fresh(pc[d], loc[d], pos')
        BY <3>1, <4>2, <4>3, <4>4 DEF Fresh, Same, Liquidating
      <4> QED BY <4>5, <1>2, <2>2
    <3> QED BY <3>2, <3>3
  <2> QED BY <2>1, <2>2
<1> QED BY <1>1, <1>4, <1>5 DEF IInv

(* Where the hashes, the list and the executed sizes do not change, only   *)
(* the call itself has something to show.                                  *)
LEMMA QuietInv ==
  ASSUME IInv, NEW c \in Calls, NEW lab \in Labels, NEW l \in Local,
         Moves(c, lab, l), HoldingTypes', OkCall(c, lab, l, lock'),
         UNCHANGED <<pos, listed, executed, raced>>,
         ~raced => Fresh(lab, l, pos)
  PROVE  IInv'
<1>1. ~raced' => ~raced /\ OthersKept(c) /\ Book' /\ Fresh(lab, l, pos')
  BY DEF IInv, Book, OthersKept, Same
<1> QED BY <1>1, StepInv

LEMMA CallFacts ==
  ASSUME IInv, NEW c \in Calls
  PROVE  /\ loc[c] \in Local /\ pc[c] \in Labels /\ OkCall(c, pc[c], loc[c], lock)
         /\ ~raced => Fresh(pc[c], loc[c], pos)
         /\ lock \in Calls \cup {None}
  BY DEF IInv, CallTypes

\* Returning asks nothing.
LEMMA ReturnMoves ==
  ASSUME IInv, NEW c \in Calls, Return(c)
  PROVE  /\ Moves(c, "idle", Blank) /\ "idle" \in Labels /\ Blank \in Local
         /\ OkCall(c, "idle", Blank, lock') /\ Fresh("idle", Blank, pos')
<1>1. Moves(c, "idle", Blank)
  BY DEF Return, Goto, Keep, Moves
<1> QED BY <1>1, BlankLocal DEF Labels, OkCall, Fresh, Locked, OnAsset, Liquidating

LEMMA QuietReturn ==
  ASSUME IInv, NEW c \in Calls, Return(c), HoldingTypes', UNCHANGED <<pos, listed, executed, raced>>
  PROVE  IInv'
  BY ReturnMoves, QuietInv

\* Nor does starting.
LEMMA StartInv ==
  ASSUME IInv, NEW c \in Calls, NEW op \in AllOps, NEW lab \in Labels, NEW v \in Local,
         Start(c, op, lab, v), UNCHANGED <<redisVars, lock, history>>,
         lab \notin Locked,
         lab = "queued" => op \in {"fill", "margin", "liquidate"},
         lab \in OnAsset \/ (lab = "queued" /\ op # "liquidate") => v.asset \in Assets
  PROVE  IInv'
<1> DEFINE l == [v EXCEPT !.op = op]
<1>1. l \in Local /\ l.op = op /\ l.asset = v.asset
  BY DEF Local
<1>2. Moves(c, lab, l)
  BY DEF Start, Goto, Keep, Moves
<1>3. HoldingTypes' /\ UNCHANGED <<pos, listed, executed, raced>>
  BY DEF IInv, HoldingTypes, redisVars, history
<1>4. OkCall(c, lab, l, lock') /\ Fresh(lab, l, pos)
  BY <1>1 DEF OkCall, Fresh, Locked, Liquidating
<1> QED BY <1>1, <1>2, <1>3, <1>4, QuietInv

LEMMA StartsInv ==
  ASSUME IInv, NEW c \in Calls,
         \/ LiquidationTick(c) \/ KeepMarks(c) \/ ApplyFunding(c) \/ ResetAccount(c)
         \/ \E a \in Traded :
              \/ \E sz \in Sizes, ro \in BOOLEAN : ExecuteFill(c, a, sz, ro)
              \/ \E m \in Margins : UpdateIsolatedMargin(c, a, m)
              \/ \E x \in BOOLEAN : UpdateLeverage(c, a, x)
  PROVE  IInv'
<1> USE BlankLocal
<1>0. listed \in SUBSET Assets /\ [Blank EXCEPT !.todo = listed] \in Local
  BY DEF IInv, HoldingTypes, Local
<1>1. CASE LiquidationTick(c)
  <2> DEFINE lab == IF listed = {} THEN "prune" ELSE "queued"
  <2>1. lab \in Labels /\ lab \notin Locked /\ lab \notin OnAsset /\ "liquidate" \in AllOps
    BY DEF Labels, Locked, OnAsset, AllOps
  <2>2. Start(c, "liquidate", lab, Blank) /\ UNCHANGED <<redisVars, lock, history>>
    BY <1>1 DEF LiquidationTick
  <2> QED BY <2>1, <2>2, StartInv
<1>2. CASE KeepMarks(c)
  <2>1. "prune" \in Labels \ (Locked \cup OnAsset) /\ "marks" \in AllOps
    BY DEF Labels, Locked, OnAsset, AllOps
  <2>2. Start(c, "marks", "prune", Blank) /\ UNCHANGED <<redisVars, lock, history>>
    BY <1>2 DEF KeepMarks
  <2> QED BY <2>1, <2>2, StartInv
<1>3. CASE ApplyFunding(c)
  <2> DEFINE lab == IF listed = {} THEN "deactivate" ELSE "fundRead"
  <2>1. lab \in Labels \ (Locked \cup OnAsset) /\ lab # "queued" /\ "funding" \in AllOps
    BY DEF Labels, Locked, OnAsset, AllOps
  <2>2. Start(c, "funding", lab, [Blank EXCEPT !.todo = listed])
        /\ UNCHANGED <<redisVars, lock, history>>
    BY <1>3 DEF ApplyFunding
  <2> QED BY <1>0, <2>1, <2>2, StartInv
<1>4. CASE ResetAccount(c)
  <2>1. "resetWrite" \in Labels \ (Locked \cup OnAsset) /\ "reset" \in AllOps
    BY DEF Labels, Locked, OnAsset, AllOps
  <2>2. Start(c, "reset", "resetWrite", [Blank EXCEPT !.todo = listed])
        /\ UNCHANGED <<redisVars, lock, history>>
    BY <1>4 DEF ResetAccount
  <2> QED BY <1>0, <2>1, <2>2, StartInv
<1>5. ASSUME NEW a \in Traded, NEW sz \in Sizes, NEW ro \in BOOLEAN, ExecuteFill(c, a, sz, ro)
      PROVE  IInv'
  <2> DEFINE v == [Blank EXCEPT !.asset = a, !.size = sz, !.reduceOnly = ro]
  <2>1. v \in Local /\ v.asset \in Assets
    BY PositionsAssumption DEF Local
  <2>2. "queued" \in Labels \ (Locked \cup OnAsset) /\ "fill" \in AllOps
    BY DEF Labels, Locked, OnAsset, AllOps
  <2>3. Start(c, "fill", "queued", v) /\ UNCHANGED <<redisVars, lock, history>>
    BY <1>5 DEF ExecuteFill
  <2> QED BY <2>1, <2>2, <2>3, StartInv
<1>6. ASSUME NEW a \in Traded, NEW m \in Margins, UpdateIsolatedMargin(c, a, m)
      PROVE  IInv'
  <2> DEFINE v == [Blank EXCEPT !.asset = a, !.size = m]
  <2>1. v \in Local /\ v.asset \in Assets
    BY PositionsAssumption DEF Local
  <2>2. "queued" \in Labels \ (Locked \cup OnAsset) /\ "margin" \in AllOps
    BY DEF Labels, Locked, OnAsset, AllOps
  <2>3. Start(c, "margin", "queued", v) /\ UNCHANGED <<redisVars, lock, history>>
    BY <1>6 DEF UpdateIsolatedMargin
  <2> QED BY <2>1, <2>2, <2>3, StartInv
<1>7. ASSUME NEW a \in Traded, NEW x \in BOOLEAN, UpdateLeverage(c, a, x)
      PROVE  IInv'
  <2> DEFINE v == [Blank EXCEPT !.asset = a, !.cross[a] = x]
  <2>1. a \in Assets /\ [Blank.cross EXCEPT ![a] = x] \in [Assets -> BOOLEAN]
    BY PositionsAssumption DEF Local
  <2>2. v \in Local /\ v.asset \in Assets
    BY <2>1 DEF Local
  <2>3. "leverage" \in Labels \ Locked /\ "leverage" \in AllOps
    BY DEF Labels, Locked, AllOps
  <2>4. Start(c, "leverage", "leverage", v) /\ UNCHANGED <<redisVars, lock, history>>
    BY <1>7 DEF UpdateLeverage
  <2> QED BY <2>2, <2>3, <2>4, StartInv
<1> QED BY <1>1, <1>2, <1>3, <1>4, <1>5, <1>6, <1>7

-----------------------------------------------------------------------------
(* Steps that read, or that write something else than positions.           *)

LEMMA AcquireInv ==
  ASSUME IInv, NEW c \in Calls, Acquire(c)
  PROVE  IInv'
<1> DEFINE l == loc[c]
<1>1. l \in Local /\ OkCall(c, "queued", l, lock)
  BY CallFacts DEF Acquire
<1>2. l.op \in {"fill", "margin", "liquidate"} /\ (l.op # "liquidate" => l.asset \in Assets)
  BY <1>1 DEF OkCall
<1>3. l.op \in Labels
  BY <1>2 DEF Labels
<1>4. Moves(c, l.op, l)
  <2>1. loc' = [loc EXCEPT ![c] = l]
    BY DEF Acquire, IInv, CallTypes
  <2> QED BY <2>1 DEF Acquire, Goto, Moves
<1>5. HoldingTypes' /\ UNCHANGED <<pos, listed, executed, raced>>
  BY DEF Acquire, IInv, HoldingTypes, redisVars, history
<1>6. OkCall(c, l.op, l, lock') /\ Fresh(l.op, l, pos)
  BY <1>2 DEF Acquire, OkCall, Fresh, OnAsset, Liquidating
<1> QED BY <1>1, <1>3, <1>4, <1>5, <1>6, QuietInv

LEMMA FillReadInv ==
  ASSUME IInv, NEW c \in Calls, FillRead(c)
  PROVE  IInv'
<1> DEFINE a == loc[c].asset
           l == [loc[c] EXCEPT !.view[a] = pos[a], !.size = Clamped(c, pos[a].szi)]
<1>1. loc[c] \in Local /\ OkCall(c, "fill", loc[c], lock) /\ a \in Assets /\ lock = c
  BY CallFacts DEF FillRead, OkCall, OnAsset, Locked
<1>2. pos[a] \in Hash
  BY <1>1 DEF IInv, HoldingTypes
<1>3. Clamped(c, pos[a].szi) \in Int
  BY <1>1, <1>2 DEF Clamped, Hash, Local
<1>4. l \in Local /\ l.asset = a /\ l.view[a] = pos[a]
  BY <1>1, <1>2, <1>3 DEF Local
<1>5. Moves(c, "fillFields", l) /\ lock' = lock
  BY DEF FillRead, Goto, Keep, Moves
<1>6. HoldingTypes' /\ UNCHANGED <<pos, listed, executed, raced>>
  BY DEF FillRead, IInv, HoldingTypes, redisVars, history
<1>7. OkCall(c, "fillFields", l, lock') /\ Fresh("fillFields", l, pos) /\ "fillFields" \in Labels
  BY <1>1, <1>4, <1>5 DEF OkCall, Fresh, Labels, Liquidating
<1> QED BY <1>4, <1>5, <1>6, <1>7, QuietInv

LEMMA FillFieldsInv ==
  ASSUME IInv, NEW c \in Calls, FillFields(c)
  PROVE  IInv'
<1> DEFINE a == loc[c].asset
           h == [pos[a] EXCEPT !.szi = loc[c].view[a].szi]
           l == [loc[c] EXCEPT !.view[a] = h, !.cross[a] = isCross[a]]
<1>1. /\ loc[c] \in Local /\ OkCall(c, "fillFields", loc[c], lock) /\ a \in Assets /\ lock = c
      /\ ~raced => pos[a].szi = loc[c].view[a].szi
  BY CallFacts DEF FillFields, OkCall, OnAsset, Locked, Fresh, Liquidating
<1>2. pos[a] \in Hash /\ isCross[a] \in BOOLEAN /\ loc[c].view[a] \in Hash
  BY <1>1 DEF IInv, HoldingTypes, Local
<1>3. h \in Hash /\ h.szi = loc[c].view[a].szi
  BY <1>2 DEF Hash
<1>4. l \in Local /\ l.asset = a /\ l.view[a] = h
  BY <1>1, <1>2, <1>3 DEF Local
<1>5. Moves(c, "fillWrite", l) /\ lock' = lock
  BY DEF FillFields, Goto, Keep, Moves
<1>6. HoldingTypes' /\ UNCHANGED <<pos, listed, executed, raced>>
  BY DEF FillFields, IInv, HoldingTypes, redisVars
<1>7. OkCall(c, "fillWrite", l, lock') /\ "fillWrite" \in Labels /\ (~raced => Fresh("fillWrite", l, pos))
  BY <1>1, <1>3, <1>4, <1>5 DEF OkCall, Fresh, Labels, Liquidating
<1> QED BY <1>4, <1>5, <1>6, <1>7, QuietInv

LEMMA MarginReadInv ==
  ASSUME IInv, NEW c \in Calls, MarginRead(c)
  PROVE  IInv'
<1> DEFINE a == loc[c].asset
           l == [loc[c] EXCEPT !.view[a] = pos[a]]
<1>1. loc[c] \in Local /\ OkCall(c, "margin", loc[c], lock) /\ a \in Assets /\ lock = c
  BY CallFacts DEF MarginRead, OkCall, OnAsset, Locked
<1>2. pos[a] \in Hash
  BY <1>1 DEF IInv, HoldingTypes
<1>3. l \in Local /\ l.asset = a
  BY <1>1, <1>2 DEF Local
<1>4. HoldingTypes' /\ UNCHANGED <<pos, listed, executed, raced>>
  BY DEF MarginRead, IInv, HoldingTypes, redisVars, history
<1>5. CASE pos[a].asset
  <2>1. Moves(c, "marginWrite", l) /\ lock' = lock
    BY <1>5 DEF MarginRead, Goto, Keep, Moves
  <2>2. ~raced => pos[a].szi # 0
    BY <1>1, <1>5 DEF IInv, Book
  <2>3. OkCall(c, "marginWrite", l, lock') /\ "marginWrite" \in Labels
        /\ (~raced => Fresh("marginWrite", l, pos))
    BY <1>1, <1>3, <2>1, <2>2 DEF OkCall, Fresh, Labels, Liquidating
  <2> QED BY <1>3, <1>4, <2>1, <2>3, QuietInv
<1>6. CASE ~pos[a].asset
  BY <1>4, <1>6, QuietReturn DEF MarginRead
<1> QED BY <1>5, <1>6

LEMMA LoadFacts ==
  ASSUME IInv, NEW c \in Calls, NEW T \in SUBSET Loaded
  PROVE  LET l == [loc[c] EXCEPT !.todo = T, !.cross = isCross,
                      !.view = [a \in Assets |-> IF a \in Loaded THEN pos[a] ELSE NoHash]]
         IN  l \in Local /\ l.todo = T /\ \A a \in T : Same(pos[a], l.view[a]) /\ l.view[a].szi # 0
<1> DEFINE w == [a \in Assets |-> IF a \in Loaded THEN pos[a] ELSE NoHash]
           l == [loc[c] EXCEPT !.todo = T, !.cross = isCross, !.view = w]
<1>1. NoHash \in Hash
  BY DEF NoHash, Hash
<1>2. w \in [Assets -> Hash] /\ isCross \in [Assets -> BOOLEAN] /\ Loaded \subseteq Assets
  BY <1>1 DEF IInv, HoldingTypes, Loaded
<1>3. loc[c] \in Local
  BY CallFacts
<1>4. l \in Local /\ l.todo = T /\ l.view = w
  BY <1>2, <1>3 DEF Local
<1>5. \A a \in T : Same(pos[a], w[a]) /\ w[a].szi # 0
  BY <1>2 DEF Same, Loaded
<1> QED BY <1>4, <1>5

LEMMA CheckAndLiquidateUserInv ==
  ASSUME IInv, NEW c \in Calls, CheckAndLiquidateUser(c)
  PROVE  IInv'
<1> DEFINE T == {a \in Loaded : ~isCross[a]}
           l == [loc[c] EXCEPT !.todo = T, !.cross = isCross,
                   !.view = [a \in Assets |-> IF a \in Loaded THEN pos[a] ELSE NoHash]]
<1>1. l \in Local /\ l.todo = T /\ \A a \in T : Same(pos[a], l.view[a]) /\ l.view[a].szi # 0
  <2> HIDE DEF T
  <2>1. T \in SUBSET Loaded BY DEF T
  <2> QED BY <2>1, LoadFacts
<1>2. lock = c
  BY CallFacts DEF CheckAndLiquidateUser, OkCall, Locked
<1>3. Moves(c, "isolated", l) /\ lock' = lock
  BY DEF CheckAndLiquidateUser, Load, Goto, Keep, Moves
<1>4. HoldingTypes' /\ UNCHANGED <<pos, listed, executed, raced>>
  BY DEF CheckAndLiquidateUser, IInv, HoldingTypes, redisVars, history
<1> HIDE DEF T, l
<1>5. OkCall(c, "isolated", l, lock') /\ Fresh("isolated", l, pos) /\ "isolated" \in Labels
  BY <1>1, <1>2, <1>3 DEF OkCall, Fresh, Labels, OnAsset, Liquidating
<1> QED BY <1>1, <1>3, <1>4, <1>5, QuietInv

LEMMA ReloadCrossInv ==
  ASSUME IInv, NEW c \in Calls, ReloadCross(c)
  PROVE  IInv'
<1> DEFINE T == {a \in Loaded : isCross[a]}
           l == [loc[c] EXCEPT !.todo = T, !.cross = isCross,
                   !.view = [a \in Assets |-> IF a \in Loaded THEN pos[a] ELSE NoHash]]
<1>1. l \in Local /\ l.todo = T /\ \A a \in T : Same(pos[a], l.view[a]) /\ l.view[a].szi # 0
  <2> HIDE DEF T
  <2>1. T \in SUBSET Loaded BY DEF T
  <2> QED BY <2>1, LoadFacts
<1>2. lock = c
  BY CallFacts DEF ReloadCross, OkCall, Locked
<1>3. HoldingTypes' /\ UNCHANGED <<pos, listed, executed, raced>>
  BY DEF ReloadCross, IInv, HoldingTypes, redisVars, history
<1>4. CASE \E a \in Loaded : isCross[a]
  <2>1. Moves(c, "liqBalance", l) /\ lock' = lock
    BY <1>4 DEF ReloadCross, Load, Goto, Keep, Moves
  <2> HIDE DEF T, l
  <2>2. OkCall(c, "liqBalance", l, lock') /\ Fresh("liqBalance", l, pos) /\ "liqBalance" \in Labels
    BY <1>1, <1>2, <2>1 DEF OkCall, Fresh, Labels, OnAsset, Liquidating
  <2> QED BY <1>1, <1>3, <2>1, <2>2, QuietInv
<1>5. CASE ~\E a \in Loaded : isCross[a]
  BY <1>3, <1>5, QuietReturn DEF ReloadCross
<1> QED BY <1>4, <1>5

LEMMA IsolatedPassInv ==
  ASSUME IInv, NEW c \in Calls, NEW a \in Assets, IsolatedPass(c, a)
  PROVE  IInv'
<1> DEFINE l == [loc[c] EXCEPT !.todo = @ \ {a}]
<1>1. /\ loc[c] \in Local /\ lock = c
      /\ ~raced => \A b \in loc[c].todo : Same(pos[b], loc[c].view[b])
      /\ \A b \in loc[c].todo : loc[c].view[b].szi # 0
  BY CallFacts DEF IsolatedPass, NextIsolated, OkCall, Locked, Fresh, Liquidating
<1>2. l \in Local /\ l.todo = loc[c].todo \ {a} /\ l.view = loc[c].view
  BY <1>1 DEF Local
<1>3. Moves(c, "isolated", l) /\ lock' = lock
  BY DEF IsolatedPass, NextIsolated, Goto, Keep, Moves
<1>4. HoldingTypes' /\ UNCHANGED <<pos, listed, executed, raced>>
  BY DEF IsolatedPass, IInv, HoldingTypes, redisVars, history
<1>5. OkCall(c, "isolated", l, lock') /\ (~raced => Fresh("isolated", l, pos)) /\ "isolated" \in Labels
  BY <1>1, <1>2, <1>3 DEF OkCall, Fresh, Labels, OnAsset, Liquidating
<1> QED BY <1>2, <1>3, <1>4, <1>5, QuietInv

LEMMA LiqBalanceInv ==
  ASSUME IInv, NEW c \in Calls, LiqBalance(c)
  PROVE  IInv'
<1>1. /\ loc[c] \in Local /\ lock = c
      /\ ~raced => Fresh("liqBalance", loc[c], pos)
      /\ \A b \in loc[c].todo : loc[c].view[b].szi # 0
  BY CallFacts DEF LiqBalance, OkCall, Locked, Liquidating
<1>2. Moves(c, "cross", loc[c]) /\ lock' = lock
  <2>1. loc' = [loc EXCEPT ![c] = loc[c]]
    BY DEF LiqBalance, IInv, CallTypes
  <2> QED BY <2>1 DEF LiqBalance, Goto, Moves
<1>3. HoldingTypes' /\ UNCHANGED <<pos, listed, executed, raced>>
  BY DEF LiqBalance, IInv, HoldingTypes, redisVars, history
<1>4. OkCall(c, "cross", loc[c], lock') /\ (~raced => Fresh("cross", loc[c], pos)) /\ "cross" \in Labels
  BY <1>1, <1>2 DEF OkCall, Fresh, Labels, OnAsset, Liquidating
<1> QED BY <1>1, <1>2, <1>3, <1>4, QuietInv

LEMMA LeverageInv ==
  ASSUME IInv, NEW c \in Calls, LevRead(c) \/ LevType(c) \/ LevWrite(c)
  PROVE  IInv'
<1>1. loc[c] \in Local /\ loc[c].asset \in Assets
  BY CallFacts DEF LevRead, LevType, LevWrite, OkCall, OnAsset
<1>2. loc = [loc EXCEPT ![c] = loc[c]]
  BY DEF IInv, CallTypes
<1>3. ASSUME NEW lab \in {"levWrite", "levType"}
      PROVE  lab \in Labels /\ OkCall(c, lab, loc[c], lock) /\ Fresh(lab, loc[c], pos)
  BY <1>1 DEF Labels, OkCall, Fresh, Locked, Liquidating
<1>4. CASE LevRead(c)
  <2> DEFINE lab == IF pos[loc[c].asset].szi = 0 THEN "levWrite" ELSE "levType"
  <2>1. Moves(c, lab, loc[c]) /\ lock' = lock
    BY <1>2, <1>4 DEF LevRead, Goto, Moves
  <2>2. HoldingTypes' /\ UNCHANGED <<pos, listed, executed, raced>>
    BY <1>4 DEF LevRead, IInv, HoldingTypes, redisVars, history
  <2> QED BY <1>1, <1>3, <2>1, <2>2, QuietInv
<1>5. CASE LevType(c)
  <2>1. HoldingTypes' /\ UNCHANGED <<pos, listed, executed, raced>>
    BY <1>5 DEF LevType, IInv, HoldingTypes, redisVars, history
  <2>2. CASE isCross[loc[c].asset] = loc[c].cross[loc[c].asset]
    <3>1. Moves(c, "levWrite", loc[c]) /\ lock' = lock
      BY <1>2, <1>5, <2>2 DEF LevType, Goto, Moves
    <3> QED BY <1>1, <1>3, <2>1, <3>1, QuietInv
  <2>3. CASE isCross[loc[c].asset] # loc[c].cross[loc[c].asset]
    BY <1>5, <2>1, <2>3, QuietReturn DEF LevType
  <2> QED BY <2>2, <2>3
<1>6. CASE LevWrite(c)
  <2>1. loc[c].cross[loc[c].asset] \in BOOLEAN
    BY <1>1 DEF Local
  <2>2. HoldingTypes' /\ UNCHANGED <<pos, listed, executed, raced>>
    BY <1>1, <1>6, <2>1 DEF LevWrite, IInv, HoldingTypes
  <2> QED BY <1>6, <2>2, QuietReturn DEF LevWrite
<1> QED BY <1>4, <1>5, <1>6

LEMMA FundReadInv ==
  ASSUME IInv, NEW c \in Calls, NEW a \in Assets, NEW k \in Charges \cup {0}, FundRead(c, a, k)
  PROVE  IInv'
<1> DEFINE l == [loc[c] EXCEPT !.todo = @ \ {a}, !.view[a] = pos[a], !.charge[a] = k]
<1>1. loc[c] \in Local /\ pos[a] \in Hash /\ k \in Int
  BY CallFacts, PositionsAssumption DEF IInv, HoldingTypes
<1>2. l \in Local
  BY <1>1 DEF Local
<1>3. Moves(c, "fundRead", l)
  <2>1. pc' = [pc EXCEPT ![c] = "fundRead"]
    BY DEF FundRead, IInv, CallTypes
  <2> QED BY <2>1 DEF FundRead, Keep, Moves
<1>4. HoldingTypes' /\ UNCHANGED <<pos, listed, executed, raced>>
  BY DEF FundRead, IInv, HoldingTypes, redisVars
<1>5. OkCall(c, "fundRead", l, lock') /\ Fresh("fundRead", l, pos) /\ "fundRead" \in Labels
  BY DEF OkCall, Fresh, Labels, Locked, OnAsset, Liquidating
<1> QED BY <1>2, <1>3, <1>4, <1>5, QuietInv

LEMMA QuietReturnsInv ==
  ASSUME IInv, NEW c \in Calls,
         \/ FillSkip(c) \/ PruneHolder(c) \/ CrossPass(c) \/ Deactivate(c)
         \/ BackfillPositionHolders(c)
  PROVE  IInv'
<1>1. Return(c)
  BY DEF FillSkip, PruneHolder, CrossPass, Deactivate, BackfillPositionHolders
<1>2. UNCHANGED <<pos, listed, executed, raced, isCross, overtaken>>
  BY DEF FillSkip, PruneHolder, CrossPass, Deactivate, BackfillPositionHolders, redisVars, history
<1>3. holder' \in BOOLEAN /\ active' \in BOOLEAN
  BY DEF FillSkip, PruneHolder, CrossPass, Deactivate, BackfillPositionHolders, redisVars,
         IInv, HoldingTypes
<1>4. HoldingTypes'
  BY <1>2, <1>3 DEF IInv, HoldingTypes
<1> QED BY <1>1, <1>2, <1>4, QuietReturn

-----------------------------------------------------------------------------
(* Steps that write positions.                                             *)

LEMMA NoHashFacts ==
  NoHash \in Hash /\ NoHash.szi = 0 /\ NoHash.alloc = 0 /\ NoHash.raw = 0 /\ NoHash.asset = FALSE
  BY DEF NoHash, Hash

\* In proportion to a part of something is an integer.
LEMMA ScaleType ==
  ASSUME NEW x \in Int, NEW kept \in Int, NEW whole \in Int, whole > 0
  PROVE  Scale(x, kept, whole) \in Int
<1>1. x * kept \in Int
  OBVIOUS
<1> QED BY <1>1 DEF Scale

LEMMA AbsFacts ==
  ASSUME NEW n \in Int
  PROVE  Abs(n) \in Nat /\ (n # 0 => Abs(n) > 0) /\ Sign(n) \in {-1, 1}
  BY DEF Abs, Sign

LEMMA AllocType ==
  ASSUME NEW h \in Hash
  PROVE  Alloc(h) \in Int
  BY AbsFacts DEF Alloc, Hash

LEMMA FilledTypes ==
  ASSUME NEW h \in Hash, NEW v \in Hash, NEW sz \in Int
  PROVE  FilledAlloc(v, sz) \in Int /\ FilledRaw(h, v, sz) \in Int
<1>1. /\ v.szi \in Int /\ v.raw \in Int /\ h.raw \in Int /\ v.szi + sz \in Int
      /\ Abs(v.szi) \in Int /\ Abs(sz) \in Int /\ Abs(v.szi + sz) \in Int
  BY AbsFacts DEF Hash
<1>2. v.szi # 0 => Abs(v.szi) > 0
  BY <1>1, AbsFacts
<1>3. Alloc(v) \in Int
  BY AllocType
<1>4. ~Increasing(v.szi, sz) => v.szi # 0
  BY DEF Increasing
<1>5. ~Increasing(v.szi, sz) => /\ Scale(Alloc(v), Abs(v.szi + sz), Abs(v.szi)) \in Int
                                /\ Scale(v.raw, Abs(v.szi + sz), Abs(v.szi)) \in Int
  BY <1>1, <1>2, <1>3, <1>4, ScaleType
<1>6. FilledAlloc(v, sz) \in Int
  BY <1>1, <1>3, <1>5 DEF FilledAlloc
<1>7. FilledRaw(h, v, sz) \in Int
  BY <1>1, <1>5 DEF FilledRaw
<1> QED BY <1>6, <1>7

LEMMA FillWriteInv ==
  ASSUME IInv, NEW c \in Calls, NEW r \in Results, FillWrite(c, r)
  PROVE  IInv'
<1> DEFINE a   == loc[c].asset
           v   == loc[c].view[a]
           sz  == loc[c].size
           new == v.szi + sz
           iso == ~loc[c].cross[a]
           h   == pos[a]
           filled == [szi |-> new, cum |-> v.cum, asset |-> TRUE,
                      alloc |-> IF iso THEN FilledAlloc(v, sz) ELSE h.alloc,
                      raw |-> IF iso THEN FilledRaw(h, v, sz) ELSE h.raw]
<1>1. /\ loc[c] \in Local /\ a \in Assets /\ lock = c
      /\ ~raced => pos[a].szi = v.szi
  BY CallFacts DEF FillWrite, OkCall, OnAsset, Locked, Fresh, Liquidating
<1>2. v \in Hash /\ h \in Hash /\ sz \in Int /\ new \in Int
  BY <1>1 DEF IInv, HoldingTypes, Local, Hash
<1>3. filled \in Hash
  BY <1>2, FilledTypes DEF Hash
<1>4. /\ pos' = [pos EXCEPT ![a] = IF new = 0 THEN NoHash ELSE filled]
      /\ listed' = IF new = 0 THEN listed \ {a} ELSE listed \cup {a}
      /\ executed' = [executed EXCEPT ![a] = @ + sz]
      /\ raced' = raced /\ isCross' = isCross
      /\ holder' = IF new = 0 THEN holder ELSE TRUE
      /\ active' = TRUE
      /\ overtaken' \in SUBSET {"holders", "users"}
      /\ Return(c)
  BY DEF FillWrite, Unlisted, IInv, HoldingTypes
<1> HIDE DEF filled
<1>5. HoldingTypes'
  <2>1. (IF new = 0 THEN NoHash ELSE filled) \in Hash
    BY <1>3, NoHashFacts
  <2>2. pos' \in [Assets -> Hash]
    BY <1>4, <2>1 DEF IInv, HoldingTypes
  <2>3. executed[a] + sz \in Int
    BY <1>1, <1>2 DEF IInv, HoldingTypes
  <2>4. executed' \in [Assets -> Int]
    BY <1>4, <2>3 DEF IInv, HoldingTypes
  <2>5. listed' \in SUBSET Assets /\ holder' \in BOOLEAN /\ active' \in BOOLEAN
    BY <1>1, <1>4 DEF IInv, HoldingTypes
  <2> QED BY <1>4, <2>2, <2>4, <2>5 DEF IInv, HoldingTypes
<1>6. filled.szi = new /\ filled.asset = TRUE
  BY DEF filled
<1>7. ASSUME ~raced, NEW b \in Assets
      PROVE  /\ pos'[b].szi = executed'[b]
             /\ b \in listed' <=> pos'[b].szi # 0
             /\ pos'[b].asset <=> pos'[b].szi # 0
             /\ pos'[b].szi = 0 => pos'[b].alloc = 0 /\ pos'[b].raw = 0
  <2>1. /\ pos[b].szi = executed[b] /\ executed[b] \in Int
        /\ b \in listed <=> pos[b].szi # 0
        /\ pos[b].asset <=> pos[b].szi # 0
        /\ pos[b].szi = 0 => pos[b].alloc = 0 /\ pos[b].raw = 0
    BY <1>7 DEF IInv, Book, HoldingTypes
  <2>2. CASE b # a
    <3>1. pos'[b] = pos[b] /\ executed'[b] = executed[b] /\ (b \in listed' <=> b \in listed)
      BY <1>4, <2>2 DEF IInv, HoldingTypes
    <3> QED BY <2>1, <3>1
  <2>3. CASE b = a
    <3>1. /\ pos'[b] = IF new = 0 THEN NoHash ELSE filled
          /\ executed'[b] = new /\ (b \in listed' <=> new # 0)
      BY <1>1, <1>2, <1>4, <1>7, <2>1, <2>3 DEF IInv, HoldingTypes
    <3>2. CASE new = 0
      BY <3>1, <3>2, NoHashFacts
    <3>3. CASE new # 0
      <4>1. pos'[b] = filled
        BY <3>1, <3>3
      <4> QED BY <3>1, <3>3, <4>1, <1>6
    <3> QED BY <3>2, <3>3
  <2> QED BY <2>2, <2>3
<1>8. ~raced' => ~raced /\ OthersKept(c) /\ Book' /\ Fresh("idle", Blank, pos')
  BY <1>1, <1>4, <1>7, ReturnMoves DEF Book, OthersKept
<1> QED BY <1>4, <1>5, <1>8, ReturnMoves, StepInv

LEMMA MarginWriteInv ==
  ASSUME IInv, NEW c \in Calls, MarginWrite(c)
  PROVE  IInv'
<1> DEFINE a == loc[c].asset
           x == loc[c].view[a].raw + loc[c].size
<1>1. /\ loc[c] \in Local /\ a \in Assets /\ lock = c
      /\ ~raced => pos[a].szi # 0
  BY CallFacts DEF MarginWrite, OkCall, OnAsset, Locked, Fresh, Liquidating
<1>2. loc[c].view[a] \in Hash /\ pos[a] \in Hash /\ x \in Int
  BY <1>1 DEF IInv, HoldingTypes, Local, Hash
<1>3. /\ pos' = [pos EXCEPT ![a] = [pos[a] EXCEPT !.raw = x]]
      /\ UNCHANGED <<listed, executed, raced, isCross, holder, active, overtaken>>
      /\ Return(c)
  BY DEF MarginWrite, history
<1>4. [pos[a] EXCEPT !.raw = x] \in Hash
  BY <1>2 DEF Hash
<1>5. HoldingTypes'
  BY <1>1, <1>3, <1>4 DEF IInv, HoldingTypes
<1>6. \A b \in Assets : /\ pos'[b].szi = pos[b].szi /\ pos'[b].asset = pos[b].asset
                        /\ b # a => pos'[b] = pos[b]
  BY <1>2, <1>3 DEF IInv, HoldingTypes, Hash
<1>7. ~raced' => ~raced /\ OthersKept(c)
  BY <1>1, <1>3 DEF OthersKept
<1>8. ~raced' => Book'
  <2>1. Book \/ raced
    BY DEF IInv
  <2>2. SUFFICES ASSUME ~raced', NEW b \in Assets
        PROVE  /\ pos'[b].szi = executed'[b] /\ (b \in listed' <=> pos'[b].szi # 0)
               /\ (pos'[b].asset <=> pos'[b].szi # 0)
               /\ pos'[b].szi = 0 => pos'[b].alloc = 0 /\ pos'[b].raw = 0
    BY DEF Book
  <2>3. /\ pos[b].szi = executed[b] /\ (b \in listed <=> pos[b].szi # 0)
        /\ (pos[b].asset <=> pos[b].szi # 0)
        /\ pos[b].szi = 0 => pos[b].alloc = 0 /\ pos[b].raw = 0
    BY <1>3, <2>1, <2>2 DEF Book
  <2>4. pos[b].szi = 0 => pos'[b] = pos[b]
    BY <1>1, <1>3, <1>6, <2>2
  <2> QED BY <1>3, <1>6, <2>3, <2>4
<1>9. Fresh("idle", Blank, pos')
  BY <1>3, ReturnMoves
<1> QED BY <1>3, <1>5, <1>7, <1>8, <1>9, ReturnMoves, StepInv

(* A liquidation of the targets T, which the call has read.                *)
LEMMA QueueCloseFacts ==
  ASSUME IInv, NEW c \in Calls, NEW T \in SUBSET loc[c].todo, NEW kept \in [T -> Int],
         \A a \in T : kept[a] >= 0 /\ loc[c].view[a].szi # 0,
         lock = c, QueueClose(c, T, kept),
         ~raced => \A a \in T : Same(pos[a], loc[c].view[a])
  PROVE  /\ HoldingTypes'
         /\ raced' = raced
         /\ ~raced => Book'
         /\ \A a \in Assets \ T : pos'[a] = pos[a]
<1> DEFINE v(a) == loc[c].view[a]
           shut == {a \in T : kept[a] = 0}
           left(a) == Sign(v(a).szi) * kept[a]
           al(a) == IF ~loc[c].cross[a] THEN Scale(Alloc(v(a)), kept[a], Abs(v(a).szi)) ELSE pos[a].alloc
           ra(a) == IF ~loc[c].cross[a] /\ v(a).raw # 0
                    THEN Scale(v(a).raw, kept[a], Abs(v(a).szi)) ELSE pos[a].raw
           part(a) == [pos[a] EXCEPT !.szi = left(a), !.alloc = al(a), !.raw = ra(a)]
<1>1. loc[c] \in Local /\ T \subseteq Assets
  BY CallFacts DEF Local
<1>2. ASSUME NEW a \in T
      PROVE  /\ v(a) \in Hash /\ pos[a] \in Hash /\ kept[a] \in Int /\ kept[a] >= 0
             /\ v(a).szi \in Int /\ v(a).szi # 0 /\ v(a).raw \in Int
             /\ executed[a] \in Int
  BY <1>1, <1>2 DEF IInv, HoldingTypes, Local, Hash
<1>3. ASSUME NEW a \in T
      PROVE  /\ left(a) \in Int /\ (kept[a] # 0 => left(a) # 0) /\ (kept[a] = 0 => left(a) = 0)
             /\ al(a) \in Int /\ ra(a) \in Int
  <2>1. /\ Abs(v(a).szi) \in Int /\ Abs(v(a).szi) > 0 /\ Sign(v(a).szi) \in {-1, 1}
        /\ kept[a] \in Int /\ v(a).raw \in Int
    BY <1>2, <1>3, AbsFacts
  <2>2. left(a) \in Int /\ (kept[a] # 0 => left(a) # 0) /\ (kept[a] = 0 => left(a) = 0)
    BY <2>1
  <2>3. Alloc(v(a)) \in Int
    BY <1>2, <1>3, AllocType
  <2>4. Scale(Alloc(v(a)), kept[a], Abs(v(a).szi)) \in Int
        /\ Scale(v(a).raw, kept[a], Abs(v(a).szi)) \in Int
    BY <2>1, <2>3, ScaleType
  <2>5. pos[a].alloc \in Int /\ pos[a].raw \in Int
    BY <1>2, <1>3 DEF Hash
  <2> QED BY <2>2, <2>4, <2>5
<1>4. /\ pos' = [a \in Assets |-> CASE a \notin T -> pos[a]
                                    [] a \in shut -> NoHash
                                    [] OTHER -> part(a)]
      /\ listed' = listed \ shut
      /\ executed' = [a \in Assets |-> IF a \in T THEN executed[a] - v(a).szi + left(a)
                                       ELSE executed[a]]
      /\ UNCHANGED <<isCross, holder, active, overtaken, raced>>
  BY DEF QueueClose, Unlisted
<1> HIDE DEF left, al, ra
<1>5. ASSUME NEW a \in T, kept[a] # 0
      PROVE  /\ pos'[a] = part(a) /\ part(a) \in Hash
             /\ part(a).szi = left(a) /\ part(a).asset = pos[a].asset
  <2>1. pos'[a] = part(a)
    BY <1>1, <1>4, <1>5
  <2>2. part(a) \in Hash /\ part(a).szi = left(a) /\ part(a).asset = pos[a].asset
    BY <1>2, <1>3, <1>5 DEF Hash
  <2> QED BY <2>1, <2>2
<1>6. ASSUME NEW a \in T, kept[a] = 0 PROVE pos'[a] = NoHash
  BY <1>1, <1>4, <1>6
<1>7. ASSUME NEW a \in Assets \ T PROVE pos'[a] = pos[a]
  BY <1>4, <1>7
<1>8. ASSUME NEW a \in Assets PROVE pos'[a] \in Hash
  <2>1. pos[a] \in Hash
    BY DEF IInv, HoldingTypes
  <2> QED BY <2>1, <1>5, <1>6, <1>7, NoHashFacts
<1>9. pos' \in [Assets -> Hash]
  <2> DEFINE f(a) == CASE a \notin T -> pos[a] [] a \in shut -> NoHash [] OTHER -> part(a)
  <2>1. pos' = [a \in Assets |-> f(a)]
    BY <1>4
  <2> HIDE DEF f
  <2> QED BY <2>1, <1>8
<1>10. executed' \in [Assets -> Int]
  <2> DEFINE e(a) == IF a \in T THEN executed[a] - v(a).szi + left(a) ELSE executed[a]
  <2>1. ASSUME NEW a \in Assets PROVE e(a) \in Int
    <3>1. executed[a] \in Int
      BY DEF IInv, HoldingTypes
    <3> QED BY <3>1, <1>2, <1>3
  <2>2. executed' = [a \in Assets |-> e(a)]
    BY <1>4
  <2> HIDE DEF e
  <2> QED BY <2>1, <2>2
<1>11. HoldingTypes'
  BY <1>4, <1>9, <1>10 DEF IInv, HoldingTypes
<1>12. ASSUME ~raced, NEW a \in Assets
       PROVE  /\ pos'[a].szi = executed'[a]
              /\ a \in listed' <=> pos'[a].szi # 0
              /\ pos'[a].asset <=> pos'[a].szi # 0
              /\ pos'[a].szi = 0 => pos'[a].alloc = 0 /\ pos'[a].raw = 0
  <2>1. /\ pos[a].szi = executed[a]
        /\ a \in listed <=> pos[a].szi # 0
        /\ pos[a].asset <=> pos[a].szi # 0
        /\ pos[a].szi = 0 => pos[a].alloc = 0 /\ pos[a].raw = 0
    BY <1>12 DEF IInv, Book
  <2>2. CASE a \notin T
    <3>1. pos'[a] = pos[a] /\ executed'[a] = executed[a] /\ (a \in listed' <=> a \in listed)
      BY <1>4, <1>7, <2>2
    <3> QED BY <2>1, <3>1
  <2>3. CASE a \in T
    <3>1. pos[a].szi = v(a).szi
      BY <1>12, <2>3 DEF Same
    <3>2. executed'[a] = left(a)
      <4>1. executed'[a] = executed[a] - v(a).szi + left(a)
        BY <1>4, <2>3
      <4>2. left(a) \in Int /\ v(a).szi \in Int
        BY <1>2, <1>3, <2>3
      <4>3. \A x, y \in Int : x - x + y = y
        OBVIOUS
      <4>4. executed[a] = v(a).szi
        BY <2>1, <3>1
      <4> QED BY <4>1, <4>2, <4>3, <4>4
    <3>3. CASE kept[a] = 0
      <4>1. pos'[a] = NoHash /\ left(a) = 0 /\ a \notin listed'
        BY <1>3, <1>4, <1>6, <2>3, <3>3
      <4> QED BY <3>2, <4>1, NoHashFacts
    <3>4. CASE kept[a] # 0
      <4>1. pos'[a].szi = left(a) /\ pos'[a].asset = pos[a].asset /\ left(a) # 0
        BY <1>3, <1>5, <2>3, <3>4
      <4>2. v(a).szi # 0
        BY <2>3
      <4>3. a \in listed' /\ pos[a].asset
        BY <1>4, <2>1, <2>3, <3>1, <3>4, <4>2
      <4> QED BY <3>2, <4>1, <4>3
    <3> QED BY <3>3, <3>4
  <2> QED BY <2>2, <2>3
<1> QED BY <1>4, <1>7, <1>11, <1>12 DEF Book

\* What a market liquidation keeps is less than what there is.
LEMMA KeptFacts ==
  ASSUME IInv, NEW c \in Calls, NEW T \in SUBSET loc[c].todo, NEW key, NEW kept \in Kept(c, T, key)
  PROVE  kept \in [T -> Int] /\ \A a \in T : kept[a] >= 0
<1> DEFINE top == Max({Abs(loc[c].view[a].szi) : a \in T} \cup {0})
<1>1. kept \in [T -> 0 .. top]
  BY DEF Kept
<1> HIDE DEF top
<1>2. \A a \in T : kept[a] \in 0 .. top
  BY <1>1
<1> QED BY <1>1, <1>2

LEMMA IsolatedWriteInv ==
  ASSUME IInv, NEW c \in Calls, NEW a \in Assets, NEW r \in Results,
         IsolatedMarket(c, a, r) \/ IsolatedBackstop(c, a, r)
  PROVE  IInv'
<1> DEFINE l == [loc[c] EXCEPT !.todo = @ \ {a}]
<1>1. NextIsolated(c, a)
  BY DEF IsolatedMarket, IsolatedBackstop
<1>2. /\ loc[c] \in Local /\ lock = c
      /\ ~raced => \A b \in loc[c].todo : Same(pos[b], loc[c].view[b])
      /\ \A b \in loc[c].todo : loc[c].view[b].szi # 0
  BY <1>1, CallFacts DEF NextIsolated, OkCall, Locked, Fresh, Liquidating
<1>3. l \in Local /\ l.todo = loc[c].todo \ {a} /\ l.view = loc[c].view /\ loc[c].todo \subseteq Assets
  BY <1>2 DEF Local
<1>4. Moves(c, "isolated", l) /\ lock' = lock /\ {a} \in SUBSET loc[c].todo
  BY <1>1 DEF NextIsolated, Goto, Keep, Moves
<1>5. PICK kept \in [{a} -> Int] : (\A b \in {a} : kept[b] >= 0) /\ QueueClose(c, {a}, kept)
  <2>1. CASE IsolatedMarket(c, a, r)
    <3>1. PICK kept \in Kept(c, {a}, a) : QueueClose(c, {a}, kept)
      BY <2>1 DEF IsolatedMarket, MarketLiquidation
    <3> QED BY <1>4, <3>1, KeptFacts
  <2>2. CASE IsolatedBackstop(c, a, r)
    <3>1. [b \in {a} |-> 0] \in [{a} -> Int] /\ \A b \in {a} : [d \in {a} |-> 0][b] >= 0
      OBVIOUS
    <3>2. QueueClose(c, {a}, [b \in {a} |-> 0])
      BY <2>2 DEF IsolatedBackstop, Backstop
    <3> QED BY <3>1, <3>2
  <2> QED BY <2>1, <2>2
<1>6. /\ HoldingTypes' /\ raced' = raced /\ (~raced => Book')
      /\ \A b \in Assets \ {a} : pos'[b] = pos[b]
  BY <1>2, <1>4, <1>5, QueueCloseFacts
<1>7. OkCall(c, "isolated", l, lock') /\ (~raced => Fresh("isolated", l, pos')) /\ "isolated" \in Labels
  BY <1>2, <1>3, <1>4, <1>6 DEF OkCall, Fresh, Labels, OnAsset, Liquidating
<1>8. ~raced' => ~raced /\ OthersKept(c) /\ Book' /\ Fresh("isolated", l, pos')
  BY <1>2, <1>6, <1>7 DEF OthersKept
<1> HIDE DEF l
<1> QED BY <1>3, <1>4, <1>6, <1>7, <1>8, StepInv

LEMMA CrossWriteInv ==
  ASSUME IInv, NEW c \in Calls, NEW r \in Results, CrossMarket(c, r) \/ CrossBackstop(c, r)
  PROVE  IInv'
<1> DEFINE T == loc[c].todo
<1>1. pc[c] = "cross" /\ Return(c)
  BY DEF CrossMarket, CrossBackstop
<1>2. /\ lock = c /\ T \in SUBSET loc[c].todo
      /\ ~raced => \A b \in T : Same(pos[b], loc[c].view[b])
      /\ \A b \in T : loc[c].view[b].szi # 0
  BY <1>1, CallFacts DEF OkCall, Locked, Fresh, Liquidating
<1>3. PICK kept \in [T -> Int] : (\A b \in T : kept[b] >= 0) /\ QueueClose(c, T, kept)
  <2>1. CASE CrossMarket(c, r)
    <3>1. PICK kept \in Kept(c, T, Cross) : QueueClose(c, T, kept)
      BY <2>1 DEF CrossMarket, MarketLiquidation
    <3> QED BY <1>2, <3>1, KeptFacts
  <2>2. CASE CrossBackstop(c, r)
    BY <2>2 DEF CrossBackstop, Backstop
  <2> QED BY <2>1, <2>2
<1>4. HoldingTypes' /\ raced' = raced /\ (~raced => Book')
  <2> HIDE DEF T
  <2> QED BY <1>2, <1>3, QueueCloseFacts
<1>5. ~raced' => ~raced /\ OthersKept(c) /\ Book' /\ Fresh("idle", Blank, pos')
  BY <1>1, <1>2, <1>4, ReturnMoves DEF OthersKept
<1> QED BY <1>1, <1>4, <1>5, ReturnMoves, StepInv

\* Funding changes cumFunding only.
LEMMA FundWriteInv ==
  ASSUME IInv, NEW c \in Calls, FundWrite(c)
  PROVE  IInv'
<1> DEFINE C == {a \in Assets : loc[c].charge[a] # 0}
           x(a) == loc[c].view[a].cum + loc[c].charge[a]
           f(a) == IF a \in C THEN [pos[a] EXCEPT !.cum = x(a)] ELSE pos[a]
<1>1. loc[c] \in Local
  BY CallFacts
<1>2. ASSUME NEW a \in Assets PROVE pos[a] \in Hash /\ x(a) \in Int
  <2>1. loc[c].view[a] \in Hash /\ loc[c].charge[a] \in Int
    BY <1>1 DEF Local
  <2> QED BY <2>1 DEF IInv, HoldingTypes, Hash
<1>3. /\ pos' = [a \in Assets |-> f(a)]
      /\ UNCHANGED <<listed, executed, raced, isCross, holder, active, overtaken>>
      /\ Return(c)
  BY DEF FundWrite
<1>4. ASSUME NEW a \in Assets
      PROVE  /\ f(a) \in Hash /\ f(a).szi = pos[a].szi /\ f(a).alloc = pos[a].alloc
             /\ f(a).raw = pos[a].raw /\ f(a).asset = pos[a].asset
  <2> HIDE DEF x, C
  <2> QED BY <1>2 DEF Hash
<1> HIDE DEF f
<1>5. HoldingTypes'
  BY <1>3, <1>4 DEF IInv, HoldingTypes
<1>6. \A a \in Assets : /\ pos'[a].szi = pos[a].szi /\ pos'[a].alloc = pos[a].alloc
                        /\ pos'[a].raw = pos[a].raw /\ pos'[a].asset = pos[a].asset
  BY <1>3, <1>4
<1>7. ~raced' => ~raced /\ OthersKept(c) /\ Book' /\ Fresh("idle", Blank, pos')
  BY <1>3, <1>6, ReturnMoves DEF IInv, Book, OthersKept, Same
<1> QED BY <1>3, <1>5, <1>7, ReturnMoves, StepInv

\* A reset that does not race finds no call with a view.
LEMMA ResetWriteInv ==
  ASSUME IInv, NEW c \in Calls, ResetWrite(c)
  PROVE  IInv'
<1> DEFINE D == loc[c].todo
<1>1. loc[c] \in Local
  BY CallFacts
<1>2. /\ pos' = [a \in Assets |-> IF a \in D THEN NoHash ELSE pos[a]]
      /\ executed' = [a \in Assets |-> IF a \in D THEN 0 ELSE executed[a]]
      /\ listed' = {} /\ UNCHANGED <<isCross, holder, active, overtaken>>
      /\ raced' = (raced \/ (\E d \in Calls : pc[d] \in Snapshot)
                         \/ (\E a \in Assets \ D : pos[a].szi # 0))
      /\ Return(c)
  BY DEF ResetWrite
<1> HIDE DEF D
<1>3. HoldingTypes'
  BY <1>2, NoHashFacts DEF IInv, HoldingTypes
<1>4. ASSUME ~raced' PROVE ~raced /\ OthersKept(c) /\ Book' /\ Fresh("idle", Blank, pos')
  <2>1. /\ ~raced /\ \A d \in Calls : pc[d] \notin Snapshot
        /\ \A a \in Assets \ D : pos[a].szi = 0
    BY <1>2, <1>4
  <2>2. OthersKept(c)
    BY <2>1 DEF OthersKept, Snapshot, Locked
  <2>3. Book
    BY <2>1 DEF IInv
  <2>4. Book'
    BY <1>2, <2>1, <2>3, NoHashFacts DEF Book
  <2> QED BY <1>2, <2>1, <2>2, <2>4, ReturnMoves
<1> QED BY <1>2, <1>3, <1>4, ReturnMoves, StepInv

LEMMA RestartInv ==
  ASSUME IInv, NEW c \in Calls, Restart(c)
  PROVE  IInv'
<1>1. HoldingTypes' /\ UNCHANGED <<pos, listed, executed, raced>>
  BY DEF Restart, IInv, HoldingTypes, redisVars
<1>2. CallTypes'
  BY BlankLocal DEF Restart, CallTypes, Labels
<1>3. ASSUME NEW d \in Calls
      PROVE  OkCall(d, pc'[d], loc'[d], lock') /\ Fresh(pc'[d], loc'[d], pos')
  <2>1. pc'[d] \in {"idle", "backfill"}
    BY DEF Restart
  <2> QED BY <2>1 DEF OkCall, Fresh, Locked, OnAsset, Liquidating
<1> QED BY <1>1, <1>2, <1>3 DEF IInv, Book

-----------------------------------------------------------------------------
LEMMA InitInv == Init => IInv
<1> SUFFICES ASSUME Init PROVE IInv
  OBVIOUS
<1> USE PositionsAssumption
<1> DEFINE f(a) == IF executed[a] = 0 THEN NoHash
                   ELSE [NoHash EXCEPT !.szi = executed[a], !.asset = TRUE,
                                       !.alloc = IF isCross[a] THEN 0 ELSE Abs(executed[a])]
<1>1. executed \in [Assets -> Int] /\ isCross \in [Assets -> BOOLEAN]
  <2>1. {0} \cup Sizes \subseteq Int
    OBVIOUS
  <2>2. executed \in [Assets -> {0} \cup Sizes]
    BY DEF Init
  <2>3. isCross \in [Assets -> BOOLEAN]
    BY DEF Init
  <2> QED BY <2>1, <2>2, <2>3
<1>2. pos = [a \in Assets |-> f(a)] /\ listed = {a \in Assets : executed[a] # 0}
  BY DEF Init
<1>3. ASSUME NEW a \in Assets
      PROVE  /\ f(a) \in Hash /\ f(a).szi = executed[a] /\ (f(a).asset <=> executed[a] # 0)
             /\ executed[a] = 0 => f(a).alloc = 0 /\ f(a).raw = 0
  <2>1. executed[a] \in Int /\ Abs(executed[a]) \in Int
    BY <1>1, AbsFacts
  <2>2. CASE executed[a] = 0
    BY <2>2, NoHashFacts
  <2>3. CASE executed[a] # 0
    <3>1. f(a) = [szi |-> executed[a], alloc |-> IF isCross[a] THEN 0 ELSE Abs(executed[a]),
                  raw |-> 0, cum |-> 0, asset |-> TRUE]
      BY <2>3 DEF NoHash
    <3>2. (IF isCross[a] THEN 0 ELSE Abs(executed[a])) \in Int
      BY <2>1
    <3> HIDE DEF f
    <3>3. f(a) \in Hash
      BY <2>1, <3>1, <3>2 DEF Hash
    <3>4. f(a).szi = executed[a] /\ f(a).asset = TRUE
      BY <3>1
    <3> QED BY <2>3, <3>3, <3>4
  <2> QED BY <2>2, <2>3
<1> HIDE DEF f
<1>4. HoldingTypes
  <2>1. pos \in [Assets -> Hash] /\ listed \in SUBSET Assets
    BY <1>2, <1>3
  <2>2. holder \in BOOLEAN /\ active \in BOOLEAN /\ raced = FALSE /\ overtaken = {}
    BY DEF Init
  <2> QED BY <1>1, <2>1, <2>2 DEF HoldingTypes
<1>5. CallTypes /\ \A c \in Calls : pc[c] = "idle" /\ loc[c] = Blank
  BY BlankLocal DEF Init, CallTypes, Labels
<1>6. Book
  BY <1>2, <1>3 DEF Book
<1>7. \A c \in Calls : OkCall(c, pc[c], loc[c], lock) /\ Fresh(pc[c], loc[c], pos)
  BY <1>5 DEF OkCall, Fresh, Locked, OnAsset, Liquidating
<1> QED BY <1>4, <1>5, <1>6, <1>7 DEF IInv

LEMMA UnchangedInv ==
  ASSUME IInv, UNCHANGED <<pos, listed, isCross, holder, active, lock, pc, loc, executed,
                           overtaken, raced>>
  PROVE  IInv'
  BY DEF IInv, HoldingTypes, CallTypes, Book

LEMMA NextInv == IInv /\ [Next]_vars => IInv'
<1> SUFFICES ASSUME IInv, [Next]_vars PROVE IInv'
  OBVIOUS
<1>1. ASSUME NEW c \in Calls, Acquire(c) PROVE IInv'
  BY <1>1, AcquireInv
<1>2. ASSUME NEW c \in Calls, FillRead(c) \/ FillFields(c) \/ MarginRead(c) \/ MarginWrite(c) PROVE IInv'
  BY <1>2, FillReadInv, FillFieldsInv, MarginReadInv, MarginWriteInv
<1>3. ASSUME NEW c \in Calls,
             \/ FillSkip(c) \/ PruneHolder(c) \/ CrossPass(c) \/ Deactivate(c)
             \/ BackfillPositionHolders(c)
      PROVE  IInv'
  BY <1>3, QuietReturnsInv
<1>4. ASSUME NEW c \in Calls, CheckAndLiquidateUser(c) \/ ReloadCross(c) \/ LiqBalance(c) PROVE IInv'
  BY <1>4, CheckAndLiquidateUserInv, ReloadCrossInv, LiqBalanceInv
<1>5. ASSUME NEW c \in Calls, LevRead(c) \/ LevType(c) \/ LevWrite(c) PROVE IInv'
  BY <1>5, LeverageInv
<1>6. ASSUME NEW c \in Calls, FundWrite(c) \/ ResetWrite(c) \/ Restart(c) PROVE IInv'
  BY <1>6, FundWriteInv, ResetWriteInv, RestartInv
<1>7. ASSUME NEW c \in Calls, NEW r \in Results, FillWrite(c, r) \/ CrossMarket(c, r) \/ CrossBackstop(c, r)
      PROVE  IInv'
  BY <1>7, FillWriteInv, CrossWriteInv
<1>8. ASSUME NEW c \in Calls,
             \/ LiquidationTick(c) \/ KeepMarks(c) \/ ApplyFunding(c) \/ ResetAccount(c)
             \/ \E a \in Traded :
                  \/ \E sz \in Sizes, ro \in BOOLEAN : ExecuteFill(c, a, sz, ro)
                  \/ \E m \in Margins : UpdateIsolatedMargin(c, a, m)
                  \/ \E x \in BOOLEAN : UpdateLeverage(c, a, x)
      PROVE  IInv'
  BY <1>8, StartsInv
<1>9. ASSUME NEW c \in Calls, NEW a \in Assets,
             \/ \E k \in Charges \cup {0} : FundRead(c, a, k)
             \/ IsolatedPass(c, a)
             \/ \E r \in Results : IsolatedMarket(c, a, r) \/ IsolatedBackstop(c, a, r)
      PROVE  IInv'
  BY <1>9, FundReadInv, IsolatedPassInv, IsolatedWriteInv
<1>10. CASE (\E k \in Assets \cup {Cross} : CooldownEnds(k)) \/ Terminated \/ UNCHANGED vars
  <2>1. UNCHANGED <<pos, listed, isCross, holder, active, lock, pc, loc, executed, overtaken, raced>>
    BY <1>10 DEF CooldownEnds, Terminated, vars, redisVars, procVars, history
  <2> QED BY <2>1, UnchangedInv
<1> QED
  BY <1>1, <1>2, <1>3, <1>4, <1>5, <1>6, <1>7, <1>8, <1>9, <1>10 DEF Next

(* The invariant holds in every behaviour.                                 *)
THEOREM Invariance == Spec => []IInv
  BY InitInv, NextInv, PTL DEF Spec

(* The size of a position is the sum of the sizes that fills and           *)
(* liquidations executed, however they, the unlocked leverage changes and  *)
(* funding, and restarts interleave (executeFill, queueClose).             *)
THEOREM Accounted == Spec => []PositionAccounted
<1>1. IInv => PositionAccounted
  BY DEF IInv, Book, PositionAccounted
<1> QED BY Invariance, <1>1, PTL

(* user:<u>:positions lists an asset exactly while it has a position.      *)
THEOREM Listed == Spec => []ListedIffOpen
<1>1. IInv => ListedIffOpen
  BY DEF IInv, HoldingTypes, Book, ListedIffOpen
<1> QED BY Invariance, <1>1, PTL

(* withUserLock keeps what a fill or a liquidation has read until it       *)
(* writes.                                                                 *)
THEOREM Freshness == Spec => []SnapshotFresh
<1>1. IInv => SnapshotFresh
  BY DEF IInv, Fresh, Liquidating, SnapshotFresh
<1> QED BY Invariance, <1>1, PTL

(* A closed position leaves no margin fields to the next one: not after a  *)
(* full close, a flip, a liquidation, nor by a late updateIsolatedMargin.  *)
THEOREM NothingLeft == Spec => []NoLeftoverMargin
<1>1. IInv => NoLeftoverMargin
  BY DEF IInv, Book, NoLeftoverMargin
<1> QED BY Invariance, <1>1, PTL

-----------------------------------------------------------------------------
(* The indexes.  A scan prunes from a look at the positions that may be    *)
(* old, but then overtaken says so.                                        *)

Scans ==
  \A c \in Calls : /\ pc[c] = "prune" => listed = {} \/ "holders" \in overtaken
                   /\ pc[c] = "deactivate" => listed = {} \/ "users" \in overtaken

TInv == Tracked /\ Scans

\* What every step of a call but a fill's write does.
ScanStep(c, lab) ==
  /\ pc' = [pc EXCEPT ![c] = lab] /\ (lab \in {"prune", "deactivate"} => listed = {})
  /\ listed' \in SUBSET listed /\ overtaken' = overtaken
  /\ (holder => holder') \/ pc[c] = "prune"
  /\ (active => active') \/ pc[c] = "deactivate"

LEMMA ScansKept ==
  ASSUME IInv, TInv, NEW c \in Calls, NEW lab, ScanStep(c, lab)
  PROVE  TInv'
<1> USE DEF ScanStep
<1>1. ASSUME NEW d \in Calls PROVE pc'[d] = IF d = c THEN lab ELSE pc[d]
  BY DEF IInv, CallTypes
<1>2. Scans'
  BY <1>1 DEF TInv, Scans
<1>3. Tracked'
  BY DEF TInv, Scans, Tracked
<1> QED BY <1>2, <1>3 DEF TInv

LEMMA FillWriteTracked ==
  ASSUME IInv, TInv, NEW c \in Calls, NEW r \in Results, FillWrite(c, r)
  PROVE  TInv'
<1> DEFINE new == loc[c].view[loc[c].asset].szi + loc[c].size
           found == {i \in {"holders", "users"} : \E d \in Calls : pc[d] = Scan(i)}
<1>1. /\ pc' = [pc EXCEPT ![c] = "idle"] /\ active' = TRUE
      /\ overtaken' = (IF new = 0 THEN overtaken \cap {"holders"} ELSE {}) \cup found
      /\ IF new = 0 THEN listed' \in SUBSET listed /\ holder' = holder ELSE holder' = TRUE
  BY DEF FillWrite, Return, Goto, Unlisted
<1>2. ASSUME NEW d \in Calls PROVE pc'[d] = IF d = c THEN "idle" ELSE pc[d]
  BY <1>1 DEF IInv, CallTypes
<1>3. (\E d \in Calls : pc[d] = "prune") => "holders" \in overtaken'
  BY <1>1 DEF Scan
<1>4. (\E d \in Calls : pc[d] = "deactivate") => "users" \in overtaken'
  BY <1>1 DEF Scan
<1>5. Scans'
  BY <1>2, <1>3, <1>4 DEF Scans
<1>6. Tracked'
  <2> HIDE DEF new, found
  <2> QED BY <1>1 DEF TInv, Tracked
<1> QED BY <1>5, <1>6 DEF TInv

LEMMA StartTracked ==
  ASSUME NEW c \in Calls,
         \/ LiquidationTick(c) \/ KeepMarks(c) \/ ApplyFunding(c) \/ ResetAccount(c)
         \/ \E a \in Traded :
              \/ \E sz \in Sizes, ro \in BOOLEAN : ExecuteFill(c, a, sz, ro)
              \/ \E m \in Margins : UpdateIsolatedMargin(c, a, m)
              \/ \E x \in BOOLEAN : UpdateLeverage(c, a, x)
  PROVE  \E lab : ScanStep(c, lab)
<1> USE DEF ScanStep, Start, Goto, redisVars, history
<1>1. CASE LiquidationTick(c)
  <2>1. ScanStep(c, IF listed = {} THEN "prune" ELSE "queued")
    BY <1>1 DEF LiquidationTick
  <2> QED BY <2>1
<1>2. CASE KeepMarks(c)
  <2>1. ScanStep(c, "prune")
    BY <1>2 DEF KeepMarks
  <2> QED BY <2>1
<1>3. CASE ApplyFunding(c)
  <2>1. ScanStep(c, IF listed = {} THEN "deactivate" ELSE "fundRead")
    BY <1>3 DEF ApplyFunding
  <2> QED BY <2>1
<1>4. CASE ResetAccount(c)
  <2>1. ScanStep(c, "resetWrite")
    BY <1>4 DEF ResetAccount
  <2> QED BY <2>1
<1>5. CASE \E a \in Traded : \/ \E sz \in Sizes, ro \in BOOLEAN : ExecuteFill(c, a, sz, ro)
                             \/ \E m \in Margins : UpdateIsolatedMargin(c, a, m)
  <2>1. pc' = [pc EXCEPT ![c] = "queued"] /\ UNCHANGED <<listed, overtaken, holder, active>>
    BY <1>5 DEF ExecuteFill, UpdateIsolatedMargin
  <2>2. ScanStep(c, "queued")
    BY <2>1
  <2> QED BY <2>2
<1>6. CASE \E a \in Traded, x \in BOOLEAN : UpdateLeverage(c, a, x)
  <2>1. pc' = [pc EXCEPT ![c] = "leverage"] /\ UNCHANGED <<listed, overtaken, holder, active>>
    BY <1>6 DEF UpdateLeverage
  <2>2. ScanStep(c, "leverage")
    BY <2>1
  <2> QED BY <2>2
<1> QED BY <1>1, <1>2, <1>3, <1>4, <1>5, <1>6

\* Steps that change neither the list nor an index.
LEMMA QuietTracked ==
  ASSUME IInv, NEW c \in Calls,
         \/ Acquire(c) \/ FillSkip(c) \/ FillRead(c) \/ FillFields(c)
         \/ MarginRead(c) \/ MarginWrite(c)
         \/ CheckAndLiquidateUser(c) \/ ReloadCross(c) \/ LiqBalance(c) \/ CrossPass(c)
         \/ LevRead(c) \/ LevType(c) \/ LevWrite(c) \/ FundWrite(c)
         \/ \E a \in Assets : (\E k \in Charges \cup {0} : FundRead(c, a, k)) \/ IsolatedPass(c, a)
  PROVE  \E lab : ScanStep(c, lab)
<1> DEFINE to(lab) == pc' = [pc EXCEPT ![c] = lab]
<1>1. UNCHANGED <<listed, overtaken, holder, active>>
  BY DEF Acquire, FillSkip, FillRead, FillFields, MarginRead, MarginWrite, CheckAndLiquidateUser,
         ReloadCross, LiqBalance, CrossPass, LevRead, LevType, LevWrite, FundWrite, FundRead,
         IsolatedPass, redisVars, history
<1>2. \E lab : to(lab) /\ lab \notin {"prune", "deactivate"}
  <2> USE DEF Goto, Return
  <2>1. CASE Acquire(c)
    <3>1. loc[c].op \in {"fill", "margin", "liquidate"}
      BY <2>1, CallFacts DEF Acquire, OkCall
    <3> QED BY <2>1, <3>1 DEF Acquire
  <2>2. CASE FillSkip(c) \/ MarginRead(c) \/ MarginWrite(c)
    <3>1. to("idle") \/ to("marginWrite")
      BY <2>2 DEF FillSkip, MarginRead, MarginWrite
    <3> QED BY <3>1
  <2>3. CASE FillRead(c) \/ FillFields(c)
    <3>1. to("fillFields") \/ to("fillWrite")
      BY <2>3 DEF FillRead, FillFields
    <3> QED BY <3>1
  <2>4. CASE CheckAndLiquidateUser(c) \/ ReloadCross(c) \/ LiqBalance(c) \/ CrossPass(c)
    <3>1. to("isolated") \/ to("liqBalance") \/ to("cross") \/ to("idle")
      BY <2>4 DEF CheckAndLiquidateUser, ReloadCross, LiqBalance, CrossPass, Load
    <3> QED BY <3>1
  <2>5. CASE LevRead(c) \/ LevType(c) \/ LevWrite(c) \/ FundWrite(c)
    <3>1. to("levWrite") \/ to("levType") \/ to("idle")
      BY <2>5 DEF LevRead, LevType, LevWrite, FundWrite
    <3> QED BY <3>1
  <2>6. CASE \E a \in Assets : (\E k \in Charges \cup {0} : FundRead(c, a, k)) \/ IsolatedPass(c, a)
    <3>1. to("fundRead") \/ to("isolated")
      BY <2>6 DEF FundRead, IsolatedPass, NextIsolated, IInv, CallTypes
    <3> QED BY <3>1
  <2> QED BY <2>1, <2>2, <2>3, <2>4, <2>5, <2>6
<1>3. PICK lab : to(lab) /\ lab \notin {"prune", "deactivate"}
  BY <1>2
<1>4. ScanStep(c, lab)
  BY <1>1, <1>3 DEF ScanStep
<1> QED BY <1>4

\* Steps that close positions or remove the user from an index.
LEMMA RemovalTracked ==
  ASSUME NEW c \in Calls,
         \/ PruneHolder(c) \/ Deactivate(c) \/ BackfillPositionHolders(c) \/ ResetWrite(c)
         \/ \E r \in Results : CrossMarket(c, r) \/ CrossBackstop(c, r)
         \/ \E a \in Assets, r \in Results : IsolatedMarket(c, a, r) \/ IsolatedBackstop(c, a, r)
  PROVE  \E lab : ScanStep(c, lab)
<1> USE DEF ScanStep, Goto, Return, history
<1>1. CASE PruneHolder(c) \/ Deactivate(c) \/ ResetWrite(c)
  <2>1. ScanStep(c, "idle")
    BY <1>1 DEF PruneHolder, Deactivate, ResetWrite
  <2> QED BY <2>1
<1>2. CASE BackfillPositionHolders(c)
  <2>1. ScanStep(c, "idle")
    BY <1>2 DEF BackfillPositionHolders
  <2> QED BY <2>1
<1>3. ASSUME NEW T, NEW kept, QueueClose(c, T, kept)
      PROVE  listed' \in SUBSET listed /\ UNCHANGED <<overtaken, holder, active>>
  BY <1>3 DEF QueueClose, Unlisted
<1>4. CASE \E r \in Results : CrossMarket(c, r) \/ CrossBackstop(c, r)
  <2>1. pc' = [pc EXCEPT ![c] = "idle"] /\ \E T, kept : QueueClose(c, T, kept)
    BY <1>4 DEF CrossMarket, CrossBackstop, MarketLiquidation, Backstop
  <2>2. ScanStep(c, "idle")
    BY <1>3, <2>1
  <2> QED BY <2>2
<1>5. CASE \E a \in Assets, r \in Results : IsolatedMarket(c, a, r) \/ IsolatedBackstop(c, a, r)
  <2>1. pc' = [pc EXCEPT ![c] = "isolated"] /\ \E T, kept : QueueClose(c, T, kept)
    BY <1>5 DEF IsolatedMarket, IsolatedBackstop, NextIsolated, MarketLiquidation, Backstop
  <2>2. ScanStep(c, "isolated")
    BY <1>3, <2>1
  <2> QED BY <2>2
<1> QED BY <1>1, <1>2, <1>4, <1>5

LEMMA NextTracked == IInv /\ TInv /\ [Next]_vars => TInv'
<1> SUFFICES ASSUME IInv, TInv, [Next]_vars PROVE TInv'
  OBVIOUS
<1>1. ASSUME NEW c \in Calls, NEW r \in Results, FillWrite(c, r) PROVE TInv'
  BY <1>1, FillWriteTracked
<1>2. ASSUME NEW c \in Calls, Restart(c) PROVE TInv'
  <2>1. \A d \in Calls : pc'[d] \in {"idle", "backfill"}
    BY <1>2 DEF Restart
  <2>2. UNCHANGED <<listed, holder, active, overtaken>>
    BY <1>2 DEF Restart, redisVars
  <2> QED BY <2>1, <2>2 DEF TInv, Tracked, Scans
<1>3. CASE (\E k \in Assets \cup {Cross} : CooldownEnds(k)) \/ Terminated \/ UNCHANGED vars
  <2>1. UNCHANGED <<listed, holder, active, overtaken, pc>>
    BY <1>3 DEF CooldownEnds, Terminated, vars, redisVars, procVars, history
  <2> QED BY <2>1 DEF TInv, Tracked, Scans
<1>4. ASSUME NEW c \in Calls, \E lab : ScanStep(c, lab) PROVE TInv'
  BY <1>4, ScansKept
<1> QED
  BY <1>1, <1>2, <1>3, <1>4, StartTracked, QuietTracked, RemovalTracked DEF Next

(* positions:holders and users:active name a user with positions, whatever *)
(* is closed, liquidated, reset or restarted, unless a fill came between   *)
(* a scan's look and its removal (positionHolders, applyFunding).          *)
THEOREM Indexed == Spec => []Tracked
<1>1. Init => TInv
  BY DEF Init, TInv, Tracked, Scans
<1>2. IInv /\ TInv /\ [Next]_vars => TInv'
  BY NextTracked
<1>3. TInv => Tracked
  BY DEF TInv
<1> QED BY Invariance, <1>1, <1>2, <1>3, PTL DEF Spec

-----------------------------------------------------------------------------
(* The funding.  A view of cumFunding that no write has overtaken is what  *)
(* was charged; FInv says so of every call that is going to write one.     *)

OkFund(lab, l, old, mx, ch) ==
  /\ lab = "queued" => l.op # "funding"
  /\ lab \in {"fill", "fillFields", "fillWrite"} => l.op = "fill"
  /\ lab = "fundRead" => l.op = "funding"
  /\ lab = "fillWrite" /\ l.asset \notin old \cup mx => l.view[l.asset].cum = ch[l.asset]
  /\ lab = "fundRead" =>
       \A a \in Assets \ (old \cup mx) : l.charge[a] # 0 => l.view[a].cum = ch[a]

FInv ==
  /\ charged \in [Assets -> Int] /\ stale \in [Calls -> SUBSET Assets]
  /\ FundingRecorded
  /\ \A c \in Calls : OkFund(pc[c], loc[c], stale[c], mixed, charged)

\* A call that has read cumFunding, and sees W written.
Sees(d, W) == loc[d].op \in {"fill", "funding"} => stale[d] \cup W \subseteq stale'[d]

(* A step of c that writes cumFunding, or deletes the hash, of the assets  *)
(* in W only.                                                              *)
LEMMA FundStep ==
  ASSUME IInv, FInv, NEW c \in Calls, NEW lab, NEW l, NEW W \in SUBSET Assets,
         pc' = [pc EXCEPT ![c] = lab], loc' = [loc EXCEPT ![c] = l],
         charged' \in [Assets -> Int], stale' \in [Calls -> SUBSET Assets],
         \A a \in Assets \ W : /\ pos'[a].cum = pos[a].cum /\ charged'[a] = charged[a]
                               /\ a \in mixed' <=> a \in mixed,
         \A a \in W : a \notin mixed' => pos'[a].cum = charged'[a],
         \A d \in Calls \ {c} : Sees(d, W),
         OkFund(lab, l, stale'[c], mixed', charged') 
  PROVE  FInv'
<1>1. FundingRecorded'
  BY DEF FInv, FundingRecorded
<1>2. ASSUME NEW d \in Calls PROVE OkFund(pc'[d], loc'[d], stale'[d], mixed', charged')
  <2>1. CASE d = c
    BY <2>1 DEF IInv, CallTypes
  <2>2. CASE d # c
    <3>1. pc'[d] = pc[d] /\ loc'[d] = loc[d] /\ OkFund(pc[d], loc[d], stale[d], mixed, charged)
      BY <2>2 DEF IInv, CallTypes, FInv
    <3>2. loc[d].op \in {"fill", "funding"} =>
            \A a \in Assets : a \notin stale'[d] \cup mixed' => a \notin stale[d] \cup mixed /\ charged'[a] = charged[a]
      BY <2>2 DEF Sees
    <3>3. pc[d] = "fillWrite" => loc[d].asset \in Assets
      BY CallFacts DEF OkCall, OnAsset
    <3> QED BY <3>1, <3>2, <3>3 DEF OkFund
  <2> QED BY <2>1, <2>2
<1> QED BY <1>1, <1>2 DEF FInv

(* Where nothing about funding is written, only the call itself has        *)
(* something to show.                                                      *)
LEMMA FundQuiet ==
  ASSUME IInv, FInv, NEW c \in Calls, NEW lab, NEW l,
         pc' = [pc EXCEPT ![c] = lab], loc' = [loc EXCEPT ![c] = l],
         \A a \in Assets : pos'[a].cum = pos[a].cum,
         UNCHANGED <<charged, mixed, stale>>, OkFund(lab, l, stale[c], mixed, charged)
  PROVE  FInv'
<1>1. OkFund(lab, l, stale'[c], mixed', charged')
  BY DEF OkFund
<1>2. \A d \in Calls \ {c} : Sees(d, {})
  BY DEF Sees
<1>3. charged' \in [Assets -> Int] /\ stale' \in [Calls -> SUBSET Assets]
  BY DEF FInv
<1>4. \A a \in Assets \ {} : /\ pos'[a].cum = pos[a].cum /\ charged'[a] = charged[a]
                            /\ a \in mixed' <=> a \in mixed
  OBVIOUS
<1>5. {} \in SUBSET Assets /\ \A a \in {} : a \notin mixed' => pos'[a].cum = charged'[a]
  OBVIOUS
<1> QED BY <1>1, <1>2, <1>3, <1>4, <1>5, FundStep

\* The labels at which a call shows nothing of funding.
Unfunded == Labels \ {"queued", "fill", "fillFields", "fillWrite", "fundRead"}

LEMMA FundElsewhere ==
  ASSUME IInv, FInv, NEW c \in Calls, NEW lab \in Unfunded, NEW l,
         pc' = [pc EXCEPT ![c] = lab], loc' = [loc EXCEPT ![c] = l],
         \A a \in Assets : pos'[a].cum = pos[a].cum, UNCHANGED <<charged, mixed, stale>>
  PROVE  FInv'
<1>1. OkFund(lab, l, stale[c], mixed, charged)
  BY DEF OkFund, Unfunded
<1> QED BY <1>1, FundQuiet

LEMMA FundStarts ==
  ASSUME IInv, FInv, NEW c \in Calls,
         \/ LiquidationTick(c) \/ KeepMarks(c) \/ ApplyFunding(c) \/ ResetAccount(c)
         \/ \E a \in Traded :
              \/ \E sz \in Sizes, ro \in BOOLEAN : ExecuteFill(c, a, sz, ro)
              \/ \E m \in Margins : UpdateIsolatedMargin(c, a, m)
              \/ \E x \in BOOLEAN : UpdateLeverage(c, a, x)
  PROVE  FInv'
<1>0. UNCHANGED <<pos, charged, mixed, stale>>
  BY DEF LiquidationTick, KeepMarks, ApplyFunding, ResetAccount, ExecuteFill, UpdateIsolatedMargin,
         UpdateLeverage, redisVars, history
<1>1. ASSUME NEW op, NEW lab, NEW v \in Local, Start(c, op, lab, v), op \in AllOps,
             lab \in Unfunded \/ (lab = "queued" /\ op # "funding")
                \/ (lab = "fundRead" /\ op = "funding" /\ \A a \in Assets : v.charge[a] = 0)
      PROVE  FInv'
  <2> DEFINE l == [v EXCEPT !.op = op]
  <2>1. l.op = op /\ l.charge = v.charge
    BY <1>1 DEF Local
  <2>2. pc' = [pc EXCEPT ![c] = lab] /\ loc' = [loc EXCEPT ![c] = l]
    BY <1>1 DEF Start, Goto, Keep
  <2> HIDE DEF l
  <2>3. OkFund(lab, l, stale[c], mixed, charged)
    BY <1>1, <2>1 DEF OkFund, Unfunded
  <2> QED BY <1>0, <2>2, <2>3, FundQuiet
<1>2. listed \subseteq Assets /\ Traded \subseteq Assets
  BY PositionsAssumption DEF IInv, HoldingTypes
<1>3. CASE LiquidationTick(c)
  <2>1. Start(c, "liquidate", IF listed = {} THEN "prune" ELSE "queued", Blank)
    BY <1>3 DEF LiquidationTick
  <2> QED BY <1>1, <2>1, BlankLocal DEF Unfunded, Labels, AllOps
<1>4. CASE KeepMarks(c)
  <2>1. Start(c, "marks", "prune", Blank)
    BY <1>4 DEF KeepMarks
  <2> QED BY <1>1, <2>1, BlankLocal DEF Unfunded, Labels, AllOps
<1>5. CASE ApplyFunding(c)
  <2> DEFINE v == [Blank EXCEPT !.todo = listed]
  <2>1. Start(c, "funding", IF listed = {} THEN "deactivate" ELSE "fundRead", v)
    BY <1>5 DEF ApplyFunding
  <2>2. v \in Local /\ v.charge = Blank.charge
    BY <1>2, BlankLocal DEF Local
  <2>3. \A a \in Assets : v.charge[a] = 0
    BY <2>2 DEF Blank
  <2> HIDE DEF v
  <2> QED BY <1>1, <2>1, <2>2, <2>3 DEF Unfunded, Labels, AllOps
<1>6. CASE ResetAccount(c)
  <2> DEFINE v == [Blank EXCEPT !.todo = listed]
  <2>1. Start(c, "reset", "resetWrite", v)
    BY <1>6 DEF ResetAccount
  <2>2. v \in Local
    BY <1>2, BlankLocal DEF Local
  <2> HIDE DEF v
  <2> QED BY <1>1, <2>1, <2>2 DEF Unfunded, Labels, AllOps
<1>7. ASSUME NEW a \in Traded, NEW sz \in Sizes, NEW ro \in BOOLEAN, ExecuteFill(c, a, sz, ro) PROVE FInv'
  <2> DEFINE v == [Blank EXCEPT !.asset = a, !.size = sz, !.reduceOnly = ro]
  <2>1. Start(c, "fill", "queued", v)
    BY <1>7 DEF ExecuteFill
  <2>2. v \in Local
    BY <1>2, BlankLocal, PositionsAssumption DEF Local
  <2> HIDE DEF v
  <2> QED BY <1>1, <2>1, <2>2 DEF AllOps
<1>8. ASSUME NEW a \in Traded, NEW m \in Margins, UpdateIsolatedMargin(c, a, m) PROVE FInv'
  <2> DEFINE v == [Blank EXCEPT !.asset = a, !.size = m]
  <2>1. Start(c, "margin", "queued", v)
    BY <1>8 DEF UpdateIsolatedMargin
  <2>2. v \in Local
    BY <1>2, BlankLocal, PositionsAssumption DEF Local
  <2> HIDE DEF v
  <2> QED BY <1>1, <2>1, <2>2 DEF AllOps
<1>9. ASSUME NEW a \in Traded, NEW x \in BOOLEAN, UpdateLeverage(c, a, x) PROVE FInv'
  <2> DEFINE v == [Blank EXCEPT !.asset = a, !.cross[a] = x]
  <2>1. Start(c, "leverage", "leverage", v)
    BY <1>9 DEF UpdateLeverage
  <2>2. v \in Local
    BY <1>2, BlankLocal DEF Local
  <2> HIDE DEF v
  <2> QED BY <1>1, <2>1, <2>2 DEF Unfunded, Labels, AllOps
<1> QED BY <1>3, <1>4, <1>5, <1>6, <1>7, <1>8, <1>9

LEMMA FundQuietSteps ==
  ASSUME IInv, FInv, NEW c \in Calls,
         \/ MarginRead(c) \/ MarginWrite(c) \/ PruneHolder(c) \/ Deactivate(c) \/ BackfillPositionHolders(c)
         \/ CheckAndLiquidateUser(c) \/ ReloadCross(c) \/ LiqBalance(c) \/ CrossPass(c)
         \/ LevRead(c) \/ LevType(c) \/ LevWrite(c)
         \/ \E a \in Assets : IsolatedPass(c, a)
  PROVE  FInv'
<1> DEFINE to(lab) == pc' = [pc EXCEPT ![c] = lab]
<1>1. UNCHANGED <<charged, mixed, stale>>
  BY DEF MarginRead, MarginWrite, PruneHolder, Deactivate, BackfillPositionHolders, CheckAndLiquidateUser,
         ReloadCross, LiqBalance, CrossPass, LevRead, LevType, LevWrite, IsolatedPass, history
<1>2. \A a \in Assets : pos'[a].cum = pos[a].cum
  <2>1. CASE MarginWrite(c)
    <3>1. loc[c].asset \in Assets
      BY <2>1, CallFacts DEF MarginWrite, OkCall, OnAsset
    <3> QED BY <2>1, <3>1 DEF MarginWrite, IInv, HoldingTypes, Hash
  <2>2. CASE ~MarginWrite(c)
    BY <2>2 DEF MarginRead, PruneHolder, Deactivate, BackfillPositionHolders, CheckAndLiquidateUser,
         ReloadCross, LiqBalance, CrossPass, LevRead, LevType, LevWrite, IsolatedPass, redisVars
  <2> QED BY <2>1, <2>2
<1>3. \E lab \in Unfunded : to(lab)
  <2> USE DEF Unfunded, Labels, Goto, Return
  <2>1. CASE MarginRead(c) \/ MarginWrite(c) \/ PruneHolder(c) \/ Deactivate(c) \/ BackfillPositionHolders(c)
    BY <2>1 DEF MarginRead, MarginWrite, PruneHolder, Deactivate, BackfillPositionHolders
  <2>2. CASE CheckAndLiquidateUser(c) \/ ReloadCross(c) \/ LiqBalance(c) \/ CrossPass(c)
    BY <2>2 DEF CheckAndLiquidateUser, ReloadCross, LiqBalance, CrossPass, Load
  <2>3. CASE LevRead(c) \/ LevType(c) \/ LevWrite(c)
    <3>1. to("levWrite") \/ to("levType") \/ to("idle")
      BY <2>3 DEF LevRead, LevType, LevWrite
    <3> QED BY <3>1
  <2>4. CASE \E a \in Assets : IsolatedPass(c, a)
    BY <2>4 DEF IsolatedPass, NextIsolated
  <2> QED BY <2>1, <2>2, <2>3, <2>4
<1>4. \E l : loc' = [loc EXCEPT ![c] = l]
  <2>0. loc = [loc EXCEPT ![c] = loc[c]]
    BY DEF IInv, CallTypes
  <2> QED BY <2>0 DEF MarginRead, MarginWrite, PruneHolder, Deactivate, BackfillPositionHolders, CheckAndLiquidateUser,
         ReloadCross, LiqBalance, CrossPass, LevRead, LevType, LevWrite, IsolatedPass, NextIsolated, Return, Keep, Load
<1>5. PICK lab \in Unfunded : to(lab)
  BY <1>3
<1>6. PICK l : loc' = [loc EXCEPT ![c] = l]
  BY <1>4
<1> QED BY <1>1, <1>2, <1>5, <1>6, FundElsewhere

(* The reads of cumFunding.                                                *)
LEMMA FundReads ==
  ASSUME IInv, FInv, NEW c \in Calls,
         Acquire(c) \/ FillSkip(c) \/ FillRead(c) \/ FillFields(c)
         \/ \E a \in Assets, k \in Charges \cup {0} : FundRead(c, a, k)
  PROVE  FInv'
<1>0. loc[c] \in Local /\ pc[c] \in Labels /\ OkCall(c, pc[c], loc[c], lock) /\ OkFund(pc[c], loc[c], stale[c], mixed, charged)
  BY CallFacts DEF FInv
<1>1. CASE Acquire(c)
  <2>1. loc[c].op \in {"fill", "margin", "liquidate"} /\ UNCHANGED <<pos, loc, charged, mixed, stale>>
    BY <1>0, <1>1 DEF Acquire, OkCall, redisVars, history
  <2>2. pc' = [pc EXCEPT ![c] = loc[c].op] /\ loc' = [loc EXCEPT ![c] = loc[c]]
    BY <1>1, <2>1 DEF Acquire, Goto, IInv, CallTypes
  <2>3. OkFund(loc[c].op, loc[c], stale[c], mixed, charged)
    BY <2>1 DEF OkFund
  <2> QED BY <2>1, <2>2, <2>3, FundQuiet
<1>2. CASE FillSkip(c)
  <2>1. /\ pc' = [pc EXCEPT ![c] = "idle"] /\ loc' = [loc EXCEPT ![c] = Blank]
        /\ Wrote(c, {}) /\ UNCHANGED <<pos, charged, mixed>>
    BY <1>2 DEF FillSkip, Return, Goto, Keep, redisVars
  <2>2. stale' \in [Calls -> SUBSET Assets] /\ \A d \in Calls \ {c} : Sees(d, {})
    BY <2>1 DEF Wrote, Sees, FInv
  <2>3. OkFund("idle", Blank, stale'[c], mixed', charged')
    BY DEF OkFund
  <2>4. \A a \in Assets \ {} : /\ pos'[a].cum = pos[a].cum /\ charged'[a] = charged[a]
                              /\ a \in mixed' <=> a \in mixed
    BY <2>1
  <2>5. {} \in SUBSET Assets /\ (\A a \in {} : a \notin mixed' => pos'[a].cum = charged'[a])
          /\ charged' \in [Assets -> Int]
    BY <2>1 DEF FInv
  <2> QED BY <2>1, <2>2, <2>3, <2>4, <2>5, FundStep
<1>3. CASE FillRead(c)
  <2> DEFINE a == loc[c].asset
             l == [loc[c] EXCEPT !.view[a] = pos[a], !.size = Clamped(c, pos[a].szi)]
  <2>1. /\ pc[c] = "fill" /\ pc' = [pc EXCEPT ![c] = "fillFields"] /\ loc' = [loc EXCEPT ![c] = l]
        /\ UNCHANGED <<pos, charged, mixed, stale>>
    BY <1>3 DEF FillRead, Goto, Keep, redisVars, history
  <2>2. l.op = loc[c].op
    BY <1>0 DEF Local
  <2> HIDE DEF l
  <2>3. OkFund("fillFields", l, stale[c], mixed, charged)
    BY <1>0, <2>1, <2>2 DEF OkFund
  <2> QED BY <2>1, <2>3, FundQuiet
<1>4. CASE FillFields(c)
  <2> DEFINE a == loc[c].asset
             h == [pos[a] EXCEPT !.szi = loc[c].view[a].szi]
             l == [loc[c] EXCEPT !.view[a] = h, !.cross[a] = isCross[a]]
  <2>1. /\ pc[c] = "fillFields" /\ pc' = [pc EXCEPT ![c] = "fillWrite"] /\ loc' = [loc EXCEPT ![c] = l]
        /\ UNCHANGED <<pos, charged, mixed>> /\ stale' = [stale EXCEPT ![c] = @ \ {a}]
    BY <1>4 DEF FillFields, Goto, Keep, Read, redisVars
  <2>2. a \in Assets /\ loc[c].op = "fill" /\ pos[a] \in Hash
    BY <1>0, <2>1 DEF OkCall, OnAsset, OkFund, IInv, HoldingTypes
  <2>3. h.cum = pos[a].cum
    BY <2>2 DEF Hash
  <2> HIDE DEF h
  <2>4. l.op = "fill" /\ l.asset = a /\ l.view[a] = h
    BY <1>0, <2>2 DEF Local
  <2> HIDE DEF l
  <2>5. OkFund("fillWrite", l, stale'[c], mixed', charged')
    BY <2>1, <2>2, <2>3, <2>4 DEF OkFund, FInv, FundingRecorded
  <2>6. stale' \in [Calls -> SUBSET Assets] /\ \A d \in Calls \ {c} : Sees(d, {})
    BY <2>1 DEF Sees, FInv
  <2>7. \A b \in Assets \ {} : /\ pos'[b].cum = pos[b].cum /\ charged'[b] = charged[b]
                              /\ b \in mixed' <=> b \in mixed
    BY <2>1
  <2>8. {} \in SUBSET Assets /\ (\A b \in {} : b \notin mixed' => pos'[b].cum = charged'[b])
          /\ charged' \in [Assets -> Int]
    BY <2>1 DEF FInv
  <2> QED BY <2>1, <2>5, <2>6, <2>7, <2>8, FundStep
<1>5. ASSUME NEW a \in Assets, NEW k \in Charges \cup {0}, FundRead(c, a, k) PROVE FInv'
  <2> DEFINE l == [loc[c] EXCEPT !.todo = @ \ {a}, !.view[a] = pos[a], !.charge[a] = k]
  <2>1. /\ pc[c] = "fundRead" /\ pc' = [pc EXCEPT ![c] = "fundRead"] /\ loc' = [loc EXCEPT ![c] = l]
        /\ UNCHANGED <<pos, charged, mixed>> /\ stale' = [stale EXCEPT ![c] = @ \ {a}]
    <3>1. /\ pc[c] = "fundRead" /\ UNCHANGED pc /\ loc' = [loc EXCEPT ![c] = l]
          /\ UNCHANGED <<pos, charged, mixed>> /\ stale' = [stale EXCEPT ![c] = @ \ {a}]
      BY <1>5 DEF FundRead, Keep, Read, redisVars
    <3>2. pc \in [Calls -> Labels]
      BY DEF IInv, CallTypes
    <3> QED BY <3>1, <3>2
  <2>2. /\ l.op = loc[c].op /\ l.view[a] = pos[a]
        /\ \A b \in Assets \ {a} : l.view[b] = loc[c].view[b] /\ l.charge[b] = loc[c].charge[b]
    BY <1>0 DEF Local
  <2> HIDE DEF l
  <2>3. OkFund("fundRead", l, stale'[c], mixed', charged')
    <3>1. stale'[c] = stale[c] \ {a}
      BY <2>1 DEF FInv
    <3>2. ASSUME NEW b \in Assets, b \notin stale[c]' \cup mixed', l.charge[b] # 0
          PROVE  l.view[b].cum = charged'[b]
      <4>1. CASE b = a
        BY <2>1, <2>2, <3>2, <4>1 DEF FInv, FundingRecorded
      <4>2. CASE b # a
        BY <1>0, <2>1, <2>2, <3>1, <3>2, <4>2 DEF OkFund
      <4> QED BY <4>1, <4>2
    <3> QED BY <1>0, <2>1, <2>2, <3>2 DEF OkFund
  <2>6. stale' \in [Calls -> SUBSET Assets] /\ \A d \in Calls \ {c} : Sees(d, {})
    BY <2>1 DEF Sees, FInv
  <2>7. \A b \in Assets \ {} : /\ pos'[b].cum = pos[b].cum /\ charged'[b] = charged[b]
                              /\ b \in mixed' <=> b \in mixed
    BY <2>1
  <2>8. {} \in SUBSET Assets /\ (\A b \in {} : b \notin mixed' => pos'[b].cum = charged'[b])
          /\ charged' \in [Assets -> Int]
    BY <2>1 DEF FInv
  <2> QED BY <2>1, <2>3, <2>6, <2>7, <2>8, FundStep
<1> QED BY <1>1, <1>2, <1>3, <1>4, <1>5

(* The writes: a fill, a funding pass, a liquidation, a reset.             *)
LEMMA WroteFacts ==
  ASSUME FInv, NEW c \in Calls, NEW W \in SUBSET Assets, Wrote(c, W)
  PROVE  stale' \in [Calls -> SUBSET Assets] /\ \A d \in Calls \ {c} : Sees(d, W)
  BY DEF Wrote, Sees, FInv

LEMMA FundWriteReturn ==
  ASSUME IInv, FInv, NEW c \in Calls, NEW W \in SUBSET Assets, Return(c), Wrote(c, W),
         charged' \in [Assets -> Int],
         \A a \in Assets \ W : /\ pos'[a].cum = pos[a].cum /\ charged'[a] = charged[a]
                               /\ a \in mixed' <=> a \in mixed,
         \A a \in W : a \notin mixed' => pos'[a].cum = charged'[a]
  PROVE  FInv'
<1>1. pc' = [pc EXCEPT ![c] = "idle"] /\ loc' = [loc EXCEPT ![c] = Blank]
  BY DEF Return, Goto, Keep
<1>2. OkFund("idle", Blank, stale'[c], mixed', charged')
  BY DEF OkFund
<1> QED BY <1>1, <1>2, WroteFacts, FundStep

LEMMA FillWriteFund ==
  ASSUME IInv, FInv, NEW c \in Calls, NEW r \in Results, FillWrite(c, r)
  PROVE  FInv'
<1> DEFINE a   == loc[c].asset
           v   == loc[c].view[a]
           sz  == loc[c].size
           new == v.szi + sz
           filled == [szi |-> new, cum |-> v.cum, asset |-> TRUE,
                      alloc |-> IF ~loc[c].cross[a] THEN FilledAlloc(v, sz) ELSE pos[a].alloc,
                      raw |-> IF ~loc[c].cross[a] THEN FilledRaw(pos[a], v, sz) ELSE pos[a].raw]
<1>1. /\ pc[c] = "fillWrite" /\ Return(c) /\ Wrote(c, {a})
      /\ pos' = [pos EXCEPT ![a] = IF new = 0 THEN NoHash ELSE filled]
      /\ charged' = IF new = 0 THEN [charged EXCEPT ![a] = 0] ELSE charged
      /\ mixed' = IF new = 0 THEN mixed \ {a} ELSE mixed \cup ({a} \cap stale[c])
  BY DEF FillWrite
<1>2. a \in Assets /\ OkFund("fillWrite", loc[c], stale[c], mixed, charged)
  BY <1>1, CallFacts DEF OkCall, OnAsset, FInv
<1>3. filled.cum = v.cum /\ NoHash.cum = 0
  BY DEF NoHash
<1> HIDE DEF filled, new
<1>4. charged' \in [Assets -> Int]
  <2>1. charged \in [Assets -> Int]
    BY DEF FInv
  <2>2. CASE new = 0
    <3>1. charged' = [charged EXCEPT ![a] = 0]
      BY <1>1, <2>2
    <3>2. 0 \in Int
      OBVIOUS
    <3> QED BY <1>2, <2>1, <3>1, <3>2, Zenon
  <2>3. CASE new # 0
    <3>1. charged' = charged
      BY <1>1, <2>3
    <3> QED BY <2>1, <3>1
  <2> QED BY <2>2, <2>3
<1>5. \A b \in Assets \ {a} : /\ pos'[b].cum = pos[b].cum /\ charged'[b] = charged[b]
                              /\ b \in mixed' <=> b \in mixed
  BY <1>1, <1>2 DEF FInv, IInv, HoldingTypes
<1>6. a \notin mixed' => pos'[a].cum = charged'[a]
  <2>1. CASE new = 0
    BY <1>1, <1>2, <1>3, <2>1 DEF FInv, IInv, HoldingTypes
  <2>2. CASE new # 0
    BY <1>1, <1>2, <1>3, <2>2 DEF OkFund, FInv, IInv, HoldingTypes
  <2> QED BY <2>1, <2>2
<1>7. {a} \in SUBSET Assets
  BY <1>2
<1>8. \A b \in {a} : b \notin mixed' => pos'[b].cum = charged'[b]
  BY <1>6
<1> HIDE DEF a
<1> QED BY <1>1, <1>4, <1>5, <1>7, <1>8, FundWriteReturn

LEMMA FundWriteFund ==
  ASSUME IInv, FInv, NEW c \in Calls, FundWrite(c)
  PROVE  FInv'
<1> DEFINE k == loc[c].charge
           C == {a \in Assets : k[a] # 0}
           x(a) == loc[c].view[a].cum + k[a]
<1>1. /\ pc[c] = "fundRead" /\ Return(c) /\ Wrote(c, C)
      /\ pos' = [a \in Assets |-> IF a \in C THEN [pos[a] EXCEPT !.cum = x(a)] ELSE pos[a]]
      /\ charged' = [a \in Assets |-> charged[a] + k[a]]
      /\ mixed' = mixed \cup (C \cap stale[c])
  BY DEF FundWrite
<1>2. loc[c] \in Local /\ OkFund("fundRead", loc[c], stale[c], mixed, charged)
  BY <1>1, CallFacts DEF FInv
<1>3. \A a \in Assets : k[a] \in Int /\ charged[a] \in Int /\ pos[a] \in Hash
  BY <1>2 DEF Local, FInv, IInv, HoldingTypes
<1>4. charged' \in [Assets -> Int]
  BY <1>1, <1>3
<1>5. ASSUME NEW a \in Assets \ C
      PROVE  pos'[a].cum = pos[a].cum /\ charged'[a] = charged[a] /\ (a \in mixed' <=> a \in mixed)
  <2>1. k[a] = 0
    BY <1>5
  <2>2. charged'[a] = charged[a]
    BY <1>1, <1>3, <2>1
  <2> QED BY <1>1, <2>2
<1>6. ASSUME NEW a \in C, a \notin mixed' PROVE pos'[a].cum = charged'[a]
  <2>1. k[a] # 0 /\ a \in Assets \ (stale[c] \cup mixed)
    BY <1>1, <1>6
  <2>2. loc[c].view[a].cum = charged[a]
    BY <1>2, <2>1 DEF OkFund
  <2>3. pos'[a].cum = x(a)
    BY <1>1, <1>3, <1>6 DEF Hash
  <2> QED BY <1>1, <2>1, <2>2, <2>3
<1>7. C \in SUBSET Assets
  OBVIOUS
<1> HIDE DEF C
<1> QED BY <1>1, <1>4, <1>5, <1>6, <1>7, FundWriteReturn

LEMMA CloseFund ==
  ASSUME FInv, NEW c \in Calls, NEW T \in SUBSET Assets, NEW kept, QueueClose(c, T, kept),
         IInv, NEW shut, shut = {a \in T : kept[a] = 0}
  PROVE  /\ Wrote(c, shut) /\ charged' \in [Assets -> Int]
         /\ \A a \in Assets \ shut : /\ pos'[a].cum = pos[a].cum /\ charged'[a] = charged[a]
                                     /\ a \in mixed' <=> a \in mixed
         /\ \A a \in shut : pos'[a].cum = charged'[a]
<1>1. /\ Wrote(c, shut) /\ charged' = [a \in Assets |-> IF a \in shut THEN 0 ELSE charged[a]]
      /\ mixed' = mixed \ shut
  BY DEF QueueClose
<1>2. ASSUME NEW a \in shut PROVE pos'[a] = NoHash
  BY <1>2 DEF QueueClose
<1>3. ASSUME NEW a \in Assets \ shut PROVE pos'[a].cum = pos[a].cum
  <2>1. pos[a] \in Hash
    BY DEF IInv, HoldingTypes
  <2>2. CASE a \notin T
    BY <2>2 DEF QueueClose
  <2>3. CASE a \in T
    <3>1. \E x, y, z : pos'[a] = [pos[a] EXCEPT !.szi = x, !.alloc = y, !.raw = z]
      BY <1>3, <2>3 DEF QueueClose
    <3> QED BY <2>1, <3>1 DEF Hash
  <2> QED BY <2>2, <2>3
<1>4. charged' \in [Assets -> Int]
  BY <1>1 DEF FInv
<1>5. NoHash.cum = 0 /\ shut \subseteq Assets
  BY DEF NoHash
<1>6. \A a \in shut : pos'[a].cum = charged'[a]
  BY <1>1, <1>2, <1>5
<1>7. \A a \in Assets \ shut : charged'[a] = charged[a] /\ (a \in mixed' <=> a \in mixed)
  BY <1>1
<1> QED BY <1>1, <1>3, <1>4, <1>6, <1>7

LEMMA LiquidationFund ==
  ASSUME IInv, FInv, NEW c \in Calls, NEW r \in Results,
         \/ CrossMarket(c, r) \/ CrossBackstop(c, r)
         \/ \E a \in Assets : IsolatedMarket(c, a, r) \/ IsolatedBackstop(c, a, r)
  PROVE  FInv'
<1>0. loc[c].todo \subseteq Assets
  BY CallFacts DEF Local
<1>1. CASE CrossMarket(c, r) \/ CrossBackstop(c, r)
  <2>1. PICK T, kept : T \in SUBSET Assets /\ QueueClose(c, T, kept)
    BY <1>0, <1>1 DEF CrossMarket, CrossBackstop, MarketLiquidation, Backstop
  <2> DEFINE shut == {a \in T : kept[a] = 0}
  <2>2. Return(c)
    BY <1>1 DEF CrossMarket, CrossBackstop
  <2>3. /\ Wrote(c, shut) /\ charged' \in [Assets -> Int] /\ shut \in SUBSET Assets
        /\ \A a \in Assets \ shut : /\ pos'[a].cum = pos[a].cum /\ charged'[a] = charged[a]
                                    /\ a \in mixed' <=> a \in mixed
        /\ \A a \in shut : pos'[a].cum = charged'[a]
    <3>1. shut = {a \in T : kept[a] = 0} /\ shut \in SUBSET Assets
      BY <2>1
    <3> HIDE DEF shut
    <3> QED BY <2>1, <3>1, CloseFund
  <2> HIDE DEF shut
  <2> QED BY <2>2, <2>3, FundWriteReturn
<1>2. ASSUME NEW a \in Assets, IsolatedMarket(c, a, r) \/ IsolatedBackstop(c, a, r) PROVE FInv'
  <2>1. PICK T, kept : T \in SUBSET Assets /\ QueueClose(c, T, kept)
    BY <1>2 DEF IsolatedMarket, IsolatedBackstop, MarketLiquidation, Backstop
  <2> DEFINE shut == {b \in T : kept[b] = 0}
             l == [loc[c] EXCEPT !.todo = @ \ {a}]
  <2>2. pc' = [pc EXCEPT ![c] = "isolated"] /\ loc' = [loc EXCEPT ![c] = l]
    BY <1>2 DEF IsolatedMarket, IsolatedBackstop, NextIsolated, Goto, Keep
  <2>3. /\ Wrote(c, shut) /\ charged' \in [Assets -> Int] /\ shut \in SUBSET Assets
        /\ \A b \in Assets \ shut : /\ pos'[b].cum = pos[b].cum /\ charged'[b] = charged[b]
                                    /\ b \in mixed' <=> b \in mixed
        /\ \A b \in shut : pos'[b].cum = charged'[b]
    <3>1. shut = {b \in T : kept[b] = 0} /\ shut \in SUBSET Assets
      BY <2>1
    <3> HIDE DEF shut
    <3> QED BY <2>1, <3>1, CloseFund
  <2> HIDE DEF shut, l
  <2>4. OkFund("isolated", l, stale'[c], mixed', charged')
    BY DEF OkFund
  <2> QED BY <2>2, <2>3, <2>4, WroteFacts, FundStep
<1> QED BY <1>1, <1>2

LEMMA ResetWriteFund ==
  ASSUME IInv, FInv, NEW c \in Calls, ResetWrite(c)
  PROVE  FInv'
<1> DEFINE D == loc[c].todo
<1>1. /\ Return(c) /\ Wrote(c, D)
      /\ pos' = [a \in Assets |-> IF a \in D THEN NoHash ELSE pos[a]]
      /\ charged' = [a \in Assets |-> IF a \in D THEN 0 ELSE charged[a]]
      /\ mixed' = mixed \ D
  BY DEF ResetWrite
<1>2. D \in SUBSET Assets
  BY CallFacts DEF Local
<1> HIDE DEF D
<1>3. NoHash.cum = 0
  BY DEF NoHash
<1>4. charged' \in [Assets -> Int]
  BY <1>1 DEF FInv
<1> QED BY <1>1, <1>2, <1>3, <1>4, FundWriteReturn

LEMMA NextFund == IInv /\ FInv /\ [Next]_vars => FInv'
<1> SUFFICES ASSUME IInv, FInv, [Next]_vars PROVE FInv'
  OBVIOUS
<1>1. ASSUME NEW c \in Calls, Restart(c) PROVE FInv'
  <2>1. /\ \A d \in Calls : pc'[d] \in {"idle", "backfill"}
        /\ stale' = [d \in Calls |-> {}] /\ UNCHANGED <<pos, charged, mixed>>
    BY <1>1 DEF Restart, redisVars
  <2>2. \A d \in Calls : OkFund(pc'[d], loc'[d], stale'[d], mixed', charged')
    BY <2>1 DEF OkFund
  <2> QED BY <2>1, <2>2 DEF FInv, FundingRecorded
<1>2. CASE (\E k \in Assets \cup {Cross} : CooldownEnds(k)) \/ Terminated \/ UNCHANGED vars
  <2>1. UNCHANGED <<pos, charged, mixed, stale, pc, loc>>
    BY <1>2 DEF CooldownEnds, Terminated, vars, redisVars, procVars, history
  <2> QED BY <2>1 DEF FInv, FundingRecorded, OkFund
<1> QED
  BY <1>1, <1>2, FundStarts, FundQuietSteps, FundReads, FillWriteFund, FundWriteFund,
     LiquidationFund, ResetWriteFund DEF Next

LEMMA InitFund == Init => FInv
<1> SUFFICES ASSUME Init PROVE FInv
  OBVIOUS
<1>0. charged = [a \in Assets |-> 0] /\ stale = [c \in Calls |-> {}]
  BY DEF Init
<1>1. charged \in [Assets -> Int] /\ stale \in [Calls -> SUBSET Assets]
  BY <1>0
<1>2. \A c \in Calls : OkFund(pc[c], loc[c], stale[c], mixed, charged)
  BY DEF Init, OkFund
<1>3. FundingRecorded
  <2>1. NoHash.cum = 0 /\ \A x, y : [NoHash EXCEPT !.szi = x, !.asset = TRUE, !.alloc = y].cum = 0
    BY DEF NoHash
  <2>2. ASSUME NEW a \in Assets PROVE pos[a].cum = charged[a]
    <3>1. charged[a] = 0
      BY DEF Init
    <3>2. CASE executed[a] = 0
      BY <2>1, <3>1, <3>2 DEF Init
    <3>3. CASE executed[a] # 0
      <4> DEFINE x == executed[a]
                 y == IF isCross[a] THEN 0 ELSE Abs(executed[a])
      <4>1. pos[a] = [NoHash EXCEPT !.szi = x, !.asset = TRUE, !.alloc = y]
        BY <3>3 DEF Init
      <4> HIDE DEF x, y
      <4> QED BY <2>1, <3>1, <4>1
    <3> QED BY <3>2, <3>3
  <2> QED BY <2>2 DEF FundingRecorded
<1> QED BY <1>1, <1>2, <1>3 DEF FInv

(* The funding taken from a user is in the cumFunding of the position that *)
(* paid it, however applyFunding, outside the lock, meets fills,           *)
(* liquidations and resets, unless a write overtook its read.              *)
THEOREM FundingKept == Spec => []FundingRecorded
<1>1. IInv /\ FInv /\ [Next]_vars => FInv'
  BY NextFund
<1>2. FInv => FundingRecorded
  BY DEF FInv
<1> QED BY Invariance, InitFund, <1>1, <1>2, PTL DEF Spec

-----------------------------------------------------------------------------
(* The margin of isolated positions.  What a fill computes is right if the *)
(* view it computes from is the hash and the margin type it read is still  *)
(* the type, or the asset is in switched.  A liquidation of the cross      *)
(* account has read every asset, those it does not close included.         *)

OkAlloc(lab, l, p, x, sw) ==
  /\ lab = "fillWrite" => Same(p[l.asset], l.view[l.asset])
  /\ lab \in Liquidating => \A a \in l.todo : l.cross[a] = x[a] \/ a \in sw
  /\ lab \in {"liqBalance", "cross"} =>
       \A a \in Assets : /\ Same(p[a], l.view[a])
                         /\ l.cross[a] = x[a] \/ a \in sw \/ p[a].szi = 0

Proportional(p, x, sw) ==
  \A a \in Assets \ sw : p[a].szi # 0 /\ ~x[a] => p[a].alloc = Abs(p[a].szi)

AInv == ~raced => /\ Proportional(pos, isCross, switched)
                  /\ \A c \in Calls : OkAlloc(pc[c], loc[c], pos, isCross, switched)

\* The others' views and margin types are as good as before.
OthersAlloc(c) ==
  \/ lock = c
  \/ \A d \in Calls : pc[d] \notin Locked \ {"fill", "margin", "liquidate"}
  \/ \A a \in Assets : /\ Same(pos'[a], pos[a])
                       /\ isCross'[a] = isCross[a] \/ a \in switched' \/ pos[a].szi = 0
                       /\ a \in switched => a \in switched'

LEMMA AllocStep ==
  ASSUME IInv, AInv, NEW c \in Calls, NEW lab, NEW l,
         pc' = [pc EXCEPT ![c] = lab], loc' = [loc EXCEPT ![c] = l],
         ~raced' => /\ ~raced /\ OthersAlloc(c) /\ Proportional(pos', isCross', switched')
                    /\ OkAlloc(lab, l, pos', isCross', switched')
  PROVE  AInv'
<1> SUFFICES ASSUME ~raced', NEW d \in Calls
             PROVE  OkAlloc(pc'[d], loc'[d], pos', isCross', switched')
  BY DEF AInv
<1>1. CASE d = c
  BY <1>1 DEF IInv, CallTypes
<1>2. CASE d # c
  <2>1. /\ pc'[d] = pc[d] /\ loc'[d] = loc[d] /\ loc[d] \in Local
        /\ OkAlloc(pc[d], loc[d], pos, isCross, switched)
        /\ OkCall(d, pc[d], loc[d], lock) /\ Fresh(pc[d], loc[d], pos)
    BY <1>2 DEF IInv, CallTypes, AInv
  <2>2. CASE pc[d] \notin Locked \ {"fill", "margin", "liquidate"}
    BY <2>1, <2>2 DEF OkAlloc, Locked, Liquidating
  <2>3. CASE pc[d] \in Locked \ {"fill", "margin", "liquidate"}
    <3>1. lock = d
      BY <2>1, <2>3 DEF OkCall
    <3>2. \A a \in Assets : /\ Same(pos'[a], pos[a])
                            /\ isCross'[a] = isCross[a] \/ a \in switched' \/ pos[a].szi = 0
                            /\ a \in switched => a \in switched'
      BY <1>2, <2>3, <3>1 DEF OthersAlloc
    <3>3. pc[d] = "fillWrite" => loc[d].asset \in Assets
      BY <2>1 DEF OkCall, OnAsset
    <3>4. pc[d] \in Liquidating => \A a \in loc[d].todo : a \in Assets /\ pos[a].szi # 0
      BY <2>1 DEF OkCall, Fresh, Same, Local
    <3>5. OkAlloc(pc[d], loc[d], pos', isCross', switched')
      BY <2>1, <3>2, <3>3, <3>4 DEF OkAlloc, Same
    <3> QED BY <2>1, <3>5
  <2> QED BY <2>2, <2>3
<1> QED BY <1>1, <1>2

LEMMA AllocQuiet ==
  ASSUME IInv, AInv, NEW c \in Calls, NEW lab, NEW l,
         pc' = [pc EXCEPT ![c] = lab], loc' = [loc EXCEPT ![c] = l],
         UNCHANGED <<pos, isCross, switched, raced>>,
         ~raced => OkAlloc(lab, l, pos, isCross, switched)
  PROVE  AInv'
<1>1. OthersAlloc(c)
  BY DEF OthersAlloc, Same
<1> QED BY <1>1, AllocStep DEF AInv

LEMMA AllocElsewhere ==
  ASSUME IInv, AInv, NEW c \in Calls, NEW lab, NEW l, lab # "fillWrite", lab \notin Liquidating,
         pc' = [pc EXCEPT ![c] = lab], loc' = [loc EXCEPT ![c] = l],
         UNCHANGED <<pos, isCross, switched, raced>>
  PROVE  AInv'
<1>1. OkAlloc(lab, l, pos, isCross, switched)
  BY DEF OkAlloc, Liquidating
<1> QED BY <1>1, AllocQuiet

LEMMA AllocStarts ==
  ASSUME IInv, AInv, NEW c \in Calls,
         \/ LiquidationTick(c) \/ KeepMarks(c) \/ ApplyFunding(c) \/ ResetAccount(c)
         \/ \E a \in Traded :
              \/ \E sz \in Sizes, ro \in BOOLEAN : ExecuteFill(c, a, sz, ro)
              \/ \E m \in Margins : UpdateIsolatedMargin(c, a, m)
              \/ \E x \in BOOLEAN : UpdateLeverage(c, a, x)
  PROVE  AInv'
<1>1. UNCHANGED <<pos, isCross, switched, raced>>
  BY DEF LiquidationTick, KeepMarks, ApplyFunding, ResetAccount, ExecuteFill, UpdateIsolatedMargin,
         UpdateLeverage, redisVars, history
<1>2. ASSUME NEW op, NEW lab, NEW v, Start(c, op, lab, v), lab # "fillWrite", lab \notin Liquidating
      PROVE  AInv'
  <2>1. pc' = [pc EXCEPT ![c] = lab] /\ \E l : loc' = [loc EXCEPT ![c] = l]
    BY <1>2 DEF Start, Goto, Keep
  <2> QED BY <1>1, <1>2, <2>1, AllocElsewhere
<1>3. \E op, v, lab : Start(c, op, lab, v) /\ lab # "fillWrite" /\ lab \notin Liquidating
  <2> USE DEF Liquidating
  <2>1. CASE LiquidationTick(c)
    <3>1. Start(c, "liquidate", IF listed = {} THEN "prune" ELSE "queued", Blank)
      BY <2>1 DEF LiquidationTick
    <3>2. (IF listed = {} THEN "prune" ELSE "queued") \notin Liquidating \cup {"fillWrite"}
      OBVIOUS
    <3> QED BY <3>1, <3>2
  <2>2. CASE KeepMarks(c)
    BY <2>2 DEF KeepMarks
  <2>3. CASE ApplyFunding(c)
    <3>1. Start(c, "funding", IF listed = {} THEN "deactivate" ELSE "fundRead", [Blank EXCEPT !.todo = listed])
      BY <2>3 DEF ApplyFunding
    <3>2. (IF listed = {} THEN "deactivate" ELSE "fundRead") \notin Liquidating \cup {"fillWrite"}
      OBVIOUS
    <3> QED BY <3>1, <3>2
  <2>4. CASE ResetAccount(c)
    BY <2>4 DEF ResetAccount
  <2>5. ASSUME NEW a \in Traded, NEW sz \in Sizes, NEW ro \in BOOLEAN, ExecuteFill(c, a, sz, ro)
        PROVE  Start(c, "fill", "queued", [Blank EXCEPT !.asset = a, !.size = sz, !.reduceOnly = ro])
    BY <2>5 DEF ExecuteFill
  <2>6. ASSUME NEW a \in Traded, NEW m \in Margins, UpdateIsolatedMargin(c, a, m)
        PROVE  Start(c, "margin", "queued", [Blank EXCEPT !.asset = a, !.size = m])
    BY <2>6 DEF UpdateIsolatedMargin
  <2>7. ASSUME NEW a \in Traded, NEW x \in BOOLEAN, UpdateLeverage(c, a, x)
        PROVE  Start(c, "leverage", "leverage", [Blank EXCEPT !.asset = a, !.cross[a] = x])
    BY <2>7 DEF UpdateLeverage
  <2>8. "queued" \notin Liquidating \cup {"fillWrite"} /\ "leverage" \notin Liquidating \cup {"fillWrite"}
    OBVIOUS
  <2> HIDE DEF Liquidating
  <2>9. CASE \E a \in Traded, sz \in Sizes, ro \in BOOLEAN : ExecuteFill(c, a, sz, ro)
    BY <2>5, <2>8, <2>9
  <2>10. CASE \E a \in Traded, m \in Margins : UpdateIsolatedMargin(c, a, m)
    BY <2>6, <2>8, <2>10
  <2>11. CASE \E a \in Traded, x \in BOOLEAN : UpdateLeverage(c, a, x)
    BY <2>7, <2>8, <2>11
  <2> QED BY <2>1, <2>2, <2>3, <2>4, <2>9, <2>10, <2>11
<1> QED BY <1>2, <1>3

LEMMA AllocQuietSteps ==
  ASSUME IInv, AInv, NEW c \in Calls,
         \/ Acquire(c) \/ FillSkip(c) \/ FillRead(c) \/ MarginRead(c) \/ PruneHolder(c) \/ Deactivate(c)
         \/ BackfillPositionHolders(c) \/ CrossPass(c) \/ LevRead(c) \/ LevType(c)
         \/ \E a \in Assets, k \in Charges \cup {0} : FundRead(c, a, k)
  PROVE  AInv'
<1> DEFINE to(lab) == pc' = [pc EXCEPT ![c] = lab]
           els == {"idle", "fill", "fillFields", "margin", "marginWrite", "liquidate", "levType", "levWrite", "fundRead"}
<1>1. UNCHANGED <<pos, isCross, switched, raced>>
  BY DEF Acquire, FillSkip, FillRead, MarginRead, PruneHolder, Deactivate, BackfillPositionHolders, CrossPass,
         LevRead, LevType, FundRead, redisVars, history
<1>2. \E l : loc' = [loc EXCEPT ![c] = l]
  <2>0. loc = [loc EXCEPT ![c] = loc[c]]
    BY DEF IInv, CallTypes
  <2> QED BY <2>0 DEF Acquire, FillSkip, FillRead, MarginRead, PruneHolder, Deactivate,
         BackfillPositionHolders, CrossPass, LevRead, LevType, FundRead, Return, Keep
<1>3. \E lab \in els : to(lab)
  <2> USE DEF Goto, Return
  <2>1. CASE Acquire(c)
    <3>1. loc[c].op \in {"fill", "margin", "liquidate"}
      BY <2>1, CallFacts DEF Acquire, OkCall
    <3> QED BY <2>1, <3>1 DEF Acquire
  <2>2. CASE FillSkip(c) \/ FillRead(c) \/ MarginRead(c)
    <3>1. to("idle") \/ to("fillFields") \/ to("marginWrite")
      BY <2>2 DEF FillSkip, FillRead, MarginRead
    <3> QED BY <3>1
  <2>3. CASE PruneHolder(c) \/ Deactivate(c) \/ BackfillPositionHolders(c) \/ CrossPass(c)
    <3>1. to("idle")
      BY <2>3 DEF PruneHolder, Deactivate, BackfillPositionHolders, CrossPass
    <3> QED BY <3>1
  <2>4. CASE LevRead(c) \/ LevType(c)
    <3>1. to("levWrite") \/ to("levType") \/ to("idle")
      BY <2>4 DEF LevRead, LevType
    <3> QED BY <3>1
  <2>5. CASE \E a \in Assets, k \in Charges \cup {0} : FundRead(c, a, k)
    <3>1. to("fundRead")
      BY <2>5 DEF FundRead, IInv, CallTypes
    <3> QED BY <3>1
  <2> QED BY <2>1, <2>2, <2>3, <2>4, <2>5
<1>4. PICK lab \in els : to(lab)
  BY <1>3
<1>5. PICK l : loc' = [loc EXCEPT ![c] = l]
  BY <1>2
<1>6. lab # "fillWrite" /\ lab \notin Liquidating
  BY <1>4 DEF Liquidating
<1> QED BY <1>1, <1>4, <1>5, <1>6, AllocElsewhere

(* The reads that a later write depends on.                                *)
LEMMA AllocReads ==
  ASSUME IInv, AInv, NEW c \in Calls,
         FillFields(c) \/ CheckAndLiquidateUser(c) \/ ReloadCross(c) \/ LiqBalance(c)
         \/ \E a \in Assets : IsolatedPass(c, a)
  PROVE  AInv'
<1>0. /\ loc[c] \in Local /\ pc[c] \in Labels /\ OkCall(c, pc[c], loc[c], lock)
      /\ ~raced => Fresh(pc[c], loc[c], pos) /\ OkAlloc(pc[c], loc[c], pos, isCross, switched)
  BY CallFacts DEF AInv
<1>1. UNCHANGED <<pos, isCross, switched, raced>>
  BY DEF FillFields, CheckAndLiquidateUser, ReloadCross, LiqBalance, IsolatedPass, redisVars, history
<1>2. CASE FillFields(c)
  <2> DEFINE a == loc[c].asset
             h == [pos[a] EXCEPT !.szi = loc[c].view[a].szi]
             l == [loc[c] EXCEPT !.view[a] = h, !.cross[a] = isCross[a]]
  <2>1. pc[c] = "fillFields" /\ pc' = [pc EXCEPT ![c] = "fillWrite"] /\ loc' = [loc EXCEPT ![c] = l]
    BY <1>2 DEF FillFields, Goto, Keep
  <2>2. a \in Assets /\ pos[a] \in Hash /\ (~raced => pos[a].szi = loc[c].view[a].szi)
    BY <1>0, <2>1 DEF OkCall, OnAsset, Fresh, IInv, HoldingTypes
  <2>3. ~raced => Same(pos[a], h)
    BY <2>2 DEF Hash, Same
  <2> HIDE DEF h
  <2>4. l.asset = a /\ l.view[a] = h
    BY <1>0, <2>2 DEF Local
  <2> HIDE DEF l
  <2>5. ~raced => OkAlloc("fillWrite", l, pos, isCross, switched)
    BY <2>3, <2>4 DEF OkAlloc, Liquidating
  <2> QED BY <1>1, <2>1, <2>5, AllocQuiet
<1>3. ASSUME NEW T \in SUBSET Assets, NEW lab, lab # "fillWrite", Load(c, T, lab) PROVE AInv'
  <2> DEFINE w == [a \in Assets |-> IF a \in Loaded THEN pos[a] ELSE NoHash]
  <2> DEFINE l == [loc[c] EXCEPT !.todo = T, !.cross = isCross, !.view = w]
  <2>1. pc' = [pc EXCEPT ![c] = lab] /\ loc' = [loc EXCEPT ![c] = l]
    BY <1>3 DEF Load, Goto, Keep
  <2>2. l.cross = isCross /\ l.view = w
    BY <1>0 DEF Local
  <2>3. ASSUME ~raced, NEW a \in Assets PROVE Same(pos[a], w[a])
    <3>1. CASE a \in Loaded
      BY <3>1 DEF Same
    <3>2. CASE a \notin Loaded
      <4>1. w[a] = NoHash
        BY <3>2
      <4>2. pos[a].szi = 0 /\ pos[a].alloc = 0 /\ pos[a].raw = 0
        BY <2>3, <3>2 DEF Loaded, IInv, Book
      <4> QED BY <4>1, <4>2, NoHashFacts DEF Same
    <3> QED BY <3>1, <3>2
  <2> HIDE DEF l, w
  <2>4. ~raced => OkAlloc(lab, l, pos, isCross, switched)
    BY <1>3, <2>2, <2>3 DEF OkAlloc
  <2> QED BY <1>1, <2>1, <2>4, AllocQuiet
<1>4. Loaded \subseteq Assets
  BY DEF Loaded, IInv, HoldingTypes
<1>5. CASE CheckAndLiquidateUser(c)
  <2>1. Load(c, {a \in Loaded : ~isCross[a]}, "isolated")
    BY <1>5 DEF CheckAndLiquidateUser
  <2> QED BY <1>3, <1>4, <2>1
<1>6. CASE ReloadCross(c)
  <2>1. CASE Load(c, {a \in Loaded : isCross[a]}, "liqBalance")
    BY <1>3, <1>4, <2>1
  <2>2. CASE Return(c)
    BY <1>1, <2>2, AllocElsewhere DEF Return, Goto, Keep, Liquidating
  <2> QED BY <1>6, <2>1, <2>2 DEF ReloadCross
<1>7. CASE LiqBalance(c)
  <2>1. pc[c] = "liqBalance" /\ pc' = [pc EXCEPT ![c] = "cross"] /\ loc' = [loc EXCEPT ![c] = loc[c]]
    BY <1>7 DEF LiqBalance, Goto, IInv, CallTypes
  <2>2. ~raced => OkAlloc("cross", loc[c], pos, isCross, switched)
    BY <1>0, <2>1 DEF OkAlloc, Liquidating
  <2> QED BY <1>1, <2>1, <2>2, AllocQuiet
<1>8. ASSUME NEW a \in Assets, IsolatedPass(c, a) PROVE AInv'
  <2> DEFINE l == [loc[c] EXCEPT !.todo = @ \ {a}]
  <2>1. pc[c] = "isolated" /\ pc' = [pc EXCEPT ![c] = "isolated"] /\ loc' = [loc EXCEPT ![c] = l]
    BY <1>8 DEF IsolatedPass, NextIsolated, Goto, Keep
  <2>2. l.cross = loc[c].cross /\ l.todo = loc[c].todo \ {a}
    BY <1>0 DEF Local
  <2> HIDE DEF l
  <2>3. ~raced => OkAlloc("isolated", l, pos, isCross, switched)
    BY <1>0, <2>1, <2>2 DEF OkAlloc, Liquidating
  <2> QED BY <1>1, <2>1, <2>3, AllocQuiet
<1> QED BY <1>2, <1>5, <1>6, <1>7, <1>8

(* What a fill and a liquidation compute from a margin in proportion is    *)
(* in proportion: the part kept of x, out of x, is what is kept.           *)
LEMMA ScaleWhole ==
  ASSUME NEW x \in Int, NEW kept \in Int, x > 0
  PROVE  Scale(x, kept, x) = kept
<1> DEFINE q == (x * kept) \div x
<1>1. x * kept \in Int
  OBVIOUS
<1>2. q \in Int /\ x * q <= x * kept /\ x * kept < x * q + x
  BY <1>1
<1> HIDE DEF q
<1>3. x * (kept - q) >= 0 /\ x * (kept - q) < x
  BY <1>2
<1>4. q = kept
  BY <1>2, <1>3
<1> QED BY <1>4 DEF Scale, q

LEMMA FilledProportional ==
  ASSUME NEW v \in Hash, NEW sz \in Int, v.szi + sz # 0, v.szi # 0 => v.alloc = Abs(v.szi)
  PROVE  FilledAlloc(v, sz) = Abs(v.szi + sz)
<1>1. v.szi \in Int
  BY DEF Hash
<1>2. CASE v.szi = 0
  BY <1>1, <1>2 DEF FilledAlloc
<1>3. CASE v.szi # 0
  <2>1. Alloc(v) = Abs(v.szi) /\ Abs(v.szi) \in Int /\ Abs(v.szi) > 0 /\ Abs(v.szi + sz) \in Int
    BY <1>1, <1>3, AbsFacts DEF Alloc
  <2>2. CASE Increasing(v.szi, sz)
    <3>1. FilledAlloc(v, sz) = Abs(v.szi) + Abs(sz)
      BY <1>3, <2>1, <2>2 DEF FilledAlloc
    <3>2. (v.szi > 0 /\ sz >= 0) \/ (v.szi < 0 /\ sz < 0)
      BY <1>1, <1>3, <2>2 DEF Increasing, Sign
    <3> QED BY <1>1, <3>1, <3>2 DEF Abs
  <2>3. CASE Flipping(v.szi, sz)
    BY <1>3, <2>3 DEF FilledAlloc, Flipping
  <2>4. CASE ~Increasing(v.szi, sz) /\ ~Flipping(v.szi, sz)
    <3>1. FilledAlloc(v, sz) = Scale(Abs(v.szi), Abs(v.szi + sz), Abs(v.szi))
      BY <1>3, <2>1, <2>4 DEF FilledAlloc
    <3> QED BY <2>1, <3>1, ScaleWhole
  <2> QED BY <2>2, <2>3, <2>4
<1> QED BY <1>2, <1>3

LEMMA FillWriteAlloc ==
  ASSUME IInv, AInv, NEW c \in Calls, NEW r \in Results, FillWrite(c, r)
  PROVE  AInv'
<1> DEFINE a   == loc[c].asset
           v   == loc[c].view[a]
           sz  == loc[c].size
           new == v.szi + sz
           iso == ~loc[c].cross[a]
           filled == [szi |-> new, cum |-> v.cum, asset |-> TRUE,
                      alloc |-> IF iso THEN FilledAlloc(v, sz) ELSE pos[a].alloc,
                      raw |-> IF iso THEN FilledRaw(pos[a], v, sz) ELSE pos[a].raw]
<1>1. /\ pc[c] = "fillWrite" /\ UNCHANGED <<isCross, raced>>
      /\ pc' = [pc EXCEPT ![c] = "idle"] /\ loc' = [loc EXCEPT ![c] = Blank]
      /\ pos' = [pos EXCEPT ![a] = IF new = 0 THEN NoHash ELSE filled]
      /\ switched' = IF new = 0 THEN switched \ {a}
                     ELSE switched \cup {b \in {a} : isCross[b] # loc[c].cross[b]}
  BY DEF FillWrite, Return, Goto, Keep
<1>2. loc[c] \in Local /\ a \in Assets /\ lock = c /\ (~raced => Same(pos[a], v))
  BY <1>1, CallFacts DEF OkCall, OnAsset, Locked, AInv, OkAlloc
<1>3. v \in Hash /\ sz \in Int /\ new \in Int
  BY <1>2 DEF Local, Hash
<1>4. filled.szi = new /\ filled.alloc = IF iso THEN FilledAlloc(v, sz) ELSE pos[a].alloc
  OBVIOUS
<1> HIDE DEF filled
<1>5. ASSUME ~raced PROVE Proportional(pos', isCross', switched')
  <2> SUFFICES ASSUME NEW b \in Assets \ switched', pos'[b].szi # 0, ~isCross[b]
               PROVE  pos'[b].alloc = Abs(pos'[b].szi)
    BY <1>1 DEF Proportional
  <2>1. CASE b # a
    <3>1. pos'[b] = pos[b] /\ b \notin switched
      BY <1>1, <2>1 DEF IInv, HoldingTypes
    <3> QED BY <1>5, <3>1 DEF AInv, Proportional
  <2>2. CASE b = a /\ new = 0
    BY <1>1, <1>2, <2>2, NoHashFacts DEF IInv, HoldingTypes
  <2>3. CASE b = a /\ new # 0
    <3>1. pos'[b] = filled /\ b \notin switched /\ loc[c].cross[a] = isCross[a]
      BY <1>1, <1>2, <2>3 DEF IInv, HoldingTypes
    <3>2. iso
      BY <2>3, <3>1
    <3>3. v.szi # 0 => v.alloc = Abs(v.szi)
      BY <1>2, <1>5, <2>3, <3>1 DEF AInv, Proportional, Same
    <3>4. FilledAlloc(v, sz) = Abs(new)
      BY <1>3, <2>3, <3>3, FilledProportional
    <3> QED BY <1>4, <3>1, <3>2, <3>4
  <2> QED BY <2>1, <2>2, <2>3
<1>6. OkAlloc("idle", Blank, pos', isCross', switched') /\ OthersAlloc(c)
  BY <1>2 DEF OkAlloc, OthersAlloc, Liquidating
<1> QED BY <1>1, <1>5, <1>6, AllocStep

LEMMA MarginFundAlloc ==
  ASSUME IInv, AInv, NEW c \in Calls, MarginWrite(c) \/ FundWrite(c)
  PROVE  AInv'
<1>1. /\ pc' = [pc EXCEPT ![c] = "idle"] /\ loc' = [loc EXCEPT ![c] = Blank]
      /\ UNCHANGED <<isCross, switched, raced>>
  BY DEF MarginWrite, FundWrite, Return, Goto, Keep, history
<1>2. \A a \in Assets : pos[a] \in Hash
  BY DEF IInv, HoldingTypes
<1>3. CASE MarginWrite(c)
  <2>1. lock = c /\ loc[c].asset \in Assets
    BY <1>3, CallFacts DEF MarginWrite, OkCall, OnAsset, Locked
  <2>2. \A a \in Assets : pos'[a].szi = pos[a].szi /\ pos'[a].alloc = pos[a].alloc
    BY <1>2, <1>3, <2>1 DEF MarginWrite, Hash, IInv, HoldingTypes
  <2>3. ~raced => Proportional(pos', isCross', switched')
    BY <1>1, <2>2 DEF AInv, Proportional
  <2>4. OkAlloc("idle", Blank, pos', isCross', switched') /\ OthersAlloc(c)
    BY <2>1 DEF OkAlloc, OthersAlloc, Liquidating
  <2> QED BY <1>1, <2>3, <2>4, AllocStep
<1>4. CASE FundWrite(c)
  <2>1. \A a \in Assets : \E x : pos'[a] = pos[a] \/ pos'[a] = [pos[a] EXCEPT !.cum = x]
    BY <1>4 DEF FundWrite
  <2>2. \A a \in Assets : Same(pos'[a], pos[a])
    BY <1>2, <2>1 DEF Same, Hash
  <2>3. ~raced => Proportional(pos', isCross', switched')
    BY <1>1, <2>2 DEF AInv, Proportional, Same
  <2>4. OkAlloc("idle", Blank, pos', isCross', switched') /\ OthersAlloc(c)
    BY <1>1, <2>2 DEF OkAlloc, OthersAlloc, Liquidating
  <2> QED BY <1>1, <2>3, <2>4, AllocStep
<1> QED BY <1>3, <1>4

LEMMA LevWriteAlloc ==
  ASSUME IInv, AInv, NEW c \in Calls, LevWrite(c)
  PROVE  AInv'
<1> DEFINE a == loc[c].asset
           x == loc[c].cross[a]
<1>1. /\ pc[c] = "levWrite" /\ pc' = [pc EXCEPT ![c] = "idle"] /\ loc' = [loc EXCEPT ![c] = Blank]
      /\ UNCHANGED <<pos, raced>> /\ isCross' = [isCross EXCEPT ![a] = x]
      /\ switched' = switched \cup {b \in {a} : isCross'[b] # isCross[b] /\ pos[b].szi # 0}
  BY DEF LevWrite, Return, Goto, Keep
<1>2. \A b \in Assets : /\ isCross'[b] = isCross[b] \/ b \in switched' \/ pos[b].szi = 0
                        /\ b \in switched => b \in switched'
  BY <1>1 DEF IInv, HoldingTypes
<1>3. ~raced => Proportional(pos', isCross', switched')
  BY <1>1, <1>2 DEF AInv, Proportional
<1>4. OthersAlloc(c)
  BY <1>1, <1>2 DEF OthersAlloc, Same
<1>5. OkAlloc("idle", Blank, pos', isCross', switched')
  BY DEF OkAlloc, Liquidating
<1> QED BY <1>1, <1>3, <1>4, <1>5, AllocStep

LEMMA CloseAlloc ==
  ASSUME IInv, AInv, ~raced, NEW c \in Calls, NEW T \in SUBSET loc[c].todo, NEW kept \in [T -> Int],
         \A a \in T : kept[a] >= 0,
         pc[c] \in Liquidating, QueueClose(c, T, kept)
  PROVE  /\ Proportional(pos', isCross', switched')
         /\ \A a \in Assets \ T : a \in switched <=> a \in switched'
<1> DEFINE v(a) == loc[c].view[a]
           left(a) == Sign(v(a).szi) * kept[a]
           al(a) == IF ~loc[c].cross[a] THEN Scale(Alloc(v(a)), kept[a], Abs(v(a).szi)) ELSE pos[a].alloc
<1>1. /\ loc[c] \in Local /\ T \subseteq Assets /\ OkAlloc(pc[c], loc[c], pos, isCross, switched)
      /\ \A a \in T : Same(pos[a], v(a)) /\ v(a).szi # 0
  BY CallFacts DEF Local, AInv, OkCall, Fresh
<1>2. isCross' = isCross /\ switched' = switched \ {a \in T : kept[a] = 0}
  BY DEF QueueClose
<1>3. ASSUME NEW a \in Assets \ switched', pos'[a].szi # 0, ~isCross[a]
      PROVE  pos'[a].alloc = Abs(pos'[a].szi)
  <2>0. pos[a] \in Hash
    BY DEF IInv, HoldingTypes
  <2>1. CASE a \notin T
    <3>1. pos'[a] = pos[a] /\ a \notin switched
      BY <1>2, <1>3, <2>1 DEF QueueClose
    <3> QED BY <1>3, <3>1 DEF AInv, Proportional
  <2>2. CASE a \in T /\ kept[a] = 0
    <3>1. pos'[a] = NoHash
      BY <2>2 DEF QueueClose
    <3> QED BY <1>3, <3>1, NoHashFacts
  <2>3. CASE a \in T /\ kept[a] # 0
    <3>1. \E y : pos'[a] = [pos[a] EXCEPT !.szi = left(a), !.alloc = al(a), !.raw = y]
      BY <2>3 DEF QueueClose
    <3>2. pos'[a].szi = left(a) /\ pos'[a].alloc = al(a)
      BY <2>0, <3>1 DEF Hash
    <3>3. a \notin switched /\ a \in loc[c].todo
      BY <1>2, <1>3, <2>3
    <3>4. ~loc[c].cross[a]
      BY <1>1, <1>3, <3>3 DEF OkAlloc
    <3>5. v(a) \in Hash /\ v(a).szi \in Int /\ kept[a] \in Int /\ kept[a] >= 0
      BY <1>1, <2>3 DEF Local, Hash
    <3>6. v(a).alloc = Abs(v(a).szi) /\ v(a).szi # 0
      BY <1>1, <1>3, <2>3, <3>3 DEF AInv, Proportional, Same
    <3>7. Alloc(v(a)) = Abs(v(a).szi) /\ Abs(v(a).szi) \in Int /\ Abs(v(a).szi) > 0
      BY <3>5, <3>6, AbsFacts DEF Alloc
    <3>8. al(a) = kept[a]
      BY <3>4, <3>5, <3>7, ScaleWhole
    <3>9. Abs(left(a)) = kept[a]
      BY <3>5 DEF Abs, Sign
    <3> QED BY <3>2, <3>8, <3>9
  <2> QED BY <2>1, <2>2, <2>3
<1> QED BY <1>2, <1>3 DEF Proportional

LEMMA LiquidationAlloc ==
  ASSUME IInv, AInv, NEW c \in Calls, NEW r \in Results,
         \/ CrossMarket(c, r) \/ CrossBackstop(c, r)
         \/ \E a \in Assets : IsolatedMarket(c, a, r) \/ IsolatedBackstop(c, a, r)
  PROVE  AInv'
<1>0. loc[c] \in Local /\ loc[c].todo \subseteq Assets
  BY CallFacts DEF Local
<1>1. CASE CrossMarket(c, r) \/ CrossBackstop(c, r)
  <2> DEFINE T == loc[c].todo
  <2>1. pc[c] = "cross" /\ Return(c)
    BY <1>1 DEF CrossMarket, CrossBackstop
  <2>2. T \in SUBSET loc[c].todo /\ pc[c] \in Liquidating /\ lock = c
    BY <2>1, CallFacts DEF Liquidating, OkCall, Locked
  <2>3. PICK kept \in [T -> Int] : (\A a \in T : kept[a] >= 0) /\ QueueClose(c, T, kept)
    <3>1. CASE CrossMarket(c, r)
      <4>1. PICK kept \in Kept(c, T, Cross) : QueueClose(c, T, kept)
        BY <3>1 DEF CrossMarket, MarketLiquidation
      <4> QED BY <2>2, <4>1, KeptFacts
    <3>2. CASE CrossBackstop(c, r)
      BY <3>2 DEF CrossBackstop, Backstop
    <3> QED BY <1>1, <3>1, <3>2
  <2>4. ~raced => Proportional(pos', isCross', switched')
    <3> HIDE DEF T
    <3> QED BY <2>2, <2>3, CloseAlloc
  <2>5. raced' = raced
    BY <2>3 DEF QueueClose
  <2>6. OkAlloc("idle", Blank, pos', isCross', switched') /\ OthersAlloc(c)
    BY <2>2 DEF OkAlloc, OthersAlloc, Liquidating
  <2>7. pc' = [pc EXCEPT ![c] = "idle"] /\ loc' = [loc EXCEPT ![c] = Blank]
    BY <2>1 DEF Return, Goto, Keep
  <2> QED BY <2>4, <2>5, <2>6, <2>7, AllocStep
<1>2. ASSUME NEW a \in Assets, IsolatedMarket(c, a, r) \/ IsolatedBackstop(c, a, r) PROVE AInv'
  <2> DEFINE l == [loc[c] EXCEPT !.todo = @ \ {a}]
             T == {a}
  <2>1. pc[c] = "isolated" /\ a \in loc[c].todo /\ pc' = [pc EXCEPT ![c] = "isolated"] /\ loc' = [loc EXCEPT ![c] = l]
    BY <1>2 DEF IsolatedMarket, IsolatedBackstop, NextIsolated, Goto, Keep
  <2>2. T \in SUBSET loc[c].todo /\ pc[c] \in Liquidating /\ lock = c
    BY <2>1, CallFacts DEF Liquidating, OkCall, Locked
  <2>3. PICK kept \in [T -> Int] : (\A b \in T : kept[b] >= 0) /\ QueueClose(c, T, kept)
    <3>1. CASE IsolatedMarket(c, a, r)
      <4>1. PICK kept \in Kept(c, T, a) : QueueClose(c, T, kept)
        BY <3>1 DEF IsolatedMarket, MarketLiquidation
      <4> QED BY <2>2, <4>1, KeptFacts
    <3>2. CASE IsolatedBackstop(c, a, r)
      <4>1. [b \in T |-> 0] \in [T -> Int] /\ \A b \in T : [d \in T |-> 0][b] >= 0
        OBVIOUS
      <4>2. QueueClose(c, T, [b \in T |-> 0])
        BY <3>2 DEF IsolatedBackstop, Backstop
      <4> QED BY <4>1, <4>2
    <3> QED BY <1>2, <3>1, <3>2
  <2>4. ~raced => /\ Proportional(pos', isCross', switched')
                  /\ \A b \in Assets \ T : b \in switched <=> b \in switched'
    <3> HIDE DEF T
    <3> QED BY <2>2, <2>3, CloseAlloc
  <2>5. raced' = raced /\ isCross' = isCross
    BY <2>3 DEF QueueClose
  <2>6. l.cross = loc[c].cross /\ l.todo = loc[c].todo \ {a}
    BY <1>0 DEF Local
  <2> HIDE DEF l
  <2>7. ~raced => OkAlloc("isolated", l, pos', isCross', switched')
    <3>1. ~raced => \A b \in loc[c].todo : loc[c].cross[b] = isCross[b] \/ b \in switched
      BY <2>1 DEF AInv, OkAlloc, Liquidating
    <3> QED BY <1>0, <2>4, <2>5, <2>6, <3>1 DEF OkAlloc
  <2>8. OthersAlloc(c)
    BY <2>2 DEF OthersAlloc
  <2> QED BY <2>1, <2>4, <2>5, <2>7, <2>8, AllocStep
<1> QED BY <1>1, <1>2

LEMMA ResetWriteAlloc ==
  ASSUME IInv, AInv, NEW c \in Calls, ResetWrite(c)
  PROVE  AInv'
<1> DEFINE D == loc[c].todo
<1>1. /\ pos' = [a \in Assets |-> IF a \in D THEN NoHash ELSE pos[a]]
      /\ raced' = (raced \/ (\E d \in Calls : pc[d] \in Snapshot)
                         \/ (\E a \in Assets \ D : pos[a].szi # 0))
      /\ pc' = [pc EXCEPT ![c] = "idle"] /\ loc' = [loc EXCEPT ![c] = Blank]
  BY DEF ResetWrite, Return, Goto, Keep
<1> HIDE DEF D
<1>2. ASSUME ~raced' PROVE ~raced /\ OthersAlloc(c) /\ \A a \in Assets : pos'[a].szi = 0
  BY <1>1, <1>2, NoHashFacts DEF OthersAlloc, Snapshot, Locked
<1>3. ~raced' => Proportional(pos', isCross', switched')
  BY <1>2 DEF Proportional
<1>4. OkAlloc("idle", Blank, pos', isCross', switched')
  BY DEF OkAlloc, Liquidating
<1> QED BY <1>1, <1>2, <1>3, <1>4, AllocStep

LEMMA NextAlloc == IInv /\ AInv /\ [Next]_vars => AInv'
<1> SUFFICES ASSUME IInv, AInv, [Next]_vars PROVE AInv'
  OBVIOUS
<1>1. ASSUME NEW c \in Calls, Restart(c) PROVE AInv'
  <2>1. /\ \A d \in Calls : pc'[d] \in {"idle", "backfill"}
        /\ UNCHANGED <<pos, isCross, switched, raced>>
    BY <1>1 DEF Restart, redisVars
  <2>2. \A d \in Calls : OkAlloc(pc'[d], loc'[d], pos', isCross', switched')
    BY <2>1 DEF OkAlloc, Liquidating
  <2> QED BY <2>1, <2>2 DEF AInv
<1>2. CASE (\E k \in Assets \cup {Cross} : CooldownEnds(k)) \/ Terminated \/ UNCHANGED vars
  <2>1. UNCHANGED <<pos, isCross, switched, raced, pc, loc>>
    BY <1>2 DEF CooldownEnds, Terminated, vars, redisVars, procVars, history
  <2> QED BY <2>1 DEF AInv
<1> QED
  BY <1>1, <1>2, AllocStarts, AllocQuietSteps, AllocReads, FillWriteAlloc, MarginFundAlloc,
     LevWriteAlloc, LiquidationAlloc, ResetWriteAlloc DEF Next

LEMMA InitAlloc == Init => AInv
<1> SUFFICES ASSUME Init PROVE AInv
  OBVIOUS
<1>1. IInv
  BY InitInv
<1>2. ASSUME NEW a \in Assets, pos[a].szi # 0, ~isCross[a] PROVE pos[a].alloc = Abs(pos[a].szi)
  <2>1. executed[a] # 0
    BY <1>2, NoHashFacts DEF Init
  <2>2. pos[a] = [NoHash EXCEPT !.szi = executed[a], !.asset = TRUE, !.alloc = Abs(executed[a])]
    BY <1>2, <2>1 DEF Init
  <2> QED BY <2>2 DEF NoHash
<1>3. \A c \in Calls : OkAlloc(pc[c], loc[c], pos, isCross, switched)
  BY DEF Init, OkAlloc, Liquidating
<1> QED BY <1>2, <1>3 DEF AInv, Proportional

(* marginAlloc in executeFill and in the partial closes of queueClose:     *)
(* the margin of an isolated position is in proportion to its size after   *)
(* any sequence of increases, closes, flips, liquidations and restarts,    *)
(* unless its margin type changed under the position or its fill.          *)
THEOREM AllocationKept == Spec => []AllocationProportional
<1>1. IInv /\ AInv /\ [Next]_vars => AInv'
  BY NextAlloc
<1>2. AInv => AllocationProportional
  BY DEF AInv, Proportional, AllocationProportional
<1> QED BY Invariance, InitAlloc, <1>1, <1>2, PTL DEF Spec

-----------------------------------------------------------------------------
(* Sums over the assets.  The library's induction theorems take a          *)
(* predicate; that a finite set has minimal subsets of a kind (WFMin)      *)
(* serves as well.  Adds says that g is the function MapThenSumSet         *)
(* computes the sum of the values of f with.                               *)

Pick(s) == CHOOSE x \in s : TRUE
Rec(g, f, T) == [s \in SUBSET T |-> IF s = {} THEN 0 ELSE f[Pick(s)] + g[s \ {Pick(s)}]]
AddsOn(g, f, T) == g = Rec(g, f, T)
SumFcn(f, T) == CHOOSE g : AddsOn(g, f, T)

LEMMA SmallestSet ==
  ASSUME NEW S, IsFiniteSet(S), NEW T, T \subseteq SUBSET S, T # {}
  PROVE  \E x \in T : \A y \in T : y \subseteq x => y = x
<1> DEFINE R == StrictSubsetOrdering(S)
<1>1. IsWellFoundedOn(R, SUBSET S)
  BY FS_StrictSubsetOrderingWellFounded, FS_FiniteSubsetsOfFinite
<1>2. \A x, y \in SUBSET S : <<x, y>> \in R <=> x \subseteq y /\ x # y
  BY DEF StrictSubsetOrdering
<1> HIDE DEF R
<1>3. \E x \in T : \A y \in T : ~(<<y, x>> \in R)
  BY <1>1, WFMin
<1>4. PICK x \in T : \A y \in T : ~(<<y, x>> \in R)
  BY <1>3
<1>5. ASSUME NEW y \in T, y \subseteq x
      PROVE  y = x
  BY <1>2, <1>4, <1>5
<1> QED BY <1>5

LEMMA Picked == \A s : s # {} => Pick(s) \in s
  BY DEF Pick

LEMMA Unfold ==
  ASSUME NEW g, NEW f, NEW T, AddsOn(g, f, T), NEW s \in SUBSET T
  PROVE  /\ s = {} => g[s] = 0
         /\ s # {} => g[s] = f[Pick(s)] + g[s \ {Pick(s)}]
<1>1. g = [r \in SUBSET T |-> IF r = {} THEN 0 ELSE f[Pick(r)] + g[r \ {Pick(r)}]]
  BY DEF AddsOn, Rec
<1> QED BY <1>1

(* Two functions that agree on a set have the same sum over it.            *)
LEMMA Agree ==
  ASSUME NEW S, IsFiniteSet(S), NEW T \in SUBSET S, NEW f, NEW e, \A x \in T : f[x] = e[x],
         NEW g, NEW h, AddsOn(g, f, S), AddsOn(h, e, T)
  PROVE  \A s \in SUBSET T : g[s] = h[s]
<1> DEFINE B == {s \in SUBSET T : g[s] # h[s]}
<1> SUFFICES ASSUME B # {} PROVE FALSE
  OBVIOUS
<1>1. B \subseteq SUBSET S
  OBVIOUS
<1>2. PICK s \in B : \A y \in B : y \subseteq s => y = s
  <2> HIDE DEF B
  <2> QED BY <1>1, SmallestSet
<1>3. s \in SUBSET T /\ s \in SUBSET S /\ g[s] # h[s]
  OBVIOUS
<1>4. CASE s = {}
  BY <1>3, <1>4, Unfold
<1>5. CASE s # {}
  <2> DEFINE r == s \ {Pick(s)}
  <2>1. r \subseteq s /\ r # s /\ r \in SUBSET T /\ Pick(s) \in T
    BY <1>3, <1>5, Picked
  <2>2. g[r] = h[r] /\ f[Pick(s)] = e[Pick(s)]
    BY <1>2, <2>1
  <2>3. g[s] = f[Pick(s)] + g[r]
    BY <1>3, <1>5, Unfold
  <2>4. h[s] = e[Pick(s)] + h[r]
    <3>1. AddsOn(h, e, T) /\ s \in SUBSET T
      BY <1>3
    <3> HIDE DEF B
    <3> QED BY ONLY <3>1, <1>5, Unfold
  <2> QED BY <1>3, <2>2, <2>3, <2>4
<1> QED BY <1>4, <1>5

LEMMA Extend ==
  ASSUME NEW T, IsFiniteSet(T), NEW f, \A s \in SUBSET T : s # T => \E g : AddsOn(g, f, s)
  PROVE  \E g : AddsOn(g, f, T)
<1> DEFINE h(s) == SumFcn(f, s)
           V(s) == IF s = {} THEN 0 ELSE f[Pick(s)] + h(s \ {Pick(s)})[s \ {Pick(s)}]
           G == [s \in SUBSET T |-> V(s)]
<1>1. \A s \in SUBSET T : s # T => AddsOn(h(s), f, s)
  BY DEF SumFcn
<1>2. ASSUME NEW r \in SUBSET T, r # T
      PROVE  V(r) = h(r)[r]
  <2>1. AddsOn(h(r), f, r) /\ IsFiniteSet(r)
    BY <1>1, <1>2, FS_Subset
  <2>2. CASE r = {}
    BY <2>1, <2>2, Unfold
  <2>3. CASE r # {}
    <3> DEFINE q == r \ {Pick(r)}
    <3>1. q \in SUBSET r /\ q \in SUBSET T /\ q # T
      BY <1>2, <2>3, Picked
    <3>2. AddsOn(h(q), f, q)
      BY <1>1, <3>1
    <3>3. h(r)[r] = f[Pick(r)] + h(r)[q]
      BY <2>1, <2>3, Unfold
    <3>4. h(r)[q] = h(q)[q]
      <4>1. q \in SUBSET q /\ \A x \in q : f[x] = f[x]
        OBVIOUS
      <4> HIDE DEF h, q
      <4> QED BY <2>1, <3>1, <3>2, <4>1, Agree
    <3> QED BY <2>3, <3>3, <3>4
  <2> QED BY <2>2, <2>3
<1>3. ASSUME NEW s \in SUBSET T, s # {}
      PROVE  V(s) = f[Pick(s)] + G[s \ {Pick(s)}]
  <2> DEFINE r == s \ {Pick(s)}
  <2>1. r \in SUBSET T /\ r # T
    BY <1>3, Picked
  <2>2. V(r) = h(r)[r]
    BY <1>2, <2>1
  <2>3. G[r] = V(r)
    BY <2>1
  <2> QED BY <1>3, <2>2, <2>3
<1>4. \A s \in SUBSET T : V(s) = IF s = {} THEN 0 ELSE f[Pick(s)] + G[s \ {Pick(s)}]
  BY <1>3
<1>5. AddsOn(G, f, T)
  <2> HIDE DEF V
  <2> QED BY <1>4 DEF AddsOn, Rec
<1> QED BY <1>5

LEMMA Exists ==
  ASSUME NEW S, IsFiniteSet(S), NEW f
  PROVE  AddsOn(SumFcn(f, S), f, S)
<1> DEFINE B == {s \in SUBSET S : ~\E g : AddsOn(g, f, s)}
<1>1. B = {}
  <2> SUFFICES ASSUME B # {} PROVE FALSE
    OBVIOUS
  <2>1. B \subseteq SUBSET S
    OBVIOUS
  <2>2. PICK s \in B : \A y \in B : y \subseteq s => y = s
    <3> HIDE DEF B
    <3> QED BY <2>1, SmallestSet
  <2>3. IsFiniteSet(s)
    BY FS_Subset
  <2>4. \A r \in SUBSET s : r # s => \E g : AddsOn(g, f, r)
    BY <2>2
  <2> QED BY <2>3, <2>4, Extend
<1>2. \E g : AddsOn(g, f, S)
  BY <1>1
<1> QED BY <1>2 DEF SumFcn

(* The sum of integers is one.                                             *)
LEMMA SumType ==
  ASSUME NEW S, IsFiniteSet(S), NEW f, \A x \in S : f[x] \in Int, NEW g, AddsOn(g, f, S)
  PROVE  g[S] \in Int
<1> DEFINE B == {s \in SUBSET S : g[s] \notin Int}
<1>1. B = {}
  <2> SUFFICES ASSUME B # {} PROVE FALSE
    OBVIOUS
  <2>1. B \subseteq SUBSET S
    OBVIOUS
  <2>2. PICK s \in B : \A y \in B : y \subseteq s => y = s
    <3> HIDE DEF B
    <3> QED BY <2>1, SmallestSet
  <2>3. s \in SUBSET S /\ g[s] \notin Int
    OBVIOUS
  <2>4. s # {}
    <3>1. s = {} => g[s] = 0
      BY <2>3, Unfold
    <3> QED BY <2>3, <3>1
  <2> DEFINE r == s \ {Pick(s)}
  <2>5. r \in SUBSET S /\ r \subseteq s /\ r # s /\ f[Pick(s)] \in Int
    BY <2>3, <2>4, Picked
  <2>6. g[r] \in Int
    BY <2>2, <2>5
  <2>7. g[s] = f[Pick(s)] + g[r]
    BY <2>3, <2>4, Unfold
  <2> QED BY <2>3, <2>5, <2>6, <2>7
<1> QED BY <1>1

SumOf(f) == MapThenSumSet(LAMBDA a : f[a], Assets)

LEMMA SumOfType ==
  ASSUME NEW f, \A a \in Assets : f[a] \in Int
  PROVE  SumOf(f) \in Int
<1>1. SumOf(f) = SumFcn(f, Assets)[Assets]
  BY DEF SumOf, MapThenSumSet, MapThenFoldSet, SumFcn, AddsOn, Rec, Pick
<1>2. IsFiniteSet(Assets)
  BY PositionsAssumption
<1> QED BY <1>1, <1>2, Exists, SumType

\* What is dedicated to the positions H with the margin types X, and what of
\* it to each.
DedicatedTo(X, H) == MapThenSumSet(LAMBDA a : IF X[a] \/ H[a].szi = 0 THEN 0
                                              ELSE IsolatedMarginOf(H[a]), Assets)
Part(X, H) == [a \in Assets |-> IF X[a] \/ H[a].szi = 0 THEN 0 ELSE IsolatedMarginOf(H[a])]

LEMMA DedicatedSum ==
  ASSUME NEW X, NEW H
  PROVE  \E g : AddsOn(g, Part(X, H), Assets) /\ DedicatedTo(X, H) = g[Assets]
<1> DEFINE f == Part(X, H)
           V(g) == [s \in SUBSET Assets |->
                     IF s = {} THEN 0
                     ELSE (IF X[Pick(s)] \/ H[Pick(s)].szi = 0 THEN 0 ELSE IsolatedMarginOf(H[Pick(s)]))
                          + g[s \ {Pick(s)}]]
           it == CHOOSE g : g = V(g)
<1>1. DedicatedTo(X, H) = it[Assets]
  BY DEF DedicatedTo, MapThenSumSet, MapThenFoldSet, Pick
<1>2. ASSUME NEW g PROVE V(g) = Rec(g, f, Assets)
  <2>1. ASSUME NEW s \in SUBSET Assets, s # {}
        PROVE  f[Pick(s)] = IF X[Pick(s)] \/ H[Pick(s)].szi = 0 THEN 0 ELSE IsolatedMarginOf(H[Pick(s)])
    <3>1. Pick(s) \in Assets
      BY <2>1, Picked
    <3> QED BY <3>1 DEF Part
  <2> HIDE DEF f
  <2> QED BY <2>1 DEF Rec
<1>3. AddsOn(SumFcn(f, Assets), f, Assets)
  BY Exists, PositionsAssumption
<1> HIDE DEF V, f
<1>4. it = V(it)
  BY <1>2, <1>3 DEF AddsOn
<1>5. AddsOn(it, f, Assets)
  BY <1>2, <1>4 DEF AddsOn
<1> QED BY <1>1, <1>5 DEF f

(* Only what the margin types and the margin fields say matters.           *)
LEMMA SameDedicated ==
  ASSUME NEW X, NEW H, NEW Y, NEW G, \A a \in Assets : Part(X, H)[a] = Part(Y, G)[a]
  PROVE  DedicatedTo(X, H) = DedicatedTo(Y, G)
<1>1. PICK g : AddsOn(g, Part(X, H), Assets) /\ DedicatedTo(X, H) = g[Assets]
  BY DedicatedSum
<1>2. PICK h : AddsOn(h, Part(Y, G), Assets) /\ DedicatedTo(Y, G) = h[Assets]
  BY DedicatedSum
<1>3. IsFiniteSet(Assets) /\ Assets \in SUBSET Assets
  BY PositionsAssumption
<1>4. g[Assets] = h[Assets]
  BY <1>1, <1>2, <1>3, Agree
<1> QED BY <1>1, <1>2, <1>4

LEMMA MarginType ==
  ASSUME NEW h \in Hash
  PROVE  IsolatedMarginOf(h) \in Int
<1>1. Alloc(h) \in Int /\ h.raw \in Int
  BY AllocType DEF Hash
<1> QED BY <1>1 DEF IsolatedMarginOf

LEMMA DedicatedType ==
  ASSUME NEW X, NEW H \in [Assets -> Hash]
  PROVE  DedicatedTo(X, H) \in Int
<1>1. \A a \in Assets : Part(X, H)[a] \in Int
  <2>1. \A a \in Assets : IsolatedMarginOf(H[a]) \in Int
    BY MarginType
  <2> QED BY <2>1 DEF Part
<1>2. PICK g : AddsOn(g, Part(X, H), Assets) /\ DedicatedTo(X, H) = g[Assets]
  BY DedicatedSum
<1>3. g[Assets] \in Int
  BY <1>1, <1>2, SumType, PositionsAssumption
<1> QED BY <1>2, <1>3

-----------------------------------------------------------------------------
(* The balances, and what remains of the types.                            *)

RInv ==
  /\ balance \in Int /\ seen \in Int /\ collected \in Nat
  /\ cooling \subseteq Assets \cup {Cross}
  /\ ops \in 0..MaxOps /\ crashes \in 0..MaxCrashes
  /\ mixed \subseteq Assets /\ switched \subseteq Assets

LEMMA CloseRest ==
  ASSUME RInv, NEW c \in Calls, NEW T, NEW kept, QueueClose(c, T, kept)
  PROVE  ops' = ops /\ crashes' = crashes /\ mixed' \subseteq Assets /\ switched' \subseteq Assets
  BY DEF QueueClose, RInv

LEMMA CreditType ==
  ASSUME RInv, NEW e \in Int
  PROVE  collected + VaultCredit(e) \in Nat
  BY DEF RInv, VaultCredit

LEMMA MarketRest ==
  ASSUME RInv, NEW c \in Calls, NEW T, NEW key \in Assets \cup {Cross}, NEW kept, NEW r \in Results,
         MarketLiquidation(c, T, key, kept, r), seen' \in Int
  PROVE  RInv'
<1>1. ops' = ops /\ crashes' = crashes /\ mixed' \subseteq Assets /\ switched' \subseteq Assets
  BY CloseRest DEF MarketLiquidation
<1>2. cooling' \subseteq Assets \cup {Cross} /\ collected' = collected
  BY DEF MarketLiquidation, RInv
<1>3. balance' = balance + r /\ r \in Int
  BY PositionsAssumption DEF MarketLiquidation
<1> QED BY <1>1, <1>2, <1>3 DEF RInv

LEMMA BackstopRest ==
  ASSUME RInv, NEW c \in Calls, NEW T, NEW p \in Results, NEW e \in Int,
         Backstop(c, T, p, e), seen' \in Int
  PROVE  RInv'
<1>1. ops' = ops /\ crashes' = crashes /\ mixed' \subseteq Assets /\ switched' \subseteq Assets
  BY CloseRest DEF Backstop
<1>2. cooling' = cooling /\ collected' \in Nat
  BY CreditType DEF Backstop
<1>3. balance' = balance + p - e /\ p \in Int
  BY PositionsAssumption DEF Backstop
<1> QED BY <1>1, <1>2, <1>3 DEF RInv

LEMMA LiquidationRest ==
  ASSUME IInv, RInv, NEW c \in Calls, NEW r \in Results,
         \/ CrossMarket(c, r) \/ CrossBackstop(c, r)
         \/ \E a \in Assets : IsolatedMarket(c, a, r) \/ IsolatedBackstop(c, a, r)
  PROVE  RInv'
<1>1. loc[c] \in Local /\ r \in Int /\ seen \in Int
  BY CallFacts, PositionsAssumption DEF RInv
<1>2. CASE CrossMarket(c, r)
  <2>1. seen' \in Int
    BY <1>2 DEF CrossMarket
  <2> QED BY <1>2, <2>1, MarketRest DEF CrossMarket
<1>3. CASE CrossBackstop(c, r)
  <2>1. seen' \in Int
    BY <1>3 DEF CrossBackstop
  <2>2. Reserved(c) \in Int
    <3>1. loc[c].view \in [Assets -> Hash]
      BY <1>1 DEF Local
    <3>2. Reserved(c) = DedicatedTo(loc[c].cross, loc[c].view)
      BY DEF Reserved, DedicatedTo
    <3> QED BY <3>1, <3>2, DedicatedType
  <2>3. seen - Reserved(c) + r \in Int
    BY <1>1, <2>2
  <2>4. Backstop(c, loc[c].todo, r, seen - Reserved(c) + r)
    BY <1>3 DEF CrossBackstop
  <2> QED BY <2>1, <2>3, <2>4, BackstopRest
<1>4. ASSUME NEW a \in Assets, IsolatedMarket(c, a, r) PROVE RInv'
  <2>1. seen' \in Int
    BY <1>1, <1>4 DEF IsolatedMarket, NextIsolated
  <2> QED BY <1>4, <2>1, MarketRest DEF IsolatedMarket
<1>5. ASSUME NEW a \in Assets, IsolatedBackstop(c, a, r) PROVE RInv'
  <2>1. seen' \in Int
    BY <1>1, <1>5 DEF IsolatedBackstop, NextIsolated
  <2>2. IsolatedMarginOf(loc[c].view[a]) + r \in Int
    <3>1. loc[c].view[a] \in Hash
      BY <1>1 DEF Local
    <3>2. IsolatedMarginOf(loc[c].view[a]) \in Int
      BY <3>1, MarginType
    <3> QED BY <1>1, <3>2
  <2>3. Backstop(c, {a}, r, IsolatedMarginOf(loc[c].view[a]) + r)
    BY <1>5 DEF IsolatedBackstop
  <2> QED BY <2>1, <2>2, <2>3, BackstopRest
<1> QED BY <1>2, <1>3, <1>4, <1>5

LEMMA FillWriteRest ==
  ASSUME IInv, RInv, NEW c \in Calls, NEW r \in Results, FillWrite(c, r)
  PROVE  RInv'
<1> DEFINE a == loc[c].asset
<1>1. a \in Assets
  BY CallFacts DEF FillWrite, OkCall, OnAsset
<1>2. balance' = balance + r /\ r \in Int
  BY PositionsAssumption DEF FillWrite
<1>3. mixed' \subseteq mixed \cup {a}
  BY DEF FillWrite
<1>4. switched' \subseteq switched \cup {a}
  BY DEF FillWrite
<1>5. UNCHANGED <<seen, collected, cooling, ops, crashes>>
  BY DEF FillWrite
<1> QED BY <1>1, <1>2, <1>3, <1>4, <1>5 DEF RInv

LEMMA FundWriteRest ==
  ASSUME IInv, RInv, NEW c \in Calls, FundWrite(c)
  PROVE  RInv'
<1> DEFINE k == loc[c].charge
<1>1. \A a \in Assets : k[a] \in Int
  BY CallFacts DEF Local
<1>2. SumOf(k) \in Int
  BY <1>1, SumOfType
<1>3. balance' = balance - SumOf(k)
  BY DEF FundWrite, SumOf
<1>4. mixed' \subseteq Assets
  BY DEF FundWrite, RInv
<1>5. UNCHANGED <<seen, collected, cooling, ops, crashes, switched>>
  BY DEF FundWrite
<1> QED BY <1>2, <1>3, <1>4, <1>5 DEF RInv

LEMMA QuietRest ==
  ASSUME RInv, UNCHANGED <<balance, collected, mixed, switched>>, seen' \in Int,
         cooling' \subseteq cooling, ops' = ops, crashes' = crashes
  PROVE  RInv'
  BY DEF RInv

LEMMA StartRest ==
  ASSUME RInv, NEW c \in Calls,
         \/ LiquidationTick(c) \/ KeepMarks(c) \/ ApplyFunding(c) \/ ResetAccount(c)
         \/ \E a \in Traded :
              \/ \E sz \in Sizes, ro \in BOOLEAN : ExecuteFill(c, a, sz, ro)
              \/ \E m \in Margins : UpdateIsolatedMargin(c, a, m)
              \/ \E x \in BOOLEAN : UpdateLeverage(c, a, x)
  PROVE  RInv'
<1>1. /\ ops < MaxOps /\ ops' = ops + 1
      /\ UNCHANGED <<balance, collected, cooling, mixed, switched, seen, crashes>>
  BY DEF LiquidationTick, KeepMarks, ApplyFunding, ResetAccount, ExecuteFill, UpdateIsolatedMargin,
         UpdateLeverage, Start, redisVars, history
<1>2. ops' \in 0..MaxOps
  BY <1>1, PositionsAssumption DEF RInv
<1> QED BY <1>1, <1>2 DEF RInv

LEMMA QuietStepsRest ==
  ASSUME RInv, NEW c \in Calls,
         \/ Acquire(c) \/ FillSkip(c) \/ FillRead(c) \/ FillFields(c) \/ MarginRead(c) \/ MarginWrite(c)
         \/ PruneHolder(c) \/ Deactivate(c) \/ BackfillPositionHolders(c) \/ CrossPass(c) \/ LevRead(c)
         \/ LevType(c) \/ CheckAndLiquidateUser(c) \/ ReloadCross(c) \/ LiqBalance(c)
         \/ \E a \in Assets : IsolatedPass(c, a) \/ \E k \in Charges \cup {0} : FundRead(c, a, k)
  PROVE  RInv'
<1>1. /\ UNCHANGED <<balance, collected, cooling, mixed, switched, ops, crashes>>
      /\ seen' \in {seen, 0, balance}
  <2>1. CASE Acquire(c) \/ FillSkip(c) \/ FillRead(c) \/ FillFields(c) \/ MarginRead(c) \/ MarginWrite(c)
    BY <2>1 DEF Acquire, FillSkip, FillRead, FillFields, MarginRead, MarginWrite, redisVars, history
  <2>2. CASE \/ PruneHolder(c) \/ Deactivate(c) \/ BackfillPositionHolders(c) \/ CrossPass(c) \/ LevRead(c)
             \/ LevType(c)
    BY <2>2 DEF PruneHolder, Deactivate, BackfillPositionHolders, CrossPass, LevRead, LevType,
                redisVars, history
  <2>3. CASE \/ CheckAndLiquidateUser(c) \/ ReloadCross(c) \/ LiqBalance(c)
             \/ \E a \in Assets : IsolatedPass(c, a) \/ \E k \in Charges \cup {0} : FundRead(c, a, k)
    BY <2>3 DEF CheckAndLiquidateUser, ReloadCross, LiqBalance, IsolatedPass, NextIsolated, FundRead,
                redisVars, history
  <2> QED BY <2>1, <2>2, <2>3
<1>2. seen' \in Int
  BY <1>1 DEF RInv
<1> QED BY <1>1, <1>2, QuietRest

LEMMA NextRest == IInv /\ RInv /\ [Next]_vars => RInv'
<1> SUFFICES ASSUME IInv, RInv, [Next]_vars PROVE RInv'
  OBVIOUS
<1>1. ASSUME NEW c \in Calls, LevWrite(c) PROVE RInv'
  <2>1. loc[c].asset \in Assets
    BY <1>1, CallFacts DEF LevWrite, OkCall, OnAsset
  <2> QED BY <1>1, <2>1 DEF LevWrite, RInv
<1>2. ASSUME NEW c \in Calls, ResetWrite(c) PROVE RInv'
  <2>1. /\ balance' = Seed /\ mixed' \subseteq mixed /\ switched' \subseteq switched
        /\ UNCHANGED <<seen, collected, cooling, ops, crashes>>
    BY <1>2 DEF ResetWrite
  <2> QED BY <2>1, PositionsAssumption DEF RInv
<1>3. ASSUME NEW c \in Calls, Restart(c) PROVE RInv'
  <2>1. /\ crashes < MaxCrashes /\ crashes' = crashes + 1 /\ seen' = 0
        /\ UNCHANGED <<balance, collected, cooling, mixed, switched, ops>>
    BY <1>3 DEF Restart, redisVars
  <2>2. crashes' \in 0..MaxCrashes
    BY <2>1, PositionsAssumption DEF RInv
  <2> QED BY <2>1, <2>2 DEF RInv
<1>4. CASE (\E k \in Assets \cup {Cross} : CooldownEnds(k)) \/ Terminated \/ UNCHANGED vars
  <2>1. /\ UNCHANGED <<balance, collected, mixed, switched, seen, ops, crashes>>
        /\ cooling' \subseteq cooling
    BY <1>4 DEF CooldownEnds, Terminated, vars, redisVars, procVars, history
  <2>2. seen' \in Int
    BY <2>1 DEF RInv
  <2> QED BY <2>1, <2>2, QuietRest
<1> QED
  BY <1>1, <1>2, <1>3, <1>4, StartRest, QuietStepsRest, FillWriteRest, FundWriteRest, LiquidationRest
     DEF Next

LEMMA InitRest == Init => RInv
<1>1. Init => /\ balance = Seed /\ collected = 0 /\ cooling = {} /\ seen = 0
              /\ ops = 0 /\ crashes = 0 /\ mixed = {} /\ switched = {}
  BY DEF Init
<1> QED BY <1>1, PositionsAssumption DEF RInv

(* Every variable keeps its type: the balance stays an integer through the *)
(* sums of funding and of reserved margin, and what the vault has          *)
(* collected never falls below 0.                                          *)
THEOREM Typed == Spec => []TypeOK
<1>1. IInv /\ FInv /\ [Next]_vars => FInv'
  BY NextFund
<1>2. IInv /\ RInv /\ [Next]_vars => RInv'
  BY NextRest
<1>3. IInv /\ FInv /\ RInv => TypeOK
  BY DEF IInv, FInv, RInv, TypeOK
<1> QED BY Invariance, InitFund, InitRest, <1>1, <1>2, <1>3, PTL DEF Spec

-----------------------------------------------------------------------------
(* A backstop.                                                             *)

LEMMA IsolatedTakesAll ==
  ASSUME IInv, RInv, ~raced, NEW c \in Calls, NEW p \in Results, NEW a \in Assets,
         IsolatedBackstop(c, a, p)
  PROVE  balance' = balance - IsolatedMarginOf(pos[a])
<1> DEFINE v == loc[c].view[a]
<1>1. balance' = balance + p - (IsolatedMarginOf(v) + p)
  BY DEF IsolatedBackstop, Backstop
<1>2. loc[c] \in Local /\ Same(pos[a], v)
  BY CallFacts DEF IsolatedBackstop, NextIsolated, Fresh, Liquidating
<1>3. IsolatedMarginOf(v) = IsolatedMarginOf(pos[a])
  BY <1>2 DEF Same, IsolatedMarginOf, Alloc
<1>4. IsolatedMarginOf(v) \in Int /\ p \in Int /\ balance \in Int
  BY <1>2, MarginType, PositionsAssumption DEF Local, RInv
<1> QED BY <1>1, <1>3, <1>4

LEMMA CrossLeavesDedicated ==
  ASSUME IInv, AInv, RInv, ~raced, NEW c \in Calls, NEW p \in Results,
         CrossBackstop(c, p), balance = seen, switched = {}
  PROVE  balance' = Dedicated
<1> DEFINE l == loc[c]
<1>1. balance' = balance + p - (seen - Reserved(c) + p)
  BY DEF CrossBackstop, Backstop
<1>2. l \in Local /\ \A a \in Assets : /\ Same(pos[a], l.view[a])
                                       /\ l.cross[a] = isCross[a] \/ pos[a].szi = 0
  BY CallFacts DEF CrossBackstop, AInv, OkAlloc
<1>3. ASSUME NEW a \in Assets
      PROVE  Part(l.cross, l.view)[a] = Part(isCross, pos)[a]
  <2>1. l.view[a].szi = pos[a].szi /\ (l.cross[a] = isCross[a] \/ pos[a].szi = 0)
    BY <1>2 DEF Same
  <2>2. IsolatedMarginOf(l.view[a]) = IsolatedMarginOf(pos[a])
    BY <1>2 DEF Same, IsolatedMarginOf, Alloc
  <2> QED BY <2>1, <2>2 DEF Part
<1>4. Reserved(c) = DedicatedTo(l.cross, l.view) /\ Dedicated = DedicatedTo(isCross, pos)
  BY DEF Reserved, Dedicated, DedicatedTo
<1>5. Reserved(c) = Dedicated
  BY <1>3, <1>4, SameDedicated
<1>6. Reserved(c) \in Int /\ balance \in Int /\ p \in Int
  <2>1. l.view \in [Assets -> Hash]
    BY <1>2 DEF Local
  <2> QED BY <1>4, <2>1, DedicatedType, PositionsAssumption DEF RInv
<1> QED BY <1>1, <1>5, <1>6

(* runLiquidation, method backstop: an isolated position takes its         *)
(* dedicated margin out of the balance, whatever the close earned; the     *)
(* cross account is left with exactly what its isolated positions hold,    *)
(* unless the balance moved after it was read or a margin type changed     *)
(* under a position.                                                       *)
THEOREM BackstopComplete == Spec => BackstopTakesAll
<1> DEFINE Takes ==
      ~raced =>
        \A c \in Calls, p \in Results :
          /\ \A a \in Assets : IsolatedBackstop(c, a, p) => balance' = balance - IsolatedMarginOf(pos[a])
          /\ CrossBackstop(c, p) /\ balance = seen /\ switched = {} => balance' = Dedicated
<1>1. IInv /\ AInv /\ RInv => Takes
  BY IsolatedTakesAll, CrossLeavesDedicated
<1>2. IInv /\ AInv /\ [Next]_vars => AInv'
  BY NextAlloc
<1>3. IInv /\ RInv /\ [Next]_vars => RInv'
  BY NextRest
<1> QED BY Invariance, InitAlloc, InitRest, <1>1, <1>2, <1>3, PTL DEF Spec, BackstopTakesAll
=============================================================================
