------------------------------- MODULE Margin -------------------------------
(***************************************************************************)
(* The arithmetic of margin: the tiers of an asset (engine/marginTiers.ts),*)
(* what an order may use and where a position is liquidated (engine/       *)
(* margin.ts), what the account screen shows (engine/position.ts), what    *)
(* the liquidation engine decides (engine/liquidation.ts), the price of a  *)
(* fill walked through the book (utils/slippage.ts), and the prices and    *)
(* margin a fill writes (worker/order-matcher.ts).                         *)
(*                                                                         *)
(* One user, the native dex.  An order is checked in one step and filled   *)
(* in a later one, with other orders, price moves and margin changes in    *)
(* between; the fill itself is one step, in the user's lock (Positions).   *)
(* The mark and the mid are one price; sizes are whole lots.  Reduce-only  *)
(* orders, which are not checked, and the closes of a liquidation are in   *)
(* Positions.                                                              *)
(***************************************************************************)
EXTENDS Decimals, Sequences, FiniteSetsExt, Functions

CONSTANTS
  Assets,
  Tiers,      \* the margin table of each asset: <<[lowerBound, maxLeverage], ...>>
  Settings,   \* bound: the leverage settings the user may have
  Balances,   \* bound: the balances at the start
  Prices, Sizes,
  Opening,    \* bound: the price of every asset at the start
  Books,      \* bound: the books the exchange may show
  OpeningBook, \* bound: the book of each asset at the start
  FeeRate,    \* FEE_RATE_TAKER
  Calls,      \* orders under way at a time
  None,
  MaxOrders, MaxMoves, MaxTopUps  \* bounds on the steps of a behaviour

ASSUME MarginAssumption ==
  /\ Prices \subseteq Nat \ {0} /\ Sizes \subseteq Nat \ {0}
  /\ Balances \subseteq Nat /\ Opening \in Prices
  /\ OpeningBook \in [Assets -> Books]
  /\ \A a \in Assets : /\ Tiers[a] # <<>> /\ Tiers[a][1].lowerBound = 0
                       /\ \A i \in 2..Len(Tiers[a]) : Tiers[a][i].lowerBound > Tiers[a][i - 1].lowerBound
  /\ MaxOrders \in Nat /\ MaxMoves \in Nat /\ MaxTopUps \in Nat

VARIABLES
  balance,  \* realised cash
  pos,      \* user:<u>:pos:<asset>
  setting,  \* user:<u>:lev:<asset>
  px,       \* the price of each asset
  book,     \* the book of each asset: bids, asks
  call,     \* orders accepted and not yet filled
  fill,     \* the fill of the last step, if it was one
  steps     \* orders, moves and top-ups so far

vars == <<balance, pos, setting, px, book, call, fill, steps>>

Flat == [szi |-> 0, entryPx |-> Zero, alloc |-> Zero, raw |-> Zero]
Idle == [stage |-> "idle"]

Size(n) == IF n < 0 THEN -n ELSE n
Sum(f) == FoldFunction(add, Zero, f)

-----------------------------------------------------------------------------
(* Tiers.                                                                  *)

\* The last tier that the notional reaches, with all before it.
tierForNotional(tiers, n) ==
  Max({1} \cup {i \in DOMAIN tiers : \A j \in 1..i : gte(n, D(tiers[j].lowerBound))})

rateForTier(tier) == div(div(D(1), D(tier.maxLeverage)), D(2))

maintenanceMarginRateForNotional(tiers, n) == rateForTier(tiers[tierForNotional(tiers, n)])

\* Mutant: the step of the tier reached is left out (an off-by-one).
maintenanceMarginShort(tiers, n) ==
  LET i == tierForNotional(tiers, n)
      charged == [j \in 2..(i - 1) |-> mul(D(tiers[j].lowerBound),
                                          sub(rateForTier(tiers[j]), rateForTier(tiers[j - 1])))]
  IN  max(sub(mul(n, rateForTier(tiers[i])), Sum(charged)), Zero)

\* The rate on the whole notional, less what the lower tiers would not charge.
maintenanceMarginForNotional(tiers, n) ==
  LET i == tierForNotional(tiers, n)
      charged == [j \in 2..i |-> mul(D(tiers[j].lowerBound),
                                    sub(rateForTier(tiers[j]), rateForTier(tiers[j - 1])))]
  IN  max(sub(mul(n, rateForTier(tiers[i])), Sum(charged)), Zero)

-----------------------------------------------------------------------------
(* The account.                                                            *)

calculatePositionUnrealizedPnl(szi, entryPx, p) == mul(D(szi), sub(p, entryPx))

Open == {a \in Assets : pos[a].szi # 0}
Pnl(a) == calculatePositionUnrealizedPnl(pos[a].szi, pos[a].entryPx, D(px[a]))
isolatedMarginOf(a) == add(pos[a].alloc, pos[a].raw)

\* Cross: sized off the current price; isolated: what is dedicated to it.
calculatePositionMarginUsed(a) ==
  IF setting[a].isCross THEN div(D(Size(pos[a].szi) * px[a]), D(setting[a].leverage))
  ELSE isolatedMarginOf(a)

calculateAccountValue == add(balance, Sum([a \in Open |-> Pnl(a)]))
calculateTotalMarginUsed == Sum([a \in Open |-> calculatePositionMarginUsed(a)])
Available == sub(calculateAccountValue, calculateTotalMarginUsed)

Reducing(a, isBuy) == IF isBuy THEN pos[a].szi < 0 ELSE pos[a].szi > 0

\* Mutant: the margin in use is not subtracted.
checkMarginBlind(a, isBuy, sz, p) ==
  Reducing(a, isBuy) \/ gte(calculateAccountValue, div(D(sz * p), D(setting[a].leverage)))

\* An order against the position is not checked, whatever its size.
checkMarginForOrder(a, isBuy, sz, p) ==
  Reducing(a, isBuy) \/ gte(Available, div(D(sz * p), D(setting[a].leverage)))

\* What a firing stop may buy or sell: None when it reduces.
maxAffordableOrderSize(a, isBuy, p) ==
  IF Reducing(a, isBuy) THEN None
  ELSE IF ~gt(Available, Zero) THEN Zero
  ELSE div(mul(Available, D(setting[a].leverage)), D(p))

\* The price at which the position is liquidated.  Cross: from the cushion.
\* Isolated: solved in the tier of the entry, then in the tier of the solution,
\* until it stops moving.
calculateLiquidationPrice(szi, entryPx, accountValue, isCross, margin, tiers) ==
  LET size == D(Size(szi))
      ntl == mul(size, entryPx)
      cushion == sub(accountValue, maintenanceMarginForNotional(tiers, ntl))
      solve(n) ==
        LET r == maintenanceMarginRateForNotional(tiers, n)
            d == sub(mul(n, r), maintenanceMarginForNotional(tiers, n))
        IN IF szi > 0 THEN div(sub(sub(ntl, margin), d), mul(size, sub(D(1), r)))
           ELSE div(add(add(ntl, margin), d), mul(size, add(D(1), r)))
      liqPx[i \in 0..8] ==
        IF i = 0 THEN solve(ntl)
        ELSE LET p == liqPx[i - 1] IN IF gt(p, Zero) THEN solve(mul(size, p)) ELSE p
  IN IF isCross
     THEN IF gte(cushion, ntl) THEN None
          ELSE IF lte(cushion, Zero) THEN (IF szi > 0 THEN Zero ELSE entryPx)
          ELSE IF szi > 0 THEN sub(entryPx, div(cushion, size)) ELSE add(entryPx, div(cushion, size))
     ELSE IF szi > 0 THEN max(liqPx[8], Zero) ELSE liqPx[8]

\* What the account screen shows.
getClearinghouseState ==
  [accountValue |-> calculateAccountValue,
   withdrawable |-> max(Available, Zero),
   crossMaintenanceMarginUsed |->
     Sum([a \in {b \in Open : setting[b].isCross} |->
            maintenanceMarginForNotional(Tiers[a], D(Size(pos[a].szi) * px[a]))]),
   liquidationPx |->
     [a \in Open |-> calculateLiquidationPrice(pos[a].szi, pos[a].entryPx, calculateAccountValue,
                       setting[a].isCross, isolatedMarginOf(a), Tiers[a])]]

-----------------------------------------------------------------------------
(* The liquidation engine's verdict.                                       *)

computeMaintenanceMargin(a, p) == maintenanceMarginForNotional(Tiers[a], D(Size(pos[a].szi) * p))

assess(equity, mm) ==
  IF gte(equity, mm) THEN "healthy"
  ELSE IF lt(equity, mul(mm, div(D(2), D(3)))) THEN "backstop" ELSE "market"

assessIsolated(a, p) ==
  assess(add(isolatedMarginOf(a), calculatePositionUnrealizedPnl(pos[a].szi, pos[a].entryPx, D(p))),
         computeMaintenanceMargin(a, p))

crossAccountValue(cash) ==
  add(cash, Sum([a \in Open |-> IF setting[a].isCross THEN Pnl(a) ELSE neg(isolatedMarginOf(a))]))

assessCross(cash) ==
  LET cross == {a \in Open : setting[a].isCross}
  IN  IF cross = {} THEN "healthy"
      ELSE assess(crossAccountValue(cash), Sum([a \in cross |-> computeMaintenanceMargin(a, px[a])]))

\* What the engine would liquidate, with that much cash.
Isolated == {a \in Open : ~setting[a].isCross}
Sick(cash) == {a \in Isolated : assessIsolated(a, px[a]) # "healthy"}
              \cup (IF assessCross(cash) # "healthy" THEN {None} ELSE {})

-----------------------------------------------------------------------------
(* The price of a fill.                                                    *)

Beyond(p, isBuy, limit) == limit # None /\ (IF isBuy THEN p > limit ELSE p < limit)
Clamp(p, isBuy, limit) ==
  IF limit = None THEN p ELSE IF isBuy THEN min(p, D(limit)) ELSE max(p, D(limit))

\* Mutant: the limit is only applied to the average.
computeVwapLate(levels, sz, isBuy, limit, fallbackPx) ==
  LET Walk(acc, level) ==
        LET n == Min({level.sz, sz - acc.filled})
        IN [filled |-> acc.filled + n, ntl |-> acc.ntl + n * level.px]
      walked[i \in 0..Len(levels)] ==
        IF i = 0 THEN [filled |-> 0, ntl |-> 0] ELSE Walk(walked[i - 1], levels[i])
      got == walked[Len(levels)]
      worst == D(levels[Len(levels)].px)
  IN IF levels = <<>> \/ got.filled = 0 THEN D(fallbackPx)
     ELSE Clamp(div(add(D(got.ntl), mul(D(sz - got.filled), worst)), D(sz)), isBuy, limit)

\* computeVwap: walk the levels up to the limit; what the book lacks costs as
\* much as its last level, clamped.
computeVwap(levels, sz, isBuy, limit, fallbackPx) ==
  LET Walk(acc, level) ==
        IF acc.done \/ acc.filled >= sz \/ Beyond(level.px, isBuy, limit) THEN [acc EXCEPT !.done = TRUE]
        ELSE LET n == Min({level.sz, sz - acc.filled})
             IN [done |-> FALSE, filled |-> acc.filled + n, ntl |-> acc.ntl + n * level.px]
      walked[i \in 0..Len(levels)] ==
        IF i = 0 THEN [done |-> FALSE, filled |-> 0, ntl |-> 0] ELSE Walk(walked[i - 1], levels[i])
      got == walked[Len(levels)]
      worst == Clamp(D(levels[Len(levels)].px), isBuy, limit)
  IN IF levels = <<>> \/ got.filled = 0 THEN D(fallbackPx)
     ELSE Clamp(div(add(D(got.ntl), mul(D(sz - got.filled), worst)), D(sz)), isBuy, limit)

\* The book may not be there; then the fill is at the mid.
computeFillPrice(a, isBuy, sz, limit, seen) ==
  IF ~seen THEN D(px[a])
  ELSE computeVwap(IF isBuy THEN book[a].asks ELSE book[a].bids, sz, isBuy, limit, px[a])

-----------------------------------------------------------------------------
Init ==
  /\ balance \in {D(b) : b \in Balances}
  /\ setting \in Settings
  /\ pos = [a \in Assets |-> Flat]
  /\ px = [a \in Assets |-> Opening]
  /\ book = OpeningBook
  /\ call = [c \in Calls |-> Idle]
  /\ fill = None
  /\ steps = [orders |-> 0, moves |-> 0, topUps |-> 0]

Count(k, bound) == steps[k] < bound /\ steps' = [steps EXCEPT ![k] = @ + 1]

\* Whatever the other orders were checked against has changed.
Disturb(c) == [k \in Calls |-> IF k = c THEN Idle
                               ELSE IF call[k] = Idle THEN Idle ELSE [call[k] EXCEPT !.fresh = FALSE]]

\* The feed: a price, and with it a book.
Move(a) ==
  /\ Count("moves", MaxMoves)
  /\ \E p \in Prices \ {px[a]} : px' = [px EXCEPT ![a] = p]
  /\ \E b \in Books : book' = [book EXCEPT ![a] = b]
  /\ call' = Disturb(None) /\ fill' = None
  /\ UNCHANGED <<balance, pos, setting>>

Crosses(a, isBuy, limit) == ~Beyond(px[a], isBuy, limit)

leverageErrorForOpen(a, isBuy) ==
  ~Reducing(a, isBuy) /\ setting[a].leverage > Tiers[a][1].maxLeverage

\* placeSingleOrder: a crossing order is checked at the mid, a resting one at
\* its limit.  Refused orders leave no trace.
Place(c, a, isBuy, sz, limit) ==
  /\ call[c] = Idle
  /\ Count("orders", MaxOrders)
  /\ ~leverageErrorForOpen(a, isBuy)
  /\ checkMarginForOrder(a, isBuy, sz, IF Crosses(a, isBuy, limit) THEN px[a] ELSE limit)
  /\ call' = [call EXCEPT ![c] = [stage |-> "accepted", asset |-> a, isBuy |-> isBuy, sz |-> sz,
                                  limit |-> limit, fresh |-> TRUE]]
  /\ fill' = None
  /\ UNCHANGED <<balance, pos, setting, px, book>>

\* fireTrailingStop: no check, but no more than is affordable; its limit is
\* far from the price.
Fire(c, a, isBuy, sz) ==
  LET cap == maxAffordableOrderSize(a, isBuy, px[a])
      n == IF cap = None THEN sz ELSE Min({sz, roundToDecimals(cap)[1]})
  IN /\ call[c] = Idle
     /\ Count("orders", MaxOrders)
     /\ n > 0
     /\ call' = [call EXCEPT ![c] = [stage |-> "accepted", asset |-> a, isBuy |-> isBuy, sz |-> n,
                                     limit |-> None, fresh |-> TRUE]]
     /\ fill' = None
     /\ UNCHANGED <<balance, pos, setting, px, book>>

\* executeFillWithSize: the new size, entry price, allocation and adjustment.
FilledPos(a, signed, p, allocPx) ==
  LET old == pos[a]
      new == old.szi + signed
      lev == D(setting[a].leverage)
      opens(n) == IF setting[a].isCross THEN Zero ELSE div(mul(D(n), allocPx), lev)
      keep == div(D(Size(new)), D(Size(old.szi)))
  IN IF new = 0 THEN Flat
     ELSE IF old.szi = 0 THEN [szi |-> new, entryPx |-> p, alloc |-> opens(Size(new)), raw |-> Zero]
     ELSE IF (old.szi > 0) = (signed > 0)
     THEN [old EXCEPT !.szi = new, !.alloc = add(@, opens(Size(signed))),
             !.entryPx = div(add(mul(D(Size(old.szi)), @), mul(D(Size(signed)), p)), D(Size(new)))]
     ELSE IF (new > 0) # (old.szi > 0)
     THEN [szi |-> new, entryPx |-> p, alloc |-> opens(Size(new)),
           raw |-> IF setting[a].isCross THEN old.raw ELSE Zero]
     ELSE IF setting[a].isCross THEN [old EXCEPT !.szi = new]
     ELSE [old EXCEPT !.szi = new, !.alloc = mul(@, keep), !.raw = mul(@, keep)]

ClosedPnl(a, signed, p) ==
  LET old == pos[a]
      n == Min({Size(signed), Size(old.szi)})
  IN IF old.szi = 0 \/ (old.szi > 0) = (signed > 0) THEN Zero
     ELSE calculatePositionUnrealizedPnl(IF old.szi > 0 THEN n ELSE -n, old.entryPx, p)

Fee(sz, p) == mul(mul(D(sz), p), FeeRate)

FillAt(c, p, allocPx) ==
  LET k == call[c]
      signed == IF k.isBuy THEN k.sz ELSE -k.sz
  IN /\ pos' = [pos EXCEPT ![k.asset] = FilledPos(k.asset, signed, p, allocPx)]
     /\ balance' = sub(add(balance, ClosedPnl(k.asset, signed, p)), Fee(k.sz, p))
     /\ fill' = [asset |-> k.asset, isBuy |-> k.isBuy, fresh |-> k.fresh, px |-> p,
                 fee |-> Fee(k.sz, p), startPosition |-> pos[k.asset].szi,
                 sick |-> Sick(balance), profit |-> \E a \in Isolated : gt(Pnl(a), Zero)]
     /\ call' = Disturb(c)
     /\ UNCHANGED <<setting, px, book, steps>>

\* At once when it crossed, or in a later pass of the matcher, or never when it
\* is cancelled first.  The allocation is priced at the mark when it is fresh.
Fill(c) ==
  /\ call[c] # Idle
  /\ LET k == call[c] IN
     /\ Crosses(k.asset, k.isBuy, k.limit)
     /\ \E seen \in BOOLEAN :
          LET p == computeFillPrice(k.asset, k.isBuy, k.sz, k.limit, seen)
          IN \E allocPx \in {D(px[k.asset]), p} : FillAt(c, p, allocPx)

\* updateIsolatedMargin: not checked against the balance.
TopUp(a, n) ==
  /\ a \in Open /\ Count("topUps", MaxTopUps)
  /\ pos' = [pos EXCEPT ![a].raw = add(@, D(n))]
  /\ call' = Disturb(None) /\ fill' = None
  /\ UNCHANGED <<balance, setting, px, book>>

Next ==
  \/ \E a \in Assets : Move(a) \/ (\E n \in {-1, 1} : TopUp(a, n))
  \/ \E c \in Calls : Fill(c)
  \/ \E c \in Calls, a \in Assets, isBuy \in BOOLEAN, sz \in Sizes :
       Fire(c, a, isBuy, sz) \/ (\E limit \in Prices : Place(c, a, isBuy, sz, limit))

Spec == Init /\ [][Next]_vars

-----------------------------------------------------------------------------
(* Properties.                                                             *)

\* Maintenance margin, unit by unit: each unit of notional is charged the rate
\* of the last tier whose bound it has reached.
RateOfUnit(tiers, k) == rateForTier(tiers[Max({i \in DOMAIN tiers : tiers[i].lowerBound <= k})])
MarginalMaintenance(tiers, n) == Sum([k \in 0..(n - 1) |-> RateOfUnit(tiers, k)])

\* position.ts: the margin shown is "the same figure the liquidation engine
\* checks against, so the displayed liq line is where it fires".  An isolated
\* position is liquidated exactly on the wrong side of the price shown, at
\* every price, and both follow the tiers unit by unit, across their bounds.
LineIsWhereItFires ==
  \A a \in {b \in Open : ~setting[b].isCross}, p \in Prices :
    LET equity == add(isolatedMarginOf(a),
                      calculatePositionUnrealizedPnl(pos[a].szi, pos[a].entryPx, D(p)))
        fires == lt(equity, MarginalMaintenance(Tiers[a], Size(pos[a].szi) * p))
        line == getClearinghouseState.liquidationPx[a]
    IN /\ (assessIsolated(a, p) # "healthy") = fires
       /\ (IF pos[a].szi > 0 THEN lt(D(p), line) ELSE gt(D(p), line)) = fires

\* The same, unit by unit, for the price of a fill: each lot costs the level
\* that supplies it, and what the levels within the limit cannot supply costs
\* the last level or the limit; the final clamp never changes the result.
LotPrice(levels, isBuy, limit, k) ==
  LET before(i) == SumFunctionOnSet([j \in DOMAIN levels |-> levels[j].sz], 1..(i - 1))
      at == {i \in DOMAIN levels : /\ before(i) <= k /\ k < before(i) + levels[i].sz
                                   /\ ~Beyond(levels[i].px, isBuy, limit)}
  IN IF at = {} THEN Clamp(D(levels[Len(levels)].px), isBuy, limit) ELSE D(levels[Max(at)].px)

VwapIsLotByLot ==
  \A a \in Assets, isBuy \in BOOLEAN, sz \in Sizes, limit \in Prices \cup {None} :
    LET levels == IF isBuy THEN book[a].asks ELSE book[a].bids
    IN levels # <<>> /\ ~Beyond(levels[1].px, isBuy, limit) =>
         computeVwap(levels, sz, isBuy, limit, px[a])
           = div(Sum([k \in 0..(sz - 1) |-> LotPrice(levels, isBuy, limit, k)]), D(sz))

\* What the margin check of the filled order did not see: that something
\* changed since, a fill worse than the mid, a flip (which is not checked), the
\* profit of isolated positions (which it counts as free), and a leverage that
\* the tier the position ends in does not cover.
Unseen(f) ==
  LET a == f.asset IN
  \/ ~f.fresh
  \/ IF f.isBuy THEN gt(f.px, D(px[a])) ELSE lt(f.px, D(px[a]))
  \/ f.startPosition * pos[a].szi < 0
  \/ f.profit
  \/ gt(maintenanceMarginRateForNotional(Tiers[a], D(Size(pos[a].szi) * px[a])),
        div(D(1), D(setting[a].leverage)))

\* An order that passed the margin check, or a stop cut to what is affordable,
\* does not open the door to a liquidation: but for its fee, what was healthy
\* before the fill is healthy after it, with the exceptions that Unseen names.
FillKeepsHealthy ==
  fill # None => Unseen(fill) \/ Sick(add(balance, fill.fee)) \subseteq fill.sick
=============================================================================
