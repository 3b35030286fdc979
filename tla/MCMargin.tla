------------------------------ MODULE MCMargin ------------------------------
(* Margin with two assets whose tables have two and three tiers.           *)
EXTENDS Margin, TLC

CONSTANTS x, y

Tier(bound, lev) == [lowerBound |-> bound, maxLeverage |-> lev]
MCTiers == (x :> <<Tier(0, 4), Tier(4, 2)>>) @@ (y :> <<Tier(0, 4), Tier(2, 3), Tier(5, 2)>>)

Lev(n, cross) == [leverage |-> n, isCross |-> cross]
MCSettings == {[a \in {x, y} |-> IF a = x THEN Lev(3, TRUE) ELSE Lev(4, FALSE)],
               [a \in {x, y} |-> IF a = x THEN Lev(2, TRUE) ELSE Lev(4, TRUE)]}

Level(p, n) == [px |-> p, sz |-> n]
DeepAsks == [bids |-> <<>>, asks |-> <<Level(2, 1), Level(4, 1)>>]
DeepBids == [bids |-> <<Level(2, 1), Level(1, 1)>>, asks |-> <<Level(3, 1)>>]
MCBooks == {DeepAsks, DeepBids}
MCOpeningBook == (x :> DeepAsks) @@ (y :> DeepBids)
Symmetry == Permutations(Calls)
MCFeeRate == <<1, 16>>
=============================================================================
