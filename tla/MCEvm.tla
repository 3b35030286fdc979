-------------------------------- MODULE MCEvm --------------------------------
(* A small instance of Evm: two wallets, one market, overlapping publishes, *)
(* deletes and burns.                                                       *)
EXTENDS Evm, TLC

CONSTANTS w1, w2, m1, s1, s2

Call(w, fn, token, uri) == [from |-> w, fn |-> fn, market |-> m1, token |-> token, uri |-> uri]

MCRaw == { Call(w1, "publish", 0, 1), Call(w1, "publish", 0, 2), Call(w2, "publish", 0, 1),
           Call(w1, "deleteForMarket", 0, 0), Call(w1, "burn", 1, 0), Call(w2, "burn", 1, 0) }
Symmetry == Permutations(Slots)
=============================================================================
