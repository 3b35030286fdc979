----------------------------- MODULE MCOrderBook -----------------------------
(* OrderBook on small instances. *)
EXTENDS OrderBook, TLC

limit == [kind |-> "limit", reduceOnly |-> FALSE]
exit  == [kind |-> "trigger", reduceOnly |-> TRUE]

\* Legs on an existing position, and an entry that expires with its legs.  A
\* refused wire makes a smaller batch of either, a single order included.
tpsl      == [grouping |-> "positionTpsl", wires |-> <<exit, exit>>, expires |-> FALSE]
bracketed == [grouping |-> "normalTpsl", wires |-> <<limit, exit, exit>>, expires |-> TRUE]

MCBatches == {tpsl, bracketed}
LastingBatches == {tpsl, [bracketed EXCEPT !.expires = FALSE]}
MCReplacements == {limit, exit}

Symmetry == Permutations(Passes) \cup Permutations(Reqs)
=============================================================================
