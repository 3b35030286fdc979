------------------------------- MODULE MCTwap -------------------------------
EXTENDS Twap, TLC

\* A buy at a fixed distance, a reduce-only sell that may have to wait, and a
\* distance beyond its reference.
MCWires == { [isBuy |-> TRUE, kind |-> "px", value |-> 3, act |-> None, sz |-> 2, ro |-> FALSE],
             [isBuy |-> FALSE, kind |-> "pct", value |-> 10, act |-> 21, sz |-> 2, ro |-> TRUE],
             [isBuy |-> FALSE, kind |-> "px", value |-> 60, act |-> None, sz |-> 1, ro |-> TRUE] }
MCTrades == { [buy |-> TRUE, sz |-> 1, ro |-> FALSE], [buy |-> FALSE, sz |-> 1, ro |-> TRUE] }
MCOrders == { [buy |-> FALSE, ro |-> FALSE, total |-> 2, slices |-> 2],
              [buy |-> FALSE, ro |-> TRUE, total |-> 3, slices |-> 2] }
Symmetry == Permutations(Stops)
=============================================================================
