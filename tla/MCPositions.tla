----------------------------- MODULE MCPositions -----------------------------
(* Small instances of Positions.                                           *)
EXTENDS Positions, TLC

\* Orders that open, add to, reduce, close and flip.
MCSizes   == {-3, 2}
MCResults == {-4, 1}

\* An asset the user does not trade starts with no position or with a long one.
MCInit == Init /\ \A a \in Assets \ Traded : executed[a] = 2 \/ (executed[a] = 0 /\ isCross[a])

MCSpec == MCInit /\ [][Next]_vars

CallSymmetry == Permutations(Calls)
=============================================================================
