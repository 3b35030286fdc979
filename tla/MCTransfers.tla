----------------------------- MODULE MCTransfers -----------------------------
(* A small instance of Transfers.                                          *)
EXTENDS Transfers, TLC

CONSTANTS u1, s1, s2, na, nb

\* One user has sub-accounts; sends name the users and one of them.
MCAddrOf  == (<<u1, na>> :> s1) @@ (<<u1, nb>> :> s2)
MCPeers   == Users \cup {s1}
MCSettled == {{u1}}
MCResults == {-1}
=============================================================================
