------------------------------ MODULE MCStaking ------------------------------
(* A small instance of Staking: one user and the sweep.                    *)
EXTENDS Staking, TLC

CONSTANT u1

MCAddrOf  == [q \in {} |-> None]
MCSettled == {{u1}}
MCResults == {-1}
=============================================================================
