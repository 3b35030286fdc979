----------------------------- MODULE AtomicLedger -----------------------------
(***************************************************************************)
(* What balances promise: money moves between two buckets in one step, is  *)
(* spent when it is there, and enters only as an account's first deposit,  *)
(* as the result of a trade, as a completed withdrawal from staking or     *)
(* when an administrator sets a balance.  A balance is kept with so many   *)
(* decimals: what a transfer, a send or a completed withdrawal leaves in a *)
(* bucket may be off by half a unit of the last one, and by no more.       *)
(***************************************************************************)
EXTENDS Integers

CONSTANTS Accounts, Fields, Amounts, Results, Payouts, Levels, Default, Grain

VARIABLE funds  \* what each field of each account holds

Buckets == Accounts \X Fields

Put(b, n) == [funds EXCEPT ![b] = n]

\* What n may be kept as.
Near(n) == (n - Grain \div 2)..(n + Grain \div 2)

Transfer(b, c, n) ==
  /\ b # c /\ funds[b] >= n
  /\ funds'[b] \in Near(funds[b] - n) /\ funds'[c] \in Near(funds[c] + n)
  /\ funds' = [funds EXCEPT ![b] = funds'[b], ![c] = funds'[c]]

Spend(b, n) ==
  /\ funds[b] >= n /\ funds'[b] \in Near(funds[b] - n)
  /\ funds' = Put(b, funds'[b])

Open(a) == funds[<<a, "perp">>] = 0 /\ funds' = Put(<<a, "perp">>, Default)

Earn(a, n) == funds' = Put(<<a, "perp">>, funds[<<a, "perp">>] + n)

PayOut(a, n) ==
  LET b == <<a, "perp">> IN
  funds'[b] \in Near(funds[b] + n) /\ funds' = Put(b, funds'[b])

Set(a, n) == funds' = Put(<<a, "perp">>, n)

Next ==
  \/ \E b, c \in Buckets, n \in Amounts : Transfer(b, c, n)
  \/ \E b \in Buckets, n \in Amounts : Spend(b, n)
  \/ \E a \in Accounts : Open(a)
  \/ \E a \in Accounts, n \in Results : Earn(a, n)
  \/ \E a \in Accounts, n \in Payouts : PayOut(a, n)
  \/ \E a \in Accounts, n \in Levels : Set(a, n)
===============================================================================
