------------------------------ MODULE Transfers ------------------------------
(***************************************************************************)
(* The balance buckets of user:<u>:account and everyone who moves money    *)
(* between them outside the user lock: the transfers of                    *)
(* engine/transfers.ts, the sub-account and vault actions of               *)
(* engine/subaccount.ts, the first-touch seeding of                        *)
(* api/middleware/auth.ts, setBalance and resetAccount of                  *)
(* api/routes/hypaper.ts, beside the fills that increment the same field.  *)
(*                                                                         *)
(* Every one of them reads a balance, computes, and writes the result back *)
(* in a later command, with six decimals.  A call is a plan (what is read, *)
(* what is written) that the steps below carry out, one Redis command or   *)
(* pipeline a step.                                                        *)
(*                                                                         *)
(* A session stands for one user's client, which waits for its answer.     *)
(* Sub-account names are compared by the master's own calls only, so the   *)
(* loop that reads them is one step.                                       *)
(***************************************************************************)
EXTENDS Integers, Sequences, FiniteSets

CONSTANTS
  Users,     \* wallets that sign requests; each is a session
  Subs,      \* addresses that sub-accounts get
  Names,     \* names of sub-accounts
  AddrOf,    \* the address derived from a master and a name it uses
  Missing,   \* a hash field that is not there
  None,      \* no account, no name
  Default,   \* DEFAULT_BALANCE
  Amounts,   \* amounts sent
  Results,   \* what a fill may add to or take from the balance
  Payouts,   \* what a completed withdrawal from staking may add
  Levels,    \* balances an administrator sets
  Grain,     \* the sixth decimal, in the unit balances are counted in
  Settled,   \* bound: the sets of wallets that may have accounts at the start
  Traders,   \* bound: the accounts that trade
  Peers,     \* bound: the addresses that sends name
  MaxCalls,  \* bound: requests in a behaviour
  MaxFills   \* bound: fills in a behaviour

Accounts == Users \cup Subs

(* The native perp balance, the spot balance, the balance on the one       *)
(* builder dex, and the equity in the one vault, which has its own hash.   *)
Fields == {"perp", "spot", "dex", "vault"}
Buckets == Accounts \X Fields

ASSUME TransfersAssumption ==
  /\ DOMAIN AddrOf \subseteq Users \X Names /\ AddrOf \in [DOMAIN AddrOf -> Subs]
  /\ Missing \notin Int /\ None \notin Accounts /\ None \notin Names
  /\ Users \cap Subs = {} /\ Peers \subseteq Accounts /\ Traders \subseteq Accounts
  /\ Settled \subseteq SUBSET Users
  /\ Default \in Nat \ {0} /\ Amounts \subseteq Nat \ {0}
  /\ Results \subseteq Int /\ Payouts \subseteq Nat /\ Levels \subseteq Nat
  /\ Default \in Levels
  /\ Grain \in Nat \ {0} /\ MaxCalls \in Nat /\ MaxFills \in Nat

VARIABLES
  hash,     \* the balance fields of each account
  seeded,   \* accounts with the marker seeded:<dex>
  listed,   \* market:perpdexs names the builder dex
  owner,    \* subaccount:<a>:master
  label,    \* the name in subaccount:<a>:meta
  deposits, \* the sum of each account's ledger rows (getNetDepositsPg)
  call,     \* the request each session is carrying out
  calls,    \* requests so far
  fills     \* fills so far

moneyVars == <<hash, seeded, listed>>
subVars   == <<owner, label>>
vars == <<moneyVars, subVars, deposits, call, calls, fills>>

-----------------------------------------------------------------------------
(* What a request reads and writes.                                        *)

\* A move of amt from bucket src to bucket dst (None: the money leaves).
\* reads: the buckets in the order they are read; sure: the credit is made
\* even when the account is not known; sub: the sub-account whose master is
\* looked up first; rows: ledger rows are written for both sides.
Move(src, dst, amt, reads, sure, sub, rows) ==
  [kind |-> "move", src |-> src, dst |-> dst, amt |-> amt, reads |-> reads,
   sure |-> sure, sub |-> sub, rows |-> rows]

Simple(k, n, sub) ==
  [kind |-> k, src |-> None, dst |-> None, amt |-> n, reads |-> <<>>,
   sure |-> FALSE, sub |-> sub, rows |-> FALSE]

SrcDst == << {"src"}, {"dst"} >>

\* usdClassTransfer without the suffix reads both books at once.
usdClassTransfer(u, amt, toPerp) ==
  LET from == IF toPerp THEN "spot" ELSE "perp"
      to   == IF toPerp THEN "perp" ELSE "spot"
  IN Move(<<u, from>>, <<u, to>>, amt, << {"src", "dst"} >>, TRUE, None, FALSE)

\* usdClassTransfer with the suffix " subaccount:<a>".
usdClassTransferSub(u, a, amt, toPerp) ==
  Move(<<IF toPerp THEN a ELSE u, "perp">>, <<IF toPerp THEN u ELSE a, "perp">>,
       amt, SrcDst, TRUE, None, FALSE)

usdSend(u, d, amt) == Move(<<u, "perp">>, <<d, "perp">>, amt, SrcDst, FALSE, None, FALSE)

\* spotSend of USDC; other tokens are acknowledged only.
spotSend(u, d, amt) == Move(<<u, "spot">>, <<d, "spot">>, amt, SrcDst, FALSE, None, FALSE)

\* sendAsset and agentSendAsset: from a sub-account when from is one, to the
\* EVM when df is None.  A send to one's own address is always credited.
sendAsset(u, d, sf, df, amt, from) ==
  LET payer == IF from = None THEN u ELSE from
  IN IF df = None
     THEN Move(<<payer, sf>>, None, amt, << {"src"} >>, FALSE, None, FALSE)
     ELSE Move(<<payer, sf>>, <<d, df>>, amt, SrcDst, d = u, None, FALSE)

\* "Invalid send": to oneself, same book, whoever pays.
sendAssetAccepts(u, d, sf, df) == ~(d = u /\ sf = df)

sendToEvmWithData(u, amt) == Move(<<u, "perp">>, None, amt, << {"src"} >>, FALSE, None, FALSE)

subAccountTransfer(m, a, amt, isDeposit) ==
  Move(<<IF isDeposit THEN m ELSE a, "perp">>, <<IF isDeposit THEN a ELSE m, "perp">>,
       amt, SrcDst, TRUE, a, TRUE)

\* The spot variant only checks the master.
subAccountSpotTransfer(a) == Simple("ack", 0, a)

\* The balance is read before the equity whichever way the money goes.
vaultTransfer(u, amt, isDeposit) ==
  IF isDeposit
  THEN Move(<<u, "perp">>, <<u, "vault">>, amt, SrcDst, TRUE, None, FALSE)
  ELSE Move(<<u, "vault">>, <<u, "perp">>, amt, << {"dst"}, {"src"} >>, TRUE, None, FALSE)

Books == Fields \ {"vault"}

-----------------------------------------------------------------------------
Balance(v) == IF v = Missing THEN 0 ELSE v
At(b) == hash[b[1]][b[2]]

\* EXISTS user:<a>:account.
Known(a) == \E f \in Books : hash[a][f] # Missing

\* seed: what the first touch writes, None when the account was there.
Idle == [stage |-> "idle", plan |-> Simple("none", 0, None), who |-> None,
         todo |-> <<>>, src |-> 0, dst |-> Missing, seed |-> None]

\* With one decimal less.
ToFixedCoarse(n) == {m \in (n - Grain)..(n + Grain) : m % (2 * Grain) = 0}

\* (n).toFixed(6): the nearest grain. A tie goes by the float's own error,
\* so either way.
ToFixed(n) == {m \in (n - Grain \div 2)..(n + Grain \div 2) : m % Grain = 0}

NewAccount(n) == [f \in Fields |-> IF f = "perp" THEN n ELSE IF f = "spot" THEN 0 ELSE Missing]
NoAccount == [f \in Fields |-> Missing]

\* Some wallets have been here before, some sub-accounts exist, and the dex
\* may be deployed already.
Init ==
  /\ listed \in BOOLEAN
  /\ \E old \in Settled :
       \E kids \in {k \in SUBSET (DOMAIN AddrOf) : \A q \in k : q[1] \in old} :
       /\ owner = [a \in Accounts |->
                     IF \E q \in kids : AddrOf[q] = a
                     THEN (CHOOSE q \in kids : AddrOf[q] = a)[1] ELSE None]
       /\ label = [a \in Accounts |->
                     IF \E q \in kids : AddrOf[q] = a
                     THEN (CHOOSE q \in kids : AddrOf[q] = a)[2] ELSE None]
       /\ hash = [a \in Accounts |->
                    IF a \in old THEN NewAccount(Default)
                    ELSE IF owner[a] # None THEN NewAccount(0) ELSE NoAccount]
       /\ deposits = [a \in Accounts |-> IF a \in old THEN Default ELSE 0]
  /\ seeded = {}
  /\ call = [u \in Users |-> Idle]
  /\ calls = 0 /\ fills = 0

-----------------------------------------------------------------------------
Become(u, c) == call' = [call EXCEPT ![u] = c]
Goto(u, s) == Become(u, [call[u] EXCEPT !.stage = s])
Return(u) == Become(u, Idle)

Rest == UNCHANGED <<calls, fills>>

\* A request of u, or a query of u's client about the address who, arrives:
\* the account is ensured first.
Begin(u, who) ==
  /\ call[u] = Idle /\ calls < MaxCalls
  /\ calls' = calls + 1
  /\ Become(u, [Idle EXCEPT !.stage = "exists", !.who = who])
  /\ UNCHANGED <<moneyVars, subVars, deposits, fills>>

\* The first stage of each kind of request.
Entry == [move |-> "read", create |-> "names", rename |-> "names", setBalance |-> "prev",
          reset |-> "put", ack |-> "done"]

\* The wallet has its account: what it asked for is carried out.
Serve(u, p) ==
  /\ Become(u, [call[u] EXCEPT !.plan = p, !.todo = p.reads,
                  !.stage = IF p.sub # None THEN "owner" ELSE Entry[p.kind]])
  /\ UNCHANGED <<moneyVars, subVars, deposits>> /\ Rest

\* The switch of the exchange route, for the actions that move money, and the
\* two administrator's requests.
Dispatch(u) ==
  /\ call[u].stage = "ready" /\ call[u].who = u
  /\ \/ \E n \in Amounts :
          \/ \E p \in BOOLEAN : Serve(u, usdClassTransfer(u, n, p))
          \/ \E a \in Peers, p \in BOOLEAN : Serve(u, usdClassTransferSub(u, a, n, p))
          \/ \E d \in Peers : Serve(u, usdSend(u, d, n))
          \/ \E d \in Peers : Serve(u, spotSend(u, d, n))
          \/ \E d \in Peers, sf \in Books, df \in Books \cup {None},
                from \in (Subs \cap Peers) \cup {None} :
               /\ sendAssetAccepts(u, d, sf, df)
               /\ Serve(u, sendAsset(u, d, sf, df, n, from))
          \/ Serve(u, sendToEvmWithData(u, n))
          \/ \E a \in Subs \cap Peers, d \in BOOLEAN : Serve(u, subAccountTransfer(u, a, n, d))
          \/ \E d \in BOOLEAN : Serve(u, vaultTransfer(u, n, d))
     \/ \E a \in Subs \cap Peers : Serve(u, subAccountSpotTransfer(a))
     \/ \E n \in {m \in Names : <<u, m>> \in DOMAIN AddrOf} : Serve(u, Simple("create", n, None))
     \/ \E n \in Names, a \in Subs : Serve(u, Simple("rename", n, a))
     \/ \E n \in Levels : Serve(u, Simple("setBalance", n, None))
     \/ Serve(u, Simple("reset", Default, None))

\* ensureAccount, one command at a time.
EnsureExists(u) ==
  /\ call[u].stage = "exists"
  /\ Goto(u, IF Known(call[u].who) THEN "mirror" ELSE "pointer")
  /\ UNCHANGED <<moneyVars, subVars, deposits>> /\ Rest

EnsurePointer(u) ==
  /\ call[u].stage = "pointer"
  /\ Become(u, [call[u] EXCEPT !.stage = "seed",
                  !.seed = IF owner[call[u].who] # None THEN 0 ELSE Default])
  /\ UNCHANGED <<moneyVars, subVars, deposits>> /\ Rest

EnsureSeed(u) ==
  LET a == call[u].who IN
  /\ call[u].stage = "seed"
  /\ hash' = [hash EXCEPT ![a] = [@ EXCEPT !["perp"] = call[u].seed, !["spot"] = 0]]
  /\ Goto(u, "mirror")
  /\ UNCHANGED <<seeded, listed, subVars, deposits>> /\ Rest

\* The user row is written, and for a wallet's first touch its deposit row;
\* then the marker of the dex is read.
EnsureMirror(u) ==
  LET c == call[u] IN
  /\ c.stage = "mirror"
  /\ deposits' = IF c.seed = Default
                 THEN [deposits EXCEPT ![c.who] = @ + Default] ELSE deposits
  /\ Become(u, [c EXCEPT !.seed = None,
                  !.stage = IF listed /\ c.who \notin seeded THEN "dexSeed" ELSE "ready"])
  /\ UNCHANGED <<moneyVars, subVars>> /\ Rest

EnsureDexSeed(u) ==
  LET a == call[u].who IN
  /\ call[u].stage = "dexSeed"
  /\ hash' = [hash EXCEPT ![a] = [@ EXCEPT !["dex"] = 0]]
  /\ seeded' = seeded \cup {a}
  /\ Goto(u, "ready")
  /\ UNCHANGED <<listed, subVars, deposits>> /\ Rest

\* The sub-account must be the caller's.
CheckOwner(u) ==
  LET p == call[u].plan IN
  /\ call[u].stage = "owner"
  /\ IF owner[p.sub] # u THEN Return(u)
     ELSE Goto(u, Entry[p.kind])
  /\ UNCHANGED <<moneyVars, subVars, deposits>> /\ Rest

ReadBalancesBlind(u) ==
  LET c == call[u]
      r == Head(c.todo)
  IN /\ c.stage = "read"
     /\ Become(u, [c EXCEPT !.todo = Tail(@),
                     !.src = IF "src" \in r THEN Balance(At(c.plan.src)) ELSE @,
                     !.dst = IF "dst" \in r THEN At(c.plan.dst) ELSE @,
                     !.stage = IF Tail(c.todo) = <<>> THEN "commit" ELSE "read"])
     /\ UNCHANGED <<moneyVars, subVars, deposits>> /\ Rest

\* One HGETALL of a move; the source's must cover the amount.
ReadBalances(u) ==
  LET c == call[u]
      r == Head(c.todo)
      got == [c EXCEPT !.todo = Tail(@),
                !.src = IF "src" \in r THEN Balance(At(c.plan.src)) ELSE @,
                !.dst = IF "dst" \in r THEN At(c.plan.dst) ELSE @]
  IN /\ c.stage = "read"
     /\ IF "src" \in r /\ got.src < c.plan.amt THEN Return(u)
        ELSE Become(u, [got EXCEPT !.stage = IF got.todo = <<>> THEN "commit" ELSE "read"])
     /\ UNCHANGED <<moneyVars, subVars, deposits>> /\ Rest

\* Is the recipient of a move credited?
Credits(c) == c.plan.dst # None /\ (c.plan.sure \/ c.dst # Missing)

\* The pipeline: the source's new balance, then the recipient's, each
\* rounded whole.
Commit(u) ==
  LET c == call[u]
      p == c.plan
  IN /\ c.stage = "commit"
     /\ \E x \in ToFixed(c.src - p.amt) :
          LET debited == [hash EXCEPT ![p.src[1]][p.src[2]] = x] IN
          IF Credits(c)
          THEN \E y \in ToFixed(Balance(c.dst) + p.amt) :
                 hash' = [debited EXCEPT ![p.dst[1]][p.dst[2]] = y]
          ELSE hash' = debited
     /\ IF p.rows THEN Goto(u, "rows") ELSE Return(u)
     /\ UNCHANGED <<seeded, listed, subVars, deposits>> /\ Rest

\* The ledger rows of a sub-account transfer.
RecordRows(u) ==
  LET p == call[u].plan IN
  /\ call[u].stage = "rows"
  /\ \E n \in ToFixed(p.amt) :
       deposits' = [deposits EXCEPT ![p.src[1]] = @ - n, ![p.dst[1]] = @ + n]
  /\ Return(u)
  /\ UNCHANGED <<moneyVars, subVars>> /\ Rest

\* createSubAccount and subAccountModify look for a sibling of that name.
getSubAccounts(m) == {a \in Accounts : owner[a] = m}
NameTaken(m, n, but) == \E a \in getSubAccounts(m) \ {but} : label[a] = n

CheckNames(u) ==
  LET p == call[u].plan IN
  /\ call[u].stage = "names"
  /\ IF NameTaken(u, p.amt, p.sub) THEN Return(u) ELSE Goto(u, "register")
  /\ UNCHANGED <<moneyVars, subVars, deposits>> /\ Rest

\* A new sub-account is registered, then its own account is ensured; a
\* rename changes the label.
Register(u) ==
  LET p == call[u].plan
      a == IF p.kind = "rename" THEN p.sub ELSE AddrOf[<<u, p.amt>>]
  IN /\ call[u].stage = "register"
     /\ label' = [label EXCEPT ![a] = p.amt]
     /\ IF p.kind = "rename"
        THEN owner' = owner /\ Return(u)
        ELSE /\ owner' = [owner EXCEPT ![a] = u]
             /\ Become(u, [Idle EXCEPT !.stage = "exists", !.who = a,
                                       !.plan = Simple("created", 0, None)])
     /\ UNCHANGED <<moneyVars, deposits>> /\ Rest

\* setBalance reads the previous balance for its ledger row.
ReadPrevious(u) ==
  /\ call[u].stage = "prev"
  /\ Become(u, [call[u] EXCEPT !.stage = "put", !.src = Balance(hash[u]["perp"])])
  /\ UNCHANGED <<moneyVars, subVars, deposits>> /\ Rest

\* The balance that setBalance writes, with its row, and resetAccount, without.
PutBalance(u) ==
  LET c == call[u] IN
  /\ c.stage = "put"
  /\ hash' = [hash EXCEPT ![u]["perp"] = c.plan.amt]
  /\ deposits' = IF c.plan.kind = "setBalance"
                 THEN [deposits EXCEPT ![u] = @ + c.plan.amt - c.src] ELSE deposits
  /\ Return(u)
  /\ UNCHANGED <<seeded, listed, subVars>> /\ Rest

\* Also the end of a query, and of createSubAccount.
Answer(u) ==
  /\ call[u].stage \in {"done", "ready"}
  /\ Return(u)
  /\ UNCHANGED <<moneyVars, subVars, deposits>> /\ Rest

\* A fill, a liquidation or funding: HINCRBYFLOAT on the native balance.
Fill(a, n) ==
  /\ fills < MaxFills /\ hash[a]["perp"] # Missing
  /\ fills' = fills + 1
  /\ hash' = [hash EXCEPT ![a]["perp"] = @ + n]
  /\ UNCHANGED <<seeded, listed, subVars, deposits, call, calls>>

\* The worker learns of the builder dex.
ListDex ==
  /\ ~listed /\ listed' = TRUE
  /\ UNCHANGED <<hash, seeded, subVars, deposits, call, calls, fills>>

Step(u) ==
  \/ EnsureExists(u) \/ EnsurePointer(u) \/ EnsureSeed(u) \/ EnsureMirror(u) \/ EnsureDexSeed(u)
  \/ CheckOwner(u) \/ ReadBalances(u) \/ Commit(u) \/ RecordRows(u)
  \/ CheckNames(u) \/ Register(u) \/ ReadPrevious(u) \/ PutBalance(u) \/ Answer(u)

Next ==
  \/ \E u \in Users : (\E a \in Peers : Begin(u, a)) \/ Dispatch(u) \/ Step(u)
  \/ \E a \in Traders, n \in Results : Fill(a, n)
  \/ ListDex

Spec == Init /\ [][Next]_vars

-----------------------------------------------------------------------------
(* Properties.                                                             *)

\* What the buckets hold, as the abstract ledger sees them.
Funds == [b \in Buckets |-> Balance(At(b))]

Ledger == INSTANCE AtomicLedger WITH funds <- Funds

\* u's commit writes over a balance that changed since it was read.
LostUpdate(u) ==
  LET c == call[u] IN
  /\ c.stage = "commit" /\ call'[u] # c
  /\ \/ Funds[c.plan.src] # c.src
     \/ Credits(c) /\ Funds[c.plan.dst] # Balance(c.dst)

\* u's commit credits the bucket it debits: both were read before either is
\* written, and the credit is written last.
SelfCredit(u) ==
  /\ call[u].stage = "commit" /\ call'[u] # call[u]
  /\ call[u].plan.src = call[u].plan.dst

\* u's ensureAccount seeds fields that hold money already: the account did
\* not exist, or the dex was not marked, when it looked.
Reseed(u) ==
  LET a == call[u].who IN
  /\ call'[u] # call[u]
  /\ \/ call[u].stage = "seed" /\ (Funds[<<a, "perp">>] # 0 \/ Funds[<<a, "spot">>] # 0)
     \/ call[u].stage = "dexSeed" /\ Funds[<<a, "dex">>] # 0

\* Every change of a balance is one atomic step of the ledger, whatever the
\* requests of the users and the fills between the commands of each request,
\* but for three things the code lets happen: a transfer writes over a change
\* it did not see, a send to its own source mints the amount, and seeding
\* wipes money that was sent first.
ImplementsLedger ==
  [][\/ UNCHANGED hash
     \/ \E u \in Users : LostUpdate(u) \/ SelfCredit(u) \/ Reseed(u)
     \/ Ledger!Next]_Funds

\* auth.ts: the marker blocks initialising a dex balance again "after the
\* field exists (a later balance would otherwise be clobbered)".
DexSeedKeepsMoney ==
  [][\A u \in Users : call[u].stage = "dexSeed" /\ call'[u] # call[u]
                        => Funds[<<call[u].who, "dex">>] = 0]_vars

\* transfers.ts: "Self-transfer to the SAME bucket is a no-op".
SelfSendIsNoOp ==
  [][\A u \in Users : SelfCredit(u) => Funds' = Funds]_vars
=============================================================================
