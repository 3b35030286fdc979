------------------------------- MODULE Staking -------------------------------
(***************************************************************************)
(* Staking (engine/staking.ts) beside the transfers: the staking balance,  *)
(* delegations with their lock-up, the queue of withdrawals, the list of   *)
(* staking events, and the worker that sweeps the queue into the account's *)
(* balance (worker/index.ts).                                              *)
(*                                                                         *)
(* Nothing here takes the user lock. A client need not wait for an answer: *)
(* once its account is ensured, a staking request goes on by itself, in a  *)
(* slot of ask, beside other requests of the same user, each reading the   *)
(* staking balance in one command and writing it in another, and the sweep *)
(* does the same to the account's balance.  The process may stop between   *)
(* two commands.                                                           *)
(*                                                                         *)
(* Balances and stakes are counted in wei, Grain of which make the sixth   *)
(* decimal.  A sweep ends before the next, a minute later, begins.         *)
(***************************************************************************)
EXTENDS Transfers, FiniteSetsExt

CONSTANTS
  Weis,        \* amounts staked
  Validators,
  Stakers,     \* bound: the users who stake
  Requests,    \* bound: staking requests carried out at once
  Lock,        \* ONE_DAY_MS, in ticks
  QueueTime,   \* SEVEN_DAYS_MS, in ticks
  MaxEvents,   \* events a list keeps (200)
  MaxCrashes   \* bound on restarts

ASSUME StakingAssumption ==
  /\ Weis \subseteq Nat \ {0} /\ Weis \subseteq Payouts
  /\ Stakers \subseteq Users /\ IsFiniteSet(Requests)
  /\ Lock \in Nat /\ QueueTime \in Nat /\ MaxEvents \in Nat \ {0} /\ MaxCrashes \in Nat

VARIABLES
  now,      \* the clock
  staked,   \* user:<u>:staking_balance
  deleg,    \* user:<u>:delegations
  queue,    \* user:<u>:staking_queue
  events,   \* user:<u>:staking_events, each numbered in the order of arrival
  pushed,   \* history variable: how many events were pushed
  ask,      \* the staking requests being carried out
  sweep,    \* the sweep of the staking worker
  slips,    \* history variable: what went wrong with u's stake
  crashes   \* restarts so far

books == <<staked, deleg, queue>>
logs == <<events, pushed>>
stakeVars == <<now, books, logs, ask, sweep, slips, crashes>>
allVars == <<vars, stakeVars>>

NoAsk == [stage |-> "idle", who |-> None, kind |-> None, wei |-> 0, validator |-> None,
          bal |-> 0, at |-> 0, old |-> None]

SweepIdle == [stage |-> "idle", who |-> None, ready |-> {}, entry |-> None, bal |-> 0]

Event(n, t, wei) == [number |-> n, type |-> t, wei |-> wei]

\* What users may have done before: nothing, a deposit, or a deposit and a
\* delegation of it that is no longer locked.
Pasts ==
  LET deposited == Event(1, "cDeposit", 2) IN
  {[free |-> 0, deleg |-> {}, events |-> {}, pushed |-> 0],
   [free |-> 2, deleg |-> {}, events |-> {deposited}, pushed |-> 1]}
  \cup {[free |-> 0, deleg |-> {[validator |-> v, wei |-> 2, until |-> 0, at |-> 0]},
         events |-> {deposited, Event(2, "delegate", 2)}, pushed |-> 2] : v \in Validators}

StakingInit ==
  /\ Init
  /\ now = 0
  /\ \E past \in [Users -> Pasts] :
       /\ \A u \in Users : past[u].pushed > 0 => u \in Stakers /\ Known(u)
       /\ staked = [u \in Users |-> past[u].free] /\ deleg = [u \in Users |-> past[u].deleg]
       /\ events = [u \in Users |-> past[u].events] /\ pushed = [u \in Users |-> past[u].pushed]
  /\ queue = [u \in Users |-> {}]
  /\ ask = [r \in Requests |-> NoAsk]
  /\ sweep = SweepIdle
  /\ slips = [u \in Users |-> {}] /\ crashes = 0

-----------------------------------------------------------------------------
(* The requests.                                                           *)

Ask(r, a) == ask' = [ask EXCEPT ![r] = a]
Done(r) == Ask(r, NoAsk)

\* What goes wrong now with u's stake.
Slip(u, s) == slips' = [slips EXCEPT ![u] = @ \cup s]

Beside == UNCHANGED <<vars, now, crashes>>

\* A staking request starts once the account is ensured; its client may send
\* the next.
StakeDispatch(u, r) ==
  /\ call[u].stage = "ready" /\ call[u].who = u /\ u \in Stakers /\ ask[r] = NoAsk
  /\ Return(u)
  /\ \E wei \in Weis, kind \in {"cDeposit", "cWithdraw", "delegate", "undelegate"},
        v \in Validators :
       Ask(r, [NoAsk EXCEPT !.stage = IF kind = "undelegate" THEN "find" ELSE "read",
                            !.who = u, !.kind = kind, !.wei = wei, !.validator = v])
  /\ UNCHANGED <<moneyVars, subVars, deposits, now, books, logs, sweep, slips, crashes>> /\ Rest

\* cDeposit, cWithdraw and delegating read the staking balance and the clock;
\* the last two need the balance to cover the amount.
ReadStake(r) ==
  LET a == ask[r] IN
  /\ a.stage = "read"
  /\ IF a.kind # "cDeposit" /\ staked[a.who] < a.wei THEN Done(r)
     ELSE Ask(r, [a EXCEPT !.stage = "write", !.bal = staked[a.who], !.at = now])
  /\ UNCHANGED <<books, logs, sweep, slips>> /\ Beside

Withdrawal(a) == [wei |-> a.wei, unlock |-> a.at + QueueTime, at |-> a.at]
Delegation(a) == [validator |-> a.validator, wei |-> a.wei, until |-> a.at + Lock, at |-> a.at]

\* A member of a sorted set is its text: an equal one is not added again.
Overwritten(a) == IF staked[a.who] = a.bal THEN {} ELSE {"overwrite"}
Twin(e, set) == IF e \in set THEN {"twin"} ELSE {}

\* The balance is written and, in the same pipeline, the queue or the
\* delegations.
WriteStake(r) ==
  LET a == ask[r]
      u == a.who
      w == Withdrawal(a)
      d == Delegation(a)
  IN /\ a.stage = "write" /\ a.kind # "undelegate"
     /\ staked' = [staked EXCEPT ![u] = IF a.kind = "cDeposit" THEN a.bal + a.wei ELSE a.bal - a.wei]
     /\ queue' = [queue EXCEPT ![u] = @ \cup (IF a.kind = "cWithdraw" THEN {w} ELSE {})]
     /\ deleg' = [deleg EXCEPT ![u] = @ \cup (IF a.kind = "delegate" THEN {d} ELSE {})]
     /\ Slip(u, Overwritten(a)
                \cup (IF a.kind = "cWithdraw" THEN Twin(w, queue[u]) ELSE {})
                \cup (IF a.kind = "delegate" THEN Twin(d, deleg[u]) ELSE {}))
     /\ Ask(r, [a EXCEPT !.stage = "log"])
     /\ UNCHANGED <<logs, sweep>> /\ Beside

\* Undelegating takes the first delegation to the validator, by lock time,
\* that is large enough, and answers an error while that one is locked.
FindDelegation(r) ==
  LET a == ask[r]
      ds == {d \in deleg[a.who] : d.validator = a.validator /\ d.wei >= a.wei}
  IN /\ a.stage = "find"
     /\ \/ ds = {} /\ Done(r)
        \/ \E d \in ds :
             /\ \A e \in ds : d.until <= e.until
             /\ IF now < d.until THEN Done(r)
                ELSE Ask(r, [a EXCEPT !.stage = "restake", !.old = d])
     /\ UNCHANGED <<books, logs, sweep, slips>> /\ Beside

ReadRestake(r) ==
  LET a == ask[r] IN
  /\ a.stage = "restake"
  /\ Ask(r, [a EXCEPT !.stage = "write", !.bal = staked[a.who]])
  /\ UNCHANGED <<books, logs, sweep, slips>> /\ Beside

\* What is left of the delegation goes back with its old times, whether or
\* not the delegation was still there.
Remainder(a) == IF a.old.wei > a.wei THEN {[a.old EXCEPT !.wei = @ - a.wei]} ELSE {}

Undelegate(r) ==
  LET a == ask[r]
      u == a.who
  IN /\ a.stage = "write" /\ a.kind = "undelegate"
     /\ deleg' = [deleg EXCEPT ![u] = (@ \ {a.old}) \cup Remainder(a)]
     /\ staked' = [staked EXCEPT ![u] = a.bal + a.wei]
     /\ Slip(u, Overwritten(a)
                \cup (IF a.old \in deleg[u] THEN {} ELSE {"gone"})
                \cup UNION {Twin(e, deleg[u]) : e \in Remainder(a)})
     /\ Ask(r, [a EXCEPT !.stage = "log"])
     /\ UNCHANGED <<queue, logs, sweep>> /\ Beside

\* appendStakingEvent: LPUSH, then LTRIM to the last MaxEvents.
Push(u, t, wei) ==
  /\ pushed' = [pushed EXCEPT ![u] = @ + 1]
  /\ events' = [events EXCEPT ![u] = @ \cup {Event(pushed[u] + 1, t, wei)}]

Kept(u) == {e \in events[u] : e.number > pushed[u] - MaxEvents}

Trim(u) ==
  /\ events' = [events EXCEPT ![u] = Kept(u)]
  /\ Slip(u, IF Kept(u) = events[u] THEN {} ELSE {"trimmed"})
  /\ UNCHANGED pushed

AppendEvent(r) ==
  LET a == ask[r] IN
  /\ a.stage = "log"
  /\ Push(a.who, a.kind, a.wei)
  /\ Ask(r, [a EXCEPT !.stage = "trim"])
  /\ UNCHANGED <<books, sweep, slips>> /\ Beside

TrimEvents(r) ==
  /\ ask[r].stage = "trim"
  /\ Trim(ask[r].who)
  /\ Done(r)
  /\ UNCHANGED <<books, sweep>> /\ Beside

-----------------------------------------------------------------------------
(* sweepStakingQueue: for each queue, the entries whose time has come.     *)
SweepScan(u) ==
  LET due == {e \in queue[u] : e.unlock <= now} IN
  /\ sweep.stage = "idle" /\ due # {}
  /\ sweep' = [SweepIdle EXCEPT !.stage = "next", !.who = u, !.ready = due]
  /\ UNCHANGED <<books, logs, ask, slips>> /\ Beside

\* The last entry is left out.
SweepNextShort ==
  /\ sweep.stage = "next"
  /\ \/ Cardinality(sweep.ready) <= 1 /\ sweep' = SweepIdle
     \/ \E e \in sweep.ready :
          /\ Cardinality(sweep.ready) > 1
          /\ sweep' = [sweep EXCEPT !.stage = "pay", !.entry = e, !.ready = @ \ {e},
                                    !.bal = Balance(hash[sweep.who]["perp"])]
  /\ UNCHANGED <<books, logs, ask, slips>> /\ Beside

\* The next entry, by its time, and the balance it will be added to.
SweepNext ==
  /\ sweep.stage = "next"
  /\ \/ sweep.ready = {} /\ sweep' = SweepIdle
     \/ \E e \in sweep.ready :
          /\ \A x \in sweep.ready : e.unlock <= x.unlock
          /\ sweep' = [sweep EXCEPT !.stage = "pay", !.entry = e, !.ready = @ \ {e},
                                    !.bal = Balance(hash[sweep.who]["perp"])]
  /\ UNCHANGED <<books, logs, ask, slips>> /\ Beside

\* The entry stays in the queue.
SweepPayKeeps ==
  /\ sweep.stage = "pay"
  /\ hash' = [hash EXCEPT ![sweep.who]["perp"] = sweep.bal + sweep.entry.wei]
  /\ sweep' = [sweep EXCEPT !.stage = "log"]
  /\ UNCHANGED <<seeded, listed, subVars, deposits, call, now, books, logs, ask, slips, crashes>>
  /\ Rest

\* The sum is written with six decimals and the entry leaves the queue.
SweepPay ==
  LET u == sweep.who IN
  /\ sweep.stage = "pay"
  /\ \E x \in ToFixed(sweep.bal + sweep.entry.wei) : hash' = [hash EXCEPT ![u]["perp"] = x]
  /\ queue' = [queue EXCEPT ![u] = @ \ {sweep.entry}]
  /\ sweep' = [sweep EXCEPT !.stage = "log"]
  /\ UNCHANGED <<seeded, listed, subVars, deposits, call, now, staked, deleg, logs, ask,
                 slips, crashes>> /\ Rest

SweepLog ==
  /\ sweep.stage = "log"
  /\ Push(sweep.who, "withdrawalComplete", sweep.entry.wei)
  /\ sweep' = [sweep EXCEPT !.stage = "trim"]
  /\ UNCHANGED <<books, ask, slips>> /\ Beside

SweepTrim ==
  /\ sweep.stage = "trim"
  /\ Trim(sweep.who)
  /\ sweep' = [sweep EXCEPT !.stage = "next", !.entry = None]
  /\ UNCHANGED <<books, ask>> /\ Beside

\* The clock moves while something waits for it.
Tick ==
  /\ \E u \in Users : (\E e \in queue[u] : now < e.unlock) \/ (\E d \in deleg[u] : now < d.until)
  /\ now' = now + 1
  /\ UNCHANGED <<vars, books, logs, ask, sweep, slips, crashes>>

\* The process is killed and started again: Redis keeps what was written, and
\* an event that was not appended yet never is.
Untold(u) == \/ \E r \in Requests : ask[r].stage = "log" /\ ask[r].who = u
             \/ sweep.stage = "log" /\ sweep.who = u

Crash ==
  /\ crashes < MaxCrashes /\ crashes' = crashes + 1
  /\ call' = [u \in Users |-> Idle] /\ ask' = [r \in Requests |-> NoAsk] /\ sweep' = SweepIdle
  /\ slips' = [u \in Users |-> slips[u] \cup (IF Untold(u) THEN {"untold"} ELSE {})]
  /\ UNCHANGED <<moneyVars, subVars, deposits, now, books, logs>> /\ Rest

StakingNext ==
  \/ Next /\ UNCHANGED stakeVars
  \/ \E r \in Requests :
       \/ \E u \in Users : StakeDispatch(u, r)
       \/ ReadStake(r) \/ WriteStake(r) \/ FindDelegation(r) \/ ReadRestake(r)
       \/ Undelegate(r) \/ AppendEvent(r) \/ TrimEvents(r)
  \/ \E u \in Users : SweepScan(u)
  \/ SweepNext \/ SweepPay \/ SweepLog \/ SweepTrim \/ Tick \/ Crash

\* The worker's timer fires again and again, and a command is answered.
Fairness ==
  /\ \A u \in Users : WF_allVars(SweepScan(u))
  /\ WF_allVars(SweepNext \/ SweepPay \/ SweepLog \/ SweepTrim) /\ WF_allVars(Tick)

StakingSpec == StakingInit /\ [][StakingNext]_allVars
LiveSpec == StakingSpec /\ Fairness

-----------------------------------------------------------------------------
(* Properties.                                                             *)

\* getDelegatorSummary: what is free, delegated and on its way out.
SumWei(S) == MapThenSumSet(LAMBDA e : e.wei, S)

getDelegatorSummary(u) ==
  [undelegated |-> staked[u], delegated |-> SumWei(deleg[u]), pending |-> SumWei(queue[u])]

\* What the list says of a type, and the events about to be appended to it.
Listed(u, t) == SumWei({e \in events[u] : e.type = t})

Unlogged(u, t) ==
  {[request |-> r, wei |-> ask[r].wei] :
     r \in {q \in Requests : ask[q].stage = "log" /\ ask[q].who = u /\ ask[q].kind = t}}

ToAppend(u, t) ==
  SumWei(Unlogged(u, t))
  + (IF t = "withdrawalComplete" /\ sweep.stage = "log" /\ sweep.who = u THEN sweep.entry.wei ELSE 0)

Told(u, t) == Listed(u, t) + ToAppend(u, t)

\* Has one of these happened to u's stake?
Slipped(u, s) == slips[u] \cap s # {}

\* The events explain the summary, however many requests of the user and the
\* sweep run beside each other, as long as the list was neither trimmed nor
\* cut short by a crash. Withdrawals and delegations, added and removed
\* singly, survive lost updates of the balance: they are off only when two
\* equal entries of one millisecond became one, delegations also when two
\* undelegations took the same one. The balance, written whole, is off only
\* when a request wrote over one it had not seen.
StakeExplained ==
  \A u \in Users :
    LET s == getDelegatorSummary(u)
        known == ~Slipped(u, {"trimmed", "untold"})
    IN /\ known /\ ~Slipped(u, {"twin", "gone"}) =>
            s.delegated = Told(u, "delegate") - Told(u, "undelegate")
       /\ known /\ ~Slipped(u, {"twin"}) =>
            s.pending = Told(u, "cWithdraw") - Told(u, "withdrawalComplete")
       /\ known /\ ~Slipped(u, {"overwrite"}) =>
            s.undelegated = Told(u, "cDeposit") - Told(u, "cWithdraw")
                            - Told(u, "delegate") + Told(u, "undelegate")

\* The sweep writes over a balance that changed since it was read.
SweepOverwrites == sweep.stage = "pay" /\ sweep'.stage = "log"
                   /\ Funds[<<sweep.who, "perp">>] # sweep.bal

\* With the sweep and restarts beside them the balances still follow the
\* ledger, but for the transfers' three exceptions and the sweep's own lost
\* update: each withdrawal is paid once, and rounding the whole balance moves
\* it by half a grain at most.
StakingImplementsLedger ==
  [][\/ UNCHANGED hash
     \/ \E u \in Users : LostUpdate(u) \/ SelfCredit(u) \/ Reseed(u)
     \/ SweepOverwrites
     \/ Ledger!Next]_Funds

\* A queued withdrawal is completed once its time has come.
WithdrawalsComplete ==
  \A u \in Users : queue[u] # {} ~> queue[u] = {}
=============================================================================
