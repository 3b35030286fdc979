# HyPaper in TLA+

HyPaper is a paper-trading backend that speaks the HyperLiquid API. It is one
Node process. All hot state is in Redis, a Postgres sink keeps history, and
everything the process does is interleaved at `await`s: HTTP requests, the
order matcher that every price tick starts, timers (scheduled cancel, funding,
liquidation, staking sweeps) and the process restarting. There are no
transactions across two awaits and one in-process lock per user, which only
some writers take. That is where the program can go wrong and where a unit test
hardly reaches, so it is what these modules are about.

Paths below are relative to the repository root; `O:` is `src/engine/order.ts`,
`M:` is `src/worker/order-matcher.ts`.

## 1. Inventory

| component | state | operations | interacts through | hard parts | what makes it correct |
|---|---|---|---|---|---|
| orders and brackets (`engine/order.ts`) | `order:<oid>`, `orders:open`, `orders:triggers`, `orders:expiry`, `user:<u>:orders`, `order:<oid>:{children,parent,bracket}`, `seq:oid` | placeOrders, cancelOrders, cancelByCloid, modifyOrder, batchModifyOrders | Redis; executeFill of the matcher; events | several awaits per call, bracket links written last, a modify is cancel + place + rewire | an order executes at most once; a cancel sticks; open orders are indexed; one exit per bracket |
| order matcher (`worker/order-matcher.ts`) | `isRunning` | matchAll: limit, trigger, trailing, TWAP, expiry phases; executeFill; cancelOrderSiblings | Redis, the user lock | walks snapshots while others write; fills an order object read before the lock | the same, and passes end, dead orders leave the sets |
| per-user lock (`utils/userLock.ts`) | a Map of promise tails, an AsyncLocalStorage | withUserLock | called by fills, liquidation, isolated-margin changes | re-entrancy, deletion of the Map entry | FIFO mutual exclusion, no self-deadlock, no leak |
| scheduled cancel, reset (`worker/index.ts`, `api/routes/hypaper.ts`) | `user:<u>:scheduleCancel` | tick, resetAccount, setBalance | Redis | act on a snapshot of the user's orders, no lock | cancelled orders never fill; a stop that is cancelled says so in its history |
| positions (`order-matcher.ts`, `engine/position.ts`) | `user:<u>:pos:<asset>`, `user:<u>:positions`, `positions:holders`, `users:active` | the fill's pipeline, liquidation, updateIsolatedMargin, updateLeverage, funding, reset | Redis, the lock for the first three | three writers inside the lock, three outside it, on the same hashes | a size is the sum of what executed; the sets and indexes name the open positions |
| margin, leverage (`engine/margin.ts`, `marginTiers.ts`, `assetMeta.ts`, `utils/math.ts`) | `marginAlloc`, `rawUsd` of a position, `user:<u>:lev:<asset>` | tiers, account value, margin used, the check of an order, the liquidation price; updateLeverage, updateIsolatedMargin | reads account and prices | the setting is checked and written outside the lock; placement checks precede the lock; tiers meet at their bounds | margin follows the size; the price shown is the price that liquidates; an order that passes the check does not liquidate its account |
| liquidation (`engine/liquidation.ts`, `liquidator-vault.ts`, `worker/liquidation-worker.ts`) | cooldown keys, `totalCollected`, `running` | tick, keepMarks, isolated and cross passes, market (whole or in part) and backstop closes | the lock, one MULTI | closes several positions from one load; the index is pruned outside the lock | a position is closed once; a backstop takes the margin and no more; every holder is visited |
| balances, transfers (`engine/{transfers,subaccount}.ts`, `api/middleware/auth.ts`) | `user:<u>:account` and its buckets, sub-accounts and their names | usdSend, spotSend, sendAsset, class, sub-account and vault transfers, createSubAccount, rename, ensureAccount, setBalance, reset | Redis, no lock | increments (fills, funding, liquidation) against read-then-write of absolute balances; two first touches of one account | no update of a balance is lost; transfers conserve money |
| trailing stops (`engine/trailing-*.ts`, `trailingStop.ts`, `worker/mark-feed.ts`) | `orders:trailing`, the trailing fields of an order, history rows, marks with a stamp | place, evaluate, fire, cancel, reconcile reduce-only stops | mark feed, matcher, the lock | fires against cancels and position changes; marks that age | the trigger never loosens; orphans end; the rows tell one life |
| TWAP (`order.ts`, `order-matcher.ts`) | `twap:<id>`, `twaps:active` | create, cancel, slice, finish | places IOC orders inside a pass | a slice racing a cancel; progress counted for clamped or skipped fills | never executes more than its size; the history row is true |
| staking (`engine/staking.ts`) | staking balance, delegations, a queue as a sorted set of JSON, an event log | deposit, delegate, undelegate, withdraw, sweep | Redis, the balance of transfers | a balance read in one command and written whole in another, by requests of one user side by side and by the sweep, without the lock; a list cut to 200 events | each unit is in one place; the events explain the balances; withdrawals complete once |
| funding (`worker/funding-worker.ts`) | `cumFunding` fields | hourly charge | Redis, no lock | writes fields of a position closed meanwhile | each open position is charged once |
| persistence (`store/pg-sink.ts`, `schema.ts`, `index.ts`) | a FIFO write queue in memory, Postgres rows, `seq:oid`, `seq:tid`, `seq:twap` | listeners, record* calls, syncSeqCountersToPgMax | the event bus | failed writes, references between rows, events before the sink listens, a cancel and a fill of one order said in either order, crashes | Postgres lacks only what was lost, and disagrees with Redis only in named cases; ids are not reissued |
| market data (`worker/ws-client.ts`, `price-updater.ts`, `worker/index.ts`) | one socket, its subscriptions, mids | connect, heartbeat, reconnect, frames, seeding, true-up | starts matcher passes; relays to the websocket server | silent sockets, lost subscriptions, a true-up overtaken by a frame | the feed recovers |
| fill price (`utils/slippage.ts`, `l2-cache.ts`) | a cache of books | computeVwap | fills | thin books and limits | the average of what the levels supply |
| exchange API (`api/routes/exchange.ts`, `consent.ts`, `middleware`, `engine/agents.ts`) | nonce high-water mark, agents, builder fees, rate-limit counters | limit, recover, authorise, dispatch | all engines | the mark is read, then written, and compared with a number that need not be whole; standing is looked up before it is used | a nonce that is signed, or whole, is used once; nobody acts without standing |
| websocket server (`ws/server.ts`) | clients, subscription index | subscribe, unsubscribe, heartbeat, snapshot, broadcast | feed, events | reads over several round trips; late messages of dead sockets | every change is told; the index is clean |
| EVM facade (`evm/*`) | three Postgres tables, a receipt cache | publish, deleteForMarket, burn, receipts, logs | Postgres | statements outside a transaction, requests side by side | the log replays to the rows; readers miss nothing |
| info API | none of its own | format and forward | read only | - | - |

The hazards this leads to are listed in `PROJECT.json`, each at its line, with
the properties that would catch it.

## 2. Modules

| module | what it is |
|---|---|
| `OrderBook` | the life of one user's limit and TP/SL orders: placement, brackets, cancel, modify, matcher, fills, expiry, scheduled cancel, reset, restart |
| `MCOrderBook` | its small instances |
| `OrderBookProofs` | the shapes every action keeps, the type theorem, the inductive invariant and the safety theorems |
| `Positions` | the position hashes of one user and everyone who writes them: fills, liquidation, isolated margin, leverage, funding, reset, restart |
| `MCPositions` | its small instances |
| `PositionsProofs` | its inductive invariants and the safety theorems |
| `FifoMutex` | abstract specification: a first-come-first-served mutex per user |
| `UserLock` | the promise chain of `withUserLock`, which implements it |
| `UserLockProofs` | its invariant and the proof of the refinement |
| `Decimals` | `utils/math.ts`: decimals as exact fractions |
| `Margin`, `MCMargin` | the arithmetic of margin, the order check, the liquidation line, the price of a fill |
| `AtomicLedger` | abstract specification: balances whose every change is one step |
| `Transfers`, `MCTransfers` | the balances and everyone who moves money outside the lock, which implement it with exceptions |
| `Staking`, `MCStaking` | staking and its sweep, on top of `Transfers` |
| `StakingProofs` | the proofs about both: the steps of the ledger, and the staking log |
| `Trailing` | trailing stops: the rules, the matcher's pass, the fire, orphans, history |
| `Twap`, `MCTwap` | TWAPs on top of `Trailing` |
| `TwapProofs` | the proofs about both |
| `Gateway`, `MCGateway` | a request from the rate limiter to the engine call; agents, nonces |
| `Persist` | events, the Postgres queue, id counters, crashes |
| `PersistProofs` | its inductive invariants and the safety theorems |
| `Evm`, `MCEvm` | the chain emulator behind `/evm` |
| `ApiProofs` | the proofs about `Gateway` and `Evm`: the two HTTP front doors |
| `Feed` | the socket to the exchange, seeding, true-up |
| `Push` | the websocket server on top of `Feed` |
| `PushProofs` | the proofs about both |

### OrderBook

*State.* One variable per Redis structure, with the structure's name:
`order` (the hashes, status `none` where there is no hash), `ordersOpen`,
`ordersTriggers`, `ordersExpiry`, `userOrders`, `children`, `parent`,
`bracket`, `lastOid` (`seq:oid`); `isRunning` and `lock` are in the process;
`due` is the clock as far as it matters, the set of orders whose
`expiresAfter` has passed. `pc`, `cur` and `loc` are the suspended calls. Seven
history variables (`fills`, `explicit`, `finalCancel`, `interrupted`, `oco`,
`under`, `entryOf`) record what happened for the properties; no action reads them except
to update them.

*Granularity.* One action is one Redis command or pipeline, with the code up to
the next await. The two places where consecutive commands are one action are
stated in the head of the module: a status read together with the delete that
it alone decides (a dead order stays dead, so doing the delete at once hides
nothing), and consecutive commands on the bracket links of one order.

*Correspondence.*

| code | actions |
|---|---|
| `placeOrders`, `placeSingleOrder`, `placeTriggeredOrder`, `saveOrder`, `restOrder` (O:79-549) | PlaceOrders, RejectOrder, NextOid, SaveOrder, RestOrder, RestTrigger, ListTrigger, LinkBracket; FillLock ... when the order crosses |
| `cancelOrders` and its recursion over children (O:551-660) | CancelOrder, CancelWrite, Cascade, CascadeUnlink, CascadeChild, CancelNext, CancelDone |
| `modifyOrder`, `batchModifyOrders`, `carryBracketLinks` (O:815-1028) | ModifyOrder, ModifyWrite, the placement actions, CarryRead, the cascade, CarryWrite |
| `executeFill`, `executeFillWithSize`, `cancelOrderSiblings` (M:497-883) | FillLock, FillSkip, FillWrite, Sib* |
| `matchAll` and its limit, trigger and expiry phases (M:44-58, 262-394) | MatchAll, MatchOpenOrder, MatchTriggers, MatchTriggerOrder, ReadParent, CheckTrigger, Unindex, SweepExpired, SweepRead, SweepCancel, EndPass |
| `ScheduleCancelWorker.tick` (worker/index.ts:60-191) | ScheduledCancel, TickRead, TickWrite |
| `resetAccount` (api/routes/hypaper.ts:40-74) | ResetAccount, ResetWrite (the orders it touches) |
| process exit and start | Restart: calls end where they stand, Redis stays |

*Abstracted.* Prices (an order crosses or not, a trigger is hit or not, freely
each time), sizes and positions (a reduce-only order may find nothing to
reduce), margin (a placement may be refused), time in force (a limit wire may be
refused, fill at once or rest). These only add behaviours. One user: orders of
different users share nothing but the sets the matcher walks.

### UserLock

`tails` is the Map, a member of `Calls` stands for an outermost invocation and
for the promise it puts at the tail, `prev` is the promise it awaits. The code
before the first await is one step, the `finally` block another. A nested call
finds the user in the AsyncLocalStorage and runs straight through. `queue` is
history: the order of arrival, which the code keeps nowhere but in the chain.

`OrderBook` and `Positions` use the lock as one variable: that this is sound is what the
refinement shows (mutual exclusion, and first come first served, which gives the
strong fairness of `FillLock`).

### Positions

*State.* `pos` (the hashes: size, `marginAlloc`, `rawUsd`, `cumFunding`, and
whether the hash has its `asset` field, which a hash that `hset` brought back to
life has not), `listed`, `isCross`, `balance`, `collected` (the vault), `holder`
and `active` (the two indexes name the user), `cooling`; `lock` and, per call,
`pc` and `loc` with the view it has read. History: `executed`, `charged`,
`stale`, `mixed`, `switched`, `overtaken`, `raced`.

*Correspondence* (`Q:` is `src/engine/liquidation.ts`).

| code | actions |
|---|---|
| `executeFill`, `executeFillWithSize` (M:497-736) | ExecuteFill, Acquire, FillSkip or FillRead, FillFields, FillWrite |
| `updateIsolatedMargin` (O:744-781) | UpdateIsolatedMargin, Acquire, MarginRead, MarginWrite |
| `LiquidationWorker.tick`, `positionHolders`, `checkAndLiquidateUser`, `runLiquidation`, `queueClose` (Q:134-537) | LiquidationTick, PruneHolder, Acquire, CheckAndLiquidateUser, IsolatedPass / IsolatedMarket / IsolatedBackstop, ReloadCross, LiqBalance, CrossPass / CrossMarket / CrossBackstop |
| `keepMarks` (liquidation-worker.ts:71-79) | KeepMarks, PruneHolder (a pass that finds positions only reads) |
| `updateLeverage` (O:689-726) | UpdateLeverage, LevRead, LevType, LevWrite |
| `applyFunding` (funding-worker.ts:29-109) | ApplyFunding, Deactivate or FundRead per asset, FundWrite |
| `resetAccount` (hypaper.ts:40-74) | ResetAccount, ResetWrite |
| start of the process | Restart, BackfillPositionHolders |

*Granularity.* A step is a group of reads, or one pipeline or MULTI: commands
written to the one Redis connection together are executed together. Inside the
section, reads of fields that different unlocked writers write (funding writes
`cumFunding`, `updateLeverage` the margin type) are one step, since no property
relates the two; the size, which a fill reads first, and the fields, which it
reads later, are two. A fill releases the lock with its pipeline: what it does
afterwards inside the section (bracket siblings, trailing stops) touches no
position.

*Abstracted.* The mark and the leverage are fixed, so a unit of size takes a unit
of margin; what a close earns, what funding costs and whether an account is
liquidatable, or by which method, are free choices. Amounts are integers;
proportions round down (`Scale`), which changes nothing where margin and size
are in step. Every loaded position has a price, the vault's address is
configured, and only the native dex is modelled. A zero `marginAlloc` stands for
an absent field: the code never writes a zero there for an open position.

### Margin

*State.* One user of the native dex: `balance`, `pos` (size, entry price,
allocation, adjustment), `setting` (leverage and margin type), the price `px`
and the `book` of each asset, and the orders accepted and not yet filled.

*Correspondence.* Every function of `marginTiers.ts` and `margin.ts`, the sums
of `getClearinghouseState`, `computeMaintenanceMargin`, `assess*` and
`crossAccountValue` of `liquidation.ts`, and `computeVwap` are operators with
their own names over `Decimals`. `Place` is the check of `placeSingleOrder`,
`Fire` the cut of `fireTrailingStop`, `Fill` the prices, the allocation, the
closed result and the fee of `executeFillWithSize`, `TopUp` is
`updateIsolatedMargin`, `Move` the feed.

*Abstracted.* Decimals are exact fractions (the code has thirty digits); the
mark and the mid are one price, and whether the mark is fresh only decides what
prices the allocation; sizes are whole lots; one fee rate. Reduce-only orders,
which nobody checks, and the closes of a liquidation are in `Positions`. The
book cache is not modelled: a fill finds a book or not.

### Transfers and Staking

A request is a *plan* (which bucket is read, which is written, what is checked)
which the common steps carry out, one command or pipeline a step: CheckOwner,
ReadBalances, Commit, RecordRows, and the steps of `ensureAccount` (Ensure*)
before them. One operator per handler makes the plan: `usdClassTransfer`,
`usdSend`, `spotSend`, `sendAsset`, `sendToEvmWithData`, `subAccountTransfer`,
`vaultTransfer`, ... Buckets are (account, field) pairs; `hash` is
`user:<u>:account`. Fills increment the same field at any moment. `Staking`
extends it by the staking balance, delegations with a lock-up, the queue and the
log. A session only carries a request up to `ensureAccount`; a staking request
then goes on in a slot of `ask`, beside other requests of the same user, since
no lock is taken and a client need not wait: ReadStake (the `get`), WriteStake
(the `set`, with the queue or the delegations in one pipeline), FindDelegation,
ReadRestake, Undelegate, AppendEvent (`LPUSH`), TrimEvents (`LTRIM`). The worker's
sweep is SweepScan, SweepNext, SweepPay, SweepLog, SweepTrim. `Crash` is the process
stopping between any two of them. The log is the list of the last `MaxEvents`
events; `slips` (history) notes, per user, what went wrong with the stake: a
balance written over one that was not read (`overwrite`), an equal entry of the
same millisecond in a sorted set (`twin`), a delegation taken by two requests
(`gone`), events cut off (`trimmed`), an event a crash kept from being appended
(`untold`).

Balances are counted in wei. `Grain` of them make the sixth decimal, and what the
handlers and the sweep write is rounded to it (`ToFixed`), the whole balance and
not the amount; a tie goes either way, as the binary float decides. `AtomicLedger`
therefore lets a step miss its exact result by half a grain. The steps of a float
finer than that are not modelled.

### Trailing and Twap

Three processes: the matcher, a client that places and cancels, and a trader whose
fills change the position; fills hold the user's lock, everything else does not.
`trailing-math.ts` is a set of operators (`validateTrailingStop`,
`computeTrigger`, `evaluateTrailing`, the bodies of history rows). The mark has an age; its price
and its stamp are two reads. Two more writers end stops without the lock: the tick
of a scheduled cancel (Schedule*), which lists the user's orders, reads them one by
one, cancels in one pipeline those it read open, and then reads each again for its
row; and `resetAccount` (Reset*), which deletes the position it listed and writes
"cancelled" over every order listed, whatever it had become, without a row.
`rows` are the history rows. History variables: `raced` names the stops two ends of
which overlapped, `unsnapped` those a scheduled cancel ended (it writes no
`trSnap`), `silent` those a reset wrote over, `gone` those it took off
`user:<u>:orders`; `torn` marks a section whose position was deleted under it. A TWAP slice of `Twap` is an order that fills
through the same steps, inside the pass of the matcher.

### Gateway

A connection steps through Arrive (the rate limiter), Recover (who signed),
Ensure, CheckVault, CheckAgent, EnsureVault, ReadMark, WriteMark, CheckExpiry and
Dispatch, with any other connection's steps in between. The kinds of actions are
grouped as the switch of `exchange.ts` groups them; `approveAgent` goes on in steps
of its own (FindAgent, CountAgents, AddAgent). A nonce is any number the body
brings: whole milliseconds and a part of one, or `Infinite`. The route compares it
with what `parseInt` makes of the mark, the whole part. The two signature schemes
differ in what they cover: `recoverHlSigner` hashes the body's nonce, as a 64-bit
integer, and throws for any other; `recoverUserSignedAction` does not read it, so a
user-signed action may come with any. `stood` (history) records
that the sender had standing at some moment of the request, `collided` that two
requests of one wallet were between the read and the write of the mark.

### Persist

The engine writes Redis first and emits afterwards (`unsaid`); the sink turns
events into writes of a queue in memory; a write may fail and is logged. `lost`
names the writes that failed or were queued at a crash. The worker starts before
the sink (`index.ts`), so events may be emitted to nobody. An order is read open
(`readOpen`) by a cancel or by a fill before it is written, each as the code does
it: `executeFill` never reads the status again, and `cancelOrders` emits after its
cascade, so both may write one order, and their events may come in either order.
`resetAccount` writes "cancelled" over the listed orders and emits nothing. The row
of an ended TWAP is keyed by its `seq:twap` id, which starts again after a flush and
which nothing raises; a second row of an id is dropped. `Flush` empties Redis
while the process is down. `syncSeqCountersToPgMax` is three steps: the maxima of
Postgres, the counters (`get`), and the plain `set` of those that were behind. The
code does each for `tid` and then for `oid`; the model does both at once, since no
step and no property compares the two counters. Between the last two steps the worker issues ids, so the `set` may put a counter back
below them. `odd` (history) records the irregular things the properties except:
ids issued that were in use (TWAP ids too), orders cancelled before they were
announced, ended twice or written over by a reset, and a counter set back.

### Evm

A transaction is its SQL statements, one a step, in one of a few slots; a
statement may fail, the process may restart (the receipt cache is lost). A poller
follows the log by blocks. `tangled` names the pairs whose transactions overlapped
or broke off.

### Feed and Push

Prices are versions. The socket is down, connecting or open, and may be mute
while open; `quiet` is the age of the last message in three steps. A true-up is a
request, an answer and a write. `Push` adds the clients of `ws/server.ts`, their
subscriptions, the index, upstream demand, and snapshots and broadcasts which
read a version of the user's state and send it later. A failed read of a push,
which the code logs and drops, is not modelled; one snapshot per client is under
way at a time.

## 3. Runs

| run | instance | shows |
|---|---|---|
| `orders_safety` | two overlapping calls, two would-be passes, three oids, no expiry, one restart anywhere | AtMostOneFill, CancelIsFinal, RestingLimitIndexed, OneExitPerBracket, DormantWhileEntryRests |
| `orders_liveness` | two calls one after the other, one pass, two oids, expiry | CallsFinish, ExpiryHonoured, DeadOrdersUnindexed |
| `lock` | two users, four invocations, one level of nesting | TailsClean, and that UserLock implements FifoMutex with its fairness (ImplementsFairFifo) |
| `positions` | two assets, one of them traded, two calls or workers at a time, three operations of any kind, one restart | PositionAccounted, ListedIffOpen, AllocationProportional, NoLeftoverMargin, FundingRecorded, Tracked, BackstopTakesAll |
| `margin` | two assets with two and three tiers, two orders at once, one price move, one top-up, isolated and cross | LineIsWhereItFires, VwapIsLotByLot, FillKeepsHealthy |
| `transfers` | two users, two sub-accounts, a session each, two requests in all, one fill | ImplementsLedger: every change of a balance is a step of AtomicLedger, with three named exceptions |
| `staking` | one user, two requests side by side, one fill, the sweep, a list of three events, one crash | StakeExplained, StakingImplementsLedger, WithdrawalsComplete |
| `twap` | two stops, one TWAP, a trader, three operations (requests, fills, a scheduled cancel, a reset), one mark move, two units of time | OrphansEnded, HistoryTells, TwapAccounted, NeverLoosens, ReduceOnlyReduces |
| `gateway` | a master with a sub-account, an agent, a stranger; two connections, three requests out of twenty-one, whole and fractional nonces | NonceOnce, ActsWithStanding |
| `persist` | two pieces of work (orders, liquidations, resets, records, ended TWAPs), one failing write or one crash (with or without a flush) | LossIsLocal, TwapRowSumsFills, FreshIds |
| `evm` | two wallets, one market, three transactions two at a time, one failure, one poll | LogReplays, ReadersComplete |
| `stream` | one client, one relayed channel, two venues, one price move, one change of state | RelayReachable, IndexClean, ToldOfEveryChange, FeedRecovers |

*Bounds.* `MaxOid = 3` is the smallest number for which an entry with two legs
exists; a modify in that instance works on smaller brackets (a refused wire gives
every sub-batch), so replacements are placed as well. `MaxOps = 2` lets any two
calls overlap each other and a pass: a placement with a cancel, modify,
scheduled cancel or reset, or two of those on one bracket. Expiry, one more way
for the pass to cancel an order, is left to the liveness run. Two `Passes` make the
`isRunning` guard matter. Two passes and two calls are interchangeable, so they
are symmetric in the safety run, which checks no liveness. What three or more
overlapping calls could do is left to the theorems, which have no bounds and
cover all five invariants. The liveness run has two oids, which suffice for an
entry with a leg and for a pair of legs; no symmetry is used there.

In `Positions` every behaviour starts from any open or absent position of any
margin type. Sizes -3 and 2 open, add to, reduce, close exactly (through
reduce-only and through liquidation), and flip; three operations are enough for a
position to be opened and changed by two overlapping writers. The second asset
shows what an isolated position keeps from the cross account.

In `Margin` notionals run from 1 to 12 over bounds at 2, 4 and 5, so positions
open below a bound, on it and above it, and cross it by a fill or by a move; two
orders at once are what a check made before the lock needs to go wrong; the books
are one side thin, one side empty, with a level beyond some limits. In `Transfers`
two requests and a fill are what a lost update needs, from any two of the
handlers. `Staking` starts from nothing, a deposit, or a delegation that is no longer
locked, and has two requests of one user and the sweep side by side, which is what
each of its exceptions needs; amounts of 1 and 2 wei with a grain of 2 make the
rounding of the sweep show; a list of three events is one that is trimmed. In
`Trailing` prices 20 and 22 stand on either side of an activation price and of a
percentage that has to be rounded; a TWAP of two slices has a late, a missed and a
last one. `Gateway` needs two connections for its races and a third request
to replay, also under a nonce with a part of a millisecond. `MaxNamed = 1` and `Limit = 1` make the limits bite. In `Persist`
the cushion of 1 stands for the code's 1000: with `MaxWork = 2` more ids can be
issued while the counters are being raised than it covers, so that counters are
set back in the run too; the theorems cover any cushion. Two pieces of work are an
order with a reset, two orders, or two TWAPs on either side of a flush; one order is
enough for a cancel and a fill to have it in hand at once. `MaxTroubles = 1` is a
crash or a refused write; more of both at once are left to the theorems.
Where the run says CHECK_DEADLOCK FALSE the bounds end
every behaviour; in `orders_*`, `lock`, `positions` and `stream` deadlock is
checked.

*Fairness.* Of a started call and a running pass, because every await resolves
(Redis answers, or the command rejects and the call ends); of starting a pass,
because price ticks and the 5 s true-up in `worker/index.ts` keep calling
`matchAll`; strong fairness of `FillLock`, because the lock is FIFO. A user never
has to call, a deadline never has to pass, a restart never has to happen. In
`UserLock`, a settled promise resumes its waiter and every section ends; its
release is strongly fair because a section may make nested calls over and over
between two opportunities to return. In `Staking` the sweep is fair (its timer
fires every minute and Redis answers) and time passes. In `Feed` timers fire and
a started step ends (weak fairness of seeding, reconnecting, heartbeat and the
true-up), and the answer of a true-up is strongly fair per venue: the exchange
may refuse any number of requests but not all of them for ever. The socket gets
no fairness at all: `FeedRecovers` holds although it may never open.

*What the properties say.* `CancelIsFinal` and `OneExitPerBracket` have their
exceptions in them, and these are the code's real limits: a cancel that lands
while a process already holds the order does not stop the fill
(`executeFill` never re-reads the status); an explicit cancel of a leg, or of an
entry a leg was linked to, drops sibling links while a leg may be in hand; a restart between a leg's fill and
`cancelOrderSiblings` leaves the sibling alive. Outside these the guarantees
hold in every interleaving explored.

The same goes for `Positions`. `raced` is the reset: it deletes positions
outside the lock, so a fill in its section writes its own back, and the
properties say nothing after that. `mixed` names the assets whose `cumFunding` was
written from an overtaken read (funding and a fill, or two funding passes);
`switched` those whose margin type changed while a position was open or
opening; `overtaken` the indexes pruned after a look that a fill made old. Each
exception is the exact window of the code, and the properties show that nothing
else opens one.

The exceptions of the other modules are of the same kind. `ImplementsLedger` excepts a transfer that writes over a change
it did not see, a send to its own source, and a seeding that wipes money sent
first; the sweep adds its own overwrite, and rounding moves any of them by half
a grain. `StakeExplained` is silent once the list was trimmed or a crash kept an
event from it. Apart from that it is three equations, each with its own exceptions:
the balance is off once a request wrote over one it had not seen, the delegations
and the queue, whose entries are added and removed singly, only by equal entries of
one millisecond and, for the delegations, by two requests that took the same one.
`HistoryTells` excepts stops whose two ends overlapped; of a stop a reset ended it
says that the rows are one life but not that the last tells of the end, and of one a
scheduled cancel ended not that `orderStatus` serves the row's body. `OrphansEnded`
is about stops that rested through a fill since the last reset, and
`ReduceOnlyReduces` excepts a fill whose position a reset deleted in the middle of
the section. `TwapAccounted`'s second half excepts a slice that overlapped the end,
`NonceOnce` two requests of one wallet in flight; of a nonce with a part of a
millisecond, which may pass any number of times, and of a user-signed action, which
may come again under another nonce, it says only that the mark does not fall.
`LogReplays` excepts transactions of one
pair that overlapped, `LossIsLocal` rows whose own write was lost, ids used
before, orders cancelled before they were announced, orders ended both by a cancel
and by a fill, and orders a reset wrote over, `TwapRowSumsFills` fills whose id was used before, `FreshIds` all that
follows a counter that was set back. `FillKeepsHealthy` names in `Unseen` what the margin check of an order
cannot see: a check that is no longer fresh when the order fills, a fill worse
than the mid it was checked at, a flip (which counts as reducing and is not
checked), the profit of isolated positions (which it counts as free), and a
leverage that the tier the position ends in does not cover; the fee is not
checked either.

## 4. Proofs

TLAPS checks the theorems below for every number of orders, calls, passes,
restarts, users, requests, clients and invocations. They rest only on the named
assumptions of the modules they are about: `ConstantsAssumption` and
`WiresAssumption` (OrderBook), `PositionsAssumption`, `UserLockAssumption`,
`GatewayAssumption`, `FeedAssumption` and `PushAssumption`, `TrailingAssumption`
and `TwapAssumption`, `TransfersAssumption` and `StakingAssumption`,
`CushionAssumption` (Persist), `EvmAssumption`. They say that bounds are naturals, that processes,
accounts and the "nobody" values are distinct, that arguments have their types,
and, of the amounts a request may carry, that they are positive where the
handlers refuse others. TLC evaluates each on the instance of its run.

* **OrderBookProofs!TypeCorrect**: `Spec => []TypeOK`. `TypeOK` is not inductive
  alone: that a pipeline writes an existing hash needs the process at that label
  to hold an oid. `Shape` says which locals are set at which label
  (`SharedTypesStep` carries the Redis structures, `ShapeStep` the processes).
* **OrderBookProofs!Invariance**: the inductive invariant. Before its fill an
  order is in the hands of at most one process (`OneHand`): the placement that
  created it, which owns it until it is on the book (`Owner`, `OneOwner`,
  `Fresh`), or the one running pass (`OnePass`), which takes orders from a queue
  of saved orders (`KnownQueue`) and only if it reads them as open. An order that
  filled, or was cancelled with nobody holding it, is never open again (`Filled`,
  `Final`). Most actions touch none of this and share one lemma (`CalmStep`);
  `NextOid`, `SaveOrder`, the indexing actions, `FillWrite` and `Restart` have
  their own.
* **NoDoubleFill**, **CancelsStick**, **RestingOrdersWatched**: AtMostOneFill,
  CancelIsFinal and RestingLimitIndexed follow from it.
* **OrderBookProofs!BracketInvariance, OneExit, LegsSleep**: OneExitPerBracket and
  DormantWhileEntryRests. `BInv` has three parts.
  *The links* (`LInv`). An order is `Settled` once no call is still to place or
  link it; only settled orders are linked, only passes hold them, and two calls
  never have an unsettled order in common (`Mine`, `Apart`). An entry has no
  siblings, and a pointer to an entry names the one entry its leg was ever linked
  to (`LinkOk`), also where a call or a pass read it some awaits ago (`ReqLinks`,
  `PassLinks`). A link is then only removed for a reason (`Cut`, `Drop`: an
  explicit cancel of the leg or its entry, the entry's fill, or the pass that
  filled a sibling), and `LinkBracket` and the last pipeline of a modify link
  orders that only their own call knew of (`Joins`).
  *The entry* (`Sleep`). While the entry of a leg rests, none of these reasons
  for losing the pointer has occurred, so the matcher reads the pointer, then
  reads the entry as open, and does not fill.
  *The siblings* (`OnePerPair`). Two unfilled linked legs name each other, unless
  one is dead or the pair is excused; a pass that fills one is from then on on its
  way to the other (`Comes`, `Chased`), which no other pass can take meanwhile
  because there is none.
  The proof refuted an earlier form of OneExitPerBracket, whose exception was the
  cancel of the entry the pair was first linked under. With four orders and three
  calls, more than the run has, TLC confirms it: the cancel of an entry reads the
  children and stops; the entry fills and its legs lose their parent; a modify of
  one leg links the replacement to the other leg, now with no entry; the cancel
  goes on and unlinks that other leg, which fills; so does the replacement. The
  history variable `under` was added for this: it keeps the entry of a leg after
  the pointer has gone.
* **UserLockProofs!Exclusion, NoLeak, Refinement**: `ChainInv` ties the promise
  chain to the order of arrival: queued calls are live and distinct, the Map
  points at the last, each call but the first awaits the one before it. A call
  that may begin is therefore the head of its queue (`HeadOfQueue`), which gives
  mutual exclusion, the exact life of the Map entry, and that every step is a
  step of `FifoMutex` or a stutter.
* **PositionsProofs!Accounted, Listed, Freshness, NothingLeft**: `IInv` says that
  a call at a label of the section holds the lock and has its variables set
  (`OkCall`), that its view agrees with the hash in everything but `cumFunding`
  (`Fresh`), and that sizes, executed sizes, the set and the margin fields agree
  (`Book`). One lemma (`StepInv`) carries it over any step of one call, given that
  the call ends where its label asks and disturbs no other view: because it holds
  the lock, or because it writes only what views do not contain (funding), or
  because nobody has a view (a reset that does not race). `QuietInv`
  specialises it to the steps that write no position.
* **PositionsProofs!Indexed**: `Tracked` needs that a scan about to prune saw an
  empty set that is still empty, or was overtaken (`Scans`); every step except a
  fill's write only shrinks the set (`ScanStep`).
* **PositionsProofs!FundingKept**: `FInv` says of every call that has read a
  `cumFunding` that the value it read is what was charged by then, unless a write
  it did not see is recorded for it (`OkFund`); the steps that write the field are
  compared with what every other call has read.
* **PositionsProofs!AllocationKept**: `AInv` says that margin and size are in step
  in the hashes (`Proportional`), and that a call in the section still sees the
  margin type and the fields it will scale, unless the type was switched under it.
  Because they are in step, `Scale` is exact: its quotient is pinned down by
  multiplication, so no general fact about division is needed. Of the pass over the
  cross account `OkAlloc` also says that it has read every asset, those it will not
  close included, and that each is still as it was read.
* **PositionsProofs!Typed**: every variable has its type. Only the balance is hard:
  funding and the cross backstop add up amounts over all assets with the library's
  recursive sum. That this sum exists, depends on the summands only and is an
  integer is an induction over finite sets, made by minimal counterexample
  (`SmallestSet`, `Agree`, `Exists`, `SumType`), since the induction rule itself
  cannot be instantiated; `RInv` carries the rest.
* **PositionsProofs!BackstopComplete**: a backstop of an isolated position takes its
  dedicated margin whatever the close earned (`IsolatedTakesAll`, from the view
  being the hash); one of the cross account leaves what the isolated positions
  hold. For the second, the reserved margin computed from the views and the
  dedicated margin of the hashes agree asset by asset, so their sums agree
  (`SameDedicated`), under the two conditions the property names: the balance did
  not move after it was read, and no margin type was switched under a position.
* **ApiProofs!Invariance, OnceUnlessCollided, StandingBeforeActing**: neither
  property is visible at the step that could break it, since the mark was read and
  the standing found commands earlier. `OkConn` says what each stage of a request
  remembers (an agent found is one that was approved then, the acting account is
  the sender's own unless standing was found, the nonce is past the mark that was
  read), `Marks` that the whole part of every nonce taken is at most that of its wallet's
  mark, unless two requests of the wallet collided. A nonce that its signature covers
  is whole, since anything else has no signer (`Recovered`), so it is above the mark
  only if it was not taken.
* **ApiProofs!EvmInvariance, LogTells, ServedComplete**: a transaction of the
  emulator is a few SQL statements outside any database transaction, so both
  properties are false between its statements, and the invariant says how far off
  they are at each. What is left of a transaction is a suffix of one of three
  scripts (`PublishTodo`, `RemoveTodo`). `Phase` says, with n statements left, what
  is live in the log and what the row has: the old token, nothing, or the new one.
  `Blocks` says that a block under way belongs to one transaction, that the events
  it has are that transaction's and are numbered from 0, and that with those still
  to come there will be 2 or 4; `Cached` and `Followed` carry this to receipts,
  served answers and the poller. What keeps pairs apart is `Home`: a token is in
  the row, the log or the transactions of one pair only, so an event of one pair
  changes nothing in the story of another (`SoundOther`). For a publish the old
  token must be burned after it was minted: every mint of the pair is in an
  earlier block than the transaction under way (`Older`).
* **PushProofs!Invariance, Relayed, Unindexed, NothingMissed**: `Relay` (a channel
  with a subscriber is on the socket's list, and what is on the list was sent on
  an open socket), `Index` (the index, the clients' own records and the state of
  their sockets agree, late messages included) and `Told` (a subscriber was told
  the version of the last event, or a push that has not read yet, or has read that
  version, is under way). Reconnects, heartbeat and true-ups only touch `Relay`.
* **TwapProofs!Invariance, Accounted, Tightening, Reducing**: `TrInv` ties what a
  section and a pass have read to the position and to the stop (in a section the
  size read is the position, since only fills write it; a stop read as resting is
  unchanged but for its status when its pass writes). `TwInv` adds the TWAP: what
  the slices traded is the progress saved, plus the slice of a pass that has not
  saved it, and no slice exceeds what is left.
* **TwapProofs!NoOrphanLeft, HistoryIsOneLife**: `OrphanInv` says that a stop
  which the position orphans is still on the list of the section that changed the
  position; `HistInv` that the rows of a stop are those of its status, except for
  the rows the fill in hand or the tick of a scheduled cancel owes, as long as one
  writer ended it, and that the snapshot is the body of the last row unless a
  scheduled cancel or a reset ended the stop. The scheduled cancel and the reset have
  lemmas of their own (`HistCancel`, `HistTell`, `HistReset`).
* **StakingProofs!MoneyHeld, TransfersFollow**: `Transfers` implements
  `AtomicLedger` with the named exceptions. `MoneyInv` says what a session holds
  when it is about to write: a seed that is 0 or the default, a source read that
  covered the amount, a recipient that is a bucket, a level an administrator may
  set. Each commit is then one move, credit or reseeding of the ledger, or it
  overwrote a change, and the property says so.
* **StakingProofs!SweepHeld, StakingFollow**: the same with the sweep beside it
  (`SweepInv`: what it pays was withdrawn). What it writes is the sum rounded, which
  the ledger takes for a credit within half a grain; an overlap is its own overwrite.
* **StakingProofs!SummaryExplained**: `StakeInv` relates the staked balance, the
  delegations, the queue and the log of each user, with what any number of requests
  and the sweep have done and not yet logged. Each of the three equations is kept by
  every step that adds no slip of its own kind, so that a lost update of the balance,
  say, leaves the other two standing. What a set weighs is a fold over the set: that a member
  added, removed or restamped changes the weight by its own (`EntriesWeigh` and the
  lemmas before it) is proved by minimal counterexample, on subsets ordered by
  inclusion, which needs no induction rule with an operator parameter.
* **PersistProofs!IdsFresh**: `LifeBelow` (no id in Redis, in an event to come or
  in a waiting write is past its counter) and `PgBelow` (nor is any in Postgres
  once the counters were set; before that, none is past both the counter and the
  maximum read), as long as no counter was set back. The first attempt at this
  proof refuted an earlier form of the property, which did not know that the `set`
  can lower a counter; TLC shows it with a cushion of 1.
* **PersistProofs!TwapSumsKept**: `TwapInv`: nothing behind the write of an ended
  TWAP, and nothing still to be announced, stores a fill the row names (`Past`),
  because the queue is first in, first out and the fills were announced before.
* **PersistProofs!LossesLocal**: `LossInv`: the user's row is stored, lost or first
  in the queue (`UserFirst`); a fill is stored, lost, to be announced, or waiting
  behind its order (`FillsOk`); the last write about an order says the status Redis
  has (`OrdersOk`, `UnsaidTells`), unless the order is odd; records likewise (`RecsOk`);
  and the waiting rows of ended TWAPs have ids of their own, none of which has a row
  unless that was noted (`TwapIds`). When everything is
  settled only "stored", "lost" and "odd" are left. The engine's ten-odd steps fall into
  eight cases (`EngineCases`), the sink's two into one (`Popped`).

TypeOK, MutualExclusion, ImplementsFifo and SnapshotFresh, which four of these
theorems state, are no longer part of a run: the theorems cover them for every
instance.

Only model-checked:

* liveness, which is outside this prover's reach: CallsFinish, ExpiryHonoured,
  DeadOrdersUnindexed, ImplementsFairFifo, WithdrawalsComplete, FeedRecovers;
* Margin (LineIsWhereItFires, VwapIsLotByLot, FillKeepsHealthy): nonlinear
  arithmetic over fractions, and folds over the levels of a book.

## 5. Where code and documents disagree

Statements of comments and documents that the code does not keep. Each is a
definition of its module, and TLC refutes each when it takes the place of the
properties in the configuration of the module's run (`NoEntryNoBracket` in
`OrderBook_liveness.cfg`, whose batches expire; the other two of OrderBook in
`OrderBook_safety.cfg`; no fairness is needed). None is
part of a run.

* `NoEntryNoBracket` (OrderBook): "parent cancels -> cascade-cancel children (no
  entry = no bracket)" (O:124). `sweepExpired` cancels an expired entry and never
  looks at its children: the legs stay open, and wake up, since their parent is no
  longer open.
* `OpenTriggerWatched` (OrderBook): "`open` | Resting on book, waiting for fill"
  (`docs/api-reference/info/order-status.mdx:62`). A reduce-only trigger that
  fires with nothing to reduce is removed from `orders:triggers` (M:391) and stays
  `open`, listed and never looked at again.
* `ModifyReplaces` (OrderBook): "HL modify = atomic cancel-and-replace." (O:878).
  A modify cancels an order that a pass has already read as open; the order fills
  and the replacement is placed too.
* `EveryHolderIndexed` (Positions): `positions:holders` has "Every (user, dex) that
  holds at least one perp position" (`store/keys.ts:69`). `positionHolders` counts
  and then removes (Q:504-505), outside the lock; a fill that opens a position in
  between is indexed and at once removed.
* `MarginTypeFixed` (Positions): "The margin type of an open position can't change
  on HL" (O:707). `updateLeverage` reads the size, then writes the setting, outside
  the lock.
* `DexSeedKeepsMoney`, `SelfSendIsNoOp` (Transfers): the marker keeps a sub-dex
  balance from being "clobbered" (`auth.ts`), yet money can arrive between the
  look at the marker and the seeding; "Self-transfer to the SAME bucket is a
  no-op" (`transfers.ts`), yet the credit, computed from the balance before the
  debit, is written last.
* `NeverOffAStalePrice` (Trailing): "a stop can never fire off a stale price"
  (`mark-feed.ts`). The price and the stamp are two reads: an old price can pass
  with a new stamp.
* `ProgressIsFilled` (Twap): "Update progress only if something actually filled"
  (M:207). A reduce-only slice that was clamped or skipped counts in full.
* `NoReplay` (Gateway): "Replay protection" (`exchange.ts:156`). Two requests
  between the read and the write of the mark both pass; and so does, again and
  again, a user-signed action whose nonce has a part of a millisecond, since the mark
  is read with `parseInt`.
* `NewIdsAreSafe` (Persist): "newly-generated ids are always safe"
  (`pg-sink.ts:36`). Ids are issued before the counters are raised, a failed
  query counts as an empty table, and the raise is a plain `set` of a value
  computed from counters read earlier (`pg-sink.ts:53-63`): when more ids than the
  cushion were issued in between, it puts the counter back below them.
* `PublishIsAtomic` (Evm): publish burns "any prior snapshot for that pair
  atomically" (`handlers.ts`). Two publishes read the same prior token.

Other observations, not stated as formulas: the free margin of an order check
counts the profit of isolated positions, which `liquidation.ts:171` says is
"excluded both ways"; the true-up of `worker/index.ts` writes mids without
telling the subscribers of `allMids`; a failed request to the main venue skips the
true-up of the others.

## 6. Not modelled, and the plan

* The info API, `pg-queries.ts` and `order-updates.ts` shape answers out of state
  that other modules model; types, configuration and connections have no behaviour
  of their own; the scripts are run by hand.
* Signature recovery, ABI encoding and request parsing are conversions without
  state: `Gateway` and `Evm` keep who signed and whether a field has its type.
* The book cache and the metadata refresh of `assetMeta.ts`; the fallback
  tiers when metadata is missing.
* Re-arming a scheduled cancel while its tick runs (`worker/index.ts:180`), and
  sweeps of staking that take longer than the minute between them.
* `resetAccount` and `setBalance` are modelled; what they should guarantee against
  operations in flight is stated nowhere.

Worth proving next: the part of Margin's properties that needs no induction over
data.
