--------------------------------- MODULE Evm ---------------------------------
(***************************************************************************)
(* The chain emulator behind POST /evm (routes/evm.ts, evm/dispatcher.ts,  *)
(* evm/handlers.ts): one contract that keeps at most one snapshot token    *)
(* per wallet and market.  Its storage is three Postgres tables; a         *)
(* transaction is a few SQL statements, one after the other, outside any   *)
(* database transaction, and the requests of a batch run side by side.     *)
(*                                                                         *)
(* A raw transaction is abstracted to its signer, the function it calls    *)
(* and its arguments; two with the same fields are the same bytes and have *)
(* the same hash.  An event is a row of chain_events: Transfer from or to  *)
(* nobody ("mint", "out"), SnapshotPublished and SnapshotBurned.           *)
(***************************************************************************)
EXTENDS Integers, Sequences, FiniteSets, SequencesExt

CONSTANTS
  Signers, Markets,
  Raw,          \* the raw transactions that wallets sign
  Slots,        \* transactions being executed at a time
  MaxReceipts,  \* 1000: the size the receipt cache is trimmed at
  MaxSends,     \* bound: transactions sent
  MaxFaults,    \* bound: statements that fail, and restarts
  MaxPolls      \* bound: calls of eth_getLogs and eth_getTransactionReceipt

Pairs == Signers \X Markets
Tx == [from : Signers, fn : {"publish", "deleteForMarket", "burn"}, market : Markets,
       token : Nat, uri : Nat]

ASSUME EvmAssumption ==
  /\ Raw \subseteq Tx
  /\ MaxReceipts \in Nat /\ MaxSends \in Nat /\ MaxFaults \in Nat /\ MaxPolls \in Nat

VARIABLES
  counters,  \* chain_counters: next_token_id and current_block
  drawings,  \* chart_drawings: the token of each pair that has a row
  events,    \* chain_events
  receipts,  \* receiptCache, in insertion order: the hash and its block
  run,       \* the transactions being executed
  poll,      \* a client that follows the log: its next block, what it got, what was under way
  answers,   \* the receipts served
  tangled,   \* pairs whose transactions overlapped or broke off
  counts     \* for the bounds

evmVars == <<counters, drawings, events, receipts, run, poll, answers, tangled, counts>>

-----------------------------------------------------------------------------
(* What a transaction still has to do, as statements.                      *)

Vacant == [stage |-> "free", tx |-> CHOOSE t \in Raw : TRUE, block |-> 0, token |-> 0, todo |-> <<>>]

Event(kind, token) == [op |-> "event", kind |-> kind, token |-> token]
Write(op, token) == [op |-> op, kind |-> "none", token |-> token]

\* The events of a token that goes, and of one that comes.
BurnEvents(token) == <<Event("SnapshotBurned", token), Event("out", token)>>
MintEvents(token) == <<Event("mint", token), Event("SnapshotPublished", token)>>

\* The token it replaces is not burned.
publishOver(old, token) == <<Write("upsert", token)>> \o MintEvents(token)

\* publish, once it has read the row of its pair.
publish(old, token) ==
  (IF old = 0 THEN <<>> ELSE BurnEvents(old)) \o <<Write("upsert", token)>> \o MintEvents(token)

\* deleteForMarket and burn, once they have their block.
deleteForMarket(token) == <<Write("delete", 0)>> \o BurnEvents(token)
burn(token) == <<Write("delete", token)>> \o BurnEvents(token)

\* The views: currentSnapshotOf, and the row that ownerOf, marketOf and tokenURI find.
currentSnapshotOf(p) == IF p \in DOMAIN drawings THEN drawings[p] ELSE 0
RowOf(token) == {p \in DOMAIN drawings : drawings[p] = token}

EvmInit ==
  /\ counters = [next |-> 1, block |-> 0]
  /\ drawings = <<>> /\ events = {} /\ receipts = <<>>
  /\ run = [s \in Slots |-> Vacant]
  /\ poll = [from |-> 0, got |-> {}, busy |-> {}]
  /\ answers = {} /\ tangled = {}
  /\ counts = [sends |-> 0, faults |-> 0, polls |-> 0]

-----------------------------------------------------------------------------
(* eth_sendRawTransaction.                                                 *)

Pair(r) == <<r.tx.from, r.tx.market>>
Busy(p) == {s \in Slots : run[s].stage # "free" /\ Pair(run[s]) = p}
Become(s, r) == run' = [run EXCEPT ![s] = r]
Finish(s) == Become(s, Vacant)
Rest == UNCHANGED <<receipts, poll, answers, counts>>

\* A raw transaction arrives, decoded and its signer recovered.
handleSendRawTransaction(s, t) ==
  /\ run[s].stage = "free" /\ counts.sends < MaxSends
  /\ counts' = [counts EXCEPT !.sends = @ + 1]
  /\ Become(s, [Vacant EXCEPT !.stage = IF t.fn = "publish" THEN "claim" ELSE "select", !.tx = t])
  /\ tangled' = IF Busy(<<t.from, t.market>>) # {} THEN tangled \cup {<<t.from, t.market>>} ELSE tangled
  /\ UNCHANGED <<counters, drawings, events, receipts, poll, answers>>

\* One UPDATE gives a publish its token and its block.
nextTokenAndBlock(s) ==
  /\ run[s].stage = "claim"
  /\ counters' = [next |-> counters.next + 1, block |-> counters.block + 1]
  /\ Become(s, [run[s] EXCEPT !.stage = "select", !.token = counters.next, !.block = counters.block + 1])
  /\ UNCHANGED <<drawings, events, tangled>> /\ Rest

\* The row: publish looks for a token to burn; the others revert without one
\* (NoSnapshot, TokenDoesNotExist, NotOwner).
SelectRow(s) ==
  LET r == run[s]
      t == r.tx
      mine == {p \in RowOf(t.token) : p[1] = t.from}
  IN /\ r.stage = "select"
     /\ CASE t.fn = "publish" ->
               /\ Become(s, [r EXCEPT !.stage = "run", !.todo = publish(currentSnapshotOf(Pair(r)), r.token)])
               /\ UNCHANGED tangled
          [] t.fn = "deleteForMarket" ->
               /\ IF currentSnapshotOf(Pair(r)) = 0 THEN Finish(s)
                  ELSE Become(s, [r EXCEPT !.stage = "tick", !.token = currentSnapshotOf(Pair(r))])
               /\ UNCHANGED tangled
          [] t.fn = "burn" ->
               IF mine = {} THEN Finish(s) /\ UNCHANGED tangled
               ELSE LET p == CHOOSE q \in mine : TRUE IN
                    /\ Become(s, [r EXCEPT !.stage = "tick", !.token = t.token, !.tx.market = p[2]])
                    /\ tangled' = IF Busy(p) \ {s} # {} THEN tangled \cup {p} ELSE tangled
     /\ UNCHANGED <<counters, drawings, events>> /\ Rest

tickBlock(s) ==
  LET r == run[s] IN
  /\ r.stage = "tick"
  /\ counters' = [counters EXCEPT !.block = @ + 1]
  /\ Become(s, [r EXCEPT !.stage = "run", !.block = counters.block + 1,
                  !.todo = IF r.tx.fn = "burn" THEN burn(r.token) ELSE deleteForMarket(r.token)])
  /\ UNCHANGED <<drawings, events, tangled>> /\ Rest

\* The rest of the transaction, a statement at a time.  DELETE by pair takes
\* whatever token is there; DELETE by token only that one.
WriteRow(s) ==
  LET r == run[s]
      w == Head(r.todo)
      p == Pair(r)
      without == [q \in DOMAIN drawings \ {p} |-> drawings[q]]
  IN /\ r.stage = "run" /\ r.todo # <<>> /\ w.op # "event"
     /\ drawings' = IF w.op = "upsert" THEN [q \in DOMAIN drawings \cup {p} |->
                                               IF q = p THEN w.token ELSE drawings[q]]
                    ELSE IF w.token \in {0, currentSnapshotOf(p)} THEN without ELSE drawings
     /\ Become(s, [r EXCEPT !.todo = Tail(@)])
     /\ UNCHANGED <<counters, events, tangled>> /\ Rest

\* The log index counts the events of the transaction.
emitEvent(s) ==
  LET r == run[s]
      e == Head(r.todo)
      index == Cardinality({x \in events : x.block = r.block})
  IN /\ r.stage = "run" /\ r.todo # <<>> /\ e.op = "event"
     /\ events' = events \cup {[block |-> r.block, tx |-> r.tx, index |-> index,
                                kind |-> e.kind, token |-> e.token]}
     /\ Become(s, [r EXCEPT !.todo = Tail(@)])
     /\ UNCHANGED <<counters, drawings, tangled>> /\ Rest

\* The receipt is cached when everything has been written.  A hash that is
\* there already keeps its place.
CacheReceipt(s) ==
  LET r == run[s]
      at == {i \in DOMAIN receipts : receipts[i].tx = r.tx}
      new == [tx |-> r.tx, block |-> r.block]
  IN /\ r.stage = "run" /\ r.todo = <<>>
     /\ receipts' = IF at = {} THEN Append(receipts, new)
                    ELSE [i \in DOMAIN receipts |-> IF i \in at THEN new ELSE receipts[i]]
     /\ Finish(s)
     /\ UNCHANGED <<counters, drawings, events, poll, answers, tangled, counts>>

\* A statement fails: dispatch answers an error, and what was written stays.
Fail(s) ==
  /\ run[s].stage # "free" /\ counts.faults < MaxFaults
  /\ counts' = [counts EXCEPT !.faults = @ + 1]
  /\ Finish(s) /\ tangled' = tangled \cup {Pair(run[s])}
  /\ UNCHANGED <<counters, drawings, events, receipts, poll, answers>>

\* The process stops and starts again: the cache is gone, the tables are not.
Restart ==
  /\ counts.faults < MaxFaults
  /\ counts' = [counts EXCEPT !.faults = @ + 1]
  /\ receipts' = <<>> /\ run' = [s \in Slots |-> Vacant]
  /\ tangled' = tangled \cup {Pair(run[s]) : s \in {x \in Slots : run[x].stage # "free"}}
  /\ UNCHANGED <<counters, drawings, events, poll, answers>>

-----------------------------------------------------------------------------
(* Reads that matter: the receipt, and the log by blocks.                  *)

Logs(t) == {e \in events : e.tx = t}

\* The cache is trimmed by one when a receipt is asked for, after it was found.
handleGetReceipt(i) ==
  /\ counts.polls < MaxPolls /\ counts' = [counts EXCEPT !.polls = @ + 1]
  /\ answers' = answers \cup {[tx |-> receipts[i].tx, block |-> receipts[i].block,
                               logs |-> Logs(receipts[i].tx)]}
  /\ receipts' = IF Len(receipts) > MaxReceipts THEN Tail(receipts) ELSE receipts
  /\ UNCHANGED <<counters, drawings, events, run, poll, tangled>>

\* The last block left out.
handleGetLogsShort ==
  /\ counts.polls < MaxPolls /\ counts' = [counts EXCEPT !.polls = @ + 1]
  /\ poll' = [from |-> counters.block + 1,
              got |-> poll.got \cup {e \in events : e.block >= poll.from /\ e.block < counters.block},
              busy |-> poll.busy \cup {run[s].block : s \in {x \in Slots : run[x].stage # "free"}}]
  /\ UNCHANGED <<counters, drawings, events, receipts, run, answers, tangled>>

\* A client asks for the blocks since its last call, up to the latest, and
\* goes on from there.  busy: blocks whose transaction was under way.
handleGetLogs ==
  /\ counts.polls < MaxPolls /\ counts' = [counts EXCEPT !.polls = @ + 1]
  /\ poll' = [from |-> counters.block + 1,
              got |-> poll.got \cup {e \in events : e.block >= poll.from /\ e.block <= counters.block},
              busy |-> poll.busy \cup {run[s].block : s \in {x \in Slots : run[x].stage # "free"}}]
  /\ UNCHANGED <<counters, drawings, events, receipts, run, answers, tangled>>

Execute(s) ==
  \/ nextTokenAndBlock(s) \/ SelectRow(s) \/ tickBlock(s) \/ WriteRow(s) \/ emitEvent(s) \/ CacheReceipt(s)

EvmNext ==
  \/ \E s \in Slots : (\E t \in Raw : handleSendRawTransaction(s, t)) \/ Execute(s) \/ Fail(s)
  \/ Restart \/ handleGetLogs
  \/ \E i \in DOMAIN receipts : handleGetReceipt(i)

EvmSpec == EvmInit /\ [][EvmNext]_evmVars

-----------------------------------------------------------------------------
(* Properties.                                                             *)

Minted(token) == {e \in events : e.kind = "mint" /\ e.token = token}
Gone(token) == {e \in events : e.kind = "out" /\ e.token = token}
PairOf(e) == <<e.tx.from, e.tx.market>>

\* Between transactions the log tells the storage: the tokens minted and not
\* burned are the rows, and no token is burned twice or before it was minted,
\* for every pair whose transactions neither overlapped nor broke off.
LogReplays ==
  \A p \in Pairs \ tangled : Busy(p) = {} =>
    /\ {currentSnapshotOf(p)} \ {0} =
         {e.token : e \in {x \in events : PairOf(x) = p /\ x.kind = "mint" /\ Gone(x.token) = {}}}
    /\ \A e \in events : PairOf(e) = p /\ e.kind = "out" =>
         /\ Cardinality(Gone(e.token)) = 1
         /\ \E m \in Minted(e.token) : m.block < e.block

\* What readers are served is complete.  A receipt shows all the events of its
\* transaction, whatever ran beside it; a client that follows the log by blocks
\* misses only events of transactions that were being executed when it asked,
\* whose block is the latest before their events are there.
ReadersComplete ==
  /\ \A a \in answers :
       LET own == {e \in a.logs : e.block = a.block} IN
       /\ \E e \in own : e.kind = (IF a.tx.fn = "publish" THEN "SnapshotPublished" ELSE "out")
       /\ {e.index : e \in own} = 0 .. Cardinality(own) - 1
       /\ Cardinality(own) \in {2, 4}
  /\ \A e \in events : e.block < poll.from => e \in poll.got \/ e.block \in poll.busy

\* handlers.ts: publish mints "burning any prior snapshot for that pair
\* atomically": when nothing failed and nothing runs, the live tokens of a
\* pair are its row.
PublishIsAtomic ==
  (\A s \in Slots : run[s].stage = "free") /\ counts.faults = 0 =>
    \A p \in Pairs :
      {e.token : e \in {x \in events : PairOf(x) = p /\ x.kind = "mint" /\ Gone(x.token) = {}}}
        \subseteq {currentSnapshotOf(p)}
=============================================================================
