-------------------------------- MODULE Twap --------------------------------
(***************************************************************************)
(* TWAPs beside the trailing stops of the same user and asset: creation    *)
(* and cancel (engine/order.ts) and the matcher's pass over twaps:active   *)
(* (worker/order-matcher.ts).  A slice is an IOC order that fills through  *)
(* the executeFill of module Trailing, so that it can orphan stops and is  *)
(* clamped or dropped when reduce-only.                                    *)
(*                                                                         *)
(* Time counts TWAP_SLICE_INTERVAL_MS; sizes count steps of szDecimals.    *)
(***************************************************************************)
EXTENDS Trailing

CONSTANTS
  Orders,   \* the TWAPs a client asks for: [buy, ro, total, slices]
  Catchup,  \* TWAP_MAX_CATCHUP_MULTIPLIER
  MaxTime   \* bound: the clock

ASSUME TwapAssumption ==
  /\ Orders \subseteq [buy : BOOLEAN, ro : BOOLEAN, total : Nat \ {0}, slices : Nat \ {0}]
  /\ Catchup \in Nat \ {0} /\ MaxTime \in Nat

VARIABLES
  now,
  twap,     \* the hash of the one TWAP
  active,   \* it is in twaps:active
  pass,     \* the matcher's pass over it
  canceller,\* cancelTwapOrder between its read and its writes
  history,  \* the terminal row in twapHistory
  executed, \* what the slices filled
  clobbered \* a record was written over after it changed since it was read

twapVars == <<now, twap, active, pass, canceller, history, executed, clobbered>>

aside == <<orderVars, fillVars, markVars, sweepVars, matcher, client>>

NoTwap == [status |-> "none", buy |-> FALSE, ro |-> FALSE, total |-> 0, slices |-> 0,
           filled |-> 0, start |-> 0, next |-> 0]
NoTwapPass == [stage |-> "idle", data |-> NoTwap, now |-> 0, slice |-> 0]

TwapInit ==
  /\ Init /\ now = 0 /\ twap = NoTwap /\ active = FALSE /\ pass = NoTwapPass
  /\ canceller = None /\ history = None /\ executed = 0 /\ clobbered = FALSE

\* Time matters while the TWAP runs.
Tick ==
  /\ twap.status = "running" /\ now < MaxTime /\ now' = now + 1
  /\ UNCHANGED <<vars, twap, active, pass, canceller, history, executed, clobbered>>

\* The record, then the set; the minimum of $10 a slice is the client's matter.
createTwapOrder(r) ==
  /\ twap = NoTwap /\ Request
  /\ twap' = [status |-> "running", buy |-> r.buy, ro |-> r.ro, total |-> r.total,
              slices |-> r.slices, filled |-> 0, start |-> now, next |-> now]
  /\ active' = TRUE
  /\ UNCHANGED <<aside, now, pass, canceller, history, executed, clobbered>>

\* recordTwapHistory: the first row stays.
recordTwapHistory(status, n) ==
  history' = IF history = None THEN [status |-> status, executed |-> n] ELSE history

\* A writer whose record is no longer the one it read.
Overwrites(data) == clobbered' = (clobbered \/ twap # data)

CancelTwapRead ==
  /\ canceller = None /\ twap.status = "running" /\ canceller' = twap /\ Request
  /\ UNCHANGED <<aside, now, twap, active, pass, history, executed, clobbered>>

cancelTwapOrder ==
  /\ canceller # None
  /\ twap' = [twap EXCEPT !.status = "cancelled"] /\ active' = FALSE
  /\ recordTwapHistory("cancelled", canceller.filled)
  /\ clobbered' = (clobbered \/ twap # canceller \/ pass.stage # "idle") /\ canceller' = None
  /\ UNCHANGED <<vars, now, pass, executed>>

-----------------------------------------------------------------------------
(* matchTwaps, when the matcher is not with the stops.                     *)

StartTwaps ==
  /\ matcher = NoPass /\ fill["matcher"] = NoFill /\ pass = NoTwapPass /\ active
  /\ pass' = [NoTwapPass EXCEPT !.stage = "read", !.now = now]
  /\ UNCHANGED <<vars, now, twap, active, canceller, history, executed, clobbered>>

\* The slice: at least the even share, the gap to the linear target when
\* behind, at most Catchup shares and what is left, rounded down.
Min2(a, b) == IF a < b THEN a ELSE b
Max2(a, b) == IF a > b THEN a ELSE b
SliceSize(d, t) ==
  LET gap == Max2(0, d.total * (t - d.start) - d.filled * d.slices)
      remaining == Max2(0, d.total - d.filled)
  IN Min2(Min2(Max2(gap, d.total), d.total * Catchup), remaining * d.slices) \div d.slices

\* The record: gone from the set when it no longer runs (only a cancel gets
\* between the set and the record), finished when its time is over or it is
\* full, left alone until its next slice is due.
TwapRead ==
  LET d == twap
      t == pass.now
      over == t >= d.start + d.slices \/ d.filled >= d.total
  IN /\ pass.stage = "read"
     /\ \/ /\ d.status # "running" /\ active' = FALSE
           /\ recordTwapHistory(d.status, d.filled)
           /\ pass' = NoTwapPass
        \/ /\ d.status = "running" /\ over
           /\ pass' = [pass EXCEPT !.stage = "finish", !.data = d]
           /\ UNCHANGED <<active, history>>
        \/ /\ d.status = "running" /\ ~over
           /\ pass' = IF t < d.next \/ SliceSize(d, t) = 0 THEN NoTwapPass
                      ELSE [pass EXCEPT !.stage = "submit", !.data = d, !.slice = SliceSize(d, t)]
           /\ UNCHANGED <<active, history>>
     /\ UNCHANGED <<vars, now, twap, canceller, executed, clobbered>>

TwapFinish ==
  /\ pass.stage = "finish" /\ pass' = NoTwapPass
  /\ twap' = [twap EXCEPT !.status = "finished"] /\ active' = FALSE
  /\ recordTwapHistory("finished", pass.data.filled)
  /\ clobbered' = (clobbered \/ twap # pass.data \/ canceller # None)
  /\ UNCHANGED <<vars, now, canceller, executed>>

\* placeOrders with an IOC: refused (no mid, no margin), or on to its fill.
TwapSubmit ==
  /\ pass.stage = "submit"
  /\ \/ pass' = [pass EXCEPT !.stage = "bump"] /\ UNCHANGED fill
     \/ /\ pass' = [pass EXCEPT !.stage = "slice"]
        /\ Become("matcher", [NoFill EXCEPT !.stage = "wait", !.buy = pass.data.buy,
                                            !.sz = pass.slice, !.ro = pass.data.ro])
  /\ UNCHANGED <<orderVars, szi, lock, seen, markVars, sweepVars, matcher, client, ops,
                 now, twap, active, canceller, history, executed, clobbered>>

\* The record is not saved.
TwapProgressLost ==
  /\ \/ pass.stage = "bump"
     \/ pass.stage = "slice" /\ fill["matcher"] = NoFill
  /\ pass' = NoTwapPass
  /\ UNCHANGED <<vars, now, twap, active, canceller, history, executed, clobbered>>

\* The answer says the slice's size, clamped or skipped as it may have been;
\* the progress is what was read at the start plus that.
TwapProgress ==
  /\ \/ pass.stage = "bump"
     \/ pass.stage = "slice" /\ fill["matcher"] = NoFill
  /\ pass' = NoTwapPass
  /\ twap' = [twap EXCEPT !.next = pass.now + 1,
                !.filled = IF pass.stage = "slice" THEN pass.data.filled + pass.slice ELSE @]
  /\ Overwrites(pass.data)
  /\ UNCHANGED <<vars, now, active, canceller, history, executed>>

\* The steps of the stops, and of the fills: a slice's fill is counted.
Filling == pass.stage = "slice" /\ fill["matcher"].stage = "write" /\ fill'["matcher"].stage = "list"
TrailingStep ==
  /\ \/ (Around \/ (pass = NoTwapPass /\ Pass)) /\ UNCHANGED sweepVars
     \/ Sweep
  /\ executed' = IF Filling THEN executed + Size(fill["matcher"]) ELSE executed
  /\ UNCHANGED <<now, twap, active, pass, canceller, history, clobbered>>

TwapNext ==
  \/ TrailingStep \/ Tick \/ (\E r \in Orders : createTwapOrder(r))
  \/ CancelTwapRead \/ cancelTwapOrder
  \/ StartTwaps \/ TwapRead \/ TwapFinish \/ TwapSubmit \/ TwapProgress

TwapSpec == TwapInit /\ [][TwapNext]_<<vars, twapVars>>

-----------------------------------------------------------------------------
(* Properties.                                                             *)

\* A TWAP never trades more than was asked, through missed and late slices,
\* refusals, catching up and a cancel at any moment; and the row that /info
\* twapHistory shows of an ended one is what it traded and how it ended, unless
\* the end and a slice overlapped (a reduce-only TWAP counts what it asked for
\* and is left out of this half).
TwapAccounted ==
  /\ executed <= twap.total
  /\ history # None /\ ~clobbered /\ ~twap.ro =>
       history.executed = executed /\ history.status = twap.status

\* order-matcher.ts: "Update progress only if something actually filled."
ProgressIsFilled == pass = NoTwapPass /\ fill["matcher"] = NoFill => twap.filled = executed
=============================================================================
