------------------------------ MODULE UserLock -------------------------------
(***************************************************************************)
(* utils/userLock.ts: withUserLock, a per-user critical section made of a  *)
(* chain of promises.  Each outermost call puts its own promise at the     *)
(* tail of the user's chain and awaits the one before it; a call made from *)
(* inside the section of the same user runs straight through.              *)
(*                                                                         *)
(* One member of Calls is one outermost invocation, and stands for the     *)
(* promise `tail` it creates, which settles when the invocation releases   *)
(* (it also waits for the promise before it, which the invocation awaited  *)
(* before it could release).  The code before the first await is one step, *)
(* and so is the finally block.  A section that throws ends the same way   *)
(* as one that returns.                                                    *)
(***************************************************************************)
EXTENDS Sequences, Naturals

CONSTANTS
  Users,
  Calls,     \* outermost invocations of withUserLock
  NoCall,    \* no promise: the Map has no entry, or prev is Promise.resolve()
  MaxDepth   \* bound: nesting of calls inside a section

ASSUME UserLockAssumption == NoCall \notin Calls /\ MaxDepth \in Nat

VARIABLES
  tails,   \* the Map: the promise at the end of each user's chain
  pc,      \* new, waiting (await prev), inside (await fn()), done
  user,    \* the user each invocation is for
  depth,   \* nested invocations that are running inside an invocation's fn()
  prev     \* the promise an invocation awaits

(* History: per user, the invocations not finished, oldest first. *)
VARIABLE queue

vars == <<tails, pc, user, depth, prev, queue>>

Init ==
  /\ tails = [u \in Users |-> NoCall]
  /\ pc = [c \in Calls |-> "new"]
  /\ user \in [Calls -> Users]
  /\ depth = [c \in Calls |-> 0]
  /\ prev = [c \in Calls |-> NoCall]
  /\ queue = [u \in Users |-> <<>>]

\* An outermost call takes its place at the tail and awaits prev.
WithUserLock(c) ==
  LET u == user[c] IN
  /\ pc[c] = "new"
  /\ prev' = [prev EXCEPT ![c] = tails[u]]
  /\ tails' = [tails EXCEPT ![u] = c]
  /\ pc' = [pc EXCEPT ![c] = "waiting"]
  /\ queue' = [queue EXCEPT ![u] = Append(@, c)]
  /\ UNCHANGED <<user, depth>>

\* prev has settled: the section begins.
Resume(c) ==
  /\ pc[c] = "waiting"
  /\ prev[c] # NoCall => pc[prev[c]] = "done"
  /\ pc' = [pc EXCEPT ![c] = "inside"]
  /\ UNCHANGED <<tails, user, depth, prev, queue>>

\* Variant: `held` is not looked at, and the nested call awaits the tail.
NestedQueues(c) ==
  /\ pc[c] = "inside" /\ depth[c] < MaxDepth
  /\ prev' = [prev EXCEPT ![c] = tails[user[c]]]
  /\ pc' = [pc EXCEPT ![c] = "waiting"]
  /\ UNCHANGED <<tails, user, depth, queue>>

\* A call for the same user from inside fn(): the async context holds the
\* user already, so it neither queues nor touches the Map.
Nested(c) ==
  /\ pc[c] = "inside" /\ depth[c] < MaxDepth
  /\ depth' = [depth EXCEPT ![c] = @ + 1]
  /\ UNCHANGED <<tails, pc, user, prev, queue>>

NestedReturn(c) ==
  /\ pc[c] = "inside" /\ depth[c] > 0
  /\ depth' = [depth EXCEPT ![c] = @ - 1]
  /\ UNCHANGED <<tails, pc, user, prev, queue>>

\* Variant: the Map entry stays.
ReleaseKeeps(c) ==
  /\ pc[c] = "inside" /\ depth[c] = 0
  /\ pc' = [pc EXCEPT ![c] = "done"]
  /\ queue' = [queue EXCEPT ![user[c]] = Tail(@)]
  /\ UNCHANGED <<tails, user, depth, prev>>

\* The finally block: release, and drop the Map entry if nobody queued behind.
Release(c) ==
  LET u == user[c] IN
  /\ pc[c] = "inside" /\ depth[c] = 0
  /\ pc' = [pc EXCEPT ![c] = "done"]
  /\ tails' = [tails EXCEPT ![u] = IF @ = c THEN NoCall ELSE @]
  /\ queue' = [queue EXCEPT ![u] = Tail(@)]
  /\ UNCHANGED <<user, depth, prev>>

\* Every invocation has returned.
Terminated == (\A c \in Calls : pc[c] = "done") /\ UNCHANGED vars

Next ==
  \/ \E c \in Calls :
       WithUserLock(c) \/ Resume(c) \/ Nested(c) \/ NestedReturn(c) \/ Release(c)
  \/ Terminated

Spec == Init /\ [][Next]_vars

(* A settled promise resumes its waiter, and every fn() settles, nested    *)
(* calls included: Redis answers or the command fails.                     *)
FairSpec ==
  /\ Spec
  /\ \A c \in Calls : WF_vars(Resume(c)) /\ WF_vars(NestedReturn(c)) /\ SF_vars(Release(c))

-----------------------------------------------------------------------------
(* Every variable keeps its shape. *)
TypeOK ==
  /\ tails \in [Users -> Calls \cup {NoCall}]
  /\ pc \in [Calls -> {"new", "waiting", "inside", "done"}]
  /\ user \in [Calls -> Users]
  /\ depth \in [Calls -> Nat]
  /\ prev \in [Calls -> Calls \cup {NoCall}]
  /\ queue \in [Users -> Seq(Calls)]

Live(c) == pc[c] \in {"waiting", "inside"}

(* At most one call is inside the section of a user: nothing interleaves   *)
(* with a fill, a liquidation or a margin change that holds the lock.      *)
MutualExclusion ==
  \A c, d \in Calls :
    pc[c] = "inside" /\ pc[d] = "inside" /\ user[c] = user[d] => c = d

(* The Map does not leak and does not forget: it has an entry for a user   *)
(* exactly while some call for that user is waiting or inside.             *)
TailsClean ==
  \A u \in Users : tails[u] # NoCall <=> \E c \in Calls : Live(c) /\ user[c] = u

Inside == {c \in Calls : pc[c] = "inside"}

Fifo == INSTANCE FifoMutex WITH inside <- Inside

(* The chain of promises behaves as one first-come-first-served queue per  *)
(* user; nested calls are invisible.                                       *)
ImplementsFifo == Fifo!Spec

(* Under fairness each queue moves, whatever the other users do.           *)
ImplementsFairFifo == Fifo!FairSpec
=============================================================================
