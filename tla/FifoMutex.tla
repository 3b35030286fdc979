------------------------------ MODULE FifoMutex ------------------------------
(* What the per-user lock promises: for every user the calls are served    *)
(* one at a time and in the order they came; users are independent.        *)
EXTENDS Sequences, Naturals

CONSTANTS Users, Calls

VARIABLES
  queue,    \* per user, the calls not finished yet, first come first
  inside    \* the calls in their critical section

vars == <<queue, inside>>

Init == queue = [u \in Users |-> <<>>] /\ inside = {}

Arrive(u, c) ==
  /\ \A v \in Users : \A i \in 1..Len(queue[v]) : queue[v][i] # c
  /\ queue' = [queue EXCEPT ![u] = Append(@, c)]
  /\ UNCHANGED inside

Enter(u) ==
  /\ queue[u] # <<>> /\ Head(queue[u]) \notin inside
  /\ inside' = inside \cup {Head(queue[u])}
  /\ UNCHANGED queue

Leave(u) ==
  /\ queue[u] # <<>> /\ Head(queue[u]) \in inside
  /\ inside' = inside \ {Head(queue[u])}
  /\ queue' = [queue EXCEPT ![u] = Tail(@)]

Next == \E u \in Users : Enter(u) \/ Leave(u) \/ \E c \in Calls : Arrive(u, c)

Spec == Init /\ [][Next]_vars

(* The head of a queue gets in, and out again, whatever other users do.    *)
FairSpec == Spec /\ \A u \in Users : WF_vars(Enter(u)) /\ WF_vars(Leave(u))

=============================================================================
