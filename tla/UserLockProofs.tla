---------------------------- MODULE UserLockProofs ----------------------------
(* The promise chain of withUserLock, for any number of users and calls. *)
EXTENDS UserLock, SequenceTheorems, TLAPS

(* What ties the chain of promises to the order of arrival.  A queued call *)
(* is live, is for that user and is queued once; the Map points at the     *)
(* last; each call but the first awaits the one before it and has not      *)
(* begun; every live call is queued.                                       *)
QueueLive ==
  \A u \in Users : \A i \in 1..Len(queue[u]) :
    Live(queue[u][i]) /\ user[queue[u][i]] = u
QueueDistinct ==
  \A u \in Users : \A i, j \in 1..Len(queue[u]) : queue[u][i] = queue[u][j] => i = j
TailIsLast ==
  \A u \in Users :
    tails[u] = IF queue[u] = <<>> THEN NoCall ELSE queue[u][Len(queue[u])]
ChainInOrder ==
  \A u \in Users : \A i \in 2..Len(queue[u]) :
    prev[queue[u][i]] = queue[u][i - 1] /\ pc[queue[u][i]] = "waiting"
LiveQueued ==
  \A c \in Calls : Live(c) => \E i \in 1..Len(queue[user[c]]) : queue[user[c]][i] = c

ChainInv == QueueLive /\ QueueDistinct /\ TailIsLast /\ ChainInOrder /\ LiveQueued

IInv == TypeOK /\ ChainInv

-----------------------------------------------------------------------------
(* What Append and Tail make of a queue. *)
LEMMA AppendFacts ==
  ASSUME NEW s \in Seq(Calls), NEW c \in Calls
  PROVE  Append(s, c) # <<>>
  BY AppendProperties

LEMMA TailFacts ==
  ASSUME NEW s \in Seq(Calls), s # <<>>
  PROVE  /\ Len(s) \in Nat /\ Len(s) >= 1
         /\ Len(Tail(s)) = Len(s) - 1
         /\ \A i \in 1..(Len(s) - 1) : Tail(s)[i] = s[i + 1]
         /\ Len(s) = 1 => Tail(s) = <<>>
         /\ Len(s) # 1 => Tail(s) # <<>> /\ Len(s) \in 2..Len(s)
                            /\ Len(s) - 1 \in 1..(Len(s) - 1)
<1>1. Len(s) \in Nat /\ Len(s) >= 1
  BY EmptySeq
<1>2. /\ Len(Tail(s)) = Len(s) - 1 /\ Tail(s) \in Seq(Calls)
      /\ \A i \in 1..Len(Tail(s)) : Tail(s)[i] = s[i + 1]
  BY HeadTailProperties
<1>3. ASSUME Len(s) # 1
      PROVE  Tail(s) # <<>> /\ Len(s) \in 2..Len(s) /\ Len(s) - 1 \in 1..(Len(s) - 1)
  <2>1. Len(Tail(s)) # 0 /\ Len(s) \in 2..Len(s) /\ Len(s) - 1 \in 1..(Len(s) - 1)
    BY <1>1, <1>2, <1>3
  <2> QED BY <2>1, EmptySeq
<1>4. Len(s) = 1 => Tail(s) = <<>>
  <2>1. Len(s) = 1 => Len(Tail(s)) = 0
    BY <1>2
  <2> QED BY <2>1, <1>2, EmptySeq
<1> QED BY <1>1, <1>2, <1>3, <1>4

(* A call whose section may begin or has begun is the first of its queue.  *)
LEMMA HeadOfQueue ==
  ASSUME IInv, NEW c \in Calls,
         pc[c] = "inside" \/ (pc[c] = "waiting" /\ (prev[c] # NoCall => pc[prev[c]] = "done"))
  PROVE  queue[user[c]] # <<>> /\ queue[user[c]][1] = c
<1> DEFINE q == queue[user[c]]
<1>1. PICK i \in 1..Len(q) : q[i] = c
  BY DEF IInv, ChainInv, LiveQueued, Live
<1>2. user[c] \in Users /\ q \in Seq(Calls)
  BY DEF IInv, TypeOK
<1>3. CASE i = 1
  BY <1>1, <1>2, <1>3
<1>4. CASE i # 1
  <2>1. i \in 2..Len(q) /\ i - 1 \in 1..Len(q)
    BY <1>1, <1>2, <1>4
  <2>2. pc[c] = "waiting" /\ prev[c] = q[i - 1]
    BY <1>1, <1>2, <2>1 DEF IInv, ChainInv, ChainInOrder
  <2>3. q[i - 1] \in Calls /\ pc[q[i - 1]] # "done"
    BY <1>2, <2>1 DEF IInv, ChainInv, QueueLive, Live
  <2> QED
    BY <2>2, <2>3, UserLockAssumption
<1> QED
  BY <1>3, <1>4

LEMMA InitIInv == Init => IInv
  BY UserLockAssumption
     DEF Init, IInv, TypeOK, ChainInv, QueueLive, QueueDistinct, TailIsLast, ChainInOrder,
         LiveQueued, Live

(* A new call goes to the end of its queue. *)
LEMMA ArriveStep ==
  ASSUME IInv, NEW c \in Calls, WithUserLock(c)
  PROVE  IInv'
<1> DEFINE u == user[c]
           q == queue[u]
<1> USE DEF WithUserLock
<1>0. u \in Users /\ q \in Seq(Calls) /\ Len(q) \in Nat /\ TypeOK /\ ChainInv
  BY DEF IInv, TypeOK
<1>1. TypeOK'
  BY <1>0, UserLockAssumption DEF TypeOK
<1>2. /\ queue'[u] = Append(q, c)
      /\ \A v \in Users : v # u => queue'[v] = queue[v]
      /\ \A v \in Users : queue[v] \in Seq(Calls)
  BY <1>0 DEF TypeOK
<1>3. /\ Len(queue'[u]) = Len(q) + 1
      /\ queue'[u][Len(q) + 1] = c
      /\ \A i \in 1..Len(q) : queue'[u][i] = q[i]
  BY <1>0, <1>2
<1>4. \A v \in Users : \A i \in 1..Len(queue[v]) : queue[v][i] # c /\ queue[v][i] \in Calls
  BY <1>0, <1>2 DEF ChainInv, QueueLive, Live
<1>5. \A d \in Calls : d # c => pc'[d] = pc[d] /\ prev'[d] = prev[d]
  BY <1>0 DEF TypeOK
<1>6. pc'[c] = "waiting" /\ prev'[c] = tails[u] /\ user' = user
  BY <1>0 DEF TypeOK
<1>7. QueueLive'
  BY <1>0, <1>2, <1>3, <1>4, <1>5, <1>6 DEF ChainInv, QueueLive, Live
<1>8. QueueDistinct'
  <2> SUFFICES ASSUME NEW v \in Users, NEW i \in 1..Len(queue'[v]), NEW j \in 1..Len(queue'[v]),
                      queue'[v][i] = queue'[v][j]
               PROVE  i = j
    BY DEF QueueDistinct
  <2>1. CASE v # u
    BY <2>1, <1>0, <1>2 DEF ChainInv, QueueDistinct
  <2>2. CASE v = u
    <3>1. i \in 1..Len(q) \/ i = Len(q) + 1
      BY <2>2, <1>0, <1>3
    <3>2. j \in 1..Len(q) \/ j = Len(q) + 1
      BY <2>2, <1>0, <1>3
    <3> QED
      BY <2>2, <3>1, <3>2, <1>0, <1>3, <1>4 DEF ChainInv, QueueDistinct
  <2> QED BY <2>1, <2>2
<1>9. TailIsLast'
  <2> SUFFICES ASSUME NEW v \in Users
               PROVE  tails'[v] = IF queue'[v] = <<>> THEN NoCall
                                  ELSE queue'[v][Len(queue'[v])]
    BY DEF TailIsLast
  <2>1. CASE v # u
    <3>1. tails'[v] = tails[v] /\ queue'[v] = queue[v]
      BY <2>1, <1>0, <1>2 DEF TypeOK
    <3> QED
      BY <3>1, <1>0 DEF ChainInv, TailIsLast
  <2>2. CASE v = u
    <3>1. tails'[u] = c
      BY <1>0 DEF TypeOK
    <3>2. queue'[u] # <<>>
      BY <1>0, <1>2, AppendFacts
    <3> QED
      BY <2>2, <3>1, <3>2, <1>3
  <2> QED BY <2>1, <2>2
<1>10. ChainInOrder'
  <2> SUFFICES ASSUME NEW v \in Users, NEW i \in 2..Len(queue'[v])
               PROVE  prev'[queue'[v][i]] = queue'[v][i - 1] /\ pc'[queue'[v][i]] = "waiting"
    BY DEF ChainInOrder
  <2>1. CASE v # u
    <3>1. i \in 2..Len(queue[v]) /\ i \in 1..Len(queue[v])
      BY <2>1, <1>2
    <3> QED
      BY <2>1, <3>1, <1>0, <1>2, <1>4, <1>5 DEF ChainInv, ChainInOrder
  <2>2. CASE v = u /\ i # Len(q) + 1
    <3>1. i \in 2..Len(q) /\ i \in 1..Len(q) /\ i - 1 \in 1..Len(q)
      BY <2>2, <1>0, <1>3
    <3> QED
      BY <2>2, <3>1, <1>0, <1>3, <1>4, <1>5 DEF ChainInv, ChainInOrder
  <2>3. CASE v = u /\ i = Len(q) + 1
    <3>1. Len(q) \in 1..Len(q) /\ q # <<>> /\ i - 1 = Len(q)
      BY <2>3, <1>0, <1>3
    <3> QED
      BY <2>3, <3>1, <1>0, <1>3, <1>6 DEF ChainInv, TailIsLast
  <2> QED BY <2>1, <2>2, <2>3
<1>11. LiveQueued'
  <2> SUFFICES ASSUME NEW d \in Calls, Live(d)'
               PROVE  \E i \in 1..Len(queue'[user[d]]) : queue'[user[d]][i] = d
    BY <1>6 DEF LiveQueued
  <2>1. CASE d = c
    BY <2>1, <1>0, <1>3
  <2>2. CASE d # c
    <3>1. PICK i \in 1..Len(queue[user[d]]) : queue[user[d]][i] = d
      BY <2>2, <1>0, <1>5 DEF ChainInv, LiveQueued, Live
    <3>2. user[d] \in Users
      BY <1>0 DEF TypeOK
    <3> QED
      BY <3>1, <3>2, <1>0, <1>2, <1>3
  <2> QED BY <2>1, <2>2
<1> QED
  BY <1>1, <1>7, <1>8, <1>9, <1>10, <1>11 DEF IInv, ChainInv

(* The steps that leave the queues, the Map and prev alone. *)
LEMMA InsideStep ==
  ASSUME IInv, NEW c \in Calls, Resume(c) \/ Nested(c) \/ NestedReturn(c)
  PROVE  IInv'
<1>0. TypeOK /\ ChainInv
  BY DEF IInv
<1>1. TypeOK'
  <2>1. CASE Resume(c)
    BY <2>1, <1>0 DEF TypeOK, Resume
  <2>2. CASE Nested(c)
    BY <2>2, <1>0 DEF TypeOK, Nested
  <2>3. CASE NestedReturn(c)
    BY <2>3, <1>0 DEF TypeOK, NestedReturn
  <2> QED BY <2>1, <2>2, <2>3
<1>2. UNCHANGED <<tails, user, prev, queue>>
  BY DEF Resume, Nested, NestedReturn
<1>3. \A d \in Calls : Live(d)' = Live(d)
  BY <1>0 DEF Live, Resume, Nested, NestedReturn, TypeOK
<1>4. \A u \in Users : queue[u] \in Seq(Calls)
  BY <1>0 DEF TypeOK
<1>5. QueueLive' /\ QueueDistinct' /\ TailIsLast' /\ LiveQueued'
  <2>1. QueueLive'
    BY <1>0, <1>2, <1>3, <1>4 DEF ChainInv, QueueLive
  <2>2. QueueDistinct' /\ TailIsLast'
    BY <1>0, <1>2 DEF ChainInv, QueueDistinct, TailIsLast
  <2>3. LiveQueued'
    BY <1>0, <1>2, <1>3 DEF ChainInv, LiveQueued
  <2> QED BY <2>1, <2>2, <2>3
<1>6. ChainInOrder'
  <2>1. CASE Resume(c)
    <3>1. queue[user[c]] # <<>> /\ queue[user[c]][1] = c
      BY <2>1, HeadOfQueue DEF Resume
    <3>2. \A u \in Users : \A i \in 2..Len(queue[u]) : queue[u][i] # c
      <4> SUFFICES ASSUME NEW u \in Users, NEW i \in 2..Len(queue[u]), queue[u][i] = c
                   PROVE  FALSE
        OBVIOUS
      <4>1. i \in 1..Len(queue[u]) /\ 1 \in 1..Len(queue[u]) /\ i # 1
        BY <1>4
      <4>2. u = user[c]
        BY <4>1, <1>0 DEF ChainInv, QueueLive
      <4> QED
        BY <4>1, <4>2, <3>1, <1>0 DEF ChainInv, QueueDistinct
    <3>3. \A d \in Calls : d # c => pc'[d] = pc[d]
      BY <2>1, <1>0 DEF Resume, TypeOK
    <3>4. \A u \in Users : \A i \in 2..Len(queue[u]) : queue[u][i] \in Calls
      BY <1>4
    <3> QED
      BY <1>0, <1>2, <3>2, <3>3, <3>4 DEF ChainInv, ChainInOrder
  <2>2. CASE Nested(c) \/ NestedReturn(c)
    BY <2>2, <1>0, <1>2 DEF ChainInv, ChainInOrder, Nested, NestedReturn
  <2> QED BY <2>1, <2>2
<1> QED
  BY <1>1, <1>5, <1>6 DEF IInv, ChainInv

(* The call that releases is the first of its queue and leaves it. *)
LEMMA ReleaseStep ==
  ASSUME IInv, NEW c \in Calls, Release(c)
  PROVE  IInv'
<1> DEFINE u == user[c]
           q == queue[u]
<1> USE DEF Release
<1>0. TypeOK /\ ChainInv /\ u \in Users /\ q \in Seq(Calls)
  BY DEF IInv, TypeOK
<1>1. q # <<>> /\ q[1] = c /\ Len(q) \in Nat /\ Len(q) >= 1
  BY <1>0, HeadOfQueue
<1>2. /\ queue'[u] = Tail(q)
      /\ \A v \in Users : v # u => queue'[v] = queue[v]
      /\ \A v \in Users : queue[v] \in Seq(Calls)
  BY <1>0 DEF TypeOK
<1>3. /\ Len(queue'[u]) = Len(q) - 1
      /\ \A i \in 1..(Len(q) - 1) : queue'[u][i] = q[i + 1]
  <2>1. Len(Tail(q)) = Len(q) - 1 /\ \A i \in 1..(Len(q) - 1) : Tail(q)[i] = q[i + 1]
    BY <1>0, <1>1, TailFacts
  <2> HIDE DEF q, u
  <2> QED BY <2>1, <1>2
<1>4. TypeOK'
  BY <1>0, <1>1, UserLockAssumption DEF TypeOK
<1>5. /\ \A d \in Calls : d # c => pc'[d] = pc[d]
      /\ pc'[c] = "done" /\ prev' = prev /\ user' = user
  BY <1>0 DEF TypeOK
<1>6. /\ \A i \in 2..Len(q) : q[i] # c /\ q[i] \in Calls
      /\ \A v \in Users : v # u => \A i \in 1..Len(queue[v]) : queue[v][i] # c /\ queue[v][i] \in Calls
  <2>1. \A i \in 2..Len(q) : q[i] # c /\ q[i] \in Calls
    BY <1>0, <1>1 DEF ChainInv, QueueDistinct
  <2>2. ASSUME NEW v \in Users, v # u, NEW i \in 1..Len(queue[v])
        PROVE  queue[v][i] # c /\ queue[v][i] \in Calls
    BY <2>2, <1>0, <1>2 DEF ChainInv, QueueLive
  <2> QED BY <2>1, <2>2
<1>7. \A i \in 1..(Len(q) - 1) : i + 1 \in 1..Len(q) /\ i + 1 \in 2..Len(q)
  BY <1>1
<1>8. QueueLive'
  <2> SUFFICES ASSUME NEW v \in Users, NEW i \in 1..Len(queue'[v])
               PROVE  /\ pc'[queue'[v][i]] \in {"waiting", "inside"}
                      /\ user'[queue'[v][i]] = v
    BY DEF QueueLive, Live
  <2>1. CASE v # u
    BY <2>1, <1>0, <1>2, <1>5, <1>6 DEF ChainInv, QueueLive, Live
  <2>2. CASE v = u
    <3>1. i \in 1..(Len(q) - 1) /\ queue'[u][i] = q[i + 1]
      BY <2>2, <1>3
    <3>2. q[i + 1] # c /\ q[i + 1] \in Calls /\ Live(q[i + 1]) /\ user[q[i + 1]] = u
      BY <3>1, <1>0, <1>6, <1>7 DEF ChainInv, QueueLive
    <3> QED
      BY <2>2, <3>1, <3>2, <1>5 DEF Live
  <2> QED BY <2>1, <2>2
<1>9. QueueDistinct'
  <2> SUFFICES ASSUME NEW v \in Users, NEW i \in 1..Len(queue'[v]), NEW j \in 1..Len(queue'[v]),
                      queue'[v][i] = queue'[v][j]
               PROVE  i = j
    BY DEF QueueDistinct
  <2>1. CASE v # u
    BY <2>1, <1>0, <1>2 DEF ChainInv, QueueDistinct
  <2>2. CASE v = u
    <3>1. /\ i \in 1..(Len(q) - 1) /\ j \in 1..(Len(q) - 1)
          /\ q[i + 1] = q[j + 1]
      BY <2>2, <1>3
    <3>2. i + 1 = j + 1
      BY <3>1, <1>0, <1>7 DEF ChainInv, QueueDistinct
    <3> QED BY <3>1, <3>2, <1>1
  <2> QED BY <2>1, <2>2
<1>10. TailIsLast'
  <2> SUFFICES ASSUME NEW v \in Users
               PROVE  tails'[v] = IF queue'[v] = <<>> THEN NoCall
                                  ELSE queue'[v][Len(queue'[v])]
    BY DEF TailIsLast
  <2>1. CASE v # u
    <3>1. tails'[v] = tails[v] /\ queue'[v] = queue[v]
      BY <2>1, <1>0, <1>2 DEF TypeOK
    <3> QED
      BY <3>1, <1>0 DEF ChainInv, TailIsLast
  <2>2. CASE v = u /\ Len(q) = 1
    <3>1. tails[u] = c
      BY <2>2, <1>0, <1>1 DEF ChainInv, TailIsLast
    <3>2. tails'[u] = NoCall /\ queue'[u] = <<>>
      <4>1. tails'[u] = NoCall
        BY <3>1, <1>0 DEF TypeOK
      <4>2. queue'[u] = <<>>
        <5>1. queue'[u] = Tail(q) /\ Len(q) = 1
          BY <2>2, <1>2
        <5> HIDE DEF q
        <5> QED BY <1>0, <1>1, <5>1, TailFacts
      <4> QED BY <4>1, <4>2
    <3> QED BY <2>2, <3>2
  <2>3. CASE v = u /\ Len(q) # 1
    <3>1. Len(q) \in 2..Len(q) /\ Len(q) - 1 \in 1..(Len(q) - 1) /\ Tail(q) # <<>>
      BY <2>3, <1>0, <1>1, TailFacts
    <3>2. tails[u] = q[Len(q)] /\ q[Len(q)] # c
      BY <3>1, <1>0, <1>1, <1>6 DEF ChainInv, TailIsLast
    <3>3. tails'[u] = q[Len(q)]
      BY <3>2, <1>0 DEF TypeOK
    <3>4. queue'[u][Len(queue'[u])] = q[Len(q)]
      BY <3>1, <1>1, <1>3
    <3>5. queue'[u] # <<>>
      BY <3>1, <1>2
    <3> QED BY <2>3, <3>3, <3>4, <3>5
  <2> QED BY <2>1, <2>2, <2>3
<1>11. ChainInOrder'
  <2> SUFFICES ASSUME NEW v \in Users, NEW i \in 2..Len(queue'[v])
               PROVE  prev'[queue'[v][i]] = queue'[v][i - 1] /\ pc'[queue'[v][i]] = "waiting"
    BY DEF ChainInOrder
  <2>1. CASE v # u
    <3>1. i \in 2..Len(queue[v]) /\ i \in 1..Len(queue[v]) /\ queue'[v] = queue[v]
      BY <2>1, <1>2
    <3> QED
      BY <2>1, <3>1, <1>0, <1>5, <1>6 DEF ChainInv, ChainInOrder
  <2>2. CASE v = u
    <3>1. /\ i + 1 \in 2..Len(q) /\ (i + 1) - 1 = i
          /\ i \in 1..(Len(q) - 1) /\ i - 1 \in 1..(Len(q) - 1)
      BY <2>2, <1>1, <1>3
    <3>2. queue'[u][i] = q[i + 1] /\ queue'[u][i - 1] = q[(i - 1) + 1] /\ (i - 1) + 1 = i
      BY <3>1, <1>3
    <3>3. prev[q[i + 1]] = q[i] /\ pc[q[i + 1]] = "waiting"
      BY <3>1, <1>0 DEF ChainInv, ChainInOrder
    <3> QED
      BY <2>2, <3>1, <3>2, <3>3, <1>5, <1>6
  <2> QED BY <2>1, <2>2
<1>12. LiveQueued'
  <2> SUFFICES ASSUME NEW d \in Calls, Live(d)'
               PROVE  \E i \in 1..Len(queue'[user[d]]) : queue'[user[d]][i] = d
    BY <1>5 DEF LiveQueued
  <2>1. d # c /\ Live(d) /\ user[d] \in Users
    BY <1>0, <1>5 DEF Live, TypeOK
  <2>2. PICK i \in 1..Len(queue[user[d]]) : queue[user[d]][i] = d
    BY <2>1, <1>0 DEF ChainInv, LiveQueued
  <2>3. CASE user[d] # u
    BY <2>1, <2>2, <2>3, <1>2
  <2>4. CASE user[d] = u
    <3>1. i - 1 \in 1..(Len(q) - 1) /\ (i - 1) + 1 = i
      BY <2>1, <2>2, <2>4, <1>1
    <3> DEFINE k == i - 1
    <3>2. k \in 1..Len(queue'[u]) /\ queue'[u][k] = q[k + 1]
      BY <3>1, <1>3
    <3>3. queue'[u][k] = d
      BY <2>2, <2>4, <3>1, <3>2
    <3> HIDE DEF k
    <3> QED BY <2>4, <3>2, <3>3
  <2> QED BY <2>3, <2>4
<1> QED
  BY <1>4, <1>8, <1>9, <1>10, <1>11, <1>12 DEF IInv, ChainInv

LEMMA Inductive == IInv /\ [Next]_vars => IInv'
<1> SUFFICES ASSUME IInv, [Next]_vars PROVE IInv'
  OBVIOUS
<1>1. CASE UNCHANGED vars
  <2>1. TypeOK'
    BY <1>1 DEF vars, IInv, TypeOK
  <2>2. ChainInv'
    BY <1>1 DEF vars, IInv, ChainInv, QueueLive, QueueDistinct, TailIsLast, ChainInOrder,
                LiveQueued, Live
  <2> QED BY <2>1, <2>2 DEF IInv
<1>2. ASSUME NEW c \in Calls, WithUserLock(c) PROVE IInv'
  BY <1>2, ArriveStep
<1>3. ASSUME NEW c \in Calls, Resume(c) \/ Nested(c) \/ NestedReturn(c) PROVE IInv'
  BY <1>3, InsideStep
<1>4. ASSUME NEW c \in Calls, Release(c) PROVE IInv'
  BY <1>4, ReleaseStep
<1> QED
  BY <1>1, <1>2, <1>3, <1>4 DEF Next, Terminated

THEOREM Invariance == Spec => []IInv
  BY InitIInv, Inductive, PTL DEF Spec

-----------------------------------------------------------------------------
(* The variables of withUserLock keep their shape, and the chain of        *)
(* promises is the queue of unfinished calls, in every reachable state.    *)
THEOREM TypeCorrect == Spec => []TypeOK
<1>1. IInv => TypeOK
  BY DEF IInv
<1> QED BY <1>1, Invariance, PTL

(* No two calls are ever in the section of one user (MutualExclusion), for *)
(* any number of users and calls: the promise of "queues behind the        *)
(* previous holder" in userLock.ts.                                        *)
THEOREM Exclusion == Spec => []MutualExclusion
<1>1. IInv => MutualExclusion
  <2> SUFFICES ASSUME IInv, NEW c \in Calls, NEW d \in Calls,
                      pc[c] = "inside", pc[d] = "inside", user[c] = user[d]
               PROVE  c = d
    BY DEF MutualExclusion
  <2>1. queue[user[c]][1] = c
    BY HeadOfQueue
  <2>2. queue[user[d]][1] = d
    BY HeadOfQueue
  <2> QED BY <2>1, <2>2
<1> QED BY <1>1, Invariance, PTL

(* The Map holds an entry for a user exactly while a call of that user is  *)
(* waiting or inside: the delete in the finally block neither leaks an     *)
(* entry nor drops one that a waiting call's successor must await.         *)
THEOREM NoLeak == Spec => []TailsClean
<1>1. IInv => TailsClean
  <2> SUFFICES ASSUME IInv, NEW u \in Users
               PROVE  tails[u] # NoCall <=> \E c \in Calls : Live(c) /\ user[c] = u
    BY DEF TailsClean
  <2>0. queue[u] \in Seq(Calls)
    BY DEF IInv, TypeOK
  <2>1. ASSUME tails[u] # NoCall PROVE \E c \in Calls : Live(c) /\ user[c] = u
    <3>1. queue[u] # <<>>
      BY <2>1 DEF IInv, ChainInv, TailIsLast
    <3>2. 1 \in 1..Len(queue[u]) /\ queue[u][1] \in Calls
      BY <2>0, <3>1
    <3> QED BY <3>2 DEF IInv, ChainInv, QueueLive
  <2>2. ASSUME NEW c \in Calls, Live(c), user[c] = u PROVE tails[u] # NoCall
    <3>1. PICK i \in 1..Len(queue[u]) : queue[u][i] = c
      BY <2>2 DEF IInv, ChainInv, LiveQueued
    <3>2. queue[u] # <<>> /\ queue[u][Len(queue[u])] \in Calls
      BY <2>0, <3>1
    <3> QED BY <3>2, UserLockAssumption DEF IInv, ChainInv, TailIsLast
  <2> QED BY <2>1, <2>2
<1> QED BY <1>1, Invariance, PTL

(* withUserLock implements the first-come-first-served mutex: every step   *)
(* is an arrival, an entry of the head, a departure of the head or, for a  *)
(* nested call, nothing at all.                                            *)
THEOREM Refinement == Spec => ImplementsFifo
<1> USE DEF Fifo!vars, Inside
<1>1. Init => Fifo!Init
  BY DEF Init, Fifo!Init
<1>2. IInv /\ [Next]_vars => [Fifo!Next]_(Fifo!vars)
  <2> SUFFICES ASSUME IInv, [Next]_vars PROVE [Fifo!Next]_(Fifo!vars)
    OBVIOUS
  <2>0. TypeOK
    BY DEF IInv
  <2>1. CASE UNCHANGED vars
    BY <2>1 DEF vars
  <2>2. ASSUME NEW c \in Calls, WithUserLock(c) PROVE Fifo!Next
    <3>1. user[c] \in Users
      BY <2>0 DEF TypeOK
    <3>2. \A v \in Users : \A i \in 1..Len(queue[v]) : queue[v][i] # c
      BY <2>2 DEF IInv, ChainInv, QueueLive, Live, WithUserLock
    <3>3. UNCHANGED Inside
      BY <2>0, <2>2 DEF WithUserLock, TypeOK
    <3>4. Fifo!Arrive(user[c], c)
      BY <2>2, <3>2, <3>3 DEF Fifo!Arrive, WithUserLock
    <3> QED BY <3>1, <3>4 DEF Fifo!Next
  <2>3. ASSUME NEW c \in Calls, Resume(c) PROVE Fifo!Next
    <3>1. queue[user[c]] # <<>> /\ Head(queue[user[c]]) = c /\ user[c] \in Users
      BY <2>0, <2>3, HeadOfQueue DEF Resume, TypeOK
    <3>2. c \notin Inside /\ Inside' = Inside \cup {c}
      BY <2>0, <2>3 DEF Resume, TypeOK
    <3>3. Fifo!Enter(user[c])
      BY <2>3, <3>1, <3>2 DEF Fifo!Enter, Resume
    <3> HIDE DEF Inside
    <3> QED BY <3>1, <3>3 DEF Fifo!Next, Fifo!Enter, Fifo!Leave
  <2>4. ASSUME NEW c \in Calls, Nested(c) \/ NestedReturn(c) PROVE UNCHANGED Fifo!vars
    BY <2>4 DEF Nested, NestedReturn
  <2>5. ASSUME NEW c \in Calls, Release(c) PROVE Fifo!Next
    <3>1. queue[user[c]] # <<>> /\ Head(queue[user[c]]) = c /\ user[c] \in Users
      BY <2>0, <2>5, HeadOfQueue DEF Release, TypeOK
    <3>2. c \in Inside /\ Inside' = Inside \ {c}
      BY <2>0, <2>5 DEF Release, TypeOK
    <3>3. Fifo!Leave(user[c])
      BY <2>5, <3>1, <3>2 DEF Fifo!Leave, Release
    <3> HIDE DEF Inside
    <3> QED BY <3>1, <3>3 DEF Fifo!Next, Fifo!Enter, Fifo!Leave
  <2> QED
    BY <2>1, <2>2, <2>3, <2>4, <2>5 DEF Next, Terminated
<1> QED
  BY <1>1, <1>2, Invariance, PTL DEF Spec, ImplementsFifo, Fifo!Spec

=============================================================================
