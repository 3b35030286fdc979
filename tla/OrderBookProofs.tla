--------------------------- MODULE OrderBookProofs ---------------------------
(***************************************************************************)
(* Safety of OrderBook: no double fill, cancels that stick, resting limit  *)
(* orders that stay indexed, one exit per bracket and legs that wait for   *)
(* their entry, for any number of orders, calls, passes and restarts.      *)
(*                                                                         *)
(* The argument.  Before its fill an order is in the hands of at most one  *)
(* process (OneHand): the placement that created it, which owns it until   *)
(* it is on the book (Owner, Fresh), or the one running pass (OnePass),    *)
(* which takes it from a queue of saved orders (KnownQueue) and only when  *)
(* it reads it as open.  A filled or finally cancelled order is never open *)
(* again (Filled, Final), so no pass takes it in hand.                     *)
(*                                                                         *)
(* Then brackets: one exit per bracket (OneExit) and legs that sleep while *)
(* their entry rests (LegsSleep). A link goes only for a reason that the   *)
(* properties allow for (Cut, Drop), and a pass that fills a leg comes to  *)
(* its siblings before another pass can start (ChaseStarts, ChaseGoesOn).  *)
(*                                                                         *)
(* First, type correctness.  TypeOK is not inductive as it stands: that an *)
(* order a call works on has an oid, or that a placement has a wire left,  *)
(* depends on where the call is.  Shape says what each label of a call     *)
(* asks of its order and its local variables.  Every action is a step of   *)
(* one process, so it is enough that the process moves to a place in shape *)
(* (MoveShape) and that the shared variables keep their types              *)
(* (SharedTypesStep).                                                      *)
(***************************************************************************)
EXTENDS OrderBook, TLAPS

-----------------------------------------------------------------------------
(* The shape of a running call.                                            *)

PassLabels == {"idle", "open", "trig", "parent", "check", "fill", "locked", "unindex",
               "sweep", "sweepCancel"} \cup Siblings
ReqLabels  == {"idle", "place", "save", "rest", "list", "fill", "locked", "modify", "carry",
               "cancel", "cancelWrite", "cascade", "unlink", "kids", "tick", "reset"}
              \cup Siblings

\* Working on an order it holds in cur.
Holding == {"parent", "check", "fill", "locked", "unindex", "sweepCancel", "save", "rest",
            "list", "cancelWrite", "cascade", "unlink"} \cup Siblings
\* Placing the wire at the head of wires.
Placing == {"save", "rest", "list", "fill", "locked"} \cup Siblings
\* In the last phase of a pass.
Sweeping == {"sweep", "sweepCancel"}

\* What label lab asks of the order c and the local variables l of process p.
OkShape(p, lab, c, l) ==
  /\ p \in Passes => lab \in PassLabels
  /\ p \in Reqs => lab \in ReqLabels
  /\ lab = "idle" => l = Blank
  /\ lab \in Holding => c \in Oids
  /\ p \in Reqs /\ lab \in Placing => l.wires # <<>>
  /\ lab \in {"modify", "carry"} => l.old \in Oids
  /\ l.rest # {} => l.first # NoOid /\ l.old = NoOid

Shape == \A p \in Procs : OkShape(p, pc[p], cur[p], loc[p])

\* p goes to label lab with order c and locals l; nobody else moves.
Moves(p, lab, c, l) ==
  /\ pc' = [pc EXCEPT ![p] = lab]
  /\ cur' = [cur EXCEPT ![p] = c]
  /\ loc' = [loc EXCEPT ![p] = l]

(* A process that moves to a good place keeps every process in shape. *)
LEMMA MoveShape ==
  ASSUME TypeOK, Shape, NEW p \in Procs, NEW lab, NEW c \in Oids \cup {NoOid}, NEW l \in Local,
         Moves(p, lab, c, l), OkShape(p, lab, c, l)
  PROVE  ProcTypes' /\ Shape'
<1>1. lab \in Labels
  <2>1. p \in Passes => lab \in Labels
    BY DEF OkShape, PassLabels, Labels
  <2>2. p \in Reqs => lab \in Labels
    BY DEF OkShape, ReqLabels, Labels
  <2> QED BY <2>1, <2>2 DEF Procs
<1>2. ProcTypes'
  BY <1>1 DEF Moves, TypeOK, ProcTypes
<1>3. ASSUME NEW q \in Procs PROVE OkShape(q, pc'[q], cur'[q], loc'[q])
  <2>1. CASE q = p
    BY <2>1 DEF Moves, TypeOK, ProcTypes
  <2>2. CASE q # p
    <3>1. pc'[q] = pc[q] /\ cur'[q] = cur[q] /\ loc'[q] = loc[q]
      BY <2>2 DEF Moves, TypeOK, ProcTypes
    <3> QED BY <3>1 DEF Shape
  <2> QED BY <2>1, <2>2
<1> QED BY <1>2, <1>3 DEF Shape, OkShape

-----------------------------------------------------------------------------
(* The types of the shared variables.                                      *)

LEMMA BlankLocal == Blank \in Local
  BY DEF Blank, Local, NoOid, Groupings, Kinds

LEMMA LocalFacts ==
  ASSUME TypeOK, NEW p \in Procs
  PROVE  /\ loc[p] \in Local /\ cur[p] \in Oids \cup {NoOid} /\ pc[p] \in Labels
         /\ loc[p].todo \subseteq Oids /\ loc[p].kids \subseteq Oids /\ loc[p].sibs \subseteq Oids
         /\ loc[p].rest \subseteq Oids /\ loc[p].first \in Oids \cup {NoOid}
         /\ loc[p].old \in Oids \cup {NoOid} /\ loc[p].par \in Oids \cup {NoOid}
         /\ loc[p].wires \in Seq(Wires)
  BY DEF TypeOK, ProcTypes, Local

LEMMA SetStatusType ==
  ASSUME BookTypes, NEW S, NEW st \in Statuses, SetStatus(S, st)
  PROVE  /\ order' \in [Oids -> Order]
         /\ \A o \in Oids : /\ order'[o].status = IF o \in S THEN st ELSE order[o].status
                            /\ order'[o].kind = order[o].kind
<1>1. \A o \in Oids : [order[o] EXCEPT !.status = st] \in Order
  BY DEF BookTypes, Order
<1> QED BY <1>1 DEF SetStatus, BookTypes, Order

LEMMA RecordCancelType ==
  ASSUME HistTypes, NEW S \in SUBSET Oids, NEW asked, RecordCancel(S, asked)
  PROVE  HistTypes'
  BY DEF RecordCancel, HistTypes

LEMMA UnlinkTypes ==
  ASSUME LinkTypes, NEW S
  PROVE  /\ Unlink(children, S) \in [Oids -> SUBSET Oids]
         /\ Unlink(bracket, S) \in [Oids -> SUBSET Oids]
         /\ Unparent(S) \in [Oids -> Oids \cup {NoOid}]
  BY DEF LinkTypes, Unlink, Unparent

LEMMA RecordLinksType ==
  ASSUME HistTypes, NEW S, NEW P \in SUBSET SUBSET Oids, NEW e \in Oids \cup {NoOid},
         RecordLinks(S, P, e)
  PROVE  HistTypes'
<1>1. entryOf' \in [Oids -> Oids \cup {NoOid}]
  BY DEF RecordLinks, HistTypes
<1>2. under' \in [Oids -> Oids \cup {NoOid}]
  BY DEF RecordLinks, HistTypes
<1>3. oco' \subseteq SUBSET Oids
  BY DEF RecordLinks, HistTypes
<1> QED BY <1>1, <1>2, <1>3 DEF RecordLinks, HistTypes

(* Every action keeps the types of the variables that processes share. *)
SharedTypes == BookTypes /\ LinkTypes /\ CtlTypes /\ HistTypes

LEMMA SharedTypesStep ==
  ASSUME TypeOK, Shape, Next
  PROVE  SharedTypes'
<1> USE ConstantsAssumption
    DEF book, links, ctl, hist, SharedTypes
<1>0. SharedTypes /\ ProcTypes
  BY DEF TypeOK
<1>1. ASSUME NEW r \in Reqs, RejectOrder(r) PROVE SharedTypes'
  BY <1>1, <1>0 DEF RejectOrder, BookTypes, LinkTypes, CtlTypes, HistTypes
<1>2. ASSUME NEW r \in Reqs, SaveOrder(r) PROVE SharedTypes'
  <2>1. cur[r] \in Oids /\ Head(loc[r].wires) \in Wires
    BY <1>2, <1>0, LocalFacts DEF SaveOrder, Shape, OkShape, Holding, Placing, Procs
  <2>2. BookTypes'
    BY <1>2, <1>0, <2>1 DEF SaveOrder, BookTypes, Order, Wires, Statuses
  <2> QED BY <1>2, <1>0, <2>2 DEF SaveOrder, LinkTypes, CtlTypes, HistTypes
<1>3. ASSUME NEW r \in Reqs, RestOrder(r) PROVE SharedTypes'
  <2>1. cur[r] \in Oids
    BY <1>3 DEF RestOrder, Shape, OkShape, Holding, Procs
  <2> QED BY <1>3, <1>0, <2>1 DEF RestOrder, BookTypes, LinkTypes, CtlTypes, HistTypes
<1>4. ASSUME NEW r \in Reqs, RestTrigger(r) PROVE SharedTypes'
  <2>1. cur[r] \in Oids
    BY <1>4 DEF RestTrigger, Shape, OkShape, Holding, Procs
  <2> QED BY <1>4, <1>0, <2>1 DEF RestTrigger, BookTypes, LinkTypes, CtlTypes, HistTypes
<1>5. ASSUME NEW r \in Reqs, ListTrigger(r) PROVE SharedTypes'
  <2>1. cur[r] \in Oids
    BY <1>5 DEF ListTrigger, Shape, OkShape, Holding, Procs
  <2> QED BY <1>5, <1>0, <2>1 DEF ListTrigger, BookTypes, LinkTypes, CtlTypes, HistTypes
<1>6. ASSUME NEW r \in Reqs, LinkBracket(r) PROVE SharedTypes'
  <2> DEFINE l == loc[r]
  <2>1. CASE ~(l.grouping # "na" /\ l.rest # {})
    BY <1>6, <1>0, <2>1 DEF LinkBracket, BookTypes, LinkTypes, CtlTypes, HistTypes
  <2>2. CASE l.grouping # "na" /\ l.rest # {}
    <3>1. l.first \in Oids /\ l.rest \subseteq Oids
      BY <2>2, LocalFacts DEF Shape, OkShape, Procs
    <3>2. Legs(l) \subseteq Oids /\ Exits(l) \subseteq Oids /\ Entry(l) \in Oids \cup {NoOid}
      BY <3>1 DEF Legs, Exits, Entry
    <3>3. LinkTypes'
      BY <1>6, <1>0, <2>2, <3>2 DEF LinkBracket, LinkTypes
    <3>4. {{a, b} : a, b \in Exits(l)} \ {{a} : a \in Exits(l)} \in SUBSET SUBSET Oids
      BY <3>2
    <3>5. HistTypes'
      BY <1>6, <1>0, <2>2, <3>2, <3>4, RecordLinksType DEF LinkBracket
    <3> QED BY <1>6, <1>0, <3>3, <3>5 DEF LinkBracket, BookTypes, CtlTypes
  <2> QED BY <2>1, <2>2
<1>7. ASSUME NEW r \in Reqs, CancelWrite(r) PROVE SharedTypes'
  <2>1. cur[r] \in Oids
    BY <1>7 DEF CancelWrite, Shape, OkShape, Holding, Procs
  <2>2. BookTypes'
    BY <1>7, <1>0, SetStatusType DEF CancelWrite, BookTypes, Statuses
  <2>3. HistTypes'
    BY <1>7, <1>0, <2>1, RecordCancelType DEF CancelWrite
  <2> QED BY <1>7, <1>0, <2>2, <2>3 DEF CancelWrite, LinkTypes, CtlTypes
<1>8. ASSUME NEW r \in Reqs, Cascade(r) PROVE SharedTypes'
  BY <1>8, <1>0 DEF Cascade, BookTypes, LinkTypes, CtlTypes, HistTypes
<1>9. ASSUME NEW r \in Reqs, CascadeUnlink(r) PROVE SharedTypes'
  <2>1. LinkTypes'
    BY <1>9, <1>0, UnlinkTypes DEF CascadeUnlink, LinkTypes
  <2> QED BY <1>9, <1>0, <2>1 DEF CascadeUnlink, BookTypes, CtlTypes, HistTypes
<1>10. ASSUME NEW r \in Reqs, CancelDone(r) PROVE SharedTypes'
  BY <1>10, <1>0 DEF CancelDone, BookTypes, LinkTypes, CtlTypes, HistTypes
<1>11. ASSUME NEW r \in Reqs, ModifyWrite(r) PROVE SharedTypes'
  <2>1. loc[r].old \in Oids
    BY <1>11 DEF ModifyWrite, Shape, OkShape, Procs
  <2>2. BookTypes'
    BY <1>11, <1>0, SetStatusType DEF ModifyWrite, BookTypes, Statuses
  <2>3. HistTypes'
    BY <1>11, <1>0, <2>1, RecordCancelType DEF ModifyWrite
  <2> QED BY <1>11, <1>0, <2>2, <2>3 DEF ModifyWrite, LinkTypes, CtlTypes
<1>12. ASSUME NEW r \in Reqs, CarryRead(r) PROVE SharedTypes'
  BY <1>12, <1>0 DEF CarryRead, Unlink, BookTypes, LinkTypes, CtlTypes, HistTypes
<1>13. ASSUME NEW r \in Reqs, CarryWrite(r) PROVE SharedTypes'
  <2> DEFINE l == loc[r]
             N == {l.first} \ {NoOid}
  <2>1. /\ N \subseteq Oids /\ l.sibs \subseteq Oids
        /\ l.par \in Oids \cup {NoOid} /\ l.old \in Oids \cup {NoOid}
    BY LocalFacts DEF Procs
  <2>2. children' \in [Oids -> SUBSET Oids]
    BY <1>13, <1>0, <2>1 DEF CarryWrite, LinkTypes
  <2>3. parent' \in [Oids -> Oids \cup {NoOid}]
    BY <1>13, <1>0, <2>1 DEF CarryWrite, LinkTypes
  <2>4. bracket' \in [Oids -> SUBSET Oids]
    BY <1>13, <1>0, <2>1 DEF CarryWrite, LinkTypes
  <2>5. {{a, b} : a \in N, b \in l.sibs} \in SUBSET SUBSET Oids
    BY <2>1
  <2>6. HistTypes'
    BY <1>13, <1>0, <2>1, <2>5, RecordLinksType DEF CarryWrite
  <2> QED BY <1>13, <1>0, <2>2, <2>3, <2>4, <2>6 DEF CarryWrite, BookTypes, LinkTypes, CtlTypes
<1>14. ASSUME NEW r \in Reqs, ScheduledCancel(r) PROVE SharedTypes'
  BY <1>14, <1>0 DEF ScheduledCancel, StartCall, BookTypes, LinkTypes, CtlTypes, HistTypes
<1>15. ASSUME NEW r \in Reqs, TickWrite(r) PROVE SharedTypes'
  <2>1. loc[r].kids \subseteq Oids
    BY LocalFacts DEF Procs
  <2>2. BookTypes'
    BY <1>15, <1>0, SetStatusType DEF TickWrite, BookTypes, Statuses
  <2>3. HistTypes'
    BY <1>15, <1>0, <2>1, RecordCancelType DEF TickWrite
  <2> QED BY <1>15, <1>0, <2>2, <2>3 DEF TickWrite, LinkTypes, CtlTypes
<1>16. ASSUME NEW r \in Reqs, ResetAccount(r) PROVE SharedTypes'
  BY <1>16, <1>0 DEF ResetAccount, StartCall, BookTypes, LinkTypes, CtlTypes, HistTypes
<1>17. ASSUME NEW r \in Reqs, ResetWrite(r) PROVE SharedTypes'
  <2>1. loc[r].todo \subseteq Oids
    BY LocalFacts DEF Procs
  <2>2. BookTypes'
    BY <1>17, <1>0, SetStatusType DEF ResetWrite, BookTypes, Statuses
  <2>3. HistTypes'
    BY <1>17, <1>0, <2>1, RecordCancelType DEF ResetWrite
  <2> QED BY <1>17, <1>0, <2>2, <2>3 DEF ResetWrite, LinkTypes, CtlTypes
<1>18. ASSUME NEW r \in Reqs, NEW b \in Batches, PlaceOrders(r, b) PROVE SharedTypes'
  BY <1>18, <1>0 DEF PlaceOrders, StartCall, BookTypes, LinkTypes, CtlTypes, HistTypes
<1>19. ASSUME NEW r \in Reqs, NEW x \in BOOLEAN, NextOid(r, x) PROVE SharedTypes'
  BY <1>19, <1>0 DEF NextOid, BookTypes, LinkTypes, CtlTypes, HistTypes
<1>20. ASSUME NEW r \in Reqs, NEW o \in Oids, CancelOrder(r, o) PROVE SharedTypes'
  BY <1>20, <1>0 DEF CancelOrder, StartCall, BookTypes, LinkTypes, CtlTypes, HistTypes
<1>21. ASSUME NEW r \in Reqs, NEW o \in Oids, CascadeChild(r, o) PROVE SharedTypes'
  BY <1>21, <1>0 DEF CascadeChild, Unlink, Unparent, BookTypes, LinkTypes, CtlTypes, HistTypes
<1>22. ASSUME NEW r \in Reqs, NEW o \in Oids, CancelNext(r, o) PROVE SharedTypes'
  BY <1>22, <1>0 DEF CancelNext, BookTypes, LinkTypes, CtlTypes, HistTypes
<1>23. ASSUME NEW r \in Reqs, NEW o \in Oids, TickRead(r, o) PROVE SharedTypes'
  BY <1>23, <1>0 DEF TickRead, BookTypes, LinkTypes, CtlTypes, HistTypes
<1>24. ASSUME NEW r \in Reqs, NEW o \in Oids, NEW w \in Replacements, ModifyOrder(r, o, w) PROVE SharedTypes'
  BY <1>24, <1>0 DEF ModifyOrder, StartCall, BookTypes, LinkTypes, CtlTypes, HistTypes
<1>25. ASSUME NEW p \in Procs, FillLock(p) PROVE SharedTypes'
  BY <1>25, <1>0 DEF FillLock, BookTypes, LinkTypes, CtlTypes, HistTypes
<1>26. ASSUME NEW p \in Procs, FillSkip(p) PROVE SharedTypes'
  BY <1>26, <1>0 DEF FillSkip, FillReturn, BookTypes, LinkTypes, CtlTypes, HistTypes
<1>27. ASSUME NEW p \in Procs, FillWrite(p) PROVE SharedTypes'
  <2>1. cur[p] \in Oids
    BY <1>27 DEF FillWrite, Shape, OkShape, Holding
  <2>2. BookTypes'
    BY <1>27, <1>0, SetStatusType DEF FillWrite, BookTypes, Statuses
  <2>3. HistTypes'
    BY <1>27, <1>0, <2>1 DEF FillWrite, HistTypes
  <2> QED BY <1>27, <1>0, <2>2, <2>3 DEF FillWrite, LinkTypes, CtlTypes
<1>28. ASSUME NEW p \in Procs, SibChildren(p) PROVE SharedTypes'
  BY <1>28, <1>0 DEF SibChildren, BookTypes, LinkTypes, CtlTypes, HistTypes
<1>29. ASSUME NEW p \in Procs, SibUnparent(p) PROVE SharedTypes'
  BY <1>29, <1>0 DEF SibUnparent, Unlink, Unparent, FillReturn, BookTypes, LinkTypes, CtlTypes,
        HistTypes
<1>30. ASSUME NEW p \in Procs, SibBracket(p) PROVE SharedTypes'
  <2>1. LinkTypes'
    BY <1>30, <1>0, UnlinkTypes DEF SibBracket, LinkTypes
  <2>2. CtlTypes'
    BY <1>30, <1>0 DEF SibBracket, FillReturn, CtlTypes
  <2> QED BY <1>30, <1>0, <2>1, <2>2 DEF SibBracket, BookTypes, HistTypes
<1>31. ASSUME NEW p \in Procs, SibUnlink(p) PROVE SharedTypes'
  BY <1>31, <1>0 DEF SibUnlink, Unlink, Unparent, BookTypes, LinkTypes, CtlTypes, HistTypes
<1>32. ASSUME NEW p \in Procs, SibCancel(p) PROVE SharedTypes'
  <2>1. loc[p].kids \subseteq Oids
    BY LocalFacts
  <2>2. BookTypes'
    BY <1>32, <1>0, SetStatusType DEF SibCancel, BookTypes, Statuses
  <2>3. HistTypes'
    BY <1>32, <1>0, <2>1, RecordCancelType DEF SibCancel
  <2>4. LinkTypes'
    BY <1>32, <1>0, UnlinkTypes DEF SibCancel, LinkTypes
  <2> QED BY <1>32, <1>0, <2>2, <2>3, <2>4 DEF SibCancel, CtlTypes
<1>33. ASSUME NEW p \in Procs, SibDone(p) PROVE SharedTypes'
  BY <1>33, <1>0 DEF SibDone, FillReturn, BookTypes, LinkTypes, CtlTypes, HistTypes
<1>34. ASSUME NEW p \in Procs, NEW o \in Oids, SibRead(p, o) PROVE SharedTypes'
  BY <1>34, <1>0 DEF SibRead, BookTypes, LinkTypes, CtlTypes, HistTypes
<1>35. ASSUME NEW m \in Passes, MatchAll(m) PROVE SharedTypes'
  BY <1>35, <1>0 DEF MatchAll, BookTypes, LinkTypes, CtlTypes, HistTypes
<1>36. ASSUME NEW m \in Passes, MatchTriggers(m) PROVE SharedTypes'
  BY <1>36, <1>0 DEF MatchTriggers, BookTypes, LinkTypes, CtlTypes, HistTypes
<1>37. ASSUME NEW m \in Passes, ReadParent(m) PROVE SharedTypes'
  BY <1>37, <1>0 DEF ReadParent, BookTypes, LinkTypes, CtlTypes, HistTypes
<1>38. ASSUME NEW m \in Passes, Unindex(m) PROVE SharedTypes'
  BY <1>38, <1>0 DEF Unindex, BookTypes, LinkTypes, CtlTypes, HistTypes
<1>39. ASSUME NEW m \in Passes, SweepExpired(m) PROVE SharedTypes'
  BY <1>39, <1>0 DEF SweepExpired, BookTypes, LinkTypes, CtlTypes, HistTypes
<1>40. ASSUME NEW m \in Passes, SweepCancel(m) PROVE SharedTypes'
  <2>1. cur[m] \in Oids
    BY <1>40 DEF SweepCancel, Shape, OkShape, Holding, Procs
  <2>2. BookTypes'
    BY <1>40, <1>0, SetStatusType DEF SweepCancel, BookTypes, Statuses
  <2>3. HistTypes'
    BY <1>40, <1>0, <2>1, RecordCancelType DEF SweepCancel
  <2> QED BY <1>40, <1>0, <2>2, <2>3 DEF SweepCancel, LinkTypes, CtlTypes
<1>41. ASSUME NEW m \in Passes, EndPass(m) PROVE SharedTypes'
  BY <1>41, <1>0 DEF EndPass, BookTypes, LinkTypes, CtlTypes, HistTypes
<1>42. ASSUME NEW m \in Passes, NEW o \in Oids, MatchTriggerOrder(m, o) PROVE SharedTypes'
  BY <1>42, <1>0 DEF MatchTriggerOrder, BookTypes, LinkTypes, CtlTypes, HistTypes
<1>43. ASSUME NEW m \in Passes, NEW o \in Oids, SweepRead(m, o) PROVE SharedTypes'
  BY <1>43, <1>0 DEF SweepRead, BookTypes, LinkTypes, CtlTypes, HistTypes
<1>44. ASSUME NEW m \in Passes, NEW x \in BOOLEAN, CheckTrigger(m, x) PROVE SharedTypes'
  BY <1>44, <1>0 DEF CheckTrigger, BookTypes, LinkTypes, CtlTypes, HistTypes
<1>45. ASSUME NEW m \in Passes, NEW o \in Oids, NEW x \in BOOLEAN, MatchOpenOrder(m, o, x) PROVE SharedTypes'
  BY <1>45, <1>0 DEF MatchOpenOrder, BookTypes, LinkTypes, CtlTypes, HistTypes
<1>46. ASSUME NEW o \in Oids, Deadline(o) PROVE SharedTypes'
  BY <1>46, <1>0 DEF Deadline, BookTypes, LinkTypes, CtlTypes, HistTypes
<1>47. ASSUME Restart PROVE SharedTypes'
  <2> DEFINE T == {cur[p] : p \in {q \in Procs : pc[q] \in Siblings}}
  <2>1. T \subseteq Oids
    <3>1. \A q \in Procs : pc[q] \in Siblings => cur[q] \in Oids
      BY DEF Shape, OkShape, Holding
    <3> QED BY <3>1
  <2>2. interrupted' = interrupted \cup T
    BY <1>47 DEF Restart, StopCalls
  <2> HIDE DEF T
  <2>3. HistTypes'
    BY <1>47, <1>0, <2>1, <2>2 DEF Restart, StopCalls, HistTypes
  <2>4. CtlTypes'
    <3>1. /\ crashes < MaxCrashes /\ crashes' = crashes + 1
          /\ isRunning' = FALSE /\ lock' = NoProc /\ ops' = ops
      BY <1>47 DEF Restart, StopCalls
    <3>2. crashes' \in 0..MaxCrashes
      BY <1>0, <3>1 DEF CtlTypes
    <3> QED BY <1>0, <3>1, <3>2 DEF CtlTypes
  <2>5. BookTypes' /\ LinkTypes'
    BY <1>47, <1>0 DEF Restart, StopCalls, BookTypes, LinkTypes
  <2> QED BY <2>3, <2>4, <2>5
<1> QED
  BY <1>1, <1>2, <1>3, <1>4, <1>5, <1>6, <1>7, <1>8, <1>9, <1>10, <1>11, <1>12, <1>13, <1>14,
     <1>15, <1>16, <1>17, <1>18, <1>19, <1>20, <1>21, <1>22, <1>23, <1>24, <1>25, <1>26, <1>27,
     <1>28, <1>29, <1>30, <1>31, <1>32, <1>33, <1>34, <1>35, <1>36, <1>37, <1>38, <1>39, <1>40,
     <1>41, <1>42, <1>43, <1>44, <1>45, <1>46, <1>47
     DEF Next, Place, Cancel, Modify, Sweepers, Fill, Match

-----------------------------------------------------------------------------
(* Every action moves its process to a place it may be in.                 *)

LEMMA FinishMove ==
  ASSUME TypeOK, Shape, NEW p \in Procs, Finish(p)
  PROVE  ProcTypes' /\ Shape'
<1>1. Moves(p, "idle", NoOid, Blank)
  BY DEF Finish, Goto, Hold, Keep, Moves
<1>2. OkShape(p, "idle", NoOid, Blank)
  BY DEF OkShape, PassLabels, ReqLabels, Holding, Placing, Siblings, Blank
<1> QED BY <1>1, <1>2, BlankLocal, MoveShape

LEMMA AnswerMove ==
  ASSUME TypeOK, Shape, NEW r \in Reqs, NEW o \in Oids \cup {NoOid}, NEW resting \in BOOLEAN,
         Answer(r, o, resting), loc[r].wires # <<>>
  PROVE  ProcTypes' /\ Shape'
<1> DEFINE k   == loc[r]
           fst == IF k.old # NoOid THEN (IF resting THEN o ELSE NoOid)
                  ELSE IF k.first = NoOid THEN o ELSE k.first
           rst == IF k.old = NoOid /\ k.first # NoOid /\ o # NoOid THEN k.rest \cup {o} ELSE k.rest
           lab == IF k.old = NoOid THEN "place" ELSE "carry"
           l   == [k EXCEPT !.wires = Tail(k.wires), !.crosses = FALSE, !.sibs = {},
                            !.par = NoOid, !.first = fst, !.rest = rst]
<1>0. r \in Procs /\ r \notin Passes
  BY ConstantsAssumption DEF Procs
<1>1. Moves(r, lab, NoOid, l)
  BY DEF Answer, Goto, Hold, Keep, Moves
<1>2. k \in Local /\ k.wires \in Seq(Wires) /\ (k.rest # {} => k.first # NoOid /\ k.old = NoOid)
  BY <1>0, LocalFacts DEF Shape, OkShape
<1>3. /\ Tail(k.wires) \in Seq(Wires) /\ fst \in Oids \cup {NoOid} /\ rst \in SUBSET Oids
      /\ k.old \in Oids \cup {NoOid}
  BY <1>2 DEF Local
<1>4. rst # {} => fst # NoOid /\ k.old = NoOid
  BY <1>2
<1>5. l \in Local /\ l.rest = rst /\ l.first = fst /\ l.old = k.old
  <2> HIDE DEF fst, rst
  <2> QED BY <1>2, <1>3 DEF Local, NoOid
<1>6. OkShape(r, lab, NoOid, l)
  <2> HIDE DEF fst, rst, l
  <2> QED BY <1>0, <1>3, <1>4, <1>5 DEF OkShape, ReqLabels, Holding, Placing, Siblings
<1> HIDE DEF l, lab
<1> QED BY <1>0, <1>1, <1>5, <1>6, MoveShape

LEMMA FillReturnMove ==
  ASSUME TypeOK, Shape, NEW p \in Procs, FillReturn(p), pc[p] \in {"locked"} \cup Siblings
  PROVE  ProcTypes' /\ Shape'
<1>0. cur[p] \in Oids /\ loc[p] \in Local /\ (p \in Reqs => loc[p].wires # <<>>)
      /\ (loc[p].rest # {} => loc[p].first # NoOid /\ loc[p].old = NoOid)
  BY LocalFacts DEF Shape, OkShape, Holding, Placing
<1>1. CASE p \in Reqs
  BY <1>0, <1>1, AnswerMove DEF FillReturn
<1>2. CASE p \notin Reqs
  <2> DEFINE lab == IF loc[p].phase = "limit" THEN "open" ELSE "unindex"
             c   == IF loc[p].phase = "limit" THEN NoOid ELSE cur[p]
             l   == [loc[p] EXCEPT !.sibs = {}, !.par = NoOid]
  <2>1. Moves(p, lab, c, l)
    BY <1>2 DEF FillReturn, Goto, Hold, Keep, Moves
  <2>2. l \in Local /\ l.rest = loc[p].rest /\ l.first = loc[p].first /\ l.old = loc[p].old
    BY <1>0 DEF Local
  <2>3. OkShape(p, lab, c, l)
    <3> HIDE DEF l
    <3> QED BY <1>0, <1>2, <2>2 DEF OkShape, PassLabels, Holding, Placing, Siblings
  <2> HIDE DEF lab, l
  <2> QED BY <1>0, <2>1, <2>2, <2>3, MoveShape
<1> QED BY <1>1, <1>2

(* The same for a step that goes to lab with order c and locals l, where   *)
(* l keeps what the shape is about.                                        *)
LEMMA PlainMove ==
  ASSUME TypeOK, Shape, NEW p \in Procs, NEW lab, NEW c \in Oids \cup {NoOid}, NEW l \in Local,
         Moves(p, lab, c, l),
         p \in Passes => lab \in PassLabels,
         p \in Reqs => lab \in ReqLabels,
         lab # "idle",
         lab \in Holding => c \in Oids,
         p \in Reqs /\ lab \in Placing => loc[p].wires # <<>>,
         lab \in {"modify", "carry"} => loc[p].old \in Oids,
         l.wires = loc[p].wires, l.old = loc[p].old, l.rest = loc[p].rest, l.first = loc[p].first
  PROVE  ProcTypes' /\ Shape'
<1>1. loc[p].rest # {} => loc[p].first # NoOid /\ loc[p].old = NoOid
  BY DEF Shape, OkShape
<1>2. OkShape(p, lab, c, l)
  BY <1>1 DEF OkShape
<1> QED BY <1>2, MoveShape

LEMMA ShapeStep ==
  ASSUME TypeOK, Shape, Next
  PROVE  ProcTypes' /\ Shape'
<1>0. /\ \A r \in Reqs : r \in Procs /\ r \notin Passes
      /\ \A m \in Passes : m \in Procs /\ m \notin Reqs
  BY ConstantsAssumption DEF Procs
<1>1. ASSUME NEW r \in Reqs, RejectOrder(r) PROVE ProcTypes' /\ Shape'
  BY <1>1, AnswerMove DEF RejectOrder
<1>2. ASSUME NEW r \in Reqs, SaveOrder(r) PROVE ProcTypes' /\ Shape'
  <2> DEFINE lab == IF loc[r].crosses THEN "fill" ELSE "rest"
             c   == cur[r]
             l   == loc[r]
  <2>1. Moves(r, lab, c, l)
    BY <1>2, <1>0 DEF SaveOrder, Goto, Hold, Keep, Moves, TypeOK, ProcTypes
  <2>2. loc[r] \in Local /\ c \in Oids \cup {NoOid} /\ (lab \in Holding => c \in Oids)
    BY <1>2, <1>0, LocalFacts, ConstantsAssumption
       DEF SaveOrder, Shape, OkShape, PassLabels, ReqLabels, Holding, Placing, Siblings, TypeOK,
             BookTypes, Oids
  <2>3. /\ l \in Local /\ l.wires = loc[r].wires /\ l.old = loc[r].old
        /\ l.rest = loc[r].rest /\ l.first = loc[r].first
    BY <1>2, <2>2 DEF SaveOrder, Kinds, Shape, OkShape, Holding, Siblings, Local, TypeOK,
          BookTypes, LinkTypes
  <2>4. /\ r \in Passes => lab \in PassLabels
        /\ r \in Reqs => lab \in ReqLabels
        /\ lab # "idle"
        /\ r \in Reqs /\ lab \in Placing => loc[r].wires # <<>>
        /\ lab \in {"modify", "carry"} => loc[r].old \in Oids
    BY <1>2, <1>0 DEF SaveOrder, Shape, OkShape, PassLabels, ReqLabels, Holding, Placing, Siblings
  <2> HIDE DEF lab, c, l
  <2> QED BY <1>0, <2>1, <2>2, <2>3, <2>4, PlainMove
<1>3. ASSUME NEW r \in Reqs, RestOrder(r) PROVE ProcTypes' /\ Shape'
  <2>1. cur[r] \in Oids /\ loc[r].wires # <<>>
    BY <1>3, <1>0 DEF RestOrder, Shape, OkShape, Holding, Placing
  <2> QED BY <1>3, <2>1, AnswerMove DEF RestOrder
<1>4. ASSUME NEW r \in Reqs, RestTrigger(r) PROVE ProcTypes' /\ Shape'
  <2> DEFINE lab == "list"
             c   == cur[r]
             l   == loc[r]
  <2>1. Moves(r, lab, c, l)
    BY <1>4, <1>0 DEF RestTrigger, Goto, Hold, Keep, Moves, TypeOK, ProcTypes
  <2>2. loc[r] \in Local /\ c \in Oids \cup {NoOid} /\ (lab \in Holding => c \in Oids)
    BY <1>4, <1>0, LocalFacts, ConstantsAssumption
       DEF RestTrigger, Shape, OkShape, PassLabels, ReqLabels, Holding, Placing, Siblings,
             TypeOK, BookTypes, Oids
  <2>3. /\ l \in Local /\ l.wires = loc[r].wires /\ l.old = loc[r].old
        /\ l.rest = loc[r].rest /\ l.first = loc[r].first
    BY <1>4, <2>2 DEF RestTrigger, Kinds, Shape, OkShape, Holding, Siblings, Local, TypeOK,
          BookTypes, LinkTypes
  <2>4. /\ r \in Passes => lab \in PassLabels
        /\ r \in Reqs => lab \in ReqLabels
        /\ lab # "idle"
        /\ r \in Reqs /\ lab \in Placing => loc[r].wires # <<>>
        /\ lab \in {"modify", "carry"} => loc[r].old \in Oids
    BY <1>4, <1>0 DEF RestTrigger, Shape, OkShape, PassLabels, ReqLabels, Holding, Placing, Siblings
  <2> HIDE DEF lab, c, l
  <2> QED BY <1>0, <2>1, <2>2, <2>3, <2>4, PlainMove
<1>5. ASSUME NEW r \in Reqs, ListTrigger(r) PROVE ProcTypes' /\ Shape'
  <2>1. cur[r] \in Oids /\ loc[r].wires # <<>>
    BY <1>5, <1>0 DEF ListTrigger, Shape, OkShape, Holding, Placing
  <2> QED BY <1>5, <2>1, AnswerMove DEF ListTrigger
<1>6. ASSUME NEW r \in Reqs, LinkBracket(r) PROVE ProcTypes' /\ Shape'
  BY <1>6, <1>0, FinishMove DEF LinkBracket
<1>7. ASSUME NEW r \in Reqs, CancelWrite(r) PROVE ProcTypes' /\ Shape'
  <2> DEFINE lab == "cascade"
             c   == cur[r]
             l   == loc[r]
  <2>1. Moves(r, lab, c, l)
    BY <1>7, <1>0 DEF CancelWrite, Goto, Hold, Keep, Moves, TypeOK, ProcTypes
  <2>2. loc[r] \in Local /\ c \in Oids \cup {NoOid} /\ (lab \in Holding => c \in Oids)
    BY <1>7, <1>0, LocalFacts, ConstantsAssumption
       DEF CancelWrite, Shape, OkShape, PassLabels, ReqLabels, Holding, Placing, Siblings,
             TypeOK, BookTypes, Oids
  <2>3. /\ l \in Local /\ l.wires = loc[r].wires /\ l.old = loc[r].old
        /\ l.rest = loc[r].rest /\ l.first = loc[r].first
    BY <1>7, <2>2 DEF CancelWrite, Kinds, Shape, OkShape, Holding, Siblings, Local, TypeOK,
          BookTypes, LinkTypes
  <2>4. /\ r \in Passes => lab \in PassLabels
        /\ r \in Reqs => lab \in ReqLabels
        /\ lab # "idle"
        /\ r \in Reqs /\ lab \in Placing => loc[r].wires # <<>>
        /\ lab \in {"modify", "carry"} => loc[r].old \in Oids
    BY <1>7, <1>0 DEF CancelWrite, Shape, OkShape, PassLabels, ReqLabels, Holding, Placing, Siblings
  <2> HIDE DEF lab, c, l
  <2> QED BY <1>0, <2>1, <2>2, <2>3, <2>4, PlainMove
<1>8. ASSUME NEW r \in Reqs, Cascade(r) PROVE ProcTypes' /\ Shape'
  <2> DEFINE lab == "unlink"
             c   == cur[r]
             l   == [loc[r] EXCEPT !.kids = children[cur[r]]]
  <2>1. Moves(r, lab, c, l)
    BY <1>8, <1>0 DEF Cascade, Goto, Hold, Keep, Moves, TypeOK, ProcTypes
  <2>2. loc[r] \in Local /\ c \in Oids \cup {NoOid} /\ (lab \in Holding => c \in Oids)
    BY <1>8, <1>0, LocalFacts, ConstantsAssumption
       DEF Cascade, Shape, OkShape, PassLabels, ReqLabels, Holding, Placing, Siblings, TypeOK,
             BookTypes, Oids
  <2>3. /\ l \in Local /\ l.wires = loc[r].wires /\ l.old = loc[r].old
        /\ l.rest = loc[r].rest /\ l.first = loc[r].first
    BY <1>8, <2>2 DEF Cascade, Kinds, Shape, OkShape, Holding, Siblings, Local, TypeOK,
          BookTypes, LinkTypes
  <2>4. /\ r \in Passes => lab \in PassLabels
        /\ r \in Reqs => lab \in ReqLabels
        /\ lab # "idle"
        /\ r \in Reqs /\ lab \in Placing => loc[r].wires # <<>>
        /\ lab \in {"modify", "carry"} => loc[r].old \in Oids
    BY <1>8, <1>0 DEF Cascade, Shape, OkShape, PassLabels, ReqLabels, Holding, Placing, Siblings
  <2> HIDE DEF lab, c, l
  <2> QED BY <1>0, <2>1, <2>2, <2>3, <2>4, PlainMove
<1>9. ASSUME NEW r \in Reqs, CascadeUnlink(r) PROVE ProcTypes' /\ Shape'
  <2> DEFINE lab == IF loc[r].kids # {} THEN "kids" ELSE "cancel"
             c   == NoOid
             l   == loc[r]
  <2>1. Moves(r, lab, c, l)
    BY <1>9, <1>0 DEF CascadeUnlink, Goto, Hold, Keep, Moves, TypeOK, ProcTypes
  <2>2. loc[r] \in Local /\ c \in Oids \cup {NoOid} /\ (lab \in Holding => c \in Oids)
    BY <1>9, <1>0, LocalFacts, ConstantsAssumption
       DEF CascadeUnlink, Shape, OkShape, PassLabels, ReqLabels, Holding, Placing, Siblings,
             TypeOK, BookTypes, Oids
  <2>3. /\ l \in Local /\ l.wires = loc[r].wires /\ l.old = loc[r].old
        /\ l.rest = loc[r].rest /\ l.first = loc[r].first
    BY <1>9, <2>2 DEF CascadeUnlink, Kinds, Shape, OkShape, Holding, Siblings, Local, TypeOK,
          BookTypes, LinkTypes
  <2>4. /\ r \in Passes => lab \in PassLabels
        /\ r \in Reqs => lab \in ReqLabels
        /\ lab # "idle"
        /\ r \in Reqs /\ lab \in Placing => loc[r].wires # <<>>
        /\ lab \in {"modify", "carry"} => loc[r].old \in Oids
    BY <1>9, <1>0 DEF CascadeUnlink, Shape, OkShape, PassLabels, ReqLabels, Holding, Placing,
          Siblings
  <2> HIDE DEF lab, c, l
  <2> QED BY <1>0, <2>1, <2>2, <2>3, <2>4, PlainMove
<1>10. ASSUME NEW r \in Reqs, CancelDone(r) PROVE ProcTypes' /\ Shape'
  BY <1>10, <1>0, FinishMove DEF CancelDone
<1>11. ASSUME NEW r \in Reqs, ModifyWrite(r) PROVE ProcTypes' /\ Shape'
  <2> DEFINE lab == "place"
             c   == cur[r]
             l   == loc[r]
  <2>1. Moves(r, lab, c, l)
    BY <1>11, <1>0 DEF ModifyWrite, Goto, Hold, Keep, Moves, TypeOK, ProcTypes
  <2>2. loc[r] \in Local /\ c \in Oids \cup {NoOid} /\ (lab \in Holding => c \in Oids)
    BY <1>11, <1>0, LocalFacts, ConstantsAssumption
       DEF ModifyWrite, Shape, OkShape, PassLabels, ReqLabels, Holding, Placing, Siblings,
             TypeOK, BookTypes, Oids
  <2>3. /\ l \in Local /\ l.wires = loc[r].wires /\ l.old = loc[r].old
        /\ l.rest = loc[r].rest /\ l.first = loc[r].first
    BY <1>11, <2>2 DEF ModifyWrite, Kinds, Shape, OkShape, Holding, Siblings, Local, TypeOK,
          BookTypes, LinkTypes
  <2>4. /\ r \in Passes => lab \in PassLabels
        /\ r \in Reqs => lab \in ReqLabels
        /\ lab # "idle"
        /\ r \in Reqs /\ lab \in Placing => loc[r].wires # <<>>
        /\ lab \in {"modify", "carry"} => loc[r].old \in Oids
    BY <1>11, <1>0 DEF ModifyWrite, Shape, OkShape, PassLabels, ReqLabels, Holding, Placing,
          Siblings
  <2> HIDE DEF lab, c, l
  <2> QED BY <1>0, <2>1, <2>2, <2>3, <2>4, PlainMove
<1>12. ASSUME NEW r \in Reqs, CarryRead(r) PROVE ProcTypes' /\ Shape'
  <2> DEFINE lab == IF children[loc[r].old] # {} THEN "kids" ELSE "cancel"
             c   == cur[r]
             l   == [loc[r] EXCEPT !.par = parent[loc[r].old], !.sibs = bracket[loc[r].old],
                   !.kids = children[loc[r].old]]
  <2>0. loc[r].old \in Oids
    BY <1>12, <1>0 DEF CarryRead, Shape, OkShape
  <2>1. Moves(r, lab, c, l)
    BY <1>12, <1>0 DEF CarryRead, Goto, Hold, Keep, Moves, TypeOK, ProcTypes
  <2>2. loc[r] \in Local /\ c \in Oids \cup {NoOid} /\ (lab \in Holding => c \in Oids)
    BY <1>12, <1>0, LocalFacts, ConstantsAssumption
       DEF CarryRead, Shape, OkShape, PassLabels, ReqLabels, Holding, Placing, Siblings, TypeOK,
             BookTypes, Oids
  <2>3. /\ l \in Local /\ l.wires = loc[r].wires /\ l.old = loc[r].old
        /\ l.rest = loc[r].rest /\ l.first = loc[r].first
    BY <2>0, <2>2 DEF NoOid, Local, TypeOK, BookTypes, LinkTypes
  <2>4. /\ r \in Passes => lab \in PassLabels
        /\ r \in Reqs => lab \in ReqLabels
        /\ lab # "idle"
        /\ r \in Reqs /\ lab \in Placing => loc[r].wires # <<>>
        /\ lab \in {"modify", "carry"} => loc[r].old \in Oids
    BY <1>12, <1>0 DEF CarryRead, Shape, OkShape, PassLabels, ReqLabels, Holding, Placing, Siblings
  <2> HIDE DEF lab, c, l
  <2> QED BY <1>0, <2>1, <2>2, <2>3, <2>4, PlainMove
<1>13. ASSUME NEW r \in Reqs, CarryWrite(r) PROVE ProcTypes' /\ Shape'
  BY <1>13, <1>0, FinishMove DEF CarryWrite
<1>14. ASSUME NEW r \in Reqs, ScheduledCancel(r) PROVE ProcTypes' /\ Shape'
  <2> DEFINE lab == "tick"
             c   == cur[r]
             l   == [loc[r] EXCEPT !.todo = userOrders]
  <2>1. Moves(r, lab, c, l)
    BY <1>14, <1>0 DEF ScheduledCancel, Goto, Hold, Keep, Moves, TypeOK, ProcTypes, StartCall
  <2>2. loc[r] \in Local /\ c \in Oids \cup {NoOid} /\ (lab \in Holding => c \in Oids)
    BY <1>14, <1>0, LocalFacts, ConstantsAssumption
       DEF ScheduledCancel, Shape, OkShape, PassLabels, ReqLabels, Holding, Placing, Siblings,
             TypeOK, BookTypes, Oids
  <2>3. /\ l \in Local /\ l.wires = loc[r].wires /\ l.old = loc[r].old
        /\ l.rest = loc[r].rest /\ l.first = loc[r].first
    BY <1>14, <2>2 DEF ScheduledCancel, Kinds, Shape, OkShape, Holding, Siblings, Local, TypeOK,
          BookTypes, LinkTypes
  <2>4. /\ r \in Passes => lab \in PassLabels
        /\ r \in Reqs => lab \in ReqLabels
        /\ lab # "idle"
        /\ r \in Reqs /\ lab \in Placing => loc[r].wires # <<>>
        /\ lab \in {"modify", "carry"} => loc[r].old \in Oids
    BY <1>14, <1>0 DEF ScheduledCancel, Shape, OkShape, PassLabels, ReqLabels, Holding, Placing,
          Siblings
  <2> HIDE DEF lab, c, l
  <2> QED BY <1>0, <2>1, <2>2, <2>3, <2>4, PlainMove
<1>15. ASSUME NEW r \in Reqs, TickWrite(r) PROVE ProcTypes' /\ Shape'
  BY <1>15, <1>0, FinishMove DEF TickWrite
<1>16. ASSUME NEW r \in Reqs, ResetAccount(r) PROVE ProcTypes' /\ Shape'
  <2> DEFINE lab == "reset"
             c   == cur[r]
             l   == [loc[r] EXCEPT !.todo = userOrders]
  <2>1. Moves(r, lab, c, l)
    BY <1>16, <1>0 DEF ResetAccount, Goto, Hold, Keep, Moves, TypeOK, ProcTypes, StartCall
  <2>2. loc[r] \in Local /\ c \in Oids \cup {NoOid} /\ (lab \in Holding => c \in Oids)
    BY <1>16, <1>0, LocalFacts, ConstantsAssumption
       DEF ResetAccount, Shape, OkShape, PassLabels, ReqLabels, Holding, Placing, Siblings,
             TypeOK, BookTypes, Oids
  <2>3. /\ l \in Local /\ l.wires = loc[r].wires /\ l.old = loc[r].old
        /\ l.rest = loc[r].rest /\ l.first = loc[r].first
    BY <1>16, <2>2 DEF ResetAccount, Kinds, Shape, OkShape, Holding, Siblings, Local, TypeOK,
          BookTypes, LinkTypes
  <2>4. /\ r \in Passes => lab \in PassLabels
        /\ r \in Reqs => lab \in ReqLabels
        /\ lab # "idle"
        /\ r \in Reqs /\ lab \in Placing => loc[r].wires # <<>>
        /\ lab \in {"modify", "carry"} => loc[r].old \in Oids
    BY <1>16, <1>0 DEF ResetAccount, Shape, OkShape, PassLabels, ReqLabels, Holding, Placing,
          Siblings
  <2> HIDE DEF lab, c, l
  <2> QED BY <1>0, <2>1, <2>2, <2>3, <2>4, PlainMove
<1>17. ASSUME NEW r \in Reqs, ResetWrite(r) PROVE ProcTypes' /\ Shape'
  BY <1>17, <1>0, FinishMove DEF ResetWrite
<1>18. ASSUME NEW r \in Reqs, NEW b \in Batches, PlaceOrders(r, b) PROVE ProcTypes' /\ Shape'
  <2> DEFINE l == [Blank EXCEPT !.wires = b.wires, !.expires = b.expires, !.grouping = b.grouping]
  <2>1. Moves(r, "place", cur[r], l)
    BY <1>18, <1>0 DEF PlaceOrders, Goto, Hold, Keep, Moves, TypeOK, ProcTypes
  <2>2. l \in Local /\ l.rest = {}
    BY WiresAssumption, BlankLocal DEF Blank, Local
  <2>3. OkShape(r, "place", cur[r], l)
    <3> HIDE DEF l
    <3> QED BY <1>0, <2>2 DEF OkShape, ReqLabels, Holding, Placing, Siblings
  <2> HIDE DEF l
  <2> QED BY <1>0, <2>1, <2>2, <2>3, LocalFacts, MoveShape
<1>19. ASSUME NEW r \in Reqs, NEW x \in BOOLEAN, NextOid(r, x) PROVE ProcTypes' /\ Shape'
  <2> DEFINE lab == "save"
             c   == lastOid + 1
             l   == [loc[r] EXCEPT !.crosses = x]
  <2>1. Moves(r, lab, c, l)
    BY <1>19, <1>0 DEF NextOid, Goto, Hold, Keep, Moves, TypeOK, ProcTypes
  <2>2. loc[r] \in Local /\ c \in Oids \cup {NoOid} /\ (lab \in Holding => c \in Oids)
    BY <1>19, <1>0, LocalFacts, ConstantsAssumption
       DEF NextOid, Shape, OkShape, PassLabels, ReqLabels, Holding, Placing, Siblings, TypeOK,
             BookTypes, Oids
  <2>3. /\ l \in Local /\ l.wires = loc[r].wires /\ l.old = loc[r].old
        /\ l.rest = loc[r].rest /\ l.first = loc[r].first
    BY <1>19, <2>2 DEF NextOid, Kinds, Shape, OkShape, Holding, Siblings, Local, TypeOK,
          BookTypes, LinkTypes
  <2>4. /\ r \in Passes => lab \in PassLabels
        /\ r \in Reqs => lab \in ReqLabels
        /\ lab # "idle"
        /\ r \in Reqs /\ lab \in Placing => loc[r].wires # <<>>
        /\ lab \in {"modify", "carry"} => loc[r].old \in Oids
    BY <1>19, <1>0 DEF NextOid, Shape, OkShape, PassLabels, ReqLabels, Holding, Placing, Siblings
  <2> HIDE DEF lab, c, l
  <2> QED BY <1>0, <2>1, <2>2, <2>3, <2>4, PlainMove
<1>20. ASSUME NEW r \in Reqs, NEW o \in Oids, CancelOrder(r, o) PROVE ProcTypes' /\ Shape'
  <2> DEFINE lab == "cancelWrite"
             c   == o
             l   == loc[r]
  <2>1. Moves(r, lab, c, l)
    BY <1>20, <1>0 DEF CancelOrder, Goto, Hold, Keep, Moves, TypeOK, ProcTypes, StartCall
  <2>2. loc[r] \in Local /\ c \in Oids \cup {NoOid} /\ (lab \in Holding => c \in Oids)
    BY <1>20, <1>0, LocalFacts, ConstantsAssumption
       DEF CancelOrder, Shape, OkShape, PassLabels, ReqLabels, Holding, Placing, Siblings,
             TypeOK, BookTypes, Oids
  <2>3. /\ l \in Local /\ l.wires = loc[r].wires /\ l.old = loc[r].old
        /\ l.rest = loc[r].rest /\ l.first = loc[r].first
    BY <1>20, <2>2 DEF CancelOrder, Kinds, Shape, OkShape, Holding, Siblings, Local, TypeOK,
          BookTypes, LinkTypes
  <2>4. /\ r \in Passes => lab \in PassLabels
        /\ r \in Reqs => lab \in ReqLabels
        /\ lab # "idle"
        /\ r \in Reqs /\ lab \in Placing => loc[r].wires # <<>>
        /\ lab \in {"modify", "carry"} => loc[r].old \in Oids
    BY <1>20, <1>0 DEF CancelOrder, Shape, OkShape, PassLabels, ReqLabels, Holding, Placing,
          Siblings
  <2> HIDE DEF lab, c, l
  <2> QED BY <1>0, <2>1, <2>2, <2>3, <2>4, PlainMove
<1>21. ASSUME NEW r \in Reqs, NEW o \in Oids, CascadeChild(r, o) PROVE ProcTypes' /\ Shape'
  <2> DEFINE lab == IF loc[r].kids = {o} THEN "cancel" ELSE "kids"
             c   == cur[r]
             l   == [loc[r] EXCEPT !.kids = loc[r].kids \ {o},
                   !.todo = IF order[o].status = "open" THEN loc[r].todo \cup {o} ELSE loc[r].todo]
  <2>1. Moves(r, lab, c, l)
    BY <1>21, <1>0 DEF CascadeChild, Goto, Hold, Keep, Moves, TypeOK, ProcTypes
  <2>2. loc[r] \in Local /\ c \in Oids \cup {NoOid} /\ (lab \in Holding => c \in Oids)
    BY <1>21, <1>0, LocalFacts, ConstantsAssumption
       DEF CascadeChild, Shape, OkShape, PassLabels, ReqLabels, Holding, Placing, Siblings,
             TypeOK, BookTypes, Oids
  <2>3. /\ l \in Local /\ l.wires = loc[r].wires /\ l.old = loc[r].old
        /\ l.rest = loc[r].rest /\ l.first = loc[r].first
    BY <1>21, <2>2 DEF CascadeChild, Kinds, Shape, OkShape, Holding, Siblings, Local, TypeOK,
          BookTypes, LinkTypes
  <2>4. /\ r \in Passes => lab \in PassLabels
        /\ r \in Reqs => lab \in ReqLabels
        /\ lab # "idle"
        /\ r \in Reqs /\ lab \in Placing => loc[r].wires # <<>>
        /\ lab \in {"modify", "carry"} => loc[r].old \in Oids
    BY <1>21, <1>0 DEF CascadeChild, Shape, OkShape, PassLabels, ReqLabels, Holding, Placing,
          Siblings
  <2> HIDE DEF lab, c, l
  <2> QED BY <1>0, <2>1, <2>2, <2>3, <2>4, PlainMove
<1>22. ASSUME NEW r \in Reqs, NEW o \in Oids, CancelNext(r, o) PROVE ProcTypes' /\ Shape'
  <2> DEFINE lab == IF order[o].status = "open" THEN "cancelWrite" ELSE "cancel"
             c   == IF order[o].status = "open" THEN o ELSE cur[r]
             l   == [loc[r] EXCEPT !.todo = loc[r].todo \ {o}]
  <2>1. Moves(r, lab, c, l)
    BY <1>22, <1>0 DEF CancelNext, Goto, Hold, Keep, Moves, TypeOK, ProcTypes
  <2>2. loc[r] \in Local /\ c \in Oids \cup {NoOid} /\ (lab \in Holding => c \in Oids)
    BY <1>22, <1>0, LocalFacts, ConstantsAssumption
       DEF CancelNext, Shape, OkShape, PassLabels, ReqLabels, Holding, Placing, Siblings, TypeOK,
             BookTypes, Oids
  <2>3. /\ l \in Local /\ l.wires = loc[r].wires /\ l.old = loc[r].old
        /\ l.rest = loc[r].rest /\ l.first = loc[r].first
    BY <1>22, <2>2 DEF CancelNext, Kinds, Shape, OkShape, Holding, Siblings, Local, TypeOK,
          BookTypes, LinkTypes
  <2>4. /\ r \in Passes => lab \in PassLabels
        /\ r \in Reqs => lab \in ReqLabels
        /\ lab # "idle"
        /\ r \in Reqs /\ lab \in Placing => loc[r].wires # <<>>
        /\ lab \in {"modify", "carry"} => loc[r].old \in Oids
    BY <1>22, <1>0 DEF CancelNext, Shape, OkShape, PassLabels, ReqLabels, Holding, Placing, Siblings
  <2> HIDE DEF lab, c, l
  <2> QED BY <1>0, <2>1, <2>2, <2>3, <2>4, PlainMove
<1>23. ASSUME NEW r \in Reqs, NEW o \in Oids, TickRead(r, o) PROVE ProcTypes' /\ Shape'
  <2> DEFINE lab == "tick"
             c   == cur[r]
             l   == [loc[r] EXCEPT !.todo = loc[r].todo \ {o},
                   !.kids = IF order[o].status = "open" THEN loc[r].kids \cup {o} ELSE loc[r].kids]
  <2>1. Moves(r, lab, c, l)
    BY <1>23, <1>0 DEF TickRead, Goto, Hold, Keep, Moves, TypeOK, ProcTypes
  <2>2. loc[r] \in Local /\ c \in Oids \cup {NoOid} /\ (lab \in Holding => c \in Oids)
    BY <1>23, <1>0, LocalFacts, ConstantsAssumption
       DEF TickRead, Shape, OkShape, PassLabels, ReqLabels, Holding, Placing, Siblings, TypeOK,
             BookTypes, Oids
  <2>3. /\ l \in Local /\ l.wires = loc[r].wires /\ l.old = loc[r].old
        /\ l.rest = loc[r].rest /\ l.first = loc[r].first
    BY <1>23, <2>2 DEF TickRead, Kinds, Shape, OkShape, Holding, Siblings, Local, TypeOK,
          BookTypes, LinkTypes
  <2>4. /\ r \in Passes => lab \in PassLabels
        /\ r \in Reqs => lab \in ReqLabels
        /\ lab # "idle"
        /\ r \in Reqs /\ lab \in Placing => loc[r].wires # <<>>
        /\ lab \in {"modify", "carry"} => loc[r].old \in Oids
    BY <1>23, <1>0 DEF TickRead, Shape, OkShape, PassLabels, ReqLabels, Holding, Placing, Siblings
  <2> HIDE DEF lab, c, l
  <2> QED BY <1>0, <2>1, <2>2, <2>3, <2>4, PlainMove
<1>24. ASSUME NEW r \in Reqs, NEW o \in Oids, NEW w \in Replacements, ModifyOrder(r, o, w)
      PROVE ProcTypes' /\ Shape'
  <2> DEFINE l == [Blank EXCEPT !.old = o, !.wires = <<w>>]
  <2>1. Moves(r, "modify", cur[r], l)
    BY <1>24, <1>0 DEF ModifyOrder, Goto, Hold, Keep, Moves, TypeOK, ProcTypes
  <2>0. <<w>> \in Seq(Wires)
    BY WiresAssumption
  <2>2. l \in Local /\ l.rest = {} /\ l.old = o
    <3> DEFINE s == <<w>>
    <3>1. s \in Seq(Wires)
      BY <2>0
    <3> HIDE DEF s
    <3>2. [Blank EXCEPT !.old = o, !.wires = s] \in Local
      BY <3>1, BlankLocal DEF Local
    <3> QED BY <3>2, BlankLocal DEF s, Local, Blank
  <2>3. OkShape(r, "modify", cur[r], l)
    <3> HIDE DEF l
    <3> QED BY <1>0, <2>2 DEF OkShape, ReqLabels, Holding, Placing, Siblings
  <2> HIDE DEF l
  <2> QED BY <1>0, <2>1, <2>2, <2>3, LocalFacts, MoveShape
<1>25. ASSUME NEW p \in Procs, FillLock(p) PROVE ProcTypes' /\ Shape'
  <2> DEFINE lab == "locked"
             c   == cur[p]
             l   == loc[p]
  <2>1. Moves(p, lab, c, l)
    BY <1>25, <1>0 DEF FillLock, Goto, Hold, Keep, Moves, TypeOK, ProcTypes
  <2>2. loc[p] \in Local /\ c \in Oids \cup {NoOid} /\ (lab \in Holding => c \in Oids)
    BY <1>25, <1>0, LocalFacts, ConstantsAssumption
       DEF FillLock, Shape, OkShape, PassLabels, ReqLabels, Holding, Placing, Siblings, TypeOK,
             BookTypes, Oids
  <2>3. /\ l \in Local /\ l.wires = loc[p].wires /\ l.old = loc[p].old
        /\ l.rest = loc[p].rest /\ l.first = loc[p].first
    BY <1>25, <2>2 DEF FillLock, Kinds, Shape, OkShape, Holding, Siblings, Local, TypeOK,
          BookTypes, LinkTypes
  <2>4. /\ p \in Passes => lab \in PassLabels
        /\ p \in Reqs => lab \in ReqLabels
        /\ lab # "idle"
        /\ p \in Reqs /\ lab \in Placing => loc[p].wires # <<>>
        /\ lab \in {"modify", "carry"} => loc[p].old \in Oids
    BY <1>25, <1>0 DEF FillLock, Shape, OkShape, PassLabels, ReqLabels, Holding, Placing, Siblings
  <2> HIDE DEF lab, c, l
  <2> QED BY <1>0, <2>1, <2>2, <2>3, <2>4, PlainMove
<1>26. ASSUME NEW p \in Procs, FillSkip(p) PROVE ProcTypes' /\ Shape'
  BY <1>26, FillReturnMove DEF FillSkip, Siblings
<1>27. ASSUME NEW p \in Procs, FillWrite(p) PROVE ProcTypes' /\ Shape'
  <2> DEFINE lab == "sibChildren"
             c   == cur[p]
             l   == loc[p]
  <2>1. Moves(p, lab, c, l)
    BY <1>27, <1>0 DEF FillWrite, Goto, Hold, Keep, Moves, TypeOK, ProcTypes
  <2>2. loc[p] \in Local /\ c \in Oids \cup {NoOid} /\ (lab \in Holding => c \in Oids)
    BY <1>27, <1>0, LocalFacts, ConstantsAssumption
       DEF FillWrite, Shape, OkShape, PassLabels, ReqLabels, Holding, Placing, Siblings, TypeOK,
             BookTypes, Oids
  <2>3. /\ l \in Local /\ l.wires = loc[p].wires /\ l.old = loc[p].old
        /\ l.rest = loc[p].rest /\ l.first = loc[p].first
    BY <1>27, <2>2 DEF FillWrite, Kinds, Shape, OkShape, Holding, Siblings, Local, TypeOK,
          BookTypes, LinkTypes
  <2>4. /\ p \in Passes => lab \in PassLabels
        /\ p \in Reqs => lab \in ReqLabels
        /\ lab # "idle"
        /\ p \in Reqs /\ lab \in Placing => loc[p].wires # <<>>
        /\ lab \in {"modify", "carry"} => loc[p].old \in Oids
    BY <1>27, <1>0 DEF FillWrite, Shape, OkShape, PassLabels, ReqLabels, Holding, Placing, Siblings
  <2> HIDE DEF lab, c, l
  <2> QED BY <1>0, <2>1, <2>2, <2>3, <2>4, PlainMove
<1>28. ASSUME NEW p \in Procs, SibChildren(p) PROVE ProcTypes' /\ Shape'
  <2> DEFINE lab == IF children[cur[p]] # {} THEN "sibUnparent" ELSE "sibBracket"
             c   == cur[p]
             l   == [loc[p] EXCEPT !.sibs = children[cur[p]]]
  <2>1. Moves(p, lab, c, l)
    BY <1>28, <1>0 DEF SibChildren, Goto, Hold, Keep, Moves, TypeOK, ProcTypes
  <2>2. loc[p] \in Local /\ c \in Oids \cup {NoOid} /\ (lab \in Holding => c \in Oids)
    BY <1>28, <1>0, LocalFacts, ConstantsAssumption
       DEF SibChildren, Shape, OkShape, PassLabels, ReqLabels, Holding, Placing, Siblings,
             TypeOK, BookTypes, Oids
  <2>3. /\ l \in Local /\ l.wires = loc[p].wires /\ l.old = loc[p].old
        /\ l.rest = loc[p].rest /\ l.first = loc[p].first
    BY <1>28, <2>2 DEF SibChildren, Kinds, Shape, OkShape, Holding, Siblings, Local, TypeOK,
          BookTypes, LinkTypes
  <2>4. /\ p \in Passes => lab \in PassLabels
        /\ p \in Reqs => lab \in ReqLabels
        /\ lab # "idle"
        /\ p \in Reqs /\ lab \in Placing => loc[p].wires # <<>>
        /\ lab \in {"modify", "carry"} => loc[p].old \in Oids
    BY <1>28, <1>0 DEF SibChildren, Shape, OkShape, PassLabels, ReqLabels, Holding, Placing,
          Siblings
  <2> HIDE DEF lab, c, l
  <2> QED BY <1>0, <2>1, <2>2, <2>3, <2>4, PlainMove
<1>29. ASSUME NEW p \in Procs, SibUnparent(p) PROVE ProcTypes' /\ Shape'
  BY <1>29, FillReturnMove DEF SibUnparent, Siblings
<1>30. ASSUME NEW p \in Procs, SibBracket(p) PROVE ProcTypes' /\ Shape'
  <2>1. CASE bracket[cur[p]] = {}
    BY <1>30, <2>1, FillReturnMove DEF SibBracket, Siblings
  <2>2. CASE bracket[cur[p]] # {}
    <3> DEFINE l == [loc[p] EXCEPT !.sibs = bracket[cur[p]]]
    <3>1. Moves(p, "sibUnlink", cur[p], l)
      BY <1>30, <2>2 DEF SibBracket, Goto, Keep, Moves, TypeOK, ProcTypes
    <3>2. loc[p] \in Local /\ cur[p] \in Oids /\ (p \in Reqs => loc[p].wires # <<>>)
      BY <1>30, LocalFacts DEF SibBracket, Shape, OkShape, Holding, Placing, Siblings
    <3>3. /\ l \in Local /\ l.wires = loc[p].wires /\ l.old = loc[p].old
          /\ l.rest = loc[p].rest /\ l.first = loc[p].first
      BY <3>2 DEF Local, TypeOK, LinkTypes
    <3> HIDE DEF l
    <3> QED BY <3>1, <3>2, <3>3, PlainMove DEF PassLabels, ReqLabels, Siblings
  <2> QED BY <2>1, <2>2
<1>31. ASSUME NEW p \in Procs, SibUnlink(p) PROVE ProcTypes' /\ Shape'
  <2> DEFINE lab == "sibNext"
             c   == cur[p]
             l   == [loc[p] EXCEPT !.par = parent[cur[p]]]
  <2>1. Moves(p, lab, c, l)
    BY <1>31, <1>0 DEF SibUnlink, Goto, Hold, Keep, Moves, TypeOK, ProcTypes
  <2>2. loc[p] \in Local /\ c \in Oids \cup {NoOid} /\ (lab \in Holding => c \in Oids)
    BY <1>31, <1>0, LocalFacts, ConstantsAssumption
       DEF SibUnlink, Shape, OkShape, PassLabels, ReqLabels, Holding, Placing, Siblings, TypeOK,
             BookTypes, Oids
  <2>3. /\ l \in Local /\ l.wires = loc[p].wires /\ l.old = loc[p].old
        /\ l.rest = loc[p].rest /\ l.first = loc[p].first
    BY <1>31, <2>2 DEF SibUnlink, Kinds, Shape, OkShape, Holding, Siblings, Local, TypeOK,
          BookTypes, LinkTypes
  <2>4. /\ p \in Passes => lab \in PassLabels
        /\ p \in Reqs => lab \in ReqLabels
        /\ lab # "idle"
        /\ p \in Reqs /\ lab \in Placing => loc[p].wires # <<>>
        /\ lab \in {"modify", "carry"} => loc[p].old \in Oids
    BY <1>31, <1>0 DEF SibUnlink, Shape, OkShape, PassLabels, ReqLabels, Holding, Placing, Siblings
  <2> HIDE DEF lab, c, l
  <2> QED BY <1>0, <2>1, <2>2, <2>3, <2>4, PlainMove
<1>32. ASSUME NEW p \in Procs, SibCancel(p) PROVE ProcTypes' /\ Shape'
  <2> DEFINE lab == "sibNext"
             c   == cur[p]
             l   == [loc[p] EXCEPT !.kids = {}]
  <2>1. Moves(p, lab, c, l)
    BY <1>32, <1>0 DEF SibCancel, Goto, Hold, Keep, Moves, TypeOK, ProcTypes
  <2>2. loc[p] \in Local /\ c \in Oids \cup {NoOid} /\ (lab \in Holding => c \in Oids)
    BY <1>32, <1>0, LocalFacts, ConstantsAssumption
       DEF SibCancel, Shape, OkShape, PassLabels, ReqLabels, Holding, Placing, Siblings, TypeOK,
             BookTypes, Oids
  <2>3. /\ l \in Local /\ l.wires = loc[p].wires /\ l.old = loc[p].old
        /\ l.rest = loc[p].rest /\ l.first = loc[p].first
    BY <1>32, <2>2 DEF SibCancel, Kinds, Shape, OkShape, Holding, Siblings, Local, TypeOK,
          BookTypes, LinkTypes
  <2>4. /\ p \in Passes => lab \in PassLabels
        /\ p \in Reqs => lab \in ReqLabels
        /\ lab # "idle"
        /\ p \in Reqs /\ lab \in Placing => loc[p].wires # <<>>
        /\ lab \in {"modify", "carry"} => loc[p].old \in Oids
    BY <1>32, <1>0 DEF SibCancel, Shape, OkShape, PassLabels, ReqLabels, Holding, Placing, Siblings
  <2> HIDE DEF lab, c, l
  <2> QED BY <1>0, <2>1, <2>2, <2>3, <2>4, PlainMove
<1>33. ASSUME NEW p \in Procs, SibDone(p) PROVE ProcTypes' /\ Shape'
  BY <1>33, FillReturnMove DEF SibDone, Siblings
<1>34. ASSUME NEW p \in Procs, NEW o \in Oids, SibRead(p, o) PROVE ProcTypes' /\ Shape'
  <2> DEFINE lab == IF order[o].status = "open" THEN "sibCancel" ELSE "sibNext"
             c   == cur[p]
             l   == [loc[p] EXCEPT !.sibs = loc[p].sibs \ {o},
                   !.kids = IF order[o].status = "open" THEN {o} ELSE {}]
  <2>1. Moves(p, lab, c, l)
    BY <1>34, <1>0 DEF SibRead, Goto, Hold, Keep, Moves, TypeOK, ProcTypes
  <2>2. loc[p] \in Local /\ c \in Oids \cup {NoOid} /\ (lab \in Holding => c \in Oids)
    BY <1>34, <1>0, LocalFacts, ConstantsAssumption
       DEF SibRead, Shape, OkShape, PassLabels, ReqLabels, Holding, Placing, Siblings, TypeOK,
             BookTypes, Oids
  <2>3. /\ l \in Local /\ l.wires = loc[p].wires /\ l.old = loc[p].old
        /\ l.rest = loc[p].rest /\ l.first = loc[p].first
    BY <1>34, <2>2 DEF SibRead, Kinds, Shape, OkShape, Holding, Siblings, Local, TypeOK,
          BookTypes, LinkTypes
  <2>4. /\ p \in Passes => lab \in PassLabels
        /\ p \in Reqs => lab \in ReqLabels
        /\ lab # "idle"
        /\ p \in Reqs /\ lab \in Placing => loc[p].wires # <<>>
        /\ lab \in {"modify", "carry"} => loc[p].old \in Oids
    BY <1>34, <1>0 DEF SibRead, Shape, OkShape, PassLabels, ReqLabels, Holding, Placing, Siblings
  <2> HIDE DEF lab, c, l
  <2> QED BY <1>0, <2>1, <2>2, <2>3, <2>4, PlainMove
<1>35. ASSUME NEW m \in Passes, MatchAll(m) PROVE ProcTypes' /\ Shape'
  <2> DEFINE lab == "open"
             c   == cur[m]
             l   == [loc[m] EXCEPT !.todo = ordersOpen, !.phase = "limit"]
  <2>1. Moves(m, lab, c, l)
    BY <1>35, <1>0 DEF MatchAll, Goto, Hold, Keep, Moves, TypeOK, ProcTypes
  <2>2. loc[m] \in Local /\ c \in Oids \cup {NoOid} /\ (lab \in Holding => c \in Oids)
    BY <1>35, <1>0, LocalFacts, ConstantsAssumption
       DEF MatchAll, Shape, OkShape, PassLabels, ReqLabels, Holding, Placing, Siblings, TypeOK,
             BookTypes, Oids
  <2>3. /\ l \in Local /\ l.wires = loc[m].wires /\ l.old = loc[m].old
        /\ l.rest = loc[m].rest /\ l.first = loc[m].first
    BY <1>35, <2>2 DEF MatchAll, Kinds, Shape, OkShape, Holding, Siblings, Local, TypeOK,
          BookTypes, LinkTypes
  <2>4. /\ m \in Passes => lab \in PassLabels
        /\ m \in Reqs => lab \in ReqLabels
        /\ lab # "idle"
        /\ m \in Reqs /\ lab \in Placing => loc[m].wires # <<>>
        /\ lab \in {"modify", "carry"} => loc[m].old \in Oids
    BY <1>35, <1>0 DEF MatchAll, Shape, OkShape, PassLabels, ReqLabels, Holding, Placing, Siblings
  <2> HIDE DEF lab, c, l
  <2> QED BY <1>0, <2>1, <2>2, <2>3, <2>4, PlainMove
<1>36. ASSUME NEW m \in Passes, MatchTriggers(m) PROVE ProcTypes' /\ Shape'
  <2> DEFINE lab == "trig"
             c   == cur[m]
             l   == [loc[m] EXCEPT !.todo = ordersTriggers, !.phase = "trigger"]
  <2>1. Moves(m, lab, c, l)
    BY <1>36, <1>0 DEF MatchTriggers, Goto, Hold, Keep, Moves, TypeOK, ProcTypes
  <2>2. loc[m] \in Local /\ c \in Oids \cup {NoOid} /\ (lab \in Holding => c \in Oids)
    BY <1>36, <1>0, LocalFacts, ConstantsAssumption
       DEF MatchTriggers, Shape, OkShape, PassLabels, ReqLabels, Holding, Placing, Siblings,
             TypeOK, BookTypes, Oids
  <2>3. /\ l \in Local /\ l.wires = loc[m].wires /\ l.old = loc[m].old
        /\ l.rest = loc[m].rest /\ l.first = loc[m].first
    BY <1>36, <2>2 DEF MatchTriggers, Kinds, Shape, OkShape, Holding, Siblings, Local, TypeOK,
          BookTypes, LinkTypes
  <2>4. /\ m \in Passes => lab \in PassLabels
        /\ m \in Reqs => lab \in ReqLabels
        /\ lab # "idle"
        /\ m \in Reqs /\ lab \in Placing => loc[m].wires # <<>>
        /\ lab \in {"modify", "carry"} => loc[m].old \in Oids
    BY <1>36, <1>0 DEF MatchTriggers, Shape, OkShape, PassLabels, ReqLabels, Holding, Placing,
          Siblings
  <2> HIDE DEF lab, c, l
  <2> QED BY <1>0, <2>1, <2>2, <2>3, <2>4, PlainMove
<1>37. ASSUME NEW m \in Passes, ReadParent(m) PROVE ProcTypes' /\ Shape'
  <2> DEFINE lab == "check"
             c   == cur[m]
             l   == [loc[m] EXCEPT !.par = parent[cur[m]]]
  <2>1. Moves(m, lab, c, l)
    BY <1>37, <1>0 DEF ReadParent, Goto, Hold, Keep, Moves, TypeOK, ProcTypes
  <2>2. loc[m] \in Local /\ c \in Oids \cup {NoOid} /\ (lab \in Holding => c \in Oids)
    BY <1>37, <1>0, LocalFacts, ConstantsAssumption
       DEF ReadParent, Shape, OkShape, PassLabels, ReqLabels, Holding, Placing, Siblings, TypeOK,
             BookTypes, Oids
  <2>3. /\ l \in Local /\ l.wires = loc[m].wires /\ l.old = loc[m].old
        /\ l.rest = loc[m].rest /\ l.first = loc[m].first
    BY <1>37, <2>2 DEF ReadParent, Kinds, Shape, OkShape, Holding, Siblings, Local, TypeOK,
          BookTypes, LinkTypes
  <2>4. /\ m \in Passes => lab \in PassLabels
        /\ m \in Reqs => lab \in ReqLabels
        /\ lab # "idle"
        /\ m \in Reqs /\ lab \in Placing => loc[m].wires # <<>>
        /\ lab \in {"modify", "carry"} => loc[m].old \in Oids
    BY <1>37, <1>0 DEF ReadParent, Shape, OkShape, PassLabels, ReqLabels, Holding, Placing, Siblings
  <2> HIDE DEF lab, c, l
  <2> QED BY <1>0, <2>1, <2>2, <2>3, <2>4, PlainMove
<1>38. ASSUME NEW m \in Passes, Unindex(m) PROVE ProcTypes' /\ Shape'
  <2> DEFINE lab == "trig"
             c   == NoOid
             l   == loc[m]
  <2>1. Moves(m, lab, c, l)
    BY <1>38, <1>0 DEF Unindex, Goto, Hold, Keep, Moves, TypeOK, ProcTypes
  <2>2. loc[m] \in Local /\ c \in Oids \cup {NoOid} /\ (lab \in Holding => c \in Oids)
    BY <1>38, <1>0, LocalFacts, ConstantsAssumption
       DEF Unindex, Shape, OkShape, PassLabels, ReqLabels, Holding, Placing, Siblings, TypeOK,
             BookTypes, Oids
  <2>3. /\ l \in Local /\ l.wires = loc[m].wires /\ l.old = loc[m].old
        /\ l.rest = loc[m].rest /\ l.first = loc[m].first
    BY <1>38, <2>2 DEF Unindex, Kinds, Shape, OkShape, Holding, Siblings, Local, TypeOK,
          BookTypes, LinkTypes
  <2>4. /\ m \in Passes => lab \in PassLabels
        /\ m \in Reqs => lab \in ReqLabels
        /\ lab # "idle"
        /\ m \in Reqs /\ lab \in Placing => loc[m].wires # <<>>
        /\ lab \in {"modify", "carry"} => loc[m].old \in Oids
    BY <1>38, <1>0 DEF Unindex, Shape, OkShape, PassLabels, ReqLabels, Holding, Placing, Siblings
  <2> HIDE DEF lab, c, l
  <2> QED BY <1>0, <2>1, <2>2, <2>3, <2>4, PlainMove
<1>39. ASSUME NEW m \in Passes, SweepExpired(m) PROVE ProcTypes' /\ Shape'
  <2> DEFINE lab == "sweep"
             c   == cur[m]
             l   == [loc[m] EXCEPT !.todo = ordersExpiry \cap due]
  <2>1. Moves(m, lab, c, l)
    BY <1>39, <1>0 DEF SweepExpired, Goto, Hold, Keep, Moves, TypeOK, ProcTypes
  <2>2. loc[m] \in Local /\ c \in Oids \cup {NoOid} /\ (lab \in Holding => c \in Oids)
    BY <1>39, <1>0, LocalFacts, ConstantsAssumption
       DEF SweepExpired, Shape, OkShape, PassLabels, ReqLabels, Holding, Placing, Siblings,
             TypeOK, BookTypes, Oids
  <2>3. /\ l \in Local /\ l.wires = loc[m].wires /\ l.old = loc[m].old
        /\ l.rest = loc[m].rest /\ l.first = loc[m].first
    BY <1>39, <2>2 DEF SweepExpired, Kinds, Shape, OkShape, Holding, Siblings, Local, TypeOK,
          BookTypes, LinkTypes
  <2>4. /\ m \in Passes => lab \in PassLabels
        /\ m \in Reqs => lab \in ReqLabels
        /\ lab # "idle"
        /\ m \in Reqs /\ lab \in Placing => loc[m].wires # <<>>
        /\ lab \in {"modify", "carry"} => loc[m].old \in Oids
    BY <1>39, <1>0 DEF SweepExpired, Shape, OkShape, PassLabels, ReqLabels, Holding, Placing,
          Siblings
  <2> HIDE DEF lab, c, l
  <2> QED BY <1>0, <2>1, <2>2, <2>3, <2>4, PlainMove
<1>40. ASSUME NEW m \in Passes, SweepCancel(m) PROVE ProcTypes' /\ Shape'
  <2> DEFINE lab == "sweep"
             c   == NoOid
             l   == loc[m]
  <2>1. Moves(m, lab, c, l)
    BY <1>40, <1>0 DEF SweepCancel, Goto, Hold, Keep, Moves, TypeOK, ProcTypes
  <2>2. loc[m] \in Local /\ c \in Oids \cup {NoOid} /\ (lab \in Holding => c \in Oids)
    BY <1>40, <1>0, LocalFacts, ConstantsAssumption
       DEF SweepCancel, Shape, OkShape, PassLabels, ReqLabels, Holding, Placing, Siblings,
             TypeOK, BookTypes, Oids
  <2>3. /\ l \in Local /\ l.wires = loc[m].wires /\ l.old = loc[m].old
        /\ l.rest = loc[m].rest /\ l.first = loc[m].first
    BY <1>40, <2>2 DEF SweepCancel, Kinds, Shape, OkShape, Holding, Siblings, Local, TypeOK,
          BookTypes, LinkTypes
  <2>4. /\ m \in Passes => lab \in PassLabels
        /\ m \in Reqs => lab \in ReqLabels
        /\ lab # "idle"
        /\ m \in Reqs /\ lab \in Placing => loc[m].wires # <<>>
        /\ lab \in {"modify", "carry"} => loc[m].old \in Oids
    BY <1>40, <1>0 DEF SweepCancel, Shape, OkShape, PassLabels, ReqLabels, Holding, Placing,
          Siblings
  <2> HIDE DEF lab, c, l
  <2> QED BY <1>0, <2>1, <2>2, <2>3, <2>4, PlainMove
<1>41. ASSUME NEW m \in Passes, EndPass(m) PROVE ProcTypes' /\ Shape'
  BY <1>41, <1>0, FinishMove DEF EndPass
<1>42. ASSUME NEW m \in Passes, NEW o \in Oids, MatchTriggerOrder(m, o) PROVE ProcTypes' /\ Shape'
  <2> DEFINE lab == IF order[o].status = "open" THEN "parent" ELSE "trig"
             c   == IF order[o].status = "open" THEN o ELSE cur[m]
             l   == [loc[m] EXCEPT !.todo = loc[m].todo \ {o}]
  <2>1. Moves(m, lab, c, l)
    BY <1>42, <1>0 DEF MatchTriggerOrder, Goto, Hold, Keep, Moves, TypeOK, ProcTypes
  <2>2. loc[m] \in Local /\ c \in Oids \cup {NoOid} /\ (lab \in Holding => c \in Oids)
    BY <1>42, <1>0, LocalFacts, ConstantsAssumption
       DEF MatchTriggerOrder, Shape, OkShape, PassLabels, ReqLabels, Holding, Placing, Siblings,
             TypeOK, BookTypes, Oids
  <2>3. /\ l \in Local /\ l.wires = loc[m].wires /\ l.old = loc[m].old
        /\ l.rest = loc[m].rest /\ l.first = loc[m].first
    BY <1>42, <2>2 DEF MatchTriggerOrder, Kinds, Shape, OkShape, Holding, Siblings, Local,
          TypeOK, BookTypes, LinkTypes
  <2>4. /\ m \in Passes => lab \in PassLabels
        /\ m \in Reqs => lab \in ReqLabels
        /\ lab # "idle"
        /\ m \in Reqs /\ lab \in Placing => loc[m].wires # <<>>
        /\ lab \in {"modify", "carry"} => loc[m].old \in Oids
    BY <1>42, <1>0 DEF MatchTriggerOrder, Shape, OkShape, PassLabels, ReqLabels, Holding,
          Placing, Siblings
  <2> HIDE DEF lab, c, l
  <2> QED BY <1>0, <2>1, <2>2, <2>3, <2>4, PlainMove
<1>43. ASSUME NEW m \in Passes, NEW o \in Oids, SweepRead(m, o) PROVE ProcTypes' /\ Shape'
  <2> DEFINE lab == IF order[o].status = "open" THEN "sweepCancel" ELSE "sweep"
             c   == IF order[o].status = "open" THEN o ELSE cur[m]
             l   == [loc[m] EXCEPT !.todo = loc[m].todo \ {o}]
  <2>1. Moves(m, lab, c, l)
    BY <1>43, <1>0 DEF SweepRead, Goto, Hold, Keep, Moves, TypeOK, ProcTypes
  <2>2. loc[m] \in Local /\ c \in Oids \cup {NoOid} /\ (lab \in Holding => c \in Oids)
    BY <1>43, <1>0, LocalFacts, ConstantsAssumption
       DEF SweepRead, Shape, OkShape, PassLabels, ReqLabels, Holding, Placing, Siblings, TypeOK,
             BookTypes, Oids
  <2>3. /\ l \in Local /\ l.wires = loc[m].wires /\ l.old = loc[m].old
        /\ l.rest = loc[m].rest /\ l.first = loc[m].first
    BY <1>43, <2>2 DEF SweepRead, Kinds, Shape, OkShape, Holding, Siblings, Local, TypeOK,
          BookTypes, LinkTypes
  <2>4. /\ m \in Passes => lab \in PassLabels
        /\ m \in Reqs => lab \in ReqLabels
        /\ lab # "idle"
        /\ m \in Reqs /\ lab \in Placing => loc[m].wires # <<>>
        /\ lab \in {"modify", "carry"} => loc[m].old \in Oids
    BY <1>43, <1>0 DEF SweepRead, Shape, OkShape, PassLabels, ReqLabels, Holding, Placing, Siblings
  <2> HIDE DEF lab, c, l
  <2> QED BY <1>0, <2>1, <2>2, <2>3, <2>4, PlainMove
<1>44. ASSUME NEW m \in Passes, NEW x \in BOOLEAN, CheckTrigger(m, x) PROVE ProcTypes' /\ Shape'
  <2> DEFINE lab == IF x /\ ~Dormant(loc[m].par) THEN "fill" ELSE "trig"
             c   == IF x /\ ~Dormant(loc[m].par) THEN cur[m] ELSE NoOid
             l   == [loc[m] EXCEPT !.par = NoOid]
  <2>1. Moves(m, lab, c, l)
    BY <1>44, <1>0 DEF CheckTrigger, Goto, Hold, Keep, Moves, TypeOK, ProcTypes
  <2>2. loc[m] \in Local /\ c \in Oids \cup {NoOid} /\ (lab \in Holding => c \in Oids)
    BY <1>44, <1>0, LocalFacts, ConstantsAssumption
       DEF CheckTrigger, Shape, OkShape, PassLabels, ReqLabels, Holding, Placing, Siblings,
             TypeOK, BookTypes, Oids
  <2>3. /\ l \in Local /\ l.wires = loc[m].wires /\ l.old = loc[m].old
        /\ l.rest = loc[m].rest /\ l.first = loc[m].first
    BY <1>44, <2>2 DEF CheckTrigger, Kinds, Shape, OkShape, Holding, Siblings, Local, TypeOK,
          BookTypes, LinkTypes
  <2>4. /\ m \in Passes => lab \in PassLabels
        /\ m \in Reqs => lab \in ReqLabels
        /\ lab # "idle"
        /\ m \in Reqs /\ lab \in Placing => loc[m].wires # <<>>
        /\ lab \in {"modify", "carry"} => loc[m].old \in Oids
    BY <1>44, <1>0 DEF CheckTrigger, Shape, OkShape, PassLabels, ReqLabels, Holding, Placing,
          Siblings
  <2> HIDE DEF lab, c, l
  <2> QED BY <1>0, <2>1, <2>2, <2>3, <2>4, PlainMove
<1>45. ASSUME NEW m \in Passes, NEW o \in Oids, NEW x \in BOOLEAN, MatchOpenOrder(m, o, x)
      PROVE ProcTypes' /\ Shape'
  <2> DEFINE lab == IF order[o].status = "open" /\ x THEN "fill" ELSE "open"
             c   == IF order[o].status = "open" /\ x THEN o ELSE cur[m]
             l   == [loc[m] EXCEPT !.todo = loc[m].todo \ {o}]
  <2>1. Moves(m, lab, c, l)
    BY <1>45, <1>0 DEF MatchOpenOrder, Goto, Hold, Keep, Moves, TypeOK, ProcTypes
  <2>2. loc[m] \in Local /\ c \in Oids \cup {NoOid} /\ (lab \in Holding => c \in Oids)
    BY <1>45, <1>0, LocalFacts, ConstantsAssumption
       DEF MatchOpenOrder, Shape, OkShape, PassLabels, ReqLabels, Holding, Placing, Siblings,
             TypeOK, BookTypes, Oids
  <2>3. /\ l \in Local /\ l.wires = loc[m].wires /\ l.old = loc[m].old
        /\ l.rest = loc[m].rest /\ l.first = loc[m].first
    BY <1>45, <2>2 DEF MatchOpenOrder, Kinds, Shape, OkShape, Holding, Siblings, Local, TypeOK,
          BookTypes, LinkTypes
  <2>4. /\ m \in Passes => lab \in PassLabels
        /\ m \in Reqs => lab \in ReqLabels
        /\ lab # "idle"
        /\ m \in Reqs /\ lab \in Placing => loc[m].wires # <<>>
        /\ lab \in {"modify", "carry"} => loc[m].old \in Oids
    BY <1>45, <1>0 DEF MatchOpenOrder, Shape, OkShape, PassLabels, ReqLabels, Holding, Placing,
          Siblings
  <2> HIDE DEF lab, c, l
  <2> QED BY <1>0, <2>1, <2>2, <2>3, <2>4, PlainMove
<1>46. ASSUME NEW o \in Oids, Deadline(o) PROVE ProcTypes' /\ Shape'
  BY <1>46 DEF Deadline, TypeOK, ProcTypes, Shape
<1>47. ASSUME Restart PROVE ProcTypes' /\ Shape'
  <2>1. /\ pc' = [p \in Procs |-> "idle"] /\ cur' = [p \in Procs |-> NoOid]
        /\ loc' = [p \in Procs |-> Blank]
    BY <1>47 DEF Restart, StopCalls
  <2>2. ProcTypes'
    BY <2>1, BlankLocal DEF ProcTypes, Labels
  <2>3. \A p : OkShape(p, "idle", NoOid, Blank)
    BY DEF OkShape, PassLabels, ReqLabels, Holding, Placing, Siblings, Blank
  <2> QED BY <2>1, <2>2, <2>3 DEF Shape
<1> QED
  BY <1>1, <1>2, <1>3, <1>4, <1>5, <1>6, <1>7, <1>8, <1>9, <1>10, <1>11, <1>12, <1>13, <1>14,
     <1>15, <1>16, <1>17, <1>18, <1>19, <1>20, <1>21, <1>22, <1>23, <1>24, <1>25, <1>26, <1>27,
     <1>28, <1>29, <1>30, <1>31, <1>32, <1>33, <1>34, <1>35, <1>36, <1>37, <1>38, <1>39, <1>40,
     <1>41, <1>42, <1>43, <1>44, <1>45, <1>46, <1>47
     DEF Next, Place, Cancel, Modify, Sweepers, Fill, Match

LEMMA InitTypes ==
  ASSUME Init
  PROVE  TypeOK /\ Shape
<1>1. BookTypes /\ LinkTypes
  BY ConstantsAssumption DEF Init, BookTypes, LinkTypes, Order, Statuses, Kinds
<1>2. CtlTypes
  <2>1. isRunning = FALSE /\ lock = NoProc /\ ops = 0 /\ crashes = 0
    BY DEF Init
  <2>2. ops \in 0..MaxOps /\ crashes \in 0..MaxCrashes
    BY <2>1, ConstantsAssumption
  <2> QED BY <2>1, <2>2 DEF CtlTypes
<1>3. HistTypes
  BY DEF Init, HistTypes
<1>4. ProcTypes
  BY BlankLocal DEF Init, ProcTypes, Labels
<1>5. \A p : OkShape(p, "idle", NoOid, Blank)
  BY DEF OkShape, PassLabels, ReqLabels, Holding, Placing, Siblings, Blank
<1> QED BY <1>1, <1>2, <1>3, <1>4, <1>5 DEF Init, TypeOK, Shape

LEMMA TypeStep ==
  ASSUME TypeOK, Shape, Next
  PROVE  TypeOK' /\ Shape'
  BY SharedTypesStep, ShapeStep DEF TypeOK, SharedTypes

LEMMA TypeStutter ==
  ASSUME TypeOK, Shape, UNCHANGED vars
  PROVE  TypeOK' /\ Shape'
  BY DEF vars, book, links, ctl, hist, TypeOK, BookTypes, LinkTypes, CtlTypes, ProcTypes,
         HistTypes, Shape, OkShape

(* Every variable keeps its shape (TypeOK), whatever the numbers of        *)
(* orders, API calls, matcher passes and restarts.                         *)
THEOREM TypeCorrect == Spec => []TypeOK
<1>1. Init => TypeOK /\ Shape
  BY InitTypes
<1>2. TypeOK /\ Shape /\ [Next]_vars => (TypeOK /\ Shape)'
  BY TypeStep, TypeStutter
<1> QED BY <1>1, <1>2, PTL DEF Spec

-----------------------------------------------------------------------------
(* Who may fill what.  Orders that have a hash: *)
Saved == {o \in Oids : order[o].status # "none"}

\* p has read o as open and may go on to fill it.
HandLabels  == {"parent", "check", "fill", "locked"}
Hands(p, o) == cur[p] = o /\ pc[p] \in HandLabels

\* At most one pass runs, and isRunning says so.
OnePass ==
  /\ \A m \in Passes : pc[m] # "idle" => isRunning
  /\ \A m, n \in Passes : m # n => pc[m] = "idle" \/ pc[n] = "idle"

\* Oids the counter has not reached are untouched.
Fresh ==
  \A o \in Oids : o > lastOid =>
    /\ order[o].status = "none"
    /\ \A r \in Reqs : pc[r] \in Placing => cur[r] # o

\* Whatever points at an order points at one that has been saved.
KnownSets ==
  userOrders \subseteq Saved /\ ordersOpen \subseteq Saved /\ ordersTriggers \subseteq Saved
KnownLocals(p) ==
  /\ pc[p] \in HandLabels \cup {"rest", "list", "cancelWrite", "sweepCancel"} => cur[p] \in Saved
  /\ pc[p] = "modify" => loc[p].old \in Saved
  /\ pc[p] \in {"sibCancel", "tick"} => loc[p].kids \subseteq Saved
  /\ pc[p] = "reset" => loc[p].todo \subseteq Saved
KnownQueue(p) == p \in Passes /\ pc[p] \notin Sweeping => loc[p].todo \subseteq Saved

\* A placement owns its order until it is on the book.
Owner(r) ==
  /\ pc[r] = "save" => order[cur[r]].status = "none"
  /\ pc[r] = "list" => order[cur[r]].kind = "trigger"
  /\ pc[r] \in {"save", "rest", "fill", "locked"} =>
       /\ cur[r] \notin ordersOpen \cup ordersTriggers
       /\ fills[cur[r]] = 0
       /\ \A m \in Passes : /\ pc[m] \notin Sweeping => cur[r] \notin loc[m].todo
                            /\ ~Hands(m, cur[r])
OneOwner ==
  \A r, s \in Reqs : r # s /\ pc[r] \in Placing /\ pc[s] \in Placing => cur[r] # cur[s]

\* One process at a time has an order in hand, and only before its fill.
OneHand ==
  /\ \A p, q \in Procs, o \in Oids : Hands(p, o) /\ Hands(q, o) => p = q
  /\ \A p \in Procs, o \in Oids : Hands(p, o) => fills[o] = 0

Filled ==
  \A o \in Oids : fills[o] > 0 => order[o].status \notin {"none", "open"} /\ fills[o] <= 1
Final ==
  \A o \in finalCancel :
    order[o].status = "cancelled" /\ fills[o] = 0 /\ \A p \in Procs : ~Hands(p, o)

\* The inductive invariant, apart from OnePass and the shapes.
IInv ==
  /\ Fresh /\ KnownSets
  /\ \A p \in Procs : KnownLocals(p) /\ KnownQueue(p)
  /\ \A r \in Reqs : Owner(r)
  /\ OneOwner /\ OneHand /\ Filled /\ Final /\ RestingLimitIndexed

-----------------------------------------------------------------------------
(* Most actions are calm: they cancel some orders, perhaps none, and put   *)
(* nothing on the book.                                                    *)

Cancels(S) ==
  /\ S \subseteq Saved
  /\ \A o \in Oids : /\ order'[o].status = IF o \in S THEN "cancelled" ELSE order[o].status
                     /\ order'[o].kind = order[o].kind
  /\ ordersOpen' \subseteq ordersOpen
  /\ \A o \in ordersOpen \ ordersOpen' : o \in S \/ order[o].status # "open"
  /\ ordersTriggers' \subseteq ordersTriggers /\ userOrders' \subseteq userOrders
  /\ lastOid' = lastOid /\ fills' = fills
  /\ finalCancel' = finalCancel \cup {o \in S : fills[o] = 0 /\ ~InHand(o)}

\* Only p moves.
Alone(p) ==
  \A q \in Procs : q # p => pc'[q] = pc[q] /\ cur'[q] = cur[q] /\ loc'[q] = loc[q]

\* p moves on with orders it knows of: a placement with the order it has, a
\* pass with one it took from its queue and read as open.
Steady(p, S) ==
  /\ Alone(p)
  /\ KnownLocals(p)'
  /\ p \in Reqs /\ pc'[p] \in Placing =>
       /\ pc[p] \in Placing /\ cur'[p] = cur[p] /\ pc'[p] \notin {"save", "rest", "list"}
       /\ pc'[p] \in HandLabels => pc[p] \in HandLabels
  /\ pc'[p] \in HandLabels =>
       \/ Hands(p, cur'[p])
       \/ /\ p \in Passes /\ pc[p] \notin Sweeping /\ cur'[p] \in loc[p].todo /\ S = {}
          /\ order[cur'[p]].status = "open"
  /\ p \in Passes /\ pc'[p] \notin Sweeping =>
       loc'[p].todo \subseteq
         ordersOpen \cup ordersTriggers \cup (IF pc[p] \in Sweeping THEN {} ELSE loc[p].todo)

LEMMA CalmStep ==
  ASSUME TypeOK, Shape, OnePass, IInv, TypeOK', Shape',
         NEW p \in Procs, NEW S \in SUBSET Oids, Cancels(S), Steady(p, S)
  PROVE  IInv'
<1> USE ConstantsAssumption
<1>a. \A r \in Reqs : r \in Procs /\ r \notin Passes
  BY DEF Procs
<1>b. \A m \in Passes : m \in Procs /\ m \notin Reqs
  BY DEF Procs
<1>c. fills \in [Oids -> Nat] /\ ordersOpen \subseteq Oids /\ finalCancel \subseteq Oids
      /\ userOrders \subseteq Oids /\ ordersTriggers \subseteq Oids
  BY DEF TypeOK, BookTypes, HistTypes
<1>d. Saved' = Saved
  BY DEF Cancels, Saved
<1>e. \A q \in Procs : q # p => pc'[q] = pc[q] /\ cur'[q] = cur[q] /\ loc'[q] = loc[q]
  BY DEF Steady, Alone
<1>f. fills' = fills /\ lastOid' = lastOid
  BY DEF Cancels
<1>g. \A r \in Reqs : pc'[r] \in Placing => pc[r] \in Placing /\ cur'[r] = cur[r]
  BY <1>a, <1>e DEF Steady
(* An order that p newly takes in hand is in nobody else's, unfilled and not cancelled. *)
<1>h. ASSUME NEW o \in Oids, Hands(p, o)', ~Hands(p, o)
      PROVE  /\ p \in Passes /\ o \in loc[p].todo /\ pc[p] \notin Sweeping
             /\ S = {} /\ order[o].status = "open" /\ fills[o] = 0
             /\ \A q \in Procs : ~Hands(q, o)
  <2>1. /\ p \in Passes /\ o \in loc[p].todo /\ pc[p] \notin Sweeping
        /\ S = {} /\ order[o].status = "open"
    BY <1>h DEF Steady, Hands
  <2>2. fills[o] = 0
    BY <1>c, <2>1 DEF IInv, Filled
  <2>3. pc[p] # "idle"
    BY <2>1 DEF Shape, OkShape, Blank
  <2>4. ASSUME NEW q \in Procs, Hands(q, o) PROVE FALSE
    <3>1. CASE q \in Passes
      BY <1>h, <2>1, <2>3, <2>4, <3>1 DEF OnePass, Hands, HandLabels
    <3>2. CASE q \in Reqs
      <4>1. pc[q] \in {"fill", "locked"} /\ cur[q] = o
        BY <1>a, <2>4, <3>2 DEF Shape, OkShape, ReqLabels, Siblings, Hands, HandLabels
      <4>2. cur[q] \notin loc[p].todo
        BY <2>1, <3>2, <4>1 DEF IInv, Owner
      <4> QED BY <2>1, <4>1, <4>2
    <3> QED BY <3>1, <3>2 DEF Procs
  <2> QED BY <2>1, <2>2, <2>4
<1>i. ASSUME NEW q \in Procs, NEW o \in Oids, Hands(q, o)' PROVE q = p \/ Hands(q, o)
  BY <1>e, <1>i DEF Hands
<1>1. Fresh'
  BY <1>f, <1>g DEF IInv, Fresh, Cancels, Saved
<1>2. KnownSets'
  BY <1>d DEF IInv, KnownSets, Cancels
<1>3. ASSUME NEW q \in Procs PROVE KnownLocals(q)' /\ KnownQueue(q)'
  <2>1. CASE q = p
    <3>1. KnownQueue(p)'
      BY <1>d DEF IInv, KnownSets, KnownQueue, Steady
    <3> QED BY <2>1, <3>1 DEF Steady
  <2>2. CASE q # p
    <3>1. pc'[q] = pc[q] /\ cur'[q] = cur[q] /\ loc'[q] = loc[q]
      BY <1>e, <2>2
    <3> QED BY <1>d, <3>1 DEF IInv, KnownLocals, KnownQueue
  <2> QED BY <2>1, <2>2
<1>4. ASSUME NEW r \in Reqs PROVE Owner(r)'
  <2> DEFINE Early == {"save", "rest", "fill", "locked"}
  <2>0. Owner(r) /\ r \in Procs
    BY <1>a DEF IInv
  <2>1. pc'[r] \in Early \cup {"list"} => cur'[r] = cur[r] /\ cur[r] \in Oids
    BY <1>g, <2>0 DEF Placing, Shape, OkShape, Holding
  <2>2. /\ pc'[r] = "save" => pc[r] = "save"
        /\ pc'[r] = "list" => pc[r] = "list"
        /\ pc'[r] \in Early => pc[r] \in Early
    BY <1>e, <2>0 DEF Steady, Placing, HandLabels, Shape, OkShape, ReqLabels, Siblings
  <2>3. pc'[r] = "save" => order'[cur'[r]].status = "none"
    BY <2>0, <2>1, <2>2 DEF Owner, Cancels, Saved
  <2>4. pc'[r] = "list" => order'[cur'[r]].kind = "trigger"
    BY <2>0, <2>1, <2>2 DEF Owner, Cancels
  <2>5. ASSUME pc'[r] \in Early, NEW m \in Passes
        PROVE  /\ pc'[m] \notin Sweeping => cur'[r] \notin loc'[m].todo
               /\ ~(cur'[m] = cur'[r] /\ pc'[m] \in HandLabels)
    <3>0. m \in Procs
      BY <1>b
    <3>1. /\ pc[m] \notin Sweeping => cur[r] \notin loc[m].todo
          /\ ~Hands(m, cur[r]) /\ cur[r] \notin ordersOpen \cup ordersTriggers
      BY <2>0, <2>2, <2>5 DEF Owner
    <3>2. CASE m # p
      BY <1>e, <2>1, <2>5, <3>0, <3>1, <3>2 DEF Hands
    <3>3. CASE m = p
      <4>1. pc'[p] \notin Sweeping => cur[r] \notin loc'[p].todo
        BY <3>1, <3>3 DEF Steady
      <4>2. ~(cur'[p] = cur[r] /\ pc'[p] \in HandLabels)
        BY <3>1, <3>3 DEF Steady, Hands
      <4> QED BY <2>1, <2>5, <3>3, <4>1, <4>2
    <3> QED BY <3>2, <3>3
  <2>6. pc'[r] \in Early => cur'[r] \notin ordersOpen' \cup ordersTriggers' /\ fills'[cur'[r]] = 0
    BY <1>f, <2>0, <2>1, <2>2 DEF Owner, Cancels
  <2> QED BY <2>3, <2>4, <2>5, <2>6 DEF Owner, Hands
<1>5. OneOwner'
  BY <1>g DEF IInv, OneOwner
<1>6. OneHand'
  <2>1. ASSUME NEW q \in Procs, NEW u \in Procs, NEW o \in Oids, Hands(q, o)', Hands(u, o)'
        PROVE  q = u
    BY <1>h, <1>i, <2>1 DEF IInv, OneHand
  <2>2. ASSUME NEW q \in Procs, NEW o \in Oids, Hands(q, o)' PROVE fills'[o] = 0
    BY <1>f, <1>h, <1>i, <2>2 DEF IInv, OneHand
  <2> QED BY <2>1, <2>2 DEF OneHand
<1>7. Filled'
  BY <1>f DEF IInv, Filled, Cancels
<1>8. Final'
  <2> SUFFICES ASSUME NEW o \in finalCancel'
               PROVE  /\ order'[o].status = "cancelled" /\ fills'[o] = 0
                      /\ \A q \in Procs : ~Hands(q, o)'
    BY DEF Final
  <2>0. o \in Oids
    BY <1>c DEF Cancels
  <2>1. CASE o \in finalCancel
    <3>1. order[o].status = "cancelled" /\ fills[o] = 0 /\ \A q \in Procs : ~Hands(q, o)
      BY <2>1 DEF IInv, Final
    <3>2. order'[o].status = "cancelled" /\ fills'[o] = 0
      BY <1>f, <2>0, <3>1 DEF Cancels
    <3>3. ASSUME NEW q \in Procs, Hands(q, o)' PROVE FALSE
      BY <1>h, <1>i, <2>0, <3>1, <3>3
    <3> QED BY <3>2, <3>3
  <2>2. CASE o \notin finalCancel
    <3>1. o \in S /\ fills[o] = 0 /\ ~InHand(o)
      BY <2>2 DEF Cancels
    <3>2. order'[o].status = "cancelled" /\ fills'[o] = 0
      BY <1>f, <2>0, <3>1 DEF Cancels
    <3>3. \A q \in Procs : ~Hands(q, o)
      BY <3>1 DEF InHand, Hands, HandLabels
    <3>4. ASSUME NEW q \in Procs, Hands(q, o)' PROVE FALSE
      BY <1>h, <1>i, <2>0, <3>1, <3>3, <3>4
    <3> QED BY <3>2, <3>4
  <2> QED BY <2>1, <2>2
<1>9. RestingLimitIndexed'
  BY <1>c DEF IInv, RestingLimitIndexed, Cancels
<1> QED BY <1>1, <1>2, <1>3, <1>4, <1>5, <1>6, <1>7, <1>8, <1>9 DEF IInv

-----------------------------------------------------------------------------
(* The calm actions.                                                       *)

LEMMA FinishSteady ==
  ASSUME TypeOK, NEW p \in Procs, NEW S, Finish(p)
  PROVE  Steady(p, S)
<1>1. Alone(p) /\ pc'[p] = "idle" /\ loc'[p] = Blank
  BY DEF Finish, Goto, Hold, Keep, Alone, TypeOK, ProcTypes
<1>2. loc'[p].todo = {}
  BY <1>1 DEF Blank
<1> QED BY <1>1, <1>2 DEF Steady, KnownLocals, HandLabels, Placing, Siblings

LEMMA AnswerSteady ==
  ASSUME TypeOK, NEW r \in Reqs, NEW S, NEW o, NEW resting, Answer(r, o, resting)
  PROVE  Steady(r, S) /\ pc'[r] \in {"place", "carry"}
<1>1. r \in Procs /\ r \notin Passes
  BY ConstantsAssumption DEF Procs
<1>2. Alone(r) /\ pc'[r] \in {"place", "carry"}
  BY <1>1 DEF Answer, Goto, Hold, Keep, Alone, TypeOK, ProcTypes
<1> QED BY <1>1, <1>2 DEF Steady, KnownLocals, HandLabels, Placing, Siblings

LEMMA FillReturnSteady ==
  ASSUME TypeOK, NEW p \in Procs, NEW S, FillReturn(p), pc[p] \in {"locked"} \cup Siblings
  PROVE  Steady(p, S)
<1>1. CASE p \in Reqs
  BY <1>1, AnswerSteady DEF FillReturn
<1>2. CASE p \notin Reqs
  <2>1. Alone(p) /\ pc'[p] \in {"open", "unindex"} /\ loc'[p].todo = loc[p].todo
    <3>1. Moves(p, IF loc[p].phase = "limit" THEN "open" ELSE "unindex",
                   IF loc[p].phase = "limit" THEN NoOid ELSE cur[p],
                   [loc[p] EXCEPT !.sibs = {}, !.par = NoOid])
      BY <1>2 DEF FillReturn, Goto, Hold, Keep, Moves
    <3>2. loc'[p] = [loc[p] EXCEPT !.sibs = {}, !.par = NoOid]
      BY <3>1 DEF Moves, TypeOK, ProcTypes
    <3>3. loc'[p].todo = loc[p].todo
      BY <3>2, LocalFacts DEF Local
    <3>4. Alone(p) /\ pc'[p] \in {"open", "unindex"}
      BY <3>1 DEF Moves, Alone, TypeOK, ProcTypes
    <3> QED BY <3>3, <3>4
  <2> QED BY <1>2, <2>1 DEF Steady, KnownLocals, HandLabels, Placing, Sweeping, Siblings
<1> QED BY <1>1, <1>2

\* Nothing the invariant speaks of changes but the process.
Quiet == UNCHANGED <<order, lastOid, ordersOpen, ordersTriggers, userOrders, fills, finalCancel>>

LEMMA QuietCancels ==
  ASSUME TypeOK, Quiet
  PROVE  Cancels({})
  BY DEF Quiet, Cancels

LEMMA WriteCancels ==
  ASSUME TypeOK, NEW S \in SUBSET Saved, NEW asked, SetStatus(S, "cancelled"), RecordCancel(S,
        asked),
         ordersOpen' = ordersOpen \ S, ordersTriggers' = ordersTriggers \ S,
         userOrders' \subseteq userOrders, lastOid' = lastOid
  PROVE  Cancels(S)
<1>1. BookTypes
  BY DEF TypeOK
<1>2. \A o \in Oids : /\ order'[o].status = IF o \in S THEN "cancelled" ELSE order[o].status
                      /\ order'[o].kind = order[o].kind
  BY <1>1, SetStatusType DEF Statuses
<1> QED BY <1>2 DEF Cancels, RecordCancel

LEMMA CalmActions ==
  ASSUME TypeOK, Shape, OnePass, IInv, Next, TypeOK', Shape'
  PROVE  \/ IInv'
         \/ \E r \in Reqs : \/ \E x \in BOOLEAN : NextOid(r, x)
                            \/ SaveOrder(r) \/ RestOrder(r) \/ RestTrigger(r) \/ ListTrigger(r)
         \/ \E p \in Procs : FillWrite(p)
         \/ Restart
<1>0. /\ \A r \in Reqs : r \in Procs /\ r \notin Passes
      /\ \A m \in Passes : m \in Procs /\ m \notin Reqs
  BY ConstantsAssumption DEF Procs
<1> USE DEF book, hist
<1>1. ASSUME NEW r \in Reqs, RejectOrder(r) PROVE IInv'
  <2>2. Cancels({})
    BY <1>1, QuietCancels DEF RejectOrder, Quiet
  <2>3. Steady(r, {})
    BY <1>1, AnswerSteady DEF RejectOrder
  <2> QED BY <1>0, <2>2, <2>3, CalmStep
<1>2. ASSUME NEW r \in Reqs, LinkBracket(r) PROVE IInv'
  <2>2. Cancels({})
    BY <1>2, QuietCancels DEF LinkBracket, Quiet, RecordLinks
  <2>3. Steady(r, {})
    BY <1>2, <1>0, FinishSteady DEF LinkBracket
  <2> QED BY <1>0, <2>2, <2>3, CalmStep
<1>3. ASSUME NEW r \in Reqs, CancelWrite(r) PROVE IInv'
  <2>1. {cur[r]} \in SUBSET Saved
    BY <1>3, <1>0, LocalFacts DEF CancelWrite, IInv, KnownLocals
  <2>2. Cancels({cur[r]})
    BY <1>3, <2>1, WriteCancels DEF CancelWrite
  <2>3. Steady(r, {cur[r]})
    BY <1>3, <1>0, LocalFacts
       DEF CancelWrite, Goto, Steady, Alone, KnownLocals, TypeOK, ProcTypes, HandLabels, Placing,
             Siblings
  <2> QED BY <1>0, <2>1, <2>2, <2>3, CalmStep DEF Saved
<1>4. ASSUME NEW r \in Reqs, Cascade(r) PROVE IInv'
  <2>2. Cancels({})
    BY <1>4, QuietCancels DEF Cascade, Quiet
  <2>3. Steady(r, {})
    BY <1>4, <1>0, LocalFacts
       DEF Cascade, Goto, Keep, Steady, Alone, KnownLocals, TypeOK, ProcTypes, Local, HandLabels,
             Placing, Siblings
  <2> QED BY <1>0, <2>2, <2>3, CalmStep
<1>5. ASSUME NEW r \in Reqs, CascadeUnlink(r) PROVE IInv'
  <2>2. Cancels({})
    BY <1>5, QuietCancels DEF CascadeUnlink, Quiet
  <2>3. Steady(r, {})
    BY <1>5, <1>0, LocalFacts
       DEF CascadeUnlink, Goto, Hold, Steady, Alone, KnownLocals, TypeOK, ProcTypes, HandLabels,
             Placing, Siblings
  <2> QED BY <1>0, <2>2, <2>3, CalmStep
<1>6. ASSUME NEW r \in Reqs, CancelDone(r) PROVE IInv'
  <2>2. Cancels({})
    BY <1>6, QuietCancels DEF CancelDone, Quiet
  <2>3. Steady(r, {})
    BY <1>6, <1>0, FinishSteady DEF CancelDone
  <2> QED BY <1>0, <2>2, <2>3, CalmStep
<1>7. ASSUME NEW r \in Reqs, ModifyWrite(r) PROVE IInv'
  <2>1. {loc[r].old} \in SUBSET Saved
    BY <1>7, <1>0, LocalFacts DEF ModifyWrite, IInv, KnownLocals
  <2>2. Cancels({loc[r].old})
    BY <1>7, <2>1, WriteCancels DEF ModifyWrite
  <2>3. Steady(r, {loc[r].old})
    BY <1>7, <1>0, LocalFacts
       DEF ModifyWrite, Goto, Steady, Alone, KnownLocals, TypeOK, ProcTypes, HandLabels, Placing,
             Siblings
  <2> QED BY <1>0, <2>1, <2>2, <2>3, CalmStep DEF Saved
<1>8. ASSUME NEW r \in Reqs, CarryRead(r) PROVE IInv'
  <2>2. Cancels({})
    BY <1>8, QuietCancels DEF CarryRead, Quiet
  <2>3. Steady(r, {})
    BY <1>8, <1>0, LocalFacts
       DEF CarryRead, Goto, Keep, Steady, Alone, KnownLocals, TypeOK, ProcTypes, Local,
             HandLabels, Placing, Siblings
  <2> QED BY <1>0, <2>2, <2>3, CalmStep
<1>9. ASSUME NEW r \in Reqs, CarryWrite(r) PROVE IInv'
  <2>2. Cancels({})
    BY <1>9, QuietCancels DEF CarryWrite, Quiet, RecordLinks
  <2>3. Steady(r, {})
    BY <1>9, <1>0, FinishSteady DEF CarryWrite
  <2> QED BY <1>0, <2>2, <2>3, CalmStep
<1>10. ASSUME NEW r \in Reqs, ScheduledCancel(r) PROVE IInv'
  <2>2. Cancels({})
    BY <1>10, QuietCancels DEF ScheduledCancel, Quiet
  <2>3. Steady(r, {})
    BY <1>10, <1>0, LocalFacts
       DEF ScheduledCancel, Goto, Keep, StartCall, Steady, Alone, KnownLocals, TypeOK, ProcTypes,
             Local, HandLabels, Placing, Siblings, Saved, IInv, KnownSets, Shape, OkShape, Blank
  <2> QED BY <1>0, <2>2, <2>3, CalmStep
<1>11. ASSUME NEW r \in Reqs, TickWrite(r) PROVE IInv'
  <2>1. loc[r].kids \in SUBSET Saved
    BY <1>11, <1>0, LocalFacts DEF TickWrite, IInv, KnownLocals
  <2>2. Cancels(loc[r].kids)
    BY <1>11, <2>1, WriteCancels DEF TickWrite
  <2>3. Steady(r, loc[r].kids)
    BY <1>11, <1>0, FinishSteady DEF TickWrite
  <2> QED BY <1>0, <2>1, <2>2, <2>3, CalmStep DEF Saved
<1>12. ASSUME NEW r \in Reqs, ResetAccount(r) PROVE IInv'
  <2>2. Cancels({})
    BY <1>12, QuietCancels DEF ResetAccount, Quiet
  <2>3. Steady(r, {})
    BY <1>12, <1>0, LocalFacts
       DEF ResetAccount, Goto, Keep, StartCall, Steady, Alone, KnownLocals, TypeOK, ProcTypes,
             Local, HandLabels, Placing, Siblings, Saved, IInv, KnownSets
  <2> QED BY <1>0, <2>2, <2>3, CalmStep
<1>13. ASSUME NEW r \in Reqs, ResetWrite(r) PROVE IInv'
  <2>1. loc[r].todo \in SUBSET Saved
    BY <1>13, <1>0, LocalFacts DEF ResetWrite, IInv, KnownLocals
  <2>2. Cancels(loc[r].todo)
    BY <1>13, <2>1, WriteCancels DEF ResetWrite
  <2>3. Steady(r, loc[r].todo)
    BY <1>13, <1>0, FinishSteady DEF ResetWrite
  <2> QED BY <1>0, <2>1, <2>2, <2>3, CalmStep DEF Saved
<1>14. ASSUME NEW r \in Reqs, NEW b \in Batches, PlaceOrders(r, b) PROVE IInv'
  <2>2. Cancels({})
    BY <1>14, QuietCancels DEF PlaceOrders, Quiet
  <2>3. Steady(r, {})
    BY <1>14, <1>0, LocalFacts
       DEF PlaceOrders, Goto, Keep, StartCall, Steady, Alone, KnownLocals, TypeOK, ProcTypes,
             Local, HandLabels, Placing, Siblings, Shape, OkShape, Blank
  <2> QED BY <1>0, <2>2, <2>3, CalmStep
<1>15. ASSUME NEW r \in Reqs, NEW o \in Oids, CancelOrder(r, o) PROVE IInv'
  <2>2. Cancels({})
    BY <1>15, QuietCancels DEF CancelOrder, Quiet
  <2>3. Steady(r, {})
    BY <1>15, <1>0, LocalFacts
       DEF CancelOrder, Goto, Hold, StartCall, Steady, Alone, KnownLocals, TypeOK, ProcTypes,
             HandLabels, Placing, Siblings, Saved
  <2> QED BY <1>0, <2>2, <2>3, CalmStep
<1>16. ASSUME NEW r \in Reqs, NEW o \in Oids, CascadeChild(r, o) PROVE IInv'
  <2>2. Cancels({})
    BY <1>16, QuietCancels DEF CascadeChild, Quiet
  <2>3. Steady(r, {})
    BY <1>16, <1>0, LocalFacts
       DEF CascadeChild, Goto, Keep, Steady, Alone, KnownLocals, TypeOK, ProcTypes, Local,
             HandLabels, Placing, Siblings, Saved
  <2> QED BY <1>0, <2>2, <2>3, CalmStep
<1>17. ASSUME NEW r \in Reqs, NEW o \in Oids, CancelNext(r, o) PROVE IInv'
  <2>2. Cancels({})
    BY <1>17, QuietCancels DEF CancelNext, Quiet
  <2>3. Steady(r, {})
    BY <1>17, <1>0, LocalFacts
       DEF CancelNext, Goto, Hold, Keep, Steady, Alone, KnownLocals, TypeOK, ProcTypes, Local,
             HandLabels, Placing, Siblings, Saved
  <2> QED BY <1>0, <2>2, <2>3, CalmStep
<1>18. ASSUME NEW r \in Reqs, NEW o \in Oids, TickRead(r, o) PROVE IInv'
  <2>2. Cancels({})
    BY <1>18, QuietCancels DEF TickRead, Quiet
  <2>3. Steady(r, {})
    BY <1>18, <1>0, LocalFacts
       DEF TickRead, Keep, Steady, Alone, KnownLocals, TypeOK, ProcTypes, Local, HandLabels,
             Placing, Siblings, Saved, IInv, Hands
  <2> QED BY <1>0, <2>2, <2>3, CalmStep
<1>19. ASSUME NEW r \in Reqs, NEW o \in Oids, NEW w \in Replacements, ModifyOrder(r, o, w)
      PROVE IInv'
  <2>2. Cancels({})
    BY <1>19, QuietCancels DEF ModifyOrder, Quiet
  <2>3. Steady(r, {})
    BY <1>19, <1>0, LocalFacts
       DEF ModifyOrder, Goto, Keep, StartCall, Steady, Alone, KnownLocals, TypeOK, ProcTypes,
             Local, HandLabels, Placing, Siblings, Saved, Shape, OkShape, Blank
  <2> QED BY <1>0, <2>2, <2>3, CalmStep
<1>20. ASSUME NEW p \in Procs, FillLock(p) PROVE IInv'
  <2>2. Cancels({})
    BY <1>20, QuietCancels DEF FillLock, Quiet
  <2>3. Steady(p, {})
    BY <1>20, <1>0, LocalFacts
       DEF FillLock, Goto, Steady, Alone, KnownLocals, TypeOK, ProcTypes, HandLabels, Placing,
             Siblings, Sweeping, Saved, IInv, Hands
  <2> QED BY <1>0, <2>2, <2>3, CalmStep
<1>21. ASSUME NEW p \in Procs, FillSkip(p) PROVE IInv'
  <2>2. Cancels({})
    BY <1>21, QuietCancels DEF FillSkip, Quiet
  <2>3. Steady(p, {})
    BY <1>21, FillReturnSteady DEF FillSkip, Siblings
  <2> QED BY <1>0, <2>2, <2>3, CalmStep
<1>22. ASSUME NEW p \in Procs, SibChildren(p) PROVE IInv'
  <2>2. Cancels({})
    BY <1>22, QuietCancels DEF SibChildren, Quiet
  <2>3. Steady(p, {})
    BY <1>22, <1>0, LocalFacts
       DEF SibChildren, Goto, Keep, Steady, Alone, KnownLocals, TypeOK, ProcTypes, Local,
             HandLabels, Placing, Siblings, Sweeping
  <2> QED BY <1>0, <2>2, <2>3, CalmStep
<1>23. ASSUME NEW p \in Procs, SibUnparent(p) PROVE IInv'
  <2>2. Cancels({})
    BY <1>23, QuietCancels DEF SibUnparent, Quiet
  <2>3. Steady(p, {})
    BY <1>23, FillReturnSteady DEF SibUnparent, Siblings
  <2> QED BY <1>0, <2>2, <2>3, CalmStep
<1>24. ASSUME NEW p \in Procs, SibBracket(p) PROVE IInv'
  <2>2. Cancels({})
    BY <1>24, QuietCancels DEF SibBracket, Quiet
  <2>3. Steady(p, {})
    <3>1. CASE bracket[cur[p]] = {}
      BY <1>24, <3>1, FillReturnSteady DEF SibBracket, Siblings
    <3>2. CASE bracket[cur[p]] # {}
      <4>1. /\ Alone(p) /\ pc[p] = "sibBracket" /\ pc'[p] = "sibUnlink" /\ cur'[p] = cur[p]
            /\ loc'[p].todo = loc[p].todo
        BY <1>24, <3>2, LocalFacts DEF SibBracket, Goto, Keep, Alone, TypeOK, ProcTypes, Local
      <4> QED BY <4>1 DEF Steady, KnownLocals, HandLabels, Placing, Sweeping, Siblings
    <3> QED BY <3>1, <3>2
  <2> QED BY <1>0, <2>2, <2>3, CalmStep
<1>25. ASSUME NEW p \in Procs, SibUnlink(p) PROVE IInv'
  <2>2. Cancels({})
    BY <1>25, QuietCancels DEF SibUnlink, Quiet
  <2>3. Steady(p, {})
    BY <1>25, <1>0, LocalFacts
       DEF SibUnlink, Goto, Keep, Steady, Alone, KnownLocals, TypeOK, ProcTypes, Local,
             HandLabels, Placing, Siblings, Sweeping
  <2> QED BY <1>0, <2>2, <2>3, CalmStep
<1>26. ASSUME NEW p \in Procs, SibCancel(p) PROVE IInv'
  <2>1. loc[p].kids \in SUBSET Saved
    BY <1>26, <1>0, LocalFacts DEF SibCancel, IInv, KnownLocals
  <2>2. Cancels(loc[p].kids)
    BY <1>26, <2>1, WriteCancels DEF SibCancel
  <2>3. Steady(p, loc[p].kids)
    BY <1>26, <1>0, LocalFacts
       DEF SibCancel, Goto, Keep, Steady, Alone, KnownLocals, TypeOK, ProcTypes, Local,
             HandLabels, Placing, Siblings, Sweeping
  <2> QED BY <1>0, <2>1, <2>2, <2>3, CalmStep DEF Saved
<1>27. ASSUME NEW p \in Procs, SibDone(p) PROVE IInv'
  <2>2. Cancels({})
    BY <1>27, QuietCancels DEF SibDone, Quiet
  <2>3. Steady(p, {})
    BY <1>27, FillReturnSteady DEF SibDone, Siblings
  <2> QED BY <1>0, <2>2, <2>3, CalmStep
<1>28. ASSUME NEW p \in Procs, NEW o \in Oids, SibRead(p, o) PROVE IInv'
  <2>2. Cancels({})
    BY <1>28, QuietCancels DEF SibRead, Quiet
  <2>3. Steady(p, {})
    BY <1>28, <1>0, LocalFacts
       DEF SibRead, Goto, Keep, Steady, Alone, KnownLocals, TypeOK, ProcTypes, Local, HandLabels,
             Placing, Siblings, Sweeping, Saved
  <2> QED BY <1>0, <2>2, <2>3, CalmStep
<1>29. ASSUME NEW m \in Passes, MatchAll(m) PROVE IInv'
  <2>2. Cancels({})
    BY <1>29, QuietCancels DEF MatchAll, Quiet
  <2>3. Steady(m, {})
    BY <1>29, <1>0, LocalFacts
       DEF MatchAll, Goto, Keep, Steady, Alone, KnownLocals, TypeOK, ProcTypes, Local,
             HandLabels, Placing, Siblings, Sweeping
  <2> QED BY <1>0, <2>2, <2>3, CalmStep
<1>30. ASSUME NEW m \in Passes, MatchTriggers(m) PROVE IInv'
  <2>2. Cancels({})
    BY <1>30, QuietCancels DEF MatchTriggers, Quiet
  <2>3. Steady(m, {})
    BY <1>30, <1>0, LocalFacts
       DEF MatchTriggers, Goto, Keep, Steady, Alone, KnownLocals, TypeOK, ProcTypes, Local,
             HandLabels, Placing, Siblings, Sweeping
  <2> QED BY <1>0, <2>2, <2>3, CalmStep
<1>31. ASSUME NEW m \in Passes, ReadParent(m) PROVE IInv'
  <2>2. Cancels({})
    BY <1>31, QuietCancels DEF ReadParent, Quiet
  <2>3. Steady(m, {})
    BY <1>31, <1>0, LocalFacts
       DEF ReadParent, Goto, Keep, Steady, Alone, KnownLocals, TypeOK, ProcTypes, Local,
             HandLabels, Placing, Siblings, Sweeping, Saved, IInv, Hands
  <2> QED BY <1>0, <2>2, <2>3, CalmStep
<1>32. ASSUME NEW m \in Passes, Unindex(m) PROVE IInv'
  <2>2. Cancels({})
    BY <1>32 DEF Unindex, Cancels
  <2>3. Steady(m, {})
    BY <1>32, <1>0, LocalFacts
       DEF Unindex, Goto, Hold, Steady, Alone, KnownLocals, TypeOK, ProcTypes, HandLabels,
             Placing, Siblings, Sweeping
  <2> QED BY <1>0, <2>2, <2>3, CalmStep
<1>33. ASSUME NEW m \in Passes, SweepExpired(m) PROVE IInv'
  <2>2. Cancels({})
    BY <1>33, QuietCancels DEF SweepExpired, Quiet
  <2>3. Steady(m, {})
    BY <1>33, <1>0, LocalFacts
       DEF SweepExpired, Goto, Keep, Steady, Alone, KnownLocals, TypeOK, ProcTypes, Local,
             HandLabels, Placing, Siblings, Sweeping
  <2> QED BY <1>0, <2>2, <2>3, CalmStep
<1>34. ASSUME NEW m \in Passes, SweepCancel(m) PROVE IInv'
  <2>1. {cur[m]} \in SUBSET Saved
    BY <1>34, <1>0, LocalFacts DEF SweepCancel, IInv, KnownLocals
  <2>2. Cancels({cur[m]})
    BY <1>34, <2>1, WriteCancels DEF SweepCancel
  <2>3. Steady(m, {cur[m]})
    BY <1>34, <1>0, LocalFacts
       DEF SweepCancel, Goto, Hold, Steady, Alone, KnownLocals, TypeOK, ProcTypes, HandLabels,
             Placing, Siblings, Sweeping
  <2> QED BY <1>0, <2>1, <2>2, <2>3, CalmStep DEF Saved
<1>35. ASSUME NEW m \in Passes, EndPass(m) PROVE IInv'
  <2>2. Cancels({})
    BY <1>35, QuietCancels DEF EndPass, Quiet
  <2>3. Steady(m, {})
    BY <1>35, <1>0, FinishSteady DEF EndPass
  <2> QED BY <1>0, <2>2, <2>3, CalmStep
<1>36. ASSUME NEW m \in Passes, NEW o \in Oids, MatchTriggerOrder(m, o) PROVE IInv'
  <2>2. Cancels({})
    BY <1>36 DEF MatchTriggerOrder, Cancels
  <2>3. Steady(m, {})
    BY <1>36, <1>0, LocalFacts
       DEF MatchTriggerOrder, Goto, Hold, Keep, Steady, Alone, KnownLocals, TypeOK, ProcTypes,
             Local, HandLabels, Placing, Siblings, Sweeping, Saved
  <2> QED BY <1>0, <2>2, <2>3, CalmStep
<1>37. ASSUME NEW m \in Passes, NEW o \in Oids, SweepRead(m, o) PROVE IInv'
  <2>2. Cancels({})
    BY <1>37, QuietCancels DEF SweepRead, Quiet
  <2>3. Steady(m, {})
    BY <1>37, <1>0, LocalFacts
       DEF SweepRead, Goto, Hold, Keep, Steady, Alone, KnownLocals, TypeOK, ProcTypes, Local,
             HandLabels, Placing, Siblings, Sweeping, Saved
  <2> QED BY <1>0, <2>2, <2>3, CalmStep
<1>38. ASSUME NEW m \in Passes, NEW x \in BOOLEAN, CheckTrigger(m, x) PROVE IInv'
  <2>2. Cancels({})
    BY <1>38, QuietCancels DEF CheckTrigger, Quiet
  <2>3. Steady(m, {})
    BY <1>38, <1>0, LocalFacts
       DEF CheckTrigger, Goto, Hold, Keep, Steady, Alone, KnownLocals, TypeOK, ProcTypes, Local,
             HandLabels, Placing, Siblings, Sweeping, Saved, IInv, Hands
  <2> QED BY <1>0, <2>2, <2>3, CalmStep
<1>39. ASSUME NEW m \in Passes, NEW o \in Oids, NEW x \in BOOLEAN, MatchOpenOrder(m, o, x)
      PROVE IInv'
  <2>2. Cancels({})
    BY <1>39 DEF MatchOpenOrder, Cancels
  <2>3. Steady(m, {})
    BY <1>39, <1>0, LocalFacts
       DEF MatchOpenOrder, Goto, Hold, Keep, Steady, Alone, KnownLocals, TypeOK, ProcTypes,
             Local, HandLabels, Placing, Siblings, Sweeping, Saved
  <2> QED BY <1>0, <2>2, <2>3, CalmStep
<1>40. ASSUME NEW o \in Oids, Deadline(o) PROVE IInv'
  <2>1. UNCHANGED <<order, lastOid, ordersOpen, ordersTriggers, userOrders, fills, finalCancel,
        pc, cur, loc>>
    BY <1>40 DEF Deadline
  <2> QED BY <2>1 DEF IInv, Fresh, KnownSets, KnownLocals, KnownQueue, Saved, Owner, Hands,
        OneOwner,
                 OneHand, Filled, Final, RestingLimitIndexed
<1> QED
  BY <1>1, <1>2, <1>3, <1>4, <1>5, <1>6, <1>7, <1>8, <1>9, <1>10, <1>11, <1>12, <1>13, <1>14,
     <1>15, <1>16, <1>17, <1>18, <1>19, <1>20, <1>21, <1>22, <1>23, <1>24, <1>25, <1>26, <1>27,
     <1>28, <1>29, <1>30, <1>31, <1>32, <1>33, <1>34, <1>35, <1>36, <1>37, <1>38, <1>39, <1>40
     DEF Next, Place, Cancel, Modify, Sweepers, Fill, Match

-----------------------------------------------------------------------------
(* matchAll's guard: at most one pass runs.                                *)

\* No pass starts or ends.
PassesStay == isRunning' = isRunning /\ \A m \in Passes : pc[m] = "idle" => pc'[m] = "idle"

LEMMA OnePassStep ==
  ASSUME TypeOK, OnePass, Next
  PROVE  OnePass'
<1>0. /\ \A r \in Reqs : r \in Procs /\ r \notin Passes
      /\ \A m \in Passes : m \in Procs /\ m \notin Reqs
  BY ConstantsAssumption DEF Procs
<1>1. ASSUME PassesStay PROVE OnePass'
  BY <1>1 DEF OnePass, PassesStay
<1> USE DEF ctl
<1>2. ASSUME NEW r \in Reqs, Place(r) PROVE PassesStay
  <2>1. CASE LinkBracket(r)
    <3>1. Finish(r) /\ isRunning' = isRunning
      BY <2>1 DEF LinkBracket
    <3> QED BY <1>0, <3>1 DEF PassesStay, Finish, Goto, TypeOK, ProcTypes
  <2>2. CASE ~LinkBracket(r)
    BY <1>0, <1>2, <2>2 DEF PassesStay, Place, PlaceOrders, RejectOrder, NextOid, SaveOrder, RestOrder,
       RestTrigger, ListTrigger, StartCall, Answer, Goto, TypeOK, ProcTypes
  <2> QED BY <2>1, <2>2
<1>3. ASSUME NEW r \in Reqs, Cancel(r) PROVE PassesStay
  BY <1>0, <1>3 DEF PassesStay, Cancel, CancelOrder, CascadeChild, CancelNext, CancelWrite, Cascade,
     CascadeUnlink, CancelDone, StartCall, Finish, Goto, TypeOK, ProcTypes
<1>4. ASSUME NEW r \in Reqs, Modify(r) PROVE PassesStay
  <2>1. CASE CarryWrite(r)
    <3>1. Finish(r) /\ isRunning' = isRunning
      BY <2>1 DEF CarryWrite
    <3> QED BY <1>0, <3>1 DEF PassesStay, Finish, Goto, TypeOK, ProcTypes
  <2>2. CASE ~CarryWrite(r)
    BY <1>0, <1>4, <2>2 DEF PassesStay, Modify, ModifyOrder, ModifyWrite, CarryRead, StartCall, Goto,
       TypeOK, ProcTypes
  <2> QED BY <2>1, <2>2
<1>5. ASSUME NEW r \in Reqs, Sweepers(r) PROVE PassesStay
  BY <1>0, <1>5 DEF PassesStay, Sweepers, ScheduledCancel, TickWrite, ResetAccount, ResetWrite,
     TickRead, StartCall, Finish, Goto, TypeOK, ProcTypes
<1>6. ASSUME NEW p \in Procs, Fill(p) PROVE PassesStay
  BY <1>0, <1>6 DEF PassesStay, Fill, FillLock, FillSkip, FillWrite, SibChildren, SibUnparent,
     SibBracket, SibUnlink, SibRead, SibCancel, SibDone, FillReturn, Answer, Goto, TypeOK, ProcTypes
<1>7. ASSUME NEW m \in Passes, Match(m) PROVE OnePass'
  <2>1. CASE MatchAll(m)
    <3>1. /\ \A n \in Passes : pc[n] = "idle" /\ isRunning'
          /\ \A n \in Passes : n # m => pc'[n] = pc[n]
      BY <1>0, <2>1 DEF OnePass, MatchAll, Goto, TypeOK, ProcTypes
    <3> QED BY <3>1 DEF OnePass
  <2>2. CASE EndPass(m)
    <3>1. /\ pc[m] # "idle" /\ pc'[m] = "idle"
          /\ \A n \in Passes : n # m => pc'[n] = pc[n]
      BY <1>0, <2>2 DEF EndPass, Finish, Goto, TypeOK, ProcTypes
    <3> QED BY <3>1 DEF OnePass
  <2>3. CASE ~MatchAll(m) /\ ~EndPass(m)
    <3>1. PassesStay
      BY <1>0, <1>7, <2>3 DEF PassesStay, Match, MatchTriggers, ReadParent, Unindex, SweepExpired,
         SweepCancel, MatchOpenOrder, MatchTriggerOrder, SweepRead, CheckTrigger, Goto, TypeOK, ProcTypes
    <3> QED BY <1>1, <3>1
  <2> QED BY <2>1, <2>2, <2>3
<1>8. ASSUME NEW o \in Oids, Deadline(o) PROVE PassesStay
  BY <1>8 DEF PassesStay, Deadline
<1>9. ASSUME Restart PROVE OnePass'
  <2>1. \A m \in Passes : pc'[m] = "idle"
    BY <1>0, <1>9 DEF Restart, StopCalls
  <2> QED BY <2>1 DEF OnePass
<1> QED BY <1>1, <1>2, <1>3, <1>4, <1>5, <1>6, <1>7, <1>8, <1>9 DEF Next

-----------------------------------------------------------------------------
(* The actions that put an order on the book, fill it, or end every call.  *)

\* A placement r steps; the passes and the other calls stand still.
LEMMA Others ==
  ASSUME NEW r \in Reqs, Alone(r)
  PROVE  /\ r \in Procs /\ r \notin Passes
         /\ \A m \in Passes : m \in Procs /\ pc'[m] = pc[m] /\ cur'[m] = cur[m] /\ loc'[m] = loc[m]
         /\ \A s \in Reqs : s \in Procs
         /\ \A s \in Reqs : s # r => pc'[s] = pc[s] /\ cur'[s] = cur[s] /\ loc'[s] = loc[s]
  BY ConstantsAssumption DEF Alone, Procs

\* Such a step keeps Owner of the other calls if it spares their orders.
LEMMA OtherOwner ==
  ASSUME NEW r \in Reqs, Alone(r), NEW s \in Reqs, s # r, Owner(s),
         pc[s] \in Placing =>
           /\ order'[cur[s]] = order[cur[s]] /\ fills'[cur[s]] = fills[cur[s]]
           /\ cur[s] \in ordersOpen' => cur[s] \in ordersOpen
           /\ cur[s] \in ordersTriggers' => cur[s] \in ordersTriggers
  PROVE  Owner(s)'
<1>1. pc'[s] = pc[s] /\ cur'[s] = cur[s]
  BY Others
<1>2. \A m \in Passes : pc'[m] = pc[m] /\ cur'[m] = cur[m] /\ loc'[m] = loc[m]
  BY Others
<1> QED BY <1>1, <1>2 DEF Owner, Placing, Hands

LEMMA NextOidStep ==
  ASSUME TypeOK, Shape, IInv, NEW r \in Reqs, NEW x \in BOOLEAN, NextOid(r, x)
  PROVE  IInv'
<1> DEFINE n == lastOid + 1
<1>0. /\ lastOid \in Nat /\ n \in Oids /\ n > lastOid /\ fills \in [Oids -> Nat]
      /\ finalCancel \subseteq Oids
  BY ConstantsAssumption DEF NextOid, TypeOK, BookTypes, HistTypes, Oids
<1>1. Alone(r) /\ pc'[r] = "save" /\ cur'[r] = n /\ lastOid' = n
  BY ConstantsAssumption DEF NextOid, Goto, Hold, Keep, Alone, TypeOK, ProcTypes, Procs
<1>2. UNCHANGED <<order, ordersOpen, ordersTriggers, userOrders, fills, finalCancel>>
  BY DEF NextOid, book, hist
<1>3. Saved' = Saved
  BY <1>2 DEF Saved
<1>4. n \notin Saved /\ \A s \in Reqs : pc[s] \in Placing => cur[s] # n
  BY <1>0 DEF IInv, Fresh, Saved
<1>5. fills[n] = 0
  BY <1>0, <1>4 DEF IInv, Filled, Saved
<1>6. \A q \in Procs : pc'[q] \in HandLabels => q # r
  BY <1>1 DEF HandLabels
<1>7. ASSUME NEW q \in Procs, NEW o, Hands(q, o)' PROVE Hands(q, o)
  BY <1>1, <1>6, <1>7 DEF Hands, Alone
<1> HIDE DEF n
<1>8. Fresh'
  <2> SUFFICES ASSUME NEW o \in Oids, o > n
               PROVE  /\ order'[o].status = "none"
                      /\ \A s \in Reqs : pc'[s] \in Placing => cur'[s] # o
    BY <1>1 DEF Fresh
  <2>1. o > lastOid /\ o # n
    BY <1>0 DEF Oids, n
  <2> QED BY <1>1, <1>2, <2>1, Others DEF IInv, Fresh
<1>9. KnownSets'
  BY <1>2, <1>3 DEF IInv, KnownSets
<1>10. ASSUME NEW q \in Procs PROVE KnownLocals(q)' /\ KnownQueue(q)'
  <2>1. CASE q = r
    BY <1>1, <2>1, Others DEF KnownLocals, KnownQueue, HandLabels
  <2>2. CASE q # r
    <3>1. pc'[q] = pc[q] /\ cur'[q] = cur[q] /\ loc'[q] = loc[q]
      BY <1>1, <2>2 DEF Alone
    <3> QED BY <1>3, <3>1 DEF IInv, KnownLocals, KnownQueue
  <2> QED BY <2>1, <2>2
<1>11. ASSUME NEW s \in Reqs PROVE Owner(s)'
  <2>1. CASE s # r
    BY <1>1, <1>2, <2>1, OtherOwner DEF IInv
  <2>2. CASE s = r
    <3>1. order'[n].status = "none"
      BY <1>0, <1>2, <1>4 DEF Saved
    <3>2. n \notin ordersOpen' \cup ordersTriggers' /\ fills'[n] = 0
      BY <1>2, <1>4, <1>5 DEF IInv, KnownSets
    <3>3. ASSUME NEW m \in Passes
          PROVE  /\ pc'[m] \notin Sweeping => n \notin loc'[m].todo
                 /\ ~(cur'[m] = n /\ pc'[m] \in HandLabels)
      <4>1. KnownLocals(m) /\ KnownQueue(m)
        BY <1>1, Others DEF IInv
      <4> QED BY <1>1, <1>4, <4>1, Others DEF KnownLocals, KnownQueue
    <3> QED BY <1>1, <2>2, <3>1, <3>2, <3>3 DEF Owner, Hands
  <2> QED BY <2>1, <2>2
<1>12. OneOwner'
  BY <1>1, <1>4, Others DEF IInv, OneOwner
<1>13. OneHand'
  BY <1>2, <1>7 DEF IInv, OneHand
<1>14. Filled' /\ RestingLimitIndexed'
  BY <1>2 DEF IInv, Filled, RestingLimitIndexed
<1>15. Final'
  BY <1>2, <1>7 DEF IInv, Final
<1> QED BY <1>8, <1>9, <1>10, <1>11, <1>12, <1>13, <1>14, <1>15 DEF IInv

LEMMA SaveOrderStep ==
  ASSUME TypeOK, Shape, IInv, NEW r \in Reqs, SaveOrder(r)
  PROVE  IInv'
<1> DEFINE n == cur[r]
<1>0. n \in Oids /\ fills \in [Oids -> Nat] /\ finalCancel \subseteq Oids /\ order \in [Oids -> Order]
      /\ userOrders \subseteq Oids /\ pc[r] = "save"
  BY ConstantsAssumption
     DEF SaveOrder, Shape, OkShape, Holding, TypeOK, BookTypes, HistTypes, Procs
<1>1. Alone(r) /\ pc'[r] \in {"fill", "rest"} /\ cur'[r] = n
  BY ConstantsAssumption DEF SaveOrder, Goto, Alone, TypeOK, ProcTypes, Procs
<1>2. UNCHANGED <<lastOid, ordersOpen, ordersTriggers, userOrders, fills, finalCancel>>
  BY DEF SaveOrder, book, hist
<1>3. order'[n].status = "open" /\ \A o \in Oids : o # n => order'[o] = order[o]
  BY <1>0 DEF SaveOrder
<1>4. /\ order[n].status = "none" /\ fills[n] = 0 /\ n \notin ordersOpen \cup ordersTriggers
      /\ \A m \in Passes : (pc[m] \notin Sweeping => n \notin loc[m].todo) /\ ~Hands(m, n)
  BY <1>0 DEF IInv, Owner
<1>5. n \notin Saved /\ Saved' = Saved \cup {n}
  BY <1>0, <1>3, <1>4 DEF Saved
<1>6. \A q \in Procs : ~Hands(q, n)
  BY <1>5 DEF IInv, KnownLocals, Hands
<1>7. ASSUME NEW q \in Procs, NEW o, Hands(q, o)' PROVE (q = r /\ o = n) \/ Hands(q, o)
  BY <1>1, <1>7 DEF Hands, Alone
<1>8. n <= lastOid
  BY <1>0 DEF IInv, Fresh, Placing, Oids, TypeOK, BookTypes
<1> HIDE DEF n
<1>9. Fresh'
  <2> SUFFICES ASSUME NEW o \in Oids, o > lastOid
               PROVE  /\ order'[o].status = "none"
                      /\ \A s \in Reqs : pc'[s] \in Placing => cur'[s] # o
    BY <1>2 DEF Fresh
  <2>1. o # n
    BY <1>0, <1>8 DEF Oids, TypeOK, BookTypes
  <2> QED BY <1>1, <1>3, <2>1, Others DEF IInv, Fresh
<1>10. KnownSets'
  BY <1>2, <1>5 DEF IInv, KnownSets
<1>11. ASSUME NEW q \in Procs PROVE KnownLocals(q)' /\ KnownQueue(q)'
  <2>1. CASE q = r
    BY <1>1, <1>5, <2>1, Others DEF KnownLocals, KnownQueue, HandLabels
  <2>2. CASE q # r
    <3>1. pc'[q] = pc[q] /\ cur'[q] = cur[q] /\ loc'[q] = loc[q]
      BY <1>1, <2>2 DEF Alone
    <3> QED BY <1>5, <3>1 DEF IInv, KnownLocals, KnownQueue
  <2> QED BY <2>1, <2>2
<1>12. ASSUME NEW s \in Reqs PROVE Owner(s)'
  <2>1. CASE s # r
    <3>1. pc[s] \in Placing => cur[s] # n /\ cur[s] \in Oids
      BY <1>0, <2>1, <1>1, Others DEF IInv, OneOwner, Placing, Shape, OkShape, Holding, n
    <3> QED BY <1>1, <1>2, <1>3, <2>1, <3>1, OtherOwner DEF IInv
  <2>2. CASE s = r
    BY <1>1, <1>2, <1>4, <2>2, Others DEF Owner, Hands
  <2> QED BY <2>1, <2>2
<1>13. OneOwner'
  BY <1>0, <1>1, Others DEF IInv, OneOwner, Placing, n
<1>14. OneHand'
  BY <1>2, <1>4, <1>6, <1>7 DEF IInv, OneHand
<1>15. Filled'
  BY <1>2, <1>3, <1>4 DEF IInv, Filled
<1>16. RestingLimitIndexed'
  BY <1>0, <1>2, <1>3, <1>5 DEF IInv, RestingLimitIndexed, KnownSets
<1>17. n \notin finalCancel
  BY <1>4 DEF IInv, Final
<1>18. Final'
  BY <1>0, <1>2, <1>3, <1>7, <1>17 DEF IInv, Final
<1> QED BY <1>9, <1>10, <1>11, <1>12, <1>13, <1>14, <1>15, <1>16, <1>18 DEF IInv

(* restOrder and placeTriggeredOrder: the order goes on the book. *)
LEMMA IndexStep ==
  ASSUME TypeOK, Shape, IInv, NEW r \in Reqs, Alone(r),
         pc[r] \in {"rest", "list"},
         UNCHANGED <<order, lastOid, fills, finalCancel>>,
         ordersOpen \subseteq ordersOpen', ordersOpen' \subseteq ordersOpen \cup {cur[r]},
         ordersTriggers' \subseteq ordersTriggers \cup {cur[r]},
         userOrders' \subseteq userOrders \cup {cur[r]},
         cur[r] \in userOrders' \ userOrders =>
           cur[r] \in ordersOpen' \/ order[cur[r]].kind = "trigger",
         \/ pc'[r] \in {"place", "carry"}
         \/ pc'[r] = "list" /\ cur'[r] = cur[r] /\ order[cur[r]].kind = "trigger"
  PROVE  IInv'
<1> DEFINE n == cur[r]
<1>0. n \in Oids /\ n \in Saved
  BY Others DEF IInv, KnownLocals, Saved
<1>1. Saved' = Saved
  BY DEF Saved
<1>2. ASSUME NEW q \in Procs, NEW o, Hands(q, o)' PROVE Hands(q, o)
  BY <1>2 DEF Hands, HandLabels, Alone
<1>3. \A s \in Reqs : pc'[s] \in Placing => pc[s] \in Placing /\ cur'[s] = cur[s]
  BY Others DEF Placing, Siblings
<1>4. Fresh'
  BY <1>3 DEF IInv, Fresh
<1>5. KnownSets'
  BY <1>0, <1>1 DEF IInv, KnownSets
<1>6. ASSUME NEW q \in Procs PROVE KnownLocals(q)' /\ KnownQueue(q)'
  <2>1. CASE q = r
    BY <1>0, <1>1, <2>1, Others DEF KnownLocals, KnownQueue, HandLabels
  <2>2. CASE q # r
    <3>1. pc'[q] = pc[q] /\ cur'[q] = cur[q] /\ loc'[q] = loc[q]
      BY <2>2 DEF Alone
    <3> QED BY <1>1, <3>1 DEF IInv, KnownLocals, KnownQueue
  <2> QED BY <2>1, <2>2
<1>7. ASSUME NEW s \in Reqs PROVE Owner(s)'
  <2>1. CASE s # r
    <3>1. pc[s] \in Placing => cur[s] # n
      BY <2>1 DEF IInv, OneOwner, Placing
    <3> QED BY <2>1, <3>1, OtherOwner DEF IInv
  <2>2. CASE s = r
    BY <2>2 DEF Owner
  <2> QED BY <2>1, <2>2
<1>8. OneOwner'
  BY <1>3 DEF IInv, OneOwner
<1>9. OneHand'
  BY <1>2 DEF IInv, OneHand
<1>10. Filled'
  BY DEF IInv, Filled
<1>11. Final'
  BY <1>2 DEF IInv, Final
<1>12. RestingLimitIndexed'
  BY DEF IInv, RestingLimitIndexed
<1> QED BY <1>4, <1>5, <1>6, <1>7, <1>8, <1>9, <1>10, <1>11, <1>12 DEF IInv

LEMMA IndexActions ==
  ASSUME TypeOK, Shape, IInv, NEW r \in Reqs, RestOrder(r) \/ RestTrigger(r) \/ ListTrigger(r)
  PROVE  IInv'
<1> USE DEF book, hist
<1>0. Owner(r) /\ r \in Procs
  BY DEF IInv, Procs
<1>1. CASE RestOrder(r)
  <2>1. Steady(r, {}) /\ pc'[r] \in {"place", "carry"}
    BY <1>1, AnswerSteady DEF RestOrder
  <2> QED BY <1>1, <2>1, IndexStep DEF RestOrder, Steady
<1>2. CASE ListTrigger(r)
  <2>1. Steady(r, {}) /\ pc'[r] \in {"place", "carry"}
    BY <1>2, AnswerSteady DEF ListTrigger
  <2>2. order[cur[r]].kind = "trigger"
    BY <1>0, <1>2 DEF ListTrigger, Owner
  <2> QED BY <1>2, <2>1, <2>2, IndexStep DEF ListTrigger, Steady
<1>3. CASE RestTrigger(r)
  <2>1. Alone(r) /\ pc'[r] = "list" /\ cur'[r] = cur[r]
    BY <1>0, <1>3 DEF RestTrigger, Goto, Alone, TypeOK, ProcTypes
  <2> QED BY <1>3, <2>1, IndexStep DEF RestTrigger
<1> QED BY <1>1, <1>2, <1>3

(* The fill: the order leaves the book and the hand that held it. *)
LEMMA FillWriteStep ==
  ASSUME TypeOK, Shape, IInv, NEW p \in Procs, FillWrite(p)
  PROVE  IInv'
<1> DEFINE n == cur[p]
<1>0. /\ n \in Oids /\ pc[p] = "locked" /\ Hands(p, n) /\ fills \in [Oids -> Nat]
      /\ BookTypes /\ finalCancel \subseteq Oids /\ userOrders \subseteq Oids
  BY DEF FillWrite, Shape, OkShape, Holding, Hands, HandLabels, TypeOK, BookTypes, HistTypes
<1>1. /\ \A q \in Procs : q # p => pc'[q] = pc[q]
      /\ pc'[p] = "sibChildren" /\ cur' = cur /\ loc' = loc
  BY DEF FillWrite, Goto, TypeOK, ProcTypes
<1>2. UNCHANGED <<lastOid, userOrders, finalCancel>>
  BY DEF FillWrite
<1>3. /\ ordersOpen' = ordersOpen \ {n} /\ ordersTriggers' = ordersTriggers \ {n}
      /\ SetStatus({n}, "filled")
  BY DEF FillWrite
<1>4. \A o \in Oids : /\ order'[o].status = IF o = n THEN "filled" ELSE order[o].status
                      /\ order'[o].kind = order[o].kind
  BY <1>0, <1>3, SetStatusType DEF Statuses
<1>5. n \in Saved /\ Saved' = Saved
  BY <1>0, <1>4 DEF IInv, KnownLocals, HandLabels, Saved
<1>6. fills[n] = 0 /\ \A q \in Procs : Hands(q, n) => q = p
  BY <1>0 DEF IInv, OneHand
<1>7. fills'[n] = 1 /\ \A o \in Oids : o # n => fills'[o] = fills[o]
  BY <1>0, <1>6 DEF FillWrite
<1>8. ASSUME NEW q \in Procs, NEW o, Hands(q, o)' PROVE Hands(q, o) /\ o # n
  <2>1. q # p
    BY <1>1, <1>8 DEF Hands, HandLabels
  <2>2. Hands(q, o)
    BY <1>1, <1>8, <2>1 DEF Hands
  <2> QED BY <1>6, <2>1, <2>2
<1> HIDE DEF n
<1>9. Fresh'
  <2>1. \A s \in Reqs : pc'[s] \in Placing => pc[s] \in Placing /\ cur'[s] = cur[s]
    BY <1>0, <1>1 DEF Placing, Procs
  <2>2. \A o \in Oids : o > lastOid => order'[o].status = "none"
    BY <1>4, <1>5 DEF IInv, Fresh, Saved
  <2> QED BY <1>2, <2>1, <2>2 DEF IInv, Fresh
<1>10. KnownSets'
  BY <1>2, <1>3, <1>5 DEF IInv, KnownSets
<1>11. ASSUME NEW q \in Procs PROVE KnownLocals(q)' /\ KnownQueue(q)'
  <2>1. KnownLocals(q) /\ KnownQueue(q)
    BY DEF IInv
  <2>2. CASE q = p
    BY <1>0, <1>1, <1>5, <2>1, <2>2 DEF KnownLocals, KnownQueue, HandLabels, Sweeping
  <2>3. CASE q # p
    BY <1>1, <1>5, <2>1, <2>3 DEF KnownLocals, KnownQueue
  <2> QED BY <2>2, <2>3
<1>12. ASSUME NEW s \in Reqs PROVE Owner(s)'
  <2> DEFINE Early == {"save", "rest", "fill", "locked"}
  <2>0. Owner(s) /\ s \in Procs
    BY DEF IInv, Procs
  <2>1. CASE s = p
    BY <1>1, <2>1 DEF Owner
  <2>2. CASE s # p
    <3>1. pc[s] \in Early => cur[s] # n /\ cur[s] \in Oids
      <4>1. CASE p \in Passes
        BY <1>0, <2>0, <4>1 DEF Owner, Shape, OkShape, Holding
      <4>2. CASE p \in Reqs
        BY <1>0, <2>0, <2>2, <4>2 DEF IInv, OneOwner, Placing, Shape, OkShape, Holding, n
      <4> QED BY <4>1, <4>2 DEF Procs
    <3>2. pc'[s] = pc[s] /\ cur'[s] = cur[s]
      BY <1>1, <2>0, <2>2
    <3>3. pc[s] = "list" => cur[s] \in Oids
      BY <2>0 DEF Shape, OkShape, Holding
    <3>4. ASSUME NEW m \in Passes, pc[s] \in Early
          PROVE  (pc'[m] \notin Sweeping => cur[s] \notin loc[m].todo)
                 /\ ~(cur[m] = cur[s] /\ pc'[m] \in HandLabels)
      <4>1. CASE m = p
        BY <1>0, <1>1, <2>0, <3>4, <4>1 DEF Owner, Sweeping, HandLabels
      <4>2. CASE m # p
        BY <1>1, <2>0, <3>4, <4>2 DEF Owner, Hands, Procs
      <4> QED BY <4>1, <4>2
    <3>5. pc[s] \in Early => cur[s] \notin ordersOpen' \cup ordersTriggers' /\ fills'[cur[s]] = 0
      BY <1>3, <1>7, <2>0, <3>1 DEF Owner
    <3>6. /\ pc[s] = "save" => order'[cur[s]].status = "none"
          /\ pc[s] = "list" => order'[cur[s]].kind = "trigger"
      BY <1>4, <2>0, <3>1, <3>3 DEF Owner
    <3> QED BY <1>1, <3>2, <3>4, <3>5, <3>6 DEF Owner, Hands
  <2> QED BY <2>1, <2>2
<1>13. OneOwner'
  BY <1>0, <1>1 DEF IInv, OneOwner, Placing, Procs
<1>14. OneHand'
  BY <1>7, <1>8 DEF IInv, OneHand
<1>15. Filled'
  BY <1>4, <1>7 DEF IInv, Filled
<1>16. RestingLimitIndexed'
  BY <1>0, <1>2, <1>3, <1>4 DEF IInv, RestingLimitIndexed
<1>17. n \notin finalCancel
  BY <1>0 DEF IInv, Final
<1>18. Final'
  BY <1>0, <1>2, <1>4, <1>7, <1>8, <1>17 DEF IInv, Final
<1> QED BY <1>9, <1>10, <1>11, <1>12, <1>13, <1>14, <1>15, <1>16, <1>18 DEF IInv

LEMMA RestartStep ==
  ASSUME TypeOK, IInv, Restart
  PROVE  IInv'
<1>1. \A p \in Procs : pc'[p] = "idle" /\ loc'[p] = Blank
  BY DEF Restart, StopCalls
<1>2. UNCHANGED <<order, lastOid, ordersOpen, ordersTriggers, userOrders, fills, finalCancel>>
  BY DEF Restart, StopCalls, book
<1>3. \A p \in Procs : loc'[p].todo = {}
  BY <1>1 DEF Blank
<1>4. \A r \in Reqs : r \in Procs
  BY DEF Procs
<1>5. ASSUME NEW p \in Procs, NEW o, Hands(p, o)' PROVE FALSE
  BY <1>1, <1>5 DEF Hands, HandLabels
<1>6. Fresh' /\ OneOwner'
  BY <1>1, <1>2, <1>4 DEF IInv, Fresh, OneOwner, Placing, Siblings
<1>7. KnownSets' /\ Filled' /\ RestingLimitIndexed'
  BY <1>2 DEF IInv, KnownSets, Saved, Filled, RestingLimitIndexed
<1>8. \A p \in Procs : KnownLocals(p)' /\ KnownQueue(p)'
  BY <1>1, <1>3 DEF KnownLocals, KnownQueue, HandLabels
<1>9. \A r \in Reqs : Owner(r)'
  BY <1>1, <1>4 DEF Owner
<1>10. OneHand'
  BY <1>5 DEF OneHand
<1>11. Final'
  BY <1>2, <1>5 DEF IInv, Final
<1> QED BY <1>6, <1>7, <1>8, <1>9, <1>10, <1>11 DEF IInv

-----------------------------------------------------------------------------
(* The theorems.                                                           *)

(* The inductive invariant holds in every reachable state. *)
THEOREM Invariance == Spec => [](TypeOK /\ Shape /\ OnePass /\ IInv)
<1> DEFINE Inv == TypeOK /\ Shape /\ OnePass /\ IInv
<1>1. Init => Inv
  <2> SUFFICES ASSUME Init PROVE OnePass /\ IInv
    BY InitTypes
  <2>1. \A p \in Procs : pc[p] = "idle" /\ loc[p] = Blank
    BY DEF Init
  <2>2. /\ ordersOpen = {} /\ ordersTriggers = {} /\ userOrders = {} /\ finalCancel = {}
        /\ \A o \in Oids : order[o].status = "none" /\ fills[o] = 0
    BY DEF Init
  <2>3. \A p \in Procs : loc[p].todo = {}
    BY <2>1 DEF Blank
  <2>4. \A r \in Reqs : r \in Procs
    BY DEF Procs
  <2>5. \A m \in Passes : pc[m] = "idle"
    BY <2>1 DEF Procs
  <2>6. OnePass
    BY <2>5 DEF OnePass
  <2>7. \A p \in Procs : \A o : ~Hands(p, o)
    BY <2>1 DEF Hands, HandLabels
  <2>8. Fresh /\ OneOwner
    BY <2>1, <2>2, <2>4 DEF Fresh, OneOwner, Placing, Siblings
  <2>9. KnownSets /\ Filled /\ RestingLimitIndexed
    BY <2>2 DEF KnownSets, Filled, RestingLimitIndexed
  <2>10. \A p \in Procs : KnownLocals(p) /\ KnownQueue(p)
    BY <2>1, <2>3 DEF KnownLocals, KnownQueue, HandLabels
  <2>11. \A r \in Reqs : Owner(r)
    BY <2>1, <2>4 DEF Owner
  <2>12. OneHand /\ Final
    BY <2>2, <2>7 DEF OneHand, Final
  <2> QED BY <2>6, <2>8, <2>9, <2>10, <2>11, <2>12 DEF IInv
<1>2. Inv /\ [Next]_vars => Inv'
  <2>1. ASSUME Inv, Next PROVE Inv'
    <3>1. TypeOK' /\ Shape'
      BY <2>1, TypeStep
    <3>2. OnePass'
      BY <2>1, OnePassStep
    <3>3. IInv'
      BY <2>1, <3>1, CalmActions, NextOidStep, SaveOrderStep, IndexActions, FillWriteStep,
         RestartStep
    <3> QED BY <3>1, <3>2, <3>3
  <2>2. ASSUME Inv, UNCHANGED vars PROVE Inv'
    <3>1. TypeOK' /\ Shape'
      BY <2>2, TypeStutter
    <3>2. OnePass' /\ IInv'
      BY <2>2 DEF vars, book, ctl, hist, OnePass, IInv, Fresh, KnownSets, KnownLocals, KnownQueue,
                  Saved, Owner, Hands, OneOwner, OneHand, Filled, Final, RestingLimitIndexed
    <3> QED BY <3>1, <3>2
  <2> QED BY <2>1, <2>2
<1> QED BY <1>1, <1>2, PTL DEF Spec

(* No order executes twice (AtMostOneFill): matchAll's guard and the       *)
(* private oid of a placement are enough, with any number of price ticks   *)
(* and API calls under way, and across restarts.                           *)
THEOREM NoDoubleFill == Spec => []AtMostOneFill
<1>1. TypeOK /\ IInv => AtMostOneFill
  <2> SUFFICES ASSUME TypeOK, Filled PROVE AtMostOneFill
    BY DEF IInv
  <2>1. \A o \in Oids : fills[o] \in Nat
    BY DEF TypeOK, HistTypes
  <2> QED BY <2>1 DEF Filled, AtMostOneFill
<1> QED BY <1>1, Invariance, PTL

(* An order cancelled while no process held it never fills                 *)
(* (CancelIsFinal): the matcher reads the status of every order it takes   *)
(* from a set it read earlier.                                             *)
THEOREM CancelsStick == Spec => []CancelIsFinal
<1>1. IInv => CancelIsFinal
  BY DEF IInv, Final, CancelIsFinal
<1> QED BY <1>1, Invariance, PTL

(* An open limit order on the user's list is in orders:open                *)
(* (RestingLimitIndexed): no interleaving of cancels, modifies, sweeps and *)
(* matcher passes loses a resting order.                                   *)
THEOREM RestingOrdersWatched == Spec => []RestingLimitIndexed
<1>1. IInv => RestingLimitIndexed
  BY DEF IInv
<1> QED BY <1>1, Invariance, PTL

-----------------------------------------------------------------------------
(* Brackets. The rest of the module is about what placeOrders, a modify, a *)
(* cascade, a fill and a pass do to the links of a bracket, in any         *)
(* interleaving. It rests on who knows of an order: until its placement    *)
(* has ended only that call does, and by then the order is settled.        *)

\* Orders call r has placed and may still link.
Mine(r) ==
  {o \in Oids : (pc[r] \in Placing /\ o = cur[r]) \/ o = loc[r].first \/ o \in loc[r].rest}

\* Orders that nobody is still to place or to link.
Settled == {o \in Oids : o <= lastOid /\ \A r \in Reqs : o \notin Mine(r)}

\* A call tells apart the orders it has placed, and no two calls have one in common.
MineOk(r) ==
  /\ \A o \in Mine(r) : o <= lastOid
  /\ loc[r].first \notin loc[r].rest
  /\ pc[r] \in Placing => cur[r] # loc[r].first /\ cur[r] \notin loc[r].rest
Apart == \A r, s \in Reqs : r # s => Mine(r) \cap Mine(s) = {}

\* r has the orders it had, or fewer.
MineShrinks(r) ==
  /\ Mine(r)' \subseteq Mine(r)
  /\ loc'[r].first \notin loc'[r].rest
  /\ pc'[r] \in Placing => cur'[r] # loc'[r].first /\ cur'[r] \notin loc'[r].rest

\* placeSingleOrder answers: the order moves from cur to first or rest, or is let go.
LEMMA AnswerMine ==
  ASSUME TypeOK, Shape, NEW r \in Reqs, MineOk(r), NEW o \in Oids \cup {NoOid}, NEW resting,
         Answer(r, o, resting), o = NoOid \/ (pc[r] \in Placing /\ o = cur[r])
  PROVE  Alone(r) /\ MineShrinks(r)
<1> DEFINE k == loc[r]
           fst == IF k.old # NoOid THEN (IF resting THEN o ELSE NoOid)
                  ELSE IF k.first = NoOid THEN o ELSE k.first
           rst == IF k.old = NoOid /\ k.first # NoOid /\ o # NoOid THEN k.rest \cup {o} ELSE k.rest
<1>0. /\ r \in Procs /\ k \in Local /\ k.rest \subseteq Oids
      /\ (k.rest # {} => k.first # NoOid /\ k.old = NoOid)
  BY LocalFacts DEF Procs, Shape, OkShape
<1>1. Alone(r) /\ pc'[r] \in {"place", "carry"} /\ loc'[r].first = fst /\ loc'[r].rest = rst
  <2>1. Alone(r) /\ pc'[r] \in {"place", "carry"}
    BY <1>0 DEF Answer, Goto, Hold, Keep, Alone, TypeOK, ProcTypes
  <2>2. loc'[r] = [k EXCEPT !.wires = Tail(k.wires), !.crosses = FALSE, !.sibs = {},
                            !.par = NoOid, !.first = fst, !.rest = rst]
    BY <1>0 DEF Answer, Keep, TypeOK, ProcTypes
  <2> HIDE DEF fst, rst
  <2> QED BY <1>0, <2>1, <2>2 DEF Local
<1>2. pc'[r] \notin Placing
  BY <1>1 DEF Placing, Siblings
<1>3. NoOid \notin Oids
  BY DEF NoOid, Oids
<1>4. fst \notin rst
  BY <1>0, <1>3 DEF MineOk
<1>5. \A x \in Oids : x = fst \/ x \in rst => x \in Mine(r)
  BY <1>3 DEF Mine
<1> HIDE DEF fst, rst
<1> QED BY <1>1, <1>2, <1>4, <1>5 DEF MineShrinks, Mine

\* A call that ends lets go of everything.
LEMMA FinishMine ==
  ASSUME TypeOK, NEW r \in Reqs, Finish(r)
  PROVE  Alone(r) /\ MineShrinks(r)
<1>1. r \in Procs
  BY DEF Procs
<1>2. Alone(r) /\ pc'[r] = "idle" /\ loc'[r] = Blank
  BY <1>1 DEF Finish, Goto, Hold, Keep, Alone, TypeOK, ProcTypes
<1>3. loc'[r].first = NoOid /\ loc'[r].rest = {} /\ NoOid \notin Oids
  BY <1>2 DEF Blank, NoOid, Oids
<1> QED BY <1>2, <1>3 DEF MineShrinks, Mine, Placing, Siblings

\* A call's step that keeps first and rest, and the order it is placing if it goes on placing.
LEMMA KeepMine ==
  ASSUME TypeOK, NEW r \in Reqs, MineOk(r),
         loc'[r].first = loc[r].first, loc'[r].rest = loc[r].rest,
         pc'[r] \in Placing => pc[r] \in Placing /\ cur'[r] = cur[r]
  PROVE  MineShrinks(r)
  BY DEF MineShrinks, Mine, MineOk

\* A call keeps to the orders it has, but for the one it draws from seq:oid.
LEMMA CallMine ==
  ASSUME TypeOK, Shape, NEW r \in Reqs, MineOk(r),
         Place(r) \/ Cancel(r) \/ Modify(r) \/ Sweepers(r) \/ Fill(r)
  PROVE  /\ Alone(r)
         /\ \/ MineShrinks(r) /\ lastOid' = lastOid
            \/ \E x \in BOOLEAN : NextOid(r, x)
<1>0. /\ r \in Procs /\ r \notin Passes /\ loc[r] \in Local /\ cur[r] \in Oids \cup {NoOid}
      /\ NoOid \in Oids \cup {NoOid}
  BY ConstantsAssumption, LocalFacts DEF Procs
<1> DEFINE G == Alone(r) /\ MineShrinks(r) /\ lastOid' = lastOid
           K == Alone(r) /\ loc'[r].first = loc[r].first /\ loc'[r].rest = loc[r].rest
                /\ lastOid' = lastOid /\ (pc'[r] \in Placing => pc[r] \in Placing /\ cur'[r] = cur[r])
<1>K. K => G
  BY KeepMine
<1> HIDE DEF G
<1>1. ASSUME NEW b \in Batches, PlaceOrders(r, b) PROVE G
  <2>1. /\ Alone(r) /\ pc'[r] = "place" /\ lastOid' = lastOid
        /\ loc'[r] = [Blank EXCEPT !.wires = b.wires, !.expires = b.expires, !.grouping = b.grouping]
    BY <1>0, <1>1 DEF PlaceOrders, Goto, Keep, Alone, TypeOK, ProcTypes
  <2>2. loc'[r].first = NoOid /\ loc'[r].rest = {} /\ NoOid \notin Oids
    BY <2>1 DEF Blank, NoOid, Oids
  <2> QED BY <2>1, <2>2 DEF G, MineShrinks, Mine, Placing, Siblings
<1>2. ASSUME NEW o \in Oids, NEW w \in Replacements, ModifyOrder(r, o, w) PROVE G
  <2>1. /\ Alone(r) /\ pc'[r] = "modify" /\ lastOid' = lastOid
        /\ loc'[r] = [Blank EXCEPT !.old = o, !.wires = <<w>>]
    BY <1>0, <1>2 DEF ModifyOrder, Goto, Keep, Alone, TypeOK, ProcTypes
  <2>2. loc'[r].first = NoOid /\ loc'[r].rest = {} /\ NoOid \notin Oids
    BY <2>1 DEF Blank, NoOid, Oids
  <2> QED BY <2>1, <2>2 DEF G, MineShrinks, Mine, Placing, Siblings
<1>3. ASSUME RejectOrder(r) PROVE G
  BY <1>0, <1>3, AnswerMine DEF RejectOrder, G
<1>4. ASSUME SaveOrder(r) PROVE G
  <2>1. K
    BY <1>0, <1>4 DEF SaveOrder, Goto, Alone, TypeOK, ProcTypes, Placing
  <2> QED BY <2>1, <1>K
<1>5. ASSUME RestOrder(r) PROVE G
  BY <1>0, <1>5, AnswerMine DEF RestOrder, Placing, G
<1>6. ASSUME RestTrigger(r) PROVE G
  <2>1. K
    BY <1>0, <1>6 DEF RestTrigger, Goto, Alone, TypeOK, ProcTypes, Placing
  <2> QED BY <2>1, <1>K
<1>7. ASSUME ListTrigger(r) PROVE G
  BY <1>0, <1>7, AnswerMine DEF ListTrigger, Placing, G
<1>8. ASSUME LinkBracket(r) PROVE G
  BY <1>8, FinishMine DEF LinkBracket, G
<1>9. ASSUME NEW o \in Oids, CancelOrder(r, o) PROVE G
  <2>1. K
    BY <1>0, <1>9 DEF CancelOrder, Goto, Hold, Alone, TypeOK, ProcTypes, Placing, Siblings
  <2> QED BY <2>1, <1>K
<1>10. ASSUME NEW o \in Oids, CascadeChild(r, o) PROVE G
  <2>1. K
    BY <1>0, <1>10 DEF CascadeChild, Goto, Keep, Alone, TypeOK, ProcTypes, Local, Placing, Siblings
  <2> QED BY <2>1, <1>K
<1>11. ASSUME NEW o \in Oids, CancelNext(r, o) PROVE G
  <2>1. K
    BY <1>0, <1>11 DEF CancelNext, Goto, Hold, Keep, Alone, TypeOK, ProcTypes, Local, Placing, Siblings
  <2> QED BY <2>1, <1>K
<1>12. ASSUME CancelWrite(r) PROVE G
  <2>1. K
    BY <1>0, <1>12 DEF CancelWrite, Goto, Alone, TypeOK, ProcTypes, Placing, Siblings
  <2> QED BY <2>1, <1>K
<1>13. ASSUME Cascade(r) PROVE G
  <2>1. K
    BY <1>0, <1>13 DEF Cascade, Goto, Keep, Alone, TypeOK, ProcTypes, Local, Placing, Siblings
  <2> QED BY <2>1, <1>K
<1>14. ASSUME CascadeUnlink(r) PROVE G
  <2>1. K
    BY <1>0, <1>14 DEF CascadeUnlink, Goto, Hold, Alone, TypeOK, ProcTypes, Placing, Siblings
  <2> QED BY <2>1, <1>K
<1>15. ASSUME CancelDone(r) PROVE G
  BY <1>15, FinishMine DEF CancelDone, G
<1>16. ASSUME ModifyWrite(r) PROVE G
  <2>1. K
    BY <1>0, <1>16 DEF ModifyWrite, Goto, Alone, TypeOK, ProcTypes, Placing, Siblings
  <2> QED BY <2>1, <1>K
<1>17. ASSUME CarryRead(r) PROVE G
  <2>1. K
    BY <1>0, <1>17 DEF CarryRead, Goto, Keep, Alone, TypeOK, ProcTypes, Local, Placing, Siblings
  <2> QED BY <2>1, <1>K
<1>18. ASSUME CarryWrite(r) PROVE G
  BY <1>18, FinishMine DEF CarryWrite, G
<1>19. ASSUME ScheduledCancel(r) PROVE G
  <2>1. K
    BY <1>0, <1>19 DEF ScheduledCancel, Goto, Keep, Alone, TypeOK, ProcTypes, Local, Placing, Siblings
  <2> QED BY <2>1, <1>K
<1>20. ASSUME TickWrite(r) PROVE G
  BY <1>20, FinishMine DEF TickWrite, G
<1>21. ASSUME ResetAccount(r) PROVE G
  <2>1. K
    BY <1>0, <1>21 DEF ResetAccount, Goto, Keep, Alone, TypeOK, ProcTypes, Local, Placing, Siblings
  <2> QED BY <2>1, <1>K
<1>22. ASSUME ResetWrite(r) PROVE G
  BY <1>22, FinishMine DEF ResetWrite, G
<1>23. ASSUME NEW o \in Oids, TickRead(r, o) PROVE G
  <2>1. K
    BY <1>0, <1>23 DEF TickRead, Keep, Alone, TypeOK, ProcTypes, Local
  <2> QED BY <2>1, <1>K
<1>24. ASSUME FillLock(r) PROVE G
  <2>1. K
    BY <1>0, <1>24 DEF FillLock, Goto, Alone, TypeOK, ProcTypes, Placing
  <2> QED BY <2>1, <1>K
<1>25. ASSUME FillReturn(r), pc[r] \in Placing, lastOid' = lastOid PROVE G
  BY <1>0, <1>25, AnswerMine DEF FillReturn, G
<1>26. ASSUME FillSkip(r) PROVE G
  BY <1>25, <1>26 DEF FillSkip, Placing
<1>27. ASSUME FillWrite(r) PROVE G
  <2>1. K
    BY <1>0, <1>27 DEF FillWrite, Goto, Alone, TypeOK, ProcTypes, Placing, Siblings
  <2> QED BY <2>1, <1>K
<1>28. ASSUME SibChildren(r) PROVE G
  <2>1. K
    BY <1>0, <1>28 DEF SibChildren, Goto, Keep, Alone, TypeOK, ProcTypes, Local, Placing, Siblings
  <2> QED BY <2>1, <1>K
<1>29. ASSUME SibUnparent(r) PROVE G
  BY <1>25, <1>29 DEF SibUnparent, Placing, Siblings
<1>30. ASSUME SibBracket(r) PROVE G
  <2>1. CASE bracket[cur[r]] = {}
    BY <1>25, <1>30, <2>1 DEF SibBracket, Placing, Siblings
  <2>2. CASE bracket[cur[r]] # {}
    <3>1. K
      BY <1>0, <1>30, <2>2 DEF SibBracket, Goto, Keep, Alone, TypeOK, ProcTypes, Local, Placing, Siblings
    <3> QED BY <3>1, <1>K
  <2> QED BY <2>1, <2>2
<1>31. ASSUME SibUnlink(r) PROVE G
  <2>1. K
    BY <1>0, <1>31 DEF SibUnlink, Goto, Keep, Alone, TypeOK, ProcTypes, Local, Placing, Siblings
  <2> QED BY <2>1, <1>K
<1>32. ASSUME NEW s \in Oids, SibRead(r, s) PROVE G
  <2>1. K
    BY <1>0, <1>32 DEF SibRead, Goto, Keep, Alone, TypeOK, ProcTypes, Local, Placing, Siblings
  <2> QED BY <2>1, <1>K
<1>33. ASSUME SibCancel(r) PROVE G
  <2>1. K
    BY <1>0, <1>33 DEF SibCancel, Goto, Keep, Alone, TypeOK, ProcTypes, Local, Placing, Siblings
  <2> QED BY <2>1, <1>K
<1>34. ASSUME SibDone(r) PROVE G
  BY <1>25, <1>34 DEF SibDone, Placing, Siblings
<1>35. ASSUME NEW x \in BOOLEAN, NextOid(r, x) PROVE Alone(r)
  BY <1>0, <1>35 DEF NextOid, Goto, Hold, Keep, Alone, TypeOK, ProcTypes
<1> QED
  BY <1>1, <1>2, <1>3, <1>4, <1>5, <1>6, <1>7, <1>8, <1>9, <1>10, <1>11, <1>12, <1>13, <1>14,
     <1>15, <1>16, <1>17, <1>18, <1>19, <1>20, <1>21, <1>22, <1>23, <1>24, <1>26, <1>27, <1>28,
     <1>29, <1>30, <1>31, <1>32, <1>33, <1>34, <1>35
     DEF Place, Cancel, Modify, Sweepers, Fill, G


\* A pass takes an order in hand only when it reads it as open.
LEMMA PassMove ==
  ASSUME TypeOK, NEW m \in Passes, Match(m) \/ Fill(m)
  PROVE  /\ Alone(m) /\ lastOid' = lastOid
         /\ \A o : Hands(m, o)' => Hands(m, o) \/ order[o].status = "open"
<1>0. /\ m \in Procs /\ m \notin Reqs
  BY ConstantsAssumption DEF Procs
<1> DEFINE G == /\ Alone(m) /\ lastOid' = lastOid
                /\ pc'[m] \in HandLabels => \/ pc[m] \in HandLabels /\ cur'[m] = cur[m]
                                            \/ order[cur'[m]].status = "open"
<1>1. ASSUME FillReturn(m), lastOid' = lastOid PROVE G
  BY <1>0, <1>1 DEF FillReturn, Goto, Hold, Keep, Alone, HandLabels, TypeOK, ProcTypes
<1>2. ASSUME FillLock(m) \/ FillSkip(m) \/ FillWrite(m) PROVE G
  BY <1>0, <1>1, <1>2 DEF FillLock, FillSkip, FillWrite, Goto, Alone, HandLabels, TypeOK, ProcTypes
<1>3. ASSUME SibChildren(m) \/ SibUnlink(m) \/ SibCancel(m) PROVE G
  BY <1>0, <1>3 DEF SibChildren, SibUnlink, SibCancel, Goto, Keep, Alone, HandLabels, TypeOK, ProcTypes
<1>4. ASSUME SibUnparent(m) \/ SibDone(m) PROVE G
  BY <1>0, <1>1, <1>4 DEF SibUnparent, SibDone
<1>5. ASSUME SibBracket(m) PROVE G
  <2>1. CASE bracket[cur[m]] = {}
    BY <1>1, <1>5, <2>1 DEF SibBracket
  <2>2. CASE bracket[cur[m]] # {}
    BY <1>0, <1>5, <2>2 DEF SibBracket, Goto, Keep, Alone, HandLabels, TypeOK, ProcTypes
  <2> QED BY <2>1, <2>2
<1>6. ASSUME NEW s \in Oids, SibRead(m, s) PROVE G
  BY <1>0, <1>6 DEF SibRead, Goto, Keep, Alone, HandLabels, TypeOK, ProcTypes
<1>7. ASSUME MatchAll(m) \/ MatchTriggers(m) \/ ReadParent(m) \/ SweepExpired(m) PROVE G
  BY <1>0, <1>7 DEF MatchAll, MatchTriggers, ReadParent, SweepExpired, Goto, Keep, Alone,
                    HandLabels, TypeOK, ProcTypes
<1>8. ASSUME Unindex(m) \/ SweepCancel(m) \/ EndPass(m) PROVE G
  BY <1>0, <1>8 DEF Unindex, SweepCancel, EndPass, Finish, Goto, Hold, Keep, Alone,
                    HandLabels, TypeOK, ProcTypes
<1>9. ASSUME NEW o \in Oids, NEW x \in BOOLEAN, MatchOpenOrder(m, o, x) PROVE G
  BY <1>0, <1>9 DEF MatchOpenOrder, Goto, Hold, Keep, Alone, HandLabels, TypeOK, ProcTypes
<1>10. ASSUME NEW o \in Oids, MatchTriggerOrder(m, o) \/ SweepRead(m, o) PROVE G
  BY <1>0, <1>10 DEF MatchTriggerOrder, SweepRead, Goto, Hold, Keep, Alone, HandLabels, TypeOK,
                     ProcTypes
<1>11. ASSUME NEW x \in BOOLEAN, CheckTrigger(m, x) PROVE G
  BY <1>0, <1>11 DEF CheckTrigger, Goto, Hold, Keep, Alone, HandLabels, TypeOK, ProcTypes
<1>12. G
  BY <1>2, <1>3, <1>4, <1>5, <1>6, <1>7, <1>8, <1>9, <1>10, <1>11 DEF Match, Fill
<1> QED BY <1>12 DEF Hands

\* The orders of two calls stay apart, and a settled order stays settled.
LEMMA Settling ==
  ASSUME TypeOK, Shape, \A r \in Reqs : MineOk(r), Apart, Next
  PROVE  /\ \A r \in Reqs : MineOk(r)'
         /\ Apart' /\ Settled \subseteq Settled'
<1> DEFINE G == (\A r \in Reqs : MineOk(r)') /\ Apart' /\ Settled \subseteq Settled'
<1>0. /\ lastOid \in Nat
      /\ \A r \in Reqs : r \in Procs /\ r \notin Passes
      /\ \A m \in Passes : m \in Procs /\ m \notin Reqs
      /\ \A o \in Oids : o \in Nat
  BY ConstantsAssumption DEF Procs, TypeOK, BookTypes, Oids
<1>1. ASSUME NEW p \in Procs, p \notin Reqs, Alone(p), lastOid' = lastOid PROVE G
  <2>1. \A r \in Reqs : pc'[r] = pc[r] /\ cur'[r] = cur[r] /\ loc'[r] = loc[r]
    BY <1>0, <1>1 DEF Alone
  <2>2. \A r \in Reqs : Mine(r)' = Mine(r)
    BY <2>1 DEF Mine
  <2> QED BY <1>1, <2>1, <2>2 DEF MineOk, Apart, Settled
<1>2. ASSUME NEW r \in Reqs, Alone(r), MineShrinks(r), lastOid' = lastOid PROVE G
  <2>1. \A s \in Reqs : s # r => pc'[s] = pc[s] /\ cur'[s] = cur[s] /\ loc'[s] = loc[s]
    BY <1>2, Others
  <2>2. \A s \in Reqs : s # r => Mine(s)' = Mine(s)
    BY <2>1 DEF Mine
  <2>3. \A s \in Reqs : Mine(s)' \subseteq Mine(s)
    BY <1>2, <2>2 DEF MineShrinks
  <2>4. \A s \in Reqs : s # r => MineOk(s)'
    BY <1>2, <2>1, <2>2 DEF MineOk
  <2>5. MineOk(r)'
    BY <1>2, <2>3 DEF MineOk, MineShrinks
  <2>6. Apart'
    BY <2>3 DEF Apart
  <2>7. Settled \subseteq Settled'
    BY <1>2, <2>3 DEF Settled
  <2> QED BY <2>4, <2>5, <2>6, <2>7
<1>3. ASSUME NEW r \in Reqs, NEW x \in BOOLEAN, Alone(r), NextOid(r, x) PROVE G
  <2>1. \A s \in Reqs : s # r => pc'[s] = pc[s] /\ cur'[s] = cur[s] /\ loc'[s] = loc[s]
    BY <1>3, Others
  <2>2. \A s \in Reqs : s # r => Mine(s)' = Mine(s)
    BY <2>1 DEF Mine
  <2>3. /\ lastOid' = lastOid + 1 /\ cur'[r] = lastOid + 1 /\ pc'[r] = "save"
        /\ loc'[r] = [loc[r] EXCEPT !.crosses = x] /\ loc[r] \in Local
    BY <1>0, <1>3 DEF NextOid, Goto, Hold, Keep, TypeOK, ProcTypes
  <2>4. loc'[r].first = loc[r].first /\ loc'[r].rest = loc[r].rest
    BY <2>3 DEF Local
  <2>5. \A o \in Mine(r)' : o \in Mine(r) \/ o = lastOid + 1
    BY <2>3, <2>4 DEF Mine
  <2>6. \A s \in Reqs : \A o \in Mine(s) : o \in Nat /\ o <= lastOid
    BY <1>0 DEF MineOk, Mine
  <2>7. loc[r].first \in Oids \cup {NoOid} /\ loc[r].rest \subseteq Oids
    BY <2>3 DEF Local
  <2>8. \A o \in Oids : o = loc[r].first \/ o \in loc[r].rest => o \in Mine(r)
    BY DEF Mine
  <2>9. MineOk(r)'
    <3>1. \A o \in Mine(r)' : o <= lastOid'
      BY <1>0, <2>3, <2>5, <2>6
    <3>2. lastOid + 1 # loc[r].first
      <4>1. CASE loc[r].first \in Oids
        BY <1>0, <2>6, <2>8, <4>1
      <4>2. CASE loc[r].first = NoOid
        BY <1>0, <4>2 DEF NoOid
      <4> QED BY <2>7, <4>1, <4>2
    <3>3. lastOid + 1 \notin loc[r].rest
      BY <1>0, <2>6, <2>7, <2>8
    <3> QED BY <2>3, <2>4, <3>1, <3>2, <3>3 DEF MineOk
  <2>10. \A s \in Reqs : s # r => MineOk(s)'
    <3> SUFFICES ASSUME NEW s \in Reqs, s # r PROVE MineOk(s)'
      OBVIOUS
    <3>1. \A o \in Mine(s)' : o <= lastOid'
      BY <1>0, <2>2, <2>3, <2>6
    <3> QED BY <2>1, <3>1 DEF MineOk
  <2>11. Apart'
    <3>1. \A s \in Reqs : lastOid + 1 \notin Mine(s)
      BY <1>0, <2>6
    <3>2. \A s \in Reqs : s # r => Mine(s)' \cap Mine(r)' = {}
      BY <2>2, <2>5, <3>1 DEF Apart
    <3>3. \A s, t \in Reqs : s # r /\ t # r /\ s # t => Mine(s)' \cap Mine(t)' = {}
      BY <2>2 DEF Apart
    <3> QED BY <3>2, <3>3 DEF Apart
  <2>12. Settled \subseteq Settled'
    <3> SUFFICES ASSUME NEW o \in Settled PROVE o \in Settled'
      OBVIOUS
    <3>1. o \in Oids /\ o <= lastOid /\ \A s \in Reqs : o \notin Mine(s)
      BY DEF Settled
    <3>2. o # lastOid + 1 /\ o <= lastOid'
      BY <1>0, <2>3, <3>1
    <3>3. \A s \in Reqs : o \notin Mine(s)'
      BY <2>2, <2>5, <3>1, <3>2
    <3> QED BY <3>1, <3>2, <3>3 DEF Settled
  <2> QED BY <2>9, <2>10, <2>11, <2>12
<1>4. ASSUME NEW r \in Reqs, Place(r) \/ Cancel(r) \/ Modify(r) \/ Sweepers(r) \/ Fill(r) PROVE G
  BY <1>2, <1>3, <1>4, CallMine
<1>5. ASSUME NEW m \in Passes, Match(m) \/ Fill(m) PROVE G
  BY <1>0, <1>1, <1>5, PassMove
<1>6. ASSUME NEW o \in Oids, Deadline(o) PROVE G
  <2>1. \A r \in Reqs : Mine(r)' = Mine(r)
    BY <1>6 DEF Deadline, Mine
  <2> QED BY <1>6, <2>1 DEF Deadline, MineOk, Apart, Settled
<1>7. ASSUME Restart PROVE G
  <2>1. /\ lastOid' = lastOid
        /\ \A r \in Reqs : pc'[r] = "idle" /\ loc'[r] = Blank
    BY <1>0, <1>7 DEF Restart, StopCalls
  <2>2. \A r \in Reqs : loc'[r].first = NoOid /\ loc'[r].rest = {} /\ NoOid \notin Oids
    BY <2>1 DEF Blank, NoOid, Oids
  <2>3. \A r \in Reqs : Mine(r)' = {}
    BY <2>1, <2>2 DEF Mine, Placing, Siblings
  <2> QED BY <2>1, <2>2, <2>3 DEF MineOk, Apart, Settled, Placing, Siblings
<1> QED BY <1>4, <1>5, <1>6, <1>7 DEF Next, Procs

-----------------------------------------------------------------------------
(* What ages: a settled order is in the hands of passes only, and once     *)
(* nobody holds it and it is not open it stays that way.                   *)

\* o is not open, and nobody is about to fill it.
Dead(o) == order[o].status # "open" /\ ~InHand(o)

\* The orders that are, or were, the entry of a leg.
Entries == {x \in Oids : \E o \in Oids : under[o] = x}

\* What only ever changes one way.
Ages ==
  /\ Settled \subseteq Settled' /\ explicit \subseteq explicit' /\ interrupted \subseteq interrupted'
  /\ \A o \in Oids :
       /\ fills[o] > 0 => fills'[o] > 0
       /\ order[o].status \notin {"none", "open"} => order'[o].status \notin {"none", "open"}
       /\ order[o].status # "none" => order'[o].kind = order[o].kind
  /\ \A o \in Settled :
       /\ order'[o].kind = order[o].kind
       /\ order[o].status # "open" => order'[o].status # "open"
       /\ Dead(o) => Dead(o)'

\* Statuses change by cancels and fills, except that of an order being saved.
LEMMA OrdersAge ==
  ASSUME TypeOK, Shape, Next, NEW o \in Oids
  PROVE  \/ /\ order'[o].kind = order[o].kind
            /\ order'[o].status = order[o].status \/ order'[o].status \in {"cancelled", "filled"}
         \/ \E r \in Reqs : pc[r] = "save" /\ cur[r] = o
<1> DEFINE G == \/ /\ order'[o].kind = order[o].kind
                   /\ order'[o].status = order[o].status \/ order'[o].status \in {"cancelled", "filled"}
                \/ \E r \in Reqs : pc[r] = "save" /\ cur[r] = o
<1>0. BookTypes
  BY DEF TypeOK
<1>1. ASSUME NEW S, NEW st \in {"cancelled", "filled"}, SetStatus(S, st) PROVE G
  BY <1>0, <1>1, SetStatusType DEF Statuses
<1>2. ASSUME order' = order PROVE G
  BY <1>2
<1>3. ASSUME NEW r \in Reqs, SaveOrder(r) PROVE G
  <2>1. CASE o = cur[r]
    BY <1>3, <2>1 DEF SaveOrder
  <2>2. CASE o # cur[r]
    BY <1>0, <1>3, <2>2 DEF SaveOrder, BookTypes
  <2> QED BY <2>1, <2>2
<1> HIDE DEF G
<1>3a. ASSUME NEW r \in Reqs, LinkBracket(r) \/ CarryWrite(r) PROVE order' = order
  BY <1>3a DEF LinkBracket, CarryWrite
<1>4. ASSUME NEW r \in Reqs, Place(r) PROVE G
  BY <1>2, <1>3, <1>3a, <1>4 DEF Place, PlaceOrders, RejectOrder, NextOid, RestOrder, RestTrigger,
                                 ListTrigger
<1>5. ASSUME NEW r \in Reqs, Cancel(r) PROVE G
  BY <1>1, <1>2, <1>5 DEF Cancel, CancelOrder, CascadeChild, CancelNext, CancelWrite, Cascade,
                          CascadeUnlink, CancelDone
<1>6. ASSUME NEW r \in Reqs, Modify(r) PROVE G
  BY <1>1, <1>2, <1>3a, <1>6 DEF Modify, ModifyOrder, ModifyWrite, CarryRead
<1>7. ASSUME NEW r \in Reqs, Sweepers(r) PROVE G
  BY <1>1, <1>2, <1>7 DEF Sweepers, ScheduledCancel, TickWrite, ResetAccount, ResetWrite, TickRead
<1>8. ASSUME NEW p \in Procs, Fill(p) PROVE G
  BY <1>1, <1>2, <1>8 DEF Fill, FillLock, FillSkip, FillWrite, SibChildren, SibUnparent, SibBracket,
                          SibUnlink, SibRead, SibCancel, SibDone
<1>9. ASSUME NEW m \in Passes, Match(m) PROVE G
  BY <1>1, <1>2, <1>9 DEF Match, MatchAll, MatchTriggers, ReadParent, Unindex, SweepExpired,
                          SweepCancel, EndPass, MatchOpenOrder, MatchTriggerOrder, SweepRead,
                          CheckTrigger
<1>10. ASSUME NEW q \in Oids, Deadline(q) PROVE G
  BY <1>2, <1>10 DEF Deadline
<1>11. ASSUME Restart PROVE G
  BY <1>2, <1>11 DEF Restart, StopCalls
<1>12. G
  BY <1>4, <1>5, <1>6, <1>7, <1>8, <1>9, <1>10, <1>11 DEF Next
<1> QED BY <1>12 DEF G

\* The history only grows, and only a fill changes what has filled.
LEMMA HistAge ==
  ASSUME TypeOK, Shape, Next
  PROVE  /\ explicit \subseteq explicit' /\ interrupted \subseteq interrupted'
         /\ \/ fills' = fills
            \/ \E p \in Procs : FillWrite(p)
<1> DEFINE G == /\ explicit \subseteq explicit' /\ interrupted \subseteq interrupted'
                /\ fills' = fills \/ (\E p \in Procs : FillWrite(p))
<1>1. ASSUME UNCHANGED hist PROVE G
  BY <1>1 DEF hist
<1>2. ASSUME NEW S, NEW asked, RecordCancel(S, asked) PROVE G
  BY <1>2 DEF RecordCancel
<1>3. ASSUME NEW S, NEW P, NEW e, RecordLinks(S, P, e) PROVE G
  BY <1>3 DEF RecordLinks
<1>4. ASSUME NEW p \in Procs, FillWrite(p) PROVE G
  BY <1>4 DEF FillWrite
<1>5. ASSUME Restart PROVE G
  BY <1>5 DEF Restart, StopCalls
<1> HIDE DEF G
<1>6. ASSUME NEW r \in Reqs, LinkBracket(r) PROVE G
  BY <1>1, <1>3, <1>6 DEF LinkBracket, hist
<1>7. ASSUME NEW r \in Reqs, Place(r) PROVE G
  BY <1>1, <1>6, <1>7 DEF Place, PlaceOrders, RejectOrder, NextOid, SaveOrder, RestOrder, RestTrigger,
                          ListTrigger
<1>8. ASSUME NEW r \in Reqs, Cancel(r) PROVE G
  BY <1>1, <1>2, <1>8 DEF Cancel, CancelOrder, CascadeChild, CancelNext, CancelWrite, Cascade,
                          CascadeUnlink, CancelDone
<1>8a. ASSUME NEW r \in Reqs, CarryWrite(r) PROVE G
  BY <1>3, <1>8a DEF CarryWrite
<1>9. ASSUME NEW r \in Reqs, Modify(r) PROVE G
  BY <1>1, <1>2, <1>8a, <1>9 DEF Modify, ModifyOrder, ModifyWrite, CarryRead
<1>10. ASSUME NEW r \in Reqs, Sweepers(r) PROVE G
  BY <1>1, <1>2, <1>10 DEF Sweepers, ScheduledCancel, TickWrite, ResetAccount, ResetWrite, TickRead
<1>11. ASSUME NEW p \in Procs, Fill(p) PROVE G
  BY <1>1, <1>2, <1>4, <1>11 DEF Fill, FillLock, FillSkip, SibChildren, SibUnparent, SibBracket,
                          SibUnlink, SibRead, SibCancel, SibDone
<1>12. ASSUME NEW m \in Passes, Match(m) PROVE G
  BY <1>1, <1>2, <1>12 DEF Match, MatchAll, MatchTriggers, ReadParent, Unindex, SweepExpired,
                          SweepCancel, EndPass, MatchOpenOrder, MatchTriggerOrder, SweepRead,
                          CheckTrigger
<1>13. ASSUME NEW q \in Oids, Deadline(q) PROVE G
  BY <1>1, <1>13 DEF Deadline
<1>14. G
  BY <1>5, <1>7, <1>8, <1>9, <1>10, <1>11, <1>12, <1>13 DEF Next
<1> QED BY <1>14 DEF G

\* Only a pass holds a settled order.
LEMMA SettledHands ==
  ASSUME TypeOK, Shape, NEW o \in Settled
  PROVE  /\ \A r \in Reqs : ~Hands(r, o) /\ ~(pc[r] \in Placing /\ cur[r] = o)
         /\ InHand(o) <=> \E m \in Passes : Hands(m, o)
<1>1. \A r \in Reqs : ~(pc[r] \in Placing /\ cur[r] = o)
  BY DEF Settled, Mine
<1>2. \A r \in Reqs : pc[r] \in HandLabels => pc[r] \in Placing
  BY ConstantsAssumption
     DEF Shape, OkShape, Procs, ReqLabels, HandLabels, Placing, Siblings
<1>3. \A r \in Reqs : ~Hands(r, o)
  BY <1>1, <1>2 DEF Hands
<1> QED BY <1>1, <1>3 DEF InHand, Hands, HandLabels, Procs

\* In particular a settled order that is dead stays dead.
LEMMA AgesStep ==
  ASSUME TypeOK, Shape, OnePass, IInv, \A r \in Reqs : MineOk(r), Apart, Next, TypeOK', Shape'
  PROVE  Ages
<1>1. Settled \subseteq Settled' /\ explicit \subseteq explicit' /\ interrupted \subseteq interrupted'
  BY Settling, HistAge
<1>2. ASSUME NEW o \in Oids, fills[o] > 0 PROVE fills'[o] > 0
  <2>1. CASE fills' = fills
    BY <1>2, <2>1
  <2>2. ASSUME NEW p \in Procs, FillWrite(p) PROVE fills'[o] > 0
    <3>1. fills \in [Oids -> Nat] /\ fills' = [fills EXCEPT ![cur[p]] = @ + 1]
      BY <2>2 DEF FillWrite, TypeOK, HistTypes
    <3> QED BY <1>2, <3>1
  <2> QED BY <2>1, <2>2, HistAge
<1>3. ASSUME NEW o \in Oids
      PROVE  /\ order[o].status \notin {"none", "open"} => order'[o].status \notin {"none", "open"}
             /\ order[o].status # "none" => order'[o].kind = order[o].kind
  <2>1. \A r \in Reqs : pc[r] = "save" => order[cur[r]].status = "none"
    BY DEF IInv, Owner
  <2> QED BY <2>1, OrdersAge
<1>4. ASSUME NEW o \in Settled
      PROVE  /\ order'[o].kind = order[o].kind
             /\ order[o].status # "open" => order'[o].status # "open"
             /\ Dead(o) => Dead(o)'
  <2>1. o \in Oids /\ o \in Settled'
    BY <1>1 DEF Settled
  <2>2. ~ \E r \in Reqs : pc[r] = "save" /\ cur[r] = o
    BY SettledHands DEF Placing
  <2>3. /\ order'[o].kind = order[o].kind
        /\ order[o].status # "open" => order'[o].status # "open"
    BY <2>1, <2>2, OrdersAge
  <2>4. ASSUME Dead(o), InHand(o)' PROVE FALSE
    <3>1. PICK m \in Passes : Hands(m, o)'
      <4>1. InHand(o)' => \E p \in Procs : Hands(p, o)'
        BY DEF InHand, Hands, HandLabels
      <4>2. ASSUME NEW r \in Reqs PROVE ~Hands(r, o)'
        <5>1. pc'[r] \in HandLabels => pc'[r] \in Placing
          BY ConstantsAssumption
             DEF Shape, OkShape, Procs, ReqLabels, HandLabels, Placing, Siblings
        <5>2. o \notin Mine(r)'
          BY <2>1 DEF Settled
        <5> QED BY <2>1, <5>1, <5>2 DEF Hands, Mine
      <4> QED BY <2>4, <4>1, <4>2 DEF Procs
    <3>2. ~Hands(m, o) /\ order[o].status # "open"
      BY <2>4 DEF Dead, InHand, Hands, HandLabels, Procs
    <3>3. m \in Procs /\ m \notin Reqs
      BY ConstantsAssumption DEF Procs
    <3>4. ~(Match(m) \/ Fill(m))
      BY <3>1, <3>2, PassMove
    <3>5. ASSUME NEW p \in Procs, p # m, Alone(p) PROVE FALSE
      BY <3>1, <3>2, <3>3, <3>5 DEF Alone, Hands
    <3>6. ASSUME NEW r \in Reqs, Place(r) \/ Cancel(r) \/ Modify(r) \/ Sweepers(r) \/ Fill(r)
          PROVE FALSE
      <4>1. MineOk(r) /\ r \in Procs
        BY DEF Procs
      <4> QED BY <3>3, <3>5, <3>6, <4>1, CallMine
    <3>7. ASSUME NEW n \in Passes, Match(n) \/ Fill(n) PROVE FALSE
      <4>1. Alone(n) /\ n \in Procs
        BY <3>7, PassMove DEF Procs
      <4> QED BY <3>4, <3>5, <3>7, <4>1
    <3>8. ASSUME NEW q \in Oids, Deadline(q) PROVE FALSE
      BY <3>1, <3>2, <3>8 DEF Deadline, Hands
    <3>9. ASSUME Restart PROVE FALSE
      BY <3>1, <3>3, <3>9 DEF Restart, StopCalls, Hands, HandLabels
    <3> QED BY <3>6, <3>7, <3>8, <3>9 DEF Next, Procs
  <2> QED BY <2>3, <2>4 DEF Dead
<1> QED BY <1>1, <1>2, <1>3, <1>4 DEF Ages

-----------------------------------------------------------------------------
(* The links. Only settled orders are linked, an entry has no siblings,    *)
(* and a pointer to an entry names the one entry its leg was ever linked   *)
(* to. What a call or a pass has read of the links and goes on to use is   *)
(* true of them in the same sense, whatever moved since.                   *)

\* The links of order o.
LinkOk(o) ==
  /\ bracket[o] # {} => o \in Settled \ Entries
  /\ bracket[o] \subseteq Settled \ Entries
  /\ under[o] # NoOid => o \in Settled /\ under[o] \in Settled
  /\ \A c \in children[o] : under[c] = o
  /\ parent[o] \in {NoOid, under[o]} /\ entryOf[o] \in {NoOid, under[o]}

\* The pairs of the history are pairs of legs.
Pairs == \A x \in oco : x \subseteq Settled \ Entries /\ \E a, b \in Oids : x = {a, b}

\* The matcher looks for limit orders among limit orders; an explicit cancel is final.
Limits == \A o \in ordersOpen : order[o].kind = "limit"
ExplicitDead == \A o \in explicit : order[o].status \notin {"none", "open"}

\* A cascade unlinks legs of a cancelled entry only; a modify carries what it has read.
ReqLinks(r) ==
  /\ pc[r] \in {"cascade", "unlink"} => cur[r] \in explicit
  /\ pc[r] \in {"unlink", "kids"} => \A c \in loc[r].kids : under[c] \in explicit
  /\ loc[r].old # NoOid /\ pc[r] # "modify" => loc[r].old \in explicit
  /\ loc[r].old # NoOid =>
       loc[r].par \in {NoOid, under[loc[r].old]} /\ loc[r].sibs \subseteq Settled \ Entries
  /\ pc[r] \in Siblings => pc[r] \in {"sibChildren", "sibBracket"}

\* After matchOpenOrders.
TriggerPhase == {"trig", "parent", "check", "unindex", "sweep", "sweepCancel"}

\* A pass fills in the phase it is in, and unlinks what hung on an order it has filled.
PassLinks(m) ==
  /\ pc[m] = "open" => loc[m].phase = "limit"
  /\ pc[m] \in TriggerPhase => loc[m].phase = "trigger"
  /\ loc[m].phase = "limit" => \A o \in loc[m].todo : order[o].kind = "limit"
  /\ pc[m] = "check" => loc[m].par \in {NoOid, under[cur[m]]}
  /\ pc[m] = "sibUnparent" => \A c \in loc[m].sibs : under[c] = cur[m]
  /\ pc[m] \in {"sibUnlink", "sibNext", "sibCancel"} => loc[m].sibs \subseteq Settled \ Entries
  /\ pc[m] = "sibCancel" => loc[m].kids \subseteq Settled
  /\ pc[m] \in Siblings => fills[cur[m]] > 0

\* The part of the inductive invariant that is about the links.
LInv ==
  /\ \A r \in Reqs : MineOk(r) /\ ReqLinks(r)
  /\ Apart /\ Pairs /\ Limits /\ ExplicitDead
  /\ \A m \in Passes : PassLinks(m)
  /\ \A o \in Oids : LinkOk(o)

\* Both legs of a pair may fill after an explicit cancel or a restart.
Excused(a, b) ==
  \/ explicit \cap {a, b, under[a], under[b]} # {}
  \/ interrupted \cap {a, b} # {}

(* Links go for a reason: a bracket link because a leg, or the entry of    *)
(* one, was cancelled explicitly, or at the hands of the pass that filled  *)
(* a leg; a pointer to an entry also because the entry has filled.         *)

\* Links are only removed.
Tame ==
  /\ \A o \in Oids : /\ children'[o] \subseteq children[o] /\ bracket'[o] \subseteq bracket[o]
                     /\ parent'[o] \in {NoOid, parent[o]}
  /\ UNCHANGED <<oco, under, entryOf>>
\* Why a leg loses a sibling ...
Cut ==
  \A a, b \in Oids : b \in bracket[a] /\ b \notin bracket'[a] =>
    \/ Excused(a, b)
    \/ \E m \in Passes : \/ pc[m] = "sibUnlink" /\ cur[m] = a
                         \/ pc[m] = "sibCancel" /\ a \in loc[m].kids /\ Dead(a)'
\* ... and why a leg loses its entry.
Drop ==
  \A o \in Settled : parent'[o] # parent[o] =>
    \/ o \in explicit \/ under[o] \in explicit
    \/ fills[o] > 0 \/ (under[o] \in Oids /\ fills[under[o]] > 0)
    \/ Dead(o)'

\* A sibling cancelled by a fill is in nobody's hands.
LEMMA SiblingDies ==
  ASSUME TypeOK, Shape, OnePass, NEW p \in Passes, SibCancel(p), NEW a \in Settled, a \in loc[p].kids
  PROVE  Dead(a)'
<1>0. p \in Procs /\ p \notin Reqs /\ a \in Oids
  BY ConstantsAssumption DEF Procs, Settled
<1>1. Alone(p) /\ pc[p] = "sibCancel" /\ pc'[p] = "sibNext"
  BY <1>0 DEF SibCancel, Goto, Keep, Alone, TypeOK, ProcTypes
<1>2. order'[a].status = "cancelled"
  BY <1>0, SetStatusType DEF SibCancel, TypeOK, Statuses
<1>3. ASSUME NEW q \in Procs PROVE ~Hands(q, a)'
  <2>1. CASE q = p
    BY <1>1, <2>1 DEF Hands, HandLabels
  <2>2. CASE q # p /\ q \in Passes
    <3>1. pc'[q] = pc[q] /\ pc[q] = "idle"
      BY <1>1, <2>2 DEF Alone, OnePass
    <3> QED BY <3>1 DEF Hands, HandLabels
  <2>3. CASE q # p /\ q \in Reqs
    <3>1. ~Hands(q, a)
      BY <2>3, SettledHands
    <3> QED BY <1>1, <2>3, <3>1 DEF Alone, Hands
  <2> QED BY <2>1, <2>2, <2>3 DEF Procs
<1> QED BY <1>2, <1>3 DEF Dead, InHand, Hands, HandLabels

\* Every other action only removes links, and for one of those reasons.
LEMMA TameStep ==
  ASSUME TypeOK, Shape, OnePass, IInv, LInv, Next,
         \A r \in Reqs : ~LinkBracket(r) /\ ~CarryWrite(r)
  PROVE  Tame /\ Cut /\ Drop
<1> DEFINE G == Tame /\ Cut /\ Drop
<1>0. /\ LinkTypes /\ ProcTypes /\ NoOid \notin Oids
      /\ \A r \in Reqs : r \in Procs /\ r \notin Passes
      /\ \A m \in Passes : m \in Procs /\ m \notin Reqs
      /\ under \in [Oids -> Oids \cup {NoOid}] /\ explicit \subseteq Oids
  BY ConstantsAssumption DEF Procs, TypeOK, HistTypes, NoOid, Oids
<1>1. ASSUME UNCHANGED links, UNCHANGED <<oco, under, entryOf>> PROVE G
  BY <1>1 DEF links, Tame, Cut, Drop
<1> HIDE DEF G
<1>2. ASSUME UNCHANGED links, UNCHANGED hist PROVE G
  BY <1>1, <1>2 DEF hist
<1>3. ASSUME UNCHANGED links, NEW S, NEW asked, RecordCancel(S, asked) PROVE G
  BY <1>1, <1>3 DEF RecordCancel
<1>4. ASSUME NEW r \in Reqs, CascadeUnlink(r) PROVE G
  <2>1. cur[r] \in explicit /\ UNCHANGED <<oco, under, entryOf>>
    BY <1>4 DEF CascadeUnlink, LInv, ReqLinks, hist
  <2>2. CASE loc[r].kids # {}
    <3>1. children' = Unlink(children, {cur[r]}) /\ bracket' = bracket /\ parent' = parent
      BY <1>4, <2>2 DEF CascadeUnlink
    <3> QED BY <1>0, <2>1, <3>1 DEF G, Tame, Cut, Drop, Unlink, LinkTypes
  <2>3. CASE loc[r].kids = {}
    <3>1. bracket' = Unlink(bracket, {cur[r]}) /\ parent' = Unparent({cur[r]}) /\ children' = children
      BY <1>4, <2>3 DEF CascadeUnlink
    <3>2. \A a \in Oids : bracket'[a] = IF a = cur[r] THEN {} ELSE bracket[a]
      BY <3>1 DEF Unlink
    <3>3. \A a \in Oids : parent'[a] = IF a = cur[r] THEN NoOid ELSE parent[a]
      BY <3>1 DEF Unparent
    <3>4. Cut
      BY <2>1, <3>2 DEF Cut, Excused
    <3>5. Drop
      BY <2>1, <3>3 DEF Drop, Settled
    <3> QED BY <2>1, <3>1, <3>2, <3>3, <3>4, <3>5 DEF G, Tame
  <2> QED BY <2>2, <2>3
<1>5. ASSUME NEW r \in Reqs, NEW c \in Oids, CascadeChild(r, c) PROVE G
  <2>1. under[c] \in explicit /\ UNCHANGED <<oco, under, entryOf>>
    BY <1>5 DEF CascadeChild, LInv, ReqLinks, hist
  <2>2. bracket' = Unlink(bracket, {c}) /\ parent' = Unparent({c}) /\ children' = children
    BY <1>5 DEF CascadeChild
  <2>3. \A a \in Oids : bracket'[a] = IF a = c THEN {} ELSE bracket[a]
    BY <2>2 DEF Unlink
  <2>4. \A a \in Oids : parent'[a] = IF a = c THEN NoOid ELSE parent[a]
    BY <2>2 DEF Unparent
  <2>5. Cut
    BY <2>1, <2>3 DEF Cut, Excused
  <2>6. Drop
    BY <2>1, <2>4 DEF Drop, Settled
  <2> QED BY <2>1, <2>2, <2>3, <2>4, <2>5, <2>6 DEF G, Tame
<1>6. ASSUME NEW r \in Reqs, CarryRead(r) PROVE G
  <2>1. /\ children' = Unlink(children, {loc[r].old}) /\ bracket' = bracket /\ parent' = parent
        /\ UNCHANGED <<oco, under, entryOf>>
    BY <1>6 DEF CarryRead, hist
  <2> QED BY <1>0, <2>1 DEF G, Tame, Cut, Drop, Unlink, LinkTypes
<1>7. ASSUME NEW p \in Procs, pc[p] \in {"sibUnparent", "sibUnlink", "sibNext", "sibCancel"}
      PROVE  p \in Passes /\ cur[p] \in Oids /\ fills[cur[p]] > 0
  <2>1. p \in Passes
    BY <1>7 DEF LInv, ReqLinks, Siblings, Procs
  <2> QED BY <1>7, <2>1 DEF LInv, PassLinks, Siblings, Shape, OkShape, Holding
<1>8. ASSUME NEW p \in Procs, SibUnparent(p) PROVE G
  <2>1. p \in Passes /\ cur[p] \in Oids /\ fills[cur[p]] > 0 /\ \A c \in loc[p].sibs : under[c] = cur[p]
    BY <1>7, <1>8 DEF SibUnparent, LInv, PassLinks
  <2>2. /\ children' = Unlink(children, {cur[p]}) /\ parent' = Unparent(loc[p].sibs)
        /\ bracket' = bracket /\ UNCHANGED <<oco, under, entryOf>>
    BY <1>8 DEF SibUnparent, hist
  <2>3. \A a \in Oids : parent'[a] = IF a \in loc[p].sibs THEN NoOid ELSE parent[a]
    BY <2>2 DEF Unparent
  <2>4. Drop
    BY <2>1, <2>3 DEF Drop, Settled
  <2> QED BY <1>0, <2>2, <2>3, <2>4 DEF G, Tame, Cut, Unlink, LinkTypes
<1>9. ASSUME NEW p \in Procs, SibBracket(p) PROVE G
  <2>1. CASE bracket[cur[p]] # {}
    BY <1>2, <1>9, <2>1 DEF SibBracket, links
  <2>2. CASE bracket[cur[p]] = {}
    <3>1. parent' = Unparent({cur[p]}) /\ UNCHANGED <<children, bracket, oco, under, entryOf>>
      BY <1>9, <2>2 DEF SibBracket, hist
    <3>2. \A a \in Oids : parent'[a] = IF a = cur[p] THEN NoOid ELSE parent[a]
      BY <3>1 DEF Unparent
    <3>3. cur[p] \in Settled => fills[cur[p]] > 0
      <4>1. CASE p \in Passes
        BY <1>9, <4>1 DEF SibBracket, LInv, PassLinks, Siblings
      <4>2. ASSUME p \in Reqs, cur[p] \in Settled PROVE FALSE
        <5>1. pc[p] \in Placing
          BY <1>9 DEF SibBracket, Placing, Siblings
        <5> QED BY <4>2, <5>1, SettledHands
      <4> QED BY <4>1, <4>2 DEF Procs
    <3>4. Drop
      BY <3>2, <3>3 DEF Drop, Settled
    <3> QED BY <3>1, <3>2, <3>4 DEF G, Tame, Cut
  <2> QED BY <2>1, <2>2
<1>10. ASSUME NEW p \in Procs, SibUnlink(p) PROVE G
  <2>1. p \in Passes /\ cur[p] \in Oids /\ fills[cur[p]] > 0 /\ pc[p] = "sibUnlink"
    BY <1>7, <1>10 DEF SibUnlink
  <2>2. /\ bracket' = Unlink(bracket, {cur[p]}) /\ parent' = Unparent({cur[p]})
        /\ children' = [q \in Oids |-> IF q = parent[cur[p]] THEN children[q] \ {cur[p]} ELSE children[q]]
        /\ UNCHANGED <<oco, under, entryOf>>
    BY <1>10 DEF SibUnlink, hist
  <2>3. \A a \in Oids : bracket'[a] = IF a = cur[p] THEN {} ELSE bracket[a]
    BY <2>2 DEF Unlink
  <2>4. \A a \in Oids : parent'[a] = IF a = cur[p] THEN NoOid ELSE parent[a]
    BY <2>2 DEF Unparent
  <2>5. Cut
    BY <2>1, <2>3 DEF Cut
  <2>6. Drop
    <3>1. \A a \in Oids : parent'[a] # parent[a] => fills[a] > 0
      BY <2>1, <2>4
    <3> QED BY <3>1 DEF Drop, Settled
  <2>7. Tame
    BY <2>2, <2>3, <2>4 DEF Tame
  <2> QED BY <2>5, <2>6, <2>7 DEF G
<1>11. ASSUME NEW p \in Procs, SibCancel(p) PROVE G
  <2> DEFINE S == loc[p].kids
  <2>1. p \in Passes /\ pc[p] = "sibCancel" /\ S \subseteq Settled
    BY <1>7, <1>11 DEF SibCancel, LInv, PassLinks
  <2>2. /\ bracket' = Unlink(bracket, S) /\ parent' = Unparent(S)
        /\ children' = [q \in Oids |-> IF q = loc[p].par THEN children[q] \ S ELSE children[q]]
        /\ UNCHANGED <<oco, under, entryOf>> /\ SetStatus(S, "cancelled")
    BY <1>11 DEF SibCancel, RecordCancel
  <2>3. Alone(p) /\ pc'[p] = "sibNext"
    BY <1>0, <1>11 DEF SibCancel, Goto, Keep, Alone, ProcTypes
  <2>4. \A a \in Oids : bracket'[a] = IF a \in S THEN {} ELSE bracket[a]
    BY <2>2 DEF Unlink
  <2>5. \A a \in Oids : parent'[a] = IF a \in S THEN NoOid ELSE parent[a]
    BY <2>2 DEF Unparent
  <2>6. \A a \in S : Dead(a)'
    BY <1>11, <2>1, SiblingDies
  <2>7. Cut
    BY <2>1, <2>4, <2>6 DEF Cut
  <2>8. Drop
    BY <2>5, <2>6 DEF Drop, Settled
  <2>9. Tame
    BY <2>2, <2>4, <2>5 DEF Tame
  <2> QED BY <2>7, <2>8, <2>9 DEF G
<1>12. ASSUME NEW r \in Reqs, Place(r) PROVE G
  BY <1>2, <1>12 DEF Place, PlaceOrders, RejectOrder, NextOid, SaveOrder, RestOrder, RestTrigger,
                     ListTrigger
<1>13. ASSUME NEW r \in Reqs, Cancel(r) PROVE G
  BY <1>2, <1>3, <1>4, <1>5, <1>13 DEF Cancel, CancelOrder, CancelNext, CancelWrite, Cascade, CancelDone
<1>14. ASSUME NEW r \in Reqs, Modify(r) PROVE G
  BY <1>2, <1>3, <1>6, <1>14 DEF Modify, ModifyOrder, ModifyWrite
<1>15. ASSUME NEW r \in Reqs, Sweepers(r) PROVE G
  BY <1>2, <1>3, <1>15 DEF Sweepers, ScheduledCancel, TickWrite, ResetAccount, ResetWrite, TickRead
<1>16. ASSUME NEW p \in Procs, FillWrite(p) PROVE G
  BY <1>1, <1>16 DEF FillWrite
<1>17. ASSUME NEW p \in Procs, Fill(p) PROVE G
  BY <1>2, <1>8, <1>9, <1>10, <1>11, <1>16, <1>17 DEF Fill, FillLock, FillSkip, SibChildren, SibRead,
                                                       SibDone
<1>18. ASSUME NEW m \in Passes, Match(m) PROVE G
  BY <1>2, <1>3, <1>18 DEF Match, MatchAll, MatchTriggers, ReadParent, Unindex, SweepExpired,
                          SweepCancel, EndPass, MatchOpenOrder, MatchTriggerOrder, SweepRead,
                          CheckTrigger
<1>19. ASSUME NEW q \in Oids, Deadline(q) PROVE G
  BY <1>2, <1>19 DEF Deadline
<1>20. ASSUME Restart PROVE G
  BY <1>1, <1>20 DEF Restart, StopCalls
<1>21. G
  BY <1>12, <1>13, <1>14, <1>15, <1>17, <1>18, <1>19, <1>20 DEF Next
<1> QED BY <1>21 DEF G

-----------------------------------------------------------------------------
\* What a step does to the links, and to what is recorded of them.
Joins ==
  /\ Cut /\ Drop
  /\ \A o \in Oids : under[o] # NoOid => under'[o] = under[o]
  /\ \A o \in Settled : o \in Entries' => o \in Entries
  /\ \A o \in Oids \ explicit : entryOf'[o] # entryOf[o] =>
       fills[o] = 0 /\ ~InHand(o) /\ parent'[o] = entryOf'[o]
  /\ \A a, b \in Oids : {a, b} \in oco' /\ {a, b} \notin oco =>
       /\ fills[a] = 0 /\ fills[b] = 0 /\ a # b
       /\ explicit \cap {a, b} # {} \/ (b \in bracket'[a] /\ a \in bracket'[b])

\* A step that only removes links keeps them in order.
LEMMA TameJoins ==
  ASSUME TypeOK, LInv, Settled \subseteq Settled', Tame, Cut, Drop
  PROVE  (\A o \in Oids : LinkOk(o)') /\ Pairs' /\ Joins
<1>1. Entries' = Entries
  BY DEF Tame, Entries
<1>2. ASSUME NEW o \in Oids PROVE LinkOk(o)'
  <2>1. LinkOk(o)
    BY DEF LInv
  <2>2. /\ children'[o] \subseteq children[o] /\ bracket'[o] \subseteq bracket[o]
        /\ parent'[o] \in {NoOid, parent[o]} /\ UNCHANGED <<under, entryOf>>
    BY DEF Tame
  <2> QED BY <1>1, <2>1, <2>2 DEF LinkOk
<1>3. Pairs'
  BY <1>1 DEF LInv, Pairs, Tame
<1>4. Joins
  BY <1>1 DEF Joins, Tame
<1> QED BY <1>2, <1>3, <1>4

\* Orders that were in a call's hands when it ended are settled.
LEMMA FinishSettles ==
  ASSUME TypeOK, NEW r \in Reqs, MineOk(r), Apart, Finish(r), lastOid' = lastOid,
         NEW o \in Mine(r)
  PROVE  o \in Oids /\ o \in Settled' /\ o \notin Settled
<1>1. Alone(r) /\ pc'[r] = "idle" /\ loc'[r] = Blank
  BY DEF Finish, Goto, Hold, Keep, Alone, TypeOK, ProcTypes, Procs
<1>2. loc'[r].first = NoOid /\ loc'[r].rest = {} /\ NoOid \notin Oids
  BY <1>1 DEF Blank, NoOid, Oids
<1>3. Mine(r)' = {}
  BY <1>1, <1>2 DEF Mine, Placing, Siblings
<1>4. \A s \in Reqs : s # r => Mine(s)' = Mine(s)
  BY <1>1, Others DEF Mine
<1>5. \A s \in Reqs : s # r => o \notin Mine(s)
  BY DEF Apart
<1>6. o \in Oids /\ o <= lastOid
  BY DEF MineOk, Mine
<1> QED BY <1>3, <1>4, <1>5, <1>6 DEF Settled

\* The end of placeOrders links orders that only it knew of.
LEMMA LinkBracketJoins ==
  ASSUME TypeOK, Shape, LInv, Settled \subseteq Settled', NEW r \in Reqs, LinkBracket(r)
  PROVE  (\A o \in Oids : LinkOk(o)') /\ Pairs' /\ Joins
<1> DEFINE l == loc[r]
           L == Legs(l)
           e == Entry(l)
<1>0. /\ NoOid \notin Oids /\ under \in [Oids -> Oids \cup {NoOid}] /\ LinkTypes
      /\ entryOf \in [Oids -> Oids \cup {NoOid}]
      /\ \A o \in Oids : LinkOk(o)
  BY DEF TypeOK, HistTypes, NoOid, Oids, LInv
<1>1. CASE ~(l.grouping # "na" /\ l.rest # {})
  <2>1. UNCHANGED links /\ UNCHANGED hist
    BY <1>1 DEF LinkBracket
  <2>2. Tame /\ Cut /\ Drop
    BY <2>1 DEF links, hist, Tame, Cut, Drop
  <2> QED BY <2>2, TameJoins
<1>2. CASE l.grouping # "na" /\ l.rest # {}
  <2>1. l.first \in Oids /\ l.rest \subseteq Oids /\ l.first \notin l.rest
    BY <1>2, LocalFacts DEF Shape, OkShape, Procs, LInv, MineOk
  <2>2. L \subseteq Mine(r) /\ e \in Mine(r) \cup {NoOid} /\ e \notin L /\ L \subseteq Oids
    BY <1>0, <2>1 DEF Legs, Entry, Mine
  <2>3. \A o \in L \cup ({e} \ {NoOid}) : o \in Oids /\ o \in Settled' /\ o \notin Settled
    <3>1. MineOk(r) /\ Apart /\ Finish(r) /\ lastOid' = lastOid
      BY DEF LInv, LinkBracket
    <3>2. \A o \in Mine(r) : o \in Oids /\ o \in Settled' /\ o \notin Settled
      BY <3>1, FinishSettles
    <3> HIDE DEF L, e
    <3> QED BY <2>2, <3>2
  <2>4. /\ bracket' = [o \in Oids |-> IF o \in L THEN bracket[o] \cup (L \ {o}) ELSE bracket[o]]
        /\ parent' = [o \in Oids |-> IF o \in L /\ e # NoOid THEN e ELSE parent[o]]
        /\ children' = [o \in Oids |-> IF o = e THEN children[o] \cup L ELSE children[o]]
        /\ RecordLinks(L, {{a, b} : a, b \in L} \ {{a} : a \in L}, e)
    BY <1>2 DEF LinkBracket, Legs, Exits
  <2>5. /\ oco' = oco \cup {x \in {{a, b} : a, b \in L} \ {{a} : a \in L} : \A o \in x : fills[o] = 0}
        /\ under' = [o \in Oids |-> IF o \in L /\ e # NoOid THEN e ELSE under[o]]
        /\ entryOf' = [o \in Oids |-> IF o \in L /\ e # NoOid /\ fills[o] = 0 /\ ~InHand(o)
                                THEN e ELSE entryOf[o]]
        /\ UNCHANGED <<fills, explicit, interrupted>>
    BY <2>4 DEF RecordLinks
  <2> HIDE DEF L, e
  <2>6. Entries \subseteq Settled
    BY <1>0 DEF Entries, LinkOk
  <2>7. \A x \in Entries' : x \in Entries \/ x = e
    BY <2>5 DEF Entries
  <2>8. \A o \in L : bracket[o] = {} /\ under[o] = NoOid
    BY <1>0, <2>2, <2>3 DEF LinkOk
  <2>9. \A o \in L : o \in Settled' /\ o \notin Entries'
    BY <2>2, <2>3, <2>6, <2>7
  <2>10. \A o \in Settled \ Entries : o \in Settled' /\ o \notin Entries'
    <3> SUFFICES ASSUME NEW o \in Settled, o \notin Entries, o \in Entries' PROVE FALSE
      OBVIOUS
    <3>1. o = e /\ o \in Oids
      BY <2>7 DEF Settled
    <3> QED BY <1>0, <2>3, <3>1
  <2>11. ASSUME NEW o \in Oids PROVE LinkOk(o)'
    <3>1. LinkOk(o)
      BY <1>0
    <3>2. CASE o \in L
      <4>1. bracket'[o] \subseteq L
        BY <2>4, <2>8, <3>2
      <4>2. under'[o] # NoOid => o \in Settled' /\ under'[o] \in Settled'
        BY <2>3, <2>5, <2>8, <3>2
      <4>3. parent'[o] \in {NoOid, under'[o]} /\ entryOf'[o] \in {NoOid, under'[o]}
        BY <2>4, <2>5, <2>8, <3>1, <3>2 DEF LinkOk
      <4>4. \A c \in children'[o] : under'[c] = o
        <5>1. children'[o] = children[o]
          BY <2>2, <2>4, <3>2
        <5>2. ASSUME NEW c \in children[o] PROVE FALSE
          <6>1. c \in Oids /\ under[c] = o
            BY <1>0, <3>1, <5>2 DEF LinkTypes, LinkOk
          <6> QED BY <1>0, <2>3, <3>2, <6>1 DEF LinkOk
        <5> QED BY <5>1, <5>2
      <4> QED BY <2>9, <3>2, <4>1, <4>2, <4>3, <4>4 DEF LinkOk
    <3>3. CASE o \notin L
      <4>1. bracket'[o] = bracket[o] /\ parent'[o] = parent[o] /\ under'[o] = under[o]
            /\ entryOf'[o] = entryOf[o]
        BY <2>4, <2>5, <3>3
      <4>2. \A c \in children'[o] : under'[c] = o
        <5>1. ASSUME NEW c \in children[o] PROVE under'[c] = o
          <6>1. c \in Oids /\ under[c] = o
            BY <1>0, <3>1, <5>1 DEF LinkTypes, LinkOk
          <6>2. c \notin L
            BY <1>0, <2>8, <6>1
          <6> QED BY <2>5, <6>1, <6>2
        <5>2. CASE o # e
          BY <2>4, <5>1, <5>2
        <5>3. CASE o = e
          <6>1. children'[o] = children[o] \cup L /\ e # NoOid
            BY <1>0, <2>4, <5>3
          <6>2. \A c \in L : under'[c] = e
            BY <2>2, <2>5, <6>1
          <6> QED BY <5>1, <5>3, <6>1, <6>2
        <5> QED BY <5>2, <5>3
      <4> QED BY <2>10, <3>1, <4>1, <4>2 DEF LinkOk
    <3> QED BY <3>2, <3>3
  <2>12. Pairs'
    <3> SUFFICES ASSUME NEW x \in oco'
                 PROVE  x \subseteq (Settled \ Entries)' /\ \E a, b \in Oids : x = {a, b}
      BY DEF Pairs
    <3>1. CASE x \in oco
      BY <2>10, <3>1 DEF LInv, Pairs
    <3>2. CASE x \notin oco
      <4>1. PICK a \in L, b \in L : x = {a, b}
        BY <2>5, <3>2
      <4> QED BY <2>2, <2>9, <4>1
    <3> QED BY <3>1, <3>2
  <2>13. Joins
    <3>1. Cut
      BY <2>4 DEF Cut
    <3>2. Drop
      BY <2>3, <2>4 DEF Drop, Settled
    <3>3. \A o \in Oids : under[o] # NoOid => under'[o] = under[o]
      BY <2>5, <2>8
    <3>4. \A o \in Settled : o \in Entries' => o \in Entries
      BY <2>10
    <3>5. \A o \in Oids : entryOf'[o] # entryOf[o] =>
            fills[o] = 0 /\ ~InHand(o) /\ parent'[o] = entryOf'[o]
      BY <2>4, <2>5
    <3>6. ASSUME NEW a \in Oids, NEW b \in Oids, {a, b} \in oco', {a, b} \notin oco
          PROVE  /\ fills[a] = 0 /\ fills[b] = 0 /\ a # b
                 /\ b \in bracket'[a] /\ a \in bracket'[b]
      <4>1. /\ {a, b} \in {{c, d} : c, d \in L} /\ {a, b} \notin {{c} : c \in L}
            /\ \A o \in {a, b} : fills[o] = 0
        BY <2>5, <3>6
      <4>2. a \in L /\ b \in L
        BY <4>1
      <4>3. a # b
        BY <4>1, <4>2
      <4> QED BY <2>4, <4>1, <4>2, <4>3
    <3> QED BY <3>1, <3>2, <3>3, <3>4, <3>5, <3>6 DEF Joins
  <2> QED BY <2>11, <2>12, <2>13
<1> QED BY <1>1, <1>2

\* The end of a modify links the replacement, which only it knew of.
LEMMA CarryWriteJoins ==
  ASSUME TypeOK, Shape, LInv, Settled \subseteq Settled', NEW r \in Reqs, CarryWrite(r)
  PROVE  (\A o \in Oids : LinkOk(o)') /\ Pairs' /\ Joins
<1> DEFINE l   == loc[r]
           old == l.old
           N   == {l.first} \ {NoOid}
           B   == l.sibs
           q   == l.par
<1>0. /\ NoOid \notin Oids /\ under \in [Oids -> Oids \cup {NoOid}] /\ LinkTypes
      /\ entryOf \in [Oids -> Oids \cup {NoOid}]
      /\ \A o \in Oids : LinkOk(o)
  BY DEF TypeOK, HistTypes, NoOid, Oids, LInv
<1>1. /\ old \in Oids /\ old \in explicit /\ q \in {NoOid, under[old]} /\ B \subseteq Settled \ Entries
      /\ B \subseteq Oids
  BY LocalFacts DEF CarryWrite, LInv, ReqLinks, Procs
<1>2. \A o \in N : o \in Oids /\ o \in Settled' /\ o \notin Settled
  <2>1. MineOk(r) /\ Apart /\ Finish(r) /\ lastOid' = lastOid
    BY DEF LInv, CarryWrite
  <2>2. \A o \in Mine(r) : o \in Oids /\ o \in Settled' /\ o \notin Settled
    BY <2>1, FinishSettles
  <2>3. N \subseteq Mine(r)
    BY LocalFacts DEF Mine, Procs
  <2> QED BY <2>2, <2>3
<1>3. /\ children' = [o \in Oids |-> IF o = q THEN (children[o] \ {old}) \cup N ELSE children[o]]
      /\ parent' = [o \in Oids |-> IF o = old THEN NoOid
                                  ELSE IF o \in N /\ q # NoOid THEN q ELSE parent[o]]
      /\ bracket' = [o \in Oids |-> IF o = old THEN {}
                                   ELSE IF o \in B THEN (bracket[o] \ {old}) \cup N
                                   ELSE IF o \in N THEN bracket[o] \cup B ELSE bracket[o]]
      /\ RecordLinks(N, {{a, b} : a \in N, b \in B}, q)
  BY DEF CarryWrite
<1>4. /\ oco' = oco \cup {x \in {{a, b} : a \in N, b \in B} : \A o \in x : fills[o] = 0}
      /\ under' = [o \in Oids |-> IF o \in N /\ q # NoOid THEN q ELSE under[o]]
      /\ entryOf' = [o \in Oids |-> IF o \in N /\ q # NoOid /\ fills[o] = 0 /\ ~InHand(o)
                                THEN q ELSE entryOf[o]]
      /\ UNCHANGED <<fills, explicit, interrupted>>
  BY <1>3 DEF RecordLinks
<1>5. /\ \A o \in Oids : parent'[o] = IF o = old THEN NoOid
                                      ELSE IF o \in N /\ q # NoOid THEN q ELSE parent[o]
      /\ \A o \in Oids : bracket'[o] = IF o = old THEN {}
                                       ELSE IF o \in B THEN (bracket[o] \ {old}) \cup N
                                       ELSE IF o \in N THEN bracket[o] \cup B ELSE bracket[o]
  BY <1>3
<1>6. \A a, b \in N : a = b
  OBVIOUS
<1> HIDE DEF l, N, old, B, q
<1>7. q # NoOid => q \in Oids /\ q \in Settled /\ q \in Entries
  BY <1>0, <1>1 DEF LinkOk, Entries
<1>8. \A x \in Entries' : x \in Entries
  <2> SUFFICES ASSUME NEW x \in Entries' PROVE x \in Entries
    OBVIOUS
  <2>1. PICK o \in Oids : x \in Oids /\ under'[o] = x
    BY DEF Entries
  <2> QED BY <1>4, <1>7, <2>1 DEF Entries
<1>9. Entries \subseteq Settled
  BY <1>0 DEF Entries, LinkOk
<1>10. \A o \in N : o \in Settled' /\ o \notin Entries' /\ bracket[o] = {} /\ under[o] = NoOid
  BY <1>0, <1>2, <1>8, <1>9 DEF LinkOk
<1>11. \A o \in Settled \ Entries : o \in Settled' /\ o \notin Entries'
  BY <1>8
<1>12. ASSUME NEW o \in Oids PROVE LinkOk(o)'
  <2>1. LinkOk(o)
    BY <1>0
  <2>2. bracket'[o] \subseteq bracket[o] \cup N \cup B /\ (bracket'[o] # {} => o \in N \cup B \/ bracket[o] # {})
    BY <1>5
  <2>3. /\ bracket'[o] # {} => o \in Settled' /\ o \notin Entries'
        /\ bracket'[o] \subseteq (Settled \ Entries)'
    <3>1. \A x \in bracket[o] \cup N \cup B : x \in Settled' /\ x \notin Entries'
      BY <1>1, <1>10, <1>11, <2>1 DEF LinkOk
    <3>2. o \in N \cup B \/ bracket[o] # {} => o \in Settled' /\ o \notin Entries'
      BY <1>1, <1>10, <1>11, <2>1 DEF LinkOk
    <3> QED BY <2>2, <3>1, <3>2
  <2>4. under'[o] # NoOid => o \in Settled' /\ under'[o] \in Settled'
    BY <1>4, <1>7, <1>10, <2>1 DEF LinkOk
  <2>5. parent'[o] \in {NoOid, under'[o]} /\ entryOf'[o] \in {NoOid, under'[o]}
    BY <1>4, <1>5, <1>10, <2>1 DEF LinkOk
  <2>6. \A c \in children'[o] : under'[c] = o
    <3>1. ASSUME NEW c \in children[o] PROVE under'[c] = o
      <4>1. c \in Oids /\ under[c] = o
        BY <1>0, <2>1, <3>1 DEF LinkTypes, LinkOk
      <4>2. c \notin N
        BY <1>0, <1>10, <4>1
      <4> QED BY <1>4, <4>1, <4>2
    <3>2. CASE o # q
      BY <1>3, <3>1, <3>2
    <3>3. CASE o = q
      <4>1. \A c \in children'[o] : c \in children[o] \/ c \in N
        BY <1>3, <3>3
      <4>2. \A c \in N : under'[c] = o
        BY <1>0, <1>2, <1>4, <3>3
      <4> QED BY <3>1, <4>1, <4>2
    <3> QED BY <3>2, <3>3
  <2> QED BY <2>3, <2>4, <2>5, <2>6 DEF LinkOk
<1>13. Pairs'
  <2> SUFFICES ASSUME NEW x \in oco'
               PROVE  x \subseteq (Settled \ Entries)' /\ \E a, b \in Oids : x = {a, b}
    BY DEF Pairs
  <2>1. CASE x \in oco
    BY <1>11, <2>1 DEF LInv, Pairs
  <2>2. CASE x \notin oco
    <3>1. PICK a \in N, b \in B : x = {a, b}
      BY <1>4, <2>2
    <3> QED BY <1>1, <1>2, <1>10, <1>11, <3>1
  <2> QED BY <2>1, <2>2
<1>14. Joins
  <2>1. Cut
    <3> SUFFICES ASSUME NEW a \in Oids, NEW b \in Oids, b \in bracket[a], b \notin bracket'[a]
                 PROVE  a = old \/ b = old
      BY <1>1 DEF Cut, Excused
    <3> QED BY <1>5
  <2>2. Drop
    <3> SUFFICES ASSUME NEW o \in Settled, parent'[o] # parent[o] PROVE o = old
      BY <1>1 DEF Drop
    <3>1. o \in Oids /\ o \notin N
      BY <1>2 DEF Settled
    <3> QED BY <1>5, <3>1
  <2>3. \A o \in Oids : under[o] # NoOid => under'[o] = under[o]
    BY <1>4, <1>10
  <2>4. \A o \in Settled : o \in Entries' => o \in Entries
    BY <1>8
  <2>5. \A o \in Oids \ explicit : entryOf'[o] # entryOf[o] =>
          fills[o] = 0 /\ ~InHand(o) /\ parent'[o] = entryOf'[o]
    BY <1>1, <1>4, <1>5
  <2>6. ASSUME NEW a \in Oids, NEW b \in Oids, {a, b} \in oco', {a, b} \notin oco
        PROVE  /\ fills[a] = 0 /\ fills[b] = 0 /\ a # b
               /\ explicit \cap {a, b} # {} \/ (b \in bracket'[a] /\ a \in bracket'[b])
    <3>1. PICK c \in N, d \in B : {a, b} = {c, d}
      BY <1>4, <2>6
    <3>2. \A o \in {a, b} : fills[o] = 0
      BY <1>4, <2>6
    <3>3. c # d /\ c \notin B /\ c \in Oids /\ d \in Oids
      BY <1>1, <1>2
    <3>4. (a = c /\ b = d) \/ (a = d /\ b = c)
      BY <3>1, <3>3
    <3>5. explicit \cap {a, b} # {} \/ (d \in bracket'[c] /\ c \in bracket'[d])
      BY <1>1, <1>5, <3>1, <3>3
    <3> QED BY <3>2, <3>3, <3>4, <3>5
  <2> QED BY <2>1, <2>2, <2>3, <2>4, <2>5, <2>6 DEF Joins
<1> QED BY <1>12, <1>13, <1>14

\* Every step keeps the links in order.
LEMMA LinksStep ==
  ASSUME TypeOK, Shape, OnePass, IInv, LInv, Next
  PROVE  (\A o \in Oids : LinkOk(o)') /\ Pairs' /\ Joins
<1>1. Settled \subseteq Settled'
  BY Settling DEF LInv
<1>2. CASE \E r \in Reqs : LinkBracket(r)
  BY <1>1, <1>2, LinkBracketJoins
<1>3. CASE \E r \in Reqs : CarryWrite(r)
  BY <1>1, <1>3, CarryWriteJoins
<1>4. CASE \A r \in Reqs : ~LinkBracket(r) /\ ~CarryWrite(r)
  <2>1. Tame /\ Cut /\ Drop
    BY <1>4, TameStep
  <2> QED BY <1>1, <2>1, TameJoins
<1> QED BY <1>2, <1>3, <1>4

-----------------------------------------------------------------------------
\* What the calls and passes remember of links stays true while others move.
LEMMA UnderKept ==
  ASSUME TypeOK, Ages, Joins
  PROVE  /\ \A o \in Oids : under[o] \in explicit => under'[o] \in explicit'
         /\ \A o, x \in Oids : under[o] = x => under'[o] = x
         /\ Settled \ Entries \subseteq (Settled \ Entries)'
<1>1. NoOid \notin Oids /\ explicit \subseteq Oids
  BY DEF TypeOK, HistTypes, NoOid, Oids
<1> QED BY <1>1 DEF Ages, Joins

LEMMA ReqLinksKept ==
  ASSUME TypeOK, Ages, Joins, NEW r \in Reqs, ReqLinks(r),
         pc'[r] = pc[r], cur'[r] = cur[r], loc'[r] = loc[r]
  PROVE  ReqLinks(r)'
<1>1. loc[r].old # NoOid => loc[r].old \in Oids
  BY LocalFacts DEF Procs
<1>2. loc[r].old # NoOid => loc[r].par \in {NoOid, under'[loc[r].old]}
  BY <1>1 DEF ReqLinks, Joins
<1>3. explicit \subseteq explicit' /\ loc[r].kids \subseteq Oids
  BY LocalFacts DEF Ages, Procs
<1> QED BY <1>2, <1>3, UnderKept DEF ReqLinks

\* r's step keeps what it knows of the order it modifies and cascades nothing.
LEMMA ReqLinksPlain ==
  ASSUME TypeOK, Ages, Joins, NEW r \in Reqs, ReqLinks(r),
         pc[r] # "modify", pc'[r] \notin {"cascade", "unlink", "kids", "modify"},
         pc'[r] \in Siblings => pc'[r] \in {"sibChildren", "sibBracket"},
         loc'[r].old = loc[r].old,
         \/ loc'[r].par = loc[r].par /\ loc'[r].sibs = loc[r].sibs
         \/ loc'[r].par = NoOid /\ loc'[r].sibs = {}
  PROVE  ReqLinks(r)'
<1>1. loc[r].old # NoOid => loc[r].old \in Oids
  BY LocalFacts DEF Procs
<1>2. loc[r].old # NoOid => loc[r].par \in {NoOid, under'[loc[r].old]}
  BY <1>1 DEF ReqLinks, Joins
<1>3. explicit \subseteq explicit'
  BY DEF Ages
<1>4. loc[r].old # NoOid => loc[r].old \in explicit'
  BY <1>3 DEF ReqLinks
<1>5. loc[r].old # NoOid => loc[r].sibs \subseteq (Settled \ Entries)'
  BY UnderKept DEF ReqLinks
<1> QED BY <1>2, <1>4, <1>5 DEF ReqLinks

LEMMA AnswerLinks ==
  ASSUME TypeOK, Ages, Joins, NEW r \in Reqs, ReqLinks(r), NEW o \in Oids \cup {NoOid}, NEW resting,
         Answer(r, o, resting), pc[r] # "modify"
  PROVE  ReqLinks(r)'
<1> DEFINE k == loc[r]
           fst == IF k.old # NoOid THEN (IF resting THEN o ELSE NoOid)
                  ELSE IF k.first = NoOid THEN o ELSE k.first
           rst == IF k.old = NoOid /\ k.first # NoOid /\ o # NoOid THEN k.rest \cup {o} ELSE k.rest
<1>0. r \in Procs /\ k \in Local
  BY LocalFacts DEF Procs
<1>1. /\ pc'[r] \in {"place", "carry"}
      /\ loc'[r] = [k EXCEPT !.wires = Tail(k.wires), !.crosses = FALSE, !.sibs = {},
                            !.par = NoOid, !.first = fst, !.rest = rst]
  BY <1>0 DEF Answer, Goto, Keep, TypeOK, ProcTypes
<1> HIDE DEF fst, rst
<1>2. loc'[r].old = k.old /\ loc'[r].par = NoOid /\ loc'[r].sibs = {}
  BY <1>0, <1>1 DEF Local
<1> QED BY <1>1, <1>2, ReqLinksPlain DEF Siblings

LEMMA FinishLinks ==
  ASSUME TypeOK, NEW r \in Reqs, Finish(r)
  PROVE  ReqLinks(r)'
<1>1. pc'[r] = "idle" /\ loc'[r] = Blank
  BY DEF Finish, Goto, Keep, TypeOK, ProcTypes, Procs
<1>2. loc'[r].old = NoOid
  BY <1>1 DEF Blank
<1> QED BY <1>1, <1>2 DEF ReqLinks, Siblings

\* What a call remembers stays true when it moves.
LEMMA CallLinks ==
  ASSUME TypeOK, Shape, LInv, Ages, Joins, NEW r \in Reqs,
         Place(r) \/ Cancel(r) \/ Modify(r) \/ Sweepers(r) \/ Fill(r)
  PROVE  ReqLinks(r)'
<1> DEFINE G == ReqLinks(r)'
<1>0. /\ r \in Procs /\ loc[r] \in Local /\ cur[r] \in Oids \cup {NoOid} /\ ReqLinks(r)
      /\ NoOid \in Oids \cup {NoOid} /\ NoOid \notin Oids /\ explicit \subseteq explicit'
      /\ \A o \in Oids : LinkOk(o)
      /\ LinkTypes
  BY LocalFacts DEF Procs, LInv, Ages, NoOid, Oids, TypeOK
<1> DEFINE K == /\ pc[r] # "modify" /\ pc'[r] \notin {"cascade", "unlink", "kids", "modify"}
                /\ pc'[r] \in Siblings => pc'[r] \in {"sibChildren", "sibBracket"}
                /\ loc'[r].old = loc[r].old
                /\ loc'[r].par = loc[r].par /\ loc'[r].sibs = loc[r].sibs
<1>K. K => G
  BY <1>0, ReqLinksPlain
<1> HIDE DEF G
<1>1. ASSUME NEW b \in Batches, PlaceOrders(r, b) PROVE G
  <2>1. /\ pc'[r] = "place"
        /\ loc'[r] = [Blank EXCEPT !.wires = b.wires, !.expires = b.expires, !.grouping = b.grouping]
    BY <1>0, <1>1 DEF PlaceOrders, Goto, Keep, TypeOK, ProcTypes
  <2>2. loc'[r].old = NoOid
    BY <2>1 DEF Blank
  <2> QED BY <2>1, <2>2 DEF G, ReqLinks, Siblings
<1>2. ASSUME NEW o \in Oids, NEW w \in Replacements, ModifyOrder(r, o, w) PROVE G
  <2>1. /\ pc'[r] = "modify"
        /\ loc'[r] = [Blank EXCEPT !.old = o, !.wires = <<w>>]
    BY <1>0, <1>2 DEF ModifyOrder, Goto, Keep, TypeOK, ProcTypes
  <2>2. loc'[r].par = NoOid /\ loc'[r].sibs = {}
    BY <2>1 DEF Blank
  <2> QED BY <2>1, <2>2 DEF G, ReqLinks, Siblings
<1>3. ASSUME RejectOrder(r) PROVE G
  BY <1>0, <1>3, AnswerLinks DEF RejectOrder, G
<1>4. ASSUME SaveOrder(r) PROVE G
  <2>1. K
    BY <1>0, <1>4 DEF SaveOrder, Goto, TypeOK, ProcTypes, Siblings
  <2> QED BY <2>1, <1>K
<1>5. ASSUME RestOrder(r) PROVE G
  BY <1>0, <1>5, AnswerLinks DEF RestOrder, G
<1>6. ASSUME RestTrigger(r) PROVE G
  <2>1. K
    BY <1>0, <1>6 DEF RestTrigger, Goto, TypeOK, ProcTypes, Siblings
  <2> QED BY <2>1, <1>K
<1>7. ASSUME ListTrigger(r) PROVE G
  BY <1>0, <1>7, AnswerLinks DEF ListTrigger, G
<1>8. ASSUME NEW x \in BOOLEAN, NextOid(r, x) PROVE G
  <2>1. K
    BY <1>0, <1>8 DEF NextOid, Goto, Keep, TypeOK, ProcTypes, Local, Siblings
  <2> QED BY <2>1, <1>K
<1>9. ASSUME NEW o \in Oids, CancelOrder(r, o) PROVE G
  <2>1. K
    BY <1>0, <1>9 DEF CancelOrder, StartCall, Goto, TypeOK, ProcTypes, Siblings
  <2> QED BY <2>1, <1>K
<1>10. ASSUME NEW o \in Oids, CascadeChild(r, o) PROVE G
  <2> DEFINE td == IF order[o].status = "open" THEN loc[r].todo \cup {o} ELSE loc[r].todo
  <2>1. /\ pc[r] = "kids" /\ pc'[r] \in {"cancel", "kids"} /\ UNCHANGED hist
        /\ loc'[r] = [loc[r] EXCEPT !.kids = @ \ {o}, !.todo = td]
    BY <1>0, <1>10 DEF CascadeChild, Goto, Keep, TypeOK, ProcTypes
  <2> HIDE DEF td
  <2>2. /\ loc'[r].old = loc[r].old /\ loc'[r].par = loc[r].par /\ loc'[r].sibs = loc[r].sibs
        /\ loc'[r].kids = loc[r].kids \ {o}
    BY <1>0, <2>1 DEF Local
  <2>3. loc[r].old # NoOid => loc[r].sibs \subseteq (Settled \ Entries)'
    BY <1>0, UnderKept DEF ReqLinks
  <2> QED BY <1>0, <2>1, <2>2, <2>3 DEF G, ReqLinks, Siblings, hist
<1>11. ASSUME NEW o \in Oids, CancelNext(r, o) PROVE G
  <2>1. K
    BY <1>0, <1>11 DEF CancelNext, Goto, Keep, TypeOK, ProcTypes, Local, Siblings
  <2> QED BY <2>1, <1>K
<1>12. ASSUME NEW lab \in {"cascade", "unlink", "kids", "cancel", "place"}, NEW kd,
              pc'[r] = lab,
              loc'[r] = [loc[r] EXCEPT !.kids = kd],
              lab \in {"cascade", "unlink"} => cur'[r] \in explicit',
              lab \in {"unlink", "kids"} => \A c \in kd : under'[c] \in explicit',
              pc[r] # "modify" \/ loc[r].old \in explicit',
              UNCHANGED under
       PROVE G
  <2>1. /\ loc'[r].old = loc[r].old /\ loc'[r].par = loc[r].par /\ loc'[r].sibs = loc[r].sibs
        /\ loc'[r].kids = kd
    BY <1>0, <1>12 DEF Local
  <2>2. loc[r].old # NoOid => loc[r].sibs \subseteq (Settled \ Entries)'
    BY <1>0, UnderKept DEF ReqLinks
  <2> QED BY <1>0, <1>12, <2>1, <2>2 DEF G, ReqLinks, Siblings
<1>13. ASSUME CancelWrite(r) PROVE G
  <2>1. /\ pc'[r] = "cascade" /\ cur'[r] = cur[r] /\ pc[r] = "cancelWrite"
        /\ cur[r] \in explicit' /\ UNCHANGED under
    BY <1>0, <1>13 DEF CancelWrite, Goto, TypeOK, ProcTypes, RecordCancel
  <2>2. loc'[r] = [loc[r] EXCEPT !.kids = loc[r].kids]
    BY <1>0, <1>13 DEF CancelWrite, Local
  <2> QED BY <2>1, <2>2, <1>12
<1>14. ASSUME Cascade(r) PROVE G
  <2>1. /\ pc'[r] = "unlink" /\ cur'[r] = cur[r] /\ pc[r] = "cascade" /\ UNCHANGED hist
        /\ loc'[r] = [loc[r] EXCEPT !.kids = children[cur[r]]]
    BY <1>0, <1>14 DEF Cascade, Goto, Keep, TypeOK, ProcTypes
  <2>2. cur[r] \in explicit /\ cur[r] \in Oids
    BY <1>0, <2>1 DEF ReqLinks, TypeOK, HistTypes
  <2>3. \A c \in children[cur[r]] : under[c] \in explicit
    BY <1>0, <2>2 DEF LinkOk
  <2> QED BY <1>12, <2>1, <2>2, <2>3 DEF hist
<1>15. ASSUME CascadeUnlink(r) PROVE G
  <2>1. /\ pc'[r] \in {"kids", "cancel"} /\ pc[r] = "unlink" /\ UNCHANGED hist
    BY <1>0, <1>15 DEF CascadeUnlink, Goto, TypeOK, ProcTypes
  <2>2. loc'[r] = [loc[r] EXCEPT !.kids = loc[r].kids]
    BY <1>0, <1>15 DEF CascadeUnlink, Local
  <2>3. \A c \in loc[r].kids : under[c] \in explicit
    BY <1>0, <2>1 DEF ReqLinks
  <2> QED BY <1>12, <2>1, <2>2, <2>3 DEF hist
<1>16. ASSUME CancelDone(r) \/ TickWrite(r) \/ ResetWrite(r) \/ LinkBracket(r) \/ CarryWrite(r) PROVE G
  <2>1. Finish(r)
    <3>1. LinkBracket(r) \/ CarryWrite(r) => Finish(r)
      BY DEF LinkBracket, CarryWrite
    <3> QED BY <1>16, <3>1 DEF CancelDone, TickWrite, ResetWrite
  <2> QED BY <2>1, FinishLinks DEF G
<1>17. ASSUME ModifyWrite(r) PROVE G
  <2>1. pc'[r] = "place" /\ loc[r].old \in explicit' /\ UNCHANGED under
    BY <1>0, <1>17 DEF ModifyWrite, Goto, TypeOK, ProcTypes, RecordCancel
  <2>2. loc'[r] = [loc[r] EXCEPT !.kids = loc[r].kids]
    BY <1>0, <1>17 DEF ModifyWrite, Local
  <2> QED BY <1>12, <2>1, <2>2
<1>18. ASSUME CarryRead(r) PROVE G
  <2> DEFINE o == loc[r].old
  <2>1. /\ pc[r] = "carry" /\ pc'[r] \in {"kids", "cancel"} /\ UNCHANGED hist
        /\ loc'[r] = [loc[r] EXCEPT !.par = parent[o], !.sibs = bracket[o], !.kids = children[o]]
    BY <1>0, <1>18 DEF CarryRead, Goto, Keep, TypeOK, ProcTypes
  <2>2. o \in Oids /\ o \in explicit
    BY <1>0, <2>1 DEF Shape, OkShape, ReqLinks
  <2> HIDE DEF o
  <2>3. /\ loc'[r].old = loc[r].old /\ loc'[r].par = parent[o] /\ loc'[r].sibs = bracket[o]
        /\ loc'[r].kids = children[o]
    BY <1>0, <2>1 DEF Local
  <2>4. /\ \A c \in children[o] : under[c] = o
        /\ parent[o] \in {NoOid, under[o]} /\ bracket[o] \subseteq Settled \ Entries
    BY <1>0, <2>2 DEF LinkOk
  <2>5. bracket[o] \subseteq (Settled \ Entries)'
    BY <2>4, UnderKept
  <2> QED BY <1>0, <2>1, <2>2, <2>3, <2>4, <2>5 DEF o, G, ReqLinks, Siblings, hist
<1>19. ASSUME ScheduledCancel(r) \/ ResetAccount(r) PROVE G
  <2>1. K
    BY <1>0, <1>19 DEF ScheduledCancel, ResetAccount, StartCall, Goto, Keep, TypeOK, ProcTypes, Local,
                       Siblings
  <2> QED BY <2>1, <1>K
<1>20. ASSUME NEW o \in Oids, TickRead(r, o) PROVE G
  <2>1. K
    BY <1>0, <1>20 DEF TickRead, Keep, TypeOK, ProcTypes, Local, Siblings
  <2> QED BY <2>1, <1>K
<1>21. ASSUME FillLock(r) PROVE G
  <2>1. K
    BY <1>0, <1>21 DEF FillLock, Goto, TypeOK, ProcTypes, Siblings
  <2> QED BY <2>1, <1>K
<1>22. ASSUME FillReturn(r), pc[r] # "modify" PROVE G
  BY <1>0, <1>22, AnswerLinks DEF FillReturn, G
<1>23. ASSUME FillSkip(r) \/ SibUnparent(r) \/ SibDone(r) PROVE G
  BY <1>22, <1>23 DEF FillSkip, SibUnparent, SibDone
<1>24. ASSUME FillWrite(r) PROVE G
  <2>1. K
    BY <1>0, <1>24 DEF FillWrite, Goto, TypeOK, ProcTypes, Siblings
  <2> QED BY <2>1, <1>K
<1>25. ASSUME pc[r] \in {"sibChildren", "sibBracket"}
       PROVE  children[cur[r]] = {} /\ bracket[cur[r]] = {}
  <2>1. cur[r] \in Mine(r) /\ cur[r] \in Oids /\ cur[r] \notin Settled
    BY <1>0, <1>25 DEF Shape, OkShape, Holding, Mine, Settled, Placing, Siblings
  <2>2. bracket[cur[r]] = {}
    BY <1>0, <2>1 DEF LinkOk
  <2>3. ASSUME NEW c \in children[cur[r]] PROVE FALSE
    <3>1. c \in Oids /\ under[c] = cur[r]
      BY <1>0, <2>1, <2>3 DEF LinkTypes, LinkOk
    <3> QED BY <1>0, <2>1, <3>1 DEF LinkOk
  <2> QED BY <2>2, <2>3
<1>26. ASSUME SibChildren(r) PROVE G
  <2>1. children[cur[r]] = {} /\ pc[r] = "sibChildren"
    BY <1>25, <1>26 DEF SibChildren
  <2>2. pc'[r] = "sibBracket" /\ loc'[r] = [loc[r] EXCEPT !.sibs = {}]
    BY <1>0, <1>26, <2>1 DEF SibChildren, Goto, Keep, TypeOK, ProcTypes
  <2>3. loc'[r].old = loc[r].old /\ loc'[r].par = loc[r].par /\ loc'[r].sibs = {}
    BY <1>0, <2>2 DEF Local
  <2>4. loc[r].old # NoOid => loc[r].old \in Oids
    BY <1>0 DEF Local
  <2>5. loc[r].old # NoOid => loc[r].par \in {NoOid, under'[loc[r].old]} /\ loc[r].old \in explicit'
    BY <1>0, <2>1, <2>4 DEF ReqLinks, Joins
  <2> QED BY <2>1, <2>2, <2>3, <2>5 DEF G, ReqLinks, Siblings
<1>27. ASSUME SibBracket(r) PROVE G
  <2>1. bracket[cur[r]] = {} /\ pc[r] = "sibBracket"
    BY <1>25, <1>27 DEF SibBracket
  <2> QED BY <1>22, <1>27, <2>1 DEF SibBracket
<1>28. ASSUME SibUnlink(r) \/ SibCancel(r) \/ (\E s \in Oids : SibRead(r, s)) PROVE FALSE
  BY <1>0, <1>28 DEF SibUnlink, SibCancel, SibRead, ReqLinks, Siblings
<1> QED
  BY <1>1, <1>2, <1>3, <1>4, <1>5, <1>6, <1>7, <1>8, <1>9, <1>10, <1>11, <1>13, <1>14,
     <1>15, <1>16, <1>17, <1>18, <1>19, <1>20, <1>21, <1>23, <1>24, <1>26, <1>27, <1>28
     DEF Place, Cancel, Modify, Sweepers, Fill, G

-----------------------------------------------------------------------------
\* The limit orders a pass has still to visit stay limit orders.
LEMMA QueueKept ==
  ASSUME TypeOK, IInv, LInv, Ages, NEW m \in Passes
  PROVE  loc[m].phase = "limit" => \A o \in loc[m].todo : order'[o].kind = "limit"
<1>1. m \in Procs /\ loc[m].todo \subseteq Oids /\ PassLinks(m)
  BY LocalFacts DEF Procs, LInv
<1>2. loc[m].phase = "limit" => pc[m] \notin Sweeping
  BY <1>1 DEF PassLinks, TriggerPhase, Sweeping
<1>3. loc[m].phase = "limit" => \A o \in loc[m].todo : order[o].status # "none"
  BY <1>1, <1>2 DEF IInv, KnownQueue, Saved
<1> QED BY <1>1, <1>3 DEF Ages, PassLinks

LEMMA PassLinksKept ==
  ASSUME TypeOK, Shape, IInv, LInv, Ages, Joins, NEW m \in Passes,
         pc'[m] = pc[m], cur'[m] = cur[m], loc'[m] = loc[m]
  PROVE  PassLinks(m)'
<1>1. /\ m \in Procs /\ loc[m].kids \subseteq Oids /\ loc[m].sibs \subseteq Oids /\ PassLinks(m)
      /\ pc[m] \in {"check"} \cup Siblings => cur[m] \in Oids
  BY LocalFacts DEF Procs, LInv, Shape, OkShape, Holding
<1>2. pc[m] = "check" => loc[m].par \in {NoOid, under'[cur[m]]}
  BY <1>1 DEF PassLinks, Joins
<1>3. pc[m] = "sibUnparent" => \A c \in loc[m].sibs : under'[c] = cur[m]
  BY <1>1, UnderKept DEF PassLinks, Siblings
<1>4. pc[m] \in Siblings => fills'[cur[m]] > 0
  BY <1>1 DEF PassLinks, Ages
<1>5. Settled \subseteq Settled'
  BY DEF Ages
<1>6. /\ pc[m] \in {"sibUnlink", "sibNext", "sibCancel"} => loc[m].sibs \subseteq (Settled \ Entries)'
      /\ pc[m] = "sibCancel" => loc[m].kids \subseteq Settled'
  BY <1>1, <1>5, UnderKept DEF PassLinks
<1>7. /\ pc[m] = "open" => loc[m].phase = "limit"
      /\ pc[m] \in TriggerPhase => loc[m].phase = "trigger"
  BY <1>1 DEF PassLinks
<1> QED BY <1>2, <1>3, <1>4, <1>6, <1>7, QueueKept DEF PassLinks

\* What a pass remembers stays true when it moves.
LEMMA PassLinksStep ==
  ASSUME TypeOK, Shape, IInv, LInv, Ages, Joins, NEW m \in Passes, Match(m) \/ Fill(m)
  PROVE  PassLinks(m)'
<1> DEFINE G == PassLinks(m)'
<1>0. /\ m \in Procs /\ m \notin Reqs /\ loc[m] \in Local /\ PassLinks(m)
      /\ pc[m] \in HandLabels \cup Siblings => cur[m] \in Oids
      /\ \A o \in Oids : LinkOk(o)
      /\ \A o \in loc[m].todo : o \in Oids
      /\ loc[m].phase = "limit" => \A o \in loc[m].todo : order'[o].kind = "limit"
  BY LocalFacts, QueueKept, ConstantsAssumption
     DEF Procs, LInv, Shape, OkShape, Holding, HandLabels
<1>1. ASSUME FillReturn(m), pc[m] \in {"locked"} \cup Siblings PROVE G
  <2>1. /\ loc[m].phase = "limit" => pc'[m] = "open"
        /\ loc[m].phase # "limit" => pc'[m] = "unindex"
        /\ loc'[m] = [loc[m] EXCEPT !.sibs = {}, !.par = NoOid]
    BY <1>0, <1>1 DEF FillReturn, Goto, Keep, TypeOK, ProcTypes
  <2>2. loc'[m].phase = loc[m].phase /\ loc'[m].todo = loc[m].todo /\ loc[m].phase \in Kinds
    BY <1>0, <2>1 DEF Local
  <2> QED BY <1>0, <2>1, <2>2 DEF G, PassLinks, TriggerPhase, Siblings, Kinds
<1>2. ASSUME FillLock(m) PROVE G
  <2>1. pc'[m] = "locked" /\ loc'[m] = loc[m]
    BY <1>0, <1>2 DEF FillLock, Goto, TypeOK, ProcTypes
  <2> QED BY <1>0, <2>1 DEF G, PassLinks, TriggerPhase, Siblings
<1>3. ASSUME FillSkip(m) \/ SibUnparent(m) \/ SibDone(m) PROVE G
  BY <1>1, <1>3 DEF FillSkip, SibUnparent, SibDone, Siblings
<1>4. ASSUME FillWrite(m) PROVE G
  <2>1. /\ pc'[m] = "sibChildren" /\ loc'[m] = loc[m] /\ cur'[m] = cur[m]
        /\ fills' = [fills EXCEPT ![cur[m]] = @ + 1] /\ pc[m] = "locked"
    BY <1>0, <1>4 DEF FillWrite, Goto, TypeOK, ProcTypes
  <2>2. fills'[cur[m]] > 0
    BY <1>0, <2>1 DEF HandLabels, TypeOK, HistTypes
  <2> QED BY <1>0, <2>1, <2>2 DEF G, PassLinks, TriggerPhase, Siblings
<1>5. ASSUME pc[m] \in Siblings, pc'[m] \in Siblings, cur'[m] = cur[m],
             loc'[m].phase = loc[m].phase, loc'[m].todo = loc[m].todo,
             pc'[m] = "sibUnparent" => \A c \in loc'[m].sibs : under[c] = cur[m],
             pc'[m] \in {"sibUnlink", "sibNext", "sibCancel"} => loc'[m].sibs \subseteq Settled \ Entries,
             pc'[m] = "sibCancel" => loc'[m].kids \subseteq Settled,
             loc'[m].sibs \subseteq Oids
      PROVE  G
  <2>1. cur[m] \in Oids /\ fills'[cur[m]] > 0
    BY <1>0, <1>5 DEF PassLinks, Ages
  <2>2. pc'[m] = "sibUnparent" => \A c \in loc'[m].sibs : under'[c] = cur[m]
    BY <1>5, <2>1, UnderKept
  <2>3. Settled \subseteq Settled' /\ Settled \ Entries \subseteq (Settled \ Entries)'
    BY UnderKept DEF Ages
  <2>4. pc'[m] \notin {"open", "check"} \cup TriggerPhase
    BY <1>5 DEF Siblings, TriggerPhase
  <2> QED BY <1>0, <1>5, <2>1, <2>2, <2>3, <2>4 DEF G, PassLinks
<1>6. ASSUME SibChildren(m) PROVE G
  <2>1. /\ pc[m] = "sibChildren" /\ cur'[m] = cur[m]
        /\ pc'[m] \in {"sibUnparent", "sibBracket"}
        /\ loc'[m] = [loc[m] EXCEPT !.sibs = children[cur[m]]]
    BY <1>0, <1>6 DEF SibChildren, Goto, Keep, TypeOK, ProcTypes
  <2>2. /\ loc'[m].phase = loc[m].phase /\ loc'[m].todo = loc[m].todo
        /\ loc'[m].sibs = children[cur[m]]
    BY <1>0, <2>1 DEF Local
  <2>3. cur[m] \in Oids
    BY <1>0, <2>1 DEF Siblings
  <2>4. children[cur[m]] \subseteq Oids /\ \A c \in children[cur[m]] : under[c] = cur[m]
    BY <1>0, <2>3 DEF LinkOk, TypeOK, LinkTypes
  <2> QED BY <1>5, <2>1, <2>2, <2>4 DEF Siblings
<1>7. ASSUME SibBracket(m) PROVE G
  <2>1. CASE bracket[cur[m]] = {}
    BY <1>1, <1>7, <2>1 DEF SibBracket, Siblings
  <2>2. CASE bracket[cur[m]] # {}
    <3>1. /\ pc[m] = "sibBracket" /\ cur'[m] = cur[m] /\ pc'[m] = "sibUnlink"
          /\ loc'[m] = [loc[m] EXCEPT !.sibs = bracket[cur[m]]]
      BY <1>0, <1>7, <2>2 DEF SibBracket, Goto, Keep, TypeOK, ProcTypes
    <3>2. /\ loc'[m].phase = loc[m].phase /\ loc'[m].todo = loc[m].todo
          /\ loc'[m].sibs = bracket[cur[m]]
      BY <1>0, <3>1 DEF Local
    <3>3. cur[m] \in Oids
      BY <1>0, <3>1 DEF Siblings
    <3>4. bracket[cur[m]] \subseteq Settled \ Entries /\ bracket[cur[m]] \subseteq Oids
      BY <1>0, <3>3 DEF LinkOk, TypeOK, LinkTypes
    <3> QED BY <1>5, <3>1, <3>2, <3>4 DEF Siblings
  <2> QED BY <2>1, <2>2
<1>8. ASSUME SibUnlink(m) PROVE G
  <2>1. /\ pc[m] = "sibUnlink" /\ cur'[m] = cur[m] /\ pc'[m] = "sibNext"
        /\ loc'[m] = [loc[m] EXCEPT !.par = parent[cur[m]]]
    BY <1>0, <1>8 DEF SibUnlink, Goto, Keep, TypeOK, ProcTypes
  <2>2. /\ loc'[m].phase = loc[m].phase /\ loc'[m].todo = loc[m].todo /\ loc'[m].sibs = loc[m].sibs
        /\ loc[m].sibs \subseteq Oids
    BY <1>0, <2>1 DEF Local
  <2>3. loc[m].sibs \subseteq Settled \ Entries
    BY <1>0, <2>1 DEF PassLinks
  <2> QED BY <1>5, <2>1, <2>2, <2>3 DEF Siblings
<1>9. ASSUME NEW s \in Oids, SibRead(m, s) PROVE G
  <2> DEFINE kd == IF order[s].status = "open" THEN {s} ELSE {}
  <2>1. /\ pc[m] = "sibNext" /\ cur'[m] = cur[m] /\ pc'[m] \in {"sibNext", "sibCancel"}
        /\ loc'[m] = [loc[m] EXCEPT !.sibs = @ \ {s}, !.kids = kd] /\ s \in loc[m].sibs
    BY <1>0, <1>9 DEF SibRead, Goto, Keep, TypeOK, ProcTypes
  <2>2. kd \subseteq {s}
    OBVIOUS
  <2> HIDE DEF kd
  <2>3. /\ loc'[m].phase = loc[m].phase /\ loc'[m].todo = loc[m].todo
        /\ loc'[m].sibs = loc[m].sibs \ {s} /\ loc[m].sibs \subseteq Oids /\ loc'[m].kids = kd
    BY <1>0, <2>1 DEF Local
  <2>4. loc[m].sibs \subseteq Settled \ Entries
    BY <1>0, <2>1 DEF PassLinks
  <2> QED BY <1>5, <2>1, <2>2, <2>3, <2>4 DEF Siblings
<1>10. ASSUME SibCancel(m) PROVE G
  <2>1. /\ pc[m] = "sibCancel" /\ cur'[m] = cur[m] /\ pc'[m] = "sibNext"
        /\ loc'[m] = [loc[m] EXCEPT !.kids = {}]
    BY <1>0, <1>10 DEF SibCancel, Goto, Keep, TypeOK, ProcTypes
  <2>2. /\ loc'[m].phase = loc[m].phase /\ loc'[m].todo = loc[m].todo /\ loc'[m].sibs = loc[m].sibs
        /\ loc[m].sibs \subseteq Oids
    BY <1>0, <2>1 DEF Local
  <2>3. loc[m].sibs \subseteq Settled \ Entries
    BY <1>0, <2>1 DEF PassLinks
  <2> QED BY <1>5, <2>1, <2>2, <2>3 DEF Siblings
<1>11. ASSUME MatchAll(m) PROVE G
  <2>1. /\ pc'[m] = "open" /\ order' = order
        /\ loc'[m] = [loc[m] EXCEPT !.todo = ordersOpen, !.phase = "limit"]
    BY <1>0, <1>11 DEF MatchAll, Goto, Keep, TypeOK, ProcTypes
  <2>2. loc'[m].todo = ordersOpen /\ loc'[m].phase = "limit"
    BY <1>0, <2>1 DEF Local
  <2> QED BY <2>1, <2>2 DEF G, PassLinks, TriggerPhase, Siblings, LInv, Limits
<1>12. ASSUME NEW t, NEW ph \in Kinds, loc'[m].phase = ph, loc'[m].todo = t,
              ph = "limit" => \A o \in t : order'[o].kind = "limit",
              pc'[m] \notin {"check"} \cup Siblings,
              pc'[m] = "open" => ph = "limit", pc'[m] \in TriggerPhase => ph = "trigger"
       PROVE  G
  BY <1>12 DEF G, PassLinks, Siblings
<1>13. ASSUME NEW o \in Oids, NEW x \in BOOLEAN, MatchOpenOrder(m, o, x) PROVE G
  <2>1. /\ pc[m] = "open" /\ pc'[m] \in {"fill", "open"}
        /\ loc'[m] = [loc[m] EXCEPT !.todo = @ \ {o}]
    BY <1>0, <1>13 DEF MatchOpenOrder, Goto, Keep, TypeOK, ProcTypes
  <2>2. loc'[m].phase = loc[m].phase /\ loc'[m].todo = loc[m].todo \ {o}
    BY <1>0, <2>1 DEF Local
  <2>3. loc[m].phase = "limit"
    BY <1>0, <2>1 DEF PassLinks
  <2> QED BY <1>0, <1>12, <2>1, <2>2, <2>3 DEF Siblings, TriggerPhase, Kinds
<1>14. ASSUME MatchTriggers(m) PROVE G
  <2>1. /\ pc'[m] = "trig"
        /\ loc'[m] = [loc[m] EXCEPT !.todo = ordersTriggers, !.phase = "trigger"]
    BY <1>0, <1>14 DEF MatchTriggers, Goto, Keep, TypeOK, ProcTypes
  <2>2. loc'[m].todo = ordersTriggers /\ loc'[m].phase = "trigger"
    BY <1>0, <2>1 DEF Local
  <2> QED BY <1>12, <2>1, <2>2 DEF Siblings, Kinds
<1>15. ASSUME pc[m] \in TriggerPhase, loc'[m].phase = loc[m].phase,
              pc'[m] \notin {"open", "check"} \cup Siblings
       PROVE  G
  BY <1>0, <1>15 DEF G, PassLinks, Siblings
<1>16. ASSUME NEW o \in Oids, MatchTriggerOrder(m, o) \/ SweepRead(m, o) PROVE G
  <2>1. /\ pc[m] \in TriggerPhase /\ pc'[m] \notin {"open", "check"} \cup Siblings
        /\ loc'[m] = [loc[m] EXCEPT !.todo = @ \ {o}]
    BY <1>0, <1>16 DEF MatchTriggerOrder, SweepRead, Goto, Keep, TypeOK, ProcTypes, TriggerPhase, Siblings
  <2>2. loc'[m].phase = loc[m].phase
    BY <1>0, <2>1 DEF Local
  <2> QED BY <1>15, <2>1, <2>2
<1>17. ASSUME ReadParent(m) PROVE G
  <2>1. /\ pc[m] = "parent" /\ pc'[m] = "check" /\ cur'[m] = cur[m]
        /\ loc'[m] = [loc[m] EXCEPT !.par = parent[cur[m]]]
    BY <1>0, <1>17 DEF ReadParent, Goto, Keep, TypeOK, ProcTypes
  <2>2. loc'[m].phase = loc[m].phase /\ loc'[m].par = parent[cur[m]]
    BY <1>0, <2>1 DEF Local
  <2>3. cur[m] \in Oids /\ loc[m].phase = "trigger"
    BY <1>0, <2>1 DEF HandLabels, PassLinks, TriggerPhase
  <2>4. parent[cur[m]] \in {NoOid, under'[cur[m]]}
    BY <1>0, <2>3 DEF LinkOk, Joins
  <2> QED BY <2>1, <2>2, <2>3, <2>4 DEF G, PassLinks, Siblings
<1>18. ASSUME NEW x \in BOOLEAN, CheckTrigger(m, x) PROVE G
  <2>1. /\ pc[m] = "check" /\ pc'[m] \in {"fill", "trig"}
        /\ loc'[m] = [loc[m] EXCEPT !.par = NoOid]
    BY <1>0, <1>18 DEF CheckTrigger, Goto, Keep, TypeOK, ProcTypes
  <2>2. loc'[m].phase = loc[m].phase
    BY <1>0, <2>1 DEF Local
  <2> QED BY <1>15, <2>1, <2>2 DEF TriggerPhase, Siblings
<1>19. ASSUME SweepExpired(m) PROVE G
  <2>1. /\ pc[m] = "trig" /\ pc'[m] = "sweep"
        /\ loc'[m] = [loc[m] EXCEPT !.todo = ordersExpiry \cap due]
    BY <1>0, <1>19 DEF SweepExpired, Goto, Keep, TypeOK, ProcTypes
  <2>2. loc'[m].phase = loc[m].phase
    BY <1>0, <2>1 DEF Local
  <2> QED BY <1>15, <2>1, <2>2 DEF TriggerPhase, Siblings
<1>20. ASSUME Unindex(m) \/ SweepCancel(m) PROVE G
  <2>1. pc[m] \in TriggerPhase /\ pc'[m] \in {"trig", "sweep"} /\ loc'[m] = loc[m]
    BY <1>0, <1>20 DEF Unindex, SweepCancel, Goto, TypeOK, ProcTypes, TriggerPhase
  <2> QED BY <1>15, <2>1 DEF Siblings
<1>21. ASSUME EndPass(m) PROVE G
  <2>1. pc'[m] = "idle" /\ loc'[m] = Blank
    BY <1>0, <1>21 DEF EndPass, Finish, Goto, Keep, TypeOK, ProcTypes
  <2>2. loc'[m].phase = "limit" /\ loc'[m].todo = {}
    BY <2>1 DEF Blank
  <2> QED BY <1>12, <2>1, <2>2 DEF Siblings, TriggerPhase, Kinds
<1> QED
  BY <1>2, <1>3, <1>4, <1>6, <1>7, <1>8, <1>9, <1>10, <1>11, <1>13, <1>14, <1>16, <1>17, <1>18,
     <1>19, <1>20, <1>21 DEF Match, Fill, G

-----------------------------------------------------------------------------
\* Only restOrder puts an order into orders:open.
LEMMA LimitsStep ==
  ASSUME TypeOK, Shape, IInv, LInv, Ages, Next
  PROVE  Limits'
<1> DEFINE G == ordersOpen' \subseteq ordersOpen
<1>0. \A o \in ordersOpen : order[o].status # "none" /\ o \in Oids /\ order[o].kind = "limit"
  BY DEF IInv, KnownSets, Saved, LInv, Limits
<1>1. ASSUME G PROVE Limits'
  BY <1>0, <1>1 DEF Limits, Ages
<1>2. ASSUME NEW r \in Reqs, RestOrder(r) PROVE Limits'
  <2>1. ordersOpen' = ordersOpen \cup {cur[r]} /\ order' = order /\ order[cur[r]].kind = "limit"
    BY <1>2 DEF RestOrder
  <2> QED BY <1>0, <2>1 DEF Limits
<1> USE DEF book
<1>3. ASSUME NEW r \in Reqs, LinkBracket(r) \/ CarryWrite(r) PROVE G
  BY <1>3 DEF LinkBracket, CarryWrite
<1> HIDE DEF G
<1>4. ASSUME NEW r \in Reqs, Place(r) PROVE Limits'
  BY <1>1, <1>2, <1>3, <1>4 DEF G, Place, PlaceOrders, RejectOrder, NextOid, SaveOrder, RestTrigger,
                                ListTrigger
<1>5. ASSUME NEW r \in Reqs, Cancel(r) PROVE G
  BY <1>5 DEF G, Cancel, CancelOrder, CascadeChild, CancelNext, CancelWrite, Cascade,
              CascadeUnlink, CancelDone
<1>6. ASSUME NEW r \in Reqs, Modify(r) PROVE G
  BY <1>3, <1>6 DEF G, Modify, ModifyOrder, ModifyWrite, CarryRead
<1>7. ASSUME NEW r \in Reqs, Sweepers(r) PROVE G
  BY <1>7 DEF G, Sweepers, ScheduledCancel, TickWrite, ResetAccount, ResetWrite, TickRead
<1>8. ASSUME NEW p \in Procs, Fill(p) PROVE G
  BY <1>8 DEF G, Fill, FillLock, FillSkip, FillWrite, SibChildren, SibUnparent, SibBracket,
              SibUnlink, SibRead, SibCancel, SibDone
<1>9. ASSUME NEW m \in Passes, Match(m) PROVE G
  BY <1>9 DEF G, Match, MatchAll, MatchTriggers, ReadParent, Unindex, SweepExpired, SweepCancel,
              EndPass, MatchOpenOrder, MatchTriggerOrder, SweepRead, CheckTrigger
<1>10. ASSUME NEW q \in Oids, Deadline(q) PROVE G
  BY <1>10 DEF G, Deadline
<1>11. ASSUME Restart PROVE G
  BY <1>11 DEF G, Restart, StopCalls
<1> QED BY <1>1, <1>4, <1>5, <1>6, <1>7, <1>8, <1>9, <1>10, <1>11 DEF Next

\* An explicit cancel is recorded as it is written.
LEMMA ExplicitStep ==
  ASSUME TypeOK, Shape, IInv, LInv, Ages, Next, TypeOK'
  PROVE  ExplicitDead'
<1> DEFINE G == \A o \in explicit' \ explicit : order'[o].status = "cancelled"
<1>0. explicit' \subseteq Oids /\ explicit \subseteq Oids /\ BookTypes
  BY DEF TypeOK, HistTypes
<1>1. ASSUME explicit' = explicit PROVE G
  BY <1>1
<1>2. ASSUME NEW S, NEW asked, RecordCancel(S, asked), SetStatus(S, "cancelled") PROVE G
  <2>1. \A o \in Oids : o \in S => order'[o].status = "cancelled"
    BY <1>0, <1>2, SetStatusType DEF Statuses
  <2>2. \A o \in explicit' \ explicit : o \in S
    BY <1>2 DEF RecordCancel
  <2> QED BY <1>0, <2>1, <2>2
<1> USE DEF hist
<1>3. ASSUME NEW r \in Reqs, LinkBracket(r) \/ CarryWrite(r) PROVE explicit' = explicit
  <2>1. LinkBracket(r) => explicit' = explicit
    BY DEF LinkBracket, RecordLinks
  <2>2. CarryWrite(r) => explicit' = explicit
    BY DEF CarryWrite, RecordLinks
  <2> QED BY <1>3, <2>1, <2>2
<1> HIDE DEF G
<1>4. ASSUME NEW r \in Reqs, Place(r) PROVE G
  BY <1>1, <1>3, <1>4 DEF Place, PlaceOrders, RejectOrder, NextOid, SaveOrder, RestOrder, RestTrigger,
                          ListTrigger
<1>5. ASSUME NEW r \in Reqs, Cancel(r) PROVE G
  BY <1>1, <1>2, <1>5 DEF Cancel, CancelOrder, CascadeChild, CancelNext, CancelWrite, Cascade,
              CascadeUnlink, CancelDone
<1>6. ASSUME NEW r \in Reqs, Modify(r) PROVE G
  BY <1>1, <1>2, <1>3, <1>6 DEF Modify, ModifyOrder, ModifyWrite, CarryRead
<1>7. ASSUME NEW r \in Reqs, Sweepers(r) PROVE G
  BY <1>1, <1>2, <1>7 DEF Sweepers, ScheduledCancel, TickWrite, ResetAccount, ResetWrite, TickRead
<1>8. ASSUME NEW p \in Procs, Fill(p) PROVE G
  BY <1>1, <1>2, <1>8 DEF Fill, FillLock, FillSkip, FillWrite, SibChildren, SibUnparent, SibBracket,
              SibUnlink, SibRead, SibCancel, SibDone
<1>9. ASSUME NEW m \in Passes, Match(m) PROVE G
  BY <1>1, <1>2, <1>9 DEF Match, MatchAll, MatchTriggers, ReadParent, Unindex, SweepExpired,
              SweepCancel, EndPass, MatchOpenOrder, MatchTriggerOrder, SweepRead, CheckTrigger
<1>10. ASSUME NEW q \in Oids, Deadline(q) PROVE G
  BY <1>1, <1>10 DEF Deadline
<1>11. ASSUME Restart PROVE G
  BY <1>1, <1>11 DEF Restart, StopCalls
<1>12. G
  BY <1>4, <1>5, <1>6, <1>7, <1>8, <1>9, <1>10, <1>11 DEF Next
<1> QED BY <1>0, <1>12 DEF G, ExplicitDead, LInv, Ages

\* The links stay in order with every step.
LEMMA LInvStep ==
  ASSUME TypeOK, Shape, OnePass, IInv, LInv, Next, TypeOK', Shape'
  PROVE  LInv' /\ Ages /\ Joins
<1>1. Ages
  BY AgesStep DEF LInv
<1>2. (\A o \in Oids : LinkOk(o)') /\ Pairs' /\ Joins
  BY LinksStep
<1>3. (\A r \in Reqs : MineOk(r)') /\ Apart'
  BY Settling DEF LInv
<1>4. Limits' /\ ExplicitDead'
  BY <1>1, LimitsStep, ExplicitStep
<1> DEFINE R == \A r \in Reqs : ReqLinks(r)'
           P == \A m \in Passes : PassLinks(m)'
<1>0. /\ \A r \in Reqs : r \in Procs /\ r \notin Passes /\ MineOk(r) /\ ReqLinks(r)
      /\ \A m \in Passes : m \in Procs /\ m \notin Reqs
  BY ConstantsAssumption DEF Procs, LInv
<1>5. ASSUME NEW r \in Reqs, Place(r) \/ Cancel(r) \/ Modify(r) \/ Sweepers(r) \/ Fill(r) PROVE R /\ P
  <2>1. Alone(r) /\ ReqLinks(r)'
    BY <1>0, <1>1, <1>2, <1>5, CallMine, CallLinks
  <2>2. \A s \in Reqs : s # r => ReqLinks(s)'
    BY <1>0, <1>1, <1>2, <2>1, ReqLinksKept DEF Alone
  <2>3. \A m \in Passes : PassLinks(m)'
    BY <1>0, <1>1, <1>2, <2>1, PassLinksKept DEF Alone
  <2> QED BY <2>1, <2>2, <2>3
<1>6. ASSUME NEW m \in Passes, Match(m) \/ Fill(m) PROVE R /\ P
  <2>1. Alone(m) /\ PassLinks(m)'
    BY <1>0, <1>1, <1>2, <1>6, PassMove, PassLinksStep
  <2>2. \A s \in Reqs : ReqLinks(s)'
    BY <1>0, <1>1, <1>2, <2>1, ReqLinksKept DEF Alone
  <2>3. \A n \in Passes : n # m => PassLinks(n)'
    BY <1>0, <1>1, <1>2, <2>1, PassLinksKept DEF Alone
  <2> QED BY <2>1, <2>2, <2>3
<1>7. ASSUME NEW q \in Oids, Deadline(q) PROVE R /\ P
  <2>1. UNCHANGED <<pc, cur, loc>>
    BY <1>7 DEF Deadline
  <2>2. \A s \in Reqs : ReqLinks(s)'
    BY <1>0, <1>1, <1>2, <2>1, ReqLinksKept
  <2>3. \A n \in Passes : PassLinks(n)'
    BY <1>0, <1>1, <1>2, <2>1, PassLinksKept
  <2> QED BY <2>2, <2>3
<1>8. ASSUME Restart PROVE R /\ P
  <2>1. \A p \in Procs : pc'[p] = "idle" /\ loc'[p] = Blank
    BY <1>8 DEF Restart, StopCalls
  <2>2. \A p \in Procs : loc'[p].old = NoOid /\ loc'[p].phase = "limit" /\ loc'[p].todo = {}
    BY <2>1 DEF Blank
  <2> QED BY <1>0, <2>1, <2>2 DEF ReqLinks, PassLinks, Siblings, TriggerPhase
<1>9. R /\ P
  BY <1>5, <1>6, <1>7, <1>8 DEF Next, Procs
<1> QED BY <1>1, <1>2, <1>3, <1>4, <1>9 DEF LInv

-----------------------------------------------------------------------------
\* Either no pass moves, or one pass alone does, or every call ends.
LEMMA Movers ==
  ASSUME TypeOK, Shape, LInv, Next
  PROVE  \/ \A m \in Passes : pc'[m] = pc[m] /\ cur'[m] = cur[m] /\ loc'[m] = loc[m]
         \/ \E m \in Passes : Alone(m) /\ (Match(m) \/ Fill(m))
         \/ Restart
<1> DEFINE Still == \A m \in Passes : pc'[m] = pc[m] /\ cur'[m] = cur[m] /\ loc'[m] = loc[m]
<1>1. ASSUME NEW r \in Reqs, Place(r) \/ Cancel(r) \/ Modify(r) \/ Sweepers(r) \/ Fill(r) PROVE Still
  <2>1. MineOk(r)
    BY DEF LInv
  <2>2. Alone(r)
    BY <1>1, <2>1, CallMine
  <2> QED BY <2>2, Others
<1>2. ASSUME NEW m \in Passes, Match(m) \/ Fill(m) PROVE Alone(m)
  BY <1>2, PassMove
<1>3. ASSUME NEW q \in Oids, Deadline(q) PROVE Still
  BY <1>3 DEF Deadline
<1> HIDE DEF Still
<1>4. Still \/ (\E m \in Passes : Alone(m) /\ (Match(m) \/ Fill(m))) \/ Restart
  BY <1>1, <1>2, <1>3 DEF Next, Procs
<1> QED BY <1>4 DEF Still

-----------------------------------------------------------------------------
(* A leg sleeps while its entry rests. The matcher reads the leg's parent  *)
(* in one step and the parent's status in the next; in between the pointer *)
(* can only go for a reason that also ends the entry or the leg.           *)

\* A leg o whose entry rests: nobody is about to fill it, and its pointer to
\* the entry is in place wherever the matcher reads it.
Sleeps(o) ==
  /\ fills[o] = 0
  /\ parent[o] = entryOf[o] \/ Dead(o)
  /\ \A m \in Passes : cur[m] = o =>
       /\ pc[m] = "check" => loc[m].par = entryOf[o]
       /\ pc[m] \notin {"fill", "locked"}
Sleep ==
  \A o \in Oids \ explicit :
    order[o].kind = "trigger" /\ entryOf[o] # NoOid /\ order[entryOf[o]].status = "open" => Sleeps(o)

\* A pass does not take a sleeping leg to its fill.
LEMMA PassSleeps ==
  ASSUME TypeOK, Shape, IInv, LInv, NEW m \in Passes, Match(m) \/ Fill(m),
         NEW o \in Oids, order[o].kind = "trigger", entryOf[o] # NoOid,
         order[entryOf[o]].status = "open", Sleeps(o), cur'[m] = o
  PROVE  /\ pc'[m] = "check" => loc'[m].par = entryOf[o]
         /\ pc'[m] \notin {"fill", "locked"}
<1> DEFINE G == /\ pc'[m] = "check" => loc'[m].par = entryOf[o]
                /\ pc'[m] \notin {"fill", "locked"}
<1>0. /\ m \in Procs /\ m \notin Reqs /\ loc[m] \in Local /\ PassLinks(m)
      /\ loc[m].phase \in Kinds
  BY LocalFacts, ConstantsAssumption DEF Procs, LInv, Local
<1>1. ASSUME pc'[m] \notin {"check", "fill", "locked"} PROVE G
  BY <1>1
<1>2. ASSUME FillReturn(m) PROVE G
  BY <1>0, <1>2 DEF FillReturn, Goto, TypeOK, ProcTypes
<1>3. ASSUME FillLock(m) PROVE G
  <2>1. pc[m] = "fill" /\ cur[m] = o
    BY <1>3 DEF FillLock
  <2> QED BY <2>1 DEF Sleeps
<1>4. ASSUME ReadParent(m) PROVE G
  <2>1. /\ pc[m] = "parent" /\ pc'[m] = "check" /\ cur[m] = o
        /\ loc'[m] = [loc[m] EXCEPT !.par = parent[cur[m]]]
    BY <1>0, <1>4 DEF ReadParent, Goto, Keep, TypeOK, ProcTypes
  <2>2. loc'[m].par = parent[o]
    BY <1>0, <2>1 DEF Local
  <2>3. ~Dead(o)
    BY <1>0, <2>1 DEF Dead, InHand
  <2> QED BY <2>1, <2>2, <2>3 DEF Sleeps
<1>5. ASSUME NEW x \in BOOLEAN, CheckTrigger(m, x) PROVE G
  <2>1. pc[m] = "check" /\ pc'[m] \in {"fill", "trig"} /\ (pc'[m] = "fill" => cur[m] = o /\ ~Dormant(loc[m].par))
    BY <1>0, <1>5 DEF CheckTrigger, Goto, TypeOK, ProcTypes
  <2>2. pc'[m] = "fill" => loc[m].par = entryOf[o]
    BY <2>1 DEF Sleeps
  <2> QED BY <2>1, <2>2 DEF Dormant
<1>6. ASSUME NEW q \in Oids, NEW x \in BOOLEAN, MatchOpenOrder(m, q, x) PROVE G
  <2>1. pc[m] = "open" /\ q \in loc[m].todo /\ pc'[m] \in {"fill", "open"}
        /\ (pc'[m] = "fill" => cur'[m] = q)
    BY <1>0, <1>6 DEF MatchOpenOrder, Goto, Hold, TypeOK, ProcTypes
  <2>2. order[q].kind = "limit"
    BY <1>0, <2>1 DEF PassLinks
  <2> QED BY <2>1, <2>2
<1>7. ASSUME NEW q \in Oids, MatchTriggerOrder(m, q) \/ SweepRead(m, q) PROVE G
  BY <1>0, <1>1, <1>7 DEF MatchTriggerOrder, SweepRead, Goto, TypeOK, ProcTypes
<1>8. ASSUME \/ MatchAll(m) \/ MatchTriggers(m) \/ Unindex(m) \/ SweepExpired(m) \/ SweepCancel(m)
             \/ EndPass(m) \/ FillWrite(m) \/ SibChildren(m) \/ SibUnlink(m) \/ SibCancel(m)
      PROVE  G
  BY <1>0, <1>1, <1>8 DEF MatchAll, MatchTriggers, Unindex, SweepExpired, SweepCancel, EndPass, Finish,
       FillWrite, SibChildren, SibUnlink, SibCancel, Goto, TypeOK, ProcTypes
<1>9. ASSUME FillSkip(m) \/ SibUnparent(m) \/ SibDone(m) PROVE G
  BY <1>2, <1>9 DEF FillSkip, SibUnparent, SibDone
<1>10. ASSUME SibBracket(m) PROVE G
  <2>1. CASE bracket[cur[m]] = {}
    BY <1>2, <1>10, <2>1 DEF SibBracket
  <2>2. CASE bracket[cur[m]] # {}
    BY <1>0, <1>1, <1>10, <2>2 DEF SibBracket, Goto, TypeOK, ProcTypes
  <2> QED BY <2>1, <2>2
<1>11. ASSUME NEW s \in Oids, SibRead(m, s) PROVE G
  BY <1>0, <1>1, <1>11 DEF SibRead, Goto, TypeOK, ProcTypes
<1> HIDE DEF G
<1>12. G
  BY <1>3, <1>4, <1>5, <1>6, <1>7, <1>8, <1>9, <1>10, <1>11 DEF Match, Fill
<1> QED BY <1>12 DEF G

\* A linked leg goes on sleeping as long as its entry rests.
LEMMA SleepStep ==
  ASSUME TypeOK, Shape, OnePass, IInv, LInv, Sleep, Ages, Joins, Next, LInv'
  PROVE  Sleep'
<1> SUFFICES ASSUME NEW o \in Oids, o \notin explicit', order'[o].kind = "trigger",
                    entryOf'[o] # NoOid, order'[entryOf'[o]].status = "open"
             PROVE  Sleeps(o)'
  BY DEF Sleep
<1> DEFINE e == entryOf'[o]
<1>0. /\ \A r \in Reqs : r \in Procs /\ r \notin Passes
      /\ \A m \in Passes : m \in Procs /\ m \notin Reqs
      /\ fills \in [Oids -> Nat] /\ NoOid \notin Oids /\ o \notin explicit
  BY ConstantsAssumption DEF Procs, TypeOK, HistTypes, NoOid, Oids, Ages
<1>1. ASSUME e = entryOf[o] PROVE Sleeps(o)'
  <2>1. o \in Settled /\ e \in Settled /\ e \in Oids /\ under[o] = e
    BY <1>1 DEF LInv, LinkOk, Settled
  <2>2. order[o].kind = "trigger" /\ order[e].status = "open"
    BY <2>1 DEF Ages
  <2>3. Sleeps(o)
    BY <1>0, <1>1, <2>2 DEF Sleep
  <2>4. fills'[o] = 0
    <3>1. ASSUME NEW p \in Procs, FillWrite(p) PROVE fills'[o] = 0
      <4>1. cur[p] # o
        <5> SUFFICES ASSUME cur[p] = o PROVE FALSE
          OBVIOUS
        <5>1. pc[p] = "locked" /\ Hands(p, o)
          BY <3>1 DEF FillWrite, Hands, HandLabels
        <5>2. p \in Passes
          BY <2>1, <5>1, SettledHands DEF Procs
        <5> QED BY <2>3, <5>1, <5>2 DEF Sleeps
      <4> QED BY <1>0, <2>3, <3>1, <4>1 DEF FillWrite, Sleeps
    <3>2. CASE fills' = fills
      BY <2>3, <3>2 DEF Sleeps
    <3> QED BY <3>1, <3>2, HistAge
  <2>5. parent'[o] = e \/ Dead(o)'
    <3>1. CASE Dead(o)
      BY <2>1, <3>1 DEF Ages
    <3>2. CASE parent[o] = e /\ parent'[o] # e
      <4>1. e \notin explicit
        BY <2>1, <2>2 DEF LInv, ExplicitDead
      <4>2. ~(fills[e] > 0)
        BY <2>1, <2>2 DEF IInv, Filled
      <4>3. ~(fills[o] > 0)
        BY <2>3 DEF Sleeps
      <4> QED BY <1>0, <2>1, <3>2, <4>1, <4>2, <4>3 DEF Joins, Drop
    <3> QED BY <1>1, <2>3, <3>1, <3>2 DEF Sleeps
  <2>6. ASSUME NEW m \in Passes, cur'[m] = o
        PROVE  (pc'[m] = "check" => loc'[m].par = e) /\ pc'[m] \notin {"fill", "locked"}
    <3>1. CASE pc'[m] = pc[m] /\ cur'[m] = cur[m] /\ loc'[m] = loc[m]
      BY <1>1, <2>3, <2>6, <3>1 DEF Sleeps
    <3>2. CASE Match(m) \/ Fill(m)
      BY <1>1, <2>2, <2>3, <2>6, <3>2, PassSleeps
    <3>3. ASSUME NEW n \in Passes, Alone(n), n # m
          PROVE  pc'[m] = pc[m] /\ cur'[m] = cur[m] /\ loc'[m] = loc[m]
      BY <1>0, <3>3 DEF Alone
    <3>4. CASE Restart
      BY <1>0, <3>4 DEF Restart, StopCalls
    <3> QED BY <3>1, <3>2, <3>3, <3>4, Movers
  <2> QED BY <2>4, <2>5, <2>6 DEF Sleeps
<1>2. ASSUME e # entryOf[o] PROVE Sleeps(o)'
  <2>1. fills[o] = 0 /\ ~InHand(o) /\ parent'[o] = e
    BY <1>0, <1>2 DEF Joins
  <2>2. PICK r \in Reqs : LinkBracket(r) \/ CarryWrite(r)
    BY <1>2, TameStep DEF Tame
  <2>3. Finish(r) /\ fills' = fills
    <3>1. LinkBracket(r) => Finish(r) /\ fills' = fills
      BY DEF LinkBracket, RecordLinks, hist
    <3>2. CarryWrite(r) => Finish(r) /\ fills' = fills
      BY DEF CarryWrite, RecordLinks
    <3> QED BY <2>2, <3>1, <3>2
  <2>4. \A m \in Passes : pc'[m] = pc[m] /\ cur'[m] = cur[m]
    BY <2>3, FinishMine, Others
  <2>5. \A m \in Passes : cur[m] = o => pc[m] \notin HandLabels
    BY <1>0, <2>1 DEF InHand, HandLabels
  <2> QED BY <2>1, <2>3, <2>4, <2>5 DEF Sleeps, HandLabels
<1> QED BY <1>1, <1>2

-----------------------------------------------------------------------------
(* One exit per bracket. While both legs of a pair are unfilled and        *)
(* neither is dead they name each other as siblings, so a pass that fills  *)
(* one reads the other as its sibling and comes to it before any other     *)
(* pass can start.                                                         *)

\* A pass that has filled a is going to come to b.
Comes(m, a, b) ==
  /\ cur[m] = a
  /\ \/ pc[m] \in {"sibChildren", "sibBracket"} /\ b \in bracket[a]
     \/ pc[m] \in {"sibUnlink", "sibNext"} /\ b \in loc[m].sibs
     \/ pc[m] = "sibCancel" /\ b \in loc[m].sibs \cup loc[m].kids

\* b has not filled and will not, a having filled.
Chased(a, b) == fills[b] = 0 /\ (Dead(b) \/ \E m \in Passes : Comes(m, a, b))

PairOk(a, b) ==
  \/ fills[a] = 0 /\ fills[b] = 0 /\ (Dead(a) \/ Dead(b) \/ (b \in bracket[a] /\ a \in bracket[b]))
  \/ fills[a] > 0 /\ Chased(a, b)
  \/ fills[b] > 0 /\ Chased(b, a)
OnePerPair ==
  \A a, b \in Oids : {a, b} \in oco => a # b /\ (PairOk(a, b) \/ Excused(a, b))

\* The one pass that holds an order's fill.
LEMMA FillerPass ==
  ASSUME TypeOK, Shape, NEW p \in Procs, FillWrite(p), cur[p] \in Settled
  PROVE  p \in Passes /\ InHand(cur[p]) /\ pc[p] = "locked"
<1>1. pc[p] = "locked" /\ Hands(p, cur[p])
  BY DEF FillWrite, Hands, HandLabels
<1>2. p \in Passes
  BY <1>1, SettledHands DEF Procs
<1> QED BY <1>1, <1>2 DEF InHand

\* The pass that filled a leg of a pair gets to the other leg.
LEMMA ComesOn ==
  ASSUME TypeOK, Shape, OnePass, IInv, LInv, Ages, Joins, NEW m \in Passes, Match(m) \/ Fill(m),
         NEW a \in Settled \ Entries, NEW b \in Settled, Comes(m, a, b)
  PROVE  Dead(b)' \/ Comes(m, a, b)'
<1> DEFINE G == Dead(b)' \/ Comes(m, a, b)'
<1>0. /\ m \in Procs /\ m \notin Reqs /\ loc[m] \in Local /\ a \in Oids /\ b \in Oids
      /\ cur[m] = a /\ pc[m] \in Siblings /\ pc[m] # "sibUnparent"
  BY LocalFacts, ConstantsAssumption DEF Procs, Comes, Settled, Siblings
<1>1. ASSUME SibChildren(m) PROVE G
  <2>1. children[a] = {}
    BY <1>0 DEF LInv, LinkOk, Entries, TypeOK, LinkTypes
  <2>2. pc[m] = "sibChildren" /\ pc'[m] = "sibBracket" /\ cur'[m] = a /\ bracket' = bracket
    BY <1>0, <1>1, <2>1 DEF SibChildren, Goto, TypeOK, ProcTypes, links
  <2> QED BY <2>2 DEF Comes
<1>2. ASSUME SibBracket(m) PROVE G
  <2>1. pc[m] = "sibBracket" /\ b \in bracket[a]
    BY <1>2 DEF SibBracket, Comes
  <2>2. /\ pc'[m] = "sibUnlink" /\ cur'[m] = a
        /\ loc'[m] = [loc[m] EXCEPT !.sibs = bracket[a]]
    BY <1>0, <1>2, <2>1 DEF SibBracket, Goto, Keep, TypeOK, ProcTypes
  <2>3. loc'[m].sibs = bracket[a]
    BY <1>0, <2>2 DEF Local
  <2> QED BY <2>1, <2>2, <2>3 DEF Comes
<1>3. ASSUME SibUnlink(m) PROVE G
  <2>1. /\ pc[m] = "sibUnlink" /\ pc'[m] = "sibNext" /\ cur'[m] = a
        /\ loc'[m] = [loc[m] EXCEPT !.par = parent[a]]
    BY <1>0, <1>3 DEF SibUnlink, Goto, Keep, TypeOK, ProcTypes
  <2>2. loc'[m].sibs = loc[m].sibs /\ b \in loc[m].sibs
    BY <1>0, <2>1 DEF Local, Comes
  <2> QED BY <2>1, <2>2 DEF Comes
<1>4. ASSUME NEW s \in Oids, SibRead(m, s) PROVE G
  <2> DEFINE kd == IF order[s].status = "open" THEN {s} ELSE {}
  <2>1. /\ pc[m] = "sibNext" /\ cur'[m] = a
        /\ pc'[m] = IF order[s].status = "open" THEN "sibCancel" ELSE "sibNext"
        /\ loc'[m] = [loc[m] EXCEPT !.sibs = @ \ {s}, !.kids = kd]
    BY <1>0, <1>4 DEF SibRead, Goto, Keep, TypeOK, ProcTypes
  <2> HIDE DEF kd
  <2>2. loc'[m].sibs = loc[m].sibs \ {s} /\ loc'[m].kids = kd /\ b \in loc[m].sibs
    BY <1>0, <2>1 DEF Local, Comes
  <2>3. CASE s # b
    BY <2>1, <2>2, <2>3 DEF Comes
  <2>4. CASE s = b /\ order[b].status = "open"
    BY <2>1, <2>2, <2>4 DEF Comes, kd
  <2>5. CASE s = b /\ order[b].status # "open"
    <3>1. ASSUME NEW n \in Passes PROVE ~Hands(n, b)
      BY <2>1 DEF OnePass, Hands, HandLabels
    <3>2. Dead(b)
      BY <2>5, <3>1, SettledHands DEF Dead
    <3> QED BY <3>2 DEF Ages
  <2> QED BY <2>3, <2>4, <2>5
<1>5. ASSUME SibCancel(m) PROVE G
  <2>1. /\ pc[m] = "sibCancel" /\ pc'[m] = "sibNext" /\ cur'[m] = a
        /\ loc'[m] = [loc[m] EXCEPT !.kids = {}]
    BY <1>0, <1>5 DEF SibCancel, Goto, Keep, TypeOK, ProcTypes
  <2>2. loc'[m].sibs = loc[m].sibs
    BY <1>0, <2>1 DEF Local
  <2>3. CASE b \in loc[m].sibs
    BY <2>1, <2>2, <2>3 DEF Comes
  <2>4. CASE b \in loc[m].kids
    BY <1>5, <2>4, SiblingDies
  <2> QED BY <2>1, <2>3, <2>4 DEF Comes
<1>6. ASSUME SibDone(m) \/ SibUnparent(m) PROVE FALSE
  BY <1>0, <1>6 DEF SibDone, SibUnparent, Comes
<1>7. ~FillLock(m) /\ ~FillSkip(m) /\ ~FillWrite(m)
  BY <1>0 DEF FillLock, FillSkip, FillWrite, Siblings
<1>8. ~Match(m)
  BY <1>0 DEF Match, MatchAll, MatchTriggers, ReadParent, Unindex, SweepExpired, SweepCancel, EndPass,
              MatchOpenOrder, MatchTriggerOrder, SweepRead, CheckTrigger, Siblings
<1> HIDE DEF G
<1>9. G
  BY <1>1, <1>2, <1>3, <1>4, <1>5, <1>6, <1>7, <1>8 DEF Fill
<1> QED BY <1>9 DEF G

\* Once a has filled, b is cancelled before anybody fills it.
LEMMA ChaseGoesOn ==
  ASSUME TypeOK, Shape, OnePass, IInv, LInv, Ages, Joins, Next,
         NEW a \in Settled \ Entries, NEW b \in Settled \ Entries, fills[a] > 0, Chased(a, b)
  PROVE  fills'[a] > 0 /\ (Chased(a, b)' \/ Excused(a, b) \/ a \in interrupted')
<1>0. /\ \A m \in Passes : m \in Procs /\ m \notin Reqs
      /\ a \in Oids /\ b \in Oids /\ fills \in [Oids -> Nat]
  BY ConstantsAssumption DEF Procs, Settled, TypeOK, HistTypes
<1>1. fills'[a] > 0
  BY <1>0 DEF Ages
<1>2. fills'[b] = 0
  <2>1. ASSUME NEW p \in Procs, FillWrite(p), cur[p] = b PROVE FALSE
    <3>1. p \in Passes /\ InHand(b) /\ pc[p] = "locked"
      BY <2>1, FillerPass
    <3>2. PICK m \in Passes : Comes(m, a, b)
      BY <3>1 DEF Chased, Dead
    <3>3. pc[m] \in Siblings
      BY <3>2 DEF Comes, Siblings
    <3> QED BY <3>1, <3>3 DEF OnePass, Siblings
  <2>2. ASSUME NEW p \in Procs, FillWrite(p), cur[p] # b PROVE fills'[b] = fills[b]
    BY <1>0, <2>2 DEF FillWrite
  <2> QED BY <2>1, <2>2, HistAge DEF Chased
<1>3. CASE Dead(b)
  BY <1>1, <1>2, <1>3 DEF Chased, Ages
<1>4. ASSUME NEW m \in Passes, Comes(m, a, b)
      PROVE  Dead(b)' \/ Comes(m, a, b)' \/ Excused(a, b) \/ a \in interrupted'
  <2>1. CASE pc'[m] = pc[m] /\ cur'[m] = cur[m] /\ loc'[m] = loc[m]
    <3>1. CASE pc[m] \in {"sibChildren", "sibBracket"}
      <4>1. b \in bracket[a]
        BY <1>4, <3>1 DEF Comes
      <4>2. \A n \in Passes : pc[n] \notin {"sibUnlink", "sibCancel"}
        BY <3>1 DEF OnePass
      <4>3. b \in bracket'[a] \/ Excused(a, b)
        BY <1>0, <4>1, <4>2 DEF Joins, Cut
      <4> QED BY <1>4, <2>1, <3>1, <4>3 DEF Comes
    <3>2. CASE pc[m] \notin {"sibChildren", "sibBracket"}
      BY <1>4, <2>1, <3>2 DEF Comes
    <3> QED BY <3>1, <3>2
  <2>2. CASE Match(m) \/ Fill(m)
    BY <1>4, <2>2, ComesOn
  <2>3. ASSUME NEW n \in Passes, Alone(n), n # m
        PROVE  pc'[m] = pc[m] /\ cur'[m] = cur[m] /\ loc'[m] = loc[m]
    BY <1>0, <2>3 DEF Alone
  <2>4. CASE Restart
    <3>1. cur[m] = a /\ pc[m] \in Siblings
      BY <1>4 DEF Comes, Siblings
    <3> QED BY <1>0, <2>4, <3>1 DEF Restart, StopCalls
  <2> QED BY <2>1, <2>2, <2>3, <2>4, Movers
<1>5. CASE \E m \in Passes : Comes(m, a, b)
  <2>1. PICK m \in Passes : Comes(m, a, b)
    BY <1>5
  <2>2. Dead(b)' \/ Comes(m, a, b)' \/ Excused(a, b) \/ a \in interrupted'
    BY <1>4, <2>1
  <2> QED BY <1>1, <1>2, <2>2 DEF Chased
<1> QED BY <1>1, <1>3, <1>5 DEF Chased

\* A pass that fills a linked leg starts to chase its sibling.
LEMMA ChaseStarts ==
  ASSUME TypeOK, Shape, IInv, LInv, Ages, NEW p \in Procs, FillWrite(p),
         NEW a \in Settled, NEW b \in Settled, a # b, cur[p] = a, fills[b] = 0,
         Dead(a) \/ Dead(b) \/ b \in bracket[a]
  PROVE  fills'[a] > 0 /\ Chased(a, b)'
<1>0. p \in Passes /\ InHand(a) /\ a \in Oids /\ b \in Oids /\ fills \in [Oids -> Nat]
  BY FillerPass DEF Settled, TypeOK, HistTypes
<1>1. /\ fills' = [fills EXCEPT ![a] = @ + 1] /\ bracket' = bracket
      /\ pc'[p] = "sibChildren" /\ cur'[p] = a
  BY <1>0 DEF FillWrite, Goto, links, TypeOK, ProcTypes
<1>2. fills'[a] > 0 /\ fills'[b] = 0
  BY <1>0, <1>1
<1>3. CASE Dead(b)
  BY <1>2, <1>3 DEF Chased, Ages
<1>4. CASE b \in bracket[a]
  <2>1. Comes(p, a, b)'
    BY <1>1, <1>4 DEF Comes
  <2> QED BY <1>0, <1>2, <2>1 DEF Chased
<1> QED BY <1>0, <1>2, <1>3, <1>4 DEF Dead

\* The links between two unfilled legs stay, or one of the two dies.
LEMMA LinksHold ==
  ASSUME TypeOK, Shape, IInv, LInv, Ages, Joins, NEW a \in Settled, NEW b \in Settled,
         fills[a] = 0, b \in bracket[a]
  PROVE  b \in bracket'[a] \/ Dead(a)' \/ Excused(a, b)
<1>1. a \in Oids /\ b \in Oids
  BY DEF Settled
<1>2. ASSUME NEW m \in Passes, pc[m] = "sibUnlink" PROVE cur[m] # a
  BY <1>2 DEF LInv, PassLinks, Siblings
<1> QED BY <1>1, <1>2 DEF Joins, Cut

\* No step lets both legs of a pair fill, or fill without a chase.
LEMMA PairStep ==
  ASSUME TypeOK, Shape, OnePass, IInv, LInv, OnePerPair, Ages, Joins, Next
  PROVE  OnePerPair'
<1> SUFFICES ASSUME NEW a \in Oids, NEW b \in Oids, {a, b} \in oco'
             PROVE  a # b /\ (PairOk(a, b)' \/ Excused(a, b)')
  BY DEF OnePerPair
<1>0. fills \in [Oids -> Nat] /\ explicit \subseteq Oids /\ NoOid \notin Oids
  BY DEF TypeOK, HistTypes, NoOid, Oids
<1>1. CASE {a, b} \notin oco
  <2>1. /\ fills[a] = 0 /\ fills[b] = 0 /\ a # b
        /\ explicit \cap {a, b} # {} \/ (b \in bracket'[a] /\ a \in bracket'[b])
    BY <1>1 DEF Joins
  <2>2. ~ \E p \in Procs : FillWrite(p)
    BY <1>1 DEF FillWrite
  <2>3. fills' = fills
    BY <2>2, HistAge
  <2>4. explicit \cap {a, b} # {} => Excused(a, b)'
    BY DEF Excused, Ages
  <2>5. b \in bracket'[a] /\ a \in bracket'[b] => PairOk(a, b)'
    BY <2>1, <2>3 DEF PairOk
  <2> QED BY <2>1, <2>4, <2>5
<1>2. CASE {a, b} \in oco
  <2>1. a # b /\ (PairOk(a, b) \/ Excused(a, b)) /\ a \in Settled \ Entries /\ b \in Settled \ Entries
    BY <1>2 DEF OnePerPair, LInv, Pairs
  <2>2. Excused(a, b) => Excused(a, b)'
    BY <1>0, UnderKept DEF Excused, Ages
  <2>3. Excused(b, a) => Excused(a, b)
    BY DEF Excused
  <2>4. a \in interrupted' \/ b \in interrupted' => Excused(a, b)'
    BY DEF Excused
  <2>5. CASE fills[a] > 0 /\ Chased(a, b)
    BY <2>1, <2>2, <2>4, <2>5, ChaseGoesOn DEF PairOk
  <2>6. CASE fills[b] > 0 /\ Chased(b, a)
    BY <2>1, <2>2, <2>3, <2>4, <2>6, ChaseGoesOn DEF PairOk
  <2>7. ASSUME fills[a] = 0, fills[b] = 0,
               Dead(a) \/ Dead(b) \/ (b \in bracket[a] /\ a \in bracket[b])
        PROVE  PairOk(a, b)' \/ Excused(a, b)'
    <3>1. ASSUME NEW p \in Procs, FillWrite(p), cur[p] = a PROVE PairOk(a, b)'
      BY <2>1, <2>7, <3>1, ChaseStarts DEF PairOk
    <3>2. ASSUME NEW p \in Procs, FillWrite(p), cur[p] = b PROVE PairOk(a, b)'
      BY <2>1, <2>7, <3>2, ChaseStarts DEF PairOk
    <3>3. ASSUME fills'[a] = 0, fills'[b] = 0 PROVE PairOk(a, b)' \/ Excused(a, b)'
      <4>1. CASE Dead(a) \/ Dead(b)
        BY <2>1, <3>3, <4>1 DEF Ages, PairOk
      <4>2. CASE b \in bracket[a] /\ a \in bracket[b]
        <5>1. b \in bracket'[a] \/ Dead(a)' \/ Excused(a, b)
          BY <2>1, <2>7, <4>2, LinksHold
        <5>2. a \in bracket'[b] \/ Dead(b)' \/ Excused(b, a)
          BY <2>1, <2>7, <4>2, LinksHold
        <5> QED BY <2>2, <2>3, <3>3, <5>1, <5>2 DEF PairOk
      <4> QED BY <2>7, <4>1, <4>2
    <3>4. ASSUME NEW p \in Procs, FillWrite(p), cur[p] # a, cur[p] # b
          PROVE  fills'[a] = 0 /\ fills'[b] = 0
      BY <1>0, <2>7, <3>4 DEF FillWrite
    <3> QED BY <2>7, <3>1, <3>2, <3>3, <3>4, HistAge
  <2> QED BY <2>1, <2>2, <2>5, <2>6, <2>7 DEF PairOk
<1> QED BY <1>1, <1>2

-----------------------------------------------------------------------------
(* The theorems on brackets. *)

\* The inductive invariant of the links and the brackets.
BInv == LInv /\ Sleep /\ OnePerPair

LEMMA BracketInit == Init => BInv
<1> SUFFICES ASSUME Init PROVE BInv
  OBVIOUS
<1>0. /\ NoOid \notin Oids
      /\ \A r \in Reqs : r \in Procs
      /\ \A m \in Passes : m \in Procs
  BY DEF NoOid, Oids, Procs
<1>1. \A p \in Procs : pc[p] = "idle" /\ loc[p] = Blank
  BY DEF Init
<1>2. \A p \in Procs : /\ loc[p].first = NoOid /\ loc[p].rest = {} /\ loc[p].old = NoOid
                       /\ loc[p].todo = {}
  BY <1>1 DEF Blank
<1>3. \A o \in Oids : /\ children[o] = {} /\ parent[o] = NoOid /\ bracket[o] = {}
                      /\ under[o] = NoOid /\ entryOf[o] = NoOid
  BY DEF Init
<1>4. ordersOpen = {} /\ oco = {} /\ explicit = {}
  BY DEF Init
<1>5. \A r \in Reqs : Mine(r) = {}
  BY <1>0, <1>1, <1>2 DEF Mine, Placing, Siblings
<1>6. \A r \in Reqs : MineOk(r) /\ ReqLinks(r)
  BY <1>0, <1>1, <1>2, <1>5 DEF MineOk, ReqLinks, Placing, Siblings
<1>7. \A m \in Passes : PassLinks(m)
  BY <1>0, <1>1, <1>2 DEF PassLinks, TriggerPhase, Siblings
<1>8. \A o \in Oids : LinkOk(o)
  BY <1>3 DEF LinkOk
<1>9. Apart /\ Pairs /\ Limits /\ ExplicitDead
  BY <1>4, <1>5 DEF Apart, Pairs, Limits, ExplicitDead
<1>10. Sleep /\ OnePerPair
  BY <1>3, <1>4 DEF Sleep, OnePerPair
<1> QED BY <1>6, <1>7, <1>8, <1>9, <1>10 DEF BInv, LInv

LEMMA BracketStutter ==
  ASSUME BInv, UNCHANGED vars
  PROVE  BInv'
<1>0. UNCHANGED <<order, lastOid, ordersOpen, children, parent, bracket, pc, cur, loc, fills,
                  explicit, interrupted, oco, under, entryOf>>
  BY DEF vars, book, links, hist
<1>1. LInv'
  BY <1>0 DEF BInv, LInv, MineOk, ReqLinks, Mine, Apart, Pairs, Limits, ExplicitDead, PassLinks,
              LinkOk, Settled, Entries
<1>2. Sleep' /\ OnePerPair'
  BY <1>0 DEF BInv, Sleep, Sleeps, Dead, InHand, OnePerPair, PairOk, Chased, Comes, Excused
<1> QED BY <1>1, <1>2 DEF BInv

(* The links and brackets stay as BInv says in every reachable state. *)
THEOREM BracketInvariance == Spec => []BInv
<1> DEFINE Inv == TypeOK /\ Shape /\ OnePass /\ IInv
<1>1. Inv /\ BInv /\ [Next]_vars /\ Inv' => BInv'
  <2>1. ASSUME Inv, BInv, Next, Inv' PROVE BInv'
    <3>1. LInv' /\ Ages /\ Joins
      BY <2>1, LInvStep DEF BInv
    <3>2. Sleep' /\ OnePerPair'
      BY <2>1, <3>1, SleepStep, PairStep DEF BInv
    <3> QED BY <3>1, <3>2 DEF BInv
  <2> QED BY <2>1, BracketStutter
<1> QED BY <1>1, BracketInit, Invariance, PTL DEF Spec

(* Of two legs linked as siblings before either filled, both fill only if  *)
(* one of them or an entry they were linked to was cancelled explicitly,   *)
(* or a restart cut the sibling cancel short (OneExitPerBracket).          *)
THEOREM OneExit == Spec => []OneExitPerBracket
<1>1. TypeOK /\ BInv => OneExitPerBracket
  <2> SUFFICES ASSUME TypeOK, BInv, NEW x \in oco, \A o \in x : fills[o] > 0
               PROVE  (explicit \cap (x \cup {under[o] : o \in x})) \cup (interrupted \cap x) # {}
    BY DEF OneExitPerBracket
  <2>1. PICK a, b \in Oids : x = {a, b}
    BY DEF BInv, LInv, Pairs
  <2>2. PairOk(a, b) \/ Excused(a, b)
    BY <2>1 DEF BInv, OnePerPair
  <2>3. ~PairOk(a, b)
    BY <2>1 DEF PairOk, Chased
  <2>4. {a, b, under[a], under[b]} = x \cup {under[o] : o \in x}
    BY <2>1
  <2> QED BY <2>1, <2>2, <2>3, <2>4 DEF Excused
<1> QED BY <1>1, BracketInvariance, TypeCorrect, PTL

(* A trigger leg linked to an entry before the matcher took it in hand     *)
(* does not fill while that entry still rests, unless it was itself        *)
(* cancelled explicitly (DormantWhileEntryRests).                          *)
THEOREM LegsSleep == Spec => []DormantWhileEntryRests
<1>1. TypeOK /\ BInv => DormantWhileEntryRests
  <2> SUFFICES ASSUME Sleep PROVE DormantWhileEntryRests
    BY DEF BInv
  <2> QED BY DEF Sleep, Sleeps, DormantWhileEntryRests
<1> QED BY <1>1, BracketInvariance, TypeCorrect, PTL

=============================================================================
