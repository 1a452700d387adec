----------------------------- MODULE OrdersProofs -----------------------------
(***************************************************************************)
(* Proofs about Orders, for any sets of orders and workers.                *)
(***************************************************************************)
EXTENDS MCOrders, SequenceTheorems, TLAPS

\* What a step leaves alone it mostly says of the committed rows together.
USE DEF committed

(***************************************************************************)
(* Lemmas about the operators.                                             *)
(***************************************************************************)

\* The largest number of 1..n is n.
LEMMA MaxOfInterval ==
  ASSUME NEW n \in Nat \ {0}
  PROVE  Max(1..n) = n
<1>1. n \in 1..n /\ \A y \in 1..n : n >= y
  OBVIOUS
<1>2. \A x \in 1..n : x >= n => x = n
  OBVIOUS
<1>3. \A x : x \in 1..n /\ (\A y \in 1..n : x >= y) => x = n
  BY <1>1, <1>2
<1>. QED
  BY <1>1, <1>3 DEF Max

\* A log numbered from 1 without gaps is continued with the next number.
LEMMA NextSeqOfDense ==
  ASSUME NEW log \in Seq(Event), \A i \in DOMAIN log : log[i].seq = i
  PROVE  NextSeq(log) = Len(log) + 1
<1>1. CASE log = <<>>
  BY <1>1 DEF NextSeq
<1>2. CASE log # <<>>
  <2>1. Len(log) \in Nat \ {0} /\ DOMAIN log = 1..Len(log)
    BY <1>2, EmptySeq
  <2>2. Seqs(log) = 1..Len(log)
    BY <2>1 DEF Seqs
  <2>3. Max(1..Len(log)) = Len(log)
    BY <2>1, MaxOfInterval
  <2>. QED
    BY <1>2, <2>2, <2>3 DEF NextSeq
<1>. QED
  BY <1>1, <1>2

\* Every step of the map leads from a status to a status.
LEMMA CanTyped ==
  ASSUME NEW s, NEW t, Can(s, t)
  PROVE  s \in Statuses /\ t \in Statuses
BY DEF Can, Statuses, Transitions

\* Whatever a caller may ask for is a plan of one or two statuses.
LEMMA AsksTyped ==
  ASSUME NEW actor \in Actors, NEW obj \in Row, NEW plan \in Asks(actor, obj)
  PROVE  plan \in Seq(Statuses) /\ plan # <<>> /\ Len(plan) \in {1, 2}
<1>1. VendorTargets \cup ForcedTargets \cup {"cancelled_customer", "picked", "out", "delivered"}
         \subseteq Statuses
  BY OrdersAssumption DEF VendorTargets, Statuses, Transitions
<1>2. \A t \in Statuses : /\ <<t>> \in Seq(Statuses) /\ <<t>> # <<>> /\ Len(<<t>>) = 1
  OBVIOUS
<1>3. \/ \E t \in VendorTargets \cup ForcedTargets \cup {"cancelled_customer", "delivered"} : plan = <<t>>
      \/ plan = <<"picked", "out">>
  BY DEF Asks, Actors
<1>4. CASE plan = <<"picked", "out">>
  BY <1>1, <1>4
<1>. QED
  BY <1>1, <1>2, <1>3, <1>4

\* Assigning a status yields a row with that status.
LEMMA StampTyped ==
  ASSUME NEW obj \in Row, NEW to \in Statuses
  PROVE  Stamp(obj, to) \in Row /\ Stamp(obj, to).status = to
BY DEF Stamp, Row

\* A request starts well typed.
LEMMA NewRequestTyped ==
  ASSUME NEW o \in Orders, NEW obj \in Row, NEW plan \in Seq(Statuses)
  PROVE  NewRequest(o, obj, plan) \in Request
BY DEF NewRequest, Request, Row

\* So does what an idle worker holds.
LEMMA NoRequestTyped ==
  ASSUME NEW o \in Orders
  PROVE  NoRequest(o) \in Request
<1>1. NewRow \in Row
  BY DEF NewRow, Row, Statuses, Transitions
<1>2. <<>> \in Seq(Statuses)
  BY EmptySeq
<1>. QED
  BY <1>1, <1>2, NewRequestTyped DEF NoRequest

\* An idle worker holds an empty request.
LEMMA NoRequestFields ==
  ASSUME NEW o
  PROVE  /\ NoRequest(o).order = o /\ NoRequest(o).plan = <<>>
         /\ NoRequest(o).evs = <<>> /\ NoRequest(o).msgs = <<>>
BY DEF NoRequest, NewRequest

-----------------------------------------------------------------------------
(***************************************************************************)
(* Facts that follow from the invariant in one state.                      *)
(***************************************************************************)

\* The worker's log and buffer, read together, are numbered without a gap.
LEMMA LogWithBuffer ==
  ASSUME IInv, NEW w \in Workers
  PROVE  /\ events[tx[w].order] \o tx[w].evs \in Seq(Event)
         /\ Len(events[tx[w].order]) \in Nat /\ Len(tx[w].evs) \in Nat
         /\ Len(events[tx[w].order] \o tx[w].evs)
              = Len(events[tx[w].order]) + Len(tx[w].evs)
         /\ \A i \in DOMAIN (events[tx[w].order] \o tx[w].evs) :
              (events[tx[w].order] \o tx[w].evs)[i].seq = i
<1> DEFINE o == tx[w].order
           all == events[o] \o tx[w].evs
           m == Len(events[o])
           k == Len(tx[w].evs)
<1>1. o \in Orders /\ events[o] \in Seq(Event) /\ tx[w].evs \in Seq(Event)
  BY DEF IInv, TypeOK, Request
<1>2. /\ all \in Seq(Event)
      /\ Len(all) = Len(events[o]) + Len(tx[w].evs)
      /\ \A i \in 1..Len(events[o]) + Len(tx[w].evs) :
           all[i] = IF i <= Len(events[o]) THEN events[o][i]
                                           ELSE tx[w].evs[i - Len(events[o])]
  BY <1>1, ConcatProperties
<1>3. /\ m \in Nat /\ DOMAIN events[o] = 1..m
      /\ k \in Nat /\ DOMAIN tx[w].evs = 1..k
  BY <1>1, LenProperties
<1>4. \A i \in 1..m : events[o][i].seq = i
  BY <1>1, <1>3 DEF IInv, AuditMatchesRow
<1>5. \A j \in 1..k : tx[w].evs[j].seq = m + j
  BY <1>1, <1>3 DEF IInv, BufferInv, BufferOK, Continues
<1>6. \A i \in 1..m + k : all[i].seq = i
  <2>. SUFFICES ASSUME NEW i \in 1..m + k PROVE all[i].seq = i
    OBVIOUS
  <2>. HIDE DEF all, m, k, o
  <2>1. CASE i <= m
    <3>1. i \in 1..m
      BY <1>3, <2>1
    <3>. QED
      BY <1>2, <1>4, <2>1, <3>1 DEF all, m, k, o
  <2>2. CASE ~(i <= m)
    <3>1. i - m \in 1..k /\ m + (i - m) = i
      BY <1>3, <2>2
    <3>2. all[i] = tx[w].evs[i - m]
      BY <1>2, <2>2 DEF all, m, k, o
    <3>. QED
      BY <1>5, <3>1, <3>2
  <2>. QED
    BY <2>1, <2>2
<1>7. DOMAIN all = 1..m + k
  BY <1>2, LenProperties
<1>. QED
  BY <1>2, <1>3, <1>6, <1>7

\* The number record_event computes is one past the log and the worker's own rows.
LEMMA NextSeqOfWorker ==
  ASSUME IInv, NEW w \in Workers
  PROVE  /\ NextSeq(events[tx[w].order] \o tx[w].evs) \in Nat
         /\ NextSeq(events[tx[w].order] \o tx[w].evs)
              = Len(events[tx[w].order]) + Len(tx[w].evs) + 1
<1> DEFINE all == events[tx[w].order] \o tx[w].evs
<1>1. /\ all \in Seq(Event)
      /\ Len(all) = Len(events[tx[w].order]) + Len(tx[w].evs)
      /\ \A i \in DOMAIN all : all[i].seq = i
  BY LogWithBuffer
<1>2. NextSeq(all) = Len(all) + 1 /\ Len(all) \in Nat
  BY <1>1, NextSeqOfDense, LenProperties
<1>3. NextSeq(all) \in Nat
  <2>. HIDE DEF all
  <2>. QED
    BY <1>2
<1>. QED
  BY <1>1, <1>2, <1>3

\* A committing worker has written, so it holds the row lock.
LEMMA CommitHoldsLock ==
  ASSUME IInv, NEW w \in Workers, Commit(w)
  PROVE  /\ tx[w].evs # <<>> /\ Writing(w)
         /\ lock[tx[w].order] = w
         /\ \A v \in Workers : Writing(v) /\ tx[v].order = tx[w].order => v = w
<1>1. tx[w] \in Request /\ tx[w].order \in Orders
  BY DEF IInv, TypeOK, Request
<1>2. Len(tx[w].evs) # 0
  BY <1>1 DEF Commit, IInv, RequestInv, RequestOK
<1>3. tx[w].evs # <<>>
  BY <1>2
<1>. QED
  BY <1>1, <1>3 DEF IInv, LockInv, Writing

\* The admin's form is posted of an order that has been placed.
LEMMA FormLoadTakes ==
  ASSUME TypeOK, NEW w \in Workers, FormLoad(w)
  PROVE  \E o \in Orders, obj \in Row :
           /\ Exists(o) /\ tx' = [tx EXCEPT ![w] = NewRequest(o, obj, <<>>)]
           /\ pc[w] = "idle" /\ pc' = [pc EXCEPT ![w] = "editing"]
           /\ UNCHANGED <<committed, lock>>
<1>1. PICK o \in Orders, to \in FormStatuses :
        Exists(o) /\ tx' = [tx EXCEPT ![w] = NewRequest(o, [row[o] EXCEPT !.status = to], <<>>)]
  BY DEF FormLoad
<1>2. to \in Statuses /\ row[o] \in Row
  BY OrdersAssumption DEF TypeOK
<1>3. [row[o] EXCEPT !.status = to] \in Row
  BY <1>2 DEF Row
<1> QED BY <1>1, <1>3 DEF FormLoad

\* What the worker and the others then hold.
LEMMA FormLoadHolds ==
  ASSUME TypeOK, NEW w \in Workers, FormLoad(w)
  PROVE  /\ pc'[w] = "editing" /\ tx'[w].evs = <<>> /\ tx'[w].msgs = <<>> /\ tx'[w].plan = <<>>
         /\ tx'[w].order \in Orders /\ Exists(tx'[w].order)
         /\ pc[w] = "idle" /\ UNCHANGED <<committed, lock>>
         /\ \A v \in Workers \ {w} : tx'[v] = tx[v] /\ pc'[v] = pc[v]
<1>1. PICK o \in Orders, obj \in Row :
        /\ Exists(o) /\ tx' = [tx EXCEPT ![w] = NewRequest(o, obj, <<>>)]
        /\ pc[w] = "idle" /\ pc' = [pc EXCEPT ![w] = "editing"]
        /\ UNCHANGED <<committed, lock>>
  BY FormLoadTakes
<1>2. tx'[w] = NewRequest(o, obj, <<>>)
  BY <1>1 DEF TypeOK
<1>3. /\ tx'[w].order = o /\ tx'[w].evs = <<>> /\ tx'[w].msgs = <<>> /\ tx'[w].plan = <<>>
  BY <1>2 DEF NewRequest
<1> QED BY <1>1, <1>3 DEF TypeOK

\* Saving the form writes the copy and adds its LogEntry, to one order.
LEMMA FormSaveLog ==
  ASSUME TypeOK, NEW w \in Workers, FormSave(w)
  PROVE  LET p == tx[w].order
             e == [status |-> tx[w].obj.status, after |-> Len(events[p])]
         IN /\ p \in Orders /\ e \in Edit /\ tx[w].obj \in Row
            /\ row'[p] = tx[w].obj /\ edits'[p] = Append(edits[p], e)
            /\ \A o \in Orders \ {p} : row'[o] = row[o] /\ edits'[o] = edits[o]
            /\ events' = events /\ outbox' = outbox
<1>1. /\ tx[w].order \in Orders /\ tx[w].obj \in Row /\ tx[w].obj.status \in Statuses
      /\ events[tx[w].order] \in Seq(Event)
  BY DEF TypeOK, Request, Row
<1>2. Len(events[tx[w].order]) \in Nat
  BY <1>1, LenProperties
<1> QED BY <1>1, <1>2 DEF FormSave, TypeOK, Edit

\* An idle worker has nothing buffered.
LEMMA IdleEmpty ==
  ASSUME RequestInv, NEW w \in Workers, pc[w] = "idle"
  PROVE  tx[w].evs = <<>> /\ tx[w].msgs = <<>>
<1>1. tx[w] = NoRequest(tx[w].order)
  BY DEF RequestInv, RequestOK
<1>2. /\ NoRequest(tx[w].order).evs = <<>>
      /\ NoRequest(tx[w].order).msgs = <<>>
  BY NoRequestFields
<1>. QED
  BY <1>1, <1>2

-----------------------------------------------------------------------------
(***************************************************************************)
(* Each part of the invariant is preserved.                                *)
(***************************************************************************)

\* Ending a transaction keeps the types.
LEMMA FinishTyped ==
  ASSUME TypeOK, NEW w \in Workers, Finish(w)
  PROVE  /\ lock' \in [Orders -> Workers \cup {NoWorker}]
         /\ pc' \in [Workers -> Phases]
         /\ tx' \in [Workers -> Request]
<1>1. tx[w].order \in Orders
  BY DEF Request, TypeOK
<1>. QED
  BY <1>1, NoRequestTyped DEF Finish, Phases, TypeOK

\* Every step keeps the types.
LEMMA TypeStep == ASSUME IInv, [Next]_vars PROVE TypeOK'
<1>. USE DEF TypeOK
<1>0. TypeOK
  BY DEF IInv
<1>1. ASSUME NEW o \in Orders, Place(o) PROVE TypeOK'
  <2>1. NextSeq(<<>>) = 1 /\ "placed" \in Statuses
    BY DEF NextSeq, Statuses, Transitions
  <2>2. <<[seq |-> NextSeq(<<>>), from |-> "placed", to |-> "placed"]>> \in Seq(Event)
    BY <2>1 DEF Event
  <2>. QED
    BY <1>0, <1>1, <2>2 DEF Place
<1>2. ASSUME NEW w \in Workers, Load(w) PROVE TypeOK'
  <2>1. PICK o \in Orders, actor \in Actors :
          \E plan \in Asks(actor, row[o]) :
            tx' = [tx EXCEPT ![w] = NewRequest(o, row[o], plan)]
    BY <1>2 DEF Load
  <2>2. PICK plan \in Asks(actor, row[o]) :
          tx' = [tx EXCEPT ![w] = NewRequest(o, row[o], plan)]
    BY <2>1
  <2>3. plan \in Seq(Statuses) /\ row[o] \in Row
    BY <1>0, AsksTyped
  <2>4. NewRequest(o, row[o], plan) \in Request
    BY <2>3, NewRequestTyped
  <2>. QED
    BY <1>0, <1>2, <2>2, <2>4 DEF Load, Phases
<1>3. ASSUME NEW w \in Workers, Update(w) PROVE TypeOK'
  <2>1. tx[w] \in Request /\ tx[w].order \in Orders
    BY <1>0 DEF Request
  <2>2. Head(tx[w].plan) \in Statuses
    BY <1>3, CanTyped DEF Update
  <2>3. Stamp(tx[w].obj, Head(tx[w].plan)) \in Row /\ tx[w].obj.status \in Statuses
    BY <2>1, <2>2, StampTyped DEF Request, Row
  <2>4. tx' \in [Workers -> Request]
    BY <1>0, <1>3, <2>1, <2>3 DEF Update, Request
  <2>. QED
    BY <1>0, <1>3, <2>1, <2>4 DEF Update, Acquire, Phases
<1>4. ASSUME NEW w \in Workers, Refuse(w) PROVE TypeOK'
  BY <1>0, <1>4, FinishTyped DEF Refuse
<1>5. ASSUME NEW w \in Workers, ReadSeq(w) PROVE TypeOK'
  <2>1. tx[w] \in Request /\ tx[w].order \in Orders
    BY <1>0 DEF Request
  <2>2. NextSeq(events[tx[w].order] \o tx[w].evs) \in Nat
    BY NextSeqOfWorker
  <2>3. tx' \in [Workers -> Request]
    BY <1>0, <1>5, <2>1, <2>2 DEF ReadSeq, Request
  <2>. QED
    BY <1>0, <1>5, <2>3 DEF ReadSeq, Phases
<1>6. ASSUME NEW w \in Workers, Insert(w) PROVE TypeOK'
  <2> DEFINE to == Head(tx[w].plan)
             ev == [seq |-> tx[w].seq, from |-> tx[w].obj.status, to |-> to]
             msg == [from |-> tx[w].was, to |-> to]
  <2>1. tx[w] \in Request /\ tx[w].plan # <<>>
    BY <1>0, <1>6 DEF Insert, IInv, RequestInv, RequestOK
  <2>2. to \in Statuses /\ Tail(tx[w].plan) \in Seq(Statuses)
    BY <2>1, HeadTailProperties DEF Request
  <2>3. ev \in Event /\ msg \in Message
    BY <2>1, <2>2 DEF Request, Event, Message, Row
  <2>4. Append(tx[w].evs, ev) \in Seq(Event) /\ Append(tx[w].msgs, msg) \in Seq(Message)
    BY <2>1, <2>3 DEF Request
  <2>5. tx' \in [Workers -> Request]
    BY <1>0, <1>6, <2>1, <2>2, <2>4 DEF Insert, Request
  <2>. QED
    BY <1>0, <1>6, <2>5 DEF Insert, Phases
<1>7. ASSUME NEW w \in Workers, Commit(w) PROVE TypeOK'
  <2>1. tx[w] \in Request /\ tx[w].order \in Orders
    BY <1>0 DEF Request
  <2>2. /\ tx[w].obj \in Row
        /\ events[tx[w].order] \o tx[w].evs \in Seq(Event)
        /\ outbox[tx[w].order] \o tx[w].msgs \in Seq(Message)
    BY <1>0, <2>1, ConcatProperties DEF Request
  <2>. QED
    BY <1>0, <1>7, <2>1, <2>2, FinishTyped DEF Commit
<1>8. ASSUME NEW w \in Workers, Crash(w) PROVE TypeOK'
  BY <1>0, <1>8, FinishTyped DEF Crash
<1>9. ASSUME NEW w \in Workers, FormLoad(w) PROVE TypeOK'
  <2>1. PICK o \in Orders, obj \in Row :
          /\ tx' = [tx EXCEPT ![w] = NewRequest(o, obj, <<>>)]
          /\ pc' = [pc EXCEPT ![w] = "editing"] /\ UNCHANGED <<committed, lock>>
    BY <1>0, <1>9, FormLoadTakes
  <2>2. <<>> \in Seq(Statuses)
    BY EmptySeq
  <2>3. NewRequest(o, obj, <<>>) \in Request
    BY <2>2, NewRequestTyped
  <2> QED BY <1>0, <2>1, <2>3 DEF Phases
<1>10. ASSUME NEW w \in Workers, FormSave(w) PROVE TypeOK'
  <2> DEFINE p == tx[w].order
             e == [status |-> tx[w].obj.status, after |-> Len(events[p])]
  <2>1. p \in Orders /\ e \in Edit /\ tx[w].obj \in Row /\ edits[p] \in Seq(Edit)
    BY <1>0, <1>10, FormSaveLog
  <2>2. Append(edits[p], e) \in Seq(Edit)
    BY <2>1, AppendProperties
  <2>3. row' = [row EXCEPT ![p] = tx[w].obj] /\ edits' = [edits EXCEPT ![p] = Append(@, e)]
    BY <1>10 DEF FormSave
  <2> HIDE DEF e, p
  <2>4. row' \in [Orders -> Row] /\ edits' \in [Orders -> Seq(Edit)]
    BY <1>0, <2>1, <2>2, <2>3
  <2> QED BY <1>0, <1>10, <2>4, FinishTyped DEF FormSave
<1>11. CASE AtBound \/ UNCHANGED vars
  BY <1>0, <1>11 DEF AtBound, vars
<1>. QED
  BY <1>1, <1>2, <1>3, <1>4, <1>5, <1>6, <1>7, <1>8, <1>9, <1>10, <1>11 DEF Next, Step

-----------------------------------------------------------------------------
\* Finish gives back every lock of the worker and leaves it without a request.
LEMMA FinishLock ==
  ASSUME TypeOK, LockInv, NEW w \in Workers, Finish(w)
  PROVE  LockInv'
<1>1. SUFFICES ASSUME NEW v \in Workers, NEW o \in Orders
               PROVE  (lock[o] = v <=> Writing(v) /\ tx[v].order = o)'
  BY DEF LockInv
<1>2. lock'[o] = IF lock[o] = w THEN NoWorker ELSE lock[o]
  BY DEF Finish
<1>3. CASE v = w
  <2>1. pc'[w] = "idle" /\ tx'[w].evs = <<>>
    BY DEF Finish, TypeOK, NoRequest, NewRequest
  <2>2. lock'[o] # w
    BY <1>2, OrdersAssumption
  <2>. QED
    BY <1>3, <2>1, <2>2 DEF Writing
<1>4. CASE v # w
  <2>1. pc'[v] = pc[v] /\ tx'[v] = tx[v]
    BY <1>4 DEF Finish, TypeOK
  <2>2. lock'[o] = v <=> lock[o] = v
    BY <1>2, <1>4, OrdersAssumption
  <2>. QED
    BY <2>1, <2>2 DEF LockInv, Writing
<1>. QED
  BY <1>3, <1>4

\* A row lock is held by whoever has written the row, and by nobody else.
LEMMA LockStep == ASSUME IInv, [Next]_vars PROVE LockInv'
<1>0. TypeOK /\ LockInv /\ RequestInv
  BY DEF IInv
<1>1. ASSUME NEW o \in Orders, Place(o) PROVE LockInv'
  BY <1>0, <1>1 DEF Place, LockInv, Writing
<1>2. ASSUME NEW w \in Workers, Load(w) PROVE LockInv'
  <2>1. /\ \A v \in Workers \ {w} : tx'[v] = tx[v] /\ pc'[v] = pc[v]
        /\ pc'[w] = "loaded" /\ tx'[w].evs = <<>>
        /\ lock' = lock
    BY <1>0, <1>2 DEF Load, TypeOK, NewRequest
  <2>2. pc[w] = "idle" /\ tx[w].evs = <<>>
    BY <1>0, <1>2, IdleEmpty DEF Load
  <2>. QED
    BY <1>0, <2>1, <2>2 DEF LockInv, Writing
<1>3. ASSUME NEW w \in Workers, Update(w) PROVE LockInv'
  <2> DEFINE p == tx[w].order
  <2>1. /\ \A v \in Workers \ {w} : tx'[v] = tx[v] /\ pc'[v] = pc[v]
        /\ pc'[w] = "updated" /\ tx'[w].order = p
        /\ lock' = [lock EXCEPT ![p] = w]
        /\ lock[p] \in {NoWorker, w} /\ p \in Orders
    BY <1>0, <1>3 DEF Update, Acquire, TypeOK, Request
  <2>2. SUFFICES ASSUME NEW v \in Workers, NEW o \in Orders
                 PROVE  (lock[o] = v <=> Writing(v) /\ tx[v].order = o)'
    BY DEF LockInv
  <2>3. lock'[o] = IF o = p THEN w ELSE lock[o]
    BY <1>0, <2>1 DEF TypeOK
  <2>4. CASE v = w
    BY <1>0, <2>1, <2>3, <2>4 DEF LockInv, Writing
  <2>5. CASE v # w
    <3>1. Writing(v)' = Writing(v) /\ tx'[v].order = tx[v].order
      BY <2>1, <2>5 DEF Writing
    <3>2. lock[p] # v
      BY <2>1, <2>5, OrdersAssumption
    <3>. QED
      BY <1>0, <2>1, <2>3, <2>5, <3>1, <3>2 DEF LockInv
  <2>. QED
    BY <2>4, <2>5
<1>4. ASSUME NEW w \in Workers, Refuse(w) \/ Commit(w) \/ Crash(w) \/ FormSave(w) PROVE LockInv'
  BY <1>0, <1>4, FinishLock DEF Refuse, Commit, Crash, FormSave
<1>5. ASSUME NEW w \in Workers, ReadSeq(w) PROVE LockInv'
  <2>1. /\ \A v \in Workers \ {w} : tx'[v] = tx[v] /\ pc'[v] = pc[v]
        /\ pc[w] = "updated" /\ pc'[w] = "numbered"
        /\ tx'[w].order = tx[w].order /\ lock' = lock
    BY <1>0, <1>5 DEF ReadSeq, TypeOK, Request
  <2>. QED
    BY <1>0, <2>1 DEF LockInv, Writing
<1>6. ASSUME NEW w \in Workers, Insert(w) PROVE LockInv'
  <2>1. /\ \A v \in Workers \ {w} : tx'[v] = tx[v] /\ pc'[v] = pc[v]
        /\ pc[w] = "numbered"
        /\ tx'[w].order = tx[w].order /\ lock' = lock
    BY <1>0, <1>6 DEF Insert, TypeOK, Request
  <2>2. tx'[w].evs # <<>>
    <3>1. tx[w].evs \in Seq(Event)
      BY <1>0 DEF TypeOK, Request
    <3>2. \A e : Append(tx[w].evs, e) # <<>>
      BY <3>1
    <3>. QED
      BY <1>0, <1>6, <3>2 DEF Insert, TypeOK, Request
  <2>. QED
    BY <1>0, <2>1, <2>2 DEF LockInv, Writing
<1>7. ASSUME NEW w \in Workers, FormLoad(w) PROVE LockInv'
  <2>1. /\ \A v \in Workers \ {w} : tx'[v] = tx[v] /\ pc'[v] = pc[v]
        /\ pc'[w] = "editing" /\ tx'[w].evs = <<>> /\ lock' = lock /\ pc[w] = "idle"
    BY <1>0, <1>7, FormLoadHolds
  <2>2. tx[w].evs = <<>>
    BY <1>0, <2>1, IdleEmpty
  <2> QED BY <1>0, <2>1, <2>2 DEF LockInv, Writing
<1>8. CASE AtBound \/ UNCHANGED vars
  BY <1>0, <1>8 DEF AtBound, vars, LockInv, Writing
<1>. QED
  BY <1>1, <1>2, <1>3, <1>4, <1>5, <1>6, <1>7, <1>8 DEF Next, Step

-----------------------------------------------------------------------------
\* An order that has been placed keeps its log.
LEMMA ExistsStable ==
  ASSUME IInv, [Next]_vars, NEW o \in Orders, Exists(o)
  PROVE  Exists(o)'
<1>0. TypeOK
  BY DEF IInv
<1>1. ASSUME NEW p \in Orders, Place(p) PROVE Exists(o)'
  BY <1>0, <1>1 DEF Place, Exists, TypeOK
<1>2. ASSUME NEW w \in Workers, Commit(w) PROVE Exists(o)'
  <2>1. events[o] \in Seq(Event) /\ tx[w].evs \in Seq(Event)
    BY <1>0 DEF TypeOK, Request
  <2>2. events[o] \o tx[w].evs # <<>>
    BY <2>1, ConcatEmptySeq, ConcatEqualIffEmpty, ConcatSimplifications DEF Exists
  <2>. QED
    BY <1>0, <1>2, <2>2 DEF Commit, Exists, TypeOK
<1>3. CASE events' = events
  BY <1>3 DEF Exists
<1>. QED
  BY <1>1, <1>2, <1>3
  DEF Next, Step, vars, Load, Update, Refuse, ReadSeq, Insert, FormLoad, FormSave, Crash, AtBound

\* Nothing is written to an order that has not been placed.
LEMMA PlacedStep == ASSUME IInv, [Next]_vars PROVE PlacedInv'
<1>0. TypeOK /\ PlacedInv /\ RequestInv
  BY DEF IInv
<1>1. SUFFICES ASSUME NEW o \in Orders, ~Exists(o)' PROVE outbox'[o] = <<>> /\ row'[o] = NewRow
  BY DEF PlacedInv
<1>2. ~Exists(o) /\ outbox[o] = <<>> /\ row[o] = NewRow
  BY <1>0, <1>1, ExistsStable DEF PlacedInv
<1>3. ASSUME NEW p \in Orders, Place(p) PROVE outbox'[o] = <<>> /\ row'[o] = NewRow
  BY <1>2, <1>3 DEF Place
<1>4. ASSUME NEW w \in Workers, Commit(w) PROVE outbox'[o] = <<>> /\ row'[o] = NewRow
  <2>1. Exists(tx[w].order)
    BY <1>0, <1>4 DEF Commit, RequestInv, RequestOK
  <2>. QED
    BY <1>0, <1>2, <1>4, <2>1 DEF Commit, TypeOK
<1>5. ASSUME NEW w \in Workers, FormSave(w) PROVE outbox'[o] = <<>> /\ row'[o] = NewRow
  <2>1. Exists(tx[w].order)
    BY <1>0, <1>5 DEF FormSave, RequestInv, RequestOK
  <2>. QED
    BY <1>0, <1>2, <1>5, <2>1, FormSaveLog
<1>. QED
  BY <1>2, <1>3, <1>4, <1>5
  DEF Next, Step, vars, Load, Update, Refuse, ReadSeq, Insert, FormLoad, Crash, AtBound

-----------------------------------------------------------------------------
\* A request that a step does not touch stays well formed.
LEMMA RequestFrame ==
  ASSUME IInv, [Next]_vars, NEW v \in Workers, tx'[v] = tx[v], pc'[v] = pc[v]
  PROVE  RequestOK(v)'
<1>1. TypeOK /\ RequestOK(v) /\ tx[v].order \in Orders
  BY DEF IInv, RequestInv, TypeOK, Request
<1>2. Exists(tx[v].order) => Exists(tx[v].order)'
  BY <1>1, ExistsStable
<1>. QED
  BY <1>1, <1>2 DEF RequestOK, Exists

\* A worker that has finished is idle with an empty request.
LEMMA FinishRequest ==
  ASSUME TypeOK, NEW w \in Workers, Finish(w)
  PROVE  RequestOK(w)' /\ BufferOK(w)' /\ \A v \in Workers \ {w} : tx'[v] = tx[v] /\ pc'[v] = pc[v]
<1> DEFINE p == tx[w].order
<1>1. pc'[w] = "idle" /\ tx'[w] = NoRequest(p)
  BY DEF Finish, TypeOK
<1>2. /\ NoRequest(p).order = p
      /\ NoRequest(p).evs = <<>> /\ NoRequest(p).msgs = <<>>
  BY NoRequestFields
<1>3. \A v \in Workers \ {w} : tx'[v] = tx[v] /\ pc'[v] = pc[v]
  BY DEF Finish, TypeOK
<1>4. tx'[w].order = p /\ tx'[w].evs = <<>> /\ tx'[w].msgs = <<>>
  BY <1>1, <1>2
<1>5. RequestOK(w)'
  BY <1>1, <1>4 DEF RequestOK
<1>6. BufferOK(w)'
  BY <1>1, <1>4 DEF BufferOK, Continues
<1>. QED
  BY <1>3, <1>5, <1>6

\* Every request stays well formed.
LEMMA RequestStep == ASSUME IInv, [Next]_vars PROVE RequestInv'
<1>0. TypeOK /\ RequestInv
  BY DEF IInv
<1>1. SUFFICES ASSUME NEW v \in Workers PROVE RequestOK(v)'
  BY DEF RequestInv
<1>2. CASE tx'[v] = tx[v] /\ pc'[v] = pc[v]
  BY <1>2, RequestFrame
<1>3. ASSUME NEW w \in Workers, Load(w) PROVE RequestOK(v)'
  <2>1. PICK o \in Orders, actor \in Actors :
          /\ Exists(o)
          /\ \E plan \in Asks(actor, row[o]) : tx' = [tx EXCEPT ![w] = NewRequest(o, row[o], plan)]
    BY <1>3 DEF Load
  <2>2. PICK plan \in Asks(actor, row[o]) : tx' = [tx EXCEPT ![w] = NewRequest(o, row[o], plan)]
    BY <2>1
  <2>3. plan # <<>>
    BY <1>0, AsksTyped DEF TypeOK
  <2>4. CASE v = w
    <3>1. pc'[v] = "loaded" /\ tx'[v] = NewRequest(o, row[o], plan) /\ events' = events
      BY <1>0, <1>3, <2>2, <2>4 DEF Load, TypeOK
    <3>2. tx'[v].order = o /\ tx'[v].evs = <<>> /\ tx'[v].plan = plan
      BY <3>1 DEF NewRequest
    <3>. QED
      BY <2>1, <2>3, <3>1, <3>2 DEF RequestOK, Exists
  <2>5. CASE v # w
    BY <1>0, <1>2, <1>3, <2>2, <2>5 DEF Load, TypeOK
  <2>. QED
    BY <2>4, <2>5
<1>4. ASSUME NEW w \in Workers, Update(w) PROVE RequestOK(v)'
  <2>1. CASE v = w
    <3> DEFINE t == tx[w]
               to == Head(t.plan)
    <3>1. /\ t \in Request /\ t.plan # <<>> /\ Can(t.obj.status, to) /\ Exists(t.order)
      BY <1>0, <1>4 DEF Update, Pending, TypeOK, RequestInv, RequestOK
    <3>2. /\ pc'[w] = "updated" /\ events' = events
          /\ tx'[w].order = t.order /\ tx'[w].plan = t.plan /\ tx'[w].was = t.obj.status
          /\ tx'[w].obj = Stamp(t.obj, to)
      BY <1>0, <1>4, <3>1 DEF Update, TypeOK, Request
    <3>3. tx'[w].obj.status = to
      BY <3>2 DEF Stamp
    <3>. QED
      BY <2>1, <3>1, <3>2, <3>3 DEF RequestOK, Exists
  <2>2. CASE v # w
    BY <1>0, <1>2, <1>4, <2>2 DEF Update, TypeOK
  <2>. QED
    BY <2>1, <2>2
<1>5. ASSUME NEW w \in Workers, Refuse(w) \/ Commit(w) \/ Crash(w) \/ FormSave(w)
      PROVE  RequestOK(v)'
  BY <1>0, <1>2, <1>5, FinishRequest DEF Refuse, Commit, Crash, FormSave
<1>6. ASSUME NEW w \in Workers, ReadSeq(w) PROVE RequestOK(v)'
  <2>1. CASE v = w
    <3>1. /\ pc[w] = "updated" /\ pc'[w] = "numbered" /\ events' = events
          /\ tx'[w].order = tx[w].order /\ tx'[w].plan = tx[w].plan
          /\ tx'[w].obj = tx[w].obj /\ tx'[w].was = tx[w].was
      BY <1>0, <1>6 DEF ReadSeq, TypeOK, Request
    <3>. QED
      BY <1>0, <2>1, <3>1 DEF RequestInv, RequestOK, Exists
  <2>2. CASE v # w
    BY <1>0, <1>2, <1>6, <2>2 DEF ReadSeq, TypeOK
  <2>. QED
    BY <2>1, <2>2
<1>7. ASSUME NEW w \in Workers, Insert(w) PROVE RequestOK(v)'
  <2>1. CASE v = w
    <3> DEFINE t == tx[w]
               ev == [seq |-> t.seq, from |-> t.obj.status, to |-> Head(t.plan)]
    <3>1. /\ pc[w] = "numbered" /\ pc'[w] = "loaded" /\ events' = events
          /\ tx'[w].order = t.order /\ tx'[w].obj = t.obj
          /\ tx'[w].evs = Append(t.evs, ev)
      BY <1>0, <1>7 DEF Insert, TypeOK, Request
    <3>2. t.evs \in Seq(Event) /\ Len(t.evs) \in Nat
      BY <1>0, LenProperties DEF TypeOK, Request
    <3>3. Len(tx'[w].evs) = Len(t.evs) + 1 /\ tx'[w].evs[Len(t.evs) + 1] = ev
      BY <3>1, <3>2
    <3>4. t.obj.status = ev.to /\ Exists(t.order)
      BY <1>0, <3>1 DEF RequestInv, RequestOK
    <3>. QED
      BY <2>1, <3>1, <3>2, <3>3, <3>4 DEF RequestOK, Exists
  <2>2. CASE v # w
    BY <1>0, <1>2, <1>7, <2>2 DEF Insert, TypeOK
  <2>. QED
    BY <2>1, <2>2
<1>8. ASSUME NEW w \in Workers, FormLoad(w) PROVE RequestOK(v)'
  <2>1. CASE v = w
    <3>1. /\ pc'[w] = "editing" /\ Exists(tx'[w].order) /\ events' = events
      BY <1>0, <1>8, FormLoadHolds
    <3> QED BY <2>1, <3>1 DEF RequestOK, Exists
  <2>2. CASE v # w
    BY <1>0, <1>2, <1>8, <2>2, FormLoadHolds
  <2> QED BY <2>1, <2>2
<1>9. CASE (\E o \in Orders : Place(o)) \/ AtBound \/ UNCHANGED vars
  BY <1>2, <1>9 DEF Place, AtBound, vars
<1>. QED
  BY <1>3, <1>4, <1>5, <1>6, <1>7, <1>8, <1>9 DEF Next, Step

-----------------------------------------------------------------------------
\* A buffer stays right while its order's log does: nobody else can commit to an
\* order that the worker is writing.
LEMMA BufferFrame ==
  ASSUME IInv, [Next]_vars, NEW v \in Workers, tx'[v] = tx[v], pc'[v] = pc[v]
  PROVE  BufferOK(v)'
<1> DEFINE p == tx[v].order
<1>0. TypeOK /\ BufferOK(v) /\ RequestInv /\ LockInv /\ p \in Orders
  BY DEF IInv, BufferInv, TypeOK, Request
<1>1. CASE events'[p] = events[p]
  BY <1>0, <1>1 DEF BufferOK
<1>2. CASE ~Writing(v)
  <2>1. tx[v].evs = <<>> /\ pc[v] # "numbered"
    BY <1>2 DEF Writing
  <2>. QED
    BY <1>0, <2>1 DEF BufferOK, Continues
<1>3. ASSUME Writing(v), events'[p] # events[p] PROVE FALSE
  <2>1. Exists(p)
    BY <1>0, <1>3, IdleEmpty DEF RequestInv, RequestOK, Writing
  <2>2. ASSUME NEW o \in Orders, Place(o) PROVE FALSE
    BY <1>0, <1>3, <2>1, <2>2 DEF Place, TypeOK
  <2>3. ASSUME NEW w \in Workers, Commit(w) PROVE FALSE
    <3>1. p = tx[w].order
      BY <1>0, <1>3, <2>3 DEF Commit, TypeOK
    <3>2. v = w
      BY <1>3, <2>3, <3>1, CommitHoldsLock
    <3>3. pc'[w] = "idle" /\ pc[w] = "loaded"
      BY <1>0, <2>3 DEF Commit, Finish, TypeOK
    <3>. QED
      BY <3>2, <3>3
  <2>. QED
    BY <1>3, <2>2, <2>3
    DEF Next, Step, vars, Load, Update, Refuse, ReadSeq, Insert, FormLoad, FormSave, Crash, AtBound
<1>. QED
  BY <1>1, <1>2, <1>3

\* One more row, with the next number, and its message continue the log too.
LEMMA ContinuesAppend ==
  ASSUME NEW base \in Nat, NEW evs \in Seq(Event), NEW msgs \in Seq(Message),
         NEW ev \in Event, NEW msg \in Message,
         Continues(base, evs, msgs),
         ev.seq = base + Len(evs) + 1, msg.to = ev.to, Can(msg.from, msg.to)
  PROVE  Continues(base, Append(evs, ev), Append(msgs, msg))
<1>1. PICK n \in Nat : n = Len(evs) /\ n = Len(msgs)
  BY DEF Continues
<1>2. /\ Len(Append(evs, ev)) = n + 1 /\ Append(evs, ev)[n + 1] = ev
      /\ Len(Append(msgs, msg)) = n + 1 /\ Append(msgs, msg)[n + 1] = msg
      /\ \A j \in 1..n : Append(evs, ev)[j] = evs[j] /\ Append(msgs, msg)[j] = msgs[j]
  <2>1. /\ Len(Append(evs, ev)) = n + 1 /\ Append(evs, ev)[n + 1] = ev
        /\ \A j \in 1..n : Append(evs, ev)[j] = evs[j]
    <3>1. /\ Len(Append(evs, ev)) = Len(evs) + 1 /\ Append(evs, ev)[Len(evs) + 1] = ev
          /\ \A j \in 1..Len(evs) : Append(evs, ev)[j] = evs[j]
      BY AppendProperties
    <3>. QED
      BY <1>1, <3>1
  <2>2. /\ Len(Append(msgs, msg)) = n + 1 /\ Append(msgs, msg)[n + 1] = msg
        /\ \A j \in 1..n : Append(msgs, msg)[j] = msgs[j]
    BY <1>1, AppendProperties
  <2>. QED
    BY <2>1, <2>2
<1>3. \A j \in 1..n : /\ evs[j].seq = base + j
                      /\ msgs[j].to = evs[j].to
                      /\ Can(msgs[j].from, msgs[j].to)
  BY <1>1 DEF Continues
<1>4. ev.seq = base + (n + 1)
  BY <1>1
<1>5. ASSUME NEW j \in 1..n + 1
      PROVE  /\ Append(evs, ev)[j].seq = base + j
             /\ Append(msgs, msg)[j].to = Append(evs, ev)[j].to
             /\ Can(Append(msgs, msg)[j].from, Append(msgs, msg)[j].to)
  <2>1. CASE j = n + 1
    BY <1>2, <1>4, <2>1
  <2>2. CASE j \in 1..n
    BY <1>2, <1>3, <2>2
  <2>3. j = n + 1 \/ j \in 1..n
    OBVIOUS
  <2>. QED
    BY <2>1, <2>2, <2>3
<1>. QED
  BY <1>2, <1>5 DEF Continues

\* What transactions have buffered goes on continuing the committed logs.
LEMMA BufferStep == ASSUME IInv, [Next]_vars PROVE BufferInv'
<1>0. TypeOK /\ RequestInv /\ BufferInv
  BY DEF IInv
<1>1. SUFFICES ASSUME NEW v \in Workers PROVE BufferOK(v)'
  BY DEF BufferInv
<1>2. CASE tx'[v] = tx[v] /\ pc'[v] = pc[v]
  BY <1>2, BufferFrame
<1>3. ASSUME NEW w \in Workers, Load(w) PROVE BufferOK(v)'
  <2>1. CASE v = w
    <3>1. pc'[w] = "loaded" /\ tx'[w].evs = <<>> /\ tx'[w].msgs = <<>>
      BY <1>0, <1>3 DEF Load, TypeOK, NewRequest
    <3>. QED
      BY <2>1, <3>1 DEF BufferOK, Continues
  <2>2. CASE v # w
    BY <1>0, <1>2, <1>3, <2>2 DEF Load, TypeOK
  <2>. QED
    BY <2>1, <2>2
<1>4. ASSUME NEW w \in Workers, Update(w) PROVE BufferOK(v)'
  <2>1. CASE v = w
    <3>1. /\ pc'[w] = "updated" /\ events' = events /\ tx'[w].order = tx[w].order
          /\ tx'[w].evs = tx[w].evs /\ tx'[w].msgs = tx[w].msgs
      BY <1>0, <1>4 DEF Update, TypeOK, Request
    <3>2. BufferOK(w)
      BY <1>0 DEF BufferInv
    <3>. QED
      BY <2>1, <3>1, <3>2 DEF BufferOK
  <2>2. CASE v # w
    BY <1>0, <1>2, <1>4, <2>2 DEF Update, TypeOK
  <2>. QED
    BY <2>1, <2>2
<1>5. ASSUME NEW w \in Workers, Refuse(w) \/ Commit(w) \/ Crash(w) \/ FormSave(w)
      PROVE  BufferOK(v)'
  BY <1>0, <1>2, <1>5, FinishRequest DEF Refuse, Commit, Crash, FormSave
<1>6. ASSUME NEW w \in Workers, ReadSeq(w) PROVE BufferOK(v)'
  <2>1. CASE v = w
    <3>1. /\ pc'[w] = "numbered" /\ events' = events /\ tx'[w].order = tx[w].order
          /\ tx'[w].evs = tx[w].evs /\ tx'[w].msgs = tx[w].msgs
          /\ tx'[w].seq = NextSeq(events[tx[w].order] \o tx[w].evs)
      BY <1>0, <1>6 DEF ReadSeq, TypeOK, Request
    <3>2. tx'[w].seq = Len(events[tx[w].order]) + Len(tx[w].evs) + 1
      BY <3>1, NextSeqOfWorker
    <3>3. BufferOK(w)
      BY <1>0 DEF BufferInv
    <3>. QED
      BY <2>1, <3>1, <3>2, <3>3 DEF BufferOK
  <2>2. CASE v # w
    BY <1>0, <1>2, <1>6, <2>2 DEF ReadSeq, TypeOK
  <2>. QED
    BY <2>1, <2>2
<1>7. ASSUME NEW w \in Workers, Insert(w) PROVE BufferOK(v)'
  <2>1. CASE v = w
    <3> DEFINE t == tx[w]
               to == Head(t.plan)
               ev == [seq |-> t.seq, from |-> t.obj.status, to |-> to]
               msg == [from |-> t.was, to |-> to]
               base == Len(events[t.order])
    <3>1. /\ pc[w] = "numbered" /\ pc'[w] = "loaded" /\ events' = events
          /\ tx'[w].order = t.order
          /\ tx'[w].evs = Append(t.evs, ev) /\ tx'[w].msgs = Append(t.msgs, msg)
      BY <1>0, <1>7 DEF Insert, TypeOK, Request
    <3>2. /\ t \in Request /\ t.evs \in Seq(Event) /\ t.msgs \in Seq(Message)
          /\ base \in Nat
      BY <1>0, LenProperties DEF TypeOK, Request
    <3>3. to \in Statuses /\ t.obj.status = to /\ Can(t.was, to)
      BY <1>0, <3>1, CanTyped DEF RequestInv, RequestOK
    <3>4. ev \in Event /\ msg \in Message
      BY <3>2, <3>3 DEF Request, Event, Message
    <3>5. BufferOK(w)
      BY <1>0 DEF BufferInv
    <3>6. Continues(base, t.evs, t.msgs) /\ t.seq = base + Len(t.evs) + 1
      BY <3>1, <3>5 DEF BufferOK
    <3>7. ev.seq = t.seq /\ msg.to = ev.to /\ msg.from = t.was /\ msg.to = to
      OBVIOUS
    <3>8. Continues(base, Append(t.evs, ev), Append(t.msgs, msg))
      BY <3>2, <3>3, <3>4, <3>6, <3>7, ContinuesAppend
    <3>. QED
      BY <2>1, <3>1, <3>8 DEF BufferOK
  <2>2. CASE v # w
    BY <1>0, <1>2, <1>7, <2>2 DEF Insert, TypeOK
  <2>. QED
    BY <2>1, <2>2
<1>8. ASSUME NEW w \in Workers, FormLoad(w) PROVE BufferOK(v)'
  <2>1. CASE v = w
    <3>1. pc'[w] = "editing" /\ tx'[w].evs = <<>> /\ tx'[w].msgs = <<>>
      BY <1>0, <1>8, FormLoadHolds
    <3> QED BY <2>1, <3>1 DEF BufferOK, Continues
  <2>2. CASE v # w
    BY <1>0, <1>2, <1>8, <2>2, FormLoadHolds
  <2> QED BY <2>1, <2>2
<1>9. CASE (\E o \in Orders : Place(o)) \/ AtBound \/ UNCHANGED vars
  BY <1>2, <1>9 DEF Place, AtBound, vars
<1>. QED
  BY <1>3, <1>4, <1>5, <1>6, <1>7, <1>8, <1>9 DEF Next, Step

-----------------------------------------------------------------------------
\* Only Place and Commit touch the logs.
LEMMA LogFrame ==
  ASSUME [Next]_vars, \A o \in Orders : ~Place(o), \A w \in Workers : ~Commit(w)
  PROVE  UNCHANGED <<events, outbox>>
BY DEF Next, Step, vars, Load, Update, Refuse, ReadSeq, Insert, FormLoad, FormSave, Crash, AtBound

\* Only they and FormSave touch what is committed.
LEMMA CommittedFrame ==
  ASSUME [Next]_vars, \A o \in Orders : ~Place(o),
         \A w \in Workers : ~Commit(w) /\ ~FormSave(w)
  PROVE  UNCHANGED committed
BY DEF Next, Step, vars, Load, Update, Refuse, ReadSeq, Insert, FormLoad, Crash, AtBound

\* Placing an order starts its log with event number 1.
LEMMA PlaceLog ==
  ASSUME TypeOK, NEW p \in Orders, Place(p)
  PROVE  /\ events'[p] = <<[seq |-> 1, from |-> "placed", to |-> "placed"]>>
         /\ \A o \in Orders \ {p} : events'[o] = events[o]
         /\ row' = row /\ outbox' = outbox /\ edits' = edits
BY DEF Place, TypeOK, NextSeq

\* A commit appends the worker's buffer and writes its copy of the row.
LEMMA CommitLog ==
  ASSUME TypeOK, NEW w \in Workers, Commit(w)
  PROVE  LET p == tx[w].order IN
         /\ p \in Orders
         /\ events'[p] = events[p] \o tx[w].evs
         /\ outbox'[p] = outbox[p] \o tx[w].msgs
         /\ row'[p] = tx[w].obj /\ edits' = edits
         /\ \A o \in Orders \ {p} : /\ events'[o] = events[o]
                                    /\ outbox'[o] = outbox[o]
                                    /\ row'[o] = row[o]
BY DEF Commit, TypeOK, Request

\* A log only grows.
LEMMA LogGrows ==
  ASSUME IInv, [Next]_vars, NEW o \in Orders
  PROVE  Len(events[o]) \in Nat /\ Len(events'[o]) \in Nat /\ Len(events[o]) <= Len(events'[o])
<1>0. TypeOK /\ events[o] \in Seq(Event) /\ Len(events[o]) \in Nat
  BY LenProperties DEF IInv, TypeOK
<1>1. CASE events'[o] = events[o]
  BY <1>0, <1>1
<1>2. ASSUME NEW p \in Orders, Place(p), events'[o] # events[o]
      PROVE  Len(events[o]) = 0 /\ Len(events'[o]) = 1
  BY <1>0, <1>2, PlaceLog DEF Place, Exists
<1>3. ASSUME NEW w \in Workers, Commit(w), events'[o] # events[o]
      PROVE  Len(events'[o]) \in Nat /\ Len(events[o]) <= Len(events'[o])
  <2>1. o = tx[w].order /\ events'[o] = events[o] \o tx[w].evs
    BY <1>0, <1>3, CommitLog
  <2>2. PICK m \in Nat, k \in Nat : m = Len(events[o]) /\ Len(events[o] \o tx[w].evs) = m + k
    BY <2>1, LogWithBuffer
  <2> QED BY <2>1, <2>2
<1> QED BY <1>0, <1>1, <1>2, <1>3, LogFrame

\* The rows that a LogEntry counted stay.
LEMMA EditStep == ASSUME IInv, [Next]_vars PROVE EditInv'
<1>0. TypeOK /\ EditInv /\ RequestInv
  BY DEF IInv
<1>1. SUFFICES ASSUME NEW o \in Orders, NEW i \in DOMAIN edits'[o]
               PROVE  edits'[o][i].after \in 1..Len(events'[o])
  BY DEF EditInv
<1>2. PICK m \in Nat, n \in Nat : m = Len(events[o]) /\ n = Len(events'[o]) /\ m <= n
  BY LogGrows
<1>3. ASSUME edits'[o] = edits[o] PROVE edits'[o][i].after \in 1..n
  BY <1>0, <1>2, <1>3 DEF EditInv
<1>4. ASSUME NEW w \in Workers, FormSave(w), o = tx[w].order
      PROVE  edits'[o][i].after \in 1..n
  <2> DEFINE e == [status |-> tx[w].obj.status, after |-> Len(events[o])]
  <2>1. /\ e \in Edit /\ edits'[o] = Append(edits[o], e) /\ events' = events
        /\ edits[o] \in Seq(Edit)
    BY <1>0, <1>4, FormSaveLog DEF TypeOK
  <2>2. m # 0 /\ m = n
    <3>1. events[o] # <<>> /\ events[o] \in Seq(Event)
      BY <1>0, <1>4 DEF FormSave, RequestInv, RequestOK, Exists, TypeOK
    <3> QED BY <1>2, <2>1, <3>1, EmptySeq
  <2>3. PICK k \in Nat : k = Len(edits[o]) /\ DOMAIN edits[o] = 1..k
    BY <2>1, LenProperties
  <2>4. e.after = m
    BY <1>2
  <2> HIDE DEF e
  <2>5. /\ Len(Append(edits[o], e)) = k + 1 /\ Append(edits[o], e)[k + 1] = e
        /\ \A j \in 1..k : Append(edits[o], e)[j] = edits[o][j]
        /\ Append(edits[o], e) \in Seq(Edit)
    BY <2>1, <2>3, AppendProperties
  <2>6. i \in 1..k + 1
    BY <2>1, <2>5, LenProperties
  <2>7. CASE i = k + 1
    BY <2>1, <2>2, <2>4, <2>5, <2>7
  <2>8. CASE i \in 1..k
    BY <1>0, <1>2, <2>1, <2>3, <2>5, <2>8 DEF EditInv
  <2> QED BY <2>6, <2>7, <2>8
<1>5. edits'[o] = edits[o] \/ \E w \in Workers : FormSave(w) /\ o = tx[w].order
  <2>1. ASSUME NEW w \in Workers, Commit(w) PROVE edits' = edits
    BY <2>1 DEF Commit
  <2>2. ASSUME NEW q \in Orders, Place(q) PROVE edits' = edits
    BY <2>2 DEF Place
  <2>3. ASSUME NEW w \in Workers, FormSave(w), o # tx[w].order PROVE edits'[o] = edits[o]
    BY <1>0, <2>3, FormSaveLog
  <2> QED BY <2>1, <2>2, <2>3, CommittedFrame
<1> QED BY <1>2, <1>3, <1>4, <1>5

\* What AuditMatchesRow says of one order.
AuditOK(o) ==
  /\ \A i \in 1..Len(events[o]) : events[o][i].seq = i
  /\ Exists(o) => row[o].status = LastSaid(o)

\* The newer of the last audit row and the last LogEntry says where the order is.
LEMMA AuditStep == ASSUME IInv, [Next]_vars PROVE AuditMatchesRow'
<1>0. TypeOK /\ RequestInv /\ PlacedInv /\ EditInv /\ \A o \in Orders : AuditOK(o)
  BY DEF IInv, AuditMatchesRow, AuditOK
<1>1. SUFFICES ASSUME NEW o \in Orders PROVE AuditOK(o)'
  BY DEF AuditMatchesRow, AuditOK
<1>2. CASE events'[o] = events[o] /\ row'[o] = row[o] /\ edits'[o] = edits[o]
  BY <1>0, <1>2 DEF AuditOK, Exists, LastSaid, SavedSince
<1>3. ASSUME NEW p \in Orders, Place(p) PROVE AuditOK(o)'
  <2>1. CASE o = p
    <3>1. /\ events'[o] = <<[seq |-> 1, from |-> "placed", to |-> "placed"]>>
          /\ row'[o] = row[o] /\ edits'[o] = edits[o]
      BY <1>0, <1>3, <2>1, PlaceLog
    <3>2. row[o].status = "placed"
      BY <1>0, <1>3, <2>1 DEF Place, PlacedInv, NewRow
    <3>3. edits[o] = <<>>
      <4>1. Len(events[o]) = 0
        BY <1>3, <2>1 DEF Place, Exists
      <4>2. edits[o] \in Seq(Edit) /\ DOMAIN edits[o] = {}
        BY <1>0, <4>1 DEF EditInv, TypeOK
      <4>3. PICK k \in Nat : k = Len(edits[o]) /\ DOMAIN edits[o] = 1..k
        BY <4>2, LenProperties
      <4>4. k = 0
        <5>1. 1 \notin 1..k
          BY <4>2, <4>3
        <5> QED BY <5>1
      <4> QED BY <4>2, <4>3, <4>4, EmptySeq
    <3>. QED
      BY <3>1, <3>2, <3>3 DEF AuditOK, LastSaid, SavedSince
  <2>2. CASE o # p
    BY <1>0, <1>2, <1>3, <2>2, PlaceLog
  <2>. QED
    BY <2>1, <2>2
<1>4. ASSUME NEW w \in Workers, Commit(w) PROVE AuditOK(o)'
  <2>1. CASE o = tx[w].order
    <3> DEFINE all == events[o] \o tx[w].evs
               m == Len(events[o])
               k == Len(tx[w].evs)
    <3>1. /\ all \in Seq(Event) /\ m \in Nat /\ k \in Nat
          /\ Len(all) = m + k /\ \A i \in DOMAIN all : all[i].seq = i
      BY <2>1, LogWithBuffer
    <3>2. events'[o] = all /\ row'[o] = tx[w].obj /\ edits'[o] = edits[o]
      BY <1>0, <1>4, <2>1, CommitLog
    <3>3. k > 0 /\ tx[w].obj.status = tx[w].evs[k].to
      <4>1. tx[w].evs # <<>> /\ tx[w].evs \in Seq(Event)
        BY <1>0, <1>4, CommitHoldsLock DEF TypeOK, Request
      <4>2. k > 0
        BY <4>1, <3>1, EmptySeq
      <4>. QED
        BY <1>0, <1>4, <4>2 DEF Commit, RequestInv, RequestOK
    <3>4. all[m + k] = tx[w].evs[k]
      <4>1. events[o] \in Seq(Event) /\ tx[w].evs \in Seq(Event)
        BY <1>0 DEF TypeOK, Request
      <4>2. \A i \in 1..m + k : all[i] = IF i <= m THEN events[o][i] ELSE tx[w].evs[i - m]
        BY <4>1, ConcatProperties
      <4>. HIDE DEF all, m, k
      <4>3. m + k \in 1..m + k /\ ~(m + k <= m) /\ (m + k) - m = k
        BY <3>1, <3>3
      <4>. QED
        BY <4>2, <4>3
    <3>5. DOMAIN all = 1..Len(all)
      BY <3>1, LenProperties
    <3>5a. edits[o] \in Seq(Edit) /\ \A i \in DOMAIN edits[o] : edits[o][i].after \in 1..m
      BY <1>0 DEF TypeOK, EditInv
    <3>. HIDE DEF all, m, k
    <3>6. \A i \in 1..Len(all) : all[i].seq = i
      BY <3>1, <3>5
    <3>7. all[Len(all)].to = tx[w].obj.status
      BY <3>1, <3>3, <3>4 DEF k
    <3>8. ~SavedSince(o)'
      <4>1. ASSUME edits[o] # <<>> PROVE edits[o][Len(edits[o])].after \in 1..m
        <5>1. Len(edits[o]) \in DOMAIN edits[o]
          BY <3>5a, <4>1, EmptySeq, LenProperties
        <5> QED BY <3>5a, <5>1
      <4>2. \A x \in 1..m : x # m + k
        BY <3>1, <3>3
      <4> QED BY <3>1, <3>2, <4>1, <4>2 DEF SavedSince
    <3>. QED
      BY <3>2, <3>6, <3>7, <3>8 DEF AuditOK, LastSaid
  <2>2. CASE o # tx[w].order
    BY <1>0, <1>2, <1>4, <2>2, CommitLog
  <2>. QED
    BY <2>1, <2>2
<1>5. ASSUME NEW w \in Workers, FormSave(w) PROVE AuditOK(o)'
  <2>1. CASE o = tx[w].order
    <3> DEFINE e == [status |-> tx[w].obj.status, after |-> Len(events[o])]
    <3>1. /\ e \in Edit /\ edits'[o] = Append(edits[o], e) /\ row'[o] = tx[w].obj
          /\ events' = events /\ edits[o] \in Seq(Edit)
      BY <1>0, <1>5, <2>1, FormSaveLog DEF TypeOK
    <3>2. e.status = tx[w].obj.status /\ e.after = Len(events[o])
      OBVIOUS
    <3> HIDE DEF e
    <3>3. LET s == Append(edits[o], e) IN s # <<>> /\ s[Len(s)] = e
      BY <3>1, AppendProperties
    <3> QED BY <1>0, <3>1, <3>2, <3>3 DEF AuditOK, LastSaid, SavedSince
  <2>2. CASE o # tx[w].order
    BY <1>0, <1>2, <1>5, <2>2, FormSaveLog
  <2> QED BY <2>1, <2>2
<1>. QED
  BY <1>2, <1>3, <1>4, <1>5, CommittedFrame

\* The messages msgs announce the rows evs; the messages out, all rows of log
\* but the first.
Announces(msgs, evs) ==
  /\ Len(msgs) = Len(evs)
  /\ \A j \in 1..Len(evs) : msgs[j].to = evs[j].to /\ Can(msgs[j].from, msgs[j].to)

Mirrors(out, log) ==
  /\ Len(out) + 1 = Len(log)
  /\ \A i \in 1..Len(out) : out[i].to = log[i + 1].to /\ Can(out[i].from, out[i].to)

\* What OutboxMirrorsAudit says of one order.
MirrorOK(o) == Exists(o) => Mirrors(outbox[o], events[o])

\* The elements of a concatenation, for lengths given by name.
LEMMA ConcatAt ==
  ASSUME NEW S, NEW s \in Seq(S), NEW t \in Seq(S),
         NEW m \in Nat, NEW k \in Nat, m = Len(s), k = Len(t)
  PROVE  /\ Len(s \o t) = m + k
         /\ \A i \in 1..m + k : (s \o t)[i] = IF i <= m THEN s[i] ELSE t[i - m]
BY ConcatProperties

\* Messages that mirror a log go on doing so when rows and what announces them
\* are appended.
LEMMA MirrorConcat ==
  ASSUME NEW out \in Seq(Message), NEW log \in Seq(Event),
         NEW msgs \in Seq(Message), NEW evs \in Seq(Event),
         Mirrors(out, log), Announces(msgs, evs)
  PROVE  Mirrors(out \o msgs, log \o evs)
<1>1. PICK m \in Nat, k \in Nat :
        m = Len(out) /\ m + 1 = Len(log) /\ k = Len(msgs) /\ k = Len(evs)
  BY LenProperties DEF Mirrors, Announces
<1>2. /\ Len(out \o msgs) = m + k
      /\ \A i \in 1..m + k : (out \o msgs)[i] = IF i <= m THEN out[i] ELSE msgs[i - m]
  <2>1. m = Len(out) /\ k = Len(msgs)
    BY <1>1
  <2>. QED
    BY <2>1, ConcatAt
<1>3. /\ Len(log \o evs) = (m + 1) + k
      /\ \A i \in 1..(m + 1) + k :
           (log \o evs)[i] = IF i <= m + 1 THEN log[i] ELSE evs[i - (m + 1)]
  <2>1. PICK q \in Nat : q = m + 1
    OBVIOUS
  <2>2. q = Len(log) /\ k = Len(evs)
    BY <1>1, <2>1
  <2>3. /\ Len(log \o evs) = q + k
        /\ \A i \in 1..q + k : (log \o evs)[i] = IF i <= q THEN log[i] ELSE evs[i - q]
    BY <2>2, ConcatAt
  <2>. QED
    BY <2>1, <2>3
<1>4. /\ \A i \in 1..m : out[i].to = log[i + 1].to /\ Can(out[i].from, out[i].to)
      /\ \A j \in 1..k : msgs[j].to = evs[j].to /\ Can(msgs[j].from, msgs[j].to)
  BY <1>1 DEF Mirrors, Announces
<1>5. ASSUME NEW i \in 1..m + k
      PROVE  /\ (out \o msgs)[i].to = (log \o evs)[i + 1].to
             /\ Can((out \o msgs)[i].from, (out \o msgs)[i].to)
  <2>0. i + 1 \in 1..(m + 1) + k
    OBVIOUS
  <2>1. CASE i <= m
    <3>1. i \in 1..m /\ i + 1 <= m + 1
      BY <2>1
    <3>2. (out \o msgs)[i] = out[i] /\ (log \o evs)[i + 1] = log[i + 1]
      BY <1>2, <1>3, <2>0, <2>1, <3>1
    <3>. QED
      BY <1>4, <3>1, <3>2
  <2>2. CASE ~(i <= m)
    <3>1. i - m \in 1..k /\ ~(i + 1 <= m + 1) /\ (i + 1) - (m + 1) = i - m
      BY <2>2
    <3>2. (out \o msgs)[i] = msgs[i - m] /\ (log \o evs)[i + 1] = evs[i - m]
      BY <1>2, <1>3, <2>0, <2>2, <3>1
    <3>. QED
      BY <1>4, <3>1, <3>2
  <2>. QED
    BY <2>1, <2>2
<1>6. Len(out \o msgs) + 1 = Len(log \o evs)
  BY <1>2, <1>3
<1>. QED
  BY <1>2, <1>5, <1>6 DEF Mirrors

\* The outbox stays one message behind the audit trail, with the same targets.
LEMMA OutboxStep == ASSUME IInv, [Next]_vars PROVE OutboxMirrorsAudit'
<1>0. /\ TypeOK /\ RequestInv /\ PlacedInv /\ BufferInv
      /\ \A o \in Orders : MirrorOK(o)
  BY DEF IInv, OutboxMirrorsAudit, MirrorOK, Mirrors
<1>1. SUFFICES ASSUME NEW o \in Orders PROVE MirrorOK(o)'
  BY DEF OutboxMirrorsAudit, MirrorOK, Mirrors
<1>2. CASE events'[o] = events[o] /\ outbox'[o] = outbox[o]
  BY <1>0, <1>2 DEF MirrorOK, Exists
<1>3. ASSUME NEW p \in Orders, Place(p) PROVE MirrorOK(o)'
  <2>1. CASE o = p
    <3>1. /\ events'[o] = <<[seq |-> 1, from |-> "placed", to |-> "placed"]>>
          /\ outbox'[o] = outbox[o]
      BY <1>0, <1>3, <2>1, PlaceLog
    <3>2. outbox[o] = <<>>
      BY <1>0, <1>3, <2>1 DEF Place, PlacedInv
    <3>. QED
      BY <3>1, <3>2 DEF MirrorOK, Mirrors
  <2>2. CASE o # p
    BY <1>0, <1>2, <1>3, <2>2, PlaceLog
  <2>. QED
    BY <2>1, <2>2
<1>4. ASSUME NEW w \in Workers, Commit(w) PROVE MirrorOK(o)'
  <2>1. CASE o = tx[w].order
    <3> DEFINE out == outbox[o]  log == events[o]
               msgs == tx[w].msgs  evs == tx[w].evs
    <3>1. events'[o] = log \o evs /\ outbox'[o] = out \o msgs
      BY <1>0, <1>4, <2>1, CommitLog
    <3>2. out \in Seq(Message) /\ log \in Seq(Event) /\ msgs \in Seq(Message) /\ evs \in Seq(Event)
      BY <1>0 DEF TypeOK, Request
    <3>3. Exists(o)
      BY <1>0, <1>4, <2>1 DEF Commit, RequestInv, RequestOK
    <3>4. Mirrors(out, log)
      BY <1>0, <3>3 DEF MirrorOK
    <3>5. BufferOK(w)
      BY <1>0 DEF BufferInv
    <3>6. Announces(msgs, evs)
      BY <3>5 DEF BufferOK, Continues, Announces
    <3>. HIDE DEF out, log, msgs, evs
    <3>7. Mirrors(out \o msgs, log \o evs)
      BY <3>2, <3>4, <3>6, MirrorConcat
    <3>. QED
      BY <3>1, <3>7 DEF MirrorOK
  <2>2. CASE o # tx[w].order
    BY <1>0, <1>2, <1>4, <2>2, CommitLog
  <2>. QED
    BY <2>1, <2>2
<1>. QED
  BY <1>2, <1>3, <1>4, LogFrame

-----------------------------------------------------------------------------
(***************************************************************************)
(* The theorems.                                                           *)
(***************************************************************************)

\* Nothing has happened yet: the invariant holds.
LEMMA IInvInit == ASSUME Init PROVE IInv
<1>1. PICK q \in Orders : tx = [w \in Workers |-> NoRequest(q)]
  BY DEF Init
<1>2. \A o \in Orders : /\ row[o] = NewRow /\ events[o] = <<>> /\ outbox[o] = <<>>
                        /\ edits[o] = <<>> /\ lock[o] = NoWorker
  BY DEF Init
<1>3. \A w \in Workers : /\ pc[w] = "idle" /\ tx[w] = NoRequest(q) /\ tx[w].order = q
                          /\ tx[w].evs = <<>> /\ tx[w].msgs = <<>>
  BY <1>1, NoRequestFields DEF Init
<1>4. TypeOK
  <2>1. NewRow \in Row
    BY DEF NewRow, Row, Statuses, Transitions
  <2>2. NoRequest(q) \in Request
    BY NoRequestTyped
  <2>. QED
    BY <1>1, <2>1, <2>2 DEF Init, TypeOK, Phases
<1>5. LockInv
  BY <1>2, <1>3, OrdersAssumption DEF LockInv, Writing
<1>6. RequestInv /\ BufferInv
  <2>1. SUFFICES ASSUME NEW w \in Workers PROVE RequestOK(w) /\ BufferOK(w)
    BY DEF RequestInv, BufferInv
  <2>2. tx[w] = NoRequest(tx[w].order) /\ pc[w] = "idle"
    BY <1>3
  <2>3. RequestOK(w)
    BY <2>2 DEF RequestOK
  <2>4. tx[w].evs = <<>> /\ tx[w].msgs = <<>>
    BY <1>3
  <2>5. BufferOK(w)
    BY <2>2, <2>4 DEF BufferOK, Continues
  <2>. QED
    BY <2>3, <2>5
<1>7. PlacedInv /\ EditInv /\ AuditMatchesRow /\ OutboxMirrorsAudit
  BY <1>2 DEF PlacedInv, EditInv, AuditMatchesRow, OutboxMirrorsAudit, Exists
<1>. QED
  BY <1>4, <1>5, <1>6, <1>7 DEF IInv

\* The inductive invariant: who holds a row lock is exactly who has written the
\* row, and what a transaction has buffered continues what is committed.
THEOREM Invariance == Spec => []IInv
<1>1. Init => IInv
  BY IInvInit
<1>2. IInv /\ [Next]_vars => IInv'
  BY TypeStep, LockStep, PlacedStep, EditStep, RequestStep, BufferStep, AuditStep, OutboxStep DEF IInv
<1>. QED
  BY <1>1, <1>2, PTL DEF Spec

\* Every variable keeps its type, whatever requests, rollbacks and crashes occur.
THEOREM TypeCorrect == Spec => []TypeOK
<1>1. IInv => TypeOK
  BY DEF IInv
<1>. QED
  BY <1>1, Invariance, PTL

\* unique_order_seq never turns a legal transition into an IntegrityError: while
\* one transaction numbers its event, nobody else adds to the order's log.
THEOREM NumberingIsSafe == Spec => []NoSeqCollision
<1>1. ASSUME IInv PROVE NoSeqCollision
  <2>1. SUFFICES ASSUME NEW w \in Workers, pc[w] = "numbered"
                 PROVE  tx[w].seq \notin Seqs(events[tx[w].order])
    BY DEF NoSeqCollision, SeqTaken
  <2> DEFINE log == events[tx[w].order]
  <2>1a. BufferOK(w) /\ TypeOK /\ AuditMatchesRow
    BY <1>1 DEF IInv, BufferInv
  <2>2. log \in Seq(Event) /\ tx[w].order \in Orders /\ tx[w].evs \in Seq(Event)
    BY <2>1a DEF TypeOK, Request
  <2>3. PICK m \in Nat, k \in Nat : m = Len(log) /\ k = Len(tx[w].evs) /\ DOMAIN log = 1..m
    BY <2>2, LenProperties
  <2>4. tx[w].seq = m + k + 1
    BY <2>1, <2>1a, <2>3 DEF BufferOK
  <2>5. \A i \in 1..m : log[i].seq = i
    BY <2>1a, <2>2, <2>3 DEF AuditMatchesRow
  <2>6. \A i \in 1..m : i # m + k + 1
    OBVIOUS
  <2>. HIDE DEF log
  <2>7. \A i \in DOMAIN log : log[i].seq # tx[w].seq
    BY <2>3, <2>4, <2>5, <2>6
  <2>. QED
    BY <2>7 DEF Seqs, log
<1>. QED
  BY <1>1, Invariance, PTL

\* The audit trail has no gap, and the newer of its last row and of the last
\* LogEntry of the admin's form says where the order is.
THEOREM AuditIsDense == Spec => []AuditMatchesRow
<1>1. IInv => AuditMatchesRow
  BY DEF IInv
<1>. QED
  BY <1>1, Invariance, PTL

\* Every audited transition is announced once, in order, and is one of the map's.
THEOREM OutboxIsFaithful == Spec => []OutboxMirrorsAudit
<1>1. IInv => OutboxMirrorsAudit
  BY DEF IInv
<1>. QED
  BY <1>1, Invariance, PTL

-----------------------------------------------------------------------------
(***************************************************************************)
(* Orders implements OrderVersions.                                         *)
(***************************************************************************)

\* The statuses that the rows of a log lead to.
Had(log) == {log[i].to : i \in DOMAIN log}

\* The statuses that LogEntries say were saved.
Saved(log) == {log[i].status : i \in DOMAIN log}

\* Every status an order has had.
HadBeen(o) == Had(events[o]) \cup Saved(edits[o])

\* Where the steps of a request t start, on an order that had the statuses had: at
\* one of them, and each further step where the one before it ended.  There are two
\* steps at most.
StartsWell(phase, t, had) ==
  /\ Len(t.evs) + Len(t.plan) <= 2
  /\ phase = "loaded" /\ Len(t.evs) = 0 => t.obj.status \in had
  /\ phase \in {"updated", "numbered"} =>
       /\ Len(t.evs) = 0 => t.was \in had
       /\ Len(t.evs) # 0 => t.was = t.evs[Len(t.evs)].to
  /\ Len(t.evs) # 0 => t.msgs[1].from \in had
  /\ Len(t.evs) = 2 => t.msgs[2].from = t.evs[1].to

SourceOK(w) == StartsWell(pc[w], tx[w], HadBeen(tx[w].order))

SourceInv == \A w \in Workers : SourceOK(w)

\* Appending a buffer adds its statuses.
LEMMA HadConcat ==
  ASSUME NEW log \in Seq(Event), NEW evs \in Seq(Event)
  PROVE  Had(log \o evs) = Had(log) \cup Had(evs)
<1>1. PICK m \in Nat, k \in Nat : /\ m = Len(log) /\ k = Len(evs)
                                  /\ DOMAIN log = 1..m /\ DOMAIN evs = 1..k
  BY LenProperties
<1>2. /\ Len(log \o evs) = m + k
      /\ \A i \in 1..m + k : (log \o evs)[i] = IF i <= m THEN log[i] ELSE evs[i - m]
  BY <1>1, ConcatAt
<1>3. log \o evs \in Seq(Event) /\ DOMAIN (log \o evs) = 1..m + k
  BY <1>2, ConcatProperties, LenProperties
<1> DEFINE all == log \o evs
<1>4. /\ \A i \in 1..m : all[i] = log[i]
      /\ \A j \in 1..k : m + j \in 1..m + k /\ all[m + j] = evs[j]
  <2>1. \A i \in 1..m : i \in 1..m + k /\ i <= m
    OBVIOUS
  <2>2. \A j \in 1..k : m + j \in 1..m + k /\ ~(m + j <= m) /\ (m + j) - m = j
    OBVIOUS
  <2> QED BY <1>2, <2>1, <2>2
<1>5. \A i \in 1..m + k : i \in 1..m \/ \E j \in 1..k : i = m + j
  <2> SUFFICES ASSUME NEW i \in 1..m + k, i \notin 1..m PROVE \E j \in 1..k : i = m + j
    OBVIOUS
  <2>1. i - m \in 1..k /\ i = m + (i - m)
    OBVIOUS
  <2> QED BY <2>1
<1>6. \A i \in 1..m : i \in 1..m + k
  OBVIOUS
<1> HIDE DEF all
<1>7. DOMAIN all = 1..m + k
  BY <1>3 DEF all
<1>8. Had(all) = Had(log) \cup Had(evs)
  <2>1. ASSUME NEW x \in Had(all) PROVE x \in Had(log) \cup Had(evs)
    <3>1. PICK i \in 1..m + k : x = all[i].to
      BY <1>7 DEF Had
    <3>2. CASE i \in 1..m
      BY <1>1, <1>4, <3>1, <3>2 DEF Had
    <3>3. ASSUME NEW j \in 1..k, i = m + j PROVE x \in Had(evs)
      BY <1>1, <1>4, <3>1, <3>3 DEF Had
    <3> QED BY <1>5, <3>2, <3>3
  <2>2. ASSUME NEW x \in Had(log) PROVE x \in Had(all)
    <3>1. PICK i \in 1..m : x = log[i].to
      BY <1>1 DEF Had
    <3>2. i \in DOMAIN all /\ all[i] = log[i]
      BY <1>4, <1>6, <1>7
    <3> QED BY <3>1, <3>2 DEF Had
  <2>3. ASSUME NEW x \in Had(evs) PROVE x \in Had(all)
    <3>1. PICK j \in 1..k : x = evs[j].to
      BY <1>1 DEF Had
    <3>2. PICK i \in DOMAIN all : all[i] = evs[j]
      BY <1>4, <1>7
    <3> QED BY <3>1, <3>2 DEF Had
  <2> QED BY <2>1, <2>2, <2>3
<1> QED BY <1>8 DEF all

\* An order never loses a status it has had.
LEMMA HadGrows ==
  ASSUME IInv, [Next]_vars, NEW o \in Orders
  PROVE  Had(events[o]) \subseteq Had(events'[o])
<1>0. TypeOK
  BY DEF IInv
<1>1. CASE events'[o] = events[o]
  BY <1>1
<1>2. ASSUME NEW p \in Orders, Place(p), events'[o] # events[o]
      PROVE  Had(events[o]) \subseteq Had(events'[o])
  <2>1. events[o] = <<>>
    BY <1>0, <1>2, PlaceLog DEF Place, Exists
  <2> QED BY <2>1 DEF Had
<1>3. ASSUME NEW w \in Workers, Commit(w), events'[o] # events[o]
      PROVE  Had(events[o]) \subseteq Had(events'[o])
  <2>1. events'[o] = events[o] \o tx[w].evs
    BY <1>0, <1>3, CommitLog
  <2>2. events[o] \in Seq(Event) /\ tx[w].evs \in Seq(Event)
    BY <1>0 DEF TypeOK, Request
  <2> QED BY <2>1, <2>2, HadConcat
<1> QED BY <1>1, <1>2, <1>3, LogFrame

\* One LogEntry more adds its status.
LEMMA SavedAppend ==
  ASSUME NEW log \in Seq(Edit), NEW e \in Edit
  PROVE  Saved(Append(log, e)) = Saved(log) \cup {e.status}
<1>1. PICK k \in Nat : k = Len(log) /\ DOMAIN log = 1..k
  BY LenProperties
<1>2. /\ Append(log, e) \in Seq(Edit) /\ Len(Append(log, e)) = k + 1
      /\ Append(log, e)[k + 1] = e
      /\ \A j \in 1..k : Append(log, e)[j] = log[j]
  BY <1>1, AppendProperties
<1>3. DOMAIN Append(log, e) = 1..k + 1
  BY <1>2, LenProperties
<1> DEFINE all == Append(log, e)
<1> HIDE DEF all
<1>4. DOMAIN all = 1..k + 1 /\ all[k + 1] = e /\ \A j \in 1..k : all[j] = log[j]
  BY <1>2, <1>3 DEF all
<1>5. \A i : i \in 1..k + 1 <=> i \in 1..k \/ i = k + 1
  OBVIOUS
<1>6. Saved(all) = Saved(log) \cup {e.status}
  BY <1>1, <1>4, <1>5 DEF Saved
<1> QED BY <1>6 DEF all

\* An order never loses a status it has had.
LEMMA HadBeenGrows ==
  ASSUME IInv, [Next]_vars, NEW o \in Orders
  PROVE  HadBeen(o) \subseteq HadBeen(o)'
<1>0. TypeOK
  BY DEF IInv
<1>1. Had(events[o]) \subseteq Had(events'[o])
  BY HadGrows
<1>2. ASSUME NEW w \in Workers, FormSave(w), o = tx[w].order
      PROVE  Saved(edits[o]) \subseteq Saved(edits'[o])
  <2>1. PICK e \in Edit : edits'[o] = Append(edits[o], e)
    BY <1>0, <1>2, FormSaveLog
  <2>2. edits[o] \in Seq(Edit)
    BY <1>0 DEF TypeOK
  <2> QED BY <2>1, <2>2, SavedAppend
<1>3. edits'[o] = edits[o] \/ \E w \in Workers : FormSave(w) /\ o = tx[w].order
  <2>1. ASSUME NEW w \in Workers, Commit(w) PROVE edits' = edits
    BY <2>1 DEF Commit
  <2>2. ASSUME NEW q \in Orders, Place(q) PROVE edits' = edits
    BY <2>2 DEF Place
  <2>3. ASSUME NEW w \in Workers, FormSave(w), o # tx[w].order PROVE edits'[o] = edits[o]
    BY <1>0, <2>3, FormSaveLog
  <2> QED BY <2>1, <2>2, <2>3, CommittedFrame
<1> QED BY <1>1, <1>2, <1>3 DEF HadBeen

\* A request that a step does not touch still starts at statuses the order has had.
LEMMA SourceFrame ==
  ASSUME IInv, SourceInv, [Next]_vars, NEW v \in Workers, tx'[v] = tx[v], pc'[v] = pc[v]
  PROVE  SourceOK(v)'
<1>1. StartsWell(pc[v], tx[v], HadBeen(tx[v].order)) /\ tx[v].order \in Orders
  BY DEF SourceInv, SourceOK, IInv, TypeOK, Request
<1>2. PICK had : had = HadBeen(tx[v].order)
  OBVIOUS
<1>3. PICK more : more = Had(events'[tx[v].order]) \cup Saved(edits'[tx[v].order])
  OBVIOUS
<1>4. had \subseteq more
  BY <1>1, <1>2, <1>3, HadBeenGrows DEF HadBeen
<1>5. StartsWell(pc[v], tx[v], more)
  BY <1>1, <1>2, <1>4 DEF StartsWell
<1> QED BY <1>3, <1>5 DEF SourceOK, HadBeen

\* A request that a step carries on, with the logs as they were.
LEMMA SourceNow ==
  ASSUME NEW w \in Workers, events' = events, edits' = edits, tx'[w].order = tx[w].order,
         StartsWell(pc'[w], tx'[w], HadBeen(tx[w].order))
  PROVE  SourceOK(w)'
BY DEF SourceOK, HadBeen

\* One row more: its message starts at a status the order has had, or where the row
\* before it ended.
LEMMA SourceInsert ==
  ASSUME IInv, SourceInv, [Next]_vars, NEW w \in Workers, Insert(w)
  PROVE  SourceOK(w)'
<1> DEFINE t == tx[w]
           to == Head(t.plan)
           ev == [seq |-> t.seq, from |-> t.obj.status, to |-> to]
           msg == [from |-> t.was, to |-> to]
<1>1. /\ TypeOK /\ t \in Request /\ t.evs \in Seq(Event) /\ t.msgs \in Seq(Message)
      /\ t.plan \in Seq(Statuses) /\ BufferOK(w) /\ RequestOK(w)
  BY DEF IInv, TypeOK, Request, BufferInv, RequestInv
<1>2. /\ pc[w] = "numbered" /\ pc'[w] = "loaded" /\ events' = events /\ edits' = edits
      /\ tx'[w].order = t.order /\ tx'[w].obj = t.obj /\ tx'[w].plan = Tail(t.plan)
      /\ tx'[w].evs = Append(t.evs, ev) /\ tx'[w].msgs = Append(t.msgs, msg)
  BY <1>1 DEF Insert, TypeOK, Request
<1>3. PICK n \in Nat : n = Len(t.evs) /\ n = Len(t.msgs)
  <2>1. Len(t.evs) = Len(t.msgs)
    BY <1>1 DEF BufferOK, Continues
  <2> QED BY <1>1, <2>1, LenProperties
<1>4. PICK r \in Nat : Len(t.plan) = r + 1 /\ Len(Tail(t.plan)) = r
  <2>1. Len(Tail(t.plan)) + 1 = Len(t.plan) /\ Len(Tail(t.plan)) \in Nat
    BY <1>1, <1>2 DEF RequestOK
  <2>2. PICK r \in Nat : r = Len(Tail(t.plan))
    BY <2>1
  <2>3. Len(t.plan) = r + 1
    BY <2>1, <2>2
  <2> QED BY <2>2, <2>3
<1>10. ev \in Event /\ msg \in Message
  <2>1. t.obj.status = to /\ Can(t.was, to)
    BY <1>1, <1>2 DEF RequestOK
  <2> QED BY <1>1, <2>1, CanTyped DEF Request, Event, Message
<1> DEFINE had == HadBeen(t.order)
<1> HIDE DEF had
<1>5. StartsWell("numbered", t, had)
  BY <1>2 DEF SourceInv, SourceOK, had
<1>6. n + (r + 1) <= 2
  BY <1>3, <1>4, <1>5 DEF StartsWell
<1>7. (n + 1) + r <= 2 /\ n \in {0, 1}
  BY <1>6
<1>8. /\ Len(tx'[w].evs) = n + 1 /\ tx'[w].msgs[n + 1].from = t.was
      /\ \A j \in 1..n : tx'[w].evs[j] = t.evs[j] /\ tx'[w].msgs[j] = t.msgs[j]
  <2>1. msg.from = t.was
    OBVIOUS
  <2> HIDE DEF ev, msg
  <2>2. Len(Append(t.evs, ev)) = n + 1 /\ \A j \in 1..n : Append(t.evs, ev)[j] = t.evs[j]
    <3>1. /\ Len(Append(t.evs, ev)) = Len(t.evs) + 1
          /\ \A j \in 1..Len(t.evs) : Append(t.evs, ev)[j] = t.evs[j]
      BY <1>1, <1>10, AppendProperties
    <3> QED BY <1>3, <3>1
  <2>3. /\ Append(t.msgs, msg)[n + 1] = msg
        /\ \A j \in 1..n : Append(t.msgs, msg)[j] = t.msgs[j]
    BY <1>1, <1>3, <1>10, AppendProperties
  <2> QED BY <1>2, <2>1, <2>2, <2>3
<1>9. StartsWell("loaded", tx'[w], had)
  <2>1. Len(tx'[w].evs) + Len(tx'[w].plan) <= 2 /\ Len(tx'[w].evs) # 0
    <3>1. Len(tx'[w].plan) = r /\ Len(tx'[w].evs) = n + 1
      BY <1>2, <1>4, <1>8
    <3>2. n + 1 # 0
      OBVIOUS
    <3> QED BY <1>7, <3>1, <3>2
  <2>2. CASE n = 0
    <3>1. Len(tx'[w].evs) = 1 /\ tx'[w].msgs[1].from = t.was
      BY <1>8, <2>2
    <3>2. t.was \in had
      BY <1>3, <1>5, <2>2 DEF StartsWell
    <3> QED BY <2>1, <3>1, <3>2 DEF StartsWell
  <2>3. CASE n = 1
    <3>1. /\ Len(tx'[w].evs) = 2 /\ tx'[w].msgs[2].from = t.was
          /\ tx'[w].evs[1] = t.evs[1] /\ tx'[w].msgs[1] = t.msgs[1]
      BY <1>8, <2>3
    <3>2. t.was = t.evs[1].to /\ t.msgs[1].from \in had
      BY <1>3, <1>5, <2>3 DEF StartsWell
    <3> QED BY <2>1, <3>1, <3>2 DEF StartsWell
  <2> QED BY <1>7, <2>2, <2>3
<1> QED BY <1>2, <1>9, SourceNow DEF had

\* SourceInv is inductive, given IInv.
LEMMA SourceStep == ASSUME IInv, SourceInv, [Next]_vars PROVE SourceInv'
<1>0. TypeOK /\ RequestInv /\ SourceInv
  BY DEF IInv
<1>1. SUFFICES ASSUME NEW v \in Workers PROVE SourceOK(v)'
  BY DEF SourceInv
<1>2. CASE tx'[v] = tx[v] /\ pc'[v] = pc[v]
  BY <1>2, SourceFrame
<1>3. ASSUME NEW w \in Workers, Load(w) PROVE SourceOK(v)'
  <2>1. PICK o \in Orders, actor \in Actors :
          /\ Exists(o)
          /\ \E plan \in Asks(actor, row[o]) : tx' = [tx EXCEPT ![w] = NewRequest(o, row[o], plan)]
    BY <1>3 DEF Load
  <2>2. PICK plan \in Asks(actor, row[o]) : tx' = [tx EXCEPT ![w] = NewRequest(o, row[o], plan)]
    BY <2>1
  <2>3. Len(plan) \in {1, 2}
    BY <1>0, AsksTyped DEF TypeOK
  <2>4. CASE v = w
    <3>1. pc'[v] = "loaded" /\ tx'[v] = NewRequest(o, row[o], plan) /\ UNCHANGED <<events, edits>>
      BY <1>0, <1>3, <2>2, <2>4 DEF Load, TypeOK
    <3>2. /\ tx'[v].order = o /\ tx'[v].plan = plan /\ tx'[v].obj = row[o]
          /\ tx'[v].evs = <<>> /\ Len(tx'[v].evs) = 0
      BY <3>1 DEF NewRequest
    <3>3. row[o].status \in HadBeen(o)
      <4>1. row[o].status = LastSaid(o) /\ events[o] \in Seq(Event) /\ edits[o] \in Seq(Edit)
        BY <1>0, <2>1 DEF IInv, AuditMatchesRow, TypeOK
      <4>2. PICK n \in Nat : n = Len(events[o]) /\ DOMAIN events[o] = 1..n
        BY <4>1, LenProperties
      <4>3. n \in DOMAIN events[o]
        BY <2>1, <4>1, <4>2, EmptySeq DEF Exists
      <4>4. CASE SavedSince(o)
        <5>1. Len(edits[o]) \in DOMAIN edits[o]
          BY <4>1, <4>4, EmptySeq, LenProperties DEF SavedSince
        <5> QED BY <4>1, <4>4, <5>1 DEF HadBeen, Saved, LastSaid
      <4>5. CASE ~SavedSince(o)
        BY <4>1, <4>2, <4>3, <4>5 DEF HadBeen, Had, LastSaid
      <4> QED BY <4>4, <4>5
    <3>4. StartsWell("loaded", tx'[v], HadBeen(o))
      <4>1. Len(tx'[v].evs) + Len(tx'[v].plan) <= 2
        <5>1. PICK k \in {1, 2} : k = Len(tx'[v].plan)
          BY <2>3, <3>2
        <5>2. 0 + k <= 2
          OBVIOUS
        <5> QED BY <3>2, <5>1, <5>2
      <4> QED BY <3>2, <3>3, <4>1 DEF StartsWell
    <3> QED BY <3>1, <3>2, <3>4 DEF SourceOK, HadBeen
  <2>5. CASE v # w
    BY <1>0, <1>2, <1>3, <2>2, <2>5 DEF Load, TypeOK
  <2> QED BY <2>4, <2>5
<1>4. ASSUME NEW w \in Workers, Update(w) PROVE SourceOK(v)'
  <2>1. CASE v = w
    <3>1. /\ pc[w] = "loaded" /\ pc'[w] = "updated" /\ UNCHANGED <<events, edits>>
          /\ tx'[w].order = tx[w].order /\ tx'[w].plan = tx[w].plan
          /\ tx'[w].evs = tx[w].evs /\ tx'[w].msgs = tx[w].msgs
          /\ tx'[w].was = tx[w].obj.status
      BY <1>0, <1>4 DEF Update, Pending, TypeOK, Request
    <3>2. /\ Len(tx[w].evs) \in Nat /\ RequestOK(w)
          /\ StartsWell("loaded", tx[w], HadBeen(tx[w].order))
      BY <1>0, <3>1, LenProperties DEF TypeOK, Request, SourceInv, SourceOK, RequestInv
    <3>3. Len(tx[w].evs) # 0 => tx[w].obj.status = tx[w].evs[Len(tx[w].evs)].to
      BY <3>1, <3>2 DEF RequestOK
    <3>4. StartsWell("updated", tx'[w], HadBeen(tx[w].order))
      BY <3>1, <3>2, <3>3 DEF StartsWell
    <3> QED BY <2>1, <3>1, <3>4, SourceNow
  <2>2. CASE v # w
    BY <1>0, <1>2, <1>4, <2>2 DEF Update, TypeOK
  <2> QED BY <2>1, <2>2
<1>5. ASSUME NEW w \in Workers, Refuse(w) \/ Commit(w) \/ Crash(w) \/ FormSave(w)
      PROVE  SourceOK(v)'
  <2>1. Finish(w)
    BY <1>5 DEF Refuse, Commit, Crash, FormSave
  <2>2. CASE v = w
    <3>1. pc'[w] = "idle" /\ tx'[w] = NoRequest(tx[w].order)
      BY <1>0, <2>1 DEF Finish, TypeOK
    <3>2. tx'[w].plan = <<>> /\ tx'[w].evs = <<>>
      BY <3>1, NoRequestFields
    <3>3. Len(tx'[w].plan) = 0 /\ Len(tx'[w].evs) = 0
      BY <3>2
    <3> QED BY <2>2, <3>1, <3>3 DEF SourceOK, StartsWell
  <2>3. CASE v # w
    BY <1>0, <1>2, <2>1, <2>3 DEF Finish, TypeOK
  <2> QED BY <2>2, <2>3
<1>6. ASSUME NEW w \in Workers, ReadSeq(w) PROVE SourceOK(v)'
  <2>1. CASE v = w
    <3>1. /\ pc[w] = "updated" /\ pc'[w] = "numbered" /\ UNCHANGED <<events, edits>>
          /\ tx'[w].order = tx[w].order /\ tx'[w].plan = tx[w].plan
          /\ tx'[w].evs = tx[w].evs /\ tx'[w].msgs = tx[w].msgs
          /\ tx'[w].was = tx[w].was
      BY <1>0, <1>6 DEF ReadSeq, TypeOK, Request
    <3>2. StartsWell("updated", tx[w], HadBeen(tx[w].order))
      BY <1>0, <3>1 DEF SourceInv, SourceOK
    <3>3. StartsWell("numbered", tx'[w], HadBeen(tx[w].order))
      BY <3>1, <3>2 DEF StartsWell
    <3> QED BY <2>1, <3>1, <3>3, SourceNow
  <2>2. CASE v # w
    BY <1>0, <1>2, <1>6, <2>2 DEF ReadSeq, TypeOK
  <2> QED BY <2>1, <2>2
<1>7. ASSUME NEW w \in Workers, Insert(w) PROVE SourceOK(v)'
  <2>1. CASE v = w
    BY <1>7, <2>1, SourceInsert
  <2>2. CASE v # w
    BY <1>0, <1>2, <1>7, <2>2 DEF Insert, TypeOK
  <2> QED BY <2>1, <2>2
<1>8. ASSUME NEW w \in Workers, FormLoad(w) PROVE SourceOK(v)'
  <2>1. CASE v = w
    <3>1. pc'[w] = "editing" /\ tx'[w].plan = <<>> /\ tx'[w].evs = <<>>
      BY <1>0, <1>8, FormLoadHolds
    <3>2. Len(tx'[w].plan) = 0 /\ Len(tx'[w].evs) = 0
      BY <3>1
    <3> QED BY <2>1, <3>1, <3>2 DEF SourceOK, StartsWell
  <2>2. CASE v # w
    BY <1>0, <1>2, <1>8, <2>2, FormLoadHolds
  <2> QED BY <2>1, <2>2
<1>9. CASE (\E o \in Orders : Place(o)) \/ AtBound \/ UNCHANGED vars
  BY <1>2, <1>9 DEF Place, AtBound, vars
<1> QED BY <1>3, <1>4, <1>5, <1>6, <1>7, <1>8, <1>9 DEF Next, Step

\* What a request commits is one step of the map from a status the order has had, or
\* two in a row.
LEMMA CommitExtends ==
  ASSUME IInv, SourceInv, NEW w \in Workers, Commit(w)
  PROVE  LET evs == tx[w].evs  now == tx[w].obj.status IN
         \E s \in HadBeen(tx[w].order), t \in Statuses :
           /\ Can(s, t)
           /\ \/ now = t /\ Had(evs) = {t}
              \/ \E u \in Statuses : Can(t, u) /\ now = u /\ Had(evs) = {t, u}
<1> DEFINE r == tx[w]
<1>1. /\ r.evs \in Seq(Event) /\ r.msgs \in Seq(Message) /\ r.plan = <<>> /\ pc[w] = "loaded"
      /\ BufferOK(w) /\ RequestOK(w) /\ r.evs # <<>>
  BY CommitHoldsLock DEF IInv, TypeOK, Request, BufferInv, RequestInv, Commit
<1>2. PICK n \in Nat : n = Len(r.evs) /\ DOMAIN r.evs = 1..n
  BY <1>1, LenProperties
<1>3. StartsWell("loaded", r, HadBeen(r.order))
  BY <1>1 DEF SourceInv, SourceOK
<1>4. n \in {1, 2}
  <2>1. n # 0
    BY <1>1, <1>2
  <2>2. Len(r.plan) = 0
    BY <1>1
  <2>3. n + 0 <= 2
    BY <1>2, <1>3, <2>2 DEF StartsWell
  <2> QED BY <2>1, <2>3
<1>5. \A j \in 1..n : r.msgs[j].to = r.evs[j].to /\ Can(r.msgs[j].from, r.evs[j].to)
  BY <1>1, <1>2 DEF BufferOK, Continues
<1>6. r.obj.status = r.evs[n].to
  BY <1>1, <1>2, <1>4 DEF RequestOK
<1>7. r.msgs[1].from \in HadBeen(r.order)
  <2>1. Len(r.evs) # 0
    BY <1>1, <1>2
  <2> QED BY <1>3, <2>1 DEF StartsWell
<1>8. CASE n = 1
  <2>1. Had(r.evs) = {r.evs[1].to}
    BY <1>2, <1>8 DEF Had
  <2>2. Can(r.msgs[1].from, r.evs[1].to) /\ r.evs[1].to \in Statuses
    BY <1>5, <1>8, CanTyped
  <2> QED BY <1>6, <1>7, <1>8, <2>1, <2>2
<1>9. CASE n = 2
  <2>1. Had(r.evs) = {r.evs[1].to, r.evs[2].to}
    BY <1>2, <1>9 DEF Had
  <2>2. r.msgs[2].from = r.evs[1].to
    BY <1>2, <1>3, <1>9 DEF StartsWell
  <2>3. /\ Can(r.msgs[1].from, r.evs[1].to) /\ r.evs[1].to \in Statuses
        /\ Can(r.evs[1].to, r.evs[2].to) /\ r.evs[2].to \in Statuses
    BY <1>5, <1>9, <2>2, CanTyped
  <2> QED BY <1>6, <1>7, <1>9, <2>1, <2>3
<1> QED BY <1>4, <1>8, <1>9

\* The mapping of MCOrders, with names for its three variables.
Current == [o \in Orders |-> row[o].status]
AllHad == [o \in Orders |-> Had(events[o])]
AllSaved == [o \in Orders |-> Saved(edits[o])]

\* Every step of the code is a step of the trees of versions, or leaves them alone.
LEMMA VersionsStep ==
  ASSUME IInv, SourceInv, [Next]_vars
  PROVE  [Versions!Next]_(Versions!vars)
<1>0. TypeOK /\ PlacedInv
  BY DEF IInv
<1>1. CASE UNCHANGED committed
  BY <1>1 DEF Versions!vars
<1>2. ASSUME NEW o \in Orders, Place(o) PROVE Versions!Next
  <2>1. /\ events[o] = <<>> /\ row[o].status = "placed" /\ row' = row
        /\ events'[o] = <<[seq |-> 1, from |-> "placed", to |-> "placed"]>>
        /\ \A x \in Orders \ {o} : events'[x] = events[x]
    <3>1. events[o] = <<>>
      BY <1>2 DEF Place, Exists
    <3>2. row[o].status = "placed"
      BY <1>0, <1>2 DEF Place, PlacedInv, NewRow
    <3> QED BY <1>0, <1>2, <3>1, <3>2, PlaceLog
  <2>2. Had(events[o]) = {} /\ Had(events'[o]) = {"placed"}
    BY <2>1 DEF Had
  <2>3. AllHad[o] = {} /\ Current' = Current
    BY <2>1, <2>2 DEF AllHad, Current
  <2>4. AllHad' = [AllHad EXCEPT ![o] = {Current[o]}]
    BY <2>1, <2>2 DEF AllHad, Current
  <2>5. AllSaved' = AllSaved
    BY <1>2 DEF AllSaved, Place
  <2>5a. AllHad[o] = {} /\ AllHad' = [AllHad EXCEPT ![o] = {Current[o]}] /\ UNCHANGED <<Current, AllSaved>>
    BY <2>3, <2>4, <2>5
  <2>6. Versions!Create(o)
    BY <2>5a DEF Versions!Create, AllHad, AllSaved, Current, Had, Saved
  <2> QED BY <2>6 DEF Versions!Next
<1>3. ASSUME NEW w \in Workers, Commit(w) PROVE Versions!Next
  <2>0. PICK o \in Orders : o = tx[w].order
    BY <1>0, <1>3, CommitLog
  <2> DEFINE evs == tx[w].evs
  <2> DEFINE now == tx[w].obj.status
  <2>1. /\ events'[o] = events[o] \o evs /\ row'[o].status = now /\ edits' = edits
        /\ \A x \in Orders \ {o} : events'[x] = events[x] /\ row'[x] = row[x]
    BY <1>0, <1>3, <2>0, CommitLog
  <2>2. Had(events'[o]) = Had(events[o]) \cup Had(evs)
    <3>1. events[o] \in Seq(Event) /\ evs \in Seq(Event)
      BY <1>0, <2>1 DEF TypeOK, Request
    <3> QED BY <2>1, <3>1, HadConcat
  <2>3. PICK s \in HadBeen(o), t \in Statuses :
          /\ Can(s, t)
          /\ \/ now = t /\ Had(evs) = {t}
             \/ \E u \in Statuses : Can(t, u) /\ now = u /\ Had(evs) = {t, u}
    BY <1>3, <2>0, CommitExtends
  <2> HIDE DEF evs, now
  <2>4. Current' = [Current EXCEPT ![o] = now]
    BY <2>1 DEF Current
  <2>5. AllHad' = [AllHad EXCEPT ![o] = @ \cup Had(evs)]
    BY <2>1, <2>2 DEF AllHad
  <2>6. AllHad[o] \cup AllSaved[o] = HadBeen(o) /\ AllSaved' = AllSaved
    BY <2>1 DEF AllHad, AllSaved, HadBeen
  <2>7. \E x \in AllHad[o] \cup AllSaved[o], y \in Statuses :
          /\ Can(x, y)
          /\ UNCHANGED AllSaved
          /\ \/ /\ Current' = [Current EXCEPT ![o] = y]
                /\ AllHad' = [AllHad EXCEPT ![o] = @ \cup {y}]
             \/ \E u \in Statuses :
                  /\ Can(y, u)
                  /\ Current' = [Current EXCEPT ![o] = u]
                  /\ AllHad' = [AllHad EXCEPT ![o] = @ \cup {y, u}]
    BY <2>3, <2>4, <2>5, <2>6
  <2>8. Versions!Extend(o)
    BY <2>7 DEF Versions!Extend, Versions!Statuses, Versions!Can, Versions!Transitions,
                Statuses, Can, Transitions, AllHad, AllSaved, Current, Had, Saved
  <2> QED BY <2>8 DEF Versions!Next
<1>4. ASSUME NEW w \in Workers, FormSave(w) PROVE Versions!Next
  <2>0. PICK o \in Orders, e \in Edit :
          /\ o = tx[w].order /\ e.status = tx[w].obj.status
          /\ row'[o] = tx[w].obj /\ edits'[o] = Append(edits[o], e) /\ events' = events
          /\ \A x \in Orders \ {o} : row'[x] = row[x] /\ edits'[x] = edits[x]
    BY <1>0, <1>4, FormSaveLog
  <2>1. e.status \in Statuses /\ edits[o] \in Seq(Edit)
    BY <1>0 DEF Edit, TypeOK
  <2>2. Saved(edits'[o]) = Saved(edits[o]) \cup {e.status}
    BY <2>0, <2>1, SavedAppend
  <2>3. /\ Current' = [Current EXCEPT ![o] = e.status]
        /\ AllSaved' = [AllSaved EXCEPT ![o] = @ \cup {e.status}]
        /\ AllHad' = AllHad
    BY <2>0, <2>2 DEF Current, AllSaved, AllHad
  <2>4. AllHad[o] # {}
    <3>1. events[o] # <<>> /\ events[o] \in Seq(Event)
      BY <1>0, <1>4, <2>0 DEF IInv, FormSave, RequestInv, RequestOK, Exists, TypeOK
    <3>2. 1 \in DOMAIN events[o]
      BY <3>1, EmptySeq, LenProperties
    <3> QED BY <3>2 DEF AllHad, Had
  <2>5. Versions!Decree(o)
    BY <2>1, <2>3, <2>4 DEF Versions!Decree, Versions!Statuses, Versions!Transitions,
                            Statuses, Transitions, AllHad, AllSaved, Current, Had, Saved
  <2> QED BY <2>5 DEF Versions!Next
<1> QED BY <1>1, <1>2, <1>3, <1>4, CommittedFrame

\* The code implements OrderVersions: each status that a request gives an order is
\* one or two steps of the map away from a status it has had, however many requests
\* work on stale copies, forms are saved over them, and transactions roll back.
THEOREM CodeExtendsVersions == Spec => ExtendsAVersion
<1>1. Init => SourceInv
  <2> SUFFICES ASSUME Init, NEW w \in Workers PROVE SourceOK(w)
    BY DEF SourceInv
  <2>1. pc[w] = "idle" /\ \E o \in Orders : tx[w] = NoRequest(o)
    BY DEF Init
  <2>2. tx[w].plan = <<>> /\ tx[w].evs = <<>>
    BY <2>1, NoRequestFields
  <2>3. Len(tx[w].plan) = 0 /\ Len(tx[w].evs) = 0
    BY <2>2
  <2> QED BY <2>1, <2>3 DEF SourceOK, StartsWell
<1>2. IInv /\ SourceInv /\ [Next]_vars => SourceInv'
  BY SourceStep
<1>3. Init => Versions!Init
  BY DEF Init, Versions!Init, NewRow
<1>4. IInv /\ SourceInv /\ [Next]_vars => [Versions!Next]_(Versions!vars)
  BY VersionsStep
<1> QED BY <1>1, <1>2, <1>3, <1>4, Invariance, PTL DEF Spec, ExtendsAVersion, Versions!Spec

-----------------------------------------------------------------------------
(***************************************************************************)
(* Every copy of a row that the map has led to is stamped like its status.  *)
(***************************************************************************)

\* What StampsFollowStatus says of one row, committed or in memory.
Stamped(r) ==
  /\ r.status \in {"accepted", "preparing", "ready", "picked", "out",
                    "cancelled_restaurant"} => r.accepted
  /\ r.status = "delivered" => r.delivered
  /\ r.delivered => r.accepted /\ r.status \in {"delivered", "refund_pending", "refunded"}

\* About orders that the admin's form has not been saved for.
StampInv ==
  /\ \A o \in Orders : edits[o] = <<>> => Stamped(row[o])
  /\ \A w \in Workers :
       pc[w] # "editing" /\ edits[tx[w].order] = <<>> => Stamped(tx[w].obj)

\* A legal step keeps the stamps and the status together.
LEMMA StampKeeps ==
  ASSUME NEW obj \in Row, NEW to, Stamped(obj), Can(obj.status, to)
  PROVE  Stamped(Stamp(obj, to))
<1>1. /\ to = "preparing" => obj.status = "accepted"
      /\ to = "ready" => obj.status = "preparing"
      /\ to = "picked" => obj.status = "ready"
      /\ to = "out" => obj.status = "picked"
      /\ to = "delivered" => obj.status \in {"picked", "out"}
      /\ to = "cancelled_restaurant" => obj.status \in {"accepted", "preparing", "ready"}
      /\ obj.status \in {"delivered", "refund_pending", "refunded"} =>
           to \in {"refund_pending", "refunded"}
  BY DEF Can, Transitions
<1>2. obj.accepted \in BOOLEAN /\ obj.delivered \in BOOLEAN
  BY DEF Row
<1> QED BY <1>1, <1>2 DEF Stamped, Stamp

\* StampInv is inductive, given IInv.
LEMMA StampStep == ASSUME IInv, StampInv, [Next]_vars PROVE StampInv'
<1>0. TypeOK /\ StampInv
  BY DEF IInv
<1>e. ASSUME NEW o \in Orders, edits'[o] = <<>> PROVE edits[o] = <<>>
  <2>1. ASSUME NEW w \in Workers, FormSave(w) PROVE edits[o] = <<>>
    <3>1. CASE o = tx[w].order
      <4>1. PICK e \in Edit : edits'[o] = Append(edits[o], e)
        BY <1>0, <2>1, <3>1, FormSaveLog
      <4>2. edits[o] \in Seq(Edit)
        BY <1>0 DEF TypeOK
      <4> QED BY <1>e, <4>1, <4>2, AppendProperties
    <3>2. CASE o # tx[w].order
      BY <1>0, <1>e, <2>1, <3>2, FormSaveLog
    <3> QED BY <3>1, <3>2
  <2>2. ASSUME NEW w \in Workers, Commit(w) PROVE edits' = edits
    BY <2>2 DEF Commit
  <2>3. ASSUME NEW q \in Orders, Place(q) PROVE edits' = edits
    BY <2>3 DEF Place
  <2> QED BY <1>e, <2>1, <2>2, <2>3, CommittedFrame
<1>1. ASSUME NEW o \in Orders, edits'[o] = <<>> PROVE Stamped(row'[o])
  <2>0. edits[o] = <<>>
    BY <1>1, <1>e
  <2>1. CASE row'[o] = row[o]
    BY <1>0, <2>0, <2>1 DEF StampInv
  <2>2. ASSUME NEW w \in Workers, Commit(w), row'[o] # row[o] PROVE Stamped(row'[o])
    <3>1. o = tx[w].order /\ row'[o] = tx[w].obj /\ pc[w] = "loaded"
      BY <1>0, <2>2, CommitLog DEF Commit
    <3> QED BY <1>0, <2>0, <3>1 DEF StampInv
  <2>3. ASSUME NEW w \in Workers, FormSave(w), row'[o] # row[o] PROVE FALSE
    <3>1. PICK e \in Edit : edits'[o] = Append(edits[o], e)
      BY <1>0, <2>3, FormSaveLog
    <3>2. edits[o] \in Seq(Edit)
      BY <1>0 DEF TypeOK
    <3> QED BY <1>1, <3>1, <3>2, AppendProperties
  <2> QED BY <1>0, <2>1, <2>2, <2>3, CommittedFrame DEF Place
<1>2. ASSUME NEW v \in Workers, pc'[v] # "editing", edits'[tx'[v].order] = <<>>
      PROVE  Stamped(tx'[v].obj)
  <2>0. tx[v].order \in Orders
    BY <1>0 DEF TypeOK, Request
  <2>1. CASE tx'[v] = tx[v] /\ pc'[v] = pc[v]
    BY <1>0, <1>2, <1>e, <2>0, <2>1 DEF StampInv
  <2>2. ASSUME NEW w \in Workers, Load(w) PROVE Stamped(tx'[v].obj)
    <3>1. PICK o \in Orders : \E plan : tx' = [tx EXCEPT ![w] = NewRequest(o, row[o], plan)]
      BY <2>2 DEF Load
    <3>2. v = w => tx'[v].obj = row[o] /\ tx'[v].order = o
      BY <1>0, <3>1 DEF TypeOK, NewRequest
    <3>3. v # w => tx'[v] = tx[v] /\ pc'[v] = pc[v]
      BY <1>0, <2>2, <3>1 DEF TypeOK, Load
    <3> QED BY <1>0, <1>2, <1>e, <2>1, <3>2, <3>3 DEF StampInv
  <2>3. ASSUME NEW w \in Workers, Update(w) PROVE Stamped(tx'[v].obj)
    <3>1. tx[w].obj \in Row /\ Can(tx[w].obj.status, Head(tx[w].plan)) /\ pc[w] = "loaded"
      BY <1>0, <2>3 DEF Update, Pending, TypeOK, Request
    <3>2. v = w => /\ tx'[v].obj = Stamp(tx[w].obj, Head(tx[w].plan))
                   /\ tx'[v].order = tx[v].order
      BY <1>0, <2>3 DEF Update, TypeOK, Request
    <3>3. v # w => tx'[v] = tx[v] /\ pc'[v] = pc[v]
      BY <1>0, <2>3 DEF Update, TypeOK
    <3>4. CASE v = w
      <4>1. Stamped(tx[w].obj)
        BY <1>0, <1>2, <1>e, <2>0, <3>1, <3>2, <3>4 DEF StampInv
      <4> QED BY <3>1, <3>2, <3>4, <4>1, StampKeeps
    <3> QED BY <2>1, <3>3, <3>4
  <2>4. ASSUME NEW w \in Workers, ReadSeq(w) \/ Insert(w)
        PROVE  /\ tx'[v].obj = tx[v].obj /\ tx'[v].order = tx[v].order
               /\ pc[v] # "editing"  \/ pc'[v] = pc[v]
    <3>1. CASE ReadSeq(w)
      BY <1>0, <3>1 DEF ReadSeq, TypeOK, Request
    <3>2. CASE Insert(w)
      BY <1>0, <3>2 DEF Insert, TypeOK, Request
    <3> QED BY <2>4, <3>1, <3>2
  <2>4a. ASSUME NEW w \in Workers, ReadSeq(w) \/ Insert(w) PROVE Stamped(tx'[v].obj)
    BY <1>0, <1>2, <1>e, <2>0, <2>4, <2>4a DEF StampInv
  <2>5. ASSUME NEW w \in Workers, Finish(w) PROVE Stamped(tx'[v].obj)
    <3>1. v = w => tx'[v].obj = NewRow
      BY <1>0, <2>5 DEF Finish, TypeOK, NoRequest, NewRequest
    <3>2. v # w => tx'[v] = tx[v] /\ pc'[v] = pc[v]
      BY <1>0, <2>5 DEF Finish, TypeOK
    <3>3. Stamped(NewRow)
      BY DEF Stamped, NewRow
    <3> QED BY <2>1, <3>1, <3>2, <3>3
  <2>6. ASSUME NEW w \in Workers, FormLoad(w) PROVE Stamped(tx'[v].obj)
    BY <1>0, <1>2, <2>1, <2>6, FormLoadHolds
  <2>7. \/ \E w \in Workers : \/ Load(w) \/ Update(w) \/ ReadSeq(w) \/ Insert(w)
                              \/ Finish(w) \/ FormLoad(w)
        \/ tx' = tx /\ pc' = pc
    BY DEF Next, Step, vars, Place, Refuse, Commit, FormSave, Crash, AtBound
  <2> QED BY <2>1, <2>2, <2>3, <2>4a, <2>5, <2>6, <2>7
<1> QED BY <1>1, <1>2 DEF StampInv

\* accepted_at and delivered_at agree with the status on every row that the admin's
\* form was not saved for, although services.transition saves all columns of a copy
\* that may be stale.
THEOREM StampsAgree == Spec => []StampsFollowStatus
<1>1. Init => StampInv
  <2>1. Stamped(NewRow)
    BY DEF Stamped, NewRow
  <2>2. Init => /\ \A o \in Orders : row[o] = NewRow
                /\ \A w \in Workers : tx[w].obj = NewRow
    BY DEF Init, NoRequest, NewRequest
  <2> QED BY <2>1, <2>2 DEF StampInv
<1>2. IInv /\ StampInv /\ [Next]_vars => StampInv'
  BY StampStep
<1>3. StampInv => StampsFollowStatus
  BY DEF StampInv, Stamped, StampsFollowStatus
<1> QED BY <1>1, <1>2, <1>3, Invariance, PTL DEF Spec
================================================================================
