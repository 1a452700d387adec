-------------------------------- MODULE Orders --------------------------------
(***************************************************************************)
(* orders/services.py over PostgreSQL.  A worker serves one request at a   *)
(* time.  The view loads the order BEFORE services.transition opens its    *)
(* transaction, so every guard is evaluated on a private copy that may be  *)
(* stale; inside the transaction the statements are UPDATE (takes the row  *)
(* lock and holds it to the end), SELECT max(seq), INSERT, COMMIT.  What a *)
(* transaction wrote becomes visible to the others when it commits.        *)
(* The other writer of a status is the admin's change form of an order     *)
(* (orders/admin.py), which asks nothing of the map.                       *)
(***************************************************************************)
EXTENDS OrderStates, Sequences, Naturals, FiniteSetsExt

CONSTANTS Orders,         \* order rows
          Workers,        \* processes that serve requests
          NoWorker,       \* value of a free row lock
          ForcedTargets,  \* statuses that operators name in this instance
          FormStatuses,   \* statuses that the admin's form is posted with in it
          MaxEvents,      \* bound: no request starts on an order with so many events
          MaxEdits        \* bound: no form is posted of an order saved so many times

ASSUME OrdersAssumption ==
  /\ NoWorker \notin Workers
  /\ ForcedTargets \subseteq Statuses
  /\ FormStatuses \subseteq Statuses
  /\ MaxEvents \in Nat /\ MaxEdits \in Nat

VARIABLES row,     \* committed columns of each order
          events,  \* committed OrderEvent rows of each order, oldest first
          outbox,  \* committed order.status_changed messages of each order
          edits,   \* the admin's LogEntry rows of each order, oldest first
          lock,    \* which worker's transaction holds the order's row lock
          pc,      \* where each worker is
          tx       \* each worker's request: in-memory order and uncommitted rows

vars == <<row, events, outbox, edits, lock, pc, tx>>
committed == <<row, events, outbox, edits>>

Actors == {"customer", "vendor", "operator", "courier"}

\* accepted and delivered stand for accepted_at and delivered_at being set.
Row == [status : Statuses, accepted : BOOLEAN, delivered : BOOLEAN]
Event == [seq : Nat, from : Statuses, to : Statuses]
Message == [from : Statuses, to : Statuses]
\* A LogEntry: the status that was saved, and how many audit rows there were then.
Edit == [status : Statuses, after : Nat]
Request == [order : Orders, obj : Row, plan : Seq(Statuses),
            was : Statuses, seq : Nat, evs : Seq(Event), msgs : Seq(Message)]

NewRow == [status |-> "placed", accepted |-> FALSE, delivered |-> FALSE]

Phases == {"idle", "loaded", "updated", "numbered", "editing"}

TypeOK ==
  /\ row \in [Orders -> Row]
  /\ events \in [Orders -> Seq(Event)]
  /\ outbox \in [Orders -> Seq(Message)]
  /\ edits \in [Orders -> Seq(Edit)]
  /\ lock \in [Orders -> Workers \cup {NoWorker}]
  /\ pc \in [Workers -> Phases]
  /\ tx \in [Workers -> Request]

-----------------------------------------------------------------------------
\* The order has been placed: its rows exist.
Exists(o) == events[o] # <<>>

Seqs(log) == {log[i].seq : i \in DOMAIN log}

\* (order.events.aggregate(m=Max("seq"))["m"] or 0) + 1
NextSeq(log) == IF log = <<>> THEN 1 ELSE Max(Seqs(log)) + 1

\* Mutant of Stamp: the assignment of order.status comes after order.save().
StampWithoutStatus(obj, to) == [obj EXCEPT !.accepted = @ \/ to = "accepted",
                                           !.delivered = @ \/ to = "delivered"]

\* Mutant of Stamp: accepted_at is written from a status read before the assignment.
StampWithoutAccepted(obj, to) == [obj EXCEPT !.status = to,
                                             !.delivered = @ \/ to = "delivered"]

\* The columns services.transition assigns before order.save().
Stamp(obj, to) ==
  [status    |-> to,
   accepted  |-> obj.accepted \/ to = "accepted",
   delivered |-> obj.delivered \/ to = "delivered"]

\* The status changes a request may ask for: OrderViewSet.transition's branches
\* on the caller's role (it has none for a courier, who may thus name any status
\* of an order of their own), and the two trip actions that move an order.
Asks(actor, obj) ==
  CASE actor = "customer" -> IF obj.status \in CustomerCancelStages
                               THEN {<<"cancelled_customer">>} ELSE {}
    [] actor = "vendor"   -> {<<t>> : t \in VendorTargets}
    [] actor = "operator" -> {<<t>> : t \in ForcedTargets}
    [] actor = "courier"  -> {<<"picked", "out">>, <<"delivered">>}
                               \cup {<<t>> : t \in ForcedTargets}

\* A request for the steps of plan, holding a copy obj of the order.
NewRequest(o, obj, plan) ==
  [order |-> o, obj |-> obj, plan |-> plan,
   was |-> obj.status, seq |-> 0, evs |-> <<>>, msgs |-> <<>>]

\* What tx[w] holds when the worker is idle; no action reads it.
NoRequest(o) == NewRequest(o, NewRow, <<>>)

Init ==
  /\ row = [o \in Orders |-> NewRow]
  /\ events = [o \in Orders |-> <<>>]
  /\ outbox = [o \in Orders |-> <<>>]
  /\ edits = [o \in Orders |-> <<>>]
  /\ lock = [o \in Orders |-> NoWorker]
  /\ pc = [w \in Workers |-> "idle"]
  /\ \E o \in Orders : tx = [w \in Workers |-> NoRequest(o)]

-----------------------------------------------------------------------------
\* services.place, seen from the order: row and first event appear in one commit.
Place(o) ==
  /\ ~Exists(o)
  /\ events' = [events EXCEPT ![o] =
                  <<[seq |-> NextSeq(<<>>), from |-> "placed", to |-> "placed"]>>]
  /\ UNCHANGED <<row, outbox, edits, lock, pc, tx>>

\* get_object() (or task.order) and the view's checks on the loaded copy.
Load(w) ==
  /\ pc[w] = "idle"
  /\ \E o \in Orders, actor \in Actors :
       /\ Exists(o)
       /\ Len(events[o]) < MaxEvents
       /\ \E plan \in Asks(actor, row[o]) :
            tx' = [tx EXCEPT ![w] = NewRequest(o, row[o], plan)]
  /\ pc' = [pc EXCEPT ![w] = "loaded"]
  /\ UNCHANGED <<committed, lock>>

\* Mutant of Acquire: without @transaction.atomic the lock does not outlive the UPDATE.
AcquireBriefly(w, o) == lock' = [lock EXCEPT ![o] = w]

\* The row lock, as PostgreSQL grants it to an UPDATE.
Acquire(w, o) ==
  /\ lock[o] \in {NoWorker, w}
  /\ lock' = [lock EXCEPT ![o] = w]

\* The transaction is over: its lock goes, and so does the request.
Finish(w) ==
  /\ lock' = [o \in Orders |-> IF lock[o] = w THEN NoWorker ELSE lock[o]]
  /\ pc' = [pc EXCEPT ![w] = "idle"]
  /\ tx' = [tx EXCEPT ![w] = NoRequest(tx[w].order)]

\* A step of the plan remains to be carried out.
Pending(w) == pc[w] = "loaded" /\ tx[w].plan # <<>>

\* Mutant of Update: the can() check is dropped.
UpdateUnguarded(w) ==
  /\ Pending(w)
  /\ Acquire(w, tx[w].order)
  /\ tx' = [tx EXCEPT ![w].was = tx[w].obj.status,
                      ![w].obj = Stamp(tx[w].obj, Head(tx[w].plan))]
  /\ pc' = [pc EXCEPT ![w] = "updated"]
  /\ UNCHANGED committed

\* can(order.status, to_status) holds of the copy: assign and order.save().
Update(w) ==
  LET o == tx[w].order
      to == Head(tx[w].plan)
  IN /\ Pending(w)
     /\ Can(tx[w].obj.status, to)
     /\ Acquire(w, o)
     /\ tx' = [tx EXCEPT ![w].was = tx[w].obj.status,
                         ![w].obj = Stamp(tx[w].obj, to)]
     /\ pc' = [pc EXCEPT ![w] = "updated"]
     /\ UNCHANGED committed

\* DomainError order.illegal_transition: the transaction rolls back.
Refuse(w) ==
  /\ Pending(w)
  /\ ~Can(tx[w].obj.status, Head(tx[w].plan))
  /\ Finish(w)
  /\ UNCHANGED committed

\* record_event's SELECT: the committed events and the transaction's own.
ReadSeq(w) ==
  /\ pc[w] = "updated"
  /\ tx' = [tx EXCEPT ![w].seq = NextSeq(events[tx[w].order] \o tx[w].evs)]
  /\ pc' = [pc EXCEPT ![w] = "numbered"]
  /\ UNCHANGED <<committed, lock>>

\* unique_order_seq would refuse the row about to be inserted.
SeqTaken(w) == tx[w].seq \in Seqs(events[tx[w].order])

\* Mutant of Insert: the message, too, carries order.status as from_status.
InsertNewStatusTwice(w) ==
  LET to == Head(tx[w].plan)
  IN /\ pc[w] = "numbered"
     /\ ~SeqTaken(w)
     /\ tx' = [tx EXCEPT
                 ![w].evs = Append(tx[w].evs, [seq |-> tx[w].seq,
                                               from |-> tx[w].obj.status, to |-> to]),
                 ![w].msgs = Append(tx[w].msgs, [from |-> tx[w].obj.status, to |-> to]),
                 ![w].plan = Tail(tx[w].plan)]
     /\ pc' = [pc EXCEPT ![w] = "loaded"]
     /\ UNCHANGED <<committed, lock>>

\* record_event's INSERT and OutboxMessage.emit.  order.status has already been
\* assigned, so it is the NEW status that is written as from_status; the message
\* carries the status the copy had before.
Insert(w) ==
  LET to == Head(tx[w].plan)
  IN /\ pc[w] = "numbered"
     /\ ~SeqTaken(w)
     /\ tx' = [tx EXCEPT
                 ![w].evs = Append(tx[w].evs,
                              [seq |-> tx[w].seq, from |-> tx[w].obj.status,
                               to |-> to]),
                 ![w].msgs = Append(tx[w].msgs, [from |-> tx[w].was, to |-> to]),
                 ![w].plan = Tail(tx[w].plan)]
     /\ pc' = [pc EXCEPT ![w] = "loaded"]
     /\ UNCHANGED <<committed, lock>>

Commit(w) ==
  LET o == tx[w].order
  IN /\ pc[w] = "loaded" /\ tx[w].plan = <<>>
     /\ row' = [row EXCEPT ![o] = tx[w].obj]
     /\ events' = [events EXCEPT ![o] = @ \o tx[w].evs]
     /\ outbox' = [outbox EXCEPT ![o] = @ \o tx[w].msgs]
     /\ UNCHANGED edits
     /\ Finish(w)

-----------------------------------------------------------------------------
(***************************************************************************)
(* OrderAdmin's change form, whose status is editable.                      *)
(***************************************************************************)

\* Posting the form: its transaction reads the order without a lock and puts the
\* posted status into the copy, the one chosen or the one the form was drawn with.
FormLoad(w) ==
  /\ pc[w] = "idle"
  /\ \E o \in Orders, to \in FormStatuses :
       /\ Exists(o)
       /\ Len(edits[o]) < MaxEdits
       /\ tx' = [tx EXCEPT ![w] = NewRequest(o, [row[o] EXCEPT !.status = to], <<>>)]
  /\ pc' = [pc EXCEPT ![w] = "editing"]
  /\ UNCHANGED <<committed, lock>>

\* obj.save(), log_change and COMMIT: an UPDATE of every column, the read-only
\* accepted_at and delivered_at as they were read, which waits for the row lock.
\* No can(), no stamp, no audit row and no message.
FormSave(w) ==
  LET o == tx[w].order
  IN /\ pc[w] = "editing"
     /\ lock[o] = NoWorker
     /\ row' = [row EXCEPT ![o] = tx[w].obj]
     /\ edits' = [edits EXCEPT ![o] =
                    Append(@, [status |-> tx[w].obj.status, after |-> Len(events[o])])]
     /\ UNCHANGED <<events, outbox>>
     /\ Finish(w)

-----------------------------------------------------------------------------

\* The worker or its connection dies (also: an error that is not a DomainError):
\* PostgreSQL rolls the transaction back.
Crash(w) ==
  /\ pc[w] # "idle"
  /\ Finish(w)
  /\ UNCHANGED committed

\* MaxEvents is reached everywhere: the bounded instance, not the system, stops.
AtBound ==
  /\ \A w \in Workers : pc[w] = "idle"
  /\ \A o \in Orders : Len(events[o]) >= MaxEvents
  /\ UNCHANGED vars

Step(w) == Update(w) \/ Refuse(w) \/ ReadSeq(w) \/ Insert(w) \/ Commit(w)

Next ==
  \/ \E o \in Orders : Place(o)
  \/ \E w \in Workers : Load(w) \/ Step(w) \/ FormLoad(w) \/ FormSave(w) \/ Crash(w)
  \/ AtBound

Spec == Init /\ [][Next]_vars

-----------------------------------------------------------------------------
(***************************************************************************)
(* Properties.                                                             *)
(***************************************************************************)

\* Two transactions never compute the same event number: unique_order_seq never
\* turns a legal transition into an error, because record_event reads max(seq)
\* only after order.save() has taken the row lock.
NoSeqCollision == \A w \in Workers : pc[w] = "numbered" => ~SeqTaken(w)

\* The order's form was saved later than its last audit row was written.
SavedSince(o) ==
  edits[o] # <<>> /\ edits[o][Len(edits[o])].after = Len(events[o])

\* Where the newer of its last audit row and its last LogEntry says the order is.
LastSaid(o) == IF SavedSince(o) THEN edits[o][Len(edits[o])].status
                                ELSE events[o][Len(events[o])].to

\* The audit trail is numbered 1, 2, 3, ... without a gap, and its last row says
\* where the order is unless the admin's form was saved since, however transitions
\* and forms interleave, roll back or crash: no write of a status is lost without
\* the record of the one that overwrote it.
AuditMatchesRow ==
  \A o \in Orders :
    /\ \A i \in 1..Len(events[o]) : events[o][i].seq = i
    /\ Exists(o) => row[o].status = LastSaid(o)

\* Every audit row but the first has its order.status_changed message, in the
\* same order, and the step the message announces is one of the map's: handlers
\* hear of every transition and never of an illegal one.
OutboxMirrorsAudit ==
  \A o \in Orders : Exists(o) =>
    /\ Len(outbox[o]) + 1 = Len(events[o])
    /\ \A i \in 1..Len(outbox[o]) : /\ outbox[o][i].to = events[o][i + 1].to
                                     /\ Can(outbox[o][i].from, outbox[o][i].to)

\* Although a save writes every column of a stale copy, the columns agree: an
\* order that is past acceptance has accepted_at, and delivered_at is set once
\* delivered and only on an order that was accepted.  The admin's form stamps
\* nothing, so this is about the orders it has not been saved for, other orders'
\* forms and forms that are posted but not saved notwithstanding.
StampsFollowStatus ==
  \A o \in Orders : edits[o] = <<>> =>
    LET r == row[o] IN
    /\ r.status \in {"accepted", "preparing", "ready", "picked", "out",
                      "cancelled_restaurant"} => r.accepted
    /\ r.status = "delivered" => r.delivered
    /\ r.delivered => r.accepted /\ r.status \in {"delivered", "refund_pending", "refunded"}

\* The inductive invariant behind the properties above, in named parts.

\* The worker's transaction has updated its order.
Writing(w) == pc[w] \in {"updated", "numbered"} \/ tx[w].evs # <<>>

\* A row lock is held by exactly the transaction that has updated the row.
LockInv ==
  \A w \in Workers, o \in Orders :
    lock[o] = w <=> Writing(w) /\ tx[w].order = o

\* What an unplaced order looks like.
PlacedInv ==
  \A o \in Orders : ~Exists(o) => outbox[o] = <<>> /\ row[o] = NewRow

\* The audit rows a LogEntry has counted are still there.
EditInv ==
  \A o \in Orders : \A i \in DOMAIN edits[o] : edits[o][i].after \in 1..Len(events[o])

\* Where a request stands: what it still has to do and what it has done.
RequestOK(w) ==
  LET t == tx[w]  n == Len(t.evs) IN
  /\ pc[w] = "idle" => t = NoRequest(t.order)
  /\ pc[w] # "idle" => Exists(t.order)
  /\ pc[w] = "loaded" /\ n = 0 => t.plan # <<>>
  /\ pc[w] = "loaded" /\ n > 0 => t.obj.status = t.evs[n].to
  /\ pc[w] \in {"updated", "numbered"} =>
       t.plan # <<>> /\ t.obj.status = Head(t.plan) /\ Can(t.was, t.obj.status)

RequestInv == \A w \in Workers : RequestOK(w)

\* Rows that can follow a log of length base, and the messages about them.
Continues(base, evs, msgs) ==
  /\ Len(msgs) = Len(evs)
  /\ \A j \in 1..Len(evs) : /\ evs[j].seq = base + j
                            /\ msgs[j].to = evs[j].to
                            /\ Can(msgs[j].from, msgs[j].to)

\* The rows a transaction is about to commit continue the order's log and outbox.
BufferOK(w) ==
  LET t == tx[w]  base == Len(events[t.order]) IN
  /\ Continues(base, t.evs, t.msgs)
  /\ pc[w] = "numbered" => t.seq = base + Len(t.evs) + 1

BufferInv == \A w \in Workers : BufferOK(w)

IInv == /\ TypeOK /\ LockInv /\ PlacedInv /\ EditInv /\ RequestInv /\ BufferInv
        /\ AuditMatchesRow /\ OutboxMirrorsAudit

\* What orders/state_machine.py says: "order transitions are legal only through
\* this map".  Two requests that loaded the same order refute it.
LegalHistory ==
  \A o \in Orders : \A i \in 1..Len(events[o]) - 1 :
    Can(events[o][i].to, events[o][i + 1].to)

\* What orders/admin.py says: "every mutation keeps its audit event".  The form
\* of the class that says so refutes it.
EveryMutationAudited ==
  \A o \in Orders : Exists(o) => row[o].status = events[o][Len(events[o])].to
================================================================================
