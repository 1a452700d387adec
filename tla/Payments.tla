------------------------------- MODULE Payments -------------------------------
(***************************************************************************)
(* How money is taken: payments.services.start and capture, the two outbox *)
(* handlers of payments/handlers.py, the PSP webhook and the numbering of  *)
(* invoices.  A capture is a transaction of several statements on a        *)
(* payment that was loaded before; the UPDATE of the payment takes its row *)
(* lock, the invoice number is read from what is committed, and a number   *)
(* that is taken meanwhile rolls everything back.                          *)
(***************************************************************************)
EXTENDS Books, FiniteSetsExt

CONSTANT EventIds  \* ids of the events the PSP may send about an order

VARIABLES announced,  \* <<order, to_status>> messages that have been emitted
          outbox,     \* those that are not processed yet
          seen,       \* WebhookEvent rows
          acked,      \* events the PSP has a 200 for
          lock,       \* which process holds the payment's row lock
          tx,         \* where each process is
          crashes

vars == <<pay, ledger, invoice, announced, outbox, seen, acked, lock, tx, crashes>>
books == <<pay, ledger, invoice>>
bus == <<announced, outbox, seen, acked>>

Cancelled == "cancelled"  \* stands for the four statuses of void_unpaid_on_cancellation

Payment == [state : {"none", "initiated", "captured", "voided"},
            gateway : {"none", "cod", "stripe"}]
Messages == Sales \X {"delivered", Cancelled}
Events == Sales \X EventIds

\* A process's work: for the sake of a message or of an event; state is the copy
\* of payment.state, number the invoice number it is about to use.
Work == [at : {"idle", "received", "loaded", "updated", "numbered", "done"},
         for : Messages \cup Events \cup {<<>>},
         state : {"none", "initiated", "captured", "voided"}, number : Nat]

NoWork == [at |-> "idle", for |-> <<>>, state |-> "none", number |-> 0]

TypeOK ==
  /\ pay \in [Sales -> Payment]
  /\ ledger \in [Sales -> Nat]
  /\ invoice \in [Sales -> Nat]
  /\ announced \subseteq Messages /\ outbox \subseteq announced
  /\ seen \subseteq Events /\ acked \subseteq seen
  /\ lock \in [Sales -> Procs \cup {Nobody}]
  /\ tx \in [Procs -> Work]
  /\ crashes \in 0..MaxCrashes

Init ==
  /\ pay = [o \in Sales |-> [state |-> "none", gateway |-> "none"]]
  /\ ledger = [o \in Sales |-> 0]
  /\ invoice = [o \in Sales |-> 0]
  /\ announced = {} /\ outbox = {} /\ seen = {} /\ acked = {}
  /\ lock = [o \in Sales |-> Nobody]
  /\ tx = [p \in Procs |-> NoWork]
  /\ crashes = 0

OrderOf(p) == tx[p].for[1]

-----------------------------------------------------------------------------
\* Mutant of Start: a state of ARCHITECTURE.md that Payment.State does not have.
StartPending(o, g) ==
  /\ pay[o].state = "none"
  /\ pay' = [pay EXCEPT ![o] = [state |-> "pending", gateway |-> g]]
  /\ UNCHANGED <<ledger, invoice, bus, lock, tx, crashes>>

\* services.start: a row is created once; later calls return it or fail, on the
\* guard or on the OneToOne column, whatever has become of the order.
Start(o, g) ==
  /\ pay[o].state = "none"
  /\ pay' = [pay EXCEPT ![o] = [state |-> "initiated", gateway |-> g]]
  /\ UNCHANGED <<ledger, invoice, bus, lock, tx, crashes>>

\* The order service commits a transition with its message.  Overlapping requests
\* may announce a delivery and a cancellation of one order, in either order.
Announce(m) ==
  /\ m \notin announced
  /\ announced' = announced \cup {m}
  /\ outbox' = outbox \cup {m}
  /\ UNCHANGED <<books, seen, acked, lock, tx, crashes>>

Begin(p, for, at, state) ==
  tx' = [tx EXCEPT ![p] = [NoWork EXCEPT !.at = at, !.for = for, !.state = state]]

\* The PSP sends an event until it gets a 200.  WebhookEvent.get_or_create is a
\* transaction of its own: a second delivery is acknowledged unread.
Post(w) ==
  /\ tx[w].at = "idle"
  /\ \E e \in Events \ acked :
       \/ /\ e \in seen
          /\ acked' = acked \cup {e}
          /\ UNCHANGED <<seen, tx>>
       \/ /\ e \notin seen
          /\ seen' = seen \cup {e}
          /\ Begin(w, e, "received", "none")
          /\ UNCHANGED acked
  /\ UNCHANGED <<books, announced, outbox, lock, crashes>>

\* The event is not "payment_intent.succeeded", or its order has no payment.
Ignore(w) ==
  /\ tx[w].at = "received"
  /\ tx' = [tx EXCEPT ![w].at = "done"]
  /\ UNCHANGED <<books, bus, lock, crashes>>

\* The webhook loads the payment it is about to capture, whatever its gateway.
Load(w) ==
  /\ tx[w].at = "received" /\ pay[OrderOf(w)].state # "none"
  /\ tx' = [tx EXCEPT ![w].at = "loaded", ![w].state = pay[OrderOf(w)].state]
  /\ UNCHANGED <<books, bus, lock, crashes>>

\* cod_settle_on_delivery: an uncaptured COD payment is loaded for capture.
Settle(p) ==
  /\ tx[p].at = "idle"
  /\ \E o \in Sales :
       /\ <<o, "delivered">> \in outbox
       /\ Begin(p, <<o, "delivered">>,
                IF pay[o].gateway = "cod" /\ pay[o].state # "captured"
                  THEN "loaded" ELSE "done",
                pay[o].state)
  /\ UNCHANGED <<books, bus, lock, crashes>>

\* Mutant of Voidable: the UPDATE does not look at the payment's state.
VoidableAny(o) == pay[o].gateway = "stripe"

\* The rows the UPDATE of void_unpaid_on_cancellation selects.
Voidable(o) == pay[o].state = "initiated" /\ pay[o].gateway # "cod"

\* void_unpaid_on_cancellation, one UPDATE that waits for the row if it is locked.
Void(p) ==
  /\ tx[p].at = "idle"
  /\ \E o \in Sales :
       /\ <<o, Cancelled>> \in outbox
       /\ lock[o] = Nobody
       /\ pay' = IF Voidable(o) THEN [pay EXCEPT ![o].state = "voided"] ELSE pay
       /\ Begin(p, <<o, Cancelled>>, "done", "none")
  /\ UNCHANGED <<ledger, invoice, bus, lock, crashes>>

-----------------------------------------------------------------------------
(***************************************************************************)
(* services.capture.                                                        *)
(***************************************************************************)
Release(p) == lock' = [o \in Sales |-> IF lock[o] = p THEN Nobody ELSE lock[o]]

\* "return payment  # idempotent", judged by the copy.
Skip(p) ==
  /\ tx[p].at = "loaded" /\ tx[p].state = "captured"
  /\ tx' = [tx EXCEPT ![p].at = "done"]
  /\ UNCHANGED <<books, bus, lock, crashes>>

\* Mutant of Update: the check of payment.state is gone.
UpdateAgain(p) ==
  /\ tx[p].at = "loaded"
  /\ lock[OrderOf(p)] = Nobody
  /\ lock' = [lock EXCEPT ![OrderOf(p)] = p]
  /\ tx' = [tx EXCEPT ![p].at = "updated"]
  /\ UNCHANGED <<books, bus, crashes>>

\* payment.save(): the row is locked until the transaction ends.
Update(p) ==
  /\ tx[p].at = "loaded" /\ tx[p].state # "captured"
  /\ lock[OrderOf(p)] = Nobody
  /\ lock' = [lock EXCEPT ![OrderOf(p)] = p]
  /\ tx' = [tx EXCEPT ![p].at = "updated"]
  /\ UNCHANGED <<books, bus, crashes>>

\* Invoice.get_or_create reads the order's invoice, and if there is none
\* Invoice.save the highest number of the series.
Number(p) ==
  /\ tx[p].at = "updated"
  /\ tx' = [tx EXCEPT ![p].at = "numbered",
                      ![p].number = IF invoice[OrderOf(p)] # 0
                                      THEN invoice[OrderOf(p)]
                                      ELSE Max(Issued \cup {0}) + 1]
  /\ UNCHANGED <<books, bus, lock, crashes>>

\* Mutant of Taken: full_number is not unique.
TakenNever(p) == FALSE

\* Another order's invoice has been committed under the number.
Taken(p) == invoice[OrderOf(p)] = 0 /\ tx[p].number \in Issued

\* State, ledger batch, invoice and message appear in one commit.
Commit(p) ==
  LET o == OrderOf(p) IN
  /\ tx[p].at = "numbered" /\ ~Taken(p)
  /\ pay' = [pay EXCEPT ![o].state = "captured"]
  /\ ledger' = [ledger EXCEPT ![o] = @ + 1]
  /\ invoice' = [invoice EXCEPT ![o] = tx[p].number]
  /\ Release(p)
  /\ tx' = [tx EXCEPT ![p].at = "done"]
  /\ UNCHANGED <<bus, crashes>>

\* IntegrityError: the transaction rolls back.  The webhook answers 500; the pump
\* swallows the error and goes on to mark the message.
Fail(p) ==
  /\ tx[p].at = "numbered" /\ Taken(p)
  /\ Release(p)
  /\ tx' = IF p \in Web THEN [tx EXCEPT ![p] = NoWork]
                        ELSE [tx EXCEPT ![p].at = "done"]
  /\ UNCHANGED <<books, bus, crashes>>

\* The event is answered with 200, or the message marked as processed.
Finish(p) ==
  /\ tx[p].at = "done"
  /\ acked' = (IF p \in Web THEN acked \cup {tx[p].for} ELSE acked)
  /\ outbox' = (IF p \in Pumps THEN outbox \ {tx[p].for} ELSE outbox)
  /\ tx' = [tx EXCEPT ![p] = NoWork]
  /\ UNCHANGED <<books, announced, seen, lock, crashes>>

\* A process dies; PostgreSQL rolls its transaction back.
Crash(p) ==
  /\ tx[p].at # "idle" /\ crashes < MaxCrashes
  /\ crashes' = crashes + 1
  /\ Release(p)
  /\ tx' = [tx EXCEPT ![p] = NoWork]
  /\ UNCHANGED <<books, bus>>

\* Everything has been announced, processed and acknowledged.
Quiet ==
  /\ announced = Messages /\ outbox = {}
  /\ \A o \in Sales : pay[o].state # "none"
  /\ \A p \in Procs : tx[p].at = "idle"
  /\ UNCHANGED vars

Capture(p) == Skip(p) \/ Update(p) \/ Number(p) \/ Commit(p) \/ Fail(p) \/ Finish(p)
PumpStep(p) == Settle(p) \/ Void(p) \/ Capture(p)

Next ==
  \/ \E o \in Sales, g \in {"cod", "stripe"} : Start(o, g)
  \/ \E m \in Messages : Announce(m)
  \/ \E w \in Web : Post(w) \/ Ignore(w) \/ Load(w)
  \/ \E p \in Pumps : Settle(p) \/ Void(p)
  \/ \E p \in Procs : Capture(p) \/ Crash(p)
  \/ Quiet

Spec == Init /\ [][Next]_vars

\* Pumps are run again and again, requests in hand are carried on, and whoever
\* waits for a row lock gets it; customers, the order service and the PSP need
\* not do anything.
FairSpec == /\ Spec
            /\ \A p \in Pumps : WF_vars(PumpStep(p)) /\ SF_vars(Update(p)) /\ SF_vars(Void(p))
            /\ \A w \in Web : WF_vars(Ignore(w) \/ Load(w) \/ Capture(w)) /\ SF_vars(Update(w))

-----------------------------------------------------------------------------
(***************************************************************************)
(* Properties.                                                              *)
(***************************************************************************)

\* What capture's second line promises, "return payment  # idempotent": a payment
\* is captured once.
CaptureOnce == \A o \in Sales : ledger[o] <= 1

\* What cod_settle_on_delivery promises, "COD payments are captured the moment an
\* order is delivered": one that is there before a pump takes up the delivery
\* message is captured in the end.
CodSettles ==
  \A o \in Sales :
    (/\ <<o, "delivered">> \in outbox
     /\ pay[o] = [state |-> "initiated", gateway |-> "cod"]
     /\ \A p \in Pumps : tx[p].for # <<o, "delivered">>)
      ~> pay[o].state = "captured"
================================================================================
