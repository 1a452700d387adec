---------------------------- MODULE PaymentsProofs ----------------------------
(***************************************************************************)
(* Proofs about Payments, for any sets of orders, pumps and web workers.   *)
(***************************************************************************)
EXTENDS Payments, FiniteSetTheorems, TLAPS

\* Invoice numbers run from 1 without a gap, and no two orders share one.
Dense == \E n \in Nat : Issued = 1..n
Unshared == \A o, q \in Sales : invoice[o] # 0 /\ invoice[o] = invoice[q] => o = q

\* A number that was read is the order's own, or follows one that has been issued.
NumberOK(p) ==
  /\ tx[p].number # 0
  /\ IF invoice[OrderOf(p)] # 0 THEN tx[p].number = invoice[OrderOf(p)]
                                ELSE tx[p].number - 1 \in Issued \cup {0}

\* What a process holds: its message or its event, the row lock from the UPDATE
\* on, and a number that can still be right.
WorkOK(p) ==
  /\ tx[p].at # "idle" => /\ p \in Web => tx[p].for \in seen
                          /\ p \in Pumps => tx[p].for \in Messages
  /\ tx[p].at \in {"updated", "numbered"} => lock[OrderOf(p)] = p
  /\ tx[p].at = "numbered" => NumberOK(p)

WorkInv == \A p \in Procs : WorkOK(p)

IInv == TypeOK /\ BooksMatchPayment /\ Dense /\ Unshared /\ WorkInv

-----------------------------------------------------------------------------
(***************************************************************************)
(* Types.                                                                   *)
(***************************************************************************)

\* Whoever works has an order to work for.
LEMMA OrderTyped ==
  ASSUME TypeOK, NEW p \in Procs, WorkOK(p), tx[p].at # "idle"
  PROVE  OrderOf(p) \in Sales
<1>1. tx[p].for \in Messages \cup Events
  BY DEF WorkOK, TypeOK, Procs
<1>2. \A o \in Sales : \A x : <<o, x>>[1] \in Sales
  OBVIOUS
<1>3. CASE tx[p].for \in Messages
  BY <1>2, <1>3 DEF Messages, OrderOf
<1>4. CASE tx[p].for \in Events
  BY <1>2, <1>4 DEF Events, OrderOf
<1> QED BY <1>1, <1>3, <1>4

\* A record with three of its fields replaced.
LEMMA Refilled ==
  ASSUME NEW A, NEW F, NEW S, NEW N, NEW w \in [at : A, for : F, state : S, number : N],
         NEW at \in A, NEW for \in F, NEW state \in S
  PROVE  LET v == [w EXCEPT !.at = at, !.for = for, !.state = state] IN
         /\ v \in [at : A, for : F, state : S, number : N]
         /\ v.at = at /\ v.for = for /\ v.state = state
OBVIOUS

\* Work that has just begun is work.
LEMMA BeginTyped ==
  ASSUME TypeOK, NEW p \in Procs, NEW for \in Messages \cup Events,
         NEW at \in {"received", "loaded", "done"},
         NEW state \in {"none", "initiated", "captured", "voided"},
         Begin(p, for, at, state)
  PROVE  /\ tx' \in [Procs -> Work]
         /\ tx'[p].at = at /\ tx'[p].for = for /\ tx'[p].state = state
         /\ \A q \in Procs \ {p} : tx'[q] = tx[q]
<1>1. PICK w \in Work : w = NoWork
  BY DEF Work, NoWork
<1> DEFINE v == [w EXCEPT !.at = at, !.for = for, !.state = state]
<1>2. v \in Work /\ v.at = at /\ v.for = for /\ v.state = state
  BY Refilled DEF Work
<1>3. tx' = [tx EXCEPT ![p] = v]
  BY <1>1 DEF Begin
<1> HIDE DEF v
<1> QED BY <1>2, <1>3 DEF TypeOK

\* A process that moves on keeps the rest of its work.
LEMMA MoveTyped ==
  ASSUME TypeOK, NEW p \in Procs,
         NEW at \in {"idle", "received", "loaded", "updated", "numbered", "done"},
         tx' = [tx EXCEPT ![p].at = at]
  PROVE  /\ tx' \in [Procs -> Work]
         /\ tx'[p].at = at /\ tx'[p].for = tx[p].for /\ tx'[p].state = tx[p].state
         /\ tx'[p].number = tx[p].number
         /\ \A q \in Procs \ {p} : tx'[q] = tx[q]
BY DEF TypeOK, Work

\* A process that stops has no work.
LEMMA StopTyped ==
  ASSUME TypeOK, NEW p \in Procs, tx' = [tx EXCEPT ![p] = NoWork]
  PROVE  /\ tx' \in [Procs -> Work]
         /\ tx'[p].at = "idle"
         /\ \A q \in Procs \ {p} : tx'[q] = tx[q]
BY DEF TypeOK, Work, NoWork

\* Releasing leaves the locks of the others alone.
LEMMA ReleaseTyped ==
  ASSUME TypeOK, NEW p \in Procs, Release(p)
  PROVE  /\ lock' \in [Sales -> Procs \cup {Nobody}]
         /\ \A o \in Sales : lock[o] # p => lock'[o] = lock[o]
BY DEF TypeOK, Release

\* Invoice numbers are positive.
LEMMA IssuedTyped ==
  ASSUME TypeOK
  PROVE  /\ Issued \subseteq Nat \ {0}
         /\ \A o \in Sales : invoice[o] # 0 => invoice[o] \in Issued
BY DEF TypeOK, Issued

\* The highest of 0, 1, ..., n is n.
LEMMA HighestOf ==
  ASSUME NEW n \in Nat
  PROVE  Max(1..n \cup {0}) = n
<1>1. n \in 1..n \cup {0} /\ \A y \in 1..n \cup {0} : n >= y
  OBVIOUS
<1>2. \A x : x \in 1..n \cup {0} /\ (\A y \in 1..n \cup {0} : x >= y) => x = n
  <2>1. \A x \in 1..n \cup {0} : x >= n => x = n
    OBVIOUS
  <2> QED BY <1>1, <2>1
<1> QED BY <1>1, <1>2 DEF Max

\* The number a capture reads is right when it is read.
LEMMA NumberTyped ==
  ASSUME IInv, NEW p \in Procs, Number(p)
  PROVE  /\ tx' \in [Procs -> Work]
         /\ tx'[p].at = "numbered" /\ tx'[p].for = tx[p].for /\ tx'[p].state = tx[p].state
         /\ tx'[p].number \in Nat \ {0}
         /\ IF invoice[OrderOf(p)] # 0 THEN tx'[p].number = invoice[OrderOf(p)]
                                       ELSE tx'[p].number - 1 \in Issued \cup {0}
         /\ \A q \in Procs \ {p} : tx'[q] = tx[q]
<1> DEFINE k == IF invoice[OrderOf(p)] # 0 THEN invoice[OrderOf(p)]
                                           ELSE Max(Issued \cup {0}) + 1
<1>1. OrderOf(p) \in Sales
  BY OrderTyped DEF IInv, WorkInv, Number
<1>2. PICK n \in Nat : Issued = 1..n
  BY DEF IInv, Dense
<1>3. Max(Issued \cup {0}) = n
  BY <1>2, HighestOf
<1>4. k \in Nat \ {0} /\ (invoice[OrderOf(p)] = 0 => k - 1 = n /\ n \in Issued \cup {0})
  <2>1. invoice[OrderOf(p)] \in Nat
    BY <1>1 DEF IInv, TypeOK
  <2> QED BY <1>2, <1>3, <2>1
<1>5. tx' = [tx EXCEPT ![p].at = "numbered", ![p].number = k]
  BY DEF Number
<1> HIDE DEF k
<1>6. PICK m \in Nat \ {0} : m = k
  BY <1>4
<1>7. /\ tx' \in [Procs -> Work]
      /\ tx'[p].at = "numbered" /\ tx'[p].for = tx[p].for /\ tx'[p].state = tx[p].state
      /\ tx'[p].number = m
      /\ \A q \in Procs \ {p} : tx'[q] = tx[q]
  BY <1>5, <1>6 DEF IInv, TypeOK, Work
<1> QED BY <1>4, <1>6, <1>7 DEF k

-----------------------------------------------------------------------------
(***************************************************************************)
(* What a commit does to the numbers.                                       *)
(***************************************************************************)

\* A commit issues the order's own number again, or the first one that is free.
LEMMA CommitNumbers ==
  ASSUME IInv, NEW p \in Procs, Commit(p)
  PROVE  LET o == OrderOf(p)  k == tx[p].number IN
         /\ o \in Sales /\ lock[o] = p /\ k \in Nat \ {0}
         /\ invoice' \in [Sales -> Nat] /\ invoice'[o] = k
         /\ \A q \in Sales \ {o} : invoice'[q] = invoice[q]
         /\ Issued' = Issued \cup {k}
         /\ invoice[o] # 0 => invoice[o] = k
         /\ invoice[o] = 0 => k \notin Issued /\ k - 1 \in Issued \cup {0}
<1> DEFINE o == OrderOf(p)
<1> DEFINE k == tx[p].number
<1>1. o \in Sales
  BY OrderTyped DEF IInv, WorkInv, Commit
<1>2. lock[o] = p /\ NumberOK(p)
  BY DEF IInv, WorkInv, WorkOK, Commit
<1>3. k \in Nat \ {0}
  BY <1>2 DEF IInv, TypeOK, Work, NumberOK
<1>4. invoice' \in [Sales -> Nat] /\ invoice'[o] = k
      /\ \A q \in Sales \ {o} : invoice'[q] = invoice[q]
  BY <1>1, <1>3 DEF IInv, TypeOK, Commit
<1>5. invoice[o] # 0 => invoice[o] = k
  BY <1>2 DEF NumberOK
<1>6. invoice[o] = 0 => k \notin Issued /\ k - 1 \in Issued \cup {0}
  BY <1>2 DEF NumberOK, Commit, Taken
<1>7. Issued' = Issued \cup {k}
  <2> HIDE DEF o, k
  <2>1. ASSUME NEW x PROVE x \in Issued' => x \in Issued \cup {k}
    BY <1>1, <1>4 DEF Issued
  <2>2. ASSUME NEW x \in Issued PROVE x \in Issued'
    <3>1. PICK q \in Sales : x = invoice[q] /\ x # 0
      BY DEF Issued
    <3>2. invoice'[q] = x
      BY <1>4, <1>5, <3>1
    <3> QED BY <3>1, <3>2 DEF Issued
  <2>3. k \in Issued'
    BY <1>1, <1>3, <1>4 DEF Issued
  <2> QED BY <2>1, <2>2, <2>3
<1> QED BY <1>1, <1>2, <1>3, <1>4, <1>5, <1>6, <1>7

\* No invoice has changed.
LEMMA NumbersFrame ==
  ASSUME IInv, UNCHANGED invoice
  PROVE  Dense' /\ Unshared' /\ Issued' = Issued
BY DEF IInv, Dense, Unshared, Issued

-----------------------------------------------------------------------------
(***************************************************************************)
(* The steps.                                                               *)
(***************************************************************************)

\* A step is one of the actions, or nothing changes.
LEMMA Steps ==
  ASSUME [Next]_vars
  PROVE  \/ \E o \in Sales, g \in {"cod", "stripe"} : Start(o, g)
         \/ \E m \in Messages : Announce(m)
         \/ \E w \in Web : Post(w) \/ Load(w)
         \/ \E p \in Pumps : Settle(p) \/ Void(p)
         \/ \E p \in Procs : \/ Ignore(p) \/ Skip(p) \/ Update(p) \/ Number(p)
                             \/ Commit(p) \/ Fail(p) \/ Finish(p) \/ Crash(p)
         \/ UNCHANGED vars
BY DEF Next, Capture, Quiet, Procs

\* The UPDATE locks the row and changes nothing else.
LEMMA UpdateTyped ==
  ASSUME IInv, NEW p \in Procs, Update(p)
  PROVE  LET o == OrderOf(p) IN
         /\ o \in Sales /\ lock[o] = Nobody
         /\ lock' \in [Sales -> Procs \cup {Nobody}] /\ lock'[o] = p
         /\ \A q \in Sales \ {o} : lock'[q] = lock[q]
<1>1. OrderOf(p) \in Sales
  BY OrderTyped DEF IInv, WorkInv, Update
<1> QED BY <1>1 DEF IInv, TypeOK, Update

\* Finishing acknowledges an event that is on record, or takes a message out.
LEMMA FinishTyped ==
  ASSUME IInv, NEW p \in Procs, Finish(p)
  PROVE  acked' \subseteq seen' /\ outbox' \subseteq announced'
<1>1. p \in Web => tx[p].for \in seen
  BY DEF IInv, WorkInv, WorkOK, Finish
<1> QED BY <1>1 DEF IInv, TypeOK, Finish

\* The payment and the ledger after a commit.
LEMMA CommitTyped ==
  ASSUME IInv, NEW p \in Procs, Commit(p)
  PROVE  LET o == OrderOf(p) IN
         /\ pay' \in [Sales -> Payment] /\ pay'[o].state = "captured"
         /\ ledger' \in [Sales -> Nat] /\ ledger'[o] = ledger[o] + 1
         /\ \A q \in Sales \ {o} : pay'[q] = pay[q] /\ ledger'[q] = ledger[q]
         /\ \A q \in Sales : pay'[q].gateway = pay[q].gateway
<1>1. OrderOf(p) \in Sales
  BY CommitNumbers
<1> QED BY <1>1 DEF IInv, TypeOK, Payment, Commit

\* The types are kept.
LEMMA TypeStep == ASSUME IInv, [Next]_vars PROVE TypeOK'
<1> USE DEF IInv
<1>1. CASE \E o \in Sales, g \in {"cod", "stripe"} : Start(o, g)
  BY <1>1 DEF Start, TypeOK, Payment, bus
<1>2. CASE \E m \in Messages : Announce(m)
  BY <1>2 DEF Announce, TypeOK, books
<1>3. CASE \E w \in Web : Post(w)
  <2>1. PICK w \in Web, e \in Events :
          /\ UNCHANGED <<books, announced, outbox, lock, crashes>>
          /\ \/ e \in seen /\ acked' = acked \cup {e} /\ UNCHANGED <<seen, tx>>
             \/ /\ seen' = seen \cup {e} /\ UNCHANGED acked
                /\ Begin(w, e, "received", "none")
    BY <1>3 DEF Post
  <2>2. w \in Procs
    BY DEF Procs
  <2>3. CASE UNCHANGED <<seen, tx>> /\ e \in seen /\ acked' = acked \cup {e}
    BY <2>1, <2>3 DEF TypeOK, books
  <2>4. CASE Begin(w, e, "received", "none") /\ seen' = seen \cup {e} /\ UNCHANGED acked
    <3>1. tx' \in [Procs -> Work]
      BY <2>2, <2>4, BeginTyped
    <3> QED BY <2>1, <2>2, <2>4, <3>1 DEF TypeOK, books
  <2> QED BY <2>1, <2>3, <2>4
<1>4. CASE \E w \in Web : Load(w)
  <2>1. PICK w \in Web : Load(w)
    BY <1>4
  <2>2. w \in Procs /\ OrderOf(w) \in Sales
    BY <2>1, OrderTyped DEF Load, WorkInv, Procs
  <2>3. pay[OrderOf(w)].state \in {"none", "initiated", "captured", "voided"}
    BY <2>2 DEF TypeOK, Payment
  <2>4. tx' \in [Procs -> Work]
    BY <2>1, <2>2, <2>3 DEF TypeOK, Work, Load
  <2> QED BY <2>1, <2>4 DEF Load, TypeOK, books, bus
<1>5. CASE \E p \in Pumps : Settle(p)
  <2>1. PICK p \in Pumps, o \in Sales, at \in {"loaded", "done"} :
          /\ <<o, "delivered">> \in outbox
          /\ Begin(p, <<o, "delivered">>, at, pay[o].state)
          /\ UNCHANGED <<books, bus, lock, crashes>>
    BY <1>5 DEF Settle
  <2>2. /\ p \in Procs /\ <<o, "delivered">> \in Messages
        /\ pay[o].state \in {"none", "initiated", "captured", "voided"}
    BY <2>1 DEF TypeOK, Payment, Procs, Messages
  <2>3. tx' \in [Procs -> Work]
    BY <2>1, <2>2, BeginTyped
  <2> QED BY <2>1, <2>3 DEF TypeOK, books, bus
<1>6. CASE \E p \in Pumps : Void(p)
  <2>1. PICK p \in Pumps, o \in Sales :
          /\ pay' = IF Voidable(o) THEN [pay EXCEPT ![o].state = "voided"] ELSE pay
          /\ Begin(p, <<o, Cancelled>>, "done", "none")
          /\ UNCHANGED <<ledger, invoice, bus, lock, crashes>>
    BY <1>6 DEF Void
  <2>2. p \in Procs /\ <<o, Cancelled>> \in Messages
    BY DEF Procs, Messages
  <2>3. tx' \in [Procs -> Work]
    BY <2>1, <2>2, BeginTyped
  <2>4. pay' \in [Sales -> Payment]
    BY <2>1 DEF TypeOK, Payment
  <2> QED BY <2>1, <2>3, <2>4 DEF TypeOK, bus
<1>7. CASE \E p \in Procs : Ignore(p) \/ Skip(p)
  <2>1. PICK p \in Procs : Ignore(p) \/ Skip(p)
    BY <1>7
  <2>2. tx' \in [Procs -> Work]
    BY <2>1, MoveTyped DEF Ignore, Skip
  <2> QED BY <2>1, <2>2 DEF Ignore, Skip, TypeOK, books, bus
<1>8. CASE \E p \in Procs : Update(p)
  <2>1. PICK p \in Procs : Update(p)
    BY <1>8
  <2>2. tx' \in [Procs -> Work]
    BY <2>1, MoveTyped DEF Update
  <2> QED BY <2>1, <2>2, UpdateTyped DEF Update, TypeOK, books, bus
<1>9. CASE \E p \in Procs : Number(p)
  <2>1. PICK p \in Procs : Number(p)
    BY <1>9
  <2> QED BY <2>1, NumberTyped DEF Number, TypeOK, books, bus
<1>10. CASE \E p \in Procs : Commit(p)
  <2>1. PICK p \in Procs : Commit(p)
    BY <1>10
  <2>2. tx' \in [Procs -> Work]
    BY <2>1, MoveTyped DEF Commit
  <2>3. /\ pay' \in [Sales -> Payment] /\ ledger' \in [Sales -> Nat]
        /\ invoice' \in [Sales -> Nat] /\ lock' \in [Sales -> Procs \cup {Nobody}]
    BY <2>1, CommitTyped, CommitNumbers, ReleaseTyped DEF Commit
  <2> QED BY <2>1, <2>2, <2>3 DEF Commit, TypeOK, bus
<1>11. CASE \E p \in Procs : Fail(p)
  <2>1. PICK p \in Procs : Fail(p)
    BY <1>11
  <2>2. tx' \in [Procs -> Work] /\ lock' \in [Sales -> Procs \cup {Nobody}]
    BY <2>1, MoveTyped, StopTyped, ReleaseTyped DEF Fail
  <2> QED BY <2>1, <2>2 DEF Fail, TypeOK, books, bus
<1>12. CASE \E p \in Procs : Finish(p)
  <2>1. PICK p \in Procs : Finish(p)
    BY <1>12
  <2>2. tx' \in [Procs -> Work] /\ acked' \subseteq seen' /\ outbox' \subseteq announced'
    BY <2>1, StopTyped, FinishTyped DEF Finish
  <2> QED BY <2>1, <2>2 DEF Finish, TypeOK, books
<1>13. CASE \E p \in Procs : Crash(p)
  <2>1. PICK p \in Procs : Crash(p)
    BY <1>13
  <2>2. tx' \in [Procs -> Work] /\ lock' \in [Sales -> Procs \cup {Nobody}]
    BY <2>1, StopTyped, ReleaseTyped DEF Crash
  <2>3. crashes' \in 0..MaxCrashes
    BY <2>1, ProcessesAssumption DEF Crash, TypeOK
  <2> QED BY <2>1, <2>2, <2>3 DEF Crash, TypeOK, books, bus
<1>14. CASE UNCHANGED vars
  BY <1>14 DEF vars, TypeOK
<1> QED BY Steps, <1>1, <1>2, <1>3, <1>4, <1>5, <1>6, <1>7, <1>8, <1>9, <1>10,
           <1>11, <1>12, <1>13, <1>14

\* State, ledger and invoice of an order only move together.
LEMMA BooksStep == ASSUME IInv, [Next]_vars PROVE BooksMatchPayment'
<1>1. CASE UNCHANGED books
  BY <1>1 DEF IInv, BooksMatchPayment, books
<1>2. CASE \E o \in Sales, g \in {"cod", "stripe"} : Start(o, g)
  BY <1>2 DEF IInv, BooksMatchPayment, TypeOK, Start
<1>3. CASE \E p \in Pumps : Void(p)
  BY <1>3 DEF IInv, BooksMatchPayment, TypeOK, Payment, Void, Voidable
<1>4. CASE \E p \in Procs : Commit(p)
  <2>1. PICK p \in Procs : Commit(p)
    BY <1>4
  <2>2. PICK o \in Sales :
          /\ pay'[o].state = "captured" /\ ledger'[o] = ledger[o] + 1 /\ invoice'[o] # 0
          /\ \A q \in Sales \ {o} : /\ pay'[q] = pay[q] /\ ledger'[q] = ledger[q]
                                     /\ invoice'[q] = invoice[q]
    BY <2>1, CommitTyped, CommitNumbers
  <2>3. ledger[o] \in Nat
    BY DEF IInv, TypeOK
  <2> QED BY <2>2, <2>3 DEF IInv, BooksMatchPayment
<1> QED
  <2>1. \/ \E o \in Sales, g \in {"cod", "stripe"} : Start(o, g)
        \/ \E p \in Pumps : Void(p)
        \/ \E p \in Procs : Commit(p)
        \/ UNCHANGED books
    BY Steps DEF Announce, Post, Load, Settle, Ignore, Skip, Update, Number, Fail, Finish,
                 Crash, vars, books
  <2> QED BY <1>1, <1>2, <1>3, <1>4, <2>1

\* A commit uses the next number: the lock keeps the order's own invoice from
\* appearing meanwhile, the unique number that of another order.
LEMMA NumbersStep == ASSUME IInv, [Next]_vars PROVE Dense' /\ Unshared' /\ Issued \subseteq Issued'
<1>1. CASE UNCHANGED invoice
  BY <1>1, NumbersFrame
<1>2. CASE \E p \in Procs : Commit(p)
  <2>1. PICK p \in Procs : Commit(p)
    BY <1>2
  <2>2. PICK o \in Sales, k \in Nat \ {0} :
          /\ invoice' \in [Sales -> Nat] /\ invoice'[o] = k
          /\ \A q \in Sales \ {o} : invoice'[q] = invoice[q]
          /\ Issued' = Issued \cup {k}
          /\ invoice[o] # 0 => invoice[o] = k
          /\ invoice[o] = 0 => k \notin Issued /\ k - 1 \in Issued \cup {0}
    BY <2>1, CommitNumbers
  <2>3. PICK n \in Nat : Issued = 1..n
    BY DEF IInv, Dense
  <2>4. CASE invoice[o] # 0
    <3>1. k \in Issued
      BY <2>2, <2>4, IssuedTyped DEF IInv
    <3>2. Issued' = 1..n
      BY <2>2, <2>3, <3>1
    <3>3. \A q \in Sales : invoice'[q] = invoice[q]
      BY <2>2, <2>4
    <3> QED BY <2>2, <2>3, <3>2, <3>3 DEF IInv, Dense, Unshared
  <2>5. CASE invoice[o] = 0
    <3>1. k = n + 1
      BY <2>2, <2>3, <2>5
    <3>2. Issued' = 1..(n + 1) /\ n + 1 \in Nat
      BY <2>2, <2>3, <3>1
    <3>3. \A q \in Sales \ {o} : invoice'[q] # k
      <4>1. \A q \in Sales : invoice[q] # 0 => invoice[q] \in Issued
        BY IssuedTyped DEF IInv
      <4> QED BY <2>2, <2>5, <4>1
    <3>4. Unshared'
      BY <2>2, <3>3 DEF IInv, Unshared
    <3> QED BY <2>2, <3>2, <3>4 DEF Dense
  <2> QED BY <2>4, <2>5
<1> QED
  <2>1. (\E p \in Procs : Commit(p)) \/ UNCHANGED invoice
    BY Steps DEF Start, Announce, Post, Load, Settle, Void, Ignore, Skip, Update, Number,
                 Fail, Finish, Crash, vars, books
  <2> QED BY <1>1, <1>2, <2>1

-----------------------------------------------------------------------------
(***************************************************************************)
(* What the processes hold.                                                 *)
(***************************************************************************)

\* The process q has done nothing, and what it holds has been left to it.
LEMMA WorkFrame ==
  ASSUME IInv, NEW q \in Procs, tx'[q] = tx[q], seen \subseteq seen', Issued \subseteq Issued',
         tx[q].at \in {"updated", "numbered"} =>
           lock'[OrderOf(q)] = q /\ invoice'[OrderOf(q)] = invoice[OrderOf(q)]
  PROVE  WorkOK(q)'
<1>1. WorkOK(q)
  BY DEF IInv, WorkInv
<1>2. OrderOf(q)' = OrderOf(q)
  BY DEF OrderOf
<1>3. tx[q].at = "numbered" => NumberOK(q)'
  BY <1>1, <1>2 DEF WorkOK, NumberOK
<1> QED BY <1>1, <1>2, <1>3 DEF WorkOK

\* Nobody has more than a lock of their own order to keep.
LEMMA LockHeld ==
  ASSUME IInv, NEW q \in Procs, tx[q].at \in {"updated", "numbered"}
  PROVE  OrderOf(q) \in Sales /\ lock[OrderOf(q)] = q
<1>1. WorkOK(q)
  BY DEF IInv, WorkInv
<1>2. OrderOf(q) \in Sales
  BY <1>1, OrderTyped DEF IInv
<1> QED BY <1>1, <1>2 DEF WorkOK

\* A process that gives its locks back leaves theirs to the others.
LEMMA OthersKeep ==
  ASSUME IInv, NEW p \in Procs, Release(p), NEW q \in Procs \ {p},
         tx[q].at \in {"updated", "numbered"}
  PROVE  lock'[OrderOf(q)] = q
<1>1. lock[OrderOf(q)] = q /\ OrderOf(q) \in Sales
  BY LockHeld
<1> QED BY <1>1, ReleaseTyped DEF IInv

\* A process that is at the beginning or at the end has only its message or event.
LEMMA FreshWork ==
  ASSUME NEW p \in Procs,
         tx'[p].at = "idle" \/ /\ tx'[p].at \in {"received", "loaded", "done"}
                               /\ p \in Web => tx'[p].for \in seen'
                               /\ p \in Pumps => tx'[p].for \in Messages
  PROVE  WorkOK(p)'
BY DEF WorkOK

\* Whoever is not idle may answer for its message or event.
LEMMA WorkFor ==
  ASSUME IInv, NEW p \in Procs, tx[p].at # "idle"
  PROVE  /\ p \in Web => tx[p].for \in seen
         /\ p \in Pumps => tx[p].for \in Messages
BY DEF IInv, WorkInv, WorkOK

\* If locks and invoices stay, one process may begin, move on or stop.
LEMMA WorkByOne ==
  ASSUME IInv, NEW p \in Procs, WorkOK(p)', seen \subseteq seen', UNCHANGED <<lock, invoice>>,
         \A q \in Procs \ {p} : tx'[q] = tx[q]
  PROVE  WorkInv'
<1>1. Issued' = Issued
  BY NumbersFrame
<1>2. ASSUME NEW q \in Procs \ {p} PROVE WorkOK(q)'
  <2>1. tx[q].at \in {"updated", "numbered"} =>
          lock'[OrderOf(q)] = q /\ invoice'[OrderOf(q)] = invoice[OrderOf(q)]
    BY LockHeld
  <2> QED BY <1>1, <2>1, WorkFrame
<1> QED BY <1>2 DEF WorkInv

\* WorkInv is kept.
LEMMA WorkStep == ASSUME IInv, [Next]_vars PROVE WorkInv'
<1> USE DEF IInv
<1>0. Issued \subseteq Issued'
  BY NumbersStep
<1>1. CASE UNCHANGED <<tx, seen, lock, invoice>>
  BY <1>1, NumbersFrame DEF WorkInv, WorkOK, NumberOK, OrderOf
<1>2. CASE \E w \in Web : Post(w)
  <2>1. PICK w \in Web, e \in Events :
          /\ UNCHANGED <<books, announced, outbox, lock, crashes>>
          /\ \/ e \in seen /\ UNCHANGED <<seen, tx>>
             \/ /\ seen' = seen \cup {e}
                /\ Begin(w, e, "received", "none")
    BY <1>2 DEF Post
  <2>2. CASE UNCHANGED <<seen, tx>>
    BY <1>1, <2>1, <2>2 DEF books
  <2>3. CASE seen' = seen \cup {e} /\ Begin(w, e, "received", "none")
    <3>1. w \in Procs /\ w \notin Pumps
      BY ProcessesAssumption DEF Procs
    <3>2. /\ tx'[w].at = "received" /\ tx'[w].for = e
          /\ \A q \in Procs \ {w} : tx'[q] = tx[q]
      BY <2>3, <3>1, BeginTyped
    <3>3. WorkOK(w)'
      BY <2>3, <3>1, <3>2, FreshWork
    <3> QED BY <2>1, <2>3, <3>1, <3>2, <3>3, WorkByOne DEF books
  <2> QED BY <2>1, <2>2, <2>3
<1>3. CASE \E w \in Web : Load(w)
  <2>1. PICK w \in Web : Load(w)
    BY <1>3
  <2>2. w \in Procs
    BY DEF Procs
  <2>3. /\ tx'[w].at = "loaded" /\ tx'[w].for = tx[w].for
        /\ \A q \in Procs \ {w} : tx'[q] = tx[q]
    BY <2>1, <2>2 DEF Load, TypeOK, Work
  <2>4. UNCHANGED <<seen, lock, invoice>> /\ tx[w].at # "idle"
    BY <2>1 DEF Load, books, bus
  <2>5. WorkOK(w)'
    BY <2>2, <2>3, <2>4, WorkFor, FreshWork
  <2> QED BY <2>2, <2>3, <2>4, <2>5, WorkByOne
<1>4. CASE \E p \in Pumps : Settle(p) \/ Void(p)
  <2>1. PICK p \in Pumps, m \in Messages, at \in {"loaded", "done"},
             state \in {"none", "initiated", "captured", "voided"} :
          Begin(p, m, at, state) /\ UNCHANGED <<seen, lock, invoice>>
    <3>1. ASSUME NEW p \in Pumps, Settle(p)
          PROVE  \E m \in Messages, at \in {"loaded", "done"},
                    state \in {"none", "initiated", "captured", "voided"} :
                   Begin(p, m, at, state) /\ UNCHANGED <<seen, lock, invoice>>
      <4>1. PICK o \in Sales, at \in {"loaded", "done"} :
              /\ <<o, "delivered">> \in outbox
              /\ Begin(p, <<o, "delivered">>, at, pay[o].state)
        BY <3>1 DEF Settle
      <4>2. /\ <<o, "delivered">> \in Messages
            /\ pay[o].state \in {"none", "initiated", "captured", "voided"}
        BY DEF Messages, TypeOK, Payment
      <4>3. UNCHANGED <<seen, lock, invoice>>
        BY <3>1 DEF Settle, books, bus
      <4> QED BY <4>1, <4>2, <4>3
    <3>2. ASSUME NEW p \in Pumps, Void(p)
          PROVE  \E m \in Messages, at \in {"loaded", "done"},
                    state \in {"none", "initiated", "captured", "voided"} :
                   Begin(p, m, at, state) /\ UNCHANGED <<seen, lock, invoice>>
      <4>1. PICK o \in Sales : Begin(p, <<o, Cancelled>>, "done", "none")
        BY <3>2 DEF Void
      <4>2. <<o, Cancelled>> \in Messages
        BY DEF Messages
      <4>3. UNCHANGED <<seen, lock, invoice>>
        BY <3>2 DEF Void, bus
      <4> QED BY <4>1, <4>2, <4>3
    <3> QED BY <1>4, <3>1, <3>2
  <2>2. p \in Procs /\ p \notin Web /\ m \in Messages \cup Events
    BY ProcessesAssumption DEF Procs
  <2>3. /\ tx'[p].at = at /\ tx'[p].for = m
        /\ \A q \in Procs \ {p} : tx'[q] = tx[q]
    BY <2>1, <2>2, BeginTyped
  <2>4. WorkOK(p)'
    BY <2>2, <2>3, FreshWork
  <2> QED BY <2>1, <2>2, <2>3, <2>4, WorkByOne
<1>5. CASE \E p \in Procs : Ignore(p) \/ Skip(p)
  <2>1. PICK p \in Procs : Ignore(p) \/ Skip(p)
    BY <1>5
  <2>2. /\ tx'[p].at = "done" /\ tx'[p].for = tx[p].for /\ tx[p].at # "idle"
        /\ \A q \in Procs \ {p} : tx'[q] = tx[q]
    BY <2>1, MoveTyped DEF Ignore, Skip
  <2>3. UNCHANGED <<seen, lock, invoice>>
    BY <2>1 DEF Ignore, Skip, books, bus
  <2>4. WorkOK(p)'
    BY <2>2, <2>3, WorkFor, FreshWork
  <2> QED BY <2>2, <2>3, <2>4, WorkByOne
<1>6. CASE \E p \in Procs : Update(p)
  <2>1. PICK p \in Procs : Update(p)
    BY <1>6
  <2>2. /\ tx'[p].at = "updated" /\ tx'[p].for = tx[p].for /\ tx[p].at # "idle"
        /\ \A q \in Procs \ {p} : tx'[q] = tx[q]
    BY <2>1, MoveTyped DEF Update
  <2>3. UNCHANGED <<seen, invoice>>
    BY <2>1 DEF Update, books, bus
  <2>4. /\ lock[OrderOf(p)] = Nobody /\ lock'[OrderOf(p)] = p
        /\ \A o \in Sales \ {OrderOf(p)} : lock'[o] = lock[o]
    BY <2>1, UpdateTyped
  <2>5. WorkOK(p)'
    BY <2>2, <2>3, <2>4, WorkFor DEF WorkOK, OrderOf
  <2>6. ASSUME NEW q \in Procs \ {p} PROVE WorkOK(q)'
    <3>1. ASSUME tx[q].at \in {"updated", "numbered"} PROVE lock'[OrderOf(q)] = q
      <4>1. lock[OrderOf(q)] = q /\ OrderOf(q) \in Sales /\ q # Nobody
        BY <3>1, LockHeld, ProcessesAssumption DEF Procs
      <4> QED BY <2>4, <4>1
    <3> QED BY <1>0, <2>2, <2>3, <3>1, WorkFrame
  <2> QED BY <2>5, <2>6 DEF WorkInv
<1>7. CASE \E p \in Procs : Number(p)
  <2>1. PICK p \in Procs : Number(p)
    BY <1>7
  <2>2. UNCHANGED <<seen, lock, invoice>> /\ tx[p].at = "updated"
    BY <2>1 DEF Number, books, bus
  <2>3. /\ tx'[p].at = "numbered" /\ tx'[p].for = tx[p].for /\ tx'[p].number # 0
        /\ IF invoice[OrderOf(p)] # 0 THEN tx'[p].number = invoice[OrderOf(p)]
                                      ELSE tx'[p].number - 1 \in Issued \cup {0}
        /\ \A q \in Procs \ {p} : tx'[q] = tx[q]
    BY <2>1, NumberTyped
  <2>4. OrderOf(p)' = OrderOf(p) /\ Issued' = Issued
    BY <2>2, <2>3, NumbersFrame DEF OrderOf
  <2>5. NumberOK(p)'
    BY <2>2, <2>3, <2>4 DEF NumberOK
  <2>6. lock'[OrderOf(p)] = p
    BY <2>2, LockHeld
  <2>7. WorkOK(p)'
    BY <2>2, <2>3, <2>4, <2>5, <2>6, WorkFor DEF WorkOK
  <2> QED BY <2>2, <2>3, <2>7, WorkByOne
<1>8. CASE \E p \in Procs : Commit(p)
  <2>1. PICK p \in Procs : Commit(p)
    BY <1>8
  <2>2. /\ tx'[p].at = "done" /\ tx'[p].for = tx[p].for /\ tx[p].at # "idle"
        /\ \A q \in Procs \ {p} : tx'[q] = tx[q]
    BY <2>1, MoveTyped DEF Commit
  <2>3. UNCHANGED seen /\ Release(p)
    BY <2>1 DEF Commit, bus
  <2>4. /\ lock[OrderOf(p)] = p
        /\ \A o \in Sales \ {OrderOf(p)} : invoice'[o] = invoice[o]
    BY <2>1, CommitNumbers
  <2>5. WorkOK(p)'
    BY <2>2, <2>3, WorkFor, FreshWork
  <2>6. ASSUME NEW q \in Procs \ {p} PROVE WorkOK(q)'
    <3>1. ASSUME tx[q].at \in {"updated", "numbered"}
          PROVE  lock'[OrderOf(q)] = q /\ invoice'[OrderOf(q)] = invoice[OrderOf(q)]
      <4>1. lock[OrderOf(q)] = q /\ OrderOf(q) \in Sales
        BY <3>1, LockHeld
      <4> QED BY <2>3, <2>4, <3>1, <4>1, OthersKeep
    <3> QED BY <1>0, <2>2, <2>3, <3>1, WorkFrame
  <2> QED BY <2>5, <2>6 DEF WorkInv
<1>9. CASE \E p \in Procs : Fail(p) \/ Crash(p)
  <2>1. PICK p \in Procs : Fail(p) \/ Crash(p)
    BY <1>9
  <2>2. tx[p].at # "idle" /\ UNCHANGED <<seen, invoice>> /\ Release(p)
    BY <2>1 DEF Fail, Crash, books, bus
  <2>3. /\ tx'[p].at = "idle" \/ (tx'[p].at = "done" /\ tx'[p].for = tx[p].for)
        /\ \A q \in Procs \ {p} : tx'[q] = tx[q]
    <3>1. tx' = [tx EXCEPT ![p] = NoWork] \/ tx' = [tx EXCEPT ![p].at = "done"]
      BY <2>1 DEF Fail, Crash
    <3>2. CASE tx' = [tx EXCEPT ![p] = NoWork]
      BY <3>2, StopTyped
    <3>3. CASE tx' = [tx EXCEPT ![p].at = "done"]
      BY <3>3, MoveTyped
    <3> QED BY <3>1, <3>2, <3>3
  <2>4. WorkOK(p)'
    BY <2>2, <2>3, WorkFor, FreshWork
  <2>5. ASSUME NEW q \in Procs \ {p} PROVE WorkOK(q)'
    <3>1. tx[q].at \in {"updated", "numbered"} => lock'[OrderOf(q)] = q
      BY <2>2, OthersKeep
    <3> QED BY <1>0, <2>2, <2>3, <3>1, WorkFrame
  <2> QED BY <2>4, <2>5 DEF WorkInv
<1>10. CASE \E p \in Procs : Finish(p)
  <2>1. PICK p \in Procs : Finish(p)
    BY <1>10
  <2>2. tx'[p].at = "idle" /\ \A q \in Procs \ {p} : tx'[q] = tx[q]
    BY <2>1, StopTyped DEF Finish
  <2>3. UNCHANGED <<seen, lock, invoice>>
    BY <2>1 DEF Finish, books
  <2>4. WorkOK(p)'
    BY <2>2, FreshWork
  <2> QED BY <2>2, <2>3, <2>4, WorkByOne
<1> QED
  <2>1. \/ \E w \in Web : Post(w) \/ Load(w)
        \/ \E p \in Pumps : Settle(p) \/ Void(p)
        \/ \E p \in Procs : \/ Ignore(p) \/ Skip(p) \/ Update(p) \/ Number(p)
                            \/ Commit(p) \/ Fail(p) \/ Finish(p) \/ Crash(p)
        \/ UNCHANGED <<tx, seen, lock, invoice>>
    BY Steps DEF Start, Announce, vars, books, bus
  <2> QED BY <1>1, <1>2, <1>3, <1>4, <1>5, <1>6, <1>7, <1>8, <1>9, <1>10, <2>1

\* IInv holds at first.
LEMMA IInvInit == ASSUME Init PROVE IInv
<1>1. TypeOK
  BY ProcessesAssumption DEF Init, TypeOK, Payment, Work, NoWork
<1>2. BooksMatchPayment
  BY DEF Init, BooksMatchPayment
<1>3. Dense /\ Unshared
  <2>1. Issued = {}
    BY DEF Init, Issued
  <2>2. Issued = 1..0 /\ 0 \in Nat
    BY <2>1
  <2> QED BY <2>2 DEF Init, Dense, Unshared
<1>4. WorkInv
  BY DEF Init, WorkInv, WorkOK, NoWork
<1> QED BY <1>1, <1>2, <1>3, <1>4 DEF IInv

-----------------------------------------------------------------------------
(***************************************************************************)
(* The theorems.                                                            *)
(***************************************************************************)

\* Locks, numbers and books stay as IInv says, however many pumps and web workers
\* overlap, fail and crash.
THEOREM Invariance == Spec => []IInv
<1>1. Init => IInv
  BY IInvInit
<1>2. IInv /\ [Next]_vars => IInv'
  BY TypeStep, BooksStep, NumbersStep, WorkStep DEF IInv
<1> QED BY <1>1, <1>2, PTL DEF Spec

\* Every variable keeps its type (payments, ledger, invoices, outbox, locks).
THEOREM TypeCorrect == Spec => []TypeOK
<1>1. IInv => TypeOK
  BY DEF IInv
<1> QED BY <1>1, Invariance, PTL

\* The payment says "captured" exactly if ledger and invoice do (services.capture is
\* one transaction), for any number of overlapping captures, voids and crashes.
THEOREM BooksAgree == Spec => []BooksMatchPayment
<1>1. IInv => BooksMatchPayment
  BY DEF IInv
<1> QED BY <1>1, Invariance, PTL

\* Invoice numbers have no gap and no repetition (Invoice.save takes the highest
\* number and one), for any number of overlapping and failing captures.
THEOREM InvoicesHaveNoGap == Spec => []InvoicesDense
<1>1. IInv => InvoicesDense
  <2> SUFFICES ASSUME IInv PROVE InvoicesDense
    OBVIOUS
  <2>1. PICK n \in Nat : Issued = 1..n
    BY DEF IInv, Dense
  <2>2. Cardinality(1..n) = n
    BY FS_Interval
  <2> QED BY <2>1, <2>2 DEF IInv, Unshared, InvoicesDense
<1> QED BY <1>1, Invariance, PTL

-----------------------------------------------------------------------------
(***************************************************************************)
(* How often a payment is captured.                                         *)
(***************************************************************************)

\* The processes that may still capture o whatever has become of it: their copies
\* say that it is not captured.
Stale(o) ==
  {p \in Procs : /\ tx[p].at \in {"loaded", "updated", "numbered"}
                 /\ tx[p].state # "captured" /\ OrderOf(p) = o}

\* A capture is under way for a copy that is not captured.
CopyInv == \A p \in Procs : tx[p].at \in {"updated", "numbered"} => tx[p].state # "captured"

\* Captures of a captured payment, and those that may still come.
RoomInv == \A o \in Sales :
             pay[o].state = "captured" => ledger[o] + Cardinality(Stale(o)) <= Cardinality(Procs)

\* How a step moves one process: it begins or ends, loads the payment, or goes on
\* with a copy that is not captured.
Moved(p) ==
  /\ \A q \in Procs \ {p} : tx'[q] = tx[q]
  /\ \/ tx'[p].at \in {"idle", "received", "done"}
     \/ tx'[p].at = "loaded" /\ tx'[p].state = pay[OrderOf(p)'].state
     \/ /\ tx[p].at \in {"loaded", "updated"} /\ tx[p].state # "captured"
        /\ tx'[p].at \in {"updated", "numbered"}
        /\ tx'[p].for = tx[p].for /\ tx'[p].state = tx[p].state

\* Every step moves one process or none.
LEMMA Moves ==
  ASSUME IInv, CopyInv, [Next]_vars
  PROVE  UNCHANGED tx \/ \E p \in Procs : Moved(p)
<1> USE DEF IInv
<1>1. CASE \E w \in Web : Post(w)
  <2>1. PICK w \in Web, e \in Events : UNCHANGED tx \/ Begin(w, e, "received", "none")
    BY <1>1 DEF Post
  <2>2. w \in Procs
    BY DEF Procs
  <2>3. ASSUME Begin(w, e, "received", "none") PROVE Moved(w)
    BY <2>2, <2>3, BeginTyped DEF Moved
  <2> QED BY <2>1, <2>2, <2>3
<1>2. CASE \E w \in Web : Load(w)
  <2>1. PICK w \in Web : Load(w)
    BY <1>2
  <2>2. w \in Procs
    BY DEF Procs
  <2>3. /\ tx'[w].at = "loaded" /\ tx'[w].for = tx[w].for
        /\ tx'[w].state = pay[OrderOf(w)].state
        /\ \A q \in Procs \ {w} : tx'[q] = tx[q]
    BY <2>1, <2>2 DEF Load, TypeOK, Work
  <2>4. OrderOf(w)' = OrderOf(w)
    BY <2>3 DEF OrderOf
  <2> QED BY <2>2, <2>3, <2>4 DEF Moved
<1>3. CASE \E p \in Pumps : Settle(p)
  <2>1. PICK p \in Pumps, o \in Sales, at \in {"loaded", "done"} :
          Begin(p, <<o, "delivered">>, at, pay[o].state)
    BY <1>3 DEF Settle
  <2>2. /\ p \in Procs /\ <<o, "delivered">> \in Messages
        /\ pay[o].state \in {"none", "initiated", "captured", "voided"}
    BY DEF Procs, Messages, TypeOK, Payment
  <2>3. /\ tx'[p].at = at /\ tx'[p].for = <<o, "delivered">> /\ tx'[p].state = pay[o].state
        /\ \A q \in Procs \ {p} : tx'[q] = tx[q]
    BY <2>1, <2>2, BeginTyped
  <2>4. OrderOf(p)' = o
    BY <2>3 DEF OrderOf
  <2> QED BY <2>2, <2>3, <2>4 DEF Moved
<1>4. CASE \E p \in Pumps : Void(p)
  <2>1. PICK p \in Pumps, o \in Sales : Begin(p, <<o, Cancelled>>, "done", "none")
    BY <1>4 DEF Void
  <2>2. p \in Procs /\ <<o, Cancelled>> \in Messages
    BY DEF Procs, Messages
  <2> QED BY <2>1, <2>2, BeginTyped DEF Moved
<1>5. CASE \E p \in Procs : Ignore(p) \/ Skip(p) \/ Fail(p) \/ Commit(p) \/ Finish(p) \/ Crash(p)
  <2>1. PICK p \in Procs : tx' = [tx EXCEPT ![p] = NoWork] \/ tx' = [tx EXCEPT ![p].at = "done"]
    BY <1>5 DEF Ignore, Skip, Fail, Commit, Finish, Crash
  <2>2. CASE tx' = [tx EXCEPT ![p] = NoWork]
    BY <2>2, StopTyped DEF Moved
  <2>3. CASE tx' = [tx EXCEPT ![p].at = "done"]
    BY <2>3, MoveTyped DEF Moved
  <2> QED BY <2>1, <2>2, <2>3
<1>6. CASE \E p \in Procs : Update(p)
  <2>1. PICK p \in Procs : Update(p)
    BY <1>6
  <2>2. tx[p].at = "loaded" /\ tx[p].state # "captured" /\ tx' = [tx EXCEPT ![p].at = "updated"]
    BY <2>1 DEF Update
  <2> QED BY <2>2, MoveTyped DEF Moved
<1>7. CASE \E p \in Procs : Number(p)
  <2>1. PICK p \in Procs : Number(p)
    BY <1>7
  <2>2. tx[p].at = "updated" /\ tx[p].state # "captured"
    BY <2>1 DEF Number, CopyInv
  <2> QED BY <2>1, <2>2, NumberTyped DEF Moved
<1> QED
  <2>1. \/ \E w \in Web : Post(w) \/ Load(w)
        \/ \E p \in Pumps : Settle(p) \/ Void(p)
        \/ \E p \in Procs : \/ Ignore(p) \/ Skip(p) \/ Update(p) \/ Number(p)
                            \/ Commit(p) \/ Fail(p) \/ Finish(p) \/ Crash(p)
        \/ UNCHANGED tx
    BY Steps DEF Start, Announce, vars
  <2> QED BY <1>1, <1>2, <1>3, <1>4, <1>5, <1>6, <1>7, <2>1

\* CopyInv is kept.
LEMMA CopyStep == ASSUME IInv, CopyInv, [Next]_vars PROVE CopyInv'
<1>1. CASE UNCHANGED tx
  BY <1>1 DEF CopyInv
<1>2. CASE \E p \in Procs : Moved(p)
  BY <1>2 DEF CopyInv, Moved
<1> QED BY <1>1, <1>2, Moves

\* Nobody loads an old copy of a payment that is captured.
LEMMA StaleShrinks ==
  ASSUME IInv, CopyInv, [Next]_vars, NEW o \in Sales, pay[o].state = "captured"
  PROVE  Stale(o)' \subseteq Stale(o)
<1>1. CASE UNCHANGED tx
  BY <1>1 DEF Stale, OrderOf
<1>2. CASE \E p \in Procs : Moved(p)
  <2>1. PICK p \in Procs : Moved(p)
    BY <1>2
  <2>2. ASSUME NEW q \in Procs, q \in Stale(o)' PROVE q \in Stale(o)
    <3>1. /\ tx'[q].at \in {"loaded", "updated", "numbered"}
          /\ tx'[q].state # "captured" /\ OrderOf(q)' = o
      BY <2>2 DEF Stale
    <3>2. CASE q # p
      BY <2>1, <3>1, <3>2 DEF Moved, Stale, OrderOf
    <3>3. CASE q = p
      BY <2>1, <3>1, <3>3 DEF Moved, Stale, OrderOf
    <3> QED BY <3>2, <3>3
  <2> QED BY <2>2 DEF Stale
<1> QED BY <1>1, <1>2, Moves

\* The processes are finitely many, and so are those that hold an old copy.
LEMMA Finite ==
  ASSUME NEW S, S \subseteq Procs
  PROVE  /\ IsFiniteSet(Procs) /\ IsFiniteSet(S)
         /\ Cardinality(S) \in Nat /\ Cardinality(Procs) \in Nat
         /\ Cardinality(S) <= Cardinality(Procs)
         /\ \A p \in S : Cardinality(S \ {p}) = Cardinality(S) - 1
<1>1. IsFiniteSet(Procs)
  BY ProcessesAssumption DEF Procs
<1>2. IsFiniteSet(S) /\ Cardinality(S) <= Cardinality(Procs)
  BY <1>1, FS_Subset
<1>3. \A p \in S : Cardinality(S \ {p}) = Cardinality(S) - 1
  BY <1>2, FS_RemoveElement
<1> QED BY <1>1, <1>2, <1>3, FS_CardinalityType

\* Fewer copies make no less room.
LEMMA Fewer ==
  ASSUME NEW T, T \subseteq Procs, NEW S, S \subseteq T
  PROVE  Cardinality(S) \in Nat /\ Cardinality(T) \in Nat /\ Cardinality(S) <= Cardinality(T)
<1>1. IsFiniteSet(T)
  BY Finite
<1> QED BY <1>1, FS_Subset, FS_CardinalityType

\* RoomInv is kept: the first capture leaves at most the others to come, a later
\* one uses up a copy that was loaded before the first.
LEMMA RoomStep == ASSUME IInv, CopyInv, RoomInv, [Next]_vars PROVE RoomInv'
<1> USE DEF IInv
<1> SUFFICES ASSUME NEW o \in Sales, pay'[o].state = "captured"
             PROVE  ledger'[o] + Cardinality(Stale(o)') <= Cardinality(Procs)
  BY DEF RoomInv, Stale, Procs
<1>1. Stale(o) \subseteq Procs /\ Stale(o)' \subseteq Procs
  BY DEF Stale, Procs
<1>2. ledger[o] \in Nat
  BY DEF TypeOK
<1>3. CASE \E p \in Procs : Commit(p) /\ OrderOf(p) = o
  <2>1. PICK p \in Procs : Commit(p) /\ OrderOf(p) = o
    BY <1>3
  <2>2. ledger'[o] = ledger[o] + 1
    BY <2>1, CommitTyped
  <2>3. tx'[p].at = "done"
    BY <2>1, MoveTyped DEF Commit
  <2>4. p \notin Stale(o)'
    BY <2>3 DEF Stale
  <2>5. CASE pay[o].state = "captured"
    <3>1. p \in Stale(o)
      BY <2>1 DEF Stale, CopyInv, Commit
    <3>2. Stale(o)' \subseteq Stale(o) \ {p}
      BY <2>4, <2>5, StaleShrinks
    <3>3. ledger[o] + Cardinality(Stale(o)) <= Cardinality(Procs)
      BY <2>5 DEF RoomInv
    <3>4. Cardinality(Stale(o) \ {p}) = Cardinality(Stale(o)) - 1
      BY <1>1, <3>1, Finite
    <3>5. Cardinality(Stale(o)') \in Nat /\ Cardinality(Stale(o)') <= Cardinality(Stale(o) \ {p})
      <4>1. Stale(o) \ {p} \subseteq Procs
        BY <1>1
      <4> QED BY <3>2, <4>1, Fewer
    <3>6. Cardinality(Procs) \in Nat /\ Cardinality(Stale(o)) \in Nat
      BY <1>1, Finite
    <3> QED BY <1>2, <2>2, <3>3, <3>4, <3>5, <3>6
  <2>6. CASE pay[o].state # "captured"
    <3>1. ledger[o] = 0
      BY <1>2, <2>6 DEF BooksMatchPayment
    <3>2. Stale(o)' \subseteq Procs \ {p}
      BY <1>1, <2>4
    <3>3. Cardinality(Procs \ {p}) = Cardinality(Procs) - 1 /\ Cardinality(Procs) \in Nat
      BY <2>1, Finite
    <3>4. Cardinality(Stale(o)') \in Nat /\ Cardinality(Stale(o)') <= Cardinality(Procs \ {p})
      BY <3>2, Fewer
    <3> QED BY <2>2, <3>1, <3>3, <3>4
  <2> QED BY <2>5, <2>6
<1>4. CASE ~ \E p \in Procs : Commit(p) /\ OrderOf(p) = o
  <2>1. ledger'[o] = ledger[o] /\ pay[o].state = "captured"
    <3>1. CASE UNCHANGED <<pay, ledger>>
      BY <3>1
    <3>2. CASE \E x \in Sales, g \in {"cod", "stripe"} : Start(x, g)
      BY <3>2 DEF Start, TypeOK
    <3>3. CASE \E p \in Pumps : Void(p)
      BY <3>3 DEF Void, Voidable, TypeOK, Payment
    <3>4. CASE \E p \in Procs : Commit(p)
      BY <1>4, <3>4, CommitTyped
    <3> QED
      <4>1. \/ \E x \in Sales, g \in {"cod", "stripe"} : Start(x, g)
            \/ \E p \in Pumps : Void(p)
            \/ \E p \in Procs : Commit(p)
            \/ UNCHANGED <<pay, ledger>>
        BY Steps DEF Announce, Post, Load, Settle, Ignore, Skip, Update, Number, Fail,
                     Finish, Crash, vars, books
      <4> QED BY <3>1, <3>2, <3>3, <3>4, <4>1
  <2>2. Stale(o)' \subseteq Stale(o)
    BY <2>1, StaleShrinks
  <2>3. ledger[o] + Cardinality(Stale(o)) <= Cardinality(Procs)
    BY <2>1 DEF RoomInv
  <2>4. /\ Cardinality(Stale(o)') \in Nat /\ Cardinality(Stale(o)) \in Nat
        /\ Cardinality(Stale(o)') <= Cardinality(Stale(o))
    BY <1>1, <2>2, Fewer
  <2>5. Cardinality(Procs) \in Nat
    BY <1>1, Finite
  <2> QED BY <1>2, <2>1, <2>3, <2>4, <2>5
<1> QED BY <1>3, <1>4

\* However often the PSP repeats itself and pumps take a message up again after a
\* crash, a payment is captured at most once by each of the processes that overlap:
\* what is left of "return payment  # idempotent" in services.capture.
THEOREM CapturesAreBounded == Spec => []CapturesBounded
<1>1. Init => CopyInv /\ RoomInv
  BY DEF Init, CopyInv, RoomInv, NoWork
<1>2. IInv /\ CopyInv /\ RoomInv /\ [Next]_vars => CopyInv' /\ RoomInv'
  BY CopyStep, RoomStep
<1>3. IInv /\ RoomInv => CapturesBounded
  <2> SUFFICES ASSUME IInv, RoomInv, NEW o \in Sales
               PROVE  ledger[o] <= Cardinality(Procs)
    BY DEF CapturesBounded
  <2>1. ledger[o] \in Nat
    BY DEF IInv, TypeOK
  <2>2. Stale(o) \subseteq Procs
    BY DEF Stale
  <2>3. Cardinality(Stale(o)) \in Nat /\ Cardinality(Procs) \in Nat
    BY <2>2, Finite
  <2>4. CASE pay[o].state = "captured"
    BY <2>1, <2>3, <2>4 DEF RoomInv
  <2>5. CASE pay[o].state # "captured"
    BY <2>1, <2>3, <2>5 DEF IInv, BooksMatchPayment
  <2> QED BY <2>4, <2>5
<1> QED BY <1>1, <1>2, <1>3, Invariance, PTL DEF Spec
================================================================================
