--------------------------------- MODULE Books ---------------------------------
(***************************************************************************)
(* What the payment service keeps of the money of each order, and how the  *)
(* three records have to agree.                                            *)
(***************************************************************************)
EXTENDS Processes

CONSTANT Sales  \* orders, each with at most one payment row (OneToOne)

VARIABLES pay,     \* the payment row of each order
          ledger,  \* how many capture batches the ledger holds for each order
          invoice  \* the invoice number of each order, 0 while there is none

Procs == Pumps \cup Web
Issued == {invoice[o] : o \in Sales} \ {0}

\* A payment is captured exactly if the ledger and an invoice say so: no crash,
\* rollback, late void or second capture leaves one without the others.
BooksMatchPayment ==
  \A o \in Sales :
    /\ pay[o].state = "captured" <=> ledger[o] > 0
    /\ pay[o].state = "captured" <=> invoice[o] # 0

\* Invoice numbers are 1, 2, 3, ... without gap or repetition, although captures
\* of different orders read the same highest number and some of them fail.
InvoicesDense ==
  /\ Issued = 1..Cardinality(Issued)
  /\ \A o, q \in Sales : invoice[o] # 0 /\ invoice[o] = invoice[q] => o = q

\* No more captures of a payment than processes that may overlap, however often
\* its success is reported and its delivery message handled again: once it is
\* captured, only a copy loaded before can capture it again.
CapturesBounded == \A o \in Sales : ledger[o] <= Cardinality(Procs)
================================================================================
