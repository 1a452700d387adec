-------------------------------- MODULE MCBooks --------------------------------
(***************************************************************************)
(* An instance for TLC of an order's audit trail and of its money, which   *)
(* are kept in two services that share no row.  The trail is checked twice:*)
(* "service" is a long history made by requests alone, "support" a short   *)
(* one in which the admin's form is posted as well; "money" is the payment *)
(* service.  What is not in question is as it is at the start.             *)
(***************************************************************************)
EXTENDS MCOrders, Books

CONSTANTS LongHistory,  \* MaxEvents of "service"; that of "support" is MaxEvents
          EventIds

VARIABLES page, announced, messages, seen, acked, rowLock, work, crashes

trailVars == vars
moneyVars == <<pay, ledger, invoice, announced, messages, seen, acked, rowLock, work, crashes>>

Service == INSTANCE Orders WITH FormStatuses <- {}, MaxEdits <- 0, MaxEvents <- LongHistory
Money == INSTANCE Payments WITH outbox <- messages, lock <- rowLock, tx <- work

\* A process that dies leaves its message or its event to be handled again.  That is
\* tried with two of the events.
FewEvents == crashes > 0 => Cardinality(seen) <= 2

BooksInit == page \in {"service", "support", "money"} /\ Init /\ Money!Init

BooksNext ==
  /\ UNCHANGED page
  /\ \/ page = "service" /\ Service!Next /\ UNCHANGED moneyVars
     \/ page = "support" /\ Next /\ UNCHANGED moneyVars
     \/ page = "money" /\ Money!Next /\ FewEvents' /\ UNCHANGED trailVars

BooksSpec == BooksInit /\ [][BooksNext]_<<page, trailVars, moneyVars>>

\* Neither workers nor sales nor events are told apart.
BooksSymmetry == WorkerSymmetry \cup Permutations(Sales) \cup Permutations(EventIds)

\* Every row, lock and process has its type.
BooksTypeOK == TypeOK /\ Money!TypeOK
================================================================================
