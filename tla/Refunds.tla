---------------------------------- MODULE Refunds ----------------------------------
(***************************************************************************)
(* Refunds of one order whose payment is captured: payments.services       *)
(* request_refund and approve_refund, and the operator's queue in          *)
(* backoffice/views.py.  An operator's request loads the refund first; an  *)
(* approval then is a transaction that writes the refund, reads the order  *)
(* and moves it on, and an order that may not move undoes all of it.       *)
(* Others move the order too, by copies that may be as old as the order.   *)
(***************************************************************************)
EXTENDS Naturals, OrderStates

CONSTANTS Claims,     \* the refunds that are ever requested (a bound)
          Operators,  \* workers that serve operators
          MaxMoves,   \* bound on what others do to the order
          MaxApprovals \* bound on the approvals of one refund

RefundsAssumption == MaxMoves \in Nat /\ MaxApprovals \in Nat
ASSUME RefundsAssumption

VARIABLES status,   \* the order's
          refund,   \* the state of each refund, "none" while there is none
          paidOut,  \* how many refund_out entries the ledger holds for each
          desk,     \* where each operator's request is
          versions, \* the statuses the order has had: copies that requests may hold
          overwritten, \* whether a status was written over one its writer had not seen
          moves

refundVars == <<status, refund, paidOut, desk, versions, overwritten, moves>>
orderVars == <<status, versions, overwritten>>

Work == [at : {"idle", "approving", "rejecting", "written", "read"},
         claim : Claims \cup {"none"}, copy : Statuses]
NoWork == [at |-> "idle", claim |-> "none", copy |-> "placed"]

\* A capture comes with a paid webhook at any time, or on delivery.
RefundsInit ==
  /\ status \in Statuses \ {"refund_pending", "refunded"}
  /\ refund = [c \in Claims |-> "none"]
  /\ paidOut = [c \in Claims |-> 0]
  /\ desk = [p \in Operators |-> NoWork]
  /\ versions = {status}
  /\ overwritten = FALSE
  /\ moves = 0

\* Row locks: an UPDATE waits for the transaction that has written the row.
RefundLocked(c) ==
  \E p \in Operators : desk[p].claim = c /\ desk[p].at \in {"written", "read"}

\* request_refund: no look at earlier refunds of the payment.
RequestRefund(c) ==
  /\ refund[c] = "none"
  /\ refund' = [refund EXCEPT ![c] = "requested"]
  /\ UNCHANGED <<orderVars, paidOut, desk, moves>>

\* transition(): the step is judged by the copy and written over whatever is there.
Transition(copy, to) ==
  /\ status' = to
  /\ versions' = versions \cup {to}
  /\ overwritten' = (overwritten \/ copy # status)

\* The order's own requests, an operator's included, who may force what is legal.
MoveOrder(copy, to) ==
  /\ moves < MaxMoves
  /\ Can(copy, to)
  /\ Transition(copy, to)
  /\ moves' = moves + 1
  /\ UNCHANGED <<refund, paidOut, desk>>

\* RefundApproveView and RefundQueueView.post: a refund in any state.
TakeUp(p, c, decision) ==
  /\ desk[p].at = "idle"
  /\ refund[c] # "none"
  /\ decision = "approving" => paidOut[c] < MaxApprovals
  /\ desk' = [desk EXCEPT ![p] = [NoWork EXCEPT !.at = decision, !.claim = c]]
  /\ UNCHANGED <<orderVars, refund, paidOut, moves>>

\* RefundQueueView.post, the rejection: one UPDATE, whatever the state has become.
Reject(p) ==
  /\ desk[p].at = "rejecting" /\ ~RefundLocked(desk[p].claim)
  /\ refund' = [refund EXCEPT ![desk[p].claim] = "failed"]
  /\ desk' = [desk EXCEPT ![p] = NoWork]
  /\ UNCHANGED <<orderVars, paidOut, moves>>

\* approve_refund: refund.save(), whose row stays locked.
WriteRefund(p) ==
  /\ desk[p].at = "approving" /\ ~RefundLocked(desk[p].claim)
  /\ desk' = [desk EXCEPT ![p].at = "written"]
  /\ UNCHANGED <<orderVars, refund, paidOut, moves>>

\* refund.payment.order is loaded now.
ReadOrder(p) ==
  /\ desk[p].at = "written"
  /\ desk' = [desk EXCEPT ![p].at = "read", ![p].copy = status]
  /\ UNCHANGED <<orderVars, refund, paidOut, moves>>

Target(copy) == IF copy = "delivered" THEN "refund_pending" ELSE "refunded"

\* A refunded order stays as it is; any other has to be able to move.
Approvable(copy) == copy = "refunded" \/ Can(copy, Target(copy))

\* Refund, ledger entry and order in one commit, the order by the copy.
CommitApproval(p) ==
  LET w == desk[p] IN
  /\ w.at = "read" /\ Approvable(w.copy)
  /\ refund' = [refund EXCEPT ![w.claim] = "succeeded"]
  /\ paidOut' = [paidOut EXCEPT ![w.claim] = @ + 1]
  /\ IF w.copy = "refunded" THEN UNCHANGED orderVars ELSE Transition(w.copy, Target(w.copy))
  /\ desk' = [desk EXCEPT ![p] = NoWork]
  /\ UNCHANGED moves

\* Mutant of RollBack: no @transaction.atomic, the first two writes stay.
RollBackOrderOnly(p) ==
  LET w == desk[p] IN
  /\ w.at \in {"written", "read"}
  /\ w.at = "read" => ~Approvable(w.copy)
  /\ refund' = [refund EXCEPT ![w.claim] = "succeeded"]
  /\ paidOut' = [paidOut EXCEPT ![w.claim] = @ + 1]
  /\ desk' = [desk EXCEPT ![p] = NoWork]
  /\ UNCHANGED <<orderVars, moves>>

\* order.illegal_transition (409), or the worker dies: the transaction is undone.
RollBack(p) ==
  LET w == desk[p] IN
  /\ w.at \in {"written", "read"}
  /\ w.at = "read" => ~Approvable(w.copy)
  /\ desk' = [desk EXCEPT ![p] = NoWork]
  /\ UNCHANGED <<orderVars, refund, paidOut, moves>>

RefundsNext ==
  \/ \E c \in Claims : RequestRefund(c)
  \/ \E copy \in versions, to \in Statuses : MoveOrder(copy, to)
  \/ \E p \in Operators :
       \/ \E c \in Claims, decision \in {"approving", "rejecting"} :
            TakeUp(p, c, decision)
       \/ Reject(p) \/ WriteRefund(p) \/ ReadOrder(p)
       \/ CommitApproval(p) \/ RollBack(p)

RefundsSpec == RefundsInit /\ [][RefundsNext]_refundVars

RefundsTypeOK ==
  /\ status \in Statuses
  /\ refund \in [Claims -> {"none", "requested", "succeeded", "failed"}]
  /\ paidOut \in [Claims -> Nat]
  /\ desk \in [Operators -> Work]
  /\ versions \subseteq Statuses
  /\ overwritten \in BOOLEAN
  /\ moves \in 0..MaxMoves

\* What the books say of refunds: one that succeeded is in the ledger, one that is in
\* the ledger was decided, and once the ledger has one the order is in refund,
\* whichever approvals, rejections, forced steps and rollbacks overlapped, unless a
\* request has overwritten a status it had not seen. A rejection after an approval
\* leaves a failed refund that was paid out.
RefundsBooked ==
  /\ \A c \in Claims : /\ refund[c] = "succeeded" => paidOut[c] > 0
                       /\ paidOut[c] > 0 => refund[c] \in {"succeeded", "failed"}
  /\ (\E c \in Claims : paidOut[c] > 0)
       => status \in {"refund_pending", "refunded"} \/ overwritten
====================================================================================
