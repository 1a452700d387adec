------------------------------ MODULE OrderStates ------------------------------
(***************************************************************************)
(* The order lifecycle map of orders/state_machine.py and the two sets of  *)
(* orders/views.py that restrict who may ask for which step of it.         *)
(***************************************************************************)

\* TRANSITIONS: for each status that has one, its entry of the map.
Transitions ==
  [placed               |-> {"accepted", "rejected", "cancelled_customer",
                             "failed_payment", "cancelled_platform"},
   accepted             |-> {"preparing", "cancelled_customer",
                             "cancelled_restaurant", "cancelled_platform"},
   preparing            |-> {"ready", "cancelled_customer",
                             "cancelled_restaurant", "cancelled_platform"},
   ready                |-> {"picked", "cancelled_restaurant", "cancelled_platform"},
   picked               |-> {"out", "delivered", "cancelled_platform"},
   out                  |-> {"delivered", "cancelled_platform"},
   delivered            |-> {"refund_pending"},
   rejected             |-> {"refund_pending", "refunded"},
   cancelled_customer   |-> {"refund_pending"},
   cancelled_restaurant |-> {"refund_pending"},
   cancelled_platform   |-> {"refund_pending"},
   failed_payment       |-> {"refunded"},
   refund_pending       |-> {"refunded"}]

\* Order.Status: "refunded" is the one status the map has no entry for.
Statuses == DOMAIN Transitions \cup {"refunded"}

\* can(): a status without an entry has no successor.
Can(current, to) == current \in DOMAIN Transitions /\ to \in Transitions[current]

\* Mutant of VendorTargets: a target that is not an Order.Status.
VendorTargetsMisspelt == {"accepted", "rejected", "preparing", "ready", "canceled_restaurant"}

VendorTargets == {"accepted", "rejected", "preparing", "ready", "cancelled_restaurant"}

CustomerCancelStages == {"placed", "accepted", "preparing"}

CancelledStatuses == {"rejected", "cancelled_customer", "cancelled_restaurant",
                      "cancelled_platform"}
================================================================================
