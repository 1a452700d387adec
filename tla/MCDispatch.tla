------------------------------- MODULE MCDispatch -------------------------------
(***************************************************************************)
(* Instances of Dispatch for TLC.                                           *)
(***************************************************************************)
EXTENDS Dispatch, TLC

\* A command that dies leaves the task and its offers to the next one. That is tried
\* while the order is in the kitchen, and the desk then leaves it there.
KitchenCrashes == crashes > 0 => order \in {"preparing", "ready"} /\ desk = "none"

\* A copy from which none of the desk's targets can be reached would only be refused.
DeskHasAim == desk # "none" => \E to \in DeskTargets : Can(desk, to)

KitchenSpec == Init /\ [][Next /\ KitchenCrashes' /\ DeskHasAim']_vars

\* Couriers are interchangeable: no operator tells them apart.
CourierSymmetry == Permutations(Couriers)
================================================================================
