------------------------------- MODULE MCCheckout -------------------------------
(***************************************************************************)
(* Instances of Checkout for TLC.                                           *)
(***************************************************************************)
EXTENDS Checkout, TLC

\* Users, branches, line ids and the payers are interchangeable: no operator
\* tells them apart.
CheckoutSymmetry ==
  UNION {Permutations(S) : S \in {Users, Branches, LineIds, Payers}}
================================================================================
