--------------------------------- MODULE MCLive ---------------------------------
(***************************************************************************)
(* An instance for TLC of Checkout and of Dispatch under fair scheduling.   *)
(* They share no row, so each is checked in its own states: "checkout";     *)
(* "messages", where pumps overlap and crash while one courier comes, goes, *)
(* claims and rides; and "claims", where the couriers' requests overlap, but *)
(* one pump runs, nothing crashes, all are on shift and the order does not  *)
(* leave the kitchen.  No sweep runs.                                       *)
(***************************************************************************)
EXTENDS Dispatch

CONSTANTS Users, Branches, Nowhere, LineIds, Keys, NoKey, Payers, Shoppers, PerUserLimit

VARIABLES page, cart, fresh, records, orders, redeemed, visit

checkoutVars == <<cart, fresh, records, orders, redeemed, visit>>
dispatchVars == vars
liveVars == <<page, checkoutVars, dispatchVars>>

\* One order, and a coupon whose limit per customer is the only one.
Selling == INSTANCE Checkout
             WITH OtherWriters <- {"put"}, MaxRedemptions <- 0, MaxOrders <- 1,
                  req <- visit

\* The worker that serves the one courier of "messages", and the pump of "claims".
Server == CHOOSE w \in Web : TRUE
FirstPump == CHOOSE p \in Pumps : TRUE
FirstCourier == CHOOSE c \in Couriers : TRUE

Running == IF page = "claims" THEN {FirstPump} ELSE Pumps
Serving == IF page = "claims" THEN Web ELSE {Server}
OnShift == IF page = "claims" THEN {Couriers} ELSE {{}, {FirstCourier}}

LiveInit == /\ page \in {"checkout", "messages", "claims"}
            /\ Selling!Init /\ Init
            /\ IF page = "checkout" THEN online = {} ELSE online \in OnShift

LiveNext ==
  /\ UNCHANGED page
  /\ \/ page = "checkout" /\ Selling!Next /\ UNCHANGED dispatchVars
     \/ /\ page # "checkout" /\ Next /\ UNCHANGED checkoutVars
        /\ \A p \in Pumps \ Running : job'[p] = NoJob
        /\ \A w \in Web \ Serving : req'[w] = NoReq
        /\ online' \in OnShift
        /\ page = "claims" => crashes' = 0 /\ order' \in {"preparing", "ready"}

\* The fairness of Checkout!FairSpec and Dispatch!FairSpec, for those that run.
LiveSpec ==
  /\ LiveInit /\ [][LiveNext]_liveVars
  /\ \A p \in Payers : SF_checkoutVars(Selling!PlaceStep(p))
  /\ \A s \in Shoppers : SF_checkoutVars(Selling!CartStep(s))
  /\ \A p \in Pumps : WF_dispatchVars(p \in Running /\ PumpStep(p))

\* What Checkout says, of its instance here.
CheckoutsEnd == Selling!CheckoutsEnd
CouponWithinLimits == Selling!CouponWithinLimits
================================================================================
