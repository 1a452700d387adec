------------------------------- MODULE Dispatch -------------------------------
(***************************************************************************)
(* delivery/ for one order that is being prepared.  The outbox pump arms a *)
(* task when the order turns ready, the dispatch sweep expires offers and   *)
(* offers again, couriers claim, decline and ride.  Neither command runs in *)
(* a transaction, so each of their statements is a step; a claim and a trip *)
(* action are transactions whose offer or task was loaded by the view        *)
(* before.  Everybody else who moves the order is the "desk".                *)
(***************************************************************************)
EXTENDS OrderStates, Processes

CONSTANTS Couriers,     \* courier profiles
          Sweepers,     \* runs of dispatch_sweep that may overlap
          MaxOffers,    \* how many couriers an offer round goes to
          DeskTargets,  \* statuses the desk moves the order to in this instance
          FormStatuses  \* statuses that the admin's form is posted with in it

ASSUME DispatchAssumption ==
  /\ Nobody \notin Couriers
  /\ Pumps \cap Sweepers = {}
  /\ MaxOffers \in Nat \ {0}
  /\ DeskTargets \subseteq Statuses /\ FormStatuses \subseteq Statuses

VARIABLES order,    \* the order's status
          ridden,   \* the statuses that audit rows of trip actions record
          desk,     \* the copy a request of the desk has loaded, or "none"
          pending,  \* the "ready" message waits in the outbox
          task,     \* the DeliveryTask row; state "none" while there is no row
          offers,   \* the state of each courier's DeliveryOffer row, or "none"
          online,   \* couriers on shift
          job,      \* where each pump and sweep is
          req,      \* the courier request each web worker serves
          crashes   \* how often a pump or sweep has died

vars == <<order, ridden, desk, pending, task, offers, online, job, req, crashes>>

TaskStates == {"none", "created", "offering", "claimed", "at_vendor", "picked",
               "arrived", "dropped", "expired_no_courier"}
OfferStates == {"none", "sent", "accepted", "declined", "expired"}
Trips == {"at_vendor", "picked", "arrived", "dropped"}

Task == [state : TaskStates, courier : Couriers \cup {Nobody}]

Job == [at : {"idle", "creating", "choosing", "arming", "marking",
              "swept", "givingUp"},
        left : SUBSET Couriers, known : SUBSET Couriers]

Req == [at : {"idle", "claiming", "arriving", "riding"},
        courier : Couriers \cup {Nobody}, action : Trips \cup {"none"},
        offer : OfferStates, task : Task, order : Statuses]

NoTask == [state |-> "none", courier |-> Nobody]
NoJob == [at |-> "idle", left |-> {}, known |-> {}]
NoReq == [at |-> "idle", courier |-> Nobody, action |-> "none",
          offer |-> "none", task |-> NoTask, order |-> "placed"]

TypeOK ==
  /\ order \in Statuses /\ ridden \subseteq Statuses
  /\ desk \in Statuses \cup {"none"}
  /\ pending \in BOOLEAN
  /\ task \in Task
  /\ offers \in [Couriers -> OfferStates]
  /\ online \subseteq Couriers
  /\ job \in [Pumps \cup Sweepers -> Job]
  /\ req \in [Web -> Req]
  /\ crashes \in 0..MaxCrashes

\* The order is being prepared; what came before does not concern delivery.
Init ==
  /\ order = "preparing" /\ ridden = {}
  /\ desk = "none"
  /\ pending = FALSE
  /\ task = NoTask
  /\ offers = [c \in Couriers |-> "none"]
  /\ online \in SUBSET Couriers
  /\ job = [p \in Pumps \cup Sweepers |-> NoJob]
  /\ req = [w \in Web |-> NoReq]
  /\ crashes = 0

-----------------------------------------------------------------------------
(***************************************************************************)
(* The desk: restaurant, customer, operators, and a courier who is served  *)
(* by the order's own endpoint.                                             *)
(***************************************************************************)

\* The view loads the order.
DeskLoad ==
  /\ desk = "none"
  /\ desk' = order
  /\ UNCHANGED <<order, ridden, pending, task, offers, online, job, req, crashes>>

\* orders.services.transition on the loaded copy; "ready" reaches dispatch_on_ready.
DeskSave ==
  /\ desk # "none"
  /\ \E to \in DeskTargets :
       /\ Can(desk, to)
       /\ order' = to
       /\ pending' = (pending \/ to = "ready")
  /\ desk' = "none"
  /\ UNCHANGED <<ridden, task, offers, online, job, req, crashes>>

\* OrderAdmin's change form is saved: any status, and no message.
FormSave ==
  /\ order' \in FormStatuses
  /\ UNCHANGED <<ridden, desk, pending, task, offers, online, job, req, crashes>>

\* The request is refused, or nothing comes of it.
DeskLeave ==
  /\ desk # "none"
  /\ desk' = "none"
  /\ UNCHANGED <<order, ridden, pending, task, offers, online, job, req, crashes>>

-----------------------------------------------------------------------------
(***************************************************************************)
(* pump_outbox: dispatch_on_ready and create_task_for_order.                *)
(***************************************************************************)
MoveJob(p, at) == job' = [job EXCEPT ![p].at = at]
EndJob(p) == job' = [job EXCEPT ![p] = NoJob]

\* Mutant of PumpRead: the message is marked as processed before it is handled.
PumpReadMarking(p) ==
  /\ job[p].at = "idle" /\ pending
  /\ pending' = FALSE
  /\ MoveJob(p, IF task.state = "none" THEN "creating" ELSE "marking")
  /\ UNCHANGED <<order, ridden, desk, task, offers, online, req, crashes>>

\* hasattr(order, "delivery_task"): a task that exists is left as it is.
PumpRead(p) ==
  /\ job[p].at = "idle" /\ pending
  /\ MoveJob(p, IF task.state = "none" THEN "creating" ELSE "marking")
  /\ UNCHANGED <<order, ridden, desk, pending, task, offers, online, req, crashes>>

\* The OneToOne column lets one pump create the task; the pump swallows the
\* error of the other.
PumpCreate(p) ==
  /\ job[p].at = "creating"
  /\ \/ /\ task.state = "none"
        /\ task' = [state |-> "created", courier |-> Nobody]
        /\ MoveJob(p, "choosing")
     \/ /\ task.state # "none"
        /\ MoveJob(p, "marking")
        /\ UNCHANGED task
  /\ UNCHANGED <<order, ridden, desk, pending, offers, online, req, crashes>>

\* msg.processed_at is saved, whether or not the handlers failed.
PumpMark(p) ==
  /\ job[p].at = "marking"
  /\ pending' = FALSE
  /\ EndJob(p)
  /\ UNCHANGED <<order, ridden, desk, task, offers, online, req, crashes>>

-----------------------------------------------------------------------------
(***************************************************************************)
(* dispatch_sweep: sweep_expired.                                           *)
(***************************************************************************)

\* The offers whose TTL has passed by now become EXPIRED.
SweepExpire(s) ==
  /\ job[s].at = "idle"
  /\ \E late \in SUBSET {c \in Couriers : offers[c] = "sent"} :
       offers' = [c \in Couriers |-> IF c \in late THEN "expired" ELSE offers[c]]
  /\ MoveJob(s, "swept")
  /\ UNCHANGED <<order, ridden, desk, pending, task, online, req, crashes>>

\* An offering task with an expired offer is taken up; what the sweep holds of
\* it from here on may be stale.
SweepTouch(s) ==
  /\ job[s].at = "swept"
  /\ IF task.state = "offering" /\ \E c \in Couriers : offers[c] = "expired"
       THEN MoveJob(s, "choosing")
       ELSE EndJob(s)
  /\ UNCHANGED <<order, ridden, desk, pending, task, offers, online, req, crashes>>

SweepGiveUp(s) ==
  /\ job[s].at = "givingUp"
  /\ task' = [task EXCEPT !.state = "expired_no_courier"]
  /\ EndJob(s)
  /\ UNCHANGED <<order, ridden, desk, pending, offers, online, req, crashes>>

-----------------------------------------------------------------------------
(***************************************************************************)
(* offer_task, which both commands call.                                    *)
(***************************************************************************)

\* The pump offers to anybody online, the sweep not to those who declined.
Eligible(p) ==
  IF p \in Sweepers THEN {c \in online : offers[c] # "declined"} ELSE online

\* The nearest of them: any selection, since positions are not modelled.
Nearest(among) ==
  {r \in SUBSET among :
     r # {} /\ Cardinality(r) <= MaxOffers
            /\ (Cardinality(r) < MaxOffers => r = among)}

\* After offer_task, the pump marks its message and the sweep is done.
AfterOffer(p) == IF p \in Pumps THEN MoveJob(p, "marking") ELSE EndJob(p)

ChooseNobody(p) ==
  /\ job[p].at = "choosing" /\ Eligible(p) = {}
  /\ MoveJob(p, IF p \in Pumps THEN "marking" ELSE "givingUp")
  /\ UNCHANGED <<order, ridden, desk, pending, task, offers, online, req, crashes>>

Choose(p) ==
  /\ job[p].at = "choosing"
  /\ \E ranked \in Nearest(Eligible(p)) :
       job' = [job EXCEPT ![p] = [at |-> "arming", left |-> ranked,
                                  known |-> {c \in Couriers : offers[c] # "none"}]]
  /\ UNCHANGED <<order, ridden, desk, pending, task, offers, online, req, crashes>>

\* A known offer is armed again whatever it has become; a new one is created,
\* unless somebody else has created it since (unique_task_offer).
Arm(p) ==
  /\ job[p].at = "arming"
  /\ \E c \in job[p].left :
       \/ /\ c \in job[p].known \/ offers[c] = "none"
          /\ offers' = [offers EXCEPT ![c] = "sent"]
          /\ job' = [job EXCEPT ![p].left = @ \ {c}]
       \/ /\ c \notin job[p].known /\ offers[c] # "none"
          /\ AfterOffer(p)
          /\ UNCHANGED offers
  /\ UNCHANGED <<order, ridden, desk, pending, task, online, req, crashes>>

\* Mutant of Offer: a state that DeliveryTask.State does not have.
OfferMisspelt(p) ==
  /\ job[p].at = "arming" /\ job[p].left = {}
  /\ task' = [task EXCEPT !.state = "offered"]
  /\ AfterOffer(p)
  /\ UNCHANGED <<order, ridden, desk, pending, offers, online, req, crashes>>

\* task.save(update_fields=["state"]) on the copy read at the start.
Offer(p) ==
  /\ job[p].at = "arming" /\ job[p].left = {}
  /\ task' = [task EXCEPT !.state = "offering"]
  /\ AfterOffer(p)
  /\ UNCHANGED <<order, ridden, desk, pending, offers, online, req, crashes>>

\* The command dies between two statements; a message stays unprocessed.
Crash(p) ==
  /\ job[p].at # "idle" /\ crashes < MaxCrashes
  /\ crashes' = crashes + 1
  /\ EndJob(p)
  /\ UNCHANGED <<order, ridden, desk, pending, task, offers, online, req>>

-----------------------------------------------------------------------------
(***************************************************************************)
(* Couriers.                                                                *)
(***************************************************************************)

\* ProfileView.put: the shift toggle.
Toggle(c) ==
  /\ online' = IF c \in online THEN online \ {c} ELSE online \cup {c}
  /\ UNCHANGED <<order, ridden, desk, pending, task, offers, job, req, crashes>>

\* OfferActionView, "decline": whatever the offer is, it becomes DECLINED.
Decline(c) ==
  /\ offers[c] # "none"
  /\ offers' = [offers EXCEPT ![c] = "declined"]
  /\ UNCHANGED <<order, ridden, desk, pending, task, online, job, req, crashes>>

EndReq(w) == req' = [req EXCEPT ![w] = NoReq]

\* OfferActionView, "claim": the offer is loaded.
ClaimLoad(w) ==
  /\ req[w].at = "idle"
  /\ \E c \in Couriers :
       /\ offers[c] # "none"
       /\ req' = [req EXCEPT ![w] = [NoReq EXCEPT !.at = "claiming", !.courier = c,
                                                  !.offer = offers[c]]]
  /\ UNCHANGED <<order, ridden, desk, pending, task, offers, online, job, crashes>>

\* Mutant of WonBy: the other offers are left as they are.
WonByAlone(c) == [offers EXCEPT ![c] = "accepted"]

\* The other offers expire with the claim.
WonBy(c) == [d \in Couriers |-> CASE d = c -> "accepted"
                                  [] offers[d] = "none" -> "none"
                                  [] OTHER -> "expired"]

\* Mutant of Claim: the UPDATE does not look at the task's state.
ClaimAnyState(w) ==
  LET c == req[w].courier IN
  /\ req[w].at = "claiming" /\ req[w].offer = "sent"
  /\ task' = [state |-> "claimed", courier |-> c]
  /\ offers' = WonBy(c)
  /\ EndReq(w)
  /\ UNCHANGED <<order, ridden, desk, pending, online, job, crashes>>

\* Mutant of Claim: the UPDATE forgets the courier column.
ClaimWithoutCourier(w) ==
  /\ req[w].at = "claiming" /\ req[w].offer = "sent"
  /\ task.state = "offering"
  /\ task' = [task EXCEPT !.state = "claimed"]
  /\ offers' = WonBy(req[w].courier)
  /\ EndReq(w)
  /\ UNCHANGED <<order, ridden, desk, pending, online, job, crashes>>

\* The copy of the offer is SENT and the UPDATE finds the task OFFERING.
Claim(w) ==
  LET c == req[w].courier IN
  /\ req[w].at = "claiming" /\ req[w].offer = "sent"
  /\ task.state = "offering"
  /\ task' = [state |-> "claimed", courier |-> c]
  /\ offers' = WonBy(c)
  /\ EndReq(w)
  /\ UNCHANGED <<order, ridden, desk, pending, online, job, crashes>>

RefuseClaim(w) ==
  /\ req[w].at = "claiming"
  /\ req[w].offer # "sent" \/ task.state # "offering"
  /\ EndReq(w)
  /\ UNCHANGED <<order, ridden, desk, pending, task, offers, online, job, crashes>>

\* TripView: the task is loaded, and refused to all but its courier.
TripLoad(w) ==
  /\ req[w].at = "idle"
  /\ \E a \in Trips :
       /\ task.courier # Nobody
       /\ req' = [req EXCEPT ![w] = [NoReq EXCEPT !.at = "arriving", !.action = a,
                                                  !.courier = task.courier, !.task = task]]
  /\ UNCHANGED <<order, ridden, desk, pending, task, offers, online, job, crashes>>

\* task.order is read inside the transaction.
TripOrder(w) ==
  /\ req[w].at = "arriving"
  /\ req' = [req EXCEPT ![w].at = "riding", ![w].order = order]
  /\ UNCHANGED <<order, ridden, desk, pending, task, offers, online, job, crashes>>

\* The order transitions each trip action makes, in sequence.
TripPlan(action) ==
  CASE action = "picked" -> {"picked", "out"}
    [] action = "dropped" -> {"delivered"}
    [] OTHER -> {}

\* Every transition of the trip is legal from the copy of the order.
TripLegal(action, status) ==
  CASE action = "picked" -> Can(status, "picked") /\ Can("picked", "out")
    [] action = "dropped" -> Can(status, "delivered")
    [] OTHER -> TRUE

\* Mutant of TripRide: an illegal transition does not roll the trip back.
TripRideAnyway(w) ==
  LET r == req[w] IN
  /\ r.at = "riding"
  /\ task' = [r.task EXCEPT !.state = r.action]
  /\ IF TripLegal(r.action, r.order) /\ TripPlan(r.action) # {}
       THEN /\ order' = (IF r.action = "picked" THEN "out" ELSE "delivered")
            /\ ridden' = ridden \cup TripPlan(r.action)
       ELSE UNCHANGED <<order, ridden>>
  /\ EndReq(w)
  /\ UNCHANGED <<desk, pending, offers, online, job, crashes>>

\* trip_action: one transaction saves the order's moves and the whole copy of
\* the task.
TripRide(w) ==
  LET r == req[w] IN
  /\ r.at = "riding" /\ TripLegal(r.action, r.order)
  /\ task' = [r.task EXCEPT !.state = r.action]
  /\ order' = CASE r.action = "picked" -> "out"
                [] r.action = "dropped" -> "delivered"
                [] OTHER -> order
  /\ ridden' = ridden \cup TripPlan(r.action)
  /\ EndReq(w)
  /\ UNCHANGED <<desk, pending, offers, online, job, crashes>>

RefuseTrip(w) ==
  /\ req[w].at = "riding" /\ ~TripLegal(req[w].action, req[w].order)
  /\ EndReq(w)
  /\ UNCHANGED <<order, ridden, desk, pending, task, offers, online, job, crashes>>

-----------------------------------------------------------------------------
OfferStep(p) == ChooseNobody(p) \/ Choose(p) \/ Arm(p) \/ Offer(p)
PumpStep(p) == PumpRead(p) \/ PumpCreate(p) \/ OfferStep(p) \/ PumpMark(p)
SweepStep(s) == SweepExpire(s) \/ SweepTouch(s) \/ SweepGiveUp(s) \/ OfferStep(s)
WebStep(w) == \/ ClaimLoad(w) \/ Claim(w) \/ RefuseClaim(w)
              \/ TripLoad(w) \/ TripOrder(w) \/ TripRide(w) \/ RefuseTrip(w)

Next ==
  \/ DeskLoad \/ DeskSave \/ DeskLeave \/ FormSave
  \/ \E p \in Pumps : PumpStep(p)
  \/ \E s \in Sweepers : SweepStep(s)
  \/ \E p \in Pumps \cup Sweepers : Crash(p)
  \/ \E c \in Couriers : Toggle(c) \/ Decline(c)
  \/ \E w \in Web : WebStep(w)

Spec == Init /\ [][Next]_vars

\* The commands are run again and again and come to their end unless they crash;
\* couriers and the desk need not do anything.
FairSpec == /\ Spec
            /\ \A p \in Pumps : WF_vars(PumpStep(p))
            /\ \A s \in Sweepers : WF_vars(SweepStep(s))

-----------------------------------------------------------------------------
(***************************************************************************)
(* Properties.                                                              *)
(***************************************************************************)

\* Nobody rides for an order that no courier has claimed: once an offer is accepted
\* or a trip has moved the order, the task keeps having a courier, whatever the
\* sweep writes over it and wherever the desk puts the order.
CourierBehindProgress ==
  \/ task.state \in {"claimed"} \cup Trips
  \/ \E c \in Couriers : offers[c] = "accepted"
  \/ ridden # {}
  => task.courier # Nobody

\* trip_action writes the task and the order's audit rows together: a picked task's
\* trip has picked the order and taken it out, a dropped one's has delivered it,
\* although the task is written from a stale copy and the transition may be refused
\* because the order has been moved meanwhile.
TripMatchesOrder ==
  /\ task.state = "picked" => {"picked", "out"} \subseteq ridden
  /\ task.state = "dropped" => "delivered" \in ridden

\* At most one courier holds an accepted offer, whatever sweeps re-arm meanwhile.
OneAccepted ==
  \A c, d \in Couriers : offers[c] = "accepted" /\ offers[d] = "accepted" => c = d

\* What claim() promises: "single-winner atomic claim on an offering task".
SingleWinner ==
  [][task.courier # Nobody => task'.courier = task.courier]_vars

\* The ready message is not lost, although pumps overlap and crash: the order
\* gets its task and the message leaves the outbox.
ReadyGetsTask == pending ~> task.state # "none" /\ ~pending
================================================================================
