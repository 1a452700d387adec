---------------------------- MODULE DispatchProofs ----------------------------
(***************************************************************************)
(* Proofs about Dispatch, for any couriers, commands and web workers.      *)
(***************************************************************************)
EXTENDS Dispatch, TLAPS

\* What a courier's request has learnt, with or without a sweep.
ReqOK(w) ==
  /\ req[w].at = "claiming" => req[w].courier \in Couriers
  /\ req[w].at \in {"arriving", "riding"} =>
       req[w].action \in Trips /\ req[w].task.courier # Nobody

ReqInv == \A w \in Web : ReqOK(w)

\* A task that does not exist has no courier.
NoTaskInv == task.state = "none" => task.courier = Nobody

\* Types, and what makes CourierBehindProgress inductive.
IInv == TypeOK /\ NoTaskInv /\ ReqInv /\ CourierBehindProgress

-----------------------------------------------------------------------------
(***************************************************************************)
(* Types.                                                                   *)
(***************************************************************************)

\* A step of an offer round keeps the types.
LEMMA OfferStepTypes ==
  ASSUME TypeOK, NEW p \in Pumps \cup Sweepers, OfferStep(p)
  PROVE  TypeOK'
<1> USE DEF TypeOK, Job, Task, TaskStates, OfferStates, MoveJob, EndJob, AfterOffer, NoJob
<1>1. CASE ChooseNobody(p)
  BY <1>1 DEF ChooseNobody
<1>2. CASE Choose(p)
  <2>1. PICK ranked \in Nearest(Eligible(p)) :
          job' = [job EXCEPT ![p] = [at |-> "arming", left |-> ranked,
                                     known |-> {c \in Couriers : offers[c] # "none"}]]
    BY <1>2 DEF Choose
  <2>2. ranked \subseteq Couriers
    BY DEF Nearest, Eligible
  <2> QED BY <1>2, <2>1, <2>2 DEF Choose
<1>3. CASE Arm(p)
  BY <1>3 DEF Arm
<1>4. CASE Offer(p)
  BY <1>4 DEF Offer
<1> QED BY <1>1, <1>2, <1>3, <1>4 DEF OfferStep

\* A step of a command, and its death, keep the types.
LEMMA CommandTypes ==
  ASSUME TypeOK, NEW p \in Pumps \cup Sweepers,
         \/ p \in Pumps /\ PumpStep(p)
         \/ p \in Sweepers /\ SweepStep(p)
         \/ Crash(p)
  PROVE  TypeOK'
<1>1. CASE OfferStep(p)
  BY <1>1, OfferStepTypes
<1> USE DispatchAssumption, ProcessesAssumption
    DEF TypeOK, Job, Task, TaskStates, OfferStates, MoveJob, EndJob, NoJob
<1>2. CASE PumpRead(p)
  BY <1>2 DEF PumpRead
<1>3. CASE PumpCreate(p)
  BY <1>3 DEF PumpCreate
<1>4. CASE PumpMark(p)
  BY <1>4 DEF PumpMark
<1>5. CASE SweepExpire(p)
  BY <1>5 DEF SweepExpire
<1>6. CASE SweepTouch(p)
  BY <1>6 DEF SweepTouch
<1>7. CASE SweepGiveUp(p)
  BY <1>7 DEF SweepGiveUp
<1>8. CASE Crash(p)
  BY <1>8 DEF Crash
<1> QED BY <1>1, <1>2, <1>3, <1>4, <1>5, <1>6, <1>7, <1>8 DEF PumpStep, SweepStep

\* A courier's request keeps the types.
LEMMA WebTypes ==
  ASSUME TypeOK, NEW w \in Web, WebStep(w)
  PROVE  TypeOK'
<1>1. "placed" \in Statuses /\ {"picked", "out", "delivered"} \subseteq Statuses
  BY DEF Statuses, Transitions
<1>2. NoReq \in Req
  BY <1>1 DEF NoReq, Req, NoTask, Task, TaskStates, OfferStates, Trips
<1>3. ASSUME NEW r \in Req, req' = [req EXCEPT ![w] = r],
             UNCHANGED <<order, ridden, desk, pending, task, offers, online, job, crashes>>
      PROVE  TypeOK'
  BY <1>3 DEF TypeOK
<1>4. ASSUME EndReq(w), order' \in Statuses, ridden' \subseteq Statuses,
             task' \in Task, offers' \in [Couriers -> OfferStates],
             UNCHANGED <<desk, pending, online, job, crashes>>
      PROVE  TypeOK'
  BY <1>2, <1>4 DEF TypeOK, EndReq
<1>5. CASE ClaimLoad(w)
  <2>1. PICK c \in Couriers :
          req' = [req EXCEPT ![w] = [NoReq EXCEPT !.at = "claiming", !.courier = c,
                                                  !.offer = offers[c]]]
    BY <1>5 DEF ClaimLoad
  <2> DEFINE r == [NoReq EXCEPT !.at = "claiming", !.courier = c, !.offer = offers[c]]
  <2>2. offers[c] \in OfferStates
    BY DEF TypeOK
  <2>3. r \in Req
    BY <1>2, <2>2 DEF Req
  <2> QED BY <1>3, <1>5, <2>1, <2>3 DEF ClaimLoad
<1>6. CASE Claim(w)
  <2>1. req[w].courier \in Couriers \cup {Nobody}
    BY DEF TypeOK, Req
  <2>2. task' \in Task
    BY <1>6, <2>1 DEF Claim, Task, TaskStates
  <2>3. offers' \in [Couriers -> OfferStates]
    BY <1>6 DEF Claim, WonBy, TypeOK, OfferStates
  <2> QED BY <1>4, <1>6, <2>2, <2>3 DEF Claim, TypeOK
<1>7. CASE RefuseClaim(w)
  BY <1>4, <1>7 DEF RefuseClaim, TypeOK
<1>8. CASE TripLoad(w)
  <2>1. PICK a \in Trips :
          req' = [req EXCEPT ![w] = [NoReq EXCEPT !.at = "arriving", !.action = a,
                                       !.courier = task.courier, !.task = task]]
    BY <1>8 DEF TripLoad
  <2> DEFINE r == [NoReq EXCEPT !.at = "arriving", !.action = a,
                                !.courier = task.courier, !.task = task]
  <2>2. task \in Task /\ task.courier \in Couriers \cup {Nobody}
    BY DEF TypeOK, Task
  <2>3. r \in Req
    BY <1>2, <2>1, <2>2 DEF Req
  <2> QED BY <1>3, <1>8, <2>1, <2>3 DEF TripLoad
<1>9. CASE TripOrder(w)
  <2> DEFINE r == [req[w] EXCEPT !.at = "riding", !.order = order]
  <2>1. r \in Req
    BY DEF TypeOK, Req
  <2>2. req' = [req EXCEPT ![w] = r]
    BY <1>9 DEF TripOrder, TypeOK
  <2> QED BY <1>3, <1>9, <2>1, <2>2 DEF TripOrder
<1>10. CASE TripRide(w)
  <2>1. req[w].task \in Task /\ req[w].action \in Trips \cup {"none"}
    BY DEF TypeOK, Req
  <2>2. task' \in Task
    <3>1. task' = [req[w].task EXCEPT !.state = req[w].action]
      BY <1>10 DEF TripRide
    <3> QED BY <2>1, <3>1 DEF Task, TaskStates, Trips
  <2>3. order' \in Statuses /\ ridden' \subseteq Statuses
    BY <1>1, <1>10 DEF TripRide, TripPlan, TypeOK
  <2> QED BY <1>4, <1>10, <2>2, <2>3 DEF TripRide, TypeOK
<1>11. CASE RefuseTrip(w)
  BY <1>4, <1>11 DEF RefuseTrip, TypeOK
<1> QED BY <1>5, <1>6, <1>7, <1>8, <1>9, <1>10, <1>11 DEF WebStep

\* The desk, the admin's form, the shift toggle and a decline keep the types.
LEMMA OtherTypes ==
  ASSUME TypeOK,
         \/ DeskLoad \/ DeskSave \/ DeskLeave \/ FormSave
         \/ \E c \in Couriers : Toggle(c) \/ Decline(c)
  PROVE  TypeOK'
<1>1. CASE DeskLoad \/ DeskLeave
  BY <1>1 DEF DeskLoad, DeskLeave, TypeOK
<1>2. CASE DeskSave \/ FormSave
  BY <1>2, DispatchAssumption DEF DeskSave, FormSave, TypeOK
<1>3. ASSUME NEW c \in Couriers, Toggle(c) PROVE TypeOK'
  BY <1>3 DEF Toggle, TypeOK
<1>4. ASSUME NEW c \in Couriers, Decline(c) PROVE TypeOK'
  BY <1>4 DEF Decline, TypeOK, OfferStates
<1> QED BY <1>1, <1>2, <1>3, <1>4

\* The types hold at first.
LEMMA InitTypes == Init => TypeOK
<1> SUFFICES ASSUME Init PROVE TypeOK
  OBVIOUS
<1>1. order \in Statuses /\ ridden \subseteq Statuses /\ "placed" \in Statuses
  BY DEF Init, Statuses, Transitions
<1>2. crashes \in 0..MaxCrashes
  BY ProcessesAssumption DEF Init
<1>3. task \in Task /\ offers \in [Couriers -> OfferStates]
  BY DEF Init, NoTask, Task, TaskStates, OfferStates
<1>4. job \in [Pumps \cup Sweepers -> Job]
  BY DEF Init, NoJob, Job
<1>5. req \in [Web -> Req]
  BY <1>1 DEF Init, NoReq, Req, NoTask, Task, TaskStates, OfferStates, Trips
<1>6. desk \in Statuses \cup {"none"} /\ pending \in BOOLEAN /\ online \subseteq Couriers
  BY DEF Init
<1> QED BY <1>1, <1>2, <1>3, <1>4, <1>5, <1>6 DEF TypeOK

\* The types are inductive.
LEMMA StepTypes == TypeOK /\ [Next]_vars => TypeOK'
<1> SUFFICES ASSUME TypeOK, [Next]_vars PROVE TypeOK'
  OBVIOUS
<1>1. CASE UNCHANGED vars
  BY <1>1 DEF vars, TypeOK
<1>2. CASE DeskLoad \/ DeskSave \/ DeskLeave \/ FormSave
  BY <1>2, OtherTypes
<1>3. ASSUME NEW p \in Pumps, PumpStep(p) PROVE TypeOK'
  BY <1>3, CommandTypes
<1>4. ASSUME NEW s \in Sweepers, SweepStep(s) PROVE TypeOK'
  BY <1>4, CommandTypes
<1>5. ASSUME NEW p \in Pumps \cup Sweepers, Crash(p) PROVE TypeOK'
  BY <1>5, CommandTypes
<1>6. ASSUME NEW c \in Couriers, Toggle(c) \/ Decline(c) PROVE TypeOK'
  BY <1>6, OtherTypes
<1>7. ASSUME NEW w \in Web, WebStep(w) PROVE TypeOK'
  BY <1>7, WebTypes
<1> QED BY <1>1, <1>2, <1>3, <1>4, <1>5, <1>6, <1>7 DEF Next

-----------------------------------------------------------------------------
(***************************************************************************)
(* Who can write the task, and what.  Every other lemma is about these.    *)
(***************************************************************************)

\* A pump creates the row of the task.
TaskCreated == task.state = "none" /\ task' = [state |-> "created", courier |-> Nobody]

\* A command writes a state it has decided on, over whatever the state is now.
TaskOverwritten ==
  \E st \in {"offering", "expired_no_courier"} : task' = [task EXCEPT !.state = st]

\* A step of a pump or of a sweep writes nothing of the task but that.
LEMMA CommandWrites ==
  ASSUME NEW p, PumpStep(p) \/ SweepStep(p) \/ Crash(p)
  PROVE  /\ UNCHANGED <<order, ridden, req>>
         /\ UNCHANGED task \/ TaskCreated \/ TaskOverwritten
<1>1. CASE PumpRead(p) \/ PumpMark(p)
  BY <1>1 DEF PumpRead, PumpMark
<1>2. CASE PumpCreate(p)
  BY <1>2 DEF PumpCreate, TaskCreated
<1>3. CASE ChooseNobody(p) \/ Choose(p) \/ Arm(p)
  BY <1>3 DEF ChooseNobody, Choose, Arm
<1>4. CASE Offer(p)
  BY <1>4 DEF Offer, TaskOverwritten
<1>5. CASE SweepExpire(p) \/ SweepTouch(p)
  BY <1>5 DEF SweepExpire, SweepTouch
<1>6. CASE SweepGiveUp(p)
  BY <1>6 DEF SweepGiveUp, TaskOverwritten
<1>7. CASE Crash(p)
  BY <1>7 DEF Crash
<1> QED BY <1>1, <1>2, <1>3, <1>4, <1>5, <1>6, <1>7 DEF PumpStep, SweepStep, OfferStep

\* No offer becomes an accepted one.
AcceptsNobody == \A c \in Couriers : offers'[c] = "accepted" => offers[c] = "accepted"

\* A command arms offers and lets them expire, even accepted ones.
LEMMA CommandOffers ==
  ASSUME TypeOK, NEW p, PumpStep(p) \/ SweepStep(p) \/ Crash(p)
  PROVE  AcceptsNobody
<1>1. CASE SweepExpire(p)
  <2>1. PICK late \in SUBSET Couriers :
          offers' = [c \in Couriers |-> IF c \in late THEN "expired" ELSE offers[c]]
    BY <1>1 DEF SweepExpire
  <2> QED BY <2>1 DEF AcceptsNobody
<1>2. CASE Arm(p)
  <2>1. UNCHANGED offers \/ \E c \in job[p].left : offers' = [offers EXCEPT ![c] = "sent"]
    BY <1>2 DEF Arm
  <2> QED BY <2>1 DEF TypeOK, AcceptsNobody
<1>3. CASE UNCHANGED offers
  BY <1>3 DEF AcceptsNobody
<1> QED BY <1>1, <1>2, <1>3 DEF PumpStep, SweepStep, OfferStep, PumpRead,
          PumpCreate, PumpMark, SweepTouch, SweepGiveUp, ChooseNobody, Choose, Offer, Crash

\* The desk, the admin's form and the couriers, outside of a claim or a trip, write
\* the order and the offers only, and accept nothing.
LEMMA OtherWrites ==
  ASSUME TypeOK,
         \/ DeskLoad \/ DeskSave \/ DeskLeave \/ FormSave
         \/ \E c \in Couriers : Toggle(c) \/ Decline(c)
  PROVE  UNCHANGED <<ridden, task, req, job>> /\ AcceptsNobody
<1>1. CASE DeskLoad \/ DeskSave \/ DeskLeave \/ FormSave
  BY <1>1 DEF DeskLoad, DeskSave, DeskLeave, FormSave, AcceptsNobody
<1>2. ASSUME NEW c \in Couriers, Toggle(c) \/ Decline(c)
      PROVE  UNCHANGED <<ridden, task, req, job>> /\ AcceptsNobody
  BY <1>2 DEF Toggle, Decline, TypeOK, AcceptsNobody
<1> QED BY <1>1, <1>2

\* A request starts, moves on, and ends with what it had learnt.
LEMMA RequestsLearn ==
  ASSUME TypeOK, ReqInv, NEW w \in Web, WebStep(w)
  PROVE  ReqInv'
<1>1. ASSUME EndReq(w) PROVE ReqInv'
  BY <1>1 DEF EndReq, NoReq, ReqInv, ReqOK, TypeOK
<1>2. ASSUME NEW r, req' = [req EXCEPT ![w] = r],
             r.at = "claiming" => r.courier \in Couriers,
             r.at \in {"arriving", "riding"} => r.action \in Trips /\ r.task.courier # Nobody
      PROVE  ReqInv'
  BY <1>2 DEF ReqInv, ReqOK, TypeOK
<1>3. CASE ClaimLoad(w)
  <2>1. PICK c \in Couriers :
          req' = [req EXCEPT ![w] = [NoReq EXCEPT !.at = "claiming", !.courier = c,
                                                  !.offer = offers[c]]]
    BY <1>3 DEF ClaimLoad
  <2> QED BY <1>2, <2>1 DEF NoReq
<1>4. CASE TripLoad(w)
  <2>1. PICK a \in Trips :
          /\ task.courier # Nobody
          /\ req' = [req EXCEPT ![w] = [NoReq EXCEPT !.at = "arriving", !.action = a,
                                          !.courier = task.courier, !.task = task]]
    BY <1>4 DEF TripLoad
  <2> QED BY <1>2, <2>1 DEF NoReq
<1>5. CASE TripOrder(w)
  <2> DEFINE r == [req[w] EXCEPT !.at = "riding", !.order = order]
  <2>1. req' = [req EXCEPT ![w] = r]
    BY <1>5 DEF TripOrder, TypeOK
  <2>2. req[w] \in Req
    BY DEF TypeOK
  <2>3. r.at = "riding" /\ r.action = req[w].action /\ r.task = req[w].task
    BY <2>2 DEF Req
  <2>4. r.action \in Trips /\ r.task.courier # Nobody
    BY <1>5, <2>3 DEF TripOrder, ReqInv, ReqOK
  <2> HIDE DEF r
  <2> QED BY <1>2, <2>1, <2>3, <2>4
<1>6. CASE Claim(w) \/ RefuseClaim(w) \/ TripRide(w) \/ RefuseTrip(w)
  BY <1>1, <1>6 DEF Claim, RefuseClaim, TripRide, RefuseTrip
<1> QED BY <1>3, <1>4, <1>5, <1>6 DEF WebStep

-----------------------------------------------------------------------------
(***************************************************************************)
(* Somebody is behind an order's progress.                                  *)
(***************************************************************************)
\* IInv holds at first.
LEMMA InitInv == Init => IInv
<1> SUFFICES ASSUME Init PROVE IInv
  OBVIOUS
<1>1. TypeOK
  BY InitTypes
<1>2. NoTaskInv /\ ReqInv
  BY DEF Init, NoTaskInv, NoTask, ReqInv, ReqOK, NoReq
<1>3. CourierBehindProgress
  BY DEF Init, CourierBehindProgress, NoTask, Trips
<1> QED BY <1>1, <1>2, <1>3 DEF IInv

\* A task that is created or written over keeps its courier.
LEMMA WritesKeepCourier ==
  ASSUME IInv, UNCHANGED task \/ TaskCreated \/ TaskOverwritten
  PROVE  task'.courier = task.courier /\ NoTaskInv'
<1>1. task \in Task
  BY DEF IInv, TypeOK
<1>2. CASE UNCHANGED task
  BY <1>2 DEF IInv, NoTaskInv
<1>3. CASE TaskCreated
  BY <1>3 DEF TaskCreated, IInv, NoTaskInv
<1>4. CASE TaskOverwritten
  BY <1>1, <1>4 DEF TaskOverwritten, NoTaskInv, Task
<1> QED BY <1>2, <1>3, <1>4

\* IInv is inductive.
LEMMA StepInv == IInv /\ [Next]_vars => IInv'
<1> SUFFICES ASSUME IInv, [Next]_vars PROVE IInv'
  OBVIOUS
<1>1. TypeOK'
  BY StepTypes DEF IInv
<1>2. ASSUME UNCHANGED req PROVE ReqInv'
  BY <1>2 DEF IInv, ReqInv, ReqOK
<1>3. ASSUME task'.courier = task.courier, NoTaskInv', ReqInv',
             ridden' = ridden, AcceptsNobody,
             task'.state \in {"claimed"} \cup Trips => task.courier # Nobody
      PROVE  IInv'
  BY <1>1, <1>3 DEF IInv, CourierBehindProgress, AcceptsNobody
<1>4. ASSUME UNCHANGED <<task, ridden>>, AcceptsNobody, ReqInv' PROVE IInv'
  BY <1>1, <1>4 DEF IInv, NoTaskInv, CourierBehindProgress, AcceptsNobody
<1>5. CASE UNCHANGED vars
  BY <1>2, <1>4, <1>5 DEF vars, AcceptsNobody
<1>6. CASE \/ DeskLoad \/ DeskSave \/ DeskLeave \/ FormSave
           \/ \E c \in Couriers : Toggle(c) \/ Decline(c)
  <2>1. UNCHANGED <<ridden, task, req>> /\ AcceptsNobody
    BY <1>6, OtherWrites DEF IInv
  <2> QED BY <1>2, <1>4, <2>1
<1>7. ASSUME NEW p, PumpStep(p) \/ SweepStep(p) \/ Crash(p) PROVE IInv'
  <2>1. /\ UNCHANGED <<order, ridden, req>>
        /\ UNCHANGED task \/ TaskCreated \/ TaskOverwritten
    BY <1>7, CommandWrites
  <2>2. task'.courier = task.courier /\ NoTaskInv'
    BY <2>1, WritesKeepCourier
  <2>3. task \in Task
    BY DEF IInv, TypeOK
  <2>4. task'.state \in {"claimed"} \cup Trips => task' = task
    BY <2>1, <2>3 DEF TaskCreated, TaskOverwritten, Trips, Task
  <2>5. task.state \in {"claimed"} \cup Trips => task.courier # Nobody
    BY DEF IInv, CourierBehindProgress
  <2>6. AcceptsNobody
    BY <1>7, CommandOffers DEF IInv
  <2> QED BY <1>2, <1>3, <2>1, <2>2, <2>4, <2>5, <2>6
<1>8. ASSUME NEW w \in Web, WebStep(w) PROVE IInv'
  <2>1. ReqInv'
    BY <1>8, RequestsLearn DEF IInv
  <2>2. CASE ClaimLoad(w) \/ RefuseClaim(w) \/ TripLoad(w) \/ TripOrder(w) \/ RefuseTrip(w)
    BY <1>4, <2>1, <2>2
       DEF ClaimLoad, RefuseClaim, TripLoad, TripOrder, RefuseTrip, AcceptsNobody
  <2>3. ASSUME task'.courier # Nobody, task'.state # "none" PROVE IInv'
    BY <1>1, <2>1, <2>3 DEF IInv, NoTaskInv, CourierBehindProgress
  <2>4. CASE Claim(w)
    <3>1. req[w].courier \in Couriers
      BY <2>4 DEF Claim, IInv, ReqInv, ReqOK
    <3> QED BY <2>3, <2>4, <3>1, DispatchAssumption DEF Claim
  <2>5. CASE TripRide(w)
    <3>1. req[w].task.courier # Nobody /\ req[w].action \in Trips /\ req[w].task \in Task
      BY <2>5 DEF TripRide, IInv, ReqInv, ReqOK, TypeOK, Req
    <3>2. task' = [req[w].task EXCEPT !.state = req[w].action]
      BY <2>5 DEF TripRide
    <3>3. task'.courier # Nobody /\ task'.state # "none"
      BY <3>1, <3>2 DEF Task, Trips
    <3> QED BY <2>3, <3>3
  <2> QED BY <1>8, <2>2, <2>4, <2>5 DEF WebStep
<1> QED BY <1>5, <1>6, <1>7, <1>8 DEF Next

\* Every variable keeps its type: task.state is a DeliveryTask.State, and so on.
THEOREM TypeCorrect == Spec => []TypeOK
<1>1. IInv => TypeOK
  BY DEF IInv
<1> QED BY <1>1, InitInv, StepInv, PTL DEF Spec

\* CourierBehindProgress holds of every reachable state of delivery/: once an offer is
\* accepted, or a trip has moved the order, the task has a courier, whatever
\* dispatch_sweep writes over it and wherever desk and admin put the order.
THEOREM CourierIsBehind == Spec => []CourierBehindProgress
<1>1. IInv => CourierBehindProgress
  BY DEF IInv
<1> QED BY <1>1, InitInv, StepInv, PTL DEF Spec

-----------------------------------------------------------------------------
(***************************************************************************)
(* The task and the order move together.                                    *)
(***************************************************************************)
\* TripMatchesOrder is inductive, given IInv.
LEMMA StepTrip ==
  ASSUME IInv, TripMatchesOrder, [Next]_vars
  PROVE  TripMatchesOrder'
<1>1. ASSUME ridden \subseteq ridden', UNCHANGED task PROVE TripMatchesOrder'
  BY <1>1 DEF TripMatchesOrder
<1>2. ASSUME task'.state \notin {"picked", "dropped"} PROVE TripMatchesOrder'
  BY <1>2 DEF TripMatchesOrder
<1>3. CASE UNCHANGED vars
  BY <1>1, <1>3 DEF vars
<1>4. CASE \/ DeskLoad \/ DeskSave \/ DeskLeave \/ FormSave
           \/ \E c \in Couriers : Toggle(c) \/ Decline(c)
  BY <1>1, <1>4, OtherWrites DEF IInv
<1>5. ASSUME NEW p, PumpStep(p) \/ SweepStep(p) \/ Crash(p) PROVE TripMatchesOrder'
  <2>1. /\ UNCHANGED <<order, ridden, req>>
        /\ UNCHANGED task \/ TaskCreated \/ TaskOverwritten
    BY <1>5, CommandWrites
  <2>2. task \in Task
    BY DEF IInv, TypeOK
  <2>3. UNCHANGED task \/ task'.state \notin {"picked", "dropped"}
    BY <2>1, <2>2 DEF TaskCreated, TaskOverwritten, Task
  <2> QED BY <1>1, <1>2, <2>1, <2>3
<1>6. ASSUME NEW w \in Web, WebStep(w) PROVE TripMatchesOrder'
  <2>1. CASE ClaimLoad(w) \/ RefuseClaim(w) \/ TripLoad(w) \/ TripOrder(w) \/ RefuseTrip(w)
    BY <1>1, <2>1 DEF ClaimLoad, RefuseClaim, TripLoad, TripOrder, RefuseTrip
  <2>2. CASE Claim(w)
    BY <1>2, <2>2 DEF Claim
  <2>3. CASE TripRide(w)
    <3>1. req[w].task \in Task /\ req[w].action \in Trips
      BY <2>3 DEF TripRide, IInv, ReqInv, ReqOK, TypeOK, Req
    <3>2. task'.state = req[w].action
      BY <2>3, <3>1 DEF TripRide, Task
    <3>3. TripPlan(req[w].action) \subseteq ridden'
      BY <2>3 DEF TripRide
    <3> QED BY <3>2, <3>3 DEF TripMatchesOrder, TripPlan
  <2> QED BY <1>6, <2>1, <2>2, <2>3 DEF WebStep
<1> QED BY <1>3, <1>4, <1>5, <1>6 DEF Next

\* TripMatchesOrder holds of every reachable state: trip_action's transaction keeps
\* the task and the order's audit rows together, with any number of stale copies.
THEOREM TripsMatch == Spec => []TripMatchesOrder
<1>1. Init => TripMatchesOrder
  BY DEF Init, NoTask, TripMatchesOrder
<1>2. IInv /\ TripMatchesOrder /\ [Next]_vars => IInv' /\ TripMatchesOrder'
  BY StepInv, StepTrip
<1> QED BY <1>1, <1>2, InitInv, PTL DEF Spec

-----------------------------------------------------------------------------
(***************************************************************************)
(* One accepted offer.                                                      *)
(***************************************************************************)
\* OneAccepted is inductive, given the types.
LEMMA StepAccepted ==
  ASSUME TypeOK, OneAccepted, [Next]_vars
  PROVE  OneAccepted'
<1>1. ASSUME AcceptsNobody PROVE OneAccepted'
  BY <1>1 DEF OneAccepted, AcceptsNobody
<1>2. CASE UNCHANGED offers
  BY <1>2 DEF OneAccepted
<1>3. CASE UNCHANGED vars
  BY <1>2, <1>3 DEF vars
<1>4. CASE \/ DeskLoad \/ DeskSave \/ DeskLeave \/ FormSave
           \/ \E c \in Couriers : Toggle(c) \/ Decline(c)
  BY <1>1, <1>4, OtherWrites
<1>5. ASSUME NEW p, PumpStep(p) \/ SweepStep(p) \/ Crash(p) PROVE OneAccepted'
  BY <1>1, <1>5, CommandOffers
<1>6. ASSUME NEW w \in Web, WebStep(w) PROVE OneAccepted'
  <2>1. CASE Claim(w)
    BY <2>1 DEF Claim, WonBy, OneAccepted
  <2> QED BY <1>2, <1>6, <2>1 DEF WebStep, ClaimLoad, RefuseClaim, TripLoad, TripOrder,
            TripRide, RefuseTrip
<1> QED BY <1>3, <1>4, <1>5, <1>6 DEF Next

\* OneAccepted holds of every reachable state, sweeps that arm accepted offers
\* again included: claim() expires every other offer in the same transaction.
THEOREM OnlyOneAccepted == Spec => []OneAccepted
<1>1. Init => OneAccepted
  BY DEF Init, OneAccepted
<1>2. TypeOK /\ OneAccepted /\ [Next]_vars => TypeOK' /\ OneAccepted'
  BY StepTypes, StepAccepted
<1> QED BY <1>1, <1>2, InitTypes, PTL DEF Spec

-----------------------------------------------------------------------------
(***************************************************************************)
(* Where no sweep runs, a claim is for good.                                *)
(***************************************************************************)

\* A task with a courier is claimed or under way: nothing puts it back on offer.
ClaimedIsPast == task.courier # Nobody => task.state \in {"claimed"} \cup Trips

\* A pump is about to put the task on offer.
Offering(p) == job[p].at \in {"choosing", "arming"}

\* Only the pump that has just created the task is, and only one pump has.
OfferingIsFresh ==
  \A p \in Pumps : Offering(p) =>
    /\ task.state = "created" /\ task.courier = Nobody
    /\ \A q \in Pumps : Offering(q) => q = p

\* The copy of the task a trip is made from names the courier the task still has.
TripKnowsCourier ==
  \A w \in Web : req[w].at \in {"arriving", "riding"} =>
    req[w].task.courier = task.courier

WInv == IInv /\ ClaimedIsPast /\ OfferingIsFresh /\ TripKnowsCourier

\* WInv holds at first.
LEMMA InitWinner == Init => WInv
<1> SUFFICES ASSUME Init PROVE WInv
  OBVIOUS
<1>1. ClaimedIsPast
  BY DEF Init, NoTask, ClaimedIsPast
<1>2. OfferingIsFresh
  BY DEF Init, NoJob, OfferingIsFresh, Offering
<1>3. TripKnowsCourier
  BY DEF Init, NoReq, TripKnowsCourier
<1> QED BY <1>1, <1>2, <1>3, InitInv DEF WInv

\* A step that leaves the task alone, starts no offer round and learns nothing
\* but the task there is keeps the invariant and the courier.
LEMMA WinnerFrame ==
  ASSUME WInv, IInv', UNCHANGED task,
         \A p \in Pumps : Offering(p)' => Offering(p),
         \A w \in Web : req'[w].at \in {"arriving", "riding"} =>
           \/ req'[w].task = task
           \/ req[w].at \in {"arriving", "riding"} /\ req'[w].task = req[w].task
  PROVE  WInv' /\ task'.courier = task.courier
<1>1. ClaimedIsPast'
  BY DEF WInv, ClaimedIsPast
<1>2. OfferingIsFresh'
  BY DEF WInv, OfferingIsFresh
<1>3. TripKnowsCourier'
  BY DEF WInv, TripKnowsCourier
<1> QED BY <1>1, <1>2, <1>3 DEF WInv

\* A step of a pump, or its death.
LEMMA WinnerPump ==
  ASSUME WInv, IInv', NEW p \in Pumps, PumpStep(p) \/ Crash(p)
  PROVE  WInv' /\ task'.courier = task.courier
<1>1. UNCHANGED req
  BY CommandWrites
<1>2. TypeOK /\ p \in DOMAIN job /\ job \in [Pumps \cup Sweepers -> Job]
  BY DEF WInv, IInv, TypeOK
<1>3. ASSUME NEW at, MoveJob(p, at) \/ EndJob(p), at \notin {"choosing", "arming"},
             NEW q \in Pumps
      PROVE  ~Offering(p)' /\ (Offering(q)' => Offering(q))
  BY <1>2, <1>3 DEF MoveJob, EndJob, NoJob, Offering, Job
<1>4. ASSUME \A q \in Pumps : Offering(q)' => Offering(q), UNCHANGED task
      PROVE  WInv' /\ task'.courier = task.courier
  BY <1>1, <1>4, WinnerFrame
<1>5. CASE PumpRead(p) \/ PumpMark(p) \/ ChooseNobody(p) \/ Crash(p)
  <2>1. UNCHANGED task /\ \E at : (MoveJob(p, at) \/ EndJob(p)) /\ at \notin {"choosing", "arming"}
    BY <1>5 DEF PumpRead, PumpMark, ChooseNobody, Crash
  <2> QED BY <1>3, <1>4, <2>1
<1>6. CASE Choose(p)
  <2>1. Offering(p) /\ UNCHANGED task
    BY <1>6 DEF Choose, Offering
  <2>2. ASSUME NEW q \in Pumps, q # p PROVE job'[q] = job[q]
    BY <1>2, <1>6, <2>2 DEF Choose
  <2>3. \A q \in Pumps : Offering(q)' => Offering(q)
    BY <2>1, <2>2 DEF Offering
  <2> QED BY <1>4, <2>1, <2>3
<1>7. CASE Arm(p)
  <2>1. Offering(p) /\ UNCHANGED task
    BY <1>7 DEF Arm, Offering
  <2>2. ASSUME NEW q \in Pumps, q # p PROVE job'[q] = job[q]
    BY <1>2, <1>7, <2>2 DEF Arm, AfterOffer, MoveJob, EndJob
  <2>3. \A q \in Pumps : Offering(q)' => Offering(q)
    BY <2>1, <2>2 DEF Offering
  <2> QED BY <1>4, <2>1, <2>3
<1>8. CASE PumpCreate(p)
  <2>1. CASE UNCHANGED task
    <3>1. MoveJob(p, "marking")
      BY <1>8, <2>1 DEF PumpCreate
    <3> QED BY <1>3, <1>4, <2>1, <3>1
  <2>2. CASE task.state = "none" /\ task' = [state |-> "created", courier |-> Nobody]
    <3>1. CASE MoveJob(p, "choosing")
      <4>1. \A q \in Pumps : ~Offering(q)
        BY <2>2 DEF WInv, OfferingIsFresh
      <4>2. \A q \in Pumps : Offering(q)' => q = p
        BY <1>2, <3>1, <4>1 DEF MoveJob, Offering
      <4>3. OfferingIsFresh'
        BY <2>2, <4>2 DEF OfferingIsFresh
      <4>4. task.courier = Nobody
        BY <2>2 DEF WInv, IInv, NoTaskInv
      <4>5. TripKnowsCourier' /\ ClaimedIsPast'
        BY <1>1, <2>2, <4>4 DEF WInv, TripKnowsCourier, ClaimedIsPast
      <4> QED BY <2>2, <4>3, <4>4, <4>5 DEF WInv
    <3> QED BY <1>8, <2>2, <3>1 DEF PumpCreate
  <2> QED BY <1>8, <2>1, <2>2 DEF PumpCreate
<1>9. CASE Offer(p)
  <2>1. /\ Offering(p)
        /\ task' = [task EXCEPT !.state = "offering"]
        /\ MoveJob(p, "marking")
    BY <1>9 DEF Offer, Offering, AfterOffer
  <2>2. task \in Task /\ task.courier = Nobody
    BY <1>2, <2>1 DEF WInv, OfferingIsFresh, TypeOK
  <2>3. task'.courier = Nobody
    BY <2>1, <2>2 DEF Task
  <2>4. \A q \in Pumps : Offering(q) => q = p
    BY <2>1 DEF WInv, OfferingIsFresh
  <2>5. \A q \in Pumps : ~Offering(q)'
    BY <1>3, <2>1, <2>4
  <2>6. OfferingIsFresh'
    BY <2>5 DEF OfferingIsFresh
  <2>7. TripKnowsCourier' /\ ClaimedIsPast'
    BY <1>1, <2>2, <2>3 DEF WInv, TripKnowsCourier, ClaimedIsPast
  <2> QED BY <2>2, <2>3, <2>6, <2>7 DEF WInv
<1> QED BY <1>5, <1>6, <1>7, <1>8, <1>9 DEF PumpStep, OfferStep

\* A step of a courier's request: the claim finds the task without a courier, the
\* trip writes back the courier that is there.
LEMMA WinnerWeb ==
  ASSUME WInv, IInv', NEW w \in Web, WebStep(w)
  PROVE  WInv' /\ (task.courier # Nobody => task'.courier = task.courier)
<1>1. TypeOK /\ req \in [Web -> Req] /\ task \in Task
  BY DEF WInv, IInv, TypeOK
<1>2. UNCHANGED job
  BY DEF WebStep, ClaimLoad, Claim, RefuseClaim, TripLoad, TripOrder, TripRide, RefuseTrip
<1>3. \A p \in Pumps : Offering(p)' = Offering(p)
  BY <1>2 DEF Offering
<1>4. ASSUME EndReq(w), NEW v \in Web, req'[v].at \in {"arriving", "riding"}
      PROVE  req'[v] = req[v]
  BY <1>1, <1>4 DEF EndReq, NoReq
<1>5. CASE RefuseClaim(w) \/ RefuseTrip(w)
  <2>1. UNCHANGED task /\ EndReq(w)
    BY <1>5 DEF RefuseClaim, RefuseTrip
  <2> QED BY <1>3, <1>4, <2>1, WinnerFrame
<1>6. CASE ClaimLoad(w) \/ TripLoad(w)
  <2>1. ASSUME NEW r, req' = [req EXCEPT ![w] = r], UNCHANGED task,
               r.at \in {"arriving", "riding"} => r.task = task
        PROVE  WInv' /\ task'.courier = task.courier
    <3>1. \A v \in Web : req'[v].at \in {"arriving", "riding"} =>
            req'[v].task = task \/ req'[v] = req[v]
      BY <1>1, <2>1
    <3> QED BY <1>3, <2>1, <3>1, WinnerFrame
  <2>2. CASE ClaimLoad(w)
    <3>1. PICK c \in Couriers :
            req' = [req EXCEPT ![w] = [NoReq EXCEPT !.at = "claiming", !.courier = c,
                                                    !.offer = offers[c]]]
      BY <2>2 DEF ClaimLoad
    <3>2. UNCHANGED task
      BY <2>2 DEF ClaimLoad
    <3> QED BY <2>1, <3>1, <3>2 DEF NoReq
  <2>3. CASE TripLoad(w)
    <3>1. PICK a \in Trips :
            req' = [req EXCEPT ![w] = [NoReq EXCEPT !.at = "arriving", !.action = a,
                                         !.courier = task.courier, !.task = task]]
      BY <2>3 DEF TripLoad
    <3>2. UNCHANGED task
      BY <2>3 DEF TripLoad
    <3> QED BY <2>1, <3>1, <3>2 DEF NoReq
  <2> QED BY <1>6, <2>2, <2>3
<1>7. CASE TripOrder(w)
  <2>1. req[w].at = "arriving" /\ UNCHANGED task
    BY <1>7 DEF TripOrder
  <2>2. req[w] \in Req
    BY <1>1
  <2>3. req'[w].task = req[w].task
    BY <1>1, <1>7, <2>2 DEF TripOrder, Req
  <2>4. \A v \in Web : v # w => req'[v] = req[v]
    BY <1>1, <1>7 DEF TripOrder
  <2> QED BY <1>3, <2>1, <2>3, <2>4, WinnerFrame
<1>8. CASE Claim(w)
  <2>1. /\ task.state = "offering" /\ EndReq(w)
        /\ task' = [state |-> "claimed", courier |-> req[w].courier]
    BY <1>8 DEF Claim
  <2>2. task.courier = Nobody
    BY <2>1 DEF WInv, ClaimedIsPast, Trips
  <2>3. ClaimedIsPast'
    BY <2>1 DEF ClaimedIsPast
  <2>4. OfferingIsFresh'
    BY <1>3, <2>1 DEF WInv, OfferingIsFresh
  <2>5. \A v \in Web : req[v].at \notin {"arriving", "riding"}
    BY <2>2 DEF WInv, TripKnowsCourier, IInv, ReqInv, ReqOK
  <2>6. TripKnowsCourier'
    BY <1>4, <2>1, <2>5 DEF TripKnowsCourier
  <2> QED BY <2>2, <2>3, <2>4, <2>6 DEF WInv
<1>9. CASE TripRide(w)
  <2>1. /\ req[w].at = "riding" /\ EndReq(w)
        /\ task' = [req[w].task EXCEPT !.state = req[w].action]
    BY <1>9 DEF TripRide
  <2>2. req[w].task \in Task /\ req[w].action \in Trips
    BY <1>1, <2>1 DEF Req, WInv, IInv, ReqInv, ReqOK
  <2>3. req[w].task.courier = task.courier /\ task.courier # Nobody
    BY <2>1 DEF WInv, TripKnowsCourier, IInv, ReqInv, ReqOK
  <2>4. task'.courier = task.courier /\ task'.state \in Trips
    BY <2>1, <2>2, <2>3 DEF Task
  <2>5. ClaimedIsPast'
    BY <2>4 DEF ClaimedIsPast
  <2>6. OfferingIsFresh'
    BY <1>3, <2>3 DEF WInv, OfferingIsFresh
  <2>7. TripKnowsCourier'
    BY <1>4, <2>1, <2>4 DEF WInv, TripKnowsCourier
  <2> QED BY <2>4, <2>5, <2>6, <2>7 DEF WInv
<1> QED BY <1>5, <1>6, <1>7, <1>8, <1>9 DEF WebStep

\* WInv is inductive where nothing is swept, and a task keeps its courier.
LEMMA StepWinner ==
  ASSUME Sweepers = {}, WInv, [Next]_vars
  PROVE  WInv' /\ (task.courier # Nobody => task'.courier = task.courier)
<1>1. IInv'
  BY StepInv DEF WInv
<1>2. ASSUME UNCHANGED <<task, req, job>> PROVE WInv' /\ task'.courier = task.courier
  BY <1>1, <1>2, WinnerFrame DEF Offering
<1>3. CASE UNCHANGED vars
  BY <1>2, <1>3 DEF vars
<1>4. CASE \/ DeskLoad \/ DeskSave \/ DeskLeave \/ FormSave
           \/ \E c \in Couriers : Toggle(c) \/ Decline(c)
  BY <1>2, <1>4, OtherWrites DEF WInv, IInv
<1>5. ASSUME NEW p \in Pumps, PumpStep(p) \/ Crash(p)
      PROVE  WInv' /\ task'.courier = task.courier
  BY <1>1, <1>5, WinnerPump
<1>6. ASSUME NEW w \in Web, WebStep(w)
      PROVE  WInv' /\ (task.courier # Nobody => task'.courier = task.courier)
  BY <1>1, <1>6, WinnerWeb
<1> QED BY <1>3, <1>4, <1>5, <1>6 DEF Next

\* SingleWinner, what claim()'s docstring promises, for as long as dispatch_sweep
\* is not running: with any number of pumps that crash, of workers with stale
\* offers and of stale trips, a task never changes hands.
THEOREM WinnerStays ==
  ASSUME Sweepers = {}
  PROVE  Spec => SingleWinner
<1>1. WInv /\ [Next]_vars =>
        WInv' /\ [task.courier # Nobody => task'.courier = task.courier]_vars
  BY StepWinner
<1> QED BY <1>1, InitWinner, PTL DEF Spec, SingleWinner
================================================================================
