-------------------------------- MODULE AdminProofs --------------------------------
(***************************************************************************)
(* Proofs about the desks behind the admin's pages: Refunds, for any        *)
(* refunds and operators; Resets, for any codes and web workers;            *)
(* RuntimeConfig, for any values, requests and number of versions. Then of  *)
(* the whole admin, of the pages and the desks side by side.                *)
(***************************************************************************)
EXTENDS MCAdmin, PagesProofs, FormsetsProofs, TLAPS

-----------------------------------------------------------------------------
(***************************************************************************)
(* The refund queue.                                                       *)
(***************************************************************************)
\* The order is in refund, from which the map has no way back.
InRefund(s) == s \in {"refund_pending", "refunded"}

\* An approval in hand is of a refund; its copy shows a refunded order only if the
\* order is in refund still, or has been overwritten by a copy that was out of date.
DeskInv ==
  \A p \in Operators :
    /\ desk[p].at # "idle" => desk[p].claim \in Claims
    /\ desk[p].at = "read" /\ desk[p].copy = "refunded" =>
         InRefund(status) \/ overwritten

\* What makes RefundsBooked inductive.
RefundsIInv == RefundsTypeOK /\ DeskInv /\ RefundsBooked

-----------------------------------------------------------------------------
\* From an order in refund the map leads to nothing else.
LEMMA RefundIsFinal ==
  ASSUME NEW s, NEW to, InRefund(s), Can(s, to)
  PROVE  InRefund(to)
BY DEF InRefund, Can, Transitions

\* The domain of the map, spelt out.
LEMMA StatusList ==
  Statuses = {"placed", "accepted", "preparing", "ready", "picked", "out", "delivered",
              "rejected", "cancelled_customer", "cancelled_restaurant",
              "cancelled_platform", "failed_payment", "refund_pending", "refunded"}
BY DEF Statuses, Transitions

\* approve_refund moves the order into refund.
LEMMA TargetInRefund ==
  ASSUME NEW s
  PROVE  InRefund(Target(s)) /\ Target(s) \in Statuses
BY StatusList DEF InRefund, Target

\* The pages start with no refund.
LEMMA RefundsStart == RefundsInit => RefundsIInv
<1> SUFFICES ASSUME RefundsInit PROVE RefundsIInv
  OBVIOUS
<1> USE DEF RefundsInit
<1>1. NoWork \in Work
  BY StatusList DEF NoWork, Work
<1>2. RefundsTypeOK
  <2>1. status \in Statuses /\ versions \subseteq Statuses /\ overwritten \in BOOLEAN
    OBVIOUS
  <2>2. /\ refund \in [Claims -> {"none", "requested", "succeeded", "failed"}]
        /\ paidOut \in [Claims -> Nat]
    OBVIOUS
  <2>3. desk \in [Operators -> Work]
    BY <1>1
  <2>4. moves \in 0..MaxMoves
    BY RefundsAssumption DEF RefundsAssumption
  <2> QED BY <2>1, <2>2, <2>3, <2>4 DEF RefundsTypeOK
<1>3. DeskInv
  BY DEF DeskInv, NoWork
<1>4. RefundsBooked
  BY DEF RefundsBooked
<1> QED BY <1>2, <1>3, <1>4 DEF RefundsIInv

\* Every step keeps the types.
LEMMA RefundsTypes == RefundsTypeOK /\ DeskInv /\ [RefundsNext]_refundVars => RefundsTypeOK'
<1> SUFFICES ASSUME RefundsTypeOK, DeskInv, [RefundsNext]_refundVars PROVE RefundsTypeOK'
  OBVIOUS
<1> USE RefundsAssumption DEF RefundsAssumption, RefundsTypeOK, orderVars
<1>0. NoWork \in Work
  BY StatusList DEF NoWork, Work
<1>1. CASE \E c \in Claims : RequestRefund(c)
  BY <1>1 DEF RequestRefund
<1>2. CASE \E copy \in versions, to \in Statuses : MoveOrder(copy, to)
  BY <1>2 DEF MoveOrder, Transition
<1>3. ASSUME NEW p \in Operators, NEW c \in Claims,
             NEW decision \in {"approving", "rejecting"}, TakeUp(p, c, decision)
      PROVE  RefundsTypeOK'
  <2>1. [NoWork EXCEPT !.at = decision, !.claim = c] \in Work
    BY <1>0 DEF NoWork, Work
  <2> QED BY <1>3, <2>1 DEF TakeUp
<1>4. ASSUME NEW p \in Operators, Reject(p) PROVE RefundsTypeOK'
  BY <1>0, <1>4 DEF Reject
<1>5. ASSUME NEW p \in Operators, WriteRefund(p) PROVE RefundsTypeOK'
  BY <1>5 DEF WriteRefund, Work
<1>6. ASSUME NEW p \in Operators, ReadOrder(p) PROVE RefundsTypeOK'
  BY <1>6 DEF ReadOrder, Work
<1>7. ASSUME NEW p \in Operators, CommitApproval(p) PROVE RefundsTypeOK'
  <2>1. desk' \in [Operators -> Work]
    BY <1>0, <1>7 DEF CommitApproval
  <2>2. desk[p].claim \in Claims
    BY <1>7 DEF CommitApproval, DeskInv
  <2>3. /\ paidOut' \in [Claims -> Nat]
        /\ refund' \in [Claims -> {"none", "requested", "succeeded", "failed"}]
    BY <1>7, <2>2 DEF CommitApproval
  <2>4. status' \in Statuses /\ versions' \subseteq Statuses /\ overwritten' \in BOOLEAN
    BY <1>7, TargetInRefund DEF CommitApproval, Transition
  <2> QED BY <1>7, <2>1, <2>3, <2>4 DEF CommitApproval
<1>8. ASSUME NEW p \in Operators, RollBack(p) PROVE RefundsTypeOK'
  BY <1>0, <1>8 DEF RollBack
<1>9. CASE UNCHANGED refundVars
  BY <1>9 DEF refundVars
<1> QED BY <1>1, <1>2, <1>3, <1>4, <1>5, <1>6, <1>7, <1>8, <1>9 DEF RefundsNext

\* Every step keeps what approvals in hand know and what the books say.
LEMMA RefundsKept ==
  RefundsIInv /\ [RefundsNext]_refundVars => DeskInv' /\ RefundsBooked'
<1> SUFFICES ASSUME RefundsTypeOK, DeskInv, RefundsBooked, [RefundsNext]_refundVars
             PROVE  DeskInv' /\ RefundsBooked'
  BY DEF RefundsIInv
<1> USE DEF RefundsTypeOK, DeskInv, RefundsBooked, orderVars
<1>1. CASE \E c \in Claims : RequestRefund(c)
  BY <1>1 DEF RequestRefund
<1>2. ASSUME NEW copy \in versions, NEW to \in Statuses, MoveOrder(copy, to)
      PROVE  DeskInv' /\ RefundsBooked'
  <2>1. InRefund(status) => InRefund(status') \/ overwritten'
    <3>1. CASE copy = status
      BY <1>2, <3>1, RefundIsFinal DEF MoveOrder, Transition
    <3>2. CASE copy # status
      BY <1>2, <3>2 DEF MoveOrder, Transition
    <3> QED BY <3>1, <3>2
  <2>2. overwritten => overwritten'
    BY <1>2 DEF MoveOrder, Transition
  <2> QED BY <1>2, <2>1, <2>2 DEF MoveOrder, InRefund
<1>3. ASSUME NEW p \in Operators, NEW c \in Claims,
             NEW decision \in {"approving", "rejecting"}, TakeUp(p, c, decision)
      PROVE  DeskInv' /\ RefundsBooked'
  BY <1>3 DEF TakeUp, NoWork
<1>4. ASSUME NEW p \in Operators, Reject(p) PROVE DeskInv' /\ RefundsBooked'
  BY <1>4 DEF Reject, NoWork
<1>5. ASSUME NEW p \in Operators, WriteRefund(p) PROVE DeskInv' /\ RefundsBooked'
  BY <1>5 DEF WriteRefund, Work
<1>6. ASSUME NEW p \in Operators, ReadOrder(p) PROVE DeskInv' /\ RefundsBooked'
  BY <1>6 DEF ReadOrder, Work, InRefund
<1>7. ASSUME NEW p \in Operators, CommitApproval(p) PROVE DeskInv' /\ RefundsBooked'
  <2>1. InRefund(status') \/ overwritten'
    BY <1>7, TargetInRefund DEF CommitApproval, Transition
  <2>2. DeskInv'
    BY <1>7, <2>1 DEF CommitApproval, NoWork
  <2>3. \A c \in Claims : /\ refund'[c] = "succeeded" => paidOut'[c] > 0
                          /\ paidOut'[c] > 0 => refund'[c] \in {"succeeded", "failed"}
    BY <1>7 DEF CommitApproval
  <2> QED BY <2>1, <2>2, <2>3 DEF InRefund
<1>8. ASSUME NEW p \in Operators, RollBack(p) PROVE DeskInv' /\ RefundsBooked'
  BY <1>8 DEF RollBack, NoWork
<1>9. CASE UNCHANGED refundVars
  BY <1>9 DEF refundVars
<1> QED BY <1>1, <1>2, <1>3, <1>4, <1>5, <1>6, <1>7, <1>8, <1>9 DEF RefundsNext

-----------------------------------------------------------------------------
\* Whatever approvals, rejections, moves of the order and rollbacks overlap: a refund
\* that succeeded is in the ledger, one that was paid out was decided, and an order a
\* refund was paid for is in refund unless a status was overwritten unseen
\* (approve_refund is atomic, and the lifecycle map leads out of refund nowhere).
THEOREM RefundsAreBooked == RefundsSpec => []RefundsBooked
<1>1. RefundsIInv /\ [RefundsNext]_refundVars => RefundsIInv'
  BY RefundsTypes, RefundsKept DEF RefundsIInv
<1>2. RefundsIInv => RefundsBooked
  BY DEF RefundsIInv
<1> QED BY RefundsStart, <1>1, <1>2, PTL DEF RefundsSpec

-----------------------------------------------------------------------------
(***************************************************************************)
(* Password resets.                                                        *)
(***************************************************************************)
\* A worker that has claimed a code is the only one that has, and no password has
\* been set with it yet.
ClaimedOnce(w) ==
  /\ code[job[w].code] = "used"
  /\ sets[job[w].code] = 0
  /\ \A v \in Workers \ {w} : job[v].at = "claimed" => job[v].code # job[w].code

JobInv ==
  \A w \in Workers :
    /\ job[w].at \in {"found", "claimed"} => job[w].code \in Codes
    /\ job[w].at = "claimed" => ClaimedOnce(w)

\* What makes CodeSetsOnePassword inductive.
ResetsIInv == ResetsTypeOK /\ JobInv /\ CodeSetsOnePassword

-----------------------------------------------------------------------------
\* ResetsIInv holds at first.
LEMMA ResetsStart == ResetsInit => ResetsIInv
<1> SUFFICES ASSUME ResetsInit PROVE ResetsIInv
  OBVIOUS
<1> USE DEF ResetsInit
<1>0. Idle \in Job
  BY DEF Idle, Job
<1>1. ResetsTypeOK
  <2>1. code \in [Codes -> {"none", "live", "used", "expired", "deleted"}]
    OBVIOUS
  <2>2. sets \in [Codes -> Nat] /\ tokens \subseteq 1..MaxVersion
    OBVIOUS
  <2>3. tokenVersion \in 0..MaxVersion
    BY ResetsAssumption DEF ResetsAssumption
  <2>4. job \in [Workers -> Job]
    BY <1>0
  <2> QED BY <2>1, <2>2, <2>3, <2>4 DEF ResetsTypeOK
<1>2. JobInv
  BY DEF JobInv, Idle
<1>3. \A c \in Codes : sets[c] = 0
  OBVIOUS
<1>4. CodeSetsOnePassword
  <2>1. ASSUME NEW c \in Codes PROVE sets[c] <= 1 /\ sets[c] # 1
    <3>1. sets[c] = 0
      BY <1>3
    <3> HIDE DEF ResetsInit
    <3> QED BY <3>1
  <2> QED BY <2>1 DEF CodeSetsOnePassword
<1> QED BY <1>1, <1>2, <1>4 DEF ResetsIInv

\* Every step but the login counter's keeps the types; a counter stays within its
\* bound, for it is loaded below it.
CountInv == \A w \in Workers : job[w].at = "counted" => job[w].version \in 1..MaxVersion

\* CountInv holds at first.
LEMMA CountStart == ResetsInit => CountInv
BY DEF ResetsInit, CountInv, Idle

\* CountInv is inductive, given the types.
LEMMA CountKept == ResetsTypeOK /\ CountInv /\ [ResetsNext]_resetVars => CountInv'
<1> SUFFICES ASSUME ResetsTypeOK, CountInv, [ResetsNext]_resetVars PROVE CountInv'
  OBVIOUS
<1> USE ResetsAssumption DEF ResetsAssumption, ResetsTypeOK, CountInv, Go, Idle
<1>1. ASSUME NEW c \in Codes, Expire(c) PROVE CountInv'
  BY <1>1 DEF Expire
<1>2. ASSUME NEW w \in Workers, Discard(w) PROVE CountInv'
  BY <1>2 DEF Discard
<1>3. ASSUME NEW w \in Workers, Create(w) PROVE CountInv'
  <2>1. \A v \in Workers : job'[v] = job[v] \/ job'[v].at = "idle"
    BY <1>3 DEF Create
  <2> QED BY <2>1
<1>4. ASSUME NEW w \in Workers, NEW c \in Codes, Find(w, c) PROVE CountInv'
  BY <1>4 DEF Find
<1>5. ASSUME NEW w \in Workers, Claim(w) PROVE CountInv'
  <2>1. \A v \in Workers : job'[v] = job[v] \/ job'[v].at # "counted"
    BY <1>5 DEF Claim, Job
  <2> QED BY <2>1
<1>6. ASSUME NEW w \in Workers, SetPassword(w) PROVE CountInv'
  BY <1>6 DEF SetPassword
<1>7. ASSUME NEW w \in Workers, UseUp(w) PROVE CountInv'
  BY <1>7 DEF UseUp
<1>8. ASSUME NEW w \in Workers, NEW login \in BOOLEAN, Arrive(w, login) PROVE CountInv'
  BY <1>8 DEF Arrive
<1>9. ASSUME NEW w \in Workers, LoadProfile(w) PROVE CountInv'
  <2>1. tokenVersion + 1 \in 1..MaxVersion
    BY <1>9 DEF LoadProfile
  <2> QED BY <1>9, <2>1 DEF LoadProfile, Job
<1>10. ASSUME NEW w \in Workers, SaveProfile(w) PROVE CountInv'
  BY <1>10 DEF SaveProfile
<1>11. ASSUME NEW w \in Workers, Die(w) PROVE CountInv'
  BY <1>11 DEF Die
<1>12. CASE UNCHANGED resetVars
  BY <1>12 DEF resetVars
<1> QED BY <1>1, <1>2, <1>3, <1>4, <1>5, <1>6, <1>7, <1>8, <1>9, <1>10, <1>11, <1>12
     DEF ResetsNext

\* The types are kept.
LEMMA ResetsTypes ==
  ResetsTypeOK /\ JobInv /\ CountInv /\ [ResetsNext]_resetVars => ResetsTypeOK'
<1> SUFFICES ASSUME ResetsTypeOK, JobInv, CountInv, [ResetsNext]_resetVars
             PROVE  ResetsTypeOK'
  OBVIOUS
<1> USE ResetsAssumption DEF ResetsAssumption, ResetsTypeOK, Go
<1>0. Idle \in Job
  BY DEF Idle, Job
<1>1. ASSUME NEW c \in Codes, Expire(c) PROVE ResetsTypeOK'
  BY <1>1 DEF Expire
<1>2. ASSUME NEW w \in Workers, Discard(w) PROVE ResetsTypeOK'
  BY <1>2 DEF Discard, Job
<1>3. ASSUME NEW w \in Workers, Create(w) PROVE ResetsTypeOK'
  BY <1>0, <1>3 DEF Create
<1>4. ASSUME NEW w \in Workers, NEW c \in Codes, Find(w, c) PROVE ResetsTypeOK'
  <2>1. [Idle EXCEPT !.at = "found", !.code = c] \in Job
    BY DEF Idle, Job
  <2> QED BY <1>4, <2>1 DEF Find
<1>5. ASSUME NEW w \in Workers, Claim(w) PROVE ResetsTypeOK'
  <2>1. CASE code[job[w].code] \in {"live", "expired"}
    BY <1>5, <2>1 DEF Claim, Job
  <2>2. CASE code[job[w].code] \notin {"live", "expired"}
    BY <1>0, <1>5, <2>2 DEF Claim
  <2> QED BY <2>1, <2>2
<1>6. ASSUME NEW w \in Workers, SetPassword(w) PROVE ResetsTypeOK'
  <2>1. job[w].code \in Codes
    BY <1>6 DEF SetPassword, JobInv
  <2>2. sets' \in [Codes -> Nat]
    BY <1>6, <2>1 DEF SetPassword
  <2>3. job' \in [Workers -> Job]
    BY <1>6 DEF SetPassword, Job
  <2> QED BY <1>6, <2>2, <2>3 DEF SetPassword
<1>7. ASSUME NEW w \in Workers, UseUp(w) PROVE ResetsTypeOK'
  BY <1>7 DEF UseUp, Job
<1>8. ASSUME NEW w \in Workers, NEW login \in BOOLEAN, Arrive(w, login)
      PROVE  ResetsTypeOK'
  <2>1. [Idle EXCEPT !.at = "bumping", !.login = login] \in Job
    BY DEF Idle, Job
  <2> QED BY <1>8, <2>1 DEF Arrive
<1>9. ASSUME NEW w \in Workers, LoadProfile(w) PROVE ResetsTypeOK'
  <2>1. tokenVersion + 1 \in Nat
    OBVIOUS
  <2>2. job' \in [Workers -> Job]
    BY <1>9, <2>1 DEF LoadProfile, Job
  <2> QED BY <1>9, <2>2 DEF LoadProfile
<1>10. ASSUME NEW w \in Workers, SaveProfile(w) PROVE ResetsTypeOK'
  <2>1. job[w].version \in 1..MaxVersion
    BY <1>10 DEF SaveProfile, CountInv
  <2>2. job' \in [Workers -> Job]
    BY <1>0, <1>10 DEF SaveProfile
  <2>3. tokenVersion' \in 0..MaxVersion /\ tokens' \subseteq 1..MaxVersion
    <3>1. tokenVersion' \in 0..MaxVersion
      BY <1>10, <2>1 DEF SaveProfile
    <3>2. tokens' = tokens \/ tokens' = tokens \cup {job[w].version}
      BY <1>10 DEF SaveProfile
    <3>3. tokens' \subseteq 1..MaxVersion
      BY <2>1, <3>2
    <3> QED BY <3>1, <3>3
  <2>4. code' = code /\ sets' = sets
    BY <1>10 DEF SaveProfile
  <2> QED BY <2>2, <2>3, <2>4
<1>11. ASSUME NEW w \in Workers, Die(w) PROVE ResetsTypeOK'
  BY <1>0, <1>11 DEF Die
<1>12. CASE UNCHANGED resetVars
  BY <1>12 DEF resetVars
<1> QED BY <1>1, <1>2, <1>3, <1>4, <1>5, <1>6, <1>7, <1>8, <1>9, <1>10, <1>11, <1>12
     DEF ResetsNext

-----------------------------------------------------------------------------
\* A step that neither claims nor sets a password: used codes stay used, no worker
\* comes to have claimed, and no code is found that does not exist.
LEMMA QuietStep ==
  ASSUME ResetsTypeOK, JobInv, CodeSetsOnePassword, UNCHANGED sets,
         \A c \in Codes : code[c] = "used" => code'[c] = "used",
         \A w \in Workers : job'[w].at \in {"found", "claimed"} => job'[w].code \in Codes,
         \A w \in Workers : job'[w].at = "claimed" => job'[w] = job[w]
  PROVE  JobInv' /\ CodeSetsOnePassword'
<1>1. JobInv'
  <2>1. ASSUME NEW w \in Workers, job'[w].at = "claimed" PROVE ClaimedOnce(w)'
    <3>1. job'[w] = job[w] /\ job[w].code \in Codes /\ ClaimedOnce(w)
      BY <2>1 DEF JobInv
    <3>2. code'[job'[w].code] = "used" /\ sets'[job'[w].code] = 0
      BY <3>1 DEF ClaimedOnce
    <3>3. ASSUME NEW v \in Workers \ {w}, job'[v].at = "claimed"
          PROVE  job'[v].code # job'[w].code
      <4>1. job'[v] = job[v]
        BY <3>3
      <4> QED BY <3>1, <3>3, <4>1 DEF ClaimedOnce
    <3> QED BY <3>2, <3>3 DEF ClaimedOnce
  <2> QED BY <2>1 DEF JobInv
<1>2. CodeSetsOnePassword'
  BY DEF CodeSetsOnePassword
<1> QED BY <1>1, <1>2

\* ResetsIInv is inductive.
LEMMA ResetsKept ==
  ResetsIInv /\ [ResetsNext]_resetVars => JobInv' /\ CodeSetsOnePassword'
<1> SUFFICES ASSUME ResetsTypeOK, JobInv, CodeSetsOnePassword, [ResetsNext]_resetVars
             PROVE  JobInv' /\ CodeSetsOnePassword'
  BY DEF ResetsIInv
<1> DEFINE Goal == JobInv' /\ CodeSetsOnePassword'
           Known == \A w \in Workers :
                      job[w].at \in {"found", "claimed"} => job[w].code \in Codes
<1>0. Known
  BY DEF JobInv
<1> HIDE DEF Goal
<1>1. ASSUME NEW c \in Codes, Expire(c) PROVE Goal
  BY <1>0, <1>1, QuietStep DEF Expire, Goal, ResetsTypeOK
<1>2. ASSUME NEW w \in Workers, Discard(w) PROVE Goal
  BY <1>0, <1>2, QuietStep DEF Discard, Go, Goal, ResetsTypeOK, Job
<1>3. ASSUME NEW w \in Workers, Create(w) PROVE Goal
  BY <1>0, <1>3, QuietStep DEF Create, Goal, ResetsTypeOK, Idle
<1>4. ASSUME NEW w \in Workers, NEW c \in Codes, Find(w, c) PROVE Goal
  BY <1>0, <1>4, QuietStep DEF Find, Goal, ResetsTypeOK, Idle
<1>5. ASSUME NEW w \in Workers, Claim(w) PROVE Goal
  <2>1. CASE code[job[w].code] \notin {"live", "expired"}
    BY <1>0, <1>5, <2>1, QuietStep DEF Claim, Goal, ResetsTypeOK, Idle
  <2>2. CASE code[job[w].code] \in {"live", "expired"}
    <3> DEFINE c == job[w].code
    <3>1. /\ c \in Codes
          /\ code' = [code EXCEPT ![c] = "used"]
          /\ job' = [job EXCEPT ![w].at = "claimed"]
          /\ sets' = sets
      BY <1>0, <1>5, <2>2 DEF Claim, Go
    <3>2. sets[c] = 0
      BY <2>2, <3>1 DEF CodeSetsOnePassword, ResetsTypeOK
    <3>3. \A v \in Workers \ {w} : job[v].at = "claimed" => job[v].code # c
      BY <2>2 DEF JobInv, ClaimedOnce
    <3>4. job'[w].at = "claimed" /\ job'[w].code = c
      BY <3>1 DEF ResetsTypeOK, Job
    <3>5. \A v \in Workers \ {w} : job'[v] = job[v]
      BY <3>1 DEF ResetsTypeOK
    <3> HIDE DEF c
    <3>6. JobInv'
      BY <3>1, <3>2, <3>3, <3>4, <3>5 DEF JobInv, ClaimedOnce, ResetsTypeOK
    <3>7. CodeSetsOnePassword'
      BY <3>1 DEF CodeSetsOnePassword, ResetsTypeOK
    <3> QED BY <3>6, <3>7 DEF Goal
  <2> QED BY <2>1, <2>2
<1>6. ASSUME NEW w \in Workers, SetPassword(w) PROVE Goal
  <2> DEFINE c == job[w].code
  <2>1. c \in Codes /\ ClaimedOnce(w)
    BY <1>6 DEF SetPassword, JobInv
  <2>2. sets' = [sets EXCEPT ![c] = 1]
    BY <1>6, <2>1 DEF SetPassword, ClaimedOnce, ResetsTypeOK
  <2>3. job' = [job EXCEPT ![w].at = "set"] /\ code' = code
    BY <1>6 DEF SetPassword, Go
  <2>4. job'[w].at = "set" /\ \A v \in Workers \ {w} : job'[v] = job[v]
    BY <2>3 DEF ResetsTypeOK, Job
  <2>5. \A v \in Workers \ {w} : job[v].at = "claimed" => job[v].code # c
    BY <2>1 DEF ClaimedOnce
  <2>6. code[c] = "used"
    BY <2>1 DEF ClaimedOnce
  <2> HIDE DEF c
  <2>7. JobInv'
    BY <2>2, <2>3, <2>4, <2>5 DEF JobInv, ClaimedOnce, ResetsTypeOK
  <2>8. CodeSetsOnePassword'
    BY <2>1, <2>2, <2>3, <2>6 DEF CodeSetsOnePassword, ResetsTypeOK
  <2> QED BY <2>7, <2>8 DEF Goal
<1>7. ASSUME NEW w \in Workers, UseUp(w) PROVE Goal
  BY <1>0, <1>7, QuietStep DEF UseUp, Go, Goal, ResetsTypeOK, Job
<1>8. ASSUME NEW w \in Workers, NEW login \in BOOLEAN, Arrive(w, login) PROVE Goal
  BY <1>0, <1>8, QuietStep DEF Arrive, Goal, ResetsTypeOK, Idle
<1>9. ASSUME NEW w \in Workers, LoadProfile(w) PROVE Goal
  BY <1>0, <1>9, QuietStep DEF LoadProfile, Goal, ResetsTypeOK, Job
<1>10. ASSUME NEW w \in Workers, SaveProfile(w) PROVE Goal
  BY <1>0, <1>10, QuietStep DEF SaveProfile, Goal, ResetsTypeOK, Idle
<1>11. ASSUME NEW w \in Workers, Die(w) PROVE Goal
  BY <1>0, <1>11, QuietStep DEF Die, Goal, ResetsTypeOK, Idle
<1>12. CASE UNCHANGED resetVars
  BY <1>0, <1>12, QuietStep DEF resetVars, Goal
<1> QED BY <1>1, <1>2, <1>3, <1>4, <1>5, <1>6, <1>7, <1>8, <1>9, <1>10, <1>11, <1>12
     DEF ResetsNext, Goal

-----------------------------------------------------------------------------
\* A one-time code sets one password at most, and is spent when it has: for any
\* number of requests that found it, of codes issued meanwhile and of workers that die
\* (the UPDATE of PasswordResetOTPConfirmView.post lets one of them through).
THEOREM OnePasswordPerCode == ResetsSpec => []CodeSetsOnePassword
<1>1. ResetsIInv /\ CountInv /\ [ResetsNext]_resetVars => (ResetsIInv /\ CountInv)'
  BY ResetsTypes, ResetsKept, CountKept DEF ResetsIInv
<1>2. ResetsIInv => CodeSetsOnePassword
  BY DEF ResetsIInv
<1> QED BY ResetsStart, CountStart, <1>1, <1>2, PTL DEF ResetsSpec

-----------------------------------------------------------------------------
(***************************************************************************)
(* Run-time settings.                                                      *)
(***************************************************************************)
\* Versions that are still to come have no entry.
NoEarlyEntry == \A v \in Revisions : v > setting.version => entries[v] = "none"

\* What is cached for the row's version is the row's value.
RowsEntry == entries[setting.version] \in {"none", setting.value}

\* A request that acts on a row has the row there is.
Holds(k) ==
  /\ k.at \in {"read", "rekeyed", "created"} => k.value = setting.value
  /\ k.at \in {"rekeyed", "created", "posting", "editing"} => k.version = setting.version
  /\ k.at = "created" => setting.version = FirstVersion

\* What a get may find in the cache, or has found, is of its time.
Finds(k) ==
  /\ k.at = "keyed" => entries[k.version] \in {"none"} \cup k.seen
  /\ k.at = "answered" => k.value \in k.seen

\* A get in progress knows the present value, mixed up or not.
SeesNow(k) == k.at = "keyed" => setting.value \in k.seen

Sound == NoEarlyEntry /\ RowsEntry /\ \A t \in Threads : Holds(task[t]) /\ Finds(task[t])

ConfigIInv ==
  /\ RuntimeConfigTypeOK
  /\ \A t \in Threads : SeesNow(task[t])
  /\ ~doubt => Sound

-----------------------------------------------------------------------------
\* Revisions are numbers, and 0 is one.
LEMMA Numbers == MaxRevision \in Nat /\ Revisions \subseteq Nat /\ 0 \in Revisions
BY RuntimeConfigAssumption DEF RuntimeConfigAssumption, Revisions

\* An idle worker has no task.
LEMMA NoTaskIsTask == NoTask \in Task
BY Numbers DEF NoTask, Task, Read, Keys

\* ConfigIInv holds at first.
LEMMA ConfigStart == RuntimeConfigInit => ConfigIInv
<1> SUFFICES ASSUME RuntimeConfigInit PROVE ConfigIInv
  OBVIOUS
<1>1. RuntimeConfigTypeOK
  BY Numbers, NoTaskIsTask DEF RuntimeConfigInit, RuntimeConfigTypeOK, Unset, Read, Keys
<1>2. \A t \in Threads : task[t].at = "idle"
  BY DEF RuntimeConfigInit, NoTask
<1>3. \A v \in Revisions : entries[v] = "none"
  BY DEF RuntimeConfigInit
<1>4. setting.version \in Revisions
  BY <1>1 DEF RuntimeConfigTypeOK
<1> QED BY <1>1, <1>2, <1>3, <1>4
     DEF ConfigIInv, SeesNow, Sound, NoEarlyEntry, RowsEntry, Holds, Finds

\* A step of one request that writes nothing.
LEMMA BecomesKept ==
  ASSUME ConfigIInv, NEW t \in Threads, NEW k \in Task, Becomes(t, k),
         SeesNow(k), ~doubt => Holds(k) /\ Finds(k)
  PROVE  ConfigIInv'
<1>1. task' = [task EXCEPT ![t] = k] /\ setting' = setting /\ entries' = entries /\ doubt' = doubt
  BY DEF Becomes
<1>2. task \in [Threads -> Task]
  BY DEF ConfigIInv, RuntimeConfigTypeOK
<1>3. \A u \in Threads : task'[u] = IF u = t THEN k ELSE task[u]
  BY <1>1, <1>2
<1>4. RuntimeConfigTypeOK'
  BY <1>1, <1>2 DEF ConfigIInv, RuntimeConfigTypeOK
<1>5. \A u \in Threads : SeesNow(task[u])'
  BY <1>1, <1>3 DEF ConfigIInv, SeesNow
<1>6. ASSUME ~doubt' PROVE Sound'
  <2>1. Sound /\ Holds(k) /\ Finds(k)
    BY <1>1, <1>6 DEF ConfigIInv
  <2>2. NoEarlyEntry' /\ RowsEntry'
    BY <1>1, <2>1 DEF Sound, NoEarlyEntry, RowsEntry
  <2>3. ASSUME NEW u \in Threads PROVE Holds(task[u])' /\ Finds(task[u])'
    BY <1>1, <1>3, <2>1 DEF Sound, Holds, Finds
  <2> QED BY <2>2, <2>3 DEF Sound
<1> QED BY <1>4, <1>5, <1>6 DEF ConfigIInv

\* What a get, and a look at the row, do to the request.
LEMMA ReadersKept ==
  ASSUME ConfigIInv, NEW t \in Threads,
         \/ GetKey(t) \/ GetCached(t) \/ AnswerGet(t) \/ ReadRow(t) \/ KeyAgain(t) \/ GiveUp(t)
         \/ \E purpose \in {"posting", "editing"} : LoadRow(t, purpose)
  PROVE  ConfigIInv'
<1>1. PICK k \in Task : k = task[t]
  BY DEF ConfigIInv, RuntimeConfigTypeOK
<1>2. PICK s \in [value : Read, version : Revisions, id : Keys] : s = setting
  BY DEF ConfigIInv, RuntimeConfigTypeOK
<1>3. ~doubt => Holds(k) /\ Finds(k) /\ RowsEntry
  BY <1>1 DEF ConfigIInv, Sound
<1>4. CASE GetKey(t)
  <2>1. PICK r : r = [NoTask EXCEPT !.at = "keyed", !.version = setting.version,
                                    !.seen = {setting.value}]
    OBVIOUS
  <2>2. /\ r \in Task /\ r.at = "keyed" /\ r.version = setting.version
        /\ r.seen = {setting.value}
    BY <1>2, <2>1, NoTaskIsTask DEF NoTask, Task
  <2>3. Becomes(t, r)
    BY <1>4, <2>1 DEF GetKey
  <2>4. SeesNow(r) /\ (~doubt => Holds(r) /\ Finds(r))
    BY <1>3, <2>2 DEF SeesNow, Holds, Finds, RowsEntry
  <2> QED BY <2>2, <2>3, <2>4, BecomesKept
<1>5. CASE GetCached(t)
  <2>1. CASE entries[k.version] = "none"
    <3>1. PICK r : r = [NoTask EXCEPT !.at = "missed"]
      OBVIOUS
    <3>2. r \in Task /\ r.at = "missed"
      BY <3>1, NoTaskIsTask DEF NoTask, Task
    <3>3. Becomes(t, r)
      BY <1>1, <1>5, <2>1, <3>1 DEF GetCached
    <3> QED BY <3>2, <3>3, BecomesKept DEF SeesNow, Holds, Finds
  <2>2. CASE entries[k.version] # "none"
    <3>1. PICK found \in Read : found = entries[k.version]
      BY <1>1, <2>2 DEF ConfigIInv, RuntimeConfigTypeOK, Task
    <3>2. PICK r : r = [k EXCEPT !.at = "answered", !.value = found]
      OBVIOUS
    <3>3. r \in Task /\ r.at = "answered" /\ r.value = found /\ r.seen = k.seen
      BY <3>2 DEF Task
    <3>4. Becomes(t, r)
      BY <1>1, <1>5, <2>2, <3>1, <3>2 DEF GetCached
    <3>5. ~doubt => found \in k.seen
      BY <1>1, <1>3, <1>5, <2>2, <3>1 DEF Finds, GetCached
    <3> QED BY <3>3, <3>4, <3>5, BecomesKept DEF SeesNow, Holds, Finds
  <2> QED BY <2>1, <2>2
<1>6. CASE AnswerGet(t) \/ GiveUp(t)
  BY <1>6, NoTaskIsTask, BecomesKept DEF AnswerGet, GiveUp, NoTask, SeesNow, Holds, Finds
<1>7. CASE ReadRow(t)
  <2>1. PICK r : r = [NoTask EXCEPT !.at = "read", !.value = setting.value]
    OBVIOUS
  <2>2. r \in Task /\ r.at = "read" /\ r.value = setting.value
    BY <1>2, <2>1, NoTaskIsTask DEF NoTask, Task
  <2>3. Becomes(t, r)
    BY <1>7, <2>1 DEF ReadRow
  <2> QED BY <2>2, <2>3, BecomesKept DEF SeesNow, Holds, Finds
<1>8. CASE KeyAgain(t)
  <2>1. PICK r : r = [k EXCEPT !.at = "rekeyed", !.version = setting.version]
    OBVIOUS
  <2>2. r \in Task /\ r.at = "rekeyed" /\ r.version = setting.version /\ r.value = k.value
    BY <1>2, <2>1 DEF Task
  <2>3. Becomes(t, r) /\ k.at = "read"
    BY <1>1, <1>8, <2>1 DEF KeyAgain
  <2> QED BY <1>3, <2>2, <2>3, BecomesKept DEF SeesNow, Holds, Finds
<1>9. ASSUME NEW purpose \in {"posting", "editing"}, LoadRow(t, purpose)
      PROVE  ConfigIInv'
  <2>1. PICK r, q : /\ r = [NoTask EXCEPT !.at = "absent"]
                    /\ q = [NoTask EXCEPT !.at = purpose, !.version = setting.version,
                                          !.id = setting.id]
    OBVIOUS
  <2>2. r \in Task /\ r.at = "absent"
    BY <2>1, NoTaskIsTask DEF NoTask, Task
  <2>3. q \in Task /\ q.at = purpose /\ q.version = setting.version
    BY <1>2, <2>1, NoTaskIsTask DEF NoTask, Task
  <2>4. Becomes(t, r) \/ Becomes(t, q)
    BY <1>9, <2>1 DEF LoadRow
  <2> QED BY <2>2, <2>3, <2>4, BecomesKept DEF SeesNow, Holds, Finds
<1> QED BY <1>4, <1>5, <1>6, <1>7, <1>8, <1>9

\* Putting an entry of the row's own time.
LEMMA SetKept ==
  ASSUME ConfigIInv, NEW t \in Threads, SetCached(t)
  PROVE  ConfigIInv'
<1>1. PICK k \in Task : k = task[t]
  BY DEF ConfigIInv, RuntimeConfigTypeOK
<1>2. /\ entries' = [entries EXCEPT ![k.version] = k.value]
      /\ task' = [task EXCEPT ![t] = NoTask]
      /\ setting' = setting /\ doubt' = doubt /\ k.at = "rekeyed"
  BY <1>1 DEF SetCached
<1>3. k.version \in Revisions /\ k.value \in Read
  BY DEF Task
<1>4. /\ entries \in [Revisions -> Read \cup {"none"}] /\ task \in [Threads -> Task]
      /\ setting.version \in Revisions
  BY DEF ConfigIInv, RuntimeConfigTypeOK
<1>5. \A u \in Threads : task'[u] = IF u = t THEN NoTask ELSE task[u]
  BY <1>2, <1>4
<1>6. RuntimeConfigTypeOK'
  BY <1>2, <1>3, <1>4, NoTaskIsTask DEF ConfigIInv, RuntimeConfigTypeOK
<1>7. \A u \in Threads : SeesNow(task[u])'
  BY <1>2, <1>5 DEF ConfigIInv, SeesNow, NoTask
<1>8. ASSUME ~doubt' PROVE Sound'
  <2>1. Sound /\ k.version = setting.version /\ k.value = setting.value
    BY <1>1, <1>2, <1>8 DEF ConfigIInv, Sound, Holds
  <2>2. \A v \in Revisions :
          entries'[v] = IF v = setting.version THEN setting.value ELSE entries[v]
    BY <1>2, <1>4, <2>1
  <2>3. NoEarlyEntry' /\ RowsEntry'
    BY <1>2, <1>4, <2>1, <2>2, Numbers DEF Sound, NoEarlyEntry, RowsEntry
  <2>4. ASSUME NEW u \in Threads PROVE Holds(task[u])' /\ Finds(task[u])'
    <3>1. Holds(task[u])'
      BY <1>2, <1>5, <2>1 DEF Sound, Holds, NoTask
    <3>2. task[u].version \in Revisions
      BY <1>4 DEF Task
    <3>3. SeesNow(task[u]) /\ Finds(task[u])
      BY <2>1 DEF ConfigIInv, Sound
    <3>4. Finds(task[u])'
      BY <1>5, <2>2, <3>2, <3>3 DEF SeesNow, Finds, NoTask
    <3> QED BY <3>1, <3>4
  <2> QED BY <2>3, <2>4 DEF Sound
<1> QED BY <1>6, <1>7, <1>8 DEF ConfigIInv

\* Writing a row that takes nobody unawares, and fits the entries there are.
LEMMA PutKept ==
  ASSUME ConfigIInv, NEW t \in Threads, NEW k \in Task,
         NEW row \in [value : Read, version : Revisions, id : Keys],
         Put(t, row, k), doubt' \in BOOLEAN, k.at \in {"idle", "created"},
         ~doubt' => /\ ~doubt /\ ~Overtakes(t)
                    /\ \A v \in Revisions : v > row.version => entries[v] = "none"
                    /\ entries[row.version] \in {"none", row.value}
                    /\ k.at = "created" => /\ k.value = row.value
                                           /\ k.version = row.version
                                           /\ row.version = FirstVersion
  PROVE  ConfigIInv'
<1> DEFINE Learns(u) == IF task[u].at = "keyed"
                        THEN [task[u] EXCEPT !.seen = @ \cup {row.value}] ELSE task[u]
<1>1. /\ setting' = row /\ entries' = entries
      /\ task' = [u \in Threads |-> IF u = t THEN k ELSE Learns(u)]
  BY DEF Put
<1>2. ASSUME NEW u \in Threads
      PROVE  /\ Learns(u) \in Task /\ Learns(u).at = task[u].at
             /\ Learns(u).value = task[u].value /\ Learns(u).version = task[u].version
             /\ task[u].at = "keyed" => Learns(u).seen = task[u].seen \cup {row.value}
             /\ task[u].at # "keyed" => Learns(u) = task[u]
  <2>1. PICK r \in Task : r = task[u]
    BY DEF ConfigIInv, RuntimeConfigTypeOK
  <2>2. row.value \in Read
    OBVIOUS
  <2> QED BY <2>1, <2>2 DEF Task
<1>3. \A u \in Threads : task'[u] = IF u = t THEN k ELSE Learns(u)
  BY <1>1
<1> HIDE DEF Learns
<1>4. RuntimeConfigTypeOK'
  BY <1>1, <1>2 DEF ConfigIInv, RuntimeConfigTypeOK
<1>5. \A u \in Threads : SeesNow(task[u])'
  BY <1>1, <1>2, <1>3 DEF SeesNow
<1>6. ASSUME ~doubt' PROVE Sound'
  <2>1. Sound /\ \A u \in Threads \ {t} : task[u].at \notin Holding
    BY <1>6 DEF ConfigIInv, Overtakes
  <2>2. NoEarlyEntry' /\ RowsEntry'
    BY <1>1, <1>6 DEF NoEarlyEntry, RowsEntry
  <2>3. ASSUME NEW u \in Threads PROVE Holds(task[u])' /\ Finds(task[u])'
    <3>1. CASE u = t
      BY <1>1, <1>3, <1>6, <3>1 DEF Holds, Finds
    <3>2. CASE u # t
      <4>1. task'[u].at = task[u].at /\ task[u].at \notin Holding
        BY <1>2, <1>3, <2>1, <3>2
      <4>2. Holds(task[u])'
        BY <4>1 DEF Holds, Holding
      <4>3. Finds(task[u])
        BY <2>1 DEF Sound
      <4>4. Finds(task[u])'
        BY <1>1, <1>2, <1>3, <3>2, <4>3 DEF Finds
      <4> QED BY <4>2, <4>4
    <3> QED BY <3>1, <3>2
  <2> QED BY <2>2, <2>3 DEF Sound
<1> QED BY <1>4, <1>5, <1>6 DEF ConfigIInv

\* A request that gives up its write leaves the others alone, doubt or not.
LEMMA DoubtedKept ==
  ASSUME ConfigIInv, NEW t \in Threads, task' = [task EXCEPT ![t] = NoTask],
         UNCHANGED <<setting, entries>>, doubt' \in BOOLEAN, doubt => doubt'
  PROVE  ConfigIInv'
<1>1. task \in [Threads -> Task]
  BY DEF ConfigIInv, RuntimeConfigTypeOK
<1>2. \A u \in Threads : task'[u] = IF u = t THEN NoTask ELSE task[u]
  BY <1>1
<1>3. RuntimeConfigTypeOK'
  BY <1>1, NoTaskIsTask DEF ConfigIInv, RuntimeConfigTypeOK
<1>4. \A u \in Threads : SeesNow(task[u])'
  BY <1>2 DEF ConfigIInv, SeesNow, NoTask
<1>5. ASSUME ~doubt' PROVE Sound'
  <2>1. Sound
    BY <1>5 DEF ConfigIInv
  <2>2. NoEarlyEntry' /\ RowsEntry'
    BY <2>1 DEF Sound, NoEarlyEntry, RowsEntry
  <2>3. ASSUME NEW u \in Threads PROVE Holds(task[u])' /\ Finds(task[u])'
    BY <1>2, <2>1 DEF Sound, Holds, Finds, NoTask
  <2> QED BY <2>2, <2>3 DEF Sound
<1> QED BY <1>3, <1>4, <1>5 DEF ConfigIInv

\* Creating the row, or finding that another has.
LEMMA CreateKept ==
  ASSUME ConfigIInv, NEW t \in Threads, NEW new \in ConfigValues, CreateRow(t, new)
  PROVE  ConfigIInv'
<1>1. CASE setting = Unset
  <2>1. PICK id : id = CHOOSE i \in NewIds : TRUE
    OBVIOUS
  <2>2. id \in Ids /\ FirstVersion \in Revisions
    BY <1>1, <2>1 DEF CreateRow, NewIds
  <2>3. PICK row, k : /\ row = [value |-> new, version |-> FirstVersion, id |-> id]
                      /\ k = [NoTask EXCEPT !.at = "created", !.value = new,
                                            !.version = FirstVersion, !.id = id]
    OBVIOUS
  <2>4. /\ row \in [value : Read, version : Revisions, id : Keys]
        /\ row.value = new /\ row.version = FirstVersion
    BY <2>2, <2>3 DEF Read, Keys
  <2>5. k \in Task /\ k.at = "created" /\ k.value = new /\ k.version = FirstVersion
    BY <2>2, <2>3, NoTaskIsTask DEF NoTask, Task, Read, Keys
  <2>6. Put(t, row, k) /\ doubt' = (doubt \/ Overtakes(t))
    BY <1>1, <2>1, <2>3 DEF CreateRow
  <2>7. doubt' \in BOOLEAN /\ (~doubt' => ~doubt /\ ~Overtakes(t))
    <3>1. doubt \in BOOLEAN /\ Overtakes(t) \in BOOLEAN
      BY DEF ConfigIInv, RuntimeConfigTypeOK, Overtakes
    <3> QED BY <2>6, <3>1, Zenon
  <2>8. ASSUME ~doubt'
        PROVE  \A v \in Revisions : v > 0 => entries[v] = "none"
    BY <1>1, <2>7, <2>8 DEF ConfigIInv, Sound, NoEarlyEntry, Unset
  <2>9. ASSUME ~doubt'
        PROVE  /\ \A v \in Revisions : v > row.version => entries[v] = "none"
               /\ entries[row.version] \in {"none", row.value}
    BY <2>2, <2>4, <2>8, <2>9, Numbers DEF FirstVersion
  <2> QED BY <2>4, <2>5, <2>6, <2>7, <2>9, PutKept
<1>2. CASE setting # Unset
  <2>1. PICK r : r = [NoTask EXCEPT !.at = "posting", !.version = setting.version,
                                    !.id = setting.id]
    OBVIOUS
  <2>2. r \in Task /\ r.at = "posting" /\ r.version = setting.version
    <3>1. setting \in [value : Read, version : Revisions, id : Keys]
      BY DEF ConfigIInv, RuntimeConfigTypeOK
    <3> QED BY <2>1, <3>1, NoTaskIsTask DEF NoTask, Task
  <2>3. Becomes(t, r)
    BY <1>2, <2>1 DEF CreateRow
  <2> QED BY <2>2, <2>3, BecomesKept DEF SeesNow, Holds, Finds
<1> QED BY <1>1, <1>2

\* Writing the row by a copy.
LEMMA SaveKept ==
  ASSUME ConfigIInv, NEW t \in Threads, NEW new \in ConfigValues,
         SaveRow(t, new) \/ SaveForm(t, new)
  PROVE  ConfigIInv'
<1>1. PICK k \in Task : k = task[t]
  BY DEF ConfigIInv, RuntimeConfigTypeOK
<1>2. PICK n : n = IF SaveForm(t, new) THEN k.version
                   ELSE IF k.at = "created" THEN FirstVersion ELSE k.version + 1
  OBVIOUS
<1>3. Save(t, new, n)
  BY <1>1, <1>2 DEF SaveRow, SaveForm
<1>4. doubt \in BOOLEAN /\ Overtakes(t) \in BOOLEAN /\ (entries[k.version] # "none") \in BOOLEAN
  BY DEF ConfigIInv, RuntimeConfigTypeOK, Overtakes
<1>5. doubt' \in BOOLEAN /\ (~doubt' => ~doubt /\ ~Overtakes(t))
  BY <1>1, <1>4, Zenon DEF SaveRow, SaveForm
<1>6. ~doubt' /\ SaveForm(t, new) => entries[k.version] = "none"
  BY <1>1, <1>4, Zenon DEF SaveForm
<1>7. CASE setting = Unset \/ setting.id = k.id
  <2>1. PICK row : row = [value |-> new, version |-> n, id |-> k.id]
    OBVIOUS
  <2>2. n \in Revisions /\ Put(t, row, NoTask)
    BY <1>1, <1>3, <1>7, <2>1 DEF Save
  <2>3. /\ row \in [value : Read, version : Revisions, id : Keys]
        /\ row.value = new /\ row.version = n
    BY <2>1, <2>2 DEF Read, Task
  <2>4. ASSUME ~doubt'
        PROVE  /\ \A v \in Revisions : v > n => entries[v] = "none"
               /\ entries[n] \in {"none", new}
    <3>1. Sound /\ Holds(k)
      BY <1>1, <1>5, <2>4 DEF ConfigIInv, Sound
    <3>2. k.version \in Nat /\ setting.version \in Nat
      BY Numbers DEF Task, ConfigIInv, RuntimeConfigTypeOK
    <3>3. CASE SaveForm(t, new)
      <4>1. n = setting.version
        BY <1>1, <1>2, <3>1, <3>3 DEF SaveForm, Holds
      <4>2. entries[n] = "none"
        BY <1>2, <1>6, <2>4, <3>3
      <4> QED BY <3>1, <4>1, <4>2 DEF Sound, NoEarlyEntry
    <3>4. CASE ~SaveForm(t, new) /\ k.at = "created"
      <4>1. n = setting.version /\ new = setting.value
        BY <1>1, <1>2, <3>1, <3>4 DEF SaveRow, Holds
      <4> QED BY <3>1, <4>1 DEF Sound, NoEarlyEntry, RowsEntry
    <3>5. CASE ~SaveForm(t, new) /\ k.at # "created"
      <4>1. k.at = "posting"
        BY <1>1, <3>5 DEF SaveRow
      <4>2. n = setting.version + 1
        BY <1>2, <3>1, <3>5, <4>1 DEF Holds
      <4>3. \A v \in Revisions : v >= n => v > setting.version
        BY <3>2, <4>2, Numbers
      <4>4. \A v \in Revisions : v >= n => entries[v] = "none"
        BY <3>1, <4>3 DEF Sound, NoEarlyEntry
      <4> QED BY <2>2, <4>4, Numbers
    <3> QED BY <3>3, <3>4, <3>5
  <2>5. NoTask \in Task /\ NoTask.at = "idle"
    BY NoTaskIsTask DEF NoTask
  <2> QED BY <1>5, <2>2, <2>3, <2>4, <2>5, PutKept
<1>8. CASE ~(setting = Unset \/ setting.id = k.id)
  <2>1. task' = [task EXCEPT ![t] = NoTask] /\ UNCHANGED <<setting, entries>>
    BY <1>1, <1>3, <1>8 DEF Save
  <2> QED BY <1>5, <2>1, DoubtedKept
<1> QED BY <1>7, <1>8

\* Deleting an override keeps ConfigIInv.
LEMMA DeleteKept ==
  ASSUME ConfigIInv, NEW t \in Threads, DeleteRow(t)
  PROVE  ConfigIInv'
<1>1. PICK some : some = \E v \in Revisions : entries[v] # "none"
  OBVIOUS
<1>2. doubt \in BOOLEAN /\ Overtakes(t) \in BOOLEAN /\ some \in BOOLEAN
  BY <1>1 DEF ConfigIInv, RuntimeConfigTypeOK, Overtakes
<1>3. doubt' \in BOOLEAN /\ (~doubt' => ~doubt /\ ~Overtakes(t) /\ ~some)
  BY <1>1, <1>2, Zenon DEF DeleteRow
<1>4. CASE setting.id = task[t].id
  <2>1. Put(t, Unset, NoTask)
    BY <1>4 DEF DeleteRow
  <2>2. Unset \in [value : Read, version : Revisions, id : Keys] /\ Unset.version \in Revisions
    BY Numbers DEF Unset, Read, Keys
  <2>3. ~doubt' => \A v \in Revisions : entries[v] = "none"
    BY <1>1, <1>3
  <2>4. NoTask \in Task /\ NoTask.at = "idle"
    BY NoTaskIsTask DEF NoTask
  <2> QED BY <1>3, <2>1, <2>2, <2>3, <2>4, PutKept
<1>5. CASE setting.id # task[t].id
  <2>1. task' = [task EXCEPT ![t] = NoTask] /\ UNCHANGED <<setting, entries>>
    BY <1>5 DEF DeleteRow
  <2> QED BY <1>3, <2>1, DoubtedKept
<1> QED BY <1>4, <1>5

\* Time takes an entry away, and with the last one what may have been mixed up.
LEMMA ExpiryKept ==
  ASSUME ConfigIInv, NEW v \in Revisions, ExpireEntry(v)
  PROVE  ConfigIInv'
<1>1. /\ entries \in [Revisions -> Read \cup {"none"}] /\ task \in [Threads -> Task]
      /\ setting.version \in Revisions /\ doubt \in BOOLEAN
  BY DEF ConfigIInv, RuntimeConfigTypeOK
<1>2. /\ entries' = [entries EXCEPT ![v] = "none"]
      /\ setting' = setting /\ task' = task
  BY DEF ExpireEntry
<1>3. \A u \in Revisions : entries'[u] = IF u = v THEN "none" ELSE entries[u]
  BY <1>1, <1>2
<1>4. PICK clear : clear = (/\ \A u \in Revisions : entries'[u] = "none"
                            /\ \A t \in Threads : task[t].at \notin Holding \cup {"answered"})
  OBVIOUS
<1>5. clear \in BOOLEAN
  BY <1>4
<1>6. doubt' \in BOOLEAN /\ (~doubt' => ~doubt \/ clear)
  BY <1>1, <1>4, <1>5, Zenon DEF ExpireEntry
<1>7. RuntimeConfigTypeOK'
  BY <1>1, <1>2, <1>6 DEF ConfigIInv, RuntimeConfigTypeOK
<1>8. \A t \in Threads : SeesNow(task[t])'
  BY <1>2 DEF ConfigIInv, SeesNow
<1>9. \A t \in Threads : task[t].version \in Revisions
  BY <1>1 DEF Task
<1>10. ASSUME ~doubt' PROVE Sound'
  <2>1. CASE ~doubt
    <3>1. Sound
      BY <2>1 DEF ConfigIInv
    <3>2. NoEarlyEntry' /\ RowsEntry'
      BY <1>1, <1>2, <1>3, <3>1 DEF Sound, NoEarlyEntry, RowsEntry
    <3>3. ASSUME NEW t \in Threads PROVE Holds(task[t])' /\ Finds(task[t])'
      BY <1>2, <1>3, <1>9, <3>1 DEF Sound, Holds, Finds
    <3> QED BY <3>2, <3>3 DEF Sound
  <2>2. CASE clear
    <3>1. NoEarlyEntry' /\ RowsEntry'
      BY <1>1, <1>2, <1>4, <2>2 DEF NoEarlyEntry, RowsEntry
    <3>2. ASSUME NEW t \in Threads PROVE Holds(task[t])' /\ Finds(task[t])'
      BY <1>2, <1>4, <1>9, <2>2 DEF Holds, Finds, Holding
    <3> QED BY <3>1, <3>2 DEF Sound
  <2> QED BY <1>6, <1>10, <2>1, <2>2
<1> QED BY <1>7, <1>8, <1>10 DEF ConfigIInv

\* ConfigIInv is inductive.
LEMMA ConfigStep == ConfigIInv /\ [RuntimeConfigNext]_configVars => ConfigIInv'
<1> SUFFICES ASSUME ConfigIInv, [RuntimeConfigNext]_configVars PROVE ConfigIInv'
  OBVIOUS
<1>1. CASE UNCHANGED configVars
  BY <1>1 DEF configVars, ConfigIInv, RuntimeConfigTypeOK, SeesNow, Sound, NoEarlyEntry,
              RowsEntry, Holds, Finds
<1>2. CASE RuntimeConfigNext
  BY <1>2, ReadersKept, SetKept, CreateKept, SaveKept, DeleteKept, ExpiryKept
     DEF RuntimeConfigNext
<1> QED BY <1>1, <1>2

-----------------------------------------------------------------------------
\* Whatever creations, updates, edits, deletions and deaths overlap with reads, and
\* however many: unless a writer has overtaken a request, or has changed the row below
\* a cached version, within the life of the entries there are, a get answers with a
\* value of its time and the cache agrees with the row.
THEOREM SettingsStayCurrent == RuntimeConfigSpec => []SettingsAreCurrent
<1>1. ConfigIInv => SettingsAreCurrent
  BY DEF ConfigIInv, SettingsAreCurrent, Sound, RowsEntry, Finds
<1> QED BY <1>1, ConfigStart, ConfigStep, PTL DEF RuntimeConfigSpec

-----------------------------------------------------------------------------
(***************************************************************************)
(* The pages and desks together. What is proved of each of them from its   *)
(* own specification holds when all stand side by side.                     *)
(***************************************************************************)
\* A step of the admin is a step of one page or desk, or of none; the others are left
\* as they are.
LEMMA StepsOfParts ==
  [AdminNext]_AdminVars
    => /\ [SelectNext]_selectVars /\ [ChangelistNext]_changelistVars
       /\ [FormsetsNext]_formsetVars /\ [DatePickerNext]_pickerVars
       /\ [PopupsNext]_popupVars /\ [CommandMenuNext]_commandVars
       /\ [RefundsNext]_refundVars /\ [ResetsNext]_resetVars
       /\ [RuntimeConfigNext]_configVars
BY Zenon DEF AdminNext, AdminVars, WidgetVars, DeskVars

\* A page or desk on its own cannot tell that there are others.
THEOREM PagesAreIndependent ==
  AdminSpec => /\ SelectSpec /\ ChangelistSpec /\ FormsetsSpec /\ DatePickerSpec
               /\ PopupsSpec /\ CommandMenuSpec
               /\ RefundsSpec /\ ResetsSpec /\ RuntimeConfigSpec
<1>1. AdminInit => /\ SelectInit /\ ChangelistInit /\ FormsetsInit /\ DatePickerInit
                   /\ PopupsInit /\ CommandMenuInit
                   /\ RefundsInit /\ ResetsInit /\ RuntimeConfigInit
  BY DEF AdminInit
<1> QED BY <1>1, StepsOfParts, PTL
        DEF AdminSpec, SelectSpec, ChangelistSpec, FormsetsSpec, DatePickerSpec,
            PopupsSpec, CommandMenuSpec, RefundsSpec, ResetsSpec, RuntimeConfigSpec

\* The state of every page and desk has its type, in whatever order they are used.
THEOREM AdminIsTyped == AdminSpec => []AdminTypeOK
<1>1. SelectSpec => []SelectTypeOK
  BY SelectorIsTyped
<1>2. ChangelistSpec => []ChangelistTypeOK
  <2>1. ChangelistIInv => ChangelistTypeOK
    BY DEF ChangelistIInv
  <2> QED BY <2>1, ChangelistStart, ChangelistKept, PTL DEF ChangelistSpec
<1>3. FormsetsSpec => []FormsetsTypeOK
  BY FormsetsStart, FormsetsKept, IInvImplies, PTL DEF FormsetsSpec
<1>4. DatePickerSpec => []DatePickerTypeOK
  BY PickersShowDates
<1>5. PopupsSpec => []PopupsTypeOK
  <2>1. PopupsInv => PopupsTypeOK
    BY DEF PopupsInv, PopupsIInv
  <2> QED BY <2>1, PopupsStart, PopupsKept, PTL DEF PopupsSpec
<1>6. CommandMenuSpec => []CommandMenuTypeOK
  <2>1. CommandMenuInv => CommandMenuTypeOK
    BY DEF CommandMenuInv, CommandMenuTypeOK, Record
  <2> QED BY <2>1, CommandMenuStart, CommandMenuKept, PTL DEF CommandMenuSpec
<1>7. RefundsSpec => []RefundsTypeOK
  <2>1. RefundsIInv /\ [RefundsNext]_refundVars => RefundsIInv'
    BY RefundsTypes, RefundsKept DEF RefundsIInv
  <2>2. RefundsIInv => RefundsTypeOK
    BY DEF RefundsIInv
  <2> QED BY RefundsStart, <2>1, <2>2, PTL DEF RefundsSpec
<1>8. ResetsSpec => []ResetsTypeOK
  <2>1. ResetsIInv /\ CountInv /\ [ResetsNext]_resetVars => (ResetsIInv /\ CountInv)'
    BY ResetsTypes, ResetsKept, CountKept DEF ResetsIInv
  <2>2. ResetsIInv => ResetsTypeOK
    BY DEF ResetsIInv
  <2> QED BY ResetsStart, CountStart, <2>1, <2>2, PTL DEF ResetsSpec
<1>9. RuntimeConfigSpec => []RuntimeConfigTypeOK
  <2>1. ConfigIInv => RuntimeConfigTypeOK
    BY DEF ConfigIInv
  <2> QED BY <2>1, ConfigStart, ConfigStep, PTL DEF RuntimeConfigSpec
<1> QED BY PagesAreIndependent, <1>1, <1>2, <1>3, <1>4, <1>5, <1>6, <1>7, <1>8, <1>9, PTL
        DEF AdminTypeOK

\* What the pages and desks promise they promise side by side too: the invariants and
\* step properties that are checked on the instance hold of it for all constants.
THEOREM AdminKeepsItsPromises ==
  AdminSpec => /\ []OptionsConserved /\ []SubmitsAllChosen /\ HiddenStays
               /\ []ActionMatchesBar
               /\ []NumbersRunOn /\ ServerSeesList /\ TypedStays
               /\ []SheetIsMonth /\ []OpenDialogIsCurrent
               /\ []EveryPopupHasItsAsker /\ []LinksFollowChoice
               /\ []HistoryDistinct /\ OthersEntriesStay
               /\ []RefundsBooked /\ []CodeSetsOnePassword /\ []SettingsAreCurrent
BY PagesAreIndependent, OptionsAreConserved, FormsSubmitAllChosen, HiddenOptionsStay,
   ActionsRunOnWhatIsShown, NumbersAlwaysRunOn, ScriptsImplementTheList, TypedIsKept,
   SheetsAreMonths, DialogsAreCurrent, PopupsHaveTheirAskers, LinksAreCurrent,
   HistoriesAreDistinct, OthersAreKept, RefundsAreBooked, OnePasswordPerCode,
   SettingsStayCurrent
====================================================================================
