---------------------------- MODULE CheckoutProofs ----------------------------
(***************************************************************************)
(* Proofs about Checkout, for any sets of customers, keys and workers and   *)
(* any limits of the coupon.                                                *)
(***************************************************************************)
EXTENDS Checkout, FiniteSetTheorems, FunctionTheorems, SequenceTheorems, TLAPS

Stages == PlaceStages \cup CartStages
Keyed == PlaceStages \ {"arrived"}
Frozen == {"frozen", "priced", "emptied", "closed"}
Priced == {"priced", "emptied", "closed"}

\* A cart without a branch is not frozen into an order.
FrozenHasBranch == \A w \in Workers : req[w].at \in Frozen => req[w].branch \in Branches

\* Whoever has inserted a key is alone with it, and the key has no record yet.
KeysInHand ==
  \A p \in Payers : req[p].at \in Keyed /\ req[p].key # NoKey =>
    /\ <<req[p].user, req[p].key>> \notin records
    /\ \A q \in Payers : HoldsKey(q, req[p].user, req[p].key) => q = p

\* The redemptions are those of the discounted orders.
RedeemedByOrders ==
  redeemed = {<<orders[i].user, i>> : i \in {j \in 1..Len(orders) : orders[j].coupon}}

\* Whoever holds the coupon is alone with it, and what its count said still holds.
CouponInHand ==
  \A v \in Workers : HoldsCoupon(v) =>
    /\ Redeemable(req[v].user)
    /\ \A w \in Workers : HoldsCoupon(w) => w = v

TypeInv == TypeOK /\ FrozenHasBranch

-----------------------------------------------------------------------------
(***************************************************************************)
(* What a step does to the requests.                                        *)
(***************************************************************************)

\* The requests of the other workers are left alone.
OnlyFor(w) ==
  /\ req' \in [Workers -> Request \cup {Idle}]
  /\ \A v \in Workers \ {w} : req'[v] = req[v]

\* A request that is carried on is still its customer's, with its key and coupon.
Carried(w, at) ==
  /\ OnlyFor(w)
  /\ req[w] \in Request /\ req'[w] \in Request
  /\ req'[w].at = at
  /\ req'[w].user = req[w].user /\ req'[w].key = req[w].key
  /\ req'[w].coupon = req[w].coupon
  /\ at # "scoped" => req'[w].branch = req[w].branch
  /\ at # "frozen" => req'[w].lines = req[w].lines
  /\ at \notin {"emptied", "swept"} => req'[w].gone = req[w].gone

\* A worker that goes on keeps its request.
LEMMA Carrying ==
  ASSUME TypeOK, NEW w \in Workers, req[w].at \in Stages, NEW at \in Stages,
         NEW b \in Scopes, NEW ls \in SUBSET Lines,
         \/ Move(w, at)
         \/ at = "scoped" /\ req' = [req EXCEPT ![w].at = at, ![w].branch = b]
         \/ at = "frozen" /\ req' = [req EXCEPT ![w].at = at, ![w].lines = ls]
         \/ at \in {"emptied", "swept"} /\ req' = [req EXCEPT ![w].at = at, ![w].gone = ls]
  PROVE  Carried(w, at)
<1>1. PICK q \in Request : q = req[w]
  BY DEF TypeOK, Idle, Stages, PlaceStages, CartStages
<1> DEFINE Kept(x) == /\ x \in Request
                      /\ x.at = at /\ x.user = q.user /\ x.key = q.key
                      /\ x.coupon = q.coupon
                      /\ at # "scoped" => x.branch = q.branch
                      /\ at # "frozen" => x.lines = q.lines
                      /\ at \notin {"emptied", "swept"} => x.gone = q.gone
<1>2. CASE Move(w, at)
  <2>1. Kept([q EXCEPT !.at = at])
    BY DEF Request, Stages
  <2> QED BY <1>1, <1>2, <2>1 DEF Move, TypeOK, Carried, OnlyFor
<1>3. CASE at = "scoped" /\ req' = [req EXCEPT ![w].at = at, ![w].branch = b]
  <2>1. Kept([q EXCEPT !.at = at, !.branch = b])
    BY <1>3 DEF Request, Stages
  <2>2. req' = [req EXCEPT ![w] = [q EXCEPT !.at = at, !.branch = b]]
    BY <1>1, <1>3
  <2> QED BY <1>1, <2>1, <2>2 DEF TypeOK, Carried, OnlyFor
<1>4. CASE at = "frozen" /\ req' = [req EXCEPT ![w].at = at, ![w].lines = ls]
  <2>1. Kept([q EXCEPT !.at = at, !.lines = ls])
    BY <1>4 DEF Request, Stages
  <2>2. req' = [req EXCEPT ![w] = [q EXCEPT !.at = at, !.lines = ls]]
    BY <1>1, <1>4
  <2> QED BY <1>1, <2>1, <2>2 DEF TypeOK, Carried, OnlyFor
<1>5. CASE at \in {"emptied", "swept"} /\ req' = [req EXCEPT ![w].at = at, ![w].gone = ls]
  <2>1. Kept([q EXCEPT !.at = at, !.gone = ls])
    BY <1>5 DEF Request, Stages
  <2>2. req' = [req EXCEPT ![w] = [q EXCEPT !.at = at, !.gone = ls]]
    BY <1>1, <1>5
  <2> QED BY <1>1, <2>1, <2>2 DEF TypeOK, Carried, OnlyFor
<1> QED BY <1>2, <1>3, <1>4, <1>5

\* A worker that is done is idle again.
LEMMA Ending ==
  ASSUME TypeOK, NEW w \in Workers, End(w)
  PROVE  OnlyFor(w) /\ req'[w] = Idle
BY DEF TypeOK, End, OnlyFor

\* A worker takes up a request.
LEMMA Beginning ==
  ASSUME TypeOK, NEW w \in Workers, NEW at \in Stages, NEW u \in Users,
         NEW k \in Keys \cup {NoKey}, NEW c \in BOOLEAN, NEW b \in Scopes,
         NEW ls \in SUBSET Lines, NEW gs \in SUBSET Lines,
         req' = [req EXCEPT ![w] = [at |-> at, user |-> u, key |-> k, coupon |-> c,
                                    branch |-> b, lines |-> ls, gone |-> gs]]
  PROVE  OnlyFor(w) /\ req'[w].at = at
<1> DEFINE r == [at |-> at, user |-> u, key |-> k, coupon |-> c,
                 branch |-> b, lines |-> ls, gone |-> gs]
<1>1. r \in Request /\ r.at = at
  BY DEF Request, Stages
<1>2. req' = [req EXCEPT ![w] = r]
  OBVIOUS
<1> HIDE DEF r
<1> QED BY <1>1, <1>2 DEF TypeOK, OnlyFor

-----------------------------------------------------------------------------
(***************************************************************************)
(* Most steps say nothing to the books, and nobody comes to hold the key or *)
(* the coupon by them.                                                      *)
(***************************************************************************)
books == <<records, orders, redeemed>>

Quiet(w) ==
  /\ UNCHANGED books /\ OnlyFor(w)
  /\ req'[w].at \in Keyed => req[w].at \in Keyed /\ Carried(w, req'[w].at)
  /\ req'[w].at \in Priced => req[w].at \in Priced
  /\ req'[w].at \in Frozen => req'[w].branch \in Branches

\* A request that ends without writing the books disturbs nothing.
LEMMA QuietEnd ==
  ASSUME TypeInv, NEW w \in Workers, End(w), UNCHANGED books
  PROVE  Quiet(w)
<1>1. req'[w].at = "idle"
  BY Ending DEF TypeInv, Idle
<1> QED BY <1>1, Ending DEF TypeInv, Quiet, Keyed, Priced, Frozen, PlaceStages

\* Nor does a step on the cart.
LEMMA QuietCart ==
  ASSUME TypeInv, NEW w \in Workers, OnlyFor(w), UNCHANGED books,
         req'[w].at \in CartStages \cup {"arrived"}
  PROVE  Quiet(w)
BY DEF TypeInv, Quiet, Keyed, Priced, Frozen, PlaceStages, CartStages

\* Nor does a step of placing that reads or writes the cart alone.
LEMMA QuietStep ==
  ASSUME TypeInv, NEW w \in Workers, NEW at, Carried(w, at), UNCHANGED books,
         \/ at = "scoped" /\ req[w].at = "keyed"
         \/ at = "frozen" /\ req[w].at = "scoped" /\ req[w].branch # Nowhere
         \/ at = "emptied" /\ req[w].at = "priced"
         \/ at = "closed" /\ req[w].at = "emptied"
  PROVE  Quiet(w)
<1>1. at \in Frozen => req'[w].branch \in Branches
  BY DEF TypeInv, FrozenHasBranch, Carried, Frozen, Request, Scopes
<1> QED BY <1>1 DEF Carried, Quiet, Keyed, Priced, Frozen, PlaceStages

\* The parts of a customer's cart.
LEMMA CartTyped ==
  ASSUME TypeOK, NEW u \in Users
  PROVE  cart[u].branch \in Scopes /\ cart[u].items \in SUBSET Lines
BY DEF TypeOK, Cart

\* A busy worker has a request.
LEMMA BusyTyped ==
  ASSUME TypeOK, NEW w \in Workers, req[w].at \in Stages
  PROVE  req[w] \in Request
BY DEF TypeOK, Idle, Stages, PlaceStages, CartStages

\* The steps of placing an order that write neither keys, redemptions nor orders.
LEMMA PlaceQuiet ==
  ASSUME TypeInv, NEW p \in Workers,
         \/ Replay(p) \/ ReadCart(p) \/ ReadLines(p) \/ Empty(p) \/ Close(p)
  PROVE  Quiet(p)
<1> USE DEF TypeInv
<1>1. CASE Replay(p)
  BY <1>1, QuietEnd DEF Replay, rows, books
<1>2. CASE ReadCart(p)
  <2>1. req[p] \in Request /\ req[p].user \in Users
    BY <1>2, BusyTyped DEF ReadCart, Stages, PlaceStages, Request
  <2>2. Carried(p, "scoped")
    BY <1>2, <2>1, CartTyped, Carrying DEF ReadCart, Stages, PlaceStages
  <2> QED BY <1>2, <2>2, QuietStep DEF ReadCart, rows, books
<1>3. CASE ReadLines(p)
  <2>1. req[p] \in Request /\ req[p].user \in Users
    BY <1>3, BusyTyped DEF ReadLines, Stages, PlaceStages, Request
  <2>2. CASE cart[req[p].user].items # {} /\ req[p].branch # Nowhere
    <3>1. Carried(p, "frozen")
      <4>1. req' = [req EXCEPT ![p].at = "frozen", ![p].lines = cart[req[p].user].items]
        BY <1>3, <2>2 DEF ReadLines
      <4> QED BY <1>3, <2>1, <4>1, CartTyped, Carrying DEF ReadLines, Stages, PlaceStages, Scopes
    <3> QED BY <1>3, <2>2, <3>1, QuietStep DEF ReadLines, rows, books
  <2>3. CASE ~(cart[req[p].user].items # {} /\ req[p].branch # Nowhere)
    BY <1>3, <2>3, QuietEnd DEF ReadLines, rows, books
  <2> QED BY <2>2, <2>3
<1>4. CASE Empty(p)
  <2>1. req[p] \in Request /\ req[p].user \in Users
    BY <1>4, BusyTyped DEF Empty, Stages, PlaceStages, Request
  <2>2. Carried(p, "emptied")
    BY <1>4, <2>1, CartTyped, Carrying DEF Empty, Stages, PlaceStages, Scopes
  <2> QED BY <1>4, <2>2, QuietStep DEF Empty, rows, books
<1>5. CASE Close(p)
  <2>1. Carried(p, "closed")
    BY <1>5, Carrying DEF Close, Stages, PlaceStages, Scopes
  <2> QED BY <1>5, <2>1, QuietStep DEF Close, rows, books
<1> QED BY <1>1, <1>2, <1>3, <1>4, <1>5

\* A request for the cart has begun.
Begun(s) == OnlyFor(s) /\ req'[s].at \in CartStages

\* A shopper takes up a request on a cart.
LEMMA Begins ==
  ASSUME TypeInv, NEW s \in Workers, NEW at \in CartStages, NEW u \in Users,
         NEW b \in Scopes, NEW ls \in SUBSET Lines, Begin(s, at, u, b, ls)
  PROVE  Begun(s)
<1>1. /\ NoKey \in Keys \cup {NoKey} /\ FALSE \in BOOLEAN /\ at \in Stages
      /\ {} \in SUBSET Lines
  BY DEF Stages
<1> QED BY <1>1, Beginning DEF TypeInv, Begin, Begun

\* CartItemViewSet.create up to its first write.
LEMMA Adds ==
  ASSUME TypeInv, NEW s \in Workers, Add(s)
  PROVE  UNCHANGED <<cart, books>> /\ fresh' \subseteq fresh /\ Begun(s)
<1>1. PICK u \in Users, id \in fresh, b \in Branches, replace \in BOOLEAN :
        Begin(s, IF replace \/ cart[u].branch = Nowhere THEN "emptying" ELSE "adding",
              u, cart[u].branch, {[id |-> id, branch |-> b]})
  BY DEF Add
<1> DEFINE l == [id |-> id, branch |-> b]
<1>2. l \in Lines
  BY DEF TypeInv, TypeOK, Lines
<1>3. PICK at \in {"adding", "emptying"} : Begin(s, at, u, cart[u].branch, {l})
  BY <1>1
<1> HIDE DEF l
<1>4. at \in CartStages /\ cart[u].branch \in Scopes /\ {l} \in SUBSET Lines
  BY <1>2, CartTyped DEF TypeInv, CartStages
<1>5. Begun(s)
  BY <1>3, <1>4, Begins
<1> QED BY <1>5 DEF Add, books

\* The update of a line, by PATCH ...
LEMMA Patches ==
  ASSUME TypeInv, NEW s \in Workers, Patch(s)
  PROVE  UNCHANGED rows /\ Begun(s)
<1>1. PICK u \in Users : \E l \in cart[u].items : Begin(s, "patching", u, Nowhere, {l})
  BY DEF Patch
<1>2. PICK l \in cart[u].items : Begin(s, "patching", u, Nowhere, {l})
  BY <1>1
<1>3. l \in Lines
  BY CartTyped DEF TypeInv
<1>4. "patching" \in CartStages /\ Nowhere \in Scopes /\ {l} \in SUBSET Lines
  BY <1>3 DEF CartStages, Scopes
<1> QED BY <1>2, <1>4, Begins DEF Patch

\* ... or by PUT, with another item.
LEMMA Puts ==
  ASSUME TypeInv, NEW s \in Workers, Put(s)
  PROVE  UNCHANGED rows /\ Begun(s)
<1>1. PICK u \in Users, b \in Branches : \E l \in cart[u].items :
        Begin(s, "patching", u, Nowhere, {[id |-> l.id, branch |-> b]})
  BY DEF Put
<1>2. PICK l \in cart[u].items :
        Begin(s, "patching", u, Nowhere, {[id |-> l.id, branch |-> b]})
  BY <1>1
<1> DEFINE k == [id |-> l.id, branch |-> b]
<1>3. k \in Lines
  BY CartTyped DEF TypeInv, Lines
<1> HIDE DEF k
<1>4. "patching" \in CartStages /\ Nowhere \in Scopes /\ {k} \in SUBSET Lines
  BY <1>3 DEF CartStages, Scopes
<1>5. Begin(s, "patching", u, Nowhere, {k})
  BY <1>2 DEF k
<1> QED BY <1>4, <1>5, Begins DEF Put

\* The admin's form of a cart is posted.
LEMMA Forms ==
  ASSUME TypeInv, NEW s \in Workers, Form(s)
  PROVE  UNCHANGED <<cart, books>> /\ fresh' \subseteq fresh /\ Begun(s)
<1>1. PICK u \in Users, l \in Lines : \E kept \in {{}, {l}} :
        /\ req' = [req EXCEPT ![s] =
             [at |-> "posted", user |-> u, key |-> NoKey, coupon |-> FALSE,
              branch |-> cart[u].branch, lines |-> kept,
              gone |-> {k \in cart[u].items : k.id = l.id}]]
        /\ fresh' = IF kept = {} THEN fresh ELSE fresh \ {l.id}
  BY DEF Form
<1>2. PICK kept \in {{}, {l}} :
        /\ req' = [req EXCEPT ![s] =
             [at |-> "posted", user |-> u, key |-> NoKey, coupon |-> FALSE,
              branch |-> cart[u].branch, lines |-> kept,
              gone |-> {k \in cart[u].items : k.id = l.id}]]
        /\ fresh' = IF kept = {} THEN fresh ELSE fresh \ {l.id}
  BY <1>1
<1> DEFINE old == {k \in cart[u].items : k.id = l.id}
<1>3. /\ kept \in SUBSET Lines /\ old \in SUBSET Lines /\ cart[u].branch \in Scopes
      /\ "posted" \in Stages /\ NoKey \in Keys \cup {NoKey} /\ FALSE \in BOOLEAN
  BY CartTyped DEF TypeInv, Stages, CartStages
<1>4. req' = [req EXCEPT ![s] =
               [at |-> "posted", user |-> u, key |-> NoKey, coupon |-> FALSE,
                branch |-> cart[u].branch, lines |-> kept, gone |-> old]]
  BY <1>2
<1> HIDE DEF old
<1>5. OnlyFor(s) /\ req'[s].at = "posted"
  BY <1>3, <1>4, Beginning DEF TypeInv
<1> QED BY <1>2, <1>5 DEF Form, Begun, CartStages, books

\* Its cart is saved ...
LEMMA FormCarts ==
  ASSUME TypeInv, NEW s \in Workers, FormCart(s)
  PROVE  UNCHANGED rows /\ Carried(s, "written")
BY Carrying DEF TypeInv, FormCart, Stages, CartStages, Scopes

\* ... and then its line.
LEMMA FormCommits ==
  ASSUME TypeInv, NEW s \in Workers, FormCommit(s)
  PROVE  /\ End(s) /\ UNCHANGED <<fresh, books>>
         /\ req[s] \in Request
         /\ cart' = [cart EXCEPT ![req[s].user] =
              [branch |-> req[s].branch,
               items |-> Without(@.items, req[s].gone \cup req[s].lines) \cup req[s].lines]]
BY BusyTyped DEF TypeInv, FormCommit, Stages, CartStages, books

\* CartViewSet.clear takes the lines away first.
LEMMA Clears ==
  ASSUME TypeInv, NEW s \in Workers, Clear(s)
  PROVE  /\ UNCHANGED <<fresh, books>> /\ Begun(s)
         /\ \E u \in Users : cart' = [cart EXCEPT ![u].items = {}]
<1>1. PICK u \in Users : /\ cart' = [cart EXCEPT ![u].items = {}]
                         /\ Begin(s, "clearing", u, Nowhere, {})
  BY DEF Clear
<1>2. Begun(s)
  BY <1>1, Begins DEF CartStages, Scopes
<1> QED BY <1>1, <1>2 DEF Clear, books

\* Replacing a cart takes away the lines that it reads.
LEMMA AddEmpties ==
  ASSUME TypeInv, NEW s \in Workers, AddEmpty(s)
  PROVE  UNCHANGED rows /\ Carried(s, "swept")
<1>1. req[s] \in Request /\ req[s].user \in Users
  BY BusyTyped DEF TypeInv, AddEmpty, Stages, CartStages, Request
<1>2. Carried(s, "swept")
  BY <1>1, CartTyped, Carrying DEF TypeInv, AddEmpty, Stages, CartStages, Scopes
<1> QED BY <1>2 DEF AddEmpty

\* The branch of the new line is written.
LEMMA AddScopes ==
  ASSUME TypeInv, NEW s \in Workers, AddScope(s)
  PROVE  UNCHANGED rows /\ Carried(s, "updated")
BY Carrying DEF TypeInv, AddScope, Stages, CartStages, Scopes

\* Adding a line, and what it leaves of the cart.
LEMMA AddCommits ==
  ASSUME TypeInv, NEW s \in Workers, AddCommit(s)
  PROVE  /\ End(s) /\ UNCHANGED <<fresh, books>>
         /\ req[s] \in Request
         /\ \E l \in req[s].lines :
              cart' = [cart EXCEPT ![req[s].user] =
                        [branch |-> l.branch, items |-> (@.items \ req[s].gone) \cup {l}]]
BY BusyTyped DEF TypeInv, AddCommit, Stages, CartStages, books

\* The patched line is saved, also when the cart has lost it since.
LEMMA PatchSaves ==
  ASSUME TypeInv, NEW s \in Workers, PatchSave(s)
  PROVE  /\ End(s) /\ UNCHANGED <<fresh, books>>
         /\ req[s] \in Request
         /\ cart' = [cart EXCEPT ![req[s].user].items =
                       Without(@, req[s].lines) \cup req[s].lines]
BY BusyTyped DEF TypeInv, PatchSave, Stages, CartStages, books

\* CartViewSet.clear takes the branch away last.
LEMMA ClearScopes ==
  ASSUME TypeInv, NEW s \in Workers, ClearScope(s)
  PROVE  /\ End(s) /\ UNCHANGED <<fresh, books>>
         /\ req[s] \in Request
         /\ cart' = [cart EXCEPT ![req[s].user].branch = Nowhere]
BY BusyTyped DEF TypeInv, ClearScope, Stages, CartStages, books

\* What shoppers do leaves keys, redemptions and orders alone.
LEMMA CartQuiet ==
  ASSUME TypeInv, NEW s \in Workers,
         \/ Add(s) \/ Patch(s) \/ Put(s) \/ Form(s) \/ Clear(s) \/ AddEmpty(s)
         \/ AddScope(s) \/ AddCommit(s) \/ PatchSave(s) \/ FormCart(s) \/ FormCommit(s)
         \/ ClearScope(s)
  PROVE  Quiet(s)
<1>1. CASE Add(s) \/ Form(s)
  BY <1>1, Adds, Forms, QuietCart DEF Begun
<1>2. CASE Patch(s) \/ Put(s)
  BY <1>2, Patches, Puts, QuietCart DEF Begun, rows, books
<1>3. CASE Clear(s)
  BY <1>3, Clears, QuietCart DEF Begun
<1>4. CASE AddEmpty(s)
  BY <1>4, AddEmpties, QuietCart DEF Carried, CartStages, rows, books
<1>5. CASE AddScope(s)
  BY <1>5, AddScopes, QuietCart DEF Carried, CartStages, rows, books
<1>6. CASE AddCommit(s)
  BY <1>6, AddCommits, QuietEnd
<1>7. CASE PatchSave(s)
  BY <1>7, PatchSaves, QuietEnd
<1>8. CASE ClearScope(s)
  BY <1>8, ClearScopes, QuietEnd
<1>9. CASE FormCart(s)
  BY <1>9, FormCarts, QuietCart DEF Carried, CartStages, rows, books
<1>10. CASE FormCommit(s)
  BY <1>10, FormCommits, QuietEnd
<1> QED BY <1>1, <1>2, <1>3, <1>4, <1>5, <1>6, <1>7, <1>8, <1>9, <1>10

\* A step leaves the requests alone, is quiet, or is one of the three that matter
\* to the key or the coupon.
LEMMA Steps ==
  ASSUME TypeInv, [Next]_vars
  PROVE  \/ UNCHANGED <<books, req>>
         \/ \E w \in Workers : Quiet(w)
         \/ \E p \in Payers : TakeKey(p) \/ Price(p) \/ Commit(p)
<1>1. CASE UNCHANGED vars
  BY <1>1 DEF vars, books
<1>2. ASSUME NEW p \in Payers, Arrive(p)
      PROVE  Quiet(p)
  <2>1. p \in Workers
    BY DEF Workers
  <2>2. PICK u \in Users, k \in Keys \cup {NoKey}, c \in BOOLEAN :
          req' = [req EXCEPT ![p] = [at |-> "arrived", user |-> u, key |-> k, coupon |-> c,
                                     branch |-> Nowhere, lines |-> {}, gone |-> {}]]
    BY <1>2 DEF Arrive
  <2>3. "arrived" \in Stages /\ Nowhere \in Scopes /\ {} \in SUBSET Lines
    BY DEF Stages, PlaceStages, Scopes
  <2>4. OnlyFor(p) /\ req'[p].at = "arrived"
    BY <2>1, <2>2, <2>3, Beginning DEF TypeInv
  <2> QED BY <1>2, <2>1, <2>4, QuietCart DEF Arrive, rows, books
<1>3. ASSUME NEW w \in Workers, Abort(w)
      PROVE  Quiet(w)
  BY <1>3, QuietEnd DEF Abort, rows, books
<1>4. CASE AtBound
  BY <1>4 DEF AtBound, vars, books
<1>5. ASSUME NEW s \in Shoppers, Remove(s)
      PROVE  UNCHANGED <<books, req>>
  BY <1>5 DEF Remove, books
<1>6. Payers \subseteq Workers /\ Shoppers \subseteq Workers
  BY DEF Workers
<1> QED BY <1>1, <1>2, <1>3, <1>4, <1>5, <1>6, PlaceQuiet, CartQuiet
        DEF Next, PlaceStep, CartStep

\* What a commit adds to the orders.
Ordered(p) == [user |-> req[p].user, key |-> req[p].key, branch |-> req[p].branch,
               lines |-> req[p].lines, coupon |-> req[p].coupon]

\* What the transaction that places an order leaves.
LEMMA Commits ==
  ASSUME TypeInv, NEW p \in Workers, Commit(p), NEW n \in Nat, n = Len(orders)
  PROVE  /\ req[p] \in Request /\ Ordered(p) \in Order
         /\ OnlyFor(p) /\ req'[p] = Idle
         /\ orders' \in Seq(Order) /\ Len(orders') = n + 1
         /\ \A i \in 1..n : orders'[i] = orders[i]
         /\ orders'[n + 1] = Ordered(p)
         /\ redeemed' = redeemed \cup (IF req[p].coupon THEN {<<req[p].user, n + 1>>} ELSE {})
         /\ records' = records \cup
              (IF req[p].key # NoKey THEN {<<req[p].user, req[p].key>>} ELSE {})
         /\ cart' = [cart EXCEPT ![req[p].user] =
              [branch |-> Nowhere, items |-> @.items \ req[p].gone]]
         /\ fresh' = fresh
<1>1. req[p].at = "closed" /\ req[p] \in Request
  BY BusyTyped DEF TypeInv, Commit, Stages, PlaceStages
<1>2. Ordered(p) \in Order
  BY <1>1 DEF TypeInv, FrozenHasBranch, Frozen, Ordered, Order, Request
<1>3. orders \in Seq(Order) /\ orders' = Append(orders, Ordered(p))
  BY DEF TypeInv, TypeOK, Commit, Ordered
<1>4. /\ orders' \in Seq(Order) /\ Len(orders') = Len(orders) + 1
      /\ \A i \in 1..Len(orders) : orders'[i] = orders[i]
      /\ orders'[Len(orders) + 1] = Ordered(p)
  BY <1>2, <1>3, AppendProperties
<1>5. OnlyFor(p) /\ req'[p] = Idle
  BY Ending DEF TypeInv, Commit
<1> QED BY <1>1, <1>2, <1>4, <1>5 DEF Commit

\* Carts remain carts.
LEMMA CartStaysTyped ==
  ASSUME TypeInv, [Next]_vars
  PROVE  cart' \in [Users -> Cart] /\ fresh' \subseteq LineIds
<1>1. /\ cart \in [Users -> Cart] /\ fresh \subseteq LineIds
      /\ Payers \subseteq Workers /\ Shoppers \subseteq Workers
  BY DEF TypeInv, TypeOK, Workers
<1>2. ASSUME NEW u \in Users, NEW b \in Scopes, NEW ls, ls \subseteq Lines,
             \/ cart' = [cart EXCEPT ![u] = [branch |-> b, items |-> ls]]
             \/ cart' = [cart EXCEPT ![u].items = ls]
             \/ cart' = [cart EXCEPT ![u].branch = b]
      PROVE  cart' \in [Users -> Cart]
  BY <1>1, <1>2 DEF Cart
<1>3. CASE UNCHANGED <<cart, fresh>>
  BY <1>1, <1>3
<1>4. ASSUME NEW p \in Payers, Commit(p)
      PROVE  cart' \in [Users -> Cart] /\ fresh' \subseteq LineIds
  <2> PICK n \in Nat : n = Len(orders)
    BY LenProperties DEF TypeInv, TypeOK
  <2>1. req[p].user \in Users /\ Nowhere \in Scopes
    BY <1>1, <1>4, Commits DEF Request, Scopes
  <2> DEFINE ls == cart[req[p].user].items \ req[p].gone
  <2>2. ls \subseteq Lines
    BY <2>1, CartTyped DEF TypeInv
  <2>3. cart' = [cart EXCEPT ![req[p].user] = [branch |-> Nowhere, items |-> ls]] /\ fresh' = fresh
    BY <1>1, <1>4, <2>1, Commits
  <2> HIDE DEF ls
  <2>4. cart' \in [Users -> Cart]
    BY <1>2, <2>1, <2>2, <2>3
  <2> QED BY <1>1, <2>3, <2>4
<1>5. ASSUME NEW s \in Shoppers, Add(s) \/ Form(s)
      PROVE  cart' \in [Users -> Cart] /\ fresh' \subseteq LineIds
  <2>1. cart' = cart /\ fresh' \subseteq fresh
    BY <1>1, <1>5, Adds, Forms
  <2> QED BY <1>1, <2>1
<1>6. ASSUME NEW s \in Shoppers, Remove(s)
      PROVE  cart' \in [Users -> Cart] /\ fresh' \subseteq LineIds
  <2>1. PICK u \in Users : \E l \in cart[u].items : cart' = [cart EXCEPT ![u].items = @ \ {l}]
    BY <1>6 DEF Remove
  <2>2. PICK l \in cart[u].items : cart' = [cart EXCEPT ![u].items = @ \ {l}]
    BY <2>1
  <2> DEFINE ls == cart[u].items \ {l}
  <2>3. ls \subseteq Lines
    BY CartTyped DEF TypeInv
  <2>4. cart' = [cart EXCEPT ![u].items = ls] /\ fresh' = fresh
    BY <1>1, <1>6, <2>2 DEF Remove
  <2> HIDE DEF ls
  <2>5. Nowhere \in Scopes
    BY DEF Scopes
  <2>6. cart' \in [Users -> Cart]
    BY <1>2, <2>3, <2>4, <2>5
  <2> QED BY <1>1, <2>4, <2>6
<1>7. ASSUME NEW s \in Shoppers, Clear(s)
      PROVE  cart' \in [Users -> Cart] /\ fresh' \subseteq LineIds
  <2>1. Nowhere \in Scopes /\ {} \subseteq Lines
    BY DEF Scopes
  <2>2. PICK u \in Users : cart' = [cart EXCEPT ![u].items = {}]
    BY <1>1, <1>7, Clears
  <2>3. PICK ls : ls = {} /\ cart' = [cart EXCEPT ![u].items = ls]
    BY <2>2
  <2>4. ls \subseteq Lines
    BY <2>3
  <2>5. cart' \in [Users -> Cart]
    <3>1. cart' = [cart EXCEPT ![u].items = ls]
      BY <2>3
    <3> QED BY <1>2, <2>1, <2>4, <3>1
  <2> QED BY <1>1, <1>7, <2>5, Clears
<1>8. ASSUME NEW s \in Shoppers, AddCommit(s)
      PROVE  cart' \in [Users -> Cart] /\ fresh' \subseteq LineIds
  <2>1. PICK l \in req[s].lines :
          cart' = [cart EXCEPT ![req[s].user] =
                     [branch |-> l.branch, items |-> (@.items \ req[s].gone) \cup {l}]]
    BY <1>1, <1>8, AddCommits
  <2>2. req[s].user \in Users /\ l \in Lines /\ l.branch \in Scopes
    BY <1>1, <1>8, AddCommits DEF Request, Lines, Scopes
  <2> DEFINE ls == (cart[req[s].user].items \ req[s].gone) \cup {l}
  <2>3. ls \subseteq Lines
    BY <2>2, CartTyped DEF TypeInv
  <2>4. cart' = [cart EXCEPT ![req[s].user] = [branch |-> l.branch, items |-> ls]]
    BY <1>1, <2>1, <2>2
  <2> HIDE DEF ls
  <2>5. cart' \in [Users -> Cart]
    BY <1>2, <2>2, <2>3, <2>4
  <2> QED BY <1>1, <1>8, <2>5, AddCommits
<1>9. ASSUME NEW s \in Shoppers, PatchSave(s)
      PROVE  cart' \in [Users -> Cart] /\ fresh' \subseteq LineIds
  <2>1. req[s].user \in Users /\ req[s].lines \subseteq Lines /\ Nowhere \in Scopes
    BY <1>1, <1>9, PatchSaves DEF Request, Scopes
  <2> DEFINE ls == Without(cart[req[s].user].items, req[s].lines) \cup req[s].lines
  <2>2. ls \subseteq Lines
    BY <2>1, CartTyped DEF TypeInv, Without
  <2>3. cart' = [cart EXCEPT ![req[s].user].items = ls] /\ fresh' = fresh
    BY <1>1, <1>9, <2>1, PatchSaves
  <2> HIDE DEF ls
  <2>4. cart' \in [Users -> Cart]
    BY <1>2, <2>1, <2>2, <2>3
  <2> QED BY <1>1, <2>3, <2>4
<1>10. ASSUME NEW s \in Shoppers, ClearScope(s)
       PROVE  cart' \in [Users -> Cart] /\ fresh' \subseteq LineIds
  <2>1. req[s].user \in Users /\ Nowhere \in Scopes /\ {} \subseteq Lines
    BY <1>1, <1>10, ClearScopes DEF Request, Scopes
  <2> QED BY <1>1, <1>2, <1>10, <2>1, ClearScopes
<1>11. ASSUME NEW s \in Shoppers, FormCommit(s)
       PROVE  cart' \in [Users -> Cart] /\ fresh' \subseteq LineIds
  <2>1. /\ req[s].user \in Users /\ req[s].branch \in Scopes
        /\ req[s].lines \subseteq Lines
    BY <1>1, <1>11, FormCommits DEF Request
  <2> DEFINE ls == Without(cart[req[s].user].items, req[s].gone \cup req[s].lines)
                     \cup req[s].lines
  <2>2. ls \subseteq Lines
    BY <2>1, CartTyped DEF TypeInv, Without
  <2>3. /\ cart' = [cart EXCEPT ![req[s].user] = [branch |-> req[s].branch, items |-> ls]]
        /\ fresh' = fresh
    BY <1>1, <1>11, <2>1, FormCommits
  <2> HIDE DEF ls
  <2>4. cart' \in [Users -> Cart]
    BY <1>2, <2>1, <2>2, <2>3
  <2> QED BY <1>1, <2>3, <2>4
<1>12. \/ UNCHANGED <<cart, fresh>>
       \/ \E p \in Payers : Commit(p)
       \/ \E s \in Shoppers : \/ Add(s) \/ Form(s) \/ Remove(s) \/ Clear(s) \/ AddCommit(s)
                              \/ PatchSave(s) \/ ClearScope(s) \/ FormCommit(s)
  BY DEF Next, vars, rows, PlaceStep, CartStep, Arrive, TakeKey, Replay, ReadCart, ReadLines,
         Price, Empty, Close, Patch, Put, AddEmpty, AddScope, FormCart, Abort, AtBound
<1> QED BY <1>3, <1>4, <1>5, <1>6, <1>7, <1>8, <1>9, <1>10, <1>11, <1>12

\* The key is in hand ...
LEMMA TakesKey ==
  ASSUME TypeInv, NEW p \in Payers, TakeKey(p)
  PROVE  Carried(p, "keyed") /\ UNCHANGED books /\ req[p].at = "arrived"
BY Carrying DEF TypeInv, TakeKey, Stages, PlaceStages, Scopes, Workers, rows, books

\* ... and so is the coupon, if the order wants one.
LEMMA Prices ==
  ASSUME TypeInv, NEW p \in Payers, Price(p)
  PROVE  \/ Quiet(p)
         \/ /\ Carried(p, "priced") /\ UNCHANGED books /\ req[p].at = "frozen"
            /\ req[p].coupon => Redeemable(req[p].user) /\ CouponFree(p)
<1>1. p \in Workers
  BY DEF Workers
<1>2. CASE req[p].coupon /\ ~Redeemable(req[p].user)
  BY <1>1, <1>2, QuietEnd DEF Price, rows, books
<1>3. CASE ~(req[p].coupon /\ ~Redeemable(req[p].user))
  <2>1. Carried(p, "priced")
    BY <1>1, <1>3, Carrying DEF TypeInv, Price, Stages, PlaceStages, Scopes
  <2> QED BY <1>3, <2>1 DEF Price, rows, books
<1> QED BY <1>2, <1>3

\* TypeInv is inductive.
LEMMA TypesStay == TypeInv /\ [Next]_vars => TypeInv'
<1> SUFFICES ASSUME TypeInv, [Next]_vars
             PROVE  TypeInv'
  OBVIOUS
<1>1. cart' \in [Users -> Cart] /\ fresh' \subseteq LineIds
  BY CartStaysTyped
<1>2. ASSUME UNCHANGED books, NEW w \in Workers, OnlyFor(w),
             req'[w].at \in Frozen => req'[w].branch \in Branches
      PROVE  TypeInv'
  BY <1>1, <1>2 DEF TypeInv, TypeOK, FrozenHasBranch, OnlyFor, books
<1>3. ASSUME NEW w \in Workers, Quiet(w)
      PROVE  TypeInv'
  BY <1>2, <1>3 DEF Quiet
<1>4. ASSUME NEW p \in Payers, TakeKey(p)
      PROVE  TypeInv'
  BY <1>2, <1>4, TakesKey DEF Carried, Frozen, Workers
<1>5. ASSUME NEW p \in Payers, Price(p)
      PROVE  TypeInv'
  <2>1. CASE Quiet(p)
    BY <1>3, <2>1 DEF Workers
  <2>2. CASE Carried(p, "priced") /\ UNCHANGED books /\ req[p].at = "frozen"
    <3>1. p \in Workers /\ req'[p].branch \in Branches
      BY <2>2 DEF Workers, Carried, TypeInv, FrozenHasBranch, Frozen
    <3> QED BY <1>2, <2>2, <3>1 DEF Carried
  <2> QED BY <1>5, <2>1, <2>2, Prices
<1>6. ASSUME NEW p \in Payers, Commit(p)
      PROVE  TypeInv'
  <2> PICK n \in Nat : n = Len(orders)
    BY LenProperties DEF TypeInv, TypeOK
  <2>1. p \in Workers
    BY DEF Workers
  <2> PICK u \in Users, k \in Keys \cup {NoKey} : u = req[p].user /\ k = req[p].key
    BY <1>6, <2>1, Commits DEF Request
  <2>2. records' = records \cup (IF k # NoKey THEN {<<u, k>>} ELSE {})
    BY <1>6, <2>1, Commits
  <2>3. records' \subseteq Users \X Keys
    BY <2>2 DEF TypeInv, TypeOK
  <2>4. redeemed \subseteq Users \X (1..n)
    BY DEF TypeInv, TypeOK
  <2>5. redeemed' \subseteq redeemed \cup {<<u, n + 1>>}
    BY <1>6, <2>1, Commits
  <2>6. redeemed' \subseteq Users \X (1..(n + 1))
    BY <2>4, <2>5
  <2>7. orders' \in Seq(Order) /\ Len(orders') = n + 1
    BY <1>6, <2>1, Commits
  <2>8. OnlyFor(p) /\ req'[p].at \notin Frozen
    <3>1. OnlyFor(p) /\ req'[p] = Idle
      BY <1>6, <2>1, Commits
    <3> QED BY <3>1 DEF Frozen, Idle
  <2> QED BY <1>1, <2>3, <2>7, <2>8, <2>6 DEF TypeInv, TypeOK, FrozenHasBranch, OnlyFor
<1>7. CASE UNCHANGED <<books, req>>
  BY <1>1, <1>7 DEF TypeInv, TypeOK, FrozenHasBranch, books
<1> QED BY <1>3, <1>4, <1>5, <1>6, <1>7, Steps

\* TypeInv holds at first.
LEMMA TypesStart == Init => TypeInv
<1> SUFFICES ASSUME Init
             PROVE  TypeInv
  OBVIOUS
<1>1. <<>> \in Seq(Order) /\ Len(<<>>) = 0
  BY EmptySeq
<1> QED BY <1>1 DEF Init, TypeInv, TypeOK, FrozenHasBranch, Frozen, Idle, Cart, Scopes

\* The rows and the requests are what they should be, and an order goes to a branch.
THEOREM Types == Spec => []TypeOK
<1>1. TypeInv => TypeOK
  BY DEF TypeInv
<1> QED BY <1>1, TypesStart, TypesStay, PTL DEF Spec

-----------------------------------------------------------------------------
(***************************************************************************)
(* Idempotency keys.                                                        *)
(***************************************************************************)
KeyInv == OneOrderPerKey /\ KeysInHand

\* Who holds a key after a quiet step held it before.
LEMMA QuietKeeps ==
  ASSUME NEW w \in Workers, Quiet(w), NEW v \in Workers, req'[v].at \in Keyed
  PROVE  req[v].at \in Keyed /\ req'[v].user = req[v].user /\ req'[v].key = req[v].key
         /\ req'[v].coupon = req[v].coupon
<1>1. CASE v = w
  BY <1>1 DEF Quiet, Carried
<1>2. CASE v # w
  BY <1>2 DEF Quiet, OnlyFor
<1> QED BY <1>1, <1>2

\* One more order: the key it has is the one in hand.
LEMMA OneMoreOrder ==
  ASSUME TypeInv, KeyInv, NEW p \in Payers, Commit(p)
  PROVE  KeyInv'
<1> PICK n \in Nat : n = Len(orders)
  BY LenProperties DEF TypeInv, TypeOK
<1>1. p \in Workers /\ req[p].at \in Keyed
  BY DEF Workers, Commit, Keyed, PlaceStages
<1> PICK u \in Users, k \in Keys \cup {NoKey} : u = req[p].user /\ k = req[p].key
  BY <1>1, Commits DEF Request
<1>2. /\ Len(orders') = n + 1
      /\ \A i \in 1..n : orders'[i] = orders[i]
      /\ orders'[n + 1].user = u /\ orders'[n + 1].key = k
      /\ OnlyFor(p) /\ req'[p] = Idle
  <2>1. Ordered(p).user = u /\ Ordered(p).key = k
    BY DEF Ordered
  <2> QED BY <1>1, <2>1, Commits
<1>3. records' = records \cup (IF k # NoKey THEN {<<u, k>>} ELSE {})
  BY <1>1, Commits
<1>4. k # NoKey => <<u, k>> \notin records
  BY <1>1 DEF KeyInv, KeysInHand
<1>5. \A i \in 1..n : orders[i].key # NoKey => <<orders[i].user, orders[i].key>> \in records
  <2>1. \A i \in 1..n : orders[i].user \in Users /\ orders[i].key \in Keys \cup {NoKey}
    <3>1. orders \in [1..n -> Order]
      BY LenProperties DEF TypeInv, TypeOK
    <3> QED BY <3>1 DEF Order
  <2> QED BY <2>1 DEF KeyInv, OneOrderPerKey
<1>6. \A i \in 1..n : orders[i].key # NoKey => ~(orders[i].user = u /\ orders[i].key = k)
  BY <1>4, <1>5
<1>7. \A i, j \in 1..(n + 1) :
        /\ orders'[i].key # NoKey
        /\ orders'[i].user = orders'[j].user /\ orders'[i].key = orders'[j].key
        => i = j
  <2> SUFFICES ASSUME NEW i \in 1..(n + 1), NEW j \in 1..(n + 1),
                      orders'[i].key # NoKey, orders'[i].user = orders'[j].user,
                      orders'[i].key = orders'[j].key
               PROVE  i = j
    OBVIOUS
  <2>1. CASE i \in 1..n /\ j \in 1..n
    BY <1>2, <2>1 DEF KeyInv, OneOrderPerKey
  <2>2. CASE i = n + 1 /\ j \in 1..n
    BY <1>2, <1>6, <2>2
  <2>3. CASE i \in 1..n /\ j = n + 1
    BY <1>2, <1>6, <2>3
  <2> QED BY <2>1, <2>2, <2>3
<1>8. records' = {<<orders'[i].user, orders'[i].key>> : i \in 1..(n + 1)} \ (Users \X {NoKey})
  <2> DEFINE Old == {<<orders[i].user, orders[i].key>> : i \in 1..n}
             New == {<<orders'[i].user, orders'[i].key>> : i \in 1..(n + 1)}
  <2>1. New = Old \cup {<<u, k>>}
    BY <1>2
  <2>2. records = Old \ (Users \X {NoKey})
    BY DEF KeyInv, OneOrderPerKey
  <2>3. <<u, k>> \in Users \X {NoKey} <=> k = NoKey
    OBVIOUS
  <2> HIDE DEF Old, New
  <2>4. records' = New \ (Users \X {NoKey})
    BY <1>3, <2>1, <2>2, <2>3
  <2> QED BY <2>4 DEF New
<1>9. KeysInHand'
  <2> SUFFICES ASSUME NEW q \in Payers, req'[q].at \in Keyed, req'[q].key # NoKey
               PROVE  /\ <<req'[q].user, req'[q].key>> \notin records'
                      /\ \A r \in Payers : HoldsKey(r, req[q].user, req[q].key)' => r = q
    BY <1>2 DEF KeysInHand, HoldsKey, OnlyFor, Idle, Keyed, PlaceStages, Workers
  <2>1. \A r \in Payers : req'[r].at \in Keyed => r # p /\ req'[r] = req[r]
    BY <1>2 DEF OnlyFor, Workers, Idle, Keyed, PlaceStages
  <2>2. /\ <<req[q].user, req[q].key>> \notin records
        /\ \A r \in Payers : HoldsKey(r, req[q].user, req[q].key) => r = q
    BY <2>1 DEF KeyInv, KeysInHand
  <2>3. ~(req[q].user = u /\ req[q].key = k)
    BY <1>1, <2>1, <2>2 DEF HoldsKey, Keyed
  <2>4. <<req'[q].user, req'[q].key>> \notin records'
    BY <1>3, <2>1, <2>2, <2>3
  <2>5. \A r \in Payers : HoldsKey(r, req[q].user, req[q].key)' => r = q
    BY <2>1, <2>2 DEF HoldsKey, Keyed
  <2> QED BY <2>4, <2>5
<1> QED BY <1>2, <1>7, <1>8, <1>9 DEF KeyInv, OneOrderPerKey

\* KeyInv is inductive, given the types.
LEMMA KeysStay == TypeInv /\ KeyInv /\ [Next]_vars => KeyInv'
<1> SUFFICES ASSUME TypeInv, KeyInv, [Next]_vars
             PROVE  KeyInv'
  OBVIOUS
<1>1. UNCHANGED books => OneOrderPerKey'
  BY DEF KeyInv, OneOrderPerKey, books
<1>2. CASE UNCHANGED <<books, req>>
  BY <1>1, <1>2 DEF KeyInv, KeysInHand, HoldsKey, books
<1>3. ASSUME NEW w \in Workers, Quiet(w)
      PROVE  KeyInv'
  <2>1. UNCHANGED books
    BY <1>3 DEF Quiet
  <2>2. \A p \in Payers : req'[p].at \in Keyed =>
          /\ req[p].at \in Keyed
          /\ req'[p].user = req[p].user /\ req'[p].key = req[p].key
    BY <1>3, QuietKeeps DEF Workers
  <2>3. KeysInHand'
    BY <2>1, <2>2 DEF KeyInv, KeysInHand, HoldsKey, Keyed, books
  <2> QED BY <1>1, <2>1, <2>3 DEF KeyInv
<1>4. ASSUME NEW p \in Payers, TakeKey(p)
      PROVE  KeyInv'
  <2>1. Carried(p, "keyed") /\ UNCHANGED books
    BY <1>4, TakesKey
  <2>2. req[p].key # NoKey =>
          /\ <<req[p].user, req[p].key>> \notin records
          /\ \A v \in Payers \ {p} : ~HoldsKey(v, req[p].user, req[p].key)
    BY <1>4 DEF TakeKey
  <2>3. \A q \in Payers : req'[q].user = req[q].user /\ req'[q].key = req[q].key
    BY <2>1 DEF Carried, OnlyFor, Workers
  <2>4. \A q \in Payers \ {p} : req'[q].at = req[q].at
    BY <2>1 DEF Carried, OnlyFor, Workers
  <2>5. KeysInHand'
    <3> SUFFICES ASSUME NEW q \in Payers, req'[q].at \in Keyed, req[q].key # NoKey
                 PROVE  /\ <<req[q].user, req[q].key>> \notin records
                        /\ \A r \in Payers : HoldsKey(r, req[q].user, req[q].key)' => r = q
      BY <2>1, <2>3 DEF KeysInHand, HoldsKey, books
    <3>1. CASE q = p
      BY <2>2, <2>3, <2>4, <3>1 DEF HoldsKey
    <3>2. CASE q # p
      <4>1. /\ <<req[q].user, req[q].key>> \notin records
            /\ \A r \in Payers : HoldsKey(r, req[q].user, req[q].key) => r = q
        BY <2>4, <3>2 DEF KeyInv, KeysInHand
      <4>2. HoldsKey(q, req[q].user, req[q].key)
        BY <2>4, <3>2 DEF HoldsKey, Keyed
      <4>3. ~(req[p].user = req[q].user /\ req[p].key = req[q].key)
        BY <2>2, <3>2, <4>2
      <4> QED BY <2>3, <2>4, <4>1, <4>3 DEF HoldsKey
    <3> QED BY <3>1, <3>2
  <2> QED BY <1>1, <2>1, <2>5 DEF KeyInv
<1>5. ASSUME NEW p \in Payers, Price(p)
      PROVE  KeyInv'
  <2>1. CASE Quiet(p)
    BY <1>3, <2>1 DEF Workers
  <2>2. CASE Carried(p, "priced") /\ UNCHANGED books /\ req[p].at = "frozen"
    <3>1. \A q \in Payers : req'[q].at \in Keyed =>
            /\ req[q].at \in Keyed
            /\ req'[q].user = req[q].user /\ req'[q].key = req[q].key
      BY <2>2 DEF Carried, OnlyFor, Workers, Keyed, PlaceStages
    <3>2. KeysInHand'
      BY <2>2, <3>1 DEF KeyInv, KeysInHand, HoldsKey, Keyed, books
    <3> QED BY <1>1, <2>2, <3>2 DEF KeyInv
  <2> QED BY <1>5, <2>1, <2>2, Prices
<1> QED BY <1>2, <1>3, <1>4, <1>5, OneMoreOrder, Steps

\* KeyInv holds at first.
LEMMA KeysStart == Init => KeyInv
<1> SUFFICES ASSUME Init
             PROVE  KeyInv
  OBVIOUS
<1>1. orders = <<>> /\ Len(orders) = 0 /\ records = {}
  BY EmptySeq DEF Init
<1>2. \A p \in Payers : req[p].at = "idle"
  BY DEF Init, Workers, Idle
<1> QED BY <1>1, <1>2 DEF KeyInv, OneOrderPerKey, KeysInHand, Keyed, PlaceStages

\* Two orders never come of one Idempotency-Key, whatever number of workers serve
\* its retries and whichever of them die, and the key has a record exactly if it
\* has an order: get_or_create lets one request at a time past the key.
THEOREM OneOrderPerKeyHolds == Spec => []OneOrderPerKey
<1>1. KeyInv => OneOrderPerKey
  BY DEF KeyInv
<1> QED BY <1>1, TypesStart, TypesStay, KeysStart, KeysStay, PTL DEF Spec

-----------------------------------------------------------------------------
(***************************************************************************)
(* The coupon.                                                              *)
(***************************************************************************)
RedeemedBy(u) == {r \in redeemed : r[1] = u}

RedemptionsWithin ==
  /\ IsFiniteSet(redeemed)
  /\ MaxRedemptions # 0 => Cardinality(redeemed) <= MaxRedemptions
  /\ \A u \in Users : Cardinality(RedeemedBy(u)) <= PerUserLimit

CouponInv == RedeemedByOrders /\ RedemptionsWithin /\ CouponInHand

\* Discounted orders are counted by their redemptions.
LEMMA DiscountsCounted ==
  ASSUME TypeInv, RedeemedByOrders, IsFiniteSet(redeemed), NEW us \in SUBSET Users
  PROVE  Cardinality({i \in 1..Len(orders) : orders[i].coupon /\ orders[i].user \in us})
           = Cardinality({r \in redeemed : r[1] \in us})
<1> DEFINE D == {i \in 1..Len(orders) : orders[i].coupon /\ orders[i].user \in us}
           R == {r \in redeemed : r[1] \in us}
           f == [r \in R |-> r[2]]
<1>1. \A r \in R : \E i \in D : r = <<orders[i].user, i>>
  BY DEF RedeemedByOrders
<1>2. \A i \in D : <<orders[i].user, i>> \in R
  BY DEF RedeemedByOrders
<1>3. f \in [R -> D]
  BY <1>1
<1>4. \A a, b \in R : f[a] = f[b] => a = b
  BY <1>1
<1>5. \A i \in D : \E r \in R : f[r] = i
  BY <1>2
<1>6. IsFiniteSet(R)
  BY FS_Subset
<1> HIDE DEF D, R, f
<1>7. f \in Bijection(R, D)
  BY <1>3, <1>4, <1>5, Fun_IsBij
<1>8. Cardinality(D) = Cardinality(R)
  BY <1>6, <1>7, FS_Bijection DEF ExistsBijection
<1> QED BY <1>8 DEF D, R

\* Redemptions that each have their order are within the limits.
LEMMA WithinLimits ==
  ASSUME TypeInv, CouponInv
  PROVE  CouponWithinLimits
<1>1. IsFiniteSet(redeemed) /\ RedeemedByOrders
  BY DEF CouponInv, RedemptionsWithin
<1>2. {r \in redeemed : r[1] \in Users} = redeemed
  BY DEF TypeInv, TypeOK
<1>3. Cardinality({i \in 1..Len(orders) : orders[i].coupon /\ orders[i].user \in Users})
        = Cardinality(redeemed)
  BY <1>1, <1>2, DiscountsCounted
<1>4. ASSUME NEW u \in Users
      PROVE  Cardinality({i \in 1..Len(orders) : orders[i].coupon /\ orders[i].user \in {u}})
               = Cardinality(RedeemedBy(u))
  <2>1. {r \in redeemed : r[1] \in {u}} = RedeemedBy(u)
    BY DEF RedeemedBy
  <2>2. {u} \in SUBSET Users
    OBVIOUS
  <2> QED BY <1>1, <2>1, <2>2, DiscountsCounted
<1> QED BY <1>3, <1>4 DEF CouponWithinLimits, CouponInv, RedemptionsWithin

\* One more redemption, where the count left room for it.
LEMMA OneMoreRedemption ==
  ASSUME TypeInv, RedemptionsWithin, NEW u \in Users, Redeemable(u), NEW n,
         redeemed' = redeemed \cup {<<u, n>>}, <<u, n>> \notin redeemed
  PROVE  RedemptionsWithin'
<1>1. /\ IsFiniteSet(redeemed) /\ Cardinality(redeemed) \in Nat
      /\ IsFiniteSet(redeemed') /\ Cardinality(redeemed') = Cardinality(redeemed) + 1
  BY FS_AddElement, FS_CardinalityType DEF RedemptionsWithin
<1>2. MaxRedemptions # 0 => Cardinality(redeemed') <= MaxRedemptions
  BY <1>1, CheckoutAssumption DEF Redeemable
<1>3. ASSUME NEW v \in Users
      PROVE  Cardinality(RedeemedBy(v)') <= PerUserLimit
  <2>1. CASE v = u
    <3>1. RedeemedBy(v)' = RedeemedBy(u) \cup {<<u, n>>} /\ <<u, n>> \notin RedeemedBy(u)
      BY <2>1 DEF RedeemedBy
    <3>2. IsFiniteSet(RedeemedBy(u)) /\ Cardinality(RedeemedBy(u)) \in Nat
      BY <1>1, FS_Subset, FS_CardinalityType DEF RedeemedBy
    <3>3. Cardinality(RedeemedBy(v)') = Cardinality(RedeemedBy(u)) + 1
      BY <3>1, <3>2, FS_AddElement
    <3>4. Cardinality(RedeemedBy(u)) < PerUserLimit
      BY DEF Redeemable, RedeemedBy
    <3> QED BY <3>2, <3>3, <3>4, CheckoutAssumption
  <2>2. CASE v # u
    <3>1. RedeemedBy(v)' = RedeemedBy(v)
      BY <2>2 DEF RedeemedBy
    <3> QED BY <3>1 DEF RedemptionsWithin
  <2> QED BY <2>1, <2>2
<1> QED BY <1>1, <1>2, <1>3 DEF RedemptionsWithin

\* The redemptions stay those of the orders when an order is added.
LEMMA RedeemedByOneMore ==
  ASSUME TypeInv, RedeemedByOrders, NEW p \in Payers, Commit(p),
         NEW n \in Nat, n = Len(orders)
  PROVE  RedeemedByOrders'
<1>1. p \in Workers
  BY DEF Workers
<1>2. /\ Len(orders') = n + 1
      /\ \A i \in 1..n : orders'[i] = orders[i]
      /\ orders'[n + 1].user = req[p].user /\ orders'[n + 1].coupon = req[p].coupon
  <2>1. Ordered(p).user = req[p].user /\ Ordered(p).coupon = req[p].coupon
    BY DEF Ordered
  <2> QED BY <1>1, <2>1, Commits
<1> DEFINE Old == {j \in 1..n : orders[j].coupon}
           New == {j \in 1..(n + 1) : orders'[j].coupon}
<1>3. redeemed = {<<orders[i].user, i>> : i \in Old}
  BY DEF RedeemedByOrders
<1>4. redeemed' = redeemed \cup (IF req[p].coupon THEN {<<req[p].user, n + 1>>} ELSE {})
  BY <1>1, Commits
<1>5. CASE req[p].coupon
  <2>1. New = Old \cup {n + 1}
    <3>1. \A j \in 1..n : orders'[j].coupon <=> orders[j].coupon
      BY <1>2
    <3>2. orders'[n + 1].coupon
      BY <1>2, <1>5
    <3>3. 1..(n + 1) = (1..n) \cup {n + 1}
      OBVIOUS
    <3> QED BY <3>1, <3>2, <3>3
  <2>2. {<<orders'[i].user, i>> : i \in New} = redeemed \cup {<<req[p].user, n + 1>>}
    <3> HIDE DEF New
    <3>1. \A i \in Old : <<orders'[i].user, i>> = <<orders[i].user, i>>
      BY <1>2
    <3>2. <<orders'[n + 1].user, n + 1>> = <<req[p].user, n + 1>>
      BY <1>2
    <3> HIDE DEF Old
    <3> QED BY <1>3, <2>1, <3>1, <3>2
  <2> QED BY <1>2, <1>4, <1>5, <2>2 DEF RedeemedByOrders
<1>6. CASE ~req[p].coupon
  <2>1. New = Old
    BY <1>2, <1>6
  <2>2. {<<orders'[i].user, i>> : i \in New} = redeemed
    <3> HIDE DEF New
    <3>1. \A i \in Old : <<orders'[i].user, i>> = <<orders[i].user, i>>
      BY <1>2
    <3> HIDE DEF Old
    <3> QED BY <1>3, <2>1, <3>1
  <2> QED BY <1>2, <1>4, <1>6, <2>2 DEF RedeemedByOrders
<1> QED BY <1>5, <1>6

\* CouponInv is inductive, given the types.
LEMMA CouponStays == TypeInv /\ CouponInv /\ [Next]_vars => CouponInv'
<1> SUFFICES ASSUME TypeInv, CouponInv, [Next]_vars
             PROVE  CouponInv'
  OBVIOUS
<1>1. ASSUME UNCHANGED books
      PROVE  RedeemedByOrders' /\ RedemptionsWithin' /\ \A u : Redeemable(u)' = Redeemable(u)
  BY <1>1 DEF CouponInv, RedeemedByOrders, RedemptionsWithin, RedeemedBy, Redeemable, books
<1>2. CASE UNCHANGED <<books, req>>
  BY <1>1, <1>2 DEF CouponInv, CouponInHand, HoldsCoupon
<1>3. ASSUME UNCHANGED books,
             \A v \in Workers : HoldsCoupon(v)' => HoldsCoupon(v) /\ req'[v].user = req[v].user
      PROVE  CouponInv'
  <2>1. CouponInHand'
    BY <1>1, <1>3 DEF CouponInv, CouponInHand
  <2> QED BY <1>1, <1>3, <2>1 DEF CouponInv
<1>4. ASSUME NEW w \in Workers, Quiet(w)
      PROVE  CouponInv'
  <2>1. \A v \in Workers : req'[v].at \in Priced =>
          /\ req[v].at \in Priced
          /\ req'[v].user = req[v].user /\ req'[v].coupon = req[v].coupon
    <3>1. \A v \in Workers : req'[v].at \in Priced => req[v].at \in Priced
      BY <1>4 DEF Quiet, OnlyFor
    <3> QED BY <1>4, <3>1, QuietKeeps DEF Keyed, Priced, PlaceStages
  <2> QED BY <1>3, <1>4, <2>1 DEF Quiet, HoldsCoupon, Priced
<1>5. ASSUME NEW p \in Payers, TakeKey(p)
      PROVE  CouponInv'
  <2>1. Carried(p, "keyed") /\ UNCHANGED books
    BY <1>5, TakesKey
  <2>2. \A v \in Workers : HoldsCoupon(v)' => HoldsCoupon(v) /\ req'[v].user = req[v].user
    BY <2>1 DEF HoldsCoupon, Carried, OnlyFor
  <2> QED BY <1>3, <2>1, <2>2
<1>6. ASSUME NEW p \in Payers, Price(p)
      PROVE  CouponInv'
  <2>1. CASE Quiet(p)
    BY <1>4, <2>1 DEF Workers
  <2>2. CASE /\ Carried(p, "priced") /\ UNCHANGED books /\ req[p].at = "frozen"
             /\ req[p].coupon => Redeemable(req[p].user) /\ CouponFree(p)
    <3>1. p \in Workers
      BY DEF Workers
    <3>2. \A v \in Workers \ {p} : /\ HoldsCoupon(v)' = HoldsCoupon(v)
                                   /\ req'[v].user = req[v].user
      BY <2>2 DEF HoldsCoupon, Carried, OnlyFor
    <3>3. CASE req[p].coupon
      <4>1. \A v \in Workers \ {p} : ~HoldsCoupon(v)'
        BY <2>2, <3>2, <3>3 DEF CouponFree
      <4>2. Redeemable(req[p].user)' /\ req'[p].user = req[p].user
        BY <1>1, <2>2, <3>3 DEF Carried
      <4>3. CouponInHand'
        BY <4>1, <4>2 DEF CouponInHand
      <4> QED BY <1>1, <2>2, <4>3 DEF CouponInv
    <3>4. CASE ~req[p].coupon
      <4>1. ~HoldsCoupon(p)'
        BY <2>2, <3>4 DEF HoldsCoupon, Carried
      <4> QED BY <1>3, <2>2, <3>2, <4>1
    <3> QED BY <3>3, <3>4
  <2> QED BY <1>6, <2>1, <2>2, Prices
<1>7. ASSUME NEW p \in Payers, Commit(p)
      PROVE  CouponInv'
  <2> PICK n \in Nat : n = Len(orders)
    BY LenProperties DEF TypeInv, TypeOK
  <2>1. p \in Workers /\ req[p] \in Request /\ OnlyFor(p) /\ req'[p] = Idle
    BY <1>7, Commits DEF Workers
  <2>2. RedeemedByOrders'
    BY <1>7, RedeemedByOneMore DEF CouponInv
  <2>3. redeemed' = redeemed \cup (IF req[p].coupon THEN {<<req[p].user, n + 1>>} ELSE {})
    BY <1>7, <2>1, Commits
  <2>4. \A v \in Workers : HoldsCoupon(v)' =>
          v # p /\ HoldsCoupon(v) /\ req'[v].user = req[v].user
    BY <2>1 DEF HoldsCoupon, OnlyFor, Idle
  <2>5. CASE req[p].coupon
    <3>1. HoldsCoupon(p)
      BY <1>7, <2>5 DEF HoldsCoupon, Commit
    <3>2. Redeemable(req[p].user) /\ \A v \in Workers : HoldsCoupon(v) => v = p
      BY <2>1, <3>1 DEF CouponInv, CouponInHand
    <3>3. req[p].user \in Users /\ <<req[p].user, n + 1>> \notin redeemed
      BY <2>1 DEF Request, TypeInv, TypeOK
    <3>4. RedemptionsWithin'
      BY <2>3, <2>5, <3>2, <3>3, OneMoreRedemption DEF CouponInv
    <3>5. CouponInHand'
      BY <2>4, <3>2 DEF CouponInHand
    <3> QED BY <2>2, <3>4, <3>5 DEF CouponInv
  <2>6. CASE ~req[p].coupon
    <3>1. redeemed' = redeemed
      BY <2>3, <2>6
    <3>2. RedemptionsWithin' /\ \A u : Redeemable(u)' = Redeemable(u)
      BY <3>1 DEF CouponInv, RedemptionsWithin, RedeemedBy, Redeemable
    <3>3. CouponInHand'
      BY <2>4, <3>2 DEF CouponInv, CouponInHand
    <3> QED BY <2>2, <3>2, <3>3 DEF CouponInv
  <2> QED BY <2>5, <2>6
<1> QED BY <1>2, <1>4, <1>5, <1>6, <1>7, Steps

\* CouponInv holds at first.
LEMMA CouponStarts == Init => CouponInv
<1> SUFFICES ASSUME Init
             PROVE  CouponInv
  OBVIOUS
<1>1. Len(orders) = 0 /\ redeemed = {}
  BY EmptySeq DEF Init
<1>2. \A v \in Workers : req[v].at = "idle"
  BY DEF Init, Idle
<1>3. IsFiniteSet({}) /\ Cardinality({}) = 0
  BY FS_EmptySet
<1>4. \A u : RedeemedBy(u) = {}
  BY <1>1 DEF RedeemedBy
<1>5. RedemptionsWithin
  <2>1. \A u \in Users : Cardinality(RedeemedBy(u)) = 0
    BY <1>3, <1>4
  <2>2. 0 <= MaxRedemptions /\ 0 <= PerUserLimit
    BY CheckoutAssumption
  <2>3. IsFiniteSet(redeemed) /\ Cardinality(redeemed) = 0
    BY <1>1, <1>3
  <2> QED BY <2>1, <2>2, <2>3 DEF RedemptionsWithin
<1>6. RedeemedByOrders
  BY <1>1 DEF RedeemedByOrders
<1> QED BY <1>2, <1>5, <1>6 DEF CouponInv, CouponInHand, HoldsCoupon

\* A coupon is never redeemed beyond its limits, in all or by one customer, however
\* many checkouts run at once: its row is locked from the count to the commit.
THEOREM CouponWithinLimitsHolds == Spec => []CouponWithinLimits
<1>1. TypeInv /\ CouponInv => CouponWithinLimits
  BY WithinLimits
<1> QED BY <1>1, TypesStart, TypesStay, CouponStarts, CouponStays, PTL DEF Spec

==============================================================================
