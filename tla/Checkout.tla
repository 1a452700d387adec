------------------------------- MODULE Checkout -------------------------------
(***************************************************************************)
(* orders.services.place against the cart it empties.  A place request is  *)
(* one transaction of many statements, each of which sees what is committed *)
(* when it starts; what the transaction wrote appears when it commits.  It  *)
(* waits for whoever holds the idempotency key, the coupon row, a line or   *)
(* the cart row.  Which locks a request holds follows from how far it is.   *)
(***************************************************************************)
EXTENDS Naturals, FiniteSets, Sequences

CONSTANTS Users,           \* customers
          Branches,        \* restaurant branches
          Nowhere,         \* cart.branch is NULL
          LineIds,         \* primary keys that cart lines may get
          Keys,            \* values of the Idempotency-Key header
          NoKey,           \* the header is missing
          Payers,          \* workers that serve POST /orders/place/
          Shoppers,        \* workers that serve the cart's endpoints
          OtherWriters,    \* which of "put" and the admin's "form" write lines, too
          MaxRedemptions,  \* coupon.max_redemptions, 0 for unlimited
          PerUserLimit,    \* coupon.per_user_limit
          MaxOrders        \* bound: no place request starts once there are so many

ASSUME CheckoutAssumption ==
  /\ Nowhere \notin Branches /\ NoKey \notin Keys
  /\ Payers \cap Shoppers = {}
  /\ OtherWriters \subseteq {"put", "form"}
  /\ MaxRedemptions \in Nat /\ PerUserLimit \in Nat /\ MaxOrders \in Nat

VARIABLES cart,      \* each customer's cart: its branch and its lines
          fresh,     \* line ids that are not in use yet
          records,   \* committed IdempotencyRecord rows
          orders,    \* committed orders, oldest first
          redeemed,  \* committed Redemption rows of the coupon: customer and order
          req        \* the request each worker serves

vars == <<cart, fresh, records, orders, redeemed, req>>
rows == <<cart, fresh, records, orders, redeemed>>

Workers == Payers \cup Shoppers
Lines == [id : LineIds, branch : Branches]
Scopes == Branches \cup {Nowhere}
Cart == [branch : Scopes, items : SUBSET Lines]
Order == [user : Users, key : Keys \cup {NoKey}, branch : Branches,
          lines : SUBSET Lines, coupon : BOOLEAN]

PlaceStages == {"arrived", "keyed", "scoped", "frozen", "priced", "emptied", "closed"}
CartStages == {"adding", "emptying", "swept", "updated", "patching", "clearing",
               "posted", "written"}

\* branch and lines are what the request has read, gone what it has deleted; lines
\* of a cart request holds the line it is about to write, if any.
Request == [at : PlaceStages \cup CartStages, user : Users, key : Keys \cup {NoKey},
            coupon : BOOLEAN, branch : Scopes, lines : SUBSET Lines, gone : SUBSET Lines]

Idle == [at |-> "idle"]

TypeOK ==
  /\ cart \in [Users -> Cart]
  /\ fresh \subseteq LineIds
  /\ records \subseteq Users \X Keys
  /\ orders \in Seq(Order)
  /\ redeemed \subseteq Users \X (1..Len(orders))
  /\ req \in [Workers -> Request \cup {Idle}]

Init ==
  /\ cart = [u \in Users |-> [branch |-> Nowhere, items |-> {}]]
  /\ fresh = LineIds
  /\ records = {}
  /\ orders = <<>>
  /\ redeemed = {}
  /\ req = [w \in Workers |-> Idle]

-----------------------------------------------------------------------------
(***************************************************************************)
(* Locks.                                                                   *)
(***************************************************************************)

\* The uncommitted IdempotencyRecord of the request, which a second INSERT of the
\* same key waits for.
HoldsKey(v, u, k) ==
  req[v].at \in PlaceStages \ {"arrived"} /\ req[v].user = u /\ req[v].key = k

HoldsCoupon(v) == req[v].at \in {"priced", "emptied", "closed"} /\ req[v].coupon

\* Mutant of HoldsCart: adding an item locks the cart row before it deletes lines.
HoldsCartEarly(v, u) ==
  req[v].at \in {"closed", "emptying", "swept", "updated", "written"} /\ req[v].user = u

\* The cart's row has been updated.
HoldsCart(v, u) == req[v].at \in {"closed", "updated", "written"} /\ req[v].user = u

\* Lines of ls whose primary keys none of gone has.
Without(ls, gone) == {l \in ls : \A g \in gone : g.id # l.id}

HoldsLine(v, l) ==
  req[v].at \in {"emptied", "closed", "swept", "updated"} /\ \E g \in req[v].gone : g.id = l.id

CartFree(w, u) == \A v \in Workers \ {w} : ~HoldsCart(v, u)
LinesFree(w, ls) == \A v \in Workers \ {w}, l \in ls : ~HoldsLine(v, l)
CouponFree(w) == \A v \in Workers \ {w} : ~HoldsCoupon(v)

Move(w, at) == req' = [req EXCEPT ![w].at = at]
End(w) == req' = [req EXCEPT ![w] = Idle]

-----------------------------------------------------------------------------
(***************************************************************************)
(* services.place.                                                          *)
(***************************************************************************)
Arrive(p) ==
  /\ req[p] = Idle /\ Len(orders) < MaxOrders
  /\ \E u \in Users, k \in Keys \cup {NoKey}, c \in BOOLEAN :
       req' = [req EXCEPT ![p] = [at |-> "arrived", user |-> u, key |-> k, coupon |-> c,
                                  branch |-> Nowhere, lines |-> {}, gone |-> {}]]
  /\ UNCHANGED rows

\* Mutant of TakeKey: the key is looked up, but not inserted before the order is.
TakeKeyLate(p) ==
  /\ req[p].at = "arrived"
  /\ <<req[p].user, req[p].key>> \notin records
  /\ Move(p, "keyed")
  /\ UNCHANGED rows

\* IdempotencyRecord.get_or_create inserts the key, once nobody else is about to.
TakeKey(p) ==
  LET u == req[p].user  k == req[p].key IN
  /\ req[p].at = "arrived"
  /\ k # NoKey => /\ <<u, k>> \notin records
                  /\ \A v \in Payers \ {p} : ~HoldsKey(v, u, k)
  /\ Move(p, "keyed")
  /\ UNCHANGED rows

\* The record is there, with its response: "replay: original outcome".
Replay(p) ==
  /\ req[p].at = "arrived"
  /\ <<req[p].user, req[p].key>> \in records
  /\ End(p)
  /\ UNCHANGED rows

\* Cart.objects.filter(user=user).first()
ReadCart(p) ==
  /\ req[p].at = "keyed"
  /\ req' = [req EXCEPT ![p].at = "scoped", ![p].branch = cart[req[p].user].branch]
  /\ UNCHANGED rows

\* Mutant of ReadLines: only the lines are checked.
ReadLinesAnywhere(p) ==
  LET items == cart[req[p].user].items IN
  /\ req[p].at = "scoped"
  /\ IF items # {}
       THEN req' = [req EXCEPT ![p].at = "frozen", ![p].lines = items]
       ELSE End(p)
  /\ UNCHANGED rows

\* list(cart.items...), and order.empty_cart unless there are lines and a branch.
ReadLines(p) ==
  LET items == cart[req[p].user].items IN
  /\ req[p].at = "scoped"
  /\ IF items # {} /\ req[p].branch # Nowhere
       THEN req' = [req EXCEPT ![p].at = "frozen", ![p].lines = items]
       ELSE End(p)
  /\ UNCHANGED rows


\* promotions.check, on the rows committed by now.
Redeemable(u) ==
  /\ MaxRedemptions # 0 => Cardinality(redeemed) < MaxRedemptions
  /\ Cardinality({r \in redeemed : r[1] = u}) < PerUserLimit

\* Mutant of Price: the coupon is read without select_for_update.
PriceUnlocked(p) ==
  /\ req[p].at = "frozen"
  /\ IF req[p].coupon /\ ~Redeemable(req[p].user) THEN End(p) ELSE Move(p, "priced")
  /\ UNCHANGED rows

\* The coupon row is locked before its redemptions are counted.
Price(p) ==
  /\ req[p].at = "frozen"
  /\ req[p].coupon => CouponFree(p)
  /\ IF req[p].coupon /\ ~Redeemable(req[p].user) THEN End(p) ELSE Move(p, "priced")
  /\ UNCHANGED rows

\* Cart.clear deletes the lines that are there by now.
Empty(p) ==
  LET items == cart[req[p].user].items IN
  /\ req[p].at = "priced"
  /\ LinesFree(p, items)
  /\ req' = [req EXCEPT ![p].at = "emptied", ![p].gone = items]
  /\ UNCHANGED rows

\* ... and takes the branch off the cart.
Close(p) ==
  /\ req[p].at = "emptied"
  /\ CartFree(p, req[p].user)
  /\ Move(p, "closed")
  /\ UNCHANGED rows

\* Order, items, redemption, record and the empty cart appear in one commit.
Commit(p) ==
  LET r == req[p]  u == r.user IN
  /\ r.at = "closed"
  /\ orders' = Append(orders, [user |-> u, key |-> r.key, branch |-> r.branch,
                               lines |-> r.lines, coupon |-> r.coupon])
  /\ redeemed' = redeemed \cup (IF r.coupon THEN {<<u, Len(orders) + 1>>} ELSE {})
  /\ records' = records \cup (IF r.key # NoKey THEN {<<u, r.key>>} ELSE {})
  /\ cart' = [cart EXCEPT ![u] = [branch |-> Nowhere, items |-> @.items \ r.gone]]
  /\ End(p)
  /\ UNCHANGED fresh

-----------------------------------------------------------------------------
(***************************************************************************)
(* The cart's endpoints.                                                    *)
(***************************************************************************)
Begin(s, at, u, branch, lines) ==
  req' = [req EXCEPT ![s] = [at |-> at, user |-> u, key |-> NoKey, coupon |-> FALSE,
                             branch |-> branch, lines |-> lines, gone |-> {}]]

\* CartItemViewSet.create loads the cart: an item of another branch needs "replace",
\* and a cart without a branch is emptied as well.
Add(s) ==
  /\ req[s] = Idle
  /\ \E u \in Users, id \in fresh, b \in Branches, replace \in BOOLEAN :
       /\ cart[u].branch \in {Nowhere, b} \/ replace
       /\ Begin(s, IF replace \/ cart[u].branch = Nowhere THEN "emptying" ELSE "adding",
                u, cart[u].branch, {[id |-> id, branch |-> b]})
       /\ fresh' = fresh \ {id}
  /\ UNCHANGED <<cart, records, orders, redeemed>>

AddEmpty(s) ==
  LET items == cart[req[s].user].items IN
  /\ req[s].at = "emptying"
  /\ LinesFree(s, items)
  /\ req' = [req EXCEPT ![s].at = "swept", ![s].gone = items]
  /\ UNCHANGED rows

AddScope(s) ==
  /\ req[s].at \in {"adding", "swept"}
  /\ CartFree(s, req[s].user)
  /\ Move(s, "updated")
  /\ UNCHANGED rows

AddCommit(s) ==
  LET r == req[s] IN
  /\ r.at = "updated"
  /\ \E l \in r.lines :
       cart' = [cart EXCEPT ![r.user] = [branch |-> l.branch,
                                         items |-> (@.items \ r.gone) \cup {l}]]
  /\ End(s)
  /\ UNCHANGED <<fresh, records, orders, redeemed>>

\* CartItemViewSet.partial_update: get_object ...
Patch(s) ==
  /\ req[s] = Idle
  /\ \E u \in Users : \E l \in cart[u].items :
       Begin(s, "patching", u, Nowhere, {l})
  /\ UNCHANGED rows

\* PUT reaches the inherited update(), which lets the body name another item ...
Put(s) ==
  /\ "put" \in OtherWriters /\ req[s] = Idle
  /\ \E u \in Users, b \in Branches : \E l \in cart[u].items :
       Begin(s, "patching", u, Nowhere, {[id |-> l.id, branch |-> b]})
  /\ UNCHANGED rows

\* ... and the line is saved with all its columns, also by CartItemAdmin's form: it
\* is inserted again if it has been deleted.
PatchSave(s) ==
  /\ req[s].at = "patching"
  /\ LinesFree(s, req[s].lines)
  /\ cart' = [cart EXCEPT ![req[s].user].items = Without(@, req[s].lines) \cup req[s].lines]
  /\ End(s)
  /\ UNCHANGED <<fresh, records, orders, redeemed>>

\* CartAdmin's form is posted; with its inline it changes, adds or deletes a line
\* (one at most, in this model), or none.
Form(s) ==
  /\ "form" \in OtherWriters /\ req[s] = Idle
  /\ \E u \in Users, l \in Lines :
       LET old == {k \in cart[u].items : k.id = l.id} IN
       /\ old # {} \/ l.id \in fresh
       /\ \E kept \in {{}, {l}} :
            /\ req' = [req EXCEPT ![s] = [at |-> "posted", user |-> u, key |-> NoKey,
                                         coupon |-> FALSE, branch |-> cart[u].branch,
                                         lines |-> kept, gone |-> old]]
            /\ fresh' = IF kept = {} THEN fresh ELSE fresh \ {l.id}
  /\ UNCHANGED <<cart, records, orders, redeemed>>

\* save_model saves the cart, with the branch that was loaded, before the lines ...
FormCart(s) ==
  /\ req[s].at = "posted"
  /\ CartFree(s, req[s].user)
  /\ Move(s, "written")
  /\ UNCHANGED rows

\* ... which wait for whoever has deleted them, who may be waiting for the cart.
FormCommit(s) ==
  LET r == req[s] IN
  /\ r.at = "written"
  /\ LinesFree(s, r.gone \cup r.lines)
  /\ cart' = [cart EXCEPT ![r.user] =
                [branch |-> r.branch,
                 items |-> Without(@.items, r.gone \cup r.lines) \cup r.lines]]
  /\ End(s)
  /\ UNCHANGED <<fresh, records, orders, redeemed>>

\* A line is deleted: by the customer, or because its item became unavailable.
Remove(s) ==
  /\ req[s] = Idle
  /\ \E u \in Users : \E l \in cart[u].items :
       /\ LinesFree(s, {l})
       /\ cart' = [cart EXCEPT ![u].items = @ \ {l}]
  /\ UNCHANGED <<fresh, records, orders, redeemed, req>>

\* CartViewSet.clear is no transaction: it deletes the lines ...
Clear(s) ==
  /\ req[s] = Idle
  /\ \E u \in Users :
       /\ cart[u].items # {} /\ LinesFree(s, cart[u].items)
       /\ cart' = [cart EXCEPT ![u].items = {}]
       /\ Begin(s, "clearing", u, Nowhere, {})
  /\ UNCHANGED <<fresh, records, orders, redeemed>>

\* ... and then updates the cart.
ClearScope(s) ==
  /\ req[s].at = "clearing"
  /\ CartFree(s, req[s].user)
  /\ cart' = [cart EXCEPT ![req[s].user].branch = Nowhere]
  /\ End(s)
  /\ UNCHANGED <<fresh, records, orders, redeemed>>

-----------------------------------------------------------------------------
\* The request ends without effect: a DomainError (no address, below the branch's
\* minimum, an unknown or inactive coupon, option rules), the worker's death, or
\* PostgreSQL's verdict in a deadlock.
Abort(w) ==
  /\ req[w] # Idle
  /\ End(w)
  /\ UNCHANGED rows

\* The bounded instance, not the system, stops.
AtBound ==
  /\ \A w \in Workers : req[w] = Idle
  /\ Len(orders) >= MaxOrders /\ fresh = {}
  /\ UNCHANGED vars

PlaceStep(p) == \/ TakeKey(p) \/ Replay(p) \/ ReadCart(p) \/ ReadLines(p)
                \/ Price(p) \/ Empty(p) \/ Close(p) \/ Commit(p)
CartStep(s) == \/ AddEmpty(s) \/ AddScope(s) \/ AddCommit(s)
               \/ PatchSave(s) \/ ClearScope(s) \/ FormCart(s) \/ FormCommit(s)

Next ==
  \/ \E p \in Payers : Arrive(p) \/ PlaceStep(p)
  \/ \E s \in Shoppers : \/ Add(s) \/ Patch(s) \/ Put(s) \/ Form(s) \/ Remove(s) \/ Clear(s)
                         \/ CartStep(s)
  \/ \E w \in Workers : Abort(w)
  \/ AtBound

Spec == Init /\ [][Next]_vars

\* Requests in hand are carried on, and PostgreSQL queues those that wait for a
\* lock.  Nobody need send a request.
FairSpec == /\ Spec
            /\ \A p \in Payers : SF_vars(PlaceStep(p))
            /\ \A s \in Shoppers : SF_vars(CartStep(s))

-----------------------------------------------------------------------------
(***************************************************************************)
(* Properties.                                                              *)
(***************************************************************************)

\* A retry never orders twice: an Idempotency-Key has at most one order, and a
\* record exactly if it has one, although retries overlap and requests die.
OneOrderPerKey ==
  /\ \A i, j \in 1..Len(orders) :
       /\ orders[i].key # NoKey
       /\ orders[i].user = orders[j].user /\ orders[i].key = orders[j].key
       => i = j
  /\ records = {<<orders[i].user, orders[i].key>> : i \in 1..Len(orders)}
                 \ (Users \X {NoKey})

\* No interleaving of checkouts gives the coupon's discount to more orders than
\* it allows, in all and per customer.
CouponWithinLimits ==
  LET discounted(us) == {i \in 1..Len(orders) : orders[i].coupon /\ orders[i].user \in us}
  IN /\ MaxRedemptions # 0 => Cardinality(discounted(Users)) <= MaxRedemptions
     /\ \A u \in Users : Cardinality(discounted({u})) <= PerUserLimit

\* What the cart promises, "one server-side cart per customer, scoped to a branch":
\* a cart that has a branch holds lines of that branch only.
CartHoldsOneBranch ==
  \A u \in Users : cart[u].branch # Nowhere =>
    \A l \in cart[u].items : l.branch = cart[u].branch

\* Every checkout ends: among keys, coupon, lines and cart, nobody waits for ever.
\* The cart form of the admin, which takes the cart before its lines, is left to
\* PostgreSQL's detection of deadlocks.
CheckoutsEnd == \A p \in Payers : req[p] # Idle ~> req[p] = Idle

\* What services.place promises: "freeze the cart into an order atomically".  The
\* branch an order goes to is the branch of the lines it was charged for.
OrderServedByItsBranch ==
  \A i \in 1..Len(orders) : \A l \in orders[i].lines : l.branch = orders[i].branch
================================================================================
