# PlateRoute backend: a verification development

TLA+ models of the PlateRoute backend (a Django REST application for food
delivery), TLC configurations that model-check them, and proofs that the TLA+
proof system checks. File and line references are to the repository.

## 1. The system

PlateRoute runs as several gunicorn workers that serve HTTP requests, and
management commands that cron starts again and again (`pump_outbox`,
`dispatch_sweep`, `send_notifications`, `rebuild_daily_metrics`). Nothing keeps
two runs of a command from overlapping, and but for a cache nothing holds state
outside the PostgreSQL database. Operators work with a REST desk (`backoffice/`) and
with Django's admin, whose scripts the repository carries (`staticfiles/admin/js`,
`staticfiles/unfold/js`): the state of its pages lives in the browser. What is hard
about the server follows from four facts:

* The isolation level is READ COMMITTED and requests are not atomic as a whole
  (`core/settings.py` has no `ATOMIC_REQUESTS`): every statement outside
  `@transaction.atomic` commits by itself, and inside a transaction each
  statement sees what is committed when it starts.
* A view loads its row *before* the service opens its transaction. Guards are
  evaluated on that copy, and `save()` writes all columns of it.
* Locks come from writing: an UPDATE holds the row to the end of the
  transaction. Only one place locks explicitly (`select_for_update` on the coupon).
* Components talk through an outbox table. `OutboxMessage.emit` is part of the
  emitting transaction; `pump_outbox` runs the handlers later, outside any
  transaction, swallows their errors, and only then marks the message.

In the browser one event handler runs at a time, but nobody fixes the order of
events: keys, clicks, timers, other windows and other tabs mix, and a widget keeps
the same fact in several places (a cache and the `<option>`s, a number in a field's
name and its position, a hidden input and a row of boxes) that handlers must keep
in step.

### Inventory

| Component | State | Operations | Hard part | Correct if |
|---|---|---|---|---|
| orders: lifecycle (`orders/services.py`, `state_machine.py`, `views.py`, `admin.py`) | order row, numbered audit rows, outbox | `place`, `transition`, `record_event`; the admin's form | stale copies, numbering, rollback | audit trail, row and outbox agree; numbers never collide; each save extends a legal history |
| orders: checkout (`orders/services.py:22`, `carts/`, `promotions/`) | cart, lines, idempotency records, redemptions | `place`; add, patch, put, remove, clear; the admin's forms | retries, four kinds of locks, a cart that changes meanwhile | one order per key, coupon limits, one branch per cart, no deadlock |
| carts: pricing (`carts/pricing_service.py`, `common/money.py`) | none | `quote`, `bp_of`, line totals | rounding, clamping | parts add up, never negative |
| delivery (`delivery/`) | task, offers, shifts | arm a task, offer, sweep, claim, decline, trip | sweep against claim, overlapping and crashing commands, stale task | one courier per task, trip and order agree, a ready order gets a task |
| payments (`payments/`) | payment, ledger, invoices, webhook events, refunds | start, capture, void, settle COD, webhook, refund | racing captures, redelivery, late webhooks, swallowed failures | books agree, numbers dense, captured once, COD collected |
| outbox (`common/models.py`, `pump_outbox.py`, `common/events.py`) | messages | emit, pump | at-least-once, swallowed errors | no message lost, handlers idempotent |
| configuration (`common/models.py:23`) | versioned settings, cache | get, set, edit, delete | version read twice around a read | an old value is answered only from a race on and until the cache's entries expire |
| accounts (`accounts/`) | users, token versions, reset codes | login, logout everywhere, reset | read-modify-write of the version, racing confirmations | a code sets one password |
| addresses | addresses with one default | create, set default | two defaults at once, limit of 20 | at most one default |
| vendors, menus | branches, hours, items, options | CRUD | ownership only | (input to the others) |
| discovery, analytics, support | none / summaries / tickets | reads, batch upsert, inserts | little | - |
| reviews | one review per order, aggregate | create, reply, refresh | aggregate from an old snapshot | aggregate converges |
| chat, calls | threads, watermarks, sessions | bootstrap, send, read, call | double creation, stale saves | one thread per order, monotonic watermark, one live call |
| notifications | second outbox | enqueue, deliver | overlapping senders | at least once |
| backoffice | (others' state) | boards, refund queue, settings | as refunds and configuration | - |
| admin: two-box selector (`SelectBox.js`, `SelectFilter2.js`) | caches, filters, marks, buttons | move, filter, double click, keys, submit | a filter hides what must still be sent | no option lost, hidden ones stay, all chosen are sent |
| admin: change list (`actions.js`) | ticks, counter, "across pages" | click, Shift-click, all, across, clear, back | a hidden input that makes an action run on everything | what runs is what is shown |
| admin: formsets (`inlines.js`, `app.js`) | rows, their numbers, TOTAL_FORMS | add, delete | numbers by count and by position | the server sees a list of forms |
| admin: date pickers (`calendar.js`, two `DateTimeShortcuts.js`) | sheet, selection, focus | open, turn, pick, shortcuts, keys | leap years, first weekday, state kept between openings | a click writes the date it seems to |
| admin: popups (`RelatedObjectLookups.js`) | windows by name, select fields | open, save, close, delete | windows taken over, pages rendered again | each popup has its asker, links follow the choice |
| admin: command search (`app.js`) | history in localStorage, a copy per tab | open, search, select, forget, favour | copies that have grown old | no entry twice, no step undoes what other tabs put there |

`PROJECT.json` lists every component with what is and is not modelled, and
under `hazards` the places where the code could go wrong in a way a test would
hardly reach, each with the properties that watch it or the reason why none does.

### How the components interact

    cart --(place: one transaction)--> order --(transition + message)--> outbox
                                         ^                                 |
             courier's trip (transition) |                    pump_outbox  |
                                         |                                 v
      dispatch_sweep ----> delivery task <--- "ready" ---------------- handlers
                                              "delivered": capture COD, ledger, invoice
                                              "cancelled ...": void the card session
      PSP webhook ----------------------------------------------> capture

## 2. Plan

Most important behaviour first; each module is written so that it can be both
checked and proved about.

| # | Module | Composes | Status |
|---|---|---|---|
| 1 | `OrderStates`: the map of legal transitions | - | done |
| 2 | `Orders`: transitions, audit, outbox, row locks | `OrderStates` | done |
| 3 | `OrderVersions`: abstract specification, trees of versions; `Orders` implements it | instanced by `Orders`' MC module | done |
| 4 | `OrdersProofs`: locks, numbers, audit, outbox, stamps; `Orders` implements `OrderVersions` | `Orders`, `OrderVersions` | done |
| 5 | `Processes`: pumps and web workers; `Dispatch`: one order with its task | `OrderStates`, `Processes` | done |
| 6 | `Books`: the records of the money; `Payments`: capture, void, webhooks, invoices | `Processes` | done |
| 7 | `Checkout`: place against the cart | - | done |
| 8 | `DispatchProofs`: types, couriers behind progress, trips and audit rows, one accepted offer, one winner without a sweep | `Dispatch` | done |
| 9 | `SelectFilter`, `Changelist`, `DatePicker`, `Popups`, `CommandMenu`: the admin's pages | - | done |
| 10 | `FormList`: the list an inline formset promises; `Formsets` implements it | `FormList` | done |
| 11 | `Refunds`: request, approve, reject with the order's transition | `OrderStates` | done |
| 12 | `Resets`: one-time codes and token versions | - | done |
| 13 | `RuntimeConfig`: a setting behind its versioned cache | - | done |
| 14 | `MCAdmin`: the pages and desks of 9 to 13 in one run | 9 - 13 | done |
| 15 | `FormsetsProofs` (with the refinement) | `Formsets` | done |
| 16 | `InductionFacts`: induction over numbers and what recursive functions compute; `PagesProofs`: change list, popups, selector, date pickers, command search | `Lists`; the modules of 9 | done |
| 17 | `AdminProofs`: refunds, one-time codes, settings, and the pages and desks together | `Refunds`, `Resets`, `RuntimeConfig`, `MCAdmin`, 15, 16 | done |
| 18 | `PaymentsProofs`: books agree; invoice numbers dense; captures bounded | `Payments` | done |
| 19 | `CheckoutProofs`: types, one order per key, coupon limits | `Checkout` | done |
| 20 | `MCBooks`: the trail of 2 and the money of 6 in one run; `MCLive`: 5 and 7 under fairness in one run | `MCOrders`, `Books`, `Payments`; `Dispatch`, `Checkout` | done |
| 21 | `Conversations`: threads, watermarks, calls | - | left |

Dropped from the plan: a module of prices. `quote` and `bp_of` are functions without
state that unit tests reach.

## 3. The models

Each model has the statement as its unit of atomicity: a step of a process is
one SQL statement (or several adjacent ones of which at most one touches shared
rows), because that is where another process can come in between. A transaction
buffers what it writes and publishes it in the step named `Commit` (or in its
last statement, where it has only one that others can see). Copies a view has
loaded are fields of the process. `Crash` or `Abort` is the death of a process:
PostgreSQL rolls back, autocommitted statements stay.

### OrderStates, Orders

`OrderStates` is `TRANSITIONS` and `can` of `orders/state_machine.py`, and the
status sets of `orders/views.py`. In `Orders`, `row`, `events` and `outbox` are
the committed rows, `lock` the row lock, `pc` and `tx` a worker's request: the
in-memory order `obj`, the `plan` of statuses still to be reached (two for the
courier's pick-up), and the buffered audit rows and messages. `edits` has the
`LogEntry` rows of the admin's change form, the other writer of a status.

| Action | Code |
|---|---|
| `Place` | `place`, seen from the order: row and first event |
| `Load` | `get_object()` and the role's branch in `OrderViewSet.transition`, or the trip's `task.order` |
| `Update`, `Refuse` | `can(...)` on the copy, assignments and `order.save()`, or the DomainError |
| `ReadSeq`, `Insert` | `record_event`: `max(seq)`, the INSERT (with the new status as `from_status`, as the code has it), and the message |
| `Commit`, `Crash` | end of the transaction |
| `FormLoad`, `FormSave` | the change form of `OrderAdmin`, in which `status` is editable (`orders/admin.py:31`): a transaction that reads the row without a lock and saves all columns of it with the posted status, without `can`, stamp, audit row or message |

`OrderVersions` is what the code really promises about history. Since the guard
is evaluated on a copy, the statuses that requests give an order are not a path of the
map. They form trees: each save of a request extends *some* earlier version by a legal
step. A tree starts at the placing of the order or at a status that support has
put it in by hand (`Decree`), which may be any. `ExtendsAVersion` says that `Orders`
implements this specification.

### Dispatch

One order and its task. The pump (`Pumps`) runs `dispatch_on_ready` and
`create_task_for_order`, the sweep (`Sweepers`) `sweep_expired`; both share
`offer_task` (`Choose`, `Arm`, `Offer`). Neither is a transaction, so each
statement is a step and a crash may come between any two. `Web` workers serve
`claim` and `trip_action`, which are transactions on rows loaded before
(`ClaimLoad`, `TripLoad`). The `desk` is everybody else who moves the order,
with a copy of their own.

Abstractions: positions (any choice of at most `MaxOffers` eligible couriers may
be the nearest); time (any sent offer may be past its TTL when the sweep looks);
the reads at the start of `offer_task` are one step; of the audit trail there is only
the set of statuses that trips have recorded (`ridden`), since `Orders` has the rows.
The desk may name any status: operators with a reason, and couriers on an order of their
own, may set `picked`, `out` and `delivered` by the order's own endpoint
(`orders/views.py:54-70`), and the admin's form (`FormSave`) sets any. Then an order is
out without a courier by their decision; the properties are therefore about the task,
its offers and the trips' own audit rows. A web worker that dies has changed
nothing and is not a step. `Processes` declares the pumps and web workers for
this module and the next.

### Payments

`Books` has the records and how they must agree: several orders with one payment each,
the ledger as a number of capture batches, and invoice numbers. In `Payments`, `Settle` and `Void` are the handlers of
`payments/handlers.py`, `Post`, `Ignore` and `Load` the webhook, and `Update`, `Number`,
`Commit` or `Fail`, `Finish` are `capture` with the invoice's numbering.
`Announce` is the order service committing a message; one order may announce
both a delivery and a cancellation, because overlapping transitions do so.
`"cancelled"` stands for the four statuses that void. `stripe` stands for the
card gateways. States the code never enters (`authorized`, `requires_action`,
`failed`) are left out, and so is the turn of the year, which starts a series.
An INSERT that meets an uncommitted equal number waits in PostgreSQL and is
decided by the first one's end; the model decides it at the second one's commit.

### Checkout

`place` as nine steps against the cart's endpoints, with the four kinds of locks
it takes. Who holds which lock follows from how far a request is (`HoldsKey`,
`HoldsCoupon`, `HoldsLine`, `HoldsCart`), so there is no lock variable that
could disagree with the code. Amounts are not modelled; each check that depends
on them is part of `Abort`, which has the same effect. `Add` takes one line
id of a finite supply, `PatchSave` inserts a line that is gone (Django's `save()`
inserts when its UPDATE finds no row). `OtherWriters` names two more writers of lines, so
that an instance can do without them: `"put"`, the inherited `update()` of
`CartItemViewSet`, which takes any item (`Put`), and `"form"`, the admin's form of a cart
with its lines (`Form`, `FormCart`, `FormCommit`), which here saves one line at most. The
admin's form of a line has no editable field and saves what it read, as `PatchSave` does.

### Refunds, Resets, RuntimeConfig

`Refunds` has one order with a captured payment and the operators' requests. An
approval is a transaction (`WriteRefund`, `ReadOrder`, then `CommitApproval` or
`RollBack`): it writes the refund in whatever state it is, reads the order, and moves it
on with `transition`, whose refusal undoes everything. A rejection is one UPDATE.
`MoveOrder` is everybody else, judging by any status the order has ever had
(`versions`), which is as stale as a copy can be, but not the admin's form of an order,
which may take an order out of refund at will. `overwritten` remembers that a
status was written over one its writer had not seen.

`Resets` has one user: codes are issued (`Discard`, `Create`), found, claimed by a
conditional UPDATE, and followed by three more statements that each commit by
themselves (`SetPassword`, `UseUp`, `LoadProfile`/`SaveProfile`), between which a
worker may die. Logins and logouts count the token version up by the same two steps.

`RuntimeConfig` has one setting. `GetKey`, `GetCached`, `ReadRow`, `KeyAgain`,
`SetCached` are the statements of `get`; `LoadRow`, `CreateRow`, `SaveRow` those of the
operators' endpoint, `SaveForm` and `DeleteRow` the admin's, which keep the version or
restart it. The history variable `doubt` says when the code itself can no longer
know that an entry is of its version's time: a writer has overtaken a request that acts
on what it read, or a row was changed below a cached version. It ends when all
entries have expired (30 seconds in the code) and nobody holds an old copy.

### The admin's pages

Each module has an action per event handler; a handler runs to its end before the next
event, as it does in a browser. What the browser itself does (focus, `unload`,
windows by name, restoring ticked boxes) is modelled from how the scripts use it.

* `SelectFilter`: `cache` is `SelectBox.cache`; the `<option>`s are its displayed
  entries, since every method that writes a cache ends in `redisplay`. A key goes
  down (`Type`, `Enter`, `ArrowAcross`, `ArrowAlong`) and comes up (`KeyUp`) in
  separate actions, because only the latter filters. `AddRelated` is an object that a
  popup has created, in either box. `Submit` is `select_all`, `Reopen` the page that comes
  back with errors. `Kept` (module `Lists`) is `Array.prototype.filter`, which the
  selector and the command search share; `Sorted` puts an entry behind all that are less,
  and behind its equals that stood before it, as the stable sort of browsers does.
* `Changelist`: `ClickToggle`, `ClickRow` (with Shift), `ClickAcross`, `ClickClear`,
  each with the `updateCounter` it ends in; `ComeBack` is "pageshow" on a page from the
  browser's cache, `ComeBackRebuilt` on one that is built anew and gets its ticks back.
* `FormList` is a list to whose end a form is added and from which one is removed.
  `Formsets` has the rows with the numbers in their names and three pairs of add and
  delete, one per script. `Posted` is the refinement mapping: what the server reads for
  the numbers below TOTAL_FORMS. `Unfold` renames the rows below a deleted one by
  their HTML, which loses what was typed there (`app.js:921`); `TypedStays` says so.
* `DatePicker`: the calendar's sheet, selection and focus in the version of the forms
  (a modal dialog) and that of the list filters; `Normalised` is JavaScript's `Date`,
  counted in days from a fixed Monday, against which `SheetIsMonth` holds the
  code's own month lengths and columns. `Midnight` may pass while a page is open.
* `Popups`: `Show` is `window.open` by name, which takes over a window that has that name;
  `Unload` is `dismissChildPopups` on "unload"; `Answer` the three `dismiss...Popup`
  functions, called on the opener.
* `CommandMenu`: `stored` is localStorage, `history` each tab's copy.

`MCAdmin` runs them and the desks together with a variable `page` that says which one
the user works on. They share no state, so one run checks each in all its states.
`MCBooks` and `MCLive` do so for the server's modules: the audit trail (with a long
history made by requests alone, and a short one with the admin's form) and the money;
checkouts, messages and claims under fairness.

## 4. What the runs show

| Run | Specification | Checks | Instance |
|---|---|---|---|
| `books` | `BooksSpec` | `BooksTypeOK`, `NoSeqCollision`, `AuditMatchesRow`, `OutboxMirrorsAudit`, `StampsFollowStatus`, `ExtendsAVersion`; `BooksMatchPayment`, `InvoicesDense`, `CapturesBounded` | "service": 1 order, 2 workers, 7 events; "support": 4 events and 1 saved form; "money": 2 orders, 1 pump, 1 web worker, 2 webhook events per order, 1 crash |
| `legal_history` | `Spec` | `LegalHistory` is violated | 1 order, 2 workers |
| `admin_edit` | `Spec` | `EveryMutationAudited` is violated | 1 order, 1 worker, 1 saved form |
| `dispatch` | `KitchenSpec` | `TypeOK`, `CourierBehindProgress`, `TripMatchesOrder`, `OneAccepted` | 2 couriers, pump, sweep, web worker; desk and form also name "picked"; 1 crash |
| `double_claim` | `Spec` | `SingleWinner` is violated | 2 couriers, pump, sweep, web worker |
| `checkout` | `Spec` | `TypeOK`, `OneOrderPerKey`, `CouponWithinLimits` | 2 customers, 2 lines, 1 branch, 2 checkouts at a time, 1 cart worker, PUT and form |
| `live` | `LiveSpec` | `CheckoutsEnd`, `CouponWithinLimits`; `ReadyGetsTask`, `SingleWinner` | "checkout": 1 customer, 2 checkouts at a time, 1 cart worker; "messages": 2 pumps, 1 crash, 1 courier; "claims": 2 couriers, 2 web workers, 1 pump |
| `mixed_order` | `Spec` | `OrderServedByItsBranch` is violated | 1 checkout against 1 cart worker |
| `branch_scope` | `Spec` | `CartHoldsOneBranch` is violated | 1 cart worker |
| `capture_twice` | `Spec` | `CaptureOnce` is violated | 1 order, 2 pumps |
| `cod_settles` | `FairSpec` | `CodSettles` is violated | 2 orders, 2 pumps |
| `admin` | `AdminSpec` | `AdminTypeOK`, and what the next table lists | see the bounds below |

| Property of `admin` | What it shows |
|---|---|
| `OptionsConserved` | no option is lost or doubled by any mix of buttons, double clicks, keys and popups |
| `SubmitsAllChosen` | the form sends the options that the filter hides, too |
| `HiddenStays` | what a filter hides never changes sides |
| `ActionMatchesBar` | an action runs on all objects of the query only if the bar says so |
| `NumbersRunOn` | rows are numbered 0, 1, 2, ... and counted, under each script |
| `ServerSeesList` | `Formsets` implements `FormList` |
| `TypedStays` | deleting a row keeps what was typed elsewhere (with Unfold: above it) |
| `SheetIsMonth` | every sheet has its month's days, under their weekdays |
| `OpenDialogIsCurrent` | an open dialog marks the input's date, if the input holds one (else an old mark may stay), and names the right months |
| `EveryPopupHasItsAsker` | no popup outlives the page that asked for it |
| `LinksFollowChoice` | change and delete links lead to the object that is chosen |
| `HistoryDistinct` | no page is twice in the command history, which keeps its limit |
| `OthersEntriesStay` | no step undoes what other tabs have put into it: one entry at most changes, and one leaves only if it alone is removed, or as the oldest of a history at its limit |
| `RefundsBooked` | refund, ledger and order agree, except after an overwritten status |
| `CodeSetsOnePassword` | a one-time code sets one password at most |
| `SettingsAreCurrent` | a setting's readers and its cache are of its time, except while `doubt` lasts |

### Disagreements with what the code says of itself

* `legal_history`: `orders/state_machine.py:1` says transitions are legal only
  through the map. Two requests that loaded the same status both pass, and the
  audit trail shows a step the map does not have.
* `double_claim`: `claim` is a "single-winner atomic claim"
  (`delivery/services.py:76`). The sweep writes OFFERING on a copy it read before
  the claim, and a second courier wins as well.
* `mixed_order`: `place` is to "freeze the cart into an order atomically"
  (`orders/services.py:24`). It reads the cart and its lines in two statements; an
  order can go to one branch with another branch's lines.
* `admin_edit`: "every mutation keeps its audit event" (`orders/admin.py:37`), and
  "nothing else mutates order.status" (`orders/state_machine.py:4`). The form of the class
  that says so has an editable status and writes neither audit row nor message.
* `branch_scope`: a cart is "scoped to a branch" (`carts/models.py:9`). A PUT of a line
  stores an item of any branch (`carts/views.py:56` overrides `create` and
  `partial_update` only). Two overlapping requests that both saw an empty cart would do, too.
* `capture_twice`: `return payment  # idempotent` (`payments/services.py:33`) is judged
  on a copy; two overlapping pumps, or webhooks, capture twice. What remains is
  `CapturesBounded`: not more often than processes overlap.
* `cod_settles`: "COD payments are captured the moment an order is delivered"
  (`payments/handlers.py:10`). A capture that loses the race for an invoice number rolls
  back, and its pump marks the message as processed.

Limits of the promises that hold, found on the way: a task all of whose offers were
declined, or that was created while nobody was online, is never looked at again by the
sweep; a claim of an offer whose time has passed succeeds until a sweep expires it, and a
courier may decline what was claimed; `from_status` of every transition's audit row equals
its `to_status` (`orders/services.py:18`); the admin's form of a cart locks the cart
before its lines and checkouts the lines before the cart, which PostgreSQL has to
resolve by failing one of them.

Of the refunds: a rejection after an approval leaves a failed refund that is paid out; a
second approval pays a second time; the refunds of a payment are not added up;
approving for an order that was cancelled by somebody is refused with 409. Of the
accounts: overlapping logins and logouts lose an increment of `token_version`. Of the
settings: an edit in the admin keeps the version, so that readers see the old value
until the entry expires, and a read that a writer overtakes caches the old value under
the new version, against the comment at `common/models.py:33`.

Of the admin's pages: rows below a deleted one lose what was typed (`app.js:921`); the
selector's buttons are not refreshed by every key (they may be enabled with nothing
marked, and then do nothing); an object that a popup deletes stays in the page's other
selects; the command menu removes and favours by a position of its own copy
(`app.js:468`), which may be another entry by then, and selecting a favourite again
ends its being one; a typed 31 February opens March; the labels of the quick links stay
those of the day before when midnight passes; the filters' calendars are not modal.

### Bounds, and why they are enough

* One order in `Orders` and `Dispatch`: their code relates no two orders. Two
  workers are two stale copies, which is all that an overwriting save needs; a third
  adds no kind of race, and the proofs cover any number.
* `LongHistory` = 7 (`MaxEvents` of "service") lets an order be delivered (placed,
  accepted, preparing, ready, picked, out, delivered) along any route; a request starts
  only below it. In "support" an audit trail has 4 rows and the form is saved once
  (`MaxEdits`), to `ready` or `delivered`: statuses that the order has not reached, with
  and without a stamp of its own, from which requests go on. `ForcedTargets` is a
  status operators name, chosen so that refunding (`refund_pending`), or cancelling
  (`cancelled_platform`) in `legal_history`, interferes.
* `MaxOffers` is 6 in the code and at least the number of couriers in `dispatch`, so that a
  round may reach all of them. In `dispatch` one command may die; what it leaves behind
  is the task and its offers, so that is tried while the order is in the kitchen, where
  the desk then leaves it (`KitchenCrashes`, a smaller instance and not the code's doing).
  `double_claim` needs no crash. In `live` one of two pumps may die, so that the other has
  to take over. In its "claims" two web workers serve two couriers, the case of two claims
  at once; there one pump is enough to arm the task, all couriers are on shift and the
  order stays preparing or ready. No sweep runs in `live`: with one, `double_claim`
  refutes `SingleWinner`.
* `DeskTargets` and `FormStatuses` of `dispatch` are `ready`, which sends the message, and
  `picked`, from which a trip can only be refused; the proofs cover all statuses.
* Two orders, one captured by the pump and one by a webhook, race for an invoice
  number; a third adds nothing `Taken` tells apart. `CapturesBounded` then says two;
  that two are reached is `capture_twice`. Two events per order and its delivery are three
  requests to capture it. One process may die, with two events sent at most (`FewEvents`).
* In `checkout` lines have one branch, since neither of the two properties depends on it
  (`branch_scope` and `mixed_order` have two); two lines give the cart leftovers.
  `MaxRedemptions` = 1 with two customers puts the coupon at its limit; the limit per
  customer is the only one in `live`, where it is 1 and one customer checks out twice at a
  time. `MaxOrders` bounds the starts of checkouts; those in progress go on beyond it.
* Couriers, orders, customers, branches, line ids and payers are symmetry sets in
  the safety runs (no operator tells them apart); no run with a liveness property uses
  symmetry.
* The pages of `admin`: two options and one that a popup adds, one of them grouped, and a
  text that matches only some; 3 rows (a Shift range with an inner row); at most 3 of 4
  forms, at least 1, so that both limits are reached with rows to spare; six months
  around leap days, a century without one, a leap century and a turn of the year,
  weeks from Saturday, one midnight, a typed date that does not exist; 3 windows (a popup
  of a popup, and one beside it), 2 fields of one object; 2 tabs and a history of 2 for
  3 pages, so that one is pushed out. Pages found are a symmetry set.
* The desks of `admin`: 2 refunds, 2 operators, 2 moves by others and 2 approvals of a
  refund; orders start on their way or refused (`PaidAt`), from where an approval may
  succeed or be refused; 2 codes, 2 workers, token versions to 2; a setting with 2
  values, one of them the default, 2 requests, versions to 2.

No run turns off deadlock checking. The bounded instances end in states where only
`AtBound`, `Quiet` or idle toggling is left, which these actions make explicit.

### Fairness

* `Dispatch`: pumps and sweeps are run again and again and come to their end unless
  they crash (WF). Couriers, customers and the desk need not do anything.
* `Payments`: as above for pumps (WF) and waits for the payment's row (SF); webhooks in
  hand are carried on. The PSP need not retry and the order service need not announce.
  This is the fairness under which `cod_settles` is refuted.
* `Checkout`: SF of a request's steps, because each of them may wait for a lock that
  others keep taking and giving back; lock queues justify it. Nobody need send a request.
  The admin's form of a cart is left out (`OtherWriters` of `live` is `{"put"}`): it may
  deadlock with a checkout, and then PostgreSQL, not a queue, ends the wait.

## 5. What is proved

Every invariant and every step property that a passing run checks is also a theorem,
for all values of the constants, but for one: `SingleWinner` is proved where no sweep runs
(`WinnerStays`), which is also the case that `live` checks. `BooksTypeOK` is the
`TypeCorrect` of two modules. What only the runs show is the two liveness properties,
and the seven disagreements.

`OrdersProofs` proves, for any sets of orders and workers and any bound (from
`OrdersAssumption` alone):

| Theorem | Statement |
|---|---|
| `Invariance` | `Spec => []IInv` |
| `TypeCorrect` | `Spec => []TypeOK` |
| `NumberingIsSafe` | `Spec => []NoSeqCollision` |
| `AuditIsDense` | `Spec => []AuditMatchesRow`: the newer of the last audit row and the last saved form names the status |
| `OutboxIsFaithful` | `Spec => []OutboxMirrorsAudit` |
| `StampsAgree` | `Spec => []StampsFollowStatus`, of the orders no form was saved for |
| `CodeExtendsVersions` | `Spec => ExtendsAVersion`, the refinement of `OrderVersions` |

The argument: event numbers do not collide because the transaction that computed
one holds the row lock from its UPDATE on, so nobody else can commit an event of
that order. None of the properties is inductive by itself. `IInv` adds who holds a lock
(`LockInv`: exactly the transaction that has updated the row), what an unplaced order
looks like (`PlacedInv`), that the admin's log refers to audit rows there are (`EditInv`), where a
request stands (`RequestInv`), and that what a transaction has buffered continues the
committed log and outbox without a gap (`BufferInv`), which the lock preserves while
others commit. Each action has a lemma, and sequences'
facts (`Append`, `\o`, numbering) are stated once and cited.

`StampsAgree` needs no lock: every copy of a row, however stale, has its own stamps
right unless a form has been saved, and a legal step keeps them so; a copy taken before
a form was saved cannot hide that it was (`edits` only grows). `CodeExtendsVersions` adds `SourceInv`: the
steps of a request start at a status the order has had, by request or by form (which it
never loses, `HadGrows`), and a request has two steps at most. Then a commit is one `Extend` of
`OrderVersions` (`CommitExtends`), placing is its `Create`, a saved form its `Decree`, and
all else is a stutter.

`DispatchProofs` does the same for delivery, from `DispatchAssumption` and
`ProcessesAssumption`, which leave the desk and the admin's form all statuses:

| Theorem | Statement |
|---|---|
| `TypeCorrect` | `Spec => []TypeOK` |
| `CourierIsBehind` | `Spec => []CourierBehindProgress` |
| `TripsMatch` | `Spec => []TripMatchesOrder` |
| `OnlyOneAccepted` | `Spec => []OneAccepted` |
| `WinnerStays` | `Sweepers = {}` implies `Spec => SingleWinner` |

All but the last hold with sweeps running. `CourierBehindProgress` needs two facts
more: a task that does not exist has no courier (`NoTaskInv`), and a request that is
under way has learnt a courier (`ReqInv`). An accepted offer, too, needs one: commands
re-arm offers but never accept one (`CommandOffers`). All lemmas go through `CommandWrites`: a
command only ever creates the task without a courier or writes one of two states
over it. `WinnerStays` has a hypothesis because `double_claim` refutes the
property without it; its invariant `WInv` says that a task with a courier is
claimed or past that, that only the one pump that created the task is about to offer
it, and that a stale copy held by a trip still names the courier of the task.

`PaymentsProofs`, from `ProcessesAssumption` alone, for any numbers of orders, pumps
and web workers:

| Theorem | Statement |
|---|---|
| `Invariance` | `Spec => []IInv` |
| `TypeCorrect` | `Spec => []TypeOK` |
| `BooksAgree` | `Spec => []BooksMatchPayment` |
| `InvoicesHaveNoGap` | `Spec => []InvoicesDense` |
| `CapturesAreBounded` | `Spec => []CapturesBounded` |

Invoice numbers have no gap because of two guards together: the payment's row lock
keeps the order's own invoice from appearing between `Number` and `Commit`, and
`full_number` being unique turns away a number that another order took meanwhile.
`IInv` says so in `WorkInv`: whoever is past the UPDATE holds the lock, and a number
that was read is the order's own or follows an issued one. A commit then uses the first
free number or none (`CommitNumbers`). `CaptureOnce` is refuted; what holds in its place
is that the captures of a captured payment, and the processes that still hold a copy from
before (`Stale`), are together no more than the processes (`RoomInv`): the first capture
leaves at most the others, each later one uses up one such copy, and nobody loads an
old copy of a captured payment (`StaleShrinks`).

`CheckoutProofs`, from `CheckoutAssumption` alone, for any customers, keys, lines,
branches, workers and limits:

| Theorem | Statement | The invariant behind it |
|---|---|---|
| `Types` | `Spec => []TypeOK` | `TypeInv`: also, a frozen cart has a branch |
| `OneOrderPerKeyHolds` | `Spec => []OneOrderPerKey` | `KeyInv`: who has inserted a key is alone with it, and the key has no record yet |
| `CouponWithinLimitsHolds` | `Spec => []CouponWithinLimits` | `CouponInv`: redemptions are those of the discounted orders; who holds the coupon's row is alone, and what its count said still holds |

The lemmas say first what a step does to the requests: it carries one on, ends one or
begins one, and leaves the others alone (`Carried`, `Ending`, `Begun`). Most steps are
then `Quiet`, and only `TakeKey`, `Price`, `Commit` and `Abort` need an argument of
their own. That the limits are kept is counting: the redemptions of a customer
are as many as the customer's discounted orders (`DiscountsCounted`, a bijection), and a
commit adds one to a set that its count found below the limit.

Three modules prove the properties of the `admin` run, each from the assumptions of
the modules it is about:

| Theorem | Statement | The invariant behind it |
|---|---|---|
| `PagesProofs!ActionsRunOnWhatIsShown` | `ChangelistSpec => []ActionMatchesBar` | the question "select all?" is shown only while all rows are ticked |
| `PagesProofs!PopupsHaveTheirAskers` | `PopupsSpec => []EveryPopupHasItsAsker` | `OneLevelUp`: a popup is one level below every page that lists it, also below the page it was taken from |
| `PagesProofs!LinksAreCurrent` | `PopupsSpec => []LinksFollowChoice` | what fields offer and choose are objects |
| `PagesProofs!OptionsAreConserved` | `SelectSpec => []OptionsConserved` | `Conserved`: each box has its options once, no option is in both, every option of the field is in one |
| `PagesProofs!FormsSubmitAllChosen` | `SelectSpec => []SubmitsAllChosen` | the same |
| `PagesProofs!HiddenOptionsStay` | `SelectSpec => HiddenStays` | the same; `Going`: what goes over is visible |
| `PagesProofs!SelectorIsTyped` | `SelectSpec => []SelectTypeOK` | `SelectTyped`: what is highlighted is visible (`InSight`); no more is announced than is hidden now (`Announces`) |
| `PagesProofs!DialogsAreCurrent` | `DatePickerSpec => []OpenDialogIsCurrent` | `DateShapes`: what the picker holds are dates and months |
| `PagesProofs!SheetsAreMonths` | `DatePickerSpec => []SheetIsMonth` | the same; `YearLength` and `MonthLength` for every year of the calendar |
| `PagesProofs!PickersShowDates` | `DatePickerSpec => []DatePickerTypeOK` | the same |
| `PagesProofs!HistoriesAreDistinct` | `CommandMenuSpec => []HistoryDistinct` | `CommandMenuInv`: copies and storage are lists of entries |
| `PagesProofs!OthersAreKept` | `CommandMenuSpec => OthersEntriesStay` | the same; `AddedEntries`, `RemovedEntries`, `ToggledEntries`: what each operation leaves of the list |
| `FormsetsProofs!NumbersAlwaysRunOn` | `FormsetsSpec => []NumbersRunOn` | saved rows come first, which is why the crispy script may number the others from their count |
| `FormsetsProofs!ScriptsImplementTheList` | `FormsetsSpec => ServerSeesList` | the same, and `WithinLimits`: the buttons keep the limits |
| `FormsetsProofs!TypedIsKept` | `FormsetsSpec => TypedStays` | the same, and `DistinctForms`: no form has two rows, so that a deleted one is gone |
| `AdminProofs!RefundsAreBooked` | `RefundsSpec => []RefundsBooked` | an approval that has read a refunded order finds it in refund still, or its status has been overwritten; the map leads out of refund nowhere |
| `AdminProofs!OnePasswordPerCode` | `ResetsSpec => []CodeSetsOnePassword` | whoever is about to set a password holds a used code that nobody else holds |
| `AdminProofs!SettingsStayCurrent` | `RuntimeConfigSpec => []SettingsAreCurrent` | without doubt, versions to come have no entry, and who acts on a row holds the row there is |
| `AdminProofs!PagesAreIndependent` | `AdminSpec => SelectSpec /\ ... /\ RuntimeConfigSpec` | none: a step of one page or desk leaves the variables of the others alone |
| `AdminProofs!AdminIsTyped` | `AdminSpec => []AdminTypeOK` | those above |
| `AdminProofs!AdminKeepsItsPromises` | `AdminSpec =>` all of the above | those above |

Three of these need induction over data: the windows below a closing one, the entries
of a list that are kept, the options that are moved one by one. `InductionFacts`
states it with sets in place of operators (`Induction`, from a least counterexample) and
derives what a function defined by recursion on a number computes (`Iteration`), where
a growing set ends (`Reached`), and what `Kept` returns (`KeptEntries`: it comes from the
list by increasing positions, those kept and no others). In the popups it gives that `Children`
is closed: "unload" reaches every window below (`ChildrenOf`). In the selector it
carries `Conserved` through the loop of `move` (`AllMoved`); that `Sorted` loses nothing is
counting, since an entry's rank is its own (`Ranks`, `BoxSorted`). The number announced as
hidden is set only when a box is filtered, and bounded all the same, since nothing hidden
leaves its box before it is filtered again (`Unseen`, `AnnouncedKept`). The assumptions are
what the code takes for granted: `SelectAssumption` has a list of different options, finitely many
new ones and a blank filter that matches everything; `DatePickerAssumption` typed dates
with a month of 1 to 12 and a day of 1 to 31, and a today there is.

`ScriptsImplementTheList` is the second refinement that is proved: the initial state maps
to a list of different forms, and each step of a script to `AddForm`, `RemoveForm` or a
stutter of `FormList`. Its heart is that, while rows are numbered, what the server
reads is what the screen shows (`PostedIsShown`), so that each handler can be compared
with a list operation.

Model-checked only:

* Liveness under fairness (`ReadyGetsTask`, `CheckoutsEnd`), which with ENABLED is
  outside the prover's reach.
* The seven disagreements of section 4, which are counterexamples.

## 6. Not modelled

`PROJECT.json` gives a reason for every component. In short:

* Server: reads without state (discovery, boards, lists), framework configuration,
  single-statement CRUD, generated and demo data. Prices are arithmetic without state.
  Addresses, reviews, chat, calls and notifications keep state that no modelled component
  reads; their hazards are listed with notes.
* Server, the admin's other forms: those of tasks, offers, payments and refunds have no
  editable state, but Django saves the row they were loaded from; that this may write
  back an old row is not modelled, nor is deletion of rows through the admin (orders cannot
  be deleted there). Nor is the form of an order part of `Refunds`.
* Admin: dragging rows of a formset, whose rules are in Unfold's templates and not in the
  repository; nested formsets; raw-id lookups and select2's labels in popups; two
  many-to-many fields of one model, where an object that one field's popup creates
  is put into the other's box without its cache; texts of times and time zones;
  a browser that gives the hidden "across pages" input its old value when it builds a page
  anew (`ComeBackRebuilt` has it empty, as the page is sent); keys that can be edited (the
  models have none), for which a changed object would get another id in the selects;
  `urlify.js`, which is a table of letters; scripts that set a class, a cookie or the focus;
  minified libraries, styles and the generated schema.
* External parts appear as assumptions: PostgreSQL's READ COMMITTED with row locks and
  unique indexes, Redis's single commands, cron starting commands again, a PSP that
  repeats a webhook until it gets a 200, and the browser.
