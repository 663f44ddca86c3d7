# Verification of inventoPro

This directory is the formal model of inventoPro (Django 5.1, DRF, Celery,
Channels, PostgreSQL), kept beside the code it describes. It holds TLA+
modules, the TLC configurations that check them on small instances, and proofs
that TLAPS checks. All paths below are relative to `src/`.

Contents: 1 the system, 2 what is modelled and how, 3 the runs, 4 fairness,
5 the proofs, 6 where code and documentation disagree, 7 what is not modelled.

## 1. The system

inventoPro is a multi-tenant stock, sales and purchasing back end. Gunicorn
runs several synchronous worker processes (`gunicorn.conf.py`); each serves one
HTTP request at a time and is killed when one takes too long. They share one
PostgreSQL database at its default isolation level, READ COMMITTED, and
`ATOMIC_REQUESTS` is off, so a transaction exists only where the code writes
`transaction.atomic`. Celery workers run tasks from a Redis queue and
acknowledge each as it starts; Channels pushes notifications over WebSockets.
What can interleave is therefore any two requests or tasks, statement by
statement, except where a row lock, a unique index or a foreign key orders
them. What can fail is a request (an exception), a process (a kill, a lost
connection), or a transaction (a deadlock, a constraint).

| Component | State | Operations | Interacts with |
|---|---|---|---|
| Stock engine (`apps/inventory/services/stock_service.py`) | `StockLevel` rows (quantity, reserved, average cost), `StockMovement` rows (append only), the tenant's cached settings | `adjust_stock`, `transfer_stock`, `process_purchase_receipt`, `process_sale`, `reserve_stock`, `release_reservation` | called by sales, purchases, transfers and the stock views; queues `send_reorder_alert` |
| Stock transfers (`apps/inventory/views.py`) | `StockTransfer` (status, both warehouses), `StockTransferItem.quantity_received` | `confirm`, `receive`, `cancel`, PATCH, DELETE | one or two committed calls of the stock engine per item |
| Sales orders (`apps/sales`) | `SalesOrder` (status, customer, warehouse, totals, amounts), its items, `Payment`, `Customer.outstanding_balance` | `create_order`, `confirm_order`, `record_payment`, `cancel_order`, `deliver`, PUT/PATCH, DELETE, PUT/PATCH of customers | stock engine; customer balance; POS sums |
| Purchase orders (`apps/purchases`) | `PurchaseOrder` (status, warehouse, approval), items with `quantity_received` | create, `approve`, `receive`, `cancel`, PUT/PATCH, DELETE | stock engine inside the receive transaction |
| POS sessions (`apps/sales`) | `POSSession` per cashier | open, close, PUT/PATCH, DELETE | the payments of the session's orders |
| Schema and deletion (the migrations, every `ModelViewSet`) | the foreign keys of 33 tables | DELETE, PUT/PATCH, POST | Django's collector and the database's constraints |
| Team and invitations (`apps/accounts`) | `TenantMembership`, `UserInvitation`, `Role` | invite, accept, remove, change role, delete role | plan limits, email task |
| Warehouses, tenants and plan limits | `Warehouse.is_default`, `Tenant.max_warehouses` | create under the limit, PUT/PATCH, DELETE, `save` (clears the flag of the others) | stock keys |
| Notifications and alert tasks (`apps/notifications`, `apps/inventory/tasks.py`) | `Notification`, a channel group per user, the task queue | `send_reorder_alert`, the daily sweeps, push, mark read, WebSocket connect and count | memberships, stock engine |
| Finance and analytics (`apps/finance`, `apps/analytics`) | `Expense`, `FinancialSummary`, the cached overview | submit, approve, edit; the daily build; the overview | read orders and payments |
| Pricing and costing | totals of orders, weighted average cost | `recalculate_totals`, `_calculate_average_cost` | written by orders and receipts |
| Products, suppliers, customers | plain records | CRUD, bulk upload row by row | stock keys |
| Login and tokens, permissions | tokens of simplejwt | login, refresh, logout | memberships |
| Audit log | `AuditLog` | one insert after a response | middleware |
| Tenant context (`core/middleware.py`, `core/managers.py`) | a thread-local tenant | set and cleared per request | every tenant-scoped query |
| Stale copies (`viewss.py`, `serializerss.py`, `permissionss.py`) | none | not imported | - |

The hard behaviours, which decide what is modelled:

* **Stock is read, computed with and written back.** Row locks make that right,
  and where a row does not exist yet only a unique index does, which NULL
  variants escape. Items are locked in request order, so requests deadlock.
* **Handlers decide from an object they fetched before their transaction.**
  Every handler starts with `get_object`, an unlocked SELECT; the check and the
  amounts come from that object, and are written back later.
* **PUT and PATCH write every column** of the fetched object back and so undo what was
  written in between, even re-inserting a row that was deleted. They leave writable
  what other handlers rely on: the warehouse of an order or a transfer between two
  movements of its goods, the customer between two payments.
* **Some operations are sequences of commits**: a transfer commits per item, a
  warehouse clears the default flag before it saves its own, a summary is read
  by four queries, and an exception or a killed worker in between leaves part of
  it done.
* **Check, then act**: plan limits, stale sessions and pending invitations are
  looked up before the insert they govern, with no lock that spans the two.
* **Deletion collects before it deletes**: Django reads level by level what a
  DELETE drags along, then deletes in one transaction what it has collected.
* **Tasks are queued before the commit**, may be lost with their worker or run
  again, and push to sockets that come and go.

What makes each component correct:

* stock engine: quantity on hand is where the movement ledger ends; the ledger
  has no gaps; a call takes effect wholly or not at all; stock stays
  non-negative unless the tenant has allowed otherwise; a reservation takes only
  what is available; low stock is alerted unless the broker refuses; every call ends;
* transfers: what is reserved is what transfers in transit hold; a received
  transfer has moved its goods exactly once;
* sales: stock moved by an order is what its status says, in its warehouse;
  payments add up and the derived amounts follow from them; a customer's balance
  is what was paid on credit; a delivered order stays delivered;
* purchases: nothing is received beyond the order; what items record is in stock, in
  the order's warehouse, and the other way round; the status says whether the order is
  complete;
* POS: a counted till expects the cash its orders were paid; one session per
  cashier, up to requests that overlap;
* deletion: movements are never lost, changed or left without their stock level,
  and rows stay well formed;
* team: a new invitation cancels the pending ones; who accepted is a member
  until removed; and each invitation email settles;
* warehouses: the plan's limit and the single default hold up to the requests
  that overlap;
* notifications: a task that ends well has reached everyone it read; a client
  that connects meanwhile misses none; every queued task settles;
* finance and analytics: an approved expense has an approver; a summary is what
  the books say unless they changed since; a cached figure is never too old.

## 2. The modules

| Module | Models | Builds on |
|---|---|---|
| `StockLedger` | the abstract promise of the stock engine: a request posts all its movements in one step or nothing | community modules |
| `StockService` | the engine as it runs: statements, locks, private writes, commit, rollback, crash, deadlock | `INSTANCE StockLedger` as `Promise` (refinement) |
| `SalesOrders`, `StockTransfers`, `PurchaseOrders` | the clients of the engine under overlapping requests | `INSTANCE StockLedger` as `Stock` |
| `Till` | POS sessions beside the sales and payments of their orders | - |
| `Schema` | the tables and foreign keys of the migrations | - |
| `Deletion` | DELETE, PUT/PATCH, inserts and stock movements over them | `Schema` |
| `Team` | invitations, their emails, members and roles of a tenant | - |
| `Warehouses` | the plan's limit and the default flag | - |
| `Notifications` | alert tasks, rows, pushes and sockets | - |
| `Reports` | expenses, the daily summary, the cached overview | - |
| `MC...` | instances for TLC: requests, items, opening data, symmetry | the module of the same name |
| `SumLemmas` | facts about finite sums, for every function and set | `TLAPS` |
| `StockServiceProofs`, `SalesOrdersProofs`, `PurchaseOrdersProofs`, `StockTransfersProofs`, `DeletionProofs` | theorems about the module of the same name | it, and `SumLemmas` where it adds up |
| `TenantProofs` | theorems about `Team`, `Warehouses` and `Notifications` | these, whose specifications have names of their own (`TeamSpec`, `WarehousesSpec`, `NotifySpec`) |
| `FinanceProofs` | theorems about `Till` and `Reports` | these (`TillSpec`, `ReportsSpec`) |

The composition rests on refinement. `StockService` is proved to implement
`StockLedger` (`KeepsPromise`), and the three clients use `StockLedger` for
their stock effects: each call is one atomic `Post`, `Reserve` or `Release`. So
a client model needs no rows and no locks of the engine, and what it says of
the stock is what the engine delivers. The refinement is for keys that the
unique index protects, those of a product with a variant; for the others
`QuantityConserved` says what is left of it.

Two conventions run through the modules:

* A definition that begins with a `Mutant:` comment is not part of the model. It
  is a plausible bug of the definition after it, kept so that the properties can
  be shown to depend on the code: with it in place of the real one, the property
  named in `PROJECT.json` fails.
* `load`, chosen from the constant `Loads` at the start, says which kinds of
  request one behaviour is made of. It lets one run cover several mixes of
  requests without their product. The proofs hold for any `Loads`, so also for
  the one set that allows everything.

History variables (`everAllowed`, `unqueued`, `overlapped`, `edited`, `moved`, `lost`,
`disturbed`, `late`, `touched`, `missed`, `reached`, `earlier`, ...) are read by
properties only. None restricts behaviour.

### StockLedger and StockService

`StockLedger` keeps `onHand` (`StockLevel.quantity`), `reserved`, `ledger` (the
movements of a key in order) and `negativeOK`. `Post(batch)` is a whole call with
all its items: `Fits` is the conjunction of the checks of `adjust_stock`,
`NewMovements` the movements it appends to a key, one for each item of the key, in
the order of the items (`Nth`). A batch is a function from positions to
items, so a request without some of its lines (`PurchaseOrders.WriteItems` skips
those that receive nothing) is a batch as it is.

In `StockService` one worker is one request at a time; its `pc` is the next
statement.

| Action | Code |
|---|---|
| `Begin` | a view calls a method, `BEGIN`; `transfer_stock` refuses bad arguments before it (`Accepted`) |
| `ZeroDelta` | the first check of `adjust_stock` |
| `GetRow`, `GetMissing`, `GetMultiple`, `NothingToHold` | `select_for_update().get_or_create(...)` or `.first()`: one row locked, none, or several |
| `Insert`, `InsertConflict` | the INSERT of `get_or_create`; the unique index makes it wait or fail, and Django gets again |
| `AdjustRow` | quantity check, row UPDATE, movement INSERT, reorder task (`_trigger_reorder_alert`, which swallows a broker's refusal), settings cache |
| `AdjustInsufficient`, `ReserveInsufficient` | the exceptions, with the rollback of the whole call |
| `ReserveRow`, `ReleaseRow` | the two reservation updates |
| `Commit` | private writes become visible, locks are released |
| `Crash`, `DeadlockAbort` | process or connection lost; PostgreSQL's detector chooses a victim |
| `UpdateSettings` | PATCH of `allow_negative_stock` |

`level` and `ledger` are committed state, `draft` and `pending` the uncommitted
writes of each worker; a statement reads `View`, the committed rows overlaid with
the worker's own. `alerts` holds the movements whose alert was queued, committed
or not, `unqueued` those for which `.delay` raised: the code logs that and commits
all the same, so `LowStockAlerted` promises an alert only if the broker took it.
`Slots` gives a key more than one possible row, in primary-key
order, so that duplicate rows of a NULL variant can exist. Quantities are
integers: the code's decimals have a fixed scale, and nothing modelled here
rounds. `settings` is the per-request cache of `tenant.settings`: a new request
starts with it unread, calls of one request share it.

### SalesOrders

Each request is two steps, `Fetch` and an action of its handler, because
`get_object` runs outside the transaction and everything after it decides on
the fetched `object`. `Confirm`, `CancelConfirmed`, `CancelOther`, `Deliver`,
`Pay`, `Update` (PUT and PATCH) and `Destroy` are whole transactions, the
`...Refused` actions are the early returns, exceptions and rollbacks. `Pay`
writes amounts computed from the fetched row, and `WriteBalance` the balance of the
customer fetched with it (`whose`, `credit`). `Confirm` sells from the warehouse of
the fetched row and a cancel restocks the one it sees. `Update` writes the fetched
row back with the client's field changed (status, amount paid, customer, warehouse,
or another), without its items if the order was deleted meanwhile. `FetchCustomer`
and `UpdateCustomer` are PUT and PATCH of a customer, which write the fetched
balance back. Drafts are the initial state: `create_order` inserts rows nobody else
can see before.

An order is `overlapped` once a request wrote it from an object that had changed
since, `edited` once a client set its status or amount paid, `moved` once a client
changed its warehouse after it had moved stock; a customer is `lost` once their
balance was written from an old reading and `blurred` once an order they paid on
was deleted. `posted` records each sale and each void of an order with its
warehouse, and a payment the customer the request had for it (`payer`): a credit
counts for whoever had the order when it was fetched.

### StockTransfers

Nothing in these handlers is one transaction, so each engine call and each save is an
action: `ReserveItem`, `ReleaseItem`, `MoveItem`, `RecordItem` (`item.save`),
`SaveStatus`. `EndItem` is the loop. `Abandon` may end a request between any two of
them: an exception of the engine, a row that has gone or a killed worker. `Update`
sets the status and the route, both warehouses, as the serializer lets a client do;
every call goes by the route of the fetched object (`way`). `Adjust` is any other
request that moves the same stock. A transfer is `disturbed` once two requests served
it at once, a client changed its status or the source of one in transit, a request
left it half done or it was deleted in transit. A client may turn round a draft, or
redirect a transfer in transit, undisturbed. Drafts are initial states:
`StockTransferSerializer` has a writable nested list, so POST raises.

### PurchaseOrders

`receive` is one transaction but reads and writes at several points:
`ReadItems` (the loop's SELECT, no lock), `WriteItems` (each `item.save` with an
absolute value, which waits for another transaction that holds the row and then
overwrites what it committed), `Recheck` (the second query that decides the
status) and `Receive` (status, COMMIT, with the stock posting, which goes to the
warehouse of the fetched order). The other handlers fetch and then save once;
`Update` sets the status and the warehouse. `create` is the initial state;
`requires_approval` and `approved_by` are left out, for no handler reads them. An
order is `moved` once a client has named another warehouse than its first.

### Till

`OpenScan`, `OpenUpdate` and `OpenCommit` are `open_pos_session`, one transaction.
Its UPDATE finds the cashier's open sessions that are committed when it begins
(`found`), waits for each that another transaction has locked, looks at that row
again and closes it if it still matches (`scan`); a session inserted meanwhile it
never sees, as PostgreSQL has it at READ COMMITTED. `OpenCommit` is the INSERT and
COMMIT. `CloseFetch` is `get_object`; `CloseSum` and `CloseSave` are the two
statements of `close_pos_session`. That is a transaction too, but its sum is a plain
SELECT that locks nothing, so payments may come between the two. `EditFetch`/`EditSave`
are PUT and PATCH, `DestroySession` DELETE. Beside them run `CreateOrder`, `Pay`,
`MoveOrder` (PATCH of `pos_session`) and `DestroyOrder`. An amount is the set of
payments it adds up, so that equal sets are equal sums and no arithmetic can
hide a missing payment.

### Schema and Deletion

`Schema` has one definition per table of the migrations: for each foreign key
the table it refers to, the `on_delete` rule and whether it may be NULL.
`Deletion` is parameterised by rows of those tables. `Destroy` is `get_object`,
`Collect` one level of Django's collector, `Protected` its `ProtectedError`,
`Delete` the final transaction and `DeleteConflict` the refusal of the database,
whose foreign keys (`Dangles`) only refuse. A table nothing refers to is deleted
by one query at the end (`Leaf`). `Fetch`/`Save`/`SaveConflict` are PUT and PATCH,
`Create` the POSTs, `Move` and `MoveFirst` the inserts of `adjust_stock`.

### Team

`Invite`, `FindPending`, `Cancel`, `QueueMail` and `Commit` are the statements of
`invite_user`: the checks, the UPDATE (which rows it matches when it starts, and again
once it has their locks), the INSERT with `send_invitation_email.delay`, COMMIT.
Django's foreign keys are deferred, so the role must exist at COMMIT and an
uncommitted invitation does not hold it (`InUse`): the role may be deleted meanwhile
and the call fails. `Rollback` leaves the task queued. `SendMail`, `RetryMail` and
`LoseMail` are the task: it may run before the commit and not find the invitation.
`ReadToken` and `Accept` are `accept_invitation`, whose `get_or_create` (`Enrol`)
finds a membership whatever its `is_active`. `Remove`, `UpdateRole` and `DestroyRole`
are the views. No view calls `accept_invitation`; the model has callers all the same,
since the service is written to be called.

### Warehouses

`Check` is `perform_create` with `check_plan_limit`, `Fetch` the `get_object` of PUT
and PATCH, `Clear` the UPDATE in `Warehouse.save` that takes the flag from all,
`Save` the row itself, inserted again if it has gone, `Destroy` the DELETE, `Fail` a
request that dies or repeats a code.

### Notifications

A task's run is `Start`, then per tenant `ReadMembers`, per member `CreateRow` (a
commit of its own) and `Push`, then `NextTenant` and `Finish`. `Raise` retries or
drops, `Crash` loses the task with the row it has not pushed. A socket goes through
`Connect` (group and accept), `CountUnread`, `Greet`, `Deliver`, `ReceiveReadAll`,
`Disconnect`. `MarkRead` and `MarkAllRead` are the views; `Appoint` changes who is an
owner or manager.

### Reports

Expenses: `CreateExpense`, `Fetch` then `Submit`, `Approve` or `Edit`,
`DestroyExpense`; `Saved` is `Expense.save`. The daily build: `Start`, then
`ReadRevenue`, `CountOrders`, `ReadCogs`, `ReadExpenses`, `WriteSummary`, one query
each, while `ChangeOrder` and the expenses go on and midnight passes (`NextDay`). The
overview: `Miss`, `Store`, `Evict`, and `Tick` for the time that TTL and the server's
timeout measure. A figure is the set of rows it adds up.

## 3. The runs

| Run | Instance | Checks | States | What it shows |
|---|---|---|---|---|
| `stock_transactions` | two workers; loads: (a) two keys with one row each, receipt and sale of both in opposite orders, a transfer, a refused transfer, a zero line, reserve and release; (b) a NULL-variant key with two row places, adjustments and two sizes of reservation; (c) a tracked key: receipts of 1 and sales of two lines around its reorder point of 1, with a broker that may refuse; ledgers up to 2 | `LedgerAgrees`, `NeverNegative`, `LowStockAlerted`, `IInv`, `QuantityConserved`, `KeepsPromise`, `ReserveWithinAvailable` | 643 597 | ledger and quantity agree in every interleaving with crashes and deadlocks; the engine implements `StockLedger`; even duplicate rows lose or invent nothing; no low movement goes without an alert that the broker would have taken |
| `stock_liveness` | the calls of (a) that wait for one another, ledgers up to 2 | `CallsEnd` | 47 156 | every call ends although row locks are taken in request order, and after the first commit calls wait for rows as well as for unique entries |
| `sales_orders` | two workers; loads: one order through its life with status edits to `draft` and `packed`; the same with edits of its warehouse; two orders of one customer, total 3, paid 2 at a time by cash or on credit; one order that becomes another customer's or nobody's between payments, while a customer is edited | `TypeOK`, `StockMatchesStatus`, `PaidIsPayments`, `AmountsAgree`, `BalanceIsCredit`, `DeliveredIsFinal` | 1 388 208 | stock follows the status in the order's warehouse, amounts and balances add up; partial, full and over-payment included |
| `sales_soldonce` | one order whose status no client sets | `SoldOnce` | - | expected violation, section 6 |
| `transfers_lifecycle` | two workers; loads: one transfer of lines of 1 and 2 from a stock of 3, received in part, with sales of the stock and status edits; two transfers that hold the same stock; a transfer that a client turns round or sends from a warehouse to itself | `TypeOK`, `ReservationsMatch`, `ReceivedIsMoved` | 1 714 412 | failures, kills and retries at every point of the loops; no transfer takes what another holds; releases follow the route that the reservation was made for |
| `purchases_receipts` | two workers; one order with lines of 1 and 2; receipts of 0, 1 or 2 of each; edits to `sent` and between two warehouses | `TypeOK`, `ReceivedWithinOrdered`, `ReceivedIsStocked`, `StockIsRecorded`, `StatusFollowsItems` | 2 589 480 | overlapping and partial receipts, in one warehouse or two, rollbacks, cancel, edit and delete |
| `till_sessions` | two workers, three sessions, two cashiers, one order, one payment; loads: sales beside opens and closes; edits beside both | `VarianceExplained`, `OpenSessionsBounded` | 1 110 985 | the only ways to a false variance; sessions left open only by opens that overlap, those that waited for a lock included |
| `deletion_integrity` | two workers; twelve rows of eleven tables: a user, a tenant, product, variant, warehouse, branch, order, and, inserted meanwhile, its line, a stock level, two movements and a lot | `HistoryHasLevel`, `MovementsKept`, `DInv` | 24 189 | collector, constraints, edits and inserts in every order |
| `team_invitations` | one address invited twice to different roles, two acceptors, three retries | `LaterCancelsEarlier`, `AcceptedAreMembers`, `MailSettles` | 525 618 | invitations, mails and acceptances across removals and role deletions |
| `warehouses_plan` | three workers, limit two, five rows | `WithinPlan`, `DefaultsBounded` | 339 547 | the limit and the default are off by at most the requests that overlap |
| `notifications_alerts` | an alert with one retry or a sweep of two tenants, two users who come and go, one socket | `DoneReachedAll`, `NoneMissed`, `TasksSettle` | 222 768 | retries, crashes, and a client that connects in the middle |
| `reports_books` | two workers, one order, one expense, amounts 0 and 1, two days, TTL 3, timeout 2, clock to 9; loads: orders beside builds; expenses beside builds; the overview | `SummaryExplained`, `OverviewIsRecent`, `ApprovedByApprover` | 677 439 | figures read by several queries, stale copies of expenses, slow refills of the cache |

States are the distinct ones, with symmetry where it is used.

Why the bounds are enough for the cases that matter:

* Two workers: nearly every property is about a pair of requests that overlap,
  and handlers hold no state across requests. `warehouses_plan` uses three,
  because its bounds count the workers; the theorems cover any number.
* Stock: two ledger entries per key let a call post after another one committed, two
  keys let calls wait for each other, for the INSERT of a first movement and, once
  rows exist, for the rows (`stock_liveness` has both); a call with several items is
  refused at its second item after its first was written. Reservations of 1 and 2
  against a stock of 2 fail and succeed; a release of 2 meets the floor of zero. Of
  two items at a reorder point of 1 the first can queue its alert before the second is
  refused.
* Sales: one unit of stock makes the second sale fail unless it was returned; two
  warehouses let a cancel restock another; payments of 2 against 3 give unpaid,
  partial and paid, and a second one the over-payment where the amount due meets its
  floor.
* Transfers: a stock of 3 with sales of 1 makes `reserve_stock` and
  `transfer_stock` fail in the middle of a transfer; two warehouses are enough to turn
  a route round and to make both ends the same.
* Purchases: lines of 1 and 2 allow an order to be completed in one receipt or in
  several, in different warehouses, an item to be complete while another is not, and an
  empty receipt.
* Till: a third session is what one open leaves behind for a second to close while
  another inserts; a session can be re-inserted by an edit after its deletion.
* Deletion: product, variant, level and movement are the longest chain on which
  CASCADE and PROTECT meet; branch and order are SET NULL and PROTECT to the same
  warehouse; the lot and the line arrive as leaf rows after the collector looked.
* Team: one address twice is the least with a later and an earlier invitation;
  three retries are the code's own.
* Reports: two days let a build of yesterday end today; a TTL of 3 with a timeout
  of 2 lets a slow request store figures older than those it replaces.

The bounds in the modules (`MaxLedger`, `MaxPaid`, `pays`, `posts`, `movements`,
`MaxDay`, `MaxTime`) only stop new requests or the clock, never a running request.
Sets of primary keys (`Rows`, `Sessions`, `Payments`, `Invites`, `Tasks`) bound how
often something is created.

Deadlock is checked in the stock runs. `CHECK_DEADLOCK FALSE` is set in the others,
whose bounds and finite key sets let the system come to an end. `SYMMETRY` is
used in safety runs only, over sets whose members no constant distinguishes.

Conditions in properties. Several properties hold only for orders, transfers or
sessions that were not `overlapped`, `edited`, `moved`, `disturbed` or `late`. The
condition is not a convenience: with it dropped TLC finds a counterexample each time,
and each is a behaviour of the code that section 6 describes. What the property then
says is that these are the *only* ways in which it fails; killed workers, rollbacks,
refused requests, retries and deletions are not among the exceptions, except where the
code's own half-done work is. Others (`WithinPlan`, `DefaultsBounded`,
`OpenSessionsBounded`) say by how much a documented rule is missed under overlap, and
so that it holds exactly when requests do not overlap.

## 4. Fairness

* `stock_liveness`, `FairSpec`: weak fairness of `Run`, the statements that wait
  for no other transaction (a worker process keeps running its request); strong
  fairness of `Select` and `Insert` (a statement that waits for a row lock is enabled
  again and again as others finish; PostgreSQL serves the queue of a lock in
  order). `DeadlockAbort` is in `Run`: the detector wakes after `deadlock_timeout`
  and aborts one transaction of the cycle. No fairness of `Begin`, `Crash` or
  `UpdateSettings`.
* `team_invitations`: weak fairness of `MailTask(i)`. A Celery worker takes a task
  that stays in the queue; what the task then does, send or retry, is its own
  choice, so `MailSettles` rests on the retry limit, not on luck.
* `notifications_alerts`: weak fairness of `Run(t)`, a worker that goes on with the
  task it has taken. It may raise at every query and be retried; `TasksSettle`
  rests on the limit again. Nothing is assumed of sockets, clients or the beat.

No fairness is needed or stated anywhere else.

## 5. The proofs

Each `...Proofs` module proves theorems for every value of the constants, under
the assumptions named in the module it is about. These say that constants have
their types, that the markers (`NoRow`, `None`, ...) are not data, that sets of
workers are finite where a bound counts them and sets of rows where something
adds them up (`Slots`, `Orders`, `Transfers`), and, in `Deletion`, that the rows
given are rows of the schema and their initial references lead somewhere. A
purchase order has at least one item, as its serializer asks (`min_length=1`).

| Module | Theorem | Statement |
|---|---|---|
| `StockServiceProofs` | `InvariantHolds`, `TypeCorrect`, `WritesLocked` | `IInv`, `TypeOK`, `WritesAreLocked` always |
| | `LedgerAgreement` | `Spec => []LedgerAgrees` |
| | `NonNegativeStock` | `Spec => []NeverNegative` |
| | `LowStockIsAlerted` | `Spec => []LowStockAlerted` |
| | `ReservationsWithinAvailable` | `Spec => ReserveWithinAvailable` (an action property) |
| | `QuantitiesConserved` | `Spec => []QuantityConserved` |
| | `WritesArePromised`, `EngineKeepsPromise` | `PromiseInv` always; `Spec => KeepsPromise` (the refinement of `StockLedger`) |
| `SalesOrdersProofs` | `SalesInvariant`, `SalesTypes` | `SInv`, `TypeOK` always |
| | `StockFollowsStatus`, `AmountsFollow` | `StockMatchesStatus`, `AmountsAgree` always |
| | `PaidAddsUp`, `BalanceAddsUp` | `PaidIsPayments`, `BalanceIsCredit` always |
| | `DeliveredStays` | `Spec => DeliveredIsFinal` (an action property) |
| `PurchaseOrdersProofs` | `RequestsInvariant`, `PurchaseTypes`, `StockIsAccounted` | `RequestsInv`, `TypeOK`, `StockAccounted` always |
| | `NeverOverReceived`, `StatusFollows` | `ReceivedWithinOrdered`, `StatusFollowsItems` always |
| | `GoodsAreStocked`, `StockRecorded`, `OrdersStayHome` | `ReceivedIsStocked`, `StockIsRecorded`, `OrdersAtHome` always |
| `StockTransfersProofs` | `TransfersInvariant`, `ReservedAreHeld`, `TransferTypes` | `TransfersInv`, `ReservedIsHeld`, `TypeOK` always |
| | `GoodsMovedOnce`, `ReservationsAddUp` | `ReceivedIsMoved`, `ReservationsMatch` always |
| `FinanceProofs` | `TillInvariant`, `VariancesExplained`, `OpensPerRequest` | `TInv`, `VarianceExplained`, `OpenSessionsBounded` always |
| | `ReportsInvariant`, `SummariesExplained`, `OverviewsRecent`, `ApprovalsHaveApprovers` | `RInv`, `SummaryExplained`, `OverviewIsRecent`, `ApprovedByApprover` always |
| `DeletionProofs` | `DeletionInvariant`, `RowsWellFormed`, `HistoryKeepsLevel` | `DInv`, `TypeOK`, `HistoryHasLevel` always |
| | `MovementsNeverChange` | `Spec => MovementsKept` (an action property) |
| `TenantProofs` | `TeamInvariant`, `TeamTyped`, `EarlierCancelled`, `MembersHaveAccepted` | `MInv`, `TeamTypeOK`, `LaterCancelsEarlier`, `AcceptedAreMembers` always |
| | `WarehousesInvariant`, `PlanOverrun`, `DefaultsPerRequest` | `WInv`, `WithinPlan`, `DefaultsBounded` always |
| | `NotificationsInvariant`, `NotificationsTyped`, `DoneTasksReachedAll`, `ClientsMissNone` | `NInv`, `NotifyTypeOK`, `DoneReachedAll`, `NoneMissed` always |

All follow one layout: facts about the operators, the initial state, one lemma
per action or kind of action, a step lemma that splits `Next`, and a temporal last
step. The properties are seldom inductive; what each needs besides:

* **`IInv`** (stock). `LedgerAgrees` is about committed state, while a commit appends
  movements computed earlier from a row read earlier. Nothing can have changed in
  between, because whoever has an uncommitted row holds its lock (`WritesAreLocked`),
  past the SELECT a worker holds the row of its item (`ItemInHand`), its uncommitted
  movements run from the committed quantity to its draft (`PendingAgrees`), and a key
  with a variant has rows in one place (`OnePlace`, the unique index). Relative to it:
  `AllowedBeforeNegative` (a setting that is on, or cached as on, has been on at some
  time, and so for every row negative in some view), `AlertedBeforeCommit` (each
  movement has its own alert, or the broker's refusal, before it is committed), and
  `ReservesChecked` (a reservation is the only write of its call and was checked
  against the locked row). For `QuantityConserved`, `WritesAreMoved` says the same of
  the uncommitted rows: a transaction's drafts of a key differ from the committed rows
  by the movements it has not committed yet, whichever of several duplicate rows they
  went to.
* **`PromiseInv`** (the refinement). `StockLedger` changes in one step, which has to be
  the commit, while the engine has written item by item before it. So `PostsBatch`
  says that the movements and rows a transaction has written are those that
  `StockLedger` computes for the part of the batch it is done with (`Batch`), and that
  every item of that part passed `Fits`: one item more appends the movement of the
  batch's next item (`PostsNext`), a commit of somebody else changes only keys the
  transaction has no movement of (`PostsFrame`), and at the commit the part is the
  whole. `KeepsReserved` says the same of what is reserved and that a row is never
  published without a movement, `HoldsRow` that a reservation or release writes one
  row that is there. Then (`StepKeeps`) a commit maps to `Post`, `Reserve` or
  `Release`, or to no step when it holds a row of a product without variants, a
  change of the setting to `AllowNegative` or no step, and all else to no step.
* **`SInv`** (sales): a copy that nobody has overwritten is the row (`CopiesHold`),
  copies satisfy `Agrees` too, stale or not, and only clients give an order the
  statuses that no handler sets (`StatusesHold`).
  `TypeOK` and the two sums follow by their own induction relative to it: a batch
  changes a quantity by a finite sum of integers; a payment by a request with a
  fresh copy adds its amount both to the row and to the payments. A balance that a
  request has read was on credit then and still is (`CreditRead`), so whatever it
  writes back is not too much.
* **`RequestsInv`** (purchases): a request alone on an order has its copy and its
  reading as they are in the rows and will save the status they imply
  (`FreshCopies`, `ServedAlone`); one that is not alone has quantities within the
  order all the same (`RequestsHold`), which gives `ReceivedWithinOrdered` with no
  condition. `ReceivedIsStocked` is not inductive beside it: two receipts computed
  from one reading both post, so the stock runs ahead of the items, and what one
  item was posted is in no variable. `StockAccounted` says that *some* assignment
  of posted quantities to item rows adds up to the change of the stock, product by
  product, key by key for the rows of orders never moved (`HomeOf`), and covers
  what every row and every reading records; each step gives the next assignment.
  `OrdersAtHome` says that such an order is for its first warehouse in the row and in
  every copy, so that a receipt goes there.
* **`TransfersInv`, `ReservedIsHeld`** (transfers): no step of the loops is atomic with
  another, so the invariant says where in its loop a request is: the items
  whose first call it has made (`Called`), those it is done with (`Finished`), and
  that a request alone on a transfer has it as it is (`FreshCopies`). `MovedOnce`
  then gives, item by item, the movement that is there; `Holds` the rows that hold
  their quantity in the middle of a request, and `ReservedIsHeld` that these add up
  to what is reserved, so that a release never meets its floor of zero.
* **`TInv`** (till): what an open holds until it commits (`OpensHold`), what copies and
  sums of closes are worth while nothing has come in since (`CopiesHold`). For the
  bound, `OpenedOnce`: *some* assignment of workers to sessions says who opened each,
  such that no worker has two of a cashier open (`LeftOpenBy`). An open that waits
  does not see what others insert, but whatever its own worker opened before was
  committed when its UPDATE began, so it is among the rows it has found or closed.
* **`DInv`** (deletion): no request changes the references of levels and movements
  (`StockRowsFixed`), and the collector comes to a level only by way of the product,
  variant or warehouse it refers to (`DoomedHasCause`); a movement of the key then
  refers to the same row, and PROTECT or the database refuses.
* **`MInv`** (team): what an uncommitted call will cancel covers all that were there
  when it began and were not accepted (`CancelsHold`), and a row is committed by its
  own call only (`CommitsHold`); that its role exists is claimed of committed
  invitations only.
* **`WInv`** (warehouses): counted against the limit are the rows and those requests
  in flight may add (`Planned`); counted against the defaults, the requests that
  have cleared the flag and have yet to set it (`Setting`).
* **`NInv`** (notifications): whom a run has read it has notified or is still to
  (`ReachesHold`), and a task holds a row exactly between its INSERT and its push
  (`PushesHold`).
* **`RInv`** (reports): what a build of an untouched day has read is still so
  (`BuildsHold`), an approved copy has an approver, and the age of the overview in
  flight is bounded (`OverviewsHold`).

TLC has checked each of these invariants on the instance of the module's run;
`IInv` and `DInv` are part of their runs.

Sums (`SumLemmas`). The sums of the community modules are defined by recursion
over a set, and the library's induction theorems cannot be instantiated here.
Induction over a finite set is proved in the form the provers can use, about a set
of subsets: if it has every subset all of whose smaller subsets it has, it has them
all (`SubsetInduction`). From it follow the facts that the proofs cite: a sum
does not depend on the order of its terms, one term can be taken out, added or
changed, equal terms give equal sums, non-negative terms a non-negative one, and a
sum over pairs or a concatenation falls into parts.

A batch of the promise is summed and ordered as a whole, the engine goes item by
item. The last section of `SumLemmas` is about ordering the members of a finite set
of numbers by rank (`RankInjective`, `AllRanked`): a greatest member added is the
last and leaves the ranks of the others alone (`RankAdd`), which is why
`NewMovements` of a batch with one item more is the old one with one appended
(`MovementsNext`).

Only model-checked: liveness (`CallsEnd`, `MailSettles`, `TasksSettle`), out of the
prover's reach as `ENABLED` is. Every invariant, every action property and the
refinement that the runs check are also proved.

## 6. Where code and documentation disagree

One disagreement has a run of its own: `sales_soldonce` shows that two confirms
of one draft both deduct its stock, while `sales_service.py:67` says
"Transitions: DRAFT → CONFIRMED".

Others appear when the condition of a property is dropped:

* `PaidIsPayments` without `overlapped`: of two payments computed from one fetched
  order, one is missing from `amount_paid`;
* `StockMatchesStatus` without `overlapped`: a cancel that fetched the draft before
  it was confirmed leaves the stock deducted ("Reverses stock if already
  confirmed", `sales_service.py:136`);
* `StockMatchesStatus` without `moved`: a confirmed order sent to another warehouse
  with PATCH is restocked there when it is cancelled;
* `BalanceIsCredit` without `lost`: of two payments on credit whose requests read one
  balance, one is missing from it, and so is a payment that comes between the two
  halves of a PATCH of the customer; without `blurred`: a deleted order leaves its
  credit in the balance;
* `ReservationsMatch` without `disturbed`: PATCH of `from_warehouse` of a transfer in
  transit makes receive and cancel release what another warehouse has reserved;
* `ReceivedIsMoved` without `disturbed`: a `receive` sent twice, or repeated after a
  failure half way, moves the goods twice; a cancel that overlaps the receive
  leaves a cancelled transfer whose goods have moved;
* `StockIsRecorded` without `disturbed`: of two receipts computed from one reading
  both reach the stock and one is recorded; key by key, without `moved`: the receipts of
  an order whose warehouse is changed are in several. `ReceivedWithinOrdered` and
  `ReceivedIsStocked` hold without any condition;
* `StatusFollowsItems` without `disturbed`: an order cancelled after it was received,
  or partial with all its items received;
* `VarianceExplained` without `late` or `edited`: cash taken after the sum was read
  is missing from `expected_cash` for ever; PATCH of a session writes a stale status
  back and may reopen a closed till;
* `WithinPlan`, `DefaultsBounded`, `OpenSessionsBounded` with the bound set to what the
  comments say ("within plan limits", "only one default per tenant", "close any
  stale open session"): each is missed when requests overlap;
* `LaterCancelsEarlier` for invitations that overlap: both stay pending;
* `SummaryExplained` without `touched`: nothing rebuilds a summary of a past day.

Found while reading, with no property of their own:

* stock: `unique_together` on (tenant, product, variant, warehouse) does not bind rows
  whose variant is NULL: two first movements insert two rows, and every later
  adjustment raises `MultipleObjectsReturned` (the model's `GetMultiple`). A sale is
  compared with the quantity on hand and may take reserved stock, though a reservation
  "prevents overselling" (`stock_service.py:257`);
* transfers and purchases: `confirm` of a transfer only reserves, its docstring says
  "deduct stock" (`inventory/views.py:312`); `receive` of a purchase order never looks
  at `requires_approval`; a receipt in which no item counts still makes the order
  "Partially Received";
* endpoints that cannot work: POST of an order (`sales/serializers.py:119` imports
  `apps.customers`, which does not exist), POST of a transfer (writable nested list),
  POST of a POS session (no tenant);
* POS: sessions closed by an open have no `expected_cash`; `record_payment` ignores
  the session's status; PATCH of an order may move it to any session;
* finance and analytics: PATCH of an expense's amount leaves `total_amount` as it
  was; `order_date` is a local day and the report's day is UTC; the "cache is busted
  nightly" comment (`dashboard_service.py:4`) has no code behind it;
* accounts: the invitation email is queued before the commit; a member who was
  removed and accepts again stays inactive; `accept_invitation` is called by no view;
  the access token of login is of refresh type and the refresh token lacks the
  permissions;
* limits and alerts: `max_users` and `max_monthly_orders` are never enforced, bulk
  upload skips the plan check; `send_reorder_alert` says it emails managers and does
  not; `check_expiring_batches` and `send_low_stock_email` are scheduled and called
  nowhere; `InventraException` is no `APIException`.

## 7. What is not modelled

* **Pricing and costing.** `recalculate_totals`, line totals and the running average
  cost are decimal arithmetic of one request over values it has just read; no
  decision of the code depends on the average. Totals enter as constants.
* **Login, permissions, pagination, error formatting**: library behaviour or pure
  functions with no state of their own.
* **Tenant context**: a thread-local set and cleared by each request, in workers
  that serve one request at a time; nothing interleaves with it.
* **Audit log**: one insert after a response, whose failure is logged and ignored.
* **Plain CRUD** of suppliers, customers, units, tax rates, categories and branches,
  beyond what deletion and editing do to references, and what editing a customer does
  to the balance; product bulk upload.
* **Registration** is one transaction of inserts; its result is the initial state of
  `Team` and `Warehouses`.
* In the stock engine: batch numbers, expiry and the reference fields of movements.
* Order numbers: two orders may draw the same random number; the unique constraint
  refuses the second and the client sees an error.
* Response bodies. `purchases/views.py:289` may serialise items prefetched before the
  receipt; nothing stored depends on it.
* The other dashboard endpoints and reports: they only read, uncached.
* Stale copies of modules: nothing imports them. In the migrations only the foreign
  keys are modelled.
* PostgreSQL, Redis, Celery, Channels and Django's collector are modelled from how
  the code uses them and marked external where they have a definition of their own.

Hazards that no property covers are listed in `PROJECT.json` with the reason: sales
that take reserved stock and receipts without approval are what the code does, and
the average cost is not modelled.

## Running it

    tlc -workers 2 -config StockService_transactions.cfg MCStockService.tla
    tlapm StockServiceProofs.tla

`PROJECT.json` lists every run with its module and configuration, the source lines
of every definition, the hazards with the properties that cover them, and the
theorems. The longest runs take three to four minutes with two workers.
