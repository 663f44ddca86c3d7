---------------------------- MODULE StockService ----------------------------
(***************************************************************************)
(* apps/inventory/services/stock_service.py, run by several gunicorn       *)
(* workers against one PostgreSQL database at READ COMMITTED.              *)
(*                                                                         *)
(* Every method of StockService is one transaction.  Its statements are    *)
(* separate actions: SELECT ... FOR UPDATE, the INSERT of get_or_create,   *)
(* the update of the row with the insert of its movement, COMMIT.  What a  *)
(* transaction has written is private (draft, pending) until it commits;   *)
(* row locks are kept until then.                                          *)
(***************************************************************************)
EXTENDS Integers, Sequences, FiniteSetsExt

CONSTANTS
  Workers,          \* the requests in flight at one time
  Keys,             \* (product, variant, warehouse) triples of one tenant
  NullVariantKeys,  \* those with variant NULL: the unique index skips them
  Slots,            \* places for the rows of one key, in primary-key order
  Requests,         \* the calls the views make, built with the operators below
  Loads,            \* sets of Requests: the calls one behaviour is made of
  ReorderPoint,     \* [Keys -> Int], product.reorder_point
  Tracked,          \* the keys whose product has track_inventory set
  MaxLedger,        \* bound: no new call once a ledger has this many movements
  NoRow,            \* no StockLevel row
  NoWorker          \* lock not held

VARIABLES
  level,            \* [Rows -> StockLevel or NoRow], committed
  ledger,           \* [Keys -> Seq(StockMovement)], committed
  alerts,           \* movements, <<key, n>>, send_reorder_alert was queued for
  unqueued,         \* history: movements for which the broker refused it
  allowNegative,    \* TenantSettings.allow_negative_stock
  everAllowed,      \* history: it has been TRUE at some time
  load,             \* the element of Loads the clients draw from
  lock,             \* [Rows -> Workers or NoWorker]
  pc,               \* [Workers -> the statement the worker executes next]
  req,              \* [Workers -> the call it is serving]
  next,             \* [Workers -> index of the item it is at]
  held,             \* [Workers -> the row of that item, once selected]
  draft,            \* [Workers -> [Rows -> StockLevel or NoRow]], uncommitted
  pending,          \* [Workers -> [Keys -> Seq(StockMovement)]], uncommitted
  settings          \* [Workers -> cached tenant.settings.allow_negative_stock]

shared == <<level, ledger, alerts, unqueued, allowNegative, everAllowed, load>>
local  == <<pc, req, next, held, draft, pending, settings>>
vars   == <<shared, lock, local>>

-----------------------------------------------------------------------------
(* The calls.  An item is a key and a signed quantity.                     *)

Call(op, items) == [op |-> op, items |-> items]

adjust_stock(k, delta) == Call("adjust", <<[key |-> k, qty |-> delta]>>)

transfer_stock(from, to, quantity) ==
  Call("transfer", <<[key |-> from, qty |-> -quantity],
                     [key |-> to,   qty |-> quantity]>>)

process_purchase_receipt(items) == Call("receipt", items)

process_sale(items) ==
  Call("sale", [i \in 1..Len(items) |-> [items[i] EXCEPT !.qty = -@]])

reserve_stock(k, quantity) == Call("reserve", <<[key |-> k, qty |-> quantity]>>)

release_reservation(k, quantity) ==
  Call("release", <<[key |-> k, qty |-> quantity]>>)

\* transfer_stock raises before its first statement.
Accepted(r) ==
  r.op = "transfer" => /\ r.items[2].qty > 0
                       /\ r.items[1].key # r.items[2].key

NoCall == Call("none", <<>>)

Ops      == {"adjust", "transfer", "receipt", "sale", "reserve", "release"}
Posting  == Ops \ {"reserve", "release"}
Item     == [key : Keys, qty : Int]
Rows     == Keys \X Slots
Level    == [quantity : Int, reserved : Nat]
Movement == [before : Int, delta : Int, after : Int]

FirstSlot == CHOOSE s \in Slots : \A t \in Slots : s <= t

ASSUME KeysAssumption  == NullVariantKeys \subseteq Keys /\ Tracked \subseteq Keys
ASSUME SlotsAssumption == Slots \subseteq Nat /\ FirstSlot \in Slots /\ IsFiniteSet(Slots)
ASSUME ReorderAssumption == ReorderPoint \in [Keys -> Int] /\ MaxLedger \in Nat
ASSUME NoRowAssumption == NoRow \notin Level /\ NoWorker \notin Workers
ASSUME RequestsAssumption ==
  \A r \in Requests :
    /\ r = [op |-> r.op, items |-> r.items]
    /\ r.op \in Ops
    /\ r.items \in Seq(Item) /\ r.items # <<>>
    /\ r.op \in {"reserve", "release"} => Len(r.items) = 1 /\ r.items[1].qty > 0

-----------------------------------------------------------------------------
(* What one transaction sees.                                              *)

UniqueKeys == Keys \ NullVariantKeys

NoDraft   == [r \in Rows |-> NoRow]
NoPending == [k \in Keys |-> <<>>]

\* A statement sees the committed rows and the writes of its own transaction.
View(w, r) == IF draft[w][r] # NoRow THEN draft[w][r] ELSE level[r]

Visible(w, k) == {r \in Rows : r[1] = k /\ View(w, r) # NoRow}

\* .first() on a model without ordering takes the smallest primary key.
First(rows) == {r \in rows : \A q \in rows : r[2] <= q[2]}

item(w) == req[w].items[next[w]]

\* The rows the SELECT ... FOR UPDATE of the current item locks: get() has
\* all those it finds, .first() one.
Selected(w) ==
  LET rows == Visible(w, item(w).key)
  IN  IF req[w].op \in Posting THEN rows ELSE First(rows)

Free(w, r) == lock[r] \in {w, NoWorker}

\* The unique index has one entry for a key with a variant.  It plays no part
\* when the variant is NULL; the new row's UUID may sort anywhere.
InsertSlots(k) ==
  IF k \in NullVariantKeys THEN {<<k, s>> : s \in Slots} ELSE {<<k, FirstSlot>>}

\* Mutant: a tenant whose settings have not been read yet may go negative.
NegativeUntilRead(w) == settings[w] # "no"

\* _tenant_allows_negative: tenant.settings is read once and then cached on
\* the request's tenant object.
_tenant_allows_negative(w) ==
  IF settings[w] = "unread" THEN allowNegative ELSE settings[w] = "yes"

\* Mutant: reserved stock counts as available.
AvailableIgnoresReserved(sl) == Max({sl.quantity, 0})

available_quantity(sl) == Max({sl.quantity - sl.reserved, 0})

-----------------------------------------------------------------------------
Init ==
  /\ level = NoDraft
  /\ ledger = NoPending
  /\ alerts = {}
  /\ unqueued = {}
  /\ allowNegative \in BOOLEAN
  /\ everAllowed = allowNegative
  /\ load \in Loads
  /\ lock = [r \in Rows |-> NoWorker]
  /\ pc = [w \in Workers |-> "idle"]
  /\ req = [w \in Workers |-> NoCall]
  /\ next = [w \in Workers |-> 1]
  /\ held = [w \in Workers |-> NoRow]
  /\ draft = [w \in Workers |-> NoDraft]
  /\ pending = [w \in Workers |-> NoPending]
  /\ settings = [w \in Workers |-> "unread"]

\* A view calls one of the methods: BEGIN.  The call belongs to a new HTTP
\* request or to the one w is serving (bulk_adjust, a transfer's items), whose
\* tenant object has its settings cached.
Begin(w, r) ==
  /\ pc[w] = "idle"
  /\ Accepted(r)
  /\ r.op \in Posting => \A k \in Keys : Len(ledger[k]) < MaxLedger
  /\ pc' = [pc EXCEPT ![w] = "get"]
  /\ req' = [req EXCEPT ![w] = r]
  /\ settings' \in {settings, [settings EXCEPT ![w] = "unread"]}
  /\ UNCHANGED <<shared, lock, next, held, draft, pending>>

\* The transaction of w is over, whatever became of it.
EndTransaction(w) ==
  /\ lock' = [r \in Rows |-> IF lock[r] = w THEN NoWorker ELSE lock[r]]
  /\ pc' = [pc EXCEPT ![w] = "idle"]
  /\ req' = [req EXCEPT ![w] = NoCall]
  /\ next' = [next EXCEPT ![w] = 1]
  /\ held' = [held EXCEPT ![w] = NoRow]
  /\ draft' = [draft EXCEPT ![w] = NoDraft]
  /\ pending' = [pending EXCEPT ![w] = NoPending]
  /\ UNCHANGED settings

\* An exception leaves the atomic block.  Queued tasks stay queued.
Rollback(w) == EndTransaction(w) /\ UNCHANGED shared

\* adjust_stock refuses a zero delta before it reads anything.
ZeroDelta(w) ==
  /\ pc[w] = "get"
  /\ req[w].op \in Posting
  /\ item(w).qty = 0
  /\ Rollback(w)

Selecting(w) ==
  /\ pc[w] = "get"
  /\ req[w].op \in Posting => item(w).qty # 0

\* Mutant: no select_for_update.
GetRowUnlocked(w) ==
  /\ Selecting(w)
  /\ \E r \in Rows : Selected(w) = {r} /\ held' = [held EXCEPT ![w] = r]
  /\ pc' = [pc EXCEPT ![w] = "apply"]
  /\ UNCHANGED <<shared, lock, req, next, draft, pending, settings>>

\* The SELECT returns the one row, locked.
GetRow(w) ==
  /\ Selecting(w)
  /\ \E r \in Rows :
       /\ Selected(w) = {r}
       /\ Free(w, r)
       /\ held' = [held EXCEPT ![w] = r]
       /\ lock' = [lock EXCEPT ![r] = w]
  /\ pc' = [pc EXCEPT ![w] = "apply"]
  /\ UNCHANGED <<shared, req, next, draft, pending, settings>>

\* get() has locked several rows: MultipleObjectsReturned.
GetMultiple(w) ==
  /\ Selecting(w)
  /\ \E r, q \in Selected(w) : r # q
  /\ \A r \in Selected(w) : Free(w, r)
  /\ Rollback(w)

\* No row: get_or_create goes on to insert one.
GetMissing(w) ==
  /\ Selecting(w)
  /\ Selected(w) = {}
  /\ req[w].op \in Posting
  /\ pc' = [pc EXCEPT ![w] = "insert"]
  /\ UNCHANGED <<shared, lock, req, next, held, draft, pending, settings>>

\* No row: reserve_stock raises, release_reservation has nothing to do.
NothingToHold(w) ==
  /\ Selecting(w)
  /\ Selected(w) = {}
  /\ req[w].op \notin Posting
  /\ Rollback(w)

\* get_or_create's INSERT.  It waits while another transaction has an
\* uncommitted row under the same unique entry.
Insert(w) ==
  /\ pc[w] = "insert"
  /\ \E r \in InsertSlots(item(w).key) :
       /\ level[r] = NoRow
       /\ lock[r] = NoWorker
       /\ held' = [held EXCEPT ![w] = r]
       /\ lock' = [lock EXCEPT ![r] = w]
       /\ draft' = [draft EXCEPT ![w][r] = [quantity |-> 0, reserved |-> 0]]
  /\ pc' = [pc EXCEPT ![w] = "apply"]
  /\ UNCHANGED <<shared, req, next, pending, settings>>

\* The unique index refuses the row another transaction has committed since
\* the SELECT: get_or_create catches the IntegrityError and gets again.
InsertConflict(w) ==
  /\ pc[w] = "insert"
  /\ item(w).key \in UniqueKeys
  /\ level[<<item(w).key, FirstSlot>>] # NoRow
  /\ pc' = [pc EXCEPT ![w] = "get"]
  /\ UNCHANGED <<shared, lock, req, next, held, draft, pending, settings>>

\* The row w works on, as it read it, and what its item makes of it.
Current(w) == View(w, held[w])
After(w)   == Current(w).quantity + item(w).qty

Advance(w) ==
  /\ held' = [held EXCEPT ![w] = NoRow]
  /\ IF next[w] < Len(req[w].items)
       THEN /\ next' = [next EXCEPT ![w] = @ + 1]
            /\ pc' = [pc EXCEPT ![w] = "get"]
       ELSE /\ next' = next
            /\ pc' = [pc EXCEPT ![w] = "commit"]

\* Mutant: strictly below the reorder point.
NeedsReorderBelow(k, quantity) == quantity < ReorderPoint[k] /\ k \in Tracked

NeedsReorder(k, quantity) == quantity <= ReorderPoint[k] /\ k \in Tracked

\* The movement w is about to write, by its place in the ledger of its key.
NewMovement(w) ==
  <<item(w).key, Len(ledger[item(w).key]) + Len(pending[w][item(w).key]) + 1>>

\* Whatever .delay raises is logged and ignored: the movement goes on to its
\* commit without an alert.
_trigger_reorder_alert(w) ==
  \/ alerts' = alerts \union {NewMovement(w)} /\ UNCHANGED unqueued
  \/ unqueued' = unqueued \union {NewMovement(w)} /\ UNCHANGED alerts

\* Mutant: quantity_before is read after the row has been changed.
AdjustRowReadsLate(w) ==
  /\ pc[w] = "apply"
  /\ req[w].op \in Posting
  /\ After(w) < 0 => _tenant_allows_negative(w)
  /\ draft' = [draft EXCEPT ![w][held[w]] = [Current(w) EXCEPT !.quantity = After(w)]]
  /\ pending' = [pending EXCEPT ![w][item(w).key] =
       Append(@, [before |-> After(w), delta |-> item(w).qty, after |-> After(w)])]
  /\ Advance(w)
  /\ UNCHANGED <<shared, lock, req, settings>>

\* The rest of adjust_stock: the row, its movement and the reorder task.
AdjustRow(w) ==
  /\ pc[w] = "apply"
  /\ req[w].op \in Posting
  /\ After(w) < 0 => _tenant_allows_negative(w)
  /\ draft' = [draft EXCEPT ![w][held[w]] = [Current(w) EXCEPT !.quantity = After(w)]]
  /\ pending' = [pending EXCEPT ![w][item(w).key] =
       Append(@, [before |-> Current(w).quantity,
                  delta  |-> item(w).qty,
                  after  |-> After(w)])]
  /\ IF NeedsReorder(item(w).key, After(w))
       THEN _trigger_reorder_alert(w)
       ELSE UNCHANGED <<alerts, unqueued>>
  /\ settings' = [settings EXCEPT ![w] =
       IF _tenant_allows_negative(w) THEN "yes" ELSE "no"]
  /\ Advance(w)
  /\ UNCHANGED <<level, ledger, allowNegative, everAllowed, load, lock, req>>

\* Mutant: the items before the one that fails are kept.
AdjustInsufficientKeeps(w) ==
  /\ pc[w] = "apply"
  /\ req[w].op \in Posting
  /\ After(w) < 0
  /\ ~_tenant_allows_negative(w)
  /\ level' = [r \in Rows |-> View(w, r)]
  /\ ledger' = [k \in Keys |-> ledger[k] \o pending[w][k]]
  /\ EndTransaction(w)
  /\ UNCHANGED <<alerts, unqueued, allowNegative, everAllowed, load>>

\* InsufficientStockException.
AdjustInsufficient(w) ==
  /\ pc[w] = "apply"
  /\ req[w].op \in Posting
  /\ After(w) < 0
  /\ ~_tenant_allows_negative(w)
  /\ Rollback(w)

SetReserved(w, n) ==
  draft' = [draft EXCEPT ![w][held[w]] = [Current(w) EXCEPT !.reserved = n]]

ReserveRow(w) ==
  /\ pc[w] = "apply"
  /\ req[w].op = "reserve"
  /\ available_quantity(Current(w)) >= item(w).qty
  /\ SetReserved(w, Current(w).reserved + item(w).qty)
  /\ Advance(w)
  /\ UNCHANGED <<shared, lock, req, pending, settings>>

ReserveInsufficient(w) ==
  /\ pc[w] = "apply"
  /\ req[w].op = "reserve"
  /\ available_quantity(Current(w)) < item(w).qty
  /\ Rollback(w)

ReleaseRow(w) ==
  /\ pc[w] = "apply"
  /\ req[w].op = "release"
  /\ SetReserved(w, Max({Current(w).reserved - item(w).qty, 0}))
  /\ Advance(w)
  /\ UNCHANGED <<shared, lock, req, pending, settings>>

Commit(w) ==
  /\ pc[w] = "commit"
  /\ level' = [r \in Rows |-> View(w, r)]
  /\ ledger' = [k \in Keys |-> ledger[k] \o pending[w][k]]
  /\ EndTransaction(w)
  /\ UNCHANGED <<alerts, unqueued, allowNegative, everAllowed, load>>

\* The worker process is killed, or its connection lost: the database rolls
\* the transaction back.
Crash(w) ==
  /\ pc[w] # "idle"
  /\ Rollback(w)

-----------------------------------------------------------------------------
(* Waiting.                                                                *)

\* The workers who hold a row that the SELECT of w is to lock.
WaitsForRow(w) == {v \in Workers \ {w} : \E r \in Selected(w) : lock[r] = v}

\* Mutant: the detector sees only who waits for a unique entry.
\* The workers whose uncommitted row stands in the way of the INSERT of w.
WaitsForEntry(w) ==
  {v \in Workers \ {w} :
     /\ pc[w] = "insert"
     /\ \A r \in InsertSlots(item(w).key) : level[r] = NoRow /\ lock[r] # NoWorker
     /\ \E r \in InsertSlots(item(w).key) : lock[r] = v}

\* The workers whose transaction must end before the statement of w can run.
WaitsFor(w) == IF Selecting(w) THEN WaitsForRow(w) ELSE WaitsForEntry(w)

\* PostgreSQL's detector finds w on a cycle of waiting transactions.
Deadlocked(w) ==
  \E S \in SUBSET Workers :
    /\ w \in S
    /\ \A v \in S : \E u \in S : u \in WaitsFor(v)
    /\ \A u \in S : \E v \in S : u \in WaitsFor(v)

DeadlockAbort(w) ==
  /\ pc[w] # "idle"
  /\ Deadlocked(w)
  /\ Rollback(w)

\* PATCH of the tenant's settings.
UpdateSettings ==
  /\ allowNegative' = ~allowNegative
  /\ everAllowed' = (everAllowed \/ ~allowNegative)
  /\ UNCHANGED <<level, ledger, alerts, unqueued, load, lock, local>>

Select(w) == GetRow(w) \/ GetMultiple(w) \/ GetMissing(w) \/ NothingToHold(w)
Apply(w)  == \/ AdjustRow(w) \/ AdjustInsufficient(w)
             \/ ReserveRow(w) \/ ReserveInsufficient(w) \/ ReleaseRow(w)

\* A step of the statements of w that needs no one else's transaction to end.
Run(w) == ZeroDelta(w) \/ InsertConflict(w) \/ Apply(w) \/ Commit(w) \/ DeadlockAbort(w)

Next ==
  \/ \E w \in Workers :
       \/ \E r \in Requests \intersect load : Begin(w, r)
       \/ Select(w)
       \/ Insert(w)
       \/ Run(w)
       \/ Crash(w)
  \/ UpdateSettings

Spec == Init /\ [][Next]_vars

(* A worker goes on with its request, and PostgreSQL serves the queue of a *)
(* row lock in order, so a statement that keeps becoming possible is run.  *)
Fairness ==
  \A w \in Workers : WF_vars(Run(w)) /\ SF_vars(Select(w)) /\ SF_vars(Insert(w))

FairSpec == Spec /\ Fairness

-----------------------------------------------------------------------------
(* Properties.                                                             *)

Calls == Requests \union {NoCall}

\* Every variable has its type; the row an item works on exists in its view.
TypeOK ==
  /\ level \in [Rows -> Level \union {NoRow}]
  /\ ledger \in [Keys -> Seq(Movement)]
  /\ alerts \subseteq Keys \X Nat
  /\ unqueued \subseteq Keys \X Nat
  /\ allowNegative \in BOOLEAN /\ everAllowed \in BOOLEAN
  /\ lock \in [Rows -> Workers \union {NoWorker}]
  /\ pc \in [Workers -> {"idle", "get", "insert", "apply", "commit"}]
  /\ req \in [Workers -> Calls]
  /\ next \in [Workers -> Nat]
  /\ held \in [Workers -> Rows \union {NoRow}]
  /\ draft \in [Workers -> [Rows -> Level \union {NoRow}]]
  /\ pending \in [Workers -> [Keys -> Seq(Movement)]]
  /\ settings \in [Workers -> {"unread", "yes", "no"}]

\* What is uncommitted is locked: no two transactions write one row.
WritesAreLocked ==
  \A w \in Workers, r \in Rows : draft[w][r] # NoRow => lock[r] = w

Continues(movements, start) ==
  \A n \in 1..Len(movements) :
    /\ movements[n].before = IF n = 1 THEN start ELSE movements[n - 1].after
    /\ movements[n].after = movements[n].before + movements[n].delta

EndsAt(movements, start) ==
  IF movements = <<>> THEN start ELSE movements[Len(movements)].after

Quantity(r) == IF level[r] = NoRow THEN 0 ELSE level[r].quantity

\* For a key the unique index protects, the ledger is one unbroken chain from
\* zero and StockLevel.quantity is where it ends, whatever transactions
\* interleave, fail or crash (stock_service.py:7, models.py:13-14).
LedgerAgrees ==
  \A k \in UniqueKeys :
    /\ Continues(ledger[k], 0)
    /\ Quantity(<<k, FirstSlot>>) = EndsAt(ledger[k], 0)

Moved(movements) == SumFunction([n \in 1..Len(movements) |-> movements[n].delta])

\* For every key, duplicate rows included, no quantity is lost or invented: the
\* rows of a key add up to the movements of that key.
QuantityConserved ==
  \A k \in Keys : SumFunction([s \in Slots |-> Quantity(<<k, s>>)]) = Moved(ledger[k])

\* No row and no movement goes below zero for a tenant that has never allowed
\* negative stock (stock_service.py:9).
NeverNegative ==
  (\E r \in Rows : Quantity(r) < 0) => everAllowed

\* The given movements of k, which follow its n-th: each that leaves it at or
\* below its reorder point has had an alert queued, or the broker refused it.
Alerted(k, movements, n) ==
  \A m \in 1..Len(movements) :
    movements[m].after <= ReorderPoint[k] => <<k, n + m>> \in alerts \union unqueued

\* Every committed movement that left a tracked product at or below its reorder
\* point has had an alert of its own queued, although tasks are queued before
\* the commit and for transactions that roll back.  Only a broker that refuses
\* the task leaves it without (stock_service.py:122-124, :312-319).
LowStockAlerted == \A k \in Tracked \intersect UniqueKeys : Alerted(k, ledger[k], 0)

\* A commit that reserves more leaves no more reserved than there is, however
\* many reservations of the same row compete (stock_service.py:265).
ReserveWithinAvailable ==
  [][\A r \in Rows :
       level[r] # NoRow /\ level'[r].reserved > level[r].reserved
         => level'[r].reserved <= level'[r].quantity]_vars

\* Every call ends: no transaction waits for ever, not even on one that waits
\* for it.
CallsEnd == \A w \in Workers : pc[w] # "idle" ~> pc[w] = "idle"

-----------------------------------------------------------------------------
(* The inductive invariant behind LedgerAgrees.                            *)

RowOf(k) == <<k, FirstSlot>>

\* Between calls a worker has written nothing.
IdleIsClean ==
  \A w \in Workers : pc[w] = "idle" =>
    next[w] = 1 /\ draft[w] = NoDraft /\ pending[w] = NoPending

\* In a call a worker is at one of its items; once it is past the SELECT it
\* holds a locked row of the item's key, and it inserts and posts only for a
\* call that adjusts stock.
ItemInHand ==
  \A w \in Workers :
    /\ pc[w] # "idle" => req[w] \in Requests
    /\ pc[w] \in {"get", "insert", "apply"} => next[w] \in 1..Len(req[w].items)
    /\ pc[w] = "apply" =>
         /\ held[w] \in Rows
         /\ held[w][1] = item(w).key
         /\ lock[held[w]] = w
         /\ Current(w) # NoRow

\* A key the unique index protects has no row outside its one place.
OnePlace ==
  \A k \in UniqueKeys, s \in Slots : s # FirstSlot =>
    /\ level[<<k, s>>] = NoRow
    /\ \A w \in Workers : draft[w][<<k, s>>] = NoRow

\* The uncommitted movements of a transaction continue the committed ledger up
\* to its view of the row, and only the holder of the lock has any.
PendingAgrees ==
  \A w \in Workers, k \in UniqueKeys :
    /\ pending[w][k] # <<>> => draft[w][RowOf(k)] # NoRow
    /\ lock[RowOf(k)] = w => Continues(pending[w][k], Quantity(RowOf(k)))
    /\ draft[w][RowOf(k)] # NoRow =>
         draft[w][RowOf(k)].quantity = EndsAt(pending[w][k], Quantity(RowOf(k)))

IInv ==
  /\ TypeOK
  /\ IdleIsClean
  /\ ItemInHand
  /\ WritesAreLocked
  /\ OnePlace
  /\ PendingAgrees
  /\ LedgerAgrees

\* Behind NeverNegative: whoever may go negative knows it from the setting, and
\* whatever is negative, committed or not, was written by one who might.
AllowedBeforeNegative ==
  /\ allowNegative => everAllowed
  /\ \A w \in Workers : settings[w] = "yes" => everAllowed
  /\ \A w \in Workers, r \in Rows :
       View(w, r) # NoRow /\ View(w, r).quantity < 0 => everAllowed
  /\ NeverNegative

\* Behind LowStockAlerted: the alert is queued with the movement, which will
\* take the place it was queued for: the lock keeps other movements out.
AlertedBeforeCommit ==
  /\ LowStockAlerted
  /\ \A w \in Workers, k \in Tracked \intersect UniqueKeys :
       Alerted(k, pending[w][k], Len(ledger[k]))

\* Behind ReserveWithinAvailable: a reservation is the only write of its call,
\* checked against the locked row, and nothing else raises what is reserved.
ReservesChecked ==
  \A w \in Workers :
    /\ pc[w] \in {"get", "apply"} /\ req[w].op \notin Posting => draft[w] = NoDraft
    /\ pc[w] = "insert" => req[w].op \in Posting
    /\ \A r \in Rows : draft[w][r] # NoRow /\ level[r] # NoRow =>
         \/ draft[w][r].reserved <= level[r].reserved
         \/ pc[w] = "commit" /\ draft[w][r].reserved <= draft[w][r].quantity

\* Behind QuantityConserved: what a transaction has written and not committed
\* differs from the committed rows of a key by its movements of that key.
Ahead(w, r) == IF draft[w][r] = NoRow THEN 0 ELSE draft[w][r].quantity - Quantity(r)

WritesAreMoved ==
  /\ QuantityConserved
  /\ \A w \in Workers, k \in Keys :
       SumFunction([s \in Slots |-> Ahead(w, <<k, s>>)]) = Moved(pending[w][k])

-----------------------------------------------------------------------------
(* The engine keeps the promise of StockLedger, for keys with one row.     *)

\* What is reserved of a key.
Reserved(k) == IF level[RowOf(k)] = NoRow THEN 0 ELSE level[RowOf(k)].reserved

Promise == INSTANCE StockLedger WITH
  Batches    <- {r.items : r \in {c \in Requests : c.op \in Posting}},
  Holds      <- {r.items[1].qty : r \in {c \in Requests : c.op \notin Posting}},
  Keys       <- UniqueKeys,
  ledger     <- [k \in UniqueKeys |-> ledger[k]],
  onHand     <- [k \in UniqueKeys |-> Quantity(RowOf(k))],
  reserved   <- [k \in UniqueKeys |-> Reserved(k)],
  negativeOK <- everAllowed

KeepsPromise == Promise!Spec

(* The inductive invariant behind it: what a transaction has written is what *)
(* the items it is done with make a batch of.                              *)

\* The items w is done with.
Done(w)  == IF pc[w] = "commit" THEN Len(req[w].items) ELSE next[w] - 1
Batch(w) == [i \in 1..Done(w) |-> req[w].items[i]]

\* Its movements and its rows are those of the batch, and no item was refused.
PostsBatch(w) ==
  /\ \A k \in UniqueKeys :
       LET here == Quantity(RowOf(k))
       IN  /\ pending[w][k] = Promise!NewMovements(here, Batch(w), k)
           /\ Ahead(w, RowOf(k)) = Promise!Change(Batch(w), Promise!ItemsOf(Batch(w), k))
  /\ \A i \in 1..Done(w) :
       /\ req[w].items[i].qty # 0
       /\ LET k == req[w].items[i].key
          IN  k \in UniqueKeys /\ Promise!Running(Quantity(RowOf(k)), Batch(w), k, i) < 0
                => everAllowed

\* A row it has written has what was reserved of it, and a movement unless it
\* has just been inserted.
KeepsReserved(w) ==
  \A k \in UniqueKeys : draft[w][RowOf(k)] # NoRow =>
    /\ draft[w][RowOf(k)].reserved = Reserved(k)
    /\ pending[w][k] # <<>> \/ (pc[w] = "apply" /\ held[w] = RowOf(k))

\* A reservation and its release write one row that is there, and no movement.
HoldsRow(w) ==
  /\ pending[w] = NoPending
  /\ pc[w] = "commit" =>
       \E r \in Rows :
         /\ level[r] # NoRow /\ r[1] = req[w].items[1].key
         /\ \A q \in Rows \ {r} : draft[w][q] = NoRow
         /\ draft[w][r] # NoRow /\ draft[w][r].quantity = level[r].quantity
         /\ LET qty == req[w].items[1].qty
            IN  \/ req[w].op = "reserve" /\ qty <= available_quantity(level[r])
                   /\ draft[w][r].reserved = level[r].reserved + qty
                \/ req[w].op = "release"
                   /\ draft[w][r].reserved = Max({level[r].reserved - qty, 0})

\* What a call in progress has written is what it promises, and an item that is
\* past the SELECT is not zero.
Promised(w) ==
  IF req[w].op \in Posting
  THEN /\ PostsBatch(w) /\ KeepsReserved(w)
       /\ pc[w] \in {"insert", "apply"} => item(w).qty # 0
  ELSE HoldsRow(w)

PromiseInv ==
  /\ \A w \in Workers : pc[w] # "idle" => Promised(w)
  /\ \A k \in UniqueKeys : level[RowOf(k)] # NoRow => ledger[k] # <<>>
=============================================================================
