--------------------------- MODULE PurchaseOrders ---------------------------
(***************************************************************************)
(* PurchaseOrderViewSet (apps/purchases/views.py): approving, receiving    *)
(* and cancelling purchase orders under concurrent requests.               *)
(*                                                                         *)
(* The order is fetched and its status checked outside any transaction.    *)
(* receive then opens one: it reads the items without locking them, writes *)
(* each new quantity_received as an absolute value, posts the receipt to   *)
(* the stock, reads the items again for the new status, and commits all of *)
(* it at once, in the warehouse of the order as fetched.  An UPDATE locks   *)
(* its row until the transaction ends.  A client may PATCH the status and  *)
(* the warehouse at any time.                                              *)
(***************************************************************************)
EXTENDS Integers, Sequences, FiniteSetsExt

CONSTANTS
  Workers,      \* requests in flight at one time
  Orders,       \* orders left in DRAFT by PurchaseOrderViewSet.create
  Warehouses,
  Products,     \* products with their variants
  WarehouseOf,  \* [Orders -> Warehouses], as they were created
  Items,        \* [Orders -> sequence of [product, qty]], the active items
  OpeningStock, \* [Keys -> Nat]
  Given,        \* quantities a client reports as received
  Edits,        \* the statuses a client sets with PUT or PATCH
  MaxLedger,    \* bound: no new request once a ledger has this many movements
  NoOrder       \* no row

VARIABLES
  order,        \* [Orders -> PurchaseOrder row or NoOrder]
  received,     \* [Orders -> Seq(quantity_received), one per item row]
  onHand, reserved, ledger, negativeOK,  \* the stock, see StockLedger
  pc,           \* [Workers -> the statement the handler is at]
  serving,      \* [Workers -> the handler]
  at,           \* [Workers -> the order it fetched]
  object,       \* [Workers -> the row as fetched]
  seen,         \* [Workers -> the quantities receive read]
  written,      \* [Workers -> the quantities it has set, uncommitted]
  verdict,      \* [Workers -> the status it is about to save]
  disturbed,    \* history: orders two requests were serving at once, and
                \* orders a client set the status of or deleted
  moved         \* history: orders a client has named another warehouse for

tables  == <<order, received>>
stock   == <<onHand, reserved, ledger, negativeOK>>
request == <<pc, serving, at, object, seen, written, verdict>>
history == <<disturbed, moved>>
vars    == <<tables, stock, request, history>>

Keys          == Warehouses \X Products  \* the stock keys
Status        == {"draft", "sent", "confirmed", "partial", "received", "cancelled"}
PurchaseOrder == [status : Status, warehouse : Warehouses]
Handlers      == {"approve", "receive", "cancel", "update", "destroy"}

ASSUME OrdersAssumption ==
  /\ IsFiniteSet(Orders) /\ IsFiniteSet(Warehouses)
  /\ WarehouseOf \in [Orders -> Warehouses]
  /\ OpeningStock \in [Keys -> Nat]
  /\ Given \subseteq Nat \ {0} /\ Edits \subseteq Status
  /\ NoOrder \notin PurchaseOrder \union Orders
  /\ \A p \in Orders : Items[p] \in Seq([product : Products, qty : Nat \ {0}]) /\ Items[p] # <<>>

\* Mutant: all that was ordered is still pending.
QuantityOrdered(p, i, n) == Items[p][i].qty

quantity_pending(p, i, n) == Max({Items[p][i].qty - n, 0})

\* The receipt of an order in a warehouse: what each item has gained, if anything.
Receipt(a, p, from, to) ==
  [i \in {j \in 1..Len(to) : to[j] > from[j]} |->
     [key |-> <<a, Items[p][i].product>>, qty |-> to[i] - from[i]]]

Quantities(p) == [1..Len(Items[p]) -> Nat]

Stock == INSTANCE StockLedger WITH
  Batches <- UNION {{Receipt(a, p, f, g) : a \in Warehouses, f, g \in Quantities(p)}
                    : p \in Orders},
  Holds   <- {}

-----------------------------------------------------------------------------
\* create.  requires_approval and approved_by are left out: no handler reads them.
Init ==
  /\ order = [p \in Orders |-> [status |-> "draft", warehouse |-> WarehouseOf[p]]]
  /\ received = [p \in Orders |-> [i \in 1..Len(Items[p]) |-> 0]]
  /\ Stock!Opened(OpeningStock)
  /\ pc = [w \in Workers |-> "idle"]
  /\ serving = [w \in Workers |-> "approve"]
  /\ at = [w \in Workers |-> NoOrder]
  /\ object = [w \in Workers |-> NoOrder]
  /\ seen = [w \in Workers |-> <<>>]
  /\ written = [w \in Workers |-> <<>>]
  /\ verdict = [w \in Workers |-> "draft"]
  /\ disturbed = {} /\ moved = {}

\* The status check of a handler, on the fetched object.
Allowed(h, s) ==
  CASE h = "approve" -> s \in {"draft", "sent"}
    [] h = "receive" -> s \in {"confirmed", "partial", "sent"}
    [] h = "cancel"  -> s # "received"
    [] OTHER         -> TRUE

\* get_object and the check.
Fetch(w, h, p) ==
  /\ pc[w] = "idle"
  /\ order[p] # NoOrder
  /\ \A k \in Keys : Len(ledger[k]) < MaxLedger
  /\ pc' = [pc EXCEPT ![w] =
       IF ~Allowed(h, order[p].status) THEN "refuse"
       ELSE IF h = "receive" THEN "read" ELSE "save"]
  /\ serving' = [serving EXCEPT ![w] = h]
  /\ at' = [at EXCEPT ![w] = p]
  /\ object' = [object EXCEPT ![w] = order[p]]
  /\ disturbed' = disturbed \union {q \in {p} : \E v \in Workers : at[v] = p}
  /\ UNCHANGED <<tables, stock, seen, written, verdict, moved>>

\* The response is sent, or the transaction is rolled back.
Respond(w) ==
  /\ pc' = [pc EXCEPT ![w] = "idle"]
  /\ serving' = [serving EXCEPT ![w] = "approve"]
  /\ at' = [at EXCEPT ![w] = NoOrder]
  /\ object' = [object EXCEPT ![w] = NoOrder]
  /\ seen' = [seen EXCEPT ![w] = <<>>]
  /\ written' = [written EXCEPT ![w] = <<>>]
  /\ verdict' = [verdict EXCEPT ![w] = "draft"]

\* 400 Bad Request, an exception, a killed worker, a deadlock: receive is one
\* transaction and the other handlers write once, so nothing is left behind.
Abandon(w) ==
  /\ pc[w] # "idle"
  /\ Respond(w)
  /\ UNCHANGED <<tables, stock, history>>

-----------------------------------------------------------------------------
(* receive.                                                                *)

\* The loop's query: a plain SELECT.
ReadItems(w) ==
  /\ pc[w] = "read"
  /\ seen' = [seen EXCEPT ![w] = received[at[w]]]
  /\ pc' = [pc EXCEPT ![w] = "write"]
  /\ UNCHANGED <<tables, stock, serving, at, object, written, verdict, history>>

\* What the loop makes of the quantities a client sent, 0 for none: never more
\* than the item is waiting for.
Accept(w, sent) ==
  [i \in 1..Len(seen[w]) |->
     seen[w][i] + Min({sent[i], quantity_pending(at[w], i, seen[w][i])})]

Touches(w, new) == {i \in 1..Len(new) : new[i] # seen[w][i]}
Locked(w)       == IF written[w] = <<>> THEN {} ELSE Touches(w, written[w])

\* Mutant: no transaction, the item is saved at once.
WriteItemsAtOnce(w, sent) ==
  /\ pc[w] = "write"
  /\ written' = [written EXCEPT ![w] = Accept(w, sent)]
  /\ received' = [received EXCEPT ![at[w]] = Accept(w, sent)]
  /\ pc' = [pc EXCEPT ![w] = "recheck"]
  /\ UNCHANGED <<order, stock, serving, at, object, seen, verdict, history>>

\* item.save for each of them.  An UPDATE waits for the transaction that holds
\* the row, and then overwrites what that one has committed.
WriteItems(w, sent) ==
  /\ pc[w] = "write"
  /\ LET new == Accept(w, sent)
     IN  /\ Touches(w, new) # {} => received[at[w]] # <<>>
         /\ \A v \in Workers \ {w} : at[v] = at[w] => Touches(w, new) \cap Locked(v) = {}
         /\ written' = [written EXCEPT ![w] = new]
  /\ pc' = [pc EXCEPT ![w] = "recheck"]
  /\ UNCHANGED <<tables, stock, serving, at, object, seen, verdict, history>>

\* Mutant: the committed items, without the writes of w.
VisibleCommitted(w) == received[at[w]]

\* The items as the transaction of w sees them: its own writes, and what others
\* have committed.
Visible(w) ==
  [i \in 1..Len(received[at[w]]) |->
     IF i \in Locked(w) THEN written[w][i] ELSE received[at[w]][i]]

AllReceived(p, quantities) ==
  \A i \in 1..Len(quantities) : quantities[i] >= Items[p][i].qty

\* Mutant: the items of the first query decide.
RecheckSeen(w) ==
  /\ pc[w] = "recheck"
  /\ verdict' = [verdict EXCEPT ![w] =
       IF AllReceived(at[w], seen[w]) THEN "received" ELSE "partial"]
  /\ pc' = [pc EXCEPT ![w] = "commit"]
  /\ UNCHANGED <<tables, stock, serving, at, object, seen, written, history>>

\* The second query decides the status.
Recheck(w) ==
  /\ pc[w] = "recheck"
  /\ verdict' = [verdict EXCEPT ![w] =
       IF AllReceived(at[w], Visible(w)) THEN "received" ELSE "partial"]
  /\ pc' = [pc EXCEPT ![w] = "commit"]
  /\ UNCHANGED <<tables, stock, serving, at, object, seen, written, history>>

\* po.save(update_fields=["status", ...]) and COMMIT, with the receipt, which goes
\* to the warehouse of the fetched object.
Receive(w) ==
  /\ pc[w] = "commit"
  /\ order[at[w]] # NoOrder
  /\ received' = [received EXCEPT ![at[w]] = Visible(w)]
  /\ Stock!Post(Receipt(object[w].warehouse, at[w], seen[w], written[w]))
  /\ order' = [order EXCEPT ![at[w]].status = verdict[w]]
  /\ Respond(w)
  /\ UNCHANGED history

-----------------------------------------------------------------------------
(* The other handlers.                                                     *)

Saves(w, h) == pc[w] = "save" /\ serving[w] = h

\* Mutant: a status that is not one of the choices.
ApproveUnknown(w) ==
  /\ Saves(w, "approve")
  /\ order[at[w]] # NoOrder
  /\ order' = [order EXCEPT ![at[w]].status = "approved"]
  /\ Respond(w)
  /\ UNCHANGED <<received, stock, history>>

Approve(w) ==
  /\ Saves(w, "approve")
  /\ order[at[w]] # NoOrder
  /\ order' = [order EXCEPT ![at[w]].status = "confirmed"]
  /\ Respond(w)
  /\ UNCHANGED <<received, stock, history>>

Cancel(w) ==
  /\ Saves(w, "cancel")
  /\ order[at[w]] # NoOrder
  /\ order' = [order EXCEPT ![at[w]].status = "cancelled"]
  /\ Respond(w)
  /\ UNCHANGED <<received, stock, history>>

\* PUT and PATCH: the status and the warehouse are the client's, and save() writes
\* every column of the fetched object, inserting the row again if it has gone.
Update(w, s, a) ==
  /\ Saves(w, "update")
  /\ order' = [order EXCEPT ![at[w]] = [object[w] EXCEPT !.status = s, !.warehouse = a]]
  /\ disturbed' = disturbed \union {p \in {at[w]} : s # object[w].status}
  /\ moved' = moved \union {p \in {at[w]} : a # WarehouseOf[p]}
  /\ Respond(w)
  /\ UNCHANGED <<received, stock>>

\* DELETE: the row goes, and its items once no transaction holds them.
Destroy(w) ==
  /\ Saves(w, "destroy")
  /\ \A v \in Workers : at[v] = at[w] => Locked(v) = {}
  /\ order' = [order EXCEPT ![at[w]] = NoOrder]
  /\ received' = [received EXCEPT ![at[w]] = <<>>]
  /\ disturbed' = disturbed \union {at[w]}
  /\ Respond(w)
  /\ UNCHANGED <<stock, moved>>

Sent(w) == [1..Len(seen[w]) -> Given \union {0}]

Act(w) ==
  \/ ReadItems(w)
  \/ \E sent \in Sent(w) : WriteItems(w, sent)
  \/ Recheck(w)
  \/ Receive(w)
  \/ Approve(w)
  \/ Cancel(w)
  \/ /\ pc[w] = "save"
     /\ \E s \in Edits \union {object[w].status}, a \in Warehouses : Update(w, s, a)
  \/ Destroy(w)

Next ==
  \E w \in Workers :
    \/ \E h \in Handlers, p \in Orders : Fetch(w, h, p)
    \/ Act(w)
    \/ Abandon(w)

Spec == Init /\ [][Next]_vars

-----------------------------------------------------------------------------
(* Properties.                                                             *)

TypeOK ==
  /\ order \in [Orders -> PurchaseOrder \union {NoOrder}]
  /\ received \in [Orders -> Seq(Nat)]
  /\ onHand \in [Keys -> Int]
  /\ pc \in [Workers -> {"idle", "refuse", "read", "write", "recheck", "commit", "save"}]
  /\ serving \in [Workers -> Handlers]
  /\ at \in [Workers -> Orders \union {NoOrder}]
  /\ object \in [Workers -> PurchaseOrder \union {NoOrder}]
  /\ seen \in [Workers -> Seq(Nat)] /\ written \in [Workers -> Seq(Nat)]
  /\ verdict \in [Workers -> Status]
  /\ disturbed \subseteq Orders /\ moved \subseteq Orders

\* No item is ever received beyond what was ordered, although receive writes
\* absolute values computed from an unlocked read (views.py:249-265).
ReceivedWithinOrdered ==
  \A p \in Orders : \A i \in 1..Len(received[p]) : received[p][i] <= Items[p][i].qty

\* The item rows, and those of a product.
ItemRows  == UNION {{<<p, i>> : i \in 1..Len(Items[p])} : p \in Orders}
RowsOf(x) == {r \in ItemRows : Items[r[1]][r[2]].product = x}

\* quantity_received of a row, if it has not been deleted.
InRow(r) == IF received[r[1]] = <<>> THEN 0 ELSE received[r[1]][r[2]]

\* The order of a row has always been one for the warehouse of a key.
AtHome(r, k) == r[1] \notin moved /\ WarehouseOf[r[1]] = k[1]

\* What rows say has come in of a product, and in a warehouse at home there.
TotalOf(rows, x) == SumFunctionOnSet(rows, RowsOf(x))
HomeOf(rows, k) ==
  SumFunctionOnSet([r \in ItemRows |-> IF AtHome(r, k) THEN rows[r] ELSE 0], RowsOf(k[2]))

Rows == [r \in ItemRows |-> InRow(r)]

\* What the stock of a key and of a product has gained.
GainAt(k) == onHand[k] - OpeningStock[k]
GainOf(x) == SumFunctionOnSet([a \in Warehouses |-> GainAt(<<a, x>>)], Warehouses)

\* Goods the items say were received are in the stock, whatever requests
\* overlap, fail or are killed (views.py:246-284 is one transaction): somewhere
\* if clients move orders between warehouses, and in the warehouse of an order
\* that was never moved.
ReceivedIsStocked ==
  /\ \A x \in Products : TotalOf(Rows, x) <= GainOf(x)
  /\ \A k \in Keys : HomeOf(Rows, k) <= GainAt(k)

\* Without overlapping requests on one order the two are equal: no receipt is
\* posted without being recorded, and none in another warehouse than the order's
\* if it was never moved.
StockIsRecorded ==
  disturbed = {} =>
    /\ \A x \in Products : TotalOf(Rows, x) = GainOf(x)
    /\ moved = {} => \A k \in Keys : HomeOf(Rows, k) = GainAt(k)

\* Without overlapping requests and status edits, an order is fully received
\* when and only when it says so, up to a cancellation (views.py:278-285).
StatusFollowsItems ==
  \A p \in Orders \ disturbed :
    order[p] # NoOrder =>
      /\ order[p].status = "received" => AllReceived(p, received[p])
      /\ order[p].status \in {"draft", "sent", "confirmed", "partial"}
           => ~AllReceived(p, received[p])

-----------------------------------------------------------------------------
(* The inductive invariant behind them.                                    *)

Busy(w)      == pc[w] # "idle"
Receiving(w) == pc[w] \in {"read", "write", "recheck", "commit"}
HasRead(w)   == pc[w] \in {"write", "recheck", "commit"}
HasSet(w)    == pc[w] \in {"recheck", "commit"}

\* The item rows of an order go together, and only by a DELETE.
RowsKept ==
  \A p \in Orders : /\ received[p] # <<>> => Len(received[p]) = Len(Items[p])
                    /\ p \notin disturbed => received[p] # <<>> /\ order[p] # NoOrder

\* A request holds quantities within the order it has fetched.
RequestsHold ==
  \A w \in Workers :
    /\ IF Busy(w) THEN at[w] \in Orders /\ object[w] \in PurchaseOrder ELSE at[w] = NoOrder
    /\ HasRead(w) =>
         /\ seen[w] # <<>> => Len(seen[w]) = Len(Items[at[w]])
         /\ \A i \in 1..Len(seen[w]) : seen[w][i] <= Items[at[w]][i].qty
    /\ HasSet(w) =>
         /\ Len(written[w]) = Len(seen[w])
         /\ \A i \in 1..Len(seen[w]) :
              seen[w][i] <= written[w][i] /\ written[w][i] <= Items[at[w]][i].qty

\* Two requests on one order disturb it.
ServedAlone ==
  \A v, w \in Workers : v # w /\ at[v] = at[w] /\ Busy(w) => at[w] \in disturbed

\* A request alone on an order has it as it is, and the status it will save
\* says what it will write.
FreshCopies ==
  \A w \in Workers :
    Busy(w) /\ at[w] \notin disturbed =>
      /\ object[w] = order[at[w]]
      /\ Receiving(w) => object[w].status \in {"confirmed", "partial", "sent"}
      /\ pc[w] = "save" => Allowed(serving[w], object[w].status)
      /\ HasRead(w) => seen[w] = received[at[w]]
      /\ pc[w] = "commit" =>
           verdict[w] = IF AllReceived(at[w], Visible(w)) THEN "received" ELSE "partial"

\* An order that was never moved is for its warehouse, and so is every copy of it.
OrdersAtHome ==
  /\ \A p \in Orders \ moved : order[p] # NoOrder => order[p].warehouse = WarehouseOf[p]
  /\ \A w \in Workers :
       Busy(w) /\ at[w] \notin moved => object[w].warehouse = WarehouseOf[at[w]]

\* posted says what has been posted for each item row: the stock of a product has
\* changed by the sum, that of a key by no less than the sum of the rows at home
\* there, and no row or request has more.
Accounts(posted) ==
  /\ \A x \in Products : TotalOf(posted, x) = GainOf(x)
  /\ \A k \in Keys : /\ HomeOf(posted, k) <= GainAt(k)
                     /\ moved = {} => HomeOf(posted, k) = GainAt(k)
  /\ \A r \in ItemRows :
       /\ InRow(r) <= posted[r]
       /\ r[1] \notin disturbed => InRow(r) = posted[r]
       /\ \A w \in Workers :
            at[w] = r[1] /\ HasRead(w) /\ r[2] \in 1..Len(seen[w]) => seen[w][r[2]] <= posted[r]

StockAccounted == \E posted \in [ItemRows -> Nat] : Accounts(posted)

RequestsInv ==
  /\ TypeOK /\ RowsKept /\ RequestsHold /\ ServedAlone /\ FreshCopies
  /\ ReceivedWithinOrdered /\ StatusFollowsItems
=============================================================================
