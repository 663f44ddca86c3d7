--------------------------- MODULE StockTransfers ---------------------------
(***************************************************************************)
(* StockTransferViewSet (apps/inventory/views.py): confirm, receive and    *)
(* cancel of transfers between warehouses.                                 *)
(*                                                                         *)
(* None of them opens a transaction of its own.  The transfer is fetched   *)
(* with its items, its status is checked on the fetched object, each item  *)
(* then makes one or two calls of StockService that commit by themselves,  *)
(* in the warehouses of the fetched object, and the status is saved last.  *)
(* An exception or a killed worker leaves what has been done so far; the   *)
(* client may send the request again, and may PATCH the status and both    *)
(* warehouses at any time.                                                 *)
(***************************************************************************)
EXTENDS Integers, Sequences, FiniteSetsExt

CONSTANTS
  Workers,      \* requests in flight at one time
  Transfers,    \* DRAFT transfers with their items
  Warehouses,
  Products,     \* products with their variants
  RouteOf,      \* [Transfers -> Route], as they were created
  Items,        \* [Transfers -> sequence of [product, qty]]
  OpeningStock, \* [Keys -> Nat]
  Loads,        \* what the clients of one behaviour do: [transfers, given,
                \* edits, routes, adjustments, movements], the transfers they are
                \* about, quantity_received as they may send it, the statuses and
                \* the routes they set with PATCH, what sales and receipts do to
                \* a key meanwhile, and a bound: no new request once a ledger has
                \* that many movements
  NoTransfer    \* the worker serves no request

VARIABLES
  status,       \* [Transfers -> StockTransfer.status, or "deleted"]
  route,        \* [Transfers -> from_warehouse and to_warehouse]
  received,     \* [Transfers -> Seq(quantity_received), one per item row]
  onHand, reserved, ledger, negativeOK,  \* the stock, see StockLedger
  load,         \* the element of Loads, for the whole behaviour
  pc,           \* [Workers -> the statement the handler is at]
  serving,      \* [Workers -> the handler]
  at,           \* [Workers -> the transfer it fetched]
  object,       \* [Workers -> its status as fetched]
  way,          \* [Workers -> its route as fetched, or NoTransfer]
  todo,         \* [Workers -> the number of items fetched with it]
  next,         \* [Workers -> index of the item the loop is at]
  qty,          \* [Workers -> the quantity just moved for that item]
  moved,        \* history: [Transfers -> [item -> Seq(quantity moved)]]
  disturbed     \* history: transfers two requests were serving at once, whose
                \* status a client set, that a client sent off from another
                \* warehouse while in transit, or that a request left half done

tables  == <<status, route, received, load>>
stock   == <<onHand, reserved, ledger, negativeOK>>
request == <<pc, serving, at, object, way, todo, next, qty>>
history == <<moved, disturbed>>
vars    == <<tables, stock, request, history>>

Status   == {"draft", "in_transit", "received", "cancelled"}
Handlers == {"confirm", "receive", "cancel", "update", "destroy"}

Keys  == Warehouses \X Products  \* the stock keys
Route == [from : Warehouses, to : Warehouses]

Number(t) == Len(Items[t])

ASSUME TransfersAssumption ==
  /\ IsFiniteSet(Transfers)
  /\ OpeningStock \in [Keys -> Nat]
  /\ NoTransfer \notin Transfers
  /\ RouteOf \in [Transfers -> Route]
  /\ \A l \in Loads : /\ l.transfers \subseteq Transfers /\ l.edits \subseteq Status
                      /\ l.routes \subseteq Route
                      /\ l.given \subseteq Int /\ l.adjustments \subseteq Int
  /\ \A t \in Transfers : Items[t] \in Seq([product : Products, qty : Nat \ {0}])

\* What an item asks for when its transfer goes that way.
LineOf(r, item) ==
  [from |-> <<r.from, item.product>>, to |-> <<r.to, item.product>>, qty |-> item.qty]

\* transfer_stock: one movement out, one in, in one transaction.
TransferBatch(line, q) ==
  <<[key |-> line.from, qty |-> -q], [key |-> line.to, qty |-> q]>>

\* receive: the quantity the client sent for the item or the one requested.
Quantities(line) == load.given \union {line.qty}

Lines == UNION {{LineOf(r, Items[t][i]) : i \in 1..Number(t), r \in Route} : t \in Transfers}

Stock == INSTANCE StockLedger WITH
  Batches <- {TransferBatch(l, l.qty) : l \in Lines},
  Holds   <- {l.qty : l \in Lines}

-----------------------------------------------------------------------------
Init ==
  /\ status = [t \in Transfers |-> "draft"]
  /\ route = RouteOf
  /\ received = [t \in Transfers |-> [i \in 1..Number(t) |-> 0]]
  /\ Stock!Opened(OpeningStock)
  /\ load \in Loads
  /\ pc = [w \in Workers |-> "idle"]
  /\ serving = [w \in Workers |-> "confirm"]
  /\ at = [w \in Workers |-> NoTransfer]
  /\ object = [w \in Workers |-> "draft"]
  /\ way = [w \in Workers |-> NoTransfer]
  /\ todo = [w \in Workers |-> 0]
  /\ next = [w \in Workers |-> 1]
  /\ qty = [w \in Workers |-> 0]
  /\ moved = [t \in Transfers |-> [i \in 1..Number(t) |-> <<>>]]
  /\ disturbed = {}

\* Mutant: any transfer that is not cancelled can be received.
AllowedAgain(h, s) ==
  CASE h = "confirm" -> s = "draft"
    [] h = "receive" -> s # "cancelled"
    [] h = "cancel"  -> s # "received"
    [] OTHER         -> TRUE

\* The status check of a handler, on the fetched object.
Allowed(h, s) ==
  CASE h = "confirm" -> s = "draft"
    [] h = "receive" -> s = "in_transit"
    [] h = "cancel"  -> s # "received"
    [] OTHER         -> TRUE

\* Mutant: a cancelled transfer keeps its reservations.
FirstCallKeeps(h, s) ==
  CASE h = "confirm" -> "reserve"
    [] h = "receive" -> "release"
    [] OTHER         -> "save"

\* Whether a handler goes through the items, and with which call first.
FirstCall(h, s) ==
  CASE h = "confirm"                       -> "reserve"
    [] h = "receive"                       -> "release"
    [] h = "cancel" /\ s = "in_transit"    -> "release"
    [] OTHER                               -> "save"

\* get_object and the check.
Fetch(w, h, t) ==
  /\ pc[w] = "idle"
  /\ status[t] # "deleted"
  /\ t \in load.transfers
  /\ \A k \in Keys : Len(ledger[k]) < load.movements
  /\ pc' = [pc EXCEPT ![w] =
       IF ~Allowed(h, status[t]) THEN "refuse"
       ELSE IF received[t] = <<>> THEN "save" ELSE FirstCall(h, status[t])]
  /\ serving' = [serving EXCEPT ![w] = h]
  /\ at' = [at EXCEPT ![w] = t]
  /\ object' = [object EXCEPT ![w] = status[t]]
  /\ way' = [way EXCEPT ![w] = route[t]]
  /\ todo' = [todo EXCEPT ![w] = Len(received[t])]
  /\ disturbed' = disturbed \union
       {u \in {t} : \E v \in Workers : at[v] = t}
  /\ UNCHANGED <<tables, stock, next, qty, moved>>

\* The response is sent, or the worker is gone.
Respond(w) ==
  /\ pc' = [pc EXCEPT ![w] = "idle"]
  /\ serving' = [serving EXCEPT ![w] = "confirm"]
  /\ object' = [object EXCEPT ![w] = "draft"]
  /\ way' = [way EXCEPT ![w] = NoTransfer]
  /\ todo' = [todo EXCEPT ![w] = 0]
  /\ next' = [next EXCEPT ![w] = 1]
  /\ qty' = [qty EXCEPT ![w] = 0]
  /\ at' = [at EXCEPT ![w] = NoTransfer]

\* 400 Bad Request.
Refuse(w) ==
  /\ pc[w] = "refuse"
  /\ Respond(w)
  /\ UNCHANGED <<tables, stock, history>>

line(w) == LineOf(way[w], Items[at[w]][next[w]])

\* Mutant: the loop leaves out the last item.
EndItemEarly(w, call) ==
  IF next[w] < todo[w] - 1
    THEN /\ next' = [next EXCEPT ![w] = @ + 1]
         /\ pc' = [pc EXCEPT ![w] = call]
    ELSE /\ next' = next
         /\ pc' = [pc EXCEPT ![w] = "save"]

\* The item is done: the loop goes on with call, or the status is saved.
EndItem(w, call) ==
  IF next[w] < todo[w]
    THEN /\ next' = [next EXCEPT ![w] = @ + 1]
         /\ pc' = [pc EXCEPT ![w] = call]
    ELSE /\ next' = next
         /\ pc' = [pc EXCEPT ![w] = "save"]

\* reserve_stock for one item.
ReserveItem(w) ==
  /\ pc[w] = "reserve"
  /\ Stock!Reserve(line(w).from, line(w).qty)
  /\ EndItem(w, "reserve")
  /\ UNCHANGED <<tables, serving, at, object, way, todo, qty, history>>

\* release_reservation for one item: receive then moves it.
ReleaseItem(w) ==
  /\ pc[w] = "release"
  /\ Stock!Release(line(w).from, line(w).qty)
  /\ IF serving[w] = "receive"
       THEN pc' = [pc EXCEPT ![w] = "move"] /\ UNCHANGED next
       ELSE EndItem(w, "release")
  /\ UNCHANGED <<tables, serving, at, object, way, todo, qty, history>>

\* transfer_stock for one item; it raises unless its arguments make sense.
MoveItem(w, q) ==
  /\ pc[w] = "move"
  /\ q > 0 /\ line(w).from # line(w).to
  /\ Stock!Post(TransferBatch(line(w), q))
  /\ qty' = [qty EXCEPT ![w] = q]
  /\ moved' = [moved EXCEPT ![at[w]][next[w]] = Append(@, q)]
  /\ pc' = [pc EXCEPT ![w] = "record"]
  /\ UNCHANGED <<tables, serving, at, object, way, todo, next, disturbed>>

\* item.save(update_fields=["quantity_received"]) needs the row.
RecordItem(w) ==
  /\ pc[w] = "record"
  /\ received[at[w]] # <<>>
  /\ received' = [received EXCEPT ![at[w]][next[w]] = qty[w]]
  /\ EndItem(w, "release")
  /\ UNCHANGED <<status, route, load, stock, serving, at, object, way, todo, qty, history>>

Target(h) ==
  CASE h = "confirm" -> "in_transit"
    [] h = "receive" -> "received"
    [] OTHER         -> "cancelled"

\* transfer.save(update_fields=["status", ...]) needs the row.
SaveStatus(w) ==
  /\ pc[w] = "save"
  /\ serving[w] \in {"confirm", "receive", "cancel"}
  /\ status[at[w]] # "deleted"
  /\ status' = [status EXCEPT ![at[w]] = Target(serving[w])]
  /\ Respond(w)
  /\ UNCHANGED <<route, received, load, stock, history>>

\* An exception (too little to reserve or to move, a quantity of zero, a row
\* that has gone) or the end of the worker: what is committed stays.
Abandon(w) ==
  /\ pc[w] # "idle"
  /\ Respond(w)
  /\ disturbed' = disturbed \union
       {t \in {at[w]} : /\ pc[w] # "refuse"
                        /\ \/ next[w] > 1 \/ pc[w] \in {"move", "record"}
                           \/ pc[w] = "save" /\ FirstCall(serving[w], object[w]) # "save"}
  /\ UNCHANGED <<tables, stock, moved>>

\* PATCH: the status and the warehouses are the client's, and save() writes
\* every column of the fetched object, inserting the row again if it has gone.
Update(w, s, r) ==
  /\ pc[w] = "save" /\ serving[w] = "update"
  /\ status' = [status EXCEPT ![at[w]] = s]
  /\ route' = [route EXCEPT ![at[w]] = r]
  /\ disturbed' = disturbed \union
       {t \in {at[w]} : s # object[w] \/ (s = "in_transit" /\ r.from # way[w].from)}
  /\ Respond(w)
  /\ UNCHANGED <<received, load, stock, moved>>

\* DELETE: the row and its items go; what is reserved for them stays reserved.
Destroy(w) ==
  /\ pc[w] = "save" /\ serving[w] = "destroy"
  /\ status' = [status EXCEPT ![at[w]] = "deleted"]
  /\ received' = [received EXCEPT ![at[w]] = <<>>]
  /\ disturbed' = disturbed \union {t \in {at[w]} : object[w] = "in_transit"}
  /\ Respond(w)
  /\ UNCHANGED <<route, stock, load, moved>>

\* Any other request that posts to a key.
Adjust(k, delta) ==
  /\ \A j \in Keys : Len(ledger[j]) < load.movements
  /\ Stock!Post(<<[key |-> k, qty |-> delta]>>)
  /\ UNCHANGED <<tables, request, history>>

Act(w) ==
  \/ Refuse(w)
  \/ ReserveItem(w)
  \/ ReleaseItem(w)
  \/ pc[w] = "move" /\ \E q \in Quantities(line(w)) : MoveItem(w, q)
  \/ RecordItem(w)
  \/ SaveStatus(w)
  \/ \E s \in load.edits \union {object[w]}, r \in load.routes \union {way[w]} : Update(w, s, r)
  \/ Destroy(w)

Next ==
  \/ \E w \in Workers :
       \/ \E h \in Handlers, t \in Transfers : Fetch(w, h, t)
       \/ Act(w)
       \/ Abandon(w)
  \/ \E k \in Keys, delta \in load.adjustments : Adjust(k, delta)

Spec == Init /\ [][Next]_vars

-----------------------------------------------------------------------------
(* Properties.                                                             *)

TypeOK ==
  /\ status \in [Transfers -> Status \union {"deleted"}]
  /\ route \in [Transfers -> Route]
  /\ received \in [Transfers -> Seq(Int)] /\ moved \in [Transfers -> Seq(Seq(Int))]
  /\ onHand \in [Keys -> Int] /\ reserved \in [Keys -> Nat]
  /\ pc \in [Workers -> {"idle", "refuse", "reserve", "release", "move", "record", "save"}]
  /\ serving \in [Workers -> Handlers]
  /\ at \in [Workers -> Transfers \union {NoTransfer}]
  /\ object \in [Workers -> Status]
  /\ way \in [Workers -> Route \union {NoTransfer}]
  /\ todo \in [Workers -> Nat] /\ next \in [Workers -> Nat \ {0}]
  /\ qty \in [Workers -> Int]
  /\ load \in Loads /\ disturbed \subseteq Transfers

Served == {at[w] : w \in Workers} \ {NoTransfer}

\* The item rows, the key a row is sent from as its transfer stands, and its
\* quantity.
ItemRows  == UNION {{<<t, i>> : i \in 1..Number(t)} : t \in Transfers}
KeyOf(r)  == LineOf(route[r[1]], Items[r[1]][r[2]]).from
QtyOf(r)  == Items[r[1]][r[2]].qty

\* What the lines of the transfers in transit hold of a key.
HeldFor(k) ==
  SumFunctionOnSet(
    [r \in ItemRows |-> IF status[r[1]] = "in_transit" /\ KeyOf(r) = k THEN QtyOf(r) ELSE 0],
    ItemRows)

\* Between requests, the reserved quantity of a key is what the transfers in
\* transit hold of it, by the warehouse they name now, as long as each was served
\* by one request at a time that ran to its end and no client has changed a status,
\* or the source of a transfer in transit (views.py:320-331, 349-377, 390-402).
\* Clients may change the warehouses of every other transfer.
ReservationsMatch ==
  disturbed = {} /\ Served = {} => \A k \in Keys : reserved[k] = HeldFor(k)

\* Under the same condition the goods of a transfer have been moved exactly once
\* when it is received, in the quantity its items say, and not at all before.
ReceivedIsMoved ==
  \A t \in Transfers \ (disturbed \union Served) :
    status[t] # "deleted" =>
      \A i \in 1..Len(received[t]) :
        moved[t][i] = IF status[t] = "received" THEN <<received[t][i]>> ELSE <<>>

-----------------------------------------------------------------------------
(* The inductive invariant behind them.                                    *)

Busy(w)    == pc[w] # "idle"
Looping(w) == pc[w] \in {"reserve", "release", "move", "record"}

\* The item rows of a transfer go together, and only by a DELETE.
RowsKept ==
  \A t \in Transfers :
    /\ received[t] # <<>> => Len(received[t]) = Number(t)
    /\ Len(moved[t]) = Number(t)
    /\ t \notin disturbed /\ status[t] # "deleted" => Len(received[t]) = Number(t)

\* A request goes through the items it has fetched, with the calls of its handler.
RequestsHold ==
  \A w \in Workers :
    /\ IF Busy(w) THEN at[w] \in Transfers /\ way[w] \in Route
                  ELSE at[w] = NoTransfer /\ next[w] = 1
    /\ Looping(w) => todo[w] = Number(at[w]) /\ next[w] \in 1..todo[w]
    /\ pc[w] = "reserve" => serving[w] = "confirm" /\ object[w] = "draft"
    /\ pc[w] = "release" => serving[w] \in {"receive", "cancel"} /\ object[w] = "in_transit"
    /\ pc[w] \in {"move", "record"} => serving[w] = "receive" /\ object[w] = "in_transit"
    /\ pc[w] = "save" => Allowed(serving[w], object[w])

\* Two requests on one transfer disturb it.
ServedAlone ==
  \A v, w \in Workers : v # w /\ at[v] = at[w] /\ Busy(w) => at[w] \in disturbed

\* A request alone on a transfer has it as it is.
FreshCopies ==
  \A w \in Workers :
    Busy(w) /\ at[w] \notin disturbed =>
      object[w] = status[at[w]] /\ way[w] = route[at[w]] /\ todo[w] = Number(at[w])

\* The items whose first call a request has made, and those it is done with.
Called(w) ==
  IF pc[w] = "save" THEN 1..todo[w]
  ELSE {i \in 1..next[w] : i = next[w] => pc[w] \in {"move", "record"}}

Finished(w) ==
  IF pc[w] = "save" THEN 1..todo[w] ELSE 1..(next[w] - 1)

Reserving(w) == serving[w] = "confirm" /\ pc[w] \in {"reserve", "save"}

Releasing(w) ==
  \/ pc[w] \in {"release", "move", "record"}
  \/ /\ pc[w] = "save"
     /\ FirstCall(serving[w], object[w]) = "release"

\* A row holds its quantity while its transfer is in transit, less what the
\* request that serves it has released, or as soon as that has reserved it.
Holds(r) ==
  \/ /\ status[r[1]] = "in_transit"
     /\ \A w \in Workers : at[w] = r[1] /\ Releasing(w) => r[2] \notin Called(w)
  \/ \E w \in Workers : at[w] = r[1] /\ Reserving(w) /\ r[2] \in Called(w)

Holding(k) ==
  SumFunctionOnSet([r \in ItemRows |-> IF Holds(r) /\ KeyOf(r) = k THEN QtyOf(r) ELSE 0], ItemRows)

ReservedIsHeld == disturbed = {} => \A k \in Keys : reserved[k] = Holding(k)

\* The movement of a row: recorded, made and not recorded yet, or none.
MovesRows(w) == Busy(w) /\ pc[w] # "refuse" /\ serving[w] = "receive"

Recorded(t, i) ==
  \/ status[t] = "received"
  \/ \E w \in Workers : at[w] = t /\ MovesRows(w) /\ i \in Finished(w)

MovedOnce ==
  \A t \in Transfers \ disturbed :
    status[t] # "deleted" =>
      \A i \in 1..Number(t) :
        /\ Recorded(t, i) => moved[t][i] = <<received[t][i]>>
        /\ \A w \in Workers : at[w] = t /\ pc[w] = "record" /\ i = next[w] =>
             moved[t][i] = <<qty[w]>>
        /\ ~Recorded(t, i) /\ (\A w \in Workers : at[w] = t /\ pc[w] = "record" => i # next[w])
             => moved[t][i] = <<>>

TransfersInv ==
  TypeOK /\ RowsKept /\ RequestsHold /\ ServedAlone /\ FreshCopies /\ MovedOnce
=============================================================================
