---------------------------- MODULE SalesOrders ----------------------------
(***************************************************************************)
(* apps/sales: the life of sales orders under concurrent requests.         *)
(*                                                                         *)
(* Every handler of SalesOrderViewSet first runs get_object, an ordinary   *)
(* SELECT outside any transaction, and then decides and writes from that   *)
(* Python object: two steps, with other requests in between.  The second   *)
(* step is one transaction; its stock effect is one Post of StockLedger,   *)
(* which StockService implements.                                          *)
(***************************************************************************)
EXTENDS Integers, Sequences, FiniteSetsExt

CONSTANTS
  Workers,      \* requests in flight at one time
  Orders,       \* orders left in DRAFT by SalesService.create_order
  Customers,
  Warehouses,
  Products,     \* products with their variants
  CustomerOf,   \* [Orders -> Customers or NoCustomer], given by create_order
  WarehouseOf,  \* [Orders -> Warehouses], given by create_order
  Lines,        \* [Orders -> sequence of [product, qty]], the active items
  Total,        \* [Orders -> Nat], total_amount, fixed by create_order
  OpeningStock, \* [Keys -> Nat]
  Amounts,      \* amounts a client pays
  Loads,        \* what the clients of one behaviour do: [orders, calls, edits,
                \* customers, pays, posts], the orders they are about, the
                \* handlers they call, what they change with PUT or PATCH of an
                \* order ([field, value]), the customers they edit, and two
                \* bounds: no new pay request for an order with pays payments,
                \* and no new confirm or cancel for one with posts postings
  MaxPaid,      \* bound: nor pay with this amount_paid or outstanding balance
  NoOrder,      \* no row
  NoCustomer    \* an order's customer may be null

VARIABLES
  order,        \* [Orders -> SalesOrder row or NoOrder]
  items,        \* [Orders -> its item rows], Lines until they are deleted
  payments,     \* [Orders -> Seq([amount, method, payer])], Payment rows with,
                \* as history, the customer the order had for the request
  balance,      \* [Customers -> Int], Customer.outstanding_balance
  onHand, reserved, ledger, negativeOK,  \* the stock, see StockLedger
  posted,       \* history: [Orders -> Seq(Posting)], where its stock has gone
  load,         \* the element of Loads, for the whole behaviour
  serving,      \* [Workers -> handler being run, or "idle"]
  at,           \* [Workers -> the order it fetched]
  object,       \* [Workers -> the row as fetched]
  whose,        \* [Workers -> the customer it fetched, an order's or by itself]
  credit,       \* [Workers -> its outstanding_balance as fetched]
  stale,        \* history: workers whose fetched order has changed since
  overlapped,   \* history: orders written from a stale object
  edited,       \* history: orders whose status or amounts a client has set
  moved,        \* history: orders sent to another warehouse after a posting
  blurred,      \* history: customers whose Payment rows were deleted
  lost          \* history: customers whose balance was written from a stale copy

rows    == <<order, items, payments, balance, posted>>
stock   == <<onHand, reserved, ledger, negativeOK>>
request == <<load, serving, at, object, whose, credit>>
history == <<stale, overlapped, edited, moved, blurred, lost>>
vars    == <<rows, stock, request, history>>

Keys == Warehouses \X Products  \* the stock keys

Status == {"draft", "confirmed", "processing", "packed", "shipped",
           "delivered", "cancelled", "returned"}
PaymentStatus == {"unpaid", "partial", "paid", "overpaid", "refunded"}
Methods == {"cash", "credit"}  \* the other methods are recorded like cash
Handlers == {"confirm", "pay", "cancel", "deliver", "update", "destroy"}

Buyers == Customers \union {NoCustomer}

SalesOrder == [customer : Buyers, warehouse : Warehouses, status : Status,
               amount_paid : Int, amount_due : Nat, payment_status : PaymentStatus]
Payment    == [amount : Amounts, method : Methods, payer : Buyers]
Posting    == [what : {"sale", "void"}, warehouse : Warehouses]

\* What PUT and PATCH may set, of the fields modelled.
Edits == [field : {"status"}, value : Status] \union
         [field : {"amount_paid"}, value : Int] \union
         [field : {"customer"}, value : Buyers] \union
         [field : {"warehouse"}, value : Warehouses] \union
         [field : {"notes"}, value : {"x"}]

ASSUME OrdersAssumption ==
  /\ IsFiniteSet(Orders)
  /\ CustomerOf \in [Orders -> Buyers] /\ NoCustomer \notin Customers
  /\ WarehouseOf \in [Orders -> Warehouses]
  /\ Total \in [Orders -> Nat]
  /\ OpeningStock \in [Keys -> Nat]
  /\ Amounts \subseteq Nat \ {0}
  /\ NoOrder \notin SalesOrder
  /\ Lines \in [Orders -> Seq([product : Products, qty : Nat \ {0}])]
  /\ \A l \in Loads : l.edits \subseteq Edits /\ l.customers \subseteq Customers

\* process_sale takes the lines out of a warehouse, and cancel_order receives
\* them into one.
SaleBatch(lines, a) ==
  [i \in 1..Len(lines) |-> [key |-> <<a, lines[i].product>>, qty |-> -lines[i].qty]]
VoidBatch(lines, a) ==
  [i \in 1..Len(lines) |-> [key |-> <<a, lines[i].product>>, qty |-> lines[i].qty]]

Stock == INSTANCE StockLedger WITH
  Batches <- UNION {{SaleBatch(Lines[o], a), VoidBatch(Lines[o], a)} :
                      o \in Orders, a \in Warehouses},
  Holds   <- {}

Sale(a) == [what |-> "sale", warehouse |-> a]
Void(a) == [what |-> "void", warehouse |-> a]

\* update_payment_status
PaymentStatusFor(paid, total) ==
  CASE paid <= 0                 -> "unpaid"
    [] paid > 0 /\ paid >= total -> "paid"
    [] OTHER                     -> "partial"

\* Mutant: no floor of zero.
AmountDueUnclamped(paid, total) == total - paid

AmountDue(paid, total) == Max({total - paid, 0})

-----------------------------------------------------------------------------
\* create_order, with the stock the warehouse opened with.
Init ==
  /\ order = [o \in Orders |->
       [customer |-> CustomerOf[o], warehouse |-> WarehouseOf[o], status |-> "draft",
        amount_paid |-> 0, amount_due |-> AmountDue(0, Total[o]),
        payment_status |-> "unpaid"]]
  /\ items = Lines
  /\ payments = [o \in Orders |-> <<>>]
  /\ balance = [c \in Customers |-> 0]
  /\ Stock!Opened(OpeningStock)
  /\ posted = [o \in Orders |-> <<>>]
  /\ load \in Loads
  /\ serving = [w \in Workers |-> "idle"]
  /\ at = [w \in Workers |-> NoOrder]
  /\ object = [w \in Workers |-> NoOrder]
  /\ whose = [w \in Workers |-> NoCustomer]
  /\ credit = [w \in Workers |-> 0]
  /\ stale = {} /\ overlapped = {} /\ edited = {} /\ moved = {} /\ blurred = {} /\ lost = {}

WithinBounds(h, o) ==
  /\ o \in load.orders /\ h \in load.calls
  /\ h = "pay" => /\ Len(payments[o]) < load.pays[o]
                  /\ order[o].amount_paid < MaxPaid
                  /\ \A c \in Customers : balance[c] < MaxPaid
  /\ h \in {"confirm", "cancel"} => Len(posted[o]) < load.posts

\* What the row of a customer says, if there is one.
Owed(c) == IF c \in Customers THEN balance[c] ELSE 0

\* get_object: the order and, with select_related, its customer.
Fetch(w, h, o) ==
  /\ serving[w] = "idle"
  /\ order[o] # NoOrder
  /\ WithinBounds(h, o)
  /\ serving' = [serving EXCEPT ![w] = h]
  /\ at' = [at EXCEPT ![w] = o]
  /\ object' = [object EXCEPT ![w] = order[o]]
  /\ whose' = [whose EXCEPT ![w] = order[o].customer]
  /\ credit' = [credit EXCEPT ![w] = Owed(order[o].customer)]
  /\ UNCHANGED <<rows, stock, history, load>>

\* get_object of CustomerViewSet, for PUT or PATCH of a customer.
FetchCustomer(w, c) ==
  /\ serving[w] = "idle"
  /\ c \in load.customers
  /\ serving' = [serving EXCEPT ![w] = "customer"]
  /\ whose' = [whose EXCEPT ![w] = c]
  /\ credit' = [credit EXCEPT ![w] = balance[c]]
  /\ UNCHANGED <<rows, stock, history, load, at, object>>

\* The response is sent.
Respond(w) ==
  /\ serving' = [serving EXCEPT ![w] = "idle"]
  /\ object' = [object EXCEPT ![w] = NoOrder]
  /\ whose' = [whose EXCEPT ![w] = NoCustomer]
  /\ credit' = [credit EXCEPT ![w] = 0]
  /\ at' = [at EXCEPT ![w] = NoOrder]
  /\ UNCHANGED load

\* An error response: nothing was written, or all of it was rolled back.
Refuse(w) ==
  /\ Respond(w)
  /\ stale' = stale \ {w}
  /\ UNCHANGED <<rows, stock, overlapped, edited, moved, blurred, lost>>

\* History: w has written its order; whoever else has fetched it is stale now.
Wrote(w) ==
  /\ stale' = (stale \ {w}) \union
       {v \in Workers \ {w} : at[v] = at[w]}
  /\ overlapped' = overlapped \union {o \in {at[w]} : w \in stale}

Serves(w, h) == serving[w] = h
Exists(w)    == order[at[w]] # NoOrder

\* save(update_fields=["status", ...]) writes one row or raises.
SaveStatus(w, s) ==
  /\ Exists(w)
  /\ order' = [order EXCEPT ![at[w]].status = s]

\* Mutant: no check of the status.
ConfirmAnyStatus(w) ==
  /\ Serves(w, "confirm")
  /\ Stock!Post(SaleBatch(items[at[w]], object[w].warehouse))
  /\ SaveStatus(w, "confirmed")
  /\ posted' = [posted EXCEPT ![at[w]] = Append(@, Sale(object[w].warehouse))]
  /\ Respond(w) /\ Wrote(w)
  /\ UNCHANGED <<items, payments, balance, edited, moved, blurred, lost>>

\* confirm_order: the status of the fetched object decides, and its warehouse.
Confirm(w) ==
  /\ Serves(w, "confirm")
  /\ object[w].status = "draft"
  /\ Stock!Post(SaleBatch(items[at[w]], object[w].warehouse))
  /\ SaveStatus(w, "confirmed")
  /\ posted' = [posted EXCEPT ![at[w]] = Append(@, Sale(object[w].warehouse))]
  /\ Respond(w) /\ Wrote(w)
  /\ UNCHANGED <<items, payments, balance, edited, moved, blurred, lost>>

\* OrderAlreadyProcessedException, InsufficientStockException, or no row left.
ConfirmRefused(w) ==
  /\ Serves(w, "confirm")
  /\ \/ object[w].status # "draft"
     \/ ~Stock!Fits(SaleBatch(items[at[w]], object[w].warehouse))
     \/ ~Exists(w)
  /\ Refuse(w)

\* cancel_order of an order it sees as confirmed: the lines are received into the
\* warehouse it sees, not the one they were taken from.
CancelConfirmed(w) ==
  /\ Serves(w, "cancel")
  /\ object[w].status = "confirmed"
  /\ Stock!Post(VoidBatch(items[at[w]], object[w].warehouse))
  /\ SaveStatus(w, "cancelled")
  /\ posted' = [posted EXCEPT ![at[w]] = Append(@, Void(object[w].warehouse))]
  /\ Respond(w) /\ Wrote(w)
  /\ UNCHANGED <<items, payments, balance, edited, moved, blurred, lost>>

\* Mutant: a delivered order may be cancelled.
CancelDelivered(w) ==
  /\ Serves(w, "cancel")
  /\ object[w].status # "confirmed"
  /\ SaveStatus(w, "cancelled")
  /\ Respond(w) /\ Wrote(w)
  /\ UNCHANGED <<items, payments, balance, posted, stock, edited, moved, blurred, lost>>

\* cancel_order of an order it sees in any other status but the last ones.
CancelOther(w) ==
  /\ Serves(w, "cancel")
  /\ object[w].status \notin {"confirmed", "delivered", "returned"}
  /\ SaveStatus(w, "cancelled")
  /\ Respond(w) /\ Wrote(w)
  /\ UNCHANGED <<items, payments, balance, posted, stock, edited, moved, blurred, lost>>

CancelRefused(w) ==
  /\ Serves(w, "cancel")
  /\ \/ object[w].status \in {"delivered", "returned"}
     \/ /\ object[w].status = "confirmed"
        /\ ~Stock!Fits(VoidBatch(items[at[w]], object[w].warehouse))
     \/ ~Exists(w)
  /\ Refuse(w)

Deliver(w) ==
  /\ Serves(w, "deliver")
  /\ object[w].status \in {"confirmed", "packed", "shipped"}
  /\ SaveStatus(w, "delivered")
  /\ Respond(w) /\ Wrote(w)
  /\ UNCHANGED <<items, payments, balance, posted, stock, edited, moved, blurred, lost>>

DeliverRefused(w) ==
  /\ Serves(w, "deliver")
  /\ object[w].status \notin {"confirmed", "packed", "shipped"} \/ ~Exists(w)
  /\ Refuse(w)

\* Mutant: amount_paid is set to the amount.
PaidOverwritten(w, amount) == amount

\* order.amount_paid += amount, on the fetched object.
NewPaid(w, amount) == object[w].amount_paid + amount

\* Mutant: the status is computed before the amount is added.
StatusBefore(w, amount) == PaymentStatusFor(object[w].amount_paid, Total[at[w]])

NewStatus(w, amount) == PaymentStatusFor(NewPaid(w, amount), Total[at[w]])

\* Mutant: every payment raises the customer's balance.
EveryPayment(method) == TRUE

RaisesBalance(method) == method = "credit"

\* customer.save() with a balance that was read with the row.
WriteBalance(w, owed) ==
  LET c == whose[w]
  IN  /\ balance' = [balance EXCEPT ![c] = owed]
      /\ lost' = lost \union {d \in {c} : balance[d] # credit[w]}

\* record_payment: whatever the status, the amounts of the fetched object are
\* added to and written back; a payment on credit also raises the balance the
\* customer had when the order was fetched.
Pay(w, amount, method) ==
  LET o == at[w]
  IN  /\ Serves(w, "pay")
      /\ Exists(w)
      /\ payments' = [payments EXCEPT ![o] =
           Append(@, [amount |-> amount, method |-> method, payer |-> whose[w]])]
      /\ order' = [order EXCEPT
           ![o].amount_paid = NewPaid(w, amount),
           ![o].amount_due = AmountDue(NewPaid(w, amount), Total[o]),
           ![o].payment_status = NewStatus(w, amount)]
      /\ IF whose[w] # NoCustomer /\ RaisesBalance(method)
           THEN WriteBalance(w, credit[w] + amount) ELSE UNCHANGED <<balance, lost>>
      /\ Respond(w) /\ Wrote(w)
      /\ UNCHANGED <<items, posted, stock, edited, moved, blurred>>

\* The order is gone: the Payment has nothing to refer to.
PayRefused(w) ==
  /\ Serves(w, "pay")
  /\ ~Exists(w)
  /\ Refuse(w)

\* PUT and PATCH: ModelSerializer.update sets the fields and calls save(), which
\* writes every column of the fetched object, and inserts a row that has gone,
\* without the items it had.
Update(w, edit) ==
  LET o == at[w]
  IN  /\ Serves(w, "update")
      /\ order' = [order EXCEPT ![o] =
           IF edit.field = "notes" THEN object[w]
             ELSE [object[w] EXCEPT ![edit.field] = edit.value]]
      /\ edited' = edited \union {p \in {o} : edit.field \in {"status", "amount_paid"}}
      /\ moved' = moved \union {p \in {o} : edit.field = "warehouse" /\ posted[o] # <<>>}
      /\ Respond(w) /\ Wrote(w)
      /\ UNCHANGED <<items, payments, balance, posted, stock, blurred, lost>>

\* PUT and PATCH of a customer: outstanding_balance is read-only for the client,
\* and save() writes the fetched one back.
UpdateCustomer(w) ==
  /\ Serves(w, "customer")
  /\ WriteBalance(w, credit[w])
  /\ Respond(w)
  /\ UNCHANGED <<order, items, payments, posted, stock, stale, overlapped, edited,
                 moved, blurred>>

\* DELETE: the row goes, and its items and payments with it.
Destroy(w) ==
  LET o == at[w]
  IN  /\ Serves(w, "destroy")
      /\ order' = [order EXCEPT ![o] = NoOrder]
      /\ items' = [items EXCEPT ![o] = <<>>]
      /\ payments' = [payments EXCEPT ![o] = <<>>]
      /\ blurred' = blurred \union {payments[o][i].payer : i \in DOMAIN payments[o]}
      /\ Respond(w) /\ Wrote(w)
      /\ UNCHANGED <<balance, posted, stock, edited, moved, lost>>

Act(w) ==
  \/ Confirm(w) \/ ConfirmRefused(w)
  \/ CancelConfirmed(w) \/ CancelOther(w) \/ CancelRefused(w)
  \/ Deliver(w) \/ DeliverRefused(w)
  \/ \E a \in Amounts, m \in Methods : Pay(w, a, m)
  \/ PayRefused(w)
  \/ \E edit \in load.edits : Update(w, edit)
  \/ UpdateCustomer(w)
  \/ Destroy(w)

Next ==
  \E w \in Workers :
    \/ \E h \in Handlers, o \in Orders : Fetch(w, h, o)
    \/ \E c \in Customers : FetchCustomer(w, c)
    \/ Act(w)

Spec == Init /\ [][Next]_vars

-----------------------------------------------------------------------------
(* Properties.                                                             *)

RowsTyped ==
  /\ order \in [Orders -> SalesOrder \union {NoOrder}]
  /\ DOMAIN items = Orders /\ \A o \in Orders : items[o] \in {Lines[o], <<>>}
  /\ payments \in [Orders -> Seq(Payment)]
  /\ balance \in [Customers -> Nat]
  /\ posted \in [Orders -> Seq(Posting)]
  /\ serving \in [Workers -> Handlers \union {"customer", "idle"}]
  /\ at \in [Workers -> Orders \union {NoOrder}]
  /\ object \in [Workers -> SalesOrder \union {NoOrder}]
  /\ whose \in [Workers -> Buyers]
  /\ credit \in [Workers -> Nat]
  /\ stale \subseteq Workers
  /\ overlapped \subseteq Orders /\ edited \subseteq Orders /\ moved \subseteq Orders
  /\ blurred \subseteq Buyers /\ lost \subseteq Customers

TypeOK == RowsTyped /\ onHand \in [Keys -> Int]

\* Orders only the handlers of their life cycle have written, one at a time.
Orderly == {o \in Orders \ (overlapped \union edited) : order[o] # NoOrder}

\* The stock an order has moved is what its status says, as long as no request
\* wrote it from a stale object and no client set its status: sold once, from its
\* warehouse, when confirmed, and returned there when cancelled after that
\* (sales_service.py:67, 136), unless a client gave it another one in between.
StockMatchesStatus ==
  \A o \in Orderly :
    /\ order[o].status = "draft" => posted[o] = <<>>
    /\ order[o].status = "cancelled" =>
         \/ posted[o] = <<>>
         \/ \E a, b \in Warehouses : posted[o] = <<Sale(a), Void(b)>> /\ (o \notin moved => a = b)
    /\ order[o].status \notin {"draft", "cancelled"} =>
         \E a \in Warehouses :
           /\ posted[o] = <<Sale(a)>>
           /\ o \notin moved => order[o].warehouse = a

SumOf(s) == SumFunction([i \in 1..Len(s) |-> s[i].amount])

\* Under the same condition amount_paid is the sum of the Payment rows.
PaidIsPayments ==
  \A o \in Orderly : order[o].amount_paid = SumOf(payments[o])

Agrees(row, total) ==
  /\ row.amount_due = AmountDue(row.amount_paid, total)
  /\ row.payment_status = PaymentStatusFor(row.amount_paid, total)

\* amount_due and payment_status follow from amount_paid and the total, even
\* when requests overwrite each other, unless a client sets amount_paid.
AmountsAgree ==
  \A o \in Orders \ edited : order[o] # NoOrder => Agrees(order[o], Total[o])

CreditOf(c, s) ==
  SumFunction([i \in 1..Len(s) |->
    IF s[i].method = "credit" /\ s[i].payer = c THEN s[i].amount ELSE 0])

\* What c has paid on credit, on every order.
CreditTo(c) == SumFunction([o \in Orders |-> CreditOf(c, payments[o])])

\* A customer's outstanding balance is what was paid on credit on the orders that
\* were theirs at the time, whoever has them now, and is never more: requests that
\* write it back from an old reading, payments and edits of the customer alike,
\* only lose such payments (sales_service.py:123-126).  Deleting an order leaves
\* its credit in the balance.
BalanceIsCredit ==
  \A c \in Customers \ blurred :
    /\ balance[c] <= CreditTo(c)
    /\ c \notin lost => balance[c] = CreditTo(c)

\* A delivered order is never taken out of that status but by a request with a
\* stale object or by a client that sets the status (sales_service.py:137-140).
DeliveredIsFinal ==
  [][\A o \in Orders :
       order[o] # NoOrder /\ order[o].status = "delivered" /\ order'[o] # NoOrder
         => order'[o].status = "delivered" \/ o \in overlapped' \union edited']_vars

\* What the doc comments say with no such condition.

\* confirm_order: "Transitions: DRAFT -> CONFIRMED", so an order nobody edits or
\* cancels is sold at most once.
SoldOnce ==
  \A o \in Orders \ edited : Len(SelectSeq(posted[o], LAMBDA p : p.what = "sale")) <= 1

-----------------------------------------------------------------------------
(* The inductive invariant behind them.                                    *)

\* A request holds a copy of its order: the row as it is, unless another has
\* written it since.
CopiesHold ==
  \A w \in Workers : serving[w] \in Handlers =>
    /\ at[w] \in Orders /\ object[w] \in SalesOrder
    /\ w \notin stale => object[w] = order[at[w]]
    /\ at[w] \notin edited => Agrees(object[w], Total[at[w]])

\* The statuses that handlers give an order: the others come from clients only.
StatusesHold ==
  \A o \in Orderly : order[o].status \in {"draft", "confirmed", "delivered", "cancelled"}

\* A request of CustomerViewSet holds a customer.
CustomersHold == \A w \in Workers : serving[w] = "customer" => whose[w] \in Customers

SInv ==
  /\ RowsTyped /\ load \in Loads
  /\ CopiesHold
  /\ CustomersHold
  /\ StatusesHold
  /\ StockMatchesStatus
  /\ AmountsAgree

\* What a request has read of a balance was on credit then, and still is.
CreditRead ==
  \A w \in Workers, c \in Customers \ blurred : whose[w] = c => credit[w] <= CreditTo(c)
=============================================================================
