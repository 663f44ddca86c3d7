------------------------- MODULE SalesOrdersProofs -------------------------
(***************************************************************************)
(* Theorems about SalesOrders, for every set of requests, orders, lines,   *)
(* payments and client edits.                                              *)
(***************************************************************************)
EXTENDS SalesOrders, SequenceTheorems, SumLemmas, TLAPS

-----------------------------------------------------------------------------
(* The derived amounts.                                                    *)

LEMMA AmountDueType ==
  ASSUME NEW paid \in Int, NEW total \in Nat
  PROVE  AmountDue(paid, total) \in Nat
<1>1. PICK m \in {total - paid, 0} : \A x \in {total - paid, 0} : m >= x
  <2>1. CASE total - paid >= 0
    BY <2>1
  <2>2. CASE total - paid < 0
    BY <2>2
  <2>3. QED BY <2>1, <2>2
<1>2. /\ Max({total - paid, 0}) \in {total - paid, 0}
      /\ \A x \in {total - paid, 0} : Max({total - paid, 0}) >= x
  BY <1>1 DEF Max
<1>3. QED BY <1>2 DEF AmountDue

LEMMA PaymentStatusType ==
  ASSUME NEW paid \in Int, NEW total \in Nat
  PROVE  PaymentStatusFor(paid, total) \in PaymentStatus
<1>1. CASE paid <= 0
  BY <1>1 DEF PaymentStatusFor, PaymentStatus
<1>2. CASE ~(paid <= 0) /\ paid >= total
  BY <1>2 DEF PaymentStatusFor, PaymentStatus
<1>3. CASE ~(paid <= 0) /\ ~(paid >= total)
  BY <1>3 DEF PaymentStatusFor, PaymentStatus
<1>4. QED BY <1>1, <1>2, <1>3

-----------------------------------------------------------------------------
(* The initial states.                                                     *)

LEMMA InitSInv == Init => SInv
<1> SUFFICES ASSUME Init PROVE SInv
  OBVIOUS
<1> USE OrdersAssumption DEF Init
<1> DEFINE row(o) == [customer |-> CustomerOf[o], warehouse |-> WarehouseOf[o],
                      status |-> "draft", amount_paid |-> 0,
                      amount_due |-> AmountDue(0, Total[o]), payment_status |-> "unpaid"]
<1>1. \A o \in Orders : row(o) \in SalesOrder
  BY AmountDueType DEF SalesOrder, Status, PaymentStatus
<1>2. order \in [Orders -> SalesOrder \union {NoOrder}]
  BY <1>1
<1>3. RowsTyped
  BY <1>2 DEF RowsTyped, Buyers
<1>4. CopiesHold /\ CustomersHold
  BY DEF CopiesHold, CustomersHold, Handlers
<1>5. \A o \in Orders : order[o].status = "draft" /\ posted[o] = <<>> /\ Agrees(order[o], Total[o])
  <2>1. \A o \in Orders : order[o] = row(o) /\ posted[o] = <<>>
    OBVIOUS
  <2>2. \A o \in Orders : Agrees(row(o), Total[o])
    BY DEF Agrees, PaymentStatusFor
  <2>3. QED BY <2>1, <2>2
<1>6. StatusesHold /\ StockMatchesStatus /\ AmountsAgree
  BY <1>5 DEF StatusesHold, StockMatchesStatus, AmountsAgree, Orderly
<1>7. QED BY <1>3, <1>4, <1>6 DEF SInv

-----------------------------------------------------------------------------
(* What a step does to the row of an order.                                *)

\* A request that writes a row leaves the other rows alone and makes the copies
\* that others have of it stale.
Writes(w, o, row, postings) ==
  /\ w \in Workers /\ o \in Orders /\ serving[w] \in Handlers /\ at[w] = o
  /\ row \in SalesOrder \union {NoOrder}
  /\ order' = [order EXCEPT ![o] = row]
  /\ posted' = [posted EXCEPT ![o] = postings]
  /\ serving' = [serving EXCEPT ![w] = "idle"]
  /\ object' = [object EXCEPT ![w] = NoOrder]
  /\ whose' = [whose EXCEPT ![w] = NoCustomer]
  /\ at' = [at EXCEPT ![w] = NoOrder]
  /\ stale' = (stale \ {w}) \union {v \in Workers \ {w} : at[v] = o}
  /\ overlapped' = overlapped \union {p \in {o} : w \in stale}
  /\ edited \subseteq edited' /\ edited' \subseteq edited \union {o}
  /\ moved \subseteq moved' /\ moved' \subseteq moved \union {o}
  /\ load' = load

\* Such a step keeps the copies in order if the row it writes agrees.
LEMMA WritesCopies ==
  ASSUME RowsTyped, CopiesHold, CustomersHold, NEW w, NEW o, NEW row, NEW postings,
         Writes(w, o, row, postings)
  PROVE  CopiesHold' /\ CustomersHold'
<1> USE DEF Writes
<1>1. ASSUME NEW v \in Workers, serving'[v] # "idle"
      PROVE  /\ v # w /\ serving'[v] = serving[v] /\ at'[v] = at[v] /\ object'[v] = object[v]
             /\ whose'[v] = whose[v]
  BY <1>1 DEF RowsTyped
<1>2. ASSUME NEW v \in Workers, serving'[v] \in Handlers, v \notin stale'
      PROVE  order'[at[v]] = order[at[v]] /\ v \notin stale
  BY <1>1, <1>2 DEF RowsTyped, Handlers
<1>3. "idle" \notin Handlers
  BY DEF Handlers
<1>4. CopiesHold'
  BY <1>1, <1>2, <1>3 DEF CopiesHold
<1>5. CustomersHold'
  BY <1>1 DEF CustomersHold
<1>6. QED BY <1>4, <1>5

LEMMA WritesAmounts ==
  ASSUME RowsTyped, AmountsAgree, NEW w, NEW o, NEW row, NEW postings,
         Writes(w, o, row, postings),
         o \notin edited' /\ row # NoOrder => Agrees(row, Total[o])
  PROVE  AmountsAgree'
BY DEF Writes, AmountsAgree, RowsTyped

\* What an orderly row of o and its postings are to each other.
Matches(row, postings, o, away) ==
  /\ row.status \in {"draft", "confirmed", "delivered", "cancelled"}
  /\ row.status = "draft" => postings = <<>>
  /\ row.status = "cancelled" =>
       \/ postings = <<>>
       \/ \E a, b \in Warehouses : postings = <<Sale(a), Void(b)>> /\ (o \notin away => a = b)
  /\ row.status \notin {"draft", "cancelled"} =>
       \E a \in Warehouses :
         /\ postings = <<Sale(a)>>
         /\ o \notin away => row.warehouse = a

AllMatch == \A o \in Orderly : Matches(order[o], posted[o], o, moved)

LEMMA MatchesStock == AllMatch <=> StatusesHold /\ StockMatchesStatus
BY DEF AllMatch, Matches, StatusesHold, StockMatchesStatus

LEMMA WritesStock ==
  ASSUME RowsTyped, CopiesHold, AllMatch, NEW w, NEW o, NEW row, NEW postings,
         Writes(w, o, row, postings),
         (/\ o \notin edited' /\ row # NoOrder
          /\ object[w] = order[o] /\ Matches(object[w], posted[o], o, moved))
            => Matches(row, postings, o, moved')
  PROVE  AllMatch'
<1> USE DEF Writes
<1>1. ASSUME NEW p \in Orderly', p # o PROVE Matches(order'[p], posted'[p], p, moved')
  <2>1. p \in Orderly /\ order'[p] = order[p] /\ posted'[p] = posted[p]
    BY <1>1 DEF Orderly, RowsTyped
  <2>2. p \notin moved' => p \notin moved
    OBVIOUS
  <2>3. QED BY <2>1, <2>2 DEF AllMatch, Matches
<1>2. ASSUME o \in Orderly' PROVE Matches(order'[o], posted'[o], o, moved')
  <2>1. o \notin edited' /\ o \notin overlapped' /\ row # NoOrder
        /\ order'[o] = row /\ posted'[o] = postings
    BY <1>2 DEF Orderly, RowsTyped
  <2>2. w \notin stale /\ o \notin overlapped /\ o \notin edited
    BY <2>1
  <2>3. object[w] = order[o] /\ order[o] # NoOrder
    BY <2>2, OrdersAssumption DEF CopiesHold
  <2>4. Matches(object[w], posted[o], o, moved)
    BY <2>2, <2>3 DEF AllMatch, Orderly
  <2>5. QED BY <2>1, <2>3, <2>4
<1>3. QED BY <1>1, <1>2 DEF AllMatch

LEMMA WritesDelivered ==
  ASSUME RowsTyped, CopiesHold, NEW w, NEW o, NEW row, NEW postings,
         Writes(w, o, row, postings),
         object[w].status = "delivered" /\ row # NoOrder
           => row.status = "delivered" \/ o \in edited'
  PROVE  \A p \in Orders :
           order[p] # NoOrder /\ order[p].status = "delivered" /\ order'[p] # NoOrder
             => order'[p].status = "delivered" \/ p \in overlapped' \union edited'
BY DEF Writes, CopiesHold, RowsTyped

-----------------------------------------------------------------------------
(* The handlers.                                                           *)

\* What the request of w holds.
LEMMA Holding ==
  ASSUME SInv, NEW w \in Workers, serving[w] \in Handlers
  PROVE  /\ at[w] \in Orders /\ object[w] \in SalesOrder /\ object[w] # NoOrder
         /\ object[w].warehouse \in Warehouses
BY OrdersAssumption DEF SInv, CopiesHold, SalesOrder

SavedRow(o, status) == [order[o] EXCEPT !.status = status]

\* The status saved by a handler, with what it has posted.
SavesStatus(w, o, status, postings) ==
  /\ order[o] \in SalesOrder
  /\ Writes(w, o, SavedRow(o, status), postings)
  /\ edited' = edited /\ moved' = moved
  /\ UNCHANGED <<items, payments, balance, blurred, lost>>
  /\ credit' = [credit EXCEPT ![w] = 0]

\* Saving a status is in order if the status and the postings go together.
LEMMA SavedStatus ==
  ASSUME SInv, NEW w, NEW o, NEW status \in {"confirmed", "cancelled", "delivered"},
         NEW postings \in Seq(Posting), SavesStatus(w, o, status, postings),
         object[w] = order[o] /\ Matches(object[w], posted[o], o, moved)
           => Matches(SavedRow(o, status), postings, o, moved),
         object[w].status # "delivered"
  PROVE  /\ SInv'
         /\ \A p \in Orders :
              order[p] # NoOrder /\ order[p].status = "delivered" /\ order'[p] # NoOrder
                => order'[p].status = "delivered" \/ p \in overlapped' \union edited'
<1> DEFINE row == SavedRow(o, status)
<1>1. row \in SalesOrder /\ row.status = status
      /\ row.amount_paid = order[o].amount_paid /\ row.amount_due = order[o].amount_due
      /\ row.payment_status = order[o].payment_status
  BY DEF SavesStatus, SalesOrder, Status, SavedRow
<1>2. Writes(w, o, row, postings) /\ order[o] # NoOrder /\ o \in Orders /\ edited' = edited
  BY OrdersAssumption DEF SavesStatus, Writes
<1>3. RowsTyped'
  BY <1>1, <1>2 DEF SavesStatus, Writes, SInv, RowsTyped, Buyers
<1>4. Agrees(order[o], Total[o]) => Agrees(row, Total[o])
  BY <1>1 DEF Agrees
<1> HIDE DEF row
<1>5. CopiesHold' /\ CustomersHold'
  BY <1>2, WritesCopies DEF SInv
<1>6. AmountsAgree'
  BY <1>2, <1>4, WritesAmounts DEF SInv, AmountsAgree
<1>7. AllMatch'
  <2>1. moved' = moved
    BY DEF SavesStatus
  <2>2. object[w] = order[o] /\ Matches(object[w], posted[o], o, moved)
          => Matches(row, postings, o, moved')
    BY <2>1 DEF row
  <2>3. QED BY <1>2, <2>2, WritesStock, MatchesStock DEF SInv
<1>8. \A p \in Orders :
        order[p] # NoOrder /\ order[p].status = "delivered" /\ order'[p] # NoOrder
          => order'[p].status = "delivered" \/ p \in overlapped' \union edited'
  BY <1>2, WritesDelivered DEF SInv
<1>9. StatusesHold' /\ StockMatchesStatus'
  BY <1>7, MatchesStock, PTL
<1>10. QED BY <1>2, <1>3, <1>5, <1>6, <1>8, <1>9 DEF SInv, Writes

\* DeliveredIsFinal, as an action.
KeepsDelivered ==
  \A o \in Orders :
    order[o] # NoOrder /\ order[o].status = "delivered" /\ order'[o] # NoOrder
      => order'[o].status = "delivered" \/ o \in overlapped' \union edited'

LEMMA ExistingRow ==
  ASSUME RowsTyped, NEW w \in Workers, at[w] \in Orders, Exists(w)
  PROVE  order[at[w]] \in SalesOrder
BY DEF RowsTyped, Exists

\* confirm_order: a draft that is still one has moved no stock.
LEMMA ConfirmStep ==
  ASSUME SInv, NEW w \in Workers, Confirm(w)
  PROVE  SInv' /\ KeepsDelivered
<1>1. PICK o \in Orders : o = at[w]
  BY Holding DEF Confirm, Serves, Handlers
<1>2. /\ posted[o] \in Seq(Posting)
      /\ order[o] \in SalesOrder /\ object[w].warehouse \in Warehouses
  BY <1>1, Holding, ExistingRow DEF Confirm, SaveStatus, SInv, RowsTyped, Serves, Handlers
<1> DEFINE a == object[w].warehouse
           row == SavedRow(o, "confirmed")
<1>3. SavesStatus(w, o, "confirmed", Append(posted[o], Sale(a)))
  BY <1>1, <1>2 DEF SavesStatus, SavedRow, Writes, Confirm, Serves, SaveStatus, Respond, Wrote, SalesOrder,
     Status, SInv, Handlers
<1>4. posted[o] = <<>> => Append(posted[o], Sale(a)) = <<Sale(a)>>
  OBVIOUS
<1>5. object[w].status = "draft"
  BY DEF Confirm
<1>6. Append(posted[o], Sale(a)) \in Seq(Posting)
  BY <1>2 DEF Sale, Posting
<1>7. row.status = "confirmed" /\ (object[w] = order[o] => row.warehouse = a)
  BY <1>2 DEF SalesOrder, SavedRow
<1> HIDE DEF a, row
<1>8. object[w] = order[o] /\ Matches(object[w], posted[o], o, moved)
        => Matches(row, Append(posted[o], Sale(a)), o, moved)
  BY <1>2, <1>4, <1>5, <1>7 DEF Matches, a
<1>9. QED BY <1>3, <1>5, <1>6, <1>8, SavedStatus DEF KeepsDelivered, row

LEMMA SaleVoided ==
  ASSUME NEW a \in Warehouses, NEW b \in Warehouses
  PROVE  Append(<<Sale(a)>>, Void(b)) = <<Sale(a), Void(b)>>
<1> DEFINE x == Sale(a)
           y == Void(b)
           S == {x, y}
<1>1. <<x>> \in Seq(S) /\ <<x, y>> \in Seq(S) /\ y \in S
  OBVIOUS
<1> DEFINE s == Append(<<x>>, y)
           t == <<x, y>>
<1>2. s \in Seq(S) /\ Len(s) = 2 /\ s[1] = x /\ s[2] = y
  <2> HIDE DEF x, y, S
  <2>1. QED BY <1>1, AppendProperties
<1>3. Len(t) = 2 /\ t[1] = x /\ t[2] = y /\ t \in Seq(S)
  OBVIOUS
<1> HIDE DEF s, t, x, y, S
<1>4. \A i \in 1..Len(s) : s[i] = t[i]
  BY <1>2, <1>3
<1>5. s = t
  BY <1>2, <1>3, <1>4, SeqEqual
<1>6. QED BY <1>5 DEF s, t, x, y

\* cancel_order of a confirmed order: what it has sold comes back.
LEMMA CancelConfirmedStep ==
  ASSUME SInv, NEW w \in Workers, CancelConfirmed(w)
  PROVE  SInv' /\ KeepsDelivered
<1>1. PICK o \in Orders : o = at[w]
  BY Holding DEF CancelConfirmed, Serves, Handlers
<1>2. /\ posted[o] \in Seq(Posting)
      /\ order[o] \in SalesOrder /\ object[w].warehouse \in Warehouses
  BY <1>1, Holding, ExistingRow DEF CancelConfirmed, SaveStatus, SInv, RowsTyped, Serves, Handlers
<1> DEFINE b == object[w].warehouse
           row == SavedRow(o, "cancelled")
<1>3. SavesStatus(w, o, "cancelled", Append(posted[o], Void(b)))
  BY <1>1, <1>2 DEF SavesStatus, SavedRow, Writes, CancelConfirmed, Serves, SaveStatus, Respond, Wrote,
     SalesOrder, Status, SInv, Handlers
<1>4. object[w].status = "confirmed"
  BY DEF CancelConfirmed
<1>5. Append(posted[o], Void(b)) \in Seq(Posting)
  BY <1>2 DEF Void, Posting
<1>6. row.status = "cancelled"
  BY <1>2 DEF SalesOrder, SavedRow
<1> HIDE DEF row, b
<1>7. ASSUME Matches(object[w], posted[o], o, moved)
      PROVE  Matches(row, Append(posted[o], Void(b)), o, moved)
  <2>1. PICK a \in Warehouses : posted[o] = <<Sale(a)>> /\ (o \notin moved => b = a)
    BY <1>4, <1>7 DEF Matches, b
  <2>2. Append(posted[o], Void(b)) = <<Sale(a), Void(b)>> /\ b \in Warehouses
    BY <1>2, <2>1, SaleVoided DEF b
  <2>3. QED BY <1>6, <2>1, <2>2 DEF Matches
<1>8. QED BY <1>3, <1>4, <1>5, <1>7, SavedStatus DEF KeepsDelivered, row

\* cancel_order of an order it does not see as confirmed, and deliver: no stock.
LEMMA StatusStep ==
  ASSUME SInv, NEW w \in Workers, CancelOther(w) \/ Deliver(w)
  PROVE  SInv' /\ KeepsDelivered
<1>1. PICK o \in Orders : o = at[w]
  BY Holding DEF CancelOther, Deliver, Serves, Handlers
<1>2. /\ posted[o] \in Seq(Posting)
      /\ order[o] \in SalesOrder
      /\ posted = [posted EXCEPT ![o] = posted[o]]
  BY <1>1, ExistingRow DEF CancelOther, Deliver, SaveStatus, SInv, RowsTyped
<1>6. \A status : /\ SavedRow(o, status).status = status
                  /\ SavedRow(o, status).warehouse = order[o].warehouse
  BY <1>2 DEF SalesOrder, SavedRow
<1>3. CASE CancelOther(w)
  <2>1. SavesStatus(w, o, "cancelled", posted[o])
    BY <1>1, <1>2, <1>3 DEF SavesStatus, SavedRow, Writes, CancelOther, Serves, SaveStatus, Respond, Wrote,
       SalesOrder, Status, SInv, Handlers
  <2>2. object[w].status \notin {"confirmed", "delivered", "returned"}
    BY <1>3 DEF CancelOther
  <2>3. object[w] = order[o] /\ Matches(object[w], posted[o], o, moved)
          => Matches(SavedRow(o, "cancelled"), posted[o], o, moved)
    BY <1>6, <2>2 DEF Matches
  <2>4. QED BY <1>2, <2>1, <2>2, <2>3, SavedStatus DEF KeepsDelivered
<1>4. CASE Deliver(w)
  <2>1. SavesStatus(w, o, "delivered", posted[o])
    BY <1>1, <1>2, <1>4 DEF SavesStatus, SavedRow, Writes, Deliver, Serves, SaveStatus, Respond, Wrote,
       SalesOrder, Status, SInv, Handlers
  <2>2. object[w].status \in {"confirmed", "packed", "shipped"}
    BY <1>4 DEF Deliver
  <2>3. object[w] = order[o] /\ Matches(object[w], posted[o], o, moved)
          => Matches(SavedRow(o, "delivered"), posted[o], o, moved)
    BY <1>6, <2>2 DEF Matches
  <2>4. QED BY <1>2, <2>1, <2>2, <2>3, SavedStatus DEF KeepsDelivered
<1>5. QED BY <1>3, <1>4

\* A row written back keeps the rest of SInv and what is delivered.
LEMMA WrittenBack ==
  ASSUME SInv, RowsTyped', NEW w, NEW o, NEW row, Writes(w, o, row, posted[o]),
         row # NoOrder /\ o \notin edited'
           => row.status = object[w].status /\ Agrees(row, Total[o]),
         row # NoOrder /\ o \notin moved' /\ posted[o] # <<>>
           => row.warehouse = object[w].warehouse
  PROVE  SInv' /\ KeepsDelivered
<1>1. CopiesHold' /\ CustomersHold'
  BY WritesCopies DEF SInv
<1>2. AmountsAgree'
  BY WritesAmounts DEF SInv
<1>3. AllMatch'
  <2>1. ASSUME o \notin edited', row # NoOrder, Matches(object[w], posted[o], o, moved)
        PROVE  Matches(row, posted[o], o, moved')
    <3>1. row.status = object[w].status /\ (o \notin moved' => o \notin moved)
      BY <2>1 DEF Writes
    <3>2. \A a \in Warehouses : posted[o] = <<Sale(a)>> => posted[o] # <<>>
      OBVIOUS
    <3>3. QED BY <2>1, <3>1, <3>2 DEF Matches
  <2>2. QED BY <2>1, WritesStock, MatchesStock DEF SInv
<1>4. KeepsDelivered
  BY WritesDelivered DEF SInv, KeepsDelivered
<1>5. StatusesHold' /\ StockMatchesStatus'
  BY <1>3, MatchesStock, PTL
<1>6. QED BY <1>1, <1>2, <1>4, <1>5 DEF SInv, Writes

\* record_payment: the amounts it writes follow from each other; the status it
\* leaves as it is in the row.
LEMMA PayStep ==
  ASSUME SInv, NEW w \in Workers, NEW amount \in Amounts, NEW method \in Methods,
         Pay(w, amount, method)
  PROVE  SInv' /\ KeepsDelivered
<1>1. PICK o \in Orders : o = at[w]
  BY Holding DEF Pay, Serves, Handlers
<1>2. /\ object[w] \in SalesOrder /\ order[o] \in SalesOrder
      /\ Total[o] \in Nat /\ amount \in Nat
  BY <1>1, Holding, ExistingRow, OrdersAssumption DEF Pay, Serves, SInv, Handlers
<1> DEFINE paid == NewPaid(w, amount)
           row == [order[o] EXCEPT !.amount_paid = paid, !.amount_due = AmountDue(paid, Total[o]),
                                   !.payment_status = PaymentStatusFor(paid, Total[o])]
<1>3. paid \in Int
  BY <1>2 DEF NewPaid, SalesOrder
<1> HIDE DEF paid
<1>4. /\ row \in SalesOrder /\ Agrees(row, Total[o])
      /\ row.status = order[o].status /\ row.warehouse = order[o].warehouse
  BY <1>2, <1>3, AmountDueType, PaymentStatusType DEF SalesOrder, Agrees
<1>5. order' = [order EXCEPT ![o] = row]
  BY <1>1 DEF Pay, NewStatus, SInv, RowsTyped, paid
<1>6. /\ Writes(w, o, row, posted[o])
      /\ UNCHANGED <<items, posted, edited, moved, blurred>>
      /\ credit' = [credit EXCEPT ![w] = 0]
  BY <1>1, <1>4, <1>5 DEF Writes, Pay, Serves, Respond, Wrote, SInv, RowsTyped, Handlers
<1>7. payments' \in [Orders -> Seq(Payment)]
  <2>1. [amount |-> amount, method |-> method, payer |-> whose[w]] \in Payment
    BY DEF Payment, SInv, RowsTyped
  <2>2. payments' = [payments EXCEPT
          ![o] = Append(@, [amount |-> amount, method |-> method, payer |-> whose[w]])]
    BY <1>1 DEF Pay
  <2>3. QED BY <2>1, <2>2 DEF SInv, RowsTyped
<1>8. balance' \in [Customers -> Nat] /\ lost' \subseteq Customers
  <2>1. credit[w] + amount \in Nat /\ whose[w] \in Buyers
    BY <1>2 DEF SInv, RowsTyped
  <2>2. CASE whose[w] # NoCustomer /\ RaisesBalance(method)
    <3>1. /\ balance' = [balance EXCEPT ![whose[w]] = credit[w] + amount]
          /\ lost' \subseteq lost \union {whose[w]}
      BY <2>2 DEF Pay, WriteBalance
    <3>2. whose[w] \in Customers
      BY <2>1, <2>2 DEF Buyers
    <3>3. QED BY <2>1, <3>1, <3>2 DEF SInv, RowsTyped
  <2>3. CASE ~(whose[w] # NoCustomer /\ RaisesBalance(method))
    BY <2>3 DEF Pay, SInv, RowsTyped
  <2>4. QED BY <2>2, <2>3
<1> HIDE DEF row
<1>9. RowsTyped'
  BY <1>4, <1>6, <1>7, <1>8 DEF SInv, RowsTyped, Writes, Buyers
<1>10. KeepsDelivered
  BY <1>4, <1>5 DEF KeepsDelivered, SInv, RowsTyped
<1>11. object[w] = order[o] /\ Matches(object[w], posted[o], o, moved)
         => Matches(row, posted[o], o, moved')
  BY <1>4, <1>6 DEF Matches
<1>12. CopiesHold' /\ CustomersHold' /\ AmountsAgree'
  BY <1>4, <1>6, WritesCopies, WritesAmounts DEF SInv
<1>13. AllMatch'
  BY <1>6, <1>11, WritesStock, MatchesStock DEF SInv
<1>14. StatusesHold' /\ StockMatchesStatus'
  BY <1>13, MatchesStock, PTL
<1>15. QED BY <1>6, <1>9, <1>10, <1>12, <1>14 DEF SInv, Writes

\* The row that PUT and PATCH write.
EditedRow(w, edit) ==
  IF edit.field = "notes" THEN object[w] ELSE [object[w] EXCEPT ![edit.field] = edit.value]

LEMMA EditKeeps ==
  ASSUME SInv, NEW w \in Workers, object[w] \in SalesOrder, NEW edit \in load.edits
  PROVE  LET row == EditedRow(w, edit)
         IN  /\ row \in SalesOrder
             /\ edit.field # "status" => row.status = object[w].status
             /\ edit.field # "warehouse" => row.warehouse = object[w].warehouse
             /\ edit.field # "amount_paid" => /\ row.amount_paid = object[w].amount_paid
                                            /\ row.amount_due = object[w].amount_due
                                            /\ row.payment_status = object[w].payment_status
<1> USE DEF EditedRow, SalesOrder
<1>1. edit \in Edits
  BY OrdersAssumption DEF SInv
<1>2. CASE edit.field = "status" /\ edit.value \in Status
  BY <1>2
<1>3. CASE edit.field = "amount_paid" /\ edit.value \in Int
  BY <1>3
<1>4. CASE edit.field = "customer" /\ edit.value \in Buyers
  BY <1>4
<1>5. CASE edit.field = "warehouse" /\ edit.value \in Warehouses
  BY <1>5
<1>6. CASE edit.field = "notes"
  BY <1>6
<1>7. QED BY <1>1, <1>2, <1>3, <1>4, <1>5, <1>6 DEF Edits

\* PUT and PATCH write back the copy, but for what the client sets.
LEMMA UpdateStep ==
  ASSUME SInv, NEW w \in Workers, NEW edit \in load.edits, Update(w, edit)
  PROVE  SInv' /\ KeepsDelivered
<1>1. PICK o \in Orders : o = at[w]
  BY Holding DEF Update, Serves, Handlers
<1> DEFINE row == EditedRow(w, edit)
<1>2. object[w] \in SalesOrder
  BY Holding DEF Update, Serves, Handlers
<1>4. /\ row \in SalesOrder
      /\ edit.field # "status" => row.status = object[w].status
      /\ edit.field # "warehouse" => row.warehouse = object[w].warehouse
      /\ edit.field # "amount_paid" => /\ row.amount_paid = object[w].amount_paid
                                     /\ row.amount_due = object[w].amount_due
                                     /\ row.payment_status = object[w].payment_status
  BY <1>2, EditKeeps
<1>5. /\ o \notin edited' => edit.field \notin {"status", "amount_paid"} /\ o \notin edited
      /\ o \notin moved' => edit.field # "warehouse" \/ posted[o] = <<>>
  BY <1>1 DEF Update
<1> HIDE DEF row
<1>6. order' = [order EXCEPT ![o] = row]
  BY <1>1 DEF Update, EditedRow, row
<1>7. /\ Writes(w, o, row, posted[o])
      /\ UNCHANGED <<items, payments, balance, posted, blurred, lost>>
      /\ credit' = [credit EXCEPT ![w] = 0]
  BY <1>1, <1>4, <1>6 DEF Writes, Update, Serves, Respond, Wrote, SInv, RowsTyped, Handlers
<1>8. RowsTyped'
  BY <1>4, <1>7 DEF SInv, RowsTyped, Writes, Buyers
<1>9. o \notin edited' => Agrees(row, Total[o]) /\ row.status = object[w].status
  <2>1. o \notin edited => Agrees(object[w], Total[o])
    BY <1>1 DEF Update, Serves, SInv, CopiesHold, Handlers
  <2>2. QED BY <1>4, <1>5, <2>1 DEF Agrees
<1>10. o \notin moved' /\ posted[o] # <<>> => row.warehouse = object[w].warehouse
  BY <1>4, <1>5
<1>11. QED BY <1>7, <1>8, <1>9, <1>10, WrittenBack

LEMMA DestroyStep ==
  ASSUME SInv, NEW w \in Workers, Destroy(w)
  PROVE  SInv' /\ KeepsDelivered
<1>1. PICK o \in Orders : o = at[w]
  BY Holding DEF Destroy, Serves, Handlers
<1>2. /\ Writes(w, o, NoOrder, posted[o])
      /\ UNCHANGED <<balance, posted, lost>>
      /\ credit' = [credit EXCEPT ![w] = 0]
      /\ items' = [items EXCEPT ![o] = <<>>]
      /\ payments' = [payments EXCEPT ![o] = <<>>]
      /\ blurred' = blurred \union {payments[o][i].payer : i \in DOMAIN payments[o]}
  BY <1>1 DEF Writes, Destroy, Serves, Respond, Wrote, SInv, RowsTyped, Handlers
<1>3. RowsTyped'
  <2>1. payments' \in [Orders -> Seq(Payment)]
    BY <1>2 DEF SInv, RowsTyped
  <2>2. DOMAIN items' = Orders /\ \A p \in Orders : items'[p] \in {Lines[p], <<>>}
    <3>1. DOMAIN items' = Orders /\ \A p \in Orders : items'[p] = items[p] \/ items'[p] = <<>>
      BY <1>2 DEF SInv, RowsTyped
    <3>2. QED BY <3>1 DEF SInv, RowsTyped
  <2>3. blurred' \subseteq Buyers
    <3>1. payments[o] \in Seq(Payment)
      BY DEF SInv, RowsTyped
    <3>2. \A i \in DOMAIN payments[o] : payments[o][i] \in Payment
      BY <3>1
    <3>3. \A i \in DOMAIN payments[o] : payments[o][i].payer \in Buyers
      BY <3>2 DEF Payment
    <3>4. QED BY <1>2, <3>3 DEF SInv, RowsTyped
  <2>4. QED BY <1>2, <2>1, <2>2, <2>3 DEF SInv, RowsTyped, Writes, Buyers
<1>4. QED BY <1>2, <1>3, WrittenBack

\* get_object: the copy is the row.
LEMMA FetchStep ==
  ASSUME SInv, NEW w \in Workers, NEW h \in Handlers, NEW o \in Orders, Fetch(w, h, o)
  PROVE  SInv' /\ KeepsDelivered
<1> USE DEF Fetch, rows, history
<1>1. order[o] \in SalesOrder /\ order[o].customer \in Buyers /\ Owed(order[o].customer) \in Nat
  <2>1. order[o] \in SalesOrder
    BY OrdersAssumption DEF SInv, RowsTyped
  <2>2. order[o].customer \in Buyers
    BY <2>1 DEF SalesOrder
  <2>3. QED BY <2>1, <2>2 DEF Owed, SInv, RowsTyped
<1>2. RowsTyped'
  BY <1>1 DEF SInv, RowsTyped
<1>3. CopiesHold' /\ CustomersHold'
  <2>1. CopiesHold'
    BY <1>1 DEF SInv, RowsTyped, CopiesHold, AmountsAgree
  <2>2. ASSUME NEW v \in Workers, serving'[v] = "customer" PROVE whose'[v] \in Customers
    <3>1. v # w
      BY <2>2 DEF SInv, RowsTyped, Handlers
    <3>2. serving'[v] = serving[v] /\ whose'[v] = whose[v]
      BY <3>1 DEF SInv, RowsTyped
    <3>3. QED BY <2>2, <3>2 DEF SInv, CustomersHold
  <2>3. QED BY <2>1, <2>2 DEF CustomersHold
<1>4. StatusesHold' /\ StockMatchesStatus' /\ AmountsAgree' /\ KeepsDelivered /\ load' = load
  BY DEF SInv, StatusesHold, StockMatchesStatus, AmountsAgree, KeepsDelivered, Orderly
<1>5. QED BY <1>2, <1>3, <1>4 DEF SInv

\* The rows of a step that writes no order.
LEMMA OrdersKept ==
  ASSUME SInv, UNCHANGED <<order, posted, load, overlapped, edited, moved>>
  PROVE  /\ StatusesHold' /\ StockMatchesStatus' /\ AmountsAgree' /\ KeepsDelivered
         /\ load' \in Loads
BY DEF SInv, StatusesHold, StockMatchesStatus, AmountsAgree, KeepsDelivered, Orderly

LEMMA FetchCustomerStep ==
  ASSUME SInv, NEW w \in Workers, NEW c \in Customers, FetchCustomer(w, c)
  PROVE  SInv' /\ KeepsDelivered
<1> USE DEF FetchCustomer, rows, history
<1>1. balance[c] \in Nat /\ c \in Buyers
  BY DEF SInv, RowsTyped, Buyers
<1>2. RowsTyped'
  BY <1>1 DEF SInv, RowsTyped
<1>3. ASSUME NEW v \in Workers, v # w
      PROVE  serving'[v] = serving[v] /\ whose'[v] = whose[v]
  BY <1>3 DEF SInv, RowsTyped
<1>4. serving'[w] = "customer" /\ whose'[w] = c /\ "customer" \notin Handlers
  BY DEF SInv, RowsTyped, Handlers
<1>5. CopiesHold' /\ CustomersHold'
  BY <1>3, <1>4 DEF SInv, CopiesHold, CustomersHold
<1>6. QED BY <1>2, <1>5, OrdersKept DEF SInv

\* customer.save(): no order is written.
LEMMA UpdateCustomerStep ==
  ASSUME SInv, NEW w \in Workers, UpdateCustomer(w)
  PROVE  SInv' /\ KeepsDelivered
<1> USE DEF UpdateCustomer, Respond
<1>1. whose[w] \in Customers /\ credit[w] \in Nat
  BY DEF Serves, SInv, CustomersHold, RowsTyped
<1>2. /\ balance' = [balance EXCEPT ![whose[w]] = credit[w]]
      /\ lost' \subseteq lost \union {whose[w]}
  BY DEF WriteBalance
<1>3. balance' \in [Customers -> Nat] /\ lost' \subseteq Customers
  BY <1>1, <1>2 DEF SInv, RowsTyped
<1>4. RowsTyped'
  BY <1>3 DEF SInv, RowsTyped, Buyers
<1>5. ASSUME NEW v \in Workers, serving'[v] # "idle"
      PROVE  /\ serving'[v] = serving[v] /\ whose'[v] = whose[v]
             /\ at'[v] = at[v] /\ object'[v] = object[v]
  BY <1>5 DEF SInv, RowsTyped
<1>6. "idle" \notin Handlers
  BY DEF Handlers
<1>7. CopiesHold' /\ CustomersHold'
  BY <1>5, <1>6 DEF SInv, CopiesHold, CustomersHold
<1>8. QED BY <1>4, <1>7, OrdersKept DEF SInv

\* A request that is refused leaves everything as it was.
LEMMA RefuseStep ==
  ASSUME SInv, NEW w \in Workers, Refuse(w)
  PROVE  SInv' /\ KeepsDelivered
<1> USE DEF Refuse, Respond, rows
<1>1. RowsTyped'
  BY DEF SInv, RowsTyped, Buyers
<1>2. CopiesHold' /\ CustomersHold'
  <2>1. ASSUME NEW v \in Workers, serving'[v] # "idle"
        PROVE  /\ serving'[v] = serving[v] /\ whose'[v] = whose[v] /\ v # w
               /\ at'[v] = at[v] /\ object'[v] = object[v]
    BY <2>1 DEF SInv, RowsTyped
  <2>2. "idle" \notin Handlers
    BY DEF Handlers
  <2>3. QED BY <2>1, <2>2 DEF SInv, CopiesHold, CustomersHold
<1>3. StatusesHold' /\ StockMatchesStatus' /\ AmountsAgree' /\ KeepsDelivered /\ load' = load
  BY DEF SInv, StatusesHold, StockMatchesStatus, AmountsAgree, KeepsDelivered, Orderly
<1>4. QED BY <1>1, <1>2, <1>3 DEF SInv

LEMMA NextSInv ==
  ASSUME SInv, [Next]_vars
  PROVE  SInv' /\ KeepsDelivered
<1>1. ASSUME NEW w \in Workers, Act(w) PROVE SInv' /\ KeepsDelivered
  <2>1. CASE \/ ConfirmRefused(w) \/ CancelRefused(w) \/ DeliverRefused(w) \/ PayRefused(w)
    BY <2>1, RefuseStep DEF ConfirmRefused, CancelRefused, DeliverRefused, PayRefused
  <2>2. ASSUME NEW edit \in load.edits, Update(w, edit) PROVE SInv' /\ KeepsDelivered
    BY <2>2, UpdateStep
  <2>3. QED
    BY <1>1, <2>1, <2>2, ConfirmStep, CancelConfirmedStep, StatusStep, PayStep, DestroyStep,
       UpdateCustomerStep DEF Act
<1>2. CASE UNCHANGED vars
  <2>1. RowsTyped' /\ CopiesHold' /\ CustomersHold'
    BY <1>2 DEF vars, rows, request, history, SInv, RowsTyped, CopiesHold, CustomersHold
  <2>2. UNCHANGED <<order, posted, load, overlapped, edited, moved>>
    BY <1>2 DEF vars, rows, request, history
  <2>3. QED BY <2>1, <2>2, OrdersKept DEF SInv
<1>3. QED BY <1>1, <1>2, FetchStep, FetchCustomerStep DEF Next

-----------------------------------------------------------------------------
(* The stock.                                                              *)

LEMMA Elements ==
  ASSUME NEW S, NEW s \in Seq(S)
  PROVE  Len(s) \in Nat /\ DOMAIN s = 1..Len(s) /\ (\A i \in 1..Len(s) : s[i] \in S) /\ <<>> \in Seq(S)
OBVIOUS

\* The sums of the stock are the sums of this module.
LEMMA StockSum ==
  ASSUME NEW f, NEW S
  PROVE  Stock!SumFunctionOnSet(f, S) = SumFunctionOnSet(f, S)
BY DEF Stock!SumFunctionOnSet, SumFunctionOnSet, Stock!FoldFunctionOnSet, FoldFunctionOnSet,
   Stock!MapThenFoldSet, MapThenFoldSet

\* What a posting leaves on hand is a quantity.
LEMMA PostTyped ==
  ASSUME onHand \in [Keys -> Int], NEW batch, IsFiniteSet(DOMAIN batch),
         \A i \in DOMAIN batch : batch[i].qty \in Int, Stock!Post(batch)
  PROVE  onHand' \in [Keys -> Int]
<1> DEFINE f == [i \in DOMAIN batch |-> batch[i].qty]
<1>1. ASSUME NEW k \in Keys PROVE onHand[k] + SumFunctionOnSet(f, Stock!ItemsOf(batch, k)) \in Int
  <2> DEFINE S == Stock!ItemsOf(batch, k)
  <2>1. S \subseteq DOMAIN batch
    BY DEF Stock!ItemsOf
  <2>2. IsFiniteSet(S) /\ \A i \in S : f[i] \in Int
    BY <2>1, FS_Subset
  <2>3. SumFunctionOnSet(f, S) \in Int
    <3> HIDE DEF S, f
    <3>1. QED BY <2>2, SumInt
  <2>4. QED BY <2>3
<1>2. \A k \in Keys :
        Stock!Change(batch, Stock!ItemsOf(batch, k)) = SumFunctionOnSet(f, Stock!ItemsOf(batch, k))
  BY StockSum DEF Stock!Change
<1>3. onHand' = [k \in Keys |-> onHand[k] + Stock!Change(batch, Stock!ItemsOf(batch, k))]
  BY DEF Stock!Post
<1> HIDE DEF f
<1>4. QED BY <1>1, <1>2, <1>3

LEMMA LinesTyped ==
  ASSUME NEW lines \in Seq([product : Products, qty : Nat \ {0}]), NEW a, NEW batch,
         batch = SaleBatch(lines, a) \/ batch = VoidBatch(lines, a)
  PROVE  IsFiniteSet(DOMAIN batch) /\ \A i \in DOMAIN batch : batch[i].qty \in Int
<1>1. Len(lines) \in Nat /\ DOMAIN lines = 1..Len(lines)
      /\ \A i \in 1..Len(lines) : lines[i] \in [product : Products, qty : Nat \ {0}]
  BY Elements, Zenon
<1>2. DOMAIN batch = 1..Len(lines)
  BY <1>1 DEF SaleBatch, VoidBatch
<1>3. IsFiniteSet(DOMAIN batch)
  BY <1>1, <1>2, FS_Interval
<1>4. ASSUME NEW i \in 1..Len(lines)
      PROVE  batch[i].qty = lines[i].qty \/ batch[i].qty = -lines[i].qty
  BY <1>1 DEF SaleBatch, VoidBatch
<1>5. QED BY <1>1, <1>2, <1>3, <1>4

StockTyped == onHand \in [Keys -> Int]

LEMMA OpenedTyped == Init => StockTyped
BY OrdersAssumption DEF Init, Stock!Opened, StockTyped

LEMMA NextTyped ==
  ASSUME SInv, StockTyped, [Next]_vars
  PROVE  StockTyped'
<1> USE DEF StockTyped
<1>1. ASSUME NEW w \in Workers, serving[w] \in Handlers
      PROVE  items[at[w]] \in Seq([product : Products, qty : Nat \ {0}])
  <2>1. at[w] \in Orders
    BY <1>1, Holding
  <2> DEFINE LineRows == Seq([product : Products, qty : Nat \ {0}])
  <2>2. Lines \in [Orders -> LineRows]
    BY OrdersAssumption, Zenon
  <2> HIDE DEF LineRows
  <2>3. items[at[w]] \in LineRows
    <3>1. items[at[w]] \in {Lines[at[w]], <<>>} /\ Lines[at[w]] \in LineRows
      BY <2>1, <2>2 DEF SInv, RowsTyped
    <3>2. <<>> \in LineRows
      BY <3>1, Elements, Zenon DEF LineRows
    <3>3. QED BY <3>1, <3>2
  <2>4. QED BY <2>3 DEF LineRows
<1>2. ASSUME NEW w \in Workers, Confirm(w) \/ CancelConfirmed(w) PROVE onHand' \in [Keys -> Int]
  <2>1. PICK batch : /\ Stock!Post(batch)
                     /\ \/ batch = SaleBatch(items[at[w]], object[w].warehouse)
                        \/ batch = VoidBatch(items[at[w]], object[w].warehouse)
    BY <1>2 DEF Confirm, CancelConfirmed
  <2>2. serving[w] \in Handlers
    BY <1>2 DEF Confirm, CancelConfirmed, Serves, Handlers
  <2>3. QED BY <1>1, <2>1, <2>2, LinesTyped, PostTyped
<1>3. ASSUME NEW w \in Workers, Act(w), ~Confirm(w), ~CancelConfirmed(w) PROVE UNCHANGED onHand
  <2>1. ConfirmRefused(w) \/ CancelRefused(w) \/ DeliverRefused(w) \/ PayRefused(w)
          => UNCHANGED onHand
    BY DEF ConfirmRefused, CancelRefused, DeliverRefused, PayRefused, Refuse, stock
  <2>2. CancelOther(w) \/ Deliver(w) \/ Destroy(w) => UNCHANGED onHand
    BY DEF CancelOther, Deliver, Destroy, stock
  <2>3. \A a \in Amounts, m \in Methods : Pay(w, a, m) => UNCHANGED onHand
    BY DEF Pay, stock
  <2>4. UpdateCustomer(w) \/ (\E edit \in load.edits : Update(w, edit)) => UNCHANGED onHand
    BY DEF Update, UpdateCustomer, stock
  <2>5. QED BY <1>3, <2>1, <2>2, <2>3, <2>4 DEF Act
<1>4. ASSUME NEW w \in Workers,
             \/ \E h \in Handlers, o \in Orders : Fetch(w, h, o)
             \/ \E c \in Customers : FetchCustomer(w, c)
      PROVE  UNCHANGED onHand
  BY <1>4 DEF Fetch, FetchCustomer, stock
<1>5. CASE UNCHANGED vars
  BY <1>5 DEF vars, stock
<1>6. QED BY <1>2, <1>3, <1>4, <1>5 DEF Next

-----------------------------------------------------------------------------
(* The payments.                                                           *)

LEMMA SumOfEmpty == SumOf(<<>>) = 0 /\ \A c : CreditOf(c, <<>>) = 0
<1>1. 1..Len(<<>>) = {}
  OBVIOUS
<1>2. QED BY <1>1, SumEmpty DEF SumOf, CreditOf, SumFunction

LEMMA PaidAmount == \A p \in Payment : p.amount \in Nat
<1>1. Amounts \subseteq Nat
  BY OrdersAssumption
<1>2. QED BY <1>1 DEF Payment

\* What a payment puts on the balance of c.
OnCredit(c, p) == IF p.method = "credit" /\ p.payer = c THEN p.amount ELSE 0

LEMMA CreditSum ==
  ASSUME NEW s, NEW c
  PROVE  CreditOf(c, s) = SumFunctionOnSet([i \in 1..Len(s) |-> OnCredit(c, s[i])], 1..Len(s))
BY DEF CreditOf, OnCredit, SumFunction

LEMMA SumOfAppend ==
  ASSUME NEW s \in Seq(Payment), NEW p \in Payment, NEW c
  PROVE  /\ SumOf(Append(s, p)) = SumOf(s) + p.amount
         /\ CreditOf(c, Append(s, p)) = CreditOf(c, s) + OnCredit(c, p)
         /\ SumOf(s) \in Int /\ CreditOf(c, s) \in Int
<1> DEFINE n == Len(s)
           t == Append(s, p)
           f == [i \in 1..n |-> s[i].amount]
           g == [i \in 1..(n + 1) |-> t[i].amount]
           fc == [i \in 1..n |-> OnCredit(c, s[i])]
           gc == [i \in 1..(n + 1) |-> OnCredit(c, t[i])]
<1>1. /\ n \in Nat /\ Len(t) = n + 1 /\ t[n + 1] = p
      /\ \A i \in 1..n : t[i] = s[i] /\ s[i] \in Payment
  <2> DEFINE S == Payment
  <2>1. s \in Seq(S) /\ p \in S
    OBVIOUS
  <2> HIDE DEF S
  <2>2. /\ n \in Nat /\ Len(t) = n + 1 /\ t[n + 1] = p
        /\ \A i \in 1..n : t[i] = s[i] /\ s[i] \in S
    BY <2>1
  <2>3. QED BY <2>2 DEF S
<1>2. \A q \in Payment : q.amount \in Int /\ OnCredit(c, q) \in Int
  BY PaidAmount DEF OnCredit
<1>3. /\ SumOf(s) = SumFunctionOnSet(f, 1..n) /\ SumOf(t) = SumFunctionOnSet(g, 1..(n + 1))
      /\ CreditOf(c, s) = SumFunctionOnSet(fc, 1..n)
      /\ CreditOf(c, t) = SumFunctionOnSet(gc, 1..(n + 1))
  BY <1>1, CreditSum DEF SumOf, SumFunction
<1> HIDE DEF n, t
<1>4. /\ \A i \in 1..n : f[i] \in Int /\ g[i] = f[i]
      /\ \A i \in 1..n : fc[i] \in Int /\ gc[i] = fc[i]
      /\ g[n + 1] = p.amount /\ g[n + 1] \in Int
      /\ gc[n + 1] = OnCredit(c, p) /\ gc[n + 1] \in Int
  <2>1. \A i \in 1..n : i \in 1..(n + 1)
    BY <1>1
  <2>2. n + 1 \in 1..(n + 1)
    BY <1>1
  <2>3. QED BY <1>1, <1>2, <2>1, <2>2
<1> HIDE DEF f, g, fc, gc
<1>5. /\ SumFunctionOnSet(g, 1..(n + 1)) = SumFunctionOnSet(f, 1..n) + g[n + 1]
      /\ SumFunctionOnSet(gc, 1..(n + 1)) = SumFunctionOnSet(fc, 1..n) + gc[n + 1]
  <2>1. n \in Nat
    BY <1>1
  <2>2. SumFunctionOnSet(g, 1..(n + 1)) = SumFunctionOnSet(f, 1..n) + g[n + 1]
    BY <1>4, <2>1, SumLonger
  <2>3. SumFunctionOnSet(gc, 1..(n + 1)) = SumFunctionOnSet(fc, 1..n) + gc[n + 1]
    BY <1>4, <2>1, SumLonger
  <2>4. QED BY <2>2, <2>3
<1>6. IsFiniteSet(1..n)
  BY <1>1, FS_Interval
<1>7. SumFunctionOnSet(f, 1..n) \in Int /\ SumFunctionOnSet(fc, 1..n) \in Int
  BY <1>4, <1>6, SumInt
<1>8. QED BY <1>3, <1>4, <1>5, <1>7 DEF t

LEMMA PaymentsTyped ==
  ASSUME NEW s \in Seq(Payment), NEW c
  PROVE  SumOf(s) \in Int /\ CreditOf(c, s) \in Int
<1> DEFINE n == Len(s)
           f == [i \in 1..n |-> s[i].amount]
           fc == [i \in 1..n |-> OnCredit(c, s[i])]
<1>1. n \in Nat /\ \A i \in 1..n : s[i] \in Payment
  OBVIOUS
<1>2. \A q \in Payment : q.amount \in Int /\ OnCredit(c, q) \in Int
  BY PaidAmount DEF OnCredit
<1>3. \A i \in 1..n : f[i] \in Int /\ fc[i] \in Int
  BY <1>1, <1>2
<1>4. SumOf(s) = SumFunctionOnSet(f, 1..n) /\ CreditOf(c, s) = SumFunctionOnSet(fc, 1..n)
  BY CreditSum DEF SumOf, SumFunction
<1> HIDE DEF f, fc, n
<1>5. IsFiniteSet(1..n)
  BY <1>1, FS_Interval
<1>6. QED BY <1>3, <1>4, <1>5, SumInt

\* An orderly order that is being written was orderly before, and the request
\* that writes it holds its row.
LEMMA OrderlyStep ==
  ASSUME SInv, NEW w \in Workers, serving[w] \in Handlers, NEW row, Wrote(w),
         order' = [order EXCEPT ![at[w]] = row], edited \subseteq edited'
  PROVE  \A p \in Orderly' :
           /\ p \in Orderly
           /\ p # at[w] => order'[p] = order[p]
           /\ p = at[w] => object[w] = order[p] /\ order'[p] = row /\ p \notin edited'
<1> SUFFICES ASSUME NEW p \in Orderly'
             PROVE  /\ p \in Orderly
                    /\ p # at[w] => order'[p] = order[p]
                    /\ p = at[w] => object[w] = order[p] /\ order'[p] = row /\ p \notin edited'
  OBVIOUS
<1>1. at[w] \in Orders /\ object[w] \in SalesOrder /\ object[w] # NoOrder
  BY Holding
<1>2. p \in Orders /\ p \notin overlapped' /\ p \notin edited' /\ order'[p] # NoOrder
  BY DEF Orderly
<1>3. p \notin overlapped /\ p \notin edited
  BY <1>2 DEF Wrote
<1>4. CASE p # at[w]
  BY <1>2, <1>3, <1>4 DEF Orderly, SInv, RowsTyped
<1>5. CASE p = at[w]
  <2>1. w \notin stale
    BY <1>2, <1>5 DEF Wrote
  <2>2. object[w] = order[p]
    BY <1>5, <2>1 DEF SInv, CopiesHold
  <2>3. QED BY <1>1, <1>2, <1>3, <1>5, <2>2 DEF Orderly, SInv, RowsTyped
<1>6. QED BY <1>4, <1>5

\* PaidIsPayments, when neither a payment nor an amount changes.
LEMMA PaidKept ==
  ASSUME PaidIsPayments,
         \A p \in Orderly' : /\ p \in Orderly /\ order'[p].amount_paid = order[p].amount_paid
                             /\ payments'[p] = payments[p]
  PROVE  PaidIsPayments'
BY DEF PaidIsPayments, SumOf

LEMMA PaidByPay ==
  ASSUME SInv, PaidIsPayments, NEW w \in Workers, NEW amount \in Amounts, NEW method \in Methods,
         Pay(w, amount, method)
  PROVE  PaidIsPayments'
<1>1. PICK o \in Orders : o = at[w] /\ serving[w] \in Handlers
  BY Holding DEF Pay, Serves, Handlers
<1> DEFINE payment == [amount |-> amount, method |-> method, payer |-> whose[w]]
           row == [order[o] EXCEPT !.amount_paid = NewPaid(w, amount),
                                   !.amount_due = AmountDue(NewPaid(w, amount), Total[o]),
                                   !.payment_status = NewStatus(w, amount)]
<1>2. order[o] \in SalesOrder
  BY <1>1, ExistingRow DEF Pay, SInv
<1>3. /\ order' = [order EXCEPT ![at[w]] = row]
      /\ payments' = [payments EXCEPT ![o] = Append(@, payment)]
      /\ Wrote(w) /\ edited \subseteq edited'
  BY <1>1 DEF Pay, SInv, RowsTyped
<1>4. row.amount_paid = object[w].amount_paid + amount
  BY <1>2 DEF NewPaid, SalesOrder
<1>5. payment \in Payment /\ payment.amount = amount
  BY DEF Payment, SInv, RowsTyped
<1>6. payments[o] \in Seq(Payment)
  BY DEF SInv, RowsTyped
<1>7. SumOf(Append(payments[o], payment)) = SumOf(payments[o]) + amount
  <2> HIDE DEF payment
  <2>1. SumOf(Append(payments[o], payment)) = SumOf(payments[o]) + payment.amount
    BY <1>5, <1>6, SumOfAppend
  <2>2. QED BY <1>5, <2>1
<1> HIDE DEF row, payment
<1>8. \A p \in Orderly' :
        /\ p \in Orderly
        /\ p # at[w] => order'[p] = order[p]
        /\ p = at[w] => object[w] = order[p] /\ order'[p] = row /\ p \notin edited'
  BY <1>1, <1>3, OrderlyStep
<1>9. ASSUME NEW p \in Orderly' PROVE order'[p].amount_paid = SumOf(payments'[p])
  <2>1. /\ p \in Orderly
        /\ p # at[w] => order'[p] = order[p]
        /\ p = at[w] => object[w] = order[p] /\ order'[p] = row
    BY <1>8
  <2>2. order[p].amount_paid = SumOf(payments[p])
    BY <2>1 DEF PaidIsPayments
  <2>3. p \in Orders
    BY <2>1 DEF Orderly
  <2>4. CASE p # o
    <3>1. payments'[p] = payments[p] /\ order'[p] = order[p]
      BY <1>1, <1>3, <2>1, <2>3, <2>4 DEF SInv, RowsTyped
    <3>2. QED BY <2>2, <3>1
  <2>5. CASE p = o
    <3>1. payments'[o] = Append(payments[o], payment)
      BY <1>3 DEF SInv, RowsTyped
    <3>2. order'[p].amount_paid = SumOf(payments[p]) + amount
      BY <1>1, <1>4, <2>1, <2>2, <2>5
    <3>3. QED BY <1>7, <2>5, <3>1, <3>2
  <2>6. QED BY <2>4, <2>5
<1>10. QED BY <1>9 DEF PaidIsPayments, SumOf

LEMMA NextPaid ==
  ASSUME SInv, PaidIsPayments, [Next]_vars
  PROVE  PaidIsPayments'
<1> USE DEF SInv, RowsTyped
<1>1. ASSUME NEW w \in Workers, NEW status, SaveStatus(w, status), serving[w] \in Handlers, Wrote(w),
             UNCHANGED <<payments, edited>>
      PROVE  PaidIsPayments'
  <2> DEFINE row == [order[at[w]] EXCEPT !.status = status]
  <2>1. /\ at[w] \in Orders /\ order[at[w]] \in SalesOrder
        /\ order' = [order EXCEPT ![at[w]] = row]
    BY <1>1, Holding, ExistingRow DEF SaveStatus
  <2>2. row.amount_paid = order[at[w]].amount_paid
    BY <2>1 DEF SalesOrder
  <2> HIDE DEF row
  <2>3. edited \subseteq edited'
    BY <1>1
  <2>4. \A p \in Orderly' : p \in Orderly /\ order'[p].amount_paid = order[p].amount_paid
    <3>1. \A p \in Orderly' :
            /\ p \in Orderly
            /\ p # at[w] => order'[p] = order[p]
            /\ p = at[w] => object[w] = order[p] /\ order'[p] = row /\ p \notin edited'
      BY <1>1, <2>1, <2>3, OrderlyStep
    <3>2. QED BY <2>2, <3>1
  <2>5. QED BY <1>1, <2>4, PaidKept
<1>2. ASSUME NEW w \in Workers, Confirm(w) \/ CancelConfirmed(w) \/ CancelOther(w) \/ Deliver(w)
      PROVE  PaidIsPayments'
  BY <1>1, <1>2 DEF Confirm, CancelConfirmed, CancelOther, Deliver, Serves, Handlers
<1>3. ASSUME NEW w \in Workers, NEW edit \in load.edits, Update(w, edit) PROVE PaidIsPayments'
  <2> DEFINE row == EditedRow(w, edit)
  <2>1. /\ order' = [order EXCEPT ![at[w]] = row]
        /\ edited \subseteq edited' /\ serving[w] \in Handlers /\ Wrote(w) /\ UNCHANGED payments
    BY <1>3 DEF Update, Serves, EditedRow, Handlers
  <2>2. at[w] \notin edited' => row.amount_paid = object[w].amount_paid
    <3>1. at[w] \notin edited' => edit.field # "amount_paid"
      BY <1>3 DEF Update
    <3>2. object[w] \in SalesOrder
      BY <2>1, Holding
    <3>3. QED BY <3>1, <3>2, EditKeeps
  <2> HIDE DEF row
  <2>3. \A p \in Orderly' : p \in Orderly /\ order'[p].amount_paid = order[p].amount_paid
    <3>1. \A p \in Orderly' :
            /\ p \in Orderly
            /\ p # at[w] => order'[p] = order[p]
            /\ p = at[w] => object[w] = order[p] /\ order'[p] = row /\ p \notin edited'
      BY <2>1, OrderlyStep
    <3>2. QED BY <2>2, <3>1
  <2>4. QED BY <2>1, <2>3, PaidKept
<1>4. ASSUME NEW w \in Workers, Destroy(w) PROVE PaidIsPayments'
  <2>1. /\ order' = [order EXCEPT ![at[w]] = NoOrder] /\ at[w] \in Orders
        /\ edited \subseteq edited' /\ serving[w] \in Handlers /\ Wrote(w)
        /\ payments' = [payments EXCEPT ![at[w]] = <<>>]
    BY <1>4, Holding DEF Destroy, Serves, Handlers
  <2>2. at[w] \notin Orderly'
    BY <2>1 DEF Orderly
  <2>3. \A p \in Orderly' : p \in Orderly /\ order'[p] = order[p]
    BY <2>1, <2>2, OrderlyStep
  <2>4. \A p \in Orderly' : payments'[p] = payments[p]
    BY <2>1, <2>2, <2>3 DEF Orderly
  <2>5. QED BY <2>3, <2>4, PaidKept
<1>5. ASSUME UNCHANGED <<order, payments, overlapped, edited>> PROVE PaidIsPayments'
  BY <1>5, PaidKept DEF Orderly
<1>6. ASSUME NEW w \in Workers, Refuse(w) PROVE PaidIsPayments'
  BY <1>5, <1>6 DEF Refuse, rows
<1>7. ASSUME NEW w \in Workers, Act(w) PROVE PaidIsPayments'
  <2>1. CASE ConfirmRefused(w) \/ CancelRefused(w) \/ DeliverRefused(w) \/ PayRefused(w)
    BY <1>6, <2>1 DEF ConfirmRefused, CancelRefused, DeliverRefused, PayRefused
  <2>2. CASE UpdateCustomer(w)
    BY <1>5, <2>2 DEF UpdateCustomer
  <2>3. QED BY <1>2, <1>3, <1>4, <1>7, <2>1, <2>2, PaidByPay DEF Act
<1>8. ASSUME NEW w \in Workers,
             \/ \E h \in Handlers, o \in Orders : Fetch(w, h, o)
             \/ \E c \in Customers : FetchCustomer(w, c)
      PROVE  PaidIsPayments'
  BY <1>5, <1>8 DEF Fetch, FetchCustomer, rows, history
<1>9. CASE UNCHANGED vars
  BY <1>5, <1>9 DEF vars, rows, history
<1>10. QED BY <1>7, <1>8, <1>9 DEF Next

LEMMA InitPaid == Init => PaidIsPayments
BY SumOfEmpty, OrdersAssumption DEF Init, PaidIsPayments, Orderly

-----------------------------------------------------------------------------
(* What customers owe.                                                     *)

CreditOn(c) == [o \in Orders |-> CreditOf(c, payments[o])]

LEMMA CreditToIs ==
  ASSUME NEW c
  PROVE  CreditTo(c) = SumFunctionOnSet(CreditOn(c), Orders)
BY DEF CreditTo, CreditOn, SumFunction

LEMMA CreditTyped ==
  ASSUME RowsTyped, NEW c
  PROVE  CreditTo(c) \in Int /\ \A o \in Orders : CreditOf(c, payments[o]) \in Int
<1>1. \A o \in Orders : CreditOn(c)[o] = CreditOf(c, payments[o]) /\ CreditOn(c)[o] \in Int
  BY PaymentsTyped DEF CreditOn, RowsTyped
<1> DEFINE f == CreditOn(c)
<1>2. SumFunctionOnSet(f, Orders) \in Int
  <2>1. IsFiniteSet(Orders) /\ \A o \in Orders : f[o] \in Int
    BY <1>1, OrdersAssumption
  <2> HIDE DEF f
  <2>2. QED BY <2>1, SumInt
<1>3. QED BY <1>1, <1>2, CreditToIs

LEMMA CreditKept ==
  ASSUME UNCHANGED payments, NEW c
  PROVE  CreditTo(c)' = CreditTo(c)
BY DEF CreditTo, CreditOf

\* A payment changes what its payer has on credit, and nobody else's.
LEMMA CreditByPay ==
  ASSUME RowsTyped, NEW o \in Orders, NEW payment \in Payment,
         payments' = [payments EXCEPT ![o] = Append(@, payment)], NEW c
  PROVE  CreditTo(c)' = CreditTo(c) + OnCredit(c, payment)
<1> DEFINE f == CreditOn(c)
           g == CreditOn(c)'
<1>1. /\ payments[o] \in Seq(Payment) /\ payments'[o] = Append(payments[o], payment)
      /\ \A p \in Orders : payments[p] \in Seq(Payment) /\ payments'[p] \in Seq(Payment)
  BY DEF RowsTyped
<1>2. \A p \in Orders : f[p] = CreditOf(c, payments[p]) /\ g[p] = CreditOf(c, payments'[p])
  BY DEF CreditOn, CreditOf
<1>3. \A p \in Orders : f[p] \in Int /\ g[p] \in Int
  BY <1>1, <1>2, PaymentsTyped
<1>4. g[o] = f[o] + OnCredit(c, payment)
  <2>1. CreditOf(c, Append(payments[o], payment)) = CreditOf(c, payments[o]) + OnCredit(c, payment)
    BY <1>1, SumOfAppend
  <2>2. QED BY <1>1, <1>2, <2>1
<1>5. \A p \in Orders \ {o} : g[p] = f[p]
  BY <1>2 DEF RowsTyped
<1>6. OnCredit(c, payment) \in Int
  BY PaidAmount DEF OnCredit
<1>7. SumFunctionOnSet(g, Orders) = SumFunctionOnSet(f, Orders) + (g[o] - f[o])
  <2>1. IsFiniteSet(Orders)
    BY OrdersAssumption
  <2>2. \A p \in Orders : f[p] \in Int /\ g[p] \in Int
    BY <1>3
  <2>3. \A p \in Orders \ {o} : g[p] = f[p]
    BY <1>5
  <2>4. o \in Orders
    OBVIOUS
  <2> HIDE DEF f, g
  <2>5. QED BY ONLY <2>1, <2>2, <2>3, <2>4, SumChange
<1>8. CreditTo(c) = SumFunctionOnSet(f, Orders) /\ CreditTo(c)' = SumFunctionOnSet(g, Orders)
  <2>1. CreditTo(c)' = SumFunctionOnSet(CreditOn(c)', Orders)
    BY DEF CreditTo, CreditOn, SumFunction, CreditOf
  <2>2. QED BY <2>1, CreditToIs
<1>9. CreditTo(c) \in Int /\ f[o] \in Int
  BY <1>3, CreditTyped
<1> HIDE DEF f, g
<1>10. QED BY <1>4, <1>6, <1>7, <1>8, <1>9

\* Deleting an order leaves alone who has paid nothing on it.
LEMMA CreditByDestroy ==
  ASSUME RowsTyped, NEW o \in Orders, payments' = [payments EXCEPT ![o] = <<>>], NEW c,
         \A i \in DOMAIN payments[o] : payments[o][i].payer # c
  PROVE  CreditTo(c)' = CreditTo(c)
<1> DEFINE f == CreditOn(c)
           g == CreditOn(c)'
<1>1. payments[o] \in Seq(Payment)
  BY DEF RowsTyped
<1>2. CreditOf(c, payments[o]) = 0
  <2> DEFINE n == Len(payments[o])
             fc == [i \in 1..n |-> OnCredit(c, payments[o][i])]
  <2>1. n \in Nat /\ DOMAIN payments[o] = 1..n
    BY <1>1
  <2>2. \A i \in 1..n : fc[i] = 0
    BY <2>1 DEF OnCredit
  <2>3. CreditOf(c, payments[o]) = SumFunctionOnSet(fc, 1..n)
    BY CreditSum
  <2> HIDE DEF fc, n
  <2>4. IsFiniteSet(1..n)
    BY <2>1, FS_Interval
  <2>5. QED BY <2>2, <2>3, <2>4, SumZero
<1>3. \A p \in Orders : f[p] = CreditOf(c, payments[p]) /\ g[p] = CreditOf(c, payments'[p])
  BY DEF CreditOn, CreditOf
<1>4. \A p \in Orders : payments'[p] = IF p = o THEN <<>> ELSE payments[p]
  BY DEF RowsTyped
<1>5. \A p \in Orders : g[p] = f[p]
  BY <1>2, <1>3, <1>4, SumOfEmpty
<1>6. SumFunctionOnSet(g, Orders) = SumFunctionOnSet(f, Orders)
  <2>1. IsFiniteSet(Orders)
    BY OrdersAssumption
  <2> HIDE DEF f, g
  <2>2. QED BY <1>5, <2>1, SumSame
<1>7. CreditTo(c)' = SumFunctionOnSet(CreditOn(c)', Orders)
  BY DEF CreditTo, CreditOn, SumFunction, CreditOf
<1>8. QED BY <1>6, <1>7, CreditToIs

\* Every copy of a customer that is left has been there before the step.
Copied ==
  \A v \in Workers : whose'[v] \in Customers => whose'[v] = whose[v] /\ credit'[v] = credit[v]

LEMMA Responds ==
  ASSUME RowsTyped, NEW w, Respond(w)
  PROVE  Copied
BY OrdersAssumption DEF Respond, RowsTyped, Copied

LEMMA BalanceKept ==
  ASSUME BalanceIsCredit, CreditRead, UNCHANGED <<payments, balance>>,
         blurred \subseteq blurred', lost \subseteq lost', Copied
  PROVE  BalanceIsCredit' /\ CreditRead'
<1>1. \A c : CreditTo(c)' = CreditTo(c)
  BY CreditKept
<1>2. BalanceIsCredit'
  BY <1>1 DEF BalanceIsCredit
<1>3. CreditRead'
  BY <1>1 DEF CreditRead, Copied
<1>4. QED BY <1>2, <1>3

\* A request that reads the balance of c finds no more than c has on credit.
LEMMA BalanceRead ==
  ASSUME SInv, BalanceIsCredit, CreditRead, NEW w \in Workers, NEW c,
         UNCHANGED <<payments, balance, blurred, lost>>,
         whose' = [whose EXCEPT ![w] = c], credit' = [credit EXCEPT ![w] = Owed(c)]
  PROVE  BalanceIsCredit' /\ CreditRead'
<1>1. \A d : CreditTo(d)' = CreditTo(d)
  BY CreditKept
<1>2. BalanceIsCredit'
  BY <1>1 DEF BalanceIsCredit
<1>3. ASSUME NEW v \in Workers, NEW d \in Customers \ blurred', whose'[v] = d
      PROVE  credit'[v] <= CreditTo(d)
  <2>1. CASE v = w
    BY <1>3, <2>1 DEF SInv, RowsTyped, Owed, BalanceIsCredit
  <2>2. CASE v # w
    BY <1>3, <2>2 DEF SInv, RowsTyped, CreditRead
  <2>3. QED BY <2>1, <2>2
<1>4. QED BY <1>1, <1>2, <1>3 DEF CreditRead

\* The balance that payments and customers' edits write is at most what is on
\* credit, and what is on credit if the reading it comes from still holds.
LEMMA BalanceWritten ==
  ASSUME SInv, BalanceIsCredit, CreditRead, NEW w \in Workers, NEW raise \in Nat,
         whose[w] \in Customers, WriteBalance(w, credit[w] + raise), Copied,
         blurred' = blurred,
         \A c \in Customers : CreditTo(c)' = CreditTo(c) + IF c = whose[w] THEN raise ELSE 0
  PROVE  BalanceIsCredit' /\ CreditRead'
<1>1. PICK d \in Customers : d = whose[w]
  OBVIOUS
<1>2. /\ balance' = [balance EXCEPT ![d] = credit[w] + raise]
      /\ lost' = lost \union {e \in {d} : balance[e] # credit[w]}
      /\ balance \in [Customers -> Nat] /\ credit[w] \in Nat
      /\ \A v \in Workers : credit[v] \in Nat
  BY <1>1 DEF WriteBalance, SInv, RowsTyped
<1>3. \A c \in Customers : CreditTo(c) \in Int
  BY CreditTyped DEF SInv
<1>4. ASSUME NEW c \in Customers \ blurred'
      PROVE  balance'[c] <= CreditTo(c)' /\ (c \notin lost' => balance'[c] = CreditTo(c)')
  <2>1. balance[c] <= CreditTo(c) /\ (c \notin lost => balance[c] = CreditTo(c))
        /\ (c = d => credit[w] <= CreditTo(c))
    BY <1>1, <1>4 DEF BalanceIsCredit, CreditRead
  <2>2. CASE c = d
    <3>1. balance'[c] = credit[w] + raise /\ CreditTo(c)' = CreditTo(c) + raise
      BY <1>1, <1>2, <2>2
    <3>2. c \notin lost' => c \notin lost /\ balance[c] = credit[w]
      BY <1>2, <2>2
    <3>3. CreditTo(c) \in Int /\ credit[w] \in Nat
      BY <1>2, <1>3
    <3>4. QED BY <2>1, <2>2, <3>1, <3>2, <3>3
  <2>3. CASE c # d
    <3>1. balance'[c] = balance[c] /\ CreditTo(c)' = CreditTo(c) + 0
      BY <1>1, <1>2, <2>3
    <3>2. CreditTo(c) \in Int
      BY <1>3
    <3>3. QED BY <1>2, <2>1, <3>1, <3>2
  <2>4. QED BY <2>2, <2>3
<1>5. ASSUME NEW v \in Workers, NEW c \in Customers \ blurred', whose'[v] = c
      PROVE  credit'[v] <= CreditTo(c)'
  <2>1. c = whose[v] /\ credit'[v] = credit[v] /\ c \notin blurred
    BY <1>5 DEF Copied
  <2>2. credit[v] <= CreditTo(c)
    BY <2>1 DEF CreditRead
  <2>3. CreditTo(c) \in Int /\ credit[v] \in Nat
    BY <1>2, <1>3
  <2>4. CreditTo(c)' = CreditTo(c) \/ CreditTo(c)' = CreditTo(c) + raise
    BY <2>3
  <2>5. QED BY <2>1, <2>2, <2>3, <2>4
<1>6. QED BY <1>4, <1>5 DEF BalanceIsCredit, CreditRead

\* record_payment on credit, and in any other way.
LEMMA BalanceByPay ==
  ASSUME SInv, BalanceIsCredit, CreditRead, NEW w \in Workers, NEW amount \in Amounts,
         NEW method \in Methods, Pay(w, amount, method)
  PROVE  BalanceIsCredit' /\ CreditRead'
<1>1. PICK o \in Orders : o = at[w]
  BY Holding DEF Pay, Serves, Handlers
<1>2. PICK c \in Buyers : c = whose[w]
  BY DEF SInv, RowsTyped
<1> DEFINE payment == [amount |-> amount, method |-> method, payer |-> c]
<1>3. /\ payment \in Payment /\ payment.amount = amount /\ payment.method = method
      /\ payment.payer = c
  BY DEF Payment
<1>4. amount \in Nat
  BY OrdersAssumption
<1>5. payments' = [payments EXCEPT ![o] = Append(@, payment)]
  BY <1>1, <1>2 DEF Pay
<1> HIDE DEF payment
<1>6. Copied /\ blurred' = blurred
  BY Responds DEF Pay, SInv
<1>7. \A d : CreditTo(d)' = CreditTo(d) + OnCredit(d, payment)
  BY <1>3, <1>5, CreditByPay DEF SInv
<1>8. \A d \in Customers : CreditTo(d) \in Int
  BY CreditTyped DEF SInv
<1>9. CASE c # NoCustomer /\ method = "credit"
  <2>1. WriteBalance(w, credit[w] + amount) /\ c \in Customers
    BY <1>2, <1>9 DEF Pay, RaisesBalance, Buyers
  <2>2. \A d \in Customers : CreditTo(d)' = CreditTo(d) + IF d = whose[w] THEN amount ELSE 0
    BY <1>2, <1>3, <1>7, <1>9 DEF OnCredit
  <2>3. QED BY <1>2, <1>4, <1>6, <2>1, <2>2, BalanceWritten
<1>10. CASE ~(c # NoCustomer /\ method = "credit")
  <2>1. UNCHANGED <<balance, lost>>
    BY <1>2, <1>10 DEF Pay, RaisesBalance
  <2>2. ASSUME NEW d \in Customers PROVE CreditTo(d)' = CreditTo(d)
    <3>1. OnCredit(d, payment) = 0
      BY <1>3, <1>10, OrdersAssumption DEF OnCredit
    <3>2. QED BY <1>7, <1>8, <3>1
  <2>3. BalanceIsCredit'
    BY <1>6, <2>1, <2>2 DEF BalanceIsCredit
  <2>4. ASSUME NEW v \in Workers, NEW d \in Customers \ blurred', whose'[v] = d
        PROVE  credit'[v] <= CreditTo(d)'
    <3>1. d = whose[v] /\ credit'[v] = credit[v] /\ d \notin blurred
      BY <1>6, <2>4 DEF Copied
    <3>2. credit[v] <= CreditTo(d)
      BY <3>1 DEF CreditRead
    <3>3. QED BY <2>2, <3>1, <3>2
  <2>5. QED BY <2>3, <2>4 DEF CreditRead
<1>11. QED BY <1>9, <1>10

\* A customer's edit writes back what it has read.
LEMMA BalanceByUpdate ==
  ASSUME SInv, BalanceIsCredit, CreditRead, NEW w \in Workers, UpdateCustomer(w)
  PROVE  BalanceIsCredit' /\ CreditRead'
<1>1. whose[w] \in Customers /\ credit[w] \in Nat
  BY DEF UpdateCustomer, Serves, SInv, CustomersHold, RowsTyped
<1>2. Copied /\ blurred' = blurred
  BY Responds DEF UpdateCustomer, SInv
<1>3. WriteBalance(w, credit[w] + 0)
  <2>1. credit[w] + 0 = credit[w]
    BY <1>1
  <2>2. WriteBalance(w, credit[w])
    BY DEF UpdateCustomer
  <2>3. QED BY <2>1, <2>2
<1>4. \A c \in Customers : CreditTo(c)' = CreditTo(c) + IF c = whose[w] THEN 0 ELSE 0
  <2>1. \A c : CreditTo(c)' = CreditTo(c)
    BY CreditKept DEF UpdateCustomer
  <2>2. \A c \in Customers : CreditTo(c) \in Int
    BY CreditTyped DEF SInv
  <2>3. QED BY <2>1, <2>2
<1>5. QED BY <1>1, <1>2, <1>3, <1>4, BalanceWritten

LEMMA BalanceByDestroy ==
  ASSUME SInv, BalanceIsCredit, CreditRead, NEW w \in Workers, Destroy(w)
  PROVE  BalanceIsCredit' /\ CreditRead'
<1>1. PICK o \in Orders : o = at[w]
  BY Holding DEF Destroy, Serves, Handlers
<1>2. /\ payments' = [payments EXCEPT ![o] = <<>>]
      /\ blurred' = blurred \union {payments[o][i].payer : i \in DOMAIN payments[o]}
      /\ balance' = balance /\ lost' = lost /\ Copied
  BY <1>1, Responds DEF Destroy, SInv
<1>3. ASSUME NEW c \in Customers \ blurred' PROVE CreditTo(c)' = CreditTo(c)
  BY <1>2, CreditByDestroy DEF SInv
<1>4. BalanceIsCredit'
  BY <1>2, <1>3 DEF BalanceIsCredit
<1>5. ASSUME NEW v \in Workers, NEW c \in Customers \ blurred', whose'[v] = c
      PROVE  credit'[v] <= CreditTo(c)'
  <2>1. c = whose[v] /\ credit'[v] = credit[v] /\ c \notin blurred
    BY <1>2, <1>5 DEF Copied
  <2>2. credit[v] <= CreditTo(c)
    BY <2>1 DEF CreditRead
  <2>3. QED BY <1>3, <2>1, <2>2
<1>6. QED BY <1>4, <1>5 DEF CreditRead

LEMMA NextBalance ==
  ASSUME SInv, BalanceIsCredit, CreditRead, [Next]_vars
  PROVE  BalanceIsCredit' /\ CreditRead'
<1> USE DEF SInv
<1>1. ASSUME NEW w \in Workers, Act(w) PROVE BalanceIsCredit' /\ CreditRead'
  <2>1. CASE ConfirmRefused(w) \/ CancelRefused(w) \/ DeliverRefused(w) \/ PayRefused(w)
    BY <2>1, BalanceKept, Responds
    DEF ConfirmRefused, CancelRefused, DeliverRefused, PayRefused, Refuse, rows
  <2>2. CASE Confirm(w) \/ CancelConfirmed(w) \/ CancelOther(w) \/ Deliver(w)
    BY <2>2, BalanceKept, Responds DEF Confirm, CancelConfirmed, CancelOther, Deliver
  <2>3. ASSUME NEW edit \in load.edits, Update(w, edit) PROVE BalanceIsCredit' /\ CreditRead'
    BY <2>3, BalanceKept, Responds DEF Update
  <2>4. QED
    BY <1>1, <2>1, <2>2, <2>3, BalanceByPay, BalanceByUpdate, BalanceByDestroy DEF Act
<1>2. ASSUME NEW w \in Workers, NEW h \in Handlers, NEW o \in Orders, Fetch(w, h, o)
      PROVE  BalanceIsCredit' /\ CreditRead'
  <2>1. PICK c : c = order[o].customer
    OBVIOUS
  <2>2. QED BY <1>2, <2>1, BalanceRead DEF Fetch, rows, history
<1>3. ASSUME NEW w \in Workers, NEW c \in Customers, FetchCustomer(w, c)
      PROVE  BalanceIsCredit' /\ CreditRead'
  BY <1>3, BalanceRead DEF FetchCustomer, Owed, rows, history
<1>4. CASE UNCHANGED vars
  BY <1>4, BalanceKept DEF vars, rows, history, request, Copied
<1>5. QED BY <1>1, <1>2, <1>3, <1>4 DEF Next

LEMMA InitBalance == Init => BalanceIsCredit /\ CreditRead
<1> SUFFICES ASSUME Init PROVE BalanceIsCredit /\ CreditRead
  OBVIOUS
<1>1. ASSUME NEW c PROVE CreditTo(c) = 0
  <2> DEFINE f == CreditOn(c)
  <2>1. IsFiniteSet(Orders) /\ \A o \in Orders : f[o] = 0
    BY SumOfEmpty, OrdersAssumption DEF Init, CreditOn
  <2> HIDE DEF f
  <2>2. SumFunctionOnSet(f, Orders) = 0
    BY <2>1, SumZero
  <2>3. QED BY <2>2, CreditToIs DEF f
<1>2. \A c \in Customers : balance[c] = 0
  BY DEF Init
<1>3. \A w \in Workers : credit[w] = 0
  BY DEF Init
<1>4. QED BY <1>1, <1>2, <1>3 DEF BalanceIsCredit, CreditRead

-----------------------------------------------------------------------------
(* Theorems.                                                               *)

\* The invariant of rows, copies and postings is inductive, whatever requests
\* overlap and whatever clients set.
THEOREM SalesInvariant == Spec => []SInv
<1>1. Init => SInv
  BY InitSInv
<1>2. SInv /\ [Next]_vars => SInv'
  BY NextSInv
<1>3. QED BY <1>1, <1>2, PTL DEF Spec

\* confirm_order and cancel_order: an order that no stale request has written and
\* no client has edited has moved exactly the stock its status says.
THEOREM StockFollowsStatus == Spec => []StockMatchesStatus
<1>1. SInv => StockMatchesStatus
  BY DEF SInv
<1>2. QED BY <1>1, SalesInvariant, PTL

\* update_payment_status: what is due and the payment status follow from what was
\* paid, however payments overwrite each other.
THEOREM AmountsFollow == Spec => []AmountsAgree
<1>1. SInv => AmountsAgree
  BY DEF SInv
<1>2. QED BY <1>1, SalesInvariant, PTL

\* Every variable keeps its type: what confirm_order and cancel_order post leaves
\* quantities on hand.
THEOREM SalesTypes == Spec => []TypeOK
<1>1. Init => StockTyped
  BY OpenedTyped
<1>2. SInv /\ StockTyped /\ [Next]_vars => StockTyped'
  BY NextTyped
<1>3. SInv /\ StockTyped => TypeOK
  BY DEF SInv, StockTyped, TypeOK
<1>4. QED BY <1>1, <1>2, <1>3, SalesInvariant, PTL DEF Spec

\* record_payment: amount_paid of an order that no stale request has written and
\* no client has edited is the sum of its Payment rows.
THEOREM PaidAddsUp == Spec => []PaidIsPayments
<1>1. Init => PaidIsPayments
  BY InitPaid
<1>2. SInv /\ PaidIsPayments /\ [Next]_vars => PaidIsPayments'
  BY NextPaid
<1>3. QED BY <1>1, <1>2, SalesInvariant, PTL DEF Spec

\* record_payment on credit, and PUT or PATCH of a customer: an outstanding balance
\* is never more than what was paid on credit on the orders that were the
\* customer's at the time, and is that unless it was written from a stale reading,
\* however payments, edits and moves of orders between customers mix.
THEOREM BalanceAddsUp == Spec => []BalanceIsCredit
<1>1. Init => BalanceIsCredit /\ CreditRead
  BY InitBalance
<1>2. SInv /\ (BalanceIsCredit /\ CreditRead) /\ [Next]_vars => (BalanceIsCredit /\ CreditRead)'
  BY NextBalance
<1>3. QED BY <1>1, <1>2, SalesInvariant, PTL DEF Spec

\* deliver: no handler with a fresh copy takes an order out of "delivered".
THEOREM DeliveredStays == Spec => DeliveredIsFinal
<1>1. SInv /\ [Next]_vars => [KeepsDelivered]_vars
  BY NextSInv
<1>2. SInv /\ [Next]_vars =>
        [\A o \in Orders :
           order[o] # NoOrder /\ order[o].status = "delivered" /\ order'[o] # NoOrder
             => order'[o].status = "delivered" \/ o \in overlapped' \union edited']_vars
  BY <1>1 DEF KeepsDelivered
<1>3. QED BY <1>2, SalesInvariant, PTL DEF Spec, DeliveredIsFinal
=============================================================================
