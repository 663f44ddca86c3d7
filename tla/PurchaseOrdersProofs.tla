------------------------ MODULE PurchaseOrdersProofs ------------------------
(***************************************************************************)
(* Theorems about PurchaseOrders, for every set of requests, orders, items *)
(* and quantities.                                                         *)
(***************************************************************************)
EXTENDS PurchaseOrders, SumLemmas, TLAPS

USE DEF history

-----------------------------------------------------------------------------
(* Items and quantities.                                                   *)

LEMMA Elements ==
  ASSUME NEW S, NEW s \in Seq(S)
  PROVE  /\ Len(s) \in Nat /\ DOMAIN s = 1..Len(s) /\ \A i \in 1..Len(s) : s[i] \in S
         /\ s # <<>> <=> Len(s) # 0
OBVIOUS

LEMMA ItemTyped ==
  ASSUME NEW p \in Orders
  PROVE  /\ Len(Items[p]) \in Nat \ {0}
         /\ \A i \in 1..Len(Items[p]) : Items[p][i].product \in Products /\ Items[p][i].qty \in Nat \ {0}
<1> DEFINE Item == [product : Products, qty : Nat \ {0}]
<1>1. Items[p] \in Seq(Item) /\ Items[p] # <<>>
  BY OrdersAssumption, Zenon
<1> HIDE DEF Item
<1>2. Len(Items[p]) \in Nat \ {0} /\ \A i \in 1..Len(Items[p]) : Items[p][i] \in Item
  BY <1>1, Elements
<1>3. QED BY <1>2 DEF Item

LEMMA PendingIs ==
  ASSUME NEW p, NEW i, NEW n \in Nat, Items[p][i].qty \in Nat
  PROVE  /\ quantity_pending(p, i, n) \in Nat
         /\ n <= Items[p][i].qty => quantity_pending(p, i, n) = Items[p][i].qty - n
<1> DEFINE a == Items[p][i].qty - n
<1>1. PICK m \in {a, 0} : \A x \in {a, 0} : m >= x
  <2>1. CASE a >= 0
    BY <2>1
  <2>2. CASE a < 0
    BY <2>2
  <2>3. QED BY <2>1, <2>2
<1>2. Max({a, 0}) \in {a, 0} /\ \A x \in {a, 0} : Max({a, 0}) >= x
  BY <1>1 DEF Max
<1>3. QED BY <1>2 DEF quantity_pending

LEMMA MinPair ==
  ASSUME NEW a \in Nat, NEW b \in Nat
  PROVE  Min({a, b}) \in Nat /\ Min({a, b}) <= b
<1>1. PICK m \in {a, b} : \A x \in {a, b} : m <= x
  <2>1. CASE a <= b
    BY <2>1
  <2>2. CASE b < a
    BY <2>2
  <2>3. QED BY <2>1, <2>2
<1>2. Min({a, b}) \in {a, b} /\ \A x \in {a, b} : Min({a, b}) <= x
  BY <1>1 DEF Min
<1>3. QED BY <1>2

\* receive accepts at most what an item is waiting for.
LEMMA AcceptWithin ==
  ASSUME NEW w \in Workers, at[w] \in Orders, seen[w] \in Seq(Nat),
         seen[w] # <<>> => Len(seen[w]) = Len(Items[at[w]]),
         \A i \in 1..Len(seen[w]) : seen[w][i] <= Items[at[w]][i].qty,
         NEW sent \in Sent(w)
  PROVE  /\ Accept(w, sent) \in Seq(Nat) /\ Len(Accept(w, sent)) = Len(seen[w])
         /\ \A i \in 1..Len(seen[w]) : /\ seen[w][i] <= Accept(w, sent)[i]
                                       /\ Accept(w, sent)[i] <= Items[at[w]][i].qty
<1> DEFINE n == Len(seen[w])
           new == Accept(w, sent)
<1>0. \A i \in 1..n : sent[i] \in Nat
  <2>1. Given \union {0} \subseteq Nat
    BY OrdersAssumption
  <2>2. sent \in [1..n -> Given \union {0}]
    BY DEF Sent
  <2>3. QED BY <2>1, <2>2
<1>1. n \in Nat /\ \A i \in 1..n : seen[w][i] \in Nat
  BY Elements
<1>2. new = [i \in 1..n |->
        seen[w][i] + Min({sent[i], quantity_pending(at[w], i, seen[w][i])})]
  BY DEF Accept
<1>3. ASSUME NEW i \in 1..n
      PROVE  /\ new[i] \in Nat
             /\ seen[w][i] <= new[i] /\ new[i] <= Items[at[w]][i].qty
  <2> DEFINE pend == quantity_pending(at[w], i, seen[w][i])
             q == Items[at[w]][i].qty
             m == Min({sent[i], pend})
  <2>1. q \in Nat /\ seen[w][i] \in Nat /\ seen[w][i] <= q
    BY <1>1, ItemTyped, Elements
  <2>2. pend \in Nat /\ pend = q - seen[w][i]
    BY <2>1, PendingIs
  <2>3. sent[i] \in Nat
    BY <1>0
  <2>4. new[i] = seen[w][i] + m
    BY <1>2
  <2>5. m \in Nat /\ m <= pend
    <3> HIDE DEF pend
    <3>1. QED BY <2>2, <2>3, MinPair
  <2> HIDE DEF pend, q, m, new
  <2>6. new[i] \in Nat /\ seen[w][i] <= new[i] /\ new[i] <= q
    BY <2>1, <2>2, <2>4, <2>5
  <2>7. QED BY <2>6 DEF q
<1>4. new \in [1..n -> Nat]
  BY <1>2, <1>3
<1> HIDE DEF new, n
<1>5. new \in Seq(Nat) /\ Len(new) = n
  BY <1>1, <1>4
<1>6. QED BY <1>3, <1>5 DEF n, new

-----------------------------------------------------------------------------
(* The stock.                                                              *)

LEMMA StockSum ==
  ASSUME NEW f, NEW S
  PROVE  Stock!SumFunctionOnSet(f, S) = SumFunctionOnSet(f, S)
BY DEF Stock!SumFunctionOnSet, SumFunctionOnSet, Stock!FoldFunctionOnSet, FoldFunctionOnSet,
   Stock!MapThenFoldSet, MapThenFoldSet

\* What a receipt adds to the stock of a product, and to the sum of its rows.
Gained(p, from, to) == {i \in 1..Len(to) : to[i] > from[i]}
GainedOf(p, from, to, x) == {i \in Gained(p, from, to) : Items[p][i].product = x}
Gain(p, from, to, x) ==
  SumFunctionOnSet([i \in Gained(p, from, to) |-> to[i] - from[i]], GainedOf(p, from, to, x))

\* What it adds to a key when it is posted in the warehouse a.
Landed(a, p, from, to, k) == IF k[1] = a THEN Gain(p, from, to, k[2]) ELSE 0

LEMMA GainFinite ==
  ASSUME NEW p, NEW from, NEW to \in Seq(Nat), NEW x
  PROVE  IsFiniteSet(GainedOf(p, from, to, x))
<1>1. Len(to) \in Nat
  BY Elements
<1>2. IsFiniteSet(1..Len(to))
  BY <1>1, FS_Interval
<1>3. GainedOf(p, from, to, x) \subseteq 1..Len(to)
  BY DEF GainedOf, Gained
<1>4. QED BY <1>2, <1>3, FS_Subset

LEMMA GainTyped ==
  ASSUME NEW p, NEW from \in Seq(Nat), NEW to \in Seq(Nat), Len(from) = Len(to), NEW x
  PROVE  Gain(p, from, to, x) \in Nat
<1> DEFINE f == [i \in Gained(p, from, to) |-> to[i] - from[i]]
           S == GainedOf(p, from, to, x)
<1>1. \A i \in 1..Len(to) : to[i] \in Nat /\ from[i] \in Nat
  BY Elements
<1>2. \A i \in S : f[i] \in Nat
  BY <1>1 DEF GainedOf, Gained
<1>3. IsFiniteSet(S)
  BY GainFinite
<1> HIDE DEF f, S
<1>4. SumFunctionOnSet(f, S) \in Nat
  BY <1>2, <1>3, SumNat
<1>5. QED BY <1>4 DEF Gain, f, S

LEMMA ReceiptPosted ==
  ASSUME NEW a, NEW p, NEW from, NEW to, Stock!Post(Receipt(a, p, from, to))
  PROVE  onHand' = [k \in Keys |-> onHand[k] + Landed(a, p, from, to, k)]
<1> DEFINE batch == Receipt(a, p, from, to)
           G == Gained(p, from, to)
           f == [i \in G |-> to[i] - from[i]]
<1>1. batch = [i \in G |-> [key |-> <<a, Items[p][i].product>>, qty |-> to[i] - from[i]]]
  BY DEF Receipt, Gained
<1>2. /\ DOMAIN batch = G
      /\ \A i \in G : batch[i].qty = f[i] /\ batch[i].key = <<a, Items[p][i].product>>
  BY <1>1
<1>3. [i \in DOMAIN batch |-> batch[i].qty] = f
  BY <1>2
<1>4. ASSUME NEW k \in Keys
      PROVE  Stock!ItemsOf(batch, k) = IF k[1] = a THEN GainedOf(p, from, to, k[2]) ELSE {}
  <2> HIDE DEF batch, f
  <2>1. k = <<k[1], k[2]>>
    BY DEF Keys
  <2>2. Stock!ItemsOf(batch, k) = {i \in G : <<a, Items[p][i].product>> = k}
    BY <1>2 DEF Stock!ItemsOf
  <2>3. QED BY <2>1, <2>2 DEF GainedOf
<1>5. onHand' = [k \in Keys |-> onHand[k] + Stock!Change(batch, Stock!ItemsOf(batch, k))]
  BY DEF Stock!Post
<1>6. \A k \in Keys : Stock!Change(batch, Stock!ItemsOf(batch, k)) = Landed(a, p, from, to, k)
  <2> HIDE DEF batch
  <2>1. \A S : Stock!Change(batch, S) = SumFunctionOnSet(f, S)
    BY <1>3, StockSum DEF Stock!Change
  <2>2. SumFunctionOnSet(f, {}) = 0
    BY SumEmpty
  <2>3. QED BY <1>4, <2>1, <2>2 DEF Gain, Landed
<1> HIDE DEF batch
<1>7. QED BY <1>5, <1>6

-----------------------------------------------------------------------------
(* The requests.                                                           *)

LEMMA InitRequests == Init => RequestsInv
<1> SUFFICES ASSUME Init PROVE RequestsInv
  OBVIOUS
<1> USE DEF Init
<1>1. ASSUME NEW p \in Orders
      PROVE  /\ order[p] \in PurchaseOrder /\ order[p].status = "draft" /\ order[p] # NoOrder
             /\ received[p] \in Seq(Nat) /\ Len(received[p]) = Len(Items[p])
             /\ received[p] # <<>> /\ \A i \in 1..Len(received[p]) : received[p][i] = 0
  <2>1. order[p] = [status |-> "draft", warehouse |-> WarehouseOf[p]]
    OBVIOUS
  <2>2. order[p] \in PurchaseOrder /\ order[p].status = "draft"
    BY <2>1, OrdersAssumption DEF PurchaseOrder, Status
  <2>3. order[p] # NoOrder
    BY <2>2, OrdersAssumption
  <2> DEFINE n == Len(Items[p])
  <2>4. n \in Nat \ {0}
    BY ItemTyped
  <2>5. received[p] = [i \in 1..n |-> 0]
    OBVIOUS
  <2> HIDE DEF n
  <2>6. received[p] \in Seq(Nat) /\ Len(received[p]) = n /\ \A i \in 1..n : received[p][i] = 0
    BY <2>4, <2>5
  <2>7. received[p] # <<>>
    BY <2>4, <2>6, Elements
  <2>8. QED BY <2>2, <2>3, <2>6, <2>7 DEF n
<1>2. onHand \in [Keys -> Int]
  BY OrdersAssumption DEF Stock!Opened
<1>3. ASSUME NEW p \in Orders PROVE ~AllReceived(p, received[p])
  <2>1. 1 \in 1..Len(Items[p]) /\ Items[p][1].qty \in Nat \ {0}
    BY ItemTyped
  <2>2. 1 \in 1..Len(received[p]) /\ received[p][1] = 0
    BY <1>1, <2>1
  <2>3. ~(received[p][1] >= Items[p][1].qty)
    BY <2>1, <2>2
  <2>4. QED BY <2>2, <2>3 DEF AllReceived
<1>4. <<>> \in Seq(Nat)
  OBVIOUS
<1>5. TypeOK
  <2>1. order \in [Orders -> PurchaseOrder \union {NoOrder}]
    BY <1>1
  <2>2. received \in [Orders -> Seq(Nat)]
    BY <1>1
  <2>3. QED BY <1>2, <1>4, <2>1, <2>2 DEF TypeOK, Handlers, Status
<1>6. RowsKept
  BY <1>1 DEF RowsKept
<1>7. RequestsHold /\ ServedAlone /\ FreshCopies
  BY DEF RequestsHold, ServedAlone, FreshCopies, Busy, HasRead, HasSet
<1>8. ReceivedWithinOrdered
  <2>1. ASSUME NEW p \in Orders, NEW i \in 1..Len(received[p])
        PROVE  received[p][i] <= Items[p][i].qty
    <3>1. received[p][i] = 0 /\ i \in 1..Len(Items[p])
      BY <1>1
    <3>2. Items[p][i].qty \in Nat
      BY <3>1, ItemTyped
    <3>3. QED BY <3>1, <3>2
  <2>2. QED BY <2>1 DEF ReceivedWithinOrdered
<1>9. StatusFollowsItems
  BY <1>1, <1>3 DEF StatusFollowsItems
<1>10. QED BY <1>5, <1>6, <1>7, <1>8, <1>9 DEF RequestsInv

\* The end of a request that leaves its order with this row and these items.
Ends(w, o, row, quantities) ==
  /\ w \in Workers /\ Busy(w) /\ o \in Orders /\ at[w] = o /\ Respond(w)
  /\ order' = [order EXCEPT ![o] = row]
  /\ received' = [received EXCEPT ![o] = quantities]
  /\ disturbed \subseteq disturbed' /\ disturbed' \subseteq disturbed \union {o}
  /\ moved' \subseteq moved \union {o}

\* What it may leave.
Leaves(o, row, quantities) ==
  /\ row \in PurchaseOrder \union {NoOrder}
  /\ quantities \in Seq(Nat)
  /\ quantities # <<>> => Len(quantities) = Len(Items[o])
  /\ \A i \in 1..Len(quantities) : quantities[i] <= Items[o][i].qty
  /\ o \notin disturbed' =>
       /\ quantities # <<>> /\ row # NoOrder
       /\ row.status = "received" => AllReceived(o, quantities)
       /\ row.status \in {"draft", "sent", "confirmed", "partial"} => ~AllReceived(o, quantities)

LEMMA EndsRequests ==
  ASSUME RequestsInv, NEW w, NEW o, NEW row, NEW quantities, Ends(w, o, row, quantities),
         Leaves(o, row, quantities), onHand' \in [Keys -> Int]
  PROVE  RequestsInv'
<1> USE DEF Ends, Respond
<1>0. TypeOK
  BY DEF RequestsInv
<1>1. /\ order' \in [Orders -> PurchaseOrder \union {NoOrder}]
      /\ \A p \in Orders \ {o} : order'[p] = order[p]
      /\ order'[o] = row
  BY <1>0 DEF TypeOK, Leaves
<1>2. /\ received' \in [Orders -> Seq(Nat)]
      /\ \A p \in Orders \ {o} : received'[p] = received[p]
      /\ received'[o] = quantities
  BY <1>0 DEF TypeOK, Leaves
<1>3. /\ \A v \in Workers \ {w} : /\ pc'[v] = pc[v] /\ serving'[v] = serving[v] /\ at'[v] = at[v]
                                  /\ object'[v] = object[v] /\ seen'[v] = seen[v]
                                  /\ written'[v] = written[v] /\ verdict'[v] = verdict[v]
      /\ pc'[w] = "idle" /\ at'[w] = NoOrder
  BY <1>0 DEF TypeOK
<1>4. \A p \in Orders \ {o} : p \in disturbed' <=> p \in disturbed
  OBVIOUS
<1>5. TypeOK'
  <2>1. <<>> \in Seq(Nat)
    OBVIOUS
  <2>2. disturbed' \subseteq Orders /\ moved' \subseteq Orders
    BY <1>0 DEF TypeOK
  <2>3. QED BY <1>0, <1>1, <1>2, <2>1, <2>2 DEF TypeOK, Handlers, Status
<1>6. RowsKept'
  BY <1>1, <1>2, <1>4 DEF RequestsInv, RowsKept, Leaves
<1>7. ASSUME NEW v \in Workers, Busy(v)' PROVE v # w /\ Busy(v)
  BY <1>3, <1>7 DEF Busy
<1>8. RequestsHold'
  <2>1. \A v \in Workers \ {w} : HasRead(v)' = HasRead(v) /\ HasSet(v)' = HasSet(v) /\ Busy(v)' = Busy(v)
    BY <1>3 DEF HasRead, HasSet, Busy
  <2>2. ~HasRead(w)' /\ ~HasSet(w)' /\ ~Busy(w)'
    BY <1>3 DEF HasRead, HasSet, Busy
  <2>3. QED BY <1>3, <2>1, <2>2 DEF RequestsInv, RequestsHold
<1>9. ServedAlone'
  BY <1>3, <1>7, OrdersAssumption DEF RequestsInv, ServedAlone, RequestsHold
<1>10. FreshCopies'
  <2>1. ASSUME NEW v \in Workers, Busy(v)', at'[v] \notin disturbed'
        PROVE  v # w /\ Busy(v) /\ at'[v] = at[v] /\ at[v] # o /\ at[v] \in Orders \ disturbed
    <3>1. v # w /\ Busy(v) /\ at'[v] = at[v]
      BY <1>3, <1>7, <2>1
    <3>2. at[v] \in Orders
      BY <3>1 DEF RequestsInv, RequestsHold
    <3>3. at[v] # o
      BY <2>1, <3>1 DEF RequestsInv, ServedAlone
    <3>4. QED BY <1>4, <2>1, <3>1, <3>2, <3>3
  <2>2. ASSUME NEW v \in Workers, v # w, at'[v] = at[v], at[v] \in Orders \ {o}
        PROVE  Visible(v)' = Visible(v)
    BY <1>2, <1>3, <2>2 DEF Visible, Locked, Touches
  <2>3. ASSUME NEW v \in Workers, Busy(v)', at'[v] \notin disturbed'
        PROVE  /\ object'[v] = order'[at'[v]]
               /\ Receiving(v)' => object'[v].status \in {"confirmed", "partial", "sent"}
               /\ pc'[v] = "save" => Allowed(serving'[v], object'[v].status)
               /\ HasRead(v)' => seen'[v] = received'[at'[v]]
               /\ pc'[v] = "commit" =>
                    verdict'[v] = IF AllReceived(at'[v], Visible(v)') THEN "received" ELSE "partial"
    <3>1. v # w /\ Busy(v) /\ at'[v] = at[v] /\ at[v] # o /\ at[v] \in Orders \ disturbed
      BY <2>1, <2>3
    <3>2. Visible(v)' = Visible(v)
      BY <2>2, <3>1
    <3>3. /\ object[v] = order[at[v]]
          /\ Receiving(v) => object[v].status \in {"confirmed", "partial", "sent"}
          /\ pc[v] = "save" => Allowed(serving[v], object[v].status)
          /\ HasRead(v) => seen[v] = received[at[v]]
          /\ pc[v] = "commit" =>
               verdict[v] = IF AllReceived(at[v], Visible(v)) THEN "received" ELSE "partial"
      BY <3>1 DEF RequestsInv, FreshCopies
    <3>4. /\ pc'[v] = pc[v] /\ serving'[v] = serving[v] /\ object'[v] = object[v]
          /\ seen'[v] = seen[v] /\ verdict'[v] = verdict[v]
          /\ order'[at[v]] = order[at[v]] /\ received'[at[v]] = received[at[v]]
      BY <1>1, <1>2, <1>3, <3>1
    <3>5. Receiving(v)' = Receiving(v) /\ HasRead(v)' = HasRead(v)
      BY <3>4 DEF Receiving, HasRead
    <3>6. QED BY <3>1, <3>2, <3>3, <3>4, <3>5
  <2>4. QED BY <2>3 DEF FreshCopies, Allowed
<1>11. ReceivedWithinOrdered'
  BY <1>2 DEF RequestsInv, ReceivedWithinOrdered, Leaves
<1>12. StatusFollowsItems'
  BY <1>1, <1>2, <1>4 DEF RequestsInv, StatusFollowsItems, Leaves, AllReceived
<1>13. QED BY <1>5, <1>6, <1>8, <1>9, <1>10, <1>11, <1>12 DEF RequestsInv

\* The steps of receive before its commit, and the fetch, change one request.
Steps(w) ==
  /\ w \in Workers /\ UNCHANGED <<tables, stock>>
  /\ disturbed \subseteq disturbed' /\ disturbed' \subseteq Orders /\ moved' = moved
  /\ \A v \in Workers \ {w} :
       /\ pc'[v] = pc[v] /\ serving'[v] = serving[v] /\ at'[v] = at[v]
       /\ object'[v] = object[v] /\ seen'[v] = seen[v]
       /\ written'[v] = written[v] /\ verdict'[v] = verdict[v]

\* What such a step leaves the request with.
RequestHolds(w) ==
  /\ IF Busy(w) THEN at[w] \in Orders /\ object[w] \in PurchaseOrder ELSE at[w] = NoOrder
  /\ HasRead(w) =>
       /\ seen[w] # <<>> => Len(seen[w]) = Len(Items[at[w]])
       /\ \A i \in 1..Len(seen[w]) : seen[w][i] <= Items[at[w]][i].qty
  /\ HasSet(w) =>
       /\ Len(written[w]) = Len(seen[w])
       /\ \A i \in 1..Len(seen[w]) :
            seen[w][i] <= written[w][i] /\ written[w][i] <= Items[at[w]][i].qty

FreshCopy(w) ==
  Busy(w) /\ at[w] \notin disturbed =>
    /\ object[w] = order[at[w]]
    /\ Receiving(w) => object[w].status \in {"confirmed", "partial", "sent"}
    /\ pc[w] = "save" => Allowed(serving[w], object[w].status)
    /\ HasRead(w) => seen[w] = received[at[w]]
    /\ pc[w] = "commit" =>
         verdict[w] = IF AllReceived(at[w], Visible(w)) THEN "received" ELSE "partial"

LEMMA StepsRequests ==
  ASSUME RequestsInv, NEW w, Steps(w), TypeOK', RequestHolds(w)', FreshCopy(w)', ServedAlone'
  PROVE  RequestsInv'
<1> USE DEF Steps, tables, stock
<1>1. ASSUME NEW v \in Workers, v # w
      PROVE  /\ Busy(v)' = Busy(v) /\ HasRead(v)' = HasRead(v) /\ HasSet(v)' = HasSet(v)
             /\ Receiving(v)' = Receiving(v) /\ Visible(v)' = Visible(v)
  BY <1>1 DEF Busy, HasRead, HasSet, Receiving, Visible, Locked, Touches
<1>2. RowsKept'
  BY DEF RequestsInv, RowsKept
<1>3. RequestsHold'
  <2>1. ASSUME NEW v \in Workers, v # w PROVE RequestHolds(v)'
    <3>1. RequestHolds(v)
      BY DEF RequestsInv, RequestsHold, RequestHolds
    <3>2. QED BY <1>1, <2>1, <3>1 DEF RequestHolds
  <2>2. \A v \in Workers : RequestHolds(v)'
    BY <2>1
  <2>3. QED BY <2>2 DEF RequestHolds, RequestsHold
<1>4. FreshCopies'
  <2>1. ASSUME NEW v \in Workers, v # w PROVE FreshCopy(v)'
    <3>1. FreshCopy(v)
      BY DEF RequestsInv, FreshCopies, FreshCopy
    <3>2. QED BY <1>1, <2>1, <3>1 DEF FreshCopy, AllReceived, Allowed
  <2>2. \A v \in Workers : FreshCopy(v)'
    BY <2>1
  <2>3. QED BY <2>2 DEF FreshCopies, FreshCopy
<1>5. ReceivedWithinOrdered' /\ StatusFollowsItems'
  BY DEF RequestsInv, ReceivedWithinOrdered, StatusFollowsItems, AllReceived
<1>6. QED BY <1>2, <1>3, <1>4, <1>5 DEF RequestsInv

-----------------------------------------------------------------------------
(* The handlers.                                                           *)

\* What the request of w holds.
LEMMA Holding ==
  ASSUME RequestsInv, NEW w \in Workers
  PROVE  RequestHolds(w) /\ FreshCopy(w) /\ seen[w] \in Seq(Nat) /\ written[w] \in Seq(Nat)
BY DEF RequestsInv, RequestsHold, FreshCopies, RequestHolds, FreshCopy, TypeOK

LEMMA FetchStep ==
  ASSUME RequestsInv, NEW w \in Workers, NEW h \in Handlers, NEW p \in Orders, Fetch(w, h, p)
  PROVE  RequestsInv'
<1>0. TypeOK
  BY DEF RequestsInv
<1>1. Steps(w)
  BY <1>0 DEF Fetch, Steps, TypeOK
<1>2. /\ at'[w] = p /\ object'[w] = order[p] /\ serving'[w] = h
      /\ pc'[w] = IF ~Allowed(h, order[p].status) THEN "refuse"
                  ELSE IF h = "receive" THEN "read" ELSE "save"
      /\ order[p] \in PurchaseOrder
      /\ order' = order
  BY <1>0 DEF Fetch, TypeOK, tables
<1>3. TypeOK'
  <2>1. pc' \in [Workers -> {"idle", "refuse", "read", "write", "recheck", "commit", "save"}]
    BY <1>0 DEF Fetch, TypeOK
  <2>2. disturbed' \subseteq Orders
    BY <1>0 DEF Fetch, TypeOK
  <2>3. serving' \in [Workers -> Handlers] /\ at' \in [Workers -> Orders \union {NoOrder}]
        /\ object' \in [Workers -> PurchaseOrder \union {NoOrder}]
    BY <1>0, <1>2 DEF Fetch, TypeOK
  <2>4. UNCHANGED <<order, received, onHand, seen, written, verdict, moved>>
    BY DEF Fetch, tables, stock
  <2>5. QED BY <1>0, <2>1, <2>2, <2>3, <2>4 DEF TypeOK
<1>4. RequestHolds(w)'
  BY <1>2 DEF RequestHolds, Busy, HasRead, HasSet
<1>5. FreshCopy(w)'
  BY <1>2 DEF FreshCopy, Busy, Receiving, HasRead, Allowed
<1>6. ServedAlone'
  <2>1. ASSUME NEW u \in Workers, u # w, at'[u] = p PROVE p \in disturbed'
    <3>1. at[u] = p
      BY <1>1, <2>1 DEF Steps
    <3>2. QED BY <3>1 DEF Fetch
  <2>2. ASSUME NEW u \in Workers, NEW v \in Workers, u # v, at'[u] = at'[v], Busy(v)'
        PROVE  at'[v] \in disturbed'
    <3>1. CASE u = w \/ v = w
      BY <1>2, <2>1, <2>2, <3>1
    <3>2. CASE u # w /\ v # w
      <4>1. at[u] = at[v] /\ Busy(v) /\ at'[v] = at[v]
        BY <1>1, <2>2, <3>2 DEF Steps, Busy
      <4>2. QED BY <1>1, <2>2, <4>1 DEF RequestsInv, ServedAlone, Steps
    <3>3. QED BY <3>1, <3>2
  <2>3. QED BY <2>2 DEF ServedAlone
<1>7. QED BY <1>1, <1>3, <1>4, <1>5, <1>6, StepsRequests

LEMMA ReceivingStep ==
  ASSUME RequestsInv, NEW w \in Workers,
         ReadItems(w) \/ (\E sent \in Sent(w) : WriteItems(w, sent)) \/ Recheck(w)
  PROVE  RequestsInv'
<1>0. TypeOK
  BY DEF RequestsInv
<1>1. /\ RequestHolds(w) /\ FreshCopy(w) /\ Busy(w) /\ Receiving(w)
      /\ seen[w] \in Seq(Nat) /\ at[w] \in Orders
  <2>1. Busy(w) /\ Receiving(w)
    BY DEF ReadItems, WriteItems, Recheck, Busy, Receiving
  <2>2. QED BY <2>1, Holding DEF RequestHolds
<1>2. UNCHANGED <<tables, stock, serving, at, object, history>>
  BY DEF ReadItems, WriteItems, Recheck
<1>3. Steps(w) /\ pc'[w] # "idle" /\ pc[w] # "idle"
  BY <1>0, <1>2 DEF Steps, ReadItems, WriteItems, Recheck, TypeOK
<1>4. ServedAlone'
  <2>1. \A v \in Workers : Busy(v)' => Busy(v)
    BY <1>3 DEF Steps, Busy
  <2>2. QED BY <1>2, <2>1 DEF RequestsInv, ServedAlone
<1>5. CASE ReadItems(w)
  <2>1. /\ seen'[w] = received[at[w]] /\ pc'[w] = "write"
        /\ UNCHANGED <<tables, stock, serving, at, object, written, verdict, history>>
    BY <1>0, <1>5 DEF ReadItems, TypeOK
  <2>2. TypeOK'
    <3>1. received[at[w]] \in Seq(Nat)
      BY <1>0, <1>1 DEF TypeOK
    <3>2. pc' \in [Workers -> {"idle", "refuse", "read", "write", "recheck", "commit", "save"}]
          /\ seen' \in [Workers -> Seq(Nat)]
      BY <1>0, <1>5, <3>1 DEF ReadItems, TypeOK
    <3>3. QED BY <1>0, <2>1, <3>2 DEF TypeOK, tables, stock
  <2>3. RequestHolds(w)'
    <3>1. received[at[w]] # <<>> => Len(received[at[w]]) = Len(Items[at[w]])
      BY <1>1 DEF RequestsInv, RowsKept
    <3>2. \A i \in 1..Len(received[at[w]]) : received[at[w]][i] <= Items[at[w]][i].qty
      BY <1>1 DEF RequestsInv, ReceivedWithinOrdered
    <3>3. QED BY <1>1, <2>1, <3>1, <3>2 DEF RequestHolds, Busy, HasRead, HasSet
  <2>4. FreshCopy(w)'
    BY <1>1, <2>1 DEF FreshCopy, Busy, Receiving, HasRead, tables
  <2>5. QED BY <1>3, <1>4, <2>2, <2>3, <2>4, StepsRequests
<1>6. ASSUME NEW sent \in Sent(w), WriteItems(w, sent) PROVE RequestsInv'
  <2> DEFINE new == Accept(w, sent)
  <2>1. /\ written'[w] = new /\ pc'[w] = "recheck" /\ HasRead(w)
        /\ UNCHANGED <<tables, stock, serving, at, object, seen, verdict, history>>
    BY <1>0, <1>6 DEF WriteItems, TypeOK, HasRead
  <2>2. /\ new \in Seq(Nat) /\ Len(new) = Len(seen[w])
        /\ \A i \in 1..Len(seen[w]) : seen[w][i] <= new[i] /\ new[i] <= Items[at[w]][i].qty
    <3>1. /\ seen[w] # <<>> => Len(seen[w]) = Len(Items[at[w]])
          /\ \A i \in 1..Len(seen[w]) : seen[w][i] <= Items[at[w]][i].qty
      BY <1>1, <2>1 DEF RequestHolds
    <3>2. QED BY <1>1, <3>1, AcceptWithin
  <2>3. written' = [written EXCEPT ![w] = new]
    BY <1>6 DEF WriteItems
  <2> HIDE DEF new
  <2>4. TypeOK'
    <3>1. pc' \in [Workers -> {"idle", "refuse", "read", "write", "recheck", "commit", "save"}]
      BY <1>0, <1>6 DEF WriteItems, TypeOK
    <3>2. written' \in [Workers -> Seq(Nat)]
      BY <1>0, <2>2, <2>3 DEF TypeOK
    <3>3. QED BY <1>0, <2>1, <3>1, <3>2 DEF TypeOK, tables, stock
  <2>5. RequestHolds(w)'
    BY <1>1, <2>1, <2>2 DEF RequestHolds, Busy, HasRead, HasSet
  <2>6. FreshCopy(w)'
    BY <1>1, <2>1 DEF FreshCopy, Busy, Receiving, HasRead, tables
  <2>7. QED BY <1>3, <1>4, <2>4, <2>5, <2>6, StepsRequests
<1>7. CASE Recheck(w)
  <2>1. /\ verdict'[w] = IF AllReceived(at[w], Visible(w)) THEN "received" ELSE "partial"
        /\ pc[w] = "recheck" /\ pc'[w] = "commit"
        /\ UNCHANGED <<tables, stock, serving, at, object, seen, written, history>>
    BY <1>0, <1>7 DEF Recheck, TypeOK
  <2>2. TypeOK'
    <3>1. pc' \in [Workers -> {"idle", "refuse", "read", "write", "recheck", "commit", "save"}]
          /\ verdict' \in [Workers -> Status]
      BY <1>0, <1>7 DEF Recheck, TypeOK, Status
    <3>2. QED BY <1>0, <2>1, <3>1 DEF TypeOK, tables, stock
  <2>3. RequestHolds(w)'
    BY <1>1, <2>1 DEF RequestHolds, Busy, HasRead, HasSet
  <2>4. Visible(w)' = Visible(w)
    BY <2>1 DEF Visible, Locked, Touches, tables
  <2>5. FreshCopy(w)'
    BY <1>1, <2>1, <2>4 DEF FreshCopy, Busy, Receiving, HasRead, tables, AllReceived
  <2>6. QED BY <1>3, <1>4, <2>2, <2>3, <2>5, StepsRequests
<1>8. QED BY <1>5, <1>6, <1>7

\* The rows that receive has set are those that gain.
LEMMA LockedGain ==
  ASSUME RequestsInv, NEW w \in Workers, HasSet(w)
  PROVE  /\ Locked(w) = Gained(at[w], seen[w], written[w])
         /\ Len(written[w]) = Len(seen[w])
         /\ \A i \in Locked(w) : /\ i \in 1..Len(seen[w]) /\ seen[w][i] \in Nat
                                 /\ written[w][i] \in Nat /\ seen[w][i] < written[w][i]
                                 /\ written[w][i] <= Items[at[w]][i].qty
<1> DEFINE S == seen[w]
           T == written[w]
<1>1. /\ S \in Seq(Nat) /\ T \in Seq(Nat) /\ Len(T) = Len(S)
      /\ \A i \in 1..Len(S) : S[i] <= T[i] /\ T[i] <= Items[at[w]][i].qty
  BY Holding DEF RequestHolds
<1>2. Len(T) \in Nat /\ \A i \in 1..Len(T) : T[i] \in Nat /\ S[i] \in Nat
  BY <1>1, Elements
<1>3. T = <<>> => Len(T) = 0
  OBVIOUS
<1>4. Locked(w) = {i \in 1..Len(T) : T[i] # S[i]}
  BY <1>2, <1>3 DEF Locked, Touches
<1> HIDE DEF S, T
<1>5. Locked(w) = {i \in 1..Len(T) : T[i] > S[i]}
  BY <1>1, <1>2, <1>4
<1>6. \A i \in Locked(w) : /\ i \in 1..Len(S) /\ S[i] \in Nat
                           /\ T[i] \in Nat /\ S[i] < T[i] /\ T[i] <= Items[at[w]][i].qty
  BY <1>1, <1>2, <1>5
<1>7. QED BY <1>1, <1>5, <1>6 DEF Gained, S, T

LEMMA VisibleIs ==
  ASSUME RequestsInv, NEW w \in Workers, HasSet(w), at[w] \in Orders
  PROVE  /\ Visible(w) \in Seq(Nat) /\ Len(Visible(w)) = Len(received[at[w]])
         /\ \A i \in 1..Len(received[at[w]]) :
              Visible(w)[i] = IF i \in Locked(w) THEN written[w][i] ELSE received[at[w]][i]
<1> DEFINE R == received[at[w]]
           n == Len(R)
<1>1. n \in Nat /\ \A i \in 1..n : R[i] \in Nat
  BY Elements DEF RequestsInv, TypeOK
<1>2. \A i \in Locked(w) : written[w][i] \in Nat
  BY LockedGain
<1> DEFINE V == [i \in 1..n |-> IF i \in Locked(w) THEN written[w][i] ELSE R[i]]
<1>3. Visible(w) = V
  BY DEF Visible
<1> HIDE DEF R, n
<1>4. V \in [1..n -> Nat]
  BY <1>1, <1>2
<1>5. V \in Seq(Nat) /\ Len(V) = n
  <2> HIDE DEF V
  <2>1. QED BY <1>1, <1>4
<1>6. QED BY <1>3, <1>5 DEF R, n

LEMMA ReceiveStep ==
  ASSUME RequestsInv, NEW w \in Workers, Receive(w)
  PROVE  RequestsInv'
<1>0. TypeOK /\ Busy(w) /\ HasSet(w) /\ pc[w] = "commit"
  BY DEF RequestsInv, Receive, Busy, HasSet
<1>1. PICK o \in Orders : o = at[w]
  BY <1>0, Holding DEF RequestHolds
<1> DEFINE row == [order[o] EXCEPT !.status = verdict[w]]
<1>2. order[o] \in PurchaseOrder
  BY <1>0, <1>1 DEF Receive, TypeOK
<1>3. row \in PurchaseOrder /\ row.status = verdict[w] /\ row # NoOrder
  <2>1. row \in PurchaseOrder /\ row.status = verdict[w]
    BY <1>0, <1>2 DEF PurchaseOrder, TypeOK
  <2> HIDE DEF row
  <2>2. QED BY <2>1, OrdersAssumption
<1>4. order' = [order EXCEPT ![o] = row]
  BY <1>0, <1>1 DEF Receive, TypeOK
<1> HIDE DEF row
<1>5. Ends(w, o, row, Visible(w))
  BY <1>0, <1>1, <1>4 DEF Ends, Receive
<1>6. Leaves(o, row, Visible(w))
  <2>1. /\ Visible(w) \in Seq(Nat) /\ Len(Visible(w)) = Len(received[o])
        /\ \A i \in 1..Len(received[o]) :
              Visible(w)[i] = IF i \in Locked(w) THEN written[w][i] ELSE received[o][i]
    BY <1>0, <1>1, VisibleIs
  <2>2. /\ received[o] \in Seq(Nat)
        /\ received[o] # <<>> => Len(received[o]) = Len(Items[o])
    BY <1>0 DEF TypeOK, RequestsInv, RowsKept
  <2>3. received[o] = <<>> <=> Visible(w) = <<>>
    BY <1>0, <2>1, Elements DEF TypeOK
  <2>4. \A i \in 1..Len(Visible(w)) : Visible(w)[i] <= Items[o][i].qty
    <3>1. \A i \in 1..Len(received[o]) : received[o][i] <= Items[o][i].qty
      BY DEF RequestsInv, ReceivedWithinOrdered
    <3>2. \A i \in Locked(w) : written[w][i] <= Items[o][i].qty
      BY <1>0, <1>1, LockedGain
    <3>3. QED BY <2>1, <3>1, <3>2
  <2>5. ASSUME o \notin disturbed'
        PROVE  /\ received[o] # <<>>
               /\ verdict[w] = IF AllReceived(o, Visible(w)) THEN "received" ELSE "partial"
    <3>1. o \notin disturbed
      BY <2>5 DEF Receive
    <3>2. received[o] # <<>>
      BY <3>1 DEF RequestsInv, RowsKept
    <3>3. QED BY <1>0, <1>1, <3>1, <3>2, Holding DEF FreshCopy
  <2>6. QED BY <1>3, <2>1, <2>2, <2>3, <2>4, <2>5 DEF Leaves
<1>7. onHand' \in [Keys -> Int]
  <2>1. PICK a : a = object[w].warehouse
    OBVIOUS
  <2>2. onHand' = [k \in Keys |-> onHand[k] + Landed(a, o, seen[w], written[w], k)]
    BY <1>1, <2>1, ReceiptPosted DEF Receive
  <2>3. seen[w] \in Seq(Nat) /\ written[w] \in Seq(Nat) /\ Len(seen[w]) = Len(written[w])
    BY <1>0, Holding, LockedGain
  <2>4. \A k \in Keys : Landed(a, o, seen[w], written[w], k) \in Int
    BY <2>3, GainTyped DEF Landed
  <2>5. QED BY <1>0, <2>2, <2>4 DEF TypeOK
<1>8. QED BY <1>5, <1>6, <1>7, EndsRequests

\* What the items of an order that is left alone say of its status.
LEMMA AsItIs ==
  ASSUME RequestsInv, NEW o \in Orders
  PROVE  /\ received[o] \in Seq(Nat)
         /\ received[o] # <<>> => Len(received[o]) = Len(Items[o])
         /\ \A i \in 1..Len(received[o]) : received[o][i] <= Items[o][i].qty
         /\ order[o] \in PurchaseOrder \union {NoOrder}
         /\ received = [received EXCEPT ![o] = received[o]]
         /\ order = [order EXCEPT ![o] = order[o]]
         /\ onHand \in [Keys -> Int]
         /\ o \notin disturbed =>
              /\ received[o] # <<>> /\ order[o] # NoOrder
              /\ order[o].status = "received" => AllReceived(o, received[o])
              /\ order[o].status \in {"draft", "sent", "confirmed", "partial"}
                   => ~AllReceived(o, received[o])
BY DEF RequestsInv, TypeOK, RowsKept, ReceivedWithinOrdered, StatusFollowsItems

LEMMA SaveStep ==
  ASSUME RequestsInv, NEW w \in Workers, Approve(w) \/ Cancel(w)
  PROVE  RequestsInv'
<1>0. TypeOK /\ Busy(w) /\ pc[w] = "save"
  BY DEF RequestsInv, Approve, Cancel, Saves, Busy
<1>1. PICK o \in Orders : o = at[w]
  BY <1>0, Holding DEF RequestHolds
<1>2. order[o] \in PurchaseOrder /\ onHand' = onHand /\ disturbed' = disturbed
  BY <1>0, <1>1 DEF Approve, Cancel, TypeOK, stock
<1>3. PICK row \in PurchaseOrder :
        /\ order' = [order EXCEPT ![o] = row]
        /\ \/ Approve(w) /\ row.status = "confirmed"
           \/ Cancel(w) /\ row.status = "cancelled"
  <2>1. CASE Approve(w)
    <3> DEFINE row == [order[o] EXCEPT !.status = "confirmed"]
    <3>1. row \in PurchaseOrder /\ row.status = "confirmed"
      BY <1>2 DEF PurchaseOrder, Status
    <3>2. order' = [order EXCEPT ![o] = row]
      BY <1>0, <1>1, <2>1 DEF Approve, TypeOK
    <3>3. QED BY <2>1, <3>1, <3>2
  <2>2. CASE Cancel(w)
    <3> DEFINE row == [order[o] EXCEPT !.status = "cancelled"]
    <3>1. row \in PurchaseOrder /\ row.status = "cancelled"
      BY <1>2 DEF PurchaseOrder, Status
    <3>2. order' = [order EXCEPT ![o] = row]
      BY <1>0, <1>1, <2>2 DEF Cancel, TypeOK
    <3>3. QED BY <2>2, <3>1, <3>2
  <2>3. QED BY <2>1, <2>2
<1>4. Ends(w, o, row, received[o])
  BY <1>0, <1>1, <1>3, AsItIs DEF Ends, Approve, Cancel
<1>5. Leaves(o, row, received[o])
  <2>1. row # NoOrder
    BY OrdersAssumption
  <2>2. ASSUME o \notin disturbed, Approve(w) PROVE ~AllReceived(o, received[o])
    <3>1. FreshCopy(w)
      BY Holding
    <3>2. object[w] = order[o] /\ Allowed(serving[w], object[w].status)
      BY <1>0, <1>1, <2>2, <3>1 DEF FreshCopy
    <3>3. order[o].status \in {"draft", "sent"}
      BY <2>2, <3>2 DEF Approve, Saves, Allowed
    <3>4. QED BY <2>2, <3>3, AsItIs
  <2>3. /\ received[o] \in Seq(Nat)
        /\ received[o] # <<>> => Len(received[o]) = Len(Items[o])
        /\ \A i \in 1..Len(received[o]) : received[o][i] <= Items[o][i].qty
        /\ o \notin disturbed => received[o] # <<>>
    BY AsItIs
  <2>4. QED BY <1>2, <1>3, <2>1, <2>2, <2>3 DEF Leaves
<1>6. onHand' \in [Keys -> Int]
  BY <1>2, AsItIs
<1>7. QED BY <1>4, <1>5, <1>6, EndsRequests

LEMMA UpdateStep ==
  ASSUME RequestsInv, NEW w \in Workers, NEW s \in Edits \union {object[w].status},
         NEW a \in Warehouses, Update(w, s, a)
  PROVE  RequestsInv'
<1>0. TypeOK /\ Busy(w)
  BY DEF RequestsInv, Update, Saves, Busy
<1>1. PICK o \in Orders : o = at[w]
  BY <1>0, Holding DEF RequestHolds
<1> DEFINE row == [object[w] EXCEPT !.status = s, !.warehouse = a]
<1>2. object[w] \in PurchaseOrder
  BY <1>0, Holding DEF RequestHolds
<1>3. row \in PurchaseOrder /\ row.status = s
  BY <1>2, OrdersAssumption DEF PurchaseOrder
<1>4. /\ order' = [order EXCEPT ![o] = row]
      /\ disturbed' = disturbed \union {p \in {o} : s # object[w].status}
      /\ moved' = moved \union {p \in {o} : a # WarehouseOf[p]}
      /\ UNCHANGED <<received, onHand>> /\ Respond(w)
  BY <1>1 DEF Update, stock
<1> HIDE DEF row
<1>5. Ends(w, o, row, received[o])
  BY <1>0, <1>1, <1>4, AsItIs DEF Ends
<1>6. Leaves(o, row, received[o])
  <2>1. o \notin disturbed' => row.status = order[o].status /\ o \notin disturbed
    <3>1. FreshCopy(w)
      BY Holding
    <3>2. QED BY <1>0, <1>1, <1>3, <1>4, <3>1 DEF FreshCopy
  <2>2. row # NoOrder
    BY <1>3, OrdersAssumption
  <2>3. QED BY <1>3, <2>1, <2>2, AsItIs DEF Leaves
<1>7. onHand' \in [Keys -> Int]
  BY <1>4, AsItIs
<1>8. QED BY <1>5, <1>6, <1>7, EndsRequests

LEMMA DestroyStep ==
  ASSUME RequestsInv, NEW w \in Workers, Destroy(w)
  PROVE  RequestsInv'
<1>0. TypeOK /\ Busy(w)
  BY DEF RequestsInv, Destroy, Saves, Busy
<1>1. PICK o \in Orders : o = at[w]
  BY <1>0, Holding DEF RequestHolds
<1>2. Ends(w, o, NoOrder, <<>>) /\ onHand' = onHand /\ o \in disturbed'
  BY <1>0, <1>1 DEF Ends, Destroy, stock
<1>3. Leaves(o, NoOrder, <<>>)
  <2>1. <<>> \in Seq(Nat) /\ 1..Len(<<>>) = {}
    OBVIOUS
  <2>2. QED BY <1>2, <2>1 DEF Leaves
<1>4. onHand' \in [Keys -> Int]
  BY <1>2, AsItIs, <1>0 DEF TypeOK
<1>5. QED BY <1>2, <1>3, <1>4, EndsRequests

LEMMA AbandonStep ==
  ASSUME RequestsInv, NEW w \in Workers, Abandon(w)
  PROVE  RequestsInv'
<1>0. Busy(w)
  BY DEF Abandon, Busy
<1>1. PICK o \in Orders : o = at[w]
  BY <1>0, Holding DEF RequestHolds
<1>2. Ends(w, o, order[o], received[o]) /\ onHand' = onHand /\ disturbed' = disturbed
  BY <1>0, <1>1, AsItIs DEF Ends, Abandon, tables, stock
<1>3. Leaves(o, order[o], received[o])
  BY <1>2, AsItIs DEF Leaves
<1>4. onHand' \in [Keys -> Int]
  BY <1>2, AsItIs
<1>5. QED BY <1>2, <1>3, <1>4, EndsRequests

LEMMA NextRequests ==
  ASSUME RequestsInv, [Next]_vars
  PROVE  RequestsInv'
<1>1. ASSUME NEW w \in Workers, Act(w) PROVE RequestsInv'
  <2>1. ASSUME NEW s \in Edits \union {object[w].status}, NEW a \in Warehouses, Update(w, s, a)
        PROVE  RequestsInv'
    BY <2>1, UpdateStep
  <2>2. QED BY <1>1, <2>1, ReceivingStep, ReceiveStep, SaveStep, DestroyStep DEF Act
<1>2. CASE UNCHANGED vars
  <2>1. UNCHANGED <<order, received, onHand, pc, serving, at, object, seen, written, verdict,
                    disturbed, moved>>
    BY <1>2 DEF vars, tables, stock, request
  <2>2. TypeOK' /\ RowsKept' /\ ReceivedWithinOrdered' /\ StatusFollowsItems'
    BY <2>1 DEF RequestsInv, TypeOK, RowsKept, ReceivedWithinOrdered, StatusFollowsItems,
       AllReceived
  <2>3. RequestsHold' /\ ServedAlone'
    BY <2>1 DEF RequestsInv, RequestsHold, ServedAlone, Busy, HasRead, HasSet
  <2>4. ASSUME NEW w \in Workers PROVE FreshCopy(w)'
    <3>1. FreshCopy(w)
      BY Holding
    <3>2. Visible(w)' = Visible(w)
      BY <2>1 DEF Visible, Locked, Touches
    <3>3. QED BY <2>1, <3>1, <3>2 DEF FreshCopy, Busy, Receiving, HasRead, AllReceived, Allowed
  <2>5. FreshCopies'
    BY <2>4 DEF FreshCopies, FreshCopy
  <2>6. QED BY <2>2, <2>3, <2>5 DEF RequestsInv
<1>3. QED BY <1>1, <1>2, FetchStep, AbandonStep DEF Next

-----------------------------------------------------------------------------
(* The account of what has been posted.                                    *)

LEMMA RowsFinite ==
  ASSUME NEW k
  PROVE  IsFiniteSet(RowsOf(k)) /\ RowsOf(k) \subseteq ItemRows
<1> DEFINE rows == [p \in Orders |-> {<<p, i>> : i \in 1..Len(Items[p])}]
<1>1. ASSUME NEW p \in Orders PROVE IsFiniteSet(rows[p])
  <2> DEFINE pair == [i \in 1..Len(Items[p]) |-> <<p, i>>]
             n == Len(Items[p])
  <2>1. IsFiniteSet(1..n)
    BY ItemTyped, FS_Interval
  <2>2. rows[p] = {pair[i] : i \in 1..n}
    OBVIOUS
  <2> HIDE DEF pair, rows, n
  <2>3. IsFiniteSet({pair[i] : i \in 1..n})
    BY <2>1, ImageFinite
  <2>4. QED BY <2>2, <2>3
<1>2. ItemRows = UNION {rows[p] : p \in Orders}
  BY DEF ItemRows
<1> HIDE DEF rows
<1>3. IsFiniteSet({rows[p] : p \in Orders})
  BY OrdersAssumption, ImageFinite
<1>4. IsFiniteSet(ItemRows)
  BY <1>1, <1>2, <1>3, FS_UNION
<1>5. RowsOf(k) \subseteq ItemRows
  BY DEF RowsOf
<1>6. QED BY <1>4, <1>5, FS_Subset

LEMMA RowIs ==
  ASSUME NEW r \in ItemRows
  PROVE  r[1] \in Orders /\ r[2] \in 1..Len(Items[r[1]]) /\ r = <<r[1], r[2]>>
BY DEF ItemRows

LEMMA InRowIs ==
  ASSUME RequestsInv, NEW r \in ItemRows
  PROVE  InRow(r) \in Nat
<1>1. r[1] \in Orders /\ r[2] \in 1..Len(Items[r[1]])
  BY RowIs
<1>2. /\ received[r[1]] \in Seq(Nat)
      /\ received[r[1]] # <<>> => Len(received[r[1]]) = Len(Items[r[1]])
  BY <1>1, AsItIs
<1>3. QED BY <1>1, <1>2, Elements DEF InRow

\* A step that moves no order without noting it keeps the orders at home.
LEMMA HomeKept ==
  ASSUME OrdersAtHome, moved \subseteq moved',
         \A p \in Orders \ moved' : order'[p] # NoOrder =>
           \/ order'[p].warehouse = WarehouseOf[p]
           \/ order[p] # NoOrder /\ order'[p].warehouse = order[p].warehouse,
         \A w \in Workers : Busy(w)' =>
           \/ Busy(w) /\ at'[w] = at[w] /\ object'[w] = object[w]
           \/ /\ at'[w] \in Orders /\ object'[w] = order[at'[w]]
              /\ order[at'[w]] # NoOrder
  PROVE  OrdersAtHome'
BY DEF OrdersAtHome

LEMMA InitHome == Init => OrdersAtHome
BY DEF Init, OrdersAtHome, Busy

LEMMA ActHome ==
  ASSUME RequestsInv, OrdersAtHome, NEW w \in Workers, Act(w)
  PROVE  OrdersAtHome'
<1>0. TypeOK
  BY DEF RequestsInv
<1>1. ASSUME Busy(w), Respond(w)
      PROVE  \A v \in Workers : Busy(v)' => Busy(v) /\ at'[v] = at[v] /\ object'[v] = object[v]
  BY <1>0, <1>1 DEF Respond, Busy, TypeOK
<1>2. ASSUME Busy(w) PROVE at[w] \in Orders /\ object[w] \in PurchaseOrder
  BY <1>2, Holding DEF RequestHolds
<1>3. CASE Receive(w) \/ Approve(w) \/ Cancel(w)
  <2>1. Busy(w) /\ Respond(w) /\ moved' = moved /\ order[at[w]] \in PurchaseOrder
    BY <1>0, <1>2, <1>3 DEF Receive, Approve, Cancel, Saves, Busy, TypeOK
  <2>2. PICK s : order' = [order EXCEPT ![at[w]].status = s]
    BY <1>3 DEF Receive, Approve, Cancel
  <2>3. \A p \in Orders : order'[p] # NoOrder =>
          order[p] # NoOrder /\ order'[p].warehouse = order[p].warehouse
    <3>1. order[at[w]] # NoOrder
      BY <2>1, OrdersAssumption
    <3>2. \A p \in Orders : order'[p] = IF p = at[w] THEN [order[p] EXCEPT !.status = s]
                                                     ELSE order[p]
      BY <1>0, <2>2 DEF TypeOK
    <3>3. [order[at[w]] EXCEPT !.status = s].warehouse = order[at[w]].warehouse
      BY <2>1 DEF PurchaseOrder
    <3>4. QED BY <3>1, <3>2, <3>3
  <2>4. QED BY <1>1, <2>1, <2>3, HomeKept
<1>4. ASSUME NEW s \in Edits \union {object[w].status}, NEW a \in Warehouses, Update(w, s, a)
      PROVE  OrdersAtHome'
  <2>1. Busy(w) /\ Respond(w)
    BY <1>4 DEF Update, Saves, Busy
  <2>2. moved \subseteq moved' /\ (a # WarehouseOf[at[w]] => at[w] \in moved')
    BY <1>4 DEF Update
  <2>3. \A p \in Orders : order'[p] = IF p = at[w]
          THEN [object[w] EXCEPT !.status = s, !.warehouse = a] ELSE order[p]
    BY <1>0, <1>4 DEF Update, TypeOK
  <2>4. [object[w] EXCEPT !.status = s, !.warehouse = a].warehouse = a
    BY <1>2, <2>1 DEF PurchaseOrder
  <2>5. QED BY <1>1, <2>1, <2>2, <2>3, <2>4, HomeKept
<1>5. CASE Destroy(w)
  <2>1. Busy(w) /\ Respond(w) /\ moved' = moved
    BY <1>5 DEF Destroy, Saves, Busy
  <2>2. \A p \in Orders : order'[p] = IF p = at[w] THEN NoOrder ELSE order[p]
    BY <1>0, <1>5 DEF Destroy, TypeOK
  <2>3. QED BY <1>1, <2>1, <2>2, HomeKept
<1>6. CASE ReadItems(w) \/ (\E sent \in Sent(w) : WriteItems(w, sent)) \/ Recheck(w)
  <2>1. pc[w] # "idle" /\ UNCHANGED <<order, at, object, moved>>
    BY <1>6 DEF ReadItems, WriteItems, Recheck, tables
  <2>2. \A v \in Workers \ {w} : pc'[v] = pc[v]
    BY <1>0, <1>6 DEF ReadItems, WriteItems, Recheck, TypeOK
  <2>3. QED BY <2>1, <2>2, HomeKept DEF Busy
<1>7. QED BY <1>3, <1>4, <1>5, <1>6 DEF Act

LEMMA NextHome ==
  ASSUME RequestsInv, OrdersAtHome, [Next]_vars
  PROVE  OrdersAtHome'
<1>0. TypeOK
  BY DEF RequestsInv
<1>1. ASSUME NEW w \in Workers, NEW h \in Handlers, NEW p \in Orders, Fetch(w, h, p)
      PROVE  OrdersAtHome'
  <2>1. UNCHANGED <<order, moved>> /\ order[p] # NoOrder
    BY <1>1 DEF Fetch, tables
  <2>2. /\ at'[w] = p /\ object'[w] = order[p]
        /\ \A v \in Workers \ {w} : pc'[v] = pc[v] /\ at'[v] = at[v] /\ object'[v] = object[v]
    BY <1>0, <1>1 DEF Fetch, TypeOK
  <2>3. QED BY <2>1, <2>2, HomeKept DEF Busy
<1>2. ASSUME NEW w \in Workers, Abandon(w) PROVE OrdersAtHome'
  <2>1. UNCHANGED <<order, moved>>
    BY <1>2 DEF Abandon, tables
  <2>2. /\ pc'[w] = "idle"
        /\ \A v \in Workers \ {w} : pc'[v] = pc[v] /\ at'[v] = at[v] /\ object'[v] = object[v]
    BY <1>0, <1>2 DEF Abandon, Respond, TypeOK
  <2>3. QED BY <2>1, <2>2, HomeKept DEF Busy
<1>3. CASE UNCHANGED vars
  BY <1>3, HomeKept DEF vars, tables, request, Busy
<1>4. QED BY <1>1, <1>2, <1>3, ActHome DEF Next

LEMMA InitAccount == Init => StockAccounted
<1> SUFFICES ASSUME Init PROVE StockAccounted
  OBVIOUS
<1> DEFINE posted == [r \in ItemRows |-> 0]
<1>1. \A r \in ItemRows : InRow(r) = 0
  BY RowIs DEF Init, InRow
<1>2. \A x : TotalOf(posted, x) = 0
  <2>1. \A r \in ItemRows : posted[r] = 0
    OBVIOUS
  <2> HIDE DEF posted
  <2>2. QED BY <2>1, RowsFinite, SumZero DEF TotalOf
<1>3. \A k : HomeOf(posted, k) = 0
  <2> SUFFICES ASSUME NEW k PROVE HomeOf(posted, k) = 0
    OBVIOUS
  <2> DEFINE f == [r \in ItemRows |-> IF AtHome(r, k) THEN posted[r] ELSE 0]
  <2>1. \A r \in ItemRows : f[r] = 0
    OBVIOUS
  <2> HIDE DEF posted, f
  <2>2. SumFunctionOnSet(f, RowsOf(k[2])) = 0
    BY <2>1, RowsFinite, SumZero
  <2>3. QED BY <2>2 DEF HomeOf, f
<1>4. \A k \in Keys : GainAt(k) = 0
  <2>1. OpeningStock \in [Keys -> Nat]
    BY OrdersAssumption
  <2>2. onHand = OpeningStock
    BY DEF Init, Stock!Opened
  <2>3. QED BY <2>1, <2>2 DEF GainAt
<1>5. \A x \in Products : GainOf(x) = 0
  <2> SUFFICES ASSUME NEW x \in Products PROVE GainOf(x) = 0
    OBVIOUS
  <2> DEFINE f == [a \in Warehouses |-> GainAt(<<a, x>>)]
  <2>1. \A a \in Warehouses : f[a] = 0
    BY <1>4 DEF Keys
  <2> HIDE DEF f
  <2>2. SumFunctionOnSet(f, Warehouses) = 0
    BY <2>1, OrdersAssumption, SumZero
  <2>3. QED BY <2>2 DEF GainOf, f
<1>6. posted \in [ItemRows -> Nat] /\ \A r \in ItemRows : posted[r] = 0
  OBVIOUS
<1>7. \A w \in Workers : ~HasRead(w)
  BY DEF Init, HasRead
<1> HIDE DEF posted
<1>8. Accounts(posted)
  BY <1>1, <1>2, <1>3, <1>4, <1>5, <1>6, <1>7 DEF Accounts
<1>9. QED BY <1>6, <1>8 DEF StockAccounted

\* The gain of a key is a number, and so is what rows say of it.
LEMMA GainAtTyped ==
  ASSUME RequestsInv, NEW k \in Keys
  PROVE  GainAt(k) \in Int
BY OrdersAssumption DEF RequestsInv, TypeOK, GainAt

LEMMA HomeOfTyped ==
  ASSUME NEW rows \in [ItemRows -> Nat], NEW k
  PROVE  HomeOf(rows, k) \in Int
<1> DEFINE f == [r \in ItemRows |-> IF AtHome(r, k) THEN rows[r] ELSE 0]
<1>1. IsFiniteSet(RowsOf(k[2])) /\ \A r \in RowsOf(k[2]) : f[r] \in Int
  BY RowsFinite
<1> HIDE DEF f
<1>2. SumFunctionOnSet(f, RowsOf(k[2])) \in Int
  BY <1>1, SumInt
<1>3. QED BY <1>2 DEF HomeOf, f

\* Moving orders away leaves less at home.
LEMMA HomeOfShrinks ==
  ASSUME NEW rows \in [ItemRows -> Nat], NEW k, moved \subseteq moved'
  PROVE  /\ HomeOf(rows, k)' <= HomeOf(rows, k) /\ HomeOf(rows, k)' \in Int
         /\ moved' = moved => HomeOf(rows, k)' = HomeOf(rows, k)
<1> DEFINE f == [r \in ItemRows |-> IF AtHome(r, k) THEN rows[r] ELSE 0]
           g == [r \in ItemRows |-> IF AtHome(r, k)' THEN rows[r] ELSE 0]
           S == RowsOf(k[2])
<1>1. IsFiniteSet(S) /\ S \subseteq ItemRows
  BY RowsFinite
<1>2. \A r \in ItemRows : AtHome(r, k)' => AtHome(r, k)
  BY DEF AtHome
<1>3. \A r \in S : f[r] \in Int /\ g[r] \in Int /\ g[r] <= f[r]
  BY <1>1, <1>2
<1>4. moved' = moved => \A r \in S : g[r] = f[r]
  BY <1>1 DEF AtHome
<1>5. SumFunctionOnSet(f, S) = HomeOf(rows, k) /\ SumFunctionOnSet(g, S) = HomeOf(rows, k)'
  BY DEF HomeOf
<1> HIDE DEF f, g, S
<1>6. SumFunctionOnSet(g, S) <= SumFunctionOnSet(f, S) /\ SumFunctionOnSet(g, S) \in Int
  BY <1>1, <1>3, SumGrows, SumInt
<1>7. moved' = moved => SumFunctionOnSet(g, S) = SumFunctionOnSet(f, S)
  BY <1>1, <1>4, SumSame
<1>8. QED BY <1>5, <1>6, <1>7

\* A step that posts nothing keeps the account, if what a request newly has it
\* has read from the rows.
LEMMA AccountKept ==
  ASSUME RequestsInv, StockAccounted, UNCHANGED onHand, disturbed \subseteq disturbed',
         moved \subseteq moved',
         \A p \in Orders : \/ received'[p] = received[p]
                           \/ received'[p] = <<>> /\ p \in disturbed',
         \A w \in Workers : HasRead(w)' =>
           \/ HasRead(w) /\ at'[w] = at[w] /\ seen'[w] = seen[w]
           \/ seen'[w] = received[at'[w]]
  PROVE  StockAccounted'
<1>1. PICK posted \in [ItemRows -> Nat] : Accounts(posted)
  BY DEF StockAccounted
<1>2. ASSUME NEW r \in ItemRows
      PROVE  /\ InRow(r)' <= posted[r]
             /\ r[1] \notin disturbed' => InRow(r)' = posted[r]
  <2>1. r[1] \in Orders /\ posted[r] \in Nat
    BY RowIs
  <2>2. InRow(r)' = InRow(r) \/ (InRow(r)' = 0 /\ r[1] \in disturbed')
    <3>1. CASE received'[r[1]] = received[r[1]]
      BY <3>1 DEF InRow
    <3>2. CASE received'[r[1]] = <<>> /\ r[1] \in disturbed'
      BY <3>2 DEF InRow
    <3>3. QED BY <2>1, <3>1, <3>2
  <2>3. InRow(r) <= posted[r] /\ (r[1] \notin disturbed => InRow(r) = posted[r])
    BY <1>1 DEF Accounts
  <2>4. QED BY <2>1, <2>2, <2>3
<1>3. ASSUME NEW r \in ItemRows, NEW w \in Workers, at'[w] = r[1], HasRead(w)',
             r[2] \in 1..Len(seen'[w])
      PROVE  seen'[w][r[2]] <= posted[r]
  <2>1. CASE HasRead(w) /\ at'[w] = at[w] /\ seen'[w] = seen[w]
    BY <1>1, <1>3, <2>1 DEF Accounts
  <2>2. CASE seen'[w] = received[at'[w]]
    <3>1. r[1] \in Orders
      BY RowIs
    <3>2. received[r[1]] # <<>>
      BY <1>3, <2>2, <3>1
    <3>3. InRow(r) = seen'[w][r[2]]
      BY <1>3, <2>2, <3>2 DEF InRow
    <3>4. QED BY <1>1, <3>3 DEF Accounts
  <2>3. QED BY <1>3, <2>1, <2>2
<1>4. \A x \in Products : TotalOf(posted, x) = GainOf(x)'
  BY <1>1 DEF Accounts, GainOf, GainAt
<1>5. ASSUME NEW k \in Keys
      PROVE  /\ HomeOf(posted, k)' <= GainAt(k)'
             /\ moved' = {} => HomeOf(posted, k)' = GainAt(k)'
  <2>1. GainAt(k)' = GainAt(k) /\ GainAt(k) \in Int
    BY GainAtTyped DEF GainAt
  <2>2. /\ HomeOf(posted, k) <= GainAt(k)
        /\ moved = {} => HomeOf(posted, k) = GainAt(k)
    BY <1>1 DEF Accounts
  <2>3. /\ HomeOf(posted, k)' <= HomeOf(posted, k) /\ HomeOf(posted, k)' \in Int
        /\ moved' = moved => HomeOf(posted, k)' = HomeOf(posted, k)
    BY HomeOfShrinks
  <2>4. HomeOf(posted, k) \in Int
    BY HomeOfTyped
  <2>5. moved' = {} => moved = {} /\ moved' = moved
    OBVIOUS
  <2>6. QED BY <2>1, <2>2, <2>3, <2>4, <2>5
<1>6. Accounts(posted)'
  BY <1>2, <1>3, <1>4, <1>5 DEF Accounts, TotalOf
<1>7. QED BY <1>6 DEF StockAccounted

\* The account once a receipt is posted.
PostedNext(posted, p, from, to) ==
  [r \in ItemRows |-> IF r[1] = p /\ r[2] \in Gained(p, from, to)
                        THEN posted[r] + (to[r[2]] - from[r[2]]) ELSE posted[r]]

\* What a receipt adds to the account adds up to what it posts.
LEMMA GainAdds ==
  ASSUME NEW p \in Orders, NEW from \in Seq(Nat), NEW to \in Seq(Nat), Len(from) = Len(to),
         Len(to) <= Len(Items[p]), NEW x,
         NEW posted \in [ItemRows -> Nat], NEW next, next = PostedNext(posted, p, from, to)
  PROVE  TotalOf(next, x) = TotalOf(posted, x) + Gain(p, from, to, x)
<1> DEFINE G == Gained(p, from, to)
           Gx == GainedOf(p, from, to, x)
           S == RowsOf(x)
           d == [r \in ItemRows |-> IF r[1] = p /\ r[2] \in G THEN to[r[2]] - from[r[2]] ELSE 0]
           q == [i \in G |-> to[i] - from[i]]
           pair == [i \in Gx |-> <<p, i>>]
           T == {pair[i] : i \in Gx}
<1>1. \A i \in 1..Len(to) : to[i] \in Nat /\ from[i] \in Nat
  BY Elements
<1>2. /\ G \subseteq 1..Len(Items[p]) /\ Gx \subseteq G
      /\ \A i \in G : q[i] = to[i] - from[i] /\ q[i] \in Int
  <2>1. Len(to) \in Nat /\ Len(Items[p]) \in Nat
    BY Elements, ItemTyped
  <2>2. QED BY <1>1, <2>1 DEF Gained, GainedOf
<1>3. IsFiniteSet(S) /\ S \subseteq ItemRows /\ IsFiniteSet(Gx)
  BY RowsFinite, GainFinite
<1>4. \A r \in ItemRows : d[r] \in Int /\ posted[r] \in Int /\ next[r] = posted[r] + d[r]
  BY <1>2 DEF PostedNext
<1>5. SumFunctionOnSet(next, S) = SumFunctionOnSet(posted, S) + SumFunctionOnSet(d, S)
  <2> HIDE DEF S, d
  <2>1. \A r \in S : posted[r] \in Int /\ d[r] \in Int /\ next[r] = posted[r] + d[r]
    BY <1>3, <1>4
  <2>2. QED BY <1>3, <2>1, SumPlus
<1>6. T \subseteq S
  <2>1. ASSUME NEW i \in Gx PROVE <<p, i>> \in S
    <3>1. i \in 1..Len(Items[p]) /\ Items[p][i].product = x
      BY <1>2 DEF GainedOf
    <3>2. <<p, i>> \in ItemRows
      BY <3>1 DEF ItemRows
    <3>3. QED BY <3>1, <3>2 DEF RowsOf
  <2>2. QED BY <2>1
<1>7. ASSUME NEW r \in S \ T PROVE d[r] = 0
  <2>1. r \in ItemRows /\ Items[r[1]][r[2]].product = x
    BY DEF RowsOf
  <2>2. r = <<r[1], r[2]>>
    BY <2>1, RowIs
  <2>3. ASSUME r[1] = p, r[2] \in G PROVE FALSE
    <3>1. r[2] \in Gx
      BY <2>1, <2>3 DEF GainedOf
    <3>2. r = pair[r[2]]
      BY <2>2, <2>3, <3>1
    <3>3. QED BY <3>1, <3>2
  <2>4. QED BY <2>1, <2>3
<1>8. SumFunctionOnSet(d, S) = SumFunctionOnSet(d, T)
  <2>1. \A r \in S : d[r] \in Int
    BY <1>3, <1>4
  <2> HIDE DEF S, T, d
  <2>2. QED BY <1>3, <1>6, <1>7, <2>1, SumSparse
<1>9. SumFunctionOnSet(d, T) = SumFunctionOnSet(q, Gx)
  <2>1. ASSUME NEW i \in Gx PROVE q[i] = d[pair[i]] /\ q[i] \in Int
    <3>1. i \in G /\ pair[i] = <<p, i>> /\ <<p, i>> \in ItemRows
      BY <1>2, <1>3, <1>6
    <3>2. QED BY <1>2, <3>1
  <2>2. \A i, j \in Gx : pair[i] = pair[j] => i = j
    OBVIOUS
  <2>3. IsFiniteSet(Gx) /\ \A i \in Gx : q[i] = d[pair[i]] /\ q[i] \in Int
    BY <1>3, <2>1
  <2> HIDE DEF d, q, pair, Gx
  <2>4. SumFunctionOnSet(d, {pair[i] : i \in Gx}) = SumFunctionOnSet(q, Gx)
    BY <2>2, <2>3, SumImage
  <2>5. QED BY <2>4
<1>10. QED BY <1>5, <1>8, <1>9 DEF Gain, TotalOf

\* The same for the rows at home, if the order of the receipt is; if it is not,
\* they stay as they are.
LEMMA GainAddsHome ==
  ASSUME NEW p \in Orders, NEW from \in Seq(Nat), NEW to \in Seq(Nat), Len(from) = Len(to),
         Len(to) <= Len(Items[p]), NEW k,
         NEW posted \in [ItemRows -> Nat], NEW next, next = PostedNext(posted, p, from, to)
  PROVE  IF p \notin moved /\ WarehouseOf[p] = k[1]
           THEN HomeOf(next, k) = HomeOf(posted, k) + Gain(p, from, to, k[2])
           ELSE HomeOf(next, k) = HomeOf(posted, k)
<1> DEFINE f == [r \in ItemRows |-> IF AtHome(r, k) THEN posted[r] ELSE 0]
           g == [r \in ItemRows |-> IF AtHome(r, k) THEN next[r] ELSE 0]
<1>1. HomeOf(posted, k) = TotalOf(f, k[2]) /\ HomeOf(next, k) = TotalOf(g, k[2])
  BY DEF HomeOf, TotalOf
<1>2. CASE p \notin moved /\ WarehouseOf[p] = k[1]
  <2>1. \A r \in ItemRows : r[1] = p => AtHome(r, k)
    BY <1>2 DEF AtHome
  <2>2. g = PostedNext(f, p, from, to)
    BY <2>1 DEF PostedNext
  <2>3. f \in [ItemRows -> Nat]
    OBVIOUS
  <2> HIDE DEF f, g
  <2>4. PICK x : x = k[2]
    OBVIOUS
  <2>5. TotalOf(g, x) = TotalOf(f, x) + Gain(p, from, to, x)
    BY <2>2, <2>3, GainAdds
  <2>6. QED BY <1>1, <1>2, <2>4, <2>5
<1>3. CASE ~(p \notin moved /\ WarehouseOf[p] = k[1])
  <2>1. \A r \in ItemRows : r[1] = p => ~AtHome(r, k)
    BY <1>3 DEF AtHome
  <2>2. \A r \in ItemRows : r[1] # p => next[r] = posted[r]
    BY DEF PostedNext
  <2>3. f = g
    BY <2>1, <2>2
  <2>4. QED BY <1>1, <1>3, <2>3
<1>4. QED BY <1>2, <1>3

\* What a receipt adds to the stock of a product, over all warehouses.
LEMMA GainOfAdds ==
  ASSUME RequestsInv, NEW a \in Warehouses, NEW x \in Products, NEW n \in Nat,
         \A b \in Warehouses : GainAt(<<b, x>>)' = GainAt(<<b, x>>) + (IF b = a THEN n ELSE 0)
  PROVE  GainOf(x)' = GainOf(x) + n
<1> DEFINE f == [b \in Warehouses |-> GainAt(<<b, x>>)]
           g == [b \in Warehouses |-> GainAt(<<b, x>>)']
<1>1. \A b \in Warehouses : GainAt(<<b, x>>) \in Int
  BY GainAtTyped DEF Keys
<1>2. \A b \in Warehouses : f[b] \in Int /\ g[b] \in Int /\ (b # a => g[b] = f[b])
  BY <1>1
<1>3. g[a] - f[a] = n
  BY <1>1
<1>4. GainOf(x) = SumFunctionOnSet(f, Warehouses) /\ GainOf(x)' = SumFunctionOnSet(g, Warehouses)
  BY DEF GainOf
<1>5. SumFunctionOnSet(g, Warehouses) = SumFunctionOnSet(f, Warehouses) + (g[a] - f[a])
  <2>1. /\ IsFiniteSet(Warehouses) /\ a \in Warehouses
        /\ \A b \in Warehouses : f[b] \in Int /\ g[b] \in Int
        /\ \A b \in Warehouses \ {a} : g[b] = f[b]
    BY <1>2, OrdersAssumption
  <2> HIDE DEF f, g
  <2>2. QED BY ONLY <2>1, SumChange
<1> HIDE DEF f, g
<1>6. QED BY <1>3, <1>4, <1>5

\* The commit of receive: the account gains what the stock gains, and the rows
\* it has set have no more than that.
LEMMA AccountReceives ==
  ASSUME RequestsInv, OrdersAtHome, StockAccounted, NEW w \in Workers, Receive(w)
  PROVE  StockAccounted'
<1>0. TypeOK /\ Busy(w) /\ HasSet(w) /\ HasRead(w) /\ pc[w] = "commit"
  BY DEF RequestsInv, Receive, Busy, HasSet, HasRead
<1>1. PICK o \in Orders : o = at[w]
  BY <1>0, Holding DEF RequestHolds
<1> DEFINE S == seen[w]
           T == written[w]
           G == Gained(o, S, T)
<1>2. /\ S \in Seq(Nat) /\ T \in Seq(Nat) /\ Len(S) = Len(T)
      /\ Len(T) <= Len(Items[o])
  <2>1. S \in Seq(Nat) /\ T \in Seq(Nat) /\ Len(S) = Len(T)
    BY <1>0, Holding, LockedGain
  <2>2. S = <<>> \/ Len(S) = Len(Items[o])
    BY <1>0, <1>1, Holding DEF RequestHolds
  <2>3. S = <<>> => Len(S) = 0
    OBVIOUS
  <2>4. Len(Items[o]) \in Nat
    BY ItemTyped
  <2> HIDE DEF S, T
  <2>5. QED BY <2>1, <2>2, <2>3, <2>4
<1>3. /\ Locked(w) = G
      /\ \A i \in G : /\ i \in 1..Len(S) /\ S[i] \in Nat /\ T[i] \in Nat /\ S[i] < T[i]
  BY <1>0, <1>1, LockedGain
<1>4. PICK posted \in [ItemRows -> Nat] : Accounts(posted)
  BY DEF StockAccounted
<1>5. PICK next \in [ItemRows -> Int] :
             next = [r \in ItemRows |-> IF r[1] = o /\ r[2] \in G
                                         THEN posted[r] + (T[r[2]] - S[r[2]]) ELSE posted[r]]
  <2> DEFINE n == [r \in ItemRows |-> IF r[1] = o /\ r[2] \in G
                                       THEN posted[r] + (T[r[2]] - S[r[2]]) ELSE posted[r]]
  <2>1. \A i \in G : S[i] \in Nat /\ T[i] \in Nat
    BY <1>3
  <2> HIDE DEF S, T, G
  <2>2. n \in [ItemRows -> Int]
    BY <2>1
  <2>3. QED BY <2>2
<1>6. ASSUME NEW r \in ItemRows
      PROVE  posted[r] \in Nat /\ next[r] \in Nat /\ posted[r] <= next[r]
  <2>1. posted[r] \in Nat
    OBVIOUS
  <2>2. CASE r[1] = o /\ r[2] \in G
    <3>1. S[r[2]] \in Nat /\ T[r[2]] \in Nat /\ S[r[2]] < T[r[2]]
      BY <1>3, <2>2
    <3>2. next[r] = posted[r] + (T[r[2]] - S[r[2]])
      BY <1>5, <2>2
    <3> HIDE DEF S, T, G
    <3>3. QED BY <2>1, <3>1, <3>2
  <2>3. CASE ~(r[1] = o /\ r[2] \in G)
    <3>1. next[r] = posted[r]
      BY <1>5, <2>3
    <3>2. QED BY <2>1, <3>1
  <2>4. QED BY <2>2, <2>3
<1>7. PICK a \in Warehouses : a = object[w].warehouse
  BY <1>0, Holding DEF RequestHolds, PurchaseOrder
<1>a. ASSUME NEW k \in Keys PROVE GainAt(k)' = GainAt(k) + Landed(a, o, S, T, k)
  <2>1. onHand' = [j \in Keys |-> onHand[j] + Landed(a, o, S, T, j)]
    BY <1>1, <1>7, ReceiptPosted DEF Receive
  <2>2. Landed(a, o, S, T, k) \in Nat
    BY <1>2, GainTyped DEF Landed
  <2>3. onHand[k] \in Int /\ OpeningStock[k] \in Int
    BY <1>0, OrdersAssumption DEF TypeOK
  <2>4. onHand'[k] = onHand[k] + Landed(a, o, S, T, k)
    BY <2>1
  <2> HIDE DEF S, T, G
  <2>5. QED BY <2>2, <2>3, <2>4 DEF GainAt
<1>b. /\ S \in Seq(Nat) /\ T \in Seq(Nat) /\ Len(S) = Len(T) /\ Len(T) <= Len(Items[o])
      /\ next = PostedNext(posted, o, S, T)
      /\ \A x : Gain(o, S, T, x) \in Nat
  BY <1>2, <1>5, GainTyped DEF PostedNext
<1>c. ASSUME NEW x \in Products PROVE TotalOf(next, x) = GainOf(x)'
  <2>1. TotalOf(posted, x) = GainOf(x)
    BY <1>4 DEF Accounts
  <2> HIDE DEF S, T, G
  <2>2. TotalOf(next, x) = TotalOf(posted, x) + Gain(o, S, T, x)
    BY <1>b, GainAdds
  <2>3. PICK n \in Nat : n = Gain(o, S, T, x)
    BY <1>b
  <2>4. \A b \in Warehouses : GainAt(<<b, x>>)' = GainAt(<<b, x>>) + (IF b = a THEN n ELSE 0)
    BY <1>a, <2>3 DEF Keys, Landed
  <2>5. GainOf(x)' = GainOf(x) + n
    BY <2>4, GainOfAdds
  <2>6. QED BY <2>1, <2>2, <2>3, <2>5
<1>d. moved' = moved
  BY DEF Receive
<1>e. o \notin moved => a = WarehouseOf[o]
  BY <1>0, <1>1, <1>7 DEF OrdersAtHome
<1>f. ASSUME NEW k \in Keys
      PROVE  /\ HomeOf(next, k) <= GainAt(k)'
             /\ moved = {} => HomeOf(next, k) = GainAt(k)'
  <2>1. /\ HomeOf(posted, k) <= GainAt(k)
        /\ moved = {} => HomeOf(posted, k) = GainAt(k)
    BY <1>4 DEF Accounts
  <2>2. HomeOf(posted, k) \in Int /\ GainAt(k) \in Int
    BY HomeOfTyped, GainAtTyped
  <2>3. GainAt(k)' = GainAt(k) + Landed(a, o, S, T, k)
    BY <1>a
  <2> HIDE DEF S, T, G
  <2>4. CASE o \notin moved /\ WarehouseOf[o] = k[1]
    <3>1. HomeOf(next, k) = HomeOf(posted, k) + Gain(o, S, T, k[2])
      BY <1>b, <2>4, GainAddsHome
    <3>2. Landed(a, o, S, T, k) = Gain(o, S, T, k[2]) /\ Gain(o, S, T, k[2]) \in Nat
      BY <1>b, <1>e, <2>4 DEF Landed
    <3>3. QED BY <2>1, <2>2, <2>3, <3>1, <3>2
  <2>5. CASE ~(o \notin moved /\ WarehouseOf[o] = k[1])
    <3>1. HomeOf(next, k) = HomeOf(posted, k)
      BY <1>b, <2>5, GainAddsHome
    <3>2. Landed(a, o, S, T, k) \in Nat
      BY <1>b DEF Landed
    <3>3. moved = {} => Landed(a, o, S, T, k) = 0
      BY <1>e, <2>5 DEF Landed
    <3>4. QED BY <2>1, <2>2, <2>3, <3>1, <3>2, <3>3
  <2>6. QED BY <2>4, <2>5
<1>8. /\ \A p \in Orders \ {o} : received'[p] = received[p]
      /\ received'[o] = Visible(w) /\ disturbed' = disturbed
  BY <1>0, <1>1 DEF Receive, TypeOK
<1>9. /\ Len(Visible(w)) = Len(received[o]) /\ Visible(w) \in Seq(Nat)
      /\ \A i \in 1..Len(received[o]) : Visible(w)[i] = IF i \in G THEN T[i] ELSE received[o][i]
  BY <1>0, <1>1, <1>3, VisibleIs
<1>10. ASSUME NEW r \in ItemRows
      PROVE  /\ InRow(r)' <= next[r]
             /\ r[1] \notin disturbed' => InRow(r)' = next[r]
  <2>0. r[1] \in Orders /\ r[2] \in 1..Len(Items[r[1]])
    BY RowIs
  <2>1. /\ InRow(r) <= posted[r] /\ InRow(r) \in Nat /\ posted[r] \in Nat
        /\ r[1] \notin disturbed => InRow(r) = posted[r]
        /\ r[1] = o /\ r[2] \in 1..Len(S) => S[r[2]] <= posted[r]
    BY <1>0, <1>1, <1>4, InRowIs DEF Accounts
  <2>2. CASE r[1] # o
    <3>1. InRow(r)' = InRow(r)
      BY <1>8, <2>0, <2>2 DEF InRow
    <3>2. next[r] = posted[r]
      BY <1>5, <2>2
    <3>3. QED BY <1>8, <2>1, <3>1, <3>2
  <2>3. CASE r[1] = o /\ received[o] = <<>>
    <3>1. received'[o] = <<>>
      BY <1>8, <1>9, <2>3, Elements
    <3>2. InRow(r)' = 0
      BY <2>3, <3>1 DEF InRow
    <3>3. o \in disturbed
      BY <2>3 DEF RequestsInv, RowsKept
    <3>4. next[r] \in Nat
      BY <1>6
    <3>5. QED BY <1>8, <2>3, <3>2, <3>3, <3>4
  <2>4. CASE r[1] = o /\ received[o] # <<>>
    <3>1. received'[o] # <<>> /\ r[2] \in 1..Len(received[o])
      <4>1. received[o] \in Seq(Nat) /\ Len(received[o]) = Len(Items[o])
        BY <2>4, AsItIs
      <4>2. r[2] \in 1..Len(received[o])
        BY <2>0, <2>4, <4>1
      <4>3. Len(received[o]) # 0
        BY <2>4, <4>1, Elements
      <4>4. QED BY <1>8, <1>9, <4>2, <4>3, Elements
    <3>2. InRow(r)' = Visible(w)[r[2]] /\ InRow(r) = received[o][r[2]]
      BY <1>8, <2>4, <3>1 DEF InRow
    <3>3. CASE r[2] \in G
      <4>1. InRow(r)' = T[r[2]] /\ next[r] = posted[r] + (T[r[2]] - S[r[2]])
        BY <1>5, <1>9, <2>4, <3>1, <3>2, <3>3
      <4>2. /\ S[r[2]] \in Nat /\ T[r[2]] \in Nat /\ r[2] \in 1..Len(S)
            /\ S[r[2]] <= posted[r]
        BY <1>3, <2>1, <2>4, <3>3
      <4>3. r[1] \notin disturbed' => S[r[2]] = posted[r]
        <5>1. o \notin disturbed => S = received[o]
          BY <1>0, <1>1, Holding DEF FreshCopy
        <5>2. QED BY <1>8, <2>1, <2>4, <3>2, <5>1
      <4> HIDE DEF S, T, G
      <4>4. QED BY <2>1, <4>1, <4>2, <4>3
    <3>4. CASE r[2] \notin G
      <4>1. InRow(r)' = InRow(r)
        BY <1>9, <3>1, <3>2, <3>4
      <4>2. next[r] = posted[r]
        BY <1>5, <3>4
      <4>3. QED BY <1>8, <2>1, <4>1, <4>2
    <3>5. QED BY <3>3, <3>4
  <2>5. QED BY <2>2, <2>3, <2>4
<1>11. ASSUME NEW r \in ItemRows, NEW v \in Workers, at'[v] = r[1], HasRead(v)',
              r[2] \in 1..Len(seen'[v])
       PROVE  seen'[v][r[2]] <= next[r]
  <2>1. v # w /\ at'[v] = at[v] /\ seen'[v] = seen[v] /\ HasRead(v)
    BY <1>0, <1>11 DEF Receive, Respond, HasRead, TypeOK
  <2>2. seen[v][r[2]] <= posted[r]
    BY <1>4, <1>11, <2>1 DEF Accounts
  <2>3. seen[v][r[2]] \in Nat
    BY <1>11, <2>1, Holding, Elements
  <2>4. posted[r] \in Nat /\ next[r] \in Nat /\ posted[r] <= next[r]
    BY <1>6
  <2>5. QED BY <2>1, <2>2, <2>3, <2>4
<1>12. Accounts(next)'
  <2>1. \A k \in Keys : HomeOf(next, k)' = HomeOf(next, k)
    BY <1>d DEF HomeOf, AtHome
  <2>2. QED BY <1>c, <1>d, <1>f, <1>10, <1>11, <2>1 DEF Accounts, TotalOf
<1>13. next \in [ItemRows -> Nat]
  BY <1>5, <1>6
<1>14. QED BY <1>12, <1>13 DEF StockAccounted

LEMMA NextAccount ==
  ASSUME RequestsInv, OrdersAtHome, StockAccounted, [Next]_vars
  PROVE  StockAccounted'
<1>1. ASSUME NEW w \in Workers, Act(w) PROVE StockAccounted'
  <2>0. TypeOK
    BY DEF RequestsInv
  <2>1. CASE Approve(w) \/ Cancel(w)
    BY <2>0, <2>1, AccountKept DEF Approve, Cancel, Respond, stock, HasRead, TypeOK
  <2>2. ASSUME NEW s \in Edits \union {object[w].status}, NEW a \in Warehouses, Update(w, s, a)
        PROVE  StockAccounted'
    BY <2>0, <2>2, AccountKept DEF Update, Respond, stock, HasRead, TypeOK
  <2>3. CASE Destroy(w)
    BY <2>0, <2>3, AccountKept DEF Destroy, Respond, stock, HasRead, TypeOK
  <2>4. CASE ReadItems(w)
    BY <2>0, <2>4, AccountKept DEF ReadItems, tables, stock, HasRead, TypeOK
  <2>5. ASSUME NEW sent \in Sent(w), WriteItems(w, sent) PROVE StockAccounted'
    BY <2>0, <2>5, AccountKept DEF WriteItems, tables, stock, HasRead, TypeOK
  <2>6. CASE Recheck(w)
    BY <2>0, <2>6, AccountKept DEF Recheck, tables, stock, HasRead, TypeOK
  <2>7. QED BY <1>1, <2>1, <2>2, <2>3, <2>4, <2>5, <2>6, AccountReceives DEF Act
<1>2. ASSUME NEW w \in Workers, NEW h \in Handlers, NEW p \in Orders, Fetch(w, h, p)
      PROVE  StockAccounted'
  BY <1>2, AccountKept DEF Fetch, tables, stock, HasRead, RequestsInv, TypeOK
<1>3. ASSUME NEW w \in Workers, Abandon(w) PROVE StockAccounted'
  BY <1>3, AccountKept DEF Abandon, Respond, tables, stock, HasRead, RequestsInv, TypeOK
<1>4. CASE UNCHANGED vars
  BY <1>4, AccountKept DEF vars, tables, stock, request, HasRead
<1>5. QED BY <1>1, <1>2, <1>3, <1>4 DEF Next

-----------------------------------------------------------------------------
(* Theorems.                                                               *)

\* The invariant of requests, copies and items is inductive.
THEOREM RequestsInvariant == Spec => []RequestsInv
<1>1. Init => RequestsInv
  BY InitRequests
<1>2. RequestsInv /\ [Next]_vars => RequestsInv'
  BY NextRequests
<1>3. QED BY <1>1, <1>2, PTL DEF Spec

\* update: an order no client has moved is for the warehouse it was created for, and
\* so is every copy a request holds.
THEOREM OrdersStayHome == Spec => []OrdersAtHome
<1>1. Init => OrdersAtHome
  BY InitHome
<1>2. RequestsInv /\ OrdersAtHome /\ [Next]_vars => OrdersAtHome'
  BY NextHome
<1>3. QED BY <1>1, <1>2, RequestsInvariant, PTL DEF Spec

\* receive: there is always an account of what has been posted for each item row,
\* although clients move orders to other warehouses between and during receipts.
THEOREM StockIsAccounted == Spec => []StockAccounted
<1>1. Init => StockAccounted
  BY InitAccount
<1>2. RequestsInv /\ OrdersAtHome /\ StockAccounted /\ [Next]_vars => StockAccounted'
  BY NextAccount
<1>3. QED BY <1>1, <1>2, RequestsInvariant, OrdersStayHome, PTL DEF Spec

\* Every variable keeps its type: what receive accepts and posts leaves quantities
\* in the items and on hand, and statuses in the orders.
THEOREM PurchaseTypes == Spec => []TypeOK
<1>1. RequestsInv => TypeOK
  BY DEF RequestsInv
<1>2. QED BY <1>1, RequestsInvariant, PTL

\* receive: no item ever has more than was ordered, although each request writes
\* absolute values computed from a read without a lock.
THEOREM NeverOverReceived == Spec => []ReceivedWithinOrdered
<1>1. RequestsInv => ReceivedWithinOrdered
  BY DEF RequestsInv
<1>2. QED BY <1>1, RequestsInvariant, PTL

\* receive, approve and cancel: an order no two requests have served at once and no
\* client has edited says "received" when all its items are, and only then.
THEOREM StatusFollows == Spec => []StatusFollowsItems
<1>1. RequestsInv => StatusFollowsItems
  BY DEF RequestsInv
<1>2. QED BY <1>1, RequestsInvariant, PTL

\* What the rows say, and what the account says.
LEMMA RowsWithin ==
  ASSUME RequestsInv, NEW posted \in [ItemRows -> Nat], Accounts(posted)
  PROVE  /\ Rows \in [ItemRows -> Nat]
         /\ \A r \in ItemRows : Rows[r] <= posted[r] /\ (disturbed = {} => Rows[r] = posted[r])
BY InRowIs DEF Accounts, Rows

LEMMA TotalWithin ==
  ASSUME NEW f \in [ItemRows -> Nat], NEW g \in [ItemRows -> Nat],
         \A r \in ItemRows : f[r] <= g[r], NEW x
  PROVE  TotalOf(f, x) <= TotalOf(g, x)
<1>1. IsFiniteSet(RowsOf(x)) /\ RowsOf(x) \subseteq ItemRows
  BY RowsFinite
<1>2. \A r \in RowsOf(x) : f[r] \in Int /\ g[r] \in Int /\ f[r] <= g[r]
  BY <1>1
<1>3. QED BY <1>1, <1>2, SumGrows DEF TotalOf

LEMMA HomeWithin ==
  ASSUME NEW f \in [ItemRows -> Nat], NEW g \in [ItemRows -> Nat],
         \A r \in ItemRows : f[r] <= g[r], NEW k
  PROVE  HomeOf(f, k) <= HomeOf(g, k)
<1> DEFINE ff == [r \in ItemRows |-> IF AtHome(r, k) THEN f[r] ELSE 0]
           gg == [r \in ItemRows |-> IF AtHome(r, k) THEN g[r] ELSE 0]
<1>1. /\ ff \in [ItemRows -> Nat] /\ gg \in [ItemRows -> Nat]
      /\ \A r \in ItemRows : ff[r] <= gg[r]
  OBVIOUS
<1>2. HomeOf(f, k) = TotalOf(ff, k[2]) /\ HomeOf(g, k) = TotalOf(gg, k[2])
  BY DEF HomeOf, TotalOf
<1> HIDE DEF ff, gg
<1>3. QED BY <1>1, <1>2, TotalWithin

\* receive: what the items of all orders say has come in of a product is in the
\* stock, whatever requests overlap, fail or are killed and wherever clients move
\* the orders; of an order that was never moved it is in its warehouse.
THEOREM GoodsAreStocked == Spec => []ReceivedIsStocked
<1>1. RequestsInv /\ StockAccounted => ReceivedIsStocked
  <2> SUFFICES ASSUME RequestsInv, StockAccounted PROVE ReceivedIsStocked
    OBVIOUS
  <2>1. PICK posted \in [ItemRows -> Nat] : Accounts(posted)
    BY DEF StockAccounted
  <2>2. Rows \in [ItemRows -> Nat] /\ \A r \in ItemRows : Rows[r] <= posted[r]
    BY <2>1, RowsWithin
  <2>3. \A x \in Products : TotalOf(Rows, x) <= GainOf(x)
    BY <2>1, <2>2, TotalWithin DEF Accounts
  <2>4. ASSUME NEW k \in Keys PROVE HomeOf(Rows, k) <= GainAt(k)
    <3>1. HomeOf(Rows, k) <= HomeOf(posted, k) /\ HomeOf(posted, k) <= GainAt(k)
      BY <2>1, <2>2, HomeWithin DEF Accounts
    <3>2. HomeOf(Rows, k) \in Int /\ HomeOf(posted, k) \in Int /\ GainAt(k) \in Int
      BY <2>2, HomeOfTyped, GainAtTyped
    <3>3. QED BY <3>1, <3>2
  <2>5. QED BY <2>3, <2>4 DEF ReceivedIsStocked
<1>2. QED BY <1>1, RequestsInvariant, StockIsAccounted, PTL

\* receive: without overlapping requests on an order the items say exactly what the
\* stock of each product has gained, and of each key if no order was moved.
THEOREM StockRecorded == Spec => []StockIsRecorded
<1>1. RequestsInv /\ StockAccounted => StockIsRecorded
  <2> SUFFICES ASSUME RequestsInv, StockAccounted, disturbed = {}
               PROVE  /\ \A x \in Products : TotalOf(Rows, x) = GainOf(x)
                      /\ moved = {} => \A k \in Keys : HomeOf(Rows, k) = GainAt(k)
    BY DEF StockIsRecorded
  <2>1. PICK posted \in [ItemRows -> Nat] : Accounts(posted)
    BY DEF StockAccounted
  <2>2. Rows = posted
    BY <2>1, RowsWithin
  <2>3. QED BY <2>1, <2>2 DEF Accounts
<1>2. QED BY <1>1, RequestsInvariant, StockIsAccounted, PTL
=============================================================================
