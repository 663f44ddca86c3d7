------------------------ MODULE StockTransfersProofs ------------------------
(***************************************************************************)
(* Theorems about StockTransfers, for every set of requests, transfers,    *)
(* items and quantities.                                                   *)
(***************************************************************************)
EXTENDS StockTransfers, SumLemmas, TLAPS

-----------------------------------------------------------------------------
(* Items and rows.                                                         *)

LEMMA Elements ==
  ASSUME NEW S, NEW s \in Seq(S)
  PROVE  /\ Len(s) \in Nat /\ DOMAIN s = 1..Len(s) /\ \A i \in 1..Len(s) : s[i] \in S
         /\ s = <<>> <=> Len(s) = 0
OBVIOUS

LEMMA Repeated ==
  ASSUME NEW S, NEW n \in Nat, NEW e \in S, NEW s, s = [i \in 1..n |-> e]
  PROVE  s \in Seq(S) /\ Len(s) = n /\ \A i \in 1..n : s[i] = e
OBVIOUS

\* A sequence with one element replaced.
LEMMA Replaced ==
  ASSUME NEW S, NEW s \in Seq(S), NEW i \in 1..Len(s), NEW e \in S
  PROVE  /\ [s EXCEPT ![i] = e] \in Seq(S) /\ Len([s EXCEPT ![i] = e]) = Len(s)
         /\ [s EXCEPT ![i] = e][i] = e
         /\ \A j \in 1..Len(s) : j # i => [s EXCEPT ![i] = e][j] = s[j]
<1> DEFINE n == Len(s)
           z == [s EXCEPT ![i] = e]
<1>1. n \in Nat /\ s \in [1..n -> S]
  BY Elements
<1>2. z \in [1..n -> S]
  BY <1>1
<1>3. z[i] = e /\ \A j \in 1..n : j # i => z[j] = s[j]
  BY <1>1
<1> HIDE DEF n, z
<1>4. z \in Seq(S) /\ Len(z) = n
  BY <1>1, <1>2
<1>5. QED BY <1>3, <1>4 DEF n, z

LEMMA LineTyped ==
  ASSUME NEW t \in Transfers
  PROVE  /\ Number(t) \in Nat
         /\ \A i \in 1..Number(t), r \in Route :
              /\ LineOf(r, Items[t][i]).from \in Keys /\ LineOf(r, Items[t][i]).to \in Keys
              /\ LineOf(r, Items[t][i]).qty \in Nat \ {0}
         /\ \A i \in 1..Number(t) : Items[t][i].qty \in Nat \ {0}
<1> DEFINE Line == [product : Products, qty : Nat \ {0}]
<1>1. Items[t] \in Seq(Line)
  BY TransfersAssumption, Zenon
<1> HIDE DEF Line
<1>2. Len(Items[t]) \in Nat /\ \A i \in 1..Len(Items[t]) : Items[t][i] \in Line
  BY <1>1, Elements
<1>3. QED BY <1>2 DEF Line, Number, LineOf, Route, Keys

LEMMA RowIs ==
  ASSUME NEW r \in ItemRows
  PROVE  /\ r[1] \in Transfers /\ r[2] \in 1..Number(r[1]) /\ r = <<r[1], r[2]>>
         /\ QtyOf(r) \in Nat \ {0}
<1>1. PICK t \in Transfers : r \in {<<t, i>> : i \in 1..Number(t)}
  BY DEF ItemRows
<1>2. PICK i \in 1..Number(t) : r = <<t, i>>
  BY <1>1
<1>3. QED BY <1>2, LineTyped DEF QtyOf

LEMMA RowKey ==
  ASSUME TypeOK, NEW r \in ItemRows
  PROVE  KeyOf(r) \in Keys
BY RowIs, LineTyped DEF KeyOf, TypeOK

LEMMA RowsFinite == IsFiniteSet(ItemRows)
<1> DEFINE rows == [t \in Transfers |-> {<<t, i>> : i \in 1..Number(t)}]
<1>1. ASSUME NEW t \in Transfers PROVE IsFiniteSet(rows[t])
  <2> DEFINE pair == [i \in 1..Number(t) |-> <<t, i>>]
             n == Number(t)
  <2>1. IsFiniteSet(1..n)
    BY LineTyped, FS_Interval
  <2>2. rows[t] = {pair[i] : i \in 1..n}
    OBVIOUS
  <2> HIDE DEF pair, rows, n
  <2>3. IsFiniteSet({pair[i] : i \in 1..n})
    BY <2>1, ImageFinite
  <2>4. QED BY <2>2, <2>3
<1>2. ItemRows = UNION {rows[t] : t \in Transfers}
  BY DEF ItemRows
<1> HIDE DEF rows
<1>3. IsFiniteSet({rows[t] : t \in Transfers})
  BY TransfersAssumption, ImageFinite
<1>4. QED BY <1>1, <1>2, <1>3, FS_UNION

-----------------------------------------------------------------------------
(* The stock.                                                              *)

LEMMA StockSum ==
  ASSUME NEW f, NEW S
  PROVE  Stock!SumFunctionOnSet(f, S) = SumFunctionOnSet(f, S)
BY DEF Stock!SumFunctionOnSet, SumFunctionOnSet, Stock!FoldFunctionOnSet, FoldFunctionOnSet,
   Stock!MapThenFoldSet, MapThenFoldSet

\* A posting of one or two items leaves quantities on hand.
LEMMA PostTyped ==
  ASSUME onHand \in [Keys -> Int], NEW batch, NEW n \in Nat, DOMAIN batch = 1..n,
         \A i \in 1..n : batch[i].qty \in Int, Stock!Post(batch)
  PROVE  onHand' \in [Keys -> Int] /\ reserved' = reserved
<1> DEFINE f == [i \in DOMAIN batch |-> batch[i].qty]
<1>1. ASSUME NEW k \in Keys PROVE onHand[k] + SumFunctionOnSet(f, Stock!ItemsOf(batch, k)) \in Int
  <2> DEFINE S == Stock!ItemsOf(batch, k)
  <2>1. S \subseteq 1..n
    BY DEF Stock!ItemsOf
  <2>2. IsFiniteSet(1..n)
    BY FS_Interval
  <2>3. IsFiniteSet(S) /\ \A i \in S : f[i] \in Int
    BY <2>1, <2>2, FS_Subset
  <2>4. SumFunctionOnSet(f, S) \in Int
    <3> HIDE DEF S, f
    <3>1. QED BY <2>3, SumInt
  <2>5. QED BY <2>4
<1>2. \A k \in Keys :
        Stock!Change(batch, Stock!ItemsOf(batch, k)) = SumFunctionOnSet(f, Stock!ItemsOf(batch, k))
  BY StockSum DEF Stock!Change
<1>3. /\ onHand' = [k \in Keys |-> onHand[k] + Stock!Change(batch, Stock!ItemsOf(batch, k))]
      /\ reserved' = reserved
  BY DEF Stock!Post
<1> HIDE DEF f
<1>4. QED BY <1>1, <1>2, <1>3

\* What release_reservation leaves: less by q, if there was that much.
LEMMA ReleaseIs ==
  ASSUME reserved \in [Keys -> Nat], NEW k \in Keys, NEW q \in Nat, Stock!Release(k, q)
  PROVE  /\ reserved' \in [Keys -> Nat] /\ onHand' = onHand
         /\ \A j \in Keys : j # k => reserved'[j] = reserved[j]
         /\ q <= reserved[k] => reserved'[k] = reserved[k] - q
<1> DEFINE a == reserved[k] - q
<1>1. PICK m \in {a, 0} : \A x \in {a, 0} : m >= x
  <2>1. CASE a >= 0
    BY <2>1
  <2>2. CASE a < 0
    BY <2>2
  <2>3. QED BY <2>1, <2>2
<1>2. Stock!Max({a, 0}) \in {a, 0} /\ \A x \in {a, 0} : Stock!Max({a, 0}) >= x
  BY <1>1 DEF Stock!Max
<1>3. Stock!Max({a, 0}) \in Nat /\ (q <= reserved[k] => Stock!Max({a, 0}) = a)
  BY <1>2
<1>4. reserved' = [reserved EXCEPT ![k] = Stock!Max({a, 0})] /\ onHand' = onHand
  BY DEF Stock!Release
<1>5. reserved'[k] = Stock!Max({a, 0}) /\ \A j \in Keys : j # k => reserved'[j] = reserved[j]
  BY <1>4
<1>6. reserved' \in [Keys -> Nat]
  BY <1>3, <1>4
<1>7. QED BY <1>3, <1>4, <1>5, <1>6

LEMMA ReserveIs ==
  ASSUME reserved \in [Keys -> Nat], NEW k \in Keys, NEW q \in Nat, Stock!Reserve(k, q)
  PROVE  /\ reserved' \in [Keys -> Nat] /\ onHand' = onHand
         /\ \A j \in Keys : j # k => reserved'[j] = reserved[j]
         /\ reserved'[k] = reserved[k] + q
BY DEF Stock!Reserve

-----------------------------------------------------------------------------
(* What a step does not touch.                                             *)

\* A transfer whose rows, requests and movements a step leaves as they are.
Untouched(t) ==
  /\ t \in Transfers
  /\ status'[t] = status[t] /\ route'[t] = route[t]
  /\ received'[t] = received[t] /\ moved'[t] = moved[t]
  /\ \A v \in Workers :
       /\ at'[v] = t <=> at[v] = t
       /\ at[v] = t => /\ pc'[v] = pc[v] /\ serving'[v] = serving[v]
                       /\ object'[v] = object[v] /\ way'[v] = way[v]
                       /\ todo'[v] = todo[v] /\ next'[v] = next[v] /\ qty'[v] = qty[v]

LEMMA UntouchedRecorded ==
  ASSUME NEW t, Untouched(t), NEW i
  PROVE  Recorded(t, i)' <=> Recorded(t, i)
BY DEF Untouched, Recorded, MovesRows, Busy, Finished

LEMMA UntouchedHolds ==
  ASSUME NEW r, Untouched(r[1])
  PROVE  (Holds(r)' <=> Holds(r)) /\ KeyOf(r)' = KeyOf(r)
<1>1. ASSUME NEW v \in Workers, at[v] = r[1]
      PROVE  /\ Releasing(v)' <=> Releasing(v)
             /\ Reserving(v)' <=> Reserving(v)
             /\ Called(v)' = Called(v)
  <2>1. /\ pc'[v] = pc[v] /\ serving'[v] = serving[v] /\ object'[v] = object[v]
        /\ todo'[v] = todo[v] /\ next'[v] = next[v]
    BY <1>1 DEF Untouched
  <2>2. Called(v)' = Called(v)
    BY <2>1 DEF Called
  <2>3. QED BY <2>1, <2>2 DEF Releasing, Reserving, FirstCall
<1>2. /\ status'[r[1]] = status[r[1]]
      /\ \A v \in Workers : at'[v] = r[1] <=> at[v] = r[1]
      /\ KeyOf(r)' = KeyOf(r)
  BY DEF Untouched, KeyOf
<1>3. QED BY <1>1, <1>2 DEF Holds

\* The movements of one transfer.
RowsMoved(t) ==
  t \notin disturbed /\ status[t] # "deleted" =>
    \A i \in 1..Number(t) :
      /\ Recorded(t, i) => moved[t][i] = <<received[t][i]>>
      /\ \A w \in Workers : at[w] = t /\ pc[w] = "record" /\ i = next[w] =>
           moved[t][i] = <<qty[w]>>
      /\ ~Recorded(t, i) /\ (\A w \in Workers : at[w] = t /\ pc[w] = "record" => i # next[w])
           => moved[t][i] = <<>>

LEMMA UntouchedMoved ==
  ASSUME NEW t, Untouched(t), RowsMoved(t), disturbed \subseteq disturbed'
  PROVE  RowsMoved(t)'
<1>1. SUFFICES ASSUME t \notin disturbed', status'[t] # "deleted", NEW i \in 1..Number(t)
               PROVE  /\ Recorded(t, i)' => moved'[t][i] = <<received'[t][i]>>
                      /\ \A w \in Workers : at'[w] = t /\ pc'[w] = "record" /\ i = next'[w] =>
                           moved'[t][i] = <<qty'[w]>>
                      /\ ~Recorded(t, i)'
                         /\ (\A w \in Workers : at'[w] = t /\ pc'[w] = "record" => i # next'[w])
                           => moved'[t][i] = <<>>
  BY DEF RowsMoved, Number
<1>2. t \notin disturbed /\ status[t] # "deleted"
  BY <1>1 DEF Untouched
<1>3. Recorded(t, i)' <=> Recorded(t, i)
  BY UntouchedRecorded
<1>4. /\ Recorded(t, i) => moved[t][i] = <<received[t][i]>>
      /\ \A w \in Workers : at[w] = t /\ pc[w] = "record" /\ i = next[w] =>
           moved[t][i] = <<qty[w]>>
      /\ ~Recorded(t, i) /\ (\A w \in Workers : at[w] = t /\ pc[w] = "record" => i # next[w])
           => moved[t][i] = <<>>
  BY <1>2 DEF RowsMoved
<1>5. QED BY <1>3, <1>4 DEF Untouched

-----------------------------------------------------------------------------
(* The requests.                                                           *)

\* What the request of w holds.
RequestHolds(w) ==
  /\ IF Busy(w) THEN at[w] \in Transfers /\ way[w] \in Route
                ELSE at[w] = NoTransfer /\ next[w] = 1
  /\ Looping(w) => todo[w] = Number(at[w]) /\ next[w] \in 1..todo[w]
  /\ pc[w] = "reserve" => serving[w] = "confirm" /\ object[w] = "draft"
  /\ pc[w] = "release" => serving[w] \in {"receive", "cancel"} /\ object[w] = "in_transit"
  /\ pc[w] \in {"move", "record"} => serving[w] = "receive" /\ object[w] = "in_transit"
  /\ pc[w] = "save" => Allowed(serving[w], object[w])

FreshCopy(w) ==
  Busy(w) /\ at[w] \notin disturbed =>
    object[w] = status[at[w]] /\ way[w] = route[at[w]] /\ todo[w] = Number(at[w])

\* The request of w, and what it knows of its transfer when it is alone on it.
LEMMA Held ==
  ASSUME TransfersInv, NEW w \in Workers
  PROVE  /\ RequestHolds(w) /\ FreshCopy(w)
         /\ Busy(w) /\ at[w] \notin disturbed =>
              /\ \A v \in Workers \ {w} : at[v] # at[w]
              /\ status[at[w]] \in Status /\ status[at[w]] # "deleted"
              /\ Len(received[at[w]]) = Number(at[w])
<1>1. RequestHolds(w) /\ FreshCopy(w)
  BY DEF TransfersInv, RequestsHold, FreshCopies, RequestHolds, FreshCopy
<1>2. ASSUME Busy(w), at[w] \notin disturbed
      PROVE  /\ \A v \in Workers \ {w} : at[v] # at[w]
             /\ status[at[w]] \in Status /\ status[at[w]] # "deleted"
             /\ Len(received[at[w]]) = Number(at[w])
  <2>1. \A v \in Workers \ {w} : at[v] # at[w]
    BY <1>2 DEF TransfersInv, ServedAlone
  <2>2. status[at[w]] \in Status /\ status[at[w]] # "deleted" /\ at[w] \in Transfers
    BY <1>1, <1>2 DEF FreshCopy, RequestHolds, TransfersInv, TypeOK, Status
  <2>3. QED BY <1>2, <2>1, <2>2 DEF TransfersInv, RowsKept
<1>3. QED BY <1>1, <1>2

LEMMA InitTransfers == Init => TransfersInv
<1> SUFFICES ASSUME Init PROVE TransfersInv
  OBVIOUS
<1> USE DEF Init
<1>1. ASSUME NEW t \in Transfers
      PROVE  /\ received[t] \in Seq(Int) /\ Len(received[t]) = Number(t)
             /\ moved[t] \in Seq(Seq(Int)) /\ Len(moved[t]) = Number(t)
             /\ \A i \in 1..Number(t) : moved[t][i] = <<>>
  <2> DEFINE n == Number(t)
  <2>1. n \in Nat
    BY LineTyped
  <2>2. received[t] = [i \in 1..n |-> 0] /\ moved[t] = [i \in 1..n |-> <<>>]
    OBVIOUS
  <2>3. <<>> \in Seq(Int)
    OBVIOUS
  <2> HIDE DEF n
  <2>4. received[t] \in Seq(Int) /\ Len(received[t]) = n
    BY ONLY <2>1, <2>2, Repeated
  <2>5. /\ moved[t] \in Seq(Seq(Int)) /\ Len(moved[t]) = n
        /\ \A i \in 1..n : moved[t][i] = <<>>
    <3> DEFINE S == Seq(Int)
               e == <<>>
    <3>1. e \in S /\ moved[t] = [i \in 1..n |-> e]
      BY <2>2, <2>3
    <3> HIDE DEF S, e
    <3>2. moved[t] \in Seq(S) /\ Len(moved[t]) = n /\ \A i \in 1..n : moved[t][i] = e
      BY ONLY <2>1, <3>1, Repeated
    <3>3. QED BY <3>2 DEF S, e
  <2>6. QED BY <2>4, <2>5 DEF n
<1>2. TypeOK
  <2>1. onHand \in [Keys -> Int] /\ reserved \in [Keys -> Nat]
    BY TransfersAssumption DEF Stock!Opened
  <2>2. received \in [Transfers -> Seq(Int)] /\ moved \in [Transfers -> Seq(Seq(Int))]
    BY <1>1
  <2>3. QED BY <2>1, <2>2, TransfersAssumption DEF TypeOK, Handlers, Status
<1>3. RowsKept
  BY <1>1 DEF RowsKept
<1>4. RequestsHold /\ ServedAlone /\ FreshCopies
  BY DEF RequestsHold, ServedAlone, FreshCopies, Busy, Looping
<1>5. MovedOnce
  BY <1>1 DEF MovedOnce, Recorded, MovesRows, Busy
<1>6. QED BY <1>2, <1>3, <1>4, <1>5 DEF TransfersInv

\* The end of a request, leaving its transfer with this status and these items.
Ends(w, t, s, quantities) ==
  /\ w \in Workers /\ Busy(w) /\ t \in Transfers /\ at[w] = t /\ Respond(w)
  /\ status' = [status EXCEPT ![t] = s]
  /\ route' = [route EXCEPT ![t] = route'[t]] /\ route'[t] \in Route
  /\ received' = [received EXCEPT ![t] = quantities]
  /\ UNCHANGED <<load, stock, moved>>
  /\ disturbed \subseteq disturbed' /\ disturbed' \subseteq disturbed \union {t}

\* What it may leave.
Leaves(t, s, quantities) ==
  /\ s \in Status \union {"deleted"} /\ quantities \in Seq(Int)
  /\ quantities # <<>> => Len(quantities) = Number(t)
  /\ t \notin disturbed' /\ s # "deleted" =>
       /\ Len(quantities) = Number(t)
       /\ \A i \in 1..Number(t) :
            moved[t][i] = IF s = "received" THEN <<quantities[i]>> ELSE <<>>

\* Only the transfer of the request is touched.
LEMMA EndsTouch ==
  ASSUME TypeOK, NEW w, NEW t, NEW s, NEW quantities, Ends(w, t, s, quantities)
  PROVE  /\ \A u \in Transfers \ {t} : Untouched(u)
         /\ \A v \in Workers \ {w} :
              /\ pc'[v] = pc[v] /\ serving'[v] = serving[v] /\ at'[v] = at[v]
              /\ object'[v] = object[v] /\ way'[v] = way[v] /\ todo'[v] = todo[v] /\ next'[v] = next[v]
              /\ qty'[v] = qty[v]
         /\ pc'[w] = "idle" /\ at'[w] = NoTransfer /\ next'[w] = 1
         /\ status'[t] = s /\ received'[t] = quantities /\ moved' = moved
<1>1. /\ \A v \in Workers \ {w} :
           /\ pc'[v] = pc[v] /\ serving'[v] = serving[v] /\ at'[v] = at[v]
           /\ object'[v] = object[v] /\ way'[v] = way[v] /\ todo'[v] = todo[v] /\ next'[v] = next[v]
           /\ qty'[v] = qty[v]
      /\ pc'[w] = "idle" /\ at'[w] = NoTransfer /\ next'[w] = 1
  BY DEF Ends, Respond, TypeOK
<1>2. /\ \A u \in Transfers \ {t} :
           status'[u] = status[u] /\ route'[u] = route[u] /\ received'[u] = received[u]
      /\ status'[t] = s /\ received'[t] = quantities /\ moved' = moved /\ at[w] = t
  BY DEF Ends, TypeOK
<1>3. ASSUME NEW u \in Transfers \ {t} PROVE Untouched(u)
  <2>1. at'[w] # u /\ at[w] # u
    BY <1>1, <1>2, TransfersAssumption
  <2>2. QED BY <1>1, <1>2, <2>1 DEF Untouched
<1>4. QED BY <1>1, <1>2, <1>3

LEMMA EndsTransfers ==
  ASSUME TransfersInv, NEW w, NEW t, NEW s, NEW quantities, Ends(w, t, s, quantities),
         Leaves(t, s, quantities)
  PROVE  TransfersInv'
<1>0. TypeOK /\ t \in Transfers /\ w \in Workers /\ at[w] = t /\ Busy(w)
  BY DEF TransfersInv, Ends
<1>1. /\ \A u \in Transfers \ {t} : Untouched(u)
      /\ \A v \in Workers \ {w} :
           /\ pc'[v] = pc[v] /\ serving'[v] = serving[v] /\ at'[v] = at[v]
           /\ object'[v] = object[v] /\ way'[v] = way[v] /\ todo'[v] = todo[v] /\ next'[v] = next[v]
           /\ qty'[v] = qty[v]
      /\ pc'[w] = "idle" /\ at'[w] = NoTransfer /\ next'[w] = 1
      /\ status'[t] = s /\ received'[t] = quantities /\ moved' = moved
  BY <1>0, EndsTouch
<1>2. /\ disturbed \subseteq disturbed'
      /\ \A u \in Transfers \ {t} : u \in disturbed' <=> u \in disturbed
  BY DEF Ends
<1>3. TypeOK'
  <2>1. status' \in [Transfers -> Status \union {"deleted"}]
        /\ received' \in [Transfers -> Seq(Int)]
    BY <1>0 DEF Ends, Leaves, TypeOK
  <2>5. route' \in [Transfers -> Route]
    BY <1>0 DEF Ends, TypeOK
  <2>2. /\ pc' \in [Workers -> {"idle", "refuse", "reserve", "release", "move", "record", "save"}]
        /\ serving' \in [Workers -> Handlers] /\ at' \in [Workers -> Transfers \union {NoTransfer}]
        /\ object' \in [Workers -> Status] /\ todo' \in [Workers -> Nat]
        /\ way' \in [Workers -> Route \union {NoTransfer}]
        /\ next' \in [Workers -> Nat \ {0}] /\ qty' \in [Workers -> Int]
    BY <1>0 DEF Ends, Respond, TypeOK, Handlers, Status
  <2>3. disturbed' \subseteq Transfers /\ UNCHANGED <<load, onHand, reserved, moved>>
    BY <1>0 DEF Ends, TypeOK, stock
  <2>4. QED BY <1>0, <2>1, <2>2, <2>3, <2>5 DEF TypeOK
<1>4. RowsKept'
  <2>1. ASSUME NEW u \in Transfers
        PROVE  /\ received'[u] # <<>> => Len(received'[u]) = Number(u)
               /\ Len(moved'[u]) = Number(u)
               /\ u \notin disturbed' /\ status'[u] # "deleted" => Len(received'[u]) = Number(u)
    <3>1. CASE u = t
      BY <1>1, <3>1 DEF TransfersInv, RowsKept, Leaves
    <3>2. CASE u # t
      BY <1>1, <1>2, <3>2 DEF TransfersInv, RowsKept, Untouched
    <3>3. QED BY <3>1, <3>2
  <2>2. QED BY <2>1 DEF RowsKept, Number
<1>5. RequestsHold'
  <2>1. ASSUME NEW v \in Workers PROVE RequestHolds(v)'
    <3>1. CASE v = w
      BY <1>1, <3>1 DEF RequestHolds, Busy, Looping
    <3>2. CASE v # w
      <4>1. RequestHolds(v)
        BY Held
      <4>2. QED BY <1>1, <3>2, <4>1 DEF RequestHolds, Busy, Looping, Allowed, Number
    <3>3. QED BY <3>1, <3>2
  <2>2. QED BY <2>1 DEF RequestsHold, RequestHolds
<1>6. ServedAlone'
  <2>1. ASSUME NEW u \in Workers, NEW v \in Workers, u # v, at'[u] = at'[v], Busy(v)'
        PROVE  at'[v] \in disturbed'
    <3>1. v # w /\ Busy(v) /\ at'[v] = at[v]
      BY <1>1, <2>1 DEF Busy
    <3>2. at[v] \in Transfers
      BY <3>1, Held DEF RequestHolds
    <3>3. u # w
      BY <1>1, <2>1, <3>1, <3>2, TransfersAssumption
    <3>4. QED BY <1>1, <1>2, <2>1, <3>1, <3>3 DEF TransfersInv, ServedAlone
  <2>2. QED BY <2>1 DEF ServedAlone
<1>7. FreshCopies'
  <2>1. ASSUME NEW v \in Workers, Busy(v)', at'[v] \notin disturbed'
        PROVE  object'[v] = status'[at'[v]] /\ way'[v] = route'[at'[v]] /\ todo'[v] = Number(at'[v])
    <3>1. v # w /\ Busy(v) /\ at'[v] = at[v]
      BY <1>1, <2>1 DEF Busy
    <3>2. at[v] \in Transfers /\ at[v] \notin disturbed
      BY <1>2, <2>1, <3>1, Held DEF RequestHolds
    <3>3. at[v] # t
      BY <1>0, <3>1, <3>2, Held
    <3>4. Untouched(at[v]) /\ FreshCopy(v)
      BY <1>1, <3>2, <3>3, Held
    <3>5. QED BY <1>1, <3>1, <3>2, <3>4 DEF Untouched, FreshCopy
  <2>2. QED BY <2>1 DEF FreshCopies, Number
<1>8. ASSUME NEW u \in Transfers PROVE RowsMoved(u)'
  <2>1. CASE u = t
    <3>1. ASSUME t \notin disturbed', s # "deleted", NEW i \in 1..Number(t)
          PROVE  /\ \A v \in Workers : at'[v] # t
                 /\ Recorded(t, i)' <=> s = "received"
                 /\ moved[t][i] = IF s = "received" THEN <<quantities[i]>> ELSE <<>>
      <4>1. t \notin disturbed
        BY <1>2, <3>1
      <4>2. \A v \in Workers : at'[v] # t
        BY <1>0, <1>1, <4>1, Held, TransfersAssumption
      <4>3. QED BY <1>1, <3>1, <4>2 DEF Recorded, Leaves
    <3>2. QED BY <1>1, <2>1, <3>1 DEF RowsMoved, Number
  <2>2. CASE u # t
    <3>1. RowsMoved(u)
      BY DEF TransfersInv, MovedOnce, RowsMoved
    <3>2. QED BY <1>1, <1>2, <2>2, <3>1, UntouchedMoved
  <2>3. QED BY <2>1, <2>2
<1>9. MovedOnce'
  BY <1>8 DEF MovedOnce, RowsMoved
<1>10. QED BY <1>3, <1>4, <1>5, <1>6, <1>7, <1>9 DEF TransfersInv

-----------------------------------------------------------------------------
(* The handlers.                                                           *)

\* What is known of a transfer that is left as it is.
LEMMA AsItIs ==
  ASSUME TransfersInv, NEW t \in Transfers
  PROVE  /\ received[t] \in Seq(Int) /\ status[t] \in Status \union {"deleted"}
         /\ received[t] # <<>> => Len(received[t]) = Number(t)
         /\ received = [received EXCEPT ![t] = received[t]]
         /\ status = [status EXCEPT ![t] = status[t]]
         /\ route = [route EXCEPT ![t] = route[t]] /\ route[t] \in Route
         /\ t \notin disturbed /\ status[t] # "deleted" => Len(received[t]) = Number(t)
         /\ RowsMoved(t)
BY DEF TransfersInv, TypeOK, RowsKept, MovedOnce, RowsMoved

\* What has been moved for a transfer that only the request of w serves.
Done(w, t, i) == status[t] = "received" \/ (MovesRows(w) /\ i \in Finished(w))

LEMMA MovedAlone ==
  ASSUME TransfersInv, NEW w \in Workers, Busy(w), NEW t \in Transfers, at[w] = t,
         t \notin disturbed, NEW i \in 1..Number(t)
  PROVE  /\ Done(w, t, i) => moved[t][i] = <<received[t][i]>>
         /\ pc[w] = "record" /\ i = next[w] => moved[t][i] = <<qty[w]>>
         /\ ~Done(w, t, i) => ((pc[w] = "record" => i # next[w]) => moved[t][i] = <<>>)
<1>1. \A v \in Workers \ {w} : at[v] # t
  BY Held
<1>2. RowsMoved(t) /\ status[t] # "deleted"
  BY Held, AsItIs
<1>3. Recorded(t, i) <=> Done(w, t, i)
  BY <1>1 DEF Recorded, Done
<1>4. /\ Recorded(t, i) => moved[t][i] = <<received[t][i]>>
      /\ \A v \in Workers : at[v] = t /\ pc[v] = "record" /\ i = next[v] => moved[t][i] = <<qty[v]>>
      /\ ~Recorded(t, i) /\ (\A v \in Workers : at[v] = t /\ pc[v] = "record" => i # next[v])
           => moved[t][i] = <<>>
  BY <1>2 DEF RowsMoved
<1>5. pc[w] = "record" /\ i = next[w] => moved[t][i] = <<qty[w]>>
  BY <1>4
<1>6. ASSUME ~Recorded(t, i), pc[w] = "record" => i # next[w]
      PROVE  moved[t][i] = <<>>
  <2>1. \A v \in Workers : at[v] = t /\ pc[v] = "record" => i # next[v]
    BY <1>1, <1>6
  <2>2. QED BY <1>4, <1>6, <2>1
<1>7. QED BY <1>3, <1>4, <1>5, <1>6

LEMMA SaveStatusStep ==
  ASSUME TransfersInv, NEW w \in Workers, SaveStatus(w)
  PROVE  TransfersInv'
<1>0. TypeOK /\ Busy(w) /\ pc[w] = "save"
  BY DEF TransfersInv, SaveStatus, Busy
<1>1. PICK t \in Transfers : t = at[w]
  BY <1>0, Held DEF RequestHolds
<1> DEFINE s == Target(serving[w])
<1>2. Ends(w, t, s, received[t]) /\ disturbed' = disturbed
  BY <1>0, <1>1, AsItIs DEF Ends, SaveStatus, history
<1>3. ASSUME t \notin disturbed, NEW i \in 1..Number(t)
      PROVE  moved[t][i] = IF s = "received" THEN <<received[t][i]>> ELSE <<>>
  <2>1. /\ FreshCopy(w) /\ RequestHolds(w)
        /\ object[w] = status[t] /\ todo[w] = Number(t)
    BY <1>0, <1>1, <1>3, Held DEF FreshCopy
  <2>2. Allowed(serving[w], status[t])
    BY <1>0, <2>1 DEF RequestHolds
  <2>3. i \in Finished(w)
    BY <1>0, <1>3, <2>1 DEF Finished
  <2>4. CASE serving[w] = "receive"
    <3>1. MovesRows(w) /\ s = "received"
      BY <1>0, <2>4 DEF MovesRows, Target
    <3>2. Done(w, t, i)
      BY <2>3, <3>1 DEF Done
    <3>3. QED BY <1>0, <1>1, <1>3, <3>1, <3>2, MovedAlone
  <2>5. CASE serving[w] # "receive"
    <3>1. ~MovesRows(w) /\ s # "received" /\ status[t] # "received"
      BY <1>0, <2>2, <2>5 DEF MovesRows, Target, Allowed, SaveStatus
    <3>2. ~Done(w, t, i)
      BY <3>1 DEF Done
    <3>3. QED BY <1>0, <1>1, <1>3, <3>1, <3>2, MovedAlone
  <2>6. QED BY <2>4, <2>5
<1>4. Leaves(t, s, received[t])
  <2>1. s \in Status
    BY DEF Target, Status
  <2>2. t \notin disturbed => Len(received[t]) = Number(t)
    BY <1>0, <1>1, Held
  <2>3. QED BY <1>2, <1>3, <2>1, <2>2, AsItIs DEF Leaves
<1>5. QED BY <1>2, <1>4, EndsTransfers

\* A request that ends without a movement of its own leaves its transfer as it is.
LEMMA LeavesAsIs ==
  ASSUME TransfersInv, NEW w \in Workers, Busy(w), NEW t \in Transfers, t = at[w],
         disturbed \subseteq disturbed',
         t \notin disturbed' => pc[w] # "record"
                                /\ \A i \in 1..Number(t) : MovesRows(w) => i \notin Finished(w)
  PROVE  Leaves(t, status[t], received[t])
<1>1. ASSUME t \notin disturbed', NEW i \in 1..Number(t)
      PROVE  moved[t][i] = IF status[t] = "received" THEN <<received[t][i]>> ELSE <<>>
  <2>1. t \notin disturbed
    BY <1>1
  <2>2. pc[w] # "record" /\ (Done(w, t, i) <=> status[t] = "received")
    BY <1>1 DEF Done
  <2>3. /\ status[t] = "received" => moved[t][i] = <<received[t][i]>>
        /\ status[t] # "received" => moved[t][i] = <<>>
    BY <1>1, <2>1, <2>2, MovedAlone
  <2>4. QED BY <2>3
<1>2. t \notin disturbed' /\ status[t] # "deleted" => Len(received[t]) = Number(t)
  BY AsItIs
<1>3. QED BY <1>1, <1>2, AsItIs DEF Leaves

LEMMA RefuseStep ==
  ASSUME TransfersInv, NEW w \in Workers, Refuse(w)
  PROVE  TransfersInv'
<1>0. TypeOK /\ Busy(w) /\ pc[w] = "refuse"
  BY DEF TransfersInv, Refuse, Busy
<1>1. PICK t \in Transfers : t = at[w]
  BY <1>0, Held DEF RequestHolds
<1>2. Ends(w, t, status[t], received[t]) /\ disturbed' = disturbed
  BY <1>0, <1>1, AsItIs DEF Ends, Refuse, tables, history
<1>3. Leaves(t, status[t], received[t])
  BY <1>0, <1>1, <1>2, LeavesAsIs DEF MovesRows
<1>4. QED BY <1>2, <1>3, EndsTransfers

LEMMA AbandonStep ==
  ASSUME TransfersInv, NEW w \in Workers, Abandon(w)
  PROVE  TransfersInv'
<1>0. TypeOK /\ Busy(w)
  BY DEF TransfersInv, Abandon, Busy
<1>1. PICK t \in Transfers : t = at[w]
  BY <1>0, Held DEF RequestHolds
<1>2. Ends(w, t, status[t], received[t])
  BY <1>0, <1>1, AsItIs DEF Ends, Abandon, tables
<1>3. ASSUME t \notin disturbed', MovesRows(w)
      PROVE  pc[w] = "release" /\ next[w] = 1
  <2>1. /\ pc[w] # "refuse" => next[w] <= 1 /\ pc[w] \notin {"move", "record"}
        /\ pc[w] = "save" => FirstCall(serving[w], object[w]) = "save"
    BY <1>0, <1>1, <1>3 DEF Abandon, TypeOK
  <2>2. pc[w] # "refuse" /\ serving[w] = "receive"
    BY <1>3 DEF MovesRows
  <2>3. FirstCall("receive", object[w]) = "release"
    BY DEF FirstCall
  <2>4. pc[w] # "reserve"
    BY <2>2, Held DEF RequestHolds
  <2>5. pc[w] = "release"
    BY <1>0, <2>1, <2>2, <2>3, <2>4 DEF TypeOK, Busy
  <2>6. next[w] \in Nat \ {0}
    BY <1>0 DEF TypeOK
  <2>7. QED BY <2>1, <2>2, <2>5, <2>6
<1>4. t \notin disturbed' => pc[w] # "record"
                             /\ \A i \in 1..Number(t) : MovesRows(w) => i \notin Finished(w)
  <2>1. t \notin disturbed' => pc[w] # "record"
    BY <1>1 DEF Abandon
  <2>2. QED BY <1>3, <2>1 DEF Finished
<1>5. Leaves(t, status[t], received[t])
  BY <1>0, <1>1, <1>2, <1>4, LeavesAsIs DEF Ends
<1>6. QED BY <1>2, <1>5, EndsTransfers

LEMMA UpdateStep ==
  ASSUME TransfersInv, NEW w \in Workers, NEW s \in load.edits \union {object[w]},
         NEW r \in load.routes \union {way[w]}, Update(w, s, r)
  PROVE  TransfersInv'
<1>0. TypeOK /\ Busy(w) /\ pc[w] = "save" /\ serving[w] = "update"
  BY DEF TransfersInv, Update, Busy
<1>1. PICK t \in Transfers : t = at[w]
  BY <1>0, Held DEF RequestHolds
<1>2. s \in Status /\ r \in Route
  BY <1>0, TransfersAssumption, Held DEF TypeOK, RequestHolds
<1>3. Ends(w, t, s, received[t])
  <2>1. route' = [route EXCEPT ![t] = r] /\ route'[t] = r
    BY <1>0, <1>1 DEF Update, TypeOK
  <2>2. QED BY <1>0, <1>1, <1>2, <2>1, AsItIs DEF Ends, Update
<1>4. t \notin disturbed' => s = status[t]
  BY <1>0, <1>1, Held DEF Update, FreshCopy
<1>5. Leaves(t, status[t], received[t])
  BY <1>0, <1>1, <1>3, LeavesAsIs DEF Ends, MovesRows
<1>6. Leaves(t, s, received[t])
  BY <1>2, <1>4, <1>5 DEF Leaves
<1>7. QED BY <1>3, <1>6, EndsTransfers

LEMMA DestroyStep ==
  ASSUME TransfersInv, NEW w \in Workers, Destroy(w)
  PROVE  TransfersInv'
<1>0. TypeOK /\ Busy(w)
  BY DEF TransfersInv, Destroy, Busy
<1>1. PICK t \in Transfers : t = at[w]
  BY <1>0, Held DEF RequestHolds
<1>2. Ends(w, t, "deleted", <<>>)
  BY <1>0, <1>1, AsItIs DEF Ends, Destroy
<1>3. Leaves(t, "deleted", <<>>)
  BY DEF Leaves
<1>4. QED BY <1>2, <1>3, EndsTransfers

-----------------------------------------------------------------------------
(* The fetch and the steps through the items change one request.           *)

Steps(w) ==
  /\ w \in Workers /\ UNCHANGED <<status, route, load>>
  /\ disturbed \subseteq disturbed' /\ disturbed' \subseteq Transfers
  /\ \A t \in Transfers \ {at'[w]} : received'[t] = received[t] /\ moved'[t] = moved[t]
  /\ at[w] \in {at'[w], NoTransfer} /\ at'[w] \in Transfers
  /\ \A v \in Workers \ {w} :
       /\ pc'[v] = pc[v] /\ serving'[v] = serving[v] /\ at'[v] = at[v]
       /\ object'[v] = object[v] /\ way'[v] = way[v] /\ todo'[v] = todo[v] /\ next'[v] = next[v]
       /\ qty'[v] = qty[v]

\* The rows of one transfer.
RowsTogether(t) ==
  /\ received[t] # <<>> => Len(received[t]) = Number(t)
  /\ Len(moved[t]) = Number(t)
  /\ t \notin disturbed /\ status[t] # "deleted" => Len(received[t]) = Number(t)

LEMMA StepsTouch ==
  ASSUME NEW w, Steps(w), NEW u \in Transfers, u # at'[w]
  PROVE  Untouched(u)
<1>1. at[w] # u /\ at'[w] # u
  BY TransfersAssumption DEF Steps
<1>2. QED BY <1>1 DEF Untouched, Steps

LEMMA StepsTransfers ==
  ASSUME TransfersInv, NEW w, Steps(w), NEW t, t = at'[w], TypeOK', RequestHolds(w)',
         FreshCopy(w)', ServedAlone', RowsTogether(t)', RowsMoved(t)'
  PROVE  TransfersInv'
<1> USE DEF Steps
<1>1. ASSUME NEW u \in Transfers, u # t PROVE Untouched(u)
  BY <1>1, StepsTouch
<1>2. RowsKept'
  <2>1. ASSUME NEW u \in Transfers, u # t PROVE RowsTogether(u)'
    <3>1. RowsTogether(u) /\ Untouched(u)
      BY <1>1, <2>1 DEF TransfersInv, RowsKept, RowsTogether
    <3>2. QED BY <3>1 DEF RowsTogether, Untouched, Number
  <2>2. \A u \in Transfers : RowsTogether(u)'
    BY <2>1
  <2>3. QED BY <2>2 DEF RowsTogether, RowsKept
<1>3. RequestsHold'
  <2>1. ASSUME NEW v \in Workers, v # w PROVE RequestHolds(v)'
    <3>1. RequestHolds(v)
      BY Held
    <3>2. QED BY <2>1, <3>1 DEF RequestHolds, Busy, Looping, Allowed, Number
  <2>2. \A v \in Workers : RequestHolds(v)'
    BY <2>1
  <2>3. QED BY <2>2 DEF RequestHolds, RequestsHold
<1>4. FreshCopies'
  <2>1. ASSUME NEW v \in Workers, v # w PROVE FreshCopy(v)'
    <3>1. FreshCopy(v)
      BY Held
    <3>2. QED BY <2>1, <3>1 DEF FreshCopy, Busy, Number
  <2>2. \A v \in Workers : FreshCopy(v)'
    BY <2>1
  <2>3. QED BY <2>2 DEF FreshCopies, FreshCopy
<1>5. MovedOnce'
  <2>1. ASSUME NEW u \in Transfers, u # t PROVE RowsMoved(u)'
    <3>1. RowsMoved(u) /\ Untouched(u)
      BY <1>1, <2>1, AsItIs
    <3>2. QED BY <3>1, UntouchedMoved
  <2>2. \A u \in Transfers : RowsMoved(u)'
    BY <2>1
  <2>3. QED BY <2>2 DEF RowsMoved, MovedOnce
<1>6. QED BY <1>2, <1>3, <1>4, <1>5 DEF TransfersInv

LEMMA FetchStep ==
  ASSUME TransfersInv, NEW w \in Workers, NEW h \in Handlers, NEW t \in Transfers, Fetch(w, h, t)
  PROVE  TransfersInv'
<1>0. TypeOK /\ at[w] = NoTransfer /\ next[w] = 1
  BY Held DEF TransfersInv, Fetch, RequestHolds, Busy
<1>1. Steps(w)
  BY <1>0 DEF Fetch, Steps, TypeOK, tables
<1>2. /\ at'[w] = t /\ object'[w] = status[t] /\ serving'[w] = h /\ todo'[w] = Len(received[t])
      /\ way'[w] = route[t]
      /\ pc'[w] = IF ~Allowed(h, status[t]) THEN "refuse"
                  ELSE IF received[t] = <<>> THEN "save" ELSE FirstCall(h, status[t])
      /\ status[t] \in Status /\ status[t] # "deleted"
      /\ UNCHANGED <<status, route, received, load, onHand, reserved, next, qty, moved>>
  BY <1>0 DEF Fetch, TypeOK, tables, stock
<1>3. /\ Len(received[t]) \in Nat /\ (received[t] # <<>> => Len(received[t]) \in Nat \ {0})
      /\ received[t] # <<>> => Len(received[t]) = Number(t)
  <2>1. received[t] \in Seq(Int)
    BY AsItIs
  <2>2. QED BY <2>1, AsItIs, Elements
<1>4. TypeOK'
  <2>1. /\ pc' \in [Workers -> {"idle", "refuse", "reserve", "release", "move", "record", "save"}]
        /\ serving' \in [Workers -> Handlers] /\ at' \in [Workers -> Transfers \union {NoTransfer}]
    BY <1>0 DEF Fetch, TypeOK, FirstCall
  <2>2. /\ object' \in [Workers -> Status] /\ todo' \in [Workers -> Nat]
        /\ way' \in [Workers -> Route \union {NoTransfer}]
    BY <1>0, <1>2, <1>3 DEF Fetch, TypeOK
  <2>3. disturbed' \subseteq Transfers
    BY <1>0 DEF Fetch, TypeOK
  <2>4. QED BY <1>0, <1>2, <2>1, <2>2, <2>3 DEF TypeOK
<1>5. RequestHolds(w)'
  <2>1. next'[w] = 1
    BY <1>0, <1>2
  <2>2. Looping(w)' => received[t] # <<>> /\ Allowed(h, status[t]) /\ pc'[w] = FirstCall(h, status[t])
    BY <1>2 DEF Looping
  <2>3. Looping(w)' => todo'[w] = Number(t) /\ next'[w] \in 1..todo'[w]
    BY <1>2, <1>3, <2>1, <2>2
  <2>4. /\ pc'[w] = "reserve" => h = "confirm" /\ status[t] = "draft"
        /\ pc'[w] = "release" => h \in {"receive", "cancel"} /\ status[t] = "in_transit"
        /\ pc'[w] \notin {"move", "record"}
        /\ pc'[w] = "save" => Allowed(h, status[t])
    BY <1>2 DEF FirstCall, Allowed, Handlers
  <2>5. at'[w] \in Transfers /\ way'[w] \in Route
    BY <1>0, <1>2 DEF TypeOK
  <2>6. RequestHolds(w)' <=>
          /\ IF pc'[w] # "idle" THEN at'[w] \in Transfers /\ way'[w] \in Route
                                ELSE at'[w] = NoTransfer /\ next'[w] = 1
          /\ Looping(w)' => todo'[w] = Number(at'[w]) /\ next'[w] \in 1..todo'[w]
          /\ pc'[w] = "reserve" => serving'[w] = "confirm" /\ object'[w] = "draft"
          /\ pc'[w] = "release" => serving'[w] \in {"receive", "cancel"} /\ object'[w] = "in_transit"
          /\ pc'[w] \in {"move", "record"} => serving'[w] = "receive" /\ object'[w] = "in_transit"
          /\ pc'[w] = "save" => Allowed(serving'[w], object'[w])
    BY DEF RequestHolds, Busy, Allowed, Number
  <2>7. pc'[w] # "idle"
    BY <1>2 DEF FirstCall
  <2>8. QED BY <1>2, <2>3, <2>4, <2>5, <2>6, <2>7
<1>6. FreshCopy(w)'
  <2>1. t \notin disturbed' => Len(received[t]) = Number(t)
    BY <1>1, <1>2, AsItIs DEF Steps
  <2>2. QED BY <1>2, <2>1 DEF FreshCopy, Number
<1>7. ServedAlone'
  <2>1. ASSUME NEW u \in Workers, u # w, at'[u] = t PROVE t \in disturbed'
    <3>1. at[u] = t
      BY <1>1, <2>1 DEF Steps
    <3>2. QED BY <3>1 DEF Fetch
  <2>2. ASSUME NEW u \in Workers, NEW v \in Workers, u # v, at'[u] = at'[v], Busy(v)'
        PROVE  at'[v] \in disturbed'
    <3>1. CASE u = w \/ v = w
      BY <1>2, <2>1, <2>2, <3>1
    <3>2. CASE u # w /\ v # w
      <4>1. at[u] = at[v] /\ Busy(v) /\ at'[v] = at[v]
        BY <1>1, <2>2, <3>2 DEF Steps, Busy
      <4>2. QED BY <1>1, <2>2, <4>1 DEF TransfersInv, ServedAlone, Steps
    <3>3. QED BY <3>1, <3>2
  <2>3. QED BY <2>2 DEF ServedAlone
<1>8. RowsTogether(t)'
  BY <1>1, <1>2, AsItIs DEF RowsTogether, TransfersInv, RowsKept, Steps, Number
<1>9. RowsMoved(t)'
  <2>1. ASSUME t \notin disturbed', NEW i \in 1..Number(t)
        PROVE  /\ Recorded(t, i)' <=> status[t] = "received"
               /\ Recorded(t, i) <=> status[t] = "received"
               /\ \A v \in Workers : at[v] # t
               /\ \A v \in Workers : at'[v] = t => v = w
    <3>1. \A v \in Workers : at[v] # t
      BY <2>1 DEF Fetch
    <3>2. \A v \in Workers : at'[v] = t => v = w
      BY <1>1, <3>1 DEF Steps
    <3>3. MovesRows(w)' => i \notin Finished(w)'
      <4>1. ASSUME MovesRows(w)' PROVE pc'[w] = "release" \/ (pc'[w] = "save" /\ received[t] = <<>>)
        BY <1>2, <4>1 DEF MovesRows, FirstCall
      <4>2. received[t] = <<>> => Len(received[t]) = 0
        OBVIOUS
      <4>3. next'[w] = 1
        BY <1>0, <1>2
      <4>4. QED BY <1>2, <4>1, <4>2, <4>3 DEF Finished
    <3>4. Recorded(t, i)' <=> status'[t] = "received" \/ (MovesRows(w)' /\ i \in Finished(w)')
      BY <1>2, <3>2 DEF Recorded
    <3>5. Recorded(t, i) <=> status[t] = "received"
      BY <3>1 DEF Recorded
    <3>6. QED BY <1>2, <3>1, <3>2, <3>3, <3>4, <3>5
  <2>2. pc'[w] # "record"
    BY <1>2 DEF FirstCall
  <2>3. t \notin disturbed' => t \notin disturbed
    BY <1>1 DEF Steps
  <2>4. ASSUME t \notin disturbed', NEW i \in 1..Number(t)
        PROVE  /\ status[t] = "received" => moved[t][i] = <<received[t][i]>>
               /\ status[t] # "received" => moved[t][i] = <<>>
    BY <1>2, <2>1, <2>3, <2>4, AsItIs DEF RowsMoved
  <2>5. QED BY <1>2, <2>1, <2>2, <2>4 DEF RowsMoved, Number
<1>10. QED BY <1>1, <1>2, <1>4, <1>5, <1>6, <1>7, <1>8, <1>9, StepsTransfers

\* A step of the request of w through the items of t.
Loops(w, t) ==
  /\ w \in Workers /\ Looping(w) /\ t \in Transfers /\ at[w] = t
  /\ UNCHANGED <<status, route, load, serving, at, object, way, todo, disturbed>>
  /\ onHand' \in [Keys -> Int] /\ reserved' \in [Keys -> Nat]
  /\ pc' \in [Workers -> {"idle", "refuse", "reserve", "release", "move", "record", "save"}]
  /\ next' \in [Workers -> Nat \ {0}] /\ qty' \in [Workers -> Int]
  /\ received' \in [Transfers -> Seq(Int)] /\ moved' \in [Transfers -> Seq(Seq(Int))]
  /\ \A v \in Workers \ {w} : pc'[v] = pc[v] /\ next'[v] = next[v] /\ qty'[v] = qty[v]
  /\ \A u \in Transfers \ {t} : received'[u] = received[u] /\ moved'[u] = moved[u]
  /\ Len(received'[t]) = Len(received[t]) /\ Len(moved'[t]) = Len(moved[t])

\* What it leaves of the movements, when it is alone on the transfer.
LeavesMoved(w, t) ==
  \A i \in 1..Number(t) :
    /\ Done(w, t, i) => moved[t][i] = <<received[t][i]>>
    /\ pc[w] = "record" /\ i = next[w] => moved[t][i] = <<qty[w]>>
    /\ ~Done(w, t, i) => ((pc[w] = "record" => i # next[w]) => moved[t][i] = <<>>)

LEMMA LoopsSteps ==
  ASSUME TypeOK, NEW w, NEW t, Loops(w, t)
  PROVE  Steps(w) /\ at'[w] = t
BY DEF Loops, Steps, TypeOK

LEMMA LoopsTransfers ==
  ASSUME TransfersInv, NEW w, NEW t, Loops(w, t), pc'[w] # "idle", RequestHolds(w)',
         t \notin disturbed => LeavesMoved(w, t)'
  PROVE  TransfersInv'
<1>0. TypeOK /\ Busy(w) /\ w \in Workers /\ at[w] = t /\ t \in Transfers
  BY DEF TransfersInv, Loops, Looping, Busy
<1>1. Steps(w) /\ at'[w] = t
  BY <1>0, LoopsSteps
<1>2. TypeOK'
  BY <1>0 DEF Loops, TypeOK
<1>3. FreshCopy(w)'
  <2>1. FreshCopy(w)
    BY <1>0, Held
  <2>2. QED BY <1>0, <2>1 DEF FreshCopy, Busy, Loops, Number
<1>4. ServedAlone'
  <2>1. \A v \in Workers : Busy(v)' => Busy(v)
    BY <1>0 DEF Loops, Busy
  <2>2. QED BY <2>1 DEF TransfersInv, ServedAlone, Loops
<1>5. RowsTogether(t)'
  <2>1. RowsTogether(t) /\ received[t] \in Seq(Int) /\ received'[t] \in Seq(Int)
    BY <1>0, AsItIs DEF TransfersInv, RowsKept, RowsTogether, Loops
  <2>2. Len(received'[t]) = Len(received[t]) /\ (received'[t] = <<>> <=> received[t] = <<>>)
    BY <2>1, Elements DEF Loops
  <2>3. QED BY <2>1, <2>2 DEF RowsTogether, Loops, Number
<1>6. RowsMoved(t)'
  <2>1. ASSUME t \notin disturbed', NEW i \in 1..Number(t)
        PROVE  /\ \A v \in Workers : at'[v] = t => v = w
               /\ Recorded(t, i)' <=> Done(w, t, i)'
               /\ Done(w, t, i)' => moved'[t][i] = <<received'[t][i]>>
               /\ pc'[w] = "record" /\ i = next'[w] => moved'[t][i] = <<qty'[w]>>
               /\ ~Done(w, t, i)' =>
                    ((pc'[w] = "record" => i # next'[w]) => moved'[t][i] = <<>>)
    <3>1. t \notin disturbed
      BY <2>1 DEF Loops
    <3>2. \A v \in Workers : at'[v] = t => v = w
      BY <1>0, <3>1, Held DEF Loops
    <3>3. Recorded(t, i)' <=> Done(w, t, i)'
      BY <1>1, <1>0, <3>2 DEF Recorded, Done
    <3>4. LeavesMoved(w, t)'
      BY <3>1
    <3>5. QED BY <3>2, <3>3, <3>4 DEF LeavesMoved, Number
  <2>2. QED BY <1>0, <1>1, <2>1 DEF RowsMoved, Number
<1>7. QED BY <1>1, <1>2, <1>3, <1>4, <1>5, <1>6, StepsTransfers

\* The loop goes on, or the status is saved.
LEMMA EndItemIs ==
  ASSUME TypeOK, NEW w \in Workers, next[w] \in 1..todo[w], NEW c \in {"reserve", "release"},
         EndItem(w, c)
  PROVE  /\ pc' \in [Workers -> {"idle", "refuse", "reserve", "release", "move", "record", "save"}]
         /\ next' \in [Workers -> Nat \ {0}]
         /\ \A v \in Workers \ {w} : pc'[v] = pc[v] /\ next'[v] = next[v]
         /\ \/ next[w] < todo[w] /\ next'[w] = next[w] + 1 /\ pc'[w] = c
            \/ next[w] = todo[w] /\ next'[w] = next[w] /\ pc'[w] = "save"
<1>1. next[w] \in Nat \ {0} /\ todo[w] \in Nat /\ next[w] <= todo[w]
  BY DEF TypeOK
<1>2. CASE next[w] < todo[w]
  <2>1. next' = [next EXCEPT ![w] = next[w] + 1] /\ pc' = [pc EXCEPT ![w] = c]
    BY <1>2 DEF EndItem
  <2>2. next[w] + 1 \in Nat \ {0}
    BY <1>1
  <2>3. next' \in [Workers -> Nat \ {0}] /\ next'[w] = next[w] + 1
        /\ \A v \in Workers \ {w} : next'[v] = next[v]
    BY <2>1, <2>2 DEF TypeOK
  <2>4. QED BY <1>2, <2>1, <2>3 DEF TypeOK
<1>3. CASE next[w] = todo[w]
  <2>1. next' = next /\ pc' = [pc EXCEPT ![w] = "save"]
    BY <1>1, <1>3 DEF EndItem
  <2>2. QED BY <1>3, <2>1 DEF TypeOK
<1>4. QED BY <1>1, <1>2, <1>3

\* What the request of w is at while it goes through the items.
LEMMA LoopingHolds ==
  ASSUME TransfersInv, NEW w \in Workers, Looping(w)
  PROVE  /\ TypeOK /\ Busy(w) /\ at[w] \in Transfers
         /\ todo[w] = Number(at[w]) /\ next[w] \in 1..todo[w] /\ next[w] \in 1..Number(at[w])
         /\ pc[w] = "reserve" => serving[w] = "confirm" /\ object[w] = "draft"
         /\ pc[w] = "release" => serving[w] \in {"receive", "cancel"} /\ object[w] = "in_transit"
         /\ pc[w] \in {"move", "record"} => serving[w] = "receive" /\ object[w] = "in_transit"
         /\ at[w] \notin disturbed => status[at[w]] = object[w]
         /\ way[w] \in Route /\ (at[w] \notin disturbed => way[w] = route[at[w]])
<1>1. Busy(w) /\ RequestHolds(w) /\ FreshCopy(w) /\ TypeOK
  BY Held DEF Looping, Busy, TransfersInv
<1>2. QED BY <1>1 DEF RequestHolds, FreshCopy

\* The items a request is done with once it has ended one.
LEMMA EndItemFinishes ==
  ASSUME TypeOK, NEW w \in Workers, Looping(w), next[w] \in 1..todo[w],
         NEW c \in {"reserve", "release"}, EndItem(w, c), todo'[w] = todo[w]
  PROVE  Finished(w)' = Finished(w) \union {next[w]}
<1>1. next[w] \in Nat \ {0} /\ todo[w] \in Nat
  BY DEF TypeOK
<1>2. Finished(w) = 1..(next[w] - 1)
  BY DEF Finished, Looping
<1>3. CASE next[w] < todo[w] /\ next'[w] = next[w] + 1 /\ pc'[w] = c
  <2>1. Finished(w)' = 1..(next[w] + 1 - 1)
    BY <1>3 DEF Finished
  <2>2. QED BY <1>1, <1>2, <2>1
<1>4. CASE next[w] = todo[w] /\ next'[w] = next[w] /\ pc'[w] = "save"
  <2>1. Finished(w)' = 1..next[w]
    BY <1>4 DEF Finished
  <2>2. QED BY <1>1, <1>2, <2>1
<1>5. QED BY <1>3, <1>4, EndItemIs

LEMMA ReserveItemLoops ==
  ASSUME TransfersInv, NEW w \in Workers, ReserveItem(w)
  PROVE  Loops(w, at[w])
<1>0. Looping(w) /\ pc[w] = "reserve"
  BY DEF ReserveItem, Looping
<1>1. PICK t \in Transfers : t = at[w]
  BY <1>0, LoopingHolds
<1>2. /\ TypeOK /\ todo[w] = Number(t) /\ next[w] \in 1..todo[w] /\ next[w] \in 1..Number(t)
      /\ serving[w] = "confirm" /\ object[w] = "draft"
      /\ t \notin disturbed => status[t] = object[w]
      /\ way[w] \in Route
  BY <1>0, <1>1, LoopingHolds
<1>3. reserved' \in [Keys -> Nat] /\ onHand' = onHand
  <2>1. line(w).from \in Keys /\ line(w).qty \in Nat
    BY <1>0, <1>1, <1>2, LoopingHolds, LineTyped DEF line
  <2>2. QED BY <1>2, <2>1, ReserveIs DEF ReserveItem, TypeOK
<1>4. /\ pc' \in [Workers -> {"idle", "refuse", "reserve", "release", "move", "record", "save"}]
      /\ next' \in [Workers -> Nat \ {0}]
      /\ \A v \in Workers \ {w} : pc'[v] = pc[v] /\ next'[v] = next[v]
      /\ \/ next[w] < todo[w] /\ next'[w] = next[w] + 1 /\ pc'[w] = "reserve"
         \/ next[w] = todo[w] /\ next'[w] = next[w] /\ pc'[w] = "save"
  BY <1>2, EndItemIs DEF ReserveItem
<1>5. UNCHANGED <<status, route, load, received, serving, at, object, way, todo, qty, moved,
                disturbed>>
  BY DEF ReserveItem, tables, history
<1>6. Loops(w, t)
  BY <1>0, <1>1, <1>2, <1>3, <1>4, <1>5 DEF Loops, TypeOK
<1>7. QED BY <1>1, <1>6

LEMMA ReserveItemStep ==
  ASSUME TransfersInv, NEW w \in Workers, ReserveItem(w)
  PROVE  TransfersInv'
<1>0. Looping(w) /\ pc[w] = "reserve"
  BY DEF ReserveItem, Looping
<1>1. PICK t \in Transfers : t = at[w]
  BY <1>0, LoopingHolds
<1>2. /\ TypeOK /\ todo[w] = Number(t) /\ next[w] \in 1..todo[w] /\ next[w] \in 1..Number(t)
      /\ serving[w] = "confirm" /\ object[w] = "draft"
      /\ t \notin disturbed => status[t] = object[w]
      /\ way[w] \in Route
  BY <1>0, <1>1, LoopingHolds
<1>4. /\ pc' \in [Workers -> {"idle", "refuse", "reserve", "release", "move", "record", "save"}]
      /\ next' \in [Workers -> Nat \ {0}]
      /\ \A v \in Workers \ {w} : pc'[v] = pc[v] /\ next'[v] = next[v]
      /\ \/ next[w] < todo[w] /\ next'[w] = next[w] + 1 /\ pc'[w] = "reserve"
         \/ next[w] = todo[w] /\ next'[w] = next[w] /\ pc'[w] = "save"
  BY <1>2, EndItemIs DEF ReserveItem
<1>5. UNCHANGED <<status, route, load, received, serving, at, object, way, todo, qty, moved,
                disturbed>>
  BY DEF ReserveItem, tables, history
<1>6. Loops(w, t)
  BY <1>1, ReserveItemLoops
<1>7. next'[w] \in 1..todo[w] /\ pc'[w] \in {"reserve", "save"}
  BY <1>2, <1>4 DEF TypeOK
<1>8. RequestHolds(w)'
  BY <1>1, <1>2, <1>5, <1>7 DEF RequestHolds, Busy, Looping, Allowed, Number
<1>9. ASSUME t \notin disturbed PROVE LeavesMoved(w, t)'
  <2>1. ASSUME NEW i \in 1..Number(t) PROVE ~Done(w, t, i) /\ ~Done(w, t, i)' /\ moved[t][i] = <<>>
    <3>1. ~MovesRows(w) /\ ~MovesRows(w)' /\ status[t] # "received"
      BY <1>2, <1>5, <1>9 DEF MovesRows
    <3>2. ~Done(w, t, i) /\ ~Done(w, t, i)'
      BY <1>5, <3>1 DEF Done
    <3>3. QED BY <1>0, <1>1, <1>9, <3>2, LoopingHolds, MovedAlone
  <2>2. QED BY <1>5, <1>7, <2>1 DEF LeavesMoved, Number
<1>10. QED BY <1>6, <1>7, <1>8, <1>9, LoopsTransfers

LEMMA ReleaseItemLoops ==
  ASSUME TransfersInv, NEW w \in Workers, ReleaseItem(w)
  PROVE  Loops(w, at[w])
<1>0. Looping(w) /\ pc[w] = "release"
  BY DEF ReleaseItem, Looping
<1>1. PICK t \in Transfers : t = at[w]
  BY <1>0, LoopingHolds
<1>2. /\ TypeOK /\ todo[w] = Number(t) /\ next[w] \in 1..todo[w] /\ next[w] \in 1..Number(t)
      /\ serving[w] \in {"receive", "cancel"} /\ object[w] = "in_transit"
      /\ t \notin disturbed => status[t] = object[w]
      /\ way[w] \in Route
  BY <1>0, <1>1, LoopingHolds
<1>3. reserved' \in [Keys -> Nat] /\ onHand' = onHand
  <2>1. line(w).from \in Keys /\ line(w).qty \in Nat
    BY <1>0, <1>1, <1>2, LoopingHolds, LineTyped DEF line
  <2>2. QED BY <1>2, <2>1, ReleaseIs DEF ReleaseItem, TypeOK
<1>4. UNCHANGED <<status, route, load, received, serving, at, object, way, todo, qty, moved,
                disturbed>>
  BY DEF ReleaseItem, tables, history
<1>5. CASE serving[w] = "receive"
  <2>1. pc' = [pc EXCEPT ![w] = "move"] /\ next' = next
    BY <1>5 DEF ReleaseItem
  <2>2. QED BY <1>0, <1>1, <1>2, <1>3, <1>4, <2>1 DEF Loops, TypeOK
<1>6. CASE serving[w] = "cancel"
  <2>1. EndItem(w, "release")
    BY <1>6 DEF ReleaseItem
  <2>2. /\ pc' \in [Workers -> {"idle", "refuse", "reserve", "release", "move", "record", "save"}]
        /\ next' \in [Workers -> Nat \ {0}]
        /\ \A v \in Workers \ {w} : pc'[v] = pc[v] /\ next'[v] = next[v]
    BY <1>2, <2>1, EndItemIs
  <2>3. QED BY <1>0, <1>1, <1>2, <1>3, <1>4, <2>2 DEF Loops, TypeOK
<1>7. QED BY <1>2, <1>5, <1>6

LEMMA ReleaseItemStep ==
  ASSUME TransfersInv, NEW w \in Workers, ReleaseItem(w)
  PROVE  TransfersInv'
<1>0. Looping(w) /\ pc[w] = "release"
  BY DEF ReleaseItem, Looping
<1>1. PICK t \in Transfers : t = at[w]
  BY <1>0, LoopingHolds
<1>2. /\ TypeOK /\ todo[w] = Number(t) /\ next[w] \in 1..todo[w] /\ next[w] \in 1..Number(t)
      /\ serving[w] \in {"receive", "cancel"} /\ object[w] = "in_transit"
      /\ t \notin disturbed => status[t] = object[w]
      /\ way[w] \in Route
  BY <1>0, <1>1, LoopingHolds
<1>4. UNCHANGED <<status, route, load, received, serving, at, object, way, todo, qty, moved,
                disturbed>>
  BY DEF ReleaseItem, tables, history
<1>5. CASE serving[w] = "receive"
  <2>1. pc' = [pc EXCEPT ![w] = "move"] /\ next' = next
    BY <1>5 DEF ReleaseItem
  <2>2. Loops(w, t) /\ pc'[w] = "move"
    BY <1>1, <1>2, <2>1, ReleaseItemLoops DEF TypeOK
  <2>3. RequestHolds(w)'
    BY <1>1, <1>2, <1>4, <1>5, <2>1, <2>2 DEF RequestHolds, Busy, Looping, Number
  <2>4. ASSUME t \notin disturbed PROVE LeavesMoved(w, t)'
    <3>1. Finished(w)' = Finished(w) /\ MovesRows(w)' = MovesRows(w)
      BY <1>0, <1>4, <2>1, <2>2 DEF Finished, MovesRows, Busy
    <3>2. ASSUME NEW i \in 1..Number(t)
          PROVE  /\ Done(w, t, i)' <=> Done(w, t, i)
                 /\ Done(w, t, i) => moved[t][i] = <<received[t][i]>>
                 /\ ~Done(w, t, i) => moved[t][i] = <<>>
      <4>1. Done(w, t, i)' <=> Done(w, t, i)
        BY <1>4, <3>1 DEF Done
      <4>2. QED BY <1>0, <1>1, <2>4, <4>1, LoopingHolds, MovedAlone
    <3>3. QED BY <1>4, <2>2, <3>2 DEF LeavesMoved, Number
  <2>5. QED BY <2>2, <2>3, <2>4, LoopsTransfers
<1>6. CASE serving[w] = "cancel"
  <2>1. EndItem(w, "release")
    BY <1>6 DEF ReleaseItem
  <2>2. \/ next[w] < todo[w] /\ next'[w] = next[w] + 1 /\ pc'[w] = "release"
        \/ next[w] = todo[w] /\ next'[w] = next[w] /\ pc'[w] = "save"
    BY <1>2, <2>1, EndItemIs
  <2>3. Loops(w, t)
    BY <1>1, ReleaseItemLoops
  <2>4. next'[w] \in 1..todo[w] /\ pc'[w] \in {"release", "save"}
    BY <1>2, <2>2 DEF TypeOK
  <2>5. RequestHolds(w)'
    BY <1>1, <1>2, <1>4, <1>6, <2>4 DEF RequestHolds, Busy, Looping, Allowed, Number
  <2>6. ASSUME t \notin disturbed PROVE LeavesMoved(w, t)'
    <3>1. ASSUME NEW i \in 1..Number(t) PROVE ~Done(w, t, i)' /\ moved[t][i] = <<>>
      <4>1. ~MovesRows(w) /\ ~MovesRows(w)' /\ status[t] # "received"
        BY <1>2, <1>4, <1>6, <2>6 DEF MovesRows
      <4>2. ~Done(w, t, i) /\ ~Done(w, t, i)'
        BY <1>4, <4>1 DEF Done
      <4>3. QED BY <1>0, <1>1, <2>6, <4>2, LoopingHolds, MovedAlone
    <3>2. QED BY <1>4, <2>4, <3>1 DEF LeavesMoved, Number
  <2>7. QED BY <2>3, <2>4, <2>5, <2>6, LoopsTransfers
<1>7. QED BY <1>2, <1>5, <1>6

LEMMA MoveItemLoops ==
  ASSUME TransfersInv, NEW w \in Workers, NEW q \in Quantities(line(w)), MoveItem(w, q)
  PROVE  /\ Loops(w, at[w]) /\ pc'[w] = "record" /\ qty'[w] = q /\ reserved' = reserved
         /\ moved'[at[w]][next[w]] = Append(moved[at[w]][next[w]], q)
         /\ \A j \in 1..Number(at[w]) : j # next[w] => moved'[at[w]][j] = moved[at[w]][j]
<1>0. Looping(w) /\ pc[w] = "move"
  BY DEF MoveItem, Looping
<1>1. PICK t \in Transfers : t = at[w]
  BY <1>0, LoopingHolds
<1>2. PICK n \in Nat \ {0} : n = next[w]
  BY <1>0, LoopingHolds DEF TypeOK
<1>3. /\ TypeOK /\ todo[w] = Number(t) /\ n \in 1..todo[w] /\ n \in 1..Number(t)
      /\ serving[w] = "receive" /\ object[w] = "in_transit"
      /\ t \notin disturbed => status[t] = object[w]
      /\ way[w] \in Route
  BY <1>0, <1>1, <1>2, LoopingHolds
<1>4. q \in Int
  <2>1. line(w).qty \in Int
    BY <1>0, <1>1, <1>2, <1>3, LoopingHolds, LineTyped DEF line
  <2>2. load.given \subseteq Int
    BY <1>3, TransfersAssumption DEF TypeOK
  <2>3. QED BY <2>1, <2>2 DEF Quantities
<1>5. onHand' \in [Keys -> Int] /\ reserved' = reserved
  <2> DEFINE batch == TransferBatch(line(w), q)
  <2>1. DOMAIN batch = 1..2 /\ \A i \in 1..2 : batch[i].qty \in Int
    BY <1>4 DEF TransferBatch
  <2>2. Stock!Post(batch) /\ onHand \in [Keys -> Int]
    BY <1>3 DEF MoveItem, TypeOK
  <2> HIDE DEF batch
  <2>3. QED BY <2>1, <2>2, PostTyped
<1>6. /\ qty' = [qty EXCEPT ![w] = q] /\ pc' = [pc EXCEPT ![w] = "record"]
      /\ UNCHANGED <<status, route, received, load, serving, at, object, way, todo, next,
                     disturbed>>
  BY DEF MoveItem, tables
<1> DEFINE z == [moved[t] EXCEPT ![n] = Append(moved[t][n], q)]
<1>7. moved' = [moved EXCEPT ![t] = z]
  BY <1>1, <1>2 DEF MoveItem
<1>8. /\ z \in Seq(Seq(Int)) /\ Len(z) = Len(moved[t]) /\ z[n] = Append(moved[t][n], q)
      /\ \A j \in 1..Len(moved[t]) : j # n => z[j] = moved[t][j]
      /\ Len(moved[t]) = Number(t)
  <2>1. moved[t] \in Seq(Seq(Int)) /\ Len(moved[t]) = Number(t)
    BY <1>3 DEF TransfersInv, RowsKept, TypeOK
  <2> DEFINE S == Seq(Int)
             e == Append(moved[t][n], q)
  <2>2. moved[t][n] \in S
    <3> HIDE DEF S
    <3>1. moved[t] \in Seq(S)
      BY <2>1 DEF S
    <3>2. QED BY <1>3, <2>1, <3>1, Elements
  <2>3. e \in S
    BY <1>4, <2>2
  <2>4. moved[t] \in Seq(S) /\ z = [moved[t] EXCEPT ![n] = e] /\ n \in 1..Len(moved[t])
    BY <1>3, <2>1
  <2> HIDE DEF S, e, z
  <2>5. z \in Seq(S) /\ Len(z) = Len(moved[t]) /\ z[n] = e
        /\ \A j \in 1..Len(moved[t]) : j # n => z[j] = moved[t][j]
    BY <2>3, <2>4, Replaced
  <2>6. QED BY <2>1, <2>5 DEF S, e
<1> HIDE DEF z
<1>9. Loops(w, t) /\ pc'[w] = "record" /\ moved'[t] = z /\ qty'[w] = q
  BY <1>0, <1>1, <1>3, <1>4, <1>5, <1>6, <1>7, <1>8 DEF Loops, TypeOK
<1>10. QED BY <1>1, <1>2, <1>5, <1>8, <1>9

LEMMA MoveItemStep ==
  ASSUME TransfersInv, NEW w \in Workers, NEW q \in Quantities(line(w)), MoveItem(w, q)
  PROVE  TransfersInv'
<1>0. Looping(w) /\ pc[w] = "move"
  BY DEF MoveItem, Looping
<1>1. PICK t \in Transfers : t = at[w]
  BY <1>0, LoopingHolds
<1>2. PICK n \in Nat \ {0} : n = next[w]
  BY <1>0, LoopingHolds DEF TypeOK
<1>3. /\ TypeOK /\ todo[w] = Number(t) /\ n \in 1..todo[w] /\ n \in 1..Number(t)
      /\ serving[w] = "receive" /\ object[w] = "in_transit"
      /\ t \notin disturbed => status[t] = object[w]
      /\ way[w] \in Route
  BY <1>0, <1>1, <1>2, LoopingHolds
<1>4. /\ qty' = [qty EXCEPT ![w] = q] /\ pc' = [pc EXCEPT ![w] = "record"]
      /\ UNCHANGED <<status, route, received, load, serving, at, object, way, todo, next,
                     disturbed>>
  BY DEF MoveItem, tables
<1>5. /\ Loops(w, t) /\ pc'[w] = "record" /\ qty'[w] = q
      /\ moved'[t][n] = Append(moved[t][n], q)
      /\ \A j \in 1..Number(t) : j # n => moved'[t][j] = moved[t][j]
  BY <1>1, <1>2, MoveItemLoops
<1>6. RequestHolds(w)'
  BY <1>1, <1>2, <1>3, <1>4, <1>5 DEF RequestHolds, Busy, Looping, Number
<1>7. ASSUME t \notin disturbed PROVE LeavesMoved(w, t)'
  <2>1. Finished(w)' = Finished(w) /\ MovesRows(w)' = MovesRows(w) /\ n \notin Finished(w)
    BY <1>0, <1>2, <1>4, <1>5 DEF Finished, MovesRows, Busy
  <2>2. ASSUME NEW i \in 1..Number(t)
        PROVE  /\ Done(w, t, i)' <=> Done(w, t, i)
               /\ Done(w, t, i) => moved[t][i] = <<received[t][i]>>
               /\ ~Done(w, t, i) => moved[t][i] = <<>>
               /\ Done(w, t, i) => i # n
    <3>1. Done(w, t, i)' <=> Done(w, t, i)
      BY <1>4, <2>1 DEF Done
    <3>2. Done(w, t, i) => i # n
      BY <1>3, <1>7, <2>1 DEF Done
    <3>3. Busy(w)
      BY <1>0, LoopingHolds
    <3>4. /\ Done(w, t, i) => moved[t][i] = <<received[t][i]>>
          /\ ~Done(w, t, i) => ((pc[w] = "record" => i # next[w]) => moved[t][i] = <<>>)
      BY <1>1, <1>7, <3>3, MovedAlone
    <3>5. QED BY <1>0, <3>1, <3>2, <3>4
  <2>3. moved'[t][n] = <<q>>
    <3>1. ~Done(w, t, n)
      BY <1>3, <2>2
    <3>2. moved[t][n] = <<>>
      BY <1>3, <2>2, <3>1
    <3>3. QED BY <1>5, <3>2
  <2>4. ASSUME NEW i \in 1..Number(t)
        PROVE  /\ Done(w, t, i)' => moved'[t][i] = <<received'[t][i]>>
               /\ pc'[w] = "record" /\ i = next'[w] => moved'[t][i] = <<qty'[w]>>
               /\ ~Done(w, t, i)' =>
                    ((pc'[w] = "record" => i # next'[w]) => moved'[t][i] = <<>>)
    <3>1. next'[w] = n /\ received' = received
      BY <1>2, <1>4
    <3>2. CASE i = n
      BY <1>5, <2>2, <2>3, <3>1, <3>2
    <3>3. CASE i # n
      BY <1>5, <2>2, <3>1, <3>3
    <3>4. QED BY <3>2, <3>3
  <2>5. QED BY <2>4 DEF LeavesMoved, Number
<1>8. QED BY <1>5, <1>6, <1>7, LoopsTransfers

LEMMA RecordItemLoops ==
  ASSUME TransfersInv, NEW w \in Workers, RecordItem(w)
  PROVE  /\ Loops(w, at[w]) /\ pc'[w] \in {"release", "save"} /\ reserved' = reserved
         /\ next'[w] \in 1..todo[w] /\ received'[at[w]][next[w]] = qty[w]
         /\ \A j \in 1..Number(at[w]) : j # next[w] => received'[at[w]][j] = received[at[w]][j]
<1>0. Looping(w) /\ pc[w] = "record"
  BY DEF RecordItem, Looping
<1>1. PICK t \in Transfers : t = at[w]
  BY <1>0, LoopingHolds
<1>2. PICK n \in Nat \ {0} : n = next[w]
  BY <1>0, LoopingHolds DEF TypeOK
<1>3. /\ TypeOK /\ todo[w] = Number(t) /\ n \in 1..todo[w] /\ n \in 1..Number(t)
      /\ serving[w] = "receive" /\ object[w] = "in_transit"
      /\ t \notin disturbed => status[t] = object[w]
      /\ way[w] \in Route
  BY <1>0, <1>1, <1>2, LoopingHolds
<1>4. EndItem(w, "release") /\ received[t] # <<>>
      /\ UNCHANGED <<status, route, load, onHand, reserved, serving, at, object, way, todo, qty,
                     moved, disturbed>>
  BY <1>1 DEF RecordItem, stock, history
<1>5. /\ pc' \in [Workers -> {"idle", "refuse", "reserve", "release", "move", "record", "save"}]
      /\ next' \in [Workers -> Nat \ {0}]
      /\ \A v \in Workers \ {w} : pc'[v] = pc[v] /\ next'[v] = next[v]
      /\ \/ next[w] < todo[w] /\ next'[w] = next[w] + 1 /\ pc'[w] = "release"
         \/ next[w] = todo[w] /\ next'[w] = next[w] /\ pc'[w] = "save"
  BY <1>2, <1>3, <1>4, EndItemIs
<1> DEFINE z == [received[t] EXCEPT ![n] = qty[w]]
<1>6. received' = [received EXCEPT ![t] = z]
  BY <1>1, <1>2 DEF RecordItem
<1>7. /\ z \in Seq(Int) /\ Len(z) = Len(received[t]) /\ z[n] = qty[w]
      /\ \A j \in 1..Len(received[t]) : j # n => z[j] = received[t][j]
      /\ Len(received[t]) = Number(t)
  <2>1. received[t] \in Seq(Int) /\ Len(received[t]) = Number(t) /\ qty[w] \in Int
    BY <1>3, <1>4, AsItIs DEF TypeOK
  <2>2. QED BY <1>3, <2>1, Replaced
<1> HIDE DEF z
<1>8. Loops(w, t) /\ received'[t] = z
  BY <1>0, <1>1, <1>3, <1>4, <1>5, <1>6, <1>7 DEF Loops, TypeOK
<1>9. next'[w] \in 1..todo[w] /\ pc'[w] \in {"release", "save"}
  BY <1>2, <1>3, <1>5 DEF TypeOK
<1>10. QED BY <1>1, <1>2, <1>4, <1>7, <1>8, <1>9

LEMMA RecordItemStep ==
  ASSUME TransfersInv, NEW w \in Workers, RecordItem(w)
  PROVE  TransfersInv'
<1>0. Looping(w) /\ pc[w] = "record"
  BY DEF RecordItem, Looping
<1>1. PICK t \in Transfers : t = at[w]
  BY <1>0, LoopingHolds
<1>2. PICK n \in Nat \ {0} : n = next[w]
  BY <1>0, LoopingHolds DEF TypeOK
<1>3. /\ TypeOK /\ todo[w] = Number(t) /\ n \in 1..todo[w] /\ n \in 1..Number(t)
      /\ serving[w] = "receive" /\ object[w] = "in_transit"
      /\ t \notin disturbed => status[t] = object[w]
      /\ way[w] \in Route
  BY <1>0, <1>1, <1>2, LoopingHolds
<1>4. EndItem(w, "release") /\ received[t] # <<>>
      /\ UNCHANGED <<status, route, load, onHand, reserved, serving, at, object, way, todo, qty,
                     moved, disturbed>>
  BY <1>1 DEF RecordItem, stock, history
<1>5. /\ Loops(w, t) /\ pc'[w] \in {"release", "save"} /\ next'[w] \in 1..todo[w]
      /\ received'[t][n] = qty[w]
      /\ \A j \in 1..Number(t) : j # n => received'[t][j] = received[t][j]
  BY <1>1, <1>2, RecordItemLoops
<1>6. RequestHolds(w)'
  BY <1>1, <1>3, <1>4, <1>5 DEF RequestHolds, Busy, Looping, Allowed, Number
<1>7. ASSUME t \notin disturbed PROVE LeavesMoved(w, t)'
  <2>1. Finished(w)' = Finished(w) \union {n} /\ MovesRows(w)' /\ MovesRows(w) /\ n \notin Finished(w)
    <3>1. Finished(w)' = Finished(w) \union {n}
      BY <1>0, <1>2, <1>3, <1>4, EndItemFinishes
    <3>2. QED BY <1>0, <1>2, <1>3, <1>4, <1>5, <3>1 DEF MovesRows, Busy, Finished
  <2>2. ASSUME NEW i \in 1..Number(t)
        PROVE  /\ Done(w, t, i)' <=> i \in Finished(w) \union {n}
               /\ Done(w, t, i) <=> i \in Finished(w)
               /\ Done(w, t, i) => moved[t][i] = <<received[t][i]>>
               /\ i = n => moved[t][i] = <<qty[w]>>
               /\ ~Done(w, t, i) => (i # n => moved[t][i] = <<>>)
    <3>1. status[t] # "received" /\ status' = status
      BY <1>3, <1>4, <1>7
    <3>2. (Done(w, t, i)' <=> i \in Finished(w) \union {n}) /\ (Done(w, t, i) <=> i \in Finished(w))
      BY <2>1, <3>1 DEF Done
    <3>3. /\ Done(w, t, i) => moved[t][i] = <<received[t][i]>>
          /\ pc[w] = "record" /\ i = next[w] => moved[t][i] = <<qty[w]>>
          /\ ~Done(w, t, i) => ((pc[w] = "record" => i # next[w]) => moved[t][i] = <<>>)
      <4>1. Busy(w)
        BY <1>0, LoopingHolds
      <4>2. QED BY <1>1, <1>7, <4>1, MovedAlone
    <3>4. QED BY <1>0, <1>2, <3>2, <3>3
  <2>3. ASSUME NEW i \in 1..Number(t)
        PROVE  /\ Done(w, t, i)' => moved'[t][i] = <<received'[t][i]>>
               /\ ~Done(w, t, i)' => moved'[t][i] = <<>>
    <3>1. moved' = moved
      BY <1>4
    <3>2. CASE i = n
      BY <1>5, <2>2, <3>1, <3>2
    <3>3. CASE i # n
      BY <1>5, <2>2, <3>1, <3>3
    <3>4. QED BY <3>2, <3>3
  <2>4. QED BY <1>5, <2>3 DEF LeavesMoved, Number
<1>8. QED BY <1>5, <1>6, <1>7, LoopsTransfers

LEMMA AdjustStep ==
  ASSUME TransfersInv, NEW k \in Keys, NEW delta \in load.adjustments, Adjust(k, delta)
  PROVE  TransfersInv'
<1>0. TypeOK
  BY DEF TransfersInv
<1>1. delta \in Int
  BY <1>0, TransfersAssumption DEF TypeOK
<1>2. onHand' \in [Keys -> Int] /\ reserved' = reserved
  <2> DEFINE batch == <<[key |-> k, qty |-> delta]>>
  <2>1. DOMAIN batch = 1..1 /\ \A i \in 1..1 : batch[i].qty \in Int
    BY <1>1
  <2>2. Stock!Post(batch) /\ onHand \in [Keys -> Int]
    BY <1>0 DEF Adjust, TypeOK
  <2> HIDE DEF batch
  <2>3. QED BY <2>1, <2>2, PostTyped
<1>3. UNCHANGED <<tables, request, history>>
  BY DEF Adjust
<1>4. TypeOK'
  BY <1>0, <1>2, <1>3 DEF TypeOK, tables, request, history
<1>5. RowsKept' /\ RequestsHold' /\ ServedAlone' /\ FreshCopies'
  BY <1>3 DEF TransfersInv, RowsKept, RequestsHold, ServedAlone, FreshCopies, Busy, Looping,
     Allowed, Number, tables, request, history
<1>6. MovedOnce'
  <2>1. ASSUME NEW t \in Transfers PROVE RowsMoved(t)'
    <3>1. Untouched(t) /\ disturbed' = disturbed
      BY <1>3 DEF Untouched, tables, request, history
    <3>2. QED BY <3>1, AsItIs, UntouchedMoved
  <2>2. QED BY <2>1 DEF MovedOnce, RowsMoved
<1>7. QED BY <1>4, <1>5, <1>6 DEF TransfersInv

LEMMA StutterStep ==
  ASSUME TransfersInv, UNCHANGED vars
  PROVE  TransfersInv'
<1>1. TypeOK'
  BY DEF TransfersInv, TypeOK, vars, tables, stock, request, history
<1>2. RowsKept' /\ RequestsHold' /\ ServedAlone' /\ FreshCopies'
  BY DEF TransfersInv, RowsKept, RequestsHold, ServedAlone, FreshCopies, Busy, Looping,
     Allowed, Number, vars, tables, request, history
<1>3. MovedOnce'
  <2>1. ASSUME NEW t \in Transfers PROVE RowsMoved(t)'
    <3>1. Untouched(t) /\ disturbed' = disturbed
      BY DEF Untouched, vars, tables, request, history
    <3>2. QED BY <3>1, AsItIs, UntouchedMoved
  <2>2. QED BY <2>1 DEF MovedOnce, RowsMoved
<1>4. QED BY <1>1, <1>2, <1>3 DEF TransfersInv

LEMMA NextTransfers ==
  ASSUME TransfersInv, [Next]_vars
  PROVE  TransfersInv'
<1>1. ASSUME NEW w \in Workers, Act(w) PROVE TransfersInv'
  <2>1. CASE Refuse(w)
    BY <2>1, RefuseStep
  <2>2. CASE ReserveItem(w)
    BY <2>2, ReserveItemStep
  <2>3. CASE ReleaseItem(w)
    BY <2>3, ReleaseItemStep
  <2>4. ASSUME NEW q \in Quantities(line(w)), MoveItem(w, q) PROVE TransfersInv'
    BY <2>4, MoveItemStep
  <2>5. CASE RecordItem(w)
    BY <2>5, RecordItemStep
  <2>6. CASE SaveStatus(w)
    BY <2>6, SaveStatusStep
  <2>7. ASSUME NEW s \in load.edits \union {object[w]}, NEW r \in load.routes \union {way[w]},
               Update(w, s, r)
        PROVE  TransfersInv'
    BY <2>7, UpdateStep
  <2>8. CASE Destroy(w)
    BY <2>8, DestroyStep
  <2>9. QED BY <1>1, <2>1, <2>2, <2>3, <2>4, <2>5, <2>6, <2>7, <2>8 DEF Act
<1>2. ASSUME NEW w \in Workers, NEW h \in Handlers, NEW t \in Transfers, Fetch(w, h, t)
      PROVE  TransfersInv'
  BY <1>2, FetchStep
<1>3. ASSUME NEW w \in Workers, Abandon(w) PROVE TransfersInv'
  BY <1>3, AbandonStep
<1>4. ASSUME NEW k \in Keys, NEW delta \in load.adjustments, Adjust(k, delta) PROVE TransfersInv'
  BY <1>4, AdjustStep
<1>5. CASE UNCHANGED vars
  BY <1>5, StutterStep
<1>6. QED BY <1>1, <1>2, <1>3, <1>4, <1>5 DEF Next

-----------------------------------------------------------------------------
(* The reservations.                                                       *)

\* Rows that hold what they held, of the key they held it of, hold the same sum.
LEMMA SameRows ==
  ASSUME \A r \in ItemRows : (Holds(r)' <=> Holds(r)) /\ (Holds(r) => KeyOf(r)' = KeyOf(r)), NEW k
  PROVE  Holding(k)' = Holding(k)
<1> DEFINE f == [r \in ItemRows |-> IF Holds(r) /\ KeyOf(r) = k THEN QtyOf(r) ELSE 0]
           g == [r \in ItemRows |-> IF Holds(r)' /\ KeyOf(r)' = k THEN QtyOf(r) ELSE 0]
<1>1. g = f
  OBVIOUS
<1>2. Holding(k) = SumFunctionOnSet(f, ItemRows)
  BY DEF Holding
<1>3. Holding(k)' = SumFunctionOnSet(g, ItemRows)
  BY DEF Holding, QtyOf
<1>4. QED BY <1>1, <1>2, <1>3

\* One row that starts or stops to hold its quantity changes the sum of its key.
LEMMA OneRow ==
  ASSUME NEW o \in ItemRows, \A r \in ItemRows : r # o => (Holds(r)' <=> Holds(r)), NEW k,
         \A r \in ItemRows : KeyOf(r)' = KeyOf(r), Holds(o)' <=> ~Holds(o)
  PROVE  /\ Holding(k) \in Nat /\ Holding(k)' \in Nat
         /\ KeyOf(o) # k => Holding(k)' = Holding(k)
         /\ KeyOf(o) = k =>
              Holding(k)' = IF Holds(o) THEN Holding(k) - QtyOf(o) ELSE Holding(k) + QtyOf(o)
<1> DEFINE f == [r \in ItemRows |-> IF Holds(r) /\ KeyOf(r) = k THEN QtyOf(r) ELSE 0]
           g == [r \in ItemRows |-> IF Holds(r)' /\ KeyOf(r)' = k THEN QtyOf(r) ELSE 0]
           S == ItemRows
           q == QtyOf(o)
<1>1. Holding(k) = SumFunctionOnSet(f, S) /\ Holding(k)' = SumFunctionOnSet(g, S)
  BY DEF Holding, QtyOf
<1>2. IsFiniteSet(S) /\ o \in S
  BY RowsFinite
<1>3. /\ \A r \in S : f[r] \in Nat /\ g[r] \in Nat /\ f[r] \in Int /\ g[r] \in Int
      /\ \A r \in S \ {o} : g[r] = f[r]
      /\ KeyOf(o) = k =>
           f[o] = (IF Holds(o) THEN q ELSE 0) /\ g[o] = (IF Holds(o) THEN 0 ELSE q)
      /\ KeyOf(o) # k => f[o] = 0 /\ g[o] = 0
      /\ q \in Nat
  <2>1. \A r \in ItemRows : QtyOf(r) \in Nat
    BY RowIs
  <2>2. QED BY <1>2, <2>1
<1> HIDE DEF f, g, S, q
<1>4. SumFunctionOnSet(f, S) \in Nat /\ SumFunctionOnSet(g, S) \in Nat
  BY <1>2, <1>3, SumNat
<1>5. CASE KeyOf(o) # k
  <2>1. \A r \in S : g[r] = f[r]
    BY <1>3, <1>5
  <2>2. SumFunctionOnSet(g, S) = SumFunctionOnSet(f, S)
    BY <1>2, <2>1, SumSame
  <2>3. QED BY <1>1, <1>2, <1>4, <1>5, <2>2
<1>6. CASE KeyOf(o) = k
  <2>1. SumFunctionOnSet(g, S) = SumFunctionOnSet(f, S) + (g[o] - f[o])
    <3>1. /\ \A y \in S : f[y] \in Int /\ g[y] \in Int
          /\ \A y \in S \ {o} : g[y] = f[y]
      BY <1>3
    <3>2. IsFiniteSet(S)
      BY <1>2
    <3>3. QED BY ONLY <1>2, <3>1, <3>2, SumChange
  <2>2. QED BY <1>1, <1>2, <1>3, <1>4, <1>6, <2>1 DEF q
<1>7. QED BY <1>5, <1>6

\* What a row holds when only the request of w serves its transfer, and when no
\* request does.
HeldBy(w, r) ==
  \/ status[r[1]] = "in_transit" /\ (Releasing(w) => r[2] \notin Called(w))
  \/ Reserving(w) /\ r[2] \in Called(w)

LEMMA HoldsAlone ==
  ASSUME NEW w \in Workers, NEW r, at[w] = r[1], \A v \in Workers \ {w} : at[v] # r[1]
  PROVE  Holds(r) <=> HeldBy(w, r)
BY DEF Holds, HeldBy

LEMMA HoldsAloneNext ==
  ASSUME NEW w \in Workers, NEW r, at'[w] = r[1], \A v \in Workers \ {w} : at'[v] # r[1]
  PROVE  Holds(r)' <=> HeldBy(w, r)'
BY DEF Holds, HeldBy

LEMMA HoldsUnserved ==
  ASSUME NEW r, \A v \in Workers : at[v] # r[1]
  PROVE  Holds(r) <=> status[r[1]] = "in_transit"
BY DEF Holds

LEMMA HoldsUnservedNext ==
  ASSUME NEW r, \A v \in Workers : at'[v] # r[1]
  PROVE  Holds(r)' <=> status'[r[1]] = "in_transit"
BY DEF Holds

LEMMA SameReserved ==
  ASSUME ReservedIsHeld, disturbed = {}, reserved' = reserved,
         \A r \in ItemRows : (Holds(r)' <=> Holds(r)) /\ (Holds(r) => KeyOf(r)' = KeyOf(r))
  PROVE  ReservedIsHeld'
<1>1. \A k \in Keys : Holding(k)' = Holding(k)
  BY SameRows
<1>2. QED BY <1>1 DEF ReservedIsHeld

\* The end of a request that leaves every row of its transfer as it was.
LEMMA EndsReserved ==
  ASSUME TransfersInv, ReservedIsHeld, disturbed = {},
         NEW w, NEW t, NEW s, NEW quantities, Ends(w, t, s, quantities),
         \A i \in 1..Number(t) : HeldBy(w, <<t, i>>) <=> s = "in_transit",
         s = "in_transit" => route'[t].from = route[t].from
  PROVE  ReservedIsHeld'
<1>0. TypeOK /\ w \in Workers /\ at[w] = t /\ Busy(w) /\ t \in Transfers /\ reserved' = reserved
  BY DEF TransfersInv, Ends, stock
<1>1. /\ \A u \in Transfers \ {t} : Untouched(u)
      /\ \A v \in Workers \ {w} : at'[v] = at[v]
      /\ at'[w] = NoTransfer /\ status'[t] = s
  BY <1>0, EndsTouch
<1>2. \A v \in Workers \ {w} : at[v] # t
  BY <1>0, Held
<1>3. ASSUME NEW r \in ItemRows
      PROVE  (Holds(r)' <=> Holds(r)) /\ (Holds(r) => KeyOf(r)' = KeyOf(r))
  <2>1. CASE r[1] # t
    BY <1>1, <2>1, RowIs, UntouchedHolds
  <2>2. CASE r[1] = t
    <3>1. HeldBy(w, r) <=> s = "in_transit"
      BY <2>2, RowIs
    <3>2. Holds(r) <=> HeldBy(w, r)
      BY <1>0, <1>2, <2>2, HoldsAlone
    <3>3. \A v \in Workers : at'[v] # r[1]
      BY <1>0, <1>1, <1>2, <2>2, TransfersAssumption
    <3>4. Holds(r)' <=> s = "in_transit"
      BY <1>1, <2>2, <3>3, HoldsUnservedNext
    <3>5. s = "in_transit" => KeyOf(r)' = KeyOf(r)
      BY <2>2 DEF KeyOf, LineOf
    <3>6. QED BY <3>1, <3>2, <3>4, <3>5
  <2>3. QED BY <2>1, <2>2
<1>4. QED BY <1>0, <1>3, SameReserved

\* What a request has called for before, within and after an item.
LEMMA CalledIs ==
  ASSUME TypeOK, NEW w \in Workers, Looping(w)
  PROVE  /\ next[w] \in Nat \ {0}
         /\ pc[w] \in {"reserve", "release"} => Called(w) = 1..(next[w] - 1)
         /\ pc[w] \in {"move", "record"} => Called(w) = 1..next[w]
<1>1. next[w] \in Nat \ {0}
  BY DEF TypeOK
<1>2. Called(w) = {i \in 1..next[w] : i = next[w] => pc[w] \in {"move", "record"}}
  BY DEF Called, Looping
<1>3. QED BY <1>1, <1>2

LEMMA CalledNext ==
  ASSUME TypeOK, NEW w \in Workers, next[w] \in 1..todo[w], todo'[w] = todo[w],
         \/ pc'[w] = "move" /\ next'[w] = next[w]
         \/ pc'[w] = "record" /\ next'[w] = next[w]
         \/ next[w] < todo[w] /\ next'[w] = next[w] + 1 /\ pc'[w] \in {"reserve", "release"}
         \/ next[w] = todo[w] /\ next'[w] = next[w] /\ pc'[w] = "save"
  PROVE  Called(w)' = 1..next[w]
<1>1. next[w] \in Nat \ {0}
  BY DEF TypeOK
<1>2. CASE pc'[w] \in {"move", "record"} /\ next'[w] = next[w]
  <2>1. Called(w)' = {i \in 1..next[w] : i = next[w] => TRUE}
    BY <1>2 DEF Called
  <2>2. QED BY <2>1
<1>3. CASE next'[w] = next[w] + 1 /\ pc'[w] \in {"reserve", "release"}
  <2>1. Called(w)' = {i \in 1..(next[w] + 1) : i # next[w] + 1}
    BY <1>3 DEF Called
  <2>2. QED BY <1>1, <2>1
<1>4. CASE next[w] = todo[w] /\ pc'[w] = "save"
  BY <1>4 DEF Called
<1>5. QED BY <1>2, <1>3, <1>4

\* A step through the items: what it means for the rows of its transfer and others.
LEMMA LoopsRows ==
  ASSUME TransfersInv, disturbed = {}, NEW w, NEW t, Loops(w, t)
  PROVE  \A r \in ItemRows :
           /\ KeyOf(r)' = KeyOf(r)
           /\ r[1] # t => (Holds(r)' <=> Holds(r))
           /\ r[1] = t => /\ Holds(r) <=> HeldBy(w, r)
                          /\ Holds(r)' <=> HeldBy(w, r)'
<1>0. TypeOK /\ Busy(w) /\ w \in Workers /\ at[w] = t /\ t \in Transfers
  BY DEF TransfersInv, Loops, Looping, Busy
<1>1. Steps(w) /\ at'[w] = t
  BY <1>0, LoopsSteps
<1>2. (\A v \in Workers \ {w} : at[v] # t) /\ at' = at
  BY <1>0, Held DEF Loops
<1>3. SUFFICES ASSUME NEW r \in ItemRows
               PROVE  /\ KeyOf(r)' = KeyOf(r)
                      /\ r[1] # t => (Holds(r)' <=> Holds(r))
                      /\ r[1] = t => /\ Holds(r) <=> HeldBy(w, r)
                                     /\ Holds(r)' <=> HeldBy(w, r)'
  OBVIOUS
<1>4. KeyOf(r)' = KeyOf(r)
  BY DEF KeyOf, Loops
<1>5. CASE r[1] # t
  <2>1. Untouched(r[1])
    BY <1>1, <1>5, RowIs, StepsTouch
  <2>2. QED BY <1>4, <1>5, <2>1, UntouchedHolds
<1>6. CASE r[1] = t
  BY <1>0, <1>2, <1>4, <1>6, HoldsAlone, HoldsAloneNext
<1>7. QED BY <1>5, <1>6

LEMMA MovingReserved ==
  ASSUME TransfersInv, ReservedIsHeld, disturbed = {}, NEW w, NEW t, Loops(w, t),
         reserved' = reserved, pc[w] \in {"move", "record"}, serving[w] = "receive",
         object[w] = "in_transit", Called(w)' = Called(w), pc'[w] \in {"record", "release", "save"}
  PROVE  ReservedIsHeld'
<1>1. Releasing(w) /\ ~Reserving(w)
  BY DEF Releasing, Reserving
<1>2. serving'[w] = "receive" /\ object'[w] = "in_transit" /\ status' = status
  BY DEF Loops
<1>3. Releasing(w)' /\ ~Reserving(w)'
  BY <1>2 DEF Releasing, Reserving, FirstCall
<1>4. \A r : HeldBy(w, r)' <=> HeldBy(w, r)
  BY <1>1, <1>2, <1>3 DEF HeldBy
<1>5. \A r \in ItemRows : (Holds(r)' <=> Holds(r)) /\ KeyOf(r)' = KeyOf(r)
  BY <1>4, LoopsRows
<1>6. QED BY <1>5, SameReserved

\* The stock has reserved, or released, what the row has started, or stopped, to hold.
LEMMA OneRowReserved ==
  ASSUME ReservedIsHeld, disturbed = {}, reserved \in [Keys -> Nat], NEW o \in ItemRows,
         \A r \in ItemRows : r # o => (Holds(r)' <=> Holds(r)),
         KeyOf(o) \in Keys, \A r \in ItemRows : KeyOf(r)' = KeyOf(r),
         \/ Stock!Reserve(KeyOf(o), QtyOf(o)) /\ ~Holds(o) /\ Holds(o)'
         \/ Stock!Release(KeyOf(o), QtyOf(o)) /\ Holds(o) /\ ~Holds(o)'
  PROVE  ReservedIsHeld'
<1> DEFINE j == KeyOf(o)
           q == QtyOf(o)
<1>1. j \in Keys /\ q \in Nat
  BY RowIs
<1>2. ASSUME NEW k \in Keys PROVE Holding(k)' = reserved'[k]
  <2>1. /\ Holding(k) = reserved[k] /\ Holding(k) \in Nat /\ Holding(k)' \in Nat
        /\ j # k => Holding(k)' = Holding(k)
        /\ j = k => Holding(k)' = IF Holds(o) THEN Holding(k) - q ELSE Holding(k) + q
    BY OneRow DEF ReservedIsHeld
  <2> HIDE DEF j, q
  <2>2. CASE Stock!Reserve(j, q) /\ ~Holds(o)
    <3>1. reserved'[j] = reserved[j] + q /\ (j # k => reserved'[k] = reserved[k])
      BY <1>1, <2>2, ReserveIs
    <3>2. QED BY <2>1, <2>2, <3>1
  <2>3. CASE Stock!Release(j, q) /\ Holds(o)
    <3>1. /\ j # k => reserved'[k] = reserved[k]
          /\ q <= reserved[j] => reserved'[j] = reserved[j] - q
      BY <1>1, <2>3, ReleaseIs
    <3>2. CASE j = k
      <4>1. q <= reserved[k]
        BY <1>1, <2>1, <2>3, <3>2
      <4>2. QED BY <2>1, <2>3, <3>1, <3>2, <4>1
    <3>3. CASE j # k
      BY <2>1, <3>1, <3>3
    <3>4. QED BY <3>2, <3>3
  <2>4. QED BY <2>2, <2>3 DEF j, q
<1>3. QED BY <1>2 DEF ReservedIsHeld

LEMMA RowIsReserved ==
  ASSUME ReservedIsHeld, disturbed = {}, reserved \in [Keys -> Nat], NEW o \in ItemRows,
         \A r \in ItemRows : r # o => (Holds(r)' <=> Holds(r)), ~Holds(o), Holds(o)',
         KeyOf(o) \in Keys, \A r \in ItemRows : KeyOf(r)' = KeyOf(r),
         Stock!Reserve(KeyOf(o), QtyOf(o))
  PROVE  ReservedIsHeld'
BY OneRowReserved

LEMMA ReserveItemReserved ==
  ASSUME TransfersInv, ReservedIsHeld, disturbed = {}, NEW w \in Workers, ReserveItem(w)
  PROVE  ReservedIsHeld'
<1>0. Looping(w) /\ pc[w] = "reserve"
  BY DEF ReserveItem, Looping
<1>1. PICK t \in Transfers : t = at[w]
  BY <1>0, LoopingHolds
<1>2. PICK n \in Nat \ {0} : n = next[w]
  BY <1>0, LoopingHolds DEF TypeOK
<1>3. /\ TypeOK /\ n \in 1..todo[w] /\ n \in 1..Number(t) /\ serving[w] = "confirm"
      /\ object[w] = "draft" /\ status[t] = "draft"
  BY <1>0, <1>1, <1>2, LoopingHolds
<1> DEFINE o == <<t, n>>
<1>4. o \in ItemRows /\ o[1] = t /\ o[2] = n
  BY <1>3 DEF ItemRows
<1>5. Loops(w, t)
  BY <1>0, <1>1, <1>2, <1>3, ReserveItemLoops
<1>6. /\ \/ next[w] < todo[w] /\ next'[w] = next[w] + 1 /\ pc'[w] = "reserve"
         \/ next[w] = todo[w] /\ next'[w] = next[w] /\ pc'[w] = "save"
      /\ todo' = todo /\ serving' = serving /\ object' = object /\ status' = status
  BY <1>2, <1>3, EndItemIs DEF ReserveItem, tables
<1>7. Called(w) = 1..(n - 1) /\ Called(w)' = 1..n
  BY <1>0, <1>2, <1>3, <1>6, CalledIs, CalledNext
<1>8. Reserving(w) /\ Reserving(w)'
  BY <1>0, <1>3, <1>6 DEF Reserving
<1>9. ASSUME NEW r \in ItemRows, r[1] = t
      PROVE  (HeldBy(w, r) <=> r[2] \in 1..(n - 1)) /\ (HeldBy(w, r)' <=> r[2] \in 1..n)
  BY <1>3, <1>6, <1>7, <1>8, <1>9 DEF HeldBy
<1>10. ~Holds(o) /\ Holds(o)'
  BY <1>4, <1>5, <1>9, LoopsRows
<1>11. ASSUME NEW r \in ItemRows, r # o PROVE Holds(r)' <=> Holds(r)
  <2>1. r[1] = t => r[2] # n
    BY <1>11, RowIs
  <2>2. r[1] = t => (r[2] \in 1..(n - 1) <=> r[2] \in 1..n)
    <3>1. r[2] \in Nat
      BY RowIs, LineTyped
    <3>2. QED BY <2>1, <3>1
  <2>3. QED BY <1>5, <1>9, <2>2, LoopsRows
<1>12. Stock!Reserve(KeyOf(o), QtyOf(o)) /\ reserved \in [Keys -> Nat]
  <2>1. way[w] = route[t]
    BY <1>0, <1>1, LoopingHolds
  <2>2. line(w).from = KeyOf(o) /\ line(w).qty = QtyOf(o)
    BY <1>1, <1>2, <1>4, <2>1 DEF line, LineOf, KeyOf, QtyOf
  <2>3. QED BY <1>3, <2>2 DEF ReserveItem, TypeOK
<1>14. KeyOf(o) \in Keys /\ \A r \in ItemRows : KeyOf(r)' = KeyOf(r)
  BY <1>3, <1>4, <1>5, RowKey, LoopsRows
<1> HIDE DEF o
<1>13. QED BY <1>4, <1>10, <1>11, <1>12, <1>14, RowIsReserved

LEMMA ReleaseItemReserved ==
  ASSUME TransfersInv, ReservedIsHeld, disturbed = {}, NEW w \in Workers, ReleaseItem(w)
  PROVE  ReservedIsHeld'
<1>0. Looping(w) /\ pc[w] = "release"
  BY DEF ReleaseItem, Looping
<1>1. PICK t \in Transfers : t = at[w]
  BY <1>0, LoopingHolds
<1>2. PICK n \in Nat \ {0} : n = next[w]
  BY <1>0, LoopingHolds DEF TypeOK
<1>3. /\ TypeOK /\ n \in 1..todo[w] /\ n \in 1..Number(t) /\ serving[w] \in {"receive", "cancel"}
      /\ object[w] = "in_transit" /\ status[t] = "in_transit"
  BY <1>0, <1>1, <1>2, LoopingHolds
<1> DEFINE o == <<t, n>>
<1>4. o \in ItemRows /\ o[1] = t /\ o[2] = n
  BY <1>3 DEF ItemRows
<1>5. Loops(w, t)
  BY <1>0, <1>1, <1>2, <1>3, ReleaseItemLoops
<1>6. /\ \/ pc'[w] = "move" /\ next'[w] = next[w]
         \/ next[w] < todo[w] /\ next'[w] = next[w] + 1 /\ pc'[w] = "release"
         \/ next[w] = todo[w] /\ next'[w] = next[w] /\ pc'[w] = "save"
      /\ todo' = todo /\ serving' = serving /\ object' = object /\ status' = status
  BY <1>2, <1>3, EndItemIs DEF ReleaseItem, tables, TypeOK
<1>7. Called(w) = 1..(n - 1) /\ Called(w)' = 1..n
  BY <1>0, <1>2, <1>3, <1>6, CalledIs, CalledNext
<1>8. Releasing(w) /\ Releasing(w)' /\ ~Reserving(w) /\ ~Reserving(w)'
  BY <1>0, <1>3, <1>6 DEF Releasing, Reserving, FirstCall
<1>9. ASSUME NEW r \in ItemRows, r[1] = t
      PROVE  (HeldBy(w, r) <=> r[2] \notin 1..(n - 1)) /\ (HeldBy(w, r)' <=> r[2] \notin 1..n)
  BY <1>3, <1>6, <1>7, <1>8, <1>9 DEF HeldBy
<1>10. Holds(o) /\ ~Holds(o)'
  BY <1>4, <1>5, <1>9, LoopsRows
<1>11. ASSUME NEW r \in ItemRows, r # o PROVE Holds(r)' <=> Holds(r)
  <2>1. r[1] = t => r[2] # n
    BY <1>11, RowIs
  <2>2. r[1] = t => (r[2] \in 1..(n - 1) <=> r[2] \in 1..n)
    <3>1. r[2] \in Nat
      BY RowIs, LineTyped
    <3>2. QED BY <2>1, <3>1
  <2>3. QED BY <1>5, <1>9, <2>2, LoopsRows
<1>12. Stock!Release(KeyOf(o), QtyOf(o)) /\ reserved \in [Keys -> Nat]
  <2>1. way[w] = route[t]
    BY <1>0, <1>1, LoopingHolds
  <2>2. line(w).from = KeyOf(o) /\ line(w).qty = QtyOf(o)
    BY <1>1, <1>2, <1>4, <2>1 DEF line, LineOf, KeyOf, QtyOf
  <2>3. QED BY <1>3, <2>2 DEF ReleaseItem, TypeOK
<1>14. KeyOf(o) \in Keys /\ \A r \in ItemRows : KeyOf(r)' = KeyOf(r)
  BY <1>3, <1>4, <1>5, RowKey, LoopsRows
<1> HIDE DEF o
<1>13. QED BY <1>4, <1>10, <1>11, <1>12, <1>14, OneRowReserved

LEMMA MoveItemReserved ==
  ASSUME TransfersInv, ReservedIsHeld, disturbed = {}, NEW w \in Workers,
         NEW q \in Quantities(line(w)), MoveItem(w, q)
  PROVE  ReservedIsHeld'
<1>0. Looping(w) /\ pc[w] = "move"
  BY DEF MoveItem, Looping
<1>1. Loops(w, at[w]) /\ pc'[w] = "record" /\ reserved' = reserved
  BY MoveItemLoops
<1>2. /\ TypeOK /\ next[w] \in 1..todo[w] /\ serving[w] = "receive" /\ object[w] = "in_transit"
  BY <1>0, LoopingHolds
<1>3. next' = next /\ todo' = todo
  BY DEF MoveItem
<1>4. Called(w)' = Called(w)
  BY <1>0, <1>1, <1>2, <1>3, CalledIs, CalledNext
<1>5. QED BY <1>0, <1>1, <1>2, <1>4, MovingReserved

LEMMA RecordItemReserved ==
  ASSUME TransfersInv, ReservedIsHeld, disturbed = {}, NEW w \in Workers, RecordItem(w)
  PROVE  ReservedIsHeld'
<1>0. Looping(w) /\ pc[w] = "record"
  BY DEF RecordItem, Looping
<1>1. Loops(w, at[w]) /\ pc'[w] \in {"release", "save"} /\ reserved' = reserved
  BY RecordItemLoops
<1>2. /\ TypeOK /\ next[w] \in 1..todo[w] /\ serving[w] = "receive" /\ object[w] = "in_transit"
  BY <1>0, LoopingHolds
<1>3. /\ \/ next[w] < todo[w] /\ next'[w] = next[w] + 1 /\ pc'[w] = "release"
         \/ next[w] = todo[w] /\ next'[w] = next[w] /\ pc'[w] = "save"
      /\ todo' = todo
  BY <1>2, EndItemIs DEF RecordItem
<1>4. Called(w)' = Called(w)
  BY <1>0, <1>2, <1>3, CalledIs, CalledNext
<1>5. QED BY <1>0, <1>1, <1>2, <1>4, MovingReserved

LEMMA SaveStatusReserved ==
  ASSUME TransfersInv, ReservedIsHeld, disturbed = {}, NEW w \in Workers, SaveStatus(w)
  PROVE  ReservedIsHeld'
<1>0. TypeOK /\ Busy(w) /\ pc[w] = "save" /\ serving[w] \in {"confirm", "receive", "cancel"}
  BY DEF TransfersInv, SaveStatus, Busy
<1>1. PICK t \in Transfers : t = at[w]
  BY <1>0, Held DEF RequestHolds
<1> DEFINE s == Target(serving[w])
<1>2. Ends(w, t, s, received[t])
  BY <1>0, <1>1, AsItIs DEF Ends, SaveStatus, history
<1>3. RequestHolds(w) /\ object[w] = status[t] /\ todo[w] = Number(t)
  BY <1>0, <1>1, Held DEF FreshCopy
<1>4. Allowed(serving[w], status[t])
  BY <1>0, <1>3 DEF RequestHolds
<1>5. ASSUME NEW i \in 1..Number(t) PROVE HeldBy(w, <<t, i>>) <=> s = "in_transit"
  <2>1. i \in Called(w)
    BY <1>0, <1>3 DEF Called
  <2>2. Reserving(w) <=> s = "in_transit"
    BY <1>0 DEF Reserving, Target
  <2>3. s # "in_transit" /\ status[t] = "in_transit" => Releasing(w)
    BY <1>0, <1>3, <1>4 DEF Releasing, FirstCall, Allowed, Target
  <2>4. s = "in_transit" => status[t] # "in_transit"
    BY <1>0, <1>4 DEF Allowed, Target
  <2>5. QED BY <2>1, <2>2, <2>3, <2>4 DEF HeldBy
<1>7. route' = route
  BY DEF SaveStatus
<1>6. QED BY <1>2, <1>5, <1>7, EndsReserved

\* A request that has reserved and released nothing.
LEMMA NothingCalled ==
  ASSUME NEW w \in Workers, NEW t, NEW i, NEW s, s = "in_transit" <=> status[t] = "in_transit",
         (~Releasing(w) /\ ~Reserving(w)) \/ Called(w) = {}
  PROVE  HeldBy(w, <<t, i>>) <=> s = "in_transit"
BY DEF HeldBy

LEMMA RefuseReserved ==
  ASSUME TransfersInv, ReservedIsHeld, disturbed = {}, NEW w \in Workers, Refuse(w)
  PROVE  ReservedIsHeld'
<1>0. TypeOK /\ Busy(w) /\ pc[w] = "refuse"
  BY DEF TransfersInv, Refuse, Busy
<1>1. PICK t \in Transfers : t = at[w]
  BY <1>0, Held DEF RequestHolds
<1>2. Ends(w, t, status[t], received[t])
  BY <1>0, <1>1, AsItIs DEF Ends, Refuse, tables, history
<1>3. ~Releasing(w) /\ ~Reserving(w)
  BY <1>0 DEF Releasing, Reserving
<1>4. route' = route
  BY DEF Refuse, tables
<1>5. QED BY <1>2, <1>3, <1>4, NothingCalled, EndsReserved

LEMMA AbandonReserved ==
  ASSUME TransfersInv, ReservedIsHeld, disturbed' = {}, disturbed = {}, NEW w \in Workers,
         Abandon(w)
  PROVE  ReservedIsHeld'
<1>0. TypeOK /\ Busy(w)
  BY DEF TransfersInv, Abandon, Busy
<1>1. PICK t \in Transfers : t = at[w]
  BY <1>0, Held DEF RequestHolds
<1>2. Ends(w, t, status[t], received[t])
  BY <1>0, <1>1, AsItIs DEF Ends, Abandon, tables
<1>3. \/ pc[w] = "refuse"
      \/ pc[w] = "save" /\ FirstCall(serving[w], object[w]) = "save"
      \/ pc[w] \in {"reserve", "release"} /\ next[w] = 1
  <2>1. \/ pc[w] = "refuse"
        \/ /\ ~(next[w] > 1) /\ pc[w] \notin {"move", "record"}
           /\ pc[w] = "save" => FirstCall(serving[w], object[w]) = "save"
    BY DEF Abandon
  <2>2. next[w] \in Nat \ {0}
    BY <1>0 DEF TypeOK
  <2>3. pc[w] \in {"refuse", "reserve", "release", "move", "record", "save"}
    BY <1>0 DEF TypeOK, Busy
  <2>4. QED BY <2>1, <2>2, <2>3
<1>4. (~Releasing(w) /\ ~Reserving(w)) \/ Called(w) = {}
  <2>1. CASE pc[w] = "refuse"
    BY <2>1 DEF Releasing, Reserving
  <2>2. CASE pc[w] = "save" /\ FirstCall(serving[w], object[w]) = "save"
    BY <2>2 DEF Releasing, Reserving, FirstCall
  <2>3. CASE pc[w] \in {"reserve", "release"} /\ next[w] = 1
    <3>1. Called(w) = 1..(1 - 1)
      BY <1>0, <2>3, CalledIs DEF Looping
    <3>2. QED BY <3>1
  <2>4. QED BY <1>3, <2>1, <2>2, <2>3
<1>5. route' = route
  BY DEF Abandon, tables
<1>6. QED BY <1>2, <1>4, <1>5, NothingCalled, EndsReserved

LEMMA UpdateReserved ==
  ASSUME TransfersInv, ReservedIsHeld, disturbed' = {}, disturbed = {}, NEW w \in Workers,
         NEW s, NEW r \in load.routes \union {way[w]}, Update(w, s, r)
  PROVE  ReservedIsHeld'
<1>0. TypeOK /\ Busy(w) /\ pc[w] = "save" /\ serving[w] = "update"
  BY DEF TransfersInv, Update, Busy
<1>1. PICK t \in Transfers : t = at[w]
  BY <1>0, Held DEF RequestHolds
<1>6. route' = [route EXCEPT ![t] = r] /\ route'[t] = r /\ r \in Route
  BY <1>0, <1>1, TransfersAssumption, Held DEF Update, TypeOK, RequestHolds
<1>2. Ends(w, t, s, received[t])
  BY <1>0, <1>1, <1>6, AsItIs DEF Ends, Update
<1>3. s = status[t] /\ (s = "in_transit" => r.from = route[t].from)
  BY <1>0, <1>1, Held DEF Update, FreshCopy
<1>4. ~Releasing(w) /\ ~Reserving(w)
  BY <1>0 DEF Releasing, Reserving, FirstCall
<1>5. QED BY <1>2, <1>3, <1>4, <1>6, NothingCalled, EndsReserved

LEMMA DestroyReserved ==
  ASSUME TransfersInv, ReservedIsHeld, disturbed' = {}, disturbed = {}, NEW w \in Workers,
         Destroy(w)
  PROVE  ReservedIsHeld'
<1>0. TypeOK /\ Busy(w) /\ pc[w] = "save" /\ serving[w] = "destroy"
  BY DEF TransfersInv, Destroy, Busy
<1>1. PICK t \in Transfers : t = at[w]
  BY <1>0, Held DEF RequestHolds
<1>2. Ends(w, t, "deleted", <<>>)
  BY <1>0, <1>1, AsItIs DEF Ends, Destroy
<1>3. status[t] # "in_transit"
  BY <1>0, <1>1, Held DEF Destroy, FreshCopy
<1>4. ~Releasing(w) /\ ~Reserving(w)
  BY <1>0 DEF Releasing, Reserving, FirstCall
<1>5. ASSUME NEW i \in 1..Number(t) PROVE HeldBy(w, <<t, i>>) <=> "deleted" = "in_transit"
  BY <1>3, <1>4, NothingCalled
<1>6. QED BY <1>2, <1>5, EndsReserved

LEMMA FetchReserved ==
  ASSUME TransfersInv, ReservedIsHeld, disturbed' = {}, disturbed = {}, NEW w \in Workers,
         NEW h \in Handlers, NEW t \in Transfers, Fetch(w, h, t)
  PROVE  ReservedIsHeld'
<1>0. TypeOK /\ at[w] = NoTransfer /\ next[w] = 1
  BY Held DEF TransfersInv, Fetch, RequestHolds, Busy
<1>1. Steps(w)
  BY <1>0 DEF Fetch, Steps, TypeOK, tables
<1>2. /\ at'[w] = t /\ object'[w] = status[t] /\ serving'[w] = h /\ todo'[w] = Len(received[t])
      /\ way'[w] = route[t]
      /\ pc'[w] = IF ~Allowed(h, status[t]) THEN "refuse"
                  ELSE IF received[t] = <<>> THEN "save" ELSE FirstCall(h, status[t])
      /\ next'[w] = 1
      /\ UNCHANGED <<status, route, reserved>>
  BY <1>0 DEF Fetch, TypeOK, tables, stock
<1>3. \A v \in Workers : at[v] # t
  BY DEF Fetch
<1>4. \A v \in Workers \ {w} : at'[v] # t
  BY <1>1, <1>3 DEF Steps
<1>5. (~Releasing(w)' /\ ~Reserving(w)') \/ Called(w)' = {}
  <2>1. CASE pc'[w] = "refuse"
    BY <2>1 DEF Releasing, Reserving
  <2>2. CASE pc'[w] = "save" /\ received[t] = <<>>
    <3>1. Called(w)' = 1..0
      BY <1>2, <2>2 DEF Called
    <3>2. QED BY <3>1
  <2>3. CASE pc'[w] = FirstCall(h, status[t])
    <3>1. CASE pc'[w] = "save"
      BY <1>2, <2>3, <3>1 DEF Releasing, Reserving, FirstCall
    <3>2. CASE pc'[w] \in {"reserve", "release"}
      <4>1. Called(w)' = {i \in 1..1 : i # 1}
        BY <1>2, <3>2 DEF Called
      <4>2. QED BY <4>1
    <3>3. QED BY <2>3, <3>1, <3>2 DEF FirstCall
  <2>4. QED BY <1>2, <2>1, <2>2, <2>3
<1>6. ASSUME NEW r \in ItemRows PROVE (Holds(r)' <=> Holds(r)) /\ KeyOf(r)' = KeyOf(r)
  <2>1. CASE r[1] # t
    BY <1>1, <1>2, <2>1, RowIs, StepsTouch, UntouchedHolds
  <2>2. CASE r[1] = t
    <3>1. HeldBy(w, r)' <=> status[t] = "in_transit"
      BY <1>2, <1>5, <2>2 DEF HeldBy
    <3>2. KeyOf(r)' = KeyOf(r)
      BY <1>2 DEF KeyOf
    <3>3. QED BY <1>2, <1>3, <1>4, <2>2, <3>1, <3>2, HoldsAloneNext, HoldsUnserved
  <2>3. QED BY <2>1, <2>2
<1>7. QED BY <1>2, <1>6, SameReserved

LEMMA InitReserved == Init => ReservedIsHeld
<1> SUFFICES ASSUME Init, NEW k \in Keys PROVE reserved[k] = Holding(k)
  BY DEF ReservedIsHeld
<1> DEFINE f == [r \in ItemRows |-> IF Holds(r) /\ KeyOf(r) = k THEN QtyOf(r) ELSE 0]
           S == ItemRows
<1>1. reserved[k] = 0
  BY DEF Init, Stock!Opened
<1>2. ASSUME NEW r \in ItemRows PROVE ~Holds(r)
  BY RowIs DEF Init, Holds, Reserving, Called
<1>3. IsFiniteSet(S) /\ \A r \in S : f[r] = 0
  BY <1>2, RowsFinite
<1>4. SumFunctionOnSet(f, S) = 0
  <2> HIDE DEF f, S
  <2>1. QED BY <1>3, SumZero
<1>5. QED BY <1>1, <1>4 DEF Holding

LEMMA NextReserved ==
  ASSUME TransfersInv, ReservedIsHeld, [Next]_vars
  PROVE  ReservedIsHeld'
<1>0. SUFFICES ASSUME disturbed' = {} PROVE ReservedIsHeld'
  BY DEF ReservedIsHeld
<1>1. disturbed \subseteq disturbed'
  BY DEF Next, Act, Fetch, Abandon, Refuse, ReserveItem, ReleaseItem, MoveItem, RecordItem,
     SaveStatus, Update, Destroy, Adjust, vars, history
<1>2. disturbed = {}
  BY <1>0, <1>1
<1>3. ASSUME NEW w \in Workers, Act(w) PROVE ReservedIsHeld'
  <2>1. CASE Refuse(w)
    BY <1>2, <2>1, RefuseReserved
  <2>2. CASE ReserveItem(w)
    BY <1>2, <2>2, ReserveItemReserved
  <2>3. CASE ReleaseItem(w)
    BY <1>2, <2>3, ReleaseItemReserved
  <2>4. ASSUME NEW q \in Quantities(line(w)), MoveItem(w, q) PROVE ReservedIsHeld'
    BY <1>2, <2>4, MoveItemReserved
  <2>5. CASE RecordItem(w)
    BY <1>2, <2>5, RecordItemReserved
  <2>6. CASE SaveStatus(w)
    BY <1>2, <2>6, SaveStatusReserved
  <2>7. ASSUME NEW s, NEW r \in load.routes \union {way[w]}, Update(w, s, r) PROVE ReservedIsHeld'
    BY <1>0, <1>2, <2>7, UpdateReserved
  <2>8. CASE Destroy(w)
    BY <1>0, <1>2, <2>8, DestroyReserved
  <2>9. QED BY <1>3, <2>1, <2>2, <2>3, <2>4, <2>5, <2>6, <2>7, <2>8 DEF Act
<1>4. ASSUME NEW w \in Workers, NEW h \in Handlers, NEW t \in Transfers, Fetch(w, h, t)
      PROVE  ReservedIsHeld'
  BY <1>0, <1>2, <1>4, FetchReserved
<1>5. ASSUME NEW w \in Workers, Abandon(w) PROVE ReservedIsHeld'
  BY <1>0, <1>2, <1>5, AbandonReserved
<1>6. ASSUME UNCHANGED <<tables, request, history>>, reserved' = reserved PROVE ReservedIsHeld'
  <2>1. ASSUME NEW r \in ItemRows PROVE (Holds(r)' <=> Holds(r)) /\ KeyOf(r)' = KeyOf(r)
    <3>1. Untouched(r[1])
      BY <1>6, RowIs DEF Untouched, tables, request, history
    <3>2. QED BY <3>1, UntouchedHolds
  <2>2. QED BY <1>2, <1>6, <2>1, SameReserved
<1>7. ASSUME NEW k \in Keys, NEW delta \in load.adjustments, Adjust(k, delta)
      PROVE  ReservedIsHeld'
  BY <1>6, <1>7 DEF Adjust, Stock!Post
<1>8. CASE UNCHANGED vars
  BY <1>6, <1>8 DEF vars, stock
<1>9. QED BY <1>3, <1>4, <1>5, <1>7, <1>8 DEF Next

-----------------------------------------------------------------------------
(* Theorems.                                                               *)

\* The invariant of requests, copies and movements is inductive.
THEOREM TransfersInvariant == Spec => []TransfersInv
<1>1. Init => TransfersInv
  BY InitTransfers
<1>2. TransfersInv /\ [Next]_vars => TransfersInv'
  BY NextTransfers
<1>3. QED BY <1>1, <1>2, PTL DEF Spec

\* confirm, receive and cancel: while no transfer is disturbed, what is reserved of
\* a key is what its rows hold, item by item, in the middle of the requests too.  A
\* PATCH may change both warehouses of a transfer, but for the source of one in
\* transit.
THEOREM ReservedAreHeld == Spec => []ReservedIsHeld
<1>1. Init => ReservedIsHeld
  BY InitReserved
<1>2. TransfersInv /\ ReservedIsHeld /\ [Next]_vars => ReservedIsHeld'
  BY NextReserved
<1>3. QED BY <1>1, <1>2, TransfersInvariant, PTL DEF Spec

\* Every variable keeps its type: release_reservation never takes a reservation
\* below zero, and what receive moves leaves quantities on hand.
THEOREM TransferTypes == Spec => []TypeOK
<1>1. TransfersInv => TypeOK
  BY DEF TransfersInv
<1>2. QED BY <1>1, TransfersInvariant, PTL

\* receive: the goods of a transfer that no two requests have served at once, no
\* request has left half done and no client has set the status of have been moved
\* once for each item when it is received, in the quantity the item records, and
\* not at all before.
THEOREM GoodsMovedOnce == Spec => []ReceivedIsMoved
<1>1. TransfersInv => ReceivedIsMoved
  <2> SUFFICES ASSUME TransfersInv, NEW t \in Transfers \ (disturbed \union Served),
                      status[t] # "deleted", NEW i \in 1..Len(received[t])
               PROVE  moved[t][i] = IF status[t] = "received" THEN <<received[t][i]>> ELSE <<>>
    BY DEF ReceivedIsMoved
  <2>1. \A v \in Workers : at[v] # t
    BY TransfersAssumption DEF Served
  <2>2. Recorded(t, i) <=> status[t] = "received"
    BY <2>1 DEF Recorded
  <2>3. RowsMoved(t) /\ i \in 1..Number(t)
    BY AsItIs
  <2>4. QED BY <2>1, <2>2, <2>3 DEF RowsMoved
<1>2. QED BY <1>1, TransfersInvariant, PTL

\* confirm, receive and cancel: between requests, when each transfer was served by
\* one request at a time that ran to its end and no client has changed a status or
\* the source of a transfer in transit, what is reserved of a key is the sum of the
\* lines of the transfers in transit that name its warehouse as their source.
THEOREM ReservationsAddUp == Spec => []ReservationsMatch
<1>1. ReservedIsHeld => ReservationsMatch
  <2> SUFFICES ASSUME ReservedIsHeld, disturbed = {}, Served = {}, NEW k \in Keys
               PROVE  reserved[k] = HeldFor(k)
    BY DEF ReservationsMatch
  <2> DEFINE f == [r \in ItemRows |-> IF Holds(r) /\ KeyOf(r) = k THEN QtyOf(r) ELSE 0]
             g == [r \in ItemRows |->
                     IF status[r[1]] = "in_transit" /\ KeyOf(r) = k THEN QtyOf(r) ELSE 0]
             S == ItemRows
  <2>1. ASSUME NEW r \in ItemRows PROVE Holds(r) <=> status[r[1]] = "in_transit"
    <3>1. r[1] \in Transfers
      BY RowIs
    <3>2. ASSUME NEW v \in Workers, at[v] = r[1] PROVE FALSE
      <4>1. at[v] # NoTransfer
        BY <3>1, <3>2, TransfersAssumption
      <4>2. at[v] \in Served
        BY ONLY <4>1 DEF Served
      <4>3. QED BY <4>2
    <3>3. QED BY <3>1, <3>2, HoldsUnserved
  <2>2. IsFiniteSet(S) /\ \A r \in S : f[r] = g[r]
    BY <2>1, RowsFinite
  <2>3. SumFunctionOnSet(f, S) = SumFunctionOnSet(g, S)
    <3> HIDE DEF f, g, S
    <3>1. QED BY <2>2, SumSame
  <2>4. reserved[k] = SumFunctionOnSet(f, S)
    BY DEF ReservedIsHeld, Holding
  <2>5. HeldFor(k) = SumFunctionOnSet(g, S)
    BY DEF HeldFor
  <2>6. QED BY <2>3, <2>4, <2>5
<1>2. QED BY <1>1, ReservedAreHeld, PTL
=============================================================================
