------------------------- MODULE StockServiceProofs -------------------------
(***************************************************************************)
(* Theorems about StockService for every set of workers, keys and calls.   *)
(***************************************************************************)
EXTENDS StockService, SumLemmas, TLAPS

-----------------------------------------------------------------------------
(* Chains of movements.                                                    *)

\* A movement that starts where a chain ends extends the chain to its own end.
LEMMA ChainAppend ==
  ASSUME NEW s \in Seq(Movement), NEW start \in Int, NEW m \in Movement,
         Continues(s, start),
         m.before = EndsAt(s, start),
         m.after = m.before + m.delta
  PROVE  /\ Continues(Append(s, m), start)
         /\ EndsAt(Append(s, m), start) = m.after
<1> DEFINE t == Append(s, m)
<1>1. t \in Seq(Movement) /\ Len(t) = Len(s) + 1 /\ t[Len(t)] = m /\ t # <<>>
  OBVIOUS
<1>2. ASSUME NEW n \in 1..Len(s) PROVE t[n] = s[n]
  OBVIOUS
<1>3. EndsAt(t, start) = m.after
  BY <1>1 DEF EndsAt
<1>4. ASSUME NEW n \in 1..Len(t)
      PROVE  /\ t[n].before = IF n = 1 THEN start ELSE t[n - 1].after
             /\ t[n].after = t[n].before + t[n].delta
  <2>1. CASE n \in 1..Len(s)
    <3>1. n # 1 => n - 1 \in 1..Len(s)
      BY <2>1
    <3>2. QED BY <2>1, <3>1, <1>2 DEF Continues
  <2>2. CASE n = Len(t) /\ s # <<>>
    <3>1. Len(s) \in 1..Len(s) /\ n - 1 = Len(s) /\ n # 1
      BY <2>2, <1>1
    <3>2. t[n - 1].after = EndsAt(s, start)
      BY <3>1, <1>2, <2>2 DEF EndsAt
    <3>3. QED BY <3>1, <3>2, <2>2, <1>1
  <2>3. CASE n = Len(t) /\ s = <<>>
    BY <2>3, <1>1 DEF EndsAt
  <2>4. QED BY <2>1, <2>2, <2>3, <1>1
<1>5. QED BY <1>3, <1>4 DEF Continues

\* A chain that starts where another ends extends it.
LEMMA ChainConcat ==
  ASSUME NEW s \in Seq(Movement), NEW t \in Seq(Movement), NEW start \in Int,
         Continues(s, start),
         Continues(t, EndsAt(s, start))
  PROVE  /\ Continues(s \o t, start)
         /\ EndsAt(s \o t, start) = EndsAt(t, EndsAt(s, start))
<1> DEFINE u == s \o t
<1>1. u \in Seq(Movement) /\ Len(u) = Len(s) + Len(t)
  OBVIOUS
<1>2. ASSUME NEW n \in 1..Len(s) PROVE u[n] = s[n]
  OBVIOUS
<1>3. ASSUME NEW n \in 1..Len(t) PROVE u[n + Len(s)] = t[n]
  OBVIOUS
<1>4. EndsAt(u, start) = EndsAt(t, EndsAt(s, start))
  <2>1. CASE t = <<>>
    <3>1. u = s
      BY <2>1
    <3>2. QED BY <3>1, <2>1 DEF EndsAt
  <2>2. CASE t # <<>>
    <3>1. Len(t) \in 1..Len(t) /\ Len(u) = Len(t) + Len(s) /\ u # <<>>
      BY <2>2, <1>1
    <3>2. u[Len(u)] = t[Len(t)]
      BY <3>1, <1>3
    <3>3. QED BY <3>1, <3>2, <2>2 DEF EndsAt
  <2>3. QED BY <2>1, <2>2
<1>5. ASSUME NEW n \in 1..Len(u)
      PROVE  /\ u[n].before = IF n = 1 THEN start ELSE u[n - 1].after
             /\ u[n].after = u[n].before + u[n].delta
  <2>1. CASE n \in 1..Len(s)
    <3>1. n # 1 => n - 1 \in 1..Len(s)
      BY <2>1
    <3>2. QED BY <2>1, <3>1, <1>2 DEF Continues
  <2>2. CASE n > Len(s)
    <3> DEFINE i == n - Len(s)
    <3>1. i \in 1..Len(t) /\ u[n] = t[i]
      BY <2>2, <1>1, <1>3
    <3>2. /\ t[i].before = IF i = 1 THEN EndsAt(s, start) ELSE t[i - 1].after
          /\ t[i].after = t[i].before + t[i].delta
      BY <3>1 DEF Continues
    <3>3. CASE i # 1
      <4>1. i - 1 \in 1..Len(t) /\ u[n - 1] = t[i - 1] /\ n # 1
        BY <3>1, <3>3, <1>3, <2>2
      <4>2. QED BY <4>1, <3>1, <3>2, <3>3
    <3>4. CASE i = 1 /\ s # <<>>
      <4>1. n - 1 = Len(s) /\ n # 1 /\ Len(s) \in 1..Len(s)
        BY <3>4
      <4>2. u[n - 1].after = EndsAt(s, start)
        BY <4>1, <1>2, <3>4 DEF EndsAt
      <4>3. QED BY <4>1, <4>2, <3>1, <3>2, <3>4
    <3>5. CASE i = 1 /\ s = <<>>
      BY <3>5, <3>1, <3>2 DEF EndsAt
    <3>6. QED BY <3>3, <3>4, <3>5
  <2>3. QED BY <2>1, <2>2, <1>1
<1>6. QED BY <1>4, <1>5 DEF Continues

\* Where a chain ends is where the last movements appended to it end.
LEMMA LastOfConcat ==
  ASSUME NEW s \in Seq(Movement), NEW t \in Seq(Movement), t # <<>>, NEW start \in Int
  PROVE  EndsAt(s \o t, start) = EndsAt(t, start)
<1> DEFINE u == s \o t
<1>1. Len(t) \in 1..Len(t) /\ Len(u) = Len(t) + Len(s) /\ u # <<>>
  OBVIOUS
<1>2. \A n \in 1..Len(t) : u[n + Len(s)] = t[n]
  OBVIOUS
<1>3. u[Len(u)] = t[Len(t)]
  BY <1>1, <1>2
<1>4. QED BY <1>1, <1>3 DEF EndsAt

\* What Max makes of two integers.
LEMMA MaxOfTwo ==
  ASSUME NEW a \in Int, NEW b \in Int
  PROVE  Max({a, b}) = IF a >= b THEN a ELSE b
BY DEF Max

-----------------------------------------------------------------------------
(* The invariant.                                                          *)

LEMMA RowFacts ==
  /\ FirstSlot \in Slots
  /\ \A k \in Keys : RowOf(k) \in Rows
  /\ NoDraft \in [Rows -> Level \union {NoRow}]
  /\ NoPending \in [Keys -> Seq(Movement)]
  /\ \A k \in Keys : NoPending[k] = <<>>
  /\ \A r \in Rows : NoDraft[r] = NoRow
BY SlotsAssumption DEF RowOf, Rows, NoDraft, NoPending

\* The empty chain.
LEMMA ChainEmpty ==
  ASSUME NEW start \in Int
  PROVE  Continues(<<>>, start) /\ EndsAt(<<>>, start) = start
BY DEF Continues, EndsAt

LEMMA InitInvariant == Init => IInv
<1> SUFFICES ASSUME Init PROVE IInv
  OBVIOUS
<1> USE RowFacts DEF Init
<1>1. TypeOK
  BY DEF TypeOK, Calls
<1>2. IdleIsClean
  BY DEF IdleIsClean
<1>3. ItemInHand
  BY DEF ItemInHand
<1>4. WritesAreLocked
  BY DEF WritesAreLocked
<1>5. OnePlace
  BY DEF OnePlace, UniqueKeys, Rows
<1>6. PendingAgrees
  BY ChainEmpty DEF PendingAgrees, UniqueKeys, Quantity
<1>7. LedgerAgrees
  BY ChainEmpty DEF LedgerAgrees, UniqueKeys, Quantity, RowOf
<1>8. QED BY <1>1, <1>2, <1>3, <1>4, <1>5, <1>6, <1>7 DEF IInv

\* A transaction that writes nothing to the shared tables and gives up its
\* locks takes what it has written with it.
LEMMA RollbackPreserves ==
  ASSUME IInv, NEW w \in Workers, Rollback(w)
  PROVE  IInv'
<1> USE RowFacts DEF Rollback, EndTransaction, shared
<1>1. TypeOK'
  BY DEF IInv, TypeOK, Calls
<1>2. IdleIsClean'
  BY DEF IInv, TypeOK, IdleIsClean
<1>3. ItemInHand'
  BY NoRowAssumption DEF IInv, TypeOK, ItemInHand, item, Current, View
<1>4. WritesAreLocked'
  BY NoRowAssumption DEF IInv, TypeOK, WritesAreLocked
<1>5. OnePlace'
  BY DEF IInv, TypeOK, OnePlace, Rows, UniqueKeys
<1>6. PendingAgrees'
  BY NoRowAssumption DEF IInv, TypeOK, PendingAgrees, UniqueKeys, Quantity
<1>7. LedgerAgrees'
  BY DEF IInv, LedgerAgrees, Quantity
<1>8. QED BY <1>1, <1>2, <1>3, <1>4, <1>5, <1>6, <1>7 DEF IInv

LEMMA BeginPreserves ==
  ASSUME IInv, NEW w \in Workers, NEW r \in Requests, Begin(w, r)
  PROVE  IInv'
<1> USE DEF Begin, shared
<1>1. TypeOK'
  BY DEF IInv, TypeOK, Calls
<1>2. IdleIsClean'
  BY DEF IInv, TypeOK, IdleIsClean
<1>3. ItemInHand'
  <2>1. 1 \in 1..Len(r.items)
    BY RequestsAssumption
  <2>2. QED BY <2>1 DEF IInv, TypeOK, IdleIsClean, ItemInHand, item, Current, View
<1>4. WritesAreLocked'
  BY DEF IInv, WritesAreLocked
<1>5. OnePlace'
  BY DEF IInv, OnePlace
<1>6. PendingAgrees'
  BY DEF IInv, PendingAgrees, Quantity
<1>7. LedgerAgrees'
  BY DEF IInv, LedgerAgrees, Quantity
<1>8. QED BY <1>1, <1>2, <1>3, <1>4, <1>5, <1>6, <1>7 DEF IInv

\* The SELECT ... FOR UPDATE takes a lock nobody else has, so the transaction
\* that gets it has written nothing to the row and reads its committed version.
LEMMA GetRowPreserves ==
  ASSUME IInv, NEW w \in Workers, GetRow(w)
  PROVE  IInv'
<1> USE DEF shared
<1> PICK r \in Rows :
      /\ Selected(w) = {r}
      /\ Free(w, r)
      /\ held' = [held EXCEPT ![w] = r]
      /\ lock' = [lock EXCEPT ![r] = w]
  BY DEF GetRow
<1>0. /\ pc[w] = "get"
      /\ pc' = [pc EXCEPT ![w] = "apply"]
      /\ UNCHANGED <<shared, req, next, draft, pending, settings>>
  BY DEF GetRow, Selecting
<1>a. r[1] = item(w).key /\ View(w, r) # NoRow
  <2>1. r \in Visible(w, item(w).key)
    BY DEF Selected, First
  <2>2. QED BY <2>1 DEF Visible
<1>1. TypeOK'
  BY <1>0 DEF IInv, TypeOK
<1>2. IdleIsClean'
  BY <1>0 DEF IInv, TypeOK, IdleIsClean
<1>3. ItemInHand'
  <2> SUFFICES ASSUME NEW v \in Workers
               PROVE  ItemInHand!(v)'
    BY DEF ItemInHand
  <2>1. CASE v = w
    BY <2>1, <1>0, <1>a DEF IInv, TypeOK, ItemInHand, item, Current, View
  <2>2. CASE v # w
    <3>1. pc[v] = "apply" => lock'[held[v]] = v
      BY <2>2, NoRowAssumption DEF IInv, TypeOK, ItemInHand, Free
    <3>2. QED BY <3>1, <2>2, <1>0 DEF IInv, TypeOK, ItemInHand, item, Current, View
  <2>3. QED BY <2>1, <2>2
<1>4. WritesAreLocked'
  BY <1>0, NoRowAssumption DEF IInv, TypeOK, WritesAreLocked, Free
<1>5. OnePlace'
  BY <1>0 DEF IInv, OnePlace
<1>6. PendingAgrees'
  <2> SUFFICES ASSUME NEW v \in Workers, NEW k \in UniqueKeys,
                      lock'[RowOf(k)] = v
               PROVE  Continues(pending[v][k], Quantity(RowOf(k)))
    BY <1>0 DEF IInv, PendingAgrees, Quantity
  <2>1. RowOf(k) \in Rows
    BY RowFacts DEF UniqueKeys
  <2>2. CASE lock[RowOf(k)] = v
    BY <2>2 DEF IInv, PendingAgrees
  <2>3. CASE lock[RowOf(k)] # v
    <3>1. v = w /\ RowOf(k) = r
      BY <2>3, <2>1 DEF IInv, TypeOK
    <3>2. draft[w][r] = NoRow
      BY <3>1, <2>3 DEF IInv, WritesAreLocked
    <3>3. pending[w][k] = <<>>
      BY <3>1, <3>2 DEF IInv, PendingAgrees
    <3>4. Quantity(RowOf(k)) \in Int
      BY <2>1 DEF IInv, TypeOK, Quantity, Level
    <3>5. QED BY <3>1, <3>3, <3>4, ChainEmpty
  <2>4. QED BY <2>2, <2>3
<1>7. LedgerAgrees'
  BY <1>0 DEF IInv, LedgerAgrees, Quantity
<1>8. QED BY <1>1, <1>2, <1>3, <1>4, <1>5, <1>6, <1>7 DEF IInv

\* A step that only moves the worker to its next statement.
LEMMA MovePreserves ==
  ASSUME IInv, NEW w \in Workers,
         GetMissing(w) \/ InsertConflict(w)
  PROVE  IInv'
<1>0. /\ pc[w] \in {"get", "insert"}
      /\ \E s \in {"get", "insert"} : pc' = [pc EXCEPT ![w] = s]
      /\ UNCHANGED <<shared, lock, req, next, held, draft, pending, settings>>
  BY DEF GetMissing, InsertConflict, Selecting
<1> USE DEF shared
<1>1. TypeOK'
  BY <1>0 DEF IInv, TypeOK
<1>2. IdleIsClean'
  BY <1>0 DEF IInv, TypeOK, IdleIsClean
<1>3. ItemInHand'
  BY <1>0 DEF IInv, TypeOK, ItemInHand, item, Current, View
<1>4. WritesAreLocked'
  BY <1>0 DEF IInv, WritesAreLocked
<1>5. OnePlace'
  BY <1>0 DEF IInv, OnePlace
<1>6. PendingAgrees'
  BY <1>0 DEF IInv, PendingAgrees, Quantity
<1>7. LedgerAgrees'
  BY <1>0 DEF IInv, LedgerAgrees, Quantity
<1>8. QED BY <1>1, <1>2, <1>3, <1>4, <1>5, <1>6, <1>7 DEF IInv

\* The item a worker is at is an item of its call.
LEMMA ItemType ==
  ASSUME IInv, NEW w \in Workers, pc[w] \in {"get", "insert", "apply"}
  PROVE  item(w) \in Item /\ item(w).key \in Keys /\ item(w).qty \in Int
<1>1. req[w] \in Requests /\ next[w] \in 1..Len(req[w].items)
  BY DEF IInv, ItemInHand
<1>2. req[w].items \in Seq(Item)
  BY <1>1, RequestsAssumption
<1>3. item(w) \in Item
  BY <1>1, <1>2 DEF item
<1>4. QED BY <1>3 DEF Item

\* The new row of get_or_create goes where no row is and where nobody has
\* written, so its empty chain starts at zero.
LEMMA InsertPreserves ==
  ASSUME IInv, NEW w \in Workers, Insert(w)
  PROVE  IInv'
<1> USE DEF shared
<1> DEFINE zero == [quantity |-> 0, reserved |-> 0]
<1>0. /\ pc[w] = "insert"
      /\ pc' = [pc EXCEPT ![w] = "apply"]
      /\ UNCHANGED <<shared, req, next, pending, settings>>
  BY DEF Insert
<1> PICK r \in InsertSlots(item(w).key) :
      /\ level[r] = NoRow
      /\ lock[r] = NoWorker
      /\ held' = [held EXCEPT ![w] = r]
      /\ lock' = [lock EXCEPT ![r] = w]
      /\ draft' = [draft EXCEPT ![w][r] = zero]
  BY DEF Insert
<1>a. /\ r \in Rows
      /\ r[1] = item(w).key
      /\ r[1] \in UniqueKeys => r = RowOf(r[1])
  BY <1>0, ItemType, SlotsAssumption DEF InsertSlots, Rows, RowOf, UniqueKeys
<1>b. zero \in Level /\ zero # NoRow
  BY NoRowAssumption DEF Level
<1>1. TypeOK'
  BY <1>0, <1>a, <1>b DEF IInv, TypeOK
<1>2. IdleIsClean'
  BY <1>0 DEF IInv, TypeOK, IdleIsClean
<1>3. ItemInHand'
  <2> SUFFICES ASSUME NEW v \in Workers
               PROVE  ItemInHand!(v)'
    BY DEF ItemInHand
  <2>1. CASE v = w
    <3>1. pc[w] # "idle" => req[w] \in Requests
      BY DEF IInv, ItemInHand
    <3>2. next[w] \in 1..Len(req[w].items)
      BY <1>0 DEF IInv, ItemInHand
    <3>3. held'[w] = r /\ lock'[r] = w /\ draft'[w][r] = zero
      BY <1>a DEF IInv, TypeOK
    <3>4. QED BY <2>1, <1>0, <1>a, <1>b, <3>1, <3>2, <3>3 DEF item, Current, View
  <2>2. CASE v # w
    <3>1. pc[v] = "apply" => lock'[held[v]] = v
      BY <2>2, NoRowAssumption DEF IInv, TypeOK, ItemInHand
    <3>2. QED BY <3>1, <2>2, <1>0 DEF IInv, TypeOK, ItemInHand, item, Current, View
  <2>3. QED BY <2>1, <2>2
<1>4. WritesAreLocked'
  BY <1>0, <1>a, NoRowAssumption DEF IInv, TypeOK, WritesAreLocked
<1>5. OnePlace'
  <2> SUFFICES ASSUME NEW k \in UniqueKeys, NEW s \in Slots, s # FirstSlot,
                      NEW v \in Workers
               PROVE  level[<<k, s>>] = NoRow /\ draft'[v][<<k, s>>] = NoRow
    BY <1>0 DEF OnePlace
  <2>1. level[<<k, s>>] = NoRow /\ draft[v][<<k, s>>] = NoRow
    BY DEF IInv, OnePlace
  <2>2. <<k, s>> # r
    BY <1>a DEF RowOf
  <2>3. draft'[v][<<k, s>>] = draft[v][<<k, s>>]
    BY <2>2, <1>a DEF IInv, TypeOK, Rows, UniqueKeys
  <2>4. QED BY <2>1, <2>3
<1>6. PendingAgrees'
  <2> SUFFICES ASSUME NEW v \in Workers, NEW k \in UniqueKeys
               PROVE  PendingAgrees!(v, k)'
    BY DEF PendingAgrees
  <2>1. RowOf(k) \in Rows /\ k \in Keys
    BY RowFacts DEF UniqueKeys
  <2>2. CASE v = w /\ RowOf(k) = r
    <3>1. draft[w][r] = NoRow
      BY <1>a, NoRowAssumption DEF IInv, WritesAreLocked
    <3>2. pending[w][k] = <<>> /\ Quantity(r) = 0
      BY <2>2, <3>1 DEF IInv, PendingAgrees, Quantity
    <3>3. draft'[w][r] = zero /\ zero.quantity = 0
      BY <1>a DEF IInv, TypeOK
    <3>4. QED BY <2>2, <3>2, <3>3, <1>0, <1>b, ChainEmpty DEF Quantity
  <2>3. CASE ~(v = w /\ RowOf(k) = r)
    <3>1. draft'[v][RowOf(k)] = draft[v][RowOf(k)]
      BY <2>1, <2>3, <1>a DEF IInv, TypeOK
    <3>2. lock'[RowOf(k)] = v => lock[RowOf(k)] = v
      BY <2>1, <2>3, <1>a DEF IInv, TypeOK
    <3>3. QED BY <3>1, <3>2, <1>0 DEF IInv, PendingAgrees, Quantity
  <2>4. QED BY <2>2, <2>3
<1>7. LedgerAgrees'
  BY <1>0 DEF IInv, LedgerAgrees, Quantity
<1>8. QED BY <1>1, <1>2, <1>3, <1>4, <1>5, <1>6, <1>7 DEF IInv

\* A worker that writes the row it holds and goes on to its next item: all but
\* the agreement of quantities and movements.
LEMMA WriteRow ==
  ASSUME IInv, NEW w \in Workers, pc[w] = "apply", NEW sl \in Level,
         draft' = [draft EXCEPT ![w][held[w]] = sl],
         Advance(w),
         \A v \in Workers \ {w} : pending'[v] = pending[v],
         UNCHANGED <<level, lock, req>>
  PROVE  IdleIsClean' /\ ItemInHand' /\ WritesAreLocked' /\ OnePlace'
<1>0. /\ held[w] \in Rows
      /\ held[w][1] = item(w).key
      /\ lock[held[w]] = w
      /\ next[w] \in 1..Len(req[w].items)
      /\ req[w] \in Requests
  BY DEF IInv, ItemInHand
<1>a. Len(req[w].items) \in Nat
  BY <1>0, RequestsAssumption
<1>b. /\ held' = [held EXCEPT ![w] = NoRow]
      /\ \A v \in Workers \ {w} : pc'[v] = pc[v] /\ next'[v] = next[v]
      /\ pc'[w] \in {"get", "commit"}
      /\ pc'[w] = "get" => next'[w] \in 1..Len(req[w].items)
  BY <1>0, <1>a DEF Advance, IInv, TypeOK
<1>c. sl # NoRow
  BY NoRowAssumption
<1>d. \A v \in Workers, r \in Rows :
        draft'[v][r] = IF v = w /\ r = held[w] THEN sl ELSE draft[v][r]
  BY <1>0 DEF IInv, TypeOK
<1>1. IdleIsClean'
  <2>1. \A v \in Workers \ {w} : draft'[v] = draft[v]
    BY DEF IInv, TypeOK
  <2>2. QED BY <1>b, <2>1 DEF IInv, IdleIsClean
<1>2. ItemInHand'
  <2> SUFFICES ASSUME NEW v \in Workers
               PROVE  ItemInHand!(v)'
    BY DEF ItemInHand
  <2>1. CASE v = w
    BY <2>1, <1>0, <1>b
  <2>2. CASE v # w
    <3>1. held'[v] = held[v]
      BY <2>2, <1>b DEF IInv, TypeOK
    <3>2. QED BY <2>2, <3>1, <1>b, <1>d DEF IInv, ItemInHand, item, Current, View
  <2>3. QED BY <2>1, <2>2
<1>3. WritesAreLocked'
  BY <1>0, <1>d DEF IInv, WritesAreLocked
<1>4. OnePlace'
  <2> SUFFICES ASSUME NEW k \in UniqueKeys, NEW s \in Slots, s # FirstSlot,
                      NEW v \in Workers
               PROVE  level[<<k, s>>] = NoRow /\ draft'[v][<<k, s>>] = NoRow
    BY DEF OnePlace
  <2>1. level[<<k, s>>] = NoRow /\ draft[v][<<k, s>>] = NoRow
    BY DEF IInv, OnePlace
  <2>2. View(w, held[w]) # NoRow
    BY DEF IInv, ItemInHand, Current
  <2>3. ~(v = w /\ held[w] = <<k, s>>)
    BY <2>1, <2>2 DEF View
  <2>4. <<k, s>> \in Rows
    BY DEF Rows, UniqueKeys
  <2>5. QED BY <2>1, <2>3, <2>4, <1>d
<1>5. QED BY <1>1, <1>2, <1>3, <1>4

\* The row a worker holds, as it read it.
LEMMA CurrentType ==
  ASSUME IInv, NEW w \in Workers, pc[w] = "apply"
  PROVE  /\ Current(w) \in Level
         /\ Current(w).quantity \in Int
         /\ Current(w).reserved \in Nat
         /\ held[w] \in Rows
<1>1. held[w] \in Rows /\ View(w, held[w]) # NoRow
  BY DEF IInv, ItemInHand, Current
<1>2. View(w, held[w]) \in Level \union {NoRow}
  BY <1>1 DEF IInv, TypeOK, View
<1>3. Current(w) \in Level
  BY <1>1, <1>2 DEF Current
<1>4. QED BY <1>1, <1>3 DEF Level

\* A row of a key with a variant is that key's one row.
LEMMA HeldIsRowOf ==
  ASSUME IInv, NEW w \in Workers, pc[w] = "apply", item(w).key \in UniqueKeys
  PROVE  held[w] = RowOf(item(w).key)
<1>1. /\ held[w] \in Rows
      /\ held[w][1] = item(w).key
      /\ View(w, held[w]) # NoRow
  BY DEF IInv, ItemInHand, Current
<1>2. held[w] = <<item(w).key, held[w][2]>> /\ held[w][2] \in Slots
  BY <1>1 DEF Rows
<1>3. held[w][2] # FirstSlot => View(w, <<item(w).key, held[w][2]>>) = NoRow
  BY <1>2 DEF IInv, OnePlace, View
<1>4. QED BY <1>1, <1>2, <1>3 DEF RowOf

LEMMA AdvanceType ==
  ASSUME IInv, NEW w \in Workers, Advance(w)
  PROVE  /\ next' \in [Workers -> Nat]
         /\ held' \in [Workers -> Rows \union {NoRow}]
         /\ pc' \in [Workers -> {"idle", "get", "insert", "apply", "commit"}]
<1>1. /\ next \in [Workers -> Nat]
      /\ held \in [Workers -> Rows \union {NoRow}]
      /\ pc \in [Workers -> {"idle", "get", "insert", "apply", "commit"}]
  BY DEF IInv, TypeOK
<1>2. held' \in [Workers -> Rows \union {NoRow}]
  BY <1>1 DEF Advance
<1>3. CASE next[w] < Len(req[w].items)
  BY <1>1, <1>2, <1>3 DEF Advance
<1>4. CASE ~(next[w] < Len(req[w].items))
  BY <1>1, <1>2, <1>4 DEF Advance
<1>5. QED BY <1>3, <1>4

\* adjust_stock's update: the movement starts at the quantity the worker read
\* under its lock, which is where its own earlier movements end.
LEMMA AdjustPreserves ==
  ASSUME IInv, NEW w \in Workers, AdjustRow(w)
  PROVE  IInv'
<1> DEFINE k == item(w).key
           sl == [Current(w) EXCEPT !.quantity = After(w)]
           m  == [before |-> Current(w).quantity,
                  delta  |-> item(w).qty,
                  after  |-> After(w)]
<1>0. /\ pc[w] = "apply"
      /\ draft' = [draft EXCEPT ![w][held[w]] = sl]
      /\ pending' = [pending EXCEPT ![w][k] = Append(@, m)]
      /\ Advance(w)
      /\ alerts' \subseteq alerts \union {NewMovement(w)}
      /\ unqueued' \subseteq unqueued \union {NewMovement(w)}
      /\ settings' = [settings EXCEPT ![w] =
           IF _tenant_allows_negative(w) THEN "yes" ELSE "no"]
      /\ UNCHANGED <<level, ledger, allowNegative, everAllowed, lock, req>>
  BY DEF AdjustRow, _trigger_reorder_alert
<1>a. /\ k \in Keys
      /\ item(w).qty \in Int
      /\ held[w] \in Rows
      /\ Current(w) \in Level /\ Current(w).quantity \in Int
  BY <1>0, ItemType, CurrentType
<1>b. After(w) \in Int /\ m \in Movement
  BY <1>a DEF After, Movement
<1>c. sl \in Level /\ sl.quantity = After(w) /\ sl # NoRow
  BY <1>a, <1>b, NoRowAssumption DEF Level
<1>d. \A v \in Workers, j \in Keys :
        pending'[v][j] = IF v = w /\ j = k THEN Append(pending[w][k], m) ELSE pending[v][j]
  BY <1>0, <1>a DEF IInv, TypeOK
<1>e. \A v \in Workers, r \in Rows :
        draft'[v][r] = IF v = w /\ r = held[w] THEN sl ELSE draft[v][r]
  BY <1>0, <1>a DEF IInv, TypeOK
<1>1. TypeOK'
  <2>1. Append(pending[w][k], m) \in Seq(Movement)
    BY <1>a, <1>b DEF IInv, TypeOK
  <2>2. pending' \in [Workers -> [Keys -> Seq(Movement)]]
    BY <2>1, <1>0, <1>a DEF IInv, TypeOK
  <2>3. draft' \in [Workers -> [Rows -> Level \union {NoRow}]]
    BY <1>0, <1>a, <1>c DEF IInv, TypeOK
  <2>4. settings' \in [Workers -> {"unread", "yes", "no"}]
    BY <1>0, <1>a DEF IInv, TypeOK
  <2>5. Len(ledger[k]) \in Nat /\ Len(pending[w][k]) \in Nat
    BY <1>a DEF IInv, TypeOK
  <2>9. Len(ledger[k]) + Len(pending[w][k]) + 1 \in Nat /\ k \in Keys
    <3>1. \A a, b \in Nat : a + b + 1 \in Nat
      OBVIOUS
    <3>2. QED BY <3>1, <2>5, <1>a, Zenon
  <2>6. NewMovement(w) \in Keys \X Nat
    BY <2>9, Zenon DEF NewMovement
  <2>7. alerts' \subseteq Keys \X Nat /\ unqueued' \subseteq Keys \X Nat
    BY <2>6, <1>0 DEF IInv, TypeOK
  <2>8. QED BY <1>0, <2>2, <2>3, <2>4, <2>7, AdvanceType DEF IInv, TypeOK
<1>2. IdleIsClean' /\ ItemInHand' /\ WritesAreLocked' /\ OnePlace'
  <2>1. \A v \in Workers \ {w} : pending'[v] = pending[v]
    BY <1>0 DEF IInv, TypeOK
  <2>2. QED BY <2>1, <1>0, <1>c, WriteRow
<1>3. PendingAgrees'
  <2> SUFFICES ASSUME NEW v \in Workers, NEW j \in UniqueKeys
               PROVE  PendingAgrees!(v, j)'
    BY DEF PendingAgrees
  <2>1. j \in Keys /\ RowOf(j) \in Rows
    BY RowFacts DEF UniqueKeys
  <2>2. CASE v = w /\ j = k
    <3>1. held[w] = RowOf(k) /\ lock[RowOf(k)] = w
      BY <2>2, <1>0, HeldIsRowOf DEF IInv, ItemInHand
    <3>2. Quantity(RowOf(k)) \in Int
      BY <2>1, <2>2 DEF IInv, TypeOK, Quantity, Level
    <3>3. Continues(pending[w][k], Quantity(RowOf(k)))
      BY <3>1, <2>2 DEF IInv, PendingAgrees
    <3>4. Current(w).quantity = EndsAt(pending[w][k], Quantity(RowOf(k)))
      <4>1. CASE draft[w][RowOf(k)] # NoRow
        BY <4>1, <3>1, <2>2 DEF IInv, PendingAgrees, Current, View
      <4>2. CASE draft[w][RowOf(k)] = NoRow
        <5>1. pending[w][k] = <<>>
          BY <4>2, <2>2 DEF IInv, PendingAgrees
        <5>2. Current(w) = level[RowOf(k)] /\ level[RowOf(k)] # NoRow
          BY <4>2, <3>1, <1>0 DEF IInv, ItemInHand, Current, View
        <5>3. QED BY <5>1, <5>2, <3>2, ChainEmpty DEF Quantity
      <4>3. QED BY <4>1, <4>2
    <3>5. pending[w][k] \in Seq(Movement)
      BY <1>a DEF IInv, TypeOK
    <3>6. /\ Continues(Append(pending[w][k], m), Quantity(RowOf(k)))
          /\ EndsAt(Append(pending[w][k], m), Quantity(RowOf(k))) = After(w)
      <4>1. m.before = Current(w).quantity /\ m.after = m.before + m.delta
        BY DEF After
      <4>2. QED BY <4>1, <3>2, <3>3, <3>4, <3>5, <1>b, ChainAppend
    <3>7. Quantity(RowOf(j))' = Quantity(RowOf(k))
      BY <2>2, <1>0 DEF Quantity
    <3>8. pending'[w][k] = Append(pending[w][k], m) /\ draft'[w][RowOf(k)] = sl
      BY <1>d, <1>e, <3>1, <1>a
    <3>9. QED BY <3>6, <3>7, <3>8, <2>2, <1>c
  <2>3. CASE ~(v = w /\ j = k)
    <3>1. ~(v = w /\ RowOf(j) = held[w])
      BY <2>3, <1>0 DEF IInv, ItemInHand, RowOf
    <3>2. pending'[v][j] = pending[v][j] /\ draft'[v][RowOf(j)] = draft[v][RowOf(j)]
      BY <2>1, <2>3, <3>1, <1>d, <1>e
    <3>3. QED BY <3>2, <1>0 DEF IInv, PendingAgrees, Quantity
  <2>4. QED BY <2>2, <2>3
<1>4. LedgerAgrees'
  BY <1>0 DEF IInv, LedgerAgrees, Quantity
<1>5. QED BY <1>1, <1>2, <1>3, <1>4 DEF IInv

\* Both reservation updates write a natural number: a reservation adds a positive
\* quantity, a release stops at zero.
LEMMA HoldWrites ==
  ASSUME IInv, NEW w \in Workers, ReserveRow(w) \/ ReleaseRow(w)
  PROVE  \E n \in Nat :
           /\ pc[w] = "apply"
           /\ SetReserved(w, n)
           /\ Advance(w)
           /\ UNCHANGED <<shared, lock, req, pending, settings>>
<1>1. CASE ReserveRow(w)
  <2>1. /\ pc[w] = "apply" /\ req[w].op = "reserve" /\ req[w] \in Requests
        /\ next[w] \in 1..Len(req[w].items)
    BY <1>1 DEF ReserveRow, IInv, ItemInHand
  <2>2. item(w).qty > 0 /\ item(w).qty \in Int
    BY <2>1, ItemType, RequestsAssumption DEF item
  <2>3. Current(w).reserved + item(w).qty \in Nat
    BY <2>1, <2>2, CurrentType
  <2>4. QED BY <1>1, <2>3 DEF ReserveRow
<1>2. CASE ReleaseRow(w)
  <2>1. pc[w] = "apply"
    BY <1>2 DEF ReleaseRow
  <2>2. Current(w).reserved - item(w).qty \in Int
    BY <2>1, ItemType, CurrentType
  <2>3. Max({Current(w).reserved - item(w).qty, 0}) \in Nat
    BY <2>2, MaxOfTwo
  <2>4. QED BY <1>2, <2>3 DEF ReleaseRow
<1>3. QED BY <1>1, <1>2

\* Reservations leave the quantity of the row alone.
LEMMA ReservedPreserves ==
  ASSUME IInv, NEW w \in Workers, ReserveRow(w) \/ ReleaseRow(w)
  PROVE  IInv'
<1>0. PICK n \in Nat :
      /\ pc[w] = "apply"
      /\ SetReserved(w, n)
      /\ Advance(w)
      /\ UNCHANGED <<shared, lock, req, pending, settings>>
  BY HoldWrites
<1> DEFINE sl == [Current(w) EXCEPT !.reserved = n]
<1>a. /\ held[w] \in Rows
      /\ Current(w) \in Level /\ Current(w).quantity \in Int
  BY <1>0, CurrentType
<1>b. sl \in Level /\ sl.quantity = Current(w).quantity /\ sl # NoRow
  BY <1>a, NoRowAssumption DEF Level
<1>c. draft' = [draft EXCEPT ![w][held[w]] = sl]
  BY <1>0 DEF SetReserved
<1>d. \A v \in Workers, r \in Rows :
        draft'[v][r] = IF v = w /\ r = held[w] THEN sl ELSE draft[v][r]
  BY <1>c, <1>a DEF IInv, TypeOK
<1> USE DEF shared
<1>1. TypeOK'
  <2>1. draft' \in [Workers -> [Rows -> Level \union {NoRow}]]
    BY <1>c, <1>a, <1>b DEF IInv, TypeOK
  <2>2. QED BY <1>0, <2>1, AdvanceType DEF IInv, TypeOK
<1>2. IdleIsClean' /\ ItemInHand' /\ WritesAreLocked' /\ OnePlace'
  BY <1>0, <1>b, <1>c, WriteRow
<1>3. PendingAgrees'
  <2> SUFFICES ASSUME NEW v \in Workers, NEW j \in UniqueKeys
               PROVE  PendingAgrees!(v, j)'
    BY DEF PendingAgrees
  <2>1. j \in Keys /\ RowOf(j) \in Rows
    BY RowFacts DEF UniqueKeys
  <2>2. CASE v = w /\ RowOf(j) = held[w]
    <3>1. CASE draft[w][held[w]] # NoRow
      <4>1. Current(w) = draft[w][RowOf(j)]
        BY <3>1, <2>2 DEF Current, View
      <4>2. draft'[w][RowOf(j)] = sl
        BY <1>d, <2>1, <2>2
      <4>3. sl.quantity = draft[w][RowOf(j)].quantity
        BY <4>1, <1>b
      <4>4. draft'[w][RowOf(j)].quantity = draft[w][RowOf(j)].quantity
        BY <4>2, <4>3
      <4>5. QED BY <4>2, <4>4, <3>1, <2>2, <1>0, <1>b DEF IInv, PendingAgrees, Quantity
    <3>2. CASE draft[w][held[w]] = NoRow
      <4>1. pending[w][j] = <<>>
        BY <3>2, <2>2 DEF IInv, PendingAgrees
      <4>2. Current(w) = level[RowOf(j)] /\ level[RowOf(j)] # NoRow
        BY <3>2, <2>2, <1>0 DEF IInv, ItemInHand, Current, View
      <4>3. Quantity(RowOf(j)) = sl.quantity
        BY <4>2, <1>b DEF Quantity
      <4>4. draft'[w][RowOf(j)] = sl
        BY <1>d, <2>1, <2>2
      <4>5. sl.quantity \in Int
        BY <1>a, <1>b
      <4>6. EndsAt(<<>>, sl.quantity) = sl.quantity /\ Continues(<<>>, sl.quantity)
        BY <4>5, ChainEmpty
      <4>7. QED BY <4>1, <4>3, <4>4, <4>6, <2>2, <1>0, <1>b DEF Quantity
    <3>3. QED BY <3>1, <3>2
  <2>3. CASE ~(v = w /\ RowOf(j) = held[w])
    BY <2>1, <2>3, <1>0, <1>d DEF IInv, PendingAgrees, Quantity
  <2>4. QED BY <2>2, <2>3
<1>4. LedgerAgrees'
  BY <1>0 DEF IInv, LedgerAgrees, Quantity
<1>5. QED BY <1>1, <1>2, <1>3, <1>4 DEF IInv

\* COMMIT publishes the view of one worker: the movements it appends continue
\* the ledger to the quantity it publishes, and nobody else had the lock.
LEMMA CommitPreserves ==
  ASSUME IInv, NEW w \in Workers, Commit(w)
  PROVE  IInv'
<1>0. /\ level' = [r \in Rows |-> View(w, r)]
      /\ ledger' = [k \in Keys |-> ledger[k] \o pending[w][k]]
      /\ EndTransaction(w)
      /\ UNCHANGED <<alerts, unqueued, allowNegative, everAllowed>>
  BY DEF Commit
<1>a. \A r \in Rows : level'[r] = IF draft[w][r] # NoRow THEN draft[w][r] ELSE level[r]
  BY <1>0 DEF View
<1>b. \A v \in Workers \ {w} :
        /\ draft'[v] = draft[v] /\ pending'[v] = pending[v]
        /\ pc'[v] = pc[v] /\ req'[v] = req[v] /\ next'[v] = next[v] /\ held'[v] = held[v]
  BY <1>0 DEF EndTransaction, IInv, TypeOK
<1>c. draft'[w] = NoDraft /\ pending'[w] = NoPending /\ pc'[w] = "idle" /\ next'[w] = 1
  BY <1>0 DEF EndTransaction, IInv, TypeOK
<1>d. \A r \in Rows : lock'[r] = IF lock[r] = w THEN NoWorker ELSE lock[r]
  BY <1>0 DEF EndTransaction
<1>1. TypeOK'
  <2>1. level' \in [Rows -> Level \union {NoRow}]
    BY <1>0 DEF IInv, TypeOK, View
  <2>2. ledger' \in [Keys -> Seq(Movement)]
    BY <1>0 DEF IInv, TypeOK
  <2>3. QED BY <2>1, <2>2, <1>0, RowFacts DEF EndTransaction, IInv, TypeOK, Calls
<1>2. IdleIsClean'
  BY <1>b, <1>c DEF IInv, IdleIsClean
<1>3. ItemInHand'
  <2> SUFFICES ASSUME NEW v \in Workers
               PROVE  ItemInHand!(v)'
    BY DEF ItemInHand
  <2>1. CASE v = w
    BY <2>1, <1>c
  <2>2. CASE v # w
    <3>1. pc[v] = "apply" => lock'[held[v]] = v
      BY <2>2, <1>d DEF IInv, ItemInHand
    <3>2. pc[v] = "apply" => Current(v)' # NoRow
      BY <2>2, <1>a, <1>b, NoRowAssumption DEF IInv, ItemInHand, Current, View
    <3>3. QED BY <3>1, <3>2, <2>2, <1>b DEF IInv, ItemInHand, item
  <2>3. QED BY <2>1, <2>2
<1>4. WritesAreLocked'
  <2> SUFFICES ASSUME NEW v \in Workers, NEW r \in Rows, draft'[v][r] # NoRow
               PROVE  lock'[r] = v
    BY DEF WritesAreLocked
  <2>1. v # w
    BY <1>c, RowFacts
  <2>2. lock[r] = v
    BY <2>1, <1>b DEF IInv, WritesAreLocked
  <2>3. QED BY <2>1, <2>2, <1>d
<1>5. OnePlace'
  <2> SUFFICES ASSUME NEW k \in UniqueKeys, NEW s \in Slots, s # FirstSlot,
                      NEW v \in Workers
               PROVE  level'[<<k, s>>] = NoRow /\ draft'[v][<<k, s>>] = NoRow
    BY DEF OnePlace
  <2>1. <<k, s>> \in Rows
    BY DEF Rows, UniqueKeys
  <2>2. /\ level[<<k, s>>] = NoRow
        /\ \A u \in Workers : draft[u][<<k, s>>] = NoRow
    BY DEF IInv, OnePlace
  <2>3. level'[<<k, s>>] = NoRow
    BY <2>1, <2>2, <1>a
  <2>4. draft'[v][<<k, s>>] = NoRow
    BY <2>1, <2>2, <1>b, <1>c, RowFacts
  <2>5. QED BY <2>3, <2>4
<1>6. PendingAgrees'
  <2> SUFFICES ASSUME NEW v \in Workers, NEW k \in UniqueKeys
               PROVE  PendingAgrees!(v, k)'
    BY DEF PendingAgrees
  <2>1. k \in Keys /\ RowOf(k) \in Rows
    BY RowFacts DEF UniqueKeys
  <2>2. CASE v = w
    <3>1. pending'[v][k] = <<>> /\ draft'[v][RowOf(k)] = NoRow
      BY <2>1, <2>2, <1>c, RowFacts
    <3>2. lock'[RowOf(k)] # v
      BY <2>1, <2>2, <1>d, NoRowAssumption
    <3>3. QED BY <3>1, <3>2
  <2>3. CASE v # w
    <3>1. pending'[v][k] = pending[v][k] /\ draft'[v][RowOf(k)] = draft[v][RowOf(k)]
      BY <2>3, <1>b
    <3>2. lock'[RowOf(k)] = v => lock[RowOf(k)] = v
      BY <2>1, <1>d, NoRowAssumption
    <3>3. lock[RowOf(k)] = v => Quantity(RowOf(k))' = Quantity(RowOf(k))
      <4>1. lock[RowOf(k)] = v => draft[w][RowOf(k)] = NoRow
        BY <2>1, <2>3 DEF IInv, WritesAreLocked
      <4>2. QED BY <4>1, <2>1, <1>a DEF Quantity
    <3>4. draft[v][RowOf(k)] # NoRow => lock[RowOf(k)] = v
      BY <2>1 DEF IInv, WritesAreLocked
    <3>5. QED BY <3>1, <3>2, <3>3, <3>4 DEF IInv, PendingAgrees
  <2>4. QED BY <2>2, <2>3
<1>7. LedgerAgrees'
  <2> SUFFICES ASSUME NEW k \in UniqueKeys
               PROVE  /\ Continues(ledger'[k], 0)
                      /\ Quantity(RowOf(k))' = EndsAt(ledger'[k], 0)
    BY DEF LedgerAgrees, RowOf
  <2> DEFINE l == ledger[k]
             p == pending[w][k]
  <2>1. k \in Keys /\ RowOf(k) \in Rows
    BY RowFacts DEF UniqueKeys
  <2>2. /\ l \in Seq(Movement) /\ p \in Seq(Movement)
        /\ ledger'[k] = l \o p
        /\ Continues(l, 0) /\ Quantity(RowOf(k)) = EndsAt(l, 0)
    BY <2>1, <1>0 DEF IInv, TypeOK, LedgerAgrees, RowOf
  <2>3. CASE draft[w][RowOf(k)] # NoRow
    <3>1. lock[RowOf(k)] = w
      BY <2>1, <2>3 DEF IInv, WritesAreLocked
    <3>2. /\ Continues(p, EndsAt(l, 0))
          /\ draft[w][RowOf(k)].quantity = EndsAt(p, EndsAt(l, 0))
      BY <2>2, <2>3, <3>1 DEF IInv, PendingAgrees
    <3>3. Quantity(RowOf(k))' = EndsAt(p, EndsAt(l, 0))
      BY <3>2, <2>1, <2>3, <1>a DEF Quantity
    <3>4. Continues(l \o p, 0) /\ EndsAt(l \o p, 0) = EndsAt(p, EndsAt(l, 0))
      BY <2>2, <3>2, ChainConcat
    <3>5. QED BY <3>3, <3>4, <2>2
  <2>4. CASE draft[w][RowOf(k)] = NoRow
    <3>1. p = <<>>
      BY <2>4 DEF IInv, PendingAgrees
    <3>2. ledger'[k] = l
      BY <3>1, <2>2
    <3>3. Quantity(RowOf(k))' = Quantity(RowOf(k))
      BY <2>1, <2>4, <1>a DEF Quantity
    <3>4. QED BY <3>2, <3>3, <2>2
  <2>5. QED BY <2>3, <2>4
<1>8. QED BY <1>1, <1>2, <1>3, <1>4, <1>5, <1>6, <1>7 DEF IInv

LEMMA SettingsPreserve ==
  ASSUME IInv, UpdateSettings
  PROVE  IInv'
<1> USE DEF UpdateSettings, local
<1>1. TypeOK'
  BY DEF IInv, TypeOK
<1>2. IdleIsClean' /\ WritesAreLocked' /\ OnePlace'
  BY DEF IInv, IdleIsClean, WritesAreLocked, OnePlace
<1>3. ItemInHand'
  BY DEF IInv, ItemInHand, item, Current, View
<1>4. PendingAgrees' /\ LedgerAgrees'
  BY DEF IInv, PendingAgrees, LedgerAgrees, Quantity
<1>5. QED BY <1>1, <1>2, <1>3, <1>4 DEF IInv

LEMMA StutterPreserves ==
  ASSUME IInv, UNCHANGED vars
  PROVE  IInv'
<1> USE DEF vars, shared, local
<1>1. TypeOK'
  BY DEF IInv, TypeOK
<1>2. IdleIsClean' /\ WritesAreLocked' /\ OnePlace'
  BY DEF IInv, IdleIsClean, WritesAreLocked, OnePlace
<1>3. ItemInHand'
  BY DEF IInv, ItemInHand, item, Current, View
<1>4. PendingAgrees' /\ LedgerAgrees'
  BY DEF IInv, PendingAgrees, LedgerAgrees, Quantity
<1>5. QED BY <1>1, <1>2, <1>3, <1>4 DEF IInv

LEMMA StepInvariant == IInv /\ [Next]_vars => IInv'
<1> SUFFICES ASSUME IInv, [Next]_vars PROVE IInv'
  OBVIOUS
<1>1. ASSUME NEW w \in Workers, NEW r \in Requests, Begin(w, r) PROVE IInv'
  BY <1>1, BeginPreserves
<1>2. ASSUME NEW w \in Workers, Select(w) PROVE IInv'
  BY <1>2, GetRowPreserves, MovePreserves, RollbackPreserves
     DEF Select, GetMultiple, NothingToHold
<1>3. ASSUME NEW w \in Workers, Insert(w) PROVE IInv'
  BY <1>3, InsertPreserves
<1>4. ASSUME NEW w \in Workers, Run(w) PROVE IInv'
  BY <1>4, MovePreserves, AdjustPreserves, ReservedPreserves, CommitPreserves,
     RollbackPreserves
     DEF Run, Apply, ZeroDelta, AdjustInsufficient, ReserveInsufficient, DeadlockAbort
<1>5. ASSUME NEW w \in Workers, Crash(w) PROVE IInv'
  BY <1>5, RollbackPreserves DEF Crash
<1>6. CASE UpdateSettings
  BY <1>6, SettingsPreserve
<1>7. CASE UNCHANGED vars
  BY <1>7, StutterPreserves
<1>8. QED BY <1>1, <1>2, <1>3, <1>4, <1>5, <1>6, <1>7 DEF Next

-----------------------------------------------------------------------------
(* Negative stock.                                                         *)

LEMMA InitAllowed == Init => AllowedBeforeNegative
<1> SUFFICES ASSUME Init PROVE AllowedBeforeNegative
  OBVIOUS
<1>1. ASSUME NEW r \in Rows PROVE level[r] = NoRow
  BY DEF Init, NoDraft
<1>2. ASSUME NEW w \in Workers, NEW r \in Rows PROVE View(w, r) = NoRow
  BY <1>1 DEF Init, NoDraft, View
<1>3. \A w \in Workers : settings[w] # "yes"
  BY DEF Init
<1>4. \A r \in Rows : Quantity(r) = 0
  BY <1>1 DEF Quantity
<1>5. allowNegative => everAllowed
  BY DEF Init
<1>6. QED BY <1>2, <1>3, <1>4, <1>5 DEF AllowedBeforeNegative, NeverNegative

\* A worker whose view of each row is old or has a permitted quantity keeps the
\* invariant, as long as nothing is committed.
LEMMA ViewPreserves ==
  ASSUME AllowedBeforeNegative,
         UNCHANGED <<level, everAllowed, allowNegative>>,
         \A w \in Workers : settings'[w] = "yes" => everAllowed,
         \A w \in Workers, r \in Rows :
           \/ View(w, r)' \in {View(w, r), level[r]}
           \/ View(w, r)'.quantity < 0 => everAllowed
  PROVE  AllowedBeforeNegative'
<1>1. \A r \in Rows : level[r] # NoRow /\ level[r].quantity < 0 => everAllowed
  BY DEF AllowedBeforeNegative, NeverNegative, Quantity
<1>2. ASSUME NEW w \in Workers, NEW r \in Rows,
             View(w, r)' # NoRow, View(w, r)'.quantity < 0
      PROVE  everAllowed
  BY <1>1, <1>2 DEF AllowedBeforeNegative
<1>3. NeverNegative'
  BY DEF AllowedBeforeNegative, NeverNegative, Quantity
<1>4. allowNegative' => everAllowed'
  BY DEF AllowedBeforeNegative
<1>5. QED BY <1>2, <1>3, <1>4 DEF AllowedBeforeNegative

\* What w knows of the setting has been true.
LEMMA AllowsFact ==
  ASSUME AllowedBeforeNegative, NEW w \in Workers, _tenant_allows_negative(w)
  PROVE  everAllowed
BY DEF AllowedBeforeNegative, _tenant_allows_negative

LEMMA RollbackAllowed ==
  ASSUME IInv, AllowedBeforeNegative, NEW w \in Workers, Rollback(w)
  PROVE  AllowedBeforeNegative'
<1> USE DEF Rollback, EndTransaction, shared
<1>1. ASSUME NEW v \in Workers, NEW r \in Rows
      PROVE  View(v, r)' \in {View(v, r), level[r]}
  BY DEF View, NoDraft, IInv, TypeOK
<1>2. \A v \in Workers : settings'[v] = "yes" => everAllowed
  BY DEF AllowedBeforeNegative
<1>3. QED BY <1>1, <1>2, ViewPreserves

\* The steps that write no row: a call, a SELECT, a conflict.
LEMMA QuietAllowed ==
  ASSUME AllowedBeforeNegative, UNCHANGED <<level, everAllowed, allowNegative, draft>>,
         \A v \in Workers : settings'[v] = "yes" => settings[v] = "yes"
  PROVE  AllowedBeforeNegative'
<1>1. \A v \in Workers, r \in Rows : View(v, r)' = View(v, r)
  BY DEF View
<1>2. \A v \in Workers : settings'[v] = "yes" => everAllowed
  BY DEF AllowedBeforeNegative
<1>3. QED BY <1>1, <1>2, ViewPreserves

\* A step of w that writes one row, with a quantity it may have.
LEMMA DraftAllowed ==
  ASSUME IInv, AllowedBeforeNegative, NEW w \in Workers, NEW h \in Rows, NEW new \in Level,
         draft' = [draft EXCEPT ![w][h] = new],
         new.quantity < 0 => everAllowed,
         UNCHANGED <<level, everAllowed, allowNegative>>,
         \A v \in Workers : settings'[v] = "yes" => everAllowed
  PROVE  AllowedBeforeNegative'
<1>1. draft \in [Workers -> [Rows -> Level \union {NoRow}]]
  BY DEF IInv, TypeOK
<1>2. ASSUME NEW v \in Workers, NEW r \in Rows, <<v, r>> # <<w, h>>
      PROVE  View(v, r)' = View(v, r)
  BY <1>1, <1>2 DEF View
<1>3. View(w, h)' = new
  BY <1>1, NoRowAssumption DEF View
<1>4. ASSUME NEW v \in Workers, NEW r \in Rows
      PROVE  \/ View(v, r)' \in {View(v, r), level[r]}
             \/ View(v, r)'.quantity < 0 => everAllowed
  BY <1>2, <1>3
<1>5. QED BY <1>4, ViewPreserves

LEMMA InsertAllowed ==
  ASSUME IInv, AllowedBeforeNegative, NEW w \in Workers, Insert(w)
  PROVE  AllowedBeforeNegative'
<1> USE DEF Insert, shared
<1> DEFINE zero == [quantity |-> 0, reserved |-> 0]
<1>1. item(w).key \in Keys
  BY ItemType DEF IInv, ItemInHand
<1>2. PICK h \in InsertSlots(item(w).key) : draft' = [draft EXCEPT ![w][h] = zero]
  OBVIOUS
<1>3. h \in Rows
  BY <1>1, <1>2, SlotsAssumption DEF InsertSlots, Rows
<1>4. zero \in Level /\ (zero.quantity < 0 => everAllowed)
  BY DEF Level
<1>5. \A v \in Workers : settings'[v] = "yes" => everAllowed
  BY DEF AllowedBeforeNegative
<1>6. UNCHANGED <<level, everAllowed, allowNegative>>
  OBVIOUS
<1> HIDE DEF zero, Insert
<1>7. QED BY <1>2, <1>3, <1>4, <1>5, <1>6, DraftAllowed

\* An adjustment goes below zero only with the permission it has read.
LEMMA AdjustAllowed ==
  ASSUME IInv, AllowedBeforeNegative, NEW w \in Workers, AdjustRow(w)
  PROVE  AllowedBeforeNegative'
<1> DEFINE sl == [Current(w) EXCEPT !.quantity = After(w)]
<1>1. /\ pc[w] = "apply"
      /\ After(w) < 0 => _tenant_allows_negative(w)
      /\ draft' = [draft EXCEPT ![w][held[w]] = sl]
      /\ settings' = [settings EXCEPT ![w] =
           IF _tenant_allows_negative(w) THEN "yes" ELSE "no"]
      /\ UNCHANGED <<level, everAllowed, allowNegative>>
  BY DEF AdjustRow
<1>2. held[w] \in Rows /\ Current(w) \in Level /\ After(w) \in Int
  BY <1>1, CurrentType, ItemType DEF After
<1>3. sl \in Level /\ sl.quantity = After(w)
  BY <1>2 DEF Level
<1>4. sl.quantity < 0 => everAllowed
  BY <1>1, <1>3, AllowsFact
<1>5. ASSUME NEW v \in Workers, settings'[v] = "yes" PROVE everAllowed
  <2>1. CASE v = w
    BY <2>1, <1>1, <1>5, AllowsFact DEF IInv, TypeOK
  <2>2. CASE v # w
    BY <2>2, <1>1, <1>5 DEF IInv, TypeOK, AllowedBeforeNegative
  <2>3. QED BY <2>1, <2>2
<1> HIDE DEF sl
<1>6. QED BY <1>1, <1>2, <1>3, <1>4, <1>5, DraftAllowed

\* A reservation keeps the quantity of its row.
LEMMA HoldAllowed ==
  ASSUME IInv, AllowedBeforeNegative, NEW w \in Workers, ReserveRow(w) \/ ReleaseRow(w)
  PROVE  AllowedBeforeNegative'
<1>0. PICK n \in Nat :
      /\ pc[w] = "apply"
      /\ SetReserved(w, n)
      /\ Advance(w)
      /\ UNCHANGED <<shared, lock, req, pending, settings>>
  BY HoldWrites
<1> DEFINE sl == [Current(w) EXCEPT !.reserved = n]
<1>1. /\ draft' = [draft EXCEPT ![w][held[w]] = sl]
      /\ UNCHANGED <<level, everAllowed, allowNegative>>
  BY <1>0 DEF SetReserved, shared
<1>2. held[w] \in Rows /\ Current(w) \in Level
  BY <1>0, CurrentType
<1>3. sl \in Level /\ sl.quantity = Current(w).quantity
  BY <1>2 DEF Level
<1>4. View(w, held[w]) # NoRow /\ Current(w) = View(w, held[w])
  BY <1>2, NoRowAssumption DEF Current
<1>5. sl.quantity < 0 => everAllowed
  BY <1>2, <1>3, <1>4 DEF AllowedBeforeNegative
<1>6. \A v \in Workers : settings'[v] = "yes" => everAllowed
  BY <1>0 DEF AllowedBeforeNegative
<1> HIDE DEF sl
<1>7. QED BY <1>1, <1>2, <1>3, <1>5, <1>6, DraftAllowed

\* What a commit makes public was permitted when it was written.
LEMMA CommitAllowed ==
  ASSUME IInv, AllowedBeforeNegative, NEW w \in Workers, Commit(w)
  PROVE  AllowedBeforeNegative'
<1>1. /\ level' = [r \in Rows |-> View(w, r)]
      /\ draft' = [draft EXCEPT ![w] = NoDraft]
      /\ UNCHANGED <<allowNegative, everAllowed, settings>>
  BY DEF Commit, EndTransaction
<1>2. \A r \in Rows : level'[r] # NoRow /\ level'[r].quantity < 0 => everAllowed
  BY <1>1 DEF AllowedBeforeNegative
<1>3. ASSUME NEW v \in Workers, NEW r \in Rows
      PROVE  View(v, r)' \in {View(v, r), level'[r]}
  BY <1>1 DEF View, NoDraft, IInv, TypeOK
<1>4. \A v \in Workers, r \in Rows :
        View(v, r)' # NoRow /\ View(v, r)'.quantity < 0 => everAllowed'
  BY <1>1, <1>2, <1>3 DEF AllowedBeforeNegative
<1>5. NeverNegative'
  BY <1>1, <1>2 DEF NeverNegative, Quantity
<1>6. QED BY <1>1, <1>4, <1>5 DEF AllowedBeforeNegative

LEMMA SettingsAllowed ==
  ASSUME AllowedBeforeNegative, UpdateSettings
  PROVE  AllowedBeforeNegative'
<1> USE DEF UpdateSettings, local
<1>1. everAllowed => everAllowed'
  OBVIOUS
<1>2. \A w \in Workers, r \in Rows : View(w, r)' = View(w, r)
  BY DEF View
<1>3. \A r \in Rows : Quantity(r)' = Quantity(r)
  BY DEF Quantity
<1>4. allowNegative' => everAllowed'
  OBVIOUS
<1>5. QED BY <1>1, <1>2, <1>3, <1>4 DEF AllowedBeforeNegative, NeverNegative

LEMMA StepAllowed == IInv /\ AllowedBeforeNegative /\ [Next]_vars => AllowedBeforeNegative'
<1> SUFFICES ASSUME IInv, AllowedBeforeNegative, [Next]_vars PROVE AllowedBeforeNegative'
  OBVIOUS
<1>1. ASSUME NEW w \in Workers, NEW r \in Requests, Begin(w, r)
      PROVE  AllowedBeforeNegative'
  <2>1. \A v \in Workers : settings'[v] = "yes" => settings[v] = "yes"
    BY <1>1 DEF Begin, IInv, TypeOK
  <2>2. QED BY <1>1, <2>1, QuietAllowed DEF Begin, shared
<1>2. ASSUME NEW w \in Workers, Select(w) PROVE AllowedBeforeNegative'
  <2>1. CASE GetRow(w) \/ GetMissing(w)
    BY <2>1, QuietAllowed DEF GetRow, GetMissing, shared
  <2>2. CASE GetMultiple(w) \/ NothingToHold(w)
    BY <2>2, RollbackAllowed DEF GetMultiple, NothingToHold
  <2>3. QED BY <1>2, <2>1, <2>2 DEF Select
<1>3. ASSUME NEW w \in Workers, Insert(w) PROVE AllowedBeforeNegative'
  BY <1>3, InsertAllowed
<1>4. ASSUME NEW w \in Workers, Run(w) PROVE AllowedBeforeNegative'
  <2>1. CASE InsertConflict(w)
    BY <2>1, QuietAllowed DEF InsertConflict, shared
  <2>2. CASE \/ ZeroDelta(w) \/ AdjustInsufficient(w)
             \/ ReserveInsufficient(w) \/ DeadlockAbort(w)
    BY <2>2, RollbackAllowed
       DEF ZeroDelta, AdjustInsufficient, ReserveInsufficient, DeadlockAbort
  <2>3. CASE AdjustRow(w)
    BY <2>3, AdjustAllowed
  <2>4. CASE ReserveRow(w) \/ ReleaseRow(w)
    BY <2>4, HoldAllowed
  <2>5. CASE Commit(w)
    BY <2>5, CommitAllowed
  <2>6. QED BY <1>4, <2>1, <2>2, <2>3, <2>4, <2>5 DEF Run, Apply
<1>5. ASSUME NEW w \in Workers, Crash(w) PROVE AllowedBeforeNegative'
  BY <1>5, RollbackAllowed DEF Crash
<1>6. CASE UpdateSettings
  BY <1>6, SettingsAllowed
<1>7. CASE UNCHANGED vars
  BY <1>7, QuietAllowed DEF vars, shared, local
<1>8. QED BY <1>1, <1>2, <1>3, <1>4, <1>5, <1>6, <1>7 DEF Next

-----------------------------------------------------------------------------
(* Low stock.                                                              *)

LEMMA InitAlerted == Init => AlertedBeforeCommit
<1> SUFFICES ASSUME Init PROVE AlertedBeforeCommit
  OBVIOUS
<1>1. \A k \in Tracked : ledger[k] = <<>>
  BY RowFacts, KeysAssumption DEF Init
<1>2. \A w \in Workers, k \in Tracked : pending[w][k] = <<>>
  BY RowFacts, KeysAssumption DEF Init
<1>3. QED BY <1>1, <1>2 DEF AlertedBeforeCommit, LowStockAlerted, Alerted

\* A step that appends no movement, or drops those of a worker, needs no alert.
LEMMA QuietAlerted ==
  ASSUME IInv, AlertedBeforeCommit,
         ledger' = ledger, alerts' = alerts, unqueued' = unqueued,
         \A v \in Workers : pending'[v] \in {pending[v], NoPending}
  PROVE  AlertedBeforeCommit'
<1>1. LowStockAlerted'
  BY DEF AlertedBeforeCommit, LowStockAlerted, Alerted
<1>2. ASSUME NEW v \in Workers, NEW k \in Tracked \intersect UniqueKeys
      PROVE  Alerted(k, pending[v][k], Len(ledger[k]))'
  <2>1. CASE pending'[v] = pending[v]
    BY <2>1 DEF AlertedBeforeCommit, Alerted
  <2>2. CASE pending'[v] = NoPending
    <3>1. pending'[v][k] = <<>>
      BY <2>2, RowFacts, KeysAssumption
    <3>2. QED BY <3>1 DEF Alerted
  <2>3. QED BY <2>1, <2>2
<1>3. QED BY <1>1, <1>2 DEF AlertedBeforeCommit

\* A movement at or below the reorder point comes with its alert.
LEMMA AdjustAlerted ==
  ASSUME IInv, AlertedBeforeCommit, NEW w \in Workers, AdjustRow(w)
  PROVE  AlertedBeforeCommit'
<1> DEFINE m == [before |-> Current(w).quantity, delta |-> item(w).qty, after |-> After(w)]
           told == alerts \union unqueued
<1>1. /\ pc[w] = "apply"
      /\ pending' = [pending EXCEPT ![w][item(w).key] = Append(@, m)]
      /\ told \subseteq told'
      /\ NeedsReorder(item(w).key, After(w)) => NewMovement(w) \in told'
      /\ ledger' = ledger
  BY DEF AdjustRow, _trigger_reorder_alert
<1>2. item(w).key \in Keys /\ After(w) \in Int /\ m \in Movement /\ m.after = After(w)
  BY <1>1, CurrentType, ItemType DEF After, Level, Movement
<1>3. /\ ledger \in [Keys -> Seq(Movement)]
      /\ pending \in [Workers -> [Keys -> Seq(Movement)]]
  BY DEF IInv, TypeOK
<1> HIDE DEF m
<1>4. LowStockAlerted'
  BY <1>1 DEF AlertedBeforeCommit, LowStockAlerted, Alerted
<1>5. ASSUME NEW v \in Workers, NEW k \in Tracked \intersect UniqueKeys
      PROVE  Alerted(k, pending[v][k], Len(ledger[k]))'
  <2>1. k \in Keys /\ Alerted(k, pending[v][k], Len(ledger[k]))
    BY KeysAssumption DEF AlertedBeforeCommit
  <2>2. CASE v = w /\ k = item(w).key
    <3>1. pending'[v][k] = Append(pending[w][k], m)
      BY <1>1, <1>3, <2>1, <2>2
    <3>2. pending[w][k] \in Seq(Movement) /\ Len(ledger[k]) \in Nat
      BY <1>3, <2>1
    <3> SUFFICES ASSUME NEW n \in 1..Len(pending'[v][k]),
                        pending'[v][k][n].after <= ReorderPoint[k]
                 PROVE  <<k, Len(ledger'[k]) + n>> \in told'
      BY DEF Alerted
    <3>3. Len(pending'[v][k]) = Len(pending[w][k]) + 1
      BY <3>1, <3>2, <1>2
    <3>4. CASE n \in 1..Len(pending[w][k])
      <4>1. pending'[v][k][n] = pending[w][k][n]
        BY <3>1, <3>2, <3>4, <1>2
      <4>2. <<k, Len(ledger[k]) + n>> \in told
        BY <4>1, <3>4, <2>1, <2>2 DEF Alerted
      <4>3. QED BY <4>2, <1>1
    <3>5. CASE n = Len(pending[w][k]) + 1
      <4>1. pending'[v][k][n] = m
        BY <3>1, <3>2, <3>5, <1>2
      <4>2. NeedsReorder(k, After(w))
        BY <4>1, <1>2 DEF NeedsReorder
      <4>3. NewMovement(w) = <<k, Len(ledger[k]) + Len(pending[w][k]) + 1>>
        BY <2>2 DEF NewMovement
      <4>4. /\ Len(pending[w][k]) \in Nat
            /\ \A a, b \in Nat : a + b + 1 = a + (b + 1)
        BY <3>2
      <4>6. Len(ledger[k]) + Len(pending[w][k]) + 1 = Len(ledger[k]) + n
        BY <3>2, <3>5, <4>4
      <4>5. QED BY <4>2, <4>3, <4>6, <2>2, <1>1
    <3>6. QED BY <3>2, <3>3, <3>4, <3>5
  <2>3. CASE ~(v = w /\ k = item(w).key)
    <3>1. pending'[v][k] = pending[v][k]
      BY <1>1, <1>2, <1>3, <2>1, <2>3
    <3>2. QED BY <3>1, <2>1, <1>1 DEF Alerted
  <2>4. QED BY <2>2, <2>3
<1>6. QED BY <1>4, <1>5 DEF AlertedBeforeCommit

LEMMA CommitAlerted ==
  ASSUME IInv, AlertedBeforeCommit, NEW w \in Workers, Commit(w)
  PROVE  AlertedBeforeCommit'
<1>1. /\ ledger' = [k \in Keys |-> ledger[k] \o pending[w][k]]
      /\ pending' = [pending EXCEPT ![w] = NoPending]
      /\ alerts' = alerts /\ unqueued' = unqueued
  BY DEF Commit, EndTransaction
<1>2. /\ ledger \in [Keys -> Seq(Movement)]
      /\ pending \in [Workers -> [Keys -> Seq(Movement)]]
  BY DEF IInv, TypeOK
<1>3. ASSUME NEW k \in Tracked \intersect UniqueKeys
      PROVE  Alerted(k, ledger[k], 0)'
  <2>1. k \in Keys
    BY KeysAssumption
  <2>2. ledger[k] \in Seq(Movement) /\ pending[w][k] \in Seq(Movement)
    BY <2>1, <1>2
  <2>3. ledger'[k] = ledger[k] \o pending[w][k]
    BY <2>1, <1>1
  <2>4. Alerted(k, ledger[k], 0) /\ Alerted(k, pending[w][k], Len(ledger[k]))
    BY DEF AlertedBeforeCommit, LowStockAlerted
  <2> SUFFICES ASSUME NEW n \in 1..Len(ledger'[k]),
                      ledger'[k][n].after <= ReorderPoint[k]
               PROVE  <<k, n>> \in alerts \union unqueued
    <3>1. ledger'[k] \in Seq(Movement)
      BY <2>2, <2>3
    <3>2. \A n \in 1..Len(ledger'[k]) : n = 0 + n
      BY <3>1
    <3>3. QED BY <3>2, <1>1 DEF Alerted
  <2>a. PICK a \in Nat : a = Len(ledger[k])
    BY <2>2
  <2>b. PICK b \in Nat : b = Len(pending[w][k])
    BY <2>2
  <2>c. Len(ledger'[k]) = a + b
    BY <2>2, <2>3, <2>a, <2>b
  <2>d. n \in Nat /\ n >= 1 /\ n <= a + b
    BY <2>c
  <2>5. CASE n <= a
    <3>1. n \in 1..Len(ledger[k]) /\ n = 0 + n
      BY <2>a, <2>d, <2>5
    <3>2. ledger'[k][n] = ledger[k][n]
      BY <3>1, <2>2, <2>3
    <3>3. QED BY <3>1, <3>2, <2>4 DEF Alerted
  <2>6. CASE n > a
    <3>1. PICK m \in Nat : m = n - a
      BY <2>d, <2>6
    <3>2. m \in 1..b /\ n = a + m
      BY <3>1, <2>d, <2>6
    <3>3. m \in 1..Len(pending[w][k]) /\ n = Len(ledger[k]) + m
      BY <3>2, <2>a, <2>b
    <3>4. ledger'[k][n] = pending[w][k][m]
      BY <3>3, <2>2, <2>3
    <3>5. QED BY <3>3, <3>4, <2>4 DEF Alerted
  <2>e. n <= a \/ n > a
    BY <2>d
  <2>7. QED BY <2>5, <2>6, <2>e
<1>4. ASSUME NEW v \in Workers, NEW k \in Tracked \intersect UniqueKeys
      PROVE  Alerted(k, pending[v][k], Len(ledger[k]))'
  <2>1. k \in Keys /\ RowOf(k) \in Rows
    BY RowFacts, KeysAssumption
  <2>2. CASE v = w \/ pending[v][k] = <<>>
    <3>1. pending'[v][k] = <<>>
      BY <2>1, <2>2, <1>1, <1>2, RowFacts
    <3>2. QED BY <3>1 DEF Alerted
  <2>3. CASE v # w /\ pending[v][k] # <<>>
    <3>1. lock[RowOf(k)] = v
      BY <2>1, <2>3 DEF IInv, PendingAgrees, WritesAreLocked
    <3>2. pending[w][k] = <<>>
      BY <2>1, <2>3, <3>1 DEF IInv, PendingAgrees, WritesAreLocked
    <3>3. ledger'[k] = ledger[k] /\ pending'[v][k] = pending[v][k]
      BY <3>2, <2>1, <2>3, <1>1, <1>2
    <3>4. QED BY <3>3, <1>1 DEF AlertedBeforeCommit, Alerted
  <2>4. QED BY <2>2, <2>3
<1>5. QED BY <1>3, <1>4 DEF AlertedBeforeCommit, LowStockAlerted

LEMMA StepAlerted == IInv /\ AlertedBeforeCommit /\ [Next]_vars => AlertedBeforeCommit'
<1> SUFFICES ASSUME IInv, AlertedBeforeCommit, [Next]_vars PROVE AlertedBeforeCommit'
  OBVIOUS
<1>0. pending \in [Workers -> [Keys -> Seq(Movement)]]
  BY DEF IInv, TypeOK
<1>1. ASSUME NEW w \in Workers, NEW r \in Requests, Begin(w, r)
      PROVE  AlertedBeforeCommit'
  BY <1>1, QuietAlerted DEF Begin, shared
<1>2. ASSUME NEW w \in Workers, Rollback(w) PROVE AlertedBeforeCommit'
  BY <1>0, <1>2, QuietAlerted DEF Rollback, EndTransaction, shared
<1>3. ASSUME NEW w \in Workers, Select(w) PROVE AlertedBeforeCommit'
  <2>1. CASE GetRow(w) \/ GetMissing(w)
    BY <2>1, QuietAlerted DEF GetRow, GetMissing, shared
  <2>2. CASE GetMultiple(w) \/ NothingToHold(w)
    BY <2>2, <1>2 DEF GetMultiple, NothingToHold
  <2>3. QED BY <1>3, <2>1, <2>2 DEF Select
<1>4. ASSUME NEW w \in Workers, Insert(w) PROVE AlertedBeforeCommit'
  BY <1>4, QuietAlerted DEF Insert, shared
<1>5. ASSUME NEW w \in Workers, Run(w) PROVE AlertedBeforeCommit'
  <2>1. CASE InsertConflict(w)
    BY <2>1, QuietAlerted DEF InsertConflict, shared
  <2>2. CASE \/ ZeroDelta(w) \/ AdjustInsufficient(w)
             \/ ReserveInsufficient(w) \/ DeadlockAbort(w)
    BY <2>2, <1>2
       DEF ZeroDelta, AdjustInsufficient, ReserveInsufficient, DeadlockAbort
  <2>3. CASE AdjustRow(w)
    BY <2>3, AdjustAlerted
  <2>4. CASE ReserveRow(w) \/ ReleaseRow(w)
    BY <2>4, QuietAlerted DEF ReserveRow, ReleaseRow, shared
  <2>5. CASE Commit(w)
    BY <2>5, CommitAlerted
  <2>6. QED BY <1>5, <2>1, <2>2, <2>3, <2>4, <2>5 DEF Run, Apply
<1>6. ASSUME NEW w \in Workers, Crash(w) PROVE AlertedBeforeCommit'
  BY <1>6, <1>2 DEF Crash
<1>7. CASE UpdateSettings
  BY <1>7, QuietAlerted DEF UpdateSettings, local
<1>8. CASE UNCHANGED vars
  BY <1>8, QuietAlerted DEF vars, shared, local
<1>9. QED BY <1>1, <1>3, <1>4, <1>5, <1>6, <1>7, <1>8 DEF Next

-----------------------------------------------------------------------------
(* Quantities.                                                             *)

LEMMA MovedEmpty == Moved(<<>>) = 0
<1>1. 1..Len(<<>>) = {}
  OBVIOUS
<1>2. QED BY <1>1, SumEmpty DEF Moved, SumFunction

LEMMA MovedInt ==
  ASSUME NEW s \in Seq(Movement)
  PROVE  Moved(s) \in Int
<1> DEFINE f == [n \in 1..Len(s) |-> s[n].delta]
<1>0. \A n \in 1..Len(s) : s[n] \in Movement
  OBVIOUS
<1>1. \A n \in 1..Len(s) : f[n] \in Int
  BY <1>0 DEF Movement
<1>2. IsFiniteSet(1..Len(s))
  BY FS_Interval
<1>3. SumFunctionOnSet(f, 1..Len(s)) \in Int
  <2> HIDE DEF f
  <2>1. QED BY <1>1, <1>2, SumInt
<1>4. QED BY <1>3 DEF Moved, SumFunction

LEMMA MovedConcat ==
  ASSUME NEW s \in Seq(Movement), NEW t \in Seq(Movement)
  PROVE  Moved(s \o t) = Moved(s) + Moved(t)
<1> DEFINE d(u) == [n \in 1..Len(u) |-> u[n].delta]
           m == Len(s)
           n == Len(t)
<1>1. m \in Nat /\ n \in Nat /\ Len(s \o t) = m + n
  OBVIOUS
<1>2. \A i \in 1..m : (s \o t)[i] = s[i] /\ s[i] \in Movement
  OBVIOUS
<1>3. \A i \in 1..n : (s \o t)[m + i] = t[i] /\ t[i] \in Movement
  OBVIOUS
<1>4. \A i \in 1..m : d(s \o t)[i] = d(s)[i] /\ d(s)[i] \in Int
  BY <1>1, <1>2 DEF Movement
<1>5. \A i \in 1..n : d(s \o t)[m + i] = d(t)[i] /\ d(t)[i] \in Int
  BY <1>1, <1>3 DEF Movement
<1>6. SumFunctionOnSet(d(s \o t), 1..(m + n)) =
        SumFunctionOnSet(d(s), 1..m) + SumFunctionOnSet(d(t), 1..n)
  <2> DEFINE f == d(s)
             g == d(t)
             h == d(s \o t)
  <2>1. /\ \A i \in 1..m : h[i] = f[i] /\ f[i] \in Int
        /\ \A i \in 1..n : h[m + i] = g[i] /\ g[i] \in Int
    BY <1>4, <1>5
  <2>2. SumFunctionOnSet(h, 1..(m + n)) = SumFunctionOnSet(f, 1..m) + SumFunctionOnSet(g, 1..n)
    <3>1. m \in Nat /\ n \in Nat
      OBVIOUS
    <3> HIDE DEF d, f, g, h, m, n
    <3>2. QED BY <2>1, <3>1, SumConcat, SMTT(30)
  <2>3. QED BY <2>2
<1>7. /\ Moved(s \o t) = SumFunctionOnSet(d(s \o t), 1..(m + n))
      /\ Moved(s) = SumFunctionOnSet(d(s), 1..m)
      /\ Moved(t) = SumFunctionOnSet(d(t), 1..n)
  BY <1>1 DEF Moved, SumFunction
<1>8. QED BY <1>6, <1>7

LEMMA MovedAppend ==
  ASSUME NEW s \in Seq(Movement), NEW m \in Movement
  PROVE  Moved(Append(s, m)) = Moved(s) + m.delta
<1> DEFINE d(u) == [n \in 1..Len(u) |-> u[n].delta]
           n == Len(s)
<1>1. n \in Nat /\ Len(Append(s, m)) = n + 1
  OBVIOUS
<1>2. \A i \in 1..n : Append(s, m)[i] = s[i] /\ s[i] \in Movement
  OBVIOUS
<1>3. Append(s, m)[n + 1] = m
  OBVIOUS
<1>4. \A i \in 1..n : d(Append(s, m))[i] = d(s)[i] /\ d(s)[i] \in Int
  BY <1>1, <1>2 DEF Movement
<1>5. d(Append(s, m))[n + 1] = m.delta /\ m.delta \in Int
  BY <1>1, <1>3 DEF Movement
<1>6. SumFunctionOnSet(d(Append(s, m)), 1..(n + 1)) =
        SumFunctionOnSet(d(s), 1..n) + m.delta
  <2> DEFINE f == d(Append(s, m))
  <2>1. \A i \in 1..(n + 1) : f[i] \in Int
    BY <1>1, <1>4, <1>5
  <2>2. IsFiniteSet(1..n)
    BY <1>1, FS_Interval
  <2>3. SumFunctionOnSet(f, 1..n) = SumFunctionOnSet(d(s), 1..n)
    <3> HIDE DEF d, n
    <3>1. QED BY <2>2, <1>4, SumSame
  <2>4. SumFunctionOnSet(f, 1..(n + 1)) = SumFunctionOnSet(f, 1..n) + f[n + 1]
    <3> HIDE DEF f, n
    <3>1. QED BY <1>1, <2>1, SumNext
  <2> HIDE DEF d, n
  <2>5. QED BY <2>3, <2>4, <1>5
<1>7. /\ Moved(Append(s, m)) = SumFunctionOnSet(d(Append(s, m)), 1..(n + 1))
      /\ Moved(s) = SumFunctionOnSet(d(s), 1..n)
  BY <1>1 DEF Moved, SumFunction
<1>8. QED BY <1>6, <1>7

LEMMA AheadType ==
  ASSUME IInv, NEW w \in Workers, NEW r \in Rows
  PROVE  Quantity(r) \in Int /\ Ahead(w, r) \in Int
<1>1. level[r] \in Level \union {NoRow} /\ draft[w][r] \in Level \union {NoRow}
  BY DEF IInv, TypeOK
<1>2. Quantity(r) \in Int
  BY <1>1 DEF Quantity, Level
<1>3. QED BY <1>1, <1>2 DEF Ahead, Level

LEMMA SlotRows ==
  ASSUME NEW k \in Keys
  PROVE  IsFiniteSet(Slots) /\ \A s \in Slots : <<k, s>> \in Rows
  BY SlotsAssumption DEF Rows

LEMMA NothingAhead ==
  ASSUME NEW w \in Workers, draft[w] = NoDraft, pending[w] = NoPending, NEW k \in Keys
  PROVE  SumFunction([s \in Slots |-> Ahead(w, <<k, s>>)]) = Moved(pending[w][k])
<1> DEFINE f == [s \in Slots |-> Ahead(w, <<k, s>>)]
<1>1. \A s \in Slots : f[s] = 0
  BY SlotRows, RowFacts DEF Ahead
<1>2. SumFunctionOnSet(f, Slots) = 0
  <2> HIDE DEF f
  <2>1. QED BY <1>1, SlotRows, SumZero
<1>3. Moved(pending[w][k]) = 0
  BY MovedEmpty, RowFacts
<1>4. QED BY <1>2, <1>3 DEF SumFunction

LEMMA InitMoved == Init => WritesAreMoved
<1> SUFFICES ASSUME Init PROVE WritesAreMoved
  OBVIOUS
<1>1. ASSUME NEW k \in Keys
      PROVE  SumFunction([s \in Slots |-> Quantity(<<k, s>>)]) = Moved(ledger[k])
  <2> DEFINE f == [s \in Slots |-> Quantity(<<k, s>>)]
  <2>1. \A s \in Slots : f[s] = 0
    BY SlotRows, RowFacts DEF Quantity, Init
  <2>2. SumFunctionOnSet(f, Slots) = 0
    <3> HIDE DEF f
    <3>1. QED BY <2>1, SlotRows, SumZero
  <2>3. Moved(ledger[k]) = 0
    BY MovedEmpty, RowFacts DEF Init
  <2>4. QED BY <2>2, <2>3 DEF SumFunction
<1>2. ASSUME NEW w \in Workers, NEW k \in Keys
      PROVE  SumFunction([s \in Slots |-> Ahead(w, <<k, s>>)]) = Moved(pending[w][k])
  BY NothingAhead DEF Init
<1>3. QED BY <1>1, <1>2 DEF WritesAreMoved, QuantityConserved

\* A step that writes nothing, or drops what a worker has written.
LEMMA QuietMoved ==
  ASSUME IInv, WritesAreMoved, level' = level, ledger' = ledger,
         \A v \in Workers : \/ draft'[v] = draft[v] /\ pending'[v] = pending[v]
                            \/ draft'[v] = NoDraft /\ pending'[v] = NoPending
  PROVE  WritesAreMoved'
<1>1. QuantityConserved'
  BY DEF WritesAreMoved, QuantityConserved, Quantity
<1>2. ASSUME NEW v \in Workers, NEW k \in Keys
      PROVE  SumFunction([s \in Slots |-> Ahead(v, <<k, s>>)])' = Moved(pending'[v][k])
  <2>1. CASE draft'[v] = draft[v] /\ pending'[v] = pending[v]
    BY <2>1 DEF WritesAreMoved, Ahead, Quantity
  <2>2. CASE draft'[v] = NoDraft /\ pending'[v] = NoPending
    <3> DEFINE f == [s \in Slots |-> Ahead(v, <<k, s>>)']
    <3>1. \A s \in Slots : f[s] = 0
      BY <2>2, SlotRows, RowFacts DEF Ahead
    <3>2. SumFunctionOnSet(f, Slots) = 0
      <4> HIDE DEF f
      <4>1. QED BY <3>1, SlotRows, SumZero
    <3>3. Moved(pending'[v][k]) = 0
      BY <2>2, MovedEmpty, RowFacts
    <3>4. QED BY <3>2, <3>3 DEF SumFunction
  <2>3. QED BY <2>1, <2>2
<1>3. QED BY <1>1, <1>2 DEF WritesAreMoved

\* A worker writes one row and appends a movement of what that adds, if anything.
LEMMA WriteMoved ==
  ASSUME IInv, WritesAreMoved, NEW w \in Workers, NEW k \in Keys, NEW s \in Slots,
         NEW sl \in Level, draft' = [draft EXCEPT ![w][<<k, s>>] = sl],
         UNCHANGED <<level, ledger>>,
         \A v \in Workers, j \in Keys : v # w \/ j # k => pending'[v][j] = pending[v][j],
         Moved(pending'[w][k]) =
           Moved(pending[w][k]) + (sl.quantity - Quantity(<<k, s>>)) - Ahead(w, <<k, s>>)
  PROVE  WritesAreMoved'
<1>1. QuantityConserved'
  BY DEF WritesAreMoved, QuantityConserved, Quantity
<1>2. ASSUME NEW v \in Workers, NEW j \in Keys
      PROVE  SumFunction([t \in Slots |-> Ahead(v, <<j, t>>)])' = Moved(pending'[v][j])
  <2> DEFINE f == [t \in Slots |-> Ahead(v, <<j, t>>)]
             g == [t \in Slots |-> Ahead(v, <<j, t>>)']
  <2>0. /\ SumFunction(f) = Moved(pending[v][j])
        /\ SumFunction(f) = SumFunctionOnSet(f, Slots)
        /\ SumFunction(g) = SumFunctionOnSet(g, Slots)
    BY DEF WritesAreMoved, SumFunction
  <2>1. \A r \in Rows : draft'[v][r] = IF v = w /\ r = <<k, s>> THEN sl ELSE draft[v][r]
    BY SlotRows DEF IInv, TypeOK
  <2>2. \A t \in Slots : (v # w \/ j # k \/ t # s) => g[t] = f[t]
    BY <2>1, SlotRows DEF Ahead, Quantity
  <2>3. CASE v # w \/ j # k
    <3>1. SumFunctionOnSet(g, Slots) = SumFunctionOnSet(f, Slots)
      <4>1. \A t \in Slots : g[t] = f[t]
        BY <2>2, <2>3
      <4> HIDE DEF f, g
      <4>2. QED BY <4>1, SlotRows, SumSame
    <3>2. QED BY <2>0, <2>3, <3>1
  <2>4. CASE v = w /\ j = k
    <3>1. \A t \in Slots : f[t] \in Int
      BY AheadType, SlotRows
    <3>2. f[s] = Ahead(w, <<k, s>>) /\ g[s] = sl.quantity - Quantity(<<k, s>>)
      BY <2>1, <2>4, SlotRows, NoRowAssumption DEF Ahead, Quantity
    <3>3. g[s] \in Int
      BY <3>2, AheadType, SlotRows DEF Level
    <3>4. \A t \in Slots \ {s} : g[t] = f[t]
      BY <2>2
    <3>5. SumFunctionOnSet(g, Slots) = SumFunctionOnSet(f, Slots) + (g[s] - f[s])
      <4> HIDE DEF f, g
      <4>1. \A t \in Slots : f[t] \in Int /\ g[t] \in Int
        BY <3>1, <3>3, <3>4
      <4>2. QED BY <4>1, <3>4, SlotRows, SumChange
    <3>6. f[s] \in Int
      BY <3>1
    <3>7. Moved(pending[w][k]) \in Int
      BY MovedInt DEF IInv, TypeOK
    <3>8. Moved(pending'[w][k]) = Moved(pending[w][k]) + g[s] - f[s]
      BY <3>2
    <3>9. SumFunction(g) = Moved(pending[w][k]) + (g[s] - f[s])
      BY <2>0, <2>4, <3>5
    <3> HIDE DEF f, g
    <3>10. SumFunction(g) = Moved(pending'[w][k])
      BY <3>3, <3>6, <3>7, <3>8, <3>9
    <3>11. QED BY <3>10, <2>4 DEF g
  <2>5. QED BY <2>3, <2>4
<1>3. QED BY <1>1, <1>2 DEF WritesAreMoved

LEMMA InsertMoved ==
  ASSUME IInv, WritesAreMoved, NEW w \in Workers, Insert(w)
  PROVE  WritesAreMoved'
<1> DEFINE sl == [quantity |-> 0, reserved |-> 0]
           k == item(w).key
<1>1. PICK r \in InsertSlots(k) :
        /\ level[r] = NoRow
        /\ lock[r] = NoWorker
        /\ draft' = [draft EXCEPT ![w][r] = sl]
  BY DEF Insert
<1>2. k \in Keys
  <2>1. pc[w] = "insert"
    BY DEF Insert
  <2>2. QED BY <2>1, ItemType
<1>3. PICK s \in Slots : r = <<k, s>>
  BY <1>2, SlotsAssumption DEF InsertSlots
<1>4. r \in Rows
  BY <1>2, <1>3, SlotRows
<1>5. draft[w][r] = NoRow
  BY <1>1, <1>4, NoRowAssumption DEF IInv, WritesAreLocked
<1>6. Ahead(w, r) = 0 /\ Quantity(r) = 0
  BY <1>1, <1>5 DEF Ahead, Quantity
<1>7. sl \in Level
  BY DEF Level
<1>8. Moved(pending[w][k]) \in Int
  BY <1>2, MovedInt DEF IInv, TypeOK
<1>9. /\ UNCHANGED <<level, ledger>> /\ pending' = pending
  BY DEF Insert, shared
<1>10. Moved(pending'[w][k]) =
         Moved(pending[w][k]) + (sl.quantity - Quantity(<<k, s>>)) - Ahead(w, <<k, s>>)
  BY <1>3, <1>6, <1>8, <1>9
<1> HIDE DEF sl, k
<1>11. QED BY <1>1, <1>2, <1>3, <1>7, <1>9, <1>10, WriteMoved

\* The row a worker holds, as a key and a slot, and what it has written there.
LEMMA HeldSlot ==
  ASSUME IInv, NEW w \in Workers, pc[w] = "apply"
  PROVE  /\ item(w).key \in Keys
         /\ \E s \in Slots : held[w] = <<item(w).key, s>>
         /\ Ahead(w, held[w]) = Current(w).quantity - Quantity(held[w])
<1>1. held[w] \in Rows /\ held[w][1] = item(w).key /\ View(w, held[w]) # NoRow
  BY DEF IInv, ItemInHand, Current
<1>2. held[w] = <<item(w).key, held[w][2]>> /\ held[w][2] \in Slots /\ item(w).key \in Keys
  BY <1>1 DEF Rows
<1>3. Quantity(held[w]) \in Int
  BY <1>1, AheadType
<1>4. CASE draft[w][held[w]] = NoRow
  <2>1. View(w, held[w]) = level[held[w]]
    BY <1>4 DEF View
  <2>2. Current(w).quantity = Quantity(held[w])
    BY <1>1, <2>1 DEF Current, Quantity
  <2>3. Ahead(w, held[w]) = 0
    BY <1>4 DEF Ahead
  <2>4. QED BY <1>2, <1>3, <2>2, <2>3
<1>5. CASE draft[w][held[w]] # NoRow
  <2>1. Current(w) = draft[w][held[w]]
    BY <1>5 DEF Current, View
  <2>2. Ahead(w, held[w]) = draft[w][held[w]].quantity - Quantity(held[w])
    BY <1>5 DEF Ahead
  <2>3. QED BY <1>2, <2>1, <2>2
<1>6. QED BY <1>2, <1>4, <1>5

LEMMA AdjustMoved ==
  ASSUME IInv, WritesAreMoved, NEW w \in Workers, AdjustRow(w)
  PROVE  WritesAreMoved'
<1> DEFINE k == item(w).key
           sl == [Current(w) EXCEPT !.quantity = After(w)]
           m == [before |-> Current(w).quantity, delta |-> item(w).qty, after |-> After(w)]
<1>1. /\ pc[w] = "apply"
      /\ draft' = [draft EXCEPT ![w][held[w]] = sl]
      /\ pending' = [pending EXCEPT ![w][k] = Append(@, m)]
      /\ level' = level /\ ledger' = ledger
  BY DEF AdjustRow
<1>2. /\ item(w).qty \in Int /\ Current(w) \in Level
      /\ Current(w).quantity \in Int /\ Current(w).reserved \in Nat
  BY <1>1, CurrentType, ItemType
<1>3. After(w) = Current(w).quantity + item(w).qty
  BY DEF After
<1>4. sl \in Level /\ sl.quantity = After(w) /\ m \in Movement /\ m.delta = item(w).qty
  BY <1>2, <1>3 DEF Level, Movement
<1>5. k \in Keys /\ Ahead(w, held[w]) = Current(w).quantity - Quantity(held[w])
  BY <1>1, HeldSlot
<1>6. PICK s \in Slots : held[w] = <<k, s>>
  BY <1>1, HeldSlot
<1>7. pending[w][k] \in Seq(Movement)
  BY <1>5 DEF IInv, TypeOK
<1>8. /\ pending'[w][k] = Append(pending[w][k], m)
      /\ \A v \in Workers, j \in Keys : v # w \/ j # k => pending'[v][j] = pending[v][j]
  BY <1>1, <1>5 DEF IInv, TypeOK
<1>9. Moved(pending'[w][k]) = Moved(pending[w][k]) + item(w).qty
  BY <1>4, <1>7, <1>8, MovedAppend
<1>10. Moved(pending[w][k]) \in Int /\ Quantity(held[w]) \in Int
  BY <1>5, <1>6, <1>7, MovedInt, SlotRows, AheadType
<1>11. Moved(pending'[w][k]) =
         Moved(pending[w][k]) + (sl.quantity - Quantity(held[w])) - Ahead(w, held[w])
  <2>1. sl.quantity = Current(w).quantity + item(w).qty
    BY <1>3, <1>4
  <2> HIDE DEF sl, k
  <2>2. QED BY <2>1, <1>2, <1>5, <1>9, <1>10
<1> HIDE DEF sl, k, m
<1>12. /\ draft' = [draft EXCEPT ![w][<<k, s>>] = sl]
       /\ Moved(pending'[w][k]) =
            Moved(pending[w][k]) + (sl.quantity - Quantity(<<k, s>>)) - Ahead(w, <<k, s>>)
  BY <1>1, <1>6, <1>11
<1>13. /\ k \in Keys /\ sl \in Level
       /\ UNCHANGED <<level, ledger>>
       /\ \A v \in Workers, j \in Keys : v # w \/ j # k => pending'[v][j] = pending[v][j]
  BY <1>1, <1>4, <1>5, <1>8
<1>14. QED BY <1>12, <1>13, WriteMoved, ZenonT(60)

LEMMA HoldMoved ==
  ASSUME IInv, WritesAreMoved, NEW w \in Workers, ReserveRow(w) \/ ReleaseRow(w)
  PROVE  WritesAreMoved'
<1>1. PICK n \in Nat :
        /\ pc[w] = "apply"
        /\ SetReserved(w, n)
        /\ UNCHANGED <<shared, pending>>
  BY HoldWrites DEF shared
<1> DEFINE k == item(w).key
           sl == [Current(w) EXCEPT !.reserved = n]
<1>2. Current(w) \in Level /\ Current(w).quantity \in Int
  BY <1>1, CurrentType
<1>3. sl \in Level /\ sl.quantity = Current(w).quantity
  BY <1>2 DEF Level
<1>4. k \in Keys /\ Ahead(w, held[w]) = Current(w).quantity - Quantity(held[w])
  BY <1>1, HeldSlot
<1>5. PICK s \in Slots : held[w] = <<k, s>>
  BY <1>1, HeldSlot
<1>6. Moved(pending[w][k]) \in Int /\ Quantity(held[w]) \in Int
  BY <1>4, <1>5, MovedInt, SlotRows, AheadType DEF IInv, TypeOK
<1>7. Moved(pending'[w][k]) =
         Moved(pending[w][k]) + (sl.quantity - Quantity(held[w])) - Ahead(w, held[w])
  <2> HIDE DEF sl, k
  <2>1. QED BY <1>1, <1>2, <1>3, <1>4, <1>6
<1>8. draft' = [draft EXCEPT ![w][held[w]] = sl] /\ UNCHANGED <<level, ledger, pending>>
  BY <1>1 DEF SetReserved, shared
<1> HIDE DEF sl, k
<1>9. /\ draft' = [draft EXCEPT ![w][<<k, s>>] = sl]
      /\ Moved(pending'[w][k]) =
           Moved(pending[w][k]) + (sl.quantity - Quantity(<<k, s>>)) - Ahead(w, <<k, s>>)
  BY <1>5, <1>7, <1>8
<1>10. /\ k \in Keys /\ sl \in Level
       /\ UNCHANGED <<level, ledger>>
       /\ \A v \in Workers, j \in Keys : v # w \/ j # k => pending'[v][j] = pending[v][j]
  BY <1>3, <1>4, <1>8
<1>11. QED BY <1>9, <1>10, WriteMoved, ZenonT(60)

\* What w had written becomes what there is; no one else had written those rows.
LEMMA CommitMoved ==
  ASSUME IInv, WritesAreMoved, NEW w \in Workers, Commit(w)
  PROVE  WritesAreMoved'
<1>1. /\ level' = [r \in Rows |-> View(w, r)]
      /\ ledger' = [k \in Keys |-> ledger[k] \o pending[w][k]]
      /\ draft' = [draft EXCEPT ![w] = NoDraft]
      /\ pending' = [pending EXCEPT ![w] = NoPending]
  BY DEF Commit, EndTransaction
<1>2. /\ ledger \in [Keys -> Seq(Movement)]
      /\ pending \in [Workers -> [Keys -> Seq(Movement)]]
      /\ draft \in [Workers -> [Rows -> Level \union {NoRow}]]
  BY DEF IInv, TypeOK
<1>3. ASSUME NEW r \in Rows PROVE Quantity(r)' = Quantity(r) + Ahead(w, r)
  <2>1. level'[r] = View(w, r)
    BY <1>1, <1>3
  <2>2. Quantity(r) \in Int
    BY <1>3, AheadType
  <2>3. CASE draft[w][r] = NoRow
    BY <2>1, <2>2, <2>3 DEF Quantity, View, Ahead
  <2>4. CASE draft[w][r] # NoRow
    <3>1. Quantity(r)' = draft[w][r].quantity
      BY <2>1, <2>4 DEF Quantity, View
    <3>2. draft[w][r].quantity \in Int
      BY <1>2, <1>3, <2>4 DEF Level
    <3>3. QED BY <2>2, <2>4, <3>1, <3>2 DEF Ahead
  <2>5. QED BY <2>3, <2>4
<1>4. ASSUME NEW k \in Keys
      PROVE  SumFunction([s \in Slots |-> Quantity(<<k, s>>)])' = Moved(ledger'[k])
  <2> DEFINE f == [s \in Slots |-> Quantity(<<k, s>>)]
             g == [s \in Slots |-> Ahead(w, <<k, s>>)]
             h == [s \in Slots |-> Quantity(<<k, s>>)']
  <2>1. /\ SumFunctionOnSet(f, Slots) = Moved(ledger[k])
        /\ SumFunctionOnSet(g, Slots) = Moved(pending[w][k])
    BY DEF WritesAreMoved, QuantityConserved, SumFunction
  <2>2. \A s \in Slots : f[s] \in Int /\ g[s] \in Int /\ h[s] = f[s] + g[s]
    BY <1>3, SlotRows, AheadType
  <2>3. SumFunctionOnSet(h, Slots) = SumFunctionOnSet(f, Slots) + SumFunctionOnSet(g, Slots)
    <3> HIDE DEF f, g, h
    <3>1. QED BY <2>2, SlotRows, SumPlus
  <2>4. ledger'[k] = ledger[k] \o pending[w][k]
    BY <1>1
  <2>5. Moved(ledger'[k]) = Moved(ledger[k]) + Moved(pending[w][k])
    BY <1>2, <2>4, MovedConcat
  <2>6. SumFunctionOnSet(h, Slots) = Moved(ledger'[k])
    BY <2>1, <2>3, <2>5
  <2>7. QED BY <2>6 DEF SumFunction
<1>5. ASSUME NEW v \in Workers, NEW k \in Keys
      PROVE  SumFunction([s \in Slots |-> Ahead(v, <<k, s>>)])' = Moved(pending'[v][k])
  <2>1. CASE v = w
    <3> DEFINE f == [s \in Slots |-> Ahead(v, <<k, s>>)']
    <3>1. \A s \in Slots : f[s] = 0
      BY <1>1, <1>2, <2>1, SlotRows, RowFacts DEF Ahead
    <3>2. SumFunctionOnSet(f, Slots) = 0
      <4> HIDE DEF f
      <4>1. QED BY <3>1, SlotRows, SumZero
    <3>3. Moved(pending'[v][k]) = 0
      BY <1>1, <1>2, <2>1, MovedEmpty, RowFacts
    <3>4. QED BY <3>2, <3>3 DEF SumFunction
  <2>2. CASE v # w
    <3> DEFINE f == [s \in Slots |-> Ahead(v, <<k, s>>)]
               g == [s \in Slots |-> Ahead(v, <<k, s>>)']
    <3>1. draft'[v] = draft[v] /\ pending'[v] = pending[v]
      BY <1>1, <2>2
    <3>2. ASSUME NEW s \in Slots PROVE g[s] = f[s]
      <4>1. <<k, s>> \in Rows
        BY SlotRows
      <4>2. CASE draft[v][<<k, s>>] = NoRow
        BY <3>1, <4>2 DEF Ahead
      <4>3. CASE draft[v][<<k, s>>] # NoRow
        <5>1. draft[w][<<k, s>>] = NoRow
          BY <2>2, <4>1, <4>3 DEF IInv, WritesAreLocked
        <5>2. Ahead(w, <<k, s>>) = 0
          BY <5>1 DEF Ahead
        <5>3. Quantity(<<k, s>>)' = Quantity(<<k, s>>)
          BY <1>3, <4>1, <5>2, AheadType
        <5>4. QED BY <3>1, <4>3, <5>3 DEF Ahead
      <4>4. QED BY <4>2, <4>3
    <3>3. SumFunctionOnSet(g, Slots) = SumFunctionOnSet(f, Slots)
      <4> HIDE DEF f, g
      <4>1. QED BY <3>2, SlotRows, SumSame
    <3>4. SumFunctionOnSet(f, Slots) = Moved(pending[v][k])
      BY DEF WritesAreMoved, SumFunction
    <3>5. SumFunctionOnSet(g, Slots) = Moved(pending'[v][k])
      BY <3>1, <3>3, <3>4
    <3>6. QED BY <3>5 DEF SumFunction
  <2>3. QED BY <2>1, <2>2
<1>6. QED BY <1>4, <1>5 DEF WritesAreMoved, QuantityConserved

LEMMA StepMoved == IInv /\ WritesAreMoved /\ [Next]_vars => WritesAreMoved'
<1> SUFFICES ASSUME IInv, WritesAreMoved, [Next]_vars PROVE WritesAreMoved'
  OBVIOUS
<1>0. /\ pending \in [Workers -> [Keys -> Seq(Movement)]]
      /\ draft \in [Workers -> [Rows -> Level \union {NoRow}]]
  BY DEF IInv, TypeOK
<1>1. ASSUME NEW w \in Workers, NEW r \in Requests, Begin(w, r)
      PROVE  WritesAreMoved'
  BY <1>1, QuietMoved DEF Begin, shared
<1>2. ASSUME NEW w \in Workers, Rollback(w) PROVE WritesAreMoved'
  BY <1>0, <1>2, QuietMoved DEF Rollback, EndTransaction, shared
<1>3. ASSUME NEW w \in Workers, Select(w) PROVE WritesAreMoved'
  <2>1. CASE GetRow(w) \/ GetMissing(w)
    BY <2>1, QuietMoved DEF GetRow, GetMissing, shared
  <2>2. CASE GetMultiple(w) \/ NothingToHold(w)
    BY <2>2, <1>2 DEF GetMultiple, NothingToHold
  <2>3. QED BY <1>3, <2>1, <2>2 DEF Select
<1>4. ASSUME NEW w \in Workers, Insert(w) PROVE WritesAreMoved'
  BY <1>4, InsertMoved
<1>5. ASSUME NEW w \in Workers, Run(w) PROVE WritesAreMoved'
  <2>1. CASE InsertConflict(w)
    BY <2>1, QuietMoved DEF InsertConflict, shared
  <2>2. CASE \/ ZeroDelta(w) \/ AdjustInsufficient(w)
             \/ ReserveInsufficient(w) \/ DeadlockAbort(w)
    BY <2>2, <1>2
       DEF ZeroDelta, AdjustInsufficient, ReserveInsufficient, DeadlockAbort
  <2>3. CASE AdjustRow(w)
    BY <2>3, AdjustMoved
  <2>4. CASE ReserveRow(w) \/ ReleaseRow(w)
    BY <2>4, HoldMoved
  <2>5. CASE Commit(w)
    BY <2>5, CommitMoved
  <2>6. QED BY <1>5, <2>1, <2>2, <2>3, <2>4, <2>5 DEF Run, Apply
<1>6. ASSUME NEW w \in Workers, Crash(w) PROVE WritesAreMoved'
  BY <1>6, <1>2 DEF Crash
<1>7. CASE UpdateSettings
  BY <1>7, QuietMoved DEF UpdateSettings, local
<1>8. CASE UNCHANGED vars
  BY <1>8, QuietMoved DEF vars, shared, local
<1>9. QED BY <1>1, <1>3, <1>4, <1>5, <1>6, <1>7, <1>8 DEF Next

-----------------------------------------------------------------------------
(* Reservations.                                                           *)

LEMMA InitReserves == Init => ReservesChecked
BY RowFacts DEF Init, ReservesChecked

LEMMA RollbackReserves ==
  ASSUME IInv, ReservesChecked, NEW w \in Workers, Rollback(w)
  PROVE  ReservesChecked'
BY RowFacts DEF IInv, TypeOK, ReservesChecked, Rollback, EndTransaction, shared

\* A worker that begins a call, or comes to its next statement.
LEMMA QuietReserves ==
  ASSUME IInv, ReservesChecked, NEW w \in Workers,
         \/ \E r \in Requests : Begin(w, r)
         \/ GetRow(w) \/ GetMissing(w) \/ InsertConflict(w)
  PROVE  ReservesChecked'
<1>1. UNCHANGED <<level, draft>>
  BY DEF Begin, GetRow, GetMissing, InsertConflict, shared
<1>2. /\ pc[w] # "commit" /\ \A v \in Workers \ {w} : pc'[v] = pc[v] /\ req'[v] = req[v]
  BY DEF Begin, GetRow, GetMissing, InsertConflict, Selecting, IInv, TypeOK
<1>3. /\ pc'[w] \in {"get", "apply"} /\ req'[w].op \notin Posting => draft[w] = NoDraft
      /\ pc'[w] = "insert" => req'[w].op \in Posting
  <2>1. CASE \E r \in Requests : Begin(w, r)
    BY <2>1 DEF Begin, IInv, TypeOK, IdleIsClean
  <2>2. CASE GetRow(w)
    BY <2>2 DEF GetRow, Selecting, IInv, TypeOK, ReservesChecked
  <2>3. CASE GetMissing(w)
    BY <2>3 DEF GetMissing, Selecting, IInv, TypeOK, ReservesChecked
  <2>4. CASE InsertConflict(w)
    BY <2>4 DEF InsertConflict, IInv, TypeOK, ReservesChecked
  <2>5. QED BY <2>1, <2>2, <2>3, <2>4
<1>4. QED BY <1>1, <1>2, <1>3 DEF ReservesChecked

\* A step of w that writes one row.
LEMMA WriteReserves ==
  ASSUME IInv, ReservesChecked, NEW w \in Workers, NEW h \in Rows, NEW new \in Level,
         pc[w] # "commit",
         draft' = [draft EXCEPT ![w][h] = new],
         UNCHANGED <<level, req>>,
         \A v \in Workers \ {w} : pc'[v] = pc[v],
         req[w].op \in Posting \/ pc'[w] = "commit",
         pc'[w] # "insert",
         level[h] # NoRow => \/ new.reserved <= level[h].reserved
                             \/ pc'[w] = "commit" /\ new.reserved <= new.quantity
  PROVE  ReservesChecked'
<1>1. draft \in [Workers -> [Rows -> Level \union {NoRow}]]
  BY DEF IInv, TypeOK
<1>2. \A v \in Workers \ {w} : draft'[v] = draft[v]
  BY <1>1
<1>3. \A r \in Rows \ {h} : draft'[w][r] = draft[w][r]
  BY <1>1
<1>4. draft'[w][h] = new
  BY <1>1
<1>5. QED BY <1>2, <1>3, <1>4 DEF ReservesChecked

LEMMA InsertReserves ==
  ASSUME IInv, ReservesChecked, NEW w \in Workers, Insert(w)
  PROVE  ReservesChecked'
<1> DEFINE zero == [quantity |-> 0, reserved |-> 0]
<1>1. /\ pc[w] = "insert" /\ pc' = [pc EXCEPT ![w] = "apply"]
      /\ UNCHANGED <<level, req>>
      /\ \E r \in InsertSlots(item(w).key) :
           level[r] = NoRow /\ draft' = [draft EXCEPT ![w][r] = zero]
  BY DEF Insert, shared
<1>2. PICK h \in InsertSlots(item(w).key) :
        level[h] = NoRow /\ draft' = [draft EXCEPT ![w][h] = zero]
  BY <1>1
<1>3. h \in Rows
  BY <1>1, ItemType, SlotsAssumption DEF InsertSlots, Rows
<1>4. zero \in Level
  BY DEF Level
<1>5. req[w].op \in Posting
  BY <1>1 DEF ReservesChecked
<1>6. pc'[w] = "apply" /\ \A v \in Workers \ {w} : pc'[v] = pc[v]
  BY <1>1 DEF IInv, TypeOK
<1> HIDE DEF zero
<1>7. QED BY <1>1, <1>2, <1>3, <1>4, <1>5, <1>6, WriteReserves

\* Where an item of a call leaves the worker.
LEMMA AfterItem ==
  ASSUME IInv, NEW w \in Workers, pc[w] = "apply", Advance(w)
  PROVE  /\ pc'[w] \in {"get", "commit"}
         /\ \A v \in Workers \ {w} : pc'[v] = pc[v]
         /\ req[w].op \notin Posting => pc'[w] = "commit"
<1>1. req[w] \in Requests /\ next[w] \in 1..Len(req[w].items)
  BY DEF IInv, ItemInHand
<1>2. req[w].op \notin Posting => Len(req[w].items) = 1
  BY <1>1, RequestsAssumption DEF Posting
<1>3. pc \in [Workers -> {"idle", "get", "insert", "apply", "commit"}]
  BY DEF IInv, TypeOK
<1>4. CASE next[w] < Len(req[w].items)
  <2>1. pc' = [pc EXCEPT ![w] = "get"]
    BY <1>4 DEF Advance
  <2>2. req[w].op \in Posting
    <3>1. next[w] \in Int /\ next[w] >= 1
      BY <1>1
    <3> SUFFICES ASSUME req[w].op \notin Posting PROVE FALSE
      OBVIOUS
    <3>2. Len(req[w].items) = 1
      BY <1>2
    <3>3. next[w] < 1
      BY <3>2, <1>4
    <3>4. QED BY <3>1, <3>3
  <2>3. QED BY <1>3, <2>1, <2>2
<1>5. CASE ~(next[w] < Len(req[w].items))
  <2>1. pc' = [pc EXCEPT ![w] = "commit"]
    BY <1>5 DEF Advance
  <2>2. QED BY <1>3, <2>1
<1>6. QED BY <1>4, <1>5

\* An adjustment leaves the reserved quantity as it was.
LEMMA AdjustReserves ==
  ASSUME IInv, ReservesChecked, NEW w \in Workers, AdjustRow(w)
  PROVE  ReservesChecked'
<1> DEFINE sl == [Current(w) EXCEPT !.quantity = After(w)]
<1>1. /\ pc[w] = "apply" /\ req[w].op \in Posting
      /\ draft' = [draft EXCEPT ![w][held[w]] = sl]
      /\ Advance(w)
      /\ UNCHANGED <<level, req>>
  BY DEF AdjustRow
<1>2. held[w] \in Rows /\ Current(w) \in Level /\ After(w) \in Int
  BY <1>1, CurrentType, ItemType DEF After
<1>3. sl \in Level /\ sl.reserved = Current(w).reserved
  BY <1>2 DEF Level
<1>4. level[held[w]] # NoRow => Current(w).reserved <= level[held[w]].reserved
  <2>1. CASE draft[w][held[w]] = NoRow
    BY <2>1, <1>2, NoRowAssumption DEF Current, View, Level
  <2>2. CASE draft[w][held[w]] # NoRow
    BY <2>2, <1>1, <1>2 DEF Current, View, ReservesChecked
  <2>3. QED BY <2>1, <2>2
<1>5. pc'[w] \in {"get", "commit"} /\ \A v \in Workers \ {w} : pc'[v] = pc[v]
  BY <1>1, AfterItem
<1> HIDE DEF sl
<1>6. QED BY <1>1, <1>2, <1>3, <1>4, <1>5, WriteReserves

\* A reservation takes what is available of the committed row, a release gives.
LEMMA HoldReserves ==
  ASSUME IInv, ReservesChecked, NEW w \in Workers, ReserveRow(w) \/ ReleaseRow(w)
  PROVE  ReservesChecked'
<1>0. /\ pc[w] = "apply" /\ req[w].op \notin Posting
      /\ Advance(w)
      /\ UNCHANGED <<level, req>>
  BY DEF ReserveRow, ReleaseRow, shared, Posting
<1>1. /\ held[w] \in Rows /\ Current(w) \in Level
      /\ Current(w).quantity \in Int /\ Current(w).reserved \in Nat
      /\ item(w).qty \in Int /\ item(w).qty > 0
  <2>1. req[w] \in Requests /\ next[w] \in 1..Len(req[w].items)
    BY <1>0 DEF IInv, ItemInHand
  <2>2. Len(req[w].items) = 1 /\ req[w].items[1].qty > 0
    BY <2>1, <1>0, RequestsAssumption DEF Posting
  <2>3. next[w] = 1
    BY <2>1, <2>2
  <2>4. QED BY <1>0, <2>2, <2>3, CurrentType, ItemType DEF Level, item
<1>2. draft[w] = NoDraft
  BY <1>0 DEF ReservesChecked
<1>3. Current(w) = level[held[w]]
  BY <1>1, <1>2, RowFacts DEF Current, View
<1>4. PICK n \in Nat : /\ SetReserved(w, n)
                       /\ n <= Current(w).reserved \/ n <= Current(w).quantity
  <2>1. CASE ReserveRow(w)
    <3>1. /\ available_quantity(Current(w)) >= item(w).qty
          /\ SetReserved(w, Current(w).reserved + item(w).qty)
      BY <2>1 DEF ReserveRow
    <3>2. Current(w).quantity - Current(w).reserved >= item(w).qty
      BY <3>1, <1>1, MaxOfTwo DEF available_quantity
    <3>3. QED BY <3>1, <3>2, <1>1
  <2>2. CASE ReleaseRow(w)
    <3>1. SetReserved(w, Max({Current(w).reserved - item(w).qty, 0}))
      BY <2>2 DEF ReleaseRow
    <3>2. /\ Max({Current(w).reserved - item(w).qty, 0}) \in Nat
          /\ Max({Current(w).reserved - item(w).qty, 0}) <= Current(w).reserved
      BY <1>1, MaxOfTwo
    <3>3. QED BY <3>1, <3>2
  <2>3. QED BY <2>1, <2>2
<1> DEFINE sl == [Current(w) EXCEPT !.reserved = n]
<1>5. draft' = [draft EXCEPT ![w][held[w]] = sl]
  BY <1>4 DEF SetReserved
<1>6. sl \in Level /\ sl.reserved = n /\ sl.quantity = Current(w).quantity
  BY <1>1 DEF Level
<1>7. \/ sl.reserved <= level[held[w]].reserved \/ sl.reserved <= sl.quantity
  BY <1>3, <1>4, <1>6
<1>8. pc'[w] = "commit" /\ \A v \in Workers \ {w} : pc'[v] = pc[v]
  BY <1>0, AfterItem
<1> HIDE DEF sl
<1>9. QED BY <1>0, <1>1, <1>5, <1>6, <1>7, <1>8, WriteReserves

\* Nobody else has written a row that a commit changes.
LEMMA CommitReserves ==
  ASSUME IInv, ReservesChecked, NEW w \in Workers, Commit(w)
  PROVE  ReservesChecked'
<1>1. /\ level' = [r \in Rows |-> View(w, r)]
      /\ draft' = [draft EXCEPT ![w] = NoDraft]
      /\ pc' = [pc EXCEPT ![w] = "idle"] /\ req' = [req EXCEPT ![w] = NoCall]
  BY DEF Commit, EndTransaction
<1>2. ASSUME NEW v \in Workers \ {w}, NEW r \in Rows, draft[v][r] # NoRow
      PROVE  level'[r] = level[r]
  <2>1. draft[w][r] = NoRow
    BY <1>2 DEF IInv, WritesAreLocked
  <2>2. QED BY <2>1, <1>1 DEF View
<1>3. draft'[w] = NoDraft /\ pc'[w] = "idle"
  BY <1>1 DEF IInv, TypeOK
<1>4. \A v \in Workers \ {w} : draft'[v] = draft[v] /\ pc'[v] = pc[v] /\ req'[v] = req[v]
  BY <1>1 DEF IInv, TypeOK
<1>5. QED BY <1>2, <1>3, <1>4, RowFacts DEF ReservesChecked

LEMMA StepReserves == IInv /\ ReservesChecked /\ [Next]_vars => ReservesChecked'
<1> SUFFICES ASSUME IInv, ReservesChecked, [Next]_vars PROVE ReservesChecked'
  OBVIOUS
<1>1. ASSUME NEW w \in Workers, NEW r \in Requests, Begin(w, r)
      PROVE  ReservesChecked'
  BY <1>1, QuietReserves
<1>2. ASSUME NEW w \in Workers, Select(w) PROVE ReservesChecked'
  <2>1. CASE GetRow(w) \/ GetMissing(w)
    BY <2>1, QuietReserves
  <2>2. CASE GetMultiple(w) \/ NothingToHold(w)
    BY <2>2, RollbackReserves DEF GetMultiple, NothingToHold
  <2>3. QED BY <1>2, <2>1, <2>2 DEF Select
<1>3. ASSUME NEW w \in Workers, Insert(w) PROVE ReservesChecked'
  BY <1>3, InsertReserves
<1>4. ASSUME NEW w \in Workers, Run(w) PROVE ReservesChecked'
  <2>1. CASE InsertConflict(w)
    BY <2>1, QuietReserves
  <2>2. CASE \/ ZeroDelta(w) \/ AdjustInsufficient(w)
             \/ ReserveInsufficient(w) \/ DeadlockAbort(w)
    BY <2>2, RollbackReserves
       DEF ZeroDelta, AdjustInsufficient, ReserveInsufficient, DeadlockAbort
  <2>3. CASE AdjustRow(w)
    BY <2>3, AdjustReserves
  <2>4. CASE ReserveRow(w) \/ ReleaseRow(w)
    BY <2>4, HoldReserves
  <2>5. CASE Commit(w)
    BY <2>5, CommitReserves
  <2>6. QED BY <1>4, <2>1, <2>2, <2>3, <2>4, <2>5 DEF Run, Apply
<1>5. ASSUME NEW w \in Workers, Crash(w) PROVE ReservesChecked'
  BY <1>5, RollbackReserves DEF Crash
<1>6. CASE UpdateSettings
  BY <1>6 DEF UpdateSettings, local, ReservesChecked
<1>7. CASE UNCHANGED vars
  BY <1>7 DEF vars, shared, local, ReservesChecked
<1>8. QED BY <1>1, <1>2, <1>3, <1>4, <1>5, <1>6, <1>7 DEF Next

\* Only a commit changes a row, and it publishes what its worker has written.
LEMMA StepWithinAvailable ==
  ASSUME IInv, ReservesChecked, [Next]_vars, NEW r \in Rows, level[r] # NoRow,
         level'[r].reserved > level[r].reserved
  PROVE  level'[r].reserved <= level'[r].quantity
<1>1. level[r].reserved \in Nat
  BY NoRowAssumption DEF IInv, TypeOK, Level
<1>2. PICK w \in Workers : Commit(w)
  <2>1. level' # level
    BY <1>1
  <2>2. QED BY <2>1 DEF Next, vars, shared, local, Begin, Select, GetRow, GetMultiple,
          GetMissing, NothingToHold, Insert, Run, ZeroDelta, InsertConflict, Apply,
          AdjustRow, AdjustInsufficient, ReserveRow, ReserveInsufficient, ReleaseRow,
          DeadlockAbort, Crash, Rollback, UpdateSettings
<1>3. level'[r] = View(w, r)
  BY <1>2 DEF Commit
<1>4. draft[w][r] # NoRow /\ level'[r] = draft[w][r]
  BY <1>1, <1>3 DEF View
<1>5. draft[w][r].reserved \in Nat
  BY <1>4 DEF IInv, TypeOK, Level
<1>6. QED BY <1>1, <1>4, <1>5 DEF ReservesChecked

-----------------------------------------------------------------------------
(* The batch of the items a call is done with.                             *)

Part(items, n)  == [i \in 1..n |-> items[i]]
Of(items, k, n) == {i \in 1..n : items[i].key = k}
Sum(items, S)   == SumFunctionOnSet([i \in 1..Len(items) |-> items[i].qty], S)

\* The sums of the promise are those of the library.
LEMMA PromiseSum ==
  ASSUME NEW f, NEW S
  PROVE  Promise!SumFunctionOnSet(f, S) = SumFunctionOnSet(f, S)
BY DEF Promise!SumFunctionOnSet, SumFunctionOnSet, Promise!FoldFunctionOnSet, FoldFunctionOnSet,
       Promise!MapThenFoldSet, MapThenFoldSet

LEMMA PromiseCardinality == ASSUME NEW S PROVE Promise!Cardinality(S) = Cardinality(S)
BY DEF Promise!Cardinality, Cardinality

\* The member with the rank of i is i.
LEMMA NthIs ==
  ASSUME NEW S, IsFiniteSet(S), S \subseteq Int, NEW i \in S
  PROVE  Promise!Nth(S, Cardinality(UpTo(S, i))) = i
<1> DEFINE P(j) == Promise!Cardinality({k \in S : k <= j}) = Cardinality(UpTo(S, i))
<1>1. \A j : P(j) <=> Cardinality(UpTo(S, j)) = Cardinality(UpTo(S, i))
  BY PromiseCardinality DEF UpTo
<1>2. P(i) /\ \A j \in S : P(j) => j = i
  BY <1>1, RankInjective
<1> HIDE DEF P
<1>3. (CHOOSE j \in S : P(j)) = i
  BY <1>2
<1>4. QED BY <1>3 DEF P, Promise!Nth

LEMMA OfFinite ==
  ASSUME NEW items, NEW k, NEW n \in Nat
  PROVE  IsFiniteSet(Of(items, k, n)) /\ Of(items, k, n) \subseteq 1..n
<1>1. IsFiniteSet(1..n)
  BY FS_Interval
<1>2. Of(items, k, n) \subseteq 1..n
  BY DEF Of
<1>3. QED BY <1>1, <1>2, FS_Subset

LEMMA ItemsTyped ==
  ASSUME NEW items \in Seq(Item), NEW i \in 1..Len(items)
  PROVE  items[i].key \in Keys /\ items[i].qty \in Int
<1>1. items[i] \in Item
  OBVIOUS
<1>2. QED BY <1>1 DEF Item

LEMMA SumOfInt ==
  ASSUME NEW items \in Seq(Item), NEW k, NEW n \in 0..Len(items)
  PROVE  Sum(items, Of(items, k, n)) \in Int
<1> DEFINE f == [i \in 1..Len(items) |-> items[i].qty]
           S == Of(items, k, n)
<1>1. IsFiniteSet(S) /\ S \subseteq 1..n
  BY OfFinite
<1>2. 1..n \subseteq 1..Len(items)
  OBVIOUS
<1>3. \A i \in S : f[i] \in Int
  BY <1>1, <1>2, ItemsTyped
<1> HIDE DEF f, S
<1>4. SumFunctionOnSet(f, S) \in Int
  BY <1>1, <1>3, SumInt
<1>5. QED BY <1>4 DEF Sum, f, S

\* One item more.
LEMMA OfNext ==
  ASSUME NEW items, NEW k, NEW n \in Nat
  PROVE  Of(items, k, n + 1) =
           IF items[n + 1].key = k THEN Of(items, k, n) \union {n + 1} ELSE Of(items, k, n)
<1>1. 1..(n + 1) = (1..n) \union {n + 1} /\ n + 1 \notin 1..n
  OBVIOUS
<1>2. QED BY <1>1 DEF Of

LEMMA SumNextItem ==
  ASSUME NEW items \in Seq(Item), NEW k, NEW n \in Nat, n + 1 <= Len(items)
  PROVE  Sum(items, Of(items, k, n + 1)) =
           Sum(items, Of(items, k, n)) + IF items[n + 1].key = k THEN items[n + 1].qty ELSE 0
<1> DEFINE f == [i \in 1..Len(items) |-> items[i].qty]
           S == Of(items, k, n)
<1>1. n + 1 \in 1..Len(items) /\ n \in 0..Len(items) /\ 1..n \subseteq 1..Len(items)
  OBVIOUS
<1>2. IsFiniteSet(S) /\ S \subseteq 1..n /\ n + 1 \notin S
  BY OfFinite
<1>3. f[n + 1] = items[n + 1].qty
  BY <1>1
<1>4. SumFunctionOnSet(f, S) \in Int
  BY <1>1, SumOfInt DEF Sum
<1>5. CASE items[n + 1].key = k
  <2>1. Of(items, k, n + 1) = S \union {n + 1}
    BY <1>5, OfNext
  <2>2. \A i \in S \union {n + 1} : f[i] \in Int
    BY <1>1, <1>2, ItemsTyped
  <2>3. f[n + 1] \in Int
    BY <2>2
  <2> HIDE DEF f, S
  <2>4. SumFunctionOnSet(f, S \union {n + 1}) = f[n + 1] + SumFunctionOnSet(f, S)
    BY <1>2, <2>2, SumAdd
  <2>5. f[n + 1] + SumFunctionOnSet(f, S) = SumFunctionOnSet(f, S) + f[n + 1]
    BY <1>4, <2>3
  <2>6. Sum(items, Of(items, k, n + 1)) = SumFunctionOnSet(f, S) + f[n + 1]
    BY <2>1, <2>4, <2>5 DEF Sum, f
  <2>7. Sum(items, Of(items, k, n)) = SumFunctionOnSet(f, S)
    BY DEF Sum, f, S
  <2>8. QED BY <1>3, <1>5, <2>6, <2>7
<1>6. CASE items[n + 1].key # k
  <2>1. Of(items, k, n + 1) = Of(items, k, n)
    BY <1>6, OfNext
  <2>2. QED BY <1>4, <1>6, <2>1 DEF Sum
<1>7. QED BY <1>5, <1>6

\* The promise of a part of a call, in these terms.
LEMMA PartItems ==
  ASSUME NEW items, NEW k, NEW n \in Nat
  PROVE  Promise!ItemsOf(Part(items, n), k) = Of(items, k, n)
BY DEF Promise!ItemsOf, Part, Of

LEMMA PartChange ==
  ASSUME NEW items \in Seq(Item), NEW n \in 0..Len(items), NEW S \in SUBSET (1..n)
  PROVE  Promise!Change(Part(items, n), S) = Sum(items, S)
<1> DEFINE f == [i \in DOMAIN Part(items, n) |-> Part(items, n)[i].qty]
           g == [i \in 1..Len(items) |-> items[i].qty]
<1>1. IsFiniteSet(S)
  <2>1. IsFiniteSet(1..n)
    BY FS_Interval
  <2>2. QED BY <2>1, FS_Subset
<1>2. \A i \in S : f[i] = g[i]
  BY DEF Part
<1>3. Promise!Change(Part(items, n), S) = SumFunctionOnSet(f, S)
  BY PromiseSum DEF Promise!Change
<1>4. Sum(items, S) = SumFunctionOnSet(g, S)
  BY DEF Sum
<1> HIDE DEF f, g
<1>5. QED BY <1>1, <1>2, <1>3, <1>4, SumSame

LEMMA PartRunning ==
  ASSUME NEW items \in Seq(Item), NEW n \in 0..Len(items), NEW k, NEW i \in 0..n, NEW q
  PROVE  Promise!Running(q, Part(items, n), k, i) = q + Sum(items, Of(items, k, i))
<1>1. {j \in Promise!ItemsOf(Part(items, n), k) : j <= i} = Of(items, k, i)
  BY PartItems DEF Of
<1>2. Of(items, k, i) \subseteq 1..n
  BY DEF Of
<1>3. QED BY <1>1, <1>2, PartChange DEF Promise!Running

\* The movement of the item at a position.
MoveAt(items, q, k, i) ==
  [before |-> q + Sum(items, Of(items, k, i - 1)),
   delta  |-> items[i].qty,
   after  |-> q + Sum(items, Of(items, k, i))]

LEMMA PartMovements ==
  ASSUME NEW items \in Seq(Item), NEW n \in 0..Len(items), NEW k, NEW q
  PROVE  Promise!NewMovements(q, Part(items, n), k) =
           [m \in 1..Cardinality(Of(items, k, n)) |->
              MoveAt(items, q, k, Promise!Nth(Of(items, k, n), m))]
<1> DEFINE S == Of(items, k, n)
           b == Part(items, n)
<1>1. IsFiniteSet(S) /\ S \subseteq 1..n /\ S \subseteq Int /\ Cardinality(S) \in Nat
  <2>1. IsFiniteSet(S) /\ S \subseteq 1..n
    BY OfFinite
  <2>2. QED BY <2>1, FS_CardinalityType
<1>2. Promise!ItemsOf(b, k) = S
  BY PartItems
<1>3. ASSUME NEW m \in 1..Cardinality(S)
      PROVE  [before |-> Promise!Running(q, b, k, Promise!Nth(S, m) - 1),
              delta  |-> b[Promise!Nth(S, m)].qty,
              after  |-> Promise!Running(q, b, k, Promise!Nth(S, m))] =
               MoveAt(items, q, k, Promise!Nth(S, m))
  <2>1. PICK i \in S : Cardinality(UpTo(S, i)) = m
    BY <1>1, AllRanked DEF Ranked
  <2>2. Promise!Nth(S, m) = i
    BY <1>1, <2>1, NthIs
  <2>3. i \in 1..n /\ i - 1 \in 0..n /\ i \in 0..n
    BY <1>1
  <2>4. b[i] = items[i]
    BY <2>3 DEF Part
  <2>5. /\ Promise!Running(q, b, k, i - 1) = q + Sum(items, Of(items, k, i - 1))
        /\ Promise!Running(q, b, k, i) = q + Sum(items, Of(items, k, i))
    BY <2>3, PartRunning
  <2>6. QED BY <2>2, <2>4, <2>5 DEF MoveAt
<1> HIDE DEF S, b
<1>4. Promise!NewMovements(q, b, k) =
        [m \in 1..Cardinality(S) |-> MoveAt(items, q, k, Promise!Nth(S, m))]
  BY <1>2, <1>3, PromiseCardinality DEF Promise!NewMovements
<1>5. QED BY <1>4 DEF S, b

\* A greatest position more is the last.
LEMMA NthAdd ==
  ASSUME NEW S, IsFiniteSet(S), S \subseteq Int, NEW i \in Int, \A j \in S : j < i
  PROVE  /\ Cardinality(S \union {i}) = Cardinality(S) + 1 /\ Cardinality(S) \in Nat
         /\ Promise!Nth(S \union {i}, Cardinality(S) + 1) = i
         /\ \A m \in 1..Cardinality(S) : Promise!Nth(S \union {i}, m) = Promise!Nth(S, m)
<1> DEFINE T == S \union {i}
<1>1. /\ IsFiniteSet(T) /\ Cardinality(T) = Cardinality(S) + 1
      /\ UpTo(T, i) = T /\ \A j \in S : UpTo(T, j) = UpTo(S, j)
  BY RankAdd
<1>2. T \subseteq Int /\ i \in T /\ S \subseteq T
  OBVIOUS
<1> HIDE DEF T
<1>3. Promise!Nth(T, Cardinality(S) + 1) = i
  BY <1>1, <1>2, NthIs
<1>4. ASSUME NEW m \in 1..Cardinality(S) PROVE Promise!Nth(T, m) = Promise!Nth(S, m)
  <2>1. PICK j \in S : Cardinality(UpTo(S, j)) = m
    BY AllRanked DEF Ranked
  <2>2. Promise!Nth(S, m) = j
    BY <2>1, NthIs
  <2>3. j \in T /\ Cardinality(UpTo(T, j)) = m
    BY <1>1, <1>2, <2>1
  <2>4. Promise!Nth(T, m) = j
    BY <1>1, <1>2, <2>3, NthIs
  <2>5. QED BY <2>2, <2>4
<1>5. Cardinality(S) \in Nat
  BY FS_CardinalityType
<1>6. QED BY <1>1, <1>3, <1>4, <1>5 DEF T

LEMMA AppendIs ==
  ASSUME NEW V, NEW s \in Seq(V), NEW x, NEW t,
         t = [m \in 1..(Len(s) + 1) |-> IF m = Len(s) + 1 THEN x ELSE s[m]]
  PROVE  t = Append(s, x)
<1> DEFINE W == V \union {x}
           u == Append(s, x)
<1>1. s \in Seq(W) /\ Len(s) \in Nat
  OBVIOUS
<1>2. /\ u \in Seq(W) /\ Len(u) = Len(s) + 1
      /\ \A m \in 1..Len(u) : u[m] = IF m = Len(s) + 1 THEN x ELSE s[m]
  BY <1>1
<1> HIDE DEF u, W
<1>3. u \in [1..Len(u) -> W]
  BY <1>2
<1>4. QED BY <1>1, <1>2, <1>3 DEF u

\* The movements of a call, one item later.
LEMMA MovementsNext ==
  ASSUME NEW items \in Seq(Item), NEW n \in Nat, n + 1 <= Len(items), NEW k, NEW q
  PROVE  Promise!NewMovements(q, Part(items, n + 1), k) =
           IF items[n + 1].key = k
           THEN Append(Promise!NewMovements(q, Part(items, n), k), MoveAt(items, q, k, n + 1))
           ELSE Promise!NewMovements(q, Part(items, n), k)
<1> DEFINE S == Of(items, k, n)
           T == Of(items, k, n + 1)
           old == Promise!NewMovements(q, Part(items, n), k)
           new == Promise!NewMovements(q, Part(items, n + 1), k)
<1>1. n \in 0..Len(items) /\ n + 1 \in 0..Len(items)
  OBVIOUS
<1>2. IsFiniteSet(S) /\ S \subseteq Int /\ \A j \in S : j < n + 1
  <2>1. IsFiniteSet(S) /\ S \subseteq 1..n
    BY OfFinite
  <2>2. QED BY <2>1
<1>3. /\ old = [m \in 1..Cardinality(S) |-> MoveAt(items, q, k, Promise!Nth(S, m))]
      /\ new = [m \in 1..Cardinality(T) |-> MoveAt(items, q, k, Promise!Nth(T, m))]
  <2>1. old = [m \in 1..Cardinality(S) |-> MoveAt(items, q, k, Promise!Nth(S, m))]
    BY <1>1, PartMovements
  <2>2. new = [m \in 1..Cardinality(T) |-> MoveAt(items, q, k, Promise!Nth(T, m))]
    <3> DEFINE p == n + 1
    <3>1. p \in 0..Len(items)
      BY <1>1
    <3> HIDE DEF p
    <3>2. Promise!NewMovements(q, Part(items, p), k) =
            [m \in 1..Cardinality(Of(items, k, p)) |->
               MoveAt(items, q, k, Promise!Nth(Of(items, k, p), m))]
      BY <3>1, PartMovements
    <3>3. QED BY <3>2 DEF p
  <2>3. QED BY <2>1, <2>2
<1>4. CASE items[n + 1].key = k
  <2>1. T = S \union {n + 1}
    BY <1>4, OfNext
  <2> HIDE DEF S, T, old, new
  <2>2. /\ Cardinality(T) = Cardinality(S) + 1 /\ Cardinality(S) \in Nat
        /\ Promise!Nth(T, Cardinality(S) + 1) = n + 1
        /\ \A m \in 1..Cardinality(S) : Promise!Nth(T, m) = Promise!Nth(S, m)
    <3> DEFINE i == n + 1
    <3>1. i \in Int /\ T = S \union {i} /\ \A j \in S : j < i
      BY <1>2, <2>1
    <3> HIDE DEF i
    <3>2. /\ Cardinality(T) = Cardinality(S) + 1 /\ Cardinality(S) \in Nat
          /\ Promise!Nth(T, Cardinality(S) + 1) = i
          /\ \A m \in 1..Cardinality(S) : Promise!Nth(T, m) = Promise!Nth(S, m)
      BY <1>2, <3>1, NthAdd
    <3>3. QED BY <3>2 DEF i
  <2>3. new = Append(old, MoveAt(items, q, k, n + 1))
    <3> DEFINE c == Cardinality(S)
               x == MoveAt(items, q, k, n + 1)
    <3>1. DOMAIN new = 1..(c + 1) /\ new[c + 1] = x /\ \A m \in 1..c : new[m] = old[m]
      BY <1>3, <2>2
    <3> DEFINE V == {old[m] : m \in 1..c}
    <3>2. old \in Seq(V) /\ Len(old) = c
      BY <1>3, <2>2
    <3>3. new = [m \in 1..(Len(old) + 1) |-> IF m = Len(old) + 1 THEN x ELSE old[m]]
      BY <1>3, <2>2, <3>2
    <3> HIDE DEF x, c, V
    <3>4. new = Append(old, x)
      BY <3>2, <3>3, AppendIs
    <3>5. QED BY <3>4 DEF x
  <2>4. QED BY <1>4, <2>3 DEF old, new
<1>5. CASE items[n + 1].key # k
  <2>1. T = S
    BY <1>5, OfNext
  <2>2. QED BY <1>3, <1>5, <2>1
<1>6. QED BY <1>4, <1>5

\* A call that is done with no item of a key.
LEMMA MovementsNone ==
  ASSUME NEW items \in Seq(Item), NEW n \in 0..Len(items), NEW k, NEW q, NEW r
  PROVE  /\ n = 0 => Promise!NewMovements(q, Part(items, n), k) = <<>>
         /\ Promise!NewMovements(q, Part(items, n), k) = <<>> <=> Of(items, k, n) = {}
         /\ Of(items, k, n) = {} => Sum(items, Of(items, k, n)) = 0
<1> DEFINE S == Of(items, k, n)
<1>1. n = 0 => S = {}
  BY DEF Of
<1>2. Promise!NewMovements(q, Part(items, n), k) =
        [m \in 1..Cardinality(S) |-> MoveAt(items, q, k, Promise!Nth(S, m))]
  BY PartMovements
<1>3. IsFiniteSet(S) /\ Cardinality(S) \in Nat /\ (Cardinality(S) = 0 <=> S = {})
  <2>1. IsFiniteSet(S)
    BY OfFinite
  <2>2. QED BY <2>1, FS_CardinalityType, FS_EmptySet
<1>4. S = {} => Sum(items, S) = 0
  BY SumEmpty DEF Sum
<1> HIDE DEF S
<1>5. Promise!NewMovements(q, Part(items, n), k) = <<>> <=> Cardinality(S) = 0
  BY <1>2, <1>3
<1>6. QED BY <1>1, <1>3, <1>4, <1>5 DEF S

-----------------------------------------------------------------------------
(* What a transaction has written is what its items promise.               *)

\* PostsBatch, of any quantities, movements, differences and permission.
Posts(items, n, here, moved, ahead, ok) ==
  /\ \A k \in UniqueKeys :
       /\ moved[k] = Promise!NewMovements(here[k], Part(items, n), k)
       /\ ahead[k] = Promise!Change(Part(items, n), Promise!ItemsOf(Part(items, n), k))
  /\ \A i \in 1..n :
       /\ items[i].qty # 0
       /\ LET k == items[i].key
          IN  k \in UniqueKeys /\ Promise!Running(here[k], Part(items, n), k, i) < 0 => ok

Here     == [k \in UniqueKeys |-> Quantity(RowOf(k))]
Aheads(w) == [k \in UniqueKeys |-> Ahead(w, RowOf(k))]

LEMMA PostsState ==
  ASSUME NEW w
  PROVE  PostsBatch(w) <=>
           Posts(req[w].items, Done(w), Here, pending[w], Aheads(w), everAllowed)
BY DEF PostsBatch, Posts, Here, Aheads, Batch, Part

LEMMA PostsStateNext ==
  ASSUME NEW w
  PROVE  PostsBatch(w)' <=>
           Posts(req'[w].items, Done(w)', Here', pending'[w], Aheads(w)', everAllowed')
BY DEF PostsBatch, Posts, Here, Aheads, Batch, Part

\* The same in sums over the items.
LEMMA PostsSums ==
  ASSUME NEW items \in Seq(Item), NEW n \in 0..Len(items),
         NEW here, NEW moved, NEW ahead, NEW ok
  PROVE  Posts(items, n, here, moved, ahead, ok) <=>
           /\ \A k \in UniqueKeys :
                /\ moved[k] = Promise!NewMovements(here[k], Part(items, n), k)
                /\ ahead[k] = Sum(items, Of(items, k, n))
           /\ \A i \in 1..n :
                /\ items[i].qty # 0
                /\ LET k == items[i].key
                   IN  k \in UniqueKeys /\ here[k] + Sum(items, Of(items, k, i)) < 0 => ok
<1>1. \A k : Promise!Change(Part(items, n), Promise!ItemsOf(Part(items, n), k)) =
               Sum(items, Of(items, k, n))
  <2> TAKE k
  <2>1. Promise!ItemsOf(Part(items, n), k) = Of(items, k, n)
    BY PartItems
  <2>2. Of(items, k, n) \subseteq 1..n
    BY DEF Of
  <2>3. QED BY <2>1, <2>2, PartChange
<1>2. \A k : \A i \in 1..n :
        Promise!Running(here[k], Part(items, n), k, i) = here[k] + Sum(items, Of(items, k, i))
  BY PartRunning
<1>3. QED BY <1>1, <1>2 DEF Posts

LEMMA PostsNone ==
  ASSUME NEW items \in Seq(Item), NEW here, NEW moved, NEW ahead, NEW ok,
         \A k \in UniqueKeys : moved[k] = <<>> /\ ahead[k] = 0
  PROVE  Posts(items, 0, here, moved, ahead, ok)
<1>1. 0 \in 0..Len(items) /\ 1..0 = {}
  OBVIOUS
<1>2. \A k \in UniqueKeys :
        /\ Promise!NewMovements(here[k], Part(items, 0), k) = <<>>
        /\ Sum(items, Of(items, k, 0)) = 0
  BY <1>1, MovementsNone
<1>3. QED BY <1>1, <1>2, PostsSums

\* The quantity of a key the call has not touched may become another.
LEMMA PostsFrame ==
  ASSUME NEW items \in Seq(Item), NEW n \in 0..Len(items),
         NEW here, NEW new, NEW moved, NEW ahead, NEW ok, NEW may,
         Posts(items, n, here, moved, ahead, ok),
         \A k \in UniqueKeys : moved[k] = <<>> \/ new[k] = here[k],
         ok => may
  PROVE  Posts(items, n, new, moved, ahead, may)
<1>1. /\ \A k \in UniqueKeys :
           /\ moved[k] = Promise!NewMovements(here[k], Part(items, n), k)
           /\ ahead[k] = Sum(items, Of(items, k, n))
      /\ \A i \in 1..n :
           /\ items[i].qty # 0
           /\ LET k == items[i].key
              IN  k \in UniqueKeys /\ here[k] + Sum(items, Of(items, k, i)) < 0 => ok
  BY PostsSums
<1>2. \A k \in UniqueKeys : moved[k] = Promise!NewMovements(new[k], Part(items, n), k)
  <2> SUFFICES ASSUME NEW k \in UniqueKeys
               PROVE  moved[k] = Promise!NewMovements(new[k], Part(items, n), k)
    OBVIOUS
  <2>1. CASE moved[k] = <<>>
    <3>1. Of(items, k, n) = {}
      BY <1>1, <2>1, MovementsNone
    <3>2. QED BY <2>1, <3>1, MovementsNone
  <2>2. CASE new[k] = here[k]
    BY <1>1, <2>2
  <2>3. QED BY <2>1, <2>2
<1>3. \A i \in 1..n : items[i].key \in UniqueKeys => new[items[i].key] = here[items[i].key]
  <2> SUFFICES ASSUME NEW i \in 1..n, items[i].key \in UniqueKeys
               PROVE  new[items[i].key] = here[items[i].key]
    OBVIOUS
  <2>1. i \in Of(items, items[i].key, n)
    BY DEF Of
  <2>2. moved[items[i].key] # <<>>
    BY <1>1, <2>1, MovementsNone
  <2>3. QED BY <2>2
<1>4. QED BY <1>1, <1>2, <1>3, PostsSums

\* One item more, whose movement goes on from where the row is.
LEMMA PostsNext ==
  ASSUME NEW items \in Seq(Item), NEW n \in Nat, n + 1 <= Len(items),
         NEW here \in [UniqueKeys -> Int], NEW moved, NEW ahead, NEW ok,
         NEW moved2, NEW ahead2,
         Posts(items, n, here, moved, ahead, ok),
         items[n + 1].qty # 0,
         LET k == items[n + 1].key
             q == here[k] + ahead[k]
             d == items[n + 1].qty
         IN  /\ k \in UniqueKeys =>
                  /\ moved2[k] = Append(moved[k], [before |-> q, delta |-> d, after |-> q + d])
                  /\ ahead2[k] = ahead[k] + d
                  /\ q + d < 0 => ok
             /\ \A j \in UniqueKeys \ {k} : moved2[j] = moved[j] /\ ahead2[j] = ahead[j]
  PROVE  Posts(items, n + 1, here, moved2, ahead2, ok)
<1> DEFINE k == items[n + 1].key
           d == items[n + 1].qty
           S(j, i) == Sum(items, Of(items, j, i))
<1>0. n \in 0..Len(items) /\ n + 1 \in 0..Len(items) /\ n + 1 \in 1..Len(items) /\ (n + 1) - 1 = n
  OBVIOUS
<1>1. /\ \A j \in UniqueKeys :
           /\ moved[j] = Promise!NewMovements(here[j], Part(items, n), j)
           /\ ahead[j] = S(j, n)
      /\ \A i \in 1..n :
           /\ items[i].qty # 0
           /\ items[i].key \in UniqueKeys /\ here[items[i].key] + S(items[i].key, i) < 0 => ok
  BY <1>0, PostsSums
<1>2. d \in Int
  BY <1>0, ItemsTyped
<1>3. \A j : S(j, n) \in Int /\ S(j, n + 1) = S(j, n) + IF k = j THEN d ELSE 0
  BY <1>0, SumOfInt, SumNextItem
<1>4. \A j \in UniqueKeys :
        Promise!NewMovements(here[j], Part(items, n + 1), j) =
          IF k = j THEN Append(moved[j], MoveAt(items, here[j], j, n + 1)) ELSE moved[j]
  BY <1>0, <1>1, MovementsNext
<1>5. k \in UniqueKeys =>
        /\ here[k] \in Int
        /\ MoveAt(items, here[k], k, n + 1) =
             [before |-> here[k] + S(k, n), delta |-> d, after |-> here[k] + S(k, n + 1)]
        /\ here[k] + S(k, n + 1) = here[k] + S(k, n) + d
  <2> SUFFICES ASSUME k \in UniqueKeys
               PROVE  /\ here[k] \in Int
                      /\ MoveAt(items, here[k], k, n + 1) =
                           [before |-> here[k] + S(k, n), delta |-> d,
                            after |-> here[k] + S(k, n + 1)]
                      /\ here[k] + S(k, n + 1) = here[k] + S(k, n) + d
    OBVIOUS
  <2>1. here[k] \in Int
    OBVIOUS
  <2>2. MoveAt(items, here[k], k, n + 1) =
          [before |-> here[k] + S(k, n), delta |-> d, after |-> here[k] + S(k, n + 1)]
    BY <1>0 DEF MoveAt
  <2>3. S(k, n) \in Int /\ S(k, n + 1) = S(k, n) + d
    BY <1>3
  <2> HIDE DEF k, d, S
  <2>4. QED BY <1>2, <2>1, <2>2, <2>3
<1>6. /\ k \in UniqueKeys =>
           /\ moved2[k] = Append(moved[k], [before |-> here[k] + ahead[k], delta |-> d,
                                            after |-> here[k] + ahead[k] + d])
           /\ ahead2[k] = ahead[k] + d
           /\ here[k] + ahead[k] + d < 0 => ok
      /\ \A j \in UniqueKeys \ {k} : moved2[j] = moved[j] /\ ahead2[j] = ahead[j]
      /\ d # 0
  OBVIOUS
<1>7. \A i \in 1..(n + 1) : i \in 1..n \/ i = n + 1
  OBVIOUS
<1>8. \A j \in UniqueKeys :
        /\ moved2[j] = Promise!NewMovements(here[j], Part(items, n + 1), j)
        /\ ahead2[j] = S(j, n + 1)
  <2> SUFFICES ASSUME NEW j \in UniqueKeys
               PROVE  /\ moved2[j] = Promise!NewMovements(here[j], Part(items, n + 1), j)
                      /\ ahead2[j] = S(j, n + 1)
    OBVIOUS
  <2> HIDE DEF k, d, S
  <2>1. CASE j = k
    BY <1>1, <1>3, <1>4, <1>5, <1>6, <2>1
  <2>2. CASE j # k
    <3>1. S(j, n + 1) = S(j, n)
      BY <1>3, <2>2
    <3>2. QED BY <1>1, <1>4, <1>6, <2>2, <3>1
  <2>3. QED BY <2>1, <2>2
<1>9. \A i \in 1..(n + 1) :
        /\ items[i].qty # 0
        /\ items[i].key \in UniqueKeys /\ here[items[i].key] + S(items[i].key, i) < 0 => ok
  <2> SUFFICES ASSUME NEW i \in 1..(n + 1)
               PROVE  /\ items[i].qty # 0
                      /\ items[i].key \in UniqueKeys
                         /\ here[items[i].key] + S(items[i].key, i) < 0 => ok
    OBVIOUS
  <2>1. CASE i \in 1..n
    BY <1>1, <2>1
  <2>2. CASE i = n + 1
    <3>1. items[i].key = k /\ items[i].qty = d
      BY <2>2
    <3> HIDE DEF k, d, S
    <3>2. QED BY <1>1, <1>5, <1>6, <2>2, <3>1
  <2>3. QED BY <1>7, <2>1, <2>2
<1>10. QED
  <2> DEFINE p == n + 1
  <2>1. p \in 0..Len(items)
    BY <1>0
  <2>2. /\ \A j \in UniqueKeys :
             /\ moved2[j] = Promise!NewMovements(here[j], Part(items, p), j)
             /\ ahead2[j] = Sum(items, Of(items, j, p))
        /\ \A i \in 1..p :
             /\ items[i].qty # 0
             /\ LET j == items[i].key
                IN  j \in UniqueKeys /\ here[j] + Sum(items, Of(items, j, i)) < 0 => ok
    BY <1>8, <1>9
  <2> HIDE DEF p
  <2>3. Posts(items, p, here, moved2, ahead2, ok)
    BY <2>1, <2>2, PostsSums
  <2>4. QED BY <2>3 DEF p

LEMMA CallType ==
  ASSUME IInv, NEW w \in Workers, pc[w] # "idle"
  PROVE  /\ req[w] \in Requests /\ req[w].items \in Seq(Item) /\ Len(req[w].items) \in Nat
         /\ Done(w) \in 0..Len(req[w].items)
         /\ pc[w] # "commit" => /\ Done(w) = next[w] - 1 /\ next[w] = Done(w) + 1
                                /\ Done(w) \in Nat /\ Done(w) + 1 <= Len(req[w].items)
                                /\ item(w) = req[w].items[Done(w) + 1]
<1>1. req[w] \in Requests /\ req[w].items \in Seq(Item) /\ Len(req[w].items) \in Nat
  BY RequestsAssumption DEF IInv, ItemInHand
<1>2. CASE pc[w] = "commit"
  BY <1>1, <1>2 DEF Done
<1>3. CASE pc[w] # "commit"
  <2>1. pc[w] \in {"get", "insert", "apply"}
    BY <1>3 DEF IInv, TypeOK
  <2>2. next[w] \in 1..Len(req[w].items)
    BY <2>1 DEF IInv, ItemInHand
  <2>3. Done(w) = next[w] - 1
    BY <1>3 DEF Done
  <2>4. next[w] = Done(w) + 1 /\ Done(w) \in Nat /\ Done(w) + 1 <= Len(req[w].items)
    BY <1>1, <2>2, <2>3
  <2>5. item(w) = req[w].items[Done(w) + 1]
    BY <2>4 DEF item
  <2>6. QED BY <1>1, <2>3, <2>4, <2>5
<1>4. QED BY <1>2, <1>3

LEMMA UniqueRow ==
  ASSUME NEW k \in UniqueKeys
  PROVE  k \in Keys /\ RowOf(k) \in Rows
BY RowFacts DEF UniqueKeys

\* What a worker has not written is as it was committed.
LEMMA NotAhead ==
  ASSUME IInv, NEW w \in Workers, NEW k \in UniqueKeys
  PROVE  /\ Here[k] = Quantity(RowOf(k)) /\ Here \in [UniqueKeys -> Int]
         /\ Aheads(w)[k] = Ahead(w, RowOf(k)) /\ Ahead(w, RowOf(k)) \in Int
         /\ draft[w][RowOf(k)] = NoRow => pending[w][k] = <<>> /\ Aheads(w)[k] = 0
         /\ draft[w][RowOf(k)] # NoRow =>
              draft[w][RowOf(k)].quantity = Here[k] + Aheads(w)[k]
<1>1. Here[k] = Quantity(RowOf(k)) /\ Aheads(w)[k] = Ahead(w, RowOf(k))
  BY DEF Here, Aheads
<1>2. Here \in [UniqueKeys -> Int] /\ Ahead(w, RowOf(k)) \in Int /\ Quantity(RowOf(k)) \in Int
  BY UniqueRow, AheadType DEF Here
<1>3. draft[w][RowOf(k)] = NoRow => pending[w][k] = <<>> /\ Ahead(w, RowOf(k)) = 0
  BY DEF IInv, PendingAgrees, Ahead
<1>4. ASSUME draft[w][RowOf(k)] # NoRow
      PROVE  draft[w][RowOf(k)].quantity = Quantity(RowOf(k)) + Ahead(w, RowOf(k))
  <2>1. draft[w][RowOf(k)].quantity \in Int
    BY <1>4, UniqueRow DEF IInv, TypeOK, Level
  <2>2. Ahead(w, RowOf(k)) = draft[w][RowOf(k)].quantity - Quantity(RowOf(k))
    BY <1>4 DEF Ahead
  <2>3. QED BY <1>2, <2>1, <2>2
<1>5. QED BY <1>1, <1>2, <1>3, <1>4

\* A step that leaves a worker its rows, its movements and its items: the worker
\* may come to its next statement, and rows it has not written may change.
LEMMA FramePromised ==
  ASSUME IInv, NEW w \in Workers, pc[w] # "idle", Promised(w),
         req'[w] = req[w], next'[w] = next[w],
         draft'[w] = draft[w], pending'[w] = pending[w],
         \/ pc'[w] = pc[w] /\ held'[w] = held[w]
         \/ pc[w] \in {"get", "insert"} /\ pc'[w] \in {"get", "insert", "apply"},
         pc'[w] \in {"insert", "apply"} /\ req[w].op \in Posting => item(w).qty # 0,
         everAllowed => everAllowed',
         \A r \in Rows : draft[w][r] # NoRow => level'[r] = level[r]
  PROVE  Promised(w)'
<1>1. CASE req[w].op \in Posting
  <2> DEFINE items == req[w].items
             n == Done(w)
  <2>1. items \in Seq(Item) /\ n \in 0..Len(items)
    BY CallType
  <2>2. Done(w)' = n
    BY DEF Done
  <2>3. Posts(items, n, Here, pending[w], Aheads(w), everAllowed)
    BY <1>1, PostsState DEF Promised
  <2>4. ASSUME NEW k \in UniqueKeys
        PROVE  /\ pending[w][k] = <<>> \/ Here'[k] = Here[k]
               /\ Aheads(w)'[k] = Aheads(w)[k]
    <3>1. Here'[k] = Quantity(RowOf(k))' /\ Aheads(w)'[k] = Ahead(w, RowOf(k))'
      BY DEF Here, Aheads
    <3>2. CASE draft[w][RowOf(k)] = NoRow
      BY <3>1, <3>2, NotAhead DEF Ahead
    <3>3. CASE draft[w][RowOf(k)] # NoRow
      <4>1. Quantity(RowOf(k))' = Quantity(RowOf(k))
        BY <3>3, UniqueRow DEF Quantity
      <4>2. QED BY <3>1, <4>1, NotAhead DEF Ahead
    <3>4. QED BY <3>2, <3>3
  <2>5. Aheads(w)' = Aheads(w)
    BY <2>4 DEF Aheads
  <2>6. Posts(items, n, Here', pending[w], Aheads(w), everAllowed')
    <3> HIDE DEF items, n
    <3>1. QED BY ONLY <2>1, <2>3, <2>4, everAllowed => everAllowed', PostsFrame
  <2>7. PostsBatch(w)'
    BY <2>2, <2>5, <2>6, PostsStateNext
  <2>8. KeepsReserved(w)'
    <3> SUFFICES ASSUME NEW k \in UniqueKeys, draft[w][RowOf(k)] # NoRow
                 PROVE  /\ draft[w][RowOf(k)].reserved = Reserved(k)'
                        /\ pending[w][k] # <<>> \/ (pc'[w] = "apply" /\ held'[w] = RowOf(k))
      BY DEF KeepsReserved
    <3>1. /\ draft[w][RowOf(k)].reserved = Reserved(k)
          /\ pending[w][k] # <<>> \/ (pc[w] = "apply" /\ held[w] = RowOf(k))
      BY <1>1 DEF Promised, KeepsReserved
    <3>2. Reserved(k)' = Reserved(k)
      BY UniqueRow DEF Reserved
    <3>3. QED BY <3>1, <3>2
  <2>9. item(w)' = item(w)
    BY DEF item
  <2>10. QED BY <1>1, <2>7, <2>8, <2>9 DEF Promised
<1>2. CASE req[w].op \notin Posting
  <2>1. HoldsRow(w)
    BY <1>2 DEF Promised
  <2>2. CASE pc'[w] # "commit"
    BY <1>2, <2>1, <2>2 DEF Promised, HoldsRow
  <2>3. CASE pc'[w] = "commit"
    <3>1. pc[w] = "commit"
      BY <2>3
    <3>2. \A r \in Rows : draft[w][r] # NoRow => level'[r] = level[r]
      OBVIOUS
    <3>3. QED BY <1>2, <2>1, <3>1, <3>2 DEF Promised, HoldsRow
  <2>4. QED BY <2>2, <2>3
<1>3. QED BY <1>1, <1>2

\* A step of w keeps the promises of the others: it changes no row they have
\* written, for those are locked.
LEMMA OthersPromised ==
  ASSUME IInv, PromiseInv, NEW w \in Workers,
         \A v \in Workers \ {w} :
           /\ pc'[v] = pc[v] /\ req'[v] = req[v] /\ next'[v] = next[v]
           /\ held'[v] = held[v] /\ draft'[v] = draft[v] /\ pending'[v] = pending[v],
         everAllowed => everAllowed',
         \A r \in Rows : level'[r] = level[r] \/ lock[r] = w,
         pc'[w] # "idle" => Promised(w)',
         \A k \in UniqueKeys : level'[RowOf(k)] # NoRow => ledger'[k] # <<>>
  PROVE  PromiseInv'
<1>1. ASSUME NEW v \in Workers, v # w, pc'[v] # "idle" PROVE Promised(v)'
  <2>1. pc[v] # "idle" /\ Promised(v)
    BY <1>1 DEF PromiseInv
  <2>2. \A r \in Rows : draft[v][r] # NoRow => level'[r] = level[r]
    BY <1>1 DEF IInv, WritesAreLocked
  <2>3. pc'[v] \in {"insert", "apply"} /\ req[v].op \in Posting => item(v).qty # 0
    BY <1>1, <2>1 DEF Promised
  <2>4. QED BY <1>1, <2>1, <2>2, <2>3, FramePromised
<1>2. QED BY <1>1 DEF PromiseInv

LEMMA InitPromise == Init => PromiseInv
BY RowFacts, UniqueRow DEF Init, PromiseInv

LEMMA RollbackPromise ==
  ASSUME IInv, PromiseInv, NEW w \in Workers, Rollback(w)
  PROVE  PromiseInv'
<1> USE DEF Rollback, EndTransaction, shared
<1>1. /\ UNCHANGED <<level, ledger, everAllowed>> /\ pc'[w] = "idle"
      /\ \A v \in Workers \ {w} :
           /\ pc'[v] = pc[v] /\ req'[v] = req[v] /\ next'[v] = next[v]
           /\ held'[v] = held[v] /\ draft'[v] = draft[v] /\ pending'[v] = pending[v]
  BY DEF IInv, TypeOK
<1>2. \A k \in UniqueKeys : level'[RowOf(k)] # NoRow => ledger'[k] # <<>>
  BY <1>1 DEF PromiseInv
<1> QED BY ONLY IInv, PromiseInv, w \in Workers, <1>1, <1>2, OthersPromised

\* A call that has done nothing has promised nothing.
LEMMA BeginPromise ==
  ASSUME IInv, PromiseInv, NEW w \in Workers, NEW r \in Requests, Begin(w, r)
  PROVE  PromiseInv'
<1> USE DEF Begin, shared
<1>1. /\ UNCHANGED <<level, ledger, everAllowed, next, held, draft, pending>>
      /\ pc[w] = "idle" /\ pc'[w] = "get" /\ req'[w] = r
      /\ \A v \in Workers \ {w} : pc'[v] = pc[v] /\ req'[v] = req[v]
  BY DEF IInv, TypeOK
<1>2. next[w] = 1 /\ draft[w] = NoDraft /\ pending[w] = NoPending
  BY <1>1 DEF IInv, IdleIsClean
<1>3. PostsBatch(w)'
  <2>1. Done(w)' = 0
    BY <1>1, <1>2 DEF Done
  <2>2. \A k \in UniqueKeys : pending[w][k] = <<>> /\ Aheads(w)[k] = 0 /\ Aheads(w)' = Aheads(w)
    <3>1. Aheads(w)' = Aheads(w)
      BY <1>1 DEF Aheads, Ahead, Quantity
    <3>2. QED BY <1>2, <3>1, RowFacts, UniqueRow, NotAhead
  <2>3. r.items \in Seq(Item)
    BY RequestsAssumption
  <2>4. \A k \in UniqueKeys : pending'[w][k] = <<>> /\ Aheads(w)'[k] = 0
    BY <1>1, <2>2
  <2>5. Posts(r.items, 0, Here', pending'[w], Aheads(w)', everAllowed')
    BY ONLY <2>3, <2>4, PostsNone
  <2>6. QED BY <1>1, <2>1, <2>5, PostsStateNext
<1>4. KeepsReserved(w)' /\ HoldsRow(w)'
  BY <1>1, <1>2, RowFacts, UniqueRow DEF KeepsReserved, HoldsRow
<1>5. Promised(w)'
  BY <1>1, <1>3, <1>4 DEF Promised
<1>6. \A k \in UniqueKeys : level'[RowOf(k)] # NoRow => ledger'[k] # <<>>
  BY <1>1 DEF PromiseInv
<1>7. QED BY ONLY IInv, PromiseInv, w \in Workers, <1>1, <1>5, <1>6, OthersPromised

\* A worker that comes to its next statement has written what it had.
LEMMA MovePromise ==
  ASSUME IInv, PromiseInv, NEW w \in Workers, GetRow(w) \/ GetMissing(w) \/ InsertConflict(w)
  PROVE  PromiseInv'
<1>1. /\ UNCHANGED <<level, ledger, everAllowed, req, next, draft, pending>>
      /\ pc[w] \in {"get", "insert"} /\ pc'[w] \in {"get", "insert", "apply"}
      /\ pc[w] = "get" => (req[w].op \in Posting => item(w).qty # 0)
      /\ pc[w] = "insert" => pc'[w] = "get"
      /\ \A v \in Workers \ {w} : pc'[v] = pc[v] /\ held'[v] = held[v]
  BY DEF GetRow, GetMissing, InsertConflict, Selecting, shared, IInv, TypeOK
<1>2. pc[w] # "idle" /\ Promised(w)
  BY <1>1 DEF PromiseInv
<1>3. pc'[w] \in {"insert", "apply"} /\ req[w].op \in Posting => item(w).qty # 0
  BY <1>1
<1>4. Promised(w)'
  BY ONLY IInv, w \in Workers, <1>1, <1>2, <1>3, FramePromised
<1>5. \A k \in UniqueKeys : level'[RowOf(k)] # NoRow => ledger'[k] # <<>>
  BY <1>1 DEF PromiseInv
<1>6. QED BY ONLY IInv, PromiseInv, w \in Workers, <1>1, <1>4, <1>5, OthersPromised

\* The row of get_or_create has nothing on hand and nothing reserved, like no row.
LEMMA InsertPromise ==
  ASSUME IInv, ReservesChecked, PromiseInv, NEW w \in Workers, Insert(w)
  PROVE  PromiseInv'
<1> DEFINE zero == [quantity |-> 0, reserved |-> 0]
<1>1. /\ pc[w] = "insert" /\ pc'[w] = "apply"
      /\ UNCHANGED <<level, ledger, everAllowed, req, next, pending>>
      /\ \A v \in Workers \ {w} : pc'[v] = pc[v]
  BY DEF Insert, shared, IInv, TypeOK
<1>2. PICK r \in InsertSlots(item(w).key) :
        /\ level[r] = NoRow /\ lock[r] = NoWorker
        /\ held' = [held EXCEPT ![w] = r]
        /\ draft' = [draft EXCEPT ![w][r] = zero]
  BY DEF Insert
<1>3. r \in Rows /\ \A k \in UniqueKeys : RowOf(k) = r => r[1] = k
  BY <1>1, ItemType, SlotsAssumption DEF InsertSlots, Rows, RowOf
<1>4. /\ held'[w] = r
      /\ \A q \in Rows : draft'[w][q] = IF q = r THEN zero ELSE draft[w][q]
      /\ \A v \in Workers \ {w} : held'[v] = held[v] /\ draft'[v] = draft[v]
  BY <1>2, <1>3 DEF IInv, TypeOK
<1>5. draft[w][r] = NoRow
  BY <1>2, <1>3, NoRowAssumption DEF IInv, WritesAreLocked
<1>6. req[w].op \in Posting /\ Promised(w)
  BY <1>1 DEF ReservesChecked, PromiseInv
<1>7. zero.quantity = 0 /\ zero.reserved = 0 /\ zero # NoRow
  BY NoRowAssumption DEF Level
<1> HIDE DEF zero
<1>8. \A k \in UniqueKeys : Ahead(w, RowOf(k))' = Ahead(w, RowOf(k))
  <2> SUFFICES ASSUME NEW k \in UniqueKeys PROVE Ahead(w, RowOf(k))' = Ahead(w, RowOf(k))
    OBVIOUS
  <2>1. Quantity(RowOf(k))' = Quantity(RowOf(k))
    BY <1>1 DEF Quantity
  <2>2. CASE RowOf(k) = r
    BY <1>2, <1>3, <1>4, <1>5, <1>7, <2>1, <2>2 DEF Ahead, Quantity
  <2>3. CASE RowOf(k) # r
    BY <1>4, <2>1, <2>3, UniqueRow DEF Ahead
  <2>4. QED BY <2>2, <2>3
<1>9. PostsBatch(w)'
  <2>1. Aheads(w)' = Aheads(w)
    BY <1>8 DEF Aheads
  <2>2. Here' = Here
    BY <1>1 DEF Here, Quantity
  <2>3. Done(w)' = Done(w)
    BY <1>1 DEF Done
  <2>4. Posts(req[w].items, Done(w), Here, pending[w], Aheads(w), everAllowed)
    BY <1>6, PostsState DEF Promised
  <2>5. QED BY <1>1, <2>1, <2>2, <2>3, <2>4, PostsStateNext
<1>10. KeepsReserved(w)'
  <2> SUFFICES ASSUME NEW k \in UniqueKeys, draft'[w][RowOf(k)] # NoRow
               PROVE  /\ draft'[w][RowOf(k)].reserved = Reserved(k)'
                      /\ \/ pending'[w][k] # <<>>
                         \/ pc'[w] = "apply" /\ held'[w] = RowOf(k)
    BY DEF KeepsReserved
  <2>1. Reserved(k)' = Reserved(k)
    BY <1>1 DEF Reserved
  <2>2. CASE RowOf(k) = r
    BY <1>1, <1>2, <1>3, <1>4, <1>7, <2>1, <2>2 DEF Reserved
  <2>3. CASE RowOf(k) # r
    <3>1. draft'[w][RowOf(k)] = draft[w][RowOf(k)]
      BY <1>4, <2>3, UniqueRow
    <3>2. draft[w][RowOf(k)].reserved = Reserved(k) /\ pending[w][k] # <<>>
      BY <1>1, <1>6, <3>1 DEF Promised, KeepsReserved
    <3>3. QED BY <1>1, <2>1, <3>1, <3>2
  <2>4. QED BY <2>2, <2>3
<1>11. Promised(w)'
  <2>1. item(w)' = item(w)
    BY <1>1 DEF item
  <2>2. item(w).qty # 0
    BY <1>1, <1>6 DEF Promised
  <2>3. QED BY <1>1, <1>6, <1>9, <1>10, <2>1, <2>2 DEF Promised
<1>12. \A k \in UniqueKeys : level'[RowOf(k)] # NoRow => ledger'[k] # <<>>
  BY <1>1 DEF PromiseInv
<1>13. QED BY ONLY IInv, PromiseInv, w \in Workers, <1>1, <1>4, <1>11, <1>12, OthersPromised

\* An item more is done.
LEMMA ItemDone ==
  ASSUME IInv, NEW w \in Workers, pc[w] = "apply", Advance(w), req' = req
  PROVE  /\ Done(w)' = Done(w) + 1 /\ pc'[w] \in {"get", "commit"}
         /\ \A v \in Workers \ {w} :
              pc'[v] = pc[v] /\ next'[v] = next[v] /\ held'[v] = held[v]
<1>1. /\ Done(w) = next[w] - 1 /\ Done(w) + 1 = next[w]
      /\ next[w] \in Nat /\ Len(req[w].items) \in Nat /\ next[w] <= Len(req[w].items)
  BY CallType DEF IInv, TypeOK
<1>2. held' = [held EXCEPT ![w] = NoRow]
  BY DEF Advance
<1>3. CASE next[w] < Len(req[w].items)
  <2>1. next' = [next EXCEPT ![w] = @ + 1] /\ pc' = [pc EXCEPT ![w] = "get"]
    BY <1>3 DEF Advance
  <2>2. next'[w] = next[w] + 1 /\ pc'[w] = "get"
    BY <2>1 DEF IInv, TypeOK
  <2>3. Done(w)' = next[w]
    BY <1>1, <2>2 DEF Done
  <2>4. QED BY <1>1, <1>2, <2>1, <2>2, <2>3 DEF IInv, TypeOK
<1>4. CASE ~(next[w] < Len(req[w].items))
  <2>1. next' = next /\ pc' = [pc EXCEPT ![w] = "commit"]
    BY <1>4 DEF Advance
  <2>2. pc'[w] = "commit" /\ next[w] = Len(req[w].items)
    BY <1>1, <1>4, <2>1 DEF IInv, TypeOK
  <2>3. Done(w)' = next[w]
    BY <2>2 DEF Done
  <2>4. QED BY <1>1, <1>2, <2>1, <2>2, <2>3 DEF IInv, TypeOK
<1>5. QED BY <1>3, <1>4

LEMMA NotEmptied ==
  ASSUME NEW s \in Seq(Movement), NEW t \in Seq(Movement)
  PROVE  /\ \A x \in Movement : Append(s, x) # <<>>
         /\ s # <<>> => s \o t # <<>>
         /\ t # <<>> => s \o t # <<>>
<1>1. ASSUME NEW x \in Movement PROVE Append(s, x) # <<>>
  <2> DEFINE u == Append(s, x)
  <2>1. u \in Seq(Movement) /\ Len(u) = Len(s) + 1 /\ Len(s) \in Nat
    OBVIOUS
  <2> HIDE DEF u
  <2>2. u # <<>>
    BY <2>1
  <2>3. QED BY <2>2 DEF u
<1>2. Len(s \o t) = Len(s) + Len(t) /\ Len(s) \in Nat /\ Len(t) \in Nat
  OBVIOUS
<1>3. /\ s # <<>> => Len(s) # 0
      /\ t # <<>> => Len(t) # 0
  OBVIOUS
<1>4. s # <<>> \/ t # <<>> => Len(s \o t) # 0
  BY <1>2, <1>3
<1>5. QED BY <1>1, <1>4

\* The movement of an item goes on from where the items before it left the row.
LEMMA AdjustPromise ==
  ASSUME IInv, AllowedBeforeNegative, PromiseInv, NEW w \in Workers, AdjustRow(w)
  PROVE  PromiseInv'
<1> DEFINE items == req[w].items
           n == Done(w)
           k == item(w).key
           d == item(w).qty
           sl == [Current(w) EXCEPT !.quantity = After(w)]
           m  == [before |-> Current(w).quantity, delta |-> d, after |-> After(w)]
<1>1. /\ pc[w] = "apply" /\ req[w].op \in Posting
      /\ After(w) < 0 => _tenant_allows_negative(w)
      /\ draft' = [draft EXCEPT ![w][held[w]] = sl]
      /\ pending' = [pending EXCEPT ![w][k] = Append(@, m)]
      /\ Advance(w)
      /\ UNCHANGED <<level, ledger, everAllowed, lock, req>>
  BY DEF AdjustRow
<1>2. PostsBatch(w) /\ KeepsReserved(w) /\ d # 0
  BY <1>1 DEF PromiseInv, Promised
<1>3. /\ items \in Seq(Item) /\ n \in Nat /\ n + 1 <= Len(items)
      /\ item(w) = items[n + 1]
  BY <1>1, CallType
<1>4. /\ k \in Keys /\ d \in Int /\ held[w] \in Rows /\ held[w][1] = k
      /\ Current(w) \in Level /\ Current(w).quantity \in Int
      /\ After(w) = Current(w).quantity + d
      /\ Current(w) = View(w, held[w]) /\ Current(w) # NoRow
  BY <1>1, ItemType, CurrentType DEF IInv, ItemInHand, After, Current
<1>5. sl.quantity = After(w) /\ sl.reserved = Current(w).reserved /\ sl # NoRow
  BY <1>4, NoRowAssumption DEF Level
<1>6. /\ \A r \in Rows : draft'[w][r] = IF r = held[w] THEN sl ELSE draft[w][r]
      /\ \A j \in Keys :
           pending'[w][j] = IF j = k THEN Append(pending[w][j], m) ELSE pending[w][j]
      /\ \A v \in Workers \ {w} : draft'[v] = draft[v] /\ pending'[v] = pending[v]
  BY <1>1, <1>4 DEF IInv, TypeOK
<1>7. /\ Done(w)' = n + 1 /\ pc'[w] \in {"get", "commit"}
      /\ \A v \in Workers \ {w} : pc'[v] = pc[v] /\ next'[v] = next[v] /\ held'[v] = held[v]
  BY <1>1, ItemDone
<1>8. k \in UniqueKeys => held[w] = RowOf(k)
  BY <1>1, HeldIsRowOf
<1>9. \A j \in UniqueKeys : RowOf(j) = held[w] <=> j = k
  BY <1>4, <1>8 DEF RowOf
<1>10. k \in UniqueKeys => Current(w).quantity = Here[k] + Aheads(w)[k]
  <2> SUFFICES ASSUME k \in UniqueKeys PROVE Current(w).quantity = Here[k] + Aheads(w)[k]
    OBVIOUS
  <2>1. /\ Here[k] \in Int /\ Here[k] = Quantity(RowOf(k))
        /\ Aheads(w)[k] = Ahead(w, RowOf(k)) /\ Ahead(w, RowOf(k)) \in Int
    BY NotAhead
  <2>2. Ahead(w, RowOf(k)) = Current(w).quantity - Quantity(RowOf(k))
    BY <1>1, <1>8, HeldSlot
  <2> HIDE DEF k
  <2>3. QED BY <1>4, <2>1, <2>2
<1>11. Here' = Here /\ Here \in [UniqueKeys -> Int]
  BY <1>1, UniqueRow, AheadType DEF Here, Quantity
<1>12. \A j \in UniqueKeys :
         Aheads(w)'[j] = IF j = k THEN Aheads(w)[j] + d ELSE Aheads(w)[j]
  <2> SUFFICES ASSUME NEW j \in UniqueKeys
               PROVE  Aheads(w)'[j] = IF j = k THEN Aheads(w)[j] + d ELSE Aheads(w)[j]
    OBVIOUS
  <2>1. /\ Aheads(w)'[j] = Ahead(w, RowOf(j))' /\ Quantity(RowOf(j))' = Quantity(RowOf(j))
        /\ RowOf(j) \in Rows
    BY <1>1, UniqueRow DEF Aheads, Quantity
  <2>2. CASE j = k
    <3>1. draft'[w][RowOf(j)] = sl
      BY <1>6, <1>9, <2>1, <2>2
    <3>2. Ahead(w, RowOf(j))' = After(w) - Quantity(RowOf(j))
      BY <1>5, <2>1, <3>1 DEF Ahead
    <3>3. Quantity(RowOf(j)) = Here[j] /\ Here[j] \in Int /\ Aheads(w)[j] \in Int
      BY NotAhead
    <3>4. Current(w).quantity = Here[j] + Aheads(w)[j]
      BY <1>10, <2>2
    <3> HIDE DEF k, d
    <3>5. QED BY <1>4, <2>1, <2>2, <3>2, <3>3, <3>4
  <2>3. CASE j # k
    <3>1. draft'[w][RowOf(j)] = draft[w][RowOf(j)]
      BY <1>6, <1>9, <2>1, <2>3
    <3>2. QED BY <2>1, <2>3, <3>1 DEF Ahead, Aheads
  <2>4. QED BY <2>2, <2>3
<1>13. PostsBatch(w)'
  <2>1. Posts(items, n, Here, pending[w], Aheads(w), everAllowed)
    BY <1>2, PostsState
  <2>2. k \in UniqueKeys /\ After(w) < 0 => everAllowed
    BY <1>1, AllowsFact
  <2>3. k \in UniqueKeys => Here[k] + Aheads(w)[k] = Current(w).quantity
    BY <1>10
  <2> HIDE DEF n, items
  <2>4. items[n + 1].key = k /\ items[n + 1].qty = d
    BY <1>3
  <2> HIDE DEF k, d
  <2>5. /\ k \in UniqueKeys =>
             /\ pending'[w][k] = Append(pending[w][k],
                  [before |-> Here[k] + Aheads(w)[k], delta |-> d,
                   after |-> Here[k] + Aheads(w)[k] + d])
             /\ Aheads(w)'[k] = Aheads(w)[k] + d
             /\ Here[k] + Aheads(w)[k] + d < 0 => everAllowed
        /\ \A j \in UniqueKeys \ {k} :
             pending'[w][j] = pending[w][j] /\ Aheads(w)'[j] = Aheads(w)[j]
    <3>1. ASSUME k \in UniqueKeys
          PROVE  /\ pending'[w][k] = Append(pending[w][k],
                      [before |-> Here[k] + Aheads(w)[k], delta |-> d,
                       after |-> Here[k] + Aheads(w)[k] + d])
                 /\ Aheads(w)'[k] = Aheads(w)[k] + d
                 /\ Here[k] + Aheads(w)[k] + d < 0 => everAllowed
      <4>1. Here[k] + Aheads(w)[k] = Current(w).quantity
        BY <2>3, <3>1
      <4>2. Here[k] + Aheads(w)[k] + d = After(w)
        BY <1>4, <4>1
      <4>3. pending'[w][k] = Append(pending[w][k], m) /\ Aheads(w)'[k] = Aheads(w)[k] + d
        BY <1>4, <1>6, <1>12, <3>1
      <4>4. QED BY <2>2, <3>1, <4>1, <4>2, <4>3
    <3>2. \A j \in UniqueKeys \ {k} :
            pending'[w][j] = pending[w][j] /\ Aheads(w)'[j] = Aheads(w)[j]
      BY <1>6, <1>12, UniqueRow
    <3>3. QED BY <3>1, <3>2
  <2>6. LET kk == items[n + 1].key
            q == Here[kk] + Aheads(w)[kk]
            dd == items[n + 1].qty
        IN  /\ kk \in UniqueKeys =>
                 /\ pending'[w][kk] =
                      Append(pending[w][kk], [before |-> q, delta |-> dd, after |-> q + dd])
                 /\ Aheads(w)'[kk] = Aheads(w)[kk] + dd
                 /\ q + dd < 0 => everAllowed
            /\ \A j \in UniqueKeys \ {kk} :
                 pending'[w][j] = pending[w][j] /\ Aheads(w)'[j] = Aheads(w)[j]
    BY <2>4, <2>5
  <2>7. items[n + 1].qty # 0
    BY <1>2, <2>4
  <2>8. Posts(items, n + 1, Here, pending'[w], Aheads(w)', everAllowed)
    BY ONLY <1>3, <1>11, <2>1, <2>6, <2>7, PostsNext
  <2>9. req'[w].items = items /\ everAllowed' = everAllowed
    BY <1>1 DEF items
  <2>10. QED BY <1>7, <1>11, <2>8, <2>9, PostsStateNext DEF n
<1>14. KeepsReserved(w)'
  <2> SUFFICES ASSUME NEW j \in UniqueKeys, draft'[w][RowOf(j)] # NoRow
               PROVE  draft'[w][RowOf(j)].reserved = Reserved(j)' /\ pending'[w][j] # <<>>
    BY DEF KeepsReserved
  <2>1. Reserved(j)' = Reserved(j) /\ RowOf(j) \in Rows /\ j \in Keys
    BY <1>1, UniqueRow DEF Reserved
  <2>2. CASE j = k
    <3>1. draft'[w][RowOf(j)] = sl /\ held[w] = RowOf(j)
      BY <1>6, <1>9, <2>1, <2>2
    <3>2. Current(w).reserved = Reserved(j)
      BY <1>2, <1>4, <3>1 DEF KeepsReserved, View, Reserved
    <3>3. pending'[w][j] # <<>>
      <4>1. pending[w][j] \in Seq(Movement)
        BY <2>1 DEF IInv, TypeOK
      <4>2. m \in Movement
        BY <1>4 DEF Movement
      <4>3. Append(pending[w][j], m) # <<>>
        BY <4>1, <4>2, NotEmptied
      <4>4. QED BY <1>6, <2>1, <2>2, <4>3
    <3>4. QED BY <1>5, <2>1, <3>1, <3>2, <3>3
  <2>3. CASE j # k
    <3>1. draft'[w][RowOf(j)] = draft[w][RowOf(j)] /\ pending'[w][j] = pending[w][j]
      BY <1>6, <1>9, <2>1, <2>3
    <3>2. draft[w][RowOf(j)].reserved = Reserved(j) /\ pending[w][j] # <<>>
      BY <1>2, <1>9, <2>3, <3>1 DEF KeepsReserved
    <3>3. QED BY <2>1, <3>1, <3>2
  <2>4. QED BY <2>2, <2>3
<1>15. Promised(w)'
  BY <1>1, <1>7, <1>13, <1>14 DEF Promised
<1>16. \A j \in UniqueKeys : level'[RowOf(j)] # NoRow => ledger'[j] # <<>>
  BY <1>1 DEF PromiseInv
<1>17. QED BY ONLY IInv, PromiseInv, w \in Workers, <1>1, <1>6, <1>7, <1>15, <1>16,
             OthersPromised

\* A reservation or a release writes the one row of its item.
LEMMA HoldPromise ==
  ASSUME IInv, ReservesChecked, PromiseInv, NEW w \in Workers, ReserveRow(w) \/ ReleaseRow(w)
  PROVE  PromiseInv'
<1>1. PICK x \in Nat :
        /\ pc[w] = "apply" /\ req[w].op \notin Posting
        /\ draft' = [draft EXCEPT ![w][held[w]] = [Current(w) EXCEPT !.reserved = x]]
        /\ Advance(w)
        /\ UNCHANGED <<level, ledger, everAllowed, lock, req, pending>>
        /\ \/ req[w].op = "reserve" /\ item(w).qty <= available_quantity(Current(w))
              /\ x = Current(w).reserved + item(w).qty
           \/ req[w].op = "release" /\ x = Max({Current(w).reserved - item(w).qty, 0})
  <2>0. /\ pc[w] = "apply" /\ req[w].op \in {"reserve", "release"}
    BY DEF ReserveRow, ReleaseRow
  <2>1. /\ Current(w).reserved \in Nat /\ Current(w).quantity \in Int
        /\ item(w).qty \in Int /\ item(w).qty > 0
    <3>1. req[w] \in Requests /\ next[w] \in 1..Len(req[w].items)
      BY <2>0 DEF IInv, ItemInHand
    <3>2. Len(req[w].items) = 1 /\ req[w].items[1].qty > 0
      BY <2>0, <3>1, RequestsAssumption
    <3>3. next[w] = 1
      BY <3>1, <3>2
    <3>4. QED BY <2>0, <3>2, <3>3, CurrentType, ItemType DEF item
  <2>2. CASE ReserveRow(w)
    <3> DEFINE x == Current(w).reserved + item(w).qty
    <3>1. x \in Nat
      BY <2>1
    <3>2. /\ pc[w] = "apply" /\ req[w].op \notin Posting /\ req[w].op = "reserve"
          /\ draft' = [draft EXCEPT ![w][held[w]] = [Current(w) EXCEPT !.reserved = x]]
          /\ Advance(w)
          /\ UNCHANGED <<level, ledger, everAllowed, lock, req, pending>>
          /\ available_quantity(Current(w)) >= item(w).qty
      BY <2>2 DEF ReserveRow, SetReserved, shared, Posting
    <3>3. item(w).qty <= available_quantity(Current(w))
      <4>1. available_quantity(Current(w)) \in Int
        BY <2>1, MaxOfTwo DEF available_quantity
      <4>2. QED BY <2>1, <3>2, <4>1
    <3> HIDE DEF x
    <3>4. WITNESS x \in Nat
    <3>5. QED BY <3>2, <3>3 DEF x
  <2>3. CASE ReleaseRow(w)
    <3> DEFINE x == Max({Current(w).reserved - item(w).qty, 0})
    <3>1. x \in Nat
      BY <2>1, MaxOfTwo
    <3>2. /\ pc[w] = "apply" /\ req[w].op \notin Posting /\ req[w].op = "release"
          /\ draft' = [draft EXCEPT ![w][held[w]] = [Current(w) EXCEPT !.reserved = x]]
          /\ Advance(w)
          /\ UNCHANGED <<level, ledger, everAllowed, lock, req, pending>>
      BY <2>3 DEF ReleaseRow, SetReserved, shared, Posting
    <3> HIDE DEF x
    <3>4. WITNESS x \in Nat
    <3>5. QED BY <3>2 DEF x
  <2>4. QED BY <2>2, <2>3
<1> DEFINE sl == [Current(w) EXCEPT !.reserved = x]
           h  == held[w]
<1>2. /\ h \in Rows /\ h[1] = item(w).key /\ Current(w) \in Level
      /\ Current(w) = View(w, h) /\ Current(w) # NoRow
  BY <1>1, CurrentType DEF IInv, ItemInHand, Current
<1>3. draft[w] = NoDraft /\ pending[w] = NoPending
  BY <1>1 DEF ReservesChecked, PromiseInv, Promised, HoldsRow
<1>4. Current(w) = level[h] /\ level[h] # NoRow
  BY <1>2, <1>3, RowFacts DEF View
<1>5. item(w) = req[w].items[1]
  <2>1. req[w] \in Requests /\ next[w] \in 1..Len(req[w].items)
    BY <1>1 DEF IInv, ItemInHand
  <2>2. Len(req[w].items) = 1
    BY <1>1, <2>1, RequestsAssumption DEF Posting
  <2>3. next[w] = 1
    BY <2>1, <2>2
  <2>4. QED BY <2>3 DEF item
<1>6. sl.quantity = level[h].quantity /\ sl.reserved = x /\ sl # NoRow
  BY <1>2, <1>4, NoRowAssumption DEF Level
<1>7. /\ \A q \in Rows : draft'[w][q] = IF q = h THEN sl ELSE NoRow
      /\ \A v \in Workers \ {w} : draft'[v] = draft[v]
  BY <1>1, <1>2, <1>3, RowFacts DEF IInv, TypeOK
<1>8. /\ pc'[w] = "commit"
      /\ \A v \in Workers \ {w} : pc'[v] = pc[v] /\ next'[v] = next[v] /\ held'[v] = held[v]
  BY <1>1, AfterItem, ItemDone
<1> HIDE DEF sl, h
<1>9. HoldsRow(w)'
  <2>1. /\ level'[h] # NoRow /\ h[1] = req'[w].items[1].key
        /\ \A q \in Rows \ {h} : draft'[w][q] = NoRow
        /\ draft'[w][h] # NoRow /\ draft'[w][h].quantity = level'[h].quantity
        /\ LET qty == req'[w].items[1].qty
           IN  \/ req'[w].op = "reserve" /\ qty <= available_quantity(level'[h])
                  /\ draft'[w][h].reserved = level'[h].reserved + qty
               \/ req'[w].op = "release"
                  /\ draft'[w][h].reserved = Max({level'[h].reserved - qty, 0})
    BY <1>1, <1>2, <1>4, <1>5, <1>6, <1>7
  <2>2. pending'[w] = NoPending
    BY <1>1, <1>3
  <2>3. h \in Rows
    BY <1>2
  <2>4. \E r \in Rows :
          /\ level'[r] # NoRow /\ r[1] = req'[w].items[1].key
          /\ \A q \in Rows \ {r} : draft'[w][q] = NoRow
          /\ draft'[w][r] # NoRow /\ draft'[w][r].quantity = level'[r].quantity
          /\ LET qty == req'[w].items[1].qty
             IN  \/ req'[w].op = "reserve" /\ qty <= available_quantity(level'[r])
                    /\ draft'[w][r].reserved = level'[r].reserved + qty
                 \/ req'[w].op = "release"
                    /\ draft'[w][r].reserved = Max({level'[r].reserved - qty, 0})
    BY <2>1, <2>3
  <2>5. QED BY <2>2, <2>4 DEF HoldsRow
<1>10. Promised(w)'
  BY <1>1, <1>9 DEF Promised
<1>11. \A k \in UniqueKeys : level'[RowOf(k)] # NoRow => ledger'[k] # <<>>
  BY <1>1 DEF PromiseInv
<1>12. QED BY ONLY IInv, PromiseInv, w \in Workers, <1>1, <1>7, <1>8, <1>10, <1>11,
             OthersPromised

\* What a transaction that posts makes of a row it publishes.
LEMMA CommitFacts ==
  ASSUME IInv, NEW w \in Workers, Commit(w)
  PROVE  /\ pc[w] = "commit" /\ pc'[w] = "idle"
         /\ \A r \in Rows : level'[r] = IF draft[w][r] # NoRow THEN draft[w][r] ELSE level[r]
         /\ \A r \in Rows : level'[r] = level[r] \/ lock[r] = w
         /\ \A k \in Keys : ledger'[k] = ledger[k] \o pending[w][k]
         /\ everAllowed' = everAllowed
         /\ \A v \in Workers \ {w} :
              /\ pc'[v] = pc[v] /\ req'[v] = req[v] /\ next'[v] = next[v]
              /\ held'[v] = held[v] /\ draft'[v] = draft[v] /\ pending'[v] = pending[v]
<1>1. /\ pc[w] = "commit"
      /\ level' = [r \in Rows |-> View(w, r)]
      /\ ledger' = [k \in Keys |-> ledger[k] \o pending[w][k]]
      /\ EndTransaction(w)
      /\ everAllowed' = everAllowed
  BY DEF Commit
<1>2. \A r \in Rows : level'[r] = IF draft[w][r] # NoRow THEN draft[w][r] ELSE level[r]
  BY <1>1 DEF View
<1>3. \A r \in Rows : level'[r] = level[r] \/ lock[r] = w
  BY <1>2 DEF IInv, WritesAreLocked
<1>4. QED BY <1>1, <1>2, <1>3 DEF EndTransaction, IInv, TypeOK

LEMMA CommitPromise ==
  ASSUME IInv, PromiseInv, NEW w \in Workers, Commit(w)
  PROVE  PromiseInv'
<1>1. /\ pc[w] = "commit" /\ pc'[w] = "idle"
      /\ \A r \in Rows : level'[r] = IF draft[w][r] # NoRow THEN draft[w][r] ELSE level[r]
      /\ \A r \in Rows : level'[r] = level[r] \/ lock[r] = w
      /\ \A k \in Keys : ledger'[k] = ledger[k] \o pending[w][k]
      /\ everAllowed' = everAllowed
      /\ \A v \in Workers \ {w} :
           /\ pc'[v] = pc[v] /\ req'[v] = req[v] /\ next'[v] = next[v]
           /\ held'[v] = held[v] /\ draft'[v] = draft[v] /\ pending'[v] = pending[v]
  BY CommitFacts
<1>2. \A k \in UniqueKeys : level'[RowOf(k)] # NoRow => ledger'[k] # <<>>
  <2> SUFFICES ASSUME NEW k \in UniqueKeys, level'[RowOf(k)] # NoRow
               PROVE  ledger'[k] # <<>>
    OBVIOUS
  <2>1. k \in Keys /\ RowOf(k) \in Rows
    BY UniqueRow
  <2>2. /\ ledger[k] \in Seq(Movement) /\ pending[w][k] \in Seq(Movement)
        /\ ledger'[k] = ledger[k] \o pending[w][k]
    BY <1>1, <2>1 DEF IInv, TypeOK
  <2>3. CASE level[RowOf(k)] # NoRow
    BY <2>2, <2>3, NotEmptied DEF PromiseInv
  <2>4. CASE level[RowOf(k)] = NoRow
    <3>1. draft[w][RowOf(k)] # NoRow
      BY <1>1, <2>1, <2>4
    <3>2. Promised(w)
      BY <1>1 DEF PromiseInv
    <3>3. CASE req[w].op \in Posting
      <4>1. pending[w][k] # <<>>
        BY <1>1, <3>1, <3>2, <3>3 DEF Promised, KeepsReserved
      <4>2. QED BY <2>2, <4>1, NotEmptied
    <3>4. CASE req[w].op \notin Posting
      BY <1>1, <2>1, <2>4, <3>1, <3>2, <3>4 DEF Promised, HoldsRow
    <3>5. QED BY <3>3, <3>4
  <2>5. QED BY <2>3, <2>4
<1>3. QED BY ONLY IInv, PromiseInv, w \in Workers, <1>1, <1>2, OthersPromised

\* A setting, or no step at all, leaves what has been written.
LEMMA SettingsPromise ==
  ASSUME IInv, PromiseInv, UpdateSettings \/ UNCHANGED vars
  PROVE  PromiseInv'
<1>1. /\ UNCHANGED <<level, ledger, pc, req, next, held, draft, pending>>
      /\ everAllowed => everAllowed'
  <2>1. CASE UpdateSettings
    BY <2>1 DEF UpdateSettings, local
  <2>2. CASE UNCHANGED vars
    BY <2>2 DEF vars, shared, local
  <2>3. QED BY <2>1, <2>2
<1>2. ASSUME NEW w \in Workers, pc'[w] # "idle" PROVE Promised(w)'
  <2>1. pc[w] # "idle" /\ Promised(w)
    BY <1>1, <1>2 DEF PromiseInv
  <2>2. pc'[w] \in {"insert", "apply"} /\ req[w].op \in Posting => item(w).qty # 0
    BY <1>1, <2>1 DEF Promised
  <2>3. QED BY ONLY IInv, w \in Workers, <1>1, <2>1, <2>2, FramePromised
<1>3. \A k \in UniqueKeys : level'[RowOf(k)] # NoRow => ledger'[k] # <<>>
  BY <1>1 DEF PromiseInv
<1>4. QED BY <1>2, <1>3 DEF PromiseInv

LEMMA StepPromise ==
  IInv /\ AllowedBeforeNegative /\ ReservesChecked /\ PromiseInv /\ [Next]_vars => PromiseInv'
<1> SUFFICES ASSUME IInv, AllowedBeforeNegative, ReservesChecked, PromiseInv, [Next]_vars
             PROVE  PromiseInv'
  OBVIOUS
<1>1. ASSUME NEW w \in Workers, NEW r \in Requests, Begin(w, r) PROVE PromiseInv'
  BY <1>1, BeginPromise
<1>2. ASSUME NEW w \in Workers, Select(w) PROVE PromiseInv'
  BY <1>2, MovePromise, RollbackPromise DEF Select, GetMultiple, NothingToHold
<1>3. ASSUME NEW w \in Workers, Insert(w) PROVE PromiseInv'
  BY <1>3, InsertPromise
<1>4. ASSUME NEW w \in Workers, Run(w) PROVE PromiseInv'
  BY <1>4, MovePromise, AdjustPromise, HoldPromise, CommitPromise, RollbackPromise
     DEF Run, Apply, ZeroDelta, AdjustInsufficient, ReserveInsufficient, DeadlockAbort
<1>5. ASSUME NEW w \in Workers, Crash(w) PROVE PromiseInv'
  BY <1>5, RollbackPromise DEF Crash
<1>6. CASE UpdateSettings
  BY <1>6, SettingsPromise
<1>7. CASE UNCHANGED vars
  BY <1>7, SettingsPromise
<1>8. QED BY <1>1, <1>2, <1>3, <1>4, <1>5, <1>6, <1>7 DEF Next

-----------------------------------------------------------------------------
(* Every step is a step of the promise, or none.                           *)

\* The promise's variables, in terms of the engine's.
Stocked == [k \in UniqueKeys |-> Reserved(k)]
Entries == [k \in UniqueKeys |-> ledger[k]]

LEMMA PromiseVars ==
  Promise!vars = <<Here, Stocked, Entries, everAllowed>>
BY DEF Promise!vars, Here, Stocked, Entries

\* A step that changes no row, no ledger and no permission.
LEMMA PromiseStutter ==
  ASSUME UNCHANGED <<level, ledger, everAllowed>>
  PROVE  UNCHANGED Promise!vars
<1>1. Here' = Here /\ Stocked' = Stocked /\ Entries' = Entries
  BY DEF Here, Stocked, Entries, Quantity, Reserved
<1>2. Promise!vars' = <<Here, Stocked, Entries, everAllowed>>'
  BY DEF Promise!vars, Here, Stocked, Entries
<1>3. QED BY <1>1, <1>2, PromiseVars

LEMMA InitKeeps == Init => Promise!Init
<1> SUFFICES ASSUME Init PROVE Promise!Init
  OBVIOUS
<1>1. \A k \in UniqueKeys : Quantity(RowOf(k)) = 0 /\ Reserved(k) = 0 /\ ledger[k] = <<>>
  BY RowFacts, UniqueRow DEF Init, Quantity, Reserved
<1>2. everAllowed \in BOOLEAN
  BY DEF Init
<1>3. QED BY <1>1, <1>2 DEF Promise!Init, Promise!Opened

LEMMA AllowKeeps ==
  ASSUME IInv, UpdateSettings
  PROVE  [Promise!Next]_Promise!vars
<1>1. UNCHANGED <<level, ledger>> /\ everAllowed' = (everAllowed \/ ~allowNegative)
  BY DEF UpdateSettings
<1>2. CASE everAllowed' = everAllowed
  BY <1>1, <1>2, PromiseStutter
<1>3. CASE everAllowed' = TRUE
  <2>1. Here' = Here /\ Stocked' = Stocked /\ Entries' = Entries
    BY <1>1 DEF Here, Stocked, Entries, Quantity, Reserved
  <2>2. Promise!AllowNegative
    BY <1>3, <2>1 DEF Promise!AllowNegative, Here, Stocked, Entries
  <2>3. QED BY <2>2 DEF Promise!Next
<1>4. QED BY <1>1, <1>2, <1>3 DEF IInv, TypeOK

LEMMA PostIs ==
  ASSUME NEW batch
  PROVE  Promise!Post(batch) <=>
           /\ Promise!Fits(batch)
           /\ Here' = [k \in UniqueKeys |->
                        Here[k] + Promise!Change(batch, Promise!ItemsOf(batch, k))]
           /\ Entries' = [k \in UniqueKeys |->
                           Entries[k] \o Promise!NewMovements(Here[k], batch, k)]
           /\ Stocked' = Stocked /\ everAllowed' = everAllowed
BY Zenon DEF Promise!Post, Here, Entries, Stocked

\* The commit of a call that posts: every item, each a movement that goes on
\* from the ledger, and none that takes a key below zero unasked.
LEMMA PostKeeps ==
  ASSUME IInv, PromiseInv, NEW w \in Workers, Commit(w), req[w].op \in Posting
  PROVE  Promise!Next
<1>0. PICK items : items = req[w].items
  OBVIOUS
<1>1. /\ pc[w] = "commit"
      /\ \A r \in Rows : level'[r] = IF draft[w][r] # NoRow THEN draft[w][r] ELSE level[r]
      /\ \A k \in Keys : ledger'[k] = ledger[k] \o pending[w][k]
      /\ everAllowed' = everAllowed
  BY CommitFacts
<1>2. PostsBatch(w) /\ KeepsReserved(w)
  BY <1>1 DEF PromiseInv, Promised
<1>3. req[w] \in Requests /\ items \in Seq(Item) /\ Len(items) \in Nat
  BY <1>0, <1>1, CallType
<1>4. Batch(w) = items /\ Done(w) = Len(items) /\ DOMAIN items = 1..Len(items)
  BY <1>0, <1>1, <1>3 DEF Batch, Done
<1>5. /\ \A k \in UniqueKeys :
           /\ pending[w][k] = Promise!NewMovements(Quantity(RowOf(k)), items, k)
           /\ Ahead(w, RowOf(k)) = Promise!Change(items, Promise!ItemsOf(items, k))
      /\ \A i \in DOMAIN items :
           /\ items[i].qty # 0
           /\ LET k == items[i].key
              IN  k \in UniqueKeys /\ Promise!Running(Quantity(RowOf(k)), items, k, i) < 0
                    => everAllowed
  BY <1>0, <1>2, <1>4 DEF PostsBatch
<1>6. ASSUME NEW k \in UniqueKeys
      PROVE  /\ Quantity(RowOf(k))' = Quantity(RowOf(k)) + Ahead(w, RowOf(k))
             /\ Reserved(k)' = Reserved(k)
             /\ ledger'[k] = ledger[k] \o pending[w][k]
  <2>1. k \in Keys /\ RowOf(k) \in Rows
    BY UniqueRow
  <2>2. /\ Here[k] = Quantity(RowOf(k)) /\ Here[k] \in Int
        /\ Aheads(w)[k] = Ahead(w, RowOf(k))
        /\ draft[w][RowOf(k)] = NoRow => Aheads(w)[k] = 0
        /\ draft[w][RowOf(k)] # NoRow => draft[w][RowOf(k)].quantity = Here[k] + Aheads(w)[k]
    BY NotAhead
  <2>3. CASE draft[w][RowOf(k)] = NoRow
    <3>1. level'[RowOf(k)] = level[RowOf(k)]
      BY <1>1, <2>1, <2>3
    <3>2. Quantity(RowOf(k))' = Quantity(RowOf(k)) /\ Reserved(k)' = Reserved(k)
      BY <3>1 DEF Quantity, Reserved
    <3>3. Ahead(w, RowOf(k)) = 0 /\ Quantity(RowOf(k)) \in Int
      BY <2>2, <2>3
    <3>4. Quantity(RowOf(k))' = Quantity(RowOf(k)) + Ahead(w, RowOf(k))
      BY <3>2, <3>3
    <3>5. QED BY <1>1, <2>1, <3>2, <3>4
  <2>4. CASE draft[w][RowOf(k)] # NoRow
    <3>1. level'[RowOf(k)] = draft[w][RowOf(k)]
      BY <1>1, <2>1, <2>4
    <3>2. /\ Quantity(RowOf(k))' = draft[w][RowOf(k)].quantity
          /\ Reserved(k)' = draft[w][RowOf(k)].reserved
      BY <2>4, <3>1 DEF Quantity, Reserved
    <3>3. draft[w][RowOf(k)].reserved = Reserved(k)
      BY <1>2, <2>4 DEF KeepsReserved
    <3>4. QED BY <1>1, <2>1, <2>2, <2>4, <3>2, <3>3
  <2>5. QED BY <2>3, <2>4
<1>7. Promise!Fits(items)
  BY <1>5 DEF Promise!Fits
<1>8. Promise!Post(items)
  <2>1. Here' = [k \in UniqueKeys |->
                   Here[k] + Promise!Change(items, Promise!ItemsOf(items, k))]
    BY <1>5, <1>6 DEF Here
  <2>2. Entries' = [k \in UniqueKeys |->
                      Entries[k] \o Promise!NewMovements(Here[k], items, k)]
    BY <1>5, <1>6 DEF Here, Entries
  <2>3. Stocked' = Stocked
    BY <1>6 DEF Stocked
  <2>4. QED BY <1>1, <1>7, <2>1, <2>2, <2>3, PostIs
<1>9. items \in {r.items : r \in {c \in Requests : c.op \in Posting}}
  BY <1>0, <1>3
<1>10. QED BY <1>8, <1>9 DEF Promise!Next

\* The commit of a reservation or a release: of the one row of a key with a
\* variant, or of a row the promise does not speak of.
LEMMA HoldKeeps ==
  ASSUME IInv, PromiseInv, NEW w \in Workers, Commit(w), req[w].op \notin Posting
  PROVE  [Promise!Next]_Promise!vars
<1>1. /\ pc[w] = "commit"
      /\ \A r \in Rows : level'[r] = IF draft[w][r] # NoRow THEN draft[w][r] ELSE level[r]
      /\ \A k \in Keys : ledger'[k] = ledger[k] \o pending[w][k]
      /\ everAllowed' = everAllowed
  BY CommitFacts
<1>2. req[w] \in Requests /\ HoldsRow(w)
  BY <1>1, CallType DEF PromiseInv, Promised
<1> DEFINE qty == req[w].items[1].qty
<1>3. PICK r \in Rows :
        /\ level[r] # NoRow
        /\ \A q \in Rows \ {r} : draft[w][q] = NoRow
        /\ draft[w][r] # NoRow /\ draft[w][r].quantity = level[r].quantity
        /\ \/ /\ req[w].op = "reserve" /\ qty <= available_quantity(level[r])
              /\ draft[w][r].reserved = level[r].reserved + qty
           \/ /\ req[w].op = "release"
              /\ draft[w][r].reserved = Max({level[r].reserved - qty, 0})
  BY <1>1, <1>2 DEF HoldsRow
<1>4. Entries' = Entries /\ \A k \in UniqueKeys : ledger'[k] = ledger[k]
  <2>1. ASSUME NEW k \in UniqueKeys PROVE ledger'[k] = ledger[k]
    <3>1. k \in Keys /\ pending[w][k] = <<>> /\ ledger[k] \in Seq(Movement)
      BY <1>2, UniqueRow, RowFacts DEF HoldsRow, IInv, TypeOK
    <3>2. ledger'[k] = ledger[k] \o <<>>
      BY <1>1, <3>1
    <3>3. QED BY <3>1, <3>2
  <2>2. QED BY <2>1 DEF Entries
<1>5. level'[r] = draft[w][r] /\ \A q \in Rows \ {r} : level'[q] = level[q]
  BY <1>1, <1>3
<1>6. ASSUME NEW k \in UniqueKeys
      PROVE  /\ Quantity(RowOf(k))' = Quantity(RowOf(k))
             /\ Reserved(k)' = IF RowOf(k) = r THEN draft[w][r].reserved ELSE Reserved(k)
  BY <1>3, <1>5, UniqueRow DEF Quantity, Reserved
<1>7. Here' = Here
  BY <1>6 DEF Here
<1>8. CASE \A k \in UniqueKeys : RowOf(k) # r
  <2>1. Stocked' = Stocked
    BY <1>6, <1>8 DEF Stocked
  <2>2. Promise!vars' = <<Here, Stocked, Entries, everAllowed>>'
    BY DEF Promise!vars, Here, Stocked, Entries
  <2>3. QED BY <1>1, <1>4, <1>7, <2>1, <2>2, PromiseVars
<1>9. CASE \E k \in UniqueKeys : RowOf(k) = r
  <2>1. PICK k \in UniqueKeys : RowOf(k) = r
    BY <1>9
  <2>2. /\ Reserved(k) = level[r].reserved /\ Quantity(r) = level[r].quantity
        /\ Here[k] = level[r].quantity /\ Stocked[k] = Reserved(k)
        /\ ledger[k] # <<>> /\ Entries[k] = ledger[k]
    BY <1>3, <2>1 DEF Reserved, Quantity, Here, Stocked, Entries, PromiseInv
  <2>3. Stocked' = [Stocked EXCEPT ![k] = draft[w][r].reserved]
    <3>1. \A j \in UniqueKeys : RowOf(j) = r => j = k
      BY <2>1 DEF RowOf
    <3>2. QED BY <1>6, <2>1, <3>1 DEF Stocked
  <2>4. qty \in {c.items[1].qty : c \in {b \in Requests : b.op \notin Posting}}
    BY <1>2
  <2>5. \A S : Promise!Max(S) = Max(S)
    BY DEF Promise!Max, Max
  <2> HIDE DEF qty
  <2>6. CASE req[w].op = "reserve"
    <3>1. /\ qty <= Max({level[r].quantity - level[r].reserved, 0})
          /\ draft[w][r].reserved = level[r].reserved + qty
      BY <1>3, <2>6 DEF available_quantity
    <3>2. Promise!Reserve(k, qty)
      BY <1>1, <1>4, <1>7, <2>2, <2>3, <2>5, <3>1
         DEF Promise!Reserve, Here, Stocked, Entries
    <3>3. QED BY <2>4, <3>2 DEF Promise!Next
  <2>7. CASE req[w].op = "release"
    <3>1. draft[w][r].reserved = Max({level[r].reserved - qty, 0})
      BY <1>3, <2>7
    <3>2. Promise!Release(k, qty)
      BY <1>1, <1>4, <1>7, <2>2, <2>3, <2>5, <3>1
         DEF Promise!Release, Here, Stocked, Entries
    <3>3. QED BY <2>4, <3>2 DEF Promise!Next
  <2>8. QED BY <1>3, <2>6, <2>7
<1>10. QED BY <1>8, <1>9

LEMMA StepKeeps ==
  IInv /\ PromiseInv /\ [Next]_vars => [Promise!Next]_Promise!vars
<1> SUFFICES ASSUME IInv, PromiseInv, [Next]_vars PROVE [Promise!Next]_Promise!vars
  OBVIOUS
<1>1. CASE \E w \in Workers : Commit(w)
  BY <1>1, PostKeeps, HoldKeeps
<1>2. CASE UpdateSettings
  BY <1>2, AllowKeeps
<1>3. CASE ~UpdateSettings /\ ~\E w \in Workers : Commit(w)
  <2>1. UNCHANGED <<level, ledger, everAllowed>>
    BY <1>3 DEF Next, vars, shared, local, Begin, Select, GetRow, GetMultiple,
          GetMissing, NothingToHold, Insert, Run, ZeroDelta, InsertConflict, Apply,
          AdjustRow, AdjustInsufficient, ReserveRow, ReserveInsufficient, ReleaseRow,
          DeadlockAbort, Crash, Rollback
  <2>2. QED BY <2>1, PromiseStutter
<1>4. QED BY <1>1, <1>2, <1>3

-----------------------------------------------------------------------------
(* The theorems.                                                           *)

\* The inductive invariant of the stock engine holds in every reachable state,
\* whatever the workers, keys, calls and bounds.
THEOREM InvariantHolds == Spec => []IInv
<1>1. QED BY InitInvariant, StepInvariant, PTL DEF Spec

\* Every variable keeps its type; reserved quantities never go below zero.
THEOREM TypeCorrect == Spec => []TypeOK
<1>1. IInv => TypeOK
  BY DEF IInv
<1>2. QED BY <1>1, InvariantHolds, PTL

\* No two transactions hold uncommitted writes of one row.
THEOREM WritesLocked == Spec => []WritesAreLocked
<1>1. IInv => WritesAreLocked
  BY DEF IInv
<1>2. QED BY <1>1, InvariantHolds, PTL

\* For every key the unique index protects, StockMovement is an unbroken chain
\* from zero that ends at StockLevel.quantity.
THEOREM LedgerAgreement == Spec => []LedgerAgrees
<1>1. IInv => LedgerAgrees
  BY DEF IInv
<1>2. QED BY <1>1, InvariantHolds, PTL

\* A tenant that has never allowed negative stock has none, whatever settings a
\* request has cached and whatever interleaves, fails or crashes.
THEOREM NonNegativeStock == Spec => []NeverNegative
<1>1. AllowedBeforeNegative => NeverNegative
  BY DEF AllowedBeforeNegative
<1>2. QED BY <1>1, InvariantHolds, InitAllowed, StepAllowed, PTL DEF Spec

\* Every committed movement that left a tracked product at or below its reorder
\* point has had its own alert queued or refused by the broker, whatever rolled
\* back, crashed or was queued for nothing before.
THEOREM LowStockIsAlerted == Spec => []LowStockAlerted
<1>1. AlertedBeforeCommit => LowStockAlerted
  BY DEF AlertedBeforeCommit
<1>2. QED BY <1>1, InvariantHolds, InitAlerted, StepAlerted, PTL DEF Spec

\* No commit that reserves more leaves more reserved than there is, for any
\* number of competing reservations, sales and receipts of the row.
THEOREM ReservationsWithinAvailable == Spec => ReserveWithinAvailable
<1>1. IInv /\ ReservesChecked /\ [Next]_vars =>
        [\A r \in Rows :
           level[r] # NoRow /\ level'[r].reserved > level[r].reserved
             => level'[r].reserved <= level'[r].quantity]_vars
  BY StepWithinAvailable
<1>2. QED BY <1>1, InvariantHolds, InitReserves, StepReserves, PTL
          DEF Spec, ReserveWithinAvailable

\* The rows of a key, duplicates included, add up to its movements, whatever
\* transactions interleave, fail or crash.
THEOREM QuantitiesConserved == Spec => []QuantityConserved
<1>1. WritesAreMoved => QuantityConserved
  BY DEF WritesAreMoved
<1>2. QED BY <1>1, InitInvariant, StepInvariant, InitMoved, StepMoved, PTL DEF Spec

\* What a transaction has written is what the items it is done with make of the
\* committed rows; nothing it was refused is among it.
THEOREM WritesArePromised == Spec => []PromiseInv
<1>1. QED BY InitInvariant, StepInvariant, InitAllowed, StepAllowed, InitReserves, StepReserves,
             InitPromise, StepPromise, PTL DEF Spec

\* The transactions of the engine implement the promise of StockLedger, for any
\* number of workers, keys and calls: to a reader of the committed rows, each call
\* posts all its items in one step, or has no effect.
THEOREM EngineKeepsPromise == Spec => KeepsPromise
<1>1. Spec => Promise!Init
  BY InitKeeps DEF Spec
<1>2. QED BY <1>1, StepKeeps, InvariantHolds, WritesArePromised, PTL
          DEF Spec, KeepsPromise, Promise!Spec
=============================================================================
