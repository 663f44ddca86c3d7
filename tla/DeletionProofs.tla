--------------------------- MODULE DeletionProofs ---------------------------
(***************************************************************************)
(* Theorems about Deletion, for every set of rows over the tables of       *)
(* Schema, every set of edits and every number of overlapping requests.    *)
(***************************************************************************)
EXTENDS Deletion, TLAPS

-----------------------------------------------------------------------------
(* What the proofs need to know of the schema.                             *)

\* Nothing protects a movement's tenant, and everything else it refers to
\* protects itself.
LEMMA MovementKeys ==
  ASSUME NEW m \in Rows, TableOf[m] = "StockMovement"
  PROVE  /\ Columns(m) = {"performed_by", "product", "tenant", "variant", "warehouse"}
         /\ KeysOf[m]["tenant"].to = "Tenant"
         /\ \A f \in Columns(m) : /\ KeysOf[m][f].on_delete # "SET_NULL"
                                  /\ KeysOf[m][f].on_delete = "CASCADE" => f = "tenant"
<1>1. KeysOf[m] = StockMovement
  BY DEF KeysOf, ForeignKeys
<1>2. QED
  BY <1>1 DEF Columns, StockMovement, Key, Cascade, Protect, Optional

\* A level goes with its product, its variant, its warehouse or its tenant.
LEMMA LevelKeys ==
  ASSUME NEW l \in Rows, TableOf[l] = "StockLevel"
  PROVE  /\ Columns(l) = {"product", "tenant", "variant", "warehouse"}
         /\ KeysOf[l]["tenant"].to = "Tenant"
         /\ \A f \in Columns(l) : KeysOf[l][f].on_delete # "SET_NULL"
<1>1. KeysOf[l] = StockLevel
  BY DEF KeysOf, ForeignKeys
<1>2. QED
  BY <1>1 DEF Columns, StockLevel, Key, Cascade, Protect, Optional

\* No deletion cascades to a tenant or to a user.
LEMMA TopKeys ==
  ASSUME NEW r \in Rows, TableOf[r] \in {"Tenant", "User"}, NEW f \in Columns(r)
  PROVE  KeysOf[r][f].on_delete # "CASCADE"
<1>1. CASE TableOf[r] = "Tenant"
  <2>1. KeysOf[r] = Tenant
    BY <1>1 DEF KeysOf, ForeignKeys
  <2>2. QED BY <2>1 DEF Columns, Tenant, Protect, Key
<1>2. CASE TableOf[r] = "User"
  <2>1. KeysOf[r] = User
    BY <1>2 DEF KeysOf, ForeignKeys
  <2>2. DOMAIN User = {}
    BY DEF User
  <2>3. QED BY <2>1, <2>2 DEF Columns
<1>3. QED BY <1>1, <1>2

\* A column the collector sets to NULL may be NULL.
Nullable(keys) ==
  \A f \in DOMAIN keys : keys[f].on_delete = "SET_NULL" => keys[f].null

LEMMA SetNullIsOptional ==
  ASSUME NEW r \in Rows, TableOf[r] \in Tables
  PROVE  Nullable(KeysOf[r])
<1> USE DEF Nullable, SetNull, Cascade, Protect, Optional, Key
<1>1. Nullable(Tenant) /\ Nullable(TenantSettings) /\ Nullable(Role)
  BY DEF Tenant, TenantSettings, Role
<1>2. Nullable(TenantMembership) /\ Nullable(UserInvitation) /\ Nullable(User)
  BY DEF TenantMembership, UserInvitation, User
<1>3. Nullable(Warehouse) /\ Nullable(Branch) /\ Nullable(Category)
  BY DEF Warehouse, Branch, Category
<1>4. Nullable(Product) /\ Nullable(ProductVariant) /\ Nullable(BundleItem)
  BY DEF Product, ProductVariant, BundleItem, ProductUnit
<1>5. Nullable(Unit) /\ Nullable(StockTransfer) /\ Nullable(StockTransferItem)
  BY DEF Unit, StockTransfer, StockTransferItem
<1>6. Nullable(BatchLot) /\ Nullable(SerialNumber) /\ Nullable(StockLevel)
  BY DEF BatchLot, SerialNumber, StockLevel
<1>7. Nullable(StockMovement) /\ Nullable(Customer) /\ Nullable(POSSession)
  BY DEF StockMovement, Customer, POSSession
<1>8. Nullable(SalesOrder) /\ Nullable(Payment) /\ Nullable(SalesOrderItem)
  BY DEF SalesOrder, Payment, SalesOrderItem
<1>9. Nullable(PurchaseOrder) /\ Nullable(PurchaseOrderItem) /\ Nullable(Supplier)
  BY DEF PurchaseOrder, PurchaseOrderItem, Supplier, PurchaseOrderSupplier
<1>10. Nullable(ExpenseCategory) /\ Nullable(Expense) /\ Nullable(FinancialSummary)
  BY DEF ExpenseCategory, Expense, FinancialSummary
<1>11. Nullable(TaxRate) /\ Nullable(Notification) /\ Nullable(AuditLog)
  BY DEF TaxRate, Notification, AuditLog
<1>12. \A t \in Tables : Nullable(ForeignKeys[t])
  BY <1>1, <1>2, <1>3, <1>4, <1>5, <1>6, <1>7, <1>8, <1>9, <1>10, <1>11 DEF Tables, ForeignKeys
<1>13. QED BY <1>12 DEF KeysOf

-----------------------------------------------------------------------------
(* The rows a transaction removes.                                         *)

\* A row of the tenant column is a tenant, and no tenant is ever doomed.
LEMMA DoomedIsNoTenant ==
  ASSUME TypeOK, DoomedHasCause, NEW w \in Workers, NEW r \in Rows, Exists(r),
         "tenant" \in Columns(r), KeysOf[r]["tenant"].to = "Tenant"
  PROVE  refs[r]["tenant"] \notin doomed[w]
<1>1. doomed[w] \subseteq Rows /\ Null \notin doomed[w]
  BY RowsAssumption DEF TypeOK
<1>2. refs[r]["tenant"] = Null \/ TableOf[refs[r]["tenant"]] = "Tenant"
  BY DEF TypeOK, Foreign, Values
<1>3. QED BY <1>1, <1>2 DEF DoomedHasCause

\* What a deletion cascades to from the doomed rows has a cause among them.
LEMMA CascadeHasCause ==
  ASSUME TypeOK, StockRowsFixed, DoomedHasCause, NEW w \in Workers,
         NEW r \in By("CASCADE", doomed[w])
  PROVE  /\ TableOf[r] \notin {"User", "Tenant", "StockMovement"}
         /\ TableOf[r] = "StockLevel" =>
              \E f \in {"product", "variant", "warehouse"} : Birth[r][f] \in doomed[w]
<1>1. PICK f \in Columns(r) : KeysOf[r][f].on_delete = "CASCADE" /\ refs[r][f] \in doomed[w]
  BY DEF By
<1>2. r \in Rows /\ Exists(r)
  BY DEF By
<1>3. TableOf[r] \notin {"User", "Tenant"}
  BY <1>1, <1>2, TopKeys
<1>4. TableOf[r] # "StockMovement"
  BY <1>1, <1>2, MovementKeys, DoomedIsNoTenant
<1>5. ASSUME TableOf[r] = "StockLevel"
      PROVE  \E g \in {"product", "variant", "warehouse"} : Birth[r][g] \in doomed[w]
  <2>1. f # "tenant"
    BY <1>1, <1>2, <1>5, LevelKeys, DoomedIsNoTenant
  <2>2. f \in {"product", "variant", "warehouse"}
    BY <1>1, <1>2, <1>5, <2>1, LevelKeys
  <2>3. refs[r] = Birth[r]
    BY <1>2, <1>5 DEF StockRowsFixed
  <2>4. QED BY <1>1, <2>2, <2>3
<1>6. QED BY <1>3, <1>4, <1>5

\* So no deletion removes or rewrites a movement,
LEMMA DeleteKeepsMovements ==
  ASSUME TypeOK, StockRowsFixed, DoomedHasCause, NEW w \in Workers,
         NEW m \in Rows, TableOf[m] = "StockMovement", Exists(m)
  PROVE  AfterDelete(w)[m] = refs[m]
<1>1. m \notin Removed(w)
  BY CascadeHasCause DEF Removed, DoomedHasCause
<1>2. \A f \in Columns(m) : KeysOf[m][f].on_delete # "SET_NULL"
  BY MovementKeys
<1>3. AfterDelete(w)[m] = [f \in Columns(m) |-> refs[m][f]]
  BY <1>1, <1>2 DEF AfterDelete
<1>4. refs[m] = [f \in Columns(m) |-> refs[m][f]]
  BY DEF TypeOK, Foreign
<1>5. QED BY <1>3, <1>4

\* and none takes the level of a movement it leaves: the database refuses.
LEMMA DeleteKeepsLevels ==
  ASSUME TypeOK, HistoryHasLevel, StockRowsFixed, DoomedHasCause,
         NEW w \in Workers, ~Dangles(AfterDelete(w)),
         NEW m \in Rows, TableOf[m] = "StockMovement", Exists(m),
         NEW l \in Rows, TableOf[l] = "StockLevel", Exists(l),
         StockKey(refs[l]) = StockKey(refs[m])
  PROVE  AfterDelete(w)[l] = refs[l]
<1> DEFINE after == AfterDelete(w)
<1>1. after[m] = refs[m]
  BY DeleteKeepsMovements
<1>2. \A f \in {"product", "variant", "warehouse"} : refs[m][f] = refs[l][f]
  <2>1. \A f \in {"product", "variant", "warehouse"} :
          StockKey(refs[l])[f] = refs[l][f] /\ StockKey(refs[m])[f] = refs[m][f]
    BY DEF StockKey
  <2>2. QED BY <2>1
<1>3. l \notin Removed(w)
  <2> SUFFICES ASSUME l \in Removed(w) PROVE FALSE
    OBVIOUS
  <2>1. PICK f \in {"product", "variant", "warehouse"} : Birth[l][f] \in doomed[w]
    BY CascadeHasCause DEF Removed, DoomedHasCause
  <2>2. refs[m][f] \in doomed[w]
    BY <2>1, <1>2 DEF StockRowsFixed
  <2>3. refs[m][f] \in Rows /\ refs[m][f] # Null /\ after[refs[m][f]] = NoRow
    BY <2>2, RowsAssumption DEF AfterDelete, Removed, TypeOK
  <2>4. f \in Columns(m)
    BY MovementKeys
  <2>5. QED BY <2>3, <2>4, <1>1 DEF Dangles, Exists
<1>4. \A f \in Columns(l) : KeysOf[l][f].on_delete # "SET_NULL"
  BY LevelKeys
<1>5. after[l] = [f \in Columns(l) |-> refs[l][f]]
  BY <1>3, <1>4 DEF AfterDelete
<1>6. QED BY <1>5 DEF TypeOK, Foreign

-----------------------------------------------------------------------------
(* The inductive invariant.                                                *)

LEMMA InitDInv == Init => DInv
<1> SUFFICES ASSUME Init PROVE DInv
  OBVIOUS
<1>1. \A r \in Rows : Exists(r) => r \in Seeded /\ refs[r] = Birth[r]
  BY DEF Init, Exists
<1>2. TypeOK
  BY <1>1, RowsAssumption DEF TypeOK, Init, Exists
<1>3. StockRowsFixed
  BY <1>1 DEF StockRowsFixed
<1>4. DoomedHasCause
  BY DEF DoomedHasCause, Init
<1>5. HistoryHasLevel
  BY <1>1, RowsAssumption, SeedAssumption DEF HistoryHasLevel, Init, Exists
<1>6. QED BY <1>2, <1>3, <1>4, <1>5 DEF DInv

\* A deletion leaves the columns of a row well formed.
LEMMA DeleteKeepsForeign ==
  ASSUME TypeOK, NEW w \in Workers, NEW r \in Rows, AfterDelete(w)[r] # NoRow
  PROVE  Exists(r) /\ Foreign(r, AfterDelete(w)[r])
<1>1. Exists(r) /\ r \notin Removed(w)
  BY DEF AfterDelete
<1>2. Foreign(r, refs[r])
  BY <1>1 DEF TypeOK
<1>3. Nullable(KeysOf[r])
  BY SetNullIsOptional, RowsAssumption
<1>4. \A f \in Columns(r) :
        AfterDelete(w)[r][f] = IF KeysOf[r][f].on_delete = "SET_NULL" /\ refs[r][f] \in doomed[w]
                                 THEN Null ELSE refs[r][f]
  BY <1>1 DEF AfterDelete
<1>5. AfterDelete(w)[r] \in [Columns(r) -> Rows \union {Null}]
  BY <1>1, <1>2 DEF AfterDelete, Foreign
<1>6. \A f \in Columns(r) : /\ AfterDelete(w)[r][f] \in Values(r, f)
                            /\ AfterDelete(w)[r][f] = Null => KeysOf[r][f].null
  BY <1>2, <1>3, <1>4 DEF Foreign, Nullable, Columns, Values
<1>7. QED BY <1>1, <1>5, <1>6 DEF Foreign

\* The request of a worker ends without touching the others.
LEMMA RespondKeeps ==
  ASSUME DInv, NEW w \in Workers, Respond(w), UNCHANGED unborn
  PROVE  /\ pc' \in [Workers -> {"idle", "collect", "delete", "save"}]
         /\ object' \in [Workers -> Rows \union {NoRow}]
         /\ DOMAIN copy' = Workers
         /\ \A x \in Workers : pc'[x] = "save" =>
              object'[x] \in Rows \ unborn' /\ Foreign(object'[x], copy'[x])
         /\ doomed' \in [Workers -> SUBSET Rows]
         /\ DoomedHasCause'
<1> USE DEF DInv
<1>1. /\ pc' \in [Workers -> {"idle", "collect", "delete", "save"}]
      /\ object' \in [Workers -> Rows \union {NoRow}]
      /\ DOMAIN copy' = Workers
      /\ doomed' \in [Workers -> SUBSET Rows]
  BY DEF Respond, TypeOK
<1>2. ASSUME NEW x \in Workers, x # w
      PROVE  /\ pc'[x] = pc[x] /\ object'[x] = object[x]
             /\ copy'[x] = copy[x] /\ doomed'[x] = doomed[x]
  BY <1>2 DEF Respond, TypeOK
<1>3. pc'[w] = "idle" /\ doomed'[w] = {}
  BY DEF Respond, TypeOK
<1>4. \A x \in Workers : pc'[x] = "save" =>
        object'[x] \in Rows \ unborn' /\ Foreign(object'[x], copy'[x])
  BY <1>2, <1>3 DEF TypeOK
<1>5. DoomedHasCause'
  BY <1>2, <1>3 DEF DoomedHasCause
<1>6. QED BY <1>1, <1>4, <1>5

\* An insert keeps the invariant if each movement comes with or to its level.
LEMMA InsertKeeps ==
  ASSUME DInv, NEW rows \in SUBSET Rows, Insert(rows),
         \A m \in rows : TableOf[m] = "StockMovement" =>
           \E l \in Rows : /\ TableOf[l] = "StockLevel"
                           /\ l \in rows \/ Exists(l)
                           /\ StockKey(IF l \in rows THEN Birth[l] ELSE refs[l])
                                = StockKey(Birth[m])
  PROVE  DInv'
<1> USE DEF DInv
<1> DEFINE after == [r \in Rows |-> IF r \in rows THEN Birth[r] ELSE refs[r]]
<1>1. refs' = after /\ unborn' = unborn \ rows /\ rows \subseteq unborn /\ ~Dangles(after)
  BY DEF Insert
<1>2. UNCHANGED <<pc, object, copy, doomed>>
  BY DEF Insert, request
<1>3. \A r \in rows : Birth[r] # NoRow /\ Foreign(r, Birth[r])
  BY RowsAssumption
<1>4. TypeOK'
  <2>1. DOMAIN refs' = Rows /\ unborn' \subseteq Rows
    BY <1>1 DEF TypeOK
  <2>2. \A r \in Rows : refs'[r] # NoRow => Foreign(r, refs'[r])
    BY <1>1, <1>3 DEF TypeOK, Exists
  <2>3. \A r \in unborn' : refs'[r] = NoRow
    BY <1>1 DEF TypeOK, Exists
  <2>4. QED BY <2>1, <2>2, <2>3, <1>1, <1>2 DEF TypeOK, Exists
<1>5. \A r \in Rows : Exists(r) => r \notin rows /\ Exists(r)' /\ refs'[r] = refs[r]
  BY <1>1 DEF TypeOK, Exists
<1>6. HistoryHasLevel'
  <2> SUFFICES ASSUME NEW m \in Rows, TableOf[m] = "StockMovement", Exists(m)'
               PROVE  \E l \in Rows : /\ TableOf[l] = "StockLevel" /\ Exists(l)'
                                      /\ StockKey(refs'[l]) = StockKey(refs'[m])
    BY DEF HistoryHasLevel, StockKey
  <2>1. CASE m \in rows
    <3>1. PICK l \in Rows : /\ TableOf[l] = "StockLevel"
                            /\ l \in rows \/ Exists(l)
                            /\ StockKey(IF l \in rows THEN Birth[l] ELSE refs[l])
                                 = StockKey(Birth[m])
      BY <2>1
    <3>2. refs'[m] = Birth[m] /\ refs'[l] = IF l \in rows THEN Birth[l] ELSE refs[l]
      BY <2>1, <1>1
    <3>3. Exists(l)'
      BY <3>1, <3>2, <1>3 DEF Exists
    <3>4. QED BY <3>1, <3>2, <3>3
  <2>2. CASE m \notin rows
    <3>1. Exists(m) /\ refs'[m] = refs[m]
      BY <2>2, <1>1 DEF Exists
    <3>2. PICK l \in Rows : /\ TableOf[l] = "StockLevel" /\ Exists(l)
                            /\ StockKey(refs[l]) = StockKey(refs[m])
      BY <3>1 DEF HistoryHasLevel
    <3>3. QED BY <3>1, <3>2, <1>5
  <2>3. QED BY <2>1, <2>2
<1>7. StockRowsFixed'
  BY <1>1 DEF StockRowsFixed, Exists
<1>8. DoomedHasCause'
  BY <1>2 DEF DoomedHasCause
<1>9. QED BY <1>4, <1>6, <1>7, <1>8

\* A save writes a row no stock row depends on for its key.
LEMMA SaveKeeps ==
  ASSUME DInv, NEW w \in Workers, NEW e \in Edits, Save(w, e)
  PROVE  DInv'
<1> USE DEF DInv
<1> DEFINE r == object[w]
           row == [copy[w] EXCEPT ![e.column] = e.value]
<1>1. /\ pc[w] = "save" /\ e.row = r /\ Respond(w) /\ unborn' = unborn
      /\ refs' = [refs EXCEPT ![r] = row] /\ ~Dangles([refs EXCEPT ![r] = row])
  BY DEF Save, AfterSave
<1>2. /\ r \in Rows \ unborn /\ Foreign(r, copy[w])
      /\ TableOf[r] \in Endpoints /\ e.column \in Columns(r)
      /\ e.value \in Values(r, e.column)
      /\ e.value = Null => KeysOf[r][e.column].null
  BY <1>1, EditsAssumption DEF TypeOK
<1>3. Foreign(r, row)
  BY <1>2 DEF Foreign, Values
<1>4. refs'[r] = row /\ \A x \in Rows : x # r => refs'[x] = refs[x]
  BY <1>1, <1>2 DEF TypeOK
<1>5. TypeOK'
  <2>1. DOMAIN refs' = Rows
    BY <1>1 DEF TypeOK
  <2>2. \A x \in Rows : refs'[x] # NoRow => Foreign(x, refs'[x])
    BY <1>3, <1>4 DEF TypeOK, Exists
  <2>3. \A x \in unborn' : refs'[x] = NoRow
    BY <1>1, <1>2, <1>4 DEF TypeOK, Exists
  <2>4. QED BY <2>1, <2>2, <2>3, <1>1, RespondKeeps DEF TypeOK, Exists
<1>6. TableOf[r] \notin {"StockLevel", "StockMovement"}
  BY <1>2 DEF Endpoints
<1>7. HistoryHasLevel'
  BY <1>4, <1>6 DEF HistoryHasLevel, StockKey, Exists
<1>8. StockRowsFixed'
  BY <1>4, <1>6 DEF StockRowsFixed, Exists
<1>9. QED BY <1>1, <1>5, <1>7, <1>8, RespondKeeps

LEMMA DeleteKeeps ==
  ASSUME DInv, NEW w \in Workers, Delete(w)
  PROVE  DInv'
<1> USE DEF DInv
<1>1. refs' = AfterDelete(w) /\ ~Dangles(AfterDelete(w)) /\ Respond(w) /\ unborn' = unborn
  BY DEF Delete
<1>2. DOMAIN refs' = Rows
  BY <1>1 DEF AfterDelete
<1>3. \A r \in Rows : refs'[r] # NoRow => Exists(r) /\ Foreign(r, refs'[r])
  BY <1>1, DeleteKeepsForeign
<1>4. TypeOK'
  <2>1. \A r \in unborn' : refs'[r] = NoRow
    BY <1>1, <1>3 DEF TypeOK, Exists
  <2>2. QED BY <1>1, <1>2, <1>3, <2>1, RespondKeeps DEF TypeOK, Exists
<1>5. \A m \in Rows : TableOf[m] = "StockMovement" /\ Exists(m) => refs'[m] = refs[m]
  BY <1>1, DeleteKeepsMovements
<1>6. HistoryHasLevel'
  <2> SUFFICES ASSUME NEW m \in Rows, TableOf[m] = "StockMovement", Exists(m)'
               PROVE  \E l \in Rows : /\ TableOf[l] = "StockLevel" /\ Exists(l)'
                                      /\ StockKey(refs'[l]) = StockKey(refs'[m])
    BY DEF HistoryHasLevel, StockKey
  <2>1. Exists(m) /\ refs'[m] = refs[m]
    BY <1>3, <1>5 DEF Exists
  <2>2. PICK l \in Rows : /\ TableOf[l] = "StockLevel" /\ Exists(l)
                          /\ StockKey(refs[l]) = StockKey(refs[m])
    BY <2>1 DEF HistoryHasLevel
  <2>3. refs'[l] = refs[l]
    BY <2>1, <2>2, <1>1, DeleteKeepsLevels
  <2>4. QED BY <2>1, <2>2, <2>3 DEF Exists
<1>7. StockRowsFixed'
  <2> SUFFICES ASSUME NEW r \in Rows, TableOf[r] \in {"StockLevel", "StockMovement"}, Exists(r)'
               PROVE  refs'[r] = Birth[r]
    BY DEF StockRowsFixed
  <2>1. Exists(r) /\ refs[r] = Birth[r] /\ r \notin Removed(w)
    BY <1>1, <1>3 DEF StockRowsFixed, Exists, AfterDelete
  <2>2. \A f \in Columns(r) : KeysOf[r][f].on_delete # "SET_NULL"
    BY MovementKeys, LevelKeys
  <2>3. refs'[r] = [f \in Columns(r) |-> refs[r][f]]
    BY <2>1, <2>2, <1>1 DEF AfterDelete
  <2>4. QED BY <2>1, <2>3 DEF TypeOK, Foreign
<1>8. QED BY <1>1, <1>4, <1>6, <1>7, RespondKeeps

\* The collector adds rows that have their cause among those it has.
LEMMA CollectKeeps ==
  ASSUME DInv, NEW w \in Workers, Collect(w)
  PROVE  DInv'
<1> USE DEF DInv
<1>1. UNCHANGED <<refs, unborn, object, copy>>
  BY DEF Collect
<1>2. /\ doomed' \in [Workers -> SUBSET Rows]
      /\ pc' \in [Workers -> {"idle", "collect", "delete", "save"}]
      /\ \A x \in Workers : pc'[x] = "save" => pc[x] = "save"
  BY DEF Collect, TypeOK, By
<1>3. TypeOK'
  BY <1>1, <1>2 DEF TypeOK, Exists
<1>4. /\ \A x \in Workers \ {w} : doomed'[x] = doomed[x]
      /\ doomed[w] \subseteq doomed'[w]
      /\ doomed'[w] \subseteq doomed[w] \union By("CASCADE", doomed[w])
  BY DEF Collect, TypeOK
<1>5. DoomedHasCause'
  BY <1>1, <1>4, CascadeHasCause DEF DoomedHasCause
<1>6. QED BY <1>1, <1>3, <1>5 DEF HistoryHasLevel, StockRowsFixed, Exists, StockKey

\* A request that starts leaves the database alone.
LEMMA StartKeeps ==
  ASSUME DInv, NEW w \in Workers, NEW r \in Rows, Destroy(w, r) \/ Fetch(w, r)
  PROVE  DInv'
<1> USE DEF DInv
<1>1. UNCHANGED <<refs, unborn>> /\ TableOf[r] \in Endpoints /\ Exists(r)
  BY DEF Destroy, Fetch
<1>2. TypeOK'
  <2>1. CASE Destroy(w, r)
    <3>1. \A x \in Workers : pc'[x] = "save" =>
            pc[x] = "save" /\ object'[x] = object[x] /\ copy'[x] = copy[x]
      BY <2>1 DEF Destroy, TypeOK
    <3>2. QED BY <2>1, <3>1, <1>1 DEF Destroy, TypeOK, Exists
  <2>2. CASE Fetch(w, r)
    <3>1. \A x \in Workers : pc'[x] = "save" =>
            object'[x] \in Rows \ unborn /\ Foreign(object'[x], copy'[x])
      BY <2>2, <1>1 DEF Fetch, TypeOK, Exists
    <3>2. QED BY <2>2, <3>1, <1>1 DEF Fetch, TypeOK, Exists
  <2>3. QED BY <2>1, <2>2
<1>3. DoomedHasCause'
  <2>1. CASE Destroy(w, r)
    BY <2>1, <1>1 DEF Destroy, TypeOK, DoomedHasCause, Endpoints
  <2>2. CASE Fetch(w, r)
    BY <2>2 DEF Fetch, DoomedHasCause
  <2>3. QED BY <2>1, <2>2
<1>4. QED BY <1>1, <1>2, <1>3 DEF HistoryHasLevel, StockRowsFixed, Exists, StockKey

\* A request that gives up leaves the database alone.
LEMMA GiveUpKeeps ==
  ASSUME DInv, NEW w \in Workers, Respond(w), UNCHANGED <<refs, unborn>>
  PROVE  DInv'
<1> USE DEF DInv
<1>1. TypeOK'
  BY RespondKeeps DEF TypeOK, Exists
<1>2. QED
  BY <1>1, RespondKeeps DEF HistoryHasLevel, StockRowsFixed, Exists, StockKey

LEMMA NextKeeps ==
  ASSUME DInv, [Next]_vars
  PROVE  DInv'
<1>1. ASSUME NEW w \in Workers, NEW r \in Rows, Destroy(w, r) \/ Fetch(w, r) PROVE DInv'
  BY <1>1, StartKeeps
<1>2. ASSUME NEW w \in Workers, Collect(w) PROVE DInv'
  BY <1>2, CollectKeeps
<1>3. ASSUME NEW w \in Workers, Protected(w) \/ DeleteConflict(w) PROVE DInv'
  BY <1>3, GiveUpKeeps DEF Protected, DeleteConflict
<1>4. ASSUME NEW w \in Workers, Delete(w) PROVE DInv'
  BY <1>4, DeleteKeeps
<1>5. ASSUME NEW w \in Workers, NEW e \in Edits, Save(w, e) PROVE DInv'
  BY <1>5, SaveKeeps
<1>6. ASSUME NEW w \in Workers, NEW e \in Edits, SaveConflict(w, e) PROVE DInv'
  BY <1>6, GiveUpKeeps DEF SaveConflict
<1>7. ASSUME NEW r \in Rows, Create(r) PROVE DInv'
  BY <1>7, InsertKeeps DEF Create
<1>8. ASSUME NEW m \in Rows, Move(m) PROVE DInv'
  <2>1. TableOf[m] = "StockMovement" /\ Insert({m})
    BY <1>8 DEF Move
  <2>2. PICK l \in Rows : /\ TableOf[l] = "StockLevel" /\ Exists(l)
                          /\ StockKey(refs[l]) = StockKey(Birth[m])
    BY <1>8 DEF Move, LevelOf
  <2>3. l # m
    BY <2>1, <2>2
  <2>4. QED BY <2>1, <2>2, <2>3, InsertKeeps
<1>9. ASSUME NEW m \in Rows, NEW l \in Rows, MoveFirst(m, l) PROVE DInv'
  <2>1. /\ TableOf[m] = "StockMovement" /\ TableOf[l] = "StockLevel"
        /\ StockKey(Birth[l]) = StockKey(Birth[m]) /\ Insert({m, l})
    BY <1>9 DEF MoveFirst
  <2>2. \A x \in {m, l} : TableOf[x] = "StockMovement" => x = m
    BY <2>1
  <2>3. QED BY <2>1, <2>2, InsertKeeps
<1>10. CASE UNCHANGED vars
  BY <1>10 DEF vars, request, DInv, TypeOK, HistoryHasLevel,
               StockRowsFixed, DoomedHasCause, Exists, StockKey
<1>11. QED
  BY <1>1, <1>2, <1>3, <1>4, <1>5, <1>6, <1>7, <1>8, <1>9, <1>10 DEF Next

-----------------------------------------------------------------------------
(* The theorems.                                                           *)

\* Inserts, edits and deletions in any order keep the invariant.
THEOREM DeletionInvariant == Spec => []DInv
<1>1. QED BY InitDInv, NextKeeps, PTL DEF Spec

\* Every row keeps the columns its table has, NULL only where it may be.
THEOREM RowsWellFormed == Spec => []TypeOK
<1>1. DInv => TypeOK
  BY DEF DInv
<1>2. QED BY DeletionInvariant, <1>1, PTL

\* A stock key with a history keeps its quantity.
THEOREM HistoryKeepsLevel == Spec => []HistoryHasLevel
<1>1. DInv => HistoryHasLevel
  BY DEF DInv
<1>2. QED BY DeletionInvariant, <1>1, PTL

LEMMA NextKeepsMovements ==
  ASSUME DInv, [Next]_vars, NEW m \in Rows, TableOf[m] = "StockMovement", Exists(m)
  PROVE  refs'[m] = refs[m]
<1> USE DEF DInv
<1>1. ASSUME NEW rows \in SUBSET Rows, Insert(rows) PROVE refs'[m] = refs[m]
  BY <1>1 DEF Insert, TypeOK, Exists
<1>2. ASSUME NEW w \in Workers, Delete(w) PROVE refs'[m] = refs[m]
  BY <1>2, DeleteKeepsMovements DEF Delete
<1>3. ASSUME NEW w \in Workers, NEW e \in Edits, Save(w, e) PROVE refs'[m] = refs[m]
  <2>1. e.row # m
    BY EditsAssumption DEF Endpoints
  <2>2. QED BY <1>3, <2>1 DEF Save, AfterSave, TypeOK
<1>4. QED
  BY <1>1, <1>2, <1>3
     DEF Next, Destroy, Fetch, Collect, Protected, DeleteConflict, SaveConflict,
         Create, Move, MoveFirst, vars

\* The history is immutable: whatever is deleted, no movement goes or changes.
THEOREM MovementsNeverChange == Spec => MovementsKept
<1>1. DInv /\ [Next]_vars =>
        [\A m \in Rows : TableOf[m] = "StockMovement" /\ Exists(m) => refs'[m] = refs[m]]_vars
  BY NextKeepsMovements
<1>2. QED BY DeletionInvariant, <1>1, PTL DEF Spec, MovementsKept
=============================================================================
