------------------------------ MODULE Deletion ------------------------------
(***************************************************************************)
(* DELETE, PUT/PATCH and inserts over the tables of Schema.                *)
(*                                                                         *)
(* The destroy of every ModelViewSet calls instance.delete().  Django's    *)
(* collector reads, query by query and outside any transaction, which rows *)
(* the foreign keys drag along; it gives up on the first row that protects *)
(* one of them; then one transaction deletes what was collected and sets   *)
(* the SET_NULL columns.  The foreign keys of the database only refuse: a  *)
(* commit that would leave a reference to no row fails.                    *)
(***************************************************************************)
EXTENDS Schema, FiniteSets

CONSTANTS
  Workers,    \* requests in flight at one time
  Rows,       \* primary keys, one for each row there ever is
  TableOf,    \* [Rows -> Tables]
  Birth,      \* [Rows -> [foreign key -> Rows or Null]], as the row is inserted
  Seeded,     \* the rows there are at first
  Edits,      \* what clients change with PUT and PATCH, [row, column, value]
  Null,       \* a column with no reference
  NoRow       \* no row with that primary key

VARIABLES
  refs,       \* [Rows -> its foreign keys or NoRow], committed
  unborn,     \* the rows that have not been inserted yet
  pc,         \* [Workers -> "idle", "collect", "delete" or "save"]
  object,     \* [Workers -> the row of get_object or NoRow]
  copy,       \* [Workers -> its foreign keys as fetched or NoRow]
  doomed      \* [Workers -> the rows the collector has found]

request == <<pc, object, copy, doomed>>
vars    == <<refs, unborn, request>>

\* The key of a StockLevel or StockMovement row.
StockKey(keys) == [f \in {"product", "variant", "warehouse"} |-> keys[f]]

\* The foreign keys of each row.
KeysOf == [r \in Rows |-> ForeignKeys[TableOf[r]]]

Columns(r) == DOMAIN KeysOf[r]

\* Rows with the foreign keys f of r may hold.
Values(r, f) == {s \in Rows : TableOf[s] = KeysOf[r][f].to} \union {Null}

Foreign(r, keys) ==
  /\ keys \in [Columns(r) -> Rows \union {Null}]
  /\ \A f \in Columns(r) : /\ keys[f] \in Values(r, f)
                           /\ keys[f] = Null => KeysOf[r][f].null

ASSUME RowsAssumption ==
  /\ TableOf \in [Rows -> Tables]
  /\ Null \notin Rows /\ NoRow \notin Rows
  /\ Seeded \subseteq Rows
  /\ \A r \in Rows : Birth[r] # NoRow /\ Foreign(r, Birth[r])
  /\ \A r \in Seeded : \A f \in Columns(r) : Birth[r][f] \in Seeded \union {Null}

\* Stock has its levels from the start.
ASSUME SeedAssumption ==
  \A m \in Seeded : TableOf[m] = "StockMovement" =>
    \E l \in Seeded : TableOf[l] = "StockLevel" /\ StockKey(Birth[l]) = StockKey(Birth[m])

\* The tables with a ModelViewSet: the others have no DELETE, PUT or PATCH.
Endpoints ==
  {"Role", "Category", "Unit", "Product", "Warehouse", "Branch",
   "StockTransfer", "BatchLot", "SerialNumber", "Customer", "SalesOrder",
   "POSSession", "Supplier", "PurchaseOrder", "ExpenseCategory", "Expense", "TaxRate"}

ASSUME EditsAssumption ==
  \A e \in Edits : /\ e.row \in Rows /\ TableOf[e.row] \in Endpoints
                   /\ e.column \in Columns(e.row)
                   /\ e.value \in Values(e.row, e.column)
                   /\ e.value = Null => KeysOf[e.row][e.column].null

Exists(r) == refs[r] # NoRow

\* The rows that refer to one of S by a foreign key with that rule.
By(rule, S) ==
  {r \in Rows : /\ Exists(r)
                /\ \E f \in Columns(r) : KeysOf[r][f].on_delete = rule /\ refs[r][f] \in S}

\* Tables nothing refers to are deleted by a query of their own, at the end.
ReferredTo == UNION {{ForeignKeys[t][f].to : f \in DOMAIN ForeignKeys[t]} : t \in Tables}

Leaf(r) == TableOf[r] \notin ReferredTo

\* Mutant: the database declares no foreign keys.
NothingDangles(after) == FALSE

\* The foreign keys of the database, checked at COMMIT.
Dangles(after) ==
  \E r \in Rows : /\ after[r] # NoRow
                  /\ \E f \in Columns(r) : after[r][f] # Null /\ after[after[r][f]] = NoRow

-----------------------------------------------------------------------------
Init ==
  /\ refs = [r \in Rows |-> IF r \in Seeded THEN Birth[r] ELSE NoRow]
  /\ unborn = Rows \ Seeded
  /\ pc = [w \in Workers |-> "idle"]
  /\ object = [w \in Workers |-> NoRow]
  /\ copy = [w \in Workers |-> NoRow]
  /\ doomed = [w \in Workers |-> {}]

\* get_object of a DELETE.
Destroy(w, r) ==
  /\ pc[w] = "idle"
  /\ TableOf[r] \in Endpoints
  /\ Exists(r)
  /\ pc' = [pc EXCEPT ![w] = "collect"]
  /\ object' = [object EXCEPT ![w] = r]
  /\ doomed' = [doomed EXCEPT ![w] = {r}]
  /\ UNCHANGED <<refs, unborn, copy>>

\* The next level of related rows; leaf tables need not be read.
Collect(w) ==
  LET more == {r \in By("CASCADE", doomed[w]) : ~Leaf(r)}
  IN  /\ pc[w] = "collect"
      /\ By("PROTECT", doomed[w]) = {}
      /\ IF more \subseteq doomed[w]
           THEN /\ pc' = [pc EXCEPT ![w] = "delete"]
                /\ UNCHANGED doomed
           ELSE /\ doomed' = [doomed EXCEPT ![w] = @ \union more]
                /\ UNCHANGED pc
      /\ UNCHANGED <<refs, unborn, object, copy>>

Respond(w) ==
  /\ pc' = [pc EXCEPT ![w] = "idle"]
  /\ object' = [object EXCEPT ![w] = NoRow]
  /\ copy' = [copy EXCEPT ![w] = NoRow]
  /\ doomed' = [doomed EXCEPT ![w] = {}]

\* ProtectedError.
Protected(w) ==
  /\ pc[w] = "collect"
  /\ By("PROTECT", doomed[w]) # {}
  /\ Respond(w)
  /\ UNCHANGED <<refs, unborn>>

\* What goes: the rows collected, and those of leaf tables that refer to them now.
Removed(w) == doomed[w] \union {r \in By("CASCADE", doomed[w]) : Leaf(r)}

\* The rows as the transaction would leave them.
AfterDelete(w) ==
  LET removed == Removed(w)
  IN  [r \in Rows |->
     IF ~Exists(r) \/ r \in removed THEN NoRow
     ELSE [f \in Columns(r) |->
             IF KeysOf[r][f].on_delete = "SET_NULL" /\ refs[r][f] \in doomed[w]
               THEN Null ELSE refs[r][f]]]

Delete(w) ==
  /\ pc[w] = "delete"
  /\ ~Dangles(AfterDelete(w))
  /\ refs' = AfterDelete(w)
  /\ Respond(w)
  /\ UNCHANGED unborn

\* IntegrityError: a row that refers to the doomed came after the collector.
DeleteConflict(w) ==
  /\ pc[w] = "delete"
  /\ Dangles(AfterDelete(w))
  /\ Respond(w)
  /\ UNCHANGED <<refs, unborn>>

\* get_object of a PUT or PATCH.
Fetch(w, r) ==
  /\ pc[w] = "idle"
  /\ TableOf[r] \in Endpoints
  /\ Exists(r)
  /\ pc' = [pc EXCEPT ![w] = "save"]
  /\ object' = [object EXCEPT ![w] = r]
  /\ copy' = [copy EXCEPT ![w] = refs[r]]
  /\ UNCHANGED <<refs, unborn, doomed>>

AfterSave(w, edit) == [refs EXCEPT ![edit.row] = [copy[w] EXCEPT ![edit.column] = edit.value]]

\* save() writes every column as fetched, and inserts the row if it has gone.
Save(w, edit) ==
  /\ pc[w] = "save"
  /\ edit.row = object[w]
  /\ ~Dangles(AfterSave(w, edit))
  /\ refs' = AfterSave(w, edit)
  /\ Respond(w)
  /\ UNCHANGED unborn

SaveConflict(w, edit) ==
  /\ pc[w] = "save"
  /\ edit.row = object[w]
  /\ Dangles(AfterSave(w, edit))
  /\ Respond(w)
  /\ UNCHANGED <<refs, unborn>>

\* An INSERT of rows that refer to each other and to rows there are.
Insert(rows) ==
  LET after == [r \in Rows |-> IF r \in rows THEN Birth[r] ELSE refs[r]]
  IN  /\ rows \subseteq unborn
      /\ ~Dangles(after)
      /\ refs' = after
      /\ unborn' = unborn \ rows
      /\ UNCHANGED request

\* POST to one of the ModelViewSets, add_variant, bundle items and the like.
Create(r) ==
  /\ TableOf[r] # "StockMovement" /\ TableOf[r] # "StockLevel"
  /\ Insert({r})

LevelOf(m) == {l \in Rows : /\ TableOf[l] = "StockLevel" /\ Exists(l)
                            /\ StockKey(refs[l]) = StockKey(Birth[m])}

\* adjust_stock: the movement, in the transaction of get_or_create's row lock.
Move(m) ==
  /\ TableOf[m] = "StockMovement"
  /\ LevelOf(m) # {}
  /\ Insert({m})

\* The first movement of a key inserts the level with it.
MoveFirst(m, l) ==
  /\ TableOf[m] = "StockMovement" /\ TableOf[l] = "StockLevel"
  /\ StockKey(Birth[l]) = StockKey(Birth[m])
  /\ LevelOf(m) = {}
  /\ Insert({m, l})

Next ==
  \/ \E w \in Workers :
       \/ \E r \in Rows : Destroy(w, r) \/ Fetch(w, r)
       \/ Collect(w) \/ Protected(w) \/ Delete(w) \/ DeleteConflict(w)
       \/ \E e \in Edits : Save(w, e) \/ SaveConflict(w, e)
  \/ \E r \in Rows : Create(r) \/ Move(r)
  \/ \E m, l \in Rows : MoveFirst(m, l)

Spec == Init /\ [][Next]_vars

-----------------------------------------------------------------------------
(* Properties.                                                             *)

\* Every row has its table's columns, and NULL only where the schema allows it,
\* so no deletion sets a column to NULL that must have a value.
TypeOK ==
  /\ DOMAIN refs = Rows
  /\ \A r \in Rows : Exists(r) => Foreign(r, refs[r])
  /\ unborn \subseteq Rows /\ \A r \in unborn : ~Exists(r)
  /\ pc \in [Workers -> {"idle", "collect", "delete", "save"}]
  /\ object \in [Workers -> Rows \union {NoRow}]
  /\ DOMAIN copy = Workers
  /\ \A w \in Workers : pc[w] = "save" =>
       /\ object[w] \in Rows \ unborn
       /\ Foreign(object[w], copy[w])
  /\ doomed \in [Workers -> SUBSET Rows]

\* The history of a stock key is never without its quantity: a deletion of the
\* product, variant or warehouse that would take the StockLevel row is refused
\* when the key has a movement, by the collector or, when the movement came
\* after it had looked, by the database (inventory/models.py:19, 91).
HistoryHasLevel ==
  \A m \in Rows : TableOf[m] = "StockMovement" /\ Exists(m) =>
    \E l \in Rows : /\ TableOf[l] = "StockLevel" /\ Exists(l)
                    /\ StockKey(refs[l]) = StockKey(refs[m])

\* Movements are immutable: no request deletes or rewrites one
\* (inventory/models.py:62, "Immutable").
MovementsKept ==
  [][\A m \in Rows : TableOf[m] = "StockMovement" /\ Exists(m) => refs'[m] = refs[m]]_vars

-----------------------------------------------------------------------------
(* The inductive invariant behind them.                                    *)

\* No request touches the foreign keys of a level or of a movement.
StockRowsFixed ==
  \A r \in Rows : TableOf[r] \in {"StockLevel", "StockMovement"} /\ Exists(r) =>
    refs[r] = Birth[r]

\* The collector never comes to a user, a tenant or a movement, and to a level
\* only from the product, the variant or the warehouse it refers to.
DoomedHasCause ==
  \A w \in Workers : \A r \in doomed[w] :
    /\ TableOf[r] \notin {"User", "Tenant", "StockMovement"}
    /\ TableOf[r] = "StockLevel" =>
         \E f \in {"product", "variant", "warehouse"} : Birth[r][f] \in doomed[w]

DInv ==
  /\ TypeOK
  /\ HistoryHasLevel
  /\ StockRowsFixed
  /\ DoomedHasCause
=============================================================================
