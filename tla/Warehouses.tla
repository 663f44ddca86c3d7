----------------------------- MODULE Warehouses -----------------------------
(***************************************************************************)
(* The warehouses of one tenant: the plan's limit on their number, counted *)
(* before the insert, and the default flag, cleared before the save.  No   *)
(* transaction joins the steps: other requests run between any two.        *)
(***************************************************************************)
EXTENDS Integers, FiniteSets

CONSTANTS
  Workers,         \* requests in flight at one time
  Rows,            \* primary keys, each drawn once
  Main,            \* the "MAIN" warehouse of create_tenant_with_owner
  MaxWarehouses,   \* tenant.max_warehouses
  NoWarehouse

ASSUME WarehousesAssumption ==
  /\ Main \in Rows /\ NoWarehouse \notin Rows
  /\ MaxWarehouses \in Nat
  /\ IsFiniteSet(Workers) /\ Workers # {}

VARIABLES
  warehouses,      \* the Warehouse rows there are
  defaults,        \* those with is_default
  unused,          \* primary keys not drawn yet
  pc,              \* [Workers -> "idle", "checked", "fetched", "cleared"]
  target,          \* [Workers -> the row it writes, or NoWarehouse]
  flag             \* [Workers -> the is_default it writes]

request == <<pc, target, flag>>
warehousesVars == <<warehouses, defaults, unused, request>>

-----------------------------------------------------------------------------
WarehousesInit ==
  /\ warehouses = {Main} /\ defaults = {Main}
  /\ unused = Rows \ {Main}
  /\ pc = [w \in Workers |-> "idle"]
  /\ target = [w \in Workers |-> NoWarehouse]
  /\ flag = [w \in Workers |-> FALSE]

Begin(w, state, r, is_default) ==
  /\ pc[w] = "idle"
  /\ pc' = [pc EXCEPT ![w] = state]
  /\ target' = [target EXCEPT ![w] = r]
  /\ flag' = [flag EXCEPT ![w] = is_default]

Respond(w) ==
  /\ pc' = [pc EXCEPT ![w] = "idle"]
  /\ target' = [target EXCEPT ![w] = NoWarehouse]
  /\ flag' = [flag EXCEPT ![w] = FALSE]

\* Mutant: one past the limit.
RoomAtLimit == MaxWarehouses = 0 \/ Cardinality(warehouses) <= MaxWarehouses

\* A limit of zero is no limit.
Room == MaxWarehouses = 0 \/ Cardinality(warehouses) < MaxWarehouses

\* POST: perform_create counts and checks the plan; a refusal changes nothing.
Check(w, r, is_default) ==
  /\ Room
  /\ r \in unused
  /\ Begin(w, "checked", r, is_default)
  /\ unused' = unused \ {r}
  /\ UNCHANGED <<warehouses, defaults>>

\* PUT and PATCH: get_object, and the flag as fetched or as the client sets it.
Fetch(w, r, is_default) ==
  /\ r \in warehouses
  /\ Begin(w, "fetched", r, is_default)
  /\ UNCHANGED <<warehouses, defaults, unused>>

\* Mutant: the flag is cleared on the other rows only if this one had it.
ClearOwn(w) ==
  /\ pc[w] \in {"checked", "fetched"}
  /\ flag[w]
  /\ pc' = [pc EXCEPT ![w] = "cleared"]
  /\ defaults' = IF target[w] \in defaults THEN {} ELSE defaults
  /\ UNCHANGED <<warehouses, unused, target, flag>>

\* Warehouse.save of a default: first no warehouse of the tenant has the flag.
Clear(w) ==
  /\ pc[w] \in {"checked", "fetched"}
  /\ flag[w]
  /\ pc' = [pc EXCEPT ![w] = "cleared"]
  /\ defaults' = {}
  /\ UNCHANGED <<warehouses, unused, target, flag>>

\* Then the row is written, inserted if it is new or has gone meanwhile.
Save(w) ==
  /\ IF flag[w] THEN pc[w] = "cleared" ELSE pc[w] \in {"checked", "fetched"}
  /\ warehouses' = warehouses \union {target[w]}
  /\ defaults' = IF flag[w] THEN defaults \union {target[w]} ELSE defaults \ {target[w]}
  /\ Respond(w)
  /\ UNCHANGED unused

\* The request dies between its steps, or its INSERT repeats a code.
Fail(w) ==
  /\ pc[w] # "idle"
  /\ Respond(w)
  /\ UNCHANGED <<warehouses, defaults, unused>>

Destroy(r) ==
  /\ r \in warehouses
  /\ warehouses' = warehouses \ {r}
  /\ defaults' = defaults \ {r}
  /\ UNCHANGED <<unused, request>>

WarehousesNext ==
  \/ \E w \in Workers :
       \/ \E r \in Rows, is_default \in BOOLEAN :
            Check(w, r, is_default) \/ Fetch(w, r, is_default)
       \/ Clear(w) \/ Save(w) \/ Fail(w)
  \/ \E r \in Rows : Destroy(r)

WarehousesSpec == WarehousesInit /\ [][WarehousesNext]_warehousesVars

-----------------------------------------------------------------------------
(* Properties.                                                             *)

WarehousesTypeOK ==
  /\ warehouses \subseteq Rows /\ defaults \subseteq warehouses
  /\ unused \subseteq Rows \ warehouses
  /\ pc \in [Workers -> {"idle", "checked", "fetched", "cleared"}]
  /\ target \in [Workers -> Rows \union {NoWarehouse}]
  /\ flag \in [Workers -> BOOLEAN]
  /\ \A w \in Workers : pc[w] # "idle" => target[w] \in Rows \ unused

\* "within plan limits" (warehouses/models.py:8) holds up to the requests that
\* overlap: each may have been counted before the others' insert, and a save
\* that overlaps a delete puts the row back.
WithinPlan ==
  MaxWarehouses # 0 => Cardinality(warehouses) < MaxWarehouses + Cardinality(Workers)

\* "Ensure only one default per tenant" (warehouses/models.py:34): one for each
\* request there may be at a time, so one when requests do not overlap.
DefaultsBounded == Cardinality(defaults) <= Cardinality(Workers)

-----------------------------------------------------------------------------
(* The inductive invariant behind them.                                    *)

Busy == {w \in Workers : pc[w] # "idle"}

\* The rows there are and those that requests in flight may add.
Planned == warehouses \union {target[w] : w \in Busy}

\* The requests that have cleared the flag and have yet to set it.
Setting == {w \in Workers : pc[w] = "cleared"}

WInv ==
  /\ WarehousesTypeOK
  /\ IsFiniteSet(warehouses)
  /\ MaxWarehouses # 0 => Cardinality(Planned) < MaxWarehouses + Cardinality(Workers)
  /\ Cardinality(defaults) + Cardinality(Setting) <= Cardinality(Workers)
=============================================================================
