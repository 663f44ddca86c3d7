---------------------------- MODULE MCDeletion ----------------------------
(* An instance of Deletion for TLC: one tenant with a product, a variant of *)
(* it, a warehouse, a branch and an order; its line, a lot and two stock    *)
(* movements come while requests delete and edit.                           *)
EXTENDS Deletion, TLC

CONSTANTS u, t, p, v, wh, b, o, l, m1, m2, line, lot

MCTableOf ==
  u :> "User" @@ t :> "Tenant" @@ p :> "Product" @@
  v :> "ProductVariant" @@ wh :> "Warehouse" @@ b :> "Branch" @@
  o :> "SalesOrder" @@ l :> "StockLevel" @@
  m1 :> "StockMovement" @@ m2 :> "StockMovement" @@ line :> "SalesOrderItem" @@ lot :> "BatchLot"

MCMovement ==
  [performed_by |-> u, product |-> p, tenant |-> t, variant |-> v, warehouse |-> wh]

MCBirth ==
  u    :> User @@
  t    :> [owner |-> u] @@
  p    :> [category |-> Null, tenant |-> t, unit |-> Null] @@
  v    :> [product |-> p, tenant |-> t] @@
  wh   :> [manager |-> u, tenant |-> t] @@
  b    :> [manager |-> Null, tenant |-> t, warehouse |-> wh] @@
  o    :> [assigned_to |-> u, branch |-> b, created_by |-> u, customer |-> Null,
           pos_session |-> Null, tenant |-> t, warehouse |-> wh] @@
  l    :> [product |-> p, tenant |-> t, variant |-> v, warehouse |-> wh] @@
  m1   :> MCMovement @@ m2 :> MCMovement @@
  line :> [order |-> o, product |-> p, tenant |-> t, variant |-> v] @@
  lot  :> [product |-> p, tenant |-> t, warehouse |-> wh]

MCSeeded == {u, t, p, v, wh, b, o}

\* Edits of a product and of an order that do not touch what was deleted.
MCEdits == {[row |-> p, column |-> "unit", value |-> Null],
            [row |-> o, column |-> "assigned_to", value |-> Null]}

Symmetric == Permutations(Workers) \union Permutations({m1, m2})
=============================================================================
