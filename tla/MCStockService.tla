-------------------------- MODULE MCStockService --------------------------
(* Instances of StockService for TLC: two workers, and calls that meet on   *)
(* two keys in opposite orders, on one key with duplicate rows, or around   *)
(* the reorder point of one key.                                            *)
EXTENDS StockService

CONSTANTS k1, k2, k3, k4

Line(k, q) == [key |-> k, qty |-> q]

MCReorderPoint == [k \in Keys |-> 1]
MCSlot         == {1}
MCTwoSlots     == {1, 2}

\* Two keys: a receipt and a sale that take the row locks in opposite orders,
\* a transfer, a transfer the service refuses, a line with quantity zero, and
\* reservations of one of the keys.
MCTwoKeys ==
  { process_purchase_receipt(<<Line(k1, 1), Line(k2, 1)>>),
    process_sale(<<Line(k2, 1), Line(k1, 1)>>),
    transfer_stock(k1, k2, 1),
    transfer_stock(k1, k1, 1),
    process_sale(<<Line(k1, 0)>>),
    reserve_stock(k1, 1),
    release_reservation(k1, 1) }

\* The calls of MCTwoKeys that wait for one another.
MCLockOrder == {r \in MCTwoKeys : r.op # "release" /\ Accepted(r) /\ r.items[1].qty # 0}

\* Around the reorder point of one key: a sale the second line of which may be
\* refused after the alert of the first was queued.
MCReorder ==
  { adjust_stock(k4, 1),
    process_sale(<<Line(k4, 1), Line(k4, 1)>>) }

\* A key with variant NULL: stock in and out, and two sizes of reservation.
MCNullVariant ==
  { adjust_stock(k3, 2),
    adjust_stock(k3, -1),
    reserve_stock(k3, 1),
    reserve_stock(k3, 2),
    release_reservation(k3, 2) }

MCRequests  == MCTwoKeys \union MCNullVariant \union MCReorder
MCLoads     == {MCTwoKeys, MCNullVariant, MCReorder}
MCLockLoads == {MCLockOrder}
=============================================================================
