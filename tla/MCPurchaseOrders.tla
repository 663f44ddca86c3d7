------------------------- MODULE MCPurchaseOrders -------------------------
(* Instances of PurchaseOrders for TLC.                                    *)
EXTENDS PurchaseOrders, TLC

CONSTANTS p1, tea, north, south

MCWarehouseOf == [p \in Orders |-> north]

MCTwoLines == [p \in Orders |-> <<[product |-> tea, qty |-> 1], [product |-> tea, qty |-> 2]>>]

MCOpeningStock == [k \in Keys |-> 0]

WorkerSymmetry == Permutations(Workers)
=============================================================================
