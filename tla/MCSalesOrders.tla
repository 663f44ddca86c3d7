--------------------------- MODULE MCSalesOrders ---------------------------
(* Instances of SalesOrders for TLC.                                       *)
EXTENDS SalesOrders, TLC

CONSTANTS o1, o2, c1, c2, a1, a2, p1

MCCustomerOf   == [o \in Orders |-> c1]
MCWarehouseOf  == [o \in Orders |-> a1]
MCLines        == [o \in Orders |-> <<[product |-> p1, qty |-> 1]>>]
MCTotal        == [o \in Orders |-> 3]
MCOpeningStock == [k \in Keys |-> 1]

WorkerSymmetry == Permutations(Workers)

\* A field no property is about; with the whole row it writes back.
MCNotes == {[field |-> "notes", value |-> "x"]}

\* A status that can be confirmed again, one cancel_order does not restock, and
\* the other warehouse.
MCStatusEdits ==
  MCNotes \union {[field |-> "status", value |-> s] : s \in {"draft", "packed"}}
MCMoves == MCNotes \union {[field |-> "warehouse", value |-> a2]}

\* Clients that make an order another customer's, or nobody's.
MCSales == MCNotes \union {[field |-> "customer", value |-> c] : c \in {c2, NoCustomer}}

\* One order through its life cycle, with clients that set its status.
MCLifeCycle == [orders |-> {o1}, calls |-> Handlers \ {"pay"}, edits |-> MCStatusEdits,
                customers |-> {}, pays |-> [o \in Orders |-> 0], posts |-> 2]

\* The same, with clients that send it to the other warehouse.
MCMoved == [MCLifeCycle EXCEPT !.edits = MCMoves]

\* Two orders of one customer being paid.
MCPayments == [orders |-> {o1, o2}, calls |-> {"pay", "update", "destroy"}, edits |-> MCNotes,
               customers |-> {}, pays |-> [o \in Orders |-> IF o = o1 THEN 2 ELSE 1],
               posts |-> 0]

\* An order that changes customers between payments, and a customer being edited.
MCResold == [orders |-> {o1}, calls |-> {"pay", "update"}, edits |-> MCSales,
             customers |-> {c1}, pays |-> [o \in Orders |-> 2], posts |-> 0]

MCLoads == {MCLifeCycle, MCMoved, MCPayments, MCResold}

\* One order whose status no client sets.
MCUnedited == {[MCLifeCycle EXCEPT !.edits = MCNotes]}
=============================================================================
