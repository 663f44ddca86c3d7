------------------------- MODULE MCStockTransfers -------------------------
(* Instances of StockTransfers for TLC.                                    *)
EXTENDS StockTransfers, TLC

CONSTANTS north, south, tea, t1, t2, t3

Southward == [from |-> north, to |-> south]
Northward == [from |-> south, to |-> north]

Line(n) == [product |-> tea, qty |-> n]

MCRouteOf == [t \in Transfers |-> Southward]

\* One transfer of two lines, and two of one line that hold the same stock.
MCItems == [t \in Transfers |-> IF t = t1 THEN <<Line(1), Line(2)>> ELSE <<Line(1)>>]

MCOpeningStock == [k \in Keys |-> IF k[1] = north THEN 3 ELSE 1]

\* The two lines, received in part, while the stock is sold and a client sets
\* the status.
MCTwoLines == [transfers |-> {t1}, given |-> {0, 1}, edits |-> {"in_transit"},
               routes |-> {}, adjustments |-> {-1}, movements |-> 4]

\* The two transfers at once.
MCTwoTransfers == [transfers |-> {t2, t3}, given |-> {}, edits |-> {},
                   routes |-> {}, adjustments |-> {}, movements |-> 3]

\* A transfer that a client turns round, or sends from a warehouse to itself.
MCTurned == [transfers |-> {t2}, given |-> {}, edits |-> {},
             routes |-> {Northward, [from |-> south, to |-> south]},
             adjustments |-> {}, movements |-> 2]

MCLoads == {MCTwoLines, MCTwoTransfers, MCTurned}

WorkerSymmetry == Permutations(Workers)
=============================================================================
