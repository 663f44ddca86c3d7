SPECIFICATION Spec
CONSTANTS
  p1 = p1
  tea = tea
  north = north
  south = south
  Workers = {w1, w2}
  Orders = {p1}
  Warehouses = {north, south}
  Products = {tea}
  WarehouseOf <- MCWarehouseOf
  Items <- MCTwoLines
  OpeningStock <- MCOpeningStock
  Given = {1, 2}
  Edits = {"sent"}
  MaxLedger = 3
  NoOrder = NoOrder
CHECK_DEADLOCK FALSE
SYMMETRY WorkerSymmetry
INVARIANTS TypeOK ReceivedWithinOrdered ReceivedIsStocked StockIsRecorded StatusFollowsItems
