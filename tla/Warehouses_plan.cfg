SPECIFICATION WarehousesSpec
CONSTANTS
  Workers = {w1, w2, w3}
  Rows = {main, r1, r2, r3, r4}
  Main = main
  MaxWarehouses = 2
  NoWarehouse = NoWarehouse
SYMMETRY WorkerSymmetry
CHECK_DEADLOCK FALSE
INVARIANTS WithinPlan DefaultsBounded
