SPECIFICATION Spec
CONSTANTS
  north = north
  south = south
  tea = tea
  t1 = t1
  t2 = t2
  t3 = t3
  Workers = {w1, w2}
  Transfers = {t1, t2, t3}
  Warehouses = {north, south}
  Products = {tea}
  RouteOf <- MCRouteOf
  Items <- MCItems
  OpeningStock <- MCOpeningStock
  Loads <- MCLoads
  NoTransfer = NoTransfer
SYMMETRY WorkerSymmetry
CHECK_DEADLOCK FALSE
INVARIANTS TypeOK ReservationsMatch ReceivedIsMoved
