SPECIFICATION Spec
CONSTANTS
  o1 = o1
  o2 = o2
  c1 = c1
  c2 = c2
  a1 = a1
  a2 = a2
  p1 = p1
  Workers = {w1, w2}
  Orders = {o1}
  Customers = {c1}
  Warehouses = {a1}
  Products = {p1}
  CustomerOf <- MCCustomerOf
  WarehouseOf <- MCWarehouseOf
  Lines <- MCLines
  Total <- MCTotal
  OpeningStock <- MCOpeningStock
  Amounts = {1}
  Loads <- MCUnedited
  MaxPaid = 2
  NoOrder = NoOrder
  NoCustomer = NoCustomer
CHECK_DEADLOCK FALSE
INVARIANTS SoldOnce
