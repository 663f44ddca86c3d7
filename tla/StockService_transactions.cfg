SPECIFICATION Spec
CONSTANTS
  k1 = k1
  k2 = k2
  k3 = k3
  k4 = k4
  Workers = {w1, w2}
  Keys = {k1, k2, k3, k4}
  NullVariantKeys = {k3}
  Slots <- MCTwoSlots
  Requests <- MCRequests
  Loads <- MCLoads
  ReorderPoint <- MCReorderPoint
  Tracked = {k4}
  MaxLedger = 2
  NoRow = NoRow
  NoWorker = NoWorker
INVARIANTS LedgerAgrees NeverNegative LowStockAlerted IInv QuantityConserved
PROPERTIES KeepsPromise ReserveWithinAvailable
