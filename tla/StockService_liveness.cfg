SPECIFICATION FairSpec
CONSTANTS
  k1 = k1
  k2 = k2
  k3 = k3
  k4 = k4
  Workers = {w1, w2}
  Keys = {k1, k2}
  NullVariantKeys = {}
  Slots <- MCSlot
  Requests <- MCLockOrder
  Loads <- MCLockLoads
  ReorderPoint <- MCReorderPoint
  Tracked = {}
  MaxLedger = 2
  NoRow = NoRow
  NoWorker = NoWorker
PROPERTIES CallsEnd
