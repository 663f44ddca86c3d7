SPECIFICATION Spec
CONSTANTS
  u = u
  t = t
  p = p
  v = v
  wh = wh
  b = b
  o = o
  l = l
  m1 = m1
  m2 = m2
  line = line
  lot = lot
  Workers = {w1, w2}
  Rows = {u, t, p, v, wh, b, o, l, m1, m2, line, lot}
  TableOf <- MCTableOf
  Birth <- MCBirth
  Seeded <- MCSeeded
  Edits <- MCEdits
  Null = Null
  NoRow = NoRow
SYMMETRY Symmetric
CHECK_DEADLOCK FALSE
INVARIANTS HistoryHasLevel DInv
PROPERTIES MovementsKept
