SPECIFICATION TillSpec
CONSTANTS
  Workers = {w1, w2}
  Sessions = {s1, s2, s3}
  Cashiers = {c1, c2}
  Orders = {o1}
  Floats = {1}
  Payments = {p1}
  Loads <- MCLoads
  None = None
SYMMETRY Symmetric
CHECK_DEADLOCK FALSE
INVARIANTS VarianceExplained OpenSessionsBounded
