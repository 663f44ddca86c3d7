SPECIFICATION ReportsSpec
CONSTANTS
  Jobs = {w1, w2}
  Sales = {o1}
  Expenses = {e1}
  Amounts = {0, 1}
  MaxDay = 2
  TTL = 3
  Timeout = 2
  MaxTime = 9
  Mixes <- MCLoads
  Absent = Absent
SYMMETRY WorkerSymmetry
CHECK_DEADLOCK FALSE
INVARIANTS SummaryExplained OverviewIsRecent ApprovedByApprover
