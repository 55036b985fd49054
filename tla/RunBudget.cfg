SPECIFICATION BudgetSpec
CONSTANTS
  Attempts = {1, 2}
  Children = {c1, c2}
  Recorders = {r1, r2}
  Invocations = {i1, i2}
  Reconcilers = {w1}
  ReceiptKeys = {x1, x2}
  Dims = {"turns", "cost_nanos"}
  Limit <- MCLimit
  Grants <- MCGrants
  Reports <- MCReports
  Nobody = Nobody
  Results = {o1, o2}
  MaxLeases = 1
  MaxRows = 4
SYMMETRY BudgetSymmetry
INVARIANTS
  BudgetTypeOK
  BudgetIsKept
CHECK_DEADLOCK FALSE
