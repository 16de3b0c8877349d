SPECIFICATION BillingSpec
CONSTANTS
  w1 = w1
  w2 = w2
  x1 = x1
  x2 = x2
  y1 = y1
  y2 = y2
  m1 = m1
  p1 = p1
  a1 = a1
  Parts = {"paid", "moved", "plans", "bills", "receipts"}
  None = None
  Request = {w1, w2}
  Milestone = {m1}
  Invoice = {y1, y2}
  Payment = {p1}
  Allocation = {a1}
  Amount = {1}
  Edited = {m1}
  Removed = {y1, y2, a1}
  Tax <- MCNoTax
  Budget = 4
  Tolerance = 1
  MaxEntries = 1
  MaxDepth = 4
INVARIANTS RowsAgree
PROPERTIES
  PaidWhenReceived MilestoneReleases WithinAmounts
SYMMETRY Symmetry
CHECK_DEADLOCK FALSE
