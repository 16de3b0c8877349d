SPECIFICATION BillingSpec
CONSTANTS
  w1 = w1
  w2 = w2
  x1 = x1
  x2 = x2
  y1 = y1
  y2 = y2
  m1 = m1
  p1 = p1
  a1 = a1
  Parts = {"paid"}
  None = None
  Request = {w1}
  Milestone = {}
  Invoice = {m1}
  Payment = {p1}
  Allocation = {y1, y2}
  Amount = {1, 3}
  Edited = {}
  Removed = {}
  Tax <- MCTax
  Budget = 4
  Tolerance = 1
  MaxEntries = 2
  MaxDepth = 4
PROPERTIES EntriesWithinPending
SYMMETRY Symmetry
CHECK_DEADLOCK FALSE
