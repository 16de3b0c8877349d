SPECIFICATION ClaimsSpec
CONSTANTS
  w1 = w1
  w2 = w2
  c1 = c1
  x1 = x1
  x2 = x2
  None = None
  Request = {w1, w2}
  Claim = {c1}
  Expense = {x1, x2}
  Manual = {x1, x2}
  Amount = {1, 2}
INVARIANTS BooksAgree
PROPERTIES DecidedOnce
SYMMETRY Symmetry
CHECK_DEADLOCK FALSE
