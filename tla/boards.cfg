CONSTANTS
  w1 = w1
  w2 = w2
  t1 = t1
  t2 = t2
  t3 = t3
  i1 = i1
  nobody = nobody
  Request = {w1, w2}
  Item = {i1}
  App = {"todos", "followups", "meetings", "social"}
  NoState = NoState
  Gone = Gone
  MaxTrail = 2
  MaxDeletions = 1
SPECIFICATION BoardsSpec
SYMMETRY Symmetry
INVARIANTS
  BoardHolds
PROPERTIES
  ImplementsBoard  TicketsAgree
CHECK_DEADLOCK FALSE
