SPECIFICATION PeopleSpec
CONSTANTS
  w1 = w1
  w2 = w2
  Unset = Unset
  Request = {w1, w2}
  BreakType = {"TEA"}
  BreakMax <- OneUnit
  DayEnd = 2
  FullDay = 6
  Tolerance = 1
  LateOut = 2
  Shifts <- OneShift
  Corrections <- OneCorrection
  MaxBreaks = 2
SYMMETRY Symmetry
INVARIANTS BreaksAreKept LastDecisionRules PayslipIsRight
PROPERTIES ClockedAroundTheShift ApprovalIsCarriedOut PaidOnlyAsApproved
CHECK_DEADLOCK FALSE
