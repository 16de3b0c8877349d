SPECIFICATION SheetsSpec
CONSTANTS
  w1 = w1
  w2 = w2
  e1 = e1
  e2 = e2
  d1 = d1
  pm = pm
  q1 = q1
  q2 = q2
  nobody = nobody
  Parts = {"week", "weeks", "views", "chart", "offers", "capacity"}
  Request = {w1, w2}
  Log = {e1, e2}
  DaysPerWeek = 1
  LastWeek = 1
  Hours = {1}
  OpenDays = {1}
  Reviewer = {pm}
  Trusted = {}
  MayLog <- MCMayLog
  Manages <- MCManages
INVARIANTS SheetAgrees ScreensAgree
PROPERTIES Sealed WeeksAgree
SYMMETRY Symmetry
CHECK_DEADLOCK FALSE
