SPECIFICATION SheetsSpec
CONSTANTS
  w1 = w1
  w2 = w2
  e1 = e1
  e2 = e2
  d1 = d1
  pm = pm
  q1 = q1
  q2 = q2
  nobody = nobody
  Parts = {"week"}
  Request = {w1}
  Log = {e1}
  DaysPerWeek = 1
  LastWeek = 1
  Hours = {1, 2}
  OpenDays = {1}
  Reviewer = {pm}
  Trusted = {}
  MayLog <- MCMayLog
  Manages <- MCManages
PROPERTIES ClosedSheetsKeepLogs
CHECK_DEADLOCK FALSE
