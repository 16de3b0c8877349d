SPECIFICATION Spec
CONSTANTS
  emp = emp
  boss = boss
  l1 = l1
  l2 = l2
  l3 = l3
  b1 = b1
  b2 = b2
  w1 = w1
  w2 = w2
  Request = {w1}
  Person = {emp, boss}
  Ceo = {}
  Leave = {l1}
  Balance = {b1}
  Owner <- MCOwner
  MayReview <- MCMayReview
  BalanceOf <- MCBalanceOf
  MaxDays <- MCMaxDays
  Emergency = {l1}
  DaysCount <- MCDaysCount
  Totals = {1}
  LastDay = 1
  Dates <- MCDates
  Corrections = {}
INVARIANTS EmergencyNotCharged


CHECK_DEADLOCK FALSE
