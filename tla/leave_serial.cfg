SPECIFICATION Spec
CONSTANTS
  emp = emp
  boss = boss
  l1 = l1
  l2 = l2
  l3 = l3
  b1 = b1
  b2 = b2
  w1 = w1
  w2 = w2
  Request = {w1}
  Person = {emp, boss}
  Ceo = {boss}
  Leave = {l1, l3}
  Balance = {b1, b2}
  Owner <- MCOwner
  MayReview <- MCMayReview
  BalanceOf <- MCBalanceOf
  MaxDays <- MCMaxDays
  Emergency = {}
  DaysCount <- MCDaysCount
  Totals = {1}
  LastDay = 2
  Dates <- MCDates
  Corrections = {}
PROPERTIES LifecycleSpec
CHECK_DEADLOCK FALSE
