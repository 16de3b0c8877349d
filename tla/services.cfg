SPECIFICATION FairSpec
CONSTANTS
  w1 = w1
  w2 = w2
  clerk = clerk
  syncer = syncer
  Nobody = Nobody
  Request = {w1, w2}
  Worker = {syncer}
  Person = {1, 2}
  Event <- Events
  Joiner = {1}
INVARIANTS ToldAndLogged
PROPERTIES EverybodyIsTold AccountsAreMirrored MessagesAreTrue
CHECK_DEADLOCK FALSE
