SPECIFICATION FairSpec
CONSTANTS
  Orders = {o1}
  Jobs = {j1}
  Monitor = monitor
  Notices = {}
  MaxLevel = 2
  Limit = 1
  MaxEvents = 1
  o1 = o1
  j1 = j1
  j2 = j2
  n1 = n1
INVARIANTS
  SwitchExact
PROPERTIES
  BuysBlocked
  LossTriggers
