SPECIFICATION FairSpec
CONSTANTS
  Cmds = {c1, c2}
  Conns = {k1, k2}
  MaxFaults = 1
  c1 = c1
  c2 = c2
  k1 = k1
  k2 = k2
INVARIANTS
  ExecutedOnce
  LostForCause
PROPERTIES
  PendingDelivered
\* Every command is settled, and the client may wait for ever.
CHECK_DEADLOCK FALSE
