SPECIFICATION FreshnessSpec
CONSTANTS
  LastTradeDay = 3
INVARIANTS
  CurrentEnters
\* The simulated days end.
CHECK_DEADLOCK FALSE
