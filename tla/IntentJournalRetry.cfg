\* One strategy, cycles that are tried again, fair runs.
SPECIFICATION FairSpec
CONSTANTS
  Strategies = {a}
  Rows = {w1}
  Intents = {i1, i2}
  Runs = {r1, r2}
  MaxTries = 2
  MaxCrashes = 1
  MaxLost = 1
  a = a
  b = b
  w1 = w1
  w2 = w2
  i1 = i1
  i2 = i2
  i3 = i3
  i4 = i4
  r1 = r1
  r2 = r2
PROPERTIES
  OrdersOnce
  StuckIntentsClose
