\* A single run and a single lost reply.
SPECIFICATION Spec
CONSTANTS
  Strategies = {a}
  Rows = {w1}
  Intents = {i1, i2, i3}
  Runs = {r1}
  MaxTries = 2
  MaxCrashes = 0
  MaxLost = 1
  a = a
  b = b
  w1 = w1
  w2 = w2
  i1 = i1
  i2 = i2
  i3 = i3
  i4 = i4
  r1 = r1
  r2 = r2
INVARIANTS
  NeverTwoLive
