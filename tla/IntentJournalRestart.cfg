\* Two runs, two strategies, equal and different orders, a crash, a lost reply.
SPECIFICATION Spec
CONSTANTS
  Strategies = {a, b}
  Rows = {w1, w2}
  Intents = {i1, i2}
  Runs = {r1, r2}
  MaxTries = 1
  MaxCrashes = 1
  MaxLost = 1
  a = a
  b = b
  w1 = w1
  w2 = w2
  i1 = i1
  i2 = i2
  i3 = i3
  i4 = i4
  r1 = r1
  r2 = r2
SYMMETRY Symmetry
INVARIANTS
  OneLiveOrder
