SPECIFICATION Spec
CONSTANTS
  Checks = {c1, c2}
  Threshold = 2
  MaxPushes = 3
  Day = 4
  RunsAt = 1
  CycleAt = 2
  SettleAt = 5
  PreviewAt = 1
  After = 1
  Horizon = 7
  MaxSnaps = 2
  MaxBeats = 1
  Requests = {q1, q2}
  MaxChanges = 2
  MaxDay = 1
  MaxOdd = 2
  Recent = 2
  LastDate = 6
  LastTradeDay = 3
  EventSymbols = {a, b}
  EventPrices = {1, 2}
  StartCapital = 3
  MAX_POSITIONS = 2
  Loss = 1
  LastEventDay = 3
  Order <- MCOrder
  Prices = {1, 2}
  Capital = 3
  Every = 3
  LastDay = 4
  Keys = {k1, k2}
  LogPrices = {1, 3}
  MaxUnits = 2
  MaxLog = 3
  Threads = {t1, t2}
  MAX_CALLS = 2
  Window = 3
  Tries = 2
  Exchanges = {nas, nys}
  Default = nas
  Stocks <- MCStocks
  Loaders = {l1, l2}
  Domestic = {k}
  US = {u}
  NumEntries = 3
  MaxQty = 2
  MaxHand = 2
  c1 = c1
  c2 = c2
  q1 = q1
  q2 = q2
  a = a
  b = b
  k1 = k1
  k2 = k2
  t1 = t1
  t2 = t2
  nas = nas
  nys = nys
  l1 = l1
  l2 = l2
  k = k
  u = u
INVARIANTS
  ToldOnce
  RanIsShown
  StaleIsSeen
  EveningComplete
  FileWhole
  NothingStale
  StopsHeld
  NeverBorrows
  ExitedStaysOut
  PairedInOrder
  WindowBounded
  RoutedHome
  DeductedForCause
\* The bounded runs end.
CHECK_DEADLOCK FALSE
