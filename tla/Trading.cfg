\* Of the fills: one order of up to two units, executed in parts, its notices
\* repeated.
SPECIFICATION TradingSpec
CONSTANTS
  Orders = {o1}
  Loaded = {o1}
  Keys = {k1}
  Stamps = {t1, t2}
  MaxQty = 2
  MaxDeliver = 2
  MaxPolls = 1
  MaxResets = 1
  Singles = {s1}
  Lists = {m1}
  HomeStocks = {a}
  USStocks = {b}
  Wealth = 3
  Position = 2
  FirstPicks <- MCPicks
  CountLimit = 1
  MaxEntryDay = 2
  MaxOrders = 2
  MaxEdits = 1
  Trades = {1, 2, 3, 4}
  MaxConns = 3
  MaxBackoff = 4
  Files = {f1, f2}
  MaxVersion = 1
  MaxData = 3
  MaxRows = 2
  o1 = o1
  k1 = k1
  t1 = t1
  t2 = t2
  a = a
  b = b
  s1 = s1
  m1 = m1
  f1 = f1
  f2 = f2
INVARIANTS
  NeverDroppedEarly
  NoticeAppliedOnce
  NoticePathExact
  OneSymbolPerEntry
  HeardAsTraded
  TagCovers
  PreviewCurrent
\* The day ends and no thread has anything left to do; the bounded runs end.
CHECK_DEADLOCK FALSE
