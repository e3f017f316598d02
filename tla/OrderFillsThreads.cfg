\* A loaded order and a sell sent by a stop loss or a liquidation.
SPECIFICATION FairSpec
CONSTANTS
  Orders = {o1, o2}
  Loaded = {o1}
  Keys = {k1}
  Stamps = {s1}
  MaxQty = 1
  MaxDeliver = 2
  MaxPolls = 1
  MaxResets = 1
  o1 = o1
  o2 = o2
  k1 = k1
  s1 = s1
  s2 = s2
PROPERTIES
  HandlersReturn
\* The day ends and no thread has anything left to do.
CHECK_DEADLOCK FALSE
