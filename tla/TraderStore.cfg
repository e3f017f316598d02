\* A job thread, the loop, an order on each side, and a mishap of any kind.
SPECIFICATION Spec
CONSTANTS
  Buys = {buy1}
  Sells = {sell1}
  Jobs = {j1}
  Loop = loop
  MaxMishaps = 1
  MaxDeducted = 1
  buy1 = buy1
  buy2 = buy2
  sell1 = sell1
  j1 = j1
  j2 = j2
INVARIANTS
  RecordedOnce
PROPERTIES
  SavedStays
