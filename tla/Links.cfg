SPECIFICATION Spec
CONSTANTS
  Cycles = {r1, r2}
  Notices = {n1}
  MaxTaken = 2
  LastCalendarDay = 2
  MaxClosed = 1
  Symbols = {a, b, c}
  SUBSCRIBE_MAX = 2
  MaxHeld = 3
  r1 = r1
  r2 = r2
  n1 = n1
  a = a
  b = b
  c = c
INVARIANTS
  NothingLostSilently
  StopEndsStream
PROPERTIES
  FileMoves
  HolidayArrives
  HeldPriced
\* A program that is closed and a bounded run both stop.
CHECK_DEADLOCK FALSE
