SPECIFICATION Spec
CONSTANTS
  KrxDays <- MCKrxDays
  UsDays <- MCUsDays
  LastDay = 2
  MaxStarts = 2
  MaxEvents = 1
INVARIANTS
  KrxCycleOnce
  UsCycleOncePerDate
  KrxCycleDone
\* The last day ends.
CHECK_DEADLOCK FALSE
