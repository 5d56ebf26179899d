SPECIFICATION Spec
CONSTANTS
  Idle = idle
  high = high
  mid = mid
  low = low
  m1 = m1
  m2 = m2
  Thread = {idle, high, mid, low}
  NoThread = none
  PrioMax = 4
  Queue = {m1}
  InitPrio <- Descending
  InitTick <- OneTick
  Flag <- Sorted
  MaxHold = 2
  MaxHeld = 1
INVARIANT HighestPriorityRuns
