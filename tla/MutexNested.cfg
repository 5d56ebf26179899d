SPECIFICATION Spec
CONSTANTS
  Idle = idle
  high = high
  mid = mid
  low = low
  m1 = m1
  m2 = m2
  Thread = {idle, high, low}
  NoThread = none
  PrioMax = 4
  Queue = {m1, m2}
  InitPrio <- Descending
  InitTick <- OneTick
  Flag <- Sorted
  MaxHold = 1
  MaxHeld = 2
INVARIANT PriorityRestored
