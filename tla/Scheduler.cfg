SPECIFICATION Spec
CONSTANTS
  Main = main
  Idle = idle
  a = a
  b = b
  c = c
  Thread = {main, idle, a, b, c}
  PrioMax = 3
  Queue = {"defunct"}
  Calls <- SafetyCalls
  IsrWakes = TRUE
  InitPrio <- SafetyPrio
  InitTick <- TwoTicks
  Static = {main, idle, a}
  Cleanup = {a}
  MaxNest = 2
INVARIANTS TypeOK ReadyQueue TimersOfSuspended HighestPriorityRuns FreedUnreferenced
PROPERTIES LockKeepsCurrent ClosedStaysClosed
