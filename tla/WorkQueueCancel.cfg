SPECIFICATION Spec
CONSTANTS
  Idle = idle
  Worker = worker
  a = a
  b = b
  p1 = p1
  p2 = p2
  d1 = d1
  None = none
  Thread = {idle, worker, b}
  PrioMax = 4
  Sem = sem
  Queue = {sem}
  InitPrio <- WorkerFirst
  InitTick <- OneTick
  Work = {p1, d1}
  Delayed = {d1}
  Owner <- ByB
  Calls <- Delaying
  MaxDepth = 2
INVARIANT CancelReturns
CHECK_DEADLOCK FALSE
