SPECIFICATION Spec
CONSTANTS
  Idle = idle
  Worker = worker
  a = a
  b = b
  p1 = p1
  p2 = p2
  d1 = d1
  None = none
  Thread = {idle, worker, a, b}
  PrioMax = 4
  Sem = sem
  Queue = {sem}
  InitPrio <- WorkerSecond
  InitTick <- OneTick
  Work = {p1, d1}
  Delayed = {d1}
  Owner <- ByB
  Calls <- Shared
  MaxDepth = 2
INVARIANTS QueuedOnce SyncAnswered TimerFindsQueue WalkInList
PROPERTY FlagFollows
CHECK_DEADLOCK FALSE
