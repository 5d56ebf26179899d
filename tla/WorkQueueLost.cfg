SPECIFICATION Spec
CONSTANTS
  Idle = idle
  Worker = worker
  a = a
  b = b
  p1 = p1
  p2 = p2
  d1 = d1
  None = none
  Thread = {idle, worker, b}
  PrioMax = 4
  Sem = sem
  Queue = {sem}
  InitPrio <- WorkerLast
  InitTick <- OneTick
  Work = {p1, p2}
  Delayed = {}
  Owner <- ByB
  Calls <- Submitting
  MaxDepth = 2
INVARIANT NoForgottenWork
