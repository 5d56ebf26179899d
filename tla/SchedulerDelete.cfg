SPECIFICATION Spec
CONSTANTS
  Main = main
  Idle = idle
  a = a
  b = b
  c = c
  Thread = {main, idle, b}
  PrioMax = 2
  Queue = {"defunct"}
  Calls <- DeleteCalls
  IsrWakes = FALSE
  InitPrio <- LivenessPrio
  InitTick <- OneTick
  Static = {main, idle}
  Cleanup = {}
  MaxNest = 1
INVARIANT ClosedUnqueued
