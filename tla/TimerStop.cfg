SPECIFICATION Spec
CONSTANTS
  t1 = t1
  t2 = t2
  thread = thread
  function = function
  TimerObj = {t1, t2}
  User = {thread}
  Owner <- Owners
  Callback = function
  TickMod = 16
  Times = {1, 5}
  Late = 1
INVARIANT StopStops
