SPECIFICATION Spec
CONSTANTS
  Idle = idle
  a = a
  b = b
  e1 = e1
  m1 = m1
  s1 = s1
  q1 = q1
  p1 = p1
  c1 = c1
  d1 = d1
  u1 = u1
  w1 = w1
  None = none
  Thread = {idle, a, b}
  PrioMax = 3
  Queue = {e1, m1, s1, q1, p1, c1, d1, u1, w1}
  InitPrio <- Prios
  InitTick <- OneTick
  Flag <- Orders
  Private <- Seconds
  Timed = {e1, m1, s1, q1, p1, c1, d1, u1, w1}
  Deletable = {}
  Started <- OnePool
  Events = {e1}
  Bits = {1, 2}
  Mailboxes = {m1}
  MbSize = 2
  MqQueues = {q1}
  MaxMsgs = 2
  MemPools = {p1}
  MpBlocks = 2
  MaxPend = 3
  Completions = {c1}
  DataQueues = {d1}
  WaitQueues = {w1}
  OneUser = {w1}
  DqSize = 2
  Lwm = 1
  IndexMod = 65536
  MaxPut = 3
  Timeout = 2
  Message = {v1, v2}
INVARIANT ResumesThreads
