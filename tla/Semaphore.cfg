SPECIFICATION Spec
CONSTANTS
  Idle = idle
  a = a
  b = b
  c = c
  s1 = s1
  s2 = s2
  Thread = {idle, a, b, c}
  PrioMax = 3
  Queue = {s1, s2}
  InitPrio <- ThreePrios
  InitTick <- OneTick
  Flag <- Flags
  ValueMod = 65536
  MaxTokens = 1
  Private <- Itself
  Started = {{s1, s2}}
  Timed = {s1}
  Deletable = {s2}
INVARIANTS TypeOK TokensConserved NoIdleToken
