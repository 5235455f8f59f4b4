SPECIFICATION FairSpec
CONSTANTS
  k1 = k1
  k2 = k2
  c1 = c1
  c2 = c2
  c3 = c3
  d1 = d1
  d2 = d2
  w = w
  NoLoad = NoLoad
  NoKey = NoKey
  Free = Free
  Keys = {k1, k2}
  Files <- BigAndSmall
  MinWeight = 1
  Reserve = 2
  Capacity = 3
  Callers = {c1, c2, c3}
  Loads = {d1, d2}
  Prewarms = {w}
  MayExpire = FALSE
PROPERTY EveryCallerIsServed
CHECK_DEADLOCK FALSE
