SPECIFICATION FairSpec
CONSTANTS
  s1 = s1
  s2 = s2
  c1 = c1
  c2 = c2
  w1 = w1
  w2 = w2
  Scopes = {s1, s2}
  Callers = {c1}
  Warms = {w1, w2}
  NoScope = NoScope
  MaxCold = 2
  MaxRestarts = 1
INVARIANT TypeOK
INVARIANT OneWarm
PROPERTY NoteGoesAway
