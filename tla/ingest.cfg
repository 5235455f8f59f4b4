SPECIFICATION FairSpec
CONSTANTS
  k1 = k1
  k2 = k2
  c1 = c1
  c2 = c2
  NoKey = NoKey
  Keys = {k1, k2}
  Callers = {c1, c2}
  Hashed = {1, 2}
  Unhashed = {1, 2}
  MaxEntries = 1
  MaxEdits = 1
  MaxRestarts = 1
INVARIANT TypeOK
INVARIANT AnswerIsCurrent
PROPERTY StaleGoesAway
