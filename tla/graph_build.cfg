SPECIFICATION FairSpec
CONSTANTS
  f1 = f1
  b1 = b1
  b2 = b2
  t1 = t1
  t2 = t2
  Files = {f1}
  Builds = {b1, b2}
  Timers = {t1, t2}
  NoTimer = NoTimer
  BufferSize = 1
  Tools = TRUE
  MaxEdits = 2
  MaxHidden = 1
  MaxFaults = 1
INVARIANT TypeOK
INVARIANT OneBuildEach
INVARIANT RowTellsContent
PROPERTY CalmEditsReachGraph
