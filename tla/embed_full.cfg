SPECIFICATION Spec
CONSTANTS
  a = a
  b = b
  f = f
  g = g
  l1 = l1
  l2 = l2
  sweep = sweep
  m1 = m1
  NoModel = NoModel
  NoFile = NoFile
  Free = Free
  Syms = {a, b}
  Files = {f, g}
  FileOf <- OneEach
  Lazy = {l1, l2}
  AutoLoop = {}
  Sweep = {sweep}
  MaxVer = 3
  LiveVers = {1, 3}
  MaxCommits = 2
  Models = {m1}
  MaxFaults = 1
  MaxUnread = 0
  MaxCrashes = 1
  Legacy = TRUE
  MaxEmbedded = 0
INVARIANT TypeOK
INVARIANT SlotExclusive
INVARIANT RecordedCommitCovered
INVARIANT CompensatesOwnRows
SYMMETRY Symmetries
CHECK_DEADLOCK FALSE
