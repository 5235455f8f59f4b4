SPECIFICATION FairSpec
CONSTANTS
  a = a
  b = b
  f = f
  g = g
  auto = auto
  m1 = m1
  NoModel = NoModel
  NoFile = NoFile
  Free = Free
  Syms = {a, b}
  Files = {f, g}
  FileOf <- OneEach
  Lazy = {}
  AutoLoop = {auto}
  Sweep = {}
  MaxVer = 3
  LiveVers = {1, 3}
  MaxCommits = 2
  Models = {m1}
  MaxFaults = 1
  MaxUnread = 0
  MaxCrashes = 1
  Legacy = FALSE
  MaxEmbedded = 1
INVARIANT RecordedCommitCovered
PROPERTY Converges
CHECK_DEADLOCK FALSE
