SPECIFICATION FairSpec
CONSTANTS
  a = a
  b = b
  f = f
  g = g
  l1 = l1
  auto = auto
  sweep = sweep
  m1 = m1
  m2 = m2
  NoModel = NoModel
  NoFile = NoFile
  Free = Free
  Syms = {a}
  Files = {f}
  FileOf <- OneSym
  Lazy = {l1}
  AutoLoop = {auto}
  Sweep = {sweep}
  MaxVer = 1
  LiveVers = {1}
  MaxCommits = 2
  Models = {m1, m2}
  MaxFaults = 1
  MaxUnread = 1
  MaxCrashes = 1
  Legacy = TRUE
  MaxEmbedded = 0
PROPERTY SlotReleased
CHECK_DEADLOCK FALSE
