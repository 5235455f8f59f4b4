SPECIFICATION FairSpec
CONSTANTS
  c1 = c1
  c2 = c2
  Callers = {c1, c2}
  FileSystems = {"exchange", "plain"}
  MaxFaults = 2
  MaxCrashes = 1
INVARIANT TypeOK
INVARIANT NoTmpLeak
PROPERTY LastReleaseDeletes
PROPERTY SwapKeepsWhole
PROPERTY ImplementsSingleFlight
PROPERTY Heals
