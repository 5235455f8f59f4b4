SPECIFICATION FairSpec
CONSTANTS
  LastRow = 3
  PageSize = 2
  ChunkSize = 1
  Bodies = {1, 2, 3}
  Degenerate = {3}
  MaxEdits = 2
  MaxFaults = 1
INVARIANT TypeOK
INVARIANT VectorsAgree
PROPERTY DriftGuard
PROPERTY BackfillEnds
PROPERTY GivesUpOnlyWhenStuck
