SPECIFICATION Spec
CONSTANTS
  c1 = c1
  c2 = c2
  Callers = {c1, c2}
  FileSystems = {"exchange", "plain"}
  MaxFaults = 0
  MaxCrashes = 0
PROPERTY RemovedOnlyUnheld
