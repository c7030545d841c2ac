\* The predictions consumer alone: a rebuild is interrupted.
CONSTANTS
  Partitions = {0}
  Keys <- MCKeys
  Malformed = Malformed
  Log <- MCLog
  Rank <- MCRank
  BatchMax = 2
  PruneEvery = 2
  KeepRows = 2
  Active = {"predictions"}
  FaultKinds = {"stop", "delete", "thread"}
  MaxFaults = 3
  MaxFiles = 2
SPECIFICATION Spec
INVARIANT PredictionsReplayed
