\* The file is deleted or damaged, and replayed.
CONSTANTS
  Partitions = {0}
  Keys <- MCKeys
  Malformed = Malformed
  Log <- MCShort
  Rank <- MCRank
  BatchMax = 2
  PruneEvery = 2
  KeepRows = 2
  Active <- Streams
  FaultKinds = {"stop", "ddl", "delete", "damage", "rebalance"}
  MaxFaults = 3
  MaxFiles = 3
SPECIFICATION Spec
INVARIANT ReplayIsComplete
