\* The file is missing at a start: the outcomes table is not.
CONSTANTS
  Partitions = {0}
  Keys <- MCKeys
  Malformed = Malformed
  Log <- MCLog
  Rank <- MCRank
  BatchMax = 2
  PruneEvery = 2
  KeepRows = 2
  Active <- Streams
  FaultKinds = {"stop", "delete"}
  MaxFaults = 2
  MaxFiles = 2
SPECIFICATION Spec
INVARIANT OutcomesReplayed
