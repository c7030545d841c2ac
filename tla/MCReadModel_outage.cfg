\* The group drops a consumer once.
CONSTANTS
  Partitions = {0}
  Keys <- MCKeys
  Malformed = Malformed
  Log <- MCLog
  Rank <- MCRank
  BatchMax = 2
  PruneEvery = 2
  KeepRows = 2
  Active <- Streams
  FaultKinds = {"evict"}
  MaxFaults = 1
  MaxFiles = 1
SPECIFICATION FairSpec
PROPERTY KeepsPolling
