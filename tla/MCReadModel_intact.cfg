\* Both consumers, every fault but an eviction and the loss of
\* the file, in bounded number; fair threads.
CONSTANTS
  Partitions = {0}
  Keys <- MCKeys
  Malformed = Malformed
  Log <- MCLog
  Rank <- MCRank
  BatchMax = 2
  PruneEvery = 2
  KeepRows = 2
  Active <- Streams
  FaultKinds = {"stop", "thread", "ddl", "write", "commit", "rebalance"}
  MaxFaults = 3
  MaxFiles = 1
SPECIFICATION FairSpec
INVARIANT IInv
PROPERTIES ImplementsProjection EventuallyProjected
