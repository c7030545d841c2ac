\* One consumer on two partitions: commits that fail for one of
\* them, and a table that outgrows retention.
CONSTANTS
  Partitions = {0, 1}
  Keys <- MCManyKeys
  Malformed = Malformed
  Log <- MCTwo
  Rank <- MCRankTie
  BatchMax = 2
  PruneEvery = 2
  KeepRows = 2
  Active = {"predictions"}
  FaultKinds = {"stop", "thread", "commit", "rebalance", "evict"}
  MaxFaults = 3
  MaxFiles = 1
SPECIFICATION Spec
INVARIANTS CommittedIsKept RetentionHolds
