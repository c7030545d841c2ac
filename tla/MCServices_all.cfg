\* Each component alone; a process may be left idle.
CONSTANTS
  MaxFailures = 2
  MirrorFlushSize = 2
  PollInterval = 2
  MaxQueued = 1
  MaxTicks = 3
  MaxDiskFaults = 2
  PerfThreads = {"h1", "h2", "h3"}
  PerfWindows = {30}
  CacheAge = 1
  MaxPerfClock = 2
  MaxEvents = 2
  ServiceNames <- MCServiceNames
  Requests = {"r1", "r2"}
  CacheSeconds = 1
  MaxStatusClock = 2
  MaxRounds = 3
  Hangable = {"api", "mlflow"}
  StaleSeconds = 1
  BatchMax = 2
  MaxScored = 3
  MaxHealthClock = 3
  Publishers = {"p1"}
  SourceOf <- MCSourceOf
  Provisional = {"p1"}
  Bootstraps = {"b1", "b2"}
  ServesLegacy = TRUE
  MaxVersions = 3
  MaxMoves = 1
  MaxStarts = 1
  FeatureSets = {"core", "multi"}
  Schemas = {"1"}
  DefaultSet = "core"
  DefaultSchema = "1"
  ApiServers <- MCServers
  MaxDeploys = 1
  MaxCalls = 1
  MaxRequests = 3
  Params = {"30m", "6h"}
  MaxSent = 5
  MaxSelects = 2
  MaxHides = 2
SPECIFICATION Spec
INVARIANTS
  IngestInv SingleFlight RefusalExplained StatusInv HealthInv RegistryInv ServesOneModel
  PredictInv PollingInv
PROPERTIES BreakerExits WaitersAnswered
CHECK_DEADLOCK FALSE
