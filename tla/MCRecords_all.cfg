\* Each component alone; a process may be left idle.
CONSTANTS
  Horizon = 2
  Slack = 1
  Lookback = 2
  MaxAge = 4
  Window = 2
  FlushRows = 2
  Steps <- MCSteps
  Prices = {0, 1, 2}
  Kinds = {"ok", "text"}
  MaxRaw = 4
  MaxBoots = 2
  MinSamples = 2
  Percentile = 60
  MaxChartPoints = 3
  MinPositives = 1
  FallbackTau = 1
  LabelHorizon = 1
  MaxTimelinePoints = 2
  ResolutionSteps <- MCResolutions
  MaxRange = 6
  Features <- MCFeatures
  Tau = 1
  KeepRows = 2
  PruneEvery = 2
  WindowSpan = 2
  MaxGradeClock = 1
  MaxRescored = 1
  MaxRebuilds = 1
  SampleScores <- MCScores
  MaxSample = 5
  DaySeconds = 3
  PageLimit = 2
  Attempts = 2
  MaxTape = 4
  DayStart = 1
  LastSecond = 5
  MaxGaps = 2
  LastDay = 2
  TradeVersions = {1, 2}
  MaxRuns = 2
  MaxUpsets = 1
SPECIFICATION Spec
INVARIANTS
  StreamInv RowsInv OfflineParity
  GradingInv MatchedStay OneStory ChartsInv HistoryInv ManifestPinsAll PagesInv BookInv
PROPERTIES SegmentMovesOn
CHECK_DEADLOCK FALSE
