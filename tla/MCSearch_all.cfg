\* The tournament: one process at a time, but for qualifiers, which race.
CONSTANTS
  Procs = {p1, p2}
  NoProc = NoProc
  Stages <- MCStages
  Required <- MCRequired
  Baseline = "baseline"
  Neural = "neural"
  NeuralNeeds = {"trees"}
  Plan <- MCPlan
  Score <- MCScore
  Eligible <- MCEligible
  Overlap = FALSE
  Configs <- MCConfigs
  CalibrationShare <- MCQuarter
  FeatureLookback = 1
  LabelSeconds = 1
  Cooldown = 2
  MinClassCount = 2
  RowGaps <- MCGaps
  MaxRows = 7
  TrialScore <- MCTrialScore
  CanWin = {1}
  MaxBreaks = 1
  MaxFails = 1
SPECIFICATION SearchSpec
SYMMETRY Symmetry
INVARIANTS IInv OneParent StagedIsSound BoardInv SplitsInv
PROPERTIES StateGrows ImplementsHoldout
