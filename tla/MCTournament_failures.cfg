\* A stage is resumed after too many failures.
CONSTANTS
  Procs = {p1}
  NoProc = NoProc
  Stages <- MCStages
  Required <- MCRequired
  Baseline = "baseline"
  Neural = "neural"
  NeuralNeeds = {"trees"}
  Plan <- MCPlan
  Score <- MCScore
  Eligible <- MCEligible
  Overlap = FALSE
SPECIFICATION Spec
PROPERTY FailedStageStops
