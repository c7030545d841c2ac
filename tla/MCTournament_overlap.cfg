\* A stage runs beside a qualification.
CONSTANTS
  Procs = {p1, p2}
  NoProc = NoProc
  Stages <- MCStages
  Required <- MCRequired
  Baseline = "baseline"
  Neural = "neural"
  NeuralNeeds = {"trees"}
  Plan <- MCShortPlan
  Score <- MCScore
  Eligible <- MCShortEligible
  Overlap = TRUE
SPECIFICATION Spec
SYMMETRY Symmetry
INVARIANT HoldoutSpentOnce
