CONSTANTS
  Plan <- Chain
  MaxTask = 3
  Threshold = 1
  Hand = {"h1"}
  Requests = {"dispatch"}
  Enabled = FALSE
  Modes = {"auto", "step"}
  MaxConfirms = 1
  MaxCrashes = 1
SPECIFICATION TasksSpec
INVARIANTS TasksTypeOK ReworkBounded DependenciesFirst
PROPERTIES   ChainMoves
CHECK_DEADLOCK FALSE
