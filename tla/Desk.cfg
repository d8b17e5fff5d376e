CONSTANTS
  Loader = {l1, l2}
  Titles <- MCTitles
  Scalar = {"request", "settings"}
  Value = {"60"}
  Lists <- MCLists
  Slow = FALSE
  MaxSaves = 3
  MaxTicks = 2
  Process = {"console", "worker"}
  Model = {"big", "small"}
  KeyEnv = {"BIG_KEY", "SMALL_KEY"}
  KeyOf <- MCKeyOf
  Priority = {1, 2}
  RoleName = {"planner", "dev"}
  KeyValue = {"v1", "v2"}
  Outer <- MCOuter
  MaxPuts = 4
  MaxKeys = 2
  MaxStarts = 2
  Writer = {w1, w2}
  Task = {"t1", "t2", "t3"}
  StageOf <- MCStageOf
  Seeds <- MCSeeds
  Moves <- MCMoves
  Reader = {w2}
  MaxFaults = 2
  Component = {"codex", "grok"}
  Standard = {"codex"}
  Requests <- MCRequests
  MaxJobs = 3
  MaxBreaks = 1
  MaxFulls = 2
  MaxKills = 1
  Parts = {"env", "toml", "plan", "setup"}
SPECIFICATION DeskSpec
INVARIANTS DeskTypeOK SavedIsRead PlannerIsReady KeyIsFresh ProgressIsWhole
PROPERTY InstallEnds
CHECK_DEADLOCK FALSE
