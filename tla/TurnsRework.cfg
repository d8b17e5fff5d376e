CONSTANTS
  Goal = {g1}
  Worker = {"w1"}
  Role = {"planner", "dev"}
  Root = {"src"}
  Specs <- AllSpecs
  Diffs = {}
  Limits = {}
  LineageLimit = 2
  MaxTodo = 4
  MaxRounds = 2
  Loop = {"p1"}
  Session = {}
  Identity <- OneWorker
  Plans <- TwoTasks
  Modes = {"step"}
  Slow = FALSE
  Acts = {"direct"}
  Wishes <- JustFree
  UserTodos = 0
  MaxCrashes = 0
SPECIFICATION FairSpec
PROPERTY DependentsProceed
CHECK_DEADLOCK FALSE
