CONSTANTS
  Goal = {g1}
  Worker = {"w1"}
  Role = {"planner", "dev"}
  Root = {"src"}
  Specs <- AllSpecs
  Diffs <- AddOne
  Limits = {}
  LineageLimit = 2
  MaxTodo = 2
  MaxRounds = 2
  Loop = {"p1"}
  Session = {}
  Identity <- OneWorker
  Plans = {}
  Modes = {"step"}
  Slow = FALSE
  Acts = {"direct", "todo"}
  Wishes <- JustSteer
  UserTodos = 2
  MaxCrashes = 0
SPECIFICATION TurnsSpec
PROPERTY Resident
CHECK_DEADLOCK FALSE
