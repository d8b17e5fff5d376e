CONSTANTS
  Goal = {g1}
  Worker = {"w1", "w2"}
  Role = {"planner", "dev"}
  Root = {"src"}
  Specs <- AllSpecs
  Diffs <- AddOne
  Limits = {}
  LineageLimit = 1
  MaxTodo = 2
  MaxRounds = 1
  Loop = {"p1"}
  Session = {"h1"}
  Identity <- Hosts
  Plans = {}
  Modes = {"step"}
  Slow = TRUE
  Acts = {"draft", "todo", "reopen"}
  Wishes <- Mixed
  UserTodos = 1
  MaxCrashes = 1
SPECIFICATION FairSpec
PROPERTY EveryTurnEnds
CHECK_DEADLOCK FALSE
