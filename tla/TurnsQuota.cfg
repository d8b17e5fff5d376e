CONSTANTS
  Goal = {g1}
  Worker = {"w1", "w2"}
  Role = {"planner", "dev"}
  Root = {"src"}
  Specs <- AllSpecs
  Diffs = {}
  Limits = {1}
  LineageLimit = 1
  MaxTodo = 3
  MaxRounds = 1
  Loop = {"p1", "p2"}
  Session = {}
  Identity <- TwoWorkers
  Plans = {}
  Modes = {"auto"}
  Slow = FALSE
  Acts = {"draft", "todo", "quota", "reopen"}
  Wishes <- JustFree
  UserTodos = 3
  MaxCrashes = 0
SPECIFICATION TurnsSpec
PROPERTY OverrunBounded
CHECK_DEADLOCK FALSE
