CONSTANTS
  Goal = {g1}
  Worker = {"w1", "w2"}
  Role = {"planner", "dev"}
  Root = {"src"}
  Specs <- AllSpecs
  Diffs <- Shrink
  Limits = {}
  LineageLimit = 2
  MaxTodo = 4
  MaxRounds = 2
  Loop = {"p1", "p2"}
  Session = {}
  Identity <- TwoWorkers
  Plans <- OneTask
  Modes = {"auto"}
  Slow = FALSE
  Acts = {"direct", "todo", "decide"}
  Wishes <- Steered
  UserTodos = 3
  MaxCrashes = 0
SPECIFICATION TurnsSpec
INVARIANTS TurnIsOwn DepsRespected
CHECK_DEADLOCK FALSE
