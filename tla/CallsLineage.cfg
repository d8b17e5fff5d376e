CONSTANTS
  Goal = {g1}
  Worker = {"w1", "w2"}
  Role = {"planner"}
  Root = {"src"}
  Specs = {}
  Diffs = {}
  Limits = {}
  LineageLimit = 2
  MaxTodo = 3
  MaxRounds = 3
  MaxClaims = 2
  Calls <- WorkerAndConsole
SPECIFICATION CallsSpec
INVARIANT LineagePaid
CHECK_DEADLOCK FALSE
