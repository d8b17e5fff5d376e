CONSTANTS
  Goal = {g1}
  Worker = {w1, w2}
  Role = {"planner"}
  Root = {"src"}
  Specs <- SteerSpecs
  Diffs <- SteerDiffs
  Limits = {0, 1}
  LineageLimit = 4
  MaxTodo = 5
  MaxRounds = 5
SPECIFICATION Spec
CONSTRAINT SmallWhenSteered
SYMMETRY Symmetry
INVARIANTS TypeOK ClaimConsistent LineageIsChain LineageBounded GoalCloses
PROPERTIES    LineageIsWorkItem
