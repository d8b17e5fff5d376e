CONSTANTS
  Project = {a, b}
  Home = {a}
  NoProject = none
  Kind = {"task", "chat"}
  PollAfter = 2
  AnyProject = FALSE
  MaxLog = 2
  MaxFetches = 2
  MaxActs = 1
  MaxFaults = 1
SPECIFICATION ChannelSpec
INVARIANTS ChannelTypeOK NoGap PlanIsOurs
PROPERTY EventsArrive
CHECK_DEADLOCK FALSE
