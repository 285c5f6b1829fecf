SPECIFICATION LinksSpec
CONSTANTS
  Timeout = 2
  Stall = 1
  Holds = {0, 2}
  Twists = {"auto", "nan"}
  LockTimes = {1, 2}
  Parts = {"commands", "ros", "paths", "tail", "bench"}
  Robots = {1, 2}
  Separate = TRUE
  Namespace <- MCNamespace
  Depth = 2
  HoldTime = 2
  MaxTwists = 2
  MaxSamples = 3
  Verdicts = {TRUE, FALSE}
  AnyLabel = AnyLabel
  Labels <- MCLabels
  Filters <- MCFilters
  Limits = {0, 1, 2}
  Capacity = 2
  MaxEvents = 4
  LastTime = 2
  Places = {"dock", "bay", "door"}
  Requests <- MCRequests
  TimeoutTicks = 1
  MaxCalls = 2
  MaxPoses = 2
  Suites <- MCSuites
  Scenarios = {1, 2}
  EndsWith <- MCEndsWith
  MaxRuns = 4
  MaxTime = 1
INVARIANTS
  AnswersMatch
  OwnRunScored
PROPERTIES
  PollStopsStale
  HoldRetained
  BarredIsStill
  BadTwistStops
  AutonomyResumes
  PosesCatchUp
  PlanReturns
  NewAreSeen
CHECK_DEADLOCK FALSE
