SPECIFICATION FairSpec
CONSTANTS
  t1 = t1
  t2 = t2
  t3 = t3
  NoTask = NoTask
  NoCell = NoCell
  Width = 3
  Height = 2
  Inflate = 0
  Gridded = TRUE
  NAgents = 2
  Tasks = {t1, t2, t3}
  TaskGoal <- CrossingGoal
  TaskDwell <- DwellOne
  TaskPriority <- SamePriority
  TaskEligible <- OwnAgent
  Spawn <- CrossingSpawn
  Walls = {}
  Deltas = {}
  TurnTicks <- TurnsOnce
  YieldRadius = 1
  Costmap = FALSE
  StuckWindow = 2
  RecoveryWait = 2
  MaxRetries = 1
  TeleopHold = 1
  Humanoids = {}
  Robots = {}
  Externals = {"jam"}
INVARIANTS
  OneAgentPerTask
  PlanEndsAtGoal
  IdleStopped
PROPERTIES
  TasksEnd
  JammedGivesUp
