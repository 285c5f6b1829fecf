SPECIFICATION FairSpec
CONSTANTS
  t1 = t1
  t2 = t2
  t3 = t3
  NoTask = NoTask
  NoCell = NoCell
  Width = 3
  Height = 1
  Inflate = 0
  Gridded = TRUE
  NAgents = 2
  Tasks = {t1, t2}
  TaskGoal <- LineGoal
  TaskDwell <- NoDwell
  TaskPriority <- SamePriority
  TaskEligible <- OwnAgent
  Spawn <- CrossingSpawn
  Walls = {}
  Deltas = {}
  TurnTicks <- NeverTurns
  YieldRadius = 1
  Costmap = TRUE
  StuckWindow = 2
  RecoveryWait = 1
  MaxRetries = 1
  TeleopHold = 1
  Humanoids = {}
  Robots = {}
  Externals = {}
PROPERTIES
  TasksEnd
