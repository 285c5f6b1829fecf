SPECIFICATION Spec
CONSTANTS
  t1 = t1
  t2 = t2
  t3 = t3
  NoTask = NoTask
  NoCell = NoCell
  Width = 3
  Height = 2
  Inflate = 0
  Gridded = TRUE
  NAgents = 2
  Tasks = {t1, t2}
  TaskGoal <- CrossingGoal
  TaskDwell <- NoDwell
  TaskPriority <- SamePriority
  TaskEligible <- OwnAgent
  Spawn <- CrossingSpawn
  Walls = {}
  Deltas = {}
  TurnTicks <- NeverTurns
  YieldRadius = 0
  Costmap = TRUE
  StuckWindow = 2
  RecoveryWait = 1
  MaxRetries = 1
  TeleopHold = 1
  Humanoids = {}
  Robots = {}
  Externals = {"jam"}
INVARIANTS
  HoldersAreOnTask
