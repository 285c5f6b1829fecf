SPECIFICATION Spec
CONSTANTS
  t1 = t1
  t2 = t2
  t3 = t3
  NoTask = NoTask
  NoCell = NoCell
  Width = 3
  Height = 1
  Inflate = 0
  Gridded = TRUE
  NAgents = 1
  Tasks = {t1, t2}
  TaskGoal <- LineGoal
  TaskDwell <- NoDwell
  TaskPriority <- SamePriority
  TaskEligible <- AnyAgent
  Spawn <- SoloSpawn
  Walls = {}
  Deltas = {}
  TurnTicks <- NeverTurns
  YieldRadius = 0
  Costmap = FALSE
  StuckWindow = 2
  RecoveryWait = 1
  MaxRetries = 1
  TeleopHold = 1
  Humanoids = {}
  Robots = {}
  Externals = {"tools", "operator"}
PROPERTIES
  EstopBarsCommands
