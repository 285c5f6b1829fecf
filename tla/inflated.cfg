SPECIFICATION Spec
CONSTANTS
  t1 = t1
  t2 = t2
  t3 = t3
  NoTask = NoTask
  NoCell = NoCell
  Width = 4
  Height = 2
  Inflate = 1
  Gridded = TRUE
  NAgents = 1
  Tasks = {t1}
  TaskGoal <- WideGoal
  TaskDwell <- NoDwell
  TaskPriority <- SamePriority
  TaskEligible <- AnyAgent
  Spawn <- SoloSpawn
  Walls = {}
  Deltas <- AsideDelta
  TurnTicks <- NeverTurns
  YieldRadius = 0
  Costmap = FALSE
  StuckWindow = 2
  RecoveryWait = 1
  MaxRetries = 1
  TeleopHold = 1
  Humanoids = {}
  Robots = {}
  Externals = {}
INVARIANTS
  PathsClear
