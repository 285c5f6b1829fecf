SPECIFICATION FairSpec
CONSTANTS
  t1 = t1
  t2 = t2
  t3 = t3
  NoTask = NoTask
  NoCell = NoCell
  Width = 4
  Height = 2
  Inflate = 0
  Gridded = TRUE
  NAgents = 2
  Tasks = {t1, t2, t3}
  TaskGoal <- WideGoal
  TaskDwell <- NoDwell
  TaskPriority <- SamePriority
  TaskEligible <- OwnAgent
  Spawn <- WideSpawn
  Walls = {}
  Deltas <- TwoDeltas
  TurnTicks <- FirstTurns
  YieldRadius = 0
  Costmap = TRUE
  StuckWindow = 2
  RecoveryWait = 1
  MaxRetries = 1
  TeleopHold = 1
  Humanoids = {}
  Robots = {}
  Externals = {}
INVARIANTS
  CellsDisjoint
  HoldersAreOnTask
  PathsClear
PROPERTIES
  CellsAreGranted
