SPECIFICATION Spec
CONSTANTS
  t1 = t1
  t2 = t2
  t3 = t3
  NoTask = NoTask
  NoCell = NoCell
  Width = 3
  Height = 1
  Inflate = 0
  Gridded = TRUE
  NAgents = 1
  Tasks = {t1, t2}
  TaskGoal <- LineGoal
  TaskDwell <- DwellOne
  TaskPriority <- SamePriority
  TaskEligible <- AnyAgent
  Spawn <- SoloSpawn
  Walls = {}
  Deltas <- RowDelta
  TurnTicks <- TurnsTwice
  YieldRadius = 0
  Costmap = FALSE
  StuckWindow = 2
  RecoveryWait = 1
  MaxRetries = 1
  TeleopHold = 2
  Humanoids = {}
  Robots = {1}
  Externals = {"timeout", "pause", "tools", "operator", "lock", "jam"}
INVARIANTS
  TypeOK
  BusyIffTasked
  RecordsAgree
  CleanWhenIdle
PROPERTIES
  StoppedStaysPut
  HoldKeepsCommand
