SPECIFICATION Spec
CONSTANTS
  t1 = t1
  t2 = t2
  t3 = t3
  NoTask = NoTask
  NoCell = NoCell
  Width = 3
  Height = 1
  Inflate = 0
  Gridded = FALSE
  NAgents = 2
  Tasks = {t1, t2, t3}
  TaskGoal <- AimlessGoal
  TaskDwell <- DwellTwo
  TaskPriority <- UrgentThird
  TaskEligible <- OneNamed
  Spawn <- CrossingSpawn
  Walls = {}
  Deltas = {}
  TurnTicks <- NeverTurns
  YieldRadius = 0
  Costmap = FALSE
  StuckWindow = 2
  RecoveryWait = 1
  MaxRetries = 1
  TeleopHold = 1
  Humanoids = {}
  Robots = {}
  Externals = {"timeout", "tools"}
INVARIANTS
  WaitsOnce
  PriorityFirst
  NoAgentLeftFree
  DwellsAtGoal
PROPERTIES
  TasksImplemented
  OrderKept
  TasksNeverLost
  OutcomesFinal
