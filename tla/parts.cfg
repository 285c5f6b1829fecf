SPECIFICATION PartsSpec
CONSTANTS
  Parts = {"leases", "queue", "search", "pairs"}
  r1 = r1
  r2 = r2
  ghost = ghost
  a1 = a1
  a2 = a2
  guest = guest
  NoLease = NoLease
  NoOwner = NoOwner
  Resources = {r1, r2, ghost}
  Catalog = {r1, r2}
  Requesters = {a1, a2, guest}
  Agents = {a1, a2}
  Durations = {1, 3}
  MaxIds = 4
  t1 = t1
  t2 = t2
  t3 = t3
  QueueTasks = {t1, t2, t3}
  QueuePriority <- MCPriority
  NoTask = NoTask
  NoEntry = NoEntry
  NoScore = NoScore
  NoCell = NoCell
  Queries <- MCSearches
  NoGoal = NoGoal
  Robots = {1, 2}
  MaxLateral = 1
  Goals <- MCGoals
  HitSq = 0
  NearSq = 1
  HeadonSq = 4
  MaxCounter = 4
  Width = 4
  Height = 3
  Inflate = 0
  Gridded = TRUE
INVARIANTS
  ListsCoverLeases
  FindsCheapest
  ParentsLeadToStart
PROPERTIES
  TableImplemented
  QueueImplemented
  MissedOnce
  ReroutedOnce
CHECK_DEADLOCK FALSE
