------------------------------ MODULE CellProofs ------------------------------
(***************************************************************************)
(* The ways of the agents over the grid: the cells they hold are those of  *)
(* their ways, no two agents hold the same cell, an agent that is left     *)
(* alone and turns only shortly is never taken for stuck, and no way leads *)
(* through a known obstacle.                                               *)
(*                                                                         *)
(* Every step does one of four things to the journey of an agent: the      *)
(* agent departs on a new plan, drives on, quits, or its way stays.        *)
(***************************************************************************)
EXTENDS NavStepProofs

\* What is left of the way of agent a, from the cell it is in to the goal.
Way(a) == FullPath(pose[a], path[a])

Departs(a) ==
  /\ task[a] # NoTask /\ task'[a] = task[a]
  /\ bstate'[a] = "executing"
  /\ pose'[a] = pose[a]
  /\ hist'[a] = Empty
  /\ \E route \in Routes(a) : /\ path'[a] = route
                              /\ cells'[a] = ClaimedCells(a, route)

TurnsInPlace(a) ==
  /\ turned[a] < TurnTicks[a] /\ turned'[a] = turned[a] + 1
  /\ pose'[a] = pose[a]

Advances(a) ==
  /\ turned'[a] = 0
  /\ pose'[a] = StepToward(pose[a], Target(a))

Applies(a) ==
  IF jammed[a] THEN pose'[a] = pose[a] ELSE TurnsInPlace(a) \/ Advances(a)

Drives(a) ==
  /\ bstate[a] \in OnTask /\ bstate'[a] \in OnTask
  /\ task'[a] = task[a]
  /\ pose[a] # TaskGoal[task[a]]
  /\ Applies(a)
  /\ path'[a] = Remaining(a)
  /\ hist'[a] = Sampled(a)
  /\ cells'[a] = RefreshedCells(a, pose'[a], Remaining(a))

\* The task ends; only giving up may leave cells behind.
Quits(a) == bstate'[a] = "idle" /\ (GiveUp(a) \/ cells'[a] = {})

\* Only an operator moves an agent that keeps its way.
Stays(a) ==
  /\ bstate'[a] \in OnTask <=> bstate[a] \in OnTask
  /\ bstate'[a] = "recovering" => bstate[a] = "recovering"
  /\ bstate[a] \in OnTask => task'[a] = task[a]
  /\ "operator" \notin Externals => pose'[a] = pose[a]
  /\ cells'[a] = cells[a]
  /\ path'[a] \in {path[a], Remaining(a)}
  /\ hist'[a] \in {hist[a], Empty, Aged(hist[a])}

\* The others keep their ways as they are.
Alone(a) ==
  \A b \in Agents : b # a =>
    /\ task'[b] = task[b] /\ bstate'[b] = bstate[b] /\ pose'[b] = pose[b]
    /\ path'[b] = path[b] /\ cells'[b] = cells[b] /\ hist'[b] = hist[b]

-----------------------------------------------------------------------------
(* What each action does to the journeys *)

LEMMA AloneStays ==
  ASSUME NEW a \in Agents, Alone(a)
  PROVE  \A b \in Agents : b # a => Stays(b)
BY DEF Alone, Stays

\* The end of a task.
LEMMA EndTaskQuits ==
  ASSUME TypeOK, NEW a \in Agents, NEW s, NEW outcome, EndTask(a, s, outcome),
         task[a] # NoTask,
         \/ /\ outcome = "failed"
            /\ s \in {"assigned", "planning", "reserving"} \cup OnTask
         \/ /\ outcome = "succeeded" /\ s = "executing" /\ bstate[a] \in OnTask,
         NEW C, cells' = [cells EXCEPT ![a] = C], pose' = pose
  PROVE  bstate'[a] = "idle" /\ cells'[a] = C /\ Alone(a)
<1>1. Ends(a)
  BY EndTaskEnds
<1>2. bstate'[a] = "idle" /\ \A b \in Agents : b # a =>
        task'[b] = task[b] /\ bstate'[b] = bstate[b]
  BY <1>1 DEF Ends, TypeOK
<1>3. \A b \in Agents : b # a => path'[b] = path[b] /\ hist'[b] = hist[b]
  BY DEF EndTask, ClearNav, TypeOK
<1>4. cells'[a] = C /\ \A b \in Agents : b # a =>
        pose'[b] = pose[b] /\ cells'[b] = cells[b]
  BY DEF TypeOK
<1>5. QED
  BY <1>2, <1>3, <1>4 DEF Alone

\* What the adapter does with a command, seen from one agent.
LEMMA ApplyOne ==
  ASSUME TypeOK, NEW a \in Agents, Apply(a)
  PROVE  Applies(a) /\ \A b \in Agents : b # a => pose'[b] = pose[b]
<1>1. pose \in [Agents -> Cells] /\ turned \in [Agents -> Nat]
  BY DEF TypeOK
<1>2. CASE jammed[a]
  BY <1>2 DEF Apply, Applies
<1>3. CASE ~jammed[a] /\ TurnInPlace(a)
  BY <1>1, <1>3 DEF TurnInPlace, TurnsInPlace, Applies
<1>4. CASE ~jammed[a] /\ Advance(a)
  BY <1>1, <1>4 DEF Advance, Advances, Applies
<1>5. QED
  BY <1>2, <1>3, <1>4 DEF Apply

LEMMA ObstacleJourneys ==
  ASSUME TaskInv, NEW a \in Agents, KeepPlan(a) \/ Replan(a) \/ BlockedOut(a)
  PROVE  /\ Alone(a)
         /\ \/ KeepPlan(a) /\ Stays(a)
            \/ Departs(a)
            \/ bstate'[a] = "idle" /\ cells'[a] = {}
<1>1. TypeOK /\ pose' = pose
  BY DEF TaskInv, KeepPlan, Replan, BlockedOut, ObstacleTurn
<1>2. CASE KeepPlan(a)
  BY <1>1, <1>2 DEF KeepPlan, navVars, Alone, Stays
<1>3. CASE Replan(a)
  <2>1. task[a] # NoTask /\ bstate[a] = "executing" /\ task' = task
    BY <1>3 DEF Replan, HitByObstacle
  <2>2. bstate' = [bstate EXCEPT ![a] = "executing"]
    BY <1>3, <2>1, Transitions DEF Replan
  <2>3. hist' = [hist EXCEPT ![a] = Empty]
    BY <1>3 DEF Replan
  <2>4. PICK route \in Routes(a) :
               /\ path' = [path EXCEPT ![a] = route]
               /\ cells' = [cells EXCEPT ![a] = ClaimedCells(a, route)]
    BY <1>3 DEF Replan
  <2>5. Departs(a)
    BY <1>1, <2>1, <2>2, <2>3, <2>4 DEF Departs, TypeOK
  <2>6. Alone(a)
    BY <1>1, <2>1, <2>2, <2>3, <2>4 DEF Alone, TypeOK
  <2>7. QED
    BY <2>5, <2>6
<1>4. CASE BlockedOut(a)
  <2>1. task[a] # NoTask /\ bstate[a] = "executing"
    BY <1>4 DEF BlockedOut, HitByObstacle
  <2>2. EndTask(a, "planning", "failed") /\ cells' = [cells EXCEPT ![a] = {}]
    BY <1>4, <2>1, Transitions DEF BlockedOut
  <2>3. QED
    BY <1>1, <2>1, <2>2, EndTaskQuits
<1>5. QED
  BY <1>2, <1>3, <1>4

LEMMA TurnJourneys ==
  ASSUME TaskInv, NEW a \in Agents, AgentTurn(a)
  PROVE  /\ Alone(a)
         /\ Departs(a) \/ Drives(a) \/ Quits(a) \/ Stays(a)
         /\ ~StartRecovery(a) => (bstate'[a] = "recovering" => bstate[a] = "recovering")
<1>1. TypeOK /\ AgentsAgree
  BY DEF TaskInv
<1>2. CASE \/ SkipIdle(a) \/ RejectStopped(a) \/ LeaveToOperator(a)
           \/ NoGoal(a) \/ RestStill(a)
  BY <1>2
  DEF SkipIdle, RejectStopped, LeaveToOperator, NoGoal, RestStill, Standing,
      navVars, Alone, Stays
<1>3. CASE Yield(a)
  <2>1. /\ UNCHANGED <<task, bstate, pose, path, cells>>
        /\ hist' = [hist EXCEPT ![a] = Empty]
    BY <1>3 DEF Yield
  <2>2. hist'[a] = Empty /\ \A b \in Agents : b # a => hist'[b] = hist[b]
    BY <1>1, <2>1 DEF TypeOK
  <2>3. QED
    BY <2>1, <2>2 DEF Alone, Stays
<1>4. CASE BeginExecution(a)
  <2>1. task[a] # NoTask /\ PlanningState(a) \in {"planning", "reserving"}
    BY <1>4, PlanningStates DEF BeginExecution
  <2>2. bstate' = [bstate EXCEPT ![a] = "executing"]
    BY <1>4, <2>1, Transitions DEF BeginExecution
  <2>3. hist' = [hist EXCEPT ![a] = Empty] /\ task' = task /\ pose' = pose
    BY <1>4 DEF BeginExecution, NeedsPlan
  <2>4. PICK route \in Routes(a) :
               /\ path' = [path EXCEPT ![a] = route]
               /\ cells' = [cells EXCEPT ![a] = ClaimedCells(a, route)]
    BY <1>4 DEF BeginExecution
  <2>5. Departs(a)
    BY <1>1, <2>1, <2>2, <2>3, <2>4 DEF Departs, TypeOK
  <2>6. Alone(a)
    BY <1>1, <2>1, <2>2, <2>3, <2>4 DEF Alone, TypeOK
  <2>7. QED
    BY <2>5, <2>6 DEF Departs
<1>5. CASE WaitForCells(a)
  <2>1. PlanningState(a) \in {"planning", "reserving"}
    BY <1>5, PlanningStates DEF WaitForCells
  <2>2. bstate' = [bstate EXCEPT ![a] = "reserving"]
    BY <1>5, <2>1, Transitions DEF WaitForCells
  <2>3. UNCHANGED <<task, path, pose, cells, hist>>
    BY <1>5 DEF WaitForCells, NeedsPlan, navVars
  <2>4. bstate[a] \in {"assigned", "reserving"}
    BY <1>5 DEF WaitForCells, NeedsPlan
  <2>5. bstate'[a] = "reserving" /\ \A b \in Agents : b # a => bstate'[b] = bstate[b]
    BY <1>1, <2>2 DEF TypeOK
  <2>6. QED
    BY <2>3, <2>4, <2>5 DEF Alone, Stays, OnTask
<1>6. CASE PlanFails(a)
  <2>1. task[a] # NoTask /\ PlanningState(a) \in {"planning", "reserving"}
    BY <1>6, PlanningStates DEF PlanFails
  <2>2. /\ EndTask(a, PlanningState(a), "failed")
        /\ cells' = [cells EXCEPT ![a] = {}] /\ pose' = pose
    BY <1>6 DEF PlanFails, NeedsPlan
  <2>3. bstate'[a] = "idle" /\ cells'[a] = {} /\ Alone(a)
    BY <1>1, <2>1, <2>2, EndTaskQuits
  <2>4. QED
    BY <2>3 DEF Quits
<1>7. CASE Succeed(a)
  <2>1. Moving(a) /\ EndTask(a, MovingState(a), "succeeded")
    BY <1>7 DEF Succeed
  <2>2. task[a] # NoTask /\ MovingState(a) = "executing" /\ bstate[a] \in OnTask
    BY <1>1, <2>1, MovingExecutes
  <2>3. cells' = [cells EXCEPT ![a] = {}] /\ pose' = pose
    BY <1>7 DEF Succeed
  <2>4. bstate'[a] = "idle" /\ cells'[a] = {} /\ Alone(a)
    BY <1>1, <2>1, <2>2, <2>3, EndTaskQuits
  <2>5. QED
    BY <2>4 DEF Quits
<1>8. CASE Dwelling(a) \/ RejectLocked(a)
  <2>1. Moving(a) /\ UNCHANGED <<task, pose, cells>>
    BY <1>8 DEF Dwelling, RejectLocked
  <2>2. bstate[a] \in OnTask /\ bstate' = [bstate EXCEPT ![a] = "executing"]
    BY <1>1, <1>8, <2>1, MovingExecutes DEF Dwelling, RejectLocked
  <2>3. /\ path' = [path EXCEPT ![a] = Remaining(a)]
        /\ hist' = [hist EXCEPT ![a] = History(a)]
    BY <1>8 DEF Dwelling, RejectLocked
  <2>4. History(a) \in {hist[a], Empty}
    BY DEF History
  <2>5. /\ bstate'[a] = "executing"
        /\ path'[a] = Remaining(a) /\ hist'[a] = History(a)
        /\ \A b \in Agents : b # a =>
             path'[b] = path[b] /\ hist'[b] = hist[b] /\ bstate'[b] = bstate[b]
    BY <1>1, <2>2, <2>3 DEF TypeOK
  <2>6. QED
    BY <2>1, <2>2, <2>4, <2>5 DEF Alone, Stays, OnTask
<1>9. CASE DriveOn(a) \/ StartRecovery(a)
  <2>1. /\ Moving(a) /\ task' = task
        /\ pose[a] # TaskGoal[task[a]] /\ Apply(a)
    BY <1>9 DEF DriveOn, StartRecovery, Driving, AtGoal
  <2>2. bstate[a] \in OnTask /\ MovingState(a) = "executing"
    BY <1>1, <2>1, MovingExecutes
  <2>3. PICK s \in OnTask :
          /\ bstate' = [bstate EXCEPT ![a] = s]
          /\ ~StartRecovery(a) => s = "executing"
    BY <1>9, <2>2, Transitions DEF DriveOn, StartRecovery, OnTask
  <2>4. /\ path' = [path EXCEPT ![a] = Remaining(a)]
        /\ hist' = [hist EXCEPT ![a] = Sampled(a)]
        /\ cells' = [cells EXCEPT ![a] =
                       RefreshedCells(a, pose'[a], Remaining(a))]
    BY <1>9 DEF DriveOn, StartRecovery
  <2>5. Drives(a)
    BY <1>1, <2>1, <2>2, <2>3, <2>4, ApplyOne DEF Drives, TypeOK
  <2>6. Alone(a)
    BY <1>1, <2>1, <2>3, <2>4, ApplyOne DEF Alone, TypeOK
  <2>7. bstate'[a] = s
    BY <1>1, <2>3 DEF TypeOK
  <2>8. QED
    BY <2>3, <2>5, <2>6, <2>7
<1>10. CASE GiveUp(a)
  <2>1. EndTask(a, MovingState(a), "failed") /\ Moving(a)
    BY <1>10 DEF GiveUp, Driving
  <2>2. MovingState(a) \in OnTask /\ task[a] # NoTask
    BY <1>1, <2>1, MovingExecutes DEF OnTask
  <2>3. Ends(a)
    BY <1>1, <2>1, <2>2, EndTaskEnds
  <2>4. bstate'[a] = "idle" /\ \A b \in Agents : b # a =>
          task'[b] = task[b] /\ bstate'[b] = bstate[b]
    BY <1>1, <2>3 DEF Ends, TypeOK
  <2>5. \A b \in Agents : b # a => path'[b] = path[b] /\ hist'[b] = hist[b]
    BY <1>1, <2>1 DEF EndTask, ClearNav, TypeOK
  <2>6. \A b \in Agents : b # a => pose'[b] = pose[b] /\ cells'[b] = cells[b]
    BY <1>1, <1>10, ApplyOne DEF GiveUp, Driving, TypeOK
  <2>7. QED
    BY <1>10, <2>4, <2>5, <2>6 DEF Alone, Quits
<1>11. QED
  BY <1>2, <1>3, <1>4, <1>5, <1>6, <1>7, <1>8, <1>9, <1>10 DEF AgentTurn

\* Every other step leaves the ways alone, or abandons all tasks.
LEMMA RestJourneys ==
  ASSUME TaskInv, External \/ Step \/ Dispatch \/ UNCHANGED vars
  PROVE  \/ \A a \in Agents : Stays(a)
         \/ \A a \in Agents : bstate'[a] = "idle" /\ (cells'[a] = {} \/ Stays(a))
<1>1. TypeOK /\ AgentsAgree
  BY DEF TaskInv
<1>2. ASSUME UNCHANGED <<task, bstate, path, cells>>,
             \A a \in Agents : hist'[a] \in {hist[a], Aged(hist[a])},
             "operator" \notin Externals => pose' = pose
      PROVE  \A a \in Agents : Stays(a)
  BY <1>2 DEF Stays
<1>3. ASSUME BeginStep
      PROVE  \A a \in Agents : Stays(a)
  BY <1>2, <1>3 DEF BeginStep
<1>4. CASE Timeout
  <2>1. TaskInv'
    BY <1>4, TaskStep DEF Next, External
  <2>2. \A a \in Agents : bstate'[a] = "idle"
    BY <1>4, <2>1 DEF Timeout, TaskInv, AgentsAgree, BusyIffTasked
  <2>3. ASSUME NEW a \in Agents
        PROVE  cells'[a] = {} \/ Stays(a)
    <3>1. CASE task[a] # NoTask
      BY <1>4, <3>1 DEF Timeout
    <3>2. CASE task[a] = NoTask
      <4>1. bstate[a] = "idle"
        BY <1>1, <3>2 DEF AgentsAgree, BusyIffTasked
      <4>2. /\ path'[a] = path[a] /\ cells'[a] = cells[a] /\ hist'[a] = hist[a]
            /\ pose'[a] = pose[a]
        BY <1>4, <3>2 DEF Timeout
      <4>3. QED
        BY <2>2, <4>1, <4>2 DEF Stays, OnTask
    <3>3. QED
      BY <3>1, <3>2
  <2>4. QED
    BY <2>2, <2>3
<1>5. CASE External
  BY <1>2, <1>3, <1>4, <1>5
  DEF External, Submit, StartRun, SetLifecycle, SetEstop, Teleop, ToggleLock,
      ToggleJam, StepPaused, navVars
<1>6. CASE Step
  BY <1>3, <1>6 DEF Step
<1>7. ASSUME NEW a \in Agents, Assign(a)
      PROVE  \A b \in Agents : Stays(b)
  <2>1. Gets(a, Head(queue))
    BY <1>1, <1>7, AssignGets DEF TaskInv
  <2>2. UNCHANGED <<path, hist, cells, pose>>
    BY <1>7 DEF Assign, DispatchUnchanged, navVars
  <2>3. bstate'[a] = "assigned" /\ bstate[a] \notin OnTask
    BY <1>1, <2>1 DEF Gets, TypeOK, AgentsAgree, BusyIffTasked, OnTask
  <2>4. \A b \in Agents : b # a => task'[b] = task[b] /\ bstate'[b] = bstate[b]
    BY <1>1, <2>1 DEF Gets, TypeOK
  <2>5. QED
    BY <2>2, <2>3, <2>4 DEF Stays, OnTask
<1>8. CASE Dispatch
  BY <1>2, <1>7, <1>8
  DEF Dispatch, Defer, Requeue, Resubmit, EndDispatch, DispatchUnchanged,
      navVars
<1>9. CASE UNCHANGED vars
  BY <1>2, <1>9 DEF vars, navVars
<1>10. QED
  BY <1>5, <1>6, <1>8, <1>9

-----------------------------------------------------------------------------
(* Only agents that follow a plan hold cells                                 *)

NobodyGivesUp == \A a \in Agents : ~GiveUp(a)

LEMMA HoldersStep ==
  ASSUME TaskInv, HoldersAreOnTask, [Next]_vars, [NobodyGivesUp]_vars
  PROVE  HoldersAreOnTask'
<1>1. ASSUME NEW a \in Agents, Departs(a) \/ Drives(a) \/ Stays(a)
      PROVE  cells'[a] # {} => bstate'[a] \in OnTask
  BY <1>1 DEF Departs, Drives, Stays, HoldersAreOnTask, OnTask
<1>2. ASSUME NEW a \in Agents, Alone(a),
             cells'[a] # {} => bstate'[a] \in OnTask
      PROVE  HoldersAreOnTask'
  BY <1>2 DEF Alone, HoldersAreOnTask
<1>3. CASE External \/ Step \/ Dispatch \/ UNCHANGED vars
  BY <1>1, <1>3, RestJourneys DEF HoldersAreOnTask
<1>4. CASE Obstacles
  <2>1. PICK a \in Agents : KeepPlan(a) \/ Replan(a) \/ BlockedOut(a)
    BY <1>4 DEF Obstacles
  <2>2. Alone(a) /\ (Stays(a) \/ Departs(a) \/ cells'[a] = {})
    BY <2>1, ObstacleJourneys
  <2>3. QED
    BY <1>1, <1>2, <2>2
<1>5. ASSUME NEW a \in Agents, AgentTurn(a)
      PROVE  HoldersAreOnTask'
  <2>1. Alone(a) /\ (Departs(a) \/ Drives(a) \/ Quits(a) \/ Stays(a))
    BY <1>5, TurnJourneys
  <2>2. CASE GiveUp(a)
    BY <1>3, <2>2 DEF NobodyGivesUp
  <2>3. CASE ~GiveUp(a)
    BY <1>1, <1>2, <2>1, <2>3 DEF Quits
  <2>4. QED
    BY <2>2, <2>3
<1>6. QED
  BY <1>3, <1>4, <1>5 DEF Next, Loop

\* Giving up is the one way out of a task that leaves cells reserved: as long as
\* nobody gives up, whoever holds cells follows a plan, whatever an operator, a
\* timeout, an emergency stop or an obstacle does.
THEOREM HoldersFollowPlans ==
  Spec /\ [][NobodyGivesUp]_vars => []HoldersAreOnTask
<1>1. Init => HoldersAreOnTask
  BY DEF Init, HoldersAreOnTask
<1>2. TaskInv /\ HoldersAreOnTask /\ [Next]_vars /\ [NobodyGivesUp]_vars
        => HoldersAreOnTask'
  BY HoldersStep
<1>3. QED
  BY <1>1, <1>2, TasksConsistent, PTL DEF Spec

-----------------------------------------------------------------------------
(* The ways of the agents are tracks                                         *)

\* Cells blocked by others are among those a plan avoids.
LEMMA DilateCovers ==
  ASSUME NEW B \in SUBSET Cells
  PROVE  B \subseteq Dilate(B)
<1>1. \A c \in Cells : Abs(c[1] - c[1]) = 0 /\ Abs(c[2] - c[2]) = 0
  BY DEF Cells, Abs
<1>2. 0 <= Inflate
  BY GridAssumption
<1>3. QED
  BY <1>1, <1>2 DEF Dilate

LEMMA WayType ==
  ASSUME TypeOK, NEW a \in Agents
  PROVE  /\ pose[a] \in Cells /\ path[a] \in Seq(Cells)
         /\ Way(a) \in Seq(Cells) /\ Way(a) # <<>> /\ Way(a)[1] = pose[a]
BY FullPathType DEF Way, TypeOK

OnTrack(a) == bstate[a] \in OnTask => IsTrack(Way(a), TaskGoal[task[a]])

\* An agent departs on a track that meets neither blocked nor reserved cells,
\* and reserves the cells the track meets.
LEMMA DepartsWay ==
  ASSUME Gridded, TaskInv, NEW a \in Agents, Departs(a)
  PROVE  /\ IsTrack(Way(a)', TaskGoal[task[a]])
         /\ Touched(Way(a)') \cap blocked = {}
         /\ Costmap => Touched(Way(a)') \cap BlockedFor(a) = {}
         /\ cells'[a] = IF Costmap THEN PolylineCells(Way(a)') ELSE {}
<1> DEFINE B == blocked \cup (IF Costmap THEN Dilate(BlockedFor(a)) ELSE {})
           g == TaskGoal[task[a]]
<1>1. PICK route \in Routes(a) : path'[a] = route /\ cells'[a] = ClaimedCells(a, route)
  BY DEF Departs
<1>2. route \in Plans(pose[a], g, B)
  BY <1>1 DEF Routes
<1>3. IsTrack(route, g) /\ route[1] = pose[a] /\ Touched(route) \cap B = {}
  BY <1>2, PlansAreTracks
<1>4. route # <<>> /\ route \in Seq(Cells)
  BY <1>3 DEF IsTrack
<1>5. FullPath(pose[a], route) = route
  BY <1>3, <1>4 DEF FullPath
<1>6. Way(a)' = route
  BY <1>1, <1>5 DEF Departs, Way
<1>7. pose[a] \in Cells
  BY DEF TaskInv, TypeOK
<1>8. CostmapCells(pose[a], route, g) = PolylineCells(route)
  BY <1>3, <1>4, <1>5, <1>7, CostmapOfTrack
<1>9. BlockedFor(a) \subseteq Dilate(BlockedFor(a))
  <2>1. BlockedFor(a) \in SUBSET Cells
    BY DEF BlockedFor, TaskInv, TypeOK
  <2>2. QED
    BY <2>1, DilateCovers
<1>10. QED
  BY <1>1, <1>3, <1>6, <1>8, <1>9 DEF ClaimedCells

\* Without an operator, dropping a waypoint does not change the way.
LEMMA StaysWay ==
  ASSUME TaskInv, "operator" \notin Externals, NEW a \in Agents, OnTrack(a),
         bstate[a] \in OnTask, Stays(a)
  PROVE  Way(a)' = Way(a) /\ task'[a] = task[a] /\ pose'[a] = pose[a]
<1>1. /\ pose'[a] = pose[a] /\ path'[a] \in {path[a], Remaining(a)}
      /\ task'[a] = task[a]
  BY DEF Stays
<1>2. pose[a] \in Cells /\ path[a] \in Seq(Cells)
  BY WayType DEF TaskInv
<1>3. IsTrack(FullPath(pose[a], path[a]), TaskGoal[task[a]])
  BY DEF OnTrack, Way
<1>4. FullPath(pose[a], Remaining(a)) = FullPath(pose[a], path[a])
  BY <1>2, <1>3, ReachedDropped DEF Remaining
<1>5. QED
  BY <1>1, <1>4 DEF Way

\* A tick of motion takes the next step of the track, or none; the cells are
\* those of what is left.
LEMMA DrivesWay ==
  ASSUME TaskInv, NEW a \in Agents, OnTrack(a), Drives(a)
  PROVE  LET w == Way(a)
             g == TaskGoal[task[a]]
         IN  /\ IsTrack(w, g) /\ w[1] # g
             /\ \/ /\ jammed[a] \/ TurnsInPlace(a)
                   /\ pose'[a] = w[1] /\ Way(a)' = w
                \/ Advances(a) /\ pose'[a] = w[2] /\ Way(a)' = Tail(w)
             /\ IsTrack(Way(a)', g)
             /\ PolylineCells(Way(a)') \subseteq PolylineCells(w)
             /\ Touched(Way(a)') \subseteq Touched(w)
             /\ cells'[a] = IF Costmap THEN PolylineCells(Way(a)') ELSE {}
<1> DEFINE w == Way(a)
           g == TaskGoal[task[a]]
           p == pose[a]
<1>1. p \in Cells /\ path[a] \in Seq(Cells) /\ w[1] = p
  BY WayType DEF TaskInv
<1>2. IsTrack(w, g) /\ p # g
  BY DEF OnTrack, Drives
<1>3. /\ Len(w) > 1 /\ w[2] \in Cells /\ CanStep(p, w[2], {})
      /\ Tail(w) # <<>> /\ Tail(w)[1] = w[2] /\ IsTrack(Tail(w), g)
  BY <1>1, <1>2, TrackTail
<1>4. Remaining(a) = Tail(w)
  BY <1>1, <1>2, TrackLeft DEF Remaining, Way
<1>5. Target(a) = w[2]
  <2>1. Head(Tail(w)) = w[2]
    BY <1>3
  <2>2. QED
    BY <1>3, <1>4, <2>1 DEF Target
<1>6. \/ (jammed[a] \/ TurnsInPlace(a)) /\ pose'[a] = p
      \/ Advances(a) /\ pose'[a] = w[2]
  BY <1>1, <1>3, <1>5, StepReaches
  DEF Drives, Applies, TurnsInPlace, Advances
<1>7. FullPath(p, Tail(w)) = w
  BY <1>1, <1>2, <1>4, ReachedDropped DEF Remaining, Way
<1>8. FullPath(w[2], Tail(w)) = Tail(w)
  BY <1>3 DEF FullPath
<1>9. Way(a)' = FullPath(pose'[a], Tail(w))
  BY <1>4 DEF Drives, Way
<1>10. \/ (jammed[a] \/ TurnsInPlace(a)) /\ pose'[a] = p /\ Way(a)' = w
       \/ Advances(a) /\ pose'[a] = w[2] /\ Way(a)' = Tail(w)
  BY <1>6, <1>7, <1>8, <1>9
<1>11. /\ PolylineCells(Tail(w)) \subseteq PolylineCells(w)
       /\ Touched(Tail(w)) \subseteq Touched(w)
  BY <1>1, <1>2, TailTouched
<1>12. IsTrack(Way(a)', g)
  BY <1>2, <1>3, <1>10
<1>13. CostmapCells(pose'[a], Tail(w), g) = PolylineCells(Way(a)')
  <2>1. pose'[a] \in Cells /\ Tail(w) \in Seq(Cells)
    BY <1>1, <1>3, <1>6 DEF IsTrack
  <2>2. QED
    BY <1>9, <1>12, <2>1, CostmapOfTrack
<1>14. cells'[a] = IF Costmap THEN PolylineCells(Way(a)') ELSE {}
  BY <1>4, <1>13 DEF Drives, RefreshedCells
<1> HIDE DEF w, g, p
<1>15. QED
  BY <1>1, <1>2, <1>10, <1>11, <1>12, <1>14 DEF w, g, p

\* Every step, seen from one agent.
LEMMA NextJourneys ==
  ASSUME TaskInv, [Next]_vars, NEW a \in Agents
  PROVE  (Departs(a) /\ Alone(a)) \/ Drives(a) \/ Quits(a) \/ Stays(a)
<1>1. CASE External \/ Step \/ Dispatch \/ UNCHANGED vars
  BY <1>1, RestJourneys DEF Quits
<1>2. CASE Obstacles
  <2>1. PICK b \in Agents : KeepPlan(b) \/ Replan(b) \/ BlockedOut(b)
    BY <1>2 DEF Obstacles
  <2>2. Alone(b) /\ (Stays(b) \/ Departs(b) \/ Quits(b))
    BY <2>1, ObstacleJourneys DEF Quits
  <2>3. QED
    BY <2>2, AloneStays
<1>3. ASSUME NEW b \in Agents, AgentTurn(b)
      PROVE  (Departs(a) /\ Alone(a)) \/ Drives(a) \/ Quits(a) \/ Stays(a)
  <2>1. Alone(b) /\ (Departs(b) \/ Drives(b) \/ Quits(b) \/ Stays(b))
    BY <1>3, TurnJourneys
  <2>2. QED
    BY <2>1, AloneStays
<1>4. QED
  BY <1>1, <1>2, <1>3 DEF Next, Loop

WaysInv == \A a \in Agents : OnTrack(a)

LEMMA WaysStep ==
  ASSUME Gridded, "operator" \notin Externals, TaskInv, WaysInv, [Next]_vars
  PROVE  WaysInv'
<1> SUFFICES ASSUME NEW a \in Agents, bstate'[a] \in OnTask
             PROVE  IsTrack(Way(a)', TaskGoal[task'[a]])
  BY DEF WaysInv, OnTrack
<1>1. OnTrack(a)
  BY DEF WaysInv
<1>2. CASE Departs(a)
  <2>1. task'[a] = task[a]
    BY <1>2 DEF Departs
  <2>2. QED
    BY <1>2, <2>1, DepartsWay
<1>3. CASE Drives(a)
  <2>1. task'[a] = task[a]
    BY <1>3 DEF Drives
  <2>2. IsTrack(Way(a)', TaskGoal[task[a]])
    BY <1>1, <1>3, DrivesWay
  <2>3. QED
    BY <2>1, <2>2
<1>4. CASE Quits(a)
  BY <1>4 DEF Quits, OnTask
<1>5. CASE Stays(a)
  <2>1. bstate[a] \in OnTask
    BY <1>5 DEF Stays
  <2>2. Way(a)' = Way(a) /\ task'[a] = task[a]
    BY <1>1, <1>5, <2>1, StaysWay
  <2>3. QED
    BY <1>1, <2>1, <2>2 DEF OnTrack
<1>6. QED
  BY <1>2, <1>3, <1>4, <1>5, NextJourneys

LEMMA WaysInit == Init => WaysInv
BY DEF Init, WaysInv, OnTrack, OnTask

-----------------------------------------------------------------------------
(* No cell is reserved twice                                                 *)

\* What an agent under way holds are the cells of its way.
HoldsWay(a) ==
  bstate[a] \in OnTask =>
    cells[a] = IF Costmap THEN PolylineCells(Way(a)) ELSE {}

\* No cell is held by two agents that are under way, whatever agents hold that
\* have given up.
UnderWayDisjoint ==
  \A a, b \in Agents :
    a # b /\ bstate[a] \in OnTask /\ bstate[b] \in OnTask
      => cells[a] \cap cells[b] = {}

CellInv == WaysInv /\ UnderWayDisjoint /\ \A a \in Agents : HoldsWay(a)

LEMMA HoldsWayStep ==
  ASSUME Gridded, "operator" \notin Externals, TaskInv, CellInv,
         [Next]_vars, NEW a \in Agents
  PROVE  /\ HoldsWay(a)'
         /\ \/ Departs(a) /\ Alone(a)
            \/ bstate[a] \in OnTask /\ cells'[a] \subseteq cells[a]
            \/ bstate'[a] \notin OnTask
<1>1. OnTrack(a) /\ HoldsWay(a)
  BY DEF CellInv, WaysInv
<1>2. CASE Departs(a) /\ Alone(a)
  <2>1. cells'[a] = IF Costmap THEN PolylineCells(Way(a)') ELSE {}
    BY <1>2, DepartsWay
  <2>2. QED
    BY <1>2, <2>1 DEF HoldsWay
<1>3. CASE Drives(a)
  <2>1. /\ cells'[a] = IF Costmap THEN PolylineCells(Way(a)') ELSE {}
        /\ PolylineCells(Way(a)') \subseteq PolylineCells(Way(a))
    BY <1>1, <1>3, DrivesWay
  <2>2. bstate[a] \in OnTask /\ bstate'[a] \in OnTask
    BY <1>3 DEF Drives
  <2>3. QED
    BY <1>1, <2>1, <2>2 DEF HoldsWay
<1>4. CASE Quits(a)
  BY <1>4 DEF Quits, HoldsWay, OnTask
<1>5. CASE Stays(a)
  <2>1. cells'[a] = cells[a] /\ (bstate'[a] \in OnTask <=> bstate[a] \in OnTask)
    BY <1>5 DEF Stays
  <2>2. bstate[a] \in OnTask => Way(a)' = Way(a)
    BY <1>1, <1>5, StaysWay
  <2>3. QED
    BY <1>1, <2>1, <2>2 DEF HoldsWay
<1>6. QED
  BY <1>2, <1>3, <1>4, <1>5, NextJourneys

LEMMA CellStep ==
  ASSUME Gridded, "operator" \notin Externals, TaskInv, CellInv, [Next]_vars
  PROVE  CellInv'
<1>1. WaysInv'
  BY WaysStep DEF CellInv
<1>2. \A a \in Agents : HoldsWay(a)'
  BY HoldsWayStep
<1>3. ASSUME NEW a \in Agents, NEW b \in Agents, a # b, Departs(a), Alone(a)
      PROVE  cells'[a] \cap cells'[b] = {}
  <2>1. /\ cells'[a] = IF Costmap THEN PolylineCells(Way(a)') ELSE {}
        /\ Costmap => Touched(Way(a)') \cap BlockedFor(a) = {}
    BY <1>3, DepartsWay
  <2>2. cells'[b] = cells[b]
    BY <1>3 DEF Alone
  <2>3. cells[b] \subseteq BlockedFor(a)
    BY <1>3 DEF BlockedFor
  <2>4. QED
    BY <2>1, <2>2, <2>3 DEF Touched
<1>4. ASSUME NEW a \in Agents, NEW b \in Agents, a # b,
             bstate'[a] \in OnTask, bstate'[b] \in OnTask
      PROVE  cells'[a] \cap cells'[b] = {}
  <2>1. CASE Departs(a) /\ Alone(a)
    BY <1>3, <1>4, <2>1
  <2>2. CASE Departs(b) /\ Alone(b)
    BY <1>3, <1>4, <2>2
  <2>3. CASE /\ bstate[a] \in OnTask /\ cells'[a] \subseteq cells[a]
             /\ bstate[b] \in OnTask /\ cells'[b] \subseteq cells[b]
    BY <1>4, <2>3 DEF CellInv, UnderWayDisjoint
  <2>4. QED
    BY <1>4, <2>1, <2>2, <2>3, HoldsWayStep
<1>5. QED
  BY <1>1, <1>2, <1>4 DEF CellInv, UnderWayDisjoint

LEMMA CellInit == Init => CellInv
BY WaysInit DEF Init, CellInv, UnderWayDisjoint, HoldsWay, OnTask

\* Without the costmap nobody holds a cell.
LEMMA NoCells ==
  ASSUME ~Costmap
  PROVE  Spec => [](\A a \in Agents : cells[a] = {})
<1> DEFINE I == \A a \in Agents : cells[a] = {}
<1>1. Init => I
  BY DEF Init
<1>2. ASSUME TaskInv, I, [Next]_vars
      PROVE  I'
  <2> SUFFICES ASSUME NEW a \in Agents PROVE cells'[a] = {}
    OBVIOUS
  <2>1. CASE Departs(a)
    BY <2>1 DEF Departs, ClaimedCells
  <2>2. CASE Drives(a)
    BY <2>2 DEF Drives, RefreshedCells
  <2>3. CASE Quits(a)
    <3>1. CASE GiveUp(a)
      BY <1>2, <3>1 DEF GiveUp, RefreshedCells, TaskInv, TypeOK
    <3>2. QED
      BY <2>3, <3>1 DEF Quits
  <2>4. CASE Stays(a)
    BY <1>2, <2>4 DEF Stays
  <2>5. QED
    BY <1>2, <2>1, <2>2, <2>3, <2>4, NextJourneys
<1>3. QED
  BY <1>1, <1>2, TasksConsistent, PTL DEF Spec

\* Where no operator drives, the cells that agents under way have reserved are
\* disjoint, also when others have given up and left cells behind: a plan goes
\* around all cells of the others, and driving on only gives cells back.
THEOREM UnderWayStayDisjoint ==
  ASSUME "operator" \notin Externals
  PROVE  Spec => []UnderWayDisjoint
<1>1. CASE Costmap
  <2>1. Gridded
    BY <1>1, ConfigAssumption
  <2>2. TaskInv /\ CellInv /\ [Next]_vars => CellInv'
    BY <2>1, CellStep
  <2>3. CellInv => UnderWayDisjoint
    BY DEF CellInv
  <2>4. QED
    BY <2>2, <2>3, CellInit, TasksConsistent, PTL DEF Spec
<1>2. CASE ~Costmap
  <2>1. (\A a \in Agents : cells[a] = {}) => UnderWayDisjoint
    BY DEF UnderWayDisjoint
  <2>2. QED
    BY <1>2, <2>1, NoCells, PTL
<1>3. QED
  BY <1>1, <1>2

\* An agent on its way holds the cell it is in.
LEMMA HoldsOwnCell ==
  ASSUME Costmap, TaskInv, CellInv, NEW a \in Agents,
         bstate[a] \in OnTask, pose[a] # TaskGoal[task[a]]
  PROVE  pose[a] \in cells[a]
<1> DEFINE w == Way(a)
<1>1. IsTrack(w, TaskGoal[task[a]]) /\ w[1] = pose[a]
  BY WayType DEF TaskInv, CellInv, WaysInv, OnTrack
<1>2. cells[a] = PolylineCells(w)
  BY DEF CellInv, HoldsWay
<1> HIDE DEF w
<1>3. /\ Len(w) > 1 /\ w[1] \in Cells /\ w[2] \in Cells
      /\ CanStep(w[1], w[2], {})
  BY <1>1, TrackTail
<1>4. w[1] \in SegmentCells(w[1], w[1 + 1])
  BY <1>3, StepCells
<1>5. Len(w) \in Nat
  BY <1>1, LenProperties DEF IsTrack
<1>6. 1 \in 1 .. Len(w) - 1
  BY <1>3, <1>5
<1>7. QED
  BY <1>1, <1>2, <1>4, <1>6 DEF PolylineCells

\* No two agents on their way are in one cell.  One that dwells at its goal has
\* given its last cell back, so others may pass through it.
NeverMeet ==
  \A a, b \in Agents :
    /\ a # b
    /\ bstate[a] \in OnTask /\ pose[a] # TaskGoal[task[a]]
    /\ bstate[b] \in OnTask /\ pose[b] # TaskGoal[task[b]]
    => pose[a] # pose[b]

\* What the reservations are for: where no operator drives, agents that are on
\* their way are never in the same cell, whoever is jammed, stopped, recovers,
\* gives up or is replanned.
THEOREM ReservationsKeepApart ==
  ASSUME Costmap, "operator" \notin Externals
  PROVE  Spec => []NeverMeet
<1>1. Gridded
  BY ConfigAssumption
<1>2. TaskInv /\ CellInv /\ [Next]_vars => CellInv'
  BY <1>1, CellStep
<1>3. TaskInv /\ CellInv => NeverMeet
  BY HoldsOwnCell DEF NeverMeet, CellInv, UnderWayDisjoint
<1>4. QED
  BY <1>2, <1>3, CellInit, TasksConsistent, PTL DEF Spec

\* Where nobody gives up either, no two agents hold the same cell, as those that
\* are not under way hold none.
THEOREM CellsStayDisjoint ==
  ASSUME "operator" \notin Externals
  PROVE  Spec /\ [][NobodyGivesUp]_vars => []CellsDisjoint
<1>1. HoldersAreOnTask /\ UnderWayDisjoint => CellsDisjoint
  <2>1. SUFFICES ASSUME HoldersAreOnTask, UnderWayDisjoint,
                        NEW a \in Agents, NEW b \in Agents, a # b
                 PROVE  cells[a] \cap cells[b] = {}
    BY DEF CellsDisjoint
  <2>2. CASE bstate[a] \in OnTask /\ bstate[b] \in OnTask
    BY <2>1, <2>2 DEF UnderWayDisjoint
  <2>3. CASE bstate[a] \notin OnTask \/ bstate[b] \notin OnTask
    BY <2>1, <2>3 DEF HoldersAreOnTask
  <2>4. QED
    BY <2>2, <2>3
<1>2. QED
  BY <1>1, HoldersFollowPlans, UnderWayStayDisjoint, PTL

-----------------------------------------------------------------------------
(* An undisturbed agent is never taken for stuck                             *)

NobodyStuck == \A a \in Agents : ~StartRecovery(a) /\ ~GiveUp(a)

NobodyJammed == \A a \in Agents : ~jammed[a]

LEMMA JamStep ==
  ASSUME "jam" \notin Externals, NobodyJammed, [Next]_vars
  PROVE  NobodyJammed'
<1>1. CASE External \/ Step
  BY <1>1
  DEF External, Submit, StartRun, Timeout, SetLifecycle, SetEstop, Teleop,
      ToggleLock, ToggleJam, StepPaused, Step, BeginStep, worldVars,
      NobodyJammed
<1>2. CASE Obstacles
  BY <1>2
  DEF Obstacles, KeepPlan, Replan, BlockedOut, ObstacleTurn, worldVars,
      NobodyJammed
<1>3. CASE Dispatch
  BY <1>3
  DEF Dispatch, Assign, Defer, Requeue, Resubmit, EndDispatch,
      DispatchUnchanged, worldVars, NobodyJammed
<1>4. ASSUME NEW a \in Agents, AgentTurn(a)
      PROVE  NobodyJammed'
  <2>1. Turn(a)
    BY <1>4
    DEF AgentTurn, SkipIdle, RejectStopped, LeaveToOperator, NoGoal, Yield,
        BeginExecution, WaitForCells, PlanFails, RestStill, Dwelling, Succeed,
        RejectLocked, DriveOn, StartRecovery, GiveUp, Driving, Moving,
        NeedsPlan, Going, Autonomous
  <2>2. QED
    BY <2>1 DEF Turn, worldVars, NobodyJammed
<1>5. CASE UNCHANGED vars
  BY <1>5 DEF vars, worldVars, NobodyJammed
<1>6. QED
  BY <1>1, <1>2, <1>3, <1>4, <1>5 DEF Next, Loop

\* A sample is one taken before, a new one, or none.
LEMMA SamplesKept ==
  ASSUME TypeOK, NEW a \in Agents, NEW k \in 0 .. StuckWindow
  PROVE  /\ Departs(a) => hist'[a][k] = NoCell
         /\ Stays(a) => \/ hist'[a][k] = NoCell
                        \/ \E j \in 0 .. StuckWindow : hist'[a][k] = hist[a][j]
         /\ Drives(a) => IF k = 0 THEN hist'[a][k] = pose'[a]
                         ELSE hist'[a][k] \in {NoCell, hist[a][k]}
<1>1. Empty[k] = NoCell
  BY DEF Empty
<1>2. Aged(hist[a])[k] = NoCell \/ \E j \in 0 .. StuckWindow : Aged(hist[a])[k] = hist[a][j]
  <2>1. CASE k = 0
    BY <2>1 DEF Aged
  <2>2. CASE k # 0
    <3>1. k - 1 \in 0 .. StuckWindow /\ Aged(hist[a])[k] = hist[a][k - 1]
      BY <2>2, ConfigAssumption DEF Aged
    <3>2. QED
      BY <3>1
  <2>3. QED
    BY <2>1, <2>2
<1>3. Departs(a) => hist'[a][k] = NoCell
  BY <1>1 DEF Departs
<1>4. Stays(a) => \/ hist'[a][k] = NoCell
                  \/ \E j \in 0 .. StuckWindow : hist'[a][k] = hist[a][j]
  BY <1>1, <1>2 DEF Stays
<1>5. Drives(a) => IF k = 0 THEN hist'[a][k] = pose'[a]
                   ELSE hist'[a][k] \in {NoCell, hist[a][k]}
  <2>1. History(a) \in {hist[a], Empty}
    BY DEF History
  <2>2. History(a) \in [0 .. StuckWindow -> Cells \cup {NoCell}]
    BY <2>1, EmptyType DEF TypeOK
  <2>3. Sampled(a)[k] = IF k = 0 THEN pose'[a] ELSE History(a)[k]
    BY <2>2 DEF Sampled
  <2>4. QED
    BY <1>1, <2>1, <2>3 DEF Drives
<1>6. QED
  BY <1>3, <1>4, <1>5

\* What makes the agent stuck: the oldest sample is the cell it comes to now.
LEMMA StuckMeans ==
  ASSUME TypeOK, NEW a \in Agents, StartRecovery(a) \/ GiveUp(a)
  PROVE  /\ Moving(a) /\ pose[a] # TaskGoal[task[a]]
         /\ Applies(a) /\ pose'[a] # NoCell
         /\ hist[a][StuckWindow] = pose'[a]
<1>1. /\ Moving(a) /\ pose[a] # TaskGoal[task[a]] /\ Stuck(Sampled(a))
      /\ Applies(a)
  BY ApplyOne DEF StartRecovery, GiveUp, Driving, AtGoal
<1>2. StuckWindow \in 0 .. StuckWindow /\ StuckWindow # 0 /\ 0 \in 0 .. StuckWindow
  BY ConfigAssumption
<1>3. History(a) \in {hist[a], Empty}
  BY DEF History
<1>4. History(a) \in [0 .. StuckWindow -> Cells \cup {NoCell}]
  BY <1>3, EmptyType DEF TypeOK
<1>5. /\ Sampled(a)[StuckWindow] = History(a)[StuckWindow]
      /\ Sampled(a)[0] = pose'[a]
  BY <1>2, <1>4 DEF Sampled
<1>6. Empty[StuckWindow] = NoCell
  BY <1>2 DEF Empty
<1>7. pose'[a] # NoCell /\ History(a)[StuckWindow] = pose'[a]
  BY <1>1, <1>5 DEF Stuck
<1>8. hist[a][StuckWindow] = pose'[a]
  BY <1>3, <1>6, <1>7
<1>9. QED
  BY <1>1, <1>7, <1>8

\* On the grid: no sample is a cell still ahead.
Fresh(a) ==
  bstate[a] \in OnTask =>
    \A k \in 0 .. StuckWindow, i \in 2 .. Len(Way(a)) : hist[a][k] # Way(a)[i]

LEMMA FreshStep ==
  ASSUME Gridded, "operator" \notin Externals, TaskInv, WaysInv, NobodyJammed,
         [Next]_vars, NEW a \in Agents, Fresh(a)
  PROVE  Fresh(a)'
<1> SUFFICES ASSUME bstate'[a] \in OnTask, NEW k \in 0 .. StuckWindow,
                    NEW i \in 2 .. Len(Way(a)')
             PROVE  hist'[a][k] # Way(a)'[i]
  BY DEF Fresh
<1>1. TypeOK /\ OnTrack(a) /\ NoCell \notin Cells
  BY ConfigAssumption DEF TaskInv, WaysInv
<1>2. Way(a)'[i] \in Cells /\ i \in 1 .. Len(Way(a)')
  <2>1. Way(a)' \in Seq(Cells)
    <3>1. TypeOK'
      BY <1>1, TypeStep
    <3>2. QED
      BY <3>1, FullPathType DEF Way, TypeOK
  <2>2. Len(Way(a)') \in Nat
    BY <2>1, LenProperties
  <2>3. i \in 1 .. Len(Way(a)')
    BY <2>2
  <2>4. QED
    BY <2>1, <2>3, ElementOfSeq
<1>3. CASE Departs(a)
  BY <1>1, <1>2, <1>3, SamplesKept
<1>4. CASE Drives(a)
  <2> DEFINE w == Way(a)
  <2>1. /\ IsTrack(w, TaskGoal[task[a]]) /\ w[1] # TaskGoal[task[a]]
        /\ \/ pose'[a] = w[1] /\ Way(a)' = w
           \/ pose'[a] = w[2] /\ Way(a)' = Tail(w)
    BY <1>1, <1>4, DrivesWay
  <2>2. /\ Len(w) > 1 /\ Len(Tail(w)) = Len(w) - 1
        /\ \A j \in 1 .. Len(w) - 1 : Tail(w)[j] = w[j + 1]
    BY <2>1, TrackTail
  <2>3. Len(w) \in Nat /\ \A m, n \in 1 .. Len(w) : w[m] = w[n] => m = n
    BY <2>1, LenProperties DEF IsTrack
  <2>4. bstate[a] \in OnTask
    BY <1>4 DEF Drives
  <2>5. \A m \in 2 .. Len(w) : hist[a][k] # w[m]
    BY <2>4 DEF Fresh
  <2>6. hist'[a][k] \in {pose'[a], NoCell, hist[a][k]}
    BY <1>1, <1>4, SamplesKept
  <2> HIDE DEF w
  <2>7. PICK m \in 2 .. Len(w) : Way(a)'[i] = w[m] /\ w[m] # pose'[a]
    <3>1. CASE pose'[a] = w[1] /\ Way(a)' = w
      BY <1>2, <2>2, <2>3, <3>1
    <3>2. CASE pose'[a] = w[2] /\ Way(a)' = Tail(w)
      <4>1. i + 1 \in 2 .. Len(w) /\ Way(a)'[i] = w[i + 1]
        BY <1>2, <2>2, <2>3, <3>2
      <4>2. i + 1 \in 1 .. Len(w) /\ 2 \in 1 .. Len(w) /\ i + 1 # 2
        BY <2>2, <2>3, <4>1
      <4>3. QED
        BY <2>3, <3>2, <4>1, <4>2
    <3>3. QED
      BY <2>1, <3>1, <3>2
  <2>8. QED
    BY <1>1, <1>2, <2>5, <2>6, <2>7
<1>5. CASE Quits(a)
  BY <1>5 DEF Quits, OnTask
<1>6. CASE Stays(a)
  <2>1. bstate[a] \in OnTask
    BY <1>6 DEF Stays
  <2>2. Way(a)' = Way(a)
    BY <1>1, <1>6, <2>1, StaysWay
  <2>3. \A j \in 0 .. StuckWindow : hist[a][j] # Way(a)[i]
    BY <2>1, <2>2 DEF Fresh
  <2>4. hist'[a][k] = NoCell \/ \E j \in 0 .. StuckWindow : hist'[a][k] = hist[a][j]
    BY <1>1, <1>6, SamplesKept
  <2>5. QED
    BY <1>1, <1>2, <2>2, <2>3, <2>4
<1>7. QED
  BY <1>3, <1>4, <1>5, <1>6, NextJourneys

\* So an agent does not come to a cell it was sampled in.
LEMMA FreshAhead ==
  ASSUME Gridded, TaskInv, WaysInv, NEW a \in Agents, Fresh(a), Moving(a),
         pose[a] # TaskGoal[task[a]], Advances(a)
  PROVE  \A k \in 0 .. StuckWindow : hist[a][k] # pose'[a]
<1> DEFINE w == Way(a)
           g == TaskGoal[task[a]]
<1>1. TypeOK /\ AgentsAgree /\ OnTrack(a)
  BY DEF TaskInv, WaysInv
<1>2. bstate[a] \in OnTask
  BY <1>1, MovingExecutes
<1>3. pose[a] \in Cells /\ path[a] \in Seq(Cells) /\ w[1] = pose[a]
  BY <1>1, WayType
<1>4. IsTrack(w, g)
  BY <1>1, <1>2 DEF OnTrack
<1>5. /\ Len(w) > 1 /\ w[2] \in Cells /\ CanStep(w[1], w[2], {})
      /\ Tail(w) # <<>> /\ Tail(w)[1] = w[2]
  BY <1>3, <1>4, TrackTail
<1>6. Remaining(a) = Tail(w)
  BY <1>3, <1>4, TrackLeft DEF Remaining, Way
<1>7. pose'[a] = w[2]
  <2>1. Target(a) = w[2]
    BY <1>5, <1>6 DEF Target
  <2>2. QED
    BY <1>3, <1>5, <2>1, StepReaches DEF Advances
<1>8. 2 \in 2 .. Len(w)
  BY <1>4, <1>5, LenProperties DEF IsTrack
<1>9. QED
  BY <1>2, <1>7, <1>8 DEF Fresh

\* On the straight line: the goal is the next waypoint or the one behind the
\* cell the agent is in, and no sample is nearer to it than the agent.
Far(c, g) == Larger(Abs(g[1] - c[1]), Abs(g[2] - c[2]))

Straight(a) ==
  bstate[a] \in OnTask =>
    LET g == TaskGoal[task[a]]
    IN  /\ path[a] \in {<<pose[a], g>>, <<g>>}
        /\ \A k \in 0 .. StuckWindow :
             hist[a][k] # NoCell => Far(hist[a][k], g) >= Far(pose[a], g)

LEMMA StraightGoal ==
  ASSUME TypeOK, NEW a \in Agents, bstate[a] \in OnTask,
         path[a] \in {<<pose[a], TaskGoal[task[a]]>>, <<TaskGoal[task[a]]>>}
  PROVE  TaskGoal[task[a]] \in Cells
<1> DEFINE g == TaskGoal[task[a]]
<1>1. path[a] \in Seq(Cells)
  BY DEF TypeOK
<1> HIDE DEF g
<1>2. CASE path[a] = <<pose[a], g>>
  <2>1. Len(path[a]) = 2 /\ path[a][2] = g
    BY <1>2
  <2>2. QED
    BY <1>1, <2>1, ElementOfSeq DEF g
<1>3. CASE path[a] = <<g>>
  <2>1. Len(path[a]) = 1 /\ path[a][1] = g
    BY <1>3
  <2>2. QED
    BY <1>1, <2>1, ElementOfSeq DEF g
<1>4. QED
  BY <1>2, <1>3 DEF g

\* A tick of motion brings the agent nearer to the goal.
LEMMA StepsNearer ==
  ASSUME NEW p \in Cells, NEW g \in Cells, p # g
  PROVE  /\ Far(p, g) \in Nat
         /\ Far(StepToward(p, g), g) \in Nat
         /\ Far(StepToward(p, g), g) < Far(p, g)
<1> DEFINE x == g[1] - p[1]
           y == g[2] - p[2]
<1>1. /\ p[1] \in Int /\ p[2] \in Int /\ g[1] \in Int /\ g[2] \in Int
      /\ p = <<p[1], p[2]>> /\ g = <<g[1], g[2]>>
  BY DEF Cells
<1>2. x \in Int /\ y \in Int /\ (x # 0 \/ y # 0)
  BY <1>1
<1>3. Far(p, g) = Larger(Abs(x), Abs(y))
  BY DEF Far
<1>4. Far(StepToward(p, g), g) = Larger(Abs(x - Sign(x)), Abs(y - Sign(y)))
  <2>1. StepToward(p, g)[1] = p[1] + Sign(x) /\ StepToward(p, g)[2] = p[2] + Sign(y)
    BY DEF StepToward
  <2>2. Sign(x) \in Int /\ Sign(y) \in Int
    BY DEF Sign
  <2>3. g[1] - (p[1] + Sign(x)) = x - Sign(x) /\ g[2] - (p[2] + Sign(y)) = y - Sign(y)
    BY <1>1, <2>2
  <2>4. QED
    BY <2>1, <2>3 DEF Far
<1> HIDE DEF x, y
<1>5. \A z \in Int : /\ Abs(z) \in Nat /\ Abs(z - Sign(z)) \in Nat
                     /\ z # 0 => Abs(z - Sign(z)) = Abs(z) - 1
                     /\ z = 0 => Abs(z - Sign(z)) = 0
                     /\ Abs(z) = 0 <=> z = 0
  BY DEF Abs, Sign
<1>6. QED
  BY <1>2, <1>3, <1>4, <1>5 DEF Larger

LEMMA StraightStep ==
  ASSUME ~Gridded, "operator" \notin Externals, TaskInv, NobodyJammed,
         [Next]_vars, NEW a \in Agents, Straight(a)
  PROVE  Straight(a)'
<1> SUFFICES ASSUME bstate'[a] \in OnTask PROVE Straight(a)'
  BY DEF Straight
<1> DEFINE g == TaskGoal[task[a]]
<1>1. TypeOK /\ pose[a] \in Cells
  BY DEF TaskInv, TypeOK
<1>2. CASE Departs(a)
  <2>1. path'[a] = <<pose[a], g>>
    BY <1>2 DEF Departs, Routes, Plans
  <2>2. \A k \in 0 .. StuckWindow : hist'[a][k] = NoCell
    BY <1>1, <1>2, SamplesKept
  <2>3. QED
    BY <1>2, <2>1, <2>2 DEF Departs, Straight
<1>3. ASSUME bstate[a] \in OnTask
      PROVE  /\ Remaining(a) = <<g>>
             /\ path[a] \in {<<pose[a], g>>, <<g>>}
             /\ \A k \in 0 .. StuckWindow :
                  hist[a][k] # NoCell => Far(hist[a][k], g) >= Far(pose[a], g)
  <2>1. /\ path[a] \in {<<pose[a], g>>, <<g>>}
        /\ \A k \in 0 .. StuckWindow :
             hist[a][k] # NoCell => Far(hist[a][k], g) >= Far(pose[a], g)
    BY <1>3 DEF Straight
  <2>2. Remaining(a) = <<g>>
    <3>1. CASE path[a] = <<pose[a], g>>
      <4>1. Len(path[a]) > 1 /\ path[a][1] = pose[a] /\ Tail(path[a]) = <<g>>
        BY <3>1
      <4>2. QED
        BY <4>1 DEF Remaining, AfterReached
    <3>2. CASE path[a] = <<g>>
      BY <3>2 DEF Remaining, AfterReached
    <3>3. QED
      BY <2>1, <3>1, <3>2
  <2>3. QED
    BY <2>1, <2>2
<1>4. CASE Drives(a)
  <2>1. /\ bstate[a] \in OnTask /\ task'[a] = task[a] /\ pose[a] # g
        /\ Applies(a) /\ path'[a] = Remaining(a)
    BY <1>4 DEF Drives
  <2>2. Remaining(a) = <<g>>
    BY <1>3, <2>1
  <2>3. pose'[a] \in {pose[a], StepToward(pose[a], g)}
    <3>1. Target(a) = g
      BY <2>2 DEF Target
    <3>2. QED
      BY <2>1, <3>1 DEF Applies, TurnsInPlace, Advances
  <2>4. g \in Cells
    BY <1>1, <1>3, <2>1, StraightGoal
  <2>5. /\ Far(pose[a], g) \in Nat /\ Far(pose'[a], g) \in Nat
        /\ Far(pose'[a], g) <= Far(pose[a], g)
    BY <1>1, <2>1, <2>3, <2>4, StepsNearer
  <2>6. ASSUME NEW k \in 0 .. StuckWindow, hist'[a][k] # NoCell
        PROVE  Far(hist'[a][k], g) >= Far(pose'[a], g)
    <3>1. CASE hist'[a][k] = pose'[a]
      BY <2>5, <3>1
    <3>2. CASE hist'[a][k] = hist[a][k]
      <4>1. hist[a][k] \in Cells
        <5>1. hist[a] \in [0 .. StuckWindow -> Cells \cup {NoCell}]
          BY <1>1 DEF TypeOK
        <5>2. hist[a][k] \in Cells \cup {NoCell}
          BY <5>1
        <5>3. QED
          BY <2>6, <3>2, <5>2
      <4>2. Far(hist[a][k], g) \in Int
        BY <2>4, <4>1 DEF Far, Larger, Abs, Cells
      <4>3. Far(hist[a][k], g) >= Far(pose[a], g)
        BY <1>3, <2>1, <2>6, <3>2
      <4>4. QED
        BY <2>5, <3>2, <4>2, <4>3
    <3>3. QED
      BY <1>1, <1>4, <2>6, <3>1, <3>2, SamplesKept
  <2>7. QED
    BY <2>1, <2>2, <2>6 DEF Straight
<1>5. CASE Quits(a)
  BY <1>5 DEF Quits, OnTask
<1>6. CASE Stays(a)
  <2>1. /\ bstate[a] \in OnTask /\ task'[a] = task[a] /\ pose'[a] = pose[a]
        /\ path'[a] \in {path[a], Remaining(a)}
    BY <1>6 DEF Stays
  <2>2. path'[a] \in {<<pose[a], g>>, <<g>>}
    BY <1>3, <2>1
  <2>3. ASSUME NEW k \in 0 .. StuckWindow, hist'[a][k] # NoCell
        PROVE  Far(hist'[a][k], g) >= Far(pose[a], g)
    <3>1. PICK j \in 0 .. StuckWindow : hist'[a][k] = hist[a][j]
      BY <1>1, <1>6, <2>3, SamplesKept
    <3>2. QED
      BY <1>3, <2>1, <2>3, <3>1
  <2>4. QED
    BY <2>1, <2>2, <2>3 DEF Straight
<1>7. QED
  BY <1>2, <1>4, <1>5, <1>6, NextJourneys

LEMMA StraightAhead ==
  ASSUME ~Gridded, TaskInv, NEW a \in Agents, Straight(a), Moving(a),
         pose[a] # TaskGoal[task[a]], pose'[a] # NoCell, Advances(a)
  PROVE  \A k \in 0 .. StuckWindow : hist[a][k] # pose'[a]
<1> DEFINE g == TaskGoal[task[a]]
<1>1. TypeOK /\ AgentsAgree /\ pose[a] \in Cells
  BY DEF TaskInv, TypeOK
<1>2. bstate[a] \in OnTask
  BY <1>1, MovingExecutes
<1>3. /\ path[a] \in {<<pose[a], g>>, <<g>>}
      /\ \A k \in 0 .. StuckWindow :
           hist[a][k] # NoCell => Far(hist[a][k], g) >= Far(pose[a], g)
  BY <1>2 DEF Straight
<1>4. g \in Cells
  BY <1>1, <1>2, <1>3, StraightGoal
<1>5. Remaining(a) = <<g>>
  <2>1. CASE path[a] = <<pose[a], g>>
    <3>1. Len(path[a]) > 1 /\ path[a][1] = pose[a] /\ Tail(path[a]) = <<g>>
      BY <2>1
    <3>2. QED
      BY <3>1 DEF Remaining, AfterReached
  <2>2. CASE path[a] = <<g>>
    BY <2>2 DEF Remaining, AfterReached
  <2>3. QED
    BY <1>3, <2>1, <2>2
<1>6. pose'[a] = StepToward(pose[a], g)
  <2>1. Target(a) = g
    BY <1>5 DEF Target
  <2>2. QED
    BY <2>1 DEF Advances
<1>7. /\ Far(pose[a], g) \in Nat /\ Far(pose'[a], g) \in Nat
      /\ Far(pose'[a], g) < Far(pose[a], g)
  BY <1>1, <1>4, <1>6, StepsNearer
<1>8. SUFFICES ASSUME NEW k \in 0 .. StuckWindow, hist[a][k] = pose'[a]
               PROVE  FALSE
  OBVIOUS
<1>9. Far(pose'[a], g) >= Far(pose[a], g)
  BY <1>3, <1>8
<1>10. QED
  BY <1>7, <1>9

AheadInv ==
  IF Gridded THEN WaysInv /\ \A a \in Agents : Fresh(a)
  ELSE \A a \in Agents : Straight(a)

LEMMA AheadInit == Init => AheadInv
<1>1. Init => \A a \in Agents : Fresh(a) /\ Straight(a)
  BY DEF Init, Fresh, Straight, OnTask
<1>2. QED
  BY <1>1, WaysInit DEF AheadInv

LEMMA AheadStep ==
  ASSUME "operator" \notin Externals, TaskInv, NobodyJammed, AheadInv,
         [Next]_vars
  PROVE  AheadInv'
<1>1. CASE Gridded
  BY <1>1, FreshStep, WaysStep DEF AheadInv
<1>2. CASE ~Gridded
  BY <1>2, StraightStep DEF AheadInv
<1>3. QED
  BY <1>1, <1>2

LEMMA NoSampleAhead ==
  ASSUME TaskInv, AheadInv, NEW a \in Agents, Moving(a),
         pose[a] # TaskGoal[task[a]], pose'[a] # NoCell, Advances(a)
  PROVE  \A k \in 0 .. StuckWindow : hist[a][k] # pose'[a]
BY FreshAhead, StraightAhead DEF AheadInv

-----------------------------------------------------------------------------
(* An agent that turns in place shortly is not taken for stuck either        *)

\* No stop, lock or command of an operator ever comes between two ticks.
Uninterrupted ==
  /\ {"tools", "lock", "operator"} \cap Externals = {}
  /\ Humanoids = {} /\ Robots = {}

\* The agents need not turn, or always do so within the stuck window.
QuickTurns ==
  \/ \A a \in Agents : TurnTicks[a] = 0
  \/ Uninterrupted /\ \A a \in Agents : TurnTicks[a] < StuckWindow

\* A loop over the agents begins with the first one.
TurnsFromFirst == pc \notin {"obstacles", "turns"} => turn = 1

\* The clock has ticked for agent a, and its iteration is still to come.
Due(a) ==
  IF \/ pc \in {"obstacles", "dispatch", "requeue"}
     \/ pc = "turns" /\ turn <= a
  THEN 1 ELSE 0

\* The samples of the cell the agent is in are those of its present turn.
Recent(a) ==
  bstate[a] \in OnTask /\ pose[a] # TaskGoal[task[a]] =>
    \A k \in 0 .. StuckWindow : hist[a][k] = pose[a] => k <= turned[a] + Due(a)

Unhindered(a) ==
  ~estop[a] /\ hold[a] = 0 /\ ~locked[a] /\ bstate[a] # "recovering"

Pace ==
  /\ TurnsFromFirst
  /\ \A a \in Agents : Unhindered(a) /\ Recent(a)

LEMMA TurnsStep ==
  ASSUME TurnsFromFirst, [Next]_vars
  PROVE  TurnsFromFirst'
<1>1. ASSUME NEW a \in Agents, AgentTurn(a)
      PROVE  TurnsFromFirst'
  <2>1. Turn(a)
    BY <1>1
    DEF AgentTurn, SkipIdle, RejectStopped, LeaveToOperator, NoGoal, Yield,
        BeginExecution, WaitForCells, PlanFails, RestStill, Dwelling, Succeed,
        RejectLocked, DriveOn, StartRecovery, GiveUp, Driving, Moving,
        NeedsPlan, Going, Autonomous
  <2>2. QED
    BY <2>1 DEF Turn, MoveOn, TurnsFromFirst
<1>2. CASE Obstacles
  BY <1>2
  DEF Obstacles, KeepPlan, Replan, BlockedOut, ObstacleTurn, MoveOn,
      TurnsFromFirst
<1>3. CASE External \/ Step
  BY <1>3
  DEF External, Submit, StartRun, Timeout, SetLifecycle, SetEstop, Teleop,
      ToggleLock, ToggleJam, StepPaused, Step, BeginStep, TurnsFromFirst,
      stepVars
<1>4. CASE Dispatch
  BY <1>4
  DEF Dispatch, Assign, Defer, Requeue, Resubmit, EndDispatch, TurnsFromFirst
<1>5. CASE UNCHANGED vars
  BY <1>5 DEF vars, stepVars, TurnsFromFirst
<1>6. QED
  BY <1>1, <1>2, <1>3, <1>4, <1>5 DEF Next, Loop

\* Nothing but the agent's own iteration makes Due(a) smaller.
LEMMA DueStep ==
  ASSUME TurnsFromFirst, NEW a \in Agents,
         \/ External /\ ~StepPaused
         \/ Obstacles \/ Dispatch \/ UNCHANGED vars
         \/ \E b \in Agents : b # a /\ Turn(b)
  PROVE  Due(a)' >= Due(a)
<1>1. a \in Nat /\ a >= 1 /\ NAgents \in Nat
  BY FleetAssumption DEF Agents
<1>2. Due(a) \in {0, 1} /\ Due(a)' \in {0, 1}
  BY DEF Due
<1>3. CASE External /\ ~StepPaused
  <2>1. Due(a) = 0 \/ UNCHANGED <<pc, turn>>
    BY <1>3
    DEF External, Submit, StartRun, Timeout, SetLifecycle, SetEstop, Teleop,
        ToggleLock, ToggleJam, Due, stepVars
  <2>2. QED
    BY <1>2, <2>1 DEF Due
<1>4. CASE Obstacles
  <2>1. PICK b \in Agents : ObstacleTurn(b)
    BY <1>4 DEF Obstacles, KeepPlan, Replan, BlockedOut
  <2>2. Due(a)' = 1
    BY <1>1, <2>1 DEF ObstacleTurn, MoveOn, AfterObstacles, Due
  <2>3. QED
    BY <1>2, <2>2
<1>5. CASE Dispatch
  <2>1. turn' = turn /\ turn = 1
    BY <1>5
    DEF Dispatch, Assign, Defer, Requeue, Resubmit, EndDispatch,
        TurnsFromFirst
  <2>2. \/ Due(a) = 0
        \/ pc \in {"dispatch", "requeue"}
           /\ pc' \in {"dispatch", "requeue", "turns"}
    BY <1>5
    DEF Dispatch, Assign, Defer, Requeue, Resubmit, EndDispatch, Due
  <2>3. QED
    BY <1>1, <1>2, <2>1, <2>2 DEF Due
<1>6. CASE UNCHANGED vars
  BY <1>2, <1>6 DEF vars, stepVars, Due
<1>7. ASSUME NEW b \in Agents, b # a, Turn(b)
      PROVE  Due(a)' >= Due(a)
  <2>1. /\ pc = "turns" /\ turn = b /\ b \in Nat /\ b <= NAgents
        /\ IF turn = NAgents THEN turn' = 1 /\ pc' = "ready"
           ELSE turn' = turn + 1 /\ pc' = pc
    BY <1>1, <1>7 DEF Turn, MoveOn, Agents
  <2>2. a <= NAgents
    BY DEF Agents
  <2>3. CASE b < a
    <3>1. pc' = "turns" /\ turn' = b + 1 /\ b + 1 <= a
      BY <1>1, <2>1, <2>2, <2>3
    <3>2. Due(a)' = 1
      BY <3>1 DEF Due
    <3>3. QED
      BY <1>2, <3>2
  <2>4. CASE ~(b < a)
    <3>1. ~(turn <= a)
      BY <1>1, <1>7, <2>1, <2>4
    <3>2. Due(a) = 0
      BY <2>1, <3>1 DEF Due
    <3>3. QED
      BY <1>2, <3>2
  <2>5. QED
    BY <2>3, <2>4
<1>8. QED
  BY <1>3, <1>4, <1>5, <1>6, <1>7

\* Whatever keeps the agent where it is, without a sample, keeps the pace.
LEMMA RecentKept ==
  ASSUME TypeOK, TypeOK', NEW a \in Agents, Recent(a),
         \/ bstate'[a] \notin OnTask
         \/ hist'[a] = Empty
         \/ task'[a] = task[a] /\ pose'[a] = TaskGoal[task[a]]
         \/ /\ bstate[a] \in OnTask /\ Due(a)' >= Due(a)
            /\ task'[a] = task[a] /\ pose'[a] = pose[a]
            /\ hist'[a] = hist[a] /\ turned'[a] = turned[a]
  PROVE  Recent(a)'
<1> SUFFICES ASSUME bstate'[a] \in OnTask, pose'[a] # TaskGoal[task'[a]],
                    NEW k \in 0 .. StuckWindow, hist'[a][k] = pose'[a]
             PROVE  k <= turned'[a] + Due(a)'
  BY DEF Recent
<1>1. pose'[a] # NoCell
  BY ConfigAssumption DEF TypeOK
<1>2. CASE hist'[a] = Empty
  BY <1>1, <1>2 DEF Empty
<1>3. CASE /\ bstate[a] \in OnTask /\ Due(a)' >= Due(a)
           /\ task'[a] = task[a] /\ pose'[a] = pose[a]
           /\ hist'[a] = hist[a] /\ turned'[a] = turned[a]
  <2>1. k <= turned[a] + Due(a)
    BY <1>3 DEF Recent
  <2>2. turned[a] \in Nat /\ Due(a) \in Nat /\ Due(a)' \in Nat
    BY DEF TypeOK, Due
  <2>3. QED
    BY <1>3, <2>1, <2>2
<1>4. QED
  BY <1>2, <1>3

\* The clock ages the samples and calls every agent to its iteration.
LEMMA RecentTick ==
  ASSUME TypeOK, TypeOK', TurnsFromFirst, NEW a \in Agents, Recent(a),
         pc \in {"ready", "first"}, BeginStep
  PROVE  Recent(a)'
<1>1. UNCHANGED <<turn, bstate, task, pose, turned>> /\ hist'[a] = Aged(hist[a])
  BY DEF BeginStep
<1> SUFFICES ASSUME bstate[a] \in OnTask, pose[a] # TaskGoal[task[a]],
                    NEW k \in 0 .. StuckWindow, hist'[a][k] = pose[a]
             PROVE  k <= turned[a] + Due(a)'
  BY <1>1 DEF Recent
<1>2. Due(a) = 0
  BY DEF Due
<1>3. Due(a)' = 1
  <2>1. pc' \in {"obstacles", "dispatch", "turns"} /\ turn' = 1
    BY <1>1 DEF BeginStep, AfterObstacles, TurnsFromFirst
  <2>2. a \in Nat /\ 1 <= a
    BY DEF Agents
  <2>3. QED
    BY <2>1, <2>2 DEF Due
<1>4. pose[a] # NoCell /\ turned[a] \in Nat
  BY ConfigAssumption DEF TypeOK
<1>5. k # 0
  BY <1>1, <1>4 DEF Aged
<1>6. k - 1 \in 0 .. StuckWindow /\ hist[a][k - 1] = pose[a]
  BY <1>1, <1>5, ConfigAssumption DEF Aged
<1>7. k - 1 <= turned[a] + Due(a)
  BY <1>6 DEF Recent
<1>8. QED
  BY <1>2, <1>3, <1>4, <1>7

\* The steps that are not the agent's own iteration.
LEMMA RecentRest ==
  ASSUME TaskInv, TypeOK', TurnsFromFirst, "operator" \notin Externals,
         NEW a \in Agents, Recent(a),
         External \/ Step \/ Dispatch \/ UNCHANGED vars
  PROVE  Recent(a)'
<1>1. TypeOK /\ AgentsAgree
  BY DEF TaskInv
<1>2. CASE StepPaused \/ Step
  BY <1>1, <1>2, RecentTick DEF StepPaused, Step
<1>3. ASSUME UNCHANGED <<task, bstate, pose, hist, turned>>,
             Due(a)' >= Due(a)
      PROVE  Recent(a)'
  BY <1>1, <1>3, RecentKept
<1>4. CASE External /\ ~StepPaused
  <2>1. Due(a)' >= Due(a)
    BY <1>4, DueStep
  <2>2. CASE Timeout
    <3>1. hist'[a] = IF task[a] # NoTask THEN Empty ELSE hist[a]
      BY <2>2 DEF Timeout
    <3>2. task[a] = NoTask => bstate'[a] = "idle"
      BY <1>1, <2>2 DEF Timeout, AgentsAgree, BusyIffTasked
    <3>3. QED
      BY <1>1, <3>1, <3>2, RecentKept DEF OnTask
  <2>3. CASE ~Timeout
    <3>1. UNCHANGED <<task, bstate, pose, hist, turned>>
      BY <1>4, <2>3
      DEF External, Submit, StartRun, SetLifecycle, SetEstop, Teleop,
          ToggleLock, ToggleJam, navVars
    <3>2. QED
      BY <1>3, <2>1, <3>1
  <2>4. QED
    BY <2>2, <2>3
<1>5. CASE Dispatch
  <2>1. Due(a)' >= Due(a)
    BY <1>5, DueStep
  <2>2. UNCHANGED <<pose, hist, turned>>
    BY <1>5
    DEF Dispatch, Assign, Defer, Requeue, Resubmit, EndDispatch,
        DispatchUnchanged, navVars
  <2>3. ASSUME NEW b \in Agents, Assign(b)
        PROVE  Recent(a)'
    <3>1. Gets(b, Head(queue))
      BY <1>1, <2>3, AssignGets DEF TaskInv
    <3>2. bstate'[b] = "assigned" /\ (b # a => task'[a] = task[a] /\ bstate'[a] = bstate[a])
      BY <1>1, <3>1 DEF Gets, TypeOK
    <3>3. CASE b = a
      BY <1>1, <3>2, <3>3, RecentKept DEF OnTask
    <3>4. CASE b # a
      BY <1>1, <2>1, <2>2, <3>2, <3>4, RecentKept
    <3>5. QED
      BY <3>3, <3>4
  <2>4. CASE Defer \/ Requeue \/ Resubmit \/ EndDispatch
    <3>1. UNCHANGED <<task, bstate>>
      BY <2>4 DEF Defer, Requeue, Resubmit, EndDispatch
    <3>2. QED
      BY <1>3, <2>1, <2>2, <3>1
  <2>5. QED
    BY <1>5, <2>3, <2>4 DEF Dispatch
<1>6. CASE UNCHANGED vars
  <2>1. Due(a)' >= Due(a)
    BY <1>6, DueStep
  <2>2. QED
    BY <1>3, <1>6, <2>1 DEF vars, navVars
<1>7. QED
  BY <1>2, <1>4, <1>5, <1>6

LEMMA RecentObstacles ==
  ASSUME TaskInv, TypeOK', TurnsFromFirst, NEW a \in Agents, Recent(a),
         NEW b \in Agents, KeepPlan(b) \/ Replan(b) \/ BlockedOut(b)
  PROVE  Recent(a)'
<1>1. TypeOK
  BY DEF TaskInv
<1>2. Due(a)' >= Due(a)
  BY DueStep DEF Obstacles
<1>3. /\ Alone(b)
      /\ KeepPlan(b) \/ Departs(b) \/ bstate'[b] = "idle"
  BY ObstacleJourneys
<1>4. turned'[a] = turned[a] \/ (a = b /\ Replan(b))
  <2>1. turned' = turned \/ (Replan(b) /\ turned' = [turned EXCEPT ![b] = 0])
    BY DEF KeepPlan, Replan, BlockedOut
  <2>2. QED
    BY <1>1, <2>1 DEF TypeOK
<1>5. CASE a # b
  BY <1>1, <1>2, <1>3, <1>4, <1>5, RecentKept DEF Alone
<1>6. CASE a = b /\ KeepPlan(b)
  BY <1>1, <1>2, <1>6, RecentKept DEF KeepPlan, ObstacleTurn, navVars
<1>7. CASE a = b /\ Departs(b)
  BY <1>1, <1>7, RecentKept DEF Departs
<1>8. CASE a = b /\ bstate'[b] = "idle"
  BY <1>1, <1>8, RecentKept DEF OnTask
<1>9. QED
  BY <1>3, <1>5, <1>6, <1>7, <1>8

LEMMA OthersTurned ==
  ASSUME TypeOK, NEW b \in Agents, AgentTurn(b)
  PROVE  \A a \in Agents : a # b => turned'[a] = turned[a]
<1>1. \/ turned' = turned
      \/ turned' = [turned EXCEPT ![b] = 0]
      \/ turned' = [turned EXCEPT ![b] = @ + 1]
  BY DEF AgentTurn, SkipIdle, RejectStopped, LeaveToOperator, NoGoal, Yield,
     BeginExecution, WaitForCells, PlanFails, RestStill, Dwelling, Succeed,
     RejectLocked, DriveOn, StartRecovery, GiveUp, Driving, Standing, Apply,
     TurnInPlace, Advance
<1>2. QED
  BY <1>1 DEF TypeOK

LEMMA HistoryType ==
  ASSUME TypeOK, NEW a \in Agents
  PROVE  History(a) \in [0 .. StuckWindow -> Cells \cup {NoCell}]
BY EmptyType DEF History, TypeOK

\* An agent that follows a plan has a goal to go to.
LEMMA PlanHasGoal ==
  ASSUME TypeOK, PlanEndsAtGoal, NEW a \in Agents, bstate[a] \in OnTask
  PROVE  TaskGoal[task[a]] # NoCell
<1>1. /\ path[a] \in Seq(Cells) /\ path[a] # <<>>
      /\ path[a][Len(path[a])] = TaskGoal[task[a]]
  BY DEF PlanEndsAtGoal, TypeOK
<1>2. Len(path[a]) \in 1 .. Len(path[a])
  BY <1>1, EmptySeq, LenProperties
<1>3. TaskGoal[task[a]] \in Cells
  BY <1>1, <1>2, ElementOfSeq
<1>4. QED
  BY <1>3, ConfigAssumption

\* What an agent's own iteration does to its pace, unless it is stuck: it turns
\* on, drives on to a cell without a sample, or has no need to move.
LEMMA RecentTurn ==
  ASSUME TaskInv, TypeOK', PlanEndsAtGoal, AheadInv, NobodyJammed,
         NEW a \in Agents, Recent(a), Unhindered(a), AgentTurn(a),
         ~StartRecovery(a), ~GiveUp(a)
  PROVE  Recent(a)'
<1>1. TypeOK /\ AgentsAgree
  BY DEF TaskInv
<1>2. CASE SkipIdle(a)
  BY <1>1, <1>2, RecentKept
  DEF SkipIdle, Standing, AgentsAgree, BusyIffTasked, OnTask
<1>3. CASE RejectStopped(a) \/ LeaveToOperator(a) \/ RestStill(a)
           \/ RejectLocked(a)
  BY <1>1, <1>3
  DEF RejectStopped, LeaveToOperator, RestStill, RejectLocked, Unhindered,
      TypeOK
<1>4. CASE NoGoal(a)
  <2>1. bstate[a] \notin OnTask
    BY <1>1, <1>4, PlanHasGoal DEF NoGoal
  <2>2. bstate' = bstate
    BY <1>4 DEF NoGoal, Standing
  <2>3. QED
    BY <1>1, <2>1, <2>2, RecentKept
<1>5. CASE Yield(a)
  <2>1. hist'[a] = Empty
    BY <1>1, <1>5 DEF Yield, TypeOK
  <2>2. QED
    BY <1>1, <2>1, RecentKept
<1>6. CASE BeginExecution(a)
  <2>1. hist'[a] = Empty
    BY <1>1, <1>6 DEF BeginExecution, TypeOK
  <2>2. QED
    BY <1>1, <2>1, RecentKept
<1>7. CASE WaitForCells(a)
  <2>1. PlanningState(a) \in {"planning", "reserving"}
    BY <1>7, PlanningStates DEF WaitForCells
  <2>2. bstate' = [bstate EXCEPT ![a] = "reserving"]
    BY <1>7, <2>1, Transitions DEF WaitForCells
  <2>3. bstate'[a] \notin OnTask
    BY <1>1, <2>2 DEF TypeOK, OnTask
  <2>4. QED
    BY <1>1, <2>3, RecentKept
<1>8. CASE PlanFails(a) \/ Succeed(a)
  <2>1. hist'[a] = Empty
    BY <1>1, <1>8 DEF PlanFails, Succeed, EndTask, ClearNav, TypeOK
  <2>2. QED
    BY <1>1, <2>1, RecentKept
<1>9. CASE Dwelling(a)
  BY <1>1, <1>9, RecentKept DEF Dwelling, AtGoal
<1>10. CASE DriveOn(a)
  <2>1. /\ Moving(a) /\ pose[a] # TaskGoal[task[a]] /\ ~jammed[a]
        /\ TurnsInPlace(a) \/ Advances(a)
    BY <1>1, <1>10, ApplyOne
    DEF DriveOn, Driving, AtGoal, NobodyJammed, Applies
  <2>2. bstate[a] \in OnTask /\ task'[a] = task[a]
    BY <1>1, <1>10, <2>1, MovingExecutes DEF DriveOn
  <2>3. hist'[a] = Sampled(a)
    BY <1>1, <1>10 DEF DriveOn, TypeOK
  <2>4. pose'[a] # NoCell
    BY ConfigAssumption DEF TypeOK
  <2> SUFFICES ASSUME NEW k \in 0 .. StuckWindow, hist'[a][k] = pose'[a]
               PROVE  k <= turned'[a] + Due(a)'
    BY DEF Recent
  <2>5. Due(a) \in {0, 1} /\ Due(a)' \in {0, 1} /\ turned'[a] \in Nat /\ turned[a] \in Nat
    BY <1>1 DEF Due, TypeOK
  <2>6. k = 0 \/ hist[a][k] = pose'[a]
    <3>1. History(a) \in {hist[a], Empty}
      BY DEF History
    <3>2. History(a) \in [0 .. StuckWindow -> Cells \cup {NoCell}]
      BY <1>1, HistoryType
    <3>3. k # 0 => History(a)[k] = pose'[a]
      BY <2>3, <3>2 DEF Sampled
    <3>4. Empty[k] = NoCell
      BY DEF Empty
    <3>5. QED
      BY <2>4, <3>1, <3>3, <3>4
  <2>7. CASE k = 0
    BY <2>5, <2>7
  <2>8. CASE hist[a][k] = pose'[a] /\ Advances(a)
    BY <2>1, <2>4, <2>8, NoSampleAhead
  <2>9. CASE hist[a][k] = pose'[a] /\ TurnsInPlace(a)
    <3>1. k <= turned[a] + Due(a) /\ turned'[a] = turned[a] + 1
      BY <2>1, <2>2, <2>9 DEF Recent, TurnsInPlace
    <3>2. QED
      BY <2>5, <3>1
  <2>10. QED
    BY <2>1, <2>6, <2>7, <2>8, <2>9
<1>11. QED
  BY <1>2, <1>3, <1>4, <1>5, <1>6, <1>7, <1>8, <1>9, <1>10 DEF AgentTurn

\* An agent that drives on is not stuck, and one that turns is not stuck yet.
LEMMA NotStuck ==
  ASSUME TaskInv, AheadInv, NobodyJammed, QuickTurns,
         (\A b \in Agents : TurnTicks[b] = 0) \/ Pace, NEW a \in Agents
  PROVE  ~StartRecovery(a) /\ ~GiveUp(a)
<1> SUFFICES ASSUME StartRecovery(a) \/ GiveUp(a) PROVE FALSE
  OBVIOUS
<1>1. TypeOK /\ AgentsAgree
  BY DEF TaskInv
<1>2. /\ Moving(a) /\ pose[a] # TaskGoal[task[a]]
      /\ Applies(a) /\ pose'[a] # NoCell
      /\ hist[a][StuckWindow] = pose'[a]
  BY <1>1, StuckMeans
<1>3. StuckWindow \in Nat /\ StuckWindow \in 0 .. StuckWindow
  BY ConfigAssumption
<1>4. ~Advances(a)
  BY <1>2, <1>3, NoSampleAhead
<1>5. TurnsInPlace(a)
  BY <1>2, <1>4 DEF Applies, NobodyJammed
<1>6. turned[a] \in Nat /\ TurnTicks[a] \in Nat
  BY <1>1, ConfigAssumption DEF TypeOK
<1>7. turned[a] < TurnTicks[a] /\ pose'[a] = pose[a]
  BY <1>5 DEF TurnsInPlace
<1>8. Pace /\ TurnTicks[a] < StuckWindow
  BY <1>6, <1>7 DEF QuickTurns
<1>9. StuckWindow <= turned[a] + Due(a)
  <2>1. bstate[a] \in OnTask
    BY <1>1, <1>2, MovingExecutes
  <2>2. QED
    BY <1>2, <1>3, <1>7, <1>8, <2>1 DEF Pace, Recent
<1>10. Due(a) \in {0, 1}
  BY DEF Due
<1>11. QED
  BY <1>3, <1>6, <1>7, <1>8, <1>9, <1>10

\* Without stops, locks and operators nothing hinders the agents but recovery.
LEMMA UnhinderedStep ==
  ASSUME Uninterrupted, TaskInv, [Next]_vars, NobodyStuck \/ UNCHANGED vars,
         \A a \in Agents : Unhindered(a)
  PROVE  \A a \in Agents : Unhindered(a)'
<1>0. /\ "tools" \notin Externals /\ "lock" \notin Externals
      /\ "operator" \notin Externals
  BY DEF Uninterrupted
<1>1. ASSUME UNCHANGED <<estop, hold, locked>>, NEW a \in Agents,
             bstate'[a] # "recovering"
      PROVE  Unhindered(a)'
  BY <1>1 DEF Unhindered
<1>2. TypeOK
  BY DEF TaskInv
<1>3. ASSUME BeginStep, NEW a \in Agents
      PROVE  Unhindered(a)'
  <2>1. UNCHANGED <<locked, bstate>> /\ hold'[a] = Ticked(hold[a])
    BY <1>3 DEF BeginStep, worldVars
  <2>2. estop'[a] = estop[a]
    <3>1. PICK fallen \in SUBSET Humanoids, stale \in SUBSET Robots :
            estop' = [b \in Agents |-> estop[b] \/ b \in fallen \cup stale]
      BY <1>3 DEF BeginStep, PollSafety
    <3>2. a \notin fallen \cup stale
      BY <3>1 DEF Uninterrupted
    <3>3. estop[a] \in BOOLEAN /\ estop'[a] = (estop[a] \/ a \in fallen \cup stale)
      BY <1>2, <3>1 DEF TypeOK
    <3>4. QED
      BY <3>2, <3>3
  <2>3. hold'[a] = 0
    BY <2>1 DEF Unhindered, Ticked
  <2>4. QED
    BY <2>1, <2>2, <2>3 DEF Unhindered
<1>4. CASE External \/ Step
  <2>1. CASE StepPaused \/ Step
    BY <1>3, <2>1 DEF StepPaused, Step
  <2>2. CASE External /\ ~StepPaused
    <3>1. UNCHANGED <<estop, hold, locked>>
      BY <1>0, <2>2
      DEF External, Submit, StartRun, Timeout, SetLifecycle, SetEstop, Teleop,
          ToggleLock, ToggleJam, stepVars, worldVars
    <3>2. \A a \in Agents : bstate'[a] # "recovering"
      <4>1. \A a \in Agents : Stays(a) \/ bstate'[a] = "idle"
        BY <1>4, RestJourneys
      <4>2. QED
        BY <4>1 DEF Stays, Unhindered
    <3>3. QED
      BY <1>1, <3>1, <3>2
  <2>3. QED
    BY <1>4, <2>1, <2>2
<1>5. CASE Obstacles
  <2>1. PICK b \in Agents : KeepPlan(b) \/ Replan(b) \/ BlockedOut(b)
    BY <1>5 DEF Obstacles
  <2>2. /\ Alone(b)
        /\ Stays(b) \/ Departs(b) \/ bstate'[b] = "idle"
    BY <2>1, ObstacleJourneys
  <2>3. \A a \in Agents : bstate'[a] # "recovering"
    BY <2>2 DEF Alone, Stays, Departs, Unhindered
  <2>4. UNCHANGED <<estop, hold, locked>>
    BY <2>1 DEF KeepPlan, Replan, BlockedOut, ObstacleTurn, worldVars
  <2>5. QED
    BY <1>1, <2>3, <2>4
<1>6. CASE Dispatch
  <2>1. \A a \in Agents : Stays(a) \/ bstate'[a] = "idle"
    BY <1>6, RestJourneys
  <2>2. UNCHANGED <<estop, hold, locked>>
    BY <1>6
    DEF Dispatch, Assign, Defer, Requeue, Resubmit, EndDispatch,
        DispatchUnchanged, worldVars
  <2>3. \A a \in Agents : bstate'[a] # "recovering"
    BY <2>1 DEF Stays, Unhindered
  <2>4. QED
    BY <1>1, <2>2, <2>3
<1>7. ASSUME NEW b \in Agents, AgentTurn(b), NobodyStuck
      PROVE  \A a \in Agents : Unhindered(a)'
  <2>1. Turn(b)
    BY <1>7
    DEF AgentTurn, SkipIdle, RejectStopped, LeaveToOperator, NoGoal, Yield,
        BeginExecution, WaitForCells, PlanFails, RestStill, Dwelling, Succeed,
        RejectLocked, DriveOn, StartRecovery, GiveUp, Driving, Moving,
        NeedsPlan, Going, Autonomous
  <2>2. UNCHANGED <<estop, hold, locked>>
    BY <2>1 DEF Turn, worldVars
  <2>3. Alone(b) /\ (bstate'[b] = "recovering" => bstate[b] = "recovering")
    BY <1>7, TurnJourneys DEF NobodyStuck
  <2>4. \A a \in Agents : bstate'[a] # "recovering"
    BY <2>3 DEF Alone, Unhindered
  <2>5. QED
    BY <1>1, <2>2, <2>4
<1>8. CASE UNCHANGED vars
  BY <1>8 DEF vars, worldVars, Unhindered
<1>9. QED
  BY <1>4, <1>5, <1>6, <1>7, <1>8 DEF Next, Loop

LEMMA PaceStep ==
  ASSUME Uninterrupted, QuickTurns, TaskInv, PlanEndsAtGoal, AheadInv,
         NobodyJammed, Pace, [Next]_vars
  PROVE  Pace'
<1>1. TypeOK /\ TurnsFromFirst /\ \A a \in Agents : Unhindered(a) /\ Recent(a)
  BY DEF TaskInv, Pace
<1>2. TypeOK' /\ TurnsFromFirst'
  BY <1>1, TypeStep, TurnsStep
<1>3. NobodyStuck
  BY NotStuck DEF NobodyStuck
<1>4. \A a \in Agents : Unhindered(a)'
  BY <1>1, <1>3, UnhinderedStep
<1>5. ASSUME NEW a \in Agents
      PROVE  Recent(a)'
  <2>1. CASE External \/ Step \/ Dispatch \/ UNCHANGED vars
    BY <1>1, <1>2, <2>1, RecentRest DEF Uninterrupted
  <2>2. CASE Obstacles
    BY <1>1, <1>2, <2>2, RecentObstacles DEF Obstacles
  <2>3. CASE AgentTurn(a)
    BY <1>1, <1>2, <1>3, <2>3, RecentTurn DEF NobodyStuck
  <2>4. ASSUME NEW b \in Agents, b # a, AgentTurn(b)
        PROVE  Recent(a)'
    <3>1. Turn(b)
      BY <2>4
      DEF AgentTurn, SkipIdle, RejectStopped, LeaveToOperator, NoGoal, Yield,
          BeginExecution, WaitForCells, PlanFails, RestStill, Dwelling,
          Succeed, RejectLocked, DriveOn, StartRecovery, GiveUp, Driving,
          Moving, NeedsPlan, Going, Autonomous
    <3>2. Due(a)' >= Due(a)
      BY <1>1, <2>4, <3>1, DueStep
    <3>3. turned'[a] = turned[a]
      BY <1>1, <2>4, OthersTurned
    <3>4. /\ task'[a] = task[a] /\ bstate'[a] = bstate[a]
          /\ pose'[a] = pose[a] /\ hist'[a] = hist[a]
      BY <2>4, TurnJourneys DEF Alone
    <3>5. QED
      BY <1>1, <1>2, <3>2, <3>3, <3>4, RecentKept
  <2>5. QED
    BY <2>1, <2>2, <2>3, <2>4 DEF Next, Loop
<1>6. QED
  BY <1>2, <1>4, <1>5 DEF Pace

LEMMA PaceInit == Init => Pace
BY DEF Init, Pace, TurnsFromFirst, Unhindered, Recent, OnTask

\* An agent that nothing jams, no operator moves, and that either never turns in
\* place or always does so for less than the stuck window, without a stop or a
\* lock in between, is never taken for stuck, on the grid and on the straight
\* line, however often it yields, waits or replans: recovery never begins, and no
\* task is given up.  Both are needed: the stuck test sees where the agent is and
\* not where it heads, and a stop ages the samples it is compared with.
THEOREM UndisturbedNeverStuck ==
  ASSUME "jam" \notin Externals, "operator" \notin Externals, QuickTurns
  PROVE  Spec => [][NobodyStuck]_vars
<1>1. Init => NobodyJammed
  BY DEF Init, NobodyJammed
<1>2. NobodyJammed /\ [Next]_vars => NobodyJammed'
  BY JamStep
<1>3. TaskInv /\ NobodyJammed /\ AheadInv /\ [Next]_vars => AheadInv'
  BY AheadStep
<1>4. CASE \A a \in Agents : TurnTicks[a] = 0
  <2>1. TaskInv /\ NobodyJammed /\ AheadInv => [NobodyStuck]_vars
    BY <1>4, NotStuck DEF NobodyStuck
  <2>2. QED
    BY <1>1, <1>2, <1>3, <2>1, AheadInit, TasksConsistent, PTL DEF Spec
<1>5. CASE Uninterrupted
  <2>1. TaskInv /\ PlanEndsAtGoal /\ NobodyJammed /\ AheadInv /\ Pace
          /\ [Next]_vars => Pace'
    BY <1>5, PaceStep
  <2>2. TaskInv /\ NobodyJammed /\ AheadInv /\ Pace => [NobodyStuck]_vars
    BY NotStuck DEF NobodyStuck
  <2>3. QED
    BY <1>1, <1>2, <1>3, <2>1, <2>2, AheadInit, PaceInit, TasksConsistent,
       PlansLeadToGoals, PTL DEF Spec
<1>6. QED
  BY <1>4, <1>5 DEF QuickTurns

\* So a fleet that is undisturbed in this sense needs no further assumption: only
\* agents that follow a plan hold cells, and no cell is reserved twice.
THEOREM UndisturbedCells ==
  ASSUME "jam" \notin Externals, "operator" \notin Externals, QuickTurns
  PROVE  Spec => [](HoldersAreOnTask /\ CellsDisjoint)
<1>1. NobodyStuck => NobodyGivesUp
  BY DEF NobodyStuck, NobodyGivesUp
<1>2. [NobodyStuck]_vars => [NobodyGivesUp]_vars
  BY <1>1
<1>3. QED
  BY <1>2, UndisturbedNeverStuck, HoldersFollowPlans, CellsStayDisjoint, PTL

-----------------------------------------------------------------------------
(* No way leads through a known obstacle                                     *)

NobodyRecovers == \A a \in Agents : ~StartRecovery(a)

\* The obstacles agent a was not yet checked against.
Unseen(a) == IF pc = "obstacles" /\ a >= turn THEN newly ELSE {}

ClearWay(a) ==
  bstate[a] \in OnTask => Touched(Way(a)) \cap blocked \subseteq Unseen(a)

ClearInv ==
  /\ TurnsFromFirst
  /\ \A a \in Agents : bstate[a] # "recovering" /\ ClearWay(a)

LEMMA DilateNone ==
  ASSUME Inflate = 0, NEW B \in SUBSET Cells
  PROVE  Dilate(B) = B
<1>1. ASSUME NEW b \in Cells, NEW c \in Cells,
             Abs(c[1] - b[1]) <= 0, Abs(c[2] - b[2]) <= 0
      PROVE  c = b
  <2>1. /\ b[1] \in Int /\ b[2] \in Int /\ c[1] \in Int /\ c[2] \in Int
        /\ b = <<b[1], b[2]>> /\ c = <<c[1], c[2]>>
    BY DEF Cells
  <2>2. c[1] = b[1] /\ c[2] = b[2]
    BY <1>1, <2>1 DEF Abs
  <2>3. QED
    BY <2>1, <2>2
<1>2. Dilate(B) \subseteq B
  BY <1>1 DEF Dilate
<1>3. QED
  BY <1>2, DilateCovers

\* What the loops over the agents do to the obstacles.
LEMMA LoopFrame ==
  ASSUME TypeOK, TurnsFromFirst
  PROVE  /\ \A a \in Agents : AgentTurn(a) =>
              /\ TurnsFromFirst' /\ blocked' = blocked
              /\ pc # "obstacles" /\ pc' # "obstacles"
         /\ \A a \in Agents : ObstacleTurn(a) =>
              /\ TurnsFromFirst' /\ blocked' = blocked /\ pose' = pose
              /\ pc = "obstacles" /\ turn = a
              /\ \A b \in Agents : b # a => Unseen(b)' = Unseen(b)
<1>1. ASSUME NEW a \in Agents, AgentTurn(a)
      PROVE  /\ TurnsFromFirst' /\ blocked' = blocked
             /\ pc # "obstacles" /\ pc' # "obstacles"
  <2>1. Turn(a)
    BY <1>1
    DEF AgentTurn, SkipIdle, RejectStopped, LeaveToOperator, NoGoal, Yield,
        BeginExecution, WaitForCells, PlanFails, RestStill, Dwelling, Succeed,
        RejectLocked, DriveOn, StartRecovery, GiveUp, Driving, Moving,
        NeedsPlan, Going, Autonomous
  <2>2. QED
    BY <2>1 DEF Turn, MoveOn, TurnsFromFirst, gridVars
<1>2. ASSUME NEW a \in Agents, ObstacleTurn(a)
      PROVE  /\ TurnsFromFirst' /\ blocked' = blocked /\ pose' = pose
             /\ pc = "obstacles" /\ turn = a
             /\ \A b \in Agents : b # a => Unseen(b)' = Unseen(b)
  <2>1. /\ pc = "obstacles" /\ turn = a /\ blocked' = blocked /\ pose' = pose
        /\ newly' = IF a = NAgents THEN {} ELSE newly
        /\ IF turn = NAgents THEN turn' = 1 /\ pc' = AfterObstacles
           ELSE turn' = turn + 1 /\ pc' = pc
    BY <1>2 DEF ObstacleTurn, MoveOn
  <2>2. TurnsFromFirst'
    BY <2>1 DEF TurnsFromFirst
  <2>3. AfterObstacles # "obstacles"
    BY DEF AfterObstacles
  <2>4. ASSUME NEW b \in Agents, b # a
        PROVE  Unseen(b)' = Unseen(b)
    <3>1. a \in Int /\ b \in Int /\ b <= NAgents /\ NAgents \in Int
      BY FleetAssumption DEF Agents
    <3>2. CASE a = NAgents
      BY <2>1, <2>3, <2>4, <3>1, <3>2 DEF Unseen
    <3>3. CASE a # NAgents
      BY <2>1, <2>4, <3>1, <3>3 DEF Unseen
    <3>4. QED
      BY <3>2, <3>3
  <2>5. QED
    BY <2>1, <2>2, <2>4
<1>3. QED
  BY <1>1, <1>2

\* The ways that stay clear: a new one, or what is left of an old one.
LEMMA ClearKept ==
  ASSUME Gridded, "operator" \notin Externals, TaskInv, WaysInv,
         NEW a \in Agents, ClearWay(a), blocked' = blocked,
         Unseen(a) \subseteq Unseen(a)',
         Departs(a) \/ Drives(a) \/ Quits(a) \/ Stays(a)
  PROVE  ClearWay(a)'
<1> SUFFICES ASSUME bstate'[a] \in OnTask
             PROVE  Touched(Way(a)') \cap blocked \subseteq Unseen(a)'
  BY DEF ClearWay
<1>1. OnTrack(a)
  BY DEF WaysInv
<1>2. CASE Departs(a)
  BY <1>2, DepartsWay
<1>3. CASE Drives(a)
  <2>1. Touched(Way(a)') \subseteq Touched(Way(a))
    BY <1>1, <1>3, DrivesWay
  <2>2. bstate[a] \in OnTask
    BY <1>3 DEF Drives
  <2>3. QED
    BY <2>1, <2>2 DEF ClearWay
<1>4. CASE Quits(a)
  BY <1>4 DEF Quits, OnTask
<1>5. CASE Stays(a)
  <2>1. bstate[a] \in OnTask
    BY <1>5 DEF Stays
  <2>2. Way(a)' = Way(a)
    BY <1>1, <1>5, <2>1, StaysWay
  <2>3. QED
    BY <2>1, <2>2 DEF ClearWay
<1>6. QED
  BY <1>2, <1>3, <1>4, <1>5

\* The obstacles that are due are unseen by every agent at first.
LEMMA BeginStepClear ==
  ASSUME Gridded, Inflate = 0, "operator" \notin Externals, TaskInv, WaysInv,
         ClearInv, pc \in {"ready", "first"}, BeginStep
  PROVE  ClearInv'
<1>1. PICK due \in SUBSET pending :
        /\ newly' = (UNION due) \cap Cells
        /\ blocked' = blocked \cup Dilate((UNION due) \cap Cells)
  BY DEF BeginStep, ApplyDue
<1>2. blocked' = blocked \cup newly'
  <2>1. (UNION due) \cap Cells \in SUBSET Cells
    OBVIOUS
  <2>2. Dilate((UNION due) \cap Cells) = (UNION due) \cap Cells
    BY <2>1, DilateNone
  <2>3. QED
    BY <1>1, <2>2
<1>3. /\ UNCHANGED <<turn, bstate, task, pose, path>>
      /\ pc' = IF newly' # {} THEN "obstacles" ELSE AfterObstacles
  BY DEF BeginStep
<1>4. turn = 1 /\ turn' = 1
  BY <1>3 DEF ClearInv, TurnsFromFirst
<1>5. ASSUME NEW a \in Agents
      PROVE  ClearWay(a)'
  <2>1. Way(a)' = Way(a)
    BY <1>3 DEF Way
  <2>2. Unseen(a) = {}
    BY DEF Unseen
  <2>3. Unseen(a)' = newly'
    <3>1. a >= 1
      BY DEF Agents
    <3>2. CASE newly' = {}
      BY <3>2 DEF Unseen
    <3>3. CASE newly' # {}
      <4>1. pc' = "obstacles"
        BY <1>3, <3>3
      <4>2. QED
        BY <1>4, <3>1, <4>1 DEF Unseen
    <3>4. QED
      BY <3>2, <3>3
  <2>4. ClearWay(a)
    BY DEF ClearInv
  <2>5. QED
    BY <1>2, <1>3, <2>1, <2>2, <2>3, <2>4 DEF ClearWay
<1>6. QED
  BY <1>3, <1>4, <1>5 DEF ClearInv, TurnsFromFirst

\* The steps between the loops over the agents.
LEMMA RestClear ==
  ASSUME Gridded, Inflate = 0, "operator" \notin Externals, TaskInv, WaysInv,
         ClearInv, External \/ Step \/ Dispatch \/ UNCHANGED vars
  PROVE  ClearInv'
<1>1. ASSUME StepPaused \/ Step
      PROVE  ClearInv'
  BY <1>1, BeginStepClear DEF StepPaused, Step
<1>2. ASSUME TurnsFromFirst', blocked' = blocked,
             pc # "obstacles" \/ UNCHANGED <<pc, turn, newly>>
      PROVE  ClearInv'
  <2> SUFFICES ASSUME NEW a \in Agents
               PROVE  bstate'[a] # "recovering" /\ ClearWay(a)'
    BY <1>2 DEF ClearInv
  <2>1. bstate[a] # "recovering" /\ ClearWay(a)
    BY DEF ClearInv
  <2>2. Stays(a) \/ bstate'[a] = "idle"
    BY RestJourneys
  <2>3. Unseen(a) \subseteq Unseen(a)'
    BY <1>2 DEF Unseen
  <2>4. CASE Stays(a)
    <3>1. ClearWay(a)'
      BY <1>2, <2>1, <2>3, <2>4, ClearKept
    <3>2. QED
      BY <2>1, <2>4, <3>1 DEF Stays
  <2>5. CASE bstate'[a] = "idle"
    BY <2>5 DEF ClearWay, OnTask
  <2>6. QED
    BY <2>2, <2>4, <2>5
<1>3. TurnsFromFirst
  BY DEF ClearInv
<1>4. CASE External /\ ~StepPaused
  BY <1>2, <1>3, <1>4
  DEF External, Submit, StartRun, Timeout, SetLifecycle, SetEstop, Teleop,
      ToggleLock, ToggleJam, TurnsFromFirst, stepVars, gridVars
<1>5. CASE Dispatch
  <2>1. /\ blocked' = blocked /\ turn' = turn /\ turn = 1
        /\ pc # "obstacles"
    BY <1>3, <1>5
    DEF Dispatch, Assign, Defer, Requeue, Resubmit, EndDispatch,
        DispatchUnchanged, gridVars, TurnsFromFirst
  <2>2. TurnsFromFirst'
    BY <2>1 DEF TurnsFromFirst
  <2>3. QED
    BY <1>2, <2>1, <2>2
<1>6. CASE UNCHANGED vars
  BY <1>2, <1>3, <1>6 DEF vars, stepVars, gridVars, TurnsFromFirst
<1>7. QED
  BY <1>1, <1>4, <1>5, <1>6

\* The agents are checked against the new obstacles one by one.
LEMMA ObstaclesClear ==
  ASSUME Gridded, "operator" \notin Externals, TaskInv, PlanEndsAtGoal, WaysInv,
         ClearInv, NEW a \in Agents, KeepPlan(a) \/ Replan(a) \/ BlockedOut(a)
  PROVE  ClearInv'
<1>1. ObstacleTurn(a) /\ TypeOK /\ TurnsFromFirst
  BY DEF KeepPlan, Replan, BlockedOut, TaskInv, ClearInv
<1>2. /\ TurnsFromFirst' /\ blocked' = blocked /\ pc = "obstacles" /\ turn = a
      /\ \A b \in Agents : b # a => Unseen(b)' = Unseen(b)
  BY <1>1, LoopFrame
<1>3. /\ Alone(a)
      /\ \/ KeepPlan(a) /\ Stays(a)
         \/ Departs(a)
         \/ bstate'[a] = "idle" /\ cells'[a] = {}
  BY ObstacleJourneys
<1>4. ASSUME NEW b \in Agents, b # a
      PROVE  bstate'[b] # "recovering" /\ ClearWay(b)'
  <2>1. Stays(b) /\ bstate[b] # "recovering" /\ ClearWay(b)
    BY <1>3, <1>4, AloneStays DEF ClearInv
  <2>2. QED
    BY <1>2, <1>4, <2>1, ClearKept DEF Stays
<1>5. bstate'[a] # "recovering"
  BY <1>3 DEF Stays, Departs, ClearInv
<1>6. ASSUME KeepPlan(a), Stays(a)
      PROVE  ClearWay(a)'
  <2> SUFFICES ASSUME bstate'[a] \in OnTask
               PROVE  Touched(Way(a)') \cap blocked = {}
    BY <1>2 DEF ClearWay
  <2>1. bstate[a] = "executing" /\ bstate[a] \in OnTask
    BY <1>6 DEF Stays, ClearInv, OnTask
  <2>2. OnTrack(a) /\ ClearWay(a)
    BY DEF WaysInv, ClearInv
  <2>3. Way(a)' = Way(a)
    BY <1>6, <2>1, <2>2, StaysWay
  <2>4. path[a] # <<>> /\ task[a] # NoTask
    BY <2>1 DEF PlanEndsAtGoal, TaskInv, AgentsAgree, BusyIffTasked
  <2>5. PolylineCells(<<pose[a]>> \o path[a]) \cap newly = {}
    BY <1>1, <1>6, <2>1, <2>4, PlanHasGoal DEF KeepPlan, HitByObstacle
  <2>6. PolylineCells(<<pose[a]>> \o path[a]) = Touched(Way(a))
    <3>1. pose[a] \in Cells /\ path[a] \in Seq(Cells)
      BY <1>1, WayType
    <3>2. IsTrack(FullPath(pose[a], path[a]), TaskGoal[task[a]])
      BY <2>1, <2>2 DEF OnTrack, Way
    <3>3. QED
      BY <2>4, <3>1, <3>2, AheadTouched DEF Way
  <2>7. Unseen(a) = newly
    <3>1. a >= turn
      BY <1>2 DEF Agents
    <3>2. QED
      BY <1>2, <3>1 DEF Unseen
  <2>8. QED
    BY <2>1, <2>2, <2>3, <2>5, <2>6, <2>7 DEF ClearWay
<1>7. ASSUME Departs(a)
      PROVE  ClearWay(a)'
  BY <1>2, <1>7, DepartsWay DEF ClearWay
<1>8. ASSUME bstate'[a] = "idle"
      PROVE  ClearWay(a)'
  BY <1>8 DEF ClearWay, OnTask
<1>9. ClearWay(a)'
  BY <1>3, <1>6, <1>7, <1>8
<1>10. QED
  BY <1>2, <1>4, <1>5, <1>9 DEF ClearInv

LEMMA ClearStep ==
  ASSUME Gridded, Inflate = 0, "operator" \notin Externals,
         TaskInv, PlanEndsAtGoal, WaysInv, ClearInv, [Next]_vars,
         [NobodyRecovers]_vars
  PROVE  ClearInv'
<1>1. CASE External \/ Step \/ Dispatch \/ UNCHANGED vars
  BY <1>1, RestClear
<1>2. CASE Obstacles
  BY <1>2, ObstaclesClear DEF Obstacles
<1>3. ASSUME NEW a \in Agents, AgentTurn(a), NobodyRecovers
      PROVE  ClearInv'
  <2>1. /\ TypeOK /\ TurnsFromFirst
    BY DEF TaskInv, ClearInv
  <2>2. /\ TurnsFromFirst' /\ blocked' = blocked
        /\ pc # "obstacles" /\ pc' # "obstacles"
    BY <1>3, <2>1, LoopFrame
  <2>3. /\ Alone(a)
        /\ Departs(a) \/ Drives(a) \/ Quits(a) \/ Stays(a)
        /\ ~StartRecovery(a) => (bstate'[a] = "recovering" => bstate[a] = "recovering")
    BY <1>3, TurnJourneys
  <2>4. ASSUME NEW b \in Agents
        PROVE  bstate'[b] # "recovering" /\ ClearWay(b)'
    <3>1. Departs(b) \/ Drives(b) \/ Quits(b) \/ Stays(b)
      BY <2>3, AloneStays
    <3>2. Unseen(b) \subseteq Unseen(b)'
      BY <2>2 DEF Unseen
    <3>3. bstate[b] # "recovering" /\ ClearWay(b)
      BY DEF ClearInv
    <3>4. ClearWay(b)'
      BY <2>2, <3>1, <3>2, <3>3, ClearKept
    <3>5. bstate'[b] # "recovering"
      <4>1. CASE b = a
        BY <1>3, <2>3, <3>3, <4>1 DEF NobodyRecovers
      <4>2. CASE b # a
        BY <2>3, <3>3, <4>2 DEF Alone
      <4>3. QED
        BY <4>1, <4>2
    <3>6. QED
      BY <3>4, <3>5
  <2>5. QED
    BY <2>2, <2>4 DEF ClearInv
<1>4. QED
  BY <1>1, <1>2, <1>3 DEF Next, Loop

LEMMA ClearInit == Init => ClearInv
BY DEF Init, ClearInv, TurnsFromFirst, ClearWay, OnTask

\* Once every agent was checked, a clear way is a clear polyline.
LEMMA ClearPaths ==
  ASSUME TaskInv, PlanEndsAtGoal, WaysInv, ClearInv
  PROVE  PathsClear
<1> SUFFICES ASSUME NEW a \in Agents, pc # "obstacles", bstate[a] = "executing"
             PROVE  PolylineCells(<<pose[a]>> \o path[a]) \cap blocked = {}
  BY DEF PathsClear
<1>1. /\ bstate[a] \in OnTask /\ OnTrack(a) /\ ClearWay(a)
      /\ path[a] # <<>>
  BY DEF OnTask, WaysInv, ClearInv, PlanEndsAtGoal
<1>2. pose[a] \in Cells /\ path[a] \in Seq(Cells)
  BY WayType DEF TaskInv
<1>3. PolylineCells(<<pose[a]>> \o path[a]) = Touched(Way(a))
  BY <1>1, <1>2, AheadTouched DEF OnTrack, Way
<1>4. Unseen(a) = {}
  BY DEF Unseen
<1>5. QED
  BY <1>1, <1>3, <1>4 DEF ClearWay

\* Without inflation, and as long as nobody recovers from being stuck, no agent
\* is headed through an obstacle once the obstacle loop is over: plans avoid the
\* obstacles known when they are made, later ones are found on the way, and what
\* is left of a way meets no cell that the whole of it does not.
THEOREM WaysStayClear ==
  ASSUME Gridded, Inflate = 0, "operator" \notin Externals
  PROVE  Spec /\ [][NobodyRecovers]_vars => []PathsClear
<1>1. TaskInv /\ PlanEndsAtGoal /\ WaysInv /\ ClearInv /\ [Next]_vars
        /\ [NobodyRecovers]_vars => ClearInv'
  BY ClearStep
<1>2. TaskInv /\ WaysInv /\ [Next]_vars => WaysInv'
  BY WaysStep
<1>3. TaskInv /\ PlanEndsAtGoal /\ WaysInv /\ ClearInv => PathsClear
  BY ClearPaths
<1>4. QED
  BY <1>1, <1>2, <1>3, ClearInit, WaysInit, TasksConsistent, PlansLeadToGoals,
     PTL DEF Spec

\* A fleet whose agents turn in place shortly enough keeps clear of obstacles
\* without that assumption, if nothing jams and no operator moves an agent.
THEOREM UndisturbedPathsClear ==
  ASSUME Gridded, Inflate = 0,
         "jam" \notin Externals, "operator" \notin Externals, QuickTurns
  PROVE  Spec => []PathsClear
<1>1. [NobodyStuck]_vars => [NobodyRecovers]_vars
  BY DEF NobodyStuck, NobodyRecovers
<1>2. QED
  BY <1>1, UndisturbedNeverStuck, WaysStayClear, PTL

=============================================================================
