---------------------------- MODULE NavTaskProofs ----------------------------
(***************************************************************************)
(* The runtime loop is type correct, and tasks, records and agents stay    *)
(* consistent, in every run, for every fleet, task set, grid and           *)
(* configuration.  The lemmas about types follow the phases of a step.     *)
(* Every action does one of a few things to the tasks: it keeps who has    *)
(* which task, begins the execution of one, ends one, assigns one, moves   *)
(* one within the queue, or times out.                                     *)
(***************************************************************************)
EXTENDS NavProperties, OperatorProofs

-----------------------------------------------------------------------------
(* Types, phase by phase *)


\* Behavior transitions lead to behavior states, allowed or not.
LEMMA TransitionType ==
  \A s, target \in BehaviorStates : Transition(s, target) \in BehaviorStates
BY DEF Transition

LEMMA StateNames ==
  {"idle", "assigned", "planning", "reserving", "executing", "recovering",
   "succeeded", "failed"} \subseteq BehaviorStates
BY DEF BehaviorStates

LEMMA EmptyType == Empty \in [0 .. StuckWindow -> Cells \cup {NoCell}]
BY DEF Empty

\* Samples that get a tick older are still samples.
LEMMA AgedType ==
  ASSUME NEW h \in [0 .. StuckWindow -> Cells \cup {NoCell}]
  PROVE  Aged(h) \in [0 .. StuckWindow -> Cells \cup {NoCell}]
BY ConfigAssumption DEF Aged

\* A deadline that comes a tick closer stays within its bound.
LEMMA TickedType ==
  /\ \A m \in Nat : \A n \in 0 .. m : Ticked(n) \in 0 .. m
  /\ \A n \in Nat \cup {NotDwelling} : Ticked(n) \in Nat \cup {NotDwelling}
BY DEF Ticked, NotDwelling

\* An agent has a task of the fleet; its goal, if any, is a cell.
LEMMA OwnTask ==
  ASSUME TypeOK, NEW a \in Agents, task[a] # NoTask
  PROVE  task[a] \in Tasks
BY DEF TypeOK

LEMMA GoalType ==
  ASSUME TypeOK, NEW a \in Agents, task[a] # NoTask,
         TaskGoal[task[a]] # NoCell
  PROVE  task[a] \in Tasks /\ TaskGoal[task[a]] \in Cells
BY FleetAssumption DEF TypeOK

\* Plans for an agent on a task are sequences of cells.
LEMMA RoutesType ==
  ASSUME TypeOK, NEW a \in Agents, task[a] # NoTask,
         TaskGoal[task[a]] # NoCell
  PROVE  Routes(a) \subseteq Seq(Cells)
<1>1. pose[a] \in Cells /\ TaskGoal[task[a]] \in Cells
  BY GoalType DEF TypeOK
<1>2. QED
  BY <1>1, PlansAreCellSequences DEF Routes

\* The end of a task keeps the types of what it changes.
LEMMA EndTaskType ==
  ASSUME TypeOK, NEW a \in Agents, task[a] # NoTask,
         NEW s \in BehaviorStates, NEW outcome \in {"succeeded", "failed"},
         EndTask(a, s, outcome)
  PROVE  /\ record' \in [Tasks ->
              {"none", "assigned", "executing", "succeeded", "failed"}]
         /\ task' \in [Agents -> Tasks \cup {NoTask}]
         /\ bstate' \in [Agents -> BehaviorStates]
         /\ path' \in [Agents -> Seq(Cells)]
         /\ hist' \in [Agents -> [0 .. StuckWindow -> Cells \cup {NoCell}]]
         /\ retries' \in [Agents -> 0 .. MaxRetries]
         /\ resume' \in [Agents -> 0 .. RecoveryWait]
         /\ dwell' \in [Agents -> Nat \cup {NotDwelling}]
<1>1. outcome \in BehaviorStates /\ "idle" \in BehaviorStates
  BY DEF BehaviorStates
<1>2. Transition(Transition(s, outcome), "idle") \in BehaviorStates
  BY <1>1, TransitionType
<1>3. task[a] \in Tasks
  BY OwnTask
<1>4. 0 \in 0 .. MaxRetries /\ 0 \in 0 .. RecoveryWait
  BY ConfigAssumption
<1>5. QED
  BY <1>2, <1>3, <1>4, EmptyType, EmptySeq DEF EndTask, ClearNav, TypeOK

LEMMA TypeInit == Init => TypeOK
<1> SUFFICES ASSUME Init PROVE TypeOK
  OBVIOUS
<1>1. turn \in Agents
  BY FleetAssumption DEF Init, Agents
<1>2. blocked \in SUBSET Cells
  BY DilateType DEF Init
<1>3. hist \in [Agents -> [0 .. StuckWindow -> Cells \cup {NoCell}]]
  BY EmptyType DEF Init
<1>4. queue \in Seq(Tasks) /\ deferred \in Seq(Tasks)
  BY EmptySeq DEF Init
<1>5. path \in [Agents -> Seq(Cells)]
  BY EmptySeq DEF Init
<1>6. bstate \in [Agents -> BehaviorStates]
  BY DEF Init, BehaviorStates
<1>7. pose \in [Agents -> Cells] /\ retries \in [Agents -> 0 .. MaxRetries]
  BY FleetAssumption, ConfigAssumption DEF Init
<1>8. /\ resume \in [Agents -> 0 .. RecoveryWait]
      /\ hold \in [Agents -> 0 .. TeleopHold]
      /\ dwell \in [Agents -> Nat \cup {NotDwelling}]
  BY ConfigAssumption DEF Init
<1>9. turned \in [Agents -> Nat]
  BY DEF Init
<1>10. QED
  BY <1>1, <1>2, <1>3, <1>4, <1>5, <1>6, <1>7, <1>8, <1>9 DEF Init, TypeOK

-----------------------------------------------------------------------------
(* The head of a step *)

LEMMA TypeBeginStep ==
  ASSUME TypeOK, BeginStep
  PROVE  TypeOK'
<1> USE DEF BeginStep
<1>1. pc' \in {"obstacles", "turns", "dispatch"}
  BY DEF AfterObstacles
<1>2. /\ resume' \in [Agents -> 0 .. RecoveryWait]
      /\ hold' \in [Agents -> 0 .. TeleopHold]
  <2>1. RecoveryWait \in Nat /\ TeleopHold \in Nat
    BY ConfigAssumption
  <2>2. \A a \in Agents : /\ Ticked(resume[a]) \in 0 .. RecoveryWait
                          /\ Ticked(hold[a]) \in 0 .. TeleopHold
    <3>1. \A a \in Agents : /\ resume[a] \in 0 .. RecoveryWait
                            /\ hold[a] \in 0 .. TeleopHold
      BY DEF TypeOK
    <3>2. QED
      BY <2>1, <3>1, TickedType
  <2>3. QED
    BY <2>2
<1>3. dwell' \in [Agents -> Nat \cup {NotDwelling}]
  <2>1. \A a \in Agents : dwell[a] \in Nat \cup {NotDwelling}
    BY DEF TypeOK
  <2>2. QED
    BY <2>1, TickedType
<1>4. hist' \in [Agents -> [0 .. StuckWindow -> Cells \cup {NoCell}]]
  BY AgedType DEF TypeOK
<1>5. estop' \in [Agents -> BOOLEAN] /\ drive' \in [Agents -> BOOLEAN]
  BY DEF PollSafety, TypeOK
<1>6. /\ blocked' \in SUBSET Cells
      /\ pending' \in SUBSET Deltas
      /\ newly' \in SUBSET Cells
  BY DilateType DEF ApplyDue, TypeOK
<1>7. QED
  BY <1>1, <1>2, <1>3, <1>4, <1>5, <1>6 DEF TypeOK, worldVars, queueVars

-----------------------------------------------------------------------------
(* Calls from outside *)

LEMMA TypeExternal ==
  ASSUME TypeOK, External
  PROVE  TypeOK'
<1> USE DEF TypeOK, stepVars, queueVars, gridVars, navVars, worldVars
<1>1. ASSUME NEW t \in Tasks, Submit(t)
      PROVE  TypeOK'
  <2>1. queue' \in Seq(Tasks)
    BY <1>1, EnqueuedProperties DEF Submit
  <2>2. QED
    BY <1>1, <2>1 DEF Submit
<1>2. CASE StartRun
  BY <1>2 DEF StartRun
<1>3. CASE Timeout
  <2>1. \A a \in Agents :
          Transition(Transition(bstate[a], "failed"), "idle") \in BehaviorStates
    BY TransitionType, StateNames
  <2>2. bstate' \in [Agents -> BehaviorStates]
    BY <1>3, <2>1 DEF Timeout
  <2>3. hist' \in [Agents -> [0 .. StuckWindow -> Cells \cup {NoCell}]]
    BY <1>3, EmptyType DEF Timeout
  <2>4. path' \in [Agents -> Seq(Cells)] /\ queue' \in Seq(Tasks)
    BY <1>3, EmptySeq DEF Timeout
  <2>5. /\ record' \in [Tasks ->
              {"none", "assigned", "executing", "succeeded", "failed"}]
        /\ task' \in [Agents -> Tasks \cup {NoTask}]
        /\ cells' \in [Agents -> SUBSET Cells]
    BY <1>3 DEF Timeout
  <2>6. /\ retries' \in [Agents -> 0 .. MaxRetries]
        /\ resume' \in [Agents -> 0 .. RecoveryWait]
        /\ dwell' \in [Agents -> Nat \cup {NotDwelling}]
    BY <1>3, ConfigAssumption DEF Timeout
  <2>7. QED
    BY <1>3, <2>2, <2>3, <2>4, <2>5, <2>6 DEF Timeout
<1>4. CASE SetLifecycle
  BY <1>4 DEF SetLifecycle
<1>5. ASSUME NEW S, NEW stopped \in BOOLEAN, SetEstop(S, stopped)
      PROVE  TypeOK'
  BY <1>5 DEF SetEstop
<1>6. ASSUME NEW a \in Agents, NEW moving \in BOOLEAN, Teleop(a, moving)
      PROVE  TypeOK'
  <2>1. hold' \in [Agents -> 0 .. TeleopHold]
    BY <1>6, ConfigAssumption DEF Teleop
  <2>2. pose' \in [Agents -> Cells] /\ drive' \in [Agents -> BOOLEAN]
    BY <1>6 DEF Teleop
  <2>3. QED
    BY <1>6, <2>1, <2>2 DEF Teleop
<1>7. ASSUME NEW a \in Agents, ToggleLock(a)
      PROVE  TypeOK'
  BY <1>7 DEF ToggleLock
<1>8. ASSUME NEW a \in Agents, ToggleJam(a)
      PROVE  TypeOK'
  BY <1>8 DEF ToggleJam
<1>9. CASE StepPaused
  BY <1>9, TypeBeginStep DEF StepPaused
<1>10. QED
  BY <1>1, <1>2, <1>3, <1>4, <1>5, <1>6, <1>7, <1>8, <1>9 DEF External

-----------------------------------------------------------------------------
(* The obstacle loop *)

LEMMA MoveOnType ==
  ASSUME TypeOK, NEW next, MoveOn(next)
  PROVE  turn' \in Agents /\ pc' \in {pc, next}
<1>1. NAgents \in Nat \ {0} /\ turn \in 1 .. NAgents
  BY FleetAssumption DEF TypeOK, Agents
<1>2. CASE turn = NAgents
  BY <1>1, <1>2 DEF MoveOn, Agents
<1>3. CASE turn # NAgents
  BY <1>1, <1>3 DEF MoveOn, Agents
<1>4. QED
  BY <1>2, <1>3

LEMMA AfterObstaclesType == AfterObstacles \in {"turns", "dispatch"}
BY DEF AfterObstacles

LEMMA TypeObstacles ==
  ASSUME TypeOK, Obstacles
  PROVE  TypeOK'
<1>1. PICK a \in Agents : KeepPlan(a) \/ Replan(a) \/ BlockedOut(a)
  BY DEF Obstacles
<1>2. ObstacleTurn(a)
  BY <1>1 DEF KeepPlan, Replan, BlockedOut
<1>3. turn' \in Agents /\ pc' \in {pc, "turns", "dispatch"}
  BY <1>2, MoveOnType, AfterObstaclesType DEF ObstacleTurn
<1>4. newly' \in SUBSET Cells
  BY <1>2 DEF ObstacleTurn, TypeOK
<1> USE DEF stepVars, queueVars, gridVars, navVars, worldVars
<1>5. CASE KeepPlan(a)
  BY <1>2, <1>3, <1>4, <1>5 DEF KeepPlan, ObstacleTurn, TypeOK
<1>6. CASE Replan(a)
  <2>1. task[a] # NoTask /\ TaskGoal[task[a]] # NoCell
    BY <1>6 DEF Replan, HitByObstacle
  <2>2. path' \in [Agents -> Seq(Cells)]
    <3>1. PICK route \in Routes(a) : path' = [path EXCEPT ![a] = route]
      BY <1>6 DEF Replan
    <3>2. route \in Seq(Cells)
      BY <2>1, RoutesType
    <3>3. QED
      BY <3>1, <3>2 DEF TypeOK
  <2>3. cells' \in [Agents -> SUBSET Cells]
    BY <1>6, CostmapCellsType DEF Replan, ClaimedCells, TypeOK
  <2>4. Transition(Transition(bstate[a], "planning"), "executing")
          \in BehaviorStates
    BY TransitionType, StateNames DEF TypeOK
  <2>5. bstate' \in [Agents -> BehaviorStates]
    BY <1>6, <2>4 DEF Replan, TypeOK
  <2>6. hist' \in [Agents -> [0 .. StuckWindow -> Cells \cup {NoCell}]]
    BY <1>6, EmptyType DEF Replan, TypeOK
  <2>7. retries' \in [Agents -> 0 .. MaxRetries]
    BY <1>6, ConfigAssumption DEF Replan, TypeOK
  <2>8. QED
    BY <1>2, <1>3, <1>4, <1>6, <2>2, <2>3, <2>5, <2>6, <2>7
    DEF Replan, ObstacleTurn, TypeOK
<1>7. CASE BlockedOut(a)
  <2>1. task[a] # NoTask
    BY <1>7 DEF BlockedOut, HitByObstacle
  <2>2. Transition(bstate[a], "planning") \in BehaviorStates
    BY TransitionType, StateNames DEF TypeOK
  <2>3. EndTask(a, Transition(bstate[a], "planning"), "failed")
    BY <1>7 DEF BlockedOut
  <2>4. QED
    BY <1>2, <1>3, <1>4, <1>7, <2>1, <2>2, <2>3, EndTaskType
    DEF BlockedOut, ObstacleTurn, Stop, TypeOK
<1>8. QED
  BY <1>1, <1>5, <1>6, <1>7

-----------------------------------------------------------------------------
(* The dispatcher *)

LEMMA TypeDispatch ==
  ASSUME TypeOK, Dispatch
  PROVE  TypeOK'
<1> USE DEF DispatchUnchanged, queueVars, gridVars, navVars, worldVars
<1>1. queue # <<>> => Head(queue) \in Tasks /\ Tail(queue) \in Seq(Tasks)
  BY HeadTailProperties DEF TypeOK
<1>2. ASSUME NEW a \in Agents, Assign(a)
      PROVE  TypeOK'
  <2>1. Transition(bstate[a], "assigned") \in BehaviorStates
    BY TransitionType, StateNames DEF TypeOK
  <2>2. bstate' \in [Agents -> BehaviorStates]
    BY <1>2, <2>1 DEF Assign, TypeOK
  <2>3. /\ task' \in [Agents -> Tasks \cup {NoTask}]
        /\ record' \in [Tasks ->
              {"none", "assigned", "executing", "succeeded", "failed"}]
    BY <1>1, <1>2 DEF Assign, TypeOK
  <2>4. QED
    BY <1>1, <1>2, <2>2, <2>3 DEF Assign, Popped, TypeOK
<1>3. CASE Defer
  <2>1. deferred' \in Seq(Tasks)
    BY <1>1, <1>3, AppendProperties DEF Defer, TypeOK
  <2>2. QED
    BY <1>1, <1>3, <2>1 DEF Defer, Popped, TypeOK
<1>4. CASE Requeue
  BY <1>4 DEF Requeue, TypeOK
<1>5. CASE Resubmit
  <2>1. Head(deferred) \in Tasks /\ deferred' \in Seq(Tasks)
    BY <1>5, HeadTailProperties DEF Resubmit, TypeOK
  <2>2. queue' \in Seq(Tasks)
    BY <1>5, <2>1, EnqueuedProperties DEF Resubmit, TypeOK
  <2>3. QED
    BY <1>5, <2>1, <2>2 DEF Resubmit, TypeOK
<1>6. CASE EndDispatch
  BY <1>6 DEF EndDispatch, TypeOK
<1>7. QED
  BY <1>2, <1>3, <1>4, <1>5, <1>6 DEF Dispatch

-----------------------------------------------------------------------------
(* One agent's iteration *)

\* What the lemmas below need of a turn: where the loop goes on, and what only
\* other parts of the step change.
LEMMA TurnType ==
  ASSUME TypeOK, NEW a \in Agents, Turn(a)
  PROVE  /\ turn' \in Agents /\ pc' \in {pc, "ready"}
         /\ UNCHANGED <<lifecycle, started, queue, deferred, blocked, pending,
                        newly, estop, hold, locked, jammed>>
BY MoveOnType DEF Turn, queueVars, gridVars, worldVars

LEMMA TypeStanding ==
  ASSUME TypeOK, NEW a \in Agents,
         \/ SkipIdle(a) \/ RejectStopped(a) \/ LeaveToOperator(a)
         \/ NoGoal(a) \/ RestStill(a)
  PROVE  TypeOK'
<1>1. Turn(a) /\ Standing(a)
  BY DEF SkipIdle, RejectStopped, LeaveToOperator, NoGoal, RestStill, Going,
         Autonomous
<1>2. yielding' \in [Agents -> BOOLEAN] /\ drive' \in [Agents -> BOOLEAN]
  BY DEF SkipIdle, RejectStopped, LeaveToOperator, NoGoal, RestStill, Going,
         Stop, TypeOK
<1>3. QED
  BY <1>1, <1>2, TurnType DEF Standing, navVars, TypeOK

LEMMA TypeYield ==
  ASSUME TypeOK, NEW a \in Agents, Yield(a)
  PROVE  TypeOK'
<1>1. Turn(a)
  BY DEF Yield, Autonomous
<1>2. hist' \in [Agents -> [0 .. StuckWindow -> Cells \cup {NoCell}]]
  BY EmptyType DEF Yield, TypeOK
<1>3. yielding' \in [Agents -> BOOLEAN] /\ drive' \in [Agents -> BOOLEAN]
  BY DEF Yield, Stop, TypeOK
<1>4. QED
  BY <1>1, <1>2, <1>3, TurnType DEF Yield, TypeOK

LEMMA GoingType ==
  ASSUME TypeOK, NEW a \in Agents, Going(a)
  PROVE  /\ Turn(a) /\ task[a] # NoTask /\ TaskGoal[task[a]] # NoCell
         /\ yielding' \in [Agents -> BOOLEAN]
BY DEF Going, Autonomous, TypeOK

LEMMA TypePlanning ==
  ASSUME TypeOK, NEW a \in Agents,
         BeginExecution(a) \/ WaitForCells(a) \/ PlanFails(a)
  PROVE  TypeOK'
<1>1. NeedsPlan(a) /\ Going(a)
  BY DEF BeginExecution, WaitForCells, PlanFails, NeedsPlan
<1>2. /\ Turn(a) /\ task[a] # NoTask /\ TaskGoal[task[a]] # NoCell
      /\ yielding' \in [Agents -> BOOLEAN]
  BY <1>1, GoingType
<1>3. PlanningState(a) \in BehaviorStates
  BY TransitionType, StateNames DEF PlanningState, TypeOK
<1>4. CASE BeginExecution(a)
  <2>1. path' \in [Agents -> Seq(Cells)]
    <3>1. PICK route \in Routes(a) : path' = [path EXCEPT ![a] = route]
      BY <1>4 DEF BeginExecution
    <3>2. route \in Seq(Cells)
      BY <1>2, RoutesType
    <3>3. QED
      BY <3>1, <3>2 DEF TypeOK
  <2>2. cells' \in [Agents -> SUBSET Cells]
    BY <1>4, CostmapCellsType DEF BeginExecution, ClaimedCells, TypeOK
  <2>3. bstate' \in [Agents -> BehaviorStates]
    BY <1>3, <1>4, TransitionType, StateNames DEF BeginExecution, TypeOK
  <2>4. record' \in [Tasks ->
          {"none", "assigned", "executing", "succeeded", "failed"}]
    BY <1>2, <1>4, GoalType DEF BeginExecution, TypeOK
  <2>5. hist' \in [Agents -> [0 .. StuckWindow -> Cells \cup {NoCell}]]
    BY <1>4, EmptyType DEF BeginExecution, TypeOK
  <2>6. retries' \in [Agents -> 0 .. MaxRetries]
    BY <1>4, ConfigAssumption DEF BeginExecution, TypeOK
  <2>7. drive' \in [Agents -> BOOLEAN]
    BY <1>4 DEF BeginExecution, Stop, TypeOK
  <2>8. QED
    BY <1>1, <1>2, <1>4, <2>1, <2>2, <2>3, <2>4, <2>5, <2>6, <2>7, TurnType
    DEF BeginExecution, NeedsPlan, TypeOK
<1>5. CASE WaitForCells(a)
  <2>1. bstate' \in [Agents -> BehaviorStates]
    BY <1>3, <1>5, TransitionType, StateNames DEF WaitForCells, TypeOK
  <2>2. drive' \in [Agents -> BOOLEAN]
    BY <1>5 DEF WaitForCells, Stop, TypeOK
  <2>3. QED
    BY <1>1, <1>2, <1>5, <2>1, <2>2, TurnType
    DEF WaitForCells, NeedsPlan, navVars, TypeOK
<1>6. CASE PlanFails(a)
  <2>1. EndTask(a, PlanningState(a), "failed")
    BY <1>6 DEF PlanFails
  <2>2. /\ cells' \in [Agents -> SUBSET Cells] /\ drive' \in [Agents -> BOOLEAN]
        /\ UNCHANGED turned
    BY <1>6 DEF PlanFails, Stop, TypeOK
  <2>3. QED
    BY <1>1, <1>2, <1>3, <1>6, <2>1, <2>2, EndTaskType, TurnType
    DEF NeedsPlan, TypeOK
<1>7. QED
  BY <1>4, <1>5, <1>6

\* What the iterations of a moving agent have in common.
LEMMA MovingType ==
  ASSUME TypeOK, NEW a \in Agents, Moving(a)
  PROVE  /\ Turn(a) /\ task[a] # NoTask /\ TaskGoal[task[a]] # NoCell
         /\ yielding' \in [Agents -> BOOLEAN]
         /\ MovingState(a) \in BehaviorStates
         /\ History(a) \in [0 .. StuckWindow -> Cells \cup {NoCell}]
         /\ Remaining(a) \in Seq(Cells)
         /\ Target(a) \in Cells
<1>1. /\ Turn(a) /\ task[a] # NoTask /\ TaskGoal[task[a]] # NoCell
      /\ yielding' \in [Agents -> BOOLEAN]
  BY GoingType DEF Moving
<1>2. MovingState(a) \in BehaviorStates
  BY TransitionType, StateNames DEF MovingState, TypeOK
<1>3. History(a) \in [0 .. StuckWindow -> Cells \cup {NoCell}]
  BY EmptyType DEF History, TypeOK
<1>4. Remaining(a) \in Seq(Cells)
  BY AfterReachedType DEF Remaining, TypeOK
<1>5. Target(a) \in Cells
  BY <1>1, <1>4, GoalType, HeadTailProperties DEF Target
<1>6. QED
  BY <1>1, <1>2, <1>3, <1>4, <1>5

LEMMA TypeAtGoal ==
  ASSUME TypeOK, NEW a \in Agents, Dwelling(a) \/ Succeed(a)
  PROVE  TypeOK'
<1>1. Moving(a)
  BY DEF Dwelling, Succeed
<1>2. drive' \in [Agents -> BOOLEAN]
  BY DEF Dwelling, Succeed, Stop, TypeOK
<1>3. CASE Dwelling(a)
  <2>1. TaskDwell[task[a]] \in Nat
    BY <1>1, MovingType, GoalType, FleetAssumption
  <2>2. dwell' \in [Agents -> Nat \cup {NotDwelling}]
    BY <1>3, <2>1 DEF Dwelling, TypeOK
  <2>3. /\ path' \in [Agents -> Seq(Cells)]
        /\ bstate' \in [Agents -> BehaviorStates]
        /\ hist' \in [Agents -> [0 .. StuckWindow -> Cells \cup {NoCell}]]
    BY <1>1, <1>3, MovingType DEF Dwelling, TypeOK
  <2>4. QED
    BY <1>1, <1>2, <1>3, <2>2, <2>3, MovingType, TurnType DEF Dwelling, TypeOK
<1>4. CASE Succeed(a)
  <2>1. EndTask(a, MovingState(a), "succeeded")
    BY <1>4 DEF Succeed
  <2>2. cells' \in [Agents -> SUBSET Cells] /\ UNCHANGED <<pose, turned>>
    BY <1>4 DEF Succeed, TypeOK
  <2>3. QED
    BY <1>1, <1>2, <2>1, <2>2, MovingType, EndTaskType, TurnType DEF TypeOK
<1>5. QED
  BY <1>3, <1>4

LEMMA TypeRejectLocked ==
  ASSUME TypeOK, NEW a \in Agents, RejectLocked(a)
  PROVE  TypeOK'
<1>1. Moving(a)
  BY DEF RejectLocked
<1>2. path' \in [Agents -> Seq(Cells)]
  BY <1>1, MovingType DEF RejectLocked, TypeOK
<1>3. bstate' \in [Agents -> BehaviorStates]
  BY <1>1, MovingType DEF RejectLocked, TypeOK
<1>4. hist' \in [Agents -> [0 .. StuckWindow -> Cells \cup {NoCell}]]
  BY <1>1, MovingType DEF RejectLocked, TypeOK
<1>5. drive' \in [Agents -> BOOLEAN]
  BY DEF RejectLocked, Stop, TypeOK
<1>6. QED
  BY <1>1, <1>2, <1>3, <1>4, <1>5, MovingType, TurnType
  DEF RejectLocked, TypeOK

\* The pose, the samples and the cells of an agent that drives.
LEMMA DrivingType ==
  ASSUME TypeOK, NEW a \in Agents, Driving(a)
  PROVE  /\ Moving(a)
         /\ pose' \in [Agents -> Cells] /\ turned' \in [Agents -> Nat]
         /\ Sampled(a) \in [0 .. StuckWindow -> Cells \cup {NoCell}]
         /\ \A p, route :
              [cells EXCEPT ![a] = RefreshedCells(a, p, route)]
                \in [Agents -> SUBSET Cells]
<1>1. Moving(a)
  BY DEF Driving
<1>2. pose' \in [Agents -> Cells] /\ turned' \in [Agents -> Nat]
  <2>1. pose \in [Agents -> Cells] /\ turned \in [Agents -> Nat]
    BY DEF TypeOK
  <2>2. StepToward(pose[a], Target(a)) \in Cells
    BY <1>1, <2>1, MovingType, StepTowardType
  <2>3. QED
    BY <2>1, <2>2 DEF Driving, Apply, TurnInPlace, Advance
<1>3. \A p, route : RefreshedCells(a, p, route) \in SUBSET Cells
  BY CostmapCellsType DEF RefreshedCells
<1>4. cells \in [Agents -> SUBSET Cells]
  BY DEF TypeOK
<1>5. Sampled(a) \in [0 .. StuckWindow -> Cells \cup {NoCell}]
  BY <1>1, <1>2, MovingType, ConfigAssumption DEF Sampled
<1>6. QED
  BY <1>1, <1>2, <1>3, <1>4, <1>5

LEMMA TypeDriveOn ==
  ASSUME TypeOK, NEW a \in Agents, DriveOn(a)
  PROVE  TypeOK'
<1>1. /\ Moving(a) /\ pose' \in [Agents -> Cells]
      /\ turned' \in [Agents -> Nat]
      /\ Sampled(a) \in [0 .. StuckWindow -> Cells \cup {NoCell}]
  BY DrivingType DEF DriveOn
<1>2. path' \in [Agents -> Seq(Cells)]
  BY <1>1, MovingType DEF DriveOn, TypeOK
<1>3. bstate' \in [Agents -> BehaviorStates]
  BY <1>1, MovingType DEF DriveOn, TypeOK
<1>4. hist' \in [Agents -> [0 .. StuckWindow -> Cells \cup {NoCell}]]
  BY <1>1, MovingType DEF DriveOn, TypeOK
<1>5. cells' \in [Agents -> SUBSET Cells]
  BY DrivingType DEF DriveOn
<1>6. drive' \in [Agents -> BOOLEAN]
  BY DEF DriveOn, TypeOK
<1>7. UNCHANGED <<record, task, retries, resume, dwell>>
  BY DEF DriveOn
<1>8. QED
  BY <1>1, <1>2, <1>3, <1>4, <1>5, <1>6, <1>7, MovingType, TurnType DEF TypeOK

LEMMA TypeStartRecovery ==
  ASSUME TypeOK, NEW a \in Agents, StartRecovery(a)
  PROVE  TypeOK'
<1>1. /\ Moving(a) /\ pose' \in [Agents -> Cells]
      /\ turned' \in [Agents -> Nat]
      /\ Sampled(a) \in [0 .. StuckWindow -> Cells \cup {NoCell}]
  BY DrivingType DEF StartRecovery
<1>2. path' \in [Agents -> Seq(Cells)]
  BY <1>1, MovingType DEF StartRecovery, TypeOK
<1>3. bstate' \in [Agents -> BehaviorStates]
  <2>1. Transition(MovingState(a), "recovering") \in BehaviorStates
    BY <1>1, MovingType, TransitionType, StateNames
  <2>2. QED
    BY <2>1 DEF StartRecovery, TypeOK
<1>4. hist' \in [Agents -> [0 .. StuckWindow -> Cells \cup {NoCell}]]
  BY <1>1, MovingType DEF StartRecovery, TypeOK
<1>5. retries' \in [Agents -> 0 .. MaxRetries]
  <2>1. retries[a] \in 0 .. MaxRetries /\ retries[a] < MaxRetries
    BY DEF StartRecovery, RetriesLeft, TypeOK
  <2>2. retries[a] + 1 \in 0 .. MaxRetries
    BY <2>1, ConfigAssumption
  <2>3. QED
    BY <2>2 DEF StartRecovery, TypeOK
<1>6. resume' \in [Agents -> 0 .. RecoveryWait]
  <2>1. RecoveryWait \in 0 .. RecoveryWait
    BY ConfigAssumption
  <2>2. QED
    BY <2>1 DEF StartRecovery, TypeOK
<1>7. cells' \in [Agents -> SUBSET Cells]
  BY DrivingType DEF StartRecovery
<1>8. drive' \in [Agents -> BOOLEAN] /\ UNCHANGED <<record, task, dwell>>
  BY DEF StartRecovery, TypeOK
<1>9. QED
  BY <1>1, <1>2, <1>3, <1>4, <1>5, <1>6, <1>7, <1>8, MovingType, TurnType
  DEF TypeOK

LEMMA TypeGiveUp ==
  ASSUME TypeOK, NEW a \in Agents, GiveUp(a)
  PROVE  TypeOK'
<1>1. /\ Moving(a) /\ pose' \in [Agents -> Cells]
      /\ turned' \in [Agents -> Nat]
  BY DrivingType DEF GiveUp
<1>2. EndTask(a, MovingState(a), "failed")
  BY DEF GiveUp
<1>3. cells' \in [Agents -> SUBSET Cells]
  BY DrivingType DEF GiveUp
<1>4. drive' \in [Agents -> BOOLEAN]
  BY DEF GiveUp, Stop, TypeOK
<1>5. QED
  BY <1>1, <1>2, <1>3, <1>4, MovingType, EndTaskType, TurnType DEF TypeOK

LEMMA TypeAgentTurn ==
  ASSUME TypeOK, NEW a \in Agents, AgentTurn(a)
  PROVE  TypeOK'
BY TypeStanding, TypeYield, TypePlanning, TypeAtGoal, TypeRejectLocked,
   TypeDriveOn, TypeStartRecovery, TypeGiveUp
DEF AgentTurn

-----------------------------------------------------------------------------
(* Type correctness *)

LEMMA TypeStep == TypeOK /\ [Next]_vars => TypeOK'
<1> SUFFICES ASSUME TypeOK, [Next]_vars
             PROVE  TypeOK'
  OBVIOUS
<1>1. CASE External
  BY <1>1, TypeExternal
<1>2. CASE Step
  BY <1>2, TypeBeginStep DEF Step
<1>3. CASE Obstacles
  BY <1>3, TypeObstacles
<1>4. CASE Dispatch
  BY <1>4, TypeDispatch
<1>5. ASSUME NEW a \in Agents, AgentTurn(a)
      PROVE  TypeOK'
  BY <1>5, TypeAgentTurn
<1>6. CASE UNCHANGED vars
  BY <1>6
  DEF vars, stepVars, queueVars, gridVars, navVars, worldVars, TypeOK
<1>7. QED
  BY <1>1, <1>2, <1>3, <1>4, <1>5, <1>6 DEF Next, Loop

\* Every variable keeps its type, whatever the loop and its callers do: in
\* particular an agent that acts on a task's goal has a task, a plan is made of
\* cells, and the retry counter and the deadlines stay within their limits.
THEOREM TypeCorrect == Spec => []TypeOK
<1>1. QED
  BY TypeInit, TypeStep, PTL DEF Spec

-----------------------------------------------------------------------------
(* The inductive invariant *)

NoRecords(s) == \A i \in 1 .. Len(s) : record[s[i]] = "none"

Distinct(s) == \A i, j \in 1 .. Len(s) : s[i] = s[j] => i = j

Apart(s, u) == \A i \in 1 .. Len(s), j \in 1 .. Len(u) : s[i] # u[j]

\* What WaitsOnce says of the concatenation, said of its two halves; and the
\* dispatcher's local list is empty unless it is at work.
QueuesOnce ==
  /\ NoRecords(queue) /\ NoRecords(deferred)
  /\ Distinct(queue) /\ Distinct(deferred)
  /\ Apart(queue, deferred)
  /\ pc \in {"ready", "first", "obstacles", "turns"} => deferred = <<>>

AgentsAgree == BusyIffTasked /\ RecordsAgree /\ OneAgentPerTask

TaskInv == TypeOK /\ AgentsAgree /\ QueuesOnce /\ CleanWhenIdle

-----------------------------------------------------------------------------
(* What a step does to tasks and agents *)

Resting == {"idle", "assigned", "reserving"} \cup OnTask

\* Every agent keeps its task and how far it is with it.
Keeps ==
  /\ UNCHANGED <<task, record>>
  /\ \A b \in Agents :
       /\ bstate'[b] \in Resting
       /\ bstate'[b] = "idle" <=> bstate[b] = "idle"
       /\ bstate'[b] \in OnTask <=> bstate[b] \in OnTask

\* The execution of agent a's task begins.
Begins(a) ==
  /\ task[a] # NoTask /\ bstate[a] \notin OnTask
  /\ UNCHANGED task
  /\ record' = [record EXCEPT ![task[a]] = "executing"]
  /\ bstate' = [bstate EXCEPT ![a] = "executing"]

\* Agent a's task is over; only an agent under way succeeds.
Ends(a) ==
  /\ task[a] # NoTask
  /\ \E outcome \in {"succeeded", "failed"} :
       /\ outcome = "succeeded" => bstate[a] \in OnTask
       /\ record' = [record EXCEPT ![task[a]] = outcome]
  /\ task' = [task EXCEPT ![a] = NoTask]
  /\ bstate' = [bstate EXCEPT ![a] = "idle"]

\* An agent without a task gets t, which has no record.
Gets(a, t) ==
  /\ task[a] = NoTask
  /\ t \in Tasks /\ record[t] = "none"
  /\ task' = [task EXCEPT ![a] = t]
  /\ record' = [record EXCEPT ![t] = "assigned"]
  /\ bstate' = [bstate EXCEPT ![a] = "assigned"]

LEMMA KeepsAgreement ==
  ASSUME TypeOK, AgentsAgree, Keeps
  PROVE  AgentsAgree'
<1>1. BusyIffTasked'
  BY DEF AgentsAgree, BusyIffTasked, Keeps, Resting
<1>2. RecordsAgree'
  BY DEF AgentsAgree, RecordsAgree, Keeps
<1>3. OneAgentPerTask'
  BY DEF AgentsAgree, OneAgentPerTask, Keeps
<1>4. QED
  BY <1>1, <1>2, <1>3 DEF AgentsAgree

LEMMA BeginsAgreement ==
  ASSUME TypeOK, AgentsAgree, NEW a \in Agents, Begins(a)
  PROVE  AgentsAgree'
<1>1. task[a] \in Tasks
  BY OwnTask DEF Begins
<1>2. BusyIffTasked'
  BY DEF AgentsAgree, BusyIffTasked, Begins, OnTask, TypeOK
<1>3. RecordsAgree'
  <2>1. ASSUME NEW b \in Agents, task'[b] # NoTask
        PROVE  record'[task'[b]] =
                 IF bstate'[b] \in OnTask THEN "executing" ELSE "assigned"
    <3>1. CASE b = a
      BY <1>1, <3>1 DEF Begins, OnTask, TypeOK
    <3>2. CASE b # a
      <4>1. task[b] \in Tasks /\ task[b] # task[a]
        BY <2>1, <3>2, OwnTask DEF Begins, AgentsAgree, OneAgentPerTask
      <4>2. record'[task[b]] = record[task[b]] /\ bstate'[b] = bstate[b]
        BY <1>1, <3>2, <4>1 DEF Begins, TypeOK
      <4>3. QED
        BY <2>1, <4>2 DEF Begins, AgentsAgree, RecordsAgree
    <3>3. QED
      BY <3>1, <3>2
  <2>2. ASSUME NEW t \in Tasks, record'[t] \in {"assigned", "executing"}
        PROVE  \E b \in Agents : task'[b] = t
    BY <1>1, <2>2 DEF Begins, AgentsAgree, RecordsAgree, TypeOK
  <2>3. QED
    BY <2>1, <2>2 DEF RecordsAgree
<1>4. OneAgentPerTask'
  BY DEF AgentsAgree, OneAgentPerTask, Begins
<1>5. QED
  BY <1>2, <1>3, <1>4 DEF AgentsAgree

LEMMA EndsAgreement ==
  ASSUME TypeOK, AgentsAgree, NEW a \in Agents, Ends(a)
  PROVE  AgentsAgree'
<1>1. task[a] \in Tasks
  BY OwnTask DEF Ends
<1>2. BusyIffTasked'
  BY DEF AgentsAgree, BusyIffTasked, Ends, OnTask, TypeOK
<1>3. \A b \in Agents : task'[b] # NoTask =>
        /\ b # a /\ task'[b] = task[b] /\ task[b] \in Tasks
        /\ bstate'[b] = bstate[b]
  BY FleetAssumption DEF Ends, TypeOK
<1>4. RecordsAgree'
  <2>1. ASSUME NEW b \in Agents, task'[b] # NoTask
        PROVE  record'[task'[b]] =
                 IF bstate'[b] \in OnTask THEN "executing" ELSE "assigned"
    <3>1. task[b] # task[a]
      BY <1>3, <2>1 DEF Ends, AgentsAgree, OneAgentPerTask
    <3>2. record'[task[b]] = record[task[b]]
      BY <1>1, <1>3, <2>1, <3>1 DEF Ends, TypeOK
    <3>3. QED
      BY <1>3, <2>1, <3>2 DEF AgentsAgree, RecordsAgree
  <2>2. ASSUME NEW t \in Tasks, record'[t] \in {"assigned", "executing"}
        PROVE  \E b \in Agents : task'[b] = t
    <3>1. t # task[a] /\ record[t] \in {"assigned", "executing"}
      BY <1>1, <2>2 DEF Ends, TypeOK
    <3>2. PICK b \in Agents : task[b] = t
      BY <3>1 DEF AgentsAgree, RecordsAgree
    <3>3. QED
      BY <3>1, <3>2 DEF Ends, TypeOK
  <2>3. QED
    BY <2>1, <2>2 DEF RecordsAgree
<1>5. OneAgentPerTask'
  BY <1>3 DEF AgentsAgree, OneAgentPerTask
<1>6. QED
  BY <1>2, <1>4, <1>5 DEF AgentsAgree

LEMMA GetsAgreement ==
  ASSUME TypeOK, AgentsAgree, NEW a \in Agents, NEW t, Gets(a, t)
  PROVE  AgentsAgree'
<1>1. t # NoTask
  BY FleetAssumption DEF Gets
<1>2. \A b \in Agents : task[b] # t
  BY <1>1 DEF Gets, AgentsAgree, RecordsAgree
<1>3. BusyIffTasked'
  BY <1>1 DEF AgentsAgree, BusyIffTasked, Gets, OnTask, TypeOK
<1>4. RecordsAgree'
  <2>1. ASSUME NEW b \in Agents, task'[b] # NoTask
        PROVE  record'[task'[b]] =
                 IF bstate'[b] \in OnTask THEN "executing" ELSE "assigned"
    <3>1. CASE b = a
      BY <3>1 DEF Gets, OnTask, TypeOK
    <3>2. CASE b # a
      <4>1. /\ task'[b] = task[b] /\ bstate'[b] = bstate[b]
            /\ task[b] \in Tasks /\ task[b] # t
        BY <1>2, <2>1, <3>2 DEF Gets, TypeOK
      <4>2. record'[task[b]] = record[task[b]]
        BY <4>1 DEF Gets, TypeOK
      <4>3. QED
        BY <2>1, <4>1, <4>2 DEF AgentsAgree, RecordsAgree
    <3>3. QED
      BY <3>1, <3>2
  <2>2. ASSUME NEW u \in Tasks, record'[u] \in {"assigned", "executing"}
        PROVE  \E b \in Agents : task'[b] = u
    <3>1. CASE u = t
      BY <3>1 DEF Gets, TypeOK
    <3>2. CASE u # t
      <4>1. record[u] \in {"assigned", "executing"}
        BY <2>2, <3>2 DEF Gets, TypeOK
      <4>2. PICK b \in Agents : task[b] = u
        BY <4>1 DEF AgentsAgree, RecordsAgree
      <4>3. b # a
        BY <4>2, FleetAssumption DEF Gets
      <4>4. QED
        BY <4>2, <4>3 DEF Gets, TypeOK
    <3>3. QED
      BY <3>1, <3>2
  <2>3. QED
    BY <2>1, <2>2 DEF RecordsAgree
<1>5. OneAgentPerTask'
  BY <1>2 DEF AgentsAgree, OneAgentPerTask, Gets, TypeOK
<1>6. QED
  BY <1>3, <1>4, <1>5 DEF AgentsAgree

-----------------------------------------------------------------------------
(* The transitions the loop relies on are all allowed *)

LEMMA Transitions ==
  /\ Transition("idle", "assigned") = "assigned"
  /\ Transition("assigned", "planning") = "planning"
  /\ \A s \in {"planning", "reserving"} :
       /\ Transition(s, "executing") = "executing"
       /\ Transition(s, "reserving") = "reserving"
  /\ Transition("executing", "planning") = "planning"
  /\ Transition("executing", "recovering") = "recovering"
  /\ Transition("recovering", "executing") = "executing"
BY DEF Transition, Allowed

\* Every agent that has a task can end it, and is idle then.
LEMMA EndingTransitions ==
  /\ \A s \in {"assigned", "planning", "reserving"} \cup OnTask :
       Transition(Transition(s, "failed"), "idle") = "idle"
  /\ Transition(Transition("executing", "succeeded"), "idle") = "idle"
BY DEF Transition, Allowed, OnTask

LEMMA EndTaskEnds ==
  ASSUME NEW a \in Agents, NEW s, NEW outcome, EndTask(a, s, outcome),
         task[a] # NoTask,
         \/ /\ outcome = "failed"
            /\ s \in {"assigned", "planning", "reserving"} \cup OnTask
         \/ /\ outcome = "succeeded"
            /\ s = "executing"
            /\ bstate[a] \in OnTask
  PROVE  Ends(a)
<1>1. Transition(Transition(s, outcome), "idle") = "idle"
  BY EndingTransitions
<1>2. outcome \in {"succeeded", "failed"}
  OBVIOUS
<1>3. QED
  BY <1>1, <1>2 DEF EndTask, Ends

\* An agent that comes to its waypoint executes, or does so from now on.
LEMMA MovingExecutes ==
  ASSUME AgentsAgree, NEW a \in Agents, Moving(a)
  PROVE  /\ task[a] # NoTask
         /\ bstate[a] \in OnTask
         /\ MovingState(a) = "executing"
<1>1. task[a] # NoTask /\ bstate[a] \notin {"assigned", "reserving"}
  BY DEF Moving, Going, Autonomous
<1>2. bstate[a] \in OnTask
  BY <1>1 DEF AgentsAgree, BusyIffTasked
<1>3. QED
  BY <1>1, <1>2, Transitions DEF MovingState, OnTask

\* An agent that needs a plan makes it in "planning" or "reserving".
LEMMA PlanningStates ==
  ASSUME NEW a \in Agents, NeedsPlan(a)
  PROVE  task[a] # NoTask /\ PlanningState(a) \in {"planning", "reserving"}
BY Transitions DEF NeedsPlan, Going, Autonomous, PlanningState

\* If only one agent's state changes, and not how far it is, all tasks are kept.
LEMMA OneKeeps ==
  ASSUME TypeOK, AgentsAgree, NEW a \in Agents, NEW s,
         UNCHANGED <<task, record>>,
         bstate' = [bstate EXCEPT ![a] = s],
         \/ s \in OnTask /\ bstate[a] \in OnTask
         \/ s \in {"assigned", "reserving"}
              /\ bstate[a] \in {"assigned", "reserving"}
  PROVE  Keeps
<1>1. \A b \in Agents : bstate'[b] = IF b = a THEN s ELSE bstate[b]
  BY DEF TypeOK
<1>2. \A b \in Agents : bstate[b] \in Resting
  BY DEF AgentsAgree, BusyIffTasked, Resting
<1>3. QED
  BY <1>1, <1>2 DEF Keeps, Resting, OnTask

LEMMA UnchangedKeeps ==
  ASSUME AgentsAgree, UNCHANGED <<task, record, bstate>>
  PROVE  Keeps
BY DEF Keeps, AgentsAgree, BusyIffTasked, Resting

-----------------------------------------------------------------------------
(* What each action does *)

LEMMA ObstaclesDo ==
  ASSUME TypeOK, AgentsAgree, NEW a \in Agents,
         KeepPlan(a) \/ Replan(a) \/ BlockedOut(a)
  PROVE  Keeps \/ Ends(a)
<1>1. CASE KeepPlan(a)
  BY <1>1, UnchangedKeeps DEF KeepPlan
<1>2. CASE Replan(a)
  <2>1. bstate[a] = "executing"
    BY <1>2 DEF Replan, HitByObstacle
  <2>2. Transition(Transition(bstate[a], "planning"), "executing") = "executing"
    BY <2>1, Transitions
  <2>3. bstate' = [bstate EXCEPT ![a] = "executing"]
    BY <1>2, <2>2 DEF Replan
  <2>4. QED
    BY <1>2, <2>1, <2>3, OneKeeps DEF Replan, OnTask
<1>3. CASE BlockedOut(a)
  <2>1. task[a] # NoTask /\ bstate[a] = "executing"
    BY <1>3 DEF BlockedOut, HitByObstacle
  <2>2. QED
    BY <1>3, <2>1, Transitions, EndTaskEnds DEF BlockedOut
<1>4. QED
  BY <1>1, <1>2, <1>3

LEMMA AgentTurnDoes ==
  ASSUME TypeOK, AgentsAgree, NEW a \in Agents, AgentTurn(a)
  PROVE  Keeps \/ Begins(a) \/ Ends(a)
<1>1. CASE \/ SkipIdle(a) \/ RejectStopped(a) \/ LeaveToOperator(a)
           \/ NoGoal(a) \/ RestStill(a)
  BY <1>1, UnchangedKeeps
  DEF SkipIdle, RejectStopped, LeaveToOperator, NoGoal, RestStill, Standing
<1>2. CASE Yield(a)
  BY <1>2, UnchangedKeeps DEF Yield
<1>3. CASE BeginExecution(a)
  <2>1. task[a] # NoTask /\ PlanningState(a) \in {"planning", "reserving"}
    BY <1>3, PlanningStates DEF BeginExecution
  <2>2. Transition(PlanningState(a), "executing") = "executing"
    BY <2>1, Transitions
  <2>3. bstate[a] \notin OnTask
    BY <1>3 DEF BeginExecution, NeedsPlan, OnTask
  <2>4. QED
    BY <1>3, <2>1, <2>2, <2>3 DEF BeginExecution, Begins
<1>4. CASE WaitForCells(a)
  <2>1. PlanningState(a) \in {"planning", "reserving"}
    BY <1>4, PlanningStates DEF WaitForCells
  <2>2. Transition(PlanningState(a), "reserving") = "reserving"
    BY <2>1, Transitions
  <2>3. bstate[a] \in {"assigned", "reserving"}
    BY <1>4 DEF WaitForCells, NeedsPlan
  <2>4. QED
    BY <1>4, <2>2, <2>3, OneKeeps DEF WaitForCells
<1>5. CASE PlanFails(a)
  <2>1. task[a] # NoTask /\ PlanningState(a) \in {"planning", "reserving"}
    BY <1>5, PlanningStates DEF PlanFails
  <2>2. QED
    BY <1>5, <2>1, EndTaskEnds DEF PlanFails
<1>6. ASSUME Moving(a), UNCHANGED <<task, record>>, NEW s \in OnTask,
             bstate' = [bstate EXCEPT ![a] = s]
      PROVE  Keeps
  BY <1>6, MovingExecutes, OneKeeps
<1>7. CASE Dwelling(a) \/ RejectLocked(a) \/ DriveOn(a)
  <2>1. Moving(a) /\ UNCHANGED <<task, record>>
    BY <1>7 DEF Dwelling, RejectLocked, DriveOn, Driving
  <2>2. bstate' = [bstate EXCEPT ![a] = MovingState(a)]
    BY <1>7 DEF Dwelling, RejectLocked, DriveOn
  <2>3. QED
    BY <1>6, <2>1, <2>2, MovingExecutes DEF OnTask
<1>8. CASE StartRecovery(a)
  <2>1. Moving(a) /\ UNCHANGED <<task, record>>
    BY <1>8 DEF StartRecovery, Driving
  <2>2. bstate' = [bstate EXCEPT ![a] = "recovering"]
    BY <1>8, <2>1, MovingExecutes, Transitions DEF StartRecovery
  <2>3. QED
    BY <1>6, <2>1, <2>2 DEF OnTask
<1>9. CASE Succeed(a)
  BY <1>9, MovingExecutes, EndTaskEnds DEF Succeed
<1>10. CASE GiveUp(a)
  BY <1>10, MovingExecutes, EndTaskEnds DEF GiveUp, Driving, OnTask
<1>11. QED
  BY <1>1, <1>2, <1>3, <1>4, <1>5, <1>7, <1>8, <1>9, <1>10 DEF AgentTurn

LEMMA AssignGets ==
  ASSUME TypeOK, AgentsAgree, QueuesOnce, NEW a \in Agents, Assign(a)
  PROVE  Gets(a, Head(queue))
<1>1. queue \in Seq(Tasks) /\ queue # <<>>
  BY DEF Assign, TypeOK
<1>2. Head(queue) \in Tasks /\ Head(queue) = queue[1] /\ 1 \in 1 .. Len(queue)
  BY <1>1, HeadTailProperties, LenProperties, EmptySeq
<1>3. record[Head(queue)] = "none"
  BY <1>2 DEF QueuesOnce, NoRecords
<1>4. task[a] = NoTask
  BY DEF Assign, Nearest, FreeFor
<1>5. bstate[a] = "idle"
  BY <1>4 DEF AgentsAgree, BusyIffTasked
<1>6. bstate' = [bstate EXCEPT ![a] = "assigned"]
  BY <1>5, Transitions DEF Assign
<1>7. QED
  BY <1>2, <1>3, <1>4, <1>6 DEF Assign, Gets

\* Timeout fails what is unfinished; what is on record and over stays.
LEMMA TimeoutAgreement ==
  ASSUME TypeOK, AgentsAgree, Timeout
  PROVE  AgentsAgree'
<1>1. \A a \in Agents : task'[a] = NoTask
  BY DEF Timeout
<1>2. \A a \in Agents : bstate'[a] = "idle"
  <2> SUFFICES ASSUME NEW a \in Agents PROVE bstate'[a] = "idle"
    OBVIOUS
  <2>1. CASE task[a] = NoTask
    BY <2>1 DEF Timeout, AgentsAgree, BusyIffTasked
  <2>2. CASE task[a] # NoTask
    <3>1. bstate[a] \in {"assigned", "planning", "reserving"} \cup OnTask
      BY <2>2 DEF AgentsAgree, BusyIffTasked
    <3>2. Transition(Transition(bstate[a], "failed"), "idle") = "idle"
      BY <3>1, EndingTransitions
    <3>3. QED
      BY <2>2, <3>2 DEF Timeout
  <2>3. QED
    BY <2>1, <2>2
<1>3. \A t \in Tasks : record'[t] \notin {"assigned", "executing"}
  <2> SUFFICES ASSUME NEW t \in Tasks
               PROVE  record'[t] \notin {"assigned", "executing"}
    OBVIOUS
  <2>1. CASE Unfinished(t)
    BY <2>1 DEF Timeout
  <2>2. CASE ~Unfinished(t)
    <3>1. record'[t] = record[t] /\ \A a \in Agents : task[a] # t
      BY <2>2 DEF Timeout, Unfinished
    <3>2. QED
      BY <3>1 DEF AgentsAgree, RecordsAgree
  <2>3. QED
    BY <2>1, <2>2
<1>4. QED
  BY <1>1, <1>2, <1>3
  DEF AgentsAgree, BusyIffTasked, RecordsAgree, OneAgentPerTask

-----------------------------------------------------------------------------
(* The two queues *)

\* Submitting a task that is not queued neither duplicates nor loses a task.
LEMMA EnqueuedOnce ==
  ASSUME NEW q \in Seq(Tasks), NEW t \in Tasks, Distinct(q),
         \A i \in 1 .. Len(q) : q[i] # t
  PROVE  /\ Distinct(Enqueued(q, t, TaskPriority))
         /\ \A i \in 1 .. Len(Enqueued(q, t, TaskPriority)) :
              \/ Enqueued(q, t, TaskPriority)[i] = t
              \/ \E j \in 1 .. Len(q) : Enqueued(q, t, TaskPriority)[i] = q[j]
<1> DEFINE k == Ahead(q, t, TaskPriority)
           e == Enqueued(q, t, TaskPriority)
<1>1. k \in 0 .. Len(q) /\ Len(q) \in Nat
  BY AheadType, LenProperties
<1>2. /\ Len(e) = Len(q) + 1
      /\ e[k + 1] = t
      /\ \A i \in 1 .. k : e[i] = q[i]
      /\ \A i \in k + 2 .. Len(q) + 1 : e[i] = q[i - 1]
  BY EnqueuedProperties
<1> HIDE DEF k, e
<1> DEFINE from(i) == IF i <= k THEN i ELSE i - 1
<1>3. \A i \in 1 .. Len(e) : i # k + 1 =>
        from(i) \in 1 .. Len(q) /\ e[i] = q[from(i)]
  BY <1>1, <1>2
<1>4. \A i, j \in 1 .. Len(e) :
        i # k + 1 /\ j # k + 1 /\ from(i) = from(j) => i = j
  BY <1>1, <1>2
<1> HIDE DEF from
<1>5. Distinct(e)
  <2> SUFFICES ASSUME NEW i \in 1 .. Len(e), NEW j \in 1 .. Len(e), e[i] = e[j]
               PROVE  i = j
    BY DEF Distinct
  <2>1. CASE i # k + 1 /\ j # k + 1
    BY <1>3, <1>4, <2>1 DEF Distinct
  <2>2. CASE i = k + 1 \/ j = k + 1
    BY <1>2, <1>3, <2>2
  <2>3. QED
    BY <2>1, <2>2
<1>6. \A i \in 1 .. Len(e) : e[i] = t \/ \E j \in 1 .. Len(q) : e[i] = q[j]
  BY <1>2, <1>3
<1>7. QED
  BY <1>5, <1>6 DEF e

\* The queued tasks have no record, so what happens to recorded ones leaves
\* the queues alone.
LEMMA QueuesKept ==
  ASSUME TypeOK, AgentsAgree, QueuesOnce, UNCHANGED <<queue, deferred>>,
         Keeps \/ \E a \in Agents : Begins(a) \/ Ends(a),
         pc' \in {"ready", "first", "obstacles", "turns"} => deferred = <<>>
  PROVE  QueuesOnce'
<1>1. \A t \in Tasks : record[t] = "none" => record'[t] = "none"
  <2>1. \A a \in Agents : task[a] # NoTask => record[task[a]] # "none"
    BY DEF AgentsAgree, RecordsAgree
  <2>2. QED
    BY <2>1 DEF Keeps, Begins, Ends, TypeOK
<1>2. /\ \A i \in 1 .. Len(queue) : queue[i] \in Tasks
      /\ \A i \in 1 .. Len(deferred) : deferred[i] \in Tasks
  BY ElementOfSeq DEF TypeOK
<1>3. QED
  BY <1>1, <1>2 DEF QueuesOnce, NoRecords, Distinct, Apart

LEMMA SubmitQueues ==
  ASSUME TypeOK, QueuesOnce, NEW t \in Tasks, Submit(t)
  PROVE  QueuesOnce'
<1>1. deferred = <<>> /\ deferred' = <<>> /\ record' = record
  BY DEF Submit, QueuesOnce, stepVars
<1>2. queue \in Seq(Tasks) /\ \A i \in 1 .. Len(queue) : queue[i] # t
  BY DEF Submit, Pending, TypeOK
<1>3. /\ Distinct(queue')
      /\ \A i \in 1 .. Len(queue') :
           queue'[i] = t \/ \E j \in 1 .. Len(queue) : queue'[i] = queue[j]
  BY <1>2, EnqueuedOnce DEF Submit, QueuesOnce
<1>4. NoRecords(queue)'
  BY <1>1, <1>3 DEF NoRecords, QueuesOnce, Submit
<1>5. QED
  BY <1>1, <1>3, <1>4, EmptySeq DEF QueuesOnce, NoRecords, Distinct, Apart

\* Facts about the head and the tail of a queue without duplicates.
LEMMA PoppedOnce ==
  ASSUME NEW q \in Seq(Tasks), q # <<>>, Distinct(q)
  PROVE  /\ Tail(q) \in Seq(Tasks) /\ Distinct(Tail(q))
         /\ Head(q) \in Tasks /\ 1 \in 1 .. Len(q) /\ Head(q) = q[1]
         /\ \A i \in 1 .. Len(Tail(q)) :
              /\ i + 1 \in 1 .. Len(q) /\ Tail(q)[i] = q[i + 1]
              /\ Tail(q)[i] # Head(q)
<1>1. Len(q) \in Nat \ {0} /\ Head(q) = q[1]
  BY EmptySeq
<1>2. /\ Head(q) \in Tasks /\ Tail(q) \in Seq(Tasks)
      /\ Len(Tail(q)) = Len(q) - 1
      /\ \A i \in 1 .. Len(Tail(q)) : Tail(q)[i] = q[i + 1]
  BY HeadTailProperties
<1>3. \A i \in 1 .. Len(Tail(q)) : i \in Int /\ i + 1 \in 1 .. Len(q) /\ i + 1 # 1
  BY <1>1, <1>2
<1>4. \A i \in 1 .. Len(Tail(q)) : Tail(q)[i] # Head(q)
  BY <1>1, <1>2, <1>3 DEF Distinct
<1>5. Distinct(Tail(q))
  <2> SUFFICES ASSUME NEW i \in 1 .. Len(Tail(q)), NEW j \in 1 .. Len(Tail(q)),
                      Tail(q)[i] = Tail(q)[j]
               PROVE  i = j
    BY DEF Distinct
  <2>1. i + 1 = j + 1
    BY <1>2, <1>3 DEF Distinct
  <2>2. QED
    BY <1>3, <2>1
<1>6. QED
  BY <1>1, <1>2, <1>3, <1>4, <1>5

LEMMA AssignQueues ==
  ASSUME TypeOK, QueuesOnce, NEW a \in Agents, Assign(a)
  PROVE  QueuesOnce'
<1>1. /\ queue # <<>> /\ queue' = Tail(queue) /\ UNCHANGED <<pc, deferred>>
      /\ record' = [record EXCEPT ![Head(queue)] = "assigned"]
  BY DEF Assign, Popped
<1>2. queue \in Seq(Tasks) /\ deferred \in Seq(Tasks) /\ Distinct(queue)
  BY DEF TypeOK, QueuesOnce
<1>3. \A t \in Tasks : t # Head(queue) => record'[t] = record[t]
  BY <1>1 DEF TypeOK
<1>4. NoRecords(queue)'
  <2>1. \A i \in 1 .. Len(queue') : queue'[i] \in Tasks
    BY <1>1, <1>2, PoppedOnce, ElementOfSeq
  <2>2. QED
    BY <1>1, <1>2, <1>3, <2>1, PoppedOnce DEF QueuesOnce, NoRecords
<1>5. NoRecords(deferred)'
  <2>1. \A i \in 1 .. Len(deferred) : deferred[i] \in Tasks
    BY <1>2, ElementOfSeq
  <2>2. \A i \in 1 .. Len(deferred) : deferred[i] # Head(queue)
    BY <1>1, <1>2, PoppedOnce DEF QueuesOnce, Apart
  <2>3. QED
    BY <1>1, <1>3, <2>1, <2>2 DEF QueuesOnce, NoRecords
<1>6. Apart(queue, deferred)'
  BY <1>1, <1>2, PoppedOnce DEF QueuesOnce, Apart
<1>7. QED
  BY <1>1, <1>2, <1>4, <1>5, <1>6, PoppedOnce DEF QueuesOnce, Distinct

LEMMA DeferQueues ==
  ASSUME TypeOK, QueuesOnce, Defer
  PROVE  QueuesOnce'
<1>1. /\ queue # <<>> /\ queue' = Tail(queue) /\ UNCHANGED <<pc, record>>
      /\ deferred' = Append(deferred, Head(queue))
      /\ pc \in {"dispatch", "drain"}
  BY DEF Defer, Popped
<1>2. queue \in Seq(Tasks) /\ deferred \in Seq(Tasks) /\ Distinct(queue)
  BY DEF TypeOK, QueuesOnce
<1> DEFINE n == Len(deferred)
<1>3. /\ n \in Nat /\ Len(deferred') = n + 1
      /\ \A i \in 1 .. n : deferred'[i] = deferred[i]
      /\ deferred'[n + 1] = Head(queue)
  BY <1>1, <1>2, PoppedOnce, AppendProperties, LenProperties
<1>4. \A i \in 1 .. n : deferred[i] # Head(queue)
  BY <1>1, <1>2, PoppedOnce DEF QueuesOnce, Apart
<1> HIDE DEF n
<1>5. \A i \in 1 .. n + 1 : i \in 1 .. n \/ i = n + 1
  BY <1>3
<1>6. NoRecords(queue)' /\ Distinct(queue')
  BY <1>1, <1>2, PoppedOnce DEF QueuesOnce, NoRecords
<1>7. NoRecords(deferred)'
  <2>1. record[Head(queue)] = "none"
    BY <1>1, <1>2, PoppedOnce DEF QueuesOnce, NoRecords
  <2>2. \A i \in 1 .. n : record[deferred[i]] = "none"
    BY DEF QueuesOnce, NoRecords, n
  <2>3. QED
    BY <1>1, <1>3, <1>5, <2>1, <2>2 DEF NoRecords
<1>8. Distinct(deferred')
  <2>1. \A i, j \in 1 .. n : deferred[i] = deferred[j] => i = j
    BY DEF QueuesOnce, Distinct, n
  <2>2. QED
    BY <1>3, <1>4, <1>5, <2>1 DEF Distinct
<1>9. Apart(queue, deferred)'
  <2>1. \A i \in 1 .. Len(queue'), j \in 1 .. n : queue'[i] # deferred[j]
    BY <1>1, <1>2, PoppedOnce DEF QueuesOnce, Apart, n
  <2>2. \A i \in 1 .. Len(queue') : queue'[i] # Head(queue)
    BY <1>1, <1>2, PoppedOnce
  <2>3. QED
    BY <1>3, <1>5, <2>1, <2>2 DEF Apart
<1>10. QED
  BY <1>1, <1>6, <1>7, <1>8, <1>9 DEF QueuesOnce, Distinct

LEMMA ResubmitQueues ==
  ASSUME TypeOK, QueuesOnce, Resubmit
  PROVE  QueuesOnce'
<1> DEFINE t == Head(deferred)
<1>1. /\ deferred # <<>> /\ deferred' = Tail(deferred)
      /\ queue' = Enqueued(queue, t, TaskPriority) /\ UNCHANGED <<pc, record>>
      /\ pc \in {"requeue", "resubmit"}
  BY DEF Resubmit
<1>2. queue \in Seq(Tasks) /\ deferred \in Seq(Tasks) /\ Distinct(deferred)
  BY DEF TypeOK, QueuesOnce
<1>3. t \in Tasks /\ \A i \in 1 .. Len(queue) : queue[i] # t
  BY <1>1, <1>2, PoppedOnce DEF QueuesOnce, Apart
<1> HIDE DEF t
<1>4. /\ Distinct(queue')
      /\ \A i \in 1 .. Len(queue') :
           queue'[i] = t \/ \E j \in 1 .. Len(queue) : queue'[i] = queue[j]
  BY <1>1, <1>2, <1>3, EnqueuedOnce DEF QueuesOnce
<1>5. NoRecords(queue)'
  <2>1. record[t] = "none"
    BY <1>1, <1>2, PoppedOnce DEF QueuesOnce, NoRecords, t
  <2>2. QED
    BY <1>1, <1>4, <2>1 DEF QueuesOnce, NoRecords
<1>6. NoRecords(deferred)' /\ Distinct(deferred')
  BY <1>1, <1>2, PoppedOnce DEF QueuesOnce, NoRecords
<1>7. Apart(queue, deferred)'
  <2>1. \A i \in 1 .. Len(queue), j \in 1 .. Len(deferred') :
          queue[i] # deferred'[j]
    BY <1>1, <1>2, PoppedOnce DEF QueuesOnce, Apart
  <2>2. \A j \in 1 .. Len(deferred') : t # deferred'[j]
    BY <1>1, <1>2, PoppedOnce DEF t
  <2>3. QED
    BY <1>4, <2>1, <2>2 DEF Apart
<1>8. QED
  BY <1>1, <1>4, <1>5, <1>6, <1>7 DEF QueuesOnce, Distinct

-----------------------------------------------------------------------------
(* What a finished task leaves behind *)

Clean(a) ==
  /\ path[a] = <<>>
  /\ hist[a] = Empty
  /\ retries[a] = 0
  /\ resume[a] = 0
  /\ dwell[a] = NotDwelling

\* Agent b's navigation state is not touched.
NavKept(b) ==
  /\ path'[b] = path[b]
  /\ hist'[b] = hist[b]
  /\ retries'[b] = retries[b]
  /\ resume'[b] = resume[b]
  /\ dwell'[b] = dwell[b]

LEMMA CleanKept ==
  ASSUME CleanWhenIdle,
         \A b \in Agents : task'[b] = NoTask =>
           Clean(b)' \/ (task[b] = NoTask /\ NavKept(b))
  PROVE  CleanWhenIdle'
BY DEF CleanWhenIdle, Clean, NavKept

LEMMA BeginStepClean ==
  ASSUME TypeOK, CleanWhenIdle, BeginStep
  PROVE  CleanWhenIdle'
<1>1. Ticked(0) = 0 /\ Ticked(NotDwelling) = NotDwelling
  BY DEF Ticked, NotDwelling
<1>2. Aged(Empty) = Empty
  BY ConfigAssumption DEF Aged, Empty
<1>3. QED
  BY <1>1, <1>2 DEF BeginStep, CleanWhenIdle

\* The end of a task clears the agent that had it, and no other.
LEMMA EndTaskClean ==
  ASSUME TypeOK, CleanWhenIdle, NEW a \in Agents, NEW s, NEW outcome,
         EndTask(a, s, outcome)
  PROVE  CleanWhenIdle'
<1>1. Clean(a)'
  BY DEF EndTask, ClearNav, Clean, TypeOK
<1>2. \A b \in Agents : b # a => task'[b] = task[b] /\ NavKept(b)
  BY DEF EndTask, ClearNav, NavKept, TypeOK
<1>3. QED
  BY <1>1, <1>2, CleanKept

\* An agent that still has its task changes its own navigation state only.
LEMMA AgentTurnClean ==
  ASSUME TypeOK, CleanWhenIdle, NEW a \in Agents, AgentTurn(a)
  PROVE  CleanWhenIdle'
<1>1. CASE \/ SkipIdle(a) \/ RejectStopped(a) \/ LeaveToOperator(a)
           \/ NoGoal(a) \/ RestStill(a)
  BY <1>1
  DEF SkipIdle, RejectStopped, LeaveToOperator, NoGoal, RestStill, Standing,
      navVars, CleanWhenIdle
<1>2. ASSUME task[a] # NoTask, UNCHANGED task,
             \A b \in Agents : b # a => NavKept(b)
      PROVE  CleanWhenIdle'
  BY <1>2, CleanKept
<1>3. ASSUME Going(a), UNCHANGED task,
             \A b \in Agents : b # a => NavKept(b)
      PROVE  CleanWhenIdle'
  BY <1>2, <1>3 DEF Going, Autonomous
<1>4. CASE Yield(a)
  <2>1. \A b \in Agents : b # a => NavKept(b)
    BY <1>4 DEF Yield, NavKept, TypeOK
  <2>2. QED
    BY <1>2, <1>4, <2>1 DEF Yield, Autonomous
<1>5. CASE BeginExecution(a)
  <2>1. \A b \in Agents : b # a => NavKept(b)
    <3>1. PICK route \in Routes(a) : path' = [path EXCEPT ![a] = route]
      BY <1>5 DEF BeginExecution
    <3>2. QED
      BY <1>5, <3>1 DEF BeginExecution, NavKept, TypeOK
  <2>2. QED
    BY <1>3, <1>5, <2>1 DEF BeginExecution, NeedsPlan
<1>6. CASE WaitForCells(a)
  BY <1>6 DEF WaitForCells, navVars, CleanWhenIdle
<1>7. CASE PlanFails(a) \/ Succeed(a) \/ GiveUp(a)
  BY <1>7, EndTaskClean DEF PlanFails, Succeed, GiveUp
<1>8. CASE Dwelling(a)
  <2>1. \A b \in Agents : b # a => NavKept(b)
    BY <1>8 DEF Dwelling, NavKept, TypeOK
  <2>2. QED
    BY <1>3, <1>8, <2>1 DEF Dwelling, Moving
<1>9. CASE RejectLocked(a)
  <2>1. \A b \in Agents : b # a => NavKept(b)
    BY <1>9 DEF RejectLocked, NavKept, TypeOK
  <2>2. QED
    BY <1>3, <1>9, <2>1 DEF RejectLocked, Moving
<1>10. CASE DriveOn(a)
  <2>1. \A b \in Agents : b # a => NavKept(b)
    BY <1>10 DEF DriveOn, NavKept, TypeOK
  <2>2. QED
    BY <1>3, <1>10, <2>1 DEF DriveOn, Driving, Moving
<1>11. CASE StartRecovery(a)
  <2>1. \A b \in Agents : b # a => NavKept(b)
    BY <1>11 DEF StartRecovery, NavKept, TypeOK
  <2>2. QED
    BY <1>3, <1>11, <2>1 DEF StartRecovery, Driving, Moving
<1>12. QED
  BY <1>1, <1>4, <1>5, <1>6, <1>7, <1>8, <1>9, <1>10, <1>11 DEF AgentTurn

LEMMA ObstaclesClean ==
  ASSUME TypeOK, CleanWhenIdle, NEW a \in Agents,
         KeepPlan(a) \/ Replan(a) \/ BlockedOut(a)
  PROVE  CleanWhenIdle'
<1>1. CASE KeepPlan(a)
  BY <1>1 DEF KeepPlan, navVars, CleanWhenIdle
<1>2. CASE Replan(a)
  <2>1. task[a] # NoTask /\ UNCHANGED task
    BY <1>2 DEF Replan, HitByObstacle
  <2>2. \A b \in Agents : b # a => NavKept(b)
    <3>1. PICK route \in Routes(a) : path' = [path EXCEPT ![a] = route]
      BY <1>2 DEF Replan
    <3>2. QED
      BY <1>2, <3>1 DEF Replan, NavKept, TypeOK
  <2>3. QED
    BY <2>1, <2>2, CleanKept
<1>3. CASE BlockedOut(a)
  BY <1>3, EndTaskClean DEF BlockedOut
<1>4. QED
  BY <1>1, <1>2, <1>3

\* Timeout clears the agents that had a task; the others were clean.
LEMMA TimeoutClean ==
  ASSUME CleanWhenIdle, Timeout
  PROVE  CleanWhenIdle'
BY DEF CleanWhenIdle, Timeout

-----------------------------------------------------------------------------
(* The invariant is inductive *)

LEMMA TaskInit == Init => TaskInv
<1> SUFFICES ASSUME Init PROVE TaskInv
  OBVIOUS
<1>1. AgentsAgree
  BY DEF Init, AgentsAgree, BusyIffTasked, RecordsAgree, OneAgentPerTask
<1>2. QueuesOnce
  BY EmptySeq DEF Init, QueuesOnce, NoRecords, Distinct, Apart
<1>3. CleanWhenIdle
  BY DEF Init, CleanWhenIdle
<1>4. QED
  BY <1>1, <1>2, <1>3, TypeInit DEF TaskInv

\* The calls from outside that leave tasks and agents alone.
LEMMA QuietStep ==
  ASSUME TaskInv,
         UNCHANGED <<task, record, bstate, queue, deferred, path, hist, retries,
                     resume, dwell>>,
         pc' \in {"ready", "first", "obstacles", "turns"} => deferred = <<>>
  PROVE  AgentsAgree' /\ QueuesOnce' /\ CleanWhenIdle'
<1>1. Keeps
  BY UnchangedKeeps DEF TaskInv
<1>2. QED
  BY <1>1, KeepsAgreement, QueuesKept DEF TaskInv, CleanWhenIdle

LEMMA BeginStepInv ==
  ASSUME TaskInv, BeginStep, pc \in {"ready", "first"}
  PROVE  AgentsAgree' /\ QueuesOnce' /\ CleanWhenIdle'
<1>1. Keeps
  BY UnchangedKeeps DEF TaskInv, BeginStep
<1>2. UNCHANGED <<queue, deferred>> /\ deferred = <<>>
  BY DEF BeginStep, queueVars, TaskInv, QueuesOnce
<1>3. QED
  BY <1>1, <1>2, KeepsAgreement, QueuesKept, BeginStepClean DEF TaskInv

LEMMA ExternalInv ==
  ASSUME TaskInv, External
  PROVE  AgentsAgree' /\ QueuesOnce' /\ CleanWhenIdle'
<1> USE DEF stepVars, queueVars, navVars
<1>1. ASSUME NEW t \in Tasks, Submit(t)
      PROVE  AgentsAgree' /\ QueuesOnce' /\ CleanWhenIdle'
  <2>1. AgentsAgree'
    BY <1>1, UnchangedKeeps, KeepsAgreement DEF TaskInv, Submit
  <2>2. QueuesOnce'
    BY <1>1, SubmitQueues DEF TaskInv
  <2>3. QED
    BY <1>1, <2>1, <2>2 DEF TaskInv, Submit, CleanWhenIdle
<1>2. CASE StartRun
  BY <1>2, QuietStep DEF StartRun
<1>3. CASE Timeout
  <2>1. AgentsAgree' /\ CleanWhenIdle'
    BY <1>3, TimeoutAgreement, TimeoutClean DEF TaskInv
  <2>2. queue' = <<>> /\ deferred' = <<>>
    BY <1>3 DEF Timeout, TaskInv, QueuesOnce
  <2>3. QED
    BY <2>1, <2>2, EmptySeq DEF QueuesOnce, NoRecords, Distinct, Apart
<1>4. CASE \/ SetLifecycle \/ \E S, stopped : SetEstop(S, stopped)
           \/ \E a \in Agents : ToggleLock(a) \/ ToggleJam(a)
           \/ \E a, moving : Teleop(a, moving)
  <2>1. pc = "ready" /\ deferred = <<>>
    BY <1>4
    DEF SetLifecycle, SetEstop, ToggleLock, ToggleJam, Teleop, TaskInv,
        QueuesOnce
  <2>2. UNCHANGED <<task, record, bstate, queue, deferred, path, hist, retries,
                    resume, dwell>>
    BY <1>4 DEF SetLifecycle, SetEstop, ToggleLock, ToggleJam, Teleop
  <2>3. QED
    BY <2>1, <2>2, QuietStep
<1>5. CASE StepPaused
  BY <1>5, BeginStepInv DEF StepPaused
<1>6. QED
  BY <1>1, <1>2, <1>3, <1>4, <1>5 DEF External

LEMMA DispatchInv ==
  ASSUME TaskInv, Dispatch
  PROVE  AgentsAgree' /\ QueuesOnce' /\ CleanWhenIdle'
<1>1. UNCHANGED <<path, hist, retries, resume, dwell>>
  BY DEF Dispatch, Assign, Defer, Requeue, Resubmit, EndDispatch,
         DispatchUnchanged, navVars
<1>2. ASSUME NEW a \in Agents, Assign(a)
      PROVE  AgentsAgree' /\ QueuesOnce' /\ CleanWhenIdle'
  <2>1. Gets(a, Head(queue))
    BY <1>2, AssignGets DEF TaskInv
  <2>2. AgentsAgree'
    BY <2>1, GetsAgreement DEF TaskInv
  <2>3. QueuesOnce'
    BY <1>2, AssignQueues DEF TaskInv
  <2>4. \A b \in Agents : task'[b] = NoTask => task[b] = NoTask /\ NavKept(b)
    BY <1>1, <2>1 DEF Gets, NavKept, TaskInv, TypeOK
  <2>5. QED
    BY <2>2, <2>3, <2>4, CleanKept DEF TaskInv
<1>3. ASSUME UNCHANGED <<task, record, bstate>>
      PROVE  AgentsAgree' /\ CleanWhenIdle'
  BY <1>1, <1>3, UnchangedKeeps, KeepsAgreement DEF TaskInv, CleanWhenIdle
<1>4. CASE Defer
  BY <1>3, <1>4, DeferQueues DEF Defer, TaskInv
<1>5. CASE Requeue
  BY <1>5, QuietStep, <1>1 DEF Requeue, queueVars, DispatchUnchanged
<1>6. CASE Resubmit
  BY <1>3, <1>6, ResubmitQueues DEF Resubmit, TaskInv
<1>7. CASE EndDispatch
  BY <1>7, QuietStep, <1>1 DEF EndDispatch, queueVars, DispatchUnchanged
<1>8. QED
  BY <1>2, <1>4, <1>5, <1>6, <1>7 DEF Dispatch

LEMMA TaskStep == TaskInv /\ [Next]_vars => TaskInv'
<1> SUFFICES ASSUME TaskInv, [Next]_vars
             PROVE  TaskInv'
  OBVIOUS
<1>1. TypeOK'
  BY TypeStep DEF TaskInv
<1>2. CASE External
  BY <1>1, <1>2, ExternalInv DEF TaskInv
<1>3. CASE Step
  BY <1>1, <1>3, BeginStepInv DEF Step, TaskInv
<1>4. CASE Obstacles
  <2>1. PICK a \in Agents : KeepPlan(a) \/ Replan(a) \/ BlockedOut(a)
    BY <1>4 DEF Obstacles
  <2>2. Keeps \/ Ends(a)
    BY <2>1, ObstaclesDo DEF TaskInv
  <2>3. UNCHANGED <<queue, deferred>> /\ pc = "obstacles"
    BY <2>1 DEF KeepPlan, Replan, BlockedOut, ObstacleTurn, queueVars
  <2>4. deferred = <<>>
    BY <2>3 DEF TaskInv, QueuesOnce
  <2>5. QED
    BY <1>1, <2>1, <2>2, <2>3, <2>4, KeepsAgreement, EndsAgreement, QueuesKept,
       ObstaclesClean
    DEF TaskInv
<1>5. CASE Dispatch
  BY <1>1, <1>5, DispatchInv DEF TaskInv
<1>6. ASSUME NEW a \in Agents, AgentTurn(a)
      PROVE  TaskInv'
  <2>1. Keeps \/ Begins(a) \/ Ends(a)
    BY <1>6, AgentTurnDoes DEF TaskInv
  <2>2. Turn(a)
    BY <1>6
    DEF AgentTurn, SkipIdle, RejectStopped, LeaveToOperator, NoGoal, Yield,
        BeginExecution, WaitForCells, PlanFails, RestStill, Dwelling, Succeed,
        RejectLocked, DriveOn, StartRecovery, GiveUp, Driving, Moving,
        NeedsPlan, Going, Autonomous
  <2>3. UNCHANGED <<queue, deferred>> /\ deferred = <<>>
    BY <2>2 DEF Turn, queueVars, TaskInv, QueuesOnce
  <2>4. QED
    BY <1>1, <1>6, <2>1, <2>3, KeepsAgreement, BeginsAgreement, EndsAgreement,
       QueuesKept, AgentTurnClean
    DEF TaskInv
<1>7. CASE UNCHANGED vars
  <2>1. UNCHANGED <<task, record, bstate, queue, deferred, path, hist, retries,
                    resume, dwell, pc>>
    BY <1>7 DEF vars, stepVars, queueVars, navVars
  <2>2. pc' \in {"ready", "first", "obstacles", "turns"} => deferred = <<>>
    BY <2>1 DEF TaskInv, QueuesOnce
  <2>3. QED
    BY <1>1, <2>1, <2>2, QuietStep DEF TaskInv
<1>8. QED
  BY <1>2, <1>3, <1>4, <1>5, <1>6, <1>7 DEF Next, Loop

\* The invariant holds throughout every run.
THEOREM TasksConsistent == Spec => []TaskInv
BY TaskInit, TaskStep, PTL DEF Spec

-----------------------------------------------------------------------------
(* What follows from it *)

\* An agent is idle exactly when it has no task, and no transition the loop
\* relies on is refused, in every fleet and under every call from outside.
THEOREM BusyIffTaskedHolds == Spec => []BusyIffTasked
<1>1. TaskInv => BusyIffTasked
  BY DEF TaskInv, AgentsAgree
<1>2. QED
  BY <1>1, TasksConsistent, PTL

\* The records say what the agents do.
THEOREM RecordsAgreeHolds == Spec => []RecordsAgree
<1>1. TaskInv => RecordsAgree
  BY DEF TaskInv, AgentsAgree
<1>2. QED
  BY <1>1, TasksConsistent, PTL

\* No task is executed by two agents.
THEOREM OneAgentPerTaskHolds == Spec => []OneAgentPerTask
<1>1. TaskInv => OneAgentPerTask
  BY DEF TaskInv, AgentsAgree
<1>2. QED
  BY <1>1, TasksConsistent, PTL

\* An agent without a task keeps nothing of its last one.
THEOREM CleanWhenIdleHolds == Spec => []CleanWhenIdle
<1>1. TaskInv => CleanWhenIdle
  BY DEF TaskInv
<1>2. QED
  BY <1>1, TasksConsistent, PTL

LEMMA ConcatOnce ==
  ASSUME NEW s \in Seq(Tasks), NEW u \in Seq(Tasks), Distinct(s), Distinct(u),
         Apart(s, u), NoRecords(s), NoRecords(u)
  PROVE  Distinct(s \o u) /\ NoRecords(s \o u)
<1> DEFINE m == Len(s)
           n == Len(u)
           w == s \o u
<1>1. /\ m \in Nat /\ n \in Nat /\ Len(w) = m + n
      /\ \A i \in 1 .. m + n : w[i] = IF i <= m THEN s[i] ELSE u[i - m]
  BY ConcatProperties, LenProperties
<1>2. /\ \A i, j \in 1 .. m : s[i] = s[j] => i = j
      /\ \A i, j \in 1 .. n : u[i] = u[j] => i = j
      /\ \A i \in 1 .. m, j \in 1 .. n : s[i] # u[j]
      /\ \A i \in 1 .. m : record[s[i]] = "none"
      /\ \A i \in 1 .. n : record[u[i]] = "none"
  BY DEF Distinct, Apart, NoRecords
<1> HIDE DEF m, n, w
<1>3. \A i \in 1 .. m + n : \/ i \in 1 .. m /\ w[i] = s[i]
                            \/ i - m \in 1 .. n /\ ~(i <= m) /\ w[i] = u[i - m]
  BY <1>1
<1>4. \A i, j \in 1 .. m + n : w[i] = w[j] => i = j
  BY <1>1, <1>2, <1>3
<1>5. \A i \in 1 .. m + n : record[w[i]] = "none"
  BY <1>2, <1>3
<1>6. QED
  BY <1>1, <1>4, <1>5 DEF Distinct, NoRecords, w

\* A task waits at most once, in the queue or in the dispatcher's list, and not
\* once it was given to an agent.
THEOREM WaitsOnceHolds == Spec => []WaitsOnce
<1>1. TaskInv => WaitsOnce
  <2> SUFFICES ASSUME TaskInv PROVE WaitsOnce
    OBVIOUS
  <2>1. /\ queue \in Seq(Tasks) /\ deferred \in Seq(Tasks) /\ QueuesOnce
    BY DEF TaskInv, TypeOK
  <2>2. Distinct(queue \o deferred) /\ NoRecords(queue \o deferred)
    BY <2>1, ConcatOnce DEF QueuesOnce
  <2>3. Distinct(deferred \o queue) /\ NoRecords(deferred \o queue)
    <3>1. Apart(deferred, queue)
      BY <2>1 DEF QueuesOnce, Apart
    <3>2. QED
      BY <2>1, <3>1, ConcatOnce DEF QueuesOnce
  <2>4. QED
    BY <2>2, <2>3 DEF WaitsOnce, Waiting, Distinct, NoRecords
<1>2. QED
  BY <1>1, TasksConsistent, PTL

=============================================================================
