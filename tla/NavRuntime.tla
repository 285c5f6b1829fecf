----------------------------- MODULE NavRuntime -----------------------------
(***************************************************************************)
(* The fixed-step loop of genesis_nav.core.runtime.Runtime: dispatch of    *)
(* queued tasks, the behavior of each agent, right-of-way, costmap cell    *)
(* reservation, stuck recovery, obstacle replanning, dwell, and what       *)
(* operators and tools may do between two steps.                           *)
(*                                                                         *)
(* Runtime.step runs to its end without interruption.  Here it is a run of *)
(* actions, one per iteration of its loops, ordered by pc and turn:        *)
(*   ready -> (obstacles, agent by agent) -> (dispatch, task by task)      *)
(*         -> turns, agent by agent -> ready                               *)
(* and, at the start of run_until_idle, drain -> resubmit -> first, which  *)
(* leads to a step without a call from outside in between.  All other      *)
(* calls from outside happen at "ready".  Agent ids are numbers in         *)
(* registration order, which is also their right-of-way order.  Deadlines  *)
(* are counters of the ticks left, moved by the clock step.                *)
(***************************************************************************)
EXTENDS Grid, PendingTasks

CONSTANTS
  NAgents,        (* registered agents, each with its adapter               *)
  Tasks,          (* task ids, each submitted at most once                  *)
  TaskGoal,       (* TaskSpec.goal: a cell, or NoCell                       *)
  TaskDwell,      (* TaskSpec.dwell_sec, in ticks                           *)
  TaskPriority,   (* TaskSpec.priority                                      *)
  TaskEligible,   (* agents named by the task or having its capabilities    *)
  Spawn,          (* AgentSpec.spawn                                        *)
  Walls,          (* cells blocked in the scenario's grid                   *)
  Deltas,         (* scripted obstacle deltas, each a set of cells          *)
  YieldRadius,    (* CollisionConfig.yield_radius_m, in cells; 0 is off     *)
  Costmap,        (* NavigationConfig.costmap_reservation                   *)
  StuckWindow,    (* stuck_window_sec, in ticks                             *)
  RecoveryWait,   (* recovery_wait_sec, in ticks                            *)
  MaxRetries,     (* max_recovery_retries                                   *)
  TurnTicks,      (* bound: ticks in which an agent turns in place before   *)
                  (* it moves; 0 for holonomic agents, which never do       *)
  TeleopHold,     (* teleop_hold_sec, in ticks                              *)
  Humanoids,      (* agents whose adapter reports falls                     *)
  Robots,         (* agents whose adapter has a command watchdog            *)
  Externals,      (* which calls from outside the instance allows           *)
  NoTask, NoCell  (* sentinels: the empty task id, no sample or goal        *)

Agents == 1 .. NAgents

ASSUME FleetAssumption ==
  /\ NAgents \in Nat \ {0}
  /\ NoTask \notin Tasks
  /\ TaskGoal \in [Tasks -> Cells \cup {NoCell}]
  /\ TaskDwell \in [Tasks -> Nat]
  /\ TaskPriority \in [Tasks -> Int]
  /\ TaskEligible \in [Tasks -> SUBSET Agents]
  /\ Spawn \in [Agents -> Cells]
  /\ Humanoids \subseteq Agents
  /\ Robots \subseteq Agents

ASSUME ConfigAssumption ==
  /\ Walls \subseteq Cells
  /\ Deltas \subseteq SUBSET (Int \X Int)
  /\ YieldRadius \in Nat
  /\ Costmap \in BOOLEAN
  /\ Costmap => Gridded
  /\ StuckWindow \in Nat \ {0}
  /\ RecoveryWait \in Nat
  /\ MaxRetries \in Nat
  /\ TurnTicks \in [Agents -> Nat]
  /\ TeleopHold \in Nat
  /\ NoCell \notin Cells

VARIABLES
  pc,         \* where the loop is
  turn,       \* the agent whose iteration is next
  lifecycle,  \* Runtime.lifecycle_state: active or paused
  started,    \* sim time has left 0
  queue,      \* TaskQueue, in pop order
  deferred,   \* Dispatcher.tick's local list of unassignable tasks
  record,     \* metrics.tasks[t].status, "none" without a record
  blocked,    \* the blocked cells of planner.grid
  pending,    \* deltas the obstacle source has not emitted yet
  newly,      \* _apply_obstacle_updates' local newly_blocked
  task,       \* AgentState.current_task_id
  bstate,     \* AgentState.behavior_state
  pose,       \* the cell the adapter reports
  turned,     \* the ticks the agent has turned in place since it moved
  estop,      \* AgentState.emergency_stopped
  yielding,   \* AgentState.yielding
  path,       \* Runtime._waypoints
  cells,      \* CostmapReservationStore
  hist,       \* Runtime._pose_history: the sample of each age in the window
  retries,    \* Runtime._recovery_retries
  resume,     \* ticks until _recovery_resume_at_sec
  dwell,      \* ticks until _dwell_until_sec, NotDwelling without an entry
  hold,       \* ticks until _teleop_hold_until
  locked,     \* an authority lock above AUTONOMY is active in the gate
  jammed,     \* the world keeps the agent from moving
  drive       \* the actuator's last order was a velocity, not a stop

stepVars  == <<pc, turn, lifecycle, started>>
queueVars == <<queue, deferred>>
gridVars  == <<blocked, pending, newly>>
navVars   == <<path, hist, retries, resume, dwell>>
worldVars == <<locked, jammed>>
vars == <<stepVars, queueVars, record, gridVars, task, bstate, pose, turned,
          estop, yielding, navVars, cells, hold, worldVars, drive>>

NotDwelling == -1

Empty == [k \in 0 .. StuckWindow |-> NoCell]

-----------------------------------------------------------------------------
(* Behavior states *)

BehaviorStates == {"idle", "assigned", "planning", "reserving", "executing",
                   "recovering", "succeeded", "failed"}

\* Mutant: _ALLOWED without the edge from recovering to failed.
AllowedNoAbort ==
  [idle       |-> {"assigned"},
   assigned   |-> {"planning", "failed"},
   planning   |-> {"reserving", "executing", "failed"},
   reserving  |-> {"executing", "failed"},
   executing  |-> {"planning", "recovering", "succeeded", "failed"},
   recovering |-> {"executing"},
   succeeded  |-> {"idle"},
   failed     |-> {"idle"}]

Allowed ==
  [idle       |-> {"assigned"},
   assigned   |-> {"planning", "failed"},
   planning   |-> {"reserving", "executing", "failed"},
   reserving  |-> {"executing", "failed"},
   executing  |-> {"planning", "recovering", "succeeded", "failed"},
   recovering |-> {"executing", "failed"},
   succeeded  |-> {"idle"},
   failed     |-> {"idle"}]

\* _transition_behavior ignores a transition that is not allowed.
Transition(s, target) == IF target \in Allowed[s] THEN target ELSE s

OnTask == {"executing", "recovering"}

-----------------------------------------------------------------------------
(* Reservation of costmap cells *)

\* Mutant: an agent sees the cells of earlier agents only.
BlockedForEarlier(a) == UNION {cells[b] : b \in {b \in Agents : b < a}}

\* CostmapReservationStore.blocked_for
BlockedFor(a) == UNION {cells[b] : b \in Agents \ {a}}

\* _run_planner: the plans from the agent's pose to its goal.
Routes(a) ==
  Plans(pose[a], TaskGoal[task[a]],
        blocked \cup (IF Costmap THEN Dilate(BlockedFor(a)) ELSE {}))

\* _should_wait_for_costmap: only other agents' cells are in the way.
MayWait(a) ==
  /\ Costmap
  /\ BlockedFor(a) # {}
  /\ Plans(pose[a], TaskGoal[task[a]], blocked) # {}

\* _claim_costmap_path
ClaimedCells(a, route) ==
  IF Costmap THEN CostmapCells(pose[a], route, TaskGoal[task[a]]) ELSE {}

\* _refresh_costmap_reservation, with the agent at p and its queue route.
RefreshedCells(a, p, route) ==
  IF Costmap THEN CostmapCells(p, route, TaskGoal[task[a]]) ELSE {}

-----------------------------------------------------------------------------
(* Right-of-way *)

InRadius(a, b) == SqDist(pose[a], pose[b]) <= YieldRadius * YieldRadius

\* Mutant: an agent gives way to parked agents too.
GiveWayToIdle(a, b) == b < a /\ InRadius(a, b)

\* Agent a gives way to an agent with a smaller id that has a task.
GivesWay(a, b) == b < a /\ task[b] # NoTask /\ InRadius(a, b)

\* _should_yield
ShouldYield(a) == YieldRadius > 0 /\ \E b \in Agents : GivesWay(a, b)

-----------------------------------------------------------------------------
(* Initial state *)

Init ==
  /\ pc = "ready" /\ turn = 1
  /\ lifecycle = "active"
  /\ started = FALSE
  /\ queue = <<>> /\ deferred = <<>>
  /\ record = [t \in Tasks |-> "none"]
  /\ blocked = Dilate(Walls) /\ pending = Deltas /\ newly = {}
  /\ task = [a \in Agents |-> NoTask]
  /\ bstate = [a \in Agents |-> "idle"]
  /\ pose = Spawn /\ turned = [a \in Agents |-> 0]
  /\ estop = [a \in Agents |-> FALSE]
  /\ yielding = [a \in Agents |-> FALSE]
  /\ path = [a \in Agents |-> <<>>]
  /\ cells = [a \in Agents |-> {}]
  /\ hist = [a \in Agents |-> Empty]
  /\ retries = [a \in Agents |-> 0]
  /\ resume = [a \in Agents |-> 0]
  /\ dwell = [a \in Agents |-> NotDwelling]
  /\ hold = [a \in Agents |-> 0]
  /\ locked = [a \in Agents |-> FALSE]
  /\ jammed = [a \in Agents |-> FALSE]
  /\ drive = [a \in Agents |-> FALSE]

-----------------------------------------------------------------------------
(* Shared parts of the actions *)

\* One iteration of a loop over the agents is over; the last one leads to next.
MoveOn(next) ==
  IF turn = NAgents
  THEN /\ turn' = 1
       /\ pc' = next
  ELSE /\ turn' = turn + 1
       /\ UNCHANGED pc

\* step() dispatches only when the queue is not empty.
AfterObstacles == IF queue = <<>> THEN "turns" ELSE "dispatch"

\* Mutant: the dwell deadline outlives the task.
ClearNavKeepDwell(a) ==
  /\ path' = [path EXCEPT ![a] = <<>>]
  /\ hist' = [hist EXCEPT ![a] = Empty]
  /\ retries' = [retries EXCEPT ![a] = 0]
  /\ resume' = [resume EXCEPT ![a] = 0]
  /\ UNCHANGED dwell

\* _clear_navigation_state, but for the costmap cells.
ClearNav(a) ==
  /\ path' = [path EXCEPT ![a] = <<>>]
  /\ hist' = [hist EXCEPT ![a] = Empty]
  /\ retries' = [retries EXCEPT ![a] = 0]
  /\ resume' = [resume EXCEPT ![a] = 0]
  /\ dwell' = [dwell EXCEPT ![a] = NotDwelling]

\* Mutant: the outcome does not reach the record.
EndTaskUnrecorded(a, s, outcome) ==
  /\ UNCHANGED record
  /\ task' = [task EXCEPT ![a] = NoTask]
  /\ bstate' = [bstate EXCEPT ![a] =
                  Transition(Transition(s, outcome), "idle")]
  /\ ClearNav(a)

\* The task of agent a ends in state s as outcome, "succeeded" or "failed".
EndTask(a, s, outcome) ==
  /\ record' = [record EXCEPT ![task[a]] = outcome]
  /\ task' = [task EXCEPT ![a] = NoTask]
  /\ bstate' = [bstate EXCEPT ![a] =
                  Transition(Transition(s, outcome), "idle")]
  /\ ClearNav(a)

Stop(a) == drive' = [drive EXCEPT ![a] = FALSE]

-----------------------------------------------------------------------------
(* Calls from outside, between two steps *)

Pending(t) == \E i \in 1 .. Len(queue) : queue[i] = t

\* submit_task; the id is new to the runtime.
Submit(t) ==
  /\ pc = "ready"
  /\ record[t] = "none"
  /\ ~Pending(t)
  /\ queue' = Enqueued(queue, t, TaskPriority)
  /\ UNCHANGED <<stepVars, deferred, record, gridVars, task, bstate, pose,
                 turned, estop, yielding, navVars, cells, hold, worldVars,
                 drive>>

\* run_until_idle dispatches what is queued before its first step.
StartRun ==
  /\ pc = "ready"
  /\ queue # <<>>
  /\ pc' = "drain"
  /\ UNCHANGED <<turn, lifecycle, started, queueVars, record, gridVars, task,
                 bstate, pose, turned, estop, yielding, navVars, cells, hold,
                 worldVars, drive>>

\* Mutant: every task on record is failed, finished or not.
UnfinishedOrDone(t) == Pending(t) \/ record[t] # "none"

\* A task that an agent has or that is queued.
Unfinished(t) == Pending(t) \/ \E a \in Agents : task[a] = t

\* run_until_idle is out of steps: _fail_remaining(reason="timeout") fails the
\* assigned tasks and the queued ones.  It stops no actuator.
Timeout ==
  /\ "timeout" \in Externals
  /\ pc \in {"ready", "first"}
  /\ pc' = "ready"
  /\ \E t \in Tasks : Unfinished(t)
  /\ record' = [t \in Tasks |-> IF Unfinished(t) THEN "failed" ELSE record[t]]
  /\ queue' = <<>>
  /\ LET busy == {a \in Agents : task[a] # NoTask} IN
       /\ task' = [a \in Agents |-> NoTask]
       /\ bstate' = [a \in Agents |->
            IF a \in busy
            THEN Transition(Transition(bstate[a], "failed"), "idle")
            ELSE bstate[a]]
       /\ path' = [a \in Agents |-> IF a \in busy THEN <<>> ELSE path[a]]
       /\ hist' = [a \in Agents |-> IF a \in busy THEN Empty ELSE hist[a]]
       /\ retries' = [a \in Agents |-> IF a \in busy THEN 0 ELSE retries[a]]
       /\ resume' = [a \in Agents |-> IF a \in busy THEN 0 ELSE resume[a]]
       /\ dwell' = [a \in Agents |->
                      IF a \in busy THEN NotDwelling ELSE dwell[a]]
       /\ cells' = [a \in Agents |-> IF a \in busy THEN {} ELSE cells[a]]
  /\ UNCHANGED <<turn, lifecycle, started, deferred, gridVars, pose, turned,
                 estop, yielding, hold, worldVars, drive>>

\* Runtime.pause and Runtime.resume.
SetLifecycle ==
  /\ "pause" \in Externals
  /\ pc = "ready"
  /\ lifecycle' \in {"active", "paused"} \ {lifecycle}
  /\ UNCHANGED <<pc, turn, started, queueVars, record, gridVars, task, bstate,
                 pose, turned, estop, yielding, navVars, cells, hold,
                 worldVars, drive>>

\* AgentToolApi.pause_agent and resume_agent (one agent), stop_all (all).
SetEstop(S, stopped) ==
  /\ "tools" \in Externals
  /\ pc = "ready"
  /\ estop' = [a \in Agents |-> IF a \in S THEN stopped ELSE estop[a]]
  /\ UNCHANGED <<stepVars, queueVars, record, gridVars, task, bstate, pose,
                 turned, yielding, navVars, cells, hold, worldVars, drive>>

\* An accepted submit_teleop_command moves the agent for one tick and holds off
\* autonomy.  The gate takes a command stamped at sim time 0 for stale; TELEOP
\* outranks every lock; the registry's emergency stop is not consulted.
Teleop(a, moving) ==
  /\ "operator" \in Externals
  /\ pc = "ready"
  /\ started
  /\ \E c \in Cells :
       /\ c = pose[a] \/ (moving /\ CanStep(pose[a], c, {}))
       /\ pose' = [pose EXCEPT ![a] = c]
  /\ turned' = [turned EXCEPT ![a] = 0]
  /\ drive' = [drive EXCEPT ![a] = moving]
  /\ hold' = [hold EXCEPT ![a] = TeleopHold]
  /\ UNCHANGED <<stepVars, queueVars, record, gridVars, task, bstate, estop,
                 yielding, navVars, cells, worldVars>>

\* An embedder locks the agent for SAFETY in the gate, or the lock expires.
ToggleLock(a) ==
  /\ "lock" \in Externals
  /\ pc = "ready"
  /\ locked' = [locked EXCEPT ![a] = ~@]
  /\ UNCHANGED <<stepVars, queueVars, record, gridVars, task, bstate, pose,
                 turned, estop, yielding, navVars, cells, hold, jammed, drive>>

\* The world starts or stops keeping the agent from moving.
ToggleJam(a) ==
  /\ "jam" \in Externals
  /\ pc = "ready"
  /\ jammed' = [jammed EXCEPT ![a] = ~@]
  /\ UNCHANGED <<stepVars, queueVars, record, gridVars, task, bstate, pose,
                 turned, estop, yielding, navVars, cells, hold, locked, drive>>

-----------------------------------------------------------------------------
(* The head of a step: clock, safety signals, obstacles due *)

Ticked(n) == IF n > 0 THEN n - 1 ELSE n

\* Every sample in the window becomes one tick older.
Aged(h) == [k \in 0 .. StuckWindow |-> IF k = 0 THEN NoCell ELSE h[k - 1]]

\* _poll_safety_signals: a fall latches the emergency stop; a stale command
\* stream also stops the actuator at once.
PollSafety ==
  \E fallen \in SUBSET Humanoids, stale \in SUBSET Robots :
    /\ estop' = [a \in Agents |-> estop[a] \/ a \in fallen \cup stale]
    /\ drive' = [a \in Agents |-> drive[a] /\ a \notin stale]

\* _apply_obstacle_updates, first half: the due deltas enter the grid.
ApplyDue ==
  \E due \in IF Gridded THEN SUBSET pending ELSE {{}} :
    /\ pending' = pending \ due
    /\ newly' = (UNION due) \cap Cells
    /\ blocked' = blocked \cup Dilate((UNION due) \cap Cells)

BeginStep ==
  /\ started' = TRUE
  /\ resume' = [a \in Agents |-> Ticked(resume[a])]
  /\ dwell' = [a \in Agents |-> Ticked(dwell[a])]
  /\ hold' = [a \in Agents |-> Ticked(hold[a])]
  /\ hist' = [a \in Agents |-> Aged(hist[a])]
  /\ PollSafety
  /\ ApplyDue
  /\ pc' = IF newly' # {} THEN "obstacles" ELSE AfterObstacles
  /\ UNCHANGED <<turn, lifecycle, queueVars, record, task, bstate, pose,
                 turned, yielding, path, retries, cells, worldVars>>

Step ==
  /\ pc \in {"ready", "first"}
  /\ lifecycle = "active"
  /\ BeginStep

\* step_paused
StepPaused ==
  /\ pc = "ready"
  /\ lifecycle = "paused"
  /\ BeginStep

-----------------------------------------------------------------------------
(* _apply_obstacle_updates, second half: the agents whose path is hit *)

\* Mutant: only the next waypoint is looked at.
HitNextWaypoint(a) ==
  /\ bstate[a] = "executing"
  /\ task[a] # NoTask
  /\ path[a] # <<>>
  /\ Head(path[a]) \in newly

\* _path_hits_cells, for an executing agent; _replan_agent needs a goal.
HitByObstacle(a) ==
  /\ bstate[a] = "executing"
  /\ task[a] # NoTask /\ TaskGoal[task[a]] # NoCell
  /\ path[a] # <<>>
  /\ PolylineCells(<<pose[a]>> \o path[a]) \cap newly # {}

ObstacleTurn(a) ==
  /\ pc = "obstacles"
  /\ turn = a
  /\ newly' = IF a = NAgents THEN {} ELSE newly
  /\ MoveOn(AfterObstacles)
  /\ UNCHANGED <<lifecycle, started, queueVars, blocked, pending, pose, estop,
                 yielding, hold, worldVars>>

KeepPlan(a) ==
  /\ ObstacleTurn(a)
  /\ ~HitByObstacle(a)
  /\ UNCHANGED <<record, task, bstate, turned, navVars, cells, drive>>

\* _replan_agent, with a plan.
Replan(a) ==
  /\ ObstacleTurn(a)
  /\ HitByObstacle(a)
  /\ \E route \in Routes(a) :
       /\ path' = [path EXCEPT ![a] = route]
       /\ cells' = [cells EXCEPT ![a] = ClaimedCells(a, route)]
  /\ bstate' = [bstate EXCEPT ![a] =
                  Transition(Transition(@, "planning"), "executing")]
  /\ hist' = [hist EXCEPT ![a] = Empty]
  /\ retries' = [retries EXCEPT ![a] = 0]
  /\ turned' = [turned EXCEPT ![a] = 0]
  /\ UNCHANGED <<record, task, resume, dwell, drive>>

\* Mutant: the cells of the old plan are not released.
BlockedOutHolding(a) ==
  /\ ObstacleTurn(a)
  /\ HitByObstacle(a)
  /\ Routes(a) = {}
  /\ EndTask(a, Transition(bstate[a], "planning"), "failed")
  /\ Stop(a)
  /\ UNCHANGED <<turned, cells>>

\* _replan_agent, without a plan: _fail_task(reason="blocked").
BlockedOut(a) ==
  /\ ObstacleTurn(a)
  /\ HitByObstacle(a)
  /\ Routes(a) = {}
  /\ EndTask(a, Transition(bstate[a], "planning"), "failed")
  /\ cells' = [cells EXCEPT ![a] = {}]
  /\ Stop(a)
  /\ UNCHANGED turned

-----------------------------------------------------------------------------
(* Dispatcher.tick *)

\* Mutant: the task may go to any free agent.
FreeForAny(t) == {a \in Agents : ~estop[a] /\ task[a] = NoTask}

\* The free agents the task may go to, and the nearest of them to its goal, or
\* the first of them if it has none.
FreeFor(t) == {a \in TaskEligible[t] : ~estop[a] /\ task[a] = NoTask}

Nearest(t, a) ==
  /\ a \in FreeFor(t)
  /\ \A b \in FreeFor(t) :
       IF TaskGoal[t] = NoCell THEN a <= b
       ELSE LET da == SqDist(pose[a], TaskGoal[t])
                db == SqDist(pose[b], TaskGoal[t])
            IN  da < db \/ (da = db /\ a <= b)

\* Mutant: the head is read but stays in the queue.
Peeked == queue

\* TaskQueue.pop: what is left.
Popped == Tail(queue)

DispatchUnchanged ==
  UNCHANGED <<lifecycle, started, gridVars, pose, turned, estop, yielding,
              navVars, cells, hold, worldVars, drive>>

\* The popped task goes to an agent: Runtime.assign_task.
Assign(a) ==
  /\ pc \in {"dispatch", "drain"}
  /\ queue # <<>>
  /\ LET t == Head(queue) IN
       /\ Nearest(t, a)
       /\ task' = [task EXCEPT ![a] = t]
       /\ record' = [record EXCEPT ![t] = "assigned"]
  /\ bstate' = [bstate EXCEPT ![a] = Transition(@, "assigned")]
  /\ queue' = Popped
  /\ UNCHANGED <<pc, turn, deferred>>
  /\ DispatchUnchanged

\* Mutant: a task that finds no free agent is dropped.
DeferDrops ==
  /\ pc \in {"dispatch", "drain"}
  /\ queue # <<>>
  /\ FreeFor(Head(queue)) = {}
  /\ queue' = Popped
  /\ UNCHANGED <<pc, turn, deferred, record, task, bstate>>
  /\ DispatchUnchanged

\* The popped task finds no free agent and is set aside.
Defer ==
  /\ pc \in {"dispatch", "drain"}
  /\ queue # <<>>
  /\ FreeFor(Head(queue)) = {}
  /\ deferred' = Append(deferred, Head(queue))
  /\ queue' = Popped
  /\ UNCHANGED <<pc, turn, record, task, bstate>>
  /\ DispatchUnchanged

\* Mutant: the dispatcher stops at the first task it cannot assign.
RequeueEarly ==
  /\ pc \in {"dispatch", "drain"}
  /\ queue = <<>> \/ deferred # <<>>
  /\ pc' = IF pc = "drain" THEN "resubmit" ELSE "requeue"
  /\ UNCHANGED <<turn, queueVars, record, task, bstate>>
  /\ DispatchUnchanged

\* The queue is empty: the tasks set aside are submitted again, in order.
Requeue ==
  /\ pc \in {"dispatch", "drain"}
  /\ queue = <<>>
  /\ pc' = IF pc = "drain" THEN "resubmit" ELSE "requeue"
  /\ UNCHANGED <<turn, queueVars, record, task, bstate>>
  /\ DispatchUnchanged

Resubmit ==
  /\ pc \in {"requeue", "resubmit"}
  /\ deferred # <<>>
  /\ queue' = Enqueued(queue, Head(deferred), TaskPriority)
  /\ deferred' = Tail(deferred)
  /\ UNCHANGED <<pc, turn, record, task, bstate>>
  /\ DispatchUnchanged

EndDispatch ==
  /\ pc \in {"requeue", "resubmit"}
  /\ deferred = <<>>
  /\ pc' = IF pc = "requeue" THEN "turns"
           ELSE IF lifecycle = "active" THEN "first" ELSE "ready"
  /\ UNCHANGED <<turn, queueVars, record, task, bstate>>
  /\ DispatchUnchanged

-----------------------------------------------------------------------------
(* One agent's iteration in step() *)

Turn(a) ==
  /\ pc = "turns"
  /\ turn = a
  /\ MoveOn("ready")
  /\ UNCHANGED <<lifecycle, started, queueVars, gridVars, estop, hold,
                 worldVars>>

\* Nothing but the actuator changes.
Standing(a) ==
  UNCHANGED <<record, task, bstate, pose, turned, navVars, cells>>

SkipIdle(a) ==
  /\ Turn(a)
  /\ task[a] = NoTask
  /\ Standing(a)
  /\ UNCHANGED <<yielding, drive>>

RejectStopped(a) ==
  /\ Turn(a)
  /\ task[a] # NoTask
  /\ estop[a]
  /\ Stop(a)
  /\ Standing(a)
  /\ UNCHANGED yielding

LeaveToOperator(a) ==
  /\ Turn(a)
  /\ task[a] # NoTask
  /\ ~estop[a]
  /\ hold[a] > 0
  /\ Standing(a)
  /\ UNCHANGED <<yielding, drive>>

\* A task without a goal: nothing is done, until a timeout ends it.
NoGoal(a) ==
  /\ Turn(a)
  /\ task[a] # NoTask /\ TaskGoal[task[a]] = NoCell
  /\ ~estop[a]
  /\ hold[a] = 0
  /\ Standing(a)
  /\ UNCHANGED <<yielding, drive>>

\* Mutants: the emergency stop is not read; the teleop hold is not read.
AutonomousWhenStopped(a) ==
  /\ Turn(a)
  /\ task[a] # NoTask /\ TaskGoal[task[a]] # NoCell
  /\ hold[a] = 0

AutonomousWhenHeld(a) ==
  /\ Turn(a)
  /\ task[a] # NoTask /\ TaskGoal[task[a]] # NoCell
  /\ ~estop[a]

\* The iterations that reach the right-of-way check.
Autonomous(a) ==
  /\ Turn(a)
  /\ task[a] # NoTask /\ TaskGoal[task[a]] # NoCell
  /\ ~estop[a]
  /\ hold[a] = 0

Yield(a) ==
  /\ Autonomous(a)
  /\ ShouldYield(a)
  /\ yielding' = [yielding EXCEPT ![a] = TRUE]
  /\ hist' = [hist EXCEPT ![a] = Empty]
  /\ Stop(a)
  /\ UNCHANGED <<record, task, bstate, pose, turned, path, retries, resume,
                 dwell, cells>>

\* The iterations that reach the behavior-state branches.
Going(a) ==
  /\ Autonomous(a)
  /\ ~ShouldYield(a)
  /\ yielding' = [yielding EXCEPT ![a] = FALSE]

\* A task that was just assigned is planned for; one that waits for cells is
\* planned for again.  PlanningState is the state the plan is made in.
PlanningState(a) ==
  IF bstate[a] = "assigned" THEN Transition("assigned", "planning")
  ELSE bstate[a]

NeedsPlan(a) ==
  /\ Going(a)
  /\ bstate[a] \in {"assigned", "reserving"}
  /\ UNCHANGED pose

\* _begin_execution_after_plan; only a waiting agent was stopped before it.
BeginExecution(a) ==
  /\ NeedsPlan(a)
  /\ \E route \in Routes(a) :
       /\ path' = [path EXCEPT ![a] = route]
       /\ cells' = [cells EXCEPT ![a] = ClaimedCells(a, route)]
  /\ bstate' = [bstate EXCEPT ![a] = Transition(PlanningState(a), "executing")]
  /\ record' = [record EXCEPT ![task[a]] = "executing"]
  /\ hist' = [hist EXCEPT ![a] = Empty]
  /\ retries' = [retries EXCEPT ![a] = 0]
  /\ turned' = [turned EXCEPT ![a] = 0]
  /\ IF bstate[a] = "reserving" THEN Stop(a) ELSE UNCHANGED drive
  /\ UNCHANGED <<task, resume, dwell>>

\* _enter_costmap_reserving, and the wait it leads to.
WaitForCells(a) ==
  /\ NeedsPlan(a)
  /\ Routes(a) = {}
  /\ MayWait(a)
  /\ bstate' = [bstate EXCEPT ![a] = Transition(PlanningState(a), "reserving")]
  /\ Stop(a)
  /\ UNCHANGED <<record, task, turned, navVars, cells>>

PlanFails(a) ==
  /\ NeedsPlan(a)
  /\ Routes(a) = {}
  /\ ~MayWait(a)
  /\ EndTask(a, PlanningState(a), "failed")
  /\ cells' = [cells EXCEPT ![a] = {}]
  /\ Stop(a)
  /\ UNCHANGED turned

RestStill(a) ==
  /\ Going(a)
  /\ bstate[a] = "recovering"
  /\ resume[a] > 0
  /\ Stop(a)
  /\ Standing(a)

\* The iterations that come to the waypoint: executing, or recovered just now.
\* MovingState and History are the state and the history they go on with.
MovingState(a) ==
  IF bstate[a] = "recovering" THEN Transition("recovering", "executing")
  ELSE bstate[a]

\* Mutant: the stuck window restarts with every tick.
HistoryLost(a) == Empty

History(a) == IF bstate[a] = "recovering" THEN Empty ELSE hist[a]

Remaining(a) == AfterReached(path[a], pose[a])

Moving(a) ==
  /\ Going(a)
  /\ bstate[a] \notin {"assigned", "reserving"}
  /\ bstate[a] = "recovering" => resume[a] = 0

AtGoal(a) == pose[a] = TaskGoal[task[a]]

\* Standing at the goal for dwell_sec: the first tick, then the next ones.
Dwelling(a) ==
  /\ Moving(a)
  /\ AtGoal(a)
  /\ \/ /\ TaskDwell[task[a]] > 0
        /\ dwell[a] = NotDwelling
        /\ dwell' = [dwell EXCEPT ![a] = TaskDwell[task[a]]]
     \/ /\ dwell[a] > 0
        /\ UNCHANGED dwell
  /\ path' = [path EXCEPT ![a] = Remaining(a)]
  /\ bstate' = [bstate EXCEPT ![a] = MovingState(a)]
  /\ hist' = [hist EXCEPT ![a] = History(a)]
  /\ Stop(a)
  /\ UNCHANGED <<record, task, pose, turned, retries, resume, cells>>

\* Mutant: the actuator is not stopped.
SucceedRolling(a) ==
  /\ Moving(a)
  /\ AtGoal(a)
  /\ TaskDwell[task[a]] = 0 \/ dwell[a] = 0
  /\ EndTask(a, MovingState(a), "succeeded")
  /\ cells' = [cells EXCEPT ![a] = {}]
  /\ UNCHANGED <<pose, turned, drive>>

\* The goal is reached and the dwell time over.
Succeed(a) ==
  /\ Moving(a)
  /\ AtGoal(a)
  /\ TaskDwell[task[a]] = 0 \/ dwell[a] = 0
  /\ EndTask(a, MovingState(a), "succeeded")
  /\ cells' = [cells EXCEPT ![a] = {}]
  /\ Stop(a)
  /\ UNCHANGED <<pose, turned>>

\* The gate rejects the controller's command.
RejectLocked(a) ==
  /\ Moving(a)
  /\ ~AtGoal(a)
  /\ locked[a]
  /\ path' = [path EXCEPT ![a] = Remaining(a)]
  /\ bstate' = [bstate EXCEPT ![a] = MovingState(a)]
  /\ hist' = [hist EXCEPT ![a] = History(a)]
  /\ Stop(a)
  /\ UNCHANGED <<record, task, pose, turned, retries, resume, dwell, cells>>

\* Mutant: one retry too many.
RetriesLeftLate(a) == retries[a] <= MaxRetries

RetriesLeft(a) == retries[a] < MaxRetries

Target(a) ==
  IF Remaining(a) = <<>> THEN TaskGoal[task[a]] ELSE Head(Remaining(a))

\* The adapter applies the command.  Of a controller that turns before driving
\* the model knows only how long it may go on turning, not where it heads.
TurnInPlace(a) ==
  /\ turned[a] < TurnTicks[a]
  /\ turned' = [turned EXCEPT ![a] = @ + 1]
  /\ UNCHANGED pose

Advance(a) ==
  /\ pose' = [pose EXCEPT ![a] = StepToward(@, Target(a))]
  /\ turned' = [turned EXCEPT ![a] = 0]

Apply(a) ==
  IF jammed[a] THEN UNCHANGED <<pose, turned>>
  ELSE TurnInPlace(a) \/ Advance(a)

\* _update_stuck_detection takes a sample, after the command was applied.
Sampled(a) == [History(a) EXCEPT ![0] = pose'[a]]

Stuck(h) == h[StuckWindow] # NoCell /\ h[StuckWindow] = h[0]

Driving(a) ==
  /\ Moving(a)
  /\ ~AtGoal(a)
  /\ ~locked[a]
  /\ Apply(a)

DriveOn(a) ==
  /\ Driving(a)
  /\ ~Stuck(Sampled(a))
  /\ path' = [path EXCEPT ![a] = Remaining(a)]
  /\ bstate' = [bstate EXCEPT ![a] = MovingState(a)]
  /\ hist' = [hist EXCEPT ![a] = Sampled(a)]
  /\ cells' = [cells EXCEPT ![a] = RefreshedCells(a, pose'[a], Remaining(a))]
  /\ drive' = [drive EXCEPT ![a] = TRUE]
  /\ UNCHANGED <<record, task, retries, resume, dwell>>

StartRecovery(a) ==
  /\ Driving(a)
  /\ Stuck(Sampled(a))
  /\ RetriesLeft(a)
  /\ path' = [path EXCEPT ![a] = Remaining(a)]
  /\ bstate' = [bstate EXCEPT ![a] = Transition(MovingState(a), "recovering")]
  /\ hist' = [hist EXCEPT ![a] = Sampled(a)]
  /\ retries' = [retries EXCEPT ![a] = @ + 1]
  /\ resume' = [resume EXCEPT ![a] = RecoveryWait]
  /\ cells' = [cells EXCEPT ![a] = RefreshedCells(a, pose'[a], Remaining(a))]
  /\ drive' = [drive EXCEPT ![a] = TRUE]
  /\ UNCHANGED <<record, task, dwell>>

\* No retry is left: _fail_task(reason="stuck"), after which step() still
\* refreshes the reservation, from a queue that is empty by now.
GiveUp(a) ==
  /\ Driving(a)
  /\ Stuck(Sampled(a))
  /\ ~RetriesLeft(a)
  /\ EndTask(a, MovingState(a), "failed")
  /\ cells' = [cells EXCEPT ![a] = RefreshedCells(a, pose'[a], <<>>)]
  /\ Stop(a)

-----------------------------------------------------------------------------
(* Specification *)

External ==
  \/ \E t \in Tasks : Submit(t)
  \/ StartRun
  \/ Timeout
  \/ SetLifecycle
  \/ \E a \in Agents, stopped \in BOOLEAN : SetEstop({a}, stopped)
  \/ SetEstop(Agents, TRUE)
  \/ \E a \in Agents, moving \in BOOLEAN : Teleop(a, moving)
  \/ \E a \in Agents : ToggleLock(a)
  \/ \E a \in Agents : ToggleJam(a)
  \/ StepPaused

Obstacles == \E a \in Agents : KeepPlan(a) \/ Replan(a) \/ BlockedOut(a)

Dispatch ==
  (\E a \in Agents : Assign(a)) \/ Defer \/ Requeue \/ Resubmit \/ EndDispatch

AgentTurn(a) ==
  \/ SkipIdle(a) \/ RejectStopped(a) \/ LeaveToOperator(a) \/ NoGoal(a)
  \/ Yield(a)
  \/ BeginExecution(a) \/ WaitForCells(a) \/ PlanFails(a) \/ RestStill(a)
  \/ Dwelling(a) \/ Succeed(a) \/ RejectLocked(a)
  \/ DriveOn(a) \/ StartRecovery(a) \/ GiveUp(a)

Loop == Step \/ Obstacles \/ Dispatch \/ \E a \in Agents : AgentTurn(a)

Next == External \/ Loop

Spec == Init /\ [][Next]_vars

\* run_until_idle keeps stepping; nobody outside has to call anything.
FairSpec == Spec /\ WF_vars(Loop)

-----------------------------------------------------------------------------
(* Type invariant *)

TypeOK ==
  /\ pc \in {"ready", "obstacles", "dispatch", "drain", "requeue",
             "resubmit", "first", "turns"}
  /\ turn \in Agents
  /\ lifecycle \in {"active", "paused"}
  /\ started \in BOOLEAN
  /\ queue \in Seq(Tasks)
  /\ deferred \in Seq(Tasks)
  /\ record \in [Tasks ->
       {"none", "assigned", "executing", "succeeded", "failed"}]
  /\ blocked \in SUBSET Cells
  /\ pending \in SUBSET Deltas
  /\ newly \in SUBSET Cells
  /\ task \in [Agents -> Tasks \cup {NoTask}]
  /\ bstate \in [Agents -> BehaviorStates]
  /\ pose \in [Agents -> Cells]
  /\ turned \in [Agents -> Nat]
  /\ estop \in [Agents -> BOOLEAN]
  /\ yielding \in [Agents -> BOOLEAN]
  /\ path \in [Agents -> Seq(Cells)]
  /\ cells \in [Agents -> SUBSET Cells]
  /\ hist \in [Agents -> [0 .. StuckWindow -> Cells \cup {NoCell}]]
  /\ retries \in [Agents -> 0 .. MaxRetries]
  /\ resume \in [Agents -> 0 .. RecoveryWait]
  /\ dwell \in [Agents -> Nat \cup {NotDwelling}]
  /\ hold \in [Agents -> 0 .. TeleopHold]
  /\ locked \in [Agents -> BOOLEAN]
  /\ jammed \in [Agents -> BOOLEAN]
  /\ drive \in [Agents -> BOOLEAN]

=============================================================================
