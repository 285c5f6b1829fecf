# A verification of Genesis Nav's fleet runtime

Genesis Nav moves a fleet of robots through a simulated or real world. Its
core is `genesis_nav.core.runtime.Runtime`: a fixed-step loop that gives queued
tasks to agents, plans, drives, makes agents give way to one another, recovers
stuck ones, replans around obstacles, and lets operators, AI tools and safety
signals interfere between any two steps. This directory holds TLA+ models of
that core, TLC instances that check them, and TLAPS proofs of what matters most
for every fleet, grid and configuration.

Paths below are relative to the repository, line numbers are those of the
commit the models were written from. `PROJECT.json` maps each definition to the
lines it stands for.

## 1. Inventory of the system

| Component | State it keeps | Operations | What makes it correct |
|---|---|---|---|
| **Runtime step loop** `core/runtime.py` | waypoints, pose history, retries, recovery, dwell and teleop deadlines, all in dictionaries by agent id | `step`, `step_paused`, `run_until_idle`, `submit_task`, `dispatch_pending`, `assign_task`, `_fail_task`, `_fail_remaining`, `submit_teleop_command` | a task ends exactly once; behavior state, task and record agree; nothing of a task outlives it; every task ends |
| **Task queue** `fleet/queue.py` | a heap with key (-priority, counter), lazy deletion | `submit`, `pop`, `peek`, `remove` | priority order, first come first served within one priority |
| **Dispatcher** `fleet/dispatcher.py` | a local list of tasks it could not assign | `tick` | no task lost, duplicated or overtaken; no eligible agent left free |
| **Behavior state machine** `navigation/behavior.py` | `AgentState.behavior_state` | `can_transition`, `_transition_behavior` | no transition the loop relies on is refused |
| **Costmap reservation** `fleet/costmap_reservation.py` | the cells of each agent | `blocked_for`, `set_cells`, `release` | cells disjoint; only agents under way hold any; waiting agents get through |
| **Grid planner** `navigation/grid_planner.py` | blocked cells | `plan`, `apply_blocked_delta` | routes are connected, free, cheapest |
| **Local controllers** `navigation/local_controller.py` | none | `compute`, `at_goal` | the agent comes closer |
| **Dynamic obstacles** `navigation/obstacles.py` | pending deltas | `collect_due` | affected agents replan |
| **Command gate** `core/command_gate.py`, `core/authority.py` | authority locks, stopped agents | `evaluate`, `lock_authority`, `set_emergency_stop` | a stopped or outranked agent is not driven |
| **Agent registry** `core/agent.py` | task, behavior state, pose, stop and yielding flags | registration, assignment, pose updates | |
| **AI tools** `agent/tools.py` | none | `submit_task`, `pause_agent`, `resume_agent`, `stop_all`, `get_recent_events` | the loop obeys in the same step; a client that follows the events misses none |
| **Resource leases** `fleet/reservation.py` | lease per resource; in the runtime, a list of lease ids per requester | `reserve`, `release`, `_expire` | one holder at a time; leases end on time and with the task; lists give back what is held, and nothing else |
| **Proximity, head-on** `navigation/headon.py`, `runtime.py` | active pairs | detection, lateral reroute | one count per encounter |
| **Safety signals** adapters, `_poll_safety_signals` | rising-edge flags | poll | each edge latches one stop |
| **Real-robot backend** `ros2_robot/` | per robot the last pose and the last command; queues of odometry | `apply_command`, `read_pose`, `step` (one spin), the watchdog | a robot whose commands stop is stopped; its last pose becomes known |
| **ROS bridge** `ros/bridge.py` | publishers and subscriptions by namespace | `publish_states`, `_on_cmd_vel`, `spin_once` | a hold is an operator's, and ends |
| **Nav2** `nav2/` | an action client; the last velocity heard | `compute_path`, `latest_cmd_vel`, `plan` | a path answers the request it is returned for; a call returns |
| **Benchmarks** `benchmarks/`, `cli/main.py` | results; run directories | `run_benchmark_suite`, `pick_latest_run_dir`, `append_benchmark_report`, `create_run_dir` | a result is about the run made for it |
| **Events** `observability/events.py` | the log; a ring buffer | `write`, `filter` | the tail of the log, in order |
| **Genesis backend, humanoid and holonomic adapters** | handles to a simulator | transport, kinematics | |
| **Command line, configuration, metrics** | arguments, files, counters | parsing, recording | |

How they interact: everything runs on one thread. `step` calls the adapters,
the obstacle source, the dispatcher (which calls back `assign_task`), the
planner, the reservation store, the controller and the gate. Between two steps
the `on_step` callback, ROS callbacks, operators and AI tools may call any
public method. So the interleavings that are hard to test are not those of
instructions but those of *ticks*: in which state of its task an agent is
stopped, held by an operator, made to yield or wait, jammed, replanned or timed
out, and in which order these suspensions begin and end. Outside the loop it is messages
that interleave: odometry and velocities in the queues of one thread, answers of a
path server, and the directories of runs that share a root.

The hard behaviours, listed line by line under `hazards` in `PROJECT.json`:

- six ways to suspend an agent (emergency stop, teleop hold, yielding, waiting
  for cells, dwell, recovery), each with its own deadline or condition;
- transitions that are refused silently;
- local variables of `step` that are used after a callee ended the task;
- two waiting mechanisms that know nothing of each other;
- a dispatcher that empties the queue into a local list and refills it;
- a step budget that ends tasks in any state;
- per-agent dictionaries that must be cleared when a task ends;
- two ROS nodes in one process, whose topics are named after different things;
- answers that come after the call that asked for them has given up;
- a name with a clock second in it, by which a run is looked for afterwards.

## 2. Modules

| Module | Models |
|---|---|
| `Grid` | the occupancy grid, inflation, what A* and the straight-line planner return, one tick of motion, the cells a path touches |
| `PendingTasks` | the order the queue keeps |
| `NavRuntime` | the step loop with the dispatcher, planner calls, reservation, behavior states, and every call from outside |
| `FleetTasks` | abstract: what the fleet promises of tasks - one line, an agent gets the first in line it may take, each task ends once |
| `NavProperties` | what the loop promises, and the mapping to `FleetTasks` |
| `MCNavRuntime` | values of the constants for TLC |
| `Leases` | named resource leases, their lazy expiry, and the runtime's lists of lease ids |
| `LeaseTable` | abstract: exclusive leases that end on time, by release, or with the task of their owner |
| `CommandPath` | everything that reaches the actuator of one real robot: gate, teleop, stops, watchdog, two clocks |
| `RosGraph` | topics, queues and spins of `gnav run --ros --backend ros2_robot`: poses from robots, twists from operators, and what the process hears of itself |
| `Nav2Path` | path requests to Nav2's server: three waits with a limit, goals that outlive their call |
| `EventTail` | the event log, the ring buffer, and a client that polls it |
| `Benchmarks` | a suite of runs, their directories among those of others, and its report |
| `MCCommandPath` | values of the constants for TLC |
| `TaskQueue` | the heap with counters and lazy deletion, all operations |
| `TaskLine` | abstract: a line in which tasks stand by priority and arrival |
| `AStar` | the search behind the routes of `Grid`, step by step |
| `Encounters` | pairs of agents that come close: counts, and the memory of head-on reroutes |
| `MCParts` | `Leases`, `Encounters`, `TaskQueue` and `AStar`, one part per behavior |
| `MCLinks` | `CommandPath`, `RosGraph`, `Nav2Path`, `EventTail` and `Benchmarks`, one part per behavior |
| `OperatorProofs` | lemmas about the operators of `Grid` and `PendingTasks`: plans, following a route over the grid and the cells that touches, submitting to a queue |
| `NavTaskProofs` | type correctness of the loop; the inductive invariant of tasks, records and agents, and the invariants it implies |
| `NavStepProofs` | what no step may do, that plans end at goals, and what holds where no operator drives |
| `CellProofs` | the ways of the agents over the grid: reservations, the stuck test, obstacles |
| `FleetProofs` | the dispatch order; no agent is left free; `NavRuntime` implements `FleetTasks` |
| `LinkProofs` | the links to robots, operators, Nav2, clients and suites: `CommandPath`, `RosGraph`, `Nav2Path`, `EventTail`, `Benchmarks` |
| `PartProofs` | leases, pairs that come close, and the heap behind the queue; `Leases` implements `LeaseTable`, `TaskQueue` implements `TaskLine` |
| `SearchProofs` | the search of `AStar` returns a cheapest route |

`NavRuntime`, `Leases` and `CommandPath` are separate because the code couples
them loosely: the loop never reads a lease and only gives an agent's leases back
when its task ends (`ReleaseAgentLeases`, which `Leases` lets happen at any time),
and what `CommandPath` says of one robot does not depend on the rest of the fleet.
`NavRuntime` in turn sees of the gate only whether it rejects autonomy, and of the
watchdog only that it may latch the emergency stop. `TaskQueue` and `AStar` stand
below `NavRuntime`, which uses what they promise: a sorted sequence and some
cheapest route. `Encounters` stands beside it, and assumes nothing of how agents
move. `RosGraph` stands around `CommandPath`: it has the hold of teleop but not the
velocities, for its question is who starts a hold. `Nav2Path`, `EventTail` and
`Benchmarks` share no state with the loop: a planning call is one step of
`NavRuntime`, the events and the directories are only written by it.

Operators named after `Mutant:` comments are plausible mistakes in the
definition that follows them. Each property is checked to fail when the
definition is replaced by one of them; no specification uses them.

### The state and the code

`Runtime.step` is one call, but its loops are long and later iterations see
what earlier ones did, so the model takes one action per iteration, ordered by
`pc` and `turn`:

```
ready --Step--> obstacles (agent by agent) --> dispatch (task by task)
                    --> requeue --> turns (agent by agent) --> ready
ready --StartRun--> drain --> resubmit --> first --Step--> ...
```

The second line is the dispatch that `run_until_idle` does before its first
step; at `first` only that step, or the timeout of a spent budget, can follow.
All other calls from outside happen at `ready`, where the single thread is
outside `step`. Agents are numbers in registration order; the code sorts by
agent id, for right-of-way too.

| Variable | Code |
|---|---|
| `queue`, `deferred` | `TaskQueue` in pop order; the local `deferred` of `Dispatcher.tick` |
| `record` | `metrics.tasks[t].status` |
| `task`, `bstate`, `pose`, `estop`, `yielding` | fields of `AgentState`, and the adapter's pose |
| `path` | `_waypoints` |
| `cells` | `CostmapReservationStore` |
| `hist`, `retries`, `resume` | `_pose_history`, `_recovery_retries`, `_recovery_resume_at_sec` |
| `dwell`, `hold` | `_dwell_until_sec`, `_teleop_hold_until` |
| `locked` | an authority lock above `AUTONOMY` in the gate |
| `blocked`, `pending`, `newly` | the planner's grid, deltas not yet emitted, the local `newly_blocked` |
| `drive` | whether the actuator's last order was a velocity or a stop |
| `jammed` | the world: the agent does not move when driven |
| `turned` | not in the code: the ticks the agent has turned in place since it last moved or got a plan |

`AgentTurn` has one disjunct per way an iteration of the agent loop can go, in
the order of the code's early `continue`s: `SkipIdle`, `RejectStopped`,
`LeaveToOperator`, `NoGoal`, `Yield`, planning (`BeginExecution`, `WaitForCells`,
`PlanFails`), `RestStill`, `Dwelling`, `Succeed`, `RejectLocked`, and the driving
iterations `DriveOn`, `StartRecovery`, `GiveUp`. Where the code changes state
after a helper has ended the task (the reservation refresh at
`runtime.py:900`), the action does so too.

`Leases` keeps `_leases` as `lease`, with the ticks a lease has left instead of
its expiry time, and `_leases_by_agent` as `listed`. `_expire` is called by
`reserve` only, so `Grant` and `Refuse` sweep and `Tick` does not. `Reject` is the
name the catalog lacks. `LeaseTable` has no sweeping, no ids and no lists: it
loses an owner at the tick that ends its time.

`CommandPath` follows one step through `pc`: `Poll` (clock and watchdog),
`Dispatch`, and the agent's turn with one disjunct per way it can go; callers act
between steps. `setpoint`, `commanded` and `age` are the adapter's; `tripped` is
membership in `_watchdog_tripped`; `estop` and `gateStop` are the two emergency
stops, the registry's and the gate's, which know nothing of each other. `latest` is
the velocity the Nav2 bridge caches; the local controller drives until there is one.
`work` is what the agent has to do: nothing, a new task, one it has a plan for, or one
without a goal. `BeginExecution` and `NoGoal` are the turns that leave the actuator as
they find it (`runtime.py:679-717`, `632-633`).

`TaskQueue` keeps `_heap` as a set of entries (equal keys never occur) and `_by_id`
as the counter value of an entry. `AStar` has one action per round of the search
loop. `Encounters` alternates the poll of all pairs with the turns of the agents;
`stage` and `parted` are not in the code, they remember of each pair what the
properties ask about.

`RosGraph` follows the loop of `run_command` through `stage`: `Runtime.step`, the spin
of the robot node at its end, `publish_states`, the spin of the bridge. A spin calls
at most one callback of a node, of whichever subscription. `odom` and `twists` are the
queues of subscriptions (`twists` only their lengths), which drop their oldest message.
`Transport` and `Namespace` are what the two nodes name their topics after; where they
agree, `Overheard` and `Echoed` put in these queues what the process publishes itself.

`Nav2Path` keeps of `compute_path` the wait it is in and how long it has waited; `goals`
are all goals ever sent, and the server may do with each of them what it likes, at any
time. `PlannerError` is the empty `planned`.

`EventTail` has the file and the deque as they are; `got`, `upto` and `limit` are the
client's. `Benchmarks` follows one suite through `state`, with a step for each way a run
can end; `own` remembers the directory each run really made, which the code does not.

### Abstractions

- A position is a cell; one tick of motion goes one cell toward the next
  waypoint, so a driving tick that moves at all covers `stuck_min_progress_m`. Headings,
  velocities and tolerances are left out; the goal tolerance is "the goal's cell".
- The controller of differential drives turns in place, with no linear velocity, while its
  heading error is large (`local_controller.py:61-63`), and the stuck test sees x and y
  only. The model does not follow headings: before it moves on, an agent may turn for
  any number of ticks up to `TurnTicks`. 0 stands for holonomic agents, less than
  `StuckWindow` for turns that end in time, more for turns that are taken for jams.
- A task may have no goal (`NoCell`). Its agent does nothing until the run times out
  (`NoGoal`), and so do the agents that give way to it.
- Time is counted in ticks. Deadlines are counters of ticks left, so two
  schedules that differ only in absolute time are one state. The floating-point
  edge of the stuck window is not modelled.
- A* returns *some* cheapest route: the choice among equals is left open, which
  covers every tie-breaking rule. Costs compare 1 with 99/70 for the square root
  of two, exact enough on grids of fewer than a hundred cells. For speed, `Walks`
  enumerates walks without shortcuts only; a cheapest route has none, since a
  shortcut is always cheaper.
- Obstacle deltas become due at any tick, alone or together, in any order.
- Safety signals (a fall, a stale command stream) may arrive at every step from
  the agents whose adapter has them.
- A task id is submitted once. Events, metrics other than the task records, and
  diagnostics only record, and are left out. Head-on reroute and proximity
  counts, both off by default, are in `Encounters` and not in the loop.
- `heapq` is external: the least entry is in front. In `AStar` the order among equal
  scores is left open, since sums of floats decide it before the counter does.
- In `Encounters` a tick moves an agent by at most one cell in any direction,
  whatever drives it, and a goal may be reached or given up anywhere. The angles of
  `is_headon_conflict` are tested with products of integers. Which agents are
  executing is open too (`Ignore`), so the memory of reroutes is checked under more
  orders than the loop has.
- What Nav2 sends is a velocity, zero, or no number (`Twists`).
- In `RosGraph` a pose is the number of the sample that reported it, so "the last" means
  something; a twist is only counted. Whether the gate takes it is open (`Verdicts`).
  Messages arrive in order and at once, as within a host, but wait in queues.
- In `Nav2Path` a path is a sequence of places. Headings and tolerances are left out.
- In `EventTail` a client continues from the time of the last event it got, which is what
  `since_ts` is for; simulated time has few values, so many events share one.
- In `Benchmarks` a directory is its second, scenario and number; that a name ends like
  another is a relation (`EndsWith`). Expectations and metrics are left out: `Score` only
  says whose run is scored. The test and the `mkdir` of `create_run_dir`
  (`cli/main.py:583-591`) are one step (`Create`); two processes between them would be runs
  of the same second, which `OwnRunScored` excepts.
- Lease ids are drawn in order, where the code draws UUIDs: both never repeat.
  `MaxIds` bounds how many are drawn in a behavior.
- In `CommandPath` a velocity is who sent it or zero, so clamping changes nothing.
  A command is stamped when it is evaluated, as in every caller of the gate in the
  runtime, so it is stale only at time 0. `BeginExecution`, `Rest` and `Drive` leave open
  when an agent sets out, waits, drives or ends its task: that is `NavRuntime`'s question.
- `CommandPath` has two clocks. Simulated time moves with each poll; wall time
  moves at any moment, at most `Stall` ticks between two polls. A paused runtime,
  which returns from `step` before polling, and a slow one are both a large
  `Stall`.

## 3. Runs

TLC explores every instance completely. The only bounds are `MaxIds`, 4 leases
drawn, `MaxCounter`, 4 tasks submitted to the queue alone, `Stall`, explained below, and
those of the parts of `robot`: `MaxTwists` and `MaxSamples`, 2 velocities of operators
and 3 samples of each robot, `MaxCalls` and `MaxPoses`, 2 planning calls and paths of at
most 2 poses, `MaxEvents`, 4 events, `MaxRuns`, 4 runs, and `MaxTime`, 2 ticks or 1
second. All other counters are limited by the configuration.

| Run | Instance | Question |
|---|---|---|
| `crossing` | 2 agents swapping ends of a 3 x 2 grid, right-of-way on, 3 tasks of which one dwells, turns of a tick, jams at any time | Is no task shared, does every plan lead to its goal, is an agent without a task stopped, does every task end, is a jammed agent given up on? |
| `solo` | 1 agent that may turn until it is taken for stuck, 2 tasks, a row of 3 cells, an obstacle that closes it, all of: timeout, pause, tools, teleop, lock, jam, command watchdog | In whatever state an agent is suspended: do behavior state, task and record agree; is nothing left of an ended task; is a stopped agent still and a held one left alone? |
| `dispatch` | 2 agents, 3 tasks of 2 priorities, one bound to an agent, one with a dwell, one without a goal; stops and timeouts | Is no task lost, duplicated, overtaken or left while an agent is free; are outcomes final; does only an agent at its goal dwell? Does the loop implement `FleetTasks`? |
| `corridor` | 2 agents on a 4 x 2 grid that an obstacle narrows to a passage one cell wide, reservation on, 3 tasks, 2 obstacle deltas, one agent that turns for a tick | Are cells disjoint, held only under way, paths clear of obstacles, waiting agents let through? |
| `robot` | five parts. Commands: 1 real robot under Nav2 or the local controller, timeout 2, a poll in every tick of wall time, holds of 0 and 2 ticks, locks of 1 and 2. Topics: 2 robots with namespaces of their own, queues of 2. Paths: 2 requests, 3 places, waits of 1 tick. Events: 3 labels, 3 filters, a buffer of 2, limits 0 to 2. Suites: 2 scenarios of which one name ends in the other, or one of them twice | Is a stale stream stopped, a hold kept, a barred or stopped robot not driven, one with a bad velocity at rest? Does autonomy resume when operators fall silent, is the last pose known in the end? Does a path answer its request, and a call return? Does a client miss only what it must? Is the run that is scored the one that was made? |
| `echo` | the same topics, 1 robot, the default namespace | finding 6 |
| `parts` | four parts. Leases: 2 agents and a guest, 2 resources and a name outside the catalog, leases of 1 and 3 ticks, 4 ids. The queue: 3 tasks of 2 priorities, 4 submissions. The search: from a corner to each cell of the far side of a 4 x 3 grid with every set of walls. Pairs: 2 agents anywhere on that grid, radii 0, 1 and 2 cells | Do the lists match the table, whatever was renewed, released by others, or expired unnoticed, and do leases implement `LeaseTable`? Is the heap a line, with nothing removed served and nothing resubmitted lost? Is the route cheapest, and none only if there is none? Is an approach counted as a near miss once, and answered by one reroute? |
| `ghost_cells` | 2 agents, reservation on, jams | finding 1 |
| `mutual_wait` | 2 agents on one row, reservation and right-of-way on | finding 2 |
| `inflated` | 1 agent, an obstacle beside its route, inflation 1 | finding 3 |
| `estop_teleop` | 1 agent, tools and an operator | finding 4 |
| `missed_edge` | 1 real robot, timeout 1, polls up to 2 ticks apart | finding 5 |

Why these bounds are enough to be interesting: two agents suffice for every
pairwise mechanism (yielding, reservation, assignment), and the third task makes
the dispatcher set tasks aside and agents take a second task in the state the
first one left. Three cells in a row give a start, a middle and a goal, so an
agent can be suspended before, during and at the end of its way. Stuck window,
recovery wait and hold are 1 or 2 ticks, so that they end at different times;
one retry separates "retry" from "give up". Turns of 1 tick end within a stuck window of
2, turns of 2 (`solo`) do not, so an agent there recovers, and is given up on, without a
jam. `crossing` and `corridor` let every
suspension that ends by itself happen; what an operator may do without limit is
in `solo` and `dispatch`, where no liveness is claimed; nor is it for tasks without a
goal, which only a timeout ends. The proofs cover larger
instances for the safety properties.

Four ids are what a renewal, a takeover after expiry, and the end of a task with a
stale id on the list take together, with one to spare. In `robot`, `Stall` is
smaller than `Timeout`: a runtime that polls slower than that is finding 5, and
the proof of `StaleIsStopped` needs only `Stall <= Timeout`. A hold of 2 ticks is as
long as the timeout, the longest for which `HoldRetained` is true.

In `parts`, three tasks and a fourth submission let a task be removed and come back
while entries of a higher and of the same priority surround its old one. A 4 x 3 grid
has detours that are dearer than they look, and cells that are reached twice, the
second time more cheaply. The parts of a run share no state, so a behavior runs one of
them.

In the parts of `robot` the bounds leave room for what is asked about. Three samples for
a queue of two: one is dropped. Two calls with different requests: the first may leave a
goal with the server that is answered during the second, and a wait of one tick ends
before or after an answer of the same tick. Four events for a buffer of two, and limits
below and at its size: events leave it, and are cut off, before a client has polled. Four
runs in two seconds for suites of two: others may begin before, between and after the
suite's own, in the same second or a later one.

Deadlock is checked wherever the next-state relation must always have a step; a
finished search, a queue with `MaxCounter` spent, and the parts of `robot` at their bounds
have none.

**Fairness.** `FairSpec` assumes weak fairness of `Loop`, the steps of the loop itself:
`run_until_idle` is a `while` loop that calls `step` until nothing is left to do, so while
there is work it takes the next iteration. `LinksSpec` assumes the same of the loop in
`RosGraph`, for as long as one asks what becomes of a run that goes on, and of
`Returning`, the client inside a planning call: its waits are counted by a clock that
runs. Calls from outside are never assumed to happen, and nothing is assumed of
operators, of robots that report, of the path server, of A*'s choice, of obstacles, or of
jams ending.

## 4. Findings

Each has a run whose single property TLC finds violated by the model, and each
was traced back to the lines quoted in `PROJECT.json`.

1. **Ghost cells** (`runtime.py:900`). When recovery is out of retries,
   `_update_stuck_detection` fails the task and releases its cells, after which
   `step` refreshes the reservation from the goal it read before. The idle agent
   then holds the straight line from its pose to the old goal for ever, and
   others wait for it or route around it.
2. **Mutual wait** (`runtime.py:1468`). Right-of-way is free of deadlock, and so
   is reservation; together they are not. The agent with priority waits in
   RESERVING for cells held by the other, which yields because the first one has
   a task. Both wait until the budget is spent.
3. **Inflated obstacles** (`runtime.py:1634`). The grid blocks the obstacle with
   its inflation, but affected paths are looked up with the bare obstacle, so an
   agent whose route crosses only the inflation is not replanned.
4. **Teleop past the emergency stop** (`runtime.py:529`). Tools, falls and the
   watchdog set the stop in the registry; teleop consults only the gate, whose own
   set nothing in the runtime writes. A stopped agent can be driven.

5. **Missed edge** (`runtime.py:1586`). The watchdog acts on the rising edge, and
   forgets the edge only at a poll that sees a fresh command. An operator who
   drives again after a trip and falls silent before the next poll leaves the
   robot rolling, and no later poll stops it; the runtime must be paused or slower
   than the command timeout for this.

6. **Echo** (`ros/bridge.py:196`). With `--ros` and the real-robot backend, the bridge
   subscribes to `<namespace>/cmd_vel` and the transport publishes on `/<agent>/cmd_vel`.
   A namespace is `/<agent>` unless the scenario says otherwise, so the process hears its
   own velocities as those of an operator. One that the gate accepts starts a hold and is
   published again: from the first command on, each tick of the loop renews the hold, and
   autonomy never drives again. With namespaces of their own (`robot`) it does resume.

Smaller divergences seen on the way, without a run of their own: `stop_all`
(`docs/ai_agents.md:26` "Stops every agent") sets flags that the loop acts on
only for agents with a task; the `yielding` flag of an agent that times out or
loses its task to an obstacle stays set until its next task; the failure of a
replan stops the actuator during a teleop hold, where `docs/interfaces.md:270`
says the agent retains the operator's command (`HoldKeepsCommand` excepts the
obstacle loop for this reason); a hold longer than `command_timeout_sec` ends in a
latched emergency stop, where the same page says "autonomy resumes when it
expires"; an agent of a real robot that is given no command for the timeout
because it dwells, yields or has no task trips the watchdog too; a run that times
out leaves the actuator at its last velocity, and that velocity outlives the turn in
which the agent's next task is planned for (`runtime.py:679-717`), even if the gate is
stopped or locked by then or Nav2 sends no numbers, and the whole life of a task without a
goal (`BarredIsStill` and `BadTwistStops` except these turns); `get_world_state` counts as active
leases every id on the lists, those expired or released included
(`agent/tools.py:130`); a renewal with a shorter duration shortens the lease.
Reroutes are said to be "re-armed on separation" (`docs/decisions.md:748`), but only
the lower-priority agent re-arms, at a turn in which it executes while the other
has a task (`runtime.py:1513-1525`): two agents that part between tasks are not
rerouted when they meet again. A robot that turns in place is taken for jammed when it
needs longer than `stuck_window_sec`: with the defaults (1.5 s, 1.2 rad/s, gain 2) a turn
by a right angle takes 1.7 s and one by half a circle 3 s, so such robots enter
recovery with nothing in their way. The retries are those of a plan, not of a
jam: they are never reset while the plan lasts, and a long route with several such turns
may fail as stuck. A stop, a lock or a hold ages the window and does not restart it, as
yielding does (`docs/decisions.md:672`), so a shorter turn may be taken for stuck after
one. `nav2/controller.py:42-44` says that Nav2's velocity is
`None` when there is "no active path"; the bridge returns the last one it heard, of
whatever task and age, and each tick stamps it as fresh.

At the links to other processes: a spin calls one callback for all robots together, where
`ros2_robot/backend.py:107` says "Drain pending odom callbacks", so poses come late when
robots report faster than the loop turns; the first plan of a real robot starts at the
origin, since the backend is spun for the first time after it; one velocity of an operator
is taken per tick, and stamped then, so a burst that has waited in the queue counts as
fresh. When topics are shared, what Nav2 or an operator publishes reaches the robot past
the gate, and the bridge's odometry reaches the transport as if the robot had sent it.
`nav2/planner.py:76` says "Pin the exact start and goal poses", but a path that is one pose
at the start gives the goal alone; goals that are given up on are never cancelled; a
planning call may keep the step loop for three times `timeout_sec`, with the robots at
their last velocity and the watchdog not polled.

`docs/benchmarks.md:136-139` speaks of the run of the scenario; `pick_latest_run_dir` may
find another one: of the same second (directories that got a number are never found),
of a scenario whose name ends alike, or of somebody who began later. `OwnRunScored`
excepts exactly these. A suite with an expectation that cannot be read, or with a run
that raises, returns without a report of the runs that ended before.

Not seen by any model, but met on the way: `submit_task` of the AI tools notes the
requester and the trace of a task before the queue refuses its id (`agent/tools.py:215`),
and `get_task_status` answers for a resubmitted id with the record of its first life
(`agent/tools.py:152`); the nanoseconds of `publish_clock` may round up to a whole second
(`ros/bridge.py:220`); `run_until_idle` spins without end when the runtime is paused and
nobody resumes it (`runtime.py:924`); the edge of the stuck window is a comparison of
sums of floats, so detection may come a step late (`runtime.py:1224`); the dispatcher
chooses the nearest agent by poses that are refreshed only while an agent has a task
(`fleet/dispatcher.py:79`); an agent that is stopped keeps its cells, and one that an
operator drives leaves them behind (`runtime.py:617`, `529`); an agent that dwells keeps
its deadline when an operator drives it away (`runtime.py:792`), and one in recovery is
passed over when obstacles appear, and resumes along the path it had (`runtime.py:1645`).

## 5. What is proved

Assumptions: the types of the constants (`GridAssumption`, `FleetAssumption`,
`ConfigAssumption`, `LeaseAssumption`, `NoLeaseAssumption`, `QueueAssumption`,
`PathAssumption`, `RosAssumption`, `TailAssumption`; in `PartProofs` and `LinkProofs`, that robots are
integers, `MaxPoses` is a number and suites are sequences of scenarios), and of the
search what `_astar` is called with (`SearchAssumption`: a grid, and a start and a goal
that are not blocked, which `plan` tests before it searches). Nothing is assumed of the
number of agents, the tasks, priorities, eligibility, walls, obstacles, deadlines, or
which calls from outside are made. All theorems are about the specifications without
fairness (`Spec`, `PairsSpec`, `QueueSpec`, `SearchSpec`, `RosSpec`, `TailSpec`,
`BenchSpec`).

Some theorems have a hypothesis beyond these; each is there because the property is
false without it, and stands in the theorem's statement:

| Hypothesis | Theorems | Without it |
|---|---|---|
| no operator drives | `IdleStoppedHolds`, `DwellsAtGoalHolds`, `UnderWayStayDisjoint`, `ReservationsKeepApart`, `CellsStayDisjoint`, `WaysStayClear` and those below them | teleop moves an agent off its way, and leaves its cells behind |
| no run times out | `IdleStoppedHolds` | a timeout leaves the actuator at its last velocity |
| nobody gives up (`[][NobodyGivesUp]_vars`) | `HoldersFollowPlans`, `CellsStayDisjoint` | finding 1 |
| nobody recovers, no inflation, a grid | `WaysStayClear` | an agent resumes along a path that was not replanned while it recovered; finding 3; straight lines ignore obstacles |
| the world jams nobody, no operator drives | `UndisturbedNeverStuck`, `UndisturbedCells`, `UndisturbedPathsClear` | recovery is for jams; what else triggers it is the question of these theorems |
| nobody ever turns in place (holonomic agents), or all turns are shorter than the stuck window and there are no stops, locks and watchdogs (`QuickTurns`) | the same | an agent that turns for longer is taken for stuck, and so may one be whose turn is interrupted |
| polls are at most a timeout apart (`Stall <= Timeout`) | `StaleIsStopped` | finding 5 |
| no hold outlasts the watchdog (`HoldsAreShort`) | `HoldsAreRetained` | the watchdog ends the hold in an emergency stop |
| bridge and transports have topics of their own (`SeparateTopics`) | `LastReportIsKept`, `ReportsAreHeardInOrder`, `HoldsAreOperators` | finding 6, and the bridge's odometry is taken for the robot's |

| Theorem | For every instance |
|---|---|
| `TypeCorrect`, `CommandTypeCorrect` | the type invariants of `NavRuntime` and `CommandPath` |
| `TasksConsistent` | `[]TaskInv`, the inductive invariant |
| `BusyIffTaskedHolds`, `RecordsAgreeHolds`, `OneAgentPerTaskHolds`, `WaitsOnceHolds`, `CleanWhenIdleHolds` | the invariants of the same names |
| `PlansLeadToGoals` | `[]PlanEndsAtGoal` |
| `IdleStoppedHolds`, `DwellsAtGoalHolds` | where no operator drives, an idle agent has been told to stop (no run timing out), and one that dwells is at its goal |
| `PriorityFirstHolds`, `OrderIsKept` | the dispatch order |
| `OutcomesAreFinal`, `NoTaskIsLost` | no outcome overwritten, no task lost |
| `StoppedAgentsStayPut`, `HeldAgentsKeepCommand` | stops and holds are obeyed by the loop |
| `NoAgentLeftFreeHolds` | no task is left waiting while an agent it may take is free |
| `RuntimeImplementsFleet` | `Spec => Fleet!Spec` under the mapping of `NavProperties` |
| `HoldersFollowPlans`, `CellsStayDisjoint` | as long as nobody gives up, only agents on a task hold cells, and no cell is held twice |
| `UnderWayStayDisjoint`, `ReservationsKeepApart` | no cell is held by two agents under way, and no two agents on their way are in one cell, also after others gave up |
| `UndisturbedNeverStuck` | an agent that nothing jams, nobody drives, and that turns quickly or not at all, is never taken for stuck |
| `UndisturbedCells` | so in such a fleet cells are held on a task and disjoint, with no further assumption |
| `WaysStayClear`, `UndisturbedPathsClear` | nobody is headed through a known obstacle |
| `SearchFindsCheapest` | A* returns a route that no other undercuts, or none only if there is none, with steps that cost 70 and diagonals that cost 99 |
| `ParentsAreRoutes` | the parents of a reached cell lead back to the start, at the cost on record |
| `QueueImplementsLine` | `QueueSpec => Line!Spec`: the heap with counters and marks is one line |
| `ListsCover` | each lease is on the list of its holder and on no other |
| `LeasesImplementTable` | `Spec => Table!Spec` under the mapping of `Leases` |
| `StaleIsStopped` | a poll that finds the stream stale leaves the robot stopped, if `Stall <= Timeout` |
| `HoldsAreRetained` | the loop neither ends a hold in an emergency stop nor changes the setpoint meanwhile, unless a replan fails |
| `BadTwistIsStopped` | a velocity of Nav2 that is no number leaves the robot at rest, but for the turns that plan for a task or have no goal |
| `BarredAgentsAreStill`, `GateStopIsFinal` | a barred robot has no velocity of autonomy left after its turn, with the same exception; one that the gate stops is set in motion by nobody |
| `AnswersMatchHolds` | a planning call never returns the path of another request |
| `NearMissCountedOnce`, `HeadonReroutedOnce` | a poll counts as near misses exactly the pairs that came near since the last one saw them apart; an approach is answered once with a reroute |
| `OwnRunIsScored` | a result of a suite is about its own run, unless a run of a like name began in the same second or since |
| `FollowersSeeAll` | a client of the ring buffer misses only what had left it or was cut off by its limit |
| `LastReportIsKept`, `ReportsAreHeardInOrder` | a robot's last report is known or the last in its queue; what is known of it never goes back |
| `HoldsAreOperators` | a hold begins only with a twist that waited, and only operators make more of them wait |
| `EnqueuedSorted` | a sorted queue stays sorted under `submit` |

**The argument.** `BusyIffTasked`, `RecordsAgree`, `OneAgentPerTask` and
`WaitsOnce` are not inductive one by one. That an assigned task is not executed
by another agent needs that a queued task has no record, and that a task an agent
has is on record; that a queued task keeps having no record needs that only
tasks of agents change theirs. `WaitsOnce` speaks of the concatenation of two
queues, so the invariant says it of each half (`QueuesOnce`): no records, no
duplicates, nothing in common, and an empty local list outside the dispatcher.
The proof then does not go action by action through every property. Each of the
some thirty actions is shown to do one of five things to tasks and agents
(`Keeps`, `Begins`, `Ends`, `Gets`, or a timeout), using that each transition it
asks for is allowed; each of the five is shown once to preserve agreement.

For the order, each step is shown to leave the sequence `Waiting` as it is, take
one task out, put one in its place, or empty it. Defer, requeue and resubmit fall
under the first case: resubmitting the head of the list that was set aside puts
it at the end of the queue because the whole sequence is sorted. This is why
fresh counters do not cost a task its place.

For `NoAgentLeftFree`, the invariant `SetAside` says of the dispatcher's own
list what the dispatcher never checks again: no agent is free for a task in it.
It is kept because during a dispatch agents only ever lose their freedom.

The refinement maps `line` to `Waiting`, `phase` to `record` and `holder` to
`task`. Its hard step is the assignment: the head of `queue` is the element
`Len(deferred) + 1` of the line, and `FleetTasks` gives it only to an agent that
may take nothing before it - which is `SetAside` for the tasks the dispatcher
set aside. So the list the dispatcher keeps to itself is invisible from outside.

For the leases, the invariant adds to `ListsCoverLeases` that an id on a list or in
the table was drawn before, so a fresh id is on no list, and that no two resources
share one, so a release by id frees one resource. In the refinement a lease that
has run out counts as absent; then `_expire` is a stutter, `MayTake` says "no owner
or the same one", and giving back a list of ids is the end of a task, because the
ids that are still stored are exactly the owner's leases.

For `StaleIsStopped`, an inductive invariant says that while the agent is marked
as tripped and its robot moves, its last command is no older than the last poll.
Since polls are at most a timeout apart, a robot that is marked and whose stream
has expired is already at rest. Finding 5 is this argument without its premise.

For `AnswersMatch`, the invariant says that while a call's answer is at hand its own goal,
the last that was sent, is done, and a goal that is done is never touched again; so
whatever becomes of the goals before it, the answer and the path it was made from stay
together. It needs that `MaxPoses` is a number, and nothing of the server.

For `ReroutedOnce`, the invariant says of a pair that it has been apart since its last
reroute if the runtime does not remember one, and also if it is farther apart than the
radius now: the memory of a pair is dropped only at such a distance. Whether an agent
executes plays no part, so the memory may be dropped late but never early.

For `OwnRunScored`, the invariants say that the suite's runs have directories of their
own, that a directory with a number has a namesake of the same second, and that each
result so far is right or has a rival. A run without a rival has therefore no number, is
among the names that are found, and every other of them began in an earlier second, so it
is the last in their order. A rival never goes away, and the reports of a directory are
the results that name it: one, if no run has a rival.

For the cells, each action is shown to do one of four things to the journey of each
agent: it departs on a new plan, drives on along the one it has, quits, or its way stays
as it is (`Departs`, `Drives`, `Quits`, `Stays`). `CellsDisjoint` is not inductive, and
is false once an agent has given up. What is kept through everything but teleop is
`UnderWayDisjoint`, together with two facts: an agent under way holds exactly the cells of
its way, and what is left of a way crosses no cell the whole did not (`IsTrack`). A plan
that avoids the cells of others, ghosts included, keeps clear of them to its end; driving
on only gives cells back; a ghost is of an agent that is no longer under way. With
`HoldersFollowPlans` this gives `CellsDisjoint` as long as nobody gives up. And since the
way of an agent short of its goal begins in the cell the agent is in, two such agents are
never in one cell. The goal itself is not protected: an agent that dwells holds no cell
(`runtime.py:1181`), nor does one without a task, so others may be routed through it. The
geometry is in `OperatorProofs`: a step of a route goes to a neighbour, and the samples
of the straight line between neighbours round to cells of the step.

That an undisturbed agent is never stuck is a matter of what is in the window of
samples. On the grid, `Fresh` says that no sample is a cell still ahead of the agent, so
one that moves on comes to a cell without a sample, and its oldest sample is not where it
is. On the straight line the distance to the goal takes the place of the way
(`Straight`). An agent that turns stays where its samples are, and for it the invariant
counts: the samples of the cell it is in are no older than its turn, plus one tick
between the clock and its iteration (`Recent`, `Due`). Each iteration of an agent under way
either turns on, which lengthens the turn with the age, or moves on, or empties the
window - unless a stop, a lock or a hold makes it wait, where the age grows alone: this is
why `QuickTurns` excludes them for agents that turn. Within these limits recovery is
caused by nothing but jams and operators, which frees the theorems above of their
hypotheses.

For `NearMissCountedOnce`, `NearRemembered` says that the pairs the code does
not remember (`near`) are those that the last poll saw apart (`stage`); so a poll counts a
pair only when it came near since, and the next poll does not count it again.

For `BarredIsStill`, the invariant `Moves` says that a robot in motion was set in motion
by someone, and that during a hold nothing of autonomy is left in the actuator; every turn
stops the robot, asks the gate, or is one of the two in the statement. `BadTwistStops`
follows from the turns alone.

For `PathsClear`, the invariant says of every agent that its way is clear of the known
obstacles, except of those the obstacle loop has in hand and has not shown it yet
(`Unseen`). What is left of a way meets no cell that the whole of it does not, so an
obstacle in front of an agent was found when it became known.

For the search, the invariant says that a scored cell is either relaxed (no neighbour can
be reached more cheaply over it) or waits in the heap with its score. On any way to
the goal the first cell that waits promises, with a heuristic that never falls by more
than a step costs, no more than the whole way; so when the goal comes off the heap no way
is cheaper, and when the heap is empty there is none. Each parent has a lower score than
its child, which is why following parents ends, and at the start. `Walks`, by which `Plans`
enumerates its candidates, leaves out walks with shortcuts; that a cheapest way has none,
and that `Walks` reaches every way without one, are proved too. The library's induction
theorems take an operator as a parameter and cannot be used, so these proofs rest on the
least counterexample: a set of naturals that holds 0 and each successor is all of them
(`EveryNatural`), and a recursive function over the naturals exists and is unique
(`NatRecursion`), built from its finite approximations.

For the queue, the invariant ties three views of a task together: a live entry's key is
its priority and a counter that was drawn, counters are unique, the index names the live
entry and nothing else, and the live entries can be put in order. `OneOrder` says that
there is one order only - the place of an entry is the number of those before it - so the
line after a step is known once any order of the live entries is: a new entry goes
behind the ones of its priority because its counter is the highest, pop and remove close
the line up, and what peek drops was not in it.

For `HoldRetained`, the invariant `HoldIsFresh` says that the command that began a hold has
not gone stale, and will not if each poll that is left of the hold comes as late as
it may. For `NewAreSeen`, the buffer is the end of the log, times never fall along it, and
what was logged since the last poll is not older than the time the next one asks from.
For `RosGraph` it says that the reports in a queue rise from the one heard to the last
one made (`Orderly`); a full queue drops its oldest, which keeps the rest in order because
it has room for at least one.

**Only model-checked:** liveness (`TasksEnd`, `JammedGivesUp`,
`CellsAreGranted`, `AutonomyResumes`, `PosesCatchUp`, `PlanReturns`), which needs
fairness and is out of the prover's reach. Every other property of the passing runs has a
theorem; the safety half of `PosesCatchUp` is `LastReportIsKept`, that of
`AutonomyResumes` is `HoldsAreOperators`. Recursive operators (`RECURSIVE`) are used
nowhere, so nothing is kept from the provers by them.

## 6. Not modelled, and why

- **Lateral detours**: the waypoints of a head-on reroute and the cells claimed for
  them, which would couple `Encounters` with `NavRuntime`. `_simplify` drops
  collinear waypoints and changes no cell of a route.
- **Replay export, bags, TF, markers, path and goal topics**: the bridge publishes them,
  and nothing in the program hears them. Foreign stacks are environments of `RosGraph` and
  `Nav2Path`.
- **Metrics, diagnostics, expectations**: derived from states that are modelled, or
  arithmetic over numbers in a file.
- **Genesis backend, kinematics**: continuous physics, outside TLC's reach.
- **Argument, configuration and scenario parsing, report layout**: sequential I/O whose
  properties are not about states. Of the command line the run loop and the run
  directories are modelled.

## 7. Plan

1. *Done*: `Grid`, `PendingTasks`, `NavRuntime`, its properties, runs and proofs.
2. *Done*: `FleetTasks`, the abstract life cycle of a task, and that `NavRuntime`
   implements it, in TLC and by proof.
3. *Done*: `Leases` and its abstraction `LeaseTable`, with the refinement proved.
4. *Done*: `CommandPath`: the gate, teleop, and the watchdog of a real robot.
5. *Done*: `TaskQueue` and its abstraction `TaskLine`; `AStar` against the routes of
   `Grid`; `Encounters`.
6. *Done*: `RosGraph`, `EventTail`, `Nav2Path` and `Benchmarks`, and their proofs.
7. Lateral detours with the grid and the reservations, and replanning for agents in
   recovery.
8. *Done*: proofs for all safety properties that the passing runs check: reservations,
   clear paths and the stuck test in `CellProofs`, holds and event clients in
   `LinkProofs`, the search in `SearchProofs`, the queue's refinement in `PartProofs`.
9. *Done*: the safety halves of the liveness of `RosGraph`; what reservations guarantee
   after an agent gave up.
10. Proofs for the detours, once they are modelled.
