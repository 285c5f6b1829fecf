---------------------------- MODULE NavProperties ----------------------------
(***************************************************************************)
(* What the runtime loop of NavRuntime promises.                           *)
(***************************************************************************)
EXTENDS NavRuntime

-----------------------------------------------------------------------------
(* Tasks and the agents that have them *)

\* No transition the loop relies on is ever refused: between two iterations an
\* agent is in a state to rest in, and is idle exactly when it has no task.
\* _transition_behavior drops a forbidden transition silently, so one missing
\* edge would leave an agent idle with a task, or busy without one.
BusyIffTasked ==
  \A a \in Agents :
    /\ bstate[a] \in {"idle", "assigned", "reserving"} \cup OnTask
    /\ task[a] = NoTask <=> bstate[a] = "idle"

\* metrics.tasks and the agents agree: a task is on record as assigned or
\* executing exactly while one agent has it and is that far with it.
RecordsAgree ==
  /\ \A a \in Agents : task[a] # NoTask =>
       record[task[a]] =
         IF bstate[a] \in OnTask THEN "executing" ELSE "assigned"
  /\ \A t \in Tasks : record[t] \in {"assigned", "executing"} =>
       \E a \in Agents : task[a] = t

\* No task is executed by two agents.
OneAgentPerTask ==
  \A a, b \in Agents : task[a] = task[b] /\ task[a] # NoTask => a = b

\* The tasks waiting for an agent, in the order they will be tried next: those
\* set aside come before those not tried yet, and after those submitted again.
Waiting ==
  IF pc \in {"requeue", "resubmit"} THEN queue \o deferred
  ELSE deferred \o queue

\* A task waits at most once, and not once it has a record: the loop over the
\* popped tasks neither duplicates nor keeps one it assigned.
WaitsOnce ==
  /\ \A i \in 1 .. Len(Waiting) : record[Waiting[i]] = "none"
  /\ \A i, j \in 1 .. Len(Waiting) : Waiting[i] = Waiting[j] => i = j

\* Nothing of a finished task is left for the agent's next one: no waypoints,
\* samples, retries, recovery deadline or dwell deadline.
CleanWhenIdle ==
  \A a \in Agents : task[a] = NoTask =>
    /\ path[a] = <<>>
    /\ hist[a] = Empty
    /\ retries[a] = 0
    /\ resume[a] = 0
    /\ dwell[a] = NotDwelling

\* An agent on a task has a plan, and the plan ends at the task's goal.
PlanEndsAtGoal ==
  \A a \in Agents : bstate[a] \in OnTask =>
    /\ path[a] # <<>>
    /\ path[a][Len(path[a])] = TaskGoal[task[a]]

\* Outcomes are final: no later handler overwrites a task's success or failure.
OutcomesFinal ==
  [][\A t \in Tasks :
       record[t] \in {"succeeded", "failed"} => record'[t] = record[t]]_vars

Known(t) == record[t] # "none" \/ \E i \in 1 .. Len(Waiting) : Waiting[i] = t

\* A submitted task is never lost: it waits or is on record from then on, also
\* while the dispatcher holds it in its local list.
TasksNeverLost == [][\A t \in Tasks : Known(t) => Known(t)']_vars

-----------------------------------------------------------------------------
(* Dispatch order *)

Before(t, u) ==
  \E i, j \in 1 .. Len(Waiting) : i < j /\ Waiting[i] = t /\ Waiting[j] = u

\* Of two waiting tasks the one with the higher priority is tried first.
PriorityFirst ==
  \A t, u \in Tasks : Before(t, u) => TaskPriority[t] >= TaskPriority[u]

\* Being set aside and submitted again, with a fresh counter, does not cost a
\* task its place: tasks of one priority stay in submission order.
OrderKept ==
  [][\A t, u \in Tasks : Before(t, u) => ~Before(u, t)']_vars

\* When the dispatcher is done, no waiting task could have been given to an
\* agent: a task set aside early is not missed by one freed or skipped later.
NoAgentLeftFree ==
  pc = "turns" /\ turn = 1 =>
    \A i \in 1 .. Len(queue) : FreeFor(queue[i]) = {}

\* The runtime implements the abstract life of tasks: whatever the dispatcher
\* pops, sets aside and submits again, an agent gets the first task in line it
\* may take, and a task ends once, after being executed if it succeeds.
Fleet == INSTANCE FleetTasks
           WITH line <- Waiting, phase <- record, holder <- task

TasksImplemented == Fleet!Spec

-----------------------------------------------------------------------------
(* Safety stops and the operator *)

\* Inside a step, after its safety poll, or in the dispatch before it.
InLoop == pc \notin {"ready", "first"}

\* The loop never moves or drives an agent while its emergency stop is set,
\* whatever state it was stopped in; the stop is read in the same step it is
\* latched by the safety poll.
StoppedStaysPut ==
  [][\A a \in Agents : InLoop /\ estop[a] =>
       /\ pose'[a] = pose[a]
       /\ drive'[a] => drive[a]]_vars

\* While an operator's command holds, the loop leaves the actuator to it.  Not
\* so the obstacle loop, which stops an agent whose way it finds blocked.
HoldKeepsCommand ==
  [][\A a \in Agents :
       InLoop /\ pc # "obstacles" /\ hold[a] > 0 /\ ~estop[a] =>
       /\ pose'[a] = pose[a]
       /\ drive'[a] = drive[a]]_vars

\* An agent without a task has been told to stop.  Holds where no operator
\* drives and no run times out: _fail_remaining stops no actuator.
IdleStopped == \A a \in Agents : task[a] = NoTask => ~drive[a]

\* An emergency stop keeps the operator from setting the agent in motion too.
EstopBarsCommands ==
  [][\A a \in Agents : estop[a] /\ ~drive[a] => ~drive'[a]]_vars

\* The dwell clock runs only while the agent is at its goal.
DwellsAtGoal ==
  \A a \in Agents : dwell[a] # NotDwelling =>
    task[a] # NoTask /\ pose[a] = TaskGoal[task[a]]

-----------------------------------------------------------------------------
(* Right-of-way and costmap cells *)

\* A cell is reserved by one agent at most.
CellsDisjoint ==
  \A a, b \in Agents : a # b => cells[a] \cap cells[b] = {}

\* Only an agent that follows a plan holds cells: one that waits for cells, or
\* has no task, never keeps others waiting (no hold-and-wait).
HoldersAreOnTask ==
  \A a \in Agents : cells[a] # {} => bstate[a] \in OnTask

-----------------------------------------------------------------------------
(* Obstacles *)

\* Once the due obstacles are in the grid and the affected agents replanned, no
\* executing agent is headed through a blocked cell.  An agent in recovery is
\* passed over and resumes along its old path: this is for fleets in which none
\* recovers (no jams, and turns shorter than the stuck window).
PathsClear ==
  \A a \in Agents :
    pc # "obstacles" /\ bstate[a] = "executing" =>
      PolylineCells(<<pose[a]>> \o path[a]) \cap blocked = {}

-----------------------------------------------------------------------------
(* Progress *)

\* Every task that waits is done, one way or the other, in the end.  This is for
\* tasks with goals: one without keeps its agent until a timeout, and the agents
\* that give way to it.
TasksEnd ==
  \A t \in Tasks :
    Pending(t) ~> record[t] \in {"succeeded", "failed"}

\* An agent that can no longer move is given up on: recovery does not go on
\* forever, and the agent is free again.
JammedGivesUp ==
  \A a \in Agents : <>[]jammed[a] => []<>(task[a] = NoTask)

\* A task that waits for cells gets them or fails.
CellsAreGranted ==
  \A a \in Agents : bstate[a] = "reserving" ~> bstate[a] # "reserving"

=============================================================================
