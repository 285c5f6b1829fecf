---------------------------- MODULE NavStepProofs ----------------------------
(***************************************************************************)
(* What no step of the runtime loop may ever do, for every fleet and       *)
(* configuration: overwrite an outcome, lose a task, or move an agent that *)
(* is stopped or held by an operator.  The last section proves that plans  *)
(* end at goals.                                                           *)
(***************************************************************************)
EXTENDS NavTaskProofs

-----------------------------------------------------------------------------
(* Records *)

\* A record only appears, or moves on while an agent has the task.
RecordStep ==
  /\ \A t \in Tasks : record[t] # "none" => record'[t] # "none"
  /\ \A t \in Tasks :
       record[t] \in {"succeeded", "failed"} => record'[t] = record[t]

LEMMA RecordSteps ==
  ASSUME TaskInv, [Next]_vars
  PROVE  RecordStep
<1>1. ASSUME NEW a \in Agents, Keeps \/ Begins(a) \/ Ends(a)
      PROVE  RecordStep
  <2>1. task[a] # NoTask =>
          task[a] \in Tasks /\ record[task[a]] \in {"assigned", "executing"}
    BY OwnTask DEF TaskInv, AgentsAgree, RecordsAgree
  <2>2. QED
    BY <1>1, <2>1 DEF RecordStep, Keeps, Begins, Ends, TaskInv, TypeOK
<1>2. ASSUME UNCHANGED record
      PROVE  RecordStep
  BY <1>2 DEF RecordStep
<1>3. CASE Timeout
  <2>1. \A t \in Tasks : Unfinished(t) =>
          record[t] \notin {"succeeded", "failed"}
    <3>1. \A t \in Tasks : Pending(t) => record[t] = "none"
      BY DEF Pending, TaskInv, QueuesOnce, NoRecords
    <3>2. \A a \in Agents : task[a] # NoTask =>
            record[task[a]] \in {"assigned", "executing"}
      BY DEF TaskInv, AgentsAgree, RecordsAgree
    <3>3. QED
      BY <3>1, <3>2, FleetAssumption DEF Unfinished
  <2>2. QED
    BY <1>3, <2>1 DEF Timeout, RecordStep
<1>4. CASE External
  <2>1. Timeout \/ UNCHANGED record
    BY <1>4
    DEF External, Submit, StartRun, SetLifecycle, SetEstop, Teleop, ToggleLock,
        ToggleJam, StepPaused, BeginStep
  <2>2. QED
    BY <1>2, <1>3, <2>1
<1>5. CASE Step
  BY <1>2, <1>5 DEF Step, BeginStep
<1>6. CASE Obstacles
  BY <1>1, <1>6, ObstaclesDo DEF Obstacles, TaskInv
<1>7. CASE Dispatch
  <2>1. ASSUME NEW a \in Agents, Assign(a)
        PROVE  RecordStep
    BY <2>1, AssignGets DEF Gets, RecordStep, TaskInv, TypeOK
  <2>2. QED
    BY <1>2, <1>7, <2>1 DEF Dispatch, Defer, Requeue, Resubmit, EndDispatch
<1>8. ASSUME NEW a \in Agents, AgentTurn(a)
      PROVE  RecordStep
  BY <1>1, <1>8, AgentTurnDoes DEF TaskInv
<1>9. CASE UNCHANGED vars
  BY <1>2, <1>9 DEF vars
<1>10. QED
  BY <1>4, <1>5, <1>6, <1>7, <1>8, <1>9 DEF Next, Loop

\* A task's success or failure is never overwritten, not by a timeout either.
THEOREM OutcomesAreFinal == Spec => OutcomesFinal
<1>1. TaskInv /\ [Next]_vars =>
        [\A t \in Tasks : record[t] \in {"succeeded", "failed"} =>
                            record'[t] = record[t]]_vars
  BY RecordSteps DEF RecordStep
<1>2. QED
  BY <1>1, TasksConsistent, PTL DEF Spec, OutcomesFinal

-----------------------------------------------------------------------------
(* No task is lost *)

In(t, s) == \E i \in 1 .. Len(s) : s[i] = t

LEMMA InConcat ==
  ASSUME NEW s \in Seq(Tasks), NEW u \in Seq(Tasks), NEW t
  PROVE  In(t, s \o u) <=> In(t, s) \/ In(t, u)
<1> DEFINE m == Len(s)
           n == Len(u)
           w == s \o u
<1>1. /\ m \in Nat /\ n \in Nat /\ Len(w) = m + n
      /\ \A i \in 1 .. m + n : w[i] = IF i <= m THEN s[i] ELSE u[i - m]
  BY ConcatProperties, LenProperties
<1> HIDE DEF m, n, w
<1>2. \A i \in 1 .. m : i \in 1 .. m + n /\ w[i] = s[i]
  BY <1>1
<1>3. \A i \in 1 .. n : i + m \in 1 .. m + n /\ w[i + m] = u[i]
  BY <1>1
<1>4. \A i \in 1 .. m + n : \/ i \in 1 .. m /\ w[i] = s[i]
                            \/ i - m \in 1 .. n /\ w[i] = u[i - m]
  BY <1>1
<1>5. (\E i \in 1 .. m + n : w[i] = t)
        <=> (\E i \in 1 .. m : s[i] = t) \/ (\E i \in 1 .. n : u[i] = t)
  BY <1>2, <1>3, <1>4
<1>6. QED
  BY <1>1, <1>5 DEF In, m, n, w

LEMMA InWaiting ==
  ASSUME TypeOK, NEW t
  PROVE  (\E i \in 1 .. Len(Waiting) : Waiting[i] = t)
           <=> In(t, queue) \/ In(t, deferred)
<1>1. queue \in Seq(Tasks) /\ deferred \in Seq(Tasks)
  BY DEF TypeOK
<1>2. Waiting = queue \o deferred \/ Waiting = deferred \o queue
  BY DEF Waiting
<1>3. In(t, Waiting) <=> In(t, queue) \/ In(t, deferred)
  <2>1. In(t, queue \o deferred) <=> In(t, queue) \/ In(t, deferred)
    BY <1>1, InConcat
  <2>2. In(t, deferred \o queue) <=> In(t, queue) \/ In(t, deferred)
    BY <1>1, InConcat
  <2>3. QED
    BY <1>2, <2>1, <2>2
<1>4. QED
  BY <1>3 DEF In

\* A popped task is the head; the others stay.
LEMMA InTail ==
  ASSUME NEW q \in Seq(Tasks), q # <<>>, NEW t, In(t, q)
  PROVE  t = Head(q) \/ In(t, Tail(q))
<1>1. /\ Len(q) \in Nat \ {0} /\ Head(q) = q[1]
      /\ Len(Tail(q)) = Len(q) - 1
      /\ \A i \in 1 .. Len(Tail(q)) : Tail(q)[i] = q[i + 1]
  BY EmptySeq, HeadTailProperties
<1>2. PICK i \in 1 .. Len(q) : q[i] = t
  BY DEF In
<1>3. CASE i = 1
  BY <1>1, <1>2, <1>3
<1>4. CASE i # 1
  <2>1. i - 1 \in 1 .. Len(Tail(q)) /\ Tail(q)[i - 1] = q[(i - 1) + 1]
    BY <1>1, <1>4
  <2>2. Tail(q)[i - 1] = t
    BY <1>1, <1>2, <2>1
  <2>3. QED
    BY <2>1, <2>2 DEF In
<1>5. QED
  BY <1>3, <1>4

LEMMA InAppend ==
  ASSUME NEW q \in Seq(Tasks), NEW u \in Tasks, NEW t, In(t, q) \/ t = u
  PROVE  In(t, Append(q, u))
<1>1. /\ Len(q) \in Nat /\ Len(Append(q, u)) = Len(q) + 1
      /\ \A i \in 1 .. Len(q) : Append(q, u)[i] = q[i]
      /\ Append(q, u)[Len(q) + 1] = u
  BY AppendProperties, LenProperties
<1>2. QED
  BY <1>1 DEF In

\* Submitting keeps what is queued, and queues the new task.
LEMMA InEnqueued ==
  ASSUME NEW q \in Seq(Tasks), NEW u \in Tasks, NEW t, In(t, q) \/ t = u
  PROVE  In(t, Enqueued(q, u, TaskPriority))
<1> DEFINE k == Ahead(q, u, TaskPriority)
           e == Enqueued(q, u, TaskPriority)
<1>1. k \in 0 .. Len(q) /\ Len(q) \in Nat
  BY AheadType, LenProperties
<1>2. /\ Len(e) = Len(q) + 1
      /\ e[k + 1] = u
      /\ \A i \in 1 .. k : e[i] = q[i]
      /\ \A i \in k + 2 .. Len(q) + 1 : e[i] = q[i - 1]
  BY EnqueuedProperties
<1> HIDE DEF k, e
<1>3. CASE t = u
  <2>1. k + 1 \in 1 .. Len(e)
    BY <1>1, <1>2
  <2>2. QED
    BY <1>2, <1>3, <2>1 DEF In, e
<1>4. CASE In(t, q)
  <2>1. PICK i \in 1 .. Len(q) : q[i] = t
    BY <1>4 DEF In
  <2>2. CASE i <= k
    <3>1. i \in 1 .. Len(e) /\ e[i] = t
      BY <1>1, <1>2, <2>1, <2>2
    <3>2. QED
      BY <3>1 DEF In, e
  <2>3. CASE ~(i <= k)
    <3>1. i + 1 \in k + 2 .. Len(q) + 1 /\ (i + 1) - 1 = i
      BY <1>1, <2>3
    <3>2. i + 1 \in 1 .. Len(e) /\ e[i + 1] = t
      BY <1>1, <1>2, <2>1, <3>1
    <3>3. QED
      BY <3>2 DEF In, e
  <2>4. QED
    BY <2>2, <2>3
<1>5. QED
  BY <1>3, <1>4

\* Known, said of the two halves of the waiting tasks.
Kept(t) == record[t] # "none" \/ In(t, queue) \/ In(t, deferred)

LEMMA KeptStep ==
  ASSUME TaskInv, [Next]_vars, NEW t \in Tasks, Kept(t)
  PROVE  Kept(t)'
<1>1. RecordStep
  BY RecordSteps
<1>2. queue \in Seq(Tasks) /\ deferred \in Seq(Tasks)
  BY DEF TaskInv, TypeOK
<1>3. ASSUME UNCHANGED <<queue, deferred>>
      PROVE  Kept(t)'
  BY <1>1, <1>3 DEF RecordStep, Kept
<1>4. CASE \E u \in Tasks : Submit(u)
  BY <1>1, <1>2, <1>4, InEnqueued DEF Submit, RecordStep, Kept
<1>5. CASE Timeout
  <2>1. deferred' = deferred
    BY <1>5 DEF Timeout
  <2>2. In(t, queue) => record'[t] = "failed"
    BY <1>5 DEF Timeout, Unfinished, Pending, In
  <2>3. QED
    BY <1>1, <2>1, <2>2 DEF RecordStep, Kept
<1>6. CASE \E a \in Agents : Assign(a)
  <2>1. PICK a \in Agents : Assign(a)
    BY <1>6
  <2>2. Gets(a, Head(queue))
    BY <2>1, AssignGets DEF TaskInv
  <2>3. record'[Head(queue)] = "assigned"
    BY <2>2 DEF Gets, TaskInv, TypeOK
  <2>4. In(t, queue) => t = Head(queue) \/ In(t, queue')
    BY <1>2, <2>1, InTail DEF Assign, Popped
  <2>5. deferred' = deferred
    BY <2>1 DEF Assign
  <2>6. QED
    BY <1>1, <2>3, <2>4, <2>5 DEF RecordStep, Kept
<1>7. CASE Defer
  <2>1. In(t, queue) => t = Head(queue) \/ In(t, queue')
    BY <1>2, <1>7, InTail DEF Defer, Popped
  <2>2. Head(queue) \in Tasks
    BY <1>2, <1>7, HeadTailProperties DEF Defer
  <2>3. In(t, deferred) \/ t = Head(queue) => In(t, deferred')
    BY <1>2, <1>7, <2>2, InAppend DEF Defer
  <2>4. QED
    BY <1>1, <2>1, <2>3 DEF RecordStep, Kept
<1>8. CASE Resubmit
  <2>1. In(t, deferred) => t = Head(deferred) \/ In(t, deferred')
    BY <1>2, <1>8, InTail DEF Resubmit
  <2>2. Head(deferred) \in Tasks
    BY <1>2, <1>8, HeadTailProperties DEF Resubmit
  <2>3. In(t, queue) \/ t = Head(deferred) => In(t, queue')
    BY <1>2, <1>8, <2>2, InEnqueued DEF Resubmit
  <2>4. QED
    BY <1>1, <2>1, <2>3 DEF RecordStep, Kept
<1>9. CASE External
  BY <1>3, <1>4, <1>5, <1>9
  DEF External, StartRun, SetLifecycle, SetEstop, Teleop, ToggleLock,
      ToggleJam, StepPaused, BeginStep, queueVars
<1>10. CASE Step
  BY <1>3, <1>10 DEF Step, BeginStep, queueVars
<1>11. CASE Obstacles
  BY <1>3, <1>11
  DEF Obstacles, KeepPlan, Replan, BlockedOut, ObstacleTurn, queueVars
<1>12. CASE Dispatch
  BY <1>3, <1>6, <1>7, <1>8, <1>12
  DEF Dispatch, Requeue, EndDispatch, queueVars
<1>13. ASSUME NEW a \in Agents, AgentTurn(a)
       PROVE  Kept(t)'
  <2>1. Turn(a)
    BY <1>13
    DEF AgentTurn, SkipIdle, RejectStopped, LeaveToOperator, NoGoal, Yield,
        BeginExecution, WaitForCells, PlanFails, RestStill, Dwelling, Succeed,
        RejectLocked, DriveOn, StartRecovery, GiveUp, Driving, Moving,
        NeedsPlan, Going, Autonomous
  <2>2. QED
    BY <1>3, <2>1 DEF Turn, queueVars
<1>14. CASE UNCHANGED vars
  BY <1>3, <1>14 DEF vars, queueVars
<1>15. QED
  BY <1>9, <1>10, <1>11, <1>12, <1>13, <1>14 DEF Next, Loop

\* A submitted task waits or is on record from then on: it is lost neither
\* between the queue and the dispatcher's local list nor by a timeout.
THEOREM NoTaskIsLost == Spec => TasksNeverLost
<1>1. TaskInv /\ TaskInv' /\ [Next]_vars =>
        [\A t \in Tasks : Known(t) => Known(t)']_vars
  <2> SUFFICES ASSUME TaskInv, TaskInv', [Next]_vars, NEW t \in Tasks, Known(t)
               PROVE  Known(t)'
    OBVIOUS
  <2>1. Known(t) <=> Kept(t)
    BY InWaiting DEF Known, Kept, TaskInv
  <2>2. Known(t)' <=> Kept(t)'
    <3>1. TypeOK'
      BY DEF TaskInv
    <3>2. (\E i \in 1 .. Len(Waiting) : Waiting[i] = t)'
            <=> (In(t, queue) \/ In(t, deferred))'
      <4>1. queue' \in Seq(Tasks) /\ deferred' \in Seq(Tasks)
        BY <3>1 DEF TypeOK
      <4>2. \/ Waiting' = queue' \o deferred'
            \/ Waiting' = deferred' \o queue'
        BY DEF Waiting
      <4>3. In(t, Waiting') <=> In(t, queue') \/ In(t, deferred')
        <5>1. In(t, queue' \o deferred') <=> In(t, queue') \/ In(t, deferred')
          BY <4>1, InConcat
        <5>2. In(t, deferred' \o queue') <=> In(t, queue') \/ In(t, deferred')
          BY <4>1, InConcat
        <5>3. QED
          BY <4>2, <5>1, <5>2
      <4>4. QED
        BY <4>3 DEF In
    <3>3. QED
      BY <3>2 DEF Known, Kept
  <2>3. QED
    BY <2>1, <2>2, KeptStep
<1>2. QED
  BY <1>1, TasksConsistent, PTL DEF Spec, TasksNeverLost

-----------------------------------------------------------------------------
(* Stops and holds *)

\* A call from outside, and the start of a step, happen between steps.
LEMMA OutsideLoop ==
  ASSUME External \/ Step, pc \notin {"ready", "first"}
  PROVE  FALSE
BY DEF External, Submit, StartRun, Timeout, SetLifecycle, SetEstop, Teleop,
       ToggleLock, ToggleJam, StepPaused, Step

\* An agent's turn disturbs neither the pose nor the actuator of another.
LEMMA OthersKept ==
  ASSUME TypeOK, NEW a \in Agents, AgentTurn(a), NEW b \in Agents, b # a
  PROVE  pose'[b] = pose[b] /\ drive'[b] = drive[b]
<1>1. pose'[b] = pose[b]
  BY DEF AgentTurn, SkipIdle, RejectStopped, LeaveToOperator, NoGoal, Yield,
         BeginExecution, WaitForCells, PlanFails, RestStill, Dwelling, Succeed,
         RejectLocked, DriveOn, StartRecovery, GiveUp, Driving, Apply,
         TurnInPlace, Advance, NeedsPlan, Standing, TypeOK
<1>2. drive'[b] = drive[b]
  BY DEF AgentTurn, SkipIdle, RejectStopped, LeaveToOperator, NoGoal, Yield,
         BeginExecution, WaitForCells, PlanFails, RestStill, Dwelling, Succeed,
         RejectLocked, DriveOn, StartRecovery, GiveUp, Stop, TypeOK
<1>3. QED
  BY <1>1, <1>2

\* A stopped agent's turn is skipped or rejected.
LEMMA StoppedTurn ==
  ASSUME NEW a \in Agents, AgentTurn(a), estop[a]
  PROVE  SkipIdle(a) \/ RejectStopped(a)
BY DEF AgentTurn, LeaveToOperator, NoGoal, Yield, BeginExecution, WaitForCells,
       PlanFails, RestStill, Dwelling, Succeed, RejectLocked, DriveOn,
       StartRecovery, GiveUp, Driving, Moving, NeedsPlan, Going, Autonomous

\* A held agent's turn is skipped or left to the operator.
LEMMA HeldTurn ==
  ASSUME NEW a \in Agents, AgentTurn(a), ~estop[a], hold[a] # 0
  PROVE  SkipIdle(a) \/ LeaveToOperator(a)
BY DEF AgentTurn, RejectStopped, NoGoal, Yield, BeginExecution, WaitForCells,
       PlanFails, RestStill, Dwelling, Succeed, RejectLocked, DriveOn,
       StartRecovery, GiveUp, Driving, Moving, NeedsPlan, Going, Autonomous

\* The obstacle loop moves nobody and sets nobody in motion.
LEMMA ObstaclesOnlyStop ==
  ASSUME TypeOK, Obstacles
  PROVE  pose' = pose /\ \A a \in Agents : drive'[a] => drive[a]
BY DEF Obstacles, KeepPlan, Replan, BlockedOut, ObstacleTurn, Stop, TypeOK

LEMMA DispatchMovesNobody ==
  ASSUME Dispatch
  PROVE  pose' = pose /\ drive' = drive
BY DEF Dispatch, Assign, Defer, Requeue, Resubmit, EndDispatch,
       DispatchUnchanged

\* The loop neither moves nor drives an agent whose emergency stop is set.
THEOREM StoppedAgentsStayPut == Spec => StoppedStaysPut
<1>1. TypeOK /\ [Next]_vars =>
        [\A a \in Agents : InLoop /\ estop[a] =>
           /\ pose'[a] = pose[a]
           /\ drive'[a] => drive[a]]_vars
  <2> SUFFICES ASSUME TypeOK, Next, NEW a \in Agents, InLoop, estop[a]
               PROVE  pose'[a] = pose[a] /\ (drive'[a] => drive[a])
    BY DEF vars
  <2>1. CASE External \/ Step
    BY <2>1, OutsideLoop DEF InLoop
  <2>2. CASE Obstacles
    BY <2>2, ObstaclesOnlyStop
  <2>3. CASE Dispatch
    BY <2>3, DispatchMovesNobody
  <2>4. ASSUME NEW b \in Agents, AgentTurn(b)
        PROVE  pose'[a] = pose[a] /\ (drive'[a] => drive[a])
    <3>1. CASE b = a
      <4>1. SkipIdle(a) \/ RejectStopped(a)
        BY <2>4, <3>1, StoppedTurn
      <4>2. QED
        BY <4>1 DEF SkipIdle, RejectStopped, Standing, Stop, TypeOK
    <3>2. CASE b # a
      BY <2>4, <3>2, OthersKept
    <3>3. QED
      BY <3>1, <3>2
  <2>5. QED
    BY <2>1, <2>2, <2>3, <2>4 DEF Next, Loop
<1>2. QED
  BY <1>1, TypeCorrect, PTL DEF Spec, StoppedStaysPut

\* While an operator's command holds, the agent's turns leave it alone.
THEOREM HeldAgentsKeepCommand == Spec => HoldKeepsCommand
<1>1. TypeOK /\ [Next]_vars =>
        [\A a \in Agents :
           InLoop /\ pc # "obstacles" /\ hold[a] > 0 /\ ~estop[a] =>
             /\ pose'[a] = pose[a]
             /\ drive'[a] = drive[a]]_vars
  <2> SUFFICES ASSUME TypeOK, Next, NEW a \in Agents,
                      InLoop, pc # "obstacles", hold[a] > 0, ~estop[a]
               PROVE  pose'[a] = pose[a] /\ drive'[a] = drive[a]
    BY DEF vars
  <2>1. CASE External \/ Step
    BY <2>1, OutsideLoop DEF InLoop
  <2>2. CASE Obstacles
    BY <2>2 DEF Obstacles, KeepPlan, Replan, BlockedOut, ObstacleTurn
  <2>3. CASE Dispatch
    BY <2>3, DispatchMovesNobody
  <2>4. ASSUME NEW b \in Agents, AgentTurn(b)
        PROVE  pose'[a] = pose[a] /\ drive'[a] = drive[a]
    <3>1. CASE b = a
      <4>1. hold[a] # 0
        BY ConfigAssumption DEF TypeOK
      <4>2. SkipIdle(a) \/ LeaveToOperator(a)
        BY <2>4, <3>1, <4>1, HeldTurn
      <4>3. QED
        BY <4>2 DEF SkipIdle, LeaveToOperator, Standing
    <3>2. CASE b # a
      BY <2>4, <3>2, OthersKept
    <3>3. QED
      BY <3>1, <3>2
  <2>5. QED
    BY <2>1, <2>2, <2>3, <2>4 DEF Next, Loop
<1>2. QED
  BY <1>1, TypeCorrect, PTL DEF Spec, HoldKeepsCommand

-----------------------------------------------------------------------------
(* An agent on a task has a plan to the task's goal, for every grid, fleet   *)
(* and configuration, through replanning, recovery and waypoint dropping.    *)

EndsAtGoal(a) ==
  /\ path[a] # <<>>
  /\ path[a][Len(path[a])] = TaskGoal[task[a]]

\* An agent that was on a task and follows the same waypoints still does well.
LEMMA PlanKept ==
  ASSUME PlanEndsAtGoal, UNCHANGED task,
         \A b \in Agents : bstate'[b] \in OnTask =>
           \/ EndsAtGoal(b)'
           \/ bstate[b] \in OnTask /\ path'[b] = path[b]
  PROVE  PlanEndsAtGoal'
BY DEF PlanEndsAtGoal, EndsAtGoal

\* Adopting a route to the task's goal.
LEMMA RouteTaken ==
  ASSUME TypeOK, NEW a \in Agents, task[a] # NoTask,
         TaskGoal[task[a]] # NoCell, UNCHANGED task,
         NEW route \in Routes(a), path' = [path EXCEPT ![a] = route]
  PROVE  EndsAtGoal(a)'
<1>1. pose[a] \in Cells /\ TaskGoal[task[a]] \in Cells
  BY GoalType DEF TypeOK
<1>2. route # <<>> /\ route[Len(route)] = TaskGoal[task[a]]
  BY <1>1, PlansEndAtGoal DEF Routes
<1>3. path'[a] = route
  BY DEF TypeOK
<1>4. QED
  BY <1>2, <1>3 DEF EndsAtGoal

\* Dropping the waypoint that is reached.
LEMMA RemainingKept ==
  ASSUME TypeOK, NEW a \in Agents, EndsAtGoal(a), UNCHANGED task,
         path' = [path EXCEPT ![a] = Remaining(a)]
  PROVE  EndsAtGoal(a)'
<1>1. path[a] \in Seq(Cells) /\ path'[a] = Remaining(a)
  BY DEF TypeOK
<1>2. Remaining(a) # <<>> /\ Remaining(a)[Len(Remaining(a))] = path[a][Len(path[a])]
  BY <1>1, AfterReachedEnd DEF Remaining, EndsAtGoal
<1>3. QED
  BY <1>1, <1>2 DEF EndsAtGoal

\* The end of a task: the agent is idle, the plans of the others stay.
LEMMA PlanEnded ==
  ASSUME TaskInv, PlanEndsAtGoal, NEW a \in Agents, Ends(a),
         \A b \in Agents : b # a => path'[b] = path[b]
  PROVE  PlanEndsAtGoal'
<1>1. bstate'[a] \notin OnTask
  BY DEF Ends, OnTask, TaskInv, TypeOK
<1>2. \A b \in Agents : b # a => task'[b] = task[b] /\ bstate'[b] = bstate[b]
  BY DEF Ends, TaskInv, TypeOK
<1>3. QED
  BY <1>1, <1>2 DEF PlanEndsAtGoal

LEMMA EndTaskPaths ==
  ASSUME TypeOK, NEW a \in Agents, NEW s, NEW outcome, EndTask(a, s, outcome)
  PROVE  \A b \in Agents : b # a => path'[b] = path[b]
BY DEF EndTask, ClearNav, TypeOK

LEMMA AgentTurnPlan ==
  ASSUME TaskInv, PlanEndsAtGoal, NEW a \in Agents, AgentTurn(a)
  PROVE  PlanEndsAtGoal'
<1>1. TypeOK /\ AgentsAgree
  BY DEF TaskInv
<1>2. ASSUME UNCHANGED <<task, bstate, path>>
      PROVE  PlanEndsAtGoal'
  BY <1>2 DEF PlanEndsAtGoal
<1>3. CASE \/ SkipIdle(a) \/ RejectStopped(a) \/ LeaveToOperator(a)
           \/ NoGoal(a) \/ RestStill(a) \/ Yield(a)
  BY <1>2, <1>3
  DEF SkipIdle, RejectStopped, LeaveToOperator, NoGoal, RestStill, Standing,
      navVars, Yield
<1>4. CASE BeginExecution(a)
  <2>1. PICK route \in Routes(a) : path' = [path EXCEPT ![a] = route]
    BY <1>4 DEF BeginExecution
  <2>2. task[a] # NoTask /\ TaskGoal[task[a]] # NoCell /\ UNCHANGED task
    BY <1>4, PlanningStates
    DEF BeginExecution, NeedsPlan, Going, Autonomous
  <2>3. EndsAtGoal(a)'
    BY <1>1, <2>1, <2>2, RouteTaken
  <2>4. \A b \in Agents : b # a => path'[b] = path[b] /\ bstate'[b] = bstate[b]
    BY <1>1, <1>4, <2>1 DEF BeginExecution, TypeOK
  <2>5. QED
    BY <2>2, <2>3, <2>4, PlanKept
<1>5. CASE WaitForCells(a)
  <2>1. PlanningState(a) \in {"planning", "reserving"}
    BY <1>5, PlanningStates DEF WaitForCells
  <2>2. bstate' = [bstate EXCEPT ![a] = "reserving"]
    BY <1>5, <2>1, Transitions DEF WaitForCells
  <2>3. UNCHANGED <<task, path>>
    BY <1>5 DEF WaitForCells, navVars
  <2>4. \A b \in Agents : bstate'[b] \in OnTask => bstate[b] \in OnTask
    BY <1>1, <2>2 DEF OnTask, TypeOK
  <2>5. QED
    BY <2>3, <2>4, PlanKept
<1>6. CASE PlanFails(a)
  <2>1. EndTask(a, PlanningState(a), "failed")
    BY <1>6 DEF PlanFails
  <2>2. task[a] # NoTask /\ PlanningState(a) \in {"planning", "reserving"}
    BY <1>6, PlanningStates DEF PlanFails
  <2>3. QED
    BY <1>1, <2>1, <2>2, EndTaskEnds, EndTaskPaths, PlanEnded
<1>7. CASE Succeed(a)
  <2>1. EndTask(a, MovingState(a), "succeeded") /\ Moving(a)
    BY <1>7 DEF Succeed
  <2>2. QED
    BY <1>1, <2>1, MovingExecutes, EndTaskEnds, EndTaskPaths, PlanEnded
<1>8. CASE GiveUp(a)
  <2>1. EndTask(a, MovingState(a), "failed") /\ Moving(a)
    BY <1>8 DEF GiveUp, Driving
  <2>2. MovingState(a) \in OnTask /\ task[a] # NoTask
    BY <1>1, <2>1, MovingExecutes DEF OnTask
  <2>3. QED
    BY <1>1, <2>1, <2>2, EndTaskEnds, EndTaskPaths, PlanEnded
<1>9. CASE Dwelling(a) \/ RejectLocked(a) \/ DriveOn(a) \/ StartRecovery(a)
  <2>1. Moving(a) /\ UNCHANGED task
    BY <1>9 DEF Dwelling, RejectLocked, DriveOn, StartRecovery, Driving
  <2>2. path' = [path EXCEPT ![a] = Remaining(a)]
    BY <1>9 DEF Dwelling, RejectLocked, DriveOn, StartRecovery
  <2>3. EndsAtGoal(a)
    BY <1>1, <2>1, MovingExecutes DEF PlanEndsAtGoal, EndsAtGoal
  <2>4. EndsAtGoal(a)'
    BY <1>1, <2>1, <2>2, <2>3, RemainingKept
  <2>5. \A b \in Agents : b # a => bstate'[b] = bstate[b]
    BY <1>1, <1>9 DEF Dwelling, RejectLocked, DriveOn, StartRecovery, TypeOK
  <2>6. \A b \in Agents : b # a => path'[b] = path[b]
    BY <1>1, <2>2 DEF TypeOK
  <2>7. QED
    BY <2>1, <2>4, <2>5, <2>6, PlanKept
<1>10. QED
  BY <1>3, <1>4, <1>5, <1>6, <1>7, <1>8, <1>9 DEF AgentTurn

LEMMA ObstaclesPlan ==
  ASSUME TaskInv, PlanEndsAtGoal, NEW a \in Agents,
         KeepPlan(a) \/ Replan(a) \/ BlockedOut(a)
  PROVE  PlanEndsAtGoal'
<1>1. TypeOK /\ AgentsAgree
  BY DEF TaskInv
<1>2. CASE KeepPlan(a)
  BY <1>2 DEF KeepPlan, navVars, PlanEndsAtGoal
<1>3. CASE Replan(a)
  <2>1. PICK route \in Routes(a) : path' = [path EXCEPT ![a] = route]
    BY <1>3 DEF Replan
  <2>2. task[a] # NoTask /\ TaskGoal[task[a]] # NoCell /\ UNCHANGED task
    BY <1>3 DEF Replan, HitByObstacle
  <2>3. EndsAtGoal(a)'
    BY <1>1, <2>1, <2>2, RouteTaken
  <2>4. \A b \in Agents : b # a => path'[b] = path[b] /\ bstate'[b] = bstate[b]
    BY <1>1, <1>3, <2>1 DEF Replan, TypeOK
  <2>5. QED
    BY <2>2, <2>3, <2>4, PlanKept
<1>4. CASE BlockedOut(a)
  <2>1. task[a] # NoTask /\ bstate[a] = "executing"
    BY <1>4 DEF BlockedOut, HitByObstacle
  <2>2. EndTask(a, "planning", "failed")
    BY <1>4, <2>1, Transitions DEF BlockedOut
  <2>3. QED
    BY <1>1, <2>1, <2>2, EndTaskEnds, EndTaskPaths, PlanEnded
<1>5. QED
  BY <1>2, <1>3, <1>4

LEMMA PlanStep == TaskInv /\ PlanEndsAtGoal /\ [Next]_vars => PlanEndsAtGoal'
<1> SUFFICES ASSUME TaskInv, PlanEndsAtGoal, [Next]_vars
             PROVE  PlanEndsAtGoal'
  OBVIOUS
<1>1. ASSUME UNCHANGED <<task, bstate, path>>
      PROVE  PlanEndsAtGoal'
  BY <1>1 DEF PlanEndsAtGoal
<1>2. CASE Timeout
  <2>1. TaskInv'
    BY TaskStep
  <2>2. \A b \in Agents : bstate'[b] = "idle"
    BY <1>2, <2>1 DEF Timeout, TaskInv, AgentsAgree, BusyIffTasked
  <2>3. QED
    BY <2>2 DEF PlanEndsAtGoal, OnTask
<1>3. CASE External
  BY <1>1, <1>2, <1>3
  DEF External, Submit, StartRun, SetLifecycle, SetEstop, Teleop, ToggleLock,
      ToggleJam, StepPaused, BeginStep, navVars
<1>4. CASE Step
  BY <1>1, <1>4 DEF Step, BeginStep
<1>5. CASE Obstacles
  BY <1>5, ObstaclesPlan DEF Obstacles
<1>6. ASSUME NEW a \in Agents, Assign(a)
      PROVE  PlanEndsAtGoal'
  <2>1. Gets(a, Head(queue))
    BY <1>6, AssignGets DEF TaskInv
  <2>2. path' = path
    BY <1>6 DEF Assign, DispatchUnchanged, navVars
  <2>3. bstate'[a] \notin OnTask
    BY <2>1 DEF Gets, OnTask, TaskInv, TypeOK
  <2>4. \A b \in Agents : b # a => task'[b] = task[b] /\ bstate'[b] = bstate[b]
    BY <2>1 DEF Gets, TaskInv, TypeOK
  <2>5. QED
    BY <2>2, <2>3, <2>4 DEF PlanEndsAtGoal
<1>7. CASE Dispatch
  BY <1>1, <1>6, <1>7
  DEF Dispatch, Defer, Requeue, Resubmit, EndDispatch, DispatchUnchanged,
      navVars
<1>8. ASSUME NEW a \in Agents, AgentTurn(a)
      PROVE  PlanEndsAtGoal'
  BY <1>8, AgentTurnPlan
<1>9. CASE UNCHANGED vars
  BY <1>1, <1>9 DEF vars, navVars
<1>10. QED
  BY <1>3, <1>4, <1>5, <1>7, <1>8, <1>9 DEF Next, Loop

\* An agent on a task always has waypoints, and the last is the task's goal:
\* also after a new plan around an obstacle, a recovery, and an operator's
\* intervention.
THEOREM PlansLeadToGoals == Spec => []PlanEndsAtGoal
<1>1. Init => PlanEndsAtGoal
  BY DEF Init, PlanEndsAtGoal, OnTask
<1>2. QED
  BY <1>1, PlanStep, TasksConsistent, PTL DEF Spec

-----------------------------------------------------------------------------
(* Where no operator drives: agents at rest, and agents that dwell.          *)

\* A turn, or an obstacle, that leaves an agent without a task has stopped it,
\* or found it without one.
LEMMA EndedStopped ==
  ASSUME TypeOK, IdleStopped, NEW a \in Agents,
         AgentTurn(a) \/ KeepPlan(a) \/ Replan(a) \/ BlockedOut(a)
  PROVE  IdleStopped'
<1>1. \A b \in Agents : b # a => task'[b] = task[b] /\ drive'[b] = drive[b]
  BY DEF AgentTurn, SkipIdle, RejectStopped, LeaveToOperator, NoGoal, Yield,
         BeginExecution, WaitForCells, PlanFails, RestStill, Dwelling, Succeed,
         RejectLocked, DriveOn, StartRecovery, GiveUp, Standing, KeepPlan,
         Replan, BlockedOut, EndTask, Stop, TypeOK
<1>2. task'[a] = NoTask => ~drive'[a]
  <2>1. CASE \/ SkipIdle(a) \/ LeaveToOperator(a) \/ NoGoal(a)
             \/ KeepPlan(a) \/ Replan(a)
    BY <2>1
    DEF SkipIdle, LeaveToOperator, NoGoal, KeepPlan, Replan, Standing,
        IdleStopped
  <2>2. CASE RejectStopped(a) \/ Yield(a) \/ WaitForCells(a) \/ PlanFails(a)
             \/ RestStill(a) \/ Dwelling(a) \/ Succeed(a) \/ RejectLocked(a)
             \/ GiveUp(a) \/ BlockedOut(a)
    BY <2>2
    DEF RejectStopped, Yield, WaitForCells, PlanFails, RestStill, Dwelling,
        Succeed, RejectLocked, GiveUp, BlockedOut, Stop, TypeOK
  <2>3. CASE BeginExecution(a) \/ DriveOn(a) \/ StartRecovery(a)
    BY <2>3
    DEF BeginExecution, DriveOn, StartRecovery, Driving, Moving, NeedsPlan,
        Going, Autonomous
  <2>4. QED
    BY <2>1, <2>2, <2>3 DEF AgentTurn
<1>3. QED
  BY <1>1, <1>2 DEF IdleStopped

LEMMA IdleStoppedStep ==
  ASSUME "operator" \notin Externals, "timeout" \notin Externals,
         TypeOK, IdleStopped, [Next]_vars
  PROVE  IdleStopped'
<1>1. ASSUME UNCHANGED task, \A a \in Agents : drive'[a] => drive[a]
      PROVE  IdleStopped'
  BY <1>1 DEF IdleStopped
<1>2. CASE External \/ Step
  <2>1. task' = task /\ \A a \in Agents : drive'[a] => drive[a]
    BY <1>2
    DEF External, Submit, StartRun, Timeout, SetLifecycle, SetEstop, Teleop,
        ToggleLock, ToggleJam, StepPaused, Step, BeginStep, PollSafety, TypeOK
  <2>2. QED
    BY <1>1, <2>1
<1>3. CASE Obstacles
  BY <1>3, EndedStopped DEF Obstacles
<1>4. ASSUME NEW a \in Agents, Assign(a)
      PROVE  IdleStopped'
  <2>1. drive' = drive /\ \A b \in Agents : b # a => task'[b] = task[b]
    BY <1>4 DEF Assign, DispatchUnchanged, TypeOK
  <2>2. task[a] = NoTask
    BY <1>4 DEF Assign, Nearest, FreeFor
  <2>3. QED
    BY <2>1, <2>2 DEF IdleStopped
<1>5. CASE Dispatch
  BY <1>1, <1>4, <1>5
  DEF Dispatch, Defer, Requeue, Resubmit, EndDispatch, DispatchUnchanged
<1>6. ASSUME NEW a \in Agents, AgentTurn(a)
      PROVE  IdleStopped'
  BY <1>6, EndedStopped
<1>7. CASE UNCHANGED vars
  BY <1>1, <1>7 DEF vars
<1>8. QED
  BY <1>2, <1>3, <1>5, <1>6, <1>7 DEF Next, Loop

\* Whatever ends a task stops its agent, and nothing sets an agent without a task
\* in motion: only an operator may, and only a timeout leaves one rolling.
THEOREM IdleStoppedHolds ==
  ASSUME "operator" \notin Externals, "timeout" \notin Externals
  PROVE  Spec => []IdleStopped
<1>1. Init => IdleStopped
  BY DEF Init, IdleStopped
<1>2. TypeOK /\ IdleStopped /\ [Next]_vars => IdleStopped'
  BY IdleStoppedStep
<1>3. QED
  BY <1>1, <1>2, TypeCorrect, PTL DEF Spec

DwellsThere(a) ==
  dwell[a] # NotDwelling => task[a] # NoTask /\ pose[a] = TaskGoal[task[a]]

LEMMA TurnDwells ==
  ASSUME TypeOK, DwellsAtGoal, NEW a \in Agents,
         AgentTurn(a) \/ KeepPlan(a) \/ Replan(a) \/ BlockedOut(a)
  PROVE  DwellsAtGoal'
<1>1. \A b \in Agents : b # a =>
        task'[b] = task[b] /\ dwell'[b] = dwell[b] /\ pose'[b] = pose[b]
  <2>1. \A b \in Agents : b # a => pose'[b] = pose[b]
    BY OthersKept DEF KeepPlan, Replan, BlockedOut, ObstacleTurn
  <2>2. \A b \in Agents : b # a => task'[b] = task[b] /\ dwell'[b] = dwell[b]
    BY DEF AgentTurn, SkipIdle, RejectStopped, LeaveToOperator, NoGoal, Yield,
           BeginExecution, WaitForCells, PlanFails, RestStill, Dwelling,
           Succeed, RejectLocked, DriveOn, StartRecovery, GiveUp, Standing,
           KeepPlan, Replan, BlockedOut, EndTask, ClearNav, navVars, TypeOK
  <2>3. QED
    BY <2>1, <2>2
<1>2. DwellsThere(a)
  BY DEF DwellsAtGoal, DwellsThere
<1>3. DwellsThere(a)'
  <2>1. CASE UNCHANGED <<task, dwell, pose>>
    BY <1>2, <2>1 DEF DwellsThere
  <2>2. CASE \/ SkipIdle(a) \/ RejectStopped(a) \/ LeaveToOperator(a)
             \/ NoGoal(a) \/ Yield(a) \/ BeginExecution(a)
             \/ WaitForCells(a) \/ RestStill(a) \/ RejectLocked(a)
             \/ KeepPlan(a) \/ Replan(a)
    BY <2>1, <2>2
    DEF SkipIdle, RejectStopped, LeaveToOperator, NoGoal, Yield, BeginExecution,
        WaitForCells, RestStill, RejectLocked, NeedsPlan, Standing, KeepPlan,
        Replan, ObstacleTurn, navVars
  <2>3. CASE PlanFails(a) \/ Succeed(a) \/ GiveUp(a) \/ BlockedOut(a)
    <3>1. dwell' = [dwell EXCEPT ![a] = NotDwelling]
      BY <2>3 DEF PlanFails, Succeed, GiveUp, BlockedOut, EndTask, ClearNav
    <3>2. QED
      BY <3>1 DEF DwellsThere, TypeOK
  <2>4. CASE Dwelling(a)
    BY <2>4
    DEF Dwelling, Moving, Going, Autonomous, AtGoal, DwellsThere
  <2>5. CASE DriveOn(a) \/ StartRecovery(a)
    <3>1. pose[a] # TaskGoal[task[a]] /\ UNCHANGED <<task, dwell>>
      BY <2>5 DEF DriveOn, StartRecovery, Driving, AtGoal
    <3>2. QED
      BY <1>2, <3>1 DEF DwellsThere
  <2>6. QED
    BY <2>2, <2>3, <2>4, <2>5 DEF AgentTurn
<1>4. QED
  BY <1>1, <1>3 DEF DwellsAtGoal, DwellsThere

LEMMA BeginStepDwells ==
  ASSUME TypeOK, DwellsAtGoal, BeginStep
  PROVE  DwellsAtGoal'
<1>1. UNCHANGED <<task, pose>>
  BY DEF BeginStep
<1>2. \A a \in Agents : dwell'[a] # NotDwelling => dwell[a] # NotDwelling
  BY DEF BeginStep, Ticked, NotDwelling, TypeOK
<1>3. QED
  BY <1>1, <1>2 DEF DwellsAtGoal

LEMMA DwellsStep ==
  ASSUME "operator" \notin Externals, TypeOK, DwellsAtGoal, [Next]_vars
  PROVE  DwellsAtGoal'
<1>1. ASSUME UNCHANGED <<task, dwell, pose>>
      PROVE  DwellsAtGoal'
  BY <1>1 DEF DwellsAtGoal
<1>2. CASE Timeout
  BY <1>2 DEF Timeout, DwellsAtGoal
<1>3. CASE External
  BY <1>1, <1>2, <1>3, BeginStepDwells
  DEF External, Submit, StartRun, SetLifecycle, SetEstop, Teleop, ToggleLock,
      ToggleJam, StepPaused, navVars
<1>4. CASE Step
  BY <1>4, BeginStepDwells DEF Step
<1>5. CASE Obstacles
  BY <1>5, TurnDwells DEF Obstacles
<1>6. ASSUME NEW a \in Agents, Assign(a)
      PROVE  DwellsAtGoal'
  <2>1. UNCHANGED <<dwell, pose>> /\ \A b \in Agents : b # a => task'[b] = task[b]
    BY <1>6 DEF Assign, DispatchUnchanged, navVars, TypeOK
  <2>2. dwell[a] = NotDwelling
    BY <1>6 DEF Assign, Nearest, FreeFor, DwellsAtGoal
  <2>3. QED
    BY <2>1, <2>2 DEF DwellsAtGoal
<1>7. CASE Dispatch
  BY <1>1, <1>6, <1>7
  DEF Dispatch, Defer, Requeue, Resubmit, EndDispatch, DispatchUnchanged,
      navVars
<1>8. ASSUME NEW a \in Agents, AgentTurn(a)
      PROVE  DwellsAtGoal'
  BY <1>8, TurnDwells
<1>9. CASE UNCHANGED vars
  BY <1>1, <1>9 DEF vars, navVars
<1>10. QED
  BY <1>3, <1>4, <1>5, <1>7, <1>8, <1>9 DEF Next, Loop

\* Where no operator drives, the dwell clock runs at the goal of the agent's own
\* task only, whatever suspends the agent there and whatever ends its tasks.
THEOREM DwellsAtGoalHolds ==
  ASSUME "operator" \notin Externals
  PROVE  Spec => []DwellsAtGoal
<1>1. Init => DwellsAtGoal
  BY DEF Init, DwellsAtGoal
<1>2. TypeOK /\ DwellsAtGoal /\ [Next]_vars => DwellsAtGoal'
  BY DwellsStep
<1>3. QED
  BY <1>1, <1>2, TypeCorrect, PTL DEF Spec

=============================================================================
