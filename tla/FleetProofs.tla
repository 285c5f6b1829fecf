----------------------------- MODULE FleetProofs -----------------------------
(***************************************************************************)
(* The waiting tasks and the fleet, for every task set, fleet and          *)
(* priorities.  The dispatcher pops tasks, sets some aside, and submits    *)
(* them again one by one; seen as one sequence, the waiting tasks are not  *)
(* reordered by it.  It leaves no agent free that could have been given a  *)
(* waiting task, and the runtime loop implements FleetTasks: both rest on  *)
(* one fact about its list, that no agent was free for what is in it.      *)
(***************************************************************************)
EXTENDS NavTaskProofs

\* Moving the head of one queue to the end of the other.
LEMMA MoveHead ==
  ASSUME NEW s \in Seq(Tasks), NEW u \in Seq(Tasks), u # <<>>
  PROVE  Append(s, Head(u)) \o Tail(u) = s \o u
<1> DEFINE m == Len(s)
           n == Len(u)
           a == Append(s, Head(u))
           v == Tail(u)
           w == a \o v
           x == s \o u
<1>1. /\ m \in Nat /\ n \in Nat /\ n # 0
      /\ Head(u) \in Tasks /\ Head(u) = u[1]
  BY LenProperties, EmptySeq, HeadTailProperties
<1>2. /\ v \in Seq(Tasks) /\ Len(v) = n - 1
      /\ \A i \in 1 .. Len(v) : v[i] = u[i + 1]
  BY HeadTailProperties
<1>3. /\ a \in Seq(Tasks) /\ Len(a) = m + 1 /\ a[m + 1] = Head(u)
      /\ \A i \in 1 .. m : a[i] = s[i]
  BY <1>1, AppendProperties
<1>4. /\ x \in Seq(Tasks) /\ Len(x) = m + n
      /\ \A i \in 1 .. m + n : x[i] = IF i <= m THEN s[i] ELSE u[i - m]
  BY ConcatProperties
<1> HIDE DEF m, n, a, v
<1>5. /\ w \in Seq(Tasks) /\ Len(w) = Len(a) + Len(v)
      /\ \A i \in 1 .. Len(a) + Len(v) :
           w[i] = IF i <= Len(a) THEN a[i] ELSE v[i - Len(a)]
  BY <1>2, <1>3, ConcatProperties
<1> HIDE DEF w, x
<1>6. Len(w) = Len(x)
  BY <1>1, <1>2, <1>3, <1>4, <1>5
<1>7. ASSUME NEW i \in 1 .. Len(w)
      PROVE  w[i] = x[i]
  <2>1. i \in 1 .. m + n
    BY <1>4, <1>6
  <2>2. CASE i <= m
    <3>1. w[i] = a[i] /\ a[i] = s[i]
      BY <1>1, <1>2, <1>3, <1>5, <2>1, <2>2
    <3>2. x[i] = s[i]
      BY <1>4, <2>1, <2>2
    <3>3. QED
      BY <3>1, <3>2
  <2>3. CASE i = m + 1
    <3>1. w[i] = a[m + 1]
      BY <1>1, <1>2, <1>3, <1>5, <2>1, <2>3
    <3>2. x[i] = u[1]
      BY <1>1, <1>4, <2>1, <2>3
    <3>3. QED
      BY <1>1, <1>3, <3>1, <3>2
  <2>4. CASE i > m + 1
    <3>1. w[i] = v[i - (m + 1)] /\ i - (m + 1) \in 1 .. Len(v)
      BY <1>1, <1>2, <1>3, <1>5, <2>1, <2>4
    <3>2. v[i - (m + 1)] = u[(i - (m + 1)) + 1]
      BY <1>2, <3>1
    <3>3. (i - (m + 1)) + 1 = i - m
      BY <1>1, <2>1
    <3>4. x[i] = u[i - m]
      BY <1>1, <1>4, <2>1, <2>4
    <3>5. QED
      BY <3>1, <3>2, <3>3, <3>4
  <2>5. QED
    BY <1>1, <2>1, <2>2, <2>3, <2>4
<1>8. w = x
  BY <1>4, <1>5, <1>6, <1>7, SeqEqual
<1>9. QED
  BY <1>8 DEF w, x, a, v

\* The elements of a concatenation, in one fact.
LEMMA ConcatIndex ==
  ASSUME NEW s \in Seq(Tasks), NEW u \in Seq(Tasks)
  PROVE  /\ Len(s) \in Nat /\ Len(u) \in Nat
         /\ Len(s \o u) = Len(s) + Len(u)
         /\ \A i \in 1 .. Len(s) :
              i \in 1 .. Len(s \o u) /\ (s \o u)[i] = s[i]
         /\ \A i \in 1 .. Len(u) :
              Len(s) + i \in 1 .. Len(s \o u) /\ (s \o u)[Len(s) + i] = u[i]
<1> DEFINE m == Len(s)
           n == Len(u)
           x == s \o u
<1>1. /\ m \in Nat /\ n \in Nat /\ Len(x) = m + n
      /\ \A i \in 1 .. m + n : x[i] = IF i <= m THEN s[i] ELSE u[i - m]
  BY ConcatProperties, LenProperties
<1> HIDE DEF m, n, x
<1>2. \A i \in 1 .. m : i \in 1 .. Len(x) /\ x[i] = s[i]
  BY <1>1
<1>3. ASSUME NEW i \in 1 .. n
      PROVE  m + i \in 1 .. Len(x) /\ x[m + i] = u[i]
  <2>1. m + i \in 1 .. m + n /\ ~(m + i <= m) /\ (m + i) - m = i
    BY <1>1
  <2>2. QED
    BY <1>1, <2>1
<1>4. QED
  BY <1>1, <1>2, <1>3 DEF m, n, x

\* Taking the head out of the second of two queues takes the element out of
\* their concatenation that the first one ends before.
LEMMA HeadOut ==
  ASSUME NEW s \in Seq(Tasks), NEW u \in Seq(Tasks), u # <<>>
  PROVE  /\ Len(s) + 1 \in 1 .. Len(s \o u)
         /\ (s \o u)[Len(s) + 1] = Head(u)
         /\ s \o Tail(u) = Fleet!Without(s \o u, Len(s) + 1)
<1> DEFINE m == Len(s)
           n == Len(u)
           v == Tail(u)
           w == s \o v
           x == s \o u
<1>1. /\ m \in Nat /\ n \in Nat /\ n # 0
      /\ Len(x) = m + n
      /\ \A i \in 1 .. m + n : x[i] = IF i <= m THEN s[i] ELSE u[i - m]
  BY ConcatProperties, LenProperties, EmptySeq
<1>2. /\ v \in Seq(Tasks) /\ Len(v) = n - 1
      /\ \A i \in 1 .. Len(v) : v[i] = u[i + 1]
      /\ Head(u) = u[1]
  BY HeadTailProperties
<1>3. /\ w \in Seq(Tasks)
      /\ Len(w) = Len(s) + Len(v)
      /\ \A i \in 1 .. Len(s) + Len(v) :
           w[i] = IF i <= Len(s) THEN s[i] ELSE v[i - Len(s)]
  BY <1>2, ConcatProperties
<1>4. w = [i \in 1 .. Len(w) |-> w[i]]
  BY <1>3, LenProperties
<1> HIDE DEF m, n, v, w, x
<1>5. /\ Len(w) = m + (n - 1)
      /\ \A i \in 1 .. m + (n - 1) : w[i] = IF i <= m THEN s[i] ELSE v[i - m]
  BY <1>2, <1>3 DEF m
<1>6. ASSUME NEW i \in 1 .. m + (n - 1)
      PROVE  w[i] = IF i < m + 1 THEN x[i] ELSE x[i + 1]
  <2>1. CASE i <= m
    BY <1>1, <1>5, <2>1
  <2>2. CASE ~(i <= m)
    <3>1. w[i] = v[i - m] /\ i - m \in 1 .. Len(v)
      BY <1>1, <1>2, <1>5, <2>2
    <3>2. v[i - m] = u[(i - m) + 1] /\ (i - m) + 1 = (i + 1) - m
      BY <1>1, <1>2, <3>1
    <3>3. i + 1 \in 1 .. m + n /\ ~(i + 1 <= m) /\ ~(i < m + 1)
      BY <1>1, <2>2
    <3>4. QED
      BY <1>1, <3>1, <3>2, <3>3
  <2>3. QED
    BY <2>1, <2>2
<1>7. Len(w) = Len(x) - 1
  BY <1>1, <1>5
<1>8. w = [i \in 1 .. Len(x) - 1 |-> IF i < m + 1 THEN x[i] ELSE x[i + 1]]
  BY <1>4, <1>5, <1>6, <1>7
<1>9. m + 1 \in 1 .. Len(x) /\ x[m + 1] = u[1]
  <2>1. m + 1 \in 1 .. m + n /\ ~(m + 1 <= m) /\ (m + 1) - m = 1
    BY <1>1
  <2>2. QED
    BY <1>1, <2>1
<1>10. QED
  BY <1>2, <1>8, <1>9 DEF w, x, v, m, Fleet!Without

\* The elements of u are elements of s, in the same order.
PartOf(u, s) ==
  \E f \in [1 .. Len(u) -> 1 .. Len(s)] :
    /\ \A k \in 1 .. Len(u) : u[k] = s[f[k]]
    /\ \A k, l \in 1 .. Len(u) : k < l => f[k] < f[l]

\* What is left when one element is taken out has the elements it had, at
\* places in the same order.
LEMMA WithoutOrder ==
  ASSUME NEW s \in Seq(Tasks), NEW i \in 1 .. Len(s), NEW u \in Seq(Tasks),
         u = Fleet!Without(s, i)
  PROVE  PartOf(u, s)
<1> DEFINE n == Len(s)
<1>1. n \in Nat /\ n - 1 \in Nat /\ i \in 1 .. n
  BY LenProperties
<1>2. u = [k \in 1 .. n - 1 |-> IF k < i THEN s[k] ELSE s[k + 1]]
  BY DEF Fleet!Without
<1> HIDE DEF n
<1>3. Len(u) = n - 1
  BY <1>1, <1>2, LenProperties
<1> DEFINE f == [k \in 1 .. n - 1 |-> IF k < i THEN k ELSE k + 1]
<1>4. f \in [1 .. n - 1 -> 1 .. n]
  BY <1>1
<1>5. \A k \in 1 .. n - 1 : u[k] = s[f[k]]
  BY <1>2
<1>6. \A k, l \in 1 .. n - 1 : k < l => f[k] < f[l]
  BY <1>1
<1>7. QED
  BY <1>3, <1>4, <1>5, <1>6 DEF n, PartOf

\* The same for a task that is submitted: the others keep their order.
LEMMA Inserted ==
  ASSUME NEW q \in Seq(Tasks), NEW t \in Tasks,
         NEW i \in 1 .. Len(Enqueued(q, t, TaskPriority)),
         NEW j \in 1 .. Len(Enqueued(q, t, TaskPriority)), i < j,
         Enqueued(q, t, TaskPriority)[i] # t,
         Enqueued(q, t, TaskPriority)[j] # t
  PROVE  \E k, l \in 1 .. Len(q) :
           /\ k < l
           /\ Enqueued(q, t, TaskPriority)[i] = q[k]
           /\ Enqueued(q, t, TaskPriority)[j] = q[l]
<1> DEFINE h == Ahead(q, t, TaskPriority)
           e == Enqueued(q, t, TaskPriority)
<1>1. h \in 0 .. Len(q) /\ Len(q) \in Nat
  BY AheadType, LenProperties
<1>2. /\ Len(e) = Len(q) + 1
      /\ e[h + 1] = t
      /\ \A k \in 1 .. h : e[k] = q[k]
      /\ \A k \in h + 2 .. Len(q) + 1 : e[k] = q[k - 1]
  BY EnqueuedProperties
<1>3. i \in 1 .. Len(e) /\ j \in 1 .. Len(e) /\ e[i] # t /\ e[j] # t
  OBVIOUS
<1> HIDE DEF h, e
<1> DEFINE from(k) == IF k <= h THEN k ELSE k - 1
<1>4. i # h + 1 /\ j # h + 1
  BY <1>2, <1>3
<1>5. /\ from(i) \in 1 .. Len(q) /\ e[i] = q[from(i)]
      /\ from(j) \in 1 .. Len(q) /\ e[j] = q[from(j)]
      /\ from(i) < from(j)
  BY <1>1, <1>2, <1>3, <1>4
<1> HIDE DEF from
<1>6. QED
  BY <1>5 DEF e

-----------------------------------------------------------------------------
(* What a step does to the waiting tasks *)

\* One waiting task is taken out; the others keep their order.
TakenOut == PartOf(Waiting', Waiting)

\* A task that does not wait yet is put in its place.
PutIn ==
  \E t \in Tasks :
    /\ Waiting \in Seq(Tasks)
    /\ \A i \in 1 .. Len(Waiting) : Waiting[i] # t
    /\ Waiting' = Enqueued(Waiting, t, TaskPriority)

InOrder == Sorted(Waiting, TaskPriority)

LEMMA WaitingType ==
  ASSUME TypeOK
  PROVE  Waiting \in Seq(Tasks)
BY ConcatProperties DEF Waiting, TypeOK

LEMMA SubmitPutsIn ==
  ASSUME TaskInv, NEW t \in Tasks, Submit(t)
  PROVE  /\ \A i \in 1 .. Len(Waiting) : Waiting[i] # t
         /\ Waiting' = Enqueued(Waiting, t, TaskPriority)
<1>1. queue \in Seq(Tasks)
  BY DEF TaskInv, TypeOK
<1>2. /\ deferred = <<>> /\ deferred' = <<>> /\ pc = "ready" /\ pc' = "ready"
      /\ queue' = Enqueued(queue, t, TaskPriority)
  BY DEF Submit, TaskInv, QueuesOnce, stepVars
<1>3. queue' \in Seq(Tasks)
  BY <1>1, <1>2, EnqueuedProperties
<1>4. Waiting = queue /\ Waiting' = queue'
  BY <1>1, <1>2, <1>3, ConcatEmptySeq DEF Waiting
<1>5. \A i \in 1 .. Len(queue) : queue[i] # t
  BY DEF Submit, Pending
<1>6. QED
  BY <1>2, <1>4, <1>5

LEMMA TimeoutEmpties ==
  ASSUME TaskInv, Timeout
  PROVE  queue' = <<>> /\ deferred' = <<>> /\ Waiting' = <<>>
<1>1. queue' = <<>> /\ deferred' = <<>>
  BY DEF Timeout, TaskInv, QueuesOnce
<1>2. <<>> \o <<>> = <<>>
  BY EmptySeq, ConcatEmptySeq
<1>3. QED
  BY <1>1, <1>2 DEF Waiting

\* The task an agent gets stands behind those that were set aside.
LEMMA AssignTakesOut ==
  ASSUME TaskInv, NEW a \in Agents, Assign(a)
  PROVE  /\ Len(deferred) + 1 \in 1 .. Len(Waiting)
         /\ Waiting = deferred \o queue
         /\ Waiting[Len(deferred) + 1] = Head(queue)
         /\ Waiting' = Fleet!Without(Waiting, Len(deferred) + 1)
<1>1. /\ queue # <<>> /\ queue' = Tail(queue)
      /\ UNCHANGED <<pc, deferred>> /\ pc \in {"dispatch", "drain"}
  BY DEF Assign, Popped
<1>2. queue \in Seq(Tasks) /\ deferred \in Seq(Tasks)
  BY DEF TaskInv, TypeOK
<1>3. Waiting = deferred \o queue /\ Waiting' = deferred \o Tail(queue)
  BY <1>1 DEF Waiting
<1>4. QED
  BY <1>1, <1>2, <1>3, HeadOut

LEMMA WaitingKept ==
  ASSUME TaskInv, InOrder, [Next]_vars
  PROVE  \/ Waiting' = Waiting
         \/ \E t \in Tasks : Submit(t)
         \/ Timeout
         \/ \E a \in Agents : Assign(a)
<1>1. queue \in Seq(Tasks) /\ deferred \in Seq(Tasks)
  BY DEF TaskInv, TypeOK
<1>2. ASSUME UNCHANGED <<queue, deferred>>,
             pc \in {"requeue", "resubmit"} <=> pc' \in {"requeue", "resubmit"}
      PROVE  Waiting' = Waiting
  BY <1>2 DEF Waiting
<1>6. CASE Defer
  <2>1. /\ queue # <<>> /\ queue' = Tail(queue) /\ UNCHANGED pc
        /\ deferred' = Append(deferred, Head(queue))
        /\ pc \in {"dispatch", "drain"}
    BY <1>6 DEF Defer, Popped
  <2>2. Append(deferred, Head(queue)) \o Tail(queue) = deferred \o queue
    BY <1>1, <2>1, MoveHead
  <2>3. QED
    BY <2>1, <2>2 DEF Waiting
<1>7. CASE Requeue
  <2>1. /\ queue = <<>> /\ UNCHANGED <<queue, deferred>>
    BY <1>7 DEF Requeue, queueVars
  <2>2. <<>> \o deferred = deferred /\ deferred \o <<>> = deferred
    BY <1>1, ConcatEmptySeq
  <2>3. QED
    BY <2>1, <2>2 DEF Waiting
<1>8. CASE Resubmit
  <2>1. /\ deferred # <<>> /\ deferred' = Tail(deferred) /\ UNCHANGED pc
        /\ queue' = Enqueued(queue, Head(deferred), TaskPriority)
        /\ pc \in {"requeue", "resubmit"}
    BY <1>8 DEF Resubmit
  <2>2. Head(deferred) \in Tasks /\ Head(deferred) = deferred[1]
          /\ 1 \in 1 .. Len(deferred)
    <3>1. Len(deferred) \in Nat \ {0}
      BY <1>1, <2>1, EmptySeq
    <3>2. QED
      BY <1>1, <2>1, <3>1, HeadTailProperties
  <2>3. \A i \in 1 .. Len(queue) :
          TaskPriority[queue[i]] >= TaskPriority[Head(deferred)]
    <3> SUFFICES ASSUME NEW i \in 1 .. Len(queue)
                 PROVE  TaskPriority[queue[i]] >= TaskPriority[Head(deferred)]
      OBVIOUS
    <3>1. Waiting = queue \o deferred
      BY <2>1 DEF Waiting
    <3>2. /\ i \in 1 .. Len(Waiting) /\ Waiting[i] = queue[i]
          /\ Len(queue) + 1 \in 1 .. Len(Waiting)
          /\ Waiting[Len(queue) + 1] = Head(deferred)
          /\ i < Len(queue) + 1
      BY <1>1, <2>2, <3>1, ConcatIndex
    <3>3. QED
      BY <3>2 DEF InOrder, Sorted
  <2>4. queue' = Append(queue, Head(deferred))
    <3>1. TaskPriority \in [Tasks -> Int]
      BY FleetAssumption
    <3>2. Enqueued(queue, Head(deferred), TaskPriority)
            = Append(queue, Head(deferred))
      BY <1>1, <2>2, <2>3, <3>1, EnqueuedLast
    <3>3. QED
      BY <2>1, <3>2
  <2>5. Append(queue, Head(deferred)) \o Tail(deferred) = queue \o deferred
    BY <1>1, <2>1, MoveHead
  <2>6. QED
    BY <2>1, <2>4, <2>5 DEF Waiting
<1>9. CASE EndDispatch
  <2>1. deferred = <<>> /\ UNCHANGED <<queue, deferred>>
    BY <1>9 DEF EndDispatch, queueVars
  <2>2. <<>> \o queue = queue /\ queue \o <<>> = queue
    BY <1>1, ConcatEmptySeq
  <2>3. QED
    BY <2>1, <2>2 DEF Waiting
<1>10. ASSUME BeginStep, pc \in {"ready", "first"}
       PROVE  Waiting' = Waiting
  BY <1>2, <1>10 DEF BeginStep, AfterObstacles, queueVars
<1>11. CASE External
  <2>1. CASE StartRun \/ SetLifecycle \/ (\E S, stopped : SetEstop(S, stopped))
             \/ (\E a, moving : Teleop(a, moving))
             \/ \E a : ToggleLock(a) \/ ToggleJam(a)
    BY <1>2, <2>1
    DEF StartRun, SetLifecycle, SetEstop, Teleop, ToggleLock, ToggleJam,
        queueVars, stepVars
  <2>2. CASE StepPaused
    BY <1>10, <2>2 DEF StepPaused
  <2>3. QED
    BY <1>11, <2>1, <2>2 DEF External
<1>12. CASE Step
  BY <1>10, <1>12 DEF Step
<1>13. CASE Obstacles
  BY <1>2, <1>13
  DEF Obstacles, KeepPlan, Replan, BlockedOut, ObstacleTurn, MoveOn,
      AfterObstacles, queueVars
<1>14. CASE Dispatch
  BY <1>6, <1>7, <1>8, <1>9, <1>14 DEF Dispatch
<1>15. ASSUME NEW a \in Agents, AgentTurn(a)
       PROVE  Waiting' = Waiting
  <2>1. Turn(a)
    BY <1>15
    DEF AgentTurn, SkipIdle, RejectStopped, LeaveToOperator, NoGoal, Yield,
        BeginExecution, WaitForCells, PlanFails, RestStill, Dwelling, Succeed,
        RejectLocked, DriveOn, StartRecovery, GiveUp, Driving, Moving,
        NeedsPlan, Going, Autonomous
  <2>2. QED
    BY <1>2, <2>1 DEF Turn, MoveOn, queueVars
<1>16. CASE UNCHANGED vars
  BY <1>2, <1>16 DEF vars, stepVars, queueVars
<1>17. QED
  BY <1>11, <1>12, <1>13, <1>14, <1>15, <1>16 DEF Next, Loop

LEMMA WaitingSteps ==
  ASSUME TaskInv, InOrder, [Next]_vars
  PROVE  Waiting' = Waiting \/ Waiting' = <<>> \/ TakenOut \/ PutIn
<1>1. Waiting \in Seq(Tasks) /\ Waiting' \in Seq(Tasks)
  <2>1. TypeOK'
    BY TypeStep DEF TaskInv
  <2>2. Waiting' \in Seq(Tasks)
    BY <2>1, ConcatProperties DEF Waiting, TypeOK
  <2>3. QED
    BY <2>2, WaitingType DEF TaskInv
<1>2. ASSUME NEW t \in Tasks, Submit(t)
      PROVE  PutIn
  BY <1>1, <1>2, SubmitPutsIn DEF PutIn
<1>3. ASSUME NEW a \in Agents, Assign(a)
      PROVE  TakenOut
  BY <1>1, <1>3, AssignTakesOut, WithoutOrder DEF TakenOut
<1>4. QED
  BY <1>2, <1>3, WaitingKept, TimeoutEmpties

-----------------------------------------------------------------------------
(* The order *)

LEMMA OrderStep == TaskInv /\ InOrder /\ [Next]_vars => InOrder'
<1> SUFFICES ASSUME TaskInv, InOrder, [Next]_vars
             PROVE  InOrder'
  OBVIOUS
<1>1. CASE Waiting' = Waiting
  BY <1>1 DEF InOrder
<1>2. CASE Waiting' = <<>>
  BY <1>2, EmptySeq DEF InOrder, Sorted
<1>3. CASE TakenOut
  BY <1>3 DEF TakenOut, PartOf, InOrder, Sorted
<1>4. CASE PutIn
  <2>1. PICK t \in Tasks : /\ Waiting \in Seq(Tasks)
                           /\ Waiting' = Enqueued(Waiting, t, TaskPriority)
    BY <1>4 DEF PutIn
  <2>2. TaskPriority \in [Tasks -> Int] /\ Sorted(Waiting, TaskPriority)
    BY FleetAssumption DEF InOrder
  <2>3. Sorted(Enqueued(Waiting, t, TaskPriority), TaskPriority)
    BY <2>1, <2>2, EnqueuedSorted
  <2>4. QED
    BY <2>1, <2>3 DEF InOrder, Sorted
<1>5. QED
  BY <1>1, <1>2, <1>3, <1>4, WaitingSteps

LEMMA OrderInit == Init => InOrder
<1>1. Init => queue \o deferred = <<>> /\ deferred \o queue = <<>>
  BY EmptySeq, ConcatEmptySeq DEF Init
<1>2. QED
  BY <1>1, EmptySeq DEF Init, InOrder, Sorted, Waiting

\* Of two waiting tasks the one with the higher priority is tried first, also
\* while the dispatcher holds tasks aside and while it submits them again.
THEOREM PriorityFirstHolds == Spec => []PriorityFirst
<1>1. InOrder => PriorityFirst
  BY DEF InOrder, Sorted, PriorityFirst, Before
<1>2. QED
  BY <1>1, OrderInit, OrderStep, TasksConsistent, PTL DEF Spec

\* Two tasks cannot each wait before the other.
LEMMA OneOrder ==
  ASSUME WaitsOnce, TypeOK, NEW t, NEW u, Before(t, u), Before(u, t)
  PROVE  FALSE
<1>1. PICK i \in 1 .. Len(Waiting), j \in 1 .. Len(Waiting) :
        i < j /\ Waiting[i] = t /\ Waiting[j] = u
  BY DEF Before
<1>2. PICK k \in 1 .. Len(Waiting), l \in 1 .. Len(Waiting) :
        k < l /\ Waiting[k] = u /\ Waiting[l] = t
  BY DEF Before
<1>3. j = k /\ i = l
  BY <1>1, <1>2 DEF WaitsOnce
<1>4. Len(Waiting) \in Nat
  BY WaitingType, LenProperties
<1>5. QED
  BY <1>1, <1>2, <1>3, <1>4

\* Tasks that wait never change places: being set aside and submitted again
\* costs a task nothing.
THEOREM OrderIsKept == Spec => OrderKept
<1>1. TaskInv /\ InOrder /\ WaitsOnce /\ [Next]_vars =>
        [\A t, u \in Tasks : Before(t, u) => ~Before(u, t)']_vars
  <2> SUFFICES ASSUME TaskInv, InOrder, WaitsOnce, [Next]_vars,
                      NEW t \in Tasks, NEW u \in Tasks,
                      Before(t, u), Before(u, t)'
               PROVE  FALSE
    OBVIOUS
  <2>1. PICK i \in 1 .. Len(Waiting'), j \in 1 .. Len(Waiting') :
          i < j /\ Waiting'[i] = u /\ Waiting'[j] = t
    BY DEF Before
  <2>2. CASE Waiting' = Waiting
    BY <2>1, <2>2, OneOrder DEF Before, TaskInv
  <2>3. CASE Waiting' = <<>>
    BY <2>1, <2>3, EmptySeq
  <2>4. CASE TakenOut
    <3>1. PICK f \in [1 .. Len(Waiting') -> 1 .. Len(Waiting)] :
            /\ \A k \in 1 .. Len(Waiting') : Waiting'[k] = Waiting[f[k]]
            /\ \A k, l \in 1 .. Len(Waiting') : k < l => f[k] < f[l]
      BY <2>4 DEF TakenOut, PartOf
    <3>2. /\ f[i] \in 1 .. Len(Waiting) /\ f[j] \in 1 .. Len(Waiting)
          /\ f[i] < f[j] /\ Waiting[f[i]] = u /\ Waiting[f[j]] = t
      BY <2>1, <3>1
    <3>3. Before(u, t)
      BY <3>2 DEF Before
    <3>4. QED
      BY <3>3, OneOrder DEF TaskInv
  <2>5. CASE PutIn
    <3>1. PICK v \in Tasks :
            /\ Waiting \in Seq(Tasks)
            /\ \A k \in 1 .. Len(Waiting) : Waiting[k] # v
            /\ Waiting' = Enqueued(Waiting, v, TaskPriority)
      BY <2>5 DEF PutIn
    <3>2. t # v /\ u # v
      BY <3>1 DEF Before
    <3>3. PICK k \in 1 .. Len(Waiting), l \in 1 .. Len(Waiting) :
            k < l /\ Waiting[k] = u /\ Waiting[l] = t
      BY <2>1, <3>1, <3>2, Inserted
    <3>4. Before(u, t)
      BY <3>3 DEF Before
    <3>5. QED
      BY <3>4, OneOrder DEF TaskInv
  <2>6. QED
    BY <2>2, <2>3, <2>4, <2>5, WaitingSteps
<1>2. QED
  BY <1>1, OrderInit, OrderStep, TasksConsistent, WaitsOnceHolds, PTL
  DEF Spec, OrderKept

-----------------------------------------------------------------------------
(* The list of the dispatcher *)

\* The tasks that no agent is free for.
Unplaced == {t \in Tasks : FreeFor(t) = {}}

NobodyFor(s) == \A i \in 1 .. Len(s) : s[i] \in Unplaced

\* What the dispatcher has found out, by phase.
SetAside ==
  /\ pc \in {"dispatch", "drain"} => NobodyFor(deferred)
  /\ pc \in {"requeue", "resubmit"} => NobodyFor(deferred) /\ NobodyFor(queue)
  /\ pc = "turns" /\ turn = 1 => NobodyFor(queue)

FleetInv == TaskInv /\ InOrder /\ SetAside

\* Giving an agent a task makes no agent free.
LEMMA AssignFrees ==
  ASSUME TaskInv, NEW a \in Agents, Assign(a)
  PROVE  Unplaced \subseteq Unplaced'
<1>1. Gets(a, Head(queue)) /\ UNCHANGED estop
  BY AssignGets DEF TaskInv, Assign, DispatchUnchanged
<1>2. Head(queue) # NoTask /\ \A t \in Tasks : TaskEligible[t] \subseteq Agents
  BY <1>1, FleetAssumption DEF Gets
<1>3. ASSUME NEW b \in Agents, task'[b] = NoTask
      PROVE  task[b] = NoTask
  BY <1>1, <1>2, <1>3 DEF Gets, TaskInv, TypeOK
<1>4. QED
  BY <1>1, <1>2, <1>3 DEF FreeFor, Unplaced

LEMMA UnplacedKept ==
  ASSUME UNCHANGED <<task, estop>>
  PROVE  Unplaced' = Unplaced
BY DEF Unplaced, FreeFor

LEMMA SetAsideDispatch ==
  ASSUME TaskInv, SetAside, Dispatch
  PROVE  SetAside'
<1>1. queue \in Seq(Tasks) /\ deferred \in Seq(Tasks)
  BY DEF TaskInv, TypeOK
<1>2. UNCHANGED estop
  BY DEF Dispatch, Assign, Defer, Requeue, Resubmit, EndDispatch,
         DispatchUnchanged
<1>3. ASSUME NEW a \in Agents, Assign(a)
      PROVE  SetAside'
  <2>1. pc \in {"dispatch", "drain"} /\ UNCHANGED <<pc, deferred>>
    BY <1>3 DEF Assign
  <2>2. Unplaced \subseteq Unplaced'
    BY <1>3, AssignFrees
  <2>3. QED
    BY <2>1, <2>2 DEF SetAside, NobodyFor
<1>4. CASE Defer
  <2>1. /\ pc \in {"dispatch", "drain"} /\ UNCHANGED <<pc, task>>
        /\ deferred' = Append(deferred, Head(queue))
        /\ Head(queue) \in Tasks /\ FreeFor(Head(queue)) = {}
    BY <1>1, <1>4, HeadTailProperties DEF Defer
  <2>2. NobodyFor(deferred)
    BY <2>1 DEF SetAside
  <2>3. /\ Len(deferred') = Len(deferred) + 1
        /\ \A i \in 1 .. Len(deferred) : deferred'[i] = deferred[i]
        /\ deferred'[Len(deferred) + 1] = Head(queue)
        /\ Len(deferred) \in Nat
    BY <1>1, <2>1, AppendProperties, LenProperties
  <2>4. Unplaced' = Unplaced /\ Head(queue) \in Unplaced
    BY <1>2, <2>1, UnplacedKept DEF Unplaced
  <2>5. QED
    BY <2>1, <2>2, <2>3, <2>4 DEF SetAside, NobodyFor
<1>5. CASE Requeue
  <2>1. /\ pc \in {"dispatch", "drain"} /\ pc' \in {"requeue", "resubmit"}
        /\ queue = <<>> /\ UNCHANGED <<queue, deferred, task>>
    BY <1>5 DEF Requeue, queueVars
  <2>2. Unplaced' = Unplaced
    BY <1>2, <2>1, UnplacedKept
  <2>3. QED
    BY <2>1, <2>2, EmptySeq DEF SetAside, NobodyFor
<1>6. CASE Resubmit
  <2> DEFINE t == Head(deferred)
  <2>1. /\ pc \in {"requeue", "resubmit"} /\ UNCHANGED <<pc, task>>
        /\ deferred # <<>> /\ deferred' = Tail(deferred)
        /\ queue' = Enqueued(queue, t, TaskPriority)
    BY <1>6 DEF Resubmit
  <2>2. NobodyFor(deferred) /\ NobodyFor(queue)
    BY <2>1 DEF SetAside
  <2>3. /\ t \in Tasks /\ t = deferred[1] /\ 1 \in 1 .. Len(deferred)
        /\ Len(deferred') = Len(deferred) - 1
        /\ \A i \in 1 .. Len(deferred') : deferred'[i] = deferred[i + 1]
        /\ Len(deferred) \in Nat
    <3>1. Len(deferred) \in Nat \ {0}
      BY <1>1, <2>1, EmptySeq, LenProperties
    <3>2. QED
      BY <1>1, <2>1, <3>1, HeadTailProperties
  <2> HIDE DEF t
  <2>4. \A i \in 1 .. Len(queue') :
          queue'[i] = t \/ \E j \in 1 .. Len(queue) : queue'[i] = queue[j]
    <3>1. \A i \in 1 .. Len(queue) : queue[i] # t
      BY <2>3 DEF TaskInv, QueuesOnce, Apart
    <3>2. Distinct(queue)
      BY DEF TaskInv, QueuesOnce
    <3>3. QED
      BY <1>1, <2>1, <2>3, <3>1, <3>2, EnqueuedOnce
  <2>5. Unplaced' = Unplaced
    BY <1>2, <2>1, UnplacedKept
  <2>6. NobodyFor(queue)'
    BY <2>2, <2>3, <2>4, <2>5 DEF NobodyFor
  <2>7. NobodyFor(deferred)'
    BY <2>2, <2>3, <2>5 DEF NobodyFor
  <2>8. QED
    BY <2>1, <2>6, <2>7 DEF SetAside
<1>7. CASE EndDispatch
  <2>1. /\ pc \in {"requeue", "resubmit"} /\ pc' \in {"turns", "first", "ready"}
        /\ UNCHANGED <<queue, task>>
    BY <1>7 DEF EndDispatch, queueVars
  <2>2. Unplaced' = Unplaced
    BY <1>2, <2>1, UnplacedKept
  <2>3. QED
    BY <2>1, <2>2 DEF SetAside, NobodyFor
<1>8. QED
  BY <1>3, <1>4, <1>5, <1>6, <1>7 DEF Dispatch

\* A step with an empty queue or local list has nobody to wait.
LEMMA SetAsideStep == FleetInv /\ [Next]_vars => SetAside'
<1> SUFFICES ASSUME FleetInv, [Next]_vars
             PROVE  SetAside'
  OBVIOUS
<1>1. pc \in {"ready", "first", "obstacles", "turns"} => deferred = <<>>
  BY DEF FleetInv, TaskInv, QueuesOnce
<1>2. NobodyFor(<<>>)
  BY EmptySeq DEF NobodyFor
<1>3. ASSUME UNCHANGED <<queue, deferred>>, deferred = <<>>,
             \/ pc' \in {"ready", "first", "obstacles", "dispatch", "drain"}
             \/ pc' = "turns" /\ (queue = <<>> \/ turn' # 1)
      PROVE  SetAside'
  BY <1>2, <1>3, EmptySeq DEF SetAside, NobodyFor
<1>4. CASE External
  <2>1. CASE \E t \in Tasks : Submit(t)
    BY <2>1 DEF Submit, stepVars, SetAside
  <2>2. CASE Timeout
    BY <2>2 DEF Timeout, SetAside
  <2>3. CASE StartRun
    BY <1>1, <1>3, <2>3 DEF StartRun, queueVars
  <2>4. CASE SetLifecycle
    BY <1>1, <1>3, <2>4 DEF SetLifecycle, queueVars
  <2>5. CASE \/ \E S, stopped : SetEstop(S, stopped)
             \/ \E a, moving : Teleop(a, moving)
             \/ \E a : ToggleLock(a) \/ ToggleJam(a)
    BY <1>1, <1>3, <2>5
    DEF SetEstop, Teleop, ToggleLock, ToggleJam, queueVars, stepVars
  <2>6. CASE StepPaused
    BY <1>1, <1>3, <2>6 DEF StepPaused, BeginStep, AfterObstacles, queueVars
  <2>7. QED
    BY <1>4, <2>1, <2>2, <2>3, <2>4, <2>5, <2>6 DEF External
<1>5. CASE Step
  BY <1>1, <1>3, <1>5 DEF Step, BeginStep, AfterObstacles, queueVars
<1>6. CASE Obstacles
  <2>1. PICK a \in Agents : ObstacleTurn(a)
    BY <1>6 DEF Obstacles, KeepPlan, Replan, BlockedOut
  <2>2. pc = "obstacles" /\ UNCHANGED <<queue, deferred>>
    BY <2>1 DEF ObstacleTurn, queueVars
  <2>3. pc' = "obstacles" \/ pc' = AfterObstacles
    BY <2>1, <2>2 DEF ObstacleTurn, MoveOn
  <2>4. QED
    BY <1>1, <1>3, <2>2, <2>3 DEF AfterObstacles
<1>7. CASE Dispatch
  BY <1>7, SetAsideDispatch DEF FleetInv
<1>8. ASSUME NEW a \in Agents, AgentTurn(a)
      PROVE  SetAside'
  <2>1. Turn(a)
    BY <1>8
    DEF AgentTurn, SkipIdle, RejectStopped, LeaveToOperator, NoGoal, Yield,
        BeginExecution, WaitForCells, PlanFails, RestStill, Dwelling, Succeed,
        RejectLocked, DriveOn, StartRecovery, GiveUp, Driving, Moving,
        NeedsPlan, Going, Autonomous
  <2>2. /\ pc = "turns" /\ UNCHANGED <<queue, deferred>>
        /\ pc' = "ready" \/ (pc' = "turns" /\ turn' = turn + 1)
    BY <2>1 DEF Turn, MoveOn, queueVars
  <2>3. turn \in Nat \ {0}
    BY FleetAssumption DEF FleetInv, TaskInv, TypeOK, Agents
  <2>4. QED
    BY <1>1, <1>3, <2>2, <2>3
<1>9. CASE UNCHANGED vars
  BY <1>9, UnplacedKept DEF vars, stepVars, queueVars, FleetInv, SetAside, NobodyFor
<1>10. QED
  BY <1>4, <1>5, <1>6, <1>7, <1>8, <1>9 DEF Next, Loop

\* The dispatcher's findings are right in every run.
THEOREM FleetConsistent == Spec => []FleetInv
<1>1. Init => FleetInv
  <2>1. Init => SetAside
    BY DEF Init, SetAside
  <2>2. QED
    BY <2>1, TaskInit, OrderInit DEF FleetInv
<1>2. FleetInv /\ [Next]_vars => FleetInv'
  BY TaskStep, OrderStep, SetAsideStep DEF FleetInv
<1>3. QED
  BY <1>1, <1>2, PTL DEF Spec

\* Whenever the agents' turns begin, no waiting task has an agent free for it,
\* however many tasks were set aside and submitted again.
THEOREM NoAgentLeftFreeHolds == Spec => []NoAgentLeftFree
<1>1. FleetInv => NoAgentLeftFree
  BY DEF FleetInv, SetAside, NobodyFor, Unplaced, NoAgentLeftFree
<1>2. QED
  BY <1>1, FleetConsistent, PTL

-----------------------------------------------------------------------------
(* The runtime implements FleetTasks *)

LEMMA SubmitAccepts ==
  ASSUME FleetInv, NEW t \in Tasks, Submit(t)
  PROVE  Fleet!Accept(t)
<1> DEFINE k == Ahead(Waiting, t, TaskPriority)
<1>1. /\ \A i \in 1 .. Len(Waiting) : Waiting[i] # t
      /\ Waiting' = Enqueued(Waiting, t, TaskPriority)
  BY SubmitPutsIn DEF FleetInv
<1>2. /\ Waiting \in Seq(Tasks) /\ Len(Waiting) \in Nat
      /\ TaskPriority \in [Tasks -> Int]
      /\ \A i \in 1 .. Len(Waiting) : Waiting[i] \in Tasks
  BY WaitingType, FleetAssumption, LenProperties, ElementOfSeq
  DEF FleetInv, TaskInv
<1>3. /\ k \in 0 .. Len(Waiting)
      /\ \A i \in 1 .. Len(Waiting) :
           i <= k <=> TaskPriority[Waiting[i]] >= TaskPriority[t]
  BY <1>2, AheadType, AheadOfSorted DEF FleetInv, InOrder
<1>4. Waiting' = Fleet!With(Waiting, k, t)
  BY <1>1 DEF Enqueued, Fleet!With
<1>5. record[t] = "none" /\ UNCHANGED <<record, task>>
  BY DEF Submit
<1> HIDE DEF k
<1>6. /\ \A i \in 1 .. k : TaskPriority[Waiting[i]] >= TaskPriority[t]
      /\ \A i \in k + 1 .. Len(Waiting) :
           TaskPriority[Waiting[i]] < TaskPriority[t]
  BY <1>2, <1>3
<1>7. QED
  BY <1>1, <1>3, <1>4, <1>5, <1>6 DEF Fleet!Accept, Fleet!InLine

\* Those before the popped task in line were set aside, with nobody free; so
\* the agent that is free now may not take them.
LEMMA AssignGives ==
  ASSUME FleetInv, NEW a \in Agents, Assign(a)
  PROVE  Fleet!Give(Len(deferred) + 1, a)
<1> DEFINE k == Len(deferred) + 1
<1>1. /\ k \in 1 .. Len(Waiting) /\ Waiting = deferred \o queue
      /\ Waiting[k] = Head(queue) /\ Waiting' = Fleet!Without(Waiting, k)
  BY AssignTakesOut DEF FleetInv
<1>2. Gets(a, Head(queue))
  BY AssignGets DEF FleetInv, TaskInv
<1>3. a \in TaskEligible[Head(queue)] /\ ~estop[a] /\ task[a] = NoTask
  BY DEF Assign, Nearest, FreeFor
<1>4. ASSUME NEW j \in 1 .. k - 1
      PROVE  a \notin TaskEligible[Waiting[j]]
  <2>1. queue \in Seq(Tasks) /\ deferred \in Seq(Tasks)
    BY DEF FleetInv, TaskInv, TypeOK
  <2>2. j \in 1 .. Len(deferred) /\ Waiting[j] = deferred[j]
    BY <1>1, <2>1, ConcatIndex
  <2>3. deferred[j] \in Unplaced
    BY <2>2 DEF FleetInv, SetAside, NobodyFor, Assign
  <2>4. QED
    BY <1>3, <2>2, <2>3 DEF Unplaced, FreeFor
<1> HIDE DEF k
<1>5. Fleet!Give(k, a)
  BY <1>1, <1>2, <1>3, <1>4 DEF Fleet!Give, Gets
<1>6. QED
  BY <1>5 DEF k

LEMMA TimeoutAbandons ==
  ASSUME FleetInv, Timeout
  PROVE  Fleet!Abandon
<1>1. Waiting' = <<>> /\ deferred = <<>>
  BY TimeoutEmpties DEF FleetInv, TaskInv, QueuesOnce, Timeout
<1>2. Waiting = queue
  BY <1>1, ConcatEmptySeq DEF Waiting, FleetInv, TaskInv, TypeOK
<1>3. \A t \in Tasks : Unfinished(t) <=> Fleet!InLine(t) \/ Fleet!Held(t)
  BY <1>2 DEF Unfinished, Pending, Fleet!InLine, Fleet!Held
<1>4. QED
  BY <1>1, <1>3 DEF Timeout, Fleet!Abandon

\* An agent that begins with its task starts it; one that ends it finishes it.
LEMMA BeginsStarts ==
  ASSUME FleetInv, NEW a \in Agents, Begins(a), Waiting' = Waiting
  PROVE  Fleet!Start(a)
<1>1. record[task[a]] = "assigned"
  BY DEF Begins, FleetInv, TaskInv, AgentsAgree, RecordsAgree
<1>2. QED
  BY <1>1 DEF Begins, Fleet!Start

LEMMA EndsFinishes ==
  ASSUME FleetInv, NEW a \in Agents, Ends(a), Waiting' = Waiting
  PROVE  \E outcome \in {"succeeded", "failed"} : Fleet!Finish(a, outcome)
<1>1. PICK outcome \in {"succeeded", "failed"} :
        /\ outcome = "succeeded" => bstate[a] \in OnTask
        /\ record' = [record EXCEPT ![task[a]] = outcome]
  BY DEF Ends
<1>2. bstate[a] \in OnTask => record[task[a]] = "executing"
  BY DEF Ends, FleetInv, TaskInv, AgentsAgree, RecordsAgree
<1>3. QED
  BY <1>1, <1>2 DEF Ends, Fleet!Finish

\* What any other action does to the tasks.
LEMMA QuietOrOneAgent ==
  ASSUME TaskInv, [Next]_vars
  PROVE  \/ UNCHANGED <<task, record>>
         \/ \E a \in Agents : Begins(a) \/ Ends(a)
         \/ \E t \in Tasks : Submit(t)
         \/ Timeout
         \/ \E a \in Agents : Assign(a)
<1>1. CASE External
  BY <1>1
  DEF External, StartRun, SetLifecycle, SetEstop, Teleop, ToggleLock, ToggleJam,
      StepPaused, BeginStep
<1>2. CASE Step
  BY <1>2 DEF Step, BeginStep
<1>3. CASE Obstacles
  BY <1>3, ObstaclesDo DEF Obstacles, TaskInv, Keeps
<1>4. CASE Dispatch
  BY <1>4 DEF Dispatch, Defer, Requeue, Resubmit, EndDispatch
<1>5. ASSUME NEW a \in Agents, AgentTurn(a)
      PROVE  UNCHANGED <<task, record>> \/ Begins(a) \/ Ends(a)
  BY <1>5, AgentTurnDoes DEF TaskInv, Keeps
<1>6. CASE UNCHANGED vars
  BY <1>6 DEF vars
<1>7. QED
  BY <1>1, <1>2, <1>3, <1>4, <1>5, <1>6 DEF Next, Loop

LEMMA FleetStep ==
  ASSUME FleetInv, [Next]_vars
  PROVE  [Fleet!Next]_<<Waiting, record, task>>
<1>1. CASE \E t \in Tasks : Submit(t)
  BY <1>1, SubmitAccepts DEF Fleet!Next
<1>2. CASE Timeout
  BY <1>2, TimeoutAbandons DEF Fleet!Next
<1>3. ASSUME NEW a \in Agents, Assign(a)
      PROVE  Fleet!Next
  <2>1. Len(deferred) + 1 \in 1 .. Len(Waiting)
    BY <1>3, AssignTakesOut DEF FleetInv
  <2>2. QED
    BY <1>3, <2>1, AssignGives DEF Fleet!Next
<1>4. ASSUME Waiting' = Waiting
      PROVE  [Fleet!Next]_<<Waiting, record, task>>
             \/ (\E t \in Tasks : Submit(t)) \/ Timeout
             \/ \E a \in Agents : Assign(a)
  <2>1. ASSUME NEW a \in Agents, Begins(a)
        PROVE  Fleet!Next
    BY <1>4, <2>1, BeginsStarts DEF Fleet!Next
  <2>2. ASSUME NEW a \in Agents, Ends(a)
        PROVE  Fleet!Next
    BY <1>4, <2>2, EndsFinishes DEF Fleet!Next
  <2>3. QED
    BY <1>4, <2>1, <2>2, QuietOrOneAgent DEF FleetInv
<1>5. QED
  BY <1>1, <1>2, <1>3, <1>4, WaitingKept DEF FleetInv

\* Every run of the runtime loop is a run of FleetTasks: tasks are served in
\* line, and end once.
THEOREM RuntimeImplementsFleet == Spec => TasksImplemented
<1>1. Init => Fleet!Init
  <2>1. Init => deferred \o queue = <<>>
    BY EmptySeq, ConcatEmptySeq DEF Init
  <2>2. QED
    BY <2>1 DEF Init, Waiting, Fleet!Init
<1>2. FleetInv /\ [Next]_vars => [Fleet!Next]_(Fleet!vars)
  BY FleetStep DEF Fleet!vars
<1>3. QED
  BY <1>1, <1>2, FleetConsistent, PTL DEF Spec, TasksImplemented, Fleet!Spec

=============================================================================
