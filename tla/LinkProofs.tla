------------------------------ MODULE LinkProofs ------------------------------
(***************************************************************************)
(* Proofs about what links the runtime to the world outside it: commands   *)
(* of a robot, the ROS graph, planning calls to Nav2, the events a client  *)
(* follows, and the runs a benchmark suite scores.  They share nothing.    *)
(***************************************************************************)
EXTENDS CommandPath, RosGraph, Nav2Path, EventTail, Benchmarks,
        FiniteSetTheorems, SequenceTheorems, TLAPS

-----------------------------------------------------------------------------
(* Commands: the stops of CommandPath hold for every timeout, hold and lock; *)
(* those of the watchdog as long as no two polls are too far apart for it.   *)

LEMMA TypeInit == Init => TypeOK
<1>1. NoLock \in LockRecord
  BY DEF NoLock, LockRecord, AuthorityModes
<1>2. 0 \in 0 .. Timeout + 1 /\ 0 \in 0 .. Stall /\ 0 \in Nat
  BY PathAssumption
<1>3. QED
  BY <1>1, <1>2, Zenon DEF Init, TypeOK

\* The turns that ask no controller and do not end the task.
StandingTurn ==
  NoTurn \/ RejectStopped \/ LeaveToOperator \/ NoGoal \/ BeginExecution

\* Nothing but the agent's turn ends a turn.
LEMMA TurnEnds ==
  ASSUME [Next]_vars, pc = "turn", pc' = "ready"
  PROVE  StandingTurn \/ Rest \/ Drive
BY DEF Next, External, Teleop, SetEstop, SetGateStop, LockAuthority,
       ClearAuthorityLock, Drain, RunTimesOut, Operator, Step, StandingTurn,
       ReplanFails, Dispatch, Poll, WallTick, vars

LEMMA TypeStep == TypeOK /\ [Next]_vars => TypeOK'
<1> SUFFICES ASSUME TypeOK, [Next]_vars
             PROVE  TypeOK'
  OBVIOUS
<1> USE PathAssumption
<1>1. CASE External
  <2>1. ASSUME NEW velocity \in {"teleop", "zero", "nan"}, NEW time \in Holds,
               Teleop(velocity, time)
        PROVE  TypeOK'
    BY <2>1 DEF Teleop, Operator, Accepts, Apply, gate, TypeOK
  <2>2. ASSUME NEW stopped \in BOOLEAN,
               SetEstop(stopped) \/ SetGateStop(stopped)
        PROVE  TypeOK'
    BY <2>2 DEF SetEstop, SetGateStop, Operator, gate, actuator, TypeOK
  <2>3. ASSUME NEW mode \in AuthorityModes, NEW time \in LockTimes,
               LockAuthority(mode, time)
        PROVE  TypeOK'
    BY <2>3 DEF LockAuthority, Operator, actuator, TypeOK, LockRecord
  <2>4. CASE ClearAuthorityLock
    BY <2>4 DEF ClearAuthorityLock, Operator, actuator, TypeOK, LockRecord,
                AuthorityModes, NoLock
  <2>5. CASE Drain \/ RunTimesOut
    BY <2>5 DEF Drain, RunTimesOut, gate, actuator, TypeOK
  <2>6. QED
    BY <1>1, <2>1, <2>2, <2>3, <2>4, <2>5 DEF External
<1>2. CASE Poll
  <2>1. LockAged \in LockRecord
    BY DEF LockAged, TypeOK, LockRecord, AuthorityModes, NoLock
  <2>2. Sooner(hold) \in Nat
    BY DEF Sooner, TypeOK
  <2>3. StillTripped \in BOOLEAN
    BY DEF StillTripped, Expired, TypeOK
  <2>4. QED
    <3>1. 0 \in 0 .. Stall
      OBVIOUS
    <3>2. \/ setpoint' = setpoint /\ commanded' = commanded /\ age' = age
             /\ estop' = estop
          \/ StopRobot /\ estop' = TRUE
      BY <1>2 DEF Poll, actuator
    <3>3. /\ setpoint' \in {"zero", "auto", "teleop"}
          /\ commanded' \in BOOLEAN /\ age' \in 0 .. Timeout + 1
          /\ estop' \in BOOLEAN
      BY <3>2, Zenon DEF StopRobot, TypeOK
    <3>4. QED
      BY <1>2, <2>1, <2>2, <2>3, <3>1, <3>3, Zenon DEF Poll, TypeOK
<1>3. CASE ReplanFails \/ Dispatch
  <2>1. CASE ReplanFails
    BY <2>1 DEF ReplanFails, StopRobot, gate, TypeOK
  <2>2. CASE Dispatch
    <3>1. work' \in {"none", "new", "aimless", "planned"}
      BY <2>2 DEF Dispatch, TypeOK
    <3>2. QED
      BY <2>2, <3>1, Zenon DEF Dispatch, gate, actuator, TypeOK
  <2>3. QED
    BY <1>3, <2>1, <2>2
<1>4. CASE StandingTurn \/ Rest
  BY <1>4 DEF StandingTurn, NoTurn, RejectStopped, LeaveToOperator, NoGoal,
              BeginExecution, Rest, EndTurn, StopRobot, gate, actuator, TypeOK
<1>5. CASE Drive
  <2>0. latest' \in {"none"} \cup Twists
    BY <1>5, Zenon DEF Drive, Spun, TypeOK
  <2>1. EndTurn /\ (Apply("auto") \/ Apply("zero") \/ StopRobot)
    BY <1>5, <2>0 DEF Drive, Reject, Accepts, Chosen
  <2>2. work' \in {"none", "new", "aimless", "planned"}
    <3>1. work' = work \/ work' = "none"
      BY <1>5, Zenon DEF Drive, Reject
    <3>2. QED
      BY <3>1 DEF TypeOK
  <2>3. age' \in 0 .. Timeout + 1 /\ commanded' \in BOOLEAN
    <3>1. 0 \in 0 .. Timeout + 1
      OBVIOUS
    <3>2. QED
      BY <2>1, <3>1, Zenon DEF Apply, StopRobot, TypeOK
  <2>4. QED
    <3>1. setpoint' \in {"zero", "auto", "teleop"}
      BY <2>1, Zenon DEF Apply, StopRobot
    <3>2. QED
      BY <2>0, <2>1, <2>2, <2>3, <3>1, Zenon DEF EndTurn, gate, TypeOK
<1>6. CASE WallTick
  BY <1>6 DEF WallTick, Older, gate, TypeOK
<1>7. CASE UNCHANGED vars
  BY <1>7 DEF vars, TypeOK
<1>8. QED
  BY <1>1, <1>2, <1>3, <1>4, <1>5, <1>6, <1>7 DEF Next, Step, StandingTurn

\* The robot moves only when commanded, and by the operator during a hold.
Moves ==
  /\ setpoint # "zero" => commanded
  /\ hold > 0 => setpoint # "auto"

\* What the watchdog believes to be stale and moves nevertheless was commanded
\* since the last poll.
Believed == tripped /\ setpoint # "zero" => age <= gap

ActuatorInv == TypeOK /\ Moves /\ Believed

LEMMA ActuatorInit == Init => ActuatorInv
BY TypeInit DEF Init, ActuatorInv, Moves, Believed

\* What every step of the loop and its callers leaves or does to the actuator.
LEMMA ActuatorStep ==
  ASSUME TypeOK, [Next]_vars, ~Poll, ~WallTick
  PROVE  /\ gap' = gap /\ tripped' = tripped
         /\ \/ UNCHANGED actuator /\ hold' = hold
            \/ StopRobot /\ hold' = hold
            \/ /\ commanded' = TRUE /\ age' = 0
               /\ \/ setpoint' # "auto"
                  \/ hold' = 0
<1>1. CASE External
  BY <1>1 DEF External, Teleop, SetEstop, SetGateStop, LockAuthority,
              ClearAuthorityLock, Drain, RunTimesOut, Operator, Apply
<1>2. CASE ReplanFails \/ Dispatch
  BY <1>2 DEF ReplanFails, Dispatch
<1>3. CASE StandingTurn \/ Rest
  BY <1>3 DEF StandingTurn, NoTurn, RejectStopped, LeaveToOperator, NoGoal,
              BeginExecution, Rest, EndTurn
<1>4. CASE Drive
  BY <1>4 DEF Drive, Reject, Apply, EndTurn, Autonomous
<1>5. CASE UNCHANGED vars
  BY <1>5 DEF vars, actuator
<1>6. QED
  BY <1>1, <1>2, <1>3, <1>4, <1>5 DEF Next, Step, StandingTurn

LEMMA MovesStep ==
  ASSUME TypeOK, Moves, [Next]_vars
  PROVE  Moves'
<1>1. CASE Poll
  BY <1>1 DEF Poll, StopRobot, actuator, Sooner, Moves, TypeOK
<1>2. CASE WallTick
  BY <1>2 DEF WallTick, Moves
<1>3. CASE ~Poll /\ ~WallTick
  <2>1. CASE UNCHANGED actuator /\ hold' = hold
    BY <2>1, Zenon DEF actuator, Moves
  <2>2. CASE StopRobot /\ hold' = hold
    BY <2>2, Zenon DEF StopRobot, Moves
  <2>3. CASE commanded' = TRUE /\ setpoint' # "auto"
    BY <2>3, Zenon DEF Moves
  <2>4. CASE commanded' = TRUE /\ hold' = 0
    <3>1. ~(hold' > 0)
      BY <2>4
    <3>2. QED
      BY <2>4, <3>1, Zenon DEF Moves
  <2>5. QED
    BY <1>3, <2>1, <2>2, <2>3, <2>4, ActuatorStep
<1>4. QED
  BY <1>1, <1>2, <1>3

\* The first poll after a command is never later than the timeout, and forgets
\* that the watchdog has tripped.
LEMMA BelievedStep ==
  ASSUME ActuatorInv, [Next]_vars, Stall <= Timeout
  PROVE  Believed'
<1>1. age \in Nat /\ gap \in Nat /\ gap <= Stall /\ Stall \in Nat /\ Timeout \in Nat
  BY PathAssumption DEF ActuatorInv, TypeOK
<1>2. CASE Poll
  <2>1. ~(Expired /\ tripped /\ setpoint # "zero")
    BY <1>1 DEF ActuatorInv, Believed, Expired
  <2>2. tripped' = TRUE => setpoint' = "zero"
    BY <1>2, <2>1 DEF Poll, StillTripped, StopRobot, actuator, Expired
  <2>3. tripped' \in BOOLEAN
    BY TypeStep DEF ActuatorInv, TypeOK
  <2>4. QED
    BY <2>2, <2>3 DEF Believed
<1>3. CASE WallTick
  BY <1>1, <1>3 DEF WallTick, Older, ActuatorInv, Believed
<1>4. CASE ~Poll /\ ~WallTick
  <2>1. gap' = gap /\ tripped' = tripped /\ TypeOK
    BY <1>4, ActuatorStep DEF ActuatorInv
  <2>2. CASE UNCHANGED actuator
    BY <2>1, <2>2, Zenon DEF actuator, ActuatorInv, Believed
  <2>3. CASE setpoint' = "zero"
    BY <2>3 DEF Believed
  <2>4. CASE age' = 0
    BY <1>1, <2>1, <2>4 DEF Believed
  <2>5. QED
    BY <1>4, <2>1, <2>2, <2>3, <2>4, ActuatorStep DEF StopRobot
<1>5. QED
  BY <1>2, <1>3, <1>4

\* If wall time between two polls stays within the timeout, a poll that finds
\* the commands stale leaves the robot stopped: the rising edge is not missed.
THEOREM StaleIsStopped ==
  ASSUME Stall <= Timeout
  PROVE  Spec => PollStopsStale
<1>1. ActuatorInv /\ [Next]_vars => ActuatorInv'
  BY TypeStep, MovesStep, BelievedStep DEF ActuatorInv
<1>2. ASSUME ActuatorInv, [Next]_vars
      PROVE  pc = "ready" /\ pc' = "polled" /\ Expired => setpoint' = "zero"
  <2> SUFFICES ASSUME pc = "ready", pc' = "polled", Expired
               PROVE  setpoint' = "zero"
    OBVIOUS
  <2>1. Poll
    BY <1>2 DEF Next, External, Teleop, SetEstop, SetGateStop, LockAuthority,
                ClearAuthorityLock, Drain, RunTimesOut, Operator, Step,
                ReplanFails, Dispatch, NoTurn, RejectStopped, LeaveToOperator,
                NoGoal, BeginExecution, Rest, Drive, EndTurn, WallTick, vars
  <2>2. tripped => setpoint = "zero"
    BY <1>2, PathAssumption DEF ActuatorInv, Believed, Expired, TypeOK
  <2>3. QED
    BY <1>2, <2>1, <2>2 DEF Poll, StopRobot, actuator, ActuatorInv, TypeOK
<1>3. QED
  BY ActuatorInit, <1>1, <1>2, PTL DEF Spec, PollStopsStale

\* The variables keep their types: ages and gaps stay within their bounds.
THEOREM CommandTypeCorrect == Spec => []TypeOK
<1>1. QED
  BY TypeInit, TypeStep, PTL DEF Spec

LEMMA MovesAlways == Spec => [](TypeOK /\ Moves)
<1>1. Init => TypeOK /\ Moves
  BY ActuatorInit DEF ActuatorInv
<1>2. TypeOK /\ Moves /\ [Next]_vars => (TypeOK /\ Moves)'
  BY TypeStep, MovesStep
<1>3. QED
  BY <1>1, <1>2, PTL DEF Spec

\* However an agent came to be barred - stopped, held, locked, in any order and
\* at any point of a step - its turn leaves it without autonomous velocity, but
\* for a turn that begins an execution, or has no goal: these leave it the
\* velocity it had.
THEOREM BarredAgentsAreStill == Spec => BarredIsStill
<1>1. ASSUME TypeOK, Moves, [Next]_vars
      PROVE  pc = "turn" /\ pc' = "ready" /\ Tasked /\ Barred
               => \/ setpoint' # "auto"
                  \/ (BeginExecution \/ NoGoal) /\ setpoint' = setpoint
  <2> SUFFICES ASSUME pc = "turn", pc' = "ready", Tasked, Barred
               PROVE  \/ setpoint' # "auto"
                      \/ (BeginExecution \/ NoGoal) /\ setpoint' = setpoint
    OBVIOUS
  <2>1. StandingTurn \/ Rest \/ Drive
    BY <1>1, TurnEnds
  <2>2. CASE LeaveToOperator
    BY <1>1, <2>2 DEF LeaveToOperator, actuator, Moves
  <2>3. CASE NoTurn \/ RejectStopped \/ Rest
    BY <2>3 DEF NoTurn, RejectStopped, Rest, StopRobot
  <2>4. CASE BeginExecution \/ NoGoal
    BY <2>4 DEF BeginExecution, NoGoal, actuator
  <2>5. CASE Drive
    <3>1. ~estop /\ hold = 0
      BY <2>5 DEF Drive, Autonomous
    <3>2. ~(hold > 0)
      BY <3>1
    <3>3. gateStop \/ Outranked("autonomy")
      BY <3>1, <3>2, Zenon DEF Barred
    <3>4. ~Accepts("autonomy", Chosen(latest'))
      BY <3>3, Zenon DEF Accepts
    <3>5. QED
      BY <2>5, <3>4 DEF Drive, Reject, StopRobot
  <2>6. QED
    BY <2>1, <2>2, <2>3, <2>4, <2>5 DEF StandingTurn
<1>2. QED
  BY <1>1, MovesAlways, PTL DEF Spec, BarredIsStill

\* After a turn with a bad velocity of Nav2, new or kept, the robot is at rest -
\* unless the turn asked no controller, and left it the velocity it had.
THEOREM BadTwistIsStopped == Spec => BadTwistStops
<1>1. ASSUME [Next]_vars, pc = "turn", pc' = "ready", Autonomous,
             latest' = "nan"
      PROVE  \/ setpoint' = "zero"
             \/ (BeginExecution \/ NoGoal) /\ setpoint' = setpoint
  <2>1. StandingTurn \/ Rest \/ Drive
    BY <1>1, TurnEnds
  <2>2. CASE NoTurn \/ LeaveToOperator
    BY <1>1, <2>2 DEF NoTurn, LeaveToOperator, Autonomous
  <2>3. CASE RejectStopped \/ Rest
    BY <2>3 DEF RejectStopped, Rest, StopRobot
  <2>4. CASE BeginExecution \/ NoGoal
    BY <2>4 DEF BeginExecution, NoGoal, actuator
  <2>5. CASE Drive
    <3>1. ~Accepts("autonomy", Chosen(latest'))
      BY <1>1 DEF Accepts, Chosen
    <3>2. QED
      BY <2>5, <3>1 DEF Drive, Reject, StopRobot
  <2>6. QED
    BY <2>1, <2>2, <2>3, <2>4, <2>5 DEF StandingTurn
<1>2. QED
  BY <1>1, PTL DEF Spec, BadTwistStops

\* The gate's own stop binds operators and autonomy alike.
THEOREM GateStopIsFinal == Spec => GateStopBars
<1>1. [Next]_vars => (gateStop /\ setpoint = "zero" => setpoint' = "zero")
  BY DEF Next, External, Teleop, SetEstop, SetGateStop, LockAuthority,
         ClearAuthorityLock, Drain, RunTimesOut, Operator, Step, Poll,
         ReplanFails, Dispatch, NoTurn, RejectStopped, LeaveToOperator, NoGoal,
         BeginExecution, Rest, Drive, EndTurn, Reject, Accepts, StopRobot, actuator, WallTick, vars
<1>2. QED
  BY <1>1, PTL DEF Spec, GateStopBars

\* No hold is so long that the polls left in it can be spread over more wall
\* time than the watchdog allows.
HoldsAreShort == \A h \in Holds : h * Stall <= Timeout

\* While a hold lasts, the operator's last command has not gone stale and will
\* not before the last poll of the hold: each poll that is left may come Stall
\* ticks after the one before it.
HoldIsFresh == hold > 0 => commanded /\ age + hold * Stall <= Timeout + gap

LEMMA NatProduct == \A m, n \in Nat : m * n \in Nat
OBVIOUS

LEMMA HoldIsFreshStep ==
  ASSUME TypeOK, HoldIsFresh, [Next]_vars, HoldsAreShort
  PROVE  HoldIsFresh'
<1>1. /\ age \in Nat /\ gap \in Nat /\ gap <= Stall /\ hold \in Nat
      /\ Stall \in Nat /\ Timeout \in Nat /\ hold * Stall \in Nat
  BY PathAssumption, NatProduct DEF TypeOK
<1>2. CASE Poll
  <2>1. hold' = Sooner(hold) /\ gap' = 0 /\ UNCHANGED <<commanded, age>>
    BY <1>2 DEF Poll, StopRobot, actuator
  <2>2. SUFFICES ASSUME hold' > 0
                 PROVE  commanded' /\ age' + hold' * Stall <= Timeout + gap'
    BY DEF HoldIsFresh
  <2>3. hold > 0 /\ hold' = hold - 1
    BY <1>1, <2>1, <2>2 DEF Sooner
  <2>4. hold' * Stall = hold * Stall - Stall
    BY <1>1, <2>3
  <2>5. QED
    BY <1>1, <2>1, <2>3, <2>4 DEF HoldIsFresh
<1>3. CASE WallTick
  <2>1. /\ gap' = gap + 1 /\ hold' = hold /\ commanded' = commanded
        /\ commanded => age' = age \/ age' = age + 1
    BY <1>3 DEF WallTick, Older
  <2>2. hold' * Stall = hold * Stall
    BY <2>1
  <2>3. QED
    BY <1>1, <2>1, <2>2 DEF HoldIsFresh
<1>4. CASE \E velocity \in {"teleop", "zero", "nan"}, time \in Holds :
             Teleop(velocity, time)
  <2>1. hold' \in Holds /\ commanded' /\ age' = 0 /\ gap' = gap
    BY <1>4 DEF Teleop, Operator, Apply
  <2>2. hold' * Stall <= Timeout
    BY <2>1 DEF HoldsAreShort
  <2>3. hold' \in Nat /\ 0 + hold' * Stall = hold' * Stall
    BY <1>1, <2>1, PathAssumption
  <2>4. age' + hold' * Stall <= Timeout
    BY <2>1, <2>2, <2>3
  <2>5. hold' * Stall \in Nat
    BY <1>1, <2>3, NatProduct, Zenon
  <2>6. age' + hold' * Stall <= Timeout + gap'
    BY <1>1, <2>1, <2>4, <2>5
  <2>7. QED
    BY <2>1, <2>6, Zenon DEF HoldIsFresh
<1>5. CASE Drive
  <2>1. hold' = 0
    BY <1>5 DEF Drive, Autonomous, EndTurn
  <2>2. QED
    BY <2>1 DEF HoldIsFresh
<1>6. CASE UNCHANGED <<commanded, age, hold, gap>>
  BY <1>6 DEF HoldIsFresh
<1>7. QED
  <2>1. CASE External
    BY <2>1, <1>4, <1>6 DEF External, SetEstop, SetGateStop, LockAuthority,
       ClearAuthorityLock, Drain, RunTimesOut, Operator, actuator
  <2>2. CASE ReplanFails \/ Dispatch
    BY <2>2, <1>6 DEF ReplanFails, Dispatch, StopRobot, actuator
  <2>3. CASE StandingTurn \/ Rest
    BY <2>3, <1>6 DEF StandingTurn, NoTurn, RejectStopped, LeaveToOperator,
       NoGoal, BeginExecution, Rest, EndTurn, StopRobot, actuator
  <2>4. CASE UNCHANGED vars
    BY <2>4, <1>6 DEF vars
  <2>5. QED
    BY <1>2, <1>3, <1>5, <2>1, <2>2, <2>3, <2>4 DEF Next, Step, StandingTurn

\* If every hold is over before a command can go stale, the hold is respected:
\* no step changes the operator's velocity while it lasts, unless a replan of the
\* agent's task fails, nor does the watchdog end it in an emergency stop.
THEOREM HoldsAreRetained ==
  ASSUME HoldsAreShort
  PROVE  Spec => HoldRetained
<1>1. Init => TypeOK /\ HoldIsFresh
  BY TypeInit DEF Init, HoldIsFresh
<1>2. TypeOK /\ HoldIsFresh /\ [Next]_vars => (TypeOK /\ HoldIsFresh)'
  BY TypeStep, HoldIsFreshStep
<1>3. ASSUME TypeOK, HoldIsFresh, Step, hold > 0, ~estop
      PROVE  ~estop' /\ (hold' > 0 => setpoint' = setpoint \/ ReplanFails)
  <2>1. Poll \/ ReplanFails \/ Dispatch \/ StandingTurn \/ Rest \/ Drive
    BY <1>3 DEF Step, StandingTurn
  <2>2. CASE Poll
    <3>1. /\ age \in Nat /\ gap <= Stall /\ hold \in Nat /\ gap \in Nat
          /\ Stall \in Nat /\ Timeout \in Nat
      BY <1>3, PathAssumption DEF TypeOK
    <3>2. hold * Stall = Stall + (hold - 1) * Stall
      BY <3>1
    <3>3. (hold - 1) * Stall \in Nat
      <4>1. hold - 1 \in Nat
        BY <1>3, <3>1
      <4>2. QED
        BY <3>1, <4>1, NatProduct, Zenon
    <3>4. age + hold * Stall <= Timeout + gap
      BY <1>3 DEF HoldIsFresh
    <3>5. ~Expired
      <4> HIDE DEF HoldIsFresh
      <4> QED  BY <3>1, <3>2, <3>3, <3>4 DEF Expired
    <3>6. QED
      BY <1>3, <2>2, <3>5, Zenon DEF Poll, actuator
  <2>3. CASE ReplanFails
    BY <1>3, <2>3 DEF ReplanFails
  <2>4. CASE Dispatch \/ NoTurn \/ LeaveToOperator
    BY <1>3, <2>4 DEF Dispatch, NoTurn, LeaveToOperator, EndTurn, actuator
  <2>5. CASE RejectStopped
    BY <1>3, <2>5 DEF RejectStopped
  <2>6. CASE NoGoal \/ BeginExecution \/ Rest \/ Drive
    BY <1>3, <2>6 DEF NoGoal, BeginExecution, Rest, Drive, Autonomous
  <2>7. QED
    BY <2>1, <2>2, <2>3, <2>4, <2>5, <2>6 DEF StandingTurn
<1>4. QED
  BY <1>1, <1>2, <1>3, PTL DEF Spec, HoldRetained

-----------------------------------------------------------------------------
(* The ROS graph: what robots report reaches the loop in order, the last     *)
(* report is not lost, and holds are the operators', for any number of       *)
(* robots and any depth of the queues.                                       *)

\* The bridge speaks and listens on other topics than the transports.
SeparateTopics == \A a, b \in Robots : Namespace[a] # Transport(b)

RosTypes ==
  /\ heard \in [Robots -> Nat] /\ sampled \in [Robots -> Nat]
  /\ odom \in [Robots -> Seq(Nat)]
  /\ twists \in [Robots -> 0 .. Depth]
  /\ holding \in [Robots -> Nat]
  /\ sent \in Nat

\* Reports wait in the order they were made, all newer than the one heard, and
\* the robot's last report is the last of them or the one heard.
Orderly(q, first, last) ==
  /\ \A i \in 1 .. Len(q) : first < q[i] /\ q[i] <= last
  /\ \A i, j \in 1 .. Len(q) : i < j => q[i] < q[j]
  /\ q = <<>> => first = last
  /\ q # <<>> => q[Len(q)] = last

RosInv ==
  RosTypes /\ \A a \in Robots : Orderly(odom[a], heard[a], sampled[a])

\* Hearing the first report keeps the others in order.
LEMMA OneHeard ==
  ASSUME NEW q \in Seq(Nat), NEW m \in Nat, NEW n \in Nat, Orderly(q, m, n),
         q # <<>>
  PROVE  /\ Head(q) \in Nat /\ Head(q) > m
         /\ Tail(q) \in Seq(Nat) /\ Orderly(Tail(q), Head(q), n)
<1>1. /\ Len(q) \in Nat \ {0} /\ Head(q) = q[1] /\ 1 \in 1 .. Len(q)
      /\ \A i \in 1 .. Len(q) : q[i] \in Nat
  BY EmptySeq, LenProperties
<1>2. /\ Tail(q) \in Seq(Nat) /\ Len(Tail(q)) = Len(q) - 1
      /\ \A i \in 1 .. Len(q) - 1 : Tail(q)[i] = q[i + 1]
  BY <1>1, HeadTailProperties
<1> DEFINE t == Tail(q)
<1> HIDE DEF t
<1>3. t = Tail(q)
  BY DEF t
<1>4. \A i \in 1 .. Len(q) - 1 :
        i + 1 \in 1 .. Len(q) /\ t[i] = q[i + 1] /\ 1 < i + 1
  BY <1>1, <1>2, <1>3
<1>5. \A i \in 1 .. Len(t) : Head(q) < t[i] /\ t[i] <= n
  BY <1>1, <1>2, <1>3, <1>4 DEF Orderly
<1>6. \A i, j \in 1 .. Len(t) : i < j => t[i] < t[j]
  <2>1. SUFFICES ASSUME NEW i \in 1 .. Len(q) - 1, NEW j \in 1 .. Len(q) - 1,
                        i < j
                 PROVE  t[i] < t[j]
    BY <1>2, <1>3
  <2>2. q[i + 1] < q[j + 1]
    <3>1. i + 1 \in 1 .. Len(q) /\ j + 1 \in 1 .. Len(q) /\ i + 1 < j + 1
      BY <1>4, <2>1
    <3>2. \A k, l \in 1 .. Len(q) : k < l => q[k] < q[l]
      BY DEF Orderly
    <3>3. QED
      BY <3>1, <3>2
  <2>3. QED
    BY <1>4, <2>2
<1>7. t = <<>> => Head(q) = n
  <2>1. SUFFICES ASSUME t = <<>> PROVE Head(q) = n
    OBVIOUS
  <2>2. Len(t) = 0
    BY <2>1
  <2>3. Len(q) = 1
    BY <1>1, <1>2, <1>3, <2>2
  <2>4. QED
    BY <1>1, <2>3 DEF Orderly
<1>8. t # <<>> => t[Len(t)] = n
  <2>1. SUFFICES ASSUME t # <<>> PROVE t[Len(t)] = n
    OBVIOUS
  <2>2. Len(t) = Len(q) - 1 /\ Len(t) # 0
    BY <1>2, <1>3, <2>1, EmptySeq
  <2>3. Len(t) \in 1 .. Len(q) - 1 /\ Len(t) + 1 = Len(q)
    BY <1>1, <2>2
  <2>4. t[Len(t)] = q[Len(q)]
    BY <1>4, <2>3
  <2>5. QED
    BY <2>4 DEF Orderly
<1>9. Head(q) \in Nat /\ Head(q) > m
  BY <1>1 DEF Orderly
<1>10. QED
  BY <1>2, <1>3, <1>5, <1>6, <1>7, <1>8, <1>9 DEF Orderly

\* A new report stands behind the others, one of which may be dropped.
LEMMA OneReported ==
  ASSUME NEW q \in Seq(Nat), NEW m \in Nat, NEW n \in Nat, Orderly(q, m, n),
         m <= n
  PROVE  Queued(q, n + 1) \in Seq(Nat) /\ Orderly(Queued(q, n + 1), m, n + 1)
<1>1. PICK r : r = IF Len(q) < Depth THEN q ELSE Tail(q)
  OBVIOUS
<1>2. /\ r \in Seq(Nat)
      /\ \A i \in 1 .. Len(r) : m < r[i] /\ r[i] <= n
      /\ \A i, j \in 1 .. Len(r) : i < j => r[i] < r[j]
  <2>1. CASE r = q
    BY <2>1 DEF Orderly
  <2>2. CASE r # q
    <3>1. /\ r = Tail(q) /\ Len(q) \in Nat
          /\ Len(q) >= Depth /\ Depth \in Nat \ {0}
      BY <1>1, <2>2, RosAssumption, LenProperties
    <3>2. q # <<>>
      BY <3>1, EmptySeq
    <3>3. /\ r \in Seq(Nat) /\ Orderly(r, Head(q), n)
          /\ Head(q) \in Nat /\ Head(q) > m
      BY <3>1, <3>2, OneHeard
    <3>4. \A i \in 1 .. Len(r) : r[i] \in Nat
      BY <3>3
    <3>5. QED
      BY <3>3, <3>4 DEF Orderly
  <2>3. QED
    BY <2>1, <2>2
<1>3. PICK s : s = Append(r, n + 1)
  OBVIOUS
<1>4. /\ s \in Seq(Nat) /\ Len(s) = Len(r) + 1 /\ s[Len(r) + 1] = n + 1
      /\ \A i \in 1 .. Len(r) : s[i] = r[i]
      /\ Len(r) \in Nat
  BY <1>2, <1>3, AppendProperties, LenProperties
<1>5. \A i \in 1 .. Len(r) : r[i] \in Nat
  BY <1>2
<1>6. \A i \in 1 .. Len(s) : m < s[i] /\ s[i] <= n + 1
  <2>1. SUFFICES ASSUME NEW i \in 1 .. Len(s) PROVE m < s[i] /\ s[i] <= n + 1
    OBVIOUS
  <2>2. CASE i = Len(r) + 1
    BY <1>4, <2>2
  <2>3. CASE i \in 1 .. Len(r)
    <3>1. s[i] = r[i] /\ r[i] \in Nat
      BY <1>4, <1>5, <2>3
    <3>2. m < r[i] /\ r[i] <= n
      BY <1>2, <2>3
    <3>3. QED
      BY <3>1, <3>2
  <2>4. QED
    BY <1>4, <2>2, <2>3
<1>7. \A i, j \in 1 .. Len(s) : i < j => s[i] < s[j]
  <2>1. SUFFICES ASSUME NEW i \in 1 .. Len(s), NEW j \in 1 .. Len(s), i < j
                 PROVE  s[i] < s[j]
    OBVIOUS
  <2>2. i \in 1 .. Len(r)
    BY <1>4, <2>1
  <2>3. CASE j = Len(r) + 1
    <3>1. s[i] = r[i] /\ r[i] \in Nat /\ s[j] = n + 1
      BY <1>4, <1>5, <2>2, <2>3
    <3>2. r[i] <= n
      BY <1>2, <2>2
    <3>3. QED
      BY <3>1, <3>2
  <2>4. CASE j \in 1 .. Len(r)
    BY <1>2, <1>4, <2>1, <2>2, <2>4
  <2>5. QED
    BY <1>4, <2>3, <2>4
<1>8. s # <<>> /\ s[Len(s)] = n + 1
  BY <1>4, EmptySeq
<1>9. Orderly(s, m, n + 1)
  BY <1>6, <1>7, <1>8 DEF Orderly
<1>10. Queued(q, n + 1) = s
  BY <1>1, <1>3 DEF Queued
<1>11. QED
  BY <1>4, <1>9, <1>10

\* On separate topics the process hears nothing of what it publishes.
LEMMA NothingEchoes ==
  ASSUME SeparateTopics
  PROVE  /\ \A q : q \in [Robots -> Seq(Nat)] => Echoed(q) = q
         /\ \A speakers \in SUBSET Robots :
              Overheard(speakers) = [a \in Robots |-> 0]
<1>1. ASSUME NEW q \in [Robots -> Seq(Nat)] PROVE Echoed(q) = q
  BY DEF SeparateTopics, Echoed
<1>2. ASSUME NEW speakers \in SUBSET Robots
      PROVE  Overheard(speakers) = [a \in Robots |-> 0]
  BY DEF SeparateTopics, Overheard
<1>3. QED
  BY <1>1, <1>2

LEMMA RosInitInv ==
  ASSUME SeparateTopics, RosInit
  PROVE  RosInv
<1>1. \A a \in Robots : [b \in Robots |-> <<>>][a] = <<>>
  OBVIOUS
<1>2. [b \in Robots |-> <<>>] \in [Robots -> Seq(Nat)]
  OBVIOUS
<1>3. odom = [b \in Robots |-> <<>>]
  BY <1>2, NothingEchoes DEF RosInit
<1>4. RosTypes
  <2>1. /\ heard \in [Robots -> Nat] /\ sampled \in [Robots -> Nat]
        /\ holding \in [Robots -> Nat] /\ sent \in Nat
    BY DEF RosInit
  <2>2. twists \in [Robots -> 0 .. Depth]
    BY RosAssumption DEF RosInit
  <2>3. QED
    BY <1>2, <1>3, <2>1, <2>2 DEF RosTypes
<1>5. ASSUME NEW a \in Robots PROVE Orderly(odom[a], heard[a], sampled[a])
  <2>1. odom[a] = <<>> /\ heard[a] = 0 /\ sampled[a] = 0
    BY <1>3 DEF RosInit
  <2>2. QED
    BY <2>1 DEF Orderly
<1>6. QED
  BY <1>4, <1>5 DEF RosInv

\* Reports come and are heard; holds begin with twists that were waiting, and
\* more of them wait only when an operator has sent one.
HeardInOrder == \A a \in Robots : heard'[a] >= heard[a]

HeldByOperators ==
  \A a \in Robots : /\ holding'[a] > holding[a] => twists'[a] < twists[a]
                    /\ twists'[a] > twists[a] => sent' > sent

LEMMA RosStep ==
  ASSUME SeparateTopics, RosInv, [RosNext]_rosVars
  PROVE  RosInv' /\ HeardInOrder /\ HeldByOperators
<1>1. /\ RosTypes /\ Depth \in Nat \ {0} /\ HoldTime \in Nat
      /\ \A a \in Robots : Orderly(odom[a], heard[a], sampled[a])
  BY RosAssumption DEF RosInv
<1>2. /\ \A a \in Robots : heard[a] \in Nat /\ sampled[a] \in Nat
      /\ \A a \in Robots : holding[a] \in Nat /\ twists[a] \in 0 .. Depth
      /\ \A a \in Robots : odom[a] \in Seq(Nat)
  BY <1>1 DEF RosTypes
<1> DEFINE none == [a \in Robots |-> 0]
<1>3. none \in [Robots -> Int] /\ Counted(none) = twists
  <2>1. \A a \in Robots : none[a] = 0
    OBVIOUS
  <2>2. none \in [Robots -> Int]
    OBVIOUS
  <2> HIDE DEF none
  <2>3. \A a \in Robots : Counted(none)[a] = twists[a]
    BY <1>1, <1>2, <2>1 DEF Counted
  <2>4. QED
    BY <1>1, <2>2, <2>3 DEF Counted, RosTypes
<1>4. \A speakers \in SUBSET Robots : Overheard(speakers) = none
  BY NothingEchoes
<1> HIDE DEF none
<1>5. CASE RuntimeStep
  <2>1. UNCHANGED <<heard, odom, sampled, sent, twists>>
    BY <1>3, <1>4, <1>5 DEF RuntimeStep
  <2>2. \A a \in Robots : holding'[a] \in Nat /\ holding'[a] <= holding[a]
    BY <1>2, <1>5 DEF RuntimeStep, Elapsed
  <2>3. holding' \in [Robots -> Nat]
    BY <1>2, <1>5, <2>2 DEF RuntimeStep
  <2>4. RosInv'
    BY <1>1, <2>1, <2>3 DEF RosInv, RosTypes
  <2>5. QED
    BY <1>2, <2>1, <2>2, <2>4 DEF HeardInOrder, HeldByOperators
<1>6. CASE SpinRobots
  <2>1. UNCHANGED <<holding, twists, sampled, sent>>
    BY <1>6 DEF SpinRobots
  <2>2. CASE UNCHANGED <<heard, odom>>
    BY <1>1, <1>2, <2>1, <2>2
    DEF RosInv, RosTypes, HeardInOrder, HeldByOperators
  <2>3. ASSUME NEW a \in Robots, OnOdom(a)
        PROVE  RosInv' /\ HeardInOrder /\ HeldByOperators
    <3>1. /\ odom[a] # <<>>
          /\ heard' = [heard EXCEPT ![a] = Head(odom[a])]
          /\ odom' = [odom EXCEPT ![a] = Tail(odom[a])]
      BY <2>3 DEF OnOdom
    <3>2. /\ Head(odom[a]) \in Nat /\ Head(odom[a]) > heard[a]
          /\ Tail(odom[a]) \in Seq(Nat)
          /\ Orderly(Tail(odom[a]), Head(odom[a]), sampled[a])
      BY <1>1, <1>2, <3>1, OneHeard
    <3>3. RosTypes'
      BY <1>1, <2>1, <3>1, <3>2 DEF RosTypes
    <3>4. \A b \in Robots :
            /\ heard'[b] = IF b = a THEN Head(odom[a]) ELSE heard[b]
            /\ odom'[b] = IF b = a THEN Tail(odom[a]) ELSE odom[b]
      BY <1>1, <3>1 DEF RosTypes
    <3>5. \A b \in Robots : Orderly(odom'[b], heard'[b], sampled'[b])
      BY <1>1, <2>1, <3>2, <3>4
    <3>6. HeardInOrder
      BY <1>2, <3>2, <3>4 DEF HeardInOrder
    <3>7. HeldByOperators
      BY <1>2, <2>1 DEF HeldByOperators
    <3>8. QED
      BY <3>3, <3>5, <3>6, <3>7 DEF RosInv
  <2>4. QED
    BY <1>6, <2>2, <2>3 DEF SpinRobots
<1>7. CASE PublishStates
  <2>1. odom' = odom /\ UNCHANGED <<holding, heard, twists, sampled, sent>>
    BY <1>1, <1>7, NothingEchoes DEF PublishStates, RosTypes
  <2>2. QED
    BY <1>1, <1>2, <2>1 DEF RosInv, RosTypes, HeardInOrder, HeldByOperators
<1>8. CASE SpinBridge
  <2>1. UNCHANGED <<heard, odom, sampled, sent>>
    BY <1>8 DEF SpinBridge
  <2>2. CASE UNCHANGED <<holding, twists>>
    BY <1>1, <1>2, <2>1, <2>2
    DEF RosInv, RosTypes, HeardInOrder, HeldByOperators
  <2>3. ASSUME NEW a \in Robots, OnCmdVel(a)
        PROVE  RosInv' /\ HeardInOrder /\ HeldByOperators
    <3> DEFINE less == [twists EXCEPT ![a] = twists[a] - 1]
    <3>1. twists[a] > 0
      BY <2>3 DEF OnCmdVel
    <3>2. \A b \in Robots :
            less[b] = IF b = a THEN twists[a] - 1 ELSE twists[b]
      BY <1>1 DEF RosTypes
    <3>3. less \in [Robots -> 0 .. Depth]
      BY <1>1, <1>2, <3>1 DEF RosTypes
    <3> DEFINE taken == [none EXCEPT ![a] = none[a] - 1]
    <3>4. Counted(taken) = less
      <4>1. \A b \in Robots : taken[b] = IF b = a THEN -1 ELSE 0
        BY DEF none
      <4> HIDE DEF taken, less
      <4>2. \A b \in Robots : Counted(taken)[b] = less[b]
        BY <1>1, <1>2, <3>2, <4>1 DEF Counted
      <4>3. QED
        BY <3>3, <4>2 DEF Counted
    <3>5. /\ twists' = less
          /\ holding' = holding \/ holding' = [holding EXCEPT ![a] = HoldTime]
      BY <1>4, <2>3, <3>4 DEF OnCmdVel
    <3> HIDE DEF less
    <3>6. RosTypes'
      BY <1>1, <2>1, <3>3, <3>5 DEF RosTypes
    <3>7. RosInv'
      BY <1>1, <2>1, <3>6 DEF RosInv
    <3>8. \A b \in Robots : b # a => holding'[b] = holding[b]
      BY <1>1, <3>5 DEF RosTypes
    <3>9. HeldByOperators
      BY <1>2, <2>1, <3>1, <3>2, <3>5, <3>8 DEF HeldByOperators
    <3>10. QED
      BY <1>2, <2>1, <3>7, <3>9 DEF HeardInOrder
  <2>4. QED
    BY <1>8, <2>2, <2>3 DEF SpinBridge
<1>9. ASSUME NEW a \in Robots, OperatorSends(a)
      PROVE  RosInv' /\ HeardInOrder /\ HeldByOperators
  <2>1. /\ sent' = sent + 1 /\ sent \in Nat
        /\ UNCHANGED <<holding, heard, odom, sampled>>
    BY <1>1, <1>9 DEF OperatorSends, RosTypes
  <2> DEFINE one == [b \in Robots |-> IF b = a THEN 1 ELSE 0]
  <2>2. one \in [Robots -> Int] /\ \A b \in Robots : one[b] \in {0, 1}
    OBVIOUS
  <2>3. twists' = Counted(one)
    BY <1>9 DEF OperatorSends
  <2> HIDE DEF one
  <2>4. twists' \in [Robots -> 0 .. Depth]
    BY <1>1, <1>2, <2>2, <2>3 DEF Counted
  <2>5. RosInv'
    BY <1>1, <2>1, <2>4 DEF RosInv, RosTypes
  <2>6. QED
    BY <1>2, <2>1, <2>5 DEF HeardInOrder, HeldByOperators
<1>10. ASSUME NEW a \in Robots, RobotReports(a)
       PROVE  RosInv' /\ HeardInOrder /\ HeldByOperators
  <2>1. /\ sampled' = [sampled EXCEPT ![a] = sampled[a] + 1]
        /\ odom' = [odom EXCEPT ![a] = Queued(odom[a], sampled[a] + 1)]
        /\ UNCHANGED <<holding, heard, twists, sent>>
    BY <1>1, <1>10 DEF RobotReports, RosTypes
  <2>2. heard[a] <= sampled[a]
    <3>1. CASE odom[a] = <<>>
      BY <1>1, <1>2, <3>1 DEF Orderly
    <3>2. CASE odom[a] # <<>>
      <4>1. Len(odom[a]) \in 1 .. Len(odom[a]) /\ odom[a][Len(odom[a])] \in Nat
        BY <1>2, <3>2, EmptySeq, LenProperties
      <4>2. QED
        BY <1>1, <1>2, <3>2, <4>1 DEF Orderly
    <3>3. QED
      BY <3>1, <3>2
  <2>3. /\ Queued(odom[a], sampled[a] + 1) \in Seq(Nat)
        /\ Orderly(Queued(odom[a], sampled[a] + 1), heard[a], sampled[a] + 1)
    BY <1>1, <1>2, <2>2, OneReported
  <2>4. RosTypes'
    BY <1>1, <1>2, <2>1, <2>3 DEF RosTypes
  <2>5. \A b \in Robots :
          /\ sampled'[b] = IF b = a THEN sampled[a] + 1 ELSE sampled[b]
          /\ odom'[b] = IF b = a THEN Queued(odom[a], sampled[a] + 1)
                        ELSE odom[b]
    BY <1>1, <2>1 DEF RosTypes
  <2>6. \A b \in Robots : Orderly(odom'[b], heard'[b], sampled'[b])
    BY <1>1, <2>1, <2>3, <2>5
  <2>7. QED
    BY <1>2, <2>1, <2>4, <2>6 DEF RosInv, HeardInOrder, HeldByOperators
<1>11. CASE UNCHANGED rosVars
  BY <1>1, <1>2, <1>11
  DEF rosVars, RosInv, RosTypes, HeardInOrder, HeldByOperators
<1>12. QED
  BY <1>5, <1>6, <1>7, <1>8, <1>9, <1>10, <1>11 DEF RosNext, RosLoop

\* However far the loop falls behind and whatever the queues drop, the last
\* report of a robot is known, or waits behind older ones: a queue drops the
\* oldest, never the newest.  (That the loop gets to it is PosesCatchUp.)
LastReportKept ==
  \A a \in Robots :
    \/ heard[a] = sampled[a]
    \/ odom[a] # <<>> /\ odom[a][Len(odom[a])] = sampled[a]

THEOREM LastReportIsKept ==
  ASSUME SeparateTopics
  PROVE  RosSpec => []LastReportKept
<1>1. RosInit => RosInv
  BY RosInitInv
<1>2. RosInv /\ [RosNext]_rosVars => RosInv'
  BY RosStep
<1>3. RosInv => LastReportKept
  BY DEF RosInv, Orderly, LastReportKept
<1>4. QED
  BY <1>1, <1>2, <1>3, PTL DEF RosSpec

\* The pose of a robot never goes back to an older report.
THEOREM ReportsAreHeardInOrder ==
  ASSUME SeparateTopics
  PROVE  RosSpec => [][HeardInOrder]_rosVars
<1>1. RosInit => RosInv
  BY RosInitInv
<1>2. RosInv /\ [RosNext]_rosVars => RosInv' /\ [HeardInOrder]_rosVars
  BY RosStep
<1>3. QED
  BY <1>1, <1>2, PTL DEF RosSpec

\* A hold begins, or is renewed, only with a twist that waited in the queue of
\* that agent, and twists get there from operators only: the process never
\* takes its own velocities for theirs, as it does in the run echo, where the
\* topics are shared.
THEOREM HoldsAreOperators ==
  ASSUME SeparateTopics
  PROVE  RosSpec => [][HeldByOperators]_rosVars
<1>1. RosInit => RosInv
  BY RosInitInv
<1>2. RosInv /\ [RosNext]_rosVars => RosInv' /\ [HeldByOperators]_rosVars
  BY RosStep
<1>3. QED
  BY <1>1, <1>2, PTL DEF RosSpec

-----------------------------------------------------------------------------
(* Planning calls: what plan returns answers its own request, for every set  *)
(* of places and requests, every limit of the waits and any number of calls  *)
(* whose goals the server may still be working on.                           *)

GoalRecords == [status : {"sent", "accepted", "refused", "done"}, path : Seq(Places)]

\* A call has no answer before it returns.  While it waits for its goal, and when
\* it has an answer, there is a goal of its own; one that was answered is done, so
\* that nothing more comes of it.
PathInv ==
  /\ goals \in Seq(GoalRecords)
  /\ phase # "idle" => planned = <<>>
  /\ phase \in {"goal", "result"} => goals # <<>>
  /\ planned # <<>> => goals # <<>> /\ Own.status = "done" /\ Matches

LEMMA PathsType == ASSUME MaxPoses \in Nat PROVE Paths \subseteq Seq(Places)
BY DEF Paths

\* The pinned path: one waypoint more than the path if it begins elsewhere.
LEMMA PinnedProperties ==
  ASSUME NEW path \in Seq(Places), path # <<>>
  PROVE  LET w == Pinned(path)
         IN  /\ Len(w) \in Nat \ {0}
             /\ w[1] = request.start \/ (Len(w) = 1 /\ Len(path) = 1)
             /\ w[Len(w)] = request.goal
             /\ \A i \in 1 .. Len(w) :
                  \/ w[i] \in {request.start, request.goal}
                  \/ \E j \in 1 .. Len(path) : w[i] = path[j]
<1> DEFINE whole == IF path[1] = request.start THEN path
                    ELSE <<request.start>> \o path
           S == Places \cup {request.start}
           w == Pinned(path)
<1>1. Len(path) \in Nat \ {0} /\ \A j \in 1 .. Len(path) : path[j] \in Places
  OBVIOUS
<1>2. /\ whole \in Seq(S) /\ Len(whole) \in Nat \ {0}
      /\ whole[1] = request.start
      /\ Len(whole) = Len(path) \/ Len(whole) = Len(path) + 1
      /\ \A i \in 1 .. Len(whole) :
           whole[i] = request.start \/ \E j \in 1 .. Len(path) : whole[i] = path[j]
  <2>1. CASE path[1] = request.start
    BY <1>1, <2>1
  <2>2. CASE path[1] # request.start
    BY <1>1, <2>2
  <2>3. QED
    BY <2>1, <2>2
<1>3. w = [whole EXCEPT ![Len(whole)] = request.goal]
  BY DEF Pinned
<1> HIDE DEF whole, w
<1>4. /\ Len(w) = Len(whole)
      /\ w[Len(w)] = request.goal
      /\ \A i \in 1 .. Len(w) : i # Len(w) => w[i] = whole[i]
  BY <1>2, <1>3
<1>5. w[1] = request.start \/ (Len(w) = 1 /\ Len(path) = 1)
  <2>1. CASE Len(whole) = 1
    BY <1>1, <1>2, <1>4, <2>1
  <2>2. CASE Len(whole) # 1
    <3>1. 1 \in 1 .. Len(w) /\ 1 # Len(w)
      BY <1>2, <1>4, <2>2
    <3>2. QED
      BY <1>2, <1>4, <3>1
  <2>3. QED
    BY <2>1, <2>2
<1>6. QED
  BY <1>2, <1>4, <1>5 DEF w

\* Calls and servers move on; the goals before stay what they are.
LEMMA PathStep ==
  ASSUME MaxPoses \in Nat, PathInv, [PathNext]_pathVars
  PROVE  PathInv'
<1>1. CASE Plan
  BY <1>1 DEF PathInv, Plan, Enter
<1>2. CASE SendGoal
  BY <1>2 DEF PathInv, SendGoal, Enter, GoalRecords
<1>3. CASE Accepted
  BY <1>3 DEF PathInv, Accepted, Enter, Own, Matches
<1>4. CASE Refused
  BY <1>4 DEF PathInv, Refused, Return, Enter
<1>5. CASE Result
  <2>1. goals # <<>> /\ Len(goals) \in Nat \ {0} /\ Own \in GoalRecords
    BY <1>5 DEF PathInv, Result, Own
  <2>2. /\ phase' = "idle" /\ UNCHANGED <<request, goals>>
        /\ Own.status = "done"
        /\ planned' = IF Own.path = <<>> THEN <<>> ELSE Pinned(Own.path)
    BY <1>5 DEF Result, Results, Return, Enter, Own
  <2>3. CASE Own.path = <<>>
    BY <2>1, <2>2, <2>3 DEF PathInv
  <2>4. CASE Own.path # <<>>
    <3>1. Own.path \in Seq(Places) /\ Own' = Own
      BY <2>1, <2>2 DEF GoalRecords, Own
    <3>2. Matches'
      BY <2>2, <2>4, <3>1, PinnedProperties DEF Matches
    <3>3. QED
      BY <2>1, <2>2, <3>1, <3>2 DEF PathInv
  <2>5. QED
    BY <2>3, <2>4
<1>6. CASE TimeOut
  BY <1>6 DEF PathInv, TimeOut, Return, Enter
<1>7. CASE Wait
  BY <1>7 DEF PathInv, Wait, Own, Matches
<1>8. CASE Server
  <2>1. ASSUME NEW i \in 1 .. Len(goals), Decide(i) \/ Finish(i)
        PROVE  PathInv'
    <3>1. PICK status \in {"accepted", "refused", "done"}, path \in Seq(Places) :
            Becomes(i, status, path)
      <4>1. CASE Decide(i)
        <5>1. <<>> \in Seq(Places)
          OBVIOUS
        <5>2. PICK status \in {"accepted", "refused"} : Becomes(i, status, <<>>)
          BY <4>1 DEF Decide
        <5>3. QED
          BY <5>1, <5>2
      <4>2. CASE Finish(i)
        <5>1. PICK path \in Paths : Becomes(i, "done", path)
          BY <4>2 DEF Finish
        <5>2. QED
          BY <5>1, PathsType
      <4>3. QED
        BY <2>1, <4>1, <4>2
    <3>2. goals[i].status # "done"
      BY <2>1 DEF Decide, Finish
    <3>3. /\ goals' \in Seq(GoalRecords) /\ Len(goals') = Len(goals)
          /\ \A j \in 1 .. Len(goals) : j # i => goals'[j] = goals[j]
      BY <3>1 DEF Becomes, PathInv, GoalRecords
    <3>4. planned # <<>> => Own' = Own
      BY <3>2, <3>3 DEF PathInv, Own
    <3>5. QED
      BY <3>1, <3>3, <3>4 DEF PathInv, Becomes, Matches
  <2>2. CASE ServerComesOrGoes
    BY <2>2 DEF PathInv, ServerComesOrGoes, Own, Matches
  <2>3. QED
    BY <1>8, <2>1, <2>2 DEF Server
<1>9. CASE UNCHANGED pathVars
  BY <1>9 DEF PathInv, pathVars, Own, Matches
<1>10. QED
  BY <1>1, <1>2, <1>3, <1>4, <1>5, <1>6, <1>7, <1>8, <1>9
  DEF PathNext, Returning

\* A planning call never returns the path of another request, however many goals
\* earlier calls have left with the server.
THEOREM AnswersMatchHolds ==
  ASSUME MaxPoses \in Nat
  PROVE  PathSpec => []AnswersMatch
<1>1. PathInit => PathInv
  BY DEF PathInit, PathInv
<1>2. PathInv /\ [PathNext]_pathVars => PathInv'
  BY PathStep
<1>3. PathInv => AnswersMatch
  BY DEF PathInv, AnswersMatch, Matches
<1>4. QED
  BY <1>1, <1>2, <1>3, PTL DEF PathSpec

-----------------------------------------------------------------------------
(* The tail of events: a client that follows the log misses nothing that is  *)
(* still in the buffer and not cut off by its own limit, for every capacity. *)

\* A set of naturals that is not empty has a least element.
LEMMA LeastNatural ==
  ASSUME NEW S \in SUBSET Nat, S # {}
  PROVE  \E m \in S : \A n \in S : m <= n
<1> DEFINE T == {0 .. n : n \in S}
           R == StrictSubsetOrdering(Nat)
           F == FiniteSubsetsOf(Nat)
<1>1. IsWellFoundedOn(R, F)
  BY FS_StrictSubsetOrderingWellFounded
<1>2. T \subseteq F /\ T # {}
  <2>1. \A n \in S : 0 .. n \in SUBSET Nat /\ IsFiniteSet(0 .. n)
    BY FS_Interval
  <2>2. QED
    BY <2>1 DEF FiniteSubsetsOf
<1>3. PICK x \in T : \A y \in T : ~(<<y, x>> \in R)
  <2> HIDE DEF T, R, F
  <2> QED  BY <1>1, <1>2, WFMin
<1>4. PICK m \in S : x = 0 .. m
  BY <1>3
<1>5. ASSUME NEW n \in S, n < m
      PROVE  FALSE
  <2>1. /\ 0 .. n \subseteq 0 .. m /\ 0 .. m \subseteq Nat
        /\ m \in 0 .. m /\ m \notin 0 .. n
    BY <1>5
  <2>2. <<0 .. n, 0 .. m>> \in R
    <3>1. 0 .. n # 0 .. m
      BY <2>1
    <3>2. 0 .. n \in SUBSET Nat /\ 0 .. m \in SUBSET Nat
      BY <2>1
    <3>3. QED
      BY <2>1, <3>1, <3>2, Zenon DEF StrictSubsetOrdering
  <2>3. QED
    BY <1>3, <1>4, <2>2
<1>6. QED
  BY <1>5

LEMMA NewestIsOne ==
  ASSUME NEW n \in Nat, NEW events \in SUBSET (1 .. n), events # {}
  PROVE  Newest(events) \in events
<1> DEFINE T == {n - k : k \in events}
<1>1. T \in SUBSET Nat
  <2>1. \A k \in events : n - k \in Nat
    OBVIOUS
  <2>2. QED
    BY <2>1
<1>2. \A k \in events : n - k \in T
  OBVIOUS
<1>3. T # {}
  BY <1>2
<1>4. \A t \in T : \E k \in events : t = n - k
  OBVIOUS
<1> HIDE DEF T
<1>5. PICK t \in T : \A u \in T : t <= u
  BY <1>1, <1>3, LeastNatural
<1>6. PICK m \in events : t = n - m
  BY <1>4
<1>7. \A k \in events : k <= m
  BY <1>2, <1>5, <1>6
<1>8. QED
  BY <1>7 DEF Newest

Events == [labels : Labels, ts : Nat]

\* The log is in the order of time, and the buffer is its end.  What was logged
\* since the last poll is not older than the time the next one asks from.
TailInv ==
  /\ now \in Nat
  /\ log \in Seq(Events)
  /\ \A i \in 1 .. Len(log) : log[i].ts <= now
  /\ buffer \in Seq(Nat)
  /\ Len(buffer) = IF Len(log) < Capacity THEN Len(log) ELSE Capacity
  /\ \A k \in 1 .. Len(buffer) : buffer[k] = Len(log) - Len(buffer) + k
  /\ since \in Nat /\ since <= now
  /\ upto \in 0 .. Len(log)
  /\ \A i \in upto + 1 .. Len(log) : since <= log[i].ts

LEMMA LogTimes ==
  ASSUME TailInv
  PROVE  /\ Len(log) \in Nat /\ upto \in Nat /\ Capacity \in Nat \ {0}
         /\ \A i \in 1 .. Len(log) : log[i].ts \in Nat
<1>1. log \in Seq(Events) /\ upto \in 0 .. Len(log)
  BY DEF TailInv
<1>2. Len(log) \in Nat
  BY <1>1, LenProperties
<1>3. ASSUME NEW i \in 1 .. Len(log)
      PROVE  log[i].ts \in Nat
  <2>1. log[i] \in Events
    BY <1>1, ElementOfSeq
  <2>2. QED
    BY <2>1 DEF Events
<1>4. QED
  BY <1>1, <1>2, <1>3, TailAssumption

LEMMA TailStart == TailInit => TailInv
<1>1. <<>> \in Seq(Events) /\ <<>> \in Seq(Nat) /\ Len(<<>>) = 0
  OBVIOUS
<1>2. QED
  BY <1>1, TailAssumption DEF TailInit, TailInv

LEMMA WriteKeeps ==
  ASSUME TailInv, NEW labels \in Labels, WriteEvent(labels)
  PROVE  TailInv'
<1> DEFINE e == [labels |-> labels, ts |-> now]
           n == Len(log)
           kept == IF Len(buffer) < Capacity THEN buffer ELSE Tail(buffer)
<1>1. e \in Events /\ e.ts = now /\ n \in Nat /\ Capacity \in Nat \ {0}
  BY TailAssumption, LenProperties DEF TailInv, Events
<1>2. /\ log' \in Seq(Events) /\ Len(log') = n + 1
      /\ \A i \in 1 .. n : log'[i] = log[i]
      /\ log'[n + 1] = e
  <2>1. log' = Append(log, e)
    BY DEF WriteEvent, Logged
  <2>2. QED
    <3> HIDE DEF e
    <3> QED  BY <1>1, <2>1, AppendProperties DEF TailInv
<1>3. /\ kept \in Seq(Nat)
      /\ Len(kept) + 1 = IF n + 1 < Capacity THEN n + 1 ELSE Capacity
      /\ \A k \in 1 .. Len(kept) : kept[k] = n - Len(kept) + k
  <2>1. CASE Len(buffer) < Capacity
    <3>1. kept = buffer
      BY <2>1
    <3>2. Len(buffer) = n
      BY <1>1, <2>1 DEF TailInv
    <3>3. \A k \in 1 .. Len(buffer) : buffer[k] = n - Len(buffer) + k
      BY DEF TailInv
    <3>4. buffer \in Seq(Nat) /\ n < Capacity
      BY <2>1, <3>2 DEF TailInv
    <3>5. Len(buffer) + 1 = IF n + 1 < Capacity THEN n + 1 ELSE Capacity
      BY <1>1, <3>2, <3>4
    <3>6. QED
      BY <3>1, <3>3, <3>4, <3>5
  <2>2. CASE ~(Len(buffer) < Capacity)
    <3>1. Len(buffer) = Capacity /\ buffer # <<>>
      BY <1>1, <2>2, EmptySeq DEF TailInv
    <3>2. /\ Tail(buffer) \in Seq(Nat)
          /\ Len(Tail(buffer)) = Len(buffer) - 1
          /\ \A k \in 1 .. Len(Tail(buffer)) : Tail(buffer)[k] = buffer[k + 1]
      BY <3>1, HeadTailProperties DEF TailInv
    <3>3. kept = Tail(buffer)
      BY <2>2
    <3>4. \A k \in 1 .. Len(Tail(buffer)) : k + 1 \in 1 .. Len(buffer)
      BY <1>1, <3>1, <3>2
    <3>5. n >= Capacity
      BY <1>1, <3>1 DEF TailInv
    <3>6. \A k \in 1 .. Len(buffer) : buffer[k] = n - Len(buffer) + k
      BY DEF TailInv
    <3> HIDE DEF kept, n
    <3>7. ASSUME NEW k \in 1 .. Len(kept)
          PROVE  kept[k] = n - Len(kept) + k
      <4>1. kept[k] = buffer[k + 1] /\ k + 1 \in 1 .. Len(buffer)
        BY <3>2, <3>3, <3>4
      <4>2. kept[k] = n - Len(buffer) + (k + 1)
        BY <3>6, <4>1
      <4>3. QED
        BY <1>1, <3>1, <3>2, <3>3, <4>2
    <3>8. QED
      BY <1>1, <3>1, <3>2, <3>3, <3>5, <3>7
  <2>3. QED
    BY <2>1, <2>2
<1>4. buffer' = Append(kept, n + 1)
  BY <1>2 DEF WriteEvent, Buffered
<1>5. n + 1 \in Nat
  BY <1>1
<1> HIDE DEF kept, n, e
<1>6. /\ buffer' \in Seq(Nat) /\ Len(buffer') = Len(kept) + 1
      /\ \A k \in 1 .. Len(kept) : buffer'[k] = kept[k]
      /\ buffer'[Len(kept) + 1] = n + 1
  BY <1>3, <1>4, <1>5, AppendProperties
<1>7. Len(kept) \in Nat
  BY <1>3, LenProperties
<1>8. \A k \in 1 .. Len(buffer') : buffer'[k] = (n + 1) - Len(buffer') + k
  <2>1. SUFFICES ASSUME NEW k \in 1 .. Len(buffer')
                 PROVE  buffer'[k] = (n + 1) - Len(buffer') + k
    OBVIOUS
  <2>2. k \in 1 .. Len(kept) \/ k = Len(kept) + 1
    BY <1>6, <1>7
  <2>3. CASE k \in 1 .. Len(kept)
    <3>1. buffer'[k] = kept[k]
      BY <1>6, <2>3
    <3>2. kept[k] = n - Len(kept) + k
      BY <1>3, <2>3
    <3>3. QED
      BY <1>1, <1>6, <1>7, <2>3, <3>1, <3>2
  <2>4. CASE k = Len(kept) + 1
    <3>1. buffer'[k] = n + 1
      BY <1>6, <2>4
    <3>2. QED
      BY <1>1, <1>6, <1>7, <2>4, <3>1
  <2>5. QED
    BY <2>2, <2>3, <2>4
<1>9. UNCHANGED <<now, since, upto>>
  BY DEF WriteEvent
<1>10. \A i \in 1 .. n + 1 : log'[i].ts <= now
  <2>1. \A i \in 1 .. n : log'[i].ts <= now
    BY <1>2 DEF TailInv, n
  <2>2. log'[n + 1].ts <= now
    BY <1>1, <1>2 DEF TailInv
  <2>3. QED
    BY <1>1, <2>1, <2>2
<1>11. \A i \in upto + 1 .. n + 1 : since <= log'[i].ts
  <2>1. upto \in Nat /\ upto <= n
    BY LogTimes DEF TailInv, n
  <2>2. ASSUME NEW i \in upto + 1 .. n
        PROVE  since <= log'[i].ts
    <3>1. i \in 1 .. n
      BY <1>1, <2>1
    <3>2. since <= log[i].ts
      BY <2>2 DEF TailInv, n
    <3>3. QED
      BY <1>2, <3>1, <3>2
  <2>3. since <= log'[n + 1].ts
    BY <1>1, <1>2 DEF TailInv
  <2>4. QED
    BY <1>1, <2>1, <2>2, <2>3
<1>12. Len(buffer') = IF Len(log') < Capacity THEN Len(log') ELSE Capacity
  BY <1>2, <1>3, <1>6
<1>13. \A k \in 1 .. Len(buffer') : buffer'[k] = Len(log') - Len(buffer') + k
  BY <1>2, <1>8
<1>14. now' \in Nat /\ since' \in Nat /\ since' <= now'
  BY <1>9 DEF TailInv
<1>15. upto' \in 0 .. Len(log')
  BY <1>1, <1>2, <1>9 DEF TailInv, n
<1>16. QED
  BY <1>2, <1>6, <1>9, <1>15, <1>10, <1>11, <1>12, <1>13, <1>14, Zenon DEF TailInv

\* What a poll looks through: the matches among the last events of the log.
LEMMA Matching ==
  ASSUME TailInv
  PROVE  MatchesInBuffer =
           {i \in 1 .. Len(log) : /\ i > Len(log) - Capacity
                                  /\ Wanted(i) /\ LateEnough(i)}
<1> DEFINE n == Len(log)
           b == Len(buffer)
<1>1. n \in Nat /\ b \in Nat /\ Capacity \in Nat
  BY TailAssumption, LenProperties DEF TailInv
<1>2. /\ b = IF n < Capacity THEN n ELSE Capacity
      /\ \A k \in 1 .. b : buffer[k] = n - b + k
  BY DEF TailInv
<1> HIDE DEF n, b
<1>3. \A k \in 1 .. b : buffer[k] \in 1 .. n /\ buffer[k] > n - Capacity
  BY <1>1, <1>2
<1>4. ASSUME NEW i \in 1 .. n, i > n - Capacity
      PROVE  \E k \in 1 .. b : buffer[k] = i
  <2>1. i - (n - b) \in 1 .. b
    BY <1>1, <1>2, <1>4
  <2>2. buffer[i - (n - b)] = n - b + (i - (n - b))
    BY <1>2, <2>1
  <2>3. QED
    BY <1>1, <2>1, <2>2
<1>5. {buffer[k] : k \in 1 .. b} = {i \in 1 .. n : i > n - Capacity}
  BY <1>3, <1>4
<1>6. QED
  BY <1>5 DEF MatchesInBuffer, n, b

LEMMA PollKeeps ==
  ASSUME TailInv, NEW n, GetRecentEvents(n)
  PROVE  TailInv'
<1>1. UNCHANGED <<now, log, buffer>> /\ upto' = Len(log)
  BY DEF GetRecentEvents
<1>2. Len(log) \in Nat
  BY LenProperties DEF TailInv
<1>3. since' \in Nat /\ since' <= now
  <2>1. CASE Filtered(n) = {}
    BY <2>1 DEF GetRecentEvents, TailInv
  <2>2. CASE Filtered(n) # {}
    <3>1. Filtered(n) \subseteq 1 .. Len(log)
      BY Matching, Zenon DEF Filtered
    <3>2. Newest(Filtered(n)) \in 1 .. Len(log)
      BY <1>2, <2>2, <3>1, NewestIsOne
    <3>3. since' = log[Newest(Filtered(n))].ts
      BY <2>2 DEF GetRecentEvents
    <3>4. \A i \in 1 .. Len(log) : log[i].ts \in Nat /\ log[i].ts <= now
      BY LogTimes DEF TailInv
    <3>5. QED
      BY <3>2, <3>3, <3>4, Zenon
  <2>3. QED
    BY <2>1, <2>2
<1>4. upto' \in 0 .. Len(log') /\ upto' + 1 .. Len(log') = {}
  BY <1>1, <1>2
<1>5. QED
  BY <1>1, <1>3, <1>4, Zenon DEF TailInv

LEMMA TailStep == TailInv /\ [TailNext]_tailVars => TailInv'
<1> SUFFICES ASSUME TailInv, [TailNext]_tailVars
             PROVE  TailInv'
  OBVIOUS
<1>1. CASE \E labels \in Labels : WriteEvent(labels)
  BY <1>1, WriteKeeps
<1>2. CASE ClockTick
  <2>1. now \in Nat /\ now' = now + 1
        /\ UNCHANGED <<log, buffer, since, upto>>
    BY <1>2 DEF ClockTick, TailInv
  <2>2. \A i \in 1 .. Len(log) : log[i].ts \in Nat
    BY LogTimes
  <2>3. /\ now' \in Nat /\ since <= now'
        /\ \A i \in 1 .. Len(log) : log[i].ts <= now'
    BY <2>1, <2>2 DEF TailInv
  <2>4. QED
    BY <2>1, <2>3, Zenon DEF TailInv
<1>3. CASE \E n \in Limits : GetRecentEvents(n)
  BY <1>3, PollKeeps
<1>4. CASE UNCHANGED tailVars
  BY <1>4, Zenon DEF tailVars, TailInv
<1>5. QED
  BY <1>1, <1>2, <1>3, <1>4 DEF TailNext

\* Whatever is logged between two polls, and of whatever times, the second poll
\* answers it if it is wanted, in the buffer, and among the newest it may answer.
THEOREM FollowersSeeAll == TailSpec => NewAreSeen
<1>1. ASSUME TailInv, [TailNext]_tailVars
      PROVE  \A i \in upto + 1 .. upto' :
               Wanted(i) => \/ i \in got'
                            \/ i <= Len(log) - Capacity
                            \/ Cardinality(WantedAfter(i)) >= limit'
  <2> SUFFICES ASSUME NEW i \in upto + 1 .. upto', Wanted(i)
               PROVE  \/ i \in got'
                      \/ i <= Len(log) - Capacity
                      \/ Cardinality(WantedAfter(i)) >= limit'
    OBVIOUS
  <2>1. CASE \E n \in Limits : GetRecentEvents(n)
    <3>1. PICK n \in Limits : GetRecentEvents(n)
      BY <2>1
    <3>2. /\ n \in Int /\ limit' = n /\ upto' = Len(log) /\ Len(log) \in Nat
          /\ upto \in Nat /\ Capacity \in Nat
          /\ Filtered(n) \subseteq got'
      BY <1>1, <3>1, LogTimes, TailAssumption DEF GetRecentEvents
    <3>3. i \in 1 .. Len(log) /\ LateEnough(i)
      <4>1. i \in 1 .. Len(log) /\ i \in upto + 1 .. Len(log)
        BY <3>2
      <4>2. log[i].ts \in Nat /\ since \in Nat /\ since <= log[i].ts
        BY <1>1, <4>1, LogTimes DEF TailInv
      <4>3. QED
        BY <4>1, <4>2 DEF LateEnough
    <3>4. SUFFICES ASSUME i > Len(log) - Capacity, i \notin Filtered(n)
                   PROVE  Cardinality(WantedAfter(i)) >= n
      BY <3>2, <3>3
    <3>5. i \in MatchesInBuffer
      BY <1>1, <3>3, <3>4, Matching, Zenon
    <3> DEFINE newer == {j \in MatchesInBuffer : j > i}
    <3>6. ~(Cardinality(newer) < n)
      BY <3>4, <3>5, Zenon DEF Filtered
    <3>7. newer \in SUBSET WantedAfter(i)
      <4>1. \A j \in MatchesInBuffer : j \in 1 .. Len(log) /\ Wanted(j)
        BY <1>1, Matching, Zenon
      <4>2. \A j \in 1 .. Len(log) : j > i => j \in i + 1 .. Len(log)
        BY <3>2, <3>3
      <4>3. QED
        BY <4>1, <4>2, Zenon DEF WantedAfter
    <3>8. IsFiniteSet(WantedAfter(i))
      <4>1. IsFiniteSet(1 .. Len(log))
        BY <3>2, FS_Interval
      <4>2. WantedAfter(i) \in SUBSET (1 .. Len(log))
        BY <3>2, <3>3 DEF WantedAfter
      <4>3. QED
        BY <4>1, <4>2, FS_Subset
    <3> HIDE DEF newer
    <3>9. /\ IsFiniteSet(newer)
          /\ Cardinality(newer) <= Cardinality(WantedAfter(i))
      BY <3>7, <3>8, FS_Subset
    <3>10. Cardinality(newer) \in Nat /\ Cardinality(WantedAfter(i)) \in Nat
      BY <3>8, <3>9, FS_CardinalityType
    <3>11. QED
      BY <3>2, <3>6, <3>9, <3>10
  <2>2. CASE upto' = upto
    BY <1>1, <2>2 DEF TailInv
  <2>3. QED
    BY <1>1, <2>1, <2>2 DEF TailNext, WriteEvent, ClockTick, tailVars
<1>2. QED
  BY <1>1, TailStart, TailStep, PTL DEF TailSpec, NewAreSeen

-----------------------------------------------------------------------------
(* Benchmark suites: a result is about the run made for it, for every suite, *)
(* number of other runs and order of events.                                 *)

Directories ==
  [stamp : Nat, of : Scenarios, n : Nat, finished : BOOLEAN, reports : Nat]

\* What is in scored need not be a number here: the last of the sorted names is
\* taken only from names that were found, which nothing below relies on.
BenchType ==
  /\ second \in Nat
  /\ dirs \in Seq(Directories)
  /\ suite \in Seq(Scenarios)
  /\ state \in {"next", "running", "score", "done", "lost"}
  /\ own \in Seq(Nat)
  /\ \E S : scored \in Seq(S)
  /\ Len(scored) <= Len(own) /\ Len(own) <= Len(suite)
  /\ state \in {"next", "done"} => Len(own) = Len(scored)
  /\ state \in {"running", "score"} => Len(own) = Len(scored) + 1

\* Each run of the suite has a directory of its own, and a directory with a
\* number has a namesake of the same second.
OwnDirectories ==
  /\ \A i \in 1 .. Len(own) :
       own[i] \in 1 .. Len(dirs) /\ dirs[own[i]].of = suite[i]
  /\ \A i, j \in 1 .. Len(own) : own[i] = own[j] => i = j
  /\ \A d \in 1 .. Len(dirs) : dirs[d].n # 1 =>
       \E e \in 1 .. Len(dirs) :
         e # d /\ dirs[e].stamp = dirs[d].stamp /\ dirs[e].of = dirs[d].of

\* Until the suite is done, its runs have no reports.
OwnResults ==
  /\ \A i \in 1 .. Len(scored) : scored[i] # 0 =>
       dirs[own[i]].finished /\ (Rivalled(i) \/ scored[i] = own[i])
  /\ state = "score" => dirs[own[Len(own)]].finished
  /\ state # "done" => \A i \in 1 .. Len(own) : dirs[own[i]].reports = 0

BenchInv == BenchType /\ OwnDirectories /\ OwnResults /\ OwnRunScored

\* What a step keeps: names, ends of runs, and which runs are the suite's own.
Grows ==
  /\ UNCHANGED suite
  /\ Len(dirs') >= Len(dirs)
  /\ \A d \in 1 .. Len(dirs) :
       /\ dirs'[d].stamp = dirs[d].stamp /\ dirs'[d].of = dirs[d].of
       /\ dirs'[d].n = dirs[d].n
       /\ dirs[d].finished => dirs'[d].finished
  /\ Len(own') >= Len(own)
  /\ \A i \in 1 .. Len(own) : own'[i] = own[i]

\* A new directory, with a namesake if it has a number.
LEMMA CreateAdds ==
  ASSUME BenchType, NEW s \in Scenarios, Create(s)
  PROVE  /\ dirs' \in Seq(Directories) /\ Len(dirs') = Len(dirs) + 1
         /\ \A d \in 1 .. Len(dirs) : dirs'[d] = dirs[d]
         /\ dirs'[Len(dirs')].of = s /\ dirs'[Len(dirs')].reports = 0
         /\ dirs'[Len(dirs')].n # 1 =>
              \E e \in 1 .. Len(dirs) :
                dirs[e].stamp = dirs'[Len(dirs')].stamp /\ dirs[e].of = s
<1> DEFINE taken == {d \in 1 .. Len(dirs) : dirs[d].stamp = second /\ dirs[d].of = s}
           new == [stamp |-> second, of |-> s, n |-> Cardinality(taken) + 1,
                   finished |-> FALSE, reports |-> 0]
<1>1. dirs \in Seq(Directories) /\ Len(dirs) \in Nat
  BY LenProperties DEF BenchType
<1>2. IsFiniteSet(taken) /\ Cardinality(taken) \in Nat
  <2>1. IsFiniteSet(1 .. Len(dirs))
    BY <1>1, FS_Interval
  <2>2. taken \in SUBSET (1 .. Len(dirs))
    OBVIOUS
  <2>3. IsFiniteSet(taken)
    BY <2>1, <2>2, FS_Subset
  <2>4. QED
    BY <2>3, FS_CardinalityType
<1>3. Cardinality(taken) + 1 # 1 => taken # {}
  BY <1>2, FS_EmptySet
<1>4. dirs' = Append(dirs, new)
  BY DEF Create
<1>5. new \in Directories
  BY <1>2 DEF BenchType, Directories
<1>6. new.n # 1 =>
        \E e \in 1 .. Len(dirs) : dirs[e].stamp = second /\ dirs[e].of = s
  BY <1>3
<1>7. new.stamp = second /\ new.of = s /\ new.reports = 0
  OBVIOUS
<1> HIDE DEF new, taken
<1>8. /\ dirs' \in Seq(Directories) /\ Len(dirs') = Len(dirs) + 1
      /\ \A d \in 1 .. Len(dirs) : dirs'[d] = dirs[d]
      /\ dirs'[Len(dirs')] = new
  BY <1>1, <1>4, <1>5
<1>9. QED
  BY <1>6, <1>7, <1>8

\* Scenarios of the suite are scenarios.
LEMMA CurrentType ==
  ASSUME BenchType, state = "next", Len(scored) < Len(suite)
  PROVE  Current \in Scenarios /\ Len(scored) \in Nat /\ Len(own) = Len(scored)
BY LenProperties DEF BenchType, Current

LEMMA ReportsType == ASSUME BenchType, NEW d PROVE ReportsFor(d) \in Nat
<1>1. Len(scored) \in Nat
  BY LenProperties DEF BenchType
<1>2. IsFiniteSet(1 .. Len(scored))
  BY <1>1, FS_Interval
<1>3. {i \in 1 .. Len(scored) : scored[i] = d} \in SUBSET (1 .. Len(scored))
  OBVIOUS
<1>4. QED
  BY <1>2, <1>3, FS_Subset, FS_CardinalityType DEF ReportsFor

\* One more result.
LEMMA ScoredAppend ==
  ASSUME BenchType, NEW x, scored' = Append(scored, x)
  PROVE  /\ \E S : scored' \in Seq(S)
         /\ Len(scored) \in Nat /\ Len(scored') = Len(scored) + 1
         /\ scored'[Len(scored')] = x
         /\ \A i \in 1 .. Len(scored) : scored'[i] = scored[i]
<1>1. PICK S : scored \in Seq(S)
  BY DEF BenchType
<1>2. scored \in Seq(S \cup {x}) /\ x \in S \cup {x}
  BY <1>1
<1>3. QED
  BY <1>2, AppendProperties, LenProperties

\* One more run of the suite.
LEMMA OwnAppend ==
  ASSUME BenchType, NEW x \in Nat, own' = Append(own, x)
  PROVE  /\ own' \in Seq(Nat)
         /\ Len(own) \in Nat /\ Len(own') = Len(own) + 1
         /\ own'[Len(own')] = x
         /\ \A i \in 1 .. Len(own) : own'[i] = own[i]
BY AppendProperties, LenProperties DEF BenchType

LEMMA FinishType ==
  ASSUME BenchType, NEW e \in 1 .. Len(dirs),
         dirs' = [dirs EXCEPT ![e].finished = TRUE]
  PROVE  /\ dirs' \in Seq(Directories) /\ Len(dirs') = Len(dirs)
         /\ \A d \in 1 .. Len(dirs) :
              /\ dirs'[d].stamp = dirs[d].stamp /\ dirs'[d].of = dirs[d].of
              /\ dirs'[d].n = dirs[d].n /\ dirs'[d].reports = dirs[d].reports
              /\ dirs[d].finished => dirs'[d].finished
         /\ dirs'[e].finished
<1> DEFINE r == [dirs[e] EXCEPT !.finished = TRUE]
<1>1. /\ dirs \in Seq(Directories) /\ Len(dirs) \in Nat
      /\ \A d \in 1 .. Len(dirs) : dirs[d] \in Directories
  BY LenProperties, ElementOfSeq DEF BenchType
<1>2. r \in Directories /\ r.finished /\ r.stamp = dirs[e].stamp
      /\ r.of = dirs[e].of /\ r.n = dirs[e].n /\ r.reports = dirs[e].reports
  BY <1>1 DEF Directories
<1>3. dirs' = [dirs EXCEPT ![e] = r]
  OBVIOUS
<1> HIDE DEF r
<1>4. /\ dirs' \in Seq(Directories) /\ Len(dirs') = Len(dirs)
      /\ dirs'[e] = r /\ \A d \in 1 .. Len(dirs) : d # e => dirs'[d] = dirs[d]
  <2>1. /\ dirs' \in Seq(Directories) /\ Len(dirs') = Len(dirs)
        /\ \A d \in 1 .. Len(dirs) : dirs'[d] = IF d = e THEN r ELSE dirs[d]
    BY ONLY <1>1, <1>2, <1>3, e \in 1 .. Len(dirs), ExceptSeq
  <2>2. QED
    BY <2>1
<1>5. QED
  BY <1>2, <1>4

\* The end of the suite, with reports for what was scored.
LEMMA ReportAdds ==
  ASSUME BenchType, Report
  PROVE  /\ dirs' \in Seq(Directories) /\ Len(dirs') = Len(dirs)
         /\ \A d \in 1 .. Len(dirs) :
              /\ dirs'[d].stamp = dirs[d].stamp /\ dirs'[d].of = dirs[d].of
              /\ dirs'[d].n = dirs[d].n
              /\ dirs'[d].finished = dirs[d].finished
              /\ dirs[d].finished =>
                   dirs'[d].reports = dirs[d].reports + ReportsFor(d)
<1> DEFINE r(d) == WithReports(dirs[d], ReportsFor(d))
<1>1. /\ dirs \in Seq(Directories) /\ Len(dirs) \in Nat
      /\ \A d \in 1 .. Len(dirs) : dirs[d] \in Directories
  BY LenProperties, ElementOfSeq DEF BenchType
<1>2. ASSUME NEW d \in 1 .. Len(dirs)
      PROVE  /\ r(d) \in Directories
             /\ r(d).stamp = dirs[d].stamp /\ r(d).of = dirs[d].of
             /\ r(d).n = dirs[d].n /\ r(d).finished = dirs[d].finished
             /\ dirs[d].finished => r(d).reports = dirs[d].reports + ReportsFor(d)
  <2>1. ReportsFor(d) \in Nat /\ dirs[d] \in Directories
    BY <1>1, ReportsType
  <2>2. QED
    BY <2>1 DEF WithReports, Directories
<1>3. dirs' = [d \in 1 .. Len(dirs) |-> r(d)]
  BY DEF Report
<1> HIDE DEF r
<1>4. dirs' \in Seq(Directories) /\ Len(dirs') = Len(dirs)
  BY <1>1, <1>2, <1>3
<1>5. QED
  BY <1>2, <1>3, <1>4

LEMMA BenchTypeStep ==
  ASSUME BenchType, OwnDirectories, [BenchNext]_benchVars
  PROVE  BenchType'
<1>1. Len(scored) \in Nat /\ Len(own) \in Nat /\ Len(suite) \in Nat
  BY LenProperties DEF BenchType
<1>2. CASE Begin
  <2>1. Current \in Scenarios /\ Len(own) = Len(scored)
    BY <1>2, CurrentType DEF Begin
  <2>2. dirs' \in Seq(Directories) /\ Len(dirs') \in Nat
    BY <1>2, <2>1, CreateAdds, LenProperties DEF Begin
  <2>3. own' \in Seq(Nat) /\ Len(own') = Len(own) + 1
    BY <1>2, <2>2, OwnAppend DEF Begin
  <2>4. QED
    BY <1>1, <1>2, <2>1, <2>2, <2>3 DEF Begin, BenchType
<1>3. CASE RejectExpectation \/ RaiseInRun
  BY <1>1, <1>3 DEF RejectExpectation, RaiseInRun, BenchType
<1>4. CASE FinishRun
  <2>1. own[Len(own)] \in 1 .. Len(dirs)
    BY <1>1, <1>4 DEF FinishRun, BenchType, OwnDirectories
  <2>2. QED
    BY <1>1, <1>4, <2>1, FinishType DEF FinishRun, BenchType
<1>5. ASSUME NEW x, scored' = Append(scored, x), FailRun \/ Score
      PROVE  BenchType'
  <2>1. (\E S : scored' \in Seq(S)) /\ Len(scored') = Len(scored) + 1
    BY <1>5, ScoredAppend
  <2>2. QED
    BY <1>1, <1>5, <2>1 DEF FailRun, Score, BenchType
<1>6. CASE Report
  BY <1>1, <1>6, ReportAdds DEF Report, BenchType
<1>7. CASE OtherBegins
  BY <1>1, <1>7, CreateAdds DEF OtherBegins, BenchType
<1>8. CASE OtherFinishes
  BY <1>1, <1>8, FinishType DEF OtherFinishes, BenchType
<1>9. CASE Tick \/ UNCHANGED benchVars
  BY <1>1, <1>9 DEF Tick, benchVars, BenchType
<1>10. QED
  BY <1>2, <1>3, <1>4, <1>5, <1>6, <1>7, <1>8, <1>9
  DEF BenchNext, FailRun, Score

LEMMA GrowStep ==
  ASSUME BenchType, OwnDirectories, [BenchNext]_benchVars
  PROVE  Grows
<1>1. /\ Len(scored) \in Nat /\ Len(own) \in Nat /\ Len(suite) \in Nat
      /\ Len(dirs) \in Nat
  BY LenProperties DEF BenchType
<1>2. CASE Begin
  <2>1. Current \in Scenarios
    BY <1>2, CurrentType DEF Begin
  <2>2. /\ Len(dirs') \in Nat /\ Len(dirs') = Len(dirs) + 1
        /\ \A d \in 1 .. Len(dirs) : dirs'[d] = dirs[d]
    BY <1>1, <1>2, <2>1, CreateAdds DEF Begin
  <2>3. Len(own') = Len(own) + 1 /\ \A i \in 1 .. Len(own) : own'[i] = own[i]
    BY <1>2, <2>2, OwnAppend DEF Begin
  <2>4. QED
    BY <1>1, <1>2, <2>2, <2>3 DEF Begin, Grows
<1>3. CASE OtherBegins
  <2>1. /\ Len(dirs') = Len(dirs) + 1
        /\ \A d \in 1 .. Len(dirs) : dirs'[d] = dirs[d]
    BY <1>3, CreateAdds DEF OtherBegins
  <2>2. QED
    BY <1>1, <1>3, <2>1 DEF OtherBegins, Grows
<1>4. CASE FinishRun
  <2>1. own[Len(own)] \in 1 .. Len(dirs)
    BY <1>1, <1>4 DEF FinishRun, BenchType, OwnDirectories
  <2>2. QED
    BY <1>1, <1>4, <2>1, FinishType DEF FinishRun, Grows
<1>5. CASE OtherFinishes
  BY <1>1, <1>5, FinishType DEF OtherFinishes, Grows
<1>6. CASE Report
  BY <1>1, <1>6, ReportAdds DEF Report, Grows
<1>7. CASE RejectExpectation \/ FailRun \/ RaiseInRun \/ Score \/ Tick \/ UNCHANGED benchVars
  BY <1>1, <1>7
  DEF RejectExpectation, FailRun, RaiseInRun, Score, Tick, benchVars, Grows
<1>8. QED
  BY <1>2, <1>3, <1>4, <1>5, <1>6, <1>7 DEF BenchNext

\* A rival stays one.
LEMMA RivalStays ==
  ASSUME BenchType, BenchType', OwnDirectories, Grows,
         NEW i \in 1 .. Len(own), Rivalled(i)
  PROVE  Rivalled(i)'
<1>1. Len(dirs) \in Nat /\ Len(own) \in Nat /\ own[i] \in 1 .. Len(dirs)
  BY LenProperties DEF BenchType, OwnDirectories
<1>2. PICK d \in 1 .. Len(dirs) :
        /\ d # own[i]
        /\ dirs[d].stamp >= dirs[own[i]].stamp
        /\ dirs[d].of = suite[i] \/ <<dirs[d].of, suite[i]>> \in EndsWith
  BY DEF Rivalled
<1>3. /\ own'[i] = own[i] /\ suite' = suite
      /\ dirs'[d].stamp = dirs[d].stamp /\ dirs'[d].of = dirs[d].of
      /\ dirs'[own[i]].stamp = dirs[own[i]].stamp
  BY <1>1 DEF Grows
<1>4. Len(dirs') \in Nat /\ d \in 1 .. Len(dirs')
  <2>1. Len(dirs') \in Nat
    BY LenProperties DEF BenchType
  <2>2. QED
    BY <1>1, <2>1 DEF Grows
<1>5. QED
  BY <1>2, <1>3, <1>4 DEF Rivalled

LEMMA OwnStep ==
  ASSUME BenchType, BenchType', OwnDirectories, [BenchNext]_benchVars
  PROVE  OwnDirectories'
<1>1. /\ Len(scored) \in Nat /\ Len(own) \in Nat /\ Len(suite) \in Nat
      /\ Len(dirs) \in Nat /\ Len(dirs') \in Nat /\ Len(own) <= Len(suite)
  BY LenProperties DEF BenchType
<1>2. Grows
  BY GrowStep
<1>3. ASSUME NEW s \in Scenarios, Create(s)
      PROVE  \A d \in 1 .. Len(dirs') : dirs'[d].n # 1 =>
               \E e \in 1 .. Len(dirs') :
                 e # d /\ dirs'[e].stamp = dirs'[d].stamp /\ dirs'[e].of = dirs'[d].of
  <2>1. /\ Len(dirs') = Len(dirs) + 1
        /\ \A d \in 1 .. Len(dirs) : dirs'[d] = dirs[d]
        /\ dirs'[Len(dirs')].of = s
        /\ dirs'[Len(dirs')].n # 1 =>
             \E e \in 1 .. Len(dirs) :
               dirs[e].stamp = dirs'[Len(dirs')].stamp /\ dirs[e].of = s
    BY <1>3, CreateAdds
  <2>2. SUFFICES ASSUME NEW d \in 1 .. Len(dirs'), dirs'[d].n # 1
                 PROVE  \E e \in 1 .. Len(dirs) :
                          /\ e # d /\ dirs[e].stamp = dirs'[d].stamp
                          /\ dirs[e].of = dirs'[d].of
    BY <1>1, <2>1
  <2>3. CASE d = Len(dirs')
    BY <1>1, <2>1, <2>2, <2>3
  <2>4. CASE d # Len(dirs')
    <3>1. d \in 1 .. Len(dirs) /\ dirs'[d] = dirs[d]
      BY <1>1, <2>1, <2>4
    <3>2. QED
      BY <2>2, <3>1 DEF OwnDirectories
  <2>5. QED
    BY <2>3, <2>4
<1>4. CASE Begin
  <2>1. Current \in Scenarios /\ Len(own) = Len(scored)
    BY <1>4, CurrentType DEF Begin
  <2>2. /\ Len(dirs') = Len(dirs) + 1 /\ dirs'[Len(dirs')].of = Current
        /\ \A d \in 1 .. Len(dirs) : dirs'[d] = dirs[d]
    BY <1>4, <2>1, CreateAdds DEF Begin
  <2>3. /\ Len(own') = Len(own) + 1 /\ own'[Len(own')] = Len(dirs')
        /\ \A i \in 1 .. Len(own) : own'[i] = own[i]
    BY <1>1, <1>4, OwnAppend DEF Begin
  <2>4. \A i \in 1 .. Len(own') :
          own'[i] \in 1 .. Len(dirs') /\ dirs'[own'[i]].of = suite'[i]
    <3>1. SUFFICES ASSUME NEW i \in 1 .. Len(own')
                   PROVE  own'[i] \in 1 .. Len(dirs') /\ dirs'[own'[i]].of = suite[i]
      BY <1>4 DEF Begin
    <3>2. CASE i = Len(own')
      <4>1. suite[i] = Current
        BY <1>1, <2>1, <2>3, <3>2 DEF Current
      <4>2. QED
        BY <1>1, <2>2, <2>3, <3>2, <4>1
    <3>3. CASE i # Len(own')
      <4>1. i \in 1 .. Len(own) /\ own[i] \in 1 .. Len(dirs) /\ dirs[own[i]].of = suite[i]
        BY <1>1, <2>3, <3>3 DEF OwnDirectories
      <4>2. QED
        BY <1>1, <2>2, <2>3, <4>1
    <3>4. QED
      BY <3>2, <3>3
  <2>5. \A i, j \in 1 .. Len(own') : own'[i] = own'[j] => i = j
    <3>1. \A i \in 1 .. Len(own) : own[i] # Len(dirs')
      BY <1>1, <2>2 DEF OwnDirectories
    <3>2. QED
      BY <1>1, <2>3, <3>1 DEF OwnDirectories
  <2>6. QED
    BY <1>3, <1>4, <2>1, <2>4, <2>5 DEF Begin, OwnDirectories
<1>5. CASE OtherBegins
  <2>1. own' = own /\ suite' = suite
    BY <1>5 DEF OtherBegins
  <2>2. \A d \in 1 .. Len(dirs) : d \in 1 .. Len(dirs') /\ dirs'[d].of = dirs[d].of
    BY <1>1, <1>2 DEF Grows
  <2>3. QED
    BY <1>3, <1>5, <2>1, <2>2 DEF OtherBegins, OwnDirectories
<1>6. CASE ~(Begin \/ OtherBegins)
  <2>1. own' = own /\ suite' = suite /\ Len(dirs') = Len(dirs)
    <3>1. CASE FinishRun
      <4>1. own[Len(own)] \in 1 .. Len(dirs)
        BY <1>1, <3>1 DEF FinishRun, BenchType, OwnDirectories
      <4>2. QED
        BY <3>1, <4>1, FinishType DEF FinishRun
    <3>2. CASE OtherFinishes
      BY <3>2, FinishType DEF OtherFinishes
    <3>3. CASE Report
      BY <3>3, ReportAdds DEF Report
    <3>4. CASE RejectExpectation \/ FailRun \/ RaiseInRun \/ Score \/ Tick \/ UNCHANGED benchVars
      BY <3>4 DEF RejectExpectation, FailRun, RaiseInRun, Score, Tick, benchVars
    <3>5. QED
      BY <1>6, <3>1, <3>2, <3>3, <3>4 DEF BenchNext
  <2>2. \A d \in 1 .. Len(dirs) :
          /\ dirs'[d].stamp = dirs[d].stamp /\ dirs'[d].of = dirs[d].of
          /\ dirs'[d].n = dirs[d].n
    BY <1>2 DEF Grows
  <2>3. QED
    BY <2>1, <2>2 DEF OwnDirectories
<1>7. QED
  BY <1>4, <1>5, <1>6

\* The latest of the names found is the run just made, if it has no rival.
LEMMA LatestIsOwn ==
  ASSUME BenchType, OwnDirectories, state = "score", ~Rivalled(Len(own))
  PROVE  LatestRun(Current) = own[Len(own)]
<1> DEFINE mine == own[Len(own)]
<1>1. /\ Len(own) \in Nat /\ Len(scored) \in Nat /\ Len(own) = Len(scored) + 1
      /\ Len(own) \in 1 .. Len(own) /\ Len(own) <= Len(suite) /\ Len(suite) \in Nat
      /\ Len(dirs) \in Nat
  BY LenProperties DEF BenchType
<1>2. Current = suite[Len(own)]
  BY <1>1 DEF Current
<1>3. mine \in 1 .. Len(dirs) /\ dirs[mine].of = Current
  BY <1>1, <1>2 DEF OwnDirectories
<1>4. \A d \in 1 .. Len(dirs) : dirs[d].stamp \in Nat
  <2>1. \A d \in 1 .. Len(dirs) : dirs[d] \in Directories
    BY ElementOfSeq DEF BenchType
  <2>2. QED
    BY <2>1 DEF Directories
<1>5. \A d \in 1 .. Len(dirs) :
        d # mine /\ (dirs[d].of = Current \/ <<dirs[d].of, Current>> \in EndsWith) =>
          dirs[d].stamp < dirs[mine].stamp
  <2>1. SUFFICES ASSUME NEW d \in 1 .. Len(dirs), d # mine,
                        dirs[d].of = Current \/ <<dirs[d].of, Current>> \in EndsWith
                 PROVE  dirs[d].stamp < dirs[mine].stamp
    OBVIOUS
  <2>2. dirs[d].stamp \in Nat /\ dirs[mine].stamp \in Nat
    BY <1>3, <1>4
  <2>3. ~(dirs[d].stamp >= dirs[mine].stamp)
    BY ONLY <1>2, <2>1, ~Rivalled(Len(own)), d \in 1 .. Len(dirs) DEF Rivalled
  <2>4. QED
    BY <2>2, <2>3
<1> HIDE DEF mine
<1>6. dirs[mine].n = 1
  <2>1. SUFFICES ASSUME dirs[mine].n # 1 PROVE FALSE
    OBVIOUS
  <2>2. PICK e \in 1 .. Len(dirs) :
          e # mine /\ dirs[e].stamp = dirs[mine].stamp /\ dirs[e].of = dirs[mine].of
    BY <1>3, <2>1 DEF OwnDirectories
  <2>3. dirs[e].stamp < dirs[mine].stamp /\ dirs[mine].stamp \in Nat
    BY <1>3, <1>4, <1>5, <2>2
  <2>4. QED
    BY <2>2, <2>3
<1>7. mine \in Candidates(Current)
  BY <1>3, <1>6 DEF Candidates
<1>8. \A e \in Candidates(Current) \ {mine} : NamedBefore(e, mine)
  BY <1>5 DEF Candidates, NamedBefore
<1>9. ASSUME NEW d \in Candidates(Current),
             \A e \in Candidates(Current) \ {d} : NamedBefore(e, d), d # mine
      PROVE  FALSE
  <2>1. NamedBefore(mine, d)
    BY <1>7, <1>9
  <2>2. d \in 1 .. Len(dirs) /\ dirs[d].stamp < dirs[mine].stamp
    BY <1>5, <1>9 DEF Candidates
  <2>3. dirs[d].stamp \in Nat /\ dirs[mine].stamp \in Nat
    BY <1>3, <1>4, <2>2
  <2>4. QED
    BY <2>1, <2>2, <2>3 DEF NamedBefore
<1>10. LatestRun(Current) = mine
  BY <1>7, <1>8, <1>9 DEF LatestRun
<1>11. QED
  BY <1>10 DEF mine

\* What the results say survives every step.
LEMMA ResultsStep ==
  ASSUME BenchType, BenchType', OwnDirectories, OwnDirectories', OwnResults,
         [BenchNext]_benchVars
  PROVE  OwnResults'
<1>1. /\ Len(scored) \in Nat /\ Len(own) \in Nat /\ Len(dirs) \in Nat
      /\ Len(scored) <= Len(own)
  BY LenProperties DEF BenchType
<1>2. Grows
  BY GrowStep
<1>3. ASSUME NEW i \in 1 .. Len(scored), scored[i] # 0
      PROVE  dirs'[own'[i]].finished /\ (Rivalled(i)' \/ scored[i] = own'[i])
  <2>1. /\ i \in 1 .. Len(own) /\ own[i] \in 1 .. Len(dirs)
        /\ dirs[own[i]].finished /\ (Rivalled(i) \/ scored[i] = own[i])
    BY <1>1, <1>3 DEF OwnResults, OwnDirectories
  <2>2. own'[i] = own[i] /\ dirs'[own[i]].finished
    BY <1>2, <2>1 DEF Grows
  <2>3. Rivalled(i) => Rivalled(i)'
    BY <1>2, <2>1, RivalStays
  <2>4. QED
    BY <2>1, <2>2, <2>3
<1>4. CASE Begin
  <2>1. Current \in Scenarios /\ Len(own) = Len(scored)
    BY <1>4, CurrentType DEF Begin
  <2>2. /\ Len(dirs') = Len(dirs) + 1 /\ dirs'[Len(dirs')].reports = 0
        /\ \A d \in 1 .. Len(dirs) : dirs'[d] = dirs[d]
    BY <1>4, <2>1, CreateAdds DEF Begin
  <2>3. /\ Len(own') = Len(own) + 1 /\ own'[Len(own')] = Len(dirs')
        /\ \A i \in 1 .. Len(own) : own'[i] = own[i]
    BY <1>1, <1>4, <2>2, OwnAppend DEF Begin
  <2>4. ASSUME NEW i \in 1 .. Len(own') PROVE dirs'[own'[i]].reports = 0
    <3>1. CASE i = Len(own')
      BY <2>2, <2>3, <3>1
    <3>2. CASE i # Len(own')
      <4>1. /\ i \in 1 .. Len(own) /\ own[i] \in 1 .. Len(dirs)
            /\ dirs[own[i]].reports = 0
        BY <1>1, <1>4, <2>3, <3>2 DEF Begin, OwnDirectories, OwnResults
      <4>2. QED
        BY <2>2, <2>3, <4>1
    <3>3. QED
      BY <3>1, <3>2
  <2>5. QED
    BY <1>3, <1>4, <2>4 DEF Begin, OwnResults
<1>5. CASE OtherBegins
  <2>1. \A d \in 1 .. Len(dirs) : dirs'[d] = dirs[d]
    BY <1>5, CreateAdds DEF OtherBegins
  <2>2. \A i \in 1 .. Len(own) : dirs'[own[i]] = dirs[own[i]]
    BY <2>1 DEF OwnDirectories
  <2>3. state = "score" => Len(own) \in 1 .. Len(own)
    BY <1>1 DEF BenchType
  <2>4. QED
    BY <1>3, <1>5, <2>2, <2>3 DEF OtherBegins, OwnResults
<1>6. CASE FinishRun
  <2>1. Len(own) \in 1 .. Len(own) /\ own[Len(own)] \in 1 .. Len(dirs)
    BY <1>1, <1>6 DEF FinishRun, BenchType, OwnDirectories
  <2>2. /\ dirs'[own[Len(own)]].finished
        /\ \A d \in 1 .. Len(dirs) : dirs'[d].reports = dirs[d].reports
    BY <1>6, <2>1, FinishType DEF FinishRun
  <2>3. \A i \in 1 .. Len(own) : dirs'[own[i]].reports = 0
    BY <1>6, <2>2 DEF FinishRun, OwnDirectories, OwnResults
  <2>4. QED
    BY <1>3, <1>6, <2>2, <2>3 DEF FinishRun, OwnResults
<1>7. CASE OtherFinishes
  <2>1. \A d \in 1 .. Len(dirs) :
          /\ dirs'[d].reports = dirs[d].reports
          /\ dirs[d].finished => dirs'[d].finished
    BY <1>7, FinishType DEF OtherFinishes
  <2>2. state = "score" => Len(own) \in 1 .. Len(own)
    BY <1>1 DEF BenchType
  <2>3. \A i \in 1 .. Len(own) :
          /\ dirs'[own[i]].reports = dirs[own[i]].reports
          /\ dirs[own[i]].finished => dirs'[own[i]].finished
    BY <2>1 DEF OwnDirectories
  <2>4. QED
    BY <1>3, <1>7, <2>2, <2>3 DEF OtherFinishes, OwnResults
<1>8. CASE Report
  BY <1>3, <1>8 DEF Report, OwnResults
<1>9. CASE Score
  <2>1. LatestRun(Current) = own[Len(own)] \/ Rivalled(Len(own))
    BY <1>9, LatestIsOwn DEF Score
  <2>2. /\ Len(scored') = Len(scored) + 1 /\ scored'[Len(scored')] = LatestRun(Current)
        /\ \A i \in 1 .. Len(scored) : scored'[i] = scored[i]
    BY <1>9, ScoredAppend DEF Score
  <2>3. Len(own) = Len(scored) + 1 /\ dirs[own[Len(own)]].finished
    BY <1>9 DEF Score, BenchType, OwnResults
  <2>4. own' = own /\ dirs' = dirs /\ suite' = suite
    BY <1>9 DEF Score
  <2>5. ASSUME NEW i \in 1 .. Len(own), Rivalled(i) PROVE Rivalled(i)'
    BY <1>2, <2>5, RivalStays
  <2>6. ASSUME NEW i \in 1 .. Len(scored'), scored'[i] # 0
        PROVE  dirs'[own'[i]].finished /\ (Rivalled(i)' \/ scored'[i] = own'[i])
    <3>1. CASE i = Len(scored')
      <4>1. i = Len(own) /\ i \in 1 .. Len(own) /\ scored'[i] = LatestRun(Current)
        BY <1>1, <2>2, <2>3, <3>1
      <4>2. scored'[i] = own'[i] \/ Rivalled(i)'
        BY <2>1, <2>4, <2>5, <4>1
      <4>3. QED
        BY <2>3, <2>4, <4>1, <4>2
    <3>2. CASE i # Len(scored')
      BY <1>1, <1>3, <2>2, <2>6, <3>2
    <3>3. QED
      BY <3>1, <3>2
  <2>7. QED
    BY <1>9, <2>4, <2>6 DEF Score, OwnResults
<1>10. CASE FailRun
  <2>1. /\ Len(scored') = Len(scored) + 1 /\ scored'[Len(scored')] = 0
        /\ \A i \in 1 .. Len(scored) : scored'[i] = scored[i]
    BY <1>10, ScoredAppend DEF FailRun
  <2>2. ASSUME NEW i \in 1 .. Len(scored'), scored'[i] # 0
        PROVE  i \in 1 .. Len(scored) /\ scored'[i] = scored[i]
    BY <1>1, <2>1, <2>2
  <2>3. QED
    BY <1>3, <1>10, <2>2 DEF FailRun, OwnResults
<1>11. CASE RejectExpectation \/ RaiseInRun \/ Tick \/ UNCHANGED benchVars
  BY <1>3, <1>11 DEF RejectExpectation, RaiseInRun, Tick, benchVars, OwnResults
<1>12. QED
  BY <1>4, <1>5, <1>6, <1>7, <1>8, <1>9, <1>10, <1>11 DEF BenchNext

\* The reports of a run are the results that name it.
LEMMA ReportedStep ==
  ASSUME BenchType, BenchType', OwnDirectories, OwnDirectories', OwnResults,
         OwnRunScored, [BenchNext]_benchVars
  PROVE  OwnRunScored'
<1>1. /\ Len(scored) \in Nat /\ Len(own) \in Nat /\ Len(dirs) \in Nat
      /\ Len(scored) <= Len(own)
  BY LenProperties DEF BenchType
<1>2. Grows
  BY GrowStep
<1>3. ASSUME NEW i \in 1 .. Len(own), Rivalled(i) PROVE Rivalled(i)'
  BY <1>2, <1>3, RivalStays
<1>4. \A i \in 1 .. Len(own) : own[i] \in 1 .. Len(dirs) /\ own'[i] = own[i]
  BY <1>2 DEF OwnDirectories, Grows
<1>5. CASE Report
  <2>1. /\ scored' = scored /\ own' = own /\ state # "done"
    BY <1>5 DEF Report
  <2>2. SUFFICES ASSUME NEW i \in 1 .. Len(scored), scored[i] # 0, ~Rivalled(i)'
                 PROVE  /\ scored[i] = own[i]
                        /\ dirs'[own[i]].reports >= 1
                        /\ \/ dirs'[own[i]].reports = 1
                           \/ \E j \in 1 .. Len(own) : Rivalled(j)'
    BY <2>1 DEF OwnRunScored
  <2>3. /\ i \in 1 .. Len(own) /\ scored[i] = own[i]
        /\ dirs[own[i]].finished /\ dirs[own[i]].reports = 0
    BY <1>1, <1>3, <2>1, <2>2 DEF OwnResults
  <2>4. ReportsFor(own[i]) \in Nat /\ dirs'[own[i]].reports = ReportsFor(own[i])
    <3>1. ReportsFor(own[i]) \in Nat
      BY ReportsType
    <3>2. dirs'[own[i]].reports = dirs[own[i]].reports + ReportsFor(own[i])
      BY <1>4, <1>5, <2>3, ReportAdds
    <3>3. QED
      BY <2>3, <3>1, <3>2
  <2> DEFINE naming == {j \in 1 .. Len(scored) : scored[j] = own[i]}
  <2>5. IsFiniteSet(naming) /\ ReportsFor(own[i]) = Cardinality(naming)
    <3>1. IsFiniteSet(1 .. Len(scored)) /\ naming \in SUBSET (1 .. Len(scored))
      BY <1>1, FS_Interval
    <3>2. QED
      BY <3>1, FS_Subset DEF ReportsFor
  <2>6. i \in naming
    BY <2>3
  <2>7. ReportsFor(own[i]) # 0
    BY <2>5, <2>6, FS_EmptySet
  <2>8. ASSUME \A j \in 1 .. Len(own) : ~Rivalled(j)'
        PROVE  ReportsFor(own[i]) = 1
    <3>1. \A j \in naming : j = i
      <4>1. SUFFICES ASSUME NEW j \in naming PROVE j = i
        OBVIOUS
      <4>2. j \in 1 .. Len(own) /\ scored[j] = own[i] /\ own[i] # 0
        BY <1>1, <1>4, <2>3
      <4>3. scored[j] = own[j]
        <5>1. j \in 1 .. Len(scored) /\ scored[j] # 0 /\ ~Rivalled(j)
          BY <1>3, <2>8, <4>2
        <5>2. QED
          BY <5>1 DEF OwnResults
      <4>4. i \in 1 .. Len(own) /\ j \in 1 .. Len(own) /\ own[i] = own[j]
        BY <2>3, <4>2, <4>3
      <4>5. QED
        BY <4>4 DEF OwnDirectories
    <3>2. naming = {i}
      BY <2>6, <3>1
    <3>3. QED
      BY <2>5, <3>2, FS_Singleton
  <2>9. QED
    BY <2>3, <2>4, <2>7, <2>8
<1>6. CASE ~Report
  <2>1. SUFFICES ASSUME state' = "done", NEW i \in 1 .. Len(scored'),
                        scored'[i] # 0, ~Rivalled(i)'
                 PROVE  /\ scored'[i] = own'[i]
                        /\ dirs'[own'[i]].reports >= 1
                        /\ \/ dirs'[own'[i]].reports = 1
                           \/ \E j \in 1 .. Len(own') : Rivalled(j)'
    BY DEF OwnRunScored
  <2>2. /\ state = "done" /\ scored' = scored /\ own' = own
        /\ OtherBegins \/ OtherFinishes \/ Tick \/ UNCHANGED benchVars
    BY <1>6, <2>1
    DEF BenchNext, benchVars, Begin, RejectExpectation, FinishRun, FailRun,
        RaiseInRun, Score, OtherBegins, OtherFinishes, Tick
  <2>3. i \in 1 .. Len(own) /\ ~Rivalled(i)
    BY <1>1, <1>3, <2>1, <2>2
  <2>4. /\ scored[i] = own[i] /\ dirs[own[i]].reports >= 1
        /\ dirs[own[i]].reports = 1 \/ \E j \in 1 .. Len(own) : Rivalled(j)
    BY <2>1, <2>2, <2>3 DEF OwnRunScored
  <2>5. \A d \in 1 .. Len(dirs) : dirs'[d].reports = dirs[d].reports
    <3>1. CASE OtherBegins
      BY <3>1, CreateAdds DEF OtherBegins
    <3>2. CASE OtherFinishes
      BY <3>2, FinishType DEF OtherFinishes
    <3>3. CASE Tick \/ UNCHANGED benchVars
      BY <3>3 DEF Tick, benchVars
    <3>4. QED
      BY <2>2, <3>1, <3>2, <3>3
  <2>6. QED
    BY <1>3, <1>4, <2>2, <2>3, <2>4, <2>5
<1>7. QED
  BY <1>5, <1>6

\* A result that names a run names the run the suite made for it, and the suite
\* reports in its events, unless a run of a like name began in the same second or
\* since: whatever the suites, the other runs and their number.
THEOREM OwnRunIsScored ==
  ASSUME Suites \subseteq Seq(Scenarios)
  PROVE  BenchSpec => []OwnRunScored
<1>1. BenchInit => BenchInv
  <2>1. SUFFICES ASSUME BenchInit PROVE BenchInv
    OBVIOUS
  <2>2. /\ second = 0 /\ dirs = <<>> /\ suite \in Seq(Scenarios)
        /\ state = "next" /\ own = <<>> /\ scored = <<>>
    BY <2>1 DEF BenchInit
  <2>3. /\ Len(<<>>) = 0 /\ <<>> \in Seq(Nat) /\ <<>> \in Seq(Directories)
        /\ Len(suite) \in Nat
    BY <2>2, LenProperties, EmptySeq
  <2>4. BenchType
    BY <2>2, <2>3 DEF BenchType
  <2>5. OwnDirectories /\ OwnResults /\ OwnRunScored
    BY <2>2, <2>3 DEF OwnDirectories, OwnResults, OwnRunScored
  <2>6. QED
    BY <2>4, <2>5 DEF BenchInv
<1>2. BenchInv /\ [BenchNext]_benchVars => BenchInv'
  <2>1. SUFFICES ASSUME BenchInv, [BenchNext]_benchVars PROVE BenchInv'
    OBVIOUS
  <2>2. BenchType'
    BY <2>1, BenchTypeStep DEF BenchInv
  <2>3. OwnDirectories'
    BY <2>1, <2>2, OwnStep DEF BenchInv
  <2>4. OwnResults'
    BY <2>1, <2>2, <2>3, ResultsStep DEF BenchInv
  <2>5. OwnRunScored'
    BY <2>1, <2>2, <2>3, ReportedStep DEF BenchInv
  <2>6. QED
    BY <2>2, <2>3, <2>4, <2>5 DEF BenchInv
<1>3. BenchInv => OwnRunScored
  BY DEF BenchInv
<1>4. QED
  BY <1>1, <1>2, <1>3, PTL DEF BenchSpec

=============================================================================
