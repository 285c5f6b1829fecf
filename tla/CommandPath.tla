----------------------------- MODULE CommandPath -----------------------------
(***************************************************************************)
(* What reaches the actuator of one real robot: the command gate, the      *)
(* operator's teleop entry, the emergency stops, and the watchdog that     *)
(* Runtime.step polls.  The robot keeps the last velocity it was sent.     *)
(*                                                                         *)
(* Two clocks: the simulation clock moves with each step and counts holds  *)
(* and locks; wall time passes at any moment and ages the last command.    *)
(* A paused or slow runtime is one that lets wall time pass between polls. *)
(* A step is a poll, a dispatch and the turn of the agent, in this order   *)
(* (pc); callers act in between steps.  Everything here is kept per agent  *)
(* and never relates two of them.                                          *)
(***************************************************************************)
EXTENDS Integers

CONSTANTS
  Timeout,      (* command_timeout_sec, in ticks of wall time               *)
  Stall,        (* bound: ticks of wall time between two polls              *)
  Holds,        (* hold_sec of teleop calls, in ticks of simulated time     *)
  LockTimes,    (* ttl_sec of authority locks, in the same ticks            *)
  Twists        (* what a Nav2 controller sends; {} with a local controller *)

AuthorityModes == {"ai", "autonomy", "safety", "teleop"}

\* DEFAULT_AUTHORITY_PRIORITY.
Rank(mode) == CASE mode = "ai"       -> 10
                [] mode = "autonomy" -> 20
                [] mode = "safety"   -> 30
                [] mode = "teleop"   -> 40

ASSUME PathAssumption ==
  /\ Timeout \in Nat /\ Stall \in Nat
  /\ Holds \subseteq Nat
  /\ LockTimes \subseteq Nat \ {0}
  /\ Twists \subseteq {"auto", "zero", "nan"}

VARIABLES
  pc,           (* "ready" between steps, then "polled", then "turn"        *)
  started,      (* the simulation clock is past 0                           *)
  work,         (* the agent's task: "none", "new" (not planned for yet),   *)
                (* "aimless" (without a goal) or "planned"               *)
  estop,        (* AgentState.emergency_stopped, in the registry            *)
  gateStop,     (* the agent is in CommandGate._emergency_stopped           *)
  lock,         (* CommandGate._locks: a mode and the time left             *)
  hold,         (* the time left until _teleop_hold_until                   *)
  setpoint,     (* the velocity sent last: "zero", "auto" or "teleop"       *)
  commanded,    (* _last_command_sec is set                                 *)
  age,          (* wall time since, counted up to Timeout + 1               *)
  gap,          (* wall time since the last poll                            *)
  tripped,      (* the agent is in Runtime._watchdog_tripped                *)
  latest        (* the last velocity Nav2's controller sent, or "none"      *)

vars == <<pc, started, work, estop, gateStop, lock, hold, setpoint,
          commanded, age, gap, tripped, latest>>
actuator == <<setpoint, commanded, age>>
gate == <<gateStop, lock>>

NoLock == [mode |-> "ai", left |-> 0]

\* AgentState.current_task_id is set.
Tasked == work # "none"

Init ==
  /\ pc = "ready" /\ started = FALSE /\ work = "none"
  /\ estop = FALSE /\ gateStop = FALSE
  /\ lock = NoLock /\ hold = 0
  /\ setpoint = "zero" /\ commanded = FALSE /\ age = 0
  /\ gap = 0 /\ tripped = FALSE
  /\ latest = "none"

-----------------------------------------------------------------------------
(* The gate and the adapter *)

\* A lock of higher authority is in force.
Outranked(mode) == lock.left > 0 /\ Rank(mode) < Rank(lock.mode)

\* CommandGate.evaluate of a command stamped now: not stopped, fresh (the stamp
\* is not 0), finite, and not outranked by a lock in force.
Accepts(mode, velocity) ==
  /\ ~gateStop
  /\ started
  /\ velocity # "nan"
  /\ ~Outranked(mode)

\* Ros2RobotAdapter.apply_command, and stop, which is no command.
Apply(velocity) ==
  /\ setpoint' = velocity
  /\ commanded' = TRUE
  /\ age' = 0

StopRobot ==
  /\ setpoint' = "zero"
  /\ UNCHANGED <<commanded, age>>

\* Mutant: a command is stale already at the limit.
ExpiredAtLimit == commanded /\ age >= Timeout

\* Ros2RobotAdapter.watchdog_expired.
Expired == commanded /\ age > Timeout

-----------------------------------------------------------------------------
(* Callers, between two steps *)

Operator ==
  /\ pc = "ready"
  /\ UNCHANGED <<pc, started, work, gap, tripped, latest>>

\* Runtime.submit_teleop_command, which ROS callbacks call too.  A rejected
\* command changes nothing.
Teleop(velocity, time) ==
  /\ Operator
  /\ Accepts("teleop", velocity)
  /\ Apply(velocity)
  /\ hold' = time
  /\ UNCHANGED <<estop, gate>>

\* AgentToolApi.pause_agent, resume_agent, stop_all; the registry's flag.
SetEstop(stopped) ==
  /\ Operator
  /\ estop' = stopped
  /\ UNCHANGED <<gate, hold, actuator>>

SetGateStop(stopped) ==
  /\ Operator
  /\ gateStop' = stopped
  /\ UNCHANGED <<estop, lock, hold, actuator>>

LockAuthority(mode, time) ==
  /\ Operator
  /\ lock' = [mode |-> mode, left |-> time]
  /\ UNCHANGED <<estop, gateStop, hold, actuator>>

ClearAuthorityLock ==
  /\ Operator
  /\ lock' = NoLock
  /\ UNCHANGED <<estop, gateStop, hold, actuator>>

\* The dispatch that starts a run gives the agent a task.
Drain ==
  /\ pc = "ready" /\ ~Tasked /\ ~estop
  /\ work' \in {"new", "aimless"}
  /\ UNCHANGED <<pc, started, estop, gate, hold, actuator, gap, tripped,
                 latest>>

\* Runtime._fail_remaining, at the end of a run: the actuator is not told.
RunTimesOut ==
  /\ pc = "ready" /\ Tasked
  /\ work' = "none"
  /\ UNCHANGED <<pc, started, estop, gate, hold, actuator, gap, tripped,
                 latest>>

External ==
  \/ \E velocity \in {"teleop", "zero", "nan"}, time \in Holds :
       Teleop(velocity, time)
  \/ \E stopped \in BOOLEAN : SetEstop(stopped) \/ SetGateStop(stopped)
  \/ \E mode \in AuthorityModes, time \in LockTimes : LockAuthority(mode, time)
  \/ ClearAuthorityLock
  \/ Drain
  \/ RunTimesOut

-----------------------------------------------------------------------------
(* A step *)

Sooner(time) == IF time > 0 THEN time - 1 ELSE 0

\* A lock that has run out is dropped by whoever evaluates next.
LockAged == IF lock.left > 1 THEN [lock EXCEPT !.left = @ - 1] ELSE NoLock

\* Mutant: the edge is remembered for ever.
StillTrippedForEver == tripped \/ Expired

\* The memory of the rising edge.
StillTripped == Expired

\* Runtime._poll_command_watchdog, on the simulation clock's next tick.
Poll ==
  /\ pc = "ready" /\ pc' = "polled"
  /\ started' = TRUE
  /\ hold' = Sooner(hold)
  /\ lock' = LockAged
  /\ gap' = 0
  /\ tripped' = StillTripped
  /\ IF Expired /\ ~tripped
     THEN StopRobot /\ estop' = TRUE
     ELSE UNCHANGED <<actuator, estop>>
  /\ UNCHANGED <<work, gateStop, latest>>

\* Replanning around a new obstacle fails: the task ends, held or not.
ReplanFails ==
  /\ pc = "polled" /\ work = "planned"
  /\ work' = "none"
  /\ StopRobot
  /\ UNCHANGED <<pc, started, estop, gate, hold, gap, tripped, latest>>

\* The dispatcher passes over agents that are busy or stopped.
Dispatch ==
  /\ pc = "polled" /\ pc' = "turn"
  /\ work' \in IF Tasked \/ estop THEN {work} ELSE {"none", "new", "aimless"}
  /\ UNCHANGED <<started, estop, gate, hold, actuator, gap, tripped, latest>>

EndTurn ==
  /\ pc = "turn" /\ pc' = "ready"
  /\ UNCHANGED <<started, estop, gate, hold, gap, tripped>>

NoTurn ==
  /\ EndTurn
  /\ ~Tasked
  /\ UNCHANGED <<work, actuator, latest>>

RejectStopped ==
  /\ EndTurn
  /\ Tasked /\ estop
  /\ StopRobot
  /\ UNCHANGED <<work, latest>>

LeaveToOperator ==
  /\ EndTurn
  /\ Tasked /\ ~estop /\ hold > 0
  /\ UNCHANGED <<work, actuator, latest>>

Autonomous == Tasked /\ ~estop /\ hold = 0

\* A task without a goal: the turn ends before anything is done.
NoGoal ==
  /\ EndTurn
  /\ Autonomous /\ work = "aimless"
  /\ UNCHANGED <<work, actuator, latest>>

\* A new task is planned for.  The agent sets out in its next turn; this one
\* neither stops the actuator nor sends it anything.
BeginExecution ==
  /\ EndTurn
  /\ Autonomous /\ work = "new"
  /\ work' = "planned"
  /\ UNCHANGED <<actuator, latest>>

\* Yielding, waiting for cells, recovering or dwelling; or the task ends.
Rest ==
  /\ EndTurn
  /\ Autonomous /\ work # "aimless"
  /\ StopRobot
  /\ work' \in {work, "planned", "none"}
  /\ UNCHANGED latest

\* Mutant: a rejected command leaves the robot to itself.
RejectRolling == UNCHANGED <<work, actuator>>

Reject == StopRobot /\ UNCHANGED work

\* The service spins once: at most one new message, or the last one again.
Spun == {latest} \cup Twists

\* Mutant: a velocity that is not finite counts as none.
ChosenInstead(twist) == IF twist \in {"none", "nan"} THEN "auto" ELSE twist

\* Nav2Controller.compute: until Nav2 has sent anything, the local controller.
Chosen(twist) == IF twist = "none" THEN "auto" ELSE twist

\* Drive, and perhaps find that recovery is out of retries, which ends the task
\* and stops the robot after the command.
Drive ==
  /\ EndTurn
  /\ Autonomous /\ work = "planned"
  /\ latest' \in Spun
  /\ IF Accepts("autonomy", Chosen(latest'))
     THEN \/ Apply(Chosen(latest')) /\ UNCHANGED work
          \/ Apply("zero") /\ work' = "none"
     ELSE Reject

Step ==
  \/ Poll \/ ReplanFails \/ Dispatch
  \/ NoTurn \/ RejectStopped \/ LeaveToOperator
  \/ NoGoal \/ BeginExecution \/ Rest \/ Drive

Older == IF age > Timeout THEN age ELSE age + 1

\* Wall time passes, within a step or between two.
WallTick ==
  /\ gap < Stall
  /\ gap' = gap + 1
  /\ age' = IF commanded THEN Older ELSE 0
  /\ UNCHANGED <<pc, started, work, estop, gate, hold, setpoint, commanded,
                 tripped, latest>>

Next == External \/ Step \/ WallTick

Spec == Init /\ [][Next]_vars

-----------------------------------------------------------------------------
(* Properties *)

LockRecord == [mode : AuthorityModes, left : Nat]

TypeOK ==
  /\ pc \in {"ready", "polled", "turn"}
  /\ started \in BOOLEAN /\ commanded \in BOOLEAN /\ tripped \in BOOLEAN
  /\ work \in {"none", "new", "aimless", "planned"}
  /\ estop \in BOOLEAN /\ gateStop \in BOOLEAN
  /\ lock \in LockRecord
  /\ hold \in Nat
  /\ setpoint \in {"zero", "auto", "teleop"}
  /\ age \in 0 .. Timeout + 1
  /\ gap \in 0 .. Stall
  /\ latest \in {"none"} \cup Twists

\* When a poll finds the stream of commands stale, the robot has been stopped:
\* no velocity outlives its command by more than the timeout and one poll.
PollStopsStale ==
  [][pc = "ready" /\ pc' = "polled" /\ Expired => setpoint' = "zero"]_vars

\* The same for an agent without a task, for which there is no other stop: an
\* operator who drives it and then falls silent does not leave it rolling.
IdleRobotStops ==
  [][pc = "ready" /\ pc' = "polled" /\ Expired /\ ~Tasked
       => setpoint' = "zero"]_vars

\* A hold is the operator's until it ends: the steps of the loop do not end it
\* in an emergency stop, and leave the velocity as it is meanwhile - but for a
\* replan that fails, which ends the task of a held agent and stops its robot.
HoldRetained ==
  [][Step /\ hold > 0 /\ ~estop =>
       /\ ~estop'
       /\ hold' > 0 => setpoint' = setpoint \/ ReplanFails]_vars

\* Autonomy may not drive now: the agent is stopped in the registry or the
\* gate, held by an operator, or locked by a higher authority.
Barred == estop \/ gateStop \/ hold > 0 \/ Outranked("autonomy")

\* An agent that is barred has no autonomous velocity left after its turn,
\* whenever and in whatever order it was barred.  Two turns leave what they find
\* (a velocity that outlived a run, say): the one that plans for a new task, and
\* those of a task without a goal.
BarredIsStill ==
  [][pc = "turn" /\ pc' = "ready" /\ Tasked /\ Barred
       => \/ setpoint' # "auto"
          \/ (BeginExecution \/ NoGoal) /\ setpoint' = setpoint]_vars

\* A Nav2 controller that went wrong does not drive, nor does it leave the robot
\* to an earlier velocity: it is at rest after its turn, with the exception of
\* the same two turns, which ask no controller.
BadTwistStops ==
  [][pc = "turn" /\ pc' = "ready" /\ Autonomous /\ latest' = "nan"
       => \/ setpoint' = "zero"
          \/ (BeginExecution \/ NoGoal) /\ setpoint' = setpoint]_vars

\* While the gate stops the agent, nobody sets it in motion.
GateStopBars ==
  [][gateStop /\ setpoint = "zero" => setpoint' = "zero"]_vars

=============================================================================
