------------------------------ MODULE RosGraph ------------------------------
(***************************************************************************)
(* Real robots under `gnav run --ros --backend ros2_robot`: the two ROS    *)
(* nodes of the process, the robot node whose transports talk to the       *)
(* robots and the bridge that listens to operators and reports to them,    *)
(* and the loop that runs both.                                            *)
(*                                                                         *)
(* The robot node speaks on /<agent>/cmd_vel and hears /<agent>/odom; the  *)
(* bridge hears <namespace>/cmd_vel and speaks on <namespace>/odom.  A     *)
(* topic is named by its first part, as each name is used for one type.    *)
(* Every subscription has a queue that keeps the last Depth messages, and  *)
(* a spin calls at most one callback of a node.  A pose is the number of   *)
(* the sample that reported it, 0 before the first; a twist counts only as *)
(* a message.                                                              *)
(***************************************************************************)
EXTENDS Integers, Sequences

CONSTANTS
  Robots,       (* agent ids                                                *)
  Namespace,    (* AgentSpec.namespace, distinct for distinct agents        *)
  Depth,        (* depth of a subscription's queue, 10 in the code          *)
  HoldTime,     (* teleop_hold_sec, in steps                                *)
  Verdicts,     (* verdicts of the command gate, FALSE for a rejection      *)
  MaxTwists,    (* bound: twists operators send                             *)
  MaxSamples    (* bound: odom samples a robot sends                        *)

ASSUME RosAssumption ==
  /\ Depth \in Nat \ {0}
  /\ HoldTime \in Nat
  /\ MaxTwists \in Nat /\ MaxSamples \in Nat

VARIABLES
  stage,        (* where the loop is: "step", "robots", "publish", "bridge" *)
  holding,      (* steps left until _teleop_hold_until                      *)
  pose,         (* AgentState.pose                                          *)
  heard,        (* the transport's last pose                                *)
  odom,         (* the queue of the transport's odom subscription           *)
  twists,       (* the length of that of the bridge's cmd_vel subscription  *)
  sampled,      (* the robot's last sample                                  *)
  sent          (* twists operators have sent                               *)

rosVars == <<stage, holding, pose, heard, odom, twists, sampled, sent>>

\* Mutant: the transport takes its topics from the scenario's namespace.
TransportInNamespace(a) == Namespace[a]

\* The first part of a transport's topics, whatever the namespace.
Transport(a) == a

\* Mutant: a full queue refuses what is new.
QueuedIfRoom(queue, message) ==
  IF Len(queue) < Depth THEN Append(queue, message) ELSE queue

\* A full queue drops its oldest message.
Queued(queue, message) ==
  Append(IF Len(queue) < Depth THEN queue ELSE Tail(queue), message)

\* The bridge's queues after n[a] more twists on the topic of each agent.
Counted(n) ==
  [a \in Robots |-> IF twists[a] + n[a] > Depth THEN Depth ELSE twists[a] + n[a]]

\* What the bridge hears when the transports of these agents publish.
Overheard(speakers) ==
  [a \in Robots |-> IF \E b \in speakers : Transport(b) = Namespace[a]
                    THEN 1 ELSE 0]

\* What the transports hear when the bridge publishes all poses.
Echoed(queues) ==
  [a \in Robots |->
     IF \E b \in Robots : Namespace[b] = Transport(a)
     THEN Queued(queues[a],
                 pose[CHOOSE b \in Robots : Namespace[b] = Transport(a)])
     ELSE queues[a]]

\* The bridge publishes the poses once before the loop.
RosInit ==
  /\ stage = "step"
  /\ holding = [a \in Robots |-> 0]
  /\ pose = [a \in Robots |-> 0] /\ heard = pose
  /\ odom = Echoed([a \in Robots |-> <<>>])
  /\ twists = [a \in Robots |-> 0]
  /\ sampled = [a \in Robots |-> 0] /\ sent = 0

Elapsed(n) == IF n = 0 THEN 0 ELSE n - 1

\* Ros2RobotAdapter.read_pose: before the first sample, the pose 0.
ReadPose(a) == heard[a]

\* Runtime.step, seen from here: the poses of agents with a task are read, and
\* some agents are sent a velocity or a stop.
RuntimeStep ==
  /\ stage = "step" /\ stage' = "robots"
  /\ holding' = [a \in Robots |-> Elapsed(holding[a])]
  /\ \E busy \in SUBSET Robots :
       pose' = [a \in Robots |-> IF a \in busy THEN ReadPose(a) ELSE pose[a]]
  /\ \E told \in SUBSET Robots : twists' = Counted(Overheard(told))
  /\ UNCHANGED <<heard, odom, sampled, sent>>

OnOdom(a) ==
  /\ odom[a] # <<>>
  /\ heard' = [heard EXCEPT ![a] = Head(odom[a])]
  /\ odom' = [odom EXCEPT ![a] = Tail(@)]

\* Ros2RobotBackend.step: one callback, of any transport with a message.
SpinRobots ==
  /\ stage = "robots" /\ stage' = "publish"
  /\ \/ /\ \A a \in Robots : odom[a] = <<>>
        /\ UNCHANGED <<heard, odom>>
     \/ \E a \in Robots : OnOdom(a)
  /\ UNCHANGED <<holding, pose, twists, sampled, sent>>

PublishStates ==
  /\ stage = "publish" /\ stage' = "bridge"
  /\ odom' = Echoed(odom)
  /\ UNCHANGED <<holding, pose, heard, twists, sampled, sent>>

\* RosBridge._on_cmd_vel and the submit_teleop_command behind it.
OnCmdVel(a) ==
  /\ twists[a] > 0
  /\ \/ /\ TRUE \in Verdicts
        /\ holding' = [holding EXCEPT ![a] = HoldTime]
        /\ pose' = [pose EXCEPT ![a] = ReadPose(a)]
        /\ twists' = Counted([Overheard({a}) EXCEPT ![a] = @ - 1])
     \/ /\ FALSE \in Verdicts
        /\ twists' = [twists EXCEPT ![a] = @ - 1]
        /\ UNCHANGED <<holding, pose>>

\* RosBridge.spin_once: one callback, of any agent with a message.
SpinBridge ==
  /\ stage = "bridge" /\ stage' = "step"
  /\ \/ /\ \A a \in Robots : twists[a] = 0
        /\ UNCHANGED <<holding, pose, twists>>
     \/ \E a \in Robots : OnCmdVel(a)
  /\ UNCHANGED <<heard, odom, sampled, sent>>

RosLoop == RuntimeStep \/ SpinRobots \/ PublishStates \/ SpinBridge

-----------------------------------------------------------------------------
(* Operators and robots *)

OperatorSends(a) ==
  /\ sent < MaxTwists /\ sent' = sent + 1
  /\ twists' = Counted([b \in Robots |-> IF b = a THEN 1 ELSE 0])
  /\ UNCHANGED <<stage, holding, pose, heard, odom, sampled>>

RobotReports(a) ==
  /\ sampled[a] < MaxSamples
  /\ sampled' = [sampled EXCEPT ![a] = @ + 1]
  /\ odom' = [odom EXCEPT ![a] = Queued(@, sampled'[a])]
  /\ UNCHANGED <<stage, holding, pose, heard, twists, sent>>

RosNext == RosLoop \/ \E a \in Robots : OperatorSends(a) \/ RobotReports(a)

RosSpec == RosInit /\ [][RosNext]_rosVars

-----------------------------------------------------------------------------
(* Properties, of a loop that goes on running *)

\* Operators stop sending sooner or later here, and then autonomy resumes: the
\* last hold ends and nothing starts another.
AutonomyResumes == <>[](\A a \in Robots : holding[a] = 0)

\* However far the loop falls behind the robots, and whatever the queues drop,
\* each robot ends up known where it reported to be last.
PosesCatchUp == <>[](heard = sampled)

=============================================================================
