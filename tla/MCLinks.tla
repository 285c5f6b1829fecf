------------------------------- MODULE MCLinks -------------------------------
(***************************************************************************)
(* Instances for TLC of what links the runtime to the world outside it:    *)
(* the commands of a robot, the ROS graph, path requests to Nav2, the      *)
(* events a client follows and the runs a benchmark scores.  They share no *)
(* state here, so a behavior is one of a single part and the others rest.  *)
(***************************************************************************)
EXTENDS CommandPath, RosGraph, Nav2Path, EventTail, Benchmarks, TLC

CONSTANTS Parts, Separate

VARIABLES part

\* The namespaces of a scenario: the default /<agent>, or others.
MCNamespace == [a \in Robots |-> IF Separate THEN 10 * a ELSE a]

MCRequests ==
  {[start |-> "dock", goal |-> "bay"], [start |-> "door", goal |-> "dock"]}

Label(e, a, t) == [event |-> e, agent |-> a, task |-> t]

MCLabels ==
  {Label("DONE", "a1", "t1"), Label("DONE", "a2", "t2"), Label("RESET", "", "")}
MCFilters ==
  {Label("DONE", AnyLabel, AnyLabel), Label(AnyLabel, "a1", AnyLabel),
   Label(AnyLabel, AnyLabel, "")}

\* Scenario 2's name ends in that of scenario 1; a suite may run one twice.
MCSuites == {<<1, 2>>, <<2, 1>>, <<1, 1>>}
MCEndsWith == {<<2, 1>>}

\* What a part rests at while another runs.
LinksInit ==
  /\ part \in Parts
  /\ Init
  /\ RosInit
  /\ PathInit
  /\ part # "paths" => request = [start |-> "dock", goal |-> "bay"]
  /\ TailInit
  /\ part # "tail" => filter = Label("DONE", AnyLabel, AnyLabel)
  /\ BenchInit
  /\ part # "bench" => suite = <<1, 2>>

CommandsRun == Next /\ UNCHANGED <<part, rosVars, pathVars, tailVars, benchVars>>
RosRuns == RosNext /\ UNCHANGED <<part, vars, pathVars, tailVars, benchVars>>
PathsRun == PathNext /\ UNCHANGED <<part, vars, rosVars, tailVars, benchVars>>
TailRuns == TailNext /\ UNCHANGED <<part, vars, rosVars, pathVars, benchVars>>
BenchRuns == BenchNext /\ UNCHANGED <<part, vars, rosVars, pathVars, tailVars>>

LinksNext ==
  \/ part = "commands" /\ CommandsRun
  \/ part = "ros" /\ RosRuns
  \/ part = "paths" /\ PathsRun
  \/ part = "tail" /\ TailRuns
  \/ part = "bench" /\ BenchRuns

LinksSpec ==
  /\ LinksInit
  /\ [][LinksNext]_<<part, vars, rosVars, pathVars, tailVars, benchVars>>
  /\ WF_rosVars(part = "ros" /\ RosLoop /\ UNCHANGED part)
  /\ WF_pathVars(part = "paths" /\ Returning)
=============================================================================
