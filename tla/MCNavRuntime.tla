---------------------------- MODULE MCNavRuntime ----------------------------
(***************************************************************************)
(* Instances of NavRuntime for TLC: one or two agents on grids of three to *)
(* nine cells.  A configuration picks one value per constant.              *)
(***************************************************************************)
EXTENDS NavProperties, TLC

CONSTANTS t1, t2, t3

\* Two agents that pass each other, and a task for whoever is free.
CrossingSpawn == (1 :> <<0, 0>>) @@ (2 :> <<2, 0>>)
Goals == (t1 :> <<2, 0>>) @@ (t2 :> <<0, 0>>) @@ (t3 :> <<0, 1>>)
CrossingGoal == [t \in Tasks |-> Goals[t]]

\* The same on four columns.
WideSpawn == (1 :> <<0, 0>>) @@ (2 :> <<3, 1>>)
WideGoals == (t1 :> <<3, 0>>) @@ (t2 :> <<0, 1>>) @@ (t3 :> <<0, 0>>)
WideGoal == [t \in Tasks |-> WideGoals[t]]

\* The same on a single row of three cells.
LineGoals == (t1 :> <<2, 0>>) @@ (t2 :> <<0, 0>>) @@ (t3 :> <<1, 0>>)
LineGoal == [t \in Tasks |-> LineGoals[t]]

\* One agent.
SoloSpawn == 1 :> <<0, 0>>

\* Tasks on the row of which the second has no goal.
AimlessGoal == [LineGoal EXCEPT ![t2] = NoCell]

\* Ticks of turning in place before a robot moves; with a stuck window of two
\* ticks, the second is one too many.
NeverTurns == [a \in Agents |-> 0]
TurnsOnce == [a \in Agents |-> 1]
TurnsTwice == [a \in Agents |-> 2]
FirstTurns == [a \in Agents |-> IF a = 1 THEN 1 ELSE 0]

\* Dwell times in ticks.
NoDwell == [t \in Tasks |-> 0]
DwellOne == [t \in Tasks |-> IF t = t1 THEN 1 ELSE 0]
DwellTwo == [t \in Tasks |-> IF t = t1 THEN 2 ELSE 0]

SamePriority == [t \in Tasks |-> 0]
UrgentThird == [t \in Tasks |-> IF t = t3 THEN 5 ELSE 1]

\* Tasks for any agent, one for a named agent, two for named agents.
AnyAgent == [t \in Tasks |-> Agents]
OneNamed == [t \in Tasks |-> IF t = t1 THEN {1} ELSE Agents]
OwnAgent ==
  [t \in Tasks |-> IF t = t1 THEN {1} ELSE IF t = t2 THEN {2} ELSE Agents]

\* Scripted obstacles; a cell outside the grid is ignored by the grid.
AsideDelta == {{<<2, 1>>}}
RowDelta == {{<<1, 0>>}}
\* The second leaves a passage one cell wide on the 4 x 2 grid.
TwoDeltas == {{<<3, 0>>}, {<<1, 1>>, <<9, 9>>}}
=============================================================================
