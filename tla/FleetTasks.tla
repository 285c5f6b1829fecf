----------------------------- MODULE FleetTasks -----------------------------
(***************************************************************************)
(* What the fleet promises of tasks, without grids, poses or the step      *)
(* loop: accepted tasks stand in one line; an agent that is given a task   *)
(* gets the first in line it may take; a task ends once, and succeeds only *)
(* in the hands of the agent that executed it.                             *)
(***************************************************************************)
EXTENDS Integers, Sequences

CONSTANTS Agents, Tasks, NoTask, TaskPriority, TaskEligible

VARIABLES
  line,     (* the tasks that wait, in the order in which they are served   *)
  phase,    (* by task: "none", "assigned", "executing" or its outcome      *)
  holder    (* by agent: the task it has, or NoTask                         *)

vars == <<line, phase, holder>>

InLine(t) == \E i \in 1 .. Len(line) : line[i] = t

\* Sequences with t put in behind the first k, and with the i-th taken out.
With(s, k, t) ==
  [i \in 1 .. Len(s) + 1 |-> IF i <= k THEN s[i]
                             ELSE IF i = k + 1 THEN t
                             ELSE s[i - 1]]

Without(s, i) ==
  [k \in 1 .. Len(s) - 1 |-> IF k < i THEN s[k] ELSE s[k + 1]]

Init ==
  /\ line = <<>>
  /\ phase = [t \in Tasks |-> "none"]
  /\ holder = [a \in Agents |-> NoTask]

\* A new task takes its place in the line: behind all that are as urgent as it
\* is, and before all that are less.
Accept(t) ==
  /\ phase[t] = "none"
  /\ ~InLine(t)
  /\ \E k \in 0 .. Len(line) :
       /\ \A i \in 1 .. k : TaskPriority[line[i]] >= TaskPriority[t]
       /\ \A i \in k + 1 .. Len(line) : TaskPriority[line[i]] < TaskPriority[t]
       /\ line' = With(line, k, t)
  /\ UNCHANGED <<phase, holder>>

\* An agent without a task gets the i-th in line, which it may take; those
\* before it in line are for other agents.
Give(i, a) ==
  /\ holder[a] = NoTask
  /\ a \in TaskEligible[line[i]]
  /\ \A j \in 1 .. i - 1 : a \notin TaskEligible[line[j]]
  /\ line' = Without(line, i)
  /\ holder' = [holder EXCEPT ![a] = line[i]]
  /\ phase' = [phase EXCEPT ![line[i]] = "assigned"]

Start(a) ==
  /\ holder[a] # NoTask
  /\ phase[holder[a]] = "assigned"
  /\ phase' = [phase EXCEPT ![holder[a]] = "executing"]
  /\ UNCHANGED <<line, holder>>

\* A task ends; it succeeds only if its agent executed it.
Finish(a, outcome) ==
  /\ holder[a] # NoTask
  /\ outcome = "succeeded" => phase[holder[a]] = "executing"
  /\ phase' = [phase EXCEPT ![holder[a]] = outcome]
  /\ holder' = [holder EXCEPT ![a] = NoTask]
  /\ UNCHANGED line

Held(t) == \E a \in Agents : holder[a] = t

\* Time is up: everything that waits or is under way fails.
Abandon ==
  /\ line' = <<>>
  /\ holder' = [a \in Agents |-> NoTask]
  /\ phase' = [t \in Tasks |-> IF InLine(t) \/ Held(t) THEN "failed"
                               ELSE phase[t]]

Next ==
  \/ \E t \in Tasks : Accept(t)
  \/ \E i \in 1 .. Len(line), a \in Agents : Give(i, a)
  \/ \E a \in Agents : Start(a)
  \/ \E a \in Agents, outcome \in {"succeeded", "failed"} : Finish(a, outcome)
  \/ Abandon

Spec == Init /\ [][Next]_vars

=============================================================================
