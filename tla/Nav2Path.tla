------------------------------ MODULE Nav2Path ------------------------------
(***************************************************************************)
(* Planning by Nav2: Nav2Planner.plan and the ComputePathToPose client     *)
(* behind it.  The call waits three times, for the server, for its goal to *)
(* be accepted and for the result, each time at most TimeoutTicks.  A goal *)
(* that is given up on is not cancelled: the server may accept it, work on *)
(* it and answer it during a later call, which must not take that answer   *)
(* for its own.                                                            *)
(***************************************************************************)
EXTENDS Integers, Sequences

CONSTANTS
  Places,       (* positions                                                *)
  Requests,     (* what plan is called with: a start and a goal             *)
  TimeoutTicks, (* timeout_sec                                              *)
  MaxCalls,     (* bound: calls in a behavior                               *)
  MaxPoses      (* bound: poses of a path                                   *)

VARIABLES
  phase,        (* of the call: "idle", or the wait it is in                *)
  request,      (* its start and goal                                       *)
  waited,       (* ticks in this wait                                       *)
  serverUp,     (* the action server is there                               *)
  goals,        (* the goals sent, in order, with what became of each       *)
  planned       (* what plan returned: waypoints, <<>> for PlannerError     *)

pathVars == <<phase, request, waited, serverUp, goals, planned>>

\* The paths a server finds; with no pose, it found none.
Paths == UNION {[1 .. n -> Places] : n \in 0 .. MaxPoses}

PathInit ==
  /\ phase = "idle"
  /\ request \in Requests
  /\ waited = 0 /\ serverUp = TRUE
  /\ goals = <<>>
  /\ planned = <<>>

-----------------------------------------------------------------------------
(* The call *)

Own == goals[Len(goals)]

Enter(wait) == phase' = wait /\ waited' = 0

Return(waypoints) == Enter("idle") /\ planned' = waypoints

\* Nav2Planner.plan, up to the first wait.
Plan ==
  /\ phase = "idle" /\ Len(goals) < MaxCalls
  /\ Enter("server")
  /\ request' \in Requests
  /\ planned' = <<>>
  /\ UNCHANGED <<serverUp, goals>>

SendGoal ==
  /\ phase = "server" /\ serverUp
  /\ Enter("goal")
  /\ goals' = Append(goals, [status |-> "sent", path |-> <<>>])
  /\ UNCHANGED <<request, serverUp, planned>>

Accepted ==
  /\ phase = "goal" /\ Own.status \in {"accepted", "done"}
  /\ Enter("result")
  /\ UNCHANGED <<request, serverUp, goals, planned>>

Refused ==
  /\ phase = "goal" /\ Own.status = "refused"
  /\ Return(<<>>)
  /\ UNCHANGED <<request, serverUp, goals>>

\* The start is put before a path that begins elsewhere; then the last waypoint,
\* be it the only one, becomes the goal.
Pinned(path) ==
  LET whole == IF path[1] = request.start THEN path
               ELSE <<request.start>> \o path
  IN  [whole EXCEPT ![Len(whole)] = request.goal]

\* Mutant: the result is the last that came in, as the controller does it.
ResultsOfAll == {i \in 1 .. Len(goals) : goals[i].status = "done"}

\* The result is asked for by the handle of the call's own goal.
Results == {i \in {Len(goals)} : goals[i].status = "done"}

\* A path without poses is an error, like no path.
Result ==
  /\ phase = "result"
  /\ \E i \in Results :
       Return(IF goals[i].path = <<>> THEN <<>> ELSE Pinned(goals[i].path))
  /\ UNCHANGED <<request, serverUp, goals>>

\* Mutant: the wait for a result has no limit.
LimitedUnanswered == phase \in {"server", "goal"}

\* Every wait has its limit.
Limited == phase # "idle"

TimeOut ==
  /\ Limited /\ waited = TimeoutTicks
  /\ Return(<<>>)
  /\ UNCHANGED <<request, serverUp, goals>>

Wait ==
  /\ phase # "idle" /\ waited < TimeoutTicks
  /\ waited' = waited + 1
  /\ UNCHANGED <<phase, request, serverUp, goals, planned>>

\* The client in a call.  The clock runs and the process that waits on it is
\* scheduled, so these steps are weakly fair, and nothing of the server is.
Returning == SendGoal \/ Accepted \/ Refused \/ Result \/ TimeOut \/ Wait

-----------------------------------------------------------------------------
(* The server, which no call hurries and no call stops *)

Becomes(i, status, path) ==
  /\ goals' = [goals EXCEPT ![i] = [status |-> status, path |-> path]]
  /\ UNCHANGED <<phase, request, waited, serverUp, planned>>

Decide(i) ==
  /\ serverUp /\ goals[i].status = "sent"
  /\ \E status \in {"accepted", "refused"} : Becomes(i, status, <<>>)

Finish(i) ==
  /\ serverUp /\ goals[i].status = "accepted"
  /\ \E path \in Paths : Becomes(i, "done", path)

ServerComesOrGoes ==
  /\ serverUp' = ~serverUp
  /\ UNCHANGED <<phase, request, waited, goals, planned>>

Server ==
  \/ \E i \in 1 .. Len(goals) : Decide(i) \/ Finish(i)
  \/ ServerComesOrGoes

PathNext == Plan \/ Returning \/ Server

PathSpec == PathInit /\ [][PathNext]_pathVars

-----------------------------------------------------------------------------
(* Properties *)

\* The answer at hand leads from the start of the request to its goal, by way of
\* nothing but the path found for it.  A path that is but one pose at the start
\* gives the goal alone.
Matches ==
  /\ planned[1] = request.start \/ (Len(planned) = 1 /\ Len(Own.path) = 1)
  /\ planned[Len(planned)] = request.goal
  /\ \A i \in 1 .. Len(planned) :
       \/ planned[i] \in {request.start, request.goal}
       \/ \E j \in 1 .. Len(Own.path) : planned[i] = Own.path[j]

\* What a call returns answers its own request, whatever else the server was
\* asked and answers late.
AnswersMatch == phase = "idle" /\ planned # <<>> => Matches

\* A call returns, answered or not: the loop that waits in it goes on.
PlanReturns == (phase # "idle") ~> (phase = "idle")

=============================================================================
