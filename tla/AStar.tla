------------------------------- MODULE AStar --------------------------------
(***************************************************************************)
(* The search _astar makes, against the cheapest routes Grid!Plans stands  *)
(* for.  A cell whose score improves is pushed again; its older entries    *)
(* stay in the heap and are expanded when their turn comes.  Among entries *)
(* of equal score any may come first: sums of floats decide it.            *)
(***************************************************************************)
EXTENDS Grid

CONSTANTS
  Queries,      (* the searches: start, goal and walls, which hold neither  *)
  NoScore, NoCell

ASSUME SearchAssumption ==
  /\ Gridded
  /\ Queries \subseteq [start : Cells, goal : Cells, walls : SUBSET Cells]
  /\ \A q \in Queries : q.start \notin q.walls /\ q.goal \notin q.walls
  /\ NoScore \notin Nat /\ NoCell \notin Cells

VARIABLES
  query,        (* the arguments                                            *)
  open,         (* open_heap: the score and the cell of each entry          *)
  cameFrom,     (* came_from, NoCell for a cell it lacks                    *)
  gScore,       (* g_score, NoScore for a cell it lacks                     *)
  ended,        (* _astar has returned                                      *)
  result        (* what it returned: a route, or <<>> when there is none    *)

searchVars == <<query, open, cameFrom, gScore, ended, result>>

StepCost(u, v) == IF u[1] # v[1] /\ u[2] # v[2] THEN 99 ELSE 70

\* Mutant: the distance along rows and columns, too much for a diagonal.
ManhattanToo(u) ==
  70 * (Abs(u[1] - query.goal[1]) + Abs(u[2] - query.goal[2]))

\* _heuristic, the octile distance to the goal.
Heuristic(u) ==
  LET dx == Abs(u[1] - query.goal[1])
      dy == Abs(u[2] - query.goal[2])
  IN  70 * (dx + dy) - 41 * (dx + dy - Larger(dx, dy))

SearchInit ==
  /\ query \in Queries
  /\ open = {<<0, query.start>>}
  /\ cameFrom = [c \in Cells |-> NoCell]
  /\ gScore = [c \in Cells |-> IF c = query.start THEN 0 ELSE NoScore]
  /\ ended = FALSE /\ result = <<>>

\* _reconstruct: the route to c, from its end to a cell without a parent.
Longer(w) ==
  IF cameFrom[w[1]] = NoCell THEN w ELSE <<cameFrom[w[1]]>> \o w

Route(c) ==
  LET R[n \in Nat] == IF n = 0 THEN <<c>> ELSE LET w == R[n - 1] IN Longer(w)
  IN  R[Cardinality(Cells)]

Least == {e \in open : \A f \in open : e[1] <= f[1]}

\* The way over u to its neighbour v is shorter than any known so far.
Better(u, v) ==
  gScore[v] = NoScore \/ gScore[u] + StepCost(u, v) < gScore[v]

Improved(u) == {v \in Cells : CanStep(u, v, query.walls) /\ Better(u, v)}

\* Mutant: every neighbour becomes a child, improved or not.
ReparentedAll(u) == {v \in Cells : CanStep(u, v, query.walls)}

Reparented(u) == Improved(u)

Popped(e) == open \ {e}

Finish(e) ==
  /\ ~ended
  /\ e \in Least /\ e[2] = query.goal
  /\ ended' = TRUE /\ result' = Route(query.goal)
  /\ open' = Popped(e)
  /\ UNCHANGED <<query, cameFrom, gScore>>

Expand(e) ==
  /\ ~ended
  /\ e \in Least /\ e[2] # query.goal
  /\ LET u == e[2]
         through == [v \in Improved(u) |-> gScore[u] + StepCost(u, v)]
     IN  /\ cameFrom' = [v \in Cells |-> IF v \in Reparented(u) THEN u
                                         ELSE cameFrom[v]]
         /\ gScore' = [v \in Cells |-> IF v \in Improved(u) THEN through[v]
                                       ELSE gScore[v]]
         /\ open' = Popped(e)
                    \cup {<<through[v] + Heuristic(v), v>> : v \in Improved(u)}
  /\ UNCHANGED <<query, ended, result>>

\* No way leads to the goal.
Fail ==
  /\ ~ended
  /\ open = {}
  /\ ended' = TRUE
  /\ UNCHANGED <<query, open, cameFrom, gScore, result>>

SearchNext ==
  \/ \E e \in open : Finish(e) \/ Expand(e)
  \/ Fail

SearchSpec == SearchInit /\ [][SearchNext]_searchVars

-----------------------------------------------------------------------------
(* Properties *)

\* The search returns a cheapest route, whichever it finds among equals, and
\* none only if there is none.
FindsCheapest ==
  LET plans == Plans(query.start, query.goal, query.walls)
  IN  ended => IF result = <<>> THEN plans = {} ELSE result \in plans

\* Following came_from from any cell that was reached leads to the start over
\* steps that are allowed, at a cost no higher than the score: parents that are
\* replaced while old entries wait in the heap never make a circle.
ParentsLeadToStart ==
  \A c \in Cells : gScore[c] # NoScore =>
    /\ IsRoute(Route(c), query.start, c, query.walls)
    /\ Cost(Route(c)) <= gScore[c]

=============================================================================
