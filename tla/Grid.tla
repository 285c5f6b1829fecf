-------------------------------- MODULE Grid --------------------------------
(***************************************************************************)
(* The occupancy grid and the global planners, as pure operators.          *)
(*                                                                         *)
(* Cells are <<column, row>> pairs.  A plan is the sequence of cells that  *)
(* the waypoints run through, from the start cell to the goal cell.  A     *)
(* position is known up to its cell, taken at the cell's centre.  There is *)
(* no recursive operator here, so that modules with proofs can extend it.  *)
(***************************************************************************)
EXTENDS Integers, Sequences, FiniteSets

CONSTANTS
  Width, Height,   (* OccupancyGrid.width, OccupancyGrid.height             *)
  Inflate,         (* OccupancyGrid.inflate_cells                           *)
  Gridded          (* TRUE: GridAStarPlanner, FALSE: StraightLinePlanner    *)

ASSUME GridAssumption ==
  /\ Width \in Nat \ {0}
  /\ Height \in Nat \ {0}
  /\ Inflate \in Nat
  /\ Gridded \in BOOLEAN

Cells == (0 .. Width - 1) \X (0 .. Height - 1)

Abs(n) == IF n < 0 THEN -n ELSE n

Sign(n) == IF n < 0 THEN -1 ELSE IF n = 0 THEN 0 ELSE 1

Larger(m, n) == IF m < n THEN n ELSE m

\* math.hypot between two cell centres, squared.
SqDist(p, q) == (p[1] - q[1]) * (p[1] - q[1]) + (p[2] - q[2]) * (p[2] - q[2])

\* Chebyshev dilation of blocked cells by inflate_cells.
Dilate(B) ==
  {c \in Cells : \E b \in B : /\ Abs(c[1] - b[1]) <= Inflate
                              /\ Abs(c[2] - b[2]) <= Inflate}

-----------------------------------------------------------------------------
(* A* over the grid *)

\* The move from cell u to an 8-neighbour v, when the cells B are blocked;
\* a diagonal may not cut the corner of a blocked cell.
CanStep(u, v, B) ==
  /\ v # u
  /\ Abs(v[1] - u[1]) <= 1
  /\ Abs(v[2] - u[2]) <= 1
  /\ v \notin B
  /\ <<v[1], u[2]>> \notin B
  /\ <<u[1], v[2]>> \notin B

\* The cells of a route from p to g that avoids B, each of them once.
IsRoute(w, p, g, B) ==
  /\ w \in Seq(Cells)
  /\ w # <<>>
  /\ w[1] = p
  /\ w[Len(w)] = g
  /\ \A i \in 1 .. Len(w) : w[i] \notin B
  /\ \A i \in 1 .. Len(w) - 1 : CanStep(w[i], w[i + 1], B)
  /\ \A i, j \in 1 .. Len(w) : w[i] = w[j] => i = j

\* The candidate routes: the walks from p over free cells that reach g, and
\* never a cell that an earlier one already steps to.
Walks(p, g, B) ==
  LET W[n \in Nat] ==
        IF n = 0
        THEN IF p \in B \/ g \in B THEN {} ELSE {<<p>>}
        ELSE UNION {IF Len(w) < n \/ w[n] = g THEN {w}
                    ELSE {Append(w, c) : c \in {c \in Cells :
                            /\ CanStep(w[n], c, B)
                            /\ \A i \in 1 .. n - 1 :
                                 c # w[i] /\ ~CanStep(w[i], c, B)}} :
                    w \in W[n - 1]}
  IN  {w \in W[Cardinality(Cells) - 1] : IsRoute(w, p, g, B)}

\* Moves cost 1, diagonals the square root of 2 (99/70).
Cost(w) ==
  70 * (Len(w) - 1)
  + 29 * Cardinality({i \in 1 .. Len(w) - 1 : /\ w[i][1] # w[i + 1][1]
                                              /\ w[i][2] # w[i + 1][2]})

\* What GridAStarPlanner may return: a cheapest route, any of them when there
\* are several; none is a PlannerError.  The straight line never fails.
Plans(p, g, B) ==
  IF Gridded
  THEN {w \in Walks(p, g, B) : \A v \in Walks(p, g, B) : Cost(w) <= Cost(v)}
  ELSE {<<p, g>>}

-----------------------------------------------------------------------------
(* Driving along a plan *)

\* One tick of motion from cell p toward the centre of cell t.
StepToward(p, t) == <<p[1] + Sign(t[1] - p[1]), p[2] + Sign(t[2] - p[2])>>

\* Mutant: the last waypoint is dropped too.
AfterReachedAll(path, p) ==
  IF path # <<>> /\ path[1] = p THEN Tail(path) ELSE path

\* _next_waypoint: the head waypoint is dropped once reached, never the last.
AfterReached(path, p) ==
  IF Len(path) > 1 /\ path[1] = p THEN Tail(path) ELSE path

\* The samples taken on the segment from p to t: its length in half cells.
Samples(p, t) ==
  LET d == 4 * SqDist(p, t)
      n == CHOOSE n \in 0 .. d : n * n <= d /\ d < (n + 1) * (n + 1)
  IN  Larger(1, n)

\* The cells met by the samples of the segment from p to t.
SegmentCells(p, t) ==
  LET n == Samples(p, t)
  IN  {c \in Cells : \E i \in 0 .. n : \A k \in 1 .. 2 :
         c[k] = (2 * n * p[k] + n + 2 * i * (t[k] - p[k])) \div (2 * n)}

\* The cells touched by the polyline through the points of pts.
PolylineCells(pts) ==
  UNION {SegmentCells(pts[i], pts[i + 1]) : i \in 1 .. Len(pts) - 1}

\* _costmap_cells_for_agent: the agent at p, the waypoints that are not where
\* it is, and the goal g unless it is the last of them.
CostmapCells(p, path, g) ==
  LET n == Len(path)
      Point(i) == IF i = 0 THEN p ELSE IF i <= n THEN path[i] ELSE g
      kept == {0} \cup {i \in 1 .. n : path[i] # p}
      last == CHOOSE i \in kept : \A j \in kept : j <= i
      points == IF Point(last) = g THEN kept ELSE kept \cup {n + 1}
      legs == {ij \in points \X points :
                 ij[1] < ij[2] /\ \A k \in points : k <= ij[1] \/ ij[2] <= k}
  IN  UNION {SegmentCells(Point(ij[1]), Point(ij[2])) : ij \in legs}

=============================================================================
