----------------------------- MODULE Encounters -----------------------------
(***************************************************************************)
(* Pairs of agents that come close: what the runtime counts as a collision *)
(* or a near miss, and when it sends the agent without right-of-way around *)
(* one that comes toward it.  Positions are cells, of the size the lateral *)
(* limit is given in; how agents come to move is open.                     *)
(***************************************************************************)
EXTENDS Grid

CONSTANTS
  Robots,       (* agent ids, as numbers in the order of right-of-way       *)
  Goals,        (* goals of tasks                                           *)
  HitSq,        (* collision_radius_m, near_miss_radius_m, headon_radius_m, *)
  NearSq,       (*   squared                                                *)
  HeadonSq,
  MaxLateral,   (* max_lateral_m                                            *)
  NoGoal

VARIABLES
  polled,       (* the poll of this tick is over                            *)
  turn,         (* the agent whose turn is next                             *)
  where,        (* the adapters' poses                                      *)
  goal,         (* current_goal, NoGoal for an agent without a task         *)
  colliding,    (* _collision_pairs                                         *)
  near,         (* _near_miss_pairs                                         *)
  inCollision,  (* the agents with AgentState.in_collision                  *)
  rerouted,     (* _headon_rerouted_pairs                                   *)
  missed,       (* the pairs the last poll counted as a near miss           *)
  detours,      (* the pairs the last turn rerouted for                     *)
  stage,        (* auxiliary: how close a pair came since it was apart      *)
  parted        (* auxiliary: the pairs that were apart since a reroute     *)

pairVars == <<polled, turn, where, goal, colliding, near, inCollision, rerouted,
              missed, detours, stage, parted>>
polls == <<colliding, near, inCollision, missed, stage>>

Pairs == {{a, b} : a, b \in Robots} \ {{a} : a \in Robots}

Within(p, sq) == \E a, b \in p : a # b /\ SqDist(where[a], where[b]) <= sq

-----------------------------------------------------------------------------
(* Geometry *)

Minus(p, q) == <<p[1] - q[1], p[2] - q[2]>>
Dot(u, v) == u[1] * v[1] + u[2] * v[2]
Cross(u, v) == u[1] * v[2] - u[2] * v[1]

\* heading_toward, which is along the x axis for no distance.
Toward(p, q) == IF p = q THEN <<1, 0>> ELSE Minus(q, p)

\* Headings 120 degrees apart or more; a heading 45 degrees off at most.
Opposed(u, v) == Dot(u, v) < 0 /\ 4 * Dot(u, v) * Dot(u, v) >= Dot(u, u) * Dot(v, v)
Facing(u, v) == Dot(u, v) > 0 /\ Abs(Cross(u, v)) <= Dot(u, v)

\* perpendicular_distance is at most max_lateral_m.
Beside(p, g, q) ==
  LET u == Minus(g, p)
      v == Minus(q, p)
  IN  IF p = g THEN Dot(v, v) <= MaxLateral * MaxLateral
      ELSE Cross(u, v) * Cross(u, v) <= MaxLateral * MaxLateral * Dot(u, u)

\* is_headon_conflict.
HeadOn(a, b) ==
  LET mine == Toward(where[a], goal[a])
      other == Toward(where[b], goal[b])
  IN  /\ Opposed(mine, other)
      /\ Facing(Toward(where[a], where[b]), mine)
      /\ Facing(Toward(where[b], where[a]), other)
      /\ Beside(where[a], goal[a], where[b])

-----------------------------------------------------------------------------
(* Actions *)

PairsInit ==
  /\ polled = FALSE /\ turn = 1
  /\ where \in [Robots -> Cells]
  /\ goal = [a \in Robots |-> NoGoal]
  /\ colliding = {} /\ near = {} /\ inCollision = {} /\ rerouted = {}
  /\ missed = {} /\ detours = {}
  /\ stage = [p \in Pairs |-> "apart"]
  /\ parted = Pairs

NearNow == {p \in Pairs : Within(p, NearSq)}

\* Mutant: pairs are looked up among those that collide, not those that are near.
NotYetColliding == NearNow \ colliding

\* The pairs that were not near at the last poll.
NewlyNear == NearNow \ near

Hit == {p \in Pairs : Within(p, HitSq)}

Stage(p) ==
  IF ~Within(p, NearSq) THEN "apart"
  ELSE IF Within(p, HitSq) \/ stage[p] = "hit" THEN "hit" ELSE "near"

\* _poll_collisions.
PollCollisions ==
  /\ ~polled /\ polled' = TRUE
  /\ colliding' = Hit
  /\ inCollision' = UNION Hit
  /\ near' = NearNow
  /\ missed' = NewlyNear \ Hit
  /\ stage' = [p \in Pairs |-> Stage(p)]
  /\ detours' = {}
  /\ UNCHANGED <<turn, where, goal, rerouted, parted>>

\* Those that agent a may have to go around: of higher right-of-way, on a task.
Seniors(a) == {b \in Robots : b < a /\ goal[b] # NoGoal}

Apart(a) == {{a, b} : b \in {b \in Seniors(a) : SqDist(where[a], where[b]) > HeadonSq}}

\* Mutant: the pair is not remembered.
ConflictsAgain(a) ==
  {{a, b} : b \in {b \in Seniors(a) :
     SqDist(where[a], where[b]) <= HeadonSq /\ HeadOn(a, b)}}

Conflicts(a) ==
  {{a, b} : b \in {b \in Seniors(a) : /\ SqDist(where[a], where[b]) <= HeadonSq
                                    /\ {a, b} \notin rerouted
                                    /\ HeadOn(a, b)}}

\* The turn of an agent that is executing: it looks for a conflict and moves.
Reroute(a) ==
  /\ goal[a] # NoGoal
  /\ rerouted' = (rerouted \ Apart(a)) \cup Conflicts(a)
  /\ detours' = Conflicts(a)

\* That of one without a task, stopped, held, yielding or recovering.
Ignore == UNCHANGED rerouted /\ detours' = {}

Close(a) == {c \in Cells : SqDist(where[a], c) <= 2}

\* The turn of agent a: it moves, and may get to the end of its task.
Turn(a) ==
  /\ polled /\ turn = a
  /\ Reroute(a) \/ Ignore
  /\ \E c \in Close(a) :
       /\ where' = [where EXCEPT ![a] = c]
       /\ goal' \in {goal} \cup {[goal EXCEPT ![a] = NoGoal]}
  /\ turn' = IF a + 1 \in Robots THEN a + 1 ELSE 1
  /\ polled' = (a + 1 \in Robots)
  /\ parted' = (parted \ detours')
       \cup {p \in Pairs : \E b \in p \ {a} :
                a \in p /\ SqDist(where'[a], where[b]) > HeadonSq}
  /\ UNCHANGED polls

\* The dispatch, between the poll and the turns.
AssignTask(a, g) ==
  /\ polled /\ turn = 1 /\ goal[a] = NoGoal
  /\ goal' = [goal EXCEPT ![a] = g]
  /\ detours' = {}
  /\ UNCHANGED <<polled, turn, where, rerouted, parted, polls>>

PairsNext ==
  \/ PollCollisions
  \/ \E a \in Robots : Turn(a) \/ \E g \in Goals : AssignTask(a, g)

PairsSpec == PairsInit /\ [][PairsNext]_pairVars

-----------------------------------------------------------------------------
(* Properties *)

\* A poll counts as near misses exactly the pairs that have come near, short of
\* a collision, since the poll before it saw them apart: no pair twice on one
\* approach, nor on its way out of a collision, and none that comes back unseen.
MissedOnce ==
  [][~polled /\ polled' =>
       missed' = {p \in Pairs : stage[p] = "apart" /\ stage'[p] = "near"}]_pairVars

\* An agent is sent around another once per approach: again only when they were
\* apart in between.
ReroutedOnce == [][\A p \in detours' : p \in parted]_pairVars

=============================================================================
