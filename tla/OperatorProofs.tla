---------------------------- MODULE OperatorProofs ----------------------------
(***************************************************************************)
(* What the operators of Grid and PendingTasks return: plans on any grid,  *)
(* the cells that following one touches, and what submitting a task does   *)
(* to any queue.                                                           *)
(***************************************************************************)
EXTENDS Grid, PendingTasks, SequenceTheorems, FiniteSetTheorems, TLAPS

-----------------------------------------------------------------------------
(* Grid *)

\* The cells blocked around B are cells of the grid.
LEMMA DilateType == \A B : Dilate(B) \subseteq Cells
BY DEF Dilate

\* Every plan is a sequence of cells: A* returns routes only, and the straight
\* line joins two cells.
THEOREM PlansAreCellSequences ==
  ASSUME NEW p \in Cells, NEW g \in Cells, NEW B
  PROVE  Plans(p, g, B) \subseteq Seq(Cells)
<1>1. Walks(p, g, B) \subseteq Seq(Cells)
  BY DEF Walks, IsRoute
<1>2. <<p, g>> \in Seq(Cells)
  OBVIOUS
<1>3. QED
  BY <1>1, <1>2 DEF Plans

\* Every plan ends at the goal: A* returns routes to it only, and the straight
\* line is drawn to it.
LEMMA PlansEndAtGoal ==
  ASSUME NEW p \in Cells, NEW g \in Cells, NEW B, NEW w \in Plans(p, g, B)
  PROVE  w # <<>> /\ w[Len(w)] = g
<1>1. CASE Gridded
  <2>1. w \in Walks(p, g, B)
    BY <1>1 DEF Plans
  <2>2. QED
    BY <2>1 DEF Walks, IsRoute
<1>2. CASE ~Gridded
  <2>1. w = <<p, g>>
    BY <1>2 DEF Plans
  <2>2. QED
    BY <2>1
<1>3. QED
  BY <1>1, <1>2

\* One tick of motion between cells of the grid ends in the grid.
LEMMA StepTowardType ==
  ASSUME NEW p \in Cells, NEW t \in Cells
  PROVE  StepToward(p, t) \in Cells
BY GridAssumption DEF Cells, StepToward, Sign

\* Dropping a reached waypoint leaves a sequence of cells.
LEMMA AfterReachedType ==
  ASSUME NEW p, NEW path \in Seq(Cells)
  PROVE  AfterReached(path, p) \in Seq(Cells)
<1>1. CASE Len(path) > 1
  <2>1. path # <<>>
    BY <1>1, EmptySeq
  <2>2. QED
    BY <2>1, HeadTailProperties DEF AfterReached
<1>2. CASE ~(Len(path) > 1)
  BY <1>2 DEF AfterReached
<1>3. QED
  BY <1>1, <1>2

\* It also leaves the last waypoint where it is.
LEMMA AfterReachedEnd ==
  ASSUME NEW p, NEW path \in Seq(Cells), path # <<>>
  PROVE  /\ AfterReached(path, p) # <<>>
         /\ AfterReached(path, p)[Len(AfterReached(path, p))] = path[Len(path)]
<1>1. CASE Len(path) > 1
  <2>1. /\ Tail(path) \in Seq(Cells)
        /\ Len(Tail(path)) = Len(path) - 1
        /\ \A i \in 1 .. Len(Tail(path)) : Tail(path)[i] = path[i + 1]
    BY HeadTailProperties
  <2>2. /\ Len(Tail(path)) \in 1 .. Len(Tail(path))
        /\ Len(Tail(path)) + 1 = Len(path)
        /\ Len(Tail(path)) # 0
    BY <1>1, <2>1, LenProperties
  <2>3. Tail(path)[Len(Tail(path))] = path[Len(path)]
    <3> DEFINE n == Len(Tail(path))
    <3>1. Tail(path)[n] = path[n + 1]
      BY <2>1, <2>2
    <3>2. QED
      BY <2>2, <3>1
  <2>4. Tail(path) # <<>>
    <3> SUFFICES ASSUME Tail(path) = <<>> PROVE FALSE
      OBVIOUS
    <3>1. Len(Tail(path)) = 0
      BY EmptySeq
    <3>2. QED
      BY <2>2, <3>1
  <2>5. AfterReached(path, p) \in {path, Tail(path)}
    BY DEF AfterReached
  <2>6. QED
    BY <2>3, <2>4, <2>5
<1>2. CASE ~(Len(path) > 1)
  BY <1>2 DEF AfterReached
<1>3. QED
  BY <1>1, <1>2

\* The cells a segment meets are cells of the grid.
LEMMA SegmentCellsType == \A p, t : SegmentCells(p, t) \subseteq Cells
BY DEF SegmentCells

\* So are those of a polyline.
LEMMA PolylineCellsType == \A pts : PolylineCells(pts) \subseteq Cells
BY SegmentCellsType DEF PolylineCells

\* So are the cells an agent reserves.
LEMMA CostmapCellsType == \A p, path, g : CostmapCells(p, path, g) \subseteq Cells
BY SegmentCellsType DEF CostmapCells

-----------------------------------------------------------------------------
(* Following a route over the grid *)

\* What is left to do of a plan: from where the agent is, every point once.
FullPath(p, path) == IF path # <<>> /\ path[1] = p THEN path ELSE <<p>> \o path

\* A way to g in single steps that never meets a cell twice.
IsTrack(w, g) ==
  /\ w \in Seq(Cells)
  /\ w # <<>>
  /\ w[Len(w)] = g
  /\ \A i \in 1 .. Len(w) - 1 : CanStep(w[i], w[i + 1], {})
  /\ \A i, j \in 1 .. Len(w) : w[i] = w[j] => i = j

\* The cells met on the way, the first one in any case.
Touched(w) == PolylineCells(w) \cup {w[1]}

\* Cells one step apart are two half cells away from each other, or between two
\* and three.
LEMMA StepSamples ==
  ASSUME NEW u \in Cells, NEW v \in Cells, CanStep(u, v, {})
  PROVE  Samples(u, v) = 2
<1> DEFINE a == v[1] - u[1]
           b == v[2] - u[2]
           d == 4 * SqDist(u, v)
           P(n) == n * n <= d /\ d < (n + 1) * (n + 1)
<1>1. /\ u[1] \in Int /\ u[2] \in Int /\ v[1] \in Int /\ v[2] \in Int
      /\ u = <<u[1], u[2]>> /\ v = <<v[1], v[2]>>
  BY DEF Cells
<1>2. a \in {-1, 0, 1} /\ b \in {-1, 0, 1}
  BY <1>1 DEF CanStep, Abs
<1>3. ~(a = 0 /\ b = 0)
  BY <1>1 DEF CanStep
<1>4. u[1] - v[1] = -a /\ u[2] - v[2] = -b
  BY <1>1
<1>5. d = 4 * ((-a) * (-a) + (-b) * (-b))
  BY <1>4 DEF SqDist
<1>6. d \in {4, 8}
  <2>1. (-a) * (-a) \in {0, 1} /\ ((-a) * (-a) = 0 <=> a = 0)
    BY <1>2
  <2>2. (-b) * (-b) \in {0, 1} /\ ((-b) * (-b) = 0 <=> b = 0)
    BY <1>2
  <2> HIDE DEF a, b
  <2>3. QED
    BY <1>3, <1>5, <2>1, <2>2
<1> HIDE DEF d
<1>7. 2 \in 0 .. d /\ P(2)
  BY <1>6
<1>8. ASSUME NEW n \in 0 .. d, P(n)
      PROVE  n = 2
  <2>1. n \in 0 .. 8
    BY <1>6
  <2>2. n \in {0, 1, 2, 3, 4, 5, 6, 7, 8}
    BY <2>1
  <2>3. QED
    BY <1>6, <1>8, <2>2
<1>9. (CHOOSE n \in 0 .. d : P(n)) = 2
  BY <1>7, <1>8
<1>10. Samples(u, v) = Larger(1, CHOOSE n \in 0 .. d : P(n))
  BY DEF Samples, d
<1>11. Larger(1, 2) = 2
  BY DEF Larger
<1>12. QED
  BY <1>9, <1>10, <1>11, Zenon

\* The samples of a step at the start, halfway and at the end, rounded.
LEMMA StepRounded ==
  ASSUME NEW x \in Int, NEW y \in {x, x + 1, x - 1}
  PROVE  /\ (2 * 2 * x + 2 + 2 * 0 * (y - x)) \div (2 * 2) = x
         /\ (2 * 2 * x + 2 + 2 * 1 * (y - x)) \div (2 * 2) \in {x, y}
         /\ (2 * 2 * x + 2 + 2 * 2 * (y - x)) \div (2 * 2) = y
<1>1. /\ 2 * 2 * x + 2 + 2 * 0 * (y - x) = 4 * x + 2
      /\ 2 * 2 * x + 2 + 2 * 1 * (y - x) = 2 * x + 2 * y + 2
      /\ 2 * 2 * x + 2 + 2 * 2 * (y - x) = 4 * y + 2
      /\ 2 * 2 = 4
  OBVIOUS
<1>2. (4 * x + 2) \div 4 = x /\ (4 * y + 2) \div 4 = y
  OBVIOUS
<1>3. (2 * x + 2 * y + 2) \div 4 \in {x, y}
  OBVIOUS
<1>4. QED
  BY <1>1, <1>2, <1>3

\* A single step meets the two cells, and at most the corners between them.
LEMMA StepCells ==
  ASSUME NEW u \in Cells, NEW v \in Cells, CanStep(u, v, {})
  PROVE  /\ SegmentCells(u, v) \subseteq
              {u, v, <<v[1], u[2]>>, <<u[1], v[2]>>}
         /\ u \in SegmentCells(u, v)
         /\ v \in SegmentCells(u, v)
<1> DEFINE At(i, k) == (2 * 2 * u[k] + 2 + 2 * i * (v[k] - u[k])) \div (2 * 2)
<1>1. /\ \A k \in 1 .. 2 : u[k] \in Int /\ v[k] \in Int
      /\ u = <<u[1], u[2]>> /\ v = <<v[1], v[2]>>
  BY DEF Cells
<1>2. SegmentCells(u, v) =
        {c \in Cells : \E i \in 0 .. 2 : \A k \in 1 .. 2 : c[k] = At(i, k)}
  BY StepSamples DEF SegmentCells
<1>3. \A k \in 1 .. 2 : v[k] - u[k] \in {-1, 0, 1}
  BY <1>1 DEF CanStep, Abs
<1>4. ASSUME NEW k \in 1 .. 2
      PROVE  At(0, k) = u[k] /\ At(2, k) = v[k] /\ At(1, k) \in {u[k], v[k]}
  <2>1. u[k] \in Int /\ v[k] \in {u[k], u[k] + 1, u[k] - 1}
    BY <1>1, <1>3
  <2>2. QED
    BY <2>1, StepRounded
<1> HIDE DEF At
<1>5. u \in SegmentCells(u, v) /\ v \in SegmentCells(u, v)
  BY <1>2, <1>4
<1>6. ASSUME NEW c \in SegmentCells(u, v)
      PROVE  c \in {u, v, <<v[1], u[2]>>, <<u[1], v[2]>>}
  <2>1. PICK i \in 0 .. 2 : \A k \in 1 .. 2 : c[k] = At(i, k)
    BY <1>2
  <2>2. \A k \in 1 .. 2 : At(i, k) \in {u[k], v[k]}
    BY <1>4
  <2>3. c[1] \in {u[1], v[1]} /\ c[2] \in {u[2], v[2]}
    BY <2>1, <2>2
  <2>4. c = <<c[1], c[2]>>
    BY <1>2 DEF Cells
  <2>5. QED
    BY <1>1, <2>3, <2>4
<1>7. QED
  BY <1>5, <1>6

\* A segment without a length meets the cell it is in.
LEMMA PointCells ==
  ASSUME NEW u \in Cells
  PROVE  SegmentCells(u, u) = {u}
<1>1. /\ \A k \in 1 .. 2 : u[k] \in Int
      /\ u = <<u[1], u[2]>>
  BY DEF Cells
<1>2. SqDist(u, u) = 0
  BY <1>1 DEF SqDist
<1>3. Samples(u, u) = 1
  BY <1>2 DEF Samples, Larger
<1>4. \A k \in 1 .. 2, i \in 0 .. 1 :
        (2 * 1 * u[k] + 1 + 2 * i * (u[k] - u[k])) \div (2 * 1) = u[k]
  <2>1. \A k \in 1 .. 2, i \in 0 .. 1 :
          /\ 2 * i * (u[k] - u[k]) = 0
          /\ (2 * 1 * u[k] + 1 + 0) \div (2 * 1) = u[k]
    BY <1>1
  <2>2. QED
    BY <2>1
<1>5. SegmentCells(u, u) =
        {c \in Cells : \E i \in 0 .. 1 : \A k \in 1 .. 2 : c[k] = u[k]}
  BY <1>3, <1>4 DEF SegmentCells
<1>6. \A c \in Cells : c = <<c[1], c[2]>>
  BY DEF Cells
<1>7. QED
  BY <1>1, <1>5, <1>6

\* A step that cuts no blocked corner meets no blocked cell.
LEMMA StepClear ==
  ASSUME NEW B, NEW u \in Cells \ B, NEW v \in Cells, CanStep(u, v, B)
  PROVE  /\ CanStep(u, v, {})
         /\ SegmentCells(u, v) \cap B = {}
<1>1. CanStep(u, v, {})
  BY DEF CanStep
<1>2. SegmentCells(u, v) \subseteq {u, v, <<v[1], u[2]>>, <<u[1], v[2]>>}
  BY <1>1, StepCells
<1>3. QED
  BY <1>1, <1>2 DEF CanStep

\* A route is a track that meets no blocked cell.
LEMMA RouteIsTrack ==
  ASSUME NEW p, NEW g, NEW B, NEW w, IsRoute(w, p, g, B)
  PROVE  /\ IsTrack(w, g)
         /\ w[1] = p
         /\ Touched(w) \cap B = {}
<1>1. w \in Seq(Cells) /\ w # <<>> /\ Len(w) \in Nat /\ Len(w) # 0
  BY LenProperties, EmptySeq DEF IsRoute
<1>2. \A i \in 1 .. Len(w) : w[i] \in Cells \ B
  BY <1>1, ElementOfSeq DEF IsRoute
<1>3. ASSUME NEW i \in 1 .. Len(w) - 1
      PROVE  CanStep(w[i], w[i + 1], {}) /\ SegmentCells(w[i], w[i + 1]) \cap B = {}
  <2>1. i \in 1 .. Len(w) /\ i + 1 \in 1 .. Len(w)
    BY <1>1
  <2>2. CanStep(w[i], w[i + 1], B)
    BY DEF IsRoute
  <2>3. QED
    BY <1>2, <2>1, <2>2, StepClear
<1>4. IsTrack(w, g)
  BY <1>1, <1>3 DEF IsTrack, IsRoute
<1>5. PolylineCells(w) \cap B = {}
  BY <1>3 DEF PolylineCells
<1>6. w[1] \notin B
  BY <1>1, <1>2
<1>7. QED
  BY <1>4, <1>5, <1>6 DEF Touched, IsRoute

\* A cell put in front of a sequence.
LEMMA InFront ==
  ASSUME NEW p \in Cells, NEW s \in Seq(Cells)
  PROVE  /\ <<p>> \o s \in Seq(Cells)
         /\ Len(<<p>> \o s) = Len(s) + 1
         /\ (<<p>> \o s)[1] = p
         /\ \A i \in 1 .. Len(s) : (<<p>> \o s)[i + 1] = s[i]
         /\ Tail(<<p>> \o s) = s
<1>1. /\ <<p>> \in Seq(Cells) /\ Len(<<p>>) = 1 /\ <<p>>[1] = p
      /\ Len(s) \in Nat
  BY LenProperties
<1> DEFINE w == <<p>> \o s
<1>2. /\ w \in Seq(Cells) /\ Len(w) = Len(s) + 1
      /\ \A i \in 1 .. Len(s) + 1 : w[i] = IF i <= 1 THEN <<p>>[i] ELSE s[i - 1]
  BY <1>1, ConcatProperties
<1> HIDE DEF w
<1>3. w[1] = p /\ \A i \in 1 .. Len(s) : w[i + 1] = s[i]
  BY <1>1, <1>2
<1>4. w # <<>>
  BY <1>1, <1>2, EmptySeq
<1>5. /\ Tail(w) \in Seq(Cells) /\ Len(Tail(w)) = Len(s)
      /\ \A i \in 1 .. Len(Tail(w)) : Tail(w)[i] = s[i]
  BY <1>1, <1>2, <1>3, <1>4, HeadTailProperties
<1>6. Tail(w) = s
  BY <1>5, SeqEqual
<1>7. QED
  BY <1>2, <1>3, <1>6 DEF w

\* A way starts where the agent is; without that cell it is the waypoints.
LEMMA FullPathType ==
  ASSUME NEW p \in Cells, NEW path \in Seq(Cells)
  PROVE  /\ FullPath(p, path) \in Seq(Cells)
         /\ FullPath(p, path) # <<>>
         /\ FullPath(p, path)[1] = p
<1>1. CASE path # <<>> /\ path[1] = p
  BY <1>1 DEF FullPath
<1>2. CASE ~(path # <<>> /\ path[1] = p)
  <2>1. FullPath(p, path) = <<p>> \o path
    BY <1>2 DEF FullPath
  <2>2. Len(<<p>> \o path) # 0
    BY InFront, LenProperties
  <2>3. QED
    BY <2>1, <2>2, InFront, EmptySeq
<1>3. QED
  BY <1>1, <1>2

\* What is behind the first cell of a track.
LEMMA TrackTail ==
  ASSUME NEW g, NEW w, IsTrack(w, g), w[1] # g
  PROVE  /\ Len(w) > 1
         /\ w[1] \in Cells /\ w[2] \in Cells
         /\ CanStep(w[1], w[2], {})
         /\ Tail(w) # <<>> /\ Tail(w)[1] = w[2]
         /\ Len(Tail(w)) = Len(w) - 1
         /\ \A i \in 1 .. Len(w) - 1 : Tail(w)[i] = w[i + 1]
         /\ IsTrack(Tail(w), g)
<1> DEFINE n == Len(w)
           v == Tail(w)
<1>1. w \in Seq(Cells) /\ w # <<>> /\ n \in Nat /\ n # 0
  BY LenProperties, EmptySeq DEF IsTrack
<1>2. w[n] = g /\ n > 1
  BY <1>1 DEF IsTrack
<1>3. \A i \in 1 .. n : w[i] \in Cells
  BY <1>1, ElementOfSeq
<1>4. v \in Seq(Cells) /\ Len(v) = n - 1 /\ \A i \in 1 .. n - 1 : v[i] = w[i + 1]
  BY <1>1, HeadTailProperties
<1>5. \A i \in 1 .. n - 1 : CanStep(w[i], w[i + 1], {})
  BY DEF IsTrack
<1>6. \A i, j \in 1 .. n : w[i] = w[j] => i = j
  BY DEF IsTrack
<1> HIDE DEF n, v
<1>7. v # <<>>
  BY <1>1, <1>2, <1>4, EmptySeq
<1>8. v[1] = w[2] /\ v[n - 1] = g
  BY <1>1, <1>2, <1>4
<1>9. \A i \in 1 .. n - 2 : CanStep(v[i], v[i + 1], {})
  <2> SUFFICES ASSUME NEW i \in 1 .. n - 2 PROVE CanStep(v[i], v[i + 1], {})
    OBVIOUS
  <2>1. v[i] = w[i + 1] /\ v[i + 1] = w[i + 1 + 1] /\ i + 1 \in 1 .. n - 1
    BY <1>1, <1>4
  <2>2. QED
    BY <1>5, <2>1
<1>10. \A i, j \in 1 .. n - 1 : v[i] = v[j] => i = j
  <2> SUFFICES ASSUME NEW i \in 1 .. n - 1, NEW j \in 1 .. n - 1, v[i] = v[j]
               PROVE  i = j
    OBVIOUS
  <2>1. i + 1 \in 1 .. n /\ j + 1 \in 1 .. n /\ w[i + 1] = w[j + 1]
    BY <1>1, <1>4
  <2>2. i + 1 = j + 1
    BY <1>6, <2>1
  <2>3. QED
    BY <2>2
<1>11. IsTrack(v, g)
  <2>1. Len(v) - 1 = n - 2
    BY <1>1, <1>4
  <2>2. QED
    BY <1>4, <1>7, <1>8, <1>9, <1>10, <2>1 DEF IsTrack
<1>12. w[1] \in Cells /\ w[2] \in Cells /\ CanStep(w[1], w[2], {})
  BY <1>1, <1>2, <1>3, <1>5
<1>13. QED
  BY <1>2, <1>4, <1>7, <1>8, <1>11, <1>12 DEF n, v

\* Dropping the waypoint that is reached does not change the way.
LEMMA ReachedDropped ==
  ASSUME NEW p \in Cells, NEW path \in Seq(Cells), NEW g,
         IsTrack(FullPath(p, path), g)
  PROVE  FullPath(p, AfterReached(path, p)) = FullPath(p, path)
<1>1. CASE Len(path) > 1 /\ path[1] = p
  <2>1. path # <<>>
    BY <1>1, EmptySeq
  <2>2. FullPath(p, path) = path /\ AfterReached(path, p) = Tail(path)
    BY <1>1, <2>1 DEF FullPath, AfterReached
  <2>3. /\ Tail(path) \in Seq(Cells) /\ Len(Tail(path)) = Len(path) - 1
        /\ \A i \in 1 .. Len(Tail(path)) : Tail(path)[i] = path[i + 1]
        /\ Len(path) \in Nat
    BY <2>1, HeadTailProperties, LenProperties
  <2>4. Tail(path)[1] # p
    <3>1. CanStep(path[1], path[1 + 1], {})
      BY <1>1, <2>2, <2>3 DEF IsTrack
    <3>2. Tail(path)[1] = path[1 + 1]
      BY <1>1, <2>3
    <3>3. QED
      BY <1>1, <3>1, <3>2 DEF CanStep
  <2>5. FullPath(p, Tail(path)) = <<p>> \o Tail(path)
    BY <2>4 DEF FullPath
  <2>6. /\ Len(<<p>> \o Tail(path)) = Len(path)
        /\ <<p>> \o Tail(path) \in Seq(Cells)
        /\ (<<p>> \o Tail(path))[1] = p
        /\ \A i \in 1 .. Len(path) - 1 : (<<p>> \o Tail(path))[i + 1] = path[i + 1]
    BY <2>3, InFront
  <2>7. \A i \in 1 .. Len(path) : (<<p>> \o Tail(path))[i] = path[i]
    <3> SUFFICES ASSUME NEW i \in 1 .. Len(path)
                 PROVE  (<<p>> \o Tail(path))[i] = path[i]
      OBVIOUS
    <3>1. CASE i = 1
      BY <1>1, <2>6, <3>1
    <3>2. CASE i # 1
      <4>1. i - 1 \in 1 .. Len(path) - 1 /\ i - 1 + 1 = i
        BY <2>3, <3>2
      <4>2. QED
        BY <2>6, <4>1
    <3>3. QED
      BY <3>1, <3>2
  <2>8. <<p>> \o Tail(path) = path
    BY <2>6, <2>7, SeqEqual
  <2>9. QED
    BY <2>2, <2>5, <2>8
<1>2. CASE ~(Len(path) > 1 /\ path[1] = p)
  BY <1>2 DEF AfterReached
<1>3. QED
  BY <1>1, <1>2

\* Away from the goal, the waypoints left are the way behind the first cell.
LEMMA TrackLeft ==
  ASSUME NEW p \in Cells, NEW path \in Seq(Cells), NEW g, p # g,
         IsTrack(FullPath(p, path), g)
  PROVE  AfterReached(path, p) = Tail(FullPath(p, path))
<1>1. CASE path # <<>> /\ path[1] = p
  <2>1. FullPath(p, path) = path
    BY <1>1 DEF FullPath
  <2>2. Len(path) > 1
    BY <1>1, <2>1, TrackTail
  <2>3. QED
    BY <1>1, <2>1, <2>2 DEF AfterReached
<1>2. CASE ~(path # <<>> /\ path[1] = p)
  <2>1. FullPath(p, path) = <<p>> \o path
    BY <1>2 DEF FullPath
  <2>2. AfterReached(path, p) = path
    BY <1>2, EmptySeq DEF AfterReached
  <2>3. QED
    BY <2>1, <2>2, InFront
<1>3. QED
  BY <1>1, <1>2

\* One tick of motion along a track takes one of its steps.
LEMMA StepReaches ==
  ASSUME NEW u \in Cells, NEW v \in Cells, CanStep(u, v, {})
  PROVE  StepToward(u, v) = v
<1>1. /\ u[1] \in Int /\ u[2] \in Int /\ v[1] \in Int /\ v[2] \in Int
      /\ v = <<v[1], v[2]>>
  BY DEF Cells
<1>2. \A d \in {-1, 0, 1} : Sign(d) = d
  BY DEF Sign
<1>3. v[1] - u[1] \in {-1, 0, 1} /\ v[2] - u[2] \in {-1, 0, 1}
  BY <1>1 DEF CanStep, Abs
<1>4. Sign(v[1] - u[1]) = v[1] - u[1] /\ Sign(v[2] - u[2]) = v[2] - u[2]
  BY <1>2, <1>3
<1>5. u[1] + (v[1] - u[1]) = v[1] /\ u[2] + (v[2] - u[2]) = v[2]
  BY <1>1
<1>6. StepToward(u, v) = <<v[1], v[2]>>
  BY <1>4, <1>5 DEF StepToward
<1>7. QED
  BY <1>1, <1>6

\* What is left after a step was part of the way.
LEMMA TailTouched ==
  ASSUME NEW g, NEW w, IsTrack(w, g), w[1] # g
  PROVE  /\ PolylineCells(Tail(w)) \subseteq PolylineCells(w)
         /\ Touched(Tail(w)) \subseteq Touched(w)
<1>1. /\ Len(w) > 1 /\ w[1] \in Cells /\ w[2] \in Cells
      /\ CanStep(w[1], w[2], {})
      /\ Tail(w)[1] = w[2]
      /\ Len(Tail(w)) = Len(w) - 1
      /\ \A i \in 1 .. Len(w) - 1 : Tail(w)[i] = w[i + 1]
  BY TrackTail
<1>2. Len(w) \in Nat
  BY LenProperties DEF IsTrack
<1>3. ASSUME NEW i \in 1 .. Len(Tail(w)) - 1
      PROVE  \E j \in 1 .. Len(w) - 1 :
               SegmentCells(Tail(w)[i], Tail(w)[i + 1]) = SegmentCells(w[j], w[j + 1])
  <2>1. i + 1 \in 1 .. Len(w) - 1 /\ i \in 1 .. Len(w) - 1
    BY <1>1, <1>2
  <2>2. Tail(w)[i] = w[i + 1] /\ Tail(w)[i + 1] = w[i + 1 + 1]
    BY <1>1, <2>1
  <2>3. QED
    BY <2>1, <2>2
<1>4. PolylineCells(Tail(w)) \subseteq PolylineCells(w)
  BY <1>3 DEF PolylineCells
<1>5. w[2] \in PolylineCells(w)
  <2>1. w[2] \in SegmentCells(w[1], w[1 + 1])
    BY <1>1, StepCells
  <2>2. 1 \in 1 .. Len(w) - 1
    BY <1>1, <1>2
  <2>3. QED
    BY <2>1, <2>2 DEF PolylineCells
<1>6. QED
  BY <1>1, <1>4, <1>5 DEF Touched

\* The cells looked at for obstacles are those of the way.
LEMMA TouchedAhead ==
  ASSUME NEW p \in Cells, NEW path \in Seq(Cells)
  PROVE  Touched(<<p>> \o path) = Touched(FullPath(p, path))
<1> DEFINE s == <<p>> \o path
<1>1. CASE path # <<>> /\ path[1] = p
  <2>1. /\ Len(s) = Len(path) + 1 /\ s[1] = p
        /\ \A i \in 1 .. Len(path) : s[i + 1] = path[i]
    BY InFront
  <2>2. Len(path) \in Nat /\ Len(path) # 0
    BY <1>1, LenProperties, EmptySeq
  <2> HIDE DEF s
  <2>3. SegmentCells(s[1], s[1 + 1]) = {p}
    BY <1>1, <2>1, <2>2, PointCells
  <2>4. PolylineCells(s) \subseteq {p} \cup PolylineCells(path)
    <3> SUFFICES ASSUME NEW i \in 1 .. Len(s) - 1
                 PROVE  SegmentCells(s[i], s[i + 1]) \subseteq {p} \cup PolylineCells(path)
      BY DEF PolylineCells
    <3>1. CASE i = 1
      BY <2>3, <3>1
    <3>2. CASE i # 1
      <4>1. i - 1 \in 1 .. Len(path) - 1 /\ i - 1 + 1 = i /\ i \in 1 .. Len(path)
        BY <2>1, <2>2, <3>2
      <4>2. s[i] = path[i - 1] /\ s[i + 1] = path[i - 1 + 1]
        <5>1. i - 1 \in 1 .. Len(path)
          BY <2>2, <4>1
        <5>2. s[i - 1 + 1] = path[i - 1] /\ s[i + 1] = path[i]
          BY <2>1, <4>1, <5>1
        <5>3. QED
          BY <4>1, <5>2
      <4>3. QED
        BY <4>1, <4>2 DEF PolylineCells
    <3>3. QED
      BY <3>1, <3>2
  <2>5. PolylineCells(path) \subseteq PolylineCells(s)
    <3> SUFFICES ASSUME NEW i \in 1 .. Len(path) - 1
                 PROVE  SegmentCells(path[i], path[i + 1]) \subseteq PolylineCells(s)
      BY DEF PolylineCells
    <3>1. i + 1 \in 1 .. Len(s) - 1 /\ i \in 1 .. Len(path) /\ i + 1 \in 1 .. Len(path)
      BY <2>1, <2>2
    <3>2. s[i + 1] = path[i] /\ s[i + 1 + 1] = path[i + 1]
      BY <2>1, <3>1
    <3>3. QED
      BY <3>1, <3>2 DEF PolylineCells
  <2>6. Touched(s) = Touched(path)
    BY <1>1, <2>1, <2>4, <2>5 DEF Touched
  <2>7. QED
    BY <1>1, <2>6 DEF FullPath, s
<1>2. CASE ~(path # <<>> /\ path[1] = p)
  BY <1>2 DEF FullPath
<1>3. QED
  BY <1>1, <1>2

\* The cells an agent reserves for a track are those the track meets.
LEMMA CostmapOfTrack ==
  ASSUME NEW p \in Cells, NEW path \in Seq(Cells), NEW g,
         IsTrack(FullPath(p, path), g)
  PROVE  CostmapCells(p, path, g) = PolylineCells(FullPath(p, path))
<1> DEFINE n == Len(path)
           w == FullPath(p, path)
           m == Len(w)
           Point(i) == IF i = 0 THEN p ELSE IF i <= n THEN path[i] ELSE g
           kept == {0} \cup {i \in 1 .. n : path[i] # p}
           last == CHOOSE i \in kept : \A j \in kept : j <= i
           points == IF Point(last) = g THEN kept ELSE kept \cup {n + 1}
           legs == {ij \in points \X points :
                      ij[1] < ij[2] /\ \A k \in points : k <= ij[1] \/ ij[2] <= k}
           shift == IF path # <<>> /\ path[1] = p THEN 0 ELSE 1
           At(k) == IF k = 1 THEN 0 ELSE k - shift
<1>1. CostmapCells(p, path, g) =
        UNION {SegmentCells(Point(ij[1]), Point(ij[2])) : ij \in legs}
  BY Zenon DEF CostmapCells
<1>2. n \in Nat /\ m \in Nat /\ m # 0 /\ w[1] = p /\ w[m] = g
  BY FullPathType, LenProperties, EmptySeq DEF IsTrack
<1>3. \A i, j \in 1 .. m : w[i] = w[j] => i = j
  BY DEF IsTrack
<1>4. /\ shift \in {0, 1} /\ m = n + shift
      /\ \A k \in 2 .. m : w[k] = path[k - shift]
      /\ shift = 0 => n # 0 /\ path[1] = p
  <2>1. CASE path # <<>> /\ path[1] = p
    <3>1. w = path /\ shift = 0
      BY <2>1 DEF FullPath
    <3>2. QED
      BY <1>2, <2>1, <3>1
  <2>2. CASE ~(path # <<>> /\ path[1] = p)
    <3>1. w = <<p>> \o path /\ shift = 1
      BY <2>2 DEF FullPath
    <3>2. m = n + 1 /\ \A i \in 1 .. n : w[i + 1] = path[i]
      BY <3>1, InFront
    <3>3. \A k \in 2 .. m : k - 1 \in 1 .. n /\ k - 1 + 1 = k
      BY <1>2, <3>2
    <3>4. QED
      BY <3>1, <3>2, <3>3
  <2>3. QED
    BY <2>1, <2>2
<1> HIDE DEF n, w, m, shift
<1>5. ASSUME NEW k \in 1 .. m
      PROVE  At(k) \in kept /\ Point(At(k)) = w[k]
  <2>1. CASE k = 1
    BY <1>2, <2>1
  <2>2. CASE k # 1
    <3>1. k \in 2 .. m /\ At(k) = k - shift /\ At(k) \in 1 .. n
      BY <1>2, <1>4, <2>2
    <3>2. w[k] = path[At(k)] /\ w[k] # p
      BY <1>2, <1>3, <1>4, <2>2, <3>1
    <3> HIDE DEF At
    <3>3. QED
      BY <1>2, <3>1, <3>2
  <2>3. QED
    BY <2>1, <2>2
<1>6. ASSUME NEW i \in kept
      PROVE  \E k \in 1 .. m : i = At(k)
  <2>1. CASE i = 0
    BY <1>2, <2>1
  <2>2. CASE i # 0
    <3>1. i \in 1 .. n /\ path[i] # p
      BY <2>2
    <3>2. i + shift \in 2 .. m
      BY <1>2, <1>4, <3>1
    <3>3. i = At(i + shift)
      BY <1>2, <1>4, <3>1, <3>2
    <3>4. QED
      BY <1>2, <3>2, <3>3
  <2>3. QED
    BY <2>1, <2>2
<1>7. \A j, k \in 1 .. m : /\ At(j) \in Int
                           /\ j < k <=> At(j) < At(k)
                           /\ j <= k <=> At(j) <= At(k)
  BY <1>2, <1>4
<1> HIDE DEF At, kept, Point
<1>8. last = At(m)
  <2>1. At(m) \in kept /\ \A j \in kept : j <= At(m)
    BY <1>2, <1>5, <1>6, <1>7
  <2>2. ASSUME NEW i \in kept, \A j \in kept : j <= i
        PROVE  i = At(m)
    <3>1. i <= At(m) /\ At(m) <= i /\ i \in Int /\ At(m) \in Int
      BY <1>2, <1>6, <1>7, <2>1, <2>2
    <3>2. QED
      BY <3>1
  <2>3. QED
    BY <2>1, <2>2
<1> HIDE DEF last
<1>9. points = kept
  BY <1>2, <1>5, <1>8
<1> HIDE DEF points
<1>10. ASSUME NEW k \in 1 .. m - 1
       PROVE  \E ij \in legs : ij[1] = At(k) /\ ij[2] = At(k + 1)
  <2> DEFINE ij == <<At(k), At(k + 1)>>
  <2>1. k \in 1 .. m /\ k + 1 \in 1 .. m /\ k < k + 1
    BY <1>2
  <2>2. ij \in points \X points /\ At(k) < At(k + 1)
    BY <1>5, <1>7, <1>9, <2>1
  <2>3. ASSUME NEW x \in points
        PROVE  x <= At(k) \/ At(k + 1) <= x
    <3>1. PICK j \in 1 .. m : x = At(j)
      BY <1>6, <1>9
    <3>2. j <= k \/ k + 1 <= j
      BY <1>2
    <3>3. QED
      BY <1>7, <2>1, <3>1, <3>2
  <2>4. ij \in legs
    BY <2>2, <2>3
  <2>5. QED
    BY <2>4
<1>11. ASSUME NEW ij \in legs
       PROVE  \E k \in 1 .. m - 1 : ij[1] = At(k) /\ ij[2] = At(k + 1)
  <2>1. /\ ij[1] \in points /\ ij[2] \in points /\ ij[1] < ij[2]
        /\ \A x \in points : x <= ij[1] \/ ij[2] <= x
    OBVIOUS
  <2>2. PICK i \in 1 .. m, j \in 1 .. m : ij[1] = At(i) /\ ij[2] = At(j)
    BY <1>6, <1>9, <2>1
  <2>3. i < j
    BY <1>7, <2>1, <2>2
  <2>4. i + 1 \in 1 .. m /\ i \in 1 .. m - 1 /\ i + 1 <= j /\ i < i + 1
    BY <1>2, <2>3
  <2>5. At(i + 1) \in points
    BY <1>5, <1>9, <2>4
  <2>6. ~(At(i + 1) <= At(i))
    BY <1>7, <2>4
  <2>7. At(j) <= At(i + 1)
    BY <2>1, <2>2, <2>5, <2>6
  <2>8. j <= i + 1
    BY <1>7, <2>4, <2>7
  <2>9. j = i + 1
    BY <2>4, <2>8
  <2>10. QED
    BY <2>2, <2>4, <2>9
<1> HIDE DEF legs
<1>12. \A k \in 1 .. m - 1 : k \in 1 .. m /\ k + 1 \in 1 .. m
  BY <1>2
<1>13. {SegmentCells(Point(ij[1]), Point(ij[2])) : ij \in legs} =
         {SegmentCells(w[k], w[k + 1]) : k \in 1 .. m - 1}
  <2>1. ASSUME NEW k \in 1 .. m - 1
        PROVE  \E ij \in legs :
                 SegmentCells(w[k], w[k + 1]) = SegmentCells(Point(ij[1]), Point(ij[2]))
    <3>1. PICK ij \in legs : ij[1] = At(k) /\ ij[2] = At(k + 1)
      BY <1>10
    <3>2. Point(ij[1]) = w[k] /\ Point(ij[2]) = w[k + 1]
      BY <1>5, <1>12, <3>1
    <3>3. QED
      BY <3>2
  <2>2. ASSUME NEW ij \in legs
        PROVE  \E k \in 1 .. m - 1 :
                 SegmentCells(Point(ij[1]), Point(ij[2])) = SegmentCells(w[k], w[k + 1])
    <3>1. PICK k \in 1 .. m - 1 : ij[1] = At(k) /\ ij[2] = At(k + 1)
      BY <1>11
    <3>2. Point(ij[1]) = w[k] /\ Point(ij[2]) = w[k + 1]
      BY <1>5, <1>12, <3>1
    <3>3. QED
      BY <3>2
  <2>3. QED
    BY <2>1, <2>2
<1>14. QED
  BY <1>1, <1>13, Zenon DEF PolylineCells, m, w

\* Every plan of A* is a track that starts at the agent and meets no blocked cell.
LEMMA PlansAreTracks ==
  ASSUME Gridded, NEW p, NEW g, NEW B, NEW w \in Plans(p, g, B)
  PROVE  /\ IsTrack(w, g)
         /\ w[1] = p
         /\ Touched(w) \cap B = {}
<1>1. w \in Walks(p, g, B)
  BY DEF Plans
<1>2. IsRoute(w, p, g, B)
  BY <1>1 DEF Walks
<1>3. QED
  BY <1>2, RouteIsTrack

\* With waypoints left, the obstacle check looks at every cell of the way.
LEMMA AheadTouched ==
  ASSUME NEW p \in Cells, NEW path \in Seq(Cells), NEW g, path # <<>>,
         IsTrack(FullPath(p, path), g)
  PROVE  PolylineCells(<<p>> \o path) = Touched(FullPath(p, path))
<1> DEFINE s == <<p>> \o path
<1>1. /\ s[1] = p /\ Len(s) = Len(path) + 1
      /\ \A i \in 1 .. Len(path) : s[i + 1] = path[i]
  BY InFront
<1>2. Len(path) \in Nat /\ Len(path) # 0
  BY LenProperties, EmptySeq
<1> HIDE DEF s
<1>3. 1 \in 1 .. Len(s) - 1 /\ s[1 + 1] = path[1]
  BY <1>1, <1>2
<1>4. p \in SegmentCells(p, path[1])
  <2>1. CASE path[1] = p
    BY <2>1, PointCells
  <2>2. CASE path[1] # p
    <3>1. FullPath(p, path) = s
      BY <2>2 DEF FullPath, s
    <3>2. CanStep(s[1], s[1 + 1], {})
      BY <1>3, <3>1 DEF IsTrack
    <3>3. path[1] \in Cells
      BY <1>2, ElementOfSeq
    <3>4. QED
      BY <1>1, <1>3, <3>2, <3>3, StepCells
  <2>3. QED
    BY <2>1, <2>2
<1>5. p \in PolylineCells(s)
  BY <1>1, <1>3, <1>4 DEF PolylineCells
<1>6. Touched(s) = PolylineCells(s)
  BY <1>1, <1>5 DEF Touched
<1>7. QED
  BY <1>6, TouchedAhead DEF s

-----------------------------------------------------------------------------
(* PendingTasks *)

\* A new task goes somewhere between the head and the end.
LEMMA AheadType ==
  ASSUME NEW S, NEW q \in Seq(S), NEW t, NEW Priority
  PROVE  Ahead(q, t, Priority) \in 0 .. Len(q)
<1> DEFINE A == {i \in 1 .. Len(q) : Priority[q[i]] >= Priority[t]}
<1>1. Len(q) \in Nat
  BY LenProperties
<1>2. IsFiniteSet(1 .. Len(q)) /\ Cardinality(1 .. Len(q)) = Len(q)
  BY <1>1, FS_Interval
<1>3. A \in SUBSET (1 .. Len(q))
  OBVIOUS
<1>4. IsFiniteSet(A) /\ Cardinality(A) <= Len(q)
  <2> HIDE DEF A
  <2> QED  BY <1>2, <1>3, FS_Subset
<1>5. Cardinality(A) \in Nat
  <2> HIDE DEF A
  <2> QED  BY <1>4, FS_CardinalityType
<1>6. QED
  BY <1>1, <1>4, <1>5 DEF Ahead

\* Submitting makes the queue longer by one: the new task is at one place, the
\* tasks before it keep their places and those behind it move back by one.
THEOREM EnqueuedProperties ==
  ASSUME NEW S, NEW q \in Seq(S), NEW t \in S, NEW Priority
  PROVE  LET k == Ahead(q, t, Priority)
             e == Enqueued(q, t, Priority)
         IN  /\ e \in Seq(S)
             /\ Len(e) = Len(q) + 1
             /\ e[k + 1] = t
             /\ \A i \in 1 .. k : e[i] = q[i]
             /\ \A i \in k + 2 .. Len(q) + 1 : e[i] = q[i - 1]
<1> DEFINE k == Ahead(q, t, Priority)
           e == Enqueued(q, t, Priority)
<1>1. k \in 0 .. Len(q) /\ Len(q) \in Nat
  BY AheadType, LenProperties
<1>2. e = [i \in 1 .. Len(q) + 1 |-> IF i <= k THEN q[i]
                                     ELSE IF i = k + 1 THEN t ELSE q[i - 1]]
  BY DEF Enqueued
<1> HIDE DEF k, e
<1>3. \A i \in 1 .. Len(q) : q[i] \in S
  BY ElementOfSeq
<1>4. e \in [1 .. Len(q) + 1 -> S]
  BY <1>1, <1>2, <1>3
<1>5. e \in Seq(S) /\ Len(e) = Len(q) + 1
  BY <1>1, <1>4
<1>6. e[k + 1] = t
  BY <1>1, <1>2
<1>7. \A i \in 1 .. k : e[i] = q[i]
  BY <1>1, <1>2
<1>8. \A i \in k + 2 .. Len(q) + 1 : e[i] = q[i - 1]
  BY <1>1, <1>2
<1>9. QED
  BY <1>5, <1>6, <1>7, <1>8 DEF k, e

-----------------------------------------------------------------------------
(* The queue stays sorted *)

Sorted(q, Priority) ==
  \A i, j \in 1 .. Len(q) : i < j => Priority[q[i]] >= Priority[q[j]]

\* In a sorted queue the tasks a new one goes behind are the first ones.
LEMMA AheadOfSorted ==
  ASSUME NEW S, NEW Priority \in [S -> Int], NEW q \in Seq(S), NEW t \in S,
         Sorted(q, Priority)
  PROVE  \A i \in 1 .. Len(q) :
           i <= Ahead(q, t, Priority) <=> Priority[q[i]] >= Priority[t]
<1> DEFINE A == {i \in 1 .. Len(q) : Priority[q[i]] >= Priority[t]}
           n == Len(q)
<1>1. n \in Nat /\ \A i \in 1 .. n : q[i] \in S
  BY LenProperties, ElementOfSeq
<1>2. Ahead(q, t, Priority) = Cardinality(A)
  BY DEF Ahead
<1>3. /\ A \in SUBSET (1 .. n)
      /\ \A i \in 1 .. n : i \in A <=> Priority[q[i]] >= Priority[t]
  OBVIOUS
<1>4. \A i, j \in 1 .. n : i < j /\ j \in A => i \in A
  <2> SUFFICES ASSUME NEW i \in 1 .. n, NEW j \in 1 .. n, i < j, j \in A
               PROVE  i \in A
    OBVIOUS
  <2>1. /\ Priority[q[i]] \in Int /\ Priority[q[j]] \in Int
        /\ Priority[t] \in Int
    BY <1>1
  <2>2. Priority[q[i]] >= Priority[q[j]] /\ Priority[q[j]] >= Priority[t]
    BY DEF Sorted
  <2>3. QED
    BY <2>1, <2>2
<1> HIDE DEF A, n
<1>5. IsFiniteSet(1 .. n) /\ IsFiniteSet(A) /\ Cardinality(A) \in Nat
  <2>1. IsFiniteSet(1 .. n)
    BY <1>1, FS_Interval
  <2>2. IsFiniteSet(A)
    BY <1>3, <2>1, FS_Subset
  <2>3. QED
    BY <2>1, <2>2, FS_CardinalityType
<1>6. ASSUME NEW i \in 1 .. n, i \in A
      PROVE  i <= Cardinality(A)
  <2>1. 1 .. i \in SUBSET A
    BY <1>1, <1>4, <1>6
  <2>2. Cardinality(1 .. i) = i
    BY <1>1, FS_Interval
  <2>3. Cardinality(1 .. i) <= Cardinality(A)
    BY <1>5, <2>1, FS_Subset
  <2>4. QED
    BY <2>2, <2>3
<1>7. ASSUME NEW i \in 1 .. n, i \notin A
      PROVE  ~(i <= Cardinality(A))
  <2>1. A \in SUBSET (1 .. i - 1)
    BY <1>1, <1>3, <1>4, <1>7
  <2>2. IsFiniteSet(1 .. i - 1) /\ Cardinality(1 .. i - 1) = i - 1
    BY <1>1, FS_Interval
  <2>3. Cardinality(A) <= Cardinality(1 .. i - 1)
    BY <2>1, <2>2, FS_Subset
  <2>4. QED
    BY <1>1, <1>5, <2>2, <2>3
<1>8. QED
  BY <1>2, <1>3, <1>6, <1>7 DEF n

\* Submitting to a sorted queue leaves it sorted.
THEOREM EnqueuedSorted ==
  ASSUME NEW S, NEW Priority \in [S -> Int], NEW q \in Seq(S), NEW t \in S,
         Sorted(q, Priority)
  PROVE  Sorted(Enqueued(q, t, Priority), Priority)
<1> DEFINE k == Ahead(q, t, Priority)
           e == Enqueued(q, t, Priority)
           n == Len(q)
           P(i) == Priority[q[i]]
<1>1. k \in 0 .. n /\ n \in Nat
  BY AheadType, LenProperties
<1>2. /\ Len(e) = n + 1
      /\ e[k + 1] = t
      /\ \A i \in 1 .. k : e[i] = q[i]
      /\ \A i \in k + 2 .. n + 1 : e[i] = q[i - 1]
  BY EnqueuedProperties
<1>3. \A i \in 1 .. n : q[i] \in S /\ P(i) \in Int
  BY ElementOfSeq
<1>4. \A i, j \in 1 .. n : i < j => P(i) >= P(j)
  BY DEF Sorted
<1>5. \A i \in 1 .. n : i <= k <=> P(i) >= Priority[t]
  BY AheadOfSorted
<1>6. Priority[t] \in Int
  OBVIOUS
<1> HIDE DEF k, e, n, P
<1> DEFINE from(i) == IF i <= k THEN i ELSE i - 1
<1>7. \A i \in 1 .. n + 1 : i # k + 1 =>
        from(i) \in 1 .. n /\ Priority[e[i]] = P(from(i))
  BY <1>1, <1>2 DEF P
<1>8. \A i, j \in 1 .. n + 1 :
        i < j /\ i # k + 1 /\ j # k + 1 => from(i) < from(j)
  BY <1>1
<1>9. \A i \in 1 .. n + 1 : /\ i < k + 1 => from(i) = i
                            /\ i > k + 1 => from(i) = i - 1
  BY <1>1
<1> HIDE DEF from
<1>10. ASSUME NEW i \in 1 .. n + 1, NEW j \in 1 .. n + 1, i < j
       PROVE  Priority[e[i]] >= Priority[e[j]]
  <2>1. CASE i # k + 1 /\ j # k + 1
    BY <1>4, <1>7, <1>8, <1>10, <2>1
  <2>2. CASE j = k + 1
    <3>1. i \in 1 .. n /\ i <= k /\ Priority[e[i]] = P(i)
      BY <1>1, <1>7, <1>9, <1>10, <2>2
    <3>2. QED
      BY <1>2, <1>5, <2>2, <3>1
  <2>3. CASE i = k + 1
    <3>1. j - 1 \in 1 .. n /\ ~(j - 1 <= k) /\ Priority[e[j]] = P(j - 1)
      BY <1>1, <1>7, <1>9, <1>10, <2>3
    <3>2. ~(P(j - 1) >= Priority[t]) /\ P(j - 1) \in Int
      BY <1>3, <1>5, <3>1
    <3>3. QED
      BY <1>2, <1>6, <2>3, <3>1, <3>2
  <2>4. QED
    BY <2>1, <2>2, <2>3
<1>11. QED
  BY <1>2, <1>10 DEF Sorted, e

\* A task that no queued one ranks below goes to the end.
LEMMA EnqueuedLast ==
  ASSUME NEW S, NEW Priority \in [S -> Int], NEW q \in Seq(S), NEW t \in S,
         \A i \in 1 .. Len(q) : Priority[q[i]] >= Priority[t]
  PROVE  Enqueued(q, t, Priority) = Append(q, t)
<1> DEFINE n == Len(q)
           e == Enqueued(q, t, Priority)
<1>1. n \in Nat
  BY LenProperties
<1>2. Ahead(q, t, Priority) = n
  <2>1. {i \in 1 .. Len(q) : Priority[q[i]] >= Priority[t]} = 1 .. n
    OBVIOUS
  <2>2. Cardinality(1 .. n) = n
    <3>1. Cardinality(1 .. n) = IF 1 > n THEN 0 ELSE n - 1 + 1
      <4> HIDE DEF n
      <4> QED  BY <1>1, FS_Interval
    <3>2. QED
      <4> HIDE DEF n
      <4> QED  BY <1>1, <3>1
  <2>3. QED
    BY <2>1, <2>2 DEF Ahead
<1>3. /\ e \in Seq(S) /\ Len(e) = n + 1 /\ e[n + 1] = t
      /\ \A i \in 1 .. n : e[i] = q[i]
  BY <1>2, EnqueuedProperties
<1>4. /\ Append(q, t) \in Seq(S) /\ Len(Append(q, t)) = n + 1
      /\ Append(q, t)[n + 1] = t
      /\ \A i \in 1 .. n : Append(q, t)[i] = q[i]
  BY AppendProperties
<1> HIDE DEF n, e
<1>5. \A i \in 1 .. Len(e) : e[i] = Append(q, t)[i]
  BY <1>1, <1>3, <1>4
<1>6. e = Append(q, t)
  BY <1>3, <1>4, <1>5, SeqEqual
<1>7. QED
  BY <1>6 DEF e

=============================================================================
