---------------------------- MODULE SearchProofs ------------------------------
(***************************************************************************)
(* The search of the grid planner returns a cheapest route, or none only   *)
(* if there is none, for every grid, every walls and every choice among    *)
(* entries of equal score.                                                 *)
(*                                                                         *)
(* Every scored cell that waits for no expansion is relaxed, so that on    *)
(* any way to the goal some entry of the heap promises no more than the    *)
(* way costs; parents have lower scores, so that following them ends at    *)
(* the start; and a cheapest way could take no shortcut, which makes it    *)
(* one of the candidates that Walks generates.                             *)
(***************************************************************************)
EXTENDS AStar, SequenceTheorems, FiniteSetTheorems, TLAPS

-----------------------------------------------------------------------------
(* Naturals: least elements, recursion, and sequences that never fall *)

\* A set of naturals that is not empty has a least element.
LEMMA LeastNatural ==
  ASSUME NEW S \in SUBSET Nat, S # {}
  PROVE  \E m \in S : \A n \in S : m <= n
<1> DEFINE T == {0 .. n : n \in S}
           R == StrictSubsetOrdering(Nat)
           F == FiniteSubsetsOf(Nat)
<1>1. IsWellFoundedOn(R, F)
  BY FS_StrictSubsetOrderingWellFounded
<1>2. T \subseteq F /\ T # {}
  <2>1. \A n \in S : 0 .. n \in SUBSET Nat /\ IsFiniteSet(0 .. n)
    BY FS_Interval
  <2>2. QED
    BY <2>1 DEF FiniteSubsetsOf
<1>3. PICK x \in T : \A y \in T : ~(<<y, x>> \in R)
  <2> HIDE DEF T, R, F
  <2> QED  BY <1>1, <1>2, WFMin
<1>4. PICK m \in S : x = 0 .. m
  BY <1>3
<1>5. ASSUME NEW n \in S, n < m
      PROVE  FALSE
  <2>1. /\ 0 .. n \subseteq 0 .. m /\ 0 .. m \subseteq Nat
        /\ m \in 0 .. m /\ m \notin 0 .. n
    BY <1>5
  <2>2. <<0 .. n, 0 .. m>> \in R
    <3>1. 0 .. n # 0 .. m
      BY <2>1
    <3>2. 0 .. n \in SUBSET Nat /\ 0 .. m \in SUBSET Nat
      BY <2>1
    <3>3. QED
      BY <2>1, <3>1, <3>2, Zenon DEF StrictSubsetOrdering
  <2>3. QED
    BY <1>3, <1>4, <2>2
<1>6. QED
  BY <1>5

\* What holds of 0 and of the successor of each natural it holds of, holds of
\* every natural.
LEMMA EveryNatural ==
  ASSUME NEW S \in SUBSET Nat, 0 \in S, \A n \in S : n + 1 \in S
  PROVE  S = Nat
<1>1. SUFFICES ASSUME Nat \ S # {} PROVE FALSE
  OBVIOUS
<1>2. PICK m \in Nat \ S : \A n \in Nat \ S : m <= n
  BY <1>1, LeastNatural
<1>3. m # 0 /\ m - 1 \in Nat /\ m - 1 < m
  BY <1>2
<1>4. m - 1 \in S
  BY <1>2, <1>3
<1>5. QED
  BY <1>2, <1>3, <1>4

\* The functions on 0 .. n that F makes from a.
Approximations(a, F, S, n) ==
  {f \in [0 .. n -> S] : /\ f[0] = a
                         /\ \A k \in 1 .. n : f[k] = F[k, f[k - 1]]}

\* Two of them agree as far as both go.
LEMMA ApproximationsAgree ==
  ASSUME NEW S, NEW a \in S, NEW F \in [Nat \X S -> S],
         NEW n \in Nat, NEW m \in Nat,
         NEW f \in Approximations(a, F, S, n),
         NEW g \in Approximations(a, F, S, m)
  PROVE  \A k \in Nat : k <= n /\ k <= m => f[k] = g[k]
<1> DEFINE Agree == {k \in Nat : k <= n /\ k <= m => f[k] = g[k]}
<1>1. 0 \in Agree
  BY DEF Approximations
<1>2. ASSUME NEW k \in Agree PROVE k + 1 \in Agree
  <2>1. SUFFICES ASSUME k + 1 <= n, k + 1 <= m PROVE f[k + 1] = g[k + 1]
    OBVIOUS
  <2>2. f[k] = g[k]
    BY <2>1
  <2>3. k + 1 \in 1 .. n /\ k + 1 \in 1 .. m /\ (k + 1) - 1 = k
    BY <2>1
  <2>4. f[k + 1] = F[k + 1, f[k]] /\ g[k + 1] = F[k + 1, g[k]]
    BY <2>3 DEF Approximations
  <2>5. QED
    BY <2>2, <2>4
<1> HIDE DEF Agree
<1>3. Agree \in SUBSET Nat
  BY DEF Agree
<1>4. Agree = Nat
  BY <1>1, <1>2, <1>3, EveryNatural
<1>5. QED
  BY <1>4 DEF Agree

\* The sequence of values that F makes from a.
Recursion(f, a, F, S) ==
  /\ f \in [Nat -> S]
  /\ \A n \in Nat : f[n] = IF n = 0 THEN a ELSE F[n, f[n - 1]]

\* Every recursion has one.
LEMMA NatRecursion ==
  \A S, a, F : a \in S /\ F \in [Nat \X S -> S] => \E f : Recursion(f, a, F, S)
<1> SUFFICES ASSUME NEW S, NEW a \in S, NEW F \in [Nat \X S -> S]
             PROVE  \E f : Recursion(f, a, F, S)
  BY Zenon
<1> DEFINE A == [n \in Nat |-> Approximations(a, F, S, n)]
           Has == {n \in Nat : A[n] # {}}
<1>1. \A n \in Nat : A[n] = Approximations(a, F, S, n)
  OBVIOUS
<1> HIDE DEF A
<1>2. 0 \in Has
  <2>1. [k \in 0 .. 0 |-> a] \in Approximations(a, F, S, 0)
    BY DEF Approximations
  <2>2. QED
    BY <2>1, <1>1
<1>3. ASSUME NEW n \in Has PROVE n + 1 \in Has
  <2>1. n \in Nat /\ A[n] # {}
    OBVIOUS
  <2> HIDE DEF Has
  <2>2. PICK f \in A[n] : TRUE
    BY <2>1
  <2>3. f \in [0 .. n -> S] /\ f[0] = a
        /\ \A k \in 1 .. n : f[k] = F[k, f[k - 1]]
    <3>1. f \in Approximations(a, F, S, n)
      BY <2>1, <2>2, <1>1, Zenon
    <3>2. QED
      BY <3>1, Zenon DEF Approximations
  <2>4. PICK last \in S : last = F[n + 1, f[n]]
    <3>1. n + 1 \in Nat /\ f[n] \in S
      <4>1. n \in 0 .. n /\ n + 1 \in Nat
        BY <2>1
      <4>2. QED
        BY <4>1, <2>3
    <3>2. F[n + 1, f[n]] \in S
      BY <3>1
    <3>3. QED
      BY <3>2
  <2> DEFINE g == [k \in 0 .. n + 1 |-> IF k <= n THEN f[k] ELSE last]
  <2>5. g \in [0 .. n + 1 -> S]
    <3>1. \A k \in 0 .. n + 1 : k <= n => k \in 0 .. n
      BY <2>1
    <3>2. \A k \in 0 .. n + 1 : k <= n => f[k] \in S
      BY <2>3, <3>1
    <3>3. QED
      BY <3>2
  <2>6. g[n + 1] = last /\ \A k \in 0 .. n : g[k] = f[k]
    BY <2>1
  <2> HIDE DEF g
  <2>7. ASSUME NEW k \in 1 .. n + 1 PROVE g[k] = F[k, g[k - 1]]
    <3>1. CASE k = n + 1
      <4>1. g[k] = last /\ k - 1 = n /\ n \in 0 .. n
        BY <3>1, <2>6, <2>1
      <4>2. QED
        BY <4>1, <3>1, <2>4, <2>6
    <3>2. CASE k # n + 1
      <4>1. k \in 1 .. n /\ k \in 0 .. n /\ k - 1 \in 0 .. n
        BY <3>2, <2>1
      <4>2. QED
        BY <4>1, <2>3, <2>6
    <3>3. QED
      BY <3>1, <3>2
  <2>8. g \in Approximations(a, F, S, n + 1) /\ n + 1 \in Nat
    <3>1. g[0] = a /\ n + 1 \in Nat
      <4>1. 0 \in 0 .. n /\ n + 1 \in Nat
        BY <2>1
      <4>2. QED
        BY <4>1, <2>3, <2>6, Zenon
    <3>2. QED
      BY <3>1, <2>5, <2>7, Zenon DEF Approximations
  <2>9. QED
    BY <2>8, <1>1 DEF Has
<1>4. Has = Nat
  <2>1. Has \in SUBSET Nat
    OBVIOUS
  <2> HIDE DEF Has
  <2>2. QED
    BY <1>2, <1>3, <2>1, EveryNatural
<1>5. \A n \in Nat : A[n] # {}
  BY <1>4
<1> DEFINE P == [n \in Nat |-> CHOOSE f \in A[n] : TRUE]
           f == [n \in Nat |-> P[n][n]]
<1>6. \A n \in Nat : P[n] \in Approximations(a, F, S, n)
  BY <1>5, <1>1
<1> HIDE DEF P
<1>7. \A n \in Nat : P[n] \in [0 .. n -> S] /\ P[n][0] = a
        /\ \A k \in 1 .. n : P[n][k] = F[k, P[n][k - 1]]
  BY <1>6 DEF Approximations
<1>8. f \in [Nat -> S]
  <2>1. \A n \in Nat : n \in 0 .. n
    OBVIOUS
  <2>2. \A n \in Nat : P[n][n] \in S
    BY <2>1, <1>7
  <2>3. QED
    BY <2>2
<1>9. ASSUME NEW n \in Nat
      PROVE  f[n] = IF n = 0 THEN a ELSE F[n, f[n - 1]]
  <2>1. CASE n = 0
    BY <1>7, <2>1
  <2>2. CASE n # 0
    <3>1. n - 1 \in Nat /\ n \in 1 .. n
      BY <2>2
    <3>2. P[n][n] = F[n, P[n][n - 1]]
      BY <3>1, <1>7
    <3>3. P[n][n - 1] = P[n - 1][n - 1]
      <4>1. P[n] \in Approximations(a, F, S, n)
            /\ P[n - 1] \in Approximations(a, F, S, n - 1)
        BY <1>6, <3>1
      <4>2. n - 1 <= n /\ n - 1 <= n - 1
        BY <3>1
      <4>3. QED
        BY <4>1, <4>2, <3>1, ApproximationsAgree
    <3>4. f[n] = P[n][n] /\ f[n - 1] = P[n - 1][n - 1]
      BY <3>1
    <3>5. QED
      BY <3>2, <3>3, <3>4, <2>2
  <2>3. QED
    BY <2>1, <2>2
<1> HIDE DEF f
<1>10. Recursion(f, a, F, S)
  BY <1>8, <1>9, Zenon DEF Recursion
<1>11. QED
  BY <1>10

\* H never falls from one of its m values to the next.
Rising(H, m) ==
  /\ H \in [1 .. m -> Int]
  /\ \A k \in 1 .. m - 1 : H[k] <= H[k + 1]

LEMMA Rises ==
  \A m \in Nat : \A H :
    Rising(H, m) => \A i, j \in 1 .. m : i <= j => H[i] <= H[j]
<1> SUFFICES ASSUME NEW m \in Nat, NEW H, Rising(H, m)
             PROVE  \A i, j \in 1 .. m : i <= j => H[i] <= H[j]
  OBVIOUS
<1>1. H \in [1 .. m -> Int] /\ \A k \in 1 .. m - 1 : H[k] <= H[k + 1]
  BY DEF Rising
<1> DEFINE S == {n \in Nat : \A i \in 1 .. m : i + n <= m => H[i] <= H[i + n]}
<1>2. 0 \in S
  BY <1>1
<1>3. ASSUME NEW n \in S PROVE n + 1 \in S
  <2>1. SUFFICES ASSUME NEW i \in 1 .. m, i + (n + 1) <= m
                 PROVE  H[i] <= H[i + (n + 1)]
    OBVIOUS
  <2>2. n \in Nat /\ (i + n <= m => H[i] <= H[i + n])
    OBVIOUS
  <2>3. /\ i + n \in 1 .. m - 1 /\ i + n \in 1 .. m /\ i + n <= m
        /\ (i + n) + 1 \in 1 .. m /\ (i + n) + 1 = i + (n + 1)
    BY <2>1, <2>2
  <2>4. /\ H[i + n] <= H[(i + n) + 1]
        /\ H[i] \in Int /\ H[i + n] \in Int /\ H[(i + n) + 1] \in Int
    BY <2>3, <1>1
  <2>5. QED
    BY <2>2, <2>3, <2>4
<1> HIDE DEF S
<1>4. S = Nat
  <2>1. S \in SUBSET Nat
    BY DEF S
  <2>2. QED
    BY <1>2, <1>3, <2>1, EveryNatural
<1>5. SUFFICES ASSUME NEW i \in 1 .. m, NEW j \in 1 .. m, i <= j PROVE H[i] <= H[j]
  OBVIOUS
<1>6. j - i \in Nat /\ i + (j - i) = j /\ i + (j - i) <= m
  BY <1>5
<1>7. j - i \in S
  BY <1>4, <1>6
<1>8. H[i] <= H[i + (j - i)]
  BY <1>6, <1>7 DEF S
<1>9. QED
  BY <1>6, <1>8

-----------------------------------------------------------------------------
(* Definitions by recursion: the chain of parents, the rounds of Walks *)

\* Sequences of cells that are not empty.
Chains == Seq(Cells) \ {<<>>}

\* A chain of parents that grows is still one.
LEMMA LongerType ==
  ASSUME cameFrom \in [Cells -> Cells \cup {NoCell}], NEW w \in Chains
  PROVE  Longer(w) \in Chains
<1>1. w \in Seq(Cells) /\ w # <<>>
  BY DEF Chains
<1>2. w[1] \in Cells
  BY <1>1
<1>3. CASE cameFrom[w[1]] = NoCell
  BY <1>3 DEF Longer
<1>4. CASE cameFrom[w[1]] # NoCell
  <2>1. cameFrom[w[1]] \in Cells
    BY <1>2, <1>4
  <2> DEFINE u == cameFrom[w[1]]
  <2> HIDE DEF u
  <2>2. <<u>> \o w \in Seq(Cells) /\ <<u>> \o w # <<>>
    BY <1>1, <2>1 DEF u
  <2>3. QED
    BY <1>4, <2>2 DEF Longer, Chains, u
<1>5. QED
  BY <1>3, <1>4

\* What _reconstruct computes: the chain grows by one parent per round.
LEMMA Following ==
  ASSUME cameFrom \in [Cells -> Cells \cup {NoCell}], NEW c \in Cells
  PROVE  \E R \in [Nat -> Chains] :
           /\ R[0] = <<c>>
           /\ \A n \in Nat : R[n + 1] = Longer(R[n])
           /\ Route(c) = R[Cardinality(Cells)]
<1> DEFINE Body(f) == [n \in Nat |-> IF n = 0 THEN <<c>>
                                     ELSE LET w == f[n - 1] IN Longer(w)]
           F == [x \in Nat \X Chains |-> Longer(x[2])]
           R == CHOOSE f : f = Body(f)
<1>1. F \in [Nat \X Chains -> Chains]
  BY LongerType
<1>2. <<c>> \in Chains
  BY DEF Chains
<1>3. PICK f : Recursion(f, <<c>>, F, Chains)
  <2> HIDE DEF F
  <2> QED  BY <1>1, <1>2, NatRecursion, Zenon
<1>4. /\ f \in [Nat -> Chains]
      /\ \A n \in Nat : f[n] = IF n = 0 THEN <<c>> ELSE F[n, f[n - 1]]
  <2> HIDE DEF F
  <2> QED  BY <1>3, Zenon DEF Recursion
<1>5. f = Body(f)
  <2>1. ASSUME NEW n \in Nat, n # 0
        PROVE  F[n, f[n - 1]] = Longer(f[n - 1])
    <3>1. n - 1 \in Nat
      BY <2>1
    <3>2. <<n, f[n - 1]>> \in Nat \X Chains
      BY <3>1, <1>4
    <3>3. QED
      BY <3>2
  <2> HIDE DEF F
  <2>2. \A n \in Nat : f[n] = IF n = 0 THEN <<c>> ELSE Longer(f[n - 1])
    BY <2>1, <1>4
  <2>3. f = [n \in Nat |-> f[n]]
    BY <1>4
  <2>4. QED
    BY <2>2, <2>3
<1>6. Route(c) = R[Cardinality(Cells)]
  BY DEF Route
<1>7. R = Body(R)
  BY <1>5
<1> HIDE DEF R
<1>8. /\ R[0] = <<c>>
      /\ \A n \in Nat : R[n + 1] = Longer(R[n])
  <2>1. \A n \in Nat : R[n] = IF n = 0 THEN <<c>> ELSE Longer(R[n - 1])
    BY <1>7
  <2>2. \A n \in Nat : n + 1 \in Nat /\ n + 1 # 0 /\ (n + 1) - 1 = n
    OBVIOUS
  <2>3. QED
    BY <2>1, <2>2
<1>9. R \in [Nat -> Chains]
  <2>1. {n \in Nat : R[n] \in Chains} = Nat
    <3>1. \A n \in Nat : R[n] \in Chains => R[n + 1] \in Chains
      BY <1>8, LongerType
    <3>2. R[0] \in Chains
      BY <1>8, <1>2
    <3> DEFINE T == {n \in Nat : R[n] \in Chains}
    <3>3. T \in SUBSET Nat /\ 0 \in T /\ \A n \in T : n + 1 \in T
      BY <3>1, <3>2
    <3> HIDE DEF T
    <3>4. T = Nat
      BY <3>3, EveryNatural
    <3>5. QED
      BY <3>4 DEF T
  <2>2. \A n \in Nat : R[n] \in Chains
    BY <2>1
  <2>3. QED
    BY <2>2, <1>7
<1>10. QED
  BY <1>6, <1>8, <1>9

\* The sequences that Walks grows in one round.
Grown(V, n, g, B) ==
  UNION {IF Len(w) < n \/ w[n] = g THEN {w}
         ELSE {Append(w, c) : c \in {c \in Cells :
                 /\ CanStep(w[n], c, B)
                 /\ \A i \in 1 .. n - 1 :
                      c # w[i] /\ ~CanStep(w[i], c, B)}} :
         w \in V}

AreRounds(W, p, g, B) ==
  /\ W \in [Nat -> SUBSET Seq(Cells)]
  /\ W[0] = IF p \in B \/ g \in B THEN {} ELSE {<<p>>}
  /\ \A n \in Nat : W[n + 1] = Grown(W[n], n + 1, g, B)
  /\ Walks(p, g, B) = {w \in W[Cardinality(Cells) - 1] : IsRoute(w, p, g, B)}

\* What Walks computes: the candidates grow by one cell per round.
LEMMA WalksGrow == \A p \in Cells : \A g, B : \E W : AreRounds(W, p, g, B)
<1> TAKE p \in Cells
<1> TAKE g, B
<1> DEFINE A == IF p \in B \/ g \in B THEN {} ELSE {<<p>>}
           V == SUBSET Seq(Cells)
           F == [x \in Nat \X V |-> Grown(x[2], x[1], g, B)]
           Body(f) == [n \in Nat |->
             IF n = 0 THEN IF p \in B \/ g \in B THEN {} ELSE {<<p>>}
             ELSE UNION {IF Len(w) < n \/ w[n] = g THEN {w}
                         ELSE {Append(w, c) : c \in {c \in Cells :
                                 /\ CanStep(w[n], c, B)
                                 /\ \A i \in 1 .. n - 1 :
                                      c # w[i] /\ ~CanStep(w[i], c, B)}} :
                         w \in f[n - 1]}]
           W == CHOOSE f : f = Body(f)
<1>1. A \in V
  OBVIOUS
<1>2. \A U \in V, n \in Nat : Grown(U, n, g, B) \in V
  <2>1. SUFFICES ASSUME NEW U \in V, NEW n \in Nat, NEW x \in Grown(U, n, g, B)
                 PROVE  x \in Seq(Cells)
    OBVIOUS
  <2>2. PICK w \in U : x = w \/ \E c \in Cells : x = Append(w, c)
    BY <2>1 DEF Grown
  <2>3. QED
    BY <2>2
<1>3. F \in [Nat \X V -> V]
  BY <1>2
<1>4. PICK f : Recursion(f, A, F, V)
  <2> HIDE DEF A, F, V
  <2> QED  BY <1>1, <1>3, NatRecursion, Zenon
<1>5. f \in [Nat -> V] /\ \A n \in Nat : f[n] = IF n = 0 THEN A ELSE F[n, f[n - 1]]
  <2> HIDE DEF A, F, V
  <2> QED  BY <1>4, Zenon DEF Recursion
<1>6. ASSUME NEW n \in Nat, n # 0
      PROVE  F[n, f[n - 1]] = Grown(f[n - 1], n, g, B)
  <2>1. n - 1 \in Nat
    BY <1>6
  <2>2. <<n, f[n - 1]>> \in Nat \X V
    BY <2>1, <1>5
  <2>3. QED
    BY <2>2
<1>7. f = [n \in Nat |-> IF n = 0 THEN A ELSE Grown(f[n - 1], n, g, B)]
  <2> HIDE DEF A, F, V
  <2>1. \A n \in Nat : f[n] = IF n = 0 THEN A ELSE Grown(f[n - 1], n, g, B)
    BY <1>5, <1>6
  <2>2. f = [n \in Nat |-> f[n]]
    BY <1>5
  <2>3. QED
    BY <2>1, <2>2
<1>8. \A h : Body(h) = [n \in Nat |-> IF n = 0 THEN A ELSE Grown(h[n - 1], n, g, B)]
  BY Zenon DEF Grown
<1>9. W = Body(W)
  <2> HIDE DEF Body
  <2> QED  BY <1>7, <1>8
<1>10. Walks(p, g, B) = {w \in W[Cardinality(Cells) - 1] : IsRoute(w, p, g, B)}
  BY DEF Walks
<1> HIDE DEF W
<1>11. /\ W[0] = A
       /\ \A n \in Nat : W[n + 1] = Grown(W[n], n + 1, g, B)
  <2> HIDE DEF A, F, V, Body
  <2>1. W = [n \in Nat |-> IF n = 0 THEN A ELSE Grown(W[n - 1], n, g, B)]
    BY <1>8, <1>9
  <2>2. \A n \in Nat : W[n] = IF n = 0 THEN A ELSE Grown(W[n - 1], n, g, B)
    BY <2>1
  <2>3. \A n \in Nat : n + 1 \in Nat /\ n + 1 # 0 /\ (n + 1) - 1 = n
    OBVIOUS
  <2>4. QED
    BY <2>2, <2>3
<1>12. W \in [Nat -> V]
  <2> DEFINE S == {n \in Nat : W[n] \in V}
  <2>1. 0 \in S
    BY <1>1, <1>11
  <2>2. \A n \in S : n + 1 \in S
    BY <1>2, <1>11
  <2>3. S \in SUBSET Nat
    OBVIOUS
  <2> HIDE DEF S
  <2>4. S = Nat
    BY <2>1, <2>2, <2>3, EveryNatural
  <2>5. \A n \in Nat : W[n] \in V
    BY <2>4 DEF S
  <2>6. W = [n \in Nat |-> W[n]]
    BY <1>9
  <2>7. QED
    BY <2>5, <2>6
<1>13. AreRounds(W, p, g, B)
  BY <1>10, <1>11, <1>12 DEF AreRounds
<1>14. QED
  BY <1>13

-----------------------------------------------------------------------------
(* The invariant *)

Scored(c) == gScore[c] # NoScore

\* Every known cell but the start has a parent that is nearer to the start.
Parents ==
  /\ gScore[query.start] = 0 /\ cameFrom[query.start] = NoCell
  /\ \A c \in Cells : Scored(c) /\ c # query.start =>
       /\ cameFrom[c] \in Cells /\ Scored(cameFrom[c])
       /\ CanStep(cameFrom[c], c, query.walls)
       /\ gScore[cameFrom[c]] + StepCost(cameFrom[c], c) <= gScore[c]

\* An entry never promises more than its cell has.
Entries ==
  \A e \in open :
    Scored(e[2]) /\ (e[2] = query.start \/ gScore[e[2]] + Heuristic(e[2]) <= e[1])

\* No way over u is shorter than what its neighbours know.
Relaxed(u) ==
  \A v \in Cells : CanStep(u, v, query.walls) =>
    Scored(v) /\ gScore[v] <= gScore[u] + StepCost(u, v)

\* What is not relaxed waits in the heap with its score, and so does the goal.
Frontier ==
  ~ended => \A u \in Cells : Scored(u) =>
    \/ u # query.goal /\ Relaxed(u)
    \/ \E f \in open : f[2] = u /\ f[1] <= gScore[u] + Heuristic(u)

SearchTypes ==
  /\ query \in Queries
  /\ open \in SUBSET (Nat \X Cells)
  /\ cameFrom \in [Cells -> Cells \cup {NoCell}]
  /\ gScore \in [Cells -> Nat \cup {NoScore}]
  /\ ended \in BOOLEAN

SearchInv == SearchTypes /\ Parents /\ Entries /\ Frontier

LEMMA StepCostRange == \A u, v : StepCost(u, v) \in {70, 99}
BY DEF StepCost

LEMMA QueryType ==
  ASSUME query \in Queries
  PROVE  /\ query.start \in Cells /\ query.goal \in Cells
         /\ query.start \notin query.walls /\ query.goal \notin query.walls
BY SearchAssumption

\* The heuristic never falls faster than the cost of a step rises, and is zero
\* at the goal.
LEMMA Consistent ==
  ASSUME query \in Queries
  PROVE  /\ \A u \in Cells : Heuristic(u) \in Nat
         /\ Heuristic(query.goal) = 0
         /\ \A u, v \in Cells : CanStep(u, v, query.walls) =>
              Heuristic(u) <= StepCost(u, v) + Heuristic(v)
<1>1. query.goal \in Cells
  BY QueryType
<1>2. /\ query.goal[1] \in Int /\ query.goal[2] \in Int
      /\ \A u \in Cells : u[1] \in Int /\ u[2] \in Int
  BY <1>1, GridAssumption DEF Cells
<1>3. \A u \in Cells : Heuristic(u) \in Nat
  BY <1>2 DEF Heuristic, Abs, Larger
<1>4. Heuristic(query.goal) = 0
  BY <1>2 DEF Heuristic, Abs, Larger
<1>5. ASSUME NEW u \in Cells, NEW v \in Cells, CanStep(u, v, query.walls)
      PROVE  Heuristic(u) <= StepCost(u, v) + Heuristic(v)
  <2>1. Abs(v[1] - u[1]) <= 1 /\ Abs(v[2] - u[2]) <= 1
    BY <1>5 DEF CanStep
  <2>2. /\ v[1] - u[1] \in {-1, 0, 1} /\ v[2] - u[2] \in {-1, 0, 1}
    BY <2>1, <1>2 DEF Abs
  <2> DEFINE dx == Abs(u[1] - query.goal[1])
             dy == Abs(u[2] - query.goal[2])
             ex == Abs(v[1] - query.goal[1])
             ey == Abs(v[2] - query.goal[2])
  <2>3. /\ dx \in Nat /\ dy \in Nat /\ ex \in Nat /\ ey \in Nat
        /\ dx - ex \in {-1, 0, 1} /\ dy - ey \in {-1, 0, 1}
        /\ u[1] = v[1] => dx = ex
        /\ u[2] = v[2] => dy = ey
    BY <2>2, <1>2 DEF Abs
  <2>4. /\ Heuristic(u) = 70 * (dx + dy) - 41 * (dx + dy - Larger(dx, dy))
        /\ Heuristic(v) = 70 * (ex + ey) - 41 * (ex + ey - Larger(ex, ey))
    BY DEF Heuristic
  <2>5. StepCost(u, v) = IF u[1] # v[1] /\ u[2] # v[2] THEN 99 ELSE 70
    BY DEF StepCost
  <2> HIDE DEF dx, dy, ex, ey
  <2>6. QED
    BY <2>3, <2>4, <2>5 DEF Larger
<1>6. QED
  BY <1>3, <1>4, <1>5

LEMMA ScoredNatural ==
  ASSUME SearchTypes
  PROVE  \A c \in Cells : Scored(c) => gScore[c] \in Nat
BY DEF SearchTypes, Scored

LEMMA SearchStarts == SearchInit => SearchInv
<1> SUFFICES ASSUME SearchInit PROVE SearchInv
  OBVIOUS
<1>1. query.start \in Cells /\ query \in Queries
  <2>1. query \in Queries
    BY DEF SearchInit
  <2>2. QED
    BY <2>1, QueryType
<1>2. SearchTypes
  <2>1. <<0, query.start>> \in Nat \X Cells
    BY <1>1
  <2>2. open \in SUBSET (Nat \X Cells)
    BY <2>1 DEF SearchInit
  <2>3. /\ cameFrom \in [Cells -> Cells \cup {NoCell}]
        /\ gScore \in [Cells -> Nat \cup {NoScore}]
        /\ ended \in BOOLEAN
    BY DEF SearchInit
  <2>4. QED
    BY <1>1, <2>2, <2>3 DEF SearchTypes
<1>3. \A c \in Cells : Scored(c) => c = query.start
  BY DEF SearchInit, Scored
<1>4. Parents
  BY <1>1, <1>3 DEF SearchInit, Parents
<1>5. Scored(query.start) /\ gScore[query.start] = 0
  BY <1>1, SearchAssumption DEF SearchInit, Scored
<1>6. Entries
  BY <1>5 DEF SearchInit, Entries
<1>7. Frontier
  <2>1. Heuristic(query.start) \in Nat
    BY <1>1, Consistent
  <2>2. <<0, query.start>> \in open
    BY DEF SearchInit
  <2>3. 0 <= gScore[query.start] + Heuristic(query.start)
    BY <2>1, <1>5
  <2>4. QED
    BY <1>3, <2>2, <2>3 DEF Frontier
<1>8. QED
  BY <1>2, <1>4, <1>6, <1>7 DEF SearchInv

\* What an expansion does to the scores.
LEMMA Expanded ==
  ASSUME SearchInv, NEW e \in open, Expand(e)
  PROVE  LET u == e[2] IN
         /\ u \in Cells /\ Scored(u) /\ gScore[u] \in Nat
         /\ u # query.goal
         /\ query' = query /\ ~ended /\ ~ended' /\ result' = result
         /\ Improved(u) \subseteq Cells /\ u \notin Improved(u)
         /\ query.start \notin Improved(u)
         /\ \A c \in Cells \ Improved(u) :
              gScore'[c] = gScore[c] /\ cameFrom'[c] = cameFrom[c]
         /\ \A c \in Improved(u) :
              /\ CanStep(u, c, query.walls)
              /\ gScore'[c] = gScore[u] + StepCost(u, c)
              /\ gScore'[c] \in Nat
              /\ Scored(c) => gScore[c] \in Nat /\ gScore'[c] < gScore[c]
              /\ cameFrom'[c] = u
              /\ <<gScore'[c] + Heuristic(c), c>> \in open'
         /\ \A f \in open : f # e => f \in open'
         /\ \A f \in open' : f \in open \/ \E c \in Improved(u) :
              f = <<gScore'[c] + Heuristic(c), c>>
<1> DEFINE u == e[2]
<1>1. u \in Cells /\ Scored(u)
  BY DEF SearchInv, SearchTypes, Entries
<1>2. gScore[u] \in Nat
  BY <1>1 DEF SearchInv, SearchTypes, Scored
<1>3. u # query.goal /\ query' = query /\ ~ended /\ ~ended' /\ result' = result
  BY DEF Expand
<1>4. Improved(u) \subseteq Cells /\ u \notin Improved(u)
  BY DEF Improved, CanStep
<1>5. query.start \notin Improved(u)
  <2>1. gScore[query.start] = 0 /\ 0 # NoScore
    BY SearchAssumption DEF SearchInv, Parents
  <2>2. ~ (gScore[u] + StepCost(u, query.start) < 0)
    BY <1>2, StepCostRange
  <2>3. ~Better(u, query.start)
    BY <2>1, <2>2 DEF Better
  <2>4. QED
    BY <2>3 DEF Improved
<1>6. \A c \in Cells \ Improved(u) :
        gScore'[c] = gScore[c] /\ cameFrom'[c] = cameFrom[c]
  BY DEF Expand, Reparented
<1>7. ASSUME NEW c \in Improved(u)
      PROVE  /\ CanStep(u, c, query.walls)
             /\ gScore'[c] = gScore[u] + StepCost(u, c)
             /\ gScore'[c] \in Nat
             /\ Scored(c) => gScore[c] \in Nat /\ gScore'[c] < gScore[c]
             /\ cameFrom'[c] = u
             /\ <<gScore'[c] + Heuristic(c), c>> \in open'
  <2>1. c \in Cells /\ CanStep(u, c, query.walls) /\ Better(u, c)
    BY DEF Improved
  <2>2. gScore'[c] = gScore[u] + StepCost(u, c) /\ cameFrom'[c] = u
    BY <2>1 DEF Expand, Reparented
  <2>3. gScore'[c] \in Nat
    BY <2>2, <1>2, StepCostRange
  <2>4. Scored(c) => gScore[c] \in Nat /\ gScore'[c] < gScore[c]
    BY <2>1, <2>2 DEF Better, Scored, SearchInv, SearchTypes
  <2>5. <<gScore[u] + StepCost(u, c) + Heuristic(c), c>> \in open'
    BY DEF Expand
  <2>6. QED
    BY <2>1, <2>2, <2>3, <2>4, <2>5
<1>8. \A f \in open : f # e => f \in open'
  BY DEF Expand, Popped
<1>9. ASSUME NEW f \in open', f \notin open
      PROVE  \E c \in Improved(u) : f = <<gScore'[c] + Heuristic(c), c>>
  <2>1. PICK c \in Improved(u) :
          f = <<gScore[u] + StepCost(u, c) + Heuristic(c), c>>
    BY <1>9 DEF Expand, Popped
  <2>2. gScore'[c] = gScore[u] + StepCost(u, c)
    BY <1>7
  <2>3. QED
    BY <2>1, <2>2
<1>10. QED
  BY <1>1, <1>2, <1>3, <1>4, <1>5, <1>6, <1>7, <1>8, <1>9

LEMMA ExpandTypes ==
  ASSUME SearchInv, NEW e \in open, Expand(e)
  PROVE  SearchTypes'
<1> DEFINE u == e[2]
<1> HIDE DEF u
<1>1. SearchTypes
  BY DEF SearchInv
<1>2. ASSUME NEW c \in Cells
      PROVE  /\ gScore'[c] \in Nat \cup {NoScore}
             /\ cameFrom'[c] \in Cells \cup {NoCell}
  <2>1. CASE c \in Improved(u)
    BY <2>1, Expanded DEF u
  <2>2. CASE c \notin Improved(u)
    BY <2>2, <1>1, Expanded DEF u, SearchTypes
  <2>3. QED
    BY <2>1, <2>2
<1>3. /\ gScore' = [c \in Cells |-> gScore'[c]]
      /\ cameFrom' = [c \in Cells |-> cameFrom'[c]]
  BY DEF Expand
<1>4. ASSUME NEW f \in open' PROVE f \in Nat \X Cells
  <2>1. CASE f \in open
    BY <2>1, <1>1 DEF SearchTypes
  <2>2. ASSUME NEW c \in Improved(u), f = <<gScore'[c] + Heuristic(c), c>>
        PROVE  f \in Nat \X Cells
    <3>1. c \in Cells /\ gScore'[c] \in Nat
      BY Expanded DEF u
    <3>2. Heuristic(c) \in Nat
      BY <3>1, <1>1, Consistent DEF SearchTypes
    <3>3. gScore'[c] + Heuristic(c) \in Nat
      BY <3>1, <3>2
    <3>4. QED
      BY <2>2, <3>1, <3>3
  <2>3. QED
    BY <2>1, <2>2, Expanded DEF u
<1>5. query' \in Queries /\ ended' \in BOOLEAN
  BY <1>1 DEF SearchTypes, Expand
<1>6. gScore' \in [Cells -> Nat \cup {NoScore}]
  BY <1>2, <1>3
<1>7. cameFrom' \in [Cells -> Cells \cup {NoCell}]
  BY <1>2, <1>3
<1>8. QED
  BY <1>4, <1>5, <1>6, <1>7 DEF SearchTypes

\* Scores only fall, and what is scored stays so.
LEMMA ScoresFall ==
  ASSUME SearchInv, NEW e \in open, Expand(e), NEW c \in Cells, Scored(c)
  PROVE  /\ Scored(c)' /\ gScore[c] \in Nat /\ gScore'[c] \in Nat
         /\ gScore'[c] <= gScore[c]
<1>1. gScore[c] \in Nat
  BY DEF SearchInv, SearchTypes, Scored
<1>2. CASE c \in Improved(e[2])
  <2>1. gScore'[c] \in Nat /\ gScore'[c] < gScore[c]
    BY <1>2, Expanded
  <2>2. gScore'[c] # NoScore
    BY <2>1, SearchAssumption
  <2>3. QED
    BY <1>1, <2>1, <2>2 DEF Scored
<1>3. CASE c \notin Improved(e[2])
  BY <1>1, <1>3, Expanded DEF Scored
<1>4. QED
  BY <1>2, <1>3

\* A cell that improves gets a parent with a lower score; parents only improve.
LEMMA ExpandParents ==
  ASSUME SearchInv, NEW e \in open, Expand(e)
  PROVE  Parents'
<1> DEFINE u == e[2]
<1> HIDE DEF u
<1>1. query' = query /\ query.start \in Cells /\ query.start \notin Improved(u)
  BY Expanded, QueryType DEF u, SearchInv, SearchTypes
<1>2. gScore'[query.start] = 0 /\ cameFrom'[query.start] = NoCell
  BY <1>1, Expanded DEF u, SearchInv, Parents
<1>3. ASSUME NEW c \in Cells, Scored(c)', c # query.start
      PROVE  /\ cameFrom'[c] \in Cells /\ Scored(cameFrom[c])'
             /\ CanStep(cameFrom'[c], c, query.walls)
             /\ gScore'[cameFrom'[c]] + StepCost(cameFrom'[c], c) <= gScore'[c]
  <2>1. CASE c \in Improved(u)
    <3>1. cameFrom'[c] = u /\ u \in Cells /\ CanStep(u, c, query.walls)
      BY <2>1, Expanded DEF u
    <3>2. gScore'[u] = gScore[u] /\ Scored(u) /\ gScore[u] \in Nat
      BY Expanded DEF u
    <3>3. gScore'[c] = gScore[u] + StepCost(u, c)
      BY <2>1, Expanded DEF u
    <3>4. Scored(u)'
      BY <3>2 DEF Scored
    <3>5. gScore[u] + StepCost(u, c) <= gScore[u] + StepCost(u, c)
      BY <3>2, StepCostRange
    <3>6. QED
      BY <3>1, <3>2, <3>3, <3>4, <3>5 DEF Scored
  <2>2. CASE c \notin Improved(u)
    <3>0. PICK p : p = cameFrom[c]
      OBVIOUS
    <3>1. cameFrom'[c] = p /\ gScore'[c] = gScore[c]
      BY <2>2, <3>0, Expanded DEF u
    <3>2. Scored(c)
      BY <3>1, <1>3 DEF Scored
    <3>3. /\ p \in Cells /\ Scored(p) /\ CanStep(p, c, query.walls)
          /\ gScore[p] + StepCost(p, c) <= gScore[c]
      BY <3>0, <3>2, <1>3 DEF SearchInv, Parents
    <3>4. /\ Scored(p)' /\ gScore[p] \in Nat /\ gScore'[p] \in Nat
          /\ gScore'[p] <= gScore[p]
      BY <3>3, ScoresFall
    <3>5. gScore[c] \in Nat
      BY <3>2, ScoresFall
    <3>6. gScore'[p] + StepCost(p, c) <= gScore'[c]
      BY <3>1, <3>3, <3>4, <3>5, StepCostRange
    <3>7. Scored(cameFrom[c])'
      BY <3>1, <3>4, Zenon DEF Scored
    <3>8. QED
      BY <3>1, <3>3, <3>6, <3>7
  <2>3. QED
    BY <2>1, <2>2
<1>4. QED
  BY <1>1, <1>2, <1>3 DEF Parents

\* Old entries promise no less than their cells have, which only falls.
LEMMA ExpandEntries ==
  ASSUME SearchInv, NEW e \in open, Expand(e)
  PROVE  Entries'
<1> DEFINE u == e[2]
<1> HIDE DEF u
<1>1. query' = query /\ query \in Queries
  BY Expanded DEF SearchInv, SearchTypes
<1>2. ASSUME NEW f \in open'
      PROVE  /\ Scored(f[2])'
             /\ \/ f[2] = query.start
                \/ gScore'[f[2]] + Heuristic(f[2]) <= f[1]
  <2>1. CASE f \in open
    <3>1. f[1] \in Nat /\ f[2] \in Cells
      BY <2>1 DEF SearchInv, SearchTypes
    <3>2. /\ Scored(f[2])
          /\ f[2] = query.start \/ gScore[f[2]] + Heuristic(f[2]) <= f[1]
      BY <2>1 DEF SearchInv, Entries
    <3>3. /\ Scored(f[2])' /\ gScore[f[2]] \in Nat /\ gScore'[f[2]] \in Nat
          /\ gScore'[f[2]] <= gScore[f[2]]
      BY <3>1, <3>2, ScoresFall
    <3>4. Heuristic(f[2]) \in Nat
      BY <3>1, <1>1, Consistent
    <3>5. gScore[f[2]] + Heuristic(f[2]) <= f[1]
            => gScore'[f[2]] + Heuristic(f[2]) <= f[1]
      BY <3>1, <3>3, <3>4
    <3>6. QED
      BY <3>2, <3>3, <3>5
  <2>2. ASSUME NEW c \in Improved(u), f = <<gScore'[c] + Heuristic(c), c>>
        PROVE  Scored(f[2])' /\ gScore'[f[2]] + Heuristic(f[2]) <= f[1]
    <3>1. c \in Cells /\ gScore'[c] \in Nat
      BY Expanded DEF u
    <3>2. Heuristic(c) \in Nat
      BY <3>1, <1>1, Consistent
    <3>3. f[2] = c /\ f[1] = gScore'[c] + Heuristic(c)
      BY <2>2
    <3>4. Scored(c)'
      BY <3>1, SearchAssumption DEF Scored
    <3>5. gScore'[c] + Heuristic(c) <= gScore'[c] + Heuristic(c)
      BY <3>1, <3>2
    <3>6. QED
      BY <3>3, <3>4, <3>5 DEF Scored
  <2>3. QED
    BY <2>1, <2>2, Expanded DEF u
<1>3. \A c : Heuristic(c)' = Heuristic(c)
  BY <1>1 DEF Heuristic
<1>4. QED
  BY <1>1, <1>2, <1>3 DEF Entries

\* The expanded cell is relaxed; what improves is pushed.
LEMMA ExpandFrontier ==
  ASSUME SearchInv, NEW e \in open, Expand(e)
  PROVE  Frontier'
<1> DEFINE u == e[2]
<1> HIDE DEF u
<1>1. query' = query /\ query \in Queries /\ ~ended
  BY Expanded DEF SearchInv, SearchTypes
<1>2. \A c : Heuristic(c)' = Heuristic(c)
  BY <1>1 DEF Heuristic
<1>3. u \in Cells /\ Scored(u) /\ gScore[u] \in Nat /\ u # query.goal /\ u = e[2]
      /\ gScore'[u] = gScore[u]
  BY Expanded DEF u
<1>4. ASSUME NEW w \in Cells, w \notin Improved(u), Relaxed(w) \/ w = u, Scored(w)
      PROVE  Relaxed(w)'
  <2>1. gScore'[w] = gScore[w] /\ gScore[w] \in Nat
    BY <1>4, Expanded, ScoresFall DEF u
  <2>2. ASSUME NEW v \in Cells, CanStep(w, v, query.walls)
        PROVE  Scored(v)' /\ gScore'[v] <= gScore[w] + StepCost(w, v)
    <3>1. CASE w = u
      <4>1. CASE v \in Improved(u)
        <5>1. gScore'[v] = gScore[u] + StepCost(u, v) /\ gScore'[v] \in Nat
          BY <4>1, Expanded DEF u
        <5>2. QED
          BY <5>1, <3>1, SearchAssumption DEF Scored
      <4>2. CASE v \notin Improved(u)
        <5>1. ~Better(u, v) /\ gScore'[v] = gScore[v]
          BY <4>2, <3>1, <2>2, Expanded DEF u, Improved
        <5>2. Scored(v) /\ ~(gScore[u] + StepCost(u, v) < gScore[v])
          BY <5>1 DEF Better, Scored
        <5>3. gScore[v] \in Nat
          BY <5>2, ScoresFall
        <5>4. gScore[v] <= gScore[u] + StepCost(u, v)
          BY <5>2, <5>3, <1>3, StepCostRange
        <5>5. QED
          BY <5>1, <5>2, <5>4, <3>1 DEF Scored
      <4>3. QED
        BY <4>1, <4>2
    <3>2. CASE w # u
      <4>1. Scored(v) /\ gScore[v] <= gScore[w] + StepCost(w, v)
        BY <1>4, <2>2, <3>2 DEF Relaxed
      <4>2. Scored(v)' /\ gScore[v] \in Nat /\ gScore'[v] \in Nat /\ gScore'[v] <= gScore[v]
        BY <4>1, ScoresFall
      <4>3. gScore'[v] <= gScore[w] + StepCost(w, v)
        BY <4>1, <4>2, <2>1, StepCostRange
      <4>4. QED
        BY <4>2, <4>3
    <3>3. QED
      BY <3>1, <3>2
  <2>3. QED
    BY <2>1, <2>2, <1>1 DEF Relaxed
<1>5. ASSUME NEW w \in Cells, Scored(w)'
      PROVE  \/ w # query.goal /\ Relaxed(w)'
             \/ \E f \in open' : f[2] = w /\ f[1] <= gScore'[w] + Heuristic(w)
  <2>1. CASE w \in Improved(u)
    <3>1. gScore'[w] \in Nat /\ <<gScore'[w] + Heuristic(w), w>> \in open'
      BY <2>1, Expanded DEF u
    <3>2. Heuristic(w) \in Nat
      BY <1>1, Consistent
    <3>3. gScore'[w] + Heuristic(w) <= gScore'[w] + Heuristic(w)
      BY <3>1, <3>2
    <3>4. QED
      BY <3>1, <3>3
  <2>2. CASE w \notin Improved(u)
    <3>1. gScore'[w] = gScore[w] /\ Scored(w)
      BY <2>2, <1>5, Expanded DEF u, Scored
    <3>2. CASE w = u
      BY <3>1, <3>2, <2>2, <1>3, <1>4
    <3>3. CASE w # u /\ w # query.goal /\ Relaxed(w)
      BY <3>1, <3>3, <2>2, <1>4
    <3>4. CASE w # u /\ ~(w # query.goal /\ Relaxed(w))
      <4>1. PICK f \in open : f[2] = w /\ f[1] <= gScore[w] + Heuristic(w)
        BY <3>1, <3>4, <1>1 DEF SearchInv, Frontier
      <4>2. f \in open'
        BY <4>1, <3>4, <1>3, Expanded
      <4>3. QED
        BY <4>1, <4>2, <3>1
    <3>5. QED
      BY <3>2, <3>3, <3>4
  <2>3. QED
    BY <2>1, <2>2
<1>6. QED
  BY <1>1, <1>2, <1>5 DEF Frontier

LEMMA SearchStep == SearchInv /\ [SearchNext]_searchVars => SearchInv'
<1> SUFFICES ASSUME SearchInv, [SearchNext]_searchVars PROVE SearchInv'
  OBVIOUS
<1>1. ASSUME NEW e \in open, Expand(e) PROVE SearchInv'
  BY <1>1, ExpandTypes, ExpandParents, ExpandEntries, ExpandFrontier DEF SearchInv
<1>2. ASSUME UNCHANGED <<query, cameFrom, gScore>>, open' \subseteq open,
             ended' \in BOOLEAN, ended' \/ UNCHANGED <<open, ended>>
      PROVE  SearchInv'
  <2>1. SearchTypes'
    BY <1>2 DEF SearchInv, SearchTypes
  <2>2. Parents'
    BY <1>2 DEF SearchInv, Parents, Scored
  <2>3. Entries'
    BY <1>2 DEF SearchInv, Entries, Scored, Heuristic
  <2>4. Frontier'
    BY <1>2 DEF SearchInv, Frontier, Scored, Heuristic, Relaxed
  <2>5. QED
    BY <2>1, <2>2, <2>3, <2>4 DEF SearchInv
<1>3. ASSUME NEW e \in open, Finish(e) PROVE SearchInv'
  BY <1>2, <1>3 DEF Finish, Popped
<1>4. CASE Fail
  BY <1>2, <1>4 DEF Fail
<1>5. CASE UNCHANGED searchVars
  BY <1>2, <1>5 DEF searchVars, SearchInv, SearchTypes
<1>6. QED
  BY <1>1, <1>3, <1>4, <1>5 DEF SearchNext

-----------------------------------------------------------------------------
(* Ways and their costs *)

\* The cost of a route grows by the cost of each of its steps.
LEMMA RouteCosts ==
  ASSUME NEW w \in Seq(Cells), w # <<>>
  PROVE  \E C \in [1 .. Len(w) -> Nat] :
           /\ C[1] = 0 /\ C[Len(w)] = Cost(w)
           /\ \A k \in 1 .. Len(w) - 1 : C[k + 1] = C[k] + StepCost(w[k], w[k + 1])
<1> DEFINE Diagonal(k) == w[k][1] # w[k + 1][1] /\ w[k][2] # w[k + 1][2]
           D(k) == {i \in 1 .. k - 1 : Diagonal(i)}
           C == [k \in 1 .. Len(w) |-> 70 * (k - 1) + 29 * Cardinality(D(k))]
<1>1. Len(w) \in Nat /\ 1 <= Len(w)
  BY EmptySeq, LenProperties
<1>2. \A k \in 1 .. Len(w) : IsFiniteSet(D(k)) /\ Cardinality(D(k)) \in Nat
  <2> TAKE k \in 1 .. Len(w)
  <2>1. IsFiniteSet(1 .. k - 1)
    BY FS_Interval, <1>1
  <2>2. D(k) \in SUBSET (1 .. k - 1)
    OBVIOUS
  <2> HIDE DEF D
  <2>3. IsFiniteSet(D(k))
    BY <2>1, <2>2, FS_Subset
  <2>4. QED
    BY <2>3, FS_CardinalityType
<1>3. \A k \in 1 .. Len(w) : C[k] = 70 * (k - 1) + 29 * Cardinality(D(k))
  OBVIOUS
<1>4. C \in [1 .. Len(w) -> Nat]
  <2> HIDE DEF D
  <2>1. ASSUME NEW k \in 1 .. Len(w)
        PROVE  70 * (k - 1) + 29 * Cardinality(D(k)) \in Nat
    <3>1. k - 1 \in Nat /\ Cardinality(D(k)) \in Nat
      BY <1>1, <1>2
    <3>2. QED
      BY <3>1
  <2>2. QED
    BY <2>1
<1>5. C[1] = 0
  <2>1. D(1) = {} /\ 1 \in 1 .. Len(w)
    BY <1>1
  <2> HIDE DEF D, C
  <2>2. Cardinality(D(1)) = 0
    BY <2>1, FS_EmptySet, Zenon
  <2>3. C[1] = 70 * (1 - 1) + 29 * Cardinality(D(1))
    BY <2>1, <1>3
  <2>4. QED
    BY <2>2, <2>3
<1>6. C[Len(w)] = Cost(w)
  <2>1. Len(w) \in 1 .. Len(w)
    BY <1>1
  <2>2. QED
    BY <2>1, <1>3 DEF Cost
<1>7. ASSUME NEW k \in 1 .. Len(w) - 1
      PROVE  C[k + 1] = C[k] + StepCost(w[k], w[k + 1])
  <2>1. k \in 1 .. Len(w) /\ k + 1 \in 1 .. Len(w) /\ k \in Nat
    BY <1>1
  <2>2. D(k + 1) = IF Diagonal(k) THEN D(k) \cup {k} ELSE D(k)
    BY <2>1
  <2>3. k \notin D(k)
    BY <2>1
  <2>4. StepCost(w[k], w[k + 1]) = IF Diagonal(k) THEN 99 ELSE 70
    BY DEF StepCost
  <2> HIDE DEF D, C, Diagonal
  <2>5. Cardinality(D(k + 1))
          = IF Diagonal(k) THEN Cardinality(D(k)) + 1 ELSE Cardinality(D(k))
    BY <2>1, <2>2, <2>3, <1>2, FS_AddElement
  <2>6. Cardinality(D(k)) \in Nat
    BY <2>1, <1>2
  <2>7. /\ C[k] = 70 * (k - 1) + 29 * Cardinality(D(k))
        /\ C[k + 1] = 70 * ((k + 1) - 1) + 29 * Cardinality(D(k + 1))
    BY <2>1, <1>3
  <2>8. CASE Diagonal(k)
    <3>1. Cardinality(D(k + 1)) = Cardinality(D(k)) + 1 /\ StepCost(w[k], w[k + 1]) = 99
      BY <2>8, <2>4, <2>5
    <3>2. QED
      BY <3>1, <2>1, <2>6, <2>7
  <2>9. CASE ~Diagonal(k)
    <3>1. Cardinality(D(k + 1)) = Cardinality(D(k)) /\ StepCost(w[k], w[k + 1]) = 70
      BY <2>9, <2>4, <2>5
    <3>2. QED
      BY <3>1, <2>1, <2>6, <2>7
  <2>10. QED
    BY <2>8, <2>9
<1> HIDE DEF C
<1>8. QED
  BY <1>4, <1>5, <1>6, <1>7

\* A way of m cells from start to goal that has cost C[k] at its cell k.
IsWay(m, w, C) ==
  /\ w \in [1 .. m -> Cells] /\ C \in [1 .. m -> Int]
  /\ w[1] = query.start /\ w[m] = query.goal
  /\ 0 <= C[1]
  /\ \A k \in 1 .. m - 1 :
       /\ CanStep(w[k], w[k + 1], query.walls)
       /\ C[k] + StepCost(w[k], w[k + 1]) <= C[k + 1]

\* As long as the goal is not known at the cost of a way, an entry is in the
\* heap that promises that cost or less.
LEMMA WayIsOpen ==
  ASSUME SearchInv, ~ended, NEW m \in Nat \ {0}, NEW w, NEW C, IsWay(m, w, C),
         ~(Scored(query.goal) /\ gScore[query.goal] <= C[m])
  PROVE  \E f \in open : f[1] <= C[m]
<1> DEFINE Bad == {k \in 1 .. m : ~(Scored(w[k]) /\ gScore[w[k]] <= C[k])}
<1>1. /\ w \in [1 .. m -> Cells] /\ C \in [1 .. m -> Int]
      /\ w[1] = query.start /\ w[m] = query.goal /\ 0 <= C[1]
      /\ \A k \in 1 .. m - 1 :
           /\ CanStep(w[k], w[k + 1], query.walls)
           /\ C[k] + StepCost(w[k], w[k + 1]) <= C[k + 1]
  BY DEF IsWay
<1>2. m \in Bad /\ Bad \in SUBSET Nat
  BY <1>1
<1>3. PICK k \in Bad : \A n \in Bad : k <= n
  <2> HIDE DEF Bad
  <2> QED  BY <1>2, LeastNatural
<1>4. k \in 1 .. m /\ ~(Scored(w[k]) /\ gScore[w[k]] <= C[k])
  OBVIOUS
<1>5. k # 1
  BY <1>1, <1>4, SearchAssumption DEF SearchInv, Parents, Scored
<1> DEFINE i == k - 1
<1>6. i \in 1 .. m - 1 /\ i \in 1 .. m /\ k = i + 1 /\ i < k
  BY <1>4, <1>5
<1>7. i \notin Bad
  <2> HIDE DEF Bad
  <2> QED  BY <1>2, <1>3, <1>6
<1>8. Scored(w[i]) /\ gScore[w[i]] <= C[i]
  BY <1>6, <1>7
<1> HIDE DEF i, Bad
<1>9. /\ w[i] \in Cells /\ w[k] \in Cells /\ C[i] \in Int /\ C[k] \in Int
      /\ CanStep(w[i], w[k], query.walls)
      /\ C[i] + StepCost(w[i], w[k]) <= C[k]
  BY <1>1, <1>4, <1>6
<1>10. gScore[w[i]] \in Nat
  BY <1>8, <1>9 DEF SearchInv, SearchTypes, Scored
<1>11. ~Relaxed(w[i])
  <2>1. SUFFICES ASSUME Relaxed(w[i]) PROVE FALSE
    OBVIOUS
  <2>2. Scored(w[k]) /\ gScore[w[k]] <= gScore[w[i]] + StepCost(w[i], w[k])
    BY <2>1, <1>9 DEF Relaxed
  <2>3. gScore[w[k]] \in Nat
    BY <2>2, <1>9 DEF SearchInv, SearchTypes, Scored
  <2>4. gScore[w[k]] <= C[k]
    BY <2>2, <2>3, <1>8, <1>9, <1>10, StepCostRange
  <2>5. QED
    BY <1>4, <2>2, <2>4
<1>12. PICK f \in open : f[2] = w[i] /\ f[1] <= gScore[w[i]] + Heuristic(w[i])
  BY <1>8, <1>9, <1>11 DEF SearchInv, Frontier
<1> DEFINE H == [n \in 1 .. m |-> C[n] + Heuristic(w[n])]
<1>13. query \in Queries /\ \A n \in 1 .. m : w[n] \in Cells /\ Heuristic(w[n]) \in Nat
                                             /\ C[n] \in Int
  BY <1>1, Consistent DEF SearchInv, SearchTypes
<1>14. \A n \in 1 .. m : H[n] = C[n] + Heuristic(w[n])
  OBVIOUS
<1>15. H \in [1 .. m -> Int]
  BY <1>13
<1> HIDE DEF H
<1>16. ASSUME NEW n \in 1 .. m - 1 PROVE H[n] <= H[n + 1]
  <2>1. n \in 1 .. m /\ n + 1 \in 1 .. m
    OBVIOUS
  <2>2. /\ CanStep(w[n], w[n + 1], query.walls)
        /\ C[n] + StepCost(w[n], w[n + 1]) <= C[n + 1]
    BY <1>1
  <2>3. Heuristic(w[n]) <= StepCost(w[n], w[n + 1]) + Heuristic(w[n + 1])
    BY <2>1, <2>2, <1>13, Consistent
  <2>4. H[n] = C[n] + Heuristic(w[n]) /\ H[n + 1] = C[n + 1] + Heuristic(w[n + 1])
    BY <2>1, <1>14
  <2>5. /\ C[n] \in Int /\ C[n + 1] \in Int
        /\ Heuristic(w[n]) \in Nat /\ Heuristic(w[n + 1]) \in Nat
    BY <2>1, <1>13
  <2>6. QED
    BY <2>2, <2>3, <2>4, <2>5, StepCostRange
<1>17. H[i] <= H[m]
  <2>1. m \in Nat /\ m \in 1 .. m /\ i <= m
    BY <1>6
  <2>2. Rising(H, m)
    BY <1>15, <1>16 DEF Rising
  <2>3. QED
    BY <2>1, <2>2, <1>6, Rises
<1>18. H[m] = C[m] /\ H[i] = C[i] + Heuristic(w[i])
  <2>1. m \in 1 .. m /\ C[m] \in Int
    BY <1>13
  <2>2. H[m] = C[m] + 0
    BY <2>1, <1>1, <1>13, <1>14, Consistent
  <2>3. QED
    BY <2>1, <2>2, <1>6, <1>14
<1>19. f[1] \in Nat /\ Heuristic(w[i]) \in Nat /\ C[m] \in Int
  BY <1>6, <1>13 DEF SearchInv, SearchTypes
<1>20. f[1] <= C[m]
  BY <1>8, <1>9, <1>10, <1>12, <1>17, <1>18, <1>19
<1>21. QED
  BY <1>20

\* With the goal in front, no way costs less than its score.
LEMMA GoalIsBest ==
  ASSUME SearchInv, ~ended, NEW e \in Least, e[2] = query.goal,
         NEW m \in Nat \ {0}, NEW w, NEW C, IsWay(m, w, C)
  PROVE  gScore[query.goal] <= C[m]
<1>1. SUFFICES ASSUME ~(gScore[query.goal] <= C[m]) PROVE FALSE
  OBVIOUS
<1>2. PICK f \in open : f[1] <= C[m]
  BY <1>1, WayIsOpen
<1>3. e \in open /\ e[1] <= f[1]
  BY DEF Least
<1>4. /\ query.goal \in Cells /\ query.start \in Cells /\ Heuristic(query.goal) = 0
      /\ Scored(query.goal) /\ gScore[query.goal] \in Nat
      /\ e[1] \in Nat /\ f[1] \in Nat
  BY <1>3, QueryType, Consistent, ScoredNatural
     DEF SearchInv, SearchTypes, Entries
<1>5. gScore[query.goal] <= e[1]
  <2>1. CASE query.goal = query.start
    <3>1. gScore[query.goal] = 0
      BY <2>1 DEF SearchInv, Parents
    <3>2. QED
      BY <3>1, <1>4
  <2>2. CASE query.goal # query.start
    <3>1. gScore[query.goal] + Heuristic(query.goal) <= e[1]
      BY <2>2, <1>3 DEF SearchInv, Entries
    <3>2. QED
      BY <3>1, <1>4
  <2>3. QED
    BY <2>1, <2>2
<1>6. C[m] \in Int
  BY DEF IsWay
<1>7. QED
  BY <1>1, <1>2, <1>3, <1>4, <1>5, <1>6

\* With an empty heap, no way leads to the goal.
LEMMA NoWayLeft ==
  ASSUME SearchInv, ~ended, open = {},
         NEW m \in Nat \ {0}, NEW w, NEW C, IsWay(m, w, C)
  PROVE  FALSE
<1>1. Scored(query.goal)
  BY WayIsOpen
<1>2. query.goal \in Cells
  BY QueryType DEF SearchInv, SearchTypes
<1>3. QED
  BY <1>1, <1>2 DEF SearchInv, Frontier

-----------------------------------------------------------------------------
(* Following the parents *)

LEMMA CellsFinite == IsFiniteSet(Cells) /\ Cardinality(Cells) \in Nat
<1>1. IsFiniteSet(0 .. Width - 1) /\ IsFiniteSet(0 .. Height - 1)
  BY FS_Interval, GridAssumption
<1>2. IsFiniteSet(Cells)
  BY <1>1, FS_Product DEF Cells
<1>3. QED
  BY <1>2, FS_CardinalityType

\* A sequence of cells that has none twice is no longer than there are cells.
LEMMA DistinctAreFew ==
  ASSUME NEW w \in Seq(Cells),
         \A i, j \in 1 .. Len(w) : w[i] = w[j] => i = j
  PROVE  Len(w) <= Cardinality(Cells)
<1>1. Len(w) \in Nat /\ w \in [1 .. Len(w) -> Cells]
  BY SeqDef, LenProperties
<1>2. IsFiniteSet(1 .. Len(w)) /\ Cardinality(1 .. Len(w)) = Len(w)
  BY <1>1, FS_Interval
<1>3. SUFFICES ASSUME Cardinality(Cells) < Len(w) PROVE FALSE
  BY <1>1, CellsFinite
<1>4. \E i, j \in 1 .. Len(w) : i # j /\ w[i] = w[j]
  BY <1>1, <1>2, <1>3, CellsFinite, FS_PigeonHole
<1>5. QED
  BY <1>4

\* A sequence of scored cells that follows parents to c.
Leads(w, c) ==
  /\ w \in Chains
  /\ w[Len(w)] = c
  /\ \A k \in 1 .. Len(w) : Scored(w[k])
  /\ \A k \in 1 .. Len(w) - 1 :
       /\ CanStep(w[k], w[k + 1], query.walls)
       /\ gScore[w[k]] + StepCost(w[k], w[k + 1]) <= gScore[w[k + 1]]

LEMMA ChainType ==
  ASSUME NEW w \in Chains
  PROVE  /\ Len(w) \in Nat /\ 1 <= Len(w) /\ w \in Seq(Cells) /\ w # <<>>
         /\ \A k \in 1 .. Len(w) : w[k] \in Cells
<1>1. w \in Seq(Cells) /\ w # <<>>
  BY DEF Chains
<1>2. Len(w) \in Nat /\ 1 <= Len(w)
  BY <1>1, EmptySeq, LenProperties
<1>3. QED
  BY <1>1, <1>2

\* A chain that has not reached the start grows.
LEMMA LongerLeads ==
  ASSUME SearchInv, NEW c, NEW w, Leads(w, c)
  PROVE  /\ Leads(Longer(w), c)
         /\ w[1] = query.start => Longer(w) = w
         /\ w[1] # query.start => Len(Longer(w)) = Len(w) + 1
<1>1. /\ w \in Chains /\ w \in Seq(Cells) /\ w # <<>> /\ Len(w) \in Nat /\ 1 <= Len(w)
      /\ w[1] \in Cells /\ Scored(w[1]) /\ w[Len(w)] = c
  BY ChainType DEF Leads
<1>2. CASE w[1] = query.start
  <2>1. cameFrom[w[1]] = NoCell
    BY <1>2 DEF SearchInv, Parents
  <2>2. QED
    BY <1>2, <2>1 DEF Longer
<1>3. CASE w[1] # query.start
  <2>1. PICK u \in Cells : /\ u = cameFrom[w[1]] /\ Scored(u)
                           /\ CanStep(u, w[1], query.walls)
                           /\ gScore[u] + StepCost(u, w[1]) <= gScore[w[1]]
    BY <1>1, <1>3 DEF SearchInv, Parents
  <2>2. PICK x : x = <<u>> \o w
    OBVIOUS
  <2>3. /\ x \in Seq(Cells) /\ Len(x) = Len(w) + 1 /\ x[1] = u
        /\ \A k \in 1 .. Len(w) : x[k + 1] = w[k]
    BY <1>1, <2>2
  <2>4. Longer(w) = x
    BY <2>1, <2>2, SearchAssumption DEF Longer
  <2>5. x \in Chains
    BY <1>1, <2>3 DEF Chains
  <2>6. x[Len(x)] = c
    BY <1>1, <2>3
  <2>7. ASSUME NEW k \in 1 .. Len(x) PROVE Scored(x[k])
    <3>1. k = 1 \/ (k - 1 \in 1 .. Len(w) /\ (k - 1) + 1 = k)
      BY <1>1, <2>3
    <3>2. CASE k = 1
      BY <3>2, <2>1, <2>3
    <3>3. CASE k - 1 \in 1 .. Len(w) /\ (k - 1) + 1 = k
      <4>1. x[k] = w[k - 1] /\ Scored(w[k - 1])
        BY <3>3, <2>3 DEF Leads
      <4>2. QED
        BY <4>1
    <3>4. QED
      BY <3>1, <3>2, <3>3
  <2>8. ASSUME NEW k \in 1 .. Len(x) - 1
        PROVE  /\ CanStep(x[k], x[k + 1], query.walls)
               /\ gScore[x[k]] + StepCost(x[k], x[k + 1]) <= gScore[x[k + 1]]
    <3>1. \/ k = 1
          \/ /\ k - 1 \in 1 .. Len(w) - 1 /\ k - 1 \in 1 .. Len(w)
             /\ (k - 1) + 1 = k /\ k \in 1 .. Len(w)
      BY <1>1, <2>3
    <3>2. CASE k = 1
      <4>1. x[k] = u /\ x[k + 1] = w[1]
        BY <3>2, <2>3, <1>1
      <4>2. QED
        BY <4>1, <2>1
    <3>3. CASE /\ k - 1 \in 1 .. Len(w) - 1 /\ k - 1 \in 1 .. Len(w)
               /\ (k - 1) + 1 = k /\ k \in 1 .. Len(w)
      <4>1. x[k] = w[k - 1] /\ x[k + 1] = w[k]
        BY <3>3, <2>3
      <4>2. /\ CanStep(w[k - 1], w[k], query.walls)
            /\ gScore[w[k - 1]] + StepCost(w[k - 1], w[k]) <= gScore[w[k]]
        BY <3>3 DEF Leads
      <4>3. QED
        BY <4>1, <4>2
    <3>4. QED
      BY <3>1, <3>2, <3>3
  <2>9. Leads(x, c)
    BY <2>5, <2>6, <2>7, <2>8 DEF Leads
  <2>10. QED
    BY <1>3, <2>3, <2>4, <2>9
<1>4. QED
  BY <1>2, <1>3

\* Scores rise along what leads to a cell, so that it has no cell twice.
LEMMA LeadsDistinct ==
  ASSUME SearchInv, NEW c, NEW w, Leads(w, c)
  PROVE  \A i, j \in 1 .. Len(w) : w[i] = w[j] => i = j
<1> DEFINE H == [k \in 1 .. Len(w) |-> gScore[w[k]] - k]
<1>1. Len(w) \in Nat /\ \A k \in 1 .. Len(w) : w[k] \in Cells /\ Scored(w[k])
  BY ChainType DEF Leads
<1>2. \A k \in 1 .. Len(w) : gScore[w[k]] \in Nat
  BY <1>1, ScoredNatural DEF SearchInv
<1>3. \A k \in 1 .. Len(w) : H[k] = gScore[w[k]] - k
  OBVIOUS
<1>4. H \in [1 .. Len(w) -> Int]
  BY <1>1, <1>2
<1> HIDE DEF H
<1>5. ASSUME NEW k \in 1 .. Len(w) - 1 PROVE H[k] <= H[k + 1]
  <2>1. k \in 1 .. Len(w) /\ k + 1 \in 1 .. Len(w) /\ k \in Int
    BY <1>1
  <2>2. gScore[w[k]] + StepCost(w[k], w[k + 1]) <= gScore[w[k + 1]]
    BY DEF Leads
  <2>3. gScore[w[k]] \in Nat /\ gScore[w[k + 1]] \in Nat
    BY <2>1, <1>2
  <2>4. H[k] = gScore[w[k]] - k /\ H[k + 1] = gScore[w[k + 1]] - (k + 1)
    BY <2>1, <1>3
  <2>5. QED
    BY <2>1, <2>2, <2>3, <2>4, StepCostRange
<1>6. \A i, j \in 1 .. Len(w) : i <= j => H[i] <= H[j]
  <2>1. Rising(H, Len(w))
    BY <1>4, <1>5 DEF Rising
  <2>2. QED
    BY <2>1, <1>1, Rises
<1>7. ASSUME NEW i \in 1 .. Len(w), NEW j \in 1 .. Len(w), i < j
      PROVE  w[i] # w[j]
  <2>1. H[i] <= H[j]
    BY <1>6, <1>7
  <2>2. H[i] = gScore[w[i]] - i /\ H[j] = gScore[w[j]] - j
        /\ gScore[w[i]] \in Nat /\ gScore[w[j]] \in Nat /\ i \in Int /\ j \in Int
    BY <1>1, <1>2, <1>3
  <2>3. gScore[w[i]] < gScore[w[j]]
    BY <2>1, <2>2, <1>7
  <2>4. QED
    BY <2>2, <2>3
<1>8. QED
  BY <1>1, <1>7

\* Following the parents from a scored cell ends at the start.
LEMMA RouteLeads ==
  ASSUME SearchInv, NEW c \in Cells, Scored(c)
  PROVE  Leads(Route(c), c) /\ Route(c)[1] = query.start
<1>1. cameFrom \in [Cells -> Cells \cup {NoCell}]
  BY DEF SearchInv, SearchTypes
<1>2. PICK R \in [Nat -> Chains] :
        /\ R[0] = <<c>>
        /\ \A n \in Nat : R[n + 1] = Longer(R[n])
        /\ Route(c) = R[Cardinality(Cells)]
  BY <1>1, Following
<1> DEFINE S == {n \in Nat : /\ Leads(R[n], c)
                             /\ R[n][1] = query.start \/ Len(R[n]) = n + 1}
<1>3. 0 \in S
  <2>1. /\ <<c>> \in Chains /\ <<c>>[1] = c /\ Len(<<c>>) = 1
    BY DEF Chains
  <2>2. /\ <<c>>[Len(<<c>>)] = c
        /\ \A k \in 1 .. Len(<<c>>) : <<c>>[k] = c
        /\ 1 .. Len(<<c>>) - 1 = {}
    BY <2>1
  <2>3. Leads(<<c>>, c)
    BY <2>1, <2>2 DEF Leads
  <2>4. QED
    BY <2>1, <2>3, <1>2
<1>4. ASSUME NEW n \in S PROVE n + 1 \in S
  <2>1. n \in Nat /\ Leads(R[n], c) /\ (R[n][1] = query.start \/ Len(R[n]) = n + 1)
    OBVIOUS
  <2> HIDE DEF S
  <2>2. R[n + 1] = Longer(R[n])
    BY <2>1, <1>2
  <2>3. /\ Leads(R[n + 1], c)
        /\ R[n][1] = query.start => R[n + 1] = R[n]
        /\ R[n][1] # query.start => Len(R[n + 1]) = Len(R[n]) + 1
    BY <2>1, <2>2, LongerLeads
  <2>4. R[n + 1][1] = query.start \/ Len(R[n + 1]) = (n + 1) + 1
    BY <2>1, <2>3
  <2>5. QED
    BY <2>1, <2>3, <2>4 DEF S
<1>5. S = Nat
  <2>1. S \in SUBSET Nat
    OBVIOUS
  <2> HIDE DEF S
  <2>2. QED
    BY <1>3, <1>4, <2>1, EveryNatural
<1>6. PICK w : w = Route(c)
  OBVIOUS
<1>7. /\ Leads(w, c)
      /\ w[1] = query.start \/ Len(w) = Cardinality(Cells) + 1
  <2>1. Cardinality(Cells) \in S
    BY <1>5, CellsFinite
  <2>2. QED
    BY <1>2, <1>6, <2>1
<1>8. Len(w) <= Cardinality(Cells)
  <2>1. w \in Seq(Cells)
    BY <1>7 DEF Leads, Chains
  <2>2. QED
    BY <2>1, <1>7, LeadsDistinct, DistinctAreFew
<1>9. QED
  BY <1>6, <1>7, <1>8, CellsFinite

\* Following the parents gives a route that costs no more than the score.
LEMMA RouteToScored ==
  ASSUME SearchInv, NEW c \in Cells, Scored(c)
  PROVE  /\ IsRoute(Route(c), query.start, c, query.walls)
         /\ Cost(Route(c)) <= gScore[c]
<1>1. PICK w : w = Route(c)
  OBVIOUS
<1>2. Leads(w, c) /\ w[1] = query.start
  BY <1>1, RouteLeads
<1>3. /\ w \in Seq(Cells) /\ w # <<>> /\ Len(w) \in Nat /\ 1 <= Len(w)
      /\ w[Len(w)] = c
      /\ \A k \in 1 .. Len(w) : w[k] \in Cells /\ Scored(w[k])
      /\ \A k \in 1 .. Len(w) - 1 :
           /\ CanStep(w[k], w[k + 1], query.walls)
           /\ gScore[w[k]] + StepCost(w[k], w[k + 1]) <= gScore[w[k + 1]]
  BY <1>2, ChainType DEF Leads
<1>4. ASSUME NEW k \in 1 .. Len(w) PROVE w[k] \notin query.walls
  <2>1. CASE k = 1
    BY <2>1, <1>2, QueryType DEF SearchInv, SearchTypes
  <2>2. CASE k # 1
    <3>1. k - 1 \in 1 .. Len(w) - 1 /\ (k - 1) + 1 = k
      BY <2>2, <1>3
    <3>2. CanStep(w[k - 1], w[(k - 1) + 1], query.walls)
      BY <3>1, <1>3
    <3>3. QED
      BY <3>1, <3>2 DEF CanStep
  <2>3. QED
    BY <2>1, <2>2
<1>5. IsRoute(w, query.start, c, query.walls)
  BY <1>2, <1>3, <1>4, LeadsDistinct DEF IsRoute
<1>6. PICK C \in [1 .. Len(w) -> Nat] :
        /\ C[1] = 0 /\ C[Len(w)] = Cost(w)
        /\ \A k \in 1 .. Len(w) - 1 : C[k + 1] = C[k] + StepCost(w[k], w[k + 1])
  BY <1>3, RouteCosts
<1> DEFINE H == [k \in 1 .. Len(w) |-> gScore[w[k]] - C[k]]
<1>7. \A k \in 1 .. Len(w) : gScore[w[k]] \in Nat
  BY <1>3, ScoredNatural DEF SearchInv
<1>8. \A k \in 1 .. Len(w) : H[k] = gScore[w[k]] - C[k]
  OBVIOUS
<1>9. H \in [1 .. Len(w) -> Int]
  BY <1>7
<1> HIDE DEF H
<1>10. ASSUME NEW k \in 1 .. Len(w) - 1 PROVE H[k] <= H[k + 1]
  <2>1. k \in 1 .. Len(w) /\ k + 1 \in 1 .. Len(w)
    BY <1>3
  <2>2. gScore[w[k]] + StepCost(w[k], w[k + 1]) <= gScore[w[k + 1]]
    BY <1>3
  <2>3. /\ gScore[w[k]] \in Nat /\ gScore[w[k + 1]] \in Nat
        /\ C[k] \in Nat /\ C[k + 1] = C[k] + StepCost(w[k], w[k + 1])
    BY <2>1, <1>6, <1>7
  <2>4. H[k] = gScore[w[k]] - C[k] /\ H[k + 1] = gScore[w[k + 1]] - C[k + 1]
    BY <2>1, <1>8
  <2>5. StepCost(w[k], w[k + 1]) \in Nat
    BY StepCostRange
  <2>6. gScore[w[k]] - C[k] <= gScore[w[k + 1]] - C[k + 1]
    BY <2>2, <2>3, <2>5
  <2>7. QED
    BY <2>4, <2>6
<1>11. H[1] <= H[Len(w)]
  <2>1. 1 \in 1 .. Len(w) /\ Len(w) \in 1 .. Len(w) /\ 1 <= Len(w)
    BY <1>3
  <2>2. Rising(H, Len(w))
    BY <1>9, <1>10 DEF Rising
  <2>3. QED
    BY <2>1, <2>2, <1>3, Rises
<1>12. H[1] = 0 /\ H[Len(w)] = gScore[c] - Cost(w)
  <2>1. 1 \in 1 .. Len(w) /\ Len(w) \in 1 .. Len(w)
    BY <1>3
  <2>2. gScore[w[1]] = 0
    BY <1>2 DEF SearchInv, Parents
  <2>3. QED
    BY <2>1, <2>2, <1>3, <1>6, <1>8
<1>13. gScore[c] \in Nat /\ Cost(w) \in Nat
  <2>1. Len(w) \in 1 .. Len(w)
    BY <1>3
  <2>2. QED
    BY <2>1, <1>3, <1>6, <1>7
<1>14. Cost(w) <= gScore[c]
  BY <1>11, <1>12, <1>13
<1>15. QED
  BY <1>1, <1>5, <1>14

LEMMA InvParents == SearchInv => ParentsLeadToStart
BY RouteToScored DEF ParentsLeadToStart, Scored

-----------------------------------------------------------------------------
(* What is returned *)

\* No cell of w steps to one further on than the next.
NoShortcut(w, B) ==
  \A i, j \in 1 .. Len(w) : i + 1 < j => ~CanStep(w[i], w[j], B)

\* Every route that could not step from a cell to one further on is among the
\* candidates.
LEMMA CandidatesComplete ==
  ASSUME NEW p \in Cells, NEW g, NEW B, NEW w,
         IsRoute(w, p, g, B), NoShortcut(w, B)
  PROVE  w \in Walks(p, g, B)
<1>1. /\ w \in Seq(Cells) /\ w # <<>> /\ w[1] = p /\ w[Len(w)] = g
      /\ \A i \in 1 .. Len(w) : w[i] \notin B
      /\ \A i \in 1 .. Len(w) - 1 : CanStep(w[i], w[i + 1], B)
      /\ \A i, j \in 1 .. Len(w) : w[i] = w[j] => i = j
  BY DEF IsRoute
<1>2. Len(w) \in Nat /\ 1 <= Len(w) /\ Len(w) <= Cardinality(Cells)
  BY <1>1, EmptySeq, LenProperties, DistinctAreFew
<1>3. PICK W : AreRounds(W, p, g, B)
  BY WalksGrow
<1>4. /\ W \in [Nat -> SUBSET Seq(Cells)]
      /\ W[0] = IF p \in B \/ g \in B THEN {} ELSE {<<p>>}
      /\ \A n \in Nat : W[n + 1] = Grown(W[n], n + 1, g, B)
      /\ Walks(p, g, B) = {x \in W[Cardinality(Cells) - 1] : IsRoute(x, p, g, B)}
  BY <1>3 DEF AreRounds
<1> DEFINE Upto(n) == [i \in 1 .. n |-> w[i]]
<1>5. \A n \in 1 .. Len(w) : Upto(n) \in Seq(Cells) /\ Len(Upto(n)) = n
  <2> TAKE n \in 1 .. Len(w)
  <2>1. n \in Nat /\ \A i \in 1 .. n : i \in 1 .. Len(w)
    BY <1>2
  <2>2. \A i \in 1 .. n : w[i] \in Cells
    BY <2>1, <1>1
  <2>3. QED
    BY <2>1, <2>2
<1>6. ASSUME NEW n \in 1 .. Len(w) - 1
      PROVE  Append(Upto(n), w[n + 1]) = Upto(n + 1)
  <2>1. n \in 1 .. Len(w) /\ n + 1 \in 1 .. Len(w) /\ n \in Nat
    BY <1>2
  <2>2. Len(Append(Upto(n), w[n + 1])) = n + 1 /\ Len(Upto(n + 1)) = n + 1
    BY <2>1, <1>1, <1>5
  <2>3. \A i \in 1 .. n + 1 : Append(Upto(n), w[n + 1])[i] = Upto(n + 1)[i]
    BY <2>1, <1>1, <1>5
  <2>4. Append(Upto(n), w[n + 1]) \in Seq(Cells) /\ Upto(n + 1) \in Seq(Cells)
    BY <2>1, <1>1, <1>5
  <2> HIDE DEF Upto
  <2>5. QED
    BY <2>2, <2>3, <2>4, SeqEqual
<1>7. Upto(Len(w)) = w
  BY <1>1, <1>2
<1> HIDE DEF Upto
<1>8. \A n \in 1 .. Len(w) : \A i \in 1 .. n : Upto(n)[i] = w[i]
  BY DEF Upto
<1>9. ASSUME NEW n \in Nat, NEW v \in W[n], Len(v) < n + 1 \/ v[n + 1] = g
      PROVE  v \in W[n + 1]
  <2>1. v \in Grown(W[n], n + 1, g, B)
    BY <1>9 DEF Grown
  <2>2. QED
    BY <2>1, <1>4
<1>10. ASSUME NEW n \in Nat, NEW v \in W[n], Len(v) = n + 1, v[n + 1] # g,
             NEW c \in Cells, CanStep(v[n + 1], c, B),
             \A i \in 1 .. n : c # v[i] /\ ~CanStep(v[i], c, B)
      PROVE  Append(v, c) \in W[n + 1]
  <2>1. (n + 1) - 1 = n /\ ~(Len(v) < n + 1)
    BY <1>10
  <2>2. c \in {d \in Cells : /\ CanStep(v[n + 1], d, B)
                             /\ \A i \in 1 .. (n + 1) - 1 :
                                  d # v[i] /\ ~CanStep(v[i], d, B)}
    BY <1>10, <2>1
  <2> DEFINE
        Ext(x) == IF Len(x) < n + 1 \/ x[n + 1] = g THEN {x}
                  ELSE {Append(x, d) : d \in {d \in Cells :
                          /\ CanStep(x[n + 1], d, B)
                          /\ \A i \in 1 .. (n + 1) - 1 :
                               d # x[i] /\ ~CanStep(x[i], d, B)}}
  <2>3. Append(v, c) \in Ext(v)
    BY <1>10, <2>1, <2>2
  <2>4. Grown(W[n], n + 1, g, B) = UNION {Ext(x) : x \in W[n]}
    BY Zenon DEF Grown
  <2> HIDE DEF Ext
  <2>5. QED
    BY <2>3, <2>4, <1>4
<1> DEFINE S == {n \in Nat : /\ n < Len(w) => Upto(n + 1) \in W[n]
                             /\ Len(w) <= n => w \in W[n]}
<1>11. 0 \in S
  <2>1. 1 \in 1 .. Len(w) /\ Len(w) \in 1 .. Len(w)
    BY <1>2
  <2>2. p \notin B /\ g \notin B
    BY <2>1, <1>1
  <2>3. W[0] = {<<p>>}
    BY <2>2, <1>4
  <2>4. Upto(1) = <<p>>
    BY <1>1 DEF Upto
  <2>5. QED
    BY <2>3, <2>4, <1>2
<1>12. ASSUME NEW n \in S PROVE n + 1 \in S
  <2>1. /\ n \in Nat
        /\ n < Len(w) => Upto(n + 1) \in W[n]
        /\ Len(w) <= n => w \in W[n]
    OBVIOUS
  <2>2. CASE n + 1 < Len(w)
    <3>1. /\ n + 1 \in 1 .. Len(w) - 1 /\ n + 1 \in 1 .. Len(w)
          /\ n + 2 \in 1 .. Len(w) /\ Len(w) \in 1 .. Len(w)
          /\ (n + 1) + 1 = n + 2 /\ n < Len(w)
      BY <2>1, <2>2, <1>2
    <3>2. PICK v \in W[n] : v = Upto(n + 1)
      BY <2>1, <3>1
    <3>3. /\ Len(v) = n + 1 /\ \A i \in 1 .. n + 1 : v[i] = w[i]
      BY <3>1, <3>2, <1>5, <1>8
    <3>4. n + 1 \in 1 .. n + 1 /\ \A i \in 1 .. n : i \in 1 .. n + 1
      BY <2>1
    <3>5. v[n + 1] = w[n + 1]
      BY <3>3, <3>4
    <3>6. v[n + 1] # g
      BY <3>1, <3>5, <2>2, <1>1, <1>2
    <3>7. w[n + 2] \in Cells /\ CanStep(v[n + 1], w[n + 2], B)
      BY <3>1, <3>5, <1>1
    <3>8. ASSUME NEW i \in 1 .. n
          PROVE  w[n + 2] # v[i] /\ ~CanStep(v[i], w[n + 2], B)
      <4>1. v[i] = w[i]
        BY <3>3, <3>4
      <4>2. i \in 1 .. Len(w) /\ i + 1 < n + 2 /\ i # n + 2
        BY <2>1, <3>1, <1>2
      <4>3. QED
        BY <4>1, <4>2, <3>1, <1>1 DEF NoShortcut
    <3>9. Append(v, w[n + 2]) \in W[n + 1]
      BY <2>1, <3>3, <3>6, <3>7, <3>8, <1>10
    <3>10. Append(v, w[n + 2]) = Upto(n + 2)
      BY <3>1, <3>2, <1>6
    <3>11. QED
      BY <2>1, <2>2, <3>1, <3>9, <3>10, <1>2
  <2>3. CASE n + 1 = Len(w)
    <3>1. n < Len(w) /\ Upto(n + 1) = w
      BY <2>1, <2>3, <1>2, <1>7
    <3>2. w \in W[n] /\ w[n + 1] = g
      BY <2>1, <2>3, <3>1, <1>1
    <3>3. w \in W[n + 1]
      BY <2>1, <3>2, <1>9
    <3>4. QED
      BY <2>1, <2>3, <3>3, <1>2
  <2>4. CASE Len(w) <= n
    <3>1. w \in W[n] /\ Len(w) < n + 1
      BY <2>1, <2>4, <1>2
    <3>2. w \in W[n + 1]
      BY <2>1, <3>1, <1>9
    <3>3. QED
      BY <2>1, <2>4, <3>2, <1>2
  <2>5. QED
    BY <2>1, <2>2, <2>3, <2>4, <1>2
<1>13. S = Nat
  <2>1. S \in SUBSET Nat
    OBVIOUS
  <2> HIDE DEF S
  <2>2. QED
    BY <1>11, <1>12, <2>1, EveryNatural
<1> DEFINE last == Cardinality(Cells) - 1
<1>14. last \in Nat /\ last \in S
  <2>1. last \in Nat
    BY <1>2, CellsFinite
  <2>2. QED
    BY <2>1, <1>13
<1>15. w \in W[last]
  <2>1. CASE last < Len(w)
    <3>1. last + 1 = Len(w)
      BY <2>1, <1>2, CellsFinite
    <3>2. Upto(last + 1) \in W[last]
      BY <2>1, <1>14
    <3>3. QED
      BY <3>1, <3>2, <1>7
  <2>2. CASE Len(w) <= last
    BY <2>2, <1>14
  <2>3. QED
    BY <2>1, <2>2, <1>2, <1>14
<1>16. QED
  BY <1>4, <1>15

\* The route found when the goal is in front is a cheapest one.
LEMMA FinishIsBest ==
  ASSUME SearchInv, NEW e \in open, Finish(e)
  PROVE  /\ result' = Route(query.goal)
         /\ IsRoute(result', query.start, query.goal, query.walls)
         /\ Cost(result') <= gScore[query.goal]
         /\ \A m \in Nat \ {0} : \A w, C :
              IsWay(m, w, C) => gScore[query.goal] <= C[m]
<1>1. ~ended /\ e \in Least /\ e[2] = query.goal /\ result' = Route(query.goal)
  BY DEF Finish
<1>2. query.goal \in Cells
  BY QueryType DEF SearchInv, SearchTypes
<1>3. Scored(query.goal)
  BY <1>1 DEF SearchInv, Entries
<1>4. QED
  BY <1>1, <1>2, <1>3, RouteToScored, GoalIsBest

\* A route is a way.
LEMMA RouteIsWay ==
  ASSUME query \in Queries, NEW w,
         IsRoute(w, query.start, query.goal, query.walls)
  PROVE  \E C : IsWay(Len(w), w, C) /\ C[Len(w)] = Cost(w)
                /\ Len(w) \in Nat \ {0}
<1>1. /\ w \in Seq(Cells) /\ w # <<>>
      /\ w[1] = query.start /\ w[Len(w)] = query.goal
      /\ \A i \in 1 .. Len(w) - 1 : CanStep(w[i], w[i + 1], query.walls)
  BY DEF IsRoute
<1>2. Len(w) \in Nat /\ 1 <= Len(w) /\ w \in [1 .. Len(w) -> Cells]
  BY <1>1, EmptySeq, LenProperties
<1>3. PICK C \in [1 .. Len(w) -> Nat] :
        /\ C[1] = 0 /\ C[Len(w)] = Cost(w)
        /\ \A k \in 1 .. Len(w) - 1 : C[k + 1] = C[k] + StepCost(w[k], w[k + 1])
  BY <1>1, RouteCosts
<1>4. ASSUME NEW k \in 1 .. Len(w) - 1
      PROVE  C[k] + StepCost(w[k], w[k + 1]) <= C[k + 1]
  <2>1. k \in 1 .. Len(w) /\ k + 1 \in 1 .. Len(w)
    BY <1>2
  <2>2. C[k] \in Nat /\ C[k + 1] \in Nat /\ C[k + 1] = C[k] + StepCost(w[k], w[k + 1])
    BY <2>1, <1>3
  <2>3. QED
    BY <2>2
<1>5. C \in [1 .. Len(w) -> Int]
  BY <1>3
<1>6. IsWay(Len(w), w, C)
  BY <1>1, <1>2, <1>3, <1>4, <1>5 DEF IsWay
<1>7. QED
  BY <1>2, <1>3, <1>6

\* A way that could take a shortcut costs more than another.
LEMMA ShortcutIsCheaper ==
  ASSUME query \in Queries, NEW m \in Nat \ {0}, NEW w, NEW C, IsWay(m, w, C),
         NEW i \in 1 .. m, NEW j \in 1 .. m, i + 1 < j,
         CanStep(w[i], w[j], query.walls)
  PROVE  \E n \in Nat \ {0} : \E v, D : IsWay(n, v, D) /\ D[n] < C[m]
<1>1. /\ w \in [1 .. m -> Cells] /\ C \in [1 .. m -> Int]
      /\ w[1] = query.start /\ w[m] = query.goal /\ 0 <= C[1]
      /\ \A k \in 1 .. m - 1 :
           /\ CanStep(w[k], w[k + 1], query.walls)
           /\ C[k] + StepCost(w[k], w[k + 1]) <= C[k + 1]
  BY DEF IsWay
<1>2. \A k \in 1 .. m : w[k] \in Cells /\ C[k] \in Int
  BY <1>1
<1>3. i \in Int /\ j \in Int /\ m \in Int /\ 1 <= i /\ j <= m
  OBVIOUS
<1>4. PICK s \in {70, 99} : s = StepCost(w[i], w[j])
  BY StepCostRange
<1>5. PICK d \in Nat \ {0} : d = j - i - 1
  OBVIOUS
<1>6. PICK n \in Nat \ {0} : n = m - d /\ i < n
  BY <1>5
<1> DEFINE v == [k \in 1 .. n |-> IF k <= i THEN w[k] ELSE w[k + d]]
           D == [k \in 1 .. n |-> IF k <= i THEN C[k]
                                  ELSE C[k + d] - (C[j] - C[i]) + s]
<1>7. \A k \in 1 .. n : /\ k <= i => k \in 1 .. m
                        /\ i < k => k + d \in 1 .. m
  BY <1>6
<1>8. C[i] \in Int /\ C[j] \in Int /\ w[i] \in Cells /\ w[j] \in Cells
  BY <1>2
<1>9. v \in [1 .. n -> Cells]
  <2>1. \A k \in 1 .. n : (IF k <= i THEN w[k] ELSE w[k + d]) \in Cells
    BY <1>2, <1>7, <1>3
  <2>2. QED
    BY <2>1
<1>10. D \in [1 .. n -> Int]
  <2>1. \A k \in 1 .. n :
          (IF k <= i THEN C[k] ELSE C[k + d] - (C[j] - C[i]) + s) \in Int
    <3> TAKE k \in 1 .. n
    <3>1. CASE k <= i
      BY <3>1, <1>2, <1>7
    <3>2. CASE ~(k <= i)
      <4>1. C[k + d] \in Int
        BY <3>2, <1>2, <1>3, <1>7
      <4>2. QED
        BY <3>2, <4>1, <1>8
    <3>3. QED
      BY <3>1, <3>2
  <2>2. QED
    BY <2>1
<1>11. \A k \in 1 .. n :
         /\ k <= i => v[k] = w[k] /\ D[k] = C[k]
         /\ i < k => v[k] = w[k + d] /\ D[k] = C[k + d] - (C[j] - C[i]) + s
  OBVIOUS
<1> HIDE DEF v, D
<1>12. v[1] = query.start /\ 0 <= D[1]
  <2>1. 1 \in 1 .. n /\ 1 <= i
    OBVIOUS
  <2>2. QED
    BY <2>1, <1>1, <1>11
<1>13. v[n] = query.goal /\ D[n] = C[m] - (C[j] - C[i]) + s
  <2>1. n \in 1 .. n /\ i < n /\ n + d = m
    BY <1>6
  <2>2. QED
    BY <2>1, <1>1, <1>11
<1>14. ASSUME NEW k \in 1 .. n - 1
       PROVE  /\ CanStep(v[k], v[k + 1], query.walls)
              /\ D[k] + StepCost(v[k], v[k + 1]) <= D[k + 1]
  <2>1. k \in 1 .. n /\ k + 1 \in 1 .. n
    OBVIOUS
  <2>2. CASE k < i
    <3>1. k + 1 <= i /\ k <= i /\ k \in 1 .. m - 1
      BY <2>2
    <3>2. v[k] = w[k] /\ v[k + 1] = w[k + 1] /\ D[k] = C[k] /\ D[k + 1] = C[k + 1]
      BY <2>1, <3>1, <1>11
    <3>3. QED
      BY <3>1, <3>2, <1>1
  <2>3. CASE k = i
    <3>1. k <= i /\ i < k + 1 /\ (k + 1) + d = j
      BY <2>3, <1>5
    <3>2. v[k] = w[i] /\ v[k + 1] = w[j] /\ D[k] = C[i]
          /\ D[k + 1] = C[j] - (C[j] - C[i]) + s
      BY <2>1, <2>3, <3>1, <1>11
    <3>3. D[k] + s <= D[k + 1]
      BY <3>2, <1>8
    <3>4. QED
      BY <3>2, <3>3, <1>4
  <2>4. CASE i < k
    <3>1. i < k + 1 /\ k + d \in 1 .. m - 1 /\ (k + 1) + d = (k + d) + 1
          /\ k + d \in 1 .. m /\ (k + d) + 1 \in 1 .. m
      BY <2>4, <1>6
    <3>2. v[k] = w[k + d] /\ v[k + 1] = w[(k + d) + 1]
          /\ D[k] = C[k + d] - (C[j] - C[i]) + s
          /\ D[k + 1] = C[(k + d) + 1] - (C[j] - C[i]) + s
      BY <2>1, <2>4, <3>1, <1>11
    <3>3. /\ CanStep(w[k + d], w[(k + d) + 1], query.walls)
          /\ C[k + d] + StepCost(w[k + d], w[(k + d) + 1]) <= C[(k + d) + 1]
      BY <3>1, <1>1
    <3>4. /\ C[k + d] \in Int /\ C[(k + d) + 1] \in Int
          /\ StepCost(w[k + d], w[(k + d) + 1]) \in Int
      BY <3>1, <1>2, StepCostRange
    <3>5. D[k] + StepCost(w[k + d], w[(k + d) + 1]) <= D[k + 1]
      <4>1. PICK x \in Int, y \in Int, t \in Int :
              /\ x = C[k + d] /\ y = C[(k + d) + 1]
              /\ t = StepCost(w[k + d], w[(k + d) + 1])
        BY <3>4
      <4>2. PICK gap \in Int : gap = C[j] - C[i]
        BY <1>8
      <4>3. x + t <= y /\ D[k] = x - gap + s /\ D[k + 1] = y - gap + s
        BY <3>2, <3>3, <4>1, <4>2
      <4>4. D[k] + t <= D[k + 1]
        BY <4>3
      <4>5. QED
        BY <4>1, <4>4
    <3>6. QED
      BY <3>2, <3>3, <3>5
  <2>5. QED
    BY <2>2, <2>3, <2>4
<1>15. IsWay(n, v, D)
  BY <1>9, <1>10, <1>12, <1>13, <1>14 DEF IsWay
<1> DEFINE H == [k \in 1 .. m |-> C[k] - 70 * k]
<1>16. \A k \in 1 .. m : H[k] = C[k] - 70 * k
  OBVIOUS
<1>17. H \in [1 .. m -> Int]
  BY <1>2
<1> HIDE DEF H
<1>18. ASSUME NEW k \in 1 .. m - 1 PROVE H[k] <= H[k + 1]
  <2>1. k \in 1 .. m /\ k + 1 \in 1 .. m /\ k \in Int
    OBVIOUS
  <2>2. PICK t \in {70, 99} : t = StepCost(w[k], w[k + 1])
    BY StepCostRange
  <2>3. C[k] + t <= C[k + 1] /\ C[k] \in Int /\ C[k + 1] \in Int
    BY <2>1, <2>2, <1>1, <1>2
  <2>4. H[k] = C[k] - 70 * k /\ H[k + 1] = C[k + 1] - 70 * (k + 1)
    BY <2>1, <1>16
  <2>5. C[k] - 70 * k <= C[k + 1] - 70 * (k + 1)
    BY <2>1, <2>3
  <2>6. QED
    BY <2>4, <2>5
<1>19. H[i] <= H[j]
  <2>1. Rising(H, m)
    BY <1>17, <1>18 DEF Rising
  <2>2. m \in Nat /\ i <= j
    OBVIOUS
  <2>3. QED
    BY <2>1, <2>2, Rises
<1>20. C[i] - 70 * i <= C[j] - 70 * j
  BY <1>16, <1>19
<1>21. C[j] - C[i] >= 140
  BY <1>8, <1>20
<1>22. D[n] < C[m]
  <2>1. C[m] \in Int
    BY <1>1
  <2>2. QED
    BY <2>1, <1>8, <1>13, <1>21
<1>23. QED
  BY <1>15, <1>22

\* What is returned is a cheapest candidate.
LEMMA FinishIsPlan ==
  ASSUME SearchInv, NEW e \in open, Finish(e)
  PROVE  result' # <<>> /\ result' \in Plans(query.start, query.goal, query.walls)
<1>1. PICK w : w = result'
  OBVIOUS
<1>2. /\ IsRoute(w, query.start, query.goal, query.walls)
      /\ Cost(w) <= gScore[query.goal]
      /\ \A m \in Nat \ {0} : \A v, C :
           IsWay(m, v, C) => gScore[query.goal] <= C[m]
  BY <1>1, FinishIsBest
<1>3. query \in Queries /\ query.start \in Cells /\ query.goal \in Cells
  BY QueryType DEF SearchInv, SearchTypes
<1>4. PICK C : IsWay(Len(w), w, C) /\ C[Len(w)] = Cost(w) /\ Len(w) \in Nat \ {0}
  BY <1>2, <1>3, RouteIsWay
<1>5. gScore[query.goal] \in Nat /\ Cost(w) \in Int
  <2>1. Scored(query.goal)
    BY DEF Finish, SearchInv, Entries
  <2>2. gScore[query.goal] \in Nat
    BY <2>1, <1>3, ScoredNatural DEF SearchInv
  <2>3. Len(w) \in 1 .. Len(w) /\ C \in [1 .. Len(w) -> Int]
    BY <1>4 DEF IsWay
  <2>4. QED
    BY <2>2, <2>3, <1>4
<1>6. NoShortcut(w, query.walls)
  <2>1. SUFFICES ASSUME NEW i \in 1 .. Len(w), NEW j \in 1 .. Len(w), i + 1 < j,
                        CanStep(w[i], w[j], query.walls)
                 PROVE  FALSE
    BY DEF NoShortcut
  <2>2. PICK n \in Nat \ {0} : \E v, D : IsWay(n, v, D) /\ D[n] < C[Len(w)]
    BY <2>1, <1>3, <1>4, ShortcutIsCheaper
  <2>3. PICK v, D : IsWay(n, v, D) /\ D[n] < C[Len(w)]
    BY <2>2
  <2>4. D[n] \in Int
    BY <2>3 DEF IsWay
  <2>5. gScore[query.goal] <= D[n]
    BY <2>3, <1>2
  <2>6. QED
    BY <2>3, <2>4, <2>5, <1>2, <1>4, <1>5
<1>7. w \in Walks(query.start, query.goal, query.walls)
  BY <1>2, <1>3, <1>6, CandidatesComplete
<1>8. ASSUME NEW v \in Walks(query.start, query.goal, query.walls)
      PROVE  Cost(w) <= Cost(v)
  <2>1. IsRoute(v, query.start, query.goal, query.walls)
    BY DEF Walks
  <2>2. PICK D : IsWay(Len(v), v, D) /\ D[Len(v)] = Cost(v) /\ Len(v) \in Nat \ {0}
    BY <2>1, <1>3, RouteIsWay
  <2>3. Cost(v) \in Int
    <3>1. Len(v) \in 1 .. Len(v) /\ D \in [1 .. Len(v) -> Int]
      BY <2>2 DEF IsWay
    <3>2. QED
      BY <3>1, <2>2
  <2>4. gScore[query.goal] <= Cost(v)
    BY <2>2, <1>2
  <2>5. QED
    BY <2>3, <2>4, <1>2, <1>5
<1>9. w \in Plans(query.start, query.goal, query.walls)
  BY <1>7, <1>8, SearchAssumption DEF Plans
<1>10. w # <<>>
  BY <1>2 DEF IsRoute
<1>11. QED
  BY <1>1, <1>9, <1>10

\* When the heap runs empty there is no candidate.
LEMMA FailIsRight ==
  ASSUME SearchInv, Fail
  PROVE  Plans(query.start, query.goal, query.walls) = {}
<1>1. SUFFICES ASSUME NEW w \in Plans(query.start, query.goal, query.walls)
               PROVE  FALSE
  OBVIOUS
<1>2. IsRoute(w, query.start, query.goal, query.walls)
  BY SearchAssumption DEF Plans, Walks
<1>3. query \in Queries
  BY DEF SearchInv, SearchTypes
<1>4. PICK C : IsWay(Len(w), w, C) /\ Len(w) \in Nat \ {0}
  BY <1>2, <1>3, RouteIsWay
<1>5. QED
  BY <1>4, NoWayLeft DEF Fail

\* While it searches, _astar has no result.
Unfinished == ~ended => result = <<>>

LEMMA FindsStep ==
  SearchInv /\ Unfinished /\ FindsCheapest /\ [SearchNext]_searchVars
    => Unfinished' /\ FindsCheapest'
<1> SUFFICES ASSUME SearchInv, Unfinished, FindsCheapest, [SearchNext]_searchVars
             PROVE  Unfinished' /\ FindsCheapest'
  OBVIOUS
<1>1. ASSUME NEW e \in open, Finish(e) PROVE Unfinished' /\ FindsCheapest'
  <2>1. ended' /\ query' = query
    BY <1>1 DEF Finish
  <2>2. result' # <<>> /\ result' \in Plans(query.start, query.goal, query.walls)
    BY <1>1, FinishIsPlan
  <2>3. QED
    BY <2>1, <2>2 DEF Unfinished, FindsCheapest
<1>2. ASSUME NEW e \in open, Expand(e) PROVE Unfinished' /\ FindsCheapest'
  BY <1>2 DEF Expand, Unfinished, FindsCheapest
<1>3. CASE Fail
  <2>1. ended' /\ query' = query /\ result' = result /\ ~ended
    BY <1>3 DEF Fail
  <2>2. result = <<>>
    BY <2>1 DEF Unfinished
  <2>3. Plans(query.start, query.goal, query.walls) = {}
    BY <1>3, FailIsRight
  <2>4. QED
    BY <2>1, <2>2, <2>3 DEF Unfinished, FindsCheapest
<1>4. CASE UNCHANGED searchVars
  BY <1>4 DEF searchVars, Unfinished, FindsCheapest
<1>5. QED
  BY <1>1, <1>2, <1>3, <1>4 DEF SearchNext

\* A* returns a cheapest route, or none only if there is none: whichever of the
\* entries with equal score come first, and with old entries left in the heap.
THEOREM SearchFindsCheapest == SearchSpec => []FindsCheapest
<1>1. SearchInit => SearchInv /\ Unfinished /\ FindsCheapest
  BY SearchStarts DEF SearchInit, Unfinished, FindsCheapest
<1>2. SearchInv /\ Unfinished /\ FindsCheapest /\ [SearchNext]_searchVars
        => (SearchInv /\ Unfinished /\ FindsCheapest)'
  BY SearchStep, FindsStep
<1>3. QED
  BY <1>1, <1>2, PTL DEF SearchSpec

\* At every moment of the search, following came_from from a known cell is a
\* route from the start that costs no more than its score.
THEOREM ParentsAreRoutes == SearchSpec => []ParentsLeadToStart
<1>1. QED
  BY SearchStarts, SearchStep, InvParents, PTL DEF SearchSpec

=============================================================================
