------------------------------ MODULE PartProofs ------------------------------
(***************************************************************************)
(* Proofs about parts of the runtime that stand beside its loop: resource  *)
(* leases, agents that come close, and the heap behind the task queue.     *)
(* The parts share nothing.                                                *)
(***************************************************************************)
EXTENDS Leases, Encounters, TaskQueue, OperatorProofs

-----------------------------------------------------------------------------
(* Leases: the lists of ids keep in step with the table, for any catalog,    *)
(* requesters and durations, and both implement LeaseTable.                  *)

\* Ids name one lease each, and were drawn before.
IdsDrawn ==
  /\ \A r \in Resources : lease[r] # NoLease => lease[r].id < drawn
  /\ \A q \in Requesters, i \in Nat :
       i \in 1 .. Len(listed[q]) => listed[q][i] < drawn

IdsUnique ==
  \A r, s \in Resources :
    lease[r] # NoLease /\ lease[s] # NoLease /\ lease[r].id = lease[s].id
      => r = s

LeaseInv == TypeOK /\ IdsDrawn /\ IdsUnique /\ ListsCoverLeases

LEMMA LeaseInit == Init => LeaseInv
BY LeaseAssumption
DEF Init, LeaseInv, TypeOK, IdsDrawn, IdsUnique, ListsCoverLeases, GivenBack

\* Taking leases off the table disturbs nothing as long as the lists stay.
LEMMA FewerKeepInv ==
  ASSUME LeaseInv, UNCHANGED <<listed, drawn>>,
         answer' \in {"none", "granted", "conflict", "unknown"},
         lease' \in [Resources -> LeaseRecord \cup {NoLease}],
         \A r \in Resources : lease'[r] # NoLease =>
           /\ lease[r] # NoLease
           /\ lease'[r].id = lease[r].id
           /\ lease'[r].holder = lease[r].holder
  PROVE  LeaseInv'
<1>1. TypeOK'
  BY DEF LeaseInv, TypeOK
<1>2. IdsDrawn' /\ IdsUnique'
  BY DEF LeaseInv, IdsDrawn, IdsUnique
<1>3. ListsCoverLeases'
  BY DEF LeaseInv, ListsCoverLeases, GivenBack
<1>4. QED
  BY <1>1, <1>2, <1>3 DEF LeaseInv

LEMMA SweptType ==
  ASSUME TypeOK
  PROVE  /\ Swept \in [Resources -> LeaseRecord \cup {NoLease}]
         /\ \A r \in Resources : Swept[r] # NoLease =>
              lease[r] # NoLease /\ Swept[r] = lease[r] /\ lease[r].left > 0
         /\ \A r \in Resources : Swept[r] = NoLease =>
              lease[r] = NoLease \/ lease[r].left = 0
BY NoLeaseAssumption DEF TypeOK, Swept, Expired, LeaseRecord

\* What the id just drawn does to the lists.
LEMMA GrantLists ==
  ASSUME LeaseInv, NEW r \in Resources, NEW q \in Requesters,
         NEW d \in Durations, Grant(r, q, d)
  PROVE  /\ listed' \in [Requesters -> Seq(Nat)]
         /\ GivenBack(q)' = GivenBack(q) \cup {drawn}
         /\ \A p \in Requesters : p # q => GivenBack(p)' = GivenBack(p)
         /\ \A p \in Requesters : drawn \notin GivenBack(p)
<1>1. /\ listed \in [Requesters -> Seq(Nat)] /\ drawn \in Nat
      /\ listed' = [listed EXCEPT ![q] = Append(listed[q], drawn)]
  BY LeaseAssumption DEF LeaseInv, TypeOK, Grant, ListedWith
<1>2. listed' \in [Requesters -> Seq(Nat)]
  BY <1>1
<1>3. /\ listed'[q] = Append(listed[q], drawn)
      /\ \A p \in Requesters : p # q => listed'[p] = listed[p]
  BY <1>1
<1>4. /\ Len(listed'[q]) = Len(listed[q]) + 1
      /\ listed'[q][Len(listed[q]) + 1] = drawn
      /\ \A i \in 1 .. Len(listed[q]) : listed'[q][i] = listed[q][i]
      /\ Len(listed[q]) \in Nat
  BY <1>1, <1>3
<1>5. GivenBack(q)' = GivenBack(q) \cup {drawn}
  <2>1. 1 .. Len(listed'[q]) = (1 .. Len(listed[q])) \cup {Len(listed[q]) + 1}
    BY <1>4
  <2>2. QED
    BY <1>4, <2>1 DEF GivenBack
<1>6. \A p \in Requesters : drawn \notin GivenBack(p)
  BY <1>1 DEF LeaseInv, IdsDrawn, GivenBack
<1>7. QED
  BY <1>2, <1>3, <1>5, <1>6 DEF GivenBack

LEMMA GrantInv ==
  ASSUME LeaseInv, NEW r \in Resources, NEW q \in Requesters,
         NEW d \in Durations, Grant(r, q, d)
  PROVE  LeaseInv'
<1>1. /\ TypeOK /\ drawn \in Nat /\ drawn' = drawn + 1 /\ drawn' \in 0 .. MaxIds
      /\ lease' = [Swept EXCEPT ![r] = [id |-> drawn, holder |-> q, left |-> d]]
      /\ answer' = "granted"
  BY LeaseAssumption DEF LeaseInv, TypeOK, Grant
<1>2. [id |-> drawn, holder |-> q, left |-> d] \in LeaseRecord
  BY <1>1, LeaseAssumption DEF LeaseRecord
<1>3. /\ lease' \in [Resources -> LeaseRecord \cup {NoLease}]
      /\ lease'[r] = [id |-> drawn, holder |-> q, left |-> d]
      /\ \A s \in Resources \ {r} : lease'[s] # NoLease =>
           lease[s] # NoLease /\ lease'[s] = lease[s]
  BY <1>1, <1>2, SweptType
<1>4. TypeOK'
  BY <1>1, <1>3, GrantLists DEF TypeOK
<1>5. IdsDrawn'
  <2>1. \A s \in Resources : lease'[s] # NoLease => lease'[s].id < drawn'
    <3>1. \A s \in Resources : lease[s] # NoLease => lease[s].id \in Nat
      BY <1>1 DEF TypeOK, LeaseRecord
    <3>2. QED
      BY <1>1, <1>3, <3>1 DEF LeaseInv, IdsDrawn
  <2>2. ASSUME NEW p \in Requesters, NEW i \in 1 .. Len(listed'[p])
        PROVE  listed'[p][i] < drawn'
    <3>1. listed'[p][i] \in GivenBack(p) \cup {drawn}
      <4>1. listed'[p][i] \in GivenBack(p)'
        BY <2>2 DEF GivenBack
      <4>2. GivenBack(p)' \subseteq GivenBack(p) \cup {drawn}
        BY GrantLists
      <4>3. QED
        BY <4>1, <4>2
    <3>2. \A n \in GivenBack(p) : n \in Nat /\ n < drawn
      BY <1>1 DEF LeaseInv, IdsDrawn, TypeOK, GivenBack
    <3>3. QED
      BY <1>1, <3>1, <3>2
  <2>3. QED
    BY <2>1, <2>2 DEF IdsDrawn
<1>6. IdsUnique'
  BY <1>1, <1>3 DEF LeaseInv, IdsUnique, IdsDrawn
<1>7. ListsCoverLeases'
  <2>1. ASSUME NEW s \in Resources, lease'[s] # NoLease, NEW p \in Requesters
        PROVE  lease'[s].id \in GivenBack(p)' <=> p = lease'[s].holder
    <3>1. CASE s = r
      BY <1>3, <3>1, GrantLists
    <3>2. CASE s # r
      <4>1. lease[s] # NoLease /\ lease'[s] = lease[s] /\ lease[s].id # drawn
        BY <1>1, <1>3, <2>1, <3>2 DEF LeaseInv, IdsDrawn
      <4>2. lease'[s].id \in GivenBack(p)' <=> lease[s].id \in GivenBack(p)
        BY <4>1, GrantLists
      <4>3. QED
        BY <4>1, <4>2 DEF LeaseInv, ListsCoverLeases
    <3>3. QED
      BY <3>1, <3>2
  <2>2. QED
    BY <2>1 DEF ListsCoverLeases
<1>8. QED
  BY <1>4, <1>5, <1>6, <1>7 DEF LeaseInv

LEMMA EndTaskInv ==
  ASSUME LeaseInv, NEW a \in Agents, ReleaseAgentLeases(a)
  PROVE  LeaseInv'
<1>1. a \in Requesters
  BY LeaseAssumption
<1>2. /\ lease' = Without(GivenBack(a)) /\ UNCHANGED <<drawn, answer>>
      /\ listed' = [listed EXCEPT ![a] = <<>>]
  BY DEF ReleaseAgentLeases
<1>3. /\ lease' \in [Resources -> LeaseRecord \cup {NoLease}]
      /\ \A r \in Resources : lease'[r] # NoLease =>
           /\ lease[r] # NoLease /\ lease'[r] = lease[r]
           /\ lease[r].id \notin GivenBack(a)
  BY <1>2 DEF LeaseInv, TypeOK, Without
<1>4. /\ listed' \in [Requesters -> Seq(Nat)]
      /\ listed'[a] = <<>>
      /\ \A q \in Requesters : q # a => listed'[q] = listed[q]
  BY <1>1, <1>2 DEF LeaseInv, TypeOK
<1>5. TypeOK'
  BY <1>2, <1>3, <1>4 DEF LeaseInv, TypeOK
<1>6. IdsDrawn' /\ IdsUnique'
  BY <1>2, <1>3, <1>4 DEF LeaseInv, IdsDrawn, IdsUnique
<1>7. ListsCoverLeases'
  <2>1. GivenBack(a)' = {}
    BY <1>4 DEF GivenBack
  <2>2. \A q \in Requesters : q # a => GivenBack(q)' = GivenBack(q)
    BY <1>4 DEF GivenBack
  <2>3. QED
    BY <1>1, <1>3, <2>1, <2>2 DEF LeaseInv, ListsCoverLeases
<1>8. QED
  BY <1>5, <1>6, <1>7 DEF LeaseInv

LEMMA TickLease ==
  ASSUME TypeOK, Tick
  PROVE  /\ lease' \in [Resources -> LeaseRecord \cup {NoLease}]
         /\ \A r \in Resources :
              /\ lease'[r] = NoLease <=> lease[r] = NoLease
              /\ lease[r] # NoLease =>
                   /\ lease'[r].id = lease[r].id
                   /\ lease'[r].holder = lease[r].holder
                   /\ lease'[r].left = Sooner(lease[r].left)
<1>1. ASSUME NEW r \in Resources, lease[r] # NoLease
      PROVE  /\ [lease[r] EXCEPT !.left = Sooner(lease[r].left)] \in LeaseRecord
             /\ lease'[r] = [lease[r] EXCEPT !.left = Sooner(lease[r].left)]
  <2>1. lease[r] \in LeaseRecord
    BY <1>1 DEF TypeOK
  <2>2. Sooner(lease[r].left) \in Nat
    BY <2>1 DEF LeaseRecord, Sooner
  <2>3. QED
    BY <1>1, <2>1, <2>2 DEF LeaseRecord, Tick
<1>2. \A r \in Resources : lease[r] = NoLease => lease'[r] = NoLease
  BY DEF Tick
<1>3. \A r \in Resources : lease[r] # NoLease =>
        lease[r] \in LeaseRecord /\ lease'[r] # NoLease
  BY <1>1, NoLeaseAssumption DEF TypeOK
<1>4. lease' \in [Resources -> LeaseRecord \cup {NoLease}]
  BY <1>1, <1>2 DEF Tick
<1>5. QED
  BY <1>1, <1>2, <1>3, <1>4 DEF LeaseRecord

LEMMA LeaseStep == LeaseInv /\ [Next]_vars => LeaseInv'
<1> SUFFICES ASSUME LeaseInv, [Next]_vars
             PROVE  LeaseInv'
  OBVIOUS
<1>1. ASSUME NEW r \in Resources, NEW q \in Requesters, ReserveResource(r, q)
      PROVE  LeaseInv'
  <2>1. ASSUME NEW d \in Durations, Grant(r, q, d)
        PROVE  LeaseInv'
    BY <2>1, GrantInv
  <2>2. CASE Refuse(r, q)
    BY <2>2, SweptType, FewerKeepInv DEF Refuse, LeaseInv
  <2>3. CASE Reject(r)
    BY <2>3, FewerKeepInv DEF Reject, LeaseInv, TypeOK
  <2>4. QED
    BY <1>1, <2>1, <2>2, <2>3 DEF ReserveResource
<1>2. ASSUME NEW id \in 0 .. MaxIds - 1, ReleaseResource(id)
      PROVE  LeaseInv'
  BY <1>2, FewerKeepInv DEF ReleaseResource, Without, LeaseInv, TypeOK
<1>3. ASSUME NEW a \in Agents, ReleaseAgentLeases(a)
      PROVE  LeaseInv'
  BY <1>3, EndTaskInv
<1>4. CASE Tick
  BY <1>4, TickLease, FewerKeepInv DEF Tick, LeaseInv, TypeOK
<1>5. CASE UNCHANGED vars
  BY <1>5, FewerKeepInv DEF vars, LeaseInv, TypeOK
<1>6. QED
  BY <1>1, <1>2, <1>3, <1>4, <1>5 DEF Next

\* The lists and the table agree whatever is requested, renewed, released and
\* expires in whatever order: the end of a task gives back exactly the leases
\* of its agent.
THEOREM ListsCover == Spec => []ListsCoverLeases
<1>1. Spec => []LeaseInv
  BY LeaseInit, LeaseStep, PTL DEF Spec
<1>2. LeaseInv => ListsCoverLeases
  BY DEF LeaseInv
<1>3. QED
  BY <1>1, <1>2, PTL

-----------------------------------------------------------------------------
(* The table as LeaseTable sees it *)

Owner == [r \in Resources |->
            IF InForce(r) THEN lease[r].holder ELSE NoOwner]
Left == [r \in Resources |-> IF InForce(r) THEN lease[r].left ELSE 0]

\* Sweeping is invisible.
LEMMA SweptLooksSame ==
  ASSUME TypeOK, lease' = Swept
  PROVE  Owner' = Owner /\ Left' = Left
<1>1. \A r \in Resources :
        /\ lease'[r] # NoLease => lease'[r] = lease[r] /\ InForce(r)
        /\ lease'[r] = NoLease => ~InForce(r)
  BY SweptType DEF InForce
<1>2. \A r \in Resources : InForce(r)' <=> InForce(r)
  BY <1>1 DEF InForce
<1>3. QED
  BY <1>1, <1>2 DEF Owner, Left, InForce

LEMMA GrantMaps ==
  ASSUME TypeOK, NEW r \in Resources, NEW q \in Requesters,
         NEW d \in Durations, Grant(r, q, d)
  PROVE  Table!Grant(r, q, d)
<1>1. d \in Nat /\ d > 0 /\ drawn \in Nat
  BY LeaseAssumption DEF TypeOK
<1>2. /\ lease' = [Swept EXCEPT ![r] = [id |-> drawn, holder |-> q, left |-> d]]
      /\ MayTake(r, q) /\ answer' = "granted"
  BY DEF Grant
<1>3. [id |-> drawn, holder |-> q, left |-> d] \in LeaseRecord
  BY <1>1 DEF LeaseRecord
<1>4. /\ lease'[r] = [id |-> drawn, holder |-> q, left |-> d]
      /\ lease'[r] # NoLease
      /\ \A s \in Resources \ {r} : lease'[s] = Swept[s]
  BY <1>2, <1>3, SweptType, NoLeaseAssumption
<1>5. Owner[r] \in {NoOwner, q}
  BY <1>2, SweptType DEF MayTake, Owner, InForce
<1>6. \A s \in Resources \ {r} : Owner'[s] = Owner[s] /\ Left'[s] = Left[s]
  <2>1. ASSUME NEW s \in Resources \ {r}
        PROVE  /\ InForce(s)' <=> InForce(s)
               /\ InForce(s) => lease'[s] = lease[s]
    BY <1>4, SweptType DEF InForce
  <2>2. QED
    BY <2>1 DEF Owner, Left
<1>7. Owner'[r] = q /\ Left'[r] = d
  BY <1>1, <1>4 DEF Owner, Left, InForce
<1>8. /\ Owner' = [Owner EXCEPT ![r] = q]
      /\ Left' = [Left EXCEPT ![r] = d]
  BY <1>6, <1>7 DEF Owner, Left
<1>9. QED
  BY <1>2, <1>5, <1>8 DEF Table!Grant, Owner, Left

LEMMA RefuseMaps ==
  ASSUME TypeOK, NEW r \in Resources, NEW q \in Requesters, Refuse(r, q)
  PROVE  Table!Refuse(r, q)
<1>1. lease' = Swept /\ ~MayTake(r, q) /\ answer' = "conflict"
  BY DEF Refuse
<1>2. InForce(r) /\ lease[r].holder # q
  BY <1>1, SweptType DEF MayTake, InForce
<1>3. lease[r].holder # NoOwner
  BY <1>2, LeaseAssumption DEF TypeOK, InForce, LeaseRecord
<1>4. Owner[r] \notin {NoOwner, q}
  BY <1>2, <1>3 DEF Owner
<1>5. Owner' = Owner /\ Left' = Left
  BY <1>1, SweptLooksSame
<1>6. QED
  BY <1>1, <1>4, <1>5 DEF Table!Refuse, Owner, Left

\* Releasing ids frees what they name.
LEMMA WithoutMaps ==
  ASSUME TypeOK, NEW ids, lease' = Without(ids), UNCHANGED answer,
         NEW lost \in SUBSET Resources,
         \A r \in Resources : InForce(r) => (lease[r].id \in ids <=> r \in lost)
  PROVE  Table!Free(lost)
<1>1. \A r \in Resources :
        InForce(r)' <=> InForce(r) /\ r \notin lost
  BY DEF Without, InForce
<1>2. \A r \in Resources : InForce(r)' => lease'[r] = lease[r]
  BY DEF Without, InForce
<1>3. QED
  BY <1>1, <1>2 DEF Table!Free

LEMMA ReleaseMaps ==
  ASSUME LeaseInv, NEW id \in 0 .. MaxIds - 1, ReleaseResource(id)
  PROVE  (\E r \in Resources : Table!GiveBack(r)) \/ UNCHANGED Table!vars
<1>1. TypeOK /\ lease' = Without({id}) /\ UNCHANGED answer
  BY DEF ReleaseResource, LeaseInv
<1>2. CASE \E r \in Resources : InForce(r) /\ lease[r].id = id
  <2>1. PICK r \in Resources : InForce(r) /\ lease[r].id = id
    BY <1>2
  <2>2. \A s \in Resources : InForce(s) => (lease[s].id \in {id} <=> s \in {r})
    BY <2>1 DEF InForce, LeaseInv, IdsUnique
  <2>3. Table!Free({r})
    BY <1>1, <2>2, WithoutMaps
  <2>4. QED
    BY <2>3 DEF Table!GiveBack
<1>3. CASE \A r \in Resources : ~(InForce(r) /\ lease[r].id = id)
  <2>1. Table!Free({})
    BY <1>1, <1>3, WithoutMaps
  <2>2. QED
    BY <1>1, <2>1 DEF Table!Free, Table!vars
<1>4. QED
  BY <1>2, <1>3

LEMMA EndTaskMaps ==
  ASSUME LeaseInv, NEW a \in Agents, ReleaseAgentLeases(a)
  PROVE  Table!EndTask(a)
<1>1. /\ TypeOK /\ lease' = Without(GivenBack(a)) /\ UNCHANGED answer
      /\ a \in Requesters /\ a # NoOwner
  BY LeaseAssumption DEF ReleaseAgentLeases, LeaseInv
<1>2. \A r \in Resources :
        InForce(r) => (lease[r].id \in GivenBack(a) <=> lease[r].holder = a)
  BY <1>1 DEF InForce, LeaseInv, ListsCoverLeases
<1>3. \A r \in Resources :
        InForce(r) => (lease[r].id \in GivenBack(a) <=> Owner[r] = a)
  BY <1>2 DEF Owner
<1>4. PICK lost \in SUBSET Resources : lost = {r \in Resources : Owner[r] = a}
  OBVIOUS
<1>5. PICK ids : ids = GivenBack(a)
  OBVIOUS
<1>6. lease' = Without(ids)
  BY <1>1, <1>5 DEF Without
<1>7. Table!Free(lost)
  BY <1>1, <1>3, <1>4, <1>5, <1>6, WithoutMaps
<1>8. QED
  BY <1>4, <1>7 DEF Table!EndTask, Table!Free, Owner

LEMMA TickMaps ==
  ASSUME TypeOK, Tick
  PROVE  Table!Tick
<1>1. \A r \in Resources :
        /\ InForce(r) => lease[r].left \in Nat /\ lease[r].left > 0
        /\ InForce(r)' <=> InForce(r) /\ lease[r].left > 1
        /\ InForce(r)' => /\ lease'[r].left = lease[r].left - 1
                          /\ lease'[r].holder = lease[r].holder
  <2>1. \A r \in Resources : lease[r] # NoLease => lease[r].left \in Nat
    BY DEF TypeOK, LeaseRecord
  <2>2. QED
    BY <2>1, TickLease DEF InForce, Sooner
<1>2. /\ Owner' = [r \in Resources |-> IF Left[r] > 1 THEN Owner[r] ELSE NoOwner]
      /\ Left' = [r \in Resources |-> IF Left[r] > 0 THEN Left[r] - 1 ELSE 0]
  BY <1>1 DEF Owner, Left
<1>3. UNCHANGED answer
  BY DEF Tick
<1>4. QED
  BY <1>2, <1>3 DEF Table!Tick, Owner, Left

\* Lazy expiry, renewal under a new id and lists that keep stale ids are
\* invisible: for any resources and requesters, the runtime's leases are those
\* of LeaseTable, exclusive, in time, and ended with the holder's task.
THEOREM LeasesImplementTable == Spec => TableImplemented
<1>1. Init => Table!Init
  BY DEF Init, Table!Init, InForce
<1>2. LeaseInv /\ [Next]_vars => [Table!Next]_(Table!vars)
  <2> SUFFICES ASSUME LeaseInv, [Next]_vars
               PROVE  Table!Next \/ UNCHANGED Table!vars
    OBVIOUS
  <2>1. TypeOK
    BY DEF LeaseInv
  <2>2. ASSUME NEW r \in Resources, NEW q \in Requesters, ReserveResource(r, q)
        PROVE  Table!Next
    <3>1. ASSUME NEW d \in Durations, Grant(r, q, d)
          PROVE  Table!Next
      BY <2>1, <3>1, GrantMaps DEF Table!Next
    <3>2. CASE Refuse(r, q)
      BY <2>1, <3>2, RefuseMaps DEF Table!Next
    <3>3. CASE Reject(r)
      BY <3>3 DEF Reject, Table!Reject, Table!Next, InForce
    <3>4. QED
      BY <2>2, <3>1, <3>2, <3>3 DEF ReserveResource
  <2>3. ASSUME NEW id \in 0 .. MaxIds - 1, ReleaseResource(id)
        PROVE  Table!Next \/ UNCHANGED Table!vars
    BY <2>3, ReleaseMaps DEF Table!Next
  <2>4. ASSUME NEW a \in Agents, ReleaseAgentLeases(a)
        PROVE  Table!Next
    BY <2>4, EndTaskMaps, LeaseAssumption DEF Table!Next
  <2>5. CASE Tick
    BY <2>1, <2>5, TickMaps DEF Table!Next
  <2>6. CASE UNCHANGED vars
    BY <2>6 DEF vars, Table!vars, InForce
  <2>7. QED
    BY <2>2, <2>3, <2>4, <2>5, <2>6 DEF Next
<1>3. QED
  BY LeaseInit, LeaseStep, <1>1, <1>2, PTL DEF Spec, TableImplemented, Table!Spec

-----------------------------------------------------------------------------
(* Agents that come close: an approach is counted once and answered once,    *)
(* for any number of agents, any radii, and however they move.               *)

LEMMA TwoMakeAPair ==
  ASSUME NEW a \in Robots, NEW b \in Robots, a # b
  PROVE  {a, b} \in Pairs
<1>1. \A c : {a, b} # {c}
  OBVIOUS
<1>2. QED
  BY <1>1 DEF Pairs

LEMMA SqDistSwaps ==
  ASSUME NEW p \in Cells, NEW q \in Cells
  PROVE  SqDist(p, q) = SqDist(q, p)
<1>1. p[1] \in Int /\ p[2] \in Int /\ q[1] \in Int /\ q[2] \in Int
  BY GridAssumption DEF Cells
<1>2. \A m, n \in Int : (m - n) * (m - n) = (n - m) * (n - m)
  OBVIOUS
<1>3. QED
  BY <1>1, <1>2 DEF SqDist

\* The pairs that are not near are those that were apart at the last poll.
NearRemembered == \A p \in Pairs : p \notin near <=> stage[p] = "apart"

LEMMA NearStep ==
  ASSUME NearRemembered, [PairsNext]_pairVars
  PROVE  NearRemembered'
<1>1. CASE PollCollisions
  <2>1. near' = NearNow /\ stage' = [p \in Pairs |-> Stage(p)]
    BY <1>1 DEF PollCollisions
  <2>2. QED
    BY <2>1 DEF NearNow, Stage, NearRemembered
<1>2. ASSUME UNCHANGED <<near, stage>>
      PROVE  NearRemembered'
  BY <1>2 DEF NearRemembered
<1>3. QED
  BY <1>1, <1>2 DEF PairsNext, Turn, AssignTask, polls, pairVars

\* Each poll counts exactly the pairs that have come near without colliding since
\* the poll before it: an approach is one near miss, in whatever tick the pair
\* first comes near, and none on the way out of a collision.
THEOREM NearMissCountedOnce == PairsSpec => MissedOnce
<1>1. PairsInit => NearRemembered
  BY DEF PairsInit, NearRemembered
<1>2. ASSUME NearRemembered, PairsNext, ~polled, polled'
      PROVE  missed' = {p \in Pairs : stage[p] = "apart" /\ stage'[p] = "near"}
  <2>1. PollCollisions
    BY <1>2 DEF PairsNext, Turn, AssignTask
  <2>2. /\ missed' = NewlyNear \ Hit
        /\ stage' = [p \in Pairs |-> Stage(p)]
    BY <2>1 DEF PollCollisions
  <2>3. ASSUME NEW p \in Pairs
        PROVE  p \in missed' <=> stage[p] = "apart" /\ stage'[p] = "near"
    <3>1. p \in missed' <=> /\ Within(p, NearSq) /\ p \notin near
                            /\ ~Within(p, HitSq)
      BY <2>2 DEF NewlyNear, NearNow, Hit
    <3>2. p \notin near <=> stage[p] = "apart"
      BY <1>2 DEF NearRemembered
    <3>3. stage[p] = "apart" =>
            (stage'[p] = "near" <=> Within(p, NearSq) /\ ~Within(p, HitSq))
      BY <2>2 DEF Stage
    <3>4. QED
      BY <3>1, <3>2, <3>3
  <2>4. missed' \subseteq Pairs
    BY <2>2 DEF NewlyNear, NearNow
  <2>5. QED
    BY <2>3, <2>4
<1>3. NearRemembered /\ [PairsNext]_pairVars =>
        [~polled /\ polled' =>
           missed' = {p \in Pairs : stage[p] = "apart" /\ stage'[p] = "near"}]_pairVars
  BY <1>2
<1>4. QED
  BY <1>1, <1>3, NearStep, PTL DEF PairsSpec, MissedOnce

\* A pair that the runtime does not remember a reroute of, and a pair that is
\* farther apart than the radius, has been apart since its last reroute.
RerouteInv ==
  /\ where \in [Robots -> Cells]
  /\ \A p \in Pairs : p \notin rerouted => p \in parted
  /\ \A a, b \in Robots : a # b /\ SqDist(where[a], where[b]) > HeadonSq
        => {a, b} \in parted

LEMMA TurnReroutes ==
  ASSUME Robots \subseteq Int, RerouteInv, NEW a \in Robots, Turn(a)
  PROVE  RerouteInv'
<1>1. PICK c \in Cells : where' = [where EXCEPT ![a] = c]
  BY DEF Turn, Close
<1>2. where' \in [Robots -> Cells] /\ \A b \in Robots \ {a} : where'[b] = where[b]
  BY <1>1 DEF RerouteInv
<1>3. \A p \in Pairs : p \in parted /\ p \notin detours' => p \in parted'
  BY DEF Turn
<1>4. \A p \in detours' : a \in p
  <2>1. \A p \in Conflicts(a) : a \in p
    BY DEF Conflicts
  <2>2. detours' = {} \/ detours' = Conflicts(a)
    BY DEF Turn, Reroute, Ignore
  <2>3. QED
    BY <2>1, <2>2
<1>5. \A p \in Pairs : p \notin rerouted' => p \in parted'
  <2>1. CASE Ignore
    BY <1>3, <2>1 DEF Ignore, RerouteInv
  <2>2. CASE Reroute(a)
    <3>1. SUFFICES ASSUME NEW p \in Pairs, p \notin rerouted'
                   PROVE  p \in parted /\ p \notin detours'
      BY <1>3
    <3>2. p \notin detours' /\ (p \notin rerouted \/ p \in Apart(a))
      <4>1. /\ detours' = Conflicts(a)
            /\ rerouted' = (rerouted \ Apart(a)) \cup Conflicts(a)
        BY <2>2 DEF Reroute
      <4>2. QED
        BY <3>1, <4>1, Zenon
    <3>3. ASSUME p \in Apart(a)
          PROVE  p \in parted
      <4>1. PICK b \in Robots : /\ b < a /\ p = {a, b}
                                /\ SqDist(where[a], where[b]) > HeadonSq
        BY <3>3, Zenon DEF Apart, Seniors
      <4>2. a # b
        BY <4>1
      <4>3. QED
        BY <4>1, <4>2 DEF RerouteInv
    <3>4. QED
      BY <3>2, <3>3 DEF RerouteInv
  <2>3. QED
    BY <2>1, <2>2 DEF Turn
<1>6. ASSUME NEW b \in Robots \ {a}, SqDist(where'[a], where'[b]) > HeadonSq
      PROVE  {a, b} \in parted'
  <2>1. {a, b} \in Pairs /\ b \in {a, b} \ {a}
    BY TwoMakeAPair
  <2>2. SqDist(where'[a], where[b]) > HeadonSq
    BY <1>2, <1>6
  <2>3. QED
    BY <2>1, <2>2 DEF Turn
<1>7. ASSUME NEW x \in Robots, NEW y \in Robots, x # y,
             SqDist(where'[x], where'[y]) > HeadonSq
      PROVE  {x, y} \in parted'
  <2>1. CASE x = a
    BY <1>6, <1>7, <2>1
  <2>2. CASE y = a
    <3>1. SqDist(where'[a], where'[x]) > HeadonSq
      BY <1>2, <1>7, <2>2, SqDistSwaps
    <3>2. {a, x} \in parted'
      BY <1>6, <1>7, <2>2, <3>1
    <3>3. {x, y} = {a, x}
      BY <2>2
    <3>4. QED
      BY <3>2, <3>3
  <2>3. CASE x # a /\ y # a
    <3>1. {x, y} \in parted
      BY <1>2, <1>7, <2>3 DEF RerouteInv
    <3>2. {x, y} \in Pairs /\ a \notin {x, y}
      BY <1>7, <2>3, TwoMakeAPair
    <3>3. QED
      BY <1>3, <1>4, <3>1, <3>2
  <2>4. QED
    BY <2>1, <2>2, <2>3
<1>8. QED
  BY <1>2, <1>5, <1>7 DEF RerouteInv

LEMMA RerouteStep ==
  ASSUME Robots \subseteq Int, RerouteInv, [PairsNext]_pairVars
  PROVE  RerouteInv'
<1>1. ASSUME UNCHANGED <<where, rerouted, parted>>
      PROVE  RerouteInv'
  BY <1>1 DEF RerouteInv
<1>2. QED
  BY <1>1, TurnReroutes DEF PairsNext, PollCollisions, AssignTask, pairVars

\* An agent is sent around another once per approach.
THEOREM HeadonReroutedOnce ==
  ASSUME Robots \subseteq Int
  PROVE  PairsSpec => ReroutedOnce
<1>1. PairsInit => RerouteInv
  BY TwoMakeAPair DEF PairsInit, RerouteInv
<1>2. RerouteInv /\ [PairsNext]_pairVars =>
        [\A p \in detours' : p \in parted]_pairVars
  <2> SUFFICES ASSUME RerouteInv, PairsNext, NEW p \in detours'
               PROVE  p \in parted
    BY DEF pairVars
  <2>1. PICK a \in Robots : Turn(a) /\ p \in Conflicts(a)
    BY DEF PairsNext, PollCollisions, AssignTask, Turn, Reroute, Ignore
  <2>2. PICK b \in Robots : b < a /\ p = {a, b} /\ p \notin rerouted
    BY <2>1 DEF Conflicts, Seniors
  <2>3. a # b
    BY <2>2
  <2>4. p \in Pairs
    BY <2>2, <2>3, TwoMakeAPair
  <2>5. QED
    BY <2>2, <2>4 DEF RerouteInv
<1>3. RerouteInv /\ [PairsNext]_pairVars => RerouteInv'
  BY RerouteStep
<1>4. QED
  BY <1>1, <1>2, <1>3, PTL DEF PairsSpec, ReroutedOnce

-----------------------------------------------------------------------------
(* Pending tasks: the heap with lazy deletion is one line, for any tasks and *)
(* priorities.                                                               *)

Entries == [key : Int \X Int, task : QueueTasks, removed : BOOLEAN]

LEMMA BeforeIsStrict ==
  \A e, f \in Entries : Before(e, f) => ~Before(f, e)
BY DEF Before, Entries

\* s has the entries of L, from the first to the last.
Enumerates(s, L, n) ==
  /\ s \in [1 .. n -> L]
  /\ \A i, j \in 1 .. n : i < j => Before(s[i], s[j])
  /\ \A e \in L : \E i \in 1 .. n : s[i] = e

LEMMA EnumeratesOnce ==
  ASSUME NEW L \in SUBSET Entries, NEW n \in Nat, NEW s, Enumerates(s, L, n)
  PROVE  /\ \A i, j \in 1 .. n : s[i] = s[j] => i = j
         /\ IsFiniteSet(L) /\ Cardinality(L) = n
<1>1. \A i, j \in 1 .. n : s[i] = s[j] => i = j
  <2>1. SUFFICES ASSUME NEW i \in 1 .. n, NEW j \in 1 .. n, s[i] = s[j], i < j
                 PROVE  FALSE
    OBVIOUS
  <2>2. Before(s[i], s[j]) /\ s[i] \in Entries
    BY <2>1 DEF Enumerates
  <2>3. QED
    BY <2>1, <2>2, BeforeIsStrict
<1>2. s \in Bijection(1 .. n, L)
  BY <1>1 DEF Enumerates, Bijection, Injection, Surjection, IsInjective
<1>3. ExistsBijection(1 .. n, L)
  BY <1>2 DEF ExistsBijection
<1>4. Cardinality(L) = n
  BY <1>3, FS_CountingElements
<1>5. IsFiniteSet(L)
  BY <1>3, FS_NatBijection
<1>6. QED
  BY <1>1, <1>4, <1>5

Firsts(L, e) == {f \in L : Before(f, e)}

\* The place of an entry is the number of those before it.
LEMMA PlaceOf ==
  ASSUME NEW L \in SUBSET Entries, NEW n \in Nat, NEW s, Enumerates(s, L, n),
         NEW i \in 1 .. n
  PROVE  Cardinality(Firsts(L, s[i])) = i - 1
<1> DEFINE F == {e \in L : Before(e, s[i])}
           u == [j \in 1 .. i - 1 |-> s[j]]
<1>1. i - 1 \in Nat /\ \A j \in 1 .. i - 1 : j \in 1 .. n /\ j < i
  OBVIOUS
<1>2. \A j \in 1 .. n : s[j] \in L
  BY DEF Enumerates
<1>3. \A j \in 1 .. i - 1 : u[j] \in F /\ u[j] = s[j]
  BY <1>1, <1>2 DEF Enumerates
<1>4. ASSUME NEW e \in F PROVE \E j \in 1 .. i - 1 : u[j] = e
  <2>1. PICK j \in 1 .. n : s[j] = e
    BY DEF Enumerates
  <2>2. Before(s[j], s[i]) /\ s[i] \in Entries /\ s[j] \in Entries
    BY <1>2, <2>1
  <2>3. ~(i < j) /\ i # j
    BY <2>2, BeforeIsStrict DEF Enumerates
  <2>4. j \in 1 .. i - 1
    BY <2>3
  <2>5. QED
    BY <1>3, <2>1, <2>4
<1>5. \A j, k \in 1 .. i - 1 : j < k => Before(u[j], u[k])
  BY <1>1, <1>3 DEF Enumerates
<1>6. u \in [1 .. i - 1 -> F]
  BY <1>3
<1>7. Enumerates(u, F, i - 1)
  BY <1>4, <1>5, <1>6 DEF Enumerates
<1>8. F \in SUBSET Entries
  OBVIOUS
<1> HIDE DEF F, u
<1>9. Cardinality(F) = i - 1
  BY <1>1, <1>7, <1>8, EnumeratesOnce
<1>10. QED
  BY <1>9 DEF F, Firsts

\* There is one order only.
LEMMA OneOrder ==
  ASSUME NEW L \in SUBSET Entries, NEW n \in Nat, NEW s, Enumerates(s, L, n)
  PROVE  /\ Cardinality(L) = n
         /\ s = CHOOSE u \in [1 .. Cardinality(L) -> L] :
                  \A i, j \in 1 .. Cardinality(L) : i < j => Before(u[i], u[j])
<1>1. Cardinality(L) = n /\ IsFiniteSet(L)
  BY EnumeratesOnce
<1> DEFINE R(u) == \A i, j \in 1 .. n : i < j => Before(u[i], u[j])
<1>2. ASSUME NEW u \in [1 .. n -> L], R(u) PROVE u = s
  <2>1. \A i, j \in 1 .. n : u[i] = u[j] => i = j
    <3>1. SUFFICES ASSUME NEW i \in 1 .. n, NEW j \in 1 .. n,
                          u[i] = u[j], i < j
                   PROVE  FALSE
      OBVIOUS
    <3>2. Before(u[i], u[j]) /\ u[i] \in Entries
      BY <1>2, <3>1
    <3>3. QED
      BY <3>1, <3>2, BeforeIsStrict
  <2>2. u \in Injection(1 .. n, L)
    BY <2>1 DEF Injection, IsInjective
  <2>3. IsFiniteSet(1 .. n) /\ Cardinality(1 .. n) = n
    BY FS_Interval
  <2>4. u \in Surjection(1 .. n, L)
    BY <1>1, <2>2, <2>3, FS_Injection
  <2>5. \A e \in L : \E i \in 1 .. n : u[i] = e
    BY <2>4 DEF Surjection
  <2>6. Enumerates(u, L, n)
    BY <1>2, <2>5 DEF Enumerates
  <2>7. ASSUME NEW i \in 1 .. n PROVE u[i] = s[i]
    <3>1. s[i] \in L
      BY DEF Enumerates
    <3>2. PICK j \in 1 .. n : u[j] = s[i]
      BY <2>5, <3>1
    <3>3. Cardinality(Firsts(L, s[i])) = i - 1
      BY PlaceOf
    <3>4. Cardinality(Firsts(L, u[j])) = j - 1
      BY <2>6, PlaceOf
    <3>5. i - 1 = j - 1
      BY <3>2, <3>3, <3>4
    <3>6. QED
      BY <3>2, <3>5
  <2>8. s \in [1 .. n -> L]
    BY DEF Enumerates
  <2>9. QED
    BY <2>7, <2>8
<1>3. s \in [1 .. n -> L] /\ R(s)
  BY DEF Enumerates
<1>4. s = CHOOSE u \in [1 .. n -> L] : R(u)
  <2> HIDE DEF R
  <2> QED  BY <1>2, <1>3
<1>5. QED
  BY <1>1, <1>4

-----------------------------------------------------------------------------
(* The queue: the heap and the index agree *)

QueueTypes ==
  /\ heap \subseteq Entries
  /\ byId \in [QueueTasks -> Nat \cup {NoEntry}]
  /\ counter \in Nat

KeysDrawn ==
  \A e \in heap : /\ e.key[1] = -QueuePriority[e.task]
                  /\ e.key[2] \in 1 .. counter

KeysUnique == \A e, f \in heap : e.key[2] = f.key[2] => e = f

IdsLive ==
  /\ \A e \in Live : byId[e.task] = e.key[2]
  /\ \A t \in QueueTasks : byId[t] # NoEntry => \E e \in Live : e.task = t

InOrder == \E n \in Nat : \E s : Enumerates(s, Live, n)

QueueInv == QueueTypes /\ KeysDrawn /\ KeysUnique /\ IdsLive /\ InOrder

\* What TaskLine calls the line.
Waiting == [i \in 1 .. Cardinality(Live) |-> Order[i].task]

LEMMA LiveAreEntries ==
  ASSUME QueueTypes
  PROVE  Live \in SUBSET Entries
BY DEF QueueTypes, Live

\* The line, seen through any enumeration of the live entries.
LEMMA WaitingIs ==
  ASSUME QueueTypes, NEW n \in Nat, NEW s, Enumerates(s, Live, n)
  PROVE  /\ Waiting = [i \in 1 .. n |-> s[i].task]
         /\ Waiting \in Seq(QueueTasks) /\ Len(Waiting) = n
<1>1. Cardinality(Live) = n /\ s = Order
  BY LiveAreEntries, OneOrder DEF Order
<1>2. Waiting = [i \in 1 .. n |-> s[i].task]
  BY <1>1 DEF Waiting
<1>3. \A i \in 1 .. n : s[i].task \in QueueTasks
  BY LiveAreEntries DEF Enumerates, Entries
<1>4. QED
  BY <1>2, <1>3

LEMMA WaitingIsNext ==
  ASSUME QueueTypes', NEW n \in Nat, NEW s, Enumerates(s, Live', n)
  PROVE  /\ Waiting' = [i \in 1 .. n |-> s[i].task]
         /\ Cardinality(Live') = n
<1>1. Live' \in SUBSET Entries
  BY DEF QueueTypes, Live
<1>2. Cardinality(Live') = n /\ s = Order'
  BY <1>1, OneOrder DEF Order
<1>3. QED
  BY <1>2 DEF Waiting

LEMMA EmptyQueue ==
  ASSUME NEW L, L = {}
  PROVE  Enumerates(<<>>, L, 0)
BY DEF Enumerates

LEMMA QueueInitInv == QueueInit => QueueInv /\ Waiting = <<>>
<1> SUFFICES ASSUME QueueInit PROVE QueueInv /\ Waiting = <<>>
  OBVIOUS
<1>1. /\ Live = {} /\ heap = {} /\ counter = 0
      /\ byId = [t \in QueueTasks |-> NoEntry]
  BY DEF QueueInit, Live
<1>2. QueueTypes /\ KeysDrawn /\ KeysUnique /\ IdsLive
  BY <1>1 DEF QueueTypes, KeysDrawn, KeysUnique, IdsLive
<1>3. Enumerates(<<>>, Live, 0)
  BY <1>1, EmptyQueue
<1>4. InOrder
  BY <1>3 DEF InOrder
<1>5. Waiting = <<>>
  BY <1>2, <1>3, WaitingIs
<1>6. QED
  BY <1>2, <1>4, <1>5 DEF QueueInv

-----------------------------------------------------------------------------
(* The queue, operation by operation *)

\* A new task goes behind its equals: its counter is higher than theirs.
LEMMA SubmitStep ==
  ASSUME QueueInv, NEW t \in QueueTasks, Submit(t)
  PROVE  QueueInv' /\ Line!Submit(t)
<1> DEFINE new == [key |-> Key(t), task |-> t, removed |-> FALSE]
<1>0. PICK n \in Nat : \E s : Enumerates(s, Live, n)
  BY DEF QueueInv, InOrder
<1>1. PICK s : Enumerates(s, Live, n)
  BY <1>0
<1>2. /\ QueueTypes /\ KeysDrawn /\ KeysUnique /\ IdsLive
      /\ byId[t] = NoEntry
      /\ counter' = counter + 1
      /\ heap' = heap \cup {new}
      /\ byId' = [byId EXCEPT ![t] = counter + 1]
      /\ popped' = popped
  BY DEF QueueInv, Submit, Queued
<1>3. /\ new \in Entries
      /\ new.key[1] = -QueuePriority[t] /\ new.key[2] = counter + 1
      /\ new.task = t /\ new.removed = FALSE
  <2>1. QueuePriority[t] \in Int /\ counter \in Nat
    BY <1>2, QueueAssumption DEF QueueTypes
  <2>2. Key(t) \in Int \X Int
    BY <2>1 DEF Key
  <2>3. Key(t)[1] = -QueuePriority[t] /\ Key(t)[2] = counter + 1
    BY DEF Key
  <2>4. new \in Entries
    BY <2>2 DEF Entries
  <2>5. QED
    BY <2>3, <2>4
<1> HIDE DEF new
<1>4. Live' = Live \cup {new}
  BY <1>2, <1>3 DEF Live
<1>5. QueueTypes'
  BY <1>2, <1>3 DEF QueueTypes
<1>6. /\ \A e \in heap : e.key[2] \in Nat /\ e.key[2] < counter + 1
      /\ counter \in Nat
  BY <1>2 DEF KeysDrawn, QueueTypes
<1>7. KeysDrawn'
  BY <1>2, <1>3, <1>6 DEF KeysDrawn
<1>8. KeysUnique'
  BY <1>2, <1>3, <1>6 DEF KeysUnique
<1>9. \A e \in Live : e.task # t /\ e.task \in QueueTasks
  <2>1. SUFFICES ASSUME NEW e \in Live, e.task = t PROVE FALSE
    BY <1>2, LiveAreEntries DEF Entries
  <2>2. byId[t] = e.key[2]
    BY <1>2, <2>1 DEF IdsLive
  <2>3. e \in heap
    BY DEF Live
  <2>4. QED
    BY <1>2, <1>6, <2>2, <2>3, QueueAssumption
<1>10. IdsLive'
  <2>1. \A u \in QueueTasks : byId'[u] = IF u = t THEN counter + 1 ELSE byId[u]
    BY <1>2 DEF QueueTypes
  <2>2. ASSUME NEW e \in Live' PROVE byId'[e.task] = e.key[2]
    BY <1>2, <1>3, <1>4, <1>9, <2>1 DEF IdsLive
  <2>3. ASSUME NEW u \in QueueTasks, byId'[u] # NoEntry
        PROVE  \E e \in Live' : e.task = u
    BY <1>2, <1>3, <1>4, <2>1, <2>3 DEF IdsLive
  <2>4. QED
    BY <2>2, <2>3 DEF IdsLive
<1> DEFINE q == [i \in 1 .. n |-> s[i].task]
           k == Ahead(q, t, QueuePriority)
           u == [i \in 1 .. n + 1 |-> IF i <= k THEN s[i]
                                      ELSE IF i = k + 1 THEN new ELSE s[i - 1]]
<1>11. Waiting = q /\ q \in Seq(QueueTasks) /\ Len(q) = n
  BY <1>1, <1>2, WaitingIs
<1>12. \A i \in 1 .. n :
         /\ s[i] \in Live /\ s[i] \in heap /\ s[i] \in Entries
         /\ q[i] = s[i].task /\ q[i] \in QueueTasks
         /\ s[i].key[1] = -QueuePriority[q[i]]
         /\ s[i].key[1] \in Int /\ s[i].key[2] \in Nat
         /\ s[i].key[2] < counter + 1 /\ QueuePriority[q[i]] \in Int
  <2>1. ASSUME NEW i \in 1 .. n
        PROVE  s[i] \in Live /\ s[i] \in heap /\ s[i] \in Entries
    BY <1>1, <1>2 DEF Enumerates, Live, QueueTypes
  <2>2. ASSUME NEW i \in 1 .. n
        PROVE  q[i] = s[i].task /\ q[i] \in QueueTasks
    BY <1>9, <2>1
  <2>3. ASSUME NEW i \in 1 .. n PROVE s[i].key[1] = -QueuePriority[q[i]]
    BY <1>2, <2>1, <2>2 DEF KeysDrawn
  <2> HIDE DEF q
  <2>4. \A i \in 1 .. n : QueuePriority[q[i]] \in Int
    BY <2>2, QueueAssumption
  <2>5. QED
    BY <1>6, <2>1, <2>2, <2>3, <2>4
<1> HIDE DEF q
<1>13. Sorted(q, QueuePriority)
  <2>1. SUFFICES ASSUME NEW i \in 1 .. n, NEW j \in 1 .. n, i < j
                 PROVE  QueuePriority[q[i]] >= QueuePriority[q[j]]
    BY <1>11 DEF Sorted
  <2>2. Before(s[i], s[j])
    BY <1>1, <2>1 DEF Enumerates
  <2>3. s[i].key[1] <= s[j].key[1]
    BY <1>12, <2>2 DEF Before
  <2>4. QED
    BY <1>12, <2>3
<1>14. \A i \in 1 .. n : i <= k <=> QueuePriority[q[i]] >= QueuePriority[t]
  BY <1>11, <1>13, AheadOfSorted, QueueAssumption
<1>15. k \in 0 .. n
  BY <1>11, AheadType
<1>16. QueuePriority[t] \in Int
  BY QueueAssumption
<1> HIDE DEF k
<1>17. \A i \in 1 .. n : /\ i <= k => Before(s[i], new)
                         /\ i > k => Before(new, s[i])
  <2>1. \A i \in 1 .. n : i <= k <=> s[i].key[1] <= new.key[1]
    BY <1>3, <1>12, <1>14, <1>16
  <2>2. QED
    BY <1>3, <1>6, <1>12, <1>15, <1>16, <2>1 DEF Before
<1>18. Enumerates(u, Live', n + 1)
  <2>1. \A i \in 1 .. n + 1 :
          /\ i <= k => u[i] = s[i] /\ i \in 1 .. n
          /\ i = k + 1 => u[i] = new
          /\ i > k + 1 => u[i] = s[i - 1] /\ i - 1 \in 1 .. n
    BY <1>15
  <2> HIDE DEF u
  <2>2. \A i \in 1 .. n + 1 : u[i] \in Live'
    BY <1>4, <1>12, <1>15, <2>1
  <2>3. u \in [1 .. n + 1 -> Live']
    <3> USE DEF u
    <3> HIDE DEF k
    <3>1. QED
      BY <2>2
  <2>4. ASSUME NEW i \in 1 .. n + 1, NEW j \in 1 .. n + 1, i < j
        PROVE  Before(u[i], u[j])
    <3>1. CASE i = k + 1
      BY <1>15, <1>17, <2>1, <2>4, <3>1
    <3>2. CASE j = k + 1
      BY <1>15, <1>17, <2>1, <2>4, <3>2
    <3>3. CASE i # k + 1 /\ j # k + 1
      BY <1>1, <1>15, <2>1, <2>4, <3>3 DEF Enumerates
    <3>4. QED
      BY <3>1, <3>2, <3>3
  <2>5. ASSUME NEW e \in Live' PROVE \E i \in 1 .. n + 1 : u[i] = e
    <3>1. CASE e = new
      BY <1>15, <2>1, <3>1
    <3>2. CASE e \in Live
      <4>1. PICK i \in 1 .. n : s[i] = e
        BY <1>1, <3>2 DEF Enumerates
      <4>2. CASE i <= k
        BY <1>15, <2>1, <4>1, <4>2
      <4>3. CASE i > k
        <5>1. i + 1 \in 1 .. n + 1 /\ i + 1 > k + 1 /\ (i + 1) - 1 = i
          BY <1>15, <4>3
        <5>2. u[i + 1] = s[i]
          BY <2>1, <5>1
        <5>3. QED
          BY <4>1, <5>1, <5>2
      <4>4. QED
        BY <1>15, <4>2, <4>3
    <3>3. QED
      BY <1>4, <3>1, <3>2
  <2>6. QED
    BY <2>3, <2>4, <2>5 DEF Enumerates
<1>19. QueueInv'
  <2>1. n + 1 \in Nat
    OBVIOUS
  <2>2. InOrder'
    BY <1>18, <2>1 DEF InOrder
  <2>3. QED
    BY <1>5, <1>7, <1>8, <1>10, <2>2 DEF QueueInv
<1>20. Waiting' = Enqueued(q, t, QueuePriority)
  <2>1. Waiting' = [i \in 1 .. n + 1 |-> u[i].task]
    <3> HIDE DEF u
    <3>1. QED
      BY <1>5, <1>18, WaitingIsNext
  <2>2. \A i \in 1 .. n + 1 : u[i].task = IF i <= k THEN q[i]
                                          ELSE IF i = k + 1 THEN t ELSE q[i - 1]
    BY <1>3, <1>12, <1>15
  <2>3. Waiting' = [i \in 1 .. n + 1 |-> IF i <= k THEN q[i]
                                         ELSE IF i = k + 1 THEN t ELSE q[i - 1]]
    <3> HIDE DEF u
    <3>1. QED
      BY <2>1, <2>2
  <2>4. QED
    BY <1>11, <2>3 DEF Enqueued, k
<1>21. \A i \in 1 .. n : q[i] # t
  BY <1>9, <1>12
<1>22. QED
  <2>1. Waiting' = Line!Enqueued(Waiting, t, QueuePriority)
    BY <1>11, <1>20 DEF Enqueued, Ahead, Cardinality,
       Line!Enqueued, Line!Ahead, Line!Cardinality
  <2>2. ~ \E i \in 1 .. Len(Waiting) : Waiting[i] = t
    BY <1>11, <1>21
  <2>3. Line!Submit(t)
    BY <1>2, <2>1, <2>2 DEF Line!Submit, Line!InLine, Waiting
  <2>4. QED
    BY <1>19, <2>3

\* A sequence without its k-th element.
Closed(s, n, k) == [i \in 1 .. n - 1 |-> IF i < k THEN s[i] ELSE s[i + 1]]

\* The entries but one are in the order they had.
LEMMA WithoutOne ==
  ASSUME NEW L \in SUBSET Entries, NEW n \in Nat, NEW s, Enumerates(s, L, n),
         NEW k \in 1 .. n
  PROVE  Enumerates(Closed(s, n, k), L \ {s[k]}, n - 1)
<1> DEFINE u == [i \in 1 .. n - 1 |-> IF i < k THEN s[i] ELSE s[i + 1]]
           M == L \ {s[k]}
           from(i) == IF i < k THEN i ELSE i + 1
<1>1. \A i \in 1 .. n - 1 : from(i) \in 1 .. n /\ from(i) # k
  OBVIOUS
<1>2. \A i \in 1 .. n - 1 : u[i] = s[from(i)]
  OBVIOUS
<1>3. \A i, j \in 1 .. n - 1 : i < j => from(i) < from(j)
  OBVIOUS
<1>4. ASSUME NEW j \in 1 .. n, j # k
      PROVE  \E i \in 1 .. n - 1 : from(i) = j
  <2>1. CASE j < k
    <3>1. j \in 1 .. n - 1 /\ from(j) = j
      BY <2>1
    <3>2. QED
      BY <3>1
  <2>2. CASE j > k
    <3>1. j - 1 \in 1 .. n - 1 /\ from(j - 1) = j
      BY <2>2
    <3>2. QED
      BY <3>1
  <2>3. QED
    BY <1>4, <2>1, <2>2
<1> HIDE DEF from
<1>5. \A i \in 1 .. n - 1 : u[i] \in M
  <2>1. \A i, j \in 1 .. n : s[i] = s[j] => i = j
    BY EnumeratesOnce
  <2>2. \A i \in 1 .. n : s[i] \in L
    BY DEF Enumerates
  <2> HIDE DEF u
  <2>3. QED
    BY <1>1, <1>2, <2>1, <2>2
<1>6. u \in [1 .. n - 1 -> M]
  BY <1>5
<1> HIDE DEF u
<1>7. \A i, j \in 1 .. n - 1 : i < j => Before(u[i], u[j])
  BY <1>1, <1>2, <1>3 DEF Enumerates
<1>8. ASSUME NEW e \in M PROVE \E i \in 1 .. n - 1 : u[i] = e
  <2>1. PICK j \in 1 .. n : s[j] = e
    BY DEF Enumerates
  <2>2. j # k
    BY <2>1
  <2>3. PICK i \in 1 .. n - 1 : from(i) = j
    BY <1>4, <2>2
  <2>4. QED
    BY <1>2, <2>1, <2>3
<1>9. QED
  BY <1>6, <1>7, <1>8 DEF Enumerates, Closed, u

\* What is in the heap after a step was there before, but for its mark.
KeysKept ==
  \A e \in heap' : /\ e \in Entries
                    /\ \E f \in heap : f.key = e.key /\ f.task = e.task

\* A live entry leaves: the line closes up behind it.
LEMMA OneLeaves ==
  ASSUME QueueInv, NEW n \in Nat, NEW s, Enumerates(s, Live, n),
         NEW k \in 1 .. n, Live' = Live \ {s[k]}, counter' = counter,
         byId' = [byId EXCEPT ![s[k].task] = NoEntry],
         KeysKept, KeysUnique'
  PROVE  /\ QueueInv'
         /\ Len(Waiting) = n /\ Waiting \in Seq(QueueTasks)
         /\ Waiting[k] = s[k].task
         /\ Waiting' = Closed(Waiting, n, k)
<1>1. QueueTypes /\ KeysDrawn /\ KeysUnique /\ IdsLive
  BY DEF QueueInv
<1>2. s[k] \in Live /\ s[k] \in heap /\ s[k].task \in QueueTasks
  BY <1>1, LiveAreEntries DEF Enumerates, Live, Entries
<1>3. QueueTypes'
  BY <1>1, <1>2 DEF QueueTypes, KeysKept
<1>4. KeysDrawn'
  BY <1>1 DEF KeysDrawn, KeysKept
<1>5. IdsLive'
  <2>1. \A t \in QueueTasks :
          byId'[t] = IF t = s[k].task THEN NoEntry ELSE byId[t]
    BY <1>1, <1>2 DEF QueueTypes
  <2>2. ASSUME NEW e \in Live, e # s[k] PROVE e.task # s[k].task
    <3>1. SUFFICES ASSUME e.task = s[k].task PROVE FALSE
      OBVIOUS
    <3>2. e.key[2] = s[k].key[2]
      BY <1>1, <1>2, <3>1 DEF IdsLive
    <3>3. QED
      BY <1>1, <1>2, <2>2, <3>2 DEF KeysUnique, Live
  <2>3. ASSUME NEW e \in Live' PROVE byId'[e.task] = e.key[2]
    <3>1. e \in Live /\ e # s[k] /\ e.task \in QueueTasks
      BY <1>1, LiveAreEntries DEF Entries
    <3>2. QED
      BY <1>1, <2>1, <2>2, <3>1 DEF IdsLive
  <2>4. ASSUME NEW t \in QueueTasks, byId'[t] # NoEntry
        PROVE  \E e \in Live' : e.task = t
    <3>1. t # s[k].task /\ byId[t] # NoEntry
      BY <2>1, <2>4
    <3>2. PICK e \in Live : e.task = t
      BY <1>1, <3>1 DEF IdsLive
    <3>3. QED
      BY <3>1, <3>2
  <2>5. QED
    BY <2>3, <2>4 DEF IdsLive
<1> DEFINE u == Closed(s, n, k)
<1>6. Enumerates(u, Live', n - 1) /\ n - 1 \in Nat
  BY <1>1, LiveAreEntries, WithoutOne
<1>7. /\ Waiting = [i \in 1 .. n |-> s[i].task]
      /\ Waiting \in Seq(QueueTasks) /\ Len(Waiting) = n
  BY <1>1, WaitingIs
<1>8. Waiting' = [i \in 1 .. n - 1 |-> u[i].task]
  <2> HIDE DEF u
  <2>1. QED
    BY <1>3, <1>6, WaitingIsNext
<1>9. \A i \in 1 .. n - 1 : u[i].task = IF i < k THEN Waiting[i]
                                        ELSE Waiting[i + 1]
  BY <1>7 DEF Closed
<1>10. InOrder'
  BY <1>6 DEF InOrder
<1> HIDE DEF u
<1>11. QueueInv'
  BY <1>3, <1>4, <1>5, <1>10 DEF QueueInv
<1>12. Waiting' = Closed(Waiting, n, k)
  BY <1>8, <1>9 DEF Closed
<1>13. QED
  BY <1>7, <1>11, <1>12

\* Nothing live leaves and nothing comes: the line stays.
LEMMA NoneLeaves ==
  ASSUME QueueInv, Live' = Live, UNCHANGED <<byId, counter>>,
         heap' \subseteq heap
  PROVE  QueueInv' /\ Waiting' = Waiting
<1>1. QueueTypes /\ KeysDrawn /\ KeysUnique /\ IdsLive
  BY DEF QueueInv
<1>2. QueueTypes' /\ KeysDrawn' /\ KeysUnique'
  BY <1>1 DEF QueueTypes, KeysDrawn, KeysUnique
<1>3. IdsLive'
  BY <1>1 DEF IdsLive
<1>0. PICK n \in Nat : \E s : Enumerates(s, Live, n)
  BY DEF QueueInv, InOrder
<1>4. PICK s : Enumerates(s, Live, n)
  BY <1>0
<1>5. Enumerates(s, Live', n)
  BY <1>4
<1>6. Waiting' = Waiting
  BY <1>1, <1>2, <1>4, <1>5, WaitingIs, WaitingIsNext
<1>7. InOrder'
  BY <1>5 DEF InOrder
<1>8. QED
  BY <1>2, <1>3, <1>6, <1>7 DEF QueueInv

\* The front of the heap is the first entry of the order.
LEMMA FrontIsFirst ==
  ASSUME QueueInv, NEW n \in Nat, NEW s, Enumerates(s, Live, n)
  PROVE  /\ Live = {} <=> n = 0
         /\ n # 0 => /\ Front = s[1] /\ Front \in Live
                     /\ {e \in Live : Before(Front, e)} = Live \ {Front}
                     /\ ~Before(Front, Front)
<1>1. Live \in SUBSET Entries
  BY LiveAreEntries DEF QueueInv
<1>2. Live = {} <=> n = 0
  BY DEF Enumerates
<1>3. ASSUME n # 0
      PROVE  /\ Front = s[1] /\ Front \in Live
             /\ {e \in Live : Before(Front, e)} = Live \ {Front}
             /\ ~Before(Front, Front)
  <2>1. 1 \in 1 .. n /\ s[1] \in Live
    BY <1>3 DEF Enumerates
  <2>2. ASSUME NEW f \in Live \ {s[1]} PROVE Before(s[1], f)
    <3>1. PICK j \in 1 .. n : s[j] = f
      BY DEF Enumerates
    <3>2. 1 < j
      BY <3>1
    <3>3. QED
      BY <2>1, <3>1, <3>2 DEF Enumerates
  <2>3. ASSUME NEW e \in Live, \A f \in Live \ {e} : Before(e, f)
        PROVE  e = s[1]
    BY <1>1, <2>1, <2>2, <2>3, BeforeIsStrict
  <2>4. Front = s[1]
    BY <2>1, <2>2, <2>3 DEF Front
  <2>5. ~Before(Front, Front)
    BY <1>1, <2>1, <2>4, BeforeIsStrict
  <2>6. QED
    BY <2>1, <2>2, <2>4, <2>5
<1>4. QED
  BY <1>2, <1>3

LEMMA PopStep ==
  ASSUME QueueInv, Pop
  PROVE  QueueInv' /\ Line!Serve
<1>0. PICK n \in Nat : \E s : Enumerates(s, Live, n)
  BY DEF QueueInv, InOrder
<1>1. PICK s : Enumerates(s, Live, n)
  BY <1>0
<1>2. QueueTypes /\ KeysUnique
  BY DEF QueueInv
<1>3. /\ Waiting = [i \in 1 .. n |-> s[i].task]
      /\ Waiting \in Seq(QueueTasks) /\ Len(Waiting) = n
  BY <1>1, <1>2, WaitingIs
<1>4. CASE n = 0
  <2>1. Live = {}
    BY <1>1, <1>4, FrontIsFirst
  <2>2. heap' = {} /\ byId' = byId /\ counter' = counter /\ popped' = NoTask
    BY <2>1 DEF Pop, BehindFront, FrontTask
  <2>3. Live' = Live
    BY <2>1, <2>2 DEF Live
  <2>4. QueueInv' /\ Waiting' = Waiting
    BY <2>2, <2>3, NoneLeaves
  <2>5. Waiting = <<>>
    BY <1>3, <1>4
  <2>6. Line!Serve
    BY <2>2, <2>4, <2>5 DEF Line!Serve, Line!First, Waiting
  <2>7. QED
    BY <2>4, <2>6
<1>5. CASE n # 0
  <2>1. /\ Live # {} /\ Front = s[1] /\ Front \in Live /\ 1 \in 1 .. n
        /\ {e \in Live : Before(Front, e)} = Live \ {Front}
    BY <1>1, <1>5, FrontIsFirst
  <2>2. /\ heap' = {e \in heap : Before(Front, e)}
        /\ byId' = [byId EXCEPT ![Front.task] = NoEntry]
        /\ popped' = Front.task /\ counter' = counter
    BY <2>1 DEF Pop, BehindFront, FrontTask
  <2>3. Live' = Live \ {s[1]}
    BY <2>1, <2>2 DEF Live
  <2>4. KeysUnique' /\ KeysKept
    BY <1>2, <2>2 DEF KeysUnique, KeysKept, QueueTypes
  <2>5. /\ QueueInv'
        /\ Waiting[1] = s[1].task
        /\ Waiting' = Closed(Waiting, n, 1)
    BY <1>1, <2>1, <2>2, <2>3, <2>4, OneLeaves
  <2>6. Waiting # <<>> /\ Head(Waiting) = popped'
    BY <1>3, <1>5, <2>1, <2>2, <2>5
  <2>7. Waiting' = Tail(Waiting)
    BY <1>3, <1>5, <2>5 DEF Closed
  <2>8. Line!Serve
    BY <2>6, <2>7 DEF Line!Serve, Line!First, Waiting
  <2>9. QED
    BY <2>5, <2>8
<1>6. QED
  BY <1>4, <1>5

LEMMA PeekStep ==
  ASSUME QueueInv, Peek
  PROVE  QueueInv' /\ Line!Look
<1>0. PICK n \in Nat : \E s : Enumerates(s, Live, n)
  BY DEF QueueInv, InOrder
<1>1. PICK s : Enumerates(s, Live, n)
  BY <1>0
<1>2. QueueTypes
  BY DEF QueueInv
<1>3. /\ Waiting = [i \in 1 .. n |-> s[i].task]
      /\ Waiting \in Seq(QueueTasks) /\ Len(Waiting) = n
  BY <1>1, <1>2, WaitingIs
<1>4. UNCHANGED <<byId, counter>>
  BY DEF Peek
<1>5. CASE n = 0
  <2>1. Live = {}
    BY <1>1, <1>5, FrontIsFirst
  <2>2. heap' = {} /\ popped' = NoTask
    BY <2>1 DEF Peek, BehindFront, FrontTask
  <2>3. Live' = Live
    BY <2>1, <2>2 DEF Live
  <2>4. QueueInv' /\ Waiting' = Waiting
    BY <1>4, <2>2, <2>3, NoneLeaves
  <2>5. Waiting = <<>>
    BY <1>3, <1>5
  <2>6. Line!Look
    BY <2>2, <2>4, <2>5 DEF Line!Look, Line!First, Waiting
  <2>7. QED
    BY <2>4, <2>6
<1>6. CASE n # 0
  <2>1. /\ Live # {} /\ Front = s[1] /\ Front \in Live
        /\ {e \in Live : Before(Front, e)} = Live \ {Front}
    BY <1>1, <1>6, FrontIsFirst
  <2>2. heap' = {e \in heap : Before(Front, e)} \cup {Front}
        /\ popped' = Front.task
    BY <2>1 DEF Peek, BehindFront, FrontTask
  <2>3. heap' \subseteq heap
    BY <2>1, <2>2 DEF Live
  <2>4. Live' = Live
    BY <2>1, <2>2 DEF Live
  <2>5. QueueInv' /\ Waiting' = Waiting
    BY <1>4, <2>3, <2>4, NoneLeaves
  <2>6. Waiting # <<>> /\ Head(Waiting) = popped'
    BY <1>3, <1>6, <2>1, <2>2
  <2>7. Line!Look
    BY <2>5, <2>6 DEF Line!Look, Line!First, Waiting
  <2>8. QED
    BY <2>5, <2>7
<1>7. QED
  BY <1>5, <1>6

\* Marking keeps keys and tasks.
LEMMA MarkedEntries ==
  ASSUME QueueTypes, NEW t \in QueueTasks
  PROVE  \A e \in heap :
           LET m == [e EXCEPT !.removed = TRUE]
           IN  m \in Entries /\ m.key = e.key /\ m.task = e.task /\ m.removed
BY DEF QueueTypes, Entries

LEMMA RemoveStep ==
  ASSUME QueueInv, NEW t \in QueueTasks, Remove(t)
  PROVE  QueueInv' /\ Line!Withdraw(t)
<1>0. PICK n \in Nat : \E s : Enumerates(s, Live, n)
  BY DEF QueueInv, InOrder
<1>1. PICK s : Enumerates(s, Live, n)
  BY <1>0
<1>2. QueueTypes /\ KeysDrawn /\ KeysUnique /\ IdsLive
  BY DEF QueueInv
<1>3. /\ Waiting = [i \in 1 .. n |-> s[i].task]
      /\ Waiting \in Seq(QueueTasks) /\ Len(Waiting) = n
  BY <1>1, <1>2, WaitingIs
<1>4. /\ heap' = Marked(t) /\ counter' = counter
      /\ byId' = [byId EXCEPT ![t] = NoEntry]
      /\ popped' = IF Queued(t) THEN t ELSE NoTask
  BY DEF Remove
<1>5. CASE byId[t] = NoEntry
  <2>1. \A e \in heap : e.key[2] # byId[t]
    BY <1>2, <1>5, QueueAssumption DEF KeysDrawn, QueueTypes
  <2>2. heap' = heap
    BY <1>4, <2>1 DEF Marked
  <2>3. byId' = byId
    BY <1>2, <1>4, <1>5 DEF QueueTypes
  <2>4. Live' = Live
    BY <2>2 DEF Live
  <2>5. QueueInv' /\ Waiting' = Waiting
    BY <1>4, <2>2, <2>3, <2>4, NoneLeaves
  <2>6. \A i \in 1 .. n : Waiting[i] # t
    <3>1. SUFFICES ASSUME NEW i \in 1 .. n, Waiting[i] = t PROVE FALSE
      OBVIOUS
    <3>2. s[i] \in Live /\ s[i] \in heap /\ s[i].task = t
      BY <1>1, <1>3, <3>1 DEF Enumerates, Live
    <3>3. byId[t] = s[i].key[2]
      BY <1>2, <3>2 DEF IdsLive
    <3>4. QED
      BY <2>1, <3>2, <3>3
  <2>7. popped' = NoTask
    BY <1>4, <1>5 DEF Queued
  <2>8. Line!Withdraw(t)
    BY <1>3, <2>5, <2>6, <2>7 DEF Line!Withdraw, Line!InLine, Waiting
  <2>9. QED
    BY <2>5, <2>8
<1>6. CASE byId[t] # NoEntry
  <2>1. PICK d \in Live : d.task = t
    BY <1>2, <1>6 DEF IdsLive
  <2>2. d.key[2] = byId[t] /\ d \in heap /\ ~d.removed
    BY <1>2, <2>1 DEF IdsLive, Live
  <2>3. PICK k \in 1 .. n : s[k] = d
    BY <1>1 DEF Enumerates
  <2> DEFINE m == [d EXCEPT !.removed = TRUE]
  <2>4. \A e \in heap : e.key[2] = byId[t] <=> e = d
    BY <1>2, <2>2 DEF KeysUnique
  <2>5. heap' = (heap \ {d}) \cup {m}
    BY <1>4, <2>2, <2>4 DEF Marked
  <2>6. m \in Entries /\ m.key = d.key /\ m.task = d.task /\ m.removed
    BY <1>2, <2>2, MarkedEntries
  <2> HIDE DEF m
  <2>7. Live' = Live \ {s[k]}
    BY <2>3, <2>5, <2>6 DEF Live
  <2>8. KeysUnique' /\ KeysKept
    BY <1>2, <2>2, <2>5, <2>6 DEF KeysUnique, KeysKept, QueueTypes
  <2>9. byId' = [byId EXCEPT ![s[k].task] = NoEntry]
    BY <1>4, <2>1, <2>3
  <2>10. /\ QueueInv'
         /\ Waiting[k] = t
         /\ Waiting' = Closed(Waiting, n, k)
    BY <1>1, <1>4, <2>1, <2>3, <2>7, <2>8, <2>9, OneLeaves
  <2>11. popped' = t
    BY <1>4, <1>6 DEF Queued
  <2>12. k \in 1 .. Len(Waiting) /\ Waiting' = Line!Without(k)
    BY <1>3, <2>10 DEF Line!Without, Closed, Waiting
  <2>13. Line!Withdraw(t)
    BY <2>10, <2>11, <2>12 DEF Line!Withdraw, Waiting
  <2>14. QED
    BY <2>10, <2>13
<1>7. QED
  BY <1>5, <1>6

\* The heap with its keys, counters and marks is one line, ordered by priority
\* and, within a priority, by submission: a task is served, looked at and
\* withdrawn as if the queue were the sequence the runtime takes it for.
THEOREM QueueImplementsLine == QueueSpec => QueueImplemented
<1>1. QueueInit => QueueInv /\ Line!Init
  BY QueueInitInv DEF QueueInit, Line!Init, Waiting
<1>2. QueueInv /\ [QueueNext]_queueVars
        => QueueInv' /\ [Line!Next]_<<Waiting, popped>>
  <2> SUFFICES ASSUME QueueInv, [QueueNext]_queueVars
               PROVE  QueueInv' /\ (Line!Next \/ UNCHANGED <<Waiting, popped>>)
    OBVIOUS
  <2>1. ASSUME NEW t \in QueueTasks, Submit(t)
        PROVE  QueueInv' /\ Line!Next
    BY <2>1, SubmitStep DEF Line!Next
  <2>2. ASSUME NEW t \in QueueTasks, Remove(t)
        PROVE  QueueInv' /\ Line!Next
    BY <2>2, RemoveStep DEF Line!Next
  <2>3. CASE Pop
    BY <2>3, PopStep DEF Line!Next
  <2>4. CASE Peek
    BY <2>4, PeekStep DEF Line!Next
  <2>5. CASE UNCHANGED queueVars
    <3>1. heap' \subseteq heap /\ UNCHANGED <<byId, counter, popped>>
      BY <2>5 DEF queueVars
    <3>2. Live' = Live
      BY <2>5 DEF queueVars, Live
    <3>3. QED
      BY <3>1, <3>2, NoneLeaves
  <2>6. QED
    BY <2>1, <2>2, <2>3, <2>4, <2>5 DEF QueueNext
<1>3. QED
  BY <1>1, <1>2, PTL DEF QueueSpec, QueueImplemented, Line!Spec, Waiting
=============================================================================
