------------------------------- MODULE Leases -------------------------------
(***************************************************************************)
(* Named resource leases: ReservationManager, and the lists of lease ids   *)
(* by which the runtime gives an agent's leases back when its task ends.   *)
(* Time is the ticks a lease has left; an expired lease stays stored until *)
(* the next request.  A lease id (a UUID) is the number of ids drawn       *)
(* before it.                                                              *)
(***************************************************************************)
EXTENDS Integers, Sequences

CONSTANTS
  Resources,    (* resource ids that callers name                           *)
  Catalog,      (* those of the scenario; {} lets every name pass           *)
  Requesters,   (* requester ids                                            *)
  Agents,       (* the requesters that are agents, whose tasks end          *)
  Durations,    (* duration_sec, in ticks; the code rejects 0 and less      *)
  MaxIds,       (* bound: leases granted in a behavior                      *)
  NoLease, NoOwner

ASSUME LeaseAssumption ==
  /\ Catalog \subseteq Resources
  /\ Agents \subseteq Requesters
  /\ Durations \subseteq Nat \ {0}
  /\ MaxIds \in Nat
  /\ NoOwner \notin Requesters

LeaseRecord == [id : Nat, holder : Requesters, left : Nat]

ASSUME NoLeaseAssumption == NoLease \notin LeaseRecord

VARIABLES
  lease,    (* ReservationManager._leases, or NoLease                       *)
  listed,   (* _leases_by_agent, <<>> for an id it lacks                    *)
  drawn,    (* the ids drawn so far                                         *)
  answer    (* the outcome of the last reserve_resource, as it is counted   *)

vars == <<lease, listed, drawn, answer>>

Known(r) == Catalog = {} \/ r \in Catalog

\* Mutant: a lease is expired one tick late.
ExpiredLate(r) == FALSE

Expired(r) == lease[r] # NoLease /\ lease[r].left = 0

\* ReservationManager._expire.
Swept == [r \in Resources |-> IF Expired(r) THEN NoLease ELSE lease[r]]

\* Mutant: whoever asks later takes the lease over.
MayTakeAny(r, q) == TRUE

\* No lease of another requester is in the way once the expired are swept.
MayTake(r, q) == Swept[r] # NoLease => Swept[r].holder = q

Init ==
  /\ lease = [r \in Resources |-> NoLease]
  /\ listed = [q \in Requesters |-> <<>>]
  /\ drawn = 0
  /\ answer = "none"

\* Mutant: a renewed lease is not put on the list again.
ListedFirst(q, r) ==
  IF Swept[r] = NoLease
  THEN [listed EXCEPT ![q] = Append(listed[q], drawn)]
  ELSE listed

\* The lists with the id of the lease of r that is being granted to q.
ListedWith(q, r) == [listed EXCEPT ![q] = Append(listed[q], drawn)]

Grant(r, q, d) ==
  /\ Known(r) /\ MayTake(r, q)
  /\ drawn < MaxIds
  /\ lease' = [Swept EXCEPT ![r] = [id |-> drawn, holder |-> q, left |-> d]]
  /\ listed' = ListedWith(q, r)
  /\ drawn' = drawn + 1
  /\ answer' = "granted"

Refuse(r, q) ==
  /\ Known(r) /\ ~MayTake(r, q)
  /\ lease' = Swept
  /\ answer' = "conflict"
  /\ UNCHANGED <<listed, drawn>>

Reject(r) ==
  /\ ~Known(r)
  /\ answer' = "unknown"
  /\ UNCHANGED <<lease, listed, drawn>>

\* Runtime.reserve_resource.
ReserveResource(r, q) ==
  \/ \E d \in Durations : Grant(r, q, d)
  \/ Refuse(r, q)
  \/ Reject(r)

\* The leases that are left when the given ids are released.
Without(ids) ==
  [r \in Resources |->
     IF lease[r] # NoLease /\ lease[r].id \in ids THEN NoLease ELSE lease[r]]

\* Runtime.release_resource: any caller, with any id that was handed out.  The
\* lists keep the id.
ReleaseResource(id) ==
  /\ id < drawn
  /\ lease' = Without({id})
  /\ UNCHANGED <<listed, drawn, answer>>

\* Mutant: only the lease that was reserved last is given back.
GivenBackLast(a) ==
  IF listed[a] = <<>> THEN {} ELSE {listed[a][Len(listed[a])]}

GivenBack(a) == {listed[a][i] : i \in 1 .. Len(listed[a])}

\* Runtime._release_agent_leases, when a task succeeds, fails or times out.
ReleaseAgentLeases(a) ==
  /\ lease' = Without(GivenBack(a))
  /\ listed' = [listed EXCEPT ![a] = <<>>]
  /\ UNCHANGED <<drawn, answer>>

\* The time left one tick later; what has expired stays expired.
Sooner(n) == IF n = 0 THEN 0 ELSE n - 1

\* The simulation clock; nobody sweeps.
Tick ==
  /\ lease' = [r \in Resources |->
       IF lease[r] = NoLease THEN NoLease
       ELSE [lease[r] EXCEPT !.left = Sooner(lease[r].left)]]
  /\ UNCHANGED <<listed, drawn, answer>>

Next ==
  \/ \E r \in Resources, q \in Requesters : ReserveResource(r, q)
  \/ \E id \in 0 .. MaxIds - 1 : ReleaseResource(id)
  \/ \E a \in Agents : ReleaseAgentLeases(a)
  \/ Tick

Spec == Init /\ [][Next]_vars

-----------------------------------------------------------------------------
(* Properties *)

TypeOK ==
  /\ lease \in [Resources -> LeaseRecord \cup {NoLease}]
  /\ listed \in [Requesters -> Seq(Nat)]
  /\ drawn \in 0 .. MaxIds
  /\ answer \in {"none", "granted", "conflict", "unknown"}

\* Every stored lease is on the list of its holder and on no other list, so
\* that the end of a task gives back all leases of the agent and, however old
\* the ids on its list are, never that of somebody else.
ListsCoverLeases ==
  \A r \in Resources : lease[r] # NoLease =>
    \A q \in Requesters : lease[r].id \in GivenBack(q) <=> q = lease[r].holder

InForce(r) == lease[r] # NoLease /\ lease[r].left > 0

\* The lazy table, seen from outside, loses a lease the moment it expires.
Table == INSTANCE LeaseTable WITH
  owner <- [r \in Resources |-> IF InForce(r) THEN lease[r].holder ELSE NoOwner],
  left <- [r \in Resources |-> IF InForce(r) THEN lease[r].left ELSE 0]

\* Leases with lazy expiry, renewals under new ids, and lists of ids that are
\* never pruned behave as exclusive leases that expire on time and end with
\* the task of their holder.
TableImplemented == Table!Spec

=============================================================================
