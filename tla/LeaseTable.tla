----------------------------- MODULE LeaseTable -----------------------------
(***************************************************************************)
(* What leases promise: a resource has one owner at a time, who loses it   *)
(* the moment the time granted last has passed, gives it back, or ends its *)
(* task; a request is refused only while someone else is the owner.        *)
(***************************************************************************)
EXTENDS Integers

CONSTANTS Resources, Requesters, Durations, NoOwner

VARIABLES
  owner,    (* by resource: who may use it, or NoOwner                      *)
  left,     (* by resource: the ticks until the owner loses it              *)
  answer    (* the answer to the last request                               *)

vars == <<owner, left, answer>>

Free(lost) ==
  /\ owner' = [r \in Resources |-> IF r \in lost THEN NoOwner ELSE owner[r]]
  /\ left' = [r \in Resources |-> IF r \in lost THEN 0 ELSE left[r]]
  /\ UNCHANGED answer

Init ==
  /\ owner = [r \in Resources |-> NoOwner]
  /\ left = [r \in Resources |-> 0]
  /\ answer = "none"

Grant(r, q, d) ==
  /\ owner[r] \in {NoOwner, q}
  /\ owner' = [owner EXCEPT ![r] = q]
  /\ left' = [left EXCEPT ![r] = d]
  /\ answer' = "granted"

Refuse(r, q) ==
  /\ owner[r] \notin {NoOwner, q}
  /\ answer' = "conflict"
  /\ UNCHANGED <<owner, left>>

Reject ==
  /\ answer' = "unknown"
  /\ UNCHANGED <<owner, left>>

GiveBack(r) == Free({r})

EndTask(q) == Free({r \in Resources : owner[r] = q})

Tick ==
  /\ owner' = [r \in Resources |-> IF left[r] > 1 THEN owner[r] ELSE NoOwner]
  /\ left' = [r \in Resources |-> IF left[r] > 0 THEN left[r] - 1 ELSE 0]
  /\ UNCHANGED answer

Next ==
  \/ \E r \in Resources, q \in Requesters, d \in Durations : Grant(r, q, d)
  \/ \E r \in Resources, q \in Requesters : Refuse(r, q)
  \/ Reject
  \/ \E r \in Resources : GiveBack(r)
  \/ \E q \in Requesters : EndTask(q)
  \/ Tick

Spec == Init /\ [][Next]_vars

=============================================================================
