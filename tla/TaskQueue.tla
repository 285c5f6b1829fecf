----------------------------- MODULE TaskQueue ------------------------------
(***************************************************************************)
(* TaskQueue: a heap of entries, ordered by priority and a counter, with   *)
(* lazy deletion: remove only marks an entry, and pop and peek skip the    *)
(* marked ones that have come to the front.  heapq is external; of it the  *)
(* code uses that the least entry is in front.                             *)
(***************************************************************************)
EXTENDS PendingTasks

CONSTANTS
  QueueTasks,     (* task ids                                               *)
  QueuePriority,  (* TaskSpec.priority                                      *)
  MaxCounter,     (* bound: tasks submitted in a behavior                   *)
  NoTask, NoEntry

ASSUME QueueAssumption ==
  /\ QueuePriority \in [QueueTasks -> Int]
  /\ MaxCounter \in Nat
  /\ NoEntry \notin Nat

VARIABLES
  heap,     (* _heap, as a set of entries                                   *)
  byId,     (* _by_id: the counter value of the entry, or NoEntry           *)
  counter,  (* _counter                                                     *)
  popped    (* what the last pop, peek or remove returned                   *)

queueVars == <<heap, byId, counter, popped>>

\* _Entry.__lt__.
Before(e, f) ==
  \/ e.key[1] < f.key[1]
  \/ e.key[1] = f.key[1] /\ e.key[2] < f.key[2]

Live == {e \in heap : ~e.removed}

Front == CHOOSE e \in Live : \A f \in Live \ {e} : Before(e, f)

FrontTask == IF Live = {} THEN NoTask ELSE Front.task

\* Mutant: the sign of the priority is forgotten.
KeyRising(t) == <<QueuePriority[t], counter + 1>>

Key(t) == <<-QueuePriority[t], counter + 1>>

Queued(t) == byId[t] # NoEntry

QueueInit ==
  /\ heap = {}
  /\ byId = [t \in QueueTasks |-> NoEntry]
  /\ counter = 0
  /\ popped = NoTask

\* A task that is queued already is rejected with an error.
Submit(t) ==
  /\ ~Queued(t)
  /\ counter < MaxCounter
  /\ counter' = counter + 1
  /\ heap' = heap \cup {[key |-> Key(t), task |-> t, removed |-> FALSE]}
  /\ byId' = [byId EXCEPT ![t] = counter + 1]
  /\ UNCHANGED popped

\* The entries behind the front; what was removed before it is dropped.
BehindFront ==
  IF Live = {} THEN {} ELSE {e \in heap : Before(Front, e)}

Pop ==
  /\ heap' = BehindFront
  /\ byId' = IF Live = {} THEN byId ELSE [byId EXCEPT ![Front.task] = NoEntry]
  /\ popped' = FrontTask
  /\ UNCHANGED counter

Peek ==
  /\ heap' = BehindFront \cup (IF Live = {} THEN {} ELSE {Front})
  /\ popped' = FrontTask
  /\ UNCHANGED <<byId, counter>>

Marked(t) ==
  {IF e.key[2] = byId[t] THEN [e EXCEPT !.removed = TRUE] ELSE e : e \in heap}

\* The answer is the task if it was queued.
Remove(t) ==
  /\ heap' = Marked(t)
  /\ byId' = [byId EXCEPT ![t] = NoEntry]
  /\ popped' = IF Queued(t) THEN t ELSE NoTask
  /\ UNCHANGED counter

QueueNext ==
  \/ \E t \in QueueTasks : Submit(t) \/ Remove(t)
  \/ Pop
  \/ Peek

QueueSpec == QueueInit /\ [][QueueNext]_queueVars

-----------------------------------------------------------------------------
(* Properties *)

\* The entries that are not removed, from the first to the last.
Order ==
  CHOOSE s \in [1 .. Cardinality(Live) -> Live] :
    \A i, j \in 1 .. Cardinality(Live) : i < j => Before(s[i], s[j])

Line == INSTANCE TaskLine WITH
  line <- [i \in 1 .. Cardinality(Live) |-> Order[i].task],
  answer <- popped

\* The heap with its counters and marks is the line the runtime relies on.
QueueImplemented == Line!Spec

=============================================================================
