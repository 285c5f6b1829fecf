---------------------------- MODULE PendingTasks ----------------------------
(***************************************************************************)
(* The order the task queue keeps: the heap's sort key is (-priority,      *)
(* submission counter), so the queued tasks form a sequence sorted by      *)
(* falling priority and, within one priority, by submission.               *)
(***************************************************************************)
EXTENDS Integers, Sequences, FiniteSets

\* Mutants: first come, first served; a new task goes before its equals.
AheadAll(q, t, Priority) == Len(q)
AheadAbove(q, t, Priority) ==
  Cardinality({i \in 1 .. Len(q) : Priority[q[i]] > Priority[t]})

\* The number of tasks of q that a new task of t's priority goes behind.
Ahead(q, t, Priority) ==
  Cardinality({i \in 1 .. Len(q) : Priority[q[i]] >= Priority[t]})

\* TaskQueue.submit: t takes the next counter value.
Enqueued(q, t, Priority) ==
  LET k == Ahead(q, t, Priority)
  IN  [i \in 1 .. Len(q) + 1 |-> IF i <= k THEN q[i]
                                 ELSE IF i = k + 1 THEN t
                                 ELSE q[i - 1]]

=============================================================================
