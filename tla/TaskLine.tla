------------------------------ MODULE TaskLine ------------------------------
(***************************************************************************)
(* What the task queue promises: one line, in which a task stands behind   *)
(* all tasks of its priority or a higher one that came before it, and from *)
(* which the first is served or any is withdrawn.                          *)
(***************************************************************************)
EXTENDS PendingTasks

CONSTANTS QueueTasks, QueuePriority, NoTask

VARIABLES line, answer

InLine(t) == \E i \in 1 .. Len(line) : line[i] = t

First == IF line = <<>> THEN NoTask ELSE Head(line)

Init == line = <<>> /\ answer = NoTask

Submit(t) ==
  /\ ~InLine(t)
  /\ line' = Enqueued(line, t, QueuePriority)
  /\ UNCHANGED answer

Serve ==
  /\ answer' = First
  /\ line' = IF line = <<>> THEN line ELSE Tail(line)

Look ==
  /\ answer' = First
  /\ UNCHANGED line

Without(k) ==
  [i \in 1 .. Len(line) - 1 |-> IF i < k THEN line[i] ELSE line[i + 1]]

Withdraw(t) ==
  \/ \E k \in 1 .. Len(line) :
       line[k] = t /\ line' = Without(k) /\ answer' = t
  \/ ~InLine(t) /\ answer' = NoTask /\ UNCHANGED line

Next ==
  \/ \E t \in QueueTasks : Submit(t) \/ Withdraw(t)
  \/ Serve
  \/ Look

Spec == Init /\ [][Next]_<<line, answer>>

=============================================================================
