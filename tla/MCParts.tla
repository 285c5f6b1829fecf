------------------------------ MODULE MCParts -------------------------------
(***************************************************************************)
(* Instances for TLC of parts that share no state.  An interleaving would  *)
(* only multiply their states, so a behavior is one of a single part and   *)
(* the others rest.                                                        *)
(***************************************************************************)
EXTENDS Leases, Encounters, AStar, TaskQueue, TLC

CONSTANTS Parts, r1, r2, ghost, a1, a2, guest
CONSTANTS t1, t2, t3

VARIABLES part

MCPriority == [t \in QueueTasks |-> IF t = t1 THEN 1 ELSE 0]

\* From a corner to each cell of the far side, with every set of walls.
MCSearches ==
  LET from == <<0, 0>>
      far == {c \in Cells : c[1] = Width - 1}
  IN  UNION {{[start |-> from, goal |-> g, walls |-> B] :
                B \in SUBSET (Cells \ {from, g})} : g \in far}

MCGoals == {<<0, 0>>, <<Width - 1, 0>>}

\* What the parts rest at while another runs.
IdleQuery == [start |-> <<0, 0>>, goal |-> <<Width - 1, 0>>, walls |-> {}]

PartsInit ==
  /\ part \in Parts
  /\ Init
  /\ QueueInit
  /\ SearchInit /\ (part # "search" => query = IdleQuery)
  /\ PairsInit /\ (part # "pairs" => where = [a \in Robots |-> <<0, 0>>])

LeasesRun == Next /\ UNCHANGED <<part, queueVars, searchVars, pairVars>>
QueueRuns == QueueNext /\ UNCHANGED <<part, vars, searchVars, pairVars>>
SearchRuns == SearchNext /\ UNCHANGED <<part, vars, queueVars, pairVars>>
PairsRun == PairsNext /\ UNCHANGED <<part, vars, queueVars, searchVars>>

PartsNext ==
  \/ part = "leases" /\ LeasesRun
  \/ part = "queue" /\ QueueRuns
  \/ part = "search" /\ SearchRuns
  \/ part = "pairs" /\ PairsRun

PartsSpec ==
  /\ PartsInit
  /\ [][PartsNext]_<<part, vars, queueVars, searchVars, pairVars>>

=============================================================================
