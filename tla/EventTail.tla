------------------------------ MODULE EventTail ------------------------------
(***************************************************************************)
(* The log of events and its bounded tail: FanoutEventSink writes each     *)
(* event to events.jsonl and to the ring buffer, from which the AI tool    *)
(* API answers get_recent_events.  The client here polls for what it       *)
(* wants, from the time of the last event it got.  An event is known by    *)
(* its place in the log.                                                   *)
(***************************************************************************)
EXTENDS Integers, Sequences, FiniteSets

CONSTANTS
  Labels,       (* what events carry: event, agent and task                 *)
  Filters,      (* what clients ask for: the same fields, or AnyLabel       *)
  AnyLabel,
  Limits,       (* limits of polls                                          *)
  Capacity,     (* capacity of the ring buffer, positive                    *)
  MaxEvents,    (* bound: events written                                    *)
  LastTime      (* bound: simulated time                                    *)

ASSUME TailAssumption == Capacity \in Nat \ {0} /\ Limits \subseteq Int

VARIABLES
  now,
  log,          (* events.jsonl: labels and time                            *)
  buffer,       (* RingBufferEventSink._buffer                              *)
  filter,       (* the filter of this client                                *)
  since,        (* the since_ts of its next poll                            *)
  limit,        (* the limit of its last poll                               *)
  upto,         (* the length of the log then                               *)
  got           (* the events it got so far                                 *)

tailVars == <<now, log, buffer, filter, since, limit, upto, got>>

TailInit ==
  /\ now = 0 /\ log = <<>> /\ buffer = <<>>
  /\ filter \in Filters
  /\ since = 0 /\ limit = 0 /\ upto = 0 /\ got = {}

Logged(labels) == Append(log, [labels |-> labels, ts |-> now])

\* The deque drops its oldest event when it is full.
Buffered(i) ==
  Append(IF Len(buffer) < Capacity THEN buffer ELSE Tail(buffer), i)

\* FanoutEventSink.write, to the file and to the buffer.
WriteEvent(labels) ==
  /\ Len(log) < MaxEvents
  /\ log' = Logged(labels)
  /\ buffer' = Buffered(Len(log'))
  /\ UNCHANGED <<now, filter, since, limit, upto, got>>

\* The simulation clock; events are stamped in its order.
ClockTick ==
  /\ now < LastTime /\ now' = now + 1
  /\ UNCHANGED <<log, buffer, filter, since, limit, upto, got>>

Wanted(i) ==
  \A f \in {"event", "agent", "task"} : filter[f] \in {AnyLabel, log[i].labels[f]}

\* Mutant: an event of the very time asked from is left out.
LateEnoughAfter(i) == log[i].ts > since

LateEnough(i) == log[i].ts >= since

MatchesInBuffer ==
  {i \in {buffer[k] : k \in 1 .. Len(buffer)} : Wanted(i) /\ LateEnough(i)}

\* RingBufferEventSink.filter: of the matches the newest n, which are the last
\* in the buffer; none when n is not positive.
Filtered(n) ==
  {i \in MatchesInBuffer : Cardinality({j \in MatchesInBuffer : j > i}) < n}

Newest(events) == CHOOSE i \in events : \A j \in events : j <= i

\* AgentToolApi.get_recent_events, as a client that follows the log calls it.
GetRecentEvents(n) ==
  LET answer == Filtered(n)
  IN  /\ got' = got \cup answer
      /\ since' = IF answer = {} THEN since ELSE log[Newest(answer)].ts
      /\ limit' = n /\ upto' = Len(log)
      /\ UNCHANGED <<now, log, buffer, filter>>

TailNext ==
  \/ \E labels \in Labels : WriteEvent(labels)
  \/ ClockTick
  \/ \E n \in Limits : GetRecentEvents(n)

TailSpec == TailInit /\ [][TailNext]_tailVars

-----------------------------------------------------------------------------
(* Properties *)

WantedAfter(i) == {j \in i + 1 .. Len(log) : Wanted(j)}

\* A client that polls from the time of its last event misses none, those of
\* the same instant included, but what has left the buffer by then or what the
\* limit cut off in favour of newer events.
NewAreSeen ==
  [][\A i \in upto + 1 .. upto' :
       Wanted(i) => \/ i \in got'
                    \/ i <= Len(log) - Capacity
                    \/ Cardinality(WantedAfter(i)) >= limit']_tailVars

=============================================================================
