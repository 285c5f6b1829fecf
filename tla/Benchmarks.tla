----------------------------- MODULE Benchmarks -----------------------------
(***************************************************************************)
(* `gnav bench --run`: run_benchmark_suite runs the scenarios of a suite   *)
(* one by one, finds the run directory of each by its name, scores it, and *)
(* in the end appends a report to the events of each run.  A directory is  *)
(* named by the second in which its run began, the scenario and, when that *)
(* name is taken, a number; the runner looks for names that end in the     *)
(* scenario, and takes the last.  Other runs may use the same root.        *)
(***************************************************************************)
EXTENDS Integers, Sequences, FiniteSets

CONSTANTS
  Suites,       (* the suites: sequences of scenarios, in file order        *)
  Scenarios,    (* scenario ids as numbers, in the order of their names     *)
  EndsWith,     (* pairs of scenarios: the first name ends in _ and the second *)
  MaxRuns,      (* bound: runs in a behavior                                *)
  MaxTime       (* bound: seconds                                           *)

VARIABLES
  second,       (* the UTC second                                           *)
  dirs,         (* the run directories, in the order of their making        *)
  suite,        (* the suite                                                *)
  state,        (* of the runner: "next", "running", "score", "done", "lost" *)
  own,          (* the directories of the suite's runs                      *)
  scored        (* the directory each result names, 0 for none              *)

benchVars == <<second, dirs, suite, state, own, scored>>

BenchInit ==
  /\ second = 0 /\ dirs = <<>>
  /\ suite \in Suites /\ state = "next"
  /\ own = <<>> /\ scored = <<>>

\* create_run_dir: the first number free for this second and scenario.  The test
\* and the mkdir are one step here; two processes between them are rivals of the
\* same second.
Create(s) ==
  /\ Len(dirs) < MaxRuns
  /\ LET taken == {d \in 1 .. Len(dirs) : dirs[d].stamp = second /\ dirs[d].of = s}
     IN  dirs' = Append(dirs, [stamp |-> second, of |-> s,
                               n |-> Cardinality(taken) + 1,
                               finished |-> FALSE, reports |-> 0])

\* The names pick_latest_run_dir finds: no number follows the seed.
Candidates(s) ==
  {d \in 1 .. Len(dirs) :
     dirs[d].n = 1 /\ (dirs[d].of = s \/ <<dirs[d].of, s>> \in EndsWith)}

\* The order of names: the second, then the scenario.
NamedBefore(d, e) ==
  \/ dirs[d].stamp < dirs[e].stamp
  \/ dirs[d].stamp = dirs[e].stamp /\ dirs[d].of < dirs[e].of

\* Mutant: the first of the sorted names.
EarliestRun(s) ==
  CHOOSE d \in Candidates(s) : \A e \in Candidates(s) \ {d} : NamedBefore(d, e)

LatestRun(s) ==
  CHOOSE d \in Candidates(s) : \A e \in Candidates(s) \ {d} : NamedBefore(e, d)

Current == suite[Len(scored) + 1]

\* The next run of the suite.
Begin ==
  /\ state = "next" /\ Len(scored) < Len(suite)
  /\ Create(Current)
  /\ own' = Append(own, Len(dirs'))
  /\ state' = "running"
  /\ UNCHANGED <<second, suite, scored>>

\* An expectation that cannot be read ends the suite, whatever ran before.
RejectExpectation ==
  /\ state = "next" /\ Len(scored) < Len(suite)
  /\ state' = "lost"
  /\ UNCHANGED <<second, dirs, suite, own, scored>>

\* run_command returns 0.
FinishRun ==
  /\ state = "running" /\ state' = "score"
  /\ dirs' = [dirs EXCEPT ![own[Len(own)]].finished = TRUE]
  /\ UNCHANGED <<second, suite, own, scored>>

\* Another code is a result without a directory.
FailRun ==
  /\ state = "running" /\ state' = "next"
  /\ scored' = Append(scored, 0)
  /\ UNCHANGED <<second, dirs, suite, own>>

\* An exception of the run is not caught.
RaiseInRun ==
  /\ state = "running" /\ state' = "lost"
  /\ UNCHANGED <<second, dirs, suite, own, scored>>

Score ==
  /\ state = "score" /\ state' = "next"
  /\ scored' = Append(scored, LatestRun(Current))
  /\ UNCHANGED <<second, dirs, suite, own>>

ReportsFor(d) == Cardinality({i \in 1 .. Len(scored) : scored[i] = d})

\* append_benchmark_report, n times.  Reports do not hide the event that ended
\* the run; the events of a run that has not finished are left alone.
WithReports(dir, n) ==
  IF dir.finished THEN [dir EXCEPT !.reports = @ + n] ELSE dir

\* The report file, and a report for each result with a directory.
Report ==
  /\ state = "next" /\ Len(scored) = Len(suite)
  /\ state' = "done"
  /\ dirs' = [d \in 1 .. Len(dirs) |-> WithReports(dirs[d], ReportsFor(d))]
  /\ UNCHANGED <<second, suite, own, scored>>

\* Somebody else's `gnav run` in the same root, and its end.
OtherBegins ==
  /\ \E s \in Scenarios : Create(s)
  /\ UNCHANGED <<second, suite, state, own, scored>>

OtherFinishes ==
  /\ \E d \in 1 .. Len(dirs) :
       /\ \A i \in 1 .. Len(own) : own[i] # d
       /\ ~dirs[d].finished
       /\ dirs' = [dirs EXCEPT ![d].finished = TRUE]
  /\ UNCHANGED <<second, suite, state, own, scored>>

\* A second passes.
Tick ==
  /\ second < MaxTime /\ second' = second + 1
  /\ UNCHANGED <<dirs, suite, state, own, scored>>

BenchNext ==
  \/ Begin \/ RejectExpectation \/ FinishRun \/ FailRun \/ RaiseInRun
  \/ Score \/ Report
  \/ OtherBegins \/ OtherFinishes \/ Tick

BenchSpec == BenchInit /\ [][BenchNext]_benchVars

-----------------------------------------------------------------------------
(* Properties *)

\* Another run that began no earlier has a name that ends alike.
Rivalled(i) ==
  \E d \in 1 .. Len(dirs) :
    /\ d # own[i]
    /\ dirs[d].stamp >= dirs[own[i]].stamp
    /\ dirs[d].of = suite[i] \/ <<dirs[d].of, suite[i]>> \in EndsWith

\* A result that names a run names the run the suite made for it, and the suite
\* reports in its events, unless a run of a like name began in the same second
\* or since: whatever older runs, failures and numbers there are.  Without such
\* runs it reports once.
OwnRunScored ==
  state = "done" =>
    \A i \in 1 .. Len(scored) : scored[i] # 0 /\ ~Rivalled(i) =>
      /\ scored[i] = own[i]
      /\ dirs[own[i]].reports >= 1
      /\ dirs[own[i]].reports = 1 \/ \E j \in 1 .. Len(own) : Rivalled(j)

=============================================================================
