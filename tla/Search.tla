------------------------------- MODULE Search -------------------------------
(***************************************************************************)
(* The search of a run: MipSolver::run from the start of the search to the *)
(* status it returns (src/src/mip_solver.cpp), the callbacks and solve of  *)
(* HighsBackend and GurobiBackend, and a caller that may ask to stop at    *)
(* any time, above all from within a solution it is given.                 *)
(*                                                                         *)
(* The solver library is external: it improves its incumbent, runs its     *)
(* callback when it likes, and ends when it has an answer, at a limit it   *)
(* was given, or after it was told to stop.  A model is the set of its     *)
(* solutions, of which the cheapest are wanted; its columns are all        *)
(* continuous ("lp"), some are integer ("mip"), or there are none.  It     *)
(* takes a solution of a "mip" for optimal that the gaps of the options    *)
(* leave it: one that costs at most options.slack more than the cheapest.  *)
(***************************************************************************)
EXTENDS Solver, SequencesExt

CONSTANTS
    Solutions,      \* what a model may allow: records with a cost
    Slacks,         \* what abs_gap and rel_gap may leave a search, in cost
    MaxRuns         \* bound: runs of one solver

None == [cost |-> 0]

ASSUME SearchAssumption ==
    /\ \A s \in Solutions : s.cost \in Nat \ {0}
    /\ None \notin Solutions
    /\ Slacks \subseteq Nat /\ 0 \in Slacks
    /\ MaxRuns \in Nat

VARIABLES
    problem, runs,
    options,        \* options_: intermediate, all_solutions, time_limit; the gaps
    stop,           \* what StopSignal::requested answers
    pc,
    at,             \* the callback that the library is running
    best,           \* the library's incumbent
    told,           \* user_interrupt, or GRBterminate was called
    limited,        \* the library's own time limit is set
    ended,          \* why the search ended
    pool,           \* the pooled solutions still to be read
    streamed,       \* how many solutions the backend reported
    stopped,        \* Sink::stopped_
    hasSolution,    \* RunOutcome::has_solution
    status,         \* what run returned
    solutions,      \* solutions_
    reported,       \* auxiliary: what the caller was given in this run
    seen            \* auxiliary: it was given one with a stop requested

world   == <<backend, problem, runs, options>>
library == <<at, best, told, limited, ended>>
core    == <<pool, streamed, stopped, hasSolution, status, solutions>>
caller  == <<reported, seen>>
vars    == <<world, stop, pc, library, core, caller>>

Kinds == {"mip", "lp", "none"}

Problems ==
    [kind : {"mip"}, sols : SUBSET Solutions, unbounded : BOOLEAN]
        \cup [kind : {"lp", "none"},
              sols : {S \in SUBSET Solutions : \A s, t \in S : s = t},
              unbounded : {FALSE}]

Options == [intermediate : BOOLEAN, all : BOOLEAN, limit : BOOLEAN, slack : Slacks]

\* The solutions that no other undercuts by more than the slack.
Near(S, slack) == {s \in S : \A t \in S : s.cost <= t.cost + slack}

Cheapest(S) == Near(S, 0)

Streams == options.intermediate /\ (backend = "gurobi" => ~options.all)

-----------------------------------------------------------------------------
(* The sink.                                                               *)

\* Faulty: the stop is only polled by the backend.
GiveUnpolled(s) ==
    /\ stop' \in {stop, TRUE}
    /\ reported' = Append(reported, s)
    /\ seen' = (seen \/ stop')
    /\ solutions' = solutions + 1
    /\ UNCHANGED stopped

\* Sink::solution, in which the caller may ask to stop.
Give(s) ==
    /\ stop' \in {stop, TRUE}
    /\ reported' = Append(reported, s)
    /\ seen' = (seen \/ stop')
    /\ solutions' = solutions + 1
    /\ stopped' = (stopped \/ stop')

\* Sink::should_stop.
ShouldStop == stopped \/ stop

-----------------------------------------------------------------------------
(* The caller.                                                             *)
Init ==
    /\ backend \in Backends /\ runs = 0
    /\ problem \in {p \in Problems : p.sols = {}}
    /\ options = [intermediate |-> FALSE, all |-> FALSE, limit |-> FALSE, slack |-> 0]
    /\ stop = FALSE /\ pc = "idle"
    /\ at = "none" /\ best = None /\ told = FALSE /\ limited = FALSE /\ ended = "no"
    /\ pool = {} /\ streamed = 0 /\ stopped = FALSE /\ hasSolution = FALSE
    /\ status = "none" /\ solutions = 0
    /\ reported = <<>> /\ seen = FALSE

\* option_set: any of the options, before a run; and run up to the search.  A
\* new Gurobi model has none of the parameters of the one before.
Run ==
    /\ pc = "idle" /\ runs < MaxRuns
    /\ runs' = runs + 1
    /\ problem' \in Problems
    /\ options' \in Options
    /\ stop' = FALSE /\ pc' = "search"
    /\ \E reset \in BOOLEAN :
          limited' = (options'.limit \/ (limited /\ ~(backend = "gurobi" /\ reset)))
    /\ at' = "none" /\ best' = None /\ told' = FALSE /\ ended' = "no"
    /\ pool' = {} /\ streamed' = 0 /\ stopped' = FALSE /\ hasSolution' = FALSE
    /\ status' = "none" /\ reported' = <<>> /\ seen' = FALSE
    /\ UNCHANGED <<backend, solutions>>

\* A stop before the run is polled first: there is no search.
RunStopped ==
    /\ pc = "idle" /\ runs < MaxRuns
    /\ runs' = runs + 1
    /\ stop' = TRUE /\ status' = "Incomplete"
    /\ best' = None /\ reported' = <<>> /\ seen' = FALSE /\ ended' = "no"
    /\ UNCHANGED <<backend, problem, options, pc, at, told, limited,
                   pool, streamed, stopped, hasSolution, solutions>>

\* From another thread or a clock, at any time.
StopRequested ==
    /\ pc # "idle" /\ ~stop
    /\ stop' = TRUE
    /\ UNCHANGED <<world, pc, library, core, caller>>

-----------------------------------------------------------------------------
(* The library and the callbacks.                                          *)
Searching == pc = "search" /\ ended = "no"

\* What every case of the callback but "other" ends with.
Poll ==
    /\ stopped' = ShouldStop
    /\ told' = (told \/ ShouldStop)

\* Faulty: Gurobi is told by the solution callback only.
PollCallbackSilent ==
    /\ Searching /\ at = "none" /\ problem.kind = "mip"
    /\ at' = "poll"
    /\ IF backend = "highs" THEN Poll ELSE UNCHANGED <<stopped, told>>
    /\ UNCHANGED <<world, stop, pc, best, limited, ended, pool, streamed, hasSolution,
                   status, solutions, caller>>

\* kHighsCallbackMipInterrupt; kCallbackMip and kCallbackMessage of Gurobi.
PollCallback ==
    /\ Searching /\ at = "none" /\ problem.kind = "mip"
    /\ at' = "poll"
    /\ Poll
    /\ UNCHANGED <<world, stop, pc, best, limited, ended, pool, streamed, hasSolution,
                   status, solutions, caller>>

\* A new incumbent: kHighsCallbackMipImprovingSolution, kCallbackMipSol.  HiGHS
\* is not told from here, and Gurobi is even if nothing is reported.
Improve(s) ==
    /\ Searching /\ at = "none" /\ problem.kind = "mip"
    /\ s \in problem.sols
    /\ best = None \/ s.cost < best.cost
    /\ best' = s
    /\ at' = "solution"
    /\ IF Streams
       THEN Give(s) /\ streamed' = streamed + 1
       ELSE /\ stopped' = IF backend = "gurobi" THEN ShouldStop ELSE stopped
            /\ UNCHANGED <<stop, reported, seen, solutions, streamed>>
    /\ told' = (told \/ (backend = "gurobi" /\ stopped'))
    /\ UNCHANGED <<world, pc, limited, ended, pool, hasSolution, status>>

\* Gurobi runs the callback in presolve and the simplex too.
OtherCallback ==
    /\ Searching /\ at = "none" /\ backend = "gurobi"
    /\ at' = "other"
    /\ UNCHANGED <<world, stop, pc, best, told, limited, ended, core, caller>>

SearchOn ==
    /\ Searching /\ at # "none"
    /\ at' = "none"
    /\ UNCHANGED <<world, stop, pc, best, told, limited, ended, core, caller>>

Ends(why) ==
    /\ Searching /\ at = "none"
    /\ ended' = why
    /\ UNCHANGED <<world, stop, pc, at, told, limited, core, caller>>

\* An answer: a model without integer columns gets it without an incumbent, and
\* exactly; the gaps are those of branching.
EndsProved ==
    /\ ~problem.unbounded
    /\ IF problem.sols = {} THEN Ends("infeasible") /\ UNCHANGED best
       ELSE /\ Ends("optimal")
            /\ IF problem.kind = "mip"
               THEN best \in Near(problem.sols, options.slack) /\ UNCHANGED best
               ELSE best' \in problem.sols

\* An unbounded problem, or one without a solution that presolve could not tell
\* from it.
EndsUnbounded ==
    /\ problem.unbounded \/ problem.sols = {}
    /\ Ends("unbounded")
    /\ UNCHANGED best

\* None: a limit, an interrupt, an answer the library cannot classify, a failure.
EndsEarly ==
    /\ \/ limited /\ Ends("limit")
       \/ told /\ Ends("interrupt")
       \/ Ends("unknown")
       \/ Ends("error")
    /\ UNCHANGED best

-----------------------------------------------------------------------------
(* solve, after the search.                                                *)

\* MipStatus: HiGHS may end without saying more, Gurobi says what it found.
Outcome ==
    CASE ended \in {"optimal", "infeasible", "unbounded", "error"} -> ended
      [] ended = "unknown" /\ backend = "highs" -> "unknown"
      [] OTHER -> IF best = None THEN "unknown" ELSE "feasible"

Solved == Outcome \in {"optimal", "feasible"}

\* The pool is Gurobi's, and a model without columns has none.
FromPool == backend = "gurobi" /\ options.all /\ problem.kind # "none"

\* What the pool has: the incumbent, and the others that tie with it, all of
\* them once the search proved it without a gap.
Pools ==
    LET ties == {s \in problem.sols : s.cost = best.cost}
    IN  IF ended = "optimal" /\ options.slack = 0 THEN {ties}
        ELSE {p \in SUBSET ties : best \in p}

\* Faulty: only a proved solution is one.
ReadOptimalOutcome ==
    /\ pc = "search" /\ ended # "no"
    /\ hasSolution' = (Outcome = "optimal")
    /\ IF Outcome = "optimal" /\ FromPool
       THEN pc' = "pool" /\ pool' \in Pools
       ELSE pc' = "final" /\ UNCHANGED pool
    /\ UNCHANGED <<world, stop, library, streamed, stopped, status, solutions, caller>>

\* The outcome, and whether the pool is what reports it.
ReadOutcome ==
    /\ pc = "search" /\ ended # "no"
    /\ hasSolution' = Solved
    /\ IF Solved /\ FromPool
       THEN pc' = "pool" /\ pool' \in Pools
       ELSE pc' = "final" /\ UNCHANGED pool
    /\ UNCHANGED <<world, stop, library, streamed, stopped, status, solutions, caller>>

\* Faulty: every pooled solution is read, whatever the caller asks.
ReadWholePool ==
    /\ pc = "pool"
    /\ \E s \in pool :
          Give(s) /\ streamed' = streamed + 1 /\ pool' = pool \ {s}
    /\ pc' = IF pool' = {} THEN "final" ELSE "pool"
    /\ UNCHANGED <<world, library, hasSolution, status>>

\* One turn of the loop over the pool.
ReadPool ==
    /\ pc = "pool"
    /\ \E s \in pool :
          Give(s) /\ streamed' = streamed + 1 /\ pool' = pool \ {s}
    /\ pc' = IF pool' = {} \/ stopped' THEN "final" ELSE "pool"
    /\ UNCHANGED <<world, library, hasSolution, status>>

-----------------------------------------------------------------------------
(* run, after solve.                                                       *)

\* Faulty: a solution that was streamed is given once more.
FinalAlways ==
    /\ pc = "final"
    /\ pc' = "return"
    /\ IF hasSolution THEN Give(best)
       ELSE UNCHANGED <<stop, reported, seen, solutions, stopped>>
    /\ UNCHANGED <<world, library, pool, streamed, hasSolution, status>>

\* Faulty: whether there is a solution is not asked.
FinalUnchecked ==
    /\ pc = "final"
    /\ pc' = "return"
    /\ IF Outcome # "error" /\ streamed = 0 THEN Give(best)
       ELSE UNCHANGED <<stop, reported, seen, solutions, stopped>>
    /\ UNCHANGED <<world, library, pool, streamed, hasSolution, status>>

\* What was not streamed is given now.
Final ==
    /\ pc = "final"
    /\ pc' = "return"
    /\ IF hasSolution /\ streamed = 0 THEN Give(best)
       ELSE UNCHANGED <<stop, reported, seen, solutions, stopped>>
    /\ UNCHANGED <<world, library, pool, streamed, hasSolution, status>>

\* Faulty: a solution that was found is taken for a proof.
StatusOfFeasible ==
    CASE Outcome \in {"error", "unbounded"} -> "Error"
      [] stopped -> "Incomplete"
      [] Outcome \in {"optimal", "feasible", "infeasible"} -> "Complete"
      [] OTHER -> "Incomplete"

StatusOf ==
    CASE Outcome = "error" -> "Error"
      [] Outcome # "error" /\ stopped -> "Incomplete"
      [] ~stopped /\ Outcome \in {"optimal", "infeasible"} -> "Complete"
      [] ~stopped /\ Outcome = "unbounded" -> "Error"
      [] OTHER -> "Incomplete"

Return ==
    /\ pc = "return"
    /\ pc' = "idle"
    /\ status' = StatusOf
    /\ UNCHANGED <<world, stop, library, pool, streamed, stopped, hasSolution, solutions,
                   caller>>

Library == \/ PollCallback \/ OtherCallback \/ SearchOn
           \/ \E s \in Solutions : Improve(s)
           \/ EndsProved \/ EndsUnbounded \/ EndsEarly

Next ==
    \/ Run \/ RunStopped \/ StopRequested
    \/ Library
    \/ ReadOutcome \/ ReadPool \/ Final \/ Return

Spec == Init /\ [][Next]_vars

\* The library runs its callback again and again, and ends after it was told to;
\* what run and solve do between is straight-line code.
SearchFairness ==
    /\ SF_vars(PollCallback) /\ WF_vars(SearchOn)
    /\ SF_vars(EndsEarly /\ told)
    /\ WF_vars(ReadOutcome) /\ WF_vars(ReadPool) /\ WF_vars(Final) /\ WF_vars(Return)

FairSpec == Spec /\ SearchFairness

-----------------------------------------------------------------------------
TypeOK ==
    /\ backend \in Backends /\ problem \in Problems /\ runs \in 0 .. MaxRuns
    /\ options \in Options
    /\ stop \in BOOLEAN
    /\ pc \in {"idle", "search", "pool", "final", "return"}
    /\ at \in {"none", "poll", "solution", "other"}
    /\ best \in Solutions \cup {None} /\ told \in BOOLEAN /\ limited \in BOOLEAN
    /\ ended \in {"no", "optimal", "infeasible", "unbounded", "limit", "interrupt",
                  "unknown", "error"}
    /\ pool \in SUBSET Solutions
    /\ streamed \in Nat /\ stopped \in BOOLEAN /\ hasSolution \in BOOLEAN
    /\ status \in {"none", "Complete", "Incomplete", "Error"} /\ solutions \in Nat
    /\ reported \in Seq(Solutions) /\ seen \in BOOLEAN

Returned == pc = "idle" /\ status # "none"

\* "So the core knows whether reporting values would repeat one": whichever of
\* the callback, the pool and the end of run reports, no solution of a run is
\* reported twice.
NoneTwice ==
    \A i, j \in 1 .. Len(reported) : i # j => reported[i] # reported[j]

\* "What was found before it is still a solution": a run that ends with an
\* answer, at a limit or by an interrupt has reported the best solution that was
\* found, and reported it last, or from the pool one that ties with it.
BestGiven ==
    Returned /\ best # None /\ ended \in {"optimal", "limit", "interrupt"} =>
        /\ reported # <<>>
        /\ Last(reported).cost = best.cost
        /\ best \in ToSet(reported) \/ (FromPool /\ stopped)

\* Complete is only said of what was proved: no solution exists and none was
\* reported, or the last reported costs no more than the gaps leave over any
\* other, and, without a gap, all that tie with it were reported if all were
\* asked of a pool.
CompleteIsProved ==
    Returned /\ status = "Complete" =>
        IF problem.sols = {} THEN reported = <<>>
        ELSE /\ reported # <<>> /\ ~problem.unbounded
             /\ Last(reported) \in Near(problem.sols, options.slack)
             /\ FromPool /\ problem.kind = "mip" /\ options.slack = 0 =>
                   Cheapest(problem.sols) = ToSet(reported)

\* "Polled again here, which is what makes 'stop after this solution' reliable":
\* after a solution was given with a stop requested, the run is incomplete even
\* if it ends with a proof.
StopIsTold == Returned /\ seen => status \in {"Incomplete", "Error"}

\* Reading the pool ends with the first solution that a stop was requested at.
PoolEndsAtStop == [][pc = "pool" /\ seen => UNCHANGED reported]_vars

\* "A stop asked for mid-search, including one asked for by the solution just
\* reported, is acted on": run returns, though the library would not have ended.
StopEndsSearch ==
    Searching /\ stop /\ problem.kind = "mip" ~> pc = "idle"

\* The time limit that option_get reads back is the one a search has.
LimitIsAsked == pc = "search" /\ limited => options.limit

=============================================================================
