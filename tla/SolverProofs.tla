---------------------------- MODULE SolverProofs ----------------------------
(***************************************************************************)
(* What is proved of a solver, for any backends: of a search (Search), for *)
(* any solutions and number of runs, and of its options and statistics     *)
(* (Settings), for any values offered and any order of options, runs and   *)
(* failures.                                                               *)
(*                                                                         *)
(* A search.  The type invariant, what a run reports (each solution once,  *)
(* the best one last) and what it returns (Complete only of what was       *)
(* proved, and never after a solution at which a stop was requested).  The *)
(* invariant follows a run through its four phases.  In the search the     *)
(* solutions reported get cheaper, down to the incumbent; the pool and     *)
(* what was read of it are disjoint and tie with the incumbent; before and *)
(* after the final report, what was reported and what was proved of it is  *)
(* already what the caller is going to be told.                            *)
(*                                                                         *)
(* Settings.  What a caller sets is what it reads, and what the library is *)
(* told and is told again, cut to an int where the library takes one.      *)
(***************************************************************************)
EXTENDS Search, Settings, TLAPS


-----------------------------------------------------------------------------
\* What the library's answer says of the problem, at any time.
Known ==
    /\ best # None => best \in problem.sols
    /\ ended = "optimal" => ~problem.unbounded /\ best \in Near(problem.sols, options.slack)
    /\ ended = "infeasible" => problem.sols = {}
    /\ seen => stopped

\* While the search runs, and until its outcome is read.
InSearch ==
    pc = "search" =>
        /\ streamed = Len(reported)
        /\ ~Streams => reported = <<>> /\ ~seen
        /\ reported # <<>> =>
              problem.kind = "mip" /\ best # None /\ Last(reported) = best
        /\ Streams /\ problem.kind = "mip" /\ best # None => reported # <<>>
        /\ \A i \in 1 .. Len(reported) :
              reported[i] \in problem.sols /\ reported[i].cost >= best.cost

\* While the pool is read.
Ties == {s \in problem.sols : s.cost = best.cost}

InPool ==
    pc = "pool" =>
        /\ streamed = Len(reported)
        /\ FromPool /\ Solved /\ hasSolution /\ ~seen /\ best # None
        /\ pool \subseteq Ties /\ ToSet(reported) \subseteq Ties
        /\ pool \cap ToSet(reported) = {}
        /\ pool # {} /\ best \in pool \cup ToSet(reported)
        /\ ended = "optimal" /\ options.slack = 0 => pool \cup ToSet(reported) = Ties

\* What the caller has, or is going to have, of the best solution.
Given ==
    /\ Last(reported).cost = best.cost
    /\ Last(reported) \in problem.sols
    /\ best \in ToSet(reported) \/ (FromPool /\ stopped)
    /\ FromPool /\ ended = "optimal" /\ options.slack = 0 /\ ~stopped =>
          ToSet(reported) = Ties

\* Before and after the final report.
InFinal ==
    pc = "final" =>
        /\ streamed = Len(reported)
        /\ hasSolution = Solved
        /\ best = None => reported = <<>>
        /\ Solved /\ FromPool => reported # <<>>
        /\ Solved /\ reported # <<>> => Given

InReturn ==
    pc = "return" =>
        /\ best = None => reported = <<>>
        /\ Solved => reported # <<>> /\ Given

\* The caller was told.
InIdle == StopIsTold /\ BestGiven /\ CompleteIsProved

IInv ==
    /\ TypeOK /\ Known /\ NoneTwice
    /\ InSearch /\ InPool /\ InFinal /\ InReturn /\ InIdle

-----------------------------------------------------------------------------
(* Sequences and definitions the steps below work with.                    *)

\* A sequence with an element more.
LEMMA Appended ==
    ASSUME NEW T, NEW q \in Seq(T), NEW x \in T
    PROVE  /\ Append(q, x) \in Seq(T) /\ Append(q, x) # <<>>
           /\ Len(Append(q, x)) = Len(q) + 1
           /\ Last(Append(q, x)) = x
           /\ \A i \in 1 .. Len(q) : Append(q, x)[i] = q[i]
           /\ Append(q, x)[Len(q) + 1] = x
           /\ ToSet(Append(q, x)) = ToSet(q) \cup {x}
<1>1. /\ Append(q, x) \in Seq(T) /\ Append(q, x) # <<>>
      /\ Len(Append(q, x)) = Len(q) + 1
      /\ \A i \in 1 .. Len(q) : Append(q, x)[i] = q[i]
      /\ Append(q, x)[Len(q) + 1] = x
      /\ DOMAIN Append(q, x) = 1 .. Len(q) + 1 /\ DOMAIN q = 1 .. Len(q)
      /\ Len(q) \in Nat
  OBVIOUS
<1>2. Last(Append(q, x)) = x
  BY <1>1 DEF Last
<1>3. ToSet(Append(q, x)) = ToSet(q) \cup {x}
  BY <1>1 DEF ToSet
<1> QED
  BY <1>1, <1>2, <1>3

\* Costs are numbers, and None is not a solution.
LEMMA Costs ==
    /\ \A s \in Solutions : s.cost \in Nat /\ s.cost > 0 /\ s # None
    /\ None.cost = 0
BY SearchAssumption DEF None

\* A problem's solutions are solutions.
LEMMA ProblemSols ==
    ASSUME problem \in Problems
    PROVE  /\ problem.sols \subseteq Solutions
           /\ problem.kind \in Kinds
           /\ problem.kind # "mip" => \A s, t \in problem.sols : s = t
BY DEF Problems, Kinds

\* The last and all other elements of what was reported.
LEMMA Elements ==
    ASSUME NEW q \in Seq(Solutions)
    PROVE  /\ \A x \in ToSet(q) : \E i \in 1 .. Len(q) : x = q[i]
           /\ \A i \in 1 .. Len(q) : q[i] \in ToSet(q) /\ q[i] \in Solutions
           /\ q # <<>> => Len(q) \in 1 .. Len(q) /\ Last(q) = q[Len(q)] /\ Last(q) \in ToSet(q)
           /\ q = <<>> <=> Len(q) = 0
           /\ ToSet(<<>>) = {}
<1>1. DOMAIN q = 1 .. Len(q) /\ Len(q) \in Nat /\ (q = <<>> <=> Len(q) = 0)
  OBVIOUS
<1>2. /\ \A x \in ToSet(q) : \E i \in 1 .. Len(q) : x = q[i]
      /\ \A i \in 1 .. Len(q) : q[i] \in ToSet(q) /\ q[i] \in Solutions
  BY <1>1 DEF ToSet
<1>3. q # <<>> => Len(q) \in 1 .. Len(q) /\ Last(q) = q[Len(q)] /\ Last(q) \in ToSet(q)
  BY <1>1, <1>2 DEF Last
<1>4. ToSet(<<>>) = {}
  BY DEF ToSet
<1> QED
  BY <1>1, <1>2, <1>3, <1>4

\* What the outcome says of the incumbent.
LEMMA OutcomeKnown ==
    ASSUME TypeOK, Known
    PROVE  /\ Outcome \in {"optimal", "infeasible", "unbounded", "error", "unknown", "feasible"}
           /\ ended = "optimal" <=> Outcome = "optimal"
           /\ ended = "infeasible" <=> Outcome = "infeasible"
           /\ Solved => best # None /\ best \in Solutions
           /\ best # None /\ ended \in {"optimal", "limit", "interrupt"} => Solved
           /\ ended = "infeasible" => best = None
           /\ ended = "optimal" => best \in problem.sols /\ problem.sols # {}
<1>1. /\ Outcome \in {"optimal", "infeasible", "unbounded", "error", "unknown", "feasible"}
      /\ ended = "optimal" <=> Outcome = "optimal"
      /\ ended = "infeasible" <=> Outcome = "infeasible"
      /\ Outcome = "feasible" => best # None
      /\ best # None /\ ended \in {"optimal", "limit", "interrupt"}
            => Outcome \in {"optimal", "feasible"}
  BY DEF Outcome, TypeOK
<1>2. ended = "optimal" => best \in problem.sols /\ problem.sols # {} /\ best # None
  BY Costs, ProblemSols DEF Known, Near, TypeOK
<1>3. ended = "infeasible" => best = None
  BY DEF Known
<1> QED
  BY <1>1, <1>2, <1>3 DEF Solved, TypeOK

-----------------------------------------------------------------------------
(* Steps that change nothing that was reported or found.                   *)
LEMMA Quiet ==
    ASSUME IInv, pc # "idle",
           UNCHANGED <<world, pc, best, pool, streamed, hasSolution, status, caller>>,
           stopped => stopped',
           \/ ended' = ended
           \/ pc = "search" /\ ended' \notin {"optimal", "infeasible"}
    PROVE  (Known /\ NoneTwice /\ InSearch /\ InPool /\ InFinal /\ InReturn /\ InIdle)'
<1> USE DEF IInv, world, caller
<1>1. Streams' = Streams /\ FromPool' = FromPool /\ Ties' = Ties /\ ~Returned'
  BY DEF Streams, FromPool, Ties, Returned
<1>2. pc # "search" => Solved' = Solved
  BY DEF Solved, Outcome
<1>3. Known'
  BY DEF Known, Near
<1>4. NoneTwice'
  BY DEF NoneTwice
<1>5. InSearch'
  BY <1>1 DEF InSearch
<1>6. InPool'
  BY <1>1, <1>2 DEF InPool
<1>7. pc # "search" => (Given => Given')
  BY <1>1 DEF Given
<1>8. InFinal'
  BY <1>1, <1>2, <1>7 DEF InFinal
<1>9. InReturn'
  BY <1>1, <1>2, <1>7 DEF InReturn
<1>10. InIdle'
  BY <1>1 DEF InIdle, StopIsTold, BestGiven, CompleteIsProved, Returned
<1> QED
  BY <1>3, <1>4, <1>5, <1>6, <1>8, <1>9, <1>10

LEMMA QuietSteps ==
    ASSUME IInv, StopRequested \/ PollCallback \/ OtherCallback \/ SearchOn
                    \/ EndsUnbounded \/ EndsEarly
    PROVE  (Known /\ NoneTwice /\ InSearch /\ InPool /\ InFinal /\ InReturn /\ InIdle)'
<1> USE DEF Searching, world, library, core, caller
<1>1. pc # "idle" /\ UNCHANGED <<world, pc, best, pool, streamed, hasSolution, status, caller>>
  BY DEF StopRequested, PollCallback, OtherCallback, SearchOn, EndsUnbounded, EndsEarly, Ends
<1>2. stopped => stopped'
  BY DEF StopRequested, PollCallback, Poll, ShouldStop, OtherCallback, SearchOn,
         EndsUnbounded, EndsEarly, Ends
<1>3. \/ ended' = ended
      \/ pc = "search" /\ ended' \notin {"optimal", "infeasible"}
  BY DEF StopRequested, PollCallback, OtherCallback, SearchOn, EndsUnbounded, EndsEarly, Ends
<1> QED
  BY <1>1, <1>2, <1>3, Quiet

-----------------------------------------------------------------------------
(* A run begins.                                                           *)
LEMMA Started ==
    ASSUME TypeOK, TypeOK', Run \/ RunStopped
    PROVE  (Known /\ NoneTwice /\ InSearch /\ InPool /\ InFinal /\ InReturn /\ InIdle)'
<1>1. CASE Run
  <2>1. /\ pc' = "search" /\ best' = None /\ ended' = "no" /\ streamed' = 0
        /\ reported' = <<>> /\ ~seen'
    BY <1>1 DEF Run
  <2>2. Known' /\ NoneTwice'
    BY <2>1 DEF Known, NoneTwice
  <2>3. InSearch'
    BY <2>1 DEF InSearch
  <2>4. InPool' /\ InFinal' /\ InReturn' /\ InIdle'
    BY <2>1 DEF InPool, InFinal, InReturn, InIdle, StopIsTold, BestGiven,
                CompleteIsProved, Returned
  <2> QED
    BY <2>2, <2>3, <2>4
<1>2. CASE RunStopped
  <2>1. /\ pc' = "idle" /\ best' = None /\ ended' = "no" /\ status' = "Incomplete"
        /\ reported' = <<>> /\ ~seen'
    BY <1>2 DEF RunStopped
  <2>2. Known' /\ NoneTwice'
    BY <2>1 DEF Known, NoneTwice
  <2>3. InSearch' /\ InPool' /\ InFinal' /\ InReturn'
    BY <2>1 DEF InSearch, InPool, InFinal, InReturn
  <2>4. InIdle'
    BY <2>1 DEF InIdle, StopIsTold, BestGiven, CompleteIsProved
  <2> QED
    BY <2>2, <2>3, <2>4
<1> QED
  BY <1>1, <1>2

-----------------------------------------------------------------------------
(* The search.                                                             *)

\* What is reported is cheaper than everything before it.
LEMMA Improved ==
    ASSUME IInv, TypeOK', NEW s \in Solutions, Improve(s)
    PROVE  (Known /\ NoneTwice /\ InSearch /\ InPool /\ InFinal /\ InReturn /\ InIdle)'
<1> USE DEF IInv
<1>1. /\ pc = "search" /\ pc' = "search" /\ ended = "no" /\ ended' = "no"
      /\ UNCHANGED world /\ problem' = problem
      /\ problem.kind = "mip" /\ s \in problem.sols /\ best' = s
      /\ best = None \/ s.cost < best.cost
  BY DEF Improve, Searching, world
<1>2. Streams' = Streams
  BY <1>1 DEF world, Streams
<1>3. best' # None /\ s.cost \in Nat
  BY <1>1, Costs
<1>4. reported # <<>> => best # None /\ s.cost < best.cost
  BY <1>1 DEF InSearch
<1>5. /\ streamed = Len(reported) /\ reported \in Seq(Solutions)
      /\ \A i \in 1 .. Len(reported) :
            reported[i] \in problem.sols /\ reported[i] \in Solutions
               /\ reported[i].cost \in Nat /\ reported[i].cost > s.cost
  <2>1. \A i \in 1 .. Len(reported) :
            /\ reported[i] \in problem.sols /\ reported[i] \in Solutions
            /\ reported[i].cost \in Nat /\ reported[i].cost >= best.cost
    BY <1>1, Elements, Costs DEF InSearch, TypeOK
  <2>2. best # None => best.cost \in Nat
    BY Costs DEF TypeOK
  <2>3. \A i \in 1 .. Len(reported) : reported # <<>>
    BY DEF TypeOK
  <2> QED
    BY <1>1, <1>3, <1>4, <2>1, <2>2, <2>3 DEF InSearch, TypeOK
<1>6. CASE Streams
  <2>1. /\ reported' = Append(reported, s) /\ streamed' = streamed + 1
        /\ stopped' = (stopped \/ stop') /\ seen' = (seen \/ stop')
    BY <1>6 DEF Improve, Give
  <2>2. /\ Len(reported') = Len(reported) + 1 /\ Len(reported) \in Nat
        /\ reported' # <<>> /\ Last(reported') = s
        /\ \A i \in 1 .. Len(reported) : reported'[i] = reported[i]
        /\ reported'[Len(reported) + 1] = s
    BY <2>1, <1>5, Appended
  <2>3. \A i \in 1 .. Len(reported') :
            reported'[i] \in problem.sols /\ reported'[i].cost >= s.cost
    <3> SUFFICES ASSUME NEW i \in 1 .. Len(reported')
                 PROVE  reported'[i] \in problem.sols /\ reported'[i].cost >= s.cost
      OBVIOUS
    <3>1. CASE i = Len(reported) + 1
      BY <3>1, <2>2, <1>1, <1>3
    <3>2. CASE i # Len(reported) + 1
      BY <3>2, <2>2, <1>5, <1>3
    <3> QED
      BY <3>1, <3>2
  <2>4. NoneTwice'
    <3> SUFFICES ASSUME NEW i \in 1 .. Len(reported'), NEW j \in 1 .. Len(reported'), i # j
                 PROVE  reported'[i] # reported'[j]
      BY DEF NoneTwice
    <3>1. CASE i # Len(reported) + 1 /\ j # Len(reported) + 1
      BY <3>1, <2>2 DEF NoneTwice
    <3>2. CASE i = Len(reported) + 1 \/ j = Len(reported) + 1
      BY <3>2, <2>2, <1>5, <1>3
    <3> QED
      BY <3>1, <3>2
  <2>5. Known'
    BY <1>1, <2>1 DEF Known
  <2>6. InSearch'
    BY <1>1, <1>2, <1>3, <1>5, <1>6, <2>1, <2>2, <2>3 DEF InSearch
  <2> QED
    BY <1>1, <2>4, <2>5, <2>6 DEF InPool, InFinal, InReturn, InIdle, StopIsTold,
        BestGiven, CompleteIsProved, Returned
<1>7. CASE ~Streams
  <2>1. UNCHANGED <<reported, seen, streamed>> /\ (stopped => stopped')
    BY <1>7 DEF Improve, ShouldStop
  <2>2. reported = <<>> /\ ~seen /\ Len(reported) = 0
    BY <1>1, <1>7 DEF InSearch
  <2>3. Known' /\ NoneTwice'
    BY <1>1, <2>1, <2>2 DEF Known, NoneTwice
  <2>4. InSearch'
    BY <1>1, <1>2, <1>5, <1>7, <2>1, <2>2 DEF InSearch
  <2> QED
    BY <1>1, <2>3, <2>4 DEF InPool, InFinal, InReturn, InIdle, StopIsTold,
        BestGiven, CompleteIsProved, Returned
<1> QED
  BY <1>6, <1>7

LEMMA Proved ==
    ASSUME IInv, TypeOK', EndsProved
    PROVE  (Known /\ NoneTwice /\ InSearch /\ InPool /\ InFinal /\ InReturn /\ InIdle)'
<1> USE DEF IInv
<1>1. /\ pc = "search" /\ pc' = "search" /\ UNCHANGED <<world, core, caller>>
      /\ ~problem.unbounded
  BY DEF EndsProved, Ends, Searching
<1>2. Streams' = Streams
  BY <1>1 DEF world, Streams
<1>3. /\ ended' = "optimal" =>
            best' \in Near(problem.sols, options.slack) /\ best' \in problem.sols
      /\ ended' = "infeasible" => problem.sols = {} /\ best' = best
      /\ ended' \in {"optimal", "infeasible"}
  <2>1. CASE problem.sols = {}
    BY <2>1 DEF EndsProved, Ends
  <2>2. CASE problem.sols # {} /\ problem.kind = "mip"
    BY <2>2 DEF EndsProved, Ends, Near
  <2>3. CASE problem.sols # {} /\ problem.kind # "mip"
    <3>1. best' \in problem.sols /\ ended' = "optimal"
      BY <2>3 DEF EndsProved, Ends
    <3>2. \A t \in problem.sols : t = best'
      BY <2>3, <3>1, ProblemSols DEF TypeOK
    <3>3. best'.cost \in Nat /\ options.slack \in Nat
      BY <3>1, ProblemSols, Costs, SearchAssumption DEF TypeOK, Options
    <3> QED
      BY <3>1, <3>2, <3>3 DEF Near
  <2> QED
    BY <2>1, <2>2, <2>3
<1>4. best' = best \/ (problem.kind # "mip" /\ best' \in problem.sols)
  BY DEF EndsProved
<1>5. Known'
  BY <1>1, <1>3, <1>4 DEF Known, world, core, caller, Near
<1>6. NoneTwice'
  BY <1>1 DEF NoneTwice, caller
<1>7. problem.kind # "mip" => reported = <<>> /\ Len(reported) = 0
  BY <1>1 DEF InSearch
<1>8. InSearch'
  BY <1>1, <1>2, <1>4, <1>7 DEF InSearch, world, core, caller
<1> QED
  BY <1>1, <1>5, <1>6, <1>8 DEF InPool, InFinal, InReturn, InIdle, StopIsTold,
      BestGiven, CompleteIsProved, Returned

-----------------------------------------------------------------------------
(* The outcome and the pool.                                               *)
LEMMA OutcomeRead ==
    ASSUME IInv, TypeOK', ReadOutcome
    PROVE  (Known /\ NoneTwice /\ InSearch /\ InPool /\ InFinal /\ InReturn /\ InIdle)'
<1> USE DEF IInv
<1>1. /\ pc = "search" /\ UNCHANGED <<world, library, caller, streamed, stopped>>
      /\ hasSolution' = Solved
      /\ pc' = "pool" \/ pc' = "final"
      /\ pc' = "pool" => Solved /\ FromPool /\ pool' \in Pools
      /\ Solved /\ FromPool => pc' = "pool"
  BY DEF ReadOutcome
<1>2. Streams' = Streams /\ FromPool' = FromPool /\ Ties' = Ties /\ Solved' = Solved
  BY <1>1 DEF world, library, Streams, FromPool, Ties, Solved, Outcome
<1>3. Known' /\ NoneTwice'
  BY <1>1 DEF Known, NoneTwice, Near, world, library, caller
<1>4. /\ streamed' = Len(reported') /\ reported' = reported /\ best' = best
      /\ ended' = ended /\ seen' = seen /\ problem' = problem /\ options' = options
  BY <1>1 DEF InSearch, world, library, caller
<1>5. InPool'
  <2> SUFFICES ASSUME pc' = "pool" PROVE InPool'
    BY DEF InPool
  <2>1. reported = <<>> /\ ~seen /\ ToSet(reported) = {}
    BY <1>1, Elements DEF FromPool, Streams, InSearch, TypeOK
  <2>2. best # None /\ best \in Solutions /\ best \in Ties
    BY <1>1, OutcomeKnown DEF Known, Ties
  <2>3. /\ pool' \subseteq Ties /\ best \in pool'
        /\ (ended = "optimal" /\ options.slack = 0 => pool' = Ties)
    BY <1>1, <2>2 DEF Pools, Ties
  <2> QED
    BY <1>1, <1>2, <1>4, <2>1, <2>2, <2>3 DEF InPool
<1>6. InFinal'
  <2> SUFFICES ASSUME pc' = "final" PROVE InFinal'
    BY DEF InFinal
  <2>1. Solved => ~FromPool
    BY <1>1
  <2>2. best = None => reported = <<>>
    BY <1>1 DEF InSearch
  <2>3. reported # <<>> => Last(reported) = best /\ best \in ToSet(reported)
                           /\ best # None /\ best \in problem.sols
    BY <1>1, Elements DEF InSearch, TypeOK, Known
  <2>4. Solved /\ reported # <<>> => Given'
    BY <1>1, <1>2, <1>4, <2>1, <2>3 DEF Given
  <2> QED
    BY <1>1, <1>2, <1>4, <2>1, <2>2, <2>4 DEF InFinal
<1> QED
  BY <1>1, <1>3, <1>5, <1>6 DEF InSearch, InReturn, InIdle, StopIsTold, BestGiven,
      CompleteIsProved, Returned

\* A pooled solution has not been reported, and ties with the incumbent.
LEMMA PoolRead ==
    ASSUME IInv, TypeOK', ReadPool
    PROVE  (Known /\ NoneTwice /\ InSearch /\ InPool /\ InFinal /\ InReturn /\ InIdle)'
<1> USE DEF IInv
<1>1. PICK s \in pool : /\ reported' = Append(reported, s)
                        /\ seen' = (seen \/ stop') /\ stopped' = (stopped \/ stop')
                        /\ streamed' = streamed + 1 /\ pool' = pool \ {s}
  BY DEF ReadPool, Give
<1>2. /\ pc = "pool" /\ UNCHANGED <<world, library, hasSolution>>
      /\ pc' = "pool" \/ pc' = "final"
      /\ pc' = "pool" => pool' # {} /\ ~stopped'
      /\ pc' = "final" => pool' = {} \/ stopped'
  BY DEF ReadPool
<1>3. /\ Streams' = Streams /\ FromPool' = FromPool /\ Ties' = Ties /\ Solved' = Solved
      /\ best' = best /\ ended' = ended /\ problem' = problem /\ options' = options
  BY <1>2 DEF world, library, Streams, FromPool, Ties, Solved, Outcome
<1>4. /\ streamed = Len(reported) /\ FromPool /\ Solved /\ hasSolution /\ ~seen /\ best # None
      /\ pool \subseteq Ties /\ ToSet(reported) \subseteq Ties
      /\ pool \cap ToSet(reported) = {} /\ best \in pool \cup ToSet(reported)
      /\ ended = "optimal" /\ options.slack = 0 => pool \cup ToSet(reported) = Ties
  BY <1>2 DEF InPool
<1>5. s \in Solutions /\ s \in Ties /\ s \notin ToSet(reported)
  BY <1>1, <1>4 DEF TypeOK
<1>6. /\ Len(reported') = Len(reported) + 1 /\ Len(reported) \in Nat
      /\ reported' # <<>> /\ Last(reported') = s
      /\ \A i \in 1 .. Len(reported) : reported'[i] = reported[i]
      /\ reported'[Len(reported) + 1] = s
      /\ ToSet(reported') = ToSet(reported) \cup {s}
  BY <1>1, <1>5, Appended DEF TypeOK
<1>7. pool' \cup ToSet(reported') = pool \cup ToSet(reported)
  BY <1>1, <1>6
<1>8. NoneTwice'
  <2> SUFFICES ASSUME NEW i \in 1 .. Len(reported'), NEW j \in 1 .. Len(reported'), i # j
               PROVE  reported'[i] # reported'[j]
    BY DEF NoneTwice
  <2>1. \A k \in 1 .. Len(reported) : reported[k] # s
    BY <1>5, Elements DEF TypeOK
  <2>2. CASE i # Len(reported) + 1 /\ j # Len(reported) + 1
    BY <2>2, <1>6 DEF NoneTwice
  <2>3. CASE i = Len(reported) + 1 \/ j = Len(reported) + 1
    BY <2>1, <2>3, <1>6
  <2> QED
    BY <2>2, <2>3
<1>9. Known'
  BY <1>1, <1>3 DEF Known, Near
<1>10. InPool'
  <2> SUFFICES ASSUME pc' = "pool" PROVE InPool'
    BY DEF InPool
  <2>1. streamed' = Len(reported') /\ ~seen' /\ hasSolution'
    BY <1>1, <1>2, <1>4, <1>6
  <2>2. /\ pool' \subseteq Ties' /\ ToSet(reported') \subseteq Ties'
        /\ pool' \cap ToSet(reported') = {}
    BY <1>1, <1>3, <1>4, <1>5, <1>6
  <2> QED
    BY <1>2, <1>3, <1>4, <1>7, <2>1, <2>2 DEF InPool
<1>11. InFinal'
  <2> SUFFICES ASSUME pc' = "final" PROVE InFinal'
    BY DEF InFinal
  <2>1. streamed' = Len(reported') /\ (hasSolution' <=> TRUE)
    BY <1>1, <1>2, <1>4, <1>6
  <2>2. Last(reported').cost = best.cost /\ Last(reported') \in problem.sols
    BY <1>5, <1>6 DEF Ties
  <2>3. best \in ToSet(reported') \/ stopped'
    BY <1>2, <1>4, <1>7
  <2>4. ended = "optimal" /\ options.slack = 0 /\ ~stopped' => ToSet(reported') = Ties
    BY <1>2, <1>4, <1>7
  <2>5. Given'
    BY <1>3, <1>4, <2>2, <2>3, <2>4 DEF Given
  <2>6. hasSolution' = Solved'
    BY <1>2, <1>3, <1>4 DEF TypeOK, Solved
  <2> QED
    BY <1>3, <1>4, <1>6, <2>1, <2>5, <2>6 DEF InFinal
<1> QED
  BY <1>2, <1>8, <1>9, <1>10, <1>11 DEF InSearch, InReturn, InIdle, StopIsTold,
      BestGiven, CompleteIsProved, Returned

-----------------------------------------------------------------------------
(* The end of a run.                                                       *)
LEMMA FinalGiven ==
    ASSUME IInv, TypeOK', Final
    PROVE  (Known /\ NoneTwice /\ InSearch /\ InPool /\ InFinal /\ InReturn /\ InIdle)'
<1> USE DEF IInv
<1>1. pc = "final" /\ pc' = "return" /\ UNCHANGED <<world, library, hasSolution>>
  BY DEF Final
<1>2. /\ FromPool' = FromPool /\ Ties' = Ties /\ Solved' = Solved
      /\ best' = best /\ ended' = ended /\ problem' = problem /\ options' = options
  BY <1>1 DEF world, library, FromPool, Ties, Solved, Outcome
<1>3. /\ streamed = Len(reported) /\ hasSolution = Solved
      /\ best = None => reported = <<>>
      /\ Solved /\ FromPool => reported # <<>>
      /\ Solved /\ reported # <<>> => Given
  BY <1>1 DEF InFinal
<1>4. reported = <<>> <=> streamed = 0
  BY <1>3, Elements DEF TypeOK
<1>5. CASE Solved /\ streamed = 0
  <2>1. /\ reported' = Append(reported, best)
        /\ seen' = (seen \/ stop') /\ stopped' = (stopped \/ stop')
    BY <1>3, <1>5 DEF Final, Give
  <2>2. best # None /\ best \in Solutions /\ best \in problem.sols /\ ~FromPool
    BY <1>3, <1>4, <1>5, OutcomeKnown DEF Known
  <2>3. /\ Len(reported') = 1 /\ reported' # <<>> /\ Last(reported') = best
        /\ best \in ToSet(reported')
    <3>1. reported \in Seq(Solutions) /\ Len(reported) = 0
      BY <1>3, <1>5 DEF TypeOK
    <3>2. /\ Len(Append(reported, best)) = Len(reported) + 1
          /\ Append(reported, best) # <<>> /\ Last(Append(reported, best)) = best
          /\ ToSet(Append(reported, best)) = ToSet(reported) \cup {best}
      <4>1. \A q \in Seq(Solutions), x \in Solutions :
               /\ Len(Append(q, x)) = Len(q) + 1
               /\ Append(q, x) # <<>> /\ Last(Append(q, x)) = x
               /\ ToSet(Append(q, x)) = ToSet(q) \cup {x}
        <5> TAKE q \in Seq(Solutions), x \in Solutions
        <5> QED
          BY Appended
      <4>2. reported \in Seq(Solutions) /\ best \in Solutions
        BY <2>2, <3>1
      <4> QED
        BY ONLY <4>1, <4>2
    <3>3. /\ reported' # <<>> /\ Last(reported') = best
          /\ ToSet(reported') = ToSet(reported) \cup {best}
      BY <2>1, <3>2
    <3>4. Len(reported') = 1
      BY <2>1, <3>1, <3>2
    <3> QED
      BY <3>3, <3>4
  <2>4. Known' /\ NoneTwice'
    <3>1. Known'
      BY <1>2, <2>1 DEF Known, Near
    <3>2. \A i, j \in 1 .. Len(reported') : i = j
      BY <2>3
    <3>3. NoneTwice'
      BY <3>2 DEF NoneTwice
    <3> QED
      BY <3>1, <3>3
  <2>5. Given'
    BY <1>2, <2>2, <2>3 DEF Given
  <2>6. InReturn'
    BY <1>2, <2>2, <2>3, <2>5 DEF InReturn
  <2> QED
    BY <1>1, <2>4, <2>6 DEF InSearch, InPool, InFinal, InIdle, StopIsTold, BestGiven,
        CompleteIsProved, Returned
<1>6. CASE ~(Solved /\ streamed = 0)
  <2>1. UNCHANGED <<stop, reported, seen, stopped>>
    BY <1>3, <1>6 DEF Final
  <2>2. Known' /\ NoneTwice'
    BY <1>2, <2>1 DEF Known, NoneTwice, Near
  <2>3. Solved => Given'
    BY <1>2, <1>3, <1>4, <1>6, <2>1 DEF Given
  <2>4. InReturn'
    BY <1>2, <1>3, <1>4, <1>6, <2>1, <2>3 DEF InReturn
  <2> QED
    BY <1>1, <2>2, <2>4 DEF InSearch, InPool, InFinal, InIdle, StopIsTold, BestGiven,
        CompleteIsProved, Returned
<1> QED
  BY <1>5, <1>6

LEMMA StatusGiven ==
    ASSUME TypeOK, Known
    PROVE  /\ stopped => StatusOf \in {"Incomplete", "Error"}
           /\ StatusOf = "Complete" => ~stopped /\ Outcome \in {"optimal", "infeasible"}
BY OutcomeKnown DEF StatusOf

LEMMA Returns ==
    ASSUME IInv, TypeOK', Return
    PROVE  (Known /\ NoneTwice /\ InSearch /\ InPool /\ InFinal /\ InReturn /\ InIdle)'
<1> USE DEF IInv
<1>1. /\ pc = "return" /\ pc' = "idle" /\ status' = StatusOf
      /\ UNCHANGED <<world, library, caller, stopped>>
  BY DEF Return
<1>2. /\ FromPool' = FromPool /\ best' = best /\ ended' = ended /\ problem' = problem
      /\ reported' = reported /\ seen' = seen /\ options' = options
  BY <1>1 DEF world, library, caller, FromPool
<1>3. /\ best = None => reported = <<>>
      /\ Solved => reported # <<>> /\ Given
  BY <1>1 DEF InReturn
<1>4. Known' /\ NoneTwice'
  BY <1>1, <1>2 DEF Known, NoneTwice, Near
<1>5. StopIsTold'
  BY <1>1, <1>2, StatusGiven DEF StopIsTold, Known
<1>6. BestGiven'
  BY <1>1, <1>2, <1>3, OutcomeKnown DEF BestGiven, Given
<1>7. CompleteIsProved'
  <2> SUFFICES ASSUME status' = "Complete"
               PROVE  IF problem.sols = {} THEN reported = <<>>
                      ELSE /\ reported # <<>> /\ ~problem.unbounded
                           /\ Last(reported) \in Near(problem.sols, options.slack)
                           /\ FromPool /\ problem.kind = "mip" /\ options.slack = 0 =>
                                 Cheapest(problem.sols) = ToSet(reported)
    BY <1>1, <1>2 DEF CompleteIsProved, Near, Cheapest
  <2>1. ~stopped /\ (ended = "optimal" \/ ended = "infeasible")
    BY <1>1, StatusGiven, OutcomeKnown
  <2>2. CASE ended = "infeasible"
    BY <2>2, <1>3, OutcomeKnown DEF Known
  <2>3. CASE ended = "optimal"
    <3>1. /\ Solved /\ problem.sols # {} /\ ~problem.unbounded
          /\ best \in Near(problem.sols, options.slack)
      BY <2>3, OutcomeKnown DEF Known, Solved
    <3>2. (\A s \in problem.sols : s.cost \in Nat) /\ options.slack \in Nat
      BY ProblemSols, Costs, SearchAssumption DEF TypeOK, Options
    <3>3. /\ Ties \subseteq Near(problem.sols, options.slack)
          /\ options.slack = 0 => Cheapest(problem.sols) = Ties
      BY <3>1, <3>2 DEF Near, Cheapest, Ties
    <3>4. reported # <<>> /\ Last(reported) \in Ties
      BY <3>1, <1>3 DEF Given, Ties
    <3>5. FromPool /\ options.slack = 0 => ToSet(reported) = Ties
      BY <3>1, <1>3, <2>1, <2>3 DEF Given
    <3> QED
      BY <3>1, <3>3, <3>4, <3>5
  <2> QED
    BY <2>1, <2>2, <2>3
<1> QED
  BY <1>1, <1>4, <1>5, <1>6, <1>7 DEF InSearch, InPool, InFinal, InReturn, InIdle

-----------------------------------------------------------------------------
(* Types.                                                                  *)
LEMMA TypeGiven ==
    ASSUME TypeOK, NEW s \in Solutions, Give(s)
    PROVE  /\ stop' \in BOOLEAN /\ stopped' \in BOOLEAN /\ seen' \in BOOLEAN
           /\ reported' \in Seq(Solutions) /\ solutions' \in Nat
<1>1. stop' \in BOOLEAN
  BY DEF Give, TypeOK
<1>2. stopped' \in BOOLEAN /\ seen' \in BOOLEAN
  BY <1>1 DEF Give, TypeOK
<1>3. reported' \in Seq(Solutions) /\ solutions' \in Nat
  BY DEF Give, TypeOK
<1> QED
  BY <1>1, <1>2, <1>3

LEMMA TypeLibrary ==
    ASSUME IInv, Library
    PROVE  TypeOK'
<1> USE DEF IInv, Searching, world, core, library, caller
<1>1. CASE PollCallback
  BY <1>1 DEF PollCallback, Poll, ShouldStop, TypeOK
<1>2. CASE OtherCallback
  BY <1>2 DEF OtherCallback, TypeOK
<1>3. CASE SearchOn
  BY <1>3 DEF SearchOn, TypeOK
<1>4. CASE \E s \in Solutions : Improve(s)
  <2>1. PICK s \in Solutions : Improve(s)
    BY <1>4
  <2>2. /\ stop' \in BOOLEAN /\ stopped' \in BOOLEAN /\ seen' \in BOOLEAN
        /\ reported' \in Seq(Solutions) /\ solutions' \in Nat /\ streamed' \in Nat
    <3>1. CASE Streams
      BY <2>1, <3>1, TypeGiven DEF Improve, TypeOK
    <3>2. CASE ~Streams
      BY <2>1, <3>2 DEF Improve, ShouldStop, TypeOK
    <3> QED
      BY <3>1, <3>2
  <2>3. told' \in BOOLEAN
    BY <2>1, <2>2 DEF Improve, TypeOK
  <2> QED
    BY <2>1, <2>2, <2>3 DEF Improve, TypeOK
<1>5. CASE EndsProved
  <2>1. best' \in Solutions \cup {None}
    BY <1>5, ProblemSols DEF EndsProved, TypeOK
  <2> QED
    BY <1>5, <2>1 DEF EndsProved, Ends, TypeOK
<1>6. CASE EndsUnbounded
  BY <1>6 DEF EndsUnbounded, Ends, TypeOK
<1>7. CASE EndsEarly
  BY <1>7 DEF EndsEarly, Ends, TypeOK
<1> QED
  BY <1>1, <1>2, <1>3, <1>4, <1>5, <1>6, <1>7 DEF Library

LEMMA TypeStep ==
    ASSUME IInv, Next
    PROVE  TypeOK'
<1> USE DEF IInv, world, core, library, caller
<1>1. CASE Run
  <2>1. limited' \in BOOLEAN
    BY <1>1 DEF Run, TypeOK
  <2>2. runs' \in 0 .. MaxRuns
    BY <1>1, SearchAssumption DEF Run, TypeOK
  <2>3. problem' \in Problems /\ backend' \in Backends
        /\ options' \in Options
    BY <1>1 DEF Run, TypeOK
  <2>4. /\ stop' = FALSE /\ pc' = "search" /\ at' = "none" /\ best' = None
        /\ told' = FALSE /\ ended' = "no" /\ pool' = {} /\ streamed' = 0
        /\ stopped' = FALSE /\ hasSolution' = FALSE /\ status' = "none"
        /\ reported' = <<>> /\ seen' = FALSE /\ solutions' = solutions
    BY <1>1 DEF Run
  <2>5. reported' \in Seq(Solutions) /\ solutions' \in Nat
    BY <2>4 DEF TypeOK
  <2> QED
    BY <2>1, <2>2, <2>3, <2>4, <2>5 DEF TypeOK
<1>2. CASE RunStopped
  <2>1. runs' \in 0 .. MaxRuns
    BY <1>2, SearchAssumption DEF RunStopped, TypeOK
  <2>2. reported' = <<>> /\ reported' \in Seq(Solutions)
    BY <1>2 DEF RunStopped
  <2>3. /\ stop' = TRUE /\ status' = "Incomplete" /\ best' = None
        /\ seen' = FALSE /\ ended' = "no"
    BY <1>2 DEF RunStopped
  <2>4. /\ backend' = backend /\ problem' = problem /\ options' = options
        /\ pc' = pc /\ at' = at /\ told' = told /\ limited' = limited
    BY <1>2 DEF RunStopped
  <2>5. /\ pool' = pool /\ streamed' = streamed /\ stopped' = stopped
        /\ hasSolution' = hasSolution /\ solutions' = solutions
    BY <1>2 DEF RunStopped
  <2>6. /\ backend' \in Backends /\ problem' \in Problems
        /\ options' \in Options
        /\ pc' \in {"idle", "search", "pool", "final", "return"}
        /\ at' \in {"none", "poll", "solution", "other"}
        /\ told' \in BOOLEAN /\ limited' \in BOOLEAN
    BY <2>4 DEF TypeOK
  <2>7. /\ pool' \in SUBSET Solutions /\ streamed' \in Nat /\ stopped' \in BOOLEAN
        /\ hasSolution' \in BOOLEAN /\ solutions' \in Nat
    BY <2>5 DEF TypeOK
  <2> QED
    BY <2>1, <2>2, <2>3, <2>6, <2>7 DEF TypeOK
<1>3. CASE StopRequested
  BY <1>3 DEF StopRequested, TypeOK
<1>4. CASE Library
  BY <1>4, TypeLibrary
<1>5. CASE ReadOutcome
  <2>1. hasSolution' \in BOOLEAN
    BY <1>5 DEF ReadOutcome, Solved
  <2>2. pool' \in SUBSET Solutions
    BY <1>5, ProblemSols DEF ReadOutcome, Pools, TypeOK
  <2> QED
    BY <1>5, <2>1, <2>2 DEF ReadOutcome, TypeOK
<1>6. CASE ReadPool
  <2>1. PICK s \in pool : Give(s) /\ streamed' = streamed + 1 /\ pool' = pool \ {s}
    BY <1>6 DEF ReadPool
  <2>2. s \in Solutions
    BY DEF TypeOK
  <2>3. /\ stop' \in BOOLEAN /\ stopped' \in BOOLEAN /\ seen' \in BOOLEAN
        /\ reported' \in Seq(Solutions) /\ solutions' \in Nat
    BY <2>1, <2>2, TypeGiven
  <2> QED
    BY <1>6, <2>1, <2>3 DEF ReadPool, TypeOK
<1>7. CASE Final
  <2>1. hasSolution => best \in Solutions
    BY <1>7, OutcomeKnown DEF Final, InFinal
  <2>2. /\ stop' \in BOOLEAN /\ stopped' \in BOOLEAN /\ seen' \in BOOLEAN
        /\ reported' \in Seq(Solutions) /\ solutions' \in Nat
    <3>1. CASE hasSolution /\ streamed = 0
      BY <1>7, <2>1, <3>1, TypeGiven DEF Final
    <3>2. CASE ~(hasSolution /\ streamed = 0)
      BY <1>7, <3>2 DEF Final, TypeOK
    <3> QED
      BY <3>1, <3>2
  <2> QED
    BY <1>7, <2>2 DEF Final, TypeOK
<1>8. CASE Return
  <2>1. StatusOf \in {"Complete", "Incomplete", "Error"}
    BY DEF StatusOf
  <2> QED
    BY <1>8, <2>1 DEF Return, TypeOK
<1> QED
  BY <1>1, <1>2, <1>3, <1>4, <1>5, <1>6, <1>7, <1>8 DEF Next

-----------------------------------------------------------------------------
(* The invariant.                                                          *)
LEMMA InvariantInit == Init => IInv
<1> SUFFICES ASSUME Init PROVE IInv
  OBVIOUS
<1>1. TypeOK
  <2>1. /\ runs \in 0 .. MaxRuns /\ streamed \in Nat /\ solutions \in Nat
    BY SearchAssumption DEF Init
  <2>2. reported \in Seq(Solutions) /\ problem \in Problems /\ backend \in Backends
    BY DEF Init
  <2>3. options \in Options
    BY SearchAssumption DEF Init, Options
  <2>4. /\ stop = FALSE /\ pc = "idle" /\ at = "none" /\ best = None
        /\ told = FALSE /\ limited = FALSE /\ ended = "no" /\ pool = {}
        /\ stopped = FALSE /\ hasSolution = FALSE /\ status = "none" /\ seen = FALSE
    BY DEF Init
  <2> QED
    BY <2>1, <2>2, <2>3, <2>4 DEF TypeOK
<1>2. pc = "idle" /\ best = None /\ ended = "no" /\ ~seen /\ reported = <<>> /\ status = "none"
  BY DEF Init
<1>3. Known /\ NoneTwice /\ InSearch /\ InPool /\ InFinal /\ InReturn
  BY <1>2 DEF Known, NoneTwice, InSearch, InPool, InFinal, InReturn
<1>4. InIdle
  BY <1>2 DEF InIdle, StopIsTold, BestGiven, CompleteIsProved, Returned
<1> QED
  BY <1>1, <1>3, <1>4 DEF IInv

LEMMA InvariantStep == IInv /\ [Next]_vars => IInv'
<1> SUFFICES ASSUME IInv, [Next]_vars PROVE IInv'
  OBVIOUS
<1>1. CASE Next
  <2>1. TypeOK'
    BY <1>1, TypeStep
  <2>2. CASE Run \/ RunStopped
    BY <2>1, <2>2, Started DEF IInv
  <2>3. CASE StopRequested \/ PollCallback \/ OtherCallback \/ SearchOn
                \/ EndsUnbounded \/ EndsEarly
    BY <2>1, <2>3, QuietSteps DEF IInv
  <2>4. CASE \E s \in Solutions : Improve(s)
    BY <2>1, <2>4, Improved DEF IInv
  <2>5. CASE EndsProved
    BY <2>1, <2>5, Proved DEF IInv
  <2>6. CASE ReadOutcome
    BY <2>1, <2>6, OutcomeRead DEF IInv
  <2>7. CASE ReadPool
    BY <2>1, <2>7, PoolRead DEF IInv
  <2>8. CASE Final
    BY <2>1, <2>8, FinalGiven DEF IInv
  <2>9. CASE Return
    BY <2>1, <2>9, Returns DEF IInv
  <2> QED
    BY <1>1, <2>2, <2>3, <2>4, <2>5, <2>6, <2>7, <2>8, <2>9 DEF Next, Library
<1>2. CASE UNCHANGED vars
  <2>1. UNCHANGED <<world, stop, pc, library, core, caller>>
    BY <1>2 DEF vars
  <2>2. /\ Streams' = Streams /\ FromPool' = FromPool /\ Ties' = Ties
        /\ Solved' = Solved /\ Returned' = Returned
    BY <2>1 DEF world, library, core, Streams, FromPool, Ties, Solved, Outcome, Returned
  <2>3. TypeOK' /\ Known' /\ NoneTwice'
    BY <2>1 DEF IInv, TypeOK, Known, NoneTwice, Near, world, library, core, caller
  <2>4. InSearch'
    BY <2>1, <2>2 DEF IInv, InSearch, world, library, core, caller
  <2>5. InPool'
    BY <2>1, <2>2 DEF IInv, InPool, world, library, core, caller
  <2>6. Given => Given'
    BY <2>1, <2>2 DEF Given, world, library, core, caller
  <2>7. InFinal' /\ InReturn'
    BY <2>1, <2>2, <2>6 DEF IInv, InFinal, InReturn, world, library, core, caller
  <2>8. InIdle'
    BY <2>1, <2>2 DEF IInv, InIdle, StopIsTold, BestGiven, CompleteIsProved, Near, Cheapest,
        world, library, core, caller
  <2> QED
    BY <2>3, <2>4, <2>5, <2>7, <2>8 DEF IInv
<1> QED
  BY <1>1, <1>2

\* The invariant holds of every run, whatever the models and the backends.
THEOREM SearchInvariant == Spec => []IInv
<1>1. Init => IInv
  BY InvariantInit
<1>2. IInv /\ [Next]_vars => IInv'
  BY InvariantStep
<1> QED
  BY <1>1, <1>2, PTL DEF Spec

\* Every variable keeps its type.
THEOREM SearchTypeOK == Spec => []TypeOK
<1>1. IInv => TypeOK
  BY DEF IInv
<1> QED
  BY <1>1, SearchInvariant, PTL

\* The callback, the pool and the end of run together report no solution of a
\* run twice.
THEOREM ReportedOnce == Spec => []NoneTwice
<1>1. IInv => NoneTwice
  BY DEF IInv
<1> QED
  BY <1>1, SearchInvariant, PTL

\* A run that ends with an answer, at a limit or by an interrupt has reported
\* the best solution that was found last, or one that ties with it.
THEOREM BestIsGiven == Spec => []BestGiven
<1>1. IInv => BestGiven
  BY DEF IInv, InIdle
<1> QED
  BY <1>1, SearchInvariant, PTL

\* run only returns Complete for what the search proved, up to the gaps that the
\* options leave it.
THEOREM CompleteOnlyProved == Spec => []CompleteIsProved
<1>1. IInv => CompleteIsProved
  BY DEF IInv, InIdle
<1> QED
  BY <1>1, SearchInvariant, PTL

\* A run that reported a solution at which a stop was requested is not
\* Complete.
THEOREM StopAlwaysTold == Spec => []StopIsTold
<1>1. IInv => StopIsTold
  BY DEF IInv, InIdle
<1> QED
  BY <1>1, SearchInvariant, PTL

\* No solution is reported from the pool after one at which a stop was
\* requested.
THEOREM PoolReadingEnds == Spec => PoolEndsAtStop
<1>1. IInv => (pc = "pool" /\ seen => UNCHANGED reported)
  BY DEF IInv, InPool
<1> QED
  BY <1>1, SearchInvariant, PTL DEF PoolEndsAtStop

-----------------------------------------------------------------------------
(***************************************************************************)
(* Settings.                                                               *)
(***************************************************************************)
OptionKinds  == {"absent", "bool", "int", "float", "string"}
Values == [kind : OptionKinds, v : Int]
Ages   == {"never", "earlier", "last"}

Shapes ==
    /\ setting \in [Names -> Values]
    /\ param \in [Names -> Values]
    /\ stat \in [objective : Ages, bound : Ages, haveBound : BOOLEAN, time : Ages, nodes : Ages]

\* Each option has its own member, which is only set with it.
SetLast == setting = last

\* What the library can have been told of an option.
Offered == \A n \in Names : setting[n] \in Offers \cup {DeclaredDefault(n)}

\* A bound that can be read is of the last search.
BoundIsLast == stat.haveBound => stat.bound = "last"

SettingsInv ==
    /\ Shapes
    /\ SetLast
    /\ Offered
    /\ ValuesOK
    /\ SearchHasOptions
    /\ BoundIsLast

-----------------------------------------------------------------------------
LEMMA NamesAre ==
    Names = {"intermediate", "verbose", "all_solutions", "threads", "time_limit",
             "random_seed", "abs_gap", "rel_gap", "int_tol", "write_model", "dll"}
BY DEF Names, CoreOwn, Flags, Gaps

LEMMA ValuesAre ==
    /\ \A v \in Int : Bool(v) \in Values /\ Int_(v) \in Values /\ Float(v) \in Values
                      /\ Str(v) \in Values
    /\ Absent \in Values
BY DEF Bool, Int_, Float, Str, Absent, Values, OptionKinds

LEMMA OffersAreValues == Offers \subseteq Values
BY SettingsAssumption DEF Values, OptionKinds

\* Every default is a value, and one that its option accepts or, for the absolute
\* gap, the declared one.
LEMMA DefaultsAreValues == \A n \in Names : DeclaredDefault(n) \in Values
<1>1. 0 \in Int /\ 1 \in Int /\ -1 \in Int
  OBVIOUS
<1>2. \A n \in CoreOwn : CoreDefault[n] \in Values
  BY <1>1, ValuesAre DEF CoreOwn, Flags, CoreDefault
<1>3. \A n \in Names \ CoreOwn : OwnDefault[n] \in Values
  BY <1>1, ValuesAre, NamesAre DEF CoreOwn, Flags, OwnDefault
<1> QED
  BY <1>2, <1>3 DEF DeclaredDefault

\* What an int takes of an integer is an int.
LEMMA CastIsInt ==
    ASSUME NEW n \in Int
    PROVE  Cast(n) \in -Half .. Half - 1
<1>1. Half \in Int /\ Half > 0
  BY SettingsAssumption
<1>2. ((n + Half) % (2 * Half)) \in 0 .. 2 * Half - 1
  <2>1. n + Half \in Int /\ 2 * Half \in Int /\ 2 * Half > 0
    BY <1>1
  <2>2. \A a \in Int, b \in Int : b > 0 => (a % b) \in 0 .. b - 1
    OBVIOUS
  <2> QED
    BY <2>1, <2>2
<1>3. \A r \in 0 .. 2 * Half - 1 : r - Half \in -Half .. Half - 1
  BY <1>1
<1> QED
  BY <1>2, <1>3 DEF Cast

\* What the library was told is of the options' values: the part of ValuesOK that
\* is of param.
ParamOK ==
    /\ \A n \in Names \ IntOptions : param[n] \in Offers \cup {DeclaredDefault(n), Absent}
    /\ \A n \in IntOptions :
          param[n] = Absent \/ (param[n].kind = "int" /\ param[n].v \in -Half .. Half - 1)

LEMMA SameParam ==
    ASSUME ValuesOK, param' = param, backend' = backend
    PROVE  ParamOK'
BY DEF ValuesOK, ParamOK, DeclaredDefault, CoreDefault, OwnDefault

LEMMA HandedIs ==
    ASSUME Shapes, ValuesOK
    PROVE  /\ \A n \in Names : Handed(n) \in Values
           /\ \A n \in IntOptions :
                 Handed(n).kind = "int" /\ Handed(n).v \in -Half .. Half - 1
           /\ \A n \in Names \ IntOptions : Handed(n) = setting[n]
           /\ \A n \in IntOptions :
                 setting[n].kind = "int" /\ Fits(n) => Handed(n) = setting[n]
<1>1. \A n \in Names : setting[n] \in Values /\ setting[n].v \in Int
  BY DEF Shapes, Values
<1>2. IntOptions \subseteq Names
  BY NamesAre DEF IntOptions
<1>3. \A n \in IntOptions : Cast(setting[n].v) \in -Half .. Half - 1
  BY <1>1, <1>2, CastIsInt
<1>4. \A n \in IntOptions : Cast(setting[n].v) \in Int
  BY <1>3, SettingsAssumption
<1>5. \A n \in IntOptions :
         /\ Handed(n) = [kind |-> "int", v |-> Cast(setting[n].v)]
         /\ Handed(n) \in Values
  BY <1>4, ValuesAre DEF Handed, Int_
<1>6. \A n \in IntOptions :
         setting[n].kind = "int" /\ Fits(n) => Handed(n) = setting[n]
  <2> SUFFICES ASSUME NEW n \in IntOptions, setting[n].kind = "int", Fits(n)
               PROVE  Handed(n) = setting[n]
    OBVIOUS
  <2>1. Cast(setting[n].v) = setting[n].v
    BY DEF Fits
  <2>2. setting[n] = [kind |-> "int", v |-> setting[n].v]
    BY <1>1, <1>2 DEF Values
  <2> QED
    BY <1>5, <2>1, <2>2
<1>7. \A n \in Names \ IntOptions : Handed(n) = setting[n] /\ Handed(n) \in Values
  BY <1>1 DEF Handed
<1>8. \A n \in IntOptions :
         Handed(n).kind = "int" /\ Handed(n).v \in -Half .. Half - 1
  BY <1>3, <1>5
<1> QED
  BY <1>5, <1>6, <1>7, <1>8

LEMMA InitKept == SettingsInit => SettingsInv
<1> SUFFICES ASSUME SettingsInit PROVE SettingsInv
  OBVIOUS
<1>1. \A n \in Names : setting[n] = DeclaredDefault(n)
  BY NamesAre DEF SettingsInit, DeclaredDefault, CoreDefault, OwnDefault, CoreOwn, Flags, Gaps
<1>2. setting = last
  <2>1. setting = [n \in Names |-> setting[n]]
    BY DEF SettingsInit
  <2>2. last = [n \in Names |-> DeclaredDefault(n)]
    BY DEF SettingsInit
  <2> QED
    BY <1>1, <2>1, <2>2
<1>3. Shapes
  <2>1. setting \in [Names -> Values]
    BY <1>1, DefaultsAreValues DEF SettingsInit
  <2>2. param \in [Names -> Values]
    BY ValuesAre DEF SettingsInit, Untold
  <2> QED
    BY <2>1, <2>2 DEF SettingsInit, Shapes, Ages
<1>4. ValuesOK
  <2>1. /\ \A n \in Flags : setting[n].kind = "bool"
        /\ setting["threads"].kind = "int" /\ setting["threads"].v >= 1
        /\ setting["time_limit"] = Absent
        /\ setting["random_seed"].kind = "absent"
    BY <1>1, NamesAre DEF DeclaredDefault, CoreDefault, CoreOwn, Flags, Bool, Int_, Absent
  <2>2. /\ \A n \in Gaps : setting[n].kind = "float" /\ setting[n] = OwnDefault[n]
        /\ \A n \in {"write_model", "dll"} : setting[n].kind = "string"
    BY <1>1, NamesAre DEF DeclaredDefault, OwnDefault, CoreOwn, Flags, Gaps, Float, Str
  <2>3. /\ \A n \in Names : param[n] = Absent
        /\ IntOptions \subseteq Names
    BY NamesAre DEF SettingsInit, Untold, IntOptions
  <2>4. \A m \in DOMAIN stat \ {"haveBound"} : stat[m] \in {"never", "earlier", "last"}
    BY DEF SettingsInit
  <2>5. backend \in Backends /\ lib \in {"unknown", "loaded", "failed"}
    BY DEF SettingsInit
  <2> QED
    BY <2>1, <2>2, <2>3, <2>4, <2>5 DEF SettingsInit, ValuesOK
<1>5. SearchHasOptions /\ BoundIsLast
  BY DEF SettingsInit, SearchHasOptions, BoundIsLast
<1> QED
  BY <1>1, <1>2, <1>3, <1>4, <1>5 DEF SettingsInv, SetLast, Offered

-----------------------------------------------------------------------------
\* An option takes a value of its own range only.
LEMMA OptionSetKept ==
    ASSUME NEW name \in Names \cup {"unknown"}, NEW value \in Offers,
           SettingsInv, OptionSet(name, value)
    PROVE  SettingsInv'
<1>1. name \in Names
  BY NamesAre DEF OptionSet, Accepts, CoreAccepts, OwnAccepts, Flags, Gaps
<1>2. /\ setting' = [setting EXCEPT ![name] = value]
      /\ last' = [last EXCEPT ![name] = value]
      /\ ~searching /\ searching' = searching
      /\ UNCHANGED <<backend, param, parallel, callbacks, stat, goal>>
      /\ lib' \in {"unknown", "loaded", "failed"}
  BY DEF OptionSet, Member, kept, SettingsInv, ValuesOK, Asked
<1>3. Shapes' /\ SetLast'
  BY <1>1, <1>2, OffersAreValues DEF SettingsInv, Shapes, SetLast
<1>4. \A n \in Names : setting'[n] = IF n = name THEN value ELSE setting[n]
  BY <1>1, <1>2 DEF SettingsInv, Shapes
<1>5. Offered'
  BY <1>2, <1>4 DEF SettingsInv, Offered, DeclaredDefault, CoreDefault, OwnDefault
<1>6. ValuesOK'
  <2>1. \A n \in Flags : setting'[n].kind = "bool"
    <3> SUFFICES ASSUME NEW n \in Flags PROVE setting'[n].kind = "bool"
      OBVIOUS
    <3>1. CASE n = name
      BY <1>4, <3>1, NamesAre DEF OptionSet, Accepts, CoreAccepts, OwnAccepts, Flags, Gaps
    <3>2. CASE n # name
      BY <1>4, <3>2, NamesAre DEF SettingsInv, ValuesOK, Flags
    <3> QED
      BY <3>1, <3>2
  <2>2. setting'["threads"].kind = "int" /\ setting'["threads"].v >= 1
    BY <1>4, NamesAre DEF OptionSet, Accepts, CoreAccepts, OwnAccepts, Flags, Gaps, SettingsInv, ValuesOK
  <2>3. setting'["time_limit"] = Absent
            \/ (setting'["time_limit"].kind = "int" /\ setting'["time_limit"].v > 0)
    <3>1. CASE name = "time_limit"
      <4>1. value.kind = "absent" \/ (value.kind = "int" /\ value.v > 0)
        BY <3>1 DEF OptionSet, Accepts, CoreAccepts, OwnAccepts, Flags, Gaps
      <4> QED
        BY <1>4, <3>1, <4>1, NamesAre, SettingsAssumption
    <3>2. CASE name # "time_limit"
      BY <1>4, <3>2, NamesAre DEF SettingsInv, ValuesOK
    <3> QED
      BY <3>1, <3>2
  <2>4. setting'["random_seed"].kind \in {"absent", "int"}
    BY <1>4, NamesAre DEF OptionSet, Accepts, CoreAccepts, OwnAccepts, Flags, Gaps, SettingsInv, ValuesOK
  <2>5. \A n \in Gaps :
           setting'[n].kind = "float" /\ (setting'[n].v >= 0 \/ setting'[n] = OwnDefault[n])
    <3> SUFFICES ASSUME NEW n \in Gaps
                 PROVE  /\ setting'[n].kind = "float"
                        /\ setting'[n].v >= 0 \/ setting'[n] = OwnDefault[n]
      OBVIOUS
    <3>1. CASE n = name
      BY <1>4, <3>1, NamesAre DEF OptionSet, Accepts, CoreAccepts, OwnAccepts, Flags, Gaps
    <3>2. CASE n # name
      BY <1>4, <3>2, NamesAre DEF SettingsInv, ValuesOK, Gaps
    <3> QED
      BY <3>1, <3>2
  <2>6. \A n \in {"write_model", "dll"} : setting'[n].kind = "string"
    BY <1>4, NamesAre DEF OptionSet, Accepts, CoreAccepts, OwnAccepts, Flags, Gaps, SettingsInv, ValuesOK
  <2>7. ParamOK'
    BY <1>2, SameParam DEF SettingsInv
  <2>8. \A m \in DOMAIN stat' \ {"haveBound"} : stat'[m] \in {"never", "earlier", "last"}
    BY <1>2 DEF SettingsInv, ValuesOK
  <2>9. /\ backend' \in Backends /\ lib' \in {"unknown", "loaded", "failed"}
        /\ callbacks' \subseteq {"interrupt", "log", "solution"}
        /\ goal' \in {"none", "int", "float"}
    BY <1>2 DEF SettingsInv, ValuesOK
  <2>10. parallel' \in BOOLEAN /\ searching' \in BOOLEAN
    BY <1>2, Zenon DEF SettingsInv, ValuesOK
  <2> QED
    BY <2>1, <2>2, <2>3, <2>4, <2>5, <2>6, <2>7, <2>8, <2>9, <2>10
    DEF ValuesOK, ParamOK, DeclaredDefault, CoreDefault, OwnDefault
<1>7. SearchHasOptions' /\ BoundIsLast'
  BY <1>2 DEF SearchHasOptions, BoundIsLast, SettingsInv
<1> QED
  BY <1>3, <1>5, <1>6, <1>7 DEF SettingsInv

-----------------------------------------------------------------------------
\* What a step that sets no option and tells the library nothing leaves to show.
LEMMA SameSettings ==
    ASSUME SettingsInv, UNCHANGED <<backend, setting, last, param, parallel>>,
           lib' \in {"unknown", "loaded", "failed"},
           stat' \in [objective : Ages, bound : Ages, haveBound : BOOLEAN, time : Ages, nodes : Ages],
           goal' \in {"none", "int", "float"}, searching' \in BOOLEAN,
           callbacks' \subseteq {"interrupt", "log", "solution"}
    PROVE  Shapes' /\ SetLast' /\ Offered' /\ ValuesOK'
<1>1. Shapes' /\ SetLast'
  BY DEF SettingsInv, Shapes, SetLast
<1>2. Offered'
  BY DEF SettingsInv, Offered, DeclaredDefault, CoreDefault, OwnDefault
<1>3. \A m \in DOMAIN stat' \ {"haveBound"} : stat'[m] \in {"never", "earlier", "last"}
  BY DEF Ages
<1>4. parallel' \in BOOLEAN
  BY Zenon DEF SettingsInv, ValuesOK
<1>5. /\ \A n \in Flags : setting'[n].kind = "bool"
      /\ setting'["threads"].kind = "int" /\ setting'["threads"].v >= 1
      /\ setting'["time_limit"] = Absent
             \/ (setting'["time_limit"].kind = "int" /\ setting'["time_limit"].v > 0)
      /\ setting'["random_seed"].kind \in {"absent", "int"}
      /\ \A n \in Gaps :
            setting'[n].kind = "float" /\ (setting'[n].v >= 0 \/ setting'[n] = OwnDefault[n])
      /\ \A n \in {"write_model", "dll"} : setting'[n].kind = "string"
      /\ backend' \in Backends
  BY DEF SettingsInv, ValuesOK
<1>6. ValuesOK'
  <2>1. ParamOK'
    BY SameParam DEF SettingsInv
  <2> QED
    BY <1>3, <1>4, <1>5, <2>1 DEF ParamOK, ValuesOK, DeclaredDefault, CoreDefault, OwnDefault
<1> QED
  BY <1>1, <1>2, <1>6

LEMMA RunEndsEarlyKept ==
    ASSUME SettingsInv, RunEndsEarly
    PROVE  SettingsInv'
<1>1. /\ ~searching /\ searching' = searching
      /\ UNCHANGED <<backend, setting, last, param, parallel, callbacks, stat, goal>>
      /\ lib' \in {"unknown", "loaded", "failed"}
  BY DEF RunEndsEarly, kept, SettingsInv, ValuesOK, Asked
<1>2. Shapes' /\ SetLast' /\ Offered' /\ ValuesOK'
  <2>1. /\ goal' \in {"none", "int", "float"}
        /\ callbacks' \subseteq {"interrupt", "log", "solution"}
    BY <1>1 DEF SettingsInv, ValuesOK
  <2>2. searching' \in BOOLEAN
    BY <1>1, Zenon DEF SettingsInv, ValuesOK
  <2>3. stat' \in [objective : Ages, bound : Ages, haveBound : BOOLEAN, time : Ages, nodes : Ages]
    BY <1>1 DEF SettingsInv, Shapes
  <2> QED
    BY <1>1, <2>1, <2>2, <2>3, SameSettings
<1>3. SearchHasOptions' /\ BoundIsLast'
  BY <1>1 DEF SearchHasOptions, BoundIsLast, SettingsInv
<1> QED
  BY <1>2, <1>3 DEF SettingsInv

\* A search that goes on or ends: options and library as they were.
LEMMA SearchStepKept ==
    ASSUME SettingsInv, Bound \/ Solution \/ SearchEnds
    PROVE  SettingsInv'
<1>1. /\ UNCHANGED <<backend, lib, setting, last, param, parallel, goal>>
      /\ searching' => searching /\ callbacks' = callbacks
      /\ callbacks' = callbacks \/ callbacks' = {}
  BY DEF Bound, Solution, SearchEnds, kept
<1>2. searching' \in BOOLEAN
  BY Zenon DEF Bound, Solution, SearchEnds, SettingsInv, ValuesOK
<1>3. /\ stat' \in [objective : Ages, bound : Ages, haveBound : BOOLEAN, time : Ages, nodes : Ages]
      /\ BoundIsLast'
  <2>1. CASE Bound
    BY <2>1 DEF Bound, SettingsInv, Shapes, BoundIsLast, Ages
  <2>2. CASE Solution
    BY <2>2 DEF Solution, SettingsInv, Shapes, BoundIsLast, Ages
  <2>3. CASE SearchEnds
    BY <2>3 DEF SearchEnds, SettingsInv, Shapes, BoundIsLast, Ages
  <2> QED
    BY <2>1, <2>2, <2>3
<1>4. Shapes' /\ SetLast' /\ Offered' /\ ValuesOK'
  <2>1. /\ goal' \in {"none", "int", "float"} /\ lib' \in {"unknown", "loaded", "failed"}
        /\ callbacks' \subseteq {"interrupt", "log", "solution"}
    BY <1>1 DEF SettingsInv, ValuesOK
  <2> QED
    BY <1>1, <1>2, <1>3, <2>1, SameSettings
<1>5. SearchHasOptions'
  BY <1>1 DEF SettingsInv, SearchHasOptions, HasValue, Fits, Effective
<1> QED
  BY <1>3, <1>4, <1>5 DEF SettingsInv

-----------------------------------------------------------------------------
\* Telling the library again: what it is told is what is set, or what it was
\* told before of an option that has no value.
LEMMA HighsToldTypes ==
    ASSUME SettingsInv, HighsTold
    PROVE  /\ \A n \in Names : param'[n] \in {Handed(n), param[n]}
           /\ param' \in [Names -> Values]
           /\ parallel' \in BOOLEAN
           /\ callbacks' \subseteq {"interrupt", "log", "solution"}
<1>1. \A n \in Names : param'[n] \in {Handed(n), param[n]}
  BY DEF HighsTold, HighsParam
<1>2. param' \in [Names -> Values]
  <2>1. \A n \in Names : HighsParam(n) \in Values
    BY HandedIs DEF SettingsInv, Shapes, HighsParam
  <2> QED
    BY <2>1 DEF HighsTold
<1>3. parallel' \in BOOLEAN
  BY DEF HighsTold, Parallel
<1>4. callbacks' \subseteq {"interrupt", "log", "solution"}
  BY DEF HighsTold, HighsCallbacks
<1> QED
  BY <1>1, <1>2, <1>3, <1>4

\* A random seed is an integer or there is none.
LEMMA NoSeed ==
    ASSUME SettingsInv, setting["random_seed"] # Absent
    PROVE  setting["random_seed"].kind = "int"
<1>1. setting["random_seed"] \in Offers \cup {Absent}
  BY NamesAre DEF SettingsInv, Offered, DeclaredDefault, CoreDefault, CoreOwn
<1> QED
  BY <1>1, SettingsAssumption DEF SettingsInv, ValuesOK

LEMMA HighsToldHas ==
    ASSUME SettingsInv, HighsTold, backend = "highs"
    PROVE  /\ \A n \in {"threads", "time_limit", "random_seed"} \cup Gaps :
                 HasValue(n) /\ Fits(n) =>
                    (IF n = "threads" THEN (IF parallel' THEN param'[n] ELSE Int_(1))
                     ELSE param'[n]) = setting[n]
           /\ "solution" \in callbacks' <=> setting["intermediate"] = Bool(1)
           /\ "log" \in callbacks' => setting["verbose"] = Bool(1)
<1>1. \A n \in {"time_limit", "random_seed"} \cup Gaps :
         HasValue(n) /\ Fits(n) => param'[n] = setting[n]
  <2>1. \A n \in {"time_limit", "random_seed"} \cup Gaps : HasValue(n) => param'[n] = Handed(n)
    BY NamesAre DEF HighsTold, HighsParam, Gaps
  <2>2. HasValue("random_seed") => setting["random_seed"].kind = "int"
    BY NoSeed DEF HasValue, Gaps
  <2> QED
    BY <2>1, <2>2, HandedIs, NamesAre DEF SettingsInv, IntOptions, Gaps
<1>2. Fits("threads") =>
         (IF parallel' THEN param'["threads"] ELSE Int_(1)) = setting["threads"]
  <2> SUFFICES ASSUME Fits("threads")
               PROVE  (IF parallel' THEN param'["threads"] ELSE Int_(1)) = setting["threads"]
    OBVIOUS
  <2>1. CASE setting["threads"].v > 1
    <3>1. parallel'
      BY <2>1 DEF HighsTold, Parallel
    <3>2. param'["threads"] = HighsParam("threads")
      BY NamesAre DEF HighsTold
    <3>3. HighsParam("threads") = setting["threads"]
      BY <2>1, HandedIs DEF HighsParam, Gaps, IntOptions, SettingsInv, ValuesOK
    <3> QED
      BY <3>1, <3>2, <3>3
  <2>2. CASE ~(setting["threads"].v > 1)
    <3>1. setting["threads"].v = 1 /\ setting["threads"].kind = "int"
      BY <2>2, NamesAre DEF SettingsInv, ValuesOK, Shapes, Values
    <3>2. setting["threads"] = Int_(1)
      BY <3>1, NamesAre DEF SettingsInv, Shapes, Values, Int_
    <3> QED
      BY <2>2, <3>2 DEF HighsTold, Parallel
  <2> QED
    BY <2>1, <2>2
<1>3. /\ "solution" \in callbacks' <=> setting["intermediate"] = Bool(1)
      /\ "log" \in callbacks' => setting["verbose"] = Bool(1)
  BY DEF HighsTold, HighsCallbacks
<1> QED
  BY <1>1, <1>2, <1>3 DEF Gaps

LEMMA GurobiToldTypes ==
    ASSUME SettingsInv, GurobiTold
    PROVE  /\ \A n \in Names : param'[n] \in {Handed(n), setting[n], param[n], Absent}
           /\ \A n \in IntOptions : param'[n] \in {Handed(n), param[n], Absent}
           /\ param' \in [Names -> Values]
           /\ UNCHANGED <<parallel, callbacks>>
<1>1. PICK before \in {param, Untold} : param' = [n \in Names |-> GurobiParam(n, before[n])]
  BY DEF GurobiTold
<1>2. \A n \in Names : before[n] \in {param[n], Absent}
  BY <1>1 DEF Untold
<1>3. /\ \A n \in Names :
            GurobiParam(n, before[n]) \in {Handed(n), setting[n], param[n], Absent}
      /\ \A n \in IntOptions : GurobiParam(n, before[n]) \in {Handed(n), param[n], Absent}
      /\ IntOptions \subseteq Names
  BY <1>2, NamesAre DEF GurobiParam, IntOptions
<1>4. \A n \in Names : {Handed(n), setting[n], param[n], Absent} \subseteq Values
  BY ValuesAre, HandedIs DEF SettingsInv, Shapes
<1> QED
  BY <1>1, <1>3, <1>4 DEF GurobiTold

LEMMA GurobiToldHas ==
    ASSUME SettingsInv, GurobiTold
    PROVE  /\ \A n \in {"threads", "time_limit", "random_seed"} \cup Gaps :
                 HasValue(n) /\ Fits(n) => param'[n] = setting[n]
           /\ setting["all_solutions"] = Bool(1) => param'["all_solutions"] = Bool(1)
<1>1. PICK before \in {param, Untold} : param' = [n \in Names |-> GurobiParam(n, before[n])]
  BY DEF GurobiTold
<1>2. \A n \in {"threads", "time_limit", "random_seed"} \cup Gaps :
         HasValue(n) => param'[n] = Handed(n)
  BY <1>1, NamesAre DEF GurobiParam, Gaps
<1>3. /\ setting["threads"].kind = "int"
      /\ HasValue("random_seed") => setting["random_seed"].kind = "int"
  BY NoSeed DEF HasValue, Gaps, SettingsInv, ValuesOK
<1>4. \A n \in {"threads", "time_limit", "random_seed"} \cup Gaps :
         HasValue(n) /\ Fits(n) => Handed(n) = setting[n]
  BY <1>3, HandedIs, NamesAre DEF SettingsInv, IntOptions, Gaps
<1>5. setting["all_solutions"] = Bool(1) => param'["all_solutions"] = Bool(1)
  BY <1>1, NamesAre DEF GurobiParam, Gaps
<1> QED
  BY <1>2, <1>4, <1>5

\* A run that comes to the search.
LEMMA RunBuiltKept ==
    ASSUME SettingsInv, RunBuilt
    PROVE  SettingsInv'
<1>1. /\ UNCHANGED <<backend, setting, last>>
      /\ lib' \in {"unknown", "loaded", "failed"}
      /\ goal' \in {"none", "int", "float"} /\ searching' = TRUE
  BY DEF RunBuilt, SettingsInv, ValuesOK, Asked
<1>2. /\ stat' \in [objective : Ages, bound : Ages, haveBound : BOOLEAN, time : Ages, nodes : Ages]
      /\ stat'.haveBound = FALSE
  <2>1. \A m \in {"objective", "bound", "time", "nodes"} : Aged(stat[m]) \in Ages
    BY DEF SettingsInv, Shapes, Ages, Aged
  <2>2. Older \in [objective : Ages, bound : Ages, haveBound : BOOLEAN, time : Ages, nodes : Ages]
    <3>1. DOMAIN stat = {"objective", "bound", "haveBound", "time", "nodes"}
      BY DEF SettingsInv, Shapes
    <3>2. stat.haveBound \in BOOLEAN
      BY DEF SettingsInv, Shapes
    <3> QED
      BY <2>1, <3>1, <3>2 DEF Older
  <2> QED
    BY <2>2 DEF RunBuilt, StatisticsAtBuild
<1>3. /\ \A n \in Names : param'[n] \in {Handed(n), setting[n], param[n], Absent}
      /\ \A n \in IntOptions : param'[n] \in {Handed(n), param[n], Absent}
      /\ param' \in [Names -> Values]
      /\ parallel' \in BOOLEAN
      /\ callbacks' \subseteq {"interrupt", "log", "solution"}
  <2>1. CASE lib' = "failed"
    <3>1. UNCHANGED <<param, parallel, callbacks>>
      BY <2>1 DEF RunBuilt, kept
    <3>2. parallel' \in BOOLEAN
      BY <3>1, Zenon DEF SettingsInv, ValuesOK
    <3> QED
      BY <3>1, <3>2 DEF SettingsInv, ValuesOK, Shapes
  <2>2. CASE lib' # "failed" /\ backend = "highs"
    <3>1. IntOptions \subseteq Names
      BY NamesAre DEF IntOptions
    <3> QED
      BY <2>2, <3>1, HighsToldTypes DEF RunBuilt
  <2>3. CASE lib' # "failed" /\ backend # "highs"
    <3>1. GurobiTold
      BY <2>3 DEF RunBuilt
    <3>2. parallel' \in BOOLEAN
      BY <3>1, GurobiToldTypes, Zenon DEF SettingsInv, ValuesOK
    <3> QED
      BY <3>1, <3>2, GurobiToldTypes DEF SettingsInv, ValuesOK
  <2> QED
    BY <2>1, <2>2, <2>3
<1>4. Shapes' /\ SetLast' /\ Offered'
  <2>1. Shapes' /\ SetLast'
    BY <1>1, <1>2, <1>3 DEF SettingsInv, Shapes, SetLast
  <2>2. Offered'
    BY <1>1 DEF SettingsInv, Offered, DeclaredDefault, CoreDefault, OwnDefault
  <2> QED
    BY <2>1, <2>2
<1>5. ValuesOK'
  <2>1. /\ \A n \in Flags : setting'[n].kind = "bool"
        /\ setting'["threads"].kind = "int" /\ setting'["threads"].v >= 1
        /\ setting'["time_limit"] = Absent
               \/ (setting'["time_limit"].kind = "int" /\ setting'["time_limit"].v > 0)
        /\ setting'["random_seed"].kind \in {"absent", "int"}
        /\ \A n \in Gaps :
              setting'[n].kind = "float" /\ (setting'[n].v >= 0 \/ setting'[n] = OwnDefault[n])
        /\ \A n \in {"write_model", "dll"} : setting'[n].kind = "string"
        /\ backend' \in Backends
    BY <1>1 DEF SettingsInv, ValuesOK
  <2>2. \A n \in Names \ IntOptions : param'[n] \in Offers \cup {DeclaredDefault(n), Absent}
    <3> SUFFICES ASSUME NEW n \in Names \ IntOptions
                 PROVE  param'[n] \in Offers \cup {DeclaredDefault(n), Absent}
      OBVIOUS
    <3>1. setting[n] \in Offers \cup {DeclaredDefault(n)}
      BY DEF SettingsInv, Offered
    <3>2. param[n] \in Offers \cup {DeclaredDefault(n), Absent}
      BY DEF SettingsInv, ValuesOK
    <3>3. Handed(n) = setting[n]
      BY DEF Handed
    <3> QED
      BY <1>3, <3>1, <3>2, <3>3
  <2>4. \A n \in IntOptions :
           param'[n] = Absent \/ (param'[n].kind = "int" /\ param'[n].v \in -Half .. Half - 1)
    BY <1>3, HandedIs DEF SettingsInv, ValuesOK
  <2>3. \A m \in DOMAIN stat' \ {"haveBound"} : stat'[m] \in {"never", "earlier", "last"}
    BY <1>2 DEF Ages
  <2> QED
    BY <1>1, <1>3, <2>1, <2>2, <2>3, <2>4 DEF ValuesOK, DeclaredDefault, CoreDefault, OwnDefault
<1>6. SearchHasOptions'
  <2> SUFFICES ASSUME lib' = "loaded" PROVE SearchHasOptions'
    BY DEF SearchHasOptions
  <2>1. backend \in {"highs", "gurobi"}
    BY BackendsAssumption DEF SettingsInv, ValuesOK
  <2>2. CASE backend = "highs"
    BY <1>1, <2>2, HighsToldHas DEF RunBuilt, SearchHasOptions, HasValue, Fits, Effective, Gaps, Int_
  <2>3. CASE backend = "gurobi"
    BY <1>1, <2>3, GurobiToldHas DEF RunBuilt, SearchHasOptions, HasValue, Fits, Effective
  <2> QED
    BY <2>1, <2>2, <2>3
<1>7. BoundIsLast'
  BY <1>2 DEF BoundIsLast
<1> QED
  BY <1>4, <1>5, <1>6, <1>7 DEF SettingsInv

-----------------------------------------------------------------------------
THEOREM SettingsInvariance == SettingsSpec => []SettingsInv
<1>1. SettingsInit => SettingsInv
  BY InitKept
<1>2. SettingsInv /\ [SettingsNext]_settings => SettingsInv'
  <2> SUFFICES ASSUME SettingsInv, [SettingsNext]_settings PROVE SettingsInv'
    OBVIOUS
  <2>1. CASE UNCHANGED settings
    <3>1. /\ UNCHANGED <<backend, setting, last, param, parallel, lib, stat, goal, callbacks>>
          /\ searching' = searching
      BY <2>1 DEF settings, kept
    <3>2. /\ searching' \in BOOLEAN
      BY <3>1, Zenon DEF SettingsInv, ValuesOK
    <3>3. Shapes' /\ SetLast' /\ Offered' /\ ValuesOK'
      BY <3>1, <3>2, SameSettings DEF SettingsInv, ValuesOK, Shapes
    <3>4. SearchHasOptions' /\ BoundIsLast'
      BY <3>1 DEF SettingsInv, SearchHasOptions, BoundIsLast, HasValue, Fits, Effective
    <3> QED
      BY <3>3, <3>4 DEF SettingsInv
  <2>2. CASE \E name \in Names \cup {"unknown"}, value \in Offers : OptionSet(name, value)
    BY <2>2, OptionSetKept
  <2>3. CASE \E name \in Names \cup {"unknown"}, value \in Offers : OptionRejected(name, value)
    BY <2>1, <2>3 DEF OptionRejected
  <2>4. CASE RunEndsEarly
    BY <2>4, RunEndsEarlyKept
  <2>5. CASE RunBuilt
    BY <2>5, RunBuiltKept
  <2>6. CASE Bound \/ Solution \/ SearchEnds
    BY <2>6, SearchStepKept
  <2> QED
    BY <2>1, <2>2, <2>3, <2>4, <2>5, <2>6 DEF SettingsNext
<1> QED
  BY <1>1, <1>2, PTL DEF SettingsSpec

\* Whatever the caller offers, every member stays in its option's range, and the
\* library is told only what was offered or declared, or the int it was cut to.
THEOREM SettingsTypeOK == SettingsSpec => []ValuesOK
<1>1. SettingsInv => ValuesOK
  BY DEF SettingsInv
<1> QED
  BY <1>1, SettingsInvariance, PTL

\* What a caller reads of an option is what it last set, or the declared default.
THEOREM OptionsReadBackAlways == SettingsSpec => []OptionsReadBack
<1>1. SettingsInv => OptionsReadBack
  <2> SUFFICES ASSUME SettingsInv, NEW n \in DeclaredOptions PROVE OptionGet(n) = last[n]
    BY DEF OptionsReadBack
  <2>1. n \in CoreOwn \cup {"write_model"} \cup Gaps \/ backend = "gurobi"
    BY DEF DeclaredOptions, SolutionPool, CoreOwn
  <2> QED
    BY <2>1 DEF SettingsInv, SetLast, OptionGet
<1> QED
  BY <1>1, SettingsInvariance, PTL

\* A search has every option that has a value, and one that the library's type
\* holds, after any number of runs.
THEOREM SearchHasOptionsAlways == SettingsSpec => []SearchHasOptions
<1>1. SettingsInv => SearchHasOptions
  BY DEF SettingsInv
<1> QED
  BY <1>1, SettingsInvariance, PTL

\* What can be read is declared, and a bound is of the last search.
THEOREM StatisticsAlways == SettingsSpec => []StatisticsOfSearch
<1>1. SettingsInv => StatisticsOfSearch
  <2> SUFFICES ASSUME SettingsInv PROVE StatisticsOfSearch
    OBVIOUS
  <2>1. backend \in {"highs", "gurobi"} /\ goal \in {"none", "int", "float"}
    BY BackendsAssumption DEF SettingsInv, ValuesOK
  <2>2. Answers \subseteq DeclaredStatistics
    BY <2>1 DEF Answers, CoreAnswers, HighsAnswers, GurobiAnswers, DeclaredStatistics,
                ObjectiveName, BoundOf
  <2>3. \A kind \in {"int", "float"} :
           BoundOf(kind) \in Answers => stat.haveBound /\ goal \in {kind, "none"}
    BY <2>1 DEF Answers, CoreAnswers, HighsAnswers, GurobiAnswers, ObjectiveName, BoundOf
  <2> QED
    BY <2>2, <2>3 DEF StatisticsOfSearch, SettingsInv, BoundIsLast
<1> QED
  BY <1>1, SettingsInvariance, PTL

=============================================================================
