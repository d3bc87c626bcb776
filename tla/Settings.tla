------------------------------ MODULE Settings ------------------------------
(***************************************************************************)
(* What a caller sets on a solver and reads from it: the options and       *)
(* statistics of MipSolver (src/src/mip_solver.cpp), of HighsBackend and   *)
(* GurobiBackend, and what Declarations (src/src/signatures.cpp) says of   *)
(* them.  The solver and the library below it outlive a run: the library   *)
(* keeps what it was told, and the members what an earlier run left.       *)
(*                                                                         *)
(* A statistic is which search wrote it: the last one, an earlier one or   *)
(* none; a value is its kind and a small number that stands for it.  Names *)
(* of a backend's own options and statistics come without its prefix.      *)
(***************************************************************************)
EXTENDS Solver

CONSTANTS
    Offers,         \* the values a caller offers to options
    Half,           \* 2^31 in the code: an int is one of -Half .. Half - 1
    MaxSets         \* bound: options set in all

Absent    == [kind |-> "absent", v |-> 0]
Bool(v)   == [kind |-> "bool", v |-> v]
Int_(v)   == [kind |-> "int", v |-> v]
Float(v)  == [kind |-> "float", v |-> v]    \* in units of 1e-8, negative: any negative
Str(v)    == [kind |-> "string", v |-> v]   \* 0: the empty string

ASSUME SettingsAssumption ==
    /\ Offers \subseteq [kind : {"absent", "bool", "int", "float", "string"}, v : Int]
    /\ \A value \in Offers : value.kind = "absent" => value = Absent
    /\ Half \in Nat \ {0}
    /\ MaxSets \in Nat

Flags    == {"intermediate", "verbose", "all_solutions"}
CoreOwn  == Flags \cup {"threads", "time_limit", "random_seed"}
Gaps     == {"abs_gap", "rel_gap", "int_tol"}
Names    == CoreOwn \cup Gaps \cup {"write_model", "dll"}

VARIABLES
    lib,            \* GurobiBackend: not asked for yet, loaded, or it could not be
    setting,        \* options_ and the backend's own members
    param,          \* what the library was told
    parallel,       \* HiGHS: its option "parallel"
    callbacks,      \* HiGHS: the callbacks that are started
    searching,
    stat,           \* the members a statistic is read from
    goal,           \* the kind of the run's objective, after the first search's start
    sets,           \* bound: how many options were set
    last            \* auxiliary: what the caller last set each option to

kept     == <<param, parallel, callbacks>>
settings == <<backend, lib, setting, kept, searching, stat, goal, sets, last>>

-----------------------------------------------------------------------------
(* Declarations.                                                           *)
SolutionPool == backend = "gurobi"

CoreDefault ==
    [intermediate |-> Bool(0), threads |-> Int_(1), time_limit |-> Absent,
     random_seed |-> Absent, verbose |-> Bool(0), all_solutions |-> Bool(0)]

OwnDefault ==
    [write_model |-> Str(0), abs_gap |-> Float(-1), rel_gap |-> Float(1), int_tol |-> Float(1),
     dll |-> Str(0)]

DeclaredDefault(name) == IF name \in CoreOwn THEN CoreDefault[name] ELSE OwnDefault[name]

DeclaredOptions ==
    (CoreOwn \ {"all_solutions"}) \cup {"write_model"} \cup Gaps
        \cup (IF SolutionPool THEN {"all_solutions"} ELSE {})
        \cup (IF backend = "gurobi" THEN {"dll"} ELSE {})

DeclaredStatistics ==
    {"solutions", "nodes", "decisions", "constraints", "init_time", "solve_time",
     "int_objective", "int_objective_bound", "float_objective", "float_objective_bound"}
        \cup (IF backend = "gurobi"
              THEN {"open_nodes", "mip_gap", "simplex_iterations", "work"} ELSE {})

-----------------------------------------------------------------------------
(* Options.                                                                *)

\* Faulty: any number of threads will do.
AcceptsAnyCount(name, value) ==
    \/ name \in Flags /\ value.kind = "bool"
    \/ name = "threads" /\ value.kind = "int"
    \/ name = "time_limit" /\ (value.kind = "absent" \/ (value.kind = "int" /\ value.v > 0))
    \/ name = "random_seed" /\ value.kind \in {"absent", "int"}

\* option_set, of the core's options: is the value one of them?
CoreAccepts(name, value) ==
    \/ name \in Flags /\ value.kind = "bool"
    \/ name = "threads" /\ value.kind = "int" /\ value.v >= 1
    \/ name = "time_limit" /\ (value.kind = "absent" \/ (value.kind = "int" /\ value.v > 0))
    \/ name = "random_seed" /\ value.kind \in {"absent", "int"}

\* ... and of a backend's own.
OwnAccepts(name, value) ==
    \/ name = "write_model" /\ value.kind = "string"
    \/ name \in Gaps /\ value.kind = "float" /\ value.v >= 0
    \/ name = "dll" /\ backend = "gurobi" /\ value.kind = "string"

Accepts(name, value) == CoreAccepts(name, value) \/ OwnAccepts(name, value)

\* Faulty: any gap that is not the absolute one is the relative one.
MemberOfTwo(name) == IF name = "int_tol" THEN "rel_gap" ELSE name

\* The member an option is kept in.
Member(name) == name

Asked == IF lib = "unknown" THEN {"loaded", "failed"} ELSE {lib}

\* A rejected value changes nothing.  Gurobi's own options but the library's path
\* load it, and keep the value whatever comes of that.
OptionSet(name, value) ==
    /\ ~searching
    /\ sets < MaxSets /\ Accepts(name, value)
    /\ setting' = [setting EXCEPT ![Member(name)] = value]
    /\ IF backend = "gurobi" /\ name \notin CoreOwn
       THEN IF name = "dll" THEN lib' = (IF lib = "failed" THEN "unknown" ELSE lib)
            ELSE lib' \in Asked
       ELSE UNCHANGED lib
    /\ last' = [last EXCEPT ![name] = value]
    /\ sets' = sets + 1
    /\ UNCHANGED <<backend, kept, searching, stat, goal>>

OptionRejected(name, value) ==
    /\ ~searching
    /\ ~Accepts(name, value)
    /\ UNCHANGED settings

\* option_get.
OptionGet(name) ==
    IF name \in CoreOwn \cup {"write_model"} \cup Gaps \/ backend = "gurobi"
    THEN setting[name] ELSE Absent

-----------------------------------------------------------------------------
(* What solve tells the library: an option that has a value, and nothing of *)
(* one that has none.                                                      *)
HasValue(name) ==
    IF name \in Gaps THEN setting[name].v >= 0 ELSE setting[name] # Absent

\* static_cast<int> of an int64, and static_cast<HighsInt>.
Cast(n) == ((n + Half) % (2 * Half)) - Half

\* The options that a library takes as an int.
IntOptions == {"threads", "random_seed"}

\* What is handed to the library for an option that has a value.
Handed(name) ==
    IF name \in IntOptions THEN Int_(Cast(setting[name].v)) ELSE setting[name]

HighsParam(name) ==
    CASE name = "threads" -> IF setting[name].v > 1 THEN Handed(name) ELSE param[name]
      [] name \in {"time_limit", "random_seed"} \cup Gaps ->
            IF HasValue(name) THEN Handed(name) ELSE param[name]
      [] OTHER -> param[name]

\* Faulty: parallel mode is switched on only.
ParallelStays == parallel \/ setting["threads"].v > 1

Parallel == setting["threads"].v > 1

\* Callbacks run for one search; the interrupt's always does.
HighsCallbacks(wanted) ==
    {"interrupt"} \cup (IF setting["verbose"] = Bool(1) /\ wanted THEN {"log"} ELSE {})
                  \cup (IF setting["intermediate"] = Bool(1) THEN {"solution"} ELSE {})

HighsTold ==
    /\ param' = [n \in Names |-> HighsParam(n)]
    /\ parallel' = Parallel
    /\ \E wanted \in BOOLEAN : callbacks' = HighsCallbacks(wanted)

GurobiParam(name, before) ==
    CASE name = "threads" -> Handed(name)
      [] name \in {"time_limit", "random_seed"} \cup Gaps ->
            IF HasValue(name) THEN Handed(name) ELSE before
      [] name = "all_solutions" -> IF setting[name] = Bool(1) THEN setting[name] ELSE before
      [] OTHER -> before

\* A model that was made anew has no parameters of the one before.
Untold == [n \in Names |-> Absent]

GurobiTold ==
    /\ \E before \in {param, Untold} :
          param' = [n \in Names |-> GurobiParam(n, before[n])]
    /\ UNCHANGED <<parallel, callbacks>>

\* What a search has of an option.
Effective(name) ==
    IF name = "threads" /\ backend = "highs"
    THEN (IF parallel THEN param[name] ELSE Int_(1)) ELSE param[name]

-----------------------------------------------------------------------------
(* Runs, and what they leave to be read.                                   *)
SettingsInit ==
    /\ backend \in Backends
    /\ lib = IF backend = "highs" THEN "loaded" ELSE "unknown"
    /\ setting = [n \in Names |-> IF n = "threads" THEN Int_(1)
                                  ELSE IF n \in Flags THEN Bool(0)
                                  ELSE IF n \in {"time_limit", "random_seed"} THEN Absent
                                  ELSE IF n = "abs_gap" THEN Float(-1)
                                  ELSE IF n \in Gaps THEN Float(1) ELSE Str(0)]
    /\ param = Untold /\ parallel = FALSE /\ callbacks = {}
    /\ searching = FALSE /\ goal = "none"
    /\ stat = [objective |-> "never", bound |-> "never", haveBound |-> FALSE, time |-> "never",
               nodes |-> "never"]
    /\ sets = 0 /\ last = [n \in Names |-> DeclaredDefault(n)]

\* A stop before the run, or a build that fails: no statistic is written.
RunEndsEarly ==
    /\ ~searching
    /\ lib' \in {lib} \cup Asked
    /\ UNCHANGED <<backend, setting, kept, searching, stat, goal, sets, last>>

Aged(age) == IF age = "last" THEN "earlier" ELSE age

Older ==
    [m \in DOMAIN stat |-> IF m = "haveBound" THEN stat[m] ELSE Aged(stat[m])]

\* Faulty: the bound of an earlier run stays to be read.
BoundKept == Older

StatisticsAtBuild == [Older EXCEPT !.haveBound = FALSE]

\* run up to the search, and solve's own start.
RunBuilt ==
    /\ ~searching
    /\ lib' \in Asked
    /\ goal' \in {"none", "int", "float"}
    /\ stat' = StatisticsAtBuild
    /\ searching' = TRUE
    /\ IF lib' = "failed" THEN UNCHANGED kept
       ELSE IF backend = "highs" THEN HighsTold ELSE GurobiTold
    /\ UNCHANGED <<backend, setting, sets, last>>

\* Sink::bound and Sink::solution.
Bound ==
    /\ searching /\ lib = "loaded"
    /\ stat' = [stat EXCEPT !.bound = "last", !.haveBound = TRUE]
    /\ UNCHANGED <<backend, lib, setting, kept, searching, goal, sets, last>>

Solution ==
    /\ searching /\ lib = "loaded"
    /\ stat' = [stat EXCEPT !.objective = "last"]
    /\ UNCHANGED <<backend, lib, setting, kept, searching, goal, sets, last>>

\* solve returns: what the library cannot say leaves what an earlier search said.
SearchEnds ==
    /\ searching
    /\ \E nodes \in (IF lib = "loaded" THEN {stat.nodes, "last"} ELSE {stat.nodes}) :
          stat' = [stat EXCEPT !.time = "last", !.nodes = nodes]
    /\ searching' = FALSE
    /\ callbacks' = {}
    /\ UNCHANGED <<backend, lib, setting, param, parallel, goal, sets, last>>

SettingsNext ==
    \/ \E name \in Names \cup {"unknown"}, value \in Offers :
          OptionSet(name, value) \/ OptionRejected(name, value)
    \/ RunEndsEarly \/ RunBuilt \/ Bound \/ Solution \/ SearchEnds

SettingsSpec == SettingsInit /\ [][SettingsNext]_settings

-----------------------------------------------------------------------------
(* statistic: the core's names first, then the backend's.                  *)
ObjectiveName == IF goal = "float" THEN "float_objective" ELSE "int_objective"

BoundOf(kind) == IF kind = "float" THEN "float_objective_bound" ELSE "int_objective_bound"

CoreAnswers ==
    {"solutions", "decisions", "constraints", "init_time", "solve_time"}
        \cup (IF goal # "none" THEN {ObjectiveName} ELSE {})
        \cup (IF stat.haveBound THEN {BoundOf(goal)} ELSE {})

HighsAnswers  == {"nodes"}
GurobiAnswers == {"nodes", "open_nodes", "mip_gap", "simplex_iterations", "work"}

Answers == CoreAnswers \cup (IF backend = "highs" THEN HighsAnswers ELSE GurobiAnswers)

-----------------------------------------------------------------------------
\* A member is never out of its option's range, whichever way it is set.
ValuesOK ==
    /\ backend \in Backends /\ lib \in {"unknown", "loaded", "failed"}
    /\ \A n \in Flags : setting[n].kind = "bool"
    /\ setting["threads"].kind = "int" /\ setting["threads"].v >= 1
    /\ setting["time_limit"] = Absent
           \/ (setting["time_limit"].kind = "int" /\ setting["time_limit"].v > 0)
    /\ setting["random_seed"].kind \in {"absent", "int"}
    /\ \A n \in Gaps :
          setting[n].kind = "float" /\ (setting[n].v >= 0 \/ setting[n] = OwnDefault[n])
    /\ \A n \in {"write_model", "dll"} : setting[n].kind = "string"
    /\ \A n \in Names \ IntOptions : param[n] \in Offers \cup {DeclaredDefault(n), Absent}
    /\ \A n \in IntOptions :
          param[n] = Absent \/ (param[n].kind = "int" /\ param[n].v \in -Half .. Half - 1)
    /\ parallel \in BOOLEAN /\ callbacks \subseteq {"interrupt", "log", "solution"}
    /\ searching \in BOOLEAN /\ goal \in {"none", "int", "float"}
    /\ \A m \in DOMAIN stat \ {"haveBound"} : stat[m] \in {"never", "earlier", "last"}

\* "Options round-trip": what is read is what was last set, or the default that
\* is declared for an option that never was, in whichever member each is kept.
OptionsReadBack == \A n \in DeclaredOptions : OptionGet(n) = last[n]

Fits(n) == n \in IntOptions => Cast(setting[n].v) = setting[n].v

\* A search has the options the caller reads back, of those that have a value
\* and one that the library's type holds, though the library keeps some from
\* search to search and loses others with a model; what HiGHS calls back for is
\* what this run's options ask.
SearchHasOptions ==
    searching /\ lib = "loaded" =>
        /\ \A n \in {"threads", "time_limit", "random_seed"} \cup Gaps :
              HasValue(n) /\ Fits(n) => Effective(n) = setting[n]
        /\ backend = "gurobi" /\ setting["all_solutions"] = Bool(1) =>
              Effective("all_solutions") = Bool(1)
        /\ backend = "highs" =>
              /\ "solution" \in callbacks <=> setting["intermediate"] = Bool(1)
              /\ "log" \in callbacks => setting["verbose"] = Bool(1)

\* "Statistics of the last run": what can be read is declared, and a bound that
\* can be read is of the last run that came to search, under the name of the
\* kind of that run's objective.
StatisticsOfSearch ==
    /\ Answers \subseteq DeclaredStatistics
    /\ \A kind \in {"int", "float"} :
          BoundOf(kind) \in Answers => stat.bound = "last" /\ goal \in {kind, "none"}

=============================================================================
