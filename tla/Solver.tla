------------------------------- MODULE Solver -------------------------------
(***************************************************************************)
(* What a search (Search) and the options and statistics of a solver       *)
(* (Settings) have in common: the backend that one solver has for life.    *)
(***************************************************************************)
EXTENDS Integers, Sequences

CONSTANT Backends       \* of "highs" and "gurobi"

ASSUME BackendsAssumption == Backends \subseteq {"highs", "gurobi"}

VARIABLE backend

=============================================================================
