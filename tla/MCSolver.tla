------------------------------ MODULE MCSolver ------------------------------
(***************************************************************************)
(* The two halves of a solver on small instances.  They share the backend; *)
(* a behaviour is one of a search (Search) or one of options and           *)
(* statistics (Settings), the other half staying as it starts.             *)
(***************************************************************************)
EXTENDS Search, Settings

VARIABLE half

\* Two solutions that tie, and one that costs more.
MCSolutions == {[id |-> "a", cost |-> 1], [id |-> "b", cost |-> 1], [id |-> "c", cost |-> 2]}

\* Every kind of value, among them each option's least, one too small, and one
\* too wide for an int.
MCOffers ==
    {Absent, Bool(0), Bool(1), Int_(0), Int_(1), Int_(2), Int_(9), Float(-1), Float(0), Str(1)}

MCInit ==
    /\ Init /\ SettingsInit
    /\ half \in {"search", "settings"}
    /\ half = "settings" => problem.kind = "none"

\* Of a run, the next has no more than the library's limit and the count of
\* solutions: the second run is the first again, with a limit or without.
SearchStep ==
    /\ half = "search"
    /\ Next
    /\ runs = 1 => /\ problem' = problem
                   /\ options' = [options EXCEPT !.limit = options'.limit]
    /\ UNCHANGED <<half, settings>>

SettingsStep ==
    /\ half = "settings"
    /\ SettingsNext
    /\ UNCHANGED <<half, vars>>

MCNext == SearchStep \/ SettingsStep

MCFairSpec ==
    /\ MCInit /\ [][MCNext]_<<half, vars, settings>>
    /\ SearchFairness

=============================================================================
