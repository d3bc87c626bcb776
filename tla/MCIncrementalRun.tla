-------------------------- MODULE MCIncrementalRun --------------------------
(* The callers TLC runs IncrementalRun with.                               *)
EXTENDS IncrementalRun

Plain == {0, 1, 2}
Holed == {0, 2}

Advised(base, upper, objectives, stepwise, outcomes, stops, most, warmStarts) ==
    [maxLayers |-> most,
     baseDecisions |-> base.decisions, upperDecisions |-> upper.decisions,
     baseKinds |-> base.kinds, upperKinds |-> upper.kinds,
     baseDomains |-> base.domains, upperDomains |-> upper.domains,
     objectives |-> objectives, stepwise |-> stepwise, outcomes |-> outcomes,
     stops |-> stops, warmStarts |-> warmStarts]

Caller(base, upper, objectives, stepwise, outcomes, stops, most) ==
    Advised(base, upper, objectives, stepwise, outcomes, stops, most, {{}})

Layer(n, kinds, domains) == [decisions |-> {n}, kinds |-> kinds, domains |-> domains]

\* Any layers in any order, and runs that are stopped before they start.
Layered ==
    Caller(Layer(1, {"row"}, {Plain}), Layer(1, {"none", "row", "join"}, {{0, 1}}),
           {"none"}, FALSE, {"no solution"}, "seen", 3)

\* Runs that report a solution, do not, or are stopped before they start.
Answered ==
    Caller(Layer(1, {"none"}, {Plain}), Layer(1, {"none"}, {{0, 1}}),
           {"none"}, FALSE, {"solution", "no solution"}, "seen", 3)

\* Rows above a base that may have holes, a run after each.
RowByRow ==
    Caller(Layer(2, {"none", "row", "join"}, {Plain, Holed}), Layer(0, {"row"}, {{0, 1}}),
           {"none"}, TRUE, {"no solution"}, "never", 3)

\* An objective that changes, and constraints that are rejected.
Optimising ==
    Caller(Layer(2, {"none"}, {Plain}), Layer(1, {"row", "join", "bad"}, {{0, 1}}),
           {"none", "scalar", "lex"}, FALSE, {"no solution"}, "seen", 2)

\* Annotations for decisions of any layer, there or not.
Warm ==
    Advised(Layer(1, {"none"}, {Plain}), Layer(1, {"none", "row"}, {{0, 1}}),
            {"none"}, FALSE, {"solution", "no solution"}, "seen", 2, SUBSET (1 .. 3))

SoundPrograms == {Layered, Answered, RowByRow, Optimising, Warm}

\* Rows above the lowest layer before the first run.
RowsAtOnce ==
    {Caller(Layer(1, {"none"}, {Plain}), Layer(0, {"row"}, {{0, 1}}),
            {"none"}, FALSE, {"no solution"}, "never", 2)}

\* Runs that may be stopped before they start, whatever has been pushed since.
StoppedAnytime ==
    {Caller(Layer(1, {"none"}, {Plain}), Layer(1, {"none", "row"}, {{0, 1}}),
            {"none"}, FALSE, {"no solution"}, "ever", 2)}

\* Holes in layers that more layers come above.
HolesBelow ==
    {Caller(Layer(1, {"none"}, {Plain, Holed}), Layer(1, {"none"}, {Plain, Holed}),
            {"none"}, TRUE, {"no solution"}, "never", 2)}

=============================================================================
