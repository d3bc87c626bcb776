--------------------------- MODULE IncrementalRun ---------------------------
(***************************************************************************)
(* MipSolver::run (src/src/mip_solver.cpp) called any number of times on a *)
(* model whose layers the caller pushes and retracts between runs: what is *)
(* kept of the last build, where the backend is cut, which layers are      *)
(* posted again, and which values of the last solution are offered as a    *)
(* start.  MipModel::build (src/src/mip_model.cpp) is one step here, with  *)
(* its classes in the closed form ColumnClasses promises and Aliasing      *)
(* implements, and its loops one turn after another; a layer's build is    *)
(* one action of run, so that the layers of one run are posted one after   *)
(* the other.                                                              *)
(*                                                                         *)
(* Decisions, columns and rows are numbered from 1; column 0 stands for    *)
(* the code's -1.  A layer has a tag that no other layer has which the     *)
(* caller, the backend or the remembered solution still refers to, so that *)
(* a layer pushed in the place of another is told from it.  A domain is a  *)
(* set of values; every maximal run of it is an interval of the code.      *)
(***************************************************************************)
EXTENDS Integers, Sequences, FiniteSets, SequencesExt

CONSTANTS
    Programs        \* the callers there are: what each may push, set and be answered

\* A caller bounds its layers and says what the lowest layer and the ones above
\* it may have; a stepwise one runs after each layer it pushes.  Its stops are the
\* runs it asks to stop before they start: none, those after which the solver
\* still has what it saw of the layers, or any.  A domain has
\* finitely many intervals, and the lowest has a lower end: where the code has
\* minus infinity, the least value a column can hold.
ASSUME ProgramsAssumption ==
    \A p \in Programs :
        /\ p.maxLayers \in Nat \ {0}
        /\ p.baseDecisions \cup p.upperDecisions \subseteq Nat
        /\ p.baseKinds \cup p.upperKinds \subseteq {"none", "row", "join", "bad"}
        /\ \A domain \in p.baseDomains \cup p.upperDomains :
              /\ domain \subseteq Int /\ IsFiniteSet({v \in domain : v - 1 \notin domain})
              /\ domain # {} => \E low \in domain : \A v \in domain : low <= v
        /\ p.objectives \subseteq {"none", "scalar", "lex"}
        /\ p.stepwise \in BOOLEAN
        /\ p.outcomes \subseteq {"solution", "no solution"}
        /\ p.stops \in {"never", "seen", "ever"}
        /\ p.warmStarts \subseteq SUBSET Nat

VARIABLES
    \* The caller.
    program,        \* which of them it is
    layers,         \* the model's layers, lowest first, and where each ends
    decisions,      \* its decisions, those of lower layers first
    constraints,    \* its constraints, likewise
    objective,      \* its objective: a kind and the decisions it names
    unchanged,      \* layer_unchanged()
    answered,       \* history: the last run reported a solution
    \* MipSolver.
    pc,
    level,          \* run's l: layers kept or posted so far
    built,          \* built_: the MipModel
    layerEnd,       \* layer_end_
    builtLayers,    \* built_layers_
    builtObjective, \* built_objective_ and built_objective_args_
    last,           \* last_: the variable each remembered value is the value of
    start,          \* what the last offer_start gave: decision -> variable, or Advice
    \* The backend.
    backend

model  == <<layers, decisions, constraints>>
caller == <<program, model, objective, unchanged, answered>>
solver == <<built, layerEnd, builtLayers, builtObjective, last, start>>
vars   == <<caller, pc, level, solver, backend>>

Domains == UNION {p.baseDomains \cup p.upperDomains : p \in Programs}
Values  == UNION Domains

-----------------------------------------------------------------------------
(* The model as build reads it: all of its decisions and constraints, and  *)
(* where each layer ends.                                                  *)
DecisionLayerEnd(k)   == IF k = 0 THEN 0 ELSE layers[k].decisions
ConstraintLayerEnd(k) == IF k = 0 THEN 0 ELSE layers[k].constraints

\* n turns of a loop, the first from base.
Repeat(Turn(_, _), base, n) ==
    LET after[i \in 0 .. n] == IF i = 0 THEN base ELSE Turn(after[i - 1], i)
    IN  after[n]

\* Two classes become one, led by the lower of the two leaders.
Merge(leader, x, y) ==
    LET both == {leader[x], leader[y]}
    IN  [d \in DOMAIN leader |-> IF leader[d] \in both THEN Min(both) ELSE leader[d]]

\* Where the intervals of a domain start.
Starts(domain) == {v \in domain : v - 1 \notin domain}

\* Faulty: the gaps of a domain are counted, not its intervals.
GapsOf(domain) == Cardinality(Starts(domain)) - 1

\* An empty domain is one interval without values.
Intervals(domain) == IF domain = {} THEN 1 ELSE Cardinality(Starts(domain))
Hull(domain) == {v \in Values : \E a, b \in domain : a <= v /\ v <= b}

-----------------------------------------------------------------------------
(* The backend: columns with bounds and a cost, rows, and the ranking of a *)
(* lexicographic objective.  A row is a constraint's, or holds a column to *)
(* a domain with holes (the three rows of one encoding go together).       *)
EmptyBackend == [cols |-> <<>>, rows |-> <<>>, lex |-> <<>>]

Col(bounds, cost)      == [bounds |-> bounds, cost |-> cost]
Row(id, cols)          == [id |-> id, cols |-> cols, domain |-> {}]
HoleRows(column, dom)  == [id |-> <<0, 0>>, cols |-> {column}, domain |-> dom]
IsHole(row) == row.id = <<0, 0>>

Below(cs, n) ==
    Repeat(LAMBDA kept, i : IF cs[i] <= n THEN Append(kept, cs[i]) ELSE kept, <<>>, Len(cs))

\* The last rows and columns go; so does what named a deleted column.
CutBackend(b, rows, cols) ==
    [cols |-> SubSeq(b.cols, 1, cols),
     rows |-> [r \in 1 .. rows |->
                  [b.rows[r] EXCEPT !.cols = {c \in @ : c <= cols}]],
     lex  |-> Below(b.lex, cols)]

-----------------------------------------------------------------------------
(* MipModel.                                                               *)
NoModel == [leader |-> <<>>, column |-> <<>>, intervals |-> <<>>,
            columns |-> 0, rows |-> 0]

\* Faulty: rows_ is not cut.
CutModelKeepsRows(m, ds, cols, rows) ==
    [leader    |-> SubSeq(m.leader, 1, ds),
     column    |-> SubSeq(m.column, 1, ds),
     intervals |-> [c \in 1 .. cols |->
                       IF c <= Len(m.intervals) THEN m.intervals[c] ELSE {}],
     columns   |-> cols,
     rows      |-> m.rows]

CutModel(m, ds, cols, rows) ==
    [leader    |-> SubSeq(m.leader, 1, ds),
     column    |-> SubSeq(m.column, 1, ds),
     intervals |-> [c \in 1 .. cols |->
                       IF c <= Len(m.intervals) THEN m.intervals[c] ELSE {}],
     columns   |-> cols,
     rows      |-> rows]

\* Pass 1: the classes, unless a join meets two columns of an earlier run.
Join(s, c, column, extending) ==
    LET Owned(d) == column[s.leader[d]] # 0
    IN  CASE s.rebuild \/ c.kind # "join" -> s
          [] /\ ~s.rebuild /\ c.kind = "join"
             /\ extending /\ Owned(c.a) /\ Owned(c.b) /\ s.leader[c.a] # s.leader[c.b]
               -> [s EXCEPT !.rebuild = TRUE]
          [] OTHER -> [s EXCEPT !.leader = Merge(@, c.a, c.b)]

OldColumns(n, m, extending) ==
    [d \in 1 .. n |-> IF extending /\ d <= Len(m.column) THEN m.column[d] ELSE 0]

PassOne(n, cons, m, first, extending) ==
    LET column == OldColumns(n, m, extending)
    IN  Repeat(LAMBDA s, i : Join(s, cons[i], column, extending),
               [leader |-> [d \in 1 .. n |-> IF extending /\ d <= first THEN m.leader[d] ELSE d],
                rebuild |-> FALSE],
               Len(cons))

\* The column loop's turn for decision d.  base is how many columns earlier
\* builds made.  intervals_ gets an entry per model column, column numbers count
\* selectors too: after an encoding of holes the two no longer line up, and
\* stray is what a read past the end of intervals_ gives.
At(intervals, c, stray) == IF c <= Len(intervals) THEN intervals[c] ELSE stray

Place(s, d, root, own, base) ==
    LET c == base + Len(s.bounds) + 1
    IN  [s EXCEPT !.column = [@ EXCEPT ![root] = c, ![d] = c],
                  !.intervals = Append(@, own),
                  !.bounds = Append(@, Hull(own))]

Narrow(s, d, c, both, base) ==
    [s EXCEPT !.column[d] = c,
              !.intervals = IF c <= Len(@) THEN [@ EXCEPT ![c] = both] ELSE @,
              !.bounds[c - base] = Hull(both)]

\* p is what pass 1 leaves, column and old what earlier builds did.
Visit(s, d, ds, p, base, stray) ==
    LET c == s.column[p.leader[d]]
    IN  CASE s.rebuild -> s
          [] ~s.rebuild /\ c = 0 -> Place(s, d, p.leader[d], ds[d].domain, base)
          [] ~s.rebuild /\ c # 0 /\ c <= base -> [s EXCEPT !.rebuild = TRUE]
          [] OTHER -> Narrow(s, d, c, At(s.intervals, c, stray) \cap ds[d].domain, base)

ColumnLoop(ds, p, column, first, base, old, stray) ==
    Repeat(LAMBDA s, i : Visit(s, first + i, ds, p, base, stray),
           [column |-> column, intervals |-> old, bounds |-> <<>>, rebuild |-> p.rebuild],
           Len(ds) - first)

\* Columns with more than one interval get a binary for each, and rows.
Encode(s, c, domain) ==
    IF Intervals(domain) > 1
    THEN [selectors |-> s.selectors + Intervals(domain),
          rows      |-> Append(s.rows, HoleRows(c, domain))]
    ELSE s

EncodeHoles(intervals, base, k, stray) ==
    Repeat(LAMBDA s, i : Encode(s, base + i, At(intervals, base + i, stray)),
           [selectors |-> 0, rows |-> <<>>], k)

\* Pass 2: the constraints that are rows.
PassTwo(cons, column) ==
    Repeat(LAMBDA rows, i :
               IF cons[i].kind = "row"
               THEN Append(rows, Row(cons[i].id, {column[cons[i].a], column[cons[i].b]}))
               ELSE rows,
           <<>>, Len(cons))

Ranking(column) == [i \in DOMAIN objective.args |-> column[objective.args[i]]]

\* Columns and rows go to the backend.
HandOver(m, b, extending, base, posted, p, loop, holes) ==
    LET k       == Len(loop.bounds)
        Cost(c) == objective.kind = "scalar" /\ loop.column[objective.args[1]] = c
        rows    == holes.rows \o posted
    IN  [status  |-> "ok",
         model   |-> [leader |-> p.leader, column |-> loop.column,
                      intervals |-> loop.intervals,
                      columns |-> base + k + holes.selectors, rows |-> m.rows + Len(rows)],
         backend |-> [cols |-> b.cols
                               \o [i \in 1 .. k |-> Col(loop.bounds[i], Cost(base + i))]
                               \o [i \in 1 .. holes.selectors |-> Col({0, 1}, FALSE)],
                      rows |-> b.rows \o rows,
                      lex  |-> IF extending \/ objective.kind # "lex" THEN b.lex
                               ELSE Ranking(loop.column)]]

Stop(m, b, status) == [status |-> status, model |-> m, backend |-> b]

Outcome(cons, m, b, extending, base, stray, p, loop) ==
    CASE loop.rebuild -> Stop(m, b, "needs full build")
      [] ~loop.rebuild /\ \E i \in DOMAIN cons : cons[i].kind = "bad" -> Stop(m, b, "error")
      [] OTHER -> HandOver(m, b, extending, base, PassTwo(cons, loop.column), p, loop,
                           EncodeHoles(loop.intervals, base, Len(loop.bounds), stray))

BuildJoined(ds, cons, m, b, first, extending, base, old, stray, p) ==
    Outcome(cons, m, b, extending, base, stray, p,
            ColumnLoop(ds, p, OldColumns(Len(ds), m, extending), first, base, old, stray))

\* build: the status it returns, and the model and the backend it leaves.
Build(ds, cons, m, b, first, extending, stray) ==
    IF extending /\ first > Len(m.column)
    THEN Stop(m, b, "needs full build")
    ELSE BuildJoined(ds, cons, m, b, first, extending,
                     IF extending THEN m.columns ELSE 0,
                     IF extending THEN m.intervals ELSE <<>>,
                     stray, PassOne(Len(ds), cons, m, first, extending))

-----------------------------------------------------------------------------
(* The caller.                                                             *)
NoObjective == [kind |-> "none", args |-> <<>>]

Init ==
    /\ program \in Programs
    /\ layers = <<>> /\ decisions = <<>> /\ constraints = <<>> /\ objective = NoObjective /\ unchanged = 0
    /\ answered = FALSE
    /\ pc = "idle" /\ level = 0
    /\ built = NoModel /\ layerEnd = <<>> /\ builtLayers = 0
    /\ builtObjective = NoObjective /\ last = <<>> /\ start = <<>>
    /\ backend = EmptyBackend

InUse ==
    {layers[k].tag : k \in 1 .. Len(layers)}
        \cup {backend.rows[r].id[1] : r \in 1 .. Len(backend.rows)}
        \cup {last[d][1] : d \in 1 .. Len(last)}

\* A tag nothing has.
Unused == Min({t \in 1 .. Cardinality(InUse) + 1 : t \notin InUse})

\* A layer with its decisions and at most one constraint over all there are.
Push(counts, domains, kinds) ==
    \E n \in counts, kind \in kinds, tag \in {Unused} :
      LET all == Len(decisions) + n
          Grows(posted) ==
              /\ layers' = Append(layers, [tag |-> tag, decisions |-> all,
                                           constraints |-> Len(constraints) + Len(posted)])
              /\ constraints' = constraints \o posted
      IN  /\ \E ds \in [1 .. n -> domains] :
                decisions' = decisions \o
                                 [i \in 1 .. n |-> [id |-> <<tag, i>>, domain |-> ds[i]]]
          /\ \/ kind = "none" /\ Grows(<<>>)
             \/ /\ kind # "none"
                /\ \E a, b \in 1 .. all :
                     /\ kind = "row" => b = all
                     /\ kind = "join" => a < b
                     /\ kind = "bad" => a = 1 /\ b = all
                     /\ Grows(<<[id |-> <<tag, 1>>, kind |-> kind, a |-> a, b |-> b]>>)

PushLayer ==
    /\ pc = "idle"
    /\ Len(layers) < program.maxLayers
    /\ program.stepwise => unchanged = Len(layers)
    /\ IF layers = <<>>
       THEN Push(program.baseDecisions, program.baseDomains, program.baseKinds)
       ELSE Push(program.upperDecisions, program.upperDomains, program.upperKinds)
    /\ UNCHANGED <<program, objective, unchanged, answered, pc, level, solver, backend>>

PopLayer ==
    /\ pc = "idle"
    /\ layers # <<>>
    /\ layers' = Front(layers)
    /\ decisions' = SubSeq(decisions, 1, DecisionLayerEnd(Len(layers) - 1))
    /\ constraints' = SubSeq(constraints, 1, ConstraintLayerEnd(Len(layers) - 1))
    /\ unchanged' = Min({unchanged, Len(layers) - 1})
    /\ UNCHANGED <<program, objective, answered, pc, level, solver, backend>>

SetObjective ==
    /\ pc = "idle"
    /\ \E kind \in program.objectives \ {"none"}, d \in 1 .. Len(decisions) :
          objective' = [kind |-> kind, args |-> <<d>>]
    /\ objective' # objective
    /\ UNCHANGED <<program, model, unchanged, answered, pc, level, solver, backend>>

ClearObjective ==
    /\ pc = "idle"
    /\ "none" \in program.objectives
    /\ objective # NoObjective
    /\ objective' = NoObjective
    /\ UNCHANGED <<program, model, unchanged, answered, pc, level, solver, backend>>

-----------------------------------------------------------------------------
\* Faulty: keeps whatever was built, retracted and pushed again or not.
KeepAllBuilt ==
    LET k == Min({Len(layers), builtLayers})
    IN  IF builtObjective = objective /\ k <= Len(layerEnd) THEN k ELSE 0

\* Faulty: does not ask whether the objective is the one built for.
KeepAnyObjective ==
    LET k == Min({unchanged, builtLayers})
    IN  IF k <= Len(layerEnd) THEN k ELSE 0

\* Faulty: keeps one layer too few.
KeepBelow ==
    LET k == Min({unchanged, builtLayers})
    IN  IF builtObjective = objective /\ k <= Len(layerEnd) THEN Max({0, k - 1}) ELSE 0

(* MipSolver::run.                                                         *)
Keep ==
    LET k == Min({unchanged, builtLayers})
    IN  IF builtObjective = objective /\ k <= Len(layerEnd) THEN k ELSE 0

\* The model can be run: what its objective names is there.
Runnable ==
    /\ layers # <<>>
    /\ \A i \in 1 .. Len(objective.args) : objective.args[i] <= Len(decisions)

\* No layer stands in the place of one that the solver still has built.
Seen == unchanged >= Min({Len(layers), builtLayers})

\* A stop was asked for before the run started: nothing is cut, built or
\* remembered, and to the caller the layers have been run.
RunStopped ==
    /\ pc = "idle"
    /\ layers # <<>>
    /\ \/ program.stops = "ever"
       \/ program.stops = "seen" /\ Seen
    /\ unchanged' = Len(layers) /\ answered' = FALSE
    /\ UNCHANGED <<program, model, objective, pc, level, solver, backend>>

RunStart ==
    /\ pc = "idle"
    /\ Runnable
    /\ level' = Keep
    /\ pc' = "building"
    /\ \/ /\ Keep = 0
          /\ built' = NoModel /\ backend' = EmptyBackend /\ layerEnd' = <<>>
       \/ /\ Keep # 0 /\ Keep < builtLayers
          /\ LET end == layerEnd[Keep]
             IN  /\ backend' = CutBackend(backend, end.rows, end.columns)
                 /\ built' = CutModel(built, end.decisions, end.columns, end.rows)
          /\ layerEnd' = SubSeq(layerEnd, 1, Keep)
       \/ /\ Keep # 0 /\ Keep = builtLayers
          /\ UNCHANGED <<built, backend, layerEnd>>
    /\ UNCHANGED <<caller, builtLayers, builtObjective, last, start>>

RunFails ==
    /\ backend' = EmptyBackend /\ built' = NoModel /\ layerEnd' = <<>>
    /\ builtLayers' = 0
    /\ pc' = "idle" /\ level' = 0
    /\ unchanged' = Len(layers) /\ answered' = FALSE
    /\ UNCHANGED <<program, model, objective, builtObjective, last, start>>

\* Faulty: the rows of the end are those there were before the layer.
LayerBuiltEndsEarly(r) ==
    /\ r.status = "ok"
    /\ built' = r.model /\ backend' = r.backend
    /\ layerEnd' = Append(layerEnd,
                      [decisions |-> DecisionLayerEnd(level + 1),
                       columns |-> r.model.columns, rows |-> built.rows])
    /\ level' = level + 1
    /\ UNCHANGED <<caller, pc, builtLayers, builtObjective, last, start>>

\* A layer is posted: its end is recorded.
LayerBuilt(r) ==
    /\ r.status = "ok"
    /\ built' = r.model /\ backend' = r.backend
    /\ layerEnd' = Append(layerEnd,
                      [decisions |-> DecisionLayerEnd(level + 1),
                       columns |-> r.model.columns, rows |-> r.model.rows])
    /\ level' = level + 1
    /\ UNCHANGED <<caller, pc, builtLayers, builtObjective, last, start>>

\* kNeedsFullBuild: all layers again, in one go, and no layer ends.
AllBuilt(r) ==
    /\ r.status = "ok"
    /\ built' = r.model /\ backend' = r.backend /\ layerEnd' = <<>>
    /\ level' = Len(layers)
    /\ UNCHANGED <<caller, pc, builtLayers, builtObjective, last, start>>

BuildFails(r) ==
    /\ r.status = "error"
    /\ RunFails

BuildFallback(r) ==
    /\ r.status = "needs full build"
    /\ \E full \in {Build(decisions, constraints, NoModel, EmptyBackend, 0, FALSE, {})} :
          AllBuilt(full) \/ BuildFails(full)

\* Build always sees the whole model; constraints below the layer are done.
BuildLayer ==
    /\ pc = "building"
    /\ level < Len(layers)
    /\ \E stray \in program.baseDomains \cup program.upperDomains :
       \E r \in {Build(decisions,
                       SubSeq(constraints, ConstraintLayerEnd(level) + 1, Len(constraints)),
                       built, backend, DecisionLayerEnd(level), level # 0, stray)} :
          LayerBuilt(r) \/ BuildFallback(r) \/ BuildFails(r)

\* Faulty: values are carried above the last unchanged layer too.
OfferAll(advised) ==
    [d \in 1 .. Min({Len(decisions), Len(last)}) |-> last[d]]

\* A value the model's warm_start annotations give.
Advice == <<0, 0>>

\* offer_start: the annotations' values, of decisions that are there, and over
\* them those of the last solution, for the decisions of the layers the solver has
\* already seen.  They go to the backend in the order of the decisions.
Offer(advised) ==
    LET carried == 1 .. Min({DecisionLayerEnd(unchanged), Len(last)})
    IN  [d \in carried \cup (advised \cap DOMAIN decisions) |->
            IF d \in carried THEN last[d] ELSE Advice]

StartSolve ==
    /\ pc = "building"
    /\ level = Len(layers)
    /\ builtObjective' = objective
    /\ IF Len(layerEnd) = Len(layers)
       THEN builtLayers' = Len(layers) /\ layerEnd' = layerEnd
       ELSE builtLayers' = 0 /\ layerEnd' = <<>>
    /\ \E advised \in program.warmStarts : start' = Offer(advised)
    /\ pc' = "solving"
    /\ UNCHANGED <<caller, level, built, last, backend>>

\* remember: only a search that reports a solution replaces the last one.
Remember == [d \in 1 .. Len(decisions) |-> decisions[d].id]

EndRun(outcome) ==
    /\ pc = "solving"
    /\ last' = IF outcome = "solution" THEN Remember ELSE last
    /\ start' = <<>>
    /\ unchanged' = Len(layers) /\ answered' = (outcome = "solution")
    /\ pc' = "idle" /\ level' = 0
    /\ UNCHANGED <<program, model, objective, built, layerEnd, builtLayers, builtObjective, backend>>

Next ==
    \/ PushLayer \/ PopLayer \/ SetObjective \/ ClearObjective
    \/ RunStopped \/ RunStart \/ BuildLayer \/ StartSolve
    \/ \E outcome \in program.outcomes : EndRun(outcome)

Spec == Init /\ [][Next]_vars

-----------------------------------------------------------------------------
(* The model's meaning, from its layers alone.                             *)
ModelLeader ==
    Repeat(LAMBDA l, i : IF constraints[i].kind = "join"
                         THEN Merge(l, constraints[i].a, constraints[i].b) ELSE l,
           [d \in 1 .. Len(decisions) |-> d], Len(constraints))

Allowed(leader, ds, d) ==
    {v \in Values : \A e \in DOMAIN leader : leader[d] = leader[e] => v \in ds[e].domain}

\* ... and what the backend makes of it.
ColumnOf(d) == built.column[d]

Admits(c) ==
    {v \in backend.cols[c].bounds :
        \A r \in 1 .. Len(backend.rows) :
            IsHole(backend.rows[r]) /\ c \in backend.rows[r].cols
                => v \in backend.rows[r].domain}

TypeOK ==
    /\ pc \in {"idle", "building", "solving"}
    /\ Len(layers) <= program.maxLayers
    /\ unchanged \in 0 .. Len(layers)
    /\ level \in 0 .. Len(layers)
    /\ objective.kind \in program.objectives \cup {"none"}
    /\ builtLayers \in 0 .. program.maxLayers
    /\ Len(backend.cols) = built.columns
    /\ Len(backend.rows) = built.rows
    /\ Len(built.leader) = Len(built.column)
    /\ DOMAIN start \subseteq DOMAIN decisions

-----------------------------------------------------------------------------
(* Properties.                                                             *)

\* "Both must give the same answer as building from nothing": when the search
\* starts, after any history of pushed and retracted layers, the rows are the
\* model's constraints, each over the columns of its own decisions: none is
\* missing, and none is left of a layer that was retracted.
RowsAsFromNothing ==
    pc = "solving" =>
        {<<r.id, r.cols>> : r \in {r \in ToSet(backend.rows) : ~IsHole(r)}}
            = {<<c.id, {ColumnOf(c.a), ColumnOf(c.b)}>> :
                  c \in {c \in ToSet(constraints) : c.kind = "row"}}

\* Two decisions share a column exactly when the model's own constraints join
\* them, and the column admits exactly the values all of the class's domains
\* allow, with bounds and hole rows taken together.
ColumnsAsFromNothing ==
    pc = "solving" =>
        \E leader \in {ModelLeader}, ds \in {decisions} :
            \A d \in DOMAIN leader :
                /\ \A e \in DOMAIN leader : leader[d] = leader[e] <=> ColumnOf(d) = ColumnOf(e)
                /\ Admits(ColumnOf(d)) = Allowed(leader, ds, d)

\* The cost is on the column of the objective's decision and on no other, and
\* a ranking is over the columns of the decisions the objective names.
ObjectiveAsFromNothing ==
    pc = "solving" =>
        /\ \A c \in 1 .. Len(backend.cols) :
              backend.cols[c].cost
                <=> objective.kind = "scalar" /\ c = ColumnOf(objective.args[1])
        /\ backend.lex =
              IF objective.kind = "lex"
              THEN [i \in 1 .. Len(objective.args) |-> ColumnOf(objective.args[i])]
              ELSE <<>>

\* A recorded end is the end of its layer: below it there are only rows of
\* layers up to that one, so cutting there retracts what is above and nothing
\* else.
EndsAreLayerEnds ==
    pc = "idle" =>
        \A k \in 1 .. Min({unchanged, builtLayers}) :
            \A r \in 1 .. Len(backend.rows) :
                LET tag == backend.rows[r].id[1]
                    mine == {layers[j].tag : j \in 1 .. k} \cup {0}
                IN  /\ r <= layerEnd[k].rows => tag \in mine
                    /\ r > layerEnd[k].rows /\ tag # 0 => tag \notin mine

\* A run posts only what lies above the last unchanged layer: what the backend
\* holds below that layer's end is the same rows over the same columns from
\* run to run.  Only a changed objective, an error or kNeedsFullBuild starts
\* from an empty backend.
UnchangedPrefixKept ==
    [][RunStart /\ Min({unchanged, builtLayers}) > 0 /\ builtObjective = objective =>
          LET end == layerEnd[Min({unchanged, builtLayers})]
          IN  /\ backend'.rows = SubSeq(backend.rows, 1, end.rows)
              /\ IsPrefix(SubSeq(backend.cols, 1, end.columns), backend'.cols)
              /\ built'.column = SubSeq(built.column, 1, end.decisions)]_vars

\* "decisions below the end of the last unchanged layer are the same variables
\* they were last run": after a run that reported a solution, a value is only
\* offered for the variable it is of.  (After one that did not, the solution
\* remembered is that of an earlier run, and so are its variables.)
StartIsOfSameVariable ==
    pc = "solving" /\ answered =>
        \A d \in DOMAIN start : start[d] \in {decisions[d].id, Advice}

=============================================================================
