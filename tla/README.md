# A verification of FZnSO-MIP

FZnSO-MIP puts MIP solvers (HiGHS, linked in; Gurobi, loaded at run time) behind
the FZnSO solver interface. A consumer owns a *model*: decisions with domains,
constraints, an objective, all of them in *layers* that are pushed and retracted
between runs. The core turns it into columns and rows, keeps what an unchanged
prefix of layers built, and reports solutions back by decision.

This directory holds TLA+ modules that model the core, TLC configurations that
check them on small instances, and TLAPS proofs about them. Paths below are
relative to the repository.

## Inventory

| component | state | operations | what is hard | what makes it correct |
| --- | --- | --- | --- | --- |
| `MipModel` (`src/mip_model.cpp`) | union-find `parent_`, `column_`, `kind_`, `intervals_`, row scratch, `columns_`, `rows_` | `build`, `truncate`, `find`, `unite`, `row_begin/add/post` | extending an earlier build; two early exits that ask for a full rebuild; scratch that is never cleared | joined decisions and only those share a column; kept columns are never renumbered; every row is the sum of its terms; a domain with holes is exactly encoded |
| `MipSolver` (`src/mip_solver.cpp`) | `built_`, `layer_end_`, `built_layers_`, `built_objective_`, `last_`, options, statistics | `run`, `remember`, `offer_start`, `option_set/get`, `statistic` | any sequence of pushes, retractions and runs, with errors and fallbacks in between; values carried from one run to another; a stop that races the search | the backend holds exactly the model when a search starts; a carried value is of the same variable; the status says what the search proved |
| `MipBackend` (`src/mip_backend.hh`) | — | `add_columns`, `add_row`, `add_indicator_row`, `add_quadratic_row`, `truncate`, `reset`, `solve`, `set_start` | a contract with capability flags | only suffixes are cut |
| `HighsBackend` (`src/highs/`) | the HiGHS model, options | as above, and the callback | callbacks during the search | a solution is reported once |
| `GurobiBackend` (`src/gurobi/`) | library handle, environment, model, `row_kind_`, load error | as above, `available` | loading at first need; a model whose changes are lazy; three constraint sequences behind one row number; the solution pool | the model in Gurobi is what the core posted |
| `Declarations` (`src/signatures.cpp`) | constant lists | — | lists that must agree with what `build` dispatches and what the solver answers | what is declared is handled |
| `mznlib/` | the flattener's: domains, shared encodings | one decomposition per constraint | big-M bounds; encodings shared between constraints while domains narrow; a rewriting that must end | the rows mean what the constraint means, whatever was flattened before |

The consumer calls `run`; `run` calls `MipModel::build` once per layer, which
calls the backend's `add_*`; `run` cuts both with `truncate`. During `solve` the
backend calls back into a sink, which calls the consumer's. Everything is
synchronous: one thread, with callbacks. Nothing is persisted.

## Modules

### `ColumnClasses` and `Aliasing`: joins, columns and layer ends

`Aliasing` is pass 1 and the column loop of `MipModel::build`, with `truncate`
and the ends `run` records, in small steps: an iteration of `find`'s loop, an
answer of a `find`, a turn of the column loop are each an action, since what
could go wrong is between them: path halving rewrites the forest while the check
for two owned columns is being made, an extension runs over a forest that was
cut, an early exit leaves a forest half-joined. The joins name any decisions.
`pc` tells where the build is and `ask` which of its calls of `find` is running.
`leader` is auxiliary: the classes as the joins define them.

`ColumnClasses` is what this implements: classes that are merged at once, and a
numbering in closed form, a class's column being the number of classes before
it. `Aliasing` is checked and proved to implement it, with a column the loop has
assigned but not handed over mapped to "none".

### `IncrementalRun`: runs over changing layers

`MipSolver::run` with its caller. The caller pushes and retracts layers, and
sets or clears the objective; a run that is asked to stop before it starts returns
without looking at any of it (`RunStopped`); any other run decides what to keep (`Keep`), cuts
(`CutBackend`, `CutModel`), builds each layer above (`BuildLayer`), falls back to
a full build or fails, records the ends, offers a start and solves. `Build` is
`MipModel::build` as one step: it takes the whole model, as the code does,
whatever layer it is called for, and works from the layer's first decision and
first constraint. The classes are merged in closed form, which `Aliasing`
justifies. Its loops over joins, columns, holes and constraints are `Repeat`: a
turn is an operator of its own (`Join`, `Visit`, `Encode`), and the states after
each turn are a recursive function, so that proofs can go by the turns. The backend
keeps columns with bounds and a cost, rows with the columns they are over, and
the ranking of a lexicographic objective, and deletes like `HighsBackend`.

A domain is a set of values, of finitely many intervals, and its lowest interval has a
lower end: where the code has minus infinity, the least value a column can hold. Reading `intervals_` past its end or at another
column's entry is `stray`: any of the domains there may be.

`unchanged` is `layer_unchanged()`, which the caller's library answers: as the
tests use it, it counts the layers that are as they were at the last call of
`run`, be that stopped, failed or answered. `answered` is auxiliary: the last run
reported a solution.

`Caller`s are the constant: what a caller may push, which objectives and warm
starts it sets, whether it runs after every push, whether its runs find
solutions, and when it asks to stop a run before it starts (`stops`): never, only
while no layer stands in the place of one that the solver has built (`Seen`), or
at any time. A start names, for each decision, the variable its value is of, or
that it is the model's own advice.

Left out of a column: whether it is integer (`ColumnDomains` has the Booleans,
whose domains that changes) and the sense of the objective, which is handed over
with the cost and compared with it. Every decision has a domain; an absent one is
the backend's infinity at both ends.

### `ColumnDomains`, `RowForms` and `RowScratch`: what the columns and rows say

Three modules that share one behaviour, the build of a layer in small steps.

`ColumnDomains` is the column loop with numbers: `intervals_of` (a Boolean's
domain, an empty one, one with holes), and `intersect` as the two-cursor merge
it is, one step a turn, for every decision that meets a column that is there.
Classes are given; `Aliasing` is what says they are right.

`RowForms` is what follows: selectors and three rows for each column with holes,
then pass 2. A constraint is dispatched to its form, its arguments become terms
and a right-hand side one at a time (`ColumnArg`: a literal or a column), and the
form decides what the backend is given: a row, an indicator row, a quadratic row
or nothing. `Declared` is `Declarations` for the capabilities of the backend; a
model may hold constraints that are not declared, which end the build, and `given`
is emptied then: nothing is claimed of a constraint that was refused, and a run
with a refused constraint after the holes (`RefusedModels`) checks that. Sums are
recursive functions (`Total`, of the module `Sums` that `Decompositions` uses too),
`Along` joins the model's columns to the selectors,
and `FormsAssumption` says what the code may take for granted of a constraint: its
arguments have the types its identifier says (`WellFormed`), as the registry has it.
The right-hand side of an implied row must be a literal there: the code takes no
decision's column from it (`LiteralOf`, see *Other divergences*).

`RowScratch` is `row_begin`, `row_add` and `row_post` over `slot_` and `stamp_`,
with the assignment every build starts with. `sum` is auxiliary: the row as the
sum of what was added. `RowForms` runs on both, and is proved to implement both.

### `GurobiBackend`: three sequences behind one row number

`GurobiBackend` under `run`, with the core reduced to what the backend sees of
it: a reset or a cut, columns and rows layer by layer, a start, a search. `lib`
is the library, whether it was tried and whether a message is kept; every method
asks `available()`, which is `Asked`, and does nothing when there is none.
`held` is the model as Gurobi answers queries about it and `waiting` what was
added since its last update, both with a sequence for the columns and one for
each kind of row; `rowKind` is `row_kind_`. Elements are the core's numbers, so
the sequences can be compared with what the core posted. `refused` records a
start on a column that Gurobi does not know yet. `Retries` is whether the caller
may set `gurobi_dll` while the core takes a model as built that went to no
library.

### `Search`: from the start of a search to the status of the run

`Search` and `Settings` (below) both extend `Solver`, which holds what they have in
common: the backend a solver was made with. Each has its own specification over it,
`Spec` and `SettingsSpec`.

The tail of `run`, the sink it hands to the backend, and for each backend the
callback, `solve` and the mapping of its library's statuses. The library is
external: it finds cheaper solutions, runs its callback, and ends with a proof,
at a limit, when told, or with something it cannot classify. The caller may ask
to stop at any time, and from within a solution it is given. What differs
between the backends is in the actions: which callback reports and polls, who is
told of a stop, whether there is a pool, what an unfinished search is. A model is
the set of its solutions, which have a cost; whether it has integer columns
decides whether there are callbacks. "Optimal" of a library means within the gaps
it was given: `slack` is what `abs_gap` and `rel_gap` come to for the model at hand,
as a cost, and such a search may end with any incumbent that is that near to the
cheapest (`Near`). A library may also call a model without a solution unbounded, as
HiGHS's `UnboundedOrInfeasible` and Gurobi's `InfOrUnbounded` do. Two statuses of
HiGHS, an objective bound and a target that is reached (`highs_backend.cpp:333-335`),
cannot come: their options are never set. Left out are the integrality tolerance,
by which a library's solution may be none of the model, and the size of the pool
(`kPoolLimit`), above which not all ties are pooled. `reported` and `seen` are auxiliary: what
the caller was given in this run, and whether a stop was requested when it was.

### `Settings`: options and statistics

`option_set`, `option_get` and `statistic` of the core and of both backends, the
part of a run that reads options and writes statistics, and what is declared of
both. The library below a backend is what it was told (`param`, and for HiGHS
`parallel` and the callbacks that are started), and keeps it from search to
search; Gurobi's parameters are lost with a model that is made anew. A value is
its kind and a number that stands for it; a statistic is the search that wrote
it: none, the last, or an earlier one. `last` is auxiliary: what the caller set.
`threads` and `random_seed` are 64-bit integers that both backends narrow to an
`int` (`Cast`, of which `Half` is 2^31). That a library
may refuse a value is not modelled: `solve` then throws.

`MCSolver` puts the two halves side by side over one backend. They share no other
variable, so a behaviour is one of the search or one of the settings.

### `Decompositions`: the MiniZinc library under the flattener

The state is the flattener's: the domains, the calls still to be expanded
(`todo`), the rows and the constraints handed to its own pass, and the encodings
that are made once for a variable (`select`, `two`). An action is the expansion of
the first call by the predicate of its name, which reads the domains of that
moment. A predicate that needs an encoding puts its making first, as a function
with a `let` does. What the flattener does itself is external: it takes a bound
into the domain, makes a new Boolean a column, keeps one copy of a `promise_total`
function's result, and between two constraints may narrow any domain (`Narrow`).
`Holds` says what a call means; it is written from the registry's names and used
by the properties and for calls whose expansion is still to come.

Calls are at the root. Domains are finite and below the caps of `options.mzn`, a
column occurs in a call once (apart from array elements), divisors are not zero (the standard library's
`div_t` sees to that), `inverse` counts from 1, a product of two 0/1 columns is
not asked to be negative.

## Runs

Bounds are constants of the modules and named in their headers.

| run | question | bounds | states |
| --- | --- | --- | --- |
| `aliasing` | Do the forest, the columns and the layer ends agree with the classes at every step, does every build end, and does it implement `ColumnClasses`? | 4 decisions, 3 joins a build, 2 layers, 1 selector: two classes of two can be joined, also across a layer's end, and a third join meets a path longer than one | 159,023 |
| `layers` | Is the backend the model and its objective when a search starts, is what is unchanged kept, and does a start name the right variables? | five callers: 3 layers with one decision and one row or join each, in any order; 3 layers of decisions with runs that report a solution or none; rows above a base with holes and joins; 2 layers, 3 decisions and any objective, with constraints that are rejected; 2 layers with any warm starts. All but the third also have runs that are stopped before they start | 317,165 |
| `rows` | Does every column hold what its decisions allow, and do the rows of every form say what the constraint says? | 4 decisions of which 2 share a column, each of some 600 constraints between two others and across a layer; any three of 7 domains with up to one hole, two of them in one column; backends with and without indicators and products | 79,044 |
| `gurobi_rows` | Are Gurobi's sequences what the core posted, whenever it loads? | 2 columns, 4 rows, 3 layers: two rows of a kind on both sides of a cut, and a kind in between | 890,551 |
| `solver` | Is every solution reported once and the best last, does the status say what was proved, and is a stop told and acted on? Is what is read of an option what was set, does a search have it, and of which search is a statistic? | both backends; 3 solutions of which 2 tie and one costs 1 more, a gap of 0 or 1, 2 runs of one problem, the second with or without the limit: what one run leaves to the next is the library's limit and counts; 2 options set, between any number of runs, the second meets what the first left in the library; one value of every kind and of every range a check tells apart, and one too wide for an int of 3 bits | 567,998 |
| `decompositions` | Do the rows so far, with what is still to do, accept exactly the calls' solutions, is the pass handed its own, does flattening end? | three integers of up to 4 values and two Booleans; each predicate alone, and pairs that share an encoding, a value lost in between | 25,436 |
| `retracted`, `holes`, `stopped`, `gurobi_retry`, `search_limit`, `element` | What the code does not keep, see below | as small as shows it | |

The callers of `layers` are what holds next to the findings. Where a layer is
pushed on one that was never run, it brings a decision: without one, the
double posting that `retracted` shows breaks the same property. The caller with
holes brings none above them, because a decision above a hole is what `holes`
shows. No run of theirs is stopped while a layer stands in the place of a built one,
which is `stopped`. `StartIsOfSameVariable` speaks of starts after a run that
reported a solution; what is offered after the others is the third of the other
divergences.
In `gurobi_rows` `gurobi_dll` is not set while an unloaded model counts as built,
which is `gurobi_retry`. `decompositions` has every array at an index but those
that `element` is about (`OneOfTwo`).

`solver` and `decompositions` turn deadlock checking off: after `MaxRuns` runs the
solver is idle for good, and a model that is flattened is done.

### Findings

* `retracted`: `build` has no upper end. Called for the lowest of several layers
  it posts the rows of all of them; the recorded end of that layer counts them;
  the upper layers are then posted again. Retracting one leaves its first copy.
* `holes`: `intervals_` has one entry per model column, and is read at backend
  columns, which count the selectors of holes too. A layer pushed onto a model
  with a hole gets wrong bounds or a wrong encoding.
* `stopped`: a run that is asked to stop before it starts returns before it looks at
  the layers. With [A, B] built, B retracted and C pushed, such a run and then
  another: `layer_unchanged()` is 2, and the solver keeps the rows and columns of B
  for C. This is so for a caller whose `layer_unchanged()` counts every call of `run`;
  one that leaves stopped runs out does not meet it.
* `gurobi_retry`: a run whose Gurobi could not be loaded still counts its layers
  as built. Once `gurobi_dll` is corrected the next run posts nothing of them and
  searches an empty model.
* `search_limit`: a time limit that is set back to absent stays in the library
  and cuts off the next search.
* `element`: where two elements of an array of variables can be the value, one
  Boolean says which, and it is made of the index by `mip_two_valued_at`. The two
  are counted without the index's own domain. If the index can only be at one of
  them it is fixed by then, `x - (ub - lb) * b = lb` leaves `b` free, and the value
  may be the other element.

Other divergences, seen in the code and not stated as properties:

* A first build of a model whose upper layers have decisions always falls back to
  a full build and is not incremental afterwards, which is none of the three
  reasons `README.md` names (lines 112-119).
* `solutions_` counts from the first run on although `src/mip_solver.hh:77` says
  "Statistics of the last run."; after a run without a solution the objective of
  an earlier one is answered.
* The values offered as a start are of the last run *with a solution*, whereas
  `layer_unchanged()` counts from the last run: after one without a solution, or that
  failed or was stopped, a value may be offered for another variable than it is of.
  `mip_solver.cpp:249-253` says that such decisions "are the same variables they were
  last run". With [A, B] solved, B retracted and C pushed, a run without a solution,
  and another: B's value is offered for C.
* `threads` and `random_seed` are read back as they were set, as 64-bit integers, and
  narrowed to an `int` for the library (`highs_backend.cpp:234`, `:249`,
  `gurobi_backend.cpp:754`, `:762`): the search of a seed of 2^32 + 7 has 7. The
  property `SearchHasOptions` is about values that fit.
* The right-hand side of an implied row is read for its literal only
  (`mip_model.cpp:582`), the column of a decision is dropped and counts as 0. For
  the other linear constraints the right-hand side is read the same way and a
  decision's column subtracted.
* `README.md:130` says of warm starts that "a carried value overrides them". It
  does for the same decision. If a new decision with a warm start is joined to a
  kept one, their column is offered both values, the warm start's last.
* `nodes` is declared readable from a solution (`signatures.cpp:122`), and a
  solution does not answer it (`mip_solver.cpp:36`).
* A HiGHS solver accepts and reads back `all_solutions`, which it does not declare
  (`signatures.cpp:109`); the declared default -1 of the gaps is not a value they
  can be set back to.
* Gurobi's callback does not poll in the phases it has no case for
  (`gurobi_backend.cpp:733`), although the comment below says "Polled wherever the
  callback runs".
* `mip_domains.mzn:14` says "All sixteen must be declared", `options.mzn:11` "all
  seventeen"; sixteen are.
* `fzn_int_times` of two 0/1 columns lets the product be -1 if its domain does
  (`BitProduct` under *Proofs*).

A lexicographic objective is not set again on an extending build, and
`truncate` may delete a column it names; this looked like another. It is not: a
column an objective names belongs to a layer below what is kept, or the objective
changed and the build starts over. `layers` covers it.

## Fairness

`BuildEnds` is checked under weak fairness of `Step`, the steps a build takes by
itself: it is straight-line code in one thread that waits for nothing. Failing a
build and starting one depend on the caller and get no fairness.

`StopEndsSearch` is checked under `SearchFairness` of `Search`, which `FairSpec` and
`MCFairSpec` add to their steps. What `run` and `solve`
do outside the library is straight-line code and is weakly fair. Of the library
it is assumed that during a search with integer columns it runs the callback that
polls again and again (strong fairness, as other callbacks come in between), that
a callback returns, and that it ends some time after it was told to, between two
callbacks. Nothing makes it find a solution or a proof: a search without a stop
need not end. A stop that is requested in a search of continuous columns only is
left out: no case of either callback is sure to run there.

`FlatteningEnds` is checked under weak fairness of `Next`: the compiler goes on
as long as there is a call to expand.

## Proofs

Each proof goes by an inductive invariant, and the theorems about single
properties follow from it. They assume of the constants what the modules
name: bounds are natural numbers, slacks too, coefficients integers, costs positive, domains
lists or finite unions of intervals with a lower end. Every
strengthening was checked by TLC on the module's run before it was proved.

`Induction` has what the other proofs use of the natural numbers. The library's
induction theorems take an operator, which the provers here cannot instantiate; these
take a *set* of numbers instead, and so can be cited: the numbers up to which
something holds are a set, and if 0 is in it and each one's successor then all are.
From that, a loop given by a function of its turns has an outcome and only one
(`LoopExists`, `LoopUnique`), which is how the proofs reason about what a
recursive function computes.

`AliasingProofs` proves that `Aliasing`'s specification implies
its type invariant and its four invariants and the action property
`KeptColumnsStable`. What is
checked is not inductive as it stands: that roots lead their classes needs that
parents are of the same class and never above their child (`Forest`); that
columns are in the order of classes needs the same of the columns settled so far
while the loop runs (`LoopOrder`, `Numbered`), and that at the start of the loop
the decisions with a column are exactly those of the kept layers and no class
mixes them with new ones unless the loop is going to find out (`OwnedPrefix`);
that a cut keeps columns needs that the ends are ordered (`Ends`). `Finding`
and `Joining` say what a running `find` and a running join know.

It also proves that `Aliasing` implements `ColumnClasses`. The
numbering of the classes is one abstract step where the code has a loop, so the
invariant counts: the new columns so far are as many as the new classes so far,
and the column of each decision the loop has passed is the number of new classes
before its own (`Counted`). The loop only reaches its end if every decision
above the kept layers was new (`OldFirst`), and it began where the last kept
layer ends (`BuildsAboveKept`).

`IncrementalRunProofs` is about any callers, with any number of layers, decisions and
domains, that stop no run before it starts while a layer stands in the place of a
built one (`SeenStops`; `stopped` shows what is lost otherwise). All its theorems have
that condition: such a stop leaves the smaller of `unchanged` and `builtLayers` as it
was, which is how far the recorded ends are those of the layers there are. A build is analysed first: what each of its loops does from turn to turn,
and what a build that succeeds adds to what was there (`Extends`). Then:

* `Inv` gives the type invariant and `UnchangedPrefixKept`. It needs that the ends
  are in order and what is below one names nothing above it (`EndsInv`), and that
  while a run posts layers either each posted layer has an end or all were posted in
  one go (`Layerwise`, `Whole`): this is what makes `run`'s fallback safe.
* `RowsInv` gives `RowsAsFromNothing` and `EndsAreLayerEnds`: below the end of a
  kept layer are exactly its rows and those of the layers below, told by their tags.
  The theorems also have the condition `Once` (while a layer is posted, a layer above the
  next has a decision), as `retracted` shows the properties lost without it: a build of
  a layer posts those above it too unless one of them makes it start over. The
  callers of `layers` meet `Once`: they run after each layer, or bring a decision with
  each. `DeclaringRowsCorrect` proves that the second is enough.
* `ColumnsInv` gives `ColumnsAsFromNothing`: below the end of a kept layer the
  decisions share columns as that layer's joins say, each class led by its lowest
  member, the column of each admits what the domains of its class allow, and rows of
  holes above the end are over columns above it. The build's part is that a loop which
  gets through without asking for a full build has met in each new column all domains
  of its class (`LoopSettles`), with no class crossing into kept columns
  (`MixedRebuilds`), and that the hole rows admit what was met (`SettledAdmits`). The
  condition besides `Once` is `Lined`: when a layer is posted on another and
  decisions are to come, there are as many `intervals_` as columns. `holes` shows the
  property lost without it, as selectors are columns without an entry. The callers of
  `layers` meet it too: TLC finds `Once` and `Lined` true in every state of that run.
  `IntervalColumnsCorrect` proves both conditions for callers that bring a decision
  with each layer and whose domains are intervals, as four of the five callers of `layers`
  do: no column then gets selectors.
* `CostInv` gives `ObjectiveAsFromNothing` without a further condition: columns up to each
  end are priced for the objective that was built for, and a ranking names a decision
  of the lowest layer or the build starts over. This is why the missing reset below
  (see *Findings*) does no harm.
* `StartInv` gives `StartIsOfSameVariable`: after a run that reported a solution, the
  values remembered are of the decisions up to the end of the last unchanged layer,
  whatever was pushed and retracted since and however the runs before it ended.

`GurobiBackendProofs` proves `SequencesAgree`, `NothingRefused` and `FailureTold`
under `~Retries`, without which `gurobi_retry` shows the first of them lost. A
sequence lists a set of numbers in order, so that as many of its last elements
are above a cut as the set has elements above it (`AboveAreLast`); cutting is
then exact. Around that: sequences and core agree whenever the library is there
and the core is building or has built (`Agree`); the core builds without a library
only if it was tried in vain (`Decided`); columns never wait (`NoneWaits`); and the
recorded ends are in order, within what was posted (`EndsOrdered`) and one for each
layer (`LayersCounted`).

`SolverProofs` is about `Search` and `Settings`. It proves everything `solver` checks except `StopEndsSearch`. In the
search, the reported solutions are those found, every one dearer than the one
after it and the last the incumbent (`InSearch`); in the pool, what was reported
and what is left are disjoint and together the solutions that tie (`InPool`); the
streams and the pool exclude each other, so the pool starts with nothing
reported; before and after the final report, `Given` holds of what was reported
if the outcome is a solution. `CompleteIsProved` is proved for any slack; what it
says of ties needs that there is none.

`RowFormsProofs` begins with `ColumnDomains`: a column holds what its decisions allow, for
any domains given as ordered lists of intervals. The merge of two lists is the
work: what it has put out is, below both cursors, exactly the meeting of the two
lists (`MeetIsWanted`), and the lists stay ordered with a value between two
intervals left out (`ListsOrdered`).

It then proves all that `rows` checks, for any models, coefficients and
values. The invariant is in layers:

* `IInv` is `RowScratch`'s: a row names no column twice and is the sum of its terms.
  That rests on scratch which no row clears: no stamp is of a row to come
  (`NoFutureStamp`), so a row starts with none of its own, and the stamps and slots
  of the row being built index it exactly (`StampsIndexRow`). `DInv` is
  the one of `ColumnDomains`. That a build does to the scratch what `RowScratch` says and
  to the columns what `ColumnDomains` says is proved as two refinements.
* `ShapeInv`: a column with holes has no empty interval, and one of a Boolean is
  within 0..1 (so that 1 - x is the negation of x, and a clause is a sum). `HandInv`:
  what a build has in hand is what its phase says, and a constraint is refused only
  if it is not declared (`DeclaredIsPosted`). Together they are `BuildInv`.
* `Balanced`: while a row is built, what is posted of it plus what is still to be read
  minus its right-hand side is what the plan says, under every assignment. The step
  that reads a term keeps this, be it a literal, a new column or one named before.
* `ConstraintMeaning`: what was given for a constraint and the plans still queued say
  what the constraint says, for every assignment within the columns' bounds. For each
  form there is a lemma that its plans do, and each of them is an induction over
  the terms. It gives `RowsMeanConstraint`.
* `HolesMeaning`: likewise, the rows given for the holes and those still queued say
  what the plans of every column with holes say. That those accept a value exactly
  if it is in the column's domain gives `HolesMeanDomain`: one selector is 1, and the
  two bounds are then its interval's. Selectors of different columns are
  different columns (`SelectorsApart`), so the encodings can be met at once.

Of the settings, it is for any values offered and any width of an int. Each
option has a member of its own, set with it and at no other time (`SetLast`); the
library holds only what was offered or declared (`Offered`), or an int it was cast to
(`CastIsInt`); and a bound that can
be read was written after the statistics of the build (`BoundIsLast`).

`DecompositionsLemmas` and `DecompositionsProofs` are about the flattening of any
well-formed calls over finite domains (`ProgramsAssumption`), to any depth and with
domains narrowed anywhere in between. An expansion is given by operators over chosen
elements, and adds columns whose values are only said to exist, so there is a lemma
for each of the predicates. The invariant has two halves:

* `Formed` is what the columns and calls look like. Calls and rows are over columns
  there are, of the right kind (`Typed`); what only the library makes is not taken up
  from a model (`Wanted`); an encoding is of Booleans and covers its column's values,
  also after these have become fewer (`Selects`); a membership for the pass comes
  right after the bounds that make its values a part of the domain, and is neither empty nor
  of one value (`InTurn`); an element is looked up with nothing else in hand
  (`Alone`). It is inductive without conditions (`FlatteningIsFormed`) and gives
  `PassIsHandedItsOwn` (`PassHanded`).
* `Meant` is what they say. `Meaning` is the property itself: an assignment meets the
  calls taken up exactly if it can be completed to all columns along rows, memberships
  and calls to come (`Completed`; `AcceptsIs` shows that it is the recursive function that
  TLC evaluates). It is not inductive alone. A later call reads an encoding that an
  earlier one made, so the rows must make a selector 1 exactly at its value
  (`Encodes`); the element of the live positions says nothing of the others, so the
  index must have been narrowed to these (`Narrows`); and an encoding by one Boolean
  is made of a column that is at one of its bounds (`TwoEnds`).

A rewriting of the first call is shown to be `Sound` (whatever meets the new calls
meets the old one), `Complete` (what meets the old one can be completed to the new
columns) and `Shaped` (the new calls are well formed and in turn); `Expands` is all of
them, and that a step with it keeps the invariant is one lemma. `mip_two_valued_at`
and `mip_select` also extend the encodings (`Reworked`).

Two rewritings are not `Sound` for every domain, and the proof says what they need:

* `ElementOfTwo` (`mip_element.mzn:63`) needs both live positions to be the index's
  bounds (`BothEnds`). Without it `RowsMeanCalls` is lost, as `element` shows.
* The rows of a product of two 0/1 columns (`fzn_int_times.mzn:22-25`) give it no lower
  bound: 0, 0 and -1 meet them. Its domain must have nothing negative
  (`BitProduct`).

`Regular` says that a step of these two kinds finds what it needs, and
`RowsMeanTheirCalls` proves `RowsMeanCalls` for every behaviour of such steps: `Spec /\
[][Regular]_vars`. It is a condition on the two steps only; TLC finds `[][Regular]_vars`
true, and both kinds of step taken, on the programs of `decompositions`.
`TameProgramsMeanTheirCalls` has no condition on steps, only on the model
(`TamePrograms`): the arrays looked up at a variable index hold constants, and a product
of columns that may be 0/1 has nothing negative in its domain. An array of
constants takes another branch (`mip_element.mzn:61`), so the first step never
happens; that no rewriting makes a look-up of variables, or a product of 0/1
columns that the model did not ask for, is the invariant `Tame`. 931 of the 975
programs of `decompositions` are tame, and the other 44 are covered by the first
theorem.

Model-checked only: `BuildEnds`, `StopEndsSearch` and `FlatteningEnds`. Liveness under
fairness is out of the prover's reach.

## Plan

`Decompositions`: lex and element over Booleans, `regular`, `circuit` and
`cumulative`. Each comes with its lemma that it `Expands`; the invariant stays.

## Not modelled

The text of messages and errors, logging and timings; the argument types of
declarations; resolving the symbols of a loaded library. A backend that throws in
the middle of a build (`src/mip_solver.cpp:343`): what the exception becomes, and
whether the solver is run again after it, is decided outside this repository. The
value of a bound that is infinite (`src/mip_solver.cpp:171`). Of `mznlib/`: the
float forms, which differ from the integer ones in an epsilon that their own
comments call inexact; reified contexts, which the flattener makes; forms over
variable sets; and the decompositions that the plan names, whose instances are too
large for the flattener's steps to be explored one by one. `CMakeLists.txt` and
the tests are not modelled either: they are read for what they promise.
