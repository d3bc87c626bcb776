--------------------------- MODULE GurobiBackend ----------------------------
(***************************************************************************)
(* GurobiBackend (src/src/gurobi/gurobi_backend.cpp) under MipSolver::run: *)
(* a library opened at first need, a model in which additions wait         *)
(* until it is updated, and three constraint sequences for the one         *)
(* sequence of rows the core numbers.  The core (src/src/mip_solver.cpp)   *)
(* is what the backend sees of it: a reset or a cut, then columns and rows *)
(* layer by layer, then a start and the search.                            *)
(*                                                                         *)
(* A column or a row is its number in the core, from 1.  A model_ that was *)
(* not created yet is an empty one.                                        *)
(***************************************************************************)
EXTENDS Integers, Sequences, FiniteSets

CONSTANTS
    MaxColumns,     \* bound: columns of a model
    MaxRows,        \* bound: rows of a model
    MaxLayers,      \* bound: layers of a model
    Retries         \* the caller may set gurobi_dll on a built model that was not loaded

ASSUME BackendAssumption ==
    /\ MaxColumns \in Nat
    /\ MaxRows \in Nat
    /\ MaxLayers \in Nat
    /\ Retries \in BOOLEAN

VARIABLES
    lib,            \* GurobiBackend: env_ # nullptr, tried_, load_error_ # ""
    rowKind,        \* row_kind_
    held,           \* Gurobi's model as a query sees it: its four sequences
    waiting,        \* ... and what was added to them since the last update
    refused,        \* Gurobi was given an index it does not know
    pc,             \* the core
    rows,           \* the kinds of the rows the core has posted
    columns,        \* how many columns it has posted
    layerEnd,       \* layer_end_
    builtLayers,    \* built_layers_
    goal            \* how many layers the model being run has

model == <<rowKind, held, waiting>>
core  == <<pc, rows, columns, layerEnd, builtLayers, goal>>
vars  == <<lib, model, refused, core>>

RowKinds == {"linear", "indicator", "quadratic"}
Kept     == RowKinds \cup {"column"}
Empty    == [s \in Kept |-> <<>>]

\* GRBupdatemodel: what waits is added.
Updated == [s \in Kept |-> held[s] \o waiting[s]]

-----------------------------------------------------------------------------
Loaded   == [env |-> TRUE,  tried |-> TRUE, error |-> FALSE]
Unloaded == [env |-> FALSE, tried |-> TRUE, error |-> TRUE]

\* Faulty: a failed load is tried again at every call.
AskedAgain(l) == IF l.env THEN {l} ELSE {Loaded, Unloaded}

\* available(): at most one attempt to load, and whether it worked is not ours.
Asked(l) ==
    IF l.env \/ l.tried THEN {l} ELSE {Loaded, Unloaded}

-----------------------------------------------------------------------------
(* The backend's methods.                                                  *)
Unready == ~lib'.env /\ UNCHANGED <<model, refused>>

\* Faulty: the kinds of the discarded rows stay.
ResetKeepsKinds ==
    /\ lib' \in Asked(lib)
    /\ \/ Unready
       \/ lib'.env /\ held' = Empty /\ waiting' = Empty /\ UNCHANGED <<rowKind, refused>>

Reset ==
    /\ lib' \in Asked(lib)
    /\ \/ Unready
       \/ lib'.env /\ rowKind' = <<>> /\ held' = Empty /\ waiting' = Empty /\ UNCHANGED refused

NewColumns(n) == [i \in 1 .. n |-> columns + i]

\* Faulty: the columns wait.
AddColumnsLazily(n) ==
    /\ lib' \in Asked(lib)
    /\ \/ Unready
       \/ /\ lib'.env
          /\ waiting' = [waiting EXCEPT !["column"] = @ \o NewColumns(n)]
          /\ UNCHANGED <<rowKind, held, refused>>

\* add_columns, and the update set_start relies on.
AddColumns(n) ==
    /\ lib' \in Asked(lib)
    /\ \/ Unready
       \/ lib'.env /\ n = 0 /\ UNCHANGED <<model, refused>>
       \/ /\ lib'.env /\ n > 0
          /\ held' = [Updated EXCEPT !["column"] = @ \o NewColumns(n)]
          /\ waiting' = Empty
          /\ UNCHANGED <<rowKind, refused>>

\* add_row, add_indicator_row, add_quadratic_row: nothing is updated.
AddRow(kind) ==
    /\ lib' \in Asked(lib)
    /\ \/ Unready
       \/ /\ lib'.env
          /\ waiting' = [waiting EXCEPT ![kind] = Append(@, Len(rows) + 1)]
          /\ rowKind' = Append(rowKind, kind)
          /\ UNCHANGED <<held, refused>>

\* drop_last: the last n, or as many as there are.
DropLast(q, n) == SubSeq(q, 1, IF n < Len(q) THEN Len(q) - n ELSE 0)

\* Faulty: takes the core's row number for that of a linear row.
DoomedByNumber(s, firstRow, firstCol, q) ==
    CASE s = "linear" -> IF Len(q) > firstRow THEN Len(q) - firstRow ELSE 0
      [] s = "column" -> IF Len(q) > firstCol THEN Len(q) - firstCol ELSE 0
      [] OTHER -> 0

\* How many of a sequence go with the suffix.  Gurobi counts the columns.
Doomed(s, firstRow, firstCol, q) ==
    IF s # "column"
    THEN Cardinality({r \in firstRow + 1 .. Len(rowKind) : rowKind[r] = s})
    ELSE IF Len(q) > firstCol THEN Len(q) - firstCol ELSE 0

\* truncate: what waits goes into the model first, and the deletions do last.
Truncate(firstRow, firstCol) ==
    /\ lib' \in Asked(lib)
    /\ \/ Unready
       \/ /\ lib'.env
          /\ held' = [s \in Kept |->
                         DropLast(Updated[s], Doomed(s, firstRow, firstCol, Updated[s]))]
          /\ waiting' = Empty
          /\ rowKind' = SubSeq(rowKind, 1, IF firstRow < Len(rowKind) THEN firstRow
                                           ELSE Len(rowKind))
          /\ UNCHANGED refused

\* set_start sets an attribute of columns: they have to be in the model.
SetStart(cols) ==
    /\ lib' \in Asked(lib)
    /\ \/ Unready
       \/ /\ lib'.env
          /\ refused' = (refused \/ ~(cols \subseteq 1 .. Len(held["column"])))
          /\ UNCHANGED model

\* solve, up to GRBoptimize.
Solve ==
    /\ lib' \in Asked(lib)
    /\ \/ Unready
       \/ /\ lib'.env
          /\ held' = Updated /\ waiting' = Empty
          /\ UNCHANGED <<rowKind, refused>>

\* Faulty: a new path does not allow a new attempt.
SetDllStays == lib' = [lib EXCEPT !.error = FALSE]

\* option_set("gurobi_dll"): only the next method that needs it loads it.
SetDll == lib' = [lib EXCEPT !.tried = FALSE, !.error = FALSE]

-----------------------------------------------------------------------------
(* The core.                                                               *)
Init ==
    /\ lib = [env |-> FALSE, tried |-> FALSE, error |-> FALSE]
    /\ rowKind = <<>> /\ held = Empty /\ waiting = Empty /\ refused = FALSE
    /\ pc = "idle" /\ rows = <<>> /\ columns = 0
    /\ layerEnd = <<>> /\ builtLayers = 0 /\ goal = 0

\* The caller sets gurobi_dll, or another option of Gurobi's, between runs.
OptionSetDll ==
    /\ pc = "idle"
    /\ Retries \/ builtLayers = 0 \/ lib.env
    /\ SetDll
    /\ UNCHANGED <<model, refused, core>>

OptionSetOther ==
    /\ pc = "idle"
    /\ lib' \in Asked(lib)
    /\ UNCHANGED <<model, refused, core>>

\* run keeps as much as it can of what was built, from nothing to all of it.
RunFromNothing ==
    /\ pc = "idle"
    /\ Reset
    /\ goal' \in 1 .. MaxLayers
    /\ pc' = "columns" /\ rows' = <<>> /\ columns' = 0 /\ layerEnd' = <<>>
    /\ UNCHANGED builtLayers

RunOnPrefix(keep) ==
    /\ pc = "idle"
    /\ keep < builtLayers
    /\ Truncate(layerEnd[keep].rows, layerEnd[keep].columns)
    /\ rows' = SubSeq(rows, 1, layerEnd[keep].rows)
    /\ columns' = layerEnd[keep].columns
    /\ layerEnd' = SubSeq(layerEnd, 1, keep)
    /\ goal' \in keep .. MaxLayers
    /\ pc' = IF keep = goal' THEN "built" ELSE "columns"
    /\ UNCHANGED builtLayers

RunOnAll ==
    /\ pc = "idle"
    /\ builtLayers > 0
    /\ goal' \in builtLayers .. MaxLayers
    /\ pc' = IF builtLayers = goal' THEN "built" ELSE "columns"
    /\ UNCHANGED <<lib, model, refused, rows, columns, layerEnd, builtLayers>>

\* A layer's build: its columns in one batch, then its rows one by one.
BuildColumns ==
    /\ pc = "columns"
    /\ \E n \in 0 .. MaxColumns - columns :
          /\ AddColumns(n)
          /\ columns' = columns + n
    /\ pc' = "rows"
    /\ UNCHANGED <<rows, layerEnd, builtLayers, goal>>

BuildRow ==
    /\ pc = "rows"
    /\ Len(rows) < MaxRows
    /\ \E kind \in RowKinds :
          /\ AddRow(kind)
          /\ rows' = Append(rows, kind)
    /\ UNCHANGED <<pc, columns, layerEnd, builtLayers, goal>>

LayerBuilt ==
    /\ pc = "rows"
    /\ goal # 0
    /\ layerEnd' = Append(layerEnd, [rows |-> Len(rows), columns |-> columns])
    /\ pc' = IF Len(layerEnd') = goal THEN "built" ELSE "columns"
    /\ UNCHANGED <<lib, model, refused, rows, columns, builtLayers, goal>>

\* kNeedsFullBuild, which a layer's build only says before its columns: the
\* backend is emptied and all layers are one build.  goal is 0 for that.
StartOver ==
    /\ pc = "columns"
    /\ layerEnd # <<>>
    /\ Reset
    /\ rows' = <<>> /\ columns' = 0 /\ layerEnd' = <<>> /\ goal' = 0
    /\ UNCHANGED <<pc, builtLayers>>

AllBuilt ==
    /\ pc = "rows"
    /\ goal = 0
    /\ pc' = "built"
    /\ UNCHANGED <<lib, model, refused, rows, columns, layerEnd, builtLayers, goal>>

BuildFails ==
    /\ pc \in {"columns", "rows"}
    /\ Reset
    /\ rows' = <<>> /\ columns' = 0 /\ layerEnd' = <<>> /\ builtLayers' = 0
    /\ pc' = "idle"
    /\ UNCHANGED goal

OfferStart ==
    /\ pc = "built"
    /\ \E cols \in SUBSET (1 .. columns) : cols # {} /\ SetStart(cols)
    /\ pc' = "start"
    /\ builtLayers' = Len(layerEnd)
    /\ UNCHANGED <<rows, columns, layerEnd, goal>>

NoStart ==
    /\ pc = "built"
    /\ pc' = "start"
    /\ builtLayers' = Len(layerEnd)
    /\ UNCHANGED <<lib, model, refused, rows, columns, layerEnd, goal>>

RunSolve ==
    /\ pc = "start"
    /\ Solve
    /\ pc' = "idle"
    /\ UNCHANGED <<rows, columns, layerEnd, builtLayers, goal>>

Next ==
    \/ OptionSetDll \/ OptionSetOther
    \/ RunFromNothing \/ RunOnAll
    \/ \E keep \in 1 .. Len(layerEnd) : RunOnPrefix(keep)
    \/ BuildColumns \/ BuildRow \/ LayerBuilt \/ StartOver \/ AllBuilt \/ BuildFails
    \/ OfferStart \/ NoStart \/ RunSolve

Spec == Init /\ [][Next]_vars

-----------------------------------------------------------------------------
TypeOK ==
    /\ lib \in [env : BOOLEAN, tried : BOOLEAN, error : BOOLEAN]
    /\ rowKind \in Seq(RowKinds) /\ Len(rowKind) <= MaxRows
    /\ held \in [Kept -> Seq(Nat)]
    /\ waiting \in [Kept -> Seq(Nat)]
    /\ refused \in BOOLEAN
    /\ pc \in {"idle", "columns", "rows", "built", "start"}
    /\ rows \in Seq(RowKinds) /\ Len(rows) <= MaxRows
    /\ columns \in 0 .. MaxColumns
    /\ layerEnd \in Seq([rows : Nat, columns : Nat])
    /\ builtLayers \in 0 .. MaxLayers /\ goal \in 0 .. MaxLayers

\* What the core has posted to a sequence.
Posted(s) ==
    IF s = "column" THEN 1 .. columns ELSE {r \in 1 .. Len(rows) : rows[r] = s}

\* q lists the numbers in S, each once, in their order.
Lists(q, S) ==
    /\ {q[i] : i \in 1 .. Len(q)} = S
    /\ \A i, j \in 1 .. Len(q) : i < j => q[i] < q[j]

\* "Each sequence loses as many rows as the doomed suffix holds of its kind":
\* with what waits, Gurobi's sequences are the core's columns and rows, each
\* once, in order and in its kind's sequence, after any history of cuts,
\* resets, failed builds and failed loads.
SequencesAgree ==
    lib.env /\ (pc # "idle" \/ builtLayers # 0) =>
        /\ rowKind = rows
        /\ \A s \in Kept : Lists(Updated[s], Posted(s))

\* "An attribute over columns that are already in the model": no start is set
\* on a column Gurobi does not know yet.
NothingRefused == ~refused

\* "whatever went wrong is kept and returned from both": a solve that cannot
\* load Gurobi always has a message, and none is left of an earlier path.
FailureTold == lib.error <=> lib.tried /\ ~lib.env

\* A search is over what the core has posted: the solution it reports is one
\* of the model, not of what happened to be in Gurobi.
SearchIsOverPosted ==
    [][RunSolve /\ lib'.env => \A s \in Kept : Lists(held'[s], Posted(s))]_vars

=============================================================================
