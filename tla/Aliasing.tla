------------------------------ MODULE Aliasing ------------------------------
(***************************************************************************)
(* The aliasing pre-pass and the column numbering of MipModel::build       *)
(* (src/src/mip_model.cpp), with the layer ends MipSolver::run records     *)
(* and cuts back to (src/src/mip_solver.cpp).                              *)
(*                                                                         *)
(* bool_to_int and int_to_float join two decisions: the classes they form  *)
(* are kept in a union-find forest (parent) whose root is the first        *)
(* decision of the class, and every class gets one column of the backend.  *)
(* A build is a sequence of small steps here: every iteration of find's    *)
(* loop, every find of a join, and every iteration of the column loop is   *)
(* an action.  The joining constraints name any decisions, so every model  *)
(* is covered.                                                             *)
(*                                                                         *)
(* leader is an auxiliary variable: the classes as the joins define them,  *)
(* merged by relabelling.  No guard reads it.                              *)
(***************************************************************************)
EXTENDS Integers, Sequences

CONSTANTS
    MaxDecisions,   \* bound: decisions of the model
    MaxJoins,       \* bound: joining constraints one build reads
    MaxLayers,      \* bound: layers with a recorded end
    MaxSelectors    \* bound: hole selectors one build adds after its columns

ASSUME BoundsAssumption ==
    /\ MaxDecisions \in Nat
    /\ MaxJoins \in Nat
    /\ MaxLayers \in Nat
    /\ MaxSelectors \in Nat

VARIABLES
    parent,     \* parent_: the forest, a function on the decisions
    column,     \* column_: decision -> column, -1 while it has none
    count,      \* column_.size()
    columns,    \* columns_: base_column until the columns are handed over
    layerEnd,   \* layer_end_, its decisions and columns fields
    leader,     \* auxiliary: the first decision of each class
    pc,         \* where the build is
    extending,  \* build's argument
    fallback,   \* this build is the one run starts after kNeedsFullBuild
    first,      \* first_decision
    todo,       \* joining constraints pass 1 has still to read
    x, y,       \* the two decisions of the join being processed
    ask,        \* which of the build's calls of find is running
    cur,        \* find's local d
    rx,         \* the root an earlier find returned
    next,       \* the column loop's d
    created     \* obj.size() in the column loop

model == <<parent, column, count, columns, layerEnd, leader>>
args  == <<extending, fallback, first>>
join  == <<x, y, rx>>
finds == <<ask, cur>>
loop  == <<next, created>>
vars  == <<model, pc, args, todo, join, finds, loop>>

Below(n)    == 0 .. n - 1
Joins(n)    == 0 .. IF n = 0 THEN 0 ELSE MaxJoins
Lower(a, b) == IF a < b THEN a ELSE b
Upper(a, b) == IF a < b THEN b ELSE a

Empty == [d \in Below(0) |-> 0]

LayerEnd(d, c) == [decisions |-> d, columns |-> c]
Kept == layerEnd[Len(layerEnd)]

\* Locals that go out of scope are set back, so that dead values do not make
\* states differ.
EndFind == ask' = "none" /\ cur' = 0
EndJoin == EndFind /\ x' = 0 /\ y' = 0 /\ rx' = 0
EndLoop == next' = 0 /\ created' = 0
Return  == /\ EndJoin /\ EndLoop
           /\ extending' = FALSE /\ fallback' = FALSE /\ first' = 0 /\ todo' = 0

-----------------------------------------------------------------------------
(* run(): a MipModel{} that has built nothing.                             *)
Init ==
    /\ parent = Empty /\ column = Empty /\ leader = Empty
    /\ count = 0 /\ columns = 0 /\ layerEnd = <<>>
    /\ pc = "idle"
    /\ extending = FALSE /\ fallback = FALSE /\ first = 0
    /\ todo = 0 /\ x = 0 /\ y = 0 /\ rx = 0
    /\ ask = "none" /\ cur = 0
    /\ next = 0 /\ created = 0

\* A build of the whole model into an empty backend.
BuildWhole(n) ==
    /\ parent' = [d \in Below(n) |-> d]
    /\ leader' = [d \in Below(n) |-> d]
    /\ column' = [d \in Below(n) |-> -1]
    /\ count' = n
    /\ columns' = 0
    /\ layerEnd' = <<>>
    /\ extending' = FALSE
    /\ first' = 0
    /\ todo' \in Joins(n)
    /\ pc' = "join"
    /\ UNCHANGED <<join, finds, loop>>

\* A run that keeps nothing of the last one builds its lowest layer.
BuildFull ==
    /\ pc = "idle"
    /\ \E n \in 0 .. MaxDecisions : BuildWhole(n)
    /\ fallback' = FALSE

\* A layer above the kept ones: decisions from the last kept end on.
Extend ==
    /\ pc = "idle"
    /\ layerEnd # <<>>
    /\ Len(layerEnd) < MaxLayers
    /\ \E n \in Kept.decisions .. MaxDecisions :
        /\ parent' = [d \in Below(n) |->
                         IF d < Kept.decisions THEN parent[d] ELSE d]
        /\ leader' = [d \in Below(n) |->
                         IF d < Kept.decisions THEN leader[d] ELSE d]
        /\ column' = [d \in Below(n) |-> IF d < count THEN column[d] ELSE -1]
        /\ count' = n
        /\ todo' \in Joins(n)
    /\ first' = Kept.decisions
    /\ extending' = TRUE
    /\ fallback' = FALSE
    /\ pc' = "join"
    /\ UNCHANGED <<columns, layerEnd, join, finds, loop>>

\* Faulty: starts over by extending the same layer once more.
BuildFallbackExtends ==
    /\ pc = "rebuild"
    /\ extending' = TRUE /\ first' = Kept.decisions
    /\ todo' \in Joins(count)
    /\ fallback' = TRUE
    /\ pc' = "join"
    /\ UNCHANGED <<model, join, finds, loop>>

\* kNeedsFullBuild: run starts over with the same model.
BuildFallback ==
    /\ pc = "rebuild"
    /\ BuildWhole(count)
    /\ fallback' = TRUE

\* build returns an error: run drops the backend and the model.
BuildFails ==
    /\ pc \in {"join", "columns"}
    /\ parent' = Empty /\ column' = Empty /\ leader' = Empty
    /\ count' = 0 /\ columns' = 0 /\ layerEnd' = <<>>
    /\ pc' = "idle"
    /\ Return

-----------------------------------------------------------------------------
(* find: path halving.                                                     *)
Find(question, d) ==
    /\ pc' = "find"
    /\ ask' = question
    /\ cur' = d

Halve ==
    /\ pc = "find"
    /\ parent[cur] # cur
    /\ parent' = [parent EXCEPT ![cur] = parent[parent[cur]]]
    /\ cur' = parent'[cur]
    /\ UNCHANGED <<column, count, columns, layerEnd, leader, pc, args, todo,
                   join, ask, loop>>

Found(question) ==
    /\ pc = "find"
    /\ ask = question
    /\ parent[cur] = cur

-----------------------------------------------------------------------------
(* Pass 1.                                                                 *)
ReadJoin ==
    /\ pc = "join"
    /\ todo > 0
    /\ todo' = todo - 1
    /\ x' \in Below(count) /\ y' \in Below(count)
    /\ Find(IF extending THEN "owns x" ELSE "a", x')
    /\ UNCHANGED <<model, args, rx, loop>>

\* column_[find(x)] >= 0 && column_[find(y)] >= 0 && find(x) != find(y)
OwnsX ==
    /\ Found("owns x")
    /\ IF column[cur] >= 0 THEN Find("owns y", y) ELSE Find("a", x)
    /\ UNCHANGED <<model, args, todo, join, loop>>

OwnsY ==
    /\ Found("owns y")
    /\ IF column[cur] >= 0 THEN Find("root x", x) ELSE Find("a", x)
    /\ UNCHANGED <<model, args, todo, join, loop>>

RootX ==
    /\ Found("root x")
    /\ rx' = cur
    /\ Find("root y", y)
    /\ UNCHANGED <<model, args, todo, x, y, loop>>

\* Faulty: find(x) and find(y) are not compared.
SameRootUnchecked ==
    /\ Found("root y")
    /\ Find("a", x)
    /\ UNCHANGED <<model, args, todo, join, loop>>

SameRoot ==
    /\ Found("root y")
    /\ rx = cur
    /\ Find("a", x)
    /\ UNCHANGED <<model, args, todo, join, loop>>

\* Two columns the backend already has cannot be merged.
OwnAColumnApiece ==
    /\ Found("root y")
    /\ rx # cur
    /\ pc' = "rebuild"
    /\ Return
    /\ UNCHANGED model

UniteA ==
    /\ Found("a")
    /\ rx' = cur
    /\ Find("b", y)
    /\ UNCHANGED <<model, args, todo, x, y, loop>>

\* The classes of two roots become the class of the lower one.
Merge(f, ra, rb) ==
    [d \in DOMAIN f |-> IF f[d] \in {ra, rb} THEN Lower(ra, rb) ELSE f[d]]

\* Faulty: the second root goes under the first, whichever is lower.
LinkAsGiven(f, ra, rb) == [f EXCEPT ![rb] = ra]

Link(f, ra, rb) == [f EXCEPT ![Upper(ra, rb)] = Lower(ra, rb)]

UniteB ==
    /\ Found("b")
    /\ parent' = Link(parent, rx, cur)
    /\ leader' = Merge(leader, rx, cur)
    /\ pc' = "join"
    /\ EndJoin
    /\ UNCHANGED <<column, count, columns, layerEnd, args, todo, loop>>

-----------------------------------------------------------------------------
(* The column loop.                                                        *)
StartColumns ==
    /\ pc = "join"
    /\ todo = 0
    /\ next' = first
    /\ created' = 0
    /\ pc' = "columns"
    /\ UNCHANGED <<model, args, todo, join, finds>>

ReadDecision ==
    /\ pc = "columns"
    /\ next < count
    /\ Find("column", next)
    /\ UNCHANGED <<model, args, todo, join, loop>>

\* Faulty: a class with a column of an earlier run gets another.
NewColumnAlways ==
    /\ Found("column")
    /\ column[cur] < columns
    /\ column' = [column EXCEPT ![cur] = columns + created,
                                ![next] = columns + created]
    /\ created' = created + 1
    /\ next' = next + 1
    /\ pc' = "columns"
    /\ EndFind
    /\ UNCHANGED <<parent, count, columns, layerEnd, leader, args, todo, join>>

\* Faulty: columns are numbered by decision, not by how many there are.
NewColumnByDecision ==
    /\ Found("column")
    /\ column[cur] < 0
    /\ column' = [column EXCEPT ![cur] = columns + next - first,
                                ![next] = columns + next - first]
    /\ created' = created + 1
    /\ next' = next + 1
    /\ pc' = "columns"
    /\ EndFind
    /\ UNCHANGED <<parent, count, columns, layerEnd, leader, args, todo, join>>

NewColumn ==
    /\ Found("column")
    /\ column[cur] < 0
    /\ column' = [column EXCEPT ![cur] = columns + created,
                                ![next] = columns + created]
    /\ created' = created + 1
    /\ next' = next + 1
    /\ pc' = "columns"
    /\ EndFind
    /\ UNCHANGED <<parent, count, columns, layerEnd, leader, args, todo, join>>

\* Faulty: only the root of a class is given its column.
SharedColumnOfRoot ==
    /\ Found("column")
    /\ column[cur] >= columns
    /\ next' = next + 1
    /\ pc' = "columns"
    /\ EndFind
    /\ UNCHANGED <<parent, column, count, columns, layerEnd, leader, args, todo, join,
                   created>>

SharedColumn ==
    /\ Found("column")
    /\ column[cur] >= columns
    /\ column' = [column EXCEPT ![next] = column[cur]]
    /\ next' = next + 1
    /\ pc' = "columns"
    /\ EndFind
    /\ UNCHANGED <<parent, count, columns, layerEnd, leader, args, todo, join,
                   created>>

\* A column of an earlier run cannot be narrowed.
OldColumn ==
    /\ Found("column")
    /\ column[cur] >= 0 /\ column[cur] < columns
    /\ pc' = "rebuild"
    /\ Return
    /\ UNCHANGED model

\* Faulty: the end recorded is the layer's beginning.
HandOverEarly ==
    /\ pc = "columns"
    /\ next = count
    /\ \E s \in 0 .. MaxSelectors :
        /\ columns' = columns + created + s
        /\ IF fallback
           THEN layerEnd' = layerEnd
           ELSE \E e \in first .. count :
                    layerEnd' = Append(layerEnd, LayerEnd(e, columns))
    /\ pc' = "idle"
    /\ Return
    /\ UNCHANGED <<parent, column, count, leader>>

\* The columns and the hole selectors are handed over, the rows are posted,
\* and run records the layer's end, unless it had to start over.
HandOver ==
    /\ pc = "columns"
    /\ next = count
    /\ \E s \in 0 .. MaxSelectors :
        /\ columns' = columns + created + s
        /\ IF fallback
           THEN layerEnd' = layerEnd
           ELSE \E e \in first .. count :
                    layerEnd' = Append(layerEnd, LayerEnd(e, columns'))
    /\ pc' = "idle"
    /\ Return
    /\ UNCHANGED <<parent, column, count, leader>>

-----------------------------------------------------------------------------
(* truncate, called by run when layers were retracted.                     *)
Cut(f, n) == [d \in Below(n) |-> f[d]]

\* Faulty: column_ is not cut.
TruncateKeepsColumns ==
    /\ pc = "idle"
    /\ \E k \in 1 .. Len(layerEnd) - 1 :
        /\ parent' = Cut(parent, layerEnd[k].decisions)
        /\ leader' = Cut(leader, layerEnd[k].decisions)
        /\ count' = layerEnd[k].decisions
        /\ columns' = layerEnd[k].columns
        /\ layerEnd' = SubSeq(layerEnd, 1, k)
    /\ UNCHANGED <<column, pc, args, todo, join, finds, loop>>

Truncate ==
    /\ pc = "idle"
    /\ \E k \in 1 .. Len(layerEnd) - 1 :
        /\ parent' = Cut(parent, layerEnd[k].decisions)
        /\ leader' = Cut(leader, layerEnd[k].decisions)
        /\ column' = Cut(column, layerEnd[k].decisions)
        /\ count' = layerEnd[k].decisions
        /\ columns' = layerEnd[k].columns
        /\ layerEnd' = SubSeq(layerEnd, 1, k)
    /\ UNCHANGED <<pc, args, todo, join, finds, loop>>

-----------------------------------------------------------------------------
Answer ==
    \/ OwnsX \/ OwnsY \/ RootX \/ SameRoot \/ OwnAColumnApiece
    \/ UniteA \/ UniteB
    \/ NewColumn \/ SharedColumn \/ OldColumn

\* What a call of run does by itself once it has begun to build.
Step ==
    \/ Halve \/ Answer
    \/ ReadJoin \/ StartColumns \/ ReadDecision \/ HandOver \/ BuildFallback

\* What depends on the caller: a run with a new model, or an error in it.
Next ==
    \/ Step
    \/ BuildFull \/ Extend \/ Truncate \/ BuildFails

Spec == Init /\ [][Next]_vars

\* The build is straight-line code: once started it goes on.
FairSpec == Spec /\ WF_vars(Step)

-----------------------------------------------------------------------------
(* Types.                                                                  *)
Pcs == {"idle", "join", "find", "columns", "rebuild"}
Questions == {"owns x", "owns y", "root x", "root y", "a", "b", "column"}

TypeOK ==
    /\ count \in 0 .. MaxDecisions
    /\ parent \in [Below(count) -> Below(count)]
    /\ leader \in [Below(count) -> Below(count)]
    /\ column \in [Below(count) -> Nat \cup {-1}]
    /\ columns \in Nat
    /\ layerEnd \in Seq([decisions : Nat, columns : Nat])
    /\ pc \in Pcs
    /\ extending \in BOOLEAN /\ fallback \in BOOLEAN
    /\ first \in Nat
    /\ todo \in 0 .. MaxJoins
    /\ x \in Nat /\ y \in Nat /\ rx \in Nat /\ cur \in Nat
    /\ ask \in Questions \cup {"none"}
    /\ next \in Nat /\ created \in Nat

-----------------------------------------------------------------------------
(* Properties.                                                             *)

\* unite's comment: "a root is always the first decision of its class".  The
\* decisions find stops at are exactly the first decisions of the classes the
\* joins define, whatever path halving and linking did to the forest.
RootsLead ==
    \A d \in Below(count) : parent[d] = d <=> leader[d] = d

\* When a build is over, the order of the columns is the order of the classes:
\* two decisions share a column exactly when they were joined, directly or
\* through others, and otherwise their columns follow their classes' first
\* decisions, across all the layers built so far.
ColumnOrder ==
    pc = "idle" =>
        \A d, e \in Below(count) : leader[d] < leader[e] <=> column[d] < column[e]

\* After a build every decision has a column the backend was given: no
\* dangling index, and none left without.
EveryDecisionHasColumn ==
    pc = "idle" => \A d \in Below(count) : column[d] \in Below(columns)

\* A recorded layer end cuts the decisions and the columns at the same place:
\* what is below the decisions' cut stays below the columns' cut, at all times
\* until the end is dropped, so truncate leaves no decision without its column.
CutKeepsColumns ==
    \A k \in 1 .. Len(layerEnd) :
        /\ layerEnd[k].decisions <= count /\ layerEnd[k].columns <= columns
        /\ \A d \in Below(layerEnd[k].decisions) :
              column[d] \in Below(layerEnd[k].columns)

\* "Everything below them keeps the columns and rows it already had": while a
\* layer's end is kept, no step changes the column of a decision below it.
KeptColumnsStable ==
    [][\A k \in 1 .. Len(layerEnd) :
          k <= Len(layerEnd') =>
              \A d \in Below(layerEnd[k].decisions) :
                  /\ d < count'
                  /\ column'[d] = column[d]]_vars

\* Every find ends, and so does every build, also one that starts over: path
\* halving makes progress on any forest the joins can make, and the second
\* build never asks for a third.
BuildEnds == pc # "idle" ~> pc = "idle"

-----------------------------------------------------------------------------
(* The abstract specification.  A column the loop has assigned in the      *)
(* build that is running is not visible before it is handed over.          *)
HandedOver == [d \in Below(count) |-> IF column[d] < columns THEN column[d] ELSE -1]

Classes == INSTANCE ColumnClasses WITH class <- leader, column <- HandedOver

\* A build of many small steps is one numbering of the classes: the forest, the
\* order of the finds and the early exits to a full build are invisible.
ImplementsClasses == Classes!Spec

=============================================================================
