---------------------------- MODULE ColumnClasses ----------------------------
(***************************************************************************)
(* What the aliasing pre-pass promises, without a forest and without       *)
(* loops: decisions form classes, a join merges two classes at once, and   *)
(* a build numbers the classes that have no column yet in one step, the    *)
(* column of a class being the number of classes before it.  A layer that  *)
(* is kept is never renumbered.  Aliasing implements this specification.   *)
(***************************************************************************)
EXTENDS Integers, Sequences, FiniteSets

CONSTANTS MaxDecisions, MaxSelectors

VARIABLES
    class,      \* decision -> the first decision of its class
    column,     \* decision -> its column, -1 while it has none
    columns,    \* columns given out
    layerEnd    \* where each kept layer ends

vars == <<class, column, columns, layerEnd>>

Below(n) == 0 .. n - 1
Decisions == DOMAIN column

\* The decisions of the kept layers.
KeptDecisions ==
    IF layerEnd = <<>> THEN {} ELSE Below(layerEnd[Len(layerEnd)].decisions)

Owned == {d \in Decisions : column[d] >= 0}

\* The first decisions of the classes without a column, below d.
Fresh(d) == {r \in Decisions \ Owned : class[r] = r /\ r < d}

Init == class = <<>> /\ column = <<>> /\ columns = 0 /\ layerEnd = <<>>

\* All of what was built is dropped.
Drop ==
    /\ class' = <<>> /\ column' = <<>>
    /\ columns' = 0 /\ layerEnd' = <<>>

StartOver ==
    /\ \E n \in 0 .. MaxDecisions :
        /\ class' = [d \in Below(n) |-> d]
        /\ column' = [d \in Below(n) |-> -1]
    /\ columns' = 0 /\ layerEnd' = <<>>

\* The kept layers' decisions stay what they are, new ones are added.
Grow ==
    /\ layerEnd # <<>>
    /\ Owned = Decisions
    /\ \E n \in 0 .. MaxDecisions :
        /\ KeptDecisions \subseteq Below(n)
        /\ class' = [d \in Below(n) |-> IF d \in KeptDecisions THEN class[d] ELSE d]
        /\ column' = [d \in Below(n) |-> IF d \in Decisions THEN column[d] ELSE -1]
    /\ UNCHANGED <<columns, layerEnd>>

\* Two classes become one, unless both already have a column.
Join ==
    /\ \E x, y \in Decisions :
        /\ class[x] = class[y] \/ {class[x], class[y]} \cap Owned # {class[x], class[y]}
        /\ LET both == {class[x], class[y]}
               root == CHOOSE r \in both : \A s \in both : r <= s
           IN  class' = [d \in Decisions |-> IF class[d] \in both THEN root ELSE class[d]]
    /\ UNCHANGED <<column, columns, layerEnd>>

\* Every class without a column gets the next one, in order; no class mixes
\* decisions of the kept layers with new ones.
Number ==
    /\ Owned = KeptDecisions
    /\ \A d \in Decisions \ Owned : class[d] \notin Owned
    /\ column' = [d \in Decisions |->
                     IF d \in Owned THEN column[d]
                     ELSE columns + Cardinality(Fresh(class[d]))]
    /\ \E s \in 0 .. MaxSelectors :
          columns' = columns + Cardinality({r \in Decisions \ Owned : class[r] = r}) + s
    /\ \/ layerEnd' = layerEnd /\ layerEnd = <<>>
       \/ \E e \in 0 .. MaxDecisions :
            /\ KeptDecisions \subseteq Below(e)
            /\ Below(e) \subseteq Decisions
            /\ layerEnd' = Append(layerEnd, [decisions |-> e, columns |-> columns'])
    /\ class' = class

\* Layers are retracted: what is below the last kept end stays.
Retract ==
    /\ Owned = Decisions
    /\ \E k \in 1 .. Len(layerEnd) - 1 :
        /\ class' = [d \in Below(layerEnd[k].decisions) |-> class[d]]
        /\ column' = [d \in Below(layerEnd[k].decisions) |-> column[d]]
        /\ columns' = layerEnd[k].columns
        /\ layerEnd' = SubSeq(layerEnd, 1, k)

Next == Drop \/ StartOver \/ Grow \/ Join \/ Number \/ Retract

Spec == Init /\ [][Next]_vars

=============================================================================
