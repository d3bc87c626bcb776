----------------------------- MODULE RowScratch -----------------------------
(***************************************************************************)
(* The row scratch of MipModel (src/src/mip_model.cpp): row_begin, row_add *)
(* and row_post, and the scratch's assignment at the start of every        *)
(* build's rows.  slot and stamp are never cleared between rows: stamp     *)
(* tells whether slot's answer is of the row that is being built.          *)
(*                                                                         *)
(* sum is an auxiliary variable: the row as a weighted sum, one            *)
(* coefficient per column that was added.  No guard reads it.              *)
(***************************************************************************)
EXTENDS Integers, Sequences

CONSTANTS
    MaxColumns,     \* bound: columns of a build
    Coefficients,   \* the coefficients a term may have
    MaxRowId,       \* the largest value of row_id_; 2^32 - 1 in the code
    MaxTerms        \* bound: terms added to a row

ASSUME ScratchAssumption ==
    /\ MaxColumns \in Nat
    /\ Coefficients \subseteq Int
    /\ MaxRowId \in Nat
    /\ MaxTerms \in Nat

VARIABLES
    columns,    \* the size of slot_ and stamp_
    slot,       \* slot_: where a column's term is in idx_ and val_
    stamp,      \* stamp_: the row that answer is of
    rowId,      \* row_id_
    idx, val,   \* idx_, val_: the row
    building,   \* between row_begin and row_post
    sum,        \* auxiliary: the row's coefficient per column added
    terms       \* auxiliary: how many terms were added

vars == <<columns, slot, stamp, rowId, idx, val, building, sum, terms>>

Column == 1 .. columns
NoTerms == [c \in {} |-> 0]

Init ==
    /\ columns = 0
    /\ slot = NoTerms /\ stamp = NoTerms
    /\ rowId = 0
    /\ idx = <<>> /\ val = <<>>
    /\ building = FALSE
    /\ sum = NoTerms /\ terms = 0

\* Faulty: the stamps of columns there were before stay.
AssignResizes ==
    /\ ~building
    /\ columns' \in 0 .. MaxColumns
    /\ slot' = [c \in 1 .. columns' |-> 1]
    /\ stamp' = [c \in 1 .. columns' |-> IF c \in Column THEN stamp[c] ELSE 0]
    /\ rowId' = 0
    /\ UNCHANGED <<idx, val, building, sum, terms>>

\* Faulty: slot_ is not sized again.
AssignStampsOnly ==
    /\ ~building
    /\ columns' \in 0 .. MaxColumns
    /\ stamp' = [c \in 1 .. columns' |-> 0]
    /\ rowId' = 0
    /\ UNCHANGED <<slot, idx, val, building, sum, terms>>

\* A build sizes the scratch to all columns, old and new.
Assign ==
    /\ ~building
    /\ columns' \in 0 .. MaxColumns
    /\ slot' = [c \in 1 .. columns' |-> 1]
    /\ stamp' = [c \in 1 .. columns' |-> 0]
    /\ rowId' = 0
    /\ UNCHANGED <<idx, val, building, sum, terms>>

RowBegin ==
    /\ ~building
    /\ rowId < MaxRowId
    /\ rowId' = rowId + 1
    /\ idx' = <<>> /\ val' = <<>>
    /\ building' = TRUE
    /\ sum' = NoTerms /\ terms' = 0
    /\ UNCHANGED <<columns, slot, stamp>>

Added(c, a) ==
    [d \in DOMAIN sum \cup {c} |->
        (IF d \in DOMAIN sum THEN sum[d] ELSE 0) + (IF d = c THEN a ELSE 0)]

\* row_add meets the column again: the coefficient joins the term there.
Fold(c, a) ==
    /\ building /\ terms < MaxTerms
    /\ stamp[c] = rowId
    /\ val' = [val EXCEPT ![slot[c]] = @ + a]
    /\ sum' = Added(c, a) /\ terms' = terms + 1
    /\ UNCHANGED <<columns, slot, stamp, rowId, idx, building>>

\* Faulty: the column is not stamped.
NewTermUnstamped(c, a) ==
    /\ building /\ terms < MaxTerms
    /\ stamp[c] # rowId
    /\ slot' = [slot EXCEPT ![c] = Len(idx) + 1]
    /\ idx' = Append(idx, c)
    /\ val' = Append(val, a)
    /\ sum' = Added(c, a) /\ terms' = terms + 1
    /\ UNCHANGED <<columns, stamp, rowId, building>>

NewTerm(c, a) ==
    /\ building /\ terms < MaxTerms
    /\ stamp[c] # rowId
    /\ stamp' = [stamp EXCEPT ![c] = rowId]
    /\ slot' = [slot EXCEPT ![c] = Len(idx) + 1]
    /\ idx' = Append(idx, c)
    /\ val' = Append(val, a)
    /\ sum' = Added(c, a) /\ terms' = terms + 1
    /\ UNCHANGED <<columns, rowId, building>>

RowPost ==
    /\ building
    /\ building' = FALSE
    /\ UNCHANGED <<columns, slot, stamp, rowId, idx, val, sum, terms>>

Next ==
    \/ Assign \/ RowBegin \/ RowPost
    \/ \E c \in Column, a \in Coefficients : Fold(c, a) \/ NewTerm(c, a)

Spec == Init /\ [][Next]_vars

-----------------------------------------------------------------------------
TypeOK ==
    /\ columns \in 0 .. MaxColumns
    /\ slot \in [Column -> Nat]
    /\ stamp \in [Column -> Nat]
    /\ rowId \in 0 .. MaxRowId
    /\ idx \in Seq(Nat) /\ val \in Seq(Int)
    /\ Len(idx) = Len(val)
    /\ building \in BOOLEAN
    /\ terms \in 0 .. MaxTerms

\* A row names no column twice: a backend refuses a row with a repeat, and a
\* repeat is common since decisions that were joined share a column.
NoColumnTwice ==
    \A i, j \in 1 .. Len(idx) : idx[i] = idx[j] => i = j

\* The row has a term for every column that was added and no other, with the
\* sum of all the coefficients given to it: no term is folded into another
\* column's slot, or into a slot left by an earlier row.
RowIsSum ==
    /\ \A i \in 1 .. Len(idx) : idx[i] \in DOMAIN sum /\ val[i] = sum[idx[i]]
    /\ \A c \in DOMAIN sum : \E i \in 1 .. Len(idx) : idx[i] = c

=============================================================================
