---------------------------- MODULE ColumnDomains ----------------------------
(***************************************************************************)
(* The values of a column: the loop of MipModel::build over the decisions  *)
(* and the two functions it calls, intervals_of and intersect              *)
(* (src/src/mip_model.cpp), on a first build.  Decisions that share a      *)
(* column are met in order, and the column keeps the intervals that all of *)
(* their domains allow; intersect is one step per turn of its loop.        *)
(*                                                                         *)
(* Which decisions share a column is decided before (module Aliasing); a   *)
(* model comes with its columns, numbered as that module shows: each the   *)
(* first of its class or the column of an earlier decision.                *)
(***************************************************************************)
EXTENDS Integers, Sequences

CONSTANTS
    Values,     \* what a decision may be given
    Models      \* the models: for each decision its column, domain and kind

Interval == [min : Int, max : Int]
Ordered(list) == \A i, j \in 1 .. Len(list) : i < j => list[i].max < list[j].min

ASSUME DomainsAssumption ==
    /\ Values \subseteq Int
    /\ \A m \in Models :
          /\ m.column \in Seq(Nat \ {0})
          /\ m.domain \in [1 .. Len(m.column) -> Seq(Interval)]
          /\ m.boolean \in [1 .. Len(m.column) -> BOOLEAN]
          /\ \A d \in 1 .. Len(m.column) : Ordered(m.domain[d])

VARIABLES
    model,
    decision,       \* d
    at,             \* where in d's turn the loop is
    own,            \* d's intervals
    intervals,      \* intervals_
    left, right,    \* intersect's lists from i and from j on
    meet            \* its out

domainsVars == <<model, decision, at, own, intervals, left, right, meet>>

Decisions == 1 .. Len(model.column)
ColumnOf(d) == model.column[d]

Binary   == <<[min |-> 0, max |-> 1]>>
NoValues == <<[min |-> 1, max |-> 0]>>

\* intervals_of: a domain without a value is bounds no value is within.
IntervalsOf(list) == IF list = <<>> THEN NoValues ELSE list

DomainsInit ==
    /\ model \in Models
    /\ decision = 1 /\ at = "visit"
    /\ own = <<>> /\ intervals = <<>>
    /\ left = <<>> /\ right = <<>> /\ meet = <<>>

\* A Boolean is a binary column whatever its domain says.
Visit ==
    /\ at = "visit" /\ decision \in Decisions
    /\ IF model.boolean[decision]
       THEN /\ left' = Binary /\ right' = IntervalsOf(model.domain[decision])
            /\ meet' = <<>> /\ at' = "meet own"
            /\ UNCHANGED own
       ELSE /\ own' = IntervalsOf(model.domain[decision])
            /\ at' = "place"
            /\ UNCHANGED <<left, right, meet>>
    /\ UNCHANGED <<model, decision, intervals>>

Place ==
    /\ at = "place" /\ ColumnOf(decision) = Len(intervals) + 1
    /\ intervals' = Append(intervals, own)
    /\ decision' = decision + 1 /\ at' = "visit"
    /\ UNCHANGED <<model, own, left, right, meet>>

Narrow ==
    /\ at = "place" /\ ColumnOf(decision) <= Len(intervals)
    /\ left' = intervals[ColumnOf(decision)] /\ right' = own /\ meet' = <<>>
    /\ at' = "meet class"
    /\ UNCHANGED <<model, decision, own, intervals>>

-----------------------------------------------------------------------------
(* intersect.                                                              *)
Meeting == at \in {"meet own", "meet class"}

Lower(a, b)  == IF a <= b THEN a ELSE b
Higher(a, b) == IF a >= b THEN a ELSE b

\* What is in both of the intervals in turn.
Common == [min |-> Higher(Head(left).min, Head(right).min),
           max |-> Lower(Head(left).max, Head(right).max)]

\* Faulty: both lists move on.
MeetStepBoth ==
    /\ Meeting /\ left # <<>> /\ right # <<>>
    /\ meet' = IF Common.min <= Common.max THEN Append(meet, Common) ELSE meet
    /\ left' = Tail(left) /\ right' = Tail(right)
    /\ UNCHANGED <<model, decision, at, own, intervals>>

\* The interval that ends first is done with.
MeetStep ==
    /\ Meeting /\ left # <<>> /\ right # <<>>
    /\ meet' = IF Common.min <= Common.max THEN Append(meet, Common) ELSE meet
    /\ IF Head(left).max < Head(right).max
       THEN left' = Tail(left) /\ UNCHANGED right
       ELSE right' = Tail(right) /\ UNCHANGED left
    /\ UNCHANGED <<model, decision, at, own, intervals>>

Met == (left = <<>> \/ right = <<>>)

MetOwn ==
    /\ at = "meet own" /\ Met
    /\ own' = IntervalsOf(meet)
    /\ at' = "place"
    /\ UNCHANGED <<model, decision, intervals, left, right, meet>>

MetClass ==
    /\ at = "meet class" /\ Met
    /\ intervals' = [intervals EXCEPT ![ColumnOf(decision)] = IntervalsOf(meet)]
    /\ decision' = decision + 1 /\ at' = "visit"
    /\ UNCHANGED <<model, own, left, right, meet>>

DomainsNext == Visit \/ Place \/ Narrow \/ MeetStep \/ MetOwn \/ MetClass

DomainsSpec == DomainsInit /\ [][DomainsNext]_domainsVars

ColumnsDone == at = "visit" /\ decision > Len(model.column)

-----------------------------------------------------------------------------
Covered(list) ==
    {v \in Values : \E i \in 1 .. Len(list) : list[i].min <= v /\ v <= list[i].max}

\* What the decision's own type and domain allow.
Allowed(d) ==
    {v \in Covered(model.domain[d]) : model.boolean[d] => v \in {0, 1}}

DomainsTypeOK ==
    /\ model \in Models
    /\ decision \in 1 .. Len(model.column) + 1
    /\ at \in {"visit", "place", "meet own", "meet class"}
    /\ at # "visit" => decision \in Decisions
    /\ own \in Seq(Interval) /\ intervals \in Seq(Seq(Interval))
    /\ left \in Seq(Interval) /\ right \in Seq(Interval) /\ meet \in Seq(Interval)

\* "The intervals in both lists: what two decisions sharing a column may take":
\* a column's intervals are in order, do not overlap, and hold exactly the values
\* that every decision met so far with that column may take.
IntervalsAreDomains ==
    \A c \in 1 .. Len(intervals) :
        /\ Ordered(intervals[c])
        /\ Covered(intervals[c])
              = {v \in Values : \A d \in 1 .. decision - 1 :
                                    ColumnOf(d) = c => v \in Allowed(d)}

=============================================================================
