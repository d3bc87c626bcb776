--------------------------- MODULE RowFormsProofs ---------------------------
(***************************************************************************)
(* Proofs about ColumnDomains, for any models; about RowScratch, for any   *)
(* number of columns, any integer coefficients and any number of rows and  *)
(* terms; and about RowForms, for any model, any backend and any           *)
(* constraints.                                                            *)
(***************************************************************************)
EXTENDS RowForms, Induction

(***************************************************************************)
(* The columns, for any set of integers as the values.  IntervalsAreDomains *)
(* alone is not inductive: the column that is being narrowed rests on      *)
(* intersect's lists.  The strengthening says what is still to be met and  *)
(* what was found together make up the whole, and that one of the two      *)
(* lists starts past the last interval found, which is what keeps the      *)
(* found ones apart.                                                       *)
(***************************************************************************)
\* v is in one of the intervals.
Within(v, i) == i.min <= v /\ v <= i.max

-----------------------------------------------------------------------------
(* What the list operations do to the values a list covers.                *)

\* Membership in terms of intervals.
LEMMA CoveredIs ==
    ASSUME NEW list, NEW v
    PROVE  v \in Covered(list) <=>
              v \in Values /\ \E i \in 1 .. Len(list) : Within(v, list[i])
BY DEF Covered, Within

\* An interval appended adds its values.
LEMMA CoveredAppend ==
    ASSUME NEW list \in Seq(Interval), NEW e \in Interval, NEW v
    PROVE  v \in Covered(Append(list, e)) <=>
              v \in Covered(list) \/ (v \in Values /\ Within(v, e))
<1> DEFINE longer == Append(list, e)
<1>1. Len(longer) = Len(list) + 1 /\ longer[Len(list) + 1] = e
    OBVIOUS
<1>2. \A i \in 1 .. Len(list) : longer[i] = list[i]
    OBVIOUS
<1>3. Len(list) \in Nat
    OBVIOUS
<1>4. 1 .. Len(longer) = (1 .. Len(list)) \cup {Len(list) + 1}
    BY <1>1, <1>3
<1>5. (\E i \in 1 .. Len(longer) : Within(v, longer[i]))
          <=> (\E i \in 1 .. Len(list) : Within(v, list[i])) \/ Within(v, e)
    <2> HIDE DEF longer
    <2> QED BY <1>1, <1>2, <1>4
<1> HIDE DEF longer
<1>6. v \in Covered(longer) <=> v \in Values /\ \E i \in 1 .. Len(longer) : Within(v, longer[i])
    BY CoveredIs
<1>7. v \in Covered(list) <=> v \in Values /\ \E i \in 1 .. Len(list) : Within(v, list[i])
    BY CoveredIs
<1> QED
    BY <1>5, <1>6, <1>7 DEF longer

\* A list covers what its head and its tail do.
LEMMA CoveredHead ==
    ASSUME NEW list \in Seq(Interval), list # <<>>, NEW v
    PROVE  v \in Covered(list) <=>
              v \in Covered(Tail(list)) \/ (v \in Values /\ Within(v, Head(list)))
<1> DEFINE rest == Tail(list)
<1>1. Len(list) \in Nat \ {0} /\ Len(rest) = Len(list) - 1 /\ Head(list) = list[1]
    OBVIOUS
<1>2. \A i \in 1 .. Len(rest) : rest[i] = list[i + 1]
    OBVIOUS
<1> HIDE DEF rest
<1>3. (\E i \in 1 .. Len(list) : Within(v, list[i]))
          <=> (\E i \in 1 .. Len(rest) : Within(v, rest[i])) \/ Within(v, list[1])
    <2>1. ASSUME NEW i \in 1 .. Len(list), Within(v, list[i]), i # 1
          PROVE  \E j \in 1 .. Len(rest) : Within(v, rest[j])
        <3>1. i - 1 \in 1 .. Len(rest) /\ rest[i - 1] = list[i]
            BY <1>1, <1>2, <2>1
        <3> QED BY <2>1, <3>1
    <2>2. ASSUME NEW i \in 1 .. Len(rest), Within(v, rest[i])
          PROVE  \E j \in 1 .. Len(list) : Within(v, list[j])
        <3>1. i + 1 \in 1 .. Len(list) /\ rest[i] = list[i + 1]
            BY <1>1, <1>2
        <3> QED BY <2>2, <3>1
    <2>3. 1 \in 1 .. Len(list)
        BY <1>1
    <2> QED BY <2>1, <2>2, <2>3
<1>4. v \in Covered(list) <=> v \in Values /\ \E i \in 1 .. Len(list) : Within(v, list[i])
    BY CoveredIs
<1>5. v \in Covered(rest) <=> v \in Values /\ \E i \in 1 .. Len(rest) : Within(v, rest[i])
    BY CoveredIs
<1> QED
    BY <1>1, <1>3, <1>4, <1>5 DEF rest

\* intervals_of changes no list's values, and keeps its order.
LEMMA IntervalsOfKeeps ==
    ASSUME NEW list \in Seq(Interval), Ordered(list)
    PROVE  /\ IntervalsOf(list) \in Seq(Interval) /\ Ordered(IntervalsOf(list))
           /\ Covered(IntervalsOf(list)) = Covered(list)
<1>1. CASE list # <<>>
    BY <1>1 DEF IntervalsOf
<1>2. CASE list = <<>>
    <2>1. NoValues \in Seq(Interval) /\ Len(NoValues) = 1 /\ NoValues[1] = [min |-> 1, max |-> 0]
        BY DEF NoValues, Interval
    <2>2. Ordered(NoValues)
        BY <2>1 DEF Ordered
    <2>3. Covered(NoValues) = {}
        <3> SUFFICES ASSUME NEW v \in Covered(NoValues) PROVE FALSE
            OBVIOUS
        <3>1. v \in Int /\ \E i \in 1 .. Len(NoValues) : Within(v, NoValues[i])
            BY DomainsAssumption, CoveredIs
        <3>2. Within(v, [min |-> 1, max |-> 0])
            BY <2>1, <3>1
        <3> QED BY <3>1, <3>2 DEF Within
    <2>4. Covered(<<>>) = {}
        BY DEF Covered
    <2> QED BY <1>2, <2>1, <2>2, <2>3, <2>4 DEF IntervalsOf
<1> QED BY <1>1, <1>2

\* The first interval of an ordered list is before all others.
LEMMA OrderedTail ==
    ASSUME NEW list \in Seq(Interval), list # <<>>, Ordered(list)
    PROVE  /\ Tail(list) \in Seq(Interval) /\ Ordered(Tail(list))
           /\ Head(list) \in Interval
           /\ \A k \in 1 .. Len(Tail(list)) : Head(list).max < Tail(list)[k].min
<1> DEFINE rest == Tail(list)
<1>1. Len(list) \in Nat \ {0} /\ Len(rest) = Len(list) - 1 /\ Head(list) = list[1]
    OBVIOUS
<1>2. \A i \in 1 .. Len(rest) : i + 1 \in 1 .. Len(list) /\ rest[i] = list[i + 1]
    OBVIOUS
<1>3. rest \in Seq(Interval) /\ list[1] \in Interval
    BY <1>1
<1> HIDE DEF rest
<1>4. Ordered(rest)
    <2>1. ASSUME NEW i \in 1 .. Len(rest), NEW j \in 1 .. Len(rest), i < j
          PROVE  rest[i].max < rest[j].min
        <3>1. i + 1 \in 1 .. Len(list) /\ j + 1 \in 1 .. Len(list) /\ i + 1 < j + 1
            BY <1>2, <2>1
        <3>2. list[i + 1].max < list[j + 1].min
            BY <3>1 DEF Ordered
        <3> QED BY <1>2, <3>2
    <2> QED BY <2>1 DEF Ordered
<1>5. \A k \in 1 .. Len(rest) : list[1].max < rest[k].min
    BY <1>1, <1>2 DEF Ordered
<1> QED
    BY <1>1, <1>3, <1>4, <1>5 DEF rest

\* An interval past the last one keeps the list in order.
LEMMA OrderedAppend ==
    ASSUME NEW list \in Seq(Interval), Ordered(list), NEW e \in Interval,
           \A i \in 1 .. Len(list) : list[i].max < e.min
    PROVE  Append(list, e) \in Seq(Interval) /\ Ordered(Append(list, e))
<1> DEFINE longer == Append(list, e)
<1>1. Len(list) \in Nat /\ Len(longer) = Len(list) + 1 /\ longer[Len(list) + 1] = e
    OBVIOUS
<1>2. \A i \in 1 .. Len(list) : longer[i] = list[i]
    OBVIOUS
<1>3. longer \in Seq(Interval)
    OBVIOUS
<1> HIDE DEF longer
<1>4. ASSUME NEW i \in 1 .. Len(longer), NEW j \in 1 .. Len(longer), i < j
      PROVE  longer[i].max < longer[j].min
    <2>1. i \in 1 .. Len(list) /\ longer[i] = list[i]
        BY <1>1, <1>2, <1>4
    <2>2. CASE j = Len(list) + 1
        BY <1>1, <2>1, <2>2
    <2>3. CASE j # Len(list) + 1
        <3>1. j \in 1 .. Len(list) /\ longer[j] = list[j]
            BY <1>1, <1>2, <2>3
        <3> QED BY <1>4, <2>1, <3>1 DEF Ordered
    <2> QED BY <2>2, <2>3
<1> QED
    BY <1>3, <1>4 DEF longer, Ordered

\* A list of nothing but what is there covers values.
LEMMA CoveredValues ==
    ASSUME NEW list, NEW v \in Covered(list)
    PROVE  v \in Values /\ v \in Int
BY DomainsAssumption DEF Covered

\* The interval that ends first is done with once its common part with the
\* other list's first is known: everything later in that list starts past it.
LEMMA FirstIsDone ==
    ASSUME NEW l \in Seq(Interval), NEW r \in Seq(Interval),
           l # <<>>, r # <<>>, Ordered(l), Ordered(r),
           Head(l).max <= Head(r).max, NEW v
    PROVE  (v \in Covered(l) /\ v \in Covered(r)) <=>
              \/ v \in Values /\ Within(v, Head(l)) /\ Within(v, Head(r))
              \/ v \in Covered(Tail(l)) /\ v \in Covered(r)
<1>1. v \in Covered(l) <=> v \in Covered(Tail(l)) \/ (v \in Values /\ Within(v, Head(l)))
    BY CoveredHead
<1>2. v \in Covered(r) <=> v \in Covered(Tail(r)) \/ (v \in Values /\ Within(v, Head(r)))
    BY CoveredHead
<1>3. ~(v \in Values /\ Within(v, Head(l)) /\ v \in Covered(Tail(r)))
    <2> SUFFICES ASSUME v \in Values, Within(v, Head(l)), v \in Covered(Tail(r))
                 PROVE  FALSE
        OBVIOUS
    <2>1. v \in Int
        BY DomainsAssumption
    <2>2. PICK k \in 1 .. Len(Tail(r)) : Within(v, Tail(r)[k])
        BY CoveredIs
    <2>3. Head(r).max < Tail(r)[k].min /\ Head(r) \in Interval /\ Head(l) \in Interval
        BY OrderedTail
    <2>4. Tail(r)[k] \in Interval
        BY OrderedTail, <2>2
    <2> HIDE DEF Interval
    <2>5. Head(r).max \in Int /\ Head(l).max \in Int /\ Tail(r)[k].min \in Int
        BY <2>3, <2>4 DEF Interval
    <2> QED BY <2>1, <2>2, <2>3, <2>5 DEF Within
<1> QED
    BY <1>1, <1>2, <1>3

\* The common part of two intervals holds what both hold.
LEMMA CommonIs ==
    ASSUME NEW a \in Interval, NEW b \in Interval, NEW v \in Int
    PROVE  LET c == [min |-> Higher(a.min, b.min), max |-> Lower(a.max, b.max)]
           IN  /\ c \in Interval
               /\ Within(v, c) <=> Within(v, a) /\ Within(v, b)
               /\ Within(v, c) => c.min <= c.max
BY DEF Interval, Within, Higher, Lower

\* The intervals of the columns, one of them replaced.
LEMMA ListsReplace ==
    ASSUME NEW lists \in Seq(Seq(Interval)), NEW c \in 1 .. Len(lists), NEW m \in Seq(Interval)
    PROVE  /\ [lists EXCEPT ![c] = m] \in Seq(Seq(Interval))
           /\ Len([lists EXCEPT ![c] = m]) = Len(lists)
           /\ [lists EXCEPT ![c] = m][c] = m
           /\ \A k \in 1 .. Len(lists) : k # c => [lists EXCEPT ![c] = m][k] = lists[k]
OBVIOUS

LEMMA ListsHold ==
    ASSUME NEW lists \in Seq(Seq(Interval))
    PROVE  Len(lists) \in Nat /\ \A c \in 1 .. Len(lists) : lists[c] \in Seq(Interval)
OBVIOUS

\* One decision more.
LEMMA DecisionAdvances ==
    ASSUME NEW n \in Nat, NEW k \in 1 .. n
    PROVE  /\ k + 1 \in 1 .. n + 1
           /\ \A d \in 1 .. (k + 1) - 1 : d \in 1 .. k - 1 \/ d = k
           /\ \A d \in 1 .. k - 1 : d \in 1 .. (k + 1) - 1
           /\ k \in 1 .. (k + 1) - 1
OBVIOUS

-----------------------------------------------------------------------------
(* The inductive invariant.                                                *)

\* Every decision met has its column.
ColumnsPlaced == \A d \in 1 .. decision - 1 : ColumnOf(d) \in 1 .. Len(intervals)

OwnIsAllowed ==
    at \in {"place", "meet class"} => Ordered(own) /\ Covered(own) = Allowed(decision)

MeetsWhat ==
    /\ at = "meet own" => model.boolean[decision]
    /\ at = "meet class" => ColumnOf(decision) \in 1 .. Len(intervals)

\* v is among the values intersect is to find.
Wanted(v) ==
    /\ v \in Allowed(decision)
    /\ at = "meet class" => v \in Covered(intervals[ColumnOf(decision)])

ListsOrdered == Meeting => Ordered(left) /\ Ordered(right) /\ Ordered(meet)

\* What was found and what is still to be met make up the whole.
MeetIsWanted ==
    Meeting => \A v : Wanted(v) <=> \/ v \in Covered(meet)
                                    \/ v \in Covered(left) /\ v \in Covered(right)

\* One of the lists starts past each interval found.
FoundIsPast ==
    Meeting => \A i \in 1 .. Len(meet) :
                  \/ \A k \in 1 .. Len(left) : meet[i].max < left[k].min
                  \/ \A k \in 1 .. Len(right) : meet[i].max < right[k].min

DInv ==
    /\ DomainsTypeOK /\ IntervalsAreDomains /\ ColumnsPlaced /\ OwnIsAllowed
    /\ MeetsWhat /\ ListsOrdered /\ MeetIsWanted /\ FoundIsPast

\* The parts of a model, from the assumption.
LEMMA ModelParts ==
    ASSUME model \in Models
    PROVE  /\ model.column \in Seq(Nat \ {0}) /\ Len(model.column) \in Nat
           /\ \A d \in Decisions : /\ ColumnOf(d) \in Nat \ {0}
                                   /\ model.domain[d] \in Seq(Interval)
                                   /\ model.boolean[d] \in BOOLEAN
                                   /\ Ordered(model.domain[d])
<1>1. /\ model.column \in Seq(Nat \ {0})
      /\ model.domain \in [1 .. Len(model.column) -> Seq(Interval)]
      /\ model.boolean \in [1 .. Len(model.column) -> BOOLEAN]
      /\ \A d \in 1 .. Len(model.column) : Ordered(model.domain[d])
    BY DomainsAssumption
<1>2. /\ Len(model.column) \in Nat
      /\ \A d \in 1 .. Len(model.column) : model.column[d] \in Nat \ {0}
    BY <1>1
<1> QED
    BY <1>1, <1>2 DEF Decisions, ColumnOf

LEMMA DInitInv == DomainsInit => DInv
<1> SUFFICES ASSUME DomainsInit PROVE DInv
    OBVIOUS
<1>1. Len(model.column) \in Nat
    BY ModelParts DEF DomainsInit
<1>2. DomainsTypeOK
    BY <1>1 DEF DomainsInit, DomainsTypeOK
<1>3. IntervalsAreDomains /\ ColumnsPlaced
    BY DEF DomainsInit, IntervalsAreDomains, ColumnsPlaced
<1>4. OwnIsAllowed /\ MeetsWhat /\ ListsOrdered /\ MeetIsWanted /\ FoundIsPast
    BY DEF DomainsInit, OwnIsAllowed, MeetsWhat, ListsOrdered, MeetIsWanted, FoundIsPast, Meeting
<1> QED BY <1>2, <1>3, <1>4 DEF DInv

\* The loop starts on a decision.
LEMMA VisitInv == DInv /\ Visit => DInv'
<1> SUFFICES ASSUME DInv, Visit PROVE DInv'
    OBVIOUS
<1>1. /\ model \in Models /\ decision \in Decisions /\ decision' = decision /\ model' = model
      /\ intervals' = intervals /\ Decisions' = Decisions
    BY DEF DInv, DomainsTypeOK, Visit, Decisions
<1>2. /\ model.domain[decision] \in Seq(Interval) /\ Ordered(model.domain[decision])
      /\ model.boolean[decision] \in BOOLEAN
    BY <1>1, ModelParts
<1> DEFINE dom == IntervalsOf(model.domain[decision])
<1>3. dom \in Seq(Interval) /\ Ordered(dom) /\ Covered(dom) = Covered(model.domain[decision])
    BY <1>2, IntervalsOfKeeps
<1>4. Binary \in Seq(Interval) /\ Len(Binary) = 1 /\ Binary[1] = [min |-> 0, max |-> 1]
    BY DEF Binary, Interval
<1>5. Ordered(Binary)
    BY <1>4 DEF Ordered
<1>6. IntervalsAreDomains' /\ ColumnsPlaced'
    BY <1>1 DEF DInv, IntervalsAreDomains, ColumnsPlaced, ColumnOf, Allowed
<1> HIDE DEF dom
<1>7. CASE model.boolean[decision]
    <2>1. left' = Binary /\ right' = dom /\ meet' = <<>> /\ at' = "meet own" /\ own' = own
        BY <1>7 DEF Visit, dom
    <2>2. DomainsTypeOK'
        <3>1. left' \in Seq(Interval) /\ right' \in Seq(Interval) /\ meet' \in Seq(Interval)
            <4>1. <<>> \in Seq(Interval)
                OBVIOUS
            <4> QED BY <1>3, <1>4, <2>1, <4>1
        <3> QED BY <1>1, <2>1, <3>1 DEF DInv, DomainsTypeOK
    <2>3. OwnIsAllowed' /\ MeetsWhat'
        BY <1>1, <1>7, <2>1 DEF OwnIsAllowed, MeetsWhat
    <2>6. FoundIsPast'
        <3>1. 1 .. Len(<<>>) = {}
            <4>1. Len(<<>>) = 0
                OBVIOUS
            <4> QED BY <4>1
        <3>2. meet' = <<>>
            BY <2>1
        <3> QED BY <3>1, <3>2 DEF FoundIsPast
    <2>7. Ordered(<<>>)
        BY DEF Ordered
    <2>8. Ordered(left)' /\ Ordered(right)' /\ Ordered(meet)'
        BY <1>3, <1>5, <2>1, <2>7 DEF Ordered
    <2>9. ListsOrdered'
        BY <2>8 DEF ListsOrdered
    <2>4. ASSUME NEW v
          PROVE  Wanted(v)' <=> v \in Covered(meet)' \/ (v \in Covered(left)' /\ v \in Covered(right)')
        <3>1. v \in Covered(Binary) <=> v \in Values /\ v \in {0, 1}
            <4>1. v \in Covered(Binary) <=> v \in Values /\ Within(v, [min |-> 0, max |-> 1])
                <5>1. v \in Covered(Binary)
                         <=> v \in Values /\ \E i \in 1 .. Len(Binary) : Within(v, Binary[i])
                    BY CoveredIs
                <5>2. 1 .. Len(Binary) = {1}
                    BY <1>4
                <5> QED BY <1>4, <5>1, <5>2
            <4>2. v \in Values => v \in Int
                BY DomainsAssumption
            <4> QED BY <4>1, <4>2 DEF Within
        <3>2. Covered(<<>>) = {}
            BY DEF Covered
        <3>3. v \in Covered(model.domain[decision]) => v \in Values
            BY CoveredValues
        <3>4. Wanted(v)' <=> v \in Covered(model.domain[decision]) /\ v \in {0, 1}
            BY <1>1, <1>7, <2>1 DEF Wanted, Allowed, Covered
        <3>5. /\ Covered(left)' = Covered(Binary) /\ Covered(right)' = Covered(dom)
              /\ Covered(meet)' = Covered(<<>>)
            BY <2>1 DEF Covered
        <3> QED BY <1>3, <3>1, <3>2, <3>3, <3>4, <3>5
    <2>5. MeetIsWanted'
        BY <2>4 DEF MeetIsWanted
    <2> QED BY <1>6, <2>2, <2>3, <2>5, <2>6, <2>9 DEF DInv
<1>8. CASE ~model.boolean[decision]
    <2>1. own' = dom /\ at' = "place" /\ left' = left /\ right' = right /\ meet' = meet
        BY <1>8 DEF Visit, dom
    <2>2. DomainsTypeOK'
        BY <1>1, <1>3, <2>1 DEF DInv, DomainsTypeOK
    <2>3. Allowed(decision)' = Covered(model.domain[decision])
        BY <1>1, <1>8 DEF Allowed, Covered
    <2>4. OwnIsAllowed' /\ MeetsWhat' /\ ListsOrdered' /\ FoundIsPast' /\ MeetIsWanted'
        BY <1>3, <2>1, <2>3
        DEF OwnIsAllowed, MeetsWhat, ListsOrdered, FoundIsPast, MeetIsWanted, Ordered, Meeting, Covered
    <2> QED BY <1>6, <2>2, <2>4 DEF DInv
<1> QED BY <1>2, <1>7, <1>8

\* A column of its own holds what its first decision may take.
LEMMA PlaceInv == DInv /\ Place => DInv'
<1> SUFFICES ASSUME DInv, Place PROVE DInv'
    OBVIOUS
<1>1. /\ model \in Models /\ decision \in Decisions /\ decision' = decision + 1
      /\ model' = model /\ own' = own /\ left' = left /\ right' = right /\ meet' = meet
      /\ at = "place" /\ at' = "visit" /\ intervals' = Append(intervals, own)
      /\ ColumnOf(decision) = Len(intervals) + 1
      /\ own \in Seq(Interval) /\ intervals \in Seq(Seq(Interval))
    BY DEF DInv, DomainsTypeOK, Place
<1>2. decision \in 1 .. Len(model.column) /\ Len(model.column) \in Nat
    BY <1>1, ModelParts DEF Decisions
<1>3. /\ intervals' \in Seq(Seq(Interval))
      /\ Len(intervals) \in Nat /\ Len(intervals') = Len(intervals) + 1
      /\ intervals'[Len(intervals) + 1] = own
      /\ \A c \in 1 .. Len(intervals) : intervals'[c] = intervals[c]
    BY <1>1
<1>4. DomainsTypeOK'
    <2>1. decision' \in 1 .. Len(model.column)' + 1
        BY <1>1, <1>2
    <2> QED BY <1>1, <1>3, <2>1 DEF DInv, DomainsTypeOK
<1>5. \A d \in 1 .. decision - 1 : ColumnOf(d) \in 1 .. Len(intervals)
    BY DEF DInv, ColumnsPlaced
<1>6. \A d \in 1 .. decision' - 1 : d \in 1 .. decision - 1 \/ d = decision
    BY <1>1, <1>2
<1>7. \A d : ColumnOf(d)' = ColumnOf(d) /\ Allowed(d)' = Allowed(d)
    BY <1>1 DEF ColumnOf, Allowed, Covered
<1>8. ColumnsPlaced'
    <2>1. \A d \in 1 .. decision' - 1 : ColumnOf(d) \in 1 .. Len(intervals')
        BY <1>1, <1>3, <1>5, <1>6
    <2> QED BY <1>7, <2>1 DEF ColumnsPlaced
<1>9. ASSUME NEW c \in 1 .. Len(intervals')
      PROVE  /\ Ordered(intervals'[c])
             /\ Covered(intervals'[c])
                   = {v \in Values : \A d \in 1 .. decision' - 1 :
                                         ColumnOf(d) = c => v \in Allowed(d)}
    <2>1. CASE c \in 1 .. Len(intervals)
        <3>1. c # ColumnOf(decision)
            BY <1>1, <1>3, <2>1
        <3>2. /\ Ordered(intervals[c])
              /\ Covered(intervals[c])
                   = {v \in Values : \A d \in 1 .. decision - 1 :
                                         ColumnOf(d) = c => v \in Allowed(d)}
            BY <2>1 DEF DInv, IntervalsAreDomains
        <3>3. \A d \in 1 .. decision - 1 : d \in 1 .. decision' - 1
            BY <1>1, <1>2
        <3>4. intervals'[c] = intervals[c]
            BY <1>3, <2>1
        <3> QED BY <1>6, <3>1, <3>2, <3>3, <3>4
    <2>2. CASE c \notin 1 .. Len(intervals)
        <3>1. c = ColumnOf(decision) /\ intervals'[c] = own
            BY <1>1, <1>3, <2>2
        <3>2. \A d \in 1 .. decision - 1 : ColumnOf(d) # c
            BY <1>5, <2>2
        <3>3. Ordered(own) /\ Covered(own) = Allowed(decision)
            BY <1>1 DEF DInv, OwnIsAllowed
        <3>4. decision \in 1 .. decision' - 1
            BY <1>1, <1>2
        <3>5. \A v : v \in Allowed(decision) => v \in Values
            BY DEF Allowed, Covered
        <3> QED BY <1>6, <3>1, <3>2, <3>3, <3>4, <3>5
    <2> QED BY <2>1, <2>2
<1>10. IntervalsAreDomains'
    <2>1. \A c \in 1 .. Len(intervals') : Covered(intervals'[c]) = Covered(intervals[c])'
        BY DEF Covered
    <2>2. \A c \in 1 .. Len(intervals') : Ordered(intervals'[c]) = Ordered(intervals[c])'
        BY DEF Ordered
    <2> QED BY <1>7, <1>9 DEF IntervalsAreDomains, Covered, Ordered
<1>11. OwnIsAllowed' /\ MeetsWhat' /\ ListsOrdered' /\ MeetIsWanted' /\ FoundIsPast'
    BY <1>1 DEF OwnIsAllowed, MeetsWhat, ListsOrdered, MeetIsWanted, FoundIsPast, Meeting
<1> QED BY <1>4, <1>8, <1>10, <1>11 DEF DInv

\* A shared column is met with the decision's own intervals.
LEMMA NarrowInv == DInv /\ Narrow => DInv'
<1> SUFFICES ASSUME DInv, Narrow PROVE DInv'
    OBVIOUS
<1> DEFINE c == ColumnOf(decision)
<1>1. /\ model \in Models /\ decision \in Decisions /\ decision' = decision
      /\ model' = model /\ own' = own /\ intervals' = intervals
      /\ at = "place" /\ at' = "meet class"
      /\ left' = intervals[c] /\ right' = own /\ meet' = <<>>
      /\ c <= Len(intervals)
      /\ own \in Seq(Interval) /\ intervals \in Seq(Seq(Interval))
    BY DEF DInv, DomainsTypeOK, Narrow
<1>2. c \in 1 .. Len(intervals)
    <2>1. c \in Nat \ {0}
        BY <1>1, ModelParts
    <2>2. Len(intervals) \in Nat /\ c <= Len(intervals)
        BY <1>1, ListsHold
    <2> HIDE DEF c
    <2> QED BY <2>1, <2>2
<1>3. intervals[c] \in Seq(Interval) /\ Ordered(intervals[c])
    <2>1. Ordered(intervals[c])
        BY <1>2 DEF DInv, IntervalsAreDomains
    <2> HIDE DEF c
    <2> QED BY <1>1, <1>2, <2>1, ListsHold
<1>4. Ordered(own) /\ Covered(own) = Allowed(decision)
    BY <1>1 DEF DInv, OwnIsAllowed
<1> HIDE DEF c
<1>5. DomainsTypeOK'
    <2>1. <<>> \in Seq(Interval)
        OBVIOUS
    <2>2. left' \in Seq(Interval) /\ right' \in Seq(Interval) /\ meet' \in Seq(Interval)
        BY <1>1, <1>3, <2>1
    <2> QED BY <1>1, <2>2 DEF DInv, DomainsTypeOK, Decisions
<1>6. IntervalsAreDomains' /\ ColumnsPlaced'
    BY <1>1 DEF DInv, IntervalsAreDomains, ColumnsPlaced, ColumnOf, Allowed
<1>7. OwnIsAllowed'
    BY <1>1, <1>4 DEF OwnIsAllowed, Allowed, Covered, Ordered
<1>8. MeetsWhat'
    BY <1>1, <1>2 DEF MeetsWhat, ColumnOf, c
<1>9. ListsOrdered'
    <2>1. Ordered(<<>>)
        BY DEF Ordered
    <2>2. Ordered(left)' /\ Ordered(right)' /\ Ordered(meet)'
        BY <1>1, <1>3, <1>4, <2>1 DEF Ordered
    <2> QED BY <2>2 DEF ListsOrdered
<1>10. FoundIsPast'
    <2>1. Len(<<>>) = 0
        OBVIOUS
    <2>2. 1 .. Len(<<>>) = {}
        BY <2>1
    <2>3. meet' = <<>>
        BY <1>1
    <2> QED BY <2>2, <2>3 DEF FoundIsPast
<1>11. ASSUME NEW v
       PROVE  Wanted(v)' <=> v \in Covered(meet)' \/ (v \in Covered(left)' /\ v \in Covered(right)')
    <2>1. Wanted(v)' <=> v \in Allowed(decision) /\ v \in Covered(intervals[c])
        BY <1>1 DEF Wanted, Allowed, Covered, ColumnOf, c
    <2>2. /\ Covered(left)' = Covered(intervals[c]) /\ Covered(right)' = Covered(own)
          /\ Covered(meet)' = Covered(<<>>)
        BY <1>1 DEF Covered
    <2>3. Covered(<<>>) = {}
        BY DEF Covered
    <2> QED BY <1>4, <2>1, <2>2, <2>3
<1>12. MeetIsWanted'
    BY <1>11 DEF MeetIsWanted
<1> QED BY <1>5, <1>6, <1>7, <1>8, <1>9, <1>10, <1>12 DEF DInv

\* A turn of intersect's loop, whichever list moves on.
LEMMA MeetStepInv == DInv /\ MeetStep => DInv'
<1> SUFFICES ASSUME DInv, MeetStep PROVE DInv'
    OBVIOUS
<1> DEFINE hl == Head(left)
           hr == Head(right)
<1>1. /\ Meeting /\ left # <<>> /\ right # <<>>
      /\ model' = model /\ decision' = decision /\ at' = at /\ own' = own
      /\ intervals' = intervals
      /\ left \in Seq(Interval) /\ right \in Seq(Interval) /\ meet \in Seq(Interval)
    BY DEF DInv, DomainsTypeOK, MeetStep
<1>2. Ordered(left) /\ Ordered(right) /\ Ordered(meet)
    BY <1>1 DEF DInv, ListsOrdered
<1>3. /\ Tail(left) \in Seq(Interval) /\ Ordered(Tail(left)) /\ hl \in Interval
      /\ \A k \in 1 .. Len(Tail(left)) : hl.max < Tail(left)[k].min
    BY <1>1, <1>2, OrderedTail
<1>4. /\ Tail(right) \in Seq(Interval) /\ Ordered(Tail(right)) /\ hr \in Interval
      /\ \A k \in 1 .. Len(Tail(right)) : hr.max < Tail(right)[k].min
    BY <1>1, <1>2, OrderedTail
<1>5. /\ hl.min \in Int /\ hl.max \in Int /\ hr.min \in Int /\ hr.max \in Int
    BY <1>3, <1>4 DEF Interval
<1>6. Common = [min |-> Higher(hl.min, hr.min), max |-> Lower(hl.max, hr.max)]
    BY DEF Common
<1>7. meet' = IF Common.min <= Common.max THEN Append(meet, Common) ELSE meet
    BY DEF MeetStep
<1>8. \/ hl.max < hr.max /\ left' = Tail(left) /\ right' = right
      \/ ~(hl.max < hr.max) /\ right' = Tail(right) /\ left' = left
    BY DEF MeetStep
<1>9. Common \in Interval
    BY <1>5, <1>6 DEF Interval, Higher, Lower
<1>10. \A v \in Int : /\ Within(v, Common) <=> Within(v, hl) /\ Within(v, hr)
                      /\ Within(v, Common) => Common.min <= Common.max
    BY <1>3, <1>4, <1>6, CommonIs
<1>11. /\ Common.min >= hl.min /\ Common.min >= hr.min
       /\ hl.max < hr.max => Common.max = hl.max
       /\ ~(hl.max < hr.max) => Common.max = hr.max
       /\ Common.min \in Int /\ Common.max \in Int
    BY <1>5, <1>6 DEF Higher, Lower
<1>12. \A i \in 1 .. Len(meet) : \/ \A k \in 1 .. Len(left) : meet[i].max < left[k].min
                                 \/ \A k \in 1 .. Len(right) : meet[i].max < right[k].min
    BY <1>1 DEF DInv, FoundIsPast
<1>13. /\ 1 \in 1 .. Len(left) /\ hl = left[1] /\ 1 \in 1 .. Len(right) /\ hr = right[1]
       /\ \A k \in 1 .. Len(Tail(left)) : k + 1 \in 1 .. Len(left) /\ Tail(left)[k] = left[k + 1]
       /\ \A k \in 1 .. Len(Tail(right)) : k + 1 \in 1 .. Len(right) /\ Tail(right)[k] = right[k + 1]
    BY <1>1
<1> HIDE DEF hl, hr
<1>14. \A i \in 1 .. Len(meet) : meet[i].max < Common.min
    <2> SUFFICES ASSUME NEW i \in 1 .. Len(meet) PROVE meet[i].max < Common.min
        OBVIOUS
    <2>1. meet[i].max \in Int
        <3>1. meet[i] \in Interval
            BY <1>1
        <3> QED BY <3>1 DEF Interval
    <2>2. meet[i].max < hl.min \/ meet[i].max < hr.min
        BY <1>12, <1>13
    <2> QED BY <1>5, <1>11, <2>1, <2>2
<1>15. /\ Append(meet, Common) \in Seq(Interval) /\ Ordered(Append(meet, Common))
    BY <1>1, <1>2, <1>9, <1>14, OrderedAppend
<1>16. /\ left' \in Seq(Interval) /\ right' \in Seq(Interval) /\ meet' \in Seq(Interval)
       /\ Ordered(left') /\ Ordered(right') /\ Ordered(meet')
    BY <1>1, <1>2, <1>3, <1>4, <1>7, <1>8, <1>15
<1>17. DomainsTypeOK'
    BY <1>1, <1>16 DEF DInv, DomainsTypeOK, Decisions
<1>18. IntervalsAreDomains' /\ ColumnsPlaced'
    BY <1>1 DEF DInv, IntervalsAreDomains, ColumnsPlaced, ColumnOf, Allowed
<1>19. OwnIsAllowed' /\ MeetsWhat'
    BY <1>1 DEF DInv, OwnIsAllowed, MeetsWhat, Allowed, Covered, Ordered, ColumnOf
<1>20. ListsOrdered'
    BY <1>16 DEF ListsOrdered, Ordered
<1>21. FoundIsPast'
    <2>1. ASSUME NEW i \in 1 .. Len(meet')
          PROVE  \/ \A k \in 1 .. Len(left') : meet'[i].max < left'[k].min
                 \/ \A k \in 1 .. Len(right') : meet'[i].max < right'[k].min
        <3>1. CASE i \in 1 .. Len(meet) /\ meet'[i] = meet[i]
            BY <1>8, <1>12, <1>13, <3>1
        <3>2. CASE Common.min <= Common.max /\ meet'[i] = Common
            BY <1>3, <1>4, <1>8, <1>11, <3>2
        <3>3. \/ i \in 1 .. Len(meet) /\ meet'[i] = meet[i]
              \/ Common.min <= Common.max /\ meet'[i] = Common
            BY <1>1, <1>7, <1>9
        <3> QED BY <3>1, <3>2, <3>3
    <2> QED BY <2>1 DEF FoundIsPast
<1>22. ASSUME NEW v
       PROVE  (v \in Covered(meet) \/ (v \in Covered(left) /\ v \in Covered(right)))
                <=> (v \in Covered(meet') \/ (v \in Covered(left') /\ v \in Covered(right')))
    <2>1. v \in Values => v \in Int
        BY DomainsAssumption
    <2>2. v \in Covered(meet') <=> v \in Covered(meet) \/ (v \in Values /\ Within(v, hl) /\ Within(v, hr))
        <3>1. v \in Covered(Append(meet, Common))
                 <=> v \in Covered(meet) \/ (v \in Values /\ Within(v, Common))
            BY <1>1, <1>9, CoveredAppend
        <3> QED BY <1>7, <1>10, <2>1, <3>1
    <2>3. CASE hl.max < hr.max
        <3>1. hl.max <= hr.max
            BY <1>5, <2>3
        <3>2. (v \in Covered(left) /\ v \in Covered(right))
                 <=> \/ v \in Values /\ Within(v, hl) /\ Within(v, hr)
                     \/ v \in Covered(Tail(left)) /\ v \in Covered(right)
            BY <1>1, <1>2, <3>1, FirstIsDone DEF hl, hr
        <3> QED BY <1>8, <2>2, <2>3, <3>2
    <2>4. CASE ~(hl.max < hr.max)
        <3>1. hr.max <= hl.max
            BY <1>5, <2>4
        <3>2. (v \in Covered(right) /\ v \in Covered(left))
                 <=> \/ v \in Values /\ Within(v, hr) /\ Within(v, hl)
                     \/ v \in Covered(Tail(right)) /\ v \in Covered(left)
            BY <1>1, <1>2, <3>1, FirstIsDone DEF hl, hr
        <3> QED BY <1>8, <2>2, <2>4, <3>2
    <2> QED BY <2>3, <2>4
<1>23. MeetIsWanted'
    <2>1. \A v : Wanted(v)' <=> Wanted(v)
        BY <1>1 DEF Wanted, Allowed, Covered, ColumnOf
    <2>2. \A v : Wanted(v) <=> v \in Covered(meet) \/ (v \in Covered(left) /\ v \in Covered(right))
        BY <1>1 DEF DInv, MeetIsWanted
    <2>3. \A v : /\ v \in Covered(meet)' <=> v \in Covered(meet')
                 /\ v \in Covered(left)' <=> v \in Covered(left')
                 /\ v \in Covered(right)' <=> v \in Covered(right')
        BY DEF Covered
    <2> QED BY <1>22, <2>1, <2>2, <2>3 DEF MeetIsWanted
<1> QED BY <1>17, <1>18, <1>19, <1>20, <1>21, <1>23 DEF DInv

\* When a list runs out, what was found is what was wanted.
LEMMA MetIsWanted ==
    ASSUME DInv, Meeting, Met
    PROVE  /\ meet \in Seq(Interval) /\ IntervalsOf(meet) \in Seq(Interval)
           /\ Ordered(IntervalsOf(meet))
           /\ \A v : v \in Covered(IntervalsOf(meet)) <=> Wanted(v)
<1>1. meet \in Seq(Interval) /\ Ordered(meet)
    BY DEF DInv, DomainsTypeOK, ListsOrdered
<1>2. Covered(<<>>) = {}
    BY DEF Covered
<1>3. \A v : Wanted(v) <=> v \in Covered(meet)
    BY <1>2 DEF DInv, MeetIsWanted, Met
<1> QED BY <1>1, <1>3, IntervalsOfKeeps

\* A Boolean's own intervals.
LEMMA MetOwnInv == DInv /\ MetOwn => DInv'
<1> SUFFICES ASSUME DInv, MetOwn PROVE DInv'
    OBVIOUS
<1>1. /\ model' = model /\ decision' = decision /\ intervals' = intervals
      /\ left' = left /\ right' = right /\ meet' = meet
      /\ at = "meet own" /\ at' = "place" /\ own' = IntervalsOf(meet)
    BY DEF MetOwn
<1>2. Meeting /\ Met
    BY DEF MetOwn, Meeting
<1>3. own' \in Seq(Interval) /\ Ordered(own')
    BY <1>1, <1>2, MetIsWanted
<1>4. Covered(own') = Allowed(decision)
    <2>1. \A v : v \in Covered(own') <=> v \in Allowed(decision)
        BY <1>1, <1>2, MetIsWanted DEF Wanted
    <2> QED BY <2>1
<1>5. DomainsTypeOK'
    BY <1>1, <1>3 DEF DInv, DomainsTypeOK, Decisions
<1>6. IntervalsAreDomains' /\ ColumnsPlaced'
    BY <1>1 DEF DInv, IntervalsAreDomains, ColumnsPlaced, ColumnOf, Allowed
<1>7. OwnIsAllowed'
    BY <1>1, <1>3, <1>4 DEF OwnIsAllowed, Allowed, Covered, Ordered
<1>8. MeetsWhat' /\ ListsOrdered' /\ MeetIsWanted' /\ FoundIsPast'
    BY <1>1 DEF MeetsWhat, ListsOrdered, MeetIsWanted, FoundIsPast, Meeting
<1> QED BY <1>5, <1>6, <1>7, <1>8 DEF DInv

\* A shared column keeps what it and the decision both allow.
LEMMA MetClassInv == DInv /\ MetClass => DInv'
<1> SUFFICES ASSUME DInv, MetClass PROVE DInv'
    OBVIOUS
<1> DEFINE c0 == ColumnOf(decision)
           met == IntervalsOf(meet)
<1>1. /\ model' = model /\ decision' = decision + 1 /\ own' = own
      /\ left' = left /\ right' = right /\ meet' = meet
      /\ at = "meet class" /\ at' = "visit"
      /\ intervals' = [intervals EXCEPT ![c0] = met]
      /\ model \in Models /\ decision \in Decisions /\ intervals \in Seq(Seq(Interval))
    BY DEF DInv, DomainsTypeOK, MetClass
<1>2. Meeting /\ Met
    BY DEF MetClass, Meeting
<1>3. /\ met \in Seq(Interval) /\ Ordered(met)
      /\ \A v : v \in Covered(met) <=> v \in Allowed(decision) /\ v \in Covered(intervals[c0])
    BY <1>1, <1>2, MetIsWanted DEF Wanted
<1>4. c0 \in 1 .. Len(intervals)
    BY <1>1 DEF DInv, MeetsWhat
<1> HIDE DEF c0, met
<1>5. /\ intervals' \in Seq(Seq(Interval)) /\ Len(intervals') = Len(intervals)
      /\ intervals'[c0] = met
      /\ \A c \in 1 .. Len(intervals) : c # c0 => intervals'[c] = intervals[c]
    <2>1. intervals \in Seq(Seq(Interval)) /\ met \in Seq(Interval) /\ c0 \in 1 .. Len(intervals)
        BY <1>1, <1>3, <1>4
    <2> DEFINE new == [intervals EXCEPT ![c0] = met]
    <2>2. /\ new \in Seq(Seq(Interval)) /\ Len(new) = Len(intervals) /\ new[c0] = met
          /\ \A c \in 1 .. Len(intervals) : c # c0 => new[c] = intervals[c]
        BY <2>1, ListsReplace
    <2>3. intervals' = new
        BY <1>1
    <2> HIDE DEF new
    <2> QED BY <2>2, <2>3
<1>6. decision \in 1 .. Len(model.column) /\ Len(model.column) \in Nat
    BY <1>1, ModelParts DEF Decisions
<1>7. DomainsTypeOK'
    <2>1. decision' \in 1 .. Len(model.column)' + 1
        BY <1>1, <1>6, DecisionAdvances
    <2> QED BY <1>1, <1>5, <2>1 DEF DInv, DomainsTypeOK
<1>8. \A d \in 1 .. decision' - 1 : d \in 1 .. decision - 1 \/ d = decision
    BY <1>1, <1>6, DecisionAdvances
<1>9. /\ \A d \in 1 .. decision - 1 : d \in 1 .. decision' - 1
      /\ decision \in 1 .. decision' - 1
    BY <1>1, <1>6, DecisionAdvances
<1>10. \A d : ColumnOf(d)' = ColumnOf(d) /\ Allowed(d)' = Allowed(d)
    BY <1>1 DEF ColumnOf, Allowed, Covered
<1>11. ColumnsPlaced'
    <2>1. \A d \in 1 .. decision - 1 : ColumnOf(d) \in 1 .. Len(intervals)
        BY DEF DInv, ColumnsPlaced
    <2>2. \A d \in 1 .. decision' - 1 : ColumnOf(d) \in 1 .. Len(intervals')
        BY <1>4, <1>5, <1>8, <2>1 DEF c0
    <2> QED BY <1>10, <2>2 DEF ColumnsPlaced
<1>12. ASSUME NEW c \in 1 .. Len(intervals')
       PROVE  /\ Ordered(intervals'[c])
              /\ Covered(intervals'[c])
                   = {v \in Values : \A d \in 1 .. decision' - 1 :
                                         ColumnOf(d) = c => v \in Allowed(d)}
    <2>1. /\ Ordered(intervals[c])
          /\ Covered(intervals[c])
                = {v \in Values : \A d \in 1 .. decision - 1 :
                                      ColumnOf(d) = c => v \in Allowed(d)}
        BY <1>5 DEF DInv, IntervalsAreDomains
    <2>2. CASE c # c0
        <3>1. intervals'[c] = intervals[c]
            BY <1>5, <2>2
        <3> QED BY <1>8, <1>9, <2>1, <2>2, <3>1 DEF c0
    <2>3. CASE c = c0
        <3>1. Ordered(intervals'[c])
            BY <1>3, <1>5, <2>3
        <3>2. \A v : v \in Covered(intervals'[c])
                        <=> v \in Allowed(decision) /\ v \in Covered(intervals[c])
            BY <1>3, <1>5, <2>3
        <3> QED BY <1>8, <1>9, <2>1, <2>3, <3>1, <3>2 DEF c0
    <2> QED BY <2>2, <2>3
<1>13. IntervalsAreDomains'
    BY <1>10, <1>12 DEF IntervalsAreDomains, Covered, Ordered
<1>14. OwnIsAllowed' /\ MeetsWhat' /\ ListsOrdered' /\ MeetIsWanted' /\ FoundIsPast'
    BY <1>1 DEF OwnIsAllowed, MeetsWhat, ListsOrdered, MeetIsWanted, FoundIsPast, Meeting
<1> QED BY <1>7, <1>11, <1>13, <1>14 DEF DInv

LEMMA DNextInv == DInv /\ [DomainsNext]_domainsVars => DInv'
<1>1. DInv /\ UNCHANGED domainsVars => DInv'
    <2> SUFFICES ASSUME DInv, UNCHANGED domainsVars PROVE DInv'
        OBVIOUS
    <2> USE DEF domainsVars
    <2>1. DomainsTypeOK'
        BY DEF DInv, DomainsTypeOK, Decisions
    <2>2. IntervalsAreDomains' /\ ColumnsPlaced'
        BY DEF DInv, IntervalsAreDomains, ColumnsPlaced, ColumnOf, Allowed, Covered
    <2>3. OwnIsAllowed' /\ MeetsWhat'
        BY DEF DInv, OwnIsAllowed, MeetsWhat, Allowed, Covered, ColumnOf
    <2>4. ListsOrdered' /\ FoundIsPast'
        BY DEF DInv, ListsOrdered, FoundIsPast, Meeting
    <2>5. MeetIsWanted'
        <3>1. Meeting' = Meeting /\ \A v : Wanted(v)' <=> Wanted(v)
            BY DEF Wanted, Meeting, Allowed, Covered, ColumnOf
        <3>2. \A v : /\ v \in Covered(meet)' <=> v \in Covered(meet)
                     /\ v \in Covered(left)' <=> v \in Covered(left)
                     /\ v \in Covered(right)' <=> v \in Covered(right)
            BY DEF Covered
        <3> QED BY <3>1, <3>2 DEF DInv, MeetIsWanted
    <2> QED BY <2>1, <2>2, <2>3, <2>4, <2>5 DEF DInv
<1> QED
    BY <1>1, VisitInv, PlaceInv, NarrowInv, MeetStepInv, MetOwnInv, MetClassInv
    DEF DomainsNext

-----------------------------------------------------------------------------
\* However many decisions share a column and whatever their domains, Boolean or
\* not, with or without holes, the column is left the values all of them allow.
THEOREM ColumnsHoldDomains == DomainsSpec => []IntervalsAreDomains
<1>1. DInv => IntervalsAreDomains
    BY DEF DInv
<1> QED BY <1>1, DInitInv, DNextInv, PTL DEF DomainsSpec

-----------------------------------------------------------------------------
(***************************************************************************)
(* The scratch.  Neither NoColumnTwice nor RowIsSum is inductive: what     *)
(* NewTerm and Fold do rests on stamp and slot, which no row clears.  The  *)
(* strengthening says no stamp is of a row to come (so RowBegin starts     *)
(* with none), and that of the row being built stamp and slot index idx    *)
(* exactly.                                                                *)
(***************************************************************************)
NoFutureStamp == \A c \in Column : stamp[c] <= rowId

StampsIndexRow ==
    building =>
        /\ \A c \in Column :
              stamp[c] = rowId => slot[c] \in 1 .. Len(idx) /\ idx[slot[c]] = c
        /\ \A i \in 1 .. Len(idx) :
              idx[i] \in Column /\ stamp[idx[i]] = rowId /\ slot[idx[i]] = i

SumOK == sum \in [DOMAIN sum -> Int] /\ DOMAIN sum \subseteq Nat

IInv ==
    /\ TypeOK /\ NoFutureStamp /\ StampsIndexRow /\ SumOK
    /\ NoColumnTwice /\ RowIsSum

-----------------------------------------------------------------------------
\* The scratch of a model that was never built satisfies the strengthening.
LEMMA InitInv == Init => IInv
<1> SUFFICES ASSUME Init PROVE IInv
    OBVIOUS
<1> USE DEF Init, NoTerms
<1>1. TypeOK
    <2>1. Column = {}
        BY DEF Column
    <2>2. slot = [c \in Column |-> 0] /\ stamp = [c \in Column |-> 0]
        BY <2>1
    <2>3. slot \in [Column -> Nat] /\ stamp \in [Column -> Nat]
        <3> HIDE DEF Init
        <3> QED BY <2>2
    <2>4. idx \in Seq(Nat) /\ val \in Seq(Int) /\ Len(idx) = Len(val)
        OBVIOUS
    <2>5. columns = 0 /\ rowId = 0 /\ terms = 0 /\ building \in BOOLEAN
        OBVIOUS
    <2> HIDE DEF Init
    <2> QED
        BY <2>3, <2>4, <2>5, ScratchAssumption DEF TypeOK
<1>2. NoFutureStamp /\ StampsIndexRow /\ SumOK
    BY DEF NoFutureStamp, StampsIndexRow, SumOK, Column
<1>3. NoColumnTwice /\ RowIsSum
    BY DEF NoColumnTwice, RowIsSum
<1> QED
    BY <1>1, <1>2, <1>3 DEF IInv

\* Assign comes between rows: all it must not do is change the last row.
LEMMA AssignInv == IInv /\ Assign => IInv'
<1> SUFFICES ASSUME IInv, Assign PROVE IInv'
    OBVIOUS
<1>1. TypeOK'
    BY ScratchAssumption DEF IInv, TypeOK, Assign, Column
<1>2. (NoFutureStamp /\ StampsIndexRow /\ SumOK)'
    BY DEF IInv, TypeOK, SumOK, Assign, NoFutureStamp, StampsIndexRow, Column
<1>3. (NoColumnTwice /\ RowIsSum)'
    BY DEF IInv, NoColumnTwice, RowIsSum, Assign
<1> QED
    BY <1>1, <1>2, <1>3 DEF IInv

\* RowBegin moves past every stamp there is.
LEMMA RowBeginInv == IInv /\ RowBegin => IInv'
<1> SUFFICES ASSUME IInv, RowBegin PROVE IInv'
    OBVIOUS
<1>1. TypeOK'
    BY ScratchAssumption DEF IInv, TypeOK, RowBegin, Column
<1>2. \A c \in Column' : stamp'[c] < rowId'
    BY DEF IInv, TypeOK, NoFutureStamp, RowBegin, Column
<1>3. NoFutureStamp'
    BY <1>1, <1>2 DEF NoFutureStamp, TypeOK, Column
<1>4. StampsIndexRow'
    BY <1>1, <1>2 DEF StampsIndexRow, RowBegin, TypeOK, Column
<1>5. (SumOK /\ NoColumnTwice /\ RowIsSum)'
    BY DEF SumOK, NoColumnTwice, RowIsSum, RowBegin, NoTerms
<1> QED
    BY <1>1, <1>3, <1>4, <1>5 DEF IInv

\* What Added does to the row's coefficients.
LEMMA SumIs ==
    ASSUME SumOK, NEW c \in Nat, NEW a \in Int
    PROVE  /\ DOMAIN Added(c, a) = DOMAIN sum \cup {c}
           /\ \A d \in DOMAIN sum \ {c} : Added(c, a)[d] = sum[d]
           /\ c \in DOMAIN sum => Added(c, a)[c] = sum[c] + a
           /\ c \notin DOMAIN sum => Added(c, a)[c] = a
           /\ Added(c, a) \in [DOMAIN Added(c, a) -> Int]
           /\ DOMAIN Added(c, a) \subseteq Nat
<1>1. DOMAIN Added(c, a) = DOMAIN sum \cup {c}
    BY DEF Added
<1>2. \A d \in DOMAIN sum : sum[d] \in Int
    BY DEF SumOK
<1>3. \A d \in DOMAIN sum \ {c} : Added(c, a)[d] = sum[d]
    BY <1>2 DEF Added
<1>4. c \in DOMAIN sum => Added(c, a)[c] = sum[c] + a
    BY <1>2 DEF Added
<1>5. c \notin DOMAIN sum => Added(c, a)[c] = a
    BY DEF Added
<1>6. Added(c, a) \in [DOMAIN Added(c, a) -> Int]
    BY <1>2 DEF Added
<1> QED
    BY <1>1, <1>3, <1>4, <1>5, <1>6 DEF SumOK

\* A coefficient that joins a term joins the term of its own column.
LEMMA FoldInv ==
    ASSUME IInv, NEW c \in Column, NEW a \in Coefficients, Fold(c, a)
    PROVE  IInv'
<1> DEFINE s == slot[c]
<1>0. c \in Nat /\ a \in Int
    BY ScratchAssumption DEF IInv, TypeOK, Column
<1>1. s \in 1 .. Len(idx) /\ idx[s] = c
    BY DEF IInv, StampsIndexRow, Fold
<1>2. \A i \in 1 .. Len(idx) : idx[i] = c => i = s
    BY DEF IInv, StampsIndexRow, Fold
<1>3. c \in DOMAIN sum /\ val[s] = sum[c]
    BY <1>1 DEF IInv, RowIsSum
<1>4. /\ val' \in Seq(Int) /\ Len(val') = Len(val)
      /\ val'[s] = val[s] + a
      /\ \A i \in 1 .. Len(idx) : i # s => val'[i] = val[i]
    BY <1>0, <1>1 DEF Fold, IInv, TypeOK
<1>5. TypeOK'
    <2>1. terms' \in 0 .. MaxTerms
        BY ScratchAssumption DEF Fold, IInv, TypeOK
    <2> QED
        BY <2>1, <1>4 DEF IInv, TypeOK, Fold, Column
<1>6. (NoFutureStamp /\ StampsIndexRow /\ NoColumnTwice)'
    BY DEF IInv, NoFutureStamp, StampsIndexRow, NoColumnTwice, Fold, Column
<1>7. /\ DOMAIN sum' = DOMAIN sum
      /\ sum'[c] = sum[c] + a
      /\ \A d \in DOMAIN sum \ {c} : sum'[d] = sum[d]
      /\ SumOK'
    <2>1. sum' = Added(c, a) /\ SumOK
        BY DEF Fold, IInv
    <2>2. DOMAIN Added(c, a) = DOMAIN sum
        BY <2>1, <1>0, <1>3, SumIs
    <2>3. SumOK'
        BY <2>1, <1>0, SumIs DEF SumOK
    <2> QED
        BY <2>1, <2>2, <2>3, <1>0, <1>3, SumIs
<1>8. RowIsSum'
    <2>1. ASSUME NEW i \in 1 .. Len(idx')
          PROVE  idx'[i] \in DOMAIN sum' /\ val'[i] = sum'[idx'[i]]
        <3>1. idx' = idx
            BY DEF Fold
        <3>2. CASE i = s
            BY <3>1, <3>2, <1>1, <1>3, <1>4, <1>7
        <3>3. CASE i # s
            BY <3>1, <3>3, <1>2, <1>4, <1>7, <2>1 DEF IInv, RowIsSum
        <3> QED
            BY <3>2, <3>3
    <2>2. \A d \in DOMAIN sum' : \E i \in 1 .. Len(idx') : idx'[i] = d
        BY <1>7 DEF IInv, RowIsSum, Fold
    <2> QED
        BY <2>1, <2>2 DEF RowIsSum
<1> QED
    BY <1>5, <1>6, <1>7, <1>8 DEF IInv

\* A column that is not stamped has no term yet, and gets its own.
LEMMA NewTermInv ==
    ASSUME IInv, NEW c \in Column, NEW a \in Coefficients, NewTerm(c, a)
    PROVE  IInv'
<1> DEFINE n == Len(idx)
<1>0. c \in Nat /\ a \in Int /\ n \in Nat
    BY ScratchAssumption DEF IInv, TypeOK, Column
<1>1. \A i \in 1 .. n : idx[i] # c
    BY DEF IInv, StampsIndexRow, NewTerm
<1>2. c \notin DOMAIN sum
    BY <1>1 DEF IInv, RowIsSum
<1>3. /\ idx' \in Seq(Nat) /\ Len(idx') = n + 1
      /\ idx'[n + 1] = c
      /\ \A i \in 1 .. n : idx'[i] = idx[i]
    BY <1>0 DEF NewTerm, IInv, TypeOK
<1>4. /\ val' \in Seq(Int) /\ Len(val') = n + 1
      /\ val'[n + 1] = a
      /\ \A i \in 1 .. n : val'[i] = val[i]
    BY <1>0 DEF NewTerm, IInv, TypeOK
<1>5. /\ columns' = columns /\ rowId' = rowId /\ building' = building
      /\ building
    BY DEF NewTerm
<1>6. /\ stamp' \in [Column -> Nat] /\ slot' \in [Column -> Nat]
      /\ stamp'[c] = rowId /\ slot'[c] = n + 1
      /\ \A d \in Column : d # c => stamp'[d] = stamp[d] /\ slot'[d] = slot[d]
    BY <1>0 DEF NewTerm, IInv, TypeOK
<1>7. TypeOK'
    <2>1. terms' \in 0 .. MaxTerms
        BY ScratchAssumption DEF NewTerm, IInv, TypeOK
    <2> QED
        BY <2>1, <1>3, <1>4, <1>5, <1>6 DEF IInv, TypeOK, Column
<1>8. NoFutureStamp'
    <2>1. rowId \in Nat
        BY ScratchAssumption DEF IInv, TypeOK
    <2>2. \A d \in Column : stamp'[d] <= rowId
        BY <2>1, <1>6 DEF IInv, NoFutureStamp
    <2> QED
        BY <2>2, <1>5 DEF NoFutureStamp, Column
<1>9. StampsIndexRow'
    <2>1. ASSUME NEW d \in Column, stamp'[d] = rowId
          PROVE  slot'[d] \in 1 .. n + 1 /\ idx'[slot'[d]] = d
        <3>1. CASE d = c
            BY <3>1, <1>0, <1>3, <1>6
        <3>2. CASE d # c
            <4>1. slot[d] \in 1 .. n /\ idx[slot[d]] = d
                BY <3>2, <2>1, <1>5, <1>6 DEF IInv, StampsIndexRow
            <4> QED
                BY <4>1, <3>2, <1>0, <1>3, <1>6
        <3> QED
            BY <3>1, <3>2
    <2>2. ASSUME NEW i \in 1 .. n + 1
          PROVE  idx'[i] \in Column /\ stamp'[idx'[i]] = rowId /\ slot'[idx'[i]] = i
        <3>1. CASE i = n + 1
            BY <3>1, <1>3, <1>6
        <3>2. CASE i # n + 1
            <4>1. i \in 1 .. n
                BY <3>2, <1>0
            <4>2. idx[i] \in Column /\ stamp[idx[i]] = rowId /\ slot[idx[i]] = i
                BY <4>1, <1>5 DEF IInv, StampsIndexRow
            <4> QED
                BY <4>1, <4>2, <1>1, <1>3, <1>6
        <3> QED
            BY <3>1, <3>2
    <2> HIDE DEF n
    <2> QED
        BY <2>1, <2>2, <1>3, <1>5 DEF StampsIndexRow, Column
<1>10. NoColumnTwice'
    <2> SUFFICES ASSUME NEW i \in 1 .. n + 1, NEW j \in 1 .. n + 1,
                        idx'[i] = idx'[j]
                 PROVE  i = j
        BY <1>3 DEF NoColumnTwice
    <2>1. CASE i \in 1 .. n /\ j \in 1 .. n
        BY <2>1, <1>3 DEF IInv, NoColumnTwice
    <2>2. CASE i = n + 1 \/ j = n + 1
        BY <2>2, <1>0, <1>1, <1>3
    <2> QED
        BY <2>1, <2>2, <1>0
<1>11. /\ DOMAIN sum' = DOMAIN sum \cup {c}
       /\ sum'[c] = a
       /\ \A d \in DOMAIN sum : sum'[d] = sum[d]
       /\ SumOK'
    <2>1. sum' = Added(c, a) /\ SumOK
        BY DEF NewTerm, IInv
    <2>2. SumOK'
        BY <2>1, <1>0, SumIs DEF SumOK
    <2>3. /\ DOMAIN Added(c, a) = DOMAIN sum \cup {c}
          /\ Added(c, a)[c] = a
        BY <2>1, <1>0, <1>2, SumIs
    <2>4. \A d \in DOMAIN sum \ {c} : Added(c, a)[d] = sum[d]
        BY <2>1, <1>0, SumIs
    <2> QED
        BY <2>1, <2>2, <2>3, <2>4, <1>2
<1>12. RowIsSum'
    <2>1. ASSUME NEW i \in 1 .. n + 1
          PROVE  idx'[i] \in DOMAIN sum' /\ val'[i] = sum'[idx'[i]]
        <3>1. CASE i = n + 1
            BY <3>1, <1>3, <1>4, <1>11
        <3>2. CASE i # n + 1
            <4>1. i \in 1 .. n
                BY <3>2, <1>0
            <4>2. idx[i] \in DOMAIN sum /\ val[i] = sum[idx[i]]
                BY <4>1 DEF IInv, RowIsSum
            <4> QED
                BY <4>1, <4>2, <1>3, <1>4, <1>11
        <3> QED
            BY <3>1, <3>2
    <2>2. ASSUME NEW d \in DOMAIN sum'
          PROVE  \E i \in 1 .. n + 1 : idx'[i] = d
        <3>1. CASE d = c
            BY <3>1, <1>0, <1>3
        <3>2. CASE d # c
            <4>1. PICK i \in 1 .. n : idx[i] = d
                BY <3>2, <1>11 DEF IInv, RowIsSum
            <4> QED
                BY <4>1, <1>0, <1>3
        <3> QED
            BY <3>1, <3>2
    <2> HIDE DEF n
    <2> QED
        BY <2>1, <2>2, <1>3 DEF RowIsSum
<1> QED
    BY <1>7, <1>8, <1>9, <1>10, <1>11, <1>12 DEF IInv

\* RowPost hands the row over as it is.
LEMMA RowPostInv == IInv /\ RowPost => IInv'
<1> SUFFICES ASSUME IInv, RowPost PROVE IInv'
    OBVIOUS
<1>1. TypeOK'
    BY DEF IInv, RowPost, TypeOK, Column
<1>2. (NoFutureStamp /\ StampsIndexRow /\ SumOK)'
    BY DEF IInv, RowPost, NoFutureStamp, StampsIndexRow, SumOK, Column
<1>3. (NoColumnTwice /\ RowIsSum)'
    BY DEF IInv, RowPost, NoColumnTwice, RowIsSum
<1> QED
    BY <1>1, <1>2, <1>3 DEF IInv

\* A step that changes nothing keeps the strengthening.
LEMMA StutterInv == IInv /\ UNCHANGED vars => IInv'
<1> SUFFICES ASSUME IInv, UNCHANGED vars PROVE IInv'
    OBVIOUS
<1>1. TypeOK'
    BY DEF IInv, vars, TypeOK, Column
<1>2. NoFutureStamp' /\ SumOK'
    BY DEF IInv, vars, NoFutureStamp, SumOK, Column
<1>3. StampsIndexRow'
    BY DEF IInv, vars, StampsIndexRow, Column
<1>4. (NoColumnTwice /\ RowIsSum)'
    BY DEF IInv, vars, NoColumnTwice, RowIsSum
<1> QED
    BY <1>1, <1>2, <1>3, <1>4 DEF IInv

\* Every operation of the scratch keeps the strengthening.
LEMMA NextInv == IInv /\ [Next]_vars => IInv'
<1> SUFFICES ASSUME IInv, [Next]_vars PROVE IInv'
    OBVIOUS
<1>1. CASE Assign
    BY <1>1, AssignInv
<1>2. CASE RowBegin
    BY <1>2, RowBeginInv
<1>3. CASE RowPost
    BY <1>3, RowPostInv
<1>4. ASSUME NEW c \in Column, NEW a \in Coefficients, Fold(c, a)
      PROVE  IInv'
    BY <1>4, FoldInv
<1>5. ASSUME NEW c \in Column, NEW a \in Coefficients, NewTerm(c, a)
      PROVE  IInv'
    BY <1>5, NewTermInv
<1>6. CASE UNCHANGED vars
    BY <1>6, StutterInv
<1> QED
    BY <1>1, <1>2, <1>3, <1>4, <1>5, <1>6 DEF Next

\* The strengthening holds throughout: no stamp is of a row to come, and of
\* the row being built stamp_ and slot_ say exactly where each column's term
\* is (mip_model.cpp, row_begin and row_add).
THEOREM ScratchInvariant == Spec => []IInv
BY InitInv, NextInv, PTL DEF Spec

\* The scratch's vectors keep the sizes the code indexes them with.
THEOREM ScratchTypeOK == Spec => []TypeOK
<1>1. IInv => TypeOK
    BY DEF IInv
<1> QED
    BY <1>1, ScratchInvariant, PTL

\* No row names a column twice, however many rows reuse the scratch.
THEOREM RowsNameColumnsOnce == Spec => []NoColumnTwice
<1>1. IInv => NoColumnTwice
    BY DEF IInv
<1> QED
    BY <1>1, ScratchInvariant, PTL

\* A row's terms are the sums of the coefficients given for their columns.
THEOREM RowsAreSums == Spec => []RowIsSum
<1>1. IInv => RowIsSum
    BY DEF IInv
<1> QED
    BY <1>1, ScratchInvariant, PTL

-----------------------------------------------------------------------------
(***************************************************************************)
(* A build is its parts: what RowForms does to the scratch is what         *)
(* RowScratch allows, and what it does to the columns is what              *)
(* ColumnDomains does.  So what is proved of each holds of every build.    *)
(***************************************************************************)
LEMMA FormsStepIsScratchStep == [FormsNext]_formsVars => [Next]_vars
<1> USE DEF scratch, vars
<1>1. UNCHANGED formsVars => UNCHANGED vars
    BY DEF formsVars
<1>2. ColumnLoop => UNCHANGED vars
    BY DEF ColumnLoop
<1>3. SizeScratch => Next
    BY DEF SizeScratch, Next
<1>4. RowStart => Next
    BY DEF RowStart, Next
<1>5. ReadTerm => [Next]_vars
    <2> SUFFICES ASSUME ReadTerm PROVE [Next]_vars
        OBVIOUS
    <2> DEFINE t == Head(todo)
    <2>1. CASE IsLiteral(t.arg)
        BY <2>1 DEF ReadTerm
    <2>2. CASE ~IsLiteral(t.arg)
        <3>1. \E c \in Column, a \in Coefficients : Fold(c, a) \/ NewTerm(c, a)
            BY <2>2 DEF ReadTerm
        <3> QED BY <3>1 DEF Next
    <2> QED BY <2>1, <2>2
<1>6. Satisfied \/ RowEnd => Next
    BY DEF Satisfied, RowEnd, Next
<1>7. Turn => UNCHANGED vars
    BY DEF Turn
<1>8. \A form : Takes(form) => UNCHANGED vars
    BY <1>7 DEF Takes
<1>9. Skip \/ LinearRow \/ ClauseRow \/ EqualRow \/ ImpliedRow \/ ImpliedByNothing
          \/ QuadraticRow \/ ProductRow \/ Reject => UNCHANGED vars
    BY <1>7, <1>8 DEF Skip, LinearRow, ClauseRow, EqualRow, ImpliedRow, ImpliedByNothing,
                      QuadraticRow, ProductRow, Reject
<1>10. NextLayer \/ Built => UNCHANGED vars
    BY DEF NextLayer, Built, formsVars
<1> QED
    BY <1>1, <1>2, <1>3, <1>4, <1>5, <1>6, <1>9, <1>10 DEF FormsNext

\* A build only ever uses its row scratch as RowScratch says: begun, added to
\* and posted in turn, and sized between rows.
THEOREM BuildUsesScratch == FormsSpec => Spec
<1>1. FormsInit => Init
    BY DEF FormsInit
<1> QED
    BY <1>1, FormsStepIsScratchStep, PTL DEF FormsSpec, Spec

LEMMA FormsStepIsDomainsStep == [FormsNext]_formsVars => [DomainsNext]_domainsVars
<1>1. UNCHANGED formsVars => UNCHANGED domainsVars
    BY DEF formsVars
<1>2. ColumnLoop => DomainsNext
    BY DEF ColumnLoop
<1>3. SizeScratch \/ RowStart \/ ReadTerm \/ Satisfied \/ RowEnd => UNCHANGED domainsVars
    BY DEF SizeScratch, RowStart, ReadTerm, Satisfied, RowEnd
<1>4. Turn => UNCHANGED domainsVars
    BY DEF Turn
<1>5. \A form : Takes(form) => UNCHANGED domainsVars
    BY <1>4 DEF Takes
<1>6. Skip \/ LinearRow \/ ClauseRow \/ EqualRow \/ ImpliedRow \/ ImpliedByNothing
          \/ QuadraticRow \/ ProductRow \/ Reject => UNCHANGED domainsVars
    BY <1>4, <1>5 DEF Skip, LinearRow, ClauseRow, EqualRow, ImpliedRow, ImpliedByNothing,
                      QuadraticRow, ProductRow, Reject
<1>7. NextLayer \/ Built => UNCHANGED domainsVars
    BY DEF NextLayer, Built, formsVars
<1> QED
    BY <1>1, <1>2, <1>3, <1>6, <1>7 DEF FormsNext

\* Nothing a build does after its columns changes their values.
THEOREM BuildKeepsColumns == FormsSpec => DomainsSpec
<1>1. FormsInit => DomainsInit
    BY DEF FormsInit
<1> QED
    BY <1>1, FormsStepIsDomainsStep, PTL DEF FormsSpec, DomainsSpec

\* No row of a build names a column twice, whatever constraints it is for.
THEOREM BuildNamesColumnsOnce == FormsSpec => []NoColumnTwice
BY BuildUsesScratch, RowsNameColumnsOnce, PTL

\* Every row of a build is the sum of its constraint's terms.
THEOREM BuildRowsAreSums == FormsSpec => []RowIsSum
BY BuildUsesScratch, RowsAreSums, PTL

\* While a build posts its rows each column still holds what its decisions allow.
THEOREM BuildColumnsHoldDomains == FormsSpec => []IntervalsAreDomains
BY BuildKeepsColumns, ColumnsHoldDomains, PTL

-----------------------------------------------------------------------------
(***************************************************************************)
(* The shape of a column: it has an interval, an empty one only if that is *)
(* all it has, and the column of a Boolean has none outside 0 .. 1.  This  *)
(* is what makes bounds and selectors say what the intervals do, and a     *)
(* clause's sum count its true literals.                                   *)
(***************************************************************************)
Filled(list) == \A i \in 1 .. Len(list) : list[i].min <= list[i].max
Solid(list)  == Len(list) # 0 /\ (Len(list) > 1 => Filled(list))
InBits(list) == \A i \in 1 .. Len(list) : 0 <= list[i].min /\ list[i].max <= 1

\* The values to be met are a Boolean's.
BitsWanted ==
    \/ model.boolean[decision]
    \/ /\ at = "meet class"
       /\ \E d \in 1 .. decision - 1 : ColumnOf(d) = ColumnOf(decision) /\ model.boolean[d]

ColumnsSolid == \A c \in 1 .. Len(intervals) : Solid(intervals[c])
OwnSolid     == at \in {"place", "meet class"} => Solid(own)
MeetFilled   == Meeting => Filled(meet)

ColumnsInBits ==
    \A d \in 1 .. decision - 1 : model.boolean[d] => InBits(intervals[ColumnOf(d)])
OwnInBits == at \in {"place", "meet class"} /\ model.boolean[decision] => InBits(own)
MeetInBits == Meeting /\ BitsWanted => InBits(meet) /\ (InBits(left) \/ InBits(right))

ShapeInv ==
    /\ ColumnsSolid /\ OwnSolid /\ MeetFilled
    /\ ColumnsInBits /\ OwnInBits /\ MeetInBits

LEMMA DomainSolid ==
    ASSUME model \in Models, NEW d \in Decisions
    PROVE  Solid(IntervalsOf(model.domain[d]))
<1>1. model.domain[d] \in Seq(Interval)
    BY ModelParts
<1>2. Len(model.domain[d]) > 1 => Filled(model.domain[d])
    BY FormsAssumption DEF Decisions, Filled
<1>3. CASE model.domain[d] = <<>>
    <2>1. Len(NoValues) = 1
        BY DEF NoValues
    <2>2. Solid(NoValues)
        BY <2>1 DEF Solid
    <2> QED BY <1>3, <2>2 DEF IntervalsOf
<1>4. CASE model.domain[d] # <<>>
    <2>1. Len(model.domain[d]) # 0
        BY <1>1, <1>4
    <2> QED BY <1>2, <1>4, <2>1 DEF IntervalsOf, Solid
<1> QED BY <1>3, <1>4

LEMMA MetSolid ==
    ASSUME NEW list \in Seq(Interval), Filled(list)
    PROVE  Solid(IntervalsOf(list))
<1>1. CASE list = <<>>
    <2>1. Len(NoValues) = 1
        BY DEF NoValues
    <2>2. Solid(NoValues)
        BY <2>1 DEF Solid
    <2> QED BY <1>1, <2>2 DEF IntervalsOf
<1>2. CASE list # <<>>
    <2>1. Len(list) # 0
        BY <1>2
    <2> QED BY <1>2, <2>1 DEF IntervalsOf, Solid
<1> QED BY <1>1, <1>2

LEMMA MetInBits ==
    ASSUME NEW list \in Seq(Interval), InBits(list)
    PROVE  InBits(IntervalsOf(list))
<1>1. Len(NoValues) = 1 /\ NoValues[1].min = 1 /\ NoValues[1].max = 0
    BY DEF NoValues
<1>2. InBits(NoValues)
    BY <1>1 DEF InBits
<1> QED BY <1>2 DEF IntervalsOf

LEMMA TailInBits ==
    ASSUME NEW list \in Seq(Interval), list # <<>>, InBits(list)
    PROVE  InBits(Tail(list)) /\ 0 <= Head(list).min /\ Head(list).max <= 1
<1> DEFINE rest == Tail(list)
<1>1. Len(list) \in Nat \ {0} /\ Len(rest) = Len(list) - 1 /\ Head(list) = list[1]
      /\ \A i \in 1 .. Len(rest) : rest[i] = list[i + 1]
    OBVIOUS
<1> HIDE DEF rest
<1>2. \A i \in 1 .. Len(rest) : i + 1 \in 1 .. Len(list)
    BY <1>1
<1>3. 1 \in 1 .. Len(list)
    BY <1>1
<1> QED BY <1>1, <1>2, <1>3 DEF InBits, rest

LEMMA AppendShape ==
    ASSUME NEW list \in Seq(Interval), NEW e \in Interval
    PROVE  /\ Filled(list) /\ e.min <= e.max => Filled(Append(list, e))
           /\ InBits(list) /\ 0 <= e.min /\ e.max <= 1 => InBits(Append(list, e))
<1> DEFINE longer == Append(list, e)
<1>1. Len(list) \in Nat /\ Len(longer) = Len(list) + 1 /\ longer[Len(list) + 1] = e
      /\ \A i \in 1 .. Len(list) : longer[i] = list[i]
    OBVIOUS
<1> HIDE DEF longer
<1>2. \A i \in 1 .. Len(longer) : i \in 1 .. Len(list) \/ i = Len(list) + 1
    BY <1>1
<1> QED BY <1>1, <1>2 DEF Filled, InBits, longer

LEMMA ShapeInit == DomainsInit => ShapeInv
<1> SUFFICES ASSUME DomainsInit PROVE ShapeInv
    OBVIOUS
<1>1. Len(intervals) = 0 /\ decision = 1 /\ at = "visit"
    BY DEF DomainsInit
<1> QED BY <1>1 DEF ShapeInv, ColumnsSolid, OwnSolid, MeetFilled, ColumnsInBits, OwnInBits,
                    MeetInBits, Meeting

LEMMA ShapeVisit == DInv /\ ShapeInv /\ Visit => ShapeInv'
<1> SUFFICES ASSUME DInv, ShapeInv, Visit PROVE ShapeInv'
    OBVIOUS
<1>1. /\ at = "visit" /\ decision \in Decisions /\ model \in Models
      /\ model' = model /\ decision' = decision /\ intervals' = intervals
    BY DEF Visit, DInv, DomainsTypeOK
<1>2. (ColumnsSolid /\ ColumnsInBits)'
    BY <1>1 DEF ShapeInv, ColumnsSolid, ColumnsInBits, ColumnOf
<1>3. CASE model.boolean[decision]
    <2>1. /\ left' = Binary /\ right' = IntervalsOf(model.domain[decision])
          /\ meet' = <<>> /\ at' = "meet own" /\ own' = own
        BY <1>3 DEF Visit
    <2>2. Filled(<<>>) /\ InBits(<<>>)
        BY DEF Filled, InBits
    <2>3. InBits(Binary)
        <3>1. Len(Binary) = 1 /\ Binary[1].min = 0 /\ Binary[1].max = 1
            BY DEF Binary
        <3> QED BY <3>1 DEF InBits
    <2>4. (MeetFilled /\ MeetInBits)'
        BY <2>1, <2>2, <2>3 DEF MeetFilled, MeetInBits
    <2>5. (OwnSolid /\ OwnInBits)'
        BY <2>1 DEF OwnSolid, OwnInBits
    <2> QED BY <1>2, <2>4, <2>5 DEF ShapeInv
<1>4. CASE ~ model.boolean[decision]
    <2>1. own' = IntervalsOf(model.domain[decision]) /\ at' = "place"
        BY <1>4 DEF Visit
    <2>2. Solid(own')
        BY <1>1, <2>1, DomainSolid
    <2>3. (OwnSolid /\ OwnInBits)'
        BY <1>1, <1>4, <2>2 DEF OwnSolid, OwnInBits
    <2>4. (MeetFilled /\ MeetInBits)'
        BY <2>1 DEF MeetFilled, MeetInBits, Meeting
    <2> QED BY <1>2, <2>3, <2>4 DEF ShapeInv
<1> QED BY <1>3, <1>4

LEMMA ShapePlace == DInv /\ ShapeInv /\ Place => ShapeInv'
<1> SUFFICES ASSUME DInv, ShapeInv, Place PROVE ShapeInv'
    OBVIOUS
<1>1. /\ at = "place" /\ decision \in Decisions /\ model \in Models
      /\ model' = model /\ decision' = decision + 1 /\ at' = "visit"
      /\ ColumnOf(decision) = Len(intervals) + 1
      /\ intervals' = Append(intervals, own)
      /\ own \in Seq(Interval) /\ intervals \in Seq(Seq(Interval))
    BY DEF Place, DInv, DomainsTypeOK
<1>2. /\ Len(intervals) \in Nat /\ Len(intervals') = Len(intervals) + 1
      /\ intervals'[Len(intervals) + 1] = own
      /\ \A c \in 1 .. Len(intervals) : intervals'[c] = intervals[c]
    BY <1>1
<1>3. Solid(own) /\ (model.boolean[decision] => InBits(own))
    BY <1>1 DEF ShapeInv, OwnSolid, OwnInBits
<1>4. ColumnsSolid'
    <2>1. \A c \in 1 .. Len(intervals') : c \in 1 .. Len(intervals) \/ c = Len(intervals) + 1
        BY <1>2
    <2>2. \A c \in 1 .. Len(intervals') : Solid(intervals'[c])
        BY <1>2, <1>3, <2>1 DEF ShapeInv, ColumnsSolid
    <2> QED BY <2>2 DEF ColumnsSolid
<1>5. ColumnsInBits'
    <2>1. \A d \in 1 .. decision' - 1 : d \in 1 .. decision - 1 \/ d = decision
        <3>1. decision \in 1 .. Len(model.column) /\ Len(model.column) \in Nat
            BY <1>1, ModelParts DEF Decisions
        <3> QED BY <1>1, <3>1, DecisionAdvances
    <2>2. ASSUME NEW d \in 1 .. decision' - 1, model.boolean[d]
          PROVE  InBits(intervals'[ColumnOf(d)])
        <3>1. CASE d \in 1 .. decision - 1
            <4>1. ColumnOf(d) \in 1 .. Len(intervals)
                BY <3>1 DEF DInv, ColumnsPlaced
            <4> QED BY <1>2, <2>2, <3>1, <4>1 DEF ShapeInv, ColumnsInBits
        <3>2. CASE d = decision
            BY <1>1, <1>2, <1>3, <2>2, <3>2
        <3> QED BY <2>1, <3>1, <3>2
    <2> QED BY <1>1, <2>2 DEF ColumnsInBits, ColumnOf
<1>6. (OwnSolid /\ OwnInBits /\ MeetFilled /\ MeetInBits)'
    BY <1>1 DEF OwnSolid, OwnInBits, MeetFilled, MeetInBits, Meeting
<1> QED BY <1>4, <1>5, <1>6 DEF ShapeInv

LEMMA ShapeNarrow == DInv /\ ShapeInv /\ Narrow => ShapeInv'
<1> SUFFICES ASSUME DInv, ShapeInv, Narrow PROVE ShapeInv'
    OBVIOUS
<1>1. /\ at = "place" /\ decision' = decision /\ at' = "meet class"
      /\ model' = model /\ own' = own /\ intervals' = intervals
      /\ left' = intervals[ColumnOf(decision)] /\ right' = own /\ meet' = <<>>
    BY DEF Narrow
<1>2. (ColumnsSolid /\ ColumnsInBits)'
    BY <1>1 DEF ShapeInv, ColumnsSolid, ColumnsInBits, ColumnOf
<1>3. (OwnSolid /\ OwnInBits)'
    BY <1>1 DEF ShapeInv, OwnSolid, OwnInBits
<1>4. Filled(<<>>) /\ InBits(<<>>)
    BY DEF Filled, InBits
<1>5. MeetFilled'
    BY <1>1, <1>4 DEF MeetFilled
<1>6. MeetInBits'
    <2>1. ASSUME BitsWanted' PROVE InBits(left') \/ InBits(right')
        <3>1. \/ model.boolean[decision]
              \/ \E d \in 1 .. decision - 1 : ColumnOf(d) = ColumnOf(decision) /\ model.boolean[d]
            BY <1>1, <2>1 DEF BitsWanted, ColumnOf
        <3> QED BY <1>1, <3>1 DEF ShapeInv, OwnInBits, ColumnsInBits
    <2> QED BY <1>1, <1>4, <2>1 DEF MeetInBits
<1> QED BY <1>2, <1>3, <1>5, <1>6 DEF ShapeInv

LEMMA ShapeMeetStep == DInv /\ ShapeInv /\ MeetStep => ShapeInv'
<1> SUFFICES ASSUME DInv, ShapeInv, MeetStep PROVE ShapeInv'
    OBVIOUS
<1> DEFINE hl == Head(left)
           hr == Head(right)
<1>1. /\ Meeting /\ left # <<>> /\ right # <<>>
      /\ model' = model /\ decision' = decision /\ at' = at /\ own' = own
      /\ intervals' = intervals
      /\ left \in Seq(Interval) /\ right \in Seq(Interval) /\ meet \in Seq(Interval)
    BY DEF DInv, DomainsTypeOK, MeetStep
<1>2. hl \in Interval /\ hr \in Interval
    <2>1. Ordered(left) /\ Ordered(right)
        BY <1>1 DEF DInv, ListsOrdered
    <2> QED BY <1>1, <2>1, OrderedTail
<1>3. Common = [min |-> Higher(hl.min, hr.min), max |-> Lower(hl.max, hr.max)]
    BY DEF Common
<1>4. meet' = IF Common.min <= Common.max THEN Append(meet, Common) ELSE meet
    BY DEF MeetStep
<1>5. \/ left' = Tail(left) /\ right' = right
      \/ right' = Tail(right) /\ left' = left
    BY DEF MeetStep
<1> HIDE DEF hl, hr
<1>6. /\ Common \in Interval
      /\ 0 <= hl.min \/ 0 <= hr.min => 0 <= Common.min
      /\ hl.max <= 1 \/ hr.max <= 1 => Common.max <= 1
    BY <1>2, <1>3 DEF Interval, Higher, Lower
<1>7. (ColumnsSolid /\ ColumnsInBits)'
    BY <1>1 DEF ShapeInv, ColumnsSolid, ColumnsInBits, ColumnOf
<1>8. (OwnSolid /\ OwnInBits)'
    BY <1>1 DEF ShapeInv, OwnSolid, OwnInBits
<1>9. MeetFilled'
    <2>1. Filled(meet)
        BY <1>1 DEF ShapeInv, MeetFilled
    <2>2. Filled(meet')
        BY <1>1, <1>4, <1>6, <2>1, AppendShape
    <2> QED BY <2>2 DEF MeetFilled
<1>10. MeetInBits'
    <2> SUFFICES ASSUME BitsWanted' PROVE InBits(meet') /\ (InBits(left') \/ InBits(right'))
        BY DEF MeetInBits
    <2>1. BitsWanted
        BY <1>1 DEF BitsWanted, ColumnOf
    <2>2. InBits(meet) /\ (InBits(left) \/ InBits(right))
        BY <1>1, <2>1 DEF ShapeInv, MeetInBits
    <2>3. InBits(left) => InBits(Tail(left)) /\ 0 <= hl.min /\ hl.max <= 1
        BY <1>1, TailInBits DEF hl
    <2>4. InBits(right) => InBits(Tail(right)) /\ 0 <= hr.min /\ hr.max <= 1
        BY <1>1, TailInBits DEF hr
    <2>5. 0 <= Common.min /\ Common.max <= 1
        BY <1>6, <2>2, <2>3, <2>4
    <2>6. InBits(meet')
        BY <1>1, <1>4, <1>6, <2>2, <2>5, AppendShape
    <2>7. InBits(left') \/ InBits(right')
        BY <1>5, <2>2, <2>3, <2>4
    <2> QED BY <2>6, <2>7
<1> QED BY <1>7, <1>8, <1>9, <1>10 DEF ShapeInv

LEMMA ShapeMetOwn == DInv /\ ShapeInv /\ MetOwn => ShapeInv'
<1> SUFFICES ASSUME DInv, ShapeInv, MetOwn PROVE ShapeInv'
    OBVIOUS
<1>1. /\ model' = model /\ decision' = decision /\ intervals' = intervals
      /\ left' = left /\ right' = right /\ meet' = meet
      /\ at = "meet own" /\ at' = "place" /\ own' = IntervalsOf(meet) /\ meet \in Seq(Interval)
    BY DEF MetOwn, DInv, DomainsTypeOK
<1>2. (ColumnsSolid /\ ColumnsInBits)'
    BY <1>1 DEF ShapeInv, ColumnsSolid, ColumnsInBits, ColumnOf
<1>3. Filled(meet) /\ (model.boolean[decision] => InBits(meet))
    BY <1>1 DEF ShapeInv, MeetFilled, MeetInBits, Meeting, BitsWanted
<1>4. Solid(own') /\ (model.boolean[decision] => InBits(own'))
    BY <1>1, <1>3, MetSolid, MetInBits
<1>5. (OwnSolid /\ OwnInBits)'
    BY <1>1, <1>4 DEF OwnSolid, OwnInBits
<1>6. (MeetFilled /\ MeetInBits)'
    BY <1>1 DEF MeetFilled, MeetInBits, Meeting
<1> QED BY <1>2, <1>5, <1>6 DEF ShapeInv

LEMMA ShapeMetClass == DInv /\ ShapeInv /\ MetClass => ShapeInv'
<1> SUFFICES ASSUME DInv, ShapeInv, MetClass PROVE ShapeInv'
    OBVIOUS
<1> DEFINE c0 == ColumnOf(decision)
           met == IntervalsOf(meet)
<1>1. /\ model' = model /\ decision' = decision + 1 /\ own' = own
      /\ at = "meet class" /\ at' = "visit"
      /\ intervals' = [intervals EXCEPT ![c0] = met]
      /\ model \in Models /\ decision \in Decisions /\ intervals \in Seq(Seq(Interval))
      /\ meet \in Seq(Interval)
    BY DEF DInv, DomainsTypeOK, MetClass
<1>2. c0 \in 1 .. Len(intervals)
    BY <1>1 DEF DInv, MeetsWhat
<1>3. Filled(meet) /\ (BitsWanted => InBits(meet))
    BY <1>1 DEF ShapeInv, MeetFilled, MeetInBits, Meeting
<1>4. Solid(met) /\ (BitsWanted => InBits(met))
    BY <1>1, <1>3, MetSolid, MetInBits
<1>5. BitsWanted <=> \E d \in 1 .. decision' - 1 : ColumnOf(d) = c0 /\ model.boolean[d]
    <2>1. decision \in 1 .. Len(model.column) /\ Len(model.column) \in Nat
        BY <1>1, ModelParts DEF Decisions
    <2>2. /\ \A d \in 1 .. decision' - 1 : d \in 1 .. decision - 1 \/ d = decision
          /\ \A d \in 1 .. decision - 1 : d \in 1 .. decision' - 1
          /\ decision \in 1 .. decision' - 1
        BY <1>1, <2>1, DecisionAdvances
    <2> QED BY <1>1, <2>2 DEF BitsWanted
<1> HIDE DEF c0, met
<1>6. /\ Len(intervals') = Len(intervals) /\ intervals'[c0] = met
      /\ \A c \in 1 .. Len(intervals) : c # c0 => intervals'[c] = intervals[c]
    <2>1. intervals \in Seq(Seq(Interval)) /\ met \in Seq(Interval) /\ c0 \in 1 .. Len(intervals)
        <3>1. Meeting /\ Met
            BY DEF MetClass, Meeting
        <3> QED BY <1>1, <1>2, <3>1, MetIsWanted DEF met
    <2> DEFINE new == [intervals EXCEPT ![c0] = met]
    <2>2. /\ Len(new) = Len(intervals) /\ new[c0] = met
          /\ \A c \in 1 .. Len(intervals) : c # c0 => new[c] = intervals[c]
        BY <2>1, ListsReplace
    <2>3. intervals' = new
        BY <1>1
    <2> HIDE DEF new
    <2> QED BY <2>2, <2>3
<1>7. ColumnsSolid'
    <2>1. \A c \in 1 .. Len(intervals') : Solid(intervals'[c])
        BY <1>4, <1>6 DEF ShapeInv, ColumnsSolid
    <2> QED BY <2>1 DEF ColumnsSolid
<1>8. ColumnsInBits'
    <2>1. ASSUME NEW d \in 1 .. decision' - 1, model.boolean[d]
          PROVE  InBits(intervals'[ColumnOf(d)])
        <3>1. CASE ColumnOf(d) = c0
            BY <1>4, <1>5, <1>6, <2>1, <3>1
        <3>2. CASE ColumnOf(d) # c0
            <4>1. d \in 1 .. decision - 1
                <5>1. decision \in 1 .. Len(model.column) /\ Len(model.column) \in Nat
                    BY <1>1, ModelParts DEF Decisions
                <5>2. d \in 1 .. decision - 1 \/ d = decision
                    BY <1>1, <5>1, DecisionAdvances
                <5> QED BY <3>2, <5>2 DEF c0
            <4>2. ColumnOf(d) \in 1 .. Len(intervals)
                BY <4>1 DEF DInv, ColumnsPlaced
            <4> QED BY <1>6, <2>1, <3>2, <4>1, <4>2 DEF ShapeInv, ColumnsInBits
        <3> QED BY <3>1, <3>2
    <2> QED BY <1>1, <2>1 DEF ColumnsInBits, ColumnOf
<1>9. (OwnSolid /\ OwnInBits /\ MeetFilled /\ MeetInBits)'
    BY <1>1 DEF OwnSolid, OwnInBits, MeetFilled, MeetInBits, Meeting
<1> QED BY <1>7, <1>8, <1>9 DEF ShapeInv

\* Every step of the column loop keeps the shape.
LEMMA ShapeNext == DInv /\ ShapeInv /\ [DomainsNext]_domainsVars => ShapeInv'
<1>1. ShapeInv /\ UNCHANGED domainsVars => ShapeInv'
    BY DEF ShapeInv, domainsVars, ColumnsSolid, OwnSolid, MeetFilled, ColumnsInBits, OwnInBits,
           MeetInBits, Meeting, BitsWanted, ColumnOf
<1> QED
    BY <1>1, ShapeVisit, ShapePlace, ShapeNarrow, ShapeMeetStep, ShapeMetOwn, ShapeMetClass
    DEF DomainsNext

-----------------------------------------------------------------------------
(***************************************************************************)
(* Where the selectors are.                                                *)
(***************************************************************************)
LEMMA SeqOfValues ==
    ASSUME NEW S, NEW n \in Nat, NEW f \in [1 .. n -> S]
    PROVE  f \in Seq(S) /\ Len(f) = n
OBVIOUS

LEMMA NumbersOf ==
    ASSUME NEW n \in Nat, NEW f \in [1 .. n -> Int]
    PROVE  Numbers(f) /\ Len(f) = n
<1>1. f \in Seq(Int) /\ Len(f) = n
    BY SeqOfValues
<1>2. f \in [1 .. Len(f) -> Int]
    BY <1>1
<1> QED BY <1>1, <1>2 DEF Numbers

LEMMA JoinedNone ==
    ASSUME NEW S, NEW s \in Seq(S)
    PROVE  s \o <<>> = s
OBVIOUS

LEMMA Joined ==
    ASSUME NEW S, NEW s \in Seq(S), NEW t \in Seq(S)
    PROVE  /\ s \o t \in Seq(S) /\ Len(s \o t) = Len(s) + Len(t)
           /\ \A i \in 1 .. Len(s) : (s \o t)[i] = s[i]
           /\ \A i \in 1 .. Len(t) : (s \o t)[Len(s) + i] = t[i]
OBVIOUS

\* Each column with holes has selectors of its own, all past the model's columns.
SelectorsApart ==
    /\ Selectors \in Nat
    /\ \A c \in 1 .. Len(intervals) :
          /\ SelectorsOf(c) \in Nat /\ SelectorsBefore(c) \in Nat
          /\ Len(intervals) <= SelectorsBefore(c)
          /\ SelectorsBefore(c) + SelectorsOf(c) <= Len(intervals) + Selectors
    /\ \A c, d \in 1 .. Len(intervals) :
          c < d => SelectorsBefore(c) + SelectorsOf(c) <= SelectorsBefore(d)

LEMMA SelectorPlaces ==
    ASSUME intervals \in Seq(Seq(Interval))
    PROVE  SelectorsApart
<1> DEFINE n == Len(intervals)
           w == [h \in 1 .. n |-> SelectorsOf(h)]
<1>1. n \in Nat /\ \A c \in 1 .. n : SelectorsOf(c) \in Nat
    BY DEF SelectorsOf, Holey
<1>2. Numbers(w) /\ Len(w) = n
    <2>1. w \in [1 .. n -> Int]
        BY <1>1
    <2> HIDE DEF w, n
    <2> QED BY <1>1, <2>1, NumbersOf
<1>3. Selectors = Total(w)
    BY DEF Selectors
<1>4. \A h \in 1 .. n : w[h] = SelectorsOf(h)
    OBVIOUS
<1>5. \A c : SelectorsBefore(c) = n + Total([h \in 1 .. c - 1 |-> SelectorsOf(h)])
    BY DEF SelectorsBefore
<1> HIDE DEF w, n
<1>6. PICK p : PartialSums(p, w) /\ Total(w) = p[n]
    BY <1>2, TotalSums
<1>7. p[0] = 0 /\ (\A i \in 1 .. n : p[i] = p[i - 1] + SelectorsOf(i)) /\ \A i \in 0 .. n : p[i] \in Int
    BY <1>2, <1>4, <1>6 DEF PartialSums
<1>8. ASSUME NEW c \in 1 .. n
      PROVE  SelectorsBefore(c) = n + p[c - 1]
    <2> DEFINE v == [h \in 1 .. c - 1 |-> SelectorsOf(h)]
    <2>1. c - 1 \in Nat /\ \A h \in 1 .. c - 1 : h \in 1 .. n
        BY <1>1
    <2>2. v \in [1 .. c - 1 -> Int] /\ \A h \in 1 .. c - 1 : v[h] = SelectorsOf(h)
        BY <1>1, <2>1
    <2>3. Numbers(v) /\ Len(v) = c - 1
        <3> HIDE DEF v
        <3> QED BY <2>1, <2>2, NumbersOf
    <2>4. SelectorsBefore(c) = n + Total(v)
        BY <1>5
    <2> HIDE DEF v
    <2>5. \A i \in 1 .. Len(v) : p[i] = p[i - 1] + v[i]
        BY <1>7, <2>1, <2>2, <2>3
    <2>6. Total(v) = p[c - 1]
        BY <1>7, <2>3, <2>5, TotalIs
    <2> QED BY <2>4, <2>6
<1>9. \A j \in 0 .. n : \A i \in 0 .. j : p[i] <= p[j]
    <2> DEFINE A == {j \in 0 .. n : \A i \in 0 .. j : p[i] <= p[j]}
    <2>1. 0 \in A
        BY <1>1, <1>7
    <2>2. ASSUME NEW j \in 0 .. n - 1, j \in A PROVE j + 1 \in A
        <3>1. j + 1 \in 1 .. n /\ (j + 1) - 1 = j /\ j \in 0 .. n /\ j + 1 \in 0 .. n
            BY <1>1
        <3>2. p[j + 1] = p[j] + SelectorsOf(j + 1) /\ SelectorsOf(j + 1) \in Nat
              /\ p[j] \in Int
            BY <1>1, <1>7, <3>1
        <3>3. \A i \in 0 .. j : p[i] <= p[j] /\ p[i] \in Int
            <4>1. \A i \in 0 .. j : p[i] <= p[j]
                BY <2>2
            <4>2. \A i \in 0 .. j : i \in 0 .. n
                BY <1>1, <3>1
            <4> QED BY <1>7, <4>1, <4>2
        <3>4. \A i \in 0 .. j + 1 : i \in 0 .. j \/ i = j + 1
            BY <3>1
        <3>5. \A i \in 0 .. j + 1 : p[i] <= p[j + 1]
            <4> TAKE i \in 0 .. j + 1
            <4>1. CASE i \in 0 .. j
                BY <3>2, <3>3, <4>1
            <4>2. CASE i = j + 1
                BY <3>2, <4>2
            <4> QED BY <3>4, <4>1, <4>2
        <3> QED BY <3>1, <3>5
    <2> HIDE DEF A
    <2>3. \A j \in 0 .. n : j \in A
        BY <1>1, <2>1, <2>2, RangeInduction, ZenonT(30)
    <2> QED BY <2>3 DEF A
<1>10. \A c \in 1 .. n : /\ c \in 0 .. n /\ c - 1 \in 0 .. n
                         /\ p[c] = p[c - 1] + SelectorsOf(c)
                         /\ p[0] <= p[c - 1] /\ p[c] <= p[n] /\ p[c - 1] \in Int /\ p[c] \in Int
    <2> TAKE c \in 1 .. n
    <2>1. c \in 0 .. n /\ c - 1 \in 0 .. n /\ 0 \in 0 .. c - 1 /\ n \in 0 .. n /\ c \in 0 .. n
        BY <1>1
    <2> QED BY <1>7, <1>9, <2>1
<1>11. p[n] \in Nat
    <2>1. 0 \in 0 .. n /\ n \in 0 .. n
        BY <1>1
    <2>2. p[n] \in Int /\ p[0] <= p[n]
        BY <1>7, <1>9, <2>1
    <2> QED BY <1>7, <2>2
<1>12. ASSUME NEW c \in 1 .. n
       PROVE  /\ SelectorsBefore(c) \in Nat /\ n <= SelectorsBefore(c)
              /\ SelectorsBefore(c) + SelectorsOf(c) <= n + Selectors
    <2>1. SelectorsBefore(c) = n + p[c - 1] /\ SelectorsOf(c) \in Nat
        BY <1>1, <1>8
    <2>2. /\ p[c] = p[c - 1] + SelectorsOf(c) /\ p[0] <= p[c - 1] /\ p[c] <= p[n]
          /\ p[c - 1] \in Int /\ p[c] \in Int
        BY <1>10
    <2>3. p[0] = 0 /\ Selectors = p[n] /\ p[n] \in Nat /\ n \in Nat
        BY <1>1, <1>3, <1>6, <1>7, <1>11
    <2> QED BY <2>1, <2>2, <2>3, SMTT(30)
<1>13. ASSUME NEW c \in 1 .. n, NEW d \in 1 .. n, c < d
       PROVE  SelectorsBefore(c) + SelectorsOf(c) <= SelectorsBefore(d)
    <2>1. c \in 0 .. d - 1 /\ d - 1 \in 0 .. n
        BY <1>1, <1>13
    <2>2. p[c] <= p[d - 1]
        BY <1>9, <2>1
    <2>3. SelectorsBefore(c) = n + p[c - 1] /\ SelectorsBefore(d) = n + p[d - 1]
        BY <1>8
    <2>4. p[c] = p[c - 1] + SelectorsOf(c) /\ p[c - 1] \in Int /\ p[c] \in Int /\ p[d - 1] \in Int
        BY <1>10
    <2>5. n \in Nat /\ SelectorsOf(c) \in Nat
        BY <1>1
    <2> QED BY <2>2, <2>3, <2>4, <2>5
<1> QED BY <1>1, <1>3, <1>6, <1>11, <1>12, <1>13 DEF SelectorsApart, n

-----------------------------------------------------------------------------
(***************************************************************************)
(* The rows of the domains with holes.                                     *)
(***************************************************************************)
HolePlansIn(P) ==
    \A c \in 1 .. Len(intervals) : Holey(c) => HolePlans(c) \in Seq(P) /\ Len(HolePlans(c)) = 3

LEMMA HoleRowsAre ==
    ASSUME NEW P, Len(intervals) \in Nat, HolePlansIn(P)
    PROVE  /\ HoleRows \in Seq(P)
           /\ \A i \in 1 .. Len(HoleRows) :
                 \E c \in 1 .. Len(intervals) : Holey(c) /\ \E j \in 1 .. 3 : HoleRows[i] = HolePlans(c)[j]
           /\ \A c \in 1 .. Len(intervals) : Holey(c) =>
                 \A j \in 1 .. 3 : \E i \in 1 .. Len(HoleRows) : HoleRows[i] = HolePlans(c)[j]
<1> DEFINE n == Len(intervals)
           S == Seq(P)
           Of(c) == IF Holey(c) THEN HolePlans(c) ELSE <<>>
           F == [c \in 1 .. n |-> [s \in S |-> s \o Of(c)]]
           upTo[c \in 0 .. n] == IF c = 0 THEN <<>> ELSE upTo[c - 1] \o Of(c)
<1>1. n \in Nat /\ <<>> \in S
    OBVIOUS
<1>2. \A c \in 1 .. n : Of(c) \in S
    BY <1>1 DEF HolePlansIn
<1>3. HoleRows = upTo[n]
    BY DEF HoleRows
<1> HIDE DEF n, Of
<1>4. F \in [1 .. n -> [S -> S]]
    <2>1. \A c \in 1 .. n, s \in S : s \o Of(c) \in S
        BY <1>2, Joined
    <2> HIDE DEF S
    <2> QED BY <2>1
<1>5. PICK g : g \in [0 .. n -> S] /\ g[0] = <<>> /\ \A c \in 1 .. n : g[c] = F[c][g[c - 1]]
    <2> HIDE DEF F, S
    <2>1. \E g : IsLoop(g, S, <<>>, n, F)
        BY <1>1, <1>4, LoopExists, ZenonT(30)
    <2> QED BY <2>1 DEF IsLoop
<1>6. \A c \in 1 .. n : g[c - 1] \in S /\ g[c] = g[c - 1] \o Of(c)
    <2> TAKE c \in 1 .. n
    <2>1. c - 1 \in 0 .. n
        BY <1>1
    <2>2. g[c - 1] \in S
        BY <1>5, <2>1
    <2> HIDE DEF S
    <2> QED BY <1>5, <2>2
<1>7. g = [c \in 0 .. n |-> IF c = 0 THEN <<>> ELSE g[c - 1] \o Of(c)]
    <2>1. g = [c \in 0 .. n |-> g[c]]
        BY <1>5
    <2>2. \A c \in 0 .. n : g[c] = IF c = 0 THEN <<>> ELSE g[c - 1] \o Of(c)
        <3> TAKE c \in 0 .. n
        <3>1. c = 0 \/ c \in 1 .. n
            BY <1>1
        <3> QED BY <1>5, <1>6, <3>1
    <2> QED BY <2>1, <2>2
<1>8. upTo = [c \in 0 .. n |-> IF c = 0 THEN <<>> ELSE upTo[c - 1] \o Of(c)]
    BY <1>7
<1> HIDE DEF upTo, F, S
<1>9. upTo[n] = g[n]
    <2>1. upTo[0] = g[0]
        BY <1>1, <1>5, <1>8
    <2>2. \A c \in 1 .. n : upTo[c - 1] = g[c - 1] => upTo[c] = g[c]
        <3> TAKE c \in 1 .. n
        <3>1. c \in 0 .. n /\ c # 0
            BY <1>1
        <3>2. upTo[c] = upTo[c - 1] \o Of(c)
            BY <1>8, <3>1
        <3> QED BY <1>6, <3>2
    <2>3. n \in Nat
        BY <1>1
    <2>4. \A c \in 0 .. n : upTo[c] = g[c]
        BY <2>1, <2>2, <2>3, LoopUnique, ZenonT(30)
    <2> QED BY <2>3, <2>4
<1> DEFINE From(s, c) == \A i \in 1 .. Len(s) :
                            \E d \in 1 .. c : Holey(d) /\ \E j \in 1 .. 3 : s[i] = HolePlans(d)[j]
           All(s, c) == \A d \in 1 .. c : Holey(d) =>
                            \A j \in 1 .. 3 : \E i \in 1 .. Len(s) : s[i] = HolePlans(d)[j]
           A == {c \in 0 .. n : From(g[c], c) /\ All(g[c], c)}
<1>10. 0 \in A
    <2>1. 0 \in 0 .. n /\ Len(g[0]) = 0
        BY <1>1, <1>5
    <2> QED BY <2>1
<1>11. ASSUME NEW b \in 0 .. n - 1, b \in A PROVE b + 1 \in A
    <2> DEFINE c == b + 1
    <2>1. c \in 1 .. n /\ c - 1 = b /\ b \in 0 .. n /\ c \in 0 .. n
        BY <1>1
    <2>2. g[b] \in Seq(P) /\ Of(c) \in Seq(P) /\ g[c] = g[b] \o Of(c)
        BY <1>2, <1>6, <2>1 DEF S
    <2>3. From(g[b], b) /\ All(g[b], b)
        BY <1>11
    <2>4. \A d \in 1 .. c : d \in 1 .. b \/ d = c
        BY <2>1
    <2>5. \A d \in 1 .. b : d \in 1 .. c
        BY <2>1
    <2>6. CASE ~ Holey(c)
        <3>1. Of(c) = <<>>
            BY <2>6 DEF Of
        <3>2. g[c] = g[b]
            <4> HIDE DEF c
            <4> QED BY <2>2, <3>1, JoinedNone
        <3> HIDE DEF c
        <3>3. From(g[c], c)
            BY <2>3, <2>5, <3>2
        <3>4. All(g[c], c)
            <4> SUFFICES ASSUME NEW d \in 1 .. c, Holey(d), NEW j \in 1 .. 3
                         PROVE  \E i \in 1 .. Len(g[c]) : g[c][i] = HolePlans(d)[j]
                OBVIOUS
            <4>1. d \in 1 .. b
                BY <2>4, <2>6
            <4>2. All(g[b], b)
                BY <2>3
            <4>3. \E i \in 1 .. Len(g[b]) : g[b][i] = HolePlans(d)[j]
                BY <4>1, <4>2
            <4> QED BY <3>2, <4>3
        <3> HIDE DEF From, All
        <3> QED BY <2>1, <3>3, <3>4 DEF c
    <2>7. CASE Holey(c)
        <3>1. Of(c) = HolePlans(c) /\ Len(Of(c)) = 3
            BY <2>1, <2>7 DEF Of, n, HolePlansIn
        <3>2. /\ Len(g[b]) \in Nat /\ Len(g[c]) = Len(g[b]) + 3
              /\ \A i \in 1 .. Len(g[b]) : g[c][i] = g[b][i]
              /\ \A j \in 1 .. 3 : g[c][Len(g[b]) + j] = HolePlans(c)[j]
            <4> HIDE DEF c
            <4>1. Len(g[b]) \in Nat
                BY <2>2
            <4>2. /\ Len(g[b] \o Of(c)) = Len(g[b]) + Len(Of(c))
                  /\ \A i \in 1 .. Len(g[b]) : (g[b] \o Of(c))[i] = g[b][i]
                  /\ \A i \in 1 .. Len(Of(c)) : (g[b] \o Of(c))[Len(g[b]) + i] = Of(c)[i]
                <5>1. g[b] \in Seq(P) /\ Of(c) \in Seq(P)
                    BY <2>2
                <5>2. PICK x, y : x = g[b] /\ y = Of(c)
                    OBVIOUS
                <5>3. x \in Seq(P) /\ y \in Seq(P)
                    BY <5>1, <5>2
                <5>4. /\ Len(x \o y) = Len(x) + Len(y)
                      /\ \A i \in 1 .. Len(x) : (x \o y)[i] = x[i]
                      /\ \A i \in 1 .. Len(y) : (x \o y)[Len(x) + i] = y[i]
                    BY <5>3, Joined
                <5> QED BY <5>2, <5>4
            <4> QED BY <2>2, <3>1, <4>1, <4>2
        <3> HIDE DEF c
        <3>3. \A i \in 1 .. Len(g[c]) : \/ i \in 1 .. Len(g[b])
                                        \/ i - Len(g[b]) \in 1 .. 3 /\ Len(g[b]) + (i - Len(g[b])) = i
            BY <3>2
        <3>4. From(g[c], c)
            <4> SUFFICES ASSUME NEW i \in 1 .. Len(g[c])
                         PROVE  \E d \in 1 .. c : Holey(d) /\ \E j \in 1 .. 3 : g[c][i] = HolePlans(d)[j]
                OBVIOUS
            <4>1. CASE i \in 1 .. Len(g[b])
                BY <2>3, <2>5, <3>2, <4>1
            <4>2. CASE i - Len(g[b]) \in 1 .. 3 /\ Len(g[b]) + (i - Len(g[b])) = i
                <5>1. g[c][i] = HolePlans(c)[i - Len(g[b])]
                    BY <3>2, <4>2
                <5>2. c \in 1 .. c
                    BY <2>1
                <5> QED BY <2>7, <4>2, <5>1, <5>2
            <4> QED BY <3>3, <4>1, <4>2
        <3>5. All(g[c], c)
            <4> SUFFICES ASSUME NEW d \in 1 .. c, Holey(d), NEW j \in 1 .. 3
                         PROVE  \E i \in 1 .. Len(g[c]) : g[c][i] = HolePlans(d)[j]
                OBVIOUS
            <4>1. CASE d \in 1 .. b
                <5>1. PICK i \in 1 .. Len(g[b]) : g[b][i] = HolePlans(d)[j]
                    BY <2>3, <4>1
                <5>2. i \in 1 .. Len(g[c])
                    BY <3>2
                <5> QED BY <3>2, <5>1, <5>2
            <4>2. CASE d = c
                <5>1. Len(g[b]) + j \in 1 .. Len(g[c])
                    BY <3>2, SMTT(30)
                <5> QED BY <3>2, <4>2, <5>1
            <4> QED BY <2>4, <4>1, <4>2
        <3> HIDE DEF From, All
        <3> QED BY <2>1, <3>4, <3>5 DEF c
    <2> QED BY <2>6, <2>7
<1> HIDE DEF A, From, All
<1>12. \A c \in 0 .. n : c \in A
    BY <1>1, <1>10, <1>11, RangeInduction, ZenonT(30)
<1>13. From(g[n], n) /\ All(g[n], n) /\ g[n] \in S
    <2>1. n \in 0 .. n
        BY <1>1
    <2> QED BY <1>5, <1>12, <2>1 DEF A
<1>14. HoleRows = g[n] /\ g[n] \in Seq(P)
    BY <1>3, <1>9, <1>13 DEF S
<1> QED BY <1>13, <1>14 DEF From, All, n

-----------------------------------------------------------------------------
(***************************************************************************)
(* What a build has in hand.  Used is the columns the rows of the item may *)
(* name: those of the model for a constraint, the selectors too for the    *)
(* rows of the domains with holes.                                         *)
(***************************************************************************)
Used == IF position = 0 THEN Column ELSE 1 .. Len(intervals)

ArgsOver(D, U)  == [is : {"decision"}, v : D] \cup [is : {"literal"}, v : Int]
                       \cup [is : {"column"}, v : U]
TermsOver(D, U) == [coef : Int, arg : ArgsOver(D, U), constant : Int]
Senses          == {"le", "eq", "ge"}
PlansOver(D, U) == [terms : Seq(TermsOver(D, U)), sense : Senses, rhs : Int, bin : {0} \cup U]
GivenRows ==
    [kind : {"linear"}, idx : Seq(Nat), val : Seq(Int), sense : Senses, rhs : Int, bin : Nat]
        \cup [kind : {"quadratic"}, a : Nat, b : Nat, out : Nat, rhs : Int]

\* The columns are done and handed over with their selectors.
Ready == ColumnsDone /\ columns = Len(intervals) + Selectors

Counters ==
    /\ caps \in Capabilities
    /\ phase \in {"columns", "rows", "terms", "error"}
    /\ layer \in 1 .. Len(model.layers) /\ position \in 0 .. Len(Constraints)
    /\ rhs \in Int /\ rows \in Int /\ rows = total
    /\ building <=> phase = "terms"

ItemInHand ==
    /\ phase = "columns" => position = 0
    /\ phase # "columns" =>
          Ready /\ item = IF position = 0 THEN Holes ELSE Constraints[position]

QueueInHand ==
    /\ phase \in {"columns", "error"} => queue = <<>>
    /\ phase = "terms" => queue # <<>>
    /\ phase # "columns" => queue \in Seq(PlansOver(Decisions, Used))
    /\ \A i \in 1 .. Len(queue) : queue[i].bin # 0 => caps.indicators

GivenInHand ==
    /\ given \in Seq(GivenRows)
    /\ \A i \in 1 .. Len(given) :
          IF given[i].kind = "quadratic" THEN caps.quadratic
          ELSE given[i].bin # 0 => caps.indicators
    /\ item \notin {NoItem, Holes} => Len(given) + Len(queue) <= 1

RowInHand ==
    phase = "terms" =>
        /\ todo \in Seq(TermsOver(Decisions, Used))
        /\ \A i \in 1 .. Len(idx) : idx[i] \in Used
        /\ \A i \in 1 .. Len(todo) :
              \E j \in 1 .. Len(Head(queue).terms) : todo[i] = Head(queue).terms[j]

RefusedUndeclared == phase = "error" => <<item.ident, item.argc>> \notin Declared(caps)

HandInv ==
    /\ Counters /\ ItemInHand /\ QueueInHand /\ GivenInHand /\ RowInHand /\ RefusedUndeclared

-----------------------------------------------------------------------------
\* What of the columns a step that leaves them leaves.
ColumnsStay ==
    /\ model' = model /\ intervals' = intervals
    /\ ColumnsDone' <=> ColumnsDone
    /\ Selectors' = Selectors /\ Decisions' = Decisions

LEMMA ColumnsSame == UNCHANGED domainsVars => ColumnsStay
BY DEF domainsVars, ColumnsStay, ColumnsDone, Selectors, SelectorsOf, Holey, Decisions

\* The columns of a build that has them.
LEMMA ReadyColumns ==
    ASSUME DInv, Ready
    PROVE  /\ Len(intervals) \in Nat /\ columns \in Nat /\ Selectors \in Nat
           /\ \A d \in Decisions : ColumnOf(d) \in 1 .. Len(intervals)
           /\ 1 .. Len(intervals) \subseteq Used /\ Used \subseteq Nat \ {0}
           /\ Used \subseteq Column
<1>1. intervals \in Seq(Seq(Interval)) /\ model \in Models /\ decision \in 1 .. Len(model.column) + 1
    BY DEF DInv, DomainsTypeOK
<1>2. Len(intervals) \in Nat /\ Selectors \in Nat
    BY <1>1, SelectorPlaces DEF SelectorsApart
<1>3. columns = Len(intervals) + Selectors
    BY DEF Ready
<1>4. \A d \in Decisions : d \in 1 .. decision - 1
    <2>1. Len(model.column) \in Nat /\ decision > Len(model.column)
        BY <1>1, ModelParts DEF Ready, ColumnsDone
    <2> QED BY <1>1, <2>1 DEF Decisions
<1>5. \A d \in Decisions : ColumnOf(d) \in 1 .. Len(intervals)
    BY <1>4 DEF DInv, ColumnsPlaced
<1>6. columns \in Nat
    BY <1>2, <1>3
<1>7. 1 .. Len(intervals) \subseteq 1 .. columns /\ 1 .. columns \subseteq Nat \ {0}
      /\ 1 .. Len(intervals) \subseteq Nat \ {0}
    BY <1>2, <1>3
<1> QED BY <1>2, <1>5, <1>6, <1>7 DEF Used, Column

\* A constraint's arguments can be a row's.
LEMMA ArgumentsAreArgs ==
    ASSUME NEW U
    PROVE  Arguments(model) \subseteq ArgsOver(Decisions, U)
           /\ Truths(model) \subseteq Arguments(model)
BY DEF Arguments, Truths, ArgsOver, Decisions

\* A term names a number or a column.
LEMMA ArgsName ==
    ASSUME DInv, Ready, NEW arg \in ArgsOver(Decisions, Used)
    PROVE  /\ IsLiteral(arg) => arg.v \in Int
           /\ ~IsLiteral(arg) => ColumnArg(arg) \in Used
<1>1. (\A d \in Decisions : ColumnOf(d) \in 1 .. Len(intervals)) /\ 1 .. Len(intervals) \subseteq Used
    BY ReadyColumns
<1>2. CASE arg \in [is : {"decision"}, v : Decisions]
    <2>1. arg.is = "decision" /\ arg.v \in Decisions
        BY <1>2
    <2> QED BY <1>1, <2>1 DEF IsLiteral, ColumnArg
<1>3. CASE arg \in [is : {"literal"}, v : Int]
    BY <1>3 DEF IsLiteral
<1>4. CASE arg \in [is : {"column"}, v : Used]
    <2>1. arg.is = "column" /\ arg.v \in Used
        BY <1>4
    <2> QED BY <2>1 DEF IsLiteral, ColumnArg
<1> QED BY <1>2, <1>3, <1>4 DEF ArgsOver

\* A decision or a number of a constraint.
LEMMA ArgumentsName ==
    ASSUME DInv, Ready, NEW arg \in Arguments(model)
    PROVE  /\ IsLiteral(arg) => arg.v \in Int
           /\ ~IsLiteral(arg) => /\ arg.is = "decision" /\ arg.v \in Decisions
                                 /\ ColumnArg(arg) = ColumnOf(arg.v)
                                 /\ ColumnArg(arg) \in 1 .. Len(intervals)
<1>1. \A d \in Decisions : ColumnOf(d) \in 1 .. Len(intervals)
    BY ReadyColumns
<1> QED BY <1>1 DEF Arguments, IsLiteral, ColumnArg, Decisions

-----------------------------------------------------------------------------
(* The plans of the constraints are plans.                                 *)
LEMMA TermTypes ==
    ASSUME NEW D, NEW U, NEW a \in Int, NEW arg \in ArgsOver(D, U)
    PROVE  Term(a, arg) \in TermsOver(D, U) /\ NegatedTerm(arg) \in TermsOver(D, U)
BY DEF Term, NegatedTerm, TermsOver

LEMMA PlanTypes ==
    ASSUME NEW D, NEW U, NEW ts \in Seq(TermsOver(D, U)), NEW sense \in Senses, NEW r \in Int,
           NEW bin \in {0} \cup U
    PROVE  Plan(ts, sense, r, bin) \in PlansOver(D, U)
BY DEF Plan, PlansOver

LEMMA SumPlanType ==
    ASSUME NEW con, NEW U, con.coeffs \in Seq(Int), con.xs \in Seq(Arguments(model)),
           Len(con.coeffs) = Len(con.xs), con.rhs \in Arguments(model), NEW bin \in {0} \cup U
    PROVE  /\ WeightedSum(con) \in Seq(TermsOver(Decisions, U)) /\ Len(WeightedSum(con)) = Len(con.xs)
           /\ Plan(Append(WeightedSum(con), Term(-1, con.rhs)), SenseOf(con.ident), 0, bin)
                 \in PlansOver(Decisions, U)
<1> DEFINE T == TermsOver(Decisions, U)
           n == Len(con.xs)
<1>1. n \in Nat /\ \A i \in 1 .. n : con.coeffs[i] \in Int /\ con.xs[i] \in Arguments(model)
    OBVIOUS
<1>2. \A i \in 1 .. n : Term(con.coeffs[i], con.xs[i]) \in T
    BY <1>1, TermTypes, ArgumentsAreArgs
<1>3. Term(-1, con.rhs) \in T
    BY TermTypes, ArgumentsAreArgs
<1> HIDE DEF T
<1>4. WeightedSum(con) \in [1 .. n -> T]
    BY <1>2 DEF WeightedSum
<1> HIDE DEF n
<1>5. WeightedSum(con) \in Seq(T) /\ Len(WeightedSum(con)) = n
    BY <1>1, <1>4, SeqOfValues
<1>6. Append(WeightedSum(con), Term(-1, con.rhs)) \in Seq(T)
    BY <1>3, <1>5
<1>7. SenseOf(con.ident) \in Senses
    BY DEF SenseOf, Senses
<1>8. 0 \in Int
    OBVIOUS
<1>9. Plan(Append(WeightedSum(con), Term(-1, con.rhs)), SenseOf(con.ident), 0, bin)
          \in PlansOver(Decisions, U)
    BY <1>6, <1>7, <1>8, PlanTypes, Zenon DEF T
<1> QED BY <1>5, <1>9 DEF T, n

LEMMA ClausePlanType ==
    ASSUME NEW con, NEW U, con.pos \in Seq(Truths(model)), con.neg \in Seq(Truths(model))
    PROVE  ClausePlan(con) \in PlansOver(Decisions, U)
<1> DEFINE T == TermsOver(Decisions, U)
           p == [i \in 1 .. Len(con.pos) |-> Term(1, con.pos[i])]
           q == [i \in 1 .. Len(con.neg) |-> NegatedTerm(con.neg[i])]
<1>1. /\ Len(con.pos) \in Nat /\ Len(con.neg) \in Nat
      /\ \A i \in 1 .. Len(con.pos) : con.pos[i] \in Truths(model)
      /\ \A i \in 1 .. Len(con.neg) : con.neg[i] \in Truths(model)
    OBVIOUS
<1>2. (\A i \in 1 .. Len(con.pos) : Term(1, con.pos[i]) \in T)
      /\ \A i \in 1 .. Len(con.neg) : NegatedTerm(con.neg[i]) \in T
    <2>1. \A arg \in Truths(model) : arg \in ArgsOver(Decisions, U)
        BY ArgumentsAreArgs
    <2>2. 1 \in Int
        OBVIOUS
    <2>3. \A arg \in Truths(model) : Term(1, arg) \in T /\ NegatedTerm(arg) \in T
        BY <2>1, <2>2, TermTypes
    <2> HIDE DEF T
    <2> QED BY <1>1, <2>3
<1> HIDE DEF T
<1>3. p \in [1 .. Len(con.pos) -> T] /\ q \in [1 .. Len(con.neg) -> T]
    BY <1>2
<1>4. ClausePlan(con) = Plan(p \o q, "ge", 1, 0)
    BY DEF ClausePlan
<1> HIDE DEF p, q
<1>5. p \in Seq(T) /\ q \in Seq(T)
    BY <1>1, <1>3, SeqOfValues
<1>6. p \o q \in Seq(T) /\ "ge" \in Senses /\ 1 \in Int /\ 0 \in {0} \cup U
    BY <1>5, Joined DEF Senses
<1> QED BY <1>4, <1>6, PlanTypes DEF T

LEMMA PairPlanType ==
    ASSUME NEW D, NEW U, NEW a \in Int, NEW x \in ArgsOver(D, U), NEW b \in Int, NEW y \in ArgsOver(D, U)
    PROVE  Plan(<<Term(a, x), Term(b, y)>>, "eq", 0, 0) \in PlansOver(D, U)
<1>1. Term(a, x) \in TermsOver(D, U) /\ Term(b, y) \in TermsOver(D, U)
    BY TermTypes
<1> DEFINE T == TermsOver(D, U)
<1> HIDE DEF T
<1>2. <<Term(a, x), Term(b, y)>> \in Seq(T)
    BY <1>1 DEF T
<1>3. "eq" \in Senses /\ 0 \in Int /\ 0 \in {0} \cup U
    BY DEF Senses
<1> QED BY <1>2, <1>3, PlanTypes DEF T

\* The selectors of a column with holes are columns of the backend.
LEMMA SelectingType ==
    ASSUME intervals \in Seq(Seq(Interval)), NEW c \in 1 .. Len(intervals), Holey(c), NEW D,
           NEW weights \in [1 .. Len(intervals[c]) -> Int],
           NEW ts \in Seq(TermsOver(D, 1 .. Len(intervals) + Selectors))
    PROVE  Selecting(ts, c, weights) \in Seq(TermsOver(D, 1 .. Len(intervals) + Selectors))
<1> DEFINE U == 1 .. Len(intervals) + Selectors
           T == TermsOver(D, U)
           q == [r \in 1 .. Len(intervals[c]) |-> Term(weights[r], Col(SelectorsBefore(c) + r))]
<1>1. Len(intervals[c]) \in Nat /\ SelectorsOf(c) = Len(intervals[c]) /\ Len(intervals) \in Nat
    BY ListsHold DEF SelectorsOf
<1>2. /\ SelectorsBefore(c) \in Nat /\ Selectors \in Nat
      /\ SelectorsBefore(c) + SelectorsOf(c) <= Len(intervals) + Selectors
    BY SelectorPlaces DEF SelectorsApart
<1>3. ASSUME NEW r \in 1 .. Len(intervals[c])
      PROVE  Term(weights[r], Col(SelectorsBefore(c) + r)) \in T
    <2>1. SelectorsBefore(c) + r \in U
        BY <1>1, <1>2
    <2> HIDE DEF U
    <2>2. Col(SelectorsBefore(c) + r) \in ArgsOver(D, U)
        BY <2>1 DEF Col, ArgsOver
    <2>3. weights[r] \in Int
        OBVIOUS
    <2> QED BY <2>2, <2>3, TermTypes
<1> HIDE DEF T
<1>4. q \in [1 .. Len(intervals[c]) -> T]
    BY <1>3
<1>5. Selecting(ts, c, weights) = ts \o q
    BY DEF Selecting
<1> HIDE DEF q
<1>6. q \in Seq(T)
    BY <1>1, <1>4, SeqOfValues
<1>7. ts \in Seq(T)
    BY DEF T
<1> QED BY <1>5, <1>6, <1>7, Joined DEF T

LEMMA HolePlansType ==
    ASSUME intervals \in Seq(Seq(Interval)), NEW D
    PROVE  HolePlansIn(PlansOver(D, 1 .. Len(intervals) + Selectors))
<1> DEFINE U == 1 .. Len(intervals) + Selectors
           P == PlansOver(D, U)
<1> SUFFICES ASSUME NEW c \in 1 .. Len(intervals), Holey(c)
             PROVE  HolePlans(c) \in Seq(P) /\ Len(HolePlans(c)) = 3
    BY DEF HolePlansIn
<1> DEFINE n == Len(intervals[c])
           ones == [r \in 1 .. n |-> 1]
           mins == [r \in 1 .. n |-> -intervals[c][r].min]
           maxs == [r \in 1 .. n |-> -intervals[c][r].max]
           x == <<Term(1, Col(c))>>
           T == TermsOver(D, U)
<1>1. n \in Nat /\ \A r \in 1 .. n : intervals[c][r] \in Interval
    BY ListsHold
<1>2. ones \in [1 .. n -> Int] /\ mins \in [1 .. n -> Int] /\ maxs \in [1 .. n -> Int]
    <2>1. \A r \in 1 .. n : -intervals[c][r].min \in Int /\ -intervals[c][r].max \in Int
        BY <1>1, SMTT(30) DEF Interval
    <2> HIDE DEF n
    <2> QED BY <2>1
<1>3. c \in U
    <2>1. Len(intervals) \in Nat /\ Selectors \in Nat
        BY SelectorPlaces DEF SelectorsApart
    <2> QED BY <2>1
<1>4. Term(1, Col(c)) \in T
    <2> HIDE DEF U
    <2>1. Col(c) \in ArgsOver(D, U) /\ 1 \in Int
        BY <1>3 DEF Col, ArgsOver
    <2> QED BY <2>1, TermTypes
<1> HIDE DEF T
<1>5. x \in Seq(T) /\ <<>> \in Seq(T)
    BY <1>4
<1>6. HolePlans(c) = <<Plan(Selecting(<<>>, c, ones), "eq", 1, 0),
                       Plan(Selecting(x, c, mins), "ge", 0, 0),
                       Plan(Selecting(x, c, maxs), "le", 0, 0)>>
    BY DEF HolePlans
<1> HIDE DEF ones, mins, maxs, x
<1>7. /\ Selecting(<<>>, c, ones) \in Seq(T) /\ Selecting(x, c, mins) \in Seq(T)
      /\ Selecting(x, c, maxs) \in Seq(T)
    BY <1>2, <1>5, SelectingType DEF T
<1>8. /\ Plan(Selecting(<<>>, c, ones), "eq", 1, 0) \in P
      /\ Plan(Selecting(x, c, mins), "ge", 0, 0) \in P
      /\ Plan(Selecting(x, c, maxs), "le", 0, 0) \in P
    <2>1. "eq" \in Senses /\ "ge" \in Senses /\ "le" \in Senses /\ 0 \in Int /\ 1 \in Int
          /\ 0 \in {0} \cup U
        BY DEF Senses
    <2> HIDE DEF U
    <2> QED BY <1>7, <2>1, PlanTypes DEF T
<1> HIDE DEF P
<1> QED BY <1>6, <1>8

\* None of the plans for the holes is implied.
LEMMA HolePlansPlain ==
    ASSUME intervals \in Seq(Seq(Interval))
    PROVE  \A i \in 1 .. Len(HoleRows) : HoleRows[i].bin = 0
<1> SUFFICES ASSUME NEW i \in 1 .. Len(HoleRows) PROVE HoleRows[i].bin = 0
    OBVIOUS
<1>1. PICK c \in 1 .. Len(intervals) : \E j \in 1 .. 3 : HoleRows[i] = HolePlans(c)[j]
    <2> DEFINE P == PlansOver({}, 1 .. Len(intervals) + Selectors)
    <2>1. HolePlansIn(P)
        BY HolePlansType
    <2> HIDE DEF P
    <2>2. Len(intervals) \in Nat
        OBVIOUS
    <2> QED BY <2>1, <2>2, HoleRowsAre
<1>2. \A j \in 1 .. 3 : HolePlans(c)[j].bin = 0
    BY DEF HolePlans, Plan
<1> QED BY <1>1, <1>2

-----------------------------------------------------------------------------
(* What is declared has a form, and the form the arguments it is declared with. *)
LEMMA DeclaredHasForm ==
    ASSUME caps \in Capabilities, NEW ident, NEW argc, <<ident, argc>> \in Declared(caps)
    PROVE  Form(ident) # "unknown" /\ argc = Wants(Form(ident))
<1>1. caps.floats \in BOOLEAN /\ caps.indicators \in BOOLEAN /\ caps.quadratic \in BOOLEAN
    BY CapabilitiesAssumption
<1>2. CASE ident \in Linear \cup FloatLinear /\ argc = 3
    <2>1. Form(ident) = "linear"
        BY <1>2 DEF Form, Linear, FloatLinear, Implied, FloatImplied, Times, FloatTimes
    <2>2. Wants("linear") = 3
        BY DEF Wants
    <2> QED BY <1>2, <2>1, <2>2
<1>3. CASE ident = "bool_clause" /\ argc = 2
    <2>1. Form(ident) = "clause"
        BY <1>3 DEF Form, Linear, FloatLinear, Implied, FloatImplied, Times, FloatTimes
    <2>2. Wants("clause") = 2
        BY DEF Wants
    <2> QED BY <1>3, <2>1, <2>2
<1>4. CASE ident \in {"bool_to_int", "int_to_float"} /\ argc = 2
    <2>1. Form(ident) = "equal"
        BY <1>4 DEF Form, Linear, FloatLinear, Implied, FloatImplied, Times, FloatTimes
    <2>2. Wants("equal") = 2
        BY DEF Wants
    <2> QED BY <1>4, <2>1, <2>2
<1>5. CASE ident \in Implied \cup FloatImplied /\ argc = 4 /\ caps.indicators
    <2>1. Form(ident) = "implied"
        BY <1>5 DEF Form, Linear, FloatLinear, Implied, FloatImplied, Times, FloatTimes
    <2>2. Wants("implied") = 4
        BY DEF Wants
    <2> QED BY <1>5, <2>1, <2>2
<1>6. CASE ident \in Times \cup FloatTimes /\ argc = 3 /\ caps.quadratic
    <2>1. Form(ident) = "times"
        BY <1>6 DEF Form, Linear, FloatLinear, Implied, FloatImplied, Times, FloatTimes
    <2>2. Wants("times") = 3
        BY DEF Wants
    <2> QED BY <1>6, <2>1, <2>2
<1> QED BY <1>1, <1>2, <1>3, <1>4, <1>5, <1>6 DEF Declared

-----------------------------------------------------------------------------
(* Every step keeps what is in hand.                                       *)
LEMMA LayerParts ==
    ASSUME model \in Models
    PROVE  /\ Len(model.layers) \in Nat \ {0}
           /\ \A l \in 1 .. Len(model.layers) :
                 /\ Len(model.layers[l]) \in Nat
                 /\ \A i \in 1 .. Len(model.layers[l]) : WellFormed(model.layers[l][i], model)
BY FormsAssumption

LEMMA HandParts ==
    ASSUME DInv, IInv, HandInv
    PROVE  /\ model \in Models /\ intervals \in Seq(Seq(Interval)) /\ Len(intervals) \in Nat
           /\ Len(model.layers) \in Nat \ {0} /\ layer \in 1 .. Len(model.layers)
           /\ Len(Constraints) \in Nat /\ position \in 0 .. Len(Constraints)
           /\ \A i \in 1 .. Len(Constraints) : WellFormed(Constraints[i], model)
           /\ building \in BOOLEAN /\ idx \in Seq(Nat) /\ val \in Seq(Int) /\ Len(idx) = Len(val)
<1>1. model \in Models /\ intervals \in Seq(Seq(Interval)) /\ layer \in 1 .. Len(model.layers)
      /\ position \in 0 .. Len(Constraints)
    BY DEF DInv, DomainsTypeOK, HandInv, Counters
<1>2. building \in BOOLEAN /\ idx \in Seq(Nat) /\ val \in Seq(Int) /\ Len(idx) = Len(val)
    BY DEF IInv, TypeOK
<1> QED BY <1>1, <1>2, LayerParts DEF Constraints

LEMMA UsedSame ==
    ASSUME position' = position, columns' = columns, intervals' = intervals
    PROVE  Used' = Used
BY DEF Used, Column

LEMMA ReadySame ==
    ASSUME ColumnsStay, columns' = columns, Ready
    PROVE  Ready'
BY DEF Ready, ColumnsStay

LEMMA HandInit == FormsInit => HandInv
<1> SUFFICES ASSUME FormsInit PROVE HandInv
    OBVIOUS
<1>1. model \in Models
    BY DEF FormsInit, DomainsInit
<1>2. 1 \in 1 .. Len(model.layers) /\ Len(model.layers[1]) \in Nat
    BY <1>1, LayerParts
<1>3. /\ caps \in Capabilities /\ phase = "columns" /\ layer = 1 /\ position = 0
      /\ item = NoItem /\ queue = <<>> /\ rhs = 0 /\ rows = 0 /\ given = <<>> /\ total = 0
      /\ building = FALSE
    BY DEF FormsInit, Init
<1>4. Counters
    BY <1>2, <1>3 DEF Counters, Constraints
<1>5. <<>> \in Seq(GivenRows) /\ Len(<<>>) = 0
    OBVIOUS
<1>6. ItemInHand /\ RowInHand /\ RefusedUndeclared
    BY <1>3 DEF ItemInHand, RowInHand, RefusedUndeclared
<1>7. QueueInHand
    BY <1>3, <1>5 DEF QueueInHand
<1>8. GivenInHand
    BY <1>3, <1>5 DEF GivenInHand
<1> QED BY <1>4, <1>6, <1>7, <1>8 DEF HandInv

LEMMA HandColumnLoop ==
    ASSUME DInv, IInv, HandInv, ColumnLoop
    PROVE  HandInv'
<1>1. /\ phase = "columns" /\ phase' = phase /\ layer' = layer /\ position' = position /\ item' = item
      /\ queue' = queue /\ rhs' = rhs /\ rows' = rows /\ given' = given /\ total' = total
      /\ caps' = caps /\ building' = building
    BY DEF ColumnLoop, progress, scratch
<1>2. model' = model
    BY DEF ColumnLoop, DomainsNext, Visit, Place, Narrow, MeetStep, MetOwn, MetClass
<1>3. Counters'
    BY <1>1, <1>2 DEF HandInv, Counters, Constraints
<1>4. ItemInHand' /\ RowInHand' /\ RefusedUndeclared'
    BY <1>1 DEF HandInv, ItemInHand, RowInHand, RefusedUndeclared
<1>5. QueueInHand' /\ GivenInHand'
    BY <1>1 DEF HandInv, QueueInHand, GivenInHand
<1> QED BY <1>3, <1>4, <1>5 DEF HandInv

LEMMA HandSizeScratch ==
    ASSUME DInv, IInv, HandInv, SizeScratch
    PROVE  HandInv'
<1>1. /\ phase = "columns" /\ phase' = "rows" /\ layer' = layer /\ position' = position
      /\ item' = Holes /\ queue' = (IF layer = 1 THEN HoleRows ELSE <<>>)
      /\ given' = <<>> /\ rhs' = rhs /\ rows' = rows /\ total' = total /\ caps' = caps
      /\ columns' = Len(intervals) + Selectors /\ building' = building /\ ColumnsDone
    BY DEF SizeScratch, Assign
<1>2. ColumnsStay
    BY ColumnsSame DEF SizeScratch
<1>3. model' = model /\ intervals' = intervals /\ Decisions' = Decisions /\ Selectors' = Selectors
    BY <1>2 DEF ColumnsStay
<1>4. position = 0
    BY <1>1 DEF HandInv, ItemInHand
<1>5. Counters'
    BY <1>1, <1>3 DEF HandInv, Counters, Constraints
<1>6. ItemInHand'
    <2>1. Ready'
        BY <1>1, <1>2, <1>3 DEF Ready, ColumnsStay
    <2> QED BY <1>1, <1>4, <2>1 DEF ItemInHand
<1>7. Used' = 1 .. Len(intervals) + Selectors
    BY <1>1, <1>4 DEF Used, Column
<1>8. QueueInHand'
    <2> DEFINE P == PlansOver(Decisions, 1 .. Len(intervals) + Selectors)
    <2>1. intervals \in Seq(Seq(Interval)) /\ Len(intervals) \in Nat
        BY HandParts
    <2>2. HolePlansIn(P)
        BY <2>1, HolePlansType
    <2> HIDE DEF P
    <2>3. HoleRows \in Seq(P)
        BY <2>1, <2>2, HoleRowsAre
    <2>4. \A i \in 1 .. Len(HoleRows) : HoleRows[i].bin = 0
        BY <2>1, HolePlansPlain
    <2>5. <<>> \in Seq(P) /\ Len(<<>>) = 0
        OBVIOUS
    <2>6. queue' \in Seq(PlansOver(Decisions', Used'))
        BY <1>1, <1>3, <1>7, <2>3, <2>5 DEF P
    <2>7. \A i \in 1 .. Len(queue') : queue'[i].bin = 0
        BY <1>1, <2>4, <2>5
    <2> QED BY <1>1, <2>6, <2>7 DEF QueueInHand
<1>9. GivenInHand'
    <2>1. <<>> \in Seq(GivenRows) /\ Len(<<>>) = 0
        OBVIOUS
    <2> QED BY <1>1, <2>1 DEF GivenInHand
<1>10. RowInHand' /\ RefusedUndeclared'
    BY <1>1 DEF RowInHand, RefusedUndeclared
<1> QED BY <1>5, <1>6, <1>8, <1>9, <1>10 DEF HandInv

LEMMA HandRowStart ==
    ASSUME DInv, IInv, HandInv, RowStart
    PROVE  HandInv'
<1>1. /\ phase = "rows" /\ phase' = "terms" /\ queue # <<>> /\ queue' = queue
      /\ layer' = layer /\ position' = position /\ item' = item /\ given' = given
      /\ todo' = Head(queue).terms /\ rhs' = Head(queue).rhs
      /\ rows' = rows /\ total' = total /\ caps' = caps
      /\ columns' = columns /\ building' = TRUE /\ idx' = <<>>
    BY DEF RowStart, RowBegin
<1>2. ColumnsStay
    BY ColumnsSame DEF RowStart
<1>3. model' = model /\ intervals' = intervals /\ Decisions' = Decisions
    BY <1>2 DEF ColumnsStay
<1>4. queue \in Seq(PlansOver(Decisions, Used))
    BY <1>1 DEF HandInv, QueueInHand
<1>5. Head(queue) \in PlansOver(Decisions, Used)
    BY <1>1, <1>4
<1>6. Head(queue).terms \in Seq(TermsOver(Decisions, Used)) /\ Head(queue).rhs \in Int
    BY <1>5 DEF PlansOver
<1>7. Used' = Used
    BY <1>1, <1>3, UsedSame
<1>8. Counters'
    BY <1>1, <1>3, <1>6 DEF HandInv, Counters, Constraints
<1>9. ItemInHand'
    BY <1>1, <1>2, <1>3, ReadySame DEF HandInv, ItemInHand, Constraints
<1>10. QueueInHand' /\ GivenInHand'
    BY <1>1, <1>3, <1>7 DEF HandInv, QueueInHand, GivenInHand
<1>11. RowInHand'
    BY <1>1, <1>3, <1>6, <1>7 DEF RowInHand
<1>12. RefusedUndeclared'
    BY <1>1 DEF RefusedUndeclared
<1> QED BY <1>8, <1>9, <1>10, <1>11, <1>12 DEF HandInv

\* The term that is read.
LEMMA TermInHand ==
    ASSUME DInv, IInv, HandInv, phase = "terms", todo # <<>>
    PROVE  /\ todo \in Seq(TermsOver(Decisions, Used))
           /\ Head(todo) \in TermsOver(Decisions, Used)
           /\ Head(todo).coef \in Int /\ Head(todo).constant \in Int
           /\ IsLiteral(Head(todo).arg) => Head(todo).arg.v \in Int
           /\ ~IsLiteral(Head(todo).arg) => ColumnArg(Head(todo).arg) \in Used
           /\ Ready
<1>1. todo \in Seq(TermsOver(Decisions, Used)) /\ Ready
    BY DEF HandInv, RowInHand, ItemInHand
<1>2. Head(todo) \in TermsOver(Decisions, Used)
    BY <1>1
<1>3. Head(todo).coef \in Int /\ Head(todo).constant \in Int
      /\ Head(todo).arg \in ArgsOver(Decisions, Used)
    BY <1>2 DEF TermsOver
<1> QED BY <1>1, <1>2, <1>3, ArgsName

LEMMA HandReadTerm ==
    ASSUME DInv, IInv, HandInv, ReadTerm
    PROVE  HandInv'
<1> DEFINE t == Head(todo)
<1>1. /\ phase = "terms" /\ phase' = "terms" /\ todo # <<>> /\ queue' = queue
      /\ layer' = layer /\ position' = position /\ item' = item /\ given' = given
      /\ todo' = Tail(todo) /\ rows' = rows /\ total' = total /\ caps' = caps
    BY DEF ReadTerm
<1>2. ColumnsStay
    BY ColumnsSame DEF ReadTerm
<1>3. model' = model /\ intervals' = intervals /\ Decisions' = Decisions
    BY <1>2 DEF ColumnsStay
<1>4. /\ todo \in Seq(TermsOver(Decisions, Used)) /\ t.coef \in Int /\ t.constant \in Int
      /\ IsLiteral(t.arg) => t.arg.v \in Int
      /\ ~IsLiteral(t.arg) => ColumnArg(t.arg) \in Used
    BY <1>1, TermInHand
<1>5. /\ IsLiteral(t.arg) => rhs' = rhs - t.constant - t.coef * t.arg.v /\ UNCHANGED scratch
      /\ ~IsLiteral(t.arg) =>
            /\ \E c \in Column, a \in Coefficients :
                  c = ColumnArg(t.arg) /\ a = t.coef /\ (Fold(c, a) \/ NewTerm(c, a))
            /\ rhs' = rhs - t.constant
    BY DEF ReadTerm
<1> HIDE DEF t
<1>6. rhs' \in Int
    <2>1. rhs \in Int
        BY DEF HandInv, Counters
    <2>2. IsLiteral(t.arg) => t.coef * t.arg.v \in Int
        BY <1>4
    <2> QED BY <1>4, <1>5, <2>1, <2>2
<1>7. /\ columns' = columns /\ building' = building
      /\ idx' = idx \/ (~IsLiteral(t.arg) /\ idx' = Append(idx, ColumnArg(t.arg)))
    <2>1. CASE IsLiteral(t.arg)
        BY <1>5, <2>1 DEF scratch
    <2>2. CASE ~IsLiteral(t.arg)
        BY <1>5, <2>2 DEF Fold, NewTerm
    <2> QED BY <2>1, <2>2
<1>8. Used' = Used
    BY <1>1, <1>3, <1>7, UsedSame
<1>9. Counters'
    BY <1>1, <1>3, <1>6, <1>7 DEF HandInv, Counters, Constraints
<1>10. ItemInHand'
    BY <1>1, <1>2, <1>3, <1>7, ReadySame DEF HandInv, ItemInHand, Constraints
<1>11. QueueInHand' /\ GivenInHand'
    BY <1>1, <1>3, <1>8 DEF HandInv, QueueInHand, GivenInHand
<1>12. RowInHand'
    <2>1. todo' \in Seq(TermsOver(Decisions, Used))
        BY <1>1, <1>4
    <2>2. \A i \in 1 .. Len(idx') : idx'[i] \in Used
        <3>1. idx \in Seq(Nat) /\ \A i \in 1 .. Len(idx) : idx[i] \in Used
            BY <1>1, HandParts DEF HandInv, RowInHand
        <3>2. CASE idx' = idx
            BY <3>1, <3>2
        <3>3. CASE ~IsLiteral(t.arg) /\ idx' = Append(idx, ColumnArg(t.arg))
            <4>1. PICK c \in Used : c = ColumnArg(t.arg)
                BY <1>4, <3>3
            <4>2. idx \in Seq(Used)
                <5>1. Len(idx) \in Nat /\ idx \in [1 .. Len(idx) -> Used]
                    BY <3>1
                <5> QED BY <5>1, SeqOfValues
            <4>3. Append(idx, c) \in Seq(Used)
                BY <4>2
            <4>4. idx' \in Seq(Used)
                BY <3>3, <4>1, <4>3
            <4> QED BY <4>4
        <3> QED BY <1>7, <3>2, <3>3
    <2>3. \A i \in 1 .. Len(todo') : \E j \in 1 .. Len(Head(queue).terms) : todo'[i] = Head(queue).terms[j]
        <3>1. \A i \in 1 .. Len(todo) : \E j \in 1 .. Len(Head(queue).terms) : todo[i] = Head(queue).terms[j]
            BY <1>1 DEF HandInv, RowInHand
        <3>2. \A i \in 1 .. Len(todo') : i + 1 \in 1 .. Len(todo) /\ todo'[i] = todo[i + 1]
            BY <1>1, <1>4
        <3> QED BY <3>1, <3>2
    <2> QED BY <1>1, <1>3, <1>8, <2>1, <2>2, <2>3 DEF RowInHand
<1>13. RefusedUndeclared'
    BY <1>1 DEF RefusedUndeclared
<1> QED BY <1>9, <1>10, <1>11, <1>12, <1>13 DEF HandInv

\* A row that is done with leaves the queue.
LEMMA QueueAdvances ==
    ASSUME HandInv, phase = "terms"
    PROVE  /\ queue \in Seq(PlansOver(Decisions, Used)) /\ queue # <<>> /\ Len(queue) \in Nat
           /\ Head(queue) \in PlansOver(Decisions, Used)
           /\ Head(queue).bin # 0 => caps.indicators
           /\ Tail(queue) \in Seq(PlansOver(Decisions, Used))
           /\ Len(Tail(queue)) = Len(queue) - 1
           /\ \A i \in 1 .. Len(Tail(queue)) : Tail(queue)[i].bin # 0 => caps.indicators
<1>1. queue \in Seq(PlansOver(Decisions, Used)) /\ queue # <<>>
      /\ \A i \in 1 .. Len(queue) : queue[i].bin # 0 => caps.indicators
    BY DEF HandInv, QueueInHand
<1> DEFINE P == PlansOver(Decisions, Used)
<1> HIDE DEF P
<1>2. queue \in Seq(P)
    BY <1>1 DEF P
<1>3. /\ Len(queue) \in Nat /\ Len(queue) # 0 /\ Head(queue) = queue[1] /\ Head(queue) \in P
      /\ Tail(queue) \in Seq(P) /\ Len(Tail(queue)) = Len(queue) - 1
      /\ \A i \in 1 .. Len(Tail(queue)) : Tail(queue)[i] = queue[i + 1] /\ i + 1 \in 1 .. Len(queue)
    BY <1>1, <1>2
<1>4. 1 \in 1 .. Len(queue)
    BY <1>3
<1> QED BY <1>1, <1>3, <1>4 DEF P

LEMMA HandSatisfied ==
    ASSUME DInv, IInv, HandInv, Satisfied
    PROVE  HandInv'
<1>1. /\ phase = "terms" /\ phase' = "rows" /\ queue' = Tail(queue)
      /\ layer' = layer /\ position' = position /\ item' = item /\ given' = given
      /\ rhs' = rhs /\ rows' = rows /\ total' = total /\ caps' = caps
      /\ columns' = columns /\ building' = FALSE
    BY DEF Satisfied, RowPost
<1>2. ColumnsStay
    BY ColumnsSame DEF Satisfied
<1>3. model' = model /\ intervals' = intervals /\ Decisions' = Decisions
    BY <1>2 DEF ColumnsStay
<1>4. Used' = Used
    BY <1>1, <1>3, UsedSame
<1>5. /\ Tail(queue) \in Seq(PlansOver(Decisions, Used)) /\ Len(Tail(queue)) = Len(queue) - 1
      /\ Len(queue) \in Nat
      /\ \A i \in 1 .. Len(Tail(queue)) : Tail(queue)[i].bin # 0 => caps.indicators
    BY <1>1, QueueAdvances
<1>6. Counters'
    BY <1>1, <1>3 DEF HandInv, Counters, Constraints
<1>7. ItemInHand'
    BY <1>1, <1>2, <1>3, ReadySame DEF HandInv, ItemInHand, Constraints
<1>8. QueueInHand'
    BY <1>1, <1>3, <1>4, <1>5 DEF QueueInHand
<1>9. GivenInHand'
    <2>1. given \in Seq(GivenRows) /\ Len(given) \in Nat
        BY DEF HandInv, GivenInHand
    <2>2. item \notin {NoItem, Holes} => Len(given) + Len(Tail(queue)) <= 1
        BY <1>5, <2>1 DEF HandInv, GivenInHand
    <2> QED BY <1>1, <2>2 DEF HandInv, GivenInHand
<1>10. RowInHand' /\ RefusedUndeclared'
    BY <1>1 DEF RowInHand, RefusedUndeclared
<1> QED BY <1>6, <1>7, <1>8, <1>9, <1>10 DEF HandInv

\* The row that is given.
BuiltRow == [kind |-> "linear", idx |-> idx, val |-> val, sense |-> Head(queue).sense, rhs |-> rhs,
             bin |-> Head(queue).bin]

LEMMA BuiltRowType ==
    ASSUME DInv, IInv, HandInv, phase = "terms"
    PROVE  BuiltRow \in GivenRows /\ BuiltRow.kind # "quadratic" /\ BuiltRow.bin = Head(queue).bin
<1>1. Head(queue) \in PlansOver(Decisions, Used)
    BY QueueAdvances
<1>2. Head(queue).sense \in Senses /\ Head(queue).bin \in {0} \cup Used
    BY <1>1 DEF PlansOver
<1>3. Used \subseteq Nat
    BY ReadyColumns DEF HandInv, ItemInHand
<1>4. idx \in Seq(Nat) /\ val \in Seq(Int) /\ rhs \in Int
    BY HandParts DEF HandInv, Counters
<1>5. Head(queue).bin \in Nat
    <2>1. PICK b : b = Head(queue).bin
        OBVIOUS
    <2>2. b = 0 \/ b \in Used
        BY <1>2, <2>1
    <2>3. b = 0 => b \in Nat
        OBVIOUS
    <2>4. b \in Used => b \in Nat
        BY <1>3, Zenon
    <2> QED BY <2>1, <2>2, <2>3, <2>4
<1>6. BuiltRow \in [kind : {"linear"}, idx : Seq(Nat), val : Seq(Int), sense : Senses, rhs : Int, bin : Nat]
    BY <1>2, <1>4, <1>5 DEF BuiltRow
<1> QED BY <1>6 DEF GivenRows, BuiltRow

LEMMA GivenGrows ==
    ASSUME NEW s \in Seq(GivenRows), NEW r \in GivenRows
    PROVE  /\ Append(s, r) \in Seq(GivenRows) /\ Len(Append(s, r)) = Len(s) + 1
           /\ Len(s) \in Nat
           /\ \A i \in 1 .. Len(Append(s, r)) :
                 (i \in 1 .. Len(s) /\ Append(s, r)[i] = s[i]) \/ Append(s, r)[i] = r
           /\ \A i \in 1 .. Len(s) : Append(s, r)[i] = s[i] /\ i \in 1 .. Len(Append(s, r))
           /\ Len(s) + 1 \in 1 .. Len(Append(s, r)) /\ Append(s, r)[Len(s) + 1] = r
<1> DEFINE G == GivenRows
<1> HIDE DEF G
<1>1. s \in Seq(G) /\ r \in G
    BY DEF G
<1> QED BY <1>1 DEF G

LEMMA HandRowEnd ==
    ASSUME DInv, IInv, HandInv, RowEnd
    PROVE  HandInv'
<1>1. /\ phase = "terms" /\ phase' = "rows" /\ queue' = Tail(queue)
      /\ layer' = layer /\ position' = position /\ item' = item
      /\ rhs' = rhs /\ caps' = caps /\ columns' = columns /\ building' = FALSE
    BY DEF RowEnd, RowPost
<1>2. \/ given' = Append(given, BuiltRow) /\ rows' = rows + 1 /\ total' = total + 1
      \/ given' = given /\ rows' = rows /\ total' = total
    BY DEF RowEnd, BuiltRow
<1>3. ColumnsStay
    BY ColumnsSame DEF RowEnd
<1>4. model' = model /\ intervals' = intervals /\ Decisions' = Decisions
    BY <1>3 DEF ColumnsStay
<1>5. Used' = Used
    BY <1>1, <1>4, UsedSame
<1>6. /\ Tail(queue) \in Seq(PlansOver(Decisions, Used)) /\ Len(Tail(queue)) = Len(queue) - 1
      /\ Len(queue) \in Nat /\ (Head(queue).bin # 0 => caps.indicators)
      /\ \A i \in 1 .. Len(Tail(queue)) : Tail(queue)[i].bin # 0 => caps.indicators
    BY <1>1, QueueAdvances
<1>7. Counters'
    <2>1. rows' \in Int /\ rows' = total'
        BY <1>2 DEF HandInv, Counters
    <2> QED BY <1>1, <1>4, <2>1 DEF HandInv, Counters, Constraints
<1>8. ItemInHand'
    BY <1>1, <1>3, <1>4, ReadySame DEF HandInv, ItemInHand, Constraints
<1>9. QueueInHand'
    BY <1>1, <1>4, <1>5, <1>6 DEF QueueInHand
<1>10. GivenInHand'
    <2>1. given \in Seq(GivenRows) /\ Len(given) \in Nat
        BY DEF HandInv, GivenInHand
    <2>2. item \notin {NoItem, Holes} => Len(given) + Len(queue) <= 1
        BY DEF HandInv, GivenInHand
    <2>3. \A i \in 1 .. Len(given) :
              IF given[i].kind = "quadratic" THEN caps.quadratic
              ELSE given[i].bin # 0 => caps.indicators
        BY DEF HandInv, GivenInHand
    <2>4. CASE given' = Append(given, BuiltRow)
        <3>1. BuiltRow \in GivenRows /\ BuiltRow.kind # "quadratic" /\ BuiltRow.bin = Head(queue).bin
            BY <1>1, BuiltRowType
        <3>2. PICK r \in GivenRows : r = BuiltRow
            BY <3>1
        <3>3. /\ Append(given, r) \in Seq(GivenRows) /\ Len(Append(given, r)) = Len(given) + 1
              /\ \A i \in 1 .. Len(Append(given, r)) :
                    (i \in 1 .. Len(given) /\ Append(given, r)[i] = given[i]) \/ Append(given, r)[i] = r
            BY <2>1, <3>2, GivenGrows
        <3>4. given' \in Seq(GivenRows) /\ Len(given') = Len(given) + 1
            BY <2>4, <3>2, <3>3
        <3>5. \A i \in 1 .. Len(given') :
                  IF given'[i].kind = "quadratic" THEN caps.quadratic
                  ELSE given'[i].bin # 0 => caps.indicators
            BY <1>6, <2>3, <2>4, <3>1, <3>2, <3>3
        <3>6. item \notin {NoItem, Holes} => Len(given') + Len(Tail(queue)) <= 1
            BY <1>6, <2>1, <2>2, <3>4
        <3> QED BY <1>1, <3>4, <3>5, <3>6 DEF GivenInHand
    <2>5. CASE given' = given
        <3>1. item \notin {NoItem, Holes} => Len(given) + Len(Tail(queue)) <= 1
            BY <1>6, <2>1, <2>2
        <3> QED BY <1>1, <2>1, <2>3, <2>5, <3>1 DEF GivenInHand
    <2> QED BY <1>2, <2>4, <2>5
<1>11. RowInHand' /\ RefusedUndeclared'
    BY <1>1 DEF RowInHand, RefusedUndeclared
<1> QED BY <1>7, <1>8, <1>9, <1>10, <1>11 DEF HandInv

\* The turn of a constraint: the columns are ready, and its rows name the model's.
LEMMA TurnFacts ==
    ASSUME DInv, IInv, HandInv, Turn
    PROVE  /\ phase = "rows" /\ queue = <<>> /\ queue \in Seq(PlansOver(Decisions, 1 .. Len(intervals)))
           /\ item' = Con /\ position' = position + 1 /\ Used' = 1 .. Len(intervals)
           /\ WellFormed(Con, model) /\ Con \notin {NoItem, Holes}
           /\ position' \in 1 .. Len(Constraints) /\ Con = Constraints[position']
           /\ Ready /\ Ready' /\ ColumnsStay
           /\ Constraints' = Constraints /\ model' = model /\ intervals' = intervals
           /\ Decisions' = Decisions
           /\ columns' = columns /\ building' = building /\ caps' = caps /\ layer' = layer
           /\ rhs' = rhs /\ idx' = idx
<1>1. /\ phase = "rows" /\ queue = <<>> /\ position < Len(Constraints)
      /\ item' = Con /\ position' = position + 1
      /\ columns' = columns /\ building' = building /\ caps' = caps /\ layer' = layer
      /\ rhs' = rhs /\ idx' = idx
    BY DEF Turn, scratch
<1>2. ColumnsStay
    BY ColumnsSame DEF Turn
<1>3. model' = model /\ intervals' = intervals /\ Decisions' = Decisions
    BY <1>2 DEF ColumnsStay
<1>4. Ready
    BY <1>1 DEF HandInv, ItemInHand
<1>5. Ready'
    BY <1>1, <1>2, <1>4, ReadySame
<1>6. position' \in 1 .. Len(Constraints) /\ position' # 0
    BY <1>1, HandParts
<1>7. Con = Constraints[position']
    BY <1>1 DEF Con
<1>8. WellFormed(Con, model)
    BY <1>6, <1>7, HandParts
<1>9. Con.ident \notin {"none", "holes"}
    BY <1>8 DEF WellFormed
<1>10. Con \notin {NoItem, Holes}
    BY <1>9 DEF NoItem, Holes
<1>11. Used' = 1 .. Len(intervals)
    BY <1>3, <1>6 DEF Used
<1>12. Constraints' = Constraints
    BY <1>1, <1>3 DEF Constraints
<1>13. <<>> \in Seq(PlansOver(Decisions, 1 .. Len(intervals)))
    OBVIOUS
<1> QED
    BY <1>1, <1>2, <1>3, <1>4, <1>5, <1>6, <1>7, <1>8, <1>10, <1>11, <1>12, <1>13

\* Whatever a turn gives or queues for its constraint, it must only be in order.
LEMMA HandTurn ==
    ASSUME DInv, IInv, HandInv, Turn, phase' \in {"rows", "error"},
           rows' \in Int, rows' = total',
           queue' \in Seq(PlansOver(Decisions, 1 .. Len(intervals))),
           phase' = "error" => queue' = <<>>,
           \A i \in 1 .. Len(queue') : queue'[i].bin # 0 => caps.indicators,
           GivenInHand', RefusedUndeclared'
    PROVE  HandInv'
<1>1. /\ phase = "rows" /\ item' = Con /\ position' = position + 1 /\ Used' = 1 .. Len(intervals)
      /\ position' \in 1 .. Len(Constraints) /\ Con = Constraints[position'] /\ Ready'
      /\ Constraints' = Constraints /\ model' = model /\ Decisions' = Decisions
      /\ building' = building /\ caps' = caps /\ layer' = layer /\ rhs' = rhs
    BY TurnFacts
<1>2. phase' # "columns" /\ phase' # "terms" /\ phase' \in {"columns", "rows", "terms", "error"}
    OBVIOUS
<1>3. Counters'
    <2>1. Len(Constraints) \in Nat
        BY HandParts
    <2>2. position' \in 0 .. Len(Constraints)
        BY <1>1, <2>1
    <2> QED BY <1>1, <1>2, <2>2 DEF HandInv, Counters
<1>4. ItemInHand'
    <2>1. position' # 0
        <3>1. Len(Constraints) \in Nat
            BY HandParts
        <3> QED BY <1>1, <3>1
    <2> QED BY <1>1, <1>2, <2>1 DEF ItemInHand
<1>5. QueueInHand'
    BY <1>1, <1>2 DEF QueueInHand
<1>6. RowInHand'
    BY <1>2 DEF RowInHand
<1> QED BY <1>3, <1>4, <1>5, <1>6 DEF HandInv

\* Nothing is given at first.
LEMMA NothingGiven ==
    ASSUME given' = <<>>, Len(queue') <= 1, Len(queue') \in Nat
    PROVE  GivenInHand'
<1>1. <<>> \in Seq(GivenRows) /\ Len(<<>>) = 0
    OBVIOUS
<1>2. Len(given') + Len(queue') <= 1
    BY <1>1
<1> QED BY <1>1, <1>2 DEF GivenInHand

LEMMA HandOneRow ==
    ASSUME DInv, IInv, HandInv, Turn, NEW plan, OneRow(plan),
           plan \in PlansOver(Decisions, 1 .. Len(intervals)), plan.bin # 0 => caps.indicators
    PROVE  HandInv'
<1>1. queue' = <<plan>> /\ given' = <<>> /\ phase' = phase /\ rows' = rows /\ total' = total
    BY DEF OneRow
<1>2. phase' = "rows"
    BY <1>1, TurnFacts
<1>3. /\ queue' \in Seq(PlansOver(Decisions, 1 .. Len(intervals))) /\ Len(queue') = 1
      /\ \A i \in 1 .. Len(queue') : queue'[i].bin # 0 => caps.indicators
    <2> DEFINE P == PlansOver(Decisions, 1 .. Len(intervals))
    <2>1. plan \in P
        OBVIOUS
    <2> HIDE DEF P
    <2>2. <<plan>> \in Seq(P) /\ Len(<<plan>>) = 1 /\ <<plan>>[1] = plan
        BY <2>1
    <2>3. \A i \in 1 .. 1 : i = 1
        OBVIOUS
    <2> QED BY <1>1, <2>2, <2>3 DEF P
<1>4. GivenInHand'
    BY <1>1, <1>3, NothingGiven
<1>5. rows' \in Int /\ rows' = total'
    BY <1>1 DEF HandInv, Counters
<1>6. RefusedUndeclared'
    BY <1>2 DEF RefusedUndeclared
<1> QED BY <1>2, <1>3, <1>4, <1>5, <1>6, HandTurn

LEMMA HandNoRow ==
    ASSUME DInv, IInv, HandInv, Turn, NoRow
    PROVE  HandInv'
<1>1. queue' = queue /\ given' = <<>> /\ phase' = phase /\ rows' = rows /\ total' = total
    BY DEF NoRow
<1>2. phase' = "rows" /\ queue = <<>> /\ queue \in Seq(PlansOver(Decisions, 1 .. Len(intervals)))
    BY <1>1, TurnFacts
<1>3. Len(<<>>) = 0
    OBVIOUS
<1>4. GivenInHand'
    BY <1>1, <1>2, <1>3, NothingGiven
<1>5. rows' \in Int /\ rows' = total'
    BY <1>1 DEF HandInv, Counters
<1>6. RefusedUndeclared'
    BY <1>2 DEF RefusedUndeclared
<1>7. \A i \in 1 .. Len(queue') : queue'[i].bin # 0 => caps.indicators
    BY <1>1, <1>2, <1>3
<1> QED BY <1>1, <1>2, <1>4, <1>5, <1>6, <1>7, HandTurn

\* The form of a constraint says which identifiers it has.
LEMMA FormIdents ==
    ASSUME NEW ident
    PROVE  /\ Form(ident) = "linear" <=> ident \in Linear \cup FloatLinear
           /\ Form(ident) = "clause" <=> ident = "bool_clause"
           /\ Form(ident) = "equal" <=> ident \in {"bool_to_int", "int_to_float"}
           /\ Form(ident) = "implied" => ident \in Implied \cup FloatImplied /\ caps.indicators
           /\ Form(ident) = "times" => ident \in Times \cup FloatTimes /\ caps.quadratic
<1>1. \/ ident \in Linear \cup FloatLinear
      \/ ident = "bool_clause"
      \/ ident \in {"bool_to_int", "int_to_float"}
      \/ ident \in Implied \cup FloatImplied
      \/ ident \in Times \cup FloatTimes
      \/ ident \notin Linear \cup FloatLinear \cup Implied \cup FloatImplied \cup Times \cup FloatTimes
                        \cup {"bool_clause", "bool_to_int", "int_to_float"}
    OBVIOUS
<1>2. CASE ident \in Linear \cup FloatLinear
    <2>1. Form(ident) = "linear"
        BY <1>2 DEF Form, Linear, FloatLinear, Implied, FloatImplied, Times, FloatTimes
    <2> QED BY <1>2, <2>1 DEF Linear, FloatLinear, Implied, FloatImplied, Times, FloatTimes
<1>3. CASE ident = "bool_clause"
    <2>1. Form(ident) = "clause"
        BY <1>3 DEF Form, Linear, FloatLinear, Implied, FloatImplied, Times, FloatTimes
    <2> QED BY <1>3, <2>1 DEF Linear, FloatLinear, Implied, FloatImplied, Times, FloatTimes
<1>4. CASE ident \in {"bool_to_int", "int_to_float"}
    <2>1. Form(ident) = "equal"
        BY <1>4 DEF Form, Linear, FloatLinear, Implied, FloatImplied, Times, FloatTimes
    <2> QED BY <1>4, <2>1 DEF Linear, FloatLinear, Implied, FloatImplied, Times, FloatTimes
<1>5. CASE ident \in Implied \cup FloatImplied
    <2>1. Form(ident) = IF caps.indicators THEN "implied" ELSE "unknown"
        BY <1>5 DEF Form, Linear, FloatLinear, Implied, FloatImplied, Times, FloatTimes
    <2>2. (Form(ident) = "implied" /\ caps.indicators) \/ Form(ident) = "unknown"
        BY <2>1
    <2> QED BY <1>5, <2>2 DEF Linear, FloatLinear, Implied, FloatImplied, Times, FloatTimes
<1>6. CASE ident \in Times \cup FloatTimes
    <2>1. Form(ident) = IF caps.quadratic THEN "times" ELSE "unknown"
        BY <1>6 DEF Form, Linear, FloatLinear, Implied, FloatImplied, Times, FloatTimes
    <2>2. (Form(ident) = "times" /\ caps.quadratic) \/ Form(ident) = "unknown"
        BY <2>1
    <2> QED BY <1>6, <2>2 DEF Linear, FloatLinear, Implied, FloatImplied, Times, FloatTimes
<1>7. CASE ident \notin Linear \cup FloatLinear \cup Implied \cup FloatImplied \cup Times \cup FloatTimes
                        \cup {"bool_clause", "bool_to_int", "int_to_float"}
    <2>1. Form(ident) = "unknown"
        BY <1>7 DEF Form, Linear, FloatLinear, Implied, FloatImplied, Times, FloatTimes
    <2> QED BY <1>7, <2>1 DEF Linear, FloatLinear, Implied, FloatImplied, Times, FloatTimes
<1> QED BY <1>1, <1>2, <1>3, <1>4, <1>5, <1>6, <1>7

LEMMA HandLinearRow ==
    ASSUME DInv, IInv, HandInv, LinearRow
    PROVE  HandInv'
<1> DEFINE U == 1 .. Len(intervals)
<1>1. Turn /\ Form(Con.ident) = "linear" /\ OneRow(LinearPlan(Con)) /\ WellFormed(Con, model)
    BY TurnFacts DEF LinearRow, Takes
<1>2. Con.ident \in Linear \cup FloatLinear
    BY <1>1, FormIdents
<1>3. /\ Con.coeffs \in Seq(Int) /\ Con.xs \in Seq(Arguments(model))
      /\ Len(Con.coeffs) = Len(Con.xs) /\ Con.rhs \in Arguments(model)
    BY <1>1, <1>2 DEF WellFormed
<1> HIDE DEF U
<1>4. Plan(Append(WeightedSum(Con), Term(-1, Con.rhs)), SenseOf(Con.ident), 0, 0)
          \in PlansOver(Decisions, U)
    BY <1>3, SumPlanType
<1>5. LinearPlan(Con) \in PlansOver(Decisions, U) /\ LinearPlan(Con).bin = 0
    BY <1>4 DEF LinearPlan, Plan
<1> QED BY <1>1, <1>5, HandOneRow DEF U

LEMMA HandClauseRow ==
    ASSUME DInv, IInv, HandInv, ClauseRow
    PROVE  HandInv'
<1> DEFINE U == 1 .. Len(intervals)
<1>1. Turn /\ Form(Con.ident) = "clause" /\ OneRow(ClausePlan(Con)) /\ WellFormed(Con, model)
    BY TurnFacts DEF ClauseRow, Takes
<1>2. Con.ident = "bool_clause"
    BY <1>1, FormIdents
<1>3. Con.pos \in Seq(Truths(model)) /\ Con.neg \in Seq(Truths(model))
    BY <1>1, <1>2 DEF WellFormed
<1> HIDE DEF U
<1>4. ClausePlan(Con) \in PlansOver(Decisions, U)
    BY <1>3, ClausePlanType
<1>5. ClausePlan(Con).bin = 0
    BY DEF ClausePlan, Plan
<1> QED BY <1>1, <1>4, <1>5, HandOneRow DEF U

LEMMA HandEqualRow ==
    ASSUME DInv, IInv, HandInv, EqualRow
    PROVE  HandInv'
<1> DEFINE U == 1 .. Len(intervals)
<1>1. Turn /\ Form(Con.ident) = "equal" /\ OneRow(EqualPlan(Con)) /\ WellFormed(Con, model)
    BY TurnFacts DEF EqualRow, Takes
<1>2. Con.ident \in {"bool_to_int", "int_to_float"}
    BY <1>1, FormIdents
<1>3. Con.a \in Arguments(model) /\ Con.b \in Arguments(model)
    BY <1>1, <1>2 DEF WellFormed
<1> HIDE DEF U
<1>4. Con.a \in ArgsOver(Decisions, U) /\ Con.b \in ArgsOver(Decisions, U)
    BY <1>3, ArgumentsAreArgs
<1>5. 1 \in Int /\ -1 \in Int
    OBVIOUS
<1>6. Plan(<<Term(1, Con.a), Term(-1, Con.b)>>, "eq", 0, 0) \in PlansOver(Decisions, U)
    BY <1>4, <1>5, PairPlanType
<1>7. EqualPlan(Con) \in PlansOver(Decisions, U) /\ EqualPlan(Con).bin = 0
    BY <1>6 DEF EqualPlan, Plan
<1> QED BY <1>1, <1>7, HandOneRow DEF U

LEMMA HandImpliedRow ==
    ASSUME DInv, IInv, HandInv, ImpliedRow
    PROVE  HandInv'
<1> DEFINE U == 1 .. Len(intervals)
<1>1. Turn /\ Form(Con.ident) = "implied" /\ OneRow(ImpliedPlan(Con)) /\ WellFormed(Con, model)
      /\ Ready
    BY TurnFacts DEF ImpliedRow, Takes
<1>2. Con.ident \in Implied \cup FloatImplied /\ caps.indicators
    BY <1>1, FormIdents
<1>3. /\ Con.coeffs \in Seq(Int) /\ Con.xs \in Seq(Arguments(model))
      /\ Len(Con.coeffs) = Len(Con.xs) /\ Con.rhs \in Arguments(model) /\ Con.b \in Truths(model)
    BY <1>1, <1>2 DEF WellFormed
<1>4. (IF IsLiteral(Con.b) THEN 0 ELSE ColumnArg(Con.b)) \in {0} \cup U
    <2>1. Con.b \in Arguments(model)
        BY <1>3, ArgumentsAreArgs
    <2> QED BY <1>1, <2>1, ArgumentsName
<1> HIDE DEF U
<1>5. PICK bin \in {0} \cup U : bin = IF IsLiteral(Con.b) THEN 0 ELSE ColumnArg(Con.b)
    BY <1>4
<1>6. Plan(Append(WeightedSum(Con), Term(-1, Con.rhs)), SenseOf(Con.ident), 0, bin)
          \in PlansOver(Decisions, U)
    BY <1>3, SumPlanType
<1>7. LiteralOf(Con.rhs) = Con.rhs
    BY <1>1, <1>2 DEF WellFormed, LiteralOf
<1>8. ImpliedPlan(Con) \in PlansOver(Decisions, U)
    BY <1>5, <1>6, <1>7 DEF ImpliedPlan
<1> QED BY <1>1, <1>2, <1>8, HandOneRow DEF U

LEMMA HandProductRow ==
    ASSUME DInv, IInv, HandInv, ProductRow
    PROVE  HandInv'
<1> DEFINE U == 1 .. Len(intervals)
<1>1. Turn /\ Form(Con.ident) = "times" /\ OneRow(ProductPlan(Con)) /\ WellFormed(Con, model)
      /\ Ready /\ ~Quadratic
    BY TurnFacts DEF ProductRow, Takes
<1>2. Con.ident \in Times \cup FloatTimes
    BY <1>1, FormIdents
<1>3. Con.a \in Arguments(model) /\ Con.b \in Arguments(model) /\ Con.c \in Arguments(model)
    BY <1>1, <1>2 DEF WellFormed
<1>4. /\ IsLiteral(Con.a) => Con.a.v \in Int
      /\ IsLiteral(Con.b) => Con.b.v \in Int
    BY <1>1, <1>3, ArgumentsName
<1> HIDE DEF U
<1>5. /\ Con.a \in ArgsOver(Decisions, U) /\ Con.b \in ArgsOver(Decisions, U)
      /\ Con.c \in ArgsOver(Decisions, U)
    BY <1>3, ArgumentsAreArgs
<1>6. -1 \in Int
    OBVIOUS
<1>7. ProductPlan(Con) \in PlansOver(Decisions, U)
    <2>1. CASE IsLiteral(Con.a)
        <3>1. Plan(<<Term(Con.a.v, Con.b), Term(-1, Con.c)>>, "eq", 0, 0) \in PlansOver(Decisions, U)
            BY <1>4, <1>5, <1>6, <2>1, PairPlanType
        <3> QED BY <2>1, <3>1 DEF ProductPlan
    <2>2. CASE ~IsLiteral(Con.a)
        <3>1. Con.b.v \in Int
            BY <1>1, <1>4, <2>2 DEF Quadratic
        <3>2. Plan(<<Term(Con.b.v, Con.a), Term(-1, Con.c)>>, "eq", 0, 0) \in PlansOver(Decisions, U)
            BY <1>5, <1>6, <3>1, PairPlanType
        <3> QED BY <2>2, <3>2 DEF ProductPlan
    <2> QED BY <2>1, <2>2
<1>8. ProductPlan(Con).bin = 0
    BY DEF ProductPlan, Plan
<1> QED BY <1>1, <1>7, <1>8, HandOneRow DEF U

\* What a product of columns gives the backend.
ProductGiven(con) ==
    [kind |-> "quadratic", a |-> ColumnArg(con.a), b |-> ColumnArg(con.b),
     out |-> IF IsLiteral(con.c) THEN 0 ELSE ColumnArg(con.c),
     rhs |-> IF IsLiteral(con.c) THEN con.c.v ELSE 0]

LEMMA HandQuadraticRow ==
    ASSUME DInv, IInv, HandInv, QuadraticRow
    PROVE  HandInv'
<1>1. Turn /\ Form(Con.ident) = "times" /\ WellFormed(Con, model) /\ Ready /\ Quadratic
      /\ given' = <<ProductGiven(Con)>>
      /\ rows' = rows + 1 /\ total' = total + 1 /\ phase' = phase /\ queue' = queue
    BY TurnFacts DEF QuadraticRow, Takes, ProductGiven
<1>2. /\ phase' = "rows" /\ queue = <<>> /\ queue \in Seq(PlansOver(Decisions, 1 .. Len(intervals)))
      /\ Len(intervals) \in Nat /\ caps' = caps
    BY <1>1, TurnFacts, HandParts
<1>3. Con.ident \in Times \cup FloatTimes /\ caps.quadratic
    BY <1>1, FormIdents
<1>4. Con.a \in Arguments(model) /\ Con.b \in Arguments(model) /\ Con.c \in Arguments(model)
    BY <1>1, <1>3 DEF WellFormed
<1>5. /\ ColumnArg(Con.a) \in Nat /\ ColumnArg(Con.b) \in Nat
      /\ IsLiteral(Con.c) => Con.c.v \in Int
      /\ ~IsLiteral(Con.c) => ColumnArg(Con.c) \in Nat
    <2>1. \A c \in 1 .. Len(intervals) : c \in Nat
        BY <1>2
    <2> QED BY <1>1, <1>4, <2>1, ArgumentsName DEF Quadratic
<1>6. ProductGiven(Con) \in GivenRows /\ ProductGiven(Con).kind = "quadratic"
    <2>1. (IF IsLiteral(Con.c) THEN 0 ELSE ColumnArg(Con.c)) \in Nat
        BY <1>5
    <2>2. (IF IsLiteral(Con.c) THEN Con.c.v ELSE 0) \in Int
        BY <1>5
    <2> QED BY <1>5, <2>1, <2>2 DEF ProductGiven, GivenRows
<1>7. PICK r \in GivenRows : r = ProductGiven(Con)
    BY <1>6
<1>8. <<r>> \in Seq(GivenRows) /\ Len(<<r>>) = 1 /\ <<r>>[1] = r
    <2> DEFINE G == GivenRows
    <2> HIDE DEF G
    <2>1. r \in G
        BY <1>7 DEF G
    <2> QED BY <2>1 DEF G
<1>9. Len(<<>>) = 0 /\ \A i \in 1 .. 1 : i = 1
    OBVIOUS
<1>10. GivenInHand'
    <2>1. given' \in Seq(GivenRows) /\ Len(given') = 1 /\ given'[1].kind = "quadratic"
        BY <1>1, <1>6, <1>7, <1>8
    <2>2. \A i \in 1 .. Len(given') : given'[i].kind = "quadratic"
        BY <1>9, <2>1
    <2>3. Len(given') + Len(queue') <= 1
        BY <1>1, <1>2, <1>9, <2>1
    <2> QED BY <1>2, <1>3, <2>1, <2>2, <2>3 DEF GivenInHand
<1>11. rows' \in Int /\ rows' = total'
    BY <1>1 DEF HandInv, Counters
<1>12. RefusedUndeclared'
    BY <1>2 DEF RefusedUndeclared
<1>13. \A i \in 1 .. Len(queue') : queue'[i].bin # 0 => caps.indicators
    BY <1>1, <1>2, <1>9
<1> QED BY <1>1, <1>2, <1>10, <1>11, <1>12, <1>13, HandTurn

LEMMA HandReject ==
    ASSUME DInv, IInv, HandInv, Reject
    PROVE  HandInv'
<1>1. /\ Turn /\ phase' = "error" /\ given' = <<>> /\ queue' = queue /\ rows' = rows /\ total' = total
      /\ Form(Con.ident) = "unknown" \/ Con.argc # Wants(Form(Con.ident))
    BY DEF Reject
<1>2. queue = <<>> /\ queue \in Seq(PlansOver(Decisions, 1 .. Len(intervals))) /\ item' = Con
      /\ caps' = caps
    BY <1>1, TurnFacts
<1>3. Len(<<>>) = 0
    OBVIOUS
<1>4. GivenInHand'
    BY <1>1, <1>2, <1>3, NothingGiven
<1>5. rows' \in Int /\ rows' = total'
    BY <1>1 DEF HandInv, Counters
<1>6. RefusedUndeclared'
    <2>1. caps \in Capabilities
        BY DEF HandInv, Counters
    <2>2. <<Con.ident, Con.argc>> \notin Declared(caps)
        BY <1>1, <2>1, DeclaredHasForm
    <2> QED BY <1>2, <2>2 DEF RefusedUndeclared
<1>7. \A i \in 1 .. Len(queue') : queue'[i].bin # 0 => caps.indicators
    BY <1>1, <1>2, <1>3
<1> QED BY <1>1, <1>2, <1>4, <1>5, <1>6, <1>7, HandTurn

LEMMA HandNextLayer ==
    ASSUME DInv, IInv, HandInv, NextLayer
    PROVE  HandInv'
<1>1. /\ phase = "rows" /\ phase' = "columns" /\ queue = <<>> /\ queue' = queue
      /\ layer < Len(model.layers) /\ layer' = layer + 1 /\ position' = 0
      /\ item' = item /\ given' = given /\ rhs' = rhs /\ rows' = rows /\ total' = total
      /\ caps' = caps /\ building' = building
    BY DEF NextLayer, scratch
<1>2. model' = model
    BY ColumnsSame DEF NextLayer, ColumnsStay
<1>3. layer' \in 1 .. Len(model.layers)
    BY <1>1, HandParts
<1>4. Len(Constraints') \in Nat
    BY <1>2, <1>3, HandParts, LayerParts DEF Constraints
<1>5. 0 \in 0 .. Len(Constraints')
    BY <1>4
<1>6. Counters'
    BY <1>1, <1>2, <1>3, <1>5 DEF HandInv, Counters
<1>7. ItemInHand'
    BY <1>1 DEF ItemInHand
<1>8. Len(<<>>) = 0
    OBVIOUS
<1>9. QueueInHand' /\ GivenInHand'
    BY <1>1, <1>8 DEF HandInv, QueueInHand, GivenInHand
<1>10. RowInHand' /\ RefusedUndeclared'
    BY <1>1 DEF RowInHand, RefusedUndeclared
<1> QED BY <1>6, <1>7, <1>9, <1>10 DEF HandInv

LEMMA HandStutter ==
    ASSUME DInv, IInv, HandInv, UNCHANGED formsVars
    PROVE  HandInv'
<1>1. /\ phase' = phase /\ layer' = layer /\ position' = position /\ item' = item
      /\ queue' = queue /\ todo' = todo /\ rhs' = rhs /\ rows' = rows /\ given' = given
      /\ total' = total /\ caps' = caps /\ building' = building /\ columns' = columns /\ idx' = idx
    BY DEF formsVars, progress, scratch
<1>2. ColumnsStay
    BY ColumnsSame DEF formsVars
<1>3. model' = model /\ intervals' = intervals /\ Decisions' = Decisions
    BY <1>2 DEF ColumnsStay
<1>4. Used' = Used
    BY <1>1, <1>3, UsedSame
<1>5. Counters'
    BY <1>1, <1>3 DEF HandInv, Counters, Constraints
<1>6. ItemInHand'
    BY <1>1, <1>2, <1>3, ReadySame DEF HandInv, ItemInHand, Constraints
<1>7. QueueInHand'
    BY <1>1, <1>3, <1>4 DEF HandInv, QueueInHand
<1>8. GivenInHand'
    BY <1>1 DEF HandInv, GivenInHand
<1>9. RowInHand' /\ RefusedUndeclared'
    BY <1>1, <1>3, <1>4 DEF HandInv, RowInHand, RefusedUndeclared
<1> QED BY <1>5, <1>6, <1>7, <1>8, <1>9 DEF HandInv

\* What a build relies on: of its columns, of its scratch and of what it has in hand.
BuildInv == DInv /\ IInv /\ ShapeInv /\ HandInv

LEMMA BuildInit == FormsInit => BuildInv
<1> SUFFICES ASSUME FormsInit PROVE BuildInv
    OBVIOUS
<1>1. DomainsInit /\ Init
    BY DEF FormsInit
<1> QED BY <1>1, DInitInv, InitInv, ShapeInit, HandInit DEF BuildInv

LEMMA BuildNext == BuildInv /\ [FormsNext]_formsVars => BuildInv'
<1> SUFFICES ASSUME BuildInv, [FormsNext]_formsVars PROVE BuildInv'
    OBVIOUS
<1>1. DInv /\ IInv /\ ShapeInv /\ HandInv
    BY DEF BuildInv
<1>2. DInv' /\ ShapeInv'
    BY <1>1, FormsStepIsDomainsStep, DNextInv, ShapeNext
<1>3. IInv'
    BY <1>1, FormsStepIsScratchStep, NextInv
<1>4. HandInv'
    <2>1. CASE ColumnLoop
        BY <1>1, <2>1, HandColumnLoop
    <2>2. CASE SizeScratch
        BY <1>1, <2>2, HandSizeScratch
    <2>3. CASE RowStart
        BY <1>1, <2>3, HandRowStart
    <2>4. CASE ReadTerm
        BY <1>1, <2>4, HandReadTerm
    <2>5. CASE Satisfied
        BY <1>1, <2>5, HandSatisfied
    <2>6. CASE RowEnd
        BY <1>1, <2>6, HandRowEnd
    <2>7. CASE Skip
        BY <1>1, <2>7, HandNoRow DEF Skip
    <2>8. CASE LinearRow
        BY <1>1, <2>8, HandLinearRow
    <2>9. CASE ClauseRow
        BY <1>1, <2>9, HandClauseRow
    <2>10. CASE EqualRow
        BY <1>1, <2>10, HandEqualRow
    <2>11. CASE ImpliedRow
        BY <1>1, <2>11, HandImpliedRow
    <2>12. CASE ImpliedByNothing
        BY <1>1, <2>12, HandNoRow DEF ImpliedByNothing, Takes
    <2>13. CASE QuadraticRow
        BY <1>1, <2>13, HandQuadraticRow
    <2>14. CASE ProductRow
        BY <1>1, <2>14, HandProductRow
    <2>15. CASE Reject
        BY <1>1, <2>15, HandReject
    <2>16. CASE NextLayer
        BY <1>1, <2>16, HandNextLayer
    <2>17. CASE Built \/ UNCHANGED formsVars
        BY <1>1, <2>17, HandStutter DEF Built
    <2> QED
        BY <2>1, <2>2, <2>3, <2>4, <2>5, <2>6, <2>7, <2>8, <2>9, <2>10, <2>11, <2>12, <2>13, <2>14,
           <2>15, <2>16, <2>17 DEF FormsNext
<1> QED BY <1>1, <1>2, <1>3, <1>4 DEF BuildInv

\* Throughout a build its columns are intervals of values, its scratch is of the row
\* being built, the rows queued and given are rows over its columns, and what is
\* refused was not declared (mip_model.cpp, build).
THEOREM BuildInvariant == FormsSpec => []BuildInv
BY BuildInit, BuildNext, PTL DEF FormsSpec

\* The type invariant of a build, for all models, backends and layers: every place
\* stays within its layer, rows counts what was given, and a constraint is given at
\* most one row (mip_model.cpp, build).
THEOREM BuildTypeCorrect == FormsSpec => []FormsTypeOK
<1>1. BuildInv => FormsTypeOK
    <2> SUFFICES ASSUME BuildInv PROVE FormsTypeOK
        OBVIOUS
    <2>1. DomainsTypeOK /\ TypeOK /\ Counters /\ QueueInHand /\ GivenInHand
        BY DEF BuildInv, DInv, IInv, HandInv
    <2>2. Len(queue) \in Nat
        <3>1. CASE phase = "columns"
            <4>1. queue = <<>> /\ Len(<<>>) = 0
                BY <2>1, <3>1 DEF QueueInHand
            <4> QED BY <4>1
        <3>2. CASE phase # "columns"
            BY <2>1, <3>2 DEF QueueInHand
        <3> QED BY <3>1, <3>2
    <2>3. Len(given) \in Nat
        BY <2>1 DEF GivenInHand
    <2>4. item \notin {NoItem, Holes} => Len(given) <= 1
        BY <2>1, <2>2, <2>3 DEF GivenInHand
    <2>5. phase = "terms" => queue # <<>>
        BY <2>1 DEF QueueInHand
    <2> QED BY <2>1, <2>4, <2>5 DEF FormsTypeOK, Counters
<1> QED BY <1>1, BuildInvariant, PTL

\* What Declarations declares for a backend is never refused, and no row uses what
\* the backend does not say it can do (signatures.cpp; mip_model.cpp, build).
THEOREM DeclaredConstraintsArePosted == FormsSpec => []DeclaredIsPosted
<1>1. BuildInv => DeclaredIsPosted
    <2> SUFFICES ASSUME BuildInv PROVE DeclaredIsPosted
        OBVIOUS
    <2>1. RefusedUndeclared /\ GivenInHand
        BY DEF BuildInv, HandInv
    <2>2. DOMAIN given = 1 .. Len(given)
        BY <2>1 DEF GivenInHand
    <2> QED BY <2>1, <2>2 DEF DeclaredIsPosted, RefusedUndeclared, GivenInHand
<1> QED BY <1>1, BuildInvariant, PTL

-----------------------------------------------------------------------------
(***************************************************************************)
(* What a row that is queued, being built or given says of values Y of the *)
(* columns; cols is the columns of the decisions.                          *)
(***************************************************************************)
ArgAt(cols, arg, Y) ==
    IF IsLiteral(arg) THEN arg.v ELSE Y[IF arg.is = "decision" THEN cols[arg.v] ELSE arg.v]
TermAt(cols, t, Y)      == t.coef * ArgAt(cols, t.arg, Y) + t.constant
TermValues(cols, ts, Y) == [i \in 1 .. Len(ts) |-> TermAt(cols, ts[i], Y)]
TermsAt(cols, ts, Y)    == Total(TermValues(cols, ts, Y))
PlanSays(cols, p, Y) ==
    (p.bin = 0 \/ Y[p.bin] = 1) => Compares(TermsAt(cols, p.terms, Y), p.sense, p.rhs)

RowValues(ix, vl, Y) == [i \in 1 .. Len(ix) |-> vl[i] * Y[ix[i]]]
RowAt(ix, vl, Y)     == Total(RowValues(ix, vl, Y))

\* The decisions' columns are among those of U.
ColsIn(cols, D, U) == \A d \in D : cols[d] \in U

LEMMA TermAtType ==
    ASSUME NEW D, NEW U, NEW cols, ColsIn(cols, D, U), NEW t \in TermsOver(D, U), NEW Y \in [U -> Int]
    PROVE  ArgAt(cols, t.arg, Y) \in Int /\ TermAt(cols, t, Y) \in Int
<1>1. t.coef \in Int /\ t.constant \in Int /\ t.arg \in ArgsOver(D, U)
    BY DEF TermsOver
<1>2. ArgAt(cols, t.arg, Y) \in Int
    <2>1. PICK arg \in ArgsOver(D, U) : arg = t.arg
        BY <1>1
    <2>2. \A c \in U : Y[c] \in Int
        OBVIOUS
    <2>3. CASE arg \in [is : {"decision"}, v : D]
        <3>1. arg.is = "decision" /\ arg.v \in D
            BY <2>3
        <3>2. cols[arg.v] \in U
            BY <3>1 DEF ColsIn
        <3> QED BY <2>1, <2>2, <3>1, <3>2 DEF ArgAt, IsLiteral
    <2>4. CASE arg \in [is : {"literal"}, v : Int]
        <3>1. arg.is = "literal" /\ arg.v \in Int
            BY <2>4
        <3> QED BY <2>1, <3>1 DEF ArgAt, IsLiteral
    <2>5. CASE arg \in [is : {"column"}, v : U]
        <3>1. arg.is = "column" /\ arg.v \in U
            BY <2>5
        <3> QED BY <2>1, <2>2, <3>1 DEF ArgAt, IsLiteral
    <2> QED BY <2>1, <2>3, <2>4, <2>5 DEF ArgsOver
<1>3. PICK a, k, v : a = t.coef /\ k = t.constant /\ v = ArgAt(cols, t.arg, Y)
    OBVIOUS
<1>4. a * v + k \in Int
    BY <1>1, <1>2, <1>3
<1> QED BY <1>2, <1>3, <1>4 DEF TermAt

LEMMA TermValuesAre ==
    ASSUME NEW D, NEW U, NEW cols, ColsIn(cols, D, U), NEW ts \in Seq(TermsOver(D, U)),
           NEW Y \in [U -> Int]
    PROVE  /\ Numbers(TermValues(cols, ts, Y)) /\ Len(TermValues(cols, ts, Y)) = Len(ts)
           /\ \A i \in 1 .. Len(ts) : TermValues(cols, ts, Y)[i] = TermAt(cols, ts[i], Y)
           /\ TermsAt(cols, ts, Y) \in Int
<1> DEFINE T == TermsOver(D, U)
<1> HIDE DEF T
<1>1. ts \in Seq(T)
    BY DEF T
<1>2. Len(ts) \in Nat /\ \A i \in 1 .. Len(ts) : ts[i] \in T
    BY <1>1
<1>3. \A i \in 1 .. Len(ts) : TermAt(cols, ts[i], Y) \in Int
    BY <1>2, TermAtType DEF T
<1> DEFINE f == TermValues(cols, ts, Y)
<1>4. f \in [1 .. Len(ts) -> Int] /\ \A i \in 1 .. Len(ts) : f[i] = TermAt(cols, ts[i], Y)
    BY <1>3 DEF TermValues
<1> HIDE DEF f
<1>5. Numbers(f) /\ Len(f) = Len(ts)
    BY <1>2, <1>4, NumbersOf
<1>6. Total(f) \in Int
    BY <1>5, TotalType
<1> QED BY <1>4, <1>5, <1>6 DEF f, TermsAt

LEMMA RowValuesAre ==
    ASSUME NEW U, NEW ix \in Seq(U), NEW vl \in Seq(Int), Len(vl) = Len(ix), NEW Y \in [U -> Int]
    PROVE  /\ Numbers(RowValues(ix, vl, Y)) /\ Len(RowValues(ix, vl, Y)) = Len(ix)
           /\ \A i \in 1 .. Len(ix) : RowValues(ix, vl, Y)[i] = vl[i] * Y[ix[i]]
           /\ RowAt(ix, vl, Y) \in Int
           /\ Weighted(vl, [i \in 1 .. Len(ix) |-> Y[ix[i]]]) = RowAt(ix, vl, Y)
<1>1. Len(ix) \in Nat /\ \A i \in 1 .. Len(ix) : vl[i] \in Int /\ ix[i] \in U
    OBVIOUS
<1>2. \A i \in 1 .. Len(ix) : Y[ix[i]] \in Int
    BY <1>1
<1>3. \A i \in 1 .. Len(ix) : vl[i] * Y[ix[i]] \in Int
    BY <1>1, <1>2
<1> DEFINE f == RowValues(ix, vl, Y)
           y == [i \in 1 .. Len(ix) |-> Y[ix[i]]]
<1>4. f \in [1 .. Len(ix) -> Int] /\ \A i \in 1 .. Len(ix) : f[i] = vl[i] * Y[ix[i]]
    BY <1>3 DEF RowValues
<1>5. y \in [1 .. Len(ix) -> Int] /\ \A i \in 1 .. Len(ix) : y[i] = Y[ix[i]]
    BY <1>2
<1> HIDE DEF f, y
<1>6. Numbers(f) /\ Len(f) = Len(ix)
    BY <1>1, <1>4, NumbersOf
<1>7. Total(f) \in Int
    BY <1>6, TotalType
<1>8. Len(y) = Len(ix)
    BY <1>1, <1>5, SeqOfValues
<1>9. [i \in 1 .. Len(y) |-> vl[i] * y[i]] = f
    <2>1. \A i \in 1 .. Len(ix) : vl[i] * y[i] = vl[i] * Y[ix[i]]
        BY <1>5
    <2>2. [i \in 1 .. Len(ix) |-> vl[i] * y[i]] = [i \in 1 .. Len(ix) |-> vl[i] * Y[ix[i]]]
        BY <2>1
    <2> QED BY <1>8, <2>2 DEF f, RowValues
<1>10. Weighted(vl, y) = Total(f)
    BY <1>9 DEF Weighted
<1> QED BY <1>4, <1>6, <1>7, <1>10 DEF f, y, RowAt

\* The first of the terms that are left.
LEMMA TermsFirst ==
    ASSUME NEW D, NEW U, NEW cols, ColsIn(cols, D, U), NEW ts \in Seq(TermsOver(D, U)), ts # <<>>,
           NEW Y \in [U -> Int]
    PROVE  /\ TermAt(cols, Head(ts), Y) \in Int /\ TermsAt(cols, Tail(ts), Y) \in Int
           /\ TermsAt(cols, ts, Y) = TermAt(cols, Head(ts), Y) + TermsAt(cols, Tail(ts), Y)
<1> DEFINE T == TermsOver(D, U)
<1> HIDE DEF T
<1>1. ts \in Seq(T)
    BY DEF T
<1>2. PICK rest : rest = Tail(ts)
    OBVIOUS
<1>3. /\ rest \in Seq(T) /\ Len(ts) = Len(rest) + 1 /\ Head(ts) = ts[1] /\ Head(ts) \in T
      /\ Len(rest) \in Nat /\ \A i \in 1 .. Len(rest) : rest[i] = ts[i + 1]
    BY <1>1, <1>2
<1> DEFINE f == TermValues(cols, ts, Y)
           g == TermValues(cols, rest, Y)
<1>4. /\ Numbers(f) /\ Len(f) = Len(ts) /\ \A i \in 1 .. Len(ts) : f[i] = TermAt(cols, ts[i], Y)
    BY TermValuesAre
<1>5. /\ Numbers(g) /\ Len(g) = Len(rest) /\ \A i \in 1 .. Len(rest) : g[i] = TermAt(cols, rest[i], Y)
      /\ TermsAt(cols, rest, Y) \in Int
    BY <1>3, TermValuesAre DEF T
<1>6. TermAt(cols, Head(ts), Y) \in Int
    BY <1>3, TermAtType DEF T
<1> HIDE DEF f, g
<1>7. Len(f) = Len(g) + 1
    BY <1>3, <1>4, <1>5
<1>8. \A i \in 1 .. Len(g) : g[i] = f[i + 1]
    <2> TAKE i \in 1 .. Len(g)
    <2>1. i \in 1 .. Len(rest) /\ i + 1 \in 1 .. Len(ts)
        BY <1>3, <1>5
    <2> QED BY <1>3, <1>4, <1>5, <2>1
<1>9. Total(f) = f[1] + Total(g)
    BY <1>4, <1>5, <1>7, <1>8, TotalRest
<1>10. f[1] = TermAt(cols, Head(ts), Y)
    <2>1. 1 \in 1 .. Len(ts)
        BY <1>3
    <2> QED BY <1>3, <1>4, <2>1
<1> QED BY <1>2, <1>5, <1>6, <1>9, <1>10 DEF TermsAt, f, g

LEMMA TermsNone ==
    ASSUME NEW cols, NEW Y
    PROVE  TermsAt(cols, <<>>, Y) = 0
<1> DEFINE f == TermValues(cols, <<>>, Y)
<1>1. f \in [1 .. 0 -> Int]
    BY DEF TermValues
<1>2. Len(f) = 0
    <2> HIDE DEF f
    <2> QED BY <1>1, SeqOfValues
<1> HIDE DEF f
<1>3. Total(f) = 0
    BY <1>2, TotalNone
<1> QED BY <1>3 DEF TermsAt, f

LEMMA RowNone ==
    ASSUME NEW vl, NEW Y
    PROVE  RowAt(<<>>, vl, Y) = 0
<1> DEFINE f == RowValues(<<>>, vl, Y)
<1>1. f \in [1 .. 0 -> Int]
    BY DEF RowValues
<1>2. Len(f) = 0
    <2> HIDE DEF f
    <2> QED BY <1>1, SeqOfValues
<1> HIDE DEF f
<1>3. Total(f) = 0
    BY <1>2, TotalNone
<1> QED BY <1>3 DEF RowAt, f

\* A row with a term more.
LEMMA RowGrows ==
    ASSUME NEW U, NEW ix \in Seq(U), NEW vl \in Seq(Int), Len(vl) = Len(ix), NEW Y \in [U -> Int],
           NEW c \in U, NEW a \in Int
    PROVE  RowAt(Append(ix, c), Append(vl, a), Y) = RowAt(ix, vl, Y) + a * Y[c]
<1>1. PICK jx, wl : jx = Append(ix, c) /\ wl = Append(vl, a)
    OBVIOUS
<1>2. /\ jx \in Seq(U) /\ Len(jx) = Len(ix) + 1 /\ Len(ix) \in Nat
      /\ jx[Len(ix) + 1] = c /\ \A i \in 1 .. Len(ix) : jx[i] = ix[i]
    BY <1>1
<1>3. /\ wl \in Seq(Int) /\ Len(wl) = Len(ix) + 1
      /\ wl[Len(ix) + 1] = a /\ \A i \in 1 .. Len(ix) : wl[i] = vl[i]
    BY <1>1
<1> DEFINE f == RowValues(ix, vl, Y)
           g == RowValues(jx, wl, Y)
<1>4. Numbers(f) /\ Len(f) = Len(ix) /\ \A i \in 1 .. Len(ix) : f[i] = vl[i] * Y[ix[i]]
    BY RowValuesAre
<1>5. Numbers(g) /\ Len(g) = Len(jx) /\ \A i \in 1 .. Len(jx) : g[i] = wl[i] * Y[jx[i]]
    <2>1. jx \in Seq(U) /\ wl \in Seq(Int) /\ Len(wl) = Len(jx)
        BY <1>2, <1>3
    <2> QED BY <2>1, RowValuesAre, ZenonT(30)
<1> HIDE DEF f, g
<1>6. \A i \in 1 .. Len(f) : g[i] = f[i]
    <2> TAKE i \in 1 .. Len(f)
    <2>1. i \in 1 .. Len(ix) /\ i \in 1 .. Len(jx)
        BY <1>2, <1>4
    <2> QED BY <1>2, <1>3, <1>4, <1>5, <2>1
<1>7. g[Len(f) + 1] = a * Y[c]
    <2>1. Len(f) + 1 \in 1 .. Len(jx) /\ Len(f) + 1 = Len(ix) + 1
        BY <1>2, <1>4
    <2> QED BY <1>2, <1>3, <1>5, <2>1
<1>8. Len(g) = Len(f) + 1
    BY <1>2, <1>4, <1>5
<1>9. Total(g) = Total(f) + g[Len(f) + 1]
    BY <1>4, <1>5, <1>6, <1>8, TotalMore
<1> QED BY <1>1, <1>7, <1>9 DEF RowAt, f, g

\* A row with a coefficient added to.
AddedAt(wl, vl, s, a) == wl = [vl EXCEPT ![s] = @ + a]

LEMMA RowFolds ==
    ASSUME NEW U, NEW ix \in Seq(U), NEW vl \in Seq(Int), Len(vl) = Len(ix), NEW Y \in [U -> Int],
           NEW s \in 1 .. Len(ix), NEW a \in Int, NEW wl, AddedAt(wl, vl, s, a)
    PROVE  RowAt(ix, wl, Y) = RowAt(ix, vl, Y) + a * Y[ix[s]]
<1>2. /\ vl[s] \in Int /\ wl \in Seq(Int) /\ Len(wl) = Len(vl) /\ wl[s] = vl[s] + a
      /\ \A i \in 1 .. Len(ix) : i # s => wl[i] = vl[i]
    BY DEF AddedAt
<1> DEFINE f == RowValues(ix, vl, Y)
           g == RowValues(ix, wl, Y)
<1>3. Numbers(f) /\ Len(f) = Len(ix) /\ \A i \in 1 .. Len(ix) : f[i] = vl[i] * Y[ix[i]]
    BY RowValuesAre, ZenonT(30)
<1>4. Numbers(g) /\ Len(g) = Len(ix) /\ \A i \in 1 .. Len(ix) : g[i] = wl[i] * Y[ix[i]]
    <2>1. Len(wl) = Len(ix)
        BY <1>2
    <2> QED BY <1>2, <2>1, RowValuesAre, ZenonT(30)
<1>5. ix[s] \in U /\ Y[ix[s]] \in Int
    <2>1. ix[s] \in U
        OBVIOUS
    <2> QED BY <2>1
<1>6. RowAt(ix, vl, Y) \in Int
    BY RowValuesAre
<1> HIDE DEF f, g
<1>7. \A i \in 1 .. Len(f) : i # s => g[i] = f[i]
    BY <1>2, <1>3, <1>4
<1>8. Total(g) = Total(f) + (g[s] - f[s])
    <2>1. Len(g) = Len(f) /\ s \in 1 .. Len(f)
        BY <1>3, <1>4
    <2> QED BY <1>3, <1>4, <1>7, <2>1, TotalChanged
<1>9. g[s] - f[s] = a * Y[ix[s]]
    <2>1. PICK x, v : x = Y[ix[s]] /\ v = vl[s]
        OBVIOUS
    <2>2. g[s] = (v + a) * x /\ f[s] = v * x
        BY <1>2, <1>3, <1>4, <2>1
    <2>3. x \in Int /\ v \in Int
        BY <1>2, <1>5, <2>1
    <2>4. (v + a) * x - v * x = a * x
        BY <2>3
    <2> QED BY <2>1, <2>2, <2>4
<1> QED BY <1>8, <1>9 DEF RowAt, f, g

-----------------------------------------------------------------------------
(***************************************************************************)
(* While a row is built its terms so far, the terms left and its right-hand *)
(* side balance: they are what the plan's terms and right-hand side are.   *)
(***************************************************************************)
Balance(cols, U, ix, vl, ts, r, p) ==
    \A Y \in [U -> Int] :
        RowAt(ix, vl, Y) + TermsAt(cols, ts, Y) - r = TermsAt(cols, p.terms, Y) - p.rhs

Balanced ==
    phase = "terms" => Balance(model.column, Used, idx, val, todo, rhs, Head(queue))

\* A row in hand.
LEMMA RowKnown ==
    ASSUME DInv, IInv, HandInv, phase = "terms"
    PROVE  /\ ColsIn(model.column, Decisions, Used) /\ Used \subseteq Column
           /\ idx \in Seq(Used) /\ val \in Seq(Int) /\ Len(val) = Len(idx) /\ Len(idx) \in Nat
           /\ Head(queue).terms \in Seq(TermsOver(Decisions, Used)) /\ Head(queue).rhs \in Int
           /\ Head(queue).sense \in Senses /\ Head(queue).bin \in {0} \cup Used
           /\ todo \in Seq(TermsOver(Decisions, Used)) /\ rhs \in Int
<1>1. Ready /\ rhs \in Int
    BY DEF HandInv, ItemInHand, Counters
<1>2. (\A d \in Decisions : ColumnOf(d) \in 1 .. Len(intervals)) /\ 1 .. Len(intervals) \subseteq Used
      /\ Used \subseteq Column
    BY <1>1, ReadyColumns
<1>3. ColsIn(model.column, Decisions, Used)
    BY <1>2 DEF ColsIn, ColumnOf
<1>4. Head(queue) \in PlansOver(Decisions, Used)
    BY QueueAdvances
<1>5. /\ Head(queue).terms \in Seq(TermsOver(Decisions, Used)) /\ Head(queue).rhs \in Int
      /\ Head(queue).sense \in Senses /\ Head(queue).bin \in {0} \cup Used
    BY <1>4 DEF PlansOver
<1>6. todo \in Seq(TermsOver(Decisions, Used)) /\ \A i \in 1 .. Len(idx) : idx[i] \in Used
    BY DEF HandInv, RowInHand
<1>7. idx \in Seq(Nat) /\ val \in Seq(Int) /\ Len(val) = Len(idx)
    BY HandParts
<1>8. Len(idx) \in Nat /\ idx \in [1 .. Len(idx) -> Used]
    BY <1>6, <1>7
<1>9. idx \in Seq(Used)
    BY <1>8, SeqOfValues
<1> QED BY <1>1, <1>2, <1>3, <1>5, <1>6, <1>7, <1>8, <1>9

LEMMA BalanceStarts ==
    ASSUME NEW cols, NEW U, NEW vl, NEW p, NEW D, ColsIn(cols, D, U), p.terms \in Seq(TermsOver(D, U)),
           p.rhs \in Int
    PROVE  Balance(cols, U, <<>>, vl, p.terms, p.rhs, p)
<1> SUFFICES ASSUME NEW Y \in [U -> Int]
             PROVE  RowAt(<<>>, vl, Y) + TermsAt(cols, p.terms, Y) - p.rhs
                       = TermsAt(cols, p.terms, Y) - p.rhs
    BY DEF Balance
<1>1. RowAt(<<>>, vl, Y) = 0
    BY RowNone
<1>2. TermsAt(cols, p.terms, Y) \in Int
    BY TermValuesAre
<1> QED BY <1>1, <1>2

LEMMA BalanceRowStart ==
    ASSUME DInv, IInv, HandInv, RowStart
    PROVE  Balanced'
<1>1. /\ queue # <<>> /\ phase = "rows" /\ queue' = queue
      /\ todo' = Head(queue).terms /\ rhs' = Head(queue).rhs
      /\ columns' = columns /\ position' = position /\ idx' = <<>>
    BY DEF RowStart, RowBegin
<1>2. ColumnsStay
    BY ColumnsSame DEF RowStart
<1>3. model' = model /\ Used' = Used
    BY <1>1, <1>2, UsedSame DEF ColumnsStay
<1>4. queue \in Seq(PlansOver(Decisions, Used)) /\ Ready
    BY <1>1 DEF HandInv, QueueInHand, ItemInHand
<1>5. Head(queue) \in PlansOver(Decisions, Used)
    BY <1>1, <1>4
<1>6. PICK p : p = Head(queue)
    OBVIOUS
<1>7. p.terms \in Seq(TermsOver(Decisions, Used)) /\ p.rhs \in Int
    BY <1>5, <1>6 DEF PlansOver
<1>8. ColsIn(model.column, Decisions, Used)
    BY <1>4, ReadyColumns DEF ColsIn, ColumnOf
<1>9. Balance(model.column, Used, <<>>, val', p.terms, p.rhs, p)
    BY <1>7, <1>8, BalanceStarts
<1> QED BY <1>1, <1>3, <1>6, <1>9 DEF Balanced

\* The term that is read moves to the row or to the right-hand side.
LEMMA BalanceReadTerm ==
    ASSUME DInv, IInv, HandInv, Balanced, ReadTerm
    PROVE  Balanced'
<1>1. /\ phase = "terms" /\ todo # <<>> /\ queue' = queue /\ position' = position
      /\ todo' = Tail(todo)
    BY DEF ReadTerm
<1>2. ColumnsStay
    BY ColumnsSame DEF ReadTerm
<1>3. PICK t : t = Head(todo)
    OBVIOUS
<1>4. /\ todo \in Seq(TermsOver(Decisions, Used)) /\ t \in TermsOver(Decisions, Used)
      /\ t.coef \in Int /\ t.constant \in Int
      /\ IsLiteral(t.arg) => t.arg.v \in Int
      /\ ~IsLiteral(t.arg) => ColumnArg(t.arg) \in Used
    BY <1>1, <1>3, TermInHand
<1>5. /\ IsLiteral(t.arg) => rhs' = rhs - t.constant - t.coef * t.arg.v /\ UNCHANGED scratch
      /\ ~IsLiteral(t.arg) =>
            /\ \E c \in Column, a \in Coefficients :
                  c = ColumnArg(t.arg) /\ a = t.coef /\ (Fold(c, a) \/ NewTerm(c, a))
            /\ rhs' = rhs - t.constant
    BY <1>3 DEF ReadTerm
<1>6. columns' = columns
    <2>1. CASE IsLiteral(t.arg)
        BY <1>5, <2>1 DEF scratch
    <2>2. CASE ~IsLiteral(t.arg)
        BY <1>5, <2>2 DEF Fold, NewTerm
    <2> QED BY <2>1, <2>2
<1>7. model' = model /\ Used' = Used
    BY <1>1, <1>2, <1>6, UsedSame DEF ColumnsStay
<1>8. /\ ColsIn(model.column, Decisions, Used) /\ Used \subseteq Column
      /\ idx \in Seq(Used) /\ val \in Seq(Int) /\ Len(val) = Len(idx) /\ Len(idx) \in Nat
      /\ rhs \in Int
      /\ Head(queue).terms \in Seq(TermsOver(Decisions, Used)) /\ Head(queue).rhs \in Int
    BY <1>1, RowKnown
<1>9. PICK cols, U, p : cols = model.column /\ U = Used /\ p = Head(queue)
    OBVIOUS
<1>10. SUFFICES ASSUME NEW Y \in [U -> Int]
                PROVE  RowAt(idx', val', Y) + TermsAt(cols, todo', Y) - rhs'
                          = TermsAt(cols, p.terms, Y) - p.rhs
    BY <1>1, <1>7, <1>9 DEF Balanced, Balance
<1>11. RowAt(idx, val, Y) + TermsAt(cols, todo, Y) - rhs = TermsAt(cols, p.terms, Y) - p.rhs
    BY <1>1, <1>9 DEF Balanced, Balance
<1>12. /\ TermAt(cols, t, Y) \in Int /\ TermsAt(cols, todo', Y) \in Int
       /\ TermsAt(cols, todo, Y) = TermAt(cols, t, Y) + TermsAt(cols, todo', Y)
    BY <1>1, <1>3, <1>4, <1>8, <1>9, TermsFirst
<1>13. RowAt(idx, val, Y) \in Int
    BY <1>8, <1>9, RowValuesAre
<1>14. TermAt(cols, t, Y) = t.coef * ArgAt(cols, t.arg, Y) + t.constant
    BY DEF TermAt
<1>15. CASE IsLiteral(t.arg)
    <2>1. idx' = idx /\ val' = val /\ rhs' = rhs - t.constant - t.coef * t.arg.v
        BY <1>5, <1>15 DEF scratch
    <2>2. ArgAt(cols, t.arg, Y) = t.arg.v
        BY <1>15 DEF ArgAt
    <2>3. PICK w : w = t.coef * t.arg.v
        OBVIOUS
    <2>4. w \in Int
        BY <1>4, <1>15, <2>3
    <2>5. rhs' = rhs - t.constant - w /\ TermAt(cols, t, Y) = w + t.constant
        BY <1>14, <2>1, <2>2, <2>3
    <2>6. RowAt(idx', val', Y) = RowAt(idx, val, Y)
        BY <2>1
    <2>7. TermsAt(cols, p.terms, Y) \in Int
        BY <1>8, <1>9, TermValuesAre
    <2> QED BY <1>4, <1>8, <1>9, <1>11, <1>12, <1>13, <2>4, <2>5, <2>6, <2>7, SMTT(30)
<1>16. CASE ~IsLiteral(t.arg)
    <2>1. PICK c \in Column, a \in Coefficients :
                c = ColumnArg(t.arg) /\ a = t.coef /\ (Fold(c, a) \/ NewTerm(c, a))
        BY <1>5, <1>16
    <2>2. c \in U /\ a \in Int /\ rhs' = rhs - t.constant
        BY <1>4, <1>5, <1>9, <1>16, <2>1
    <2>3. ArgAt(cols, t.arg, Y) = Y[c]
        BY <1>9, <1>16, <2>1 DEF ArgAt, ColumnArg, ColumnOf
    <2>4. RowAt(idx', val', Y) = RowAt(idx, val, Y) + a * Y[c]
        <3>1. CASE NewTerm(c, a)
            <4>1. idx' = Append(idx, c) /\ val' = Append(val, a)
                BY <3>1 DEF NewTerm
            <4>2. idx \in Seq(U) /\ val \in Seq(Int) /\ Len(val) = Len(idx)
                BY <1>8, <1>9
            <4> QED BY <2>2, <4>1, <4>2, RowGrows
        <3>2. CASE Fold(c, a)
            <4>1. slot[c] \in 1 .. Len(idx) /\ idx[slot[c]] = c
                BY <3>2 DEF Fold, IInv, StampsIndexRow
            <4>2. idx' = idx /\ val' = [val EXCEPT ![slot[c]] = @ + a]
                BY <3>2 DEF Fold
            <4>3. idx \in Seq(U) /\ val \in Seq(Int) /\ Len(val) = Len(idx)
                BY <1>8, <1>9
            <4>4. PICK s \in 1 .. Len(idx) : s = slot[c]
                BY <4>1
            <4>5. a \in Int /\ AddedAt(val', val, s, a)
                BY <2>2, <4>2, <4>4 DEF AddedAt
            <4>6. RowAt(idx, val', Y) = RowAt(idx, val, Y) + a * Y[idx[s]]
                BY <4>3, <4>4, <4>5, RowFolds, ZenonT(30)
            <4> QED BY <4>1, <4>2, <4>4, <4>6
        <3> QED BY <2>1, <3>1, <3>2
    <2>5. PICK w : w = a * Y[c]
        OBVIOUS
    <2>6. w \in Int
        <3>1. Y[c] \in Int
            BY <2>2
        <3> QED BY <2>2, <2>5, <3>1
    <2>7. TermAt(cols, t, Y) = w + t.constant /\ RowAt(idx', val', Y) = RowAt(idx, val, Y) + w
        BY <1>14, <2>1, <2>3, <2>4, <2>5
    <2>8. TermsAt(cols, p.terms, Y) \in Int
        BY <1>8, <1>9, TermValuesAre
    <2>9. rhs' = rhs - t.constant /\ rhs \in Int /\ t.constant \in Int
        BY <1>4, <1>8, <2>2
    <2>10. PICK was, lhs, now, rest :
               was = RowAt(idx, val, Y) /\ lhs = TermsAt(cols, todo, Y)
               /\ now = RowAt(idx', val', Y) /\ rest = TermsAt(cols, todo', Y)
        OBVIOUS
    <2>11. /\ was \in Int /\ rest \in Int /\ now = was + w /\ lhs = w + t.constant + rest
           /\ was + lhs - rhs = TermsAt(cols, p.terms, Y) - p.rhs
        BY <1>11, <1>12, <1>13, <2>7, <2>10
    <2>12. now + rest - rhs' = was + lhs - rhs
        BY <2>6, <2>9, <2>11
    <2> QED BY <2>10, <2>11, <2>12
<1> QED BY <1>15, <1>16

-----------------------------------------------------------------------------
(***************************************************************************)
(* What the plan of a constraint says is what the constraint says.         *)
(***************************************************************************)
Forms == {"linear", "clause", "equal", "implied", "times"}

\* The decisions' values for values y of the columns.
Decided(cols, D, y) == [d \in D |-> y[cols[d]]]

\* Says, form by form.
SaysAs(form, con, x) ==
    /\ form = "linear" => Compares(Dot(con, x), SenseOf(con.ident), Value(con.rhs, x))
    /\ form = "clause" => \/ \E i \in DOMAIN con.pos : Value(con.pos[i], x) = 1
                          \/ \E i \in DOMAIN con.neg : Value(con.neg[i], x) = 0
    /\ form = "equal" => Value(con.a, x) = Value(con.b, x)
    /\ form = "implied" =>
          (Value(con.b, x) = 1 => Compares(Dot(con, x), SenseOf(con.ident), Value(con.rhs, x)))
    /\ form = "times" => Value(con.a, x) * Value(con.b, x) = Value(con.c, x)

LEMMA ComparesIs ==
    ASSUME NEW x \in Int, NEW r \in Int
    PROVE  /\ Compares(x, "le", r) <=> x <= r
           /\ Compares(x, "eq", r) <=> x = r
           /\ Compares(x, "ge", r) <=> x >= r
BY DEF Compares

\* What is compared can be moved to one side.
LEMMA ComparesMoved ==
    ASSUME NEW x \in Int, NEW r \in Int, NEW y \in Int, NEW s \in Int, NEW sense \in Senses, x - r = y - s
    PROVE  Compares(x, sense, r) <=> Compares(y, sense, s)
<1>1. (x <= r <=> y <= s) /\ (x = r <=> y = s) /\ (x >= r <=> y >= s)
    OBVIOUS
<1>2. sense = "le" \/ sense = "eq" \/ sense = "ge"
    BY DEF Senses
<1> QED BY <1>1, <1>2, ComparesIs

LEMMA SaysIs ==
    ASSUME NEW con, Form(con.ident) \in Forms, NEW x
    PROVE  Says(con, x) <=> SaysAs(Form(con.ident), con, x)
<1>1. PICK form : form = Form(con.ident)
    OBVIOUS
<1>2. form \in Forms
    BY <1>1
<1>3. CASE form = "linear"
    <2>1. Says(con, x) = Compares(Dot(con, x), SenseOf(con.ident), Value(con.rhs, x))
        BY <1>1, <1>3 DEF Says
    <2>2. SaysAs(form, con, x) <=> Compares(Dot(con, x), SenseOf(con.ident), Value(con.rhs, x))
        BY <1>3 DEF SaysAs
    <2> QED BY <1>1, <2>1, <2>2
<1>4. CASE form = "clause"
    <2> DEFINE says == \/ \E i \in DOMAIN con.pos : Value(con.pos[i], x) = 1
                       \/ \E i \in DOMAIN con.neg : Value(con.neg[i], x) = 0
    <2>1. Says(con, x) <=> says
        BY <1>1, <1>4 DEF Says
    <2>2. SaysAs(form, con, x) <=> says
        BY <1>4 DEF SaysAs
    <2> HIDE DEF says
    <2> QED BY <1>1, <2>1, <2>2
<1>5. CASE form = "equal"
    <2>1. Says(con, x) <=> Value(con.a, x) = Value(con.b, x)
        BY <1>1, <1>5 DEF Says
    <2>2. SaysAs(form, con, x) <=> Value(con.a, x) = Value(con.b, x)
        BY <1>5 DEF SaysAs
    <2> QED BY <1>1, <2>1, <2>2
<1>6. CASE form = "implied"
    <2> DEFINE says == Value(con.b, x) = 1 => Compares(Dot(con, x), SenseOf(con.ident), Value(con.rhs, x))
    <2>1. Says(con, x) <=> says
        BY <1>1, <1>6 DEF Says
    <2>2. SaysAs(form, con, x) <=> says
        BY <1>6 DEF SaysAs
    <2> HIDE DEF says
    <2> QED BY <1>1, <2>1, <2>2
<1>7. CASE form = "times"
    <2>1. Says(con, x) <=> Value(con.a, x) * Value(con.b, x) = Value(con.c, x)
        BY <1>1, <1>7 DEF Says
    <2>2. SaysAs(form, con, x) <=> Value(con.a, x) * Value(con.b, x) = Value(con.c, x)
        BY <1>7 DEF SaysAs
    <2> QED BY <1>1, <2>1, <2>2
<1> QED BY <1>2, <1>3, <1>4, <1>5, <1>6, <1>7 DEF Forms

\* Values within the bounds of their columns, and of a Boolean's column 0 or 1.
LEMMA AssignmentTypes ==
    ASSUME DInv, ShapeInv, Ready, NEW y \in Assignments
    PROVE  /\ y \in [1 .. Len(intervals) -> Int]
           /\ ColsIn(model.column, Decisions, 1 .. Len(intervals))
           /\ \A d \in Decisions : model.column[d] \in 1 .. Len(intervals)
           /\ \A d \in Decisions : y[model.column[d]] \in Int
           /\ \A d \in Decisions : model.boolean[d] => y[model.column[d]] \in {0, 1}
<1>1. intervals \in Seq(Seq(Interval)) /\ model \in Models /\ Len(intervals) \in Nat
    <2>1. intervals \in Seq(Seq(Interval)) /\ model \in Models
        BY DEF DInv, DomainsTypeOK
    <2> QED BY <2>1
<1>2. y \in [1 .. Len(intervals) -> Values] /\ \A c \in 1 .. Len(intervals) : y[c] \in Hull(c)
    <2>1. y \in [1 .. Len(intervals) -> Values] /\ \A c \in DOMAIN y : y[c] \in Hull(c)
        BY DEF Assignments
    <2> QED BY <2>1
<1>3. y \in [1 .. Len(intervals) -> Int]
    BY <1>2, DomainsAssumption
<1>4. \A d \in Decisions : model.column[d] \in 1 .. Len(intervals)
    BY ReadyColumns DEF ColumnOf
<1>5. ASSUME NEW d \in Decisions, model.boolean[d]
      PROVE  y[model.column[d]] \in {0, 1}
    <2>1. PICK c \in 1 .. Len(intervals) : c = model.column[d]
        BY <1>4
    <2>2. d \in 1 .. decision - 1
        <3>1. decision \in 1 .. Len(model.column) + 1 /\ decision > Len(model.column)
            BY DEF DInv, DomainsTypeOK, Ready, ColumnsDone
        <3>2. Len(model.column) \in Nat
            BY <1>1, ModelParts
        <3> QED BY <3>1, <3>2 DEF Decisions
    <2>3. InBits(intervals[c]) /\ Len(intervals[c]) # 0
        BY <1>5, <2>1, <2>2 DEF ShapeInv, ColumnsInBits, ColumnsSolid, ColumnOf, Solid
    <2>4. Len(intervals[c]) \in Nat /\ \A i \in 1 .. Len(intervals[c]) : intervals[c][i] \in Interval
        BY <1>1, ListsHold
    <2>5. 1 \in 1 .. Len(intervals[c]) /\ Len(intervals[c]) \in 1 .. Len(intervals[c])
        BY <2>3, <2>4
    <2>6. /\ intervals[c][1].min \in Int /\ Last(intervals[c]).max \in Int
          /\ 0 <= intervals[c][1].min /\ Last(intervals[c]).max <= 1
        BY <2>3, <2>4, <2>5 DEF InBits, Last, Interval
    <2>7. intervals[c][1].min <= y[c] /\ y[c] <= Last(intervals[c]).max /\ y[c] \in Int
        BY <1>2, <1>3 DEF Hull
    <2>8. y[c] \in {0, 1}
        BY <2>6, <2>7
    <2> QED BY <2>1, <2>8
<1>6. \A d \in Decisions : y[model.column[d]] \in Int
    BY <1>3, <1>4
<1> QED BY <1>3, <1>4, <1>5, <1>6 DEF ColsIn

\* An argument has the value of its column.
LEMMA ValueIs ==
    ASSUME NEW arg \in Arguments(model), NEW y, \A d \in Decisions : y[model.column[d]] \in Int
    PROVE  /\ Value(arg, Decided(model.column, Decisions, y)) = ArgAt(model.column, arg, y)
           /\ ArgAt(model.column, arg, y) \in Int
<1>1. CASE arg \in [is : {"decision"}, v : Decisions]
    <2>1. arg.is = "decision" /\ arg.v \in Decisions
        BY <1>1
    <2> QED BY <2>1 DEF Value, Decided, ArgAt, IsLiteral
<1>2. CASE arg \in [is : {"literal"}, v : Int]
    <2>1. arg.is = "literal" /\ arg.v \in Int
        BY <1>2
    <2> QED BY <2>1 DEF Value, ArgAt, IsLiteral
<1> QED BY <1>1, <1>2 DEF Arguments, Decisions

LEMMA TruthIs ==
    ASSUME NEW arg \in Truths(model), NEW y,
           \A d \in Decisions : model.boolean[d] => y[model.column[d]] \in {0, 1}
    PROVE  ArgAt(model.column, arg, y) \in {0, 1}
<1>1. CASE arg \in [is : {"decision"}, v : {d \in Decisions : model.boolean[d]}]
    <2>1. arg.is = "decision" /\ arg.v \in Decisions /\ model.boolean[arg.v]
        BY <1>1
    <2> QED BY <2>1 DEF ArgAt, IsLiteral
<1>2. CASE arg \in [is : {"literal"}, v : {0, 1}]
    <2>1. arg.is = "literal" /\ arg.v \in {0, 1}
        BY <1>2
    <2> QED BY <2>1 DEF ArgAt, IsLiteral
<1> QED BY <1>1, <1>2 DEF Truths, Decisions

\* Values of the columns that say what the decisions are.
Fits(y) ==
    /\ y \in [1 .. Len(intervals) -> Int]
    /\ ColsIn(model.column, Decisions, 1 .. Len(intervals))
    /\ \A d \in Decisions : y[model.column[d]] \in Int
    /\ \A d \in Decisions : model.boolean[d] => y[model.column[d]] \in {0, 1}

LEMMA AssignmentsFit ==
    ASSUME DInv, ShapeInv, Ready
    PROVE  \A y \in Assignments : Fits(y)
BY AssignmentTypes DEF Fits

\* The weighted sum of a linear constraint and its right-hand side on the left.
LEMMA SumTermsAre ==
    ASSUME NEW con, con.coeffs \in Seq(Int), con.xs \in Seq(Arguments(model)),
           Len(con.coeffs) = Len(con.xs), con.rhs \in Arguments(model), NEW y, Fits(y)
    PROVE  LET x == Decided(model.column, Decisions, y)
           IN  /\ Dot(con, x) \in Int /\ Value(con.rhs, x) \in Int
               /\ TermsAt(model.column, Append(WeightedSum(con), Term(-1, con.rhs)), y)
                     = Dot(con, x) - Value(con.rhs, x)
<1> DEFINE x == Decided(model.column, Decisions, y)
           cols == model.column
           U == 1 .. Len(intervals)
           T == TermsOver(Decisions, U)
           ts == Append(WeightedSum(con), Term(-1, con.rhs))
           n == Len(con.xs)
           vs == [i \in 1 .. n |-> Value(con.xs[i], x)]
           f == [i \in 1 .. n |-> con.coeffs[i] * ArgAt(cols, con.xs[i], y)]
           g == TermValues(cols, ts, y)
<1>1. n \in Nat /\ \A i \in 1 .. n : con.coeffs[i] \in Int /\ con.xs[i] \in Arguments(model)
    OBVIOUS
<1>2. /\ y \in [U -> Int] /\ ColsIn(cols, Decisions, U) /\ \A d \in Decisions : y[cols[d]] \in Int
    BY DEF Fits
<1>3. /\ \A arg \in Arguments(model) : Value(arg, x) = ArgAt(cols, arg, y) /\ ArgAt(cols, arg, y) \in Int
    BY <1>2, ValueIs
<1>4. WeightedSum(con) \in Seq(T) /\ Len(WeightedSum(con)) = n
    <2>1. 0 \in {0} \cup U
        OBVIOUS
    <2> QED BY <2>1, SumPlanType
<1>5. Term(-1, con.rhs) \in T
    BY TermTypes, ArgumentsAreArgs
<1> HIDE DEF T
<1>6. PICK ws, last : ws = WeightedSum(con) /\ last = Term(-1, con.rhs)
    OBVIOUS
<1>7. /\ ts \in Seq(T) /\ Len(ts) = n + 1 /\ ts[n + 1] = last /\ \A i \in 1 .. n : ts[i] = ws[i]
    BY <1>1, <1>4, <1>5, <1>6
<1>8. \A i \in 1 .. n : ws[i] = Term(con.coeffs[i], con.xs[i])
    BY <1>6 DEF WeightedSum
<1> HIDE DEF x, cols, U, ts
<1>9. Numbers(g) /\ Len(g) = Len(ts) /\ \A i \in 1 .. Len(ts) : g[i] = TermAt(cols, ts[i], y)
    BY <1>2, <1>7, TermValuesAre DEF T
<1>10. \A i \in 1 .. n : con.coeffs[i] * ArgAt(cols, con.xs[i], y) \in Int
    BY <1>1, <1>3
<1>11. f \in [1 .. n -> Int] /\ \A i \in 1 .. n : f[i] = con.coeffs[i] * ArgAt(cols, con.xs[i], y)
    BY <1>10
<1>12. vs \in [1 .. n -> Int] /\ \A i \in 1 .. n : vs[i] = ArgAt(cols, con.xs[i], y)
    BY <1>1, <1>3
<1> HIDE DEF f, g, n
<1>13. Numbers(f) /\ Len(f) = n
    BY <1>1, <1>11, NumbersOf
<1>14. Dot(con, x) = Total(f)
    <2>1. Dot(con, x) = Weighted(con.coeffs, vs)
        BY DEF Dot, n
    <2> HIDE DEF vs
    <2>2. Len(vs) = n
        BY <1>1, <1>12, SeqOfValues
    <2>3. [i \in 1 .. Len(vs) |-> con.coeffs[i] * vs[i]] = f
        BY <1>12, <2>2 DEF f
    <2> QED BY <2>1, <2>3 DEF Weighted
<1>15. \A i \in 1 .. Len(f) : g[i] = f[i]
    <2> TAKE i \in 1 .. Len(f)
    <2>1. i \in 1 .. n /\ i \in 1 .. Len(ts)
        BY <1>1, <1>7, <1>13
    <2>2. g[i] = TermAt(cols, Term(con.coeffs[i], con.xs[i]), y)
        BY <1>7, <1>8, <1>9, <2>1
    <2>3. TermAt(cols, Term(con.coeffs[i], con.xs[i]), y) = con.coeffs[i] * ArgAt(cols, con.xs[i], y) + 0
        BY DEF TermAt, Term
    <2>4. con.coeffs[i] * ArgAt(cols, con.xs[i], y) \in Int
        BY <1>10, <2>1
    <2> QED BY <1>11, <2>1, <2>2, <2>3, <2>4
<1>16. g[n + 1] = -1 * ArgAt(cols, con.rhs, y) + 0
    <2>1. n + 1 \in 1 .. Len(ts)
        BY <1>1, <1>7
    <2>2. g[n + 1] = TermAt(cols, Term(-1, con.rhs), y)
        BY <1>6, <1>7, <1>9, <2>1
    <2>3. PICK t : t = Term(-1, con.rhs)
        OBVIOUS
    <2>4. t.coef = -1 /\ t.arg = con.rhs /\ t.constant = 0
        BY <2>3 DEF Term
    <2>5. TermAt(cols, t, y) = t.coef * ArgAt(cols, t.arg, y) + t.constant
        BY DEF TermAt
    <2>6. ArgAt(cols, con.rhs, y) \in Int
        BY <1>3
    <2>7. PICK v : v = ArgAt(cols, con.rhs, y)
        OBVIOUS
    <2>8. TermAt(cols, t, y) = (-1) * v + 0
        BY <2>4, <2>5, <2>7
    <2> QED BY <2>2, <2>3, <2>6, <2>7, <2>8
<1>17. Total(g) = Total(f) + g[n + 1]
    <2>1. Len(g) = Len(f) + 1
        BY <1>7, <1>9, <1>13
    <2> QED BY <1>9, <1>13, <1>15, <2>1, TotalMore
<1>18. Total(f) \in Int
    BY <1>13, TotalType
<1>19. Value(con.rhs, x) = ArgAt(cols, con.rhs, y) /\ ArgAt(cols, con.rhs, y) \in Int
    BY <1>3
<1>20. TermsAt(cols, ts, y) = Total(g)
    BY DEF TermsAt, g
<1>21. Total(g) = Dot(con, x) - Value(con.rhs, x)
    BY <1>14, <1>16, <1>17, <1>18, <1>19
<1> QED BY <1>14, <1>18, <1>19, <1>20, <1>21 DEF x, ts, cols

LEMMA LinearMeans ==
    ASSUME NEW con, WellFormed(con, model), con.ident \in Linear \cup FloatLinear, NEW y, Fits(y)
    PROVE  PlanSays(model.column, LinearPlan(con), y)
               <=> SaysAs("linear", con, Decided(model.column, Decisions, y))
<1> DEFINE x == Decided(model.column, Decisions, y)
           lhs == TermsAt(model.column, Append(WeightedSum(con), Term(-1, con.rhs)), y)
<1>1. Dot(con, x) \in Int /\ Value(con.rhs, x) \in Int /\ lhs = Dot(con, x) - Value(con.rhs, x)
    BY SumTermsAre DEF WellFormed
<1>2. SenseOf(con.ident) \in Senses
    BY DEF SenseOf, Senses
<1>3. PlanSays(model.column, LinearPlan(con), y) <=> Compares(lhs, SenseOf(con.ident), 0)
    BY DEF PlanSays, LinearPlan, Plan
<1>4. SaysAs("linear", con, x) <=> Compares(Dot(con, x), SenseOf(con.ident), Value(con.rhs, x))
    BY DEF SaysAs
<1> HIDE DEF x, lhs
<1>5. lhs \in Int /\ 0 \in Int /\ lhs - 0 = Dot(con, x) - Value(con.rhs, x)
    BY <1>1
<1>6. Compares(lhs, SenseOf(con.ident), 0) <=> Compares(Dot(con, x), SenseOf(con.ident), Value(con.rhs, x))
    <2>1. PICK l, a, b, sense : l = lhs /\ a = Dot(con, x) /\ b = Value(con.rhs, x)
                                /\ sense = SenseOf(con.ident)
        OBVIOUS
    <2>2. l \in Int /\ 0 \in Int /\ a \in Int /\ b \in Int /\ sense \in Senses /\ l - 0 = a - b
        BY <1>1, <1>2, <1>5, <2>1
    <2>3. Compares(l, sense, 0) <=> Compares(a, sense, b)
        BY <2>2, ComparesMoved
    <2> QED BY <2>1, <2>3
<1> QED BY <1>3, <1>4, <1>6 DEF x

LEMMA ImpliedMeans ==
    ASSUME NEW con, WellFormed(con, model), con.ident \in Implied \cup FloatImplied, NEW y, Fits(y),
           Len(intervals) \in Nat, ~(IsLiteral(con.b) /\ con.b.v = 0)
    PROVE  PlanSays(model.column, ImpliedPlan(con), y)
               <=> SaysAs("implied", con, Decided(model.column, Decisions, y))
<1> DEFINE x == Decided(model.column, Decisions, y)
           lhs == TermsAt(model.column, Append(WeightedSum(con), Term(-1, con.rhs)), y)
           bin == IF IsLiteral(con.b) THEN 0 ELSE ColumnArg(con.b)
           says == Compares(Dot(con, x), SenseOf(con.ident), Value(con.rhs, x))
<1>1. Dot(con, x) \in Int /\ Value(con.rhs, x) \in Int /\ lhs = Dot(con, x) - Value(con.rhs, x)
    BY SumTermsAre DEF WellFormed
<1>2. SenseOf(con.ident) \in Senses
    BY DEF SenseOf, Senses
<1>3. PlanSays(model.column, ImpliedPlan(con), y)
         <=> ((bin = 0 \/ y[bin] = 1) => Compares(lhs, SenseOf(con.ident), 0))
    <2>1. LiteralOf(con.rhs) = con.rhs
        BY DEF WellFormed, LiteralOf
    <2> QED BY <2>1 DEF PlanSays, ImpliedPlan, Plan
<1>4. SaysAs("implied", con, x) <=> (Value(con.b, x) = 1 => says)
    BY DEF SaysAs
<1>5. Value(con.b, x) = 1 <=> (bin = 0 \/ y[bin] = 1)
    <2>1. con.b \in Truths(model)
        BY DEF WellFormed
    <2>2. CASE IsLiteral(con.b)
        <3>1. con.b.v \in {0, 1}
            <4>1. CASE con.b \in [is : {"decision"}, v : {d \in 1 .. Len(model.column) : model.boolean[d]}]
                <5>1. con.b.is = "decision"
                    BY <4>1
                <5> QED BY <2>2, <5>1 DEF IsLiteral
            <4>2. CASE con.b \in [is : {"literal"}, v : {0, 1}]
                BY <4>2
            <4> QED BY <2>1, <4>1, <4>2 DEF Truths
        <3>2. con.b.v = 1
            BY <2>2, <3>1
        <3>3. Value(con.b, x) = 1
            BY <2>2, <3>2 DEF Value
        <3>4. bin = 0
            BY <2>2
        <3> QED BY <3>3, <3>4
    <2>3. CASE ~IsLiteral(con.b)
        <3>1. con.b.is = "decision" /\ con.b.v \in Decisions
            <4>1. CASE con.b \in [is : {"decision"}, v : {d \in 1 .. Len(model.column) : model.boolean[d]}]
                BY <4>1 DEF Decisions
            <4>2. CASE con.b \in [is : {"literal"}, v : {0, 1}]
                <5>1. con.b.is = "literal"
                    BY <4>2
                <5> QED BY <2>3, <5>1 DEF IsLiteral
            <4> QED BY <2>1, <4>1, <4>2 DEF Truths
        <3>2. bin = model.column[con.b.v]
            BY <2>3, <3>1 DEF ColumnArg, ColumnOf
        <3>3. bin \in 1 .. Len(intervals)
            BY <3>1, <3>2 DEF Fits, ColsIn
        <3>4. Value(con.b, x) = y[bin]
            <4> HIDE DEF bin
            <4> QED BY <2>3, <3>1, <3>2 DEF Value, Decided
        <3>5. bin # 0
            <4> HIDE DEF bin
            <4> QED BY <3>3
        <3> HIDE DEF bin
        <3> QED BY <3>4, <3>5
    <2> QED BY <2>2, <2>3
<1> HIDE DEF x, lhs, bin
<1>6. lhs \in Int /\ 0 \in Int /\ lhs - 0 = Dot(con, x) - Value(con.rhs, x)
    BY <1>1
<1>7. Compares(lhs, SenseOf(con.ident), 0) <=> says
    <2>1. PICK l, a, b, sense : l = lhs /\ a = Dot(con, x) /\ b = Value(con.rhs, x)
                                /\ sense = SenseOf(con.ident)
        OBVIOUS
    <2>2. l \in Int /\ 0 \in Int /\ a \in Int /\ b \in Int /\ sense \in Senses /\ l - 0 = a - b
        BY <1>1, <1>2, <1>6, <2>1
    <2>3. Compares(l, sense, 0) <=> Compares(a, sense, b)
        BY <2>2, ComparesMoved
    <2> QED BY <2>1, <2>3
<1> HIDE DEF says
<1> QED BY <1>3, <1>4, <1>5, <1>7 DEF x

\* A row of two terms.
LEMMA PairTermsAre ==
    ASSUME NEW a \in Int, NEW p \in Arguments(model), NEW b \in Int, NEW q \in Arguments(model),
           NEW y, Fits(y)
    PROVE  TermsAt(model.column, <<Term(a, p), Term(b, q)>>, y)
              = a * ArgAt(model.column, p, y) + b * ArgAt(model.column, q, y)
<1> DEFINE cols == model.column
           U == 1 .. Len(intervals)
           T == TermsOver(Decisions, U)
<1>1. /\ y \in [U -> Int] /\ ColsIn(cols, Decisions, U) /\ \A d \in Decisions : y[cols[d]] \in Int
    BY DEF Fits
<1>2. Term(a, p) \in T /\ Term(b, q) \in T
    BY TermTypes, ArgumentsAreArgs
<1>3. ArgAt(cols, p, y) \in Int /\ ArgAt(cols, q, y) \in Int
    BY <1>1, ValueIs
<1> HIDE DEF T, U, cols
<1>4. PICK s, t, ts : s = Term(a, p) /\ t = Term(b, q) /\ ts = <<s, t>>
    OBVIOUS
<1>5. ts \in Seq(T) /\ Len(ts) = 2 /\ ts[1] = s /\ ts[2] = t
    BY <1>2, <1>4
<1>6. /\ Numbers(TermValues(cols, ts, y)) /\ Len(TermValues(cols, ts, y)) = Len(ts)
      /\ \A i \in 1 .. Len(ts) : TermValues(cols, ts, y)[i] = TermAt(cols, ts[i], y)
    BY <1>1, <1>5, TermValuesAre DEF T
<1>7. PICK f : f = TermValues(cols, ts, y)
    OBVIOUS
<1>8. Total(f) = f[1] + f[2]
    BY <1>5, <1>6, <1>7, TotalTwo
<1>9. f[1] = TermAt(cols, s, y) /\ f[2] = TermAt(cols, t, y)
    BY <1>5, <1>6, <1>7
<1>10. PICK v, w : v = ArgAt(cols, p, y) /\ w = ArgAt(cols, q, y)
    OBVIOUS
<1>11. TermAt(cols, s, y) = a * v + 0 /\ TermAt(cols, t, y) = b * w + 0
    BY <1>4, <1>10 DEF TermAt, Term
<1>12. a * v \in Int /\ b * w \in Int
    BY <1>3, <1>10
<1>13. Total(f) = a * v + b * w
    BY <1>8, <1>9, <1>11, <1>12
<1>14. TermsAt(cols, ts, y) = Total(f)
    BY <1>7 DEF TermsAt
<1> QED BY <1>4, <1>10, <1>13, <1>14 DEF cols

LEMMA EqualMeans ==
    ASSUME NEW con, WellFormed(con, model), con.ident \in {"bool_to_int", "int_to_float"},
           NEW y, Fits(y)
    PROVE  PlanSays(model.column, EqualPlan(con), y)
               <=> SaysAs("equal", con, Decided(model.column, Decisions, y))
<1> DEFINE x == Decided(model.column, Decisions, y)
           lhs == TermsAt(model.column, <<Term(1, con.a), Term(-1, con.b)>>, y)
           a == ArgAt(model.column, con.a, y)
           b == ArgAt(model.column, con.b, y)
<1>1. con.a \in Arguments(model) /\ con.b \in Arguments(model)
    BY DEF WellFormed
<1>2. \A d \in Decisions : y[model.column[d]] \in Int
    BY DEF Fits
<1>3. a \in Int /\ b \in Int /\ Value(con.a, x) = a /\ Value(con.b, x) = b
    BY <1>1, <1>2, ValueIs
<1>4. 1 \in Int /\ -1 \in Int
    OBVIOUS
<1>5. lhs = 1 * a + (-1) * b
    <2>1. PICK u \in Int, v \in Int : u = 1 /\ v = -1
        BY <1>4
    <2>2. TermsAt(model.column, <<Term(u, con.a), Term(v, con.b)>>, y) = u * a + v * b
        BY <1>1, PairTermsAre
    <2> QED BY <2>1, <2>2
<1>6. PlanSays(model.column, EqualPlan(con), y) <=> Compares(lhs, "eq", 0)
    BY DEF PlanSays, EqualPlan, Plan
<1>7. SaysAs("equal", con, x) <=> Value(con.a, x) = Value(con.b, x)
    BY DEF SaysAs
<1> HIDE DEF lhs, x, a, b
<1>8. lhs \in Int /\ (lhs = 0 <=> a = b)
    BY <1>3, <1>5
<1>9. Compares(lhs, "eq", 0) <=> lhs = 0
    <2>1. 0 \in Int
        OBVIOUS
    <2> QED BY <1>8, <2>1, ComparesIs
<1> QED BY <1>3, <1>6, <1>7, <1>8, <1>9 DEF x

LEMMA ProductMeans ==
    ASSUME NEW con, WellFormed(con, model), con.ident \in Times \cup FloatTimes, NEW y, Fits(y),
           IsLiteral(con.a) \/ IsLiteral(con.b)
    PROVE  PlanSays(model.column, ProductPlan(con), y)
               <=> SaysAs("times", con, Decided(model.column, Decisions, y))
<1> DEFINE x == Decided(model.column, Decisions, y)
           a == ArgAt(model.column, con.a, y)
           b == ArgAt(model.column, con.b, y)
           c == ArgAt(model.column, con.c, y)
<1>1. con.a \in Arguments(model) /\ con.b \in Arguments(model) /\ con.c \in Arguments(model)
    BY DEF WellFormed
<1>2. \A d \in Decisions : y[model.column[d]] \in Int
    BY DEF Fits
<1>3. /\ a \in Int /\ b \in Int /\ c \in Int
      /\ Value(con.a, x) = a /\ Value(con.b, x) = b /\ Value(con.c, x) = c
    BY <1>1, <1>2, ValueIs
<1>4. (IsLiteral(con.a) => con.a.v = a) /\ (IsLiteral(con.b) => con.b.v = b)
    BY DEF ArgAt
<1> HIDE DEF x, a, b, c
<1>5. PICK lhs : lhs = TermsAt(model.column, ProductPlan(con).terms, y)
    OBVIOUS
<1>6. lhs = a * b + (-1) * c
    <2>1. CASE IsLiteral(con.a)
        <3>1. ProductPlan(con).terms = <<Term(con.a.v, con.b), Term(-1, con.c)>>
            BY <2>1 DEF ProductPlan, Plan
        <3>2. con.a.v \in Int /\ -1 \in Int
            BY <1>3, <1>4, <2>1
        <3>3. lhs = con.a.v * ArgAt(model.column, con.b, y) + (-1) * ArgAt(model.column, con.c, y)
            BY <1>1, <1>5, <3>1, <3>2, PairTermsAre
        <3> QED BY <1>4, <2>1, <3>3 DEF b, c
    <2>2. CASE ~IsLiteral(con.a)
        <3>1. ProductPlan(con).terms = <<Term(con.b.v, con.a), Term(-1, con.c)>>
            BY <2>2 DEF ProductPlan, Plan
        <3>2. con.b.v \in Int /\ -1 \in Int
            BY <1>3, <1>4, <2>2
        <3>3. lhs = con.b.v * ArgAt(model.column, con.a, y) + (-1) * ArgAt(model.column, con.c, y)
            BY <1>1, <1>5, <3>1, <3>2, PairTermsAre
        <3>4. lhs = b * a + (-1) * c
            BY <1>4, <2>2, <3>3 DEF a, c
        <3> QED BY <1>3, <3>4
    <2> QED BY <2>1, <2>2
<1>7. PlanSays(model.column, ProductPlan(con), y) <=> Compares(lhs, "eq", 0)
    <2>1. ProductPlan(con).bin = 0 /\ ProductPlan(con).sense = "eq" /\ ProductPlan(con).rhs = 0
        BY DEF ProductPlan, Plan
    <2> QED BY <1>5, <2>1 DEF PlanSays
<1>8. SaysAs("times", con, x) <=> Value(con.a, x) * Value(con.b, x) = Value(con.c, x)
    BY DEF SaysAs
<1>9. PICK w : w = a * b
    OBVIOUS
<1>10. w \in Int
    BY <1>3, <1>9
<1>11. lhs \in Int /\ (lhs = 0 <=> w = c)
    BY <1>3, <1>6, <1>9, <1>10
<1>12. Compares(lhs, "eq", 0) <=> lhs = 0
    <2>1. 0 \in Int
        OBVIOUS
    <2> QED BY <1>11, <2>1, ComparesIs
<1> QED BY <1>3, <1>7, <1>8, <1>9, <1>11, <1>12 DEF x

LEMMA QuadraticMeans ==
    ASSUME DInv, Ready, NEW con, WellFormed(con, model), con.ident \in Times \cup FloatTimes,
           NEW y, Fits(y), ~IsLiteral(con.a), ~IsLiteral(con.b)
    PROVE  RowHolds(ProductGiven(con), y) <=> SaysAs("times", con, Decided(model.column, Decisions, y))
<1> DEFINE x == Decided(model.column, Decisions, y)
           a == ArgAt(model.column, con.a, y)
           b == ArgAt(model.column, con.b, y)
           c == ArgAt(model.column, con.c, y)
           out == IF IsLiteral(con.c) THEN 0 ELSE ColumnArg(con.c)
           r == IF IsLiteral(con.c) THEN con.c.v ELSE 0
<1>1. con.a \in Arguments(model) /\ con.b \in Arguments(model) /\ con.c \in Arguments(model)
    BY DEF WellFormed
<1>2. \A d \in Decisions : y[model.column[d]] \in Int
    BY DEF Fits
<1>3. /\ a \in Int /\ b \in Int /\ c \in Int
      /\ Value(con.a, x) = a /\ Value(con.b, x) = b /\ Value(con.c, x) = c
    BY <1>1, <1>2, ValueIs
<1>4. \A arg \in Arguments(model) : ~IsLiteral(arg) => ArgAt(model.column, arg, y) = y[ColumnArg(arg)]
    BY ArgumentsName DEF ArgAt, ColumnArg, ColumnOf
<1>5. RowHolds(ProductGiven(con), y)
         <=> y[ColumnArg(con.a)] * y[ColumnArg(con.b)] - (IF out = 0 THEN 0 ELSE y[out]) = r
    BY DEF RowHolds, ProductGiven
<1>6. a = y[ColumnArg(con.a)] /\ b = y[ColumnArg(con.b)]
    BY <1>1, <1>4
<1>7. \/ out = 0 /\ r = c
      \/ out # 0 /\ y[out] = c /\ r = 0
    <2>1. CASE IsLiteral(con.c)
        BY <2>1 DEF ArgAt
    <2>2. CASE ~IsLiteral(con.c)
        <3>1. ColumnArg(con.c) \in 1 .. Len(intervals) /\ Len(intervals) \in Nat
            BY <1>1, <2>2, ArgumentsName, ReadyColumns
        <3>2. ColumnArg(con.c) # 0
            BY <3>1
        <3>3. c = y[ColumnArg(con.c)]
            BY <1>1, <1>4, <2>2
        <3> QED BY <2>2, <3>2, <3>3
    <2> QED BY <2>1, <2>2
<1>8. SaysAs("times", con, x) <=> Value(con.a, x) * Value(con.b, x) = Value(con.c, x)
    BY DEF SaysAs
<1> HIDE DEF x, a, b, c, out, r
<1>9. PICK w : w = a * b
    OBVIOUS
<1>10. w \in Int
    BY <1>3, <1>9
<1>11. RowHolds(ProductGiven(con), y) <=> w - (IF out = 0 THEN 0 ELSE y[out]) = r
    BY <1>5, <1>6, <1>9
<1>12. w - (IF out = 0 THEN 0 ELSE y[out]) = r <=> w = c
    <2>1. CASE out = 0 /\ r = c
        BY <1>3, <1>10, <2>1
    <2>2. CASE out # 0 /\ y[out] = c /\ r = 0
        <3>1. w - c = 0 <=> w = c
            BY <1>3, <1>10
        <3> QED BY <2>2, <3>1
    <2> QED BY <1>7, <2>1, <2>2
<1> QED BY <1>3, <1>8, <1>9, <1>11, <1>12 DEF x

\* The terms of a clause: 1 for a literal that is true, 0 for one that is not.
LEMMA ClauseTermsAre ==
    ASSUME NEW con, con.pos \in Seq(Truths(model)), con.neg \in Seq(Truths(model)), NEW y, Fits(y)
    PROVE  LET ts == ClausePlan(con).terms
               v(i) == TermAt(model.column, ts[i], y)
           IN  /\ Len(ts) = Len(con.pos) + Len(con.neg)
               /\ \A i \in 1 .. Len(con.pos) :
                     ts[i] = Term(1, con.pos[i]) /\ v(i) = ArgAt(model.column, con.pos[i], y)
               /\ \A i \in 1 .. Len(con.neg) :
                     /\ ts[Len(con.pos) + i] = NegatedTerm(con.neg[i])
                     /\ v(Len(con.pos) + i) = 1 - ArgAt(model.column, con.neg[i], y)
               /\ \A i \in 1 .. Len(ts) : v(i) \in {0, 1}
<1> DEFINE cols == model.column
           n == Len(con.pos)
           m == Len(con.neg)
           p == [i \in 1 .. n |-> Term(1, con.pos[i])]
           q == [i \in 1 .. m |-> NegatedTerm(con.neg[i])]
<1>1. /\ n \in Nat /\ m \in Nat
      /\ (\A i \in 1 .. n : con.pos[i] \in Truths(model)) /\ \A i \in 1 .. m : con.neg[i] \in Truths(model)
    OBVIOUS
<1>2. \A arg \in Truths(model) : ArgAt(cols, arg, y) \in {0, 1}
    BY TruthIs DEF Fits
<1>3. PICK ts : ts = ClausePlan(con).terms
    OBVIOUS
<1>4. ts = p \o q
    BY <1>3 DEF ClausePlan, Plan
<1>5. p \in [1 .. n -> {p[i] : i \in 1 .. n} \cup {q[i] : i \in 1 .. m}]
      /\ q \in [1 .. m -> {p[i] : i \in 1 .. n} \cup {q[i] : i \in 1 .. m}]
    OBVIOUS
<1>6. (\A i \in 1 .. n : p[i] = Term(1, con.pos[i])) /\ \A i \in 1 .. m : q[i] = NegatedTerm(con.neg[i])
    OBVIOUS
<1> HIDE DEF p, q, n, m, cols
<1>7. PICK S : S = {p[i] : i \in 1 .. n} \cup {q[i] : i \in 1 .. m}
    OBVIOUS
<1>8. p \in Seq(S) /\ Len(p) = n /\ q \in Seq(S) /\ Len(q) = m
    <2>1. p \in [1 .. n -> S] /\ q \in [1 .. m -> S]
        BY <1>5, <1>7
    <2> QED BY <1>1, <2>1, SeqOfValues
<1>9. /\ Len(ts) = n + m /\ (\A i \in 1 .. n : ts[i] = p[i]) /\ \A i \in 1 .. m : ts[n + i] = q[i]
    <2>1. PICK s, t : s = p /\ t = q
        OBVIOUS
    <2>2. s \in Seq(S) /\ t \in Seq(S)
        BY <1>8, <2>1
    <2>3. /\ Len(s \o t) = Len(s) + Len(t) /\ (\A i \in 1 .. Len(s) : (s \o t)[i] = s[i])
          /\ \A i \in 1 .. Len(t) : (s \o t)[Len(s) + i] = t[i]
        BY <2>2, Joined
    <2> QED BY <1>4, <1>8, <2>1, <2>3
<1>10. ASSUME NEW i \in 1 .. n
       PROVE  /\ ts[i] = Term(1, con.pos[i]) /\ TermAt(cols, ts[i], y) = ArgAt(cols, con.pos[i], y)
              /\ TermAt(cols, ts[i], y) \in {0, 1}
    <2>1. PICK arg : arg = con.pos[i]
        OBVIOUS
    <2>2. ts[i] = Term(1, arg) /\ ArgAt(cols, arg, y) \in {0, 1}
        BY <1>1, <1>2, <1>6, <1>9, <2>1
    <2>3. TermAt(cols, Term(1, arg), y) = 1 * ArgAt(cols, arg, y) + 0
        BY DEF TermAt, Term
    <2>4. TermAt(cols, Term(1, arg), y) = ArgAt(cols, arg, y)
        BY <2>2, <2>3
    <2> QED BY <2>1, <2>2, <2>4
<1>11. ASSUME NEW i \in 1 .. m
       PROVE  /\ ts[n + i] = NegatedTerm(con.neg[i])
              /\ TermAt(cols, ts[n + i], y) = 1 - ArgAt(cols, con.neg[i], y)
              /\ TermAt(cols, ts[n + i], y) \in {0, 1}
    <2>1. PICK arg : arg = con.neg[i]
        OBVIOUS
    <2>2. ts[n + i] = NegatedTerm(arg) /\ ArgAt(cols, arg, y) \in {0, 1}
        BY <1>1, <1>2, <1>6, <1>9, <2>1
    <2>3. TermAt(cols, NegatedTerm(arg), y) = (-1) * ArgAt(cols, arg, y) + 1
        BY DEF TermAt, NegatedTerm
    <2>4. PICK v : v = ArgAt(cols, arg, y)
        OBVIOUS
    <2>5. v \in {0, 1}
        BY <2>2, <2>4
    <2>6. (-1) * v + 1 = 1 - v /\ 1 - v \in {0, 1}
        BY <2>5
    <2> QED BY <2>1, <2>2, <2>3, <2>4, <2>6
<1>12. \A i \in 1 .. Len(ts) : i \in 1 .. n \/ (i - n \in 1 .. m /\ n + (i - n) = i)
    BY <1>1, <1>9
<1>13. \A i \in 1 .. Len(ts) : TermAt(cols, ts[i], y) \in {0, 1}
    BY <1>10, <1>11, <1>12
<1> QED BY <1>3, <1>9, <1>10, <1>11, <1>13 DEF n, m, cols

LEMMA ClauseMeans ==
    ASSUME NEW con, WellFormed(con, model), con.ident = "bool_clause", NEW y, Fits(y)
    PROVE  PlanSays(model.column, ClausePlan(con), y)
               <=> SaysAs("clause", con, Decided(model.column, Decisions, y))
<1> DEFINE x == Decided(model.column, Decisions, y)
           cols == model.column
           v(i) == TermAt(cols, ClausePlan(con).terms[i], y)
<1>1. con.pos \in Seq(Truths(model)) /\ con.neg \in Seq(Truths(model))
    BY DEF WellFormed
<1>2. PICK n, m : n = Len(con.pos) /\ m = Len(con.neg)
    OBVIOUS
<1>3. /\ n \in Nat /\ m \in Nat /\ DOMAIN con.pos = 1 .. n /\ DOMAIN con.neg = 1 .. m
      /\ (\A i \in 1 .. n : con.pos[i] \in Truths(model)) /\ \A i \in 1 .. m : con.neg[i] \in Truths(model)
    BY <1>1, <1>2
<1>4. PICK ts : ts = ClausePlan(con).terms
    OBVIOUS
<1>5. /\ Len(ts) = n + m
      /\ \A i \in 1 .. n : TermAt(cols, ts[i], y) = ArgAt(cols, con.pos[i], y)
      /\ \A i \in 1 .. m : TermAt(cols, ts[n + i], y) = 1 - ArgAt(cols, con.neg[i], y)
      /\ \A i \in 1 .. Len(ts) : TermAt(cols, ts[i], y) \in {0, 1}
    BY <1>1, <1>2, <1>4, ClauseTermsAre
<1>6. /\ \A i \in 1 .. n : Value(con.pos[i], x) = ArgAt(cols, con.pos[i], y)
      /\ \A i \in 1 .. m : Value(con.neg[i], x) = ArgAt(cols, con.neg[i], y)
                           /\ ArgAt(cols, con.neg[i], y) \in Int
    <2>1. \A d \in Decisions : y[cols[d]] \in Int
        BY DEF Fits
    <2>2. \A arg \in Truths(model) :
              Value(arg, x) = ArgAt(cols, arg, y) /\ ArgAt(cols, arg, y) \in Int
        BY <2>1, ValueIs, ArgumentsAreArgs
    <2> HIDE DEF x, cols
    <2> QED BY <1>3, <2>2
<1>7. /\ Numbers(TermValues(cols, ts, y)) /\ Len(TermValues(cols, ts, y)) = Len(ts)
      /\ \A i \in 1 .. Len(ts) : TermValues(cols, ts, y)[i] = TermAt(cols, ts[i], y)
    <2>1. ClausePlan(con) \in PlansOver(Decisions, 1 .. Len(intervals))
        BY <1>1, ClausePlanType
    <2>2. ts \in Seq(TermsOver(Decisions, 1 .. Len(intervals)))
        BY <1>4, <2>1 DEF PlansOver
    <2>3. y \in [1 .. Len(intervals) -> Int] /\ ColsIn(cols, Decisions, 1 .. Len(intervals))
        BY DEF Fits
    <2> HIDE DEF cols
    <2> QED BY <2>2, <2>3, TermValuesAre
<1> HIDE DEF x, cols
<1>8. PICK f : f = TermValues(cols, ts, y)
    OBVIOUS
<1>9. Numbers(f) /\ Len(f) = n + m /\ \A i \in 1 .. n + m : f[i] = TermAt(cols, ts[i], y) /\ f[i] \in {0, 1}
    BY <1>5, <1>7, <1>8
<1>10. Total(f) >= 1 <=> \E i \in 1 .. n + m : f[i] >= 1
    <2>1. \A i \in 1 .. Len(f) : f[i] >= 0
        BY <1>9
    <2>2. Total(f) >= 1 <=> \E i \in 1 .. Len(f) : f[i] >= 1
        BY <1>9, <2>1, TotalPositive
    <2> QED BY <1>9, <2>2
<1>11. PlanSays(cols, ClausePlan(con), y) <=> Total(f) >= 1
    <2>1. ClausePlan(con).bin = 0 /\ ClausePlan(con).sense = "ge" /\ ClausePlan(con).rhs = 1
        BY DEF ClausePlan, Plan
    <2>2. Total(f) \in Int /\ 1 \in Int
        BY <1>9, TotalType
    <2>3. Compares(Total(f), "ge", 1) <=> Total(f) >= 1
        BY <2>2, ComparesIs
    <2>4. PlanSays(cols, ClausePlan(con), y) <=> Compares(Total(f), "ge", 1)
        BY <1>4, <1>8, <2>1 DEF PlanSays, TermsAt
    <2> QED BY <2>3, <2>4
<1>12. ASSUME NEW i \in 1 .. n + m, f[i] >= 1
       PROVE  \/ \E j \in 1 .. n : Value(con.pos[j], x) = 1
              \/ \E j \in 1 .. m : Value(con.neg[j], x) = 0
    <2>1. f[i] = 1
        BY <1>9, <1>12
    <2>2. CASE i \in 1 .. n
        <3>1. Value(con.pos[i], x) = 1
            BY <1>5, <1>6, <1>9, <2>1, <2>2
        <3> QED BY <2>2, <3>1
    <2>3. CASE i \notin 1 .. n
        <3>1. PICK j \in 1 .. m : n + j = i
            <4>1. i - n \in 1 .. m /\ n + (i - n) = i
                BY <1>3, <2>3
            <4> QED BY <4>1
        <3>2. 1 = 1 - ArgAt(cols, con.neg[j], y) /\ ArgAt(cols, con.neg[j], y) \in Int
            BY <1>5, <1>6, <1>9, <2>1, <3>1
        <3>3. ArgAt(cols, con.neg[j], y) = 0
            BY <3>2
        <3>4. Value(con.neg[j], x) = 0
            BY <1>6, <3>1, <3>3
        <3> QED BY <3>1, <3>4
    <2> QED BY <2>2, <2>3
<1>13. ASSUME NEW j \in 1 .. n, Value(con.pos[j], x) = 1
       PROVE  \E i \in 1 .. n + m : f[i] >= 1
    <2>1. j \in 1 .. n + m
        BY <1>3
    <2>2. f[j] = 1
        BY <1>5, <1>6, <1>9, <1>13, <2>1
    <2> QED BY <2>1, <2>2
<1>14. ASSUME NEW j \in 1 .. m, Value(con.neg[j], x) = 0
       PROVE  \E i \in 1 .. n + m : f[i] >= 1
    <2>1. n + j \in 1 .. n + m
        BY <1>3
    <2>2. f[n + j] = 1 - 0
        BY <1>5, <1>6, <1>9, <1>14, <2>1
    <2> QED BY <2>1, <2>2
<1>15. SaysAs("clause", con, x) <=> \/ \E j \in 1 .. n : Value(con.pos[j], x) = 1
                                    \/ \E j \in 1 .. m : Value(con.neg[j], x) = 0
    BY <1>3 DEF SaysAs
<1> QED BY <1>10, <1>11, <1>12, <1>13, <1>14, <1>15 DEF x, cols

\* A clause with a literal that is true holds whatever the other literals are.
LEMMA SatisfiedClause ==
    ASSUME NEW con, con.pos \in Seq(Truths(model)), con.neg \in Seq(Truths(model)), NEW y, Fits(y),
           NEW j \in 1 .. Len(ClausePlan(con).terms), IsLiteral(ClausePlan(con).terms[j].arg),
           ClausePlan(con).terms[j].arg.v # ClausePlan(con).terms[j].constant
    PROVE  PlanSays(model.column, ClausePlan(con), y)
<1> DEFINE cols == model.column
<1>1. PICK ts : ts = ClausePlan(con).terms
    OBVIOUS
<1>2. PICK n, m : n = Len(con.pos) /\ m = Len(con.neg)
    OBVIOUS
<1>3. /\ n \in Nat /\ m \in Nat
      /\ (\A i \in 1 .. n : con.pos[i] \in Truths(model)) /\ \A i \in 1 .. m : con.neg[i] \in Truths(model)
    BY <1>2
<1>4. /\ Len(ts) = n + m
      /\ \A i \in 1 .. n : ts[i] = Term(1, con.pos[i]) /\ TermAt(cols, ts[i], y) = ArgAt(cols, con.pos[i], y)
      /\ \A i \in 1 .. m : /\ ts[n + i] = NegatedTerm(con.neg[i])
                           /\ TermAt(cols, ts[n + i], y) = 1 - ArgAt(cols, con.neg[i], y)
      /\ \A i \in 1 .. Len(ts) : TermAt(cols, ts[i], y) \in {0, 1}
    BY <1>1, <1>2, ClauseTermsAre
<1>5. j \in 1 .. Len(ts) /\ IsLiteral(ts[j].arg) /\ ts[j].arg.v # ts[j].constant
    BY <1>1
<1>6. \A arg \in Truths(model) : IsLiteral(arg) => arg.v \in {0, 1} /\ ArgAt(cols, arg, y) = arg.v
    <2>1. \A arg \in Truths(model) : ArgAt(cols, arg, y) \in {0, 1}
        BY TruthIs DEF Fits
    <2> QED BY <2>1 DEF ArgAt
<1> HIDE DEF cols
<1>7. TermAt(cols, ts[j], y) = 1
    <2>1. CASE j \in 1 .. n
        <3>1. PICK arg \in Truths(model) : arg = con.pos[j]
            BY <1>3, <2>1
        <3>2. ts[j].arg = arg /\ ts[j].constant = 0
            <4>1. ts[j] = Term(1, arg)
                BY <1>4, <2>1, <3>1
            <4> QED BY <4>1 DEF Term
        <3>3. arg.v \in {0, 1} /\ arg.v # 0 /\ ArgAt(cols, arg, y) = arg.v
            BY <1>5, <1>6, <3>2
        <3> QED BY <1>4, <2>1, <3>1, <3>3
    <2>2. CASE j \notin 1 .. n
        <3>1. PICK i \in 1 .. m : n + i = j
            <4>1. j - n \in 1 .. m /\ n + (j - n) = j
                BY <1>3, <1>4, <1>5, <2>2
            <4> QED BY <4>1
        <3>2. PICK arg \in Truths(model) : arg = con.neg[i]
            BY <1>3, <3>1
        <3>3. ts[j].arg = arg /\ ts[j].constant = 1
            <4>1. ts[j] = NegatedTerm(arg)
                BY <1>4, <3>1, <3>2
            <4> QED BY <4>1 DEF NegatedTerm
        <3>4. arg.v \in {0, 1} /\ arg.v # 1 /\ ArgAt(cols, arg, y) = arg.v
            BY <1>5, <1>6, <3>3
        <3>5. TermAt(cols, ts[j], y) = 1 - ArgAt(cols, arg, y)
            BY <1>4, <3>1, <3>2
        <3>6. arg.v = 0
            BY <3>4
        <3> QED BY <3>4, <3>5, <3>6
    <2> QED BY <2>1, <2>2
<1>8. /\ Numbers(TermValues(cols, ts, y)) /\ Len(TermValues(cols, ts, y)) = Len(ts)
      /\ \A i \in 1 .. Len(ts) : TermValues(cols, ts, y)[i] = TermAt(cols, ts[i], y)
    <2>1. ClausePlan(con) \in PlansOver(Decisions, 1 .. Len(intervals))
        BY ClausePlanType
    <2>2. ts \in Seq(TermsOver(Decisions, 1 .. Len(intervals)))
        BY <1>1, <2>1 DEF PlansOver
    <2>3. y \in [1 .. Len(intervals) -> Int] /\ ColsIn(cols, Decisions, 1 .. Len(intervals))
        BY DEF Fits, cols
    <2> QED BY <2>2, <2>3, TermValuesAre, SMTT(30)
<1>9. PICK f : f = TermValues(cols, ts, y)
    OBVIOUS
<1>10. Numbers(f) /\ Len(f) = Len(ts) /\ (\A i \in 1 .. Len(f) : f[i] >= 0) /\ f[j] >= 1 /\ j \in 1 .. Len(f)
    <2>1. Len(f) = Len(ts) /\ \A i \in 1 .. Len(ts) : f[i] \in {0, 1}
        BY <1>4, <1>8, <1>9
    <2>2. f[j] = 1
        BY <1>5, <1>7, <1>8, <1>9
    <2>3. \A i \in 1 .. Len(f) : f[i] >= 0
        BY <2>1
    <2> QED BY <1>5, <1>8, <1>9, <2>1, <2>2, <2>3
<1>11. Total(f) >= 1 /\ Total(f) \in Int
    BY <1>10, TotalPositive, TotalType
<1>12. Compares(Total(f), "ge", 1)
    <2>1. 1 \in Int
        OBVIOUS
    <2> QED BY <1>11, <2>1, ComparesIs
<1>13. ClausePlan(con).sense = "ge" /\ ClausePlan(con).rhs = 1
    BY DEF ClausePlan, Plan
<1> QED BY <1>1, <1>9, <1>12, <1>13 DEF PlanSays, TermsAt, cols

-----------------------------------------------------------------------------
(***************************************************************************)
(* What was given and what is still queued, together, say the same from    *)
(* row to row.                                                             *)
(***************************************************************************)
AllHold(cols, gs, ps, Y) ==
    /\ \A i \in 1 .. Len(gs) : RowHolds(gs[i], Y)
    /\ \A i \in 1 .. Len(ps) : PlanSays(cols, ps[i], Y)

\* The first of the plans and the others.
LEMMA PlansFirst ==
    ASSUME NEW P, NEW ps \in Seq(P), ps # <<>>, NEW cols, NEW Y
    PROVE  (\A i \in 1 .. Len(ps) : PlanSays(cols, ps[i], Y))
              <=> /\ PlanSays(cols, Head(ps), Y)
                  /\ \A i \in 1 .. Len(Tail(ps)) : PlanSays(cols, Tail(ps)[i], Y)
<1>1. PICK rest : rest = Tail(ps)
    OBVIOUS
<1>2. /\ Len(ps) = Len(rest) + 1 /\ Len(rest) \in Nat /\ Head(ps) = ps[1]
      /\ \A i \in 1 .. Len(rest) : rest[i] = ps[i + 1]
    BY <1>1
<1>3. \A i \in 1 .. Len(ps) : i = 1 \/ (i - 1 \in 1 .. Len(rest) /\ (i - 1) + 1 = i)
    BY <1>2
<1>4. 1 \in 1 .. Len(ps) /\ \A i \in 1 .. Len(rest) : i + 1 \in 1 .. Len(ps)
    BY <1>2
<1>5. ASSUME \A i \in 1 .. Len(ps) : PlanSays(cols, ps[i], Y)
      PROVE  /\ PlanSays(cols, Head(ps), Y)
             /\ \A i \in 1 .. Len(rest) : PlanSays(cols, rest[i], Y)
    BY <1>2, <1>4, <1>5
<1>6. ASSUME PlanSays(cols, Head(ps), Y), \A i \in 1 .. Len(rest) : PlanSays(cols, rest[i], Y),
             NEW i \in 1 .. Len(ps)
      PROVE  PlanSays(cols, ps[i], Y)
    <2>1. CASE i = 1
        BY <1>2, <1>6, <2>1
    <2>2. CASE i # 1
        <3>1. PICK k \in 1 .. Len(rest) : k + 1 = i
            BY <1>3, <2>2
        <3>2. rest[k] = ps[i]
            BY <1>2, <3>1
        <3> QED BY <1>6, <3>1, <3>2
    <2> QED BY <2>1, <2>2
<1> QED BY <1>1, <1>5, <1>6

LEMMA AllHoldSkips ==
    ASSUME NEW P, NEW ps \in Seq(P), ps # <<>>, NEW cols, NEW gs, NEW Y, PlanSays(cols, Head(ps), Y)
    PROVE  AllHold(cols, gs, Tail(ps), Y) <=> AllHold(cols, gs, ps, Y)
BY PlansFirst DEF AllHold

LEMMA AllHoldPosts ==
    ASSUME NEW P, NEW ps \in Seq(P), ps # <<>>, NEW cols, NEW gs \in Seq(GivenRows), NEW r \in GivenRows,
           NEW Y, RowHolds(r, Y) <=> PlanSays(cols, Head(ps), Y)
    PROVE  AllHold(cols, Append(gs, r), Tail(ps), Y) <=> AllHold(cols, gs, ps, Y)
<1>1. PICK hs : hs = Append(gs, r)
    OBVIOUS
<1>2. /\ \A i \in 1 .. Len(hs) : (i \in 1 .. Len(gs) /\ hs[i] = gs[i]) \/ hs[i] = r
      /\ \A i \in 1 .. Len(gs) : hs[i] = gs[i] /\ i \in 1 .. Len(hs)
      /\ Len(gs) + 1 \in 1 .. Len(hs) /\ hs[Len(gs) + 1] = r
    BY <1>1, GivenGrows
<1>3. (\A i \in 1 .. Len(hs) : RowHolds(hs[i], Y)) <=> RowHolds(r, Y) /\ \A i \in 1 .. Len(gs) : RowHolds(gs[i], Y)
    <2>1. ASSUME \A i \in 1 .. Len(hs) : RowHolds(hs[i], Y)
          PROVE  RowHolds(r, Y) /\ \A i \in 1 .. Len(gs) : RowHolds(gs[i], Y)
        BY <1>2, <2>1
    <2>2. ASSUME RowHolds(r, Y), \A i \in 1 .. Len(gs) : RowHolds(gs[i], Y)
          PROVE  \A i \in 1 .. Len(hs) : RowHolds(hs[i], Y)
        BY <1>2, <2>2
    <2> QED BY <2>1, <2>2
<1>4. (\A i \in 1 .. Len(ps) : PlanSays(cols, ps[i], Y))
          <=> PlanSays(cols, Head(ps), Y) /\ \A i \in 1 .. Len(Tail(ps)) : PlanSays(cols, Tail(ps)[i], Y)
    BY PlansFirst
<1> QED BY <1>1, <1>3, <1>4 DEF AllHold

\* A row whose terms are all read says what its plan says, and one that is not posted
\* always holds.
LEMMA RowEndSays ==
    ASSUME DInv, IInv, HandInv, Balanced, phase = "terms", todo = <<>>, NEW Y \in [Used -> Int]
    PROVE  /\ RowHolds(BuiltRow, Y) <=> PlanSays(model.column, Head(queue), Y)
           /\ ~Posted => PlanSays(model.column, Head(queue), Y)
<1> DEFINE cols == model.column
<1>1. /\ ColsIn(cols, Decisions, Used) /\ idx \in Seq(Used) /\ val \in Seq(Int) /\ Len(val) = Len(idx)
      /\ Head(queue).terms \in Seq(TermsOver(Decisions, Used)) /\ Head(queue).rhs \in Int
      /\ Head(queue).sense \in Senses /\ rhs \in Int
    BY RowKnown
<1>2. PICK U, p, ix, vl, r, row : U = Used /\ p = Head(queue) /\ ix = idx /\ vl = val /\ r = rhs
                                  /\ row = RowAt(idx, val, Y)
    OBVIOUS
<1>3. row \in Int /\ Weighted(vl, [i \in 1 .. Len(ix) |-> Y[ix[i]]]) = row
    <2>1. ix \in Seq(U) /\ vl \in Seq(Int) /\ Len(vl) = Len(ix) /\ Y \in [U -> Int]
        BY <1>1, <1>2
    <2>2. RowAt(ix, vl, Y) \in Int /\ Weighted(vl, [i \in 1 .. Len(ix) |-> Y[ix[i]]]) = RowAt(ix, vl, Y)
        BY <2>1, RowValuesAre, ZenonT(30)
    <2> QED BY <1>2, <2>2
<1>4. PICK want : want = TermsAt(cols, p.terms, Y)
    OBVIOUS
<1>5. want \in Int
    BY <1>1, <1>2, <1>4, TermValuesAre
<1>6. row - r = want - p.rhs
    <2>1. Balance(cols, Used, idx, val, <<>>, rhs, Head(queue))
        BY DEF Balanced
    <2>2. RowAt(idx, val, Y) + TermsAt(cols, <<>>, Y) - rhs
             = TermsAt(cols, Head(queue).terms, Y) - Head(queue).rhs
        BY <2>1 DEF Balance
    <2>3. TermsAt(cols, <<>>, Y) = 0
        BY TermsNone
    <2> HIDE DEF cols
    <2>4. row + 0 - r = want - p.rhs
        BY <1>2, <1>4, <2>2, <2>3
    <2>5. row \in Int /\ r \in Int /\ want \in Int /\ p.rhs \in Int
        BY <1>1, <1>2, <1>3, <1>5
    <2> QED BY <2>4, <2>5
<1>7. Compares(row, p.sense, r) <=> Compares(want, p.sense, p.rhs)
    <2>1. r \in Int /\ p.rhs \in Int /\ p.sense \in Senses
        BY <1>1, <1>2
    <2> QED BY <1>3, <1>5, <1>6, <2>1, ComparesMoved
<1>8. PlanSays(cols, p, Y) <=> ((p.bin = 0 \/ Y[p.bin] = 1) => Compares(want, p.sense, p.rhs))
    BY <1>4 DEF PlanSays
<1> HIDE DEF cols
<1>9. RowHolds(BuiltRow, Y) <=> ((p.bin = 0 \/ Y[p.bin] = 1) => Compares(row, p.sense, r))
    <2>1. PICK b : b = BuiltRow
        OBVIOUS
    <2>2. /\ b.kind # "quadratic" /\ b.bin = p.bin /\ b.val = vl /\ b.idx = ix /\ b.sense = p.sense
          /\ b.rhs = r
        BY <1>2, <2>1 DEF BuiltRow
    <2>3. RowHolds(b, Y)
             <=> ((b.bin = 0 \/ Y[b.bin] = 1)
                     => Compares(Weighted(b.val, [i \in 1 .. Len(b.idx) |-> Y[b.idx[i]]]), b.sense, b.rhs))
        BY <2>2 DEF RowHolds
    <2>4. Weighted(b.val, [i \in 1 .. Len(b.idx) |-> Y[b.idx[i]]]) = row
        BY <1>3, <2>2
    <2> QED BY <2>1, <2>2, <2>3, <2>4
<1>10. ~Posted => PlanSays(cols, p, Y)
    <2> SUFFICES ASSUME ~Posted PROVE PlanSays(cols, p, Y)
        OBVIOUS
    <2>1. ix = <<>> /\ Compares(0, p.sense, r)
        BY <1>2 DEF Posted
    <2>2. row = 0
        BY <1>2, <2>1, RowNone
    <2> QED BY <1>7, <1>8, <2>1, <2>2
<1> QED BY <1>2, <1>7, <1>8, <1>9, <1>10 DEF cols

LEMMA RowEndKeeps ==
    ASSUME DInv, IInv, HandInv, Balanced, RowEnd, NEW Y \in [Used -> Int]
    PROVE  AllHold(model.column, given', queue', Y) <=> AllHold(model.column, given, queue, Y)
<1>1. phase = "terms" /\ todo = <<>> /\ queue' = Tail(queue)
    BY DEF RowEnd
<1>2. /\ Posted => given' = Append(given, BuiltRow)
      /\ ~Posted => given' = given
    BY DEF RowEnd, BuiltRow
<1>3. queue \in Seq(PlansOver(Decisions, Used)) /\ queue # <<>>
    BY <1>1, QueueAdvances
<1>4. /\ RowHolds(BuiltRow, Y) <=> PlanSays(model.column, Head(queue), Y)
      /\ ~Posted => PlanSays(model.column, Head(queue), Y)
    BY <1>1, RowEndSays
<1>5. PICK cols, P, r, gs, ps : /\ cols = model.column /\ P = PlansOver(Decisions, Used) /\ r = BuiltRow
                                /\ gs = given /\ ps = queue
    OBVIOUS
<1>6. CASE Posted
    <2>1. gs \in Seq(GivenRows) /\ r \in GivenRows /\ ps \in Seq(P) /\ ps # <<>>
          /\ (RowHolds(r, Y) <=> PlanSays(cols, Head(ps), Y))
        BY <1>1, <1>3, <1>4, <1>5, BuiltRowType DEF HandInv, GivenInHand
    <2>2. AllHold(cols, Append(gs, r), Tail(ps), Y) <=> AllHold(cols, gs, ps, Y)
        BY <2>1, AllHoldPosts
    <2> QED BY <1>1, <1>2, <1>5, <1>6, <2>2
<1>7. CASE ~Posted
    <2>1. ps \in Seq(P) /\ ps # <<>> /\ PlanSays(cols, Head(ps), Y)
        BY <1>3, <1>4, <1>5, <1>7
    <2>2. AllHold(cols, gs, Tail(ps), Y) <=> AllHold(cols, gs, ps, Y)
        BY <2>1, AllHoldSkips
    <2> QED BY <1>1, <1>2, <1>5, <1>7, <2>2
<1> QED BY <1>6, <1>7


-----------------------------------------------------------------------------
(***************************************************************************)
(* For a constraint: what was given for it and what is queued say, of the  *)
(* values the columns' bounds allow, what the constraint says.             *)
(***************************************************************************)
Means(cols, gs, ps, ys, D, form, con) ==
    \A y \in ys : AllHold(cols, gs, ps, y) <=> SaysAs(form, con, Decided(cols, D, y))

ConstraintMeaning ==
    phase \in {"rows", "terms"} /\ position > 0 =>
        /\ Form(item.ident) \in Forms
        /\ Means(model.column, given, queue, Assignments, Decisions, Form(item.ident), item)
        /\ item.ident = "bool_clause" => \A i \in 1 .. Len(queue) : queue[i] = ClausePlan(item)

MeaningInv == BuildInv /\ Balanced /\ ConstraintMeaning

LEMMA AssignmentsSame ==
    ASSUME intervals' = intervals
    PROVE  Assignments' = Assignments
BY DEF Assignments, Hull

\* A queue of nothing, and of one plan.
LEMMA OneRowSays ==
    ASSUME NEW cols, NEW Y
    PROVE  /\ AllHold(cols, <<>>, <<>>, Y)
           /\ \A p : AllHold(cols, <<>>, <<p>>, Y) <=> PlanSays(cols, p, Y)
           /\ \A r : AllHold(cols, <<r>>, <<>>, Y) <=> RowHolds(r, Y)
<1>1. Len(<<>>) = 0 /\ \A i \in 1 .. 0 : FALSE
    OBVIOUS
<1>2. \A p : Len(<<p>>) = 1 /\ <<p>>[1] = p
    OBVIOUS
<1>3. 1 \in 1 .. 1 /\ \A i \in 1 .. 1 : i = 1
    OBVIOUS
<1>4. ASSUME NEW p PROVE AllHold(cols, <<>>, <<p>>, Y) <=> PlanSays(cols, p, Y)
    <2>1. PICK ps : ps = <<p>>
        OBVIOUS
    <2>2. Len(ps) = 1 /\ ps[1] = p
        BY <1>2, <2>1
    <2>3. (\A i \in 1 .. Len(ps) : PlanSays(cols, ps[i], Y)) <=> PlanSays(cols, p, Y)
        BY <1>3, <2>2
    <2> QED BY <1>1, <2>1, <2>3 DEF AllHold
<1>5. ASSUME NEW r PROVE AllHold(cols, <<r>>, <<>>, Y) <=> RowHolds(r, Y)
    <2>1. PICK rs : rs = <<r>>
        OBVIOUS
    <2>2. Len(rs) = 1 /\ rs[1] = r
        BY <1>2, <2>1
    <2>3. (\A i \in 1 .. Len(rs) : RowHolds(rs[i], Y)) <=> RowHolds(r, Y)
        BY <1>3, <2>2
    <2> QED BY <1>1, <2>1, <2>3 DEF AllHold
<1> QED BY <1>1, <1>4, <1>5 DEF AllHold

\* A turn that leaves the constraint said.
LEMMA MeaningTurn ==
    ASSUME DInv, IInv, HandInv, Turn, NEW con, con = Con, NEW form \in Forms, form = Form(Con.ident),
           Means(model.column, given', queue', Assignments, Decisions, form, con),
           con.ident = "bool_clause" => \A i \in 1 .. Len(queue') : queue'[i] = ClausePlan(con)
    PROVE  ConstraintMeaning'
<1>1. /\ item' = con /\ caps' = caps /\ model' = model /\ Decisions' = Decisions
      /\ intervals' = intervals
    BY TurnFacts
<1>2. Assignments' = Assignments
    BY <1>1, AssignmentsSame
<1>3. Form(item.ident)' = form
    BY <1>1 DEF Form
<1> QED BY <1>1, <1>2, <1>3 DEF ConstraintMeaning

LEMMA MeaningOneRow ==
    ASSUME DInv, IInv, ShapeInv, HandInv, Turn, NEW con, con = Con, NEW form \in Forms,
           form = Form(Con.ident), NEW plan, OneRow(plan),
           \A y : Fits(y) => (PlanSays(model.column, plan, y)
                                  <=> SaysAs(form, con, Decided(model.column, Decisions, y))),
           con.ident = "bool_clause" => plan = ClausePlan(con)
    PROVE  ConstraintMeaning'
<1>1. queue' = <<plan>> /\ given' = <<>>
    BY DEF OneRow
<1>2. \A y \in Assignments : Fits(y)
    BY TurnFacts, AssignmentsFit
<1>3. Means(model.column, given', queue', Assignments, Decisions, form, con)
    BY <1>1, <1>2, OneRowSays DEF Means
<1>4. con.ident = "bool_clause" => \A i \in 1 .. Len(queue') : queue'[i] = ClausePlan(con)
    <2>1. Len(<<plan>>) = 1 /\ <<plan>>[1] = plan /\ \A i \in 1 .. 1 : i = 1
        OBVIOUS
    <2> QED BY <1>1, <2>1
<1> QED BY <1>3, <1>4, MeaningTurn

LEMMA MeaningNoRow ==
    ASSUME DInv, IInv, ShapeInv, HandInv, Turn, NEW con, con = Con, NEW form \in Forms,
           form = Form(Con.ident), NoRow,
           \A y : Fits(y) => SaysAs(form, con, Decided(model.column, Decisions, y))
    PROVE  ConstraintMeaning'
<1>1. queue' = <<>> /\ given' = <<>>
    BY TurnFacts DEF NoRow
<1>2. \A y \in Assignments : Fits(y)
    BY TurnFacts, AssignmentsFit
<1>3. Means(model.column, given', queue', Assignments, Decisions, form, con)
    BY <1>1, <1>2, OneRowSays DEF Means
<1>4. \A i \in 1 .. Len(queue') : queue'[i] = ClausePlan(con)
    <2>1. Len(<<>>) = 0 /\ \A i \in 1 .. 0 : FALSE
        OBVIOUS
    <2> QED BY <1>1, <2>1
<1> QED BY <1>3, <1>4, MeaningTurn

LEMMA MeaningLinear ==
    ASSUME DInv, IInv, ShapeInv, HandInv, LinearRow
    PROVE  ConstraintMeaning'
<1>1. PICK con, form : con = Con /\ form = Form(Con.ident)
    OBVIOUS
<1>2. Turn /\ form = "linear" /\ OneRow(LinearPlan(con)) /\ WellFormed(con, model)
    BY <1>1, TurnFacts DEF LinearRow, Takes
<1>3. con.ident \in Linear \cup FloatLinear
    BY <1>1, <1>2, FormIdents
<1>4. con.ident # "bool_clause" /\ form \in Forms
    BY <1>2, <1>3 DEF Linear, FloatLinear, Forms
<1>5. \A y : Fits(y) => (PlanSays(model.column, LinearPlan(con), y)
                            <=> SaysAs(form, con, Decided(model.column, Decisions, y)))
    BY <1>2, <1>3, LinearMeans
<1> QED BY <1>1, <1>2, <1>4, <1>5, MeaningOneRow

LEMMA MeaningClause ==
    ASSUME DInv, IInv, ShapeInv, HandInv, ClauseRow
    PROVE  ConstraintMeaning'
<1>1. PICK con, form : con = Con /\ form = Form(Con.ident)
    OBVIOUS
<1>2. Turn /\ form = "clause" /\ OneRow(ClausePlan(con)) /\ WellFormed(con, model)
    BY <1>1, TurnFacts DEF ClauseRow, Takes
<1>3. con.ident = "bool_clause" /\ form \in Forms
    BY <1>1, <1>2, FormIdents DEF Forms
<1>4. \A y : Fits(y) => (PlanSays(model.column, ClausePlan(con), y)
                            <=> SaysAs(form, con, Decided(model.column, Decisions, y)))
    BY <1>2, <1>3, ClauseMeans
<1> QED BY <1>1, <1>2, <1>3, <1>4, MeaningOneRow

LEMMA MeaningEqual ==
    ASSUME DInv, IInv, ShapeInv, HandInv, EqualRow
    PROVE  ConstraintMeaning'
<1>1. PICK con, form : con = Con /\ form = Form(Con.ident)
    OBVIOUS
<1>2. Turn /\ form = "equal" /\ OneRow(EqualPlan(con)) /\ WellFormed(con, model)
    BY <1>1, TurnFacts DEF EqualRow, Takes
<1>3. con.ident \in {"bool_to_int", "int_to_float"} /\ form \in Forms
    BY <1>1, <1>2, FormIdents DEF Forms
<1>4. con.ident # "bool_clause"
    BY <1>3
<1>5. \A y : Fits(y) => (PlanSays(model.column, EqualPlan(con), y)
                            <=> SaysAs(form, con, Decided(model.column, Decisions, y)))
    BY <1>2, <1>3, EqualMeans
<1> QED BY <1>1, <1>2, <1>3, <1>4, <1>5, MeaningOneRow

LEMMA MeaningImplied ==
    ASSUME DInv, IInv, ShapeInv, HandInv, ImpliedRow
    PROVE  ConstraintMeaning'
<1>1. PICK con, form : con = Con /\ form = Form(Con.ident)
    OBVIOUS
<1>2. Turn /\ form = "implied" /\ OneRow(ImpliedPlan(con)) /\ WellFormed(con, model)
      /\ ~(IsLiteral(con.b) /\ con.b.v = 0)
    BY <1>1, TurnFacts DEF ImpliedRow, Takes, Implies
<1>3. con.ident \in Implied \cup FloatImplied
    BY <1>1, <1>2, FormIdents
<1>4. con.ident # "bool_clause" /\ form \in Forms
    BY <1>2, <1>3 DEF Implied, FloatImplied, Forms
<1>5. Len(intervals) \in Nat
    BY HandParts
<1>6. \A y : Fits(y) => (PlanSays(model.column, ImpliedPlan(con), y)
                            <=> SaysAs(form, con, Decided(model.column, Decisions, y)))
    BY <1>2, <1>3, <1>5, ImpliedMeans
<1> QED BY <1>1, <1>2, <1>4, <1>6, MeaningOneRow

LEMMA MeaningProduct ==
    ASSUME DInv, IInv, ShapeInv, HandInv, ProductRow
    PROVE  ConstraintMeaning'
<1>1. PICK con, form : con = Con /\ form = Form(Con.ident)
    OBVIOUS
<1>2. Turn /\ form = "times" /\ OneRow(ProductPlan(con)) /\ WellFormed(con, model)
      /\ (IsLiteral(con.a) \/ IsLiteral(con.b))
    BY <1>1, TurnFacts DEF ProductRow, Takes, Quadratic
<1>3. con.ident \in Times \cup FloatTimes
    BY <1>1, <1>2, FormIdents
<1>4. con.ident # "bool_clause" /\ form \in Forms
    BY <1>2, <1>3 DEF Times, FloatTimes, Forms
<1>5. \A y : Fits(y) => (PlanSays(model.column, ProductPlan(con), y)
                            <=> SaysAs(form, con, Decided(model.column, Decisions, y)))
    BY <1>2, <1>3, ProductMeans
<1> QED BY <1>1, <1>2, <1>4, <1>5, MeaningOneRow

LEMMA MeaningQuadratic ==
    ASSUME DInv, IInv, ShapeInv, HandInv, QuadraticRow
    PROVE  ConstraintMeaning'
<1>1. PICK con, form : con = Con /\ form = Form(Con.ident)
    OBVIOUS
<1>2. Turn /\ form = "times" /\ given' = <<ProductGiven(con)>> /\ queue' = queue
      /\ WellFormed(con, model) /\ ~IsLiteral(con.a) /\ ~IsLiteral(con.b)
    BY <1>1, TurnFacts DEF QuadraticRow, Takes, Quadratic, ProductGiven
<1>3. Ready /\ queue' = <<>>
    BY <1>2, TurnFacts
<1>4. con.ident \in Times \cup FloatTimes
    BY <1>1, <1>2, FormIdents
<1>5. con.ident # "bool_clause" /\ form \in Forms
    BY <1>2, <1>4 DEF Times, FloatTimes, Forms
<1>6. \A y \in Assignments : Fits(y)
    BY <1>3, AssignmentsFit
<1>7. \A y : Fits(y) => (RowHolds(ProductGiven(con), y)
                            <=> SaysAs(form, con, Decided(model.column, Decisions, y)))
    BY <1>2, <1>3, <1>4, QuadraticMeans
<1>8. Means(model.column, given', queue', Assignments, Decisions, form, con)
    BY <1>2, <1>3, <1>6, <1>7, OneRowSays DEF Means
<1> QED BY <1>1, <1>2, <1>5, <1>8, MeaningTurn

\* The two decisions of a constraint that pass 1 has handled are one column.
LEMMA MeaningSkip ==
    ASSUME DInv, IInv, ShapeInv, HandInv, Skip
    PROVE  ConstraintMeaning'
<1>1. PICK con, form : con = Con /\ form = Form(Con.ident)
    OBVIOUS
<1>2. Turn /\ NoRow /\ form = "equal" /\ WellFormed(con, model) /\ ~IsLiteral(con.a) /\ ~IsLiteral(con.b)
    BY <1>1, TurnFacts DEF Skip, Handled
<1>3. con.ident \in {"bool_to_int", "int_to_float"} /\ form \in Forms
    BY <1>1, <1>2, FormIdents DEF Forms
<1>4. con.a \in Arguments(model) /\ con.b \in Arguments(model)
      /\ (con.a.is = "decision" /\ con.b.is = "decision" => model.column[con.a.v] = model.column[con.b.v])
    BY <1>2, <1>3 DEF WellFormed
<1>5. con.a.is = "decision" /\ con.b.is = "decision"
    BY <1>2, <1>4 DEF Arguments, IsLiteral
<1>6. ASSUME NEW y, Fits(y) PROVE SaysAs(form, con, Decided(model.column, Decisions, y))
    <2>1. PICK x : x = Decided(model.column, Decisions, y)
        OBVIOUS
    <2>2. \A d \in Decisions : y[model.column[d]] \in Int
        BY <1>6 DEF Fits
    <2>3. Value(con.a, x) = ArgAt(model.column, con.a, y) /\ Value(con.b, x) = ArgAt(model.column, con.b, y)
        BY <1>4, <2>1, <2>2, ValueIs
    <2>4. ArgAt(model.column, con.a, y) = ArgAt(model.column, con.b, y)
        BY <1>2, <1>4, <1>5 DEF ArgAt
    <2> QED BY <1>2, <2>1, <2>3, <2>4 DEF SaysAs
<1> QED BY <1>1, <1>2, <1>3, <1>6, MeaningNoRow

LEMMA MeaningImpliedByNothing ==
    ASSUME DInv, IInv, ShapeInv, HandInv, ImpliedByNothing
    PROVE  ConstraintMeaning'
<1>1. PICK con, form : con = Con /\ form = Form(Con.ident)
    OBVIOUS
<1>2. Turn /\ NoRow /\ form = "implied" /\ IsLiteral(con.b) /\ con.b.v = 0
    BY <1>1, TurnFacts DEF ImpliedByNothing, Takes, Implies
<1>3. form \in Forms
    BY <1>2 DEF Forms
<1>4. \A x : Value(con.b, x) # 1
    BY <1>2 DEF Value
<1>5. \A x : SaysAs(form, con, x)
    BY <1>2, <1>4 DEF SaysAs
<1> QED BY <1>1, <1>2, <1>3, <1>5, MeaningNoRow


\* A step that leaves the item, its queue and what was given leaves what they say.
LEMMA MeaningStays ==
    ASSUME ConstraintMeaning, phase \in {"rows", "terms"}, position' = position, item' = item,
           queue' = queue, given' = given, caps' = caps, ColumnsStay
    PROVE  ConstraintMeaning'
<1>1. model' = model /\ intervals' = intervals /\ Decisions' = Decisions
    BY DEF ColumnsStay
<1>2. Assignments' = Assignments
    BY <1>1, AssignmentsSame
<1>3. Form(item.ident)' = Form(item.ident)
    BY DEF Form
<1> QED BY <1>1, <1>2, <1>3 DEF ConstraintMeaning

\* A row that is done with leaves what its constraint says.
LEMMA MeaningRowDone ==
    ASSUME HandInv, ConstraintMeaning, phase = "terms", position' = position, item' = item, caps' = caps,
           ColumnsStay, queue' = Tail(queue),
           \A y \in Assignments : position > 0 =>
               (AllHold(model.column, given', queue', y) <=> AllHold(model.column, given, queue, y))
    PROVE  ConstraintMeaning'
<1> SUFFICES ASSUME phase' \in {"rows", "terms"}, position' > 0
             PROVE  /\ Form(item.ident)' \in Forms
                    /\ Means(model.column, given, queue, Assignments, Decisions, Form(item.ident), item)'
                    /\ item'.ident = "bool_clause" =>
                          \A i \in 1 .. Len(queue') : queue'[i] = ClausePlan(item')
    BY DEF ConstraintMeaning
<1>1. model' = model /\ intervals' = intervals /\ Decisions' = Decisions
    BY DEF ColumnsStay
<1>2. Assignments' = Assignments
    BY <1>1, AssignmentsSame
<1>3. Form(item.ident)' = Form(item.ident)
    BY DEF Form
<1>4. /\ Form(item.ident) \in Forms
      /\ Means(model.column, given, queue, Assignments, Decisions, Form(item.ident), item)
      /\ item.ident = "bool_clause" => \A i \in 1 .. Len(queue) : queue[i] = ClausePlan(item)
    BY DEF ConstraintMeaning
<1>5. Means(model.column, given', queue', Assignments, Decisions, Form(item.ident), item)
    BY <1>4 DEF Means
<1>6. \A i \in 1 .. Len(queue') : i + 1 \in 1 .. Len(queue) /\ queue'[i] = queue[i + 1]
    <2>1. queue \in Seq(PlansOver(Decisions, Used)) /\ queue # <<>>
        BY QueueAdvances
    <2>2. PICK P, ps, rest : P = PlansOver(Decisions, Used) /\ ps = queue /\ rest = Tail(ps)
        OBVIOUS
    <2>3. ps \in Seq(P) /\ ps # <<>>
        BY <2>1, <2>2
    <2>4. \A i \in 1 .. Len(rest) : i + 1 \in 1 .. Len(ps) /\ rest[i] = ps[i + 1]
        BY <2>2, <2>3
    <2> QED BY <2>2, <2>4
<1>7. item.ident = "bool_clause" => \A i \in 1 .. Len(queue') : queue'[i] = ClausePlan(item)
    BY <1>4, <1>6
<1> QED BY <1>1, <1>2, <1>3, <1>4, <1>5, <1>7

LEMMA MeaningRowEnd ==
    ASSUME DInv, IInv, ShapeInv, HandInv, Balanced, ConstraintMeaning, RowEnd
    PROVE  ConstraintMeaning'
<1>1. /\ phase = "terms" /\ position' = position /\ item' = item /\ caps' = caps
      /\ queue' = Tail(queue) /\ UNCHANGED domainsVars
    BY DEF RowEnd
<1>2. ColumnsStay
    BY <1>1, ColumnsSame
<1>3. Ready
    BY <1>1 DEF HandInv, ItemInHand
<1>4. ASSUME NEW y \in Assignments, position > 0
      PROVE  AllHold(model.column, given', queue', y) <=> AllHold(model.column, given, queue, y)
    <2>1. y \in [1 .. Len(intervals) -> Int]
        BY <1>3, AssignmentTypes
    <2>2. Used = 1 .. Len(intervals)
        BY <1>4 DEF Used
    <2>3. y \in [Used -> Int]
        BY <2>1, <2>2
    <2> QED BY <2>3, RowEndKeeps
<1> QED BY <1>1, <1>2, <1>4, MeaningRowDone

\* A clause that a literal satisfies always holds.
LEMMA MeaningSatisfied ==
    ASSUME DInv, IInv, ShapeInv, HandInv, ConstraintMeaning, Satisfied
    PROVE  ConstraintMeaning'
<1>1. /\ phase = "terms" /\ todo # <<>> /\ position' = position /\ item' = item /\ caps' = caps
      /\ queue' = Tail(queue) /\ given' = given /\ UNCHANGED domainsVars
      /\ item.ident = "bool_clause" /\ IsLiteral(Head(todo).arg) /\ Head(todo).arg.v # Head(todo).constant
    BY DEF Satisfied, Satisfies
<1>2. ColumnsStay
    BY <1>1, ColumnsSame
<1>3. Ready
    BY <1>1 DEF HandInv, ItemInHand
<1>4. ASSUME NEW y \in Assignments, position > 0
      PROVE  AllHold(model.column, given', queue', y) <=> AllHold(model.column, given, queue, y)
    <2>1. PICK con, cols, P, ps : con = item /\ cols = model.column /\ P = PlansOver(Decisions, Used)
                                  /\ ps = queue
        OBVIOUS
    <2>2. ps \in Seq(P) /\ ps # <<>> /\ Head(ps) = ps[1] /\ 1 \in 1 .. Len(ps)
        BY <1>1, <2>1, QueueAdvances
    <2>3. Head(ps) = ClausePlan(con)
        BY <1>1, <1>4, <2>1, <2>2 DEF ConstraintMeaning
    <2>4. WellFormed(con, model)
        <3>1. position \in 1 .. Len(Constraints)
            BY <1>4, HandParts
        <3>2. item = Constraints[position]
            BY <1>1, <1>4 DEF HandInv, ItemInHand
        <3> QED BY <2>1, <3>1, <3>2, HandParts
    <2>5. con.pos \in Seq(Truths(model)) /\ con.neg \in Seq(Truths(model))
        BY <1>1, <2>1, <2>4 DEF WellFormed
    <2>6. PICK j \in 1 .. Len(Head(queue).terms) : Head(todo) = Head(queue).terms[j]
        <3>1. \A i \in 1 .. Len(todo) : \E j \in 1 .. Len(Head(queue).terms) : todo[i] = Head(queue).terms[j]
            BY <1>1 DEF HandInv, RowInHand
        <3>2. todo \in Seq(TermsOver(Decisions, Used))
            BY <1>1, TermInHand
        <3>3. PICK T, ts : T = TermsOver(Decisions, Used) /\ ts = todo
            OBVIOUS
        <3>4. Head(ts) = ts[1] /\ 1 \in 1 .. Len(ts)
            BY <1>1, <3>2, <3>3
        <3> QED BY <3>1, <3>3, <3>4
    <2>7. /\ j \in 1 .. Len(ClausePlan(con).terms) /\ IsLiteral(ClausePlan(con).terms[j].arg)
          /\ ClausePlan(con).terms[j].arg.v # ClausePlan(con).terms[j].constant
        BY <1>1, <2>1, <2>3, <2>6
    <2>8. Fits(y)
        BY <1>3, AssignmentsFit
    <2>9. PlanSays(model.column, ClausePlan(con), y)
        BY <2>5, <2>7, <2>8, SatisfiedClause
    <2>10. PlanSays(cols, Head(ps), y)
        BY <2>1, <2>3, <2>9
    <2>11. AllHold(cols, given, Tail(ps), y) <=> AllHold(cols, given, ps, y)
        BY <2>2, <2>10, AllHoldSkips
    <2> QED BY <1>1, <2>1, <2>11
<1> QED BY <1>1, <1>2, <1>4, MeaningRowDone

LEMMA MeaningInit == FormsInit => MeaningInv
<1> SUFFICES ASSUME FormsInit PROVE MeaningInv
    OBVIOUS
<1>1. phase = "columns"
    BY DEF FormsInit
<1> QED BY <1>1, BuildInit DEF MeaningInv, Balanced, ConstraintMeaning

\* A row's balance is that of its own steps.
LEMMA BalancedNext ==
    ASSUME BuildInv, Balanced, [FormsNext]_formsVars
    PROVE  Balanced'
<1>1. DInv /\ IInv /\ ShapeInv /\ HandInv
    BY DEF BuildInv
<1>2. CASE RowStart
    BY <1>1, <1>2, BalanceRowStart
<1>3. CASE ReadTerm
    BY <1>1, <1>3, BalanceReadTerm
<1>4. CASE Built \/ UNCHANGED formsVars
    <2>1. /\ phase' = phase /\ idx' = idx /\ val' = val /\ todo' = todo /\ rhs' = rhs /\ queue' = queue
          /\ position' = position /\ columns' = columns
        BY <1>4 DEF Built, formsVars, progress, scratch
    <2>2. ColumnsStay
        BY <1>4, ColumnsSame DEF Built, formsVars
    <2>3. model' = model /\ intervals' = intervals
        BY <2>2 DEF ColumnsStay
    <2>4. Used' = Used
        BY <2>1, <2>3, UsedSame
    <2> QED BY <2>1, <2>3, <2>4 DEF Balanced
<1>5. CASE phase' # "terms"
    BY <1>5 DEF Balanced
<1>6. ColumnLoop \/ SizeScratch \/ Satisfied \/ RowEnd \/ Skip \/ LinearRow \/ ClauseRow \/ EqualRow
      \/ ImpliedRow \/ ImpliedByNothing \/ QuadraticRow \/ ProductRow \/ Reject \/ NextLayer
          => phase' # "terms"
    BY DEF ColumnLoop, progress, SizeScratch, Satisfied, RowEnd, Skip, LinearRow, ClauseRow, EqualRow,
           ImpliedRow, ImpliedByNothing, QuadraticRow, ProductRow, Reject, NextLayer, Takes, Turn, OneRow,
           NoRow
<1> QED BY <1>2, <1>3, <1>4, <1>5, <1>6 DEF FormsNext

LEMMA ConstraintMeaningNext ==
    ASSUME MeaningInv, [FormsNext]_formsVars
    PROVE  ConstraintMeaning'
<1>1. DInv /\ IInv /\ ShapeInv /\ HandInv /\ Balanced /\ ConstraintMeaning
    BY DEF MeaningInv, BuildInv
<1>2. CASE phase' \notin {"rows", "terms"}
    BY <1>2 DEF ConstraintMeaning
<1>3. ColumnLoop \/ Reject \/ NextLayer => phase' \notin {"rows", "terms"}
    BY DEF ColumnLoop, progress, Reject, NextLayer
<1>4. CASE SizeScratch
    <2>1. position' = position /\ phase = "columns"
        BY <1>4 DEF SizeScratch
    <2>2. position = 0
        BY <1>1, <2>1 DEF HandInv, ItemInHand
    <2> QED BY <2>1, <2>2 DEF ConstraintMeaning
<1>5. CASE RowStart \/ ReadTerm
    <2>1. /\ phase \in {"rows", "terms"} /\ position' = position /\ item' = item /\ queue' = queue
          /\ given' = given /\ caps' = caps /\ UNCHANGED domainsVars
        BY <1>5 DEF RowStart, ReadTerm
    <2> QED BY <1>1, <2>1, ColumnsSame, MeaningStays
<1>6. CASE Satisfied
    BY <1>1, <1>6, MeaningSatisfied
<1>7. CASE RowEnd
    BY <1>1, <1>7, MeaningRowEnd
<1>8. CASE Skip \/ ImpliedByNothing
    BY <1>1, <1>8, MeaningSkip, MeaningImpliedByNothing
<1>9. CASE LinearRow \/ ClauseRow \/ EqualRow
    BY <1>1, <1>9, MeaningLinear, MeaningClause, MeaningEqual
<1>10. CASE ImpliedRow \/ QuadraticRow \/ ProductRow
    BY <1>1, <1>10, MeaningImplied, MeaningQuadratic, MeaningProduct
<1>11. CASE Built \/ UNCHANGED formsVars
    <2>1. /\ phase' = phase /\ position' = position /\ item' = item /\ queue' = queue
          /\ given' = given /\ caps' = caps /\ UNCHANGED domainsVars
        BY <1>11 DEF Built, formsVars, progress
    <2>2. CASE phase \in {"rows", "terms"}
        BY <1>1, <2>1, <2>2, ColumnsSame, MeaningStays
    <2>3. CASE phase \notin {"rows", "terms"}
        BY <1>2, <2>1, <2>3
    <2> QED BY <2>2, <2>3
<1> QED
    BY <1>2, <1>3, <1>4, <1>5, <1>6, <1>7, <1>8, <1>9, <1>10, <1>11 DEF FormsNext

LEMMA MeaningNext == MeaningInv /\ [FormsNext]_formsVars => MeaningInv'
<1> SUFFICES ASSUME MeaningInv, [FormsNext]_formsVars PROVE MeaningInv'
    OBVIOUS
<1>1. BuildInv' /\ Balanced' /\ ConstraintMeaning'
    BY BuildNext, BalancedNext, ConstraintMeaningNext DEF MeaningInv
<1> QED BY <1>1 DEF MeaningInv

THEOREM MeaningInvariant == FormsSpec => []MeaningInv
BY MeaningInit, MeaningNext, PTL DEF FormsSpec

\* For all models, backends and layers: the rows given for a constraint allow, of the
\* values the columns' bounds allow, exactly those that satisfy the constraint - with
\* literals on either side, repeats of a decision, decisions that share a column, and
\* rows that are folded, dropped or never built (mip_model.cpp, build, pass 2).
THEOREM ConstraintRowsMean == FormsSpec => []RowsMeanConstraint
<1>1. MeaningInv => RowsMeanConstraint
    <2> SUFFICES ASSUME MeaningInv, ItemDone, item # Holes, NEW y \in Assignments
                 PROVE  (\A i \in DOMAIN given : RowHolds(given[i], y))
                            <=> Says(item, [d \in Decisions |-> y[ColumnOf(d)]])
        BY DEF RowsMeanConstraint
    <2>1. DInv /\ IInv /\ ShapeInv /\ HandInv /\ ConstraintMeaning
        BY DEF MeaningInv, BuildInv
    <2>2. phase = "rows" /\ queue = <<>>
        BY DEF ItemDone
    <2>3. position > 0
        <3>1. position # 0
            BY <2>1, <2>2 DEF HandInv, ItemInHand
        <3>2. position \in Nat
            BY <2>1, HandParts
        <3> QED BY <3>1, <3>2
    <2>4. PICK x : x = Decided(model.column, Decisions, y)
        OBVIOUS
    <2>5. x = [d \in Decisions |-> y[ColumnOf(d)]]
        BY <2>4 DEF Decided, ColumnOf
    <2>6. Form(item.ident) \in Forms /\ (AllHold(model.column, given, <<>>, y) <=> SaysAs(Form(item.ident), item, x))
        BY <2>1, <2>2, <2>3, <2>4 DEF ConstraintMeaning, Means
    <2>7. Says(item, x) <=> SaysAs(Form(item.ident), item, x)
        <3>1. PICK con : con = item
            OBVIOUS
        <3>2. Form(con.ident) \in Forms
            BY <2>6, <3>1
        <3> QED BY <3>1, <3>2, SaysIs
    <2>8. AllHold(model.column, given, <<>>, y) <=> \A i \in DOMAIN given : RowHolds(given[i], y)
        <3>1. DOMAIN given = 1 .. Len(given)
            BY <2>1 DEF HandInv, GivenInHand
        <3>2. Len(<<>>) = 0 /\ \A i \in 1 .. 0 : FALSE
            OBVIOUS
        <3> QED BY <3>1, <3>2 DEF AllHold
    <2> QED BY <2>5, <2>6, <2>7, <2>8
<1> QED BY <1>1, MeaningInvariant, PTL


-----------------------------------------------------------------------------
(***************************************************************************)
(* For the domains with holes: what was given and what is queued say what  *)
(* the three plans of every column with holes say.                         *)
(***************************************************************************)
PlansOf(cols, plans, Y) == \A j \in 1 .. 3 : PlanSays(cols, plans[j], Y)

HolesSay(Y) == \A c \in 1 .. Len(intervals) : Holey(c) => PlansOf(model.column, HolePlans(c), Y)

HolesMeaning ==
    phase \in {"rows", "terms"} /\ position = 0 /\ layer = 1 =>
        \A Y \in [Column -> Int] : AllHold(model.column, given, queue, Y) <=> HolesSay(Y)

DomainsInv == MeaningInv /\ HolesMeaning

LEMMA HolesStay ==
    ASSUME model' = model, intervals' = intervals, NEW Y
    PROVE  HolesSay(Y)' <=> HolesSay(Y)
<1>1. \A c : Holey(c)' <=> Holey(c)
    BY DEF Holey
<1>2. \A c : SelectorsBefore(c)' = SelectorsBefore(c)
    BY DEF SelectorsBefore, SelectorsOf, Holey
<1>3. \A c : HolePlans(c)' = HolePlans(c)
    BY <1>2 DEF HolePlans, Selecting
<1> QED BY <1>1, <1>3 DEF HolesSay

LEMMA HolesMeaningSizeScratch ==
    ASSUME DInv, IInv, HandInv, SizeScratch
    PROVE  HolesMeaning'
<1> SUFFICES ASSUME layer' = 1, NEW Y
             PROVE  AllHold(model'.column, given', queue', Y) <=> HolesSay(Y)'
    BY DEF HolesMeaning
<1>1. given' = <<>> /\ queue' = HoleRows /\ UNCHANGED domainsVars
    BY DEF SizeScratch
<1>2. model' = model /\ intervals' = intervals
    BY <1>1, ColumnsSame DEF ColumnsStay
<1>3. HolesSay(Y)' <=> HolesSay(Y)
    BY <1>2, HolesStay
<1>4. PICK cols, hs, n : cols = model.column /\ hs = HoleRows /\ n = Len(intervals)
    OBVIOUS
<1>5. /\ \A i \in 1 .. Len(hs) :
            \E c \in 1 .. n : Holey(c) /\ \E j \in 1 .. 3 : hs[i] = HolePlans(c)[j]
      /\ \A c \in 1 .. n : Holey(c) =>
            \A j \in 1 .. 3 : \E i \in 1 .. Len(hs) : hs[i] = HolePlans(c)[j]
    <2> DEFINE P == PlansOver(Decisions, 1 .. Len(intervals) + Selectors)
    <2>1. intervals \in Seq(Seq(Interval)) /\ Len(intervals) \in Nat
        BY HandParts
    <2>2. HolePlansIn(P)
        BY <2>1, HolePlansType
    <2> HIDE DEF P
    <2> QED BY <1>4, <2>1, <2>2, HoleRowsAre
<1>6. HolesSay(Y) <=> \A c \in 1 .. n : Holey(c) => \A j \in 1 .. 3 : PlanSays(cols, HolePlans(c)[j], Y)
    BY <1>4 DEF HolesSay, PlansOf
<1>7. (\A i \in 1 .. Len(hs) : PlanSays(cols, hs[i], Y)) <=> HolesSay(Y)
    <2>1. ASSUME HolesSay(Y), NEW i \in 1 .. Len(hs) PROVE PlanSays(cols, hs[i], Y)
        <3>1. PICK c \in 1 .. n, j \in 1 .. 3 : Holey(c) /\ hs[i] = HolePlans(c)[j]
            BY <1>5
        <3> QED BY <1>6, <2>1, <3>1
    <2>2. ASSUME \A i \in 1 .. Len(hs) : PlanSays(cols, hs[i], Y),
                 NEW c \in 1 .. n, Holey(c), NEW j \in 1 .. 3
          PROVE  PlanSays(cols, HolePlans(c)[j], Y)
        <3>1. PICK i \in 1 .. Len(hs) : hs[i] = HolePlans(c)[j]
            BY <1>5, <2>2
        <3> QED BY <2>2, <3>1
    <2> QED BY <1>6, <2>1, <2>2
<1>8. AllHold(cols, <<>>, hs, Y) <=> \A i \in 1 .. Len(hs) : PlanSays(cols, hs[i], Y)
    <2>1. Len(<<>>) = 0 /\ \A i \in 1 .. 0 : FALSE
        OBVIOUS
    <2> QED BY <2>1 DEF AllHold
<1> QED BY <1>1, <1>2, <1>3, <1>4, <1>7, <1>8

LEMMA HolesMeaningStays ==
    ASSUME HolesMeaning, phase \in {"rows", "terms"}, position' = position, layer' = layer,
           queue' = queue, given' = given, columns' = columns, ColumnsStay
    PROVE  HolesMeaning'
<1>1. model' = model /\ intervals' = intervals
    BY DEF ColumnsStay
<1>2. Column' = Column
    BY DEF Column
<1>3. \A Y : HolesSay(Y)' <=> HolesSay(Y)
    BY <1>1, HolesStay
<1> QED BY <1>1, <1>2, <1>3 DEF HolesMeaning

LEMMA HolesMeaningRowEnd ==
    ASSUME DInv, IInv, HandInv, Balanced, HolesMeaning, RowEnd
    PROVE  HolesMeaning'
<1>1. /\ phase = "terms" /\ position' = position /\ layer' = layer /\ columns' = columns
      /\ UNCHANGED domainsVars
    BY DEF RowEnd, RowPost
<1>2. model' = model /\ intervals' = intervals
    BY <1>1, ColumnsSame DEF ColumnsStay
<1>3. Column' = Column
    BY <1>1 DEF Column
<1>4. \A Y : HolesSay(Y)' <=> HolesSay(Y)
    BY <1>2, HolesStay
<1>5. ASSUME position = 0, NEW Y \in [Column -> Int]
      PROVE  AllHold(model.column, given', queue', Y) <=> AllHold(model.column, given, queue, Y)
    <2>1. Y \in [Used -> Int]
        BY <1>5 DEF Used
    <2> QED BY <2>1, RowEndKeeps
<1> QED BY <1>1, <1>2, <1>3, <1>4, <1>5 DEF HolesMeaning

LEMMA HolesMeaningNext ==
    ASSUME DomainsInv, [FormsNext]_formsVars
    PROVE  HolesMeaning'
<1>1. DInv /\ IInv /\ HandInv /\ Balanced /\ HolesMeaning
    BY DEF DomainsInv, MeaningInv, BuildInv
<1>2. ColumnLoop \/ Reject \/ NextLayer => phase' \notin {"rows", "terms"}
    BY DEF ColumnLoop, progress, Reject, NextLayer
<1>3. CASE phase' \notin {"rows", "terms"}
    BY <1>3 DEF HolesMeaning
<1>4. CASE SizeScratch
    BY <1>1, <1>4, HolesMeaningSizeScratch
<1>5. CASE RowStart \/ ReadTerm
    <2>1. /\ phase \in {"rows", "terms"} /\ position' = position /\ layer' = layer /\ queue' = queue
          /\ given' = given /\ UNCHANGED domainsVars
        BY <1>5 DEF RowStart, ReadTerm
    <2>2. columns' = columns
        <3>1. CASE RowStart
            BY <3>1 DEF RowStart, RowBegin
        <3>2. CASE ReadTerm
            BY <3>2 DEF ReadTerm, Fold, NewTerm, scratch
        <3> QED BY <1>5, <3>1, <3>2
    <2> QED BY <1>1, <2>1, <2>2, ColumnsSame, HolesMeaningStays
<1>6. CASE Satisfied
    <2>1. phase = "terms" /\ item.ident = "bool_clause" /\ position' = position
        BY <1>6 DEF Satisfied, Satisfies
    <2>2. position # 0
        <3>1. Holes.ident = "holes"
            BY DEF Holes
        <3> QED BY <1>1, <2>1, <3>1 DEF HandInv, ItemInHand
    <2> QED BY <2>1, <2>2 DEF HolesMeaning
<1>7. CASE RowEnd
    BY <1>1, <1>7, HolesMeaningRowEnd
<1>8. CASE Turn
    <2>1. position' # 0
        <3>1. position' \in 1 .. Len(Constraints) /\ Len(Constraints) \in Nat
            BY <1>1, <1>8, TurnFacts, HandParts
        <3> QED BY <3>1
    <2> QED BY <2>1 DEF HolesMeaning
<1>9. Skip \/ LinearRow \/ ClauseRow \/ EqualRow \/ ImpliedRow \/ ImpliedByNothing \/ QuadraticRow
      \/ ProductRow => Turn
    BY DEF Skip, LinearRow, ClauseRow, EqualRow, ImpliedRow, ImpliedByNothing, QuadraticRow, ProductRow,
           Takes
<1>10. CASE Built \/ UNCHANGED formsVars
    <2>1. /\ phase' = phase /\ position' = position /\ layer' = layer /\ queue' = queue
          /\ given' = given /\ columns' = columns /\ UNCHANGED domainsVars
        BY <1>10 DEF Built, formsVars, progress, scratch
    <2>2. CASE phase \in {"rows", "terms"}
        BY <1>1, <2>1, <2>2, ColumnsSame, HolesMeaningStays
    <2>3. CASE phase \notin {"rows", "terms"}
        BY <1>3, <2>1, <2>3
    <2> QED BY <2>2, <2>3
<1> QED BY <1>2, <1>3, <1>4, <1>5, <1>6, <1>7, <1>8, <1>9, <1>10 DEF FormsNext

LEMMA DomainsInvInit == FormsInit => DomainsInv
<1> SUFFICES ASSUME FormsInit PROVE DomainsInv
    OBVIOUS
<1>1. phase = "columns"
    BY DEF FormsInit
<1> QED BY <1>1, MeaningInit DEF DomainsInv, HolesMeaning

LEMMA DomainsInvNext == DomainsInv /\ [FormsNext]_formsVars => DomainsInv'
<1> SUFFICES ASSUME DomainsInv, [FormsNext]_formsVars PROVE DomainsInv'
    OBVIOUS
<1>1. MeaningInv' /\ HolesMeaning'
    BY MeaningNext, HolesMeaningNext DEF DomainsInv
<1> QED BY <1>1 DEF DomainsInv

THEOREM DomainsInvariant == FormsSpec => []DomainsInv
BY DomainsInvInit, DomainsInvNext, PTL DEF FormsSpec


-----------------------------------------------------------------------------
(***************************************************************************)
(* What the three plans of a column with holes say: one of its selectors   *)
(* is chosen, and the column is within that selector's interval.           *)
(***************************************************************************)
AllColumns == 1 .. Len(intervals) + Selectors

SelectorValues(c, weights, Y) ==
    [r \in 1 .. Len(intervals[c]) |-> weights[r] * Y[SelectorsBefore(c) + r]]

Picks(c, k, Y) ==
    \A r \in 1 .. Len(intervals[c]) : Y[SelectorsBefore(c) + r] = IF r = k THEN 1 ELSE 0

LEMMA AheadOf ==
    ASSUME NEW T, NEW x \in T, NEW q \in Seq(T)
    PROVE  /\ <<x>> \o q \in Seq(T) /\ <<x>> \o q # <<>> /\ <<>> \o q = q
           /\ Head(<<x>> \o q) = x /\ Tail(<<x>> \o q) = q
<1>1. <<x>> \in Seq(T) /\ Len(<<x>>) = 1 /\ <<x>>[1] = x
    OBVIOUS
<1>2. PICK s : s = <<x>> \o q
    OBVIOUS
<1>3. /\ s \in Seq(T) /\ Len(s) = 1 + Len(q) /\ s[1] = x
      /\ \A i \in 1 .. Len(q) : s[1 + i] = q[i]
    <2>1. 1 \in 1 .. Len(<<x>>)
        BY <1>1
    <2> QED BY <1>1, <1>2, <2>1, Joined
<1>4. s # <<>> /\ Head(s) = x /\ Tail(s) \in Seq(T) /\ Len(Tail(s)) = Len(q)
      /\ \A i \in 1 .. Len(Tail(s)) : Tail(s)[i] = s[i + 1]
    BY <1>3
<1>5. \A i \in 1 .. Len(q) : Tail(s)[i] = q[i]
    BY <1>3, <1>4
<1>6. Tail(s) = q
    BY <1>4, <1>5
<1>7. <<>> \o q = q
    OBVIOUS
<1> QED BY <1>2, <1>3, <1>4, <1>6, <1>7

LEMMA SelectorsIn ==
    ASSUME intervals \in Seq(Seq(Interval)), NEW c \in 1 .. Len(intervals)
    PROVE  /\ Len(intervals) \in Nat /\ Len(intervals[c]) \in Nat
           /\ \A k \in 1 .. Len(intervals[c]) : intervals[c][k].min \in Int /\ intervals[c][k].max \in Int
           /\ c \in AllColumns
           /\ Holey(c) => /\ SelectorsBefore(c) \in Nat
                          /\ \A r \in 1 .. Len(intervals[c]) :
                                /\ SelectorsBefore(c) + r \in AllColumns
                                /\ SelectorsBefore(c) + r > Len(intervals)
<1>1. /\ Len(intervals) \in Nat /\ Len(intervals[c]) \in Nat
      /\ \A k \in 1 .. Len(intervals[c]) : intervals[c][k] \in Interval
    BY ListsHold
<1>2. \A k \in 1 .. Len(intervals[c]) : intervals[c][k].min \in Int /\ intervals[c][k].max \in Int
    BY <1>1 DEF Interval
<1>3. /\ Selectors \in Nat /\ SelectorsBefore(c) \in Nat /\ Len(intervals) <= SelectorsBefore(c)
      /\ SelectorsBefore(c) + SelectorsOf(c) <= Len(intervals) + Selectors
    BY SelectorPlaces DEF SelectorsApart
<1>4. Holey(c) => SelectorsOf(c) = Len(intervals[c])
    BY DEF SelectorsOf
<1>5. c \in AllColumns
    BY <1>1, <1>3 DEF AllColumns
<1>6. PICK n, k, b, u, w : n = Len(intervals) /\ k = Len(intervals[c]) /\ b = SelectorsBefore(c)
                           /\ u = Selectors /\ w = SelectorsOf(c)
    OBVIOUS
<1>7. n \in Nat /\ k \in Nat /\ b \in Nat /\ u \in Nat /\ n <= b /\ b + w <= n + u
      /\ (Holey(c) => w = k)
    BY <1>1, <1>3, <1>4, <1>6
<1>8. Holey(c) => \A r \in 1 .. k : b + r \in 1 .. n + u /\ b + r > n
    BY <1>7
<1> QED BY <1>1, <1>2, <1>5, <1>6, <1>7, <1>8 DEF AllColumns

LEMMA SelectingSums ==
    ASSUME intervals \in Seq(Seq(Interval)), NEW c \in 1 .. Len(intervals), Holey(c),
           NEW weights \in [1 .. Len(intervals[c]) -> Int], NEW Y \in [AllColumns -> Int], NEW cols
    PROVE  /\ Numbers(SelectorValues(c, weights, Y))
           /\ Len(SelectorValues(c, weights, Y)) = Len(intervals[c])
           /\ TermsAt(cols, Selecting(<<>>, c, weights), Y) = Total(SelectorValues(c, weights, Y))
           /\ TermsAt(cols, Selecting(<<Term(1, Col(c))>>, c, weights), Y)
                 = Y[c] + Total(SelectorValues(c, weights, Y))
<1> DEFINE n == Len(intervals[c])
           B == SelectorsBefore(c)
           U == AllColumns
           T == TermsOver({}, U)
           q == [r \in 1 .. n |-> Term(weights[r], Col(B + r))]
           W == SelectorValues(c, weights, Y)
           x == Term(1, Col(c))
<1>1. n \in Nat /\ c \in U /\ B \in Nat /\ \A r \in 1 .. n : B + r \in U
    BY SelectorsIn
<1>2. W = [r \in 1 .. n |-> weights[r] * Y[B + r]]
    BY DEF SelectorValues
<1> HIDE DEF B, U, W
<1>3. \A r \in 1 .. n : weights[r] \in Int /\ Y[B + r] \in Int
    <2>1. Y \in [U -> Int]
        BY DEF U
    <2> QED BY <1>1, <2>1
<1>4. W \in [1 .. n -> Int]
    <2>1. ASSUME NEW r \in 1 .. n PROVE weights[r] * Y[B + r] \in Int
        <3>1. PICK a \in Int, v \in Int : a = weights[r] /\ v = Y[B + r]
            BY <1>3
        <3>2. a * v \in Int
            OBVIOUS
        <3> QED BY <3>1, <3>2
    <2> QED BY <1>2, <2>1
<1>5. Numbers(W) /\ Len(W) = n
    <2> HIDE DEF n
    <2> QED BY <1>1, <1>4, NumbersOf
<1>6. \A r \in 1 .. n : TermAt(cols, q[r], Y) = W[r]
    <2> SUFFICES ASSUME NEW r \in 1 .. n PROVE TermAt(cols, q[r], Y) = W[r]
        OBVIOUS
    <2>1. PICK a \in Int, v \in Int : a = weights[r] /\ v = Y[B + r]
        BY <1>3
    <2>2. q[r] = Term(a, Col(B + r))
        BY <2>1
    <2>3. PICK t : t = q[r]
        OBVIOUS
    <2>4. t.coef = a /\ t.constant = 0 /\ t.arg = Col(B + r)
        BY <2>2, <2>3 DEF Term
    <2>5. ArgAt(cols, Col(B + r), Y) = v
        BY <2>1 DEF ArgAt, Col, IsLiteral
    <2>6. TermAt(cols, t, Y) = a * v + 0
        BY <2>4, <2>5 DEF TermAt
    <2>7. PICK w \in Int : w = a * v
        OBVIOUS
    <2>8. W[r] = w
        BY <1>2, <2>1, <2>7
    <2> QED BY <2>3, <2>6, <2>7, <2>8
<1>7. \A r \in 1 .. n : q[r] \in T
    <2> SUFFICES ASSUME NEW r \in 1 .. n PROVE Term(weights[r], Col(B + r)) \in T
        OBVIOUS
    <2>1. Col(B + r) \in ArgsOver({}, U)
        BY <1>1 DEF Col, ArgsOver
    <2> QED BY <1>3, <2>1, TermTypes
<1>8. x \in T
    <2>1. Col(c) \in ArgsOver({}, U) /\ 1 \in Int
        BY <1>1 DEF Col, ArgsOver
    <2> QED BY <2>1, TermTypes
<1>9. q \in [1 .. n -> T]
    <2> HIDE DEF T
    <2> QED BY <1>7
<1>10. q \in Seq(T) /\ Len(q) = n
    <2> HIDE DEF T, n, q
    <2> QED BY <1>1, <1>9, SeqOfValues
<1>11. TermValues(cols, q, Y) = W
    <2>1. TermValues(cols, q, Y) = [i \in 1 .. n |-> TermAt(cols, q[i], Y)]
        BY <1>10 DEF TermValues
    <2> HIDE DEF q, n
    <2> QED BY <1>4, <1>6, <2>1
<1>12. TermsAt(cols, q, Y) = Total(W)
    BY <1>11 DEF TermsAt
<1>13. Selecting(<<>>, c, weights) = <<>> \o q /\ Selecting(<<x>>, c, weights) = <<x>> \o q
    BY DEF Selecting, B
<1> HIDE DEF q, x, T
<1>14. /\ <<x>> \o q \in Seq(T) /\ <<x>> \o q # <<>> /\ <<>> \o q = q
       /\ Head(<<x>> \o q) = x /\ Tail(<<x>> \o q) = q
    BY <1>8, <1>10, AheadOf
<1>15. TermAt(cols, x, Y) = Y[c]
    <2>1. x.coef = 1 /\ x.constant = 0 /\ x.arg = Col(c)
        BY DEF Term, x
    <2>2. ArgAt(cols, Col(c), Y) = Y[c]
        BY DEF ArgAt, Col, IsLiteral
    <2>3. TermAt(cols, x, Y) = 1 * Y[c] + 0
        BY <2>1, <2>2 DEF TermAt
    <2>4. Y[c] \in Int
        BY <1>1 DEF U
    <2> QED BY <2>3, <2>4
<1>16. TermsAt(cols, <<x>> \o q, Y) = Y[c] + Total(W)
    <2>1. PICK s : s = <<x>> \o q
        OBVIOUS
    <2>2. s \in Seq(TermsOver({}, U)) /\ s # <<>> /\ Head(s) = x /\ Tail(s) = q
        BY <1>14, <2>1 DEF T
    <2>3. ColsIn(cols, {}, U)
        BY DEF ColsIn
    <2>4. Y \in [U -> Int]
        BY DEF U
    <2>5. TermsAt(cols, s, Y) = TermAt(cols, Head(s), Y) + TermsAt(cols, Tail(s), Y)
        BY <2>2, <2>3, <2>4, TermsFirst
    <2> QED BY <1>12, <1>15, <2>1, <2>2, <2>5
<1> QED BY <1>5, <1>12, <1>13, <1>14, <1>16 DEF W, x

LEMMA PickedSum ==
    ASSUME intervals \in Seq(Seq(Interval)), NEW c \in 1 .. Len(intervals), Holey(c),
           NEW weights \in [1 .. Len(intervals[c]) -> Int], NEW Y \in [AllColumns -> Int],
           NEW k \in 1 .. Len(intervals[c]), Picks(c, k, Y)
    PROVE  Total(SelectorValues(c, weights, Y)) = weights[k]
<1> DEFINE W == SelectorValues(c, weights, Y)
<1>1. Numbers(W) /\ Len(W) = Len(intervals[c])
    BY SelectingSums
<1>2. \A r \in 1 .. Len(intervals[c]) : W[r] = weights[r] * (IF r = k THEN 1 ELSE 0)
    BY DEF SelectorValues, Picks
<1>3. \A r \in 1 .. Len(intervals[c]) : weights[r] \in Int
    OBVIOUS
<1> HIDE DEF W
<1>4. W[k] = weights[k] /\ \A r \in 1 .. Len(intervals[c]) : r # k => W[r] = 0
    BY <1>2, <1>3
<1>5. Total(W) = W[k]
    <2>1. k \in 1 .. Len(W) /\ \A r \in 1 .. Len(W) : r # k => W[r] = 0
        BY <1>1, <1>4
    <2> QED BY <1>1, <2>1, TotalOne
<1> QED BY <1>4, <1>5 DEF W


LEMMA HolePlansMean ==
    ASSUME intervals \in Seq(Seq(Interval)), NEW c \in 1 .. Len(intervals), Holey(c),
           NEW Y \in [AllColumns -> Int], NEW cols,
           \A r \in 1 .. Len(intervals[c]) : Y[SelectorsBefore(c) + r] \in {0, 1}
    PROVE  PlansOf(cols, HolePlans(c), Y)
              <=> \E k \in 1 .. Len(intervals[c]) : Picks(c, k, Y) /\ Within(Y[c], intervals[c][k])
<1> DEFINE n == Len(intervals[c])
           ones == [r \in 1 .. n |-> 1]
           mins == [r \in 1 .. n |-> -intervals[c][r].min]
           maxs == [r \in 1 .. n |-> -intervals[c][r].max]
           x == <<Term(1, Col(c))>>
           Sum(weights) == Total(SelectorValues(c, weights, Y))
<1>1. /\ n \in Nat /\ c \in AllColumns
      /\ \A k \in 1 .. n : intervals[c][k].min \in Int /\ intervals[c][k].max \in Int
    BY SelectorsIn
<1>2. ones \in [1 .. n -> Int] /\ mins \in [1 .. n -> Int] /\ maxs \in [1 .. n -> Int]
    <2>1. \A r \in 1 .. n : -intervals[c][r].min \in Int /\ -intervals[c][r].max \in Int
        BY <1>1
    <2> HIDE DEF n
    <2> QED BY <2>1
<1>3. Y[c] \in Int
    BY <1>1
<1>4. HolePlans(c) = <<Plan(Selecting(<<>>, c, ones), "eq", 1, 0),
                       Plan(Selecting(x, c, mins), "ge", 0, 0),
                       Plan(Selecting(x, c, maxs), "le", 0, 0)>>
    BY DEF HolePlans
<1>5. /\ \A r \in 1 .. n : ones[r] = 1
      /\ \A r \in 1 .. n : mins[r] = -intervals[c][r].min
      /\ \A r \in 1 .. n : maxs[r] = -intervals[c][r].max
    OBVIOUS
<1>6. \A r \in 1 .. n : SelectorValues(c, ones, Y)[r] = 1 * Y[SelectorsBefore(c) + r]
    BY DEF SelectorValues
<1> HIDE DEF ones, mins, maxs, n
<1>7. /\ TermsAt(cols, Selecting(<<>>, c, ones), Y) = Sum(ones)
      /\ TermsAt(cols, Selecting(x, c, mins), Y) = Y[c] + Sum(mins)
      /\ TermsAt(cols, Selecting(x, c, maxs), Y) = Y[c] + Sum(maxs)
    BY <1>2, SelectingSums DEF n
<1>8. /\ Numbers(SelectorValues(c, ones, Y)) /\ Len(SelectorValues(c, ones, Y)) = n
      /\ Numbers(SelectorValues(c, mins, Y)) /\ Numbers(SelectorValues(c, maxs, Y))
    BY <1>2, SelectingSums DEF n
<1>9. Sum(ones) \in Int /\ Sum(mins) \in Int /\ Sum(maxs) \in Int
    BY <1>8, TotalType
<1>10. PICK p1, p2, p3 : /\ p1 = Plan(Selecting(<<>>, c, ones), "eq", 1, 0)
                         /\ p2 = Plan(Selecting(x, c, mins), "ge", 0, 0)
                         /\ p3 = Plan(Selecting(x, c, maxs), "le", 0, 0)
    OBVIOUS
<1>11. PICK ps : ps = HolePlans(c)
    OBVIOUS
<1>12. ps[1] = p1 /\ ps[2] = p2 /\ ps[3] = p3
    BY <1>4, <1>10, <1>11
<1>13. PlansOf(cols, ps, Y) <=> PlanSays(cols, p1, Y) /\ PlanSays(cols, p2, Y) /\ PlanSays(cols, p3, Y)
    <2>1. 1 \in 1 .. 3 /\ 2 \in 1 .. 3 /\ 3 \in 1 .. 3 /\ \A j \in 1 .. 3 : j = 1 \/ j = 2 \/ j = 3
        OBVIOUS
    <2> QED BY <1>12, <2>1 DEF PlansOf
<1>14. PlanSays(cols, p1, Y) <=> Sum(ones) = 1
    <2>1. p1.bin = 0 /\ p1.terms = Selecting(<<>>, c, ones) /\ p1.sense = "eq" /\ p1.rhs = 1
        BY <1>10 DEF Plan
    <2>2. PlanSays(cols, p1, Y) <=> Compares(Sum(ones), "eq", 1)
        BY <1>7, <2>1 DEF PlanSays
    <2> QED BY <1>9, <2>2, ComparesIs
<1>15. PlanSays(cols, p2, Y) <=> Y[c] + Sum(mins) >= 0
    <2>1. p2.bin = 0 /\ p2.terms = Selecting(x, c, mins) /\ p2.sense = "ge" /\ p2.rhs = 0
        BY <1>10 DEF Plan
    <2>2. PlanSays(cols, p2, Y) <=> Compares(Y[c] + Sum(mins), "ge", 0)
        BY <1>7, <2>1 DEF PlanSays
    <2>3. Y[c] + Sum(mins) \in Int
        BY <1>3, <1>9
    <2> QED BY <2>2, <2>3, ComparesIs
<1>16. PlanSays(cols, p3, Y) <=> Y[c] + Sum(maxs) <= 0
    <2>1. p3.bin = 0 /\ p3.terms = Selecting(x, c, maxs) /\ p3.sense = "le" /\ p3.rhs = 0
        BY <1>10 DEF Plan
    <2>2. PlanSays(cols, p3, Y) <=> Compares(Y[c] + Sum(maxs), "le", 0)
        BY <1>7, <2>1 DEF PlanSays
    <2>3. Y[c] + Sum(maxs) \in Int
        BY <1>3, <1>9
    <2> QED BY <2>2, <2>3, ComparesIs
<1>17. Sum(ones) = 1 <=> \E k \in 1 .. n : Picks(c, k, Y)
    <2>1. PICK w : w = SelectorValues(c, ones, Y)
        OBVIOUS
    <2>2. Numbers(w) /\ Len(w) = n
        BY <1>8, <2>1
    <2>3. \A r \in 1 .. n : w[r] = Y[SelectorsBefore(c) + r] /\ w[r] \in {0, 1}
        <3> SUFFICES ASSUME NEW r \in 1 .. n
                     PROVE  w[r] = Y[SelectorsBefore(c) + r] /\ w[r] \in {0, 1}
            OBVIOUS
        <3>1. PICK v \in {0, 1} : v = Y[SelectorsBefore(c) + r]
            BY DEF n
        <3>2. w[r] = 1 * v /\ 1 * v = v
            BY <1>6, <2>1, <3>1
        <3> QED BY <3>1, <3>2
    <2>4. Total(w) = 1 <=> \E k \in 1 .. n : w[k] = 1 /\ \A i \in 1 .. n : i # k => w[i] = 0
        BY <2>2, <2>3, TotalIsOne
    <2>5. \A k \in 1 .. n : Picks(c, k, Y) <=> (w[k] = 1 /\ \A i \in 1 .. n : i # k => w[i] = 0)
        BY <2>3 DEF Picks, n
    <2> QED BY <2>1, <2>4, <2>5
<1>18. ASSUME NEW k \in 1 .. n, Picks(c, k, Y)
       PROVE  (Y[c] + Sum(mins) >= 0 /\ Y[c] + Sum(maxs) <= 0) <=> Within(Y[c], intervals[c][k])
    <2>1. Sum(mins) = mins[k] /\ Sum(maxs) = maxs[k]
        BY <1>2, <1>18, PickedSum DEF n
    <2>2. PICK v \in Int, lo \in Int, hi \in Int :
              v = Y[c] /\ lo = intervals[c][k].min /\ hi = intervals[c][k].max
        BY <1>1, <1>3
    <2>3. Sum(mins) = -lo /\ Sum(maxs) = -hi
        BY <1>5, <2>1, <2>2
    <2>4. (v + (-lo) >= 0 /\ v + (-hi) <= 0) <=> (lo <= v /\ v <= hi)
        OBVIOUS
    <2>5. Within(Y[c], intervals[c][k]) <=> lo <= v /\ v <= hi
        BY <2>2 DEF Within
    <2> HIDE DEF Sum
    <2> QED BY <2>2, <2>3, <2>4, <2>5
<1> HIDE DEF Sum
<1> QED BY <1>11, <1>13, <1>14, <1>15, <1>16, <1>17, <1>18 DEF n

-----------------------------------------------------------------------------
(***************************************************************************)
(* Bounds and intervals of a column.                                       *)
(***************************************************************************)
LEMMA HullCovers ==
    ASSUME intervals \in Seq(Seq(Interval)), ColumnsSolid, NEW c \in 1 .. Len(intervals),
           Ordered(intervals[c]), NEW v \in Values
    PROVE  /\ v \in Covered(intervals[c]) => v \in Hull(c)
           /\ ~Holey(c) => (v \in Covered(intervals[c]) <=> v \in Hull(c))
<1>1. PICK list : list = intervals[c]
    OBVIOUS
<1>2. list \in Seq(Interval)
    BY <1>1, ListsHold
<1>3. PICK n \in Nat : n = Len(list)
    BY <1>2
<1>4. n # 0 /\ (n > 1 => Filled(list))
    BY <1>1, <1>3 DEF ColumnsSolid, Solid
<1>5. n \in 1 .. n /\ 1 \in 1 .. n
    BY <1>3, <1>4
<1>6. Last(list) = list[n]
    BY <1>3 DEF Last
<1>7. \A i \in 1 .. n : list[i].min \in Int /\ list[i].max \in Int
    <2>1. \A i \in 1 .. n : list[i] \in Interval
        BY <1>2, <1>3
    <2> QED BY <2>1 DEF Interval
<1>8. v \in Int
    BY DomainsAssumption
<1>9. v \in Hull(c) <=> list[1].min <= v /\ v <= list[n].max
    BY <1>1, <1>6 DEF Hull
<1>10. v \in Covered(list) <=> \E i \in 1 .. n : list[i].min <= v /\ v <= list[i].max
    BY <1>3, CoveredIs DEF Within
<1>11. ASSUME NEW i \in 1 .. n PROVE list[1].min <= list[i].min /\ list[i].max <= list[n].max
    <2>1. CASE n = 1
        <3>1. i = 1 /\ n = 1
            BY <2>1
        <3>2. list[1].min \in Int /\ list[1].max \in Int
            BY <1>5, <1>7
        <3> QED BY <3>1, <3>2
    <2>2. CASE n # 1
        <3>1. \A j \in 1 .. n : list[j].min <= list[j].max
            BY <1>3, <1>4, <2>2 DEF Filled
        <3>2. \A j, k \in 1 .. n : j < k => list[j].max < list[k].min
            BY <1>1, <1>3 DEF Ordered
        <3>3. list[1].min <= list[i].min
            <4>1. CASE i = 1
                BY <1>7, <4>1
            <4>2. CASE i # 1
                <5>1. 1 < i
                    BY <4>2
                <5>2. list[1].max < list[i].min /\ list[1].min <= list[1].max
                    BY <1>5, <3>1, <3>2, <5>1
                <5> QED BY <1>5, <1>7, <5>2
            <4> QED BY <4>1, <4>2
        <3>4. list[i].max <= list[n].max
            <4>1. CASE i = n
                BY <1>7, <4>1
            <4>2. CASE i # n
                <5>1. i < n
                    BY <4>2
                <5>2. list[i].max < list[n].min /\ list[n].min <= list[n].max
                    BY <1>5, <3>1, <3>2, <5>1
                <5> QED BY <1>5, <1>7, <5>2
            <4> QED BY <4>1, <4>2
        <3> QED BY <3>3, <3>4
    <2> QED BY <2>1, <2>2
<1>12. v \in Covered(list) => v \in Hull(c)
    <2> SUFFICES ASSUME NEW i \in 1 .. n, list[i].min <= v, v <= list[i].max
                 PROVE  list[1].min <= v /\ v <= list[n].max
        BY <1>9, <1>10
    <2>1. PICK a \in Int, b \in Int, lo \in Int, hi \in Int :
              a = list[i].min /\ b = list[i].max /\ lo = list[1].min /\ hi = list[n].max
        BY <1>5, <1>7
    <2>2. lo <= a /\ b <= hi /\ a <= v /\ v <= b
        BY <1>11, <2>1
    <2>3. lo <= v /\ v <= hi
        BY <1>8, <2>2
    <2> QED BY <2>1, <2>3
<1>13. ASSUME ~Holey(c), v \in Hull(c) PROVE v \in Covered(list)
    <2>1. n = 1
        <3>1. ~(n > 1)
            BY <1>1, <1>3, <1>13 DEF Holey
        <3>2. n # 0
            BY <1>4
        <3> QED BY <3>1, <3>2
    <2> QED BY <1>5, <1>9, <1>10, <1>13, <2>1
<1> QED BY <1>1, <1>12, <1>13

\* Once the columns are done, every decision's value is one it may take exactly when
\* every column's is in one of its intervals.
LEMMA DomainsAreColumns ==
    ASSUME DInv, Ready, NEW y \in [1 .. Len(intervals) -> Values]
    PROVE  (\A d \in Decisions : y[ColumnOf(d)] \in Allowed(d))
               <=> \A c \in 1 .. Len(intervals) : y[c] \in Covered(intervals[c])
<1>1. \A d : d \in Decisions <=> d \in 1 .. decision - 1
    <2>1. Len(model.column) \in Nat /\ decision \in 1 .. Len(model.column) + 1
        BY ModelParts DEF DInv, DomainsTypeOK
    <2>2. decision > Len(model.column)
        BY DEF Ready, ColumnsDone
    <2>3. decision - 1 = Len(model.column)
        BY <2>1, <2>2
    <2> QED BY <2>3 DEF Decisions
<1>2. \A c \in 1 .. Len(intervals) : \A v \in Values :
          v \in Covered(intervals[c]) <=> \A d \in Decisions : ColumnOf(d) = c => v \in Allowed(d)
    <2> SUFFICES ASSUME NEW c \in 1 .. Len(intervals), NEW v \in Values
                 PROVE  v \in Covered(intervals[c])
                            <=> \A d \in Decisions : ColumnOf(d) = c => v \in Allowed(d)
        OBVIOUS
    <2>1. Covered(intervals[c])
              = {w \in Values : \A d \in 1 .. decision - 1 : ColumnOf(d) = c => w \in Allowed(d)}
        BY DEF DInv, IntervalsAreDomains
    <2>2. v \in Covered(intervals[c])
              <=> \A d \in 1 .. decision - 1 : ColumnOf(d) = c => v \in Allowed(d)
        BY <2>1
    <2> QED BY <1>1, <2>2
<1>3. \A d \in Decisions : ColumnOf(d) \in 1 .. Len(intervals)
    BY ReadyColumns
<1>4. \A c \in 1 .. Len(intervals) : y[c] \in Values
    OBVIOUS
<1> QED BY <1>2, <1>3, <1>4


\* Values for the model's columns and for the selectors.
LEMMA WithSelectors ==
    ASSUME DInv, Ready, NEW y \in [1 .. Len(intervals) -> Values],
           NEW z \in [Len(intervals) + 1 .. columns -> {0, 1}]
    PROVE  /\ Along(y, z) \in [AllColumns -> Int]
           /\ \A c \in 1 .. Len(intervals) : Along(y, z)[c] = y[c]
           /\ \A s \in Len(intervals) + 1 .. columns : Along(y, z)[s] = z[s]
           /\ \A c \in 1 .. Len(intervals) : Holey(c) =>
                 \A r \in 1 .. Len(intervals[c]) :
                     /\ SelectorsBefore(c) + r \in Len(intervals) + 1 .. columns
                     /\ Along(y, z)[SelectorsBefore(c) + r] \in {0, 1}
<1>1. PICK n, u, Y : n = Len(intervals) /\ u = columns /\ Y = Along(y, z)
    OBVIOUS
<1>2. n \in Nat /\ u \in Nat /\ AllColumns = 1 .. u /\ n <= u
    <2>1. Len(intervals) \in Nat /\ Selectors \in Nat /\ columns = Len(intervals) + Selectors
        BY ReadyColumns DEF Ready
    <2> QED BY <1>1, <2>1 DEF AllColumns
<1>3. y \in [1 .. n -> Values] /\ z \in [n + 1 .. u -> {0, 1}]
    BY <1>1
<1>4. Y = [s \in (1 .. n) \cup (n + 1 .. u) |-> IF s \in 1 .. n THEN y[s] ELSE z[s]]
    BY <1>1, <1>3 DEF Along
<1>5. (1 .. n) \cup (n + 1 .. u) = 1 .. u
    BY <1>2
<1>6. \A s \in n + 1 .. u : s \notin 1 .. n /\ s \in 1 .. u
    BY <1>2
<1>7. \A s \in 1 .. n : s \in 1 .. u
    BY <1>2
<1>8. (\A s \in 1 .. n : Y[s] = y[s]) /\ \A s \in n + 1 .. u : Y[s] = z[s]
    BY <1>4, <1>5, <1>6, <1>7
<1>9. \A s \in 1 .. u : Y[s] \in Int
    <2> SUFFICES ASSUME NEW s \in 1 .. u PROVE Y[s] \in Int
        OBVIOUS
    <2>1. CASE s \in 1 .. n
        BY <1>3, <1>8, <2>1, DomainsAssumption
    <2>2. CASE s \in n + 1 .. u
        <3>1. z[s] \in {0, 1}
            BY <1>3, <2>2
        <3> QED BY <1>8, <2>2, <3>1
    <2> QED BY <1>5, <2>1, <2>2
<1>10. Y \in [1 .. u -> Int]
    BY <1>4, <1>5, <1>9
<1>11. ASSUME NEW c \in 1 .. n, Holey(c), NEW r \in 1 .. Len(intervals[c])
       PROVE  SelectorsBefore(c) + r \in n + 1 .. u /\ Y[SelectorsBefore(c) + r] \in {0, 1}
    <2>1. intervals \in Seq(Seq(Interval))
        BY DEF DInv, DomainsTypeOK
    <2>2. SelectorsBefore(c) + r \in 1 .. u /\ SelectorsBefore(c) + r > n
        BY <1>1, <1>2, <1>11, <2>1, SelectorsIn
    <2>3. SelectorsBefore(c) + r \in n + 1 .. u
        BY <1>2, <2>2
    <2>4. z[SelectorsBefore(c) + r] \in {0, 1}
        BY <1>3, <2>3
    <2> QED BY <1>8, <2>3, <2>4
<1> QED BY <1>1, <1>2, <1>8, <1>10, <1>11

\* A choice of selectors for values that are in the columns' intervals.
LEMMA SelectorsChosen ==
    ASSUME DInv, Ready, NEW y \in [1 .. Len(intervals) -> Values],
           \A c \in 1 .. Len(intervals) : y[c] \in Covered(intervals[c])
    PROVE  \E z \in [Len(intervals) + 1 .. columns -> {0, 1}] :
              \A c \in 1 .. Len(intervals) : Holey(c) =>
                  \E k \in 1 .. Len(intervals[c]) :
                      Picks(c, k, Along(y, z)) /\ Within(Along(y, z)[c], intervals[c][k])
<1> DEFINE n == Len(intervals)
           B(c) == SelectorsBefore(c)
           In(c) == CHOOSE k \in 1 .. Len(intervals[c]) : Within(y[c], intervals[c][k])
           Is(c, s) == Holey(c) /\ s = B(c) + In(c)
           z == [s \in n + 1 .. columns |-> IF \E c \in 1 .. n : Is(c, s) THEN 1 ELSE 0]
<1>1. intervals \in Seq(Seq(Interval)) /\ Len(intervals) \in Nat
    <2>1. intervals \in Seq(Seq(Interval))
        BY DEF DInv, DomainsTypeOK
    <2> QED BY <2>1, ListsHold
<1>2. \A c \in 1 .. n : In(c) \in 1 .. Len(intervals[c]) /\ Within(y[c], intervals[c][In(c)])
    BY CoveredIs
<1>3. z \in [n + 1 .. columns -> {0, 1}]
    OBVIOUS
<1>4. \A s \in n + 1 .. columns : z[s] = IF \E c \in 1 .. n : Is(c, s) THEN 1 ELSE 0
    OBVIOUS
<1> HIDE DEF In, z, B
<1>5. /\ \A c \in 1 .. n : Along(y, z)[c] = y[c]
      /\ \A s \in n + 1 .. columns : Along(y, z)[s] = z[s]
      /\ \A c \in 1 .. n : Holey(c) =>
            \A r \in 1 .. Len(intervals[c]) : B(c) + r \in n + 1 .. columns
    BY <1>3, WithSelectors DEF B
<1>6. \A c \in 1 .. n : Len(intervals[c]) \in Nat /\ B(c) \in Nat /\ (Holey(c) => SelectorsOf(c) = Len(intervals[c]))
    BY <1>1, ListsHold, SelectorPlaces DEF SelectorsApart, SelectorsOf, B
<1>7. \A c, d \in 1 .. n : c < d /\ Holey(c) => B(c) + Len(intervals[c]) <= B(d)
    BY <1>1, <1>6, SelectorPlaces DEF SelectorsApart, B
<1>8. ASSUME NEW c \in 1 .. n, NEW d \in 1 .. n, Holey(c), Holey(d),
             NEW r \in 1 .. Len(intervals[c]), B(c) + r = B(d) + In(d)
      PROVE  c = d /\ r = In(c)
    <2>1. PICK b \in Nat, e \in Nat, l \in Nat, m \in Nat, i \in Nat :
              b = B(c) /\ e = B(d) /\ l = Len(intervals[c]) /\ m = Len(intervals[d]) /\ i = In(d)
        <3>1. In(d) \in Nat
            BY <1>2, <1>6
        <3> QED BY <1>6, <3>1
    <2>2. r \in 1 .. l /\ i \in 1 .. m /\ b + r = e + i
        BY <1>2, <1>8, <2>1
    <2>3. (c < d => b + l <= e) /\ (d < c => e + m <= b)
        BY <1>7, <1>8, <2>1
    <2>4. c = d
        <3>1. c \in Int /\ d \in Int
            BY <1>1
        <3>2. ~(b + l <= e) /\ ~(e + m <= b)
            BY <2>2
        <3>3. ~(c < d) /\ ~(d < c)
            BY <2>3, <3>2
        <3> QED BY <3>1, <3>3
    <2>5. b = e
        BY <2>1, <2>4
    <2>6. r = i
        BY <2>1, <2>2, <2>5
    <2> QED BY <2>1, <2>4, <2>6
<1>9. ASSUME NEW c \in 1 .. n, Holey(c)
      PROVE  Picks(c, In(c), Along(y, z)) /\ Within(Along(y, z)[c], intervals[c][In(c)])
    <2>1. ASSUME NEW r \in 1 .. Len(intervals[c])
          PROVE  Along(y, z)[B(c) + r] = IF r = In(c) THEN 1 ELSE 0
        <3>1. B(c) + r \in n + 1 .. columns
            BY <1>5, <1>9
        <3>2. Along(y, z)[B(c) + r] = IF \E d \in 1 .. n : Is(d, B(c) + r) THEN 1 ELSE 0
            BY <1>4, <1>5, <3>1
        <3>3. (\E d \in 1 .. n : Is(d, B(c) + r)) <=> r = In(c)
            <4>1. ASSUME NEW d \in 1 .. n, Is(d, B(c) + r) PROVE r = In(c)
                BY <1>8, <1>9, <4>1
            <4>2. ASSUME r = In(c) PROVE Is(c, B(c) + r)
                BY <1>9, <4>2
            <4> QED BY <4>1, <4>2
        <3> HIDE DEF Is
        <3> QED BY <3>2, <3>3
    <2>2. Picks(c, In(c), Along(y, z))
        BY <2>1 DEF Picks, B
    <2>3. Within(Along(y, z)[c], intervals[c][In(c)])
        BY <1>2, <1>5
    <2> QED BY <2>2, <2>3
<1>10. \A c \in 1 .. n : In(c) \in 1 .. Len(intervals[c])
    BY <1>2
<1> QED BY <1>3, <1>9, <1>10

\* The bounds and the plans of the columns with holes, for values y and a choice of
\* selectors: y is in the columns' intervals.
LEMMA HolesMean ==
    ASSUME DInv, ShapeInv, Ready, NEW y \in [1 .. Len(intervals) -> Values]
    PROVE  (\A c \in 1 .. Len(intervals) : y[c] \in Covered(intervals[c]))
              <=> /\ y \in Assignments
                  /\ \E z \in [Len(intervals) + 1 .. columns -> {0, 1}] : HolesSay(Along(y, z))
<1> DEFINE n == Len(intervals)
           Z == [n + 1 .. columns -> {0, 1}]
           In(c, k, Y) == Picks(c, k, Y) /\ Within(Y[c], intervals[c][k])
<1>1. intervals \in Seq(Seq(Interval)) /\ ColumnsSolid /\ \A c \in 1 .. n : Ordered(intervals[c])
    BY DEF DInv, DomainsTypeOK, ShapeInv, IntervalsAreDomains
<1>2. \A c \in 1 .. n : y[c] \in Values
    OBVIOUS
<1>3. \A c \in 1 .. n : /\ y[c] \in Covered(intervals[c]) => y[c] \in Hull(c)
                        /\ ~Holey(c) => (y[c] \in Covered(intervals[c]) <=> y[c] \in Hull(c))
    BY <1>1, <1>2, HullCovers
<1>4. y \in Assignments <=> \A c \in 1 .. n : y[c] \in Hull(c)
    BY DEF Assignments
<1>5. ASSUME NEW z \in Z
      PROVE  HolesSay(Along(y, z))
                 <=> \A c \in 1 .. n : Holey(c) => \E k \in 1 .. Len(intervals[c]) : In(c, k, Along(y, z))
    <2>1. PICK Y : Y = Along(y, z)
        OBVIOUS
    <2>2. /\ Y \in [AllColumns -> Int]
          /\ \A c \in 1 .. n : Holey(c) =>
                \A r \in 1 .. Len(intervals[c]) : Y[SelectorsBefore(c) + r] \in {0, 1}
        BY <2>1, WithSelectors
    <2>3. ASSUME NEW c \in 1 .. n, Holey(c)
          PROVE  PlansOf(model.column, HolePlans(c), Y)
                     <=> \E k \in 1 .. Len(intervals[c]) : In(c, k, Y)
        BY <1>1, <2>2, <2>3, HolePlansMean
    <2> HIDE DEF In
    <2> QED BY <2>1, <2>3 DEF HolesSay
<1>6. ASSUME \A c \in 1 .. n : y[c] \in Covered(intervals[c])
      PROVE  y \in Assignments /\ \E z \in Z : HolesSay(Along(y, z))
    <2>1. PICK z \in Z : \A c \in 1 .. n : Holey(c) => \E k \in 1 .. Len(intervals[c]) : In(c, k, Along(y, z))
        BY <1>6, SelectorsChosen
    <2>2. HolesSay(Along(y, z))
        BY <1>5, <2>1
    <2> QED BY <1>3, <1>4, <1>6, <2>2
<1>7. ASSUME y \in Assignments, NEW z \in Z, HolesSay(Along(y, z)), NEW c \in 1 .. n
      PROVE  y[c] \in Covered(intervals[c])
    <2>1. CASE Holey(c)
        <3>1. PICK k \in 1 .. Len(intervals[c]) : In(c, k, Along(y, z))
            BY <1>5, <1>7, <2>1
        <3>2. Along(y, z)[c] = y[c]
            BY WithSelectors
        <3>3. Within(y[c], intervals[c][k])
            BY <3>1, <3>2
        <3> QED BY <1>2, <3>3, CoveredIs
    <2>2. CASE ~Holey(c)
        BY <1>3, <1>4, <1>7, <2>2
    <2> QED BY <2>1, <2>2
<1> QED BY <1>6, <1>7

\* For all models, backends and layers: a column's bounds and the rows given for the
\* domains with holes leave the columns exactly the values that all decisions'
\* domains allow, each with a choice of selectors (mip_model.cpp, build).
THEOREM HoleRowsMean == FormsSpec => []HolesMeanDomain
<1>1. DomainsInv => HolesMeanDomain
    <2> SUFFICES ASSUME DomainsInv, ItemDone, item = Holes, layer = 1,
                        NEW y \in [1 .. Len(intervals) -> Values]
                 PROVE  (\A d \in Decisions : y[ColumnOf(d)] \in Allowed(d))
                            <=> /\ y \in Assignments
                                /\ \E z \in [Len(intervals) + 1 .. columns -> {0, 1}] :
                                      \A i \in DOMAIN given : RowHolds(given[i], Along(y, z))
        BY DEF HolesMeanDomain
    <2>1. DInv /\ IInv /\ ShapeInv /\ HandInv /\ HolesMeaning
        BY DEF DomainsInv, MeaningInv, BuildInv
    <2>2. phase = "rows" /\ queue = <<>>
        BY DEF ItemDone
    <2>3. Ready /\ item = IF position = 0 THEN Holes ELSE Constraints[position]
        BY <2>1, <2>2 DEF HandInv, ItemInHand
    <2>4. position = 0
        <3>1. ASSUME position # 0 PROVE FALSE
            <4>1. position \in 1 .. Len(Constraints)
                BY <2>1, <3>1, HandParts
            <4>2. WellFormed(item, model)
                BY <2>1, <2>3, <3>1, <4>1, HandParts
            <4> QED BY <4>2 DEF WellFormed, Holes
        <3> QED BY <3>1
    <2>5. \A Y \in [Column -> Int] : AllHold(model.column, given, <<>>, Y) <=> HolesSay(Y)
        BY <2>1, <2>2, <2>4 DEF HolesMeaning
    <2>6. Column = AllColumns
        BY <2>3 DEF Ready, Column, AllColumns
    <2>7. \A Y : AllHold(model.column, given, <<>>, Y) <=> \A i \in DOMAIN given : RowHolds(given[i], Y)
        <3>1. DOMAIN given = 1 .. Len(given)
            BY <2>1 DEF HandInv, GivenInHand
        <3>2. Len(<<>>) = 0 /\ \A i \in 1 .. 0 : FALSE
            OBVIOUS
        <3> QED BY <3>1, <3>2 DEF AllHold
    <2>8. ASSUME NEW z \in [Len(intervals) + 1 .. columns -> {0, 1}]
          PROVE  (\A i \in DOMAIN given : RowHolds(given[i], Along(y, z))) <=> HolesSay(Along(y, z))
        <3>1. PICK Y : Y = Along(y, z)
            OBVIOUS
        <3>2. Y \in [Column -> Int]
            BY <2>1, <2>3, <2>6, <3>1, WithSelectors
        <3>3. (\A i \in DOMAIN given : RowHolds(given[i], Y)) <=> HolesSay(Y)
            BY <2>5, <2>7, <3>2
        <3> QED BY <3>1, <3>3
    <2>9. (\A d \in Decisions : y[ColumnOf(d)] \in Allowed(d))
              <=> \A c \in 1 .. Len(intervals) : y[c] \in Covered(intervals[c])
        BY <2>1, <2>3, DomainsAreColumns
    <2>10. (\A c \in 1 .. Len(intervals) : y[c] \in Covered(intervals[c]))
              <=> /\ y \in Assignments
                  /\ \E z \in [Len(intervals) + 1 .. columns -> {0, 1}] : HolesSay(Along(y, z))
        BY <2>1, <2>3, HolesMean
    <2> QED BY <2>8, <2>9, <2>10
<1> QED BY <1>1, DomainsInvariant, PTL

=============================================================================
