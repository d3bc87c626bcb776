------------------------ MODULE IncrementalRunProofs ------------------------
(***************************************************************************)
(* Proofs about IncrementalRun, for any callers: any number of layers, of  *)
(* decisions in them, any domains, objectives and order of pushes,         *)
(* retractions and runs.                                                   *)
(*                                                                         *)
(* A build is loops, and what one leaves is proved by induction on its     *)
(* turns (module Induction): Extends says what of it the runs rest on.     *)
(* Around it there are five invariants: Inv, the shape of what is kept;    *)
(* RowsInv, which rows there are; CostInv, which costs; StartInv, of which *)
(* variables the remembered values are; ColumnsInv, which decisions share  *)
(* a column and which values it admits.                                    *)
(***************************************************************************)
EXTENDS IncrementalRun, Induction, FiniteSetTheorems

(***************************************************************************)
(* What the states consist of.                                             *)
(***************************************************************************)
Sets        == {domain \in SUBSET Values :
                   IsFiniteSet(Starts(domain)) /\ \E low \in Int : \A v \in domain : low <= v}
Ids         == Nat \X Nat
Decision    == [id : Ids, domain : Sets]
Constraint  == [id : Nat \X {1}, kind : {"row", "join", "bad"}, a : Nat, b : Nat]
BackendRow  == [id : Ids, cols : SUBSET Nat, domain : SUBSET Int]
BackendCol  == [bounds : SUBSET Int, cost : BOOLEAN]
Leaders(n)  == {leader \in [1 .. n -> 1 .. n] : \A d \in 1 .. n : leader[d] <= d}
Classes(n)  == [leader : Leaders(n), rebuild : BOOLEAN]
Visited(n)  == [column : [1 .. n -> Nat], intervals : Seq(Sets), bounds : Seq(SUBSET Int),
                rebuild : BOOLEAN]
Encoded     == [selectors : Nat, rows : Seq(BackendRow)]

-----------------------------------------------------------------------------
(* Helpers.                                                                *)
LEMMA MinOfTwo ==
    ASSUME NEW x \in Int, NEW y \in Int
    PROVE  Min({x, y}) = IF x <= y THEN x ELSE y
<1>1. \A S, z : z \in S /\ (\A w \in S : z <= w) => Min(S) \in S /\ \A w \in S : Min(S) <= w
    BY DEF Min
<1>2. \E z \in {x, y} : \A w \in {x, y} : z <= w
    OBVIOUS
<1>3. Min({x, y}) \in {x, y} /\ \A w \in {x, y} : Min({x, y}) <= w
    BY <1>1, <1>2
<1> QED BY <1>3

LEMMA MergeType ==
    ASSUME NEW n \in Nat, NEW leader \in Leaders(n), NEW x \in 1 .. n, NEW y \in 1 .. n
    PROVE  Merge(leader, x, y) \in Leaders(n)
<1>1. leader \in [1 .. n -> 1 .. n] /\ \A d \in 1 .. n : leader[d] <= d
    BY DEF Leaders
<1> DEFINE both == {leader[x], leader[y]}
<1>2. Min(both) \in 1 .. n /\ Min(both) <= leader[x] /\ Min(both) <= leader[y]
    <2>1. leader[x] \in 1 .. n /\ leader[y] \in 1 .. n
        BY <1>1
    <2>2. Min(both) = IF leader[x] <= leader[y] THEN leader[x] ELSE leader[y]
        BY <2>1, MinOfTwo
    <2> QED BY <2>1, <2>2
<1>3. \A d \in 1 .. n : leader[d] \in both => Min(both) <= leader[d]
    BY <1>2
<1> HIDE DEF both
<1>4. Merge(leader, x, y) = [d \in 1 .. n |-> IF leader[d] \in both THEN Min(both) ELSE leader[d]]
    BY <1>1 DEF Merge, both
<1>5. \A d \in 1 .. n : (IF leader[d] \in both THEN Min(both) ELSE leader[d]) \in 1 .. d
    BY <1>1, <1>2, <1>3
<1>6. Merge(leader, x, y) \in [1 .. n -> 1 .. n]
    BY <1>1, <1>2, <1>4
<1>7. \A d \in 1 .. n : Merge(leader, x, y)[d] <= d
    BY <1>4, <1>5
<1> HIDE DEF Merge
<1> QED BY <1>6, <1>7 DEF Leaders

LEMMA JoinType ==
    ASSUME NEW n \in Nat, NEW s \in Classes(n), NEW c, c.a \in 1 .. n, c.b \in 1 .. n,
           NEW column, NEW extending \in BOOLEAN
    PROVE  Join(s, c, column, extending) \in Classes(n)
<1>1. Merge(s.leader, c.a, c.b) \in Leaders(n)
    BY MergeType DEF Classes
<1>2. [s EXCEPT !.rebuild = TRUE] \in Classes(n)
    BY DEF Classes
<1>3. [s EXCEPT !.leader = Merge(s.leader, c.a, c.b)] \in Classes(n)
    BY <1>1 DEF Classes
<1> QED BY <1>2, <1>3 DEF Join

\* The classes after each constraint of pass 1.
Joins(h, n, cons, m, first, extending) ==
    /\ h \in [0 .. Len(cons) -> Classes(n)]
    /\ h[0] = [leader |-> [d \in 1 .. n |-> IF extending /\ d <= first THEN m.leader[d] ELSE d],
               rebuild |-> FALSE]
    /\ \A i \in 1 .. Len(cons) :
          h[i] = Join(h[i - 1], cons[i], OldColumns(n, m, extending), extending)
    /\ PassOne(n, cons, m, first, extending) = h[Len(cons)]

LEMMA PassOneTurns ==
    ASSUME NEW n \in Nat, NEW cons \in Seq(Constraint),
           \A i \in 1 .. Len(cons) : cons[i].a \in 1 .. n /\ cons[i].b \in 1 .. n,
           NEW m, NEW first, NEW extending \in BOOLEAN,
           \A d \in 1 .. n : extending /\ d <= first => m.leader[d] \in 1 .. d
    PROVE  \E h : Joins(h, n, cons, m, first, extending)
<1> DEFINE N == Len(cons)
           S == Classes(n)
           base == [leader |-> [d \in 1 .. n |-> IF extending /\ d <= first
                                                 THEN m.leader[d] ELSE d],
                    rebuild |-> FALSE]
           Turn(s, i) == Join(s, cons[i], OldColumns(n, m, extending), extending)
           F == [i \in 1 .. N |-> [s \in S |-> Turn(s, i)]]
           after[i \in 0 .. N] == IF i = 0 THEN base ELSE Turn(after[i - 1], i)
<1>1. N \in Nat
    OBVIOUS
<1>2. base \in S
    <2> DEFINE leader == [d \in 1 .. n |-> IF extending /\ d <= first THEN m.leader[d] ELSE d]
    <2>1. leader \in [1 .. n -> 1 .. n] /\ \A d \in 1 .. n : leader[d] <= d
        OBVIOUS
    <2> HIDE DEF leader
    <2>2. [leader |-> leader, rebuild |-> FALSE] \in Classes(n)
        BY <2>1 DEF Classes, Leaders
    <2> QED BY <2>2 DEF leader
<1>3. \A i \in 1 .. N, s \in S : Turn(s, i) \in S
    BY JoinType
<1>4. PassOne(n, cons, m, first, extending) = after[N]
    BY DEF PassOne, Repeat
<1> HIDE DEF N, S, base, Turn
<1>5. F \in [1 .. N -> [S -> S]]
    BY <1>3
<1>6. PICK h : h \in [0 .. N -> S] /\ h[0] = base /\ \A i \in 1 .. N : h[i] = F[i][h[i - 1]]
    <2> HIDE DEF F
    <2>1. \E h : IsLoop(h, S, base, N, F)
        BY <1>1, <1>2, <1>5, LoopExists, Zenon
    <2> QED BY <2>1 DEF IsLoop
<1>7. \A i \in 1 .. N : h[i] = Turn(h[i - 1], i)
    <2> TAKE i \in 1 .. N
    <2>1. h[i - 1] \in S
        BY <1>1, <1>6
    <2> QED BY <1>6, <2>1
<1>8. h = [i \in 0 .. N |-> IF i = 0 THEN base ELSE Turn(h[i - 1], i)]
    BY <1>1, <1>6, <1>7
<1>9. after = [i \in 0 .. N |-> IF i = 0 THEN base ELSE Turn(after[i - 1], i)]
    BY <1>8
<1> HIDE DEF after, F
<1>10. after[N] = h[N]
    <2>1. after[0] = h[0]
        BY <1>1, <1>6, <1>9
    <2>2. \A i \in 1 .. N : after[i - 1] = h[i - 1] => after[i] = h[i]
        BY <1>1, <1>7, <1>9
    <2>3. \A i \in 0 .. N : after[i] = h[i]
        BY <1>1, <2>1, <2>2, LoopUnique, Zenon
    <2> QED BY <1>1, <2>3
<1> QED BY <1>4, <1>6, <1>7, <1>10 DEF N, S, base, Turn, Joins

LEMMA PassOneType ==
    ASSUME NEW n \in Nat, NEW cons \in Seq(Constraint),
           \A i \in 1 .. Len(cons) : cons[i].a \in 1 .. n /\ cons[i].b \in 1 .. n,
           NEW m, NEW first, NEW extending \in BOOLEAN,
           \A d \in 1 .. n : extending /\ d <= first => m.leader[d] \in 1 .. d
    PROVE  PassOne(n, cons, m, first, extending) \in Classes(n)
<1>1. PICK h : Joins(h, n, cons, m, first, extending)
    BY PassOneTurns, Zenon
<1> QED BY <1>1 DEF Joins

LEMMA DomainsAreSets == Domains \subseteq Sets
<1> SUFFICES ASSUME NEW domain \in Domains PROVE domain \in Sets
    OBVIOUS
<1>1. PICK p \in Programs : domain \in p.baseDomains \cup p.upperDomains
    BY DEF Domains
<1>2. /\ domain \subseteq Int /\ IsFiniteSet({v \in domain : v - 1 \notin domain})
      /\ domain # {} => \E low \in domain : \A v \in domain : low <= v
    BY <1>1, ProgramsAssumption
<1>3. \E low \in Int : \A v \in domain : low <= v
    <2>1. CASE domain = {}
        BY <2>1
    <2>2. CASE domain # {}
        BY <1>2, <2>2
    <2> QED BY <2>1, <2>2
<1>4. domain \subseteq Values
    BY DEF Values
<1> QED BY <1>2, <1>3, <1>4 DEF Sets, Starts

LEMMA ValuesAreInts == Values \subseteq Int
<1> SUFFICES ASSUME NEW domain \in Domains PROVE domain \subseteq Int
    BY DEF Values
<1>1. PICK p \in Programs : domain \in p.baseDomains \cup p.upperDomains
    BY DEF Domains
<1> QED BY <1>1, ProgramsAssumption

LEMMA SetsAreInts == \A domain \in Sets : domain \subseteq Int
BY ValuesAreInts DEF Sets

LEMMA EmptyIsSet == {} \in Sets
<1>1. Starts({}) = {}
    BY DEF Starts
<1>2. IsFiniteSet({})
    BY FS_EmptySet
<1>3. \E low \in Int : \A v \in {} : low <= v
    OBVIOUS
<1> QED BY <1>1, <1>2, <1>3 DEF Sets

LEMMA HullType == \A domain : Hull(domain) \in SUBSET Int
BY ValuesAreInts DEF Hull

LEMMA MeetIsSet ==
    ASSUME NEW x \in Sets, NEW y \in Sets
    PROVE  x \cap y \in Sets
<1>1. Starts(x \cap y) \subseteq Starts(x) \cup Starts(y)
    BY DEF Starts
<1>2. IsFiniteSet(Starts(x) \cup Starts(y))
    BY FS_Union DEF Sets
<1>3. IsFiniteSet(Starts(x \cap y))
    BY <1>1, <1>2, FS_Subset
<1>4. \E low \in Int : \A v \in x \cap y : low <= v
    BY DEF Sets
<1>5. x \cap y \subseteq Values
    BY DEF Sets
<1> QED BY <1>3, <1>4, <1>5 DEF Sets

LEMMA IntervalsType == \A domain \in Sets : Intervals(domain) \in Nat
BY FS_CardinalityType DEF Sets, Intervals

LEMMA SeqOfFunction ==
    ASSUME NEW S, NEW n \in Nat, NEW f \in [1 .. n -> S]
    PROVE  f \in Seq(S) /\ Len(f) = n
OBVIOUS

LEMMA ConcatParts ==
    ASSUME NEW S, NEW s \in Seq(S), NEW t \in Seq(S)
    PROVE  /\ s \o t \in Seq(S) /\ Len(s \o t) = Len(s) + Len(t)
           /\ \A i \in 1 .. Len(s) : (s \o t)[i] = s[i]
           /\ \A i \in Len(s) + 1 .. Len(s) + Len(t) : (s \o t)[i] = t[i - Len(s)]
OBVIOUS

LEMMA UpdateType ==
    ASSUME NEW S, NEW seq \in Seq(S), NEW i, NEW e \in S
    PROVE  [seq EXCEPT ![i] = e] \in Seq(S)
<1>1. seq \in [1 .. Len(seq) -> S] /\ Len(seq) \in Nat
    OBVIOUS
<1>2. [seq EXCEPT ![i] = e] \in [1 .. Len(seq) -> S]
    BY <1>1
<1> QED BY <1>1, <1>2

LEMMA VisitType ==
    ASSUME NEW n \in Nat, NEW s \in Visited(n), NEW d \in 1 .. n, NEW ds, ds[d].domain \in Sets,
           NEW p \in Classes(n), NEW base \in Nat, NEW stray \in Sets
    PROVE  Visit(s, d, ds, p, base, stray) \in Visited(n)
<1> DEFINE root == p.leader[d]
           c == s.column[root]
           new == base + Len(s.bounds) + 1
           both == At(s.intervals, c, stray) \cap ds[d].domain
<1>1. root \in 1 .. n /\ c \in Nat /\ new \in Nat
    BY DEF Classes, Leaders, Visited
<1>2. [s EXCEPT !.rebuild = TRUE] \in Visited(n)
    BY DEF Visited
<1>3. Place(s, d, root, ds[d].domain, base) \in Visited(n)
    <2>1. [s.column EXCEPT ![root] = new, ![d] = new] \in [1 .. n -> Nat]
        BY <1>1 DEF Visited
    <2>2. Append(s.intervals, ds[d].domain) \in Seq(Sets)
        BY DEF Visited
    <2>3. Append(s.bounds, Hull(ds[d].domain)) \in Seq(SUBSET Int)
        BY HullType DEF Visited
    <2> QED BY <2>1, <2>2, <2>3 DEF Place, Visited
<1>4. ASSUME c # 0 PROVE Narrow(s, d, c, both, base) \in Visited(n)
    <2>1. both \in Sets
        <3>1. At(s.intervals, c, stray) \in Sets
            BY <1>1, <1>4 DEF At, Visited
        <3> QED BY <3>1, MeetIsSet
    <2>2. [s.column EXCEPT ![d] = c] \in [1 .. n -> Nat]
        BY <1>1 DEF Visited
    <2>3. [s.intervals EXCEPT ![c] = both] \in Seq(Sets)
        <3>1. s.intervals \in Seq(Sets)
            BY DEF Visited
        <3> HIDE DEF both, c
        <3> QED BY <2>1, <3>1, UpdateType, Zenon
    <2>4. [s.bounds EXCEPT ![c - base] = Hull(both)] \in Seq(SUBSET Int)
        <3>1. s.bounds \in Seq(SUBSET Int)
            BY DEF Visited
        <3>2. Hull(both) \in SUBSET Int
            BY HullType
        <3> HIDE DEF both, c
        <3> QED BY <3>1, <3>2, UpdateType, Zenon
    <2> HIDE DEF both, c
    <2> QED BY <2>2, <2>3, <2>4 DEF Narrow, Visited
<1> QED BY <1>2, <1>3, <1>4 DEF Visit

\* The columns after each turn of the loop over the decisions.
Visits(h, ds, p, column, first, base, old, stray) ==
    /\ h \in [0 .. Len(ds) - first -> Visited(Len(ds))]
    /\ h[0] = [column |-> column, intervals |-> old, bounds |-> <<>>, rebuild |-> p.rebuild]
    /\ \A i \in 1 .. Len(ds) - first : h[i] = Visit(h[i - 1], first + i, ds, p, base, stray)
    /\ ColumnLoop(ds, p, column, first, base, old, stray) = h[Len(ds) - first]

LEMMA ColumnLoopTurns ==
    ASSUME NEW ds \in Seq(Decision), NEW p \in Classes(Len(ds)),
           NEW column \in [1 .. Len(ds) -> Nat], NEW first \in 0 .. Len(ds),
           NEW base \in Nat, NEW old \in Seq(Sets), NEW stray \in Sets
    PROVE  \E h : Visits(h, ds, p, column, first, base, old, stray)
<1> DEFINE N == Len(ds) - first
           S == Visited(Len(ds))
           init == [column |-> column, intervals |-> old, bounds |-> <<>>,
                    rebuild |-> p.rebuild]
           Turn(s, i) == Visit(s, first + i, ds, p, base, stray)
           F == [i \in 1 .. N |-> [s \in S |-> Turn(s, i)]]
           after[i \in 0 .. N] == IF i = 0 THEN init ELSE Turn(after[i - 1], i)
<1>1. N \in Nat
    OBVIOUS
<1>2. init \in S
    BY DEF Visited, Classes
<1>3. \A i \in 1 .. N, s \in S : Turn(s, i) \in S
    <2> TAKE i \in 1 .. N, s \in S
    <2>1. first + i \in 1 .. Len(ds)
        OBVIOUS
    <2>2. ds[first + i] \in Decision
        BY <2>1
    <2>3. ds[first + i].domain \in Sets
        BY <2>2 DEF Decision
    <2> QED BY <2>1, <2>3, VisitType
<1>4. ColumnLoop(ds, p, column, first, base, old, stray) = after[N]
    BY DEF ColumnLoop, Repeat
<1> HIDE DEF N, S, init, Turn
<1>5. F \in [1 .. N -> [S -> S]]
    BY <1>3
<1>6. PICK h : h \in [0 .. N -> S] /\ h[0] = init /\ \A i \in 1 .. N : h[i] = F[i][h[i - 1]]
    <2> HIDE DEF F
    <2>1. \E h : IsLoop(h, S, init, N, F)
        BY <1>1, <1>2, <1>5, LoopExists, Zenon
    <2> QED BY <2>1 DEF IsLoop
<1>7. \A i \in 1 .. N : h[i] = Turn(h[i - 1], i)
    <2> TAKE i \in 1 .. N
    <2>1. h[i - 1] \in S
        BY <1>1, <1>6
    <2> QED BY <1>6, <2>1
<1>8. h = [i \in 0 .. N |-> IF i = 0 THEN init ELSE Turn(h[i - 1], i)]
    BY <1>1, <1>6, <1>7
<1>9. after = [i \in 0 .. N |-> IF i = 0 THEN init ELSE Turn(after[i - 1], i)]
    BY <1>8
<1> HIDE DEF after, F
<1>10. after[N] = h[N]
    <2>1. after[0] = h[0]
        BY <1>1, <1>6, <1>9
    <2>2. \A i \in 1 .. N : after[i - 1] = h[i - 1] => after[i] = h[i]
        BY <1>1, <1>7, <1>9
    <2>3. \A i \in 0 .. N : after[i] = h[i]
        BY <1>1, <2>1, <2>2, LoopUnique, ZenonT(120)
    <2> QED BY <1>1, <2>3
<1> QED BY <1>4, <1>6, <1>7, <1>10 DEF N, S, init, Turn, Visits

LEMMA EncodeType ==
    ASSUME NEW s \in Encoded, NEW c \in Nat, NEW domain \in Sets
    PROVE  Encode(s, c, domain) \in Encoded
<1>1. Intervals(domain) \in Nat
    BY IntervalsType
<1>2. HoleRows(c, domain) \in BackendRow
    BY SetsAreInts DEF HoleRows, BackendRow, Ids
<1>3. s.selectors \in Nat /\ s.rows \in Seq(BackendRow)
    BY DEF Encoded
<1>4. s.selectors + Intervals(domain) \in Nat /\ Append(s.rows, HoleRows(c, domain)) \in Seq(BackendRow)
    BY <1>1, <1>2, <1>3
<1> QED BY <1>4 DEF Encode, Encoded

\* The selectors and rows after each column with holes.
LEMMA EncodeHolesTurns ==
    ASSUME NEW intervals \in Seq(Sets), NEW base \in Nat, NEW k \in Nat, NEW stray \in Sets
    PROVE  \E h \in [0 .. k -> Encoded] :
              /\ h[0] = [selectors |-> 0, rows |-> <<>>]
              /\ \A i \in 1 .. k :
                    h[i] = Encode(h[i - 1], base + i, At(intervals, base + i, stray))
              /\ EncodeHoles(intervals, base, k, stray) = h[k]
<1> DEFINE N == k
           S == Encoded
           init == [selectors |-> 0, rows |-> <<>>]
           Turn(s, i) == Encode(s, base + i, At(intervals, base + i, stray))
           F == [i \in 1 .. N |-> [s \in S |-> Turn(s, i)]]
           after[i \in 0 .. N] == IF i = 0 THEN init ELSE Turn(after[i - 1], i)
<1>1. N \in Nat
    OBVIOUS
<1>2. init \in S
    BY DEF Encoded
<1>3. \A i \in 1 .. N, s \in S : Turn(s, i) \in S
    <2> TAKE i \in 1 .. N, s \in S
    <2>1. At(intervals, base + i, stray) \in Sets
        BY DEF At
    <2> QED BY <2>1, EncodeType
<1>4. EncodeHoles(intervals, base, k, stray) = after[N]
    BY DEF EncodeHoles, Repeat
<1> HIDE DEF N, S, init, Turn
<1>5. F \in [1 .. N -> [S -> S]]
    BY <1>3
<1>6. PICK h : h \in [0 .. N -> S] /\ h[0] = init /\ \A i \in 1 .. N : h[i] = F[i][h[i - 1]]
    <2> HIDE DEF F
    <2>1. \E h : IsLoop(h, S, init, N, F)
        BY <1>1, <1>2, <1>5, LoopExists, Zenon
    <2> QED BY <2>1 DEF IsLoop
<1>7. \A i \in 1 .. N : h[i] = Turn(h[i - 1], i)
    <2> TAKE i \in 1 .. N
    <2>1. h[i - 1] \in S
        BY <1>1, <1>6
    <2> QED BY <1>6, <2>1
<1>8. h = [i \in 0 .. N |-> IF i = 0 THEN init ELSE Turn(h[i - 1], i)]
    BY <1>1, <1>6, <1>7
<1>9. after = [i \in 0 .. N |-> IF i = 0 THEN init ELSE Turn(after[i - 1], i)]
    BY <1>8
<1> HIDE DEF after, F
<1>10. after[N] = h[N]
    <2>1. after[0] = h[0]
        BY <1>1, <1>6, <1>9
    <2>2. \A i \in 1 .. N : after[i - 1] = h[i - 1] => after[i] = h[i]
        BY <1>1, <1>7, <1>9
    <2>3. \A i \in 0 .. N : after[i] = h[i]
        BY <1>1, <2>1, <2>2, LoopUnique, ZenonT(60)
    <2> QED BY <1>1, <2>3
<1> QED BY <1>4, <1>6, <1>7, <1>10 DEF N, S, init, Turn

\* The rows after each constraint of pass 2.
LEMMA PassTwoTurns ==
    ASSUME NEW cons \in Seq(Constraint), NEW column,
           \A i \in 1 .. Len(cons) : column[cons[i].a] \in Nat /\ column[cons[i].b] \in Nat
    PROVE  \E h \in [0 .. Len(cons) -> Seq(BackendRow)] :
              /\ h[0] = <<>>
              /\ \A i \in 1 .. Len(cons) :
                    h[i] = IF cons[i].kind = "row"
                           THEN Append(h[i - 1], Row(cons[i].id, {column[cons[i].a], column[cons[i].b]}))
                           ELSE h[i - 1]
              /\ PassTwo(cons, column) = h[Len(cons)]
<1> DEFINE N == Len(cons)
           S == Seq(BackendRow)
           base == <<>>
           Turn(s, i) == IF cons[i].kind = "row"
                         THEN Append(s, Row(cons[i].id, {column[cons[i].a], column[cons[i].b]}))
                         ELSE s
           F == [i \in 1 .. N |-> [s \in S |-> Turn(s, i)]]
           after[i \in 0 .. N] == IF i = 0 THEN base ELSE Turn(after[i - 1], i)
<1>1. N \in Nat
    OBVIOUS
<1>2. base \in S
    OBVIOUS
<1>3. \A i \in 1 .. N, s \in S : Turn(s, i) \in S
    <2> TAKE i \in 1 .. N, s \in S
    <2>1. Row(cons[i].id, {column[cons[i].a], column[cons[i].b]}) \in BackendRow
        <3>1. cons[i] \in Constraint
            OBVIOUS
        <3>2. cons[i].id \in Ids
            BY <3>1 DEF Constraint, Ids
        <3>3. {column[cons[i].a], column[cons[i].b]} \in SUBSET Nat
            OBVIOUS
        <3> QED BY <3>2, <3>3 DEF Row, BackendRow
    <2> QED BY <2>1
<1>4. PassTwo(cons, column) = after[N]
    BY DEF PassTwo, Repeat
<1> HIDE DEF N, S, base, Turn
<1>5. F \in [1 .. N -> [S -> S]]
    BY <1>3
<1>6. PICK h : h \in [0 .. N -> S] /\ h[0] = base /\ \A i \in 1 .. N : h[i] = F[i][h[i - 1]]
    <2> HIDE DEF F
    <2>1. \E h : IsLoop(h, S, base, N, F)
        BY <1>1, <1>2, <1>5, LoopExists, Zenon
    <2> QED BY <2>1 DEF IsLoop
<1>7. \A i \in 1 .. N : h[i] = Turn(h[i - 1], i)
    <2> TAKE i \in 1 .. N
    <2>1. h[i - 1] \in S
        BY <1>1, <1>6
    <2> QED BY <1>6, <2>1
<1>8. h = [i \in 0 .. N |-> IF i = 0 THEN base ELSE Turn(h[i - 1], i)]
    BY <1>1, <1>6, <1>7
<1>9. after = [i \in 0 .. N |-> IF i = 0 THEN base ELSE Turn(after[i - 1], i)]
    BY <1>8
<1> HIDE DEF after, F
<1>10. after[N] = h[N]
    <2>1. after[0] = h[0]
        BY <1>1, <1>6, <1>9
    <2>2. \A i \in 1 .. N : after[i - 1] = h[i - 1] => after[i] = h[i]
        BY <1>1, <1>7, <1>9
    <2>3. \A i \in 0 .. N : after[i] = h[i]
        BY <1>1, <2>1, <2>2, LoopUnique, Zenon
    <2> QED BY <1>1, <2>3
<1> QED BY <1>4, <1>6, <1>7, <1>10 DEF N, S, base, Turn

LEMMA BelowTurns ==
    ASSUME NEW cs \in Seq(Nat), NEW n
    PROVE  \E h \in [0 .. Len(cs) -> Seq(Nat)] :
              /\ h[0] = <<>>
              /\ \A i \in 1 .. Len(cs) :
                    h[i] = IF cs[i] <= n THEN Append(h[i - 1], cs[i]) ELSE h[i - 1]
              /\ Below(cs, n) = h[Len(cs)]
<1> DEFINE N == Len(cs)
           S == Seq(Nat)
           base == <<>>
           Turn(s, i) == IF cs[i] <= n THEN Append(s, cs[i]) ELSE s
           F == [i \in 1 .. N |-> [s \in S |-> Turn(s, i)]]
           after[i \in 0 .. N] == IF i = 0 THEN base ELSE Turn(after[i - 1], i)
<1>1. N \in Nat
    OBVIOUS
<1>2. base \in S
    OBVIOUS
<1>3. \A i \in 1 .. N, s \in S : Turn(s, i) \in S
    OBVIOUS
<1>4. Below(cs, n) = after[N]
    BY DEF Below, Repeat
<1> HIDE DEF N, S, base, Turn
<1>5. F \in [1 .. N -> [S -> S]]
    BY <1>3
<1>6. PICK h : h \in [0 .. N -> S] /\ h[0] = base /\ \A i \in 1 .. N : h[i] = F[i][h[i - 1]]
    <2> HIDE DEF F
    <2>1. \E h : IsLoop(h, S, base, N, F)
        BY <1>1, <1>2, <1>5, LoopExists, Zenon
    <2> QED BY <2>1 DEF IsLoop
<1>7. \A i \in 1 .. N : h[i] = Turn(h[i - 1], i)
    <2> TAKE i \in 1 .. N
    <2>1. h[i - 1] \in S
        BY <1>1, <1>6
    <2> QED BY <1>6, <2>1
<1>8. h = [i \in 0 .. N |-> IF i = 0 THEN base ELSE Turn(h[i - 1], i)]
    BY <1>1, <1>6, <1>7
<1>9. after = [i \in 0 .. N |-> IF i = 0 THEN base ELSE Turn(after[i - 1], i)]
    BY <1>8
<1> HIDE DEF after, F
<1>10. after[N] = h[N]
    <2>1. after[0] = h[0]
        BY <1>1, <1>6, <1>9
    <2>2. \A i \in 1 .. N : after[i - 1] = h[i - 1] => after[i] = h[i]
        BY <1>1, <1>7, <1>9
    <2>3. \A i \in 0 .. N : after[i] = h[i]
        BY <1>1, <2>1, <2>2, LoopUnique, Zenon
    <2> QED BY <1>1, <2>3
<1> QED BY <1>4, <1>6, <1>7, <1>10 DEF N, S, base, Turn

LEMMA BelowType ==
    ASSUME NEW cs \in Seq(Nat), NEW n
    PROVE  Below(cs, n) \in Seq(Nat)
<1>1. Len(cs) \in Nat
    OBVIOUS
<1>2. PICK h \in [0 .. Len(cs) -> Seq(Nat)] :
          /\ h[0] = <<>>
          /\ \A i \in 1 .. Len(cs) :
                h[i] = IF cs[i] <= n THEN Append(h[i - 1], cs[i]) ELSE h[i - 1]
          /\ Below(cs, n) = h[Len(cs)]
    BY BelowTurns
<1> QED BY <1>1, <1>2

\* Nothing goes where all is below.
LEMMA BelowSame ==
    ASSUME NEW cs \in Seq(Nat), NEW n \in Nat, \A i \in 1 .. Len(cs) : cs[i] <= n
    PROVE  Below(cs, n) = cs
<1>1. PICK h \in [0 .. Len(cs) -> Seq(Nat)] :
          /\ h[0] = <<>>
          /\ \A i \in 1 .. Len(cs) :
                h[i] = IF cs[i] <= n THEN Append(h[i - 1], cs[i]) ELSE h[i - 1]
          /\ Below(cs, n) = h[Len(cs)]
    BY BelowTurns
<1> DEFINE N == Len(cs)
           g == [i \in 0 .. N |-> SubSeq(cs, 1, i)]
<1>2. N \in Nat
    OBVIOUS
<1>3. g[0] = h[0]
    BY <1>1
<1>4. \A i \in 1 .. N : g[i - 1] = h[i - 1] => g[i] = h[i]
    <2> SUFFICES ASSUME NEW i \in 1 .. N, g[i - 1] = h[i - 1] PROVE g[i] = h[i]
        OBVIOUS
    <2>1. h[i] = Append(SubSeq(cs, 1, i - 1), cs[i])
        <3>1. i - 1 \in 0 .. N /\ i \in 1 .. Len(cs)
            BY <1>2
        <3>2. g[i - 1] = SubSeq(cs, 1, i - 1)
            BY <3>1
        <3>3. h[i] = Append(h[i - 1], cs[i])
            BY <1>1, <3>1
        <3> HIDE DEF g
        <3> QED BY <3>2, <3>3
    <2>2. SubSeq(cs, 1, i) = Append(SubSeq(cs, 1, i - 1), cs[i])
        OBVIOUS
    <2> QED BY <2>1, <2>2
<1> HIDE DEF g, N
<1>5. \A i \in 0 .. N : g[i] = h[i]
    BY <1>2, <1>3, <1>4, LoopUnique, ZenonT(60)
<1>6. g[N] = h[N]
    BY <1>2, <1>5
<1>7. g[N] = SubSeq(cs, 1, N)
    BY <1>2 DEF g
<1> QED BY <1>1, <1>6, <1>7 DEF N

-----------------------------------------------------------------------------
(* The column loop of a build that continues no layer half way: after i    *)
(* turns the columns of earlier layers are what they were, and the         *)
(* decisions visited have new ones.                                        *)
Placed(s, n, column, first, i, base) ==
    /\ \A d \in 1 .. first : s.column[d] = column[d]
    /\ \A d \in first + 1 .. n :
          \/ s.column[d] \in base + 1 .. base + Len(s.bounds)
          \/ d > first + i /\ s.column[d] = 0

LEMMA VisitPlaces ==
    ASSUME NEW n \in Nat, NEW s \in Visited(n), NEW first \in 0 .. n, NEW i \in 1 .. n - first,
           NEW ds, NEW p \in Classes(n), NEW base \in Nat, NEW stray \in Sets,
           NEW column, \A d \in 1 .. first : column[d] \in 1 .. base,
           ds[first + i].domain \in Sets,
           s.rebuild \/ Placed(s, n, column, first, i - 1, base),
           NEW t, t = Visit(s, first + i, ds, p, base, stray)
    PROVE  t.rebuild \/ Placed(t, n, column, first, i, base)
<1> DEFINE d == first + i
           root == p.leader[d]
           c == s.column[root]
           new == base + Len(s.bounds) + 1
           both == At(s.intervals, c, stray) \cap ds[d].domain
<1>1. d \in first + 1 .. n /\ root \in 1 .. n /\ new \in Nat
    <2>1. p.leader \in [1 .. n -> 1 .. n]
        BY DEF Classes, Leaders
    <2>2. Len(s.bounds) \in Nat
        BY DEF Visited
    <2>3. d \in first + 1 .. n /\ d \in 1 .. n
        OBVIOUS
    <2>4. p.leader[d] \in 1 .. n
        BY <2>1, <2>3
    <2> QED BY <2>2, <2>3, <2>4
<1>2. s.column \in [1 .. n -> Nat] /\ s.bounds \in Seq(SUBSET Int) /\ Len(s.bounds) \in Nat
      /\ s.rebuild \in BOOLEAN
    BY DEF Visited
<1>7. c \in Nat
    BY <1>1, <1>2
<1>8. ASSUME ~s.rebuild
      PROVE  /\ \A e \in 1 .. first : s.column[e] = column[e] /\ s.column[e] \in 1 .. base
             /\ \A e \in first + 1 .. n :
                   \/ s.column[e] \in base + 1 .. base + Len(s.bounds)
                   \/ e > first + (i - 1) /\ s.column[e] = 0
    BY <1>8 DEF Placed
<1>3. CASE s.rebuild
    BY <1>3 DEF Visit
<1>4. CASE ~s.rebuild /\ c = 0
    <2>1. t = Place(s, d, root, ds[d].domain, base)
        BY <1>4 DEF Visit
    <2>2. t.column = [s.column EXCEPT ![root] = new, ![d] = new]
        BY <2>1 DEF Place, Visited
    <2>3. Len(t.bounds) = Len(s.bounds) + 1
        <3>1. t.bounds = Append(s.bounds, Hull(ds[d].domain))
            BY <2>1 DEF Place, Visited
        <3>2. Hull(ds[d].domain) \in SUBSET Int
            BY HullType
        <3> QED BY <1>2, <3>1, <3>2, SMTT(60)
    <2>4. root \in first + 1 .. n
        <3> HIDE DEF root
        <3> QED BY <1>1, <1>4, <1>8
    <2>5. \A e \in 1 .. n : t.column[e] = IF e = root \/ e = d THEN new ELSE s.column[e]
        BY <1>1, <1>2, <2>2
    <2> HIDE DEF root, d, c
    <2>6. \A e \in 1 .. first : t.column[e] = column[e]
        BY <1>1, <1>4, <1>8, <2>4, <2>5
    <2>7. \A e \in first + 1 .. n :
              \/ t.column[e] \in base + 1 .. base + Len(t.bounds)
              \/ e > first + i /\ t.column[e] = 0
        <3> TAKE e \in first + 1 .. n
        <3>1. CASE e = root \/ e = d
            <4>1. t.column[e] = new
                BY <2>5, <3>1
            <4> QED BY <1>1, <1>2, <2>3, <2>4, <4>1, SMTT(60)
        <3>2. CASE ~ (e = root \/ e = d)
            <4>1. t.column[e] = s.column[e] /\ e # first + i
                BY <2>5, <3>2 DEF d
            <4>2. \/ s.column[e] \in base + 1 .. base + Len(s.bounds)
                  \/ e > first + (i - 1) /\ s.column[e] = 0
                BY <1>4, <1>8
            <4>3. CASE s.column[e] \in base + 1 .. base + Len(s.bounds)
                <5>1. Len(t.bounds) \in Nat /\ Len(s.bounds) <= Len(t.bounds)
                    BY <1>2, <2>3, SMTT(60)
                <5>2. \A x \in base + 1 .. base + Len(s.bounds) : x \in base + 1 .. base + Len(t.bounds)
                    BY <1>2, <5>1
                <5> QED BY <4>1, <4>3, <5>2
            <4>4. CASE e > first + (i - 1) /\ s.column[e] = 0
                BY <4>1, <4>4
            <4> QED BY <4>2, <4>3, <4>4
        <3> QED BY <3>1, <3>2
    <2> QED BY <2>6, <2>7 DEF Placed
<1>5. CASE ~s.rebuild /\ c # 0 /\ c <= base
    <2>1. t = [s EXCEPT !.rebuild = TRUE]
        BY <1>5 DEF Visit
    <2> QED BY <2>1 DEF Visited
<1>6. CASE ~s.rebuild /\ c # 0 /\ ~ (c <= base)
    <2>1. t = Narrow(s, d, c, both, base)
        BY <1>6 DEF Visit
    <2>2. t.column = [s.column EXCEPT ![d] = c]
        BY <2>1 DEF Narrow, Visited
    <2>3. Len(t.bounds) = Len(s.bounds)
        <3>1. t.bounds = [s.bounds EXCEPT ![c - base] = Hull(both)]
            BY <2>1 DEF Narrow, Visited
        <3>2. Hull(both) \in SUBSET Int
            BY HullType
        <3> QED BY <1>2, <3>1, <3>2
    <2>4. c \in base + 1 .. base + Len(s.bounds)
        <3> HIDE DEF root
        <3> QED BY <1>1, <1>6, <1>7, <1>8
    <2>5. \A e \in 1 .. n : t.column[e] = IF e = d THEN c ELSE s.column[e]
        BY <1>1, <1>2, <2>2
    <2> HIDE DEF root, d, c
    <2>6. \A e \in 1 .. first : t.column[e] = column[e]
        BY <1>1, <1>6, <1>8, <2>5
    <2>7. \A e \in first + 1 .. n :
              \/ t.column[e] \in base + 1 .. base + Len(t.bounds)
              \/ e > first + i /\ t.column[e] = 0
        <3> TAKE e \in first + 1 .. n
        <3>1. CASE e = d
            <4>1. t.column[e] = c
                BY <2>5, <3>1
            <4> QED BY <1>1, <1>2, <2>3, <2>4, <4>1
        <3>2. CASE ~ (e = d)
            <4>1. t.column[e] = s.column[e] /\ e # first + i
                BY <2>5, <3>2 DEF d
            <4>2. \/ s.column[e] \in base + 1 .. base + Len(s.bounds)
                  \/ e > first + (i - 1) /\ s.column[e] = 0
                BY <1>6, <1>8
            <4>3. CASE s.column[e] \in base + 1 .. base + Len(s.bounds)
                BY <1>2, <2>3, <4>1, <4>3
            <4>4. CASE e > first + (i - 1) /\ s.column[e] = 0
                BY <4>1, <4>4
            <4> QED BY <4>2, <4>3, <4>4
        <3> QED BY <3>1, <3>2
    <2> QED BY <2>6, <2>7 DEF Placed
<1> QED BY <1>2, <1>3, <1>4, <1>5, <1>6

\* The loop as a whole, on decisions none of which above first has a column.
LEMMA ColumnLoopPlaces ==
    ASSUME NEW ds \in Seq(Decision), NEW p \in Classes(Len(ds)),
           NEW column \in [1 .. Len(ds) -> Nat], NEW first \in 0 .. Len(ds),
           NEW base \in Nat, NEW old \in Seq(Sets), NEW stray \in Sets,
           \A d \in 1 .. first : column[d] \in 1 .. base,
           \A d \in first + 1 .. Len(ds) : column[d] = 0,
           NEW loop, loop = ColumnLoop(ds, p, column, first, base, old, stray)
    PROVE  /\ loop \in Visited(Len(ds))
           /\ loop.rebuild \/ Placed(loop, Len(ds), column, first, Len(ds) - first, base)
<1>7. \E h : Visits(h, ds, p, column, first, base, old, stray)
    <2>1. first \in 0 .. Len(ds)
        OBVIOUS
    <2> QED BY <2>1, ColumnLoopTurns, Zenon
<1> DEFINE n == Len(ds)
           N == n - first
<1>1. n \in Nat /\ N \in Nat
    OBVIOUS
<1>2. PICK h \in [0 .. N -> Visited(n)] :
          /\ h[0] = [column |-> column, intervals |-> old, bounds |-> <<>>,
                     rebuild |-> p.rebuild]
          /\ \A i \in 1 .. N : h[i] = Visit(h[i - 1], first + i, ds, p, base, stray)
          /\ loop = h[N]
    BY <1>7 DEF Visits
<1> DEFINE A == {i \in 0 .. N : h[i].rebuild \/ Placed(h[i], n, column, first, i, base)}
<1>3. 0 \in A
    <2>1. h[0].column = column
        BY <1>2
    <2>2. Placed(h[0], n, column, first, 0, base)
        BY <2>1 DEF Placed
    <2> QED BY <1>1, <2>2
<1>4. \A i \in 0 .. N - 1 : i \in A => i + 1 \in A
    <2> SUFFICES ASSUME NEW i \in 0 .. N - 1, i \in A PROVE i + 1 \in A
        OBVIOUS
    <2>1. i + 1 \in 1 .. N /\ (i + 1) - 1 = i /\ first + (i + 1) \in 1 .. n
        BY <1>1
    <2>2. h[i] \in Visited(n) /\ h[i + 1] = Visit(h[i], first + (i + 1), ds, p, base, stray)
        BY <1>2, <2>1
    <2>3. ds[first + (i + 1)].domain \in Sets
        <3>1. ds[first + (i + 1)] \in Decision
            BY <2>1
        <3> QED BY <3>1 DEF Decision
    <2>4. h[i].rebuild \/ Placed(h[i], n, column, first, (i + 1) - 1, base)
        BY <2>1
    <2> HIDE DEF n, A
    <2>5. i + 1 \in 1 .. n - first
        BY <2>1
    <2>6. p \in Classes(n) /\ n \in Nat /\ first \in 0 .. n
        BY <1>1 DEF n
    <2>7. h[i + 1].rebuild \/ Placed(h[i + 1], n, column, first, i + 1, base)
        BY <2>2, <2>3, <2>4, <2>5, <2>6, VisitPlaces
    <2> QED BY <2>1, <2>7 DEF A
<1> HIDE DEF A
<1>5. \A i \in 0 .. N : i \in A
    BY <1>1, <1>3, <1>4, RangeInduction, Zenon
<1>6. N \in A
    BY <1>1, <1>5
<1> QED BY <1>1, <1>2, <1>6 DEF A

\* Where a decision to be visited already has a column, all is built anew.
LEMMA StaleRebuilds ==
    ASSUME NEW ds \in Seq(Decision), NEW p \in Classes(Len(ds)),
           NEW column \in [1 .. Len(ds) -> Nat], NEW first \in 0 .. Len(ds) - 1,
           NEW base \in Nat, NEW old \in Seq(Sets), NEW stray \in Sets,
           \A d \in 1 .. Len(ds) : column[d] \in 1 .. base,
           NEW loop, loop = ColumnLoop(ds, p, column, first, base, old, stray)
    PROVE  loop.rebuild
<1>7. \E h : Visits(h, ds, p, column, first, base, old, stray)
    <2>1. first \in 0 .. Len(ds)
        OBVIOUS
    <2> QED BY <2>1, ColumnLoopTurns, Zenon
<1> DEFINE n == Len(ds)
           N == n - first
<1>1. n \in Nat /\ N \in Nat /\ N >= 1
    OBVIOUS
<1>2. PICK h \in [0 .. N -> Visited(n)] :
          /\ h[0] = [column |-> column, intervals |-> old, bounds |-> <<>>,
                     rebuild |-> p.rebuild]
          /\ \A i \in 1 .. N : h[i] = Visit(h[i - 1], first + i, ds, p, base, stray)
          /\ loop = h[N]
    BY <1>7 DEF Visits
<1> DEFINE A == {i \in 0 .. N : i >= 1 => h[i].rebuild}
<1>3. 0 \in A
    BY <1>1
<1>4. \A i \in 0 .. N - 1 : i \in A => i + 1 \in A
    <2> SUFFICES ASSUME NEW i \in 0 .. N - 1, i \in A PROVE i + 1 \in A
        OBVIOUS
    <2>1. i + 1 \in 1 .. N /\ (i + 1) - 1 = i /\ first + (i + 1) \in 1 .. n
        BY <1>1
    <2>2. h[i] \in Visited(n) /\ h[i + 1] = Visit(h[i], first + (i + 1), ds, p, base, stray)
        BY <1>2, <2>1
    <2>3. h[i + 1].rebuild
        <3>1. CASE h[i].rebuild
            BY <2>2, <3>1 DEF Visit
        <3>2. CASE ~h[i].rebuild
            <4>1. i = 0
                BY <3>2, <2>1
            <4> DEFINE c == h[i].column[p.leader[first + (i + 1)]]
            <4>2. p.leader[first + (i + 1)] \in 1 .. n
                <5>1. p.leader \in [1 .. n -> 1 .. n]
                    BY DEF Classes, Leaders
                <5> QED BY <2>1, <5>1
            <4>3. h[i].column = column
                BY <1>2, <4>1
            <4>4. c \in 1 .. base
                BY <4>2, <4>3
            <4>5. h[i + 1] = [h[i] EXCEPT !.rebuild = TRUE]
                <5>1. c # 0 /\ c <= base
                    BY <4>4
                <5> QED BY <2>2, <3>2, <5>1 DEF Visit
            <4> QED BY <2>2, <4>5 DEF Visited
        <3> QED BY <3>1, <3>2
    <2> QED BY <2>1, <2>3
<1> HIDE DEF A
<1>5. \A i \in 0 .. N : i \in A
    BY <1>1, <1>3, <1>4, RangeInduction, Zenon
<1>6. N \in A
    BY <1>1, <1>5
<1> QED BY <1>1, <1>2, <1>6 DEF A

-----------------------------------------------------------------------------
(* The rows of a build: those of its constraints, and those of holes.      *)
RowOf(c, column) == Row(c.id, {column[c.a], column[c.b]})

\* Rows low + 1 to high are the rows of the first n constraints.
Posts(rows, low, high, cons, n, column) ==
    /\ \A r \in low + 1 .. high :
          IsHole(rows[r]) \/ \E i \in 1 .. n : cons[i].kind = "row" /\ rows[r] = RowOf(cons[i], column)
    /\ \A i \in 1 .. n :
          cons[i].kind = "row" => \E r \in low + 1 .. high : rows[r] = RowOf(cons[i], column)

RowsOf(rows, cons, n, column) ==
    /\ \A r \in 1 .. Len(rows) :
          \E i \in 1 .. n : cons[i].kind = "row" /\ rows[r] = RowOf(cons[i], column)
    /\ \A i \in 1 .. n :
          cons[i].kind = "row" => \E r \in 1 .. Len(rows) : rows[r] = RowOf(cons[i], column)

LEMMA PassTwoPosts ==
    ASSUME NEW cons \in Seq(Constraint), NEW column,
           \A i \in 1 .. Len(cons) : column[cons[i].a] \in Nat /\ column[cons[i].b] \in Nat,
           NEW rows, rows = PassTwo(cons, column)
    PROVE  /\ rows \in Seq(BackendRow)
           /\ RowsOf(rows, cons, Len(cons), column)
<1> DEFINE N == Len(cons)
           turn(s, i) == IF cons[i].kind = "row" THEN Append(s, RowOf(cons[i], column)) ELSE s
<1>1. N \in Nat
    OBVIOUS
<1>2. PICK h \in [0 .. N -> Seq(BackendRow)] :
          /\ h[0] = <<>>
          /\ \A i \in 1 .. N : h[i] = turn(h[i - 1], i)
          /\ rows = h[N]
    BY PassTwoTurns DEF RowOf
<1> DEFINE A == {i \in 0 .. N : RowsOf(h[i], cons, i, column)}
<1>3. 0 \in A
    BY <1>1, <1>2 DEF RowsOf
<1>4. \A i \in 0 .. N - 1 : i \in A => i + 1 \in A
    <2> SUFFICES ASSUME NEW i \in 0 .. N - 1, i \in A PROVE i + 1 \in A
        OBVIOUS
    <2> DEFINE j == i + 1
               s == h[i]
               t == h[j]
    <2>1. j \in 1 .. N /\ j - 1 = i
        BY <1>1
    <2>2. s \in Seq(BackendRow) /\ t = turn(s, j)
        BY <1>2, <2>1
    <2>3. RowsOf(s, cons, i, column)
        OBVIOUS
    <2> HIDE DEF s, t, A
    <2>4. CASE cons[j].kind # "row"
        <3>1. t = s
            BY <2>2, <2>4
        <3>2. RowsOf(t, cons, j, column)
            <4>1. \A q \in 1 .. j : cons[q].kind = "row" => q \in 1 .. i
                BY <2>1, <2>4
            <4>2. \A q \in 1 .. i : q \in 1 .. j
                BY <2>1
            <4> HIDE DEF j
            <4> QED BY <2>3, <3>1, <4>1, <4>2 DEF RowsOf
        <3> QED BY <2>1, <3>2 DEF A, t
    <2>5. CASE cons[j].kind = "row"
        <3>1. t = Append(s, RowOf(cons[j], column))
            BY <2>2, <2>5
        <3>2. Len(t) = Len(s) + 1 /\ Len(s) \in Nat /\ t[Len(s) + 1] = RowOf(cons[j], column)
              /\ \A r \in 1 .. Len(s) : t[r] = s[r]
            BY <2>2, <3>1
        <3>3. ASSUME NEW r \in 1 .. Len(t)
              PROVE  \E q \in 1 .. j : cons[q].kind = "row" /\ t[r] = RowOf(cons[q], column)
            <4>1. CASE r = Len(s) + 1
                BY <2>1, <2>5, <3>2, <4>1
            <4>2. CASE r \in 1 .. Len(s)
                BY <2>1, <2>3, <3>2, <4>2, SMTT(60) DEF RowsOf
            <4> QED BY <3>2, <4>1, <4>2
        <3>4. ASSUME NEW q \in 1 .. j, cons[q].kind = "row"
              PROVE  \E r \in 1 .. Len(t) : t[r] = RowOf(cons[q], column)
            <4>1. CASE q = j
                BY <3>2, <4>1
            <4>2. CASE q \in 1 .. i
                BY <2>3, <3>2, <3>4, <4>2 DEF RowsOf
            <4> QED BY <2>1, <4>1, <4>2
        <3>5. RowsOf(t, cons, j, column)
            BY <3>3, <3>4 DEF RowsOf
        <3> QED BY <2>1, <3>5 DEF A, t
    <2> QED BY <2>4, <2>5
<1> HIDE DEF A
<1>5. \A i \in 0 .. N : i \in A
    BY <1>1, <1>3, <1>4, RangeInduction, Zenon
<1>6. N \in A
    BY <1>1, <1>5
<1> QED BY <1>1, <1>2, <1>6 DEF A

LEMMA EncodeHolesRows ==
    ASSUME NEW intervals \in Seq(Sets), NEW base \in Nat, NEW k \in Nat, NEW stray \in Sets,
           NEW holes, holes = EncodeHoles(intervals, base, k, stray)
    PROVE  /\ holes \in Encoded
           /\ \A r \in 1 .. Len(holes.rows) :
                 IsHole(holes.rows[r]) /\ holes.rows[r].cols \subseteq base + 1 .. base + k
<1> DEFINE Fine(e) == \A r \in 1 .. Len(e.rows) :
                         IsHole(e.rows[r]) /\ e.rows[r].cols \subseteq base + 1 .. base + k
<1>1. PICK h \in [0 .. k -> Encoded] :
          /\ h[0] = [selectors |-> 0, rows |-> <<>>]
          /\ \A i \in 1 .. k : h[i] = Encode(h[i - 1], base + i, At(intervals, base + i, stray))
          /\ holes = h[k]
    BY EncodeHolesTurns, ZenonT(40)
<1> DEFINE A == {i \in 0 .. k : Fine(h[i])}
<1>2. 0 \in A
    BY <1>1
<1>3. \A i \in 0 .. k - 1 : i \in A => i + 1 \in A
    <2> SUFFICES ASSUME NEW i \in 0 .. k - 1, i \in A PROVE i + 1 \in A
        OBVIOUS
    <2> DEFINE domain == At(intervals, base + (i + 1), stray)
               s == h[i]
               t == h[i + 1]
               row == HoleRows(base + (i + 1), domain)
    <2>1. i + 1 \in 1 .. k /\ (i + 1) - 1 = i
        OBVIOUS
    <2>2. s \in Encoded /\ t = Encode(s, base + (i + 1), domain)
        BY <1>1, <2>1
    <2>3. Fine(s)
        OBVIOUS
    <2>4. IsHole(row) /\ row.cols \subseteq base + 1 .. base + k
        BY <2>1 DEF IsHole, HoleRows
    <2> HIDE DEF s, t, A, domain
    <2>5. CASE ~ (Intervals(domain) > 1)
        <3>1. t = s
            BY <2>2, <2>5 DEF Encode
        <3> QED BY <2>1, <2>3, <3>1 DEF A, t
    <2>6. CASE Intervals(domain) > 1
        <3>1. t.rows = Append(s.rows, row)
            BY <2>2, <2>6 DEF Encode
        <3>2. s.rows \in Seq(BackendRow)
            BY <2>2 DEF Encoded
        <3> HIDE DEF row
        <3>3. Len(t.rows) = Len(s.rows) + 1 /\ Len(s.rows) \in Nat /\ t.rows[Len(s.rows) + 1] = row
              /\ \A r \in 1 .. Len(s.rows) : t.rows[r] = s.rows[r]
            BY <3>1, <3>2
        <3>4. ASSUME NEW r \in 1 .. Len(t.rows)
              PROVE  IsHole(t.rows[r]) /\ t.rows[r].cols \subseteq base + 1 .. base + k
            <4>1. r = Len(s.rows) + 1 \/ r \in 1 .. Len(s.rows)
                BY <3>3
            <4> QED BY <2>3, <2>4, <3>3, <4>1
        <3>5. Fine(t)
            BY <3>4
        <3> QED BY <2>1, <3>5 DEF A, t
    <2> QED BY <2>5, <2>6
<1> HIDE DEF A
<1>4. \A i \in 0 .. k : i \in A
    BY <1>2, <1>3, RangeInduction, Zenon
<1>5. k \in A
    BY <1>4
<1> QED BY <1>1, <1>5 DEF A

-----------------------------------------------------------------------------
(* A build as a whole.                                                     *)
Models   == [leader : Seq(Nat), column : Seq(Nat), intervals : Seq(Sets), columns : Nat, rows : Nat]
Backends == [cols : Seq(BackendCol), rows : Seq(BackendRow), lex : Seq(Nat)]

\* The backend is the size the model thinks it is, and all it names is there.
Sized(m, b) ==
    /\ m \in Models /\ b \in Backends
    /\ Len(m.leader) = Len(m.column)
    /\ \A d \in 1 .. Len(m.column) : m.leader[d] \in 1 .. d /\ m.column[d] \in 1 .. m.columns
    /\ Len(b.cols) = m.columns /\ Len(b.rows) = m.rows
    /\ \A r \in 1 .. m.rows : b.rows[r].cols \subseteq 1 .. m.columns

\* A build starts from nothing or from what an earlier one left, of the
\* decisions below first or of all of them.
Continues(ds, m, b, first, extending) ==
    /\ Sized(m, b)
    /\ first \in 0 .. Len(ds)
    /\ Len(m.column) = first \/ Len(m.column) = Len(ds)
    /\ extending \in BOOLEAN
    /\ ~extending => m = NoModel /\ b = EmptyBackend /\ first = 0

\* The objective names one decision of n, or is none.
Objectives == [kind : {"none", "scalar", "lex"}, args : Seq(Nat)]
Names(n) ==
    /\ objective \in Objectives
    /\ objective.kind = "none" => objective.args = <<>>
    /\ objective.kind # "none" => Len(objective.args) = 1 /\ objective.args[1] \in 1 .. n

\* What a build that succeeds adds to what was there.
Extends(r, ds, cons, m, b, first, extending) ==
    /\ Sized(r.model, r.backend)
    /\ Len(r.model.column) = Len(ds)
    /\ m.columns <= r.model.columns /\ m.rows <= r.model.rows
    /\ \A d \in 1 .. first : r.model.column[d] = m.column[d]
    /\ \A d \in first + 1 .. Len(ds) : r.model.column[d] > m.columns
    /\ \A c \in 1 .. m.columns : r.backend.cols[c] = b.cols[c]
    /\ \A c \in m.columns + 1 .. r.model.columns :
          r.backend.cols[c].cost
              = (objective.kind = "scalar" /\ r.model.column[objective.args[1]] = c)
    /\ \A q \in 1 .. m.rows : r.backend.rows[q] = b.rows[q]
    /\ Posts(r.backend.rows, m.rows, r.model.rows, cons, Len(cons), r.model.column)
    /\ r.backend.lex = IF extending \/ objective.kind # "lex" THEN b.lex
                       ELSE Ranking(r.model.column)
    /\ first < Len(ds) => Len(m.column) = first

LEMMA EmptySized == Sized(NoModel, EmptyBackend)
BY DEF Sized, NoModel, EmptyBackend, Models, Backends

\* The columns and rows a build adds, by the loops that make them: rows of holes
\* and then rows of constraints.
Adds(r, cons, m, b, loop, holes) ==
    LET k    == Len(loop.bounds)
        high == m.rows + Len(holes.rows)
    IN  /\ r.model.column = loop.column /\ r.model.intervals = loop.intervals
        /\ r.model.columns = m.columns + k + holes.selectors
        /\ \A c \in m.columns + 1 .. m.columns + k :
              r.backend.cols[c].bounds = loop.bounds[c - m.columns]
        /\ high <= r.model.rows
        /\ \A q \in m.rows + 1 .. high : r.backend.rows[q] = holes.rows[q - m.rows]
        /\ \A q \in high + 1 .. r.model.rows :
              \E i \in 1 .. Len(cons) : r.backend.rows[q] = RowOf(cons[i], loop.column)

MadeBy(r, ds, cons, m, b, first, extending, p, loop, holes, stray) ==
    /\ Len(m.column) = first
    /\ p = PassOne(Len(ds), cons, m, first, extending) /\ r.model.leader = p.leader
    /\ loop = ColumnLoop(ds, p, OldColumns(Len(ds), m, extending), first, m.columns, m.intervals, stray)
    /\ loop \in Visited(Len(ds)) /\ ~loop.rebuild
    /\ holes = EncodeHoles(loop.intervals, m.columns, Len(loop.bounds), stray)
    /\ holes \in Encoded
    /\ Adds(r, cons, m, b, loop, holes)

Made(r, ds, cons, m, b, first, extending) ==
    \E p, loop, holes : \E stray \in Sets :
        MadeBy(r, ds, cons, m, b, first, extending, p, loop, holes, stray)

LEMMA BuildOk ==
    ASSUME NEW ds \in Seq(Decision), NEW cons \in Seq(Constraint),
           \A i \in 1 .. Len(cons) : cons[i].a \in 1 .. Len(ds) /\ cons[i].b \in 1 .. Len(ds),
           NEW m, NEW b, NEW first, NEW extending, Continues(ds, m, b, first, extending),
           NEW stray \in Sets, Names(Len(ds)),
           NEW r, r = Build(ds, cons, m, b, first, extending, stray), r.status = "ok"
    PROVE  Extends(r, ds, cons, m, b, first, extending) /\ Made(r, ds, cons, m, b, first, extending)
<1> DEFINE n == Len(ds)
           column == OldColumns(n, m, extending)
           p == PassOne(n, cons, m, first, extending)
           loop == ColumnLoop(ds, p, column, first, m.columns, m.intervals, stray)
           k == Len(loop.bounds)
           posted == PassTwo(cons, loop.column)
           holes == EncodeHoles(loop.intervals, m.columns, k, stray)
<1>1. /\ n \in Nat /\ first \in 0 .. n /\ extending \in BOOLEAN
      /\ m \in Models /\ b \in Backends /\ m.columns \in Nat /\ m.rows \in Nat
      /\ Len(m.column) \in Nat /\ Len(m.leader) = Len(m.column)
      /\ Len(m.column) = first \/ Len(m.column) = n
      /\ m.column \in Seq(Nat) /\ m.leader \in Seq(Nat) /\ m.intervals \in Seq(Sets)
      /\ \A d \in 1 .. Len(m.column) : m.leader[d] \in 1 .. d /\ m.column[d] \in 1 .. m.columns
    BY DEF Continues, Sized, Models, Backends
<1>2. ~extending => Len(m.column) = 0 /\ m.columns = 0 /\ m.intervals = <<>> /\ m.rows = 0
    BY DEF Continues, NoModel
<1>3. r = Outcome(cons, m, b, extending, m.columns, stray, p, loop)
    <2>1. (IF extending THEN m.columns ELSE 0) = m.columns
          /\ (IF extending THEN m.intervals ELSE <<>>) = m.intervals
        BY <1>1, <1>2
    <2>2. ~ (first > Len(m.column))
        BY <1>1
    <2> QED BY <2>1, <2>2 DEF Build, BuildJoined
<1>4. p \in Classes(n)
    <2>1. \A d \in 1 .. n : extending /\ d <= first => m.leader[d] \in 1 .. d
        BY <1>1
    <2>2. Len(cons) \in Nat
        OBVIOUS
    <2> HIDE DEF n
    <2>3. \A i \in 1 .. Len(cons) : cons[i].a \in 1 .. n /\ cons[i].b \in 1 .. n
        BY DEF n
    <2> QED BY <1>1, <2>1, <2>3, PassOneType
<1>5. /\ column \in [1 .. n -> Nat]
      /\ \A d \in 1 .. n : column[d] = IF d <= Len(m.column) THEN m.column[d] ELSE 0
    <2>1. \A d \in 1 .. n : (extending /\ d <= Len(m.column)) = (d <= Len(m.column))
        BY <1>1, <1>2
    <2>2. \A d \in 1 .. n : d <= Len(m.column) => m.column[d] \in Nat
        BY <1>1, SMTT(60)
    <2>3. column = [d \in 1 .. n |-> IF d <= Len(m.column) THEN m.column[d] ELSE 0]
        BY <2>1 DEF OldColumns
    <2> HIDE DEF column, n
    <2> QED BY <2>2, <2>3
<1> HIDE DEF n, column, p
<1>6. loop.rebuild # TRUE /\ r = HandOver(m, b, extending, m.columns, posted, p, loop, holes)
    <2> HIDE DEF loop
    <2>1. ~loop.rebuild
        <3> SUFFICES ASSUME loop.rebuild PROVE FALSE
            OBVIOUS
        <3>1. r = Stop(m, b, "needs full build")
            BY <1>3 DEF Outcome
        <3>2. Stop(m, b, "needs full build").status = "needs full build"
            BY DEF Stop
        <3> QED BY <3>1, <3>2
    <2>2. ~ \E i \in DOMAIN cons : cons[i].kind = "bad"
        <3>1. (\E i \in DOMAIN cons : cons[i].kind = "bad") => r = Stop(m, b, "error")
            BY <1>3, <2>1 DEF Outcome
        <3> QED BY <3>1 DEF Stop
    <2> HIDE DEF k
    <2>3. r = HandOver(m, b, extending, m.columns, posted, p, loop, holes)
        BY <1>3, <2>1, <2>2 DEF Outcome, k
    <2> QED BY <2>1, <2>3
<1>7. first < n => Len(m.column) = first
    <2> SUFFICES ASSUME first < n, Len(m.column) = n PROVE FALSE
        BY <1>1
    <2>1. first \in 0 .. Len(ds) - 1 /\ p \in Classes(Len(ds)) /\ column \in [1 .. Len(ds) -> Nat]
        BY <1>1, <1>4, <1>5 DEF n
    <2>2. \A d \in 1 .. n : column[d] \in 1 .. m.columns
        <3>1. \A d \in 1 .. n : d <= Len(m.column) /\ d \in 1 .. Len(m.column)
            BY <1>1
        <3> QED BY <1>1, <1>5, <3>1
    <2>3. loop.rebuild
        BY <1>1, <2>1, <2>2, StaleRebuilds DEF n
    <2> QED BY <1>6, <2>3
<1>8. loop \in Visited(n) /\ Placed(loop, n, column, first, n - first, m.columns)
    <2>1. first \in 0 .. Len(ds) /\ p \in Classes(Len(ds)) /\ column \in [1 .. Len(ds) -> Nat]
        BY <1>1, <1>4, <1>5 DEF n
    <2>2. \A d \in 1 .. first : column[d] \in 1 .. m.columns
        <3>1. \A d \in 1 .. first : d \in 1 .. n /\ d <= Len(m.column) /\ d \in 1 .. Len(m.column)
            BY <1>1
        <3> QED BY <1>1, <1>5, <3>1
    <2>3. \A d \in first + 1 .. Len(ds) : column[d] = 0
        BY <1>1, <1>5, <1>7 DEF n
    <2>4. /\ loop \in Visited(Len(ds))
          /\ loop.rebuild \/ Placed(loop, Len(ds), column, first, Len(ds) - first, m.columns)
        BY <1>1, <2>1, <2>2, <2>3, ColumnLoopPlaces
    <2>5. loop.rebuild \in BOOLEAN
        BY <2>4 DEF Visited
    <2> QED BY <1>6, <2>4, <2>5 DEF n
<1> HIDE DEF loop
<1>9. /\ loop.column \in [1 .. n -> Nat] /\ loop.intervals \in Seq(Sets)
      /\ loop.bounds \in Seq(SUBSET Int) /\ k \in Nat
    BY <1>8 DEF Visited
<1>10. /\ \A d \in 1 .. first : loop.column[d] = m.column[d] /\ loop.column[d] \in 1 .. m.columns
       /\ \A d \in first + 1 .. n : loop.column[d] \in m.columns + 1 .. m.columns + k
    <2>1. \A d \in 1 .. first : d \in 1 .. n /\ d <= Len(m.column) /\ d \in 1 .. Len(m.column)
        BY <1>1
    <2>2. \A d \in 1 .. first : loop.column[d] = column[d]
        BY <1>8 DEF Placed
    <2>3. \A d \in first + 1 .. n : loop.column[d] \in m.columns + 1 .. m.columns + k
        BY <1>1, <1>8 DEF Placed
    <2> QED BY <1>1, <1>5, <2>1, <2>2, <2>3
<1>11. /\ posted \in Seq(BackendRow)
       /\ RowsOf(posted, cons, Len(cons), loop.column)
    <2>1. \A i \in 1 .. Len(cons) : loop.column[cons[i].a] \in Nat /\ loop.column[cons[i].b] \in Nat
        BY <1>9 DEF n
    <2> QED BY <2>1, PassTwoPosts
<1>12. /\ holes \in Encoded
       /\ \A q \in 1 .. Len(holes.rows) :
             IsHole(holes.rows[q]) /\ holes.rows[q].cols \subseteq m.columns + 1 .. m.columns + k
    BY <1>1, <1>9, EncodeHolesRows
<1> DEFINE sel == holes.selectors
           rows == holes.rows \o posted
           Cost(c) == objective.kind = "scalar" /\ loop.column[objective.args[1]] = c
           made == [i \in 1 .. k |-> Col(loop.bounds[i], Cost(m.columns + i))]
           selectors == [i \in 1 .. sel |-> Col({0, 1}, FALSE)]
<1>13. /\ r.model.leader = p.leader /\ r.model.column = loop.column
       /\ r.model.intervals = loop.intervals
       /\ r.model.columns = m.columns + k + sel
       /\ r.model.rows = m.rows + Len(rows)
       /\ r.model = [leader |-> p.leader, column |-> loop.column, intervals |-> loop.intervals,
                     columns |-> m.columns + k + sel, rows |-> m.rows + Len(rows)]
    <2> DEFINE mo == [leader |-> p.leader, column |-> loop.column, intervals |-> loop.intervals,
                      columns |-> m.columns + k + sel, rows |-> m.rows + Len(rows)]
    <2> HIDE DEF holes, posted
    <2>1. HandOver(m, b, extending, m.columns, posted, p, loop, holes).model = mo
        BY DEF HandOver
    <2>2. r.model = mo
        BY <1>6, <2>1
    <2> HIDE DEF k, sel, rows
    <2> QED BY <2>2
<1>14. /\ r.backend.cols = b.cols \o made \o selectors
       /\ r.backend.rows = b.rows \o rows
       /\ r.backend.lex = IF extending \/ objective.kind # "lex" THEN b.lex
                          ELSE Ranking(loop.column)
       /\ r.backend = [cols |-> r.backend.cols, rows |-> r.backend.rows, lex |-> r.backend.lex]
    <2> DEFINE be == [cols |-> b.cols \o made \o selectors, rows |-> b.rows \o rows,
                      lex |-> IF extending \/ objective.kind # "lex" THEN b.lex
                              ELSE Ranking(loop.column)]
    <2> HIDE DEF holes, posted
    <2>1. HandOver(m, b, extending, m.columns, posted, p, loop, holes).backend = be
        BY DEF HandOver
    <2>2. r.backend = be
        BY <1>6, <2>1
    <2> HIDE DEF made, selectors, rows
    <2> QED BY <2>2
<1> HIDE DEF posted, holes, k
<1>15. sel \in Nat /\ holes.rows \in Seq(BackendRow)
    BY <1>12 DEF Encoded
<1>16. \A c : Cost(c) \in BOOLEAN
    OBVIOUS
<1> HIDE DEF Cost
<1>17. made \in Seq(BackendCol) /\ Len(made) = k
       /\ \A i \in 1 .. k : /\ made[i].cost = Cost(m.columns + i)
                           /\ made[i].bounds = loop.bounds[i]
    <2>1. \A i \in 1 .. k : loop.bounds[i] \in SUBSET Int
        BY <1>9 DEF k
    <2>2. \A i \in 1 .. k : Col(loop.bounds[i], Cost(m.columns + i)) \in BackendCol
        BY <1>16, <2>1 DEF Col, BackendCol
    <2>3. \A i \in 1 .. k : /\ Col(loop.bounds[i], Cost(m.columns + i)).cost = Cost(m.columns + i)
                           /\ Col(loop.bounds[i], Cost(m.columns + i)).bounds = loop.bounds[i]
        BY DEF Col
    <2>4. made \in [1 .. k -> BackendCol]
        BY <2>2
    <2> QED BY <1>9, <2>3, <2>4, SMTT(30)
<1>18. selectors \in Seq(BackendCol) /\ Len(selectors) = sel
       /\ \A i \in 1 .. sel : selectors[i].cost = FALSE
    <2>1. Col({0, 1}, FALSE) \in BackendCol /\ Col({0, 1}, FALSE).cost = FALSE
        BY DEF Col, BackendCol
    <2>2. selectors \in [1 .. sel -> BackendCol]
        BY <2>1
    <2> HIDE DEF sel
    <2> HIDE DEF selectors
    <2>3. selectors \in Seq(BackendCol) /\ Len(selectors) = sel
        BY <1>15, <2>2, SeqOfFunction DEF sel
    <2> QED BY <2>1, <2>3 DEF selectors
<1>19. /\ b.cols \in Seq(BackendCol) /\ b.rows \in Seq(BackendRow) /\ b.lex \in Seq(Nat)
       /\ Len(b.cols) = m.columns /\ Len(b.rows) = m.rows
       /\ \A q \in 1 .. m.rows : b.rows[q].cols \subseteq 1 .. m.columns
    BY DEF Continues, Sized, Backends
<1>20. rows \in Seq(BackendRow) /\ Len(rows) = Len(holes.rows) + Len(posted)
       /\ \A q \in 1 .. Len(rows) :
             rows[q] = IF q <= Len(holes.rows) THEN holes.rows[q] ELSE posted[q - Len(holes.rows)]
    BY <1>11, <1>15
<1> HIDE DEF made, selectors, rows, sel
<1>21. /\ r.backend.cols \in Seq(BackendCol) /\ Len(r.backend.cols) = r.model.columns
       /\ \A c \in 1 .. m.columns : r.backend.cols[c] = b.cols[c]
       /\ \A c \in m.columns + 1 .. m.columns + k : r.backend.cols[c] = made[c - m.columns]
       /\ \A c \in m.columns + k + 1 .. r.model.columns :
             r.backend.cols[c] = selectors[c - (m.columns + k)]
    <2> DEFINE below == b.cols \o made
    <2>1. /\ below \in Seq(BackendCol) /\ Len(below) = m.columns + k
          /\ \A c \in 1 .. m.columns : below[c] = b.cols[c]
          /\ \A c \in m.columns + 1 .. m.columns + k : below[c] = made[c - m.columns]
        <3>1. /\ b.cols \o made \in Seq(BackendCol) /\ Len(b.cols \o made) = Len(b.cols) + Len(made)
              /\ \A i \in 1 .. Len(b.cols) : (b.cols \o made)[i] = b.cols[i]
              /\ \A i \in Len(b.cols) + 1 .. Len(b.cols) + Len(made) : (b.cols \o made)[i] = made[i - Len(b.cols)]
            <4>1. b.cols \in Seq(BackendCol) /\ made \in Seq(BackendCol)
                BY <1>17, <1>19
            <4> QED BY <4>1, ConcatParts, Zenon
        <3> QED BY <1>17, <1>19, <3>1, Zenon
    <2> HIDE DEF below
    <2>2. r.backend.cols = below \o selectors
        BY <1>14 DEF below
    <2>3. /\ r.backend.cols \in Seq(BackendCol) /\ Len(r.backend.cols) = m.columns + k + sel
          /\ \A c \in 1 .. m.columns + k : r.backend.cols[c] = below[c]
          /\ \A c \in m.columns + k + 1 .. m.columns + k + sel :
                r.backend.cols[c] = selectors[c - (m.columns + k)]
        <3>1. /\ below \o selectors \in Seq(BackendCol) /\ Len(below \o selectors) = Len(below) + Len(selectors)
              /\ \A i \in 1 .. Len(below) : (below \o selectors)[i] = below[i]
              /\ \A i \in Len(below) + 1 .. Len(below) + Len(selectors) : (below \o selectors)[i] = selectors[i - Len(below)]
            BY <1>18, <2>1, ConcatParts, Zenon
        <3> QED BY <1>18, <2>1, <2>2, <3>1, Zenon
    <2>4. \A c \in 1 .. m.columns + k : c \in 1 .. m.columns \/ c \in m.columns + 1 .. m.columns + k
        BY <1>1, <1>9
    <2>5. \A c \in 1 .. m.columns : c \in 1 .. m.columns + k
        BY <1>1, <1>9
    <2>6. \A c \in m.columns + 1 .. m.columns + k : c \in 1 .. m.columns + k
        BY <1>1, <1>9
    <2>7. r.model.columns = m.columns + k + sel
        BY <1>13
    <2>8. \A c \in 1 .. m.columns : r.backend.cols[c] = b.cols[c]
        BY <2>1, <2>3, <2>5, Zenon
    <2>9. \A c \in m.columns + 1 .. m.columns + k : r.backend.cols[c] = made[c - m.columns]
        <3> SUFFICES ASSUME NEW c \in m.columns + 1 .. m.columns + k
                     PROVE  r.backend.cols[c] = made[c - m.columns]
            OBVIOUS
        <3>1. r.backend.cols[c] = below[c]
            BY <2>3, <2>6, Zenon
        <3>2. below[c] = made[c - m.columns]
            <4>1. \A e \in m.columns + 1 .. m.columns + k : below[e] = made[e - m.columns]
                BY <2>1
            <4> QED BY <4>1, Zenon
        <3> QED BY <3>1, <3>2
    <2> QED BY <2>3, <2>7, <2>8, <2>9, Zenon
<1>22. /\ r.backend.rows \in Seq(BackendRow) /\ Len(r.backend.rows) = r.model.rows
       /\ \A q \in 1 .. m.rows : r.backend.rows[q] = b.rows[q]
       /\ \A q \in m.rows + 1 .. r.model.rows : r.backend.rows[q] = rows[q - m.rows]
    <2>1. /\ b.rows \o rows \in Seq(BackendRow) /\ Len(b.rows \o rows) = m.rows + Len(rows)
          /\ \A q \in 1 .. m.rows : (b.rows \o rows)[q] = b.rows[q]
          /\ \A q \in m.rows + 1 .. m.rows + Len(rows) : (b.rows \o rows)[q] = rows[q - m.rows]
        <3>1. /\ b.rows \o rows \in Seq(BackendRow) /\ Len(b.rows \o rows) = Len(b.rows) + Len(rows)
              /\ \A i \in 1 .. Len(b.rows) : (b.rows \o rows)[i] = b.rows[i]
              /\ \A i \in Len(b.rows) + 1 .. Len(b.rows) + Len(rows) : (b.rows \o rows)[i] = rows[i - Len(b.rows)]
            <4>1. b.rows \in Seq(BackendRow) /\ rows \in Seq(BackendRow)
                BY <1>19, <1>20
            <4> QED BY <4>1, ConcatParts, Zenon
        <3> QED BY <1>19, <3>1, Zenon
    <2> QED BY <1>13, <1>14, <2>1, Zenon
<1>23. r.model.columns \in Nat /\ r.model.rows \in Nat /\ Len(rows) \in Nat
       /\ m.columns <= r.model.columns /\ m.columns + k <= r.model.columns
       /\ m.rows <= r.model.rows
    <2>1. m.columns \in Nat /\ m.rows \in Nat /\ k \in Nat /\ sel \in Nat /\ Len(rows) \in Nat
        BY <1>1, <1>9, <1>15, <1>20
    <2>2. r.model.columns = m.columns + k + sel /\ r.model.rows = m.rows + Len(rows)
        BY <1>13
    <2> QED BY <2>1, <2>2, SMTT(30)
<1>34. n \in Nat /\ first \in 0 .. n /\ k \in Nat /\ m.columns \in Nat
    BY <1>1, <1>9
<1>24. \A d \in 1 .. n : loop.column[d] \in 1 .. m.columns + k
    <2> SUFFICES ASSUME NEW d \in 1 .. n PROVE loop.column[d] \in 1 .. m.columns + k
        OBVIOUS
    <2>1. d \in 1 .. first \/ d \in first + 1 .. n
        BY <1>1
    <2>2. CASE d \in 1 .. first
        <3>1. loop.column[d] \in 1 .. m.columns
            BY <1>10, <2>2
        <3> QED BY <1>34, <3>1
    <2>3. CASE d \in first + 1 .. n
        <3>1. loop.column[d] \in m.columns + 1 .. m.columns + k
            BY <1>10, <2>3
        <3> QED BY <1>34, <3>1
    <2> QED BY <2>1, <2>2, <2>3
<1>25. Len(r.model.column) = n /\ r.model.column \in Seq(Nat)
    BY <1>1, <1>9, <1>13, SMTT(60)
<1>26. p.leader \in Seq(Nat) /\ Len(p.leader) = n /\ \A d \in 1 .. n : p.leader[d] \in 1 .. d
    <2>1. p.leader \in [1 .. n -> 1 .. n] /\ \A d \in 1 .. n : p.leader[d] <= d
        BY <1>4 DEF Classes, Leaders
    <2>2. p.leader \in [1 .. n -> Nat]
        BY <2>1, <1>34, SMTT(60)
    <2>3. p.leader \in Seq(Nat) /\ Len(p.leader) = n
        BY <1>34, <2>2, SeqOfFunction
    <2>4. \A d \in 1 .. n : p.leader[d] \in 1 .. d
        BY <2>1, <1>34
    <2> QED BY <2>3, <2>4
<1>27. Posts(r.backend.rows, m.rows, r.model.rows, cons, Len(cons), r.model.column)
    <2>1. m.rows \in Nat /\ Len(holes.rows) \in Nat /\ Len(posted) \in Nat
          /\ r.model.rows = m.rows + (Len(holes.rows) + Len(posted))
        BY <1>1, <1>11, <1>13, <1>15, <1>20
    <2>2. ASSUME NEW q \in m.rows + 1 .. r.model.rows
          PROVE  \/ IsHole(r.backend.rows[q])
                 \/ \E i \in 1 .. Len(cons) :
                       cons[i].kind = "row" /\ r.backend.rows[q] = RowOf(cons[i], loop.column)
        <3>1. r.backend.rows[q] = rows[q - m.rows] /\ q - m.rows \in 1 .. Len(rows)
            <4>1. q - m.rows \in 1 .. Len(rows)
                BY <1>20, <2>1
            <4> QED BY <1>22, <4>1
        <3>2. CASE q - m.rows <= Len(holes.rows)
            <4>1. r.backend.rows[q] = holes.rows[q - m.rows] /\ q - m.rows \in 1 .. Len(holes.rows)
                BY <1>20, <2>1, <3>1, <3>2, SMTT(30)
            <4> QED BY <1>12, <4>1
        <3>3. CASE ~ (q - m.rows <= Len(holes.rows))
            <4> DEFINE j == (q - m.rows) - Len(holes.rows)
            <4>1. r.backend.rows[q] = posted[j] /\ j \in 1 .. Len(posted)
                <5>1. rows[q - m.rows] = posted[j]
                    BY <1>20, <3>1, <3>3
                <5>2. Len(rows) = Len(holes.rows) + Len(posted)
                    BY <1>20
                <5>3. \A x \in 1 .. Len(rows) : ~ (x <= Len(holes.rows)) => x - Len(holes.rows) \in 1 .. Len(posted)
                    BY <2>1, <5>2
                <5>4. j \in 1 .. Len(posted)
                    BY <3>1, <3>3, <5>3
                <5> QED BY <3>1, <5>1, <5>4
            <4> HIDE DEF j
            <4> QED BY <1>11, <4>1 DEF RowsOf
        <3> QED BY <3>2, <3>3
    <2>3. ASSUME NEW i \in 1 .. Len(cons), cons[i].kind = "row"
          PROVE  \E q \in m.rows + 1 .. r.model.rows : r.backend.rows[q] = RowOf(cons[i], loop.column)
        <3>1. PICK j \in 1 .. Len(posted) : posted[j] = RowOf(cons[i], loop.column)
            BY <1>11, <2>3 DEF RowsOf
        <3> DEFINE h == Len(holes.rows) + j
                   q == m.rows + h
        <3>2. h \in 1 .. Len(rows) /\ ~ (h <= Len(holes.rows)) /\ h - Len(holes.rows) = j
            BY <1>20, <2>1
        <3>3. rows[h] = posted[j]
            BY <1>20, <3>2
        <3>4. q \in m.rows + 1 .. r.model.rows /\ q - m.rows = h
            BY <2>1, SMTT(60)
        <3>5. r.backend.rows[q] = rows[h]
            BY <1>22, <3>4
        <3> HIDE DEF q
        <3> QED BY <3>1, <3>3, <3>4, <3>5
    <2> QED BY <1>13, <2>2, <2>3 DEF Posts
<1>35. objective.args \in Seq(Nat) /\ \A i \in 1 .. Len(objective.args) : objective.args[i] \in 1 .. n
    <2>1. objective.args \in Seq(Nat) /\ (Len(objective.args) # 0 => Len(objective.args) = 1 /\ objective.args[1] \in 1 .. n)
        <3>1. objective \in Objectives
            BY DEF Names
        <3>2. objective.args \in Seq(Nat)
            BY <3>1 DEF Objectives
        <3>3. objective.kind = "none" => Len(objective.args) = 0
            BY DEF Names
        <3>4. objective.kind # "none" => Len(objective.args) = 1 /\ objective.args[1] \in 1 .. n
            BY DEF Names, n
        <3>5. CASE objective.kind = "none"
            BY <3>2, <3>3, <3>5
        <3>6. CASE objective.kind # "none"
            BY <3>2, <3>4, <3>6
        <3> QED BY <3>5, <3>6
    <2> QED BY <2>1
<1>28. Ranking(loop.column) \in Seq(Nat)
    <2>1. \A i \in 1 .. Len(objective.args) : loop.column[objective.args[i]] \in Nat
        BY <1>9, <1>35
    <2>2. Len(objective.args) \in Nat /\ DOMAIN objective.args = 1 .. Len(objective.args)
        BY <1>35
    <2>3. Ranking(loop.column) \in [1 .. Len(objective.args) -> Nat]
        BY <2>1, <2>2 DEF Ranking
    <2> QED BY <2>2, <2>3, SeqOfFunction
<1>29. \A q \in 1 .. r.model.rows : r.backend.rows[q].cols \subseteq 1 .. r.model.columns
    <2> SUFFICES ASSUME NEW q \in 1 .. r.model.rows
                 PROVE  r.backend.rows[q].cols \subseteq 1 .. r.model.columns
        OBVIOUS
    <2>1. m.columns \in Nat /\ k \in Nat /\ r.model.columns \in Nat
          /\ m.columns <= r.model.columns /\ m.columns + k <= r.model.columns
        BY <1>23, <1>34
    <2>2. CASE q \in 1 .. m.rows
        <3>1. r.backend.rows[q].cols \subseteq 1 .. m.columns
            BY <1>19, <1>22, <2>2
        <3> QED BY <2>1, <3>1
    <2>3. CASE q \in m.rows + 1 .. r.model.rows
        <3> DEFINE j == q - m.rows
        <3>1. r.backend.rows[q] = rows[j]
            BY <1>22, <2>3
        <3>2. j \in 1 .. Len(rows) /\ Len(holes.rows) \in Nat /\ Len(posted) \in Nat
            <4>1. r.model.rows = m.rows + Len(rows) /\ m.rows \in Nat /\ Len(rows) \in Nat
                BY <1>1, <1>13, <1>20
            <4> QED BY <1>11, <1>15, <2>3, <4>1
        <3> HIDE DEF j
        <3>3. CASE j <= Len(holes.rows)
            <4>1. rows[j] = holes.rows[j] /\ j \in 1 .. Len(holes.rows)
                BY <1>20, <3>2, <3>3
            <4>2. r.backend.rows[q].cols \subseteq m.columns + 1 .. m.columns + k
                BY <1>12, <3>1, <4>1
            <4> QED BY <2>1, <4>2, SMTT(30)
        <3>4. CASE ~ (j <= Len(holes.rows))
            <4> DEFINE h == j - Len(holes.rows)
            <4>1. rows[j] = posted[h] /\ h \in 1 .. Len(posted)
                BY <1>20, <3>2, <3>4, SMTT(60)
            <4> HIDE DEF h
            <4>2. PICK i \in 1 .. Len(cons) : posted[h] = RowOf(cons[i], loop.column)
                BY <1>11, <4>1 DEF RowsOf
            <4>3. loop.column[cons[i].a] \in 1 .. m.columns + k /\ loop.column[cons[i].b] \in 1 .. m.columns + k
                BY <1>24 DEF n
            <4>4. posted[h].cols = {loop.column[cons[i].a], loop.column[cons[i].b]}
                BY <4>2 DEF RowOf, Row
            <4>5. 1 .. m.columns + k \subseteq 1 .. r.model.columns
                BY <2>1
            <4> QED BY <3>1, <4>1, <4>3, <4>4, <4>5
        <3> QED BY <3>2, <3>3, <3>4
    <2> QED BY <1>1, <1>23, <2>2, <2>3
<1>30. Sized(r.model, r.backend)
    <2>1. r.model \in Models
        BY <1>9, <1>13, <1>23, <1>25, <1>26 DEF Models
    <2>2. r.backend.lex \in Seq(Nat)
        BY <1>14, <1>19, <1>28
    <2>3. r.backend \in Backends
        BY <1>14, <1>21, <1>22, <2>2 DEF Backends
    <2>4. \A d \in 1 .. n : r.model.leader[d] \in 1 .. d /\ r.model.column[d] \in 1 .. r.model.columns
        <3> SUFFICES ASSUME NEW d \in 1 .. n
                     PROVE  r.model.leader[d] \in 1 .. d /\ r.model.column[d] \in 1 .. r.model.columns
            OBVIOUS
        <3>1. loop.column[d] \in 1 .. m.columns + k
            BY <1>24
        <3>2. m.columns + k <= r.model.columns /\ r.model.columns \in Nat
            BY <1>23
        <3>3. loop.column[d] \in 1 .. r.model.columns
            BY <1>34, <3>1, <3>2, SMTT(60)
        <3> QED BY <1>13, <1>26, <3>3
    <2> QED BY <1>13, <1>21, <1>22, <1>25, <1>26, <1>29, <2>1, <2>3, <2>4 DEF Sized
<1>31. \A c \in m.columns + 1 .. r.model.columns :
          r.backend.cols[c].cost
              = (objective.kind = "scalar" /\ r.model.column[objective.args[1]] = c)
    <2> SUFFICES ASSUME NEW c \in m.columns + 1 .. r.model.columns
                 PROVE  r.backend.cols[c].cost = Cost(c)
        BY <1>13 DEF Cost
    <2>1. m.columns \in Nat /\ k \in Nat /\ sel \in Nat /\ r.model.columns = m.columns + k + sel
        BY <1>13, <1>15, <1>34
    <2>2. CASE c \in m.columns + 1 .. m.columns + k
        <3>1. r.backend.cols[c] = made[c - m.columns]
            BY <1>21, <2>2
        <3>2. c - m.columns \in 1 .. k /\ m.columns + (c - m.columns) = c
            BY <2>1, <2>2
        <3>3. made[c - m.columns].cost = Cost(m.columns + (c - m.columns))
            BY <1>17, <3>2
        <3> QED BY <3>1, <3>2, <3>3
    <2>3. CASE c \in m.columns + k + 1 .. r.model.columns
        <3>1. r.backend.cols[c] = selectors[c - (m.columns + k)]
            BY <1>21, <2>3
        <3>2. c - (m.columns + k) \in 1 .. sel
            BY <2>1, <2>3, SMTT(60)
        <3>3. r.backend.cols[c].cost = FALSE
            BY <1>18, <3>1, <3>2
        <3>4. ~Cost(c)
            <4> SUFFICES ASSUME Cost(c) PROVE FALSE
                OBVIOUS
            <4>1. objective.kind = "scalar" /\ loop.column[objective.args[1]] = c
                BY DEF Cost
            <4>2. objective.args[1] \in 1 .. n
                BY <4>1 DEF Names, n
            <4>3. c \in 1 .. m.columns + k
                BY <1>24, <4>1, <4>2
            <4> QED BY <2>1, <2>3, <4>3
        <3> QED BY <1>16, <3>3, <3>4, Zenon
    <2> QED BY <2>1, <2>2, <2>3
<1>32. \A d \in 1 .. first : r.model.column[d] = m.column[d]
    BY <1>10, <1>13
<1>33. \A d \in first + 1 .. n : r.model.column[d] > m.columns
    <2> SUFFICES ASSUME NEW d \in first + 1 .. n PROVE r.model.column[d] > m.columns
        OBVIOUS
    <2>1. loop.column[d] \in m.columns + 1 .. m.columns + k
        BY <1>10
    <2> QED BY <1>13, <1>34, <2>1
<1>36. Extends(r, ds, cons, m, b, first, extending)
    BY <1>7, <1>13, <1>14, <1>21, <1>22, <1>23, <1>25, <1>27, <1>30, <1>31, <1>32, <1>33
    DEF Extends, n
<1>37. Adds(r, cons, m, b, loop, holes)
    <2>1. /\ m.columns \in Nat /\ m.rows \in Nat /\ k \in Nat /\ k = Len(loop.bounds) /\ sel = holes.selectors
          /\ Len(holes.rows) \in Nat /\ Len(posted) \in Nat
          /\ r.model.rows = m.rows + (Len(holes.rows) + Len(posted))
          /\ Len(rows) = Len(holes.rows) + Len(posted)
        BY <1>1, <1>11, <1>13, <1>15, <1>20, <1>34 DEF k, sel
    <2>2. r.model.columns = m.columns + Len(loop.bounds) + holes.selectors
        BY <1>13, <2>1
    <2>3. ASSUME NEW c \in m.columns + 1 .. m.columns + k
          PROVE  r.backend.cols[c].bounds = loop.bounds[c - m.columns]
        <3>1. c - m.columns \in 1 .. k
            BY <2>1
        <3> QED BY <1>17, <1>21, <3>1
    <2>4. ASSUME NEW q \in m.rows + 1 .. m.rows + Len(holes.rows)
          PROVE  r.backend.rows[q] = holes.rows[q - m.rows]
        <3>1. q \in m.rows + 1 .. r.model.rows /\ q - m.rows \in 1 .. Len(rows) /\ q - m.rows <= Len(holes.rows)
            BY <2>1, SMTT(30)
        <3> QED BY <1>20, <1>22, <3>1
    <2>5. ASSUME NEW q \in m.rows + Len(holes.rows) + 1 .. r.model.rows
          PROVE  \E i \in 1 .. Len(cons) : r.backend.rows[q] = RowOf(cons[i], loop.column)
        <3>1. /\ q \in m.rows + 1 .. r.model.rows /\ q - m.rows \in 1 .. Len(rows)
              /\ ~ (q - m.rows <= Len(holes.rows)) /\ q - m.rows - Len(holes.rows) \in 1 .. Len(posted)
            BY <2>1, SMTT(30)
        <3>2. r.backend.rows[q] = posted[q - m.rows - Len(holes.rows)]
            BY <1>20, <1>22, <3>1
        <3> QED BY <1>11, <3>1, <3>2 DEF RowsOf
    <2>6. m.rows + Len(holes.rows) <= r.model.rows
        BY <2>1
    <2> QED BY <1>13, <2>1, <2>2, <2>3, <2>4, <2>5, <2>6 DEF Adds
<1>38. Len(m.column) = first
    BY <1>1, <1>7
<1>39. MadeBy(r, ds, cons, m, b, first, extending, p, loop, holes, stray)
    BY <1>6, <1>8, <1>12, <1>13, <1>37, <1>38 DEF MadeBy, n, p, loop, holes, k, column
<1> QED BY <1>36, <1>39 DEF Made

-----------------------------------------------------------------------------
(* The inductive invariant of TypeOK and UnchangedPrefixKept.              *)
LayerType == [tag : Nat, decisions : Nat, constraints : Nat]
EndType   == [decisions : Nat, columns : Nat, rows : Nat]

\* The caller only stops a run before it starts when the solver still has what it
\* saw of the layers.
SeenStops == program.stops # "ever"

\* The caller: layers end one above the other, the last where the model ends,
\* and a constraint names decisions of its own layer or of those below.
ModelInv ==
    /\ program \in Programs /\ program.stops # "ever"
    /\ layers \in Seq(LayerType) /\ Len(layers) <= program.maxLayers
    /\ decisions \in Seq(Decision) /\ constraints \in Seq(Constraint)
    /\ DecisionLayerEnd(Len(layers)) = Len(decisions)
    /\ ConstraintLayerEnd(Len(layers)) = Len(constraints)
    /\ \A j, k \in 0 .. Len(layers) :
          j <= k => /\ DecisionLayerEnd(j) <= DecisionLayerEnd(k)
                    /\ ConstraintLayerEnd(j) <= ConstraintLayerEnd(k)
    /\ \A k \in 0 .. Len(layers), i \in 1 .. Len(constraints) :
          i <= ConstraintLayerEnd(k) => /\ constraints[i].a \in 1 .. DecisionLayerEnd(k)
                                        /\ constraints[i].b \in 1 .. DecisionLayerEnd(k)
    /\ unchanged \in 0 .. Len(layers)

ObjectiveInv ==
    /\ objective \in Objectives /\ objective.kind \in program.objectives \cup {"none"}
    /\ objective.kind = "none" => objective.args = <<>>
    /\ objective.kind # "none" => Len(objective.args) = 1 /\ objective.args[1] \in Nat \ {0}

\* What is built: no column below an end is of a decision above it, and no
\* row below it is over a column above it.
Within(k) ==
    /\ layerEnd[k].decisions <= Len(built.column)
    /\ layerEnd[k].columns <= built.columns
    /\ layerEnd[k].rows <= built.rows
    /\ \A d \in 1 .. layerEnd[k].decisions : built.column[d] <= layerEnd[k].columns
    /\ \A r \in 1 .. layerEnd[k].rows : backend.rows[r].cols \subseteq 1 .. layerEnd[k].columns

EndsInv ==
    /\ layerEnd \in Seq(EndType)
    /\ \A j, k \in 1 .. Len(layerEnd) :
          j <= k => /\ layerEnd[j].decisions <= layerEnd[k].decisions
                    /\ layerEnd[j].columns <= layerEnd[k].columns
                    /\ layerEnd[j].rows <= layerEnd[k].rows
    /\ \A k \in 1 .. Len(layerEnd) : Within(k)

\* The first n recorded ends are those of the layers there are.
SameEnds(n) ==
    n <= Len(layerEnd) /\ \A k \in 1 .. n : layerEnd[k].decisions = DecisionLayerEnd(k)

\* The last recorded end is where the columns and rows end.
EndsWithLayer == 
    layerEnd # <<>> => /\ layerEnd[Len(layerEnd)].columns = built.columns
                       /\ layerEnd[Len(layerEnd)].rows = built.rows

\* The layers up to level have been posted, one after the other, or all of them
\* in one go.  The first build of a run sees all decisions.
Layerwise ==
    /\ Len(layerEnd) = level
    /\ SameEnds(level)
    /\ EndsWithLayer
    /\ level = 0 => built = NoModel /\ backend = EmptyBackend
    /\ Len(built.column) \in {DecisionLayerEnd(level), Len(decisions)}

Whole ==
    /\ layerEnd = <<>> /\ level = Len(layers)
    /\ Len(built.column) = Len(decisions)

IdleInv ==
    /\ level = 0
    /\ Len(layerEnd) = builtLayers
    /\ SameEnds(Min({unchanged, builtLayers}))
    /\ EndsWithLayer
    /\ layerEnd # <<>> => layerEnd[Len(layerEnd)].decisions = Len(built.column)

BuildingInv ==
    /\ layers # <<>>
    /\ level \in 0 .. Len(layers)
    /\ Names(Len(decisions))
    /\ Layerwise \/ Whole

SolvingInv ==
    /\ layers # <<>>
    /\ level = Len(layers)
    /\ Names(Len(decisions))
    /\ Len(built.column) = Len(decisions)
    /\ Len(layerEnd) = builtLayers
    /\ builtLayers \in {0, Len(layers)}
    /\ SameEnds(builtLayers)
    /\ EndsWithLayer

StageInv ==
    /\ pc \in {"idle", "building", "solving"}
    /\ builtLayers \in 0 .. program.maxLayers
    /\ pc = "idle" => IdleInv
    /\ pc = "building" => BuildingInv
    /\ pc = "solving" => SolvingInv
    /\ pc # "solving" => start = <<>>
    /\ DOMAIN start \subseteq DOMAIN decisions

Inv ==
    /\ ModelInv /\ ObjectiveInv
    /\ Sized(built, backend)
    /\ EndsInv /\ StageInv
    /\ last \in Seq(Ids)

-----------------------------------------------------------------------------
(* A tag nothing has: there are more candidates than tags in use.          *)
LEMMA TagsFinite ==
    ASSUME NEW n \in Nat, NEW T, NEW f \in [1 .. n -> T], \A t \in T : \E i \in 1 .. n : f[i] = t
    PROVE  IsFiniteSet(T)
<1>1. ExistsSurjection(1 .. n, T)
    BY DEF ExistsSurjection, Surjection
<1> QED BY <1>1, FS_NatSurjection

LEMMA UnusedIsFresh ==
    ASSUME layers \in Seq(LayerType), Sized(built, backend), last \in Seq(Ids)
    PROVE  Unused \in Nat \ {0} /\ Unused \notin InUse
<1> DEFINE L == {layers[k].tag : k \in 1 .. Len(layers)}
           R == {backend.rows[r].id[1] : r \in 1 .. Len(backend.rows)}
           D == {last[d][1] : d \in 1 .. Len(last)}
<1>1. IsFiniteSet(L)
    <2> DEFINE f == [k \in 1 .. Len(layers) |-> layers[k].tag]
    <2>1. Len(layers) \in Nat
        OBVIOUS
    <2>2. f \in [1 .. Len(layers) -> L]
        OBVIOUS
    <2>3. \A t \in L : \E i \in 1 .. Len(layers) : f[i] = t
        OBVIOUS
    <2> HIDE DEF f, L
    <2> QED BY <2>1, <2>2, <2>3, TagsFinite
<1>2. IsFiniteSet(R)
    <2>1. Len(backend.rows) \in Nat
        BY DEF Sized, Backends
    <2>2. [k \in 1 .. Len(backend.rows) |-> backend.rows[k].id[1]] \in [1 .. Len(backend.rows) -> R]
        OBVIOUS
    <2> QED BY <2>1, <2>2, TagsFinite
<1>3. IsFiniteSet(D)
    <2> DEFINE f == [k \in 1 .. Len(last) |-> last[k][1]]
    <2>1. Len(last) \in Nat
        OBVIOUS
    <2>2. f \in [1 .. Len(last) -> D]
        OBVIOUS
    <2>3. \A t \in D : \E i \in 1 .. Len(last) : f[i] = t
        OBVIOUS
    <2> HIDE DEF f, D
    <2> QED BY <2>1, <2>2, <2>3, TagsFinite
<1>4. IsFiniteSet(InUse)
    <2> HIDE DEF L, R, D
    <2>1. IsFiniteSet(L \cup R)
        BY <1>1, <1>2, FS_Union
    <2>2. IsFiniteSet((L \cup R) \cup D)
        BY <1>3, <2>1, FS_Union
    <2>3. InUse = (L \cup R) \cup D
        BY DEF InUse, L, R, D
    <2> QED BY <2>2, <2>3
<1> DEFINE n == Cardinality(InUse)
           free == {t \in 1 .. n + 1 : t \notin InUse}
<1>5. n \in Nat
    BY <1>4, FS_CardinalityType
<1> HIDE DEF n
<1>6. free # {}
    <2> SUFFICES ASSUME free = {} PROVE FALSE
        OBVIOUS
    <2>1. 1 .. n + 1 \subseteq InUse
        OBVIOUS
    <2>2. Cardinality(1 .. n + 1) <= n
        BY <1>4, <2>1, FS_Subset DEF n
    <2>3. 1 \in Int /\ n + 1 \in Int /\ ~ (1 > n + 1)
        BY <1>5
    <2>4. Cardinality(1 .. n + 1) = (n + 1) - 1 + 1
        BY <2>3, FS_Interval
    <2> QED BY <1>5, <2>2, <2>4
<1>7. free \subseteq Nat \ {0}
    BY <1>5
<1>8. PICK x \in free : \A y \in free : x <= y
    <2> HIDE DEF free
    <2>1. free \subseteq Nat
        BY <1>7
    <2> QED BY <1>6, <2>1, NatMinimum
<1>9. Min(free) \in free
    BY <1>8 DEF Min
<1>10. Unused = Min(free)
    BY DEF Unused, n
<1> QED BY <1>7, <1>9, <1>10

\* What a pushed layer adds.
LEMMA Pushed ==
    ASSUME Inv, PushLayer
    PROVE  \E n \in Nat, added \in Seq(Decision), posted \in Seq(Constraint) :
              /\ layers # <<>> => n \in program.upperDecisions
              /\ Len(added) = n
              /\ decisions' = decisions \o added
              /\ constraints' = constraints \o posted
              /\ layers' = Append(layers, [tag |-> Unused, decisions |-> Len(decisions) + n,
                                           constraints |-> Len(constraints) + Len(posted)])
              /\ \A d \in 1 .. n : added[d].id = <<Unused, d>> /\ added[d].domain \in Domains
              /\ \A i \in 1 .. Len(posted) :
                    /\ posted[i].a \in 1 .. Len(decisions) + n
                    /\ posted[i].b \in 1 .. Len(decisions) + n
                    /\ posted[i].id = <<Unused, 1>>
                    /\ posted[i].kind \in program.baseKinds \cup program.upperKinds
<1>1. Unused \in Nat
    BY UnusedIsFresh DEF Inv, ModelInv
<1>2. PICK counts, domains, kinds :
          /\ Push(counts, domains, kinds)
          /\ counts \subseteq program.baseDecisions \cup program.upperDecisions
          /\ layers # <<>> => counts = program.upperDecisions
          /\ domains \subseteq program.baseDomains \cup program.upperDomains
          /\ kinds \subseteq program.baseKinds \cup program.upperKinds
    BY DEF PushLayer
<1>3. /\ program \in Programs
      /\ counts \subseteq Nat
      /\ kinds \subseteq {"none", "row", "join", "bad"}
      /\ domains \subseteq Sets /\ domains \subseteq Domains
    <2>1. program \in Programs
        BY DEF Inv, ModelInv
    <2>2. domains \subseteq Domains
        BY <1>2, <2>1 DEF Domains
    <2>3. /\ program.baseDecisions \cup program.upperDecisions \subseteq Nat
          /\ program.baseKinds \cup program.upperKinds \subseteq {"none", "row", "join", "bad"}
        BY <2>1, ProgramsAssumption
    <2> QED BY <1>2, <2>1, <2>2, <2>3, DomainsAreSets
<1>4. PICK n \in counts, kind \in kinds, tag \in {Unused} :
          LET all == Len(decisions) + n
              Grows(posted) ==
                  /\ layers' = Append(layers, [tag |-> tag, decisions |-> all,
                                               constraints |-> Len(constraints) + Len(posted)])
                  /\ constraints' = constraints \o posted
          IN  /\ \E ds \in [1 .. n -> domains] :
                    decisions' = decisions \o
                                     [i \in 1 .. n |-> [id |-> <<tag, i>>, domain |-> ds[i]]]
              /\ \/ kind = "none" /\ Grows(<<>>)
                 \/ /\ kind # "none"
                    /\ \E a, b \in 1 .. all :
                         /\ kind = "row" => b = all
                         /\ kind = "join" => a < b
                         /\ kind = "bad" => a = 1 /\ b = all
                         /\ Grows(<<[id |-> <<tag, 1>>, kind |-> kind, a |-> a, b |-> b]>>)
    BY <1>2 DEF Push
<1>5. n \in Nat /\ tag = Unused /\ kind \in {"none", "row", "join", "bad"}
      /\ kind \in program.baseKinds \cup program.upperKinds
    BY <1>2, <1>3
<1>10. layers # <<>> => n \in program.upperDecisions
    BY <1>2
<1>6. PICK ds \in [1 .. n -> domains] :
          decisions' = decisions \o [i \in 1 .. n |-> [id |-> <<tag, i>>, domain |-> ds[i]]]
    BY <1>4
<1> DEFINE added == [i \in 1 .. n |-> [id |-> <<tag, i>>, domain |-> ds[i]]]
<1>7. /\ added \in Seq(Decision) /\ Len(added) = n
      /\ \A d \in 1 .. n : added[d].id = <<Unused, d>> /\ added[d].domain \in Domains
    <2>1. \A i \in 1 .. n : ds[i] \in Sets /\ <<tag, i>> \in Ids
        BY <1>1, <1>3, <1>5 DEF Ids
    <2>2. added \in [1 .. n -> Decision]
        BY <2>1 DEF Decision
    <2>3. \A d \in 1 .. n : added[d].id = <<Unused, d>> /\ added[d].domain \in Domains
        BY <1>3, <1>5
    <2> HIDE DEF added
    <2> QED BY <1>5, <2>2, <2>3, SeqOfFunction
<1>8. CASE kind = "none"
    <2>1. /\ layers' = Append(layers, [tag |-> Unused, decisions |-> Len(decisions) + n,
                                       constraints |-> Len(constraints) + Len(<<>>)])
          /\ constraints' = constraints \o <<>>
        BY <1>4, <1>5, <1>8
    <2> HIDE DEF added
    <2>2. <<>> \in Seq(Constraint) /\ \A i \in 1 .. Len(<<>>) : FALSE
        OBVIOUS
    <2> QED BY <1>5, <1>6, <1>7, <1>10, <2>1, <2>2 DEF added
<1>9. CASE kind # "none"
    <2>1. PICK a, b \in 1 .. Len(decisions) + n :
              LET posted == <<[id |-> <<tag, 1>>, kind |-> kind, a |-> a, b |-> b]>>
              IN  /\ layers' = Append(layers, [tag |-> tag, decisions |-> Len(decisions) + n,
                                               constraints |-> Len(constraints) + Len(posted)])
                  /\ constraints' = constraints \o posted
        BY <1>4, <1>9
    <2> DEFINE c == [id |-> <<tag, 1>>, kind |-> kind, a |-> a, b |-> b]
               posted == <<c>>
    <2>2. c \in Constraint
        <3>1. a \in Nat /\ b \in Nat
            <4>1. Len(decisions) \in Nat
                BY DEF Inv, ModelInv
            <4> QED BY <1>5, <4>1
        <3> QED BY <1>1, <1>5, <1>9, <3>1 DEF Constraint
    <2>3. c.a = a /\ c.b = b /\ c.id = <<Unused, 1>> /\ c.kind = kind
        BY <1>5
    <2> HIDE DEF c
    <2>4. posted \in Seq(Constraint) /\ Len(posted) = 1 /\ posted[1] = c
        BY <2>2
    <2>5. \A i \in 1 .. Len(posted) :
              /\ posted[i].a \in 1 .. Len(decisions) + n
              /\ posted[i].b \in 1 .. Len(decisions) + n
              /\ posted[i].id = <<Unused, 1>>
              /\ posted[i].kind \in program.baseKinds \cup program.upperKinds
        BY <1>5, <2>3, <2>4
    <2>6. /\ layers' = Append(layers, [tag |-> Unused, decisions |-> Len(decisions) + n,
                                       constraints |-> Len(constraints) + Len(posted)])
          /\ constraints' = constraints \o posted
        BY <1>5, <2>1 DEF c
    <2> HIDE DEF added, posted
    <2> QED BY <1>5, <1>6, <1>7, <1>10, <2>4, <2>5, <2>6 DEF added
<1> QED BY <1>8, <1>9

-----------------------------------------------------------------------------
(* The caller's actions.                                                   *)

\* Between runs, what was built stays as it is.
LEMMA IdleKept ==
    ASSUME Inv, pc = "idle", UNCHANGED <<program, pc, level, solver, backend>>,
           unchanged' \in Nat, unchanged' <= unchanged,
           \A k \in 1 .. unchanged' : DecisionLayerEnd(k)' = DecisionLayerEnd(k)
    PROVE  StageInv' /\ EndsInv' /\ Sized(built, backend)' /\ (last \in Seq(Ids))'
<1> USE DEF solver
<1>1. EndsInv' /\ Sized(built, backend)' /\ (last \in Seq(Ids))'
    BY DEF Inv, EndsInv, Within, Sized
<1>2. IdleInv /\ builtLayers \in 0 .. program.maxLayers /\ start = <<>> /\ unchanged \in Nat
      /\ program.maxLayers \in Nat
    <2>1. program \in Programs /\ unchanged \in Nat
        BY DEF Inv, ModelInv
    <2>2. IdleInv /\ builtLayers \in 0 .. program.maxLayers /\ start = <<>>
        BY DEF Inv, StageInv
    <2> QED BY <2>1, <2>2, ProgramsAssumption
<1>3. IdleInv'
    <2>1. Min({unchanged', builtLayers'}) \in 0 .. unchanged'
          /\ Min({unchanged', builtLayers'}) <= Min({unchanged, builtLayers})
          /\ Min({unchanged, builtLayers}) \in Nat
        BY <1>2, MinOfTwo
    <2>2. SameEnds(Min({unchanged, builtLayers}))
        BY <1>2 DEF IdleInv
    <2>3. Len(layerEnd) \in Nat
        BY DEF Inv, EndsInv
    <2>4. SameEnds(Min({unchanged, builtLayers}))'
        <3> DEFINE W == Min({unchanged', builtLayers'})
                   V == Min({unchanged, builtLayers})
        <3>1. \A k \in 1 .. W : k \in 1 .. V /\ k \in 1 .. unchanged'
            BY <1>2, <2>1
        <3>2. W <= Len(layerEnd')
            BY <1>2, <2>1, <2>2, <2>3 DEF SameEnds
        <3> HIDE DEF W, V
        <3>3. \A k \in 1 .. W : layerEnd'[k].decisions = DecisionLayerEnd(k)'
            BY <2>2, <3>1 DEF SameEnds, V
        <3> QED BY <3>2, <3>3 DEF SameEnds, W
    <2> QED BY <1>2, <2>4 DEF IdleInv, EndsWithLayer
<1>4. (DOMAIN start \subseteq DOMAIN decisions)'
    BY <1>2
<1> QED BY <1>1, <1>2, <1>3, <1>4 DEF StageInv

LEMMA PushInv ==
    ASSUME Inv, PushLayer
    PROVE  Inv'
<1>1. PICK n \in Nat, added \in Seq(Decision), posted \in Seq(Constraint) :
              /\ Len(added) = n
              /\ decisions' = decisions \o added
              /\ constraints' = constraints \o posted
              /\ layers' = Append(layers, [tag |-> Unused, decisions |-> Len(decisions) + n,
                                           constraints |-> Len(constraints) + Len(posted)])
              /\ \A i \in 1 .. Len(posted) :
                    /\ posted[i].a \in 1 .. Len(decisions) + n
                    /\ posted[i].b \in 1 .. Len(decisions) + n
    BY Pushed
<1>0. PICK L \in Nat : L = Len(layers)
    BY DEF Inv, ModelInv
<1> DEFINE top == [tag |-> Unused, decisions |-> Len(decisions) + n,
                   constraints |-> Len(constraints) + Len(posted)]
<1>2. /\ layers \in Seq(LayerType) /\ L \in Nat
      /\ decisions \in Seq(Decision) /\ Len(decisions) \in Nat
      /\ constraints \in Seq(Constraint) /\ Len(constraints) \in Nat
      /\ Len(posted) \in Nat /\ unchanged \in 0 .. L
    BY <1>0 DEF Inv, ModelInv
<1>3. top \in LayerType
    BY <1>2, UnusedIsFresh DEF LayerType, Inv
<1>4. /\ layers' \in Seq(LayerType) /\ Len(layers') = L + 1 /\ layers'[L + 1] = top
      /\ \A k \in 1 .. L : layers'[k] = layers[k]
    <2> HIDE DEF top
    <2>1. layers' = Append(layers, top)
        BY <1>1 DEF top
    <2> QED BY <1>0, <1>2, <1>3, <2>1
<1>5. /\ decisions' \in Seq(Decision) /\ Len(decisions') = Len(decisions) + n
      /\ constraints' \in Seq(Constraint) /\ Len(constraints') = Len(constraints) + Len(posted)
      /\ \A i \in 1 .. Len(constraints) : constraints'[i] = constraints[i]
      /\ \A i \in Len(constraints) + 1 .. Len(constraints) + Len(posted) :
            constraints'[i] = posted[i - Len(constraints)]
    <2>1. /\ decisions \o added \in Seq(Decision)
          /\ Len(decisions \o added) = Len(decisions) + Len(added)
        BY <1>2, ConcatParts, Zenon
    <2>2. /\ constraints \o posted \in Seq(Constraint)
          /\ Len(constraints \o posted) = Len(constraints) + Len(posted)
          /\ \A i \in 1 .. Len(constraints) : (constraints \o posted)[i] = constraints[i]
          /\ \A i \in Len(constraints) + 1 .. Len(constraints) + Len(posted) :
                (constraints \o posted)[i] = posted[i - Len(constraints)]
        BY <1>2, ConcatParts, Zenon
    <2> QED BY <1>1, <2>1, <2>2, Zenon
<1>6. \A k \in 0 .. L : /\ DecisionLayerEnd(k)' = DecisionLayerEnd(k)
                        /\ ConstraintLayerEnd(k)' = ConstraintLayerEnd(k)
                        /\ DecisionLayerEnd(k) \in 0 .. Len(decisions)
                        /\ ConstraintLayerEnd(k) \in 0 .. Len(constraints)
    <2> SUFFICES ASSUME NEW k \in 0 .. L
                 PROVE  /\ DecisionLayerEnd(k)' = DecisionLayerEnd(k)
                        /\ ConstraintLayerEnd(k)' = ConstraintLayerEnd(k)
                        /\ DecisionLayerEnd(k) \in 0 .. Len(decisions)
                        /\ ConstraintLayerEnd(k) \in 0 .. Len(constraints)
        OBVIOUS
    <2>1. k # 0 => layers'[k] = layers[k] /\ layers[k] \in LayerType
        BY <1>2, <1>4
    <2>2. DecisionLayerEnd(k) \in Nat /\ ConstraintLayerEnd(k) \in Nat
        BY <2>1 DEF DecisionLayerEnd, ConstraintLayerEnd, LayerType
    <2>3. DecisionLayerEnd(k) <= Len(decisions) /\ ConstraintLayerEnd(k) <= Len(constraints)
        BY <1>0, <1>2 DEF Inv, ModelInv
    <2> QED BY <1>2, <2>1, <2>2, <2>3 DEF DecisionLayerEnd, ConstraintLayerEnd
<1>7. /\ DecisionLayerEnd(L + 1)' = Len(decisions) + n
      /\ ConstraintLayerEnd(L + 1)' = Len(constraints) + Len(posted)
    <2>1. L + 1 # 0
        BY <1>2
    <2>2. top.decisions = Len(decisions) + n /\ top.constraints = Len(constraints) + Len(posted)
        OBVIOUS
    <2> HIDE DEF top
    <2> QED BY <1>4, <2>1, <2>2 DEF DecisionLayerEnd, ConstraintLayerEnd
<1>8. /\ pc = "idle" /\ UNCHANGED <<program, objective, unchanged, pc, level, solver, backend>>
      /\ L < program.maxLayers /\ program.maxLayers \in Nat
    BY <1>0, ProgramsAssumption DEF PushLayer, Inv, ModelInv
<1> HIDE DEF top
<1>9. ModelInv'
    <2>1. \A j, k \in 0 .. L + 1 : j <= k => /\ DecisionLayerEnd(j)' <= DecisionLayerEnd(k)'
                                             /\ ConstraintLayerEnd(j)' <= ConstraintLayerEnd(k)'
        <3> SUFFICES ASSUME NEW j \in 0 .. L + 1, NEW k \in 0 .. L + 1, j <= k
                     PROVE  /\ DecisionLayerEnd(j)' <= DecisionLayerEnd(k)'
                            /\ ConstraintLayerEnd(j)' <= ConstraintLayerEnd(k)'
            OBVIOUS
        <3>1. CASE k \in 0 .. L
            <4>1. j \in 0 .. L
                BY <1>2, <3>1
            <4>2. DecisionLayerEnd(j) <= DecisionLayerEnd(k) /\ ConstraintLayerEnd(j) <= ConstraintLayerEnd(k)
                BY <1>0, <3>1, <4>1 DEF Inv, ModelInv
            <4> QED BY <1>6, <3>1, <4>1, <4>2
        <3>2. CASE k = L + 1 /\ j \in 0 .. L
            <4>1. DecisionLayerEnd(j)' \in 0 .. Len(decisions) /\ ConstraintLayerEnd(j)' \in 0 .. Len(constraints)
                BY <1>6, <3>2
            <4>2. /\ Len(decisions) <= Len(decisions) + n
                  /\ Len(constraints) <= Len(constraints) + Len(posted)
                BY <1>2
            <4>3. \A x \in 0 .. Len(decisions) : x <= Len(decisions) + n
                BY <1>2
            <4>4. \A x \in 0 .. Len(constraints) : x <= Len(constraints) + Len(posted)
                BY <1>2
            <4> QED BY <1>7, <3>2, <4>1, <4>3, <4>4, Zenon
        <3>3. CASE k = L + 1 /\ j = L + 1
            <4>1. Len(decisions) + n <= Len(decisions) + n
                  /\ Len(constraints) + Len(posted) <= Len(constraints) + Len(posted)
                BY <1>2
            <4> QED BY <1>7, <3>3, <4>1, Zenon
        <3> QED BY <1>2, <3>1, <3>2, <3>3
    <2>2. \A k \in 0 .. L + 1, i \in 1 .. Len(constraints') :
              i <= ConstraintLayerEnd(k)' => /\ constraints'[i].a \in 1 .. DecisionLayerEnd(k)'
                                             /\ constraints'[i].b \in 1 .. DecisionLayerEnd(k)'
        <3> SUFFICES ASSUME NEW k \in 0 .. L + 1, NEW i \in 1 .. Len(constraints'),
                            i <= ConstraintLayerEnd(k)'
                     PROVE  /\ constraints'[i].a \in 1 .. DecisionLayerEnd(k)'
                            /\ constraints'[i].b \in 1 .. DecisionLayerEnd(k)'
            OBVIOUS
        <3>1. CASE k \in 0 .. L
            <4>1. i <= ConstraintLayerEnd(k) /\ i \in 1 .. Len(constraints)
                BY <1>2, <1>6, <3>1
            <4>2. constraints[i].a \in 1 .. DecisionLayerEnd(k) /\ constraints[i].b \in 1 .. DecisionLayerEnd(k)
                BY <1>0, <3>1, <4>1 DEF Inv, ModelInv
            <4> QED BY <1>5, <1>6, <3>1, <4>1, <4>2
        <3>2. CASE k = L + 1 /\ i \in 1 .. Len(constraints)
            <4>1. /\ constraints[i].a \in 1 .. DecisionLayerEnd(Len(layers))
                  /\ constraints[i].b \in 1 .. DecisionLayerEnd(Len(layers))
                  /\ DecisionLayerEnd(Len(layers)) = Len(decisions)
                <5>1. Len(layers) \in 0 .. Len(layers) /\ i <= ConstraintLayerEnd(Len(layers))
                    BY <1>0, <1>2, <3>2 DEF Inv, ModelInv
                <5> QED BY <3>2, <5>1 DEF Inv, ModelInv
            <4>2. Len(decisions) <= DecisionLayerEnd(k)' /\ DecisionLayerEnd(k)' \in Nat
                <5>1. Len(decisions) <= Len(decisions) + n /\ Len(decisions) + n \in Nat
                    BY <1>2
                <5> QED BY <1>7, <3>2, <5>1, Zenon
            <4>3. constraints'[i] = constraints[i]
                BY <1>5, <3>2
            <4> QED BY <1>2, <4>1, <4>2, <4>3, SMTT(60)
        <3>3. CASE k = L + 1 /\ i \in Len(constraints) + 1 .. Len(constraints) + Len(posted)
            <4> DEFINE q == i - Len(constraints)
            <4>1. q \in 1 .. Len(posted) /\ constraints'[i] = posted[q]
                BY <1>2, <1>5, <3>3
            <4> HIDE DEF q
            <4>2. posted[q].a \in 1 .. Len(decisions) + n /\ posted[q].b \in 1 .. Len(decisions) + n
                BY <1>1, <4>1
            <4> QED BY <1>7, <3>3, <4>1, <4>2, Zenon
        <3> QED BY <1>2, <1>5, <3>1, <3>2, <3>3
    <2>3. /\ program' \in Programs /\ program'.stops # "ever"
          /\ Len(layers') <= program'.maxLayers /\ unchanged' \in 0 .. Len(layers')
        BY <1>2, <1>4, <1>8 DEF Inv, ModelInv
    <2>4. DecisionLayerEnd(Len(layers))' = Len(decisions') /\ ConstraintLayerEnd(Len(layers))' = Len(constraints')
        BY <1>4, <1>5, <1>7, Zenon
    <2>5. /\ \A j, k \in 0 .. Len(layers') :
                j <= k => /\ DecisionLayerEnd(j)' <= DecisionLayerEnd(k)'
                          /\ ConstraintLayerEnd(j)' <= ConstraintLayerEnd(k)'
          /\ \A k \in 0 .. Len(layers'), i \in 1 .. Len(constraints') :
              i <= ConstraintLayerEnd(k)' => /\ constraints'[i].a \in 1 .. DecisionLayerEnd(k)'
                                             /\ constraints'[i].b \in 1 .. DecisionLayerEnd(k)'
        BY <1>4, <2>1, <2>2, Zenon
    <2> QED BY <1>4, <1>5, <2>3, <2>4, <2>5, Zenon DEF ModelInv
<1>10. ObjectiveInv'
    BY <1>8 DEF Inv, ObjectiveInv
<1>11. unchanged' \in Nat /\ unchanged' <= unchanged
       /\ \A k \in 1 .. unchanged' : DecisionLayerEnd(k)' = DecisionLayerEnd(k)
    BY <1>2, <1>6, <1>8
<1> QED BY <1>8, <1>9, <1>10, <1>11, IdleKept DEF Inv

LEMMA SubSeqParts ==
    ASSUME NEW S, NEW seq \in Seq(S), NEW n \in 0 .. Len(seq)
    PROVE  /\ SubSeq(seq, 1, n) \in Seq(S) /\ Len(SubSeq(seq, 1, n)) = n
           /\ \A i \in 1 .. n : SubSeq(seq, 1, n)[i] = seq[i]
OBVIOUS

\* Where the layers end, as numbers.
LEMMA LayerEnds ==
    ASSUME ModelInv
    PROVE  \A k \in 0 .. Len(layers) : /\ DecisionLayerEnd(k) \in 0 .. Len(decisions)
                                       /\ ConstraintLayerEnd(k) \in 0 .. Len(constraints)
<1> SUFFICES ASSUME NEW k \in 0 .. Len(layers)
             PROVE  /\ DecisionLayerEnd(k) \in 0 .. Len(decisions)
                    /\ ConstraintLayerEnd(k) \in 0 .. Len(constraints)
    OBVIOUS
<1>1. layers \in Seq(LayerType) /\ Len(layers) \in Nat
      /\ Len(decisions) \in Nat /\ Len(constraints) \in Nat
    BY DEF ModelInv
<1>2. k # 0 => layers[k] \in LayerType
    BY <1>1
<1>3. DecisionLayerEnd(k) \in Nat /\ ConstraintLayerEnd(k) \in Nat
    BY <1>2 DEF DecisionLayerEnd, ConstraintLayerEnd, LayerType
<1>4. DecisionLayerEnd(k) <= Len(decisions) /\ ConstraintLayerEnd(k) <= Len(constraints)
    BY <1>1 DEF ModelInv
<1> QED BY <1>1, <1>3, <1>4

LEMMA PopInv ==
    ASSUME Inv, PopLayer
    PROVE  Inv'
<1>1. PICK L \in Nat : L = Len(layers)
    BY DEF Inv, ModelInv
<1>2. /\ pc = "idle" /\ layers # <<>>
      /\ layers' = Front(layers)
      /\ decisions' = SubSeq(decisions, 1, DecisionLayerEnd(L - 1))
      /\ constraints' = SubSeq(constraints, 1, ConstraintLayerEnd(L - 1))
      /\ unchanged' = Min({unchanged, L - 1})
      /\ UNCHANGED <<program, objective, pc, level, solver, backend>>
    BY <1>1 DEF PopLayer
<1>3. /\ layers \in Seq(LayerType) /\ decisions \in Seq(Decision)
      /\ constraints \in Seq(Constraint) /\ unchanged \in 0 .. L
      /\ program \in Programs /\ L <= program.maxLayers /\ program.maxLayers \in Nat
    BY <1>1, ProgramsAssumption DEF Inv, ModelInv
<1>4. L - 1 \in Nat /\ L - 1 \in 0 .. Len(layers)
    BY <1>1, <1>2, <1>3
<1>5. PICK D \in 0 .. Len(decisions), C \in 0 .. Len(constraints) :
          D = DecisionLayerEnd(L - 1) /\ C = ConstraintLayerEnd(L - 1)
    BY <1>4, LayerEnds DEF Inv
<1>6. layers' \in Seq(LayerType) /\ Len(layers') = L - 1 /\ \A k \in 1 .. L - 1 : layers'[k] = layers[k]
    BY <1>1, <1>2, <1>3, <1>4, SubSeqParts DEF Front
<1>7. /\ decisions' \in Seq(Decision) /\ Len(decisions') = D
      /\ constraints' \in Seq(Constraint) /\ Len(constraints') = C
      /\ \A i \in 1 .. C : constraints'[i] = constraints[i]
    BY <1>2, <1>3, <1>5, SubSeqParts, Zenon
<1>8. \A k \in 0 .. L - 1 : /\ DecisionLayerEnd(k)' = DecisionLayerEnd(k)
                            /\ ConstraintLayerEnd(k)' = ConstraintLayerEnd(k)
                            /\ k \in 0 .. Len(layers)
    BY <1>1, <1>4, <1>6 DEF DecisionLayerEnd, ConstraintLayerEnd
<1>9. unchanged' \in 0 .. L - 1 /\ unchanged' <= unchanged /\ unchanged' \in Nat
    BY <1>2, <1>3, <1>4, MinOfTwo, SMTT(60)
<1>10. ModelInv'
    <2>1. \A j, k \in 0 .. L - 1 :
              j <= k => /\ DecisionLayerEnd(j)' <= DecisionLayerEnd(k)'
                        /\ ConstraintLayerEnd(j)' <= ConstraintLayerEnd(k)'
        BY <1>8 DEF Inv, ModelInv
    <2>2. \A k \in 0 .. L - 1, i \in 1 .. C :
              i <= ConstraintLayerEnd(k)' => /\ constraints'[i].a \in 1 .. DecisionLayerEnd(k)'
                                             /\ constraints'[i].b \in 1 .. DecisionLayerEnd(k)'
        <3> SUFFICES ASSUME NEW k \in 0 .. L - 1, NEW i \in 1 .. C, i <= ConstraintLayerEnd(k)'
                     PROVE  /\ constraints'[i].a \in 1 .. DecisionLayerEnd(k)'
                            /\ constraints'[i].b \in 1 .. DecisionLayerEnd(k)'
            OBVIOUS
        <3>1. i <= ConstraintLayerEnd(k) /\ i \in 1 .. Len(constraints) /\ k \in 0 .. Len(layers)
            BY <1>8, <1>3, <1>5
        <3>2. constraints[i].a \in 1 .. DecisionLayerEnd(k) /\ constraints[i].b \in 1 .. DecisionLayerEnd(k)
            BY <3>1 DEF Inv, ModelInv
        <3> QED BY <1>7, <1>8, <3>2, Zenon
    <2>3. L - 1 \in 0 .. L - 1
        BY <1>4
    <2>4. DecisionLayerEnd(L - 1)' = Len(decisions') /\ ConstraintLayerEnd(L - 1)' = Len(constraints')
        BY <1>5, <1>7, <1>8, <2>3, Zenon
    <2>5. DecisionLayerEnd(Len(layers))' = Len(decisions') /\ ConstraintLayerEnd(Len(layers))' = Len(constraints')
        BY <1>6, <2>4, Zenon
    <2>6. /\ program' \in Programs /\ program'.stops # "ever"
          /\ Len(layers') <= program'.maxLayers
        BY <1>2, <1>3, <1>6 DEF Inv, ModelInv
    <2>7. /\ \A j, k \in 0 .. Len(layers') :
                j <= k => /\ DecisionLayerEnd(j)' <= DecisionLayerEnd(k)'
                          /\ ConstraintLayerEnd(j)' <= ConstraintLayerEnd(k)'
          /\ \A k \in 0 .. Len(layers'), i \in 1 .. Len(constraints') :
              i <= ConstraintLayerEnd(k)' => /\ constraints'[i].a \in 1 .. DecisionLayerEnd(k)'
                                             /\ constraints'[i].b \in 1 .. DecisionLayerEnd(k)'
          /\ unchanged' \in 0 .. Len(layers')
        BY <1>6, <1>7, <1>9, <2>1, <2>2, Zenon
    <2> QED BY <1>6, <1>7, <2>5, <2>6, <2>7, Zenon DEF ModelInv
<1>11. ObjectiveInv'
    BY <1>2 DEF Inv, ObjectiveInv
<1>12. \A k \in 1 .. unchanged' : DecisionLayerEnd(k)' = DecisionLayerEnd(k)
    BY <1>4, <1>8, <1>9
<1> QED BY <1>2, <1>9, <1>10, <1>11, <1>12, IdleKept DEF Inv

LEMMA ObjectiveStep ==
    ASSUME Inv, SetObjective \/ ClearObjective
    PROVE  Inv'
<1>1. pc = "idle" /\ UNCHANGED <<program, model, unchanged, pc, level, solver, backend>>
    BY DEF SetObjective, ClearObjective
<1>2. program \in Programs /\ unchanged \in Nat /\ Len(decisions) \in Nat
    BY DEF Inv, ModelInv
<1>3. ModelInv'
    BY <1>1 DEF Inv, ModelInv, model, DecisionLayerEnd, ConstraintLayerEnd
<1>4. ObjectiveInv'
    <2>1. CASE SetObjective
        <3>1. PICK kind \in program.objectives \ {"none"}, d \in 1 .. Len(decisions) :
                  objective' = [kind |-> kind, args |-> <<d>>]
            BY <2>1 DEF SetObjective
        <3>2. kind \in {"scalar", "lex"}
            BY <1>2, ProgramsAssumption
        <3> QED BY <1>1, <1>2, <3>1, <3>2 DEF ObjectiveInv, Objectives
    <2>2. CASE ClearObjective
        BY <1>1, <2>2 DEF ClearObjective, ObjectiveInv, Objectives, NoObjective
    <2> QED BY <2>1, <2>2
<1>5. unchanged' \in Nat /\ unchanged' <= unchanged
      /\ \A k \in 1 .. unchanged' : DecisionLayerEnd(k)' = DecisionLayerEnd(k)
    BY <1>1, <1>2 DEF model, DecisionLayerEnd
<1> QED BY <1>1, <1>3, <1>4, <1>5, IdleKept DEF Inv

-----------------------------------------------------------------------------
(* Where a cut leaves the model and the backend.                           *)
CutOf(m, b, ds, cols, rows, mm, bb) ==
    /\ Sized(mm, bb)
    /\ mm.column = SubSeq(m.column, 1, ds) /\ Len(mm.column) = ds
    /\ mm.leader = SubSeq(m.leader, 1, ds)
    /\ mm.columns = cols /\ mm.rows = rows
    /\ bb.cols = SubSeq(b.cols, 1, cols) /\ bb.rows = SubSeq(b.rows, 1, rows)
    /\ bb.lex = Below(b.lex, cols)

LEMMA CutKeeps ==
    ASSUME NEW m, NEW b, Sized(m, b),
           NEW ds \in 0 .. Len(m.column), NEW cols \in 0 .. m.columns, NEW rows \in 0 .. m.rows,
           \A d \in 1 .. ds : m.column[d] <= cols,
           \A r \in 1 .. rows : b.rows[r].cols \subseteq 1 .. cols,
           NEW mm, mm = CutModel(m, ds, cols, rows),
           NEW bb, bb = CutBackend(b, rows, cols)
    PROVE  CutOf(m, b, ds, cols, rows, mm, bb)
<1>1. /\ m \in Models /\ b \in Backends
      /\ Len(m.leader) = Len(m.column) /\ Len(b.cols) = m.columns /\ Len(b.rows) = m.rows
      /\ \A d \in 1 .. Len(m.column) : m.leader[d] \in 1 .. d /\ m.column[d] \in 1 .. m.columns
    BY DEF Sized
<1>2. /\ m.leader \in Seq(Nat) /\ m.column \in Seq(Nat) /\ m.intervals \in Seq(Sets)
      /\ m.columns \in Nat /\ m.rows \in Nat
      /\ b.cols \in Seq(BackendCol) /\ b.rows \in Seq(BackendRow) /\ b.lex \in Seq(Nat)
    BY <1>1 DEF Models, Backends
<1>3. ds \in Nat /\ cols \in Nat /\ rows \in Nat /\ Len(m.column) \in Nat
    BY <1>2
<1> DEFINE intervals == [c \in 1 .. cols |-> IF c <= Len(m.intervals) THEN m.intervals[c] ELSE {}]
           cut == [r \in 1 .. rows |-> [b.rows[r] EXCEPT !.cols = {c \in @ : c <= cols}]]
<1>4. intervals \in Seq(Sets)
    <2>1. {} \in Sets
        BY EmptyIsSet
    <2>2. intervals \in [1 .. cols -> Sets]
        BY <1>2, <2>1
    <2> HIDE DEF intervals
    <2> QED BY <1>3, <2>2, SeqOfFunction
<1>5. cut = SubSeq(b.rows, 1, rows)
    <2>1. \A r \in 1 .. rows : [b.rows[r] EXCEPT !.cols = {c \in @ : c <= cols}] = b.rows[r]
        <3> SUFFICES ASSUME NEW r \in 1 .. rows
                     PROVE  [b.rows[r] EXCEPT !.cols = {c \in @ : c <= cols}] = b.rows[r]
            OBVIOUS
        <3>1. b.rows[r] \in BackendRow
            BY <1>1, <1>2
        <3>2. {c \in b.rows[r].cols : c <= cols} = b.rows[r].cols
            BY <1>3
        <3> QED BY <3>1, <3>2 DEF BackendRow
    <2>2. cut = [r \in 1 .. rows |-> b.rows[r]]
        BY <2>1
    <2> HIDE DEF cut
    <2> QED BY <1>1, <1>2, <2>2
<1>6. /\ SubSeq(m.leader, 1, ds) \in Seq(Nat) /\ Len(SubSeq(m.leader, 1, ds)) = ds
      /\ \A d \in 1 .. ds : SubSeq(m.leader, 1, ds)[d] = m.leader[d]
    BY <1>1, <1>2, SMTT(60)
<1>7. /\ SubSeq(m.column, 1, ds) \in Seq(Nat) /\ Len(SubSeq(m.column, 1, ds)) = ds
      /\ \A d \in 1 .. ds : SubSeq(m.column, 1, ds)[d] = m.column[d]
    BY <1>2, SMTT(60)
<1>8. /\ SubSeq(b.cols, 1, cols) \in Seq(BackendCol) /\ Len(SubSeq(b.cols, 1, cols)) = cols
    BY <1>1, <1>2
<1>9. /\ SubSeq(b.rows, 1, rows) \in Seq(BackendRow) /\ Len(SubSeq(b.rows, 1, rows)) = rows
      /\ \A r \in 1 .. rows : SubSeq(b.rows, 1, rows)[r] = b.rows[r]
    BY <1>1, <1>2
<1>10. Below(b.lex, cols) \in Seq(Nat)
    BY <1>2, BelowType
<1>11. mm = [leader |-> SubSeq(m.leader, 1, ds), column |-> SubSeq(m.column, 1, ds),
             intervals |-> intervals, columns |-> cols, rows |-> rows]
    BY DEF CutModel
<1>12. bb = [cols |-> SubSeq(b.cols, 1, cols), rows |-> SubSeq(b.rows, 1, rows),
             lex |-> Below(b.lex, cols)]
    BY <1>5 DEF CutBackend
<1> HIDE DEF intervals, cut
<1>13. mm \in Models /\ bb \in Backends
    BY <1>3, <1>4, <1>6, <1>7, <1>8, <1>9, <1>10, <1>11, <1>12 DEF Models, Backends
<1>14. \A d \in 1 .. ds : mm.leader[d] \in 1 .. d /\ mm.column[d] \in 1 .. mm.columns
    <2> SUFFICES ASSUME NEW d \in 1 .. ds
                 PROVE  mm.leader[d] \in 1 .. d /\ mm.column[d] \in 1 .. mm.columns
        OBVIOUS
    <2>1. d \in 1 .. Len(m.column)
        BY <1>3
    <2>2. m.leader[d] \in 1 .. d /\ m.column[d] \in 1 .. m.columns /\ m.column[d] <= cols
        BY <1>1, <2>1
    <2> QED BY <1>2, <1>3, <1>6, <1>7, <1>11, <2>2, SMTT(60)
<1>15. \A r \in 1 .. rows : bb.rows[r].cols \subseteq 1 .. cols
    BY <1>9, <1>12
<1> QED BY <1>6, <1>7, <1>8, <1>9, <1>11, <1>12, <1>13, <1>14, <1>15 DEF Sized, CutOf

-----------------------------------------------------------------------------
(* MipSolver::run.                                                         *)
LEMMA InitInv == Init /\ SeenStops => Inv
<1> SUFFICES ASSUME Init, program.stops # "ever" PROVE Inv
    BY DEF SeenStops
<1> USE DEF Init
<1>1. program.maxLayers \in Nat
    BY ProgramsAssumption
<1>2. ModelInv
    <2>1. Len(layers) = 0 /\ Len(decisions) = 0 /\ Len(constraints) = 0
        OBVIOUS
    <2>2. layers \in Seq(LayerType) /\ decisions \in Seq(Decision) /\ constraints \in Seq(Constraint)
        OBVIOUS
    <2> QED BY <1>1, <2>1, <2>2 DEF ModelInv, DecisionLayerEnd, ConstraintLayerEnd
<1>3. ObjectiveInv
    BY DEF ObjectiveInv, Objectives, NoObjective
<1>4. EndsInv
    BY DEF EndsInv
<1>5. StageInv
    <2>1. Min({unchanged, builtLayers}) = 0
        BY MinOfTwo
    <2> QED BY <1>1, <2>1 DEF StageInv, IdleInv, SameEnds, EndsWithLayer
<1>6. last \in Seq(Ids)
    OBVIOUS
<1> QED BY <1>2, <1>3, <1>4, <1>5, <1>6, EmptySized DEF Inv

\* What a run keeps are recorded ends of layers that are as they were.
LEMMA KeepIs ==
    ASSUME Inv, pc = "idle"
    PROVE  /\ unchanged \in 0 .. Len(layers) /\ builtLayers \in Nat /\ Len(layerEnd) = builtLayers
           /\ Min({unchanged, builtLayers}) \in 0 .. unchanged
           /\ Min({unchanged, builtLayers}) \in 0 .. builtLayers
           /\ Keep = IF builtObjective = objective THEN Min({unchanged, builtLayers}) ELSE 0
<1>1. unchanged \in 0 .. Len(layers) /\ program \in Programs /\ Len(layers) \in Nat
    BY DEF Inv, ModelInv
<1>2. builtLayers \in 0 .. program.maxLayers /\ program.maxLayers \in Nat
    BY <1>1, ProgramsAssumption DEF Inv, StageInv
<1>3. Len(layerEnd) = builtLayers
    BY DEF Inv, StageInv, IdleInv
<1>4. Min({unchanged, builtLayers}) \in 0 .. unchanged /\ Min({unchanged, builtLayers}) \in 0 .. builtLayers
    BY <1>1, <1>2, MinOfTwo
<1> QED BY <1>1, <1>2, <1>3, <1>4 DEF Keep

\* A run that keeps K layers: what is above their end is gone.
LEMMA CutTo ==
    ASSUME Inv, pc = "idle", RunStart, Keep # 0
    PROVE  /\ Keep \in 1 .. Len(layerEnd) /\ Keep \in 1 .. Len(layers)
           /\ Sized(built', backend')
           /\ built'.column = SubSeq(built.column, 1, layerEnd[Keep].decisions)
           /\ Len(built'.column) = layerEnd[Keep].decisions
           /\ built'.leader = SubSeq(built.leader, 1, layerEnd[Keep].decisions)
           /\ built'.columns = layerEnd[Keep].columns /\ built'.rows = layerEnd[Keep].rows
           /\ backend'.cols = SubSeq(backend.cols, 1, layerEnd[Keep].columns)
           /\ backend'.rows = SubSeq(backend.rows, 1, layerEnd[Keep].rows)
           /\ backend'.lex \in {backend.lex, Below(backend.lex, layerEnd[Keep].columns)}
           /\ layerEnd' = SubSeq(layerEnd, 1, Keep)
<1>1. /\ unchanged \in 0 .. Len(layers) /\ builtLayers \in Nat /\ Len(layerEnd) = builtLayers
      /\ Keep \in 1 .. builtLayers /\ Keep \in 1 .. Len(layers)
    <2>1. Len(layers) \in Nat
        BY DEF Inv, ModelInv
    <2> QED BY <2>1, KeepIs
<1> DEFINE end == layerEnd[Keep]
<1>2. /\ end \in EndType /\ Within(Keep) /\ Sized(built, backend)
      /\ layerEnd \in Seq(EndType)
    BY <1>1 DEF Inv, EndsInv
<1>3. /\ end.decisions \in 0 .. Len(built.column) /\ end.columns \in 0 .. built.columns
      /\ end.rows \in 0 .. built.rows
      /\ \A d \in 1 .. end.decisions : built.column[d] <= end.columns
      /\ \A r \in 1 .. end.rows : backend.rows[r].cols \subseteq 1 .. end.columns
    <2>1. end.decisions \in Nat /\ end.columns \in Nat /\ end.rows \in Nat
        BY <1>2 DEF EndType
    <2> QED BY <1>2, <2>1 DEF Within
<1>4. CASE Keep < builtLayers
    <2>1. /\ backend' = CutBackend(backend, end.rows, end.columns)
          /\ built' = CutModel(built, end.decisions, end.columns, end.rows)
          /\ layerEnd' = SubSeq(layerEnd, 1, Keep)
        BY <1>1, <1>4 DEF RunStart
    <2> HIDE DEF end
    <2>2. /\ Sized(built', backend')
          /\ built'.column = SubSeq(built.column, 1, end.decisions) /\ Len(built'.column) = end.decisions
          /\ built'.leader = SubSeq(built.leader, 1, end.decisions)
          /\ built'.columns = end.columns /\ built'.rows = end.rows
          /\ backend'.cols = SubSeq(backend.cols, 1, end.columns)
          /\ backend'.rows = SubSeq(backend.rows, 1, end.rows)
          /\ backend'.lex = Below(backend.lex, end.columns)
        <3>1. PICK mm, bb : mm = built' /\ bb = backend'
            OBVIOUS
        <3>2. mm = CutModel(built, end.decisions, end.columns, end.rows)
              /\ bb = CutBackend(backend, end.rows, end.columns)
            BY <2>1, <3>1
        <3>3. CutOf(built, backend, end.decisions, end.columns, end.rows, mm, bb)
            <4>1. Sized(built, backend)
                BY <1>2
            <4> QED BY <1>3, <3>2, <4>1, CutKeeps, Zenon
        <3> QED BY <3>1, <3>3 DEF CutOf
    <2> QED BY <1>1, <2>1, <2>2 DEF end
<1>5. CASE Keep = builtLayers
    <2>1. UNCHANGED <<built, backend, layerEnd>>
        BY <1>1, <1>5 DEF RunStart
    <2>2. /\ layerEnd # <<>>
          /\ end.columns = built.columns /\ end.rows = built.rows
          /\ end.decisions = Len(built.column)
        BY <1>1, <1>5 DEF Inv, StageInv, IdleInv, EndsWithLayer
    <2>3. /\ SubSeq(built.column, 1, Len(built.column)) = built.column
          /\ SubSeq(built.leader, 1, Len(built.column)) = built.leader
          /\ SubSeq(backend.cols, 1, Len(backend.cols)) = backend.cols
          /\ SubSeq(backend.rows, 1, Len(backend.rows)) = backend.rows
          /\ Len(backend.cols) = built.columns /\ Len(backend.rows) = built.rows
        BY <1>2 DEF Sized, Models, Backends
    <2>4. SubSeq(layerEnd, 1, Len(layerEnd)) = layerEnd
        BY <1>2
    <2> QED BY <1>1, <1>2, <1>5, <2>1, <2>2, <2>3, <2>4
<1> QED BY <1>1, <1>4, <1>5

\* The caller's part stays as it is while a run is on.
LEMMA CallerKept ==
    ASSUME Inv, UNCHANGED <<program, model, objective>>, unchanged' \in 0 .. Len(layers)
    PROVE  ModelInv' /\ ObjectiveInv'
           /\ \A k : DecisionLayerEnd(k)' = DecisionLayerEnd(k) /\ ConstraintLayerEnd(k)' = ConstraintLayerEnd(k)
BY DEF Inv, ModelInv, ObjectiveInv, model, DecisionLayerEnd, ConstraintLayerEnd

LEMMA RunStartInv ==
    ASSUME Inv, RunStart
    PROVE  Inv'
<1>1. /\ pc = "idle" /\ pc' = "building" /\ level' = Keep /\ layers # <<>> /\ Runnable
      /\ UNCHANGED <<caller, builtLayers, builtObjective, last, start>>
    BY DEF RunStart, Runnable
<1>2. /\ unchanged \in 0 .. Len(layers) /\ program \in Programs
      /\ builtLayers \in 0 .. program.maxLayers /\ start = <<>>
      /\ last \in Seq(Ids) /\ Len(layers) \in Nat /\ Len(decisions) \in Nat
    BY <1>1 DEF Inv, ModelInv, StageInv
<1>3. ModelInv' /\ ObjectiveInv'
      /\ \A k : DecisionLayerEnd(k)' = DecisionLayerEnd(k) /\ ConstraintLayerEnd(k)' = ConstraintLayerEnd(k)
    BY <1>1, <1>2, CallerKept DEF caller
<1>4. Names(Len(decisions))
    <2>1. objective.kind # "none" => objective.args[1] <= Len(decisions)
        BY <1>1 DEF Runnable, Inv, ObjectiveInv
    <2> QED BY <1>2, <2>1 DEF Inv, ObjectiveInv, Names
<1>5. Names(Len(decisions))'
    BY <1>1, <1>4 DEF Names, caller, model
<1>6. CASE Keep = 0
    <2>1. built' = NoModel /\ backend' = EmptyBackend /\ layerEnd' = <<>>
        BY <1>6 DEF RunStart
    <2>2. Sized(built', backend') /\ EndsInv'
        BY <2>1, EmptySized DEF EndsInv
    <2>3. Len(built'.column) = 0 /\ DecisionLayerEnd(0) = 0
        BY <2>1 DEF NoModel, DecisionLayerEnd
    <2>4. Layerwise'
        BY <1>1, <1>3, <1>6, <2>1, <2>3 DEF Layerwise, SameEnds, EndsWithLayer
    <2>5. BuildingInv'
        BY <1>1, <1>2, <1>5, <1>6, <2>4 DEF BuildingInv, caller, model
    <2>6. StageInv'
        BY <1>1, <1>2, <2>5 DEF StageInv, caller, model
    <2> QED BY <1>1, <1>2, <1>3, <2>2, <2>6 DEF Inv
<1>7. CASE Keep # 0
    <2>1. PICK K : K = Keep
        OBVIOUS
    <2>2. /\ K \in 1 .. Len(layerEnd) /\ K \in 1 .. Len(layers)
          /\ Sized(built', backend')
          /\ Len(built'.column) = layerEnd[K].decisions
          /\ built'.column = SubSeq(built.column, 1, layerEnd[K].decisions)
          /\ built'.columns = layerEnd[K].columns /\ built'.rows = layerEnd[K].rows
          /\ backend'.rows = SubSeq(backend.rows, 1, layerEnd[K].rows)
          /\ layerEnd' = SubSeq(layerEnd, 1, K)
        BY <1>1, <1>7, <2>1, CutTo
    <2>3. /\ layerEnd \in Seq(EndType) /\ Len(layerEnd) \in Nat
          /\ \A j, k \in 1 .. Len(layerEnd) :
                j <= k => /\ layerEnd[j].decisions <= layerEnd[k].decisions
                          /\ layerEnd[j].columns <= layerEnd[k].columns
                          /\ layerEnd[j].rows <= layerEnd[k].rows
          /\ \A k \in 1 .. Len(layerEnd) : Within(k)
        BY DEF Inv, EndsInv
    <2>4. /\ layerEnd' \in Seq(EndType) /\ Len(layerEnd') = K
          /\ \A k \in 1 .. K : layerEnd'[k] = layerEnd[k] /\ k \in 1 .. Len(layerEnd) /\ k <= K
        BY <2>2, <2>3, SubSeqParts
    <2>5. \A k \in 1 .. K : Within(k)'
        <3> SUFFICES ASSUME NEW k \in 1 .. K PROVE Within(k)'
            OBVIOUS
        <3>1. /\ layerEnd[k].decisions <= layerEnd[K].decisions
              /\ layerEnd[k].columns <= layerEnd[K].columns
              /\ layerEnd[k].rows <= layerEnd[K].rows
              /\ Within(k) /\ Within(K)
            BY <2>2, <2>3, <2>4
        <3>2. layerEnd[k] \in EndType /\ layerEnd[K] \in EndType
            BY <2>2, <2>3, <2>4
        <3>3. /\ layerEnd[k].decisions \in Nat /\ layerEnd[K].decisions \in 0 .. Len(built.column)
              /\ layerEnd[k].rows \in Nat /\ layerEnd[K].rows \in 0 .. Len(backend.rows)
              /\ Len(backend.rows) \in Nat /\ Len(built.column) \in Nat
              /\ built.column \in Seq(Nat) /\ backend.rows \in Seq(BackendRow)
            BY <3>1, <3>2 DEF Within, EndType, Inv, Sized, Models, Backends
        <3>4. \A d \in 1 .. layerEnd[k].decisions : built'.column[d] = built.column[d]
            <4>1. \A d \in 1 .. layerEnd[K].decisions : built'.column[d] = built.column[d]
                BY <2>2, <3>3, SubSeqParts
            <4> QED BY <3>1, <3>3, <4>1
        <3>5. \A r \in 1 .. layerEnd[k].rows : backend'.rows[r] = backend.rows[r]
            <4>1. \A r \in 1 .. layerEnd[K].rows : backend'.rows[r] = backend.rows[r]
                BY <2>2, <3>3, SubSeqParts
            <4> QED BY <3>1, <3>3, <4>1
        <3> QED BY <2>2, <2>4, <3>1, <3>4, <3>5 DEF Within
    <2>6. EndsInv'
        BY <2>3, <2>4, <2>5 DEF EndsInv
    <2>7. SameEnds(K)'
        <3>1. K <= Min({unchanged, builtLayers}) /\ Min({unchanged, builtLayers}) \in Nat
              /\ SameEnds(Min({unchanged, builtLayers}))
            BY <1>1, <1>2, <1>7, <2>1, KeepIs DEF Inv, StageInv, IdleInv
        <3>2. \A k \in 1 .. K : layerEnd[k].decisions = DecisionLayerEnd(k)
            <4>1. PICK V \in Nat : V = Min({unchanged, builtLayers})
                BY <3>1
            <4>2. \A k \in 1 .. V : layerEnd[k].decisions = DecisionLayerEnd(k)
                BY <3>1, <4>1 DEF SameEnds
            <4>3. \A k \in 1 .. K : k \in 1 .. V
                BY <2>2, <3>1, <4>1
            <4> QED BY <4>2, <4>3
        <3> QED BY <1>3, <2>2, <2>3, <2>4, <3>2 DEF SameEnds
    <2>8. Layerwise'
        <3>1. K \in 1 .. K /\ K # 0 /\ layerEnd' # <<>>
            <4>1. K \in Nat \ {0}
                BY <2>2, <2>3
            <4> QED BY <2>4, <4>1
        <3>2. EndsWithLayer'
            BY <2>2, <2>4, <3>1 DEF EndsWithLayer
        <3>3. Len(built'.column) = DecisionLayerEnd(K)'
            BY <2>2, <2>4, <2>7, <3>1 DEF SameEnds
        <3> QED BY <1>1, <2>1, <2>4, <2>7, <3>1, <3>2, <3>3 DEF Layerwise
    <2>9. BuildingInv'
        BY <1>1, <1>2, <1>5, <2>1, <2>2, <2>8 DEF BuildingInv, caller, model
    <2>10. StageInv'
        BY <1>1, <1>2, <2>9 DEF StageInv, caller, model
    <2> QED BY <1>1, <1>2, <1>3, <2>2, <2>6, <2>10 DEF Inv
<1> QED BY <1>6, <1>7

\* The constraints a layer's build sees: those above the layers built.
Above(k) == SubSeq(constraints, ConstraintLayerEnd(k) + 1, Len(constraints))

LEMMA AboveParts ==
    ASSUME ModelInv, NEW k \in 0 .. Len(layers)
    PROVE  /\ Above(k) \in Seq(Constraint)
           /\ Len(Above(k)) = Len(constraints) - ConstraintLayerEnd(k)
           /\ \A i \in 1 .. Len(Above(k)) : /\ ConstraintLayerEnd(k) + i \in 1 .. Len(constraints)
                                            /\ Above(k)[i] = constraints[ConstraintLayerEnd(k) + i]
           /\ \A i \in 1 .. Len(Above(k)) : /\ Above(k)[i].a \in 1 .. Len(decisions)
                                            /\ Above(k)[i].b \in 1 .. Len(decisions)
<1>1. PICK C \in 0 .. Len(constraints) : C = ConstraintLayerEnd(k)
    BY LayerEnds
<1>2. constraints \in Seq(Constraint) /\ Len(constraints) \in Nat
    BY DEF ModelInv
<1> DEFINE tail == SubSeq(constraints, C + 1, Len(constraints))
<1>3. tail \in Seq(Constraint) /\ Len(tail) = Len(constraints) - C
      /\ \A i \in 1 .. Len(constraints) - C : tail[i] = constraints[C + i] /\ C + i \in 1 .. Len(constraints)
    BY <1>1, <1>2, SMTT(60)
<1>4. \A i \in 1 .. Len(constraints) : /\ constraints[i].a \in 1 .. Len(decisions)
                                       /\ constraints[i].b \in 1 .. Len(decisions)
    <2>1. Len(layers) \in 0 .. Len(layers)
        BY DEF ModelInv
    <2>2. \A i \in 1 .. Len(constraints) : i <= ConstraintLayerEnd(Len(layers))
        BY <1>2 DEF ModelInv
    <2> QED BY <2>1, <2>2 DEF ModelInv
<1> HIDE DEF tail
<1>5. \A i \in 1 .. Len(tail) : tail[i].a \in 1 .. Len(decisions) /\ tail[i].b \in 1 .. Len(decisions)
    BY <1>3, <1>4
<1>6. Above(k) = tail
    BY <1>1 DEF Above, tail
<1> QED BY <1>1, <1>3, <1>5, <1>6

LEMMA ConstraintsParts ==
    ASSUME ModelInv
    PROVE  /\ constraints \in Seq(Constraint)
           /\ \A i \in 1 .. Len(constraints) : /\ constraints[i].a \in 1 .. Len(decisions)
                                               /\ constraints[i].b \in 1 .. Len(decisions)
<1>1. Len(layers) \in 0 .. Len(layers) /\ constraints \in Seq(Constraint)
    BY DEF ModelInv
<1>2. \A i \in 1 .. Len(constraints) : i <= ConstraintLayerEnd(Len(layers))
    BY <1>1 DEF ModelInv
<1> QED BY <1>1, <1>2 DEF ModelInv

\* Faults of an earlier build aside, a layer's build continues it.
LEMMA LayerContinues ==
    ASSUME Inv, pc = "building", level < Len(layers)
    PROVE  /\ level \in Nat /\ Layerwise /\ Names(Len(decisions))
           /\ Continues(decisions, built, backend, DecisionLayerEnd(level), level # 0)
<1>1. BuildingInv /\ ModelInv /\ Sized(built, backend)
    BY DEF Inv, StageInv
<1>2. level \in 0 .. Len(layers) /\ Len(layers) \in Nat /\ Layerwise /\ Names(Len(decisions))
    BY <1>1 DEF BuildingInv, Whole, ModelInv
<1>3. DecisionLayerEnd(level) \in 0 .. Len(decisions)
    BY <1>1, <1>2, LayerEnds
<1>4. level = 0 => built = NoModel /\ backend = EmptyBackend /\ DecisionLayerEnd(level) = 0
    BY <1>2 DEF Layerwise, DecisionLayerEnd
<1>5. Len(built.column) = DecisionLayerEnd(level) \/ Len(built.column) = Len(decisions)
    BY <1>2 DEF Layerwise
<1> QED BY <1>1, <1>2, <1>3, <1>4, <1>5 DEF Continues

LEMMA StrayType ==
    ASSUME ModelInv
    PROVE  program.baseDomains \cup program.upperDomains \subseteq Sets /\ {} \in Sets
<1>1. program.baseDomains \cup program.upperDomains \subseteq Domains
    BY DEF ModelInv, Domains
<1>2. {} \in Sets
    BY EmptyIsSet
<1> QED BY <1>1, <1>2, DomainsAreSets

\* A layer is posted on top of those below it.
LEMMA LayerPosts ==
    ASSUME Inv, pc = "building", level < Len(layers),
           NEW stray \in program.baseDomains \cup program.upperDomains,
           NEW r, r = Build(decisions, Above(level), built, backend,
                            DecisionLayerEnd(level), level # 0, stray),
           r.status = "ok"
    PROVE  /\ Extends(r, decisions, Above(level), built, backend, DecisionLayerEnd(level), level # 0)
           /\ Made(r, decisions, Above(level), built, backend, DecisionLayerEnd(level), level # 0)
<1>1. decisions \in Seq(Decision) /\ ModelInv /\ stray \in Sets
    BY StrayType DEF Inv, ModelInv
<1>2. level \in 0 .. Len(layers) /\ Names(Len(decisions))
      /\ Continues(decisions, built, backend, DecisionLayerEnd(level), level # 0)
    <2>1. Len(layers) \in Nat
        BY DEF Inv, ModelInv
    <2> QED BY <2>1, LayerContinues
<1>3. Above(level) \in Seq(Constraint)
      /\ \A i \in 1 .. Len(Above(level)) : /\ Above(level)[i].a \in 1 .. Len(decisions)
                                           /\ Above(level)[i].b \in 1 .. Len(decisions)
    BY <1>1, <1>2, AboveParts
<1> QED BY <1>1, <1>2, <1>3, BuildOk, Zenon

\* All layers are posted in one go.
LEMMA WholePosts ==
    ASSUME Inv, pc = "building",
           NEW r, r = Build(decisions, constraints, NoModel, EmptyBackend, 0, FALSE, {}), r.status = "ok"
    PROVE  /\ Extends(r, decisions, constraints, NoModel, EmptyBackend, 0, FALSE)
           /\ Made(r, decisions, constraints, NoModel, EmptyBackend, 0, FALSE)
<1>1. decisions \in Seq(Decision) /\ ModelInv /\ {} \in Sets /\ Names(Len(decisions))
    BY StrayType DEF Inv, ModelInv, StageInv, BuildingInv
<1>2. constraints \in Seq(Constraint)
      /\ \A i \in 1 .. Len(constraints) : /\ constraints[i].a \in 1 .. Len(decisions)
                                          /\ constraints[i].b \in 1 .. Len(decisions)
    BY <1>1, ConstraintsParts
<1>3. Continues(decisions, NoModel, EmptyBackend, 0, FALSE)
    <2>1. Len(NoModel.column) = 0 /\ Len(decisions) \in Nat
        BY <1>1 DEF NoModel
    <2> QED BY <2>1, EmptySized DEF Continues
<1> QED BY <1>1, <1>2, <1>3, BuildOk, Zenon

\* How a layer's build ends.
LEMMA BuildLayerCases ==
    ASSUME Inv, BuildLayer
    PROVE  /\ pc = "building" /\ level < Len(layers)
           /\ \/ \E r : /\ LayerBuilt(r)
                        /\ Extends(r, decisions, Above(level), built, backend,
                                   DecisionLayerEnd(level), level # 0)
                        /\ Made(r, decisions, Above(level), built, backend,
                                DecisionLayerEnd(level), level # 0)
              \/ \E r : /\ AllBuilt(r)
                        /\ Extends(r, decisions, constraints, NoModel, EmptyBackend, 0, FALSE)
                        /\ Made(r, decisions, constraints, NoModel, EmptyBackend, 0, FALSE)
              \/ RunFails
<1>1. pc = "building" /\ level < Len(layers)
    BY DEF BuildLayer
<1>2. PICK stray \in program.baseDomains \cup program.upperDomains :
         \E r \in {Build(decisions, Above(level), built, backend, DecisionLayerEnd(level),
                         level # 0, stray)} :
             LayerBuilt(r) \/ BuildFallback(r) \/ BuildFails(r)
    BY DEF BuildLayer, Above
<1>3. PICK r : /\ r = Build(decisions, Above(level), built, backend, DecisionLayerEnd(level),
                            level # 0, stray)
               /\ LayerBuilt(r) \/ BuildFallback(r) \/ BuildFails(r)
    BY <1>2, Zenon
<1>4. CASE LayerBuilt(r)
    <2>1. r.status = "ok"
        BY <1>4 DEF LayerBuilt
    <2>2. /\ Extends(r, decisions, Above(level), built, backend, DecisionLayerEnd(level), level # 0)
          /\ Made(r, decisions, Above(level), built, backend, DecisionLayerEnd(level), level # 0)
        BY <1>1, <1>3, <2>1, LayerPosts, Zenon
    <2> QED BY <1>1, <1>4, <2>2
<1>5. CASE BuildFallback(r)
    <2>1. PICK full : /\ full = Build(decisions, constraints, NoModel, EmptyBackend, 0, FALSE, {})
                      /\ AllBuilt(full) \/ BuildFails(full)
        BY <1>5, Zenon DEF BuildFallback
    <2>2. CASE AllBuilt(full)
        <3>1. full.status = "ok"
            BY <2>2 DEF AllBuilt
        <3>2. /\ Extends(full, decisions, constraints, NoModel, EmptyBackend, 0, FALSE)
              /\ Made(full, decisions, constraints, NoModel, EmptyBackend, 0, FALSE)
            BY <1>1, <2>1, <3>1, WholePosts, Zenon
        <3> QED BY <1>1, <2>2, <3>2
    <2>3. CASE BuildFails(full)
        BY <1>1, <2>3 DEF BuildFails
    <2> QED BY <2>1, <2>2, <2>3
<1>6. CASE BuildFails(r)
    BY <1>1, <1>6 DEF BuildFails
<1> QED BY <1>3, <1>4, <1>5, <1>6

LEMMA RunFailsInv ==
    ASSUME Inv, pc = "building", RunFails
    PROVE  Inv'
<1>1. /\ backend' = EmptyBackend /\ built' = NoModel /\ layerEnd' = <<>> /\ builtLayers' = 0
      /\ pc' = "idle" /\ level' = 0 /\ unchanged' = Len(layers)
      /\ UNCHANGED <<program, model, objective, builtObjective, last, start>>
    BY DEF RunFails
<1>2. Len(layers) \in Nat /\ Len(layers) \in 0 .. Len(layers) /\ program.maxLayers \in Nat
    <2>1. layers \in Seq(LayerType) /\ program \in Programs
        BY DEF Inv, ModelInv
    <2>2. program.maxLayers \in Nat
        BY <2>1, ProgramsAssumption
    <2> QED BY <2>1, <2>2
<1>3. ModelInv' /\ ObjectiveInv'
    BY <1>1, <1>2, CallerKept
<1>4. EndsInv' /\ Sized(built', backend')
    BY <1>1, EmptySized DEF EndsInv
<1>5. IdleInv'
    <2>1. Min({unchanged', builtLayers'}) = 0
        BY <1>1, <1>2, MinOfTwo
    <2>2. SameEnds(0)'
        BY <1>1 DEF SameEnds
    <2>3. SameEnds(Min({unchanged, builtLayers}))'
        BY <2>1, <2>2 DEF SameEnds
    <2> QED BY <1>1, <2>3 DEF IdleInv, EndsWithLayer
<1>6. StageInv'
    <2>1. DOMAIN start \subseteq DOMAIN decisions /\ start = <<>>
        BY DEF Inv, StageInv
    <2> QED BY <1>1, <1>2, <1>5, <2>1 DEF StageInv, model
<1> QED BY <1>1, <1>3, <1>4, <1>6 DEF Inv

\* The end recorded for a posted layer.
LayerEndOf(r) == [decisions |-> DecisionLayerEnd(level + 1),
                  columns |-> r.model.columns, rows |-> r.model.rows]

LEMMA LayerBuiltInv ==
    ASSUME Inv, pc = "building", level < Len(layers), NEW r, LayerBuilt(r),
           Extends(r, decisions, Above(level), built, backend, DecisionLayerEnd(level), level # 0)
    PROVE  Inv'
<1>1. PICK l \in Nat, L \in Nat : l = level /\ L = Len(layers) /\ l < L
    BY LayerContinues DEF Inv, ModelInv
<1>2. /\ built' = r.model /\ backend' = r.backend
      /\ layerEnd' = Append(layerEnd, LayerEndOf(r))
      /\ level' = l + 1
      /\ UNCHANGED <<caller, pc, builtLayers, builtObjective, last, start>>
    BY <1>1 DEF LayerBuilt, LayerEndOf
<1>3. Layerwise /\ Names(Len(decisions)) /\ layers # <<>>
    BY LayerContinues DEF Inv, StageInv, BuildingInv
<1>4. /\ Sized(r.model, r.backend)
      /\ Len(r.model.column) = Len(decisions)
      /\ built.columns <= r.model.columns /\ built.rows <= r.model.rows
      /\ \A d \in 1 .. DecisionLayerEnd(l) : r.model.column[d] = built.column[d]
      /\ \A q \in 1 .. built.rows : r.backend.rows[q] = backend.rows[q]
    BY <1>1 DEF Extends
<1>5. /\ ModelInv' /\ ObjectiveInv' /\ unchanged \in 0 .. Len(layers)
      /\ \A k : DecisionLayerEnd(k)' = DecisionLayerEnd(k) /\ ConstraintLayerEnd(k)' = ConstraintLayerEnd(k)
    <2>1. unchanged \in 0 .. Len(layers)
        BY DEF Inv, ModelInv
    <2> QED BY <1>2, <2>1, CallerKept DEF caller
<1>6. /\ layerEnd \in Seq(EndType) /\ Len(layerEnd) = l
      /\ \A j, k \in 1 .. l :
            j <= k => /\ layerEnd[j].decisions <= layerEnd[k].decisions
                      /\ layerEnd[j].columns <= layerEnd[k].columns
                      /\ layerEnd[j].rows <= layerEnd[k].rows
      /\ \A k \in 1 .. l : Within(k)
      /\ \A k \in 1 .. l : layerEnd[k].decisions = DecisionLayerEnd(k)
    BY <1>1, <1>3 DEF Inv, EndsInv, Layerwise, SameEnds
<1>7. PICK D \in 0 .. Len(decisions) : D = DecisionLayerEnd(l + 1)
    <2>1. l + 1 \in 0 .. Len(layers)
        BY <1>1
    <2> QED BY <2>1, LayerEnds DEF Inv
<1>8. /\ built.columns \in Nat /\ built.rows \in Nat
      /\ r.model.columns \in Nat /\ r.model.rows \in Nat
      /\ r.model.column \in Seq(Nat) /\ Len(decisions) \in Nat
      /\ \A d \in 1 .. Len(decisions) : r.model.column[d] \in 1 .. r.model.columns
      /\ \A q \in 1 .. r.model.rows : r.backend.rows[q].cols \subseteq 1 .. r.model.columns
    <2>1. decisions \in Seq(Decision) /\ Sized(built, backend)
        BY DEF Inv, ModelInv
    <2> QED BY <1>4, <2>1 DEF Sized, Models
<1> DEFINE end == LayerEndOf(r)
<1>9. end \in EndType /\ end.decisions = D /\ end.columns = r.model.columns /\ end.rows = r.model.rows
    BY <1>1, <1>7, <1>8 DEF LayerEndOf, EndType
<1> HIDE DEF end
<1>10. /\ layerEnd' \in Seq(EndType) /\ Len(layerEnd') = l + 1 /\ layerEnd'[l + 1] = end
       /\ \A k \in 1 .. l : layerEnd'[k] = layerEnd[k]
    BY <1>1, <1>2, <1>6, <1>9 DEF end
<1>11. \A k \in 1 .. l : /\ layerEnd[k].decisions \in Nat /\ layerEnd[k].columns \in Nat
                         /\ layerEnd[k].rows \in Nat
                         /\ layerEnd[k].decisions <= DecisionLayerEnd(l) /\ layerEnd[k].decisions <= D
                         /\ layerEnd[k].columns <= built.columns /\ layerEnd[k].rows <= built.rows
    <2> SUFFICES ASSUME NEW k \in 1 .. l
                 PROVE  /\ layerEnd[k].decisions \in Nat /\ layerEnd[k].columns \in Nat
                        /\ layerEnd[k].rows \in Nat
                        /\ layerEnd[k].decisions <= DecisionLayerEnd(l) /\ layerEnd[k].decisions <= D
                        /\ layerEnd[k].columns <= built.columns /\ layerEnd[k].rows <= built.rows
        OBVIOUS
    <2>1. layerEnd[k] \in EndType
        BY <1>6
    <2>2. k \in 0 .. Len(layers) /\ l \in 0 .. Len(layers) /\ l + 1 \in 0 .. Len(layers)
          /\ k <= l /\ k <= l + 1
        BY <1>1
    <2>3. DecisionLayerEnd(k) <= DecisionLayerEnd(l) /\ DecisionLayerEnd(k) <= DecisionLayerEnd(l + 1)
        BY <2>2 DEF Inv, ModelInv
    <2> QED BY <1>6, <1>7, <2>1, <2>3 DEF EndType, Within
<1>12. \A k \in 1 .. l : Within(k)'
    <2> SUFFICES ASSUME NEW k \in 1 .. l PROVE Within(k)'
        OBVIOUS
    <2>1. Within(k) /\ layerEnd'[k] = layerEnd[k]
        BY <1>6, <1>10
    <2>2. \A d \in 1 .. layerEnd[k].decisions : r.model.column[d] = built.column[d]
        <3>1. DecisionLayerEnd(l) \in Nat
            <4>1. l \in 0 .. Len(layers)
                BY <1>1
            <4> QED BY <4>1, LayerEnds DEF Inv
        <3>2. \A d \in 1 .. layerEnd[k].decisions : d \in 1 .. DecisionLayerEnd(l)
            BY <1>11, <3>1
        <3> QED BY <1>4, <3>2
    <2>3. \A q \in 1 .. layerEnd[k].rows : r.backend.rows[q] = backend.rows[q]
        <3>1. \A q \in 1 .. layerEnd[k].rows : q \in 1 .. built.rows
            BY <1>8, <1>11
        <3> QED BY <1>4, <3>1
    <2>4. layerEnd[k].decisions <= Len(decisions) /\ layerEnd[k].columns <= r.model.columns
          /\ layerEnd[k].rows <= r.model.rows
        <3>1. built.columns <= r.model.columns /\ built.rows <= r.model.rows
            BY <1>4
        <3>2. D <= Len(decisions) /\ D \in Nat
            BY <1>7, <1>8
        <3>3. /\ layerEnd[k].decisions \in Nat /\ layerEnd[k].columns \in Nat
              /\ layerEnd[k].rows \in Nat /\ layerEnd[k].decisions <= D
              /\ layerEnd[k].columns <= built.columns /\ layerEnd[k].rows <= built.rows
            BY <1>11
        <3> QED BY <1>8, <3>1, <3>2, <3>3, SMTT(60)
    <2> QED BY <1>2, <1>4, <2>1, <2>2, <2>3, <2>4 DEF Within
<1>13. Within(l + 1)'
    <2>1. \A d \in 1 .. D : r.model.column[d] <= r.model.columns
        BY <1>7, <1>8
    <2> QED BY <1>2, <1>4, <1>7, <1>8, <1>9, <1>10, <2>1, SMTT(30) DEF Within
<1>14. EndsInv'
    <2>1. \A k \in 1 .. l + 1 : k \in 1 .. l \/ k = l + 1
        BY <1>1
    <2>2. \A k \in 1 .. l + 1 : Within(k)'
        BY <1>12, <1>13, <2>1
    <2>3. \A j, k \in 1 .. l + 1 :
              j <= k => /\ layerEnd'[j].decisions <= layerEnd'[k].decisions
                        /\ layerEnd'[j].columns <= layerEnd'[k].columns
                        /\ layerEnd'[j].rows <= layerEnd'[k].rows
        <3> SUFFICES ASSUME NEW j \in 1 .. l + 1, NEW k \in 1 .. l + 1, j <= k
                     PROVE  /\ layerEnd'[j].decisions <= layerEnd'[k].decisions
                            /\ layerEnd'[j].columns <= layerEnd'[k].columns
                            /\ layerEnd'[j].rows <= layerEnd'[k].rows
            OBVIOUS
        <3>1. CASE k \in 1 .. l
            <4>1. j \in 1 .. l
                BY <1>1, <3>1
            <4> QED BY <1>6, <1>10, <3>1, <4>1
        <3>2. CASE k = l + 1 /\ j \in 1 .. l
            <4>1. built.columns <= r.model.columns /\ built.rows <= r.model.rows
                BY <1>4
            <4>2. /\ layerEnd[j].decisions \in Nat /\ layerEnd[j].columns \in Nat
                  /\ layerEnd[j].rows \in Nat /\ layerEnd[j].decisions <= D
                  /\ layerEnd[j].columns <= built.columns /\ layerEnd[j].rows <= built.rows
                BY <1>11, <3>2
            <4>3. /\ layerEnd[j].columns <= r.model.columns
                  /\ layerEnd[j].rows <= r.model.rows
                BY <1>8, <4>1, <4>2, SMTT(60)
            <4>4. layerEnd'[j] = layerEnd[j] /\ layerEnd'[k] = end
                BY <1>10, <3>2
            <4> QED BY <1>9, <4>2, <4>3, <4>4
        <3>3. CASE k = l + 1 /\ j = l + 1
            BY <1>7, <1>8, <1>9, <1>10, <3>3
        <3> QED BY <2>1, <3>1, <3>2, <3>3
    <2> QED BY <1>10, <2>2, <2>3 DEF EndsInv
<1>15. Layerwise'
    <2>1. \A k \in 1 .. l + 1 : layerEnd'[k].decisions = DecisionLayerEnd(k)
        <3>1. \A k \in 1 .. l + 1 : k \in 1 .. l \/ k = l + 1
            BY <1>1
        <3> QED BY <1>6, <1>7, <1>9, <1>10, <3>1
    <2>2. SameEnds(l + 1)'
        BY <1>1, <1>5, <1>10, <2>1 DEF SameEnds
    <2>3. EndsWithLayer'
        BY <1>2, <1>9, <1>10 DEF EndsWithLayer
    <2>4. Len(built'.column) = Len(decisions') /\ level' # 0
        BY <1>1, <1>2, <1>4 DEF caller, model
    <2> QED BY <1>2, <1>10, <2>2, <2>3, <2>4, Zenon DEF Layerwise, SameEnds
<1>16. StageInv'
    <2>1. level' \in 0 .. Len(layers)
        BY <1>1, <1>2
    <2>2. BuildingInv'
        BY <1>2, <1>3, <1>15, <2>1 DEF BuildingInv, Names, caller, model
    <2> QED BY <1>2, <2>2 DEF Inv, StageInv, caller, model
<1>17. Sized(built', backend') /\ last' \in Seq(Ids)
    BY <1>2, <1>4 DEF Inv
<1> QED BY <1>5, <1>14, <1>16, <1>17 DEF Inv

LEMMA AllBuiltInv ==
    ASSUME Inv, pc = "building", NEW r, AllBuilt(r),
           Extends(r, decisions, constraints, NoModel, EmptyBackend, 0, FALSE)
    PROVE  Inv'
<1>1. /\ built' = r.model /\ backend' = r.backend /\ layerEnd' = <<>>
      /\ level' = Len(layers)
      /\ UNCHANGED <<caller, pc, builtLayers, builtObjective, last, start>>
    BY DEF AllBuilt
<1>2. unchanged \in 0 .. Len(layers) /\ Len(layers) \in 0 .. Len(layers)
    BY DEF Inv, ModelInv
<1>3. ModelInv' /\ ObjectiveInv'
    BY <1>1, <1>2, CallerKept DEF caller
<1>4. EndsInv' /\ Sized(built', backend')
    BY <1>1 DEF EndsInv, Extends
<1>5. BuildingInv'
    <2>1. Whole'
        BY <1>1 DEF Whole, Extends, caller, model
    <2>2. BuildingInv
        BY DEF Inv, StageInv
    <2> QED BY <1>1, <1>2, <2>1, <2>2 DEF BuildingInv, Names, caller, model
<1>6. StageInv'
    BY <1>1, <1>5 DEF Inv, StageInv, caller, model
<1> QED BY <1>1, <1>3, <1>4, <1>6 DEF Inv

LEMMA StartSolveInv ==
    ASSUME Inv, StartSolve
    PROVE  Inv'
<1>1. /\ pc = "building" /\ level = Len(layers) /\ pc' = "solving"
      /\ UNCHANGED <<caller, level, built, last, backend>>
      /\ \/ Len(layerEnd) = Len(layers) /\ builtLayers' = Len(layers) /\ layerEnd' = layerEnd
         \/ Len(layerEnd) # Len(layers) /\ builtLayers' = 0 /\ layerEnd' = <<>>
    BY DEF StartSolve
<1>2. /\ unchanged \in 0 .. Len(layers) /\ Len(layers) \in 0 .. Len(layers) /\ Len(layers) \in Nat
      /\ program \in Programs /\ Len(layers) <= program.maxLayers
      /\ DecisionLayerEnd(Len(layers)) = Len(decisions) /\ Len(decisions) \in Nat
      /\ decisions \in Seq(Decision)
    BY DEF Inv, ModelInv
<1>3. ModelInv' /\ ObjectiveInv'
      /\ \A k : DecisionLayerEnd(k)' = DecisionLayerEnd(k) /\ ConstraintLayerEnd(k)' = ConstraintLayerEnd(k)
    BY <1>1, <1>2, CallerKept DEF caller
<1>4. BuildingInv
    BY <1>1 DEF Inv, StageInv
<1>5. EndsInv' /\ Sized(built', backend')
    <2>1. CASE layerEnd' = layerEnd
        BY <1>1, <2>1 DEF Inv, EndsInv, Within
    <2>2. CASE layerEnd' = <<>>
        BY <1>1, <2>2 DEF Inv, EndsInv
    <2> QED BY <1>1, <2>1, <2>2
<1>6. SolvingInv'
    <2>1. Len(built.column) = Len(decisions)
        BY <1>1, <1>2, <1>4 DEF BuildingInv, Layerwise, Whole
    <2>2. CASE Len(layerEnd) = Len(layers)
        <3>1. builtLayers' = Len(layers) /\ layerEnd' = layerEnd /\ layers # <<>>
            BY <1>1, <1>4, <2>2 DEF BuildingInv
        <3>2. Layerwise
            <4>1. Len(layers) # 0
                BY <1>2, <3>1 DEF Inv, ModelInv
            <4> QED BY <1>4, <2>2, <4>1 DEF BuildingInv, Whole
        <3>3. SameEnds(builtLayers)' /\ EndsWithLayer'
            BY <1>1, <1>3, <3>1, <3>2 DEF Layerwise, SameEnds, EndsWithLayer
        <3> QED BY <1>1, <1>4, <2>1, <2>2, <3>1, <3>3 DEF SolvingInv, BuildingInv, Names, caller, model
    <2>3. CASE Len(layerEnd) # Len(layers)
        <3>1. builtLayers' = 0 /\ layerEnd' = <<>>
            BY <1>1, <2>3
        <3>2. SameEnds(builtLayers)' /\ EndsWithLayer'
            BY <3>1 DEF SameEnds, EndsWithLayer
        <3> QED BY <1>1, <1>4, <2>1, <3>1, <3>2 DEF SolvingInv, BuildingInv, Names, caller, model
    <2> QED BY <2>2, <2>3
<1>7. DOMAIN start' \subseteq DOMAIN decisions'
    <2>1. PICK advised \in program.warmStarts : start' = Offer(advised)
        BY DEF StartSolve
    <2>2. last \in Seq(Ids) /\ Len(last) \in Nat
        BY DEF Inv
    <2>3. DecisionLayerEnd(unchanged) \in 0 .. Len(decisions)
        BY <1>2, LayerEnds DEF Inv
    <2>4. Min({DecisionLayerEnd(unchanged), Len(last)}) \in 0 .. Len(decisions)
        BY <2>2, <2>3, MinOfTwo
    <2>5. DOMAIN decisions = 1 .. Len(decisions)
        BY <1>2
    <2>6. 1 .. Min({DecisionLayerEnd(unchanged), Len(last)}) \subseteq DOMAIN decisions
        BY <1>2, <2>4, <2>5
    <2>7. DOMAIN start' \subseteq DOMAIN decisions
        BY <2>1, <2>6, Zenon DEF Offer
    <2> QED BY <1>1, <2>7 DEF caller, model
<1>8. StageInv'
    <2>1. builtLayers' \in 0 .. program.maxLayers
        <3>1. program.maxLayers \in Nat
            BY <1>2, ProgramsAssumption
        <3> QED BY <1>1, <1>2, <3>1
    <2> QED BY <1>1, <1>6, <1>7, <2>1 DEF StageInv, caller
<1> QED BY <1>1, <1>3, <1>5, <1>8 DEF Inv

LEMMA EndRunInv ==
    ASSUME Inv, NEW outcome, EndRun(outcome)
    PROVE  Inv'
<1>1. /\ pc = "solving" /\ start' = <<>> /\ unchanged' = Len(layers) /\ pc' = "idle" /\ level' = 0
      /\ last' \in {Remember, last}
      /\ UNCHANGED <<program, model, objective, built, layerEnd, builtLayers, builtObjective, backend>>
    BY DEF EndRun
<1>2. /\ Len(layers) \in 0 .. Len(layers) /\ Len(layers) \in Nat
      /\ DecisionLayerEnd(Len(layers)) = Len(decisions) /\ Len(decisions) \in Nat
      /\ decisions \in Seq(Decision)
    BY DEF Inv, ModelInv
<1>3. ModelInv' /\ ObjectiveInv'
      /\ \A k : DecisionLayerEnd(k)' = DecisionLayerEnd(k) /\ ConstraintLayerEnd(k)' = ConstraintLayerEnd(k)
    BY <1>1, <1>2, CallerKept
<1>4. SolvingInv /\ EndsInv
    BY <1>1 DEF Inv, StageInv
<1>5. EndsInv' /\ Sized(built', backend')
    BY <1>1 DEF Inv, EndsInv, Within
<1>6. IdleInv'
    <2>1. PICK B \in Nat : B = builtLayers /\ B = Len(layerEnd) /\ B <= Len(layers) /\ B \in {0, Len(layers)}
        BY <1>2, <1>4 DEF SolvingInv, EndsInv
    <2>2. Min({unchanged', builtLayers'}) = B
        BY <1>1, <1>2, <2>1, MinOfTwo
    <2>3. SameEnds(B)'
        BY <1>1, <1>3, <1>4, <2>1 DEF SolvingInv, SameEnds
    <2>4. SameEnds(Min({unchanged, builtLayers}))'
        BY <2>2, <2>3 DEF SameEnds
    <2>5. EndsWithLayer'
        BY <1>1, <1>4 DEF SolvingInv, EndsWithLayer
    <2>6. layerEnd # <<>> => layerEnd[Len(layerEnd)].decisions = Len(built.column)
        <3> SUFFICES ASSUME layerEnd # <<>> PROVE layerEnd[Len(layerEnd)].decisions = Len(built.column)
            OBVIOUS
        <3>1. B # 0 /\ B = Len(layers)
            BY <1>4, <2>1 DEF EndsInv
        <3>2. layerEnd[B].decisions = DecisionLayerEnd(B)
            BY <1>4, <2>1, <3>1 DEF SolvingInv, SameEnds
        <3> QED BY <1>2, <1>4, <2>1, <3>1, <3>2 DEF SolvingInv
    <2> QED BY <1>1, <2>1, <2>4, <2>5, <2>6 DEF IdleInv
<1>7. last' \in Seq(Ids)
    <2>1. Remember \in [1 .. Len(decisions) -> Ids]
        <3>1. \A d \in 1 .. Len(decisions) : decisions[d] \in Decision
            BY <1>2
        <3>2. \A d \in 1 .. Len(decisions) : decisions[d].id \in Ids
            BY <3>1 DEF Decision
        <3> QED BY <3>2 DEF Remember
    <2>2. Remember \in Seq(Ids)
        BY <1>2, <2>1, SeqOfFunction, Zenon
    <2> QED BY <1>1, <2>2 DEF Inv
<1>8. StageInv'
    <2>1. builtLayers \in 0 .. program.maxLayers
        BY DEF Inv, StageInv
    <2> QED BY <1>1, <1>6, <2>1 DEF StageInv
<1> QED BY <1>3, <1>5, <1>7, <1>8 DEF Inv

\* A stopped run leaves what there is, and what the next run may keep of it.
LEMMA StoppedKeeps ==
    ASSUME Inv, RunStopped
    PROVE  /\ pc = "idle" /\ unchanged' = Len(layers)
           /\ UNCHANGED <<program, layers, decisions, constraints, objective, pc, level, built,
                          layerEnd, builtLayers, builtObjective, last, start, backend>>
           /\ Min({unchanged', builtLayers'}) = Min({unchanged, builtLayers})
<1>1. /\ pc = "idle" /\ unchanged' = Len(layers) /\ Seen
      /\ UNCHANGED <<program, layers, decisions, constraints, objective, pc, level, built,
                     layerEnd, builtLayers, builtObjective, last, start, backend>>
    BY DEF RunStopped, Inv, ModelInv, model, solver
<1>2. PICK L \in Nat, B \in Nat, U \in Nat :
          L = Len(layers) /\ B = builtLayers /\ U = unchanged /\ U <= L
    <2>1. Len(layers) \in Nat /\ unchanged \in 0 .. Len(layers)
        BY DEF Inv, ModelInv
    <2>2. builtLayers \in Nat
        BY <1>1, KeepIs
    <2> QED BY <2>1, <2>2
<1>3. \A m \in Nat, n \in Nat : Min({m, n}) = IF m <= n THEN m ELSE n
    BY MinOfTwo
<1>4. U >= Min({L, B})
    BY <1>1, <1>2 DEF Seen
<1>5. Min({L, B}) = Min({U, B})
    <2>1. Min({L, B}) = (IF L <= B THEN L ELSE B) /\ Min({U, B}) = (IF U <= B THEN U ELSE B)
        BY <1>3
    <2> QED BY <1>2, <1>4, <2>1
<1> QED BY <1>1, <1>2, <1>5

LEMMA StoppedInv ==
    ASSUME Inv, RunStopped
    PROVE  Inv'
<1>1. /\ pc = "idle" /\ unchanged' = Len(layers)
      /\ UNCHANGED <<program, layers, decisions, constraints, objective, pc, level, built,
                     layerEnd, builtLayers, builtObjective, last, start, backend>>
      /\ Min({unchanged', builtLayers'}) = Min({unchanged, builtLayers})
    BY StoppedKeeps
<1>2. Len(layers) \in 0 .. Len(layers)
    BY DEF Inv, ModelInv
<1>3. ModelInv' /\ ObjectiveInv'
    BY <1>1, <1>2, CallerKept DEF model
<1>4. EndsInv' /\ Sized(built', backend') /\ last' \in Seq(Ids)
    BY <1>1 DEF Inv, EndsInv, Within
<1>5. StageInv'
    <2>1. IdleInv'
        <3>1. IdleInv
            BY <1>1 DEF Inv, StageInv
        <3>2. SameEnds(Min({unchanged, builtLayers}))'
            BY <1>1, <3>1 DEF IdleInv, SameEnds, DecisionLayerEnd
        <3> QED BY <1>1, <3>1, <3>2 DEF IdleInv, EndsWithLayer
    <2> QED BY <1>1, <2>1 DEF Inv, StageInv
<1> QED BY <1>3, <1>4, <1>5 DEF Inv

LEMMA NextInv ==
    ASSUME Inv, [Next]_vars
    PROVE  Inv'
<1>1. CASE PushLayer
    BY <1>1, PushInv
<1>2. CASE PopLayer
    BY <1>2, PopInv
<1>3. CASE SetObjective \/ ClearObjective
    BY <1>3, ObjectiveStep
<1>4. CASE RunStart
    BY <1>4, RunStartInv
<1>5. CASE BuildLayer
    <2>1. CASE RunFails
        BY <1>5, <2>1, BuildLayerCases, RunFailsInv
    <2>2. CASE ~RunFails
        BY <1>5, <2>2, BuildLayerCases, LayerBuiltInv, AllBuiltInv
    <2> QED BY <2>1, <2>2
<1>6. CASE StartSolve
    BY <1>6, StartSolveInv
<1>7. CASE \E outcome \in program.outcomes : EndRun(outcome)
    BY <1>7, EndRunInv
<1>8. CASE UNCHANGED vars
    <2>1. ModelInv' /\ ObjectiveInv'
        BY <1>8 DEF vars, caller, model, Inv, ModelInv, ObjectiveInv, DecisionLayerEnd,
            ConstraintLayerEnd
    <2>2. EndsInv' /\ Sized(built', backend') /\ last' \in Seq(Ids)
        BY <1>8 DEF vars, solver, Inv, EndsInv, Within
    <2>3. Names(Len(decisions)) => Names(Len(decisions))'
        BY <1>8 DEF vars, caller, model, Names
    <2>4. StageInv'
        <3>1. IdleInv => IdleInv'
            BY <1>8 DEF vars, caller, model, solver, IdleInv, SameEnds, EndsWithLayer, DecisionLayerEnd
        <3>2. BuildingInv => BuildingInv'
            BY <1>8, <2>3 DEF vars, caller, model, solver, BuildingInv, Layerwise, Whole, SameEnds,
                EndsWithLayer, DecisionLayerEnd
        <3>3. SolvingInv => SolvingInv'
            BY <1>8, <2>3 DEF vars, caller, model, solver, SolvingInv, SameEnds, EndsWithLayer,
                DecisionLayerEnd
        <3> QED BY <1>8, <3>1, <3>2, <3>3 DEF Inv, StageInv, vars, caller, model, solver
    <2> QED BY <2>1, <2>2, <2>4 DEF Inv
<1>9. CASE RunStopped
    BY <1>9, StoppedInv
<1> QED BY <1>1, <1>2, <1>3, <1>4, <1>5, <1>6, <1>7, <1>8, <1>9 DEF Next

\* In every state the program can reach, for a caller that stops no run before it
\* starts after it pushed a layer in the place of one that is built.
THEOREM Invariance == Spec /\ SeenStops => []Inv
<1>1. Init /\ SeenStops => Inv
    BY InitInv
<1>2. Inv /\ [Next]_vars => Inv'
    BY NextInv
<1> QED BY <1>1, <1>2, PTL DEF Spec

\* The states are what the declarations say, the backend holds the columns and
\* rows the model counts, and nothing is offered for a decision that is not there.
THEOREM TypeCorrect == Spec /\ SeenStops => []TypeOK
<1>1. Inv => TypeOK
    <2> SUFFICES ASSUME Inv PROVE TypeOK
        OBVIOUS
    <2>1. Len(layers) <= program.maxLayers /\ unchanged \in 0 .. Len(layers) /\ Len(layers) \in Nat
        BY DEF Inv, ModelInv
    <2>2. objective.kind \in program.objectives \cup {"none"}
        BY DEF Inv, ObjectiveInv
    <2>3. /\ Len(backend.cols) = built.columns /\ Len(backend.rows) = built.rows
          /\ Len(built.leader) = Len(built.column)
        BY DEF Inv, Sized
    <2>4. /\ pc \in {"idle", "building", "solving"} /\ builtLayers \in 0 .. program.maxLayers
          /\ DOMAIN start \subseteq DOMAIN decisions
        BY DEF Inv, StageInv
    <2>5. level \in 0 .. Len(layers)
        BY <2>1, <2>4 DEF Inv, StageInv, IdleInv, BuildingInv, SolvingInv
    <2> QED BY <2>1, <2>2, <2>3, <2>4, <2>5 DEF TypeOK
<1> QED BY <1>1, Invariance, PTL

\* A run whose objective is the one built for posts nothing that lies below the
\* last unchanged layer it has built: the backend's rows up to that layer's end,
\* its columns and the columns of its decisions are those of the last run.
THEOREM PrefixKept == Spec /\ SeenStops => UnchangedPrefixKept
<1> DEFINE K == Min({unchanged, builtLayers})
           Keeps == RunStart /\ K > 0 /\ builtObjective = objective =>
                       LET end == layerEnd[K]
                       IN  /\ backend'.rows = SubSeq(backend.rows, 1, end.rows)
                           /\ IsPrefix(SubSeq(backend.cols, 1, end.columns), backend'.cols)
                           /\ built'.column = SubSeq(built.column, 1, end.decisions)
<1>1. Inv /\ [Next]_vars => [Keeps]_vars
    <2> SUFFICES ASSUME Inv, RunStart, K > 0, builtObjective = objective
                 PROVE  /\ backend'.rows = SubSeq(backend.rows, 1, layerEnd[K].rows)
                        /\ IsPrefix(SubSeq(backend.cols, 1, layerEnd[K].columns), backend'.cols)
                        /\ built'.column = SubSeq(built.column, 1, layerEnd[K].decisions)
        OBVIOUS
    <2>1. pc = "idle"
        BY DEF RunStart
    <2>2. Keep = K /\ K # 0
        BY <2>1, KeepIs
    <2>3. /\ built'.column = SubSeq(built.column, 1, layerEnd[K].decisions)
          /\ backend'.cols = SubSeq(backend.cols, 1, layerEnd[K].columns)
          /\ backend'.rows = SubSeq(backend.rows, 1, layerEnd[K].rows)
        <3>1. /\ built'.column = SubSeq(built.column, 1, layerEnd[Keep].decisions)
              /\ backend'.cols = SubSeq(backend.cols, 1, layerEnd[Keep].columns)
              /\ backend'.rows = SubSeq(backend.rows, 1, layerEnd[Keep].rows)
            BY <2>1, <2>2, CutTo
        <3> QED BY <2>2, <3>1
    <2>4. IsPrefix(backend'.cols, backend'.cols)
        <3>1. Len(backend'.cols) \in Nat
            <4>1. Sized(built', backend')
                BY NextInv DEF Inv, Next
            <4> QED BY <4>1 DEF Sized, Backends
        <3> QED BY <3>1 DEF IsPrefix
    <2> QED BY <2>3, <2>4
<1> QED BY <1>1, Invariance, PTL DEF Spec, UnchangedPrefixKept

-----------------------------------------------------------------------------
(* What a step of the caller leaves of the model.                          *)
CallerActs == PushLayer \/ PopLayer \/ SetObjective \/ ClearObjective

\* A pushed layer has a tag of its own, and so have its constraints.
LEMMA PushParts ==
    ASSUME Inv, PushLayer
    PROVE  \E L \in Nat, C \in Nat :
              /\ L = Len(layers) /\ C = Len(constraints) /\ C <= Len(constraints')
              /\ Len(layers') = L + 1 /\ layers'[L + 1].tag = Unused
              /\ ConstraintLayerEnd(L + 1)' = Len(constraints')
              /\ \A k \in 1 .. L : layers'[k] = layers[k]
              /\ \A k \in 0 .. L : /\ DecisionLayerEnd(k)' = DecisionLayerEnd(k)
                                   /\ ConstraintLayerEnd(k)' = ConstraintLayerEnd(k)
              /\ \A i \in 1 .. C : constraints'[i] = constraints[i]
              /\ \A i \in C + 1 .. Len(constraints') :
                    /\ constraints'[i].id[1] = Unused
                    /\ constraints'[i].kind \in program.baseKinds \cup program.upperKinds
              /\ \A d \in 1 .. Len(decisions) : decisions'[d] = decisions[d]
<1>1. PICK n \in Nat, added \in Seq(Decision), posted \in Seq(Constraint) :
              /\ Len(added) = n
              /\ decisions' = decisions \o added
              /\ constraints' = constraints \o posted
              /\ layers' = Append(layers, [tag |-> Unused, decisions |-> Len(decisions) + n,
                                           constraints |-> Len(constraints) + Len(posted)])
              /\ \A i \in 1 .. Len(posted) :
                    /\ posted[i].id = <<Unused, 1>>
                    /\ posted[i].kind \in program.baseKinds \cup program.upperKinds
    BY Pushed
<1>2. PICK L \in Nat, C \in Nat : L = Len(layers) /\ C = Len(constraints)
    <2>1. Len(layers) \in Nat /\ Len(constraints) \in Nat
        BY DEF Inv, ModelInv
    <2> QED BY <2>1
<1>3. /\ layers \in Seq(LayerType) /\ decisions \in Seq(Decision)
      /\ constraints \in Seq(Constraint) /\ Len(posted) \in Nat
    BY DEF Inv, ModelInv
<1> DEFINE top == [tag |-> Unused, decisions |-> Len(decisions) + n,
                   constraints |-> Len(constraints) + Len(posted)]
<1>4. top.tag = Unused /\ top.constraints = C + Len(posted)
    BY <1>2
<1>5. top \in LayerType
    <2>1. Unused \in Nat /\ Len(decisions) \in Nat
        BY <1>3, UnusedIsFresh DEF Inv
    <2> QED BY <1>1, <1>2, <1>3, <2>1 DEF LayerType
<1> HIDE DEF top
<1>6. Len(layers') = L + 1 /\ layers'[L + 1] = top /\ \A k \in 1 .. L : layers'[k] = layers[k]
    <2>1. layers' = Append(layers, top)
        BY <1>1 DEF top
    <2> QED BY <1>2, <1>3, <1>5, <2>1
<1>7. /\ Len(constraints') = C + Len(posted)
      /\ \A i \in 1 .. C : constraints'[i] = constraints[i]
      /\ \A i \in C + 1 .. C + Len(posted) : constraints'[i] = posted[i - C]
    <2>1. /\ Len(constraints \o posted) = Len(constraints) + Len(posted)
          /\ \A i \in 1 .. Len(constraints) : (constraints \o posted)[i] = constraints[i]
          /\ \A i \in Len(constraints) + 1 .. Len(constraints) + Len(posted) :
                (constraints \o posted)[i] = posted[i - Len(constraints)]
        BY <1>3, ConcatParts, Zenon
    <2> QED BY <1>1, <1>2, <2>1, Zenon
<1>8. \A d \in 1 .. Len(decisions) : decisions'[d] = decisions[d]
    <2>1. \A i \in 1 .. Len(decisions) : (decisions \o added)[i] = decisions[i]
        BY <1>3, ConcatParts, Zenon
    <2> QED BY <1>1, <2>1, Zenon
<1>9. \A k \in 0 .. L : /\ DecisionLayerEnd(k)' = DecisionLayerEnd(k)
                        /\ ConstraintLayerEnd(k)' = ConstraintLayerEnd(k)
    BY <1>2, <1>6 DEF DecisionLayerEnd, ConstraintLayerEnd
<1>10. ConstraintLayerEnd(L + 1)' = Len(constraints')
    <2>1. L + 1 # 0
        BY <1>2
    <2> QED BY <1>4, <1>6, <1>7, <2>1 DEF ConstraintLayerEnd
<1>11. \A i \in C + 1 .. Len(constraints') :
           /\ constraints'[i].id[1] = Unused
           /\ constraints'[i].kind \in program.baseKinds \cup program.upperKinds
    <2> SUFFICES ASSUME NEW i \in C + 1 .. C + Len(posted)
                 PROVE  /\ constraints'[i].id[1] = Unused
                        /\ constraints'[i].kind \in program.baseKinds \cup program.upperKinds
        BY <1>7
    <2> DEFINE q == i - C
    <2>1. q \in 1 .. Len(posted) /\ constraints'[i] = posted[q]
        BY <1>2, <1>3, <1>7
    <2> HIDE DEF q
    <2>2. posted[q].id = <<Unused, 1>> /\ posted[q].kind \in program.baseKinds \cup program.upperKinds
        BY <1>1, <2>1
    <2> QED BY <2>1, <2>2
<1>12. C <= Len(constraints')
    BY <1>2, <1>3, <1>7
<1> QED BY <1>2, <1>4, <1>6, <1>7, <1>8, <1>9, <1>10, <1>11, <1>12

\* A retracted layer takes what it declared with it.
LEMMA PopParts ==
    ASSUME Inv, PopLayer
    PROVE  \E L \in Nat :
              /\ L = Len(layers) /\ L # 0 /\ Len(layers') = L - 1
              /\ unchanged' \in 0 .. L - 1 /\ unchanged' <= unchanged
              /\ \A k \in 1 .. L - 1 : layers'[k] = layers[k]
              /\ \A k \in 0 .. L - 1 : /\ DecisionLayerEnd(k)' = DecisionLayerEnd(k)
                                       /\ ConstraintLayerEnd(k)' = ConstraintLayerEnd(k)
              /\ Len(constraints') <= Len(constraints)
              /\ \A i \in 1 .. Len(constraints') : constraints'[i] = constraints[i]
              /\ \A d \in 1 .. Len(decisions') : decisions'[d] = decisions[d]
<1>1. PICK L \in Nat : L = Len(layers)
    BY DEF Inv, ModelInv
<1>2. /\ layers # <<>>
      /\ layers' = Front(layers)
      /\ decisions' = SubSeq(decisions, 1, DecisionLayerEnd(L - 1))
      /\ constraints' = SubSeq(constraints, 1, ConstraintLayerEnd(L - 1))
      /\ unchanged' = Min({unchanged, L - 1})
    BY <1>1 DEF PopLayer
<1>3. /\ layers \in Seq(LayerType) /\ decisions \in Seq(Decision)
      /\ constraints \in Seq(Constraint) /\ unchanged \in 0 .. L
    BY <1>1 DEF Inv, ModelInv
<1>4. L - 1 \in Nat /\ L - 1 \in 0 .. Len(layers) /\ L # 0
    BY <1>1, <1>2, <1>3
<1>5. PICK D \in 0 .. Len(decisions), C \in 0 .. Len(constraints) :
          D = DecisionLayerEnd(L - 1) /\ C = ConstraintLayerEnd(L - 1)
    BY <1>4, LayerEnds DEF Inv
<1>6. Len(layers') = L - 1 /\ \A k \in 1 .. L - 1 : layers'[k] = layers[k]
    BY <1>1, <1>2, <1>3, <1>4, SubSeqParts DEF Front
<1>7. /\ Len(decisions') = D /\ \A d \in 1 .. D : decisions'[d] = decisions[d]
      /\ Len(constraints') = C /\ \A i \in 1 .. C : constraints'[i] = constraints[i]
    BY <1>2, <1>3, <1>5, SubSeqParts, Zenon
<1>8. \A k \in 0 .. L - 1 : /\ DecisionLayerEnd(k)' = DecisionLayerEnd(k)
                            /\ ConstraintLayerEnd(k)' = ConstraintLayerEnd(k)
    BY <1>1, <1>4, <1>6 DEF DecisionLayerEnd, ConstraintLayerEnd
<1>9. unchanged' \in 0 .. L - 1 /\ unchanged' <= unchanged
    BY <1>2, <1>3, <1>4, MinOfTwo
<1>10. Len(constraints') <= Len(constraints)
    <2>1. Len(constraints) \in Nat
        BY <1>3
    <2> QED BY <1>5, <1>7, <2>1
<1> QED BY <1>1, <1>4, <1>6, <1>7, <1>8, <1>9, <1>10

\* What lies below the last unchanged layer stays.
LEMMA CallerStep ==
    ASSUME Inv, CallerActs
    PROVE  /\ pc = "idle" /\ UNCHANGED <<program, pc, level, solver, backend>>
           /\ unchanged' \in 0 .. Len(layers) /\ unchanged' <= unchanged
           /\ \A k \in 1 .. unchanged' : /\ layers'[k] = layers[k]
                                         /\ DecisionLayerEnd(k)' = DecisionLayerEnd(k)
                                         /\ ConstraintLayerEnd(k)' = ConstraintLayerEnd(k)
           /\ \A k \in 1 .. unchanged' : \A i \in 1 .. ConstraintLayerEnd(k) :
                 constraints'[i] = constraints[i]
           /\ \A k \in 1 .. unchanged' : \A d \in 1 .. DecisionLayerEnd(k) :
                 decisions'[d] = decisions[d]
<1>1. pc = "idle" /\ UNCHANGED <<program, pc, level, solver, backend>>
    BY DEF CallerActs, PushLayer, PopLayer, SetObjective, ClearObjective
<1>2. PICK L \in Nat : L = Len(layers) /\ unchanged \in 0 .. L
    BY DEF Inv, ModelInv
<1>3. Len(decisions) \in Nat /\ Len(constraints) \in Nat
    BY DEF Inv, ModelInv
<1>4. \A k \in 0 .. L : /\ DecisionLayerEnd(k) \in 0 .. Len(decisions)
                        /\ ConstraintLayerEnd(k) \in 0 .. Len(constraints)
    BY <1>2, LayerEnds DEF Inv
<1>5. CASE PushLayer
    <2>1. unchanged' = unchanged
        BY <1>5 DEF PushLayer
    <2>2. /\ \A k \in 1 .. L : layers'[k] = layers[k]
          /\ \A k \in 0 .. L : /\ DecisionLayerEnd(k)' = DecisionLayerEnd(k)
                               /\ ConstraintLayerEnd(k)' = ConstraintLayerEnd(k)
          /\ \A i \in 1 .. Len(constraints) : constraints'[i] = constraints[i]
          /\ \A d \in 1 .. Len(decisions) : decisions'[d] = decisions[d]
        BY <1>2, <1>5, PushParts
    <2>3. \A k \in 1 .. unchanged' : k \in 1 .. L /\ k \in 0 .. L
        BY <1>2, <2>1
    <2>4. \A k \in 1 .. unchanged' : \A i \in 1 .. ConstraintLayerEnd(k) : i \in 1 .. Len(constraints)
        BY <1>3, <1>4, <2>3
    <2>5. \A k \in 1 .. unchanged' : \A d \in 1 .. DecisionLayerEnd(k) : d \in 1 .. Len(decisions)
        BY <1>3, <1>4, <2>3
    <2> QED BY <1>1, <1>2, <2>1, <2>2, <2>3, <2>4, <2>5
<1>6. CASE PopLayer
    <2>1. /\ Len(layers') = L - 1
          /\ unchanged' \in 0 .. L - 1 /\ unchanged' <= unchanged
          /\ \A k \in 1 .. L - 1 : layers'[k] = layers[k]
          /\ \A k \in 0 .. L - 1 : /\ DecisionLayerEnd(k)' = DecisionLayerEnd(k)
                                   /\ ConstraintLayerEnd(k)' = ConstraintLayerEnd(k)
          /\ \A i \in 1 .. Len(constraints') : constraints'[i] = constraints[i]
          /\ \A d \in 1 .. Len(decisions') : decisions'[d] = decisions[d]
        BY <1>2, <1>6, PopParts
    <2>2. \A k \in 1 .. unchanged' : k \in 1 .. L - 1 /\ k \in 0 .. L - 1 /\ k \in 0 .. Len(layers')
        BY <1>2, <2>1
    <2>3. ModelInv'
        BY <1>6, PopInv DEF Inv
    <2>4. \A k \in 0 .. Len(layers') : /\ DecisionLayerEnd(k)' \in 0 .. Len(decisions')
                                       /\ ConstraintLayerEnd(k)' \in 0 .. Len(constraints')
        <3>1. ModelInv => \A k \in 0 .. Len(layers) : /\ DecisionLayerEnd(k) \in 0 .. Len(decisions)
                                                      /\ ConstraintLayerEnd(k) \in 0 .. Len(constraints)
            BY LayerEnds
        <3>2. (ModelInv => \A k \in 0 .. Len(layers) : /\ DecisionLayerEnd(k) \in 0 .. Len(decisions)
                                                       /\ ConstraintLayerEnd(k) \in 0 .. Len(constraints))'
            BY LayerEnds, PTL
        <3> QED BY <2>3, <3>2
    <2>5. Len(decisions') \in Nat /\ Len(constraints') \in Nat
        BY <2>3 DEF ModelInv
    <2>6. \A k \in 1 .. unchanged' : \A i \in 1 .. ConstraintLayerEnd(k) : i \in 1 .. Len(constraints')
        BY <2>1, <2>2, <2>4, <2>5
    <2>7. \A k \in 1 .. unchanged' : \A d \in 1 .. DecisionLayerEnd(k) : d \in 1 .. Len(decisions')
        BY <2>1, <2>2, <2>4, <2>5
    <2> QED BY <1>1, <1>2, <2>1, <2>2, <2>6, <2>7
<1>7. CASE SetObjective \/ ClearObjective
    <2>1. UNCHANGED <<model, unchanged>>
        BY <1>7 DEF SetObjective, ClearObjective
    <2> QED BY <1>1, <1>2, <2>1 DEF model, DecisionLayerEnd, ConstraintLayerEnd
<1> QED BY <1>5, <1>6, <1>7 DEF CallerActs

-----------------------------------------------------------------------------
(* Which rows there are.  A layer's constraints have the layer's tag.      *)
Tags(k) == {layers[j].tag : j \in 1 .. k}

Tagged ==
    \A k \in 0 .. Len(layers), i \in 1 .. Len(constraints) :
        i <= ConstraintLayerEnd(k) <=> constraints[i].id[1] \in Tags(k)

\* Below the end of layer k the backend has the rows of the layers up to k, and
\* above it rows of other layers.
LayerRows(k) ==
    /\ Posts(backend.rows, 0, layerEnd[k].rows, constraints, ConstraintLayerEnd(k), built.column)
    /\ \A r \in layerEnd[k].rows + 1 .. built.rows :
          IsHole(backend.rows[r]) \/ backend.rows[r].id[1] \notin Tags(k)

AllRows == Posts(backend.rows, 0, built.rows, constraints, Len(constraints), built.column)

\* Layers are posted one after the other, and no decision of a later one has
\* a column yet: if one has, the next layer's build starts over.
OnTop == Len(layerEnd) = level /\ Len(built.column) = DecisionLayerEnd(level)

RowsInv ==
    /\ Tagged
    /\ pc = "idle" => \A k \in 1 .. Min({unchanged, builtLayers}) : LayerRows(k)
    /\ pc = "building" /\ OnTop => \A k \in 1 .. level : LayerRows(k)
    /\ pc \in {"building", "solving"} /\ level = Len(layers) => AllRows
    /\ pc = "solving" => \A k \in 1 .. builtLayers : LayerRows(k)

\* While a layer is posted, one of the layers above the next has a decision.
Once == pc = "building" /\ level + 1 < Len(layers) => Len(decisions) > DecisionLayerEnd(level + 1)

LEMMA TaggedStep ==
    ASSUME Inv, Tagged, [Next]_vars
    PROVE  Tagged'
<1>1. CASE PushLayer
    <2>1. PICK L \in Nat, C \in Nat :
              /\ L = Len(layers) /\ C = Len(constraints) /\ C <= Len(constraints')
              /\ Len(layers') = L + 1 /\ layers'[L + 1].tag = Unused
              /\ ConstraintLayerEnd(L + 1)' = Len(constraints')
              /\ \A k \in 1 .. L : layers'[k] = layers[k]
              /\ \A k \in 0 .. L : ConstraintLayerEnd(k)' = ConstraintLayerEnd(k)
              /\ \A i \in 1 .. C : constraints'[i] = constraints[i]
              /\ \A i \in C + 1 .. Len(constraints') : constraints'[i].id[1] = Unused
        BY <1>1, PushParts
    <2>2. \A k \in 1 .. L : layers[k].tag # Unused
        <3>1. Unused \notin InUse
            BY UnusedIsFresh DEF Inv, ModelInv
        <3> QED BY <2>1, <3>1 DEF InUse
    <2>3. \A k \in 0 .. L : Tags(k)' = Tags(k) /\ Unused \notin Tags(k)
        BY <2>1, <2>2, SMTT(60) DEF Tags
    <2>4. Tags(L + 1)' = Tags(L) \cup {Unused}
        BY <2>1 DEF Tags
    <2>5. \A k \in 0 .. L : ConstraintLayerEnd(k) \in 0 .. C
        BY <2>1, LayerEnds DEF Inv
    <2>6. ConstraintLayerEnd(L) = C
        BY <2>1 DEF Inv, ModelInv
    <2>7. Len(constraints') \in Nat
        <3>1. ModelInv'
            BY <1>1, PushInv DEF Inv
        <3> QED BY <3>1 DEF ModelInv
    <2>8. ASSUME NEW k \in 0 .. L + 1, NEW i \in 1 .. Len(constraints')
          PROVE  i <= ConstraintLayerEnd(k)' <=> constraints'[i].id[1] \in Tags(k)'
        <3>1. CASE k \in 0 .. L /\ i \in 1 .. C
            BY <2>1, <2>3, <3>1 DEF Tagged
        <3>2. CASE k \in 0 .. L /\ i \in C + 1 .. Len(constraints')
            <4>1. ~ (i <= ConstraintLayerEnd(k)')
                BY <2>1, <2>5, <2>7, <3>2
            <4>2. constraints'[i].id[1] \notin Tags(k)'
                BY <2>1, <2>3, <3>2
            <4> QED BY <4>1, <4>2
        <3>3. CASE k = L + 1 /\ i \in 1 .. C
            <4>1. constraints[i].id[1] \in Tags(L)
                BY <2>1, <2>6, <3>3 DEF Tagged
            <4> QED BY <2>1, <2>4, <2>7, <3>3, <4>1
        <3>4. CASE k = L + 1 /\ i \in C + 1 .. Len(constraints')
            BY <2>1, <2>4, <3>4
        <3> QED BY <2>1, <2>7, <3>1, <3>2, <3>3, <3>4
    <2> QED BY <2>1, <2>8 DEF Tagged
<1>2. CASE PopLayer
    <2>1. PICK L \in Nat :
              /\ L = Len(layers) /\ L # 0 /\ Len(layers') = L - 1
              /\ \A k \in 1 .. L - 1 : layers'[k] = layers[k]
              /\ \A k \in 0 .. L - 1 : ConstraintLayerEnd(k)' = ConstraintLayerEnd(k)
              /\ Len(constraints') <= Len(constraints)
              /\ \A i \in 1 .. Len(constraints') : constraints'[i] = constraints[i]
        BY <1>2, PopParts
    <2>2. \A k \in 0 .. L - 1 : Tags(k)' = Tags(k)
        BY <2>1 DEF Tags
    <2>3. Len(constraints') \in Nat /\ Len(constraints) \in Nat
        <3>1. ModelInv' /\ ModelInv
            BY <1>2, PopInv DEF Inv
        <3> QED BY <3>1 DEF ModelInv
    <2>4. \A k \in 0 .. L - 1, i \in 1 .. Len(constraints') : k \in 0 .. L /\ i \in 1 .. Len(constraints)
        BY <2>1, <2>3
    <2> QED BY <2>1, <2>2, <2>4 DEF Tagged
<1>3. CASE UNCHANGED model
    BY <1>3 DEF model, Tagged, Tags, ConstraintLayerEnd
<1> QED
    BY <1>1, <1>2, <1>3 DEF Next, SetObjective, ClearObjective, RunStopped, RunStart, BuildLayer,
        LayerBuilt, BuildFallback, AllBuilt, BuildFails, RunFails, StartSolve, EndRun, caller, vars

\* Rows stay a layer's rows while nothing below its end changes.
LEMMA LayerRowsKept ==
    ASSUME NEW k, LayerRows(k), UNCHANGED <<backend, built, layerEnd>>,
           \A j \in 1 .. k : layers'[j] = layers[j],
           ConstraintLayerEnd(k)' = ConstraintLayerEnd(k),
           \A i \in 1 .. ConstraintLayerEnd(k) : constraints'[i] = constraints[i]
    PROVE  LayerRows(k)'
<1>1. Tags(k)' = Tags(k)
    BY DEF Tags
<1> QED BY <1>1 DEF LayerRows, Posts

LEMMA RowsCallerStep ==
    ASSUME Inv, RowsInv, CallerActs
    PROVE  RowsInv'
<1>1. /\ pc = "idle" /\ UNCHANGED <<program, pc, level, solver, backend>>
      /\ unchanged' \in 0 .. Len(layers) /\ unchanged' <= unchanged
      /\ \A k \in 1 .. unchanged' : /\ layers'[k] = layers[k]
                                    /\ ConstraintLayerEnd(k)' = ConstraintLayerEnd(k)
      /\ \A k \in 1 .. unchanged' : \A i \in 1 .. ConstraintLayerEnd(k) :
            constraints'[i] = constraints[i]
    BY CallerStep
<1>2. Tagged'
    BY TaggedStep DEF RowsInv, CallerActs, Next
<1>3. PICK U \in Nat, V \in Nat, B \in Nat, M \in Nat :
          /\ U = unchanged' /\ B = builtLayers /\ V = unchanged /\ U <= V
          /\ M = Min({unchanged, builtLayers})
    BY <1>1, KeepIs
<1>4. PICK W \in Nat : W = Min({unchanged', builtLayers'}) /\ W <= M /\ W <= U
    BY <1>1, <1>3, MinOfTwo DEF solver
<1>5. \A k \in 1 .. W : LayerRows(k)'
    <2> SUFFICES ASSUME NEW k \in 1 .. W PROVE LayerRows(k)'
        OBVIOUS
    <2>1. k \in 1 .. M /\ k \in 1 .. U /\ \A j \in 1 .. k : j \in 1 .. U
        BY <1>4
    <2>2. LayerRows(k)
        BY <1>1, <1>3, <2>1 DEF RowsInv
    <2>3. \A j \in 1 .. k : layers'[j] = layers[j]
        BY <1>1, <1>3, <2>1
    <2>4. /\ ConstraintLayerEnd(k)' = ConstraintLayerEnd(k)
          /\ \A i \in 1 .. ConstraintLayerEnd(k) : constraints'[i] = constraints[i]
        BY <1>1, <1>3, <2>1
    <2> QED BY <1>1, <2>2, <2>3, <2>4, LayerRowsKept DEF solver
<1> QED BY <1>1, <1>2, <1>4, <1>5 DEF RowsInv

LEMMA RowsMoved ==
    ASSUME Inv, NEW k \in 1 .. Len(layers), LayerRows(k), UNCHANGED model,
           layerEnd'[k] = layerEnd[k],
           \A r \in 1 .. layerEnd[k].rows : backend'.rows[r] = backend.rows[r],
           \A d \in 1 .. DecisionLayerEnd(k) : built'.column[d] = built.column[d],
           \A r \in layerEnd[k].rows + 1 .. built'.rows :
               IsHole(backend'.rows[r]) \/ backend'.rows[r].id[1] \notin Tags(k)
    PROVE  LayerRows(k)'
<1>1. /\ \A i \in 1 .. ConstraintLayerEnd(k) :
            /\ constraints[i].a \in 1 .. DecisionLayerEnd(k)
            /\ constraints[i].b \in 1 .. DecisionLayerEnd(k)
    <2>1. Len(layers) \in Nat /\ Len(constraints) \in Nat
        BY DEF Inv, ModelInv
    <2>2. k \in 0 .. Len(layers)
        BY <2>1
    <2>3. ConstraintLayerEnd(k) \in 0 .. Len(constraints)
        BY <2>2, LayerEnds DEF Inv
    <2>4. \A i \in 1 .. ConstraintLayerEnd(k) : i \in 1 .. Len(constraints) /\ i <= ConstraintLayerEnd(k)
        BY <2>1, <2>3
    <2> QED BY <2>2, <2>4 DEF Inv, ModelInv
<1>2. \A i \in 1 .. ConstraintLayerEnd(k) :
          RowOf(constraints[i], built'.column) = RowOf(constraints[i], built.column)
    BY <1>1 DEF RowOf
<1>3. Tags(k)' = Tags(k) /\ constraints' = constraints
      /\ ConstraintLayerEnd(k)' = ConstraintLayerEnd(k)
    BY DEF Tags, model, ConstraintLayerEnd
<1>4. Posts(backend'.rows, 0, layerEnd[k].rows, constraints, ConstraintLayerEnd(k), built'.column)
    <2>1. \A r \in 0 + 1 .. layerEnd[k].rows : r \in 1 .. layerEnd[k].rows
        OBVIOUS
    <2>2. /\ \A r \in 0 + 1 .. layerEnd[k].rows :
                \/ IsHole(backend.rows[r])
                \/ \E i \in 1 .. ConstraintLayerEnd(k) :
                      constraints[i].kind = "row" /\ backend.rows[r] = RowOf(constraints[i], built.column)
          /\ \A i \in 1 .. ConstraintLayerEnd(k) :
                constraints[i].kind = "row" =>
                    \E r \in 0 + 1 .. layerEnd[k].rows :
                        backend.rows[r] = RowOf(constraints[i], built.column)
        BY DEF LayerRows, Posts
    <2> QED BY <1>2, <2>1, <2>2, ZenonT(60) DEF Posts
<1> QED BY <1>3, <1>4 DEF LayerRows

LEMMA RowsRunStart ==
    ASSUME Inv, RowsInv, RunStart
    PROVE  RowsInv'
<1>1. /\ pc = "idle" /\ pc' = "building" /\ level' = Keep /\ layers # <<>>
      /\ UNCHANGED model
    BY DEF RunStart, Runnable, caller
<1>2. Tagged' /\ Inv'
    BY TaggedStep, NextInv DEF RowsInv, Next
<1>3. PICK L \in Nat, K \in Nat : L = Len(layers) /\ L # 0 /\ K = Keep
    <2>1. layers \in Seq(LayerType) /\ Keep \in Nat
        BY <1>1, KeepIs DEF Inv, ModelInv
    <2> QED BY <1>1, <2>1
<1>4. CASE K = 0
    BY <1>1, <1>2, <1>3, <1>4 DEF RowsInv, model
<1>5. CASE K # 0
    <2>1. /\ K \in 1 .. Len(layerEnd) /\ K \in 1 .. L
          /\ built'.column = SubSeq(built.column, 1, layerEnd[K].decisions)
          /\ built'.rows = layerEnd[K].rows
          /\ backend'.rows = SubSeq(backend.rows, 1, layerEnd[K].rows)
          /\ layerEnd' = SubSeq(layerEnd, 1, K)
        BY <1>1, <1>3, <1>5, CutTo
    <2>2. /\ \A j, k \in 1 .. Len(layerEnd) :
                j <= k => /\ layerEnd[j].decisions <= layerEnd[k].decisions
                          /\ layerEnd[j].rows <= layerEnd[k].rows
          /\ Within(K) /\ layerEnd \in Seq(EndType) /\ Len(layerEnd) \in Nat
        BY <2>1 DEF Inv, EndsInv
    <2>3. /\ layerEnd[K].decisions \in 0 .. Len(built.column) /\ layerEnd[K].rows \in 0 .. Len(backend.rows)
          /\ layerEnd[K].rows <= built.rows /\ built.rows \in Nat
          /\ built.column \in Seq(Nat) /\ backend.rows \in Seq(BackendRow)
        <3>1. layerEnd[K] \in EndType
            BY <2>1, <2>2
        <3> QED BY <2>2, <3>1 DEF Within, EndType, Inv, Sized, Models, Backends
    <2>4. /\ \A k \in 1 .. K : layerEnd'[k] = layerEnd[k]
          /\ \A d \in 1 .. layerEnd[K].decisions : built'.column[d] = built.column[d]
          /\ \A r \in 1 .. layerEnd[K].rows : backend'.rows[r] = backend.rows[r]
        <3>1. K \in 0 .. Len(layerEnd)
            BY <1>3, <2>1
        <3> QED BY <2>1, <2>2, <2>3, <3>1, SubSeqParts
    <2>5. PICK M \in Nat : M = Min({unchanged, builtLayers}) /\ K <= M
        BY <1>1, <1>3, <1>5, KeepIs
    <2>6. ASSUME NEW k \in 1 .. K PROVE LayerRows(k)'
        <3>1. k \in 1 .. M /\ k \in 1 .. Len(layers) /\ k \in 1 .. Len(layerEnd) /\ k <= K
            BY <1>3, <2>1, <2>2, <2>5
        <3>2. LayerRows(k)
            BY <1>1, <2>5, <3>1 DEF RowsInv
        <3>3. /\ layerEnd[k].decisions <= layerEnd[K].decisions /\ layerEnd[k].rows <= layerEnd[K].rows
              /\ layerEnd[k].decisions \in Nat /\ layerEnd[k].rows \in Nat
            <4>1. layerEnd[k] \in EndType
                BY <2>2, <3>1
            <4> QED BY <2>1, <2>2, <3>1, <4>1 DEF EndType
        <3>4. layerEnd[k].decisions = DecisionLayerEnd(k)
            BY <1>1, <2>5, <3>1 DEF Inv, StageInv, IdleInv, SameEnds
        <3>5. \A r \in 1 .. layerEnd[k].rows : backend'.rows[r] = backend.rows[r]
            <4>1. \A r \in 1 .. layerEnd[k].rows : r \in 1 .. layerEnd[K].rows
                BY <2>3, <3>3
            <4> QED BY <2>4, <4>1
        <3>6. \A d \in 1 .. DecisionLayerEnd(k) : built'.column[d] = built.column[d]
            <4>1. \A d \in 1 .. DecisionLayerEnd(k) : d \in 1 .. layerEnd[K].decisions
                BY <2>3, <3>3, <3>4
            <4> QED BY <2>4, <4>1
        <3>7. \A r \in layerEnd[k].rows + 1 .. built'.rows :
                  IsHole(backend'.rows[r]) \/ backend'.rows[r].id[1] \notin Tags(k)
            <4> SUFFICES ASSUME NEW r \in layerEnd[k].rows + 1 .. layerEnd[K].rows
                         PROVE  IsHole(backend'.rows[r]) \/ backend'.rows[r].id[1] \notin Tags(k)
                BY <2>1
            <4>1. r \in 1 .. layerEnd[K].rows /\ r \in layerEnd[k].rows + 1 .. built.rows
                BY <2>3, <3>3
            <4>2. IsHole(backend.rows[r]) \/ backend.rows[r].id[1] \notin Tags(k)
                BY <3>2, <4>1 DEF LayerRows
            <4> QED BY <2>4, <4>1, <4>2
        <3>8. layerEnd'[k] = layerEnd[k]
            BY <2>4
        <3> QED BY <1>1, <3>1, <3>2, <3>5, <3>6, <3>7, <3>8, RowsMoved
    <2>7. ASSUME K = L PROVE AllRows'
        <3>1. LayerRows(Len(layers))'
            BY <1>1, <1>3, <1>5, <2>6, <2>7 DEF model
        <3>2. layerEnd'[Len(layers')].rows = built'.rows /\ layers' # <<>>
            BY <1>1, <1>3, <1>5, <2>1, <2>4, <2>7 DEF model
        <3>3. ConstraintLayerEnd(Len(layers))' = Len(constraints')
            BY <1>2 DEF Inv, ModelInv
        <3> QED BY <3>1, <3>2, <3>3 DEF LayerRows, AllRows
    <2> QED BY <1>1, <1>2, <1>3, <2>6, <2>7 DEF RowsInv, model
<1> QED BY <1>4, <1>5

\* The build of the layer on top of layers posted one after the other adds that
\* layer's rows.
LEMMA RowsLayerBuilt ==
    ASSUME Inv, RowsInv, Once, pc = "building", level < Len(layers), NEW r, LayerBuilt(r),
           Extends(r, decisions, Above(level), built, backend, DecisionLayerEnd(level), level # 0)
    PROVE  RowsInv'
<1>1. PICK l \in Nat, L \in Nat : l = level /\ L = Len(layers) /\ l < L
    BY LayerContinues DEF Inv, ModelInv
<1>2. /\ built' = r.model /\ backend' = r.backend
      /\ layerEnd' = Append(layerEnd, LayerEndOf(r))
      /\ level' = l + 1 /\ pc' = "building"
      /\ UNCHANGED model
    BY <1>1 DEF LayerBuilt, LayerEndOf, caller
<1>3. Tagged' /\ Inv'
    <2>1. Inv'
        BY LayerBuiltInv
    <2>2. Tagged'
        BY <1>2 DEF RowsInv, model, Tagged, Tags, ConstraintLayerEnd
    <2> QED BY <2>1, <2>2
<1>4. /\ Layerwise /\ layerEnd \in Seq(EndType) /\ Len(layerEnd) = l
      /\ decisions \in Seq(Decision) /\ Len(decisions) \in Nat /\ Len(constraints) \in Nat
      /\ \A k \in 1 .. l : layerEnd[k] \in EndType /\ Within(k)
      /\ built.rows \in Nat
    <2>1. Layerwise /\ Len(layerEnd) = l
        BY <1>1, LayerContinues DEF Layerwise
    <2>2. layerEnd \in Seq(EndType) /\ \A k \in 1 .. l : Within(k)
        BY <2>1 DEF Inv, EndsInv
    <2>3. decisions \in Seq(Decision) /\ Len(decisions) \in Nat /\ Len(constraints) \in Nat
        BY DEF Inv, ModelInv
    <2>4. built.rows \in Nat /\ built.columns \in Nat
        BY DEF Inv, Sized, Models
    <2> QED BY <2>1, <2>2, <2>3, <2>4
<1>5. PICK D \in 0 .. Len(decisions), C \in 0 .. Len(constraints) :
          D = DecisionLayerEnd(l) /\ C = ConstraintLayerEnd(l)
    <2>1. l \in 0 .. Len(layers)
        BY <1>1
    <2> QED BY <2>1, LayerEnds DEF Inv
<1>6. /\ Len(r.model.column) = Len(decisions)
      /\ \A d \in 1 .. D : r.model.column[d] = built.column[d]
      /\ \A q \in 1 .. built.rows : r.backend.rows[q] = backend.rows[q]
      /\ Posts(r.backend.rows, built.rows, r.model.rows, Above(l), Len(Above(l)), r.model.column)
      /\ D < Len(decisions) => Len(built.column) = D
      /\ r.model.rows \in Nat /\ built.rows <= r.model.rows
    BY <1>1, <1>5 DEF Extends, Sized, Models
<1>7. Len(built.column) = D
    BY <1>1, <1>4, <1>5, <1>6 DEF Layerwise
<1>8. \A k \in 1 .. l : LayerRows(k)
    BY <1>1, <1>4, <1>5, <1>7 DEF RowsInv, OnTop
<1>9. /\ Len(layerEnd') = l + 1 /\ layerEnd'[l + 1] = LayerEndOf(r)
      /\ \A k \in 1 .. l : layerEnd'[k] = layerEnd[k]
    <2>1. LayerEndOf(r) \in EndType
        <3>1. layerEnd' \in Seq(EndType) /\ Len(layerEnd') = l + 1
            <4>1. layerEnd' \in Seq(EndType)
                BY <1>3 DEF Inv, EndsInv
            <4> QED BY <1>2, <1>4, <4>1
        <3>2. layerEnd'[l + 1] = LayerEndOf(r)
            BY <1>2, <1>4
        <3> QED BY <3>1, <3>2
    <2> QED BY <1>2, <1>4, <2>1
<1>10. /\ Len(Above(l)) = Len(constraints) - C
       /\ \A i \in 1 .. Len(Above(l)) : /\ C + i \in 1 .. Len(constraints)
                                        /\ Above(l)[i] = constraints[C + i]
    <2>1. l \in 0 .. Len(layers)
        BY <1>1
    <2> QED BY <1>5, <2>1, AboveParts DEF Inv
\* A new row is a hole's, or of a constraint above the layers built.
<1>11. \A q \in built.rows + 1 .. r.model.rows :
           \/ IsHole(r.backend.rows[q])
           \/ \E i \in C + 1 .. Len(constraints) :
                 /\ constraints[i].kind = "row"
                 /\ r.backend.rows[q] = RowOf(constraints[i], r.model.column)
    <2> SUFFICES ASSUME NEW q \in built.rows + 1 .. r.model.rows, ~IsHole(r.backend.rows[q])
                 PROVE  \E i \in C + 1 .. Len(constraints) :
                            /\ constraints[i].kind = "row"
                            /\ r.backend.rows[q] = RowOf(constraints[i], r.model.column)
        OBVIOUS
    <2>1. PICK i \in 1 .. Len(Above(l)) :
              Above(l)[i].kind = "row" /\ r.backend.rows[q] = RowOf(Above(l)[i], r.model.column)
        BY <1>6 DEF Posts
    <2>2. C + i \in C + 1 .. Len(constraints) /\ Above(l)[i] = constraints[C + i]
        BY <1>4, <1>5, <1>10
    <2> QED BY <2>1, <2>2
<1>12. \A i \in C + 1 .. Len(constraints) :
           constraints[i].kind = "row" =>
               \E q \in built.rows + 1 .. r.model.rows :
                   r.backend.rows[q] = RowOf(constraints[i], r.model.column)
    <2> SUFFICES ASSUME NEW i \in C + 1 .. Len(constraints), constraints[i].kind = "row"
                 PROVE  \E q \in built.rows + 1 .. r.model.rows :
                            r.backend.rows[q] = RowOf(constraints[i], r.model.column)
        OBVIOUS
    <2>1. PICK j \in 1 .. Len(Above(l)) : C + j = i
        <3>1. i - C \in 1 .. Len(Above(l)) /\ C + (i - C) = i
            BY <1>4, <1>5, <1>10
        <3> QED BY <3>1
    <2>2. Above(l)[j] = constraints[i]
        BY <1>10, <2>1
    <2> QED BY <1>6, <2>1, <2>2, SMTT(30) DEF Posts
<1>13. ASSUME NEW k \in 1 .. l PROVE LayerRows(k)'
    <2>1. k \in 1 .. Len(layers) /\ k \in 0 .. Len(layers) /\ l \in 0 .. Len(layers) /\ k <= l
        BY <1>1
    <2>2. /\ DecisionLayerEnd(k) <= D /\ ConstraintLayerEnd(k) <= C
          /\ DecisionLayerEnd(k) \in 0 .. Len(decisions) /\ ConstraintLayerEnd(k) \in 0 .. Len(constraints)
        BY <1>5, <2>1, LayerEnds DEF Inv, ModelInv
    <2>3. layerEnd[k].rows \in Nat /\ layerEnd[k].rows <= built.rows
        BY <1>4 DEF EndType, Within
    <2>4. \A q \in 1 .. layerEnd[k].rows : backend'.rows[q] = backend.rows[q]
        <3>1. \A q \in 1 .. layerEnd[k].rows : q \in 1 .. built.rows
            BY <1>4, <2>3
        <3> QED BY <1>2, <1>6, <3>1
    <2>5. \A d \in 1 .. DecisionLayerEnd(k) : built'.column[d] = built.column[d]
        <3>1. \A d \in 1 .. DecisionLayerEnd(k) : d \in 1 .. D
            BY <1>5, <2>2
        <3> QED BY <1>2, <1>6, <3>1
    <2>6. \A q \in layerEnd[k].rows + 1 .. built'.rows :
              IsHole(backend'.rows[q]) \/ backend'.rows[q].id[1] \notin Tags(k)
        <3> SUFFICES ASSUME NEW q \in layerEnd[k].rows + 1 .. r.model.rows, ~IsHole(r.backend.rows[q])
                     PROVE  r.backend.rows[q].id[1] \notin Tags(k)
            BY <1>2
        <3>1. CASE q \in layerEnd[k].rows + 1 .. built.rows
            <4>1. q \in 1 .. built.rows
                BY <1>4, <2>3, <3>1
            <4>2. r.backend.rows[q] = backend.rows[q]
                BY <1>6, <4>1
            <4> QED BY <1>8, <3>1, <4>2 DEF LayerRows
        <3>2. CASE q \in built.rows + 1 .. r.model.rows
            <4>1. PICK i \in C + 1 .. Len(constraints) :
                      r.backend.rows[q] = RowOf(constraints[i], r.model.column)
                BY <1>11, <3>2
            <4>2. i \in 1 .. Len(constraints) /\ ~ (i <= ConstraintLayerEnd(k))
                BY <1>4, <1>5, <2>2
            <4>3. constraints[i].id[1] \notin Tags(k)
                BY <2>1, <4>2 DEF RowsInv, Tagged
            <4> QED BY <4>1, <4>3 DEF RowOf, Row
        <3> QED BY <1>4, <1>6, <2>3, <3>1, <3>2
    <2> QED BY <1>2, <1>8, <1>9, <2>1, <2>4, <2>5, <2>6, RowsMoved
\* The rows of the layers below are the ones they were.
<1>14. Posts(r.backend.rows, 0, built.rows, constraints, C, r.model.column)
    <2>1. CASE l = 0
        <3>1. built.rows = 0 /\ C = 0
            BY <1>1, <1>4, <1>5, <2>1 DEF Layerwise, NoModel, ConstraintLayerEnd
        <3> QED BY <3>1 DEF Posts
    <2>2. CASE l # 0
        <3>1. l \in 1 .. l /\ layerEnd # <<>>
            BY <1>1, <1>4, <2>2
        <3>2. layerEnd[l].rows = built.rows
            BY <1>4, <3>1 DEF Layerwise, EndsWithLayer
        <3>3. Posts(backend.rows, 0, built.rows, constraints, C, built.column)
            BY <1>5, <1>8, <3>1, <3>2 DEF LayerRows
        <3>4. \A i \in 1 .. C : RowOf(constraints[i], r.model.column) = RowOf(constraints[i], built.column)
            <4>1. \A i \in 1 .. C : i \in 1 .. Len(constraints) /\ i <= C
                BY <1>4, <1>5
            <4>2. l \in 0 .. Len(layers)
                BY <1>1
            <4>3. \A i \in 1 .. C : constraints[i].a \in 1 .. D /\ constraints[i].b \in 1 .. D
                BY <1>5, <4>1, <4>2 DEF Inv, ModelInv
            <4> QED BY <1>6, <4>3 DEF RowOf
        <3>5. \A q \in 0 + 1 .. built.rows : r.backend.rows[q] = backend.rows[q]
            BY <1>6
        <3> QED BY <3>3, <3>4, <3>5, ZenonT(60) DEF Posts
    <2> QED BY <2>1, <2>2
<1>15. Posts(r.backend.rows, 0, r.model.rows, constraints, Len(constraints), r.model.column)
    <2>1. \A q \in 0 + 1 .. r.model.rows : q \in 0 + 1 .. built.rows \/ q \in built.rows + 1 .. r.model.rows
        BY <1>4, <1>6
    <2>2. \A i \in 1 .. Len(constraints) : i \in 1 .. C \/ i \in C + 1 .. Len(constraints)
        BY <1>4, <1>5
    <2>3. \A i \in 1 .. C : i \in 1 .. Len(constraints)
        BY <1>4, <1>5
    <2>4. \A i \in C + 1 .. Len(constraints) : i \in 1 .. Len(constraints)
        BY <1>4, <1>5
    <2>5. \A q \in 0 + 1 .. built.rows : q \in 0 + 1 .. r.model.rows
        BY <1>4, <1>6
    <2>6. \A q \in built.rows + 1 .. r.model.rows : q \in 0 + 1 .. r.model.rows
        BY <1>4, <1>6
    <2>7. ASSUME NEW q \in 0 + 1 .. r.model.rows, ~IsHole(r.backend.rows[q])
          PROVE  \E i \in 1 .. Len(constraints) :
                     constraints[i].kind = "row" /\ r.backend.rows[q] = RowOf(constraints[i], r.model.column)
        BY <1>11, <1>14, <2>1, <2>3, <2>4, <2>7, Zenon DEF Posts
    <2>8. ASSUME NEW i \in 1 .. Len(constraints), constraints[i].kind = "row"
          PROVE  \E q \in 0 + 1 .. r.model.rows : r.backend.rows[q] = RowOf(constraints[i], r.model.column)
        BY <1>12, <1>14, <2>2, <2>5, <2>6, <2>8, Zenon DEF Posts
    <2> QED BY <2>7, <2>8, Zenon DEF Posts
<1>16. l + 1 = L => LayerRows(l + 1)' /\ AllRows'
    <2> SUFFICES ASSUME l + 1 = L PROVE LayerRows(l + 1)' /\ AllRows'
        OBVIOUS
    <2>1. constraints' = constraints /\ ConstraintLayerEnd(l + 1)' = Len(constraints)
        BY <1>1, <1>2 DEF model, ConstraintLayerEnd, Inv, ModelInv
    <2>2. layerEnd'[l + 1].rows = r.model.rows
        BY <1>9 DEF LayerEndOf
    <2>3. \A q : q \notin r.model.rows + 1 .. r.model.rows
        BY <1>6
    <2> QED BY <1>2, <1>15, <2>1, <2>2, <2>3 DEF LayerRows, AllRows
<1>17. OnTop' => l + 1 = L
    <2> SUFFICES ASSUME OnTop', l + 1 < L PROVE FALSE
        BY <1>1
    <2>1. Len(decisions) > DecisionLayerEnd(l + 1)
        BY <1>1 DEF Once
    <2>2. Len(built'.column) = DecisionLayerEnd(l + 1)
        BY <1>2 DEF OnTop, DecisionLayerEnd, model
    <2>3. DecisionLayerEnd(l + 1) \in Nat
        <3>1. l + 1 \in 0 .. Len(layers)
            BY <1>1
        <3> QED BY <3>1, LayerEnds DEF Inv
    <2> QED BY <1>2, <1>4, <1>6, <2>1, <2>2, <2>3
<1>18. OnTop' => \A k \in 1 .. l + 1 : LayerRows(k)'
    <2>1. \A k \in 1 .. l + 1 : k \in 1 .. l \/ k = l + 1
        BY <1>1
    <2> QED BY <1>13, <1>16, <1>17, <2>1
<1>19. level' = Len(layers') => AllRows'
    BY <1>1, <1>2, <1>16 DEF model
<1> QED BY <1>2, <1>3, <1>18, <1>19 DEF RowsInv

LEMMA RowsNext ==
    ASSUME Inv, RowsInv, Once, [Next]_vars
    PROVE  RowsInv'
<1>1. Tagged' /\ Inv'
    BY TaggedStep, NextInv DEF RowsInv
<1>2. CASE CallerActs
    BY <1>2, RowsCallerStep
<1>3. CASE RunStart
    BY <1>3, RowsRunStart
<1>4. CASE BuildLayer
    <2>1. pc = "building" /\ level < Len(layers)
        BY <1>4, BuildLayerCases
    <2>2. CASE \E r : /\ LayerBuilt(r)
                      /\ Extends(r, decisions, Above(level), built, backend,
                                 DecisionLayerEnd(level), level # 0)
        BY <2>1, <2>2, RowsLayerBuilt
    <2>3. CASE \E r : AllBuilt(r) /\ Extends(r, decisions, constraints, NoModel, EmptyBackend, 0, FALSE)
        <3>1. PICK r : AllBuilt(r) /\ Extends(r, decisions, constraints, NoModel, EmptyBackend, 0, FALSE)
            BY <2>3
        <3>2. /\ pc' = "building" /\ layerEnd' = <<>> /\ level' = Len(layers') /\ UNCHANGED model
              /\ built' = r.model /\ backend' = r.backend
            BY <2>1, <3>1 DEF AllBuilt, caller, model
        <3>3. AllRows'
            <4>1. Posts(r.backend.rows, NoModel.rows, r.model.rows, constraints, Len(constraints), r.model.column)
                BY <3>1 DEF Extends
            <4>2. NoModel.rows = 0
                BY DEF NoModel
            <4> QED BY <3>2, <4>1, <4>2 DEF AllRows, model
        <3>4. ~OnTop'
            <4>1. Len(layers) \in Nat
                BY DEF Inv, ModelInv
            <4>2. Len(layers) # 0
                BY <2>1, <4>1, LayerContinues
            <4> QED BY <3>2, <4>2 DEF OnTop, model
        <3> QED BY <1>1, <3>2, <3>3, <3>4 DEF RowsInv
    <2>4. CASE RunFails
        <3>1. pc' = "idle" /\ builtLayers' = 0 /\ unchanged' = Len(layers) /\ Len(layers) \in Nat
            BY <2>4 DEF RunFails, Inv, ModelInv
        <3>2. Min({unchanged', builtLayers'}) = 0
            BY <3>1, MinOfTwo
        <3> QED BY <1>1, <3>1, <3>2 DEF RowsInv
    <2> QED BY <1>4, <2>2, <2>3, <2>4, BuildLayerCases
<1>5. CASE StartSolve
    <2>1. /\ pc = "building" /\ level = Len(layers) /\ pc' = "solving"
          /\ UNCHANGED <<model, level, built, backend>>
          /\ \/ Len(layerEnd) = Len(layers) /\ builtLayers' = Len(layers) /\ layerEnd' = layerEnd
             \/ Len(layerEnd) # Len(layers) /\ builtLayers' = 0 /\ layerEnd' = <<>>
        BY <1>5 DEF StartSolve, caller, model
    <2>2. AllRows'
        BY <2>1 DEF RowsInv, AllRows, model
    <2>3. ASSUME NEW k \in 1 .. builtLayers' PROVE LayerRows(k)'
        <3>1. /\ Len(layerEnd) = Len(layers) /\ builtLayers' = Len(layers) /\ layerEnd' = layerEnd
            BY <2>1, <2>3
        <3>2. OnTop
            BY <2>1, <3>1 DEF OnTop, Inv, ModelInv, StageInv, BuildingInv, Layerwise, Whole
        <3>3. LayerRows(k)
            BY <2>1, <2>3, <3>1, <3>2 DEF RowsInv
        <3> QED BY <2>1, <3>1, <3>3, LayerRowsKept DEF model, ConstraintLayerEnd
    <2> QED BY <1>1, <2>1, <2>2, <2>3 DEF RowsInv
<1>6. CASE \E outcome \in program.outcomes : EndRun(outcome)
    <2>1. /\ pc = "solving" /\ unchanged' = Len(layers) /\ pc' = "idle"
          /\ UNCHANGED <<model, built, layerEnd, builtLayers, backend>>
        BY <1>6 DEF EndRun, model
    <2>2. PICK B \in Nat, W \in Nat : B = builtLayers /\ W = Min({unchanged', builtLayers'}) /\ W <= B
        <3>1. builtLayers \in Nat /\ Len(layers) \in Nat
            BY <2>1 DEF Inv, ModelInv, StageInv, SolvingInv
        <3>2. Min({unchanged', builtLayers'}) \in Nat /\ Min({unchanged', builtLayers'}) <= builtLayers
            BY <2>1, <3>1, MinOfTwo
        <3> QED BY <3>1, <3>2
    <2>3. ASSUME NEW k \in 1 .. W PROVE LayerRows(k)'
        <3>1. k \in 1 .. B
            BY <2>2
        <3>2. LayerRows(k)
            BY <2>1, <2>2, <3>1 DEF RowsInv
        <3> QED BY <2>1, <3>2, LayerRowsKept DEF model, ConstraintLayerEnd
    <2> QED BY <1>1, <2>1, <2>2, <2>3 DEF RowsInv
<1>7. CASE UNCHANGED vars
    <2>1. \A k : LayerRows(k) => LayerRows(k)'
        BY <1>7 DEF vars, caller, model, solver, LayerRows, Tags, ConstraintLayerEnd
    <2>2. (AllRows => AllRows') /\ (OnTop' => OnTop)
        BY <1>7 DEF vars, caller, model, solver, AllRows, OnTop, DecisionLayerEnd
    <2> QED BY <1>1, <1>7, <2>1, <2>2 DEF vars, caller, model, solver, RowsInv
<1>8. CASE RunStopped
    <2>1. \A k : LayerRows(k) => LayerRows(k)'
        BY <1>8, StoppedKeeps DEF LayerRows, Tags, ConstraintLayerEnd
    <2> QED BY <1>1, <1>8, <2>1, StoppedKeeps DEF RowsInv
<1> QED BY <1>2, <1>3, <1>4, <1>5, <1>6, <1>7, <1>8 DEF Next, CallerActs

LEMMA RowsInit == Init => RowsInv
<1> SUFFICES ASSUME Init PROVE RowsInv
    OBVIOUS
<1>1. Min({unchanged, builtLayers}) = 0 /\ pc = "idle" /\ Len(constraints) = 0
    BY MinOfTwo DEF Init
<1> QED BY <1>1 DEF RowsInv, Tagged

LEMMA RowsInvariance == Spec /\ SeenStops /\ []Once => []RowsInv
<1>1. Init => RowsInv
    BY RowsInit
<1>2. Inv /\ RowsInv /\ Once /\ [Next]_vars => RowsInv'
    BY RowsNext
<1> QED BY <1>1, <1>2, Invariance, PTL DEF Spec

\* A constraint is not taken for a hole, and its row is its own.
LEMMA ConstraintIds ==
    ASSUME Inv
    PROVE  \A column : \A i \in 1 .. Len(constraints) :
              /\ ~IsHole(RowOf(constraints[i], column))
              /\ RowOf(constraints[i], column).id = constraints[i].id
              /\ RowOf(constraints[i], column).cols = {column[constraints[i].a], column[constraints[i].b]}
<1> SUFFICES ASSUME NEW i \in 1 .. Len(constraints), NEW column
             PROVE  /\ ~IsHole(RowOf(constraints[i], column))
                    /\ RowOf(constraints[i], column).id = constraints[i].id
                    /\ RowOf(constraints[i], column).cols = {column[constraints[i].a], column[constraints[i].b]}
    OBVIOUS
<1>1. constraints[i] \in Constraint
    BY DEF Inv, ModelInv
<1>2. constraints[i].id \in Nat \X {1}
    BY <1>1 DEF Constraint
<1>3. constraints[i].id # <<0, 0>>
    BY <1>2
<1> QED BY <1>3 DEF RowOf, Row, IsHole

\* "Both must give the same answer as building from nothing": for a caller that
\* stops as SeenStops says, and as long as no run posts a layer on its own when
\* the layers above it declare nothing, the rows the search starts with are the
\* model's constraints, whatever layers were pushed, retracted and run before.
THEOREM RowsCorrect == Spec /\ SeenStops /\ []Once => []RowsAsFromNothing
<1>1. Inv /\ RowsInv => RowsAsFromNothing
    <2> SUFFICES ASSUME Inv, RowsInv, pc = "solving"
                 PROVE  {<<r.id, r.cols>> : r \in {r \in ToSet(backend.rows) : ~IsHole(r)}}
                            = {<<c.id, {ColumnOf(c.a), ColumnOf(c.b)}>> :
                                  c \in {c \in ToSet(constraints) : c.kind = "row"}}
        BY DEF RowsAsFromNothing
    <2>1. /\ DOMAIN backend.rows = 1 .. built.rows
          /\ DOMAIN constraints = 1 .. Len(constraints)
          /\ built.rows \in Nat
        BY DEF Inv, Sized, Backends, Models, ModelInv
    <2>2. AllRows
        BY DEF RowsInv, Inv, StageInv, SolvingInv
    <2>3. /\ \A q \in 1 .. built.rows :
                \/ IsHole(backend.rows[q])
                \/ \E i \in 1 .. Len(constraints) :
                      constraints[i].kind = "row" /\ backend.rows[q] = RowOf(constraints[i], built.column)
          /\ \A i \in 1 .. Len(constraints) :
                constraints[i].kind = "row" =>
                    \E q \in 1 .. built.rows : backend.rows[q] = RowOf(constraints[i], built.column)
        BY <2>2 DEF AllRows, Posts
    <2>4. ASSUME NEW r \in ToSet(backend.rows), ~IsHole(r)
          PROVE  \E c \in ToSet(constraints) :
                     c.kind = "row" /\ <<r.id, r.cols>> = <<c.id, {ColumnOf(c.a), ColumnOf(c.b)}>>
        <3>1. PICK q \in 1 .. built.rows : r = backend.rows[q]
            BY <2>1 DEF ToSet
        <3>2. PICK i \in 1 .. Len(constraints) :
                  constraints[i].kind = "row" /\ r = RowOf(constraints[i], built.column)
            BY <2>3, <2>4, <3>1
        <3>3. constraints[i] \in ToSet(constraints)
            BY <2>1 DEF ToSet
        <3> QED BY <3>2, <3>3, ConstraintIds DEF ColumnOf
    <2>5. ASSUME NEW c \in ToSet(constraints), c.kind = "row"
          PROVE  \E r \in ToSet(backend.rows) :
                     ~IsHole(r) /\ <<c.id, {ColumnOf(c.a), ColumnOf(c.b)}>> = <<r.id, r.cols>>
        <3>1. PICK i \in 1 .. Len(constraints) : c = constraints[i]
            BY <2>1 DEF ToSet
        <3>2. PICK q \in 1 .. built.rows : backend.rows[q] = RowOf(c, built.column)
            BY <2>3, <2>5, <3>1
        <3>3. backend.rows[q] \in ToSet(backend.rows)
            BY <2>1 DEF ToSet
        <3>4. /\ ~IsHole(RowOf(c, built.column)) /\ RowOf(c, built.column).id = c.id
              /\ RowOf(c, built.column).cols = {ColumnOf(c.a), ColumnOf(c.b)}
            BY <3>1, ConstraintIds DEF ColumnOf
        <3> QED BY <3>2, <3>3, <3>4
    <2> DEFINE A == {<<r.id, r.cols>> : r \in {r \in ToSet(backend.rows) : ~IsHole(r)}}
               B == {<<c.id, {ColumnOf(c.a), ColumnOf(c.b)}>> :
                        c \in {c \in ToSet(constraints) : c.kind = "row"}}
    <2>6. ASSUME NEW x \in A PROVE x \in B
        <3>1. PICK r \in ToSet(backend.rows) : ~IsHole(r) /\ x = <<r.id, r.cols>>
            OBVIOUS
        <3> QED BY <2>4, <3>1
    <2>7. ASSUME NEW x \in B PROVE x \in A
        <3>1. PICK c \in ToSet(constraints) :
                  c.kind = "row" /\ x = <<c.id, {ColumnOf(c.a), ColumnOf(c.b)}>>
            OBVIOUS
        <3> QED BY <2>5, <3>1
    <2> HIDE DEF A, B
    <2>8. A = B
        BY <2>6, <2>7
    <2> QED BY <2>8 DEF A, B
<1> QED BY <1>1, Invariance, RowsInvariance, PTL

\* Under the same condition a recorded end is the end of its layer: no row below
\* it is of a layer above, none above it of a layer below.
THEOREM EndsCorrect == Spec /\ SeenStops /\ []Once => []EndsAreLayerEnds
<1>1. Inv /\ RowsInv => EndsAreLayerEnds
    <2> SUFFICES ASSUME Inv, RowsInv, pc = "idle",
                        NEW k \in 1 .. Min({unchanged, builtLayers}), NEW r \in 1 .. Len(backend.rows)
                 PROVE  LET tag == backend.rows[r].id[1]
                            mine == {layers[j].tag : j \in 1 .. k} \cup {0}
                        IN  /\ r <= layerEnd[k].rows => tag \in mine
                            /\ r > layerEnd[k].rows /\ tag # 0 => tag \notin mine
        BY DEF EndsAreLayerEnds
    <2>1. k \in 0 .. Len(layers) /\ k \in 1 .. Len(layerEnd)
        <3>1. Len(layers) \in Nat
            BY DEF Inv, ModelInv
        <3>2. /\ unchanged \in 0 .. Len(layers) /\ builtLayers \in Nat /\ Len(layerEnd) = builtLayers
              /\ Min({unchanged, builtLayers}) \in 0 .. unchanged
              /\ Min({unchanged, builtLayers}) \in 0 .. builtLayers
            BY KeepIs
        <3>3. k \in 1 .. unchanged /\ k \in 1 .. builtLayers
            BY <3>1, <3>2
        <3> QED BY <3>1, <3>2, <3>3
    <2>2. LayerRows(k) /\ Tagged
        BY DEF RowsInv
    <2>3. /\ Len(backend.rows) = built.rows /\ built.rows \in Nat /\ layerEnd[k].rows \in Nat
          /\ ConstraintLayerEnd(k) \in 0 .. Len(constraints) /\ Len(constraints) \in Nat
        <3>1. layerEnd[k] \in EndType
            BY <2>1 DEF Inv, EndsInv
        <3>2. Len(backend.rows) = built.rows /\ built.rows \in Nat
            BY DEF Inv, Sized, Models
        <3>3. ConstraintLayerEnd(k) \in 0 .. Len(constraints) /\ Len(constraints) \in Nat
            BY <2>1, LayerEnds DEF Inv, ModelInv
        <3> QED BY <3>1, <3>2, <3>3 DEF EndType
    <2>4. IsHole(backend.rows[r]) => backend.rows[r].id[1] = 0
        BY DEF IsHole
    <2>5. r <= layerEnd[k].rows /\ ~IsHole(backend.rows[r]) => backend.rows[r].id[1] \in Tags(k)
        <3> SUFFICES ASSUME r <= layerEnd[k].rows, ~IsHole(backend.rows[r])
                     PROVE  backend.rows[r].id[1] \in Tags(k)
            OBVIOUS
        <3>1. r \in 0 + 1 .. layerEnd[k].rows
            BY <2>3
        <3>2. PICK i \in 1 .. ConstraintLayerEnd(k) : backend.rows[r] = RowOf(constraints[i], built.column)
            BY <2>2, <3>1 DEF LayerRows, Posts
        <3>3. i \in 1 .. Len(constraints) /\ i <= ConstraintLayerEnd(k)
            BY <2>3
        <3>4. constraints[i].id[1] \in Tags(k)
            BY <2>1, <2>2, <3>3 DEF Tagged
        <3>5. backend.rows[r].id = constraints[i].id
            BY <3>2 DEF RowOf, Row
        <3> QED BY <3>4, <3>5
    <2>6. r > layerEnd[k].rows /\ ~IsHole(backend.rows[r]) => backend.rows[r].id[1] \notin Tags(k)
        BY <2>2, <2>3 DEF LayerRows
    <2> QED BY <2>4, <2>5, <2>6 DEF Tags
<1> QED BY <1>1, Invariance, RowsInvariance, PTL

-----------------------------------------------------------------------------
(* Callers whose layers above the lowest all declare decisions.            *)
Declaring == \A k \in 2 .. Len(layers) : DecisionLayerEnd(k - 1) < DecisionLayerEnd(k)

LEMMA DeclaringStep ==
    ASSUME \A p \in Programs : 0 \notin p.upperDecisions, Inv, Declaring, [Next]_vars
    PROVE  Declaring'
<1>1. PICK L \in Nat : L = Len(layers)
    BY DEF Inv, ModelInv
<1>2. CASE PushLayer
    <2>1. PICK n \in Nat, posted \in Seq(Constraint) :
              /\ layers # <<>> => n \in program.upperDecisions
              /\ layers' = Append(layers, [tag |-> Unused, decisions |-> Len(decisions) + n,
                                           constraints |-> Len(constraints) + Len(posted)])
        BY <1>2, Pushed
    <2>2. Len(layers') = L + 1 /\ \A k \in 0 .. L : DecisionLayerEnd(k)' = DecisionLayerEnd(k)
        BY <1>1, <1>2, PushParts
    <2>3. L # 0 => n # 0
        <3>1. program \in Programs /\ (L # 0 => layers # <<>>)
            BY <1>1 DEF Inv, ModelInv
        <3> QED BY <2>1, <3>1
    <2>4. DecisionLayerEnd(L + 1)' = DecisionLayerEnd(L) + n
        <3>1. layers \in Seq(LayerType) /\ DecisionLayerEnd(L) = Len(decisions)
            BY <1>1 DEF Inv, ModelInv
        <3>2. layers'[L + 1].decisions = Len(decisions) + n
            BY <1>1, <2>1, <3>1
        <3>3. L + 1 # 0
            BY <1>1
        <3> QED BY <3>1, <3>2, <3>3 DEF DecisionLayerEnd
    <2>5. DecisionLayerEnd(L) \in Nat
        BY <1>1, LayerEnds DEF Inv, ModelInv
    <2>6. ASSUME NEW k \in 2 .. L + 1 PROVE DecisionLayerEnd(k - 1)' < DecisionLayerEnd(k)'
        <3>1. CASE k \in 2 .. L
            <4>1. k \in 0 .. L /\ k - 1 \in 0 .. L
                BY <3>1
            <4> QED BY <1>1, <2>2, <3>1, <4>1 DEF Declaring
        <3>2. CASE k = L + 1
            <4>1. L \in 0 .. L /\ k - 1 = L /\ L # 0
                BY <3>2
            <4> QED BY <2>2, <2>3, <2>4, <2>5, <3>2, <4>1
        <3> QED BY <1>1, <3>1, <3>2
    <2> QED BY <2>2, <2>6 DEF Declaring
<1>3. CASE PopLayer
    <2>1. Len(layers') = L - 1 /\ \A k \in 0 .. L - 1 : DecisionLayerEnd(k)' = DecisionLayerEnd(k)
        BY <1>1, <1>3, PopParts
    <2>2. \A k \in 2 .. L - 1 : k \in 2 .. L /\ k \in 0 .. L - 1 /\ k - 1 \in 0 .. L - 1
        BY <1>1
    <2> QED BY <1>1, <2>1, <2>2 DEF Declaring
<1>4. CASE UNCHANGED model
    BY <1>4 DEF model, Declaring, DecisionLayerEnd
<1> QED
    BY <1>2, <1>3, <1>4 DEF Next, SetObjective, ClearObjective, RunStopped, RunStart, BuildLayer,
        LayerBuilt, BuildFallback, AllBuilt, BuildFails, RunFails, StartSolve, EndRun, caller, vars

LEMMA DeclaringOnce ==
    ASSUME Inv, Declaring
    PROVE  Once
<1> SUFFICES ASSUME pc = "building", level + 1 < Len(layers)
             PROVE  Len(decisions) > DecisionLayerEnd(level + 1)
    BY DEF Once
<1>1. PICK l \in Nat, L \in Nat : l = level /\ L = Len(layers) /\ l + 1 < L
    BY DEF Inv, StageInv, BuildingInv, ModelInv
<1>2. l + 2 \in 2 .. L /\ (l + 2) - 1 = l + 1 /\ l + 1 \in 0 .. L /\ l + 2 \in 0 .. L /\ L \in 0 .. L
      /\ l + 2 <= L
    BY <1>1
<1>3. DecisionLayerEnd(l + 1) < DecisionLayerEnd(l + 2)
    BY <1>1, <1>2 DEF Declaring
<1>4. DecisionLayerEnd(l + 2) <= Len(decisions)
    BY <1>1, <1>2 DEF Inv, ModelInv
<1>5. DecisionLayerEnd(l + 1) \in Nat /\ DecisionLayerEnd(l + 2) \in Nat /\ Len(decisions) \in Nat
    BY <1>1, <1>2, LayerEnds DEF Inv, ModelInv
<1> QED BY <1>1, <1>3, <1>4, <1>5

\* A caller that declares decisions in every layer it pushes on another meets
\* that condition, in whatever order it pushes, retracts and runs.
COROLLARY DeclaringRowsCorrect ==
    ASSUME \A p \in Programs : 0 \notin p.upperDecisions
    PROVE  Spec /\ SeenStops => [](RowsAsFromNothing /\ EndsAreLayerEnds)
<1>1. Init => Declaring
    BY DEF Init, Declaring
<1>2. Inv /\ Declaring /\ [Next]_vars => Declaring'
    BY DeclaringStep
<1>3. Inv /\ Declaring => Once
    BY DeclaringOnce
<1> QED BY <1>1, <1>2, <1>3, Invariance, RowsCorrect, EndsCorrect, PTL DEF Spec

-----------------------------------------------------------------------------
(* Which columns have a cost, and the ranking: the objective o's.          *)
Priced(k, o) ==
    \A c \in 1 .. layerEnd[k].columns :
        backend.cols[c].cost <=> /\ o.kind = "scalar" /\ o.args[1] <= layerEnd[k].decisions
                                 /\ c = built.column[o.args[1]]

Ranked(o) ==
    /\ backend.lex = IF o.kind = "lex"
                     THEN [i \in 1 .. Len(o.args) |-> built.column[o.args[i]]] ELSE <<>>
    /\ o.kind = "lex" => o.args[1] <= layerEnd[1].decisions

AllPriced ==
    /\ \A c \in 1 .. built.columns :
          backend.cols[c].cost <=> objective.kind = "scalar" /\ c = ColumnOf(objective.args[1])
    /\ backend.lex = IF objective.kind = "lex"
                     THEN [i \in 1 .. Len(objective.args) |-> ColumnOf(objective.args[i])] ELSE <<>>

CostInv ==
    /\ pc = "idle" => \A k \in 1 .. builtLayers : Priced(k, builtObjective)
    /\ pc = "idle" /\ builtLayers > 0 => Ranked(builtObjective)
    /\ pc = "building" /\ OnTop => /\ \A k \in 1 .. level : Priced(k, objective)
                                   /\ level > 0 => Ranked(objective)
    /\ pc \in {"building", "solving"} /\ level = Len(layers) => AllPriced
    /\ pc = "solving" => /\ \A k \in 1 .. builtLayers : Priced(k, objective)
                         /\ builtLayers > 0 => Ranked(objective)
                         /\ builtObjective = objective

\* With all layers posted the last layer's columns are all there are.
LEMMA AllPricedFrom ==
    ASSUME Inv, pc = "building", OnTop, level = Len(layers),
           \A k \in 1 .. level : Priced(k, objective), Ranked(objective)
    PROVE  AllPriced
<1>1. PICK L \in Nat : L = level /\ L = Len(layers) /\ L # 0
    BY DEF Inv, ModelInv, StageInv, BuildingInv
<1>2. Layerwise /\ Names(Len(decisions))
    BY <1>1 DEF OnTop, Inv, StageInv, BuildingInv, Whole
<1>3. layerEnd # <<>> /\ L \in 1 .. L
    BY <1>1, <1>2 DEF Layerwise
<1>4. layerEnd[L].columns = built.columns /\ layerEnd[L].decisions = Len(decisions)
    BY <1>1, <1>2, <1>3 DEF Layerwise, EndsWithLayer, SameEnds, Inv, ModelInv
<1>5. Priced(L, objective)
    BY <1>1, <1>3
<1>6. objective.kind = "scalar" => objective.args[1] <= Len(decisions)
    <2>1. Len(decisions) \in Nat
        BY DEF Inv, ModelInv
    <2> QED BY <1>2, <2>1 DEF Names
<1>7. \A c \in 1 .. built.columns :
          backend.cols[c].cost <=> objective.kind = "scalar" /\ c = ColumnOf(objective.args[1])
    BY <1>4, <1>5, <1>6, Zenon DEF Priced, ColumnOf
<1> QED BY <1>7 DEF AllPriced, Ranked, ColumnOf

LEMMA CostRunStart ==
    ASSUME Inv, CostInv, RunStart
    PROVE  CostInv'
<1>1. /\ pc = "idle" /\ pc' = "building" /\ level' = Keep /\ layers # <<>>
      /\ UNCHANGED <<model, objective>>
    BY DEF RunStart, Runnable, caller
<1>2. Inv'
    BY NextInv DEF Next
<1>3. PICK L \in Nat, K \in Nat : L = Len(layers) /\ L # 0 /\ K = Keep
    <2>1. layers \in Seq(LayerType) /\ Keep \in Nat
        BY <1>1, KeepIs DEF Inv, ModelInv
    <2> QED BY <1>1, <2>1
<1>4. CASE K = 0
    BY <1>1, <1>3, <1>4 DEF CostInv, model
<1>5. CASE K # 0
    <2>1. /\ K \in 1 .. Len(layerEnd)
          /\ built'.column = SubSeq(built.column, 1, layerEnd[K].decisions)
          /\ backend'.cols = SubSeq(backend.cols, 1, layerEnd[K].columns)
          /\ backend'.lex \in {backend.lex, Below(backend.lex, layerEnd[K].columns)}
          /\ layerEnd' = SubSeq(layerEnd, 1, K)
        BY <1>1, <1>3, <1>5, CutTo
    <2>2. /\ \A j, k \in 1 .. Len(layerEnd) :
                j <= k => /\ layerEnd[j].decisions <= layerEnd[k].decisions
                          /\ layerEnd[j].columns <= layerEnd[k].columns
          /\ Within(K) /\ layerEnd \in Seq(EndType) /\ Len(layerEnd) \in Nat
        BY <2>1 DEF Inv, EndsInv
    <2>3. /\ layerEnd[K].decisions \in 0 .. Len(built.column) /\ layerEnd[K].columns \in 0 .. Len(backend.cols)
          /\ layerEnd[K].decisions \in Nat /\ layerEnd[K].columns \in Nat
          /\ built.column \in Seq(Nat) /\ backend.cols \in Seq(BackendCol) /\ backend.lex \in Seq(Nat)
        <3>1. layerEnd[K] \in EndType
            BY <2>1, <2>2
        <3> QED BY <2>2, <3>1 DEF Within, EndType, Inv, Sized, Models, Backends
    <2>4. /\ \A k \in 1 .. K : layerEnd'[k] = layerEnd[k]
          /\ \A d \in 1 .. layerEnd[K].decisions : built'.column[d] = built.column[d]
          /\ \A c \in 1 .. layerEnd[K].columns : backend'.cols[c] = backend.cols[c]
        <3>1. K \in 0 .. Len(layerEnd)
            BY <1>3, <2>1
        <3> QED BY <2>1, <2>2, <2>3, <3>1, SubSeqParts
    <2>5. builtObjective = objective /\ K <= builtLayers /\ builtLayers \in Nat
        BY <1>1, <1>3, <1>5, KeepIs
    <2>6. /\ \A k \in 1 .. builtLayers : Priced(k, objective)
          /\ Ranked(objective)
        BY <1>1, <1>3, <1>5, <2>5 DEF CostInv
    <2>7. objective.kind # "none" => objective.args[1] \in Nat \ {0} /\ Len(objective.args) = 1
        BY DEF Inv, ObjectiveInv
    <2>8. \A k \in 1 .. K : /\ k \in 1 .. Len(layerEnd) /\ k \in 1 .. builtLayers
                            /\ layerEnd[k].decisions \in 0 .. layerEnd[K].decisions
                            /\ layerEnd[k].columns \in 0 .. layerEnd[K].columns
        <3> SUFFICES ASSUME NEW k \in 1 .. K
                     PROVE  /\ k \in 1 .. Len(layerEnd) /\ k \in 1 .. builtLayers
                            /\ layerEnd[k].decisions \in 0 .. layerEnd[K].decisions
                            /\ layerEnd[k].columns \in 0 .. layerEnd[K].columns
            OBVIOUS
        <3>1. k \in 1 .. Len(layerEnd) /\ k \in 1 .. builtLayers /\ k <= K
            BY <1>3, <2>1, <2>2, <2>5
        <3>2. layerEnd[k] \in EndType
            BY <2>2, <3>1
        <3> QED BY <2>1, <2>2, <2>3, <3>1, <3>2, SMTT(30) DEF EndType
    <2>9. ASSUME NEW k \in 1 .. K PROVE Priced(k, objective)'
        <3>1. Priced(k, objective) /\ layerEnd'[k] = layerEnd[k] /\ objective' = objective
            BY <1>1, <2>4, <2>6, <2>8
        <3>2. \A c \in 1 .. layerEnd[k].columns : backend'.cols[c] = backend.cols[c]
            <4>1. \A c \in 1 .. layerEnd[k].columns : c \in 1 .. layerEnd[K].columns
                BY <2>3, <2>8
            <4> QED BY <2>4, <4>1
        <3>3. objective.kind = "scalar" /\ objective.args[1] <= layerEnd[k].decisions
                  => built'.column[objective.args[1]] = built.column[objective.args[1]]
            <4> SUFFICES ASSUME objective.kind = "scalar", objective.args[1] <= layerEnd[k].decisions
                         PROVE  built'.column[objective.args[1]] = built.column[objective.args[1]]
                OBVIOUS
            <4>1. objective.args[1] \in 1 .. layerEnd[K].decisions
                BY <2>3, <2>7, <2>8
            <4> QED BY <2>4, <4>1
        <3> QED BY <3>1, <3>2, <3>3, Zenon DEF Priced
    <2>10. Ranked(objective)'
        <3>1. 1 \in 1 .. K
            BY <1>3, <1>5
        <3>2. layerEnd'[1] = layerEnd[1] /\ layerEnd[1].decisions \in 0 .. layerEnd[K].decisions
            BY <2>4, <2>8, <3>1
        <3>3. CASE objective.kind = "lex"
            <4> DEFINE d == objective.args[1]
            <4>1. d \in 1 .. layerEnd[K].decisions /\ d <= layerEnd[1].decisions
                BY <2>3, <2>6, <2>7, <3>2, <3>3 DEF Ranked
            <4>2. built.column[d] <= layerEnd[K].columns /\ built'.column[d] = built.column[d]
                BY <2>2, <2>4, <4>1 DEF Within
            <4>3. backend.lex = [i \in 1 .. 1 |-> built.column[d]]
                BY <2>6, <2>7, <3>3 DEF Ranked
            <4>4. \A i \in 1 .. Len(backend.lex) : backend.lex[i] <= layerEnd[K].columns
                BY <4>2, <4>3
            <4>5. Below(backend.lex, layerEnd[K].columns) = backend.lex
                BY <2>3, <4>4, BelowSame
            <4>6. backend'.lex = [i \in 1 .. Len(objective.args) |-> built'.column[objective.args[i]]]
                <5>1. backend'.lex = [i \in 1 .. 1 |-> built'.column[d]]
                    BY <2>1, <4>2, <4>3, <4>5
                <5>2. Len(objective.args) = 1
                    BY <2>7, <3>3
                <5>3. \A i \in 1 .. 1 : built'.column[d] = built'.column[objective.args[i]]
                    OBVIOUS
                <5> QED BY <5>1, <5>2, <5>3
            <4> QED BY <1>1, <3>2, <3>3, <4>1, <4>6 DEF Ranked
        <3>4. CASE objective.kind # "lex"
            <4>1. backend.lex = <<>>
                BY <2>6, <3>4 DEF Ranked
            <4>2. Below(backend.lex, layerEnd[K].columns) = backend.lex
                <5>1. \A i \in 1 .. Len(backend.lex) : backend.lex[i] <= layerEnd[K].columns
                    BY <4>1
                <5> QED BY <2>3, <5>1, BelowSame
            <4>3. backend'.lex = <<>>
                BY <2>1, <4>1, <4>2
            <4> QED BY <1>1, <3>4, <4>3 DEF Ranked
        <3> QED BY <3>3, <3>4
    <2>11. OnTop'
        <3>1. Len(built'.column) = layerEnd[K].decisions /\ Len(layerEnd') = K
            <4>1. K \in 0 .. Len(layerEnd)
                BY <1>3, <2>1
            <4> QED BY <1>1, <1>3, <1>5, <2>1, <2>2, <4>1, CutTo, SubSeqParts
        <3>2. layerEnd[K].decisions = DecisionLayerEnd(K)
            <4>1. K \in 1 .. Min({unchanged, builtLayers})
                BY <1>1, <1>3, <1>5, KeepIs
            <4> QED BY <1>1, <4>1 DEF Inv, StageInv, IdleInv, SameEnds
        <3> QED BY <1>1, <1>3, <3>1, <3>2 DEF OnTop, DecisionLayerEnd, model
    <2>12. level' = Len(layers') => AllPriced'
        <3>1. (Inv /\ pc = "building" /\ OnTop /\ level = Len(layers)
                /\ (\A k \in 1 .. level : Priced(k, objective)) /\ Ranked(objective) => AllPriced)'
            BY AllPricedFrom, PTL
        <3>2. \A k \in 1 .. level' : Priced(k, objective)'
            BY <1>1, <1>3, <2>9
        <3> QED BY <1>1, <1>2, <2>10, <2>11, <3>1, <3>2
    <2> QED BY <1>1, <1>3, <2>9, <2>10, <2>12 DEF CostInv
<1> QED BY <1>4, <1>5

LEMMA CostLayerBuilt ==
    ASSUME Inv, CostInv, pc = "building", level < Len(layers), NEW r, LayerBuilt(r),
           Extends(r, decisions, Above(level), built, backend, DecisionLayerEnd(level), level # 0)
    PROVE  CostInv'
<1>1. PICK l \in Nat, L \in Nat : l = level /\ L = Len(layers) /\ l < L
    BY LayerContinues DEF Inv, ModelInv
<1>2. /\ built' = r.model /\ backend' = r.backend
      /\ layerEnd' = Append(layerEnd, LayerEndOf(r))
      /\ level' = l + 1 /\ pc' = "building"
      /\ UNCHANGED <<model, objective>>
    BY <1>1 DEF LayerBuilt, LayerEndOf, caller
<1>3. Inv'
    BY LayerBuiltInv
<1>4. /\ Layerwise /\ Names(Len(decisions)) /\ layerEnd \in Seq(EndType) /\ Len(layerEnd) = l
      /\ decisions \in Seq(Decision) /\ Len(decisions) \in Nat
      /\ \A k \in 1 .. l : layerEnd[k] \in EndType /\ Within(k)
      /\ \A k \in 1 .. l : layerEnd[k].decisions = DecisionLayerEnd(k)
      /\ built.columns \in Nat
    <2>1. Layerwise /\ Names(Len(decisions)) /\ Len(layerEnd) = l
        BY <1>1, LayerContinues DEF Layerwise
    <2>2. \A k \in 1 .. l : layerEnd[k].decisions = DecisionLayerEnd(k)
        BY <1>1, <2>1 DEF Layerwise, SameEnds
    <2>3. layerEnd \in Seq(EndType) /\ \A k \in 1 .. l : Within(k)
        BY <2>1 DEF Inv, EndsInv
    <2>4. decisions \in Seq(Decision) /\ Len(decisions) \in Nat
        BY DEF Inv, ModelInv
    <2>5. built.columns \in Nat
        BY DEF Inv, Sized, Models
    <2> QED BY <2>1, <2>2, <2>3, <2>4, <2>5
<1>5. PICK D \in 0 .. Len(decisions), E \in 0 .. Len(decisions) :
          D = DecisionLayerEnd(l) /\ E = DecisionLayerEnd(l + 1) /\ D <= E
    <2>1. l \in 0 .. Len(layers) /\ l + 1 \in 0 .. Len(layers) /\ l <= l + 1
        BY <1>1
    <2> QED BY <2>1, LayerEnds DEF Inv, ModelInv
<1>6. /\ Len(r.model.column) = Len(decisions)
      /\ \A d \in 1 .. D : r.model.column[d] = built.column[d]
      /\ \A d \in D + 1 .. Len(decisions) : r.model.column[d] > built.columns
      /\ \A c \in 1 .. built.columns : r.backend.cols[c] = backend.cols[c]
      /\ \A c \in built.columns + 1 .. r.model.columns :
            r.backend.cols[c].cost = (objective.kind = "scalar" /\ r.model.column[objective.args[1]] = c)
      /\ r.backend.lex = IF l # 0 \/ objective.kind # "lex" THEN backend.lex ELSE Ranking(r.model.column)
      /\ D < Len(decisions) => Len(built.column) = D
      /\ r.model.columns \in Nat /\ built.columns <= r.model.columns
    BY <1>1, <1>5 DEF Extends, Sized, Models
<1>7. Len(built.column) = D
    BY <1>1, <1>4, <1>5, <1>6 DEF Layerwise
<1>8. /\ \A k \in 1 .. l : Priced(k, objective)
      /\ l > 0 => Ranked(objective)
    BY <1>1, <1>4, <1>5, <1>7 DEF CostInv, OnTop
<1>9. /\ layerEnd'[l + 1].decisions = E /\ layerEnd'[l + 1].columns = r.model.columns
      /\ \A k \in 1 .. l : layerEnd'[k] = layerEnd[k]
    <2>1. layerEnd'[l + 1] = LayerEndOf(r) /\ \A k \in 1 .. l : layerEnd'[k] = layerEnd[k]
        BY <1>2, <1>4
    <2> QED BY <1>1, <1>5, <2>1 DEF LayerEndOf
<1>10. objective.kind # "none" => objective.args[1] \in 1 .. Len(decisions) /\ Len(objective.args) = 1
                                  /\ objective.args = <<objective.args[1]>>
    <2>1. objective.kind # "none" => Len(objective.args) = 1 /\ objective.args[1] \in 1 .. Len(decisions)
                                     /\ objective.args \in Seq(Nat)
        BY <1>4 DEF Names, Objectives
    <2> QED BY <2>1
<1>11. ASSUME NEW k \in 1 .. l PROVE Priced(k, objective)'
    <2>1. Priced(k, objective) /\ layerEnd'[k] = layerEnd[k]
        BY <1>8, <1>9
    <2>2. layerEnd[k].columns \in 0 .. built.columns /\ layerEnd[k].decisions \in 0 .. D
        <3>1. k \in 0 .. Len(layers) /\ l \in 0 .. Len(layers) /\ k <= l
            BY <1>1
        <3>2. DecisionLayerEnd(k) <= D
            BY <1>5, <3>1 DEF Inv, ModelInv
        <3>3. layerEnd[k] \in EndType /\ Within(k) /\ layerEnd[k].decisions = DecisionLayerEnd(k)
            BY <1>4
        <3> QED BY <3>2, <3>3 DEF EndType, Within
    <2>3. \A c \in 1 .. layerEnd[k].columns : r.backend.cols[c] = backend.cols[c]
        <3>1. \A c \in 1 .. layerEnd[k].columns : c \in 1 .. built.columns
            BY <1>4, <2>2
        <3> QED BY <1>6, <3>1
    <2>4. objective.kind = "scalar" /\ objective.args[1] <= layerEnd[k].decisions
              => r.model.column[objective.args[1]] = built.column[objective.args[1]]
        <3> SUFFICES ASSUME objective.kind = "scalar", objective.args[1] <= layerEnd[k].decisions
                     PROVE  r.model.column[objective.args[1]] = built.column[objective.args[1]]
            OBVIOUS
        <3>1. objective.args[1] \in 1 .. D
            BY <1>4, <1>5, <1>10, <2>2
        <3> QED BY <1>6, <3>1
    <2> QED BY <1>2, <2>1, <2>3, <2>4, Zenon DEF Priced
\* A decision has a column below the earlier layers' end only if it is theirs.
<1>12. ASSUME E = Len(decisions) PROVE Priced(l + 1, objective)'
    <2>1. ASSUME NEW c \in 1 .. r.model.columns
          PROVE  r.backend.cols[c].cost <=> /\ objective.kind = "scalar" /\ objective.args[1] <= E
                                            /\ c = r.model.column[objective.args[1]]
        <3>1. objective.kind = "scalar" => objective.args[1] <= E
            BY <1>5, <1>10, <1>12
        <3>2. CASE c \in built.columns + 1 .. r.model.columns
            <4>1. r.backend.cols[c].cost
                      = (objective.kind = "scalar" /\ r.model.column[objective.args[1]] = c)
                BY <1>6, <3>2
            <4> QED BY <3>1, <4>1
        <3>3. CASE c \in 1 .. built.columns
            <4>1. r.backend.cols[c] = backend.cols[c]
                BY <1>6, <3>3
            <4>2. l # 0
                <5> SUFFICES ASSUME l = 0 PROVE FALSE
                    OBVIOUS
                <5>1. built.columns = 0
                    BY <1>1, <1>4 DEF Layerwise, NoModel
                <5> QED BY <3>3, <5>1
            <4>3. l \in 1 .. l /\ layerEnd # <<>>
                BY <1>1, <1>4, <4>2
            <4>4. layerEnd[l].columns = built.columns /\ layerEnd[l].decisions = D
                BY <1>4, <1>5, <4>3 DEF Layerwise, EndsWithLayer
            <4>5. backend.cols[c].cost <=> /\ objective.kind = "scalar" /\ objective.args[1] <= D
                                           /\ c = built.column[objective.args[1]]
                BY <1>8, <3>3, <4>3, <4>4 DEF Priced
            <4>6. CASE objective.kind = "scalar" /\ objective.args[1] <= D
                <5>1. objective.args[1] \in 1 .. D
                    BY <1>5, <1>10, <4>6
                <5>2. r.model.column[objective.args[1]] = built.column[objective.args[1]]
                    BY <1>6, <5>1
                <5> QED BY <3>1, <4>1, <4>5, <4>6, <5>2
            <4>7. CASE objective.kind = "scalar" /\ ~ (objective.args[1] <= D)
                <5>1. objective.args[1] \in D + 1 .. Len(decisions)
                    BY <1>5, <1>10, <4>7
                <5>2. r.model.column[objective.args[1]] > built.columns
                    BY <1>6, <5>1
                <5>3. c # r.model.column[objective.args[1]]
                    BY <1>4, <3>3, <5>2
                <5> QED BY <4>1, <4>5, <4>7, <5>3
            <4>8. CASE objective.kind # "scalar"
                BY <4>1, <4>5, <4>8
            <4> QED BY <4>6, <4>7, <4>8
        <3> QED BY <1>4, <1>6, <3>2, <3>3
    <2> QED BY <1>2, <1>9, <2>1, Zenon DEF Priced
<1>13. ASSUME E = Len(decisions) PROVE Ranked(objective)'
    <2>1. CASE objective.kind # "lex"
        <3>1. backend.lex = <<>>
            <4>1. CASE l = 0
                BY <1>1, <1>4, <4>1 DEF Layerwise, EmptyBackend
            <4>2. CASE l # 0
                BY <1>1, <1>8, <2>1, <4>2 DEF Ranked
            <4> QED BY <4>1, <4>2
        <3>2. r.backend.lex = <<>>
            BY <1>6, <2>1, <3>1
        <3> QED BY <1>2, <2>1, <3>2 DEF Ranked
    <2>2. CASE objective.kind = "lex" /\ l = 0
        <3>1. r.backend.lex = Ranking(r.model.column)
            BY <1>6, <2>2
        <3>2. Ranking(r.model.column)
                  = [i \in 1 .. Len(objective.args) |-> r.model.column[objective.args[i]]]
            <4>1. DOMAIN objective.args = 1 .. Len(objective.args)
                BY <1>10, <2>2
            <4> QED BY <4>1 DEF Ranking
        <3>3. layerEnd'[1].decisions = E
            BY <1>9, <2>2
        <3>4. objective.args[1] <= E
            BY <1>5, <1>10, <1>13, <2>2
        <3> QED BY <1>2, <2>2, <3>1, <3>2, <3>3, <3>4 DEF Ranked
    <2>3. CASE objective.kind = "lex" /\ l # 0
        <3>1. 1 \in 1 .. l /\ l > 0
            BY <1>1, <2>3
        <3>2. /\ Ranked(objective) /\ layerEnd'[1] = layerEnd[1]
              /\ layerEnd[1].decisions <= D /\ layerEnd[1].decisions \in Nat
            <4>1. 1 \in 0 .. Len(layers) /\ l \in 0 .. Len(layers) /\ 1 <= l
                BY <1>1, <3>1
            <4>2. DecisionLayerEnd(1) <= D
                BY <1>5, <4>1 DEF Inv, ModelInv
            <4>3. layerEnd[1] \in EndType /\ layerEnd[1].decisions = DecisionLayerEnd(1)
                BY <1>4, <3>1
            <4> QED BY <1>8, <1>9, <3>1, <4>2, <4>3 DEF EndType
        <3>3. objective.args[1] \in 1 .. D
            <4>1. objective.args[1] <= layerEnd[1].decisions
                BY <2>3, <3>2 DEF Ranked
            <4> QED BY <1>5, <1>10, <2>3, <3>2, <4>1
        <3>4. r.model.column[objective.args[1]] = built.column[objective.args[1]]
            BY <1>6, <3>3
        <3>5. \A i \in 1 .. Len(objective.args) :
                  r.model.column[objective.args[i]] = built.column[objective.args[i]]
            <4>1. Len(objective.args) = 1
                BY <1>10, <2>3
            <4>2. \A i \in 1 .. 1 : i = 1
                OBVIOUS
            <4> QED BY <3>4, <4>1, <4>2
        <3>6. r.backend.lex = backend.lex
            BY <1>6, <2>3
        <3> QED BY <1>2, <2>3, <3>2, <3>5, <3>6 DEF Ranked
    <2> QED BY <1>1, <2>1, <2>2, <2>3
<1>14. OnTop' <=> E = Len(decisions)
    <2>1. Len(layerEnd') = l + 1
        BY <1>2, <1>4
    <2>2. DecisionLayerEnd(l + 1)' = E
        BY <1>2, <1>5 DEF DecisionLayerEnd, model
    <2>3. OnTop' <=> Len(built'.column) = DecisionLayerEnd(l + 1)'
        BY <1>2, <2>1 DEF OnTop, DecisionLayerEnd
    <2> QED BY <1>2, <1>6, <2>2, <2>3
<1>15. OnTop' => /\ \A k \in 1 .. l + 1 : Priced(k, objective)'
                 /\ Ranked(objective)'
    <2>1. \A k \in 1 .. l + 1 : k \in 1 .. l \/ k = l + 1
        BY <1>1
    <2> QED BY <1>11, <1>12, <1>13, <1>14, <2>1
<1>16. level' = Len(layers') => AllPriced'
    <2> SUFFICES ASSUME l + 1 = L PROVE AllPriced'
        BY <1>1, <1>2 DEF model
    <2>1. E = Len(decisions)
        BY <1>1, <1>5 DEF Inv, ModelInv
    <2>2. (Inv /\ pc = "building" /\ OnTop /\ level = Len(layers)
            /\ (\A k \in 1 .. level : Priced(k, objective)) /\ Ranked(objective) => AllPriced)'
        BY AllPricedFrom, PTL
    <2>3. level' = Len(layers') /\ OnTop'
        BY <1>1, <1>2, <1>14, <2>1 DEF model
    <2> QED BY <1>2, <1>3, <1>15, <2>2, <2>3
<1> QED BY <1>2, <1>15, <1>16 DEF CostInv

LEMMA CostNext ==
    ASSUME Inv, CostInv, [Next]_vars
    PROVE  CostInv'
<1>1. CASE CallerActs
    <2>1. pc = "idle" /\ pc' = "idle" /\ UNCHANGED <<built, layerEnd, builtLayers, builtObjective, backend>>
        BY <1>1, CallerStep DEF solver
    <2>2. \A k : Priced(k, builtObjective) => Priced(k, builtObjective)'
        BY <2>1 DEF Priced
    <2>3. Ranked(builtObjective) => Ranked(builtObjective)'
        BY <2>1 DEF Ranked
    <2> QED BY <2>1, <2>2, <2>3 DEF CostInv
<1>2. CASE RunStart
    BY <1>2, CostRunStart
<1>3. CASE BuildLayer
    <2>1. pc = "building" /\ level < Len(layers)
        BY <1>3, BuildLayerCases
    <2>2. CASE \E r : /\ LayerBuilt(r)
                      /\ Extends(r, decisions, Above(level), built, backend,
                                 DecisionLayerEnd(level), level # 0)
        BY <2>1, <2>2, CostLayerBuilt
    <2>3. CASE \E r : AllBuilt(r) /\ Extends(r, decisions, constraints, NoModel, EmptyBackend, 0, FALSE)
        <3>1. PICK r : AllBuilt(r) /\ Extends(r, decisions, constraints, NoModel, EmptyBackend, 0, FALSE)
            BY <2>3
        <3>2. /\ pc' = "building" /\ layerEnd' = <<>> /\ level' = Len(layers')
              /\ UNCHANGED <<model, objective>> /\ built' = r.model /\ backend' = r.backend
            BY <2>1, <3>1 DEF AllBuilt, caller, model
        <3>3. AllPriced'
            <4>1. NoModel.columns = 0 /\ EmptyBackend.lex = <<>>
                BY DEF NoModel, EmptyBackend
            <4>2. \A c \in 1 .. r.model.columns :
                      r.backend.cols[c].cost
                          = (objective.kind = "scalar" /\ r.model.column[objective.args[1]] = c)
                BY <3>1, <4>1 DEF Extends
            <4>3. \A c \in 1 .. r.model.columns :
                      r.backend.cols[c].cost
                          <=> objective.kind = "scalar" /\ c = r.model.column[objective.args[1]]
                BY <4>2, Zenon
            <4>4. r.backend.lex = IF objective.kind # "lex" THEN <<>> ELSE Ranking(r.model.column)
                BY <3>1, <4>1 DEF Extends
            <4>5. objective.kind = "lex" => DOMAIN objective.args = 1 .. Len(objective.args)
                BY DEF Inv, ObjectiveInv, Objectives
            <4>6. r.backend.lex = IF objective.kind = "lex"
                                  THEN [i \in 1 .. Len(objective.args) |-> r.model.column[objective.args[i]]]
                                  ELSE <<>>
                BY <4>4, <4>5 DEF Ranking
            <4> QED BY <3>2, <4>3, <4>6, Zenon DEF AllPriced, ColumnOf
        <3>4. ~OnTop'
            <4>1. Len(layers) \in Nat
                BY DEF Inv, ModelInv
            <4>2. Len(layers) # 0
                BY <2>1, <4>1, LayerContinues
            <4> QED BY <3>2, <4>2 DEF OnTop, model
        <3> QED BY <3>2, <3>3, <3>4 DEF CostInv
    <2>4. CASE RunFails
        <3>1. pc' = "idle" /\ builtLayers' = 0
            BY <2>4 DEF RunFails
        <3> QED BY <3>1 DEF CostInv
    <2> QED BY <1>3, <2>2, <2>3, <2>4, BuildLayerCases
<1>4. CASE StartSolve
    <2>1. /\ pc = "building" /\ level = Len(layers) /\ pc' = "solving" /\ builtObjective' = objective
          /\ UNCHANGED <<model, objective, level, built, backend>>
          /\ \/ Len(layerEnd) = Len(layers) /\ builtLayers' = Len(layers) /\ layerEnd' = layerEnd
             \/ Len(layerEnd) # Len(layers) /\ builtLayers' = 0 /\ layerEnd' = <<>>
        BY <1>4 DEF StartSolve, caller, model
    <2>2. AllPriced'
        BY <2>1 DEF CostInv, AllPriced, ColumnOf
    <2>3. ASSUME builtLayers' # 0
          PROVE  /\ \A k \in 1 .. builtLayers' : Priced(k, objective)'
                 /\ Ranked(objective)'
        <3>1. /\ Len(layerEnd) = Len(layers) /\ builtLayers' = Len(layers) /\ layerEnd' = layerEnd
            BY <2>1, <2>3
        <3>2. OnTop
            BY <2>1, <3>1 DEF OnTop, Inv, ModelInv, StageInv, BuildingInv, Layerwise, Whole
        <3>3. Len(layers) \in Nat
            BY DEF Inv, ModelInv
        <3>4. /\ \A k \in 1 .. level : Priced(k, objective)
              /\ Ranked(objective)
            BY <2>1, <2>3, <3>1, <3>2, <3>3 DEF CostInv
        <3>5. \A k : Priced(k, objective) => Priced(k, objective)'
            BY <2>1, <3>1 DEF Priced
        <3>6. Ranked(objective)'
            BY <2>1, <3>1, <3>4 DEF Ranked
        <3> QED BY <2>1, <3>1, <3>4, <3>5, <3>6
    <2>4. builtLayers' \in Nat
        BY <2>1 DEF Inv, ModelInv
    <2>5. /\ \A k \in 1 .. builtLayers' : Priced(k, objective)'
          /\ builtLayers' > 0 => Ranked(objective)'
        BY <2>3, <2>4
    <2> QED BY <2>1, <2>2, <2>5 DEF CostInv
<1>5. CASE \E outcome \in program.outcomes : EndRun(outcome)
    <2>1. /\ pc = "solving" /\ pc' = "idle"
          /\ UNCHANGED <<objective, built, layerEnd, builtLayers, builtObjective, backend>>
        BY <1>5 DEF EndRun
    <2>2. /\ \A k \in 1 .. builtLayers : Priced(k, objective)
          /\ builtLayers > 0 => Ranked(objective)
          /\ builtObjective = objective
        BY <2>1 DEF CostInv
    <2>3. \A k : Priced(k, objective) => Priced(k, builtObjective)'
        BY <2>1, <2>2 DEF Priced
    <2>4. Ranked(objective) => Ranked(builtObjective)'
        BY <2>1, <2>2 DEF Ranked
    <2> QED BY <2>1, <2>2, <2>3, <2>4 DEF CostInv
<1>6. CASE UNCHANGED vars
    <2>1. /\ \A k : Priced(k, objective) => Priced(k, objective)'
          /\ \A k : Priced(k, builtObjective) => Priced(k, builtObjective)'
        BY <1>6 DEF vars, caller, solver, Priced
    <2>2. /\ Ranked(objective) => Ranked(objective)'
          /\ Ranked(builtObjective) => Ranked(builtObjective)'
        BY <1>6 DEF vars, caller, solver, Ranked
    <2>3. (AllPriced => AllPriced') /\ (OnTop' => OnTop)
        BY <1>6 DEF vars, caller, model, solver, AllPriced, ColumnOf, OnTop, DecisionLayerEnd
    <2> QED BY <1>6, <2>1, <2>2, <2>3 DEF vars, caller, model, solver, CostInv
<1>7. CASE RunStopped
    <2>1. /\ \A k : Priced(k, builtObjective) => Priced(k, builtObjective)'
          /\ Ranked(builtObjective) => Ranked(builtObjective)'
        BY <1>7, StoppedKeeps DEF Priced, Ranked
    <2> QED BY <1>7, <2>1, StoppedKeeps DEF CostInv
<1> QED BY <1>1, <1>2, <1>3, <1>4, <1>5, <1>6, <1>7 DEF Next, CallerActs

LEMMA CostInvariance == Spec /\ SeenStops => []CostInv
<1>1. Init => CostInv
    BY DEF Init, CostInv
<1>2. Inv /\ CostInv /\ [Next]_vars => CostInv'
    BY CostNext
<1> QED BY <1>1, <1>2, Invariance, PTL DEF Spec

\* When the search starts, after any history of layers and objectives, the cost
\* is on the column of the objective's decision and on no other, and a ranking
\* names the columns of the decisions the objective names.
THEOREM ObjectiveCorrect == Spec /\ SeenStops => []ObjectiveAsFromNothing
<1>1. Inv /\ CostInv => ObjectiveAsFromNothing
    <2> SUFFICES ASSUME Inv, CostInv, pc = "solving"
                 PROVE  /\ \A c \in 1 .. Len(backend.cols) :
                              backend.cols[c].cost
                                <=> objective.kind = "scalar" /\ c = ColumnOf(objective.args[1])
                        /\ backend.lex =
                              IF objective.kind = "lex"
                              THEN [i \in 1 .. Len(objective.args) |-> ColumnOf(objective.args[i])]
                              ELSE <<>>
        BY DEF ObjectiveAsFromNothing
    <2>1. AllPriced
        BY DEF CostInv, Inv, StageInv, SolvingInv
    <2>2. Len(backend.cols) = built.columns
        BY DEF Inv, Sized
    <2> QED BY <2>1, <2>2, Zenon DEF AllPriced
<1> QED BY <1>1, Invariance, CostInvariance, PTL

-----------------------------------------------------------------------------
(* Which variable an offered value is of.  The values are of the last run   *)
(* that reported a solution, what is unchanged counts from the last run.   *)
StartInv ==
    answered =>
        /\ \A d \in 1 .. Len(last) : d <= DecisionLayerEnd(unchanged) => last[d] = decisions[d].id
        /\ pc = "solving" => \A d \in DOMAIN start : start[d] \in {decisions[d].id, Advice}

LEMMA StartCallerStep ==
    ASSUME Inv, StartInv, CallerActs
    PROVE  StartInv'
<1>1. /\ pc = "idle" /\ UNCHANGED <<program, answered, pc, solver>>
      /\ unchanged' \in 0 .. Len(layers) /\ unchanged' <= unchanged
      /\ \A k \in 1 .. unchanged' : DecisionLayerEnd(k)' = DecisionLayerEnd(k)
      /\ \A k \in 1 .. unchanged' : \A d \in 1 .. DecisionLayerEnd(k) : decisions'[d] = decisions[d]
    BY CallerStep DEF CallerActs, PushLayer, PopLayer, SetObjective, ClearObjective
<1>2. PICK U \in Nat, V \in Nat : U = unchanged' /\ V = unchanged /\ U <= V /\ V \in 0 .. Len(layers)
    BY <1>1 DEF Inv, ModelInv
<1>4. ASSUME answered, NEW d \in 1 .. Len(last), d <= DecisionLayerEnd(unchanged)'
      PROVE  last[d] = decisions'[d].id
    <2>1. DecisionLayerEnd(unchanged)' = IF U = 0 THEN 0 ELSE DecisionLayerEnd(U)'
        BY <1>2 DEF DecisionLayerEnd
    <2>2. U # 0 /\ d <= DecisionLayerEnd(U)'
        BY <1>4, <2>1
    <2>3. U \in 1 .. unchanged'
        BY <1>2, <2>2
    <2>4. d <= DecisionLayerEnd(U)
        BY <1>1, <2>2, <2>3
    <2>5. DecisionLayerEnd(U) <= DecisionLayerEnd(V) /\ DecisionLayerEnd(U) \in Nat
          /\ DecisionLayerEnd(V) \in Nat
        <3>1. U \in 0 .. Len(layers) /\ V \in 0 .. Len(layers)
            BY <1>1, <1>2
        <3>2. DecisionLayerEnd(U) <= DecisionLayerEnd(V)
            BY <1>2, <3>1 DEF Inv, ModelInv
        <3> QED BY <3>1, <3>2, LayerEnds DEF Inv
    <2>6. d \in 1 .. DecisionLayerEnd(U) /\ d <= DecisionLayerEnd(V)
        BY <2>4, <2>5
    <2>7. decisions'[d] = decisions[d]
        BY <1>1, <2>3, <2>6
    <2>8. last[d] = decisions[d].id
        BY <1>2, <1>4, <2>6 DEF StartInv
    <2> QED BY <2>7, <2>8
<1> QED BY <1>1, <1>4 DEF StartInv, solver

LEMMA StartNext ==
    ASSUME Inv, StartInv, [Next]_vars
    PROVE  StartInv'
<1>1. CASE CallerActs
    BY <1>1, StartCallerStep
<1>2. CASE RunStart
    <2>1. pc' = "building" /\ UNCHANGED <<caller, last>>
        BY <1>2 DEF RunStart
    <2> QED BY <2>1 DEF StartInv, caller, model, DecisionLayerEnd
<1>3. CASE BuildLayer
    <2>1. CASE UNCHANGED <<caller, last>> /\ pc' = "building"
        BY <2>1 DEF StartInv, caller, model, DecisionLayerEnd
    <2>2. CASE answered' = FALSE
        BY <2>2 DEF StartInv
    <2>3. \A r : LayerBuilt(r) \/ AllBuilt(r) => UNCHANGED <<caller, last>> /\ pc' = pc
        BY DEF LayerBuilt, AllBuilt
    <2>4. \A r : BuildFails(r) => answered' = FALSE
        BY DEF BuildFails, RunFails
    <2>5. pc = "building"
        BY <1>3 DEF BuildLayer
    <2> QED BY <1>3, <2>1, <2>2, <2>3, <2>4, <2>5 DEF BuildLayer, BuildFallback
<1>4. CASE StartSolve
    <2>1. pc' = "solving" /\ UNCHANGED <<caller, last>>
        BY <1>4 DEF StartSolve
    <2>2. PICK advised \in program.warmStarts : start' = Offer(advised)
        BY <1>4 DEF StartSolve
    <2> DEFINE carried == 1 .. Min({DecisionLayerEnd(unchanged), Len(last)})
    <2>3. \A d \in carried : d \in 1 .. Len(last) /\ d <= DecisionLayerEnd(unchanged)
        <3>1. Len(last) \in Nat /\ DecisionLayerEnd(unchanged) \in Nat
            BY LayerEnds DEF Inv, ModelInv
        <3>2. PICK w \in Nat : w = Min({DecisionLayerEnd(unchanged), Len(last)})
                               /\ w <= Len(last) /\ w <= DecisionLayerEnd(unchanged)
            BY <3>1, MinOfTwo
        <3> QED BY <3>1, <3>2
    <2> HIDE DEF carried
    <2>4. start' = [d \in carried \cup (advised \cap DOMAIN decisions) |->
                       IF d \in carried THEN last[d] ELSE Advice]
        BY <2>2 DEF Offer, carried
    <2>5. answered => \A d \in DOMAIN start' : start'[d] \in {decisions[d].id, Advice}
        BY <2>3, <2>4 DEF StartInv
    <2> QED BY <2>1, <2>5 DEF StartInv, caller, model, DecisionLayerEnd
<1>5. CASE \E outcome \in program.outcomes : EndRun(outcome)
    <2>1. PICK outcome \in program.outcomes : EndRun(outcome)
        BY <1>5
    <2>2. /\ pc' = "idle" /\ UNCHANGED model /\ answered' = (outcome = "solution")
          /\ last' = IF outcome = "solution" THEN Remember ELSE last
        BY <2>1 DEF EndRun
    <2>3. CASE outcome = "solution"
        <3>1. Len(decisions) \in Nat
            BY DEF Inv, ModelInv
        <3>2. /\ last' = [d \in 1 .. Len(decisions) |-> decisions[d].id]
              /\ Len(last') = Len(decisions)
            BY <2>2, <2>3, <3>1 DEF Remember
        <3>3. \A d \in 1 .. Len(last') : last'[d] = decisions'[d].id
            BY <2>2, <3>2 DEF model
        <3> QED BY <2>2, <3>3 DEF StartInv
    <2>4. CASE outcome # "solution"
        BY <2>2, <2>4 DEF StartInv
    <2> QED BY <2>3, <2>4
<1>6. CASE RunStopped
    BY <1>6 DEF RunStopped, StartInv
<1>7. CASE UNCHANGED vars
    BY <1>7 DEF vars, caller, model, solver, StartInv, DecisionLayerEnd
<1> QED BY <1>1, <1>2, <1>3, <1>4, <1>5, <1>6, <1>7 DEF Next, CallerActs

\* "Decisions below the end of the last unchanged layer are the same variables
\* they were last run": whatever layers are pushed and retracted, after a run that
\* reported a solution each value carried over is of the decision it is offered for.
THEOREM StartCorrect == Spec /\ SeenStops => []StartIsOfSameVariable
<1>1. Init => StartInv
    BY DEF Init, StartInv
<1>2. Inv /\ StartInv /\ [Next]_vars => StartInv'
    BY StartNext
<1>3. StartInv => StartIsOfSameVariable
    BY DEF StartInv, StartIsOfSameVariable
<1> QED BY <1>1, <1>2, <1>3, Invariance, PTL DEF Spec

-----------------------------------------------------------------------------
(* Classes.  The joins among the first high of cons make classes of the    *)
(* decisions up to n, each led by its lowest: what is the same for two     *)
(* decisions of every join is the same for a decision and its leader.      *)
Respects(f, cons, high) ==
    \A i \in 1 .. high : cons[i].kind = "join" => f[cons[i].a] = f[cons[i].b]

Leads(lead, n, cons, high) ==
    /\ \A d \in 1 .. n : lead[d] \in 1 .. d /\ lead[lead[d]] = lead[d]
    /\ Respects(lead, cons, high)
    /\ \A f \in [1 .. n -> Nat] : Respects(f, cons, high) => \A d \in 1 .. n : f[d] = f[lead[d]]

\* The first high of cons name decisions up to n.
Among(cons, high, n) == \A i \in 1 .. high : cons[i].a \in 1 .. n /\ cons[i].b \in 1 .. n

\* There is one way to lead them.
LEMMA LeadsUnique ==
    ASSUME NEW n \in Nat, NEW cons, NEW high \in Nat, Among(cons, high, n),
           NEW x, Leads(x, n, cons, high), NEW y, Leads(y, n, cons, high)
    PROVE  \A d \in 1 .. n : x[d] = y[d]
<1> DEFINE f == [d \in 1 .. n |-> x[d]]
           g == [d \in 1 .. n |-> y[d]]
<1>1. f \in [1 .. n -> Nat] /\ g \in [1 .. n -> Nat]
    BY DEF Leads
<1>2. Respects(f, cons, high) /\ Respects(g, cons, high)
    BY DEF Leads, Respects, Among
<1>3. \A d \in 1 .. n : f[d] = x[d] /\ g[d] = y[d]
    OBVIOUS
<1> HIDE DEF f, g
<1>4. \A d \in 1 .. n : f[d] = f[y[d]] /\ g[d] = g[x[d]]
    BY <1>1, <1>2 DEF Leads
<1>5. \A d \in 1 .. n : x[d] \in 1 .. d /\ y[d] \in 1 .. d /\ x[d] \in 1 .. n /\ y[d] \in 1 .. n
    BY DEF Leads
<1>6. \A d \in 1 .. n : x[d] = x[y[d]] /\ y[d] = y[x[d]]
    BY <1>3, <1>4, <1>5
<1> TAKE d \in 1 .. n
<1>7. x[d] <= y[d]
    <2>1. x[y[d]] \in 1 .. y[d]
        BY <1>5
    <2> QED BY <1>5, <1>6, <2>1
<1>8. y[d] <= x[d]
    <2>1. y[x[d]] \in 1 .. x[d]
        BY <1>5
    <2> QED BY <1>5, <1>6, <2>1
<1> QED BY <1>5, <1>7, <1>8

\* Only the decisions up to n are of interest.
LEMMA LeadsSame ==
    ASSUME NEW n \in Nat, NEW cons, NEW high \in Nat, Among(cons, high, n),
           NEW x, Leads(x, n, cons, high), NEW y, \A d \in 1 .. n : y[d] = x[d]
    PROVE  Leads(y, n, cons, high)
<1>1. \A d \in 1 .. n : x[d] \in 1 .. d /\ x[d] \in 1 .. n /\ x[x[d]] = x[d]
    BY DEF Leads
<1>2. \A d \in 1 .. n : y[d] \in 1 .. d /\ y[y[d]] = y[d]
    BY <1>1
<1>3. Respects(y, cons, high)
    BY DEF Leads, Respects, Among
<1>4. ASSUME NEW f \in [1 .. n -> Nat], Respects(f, cons, high)
      PROVE  \A d \in 1 .. n : f[d] = f[y[d]]
    BY <1>4 DEF Leads
<1> QED BY <1>2, <1>3, <1>4 DEF Leads

\* Nor are other constraints.
LEMMA LeadsOfSame ==
    ASSUME NEW n, NEW cons, NEW other, NEW high \in Nat, NEW x, Leads(x, n, cons, high),
           \A i \in 1 .. high : other[i] = cons[i]
    PROVE  Leads(x, n, other, high)
<1>1. \A f : Respects(f, cons, high) <=> Respects(f, other, high)
    BY DEF Respects
<1> QED BY <1>1 DEF Leads

\* Decisions that are added lead themselves.
LEMMA LeadsGrow ==
    ASSUME NEW m \in Nat, NEW n \in Nat, m <= n, NEW cons, NEW high \in Nat, Among(cons, high, m),
           NEW x, Leads(x, m, cons, high),
           NEW y, \A d \in 1 .. n : y[d] = IF d <= m THEN x[d] ELSE d
    PROVE  Leads(y, n, cons, high)
<1>1. \A d \in 1 .. m : d \in 1 .. n /\ x[d] \in 1 .. d /\ x[d] \in 1 .. m /\ x[x[d]] = x[d]
    BY DEF Leads
<1>2. \A d \in 1 .. m : y[d] = x[d]
    BY <1>1
<1>3. \A d \in 1 .. n : y[d] \in 1 .. d /\ y[y[d]] = y[d]
    <2> TAKE d \in 1 .. n
    <2>1. CASE d <= m
        BY <1>1, <1>2, <2>1
    <2>2. CASE ~ (d <= m)
        BY <2>2
    <2> QED BY <2>1, <2>2
<1>4. Respects(y, cons, high)
    BY <1>2 DEF Leads, Respects, Among
<1>5. ASSUME NEW f \in [1 .. n -> Nat], Respects(f, cons, high)
      PROVE  \A d \in 1 .. n : f[d] = f[y[d]]
    <2> DEFINE g == [d \in 1 .. m |-> f[d]]
    <2>1. g \in [1 .. m -> Nat] /\ \A d \in 1 .. m : g[d] = f[d]
        OBVIOUS
    <2> HIDE DEF g
    <2>2. Respects(g, cons, high)
        BY <1>5, <2>1 DEF Respects, Among
    <2>3. \A d \in 1 .. m : g[d] = g[x[d]]
        BY <2>1, <2>2 DEF Leads
    <2> TAKE d \in 1 .. n
    <2>4. CASE d <= m
        <3>1. d \in 1 .. m /\ x[d] \in 1 .. m
            BY <1>1, <2>4
        <3> QED BY <1>2, <2>1, <2>3, <3>1
    <2>5. CASE ~ (d <= m)
        BY <2>5
    <2> QED BY <2>4, <2>5
<1> QED BY <1>3, <1>4, <1>5 DEF Leads

\* A join merges its two classes.
LEMMA MergeLeads ==
    ASSUME NEW n \in Nat, NEW x \in Leaders(n), NEW cons, NEW high \in Nat,
           Leads(x, n, cons, high), Among(cons, high + 1, n), cons[high + 1].kind = "join",
           NEW y, y = Merge(x, cons[high + 1].a, cons[high + 1].b)
    PROVE  Leads(y, n, cons, high + 1)
<1> DEFINE a == cons[high + 1].a
           b == cons[high + 1].b
           both == {x[a], x[b]}
<1>1. a \in 1 .. n /\ b \in 1 .. n /\ Among(cons, high, n)
    BY DEF Among
<1>2. x \in [1 .. n -> 1 .. n] /\ \A d \in 1 .. n : x[d] \in 1 .. n /\ x[d] <= d /\ x[x[d]] = x[d]
    BY DEF Leads, Leaders
<1>3. PICK z \in 1 .. n : z = Min(both) /\ z \in both /\ z <= x[a] /\ z <= x[b]
    <2>1. x[a] \in 1 .. n /\ x[b] \in 1 .. n
        BY <1>1, <1>2
    <2>2. Min(both) = IF x[a] <= x[b] THEN x[a] ELSE x[b]
        BY <2>1, MinOfTwo
    <2> QED BY <2>1, <2>2
<1>4. \A d \in 1 .. n : y[d] = IF x[d] \in both THEN z ELSE x[d]
    BY <1>2, <1>3 DEF Merge
<1>5. x[z] = z
    BY <1>1, <1>2, <1>3
<1>6. \A d \in 1 .. n : y[d] \in 1 .. d /\ y[y[d]] = y[d]
    <2> TAKE d \in 1 .. n
    <2>1. CASE x[d] \in both
        <3>1. y[d] = z /\ z <= x[d]
            BY <1>3, <1>4, <2>1
        <3>2. y[z] = z
            BY <1>3, <1>4, <1>5
        <3> QED BY <1>2, <3>1, <3>2
    <2>2. CASE x[d] \notin both
        <3>1. y[d] = x[d]
            BY <1>4, <2>2
        <3>2. x[d] \in 1 .. n /\ x[x[d]] = x[d]
            BY <1>2
        <3>3. y[x[d]] = x[d]
            BY <1>4, <2>2, <3>2
        <3> QED BY <1>2, <3>1, <3>3
    <2> QED BY <2>1, <2>2
<1>7. Respects(y, cons, high + 1)
    <2> SUFFICES ASSUME NEW i \in 1 .. high + 1, cons[i].kind = "join"
                 PROVE  y[cons[i].a] = y[cons[i].b]
        BY DEF Respects
    <2>1. CASE i = high + 1
        BY <1>1, <1>4, <2>1
    <2>2. CASE i \in 1 .. high
        <3>1. x[cons[i].a] = x[cons[i].b]
            BY <2>2 DEF Leads, Respects
        <3>2. cons[i].a \in 1 .. n /\ cons[i].b \in 1 .. n
            BY DEF Among
        <3> HIDE DEF both
        <3> QED BY <1>4, <3>1, <3>2
    <2> QED BY <2>1, <2>2
<1>8. ASSUME NEW f \in [1 .. n -> Nat], Respects(f, cons, high + 1)
      PROVE  \A d \in 1 .. n : f[d] = f[y[d]]
    <2>1. Respects(f, cons, high)
        BY <1>8 DEF Respects
    <2>2. \A d \in 1 .. n : f[d] = f[x[d]]
        BY <2>1 DEF Leads
    <2>3. f[a] = f[b]
        BY <1>8 DEF Respects
    <2>4. f[x[a]] = f[z] /\ f[x[b]] = f[z]
        BY <1>1, <1>3, <2>2, <2>3
    <2> TAKE d \in 1 .. n
    <2> QED BY <1>4, <2>2, <2>4
<1> QED BY <1>6, <1>7, <1>8 DEF Leads

LEMMA LeadsMore ==
    ASSUME NEW n, NEW x, NEW cons, NEW high \in Nat,
           Leads(x, n, cons, high), cons[high + 1].kind # "join"
    PROVE  Leads(x, n, cons, high + 1)
<1>1. \A f : Respects(f, cons, high) <=> Respects(f, cons, high + 1)
    BY DEF Respects
<1> QED BY <1>1 DEF Leads
\* The model's own classes.
LEMMA ModelLeaderLeads ==
    ASSUME ModelInv
    PROVE  /\ DOMAIN ModelLeader = 1 .. Len(decisions)
           /\ Leads(ModelLeader, Len(decisions), constraints, Len(constraints))
<1>1. PICK n \in Nat, N \in Nat : n = Len(decisions) /\ N = Len(constraints)
    BY DEF ModelInv
<1>2. Among(constraints, N, n)
    BY <1>1, ConstraintsParts DEF Among
<1> DEFINE S == Leaders(n)
           base == [d \in 1 .. n |-> d]
           Turn(s, i) == IF constraints[i].kind = "join"
                         THEN Merge(s, constraints[i].a, constraints[i].b) ELSE s
           F == [i \in 1 .. N |-> [s \in S |-> Turn(s, i)]]
           after[i \in 0 .. N] == IF i = 0 THEN base ELSE Turn(after[i - 1], i)
<1>3. base \in S
    <2>1. base \in [1 .. n -> 1 .. n] /\ \A d \in 1 .. n : base[d] <= d
        OBVIOUS
    <2> HIDE DEF base
    <2> QED BY <2>1 DEF Leaders
<1>4. \A i \in 1 .. N, s \in S : Turn(s, i) \in S
    BY <1>2, MergeType DEF Among
<1>5. ModelLeader = after[N]
    BY <1>1 DEF ModelLeader, Repeat
<1>6. Leads(base, n, constraints, 0)
    BY DEF Leads, Respects
<1> HIDE DEF S, base, Turn
<1>7. F \in [1 .. N -> [S -> S]]
    BY <1>4
<1>8. PICK h : h \in [0 .. N -> S] /\ h[0] = base /\ \A i \in 1 .. N : h[i] = F[i][h[i - 1]]
    <2> HIDE DEF F
    <2>1. \E h : IsLoop(h, S, base, N, F)
        BY <1>3, <1>7, LoopExists, Zenon
    <2> QED BY <2>1 DEF IsLoop
<1>9. \A i \in 1 .. N : h[i - 1] \in S /\ h[i] = Turn(h[i - 1], i)
    <2> TAKE i \in 1 .. N
    <2>1. h[i - 1] \in S
        BY <1>8
    <2> QED BY <1>8, <2>1
<1>10. h = [i \in 0 .. N |-> IF i = 0 THEN base ELSE Turn(h[i - 1], i)]
    BY <1>8, <1>9
<1>11. after = [i \in 0 .. N |-> IF i = 0 THEN base ELSE Turn(after[i - 1], i)]
    BY <1>10
<1> HIDE DEF after, F
<1>12. after[N] = h[N]
    <2>1. after[0] = h[0]
        BY <1>8, <1>11
    <2>2. \A i \in 1 .. N : after[i - 1] = h[i - 1] => after[i] = h[i]
        BY <1>9, <1>11
    <2>3. \A i \in 0 .. N : after[i] = h[i]
        BY <2>1, <2>2, LoopUnique, ZenonT(60)
    <2> QED BY <2>3
<1> DEFINE A == {i \in 0 .. N : Leads(h[i], n, constraints, i)}
<1>13. 0 \in A
    BY <1>6, <1>8
<1>14. \A i \in 0 .. N - 1 : i \in A => i + 1 \in A
    <2> SUFFICES ASSUME NEW i \in 0 .. N - 1, i \in A PROVE i + 1 \in A
        OBVIOUS
    <2>1. i + 1 \in 1 .. N /\ (i + 1) - 1 = i /\ i \in Nat
        OBVIOUS
    <2>2. h[i] \in Leaders(n) /\ h[i + 1] = Turn(h[i], i + 1) /\ Leads(h[i], n, constraints, i)
        BY <1>9, <2>1 DEF S
    <2>3. Among(constraints, i + 1, n)
        BY <1>2, <2>1 DEF Among
    <2>4. Leads(h[i + 1], n, constraints, i + 1)
        <3>1. CASE constraints[i + 1].kind = "join"
            <4>1. h[i + 1] = Merge(h[i], constraints[i + 1].a, constraints[i + 1].b)
                BY <2>2, <3>1 DEF Turn
            <4> QED BY <2>1, <2>2, <2>3, <3>1, <4>1, MergeLeads
        <3>2. CASE constraints[i + 1].kind # "join"
            <4>1. h[i + 1] = h[i]
                BY <2>2, <3>2 DEF Turn
            <4> QED BY <2>1, <2>2, <3>2, <4>1, LeadsMore
        <3> QED BY <3>1, <3>2
    <2> QED BY <2>1, <2>4
<1> HIDE DEF A
<1>15. \A i \in 0 .. N : i \in A
    BY <1>13, <1>14, RangeInduction, Zenon
<1>16. N \in A
    BY <1>15
<1>17. h[N] \in [1 .. n -> 1 .. n]
    BY <1>8 DEF S, Leaders
<1>18. DOMAIN ModelLeader = 1 .. n
    BY <1>5, <1>12, <1>17
<1> QED BY <1>1, <1>5, <1>12, <1>16, <1>18 DEF A

-----------------------------------------------------------------------------
(* Pass 1.  Unless a class then crosses into the columns of earlier runs,  *)
(* it leads by all constraints so far: the first high of all, which earlier *)
(* builds had, and those of cons above them.                               *)
Mixed(lead, first, n) == \E d \in first + 1 .. n : lead[d] <= first

Fine(lead, was, first, n, all, high) ==
    /\ Leads(lead, n, all, high)
    /\ \A d \in 1 .. first : lead[d] = was[d]
    /\ \A d \in first + 1 .. n : lead[d] > first

LEMMA MergeOnlyLowers ==
    ASSUME NEW n \in Nat, NEW x \in Leaders(n), NEW a \in 1 .. n, NEW b \in 1 .. n,
           NEW first \in 0 .. n
    PROVE  /\ Mixed(x, first, n) => Mixed(Merge(x, a, b), first, n)
           /\ a > first /\ x[b] <= first => Mixed(Merge(x, a, b), first, n)
           /\ b > first /\ x[a] <= first => Mixed(Merge(x, a, b), first, n)
           /\ x[a] = x[b] => \A d \in 1 .. n : Merge(x, a, b)[d] = x[d]
           /\ (\A d \in first + 1 .. n : x[d] > first) /\ x[a] > first /\ x[b] > first
                 => /\ \A d \in 1 .. first : x[d] <= first => Merge(x, a, b)[d] = x[d]
                    /\ \A d \in first + 1 .. n : Merge(x, a, b)[d] > first
<1> DEFINE both == {x[a], x[b]}
           y == Merge(x, a, b)
<1>1. x \in [1 .. n -> 1 .. n] /\ \A d \in 1 .. n : x[d] \in 1 .. n
    BY DEF Leaders
<1>2. PICK z \in 1 .. n : z = Min(both) /\ z \in both /\ z <= x[a] /\ z <= x[b]
    <2>1. x[a] \in 1 .. n /\ x[b] \in 1 .. n
        BY <1>1
    <2>2. Min(both) = IF x[a] <= x[b] THEN x[a] ELSE x[b]
        BY <2>1, MinOfTwo
    <2> QED BY <2>1, <2>2
<1>3. \A d \in 1 .. n : y[d] = IF x[d] \in both THEN z ELSE x[d]
    BY <1>1, <1>2 DEF Merge
<1> HIDE DEF y
<1>10. \A e \in both : e \in 1 .. n /\ z <= e /\ (e = x[a] \/ e = x[b])
    BY <1>1, <1>2
<1>4. \A d \in 1 .. n : y[d] <= x[d]
    <2> TAKE d \in 1 .. n
    <2>1. CASE x[d] \in both
        <3>1. y[d] = z
            BY <1>3, <2>1
        <3> HIDE DEF both
        <3> QED BY <1>10, <2>1, <3>1
    <2>2. CASE x[d] \notin both
        <3>1. y[d] = x[d]
            BY <1>3, <2>2
        <3> QED BY <1>1, <3>1
    <2> QED BY <2>1, <2>2
<1>5. Mixed(x, first, n) => Mixed(y, first, n)
    <2> SUFFICES ASSUME NEW d \in first + 1 .. n, x[d] <= first PROVE y[d] <= first
        BY DEF Mixed
    <2>1. d \in 1 .. n
        OBVIOUS
    <2>2. y[d] \in 1 .. n /\ x[d] \in 1 .. n
        BY <1>1, <1>2, <1>3, <2>1
    <2> QED BY <1>4, <2>1, <2>2
<1>6. a > first /\ x[b] <= first => Mixed(y, first, n)
    <2> SUFFICES ASSUME a > first, x[b] <= first PROVE Mixed(y, first, n)
        OBVIOUS
    <2>1. y[a] = z /\ a \in first + 1 .. n
        BY <1>3
    <2>2. z <= first
        BY <1>1, <1>2
    <2> QED BY <2>1, <2>2 DEF Mixed
<1>7. b > first /\ x[a] <= first => Mixed(y, first, n)
    <2> SUFFICES ASSUME b > first, x[a] <= first PROVE Mixed(y, first, n)
        OBVIOUS
    <2>1. y[b] = z /\ b \in first + 1 .. n
        BY <1>3
    <2>2. z <= first
        BY <1>1, <1>2
    <2> QED BY <2>1, <2>2 DEF Mixed
<1>8. x[a] = x[b] => \A d \in 1 .. n : y[d] = x[d]
    BY <1>2, <1>3
<1>9. ASSUME \A d \in first + 1 .. n : x[d] > first, x[a] > first, x[b] > first
      PROVE  /\ \A d \in 1 .. first : x[d] <= first => y[d] = x[d]
             /\ \A d \in first + 1 .. n : y[d] > first
    <2>1. z > first
        BY <1>2, <1>9
    <2>2. ASSUME NEW d \in 1 .. first, x[d] <= first PROVE y[d] = x[d]
        <3>1. d \in 1 .. n
            OBVIOUS
        <3>2. x[d] \notin both
            <4>1. x[d] \in both => x[d] > first
                BY <1>9, <1>10
            <4> QED BY <1>1, <2>2, <3>1, <4>1
        <3> QED BY <1>3, <3>1, <3>2
    <2>3. ASSUME NEW d \in first + 1 .. n PROVE y[d] > first
        <3>1. d \in 1 .. n
            OBVIOUS
        <3> QED BY <1>3, <1>9, <2>1, <3>1
    <2> QED BY <2>2, <2>3
<1> QED BY <1>5, <1>6, <1>7, <1>8, <1>9 DEF y

\* One constraint of pass 1.
LEMMA JoinFine ==
    ASSUME NEW n \in Nat, NEW s \in Classes(n), NEW first \in 0 .. n,
           NEW all, NEW high \in Nat, Among(all, high + 1, n),
           NEW was, \A d \in 1 .. first : was[d] \in 1 .. first,
           NEW column, \A d \in 1 .. n : column[d] # 0 <=> d <= first,
           NEW extending \in BOOLEAN, ~extending => first = 0,
           s.rebuild \/ Mixed(s.leader, first, n) \/ Fine(s.leader, was, first, n, all, high),
           NEW t, t = Join(s, all[high + 1], column, extending)
    PROVE  t.rebuild \/ Mixed(t.leader, first, n) \/ Fine(t.leader, was, first, n, all, high + 1)
<1> DEFINE c == all[high + 1]
           x == s.leader
           y == Merge(x, c.a, c.b)
<1>1. /\ c.a \in 1 .. n /\ c.b \in 1 .. n /\ x \in Leaders(n) /\ s.rebuild \in BOOLEAN
      /\ Among(all, high, n)
    BY DEF Among, Classes
<1>2. x \in [1 .. n -> 1 .. n]
    BY <1>1 DEF Leaders
<1>3. CASE s.rebuild
    BY <1>3 DEF Join
<1>4. CASE ~s.rebuild /\ c.kind # "join"
    <2>1. t = s
        BY <1>4 DEF Join
    <2>2. Leads(x, n, all, high) => Leads(x, n, all, high + 1)
        BY <1>4, LeadsMore
    <2> QED BY <1>4, <2>1, <2>2 DEF Fine
<1>5. CASE ~s.rebuild /\ c.kind = "join"
    <2>1. CASE extending /\ column[x[c.a]] # 0 /\ column[x[c.b]] # 0 /\ x[c.a] # x[c.b]
        <3>1. t = [s EXCEPT !.rebuild = TRUE]
            BY <1>5, <2>1 DEF Join
        <3> QED BY <3>1 DEF Classes
    <2>2. CASE ~ (extending /\ column[x[c.a]] # 0 /\ column[x[c.b]] # 0 /\ x[c.a] # x[c.b])
        <3>1. t.leader = y
            <4>1. t = [s EXCEPT !.leader = y]
                BY <1>5, <2>2 DEF Join
            <4> HIDE DEF y
            <4> QED BY <4>1 DEF Classes
        <3>2. CASE Mixed(x, first, n)
            BY <1>1, <3>1, <3>2, MergeOnlyLowers
        <3>3. CASE Fine(x, was, first, n, all, high)
            <4>1. Leads(y, n, all, high + 1)
                <5>1. Leads(x, n, all, high)
                    BY <3>3 DEF Fine
                <5> QED BY <1>1, <1>5, <5>1, MergeLeads
            <4>2. /\ \A d \in 1 .. first : x[d] = was[d] /\ x[d] <= first
                  /\ \A d \in first + 1 .. n : x[d] > first
                BY <3>3 DEF Fine
            <4>3. x[c.a] \in 1 .. n /\ x[c.b] \in 1 .. n
                BY <1>1, <1>2
            <4> HIDE DEF c, x, y
            <4>4. CASE x[c.a] <= first /\ x[c.b] <= first
                <5>1. x[c.a] = x[c.b]
                    <6>1. CASE extending
                        BY <2>2, <4>3, <4>4, <6>1
                    <6>2. CASE ~extending
                        BY <4>3, <4>4, <6>2
                    <6> QED BY <6>1, <6>2
                <5>2. \A d \in 1 .. n : y[d] = x[d]
                    BY <1>1, <5>1, MergeOnlyLowers DEF y
                <5>3. \A d \in 1 .. first : d \in 1 .. n
                    OBVIOUS
                <5>4. \A d \in first + 1 .. n : d \in 1 .. n
                    OBVIOUS
                <5> QED BY <3>1, <4>1, <4>2, <5>2, <5>3, <5>4 DEF Fine
            <4>5. CASE x[c.a] <= first /\ x[c.b] > first
                <5>1. c.b > first
                    <6>1. c.b \in 1 .. first => x[c.b] <= first
                        BY <4>2
                    <6> QED BY <1>1, <4>3, <4>5, <6>1
                <5> QED BY <1>1, <3>1, <4>5, <5>1, MergeOnlyLowers DEF y
            <4>6. CASE x[c.a] > first /\ x[c.b] <= first
                <5>1. c.a > first
                    <6>1. c.a \in 1 .. first => x[c.a] <= first
                        BY <4>2
                    <6> QED BY <1>1, <4>3, <4>6, <6>1
                <5> QED BY <1>1, <3>1, <4>6, <5>1, MergeOnlyLowers DEF y
            <4>7. CASE x[c.a] > first /\ x[c.b] > first
                <5>1. /\ \A d \in 1 .. first : x[d] <= first => y[d] = x[d]
                      /\ \A d \in first + 1 .. n : y[d] > first
                    BY <1>1, <4>2, <4>7, MergeOnlyLowers DEF y
                <5> QED BY <3>1, <4>1, <4>2, <5>1 DEF Fine
            <4> QED BY <4>3, <4>4, <4>5, <4>6, <4>7
        <3> QED BY <1>5, <3>2, <3>3
    <2> QED BY <2>1, <2>2
<1> QED BY <1>1, <1>3, <1>4, <1>5
\* Pass 1 as a whole.
LEMMA PassOneFine ==
    ASSUME NEW n \in Nat, NEW cons \in Seq(Constraint), NEW all, NEW high \in Nat,
           \A i \in 1 .. Len(cons) : all[high + i] = cons[i],
           NEW first \in 0 .. n, Among(all, high, first), Among(all, high + Len(cons), n),
           NEW m, Len(m.column) = first, Leads(m.leader, first, all, high),
           \A d \in 1 .. first : m.column[d] # 0,
           NEW extending \in BOOLEAN, ~extending => first = 0,
           NEW p, p = PassOne(n, cons, m, first, extending)
    PROVE  /\ p \in Classes(n)
           /\ \/ p.rebuild \/ Mixed(p.leader, first, n)
              \/ Fine(p.leader, m.leader, first, n, all, high + Len(cons))
<1> DEFINE N == Len(cons)
           column == OldColumns(n, m, extending)
           was == m.leader
           Holds(s, i) == \/ s.rebuild \/ Mixed(s.leader, first, n)
                          \/ Fine(s.leader, was, first, n, all, high + i)
<1>1. N \in Nat
    OBVIOUS
<1>2. \A i \in 1 .. N : cons[i].a \in 1 .. n /\ cons[i].b \in 1 .. n
    <2> TAKE i \in 1 .. N
    <2>1. high + i \in 1 .. high + Len(cons) /\ all[high + i] = cons[i]
        OBVIOUS
    <2> QED BY <2>1 DEF Among
<1>3. \A d \in 1 .. first : was[d] \in 1 .. d /\ was[d] \in 1 .. first
    BY DEF Leads
<1>4. \E h : Joins(h, n, cons, m, first, extending)
    <2>1. \A d \in 1 .. n : extending /\ d <= first => m.leader[d] \in 1 .. d
        BY <1>3
    <2> HIDE DEF N, was
    <2>2. \A i \in 1 .. Len(cons) : cons[i].a \in 1 .. n /\ cons[i].b \in 1 .. n
        BY <1>2 DEF N
    <2> QED BY <2>1, <2>2, PassOneTurns, Zenon
<1>5. PICK h \in [0 .. N -> Classes(n)] :
          /\ h[0] = [leader |-> [d \in 1 .. n |-> IF extending /\ d <= first THEN m.leader[d] ELSE d],
                     rebuild |-> FALSE]
          /\ \A i \in 1 .. N : h[i] = Join(h[i - 1], cons[i], column, extending)
          /\ p = h[N]
    BY <1>4 DEF Joins
<1>6. \A d \in 1 .. n : column[d] # 0 <=> d <= first
    BY DEF OldColumns
<1> HIDE DEF N, column, was
<1> DEFINE A == {i \in 0 .. N : Holds(h[i], i)}
<1>7. 0 \in A
    <2>1. h[0].leader = [d \in 1 .. n |-> IF extending /\ d <= first THEN m.leader[d] ELSE d]
        BY <1>5
    <2>2. \A d \in 1 .. n : h[0].leader[d] = IF d <= first THEN m.leader[d] ELSE d
        BY <2>1
    <2>3. \A d \in 1 .. first : h[0].leader[d] = m.leader[d]
        BY <2>2
    <2>4. \A d \in first + 1 .. n : h[0].leader[d] > first
        BY <2>2
    <2> DEFINE k == h[0].leader
    <2> HIDE DEF k
    <2>5. Leads(k, n, all, high)
        <3>1. first \in Nat /\ first <= n
            OBVIOUS
        <3>2. \A d \in 1 .. n : k[d] = IF d <= first THEN m.leader[d] ELSE d
            BY <2>2 DEF k
        <3> QED BY <3>1, <3>2, LeadsGrow
    <2>6. Fine(h[0].leader, was, first, n, all, high + 0)
        BY <2>3, <2>4, <2>5 DEF Fine, k, was
    <2> QED BY <1>1, <2>6
<1>8. \A i \in 0 .. N - 1 : i \in A => i + 1 \in A
    <2> SUFFICES ASSUME NEW i \in 0 .. N - 1, i \in A PROVE i + 1 \in A
        OBVIOUS
    <2>1. /\ i + 1 \in 1 .. N /\ (i + 1) - 1 = i /\ i \in 0 .. N /\ high + i \in Nat
          /\ high + (i + 1) = (high + i) + 1
        BY <1>1
    <2>2. h[i] \in Classes(n) /\ h[i + 1] = Join(h[i], all[(high + i) + 1], column, extending)
        <3>1. all[high + (i + 1)] = cons[i + 1]
            BY <2>1 DEF N
        <3> QED BY <1>5, <2>1, <3>1
    <2>3. Among(all, (high + i) + 1, n)
        <3>1. \A j \in 1 .. (high + i) + 1 : j \in 1 .. high + Len(cons)
            BY <1>1, <2>1 DEF N
        <3> QED BY <3>1 DEF Among
    <2>4. Holds(h[i], i)
        OBVIOUS
    <2> DEFINE s == h[i]
               t == h[i + 1]
               j == high + i
    <2>5. s.rebuild \/ Mixed(s.leader, first, n) \/ Fine(s.leader, was, first, n, all, j)
        BY <2>4
    <2>6. s \in Classes(n) /\ t = Join(s, all[j + 1], column, extending) /\ j \in Nat /\ Among(all, j + 1, n)
        BY <2>1, <2>2, <2>3
    <2>7. \A d \in 1 .. first : was[d] \in 1 .. first
        BY <1>3
    <2> HIDE DEF s, t, j, A
    <2>8. t.rebuild \/ Mixed(t.leader, first, n) \/ Fine(t.leader, was, first, n, all, j + 1)
        BY <1>6, <2>5, <2>6, <2>7, JoinFine
    <2>9. Holds(h[i + 1], i + 1)
        BY <2>1, <2>8 DEF t, j
    <2> QED BY <2>1, <2>9 DEF A
<1> HIDE DEF A
<1>9. \A i \in 0 .. N : i \in A
    BY <1>1, <1>7, <1>8, RangeInduction, Zenon
<1>10. N \in A
    BY <1>1, <1>9
<1>11. Holds(h[N], N)
    BY <1>10 DEF A
<1> QED BY <1>1, <1>5, <1>11 DEF was, N

-----------------------------------------------------------------------------
(* The column loop.  After decision i, two decisions above first share a   *)
(* column exactly when they share a leader, and the intervals of a column  *)
(* are what all of its decisions allow.                                    *)
Meet(lead, ds, first, i, d) ==
    {v \in Values : \A e \in first + 1 .. i : lead[e] = lead[d] => v \in ds[e].domain}

Settled(s, lead, ds, first, i, n, base) ==
    /\ Len(s.intervals) = base + Len(s.bounds)
    /\ \A d \in first + 1 .. i :
          /\ s.column[d] \in base + 1 .. base + Len(s.bounds)
          /\ s.intervals[s.column[d]] = Meet(lead, ds, first, i, d)
          /\ s.bounds[s.column[d] - base] = Hull(Meet(lead, ds, first, i, d))
    /\ \A d, e \in first + 1 .. i : s.column[d] = s.column[e] <=> lead[d] = lead[e]
    /\ \A d \in i + 1 .. n : s.column[d] = 0

\* Classes of decisions up to n, with none across first.
Parted(lead, first, n) ==
    /\ \A d \in 1 .. n : lead[d] \in 1 .. d /\ lead[lead[d]] = lead[d]
    /\ \A d \in first + 1 .. n : lead[d] > first

LEMMA MeetOther ==
    ASSUME NEW lead, NEW ds, NEW first \in Nat, NEW i \in Nat, i >= first + 1, NEW d,
           lead[i] # lead[d]
    PROVE  Meet(lead, ds, first, i, d) = Meet(lead, ds, first, i - 1, d)
<1>1. \A e \in first + 1 .. i : e \in first + 1 .. i - 1 \/ e = i
    OBVIOUS
<1>2. \A e \in first + 1 .. i - 1 : e \in first + 1 .. i
    OBVIOUS
<1> QED BY <1>1, <1>2, Zenon DEF Meet

LEMMA MeetOwn ==
    ASSUME NEW lead, NEW ds, NEW first \in Nat, NEW i \in Nat, i >= first + 1,
           NEW d, NEW e, lead[d] = lead[i], lead[e] = lead[i]
    PROVE  Meet(lead, ds, first, i, d) = Meet(lead, ds, first, i - 1, e) \cap ds[i].domain
<1>1. \A q \in first + 1 .. i : q \in first + 1 .. i - 1 \/ q = i
    OBVIOUS
<1>2. \A q \in first + 1 .. i - 1 : q \in first + 1 .. i
    OBVIOUS
<1>3. i \in first + 1 .. i
    OBVIOUS
<1>4. ASSUME NEW v \in Values
      PROVE  (\A q \in first + 1 .. i : lead[q] = lead[d] => v \in ds[q].domain)
                <=> (\A q \in first + 1 .. i - 1 : lead[q] = lead[e] => v \in ds[q].domain)
                    /\ v \in ds[i].domain
    BY <1>1, <1>2, <1>3, Zenon
<1> QED BY <1>4, Zenon DEF Meet
LEMMA AppendParts ==
    ASSUME NEW S, NEW q \in Seq(S), NEW e \in S, NEW n \in Nat, Len(q) = n
    PROVE  /\ Len(Append(q, e)) = n + 1 /\ Append(q, e)[n + 1] = e
           /\ \A i \in 1 .. n : Append(q, e)[i] = q[i]
OBVIOUS

LEMMA UpdateParts ==
    ASSUME NEW S, NEW q \in Seq(S), NEW e \in S, NEW n \in Nat, Len(q) = n, NEW c \in 1 .. n
    PROVE  /\ Len([q EXCEPT ![c] = e]) = n /\ [q EXCEPT ![c] = e][c] = e
           /\ \A i \in 1 .. n : i # c => [q EXCEPT ![c] = e][i] = q[i]
OBVIOUS

\* The first decision of a class gets a column.
LEMMA PlaceSettles ==
    ASSUME NEW n \in Nat, NEW s \in Visited(n), NEW first \in 0 .. n, NEW i \in first + 1 .. n,
           NEW ds, ds[i].domain \in Sets, NEW lead, Parted(lead, first, n), NEW base \in Nat,
           Settled(s, lead, ds, first, i - 1, n, base), s.column[lead[i]] = 0,
           NEW t, t = Place(s, i, lead[i], ds[i].domain, base)
    PROVE  Settled(t, lead, ds, first, i, n, base)
<1> DEFINE own == ds[i].domain
<1>0. PICK k \in Nat, c \in Nat : k = Len(s.bounds) /\ c = base + k + 1
    BY DEF Visited
<1>1. /\ s.column \in [1 .. n -> Nat] /\ s.intervals \in Seq(Sets) /\ s.bounds \in Seq(SUBSET Int)
      /\ i \in Nat /\ first \in Nat /\ i \in 1 .. n
    BY DEF Visited
<1>17. /\ Len(s.intervals) = base + k
       /\ \A d \in first + 1 .. i - 1 : s.column[d] \in base + 1 .. base + k
       /\ \A d, e \in first + 1 .. i - 1 : s.column[d] = s.column[e] <=> lead[d] = lead[e]
    BY <1>0 DEF Settled
<1>2. lead[i] = i
    <2>1. lead[i] \in 1 .. i /\ lead[i] > first
        BY <1>1 DEF Parted
    <2>2. lead[i] \in first + 1 .. i - 1 => s.column[lead[i]] # 0
        BY DEF Settled
    <2> QED BY <1>1, <2>1, <2>2
<1>3. \A d \in first + 1 .. i - 1 : lead[d] # i
    <2>1. \A d \in first + 1 .. i - 1 : d \in 1 .. n /\ d < i
        BY <1>1
    <2>2. \A d \in 1 .. n : lead[d] \in 1 .. d
        BY DEF Parted
    <2> TAKE d \in first + 1 .. i - 1
    <2>3. lead[d] \in 1 .. d /\ d < i /\ d \in Int
        BY <2>1, <2>2
    <2> QED BY <2>3
<1>4. /\ t.column = [s.column EXCEPT ![i] = c]
      /\ t.intervals = Append(s.intervals, own)
      /\ t.bounds = Append(s.bounds, Hull(own))
    <2>1. [s.column EXCEPT ![lead[i]] = c, ![i] = c] = [s.column EXCEPT ![i] = c]
        BY <1>1, <1>2
    <2> QED BY <1>0, <2>1 DEF Place, Visited
<1>5. \A d \in 1 .. n : t.column[d] = IF d = i THEN c ELSE s.column[d]
    BY <1>1, <1>4
<1>6. /\ Len(s.intervals) = base + k /\ Len(t.intervals) = c /\ t.intervals[c] = own
      /\ \A q \in 1 .. base + k : t.intervals[q] = s.intervals[q]
    <2>1. base + k \in Nat /\ own \in Sets
        OBVIOUS
    <2> HIDE DEF own
    <2>2. /\ Len(Append(s.intervals, own)) = (base + k) + 1
          /\ Append(s.intervals, own)[(base + k) + 1] = own
          /\ \A q \in 1 .. base + k : Append(s.intervals, own)[q] = s.intervals[q]
        BY <1>1, <1>17, <2>1, AppendParts
    <2> QED BY <1>0, <1>4, <1>17, <2>2, Zenon
<1>7. /\ Len(t.bounds) = k + 1 /\ t.bounds[k + 1] = Hull(own)
      /\ \A q \in 1 .. k : t.bounds[q] = s.bounds[q]
    <2>1. Hull(own) \in SUBSET Int
        BY HullType
    <2> HIDE DEF own
    <2>2. /\ Len(Append(s.bounds, Hull(own))) = k + 1
          /\ Append(s.bounds, Hull(own))[k + 1] = Hull(own)
          /\ \A q \in 1 .. k : Append(s.bounds, Hull(own))[q] = s.bounds[q]
        BY <1>0, <1>1, <2>1, AppendParts
    <2> QED BY <1>4, <2>2, Zenon
<1>8. Meet(lead, ds, first, i, i) = own
    <2>1. own \subseteq Values
        BY DEF Sets
    <2>2. \A e \in first + 1 .. i : lead[e] = lead[i] <=> e = i
        <3>1. \A e \in first + 1 .. i : e \in first + 1 .. i - 1 \/ e = i
            BY <1>1
        <3> QED BY <1>2, <1>3, <3>1
    <2>3. i \in first + 1 .. i
        BY <1>1
    <2> QED BY <2>1, <2>2, <2>3 DEF Meet
<1>9. \A d \in first + 1 .. i - 1 :
          /\ d \in 1 .. n /\ t.column[d] = s.column[d] /\ s.column[d] \in base + 1 .. base + k
          /\ s.column[d] \in 1 .. base + k /\ s.column[d] - base \in 1 .. k /\ s.column[d] # c
    <2> TAKE d \in first + 1 .. i - 1
    <2>1. s.column[d] \in base + 1 .. base + k
        BY <1>17
    <2>2. d \in 1 .. n /\ d # i
        BY <1>1
    <2>3. \A x \in base + 1 .. base + k : x \in 1 .. base + k /\ x - base \in 1 .. k /\ x # c
        BY <1>0
    <2> QED BY <1>5, <2>1, <2>2, <2>3
<1>10. \A d \in first + 1 .. i - 1 : Meet(lead, ds, first, i, d) = Meet(lead, ds, first, i - 1, d)
    <2> TAKE d \in first + 1 .. i - 1
    <2>1. lead[i] # lead[d] /\ i >= first + 1
        BY <1>1, <1>2, <1>3
    <2> QED BY <1>1, <2>1, MeetOther
<1>11. t.column[i] = c
    BY <1>1, <1>5
<1>12. \A d \in first + 1 .. i : d \in first + 1 .. i - 1 \/ d = i
    BY <1>1
<1> HIDE DEF own
<1>13. ASSUME NEW d \in first + 1 .. i
       PROVE  /\ t.column[d] \in base + 1 .. base + Len(t.bounds)
              /\ t.intervals[t.column[d]] = Meet(lead, ds, first, i, d)
              /\ t.bounds[t.column[d] - base] = Hull(Meet(lead, ds, first, i, d))
    <2>1. CASE d = i
        <3>1. c \in base + 1 .. base + (k + 1) /\ c - base = k + 1
            BY <1>0
        <3> QED BY <1>6, <1>7, <1>8, <1>11, <2>1, <3>1
    <2>2. CASE d \in first + 1 .. i - 1
        <3>1. /\ s.intervals[s.column[d]] = Meet(lead, ds, first, i - 1, d)
              /\ s.bounds[s.column[d] - base] = Hull(Meet(lead, ds, first, i - 1, d))
            BY <2>2 DEF Settled
        <3>2. \A q \in base + 1 .. base + k : q \in base + 1 .. base + (k + 1)
            OBVIOUS
        <3>3. /\ t.column[d] = s.column[d] /\ s.column[d] \in base + 1 .. base + k
              /\ s.column[d] \in 1 .. base + k /\ s.column[d] - base \in 1 .. k
            BY <1>9, <2>2
        <3>4. Meet(lead, ds, first, i, d) = Meet(lead, ds, first, i - 1, d)
            BY <1>10, <2>2
        <3>5. t.column[d] \in base + 1 .. base + Len(t.bounds)
            BY <1>7, <3>2, <3>3
        <3>6. t.intervals[t.column[d]] = s.intervals[s.column[d]]
            BY <1>6, <3>3
        <3>7. t.bounds[t.column[d] - base] = s.bounds[s.column[d] - base]
            BY <1>7, <3>3
        <3> QED BY <3>1, <3>4, <3>5, <3>6, <3>7
    <2> QED BY <1>12, <2>1, <2>2
<1>14. ASSUME NEW d \in first + 1 .. i, NEW e \in first + 1 .. i
       PROVE  t.column[d] = t.column[e] <=> lead[d] = lead[e]
    <2>1. CASE d \in first + 1 .. i - 1 /\ e \in first + 1 .. i - 1
        BY <1>9, <1>17, <2>1
    <2>2. CASE d = i /\ e \in first + 1 .. i - 1
        BY <1>2, <1>3, <1>9, <1>11, <2>2
    <2>3. CASE d \in first + 1 .. i - 1 /\ e = i
        BY <1>2, <1>3, <1>9, <1>11, <2>3
    <2>4. CASE d = i /\ e = i
        BY <2>4
    <2> QED BY <1>12, <2>1, <2>2, <2>3, <2>4
<1>15. \A d \in i + 1 .. n : t.column[d] = 0
    <2>1. \A d \in i + 1 .. n : d \in i - 1 + 1 .. n /\ d \in 1 .. n /\ d # i
        BY <1>1
    <2> QED BY <1>5, <2>1 DEF Settled
<1>16. Len(t.intervals) = base + Len(t.bounds)
    BY <1>0, <1>6, <1>7
<1> QED BY <1>13, <1>14, <1>15, <1>16 DEF Settled

\* A further one narrows it.
LEMMA NarrowSettles ==
    ASSUME NEW n \in Nat, NEW s \in Visited(n), NEW first \in 0 .. n, NEW i \in first + 1 .. n,
           NEW ds, ds[i].domain \in Sets, NEW lead, Parted(lead, first, n), NEW base \in Nat,
           NEW stray \in Sets,
           Settled(s, lead, ds, first, i - 1, n, base),
           NEW c, c = s.column[lead[i]], c # 0,
           NEW t, t = Narrow(s, i, c, At(s.intervals, c, stray) \cap ds[i].domain, base)
    PROVE  Settled(t, lead, ds, first, i, n, base)
<1> DEFINE both == At(s.intervals, c, stray) \cap ds[i].domain
<1>0. PICK k \in Nat : k = Len(s.bounds)
    BY DEF Visited
<1>19. PICK root : root = lead[i]
    OBVIOUS
<1>18. /\ Len(s.intervals) = base + k
       /\ \A d \in first + 1 .. i - 1 :
             /\ s.column[d] \in base + 1 .. base + k
             /\ s.intervals[s.column[d]] = Meet(lead, ds, first, i - 1, d)
       /\ \A d, e \in first + 1 .. i - 1 : s.column[d] = s.column[e] <=> lead[d] = lead[e]
    BY <1>0 DEF Settled
<1>1. /\ s.column \in [1 .. n -> Nat] /\ s.intervals \in Seq(Sets) /\ s.bounds \in Seq(SUBSET Int)
      /\ i \in Nat /\ first \in Nat /\ i \in 1 .. n
    BY DEF Visited
<1>2. root \in first + 1 .. i - 1 /\ lead[root] = root
    <2>1. lead[i] \in 1 .. i /\ lead[i] > first /\ lead[lead[i]] = lead[i]
        BY <1>1 DEF Parted
    <2>2. i \in i - 1 + 1 .. n
        BY <1>1
    <2>3. s.column[i] = 0
        BY <2>2 DEF Settled
    <2> QED BY <1>1, <1>19, <2>1, <2>3
<1>3. c \in base + 1 .. base + k /\ c \in 1 .. base + k /\ c - base \in 1 .. k
      /\ s.intervals[c] = Meet(lead, ds, first, i - 1, root)
    <2>1. c \in base + 1 .. base + k /\ s.intervals[c] = Meet(lead, ds, first, i - 1, root)
        BY <1>2, <1>18, <1>19
    <2>2. \A x \in base + 1 .. base + k : x \in 1 .. base + k /\ x - base \in 1 .. k
        OBVIOUS
    <2> QED BY <2>1, <2>2
<1>4. both = Meet(lead, ds, first, i - 1, root) \cap ds[i].domain /\ both \in Sets
    <2>1. At(s.intervals, c, stray) = s.intervals[c]
        BY <1>3, <1>18 DEF At
    <2>2. s.intervals[c] \in Sets
        <3>1. c \in 1 .. Len(s.intervals)
            BY <1>3, <1>18
        <3> QED BY <1>1, <3>1
    <2> QED BY <1>3, <2>1, <2>2, MeetIsSet
<1> HIDE DEF both
<1>5. /\ t.column = [s.column EXCEPT ![i] = c]
      /\ t.intervals = [s.intervals EXCEPT ![c] = both]
      /\ t.bounds = [s.bounds EXCEPT ![c - base] = Hull(both)]
    <2>1. c <= Len(s.intervals)
        BY <1>3, <1>18
    <2>2. t = Narrow(s, i, c, both, base)
        BY DEF both
    <2> QED BY <2>1, <2>2 DEF Narrow, Visited
<1>6. \A d \in 1 .. n : t.column[d] = IF d = i THEN c ELSE s.column[d]
    BY <1>1, <1>5
<1>7. /\ Len(s.intervals) = base + k /\ Len(t.intervals) = base + k
      /\ t.intervals[c] = both
      /\ \A q \in 1 .. base + k : q # c => t.intervals[q] = s.intervals[q]
    <2>1. base + k \in Nat
        OBVIOUS
    <2>2. /\ Len([s.intervals EXCEPT ![c] = both]) = base + k
          /\ [s.intervals EXCEPT ![c] = both][c] = both
          /\ \A q \in 1 .. base + k : q # c => [s.intervals EXCEPT ![c] = both][q] = s.intervals[q]
        <3>1. PICK w \in Nat : w = base + k /\ Len(s.intervals) = w /\ c \in 1 .. w
            BY <1>3, <1>18, <2>1
        <3>2. /\ Len([s.intervals EXCEPT ![c] = both]) = w
              /\ [s.intervals EXCEPT ![c] = both][c] = both
              /\ \A q \in 1 .. w : q # c => [s.intervals EXCEPT ![c] = both][q] = s.intervals[q]
            BY <1>1, <1>4, <3>1, UpdateParts
        <3> QED BY <3>1, <3>2
    <2> QED BY <1>5, <1>18, <2>2, Zenon
<1>8. /\ Len(t.bounds) = k /\ t.bounds[c - base] = Hull(both)
      /\ \A q \in 1 .. k : q # c - base => t.bounds[q] = s.bounds[q]
    <2>1. Hull(both) \in SUBSET Int
        BY HullType
    <2>2. PICK x \in 1 .. k : x = c - base
        BY <1>3
    <2>3. /\ Len([s.bounds EXCEPT ![x] = Hull(both)]) = k
          /\ [s.bounds EXCEPT ![x] = Hull(both)][x] = Hull(both)
          /\ \A q \in 1 .. k : q # x => [s.bounds EXCEPT ![x] = Hull(both)][q] = s.bounds[q]
        BY <1>0, <1>1, <2>1, UpdateParts
    <2> QED BY <1>5, <2>2, <2>3, Zenon
<1>9. \A d \in first + 1 .. i - 1 :
          /\ d \in 1 .. n /\ t.column[d] = s.column[d]
          /\ s.column[d] \in base + 1 .. base + k /\ s.column[d] \in 1 .. base + k
          /\ s.column[d] - base \in 1 .. k
          /\ s.column[d] = c <=> lead[d] = root
    <2> TAKE d \in first + 1 .. i - 1
    <2>1. s.column[d] \in base + 1 .. base + k
        BY <1>18
    <2>2. d \in 1 .. n /\ d # i
        BY <1>1
    <2>3. s.column[d] = c <=> lead[d] = root
        BY <1>2, <1>18, <1>19
    <2>4. \A x \in base + 1 .. base + k : x \in 1 .. base + k /\ x - base \in 1 .. k
        OBVIOUS
    <2> QED BY <1>6, <2>1, <2>2, <2>3, <2>4
<1>10. t.column[i] = c
    BY <1>1, <1>6
<1>11. \A d \in first + 1 .. i : d \in first + 1 .. i - 1 \/ d = i
    BY <1>1
<1>12. ASSUME NEW d, lead[d] = root PROVE Meet(lead, ds, first, i, d) = both
    <2>1. i >= first + 1 /\ lead[d] = lead[i] /\ lead[root] = lead[i]
        BY <1>1, <1>2, <1>12, <1>19
    <2>2. Meet(lead, ds, first, i, d) = Meet(lead, ds, first, i - 1, root) \cap ds[i].domain
        BY <1>1, <2>1, MeetOwn
    <2> QED BY <1>4, <2>2
<1>13. ASSUME NEW d, lead[d] # root
       PROVE  Meet(lead, ds, first, i, d) = Meet(lead, ds, first, i - 1, d)
    <2>1. i >= first + 1 /\ lead[i] # lead[d]
        BY <1>1, <1>13, <1>19
    <2> QED BY <1>1, <2>1, MeetOther
<1>14. ASSUME NEW d \in first + 1 .. i
       PROVE  /\ t.column[d] \in base + 1 .. base + Len(t.bounds)
              /\ t.intervals[t.column[d]] = Meet(lead, ds, first, i, d)
              /\ t.bounds[t.column[d] - base] = Hull(Meet(lead, ds, first, i, d))
    <2>1. CASE lead[d] = root
        <3>1. t.column[d] = c
            BY <1>9, <1>10, <1>11, <2>1
        <3>2. Meet(lead, ds, first, i, d) = both
            BY <1>12, <2>1
        <3> QED BY <1>3, <1>7, <1>8, <3>1, <3>2
    <2>2. CASE lead[d] # root
        <3>1. d \in first + 1 .. i - 1
            BY <1>11, <1>19, <2>2
        <3>2. /\ s.intervals[s.column[d]] = Meet(lead, ds, first, i - 1, d)
              /\ s.bounds[s.column[d] - base] = Hull(Meet(lead, ds, first, i - 1, d))
            BY <3>1 DEF Settled
        <3>3. /\ t.column[d] = s.column[d] /\ s.column[d] # c
              /\ s.column[d] \in base + 1 .. base + k /\ s.column[d] \in 1 .. base + k
              /\ s.column[d] - base \in 1 .. k
            BY <1>9, <2>2, <3>1
        <3>4. s.column[d] - base # c - base
            BY <1>3, <3>3
        <3>5. Meet(lead, ds, first, i, d) = Meet(lead, ds, first, i - 1, d)
            BY <1>13, <2>2
        <3> QED BY <1>7, <1>8, <3>2, <3>3, <3>4, <3>5
    <2> QED BY <2>1, <2>2
<1>15. ASSUME NEW d \in first + 1 .. i, NEW e \in first + 1 .. i
       PROVE  t.column[d] = t.column[e] <=> lead[d] = lead[e]
    <2>1. CASE d \in first + 1 .. i - 1 /\ e \in first + 1 .. i - 1
        <3>1. t.column[d] = s.column[d] /\ t.column[e] = s.column[e]
            BY <1>9, <2>1
        <3>2. s.column[d] = s.column[e] <=> lead[d] = lead[e]
            BY <1>18, <2>1
        <3> QED BY <3>1, <3>2
    <2>2. CASE d = i /\ e \in first + 1 .. i - 1
        BY <1>9, <1>10, <1>19, <2>2
    <2>3. CASE d \in first + 1 .. i - 1 /\ e = i
        BY <1>9, <1>10, <1>19, <2>3
    <2>4. CASE d = i /\ e = i
        BY <2>4
    <2> QED BY <1>11, <2>1, <2>2, <2>3, <2>4
<1>16. \A d \in i + 1 .. n : t.column[d] = 0
    <2>1. \A d \in i + 1 .. n : d \in i - 1 + 1 .. n /\ d \in 1 .. n /\ d # i
        BY <1>1
    <2> QED BY <1>6, <2>1 DEF Settled
<1>17. Len(t.intervals) = base + Len(t.bounds)
    BY <1>7, <1>8
<1> QED BY <1>14, <1>15, <1>16, <1>17 DEF Settled
LEMMA VisitSettles ==
    ASSUME NEW n \in Nat, NEW s \in Visited(n), NEW first \in 0 .. n, NEW i \in first + 1 .. n,
           NEW ds, ds[i].domain \in Sets, NEW p, Parted(p.leader, first, n), NEW base \in Nat,
           NEW stray \in Sets,
           s.rebuild \/ Settled(s, p.leader, ds, first, i - 1, n, base),
           NEW t, t = Visit(s, i, ds, p, base, stray)
    PROVE  t.rebuild \/ Settled(t, p.leader, ds, first, i, n, base)
<1> DEFINE c == s.column[p.leader[i]]
<1>1. CASE s.rebuild
    BY <1>1 DEF Visit
<1>2. CASE ~s.rebuild /\ c = 0
    <2>1. t = Place(s, i, p.leader[i], ds[i].domain, base)
        BY <1>2 DEF Visit
    <2> QED BY <1>2, <2>1, PlaceSettles
<1>3. CASE ~s.rebuild /\ c # 0 /\ c <= base
    <2>1. t = [s EXCEPT !.rebuild = TRUE]
        BY <1>3 DEF Visit
    <2> QED BY <2>1 DEF Visited
<1>4. CASE ~s.rebuild /\ c # 0 /\ ~ (c <= base)
    <2>1. t = Narrow(s, i, c, At(s.intervals, c, stray) \cap ds[i].domain, base)
        BY <1>4 DEF Visit
    <2> QED BY <1>4, <2>1, NarrowSettles
<1>5. s.rebuild \in BOOLEAN
    BY DEF Visited
<1> QED BY <1>1, <1>2, <1>3, <1>4, <1>5

\* The loop as a whole, where the entries of intervals_ line up with the columns.
\* What the column loop of one build is given, and that it did not rebuild.
MixesIn(loop, ds, p, column, first, base, old, stray) ==
    /\ ds \in Seq(Decision)
    /\ p \in Classes(Len(ds)) /\ column \in [1 .. Len(ds) -> Nat] /\ first \in 0 .. Len(ds)
    /\ base \in Nat /\ old \in Seq(Sets) /\ stray \in Sets
    /\ \A d \in 1 .. first : column[d] \in 1 .. base
    /\ \A d \in first + 1 .. Len(ds) : column[d] = 0
    /\ loop = ColumnLoop(ds, p, column, first, base, old, stray) /\ ~loop.rebuild

LEMMA LoopSettles ==
    ASSUME NEW loop, NEW ds, NEW p, NEW column, NEW first, NEW base, NEW old, NEW stray,
           MixesIn(loop, ds, p, column, first, base, old, stray),
           Len(old) = base, Parted(p.leader, first, Len(ds))
    PROVE  Settled(loop, p.leader, ds, first, Len(ds), Len(ds), base)
<1> ds \in Seq(Decision)
    BY DEF MixesIn
<1> p \in Classes(Len(ds))
    BY DEF MixesIn
<1> column \in [1 .. Len(ds) -> Nat]
    BY DEF MixesIn
<1> first \in 0 .. Len(ds)
    BY DEF MixesIn
<1> base \in Nat
    BY DEF MixesIn
<1> old \in Seq(Sets)
    BY DEF MixesIn
<1> stray \in Sets
    BY DEF MixesIn
<1> \A d \in first + 1 .. Len(ds) : column[d] = 0
    BY DEF MixesIn
<1> loop = ColumnLoop(ds, p, column, first, base, old, stray) /\ ~loop.rebuild
    BY DEF MixesIn
<1>7. \E h : Visits(h, ds, p, column, first, base, old, stray)
    <2>1. first \in 0 .. Len(ds)
        OBVIOUS
    <2> QED BY <2>1, ColumnLoopTurns, Zenon
<1> DEFINE n == Len(ds)
           N == n - first
<1>1. n \in Nat /\ N \in Nat
    OBVIOUS
<1>2. PICK h \in [0 .. N -> Visited(n)] :
          /\ h[0] = [column |-> column, intervals |-> old, bounds |-> <<>>,
                     rebuild |-> p.rebuild]
          /\ \A i \in 1 .. N : h[i] = Visit(h[i - 1], first + i, ds, p, base, stray)
          /\ loop = h[N]
    BY <1>7 DEF Visits
<1> DEFINE A == {i \in 0 .. N : \/ h[i].rebuild
                                \/ Settled(h[i], p.leader, ds, first, first + i, n, base)}
<1>3. 0 \in A
    <2>1. h[0].column = column /\ h[0].intervals = old /\ h[0].bounds = <<>>
        BY <1>2
    <2>2. \A d : d \notin first + 1 .. first + 0
        OBVIOUS
    <2>3. Len(old) = base + Len(<<>>)
        OBVIOUS
    <2>4. Settled(h[0], p.leader, ds, first, first + 0, n, base)
        BY <2>1, <2>2, <2>3 DEF Settled
    <2> QED BY <1>1, <2>4
<1>4. \A i \in 0 .. N - 1 : i \in A => i + 1 \in A
    <2> SUFFICES ASSUME NEW i \in 0 .. N - 1, i \in A PROVE i + 1 \in A
        OBVIOUS
    <2>1. i + 1 \in 1 .. N /\ (i + 1) - 1 = i /\ first + (i + 1) \in first + 1 .. n
          /\ first + (i + 1) \in 1 .. n /\ (first + (i + 1)) - 1 = first + i
        BY <1>1
    <2>2. h[i] \in Visited(n) /\ h[i + 1] = Visit(h[i], first + (i + 1), ds, p, base, stray)
        BY <1>2, <2>1
    <2>3. ds[first + (i + 1)].domain \in Sets
        <3>1. ds[first + (i + 1)] \in Decision
            BY <2>1
        <3> QED BY <3>1 DEF Decision
    <2>4. h[i].rebuild \/ Settled(h[i], p.leader, ds, first, (first + (i + 1)) - 1, n, base)
        BY <2>1
    <2> HIDE DEF A
    <2>5. n \in Nat /\ first \in 0 .. n /\ Parted(p.leader, first, n)
        BY <1>1
    <2> HIDE DEF n
    <2>6. h[i + 1].rebuild \/ Settled(h[i + 1], p.leader, ds, first, first + (i + 1), n, base)
        BY <2>1, <2>2, <2>3, <2>4, <2>5, VisitSettles
    <2> QED BY <2>1, <2>6 DEF A
<1> HIDE DEF A
<1>5. \A i \in 0 .. N : i \in A
    BY <1>1, <1>3, <1>4, RangeInduction, Zenon
<1>6. N \in A
    BY <1>1, <1>5
<1>8. first + N = n
    BY <1>1
<1> QED BY <1>1, <1>2, <1>6, <1>8 DEF A

\* Where a class crosses into the columns of an earlier run, all is built anew.
LEMMA MixedRebuilds ==
    ASSUME NEW loop, NEW ds, NEW p, NEW column, NEW first, NEW base, NEW old, NEW stray,
           MixesIn(loop, ds, p, column, first, base, old, stray)
    PROVE  ~p.rebuild /\ ~Mixed(p.leader, first, Len(ds))
<1> ds \in Seq(Decision)
    BY DEF MixesIn
<1> p \in Classes(Len(ds))
    BY DEF MixesIn
<1> column \in [1 .. Len(ds) -> Nat]
    BY DEF MixesIn
<1> first \in 0 .. Len(ds)
    BY DEF MixesIn
<1> base \in Nat
    BY DEF MixesIn
<1> old \in Seq(Sets)
    BY DEF MixesIn
<1> stray \in Sets
    BY DEF MixesIn
<1> \A d \in 1 .. first : column[d] \in 1 .. base
    BY DEF MixesIn
<1> \A d \in first + 1 .. Len(ds) : column[d] = 0
    BY DEF MixesIn
<1> loop = ColumnLoop(ds, p, column, first, base, old, stray) /\ ~loop.rebuild
    BY DEF MixesIn
<1>7. \E h : Visits(h, ds, p, column, first, base, old, stray)
    <2>1. first \in 0 .. Len(ds)
        OBVIOUS
    <2> QED BY <2>1, ColumnLoopTurns, Zenon
<1> DEFINE n == Len(ds)
           N == n - first
           Apart(i) == ~p.rebuild /\ \A d \in first + 1 .. first + i : p.leader[d] > first
<1>1. n \in Nat /\ N \in Nat
    OBVIOUS
<1>2. PICK h \in [0 .. N -> Visited(n)] :
          /\ h[0] = [column |-> column, intervals |-> old, bounds |-> <<>>,
                     rebuild |-> p.rebuild]
          /\ \A i \in 1 .. N : h[i] = Visit(h[i - 1], first + i, ds, p, base, stray)
          /\ loop = h[N]
    BY <1>7 DEF Visits
<1> DEFINE A == {i \in 0 .. N :
                    h[i].rebuild \/ (Placed(h[i], n, column, first, i, base) /\ Apart(i))}
<1>3. 0 \in A
    <2>1. h[0].column = column /\ h[0].rebuild = p.rebuild
        BY <1>2
    <2>2. Placed(h[0], n, column, first, 0, base)
        BY <2>1 DEF Placed
    <2>3. \A d : d \notin first + 1 .. first + 0
        OBVIOUS
    <2>4. ~h[0].rebuild => Apart(0)
        BY <2>1, <2>3
    <2>5. h[0].rebuild \/ (Placed(h[0], n, column, first, 0, base) /\ Apart(0))
        BY <2>2, <2>4
    <2> HIDE DEF Apart
    <2> QED BY <1>1, <2>5
<1>4. \A i \in 0 .. N - 1 : i \in A => i + 1 \in A
    <2> SUFFICES ASSUME NEW i \in 0 .. N - 1, i \in A PROVE i + 1 \in A
        OBVIOUS
    <2> DEFINE d == first + (i + 1)
    <2>1. i + 1 \in 1 .. N /\ (i + 1) - 1 = i /\ d \in 1 .. n
        BY <1>1
    <2>9. \A e \in first + 1 .. d : e \in first + 1 .. first + i \/ e = d
        OBVIOUS
    <2>2. h[i] \in Visited(n) /\ h[i + 1] = Visit(h[i], d, ds, p, base, stray)
        BY <1>2, <2>1
    <2>3. ds[d].domain \in Sets
        <3>1. ds[d] \in Decision
            BY <2>1
        <3> QED BY <3>1 DEF Decision
    <2>4. h[i].rebuild \/ (Placed(h[i], n, column, first, (i + 1) - 1, base) /\ Apart(i))
        BY <2>1
    <2> HIDE DEF A, Apart
    <2>5. i + 1 \in 1 .. n - first /\ n \in Nat /\ first \in 0 .. n /\ p \in Classes(n)
        BY <1>1, <2>1
    <2>6. h[i + 1].rebuild \/ Placed(h[i + 1], n, column, first, i + 1, base)
        <3> HIDE DEF n
        <3> QED BY <2>2, <2>3, <2>4, <2>5, VisitPlaces
    <2>7. h[i + 1].rebuild \/ Apart(i + 1)
        <3> SUFFICES ASSUME ~h[i + 1].rebuild PROVE Apart(i + 1)
            OBVIOUS
        <3>1. ~h[i].rebuild
            <4>1. h[i].rebuild => h[i + 1] = h[i]
                BY <2>2 DEF Visit
            <4> QED BY <4>1
        <3>2. p.leader[d] > first
            <4> SUFFICES ASSUME ~ (p.leader[d] > first) PROVE FALSE
                OBVIOUS
            <4>1. p.leader[d] \in 1 .. first
                <5>1. p.leader[d] \in 1 .. n
                    BY <2>1 DEF Classes, Leaders
                <5> QED BY <1>1, <5>1
            <4>2. h[i].column[p.leader[d]] = column[p.leader[d]]
                BY <2>4, <3>1, <4>1 DEF Placed
            <4>3. h[i].column[p.leader[d]] # 0 /\ h[i].column[p.leader[d]] <= base
                BY <4>1, <4>2
            <4>4. h[i + 1] = [h[i] EXCEPT !.rebuild = TRUE]
                BY <2>2, <3>1, <4>3 DEF Visit
            <4> QED BY <2>2, <4>4 DEF Visited
        <3> QED BY <2>4, <2>9, <3>1, <3>2 DEF Apart
    <2>8. i + 1 \in 0 .. N
        BY <2>1
    <2> QED BY <2>6, <2>7, <2>8 DEF A
<1> HIDE DEF A
<1>5. \A i \in 0 .. N : i \in A
    BY <1>1, <1>3, <1>4, RangeInduction, Zenon
<1>6. N \in A
    BY <1>1, <1>5
<1>8. Apart(N)
    BY <1>2, <1>6 DEF A
<1>9. \A d \in first + 1 .. n : d \in first + 1 .. first + N /\ d \in 1 .. n
    BY <1>1
<1>10. \A d \in 1 .. n : p.leader[d] \in Int
    <2>1. p.leader \in [1 .. n -> 1 .. n]
        <3>1. p \in Classes(n)
            OBVIOUS
        <3> QED BY <3>1 DEF Classes, Leaders
    <2> QED BY <2>1
<1> QED BY <1>8, <1>9, <1>10 DEF Mixed

-----------------------------------------------------------------------------
(* What bounds and rows leave of a domain.                                 *)

\* A set of integers with a lower end has a least one.
LEMMA IntMinimum ==
    ASSUME NEW T, T \subseteq Int, T # {}, NEW low \in Int, \A v \in T : low <= v
    PROVE  \E x \in T : \A y \in T : x <= y
<1> DEFINE U == {v - low : v \in T}
<1>1. U \subseteq Nat /\ U # {}
    <2>1. \A v \in T : v - low \in Nat
        OBVIOUS
    <2> QED BY <2>1
<1>2. PICK x \in U : \A y \in U : x <= y
    <2> HIDE DEF U
    <2> QED BY <1>1, NatMinimum
<1>3. PICK z \in T : x = z - low
    OBVIOUS
<1>4. \A y \in T : z - low <= y - low
    BY <1>2, <1>3
<1>5. \A y \in T : z <= y
    BY <1>4
<1> QED BY <1>5

\* A domain of one interval is all that its bounds allow.
LEMMA OneInterval ==
    ASSUME NEW domain \in Sets, ~ (Intervals(domain) > 1)
    PROVE  Hull(domain) = domain
<1>1. domain \subseteq Values /\ domain \subseteq Int /\ IsFiniteSet(Starts(domain))
    BY SetsAreInts DEF Sets
<1>2. PICK low \in Int : \A v \in domain : low <= v
    BY DEF Sets
<1>3. domain \subseteq Hull(domain)
    <2>1. \A v \in domain : v \in Values /\ v <= v
        BY <1>1
    <2> QED BY <2>1 DEF Hull
<1>4. ASSUME NEW v \in Hull(domain) PROVE v \in domain
    <2> SUFFICES ASSUME v \notin domain PROVE FALSE
        OBVIOUS
    <2>1. PICK a \in domain, b \in domain : a <= v /\ v <= b
        BY DEF Hull
    <2>2. v \in Int
        BY ValuesAreInts DEF Hull
    <2> DEFINE above == {w \in domain : w > v}
    <2>3. b \in above /\ above \subseteq Int /\ \A w \in above : low <= w
        <3>1. b # v /\ b \in Int
            BY <1>1
        <3>2. b > v
            BY <2>1, <2>2, <3>1
        <3> QED BY <1>1, <1>2, <3>2
    <2>4. PICK x \in above : \A y \in above : x <= y
        <3> HIDE DEF above
        <3> QED BY <2>3, IntMinimum
    <2>5. PICK y \in domain : \A w \in domain : y <= w
        <3>1. domain # {}
            BY <2>1
        <3> QED BY <1>1, <1>2, <3>1, IntMinimum
    <2>6. x \in Starts(domain)
        <3>1. x - 1 \notin domain
            <4> SUFFICES ASSUME x - 1 \in domain PROVE FALSE
                OBVIOUS
            <4>1. x \in Int /\ x > v /\ x - 1 # v
                BY <1>1
            <4>2. x - 1 > v
                BY <2>2, <4>1
            <4>3. x <= x - 1
                BY <2>4, <4>2
            <4> QED BY <4>1, <4>3
        <3> QED BY <3>1 DEF Starts
    <2>7. y \in Starts(domain)
        <3>1. y \in Int /\ ~ (y <= y - 1)
            BY <1>1
        <3>2. y - 1 \notin domain
            BY <2>5, <3>1
        <3> QED BY <3>2 DEF Starts
    <2>8. x # y
        BY <1>1, <2>1, <2>2, <2>5
    <2>9. {x, y} \subseteq Starts(domain)
        BY <2>6, <2>7
    <2>10. Cardinality({x, y}) <= Cardinality(Starts(domain))
        BY <1>1, <2>9, FS_Subset
    <2>11. Cardinality({x, y}) = 2
        <3>1. IsFiniteSet({x}) /\ Cardinality({x}) = 1
            BY FS_Singleton
        <3>2. y \notin {x}
            BY <2>8
        <3>3. Cardinality({x} \cup {y}) = 2
            <4>1. Cardinality({x} \cup {y}) = IF y \in {x} THEN Cardinality({x}) ELSE Cardinality({x}) + 1
                BY <3>1, FS_AddElement, Zenon
            <4> QED BY <3>1, <3>2, <4>1
        <3>4. {x} \cup {y} = {x, y}
            OBVIOUS
        <3> QED BY <3>3, <3>4
    <2>12. Intervals(domain) = Cardinality(Starts(domain)) /\ Intervals(domain) \in Nat
        BY <2>1, IntervalsType DEF Intervals
    <2> QED BY <2>10, <2>11, <2>12
<1> QED BY <1>3, <1>4

LEMMA HullCovers ==
    ASSUME NEW domain \in Sets
    PROVE  domain \subseteq Hull(domain)
<1>1. \A v \in domain : v \in Values /\ v <= v
    BY SetsAreInts DEF Sets
<1> QED BY <1>1 DEF Hull
\* The rows of holes are those of the columns with more than one interval.
HolesFrom(rows, intervals, base, k, stray) ==
    /\ \A r \in 1 .. Len(rows) :
          \E i \in 1 .. k :
              /\ Intervals(At(intervals, base + i, stray)) > 1
              /\ rows[r] = HoleRows(base + i, At(intervals, base + i, stray))
    /\ \A i \in 1 .. k :
          Intervals(At(intervals, base + i, stray)) > 1 =>
              \E r \in 1 .. Len(rows) : rows[r] = HoleRows(base + i, At(intervals, base + i, stray))

LEMMA EncodeHolesFrom ==
    ASSUME NEW intervals \in Seq(Sets), NEW base \in Nat, NEW k \in Nat, NEW stray \in Sets,
           NEW holes, holes = EncodeHoles(intervals, base, k, stray)
    PROVE  HolesFrom(holes.rows, intervals, base, k, stray)
<1>1. PICK h \in [0 .. k -> Encoded] :
          /\ h[0] = [selectors |-> 0, rows |-> <<>>]
          /\ \A i \in 1 .. k : h[i] = Encode(h[i - 1], base + i, At(intervals, base + i, stray))
          /\ holes = h[k]
    BY EncodeHolesTurns, ZenonT(40)
<1> DEFINE A == {i \in 0 .. k : HolesFrom(h[i].rows, intervals, base, i, stray)}
<1>2. 0 \in A
    <2>1. h[0].rows = <<>>
        BY <1>1
    <2> QED BY <2>1 DEF HolesFrom
<1>3. \A i \in 0 .. k - 1 : i \in A => i + 1 \in A
    <2> SUFFICES ASSUME NEW i \in 0 .. k - 1, i \in A PROVE i + 1 \in A
        OBVIOUS
    <2> DEFINE Dom(j) == At(intervals, base + j, stray)
               Its(j) == HoleRows(base + j, Dom(j))
    <2>1. i + 1 \in 1 .. k /\ (i + 1) - 1 = i /\ i + 1 \in 0 .. k
          /\ \A j \in 1 .. i + 1 : j \in 1 .. i \/ j = i + 1
        OBVIOUS
    <2>10. i + 1 \in 1 .. i + 1 /\ \A j \in 1 .. i : j \in 1 .. i + 1
        OBVIOUS
    <2>2. h[i] \in Encoded /\ h[i + 1] = Encode(h[i], base + (i + 1), Dom(i + 1))
        BY <1>1, <2>1
    <2>3. HolesFrom(h[i].rows, intervals, base, i, stray)
        OBVIOUS
    <2> DEFINE s == h[i]
               t == h[i + 1]
    <2>4. /\ \A r \in 1 .. Len(s.rows) : \E j \in 1 .. i : Intervals(Dom(j)) > 1 /\ s.rows[r] = Its(j)
          /\ \A j \in 1 .. i : Intervals(Dom(j)) > 1 => \E r \in 1 .. Len(s.rows) : s.rows[r] = Its(j)
        BY <2>3 DEF HolesFrom
    <2>5. t = Encode(s, base + (i + 1), Dom(i + 1)) /\ s.rows \in Seq(BackendRow)
        BY <2>2 DEF Encoded
    <2>11. HoleRows(base + (i + 1), Dom(i + 1)) \in BackendRow
        <3>1. Dom(i + 1) \in Sets
            BY DEF At
        <3> HIDE DEF Dom
        <3>2. base + (i + 1) \in Nat
            OBVIOUS
        <3> QED BY <3>1, <3>2, SetsAreInts DEF HoleRows, BackendRow, Ids
    <2> HIDE DEF s, t, A, Dom
    <2>6. CASE ~ (Intervals(Dom(i + 1)) > 1)
        <3>1. t = s
            BY <2>5, <2>6 DEF Encode
        <3>2. HolesFrom(t.rows, intervals, base, i + 1, stray)
            <4>1. /\ \A r \in 1 .. Len(t.rows) :
                        \E j \in 1 .. i + 1 : Intervals(Dom(j)) > 1 /\ t.rows[r] = Its(j)
                  /\ \A j \in 1 .. i + 1 :
                        Intervals(Dom(j)) > 1 => \E r \in 1 .. Len(t.rows) : t.rows[r] = Its(j)
                <5> HIDE DEF Its
                <5> QED BY <2>1, <2>4, <2>6, <2>10, <3>1, Zenon
            <4> QED BY <4>1 DEF HolesFrom, Dom
        <3> QED BY <2>1, <3>2 DEF A, t
    <2>7. CASE Intervals(Dom(i + 1)) > 1
        <3>1. t.rows = Append(s.rows, Its(i + 1))
            BY <2>5, <2>7 DEF Encode
        <3> HIDE DEF Its
        <3>7. PICK L \in Nat : L = Len(s.rows)
            BY <2>5
        <3>2. L = Len(s.rows) /\ Len(t.rows) = L + 1 /\ t.rows[L + 1] = Its(i + 1)
              /\ \A r \in 1 .. L : t.rows[r] = s.rows[r]
            <4>1. Its(i + 1) \in BackendRow
                BY <2>11 DEF Its
            <4>2. /\ Len(Append(s.rows, Its(i + 1))) = L + 1
                  /\ Append(s.rows, Its(i + 1))[L + 1] = Its(i + 1)
                  /\ \A r \in 1 .. L : Append(s.rows, Its(i + 1))[r] = s.rows[r]
                BY <2>5, <3>7, <4>1, AppendParts
            <4> QED BY <3>1, <3>7, <4>2
        <3>3. /\ \A r \in 1 .. L + 1 : r \in 1 .. L \/ r = L + 1
              /\ \A r \in 1 .. L : r \in 1 .. L + 1
              /\ L + 1 \in 1 .. L + 1
            OBVIOUS
        <3>4. \A r \in 1 .. L + 1 :
                  \E j \in 1 .. i + 1 : Intervals(Dom(j)) > 1 /\ t.rows[r] = Its(j)
            <4> SUFFICES ASSUME NEW r \in 1 .. L + 1
                         PROVE  \E j \in 1 .. i + 1 : Intervals(Dom(j)) > 1 /\ t.rows[r] = Its(j)
                OBVIOUS
            <4>1. CASE r = L + 1
                BY <2>7, <2>10, <3>2, <4>1, Zenon
            <4>2. CASE r \in 1 .. L
                BY <2>4, <2>10, <3>2, <4>2, Zenon
            <4> QED BY <3>3, <4>1, <4>2
        <3>5. \A j \in 1 .. i + 1 :
                  Intervals(Dom(j)) > 1 => \E r \in 1 .. L + 1 : t.rows[r] = Its(j)
            <4> SUFFICES ASSUME NEW j \in 1 .. i + 1, Intervals(Dom(j)) > 1
                         PROVE  \E r \in 1 .. L + 1 : t.rows[r] = Its(j)
                OBVIOUS
            <4>1. CASE j = i + 1
                BY <3>2, <3>3, <4>1, Zenon
            <4>2. CASE j \in 1 .. i
                BY <2>4, <3>2, <3>3, <4>2, Zenon
            <4> QED BY <2>1, <4>1, <4>2
        <3>6. HolesFrom(t.rows, intervals, base, i + 1, stray)
            BY <3>2, <3>4, <3>5 DEF HolesFrom, Dom, Its
        <3> QED BY <2>1, <3>6 DEF A, t
    <2> QED BY <2>6, <2>7
<1> HIDE DEF A
<1>4. \A i \in 0 .. k : i \in A
    BY <1>2, <1>3, RangeInduction, Zenon
<1>5. k \in A
    BY <1>4
<1> QED BY <1>1, <1>5 DEF A

-----------------------------------------------------------------------------
(* The columns a build makes.                                              *)

\* What the first rows of b and the bounds leave of column c, and what the
\* domains of the first n decisions leave of d's class.
AdmittedBy(b, rows, c) ==
    {v \in b.cols[c].bounds :
        \A r \in 1 .. rows : IsHole(b.rows[r]) /\ c \in b.rows[r].cols => v \in b.rows[r].domain}

AllowedBy(lead, n, ds, d) ==
    {v \in Values : \A e \in 1 .. n : lead[e] = lead[d] => v \in ds[e].domain}

\* Decisions share a column exactly when they share a leader.
Classed(m) ==
    \A d, e \in 1 .. Len(m.column) : m.column[d] = m.column[e] <=> m.leader[d] = m.leader[e]

\* The classes, and that the new ones lie above the old.
Founded(ds, cons, m, b, first, extending, all, high) ==
    /\ ds \in Seq(Decision) /\ cons \in Seq(Constraint) /\ high \in Nat
    /\ \A i \in 1 .. Len(cons) : all[high + i] = cons[i]
    /\ Continues(ds, m, b, first, extending)
    /\ Among(all, high, first) /\ Among(all, high + Len(cons), Len(ds))
    /\ Leads(m.leader, first, all, high)
    /\ Classed(m)
    /\ first < Len(ds) => Len(m.intervals) = m.columns

LEMMA MadeLeads ==
    ASSUME NEW ds, NEW cons, NEW all, NEW high, NEW m, NEW b, NEW first, NEW extending,
           Founded(ds, cons, m, b, first, extending, all, high),
           NEW r, NEW p, NEW loop, NEW holes, NEW stray, stray \in Sets,
           MadeBy(r, ds, cons, m, b, first, extending, p, loop, holes, stray)
    PROVE  /\ Fine(p.leader, m.leader, first, Len(ds), all, high + Len(cons))
           /\ MixesIn(loop, ds, p, OldColumns(Len(ds), m, extending), first, m.columns, m.intervals, stray)
<1> ds \in Seq(Decision)
    BY DEF Founded
<1> cons \in Seq(Constraint)
    BY DEF Founded
<1> high \in Nat
    BY DEF Founded
<1> \A i \in 1 .. Len(cons) : all[high + i] = cons[i]
    BY DEF Founded
<1> Continues(ds, m, b, first, extending)
    BY DEF Founded
<1> Among(all, high, first) /\ Among(all, high + Len(cons), Len(ds))
    BY DEF Founded
<1> Leads(m.leader, first, all, high)
    BY DEF Founded
<1> DEFINE n == Len(ds)
           column == OldColumns(n, m, extending)
<1>1. /\ n \in Nat /\ first \in 0 .. n /\ extending \in BOOLEAN /\ Len(m.column) = first
      /\ ~extending => first = 0
      /\ m.columns \in Nat /\ m.intervals \in Seq(Sets) /\ m.column \in Seq(Nat)
      /\ \A d \in 1 .. first : m.column[d] \in 1 .. m.columns
    BY DEF Continues, Sized, Models, MadeBy
<1>2. \A d \in 1 .. n : column[d] = IF d <= first THEN m.column[d] ELSE 0
    BY <1>1 DEF OldColumns
<1>3. \A d \in 1 .. first : d \in 1 .. n /\ d <= first /\ m.column[d] # 0 /\ column[d] = m.column[d]
    BY <1>1, <1>2
<1>4. \A d \in first + 1 .. n : d \in 1 .. n /\ column[d] = 0
    <2>1. \A d \in first + 1 .. n : d \in 1 .. n /\ ~ (d <= first)
        BY <1>1
    <2> QED BY <1>2, <2>1
<1>5. column \in [1 .. n -> Nat]
    <2>1. \A d \in 1 .. n : d \in 1 .. first \/ d \in first + 1 .. n
        BY <1>1
    <2>3. column = [d \in 1 .. n |-> column[d]]
        BY DEF OldColumns
    <2> HIDE DEF column
    <2>4. \A d \in 1 .. first : column[d] \in Nat
        <3> TAKE d \in 1 .. first
        <3>1. column[d] = m.column[d] /\ m.column[d] \in 1 .. m.columns /\ m.columns \in Nat
            BY <1>1, <1>3
        <3> QED BY <3>1
    <2>2. \A d \in 1 .. n : column[d] \in Nat
        BY <1>4, <2>1, <2>4
    <2> QED BY <2>2, <2>3
<1>6. /\ p \in Classes(n)
      /\ \/ p.rebuild \/ Mixed(p.leader, first, n)
         \/ Fine(p.leader, m.leader, first, n, all, high + Len(cons))
    <2>1. p = PassOne(n, cons, m, first, extending)
        BY DEF MadeBy
    <2>2. \A d \in 1 .. first : m.column[d] # 0
        BY <1>3
    <2> HIDE DEF n
    <2>3. Among(all, high + Len(cons), n)
        BY DEF n
    <2> QED BY <1>1, <2>1, <2>2, <2>3, PassOneFine
<1>7. MixesIn(loop, ds, p, column, first, m.columns, m.intervals, stray)
    <2>1. loop = ColumnLoop(ds, p, column, first, m.columns, m.intervals, stray) /\ ~loop.rebuild
        BY DEF MadeBy
    <2>2. \A d \in 1 .. first : column[d] \in 1 .. m.columns
        BY <1>1, <1>3
    <2> HIDE DEF column
    <2>3. p \in Classes(Len(ds)) /\ column \in [1 .. Len(ds) -> Nat] /\ first \in 0 .. Len(ds)
        BY <1>1, <1>5, <1>6 DEF n
    <2>4. \A d \in first + 1 .. Len(ds) : column[d] = 0
        BY <1>4 DEF n
    <2>5. m.columns \in Nat /\ m.intervals \in Seq(Sets)
        BY <1>1
    <2>6. MixesIn(loop, ds, p, column, first, m.columns, m.intervals, stray)
        <3> HIDE DEF n
        <3>1. loop = ColumnLoop(ds, p, column, first, m.columns, m.intervals, stray) /\ ~loop.rebuild
            BY <2>1
        <3>2. PICK col \in [1 .. Len(ds) -> Nat], base \in Nat, old \in Seq(Sets) :
                  col = column /\ base = m.columns /\ old = m.intervals
            BY <2>3, <2>5
        <3>3. /\ \A d \in 1 .. first : col[d] \in 1 .. base
              /\ \A d \in first + 1 .. Len(ds) : col[d] = 0
              /\ loop = ColumnLoop(ds, p, col, first, base, old, stray) /\ ~loop.rebuild
            BY <2>2, <2>4, <3>1, <3>2
        <3>4. MixesIn(loop, ds, p, col, first, base, old, stray)
            BY <2>3, <3>3 DEF MixesIn
        <3> QED BY <3>2, <3>4
    <2> QED BY <2>6
<1>8. ~p.rebuild /\ ~Mixed(p.leader, first, n)
    BY <1>7, MixedRebuilds
<1> QED BY <1>6, <1>7, <1>8
\* Column c is as it was, and so are the rows that were there; no new one is of a
\* hole in it.
Untouched(c, bb, high, b, low) ==
    /\ low \in Nat /\ high \in Nat /\ low <= high
    /\ bb.cols[c] = b.cols[c]
    /\ \A q \in 1 .. low : bb.rows[q] = b.rows[q]
    /\ \A q \in low + 1 .. high : IsHole(bb.rows[q]) => c \notin bb.rows[q].cols

LEMMA AdmittedSame ==
    ASSUME NEW b, NEW bb, NEW low, NEW high, NEW c, Untouched(c, bb, high, b, low)
    PROVE  AdmittedBy(bb, high, c) = AdmittedBy(b, low, c)
<1> low \in Nat /\ high \in Nat /\ low <= high
    BY DEF Untouched
<1> bb.cols[c] = b.cols[c]
    BY DEF Untouched
<1>4. /\ \A q \in 1 .. low : bb.rows[q] = b.rows[q]
      /\ \A q \in low + 1 .. high : IsHole(bb.rows[q]) => c \notin bb.rows[q].cols
    BY DEF Untouched
<1>1. \A q \in 1 .. high : q \in 1 .. low \/ q \in low + 1 .. high
    OBVIOUS
<1>2. \A q \in 1 .. low : q \in 1 .. high
    OBVIOUS
<1>3. \A v : (\A q \in 1 .. high : IsHole(bb.rows[q]) /\ c \in bb.rows[q].cols
                                       => v \in bb.rows[q].domain)
             <=> (\A q \in 1 .. low : IsHole(b.rows[q]) /\ c \in b.rows[q].cols
                                       => v \in b.rows[q].domain)
    BY <1>1, <1>2, <1>4, Zenon
<1> QED BY <1>3, Zenon DEF AdmittedBy

LEMMA AllowedSame ==
    ASSUME NEW lead, NEW other, NEW low \in Nat, NEW high \in Nat, low <= high, NEW ds, NEW es,
           NEW d \in 1 .. low,
           \A e \in 1 .. low : other[e] = lead[e] /\ es[e].domain = ds[e].domain,
           \A e \in low + 1 .. high : other[e] # other[d]
    PROVE  AllowedBy(other, high, es, d) = AllowedBy(lead, low, ds, d)
<1>1. \A e \in 1 .. high : e \in 1 .. low \/ e \in low + 1 .. high
    OBVIOUS
<1>2. \A e \in 1 .. low : e \in 1 .. high
    OBVIOUS
<1>3. \A v : (\A e \in 1 .. high : other[e] = other[d] => v \in es[e].domain)
             <=> (\A e \in 1 .. low : lead[e] = lead[d] => v \in ds[e].domain)
    BY <1>1, <1>2, Zenon
<1> QED BY <1>3, Zenon DEF AllowedBy

\* What a build makes of the decisions above first, next to what there was.
Columned(r, ds, cons, m, first, all, high) ==
    /\ Classed(r.model)
    /\ Leads(r.model.leader, Len(ds), all, high + Len(cons))
    /\ \A d \in 1 .. first : r.model.leader[d] = m.leader[d]
    /\ \A d \in first + 1 .. Len(ds) : r.model.leader[d] > first
    /\ \A q \in m.rows + 1 .. r.model.rows :
          IsHole(r.backend.rows[q]) => \A c \in r.backend.rows[q].cols : c > m.columns
    /\ \A d \in first + 1 .. Len(ds) :
          AdmittedBy(r.backend, r.model.rows, r.model.column[d])
              = AllowedBy(r.model.leader, Len(ds), ds, d)

\* The rows a build adds are of holes of its own columns, or are constraints.
HolesAre(rows, low, high, intervals, base, k, stray) ==
    \A q \in low + 1 .. high :
        IsHole(rows[q]) =>
            \E i \in 1 .. k : /\ Intervals(At(intervals, base + i, stray)) > 1
                             /\ rows[q] = HoleRows(base + i, At(intervals, base + i, stray))

LEMMA AddsHoles ==
    ASSUME NEW r, NEW cons, cons \in Seq(Constraint), NEW m, NEW b, NEW loop, NEW holes,
           Adds(r, cons, m, b, loop, holes),
           m.rows \in Nat, r.model.rows \in Nat, Len(holes.rows) \in Nat,
           NEW base, NEW k, NEW stray, HolesFrom(holes.rows, loop.intervals, base, k, stray)
    PROVE  HolesAre(r.backend.rows, m.rows, r.model.rows, loop.intervals, base, k, stray)
<1> SUFFICES ASSUME NEW q \in m.rows + 1 .. r.model.rows, IsHole(r.backend.rows[q])
             PROVE  \E i \in 1 .. k :
                      /\ Intervals(At(loop.intervals, base + i, stray)) > 1
                      /\ r.backend.rows[q] = HoleRows(base + i, At(loop.intervals, base + i, stray))
    BY DEF HolesAre
<1>4. PICK h \in Nat : h = Len(holes.rows)
    OBVIOUS
<1>1. CASE q \in m.rows + 1 .. m.rows + h
    <2>1. r.backend.rows[q] = holes.rows[q - m.rows]
        BY <1>1, <1>4 DEF Adds
    <2>2. q - m.rows \in 1 .. Len(holes.rows)
        BY <1>1, <1>4
    <2> QED BY <2>1, <2>2 DEF HolesFrom
<1>2. CASE q \in m.rows + h + 1 .. r.model.rows
    <2>1. PICK i \in 1 .. Len(cons) : r.backend.rows[q] = RowOf(cons[i], loop.column)
        BY <1>2, <1>4 DEF Adds
    <2>2. cons[i] \in Constraint
        OBVIOUS
    <2>3. cons[i].id \in Nat \X {1}
        BY <2>2 DEF Constraint
    <2>4. cons[i].id # <<0, 0>>
        BY <2>3
    <2> QED BY <2>1, <2>4 DEF RowOf, Row, IsHole
<1>3. q \in m.rows + 1 .. m.rows + h \/ q \in m.rows + h + 1 .. r.model.rows
    OBVIOUS
<1> QED BY <1>1, <1>2, <1>3
\* A column with the hull of a domain for bounds, and its hole row if the hull
\* is more than the domain.
Covered(b, rows, c, domain) ==
    /\ b.cols[c].bounds = Hull(domain)
    /\ \A q \in 1 .. rows : IsHole(b.rows[q]) /\ c \in b.rows[q].cols => b.rows[q].domain = domain
    /\ Intervals(domain) > 1 => \E q \in 1 .. rows : IsHole(b.rows[q]) /\ c \in b.rows[q].cols

LEMMA ColumnAdmits ==
    ASSUME NEW b, NEW rows, NEW c, NEW domain, domain \in Sets, Covered(b, rows, c, domain)
    PROVE  AdmittedBy(b, rows, c) = domain
<1>1. domain \subseteq Hull(domain)
    BY HullCovers
<1>2. CASE Intervals(domain) > 1
    <2>1. \A v : v \in AdmittedBy(b, rows, c) <=> v \in domain
        BY <1>1, <1>2, Zenon DEF AdmittedBy, Covered
    <2> QED BY <2>1
<1>3. CASE ~ (Intervals(domain) > 1)
    <2>1. Hull(domain) = domain
        BY <1>3, OneInterval
    <2>2. \A v : v \in AdmittedBy(b, rows, c) <=> v \in domain
        BY <2>1, Zenon DEF AdmittedBy, Covered
    <2> QED BY <2>2
<1> QED BY <1>2, <1>3

\* The columns of the decisions above first, once the loop has settled them.
Laid(r, ds, cons, m, b, first, p, loop, holes, stray) ==
    /\ ds \in Seq(Decision) /\ cons \in Seq(Constraint) /\ first \in 0 .. Len(ds)
    /\ p \in Classes(Len(ds)) /\ loop \in Visited(Len(ds)) /\ stray \in Sets
    /\ Sized(m, b) /\ Sized(r.model, r.backend) /\ m.rows <= r.model.rows
    /\ \A q \in 1 .. m.rows : r.backend.rows[q] = b.rows[q]
    /\ holes = EncodeHoles(loop.intervals, m.columns, Len(loop.bounds), stray) /\ holes \in Encoded
    /\ Adds(r, cons, m, b, loop, holes)
    /\ Settled(loop, p.leader, ds, first, Len(ds), Len(ds), m.columns)
    /\ \A d \in first + 1 .. Len(ds) : p.leader[d] > first
    /\ \A d \in 1 .. first : p.leader[d] <= first

LEMMA SettledAdmits ==
    ASSUME NEW r, NEW ds, NEW cons, NEW m, NEW b, NEW first, NEW p, NEW loop, NEW holes, NEW stray,
           Laid(r, ds, cons, m, b, first, p, loop, holes, stray)
    PROVE  \A d \in first + 1 .. Len(ds) :
               AdmittedBy(r.backend, r.model.rows, loop.column[d])
                   = AllowedBy(p.leader, Len(ds), ds, d)
<1> ds \in Seq(Decision) /\ cons \in Seq(Constraint)
    BY DEF Laid
<1> first \in 0 .. Len(ds)
    BY DEF Laid
<1> p \in Classes(Len(ds)) /\ loop \in Visited(Len(ds)) /\ stray \in Sets
    BY DEF Laid
<1> Sized(m, b) /\ Sized(r.model, r.backend) /\ m.rows <= r.model.rows
    BY DEF Laid
<1> \A q \in 1 .. m.rows : r.backend.rows[q] = b.rows[q]
    BY DEF Laid
<1> holes = EncodeHoles(loop.intervals, m.columns, Len(loop.bounds), stray) /\ holes \in Encoded
    BY DEF Laid
<1> Adds(r, cons, m, b, loop, holes)
    BY DEF Laid
<1> Settled(loop, p.leader, ds, first, Len(ds), Len(ds), m.columns)
    BY DEF Laid
<1> \A d \in first + 1 .. Len(ds) : p.leader[d] > first
    BY DEF Laid
<1> \A d \in 1 .. first : p.leader[d] <= first
    BY DEF Laid
<1>1. PICK base \in Nat, k \in Nat, h \in Nat, low \in Nat, high \in Nat, n \in Nat :
          /\ base = m.columns /\ k = Len(loop.bounds) /\ h = Len(holes.rows)
          /\ low = m.rows /\ high = r.model.rows /\ n = Len(ds)
    <2>1. m.columns \in Nat /\ m.rows \in Nat /\ r.model.rows \in Nat
        BY DEF Sized, Models
    <2>2. Len(loop.bounds) \in Nat /\ Len(holes.rows) \in Nat /\ Len(ds) \in Nat
        BY DEF Visited, Encoded
    <2> QED BY <2>1, <2>2
<1>2. loop.intervals \in Seq(Sets)
    BY DEF Visited
<1>3. HolesFrom(holes.rows, loop.intervals, base, k, stray)
    BY <1>1, <1>2, EncodeHolesFrom, Zenon
<1>4. \A q \in low + 1 .. high :
          IsHole(r.backend.rows[q]) =>
              \E i \in 1 .. k :
                  /\ Intervals(At(loop.intervals, base + i, stray)) > 1
                  /\ r.backend.rows[q] = HoleRows(base + i, At(loop.intervals, base + i, stray))
    <2>1. HolesAre(r.backend.rows, m.rows, r.model.rows, loop.intervals, base, k, stray)
        <3>1. m.rows \in Nat /\ r.model.rows \in Nat /\ Len(holes.rows) \in Nat
            BY <1>1
        <3>2. Adds(r, cons, m, b, loop, holes) /\ cons \in Seq(Constraint)
            OBVIOUS
        <3> QED BY <1>3, <3>1, <3>2, AddsHoles, Zenon
    <2> QED BY <1>1, <2>1 DEF HolesAre
<1>5. \A q \in 1 .. low : r.backend.rows[q].cols \subseteq 1 .. base
    BY <1>1 DEF Sized
<1> SUFFICES ASSUME NEW d \in first + 1 .. n
             PROVE  AdmittedBy(r.backend, r.model.rows, loop.column[d])
                        = AllowedBy(p.leader, Len(ds), ds, d)
    BY <1>1
<1> DEFINE M == Meet(p.leader, ds, first, n, d)
<1>6. /\ Len(loop.intervals) = base + k
      /\ loop.column[d] \in base + 1 .. base + k
      /\ loop.intervals[loop.column[d]] = M
      /\ loop.bounds[loop.column[d] - base] = Hull(M)
    BY <1>1 DEF Settled
<1> HIDE DEF M
<1>7. PICK j \in 1 .. k : loop.column[d] = base + j
    <2>1. PICK w \in base + 1 .. base + k : w = loop.column[d]
        BY <1>6
    <2>2. w - base \in 1 .. k /\ w = base + (w - base)
        OBVIOUS
    <2> QED BY <2>1, <2>2
<1>8. M \in Sets /\ At(loop.intervals, base + j, stray) = M
    <2>1. base + j \in 1 .. Len(loop.intervals) /\ base + j <= Len(loop.intervals)
        BY <1>6
    <2> QED BY <1>2, <1>6, <1>7, <2>1 DEF At
<1>9. AllowedBy(p.leader, n, ds, d) = M
    <2>1. \A e \in first + 1 .. n : e \in 1 .. n
        BY <1>1
    <2>2. \A e \in 1 .. n : e \in 1 .. first \/ e \in first + 1 .. n
        BY <1>1
    <2>3. \A e \in 1 .. first : p.leader[e] # p.leader[d]
        <3>1. \A e \in 1 .. n : p.leader[e] \in 1 .. n
            BY <1>1 DEF Classes, Leaders
        <3>2. p.leader[d] \in 1 .. n /\ p.leader[d] > first
            BY <1>1, <2>1, <3>1
        <3> TAKE e \in 1 .. first
        <3>3. p.leader[e] \in 1 .. n /\ p.leader[e] <= first
            BY <1>1, <3>1
        <3> QED BY <1>1, <3>2, <3>3
    <2>4. \A v : (\A e \in 1 .. n : p.leader[e] = p.leader[d] => v \in ds[e].domain)
                 <=> (\A e \in first + 1 .. n : p.leader[e] = p.leader[d] => v \in ds[e].domain)
        BY <2>1, <2>2, <2>3, Zenon
    <2> QED BY <2>4, Zenon DEF AllowedBy, Meet, M
<1>10. r.backend.cols[base + j].bounds = Hull(M)
    <2>1. base + j \in base + 1 .. base + k /\ (base + j) - base = j
        OBVIOUS
    <2>2. r.backend.cols[base + j].bounds = loop.bounds[(base + j) - base]
        BY <1>1, <2>1 DEF Adds
    <2> QED BY <1>6, <1>7, <2>2
<1>11. ASSUME NEW q \in 1 .. high, IsHole(r.backend.rows[q]), base + j \in r.backend.rows[q].cols
       PROVE  r.backend.rows[q].domain = M
    <2>1. q \in 1 .. low \/ q \in low + 1 .. high
        OBVIOUS
    <2>2. base + j \notin 1 .. base
        OBVIOUS
    <2>3. q \in low + 1 .. high
        BY <1>5, <1>11, <2>1, <2>2
    <2>4. PICK i \in 1 .. k : r.backend.rows[q] = HoleRows(base + i, At(loop.intervals, base + i, stray))
        BY <1>4, <1>11, <2>3
    <2>5. base + j \in {base + i}
        BY <1>11, <2>4 DEF HoleRows
    <2>6. base + i = base + j
        BY <2>5
    <2>7. r.backend.rows[q] = HoleRows(base + j, M)
        BY <1>8, <2>4, <2>6
    <2> QED BY <2>7 DEF HoleRows
<1>12. ASSUME Intervals(M) > 1
       PROVE  \E q \in 1 .. high : IsHole(r.backend.rows[q]) /\ base + j \in r.backend.rows[q].cols
    <2>1. PICK i \in 1 .. h : holes.rows[i] = HoleRows(base + j, M)
        BY <1>1, <1>3, <1>8, <1>12 DEF HolesFrom
    <2>2. low + h <= high
        BY <1>1 DEF Adds
    <2>3. low + i \in low + 1 .. low + h /\ low + i \in 1 .. high /\ (low + i) - low = i
        BY <2>2
    <2>4. r.backend.rows[low + i] = holes.rows[(low + i) - low]
        BY <1>1, <2>3 DEF Adds
    <2>5. r.backend.rows[low + i] = HoleRows(base + j, M)
        BY <2>1, <2>3, <2>4
    <2>6. IsHole(HoleRows(base + j, M)) /\ base + j \in HoleRows(base + j, M).cols
        BY DEF HoleRows, IsHole
    <2> QED BY <2>3, <2>5, <2>6
<1>13. AdmittedBy(r.backend, high, base + j) = M
    <2>1. \A q \in 1 .. high : IsHole(r.backend.rows[q]) /\ base + j \in r.backend.rows[q].cols
                                   => r.backend.rows[q].domain = M
        BY <1>11
    <2>2. M \in Sets
        BY <1>8
    <2>3. Covered(r.backend, high, base + j, M)
        BY <1>10, <1>12, <2>1 DEF Covered
    <2> QED BY <2>2, <2>3, ColumnAdmits
<1> QED BY <1>1, <1>7, <1>9, <1>13
\* What a build that continues such columns makes.
LEMMA MadeColumns ==
    ASSUME NEW ds, NEW cons, NEW all, NEW high, NEW m, NEW b, NEW first, NEW extending,
           Founded(ds, cons, m, b, first, extending, all, high),
           NEW r, Extends(r, ds, cons, m, b, first, extending),
           Made(r, ds, cons, m, b, first, extending)
    PROVE  Columned(r, ds, cons, m, first, all, high)
<1>1. PICK p, loop, holes, stray :
          stray \in Sets /\ MadeBy(r, ds, cons, m, b, first, extending, p, loop, holes, stray)
    BY Zenon DEF Made
<1>2. /\ Fine(p.leader, m.leader, first, Len(ds), all, high + Len(cons))
      /\ MixesIn(loop, ds, p, OldColumns(Len(ds), m, extending), first, m.columns, m.intervals, stray)
    BY <1>1, MadeLeads, Zenon
<1>3. PICK n \in Nat, low \in Nat, top \in Nat, base \in Nat :
          n = Len(ds) /\ low = m.rows /\ top = r.model.rows /\ base = m.columns
    <2>1. m.rows \in Nat /\ r.model.rows \in Nat /\ m.columns \in Nat
        BY DEF Extends, Founded, Continues, Sized, Models
    <2>2. Len(ds) \in Nat
        BY DEF Founded
    <2> QED BY <2>1, <2>2
<1>4. /\ first \in 0 .. n /\ p \in Classes(n) /\ stray \in Sets /\ ds \in Seq(Decision)
      /\ Sized(m, b) /\ Sized(r.model, r.backend) /\ low <= top
      /\ cons \in Seq(Constraint) /\ Classed(m) /\ Len(m.column) = first
    BY <1>1, <1>2, <1>3 DEF MixesIn, Founded, Continues, Extends, MadeBy
<1>5. /\ r.model.leader = p.leader /\ r.model.column = loop.column
      /\ holes = EncodeHoles(loop.intervals, m.columns, Len(loop.bounds), stray)
      /\ holes \in Encoded /\ loop \in Visited(Len(ds))
      /\ Adds(r, cons, m, b, loop, holes)
    BY <1>1 DEF MadeBy, Adds
<1>6. /\ Leads(p.leader, n, all, high + Len(cons))
      /\ \A d \in 1 .. first : p.leader[d] = m.leader[d]
      /\ \A d \in first + 1 .. n : p.leader[d] > first
    BY <1>2, <1>3 DEF Fine
<1>7. /\ \A d \in 1 .. n : p.leader[d] \in 1 .. n /\ p.leader[d] \in 1 .. d
      /\ \A d \in 1 .. first : d \in 1 .. n /\ p.leader[d] <= first
    <2>1. \A d \in 1 .. n : p.leader[d] \in 1 .. d
        BY <1>6 DEF Leads
    <2> QED BY <1>4, <2>1
<1>8. /\ \A d \in 1 .. first : loop.column[d] = m.column[d] /\ m.column[d] \in 1 .. base
      /\ \A d \in first + 1 .. n : loop.column[d] > base
      /\ \A q \in 1 .. low : r.backend.rows[q] = b.rows[q]
    BY <1>3, <1>4, <1>5 DEF Extends, Sized
<1>9. first < n => Settled(loop, p.leader, ds, first, Len(ds), Len(ds), m.columns)
    <2> SUFFICES ASSUME first < n
                 PROVE  Settled(loop, p.leader, ds, first, Len(ds), Len(ds), m.columns)
        OBVIOUS
    <2>1. Len(m.intervals) = m.columns
        BY <1>3 DEF Founded
    <2>2. Parted(p.leader, first, Len(ds))
        BY <1>3, <1>6 DEF Leads, Parted
    <2> QED BY <1>2, <2>1, <2>2, LoopSettles, Zenon
<1>10. \A d, e \in 1 .. n : loop.column[d] = loop.column[e] <=> p.leader[d] = p.leader[e]
    <2> SUFFICES ASSUME NEW d \in 1 .. n, NEW e \in 1 .. n
                 PROVE  loop.column[d] = loop.column[e] <=> p.leader[d] = p.leader[e]
        OBVIOUS
    <2>1. CASE d \in 1 .. first /\ e \in 1 .. first
        BY <1>4, <1>6, <1>8, <2>1 DEF Classed
    <2>2. CASE d \in first + 1 .. n /\ e \in first + 1 .. n
        <3>1. first < n
            BY <1>4, <2>2
        <3> QED BY <1>3, <1>9, <2>2, <3>1 DEF Settled
    <2>3. ASSUME NEW x \in 1 .. first, NEW y \in first + 1 .. n
          PROVE  loop.column[x] # loop.column[y] /\ p.leader[x] # p.leader[y]
        <3>1. loop.column[x] \in 1 .. base /\ loop.column[y] > base
            BY <1>8
        <3>2. y \in 1 .. n
            BY <1>4
        <3>3. p.leader[x] \in 1 .. n /\ p.leader[x] <= first /\ p.leader[y] \in 1 .. n /\ p.leader[y] > first
            BY <1>6, <1>7, <3>2
        <3> QED BY <1>4, <3>1, <3>3
    <2>4. /\ d \in 1 .. first \/ d \in first + 1 .. n
          /\ e \in 1 .. first \/ e \in first + 1 .. n
        BY <1>4
    <2> QED BY <2>1, <2>2, <2>3, <2>4
<1>11. Classed(r.model)
    <2>1. Len(r.model.column) = n
        BY <1>3 DEF Extends
    <2> QED BY <1>5, <1>10, <2>1 DEF Classed
<1>12. \A q \in low + 1 .. top :
           IsHole(r.backend.rows[q]) => \A c \in r.backend.rows[q].cols : c > base
    <2>1. PICK k \in Nat : k = Len(loop.bounds) /\ Len(holes.rows) \in Nat
        BY <1>5 DEF Visited, Encoded
    <2>2. loop.intervals \in Seq(Sets)
        BY <1>5 DEF Visited
    <2>3. HolesFrom(holes.rows, loop.intervals, base, k, stray)
        BY <1>3, <1>4, <1>5, <2>1, <2>2, EncodeHolesFrom, Zenon
    <2>4. HolesAre(r.backend.rows, m.rows, r.model.rows, loop.intervals, base, k, stray)
        <3>1. m.rows \in Nat /\ r.model.rows \in Nat
            BY <1>3
        <3> QED BY <1>4, <1>5, <2>1, <2>3, <3>1, AddsHoles, Zenon
    <2> SUFFICES ASSUME NEW q \in low + 1 .. top, IsHole(r.backend.rows[q]),
                        NEW c \in r.backend.rows[q].cols
                 PROVE  c > base
        OBVIOUS
    <2>5. PICK i \in 1 .. k : r.backend.rows[q] = HoleRows(base + i, At(loop.intervals, base + i, stray))
        BY <1>3, <2>4 DEF HolesAre
    <2>6. c = base + i
        BY <2>5 DEF HoleRows
    <2> QED BY <2>6
<1>13. \A d \in first + 1 .. n :
           AdmittedBy(r.backend, r.model.rows, loop.column[d]) = AllowedBy(p.leader, Len(ds), ds, d)
    <2>1. CASE first < n
        <3>1. /\ m.rows <= r.model.rows
              /\ \A q \in 1 .. m.rows : r.backend.rows[q] = b.rows[q]
            BY <1>3, <1>4, <1>8
        <3>2. /\ \A d \in first + 1 .. Len(ds) : p.leader[d] > first
              /\ \A d \in 1 .. first : p.leader[d] <= first
            BY <1>3, <1>6, <1>7
        <3>3. first \in 0 .. Len(ds) /\ p \in Classes(Len(ds))
            BY <1>3, <1>4
        <3>4. Settled(loop, p.leader, ds, first, Len(ds), Len(ds), m.columns)
            BY <1>9, <2>1
        <3>6. Laid(r, ds, cons, m, b, first, p, loop, holes, stray)
            BY <1>4, <1>5, <3>1, <3>2, <3>3, <3>4 DEF Laid
        <3>5. \A d \in first + 1 .. Len(ds) :
                  AdmittedBy(r.backend, r.model.rows, loop.column[d])
                      = AllowedBy(p.leader, Len(ds), ds, d)
            BY <3>6, SettledAdmits
        <3> QED BY <1>3, <3>5
    <2>2. CASE ~ (first < n)
        <3>1. \A d : d \notin first + 1 .. n
            BY <1>4, <2>2
        <3> QED BY <3>1
    <2> QED BY <2>1, <2>2
<1> QED BY <1>3, <1>5, <1>6, <1>11, <1>12, <1>13 DEF Columned
-----------------------------------------------------------------------------
(* The inductive invariant of ColumnsAsFromNothing.                        *)

\* The first rows up to the end of layer k, and the columns of its decisions, are
\* what its own decisions and joins call for; rows of holes above it are of columns
\* above it.
LayerColumns(k) ==
    /\ Leads(built.leader, DecisionLayerEnd(k), constraints, ConstraintLayerEnd(k))
    /\ \A d \in 1 .. DecisionLayerEnd(k) :
          AdmittedBy(backend, layerEnd[k].rows, built.column[d])
              = AllowedBy(built.leader, DecisionLayerEnd(k), decisions, d)
    /\ \A r \in layerEnd[k].rows + 1 .. built.rows :
          IsHole(backend.rows[r]) => \A c \in backend.rows[r].cols : c > layerEnd[k].columns

AllColumns ==
    /\ Leads(built.leader, Len(decisions), constraints, Len(constraints))
    /\ \A d \in 1 .. Len(decisions) :
          AdmittedBy(backend, built.rows, built.column[d])
              = AllowedBy(built.leader, Len(decisions), decisions, d)

ColumnsInv ==
    /\ Classed(built)
    /\ pc = "idle" => \A k \in 1 .. Min({unchanged, builtLayers}) : LayerColumns(k)
    /\ pc = "building" /\ OnTop => \A k \in 1 .. level : LayerColumns(k)
    /\ pc \in {"building", "solving"} /\ level = Len(layers) => AllColumns
    /\ pc = "solving" => \A k \in 1 .. builtLayers : LayerColumns(k)

\* intervals_ lines up with the columns when a layer is posted on top of another
\* and a decision is still to come.
Lined ==
    pc = "building" /\ level \in 1 .. Len(layers) - 1 /\ DecisionLayerEnd(level) < Len(decisions)
        => Len(built.intervals) = built.columns

LEMMA LayerColumnsKept ==
    ASSUME NEW k, LayerColumns(k), UNCHANGED <<backend, built, layerEnd>>,
           ConstraintLayerEnd(k) \in Nat,
           DecisionLayerEnd(k)' = DecisionLayerEnd(k),
           ConstraintLayerEnd(k)' = ConstraintLayerEnd(k),
           \A i \in 1 .. ConstraintLayerEnd(k) : constraints'[i] = constraints[i],
           \A d \in 1 .. DecisionLayerEnd(k) : decisions'[d] = decisions[d]
    PROVE  LayerColumns(k)'
<1>1. PICK n, high : n = DecisionLayerEnd(k) /\ high = ConstraintLayerEnd(k) /\ high \in Nat
    OBVIOUS
<1>2. PICK cons, ds : cons = constraints' /\ ds = decisions'
    OBVIOUS
<1>3. Leads(built.leader, n, cons, high)
    <2>1. Leads(built.leader, n, constraints, high)
        BY <1>1 DEF LayerColumns
    <2>2. \A i \in 1 .. high : cons[i] = constraints[i]
        BY <1>1, <1>2
    <2> QED BY <1>1, <2>1, <2>2, LeadsOfSame
<1>4. \A d \in 1 .. n : AllowedBy(built.leader, n, ds, d) = AllowedBy(built.leader, n, decisions, d)
    BY <1>1, <1>2, Zenon DEF AllowedBy
<1>5. \A d \in 1 .. n : AdmittedBy(backend, layerEnd[k].rows, built.column[d])
                            = AllowedBy(built.leader, n, ds, d)
    BY <1>1, <1>4, Zenon DEF LayerColumns
<1>6. \A r \in layerEnd[k].rows + 1 .. built.rows :
          IsHole(backend.rows[r]) => \A c \in backend.rows[r].cols : c > layerEnd[k].columns
    BY Zenon DEF LayerColumns
<1>7. backend' = backend /\ built' = built /\ layerEnd' = layerEnd
    OBVIOUS
<1>8. LayerColumns(k)' <=>
      /\ Leads(built.leader, n, cons, high)
      /\ \A d \in 1 .. n : AdmittedBy(backend, layerEnd[k].rows, built.column[d])
                               = AllowedBy(built.leader, n, ds, d)
      /\ \A r \in layerEnd[k].rows + 1 .. built.rows :
            IsHole(backend.rows[r]) => \A c \in backend.rows[r].cols : c > layerEnd[k].columns
    BY <1>1, <1>2, <1>7 DEF LayerColumns
<1> QED BY <1>3, <1>5, <1>6, <1>8

LEMMA ColumnsMoved ==
    ASSUME Inv, NEW k \in 1 .. Len(layers), LayerColumns(k), UNCHANGED model,
           layerEnd'[k] = layerEnd[k], layerEnd[k].rows \in Nat,
           \A d \in 1 .. DecisionLayerEnd(k) : built.column[d] \in 1 .. layerEnd[k].columns,
           \A r \in 1 .. layerEnd[k].rows : backend'.rows[r] = backend.rows[r],
           \A c \in 1 .. layerEnd[k].columns : backend'.cols[c] = backend.cols[c],
           \A d \in 1 .. DecisionLayerEnd(k) : /\ built'.column[d] = built.column[d]
                                               /\ built'.leader[d] = built.leader[d],
           \A r \in layerEnd[k].rows + 1 .. built'.rows :
               IsHole(backend'.rows[r]) => \A c \in backend'.rows[r].cols : c > layerEnd[k].columns
    PROVE  LayerColumns(k)'
<1>1. PICK n \in 0 .. Len(decisions), high \in 0 .. Len(constraints) :
          n = DecisionLayerEnd(k) /\ high = ConstraintLayerEnd(k) /\ n \in Nat /\ high \in Nat
    <2>1. Len(layers) \in Nat /\ Len(decisions) \in Nat /\ Len(constraints) \in Nat
        BY DEF Inv, ModelInv
    <2>2. k \in 0 .. Len(layers)
        BY <2>1
    <2> QED BY <2>1, <2>2, LayerEnds DEF Inv
<1>2. Among(constraints, high, n)
    <2>1. Len(layers) \in Nat /\ Len(constraints) \in Nat
        BY DEF Inv, ModelInv
    <2>2. k \in 0 .. Len(layers)
        BY <2>1
    <2>3. \A i \in 1 .. high : i \in 1 .. Len(constraints) /\ i <= ConstraintLayerEnd(k)
        BY <1>1, <2>1
    <2> QED BY <1>1, <2>2, <2>3 DEF Inv, ModelInv, Among
<1>3. PICK m, b, rows : m = built' /\ b = backend' /\ rows = layerEnd[k].rows
    OBVIOUS
<1>4. Leads(m.leader, n, constraints, high)
    <2>1. Leads(built.leader, n, constraints, high)
        BY <1>1 DEF LayerColumns
    <2>2. \A d \in 1 .. n : m.leader[d] = built.leader[d]
        BY <1>1, <1>3
    <2>3. n \in Nat /\ high \in Nat
        BY <1>1
    <2> QED BY <1>2, <2>1, <2>2, <2>3, LeadsSame
<1>5. \A d \in 1 .. n : AllowedBy(m.leader, n, decisions, d) = AllowedBy(built.leader, n, decisions, d)
    BY <1>1, <1>3, Zenon DEF AllowedBy
<1>6. \A d \in 1 .. n : AdmittedBy(b, rows, m.column[d]) = AdmittedBy(backend, rows, built.column[d])
    <2>1. \A d \in 1 .. n : m.column[d] = built.column[d] /\ b.cols[built.column[d]] = backend.cols[built.column[d]]
        BY <1>1, <1>3
    <2>2. \A r \in 1 .. rows : b.rows[r] = backend.rows[r]
        BY <1>3
    <2> QED BY <2>1, <2>2, Zenon DEF AdmittedBy
<1>7. \A d \in 1 .. n : AdmittedBy(backend, rows, built.column[d])
                            = AllowedBy(built.leader, n, decisions, d)
    BY <1>1, <1>3 DEF LayerColumns
<1>8. \A d \in 1 .. n : AdmittedBy(b, rows, m.column[d]) = AllowedBy(m.leader, n, decisions, d)
    BY <1>5, <1>6, <1>7
<1>9. LayerColumns(k)' <=>
      /\ Leads(m.leader, n, constraints, high)
      /\ \A d \in 1 .. n : AdmittedBy(b, rows, m.column[d]) = AllowedBy(m.leader, n, decisions, d)
      /\ \A r \in rows + 1 .. m.rows :
            IsHole(b.rows[r]) => \A c \in b.rows[r].cols : c > layerEnd[k].columns
    <2>1. /\ constraints' = constraints /\ decisions' = decisions /\ layers' = layers
          /\ DecisionLayerEnd(k)' = n /\ ConstraintLayerEnd(k)' = high
        BY <1>1 DEF model, DecisionLayerEnd, ConstraintLayerEnd
    <2> QED BY <1>3, <2>1 DEF LayerColumns
<1> QED BY <1>3, <1>4, <1>8, <1>9
LEMMA ColumnsCallerStep ==
    ASSUME Inv, ColumnsInv, CallerActs
    PROVE  ColumnsInv'
<1>1. /\ pc = "idle" /\ UNCHANGED <<program, pc, level, solver, backend>>
      /\ unchanged' \in 0 .. Len(layers) /\ unchanged' <= unchanged
      /\ \A k \in 1 .. unchanged' : /\ DecisionLayerEnd(k)' = DecisionLayerEnd(k)
                                    /\ ConstraintLayerEnd(k)' = ConstraintLayerEnd(k)
      /\ \A k \in 1 .. unchanged' : \A i \in 1 .. ConstraintLayerEnd(k) :
            constraints'[i] = constraints[i]
      /\ \A k \in 1 .. unchanged' : \A d \in 1 .. DecisionLayerEnd(k) :
            decisions'[d] = decisions[d]
    BY CallerStep
<1>2. Classed(built)'
    BY <1>1 DEF ColumnsInv, solver
<1>3. PICK U \in Nat, V \in Nat, B \in Nat, M \in Nat :
          /\ U = unchanged' /\ B = builtLayers /\ V = unchanged /\ U <= V /\ V <= Len(layers)
          /\ M = Min({unchanged, builtLayers})
    BY <1>1, KeepIs
<1>4. PICK W \in Nat : W = Min({unchanged', builtLayers'}) /\ W <= M /\ W <= U
    BY <1>1, <1>3, MinOfTwo DEF solver
<1>5. \A k \in 1 .. W : LayerColumns(k)'
    <2> SUFFICES ASSUME NEW k \in 1 .. W PROVE LayerColumns(k)'
        OBVIOUS
    <2>1. k \in 1 .. M /\ k \in 1 .. U
        BY <1>4
    <2>2. LayerColumns(k)
        BY <1>1, <1>3, <2>1 DEF ColumnsInv
    <2>3. /\ DecisionLayerEnd(k)' = DecisionLayerEnd(k)
          /\ ConstraintLayerEnd(k)' = ConstraintLayerEnd(k)
          /\ \A i \in 1 .. ConstraintLayerEnd(k) : constraints'[i] = constraints[i]
          /\ \A d \in 1 .. DecisionLayerEnd(k) : decisions'[d] = decisions[d]
        BY <1>1, <1>3, <2>1
    <2>4. ConstraintLayerEnd(k) \in Nat
        <3>1. k \in 0 .. Len(layers) /\ Len(constraints) \in Nat
            <4>1. Len(layers) \in Nat /\ Len(constraints) \in Nat
                BY DEF Inv, ModelInv
            <4> QED BY <1>3, <2>1, <4>1
        <3>2. ConstraintLayerEnd(k) \in 0 .. Len(constraints)
            BY <3>1, LayerEnds DEF Inv
        <3> QED BY <3>1, <3>2
    <2> QED BY <1>1, <2>2, <2>3, <2>4, LayerColumnsKept DEF solver
<1> QED BY <1>1, <1>2, <1>4, <1>5 DEF ColumnsInv

\* The first columns of a classed model are classed.
LEMMA ClassedBelow ==
    ASSUME NEW m, NEW w, Classed(m), NEW n \in Nat, NEW N \in Nat, n <= N,
           Len(m.column) = N, Len(w.column) = n,
           \A d \in 1 .. n : w.column[d] = m.column[d] /\ w.leader[d] = m.leader[d]
    PROVE  Classed(w)
<1>1. \A d \in 1 .. n : d \in 1 .. N
    OBVIOUS
<1> QED BY <1>1 DEF Classed

LEMMA ColumnsRunStart ==
    ASSUME Inv, ColumnsInv, RunStart
    PROVE  ColumnsInv'
<1>1. /\ pc = "idle" /\ pc' = "building" /\ level' = Keep /\ layers # <<>>
      /\ UNCHANGED model
    BY DEF RunStart, Runnable, caller
<1>2. Inv'
    BY NextInv DEF Next
<1>3. PICK L \in Nat, K \in Nat : L = Len(layers) /\ L # 0 /\ K = Keep
    <2>1. layers \in Seq(LayerType) /\ Keep \in Nat
        BY <1>1, KeepIs DEF Inv, ModelInv
    <2> QED BY <1>1, <2>1
<1>4. CASE K = 0
    <2>1. built' = NoModel
        <3>1. Keep = 0
            BY <1>3, <1>4
        <3> QED BY <3>1 DEF RunStart
    <2>2. \A d : d \notin 1 .. Len(NoModel.column)
        BY DEF NoModel
    <2>3. Classed(built')
        BY <2>1, <2>2 DEF Classed
    <2> QED BY <1>1, <1>3, <1>4, <2>3 DEF ColumnsInv, model
<1>5. CASE K # 0
    <2>1. /\ K \in 1 .. Len(layerEnd) /\ K \in 1 .. L
          /\ built'.column = SubSeq(built.column, 1, layerEnd[K].decisions)
          /\ Len(built'.column) = layerEnd[K].decisions
          /\ built'.leader = SubSeq(built.leader, 1, layerEnd[K].decisions)
          /\ built'.rows = layerEnd[K].rows
          /\ backend'.rows = SubSeq(backend.rows, 1, layerEnd[K].rows)
          /\ backend'.cols = SubSeq(backend.cols, 1, layerEnd[K].columns)
          /\ layerEnd' = SubSeq(layerEnd, 1, K)
        BY <1>1, <1>3, <1>5, CutTo
    <2>2. /\ \A j, k \in 1 .. Len(layerEnd) :
                j <= k => /\ layerEnd[j].decisions <= layerEnd[k].decisions
                          /\ layerEnd[j].columns <= layerEnd[k].columns
                          /\ layerEnd[j].rows <= layerEnd[k].rows
          /\ Within(K) /\ layerEnd \in Seq(EndType) /\ Len(layerEnd) \in Nat
          /\ \A k \in 1 .. Len(layerEnd) : Within(k)
        BY <2>1 DEF Inv, EndsInv
    <2>3. /\ layerEnd[K].decisions \in 0 .. Len(built.column) /\ layerEnd[K].rows \in 0 .. Len(backend.rows)
          /\ layerEnd[K].decisions \in 0 .. Len(built.leader)
          /\ layerEnd[K].columns \in 0 .. Len(backend.cols)
          /\ layerEnd[K].rows <= built.rows /\ built.rows \in Nat
          /\ built.column \in Seq(Nat) /\ backend.rows \in Seq(BackendRow)
          /\ built.leader \in Seq(Nat) /\ backend.cols \in Seq(BackendCol)
          /\ Len(built.leader) = Len(built.column) /\ Len(backend.cols) \in Nat
        <3>1. layerEnd[K] \in EndType
            BY <2>1, <2>2
        <3> QED BY <2>2, <3>1 DEF Within, EndType, Inv, Sized, Models, Backends
    <2>4. /\ \A k \in 1 .. K : layerEnd'[k] = layerEnd[k]
          /\ \A d \in 1 .. layerEnd[K].decisions : built'.column[d] = built.column[d]
          /\ \A d \in 1 .. layerEnd[K].decisions : built'.leader[d] = built.leader[d]
          /\ \A r \in 1 .. layerEnd[K].rows : backend'.rows[r] = backend.rows[r]
          /\ \A c \in 1 .. layerEnd[K].columns : backend'.cols[c] = backend.cols[c]
        <3>1. K \in 0 .. Len(layerEnd)
            BY <1>3, <2>1
        <3> QED BY <2>1, <2>2, <2>3, <3>1, SubSeqParts
    <2>5. PICK M \in Nat : M = Min({unchanged, builtLayers}) /\ K <= M
        BY <1>1, <1>3, <1>5, KeepIs
    <2>6. ASSUME NEW k \in 1 .. K PROVE LayerColumns(k)'
        <3>1. k \in 1 .. M /\ k \in 1 .. Len(layers) /\ k \in 1 .. Len(layerEnd) /\ k <= K
            BY <1>3, <2>1, <2>2, <2>5
        <3>2. LayerColumns(k)
            BY <1>1, <2>5, <3>1 DEF ColumnsInv
        <3>3. /\ layerEnd[k].decisions <= layerEnd[K].decisions /\ layerEnd[k].rows <= layerEnd[K].rows
              /\ layerEnd[k].columns <= layerEnd[K].columns
              /\ layerEnd[k].decisions \in Nat /\ layerEnd[k].rows \in Nat /\ layerEnd[k].columns \in Nat
            <4>1. layerEnd[k] \in EndType
                BY <2>2, <3>1
            <4> QED BY <2>1, <2>2, <3>1, <4>1 DEF EndType
        <3>4. layerEnd[k].decisions = DecisionLayerEnd(k)
            BY <1>1, <2>5, <3>1 DEF Inv, StageInv, IdleInv, SameEnds
        <3>5. \A r \in 1 .. layerEnd[k].rows : backend'.rows[r] = backend.rows[r]
            <4>1. \A r \in 1 .. layerEnd[k].rows : r \in 1 .. layerEnd[K].rows
                BY <2>3, <3>3
            <4> QED BY <2>4, <4>1
        <3>6. \A d \in 1 .. DecisionLayerEnd(k) : /\ built'.column[d] = built.column[d]
                                                  /\ built'.leader[d] = built.leader[d]
            <4>1. \A d \in 1 .. DecisionLayerEnd(k) : d \in 1 .. layerEnd[K].decisions
                BY <2>3, <3>3, <3>4
            <4> QED BY <2>4, <4>1
        <3>7. \A r \in layerEnd[k].rows + 1 .. built'.rows :
                  IsHole(backend'.rows[r]) => \A c \in backend'.rows[r].cols : c > layerEnd[k].columns
            <4> SUFFICES ASSUME NEW r \in layerEnd[k].rows + 1 .. layerEnd[K].rows
                         PROVE  IsHole(backend'.rows[r])
                                    => \A c \in backend'.rows[r].cols : c > layerEnd[k].columns
                BY <2>1
            <4>1. r \in 1 .. layerEnd[K].rows /\ r \in layerEnd[k].rows + 1 .. built.rows
                BY <2>3, <3>3
            <4>2. IsHole(backend.rows[r]) => \A c \in backend.rows[r].cols : c > layerEnd[k].columns
                BY <3>2, <4>1 DEF LayerColumns
            <4> QED BY <2>4, <4>1, <4>2
        <3>8. \A c \in 1 .. layerEnd[k].columns : backend'.cols[c] = backend.cols[c]
            <4>1. \A c \in 1 .. layerEnd[k].columns : c \in 1 .. layerEnd[K].columns
                BY <2>3, <3>3
            <4> QED BY <2>4, <4>1
        <3>9. \A d \in 1 .. DecisionLayerEnd(k) : built.column[d] \in 1 .. layerEnd[k].columns
            <4>1. Within(k)
                BY <2>2, <3>1
            <4>2. \A d \in 1 .. DecisionLayerEnd(k) :
                      d \in 1 .. Len(built.column) /\ built.column[d] <= layerEnd[k].columns
                BY <2>3, <3>3, <3>4, <4>1 DEF Within
            <4> QED BY <3>3, <4>2 DEF Inv, Sized, Models
        <3>10. layerEnd'[k] = layerEnd[k] /\ layerEnd[k].rows \in Nat
            BY <2>4, <3>3
        <3> QED BY <1>1, <3>1, <3>2, <3>5, <3>6, <3>7, <3>8, <3>9, <3>10, ColumnsMoved
    <2>7. ASSUME K = L PROVE AllColumns'
        <3>1. LayerColumns(Len(layers))'
            BY <1>1, <1>3, <1>5, <2>6, <2>7 DEF model
        <3>2. layerEnd'[Len(layers')].rows = built'.rows /\ layers' = layers
            BY <1>1, <1>3, <1>5, <2>1, <2>4, <2>7 DEF model
        <3>3. /\ ConstraintLayerEnd(Len(layers))' = Len(constraints')
              /\ DecisionLayerEnd(Len(layers))' = Len(decisions')
            BY <1>2 DEF Inv, ModelInv
        <3> QED BY <3>1, <3>2, <3>3, Zenon DEF LayerColumns, AllColumns
    <2>8. Classed(built)'
        <3>1. PICK n \in Nat, N \in Nat : n = layerEnd[K].decisions /\ N = Len(built.column) /\ n <= N
            <4>1. layerEnd[K].decisions \in 0 .. Len(built.column) /\ Len(built.column) \in Nat
                BY <2>3
            <4>2. PICK N \in Nat : N = Len(built.column)
                BY <4>1
            <4>3. PICK n \in 0 .. N : n = layerEnd[K].decisions
                BY <4>1, <4>2
            <4> QED BY <4>2, <4>3
        <3>2. PICK w : w = built'
            OBVIOUS
        <3>3. Classed(built) /\ Len(w.column) = n
              /\ \A d \in 1 .. n : w.column[d] = built.column[d] /\ w.leader[d] = built.leader[d]
            BY <2>1, <2>4, <3>1, <3>2 DEF ColumnsInv
        <3>4. Classed(w)
            BY <3>1, <3>3, ClassedBelow
        <3> QED BY <3>2, <3>4
    <2> QED BY <1>1, <1>2, <1>3, <2>6, <2>7, <2>8 DEF ColumnsInv, model
<1> QED BY <1>4, <1>5
\* The build of the layer on top of layers posted one after the other makes that
\* layer's columns.
LEMMA LayerFounded ==
    ASSUME Inv, ColumnsInv, Lined, pc = "building", level < Len(layers),
           Len(built.column) = DecisionLayerEnd(level)
    PROVE  Founded(decisions, Above(level), built, backend, DecisionLayerEnd(level), level # 0,
                   constraints, ConstraintLayerEnd(level))
<1>1. PICK l \in Nat, L \in Nat : l = level /\ L = Len(layers) /\ l < L /\ l \in 0 .. Len(layers)
    BY LayerContinues DEF Inv, ModelInv
<1>2. /\ Layerwise /\ Len(layerEnd) = l
      /\ decisions \in Seq(Decision) /\ Len(decisions) \in Nat /\ Len(constraints) \in Nat
      /\ Continues(decisions, built, backend, DecisionLayerEnd(l), l # 0)
    BY <1>1, LayerContinues DEF Layerwise, Inv, ModelInv
<1>3. PICK D \in 0 .. Len(decisions), C \in 0 .. Len(constraints) :
          D = DecisionLayerEnd(l) /\ C = ConstraintLayerEnd(l) /\ C \in Nat /\ D \in Nat
    BY <1>1, <1>2, LayerEnds DEF Inv
<1>4. /\ Above(l) \in Seq(Constraint) /\ Len(Above(l)) = Len(constraints) - C
      /\ \A i \in 1 .. Len(Above(l)) : constraints[C + i] = Above(l)[i]
      /\ C + Len(Above(l)) = Len(constraints)
    <2>1. /\ Above(l) \in Seq(Constraint) /\ Len(Above(l)) = Len(constraints) - C
          /\ \A i \in 1 .. Len(Above(l)) : constraints[C + i] = Above(l)[i]
        BY <1>1, <1>3, AboveParts DEF Inv
    <2>2. C + (Len(constraints) - C) = Len(constraints)
        BY <1>2
    <2> QED BY <2>1, <2>2
<1>5. Among(constraints, C, D)
    <2>1. \A i \in 1 .. C : i \in 1 .. Len(constraints) /\ i <= C
        BY <1>2
    <2> QED BY <1>1, <1>3, <2>1 DEF Inv, ModelInv, Among
<1>6. Among(constraints, C + Len(Above(l)), Len(decisions))
    BY <1>4, ConstraintsParts DEF Inv, Among
<1>7. Leads(built.leader, D, constraints, C)
    <2>1. CASE l = 0
        <3>1. D = 0 /\ C = 0
            BY <1>3, <2>1 DEF DecisionLayerEnd, ConstraintLayerEnd
        <3>2. \A d : d \notin 1 .. 0
            OBVIOUS
        <3> QED BY <3>1, <3>2 DEF Leads, Respects
    <2>2. CASE l # 0
        <3>1. l \in 1 .. l
            BY <1>1, <2>2
        <3>2. OnTop
            BY <1>1, <1>2 DEF OnTop
        <3>3. LayerColumns(l)
            BY <1>1, <3>1, <3>2 DEF ColumnsInv
        <3> QED BY <1>3, <3>3 DEF LayerColumns
    <2> QED BY <2>1, <2>2
<1>8. D < Len(decisions) => Len(built.intervals) = built.columns
    <2>1. CASE l = 0
        <3>1. built = NoModel
            BY <1>1, <1>2, <2>1 DEF Layerwise
        <3> QED BY <3>1 DEF NoModel
    <2>2. CASE l # 0
        <3>1. level \in 1 .. Len(layers) - 1
            BY <1>1, <2>2
        <3> QED BY <1>1, <1>3, <3>1 DEF Lined
    <2> QED BY <2>1, <2>2
<1>9. Classed(built)
    BY DEF ColumnsInv
<1>10. Founded(decisions, Above(l), built, backend, D, l # 0, constraints, C)
    BY <1>2, <1>3, <1>4, <1>5, <1>6, <1>7, <1>8, <1>9 DEF Founded
<1> QED BY <1>1, <1>3, <1>10
LEMMA ColumnsLayerBuilt ==
    ASSUME Inv, ColumnsInv, Once, Lined, pc = "building", level < Len(layers), NEW r, LayerBuilt(r),
           Extends(r, decisions, Above(level), built, backend, DecisionLayerEnd(level), level # 0),
           Made(r, decisions, Above(level), built, backend, DecisionLayerEnd(level), level # 0)
    PROVE  ColumnsInv'
<1>1. PICK l \in Nat, L \in Nat : l = level /\ L = Len(layers) /\ l < L /\ l \in 0 .. Len(layers)
    BY LayerContinues DEF Inv, ModelInv
<1>2. /\ built' = r.model /\ backend' = r.backend
      /\ layerEnd' = Append(layerEnd, LayerEndOf(r))
      /\ level' = l + 1 /\ pc' = "building"
      /\ UNCHANGED model
    BY <1>1 DEF LayerBuilt, LayerEndOf, caller
<1>3. Inv'
    BY LayerBuiltInv
<1>4. /\ Layerwise /\ layerEnd \in Seq(EndType) /\ Len(layerEnd) = l
      /\ decisions \in Seq(Decision) /\ Len(decisions) \in Nat /\ Len(constraints) \in Nat
      /\ \A k \in 1 .. l : layerEnd[k] \in EndType /\ Within(k)
      /\ built.rows \in Nat /\ built.columns \in Nat
    <2>1. Layerwise /\ Len(layerEnd) = l
        BY <1>1, LayerContinues DEF Layerwise
    <2>2. layerEnd \in Seq(EndType) /\ \A k \in 1 .. l : Within(k)
        BY <2>1 DEF Inv, EndsInv
    <2>3. decisions \in Seq(Decision) /\ Len(decisions) \in Nat /\ Len(constraints) \in Nat
        BY DEF Inv, ModelInv
    <2>4. built.rows \in Nat /\ built.columns \in Nat
        BY DEF Inv, Sized, Models
    <2> QED BY <2>1, <2>2, <2>3, <2>4
<1>5. PICK D \in 0 .. Len(decisions), C \in 0 .. Len(constraints) :
          D = DecisionLayerEnd(l) /\ C = ConstraintLayerEnd(l)
    BY <1>1, LayerEnds DEF Inv
<1>6. /\ Len(r.model.column) = Len(decisions)
      /\ \A d \in 1 .. D : r.model.column[d] = built.column[d]
      /\ \A q \in 1 .. built.rows : r.backend.rows[q] = backend.rows[q]
      /\ \A c \in 1 .. built.columns : r.backend.cols[c] = backend.cols[c]
      /\ r.model.rows \in Nat /\ built.rows <= r.model.rows
    BY <1>1, <1>5 DEF Extends, Sized, Models
<1>7. Len(built.column) = D
    BY <1>1, <1>5, Zenon DEF Made, MadeBy
<1>8. \A k \in 1 .. l : LayerColumns(k)
    BY <1>1, <1>4, <1>5, <1>7 DEF ColumnsInv, OnTop
<1>9. Columned(r, decisions, Above(l), built, D, constraints, C)
    <2>1. Founded(decisions, Above(l), built, backend, D, l # 0, constraints, C)
        BY <1>1, <1>5, <1>7, LayerFounded
    <2>2. /\ Extends(r, decisions, Above(l), built, backend, D, l # 0)
          /\ Made(r, decisions, Above(l), built, backend, D, l # 0)
        BY <1>1, <1>5
    <2> QED BY <2>1, <2>2, MadeColumns, Zenon
<1>10. /\ Classed(r.model)
       /\ \A d \in 1 .. D : r.model.leader[d] = built.leader[d]
       /\ \A d \in D + 1 .. Len(decisions) : r.model.leader[d] > D
       /\ \A q \in built.rows + 1 .. r.model.rows :
             IsHole(r.backend.rows[q]) => \A c \in r.backend.rows[q].cols : c > built.columns
       /\ \A d \in D + 1 .. Len(decisions) :
             AdmittedBy(r.backend, r.model.rows, r.model.column[d])
                 = AllowedBy(r.model.leader, Len(decisions), decisions, d)
    BY <1>9 DEF Columned
<1>11. Leads(r.model.leader, Len(decisions), constraints, Len(constraints))
    <2>1. Len(Above(l)) = Len(constraints) - C
        BY <1>1, <1>5, AboveParts DEF Inv
    <2>2. C + (Len(constraints) - C) = Len(constraints)
        BY <1>4
    <2> QED BY <1>9, <2>1, <2>2 DEF Columned
<1>12. /\ Len(layerEnd') = l + 1 /\ layerEnd'[l + 1] = LayerEndOf(r)
       /\ \A k \in 1 .. l : layerEnd'[k] = layerEnd[k]
    <2>1. LayerEndOf(r) \in EndType
        <3>1. layerEnd' \in Seq(EndType) /\ Len(layerEnd') = l + 1
            <4>1. layerEnd' \in Seq(EndType)
                BY <1>3 DEF Inv, EndsInv
            <4> QED BY <1>2, <1>4, <4>1
        <3>2. layerEnd'[l + 1] = LayerEndOf(r)
            BY <1>2, <1>4
        <3> QED BY <3>1, <3>2
    <2> QED BY <1>2, <1>4, <2>1
<1>13. ASSUME NEW k \in 1 .. l PROVE LayerColumns(k)'
    <2>1. k \in 1 .. Len(layers) /\ k \in 0 .. Len(layers) /\ k <= l
        BY <1>1
    <2>2. DecisionLayerEnd(k) <= D /\ DecisionLayerEnd(k) \in 0 .. Len(decisions)
        BY <1>1, <1>5, <2>1, LayerEnds DEF Inv, ModelInv
    <2>3. /\ layerEnd[k].rows \in Nat /\ layerEnd[k].rows <= built.rows
          /\ layerEnd[k].columns \in Nat /\ layerEnd[k].columns <= built.columns
          /\ layerEnd[k].decisions = DecisionLayerEnd(k)
        BY <1>1, <1>4 DEF EndType, Within, Layerwise, SameEnds
    <2>4. \A q \in 1 .. layerEnd[k].rows : backend'.rows[q] = backend.rows[q]
        <3>1. \A q \in 1 .. layerEnd[k].rows : q \in 1 .. built.rows
            BY <1>4, <2>3
        <3> QED BY <1>2, <1>6, <3>1
    <2>5. \A c \in 1 .. layerEnd[k].columns : backend'.cols[c] = backend.cols[c]
        <3>1. \A c \in 1 .. layerEnd[k].columns : c \in 1 .. built.columns
            BY <1>4, <2>3
        <3> QED BY <1>2, <1>6, <3>1
    <2>6. \A d \in 1 .. DecisionLayerEnd(k) : /\ built'.column[d] = built.column[d]
                                              /\ built'.leader[d] = built.leader[d]
        <3>1. \A d \in 1 .. DecisionLayerEnd(k) : d \in 1 .. D
            BY <1>5, <2>2
        <3> QED BY <1>2, <1>6, <1>10, <3>1
    <2>7. \A d \in 1 .. DecisionLayerEnd(k) : built.column[d] \in 1 .. layerEnd[k].columns
        <3>1. \A d \in 1 .. DecisionLayerEnd(k) :
                  d \in 1 .. Len(built.column) /\ built.column[d] <= layerEnd[k].columns
            BY <1>4, <1>5, <1>7, <2>2, <2>3 DEF Within
        <3>2. \A d \in 1 .. Len(built.column) : built.column[d] \in 1 .. built.columns
            BY DEF Inv, Sized
        <3> QED BY <1>4, <2>3, <3>1, <3>2
    <2>8. \A q \in layerEnd[k].rows + 1 .. built'.rows :
              IsHole(backend'.rows[q]) => \A c \in backend'.rows[q].cols : c > layerEnd[k].columns
        <3> SUFFICES ASSUME NEW q \in layerEnd[k].rows + 1 .. r.model.rows, IsHole(r.backend.rows[q]),
                            NEW c \in r.backend.rows[q].cols
                     PROVE  c > layerEnd[k].columns
            BY <1>2
        <3>1. CASE q \in layerEnd[k].rows + 1 .. built.rows
            <4>1. q \in 1 .. built.rows
                BY <1>4, <2>3, <3>1
            <4>2. r.backend.rows[q] = backend.rows[q]
                BY <1>6, <4>1
            <4> QED BY <1>8, <3>1, <4>2 DEF LayerColumns
        <3>2. CASE q \in built.rows + 1 .. r.model.rows
            <4>1. c > built.columns
                BY <1>10, <3>2
            <4>2. r.backend.rows[q].cols \subseteq 1 .. r.model.columns
                <5>1. q \in 1 .. r.model.rows
                    BY <1>4, <3>2
                <5> QED BY <5>1 DEF Extends, Sized
            <4>3. c \in Int
                BY <4>2
            <4> QED BY <1>4, <2>3, <4>1, <4>3
        <3> QED BY <1>4, <1>6, <2>3, <3>1, <3>2
    <2>9. layerEnd'[k] = layerEnd[k] /\ layerEnd[k].rows \in Nat /\ LayerColumns(k)
        BY <1>8, <1>12, <2>3
    <2> QED BY <1>2, <2>1, <2>4, <2>5, <2>6, <2>7, <2>8, <2>9, ColumnsMoved
\* The columns of the layers below are the ones they were.
<1>14. ASSUME NEW d \in 1 .. D
       PROVE  AdmittedBy(r.backend, r.model.rows, r.model.column[d])
                  = AllowedBy(r.model.leader, Len(decisions), decisions, d)
    <2>1. l # 0
        BY <1>1, <1>5, <1>14 DEF DecisionLayerEnd
    <2>2. l \in 1 .. l /\ layerEnd # <<>>
        BY <1>1, <1>4, <2>1
    <2>3. layerEnd[l].rows = built.rows
        BY <1>4, <2>2 DEF Layerwise, EndsWithLayer
    <2>4. AdmittedBy(backend, built.rows, built.column[d]) = AllowedBy(built.leader, D, decisions, d)
        BY <1>5, <1>8, <2>2, <2>3 DEF LayerColumns
    <2>5. PICK c \in 1 .. built.columns : c = built.column[d] /\ c = r.model.column[d]
        <3>1. built.column[d] \in 1 .. built.columns
            BY <1>7 DEF Inv, Sized
        <3> QED BY <1>6, <3>1
    <2>6. AdmittedBy(r.backend, r.model.rows, c) = AdmittedBy(backend, built.rows, c)
        <3>1. \A q \in built.rows + 1 .. r.model.rows :
                  IsHole(r.backend.rows[q]) => c \notin r.backend.rows[q].cols
            <4>1. ~ (c > built.columns)
                BY <1>4
            <4> QED BY <1>10, <4>1
        <3>2. r.backend.cols[c] = backend.cols[c]
            BY <1>6
        <3>1a. PICK low \in Nat, high \in Nat : low = built.rows /\ high = r.model.rows
            BY <1>4, <1>6
        <3>2a. PICK was, now : was = backend /\ now = r.backend
            OBVIOUS
        <3>3. low = built.rows /\ high = r.model.rows /\ was = backend /\ now = r.backend
            BY <3>1a, <3>2a
        <3>4. /\ low <= high /\ now.cols[c] = was.cols[c]
              /\ \A q \in 1 .. low : now.rows[q] = was.rows[q]
              /\ \A q \in low + 1 .. high : IsHole(now.rows[q]) => c \notin now.rows[q].cols
            BY <1>6, <3>1, <3>2, <3>3
        <3>6. Untouched(c, now, high, was, low)
            BY <3>4 DEF Untouched
        <3>5. AdmittedBy(now, high, c) = AdmittedBy(was, low, c)
            BY <3>6, AdmittedSame
        <3> QED BY <3>3, <3>5
    <2>7. AllowedBy(r.model.leader, Len(decisions), decisions, d) = AllowedBy(built.leader, D, decisions, d)
        <3>1. \A e \in D + 1 .. Len(decisions) : r.model.leader[e] # r.model.leader[d]
            <4>1. r.model.leader[d] \in 1 .. d
                <5>1. d \in 1 .. Len(decisions)
                    BY <1>4, <1>5
                <5> QED BY <1>11, <5>1 DEF Leads
            <4>2. \A e \in D + 1 .. Len(decisions) : e \in 1 .. Len(decisions)
                BY <1>5
            <4>3. \A e \in D + 1 .. Len(decisions) : r.model.leader[e] \in 1 .. e /\ r.model.leader[e] > D
                BY <1>10, <1>11, <4>2 DEF Leads
            <4> TAKE e \in D + 1 .. Len(decisions)
            <4>4. r.model.leader[e] \in 1 .. e /\ r.model.leader[e] > D
                BY <4>3
            <4> QED BY <1>5, <4>1, <4>4
        <3>2. D \in Nat /\ Len(decisions) \in Nat /\ D <= Len(decisions)
            BY <1>4, <1>5
        <3>3. \A e \in 1 .. D : r.model.leader[e] = built.leader[e] /\ decisions[e].domain = decisions[e].domain
            BY <1>10
        <3> QED BY <3>1, <3>2, <3>3, AllowedSame
    <2> QED BY <2>4, <2>5, <2>6, <2>7
<1>15. \A d \in 1 .. Len(decisions) :
           AdmittedBy(r.backend, r.model.rows, r.model.column[d])
               = AllowedBy(r.model.leader, Len(decisions), decisions, d)
    <2>1. \A d \in 1 .. Len(decisions) : d \in 1 .. D \/ d \in D + 1 .. Len(decisions)
        BY <1>4, <1>5
    <2> QED BY <1>10, <1>14, <2>1
<1>16. l + 1 = L => LayerColumns(l + 1)' /\ AllColumns'
    <2> SUFFICES ASSUME l + 1 = L PROVE LayerColumns(l + 1)' /\ AllColumns'
        OBVIOUS
    <2>1. /\ constraints' = constraints /\ ConstraintLayerEnd(l + 1)' = Len(constraints)
          /\ decisions' = decisions /\ DecisionLayerEnd(l + 1)' = Len(decisions)
        BY <1>1, <1>2 DEF model, ConstraintLayerEnd, DecisionLayerEnd, Inv, ModelInv
    <2>2. layerEnd'[l + 1].rows = r.model.rows
        BY <1>12 DEF LayerEndOf
    <2>3. \A q : q \notin r.model.rows + 1 .. r.model.rows
        BY <1>6
    <2>4. AllColumns'
        BY <1>2, <1>11, <1>15, <2>1, Zenon DEF AllColumns
    <2>5. LayerColumns(l + 1)'
        BY <1>2, <1>11, <1>15, <2>1, <2>2, <2>3, Zenon DEF LayerColumns
    <2> QED BY <2>4, <2>5
<1>17. OnTop' => l + 1 = L
    <2> SUFFICES ASSUME OnTop', l + 1 < L PROVE FALSE
        BY <1>1
    <2>1. Len(decisions) > DecisionLayerEnd(l + 1)
        BY <1>1 DEF Once
    <2>2. Len(built'.column) = DecisionLayerEnd(l + 1)
        BY <1>2 DEF OnTop, DecisionLayerEnd, model
    <2>3. DecisionLayerEnd(l + 1) \in Nat
        <3>1. l + 1 \in 0 .. Len(layers)
            BY <1>1
        <3> QED BY <3>1, LayerEnds DEF Inv
    <2> QED BY <1>2, <1>4, <1>6, <2>1, <2>2, <2>3
<1>18. OnTop' => \A k \in 1 .. l + 1 : LayerColumns(k)'
    <2>1. \A k \in 1 .. l + 1 : k \in 1 .. l \/ k = l + 1
        BY <1>1
    <2> QED BY <1>13, <1>16, <1>17, <2>1
<1>19. level' = Len(layers') => AllColumns'
    BY <1>1, <1>2, <1>16 DEF model
<1>20. Classed(built)'
    BY <1>2, <1>10
<1> QED BY <1>2, <1>18, <1>19, <1>20 DEF ColumnsInv
LEMMA WholeFounded ==
    ASSUME Inv
    PROVE  Founded(decisions, constraints, NoModel, EmptyBackend, 0, FALSE, constraints, 0)
<1>1. decisions \in Seq(Decision) /\ constraints \in Seq(Constraint)
      /\ Len(constraints) \in Nat /\ Len(decisions) \in Nat
    BY DEF Inv, ModelInv
<1>2. Continues(decisions, NoModel, EmptyBackend, 0, FALSE)
    <2>1. Len(NoModel.column) = 0
        BY DEF NoModel
    <2> QED BY <1>1, <2>1, EmptySized DEF Continues
<1>3. Among(constraints, 0, 0) /\ Among(constraints, 0 + Len(constraints), Len(decisions))
    BY <1>1, ConstraintsParts DEF Inv, Among
<1>4. Leads(NoModel.leader, 0, constraints, 0) /\ Classed(NoModel)
    <2>1. \A d : d \notin 1 .. 0
        OBVIOUS
    <2>2. Len(NoModel.column) = 0
        BY DEF NoModel
    <2> QED BY <2>1, <2>2 DEF Leads, Respects, Classed
<1>5. Len(NoModel.intervals) = NoModel.columns
    BY DEF NoModel
<1>6. \A i \in 1 .. Len(constraints) : constraints[0 + i] = constraints[i]
    BY <1>1
<1> QED BY <1>1, <1>2, <1>3, <1>4, <1>5, <1>6 DEF Founded

LEMMA ColumnsNext ==
    ASSUME Inv, ColumnsInv, Once, Lined, [Next]_vars
    PROVE  ColumnsInv'
<1>1. Inv'
    BY NextInv
<1>2. CASE CallerActs
    BY <1>2, ColumnsCallerStep
<1>3. CASE RunStart
    BY <1>3, ColumnsRunStart
<1>4. CASE BuildLayer
    <2>1. pc = "building" /\ level < Len(layers)
        BY <1>4, BuildLayerCases
    <2>2. CASE \E r : /\ LayerBuilt(r)
                      /\ Extends(r, decisions, Above(level), built, backend,
                                 DecisionLayerEnd(level), level # 0)
                      /\ Made(r, decisions, Above(level), built, backend,
                              DecisionLayerEnd(level), level # 0)
        BY <2>1, <2>2, ColumnsLayerBuilt
    <2>3. CASE \E r : /\ AllBuilt(r)
                      /\ Extends(r, decisions, constraints, NoModel, EmptyBackend, 0, FALSE)
                      /\ Made(r, decisions, constraints, NoModel, EmptyBackend, 0, FALSE)
        <3>1. PICK r : /\ AllBuilt(r)
                       /\ Extends(r, decisions, constraints, NoModel, EmptyBackend, 0, FALSE)
                       /\ Made(r, decisions, constraints, NoModel, EmptyBackend, 0, FALSE)
            BY <2>3
        <3>2. /\ pc' = "building" /\ layerEnd' = <<>> /\ level' = Len(layers') /\ UNCHANGED model
              /\ built' = r.model /\ backend' = r.backend
            BY <2>1, <3>1 DEF AllBuilt, caller, model
        <3>3. Columned(r, decisions, constraints, NoModel, 0, constraints, 0)
            <4>1. Founded(decisions, constraints, NoModel, EmptyBackend, 0, FALSE, constraints, 0)
                BY WholeFounded
            <4> QED BY <3>1, <4>1, MadeColumns, Zenon
        <3>4. Classed(built') /\ AllColumns'
            <4>1. Len(constraints) \in Nat /\ Len(decisions) \in Nat
                BY DEF Inv, ModelInv
            <4>2. 0 + Len(constraints) = Len(constraints) /\ 0 + 1 = 1
                BY <4>1
            <4>3. /\ Classed(r.model)
                  /\ Leads(r.model.leader, Len(decisions), constraints, Len(constraints))
                  /\ \A d \in 1 .. Len(decisions) :
                        AdmittedBy(r.backend, r.model.rows, r.model.column[d])
                            = AllowedBy(r.model.leader, Len(decisions), decisions, d)
                BY <3>3, <4>2 DEF Columned
            <4>4. decisions' = decisions /\ constraints' = constraints
                BY <3>2 DEF model
            <4> QED BY <3>2, <4>3, <4>4, Zenon DEF AllColumns
        <3>5. ~OnTop'
            <4>1. Len(layers) \in Nat
                BY DEF Inv, ModelInv
            <4>2. Len(layers) # 0
                BY <2>1, <4>1, LayerContinues
            <4> QED BY <3>2, <4>2 DEF OnTop, model
        <3> QED BY <3>2, <3>4, <3>5 DEF ColumnsInv
    <2>4. CASE RunFails
        <3>1. pc' = "idle" /\ builtLayers' = 0 /\ unchanged' = Len(layers) /\ Len(layers) \in Nat
              /\ built' = NoModel
            BY <2>4 DEF RunFails, Inv, ModelInv
        <3>2. Min({unchanged', builtLayers'}) = 0
            BY <3>1, MinOfTwo
        <3>3. Classed(NoModel)
            <4>1. \A d : d \notin 1 .. Len(NoModel.column)
                BY DEF NoModel
            <4> QED BY <4>1 DEF Classed
        <3> QED BY <3>1, <3>2, <3>3 DEF ColumnsInv
    <2> QED BY <1>4, <2>2, <2>3, <2>4, BuildLayerCases
<1>5. CASE StartSolve
    <2>1. /\ pc = "building" /\ level = Len(layers) /\ pc' = "solving"
          /\ UNCHANGED <<model, level, built, backend>>
          /\ \/ Len(layerEnd) = Len(layers) /\ builtLayers' = Len(layers) /\ layerEnd' = layerEnd
             \/ Len(layerEnd) # Len(layers) /\ builtLayers' = 0 /\ layerEnd' = <<>>
        BY <1>5 DEF StartSolve, caller, model
    <2>2. AllColumns' /\ Classed(built)'
        BY <2>1 DEF ColumnsInv, AllColumns, model
    <2>3. ASSUME NEW k \in 1 .. builtLayers' PROVE LayerColumns(k)'
        <3>1. /\ Len(layerEnd) = Len(layers) /\ builtLayers' = Len(layers) /\ layerEnd' = layerEnd
            BY <2>1, <2>3
        <3>2. OnTop
            BY <2>1, <3>1 DEF OnTop, Inv, ModelInv, StageInv, BuildingInv, Layerwise, Whole
        <3>3. LayerColumns(k)
            BY <2>1, <2>3, <3>1, <3>2 DEF ColumnsInv
        <3>4. ConstraintLayerEnd(k) \in Nat
            <4>1. k \in 0 .. Len(layers) /\ Len(constraints) \in Nat
                BY <2>3, <3>1 DEF Inv, ModelInv
            <4>2. ConstraintLayerEnd(k) \in 0 .. Len(constraints)
                BY <4>1, LayerEnds DEF Inv
            <4> QED BY <4>1, <4>2
        <3> QED BY <2>1, <3>1, <3>3, <3>4, LayerColumnsKept DEF model, ConstraintLayerEnd, DecisionLayerEnd
    <2> QED BY <2>1, <2>2, <2>3 DEF ColumnsInv
<1>6. CASE \E outcome \in program.outcomes : EndRun(outcome)
    <2>1. /\ pc = "solving" /\ unchanged' = Len(layers) /\ pc' = "idle"
          /\ UNCHANGED <<model, built, layerEnd, builtLayers, backend>>
        BY <1>6 DEF EndRun, model
    <2>2. PICK B \in Nat, W \in Nat : /\ B = builtLayers /\ W = Min({unchanged', builtLayers'}) /\ W <= B
                                      /\ W <= Len(layers)
        <3>1. builtLayers \in Nat /\ Len(layers) \in Nat
            BY <2>1 DEF Inv, ModelInv, StageInv, SolvingInv
        <3>2. /\ Min({unchanged', builtLayers'}) \in Nat
              /\ Min({unchanged', builtLayers'}) <= builtLayers
              /\ Min({unchanged', builtLayers'}) <= Len(layers)
            BY <2>1, <3>1, MinOfTwo
        <3> QED BY <3>1, <3>2
    <2>3. ASSUME NEW k \in 1 .. W PROVE LayerColumns(k)'
        <3>1. k \in 1 .. B
            BY <2>2
        <3>2. LayerColumns(k)
            BY <2>1, <2>2, <3>1 DEF ColumnsInv
        <3>3. ConstraintLayerEnd(k) \in Nat
            <4>1. Len(constraints) \in Nat /\ Len(layers) \in Nat
                BY DEF Inv, ModelInv
            <4>2. k \in 0 .. Len(layers)
                BY <2>2, <4>1
            <4>3. ConstraintLayerEnd(k) \in 0 .. Len(constraints)
                BY <4>2, LayerEnds DEF Inv
            <4> QED BY <4>1, <4>3
        <3> QED BY <2>1, <3>2, <3>3, LayerColumnsKept DEF model, ConstraintLayerEnd, DecisionLayerEnd
    <2>4. Classed(built)'
        BY <2>1 DEF ColumnsInv
    <2> QED BY <2>1, <2>2, <2>3, <2>4 DEF ColumnsInv
<1>7. CASE UNCHANGED vars
    <2>1. \A k : LayerColumns(k) => LayerColumns(k)'
        BY <1>7 DEF vars, caller, model, solver, LayerColumns, ConstraintLayerEnd, DecisionLayerEnd
    <2>2. (AllColumns => AllColumns') /\ (OnTop' => OnTop) /\ (Classed(built) => Classed(built)')
        BY <1>7 DEF vars, caller, model, solver, AllColumns, OnTop, DecisionLayerEnd
    <2> QED BY <1>7, <2>1, <2>2 DEF vars, caller, model, solver, ColumnsInv
<1>8. CASE RunStopped
    <2>1. \A k : LayerColumns(k) => LayerColumns(k)'
        BY <1>8, StoppedKeeps DEF LayerColumns, ConstraintLayerEnd, DecisionLayerEnd
    <2>2. Classed(built)'
        BY <1>8, StoppedKeeps DEF ColumnsInv
    <2> QED BY <1>8, <2>1, <2>2, StoppedKeeps DEF ColumnsInv
<1> QED BY <1>2, <1>3, <1>4, <1>5, <1>6, <1>7, <1>8 DEF Next, CallerActs

LEMMA ColumnsInit == Init => ColumnsInv
<1> SUFFICES ASSUME Init PROVE ColumnsInv
    OBVIOUS
<1>1. Min({unchanged, builtLayers}) = 0 /\ pc = "idle" /\ built = NoModel
    BY MinOfTwo DEF Init
<1>2. \A d : d \notin 1 .. Len(NoModel.column)
    BY DEF NoModel
<1> QED BY <1>1, <1>2 DEF ColumnsInv, Classed

\* For a caller that stops as SeenStops says, as long as no run posts a layer on
\* its own when the layers above it declare nothing, nor posts decisions on columns that have selectors among them, the
\* columns the search starts with are the model's classes of joined decisions, each
\* with exactly the values that all of its domains allow, whatever layers were
\* pushed, retracted and run before.
THEOREM ColumnsCorrect == Spec /\ SeenStops /\ []Once /\ []Lined => []ColumnsAsFromNothing
<1>1. Init => ColumnsInv
    BY ColumnsInit
<1>2. Inv /\ ColumnsInv /\ Once /\ Lined /\ [Next]_vars => ColumnsInv'
    BY ColumnsNext
<1>3. Inv /\ ColumnsInv => ColumnsAsFromNothing
    <2> SUFFICES ASSUME Inv, ColumnsInv, pc = "solving"
                 PROVE  \A d \in DOMAIN ModelLeader :
                            /\ \A e \in DOMAIN ModelLeader :
                                  ModelLeader[d] = ModelLeader[e] <=> ColumnOf(d) = ColumnOf(e)
                            /\ Admits(ColumnOf(d)) = Allowed(ModelLeader, decisions, d)
        BY DEF ColumnsAsFromNothing
    <2>1a. PICK n \in Nat, high \in Nat : n = Len(decisions) /\ high = Len(constraints)
        BY DEF Inv, ModelInv
    <2>1b. PICK lead : lead = ModelLeader
        OBVIOUS
    <2>1. n = Len(decisions) /\ high = Len(constraints) /\ lead = ModelLeader
        BY <2>1a, <2>1b
    <2>2. DOMAIN lead = 1 .. n /\ Leads(lead, n, constraints, high)
        BY <2>1, ModelLeaderLeads DEF Inv
    <2>3. AllColumns /\ Classed(built) /\ Len(built.column) = n /\ Len(backend.rows) = built.rows
        BY <2>1 DEF ColumnsInv, Inv, StageInv, SolvingInv, Sized
    <2>4. Among(constraints, high, n)
        BY <2>1, ConstraintsParts DEF Inv, Among
    <2>5. \A d \in 1 .. n : lead[d] = built.leader[d]
        <3>1. Leads(built.leader, n, constraints, high)
            BY <2>1, <2>3 DEF AllColumns
        <3> QED BY <2>2, <2>4, <3>1, LeadsUnique
    <2>6. \A d, e \in 1 .. n : lead[d] = lead[e] <=> ColumnOf(d) = ColumnOf(e)
        BY <2>3, <2>5 DEF Classed, ColumnOf
    <2>7. ASSUME NEW d \in 1 .. n PROVE Admits(ColumnOf(d)) = Allowed(lead, decisions, d)
        <3>1. AdmittedBy(backend, built.rows, built.column[d]) = AllowedBy(built.leader, n, decisions, d)
            BY <2>1, <2>3 DEF AllColumns
        <3>2. Admits(ColumnOf(d)) = AdmittedBy(backend, built.rows, built.column[d])
            BY <2>3 DEF Admits, AdmittedBy, ColumnOf
        <3>3. Allowed(lead, decisions, d) = AllowedBy(built.leader, n, decisions, d)
            <4>1. \A v : (\A e \in DOMAIN lead : lead[d] = lead[e] => v \in decisions[e].domain)
                         <=> (\A e \in 1 .. n : built.leader[e] = built.leader[d] => v \in decisions[e].domain)
                BY <2>2, <2>5, Zenon
            <4> QED BY <4>1, Zenon DEF Allowed, AllowedBy
        <3> QED BY <3>1, <3>2, <3>3
    <2> QED BY <2>1, <2>2, <2>6, <2>7
<1> QED BY <1>1, <1>2, <1>3, Invariance, PTL DEF Spec
-----------------------------------------------------------------------------
(* Callers whose domains are intervals: no column gets selectors.          *)
Convex(domain) == \A a, b \in domain : \A v \in Int : a <= v /\ v <= b => v \in domain

LEMMA ConvexIsOne ==
    ASSUME NEW domain \in Sets, Convex(domain)
    PROVE  ~ (Intervals(domain) > 1)
<1>1. domain \subseteq Int /\ IsFiniteSet(Starts(domain))
    BY SetsAreInts DEF Sets
<1>2. \A s, t \in Starts(domain) : s = t
    <2>1. ASSUME NEW s \in Starts(domain), NEW t \in Starts(domain), s < t PROVE FALSE
        <3>1. s \in domain /\ t \in domain /\ t - 1 \notin domain /\ s \in Int /\ t \in Int
            BY <1>1 DEF Starts
        <3>2. t - 1 \in Int /\ s <= t - 1 /\ t - 1 <= t
            BY <2>1, <3>1
        <3> QED BY <3>1, <3>2 DEF Convex
    <2>2. \A s \in Starts(domain) : s \in Int
        BY <1>1 DEF Starts
    <2> QED BY <2>1, <2>2
<1>3. CASE Starts(domain) = {}
    <2>1. Cardinality(Starts(domain)) = 0
        BY <1>3, FS_EmptySet
    <2> QED BY <2>1 DEF Intervals
<1>4. CASE Starts(domain) # {}
    <2>1. PICK s : Starts(domain) = {s}
        BY <1>2, <1>4
    <2>2. Cardinality(Starts(domain)) = 1
        BY <2>1, FS_Singleton
    <2> QED BY <2>2 DEF Intervals
<1> QED BY <1>3, <1>4

\* As many intervals as columns, no decision on a column past them, and no gaps.
Rounded(s, n, base) ==
    /\ Len(s.intervals) = base + Len(s.bounds)
    /\ \A d \in 1 .. n : s.column[d] <= base + Len(s.bounds)
    /\ \A c \in 1 .. Len(s.intervals) : Convex(s.intervals[c])

LEMMA VisitRounds ==
    ASSUME NEW n \in Nat, NEW s \in Visited(n), NEW d \in 1 .. n, NEW ds,
           ds[d].domain \in Sets, Convex(ds[d].domain),
           NEW p \in Classes(n), NEW base \in Nat, NEW stray \in Sets,
           s.rebuild \/ Rounded(s, n, base),
           NEW t, t = Visit(s, d, ds, p, base, stray)
    PROVE  t.rebuild \/ Rounded(t, n, base)
<1> DEFINE root == p.leader[d]
           own == ds[d].domain
<1>1. PICK k \in Nat, w \in Nat, c \in Nat :
          k = Len(s.bounds) /\ w = Len(s.intervals) /\ c = s.column[root] /\ root \in 1 .. n
    <2>1. root \in 1 .. n
        BY DEF Classes, Leaders
    <2> QED BY <2>1 DEF Visited
<1>2. /\ s.column \in [1 .. n -> Nat] /\ s.intervals \in Seq(Sets) /\ s.bounds \in Seq(SUBSET Int)
      /\ Hull(own) \in SUBSET Int /\ own \in Sets
    BY HullType DEF Visited
<1> HIDE DEF own
<1>3. CASE s.rebuild
    BY <1>3 DEF Visit
<1>4. CASE ~s.rebuild /\ c = 0
    <2>1. t = [s EXCEPT !.column = [s.column EXCEPT ![root] = base + k + 1, ![d] = base + k + 1],
                        !.intervals = Append(s.intervals, own),
                        !.bounds = Append(s.bounds, Hull(own))]
        BY <1>1, <1>4 DEF Visit, Place, own
    <2>2. /\ t.column = [s.column EXCEPT ![root] = base + k + 1, ![d] = base + k + 1]
          /\ t.intervals = Append(s.intervals, own) /\ t.bounds = Append(s.bounds, Hull(own))
        BY <2>1 DEF Visited
    <2>3. /\ Len(t.intervals) = w + 1 /\ t.intervals[w + 1] = own
          /\ \A x \in 1 .. w : t.intervals[x] = s.intervals[x]
        BY <1>1, <1>2, <2>2, AppendParts
    <2>4. Len(t.bounds) = k + 1
        BY <1>1, <1>2, <2>2, AppendParts
    <2>5. /\ w = base + k /\ \A e \in 1 .. n : s.column[e] <= base + k
          /\ \A x \in 1 .. w : Convex(s.intervals[x])
        BY <1>1, <1>4 DEF Rounded
    <2>6. \A e \in 1 .. n : t.column[e] <= base + (k + 1)
        BY <1>2, <2>2, <2>5
    <2>7. \A x \in 1 .. w + 1 : Convex(t.intervals[x])
        <3>1. \A x \in 1 .. w + 1 : x \in 1 .. w \/ x = w + 1
            OBVIOUS
        <3> QED BY <2>3, <2>5, <3>1 DEF own
    <2>8. w + 1 = base + (k + 1)
        BY <2>5
    <2> QED BY <2>3, <2>4, <2>6, <2>7, <2>8 DEF Rounded
<1>5. CASE ~s.rebuild /\ c # 0 /\ c <= base
    <2>1. t = [s EXCEPT !.rebuild = TRUE]
        BY <1>1, <1>5 DEF Visit
    <2> QED BY <2>1 DEF Visited
<1>6. CASE ~s.rebuild /\ c # 0 /\ ~ (c <= base)
    <2>1. /\ w = base + k /\ \A e \in 1 .. n : s.column[e] <= base + k
          /\ \A x \in 1 .. w : Convex(s.intervals[x])
        BY <1>1, <1>6 DEF Rounded
    <2>2. c \in 1 .. w /\ c - base \in 1 .. k
        <3>1. c <= base + k
            BY <1>1, <2>1
        <3>2. \A x, y, z, u \in Nat : /\ u = z + y /\ x <= z + y /\ x # 0 /\ ~ (x <= z)
                                      => x \in 1 .. u /\ x - z \in 1 .. y
            OBVIOUS
        <3>3. c \in Nat /\ base \in Nat /\ k \in Nat /\ w \in Nat
            BY <1>1
        <3> QED BY <1>6, <2>1, <3>1, <3>2, <3>3
    <2>3. PICK both : both = s.intervals[c] \cap own
        OBVIOUS
    <2>4. both \in Sets /\ Hull(both) \in SUBSET Int
        <3>1. s.intervals[c] \in Sets
            <4>1. c \in 1 .. Len(s.intervals) /\ s.intervals \in Seq(Sets)
                BY <1>1, <1>2, <2>2
            <4> QED BY <4>1
        <3> QED BY <1>2, <2>3, <3>1, MeetIsSet, HullType
    <2>5. Convex(both)
        BY <2>1, <2>2, <2>3 DEF Convex, own
    <2>6. At(s.intervals, c, stray) \cap own = both /\ c <= Len(s.intervals)
        BY <1>1, <2>2, <2>3 DEF At
    <2>7. t = Narrow(s, d, c, both, base)
        BY <1>1, <1>6, <2>6 DEF Visit, own
    <2>8. /\ t.column = [s.column EXCEPT ![d] = c]
          /\ t.intervals = [s.intervals EXCEPT ![c] = both]
          /\ t.bounds = [s.bounds EXCEPT ![c - base] = Hull(both)]
        BY <2>6, <2>7 DEF Narrow, Visited
    <2>9. /\ Len(t.intervals) = w /\ t.intervals[c] = both
          /\ \A x \in 1 .. w : x # c => t.intervals[x] = s.intervals[x]
        <3>1. s.intervals \in Seq(Sets) /\ c \in 1 .. Len(s.intervals) /\ both \in Sets /\ Len(s.intervals) = w
            BY <1>1, <1>2, <2>2, <2>4
        <3> QED BY <2>8, <3>1, UpdateParts
    <2>10. Len(t.bounds) = k
        <3>1. /\ s.bounds \in Seq(SUBSET Int) /\ c - base \in 1 .. Len(s.bounds)
              /\ Hull(both) \in SUBSET Int /\ Len(s.bounds) = k
            BY <1>1, <1>2, <2>2, <2>4
        <3> QED BY <2>8, <3>1, UpdateParts
    <2>11. \A e \in 1 .. n : t.column[e] <= base + k
        <3>1. c <= base + k
            BY <1>1, <2>1
        <3>2. \A e \in 1 .. n : t.column[e] = IF e = d THEN c ELSE s.column[e]
            BY <1>2, <2>8
        <3> QED BY <2>1, <3>1, <3>2
    <2>12. \A x \in 1 .. w : Convex(t.intervals[x])
        BY <2>1, <2>5, <2>9
    <2> QED BY <2>1, <2>9, <2>10, <2>11, <2>12 DEF Rounded
<1> QED BY <1>3, <1>4, <1>5, <1>6

\* All domains are intervals, those of the columns that were there as well.
AllRound(ds, base, old) ==
    /\ Len(old) = base
    /\ \A c \in 1 .. base : Convex(old[c])
    /\ \A d \in 1 .. Len(ds) : Convex(ds[d].domain)

LEMMA LoopRounds ==
    ASSUME NEW loop, NEW ds, NEW p, NEW column, NEW first, NEW base, NEW old, NEW stray,
           MixesIn(loop, ds, p, column, first, base, old, stray), AllRound(ds, base, old)
    PROVE  Rounded(loop, Len(ds), base)
<1> ds \in Seq(Decision)
    BY DEF MixesIn
<1> p \in Classes(Len(ds))
    BY DEF MixesIn
<1> column \in [1 .. Len(ds) -> Nat]
    BY DEF MixesIn
<1> first \in 0 .. Len(ds)
    BY DEF MixesIn
<1> base \in Nat
    BY DEF MixesIn
<1> old \in Seq(Sets)
    BY DEF MixesIn
<1> stray \in Sets
    BY DEF MixesIn
<1> \A d \in 1 .. first : column[d] \in 1 .. base
    BY DEF MixesIn
<1> \A d \in first + 1 .. Len(ds) : column[d] = 0
    BY DEF MixesIn
<1> loop = ColumnLoop(ds, p, column, first, base, old, stray) /\ ~loop.rebuild
    BY DEF MixesIn
<1>7. \E h : Visits(h, ds, p, column, first, base, old, stray)
    <2>1. first \in 0 .. Len(ds)
        OBVIOUS
    <2> QED BY <2>1, ColumnLoopTurns, Zenon
<1> DEFINE n == Len(ds)
           N == n - first
<1>1. n \in Nat /\ N \in Nat
    OBVIOUS
<1>2. PICK h \in [0 .. N -> Visited(n)] :
          /\ h[0] = [column |-> column, intervals |-> old, bounds |-> <<>>,
                     rebuild |-> p.rebuild]
          /\ \A i \in 1 .. N : h[i] = Visit(h[i - 1], first + i, ds, p, base, stray)
          /\ loop = h[N]
    BY <1>7 DEF Visits
<1> DEFINE A == {i \in 0 .. N : h[i].rebuild \/ Rounded(h[i], n, base)}
<1>3. 0 \in A
    <2>1. h[0].column = column /\ h[0].intervals = old /\ h[0].bounds = <<>>
        BY <1>2
    <2>2. Len(old) = base + Len(<<>>)
        BY DEF AllRound
    <2>3. \A d \in 1 .. n : column[d] <= base + Len(<<>>)
        <3>1. \A d \in 1 .. n : d \in 1 .. first \/ d \in first + 1 .. n
            OBVIOUS
        <3>2. \A d \in 1 .. n : column[d] \in 1 .. base \/ column[d] = 0
            BY <3>1
        <3> QED BY <3>2
    <2>4. \A c \in 1 .. Len(old) : Convex(old[c])
        BY DEF AllRound
    <2>5. Rounded(h[0], n, base)
        BY <2>1, <2>2, <2>3, <2>4 DEF Rounded
    <2> QED BY <1>1, <2>5
<1>4. \A i \in 0 .. N - 1 : i \in A => i + 1 \in A
    <2> SUFFICES ASSUME NEW i \in 0 .. N - 1, i \in A PROVE i + 1 \in A
        OBVIOUS
    <2>1. i + 1 \in 1 .. N /\ (i + 1) - 1 = i /\ first + (i + 1) \in 1 .. n
        BY <1>1
    <2>2. h[i] \in Visited(n) /\ h[i + 1] = Visit(h[i], first + (i + 1), ds, p, base, stray)
        BY <1>2, <2>1
    <2>3. ds[first + (i + 1)].domain \in Sets /\ Convex(ds[first + (i + 1)].domain)
        <3>1. ds[first + (i + 1)] \in Decision
            BY <2>1
        <3> QED BY <2>1, <3>1 DEF Decision, AllRound
    <2>4. h[i].rebuild \/ Rounded(h[i], n, base)
        BY <2>1
    <2> HIDE DEF A
    <2>5. n \in Nat /\ p \in Classes(n)
        BY <1>1
    <2> HIDE DEF n
    <2>6. h[i + 1].rebuild \/ Rounded(h[i + 1], n, base)
        BY <2>1, <2>2, <2>3, <2>4, <2>5, VisitRounds
    <2> QED BY <2>1, <2>6 DEF A
<1> HIDE DEF A
<1>5. \A i \in 0 .. N : i \in A
    BY <1>1, <1>3, <1>4, RangeInduction, Zenon
<1>6. N \in A
    BY <1>1, <1>5
<1> QED BY <1>2, <1>6 DEF A

LEMMA NoSelectors ==
    ASSUME NEW intervals \in Seq(Sets), NEW base \in Nat, NEW k \in Nat, NEW stray \in Sets,
           Len(intervals) = base + k, \A c \in 1 .. Len(intervals) : Convex(intervals[c])
    PROVE  EncodeHoles(intervals, base, k, stray).selectors = 0
<1>1. PICK h \in [0 .. k -> Encoded] :
          /\ h[0] = [selectors |-> 0, rows |-> <<>>]
          /\ \A i \in 1 .. k : h[i] = Encode(h[i - 1], base + i, At(intervals, base + i, stray))
          /\ EncodeHoles(intervals, base, k, stray) = h[k]
    BY EncodeHolesTurns, Zenon
<1> DEFINE A == {i \in 0 .. k : h[i].selectors = 0}
<1>2. 0 \in A
    BY <1>1
<1>3. \A i \in 0 .. k - 1 : i \in A => i + 1 \in A
    <2> SUFFICES ASSUME NEW i \in 0 .. k - 1, i \in A PROVE i + 1 \in A
        OBVIOUS
    <2>1. i + 1 \in 1 .. k /\ (i + 1) - 1 = i /\ base + (i + 1) \in 1 .. Len(intervals)
        OBVIOUS
    <2>2. PICK domain : domain = At(intervals, base + (i + 1), stray)
        OBVIOUS
    <2>3. domain \in Sets /\ Convex(domain)
        BY <2>1, <2>2 DEF At
    <2>4. ~ (Intervals(domain) > 1)
        BY <2>3, ConvexIsOne
    <2>5. h[i + 1] = h[i]
        BY <1>1, <2>1, <2>2, <2>4 DEF Encode
    <2> QED BY <2>1, <2>5
<1> HIDE DEF A
<1>4. \A i \in 0 .. k : i \in A
    BY <1>2, <1>3, RangeInduction, Zenon
<1>5. k \in A
    BY <1>4
<1> QED BY <1>1, <1>5 DEF A

\* A model without selectors: its columns are intervals_, and intervals.
Even(m) == Len(m.intervals) = m.columns /\ \A c \in 1 .. m.columns : Convex(m.intervals[c])

LEMMA MadeEven ==
    ASSUME NEW ds, NEW cons, NEW all, NEW high, NEW m, NEW b, NEW first, NEW extending,
           Founded(ds, cons, m, b, first, extending, all, high),
           Even(m), \A d \in 1 .. Len(ds) : Convex(ds[d].domain),
           NEW r, Made(r, ds, cons, m, b, first, extending)
    PROVE  Even(r.model)
<1>1. PICK p, loop, holes : \E stray \in Sets : MadeBy(r, ds, cons, m, b, first, extending, p, loop, holes, stray)
    BY DEF Made
<1>2. PICK stray \in Sets : MadeBy(r, ds, cons, m, b, first, extending, p, loop, holes, stray)
    BY <1>1
<1>3. MixesIn(loop, ds, p, OldColumns(Len(ds), m, extending), first, m.columns, m.intervals, stray)
    BY <1>2, MadeLeads
<1>4. AllRound(ds, m.columns, m.intervals)
    BY DEF Even, AllRound
<1>5. Rounded(loop, Len(ds), m.columns)
    BY <1>3, <1>4, LoopRounds
<1>6. /\ loop \in Visited(Len(ds)) /\ m.columns \in Nat
      /\ holes = EncodeHoles(loop.intervals, m.columns, Len(loop.bounds), stray)
      /\ r.model.intervals = loop.intervals
      /\ r.model.columns = m.columns + Len(loop.bounds) + holes.selectors
    BY <1>2, <1>3 DEF MadeBy, Adds, MixesIn
<1>7. PICK base \in Nat, k \in Nat : base = m.columns /\ k = Len(loop.bounds)
    BY <1>6 DEF Visited
<1>8. loop.intervals \in Seq(Sets)
    BY <1>6 DEF Visited
<1>9. Len(loop.intervals) = base + k /\ \A c \in 1 .. Len(loop.intervals) : Convex(loop.intervals[c])
    BY <1>5, <1>7 DEF Rounded
<1>10. holes.selectors = 0
    BY <1>6, <1>7, <1>8, <1>9, NoSelectors
<1>11. r.model.columns = base + k
    BY <1>6, <1>7, <1>10
<1> QED BY <1>6, <1>9, <1>11 DEF Even

Smooth == Even(built) /\ \A d \in 1 .. Len(decisions) : Convex(decisions[d].domain)

LEMMA NothingEven == Even(NoModel)
<1>1. Len(NoModel.intervals) = 0 /\ NoModel.columns = 0 /\ \A c : c \notin 1 .. 0
    BY DEF NoModel
<1> QED BY <1>1 DEF Even

LEMMA CutEven ==
    ASSUME NEW m, Even(m), NEW ds, NEW cols \in 0 .. m.columns, NEW rows, m.columns \in Nat,
           NEW mm, mm = CutModel(m, ds, cols, rows)
    PROVE  Even(mm)
<1>1. /\ mm.columns = cols
      /\ mm.intervals = [c \in 1 .. cols |-> IF c <= Len(m.intervals) THEN m.intervals[c] ELSE {}]
    BY DEF CutModel
<1>2. \A c \in 1 .. cols : c <= Len(m.intervals) /\ c \in 1 .. m.columns
    BY DEF Even
<1>3. Len(mm.intervals) = cols
    BY <1>1
<1>4. \A c \in 1 .. cols : mm.intervals[c] = m.intervals[c]
    BY <1>1, <1>2
<1>5. \A c \in 1 .. cols : Convex(mm.intervals[c])
    BY <1>2, <1>4 DEF Even
<1> QED BY <1>1, <1>3, <1>5 DEF Even

LEMMA SmoothLined ==
    ASSUME Smooth
    PROVE  Lined
BY DEF Smooth, Even, Lined

LEMMA SmoothNext ==
    ASSUME \A domain \in Domains : Convex(domain), Inv, ColumnsInv, Smooth, [Next]_vars
    PROVE  Smooth'
<1>1. CASE PushLayer
    <2>1. PICK n \in Nat, added \in Seq(Decision) :
              /\ Len(added) = n /\ decisions' = decisions \o added
              /\ \A d \in 1 .. n : added[d].domain \in Domains
        BY <1>1, Pushed
    <2>2. PICK D \in Nat : D = Len(decisions) /\ decisions \in Seq(Decision)
        BY DEF Inv, ModelInv
    <2>3. /\ Len(decisions') = D + n
          /\ \A d \in 1 .. D : decisions'[d] = decisions[d]
          /\ \A d \in D + 1 .. D + n : decisions'[d] = added[d - D]
        <3>1. /\ Len(decisions \o added) = Len(decisions) + Len(added)
              /\ \A d \in 1 .. Len(decisions) : (decisions \o added)[d] = decisions[d]
              /\ \A d \in Len(decisions) + 1 .. Len(decisions) + Len(added) :
                    (decisions \o added)[d] = added[d - Len(decisions)]
            BY <2>2, ConcatParts, Zenon
        <3> QED BY <2>1, <2>2, <3>1, Zenon
    <2>4. \A d \in D + 1 .. D + n : Convex(decisions'[d].domain)
        <3> TAKE d \in D + 1 .. D + n
        <3>1. PICK q \in 1 .. n : q = d - D
            OBVIOUS
        <3> QED BY <2>1, <2>3, <3>1
    <2>5. \A d \in 1 .. D : Convex(decisions'[d].domain)
        BY <2>2, <2>3 DEF Smooth
    <2>6. \A d \in 1 .. D + n : d \in 1 .. D \/ d \in D + 1 .. D + n
        OBVIOUS
    <2>7. built' = built
        BY <1>1 DEF PushLayer, solver
    <2>8. \A d \in 1 .. Len(decisions') : Convex(decisions'[d].domain)
        BY <2>3, <2>4, <2>5, <2>6
    <2> QED BY <2>7, <2>8 DEF Smooth
<1>2. CASE PopLayer
    <2>1. /\ Len(decisions') <= Len(decisions)
          /\ \A d \in 1 .. Len(decisions') : decisions'[d] = decisions[d]
        <3>1. Len(layers) \in Nat /\ layers # <<>> /\ layers \in Seq(LayerType)
            BY <1>2 DEF Inv, ModelInv, PopLayer
        <3>2. PICK D \in Nat : D = Len(decisions) /\ decisions \in Seq(Decision)
            BY DEF Inv, ModelInv
        <3>3. Len(layers) - 1 \in 0 .. Len(layers)
            BY <3>1
        <3>4. PICK e \in 0 .. D : e = DecisionLayerEnd(Len(layers) - 1)
            BY <3>2, <3>3, LayerEnds DEF Inv
        <3>5. decisions' = SubSeq(decisions, 1, e)
            BY <1>2, <3>4 DEF PopLayer
        <3>6. Len(decisions') = e /\ \A d \in 1 .. e : decisions'[d] = decisions[d]
            BY <3>2, <3>5, SubSeqParts, Zenon
        <3> QED BY <3>2, <3>6
    <2>2. built' = built
        BY <1>2 DEF PopLayer, solver
    <2>3. \A d \in 1 .. Len(decisions') : d \in 1 .. Len(decisions)
        <3>1. Len(decisions) \in Nat /\ Len(decisions') \in Nat
            BY <1>2, PopInv DEF Inv, ModelInv
        <3> QED BY <2>1, <3>1
    <2> QED BY <2>1, <2>2, <2>3 DEF Smooth
<1>3. CASE RunStart
    <2>1. pc = "idle" /\ decisions' = decisions
        BY <1>3 DEF RunStart, caller, model
    <2>2. CASE Keep = 0
        BY <1>3, <2>1, <2>2, NothingEven DEF RunStart, Smooth
    <2>3. CASE Keep # 0 /\ Keep < builtLayers
        <3>1. layerEnd[Keep].columns \in 0 .. built.columns /\ built.columns \in Nat
            <4>1. built'.columns = layerEnd[Keep].columns /\ Keep \in 1 .. Len(layerEnd)
                BY <1>3, <2>1, <2>3, CutTo
            <4>2. layerEnd \in Seq(EndType) /\ Within(Keep)
                BY <4>1 DEF Inv, EndsInv
            <4>3. layerEnd[Keep] \in EndType
                BY <4>1, <4>2
            <4> QED BY <4>2, <4>3 DEF Within, EndType, Inv, Sized, Models
        <3>2. built' = CutModel(built, layerEnd[Keep].decisions, layerEnd[Keep].columns, layerEnd[Keep].rows)
            <4>1. builtLayers \in Nat /\ Keep \in Nat
                BY <2>1, KeepIs
            <4>2. ~ (Keep = builtLayers)
                BY <2>3, <4>1
            <4> QED BY <1>3, <2>3, <4>2, Zenon DEF RunStart
        <3>3. Even(built')
            BY <3>1, <3>2, CutEven, Zenon DEF Smooth
        <3> QED BY <2>1, <3>3 DEF Smooth
    <2>4. CASE UNCHANGED built
        BY <2>1, <2>4 DEF Smooth
    <2> QED BY <1>3, <2>2, <2>3, <2>4 DEF RunStart
<1>4. CASE BuildLayer
    <2>1. pc = "building" /\ level < Len(layers)
        BY <1>4, BuildLayerCases
    <2>2. \A d \in 1 .. Len(decisions) : Convex(decisions[d].domain)
        BY DEF Smooth
    <2>3. ASSUME NEW r, LayerBuilt(r),
                 Made(r, decisions, Above(level), built, backend, DecisionLayerEnd(level), level # 0)
          PROVE  Smooth'
        <3>1. Len(built.column) = DecisionLayerEnd(level)
            BY <2>3 DEF Made, MadeBy
        <3>2. Founded(decisions, Above(level), built, backend, DecisionLayerEnd(level), level # 0,
                      constraints, ConstraintLayerEnd(level))
            BY <2>1, <3>1, SmoothLined, LayerFounded
        <3>3. Even(built)
            BY DEF Smooth
        <3>4. Even(r.model)
            BY <2>2, <2>3, <3>2, <3>3, MadeEven, Zenon
        <3>5. built' = r.model /\ decisions' = decisions
            BY <2>3 DEF LayerBuilt, caller, model
        <3> QED BY <2>2, <3>4, <3>5 DEF Smooth
    <2>4. ASSUME NEW r, AllBuilt(r),
                 Made(r, decisions, constraints, NoModel, EmptyBackend, 0, FALSE)
          PROVE  Smooth'
        <3>1. Founded(decisions, constraints, NoModel, EmptyBackend, 0, FALSE, constraints, 0)
            BY WholeFounded
        <3>2. Even(r.model)
            BY <2>2, <2>4, <3>1, NothingEven, MadeEven, Zenon
        <3>3. built' = r.model /\ decisions' = decisions
            BY <2>4 DEF AllBuilt, caller, model
        <3> QED BY <2>2, <3>2, <3>3 DEF Smooth
    <2>5. CASE RunFails
        BY <2>2, <2>5, NothingEven DEF RunFails, Smooth, model
    <2> QED BY <1>4, <2>3, <2>4, <2>5, BuildLayerCases
<1>5. CASE SetObjective \/ ClearObjective \/ RunStopped \/ StartSolve \/ (\E o \in program.outcomes : EndRun(o)) \/ UNCHANGED vars
    <2>1. built' = built /\ decisions' = decisions
        BY <1>5 DEF SetObjective, ClearObjective, RunStopped, StartSolve, EndRun, vars, caller, model, solver
    <2> QED BY <2>1 DEF Smooth
<1> QED BY <1>1, <1>2, <1>3, <1>4, <1>5 DEF Next

\* A caller that declares decisions in every layer it pushes on another, and
\* whose domains are intervals, meets both conditions, in whatever order it pushes,
\* retracts and runs: no column gets selectors, so that intervals_ and the columns
\* keep lining up.
COROLLARY IntervalColumnsCorrect ==
    ASSUME \A p \in Programs : /\ 0 \notin p.upperDecisions
                               /\ \A domain \in p.baseDomains \cup p.upperDomains : Convex(domain)
    PROVE  Spec /\ SeenStops => []ColumnsAsFromNothing
<1>1. \A p \in Programs : 0 \notin p.upperDecisions
    OBVIOUS
<1>2. \A domain \in Domains : Convex(domain)
    BY DEF Domains
<1>3. Init => Declaring /\ Smooth /\ ColumnsInv
    <2>1. Init => Declaring
        BY DEF Init, Declaring
    <2>2. Init => Smooth
        BY NothingEven DEF Init, Smooth
    <2> QED BY <2>1, <2>2, ColumnsInit
<1>4. Inv /\ Declaring /\ Smooth /\ ColumnsInv /\ [Next]_vars => Declaring' /\ Smooth' /\ ColumnsInv'
    <2> SUFFICES ASSUME Inv, Declaring, Smooth, ColumnsInv, [Next]_vars
                 PROVE  Declaring' /\ Smooth' /\ ColumnsInv'
        OBVIOUS
    <2>1. Declaring'
        BY <1>1, DeclaringStep
    <2>2. Smooth'
        BY <1>2, SmoothNext
    <2>3. ColumnsInv'
        BY DeclaringOnce, SmoothLined, ColumnsNext
    <2> QED BY <2>1, <2>2, <2>3
<1>5. Inv /\ Declaring /\ Smooth => Once /\ Lined
    BY DeclaringOnce, SmoothLined
<1> QED BY <1>3, <1>4, <1>5, Invariance, ColumnsCorrect, PTL DEF Spec

=============================================================================
