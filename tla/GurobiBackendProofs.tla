------------------------ MODULE GurobiBackendProofs -------------------------
(***************************************************************************)
(* Theorems about GurobiBackend, for any number of columns, rows and       *)
(* layers: the one row number of the core and Gurobi's three sequences     *)
(* never come apart, provided gurobi_dll is not changed while the core     *)
(* believes that a library which could not be loaded holds a model.        *)
(***************************************************************************)
EXTENDS GurobiBackend, FiniteSetTheorems, SequenceTheorems, TLAPS

-----------------------------------------------------------------------------
(* Ordered lists of numbers.                                               *)

\* How many numbers there are from a to b.
LEMMA CardFromTo ==
    ASSUME NEW a \in Int, NEW b \in Int, a <= b + 1
    PROVE  IsFiniteSet(a .. b) /\ Cardinality(a .. b) = b - a + 1
<1>1. IsFiniteSet(a .. b) /\ Cardinality(a .. b) = IF a > b THEN 0 ELSE b - a + 1
    BY FS_Interval
<1> QED
    BY <1>1

\* A list in order has as many entries as there are numbers in it.
LEMMA ListsLen ==
    ASSUME NEW q \in Seq(Nat), NEW S, Lists(q, S)
    PROVE  IsFiniteSet(S) /\ Cardinality(S) = Len(q)
<1> DEFINE n == Len(q)
           at == [i \in 1 .. n |-> q[i]]
<1>1. n \in Nat /\ \A i \in 1 .. n : q[i] \in S /\ q[i] \in Nat
    BY DEF Lists
<1>2. at \in Bijection(1 .. n, S)
    <2>1. at \in [1 .. n -> S]
        BY <1>1
    <2>2. \A i, j \in 1 .. n : i # j => at[i] # at[j]
        BY <1>1 DEF Lists
    <2>3. \A x \in S : \E i \in 1 .. n : at[i] = x
        BY DEF Lists
    <2> QED
        BY <2>1, <2>2, <2>3 DEF Bijection, Injection, Surjection, IsInjective
<1> HIDE DEF at, n
<1>3. IsFiniteSet(1 .. n) /\ Cardinality(1 .. n) = n
    BY <1>1, CardFromTo
<1>4. ExistsBijection(1 .. n, S)
    BY <1>2 DEF ExistsBijection
<1> QED
    BY <1>3, <1>4, FS_Bijection DEF n

\* As many numbers of the list are above f as its last entries are.
LEMMA AboveAreLast ==
    ASSUME NEW q \in Seq(Nat), NEW S, Lists(q, S), NEW f \in Nat
    PROVE  LET k == Cardinality({x \in S : x > f})
           IN  /\ k \in 0 .. Len(q)
               /\ \A i \in 1 .. Len(q) : q[i] > f <=> i > Len(q) - k
<1> DEFINE n == Len(q)
           D == {x \in S : x > f}
           P == {i \in 1 .. n : q[i] > f}
           at == [i \in P |-> q[i]]
<1>0. n \in Nat /\ \A i \in 1 .. n : q[i] \in Nat /\ q[i] \in S
    BY DEF Lists
<1>1. IsFiniteSet(1 .. n) /\ Cardinality(1 .. n) = n
    <2> HIDE DEF n
    <2> QED
        BY <1>0, CardFromTo
<1>2. IsFiniteSet(P) /\ Cardinality(P) <= n /\ Cardinality(P) \in Nat
    BY <1>1, FS_Subset, FS_CardinalityType
<1>3. IsFiniteSet(D) /\ Cardinality(D) = Cardinality(P)
    <2>1. at \in [P -> D]
        BY <1>0
    <2>2. \A i, j \in P : i # j => at[i] # at[j]
        BY <1>0 DEF Lists
    <2>3. \A x \in D : \E i \in P : at[i] = x
        BY DEF Lists
    <2>4. at \in Bijection(P, D)
        BY <2>1, <2>2, <2>3 DEF Bijection, Injection, Surjection, IsInjective
    <2> HIDE DEF at, P, D
    <2> QED
        BY <1>2, <2>4, FS_Bijection DEF ExistsBijection
<1>4. ASSUME NEW i \in 1 .. n, q[i] > f
      PROVE  i > n - Cardinality(P)
    <2>1. i .. n \subseteq P
        <3> SUFFICES ASSUME NEW j \in i .. n PROVE j \in 1 .. n /\ q[j] > f
            OBVIOUS
        <3>1. j \in 1 .. n /\ (i = j \/ i < j)
            BY <1>0
        <3>2. i < j => q[i] < q[j]
            BY <3>1 DEF Lists
        <3> QED
            BY <3>1, <3>2, <1>0, <1>4
    <2>2. Cardinality(i .. n) <= Cardinality(P)
        BY <1>2, <2>1, FS_Subset
    <2>3. Cardinality(i .. n) = n - i + 1
        <3> HIDE DEF n
        <3> QED BY <1>0, CardFromTo
    <2> HIDE DEF P
    <2> QED
        BY <1>0, <1>2, <2>2, <2>3
<1>5. ASSUME NEW i \in 1 .. n, ~(q[i] > f)
      PROVE  ~(i > n - Cardinality(P))
    <2>1. P \subseteq i + 1 .. n
        <3> SUFFICES ASSUME NEW j \in 1 .. n, q[j] > f PROVE j \in i + 1 .. n
            OBVIOUS
        <3>1. j < i => q[j] < q[i]
            BY DEF Lists
        <3> QED
            BY <3>1, <1>0, <1>5
    <2>2. IsFiniteSet(i + 1 .. n) /\ Cardinality(i + 1 .. n) = n - i
        <3> HIDE DEF n
        <3> QED BY <1>0, CardFromTo
    <2>3. Cardinality(P) <= n - i
        BY <2>1, <2>2, FS_Subset
    <2> HIDE DEF P
    <2> QED
        BY <1>0, <1>2, <2>3
<1>6. Cardinality(D) \in 0 .. n
    <2> HIDE DEF P, D, n
    <2> QED
        BY <1>0, <1>2, <1>3
<1>7. \A i \in 1 .. n : q[i] > f <=> i > n - Cardinality(D)
    BY <1>3, <1>4, <1>5
<1> QED
    BY <1>6, <1>7

\* Dropping as many entries as there are numbers above f drops just those.
LEMMA DropListsRest ==
    ASSUME NEW q \in Seq(Nat), NEW S, Lists(q, S), NEW f \in Nat
    PROVE  LET d == DropLast(q, Cardinality({x \in S : x > f}))
           IN  d \in Seq(Nat) /\ Lists(d, {x \in S : x <= f})
<1> DEFINE n == Len(q)
           k == Cardinality({x \in S : x > f})
           d == SubSeq(q, 1, n - k)
<1>0. /\ n \in Nat
      /\ \A i \in 1 .. n : q[i] \in Nat /\ q[i] \in S
      /\ \A x \in S : \E i \in 1 .. n : x = q[i]
      /\ \A i, j \in 1 .. n : i < j => q[i] < q[j]
    BY DEF Lists
<1>1. k \in 0 .. n /\ \A i \in 1 .. n : q[i] > f <=> i > n - k
    BY AboveAreLast
<1> HIDE DEF k
<1>2. DropLast(q, k) = d
    BY <1>0, <1>1 DEF DropLast
<1>3. /\ d \in Seq(Nat) /\ Len(d) = n - k
      /\ \A i \in 1 .. n - k : d[i] = q[i]
    BY <1>0, <1>1
<1>4. Lists(d, {x \in S : x <= f})
    <2>1. ASSUME NEW i \in 1 .. n - k
          PROVE  d[i] \in S /\ d[i] <= f
        <3> HIDE DEF d, n
        <3>1. i \in 1 .. n /\ ~(i > n - k)
            BY <1>0, <1>1
        <3>2. q[i] \in S /\ q[i] \in Nat /\ ~(q[i] > f)
            BY <1>0, <1>1, <3>1
        <3>3. d[i] = q[i]
            BY <1>3
        <3> QED
            BY <3>2, <3>3
    <2>2. ASSUME NEW x \in S, x <= f
          PROVE  \E i \in 1 .. n - k : d[i] = x
        <3>1. PICK i \in 1 .. n : x = q[i]
            BY <1>0
        <3>2. i \in 1 .. n - k
            BY <1>0, <1>1, <2>2, <3>1
        <3> QED
            BY <1>3, <3>1, <3>2
    <2>3. \A i, j \in 1 .. n - k : i < j => d[i] < d[j]
        <3> HIDE DEF d, n
        <3>1. 1 .. n - k \subseteq 1 .. n
            BY <1>0, <1>1
        <3> QED
            BY <1>0, <1>3, <3>1
    <2> HIDE DEF d, n
    <2> QED
        BY <1>3, <2>1, <2>2, <2>3 DEF Lists
<1> HIDE DEF d
<1> QED
    BY <1>2, <1>3, <1>4 DEF k

\* A list is extended by a number above all of it.
LEMMA AppendLists ==
    ASSUME NEW q \in Seq(Nat), NEW n \in Nat, NEW S \in SUBSET (1 .. n), Lists(q, S)
    PROVE  Lists(Append(q, n + 1), S \cup {n + 1})
<1> DEFINE m == Len(q)
           a == Append(q, n + 1)
<1>0. /\ m \in Nat
      /\ \A i \in 1 .. m : q[i] \in S /\ q[i] \in 1 .. n
      /\ \A x \in S : \E i \in 1 .. m : x = q[i]
      /\ \A i, j \in 1 .. m : i < j => q[i] < q[j]
    BY DEF Lists
<1>1. Len(a) = m + 1 /\ a[m + 1] = n + 1 /\ \A i \in 1 .. m : a[i] = q[i]
    OBVIOUS
<1> HIDE DEF a, m
<1>2. ASSUME NEW i \in 1 .. m + 1 PROVE a[i] \in S \cup {n + 1}
    <2>1. i \in 1 .. m \/ i = m + 1
        BY <1>0
    <2> QED
        BY <2>1, <1>0, <1>1
<1>3. ASSUME NEW x \in S \cup {n + 1} PROVE \E i \in 1 .. m + 1 : a[i] = x
    <2>1. CASE x \in S
        <3>1. PICK i \in 1 .. m : x = q[i]
            BY <1>0, <2>1
        <3> QED
            BY <1>0, <1>1, <3>1
    <2>2. CASE x = n + 1
        BY <1>0, <1>1, <2>2
    <2> QED
        BY <2>1, <2>2
<1>4. \A i, j \in 1 .. m + 1 : i < j => a[i] < a[j]
    <2> SUFFICES ASSUME NEW i \in 1 .. m + 1, NEW j \in 1 .. m + 1, i < j
                 PROVE  a[i] < a[j]
        OBVIOUS
    <2>1. i \in 1 .. m
        BY <1>0
    <2>2. CASE j \in 1 .. m
        BY <1>0, <1>1, <2>1, <2>2
    <2>3. CASE j = m + 1
        BY <1>0, <1>1, <2>1, <2>3
    <2> QED
        BY <1>0, <2>2, <2>3
<1> QED
    BY <1>1, <1>2, <1>3, <1>4 DEF Lists, a

\* ... and by the next numbers, if it lists all there were.
LEMMA ConcatLists ==
    ASSUME NEW q \in Seq(Nat), NEW c \in Nat, NEW n \in Nat, Lists(q, 1 .. c)
    PROVE  Lists(q \o [i \in 1 .. n |-> c + i], 1 .. c + n)
<1> DEFINE w == [i \in 1 .. n |-> c + i]
           a == q \o w
<1>0. /\ Len(q) = c
      /\ \A i \in 1 .. c : q[i] \in 1 .. c
      /\ \A x \in 1 .. c : \E i \in 1 .. c : x = q[i]
      /\ \A i, j \in 1 .. c : i < j => q[i] < q[j]
    <2>1. Cardinality(1 .. c) = c
        BY FS_Interval
    <2>2. Len(q) = c
        BY <2>1, ListsLen
    <2> QED
        BY <2>2 DEF Lists
<1>1. w \in Seq(Nat) /\ Len(w) = n /\ \A i \in 1 .. n : w[i] = c + i
    OBVIOUS
<1> HIDE DEF w
<1>2. /\ Len(a) = c + n
      /\ \A i \in 1 .. c : a[i] = q[i]
      /\ \A i \in c + 1 .. c + n : a[i] = i
    <2>1. /\ Len(a) = c + n
          /\ \A i \in 1 .. c + n : a[i] = IF i <= c THEN q[i] ELSE w[i - c]
        <3>1. /\ Len(q \o w) = Len(q) + Len(w)
              /\ \A i \in 1 .. Len(q) + Len(w) :
                    (q \o w)[i] = IF i <= Len(q) THEN q[i] ELSE w[i - Len(q)]
            BY <1>1, ConcatProperties
        <3> QED
            BY <3>1, <1>0, <1>1
    <2>2. ASSUME NEW i \in c + 1 .. c + n PROVE a[i] = i
        <3>1. i \in 1 .. c + n /\ ~(i <= c) /\ i - c \in 1 .. n
            OBVIOUS
        <3>2. w[i - c] = c + (i - c)
            BY <1>1, <3>1
        <3> QED
            BY <2>1, <3>1, <3>2
    <2> QED
        BY <2>1, <2>2
<1> HIDE DEF a
<1>3. \A i \in 1 .. c + n : a[i] \in 1 .. c + n
    BY <1>0, <1>2
<1>4. ASSUME NEW x \in 1 .. c + n PROVE \E i \in 1 .. c + n : a[i] = x
    <2>1. CASE x \in 1 .. c
        <3>1. PICK i \in 1 .. c : x = q[i]
            BY <1>0, <2>1
        <3> QED
            BY <1>2, <3>1
    <2>2. CASE x \in c + 1 .. c + n
        BY <1>2, <2>2
    <2> QED
        BY <2>1, <2>2
<1>5. \A i, j \in 1 .. c + n : i < j => a[i] < a[j]
    <2> SUFFICES ASSUME NEW i \in 1 .. c + n, NEW j \in 1 .. c + n, i < j
                 PROVE  a[i] < a[j]
        OBVIOUS
    <2>1. CASE j \in 1 .. c
        BY <1>0, <1>2, <2>1
    <2>2. CASE j \in c + 1 .. c + n /\ i \in 1 .. c
        BY <1>0, <1>2, <2>2
    <2>3. CASE j \in c + 1 .. c + n /\ i \in c + 1 .. c + n
        BY <1>2, <2>3
    <2> QED
        BY <2>1, <2>2, <2>3
<1>6. Lists(a, 1 .. c + n)
    BY <1>2, <1>3, <1>4, <1>5 DEF Lists
<1> QED
    BY <1>6 DEF a, w

-----------------------------------------------------------------------------
(* The inductive invariant.                                                *)

\* The core believes that the backend holds what it posted.
Live == pc # "idle" \/ builtLayers # 0

\* ... which needs that a failed load is not tried again meanwhile.
Decided == Live => lib.env \/ lib.tried

\* What the core posted is in Gurobi, and its columns do not wait.
Agree == lib.env /\ Live => rowKind = rows /\ \A s \in Kept : Lists(Updated[s], Posted(s))

NoneWaits == waiting["column"] = <<>>

\* The layer ends are ordered, and below what was posted.
EndsOrdered ==
    /\ \A k \in 1 .. Len(layerEnd) :
          layerEnd[k].rows <= Len(rows) /\ layerEnd[k].columns <= columns
    /\ \A j, k \in 1 .. Len(layerEnd) :
          j < k => /\ layerEnd[j].rows <= layerEnd[k].rows
                   /\ layerEnd[j].columns <= layerEnd[k].columns

\* A run ends with a layer end for each built layer, and builds no more than
\* it was asked for.
LayersCounted ==
    /\ Len(layerEnd) <= MaxLayers
    /\ pc \in {"idle", "start"} => Len(layerEnd) = builtLayers
    /\ pc \in {"columns", "rows"} /\ goal = 0 => layerEnd = <<>>
    /\ pc \in {"columns", "rows"} /\ goal # 0 => Len(layerEnd) < goal

IInv ==
    /\ TypeOK /\ Decided /\ Agree /\ NoneWaits /\ EndsOrdered /\ LayersCounted
    /\ FailureTold /\ NothingRefused

\* What concerns the backend alone, apart from how many rows it has.
BackendOK ==
    /\ lib \in [env : BOOLEAN, tried : BOOLEAN, error : BOOLEAN]
    /\ rowKind \in Seq(RowKinds)
    /\ held \in [Kept -> Seq(Nat)]
    /\ waiting \in [Kept -> Seq(Nat)]
    /\ refused \in BOOLEAN
    /\ NoneWaits /\ FailureTold /\ NothingRefused

\* The invariant holds of the backend what its methods need.
LEMMA BackendIsOK == IInv => BackendOK /\ Decided /\ Agree
BY DEF IInv, TypeOK, BackendOK

\* A method that needs the library leaves it loaded or given up, and one that
\* is loaded or given up as it is.
LEMMA AskedOnce ==
    ASSUME BackendOK, lib' \in Asked(lib)
    PROVE  /\ lib' \in [env : BOOLEAN, tried : BOOLEAN, error : BOOLEAN]
           /\ lib'.env \/ lib'.tried
           /\ FailureTold'
           /\ lib.env \/ lib.tried => lib' = lib
<1>1. CASE lib.env \/ lib.tried
    <2>1. lib' = lib
        BY <1>1 DEF Asked
    <2> QED
        BY <1>1, <2>1 DEF BackendOK, FailureTold
<1>2. CASE ~(lib.env \/ lib.tried)
    <2>1. CASE lib' = Loaded
        BY <1>2, <2>1 DEF Loaded, FailureTold
    <2>2. CASE lib' = Unloaded
        BY <1>2, <2>2 DEF Unloaded, FailureTold
    <2> QED
        BY <1>2, <2>1, <2>2 DEF Asked
<1> QED
    BY <1>1, <1>2

\* What waits is of the sequences' type.
LEMMA UpdatedType ==
    ASSUME BackendOK
    PROVE  /\ Updated \in [Kept -> Seq(Nat)]
           /\ Updated["column"] = held["column"]
<1>1. ASSUME NEW q \in Seq(Nat), NEW w \in Seq(Nat) PROVE q \o w \in Seq(Nat)
    BY ConcatProperties
<1>2. ASSUME NEW q \in Seq(Nat) PROVE q \o <<>> = q
    BY ConcatEmptySeq
<1>3. "column" \in Kept
    BY DEF Kept
<1> QED
    BY <1>1, <1>2, <1>3 DEF BackendOK, Updated, NoneWaits

\* Sequences of which nothing waits are what a query sees.
LEMMA UpdatedHeld ==
    ASSUME held' \in [Kept -> Seq(Nat)], waiting' = Empty
    PROVE  waiting' \in [Kept -> Seq(Nat)] /\ NoneWaits' /\ Updated' = held'
<1>1. ASSUME NEW q \in Seq(Nat) PROVE q \o <<>> = q
    BY ConcatEmptySeq
<1>2. "column" \in Kept
    BY DEF Kept
<1>3. waiting' \in [Kept -> Seq(Nat)] /\ NoneWaits'
    BY <1>2 DEF Empty, NoneWaits
<1>4. Updated' = held'
    BY <1>1 DEF Empty, Updated
<1> QED
    BY <1>3, <1>4

-----------------------------------------------------------------------------
(* The methods.                                                            *)

\* reset leaves a model with nothing in it, if there can be one.
LEMMA ResetDoes ==
    ASSUME BackendOK, Reset
    PROVE  /\ BackendOK'
           /\ lib'.env \/ lib'.tried
           /\ lib'.env => rowKind' = <<>> /\ Updated' = Empty
           /\ ~lib'.env => rowKind' = rowKind
<1>0. /\ lib' \in [env : BOOLEAN, tried : BOOLEAN, error : BOOLEAN]
      /\ lib'.env \/ lib'.tried
      /\ FailureTold'
    BY AskedOnce DEF Reset
<1>1. CASE Unready
    BY <1>0, <1>1 DEF BackendOK, Unready, model, NoneWaits, NothingRefused
<1>2. CASE lib'.env /\ rowKind' = <<>> /\ held' = Empty /\ waiting' = Empty /\ UNCHANGED refused
    <2>1. held' \in [Kept -> Seq(Nat)]
        BY <1>2 DEF Empty
    <2>2. waiting' \in [Kept -> Seq(Nat)] /\ NoneWaits' /\ Updated' = held'
        BY <1>2, <2>1, UpdatedHeld
    <2> QED
        BY <1>0, <1>2, <2>1, <2>2 DEF BackendOK, NothingRefused
<1> QED
    BY <1>1, <1>2 DEF Reset

\* add_columns continues the list of columns.
LEMMA AddColumnsDoes ==
    ASSUME BackendOK, Decided, Live, NEW n \in Nat, columns \in Nat, AddColumns(n),
           lib.env => \A s \in Kept : Lists(Updated[s], Posted(s)),
           columns' = columns + n, rows' = rows
    PROVE  /\ BackendOK' /\ lib' = lib /\ rowKind' = rowKind
           /\ lib.env => \A s \in Kept : Lists(Updated'[s], Posted(s)')
<1>0. lib' = lib /\ FailureTold' /\ rowKind' = rowKind
    BY AskedOnce DEF AddColumns, Decided, Unready, model
<1>1. CASE UNCHANGED <<model, refused>> /\ (n = 0 \/ ~lib'.env)
    <2>1. BackendOK' /\ Updated' = Updated
        BY <1>0, <1>1 DEF BackendOK, model, NoneWaits, NothingRefused, Updated
    <2>2. n = 0 => columns' = columns
        OBVIOUS
    <2> QED
        BY <1>0, <1>1, <2>1, <2>2 DEF Posted
<1>2. CASE /\ lib'.env /\ n > 0
           /\ held' = [Updated EXCEPT !["column"] = @ \o NewColumns(n)]
           /\ waiting' = Empty
           /\ UNCHANGED <<rowKind, refused>>
    <2>1. NewColumns(n) \in Seq(Nat) /\ NewColumns(n) = [i \in 1 .. n |-> columns + i]
        BY DEF NewColumns
    <2>2. Updated \in [Kept -> Seq(Nat)] /\ "column" \in Kept
        BY UpdatedType DEF Kept
    <2>3. Updated["column"] \o NewColumns(n) \in Seq(Nat)
        BY <2>1, <2>2, ConcatProperties
    <2>4. /\ held' \in [Kept -> Seq(Nat)]
          /\ held'["column"] = Updated["column"] \o NewColumns(n)
          /\ \A s \in RowKinds : held'[s] = Updated[s]
        BY <1>2, <2>2, <2>3 DEF Kept, RowKinds
    <2>5. waiting' \in [Kept -> Seq(Nat)] /\ NoneWaits' /\ Updated' = held'
        BY <1>2, <2>4, UpdatedHeld
    <2>6. Lists(Updated["column"], 1 .. columns)
        BY <1>0, <1>2, <2>2 DEF Posted
    <2>7. Lists(held'["column"], 1 .. columns + n)
        BY <2>1, <2>2, <2>4, <2>6, ConcatLists
    <2>8. ASSUME NEW s \in Kept PROVE Lists(Updated'[s], Posted(s)')
        <3>1. CASE s = "column"
            BY <2>5, <2>7, <3>1 DEF Posted
        <3>2. CASE s # "column"
            BY <1>0, <1>2, <2>4, <2>5, <3>2 DEF Posted, Kept
        <3> QED
            BY <3>1, <3>2
    <2> QED
        BY <1>0, <1>2, <2>4, <2>5, <2>8 DEF BackendOK, NothingRefused
<1> QED
    BY <1>1, <1>2 DEF AddColumns, Unready

\* A row goes to the end of its kind's sequence, as its number is the largest.
LEMMA AddRowDoes ==
    ASSUME BackendOK, Decided, Live, NEW kind \in RowKinds, rows \in Seq(RowKinds),
           AddRow(kind),
           lib.env => rowKind = rows /\ \A s \in Kept : Lists(Updated[s], Posted(s)),
           columns' = columns, rows' = Append(rows, kind)
    PROVE  /\ BackendOK' /\ lib' = lib
           /\ lib.env => rowKind' = rows' /\ \A s \in Kept : Lists(Updated'[s], Posted(s)')
           /\ ~lib.env => rowKind' = rowKind
<1>0. lib' = lib /\ FailureTold'
    BY AskedOnce DEF AddRow, Decided
<1>1. CASE Unready
    BY <1>0, <1>1 DEF BackendOK, Unready, model, NoneWaits, NothingRefused
<1>2. CASE /\ lib'.env
           /\ waiting' = [waiting EXCEPT ![kind] = Append(@, Len(rows) + 1)]
           /\ rowKind' = Append(rowKind, kind)
           /\ UNCHANGED <<held, refused>>
    <2> DEFINE n == Len(rows)
    <2>0. n \in Nat /\ kind \in Kept /\ kind # "column"
        BY DEF Kept, RowKinds
    <2>1. waiting[kind] \in Seq(Nat) /\ held[kind] \in Seq(Nat) /\ Updated[kind] \in Seq(Nat)
        BY <2>0, UpdatedType DEF BackendOK
    <2>2. /\ waiting'[kind] = Append(waiting[kind], n + 1)
          /\ \A s \in Kept : s # kind => waiting'[s] = waiting[s]
          /\ waiting' \in [Kept -> Seq(Nat)]
        BY <1>2, <2>0, <2>1 DEF BackendOK
    <2>3. held[kind] \o Append(waiting[kind], n + 1) = Append(Updated[kind], n + 1)
        <3>1. \A q, w \in Seq(Nat), x \in Nat : q \o Append(w, x) = Append(q \o w, x)
            OBVIOUS
        <3>2. n + 1 \in Nat
            BY <2>0
        <3>3. Updated[kind] = held[kind] \o waiting[kind]
            BY <2>0 DEF Updated
        <3> HIDE DEF n
        <3>4. held[kind] \o Append(waiting[kind], n + 1)
                 = Append(held[kind] \o waiting[kind], n + 1)
            BY <2>1, <3>1, <3>2
        <3> QED
            BY <3>3, <3>4
    <2>4. /\ Updated'[kind] = Append(Updated[kind], n + 1)
          /\ \A s \in Kept : s # kind => Updated'[s] = Updated[s]
        BY <1>2, <2>0, <2>2, <2>3 DEF Updated
    <2>5. rows'[n + 1] = kind /\ Len(rows') = n + 1 /\ \A r \in 1 .. n : rows'[r] = rows[r]
        OBVIOUS
    <2>6. Posted(kind)' = Posted(kind) \cup {n + 1} /\ Posted(kind) \in SUBSET (1 .. n)
        BY <2>0, <2>5 DEF Posted
    <2>7. ASSUME NEW s \in Kept, s # kind PROVE Posted(s)' = Posted(s)
        <3>1. CASE s = "column"
            BY <3>1 DEF Posted
        <3>2. CASE s # "column"
            <4> HIDE DEF n
            <4>1. {r \in 1 .. n + 1 : rows'[r] = s} = {r \in 1 .. n : rows[r] = s}
                BY <2>0, <2>5, <2>7
            <4> QED
                BY <3>2, <4>1, <2>5 DEF Posted, n
        <3> QED
            BY <3>1, <3>2
    <2> HIDE DEF n
    <2>8. ASSUME NEW s \in Kept PROVE Lists(Updated'[s], Posted(s)')
        <3>1. CASE s = kind
            <4>1. Lists(Append(Updated[kind], n + 1), Posted(kind) \cup {n + 1})
                BY <1>0, <1>2, <2>0, <2>1, <2>6, AppendLists
            <4> QED
                BY <3>1, <2>4, <2>6, <4>1
        <3>2. CASE s # kind
            BY <1>0, <1>2, <3>2, <2>4, <2>7
        <3> QED
            BY <3>1, <3>2
    <2>9. NoneWaits'
        BY <2>0, <2>2 DEF BackendOK, NoneWaits, Kept
    <2>10. rowKind' \in Seq(RowKinds) /\ (lib.env => rowKind' = rows')
        BY <1>2 DEF BackendOK
    <2> QED
        BY <1>0, <1>2, <2>2, <2>8, <2>9, <2>10 DEF BackendOK, NothingRefused
<1> QED
    BY <1>1, <1>2 DEF AddRow

\* truncate leaves in each sequence what is below the cut, and nothing else.
LEMMA TruncateDoes ==
    ASSUME BackendOK, Decided, Live, rows \in Seq(RowKinds), columns \in Nat,
           NEW r \in 0 .. Len(rows), NEW c \in 0 .. columns,
           Truncate(r, c),
           lib.env => rowKind = rows /\ \A s \in Kept : Lists(Updated[s], Posted(s)),
           rows' = SubSeq(rows, 1, r), columns' = c
    PROVE  /\ BackendOK' /\ lib' = lib
           /\ lib.env => rowKind' = rows' /\ \A s \in Kept : Lists(Updated'[s], Posted(s)')
           /\ ~lib.env => rowKind' = rowKind
<1>0. lib' = lib /\ FailureTold'
    BY AskedOnce DEF Truncate, Decided
<1>1. CASE Unready
    BY <1>0, <1>1 DEF BackendOK, Unready, model, NoneWaits, NothingRefused
<1>2. CASE /\ lib'.env
           /\ held' = [s \in Kept |-> DropLast(Updated[s], Doomed(s, r, c, Updated[s]))]
           /\ waiting' = Empty
           /\ rowKind' = SubSeq(rowKind, 1, IF r < Len(rowKind) THEN r ELSE Len(rowKind))
           /\ UNCHANGED refused
    <2>0. /\ Updated \in [Kept -> Seq(Nat)]
          /\ rowKind = rows
          /\ \A s \in Kept : Lists(Updated[s], Posted(s))
        BY <1>0, <1>2, UpdatedType
    <2>1. rowKind' = rows' /\ rows' \in Seq(RowKinds) /\ Len(rows') = r
          /\ \A i \in 1 .. r : rows'[i] = rows[i]
        BY <1>2, <2>0
    <2>2. ASSUME NEW s \in Kept
          PROVE  held'[s] \in Seq(Nat) /\ Lists(held'[s], Posted(s)')
        <3> DEFINE q == Updated[s]
        <3>0. q \in Seq(Nat) /\ Lists(q, Posted(s))
            BY <2>0
        <3>1. CASE s = "column"
            <4>1. Posted(s) = 1 .. columns /\ Posted(s)' = 1 .. c
                BY <3>1 DEF Posted
            <4>2. {x \in 1 .. columns : x > c} = c + 1 .. columns
                OBVIOUS
            <4>3. Cardinality({x \in Posted(s) : x > c}) = columns - c
                <5>1. Cardinality(c + 1 .. columns) = columns - c
                    BY CardFromTo
                <5> QED
                    BY <4>1, <4>2, <5>1
            <4>4. Len(q) = columns
                BY <3>0, <4>1, ListsLen, CardFromTo
            <4>5. Doomed(s, r, c, q) = columns - c
                BY <3>1, <4>4 DEF Doomed
            <4>6. {x \in Posted(s) : x <= c} = Posted(s)'
                BY <4>1
            <4> HIDE DEF q
            <4>7. LET d == DropLast(q, columns - c)
                  IN  d \in Seq(Nat) /\ Lists(d, Posted(s)')
                BY <3>0, <4>3, <4>6, DropListsRest
            <4> QED
                BY <1>2, <4>5, <4>7 DEF q
        <3>2. CASE s # "column"
            <4>1. Posted(s) = {i \in 1 .. Len(rows) : rows[i] = s}
                BY <3>2 DEF Posted
            <4>2. {x \in Posted(s) : x > r} = {i \in r + 1 .. Len(rows) : rows[i] = s}
                BY <4>1
            <4>3. Doomed(s, r, c, q) = Cardinality({x \in Posted(s) : x > r})
                BY <2>0, <3>2, <4>2 DEF Doomed
            <4>4. {x \in Posted(s) : x <= r} = Posted(s)'
                BY <2>1, <3>2, <4>1 DEF Posted
            <4> HIDE DEF q
            <4>5. LET d == DropLast(q, Cardinality({x \in Posted(s) : x > r}))
                  IN  d \in Seq(Nat) /\ Lists(d, Posted(s)')
                BY <3>0, <4>4, DropListsRest
            <4> QED
                BY <1>2, <4>3, <4>5 DEF q
        <3> QED
            BY <3>1, <3>2
    <2>3. held' \in [Kept -> Seq(Nat)]
        BY <1>2, <2>2
    <2>4. waiting' \in [Kept -> Seq(Nat)] /\ NoneWaits' /\ Updated' = held'
        BY <1>2, <2>3, UpdatedHeld
    <2> QED
        BY <1>0, <1>2, <2>1, <2>2, <2>3, <2>4 DEF BackendOK, NothingRefused
<1> QED
    BY <1>1, <1>2 DEF Truncate

\* set_start names columns that Gurobi has.
LEMMA SetStartDoes ==
    ASSUME BackendOK, Decided, Live, columns \in Nat,
           NEW cols \in SUBSET (1 .. columns), SetStart(cols),
           lib.env => \A s \in Kept : Lists(Updated[s], Posted(s))
    PROVE  BackendOK' /\ lib' = lib /\ UNCHANGED model
<1>0. lib' = lib /\ FailureTold'
    BY AskedOnce DEF SetStart, Decided
<1>1. CASE Unready
    BY <1>0, <1>1 DEF BackendOK, Unready, model, NoneWaits, NothingRefused
<1>2. CASE /\ lib'.env
           /\ refused' = (refused \/ ~(cols \subseteq 1 .. Len(held["column"])))
           /\ UNCHANGED model
    <2>1. Updated["column"] = held["column"] /\ held["column"] \in Seq(Nat)
        BY UpdatedType DEF BackendOK, Kept
    <2>2. Lists(held["column"], 1 .. columns)
        BY <1>0, <1>2, <2>1 DEF Posted, Kept
    <2>3. Len(held["column"]) = columns
        BY <2>1, <2>2, ListsLen, CardFromTo
    <2>4. ~refused'
        BY <1>2, <2>3 DEF BackendOK, NothingRefused
    <2> QED
        BY <1>0, <1>2, <2>4 DEF BackendOK, model, NoneWaits, NothingRefused
<1> QED
    BY <1>1, <1>2 DEF SetStart

\* solve makes the model current, and adds nothing to it.
LEMMA SolveDoes ==
    ASSUME BackendOK, Decided, Live, Solve
    PROVE  BackendOK' /\ lib' = lib /\ Updated' = Updated /\ rowKind' = rowKind
<1>0. lib' = lib /\ FailureTold'
    BY AskedOnce DEF Solve, Decided
<1>1. CASE Unready
    BY <1>0, <1>1 DEF BackendOK, Unready, model, NoneWaits, NothingRefused, Updated
<1>2. CASE /\ lib'.env
           /\ held' = Updated /\ waiting' = Empty
           /\ UNCHANGED <<rowKind, refused>>
    <2>1. held' \in [Kept -> Seq(Nat)]
        BY <1>2, UpdatedType
    <2>2. waiting' \in [Kept -> Seq(Nat)] /\ NoneWaits' /\ Updated' = held'
        BY <1>2, <2>1, UpdatedHeld
    <2> QED
        BY <1>0, <1>2, <2>1, <2>2 DEF BackendOK, NothingRefused
<1> QED
    BY <1>1, <1>2 DEF Solve

-----------------------------------------------------------------------------
(* The steps of the core and its caller.                                   *)

\* What of the invariant the core alone decides.
CoreOK ==
    /\ pc \in {"idle", "columns", "rows", "built", "start"}
    /\ rows \in Seq(RowKinds) /\ Len(rows) <= MaxRows
    /\ columns \in 0 .. MaxColumns
    /\ layerEnd \in Seq([rows : Nat, columns : Nat])
    /\ builtLayers \in 0 .. MaxLayers /\ goal \in 0 .. MaxLayers
    /\ EndsOrdered /\ LayersCounted

\* ... and of the core what its steps need.
LEMMA CoreIsOK == IInv => CoreOK
BY DEF IInv, TypeOK, CoreOK

\* A layer end is a row number and a column number that were posted.
LEMMA EndTypes ==
    ASSUME CoreOK, NEW k \in 1 .. Len(layerEnd)
    PROVE  /\ layerEnd[k] \in [rows : Nat, columns : Nat]
           /\ layerEnd[k].rows \in Nat /\ layerEnd[k].columns \in Nat
           /\ layerEnd[k].rows <= Len(rows) /\ layerEnd[k].columns <= columns
<1>1. ASSUME NEW T, NEW q \in Seq(T), NEW i \in 1 .. Len(q) PROVE q[i] \in T
    OBVIOUS
<1>2. layerEnd \in Seq([rows : Nat, columns : Nat])
    BY DEF CoreOK
<1>3. layerEnd[k] \in [rows : Nat, columns : Nat]
    BY <1>1, <1>2
<1>4. layerEnd[k].rows <= Len(rows) /\ layerEnd[k].columns <= columns
    BY DEF CoreOK, EndsOrdered
<1> QED
    BY <1>3, <1>4

\* The backend's part, the core's part and that they agree make the invariant.
LEMMA Together ==
    ASSUME BackendOK', CoreOK', Decided', Agree', Len(rowKind') <= MaxRows
    PROVE  IInv'
BY DEF IInv, TypeOK, BackendOK, CoreOK

\* Nothing is loaded, posted or built at first.
LEMMA InitInv == Init => IInv
<1> SUFFICES ASSUME Init PROVE IInv
    OBVIOUS
<1>1. BackendOK
    <2>1. refused \in BOOLEAN /\ NothingRefused
        BY DEF Init, NothingRefused
    <2>2. held \in [Kept -> Seq(Nat)] /\ waiting \in [Kept -> Seq(Nat)] /\ NoneWaits
        BY DEF Init, Empty, Kept, NoneWaits
    <2>3. lib \in [env : BOOLEAN, tried : BOOLEAN, error : BOOLEAN] /\ FailureTold
        BY DEF Init, FailureTold
    <2> QED
        BY <2>1, <2>2, <2>3 DEF Init, BackendOK
<1>3. Decided /\ Agree /\ rowKind = <<>>
    BY DEF Init, Decided, Agree, Live
<1>2. CoreOK
    BY BackendAssumption DEF Init, CoreOK, EndsOrdered, LayersCounted
<1> QED
    <2>1. Len(rowKind) <= MaxRows
        BY <1>3, BackendAssumption
    <2> QED
        BY <1>1, <1>2, <1>3, <2>1 DEF IInv, TypeOK, BackendOK, CoreOK

\* A new path is only given while no model is believed to be in a library
\* that was not loaded.
LEMMA OptionSetDllInv == IInv /\ ~Retries /\ OptionSetDll => IInv'
<1> SUFFICES ASSUME IInv, ~Retries, OptionSetDll PROVE IInv'
    OBVIOUS
<1>0. BackendOK /\ CoreOK /\ Decided /\ Agree /\ Len(rowKind) <= MaxRows
    BY BackendIsOK, CoreIsOK DEF IInv, TypeOK
<1>1. /\ UNCHANGED <<model, refused, core>> /\ pc = "idle"
      /\ builtLayers = 0 \/ lib.env
      /\ lib' = [lib EXCEPT !.tried = FALSE, !.error = FALSE]
    BY DEF OptionSetDll, SetDll
<1>2. /\ lib' \in [env : BOOLEAN, tried : BOOLEAN, error : BOOLEAN]
      /\ lib'.env = lib.env /\ FailureTold'
    BY <1>0, <1>1 DEF BackendOK, FailureTold
<1>3. BackendOK'
    BY <1>0, <1>1, <1>2 DEF BackendOK, NoneWaits, NothingRefused, model
<1>4. CoreOK' /\ Live' = Live
    BY <1>0, <1>1 DEF CoreOK, EndsOrdered, LayersCounted, Live, core
<1>5. Decided'
    BY <1>1, <1>2, <1>4 DEF Decided, Live
<1>6. Agree'
    BY <1>0, <1>1, <1>2, <1>4 DEF Agree, Updated, Posted, model, core
<1> QED
    BY <1>0, <1>1, <1>3, <1>4, <1>5, <1>6, Together DEF model

\* Another option of Gurobi's is a first need of the library at most.
LEMMA OptionSetOtherInv == IInv /\ OptionSetOther => IInv'
<1> SUFFICES ASSUME IInv, OptionSetOther PROVE IInv'
    OBVIOUS
<1>0. BackendOK /\ CoreOK /\ Decided /\ Agree /\ Len(rowKind) <= MaxRows
    BY BackendIsOK, CoreIsOK DEF IInv, TypeOK
<1>1. UNCHANGED <<model, refused, core>> /\ lib' \in Asked(lib)
    BY DEF OptionSetOther
<1>2. /\ lib' \in [env : BOOLEAN, tried : BOOLEAN, error : BOOLEAN]
      /\ lib'.env \/ lib'.tried
      /\ FailureTold'
      /\ lib.env \/ lib.tried => lib' = lib
    BY <1>0, <1>1, AskedOnce
<1>3. BackendOK'
    BY <1>0, <1>1, <1>2 DEF BackendOK, NoneWaits, NothingRefused, model
<1>4. CoreOK' /\ Live' = Live
    BY <1>0, <1>1 DEF CoreOK, EndsOrdered, LayersCounted, Live, core
<1>5. Decided'
    BY <1>2 DEF Decided
<1>6. Agree'
    BY <1>0, <1>1, <1>2, <1>4 DEF Agree, Decided, Updated, Posted, model, core
<1> QED
    BY <1>0, <1>1, <1>3, <1>4, <1>5, <1>6, Together DEF model

\* The three steps that empty the backend and post nothing yet.
LEMMA EmptiedInv ==
    ASSUME IInv, Reset, rows' = <<>>, columns' = 0, layerEnd' = <<>>,
           pc' \in {"idle", "columns"},
           builtLayers' \in 0 .. MaxLayers, goal' \in 0 .. MaxLayers,
           pc' = "idle" => builtLayers' = 0
    PROVE  IInv'
<1>0. BackendOK /\ Len(rowKind) <= MaxRows
    BY BackendIsOK DEF IInv, TypeOK
<1>1. /\ BackendOK' /\ (lib'.env \/ lib'.tried)
      /\ lib'.env => rowKind' = <<>> /\ Updated' = Empty
      /\ ~lib'.env => rowKind' = rowKind
    BY <1>0, ResetDoes
<1>2. CoreOK'
    BY BackendAssumption DEF CoreOK, EndsOrdered, LayersCounted
<1>3. Decided'
    BY <1>1 DEF Decided
<1>4. Agree'
    <2>1. \A s \in Kept : Posted(s)' = {}
        BY DEF Posted
    <2>2. \A s \in Kept : Lists(Empty[s], {})
        BY DEF Empty, Lists
    <2> QED
        BY <1>1, <2>1, <2>2 DEF Agree
<1>5. Len(rowKind') <= MaxRows
    BY <1>0, <1>1, BackendAssumption
<1> QED
    BY <1>1, <1>2, <1>3, <1>4, <1>5, Together

\* A run that keeps nothing resets the backend.
LEMMA RunFromNothingInv == IInv /\ RunFromNothing => IInv'
<1> SUFFICES ASSUME IInv, RunFromNothing PROVE IInv'
    OBVIOUS
<1>1. builtLayers' \in 0 .. MaxLayers /\ goal' \in 0 .. MaxLayers
    BY CoreIsOK DEF CoreOK, RunFromNothing
<1> QED
    BY <1>1, EmptiedInv DEF RunFromNothing

\* So does one that turns to a full build.
LEMMA StartOverInv == IInv /\ StartOver => IInv'
<1> SUFFICES ASSUME IInv, StartOver PROVE IInv'
    OBVIOUS
<1>1. builtLayers' \in 0 .. MaxLayers /\ goal' \in 0 .. MaxLayers
    BY CoreIsOK, BackendAssumption DEF CoreOK, StartOver
<1> QED
    BY <1>1, EmptiedInv DEF StartOver

\* ... and one whose model is refused.
LEMMA BuildFailsInv == IInv /\ BuildFails => IInv'
<1> SUFFICES ASSUME IInv, BuildFails PROVE IInv'
    OBVIOUS
<1>1. builtLayers' \in 0 .. MaxLayers /\ goal' \in 0 .. MaxLayers
    BY CoreIsOK, BackendAssumption DEF CoreOK, BuildFails
<1> QED
    BY <1>1, EmptiedInv DEF BuildFails

\* A cut at a layer end: rows and columns above it go, from the core and from
\* Gurobi.
LEMMA RunOnPrefixInv ==
    ASSUME IInv, NEW keep \in 1 .. Len(layerEnd), RunOnPrefix(keep)
    PROVE  IInv'
<1> DEFINE r == layerEnd[keep].rows
           c == layerEnd[keep].columns
<1>0. BackendOK /\ CoreOK /\ Decided /\ Agree /\ Len(rowKind) <= MaxRows
    BY BackendIsOK, CoreIsOK DEF IInv, TypeOK
<1>1. /\ layerEnd[keep] \in [rows : Nat, columns : Nat]
      /\ r \in 0 .. Len(rows) /\ c \in 0 .. columns
      /\ rows \in Seq(RowKinds) /\ columns \in Nat
    <2>1. rows \in Seq(RowKinds) /\ columns \in Nat
        BY <1>0, BackendAssumption DEF CoreOK
    <2>2. /\ layerEnd[keep] \in [rows : Nat, columns : Nat]
          /\ layerEnd[keep].rows <= Len(rows) /\ layerEnd[keep].columns <= columns
        BY <1>0, EndTypes
    <2>3. r \in Nat /\ c \in Nat
        BY <1>0, EndTypes
    <2>4. r \in 0 .. Len(rows)
        BY <2>1, <2>2, <2>3
    <2>5. c \in 0 .. columns
        BY <2>1, <2>2, <2>3
    <2> HIDE DEF r, c
    <2> QED
        BY <2>1, <2>2, <2>4, <2>5
<1>2. /\ Live /\ Truncate(r, c) /\ UNCHANGED builtLayers
      /\ rows' = SubSeq(rows, 1, r) /\ columns' = c
      /\ layerEnd' = SubSeq(layerEnd, 1, keep)
      /\ goal' \in keep .. MaxLayers
      /\ pc' \in {"built", "columns"}
    BY <1>0 DEF RunOnPrefix, Live, CoreOK
<1> HIDE DEF r, c
<1>3. /\ BackendOK' /\ lib' = lib
      /\ lib.env => rowKind' = rows' /\ \A s \in Kept : Lists(Updated'[s], Posted(s)')
      /\ ~lib.env => rowKind' = rowKind
    BY <1>0, <1>1, <1>2, TruncateDoes DEF Agree
<1>4. rows' \in Seq(RowKinds) /\ Len(rows') = r /\ Len(rows') <= MaxRows
    <2>1. ASSUME NEW q \in Seq(RowKinds), NEW k \in 0 .. Len(q)
          PROVE  SubSeq(q, 1, k) \in Seq(RowKinds) /\ Len(SubSeq(q, 1, k)) = k
        OBVIOUS
    <2>2. rows' \in Seq(RowKinds) /\ Len(rows') = r
        BY <1>1, <1>2, <2>1
    <2>3. r <= Len(rows) /\ Len(rows) <= MaxRows /\ r \in Nat /\ Len(rows) \in Nat
        BY <1>0, <1>1 DEF CoreOK
    <2> QED
        BY <2>2, <2>3, BackendAssumption
<1>5. /\ layerEnd' \in Seq([rows : Nat, columns : Nat])
      /\ Len(layerEnd') = keep
      /\ \A k \in 1 .. keep : layerEnd'[k] = layerEnd[k]
    <2>1. ASSUME NEW T, NEW q \in Seq(T), NEW k \in 1 .. Len(q)
          PROVE  LET d == SubSeq(q, 1, k)
                 IN  d \in Seq(T) /\ Len(d) = k /\ \A i \in 1 .. k : d[i] = q[i]
        OBVIOUS
    <2>2. layerEnd \in Seq([rows : Nat, columns : Nat])
        BY <1>0 DEF CoreOK
    <2> QED
        BY <1>2, <2>1, <2>2
<1>6. EndsOrdered'
    <2>1. \A j, k \in 1 .. Len(layerEnd) :
             j < k => /\ layerEnd[j].rows <= layerEnd[k].rows
                      /\ layerEnd[j].columns <= layerEnd[k].columns
        BY <1>0 DEF CoreOK, EndsOrdered
    <2>2. ASSUME NEW k \in 1 .. keep
          PROVE  layerEnd[k].rows <= r /\ layerEnd[k].columns <= c
        <3>1. CASE k = keep
            BY <1>1, <3>1 DEF r, c
        <3>2. CASE k # keep
            BY <2>1, <3>2 DEF r, c
        <3> QED
            BY <3>1, <3>2
    <2>3. 1 .. keep \subseteq 1 .. Len(layerEnd)
        OBVIOUS
    <2> QED
        BY <1>2, <1>4, <1>5, <2>1, <2>2, <2>3 DEF EndsOrdered
<1>7. CoreOK'
    <2>1. LayersCounted'
        <3>1. keep \in Nat /\ keep # 0 /\ keep <= MaxLayers
            BY <1>0, BackendAssumption DEF CoreOK, LayersCounted
        <3>2. pc' = IF keep = goal' THEN "built" ELSE "columns"
            BY DEF RunOnPrefix
        <3>3. goal' \in Nat /\ keep <= goal'
            BY <1>2, <3>1, BackendAssumption
        <3> QED
            BY <1>5, <3>1, <3>2, <3>3 DEF LayersCounted
    <2>2. goal' \in 0 .. MaxLayers /\ columns' \in 0 .. MaxColumns
        BY <1>0, <1>1, <1>2, BackendAssumption DEF CoreOK
    <2> QED
        BY <1>0, <1>2, <1>4, <1>5, <1>6, <2>1, <2>2 DEF CoreOK
<1>8. Decided' /\ Agree'
    BY <1>0, <1>2, <1>3 DEF Decided, Agree
<1>9. Len(rowKind') <= MaxRows
    BY <1>0, <1>3, <1>4 DEF BackendOK
<1> QED
    BY <1>3, <1>7, <1>8, <1>9, Together

\* Steps that leave the backend and what was posted alone.
LEMMA BackendStaysInv ==
    ASSUME IInv, UNCHANGED <<lib, model, refused, rows, columns>>, CoreOK', Live
    PROVE  IInv'
<1>0. BackendOK /\ Decided /\ Agree /\ Len(rowKind) <= MaxRows
    BY BackendIsOK DEF IInv, TypeOK
<1>1. BackendOK' /\ Len(rowKind') <= MaxRows
    BY <1>0 DEF BackendOK, NoneWaits, FailureTold, NothingRefused, model
<1>2. Decided' /\ Agree'
    BY <1>0 DEF Decided, Agree, Updated, Posted, model
<1> QED
    BY <1>1, <1>2, Together

\* A run on all that was built touches nothing before its new layers.
LEMMA RunOnAllInv == IInv /\ RunOnAll => IInv'
<1> SUFFICES ASSUME IInv, RunOnAll PROVE IInv'
    OBVIOUS
<1>1. CoreOK' /\ Live
    BY CoreIsOK DEF CoreOK, RunOnAll, EndsOrdered, LayersCounted, Live
<1> QED
    BY <1>1, BackendStaysInv DEF RunOnAll

\* A layer's end is at what was posted so far.
LEMMA LayerBuiltInv == IInv /\ LayerBuilt => IInv'
<1> SUFFICES ASSUME IInv, LayerBuilt PROVE IInv'
    OBVIOUS
<1> DEFINE n == Len(layerEnd)
           end == [rows |-> Len(rows), columns |-> columns]
<1>0. CoreOK
    BY CoreIsOK
<1>1. end \in [rows : Nat, columns : Nat] /\ n \in Nat
    BY <1>0 DEF CoreOK
<1>2. /\ layerEnd' \in Seq([rows : Nat, columns : Nat])
      /\ Len(layerEnd') = n + 1 /\ layerEnd'[n + 1] = end
      /\ \A k \in 1 .. n : layerEnd'[k] = layerEnd[k]
    BY <1>0, <1>1 DEF CoreOK, LayerBuilt
<1>3. EndsOrdered'
    <2>1. \A k \in 1 .. n : layerEnd[k].rows <= Len(rows) /\ layerEnd[k].columns <= columns
        BY <1>0 DEF CoreOK, EndsOrdered
    <2>2. \A j, k \in 1 .. n : j < k => /\ layerEnd[j].rows <= layerEnd[k].rows
                                        /\ layerEnd[j].columns <= layerEnd[k].columns
        BY <1>0 DEF CoreOK, EndsOrdered
    <2>3. rows' = rows /\ columns' = columns /\ Len(rows) \in Nat /\ columns \in Nat
        BY <1>0 DEF LayerBuilt, CoreOK
    <2> HIDE DEF n
    <2>4. \A k \in 1 .. n + 1 :
             layerEnd'[k].rows <= Len(rows) /\ layerEnd'[k].columns <= columns
        BY <1>1, <1>2, <2>1, <2>3
    <2>5. ASSUME NEW j \in 1 .. n + 1, NEW k \in 1 .. n + 1, j < k
          PROVE  /\ layerEnd'[j].rows <= layerEnd'[k].rows
                 /\ layerEnd'[j].columns <= layerEnd'[k].columns
        <3>1. j \in 1 .. n
            BY <1>1, <2>5
        <3>2. CASE k \in 1 .. n
            BY <1>2, <2>2, <2>5, <3>1, <3>2
        <3>3. CASE k = n + 1
            BY <1>2, <2>1, <3>1, <3>3
        <3> QED
            BY <1>1, <3>2, <3>3
    <2> QED
        BY <1>2, <2>3, <2>4, <2>5 DEF EndsOrdered
<1>4. CoreOK' /\ Live
    <2>1. LayersCounted'
        <3>1. n < goal /\ goal \in Nat /\ goal <= MaxLayers /\ goal' = goal
            BY <1>0, <1>1, BackendAssumption DEF CoreOK, LayerBuilt, LayersCounted
        <3> HIDE DEF n
        <3> QED
            BY <1>1, <1>2, <3>1, BackendAssumption DEF LayerBuilt, LayersCounted
    <2>2. pc' \in {"built", "columns"}
        BY DEF LayerBuilt
    <2> QED
        BY <1>0, <1>2, <1>3, <2>1, <2>2 DEF CoreOK, LayerBuilt, Live
<1> QED
    BY <1>4, BackendStaysInv DEF LayerBuilt

\* A full build ends with no layer ends.
LEMMA AllBuiltInv == IInv /\ AllBuilt => IInv'
<1> SUFFICES ASSUME IInv, AllBuilt PROVE IInv'
    OBVIOUS
<1>1. CoreOK' /\ Live
    BY CoreIsOK DEF CoreOK, AllBuilt, EndsOrdered, LayersCounted, Live
<1> QED
    BY <1>1, BackendStaysInv DEF AllBuilt


\* A layer's columns go where the core counts them.
LEMMA BuildColumnsInv == IInv /\ BuildColumns => IInv'
<1> SUFFICES ASSUME IInv, BuildColumns PROVE IInv'
    OBVIOUS
<1>0. BackendOK /\ CoreOK /\ Decided /\ Agree /\ Len(rowKind) <= MaxRows
    BY BackendIsOK, CoreIsOK DEF IInv, TypeOK
<1>1. PICK n \in 0 .. MaxColumns - columns : AddColumns(n) /\ columns' = columns + n
    BY DEF BuildColumns
<1>2. /\ pc = "columns" /\ pc' = "rows" /\ Live /\ Live'
      /\ UNCHANGED <<rows, layerEnd, builtLayers, goal>>
    BY DEF BuildColumns, Live
<1>3. /\ columns \in Nat /\ n \in Nat
      /\ columns' \in 0 .. MaxColumns /\ columns <= columns'
    BY <1>0, <1>1, BackendAssumption DEF CoreOK
<1>4. /\ BackendOK' /\ lib' = lib /\ rowKind' = rowKind
      /\ lib.env => \A s \in Kept : Lists(Updated'[s], Posted(s)')
    BY <1>0, <1>1, <1>2, <1>3, AddColumnsDoes DEF Agree
<1>5. EndsOrdered'
    <2>2. \A k \in 1 .. Len(layerEnd) : layerEnd[k].columns \in Nat /\ layerEnd[k].columns <= columns
        BY <1>0, EndTypes
    <2>3. \A k \in 1 .. Len(layerEnd) : layerEnd[k].columns <= columns'
        BY <1>3, <2>2
    <2> QED
        BY <1>0, <1>2, <2>3 DEF CoreOK, EndsOrdered
<1>6. CoreOK'
    BY <1>0, <1>2, <1>3, <1>5 DEF CoreOK, LayersCounted
<1>7. Decided' /\ Agree'
    BY <1>0, <1>2, <1>4 DEF Decided, Agree
<1> QED
    BY <1>0, <1>4, <1>6, <1>7, Together

\* A row goes where the core numbers it.
LEMMA BuildRowInv == IInv /\ BuildRow => IInv'
<1> SUFFICES ASSUME IInv, BuildRow PROVE IInv'
    OBVIOUS
<1>0. BackendOK /\ CoreOK /\ Decided /\ Agree /\ Len(rowKind) <= MaxRows
    BY BackendIsOK, CoreIsOK DEF IInv, TypeOK
<1>1. PICK kind \in RowKinds : AddRow(kind) /\ rows' = Append(rows, kind)
    BY DEF BuildRow
<1>2. /\ pc = "rows" /\ Live /\ Live' /\ Len(rows) < MaxRows
      /\ UNCHANGED <<pc, columns, layerEnd, builtLayers, goal>>
    BY DEF BuildRow, Live
<1>3. rows \in Seq(RowKinds) /\ rows' \in Seq(RowKinds) /\ Len(rows') = Len(rows) + 1
    BY <1>0, <1>1 DEF CoreOK
<1>4. /\ BackendOK' /\ lib' = lib
      /\ lib.env => rowKind' = rows' /\ \A s \in Kept : Lists(Updated'[s], Posted(s)')
      /\ ~lib.env => rowKind' = rowKind
    BY <1>0, <1>1, <1>2, <1>3, AddRowDoes DEF Agree
<1>5. Len(rows') <= MaxRows
    BY <1>2, <1>3, BackendAssumption
<1>6. EndsOrdered'
    <2>2. \A k \in 1 .. Len(layerEnd) : layerEnd[k].rows \in Nat /\ layerEnd[k].rows <= Len(rows)
        BY <1>0, EndTypes
    <2>3. \A k \in 1 .. Len(layerEnd) : layerEnd[k].rows <= Len(rows')
        BY <1>3, <2>2
    <2> QED
        BY <1>0, <1>2, <2>3 DEF CoreOK, EndsOrdered
<1>7. CoreOK'
    BY <1>0, <1>2, <1>3, <1>5, <1>6 DEF CoreOK, LayersCounted
<1>8. Decided' /\ Agree'
    BY <1>0, <1>2, <1>4 DEF Decided, Agree
<1>9. Len(rowKind') <= MaxRows
    BY <1>0, <1>4, <1>5
<1> QED
    BY <1>4, <1>7, <1>8, <1>9, Together

\* The layers of a run that is about to search are built.
LEMMA StartCounted ==
    ASSUME CoreOK, pc = "built", pc' = "start", builtLayers' = Len(layerEnd),
           UNCHANGED <<rows, columns, layerEnd, goal>>
    PROVE  CoreOK'
<1>1. Len(layerEnd) \in 0 .. MaxLayers
    BY BackendAssumption DEF CoreOK, LayersCounted
<1>2. LayersCounted'
    BY <1>1 DEF CoreOK, LayersCounted
<1>3. EndsOrdered'
    BY DEF CoreOK, EndsOrdered
<1> QED
    BY <1>1, <1>2, <1>3 DEF CoreOK

\* A start names columns the core posted.
LEMMA OfferStartInv == IInv /\ OfferStart => IInv'
<1> SUFFICES ASSUME IInv, OfferStart PROVE IInv'
    OBVIOUS
<1>0. BackendOK /\ CoreOK /\ Decided /\ Agree /\ Len(rowKind) <= MaxRows
    BY BackendIsOK, CoreIsOK DEF IInv, TypeOK
<1>1. PICK cols \in SUBSET (1 .. columns) : SetStart(cols)
    BY DEF OfferStart
<1>2. /\ Live /\ Live' /\ columns \in Nat
      /\ UNCHANGED <<rows, columns, layerEnd, goal>>
    BY <1>0, BackendAssumption DEF OfferStart, Live, CoreOK
<1>3. BackendOK' /\ lib' = lib /\ UNCHANGED model
    BY <1>0, <1>1, <1>2, SetStartDoes DEF Agree
<1>4. CoreOK'
    BY <1>0, StartCounted DEF OfferStart
<1>5. Decided' /\ Agree'
    BY <1>0, <1>2, <1>3 DEF Decided, Agree, Updated, Posted, model
<1>6. Len(rowKind') <= MaxRows
    BY <1>0, <1>3 DEF model
<1> QED
    BY <1>3, <1>4, <1>5, <1>6, Together

\* A run that offers none goes on to search.
LEMMA NoStartInv == IInv /\ NoStart => IInv'
<1> SUFFICES ASSUME IInv, NoStart PROVE IInv'
    OBVIOUS
<1>1. CoreOK' /\ Live
    BY CoreIsOK, StartCounted DEF NoStart, Live
<1> QED
    BY <1>1, BackendStaysInv DEF NoStart

\* A search changes what waits into what is held.
LEMMA RunSolveInv == IInv /\ RunSolve => IInv'
<1> SUFFICES ASSUME IInv, RunSolve PROVE IInv'
    OBVIOUS
<1>0. BackendOK /\ CoreOK /\ Decided /\ Agree /\ Len(rowKind) <= MaxRows
    BY BackendIsOK, CoreIsOK DEF IInv, TypeOK
<1>1. /\ Live /\ Solve /\ pc = "start" /\ pc' = "idle"
      /\ UNCHANGED <<rows, columns, layerEnd, builtLayers, goal>>
    BY DEF RunSolve, Live
<1>2. BackendOK' /\ lib' = lib /\ Updated' = Updated /\ rowKind' = rowKind
    BY <1>0, <1>1, SolveDoes
<1>3. CoreOK'
    BY <1>0, <1>1 DEF CoreOK, EndsOrdered, LayersCounted
<1>4. Decided' /\ Agree'
    BY <1>0, <1>1, <1>2 DEF Decided, Agree, Posted, Live
<1> QED
    BY <1>0, <1>2, <1>3, <1>4, Together

\* Nothing happens.
LEMMA StutterInv == IInv /\ UNCHANGED vars => IInv'
<1> SUFFICES ASSUME IInv, UNCHANGED vars PROVE IInv'
    OBVIOUS
<1>0. BackendOK /\ CoreOK /\ Decided /\ Agree /\ Len(rowKind) <= MaxRows
    BY BackendIsOK, CoreIsOK DEF IInv, TypeOK
<1>1. UNCHANGED <<lib, model, refused, core>>
    BY DEF vars
<1>2. BackendOK' /\ Len(rowKind') <= MaxRows
    BY <1>0, <1>1 DEF BackendOK, NoneWaits, FailureTold, NothingRefused, model
<1>3. CoreOK'
    BY <1>0, <1>1 DEF CoreOK, EndsOrdered, LayersCounted, core
<1>4. Decided' /\ Agree'
    BY <1>0, <1>1 DEF Decided, Agree, Live, Updated, Posted, model, core
<1> QED
    BY <1>2, <1>3, <1>4, Together

-----------------------------------------------------------------------------
(* The theorems.                                                           *)

\* The strengthened invariant holds of every run in which the path of the
\* library is not changed while a model is believed to be in one that failed.
THEOREM BackendInvariant == ~Retries => (Spec => []IInv)
<1> SUFFICES ASSUME ~Retries PROVE Spec => []IInv
    OBVIOUS
<1>1. Init => IInv
    BY InitInv
<1>2. IInv /\ [Next]_vars => IInv'
    <2> SUFFICES ASSUME IInv, [Next]_vars PROVE IInv'
        OBVIOUS
    <2>1. CASE OptionSetDll \/ OptionSetOther
        BY <2>1, OptionSetDllInv, OptionSetOtherInv
    <2>2. CASE RunFromNothing \/ RunOnAll
        BY <2>2, RunFromNothingInv, RunOnAllInv
    <2>3. CASE \E keep \in 1 .. Len(layerEnd) : RunOnPrefix(keep)
        BY <2>3, RunOnPrefixInv
    <2>4. CASE BuildColumns \/ BuildRow \/ LayerBuilt
        BY <2>4, BuildColumnsInv, BuildRowInv, LayerBuiltInv
    <2>5. CASE StartOver \/ AllBuilt \/ BuildFails
        BY <2>5, StartOverInv, AllBuiltInv, BuildFailsInv
    <2>6. CASE OfferStart \/ NoStart \/ RunSolve
        BY <2>6, OfferStartInv, NoStartInv, RunSolveInv
    <2>7. CASE UNCHANGED vars
        BY <2>7, StutterInv
    <2> QED
        BY <2>1, <2>2, <2>3, <2>4, <2>5, <2>6, <2>7 DEF Next
<1> QED
    BY <1>1, <1>2, PTL DEF Spec

\* The backend's and the core's variables keep their types and bounds, row_kind_
\* among them: it never outgrows the rows of the core.
THEOREM BackendTypeOK == ~Retries => (Spec => []TypeOK)
<1>1. IInv => TypeOK
    BY DEF IInv
<1> QED
    BY <1>1, BackendInvariant, PTL

\* Gurobi's three constraint sequences and its columns are what the core posted,
\* each once and in order, through truncate, reset, failed builds and loads.
THEOREM SequencesStayTogether == ~Retries => (Spec => []SequencesAgree)
<1>1. IInv => SequencesAgree
    BY DEF IInv, Agree, Live, SequencesAgree
<1> QED
    BY <1>1, BackendInvariant, PTL

\* set_start never names a column that is still waiting.
THEOREM StartsAreKnown == ~Retries => (Spec => []NothingRefused)
<1>1. IInv => NothingRefused
    BY DEF IInv
<1> QED
    BY <1>1, BackendInvariant, PTL

\* A library that was asked for in vain always has its message.
THEOREM FailuresAreTold == ~Retries => (Spec => []FailureTold)
<1>1. IInv => FailureTold
    BY DEF IInv
<1> QED
    BY <1>1, BackendInvariant, PTL

=============================================================================
