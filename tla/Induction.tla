----------------------------- MODULE Induction -----------------------------
(***************************************************************************)
(* Induction over the natural numbers, and that a loop has an outcome: the *)
(* facts by which the loops that IncrementalRun takes in one step can be   *)
(* reasoned about.  They speak of sets and functions only.  Then what a    *)
(* sum is of its terms, for rows (RowForms) and linear constraints         *)
(* (Decompositions).                                                       *)
(***************************************************************************)
EXTENDS Sums, TLAPS, WellFoundedInduction

\* A set of numbers has a least one, if it has any.
THEOREM NatMinimum ==
    ASSUME NEW T, T \subseteq Nat, T # {}
    PROVE  \E x \in T : \A y \in T : x <= y
<1> DEFINE R == {ss \in Nat \X Nat : ss[1] < ss[2]}
<1>1. IsWellFoundedOn(R, Nat)
    BY NatLessThanWellFounded, Zenon DEF OpToRel
<1>2. PICK x \in T : \A y \in T : ~ (<<y, x>> \in R)
    <2> HIDE DEF R
    <2> QED BY <1>1, WFMin
<1>3. \A y \in T : ~ (y < x)
    BY <1>2
<1> QED BY <1>3

\* A set that has 0 and the successor of each number in it has every number.
THEOREM NatSetInduction ==
    ASSUME NEW S, 0 \in S, \A n \in Nat : n \in S => n + 1 \in S
    PROVE  \A n \in Nat : n \in S
<1> DEFINE T == Nat \ S
<1>1. SUFFICES ASSUME T # {} PROVE FALSE
    OBVIOUS
<1>2. T \subseteq Nat
    OBVIOUS
<1>3. PICK x \in T : \A y \in T : x <= y
    <2> HIDE DEF T
    <2> QED BY <1>1, <1>2, NatMinimum
<1>4. x \in Nat /\ x \notin S /\ x # 0
    OBVIOUS
<1>5. x - 1 \in Nat /\ x - 1 < x
    BY <1>4
<1>6. x - 1 \notin T
    BY <1>3, <1>4, <1>5
<1> QED BY <1>4, <1>5, <1>6

THEOREM RangeInduction ==
    ASSUME NEW n \in Nat, NEW S, 0 \in S, \A i \in 0 .. n - 1 : i \in S => i + 1 \in S
    PROVE  \A i \in 0 .. n : i \in S
<1> DEFINE A == {i \in Nat : i <= n => i \in S}
<1>1. 0 \in A
    OBVIOUS
<1>2. ASSUME NEW i \in Nat, i \in A PROVE i + 1 \in A
    BY <1>2
<1> HIDE DEF A
<1>3. \A i \in Nat : i \in A
    BY <1>1, <1>2, NatSetInduction
<1> QED BY <1>3 DEF A

\* h is the states a loop of n turns F goes through, from base on, within S.
IsLoop(h, S, base, n, F) ==
    /\ h \in [0 .. n -> S]
    /\ h[0] = base
    /\ \A i \in 1 .. n : h[i] = F[i][h[i - 1]]

\* A loop whose turns stay in S has an outcome.
THEOREM LoopExists ==
    ASSUME NEW S, NEW base \in S, NEW n \in Nat, NEW F \in [1 .. n -> [S -> S]]
    PROVE  \E h : IsLoop(h, S, base, n, F)
<1> DEFINE Upto(k, g) == /\ g \in [0 .. k -> S]
                         /\ g[0] = base
                         /\ \A i \in 1 .. k : g[i] = F[i][g[i - 1]]
           A == {k \in Nat : \E g : Upto(k, g)}
<1>1. 0 \in A
    <2>1. Upto(0, [i \in 0 .. 0 |-> base])
        OBVIOUS
    <2> QED BY <2>1
<1>2. ASSUME NEW k \in 0 .. n - 1, k \in A PROVE k + 1 \in A
    <2>1. PICK g : Upto(k, g)
        BY <1>2
    <2> DEFINE e == F[k + 1][g[k]]
               f == [i \in 0 .. k + 1 |-> IF i = k + 1 THEN e ELSE g[i]]
    <2>2. e \in S
        BY <2>1
    <2>3. f \in [0 .. k + 1 -> S]
        <3> HIDE DEF e
        <3> QED BY <2>1, <2>2
    <2>4. f[0] = base
        BY <2>1
    <2>5. ASSUME NEW i \in 1 .. k + 1 PROVE f[i] = F[i][f[i - 1]]
        <3>1. f[i - 1] = g[i - 1]
            OBVIOUS
        <3>2. CASE i = k + 1
            <4>1. f[i] = e
                BY <3>2
            <4>2. i - 1 = k
                BY <3>2
            <4> QED BY <3>1, <3>2, <4>1, <4>2
        <3>3. CASE i # k + 1
            <4>1. f[i] = g[i] /\ i \in 1 .. k
                BY <3>3
            <4> QED BY <2>1, <3>1, <4>1
        <3> QED BY <3>2, <3>3
    <2>6. Upto(k + 1, f)
        <3> HIDE DEF f
        <3> QED BY <2>3, <2>4, <2>5
    <2> QED
        <3> HIDE DEF Upto, f
        <3> QED BY <2>6
<1> HIDE DEF A
<1>3. \A k \in 0 .. n - 1 : k \in A => k + 1 \in A
    BY <1>2
<1>4. \A k \in 0 .. n : k \in A
    BY <1>1, <1>3, RangeInduction, Zenon
<1>5. n \in A
    BY <1>4
<1> QED BY <1>5 DEF A, IsLoop

\* What a loop does from turn to turn is all that its states are.
THEOREM LoopUnique ==
    ASSUME NEW n \in Nat, NEW h, NEW g, g[0] = h[0],
           \A i \in 1 .. n : g[i - 1] = h[i - 1] => g[i] = h[i]
    PROVE  \A i \in 0 .. n : g[i] = h[i]
<1> DEFINE A == {i \in Nat : g[i] = h[i]}
<1>1. 0 \in A
    OBVIOUS
<1>2. ASSUME NEW i \in 0 .. n - 1, i \in A PROVE i + 1 \in A
    <2>1. i + 1 \in 1 .. n /\ (i + 1) - 1 = i
        OBVIOUS
    <2> QED BY <1>2, <2>1
<1> HIDE DEF A
<1>3. \A i \in 0 .. n : i \in A
    BY <1>1, <1>2, RangeInduction, Zenon
<1> QED BY <1>3 DEF A

-----------------------------------------------------------------------------
(***************************************************************************)
(* Sums.  Total is a loop; what it gives is shown of its partial sums.     *)
(***************************************************************************)
Numbers(f) == f \in [1 .. Len(f) -> Int] /\ Len(f) \in Nat

PartialSums(g, f) ==
    /\ g \in [0 .. Len(f) -> Int]
    /\ g[0] = 0
    /\ \A i \in 1 .. Len(f) : g[i] = g[i - 1] + f[i]

\* A total is the last of the partial sums.
LEMMA TotalSums ==
    ASSUME NEW f, Numbers(f)
    PROVE  \E g : PartialSums(g, f) /\ Total(f) = g[Len(f)]
<1> DEFINE N == Len(f)
           F == [i \in 1 .. N |-> [s \in Int |-> s + f[i]]]
           upTo[i \in 0 .. N] == IF i = 0 THEN 0 ELSE upTo[i - 1] + f[i]
<1>1. N \in Nat /\ \A i \in 1 .. N : f[i] \in Int
    BY DEF Numbers
<1>2. Total(f) = upTo[N]
    BY DEF Total
<1> HIDE DEF N
<1>3. F \in [1 .. N -> [Int -> Int]]
    BY <1>1
<1>4. PICK g : g \in [0 .. N -> Int] /\ g[0] = 0 /\ \A i \in 1 .. N : g[i] = F[i][g[i - 1]]
    <2> HIDE DEF F
    <2>1. 0 \in Int
        OBVIOUS
    <2>2. \E g : IsLoop(g, Int, 0, N, F)
        BY <1>1, <1>3, <2>1, LoopExists, Zenon
    <2> QED BY <2>2 DEF IsLoop
<1>5. \A i \in 1 .. N : g[i] = g[i - 1] + f[i]
    <2> TAKE i \in 1 .. N
    <2>1. g[i - 1] \in Int
        BY <1>1, <1>4
    <2> QED BY <1>4, <2>1
<1>6. g = [i \in 0 .. N |-> IF i = 0 THEN 0 ELSE g[i - 1] + f[i]]
    BY <1>1, <1>4, <1>5
<1>7. upTo = [i \in 0 .. N |-> IF i = 0 THEN 0 ELSE upTo[i - 1] + f[i]]
    BY <1>6
<1> HIDE DEF upTo, F
<1>8. upTo[N] = g[N]
    <2>1. upTo[0] = g[0]
        BY <1>1, <1>4, <1>7
    <2>2. \A i \in 1 .. N : upTo[i - 1] = g[i - 1] => upTo[i] = g[i]
        BY <1>1, <1>5, <1>7
    <2>3. \A i \in 0 .. N : upTo[i] = g[i]
        BY <1>1, <2>1, <2>2, LoopUnique, ZenonT(30)
    <2> QED BY <1>1, <2>3
<1> QED BY <1>2, <1>4, <1>5, <1>8 DEF N, PartialSums

\* Any partial sums give the total.
LEMMA TotalIs ==
    ASSUME NEW f, Numbers(f), NEW g, g[0] = 0, \A i \in 1 .. Len(f) : g[i] = g[i - 1] + f[i]
    PROVE  Total(f) = g[Len(f)] /\ \A i \in 0 .. Len(f) : g[i] \in Int
<1> DEFINE N == Len(f)
<1>1. PICK h : h \in [0 .. N -> Int] /\ h[0] = 0 /\ (\A i \in 1 .. N : h[i] = h[i - 1] + f[i])
               /\ Total(f) = h[N]
    BY TotalSums DEF PartialSums
<1>2. N \in Nat
    BY DEF Numbers
<1>3. \A i \in 1 .. N : g[i - 1] = h[i - 1] => g[i] = h[i]
    BY <1>1
<1>4. g[0] = h[0]
    BY <1>1
<1> HIDE DEF N
<1>5. \A i \in 0 .. N : g[i] = h[i]
    BY <1>2, <1>3, <1>4, LoopUnique, ZenonT(30)
<1> QED BY <1>1, <1>2, <1>5 DEF N

LEMMA TotalType ==
    ASSUME NEW f, Numbers(f)
    PROVE  Total(f) \in Int
<1>1. PICK g : PartialSums(g, f) /\ Total(f) = g[Len(f)]
    BY TotalSums
<1> QED BY <1>1 DEF PartialSums, Numbers

\* Of no numbers.
LEMMA TotalNone ==
    ASSUME NEW f, Len(f) = 0
    PROVE  Total(f) = 0
<1> DEFINE upTo[i \in 0 .. Len(f)] == IF i = 0 THEN 0 ELSE upTo[i - 1] + f[i]
<1>1. Total(f) = upTo[Len(f)]
    BY DEF Total
<1>2. upTo = [i \in 0 .. 0 |-> 0]
    <2>1. [i \in 0 .. 0 |-> 0] = [i \in 0 .. Len(f) |-> IF i = 0 THEN 0 ELSE [j \in 0 .. 0 |-> 0][i - 1] + f[i]]
        OBVIOUS
    <2>2. upTo = [i \in 0 .. Len(f) |-> IF i = 0 THEN 0 ELSE upTo[i - 1] + f[i]]
        BY <2>1
    <2> HIDE DEF upTo
    <2> QED BY <2>2
<1> HIDE DEF upTo
<1> QED BY <1>1, <1>2

\* Of one number more.
LEMMA TotalMore ==
    ASSUME NEW f, Numbers(f), NEW g, Numbers(g), Len(g) = Len(f) + 1,
           \A i \in 1 .. Len(f) : g[i] = f[i]
    PROVE  Total(g) = Total(f) + g[Len(f) + 1]
<1>1. PICK h : PartialSums(h, g) /\ Total(g) = h[Len(g)]
    BY TotalSums
<1>2. Len(f) \in Nat
    BY DEF Numbers
<1>3. h[0] = 0 /\ (\A i \in 1 .. Len(f) : h[i] = h[i - 1] + f[i])
      /\ h[Len(g)] = h[Len(f)] + g[Len(f) + 1]
    BY <1>1, <1>2 DEF PartialSums
<1>4. Total(f) = h[Len(f)]
    BY <1>3, TotalIs
<1> QED BY <1>1, <1>3, <1>4

\* The first number and the others.
LEMMA TotalRest ==
    ASSUME NEW f, Numbers(f), NEW g, Numbers(g), Len(f) = Len(g) + 1,
           \A i \in 1 .. Len(g) : g[i] = f[i + 1]
    PROVE  Total(f) = f[1] + Total(g)
<1>1. PICK h : PartialSums(h, f) /\ Total(f) = h[Len(f)]
    BY TotalSums
<1>2. Len(g) \in Nat /\ \A i \in 1 .. Len(f) : f[i] \in Int
    BY DEF Numbers
<1> DEFINE k == [i \in 0 .. Len(g) |-> h[i + 1] - f[1]]
<1>3. \A i \in 0 .. Len(f) : h[i] \in Int
    BY <1>1 DEF PartialSums
<1>4. k[0] = 0
    BY <1>1, <1>2 DEF PartialSums
<1>5. \A i \in 1 .. Len(g) : k[i] = k[i - 1] + g[i]
    <2> TAKE i \in 1 .. Len(g)
    <2>1. i \in 0 .. Len(g) /\ i - 1 \in 0 .. Len(g) /\ (i - 1) + 1 = i /\ i + 1 \in 1 .. Len(f)
          /\ (i + 1) - 1 = i /\ i \in 0 .. Len(f)
        BY <1>2
    <2>2. h[i + 1] = h[i] + f[i + 1]
        BY <1>1, <2>1 DEF PartialSums
    <2>3. k[i] = h[i + 1] - f[1] /\ k[i - 1] = h[i] - f[1]
        BY <2>1
    <2>4. h[i] \in Int /\ f[1] \in Int /\ f[i + 1] \in Int /\ g[i] = f[i + 1]
        BY <1>2, <1>3, <2>1
    <2> HIDE DEF k
    <2> QED BY <2>2, <2>3, <2>4
<1> HIDE DEF k
<1>6. Total(g) = k[Len(g)]
    BY <1>4, <1>5, TotalIs
<1>7. k[Len(g)] = h[Len(f)] - f[1] /\ h[Len(f)] \in Int /\ f[1] \in Int
    BY <1>2, <1>3 DEF k
<1> QED BY <1>1, <1>6, <1>7

\* Two numbers.
LEMMA TotalTwo ==
    ASSUME NEW f, Numbers(f), Len(f) = 2
    PROVE  Total(f) = f[1] + f[2]
<1>1. PICK h : PartialSums(h, f) /\ Total(f) = h[Len(f)]
    BY TotalSums
<1>2. h[0] = 0 /\ h[1] = h[0] + f[1] /\ h[2] = h[1] + f[2]
    BY <1>1 DEF PartialSums
<1>3. f[1] \in Int /\ f[2] \in Int
    BY DEF Numbers
<1> QED BY <1>1, <1>2, <1>3

\* The same numbers but one.
LEMMA TotalChanged ==
    ASSUME NEW f, Numbers(f), NEW g, Numbers(g), Len(g) = Len(f), NEW k \in 1 .. Len(f),
           \A i \in 1 .. Len(f) : i # k => g[i] = f[i]
    PROVE  Total(g) = Total(f) + (g[k] - f[k])
<1>1. PICK h : PartialSums(h, f) /\ Total(f) = h[Len(f)]
    BY TotalSums
<1> DEFINE e == [i \in 0 .. Len(f) |-> IF i < k THEN h[i] ELSE h[i] + (g[k] - f[k])]
<1>2. Len(f) \in Nat /\ (\A i \in 1 .. Len(f) : f[i] \in Int /\ g[i] \in Int)
      /\ (\A i \in 0 .. Len(f) : h[i] \in Int)
    BY <1>1 DEF Numbers, PartialSums
<1>3. e[0] = 0
    BY <1>1, <1>2 DEF PartialSums
<1>4. \A i \in 1 .. Len(g) : e[i] = e[i - 1] + g[i]
    <2> TAKE i \in 1 .. Len(g)
    <2>1. i \in 0 .. Len(f) /\ i - 1 \in 0 .. Len(f) /\ i \in 1 .. Len(f) /\ k \in Int /\ i \in Int
        BY <1>2
    <2>2. h[i] = h[i - 1] + f[i]
        BY <1>1, <2>1 DEF PartialSums
    <2>3. h[i] \in Int /\ h[i - 1] \in Int /\ f[i] \in Int /\ g[i] \in Int /\ f[k] \in Int /\ g[k] \in Int
        BY <1>2, <2>1
    <2>4. e[i] = (IF i < k THEN h[i] ELSE h[i] + (g[k] - f[k]))
          /\ e[i - 1] = (IF i - 1 < k THEN h[i - 1] ELSE h[i - 1] + (g[k] - f[k]))
        BY <2>1
    <2> HIDE DEF e
    <2>5. CASE i < k
        <3>1. g[i] = f[i] /\ i - 1 < k
            BY <2>1, <2>5
        <3> QED BY <2>2, <2>3, <2>4, <2>5, <3>1
    <2>6. CASE i = k
        <3>1. i - 1 < k /\ ~ (i < k)
            BY <2>1, <2>6
        <3> QED BY <2>2, <2>3, <2>4, <2>6, <3>1
    <2>7. CASE i > k
        <3>1. g[i] = f[i] /\ ~ (i - 1 < k) /\ ~ (i < k)
            BY <2>1, <2>7
        <3> QED BY <2>2, <2>3, <2>4, <3>1
    <2> QED BY <2>1, <2>5, <2>6, <2>7
<1> HIDE DEF e
<1>5. Total(g) = e[Len(g)]
    BY <1>3, <1>4, TotalIs
<1>6. e[Len(f)] = h[Len(f)] + (g[k] - f[k])
    BY <1>2 DEF e
<1> QED BY <1>1, <1>5, <1>6

\* No number below 0: the sum is positive if and only if one of them is.
LEMMA TotalPositive ==
    ASSUME NEW f, Numbers(f), \A i \in 1 .. Len(f) : f[i] >= 0
    PROVE  Total(f) >= 0 /\ (Total(f) >= 1 <=> \E i \in 1 .. Len(f) : f[i] >= 1)
<1>1. PICK h : PartialSums(h, f) /\ Total(f) = h[Len(f)]
    BY TotalSums
<1> DEFINE N == Len(f)
           Some(n) == \E j \in 1 .. n : f[j] >= 1
           A == {i \in 0 .. N : h[i] >= 0 /\ (h[i] >= 1 <=> Some(i))}
<1>2. N \in Nat /\ (\A i \in 1 .. N : f[i] \in Int /\ f[i] >= 0) /\ (\A i \in 0 .. N : h[i] \in Int)
      /\ h[0] = 0 /\ \A i \in 1 .. N : h[i] = h[i - 1] + f[i]
    BY <1>1 DEF Numbers, PartialSums
<1>3. 0 \in A
    BY <1>2
<1> HIDE DEF N
<1>4. ASSUME NEW i \in 0 .. N - 1, i \in A PROVE i + 1 \in A
    <2>1. i \in 0 .. N /\ i + 1 \in 0 .. N /\ i + 1 \in 1 .. N /\ (i + 1) - 1 = i
        BY <1>2
    <2>2. h[i + 1] = h[i] + f[i + 1] /\ h[i] \in Int /\ f[i + 1] \in Int /\ f[i + 1] >= 0
        BY <1>2, <2>1
    <2>3. h[i] >= 0 /\ (h[i] >= 1 <=> Some(i))
        BY <1>4
    <2>4. Some(i + 1) <=> Some(i) \/ f[i + 1] >= 1
        BY <1>2
    <2> HIDE DEF Some
    <2>5. h[i + 1] >= 0 /\ (h[i + 1] >= 1 <=> Some(i + 1))
        BY <2>2, <2>3, <2>4
    <2> QED BY <2>1, <2>5
<1> HIDE DEF A
<1>5. \A i \in 0 .. N : i \in A
    BY <1>2, <1>3, <1>4, RangeInduction, ZenonT(30)
<1>6. N \in A
    BY <1>2, <1>5
<1> QED BY <1>1, <1>6 DEF A, N

\* All numbers but one are 0.
LEMMA TotalOne ==
    ASSUME NEW f, Numbers(f), NEW k \in 1 .. Len(f), \A i \in 1 .. Len(f) : i # k => f[i] = 0
    PROVE  Total(f) = f[k]
<1> DEFINE g == [i \in 1 .. Len(f) |-> 0]
<1>1. Len(f) \in Nat /\ f[k] \in Int
    BY DEF Numbers
<1>2. Numbers(g) /\ Len(g) = Len(f) /\ g[k] = 0 /\ \A i \in 1 .. Len(f) : g[i] = 0
    BY <1>1 DEF Numbers
<1> HIDE DEF g
<1>3. Total(g) = 0
    <2>1. Total(g) >= 0 /\ ~ (Total(g) >= 1) /\ Total(g) \in Int
        BY <1>2, TotalPositive, TotalType
    <2> QED BY <2>1
<1>4. Total(f) = Total(g) + (f[k] - g[k])
    BY <1>2, TotalChanged
<1> QED BY <1>1, <1>2, <1>3, <1>4

\* Zeros and ones that add up to 1: exactly one is 1.
LEMMA TotalIsOne ==
    ASSUME NEW f, Numbers(f), \A i \in 1 .. Len(f) : f[i] \in {0, 1}
    PROVE  Total(f) = 1 <=> \E k \in 1 .. Len(f) : f[k] = 1 /\ \A i \in 1 .. Len(f) : i # k => f[i] = 0
<1>1. ASSUME Total(f) = 1
      PROVE  \E k \in 1 .. Len(f) : f[k] = 1 /\ \A i \in 1 .. Len(f) : i # k => f[i] = 0
    <2>1. \A i \in 1 .. Len(f) : f[i] >= 0
        OBVIOUS
    <2>2. PICK k \in 1 .. Len(f) : f[k] >= 1
        <3>1. Total(f) >= 1
            BY <1>1
        <3> QED BY <2>1, <3>1, TotalPositive
    <2>3. f[k] = 1
        BY <2>2
    <2> DEFINE g == [i \in 1 .. Len(f) |-> IF i = k THEN 0 ELSE f[i]]
    <2>4. Len(f) \in Nat
        BY DEF Numbers
    <2>5. Numbers(g) /\ Len(g) = Len(f) /\ g[k] = 0
          /\ \A i \in 1 .. Len(f) : (i # k => g[i] = f[i]) /\ g[i] >= 0
        BY <2>4 DEF Numbers
    <2> HIDE DEF g
    <2>6. Total(g) = Total(f) + (g[k] - f[k])
        BY <2>5, TotalChanged
    <2>7. Total(g) = 0
        BY <1>1, <2>3, <2>5, <2>6
    <2>8. ~ (Total(g) >= 1)
        BY <2>7
    <2>9. \A i \in 1 .. Len(f) : ~ (g[i] >= 1)
        BY <2>5, <2>8, TotalPositive
    <2>10. \A i \in 1 .. Len(f) : i # k => f[i] = 0
        BY <2>5, <2>9
    <2> QED BY <2>3, <2>10
<1>2. ASSUME NEW k \in 1 .. Len(f), f[k] = 1, \A i \in 1 .. Len(f) : i # k => f[i] = 0
      PROVE  Total(f) = 1
    BY <1>2, TotalOne
<1> QED BY <1>1, <1>2

\* Numbers that are at most others, one by one.
LEMMA TotalMonotone ==
    ASSUME NEW f, Numbers(f), NEW g, Numbers(g), Len(f) = Len(g),
           \A i \in 1 .. Len(f) : f[i] <= g[i]
    PROVE  Total(f) <= Total(g)
<1>1. PICK p : PartialSums(p, f) /\ Total(f) = p[Len(f)]
    BY TotalSums
<1>2. PICK q : PartialSums(q, g) /\ Total(g) = q[Len(g)]
    BY TotalSums
<1> DEFINE N == Len(f)
           A == {i \in 0 .. N : p[i] <= q[i]}
<1>3. /\ N \in Nat /\ N = Len(g) /\ p[0] = 0 /\ q[0] = 0
      /\ \A i \in 0 .. N : p[i] \in Int /\ q[i] \in Int
      /\ \A i \in 1 .. N : f[i] \in Int /\ g[i] \in Int /\ f[i] <= g[i]
      /\ \A i \in 1 .. N : p[i] = p[i - 1] + f[i] /\ q[i] = q[i - 1] + g[i]
    BY <1>1, <1>2 DEF Numbers, PartialSums
<1> HIDE DEF N
<1>4. 0 \in A
    BY <1>3
<1>5. ASSUME NEW i \in 0 .. N - 1, i \in A PROVE i + 1 \in A
    <2>1. i \in 0 .. N /\ i + 1 \in 0 .. N /\ i + 1 \in 1 .. N /\ (i + 1) - 1 = i
        BY <1>3
    <2>2. p[i + 1] = p[i] + f[i + 1] /\ q[i + 1] = q[i] + g[i + 1] /\ f[i + 1] <= g[i + 1]
        BY <1>3, <2>1
    <2>3. p[i] \in Int /\ q[i] \in Int /\ f[i + 1] \in Int /\ g[i + 1] \in Int /\ p[i] <= q[i]
        BY <1>3, <1>5, <2>1
    <2>4. p[i + 1] <= q[i + 1]
        BY <2>2, <2>3
    <2> QED BY <2>1, <2>4
<1> HIDE DEF A
<1>6. \A i \in 0 .. N : i \in A
    BY <1>3, <1>4, <1>5, RangeInduction, ZenonT(30)
<1>7. N \in A
    BY <1>3, <1>6
<1> QED BY <1>1, <1>2, <1>3, <1>7 DEF A, N

\* The negated numbers.
LEMMA TotalNegated ==
    ASSUME NEW f, Numbers(f), NEW g, Numbers(g), Len(f) = Len(g),
           \A i \in 1 .. Len(f) : g[i] = -f[i]
    PROVE  Total(g) = -Total(f)
<1>1. PICK p : PartialSums(p, f) /\ Total(f) = p[Len(f)]
    BY TotalSums
<1> DEFINE q == [i \in 0 .. Len(f) |-> -p[i]]
<1>2. /\ Len(f) \in Nat /\ p[0] = 0
      /\ \A i \in 0 .. Len(f) : p[i] \in Int
      /\ \A i \in 1 .. Len(f) : f[i] \in Int /\ p[i] = p[i - 1] + f[i]
    BY <1>1 DEF Numbers, PartialSums
<1>3. q[0] = 0
    BY <1>2
<1>4. \A i \in 1 .. Len(g) : q[i] = q[i - 1] + g[i]
    <2> TAKE i \in 1 .. Len(g)
    <2>1. i \in 0 .. Len(f) /\ i - 1 \in 0 .. Len(f)
        BY <1>2
    <2>2. q[i] = -p[i] /\ q[i - 1] = -p[i - 1]
        BY <2>1
    <2>3. p[i] \in Int /\ p[i - 1] \in Int /\ f[i] \in Int /\ p[i] = p[i - 1] + f[i] /\ g[i] = -f[i]
        BY <1>2, <2>1
    <2> HIDE DEF q
    <2> QED BY <2>2, <2>3
<1>5. q[Len(g)] = -p[Len(f)]
    BY <1>2
<1> HIDE DEF q
<1>6. Total(g) = q[Len(g)]
    BY <1>3, <1>4, TotalIs
<1> QED BY <1>1, <1>5, <1>6

\* All numbers are 0.
LEMMA TotalZero ==
    ASSUME NEW f, Numbers(f), \A i \in 1 .. Len(f) : f[i] = 0
    PROVE  Total(f) = 0
<1>1. Len(f) \in Nat
    BY DEF Numbers
<1> DEFINE g == [i \in 0 .. Len(f) |-> 0]
<1>2. g[0] = 0 /\ (\A i \in 1 .. Len(f) : g[i] = g[i - 1] + f[i]) /\ g[Len(f)] = 0
    BY <1>1
<1> HIDE DEF g
<1> QED BY <1>2, TotalIs

\* Zeros and ones: at most one is 1 if they add up to at most 1.
LEMMA TotalAtMostOne ==
    ASSUME NEW f, Numbers(f), \A i \in 1 .. Len(f) : f[i] \in {0, 1}
    PROVE  Total(f) <= 1 <=> \A i, j \in 1 .. Len(f) : f[i] = 1 /\ f[j] = 1 => i = j
<1>1. ASSUME Total(f) <= 1, NEW i \in 1 .. Len(f), NEW j \in 1 .. Len(f), f[i] = 1, f[j] = 1
      PROVE  i = j
    <2>1. (\A k \in 1 .. Len(f) : f[k] >= 0) /\ f[i] >= 1 /\ Total(f) \in Int
        BY <1>1, TotalType
    <2>2. Total(f) >= 1
        BY <2>1, TotalPositive
    <2>3. Total(f) = 1
        BY <1>1, <2>1, <2>2
    <2>4. PICK k \in 1 .. Len(f) : f[k] = 1 /\ \A h \in 1 .. Len(f) : h # k => f[h] = 0
        BY <2>3, TotalIsOne
    <2> QED BY <1>1, <2>4
<1>2. ASSUME \A i, j \in 1 .. Len(f) : f[i] = 1 /\ f[j] = 1 => i = j
      PROVE  Total(f) <= 1
    <2>1. CASE \A i \in 1 .. Len(f) : f[i] = 0
        BY <2>1, TotalZero
    <2>2. CASE ~ \A i \in 1 .. Len(f) : f[i] = 0
        <3>1. PICK k \in 1 .. Len(f) : f[k] = 1
            BY <2>2
        <3>2. \A i \in 1 .. Len(f) : i # k => f[i] = 0
            BY <1>2, <3>1
        <3>3. Total(f) = f[k]
            BY <3>2, TotalOne
        <3> QED BY <3>1, <3>3
    <2> QED BY <2>1, <2>2
<1> QED BY <1>1, <1>2

\* One number, and three.
LEMMA TotalSingle ==
    ASSUME NEW f, Numbers(f), Len(f) = 1
    PROVE  Total(f) = f[1]
<1>1. PICK h : PartialSums(h, f) /\ Total(f) = h[Len(f)]
    BY TotalSums
<1>2. h[0] = 0 /\ h[1] = h[0] + f[1] /\ f[1] \in Int
    BY <1>1 DEF PartialSums, Numbers
<1> QED BY <1>1, <1>2

LEMMA TotalThree ==
    ASSUME NEW f, Numbers(f), Len(f) = 3
    PROVE  Total(f) = f[1] + f[2] + f[3]
<1>1. PICK h : PartialSums(h, f) /\ Total(f) = h[Len(f)]
    BY TotalSums
<1>2. h[0] = 0 /\ h[1] = h[0] + f[1] /\ h[2] = h[1] + f[2] /\ h[3] = h[2] + f[3]
    BY <1>1 DEF PartialSums
<1>3. f[1] \in Int /\ f[2] \in Int /\ f[3] \in Int
    BY DEF Numbers
<1> QED BY <1>1, <1>2, <1>3

\* Term by term.
LEMMA TotalAdded ==
    ASSUME NEW f, Numbers(f), NEW g, Numbers(g), NEW h, Numbers(h), Len(g) = Len(f), Len(h) = Len(f),
           \A i \in 1 .. Len(f) : h[i] = f[i] + g[i]
    PROVE  Total(h) = Total(f) + Total(g)
<1>1. PICK p : PartialSums(p, f) /\ Total(f) = p[Len(f)]
    BY TotalSums
<1>2. PICK q : PartialSums(q, g) /\ Total(g) = q[Len(g)]
    BY TotalSums
<1> DEFINE r == [i \in 0 .. Len(f) |-> p[i] + q[i]]
<1>3. /\ Len(f) \in Nat /\ p[0] = 0 /\ q[0] = 0
      /\ \A i \in 0 .. Len(f) : p[i] \in Int /\ q[i] \in Int
      /\ \A i \in 1 .. Len(f) : f[i] \in Int /\ g[i] \in Int /\ p[i] = p[i - 1] + f[i] /\ q[i] = q[i - 1] + g[i]
    BY <1>1, <1>2 DEF Numbers, PartialSums
<1>4. r[0] = 0
    BY <1>3
<1>5. \A i \in 1 .. Len(h) : r[i] = r[i - 1] + h[i]
    <2> TAKE i \in 1 .. Len(h)
    <2>1. i \in 0 .. Len(f) /\ i - 1 \in 0 .. Len(f) /\ i \in 1 .. Len(f)
        BY <1>3
    <2>2. r[i] = p[i] + q[i] /\ r[i - 1] = p[i - 1] + q[i - 1]
        BY <2>1
    <2>3. /\ p[i - 1] \in Int /\ q[i - 1] \in Int /\ f[i] \in Int /\ g[i] \in Int
          /\ p[i] = p[i - 1] + f[i] /\ q[i] = q[i - 1] + g[i] /\ h[i] = f[i] + g[i]
        BY <1>3, <2>1
    <2> HIDE DEF r
    <2> QED BY <2>2, <2>3
<1>6. r[Len(h)] = p[Len(f)] + q[Len(g)]
    BY <1>3
<1> HIDE DEF r
<1>7. Total(h) = r[Len(h)]
    BY <1>4, <1>5, TotalIs
<1> QED BY <1>1, <1>2, <1>6, <1>7

\* The numbers at places further and further on, of a list that has 0 elsewhere.
Places(at, n, m) ==
    /\ \A i \in 1 .. n : at[i] \in 1 .. m
    /\ \A i, j \in 1 .. n : i < j => at[i] < at[j]

LEMMA TotalSparse ==
    ASSUME NEW f, Numbers(f), NEW g, Numbers(g), NEW at, Places(at, Len(g), Len(f)),
           \A i \in 1 .. Len(g) : g[i] = f[at[i]],
           \A j \in 1 .. Len(f) : f[j] = 0 \/ \E i \in 1 .. Len(g) : at[i] = j
    PROVE  Total(f) = Total(g)
<1>1. PICK p : PartialSums(p, f) /\ Total(f) = p[Len(f)]
    BY TotalSums
<1>2. PICK q : PartialSums(q, g) /\ Total(g) = q[Len(g)]
    BY TotalSums
<1>3. PICK m, n : m = Len(f) /\ n = Len(g)
    OBVIOUS
<1>4. /\ m \in Nat /\ n \in Nat /\ p[0] = 0 /\ q[0] = 0
      /\ \A i \in 0 .. m : p[i] \in Int
      /\ \A i \in 0 .. n : q[i] \in Int
      /\ \A i \in 1 .. m : f[i] \in Int /\ p[i] = p[i - 1] + f[i]
      /\ \A i \in 1 .. n : g[i] \in Int /\ q[i] = q[i - 1] + g[i]
    BY <1>1, <1>2, <1>3 DEF Numbers, PartialSums
<1>5. /\ \A i \in 1 .. n : at[i] \in 1 .. m /\ g[i] = f[at[i]]
      /\ \A i, j \in 1 .. n : i < j => at[i] < at[j]
      /\ \A j \in 1 .. m : f[j] = 0 \/ \E i \in 1 .. n : at[i] = j
    BY <1>3 DEF Places
<1> DEFINE Between(k, i) == (i = 0 \/ at[i] <= k) /\ (i = n \/ at[i + 1] > k)
           S == {k \in 0 .. m : \A i \in 0 .. n : Between(k, i) => p[k] = q[i]}
<1>6. 0 \in S
    <2>1. ASSUME NEW i \in 0 .. n, Between(0, i) PROVE p[0] = q[i]
        <3>1. i = 0
            BY <1>4, <1>5, <2>1
        <3> QED BY <1>4, <3>1
    <2> QED BY <1>4, <2>1
<1>7. ASSUME NEW k \in 0 .. m - 1, k \in S PROVE k + 1 \in S
    <2>1. k + 1 \in 1 .. m /\ k \in 0 .. m /\ p[k] \in Int /\ p[k + 1] = p[k] + f[k + 1] /\ f[k + 1] \in Int
        <3>1. k + 1 \in 1 .. m /\ k \in 0 .. m /\ (k + 1) - 1 = k
            BY <1>4
        <3>2. p[k + 1] = p[(k + 1) - 1] + f[k + 1] /\ f[k + 1] \in Int
            BY <1>4, <3>1
        <3> QED BY <1>4, <3>1, <3>2
    <2>2. ASSUME NEW i \in 0 .. n, Between(k + 1, i) PROVE p[k + 1] = q[i]
        <3>1. CASE i # 0 /\ at[i] = k + 1
            <4>1. i \in 1 .. n /\ i - 1 \in 0 .. n
                BY <1>4, <3>1
            <4>2. i - 1 = 0 \/ at[i - 1] <= k
                <5>1. CASE i - 1 # 0
                    <6>1. i - 1 \in 1 .. n /\ i - 1 < i
                        BY <4>1, <5>1
                    <6>2. at[i - 1] < at[i] /\ at[i - 1] \in 1 .. m
                        BY <1>5, <4>1, <6>1
                    <6> QED BY <1>4, <3>1, <6>2
                <5> QED BY <5>1
            <4>3. (i - 1) + 1 = i
                BY <4>1
            <4>4. Between(k, i - 1)
                BY <3>1, <4>2, <4>3
            <4>5. p[k] = q[i - 1]
                BY <1>7, <4>1, <4>4
            <4>6. g[i] = f[k + 1] /\ q[i] = q[i - 1] + g[i]
                BY <1>4, <1>5, <3>1, <4>1
            <4> QED BY <2>1, <4>5, <4>6
        <3>2. CASE ~(i # 0 /\ at[i] = k + 1)
            <4>1. Between(k, i)
                <5>1. i = 0 \/ at[i] <= k
                    <6>1. CASE i # 0
                        <7>1. at[i] \in 1 .. m /\ at[i] <= k + 1 /\ at[i] # k + 1
                            BY <1>4, <1>5, <2>2, <3>2, <6>1
                        <7> QED BY <1>4, <7>1
                    <6> QED BY <6>1
                <5>2. i = n \/ at[i + 1] > k
                    <6>1. CASE i # n
                        <7>1. i + 1 \in 1 .. n
                            BY <1>4, <6>1
                        <7>2. at[i + 1] \in 1 .. m /\ at[i + 1] > k + 1
                            BY <1>5, <2>2, <6>1, <7>1
                        <7> QED BY <1>4, <7>2
                    <6> QED BY <6>1
                <5> QED BY <5>1, <5>2
            <4>2. p[k] = q[i]
                BY <1>7, <4>1
            <4>3. ASSUME NEW j \in 1 .. n, at[j] = k + 1 PROVE FALSE
                <5>1. CASE j <= i
                    <6>1. i \in 1 .. n /\ (j = i \/ at[j] < at[i]) /\ at[i] \in 1 .. m /\ at[i] <= k + 1
                        BY <1>4, <1>5, <2>2, <4>3, <5>1
                    <6> QED BY <1>4, <3>2, <4>3, <6>1
                <5>2. CASE i < j
                    <6>1. i # n /\ i + 1 \in 1 .. n
                        BY <1>4, <5>2
                    <6>2. at[i + 1] > k + 1 /\ at[i + 1] \in 1 .. m /\ (j = i + 1 \/ at[i + 1] < at[j])
                        BY <1>5, <2>2, <5>2, <6>1
                    <6> QED BY <1>4, <4>3, <6>2
                <5> QED BY <1>4, <5>1, <5>2
            <4>4. f[k + 1] = 0
                BY <1>5, <2>1, <4>3
            <4> QED BY <2>1, <4>2, <4>4
        <3> QED BY <3>1, <3>2
    <2> QED BY <2>1, <2>2
<1>8. \A k \in 0 .. m : k \in S
    <2> HIDE DEF S
    <2> QED BY <1>4, <1>6, <1>7, RangeInduction, Zenon
<1>9. Between(m, n)
    <2>1. n = 0 \/ at[n] <= m
        BY <1>4, <1>5
    <2> QED BY <2>1
<1>10. m \in S /\ n \in 0 .. n
    BY <1>4, <1>8
<1>11. p[m] = q[n]
    BY <1>9, <1>10
<1> QED BY <1>1, <1>2, <1>3, <1>11

=============================================================================
