------------------------- MODULE DecompositionsLemmas -------------------------
(***************************************************************************)
(* What the decompositions are proved from: what each kind of call asks    *)
(* and of which columns, sums over assignments, sets of values and lists   *)
(* of calls, the inductive invariant of the flattener (Formed, what its    *)
(* calls and columns look like, and Meant, what they say together), and    *)
(* that comparisons, memberships, look-ups, arithmetic, choices and tables *)
(* are rewritten to calls that say the same.                               *)
(***************************************************************************)
EXTENDS Decompositions, Induction, FiniteSetTheorems

-----------------------------------------------------------------------------
(***************************************************************************)
(* What a call asks, kind by kind, and of the calls that are made.         *)
(***************************************************************************)
LEMMA HoldsReified ==
    ASSUME NEW c, NEW a
    PROVE  /\ c.c = "le_imp" => (Holds(c, a) <=> (a[c.b] = 1 => SumOf(c.co, c.xs, a) <= c.k))
           /\ c.c = "le_imp_not" => (Holds(c, a) <=> (a[c.b] = 0 => SumOf(c.co, c.xs, a) <= c.k))
           /\ c.c = "eq_imp" => (Holds(c, a) <=> (a[c.b] = 1 => SumOf(c.co, c.xs, a) = c.k))
           /\ c.c = "eq_imp_not" => (Holds(c, a) <=> (a[c.b] = 0 => SumOf(c.co, c.xs, a) = c.k))
           /\ c.c = "le_reif" => (Holds(c, a) <=> (a[c.b] = 1 <=> SumOf(c.co, c.xs, a) <= c.k))
           /\ c.c = "eq_reif" => (Holds(c, a) <=> (a[c.b] = 1 <=> SumOf(c.co, c.xs, a) = c.k))
           /\ c.c = "ne_reif" => (Holds(c, a) <=> (a[c.b] = 1 <=> SumOf(c.co, c.xs, a) # c.k))
BY Zenon DEF Holds

LEMMA HoldsLinear ==
    ASSUME NEW c, NEW a
    PROVE  /\ c.c = "int_lin_le" => (Holds(c, a) <=> SumOf(c.co, c.xs, a) <= c.k)
           /\ c.c = "int_lin_eq" => (Holds(c, a) <=> SumOf(c.co, c.xs, a) = c.k)
           /\ c.c = "ne"         => (Holds(c, a) <=> SumOf(c.co, c.xs, a) # c.k)
BY DEF Holds

LEMMA HoldsMember ==
    ASSUME NEW c, NEW a
    PROVE  /\ c.c \in {"within", "in"} => (Holds(c, a) <=> a[c.x] \in c.s)
           /\ c.c \in {"in_imp", "in_encoded_imp"} => (Holds(c, a) <=> (a[c.b] = 1 => a[c.x] \in c.s))
           /\ c.c = "in_reif" => (Holds(c, a) <=> (a[c.b] = 1 <=> a[c.x] \in c.s))
           /\ c.c \in {"in_encoded", "post"} =>
                (Holds(c, a) <=> ((c.b = 0 \/ a[c.b] = 1) <=> a[c.x] \in c.s))
BY Zenon DEF Holds

LEMMA HoldsOperation ==
    ASSUME NEW c, NEW a
    PROVE  /\ c.c = "xor" => (Holds(c, a) <=> Total([i \in 1 .. Len(c.xs) |-> a[c.xs[i]]]) % 2 = 1)
           /\ c.c = "abs" => (Holds(c, a) <=> a[c.y] = Abs(a[c.xs[1]]))
           /\ c.c \in {"times", "times_element"} => (Holds(c, a) <=> a[c.y] = a[c.xs[1]] * a[c.xs[2]])
           /\ c.c = "maximum" => (Holds(c, a) <=> a[c.y] = Max({a[c.xs[i]] : i \in 1 .. Len(c.xs)}))
           /\ c.c = "minimum" => (Holds(c, a) <=> a[c.y] = Min({a[c.xs[i]] : i \in 1 .. Len(c.xs)}))
           /\ c.c = "div" => (Holds(c, a) <=> a[c.xs[2]] # 0 /\ a[c.y] = Quot(a[c.xs[1]], a[c.xs[2]]))
           /\ c.c = "mod" =>
                (Holds(c, a) <=> a[c.xs[2]] # 0
                    /\ a[c.y] = a[c.xs[1]] - a[c.xs[2]] * Quot(a[c.xs[1]], a[c.xs[2]]))
BY Zenon DEF Holds

LEMMA HoldsLookup ==
    ASSUME NEW c, NEW a
    PROVE  /\ c.c = "element" =>
                (Holds(c, a) <=> \E i \in 1 .. Len(c.xs) : a[c.index] = i + c.offset - 1 /\ a[c.value] = a[c.xs[i]])
           /\ c.c = "element_live" =>
                (Holds(c, a) <=> \E i \in c.live : a[c.index] = i + c.offset - 1 /\ a[c.value] = a[c.xs[i]])
           /\ c.c = "if" =>
                (Holds(c, a) <=> (Taken(c, a) # {} => a[c.y] = a[c.xs[Min(Taken(c, a))]]))
BY DEF Holds

LEMMA HoldsGlobal ==
    ASSUME NEW c, NEW a
    PROVE  /\ c.c = "lex_less" => (Holds(c, a) <=> LexBefore(c.xs, c.ys, TRUE, a))
           /\ c.c = "lex_lesseq" => (Holds(c, a) <=> LexBefore(c.xs, c.ys, FALSE, a))
           /\ c.c = "all_different" =>
                (Holds(c, a) <=> \A i, j \in DOMAIN c.xs : i # j => a[c.xs[i]] # a[c.xs[j]])
           /\ c.c = "table" =>
                (Holds(c, a) <=> \E t \in DOMAIN c.tuples : \A j \in DOMAIN c.xs : a[c.xs[j]] = c.tuples[t][j])
           /\ c.c = "inverse" =>
                (Holds(c, a) <=> /\ \A i \in DOMAIN c.xs : a[c.xs[i]] \in DOMAIN c.ys
                                 /\ \A j \in DOMAIN c.ys : a[c.ys[j]] \in DOMAIN c.xs
                                 /\ Inverses(c.xs, c.ys, a))
           /\ c.c = "inverse_in_range" => (Holds(c, a) <=> Inverses(c.xs, c.ys, a))
BY DEF Holds

LEMMA HoldsAbs ==
    ASSUME NEW c, NEW a, c.c = "abs"
    PROVE  Holds(c, a) <=> a[c.y] = Abs(a[c.xs[1]])
BY HoldsOperation

LEMMA HoldsDifferent ==
    ASSUME NEW c, NEW a, c.c = "all_different"
    PROVE  Holds(c, a) <=> \A i, j \in DOMAIN c.xs : i # j => a[c.xs[i]] # a[c.xs[j]]
BY DEF Holds

LEMMA HoldsTable ==
    ASSUME NEW c, NEW a, c.c = "table"
    PROVE  Holds(c, a) <=> \E t \in DOMAIN c.tuples : \A j \in DOMAIN c.xs : a[c.xs[j]] = c.tuples[t][j]
BY DEF Holds

LEMMA HoldsEncoding ==
    ASSUME NEW c, NEW a, c.c \in {"select", "two"}
    PROVE  Holds(c, a)
BY DEF Holds

LEMMA LeHolds == \A co, xs, k, a : Holds(Le(co, xs, k), a) <=> SumOf(co, xs, a) <= k
BY HoldsLinear DEF Le, Lin
LEMMA EqHolds == \A co, xs, k, a : Holds(Eq(co, xs, k), a) <=> SumOf(co, xs, a) = k
BY HoldsLinear DEF Eq, Lin
LEMMA NeHolds == \A co, xs, k, a : Holds(Lin("ne", co, xs, k), a) <=> SumOf(co, xs, a) # k
BY HoldsLinear DEF Lin
LEMMA LeImpHolds ==
    \A co, xs, k, b, a : Holds(LeImp(co, xs, k, b), a) <=> (a[b] = 1 => SumOf(co, xs, a) <= k)
BY HoldsReified DEF LeImp, Reif
LEMMA LeImpNotHolds ==
    \A co, xs, k, b, a : Holds(LeImpNot(co, xs, k, b), a) <=> (a[b] = 0 => SumOf(co, xs, a) <= k)
BY HoldsReified DEF LeImpNot, Reif
LEMMA EqImpHolds ==
    \A co, xs, k, b, a : Holds(EqImp(co, xs, k, b), a) <=> (a[b] = 1 => SumOf(co, xs, a) = k)
BY HoldsReified DEF EqImp, Reif
LEMMA EqImpNotHolds ==
    \A co, xs, k, b, a : Holds(EqImpNot(co, xs, k, b), a) <=> (a[b] = 0 => SumOf(co, xs, a) = k)
BY HoldsReified DEF EqImpNot, Reif
LEMMA LeReifHolds ==
    \A co, xs, k, b, a : Holds(LeReif(co, xs, k, b), a) <=> (a[b] = 1 <=> SumOf(co, xs, a) <= k)
BY HoldsReified DEF LeReif, Reif
LEMMA WithinHolds == \A x, S, a : Holds(Within(x, S), a) <=> a[x] \in S
BY HoldsMember DEF Within
LEMMA TrueHolds == \A b, a : Holds(True(b), a) <=> a[b] = 1
BY WithinHolds DEF True
LEMMA NotHolds == \A b, a : Holds(Not(b), a) <=> a[b] = 0
BY WithinHolds DEF Not
LEMMA FailHolds == \A a : ~ Holds(Fail, a)
BY WithinHolds DEF Fail
LEMMA InHolds == \A x, S, a : Holds(In(x, S), a) <=> a[x] \in S
BY HoldsMember DEF In
LEMMA PostHolds ==
    \A x, S, b, vs, a : Holds(Post(x, S, b, vs), a) <=> ((b = 0 \/ a[b] = 1) <=> a[x] \in S)
BY HoldsMember DEF Post
LEMMA EncodedHolds ==
    \A x, S, b, a : Holds(InCall("in_encoded", x, S, b), a) <=> ((b = 0 \/ a[b] = 1) <=> a[x] \in S)
BY HoldsMember DEF InCall
LEMMA EncodedImpHolds ==
    \A x, S, b, a : Holds(InCall("in_encoded_imp", x, S, b), a) <=> (a[b] = 1 => a[x] \in S)
BY HoldsMember DEF InCall
LEMMA XorHolds ==
    \A xs, y, a : Holds(Nary("xor", xs, y), a) <=> Total([i \in 1 .. Len(xs) |-> a[xs[i]]]) % 2 = 1
BY DEF Holds, Nary
LEMMA AbsHolds == \A xs, y, a : Holds(Nary("abs", xs, y), a) <=> a[y] = Abs(a[xs[1]])
BY DEF Holds, Nary
LEMMA TimesHolds == \A xs, y, a : Holds(Nary("times", xs, y), a) <=> a[y] = a[xs[1]] * a[xs[2]]
BY DEF Holds, Nary

-----------------------------------------------------------------------------
(***************************************************************************)
(* The sum of a linear constraint.                                         *)
(***************************************************************************)
Summable(co, xs, a) ==
    /\ co \in Seq(Int) /\ xs \in Seq(Nat) /\ Len(co) = Len(xs)
    /\ \A i \in 1 .. Len(xs) : a[xs[i]] \in Int

Parts(co, xs, a) == [i \in 1 .. Len(xs) |-> co[i] * a[xs[i]]]

LEMMA PartsAre ==
    ASSUME NEW co, NEW xs, NEW a, Summable(co, xs, a)
    PROVE  /\ Numbers(Parts(co, xs, a)) /\ Len(Parts(co, xs, a)) = Len(xs)
           /\ Len(xs) \in Nat /\ Len(co) = Len(xs)
           /\ \A i \in 1 .. Len(xs) :
                 co[i] \in Int /\ a[xs[i]] \in Int /\ Parts(co, xs, a)[i] = co[i] * a[xs[i]]
           /\ SumOf(co, xs, a) = Total(Parts(co, xs, a))
<1>1. Len(xs) \in Nat /\ \A i \in 1 .. Len(xs) : co[i] \in Int /\ a[xs[i]] \in Int
    BY DEF Summable
<1>2. \A i \in 1 .. Len(xs) : co[i] * a[xs[i]] \in Int
    BY <1>1
<1>3. Len(Parts(co, xs, a)) = Len(xs)
    BY <1>1 DEF Parts
<1>4. SumOf(co, xs, a) = Total(Parts(co, xs, a))
    BY DEF SumOf, Parts
<1> QED BY <1>1, <1>2, <1>3, <1>4 DEF Parts, Numbers, Summable

LEMMA SumType ==
    ASSUME NEW co, NEW xs, NEW a, Summable(co, xs, a)
    PROVE  SumOf(co, xs, a) \in Int
BY PartsAre, TotalType

LEMMA SumNegated ==
    ASSUME NEW co, NEW xs, NEW a, Summable(co, xs, a)
    PROVE  Summable(Neg(co), xs, a) /\ SumOf(Neg(co), xs, a) = -SumOf(co, xs, a)
<1>1. Neg(co) \in Seq(Int) /\ Len(Neg(co)) = Len(co) /\ \A i \in 1 .. Len(co) : Neg(co)[i] = -co[i]
    <2>1. DOMAIN co = 1 .. Len(co) /\ Len(co) \in Nat /\ \A i \in 1 .. Len(co) : co[i] \in Int
        BY DEF Summable
    <2>2. Neg(co) = [i \in 1 .. Len(co) |-> -co[i]]
        BY <2>1 DEF Neg
    <2>3. \A i \in 1 .. Len(co) : -co[i] \in Int
        BY <2>1
    <2> QED BY <2>1, <2>2, <2>3
<1>2. Summable(Neg(co), xs, a)
    BY <1>1 DEF Summable
<1>3. ASSUME NEW i \in 1 .. Len(xs)
      PROVE  Parts(Neg(co), xs, a)[i] = -Parts(co, xs, a)[i]
    <2>1. /\ Parts(Neg(co), xs, a)[i] = Neg(co)[i] * a[xs[i]] /\ Parts(co, xs, a)[i] = co[i] * a[xs[i]]
          /\ Neg(co)[i] = -co[i]
        BY <1>1, <1>2, PartsAre
    <2>2. PICK v \in Int, w \in Int : v = co[i] /\ w = a[xs[i]]
        BY PartsAre
    <2>3. (-v) * w = -(v * w)
        BY SMT
    <2> QED BY <2>1, <2>2, <2>3
<1>4. Total(Parts(Neg(co), xs, a)) = -Total(Parts(co, xs, a))
    <2> DEFINE f == Parts(co, xs, a)
               g == Parts(Neg(co), xs, a)
    <2>1. Numbers(f) /\ Numbers(g) /\ Len(f) = Len(g) /\ \A i \in 1 .. Len(f) : g[i] = -f[i]
        BY <1>2, <1>3, PartsAre
    <2> HIDE DEF f, g
    <2>2. Total(g) = -Total(f)
        BY <2>1, TotalNegated
    <2> QED BY <2>2 DEF f, g
<1> QED BY <1>2, <1>4, PartsAre

LEMMA SumAppended ==
    ASSUME NEW co, NEW xs, NEW a, Summable(co, xs, a), NEW w, w \in Int, NEW x, x \in Nat, a[x] \in Int
    PROVE  /\ Summable(Append(co, w), Append(xs, x), a)
           /\ SumOf(Append(co, w), Append(xs, x), a) = SumOf(co, xs, a) + w * a[x]
<1> DEFINE co2 == Append(co, w)
           xs2 == Append(xs, x)
<1>1. /\ co2 \in Seq(Int) /\ xs2 \in Seq(Nat) /\ Len(co2) = Len(co) + 1 /\ Len(xs2) = Len(xs) + 1
      /\ (\A i \in 1 .. Len(xs) : co2[i] = co[i] /\ xs2[i] = xs[i])
      /\ co2[Len(xs) + 1] = w /\ xs2[Len(xs) + 1] = x /\ Len(xs) \in Nat
    BY DEF Summable
<1> HIDE DEF co2, xs2
<1>2. Summable(co2, xs2, a)
    <2>1. \A i \in 1 .. Len(xs2) : a[xs2[i]] \in Int
        <3> TAKE i \in 1 .. Len(xs2)
        <3>1. i \in 1 .. Len(xs) \/ i = Len(xs) + 1
            BY <1>1
        <3> QED BY <1>1, <3>1 DEF Summable
    <2> QED BY <1>1, <2>1 DEF Summable
<1> DEFINE f == Parts(co, xs, a)
           g == Parts(co2, xs2, a)
<1>3. /\ Numbers(f) /\ Numbers(g) /\ Len(f) = Len(xs) /\ Len(g) = Len(f) + 1
      /\ (\A i \in 1 .. Len(f) : g[i] = f[i]) /\ g[Len(f) + 1] = w * a[x]
    <2>1. /\ Numbers(f) /\ Len(f) = Len(xs)
          /\ \A i \in 1 .. Len(xs) : f[i] = co[i] * a[xs[i]]
        BY PartsAre
    <2>2. /\ Numbers(g) /\ Len(g) = Len(xs2)
          /\ \A i \in 1 .. Len(xs2) : g[i] = co2[i] * a[xs2[i]]
        BY <1>2, PartsAre
    <2> HIDE DEF f, g
    <2>3. Len(xs2) = Len(xs) + 1 /\ Len(xs) + 1 \in 1 .. Len(xs2) /\ \A i \in 1 .. Len(xs) : i \in 1 .. Len(xs2)
        BY <1>1
    <2>4. g[Len(xs) + 1] = w * a[x]
        <3>1. g[Len(xs) + 1] = co2[Len(xs) + 1] * a[xs2[Len(xs) + 1]]
            BY <2>2, <2>3
        <3> QED BY <3>1, <1>1
    <2>5. ASSUME NEW i \in 1 .. Len(xs) PROVE g[i] = f[i]
        <3>1. g[i] = co2[i] * a[xs2[i]] /\ f[i] = co[i] * a[xs[i]]
            BY <2>1, <2>2, <2>3
        <3>2. co2[i] = co[i] /\ xs2[i] = xs[i]
            BY <1>1
        <3> QED BY <3>1, <3>2
    <2> QED BY <2>1, <2>2, <2>3, <2>4, <2>5
<1> HIDE DEF f, g
<1>4. Total(g) = Total(f) + g[Len(f) + 1]
    BY <1>3, TotalMore
<1>5. SumOf(co, xs, a) = Total(f) /\ SumOf(co2, xs2, a) = Total(g)
    BY <1>2, PartsAre DEF f, g
<1>6. SumOf(co2, xs2, a) = SumOf(co, xs, a) + w * a[x]
    BY <1>3, <1>4, <1>5
<1> QED BY <1>2, <1>6 DEF co2, xs2

LEMMA SumOne ==
    ASSUME NEW u \in Int, NEW x \in Nat, NEW a, a[x] \in Int
    PROVE  Summable(<<u>>, <<x>>, a) /\ SumOf(<<u>>, <<x>>, a) = u * a[x]
<1>1. Summable(<<u>>, <<x>>, a)
    BY DEF Summable
<1>2. /\ Numbers(Parts(<<u>>, <<x>>, a)) /\ Len(Parts(<<u>>, <<x>>, a)) = 1
      /\ Parts(<<u>>, <<x>>, a)[1] = u * a[x] /\ SumOf(<<u>>, <<x>>, a) = Total(Parts(<<u>>, <<x>>, a))
    BY <1>1, PartsAre
<1> QED BY <1>1, <1>2, TotalSingle

LEMMA SumTwo ==
    ASSUME NEW u \in Int, NEW v \in Int, NEW x \in Nat, NEW y \in Nat, NEW a, a[x] \in Int, a[y] \in Int
    PROVE  Summable(<<u, v>>, <<x, y>>, a) /\ SumOf(<<u, v>>, <<x, y>>, a) = u * a[x] + v * a[y]
<1>1. Summable(<<u, v>>, <<x, y>>, a)
    BY DEF Summable
<1> DEFINE f == Parts(<<u, v>>, <<x, y>>, a)
<1>2. /\ Numbers(f) /\ Len(f) = 2 /\ f[1] = u * a[x] /\ f[2] = v * a[y]
      /\ SumOf(<<u, v>>, <<x, y>>, a) = Total(f)
    <2>1. Len(<<x, y>>) = 2 /\ <<x, y>>[1] = x /\ <<x, y>>[2] = y
        OBVIOUS
    <2>2. <<u, v>>[1] = u /\ <<u, v>>[2] = v
        OBVIOUS
    <2>3. /\ Numbers(f) /\ Len(f) = Len(<<x, y>>) /\ SumOf(<<u, v>>, <<x, y>>, a) = Total(f)
          /\ \A i \in 1 .. Len(<<x, y>>) : f[i] = <<u, v>>[i] * a[<<x, y>>[i]]
        <3>1. PICK p, q : p = <<u, v>> /\ q = <<x, y>>
            OBVIOUS
        <3>2. /\ Numbers(Parts(p, q, a)) /\ Len(Parts(p, q, a)) = Len(q) /\ SumOf(p, q, a) = Total(Parts(p, q, a))
              /\ \A i \in 1 .. Len(q) : Parts(p, q, a)[i] = p[i] * a[q[i]]
            <4>1. Summable(p, q, a)
                BY <1>1, <3>1
            <4> QED BY <4>1, PartsAre
        <3> QED BY <3>1, <3>2
    <2> HIDE DEF f
    <2> QED BY <2>1, <2>2, <2>3
<1> HIDE DEF f
<1> QED BY <1>1, <1>2, TotalTwo

LEMMA SumThree ==
    ASSUME NEW u \in Int, NEW v \in Int, NEW w \in Int, NEW x \in Nat, NEW y \in Nat, NEW z \in Nat,
           NEW a, a[x] \in Int, a[y] \in Int, a[z] \in Int
    PROVE  /\ Summable(<<u, v, w>>, <<x, y, z>>, a)
           /\ SumOf(<<u, v, w>>, <<x, y, z>>, a) = u * a[x] + v * a[y] + w * a[z]
<1>1. Summable(<<u, v, w>>, <<x, y, z>>, a)
    BY DEF Summable
<1> DEFINE f == Parts(<<u, v, w>>, <<x, y, z>>, a)
<1>2. /\ Numbers(f) /\ Len(f) = 3 /\ f[1] = u * a[x] /\ f[2] = v * a[y] /\ f[3] = w * a[z]
      /\ SumOf(<<u, v, w>>, <<x, y, z>>, a) = Total(f)
    <2>1. Len(<<x, y, z>>) = 3 /\ <<x, y, z>>[1] = x /\ <<x, y, z>>[2] = y /\ <<x, y, z>>[3] = z
        OBVIOUS
    <2>2. <<u, v, w>>[1] = u /\ <<u, v, w>>[2] = v /\ <<u, v, w>>[3] = w
        OBVIOUS
    <2>3. /\ Numbers(f) /\ Len(f) = Len(<<x, y, z>>) /\ SumOf(<<u, v, w>>, <<x, y, z>>, a) = Total(f)
          /\ \A i \in 1 .. Len(<<x, y, z>>) : f[i] = <<u, v, w>>[i] * a[<<x, y, z>>[i]]
        <3>1. PICK p, q : p = <<u, v, w>> /\ q = <<x, y, z>>
            OBVIOUS
        <3>2. /\ Numbers(Parts(p, q, a)) /\ Len(Parts(p, q, a)) = Len(q) /\ SumOf(p, q, a) = Total(Parts(p, q, a))
              /\ \A i \in 1 .. Len(q) : Parts(p, q, a)[i] = p[i] * a[q[i]]
            <4>1. Summable(p, q, a)
                BY <1>1, <3>1
            <4> QED BY <4>1, PartsAre
        <3> QED BY <3>1, <3>2
    <2> HIDE DEF f
    <2> QED BY <2>1, <2>2, <2>3
<1> HIDE DEF f
<1> QED BY <1>1, <1>2, TotalThree

\* One column is 1 and the others 0: its coefficient.
LEMMA SumOneHot ==
    ASSUME NEW co, NEW xs, NEW a, Summable(co, xs, a), NEW k, k \in 1 .. Len(xs),
           \A i \in 1 .. Len(xs) : a[xs[i]] = IF i = k THEN 1 ELSE 0
    PROVE  SumOf(co, xs, a) = co[k]
<1> DEFINE f == Parts(co, xs, a)
<1>1. /\ Numbers(f) /\ Len(f) = Len(xs) /\ SumOf(co, xs, a) = Total(f)
      /\ \A i \in 1 .. Len(f) : co[i] \in Int /\ f[i] = co[i] * a[xs[i]]
    BY PartsAre
<1> HIDE DEF f
<1>2. f[k] = co[k] /\ \A i \in 1 .. Len(f) : i # k => f[i] = 0
    BY <1>1
<1>3. Total(f) = f[k]
    BY <1>1, <1>2, TotalOne
<1> QED BY <1>1, <1>2, <1>3

\* All columns are 0.
LEMMA SumAllZero ==
    ASSUME NEW co, NEW xs, NEW a, Summable(co, xs, a), \A i \in 1 .. Len(xs) : a[xs[i]] = 0
    PROVE  SumOf(co, xs, a) = 0
<1> DEFINE f == Parts(co, xs, a)
<1>1. /\ Numbers(f) /\ Len(f) = Len(xs) /\ SumOf(co, xs, a) = Total(f)
      /\ \A i \in 1 .. Len(f) : co[i] \in Int /\ f[i] = co[i] * a[xs[i]]
    BY PartsAre
<1> HIDE DEF f
<1>2. \A i \in 1 .. Len(f) : f[i] = 0
    BY <1>1
<1> QED BY <1>1, <1>2, TotalZero

\* Coefficients 1 over Booleans.
Bits(xs, a) == \A i \in 1 .. Len(xs) : a[xs[i]] \in {0, 1}
Ones(co, xs) == \A i \in 1 .. Len(xs) : co[i] = 1
OneSet(xs, a) ==
    \E k \in 1 .. Len(xs) : \A i \in 1 .. Len(xs) : a[xs[i]] = IF i = k THEN 1 ELSE 0
AtMostOneSet(xs, a) == \A i, j \in 1 .. Len(xs) : a[xs[i]] = 1 /\ a[xs[j]] = 1 => i = j

LEMMA SumOfBits ==
    ASSUME NEW co, NEW xs, NEW a, Summable(co, xs, a), Bits(xs, a), Ones(co, xs)
    PROVE  /\ SumOf(co, xs, a) >= 0
           /\ SumOf(co, xs, a) >= 1 <=> \E i \in 1 .. Len(xs) : a[xs[i]] = 1
           /\ SumOf(co, xs, a) = 1 <=> OneSet(xs, a)
           /\ SumOf(co, xs, a) <= 1 <=> AtMostOneSet(xs, a)
<1> DEFINE f == Parts(co, xs, a)
<1>1. /\ Numbers(f) /\ Len(f) = Len(xs) /\ SumOf(co, xs, a) = Total(f)
      /\ \A i \in 1 .. Len(f) : co[i] \in Int /\ f[i] = co[i] * a[xs[i]]
    BY PartsAre
<1> HIDE DEF f
<1>2. \A i \in 1 .. Len(f) : f[i] = a[xs[i]] /\ f[i] \in {0, 1} /\ f[i] >= 0
    BY <1>1 DEF Bits, Ones
<1>n. Len(f) = Len(xs)
    BY <1>1
<1>3. Total(f) >= 0 /\ (Total(f) >= 1 <=> \E i \in 1 .. Len(f) : f[i] >= 1)
    BY <1>1, <1>2, TotalPositive
<1>4. Total(f) = 1 <=> \E k \in 1 .. Len(f) : f[k] = 1 /\ \A i \in 1 .. Len(f) : i # k => f[i] = 0
    BY <1>1, <1>2, TotalIsOne
<1>5. Total(f) <= 1 <=> \A i, j \in 1 .. Len(f) : f[i] = 1 /\ f[j] = 1 => i = j
    BY <1>1, <1>2, TotalAtMostOne
<1>6. (\E i \in 1 .. Len(f) : f[i] >= 1) <=> \E i \in 1 .. Len(xs) : a[xs[i]] = 1
    BY <1>n, <1>2
<1>7. (\E k \in 1 .. Len(f) : f[k] = 1 /\ \A i \in 1 .. Len(f) : i # k => f[i] = 0)
      <=> OneSet(xs, a)
    <2>1. ASSUME NEW k \in 1 .. Len(xs)
          PROVE  (f[k] = 1 /\ \A i \in 1 .. Len(f) : i # k => f[i] = 0)
                    <=> \A i \in 1 .. Len(xs) : a[xs[i]] = IF i = k THEN 1 ELSE 0
        BY <1>n, <1>2
    <2> DEFINE Here(k) == f[k] = 1 /\ \A i \in 1 .. Len(f) : i # k => f[i] = 0
               There(k) == \A i \in 1 .. Len(xs) : a[xs[i]] = IF i = k THEN 1 ELSE 0
    <2>2. \A k \in 1 .. Len(xs) : Here(k) <=> There(k)
        BY <2>1
    <2> HIDE DEF Here, There
    <2>3. (\E k \in 1 .. Len(f) : Here(k)) <=> \E k \in 1 .. Len(xs) : There(k)
        BY <1>n, <2>2
    <2> QED BY <2>3 DEF Here, There, OneSet
<1>8. (\A i, j \in 1 .. Len(f) : f[i] = 1 /\ f[j] = 1 => i = j)
      <=> AtMostOneSet(xs, a)
    BY <1>1, <1>2 DEF AtMostOneSet
<1> QED BY <1>1, <1>3, <1>4, <1>5, <1>6, <1>7, <1>8

\* Two assignments alike on the columns of a sum.
LEMMA SumAlike ==
    ASSUME NEW co, NEW xs, NEW a, NEW e, \A i \in 1 .. Len(xs) : a[xs[i]] = e[xs[i]]
    PROVE  SumOf(co, xs, a) = SumOf(co, xs, e)
<1>1. [i \in 1 .. Len(xs) |-> co[i] * a[xs[i]]] = [i \in 1 .. Len(xs) |-> co[i] * e[xs[i]]]
    OBVIOUS
<1> QED BY <1>1 DEF SumOf

-----------------------------------------------------------------------------
(***************************************************************************)
(* Finite sets of integers: their ends, and their members in order.        *)
(***************************************************************************)
Finite(S) == S \subseteq Int /\ IsFiniteSet(S)

HasEnds(S) == (\E v \in S : \A w \in S : w <= v) /\ \E v \in S : \A w \in S : v <= w

LEMMA EndsExist ==
    ASSUME NEW S, Finite(S), S # {}
    PROVE  HasEnds(S)
<1> DEFINE A == {n \in Nat : \A T : Finite(T) /\ T # {} /\ Cardinality(T) = n => HasEnds(T)}
<1>1. 0 \in A
    <2>1. \A T : Finite(T) /\ T # {} => Cardinality(T) # 0
        BY FS_EmptySet DEF Finite
    <2> QED BY <2>1
<1>2. ASSUME NEW n \in Nat, n \in A PROVE n + 1 \in A
    <2>1. SUFFICES ASSUME NEW T, Finite(T), T # {}, Cardinality(T) = n + 1 PROVE HasEnds(T)
        OBVIOUS
    <2>2. PICK t : t \in T
        BY <2>1
    <2> DEFINE U == T \ {t}
    <2>3. Finite(U) /\ Cardinality(U) = n /\ t \in Int
        <3>1. IsFiniteSet(U) /\ Cardinality(U) = Cardinality(T) - 1
            BY <2>1, <2>2, FS_RemoveElement DEF Finite
        <3> QED BY <2>1, <2>2, <3>1 DEF Finite
    <2>4. CASE U = {}
        <3>1. T = {t}
            BY <2>2, <2>4
        <3> QED BY <2>3, <3>1 DEF HasEnds
    <2>5. CASE U # {}
        <3>1. HasEnds(U)
            <4> HIDE DEF U
            <4> QED BY <1>2, <2>3, <2>5
        <3>2. PICK hi \in U, lo \in U : \A w \in U : w <= hi /\ lo <= w
            BY <3>1 DEF HasEnds
        <3>3. hi \in Int /\ lo \in Int /\ hi \in T /\ lo \in T /\ \A w \in T : w \in Int /\ (w \in U \/ w = t)
            BY <2>1, <2>2, <3>2 DEF Finite
        <3> HIDE DEF U
        <3>4. \E v \in T : \A w \in T : w <= v
            <4>1. CASE hi <= t
                <5>1. \A w \in T : w <= t
                    BY <2>3, <3>2, <3>3, <4>1
                <5> QED BY <2>2, <5>1
            <4>2. CASE ~ (hi <= t)
                <5>1. \A w \in T : w <= hi
                    BY <2>3, <3>2, <3>3, <4>2
                <5> QED BY <3>3, <5>1
            <4> QED BY <4>1, <4>2
        <3>5. \E v \in T : \A w \in T : v <= w
            <4>1. CASE t <= lo
                <5>1. \A w \in T : t <= w
                    BY <2>3, <3>2, <3>3, <4>1
                <5> QED BY <2>2, <5>1
            <4>2. CASE ~ (t <= lo)
                <5>1. \A w \in T : lo <= w
                    BY <2>3, <3>2, <3>3, <4>2
                <5> QED BY <3>3, <5>1
            <4> QED BY <4>1, <4>2
        <3> QED BY <3>4, <3>5 DEF HasEnds
    <2> QED BY <2>4, <2>5
<1> HIDE DEF A
<1>3. \A n \in Nat : n \in A
    BY <1>1, <1>2, NatSetInduction, Zenon
<1>4. Cardinality(S) \in A
    BY <1>3, FS_CardinalityType DEF Finite
<1> QED BY <1>4 DEF A

LEMMA EndsAre ==
    ASSUME NEW S, Finite(S), S # {}
    PROVE  /\ Max(S) \in S /\ Min(S) \in S /\ Max(S) \in Int /\ Min(S) \in Int
           /\ \A w \in S : w \in Int /\ Min(S) <= w /\ w <= Max(S)
<1>1. (\E v \in S : \A w \in S : v >= w) /\ \E v \in S : \A w \in S : v <= w
    <2>1. S \subseteq Int
        BY DEF Finite
    <2> QED BY <2>1, EndsExist DEF HasEnds
<1>2. Max(S) \in S /\ \A w \in S : Max(S) >= w
    BY <1>1, Zenon DEF Max
<1>3. Min(S) \in S /\ \A w \in S : Min(S) <= w
    BY <1>1, Zenon DEF Min
<1>4. S \subseteq Int
    BY DEF Finite
<1> QED BY <1>2, <1>3, <1>4

\* An end is known by what it does.
LEMMA MaxIs ==
    ASSUME NEW S, Finite(S), NEW v, v \in S, \A w \in S : w <= v
    PROVE  Max(S) = v
<1>1. Max(S) \in S /\ Max(S) \in Int /\ v \in Int /\ v <= Max(S)
    BY EndsAre DEF Finite
<1>2. Max(S) <= v
    BY <1>1
<1> QED BY <1>1, <1>2

LEMMA MinIs ==
    ASSUME NEW S, Finite(S), NEW v, v \in S, \A w \in S : v <= w
    PROVE  Min(S) = v
<1>1. Min(S) \in S /\ Min(S) \in Int /\ v \in Int /\ Min(S) <= v
    BY EndsAre DEF Finite
<1>2. v <= Min(S)
    BY <1>1
<1> QED BY <1>1, <1>2

LEMMA FiniteParts ==
    ASSUME NEW S, Finite(S), NEW T, T \subseteq S
    PROVE  Finite(T) /\ Cardinality(T) \in Nat /\ Cardinality(S) \in Nat
           /\ Cardinality(T) <= Cardinality(S) /\ (Cardinality(S) = Cardinality(T) => S = T)
<1>1. T \in SUBSET S
    OBVIOUS
<1> QED BY <1>1, FS_Subset, FS_CardinalityType DEF Finite

LEMMA IntervalFinite ==
    ASSUME NEW a, NEW b, a \in Int, b \in Int
    PROVE  Finite(a .. b) /\ Cardinality(a .. b) = IF a > b THEN 0 ELSE b - a + 1
BY FS_Interval DEF Finite

\* A set of one value, of two, and of any.
LEMMA OneValue ==
    ASSUME NEW S, Finite(S)
    PROVE  /\ Cardinality(S) = 0 <=> S = {}
           /\ Cardinality(S) = 1 <=> S # {} /\ S = {Min(S)}
           /\ S # {} => (Cardinality(S) = 1 <=> Min(S) = Max(S))
<1>1. Cardinality(S) = 0 <=> S = {}
    BY FS_EmptySet DEF Finite
<1>2. Cardinality(S) = 1 <=> \E v : S = {v}
    BY FS_Singleton DEF Finite
<1>3. S # {} => Min(S) \in S /\ Max(S) \in S /\ \A w \in S : w \in Int /\ Min(S) <= w /\ w <= Max(S)
    BY EndsAre
<1>4. Cardinality(S) = 1 <=> S # {} /\ S = {Min(S)}
    BY <1>2, <1>3
<1>5. ASSUME S # {} PROVE Cardinality(S) = 1 <=> Min(S) = Max(S)
    <2>1. ASSUME Min(S) = Max(S) PROVE S = {Min(S)}
        BY <1>3, <1>5, <2>1
    <2>2. ASSUME S = {Min(S)} PROVE Min(S) = Max(S)
        BY <1>3, <1>5, <2>2
    <2> QED BY <1>4, <1>5, <2>1, <2>2
<1> QED BY <1>1, <1>4, <1>5

LEMMA TwoValues ==
    ASSUME NEW S, Finite(S), Cardinality(S) = 2
    PROVE  S = {Min(S), Max(S)} /\ Min(S) < Max(S)
<1>1. S # {}
    BY OneValue
<1>2. Min(S) \in S /\ Max(S) \in S /\ \A w \in S : w \in Int /\ Min(S) <= w /\ w <= Max(S)
    BY <1>1, EndsAre
<1>3. Min(S) # Max(S)
    BY <1>1, OneValue
<1> DEFINE T == {Min(S), Max(S)}
<1>4. Cardinality(T) = 2
    <2>1. IsFiniteSet({Min(S)}) /\ Cardinality({Min(S)}) = 1
        BY FS_Singleton
    <2>2. Cardinality({Min(S)} \cup {Max(S)}) = 2
        BY <1>3, <2>1, FS_AddElement
    <2>3. T = {Min(S)} \cup {Max(S)}
        OBVIOUS
    <2> QED BY <2>2, <2>3
<1>5. T \subseteq S
    BY <1>2
<1>6. S = T
    <2> HIDE DEF T
    <2> QED BY <1>4, <1>5, FiniteParts
<1> QED BY <1>2, <1>3, <1>6

-----------------------------------------------------------------------------
\* How many members are up to v: a set's members are counted off by it.
Rank(S, v) == Cardinality({w \in S : w <= v})

LEMMA RankType ==
    ASSUME NEW S, Finite(S), NEW v, v \in S
    PROVE  Rank(S, v) \in 1 .. Cardinality(S) /\ Cardinality(S) \in Nat
<1> DEFINE T == {w \in S : w <= v}
<1>1. T \subseteq S /\ v \in T
    BY DEF Finite
<1>2. Cardinality(T) # 0
    <2> HIDE DEF T
    <2>1. Finite(T)
        BY <1>1, FiniteParts
    <2> QED BY <1>1, <2>1, OneValue
<1>3. Rank(S, v) = Cardinality(T)
    BY DEF Rank
<1> HIDE DEF T
<1> QED BY <1>1, <1>2, <1>3, FiniteParts

LEMMA RankOrder ==
    ASSUME NEW S, Finite(S), NEW v, NEW w, v \in S, w \in S, v < w
    PROVE  Rank(S, v) < Rank(S, w)
<1> DEFINE T == {u \in S : u <= v}
           U == {u \in S : u <= w}
<1>1. S \subseteq Int
    BY DEF Finite
<1>2. T \subseteq U /\ U \subseteq S /\ w \in U /\ w \notin T
    <2>1. v \in Int /\ w \in Int /\ w <= w /\ ~ (w <= v) /\ \A u \in S : u \in Int /\ (u <= v => u <= w)
        BY <1>1
    <2> QED BY <2>1
<1>3. Rank(S, v) = Cardinality(T) /\ Rank(S, w) = Cardinality(U)
    BY DEF Rank
<1> HIDE DEF T, U
<1>4. Finite(U)
    BY <1>2, FiniteParts
<1>5. /\ Cardinality(T) \in Nat /\ Cardinality(U) \in Nat
      /\ Cardinality(T) <= Cardinality(U) /\ (Cardinality(U) = Cardinality(T) => U = T)
    BY <1>2, <1>4, FiniteParts
<1> QED BY <1>2, <1>3, <1>5

LEMMA RankOnto ==
    ASSUME NEW S, Finite(S)
    PROVE  \A i \in 1 .. Cardinality(S) : \E v \in S : Rank(S, v) = i
<1> DEFINE f == [v \in S |-> Rank(S, v)]
           T == 1 .. Cardinality(S)
<1>1. f \in [S -> T]
    BY RankType
<1>2. \A v, w \in S : f[v] = f[w] => v = w
    <2> SUFFICES ASSUME NEW v \in S, NEW w \in S, v # w PROVE f[v] # f[w]
        OBVIOUS
    <2>1. v \in Int /\ w \in Int
        BY DEF Finite
    <2>2. Rank(S, v) \in Int /\ Rank(S, w) \in Int
        BY RankType
    <2>3. CASE v < w
        BY <2>2, <2>3, RankOrder
    <2>4. CASE w < v
        BY <2>2, <2>4, RankOrder
    <2> QED BY <2>1, <2>3, <2>4
<1>3. IsFiniteSet(T) /\ Cardinality(T) = Cardinality(S) /\ IsFiniteSet(S)
    <2>1. Cardinality(S) \in Nat /\ IsFiniteSet(S)
        BY FS_CardinalityType DEF Finite
    <2> QED BY <2>1, FS_Interval
<1> HIDE DEF f, T
<1>4. f \in Injection(S, T)
    BY <1>1, <1>2 DEF Injection, IsInjective
<1>5. f \in Surjection(S, T)
    BY <1>3, <1>4, FS_Injection
<1>6. \A i \in T : \E v \in S : f[v] = i
    BY <1>5 DEF Surjection
<1> QED BY <1>6 DEF f, T

\* The members in order: each at its rank.
LEMMA AscIs ==
    ASSUME NEW S, Finite(S)
    PROVE  /\ Cardinality(S) \in Nat /\ Asc(S) \in Seq(S) /\ Len(Asc(S)) = Cardinality(S)
           /\ DOMAIN Asc(S) = 1 .. Cardinality(S)
           /\ \A i \in 1 .. Cardinality(S) : Asc(S)[i] \in S /\ Asc(S)[i] \in Int /\ Rank(S, Asc(S)[i]) = i
           /\ \A v \in S : Rank(S, v) \in 1 .. Cardinality(S) /\ Asc(S)[Rank(S, v)] = v
<1> DEFINE At_(i) == CHOOSE v \in S : Cardinality({w \in S : w <= v}) = i
<1>1. Cardinality(S) \in Nat
    BY FS_CardinalityType DEF Finite
<1>2. ASSUME NEW i \in 1 .. Cardinality(S)
      PROVE  At_(i) \in S /\ Rank(S, At_(i)) = i
    <2>1. \E v \in S : Cardinality({w \in S : w <= v}) = i
        BY RankOnto DEF Rank
    <2>2. At_(i) \in S /\ Cardinality({w \in S : w <= At_(i)}) = i
        BY <2>1, Zenon
    <2> HIDE DEF At_
    <2> QED BY <2>2 DEF Rank
<1>3. Asc(S) = [i \in 1 .. Cardinality(S) |-> At_(i)]
    BY DEF Asc
<1> HIDE DEF At_
<1>4. Asc(S) \in Seq(S) /\ Len(Asc(S)) = Cardinality(S) /\ DOMAIN Asc(S) = 1 .. Cardinality(S)
    BY <1>1, <1>2, <1>3
<1>5. \A i \in 1 .. Cardinality(S) : Asc(S)[i] \in S /\ Asc(S)[i] \in Int /\ Rank(S, Asc(S)[i]) = i
    BY <1>2, <1>3 DEF Finite
<1>6. ASSUME NEW v \in S PROVE Rank(S, v) \in 1 .. Cardinality(S) /\ Asc(S)[Rank(S, v)] = v
    <2>1. Rank(S, v) \in 1 .. Cardinality(S)
        BY RankType
    <2> DEFINE u == Asc(S)[Rank(S, v)]
    <2>2. u \in S /\ Rank(S, u) = Rank(S, v) /\ u \in Int /\ v \in Int
        BY <1>5, <2>1 DEF Finite
    <2> HIDE DEF u
    <2>3. ~ (u < v) /\ ~ (v < u)
        BY <2>1, <2>2, RankOrder
    <2>4. u = v
        BY <2>2, <2>3
    <2> QED BY <2>1, <2>4 DEF u
<1> QED BY <1>1, <1>4, <1>5, <1>6

-----------------------------------------------------------------------------
(***************************************************************************)
(* Well-formed calls, kind by kind.                                        *)
(***************************************************************************)
Linears  == {"int_lin_le", "int_lin_eq", "ne"}
Reifieds == {"le_imp", "le_imp_not", "eq_imp", "eq_imp_not", "le_reif", "eq_reif", "ne_reif"}
Members  == {"within", "in", "in_imp", "in_reif", "in_encoded_imp", "in_encoded", "post"}

LinearOf(c, d) ==
    /\ c.co \in Seq(Int) /\ c.xs \in Seq(Columns(d)) /\ c.k \in Int /\ Len(c.co) = Len(c.xs)

LEMMA LinearParts ==
    ASSUME NEW c, NEW d, Proper(c, d), c.c \in Linears
    PROVE  LinearOf(c, d) /\ DOMAIN c = {"c", "co", "xs", "k"}
BY DEF Linears, LinearOf, Proper, Comparison, Membership, Operation, LookupCall, GlobalCall, Encoding

LEMMA ReifiedParts ==
    ASSUME NEW c, NEW d, Proper(c, d), c.c \in Reifieds
    PROVE  LinearOf(c, d) /\ c.b \in Booleans(d) /\ DOMAIN c = {"c", "co", "xs", "k", "b"}
BY DEF Reifieds, LinearOf, Proper, Comparison, Membership, Operation, LookupCall, GlobalCall, Encoding

LEMMA MemberParts ==
    ASSUME NEW c, NEW d, Proper(c, d), c.c \in Members
    PROVE  /\ c.x \in Columns(d) /\ Finite(c.s)
           /\ c.c \in {"in_imp", "in_reif", "in_encoded_imp"} => c.b \in Booleans(d)
           /\ c.c \in {"in_encoded", "post"} => c.b \in Booleans(d) \cup {0}
           /\ {"c", "x", "s"} \subseteq DOMAIN c
           /\ DOMAIN c \subseteq {"c", "x", "s", "b", "values"}
           /\ c.c \notin {"within", "in"} => "b" \in DOMAIN c
           /\ c.c = "post" => c.values \subseteq Int
BY DEF Members, Finite, Proper, Comparison, Membership, Operation, LookupCall, GlobalCall, Encoding

LEMMA OperationParts ==
    ASSUME NEW c, NEW d, Proper(c, d)
    PROVE  /\ c.c = "xor" => c.xs \in Seq(Booleans(d)) /\ c.y \in Columns(d) /\ DOMAIN c = {"c", "xs", "y"}
           /\ c.c \in {"abs", "times", "times_element", "div", "mod", "maximum", "minimum"} =>
                c.xs \in Seq(Columns(d)) /\ c.y \in Columns(d) /\ DOMAIN c = {"c", "xs", "y"}
           /\ c.c = "abs" => Len(c.xs) = 1
           /\ c.c \in {"times", "times_element", "div", "mod"} => Len(c.xs) = 2
           /\ c.c \in {"maximum", "minimum"} => Len(c.xs) > 0
BY DEF Proper, Comparison, Membership, Operation, LookupCall, GlobalCall, Encoding

LEMMA LookupParts ==
    ASSUME NEW c, NEW d, Proper(c, d)
    PROVE  /\ c.c = "if" =>
                /\ c.bs \in Seq(Booleans(d)) /\ c.xs \in Seq(Columns(d)) /\ c.y \in Columns(d)
                /\ Len(c.bs) = Len(c.xs) /\ DOMAIN c = {"c", "bs", "xs", "y"}
           /\ c.c \in {"element", "element_live"} =>
                /\ c.xs \in Seq(Columns(d)) /\ c.offset \in Int /\ c.index \in Columns(d)
                /\ c.value \in Columns(d) /\ {"c", "xs", "offset", "index", "value"} \subseteq DOMAIN c
                /\ DOMAIN c \subseteq {"c", "xs", "offset", "index", "value", "live"}
           /\ c.c = "element_live" => c.live # {} /\ c.live \subseteq 1 .. Len(c.xs)
BY DEF Proper, Comparison, Membership, Operation, LookupCall, GlobalCall, Encoding

LEMMA GlobalParts ==
    ASSUME NEW c, NEW d, Proper(c, d)
    PROVE  /\ c.c \in {"lex_less", "lex_lesseq", "inverse", "inverse_in_range"} =>
                c.xs \in Seq(Columns(d)) /\ c.ys \in Seq(Columns(d)) /\ DOMAIN c = {"c", "xs", "ys"}
           /\ c.c = "all_different" => c.xs \in Seq(Columns(d)) /\ DOMAIN c = {"c", "xs"}
           /\ c.c = "table" =>
                /\ c.xs \in Seq(Columns(d)) /\ c.tuples \in Seq(Seq(Int)) /\ DOMAIN c = {"c", "xs", "tuples"}
                /\ \A t \in DOMAIN c.tuples : Len(c.tuples[t]) = Len(c.xs)
           /\ c.c \in {"select", "two"} => c.x \in Columns(d) /\ DOMAIN c = {"c", "x"}
BY DEF Proper, Comparison, Membership, Operation, LookupCall, GlobalCall, Encoding

\* There are no other kinds.
LEMMA KindsAre ==
    ASSUME NEW c, NEW d, Proper(c, d)
    PROVE  c.c \in Linears \cup Reifieds \cup Members \cup
              {"xor", "abs", "times", "times_element", "div", "mod", "maximum", "minimum", "if",
               "element", "element_live", "lex_less", "lex_lesseq", "inverse", "inverse_in_range",
               "all_different", "table", "select", "two"}
BY DEF Linears, Reifieds, Members, Proper, Comparison, Membership, Operation, LookupCall, GlobalCall, Encoding

-----------------------------------------------------------------------------
(***************************************************************************)
(* Assignments.  A call asks something of its own columns only, and stays  *)
(* well formed when there are more columns and fewer values.               *)
(***************************************************************************)
Domains(d) == d \in Seq(SUBSET Int) /\ \A x \in 1 .. Len(d) : IsFiniteSet(d[x])

Fits(s, d) == s \in [1 .. Len(d) -> Int] /\ \A x \in 1 .. Len(d) : s[x] \in d[x]

Bigger(d, e) == Len(d) <= Len(e) /\ \A x \in 1 .. Len(d) : e[x] \subseteq d[x]

Alike(s, t, C) == \A x \in C : s[x] = t[x]

Meets(s, C) == \A c \in C : Holds(c, s)

LEMMA DomainsAre ==
    ASSUME NEW d, Domains(d)
    PROVE  Len(d) \in Nat /\ \A x \in 1 .. Len(d) : Finite(d[x]) /\ d[x] \subseteq Int
BY DEF Domains, Finite

LEMMA ColumnsGrow ==
    ASSUME NEW d, NEW e, Domains(d), Domains(e), Bigger(d, e)
    PROVE  /\ Columns(d) \subseteq Columns(e) /\ Booleans(d) \subseteq Booleans(e)
           /\ Columns(d) \subseteq Nat /\ Booleans(d) \subseteq Columns(d)
BY DomainsAre DEF Columns, Booleans, Bigger

LEMMA SeqGrows ==
    ASSUME NEW S, NEW T, S \subseteq T, NEW q, q \in Seq(S)
    PROVE  q \in Seq(T)
OBVIOUS

LEMMA ProperGrows ==
    ASSUME NEW d, NEW e, Domains(d), Domains(e), Bigger(d, e), NEW c, Proper(c, d)
    PROVE  Proper(c, e)
<1>1. Columns(d) \subseteq Columns(e) /\ Booleans(d) \subseteq Booleans(e)
    BY ColumnsGrow
<1>2. \A q : (q \in Seq(Columns(d)) => q \in Seq(Columns(e))) /\ (q \in Seq(Booleans(d)) => q \in Seq(Booleans(e)))
    BY <1>1, SeqGrows
<1>3. Comparison(c, d) => Comparison(c, e)
    BY <1>1, <1>2 DEF Comparison
<1>4. Membership(c, d) => Membership(c, e)
    BY <1>1 DEF Membership
<1>5. Operation(c, d) => Operation(c, e)
    BY <1>1, <1>2 DEF Operation
<1>6. LookupCall(c, d) => LookupCall(c, e)
    BY <1>1, <1>2 DEF LookupCall
<1>7. GlobalCall(c, d) => GlobalCall(c, e)
    BY <1>1, <1>2 DEF GlobalCall
<1>8. Encoding(c, d) => Encoding(c, e)
    BY <1>1 DEF Encoding
<1> QED BY <1>3, <1>4, <1>5, <1>6, <1>7, <1>8 DEF Proper

LEMMA FitsColumns ==
    ASSUME NEW d, Domains(d), NEW s, Fits(s, d)
    PROVE  /\ \A x \in Columns(d) : x \in Nat /\ s[x] \in Int /\ s[x] \in d[x]
           /\ \A b \in Booleans(d) : b \in Nat /\ s[b] \in {0, 1} /\ d[b] \subseteq 0 .. 1
           /\ Booleans(d) \subseteq Columns(d) /\ Columns(d) \subseteq Nat
BY DomainsAre DEF Fits, Columns, Booleans

\* Where the columns of a call are named.
LEMMA NamedHas ==
    ASSUME NEW c
    PROVE  /\ "xs" \in DOMAIN c => \A i \in DOMAIN c.xs : c.xs[i] \in Named(c)
           /\ "ys" \in DOMAIN c => \A i \in DOMAIN c.ys : c.ys[i] \in Named(c)
           /\ "bs" \in DOMAIN c => \A i \in DOMAIN c.bs : c.bs[i] \in Named(c)
           /\ "x" \in DOMAIN c => c.x \in Named(c)
           /\ "y" \in DOMAIN c => c.y \in Named(c)
           /\ "b" \in DOMAIN c => c.b \in Named(c)
           /\ "index" \in DOMAIN c => c.index \in Named(c)
           /\ "value" \in DOMAIN c => c.value \in Named(c)
<1> DEFINE Of(f) == IF f \in {"xs", "ys", "bs"} THEN {c[f][i] : i \in DOMAIN c[f]} ELSE {c[f]}
<1>1. Named(c) = UNION {Of(f) : f \in DOMAIN c \cap {"xs", "ys", "bs", "x", "y", "b", "index", "value"}}
    BY DEF Named
<1>2. \A f \in {"xs", "ys", "bs", "x", "y", "b", "index", "value"} : f \in DOMAIN c => Of(f) \subseteq Named(c)
    <2> HIDE DEF Of
    <2> QED BY <1>1
<1> QED BY <1>2

LEMMA NamedOnly ==
    ASSUME NEW c
    PROVE  \A x \in Named(c) :
             \/ "xs" \in DOMAIN c /\ \E i \in DOMAIN c.xs : x = c.xs[i]
             \/ "ys" \in DOMAIN c /\ \E i \in DOMAIN c.ys : x = c.ys[i]
             \/ "bs" \in DOMAIN c /\ \E i \in DOMAIN c.bs : x = c.bs[i]
             \/ \E f \in {"x", "y", "b", "index", "value"} : f \in DOMAIN c /\ x = c[f]
BY DEF Named

Fields(c, d) ==
    /\ "xs" \in DOMAIN c => c.xs \in Seq(Columns(d))
    /\ "ys" \in DOMAIN c => c.ys \in Seq(Columns(d))
    /\ "bs" \in DOMAIN c => c.bs \in Seq(Columns(d))
    /\ "x" \in DOMAIN c => c.x \in Columns(d)
    /\ "y" \in DOMAIN c => c.y \in Columns(d)
    /\ "b" \in DOMAIN c => c.b \in Columns(d) \cup {0}
    /\ "index" \in DOMAIN c => c.index \in Columns(d)
    /\ "value" \in DOMAIN c => c.value \in Columns(d)

LEMMA FieldsAre ==
    ASSUME NEW d, Domains(d), NEW c, Proper(c, d)
    PROVE  Fields(c, d)
<1>1. Booleans(d) \subseteq Columns(d)
    BY DEF Booleans
<1>2. \A q : q \in Seq(Booleans(d)) => q \in Seq(Columns(d))
    BY <1>1, SeqGrows
<1>3. Comparison(c, d) => Fields(c, d)
    BY <1>1 DEF Comparison, Fields
<1>4. Membership(c, d) => Fields(c, d)
    BY <1>1 DEF Membership, Fields
<1>5. Operation(c, d) => Fields(c, d)
    BY <1>2 DEF Operation, Fields
<1>6. LookupCall(c, d) => Fields(c, d)
    BY <1>2 DEF LookupCall, Fields
<1>7. GlobalCall(c, d) => Fields(c, d)
    BY DEF GlobalCall, Fields
<1>8. Encoding(c, d) => Fields(c, d)
    BY DEF Encoding, Fields
<1> QED BY <1>3, <1>4, <1>5, <1>6, <1>7, <1>8 DEF Proper

\* The columns a call names are columns, but for a missing Boolean.
LEMMA NamedColumns ==
    ASSUME NEW d, Domains(d), NEW c, Proper(c, d)
    PROVE  Named(c) \subseteq 0 .. Len(d)
<1>1. Fields(c, d)
    BY FieldsAre
<1>2. Columns(d) \subseteq 0 .. Len(d) /\ 0 \in 0 .. Len(d)
    BY DomainsAre DEF Columns
<1>3. \A q \in Seq(Columns(d)) : \A i \in DOMAIN q : q[i] \in Columns(d)
    OBVIOUS
<1> QED BY <1>1, <1>2, <1>3, NamedOnly DEF Fields

-----------------------------------------------------------------------------
\* Assignments alike on the columns a call names.
LEMMA LinearAlike ==
    ASSUME NEW d, Domains(d), NEW c, Proper(c, d), c.c \in Linears \cup Reifieds,
           NEW s, NEW t, Alike(s, t, Named(c) \ {0})
    PROVE  Holds(c, s) <=> Holds(c, t)
<1>1. LinearOf(c, d) /\ "xs" \in DOMAIN c
    BY LinearParts, ReifiedParts
<1>2. \A i \in 1 .. Len(c.xs) : c.xs[i] # 0 /\ c.xs[i] \in Named(c)
    <2>1. DOMAIN c.xs = 1 .. Len(c.xs) /\ \A i \in 1 .. Len(c.xs) : c.xs[i] \in Columns(d)
        BY <1>1 DEF LinearOf
    <2> QED BY <1>1, <2>1, NamedHas DEF Columns
<1>3. SumOf(c.co, c.xs, s) = SumOf(c.co, c.xs, t)
    <2>1. \A i \in 1 .. Len(c.xs) : s[c.xs[i]] = t[c.xs[i]]
        BY <1>2 DEF Alike
    <2> QED BY <2>1, SumAlike
<1>4. c.c \in Reifieds => s[c.b] = t[c.b]
    <2>1. c.c \in Reifieds => c.b \in Named(c) /\ c.b # 0
        BY ReifiedParts, NamedHas DEF Booleans, Columns
    <2> QED BY <2>1 DEF Alike
<1> QED BY <1>3, <1>4, HoldsLinear, HoldsReified DEF Linears, Reifieds

LEMMA MemberAlike ==
    ASSUME NEW d, Domains(d), NEW c, Proper(c, d), c.c \in Members,
           NEW s, NEW t, Alike(s, t, Named(c) \ {0})
    PROVE  Holds(c, s) <=> Holds(c, t)
<1>1. c.x \in Named(c) /\ c.x # 0
    BY MemberParts, NamedHas DEF Columns
<1>2. c.c \notin {"within", "in"} => c.b \in Named(c)
    BY MemberParts, NamedHas
<1>3. c.c \in {"in_imp", "in_reif", "in_encoded_imp"} => c.b # 0
    BY MemberParts DEF Booleans, Columns
<1>4. s[c.x] = t[c.x] /\ (c.c \notin {"within", "in"} => c.b = 0 \/ s[c.b] = t[c.b])
    BY <1>1, <1>2 DEF Alike
<1> QED BY <1>3, <1>4, HoldsMember DEF Members

LEMMA OtherAlike ==
    ASSUME NEW d, Domains(d), NEW c, Proper(c, d), c.c \notin Linears \cup Reifieds \cup Members,
           NEW s, NEW t, Alike(s, t, Named(c) \ {0})
    PROVE  Holds(c, s) <=> Holds(c, t)
<1> DEFINE Kinds == {"xor", "abs", "times", "times_element", "div", "mod", "maximum", "minimum"}
<1>f. Fields(c, d)
    BY FieldsAre
<1>z. 0 \notin Columns(d) /\ \A q \in Seq(Columns(d)) : DOMAIN q = 1 .. Len(q) /\ \A i \in DOMAIN q : q[i] \in Columns(d)
    BY DEF Columns
<1>a. \A x \in Named(c) : x # 0 => s[x] = t[x]
    BY DEF Alike
<1>1. "xs" \in DOMAIN c => \A i \in DOMAIN c.xs : s[c.xs[i]] = t[c.xs[i]]
    BY <1>f, <1>z, <1>a, NamedHas DEF Fields
<1>2. "ys" \in DOMAIN c => \A i \in DOMAIN c.ys : s[c.ys[i]] = t[c.ys[i]]
    BY <1>f, <1>z, <1>a, NamedHas DEF Fields
<1>3. "bs" \in DOMAIN c => \A i \in DOMAIN c.bs : s[c.bs[i]] = t[c.bs[i]]
    BY <1>f, <1>z, <1>a, NamedHas DEF Fields
<1>4. /\ "y" \in DOMAIN c => s[c.y] = t[c.y]
      /\ "index" \in DOMAIN c => s[c.index] = t[c.index]
      /\ "value" \in DOMAIN c => s[c.value] = t[c.value]
    BY <1>f, <1>z, <1>a, NamedHas DEF Fields
<1>5. "xs" \in DOMAIN c => c.xs \in Seq(Columns(d))
    BY <1>f DEF Fields
<1>6. "xs" \in DOMAIN c => DOMAIN c.xs = 1 .. Len(c.xs)
    BY <1>5
<1>7. ASSUME c.c \in Kinds PROVE Holds(c, s) <=> Holds(c, t)
    <2>1. "xs" \in DOMAIN c /\ "y" \in DOMAIN c
        BY <1>7, OperationParts
    <2>2. [i \in 1 .. Len(c.xs) |-> s[c.xs[i]]] = [i \in 1 .. Len(c.xs) |-> t[c.xs[i]]]
        BY <1>1, <1>6, <2>1
    <2>3. {s[c.xs[i]] : i \in 1 .. Len(c.xs)} = {t[c.xs[i]] : i \in 1 .. Len(c.xs)}
        BY <1>1, <1>6, <2>1
    <2>4. s[c.y] = t[c.y] /\ (Len(c.xs) >= 1 => s[c.xs[1]] = t[c.xs[1]]) /\ (Len(c.xs) >= 2 => s[c.xs[2]] = t[c.xs[2]])
        BY <1>1, <1>4, <1>5, <1>6, <2>1
    <2>5. /\ c.c = "abs" => Len(c.xs) = 1
          /\ c.c \in {"times", "times_element", "div", "mod"} => Len(c.xs) = 2
        BY OperationParts
    <2>6. c.c = "xor" => (Holds(c, s) <=> Holds(c, t))
        <3>1. PICK g : g = [i \in 1 .. Len(c.xs) |-> s[c.xs[i]]]
            OBVIOUS
        <3>2. g = [i \in 1 .. Len(c.xs) |-> t[c.xs[i]]]
            BY <2>2, <3>1
        <3>3. c.c = "xor" => (Holds(c, s) <=> Total(g) % 2 = 1)
            BY <3>1, HoldsOperation, Zenon
        <3>4. c.c = "xor" => (Holds(c, t) <=> Total(g) % 2 = 1)
            BY <3>2, HoldsOperation, Zenon
        <3> QED BY <3>3, <3>4
    <2>7. c.c \in {"maximum", "minimum"} => (Holds(c, s) <=> Holds(c, t))
        BY <2>3, <2>4 DEF Holds
    <2>8. c.c \in {"abs", "times", "times_element", "div", "mod"} => (Holds(c, s) <=> Holds(c, t))
        <3>1. c.c = "abs" => (Holds(c, s) <=> Holds(c, t))
            BY <2>4, <2>5, HoldsAbs
        <3>2. ASSUME c.c \in {"times", "times_element", "div", "mod"} PROVE Holds(c, s) <=> Holds(c, t)
            <4>1. s[c.y] = t[c.y] /\ s[c.xs[1]] = t[c.xs[1]] /\ s[c.xs[2]] = t[c.xs[2]]
                BY <2>4, <2>5, <3>2
            <4>2. CASE c.c \in {"times", "times_element"}
                <5>1. (Holds(c, s) <=> s[c.y] = s[c.xs[1]] * s[c.xs[2]]) /\ (Holds(c, t) <=> t[c.y] = t[c.xs[1]] * t[c.xs[2]])
                    BY <4>2, HoldsOperation
                <5> QED BY <4>1, <5>1
            <4>3. CASE c.c = "div"
                <5>1. /\ Holds(c, s) <=> s[c.xs[2]] # 0 /\ s[c.y] = Quot(s[c.xs[1]], s[c.xs[2]])
                      /\ Holds(c, t) <=> t[c.xs[2]] # 0 /\ t[c.y] = Quot(t[c.xs[1]], t[c.xs[2]])
                    BY <4>3, HoldsOperation
                <5> QED BY <4>1, <5>1
            <4>4. CASE c.c = "mod"
                <5>1. /\ Holds(c, s) <=> s[c.xs[2]] # 0
                             /\ s[c.y] = s[c.xs[1]] - s[c.xs[2]] * Quot(s[c.xs[1]], s[c.xs[2]])
                      /\ Holds(c, t) <=> t[c.xs[2]] # 0
                             /\ t[c.y] = t[c.xs[1]] - t[c.xs[2]] * Quot(t[c.xs[1]], t[c.xs[2]])
                    BY <4>4, HoldsOperation
                <5> QED BY <4>1, <5>1
            <4> QED BY <3>2, <4>2, <4>3, <4>4
        <3> QED BY <3>1, <3>2
    <2> QED BY <1>7, <2>6, <2>7, <2>8
<1>8. ASSUME c.c = "if" PROVE Holds(c, s) <=> Holds(c, t)
    <2>1. /\ "xs" \in DOMAIN c /\ "bs" \in DOMAIN c /\ "y" \in DOMAIN c /\ DOMAIN c.bs = 1 .. Len(c.bs)
          /\ Len(c.bs) = Len(c.xs) /\ Len(c.bs) \in Nat
        BY <1>8, LookupParts
    <2>2. Taken(c, s) = Taken(c, t)
        BY <1>3, <2>1 DEF Taken
    <2>3. Finite(Taken(c, s))
        <3>1. Finite(1 .. Len(c.bs))
            BY <2>1, IntervalFinite
        <3>2. Taken(c, s) \subseteq 1 .. Len(c.bs)
            BY DEF Taken
        <3> QED BY <3>1, <3>2, FiniteParts
    <2>4. ASSUME Taken(c, s) # {} PROVE s[c.xs[Min(Taken(c, s))]] = t[c.xs[Min(Taken(c, s))]]
        <3>1. Min(Taken(c, s)) \in Taken(c, s)
            BY <2>3, <2>4, EndsAre
        <3>2. Min(Taken(c, s)) \in 1 .. Len(c.xs)
            BY <2>1, <3>1 DEF Taken
        <3> QED BY <1>1, <1>6, <2>1, <3>2
    <2> QED BY <1>4, <1>8, <2>1, <2>2, <2>4, HoldsLookup
<1>9. ASSUME c.c \in {"element", "element_live"} PROVE Holds(c, s) <=> Holds(c, t)
    <2>1. /\ "xs" \in DOMAIN c /\ "index" \in DOMAIN c /\ "value" \in DOMAIN c
          /\ c.c = "element_live" => c.live \subseteq 1 .. Len(c.xs)
        BY <1>9, LookupParts
    <2>2. s[c.index] = t[c.index] /\ s[c.value] = t[c.value] /\ \A i \in 1 .. Len(c.xs) : s[c.xs[i]] = t[c.xs[i]]
        BY <1>1, <1>4, <1>6, <2>1
    <2> QED BY <1>9, <2>1, <2>2, HoldsLookup
<1>10. ASSUME c.c \in {"lex_less", "lex_lesseq", "inverse", "inverse_in_range"} PROVE Holds(c, s) <=> Holds(c, t)
    <2>1. /\ "xs" \in DOMAIN c /\ "ys" \in DOMAIN c /\ c.xs \in Seq(Columns(d)) /\ c.ys \in Seq(Columns(d))
        BY <1>10, GlobalParts
    <2>2. Inverses(c.xs, c.ys, s) <=> Inverses(c.xs, c.ys, t)
        BY <1>1, <1>2, <2>1 DEF Inverses
    <2>3. ASSUME NEW strict PROVE LexBefore(c.xs, c.ys, strict, s) <=> LexBefore(c.xs, c.ys, strict, t)
        <3>1. \A i \in DOMAIN c.xs \cap DOMAIN c.ys : \A j \in 1 .. i - 1 : j \in DOMAIN c.xs \cap DOMAIN c.ys
            BY <2>1
        <3>2. \A i \in DOMAIN c.xs \cap DOMAIN c.ys : s[c.xs[i]] = t[c.xs[i]] /\ s[c.ys[i]] = t[c.ys[i]]
            BY <1>1, <1>2, <2>1
        <3> QED BY <3>1, <3>2 DEF LexBefore
    <2> QED BY <1>1, <1>2, <1>10, <2>1, <2>2, <2>3, HoldsGlobal
<1>11. ASSUME c.c \in {"all_different", "table"} PROVE Holds(c, s) <=> Holds(c, t)
    <2>1. "xs" \in DOMAIN c
        BY <1>11, GlobalParts
    <2>2. CASE c.c = "all_different"
        <3>1. /\ Holds(c, s) <=> \A i, j \in DOMAIN c.xs : i # j => s[c.xs[i]] # s[c.xs[j]]
              /\ Holds(c, t) <=> \A i, j \in DOMAIN c.xs : i # j => t[c.xs[i]] # t[c.xs[j]]
            BY <2>2, HoldsDifferent
        <3> QED BY <1>1, <2>1, <3>1
    <2>3. CASE c.c = "table"
        <3>1. /\ Holds(c, s) <=> \E e \in DOMAIN c.tuples : \A j \in DOMAIN c.xs : s[c.xs[j]] = c.tuples[e][j]
              /\ Holds(c, t) <=> \E e \in DOMAIN c.tuples : \A j \in DOMAIN c.xs : t[c.xs[j]] = c.tuples[e][j]
            BY <2>3, HoldsTable
        <3> QED BY <1>1, <2>1, <3>1
    <2> QED BY <1>11, <2>2, <2>3
<1>12. ASSUME c.c \in {"select", "two"} PROVE Holds(c, s) <=> Holds(c, t)
    BY <1>12, HoldsEncoding
<1> QED BY <1>7, <1>8, <1>9, <1>10, <1>11, <1>12, KindsAre

LEMMA HoldsAlike ==
    ASSUME NEW d, Domains(d), NEW c, Proper(c, d), NEW s, NEW t, Alike(s, t, Named(c) \ {0})
    PROVE  Holds(c, s) <=> Holds(c, t)
BY LinearAlike, MemberAlike, OtherAlike

\* An assignment to more columns.
LEMMA HoldsExtended ==
    ASSUME NEW d, Domains(d), NEW c, Proper(c, d), NEW s, NEW t, Alike(s, t, 1 .. Len(d))
    PROVE  Holds(c, s) <=> Holds(c, t)
<1>1. Named(c) \ {0} \subseteq 1 .. Len(d)
    BY NamedColumns, DomainsAre
<1> QED BY <1>1, HoldsAlike DEF Alike

-----------------------------------------------------------------------------
(***************************************************************************)
(* Calls as they are made, and lists of them.                              *)
(***************************************************************************)
Row(co, xs, k, d) ==
    co \in Seq(Int) /\ xs \in Seq(Columns(d)) /\ k \in Int /\ Len(co) = Len(xs)

LEMMA MadeLin ==
    ASSUME NEW d, NEW c, c \in Linears, NEW co, NEW xs, NEW k, Row(co, xs, k, d)
    PROVE  Proper(Lin(c, co, xs, k), d) /\ Lin(c, co, xs, k).c = c
BY DEF Lin, Row, Proper, Comparison, Linears

LEMMA MadeReif ==
    ASSUME NEW d, NEW c, c \in Reifieds, NEW co, NEW xs, NEW k, Row(co, xs, k, d), NEW b, b \in Booleans(d)
    PROVE  Proper(Reif(c, co, xs, k, b), d) /\ Reif(c, co, xs, k, b).c = c
BY DEF Reif, Row, Proper, Comparison, Reifieds

LEMMA MadeLe ==
    ASSUME NEW d, NEW co, NEW xs, NEW k, Row(co, xs, k, d)
    PROVE  Proper(Le(co, xs, k), d) /\ Le(co, xs, k).c = "int_lin_le"
BY MadeLin DEF Linears, Le

LEMMA MadeEq ==
    ASSUME NEW d, NEW co, NEW xs, NEW k, Row(co, xs, k, d)
    PROVE  Proper(Eq(co, xs, k), d) /\ Eq(co, xs, k).c = "int_lin_eq"
BY MadeLin DEF Linears, Eq

LEMMA MadeImps ==
    ASSUME NEW d, NEW co, NEW xs, NEW k, Row(co, xs, k, d), NEW b, b \in Booleans(d)
    PROVE  /\ Proper(LeImp(co, xs, k, b), d) /\ LeImp(co, xs, k, b).c = "le_imp"
           /\ Proper(LeImpNot(co, xs, k, b), d) /\ LeImpNot(co, xs, k, b).c = "le_imp_not"
           /\ Proper(EqImp(co, xs, k, b), d) /\ EqImp(co, xs, k, b).c = "eq_imp"
           /\ Proper(EqImpNot(co, xs, k, b), d) /\ EqImpNot(co, xs, k, b).c = "eq_imp_not"
           /\ Proper(LeReif(co, xs, k, b), d) /\ LeReif(co, xs, k, b).c = "le_reif"
BY MadeReif DEF Reifieds, LeImp, LeImpNot, EqImp, EqImpNot, LeReif

LEMMA MadeWithin ==
    ASSUME NEW d, NEW x, x \in Columns(d), NEW S, Finite(S)
    PROVE  /\ Proper(Within(x, S), d) /\ Within(x, S).c = "within"
           /\ Proper(In(x, S), d) /\ In(x, S).c = "in"
BY DEF Within, In, Finite, Proper, Membership

LEMMA MadeTrue ==
    ASSUME NEW d, NEW x, x \in Columns(d)
    PROVE  /\ Proper(True(x), d) /\ True(x).c = "within"
           /\ Proper(Not(x), d) /\ Not(x).c = "within"
<1>1. \A v \in Int : Finite({v})
    BY FS_Singleton DEF Finite
<1> QED BY <1>1, MadeWithin DEF True, Not

LEMMA MadeFail ==
    ASSUME NEW d, 1 \in Columns(d)
    PROVE  Proper(Fail, d) /\ Fail.c = "within"
<1>1. Finite({})
    BY FS_EmptySet DEF Finite
<1> QED BY <1>1, MadeWithin DEF Fail, False

LEMMA MadeInCall ==
    ASSUME NEW d, NEW c, c \in {"in_imp", "in_reif", "in_encoded_imp", "in_encoded"},
           NEW x, x \in Columns(d), NEW S, Finite(S),
           NEW b, b \in Booleans(d) \/ (c = "in_encoded" /\ b = 0)
    PROVE  Proper(InCall(c, x, S, b), d) /\ InCall(c, x, S, b).c = c
BY DEF InCall, Finite, Proper, Membership

LEMMA MadePost ==
    ASSUME NEW d, NEW x, x \in Columns(d), NEW S, Finite(S), NEW b, b \in Booleans(d) \cup {0},
           NEW values, values \subseteq Int
    PROVE  /\ Proper(Post(x, S, b, values), d) /\ Post(x, S, b, values).c = "post"
           /\ Post(x, S, b, values).x = x /\ Post(x, S, b, values).b = b /\ Post(x, S, b, values).values = values
BY DEF Post, Finite, Proper, Membership

LEMMA MadeNary ==
    ASSUME NEW d, NEW xs, xs \in Seq(Columns(d)), NEW y, y \in Columns(d)
    PROVE  /\ xs \in Seq(Booleans(d)) => Proper(Nary("xor", xs, y), d)
           /\ Len(xs) = 1 => Proper(Nary("abs", xs, y), d)
           /\ Len(xs) = 2 => Proper(Nary("times", xs, y), d)
           /\ \A c : Nary(c, xs, y).c = c
BY DEF Nary, Proper, Operation

LEMMA MadeElement ==
    ASSUME NEW d, NEW xs, xs \in Seq(Columns(d)), NEW o, o \in Int, NEW i, i \in Columns(d),
           NEW v, v \in Columns(d), NEW L, L # {}, L \subseteq 1 .. Len(xs)
    PROVE  Proper(ElementOf(xs, o, i, v, L), d) /\ ElementOf(xs, o, i, v, L).c = "element_live"
<1>1. L \subseteq Int
    OBVIOUS
<1> QED BY <1>1 DEF ElementOf, Proper, LookupCall

LEMMA MadeEncoding ==
    ASSUME NEW d, NEW x, x \in Columns(d)
    PROVE  /\ Proper(Select(x), d) /\ Select(x).c = "select" /\ Select(x).x = x
           /\ Proper(Two(x), d) /\ Two(x).c = "two" /\ Two(x).x = x
BY DEF Select, Two, Proper, Encoding

-----------------------------------------------------------------------------
\* Lists of well-formed calls.
CallList(q, d) == q \in Seq(Range(q)) /\ \A c \in Range(q) : Proper(c, d)

LEMMA ListIs ==
    ASSUME NEW q, q \in Seq(Range(q))
    PROVE  /\ Len(q) \in Nat /\ DOMAIN q = 1 .. Len(q)
           /\ \A i \in 1 .. Len(q) : q[i] \in Range(q)
           /\ \A c \in Range(q) : \E i \in 1 .. Len(q) : c = q[i]
BY DEF Range

LEMMA ListOf ==
    ASSUME NEW S, NEW q, q \in Seq(S)
    PROVE  q \in Seq(Range(q)) /\ Range(q) \subseteq S
<1>1. DOMAIN q = 1 .. Len(q) /\ Len(q) \in Nat /\ \A i \in 1 .. Len(q) : q[i] \in Range(q) /\ q[i] \in S
    BY DEF Range
<1>2. q = [i \in 1 .. Len(q) |-> q[i]]
    OBVIOUS
<1> QED BY <1>1, <1>2 DEF Range

LEMMA NoCalls == <<>> \in Seq(Range(<<>>)) /\ Range(<<>>) = {} /\ Len(<<>>) = 0
BY DEF Range

LEMMA OneCall == \A c : <<c>> \in Seq(Range(<<c>>)) /\ Range(<<c>>) = {c} /\ Len(<<c>>) = 1 /\ <<c>>[1] = c
BY DEF Range

LEMMA TwoCalls ==
    \A c, e : /\ <<c, e>> \in Seq(Range(<<c, e>>)) /\ Range(<<c, e>>) = {c, e} /\ Len(<<c, e>>) = 2
              /\ <<c, e>>[1] = c /\ <<c, e>>[2] = e
BY DEF Range

LEMMA ThreeCalls ==
    \A c, e, f : /\ <<c, e, f>> \in Seq(Range(<<c, e, f>>)) /\ Range(<<c, e, f>>) = {c, e, f}
                 /\ Len(<<c, e, f>>) = 3 /\ <<c, e, f>>[1] = c /\ <<c, e, f>>[2] = e /\ <<c, e, f>>[3] = f
BY DEF Range

LEMMA MadeList ==
    ASSUME NEW n, n \in Nat, NEW q, q = [i \in 1 .. n |-> q[i]]
    PROVE  q \in Seq(Range(q)) /\ Len(q) = n /\ Range(q) = {q[i] : i \in 1 .. n}
<1>1. q \in [1 .. n -> Range(q)] /\ DOMAIN q = 1 .. n
    BY DEF Range
<1>2. q \in Seq(Range(q)) /\ Len(q) = n
    BY <1>1
<1> QED BY <1>1, <1>2 DEF Range

LEMMA Joined ==
    ASSUME NEW p, NEW q, p \in Seq(Range(p)), q \in Seq(Range(q))
    PROVE  /\ p \o q \in Seq(Range(p \o q)) /\ Range(p \o q) = Range(p) \cup Range(q)
           /\ Len(p \o q) = Len(p) + Len(q)
           /\ \A i \in 1 .. Len(p) : (p \o q)[i] = p[i]
           /\ \A i \in 1 .. Len(q) : (p \o q)[Len(p) + i] = q[i]
<1>1. /\ Len(p) \in Nat /\ DOMAIN p = 1 .. Len(p) /\ Len(q) \in Nat /\ DOMAIN q = 1 .. Len(q)
    BY ListIs
<1>2. /\ Len(p \o q) = Len(p) + Len(q) /\ DOMAIN (p \o q) = 1 .. Len(p) + Len(q)
      /\ \A i \in 1 .. Len(p) : (p \o q)[i] = p[i]
      /\ \A i \in 1 .. Len(q) : (p \o q)[Len(p) + i] = q[i]
    <2>1. p \in Seq(Range(p) \cup Range(q)) /\ q \in Seq(Range(p) \cup Range(q))
        BY SeqGrows
    <2> QED BY <1>1, <2>1
<1>3. p \o q \in Seq(Range(p) \cup Range(q))
    <2>1. p \in Seq(Range(p) \cup Range(q)) /\ q \in Seq(Range(p) \cup Range(q))
        BY SeqGrows
    <2> QED BY <2>1
<1>4. p \o q \in Seq(Range(p \o q)) /\ Range(p \o q) \subseteq Range(p) \cup Range(q)
    BY <1>3, ListOf
<1>5. Range(p) \subseteq Range(p \o q)
    <2>1. \A i \in 1 .. Len(p) : i \in DOMAIN (p \o q) /\ p[i] = (p \o q)[i]
        BY <1>1, <1>2
    <2> QED BY <1>1, <2>1 DEF Range
<1>6. Range(q) \subseteq Range(p \o q)
    <2>1. \A i \in 1 .. Len(q) : Len(p) + i \in DOMAIN (p \o q) /\ q[i] = (p \o q)[Len(p) + i]
        BY <1>1, <1>2
    <2> QED BY <1>1, <2>1 DEF Range
<1> QED BY <1>2, <1>4, <1>5, <1>6

LEMMA TailIs ==
    ASSUME NEW q, q \in Seq(Range(q)), q # <<>>
    PROVE  /\ Tail(q) \in Seq(Range(Tail(q))) /\ Range(q) = {q[1]} \cup Range(Tail(q))
           /\ Len(q) >= 1 /\ Len(Tail(q)) = Len(q) - 1
           /\ \A i \in 1 .. Len(q) - 1 : Tail(q)[i] = q[i + 1]
<1>1. Len(q) \in Nat /\ Len(q) >= 1 /\ DOMAIN q = 1 .. Len(q)
    OBVIOUS
<1>2. Tail(q) \in Seq(Range(q)) /\ Len(Tail(q)) = Len(q) - 1 /\ \A i \in 1 .. Len(q) - 1 : Tail(q)[i] = q[i + 1]
    OBVIOUS
<1>3. Tail(q) \in Seq(Range(Tail(q))) /\ Range(Tail(q)) \subseteq Range(q)
    BY <1>2, ListOf
<1>4. Range(q) \subseteq {q[1]} \cup Range(Tail(q))
    <2>1. \A i \in 1 .. Len(q) : i # 1 => i - 1 \in DOMAIN Tail(q) /\ q[i] = Tail(q)[i - 1]
        BY <1>1, <1>2
    <2>2. \A i \in 1 .. Len(q) : q[i] \in {q[1]} \cup Range(Tail(q))
        BY <2>1 DEF Range
    <2> QED BY <1>1, <2>2 DEF Range
<1>5. q[1] \in Range(q)
    BY <1>1 DEF Range
<1> QED BY <1>1, <1>2, <1>3, <1>4, <1>5

LEMMA ListGrows ==
    ASSUME NEW d, NEW e, Domains(d), Domains(e), Bigger(d, e), NEW q, CallList(q, d)
    PROVE  CallList(q, e)
BY ProperGrows DEF CallList

-----------------------------------------------------------------------------
(***************************************************************************)
(* The inductive invariant.  First what the calls and columns look like,   *)
(* then what they mean.                                                    *)
(***************************************************************************)
Longer(d, e) == Len(d) <= Len(e) /\ \A x \in 1 .. Len(d) : e[x] = d[x]

Typed ==
    /\ Domains(given) /\ Domains(dom) /\ Bigger(given, dom)
    /\ Len(given) >= 1 /\ dom[1] \subseteq {0}
    /\ CallList(program, given) /\ CallList(todo, dom)
    /\ \A c \in posted : Proper(c, given)
    /\ \A c \in rows : Proper(c, dom) /\ c.c \in {"int_lin_le", "int_lin_eq"}
    /\ \A p \in posts : Proper(p, dom) /\ p.c = "post"

Internal == {"post", "element_live", "select", "two"}
Wanted   == \A c \in Range(program) : c.c \notin Internal

Interval(S, I) == \E lo, hi \in Int : I = lo .. hi /\ S \subseteq I

Selects ==
    /\ \A x \in DOMAIN select :
          /\ x \in Columns(dom) /\ Interval(dom[x], DOMAIN select[x])
          /\ \A v \in DOMAIN select[x] : select[x][v] \in Booleans(dom)
    /\ \A x \in DOMAIN two : x \in Columns(dom) /\ two[x] \in Booleans(dom)

\* A membership the pass can take, or one that can be taken once the bounds
\* before it are in the domain.
Ready(p, d) ==
    /\ p.values # {} /\ p.values \subseteq d[p.x] /\ Cardinality(d[p.x]) # 1
    /\ p.b = 0 \/ Cardinality(d[p.b]) # 1

Waits(w, p, d) ==
    /\ w = Within(p.x, Hull(p.values)) /\ p.b = 0
    /\ p.values \subseteq d[p.x] /\ p.values # {} /\ Cardinality(p.values) # 1

InTurn(q, d) ==
    \A i \in DOMAIN q :
        /\ q[i].c = "post" => (i = 1 /\ Ready(q[1], d)) \/ (i = 2 /\ Waits(q[1], q[2], d))
        /\ q[i].c = "two" => i = 1

\* Only the model looks an element up, and its calls are flattened one by one.
Alone == \A c \in Range(todo) : c.c = "element" => Tail(todo) = <<>>

Formed == Typed /\ Wanted /\ Selects /\ InTurn(todo, dom) /\ Alone

-----------------------------------------------------------------------------
\* What the encodings say of an assignment.
EncodedAt(s) ==
    /\ \A x \in DOMAIN select : \A v \in Int : s[mip_select_at(x, v)] = 1 <=> s[x] = v
    /\ \A x \in DOMAIN two :
          \E lo, hi \in Int : /\ lo < hi /\ dom[x] \subseteq lo .. hi
                              /\ s[x] = IF s[two[x]] = 1 THEN hi ELSE lo

Positions(c) == {i + c.offset - 1 : i \in c.live}
AtOne(c, s)  == c.c = "element_live" => s[c.index] \in Positions(c)

Equations == {c \in Asked : c.c = "int_lin_eq"}
Others    == {c \in Asked : c.c # "element_live"}

\* The rows make the encodings what they are, and an index is narrowed to the
\* live positions before the element is looked up.
Encodes == \A s : Fits(s, dom) /\ Meets(s, Equations) => EncodedAt(s)
Narrows == \A s : Fits(s, dom) /\ Meets(s, Others) => \A c \in Asked : AtOne(c, s)

AtEnds(c) ==
    /\ lb(c.x) < ub(c.x)
    /\ \A s : Fits(s, dom) /\ Meets(s, Asked) => s[c.x] \in {lb(c.x), ub(c.x)}

TwoEnds == \A c \in Asked : c.c = "two" => AtEnds(c)

Completed(a) == \E s : Fits(s, dom) /\ Alike(a, s, 1 .. Len(given)) /\ Meets(s, Asked)

Meaning == \A a : Fits(a, given) => (Meets(a, posted) <=> Completed(a))

Meant == Encodes /\ Narrows /\ TwoEnds /\ Meaning

-----------------------------------------------------------------------------
(***************************************************************************)
(* The first call replaced by others, with or without new columns.         *)
(***************************************************************************)
\* Calls that are taken as they are.
Flat == {"within", "post", "int_lin_le", "int_lin_eq"}

\* A product that is made comes first, and is not one of two 0..1 columns.
Multiplied(calls, e) ==
    \A i \in DOMAIN calls :
        calls[i].c = "times" =>
            i = 1 /\ ~(e[calls[1].xs[1]] = 0 .. 1 /\ e[calls[1].xs[2]] = 0 .. 1)

Shaped(calls, e) ==
    /\ Domains(e) /\ Longer(dom, e) /\ CallList(calls, e) /\ InTurn(calls, e)
    /\ \A c \in Range(calls) :
          /\ c.c # "element"
          /\ c.c = "element_live" => c = Call \/ (Call.c = "element" /\ c.xs = Call.xs)
    /\ Multiplied(calls, e)

\* The calls ask no less than the first call did, and no more: what it accepts
\* can be completed to the new columns.
Sound(calls, e) ==
    \A t : Fits(t, e) /\ EncodedAt(t) /\ AtOne(Call, t) /\ Meets(t, Range(calls)) => Holds(Call, t)

Complete(calls, e) ==
    \A s : /\ Fits(s, dom) /\ EncodedAt(s) /\ AtOne(Call, s) /\ Holds(Call, s)
           /\ Call.c = "two" => s[Call.x] \in {lb(Call.x), ub(Call.x)}
           => \E t : Fits(t, e) /\ Alike(s, t, 1 .. Len(dom)) /\ Meets(t, Range(calls))

\* A look-up that is made comes with its index narrowed.
LooksUp(calls, e) ==
    Call.c = "element" =>
        \A c \in Range(calls) : \A t :
            Fits(t, e) /\ Meets(t, {k \in Range(calls) : k.c # "element_live"}) => AtOne(c, t)

Expands(calls, e) == Shaped(calls, e) /\ Sound(calls, e) /\ Complete(calls, e) /\ LooksUp(calls, e)

\* The step itself.
Rewritten(calls) ==
    /\ todo # <<>> /\ Call.c \notin Flat
    /\ todo' = calls \o Tail(todo) /\ UNCHANGED <<model, out>>

LEMMA LongerIs ==
    ASSUME NEW d, NEW e, Longer(d, e)
    PROVE  Bigger(d, e)
BY DEF Longer, Bigger

LEMMA Restricted ==
    ASSUME NEW d, NEW e, Domains(d), Domains(e), Bigger(d, e), NEW s, Fits(s, e)
    PROVE  \E t : Fits(t, d) /\ Alike(s, t, 1 .. Len(d)) /\ Alike(t, s, 1 .. Len(d))
<1> DEFINE t == [x \in 1 .. Len(d) |-> s[x]]
<1>1. Len(d) \in Nat /\ Len(e) \in Nat /\ Len(d) <= Len(e)
    BY DomainsAre DEF Bigger
<1>2. \A x \in 1 .. Len(d) : t[x] = s[x] /\ s[x] \in d[x] /\ s[x] \in Int
    BY <1>1 DEF Bigger, Fits
<1>3. Fits(t, d) /\ Alike(s, t, 1 .. Len(d)) /\ Alike(t, s, 1 .. Len(d))
    BY <1>2 DEF Fits, Alike
<1> QED BY <1>3

LEMMA MeetsAlike ==
    ASSUME NEW d, Domains(d), NEW C, \A c \in C : Proper(c, d), NEW s, NEW t, Alike(s, t, 1 .. Len(d))
    PROVE  Meets(s, C) <=> Meets(t, C)
BY HoldsExtended DEF Meets

LEMMA AskedProper ==
    ASSUME Typed
    PROVE  /\ \A c \in Asked : Proper(c, dom)
           /\ Asked = rows \cup posts \cup Range(todo)
BY DEF Typed, CallList, Asked, Range

LEMMA EncodedAlike ==
    ASSUME Typed, Selects, NEW s, NEW t, Alike(s, t, 1 .. Len(dom))
    PROVE  EncodedAt(s) <=> EncodedAt(t)
<1>1. Len(dom) \in Nat /\ 1 \in 1 .. Len(dom)
    BY DomainsAre DEF Typed, Bigger
<1>2. \A x \in DOMAIN select : s[x] = t[x] /\ \A v \in Int : s[mip_select_at(x, v)] = t[mip_select_at(x, v)]
    BY <1>1 DEF Alike, Selects, mip_select_at, Columns, Booleans, False
<1>3. \A x \in DOMAIN two : s[x] = t[x] /\ s[two[x]] = t[two[x]]
    BY DEF Alike, Selects, Columns, Booleans
<1> QED BY <1>2, <1>3 DEF EncodedAt

-----------------------------------------------------------------------------
(***************************************************************************)
(* A rewriting keeps the invariant.                                        *)
(***************************************************************************)
Rest == rows \cup posts \cup Range(Tail(todo))

LEMMA HeadIs ==
    ASSUME Typed, todo # <<>>
    PROVE  /\ Asked = Rest \cup {Call} /\ Proper(Call, dom) /\ \A c \in Rest : Proper(c, dom)
           /\ Tail(todo) \in Seq(Range(Tail(todo))) /\ Range(todo) = {Call} \cup Range(Tail(todo))
<1>1. /\ Tail(todo) \in Seq(Range(Tail(todo))) /\ Range(todo) = {todo[1]} \cup Range(Tail(todo))
    BY TailIs DEF Typed, CallList
<1>2. Asked = rows \cup posts \cup Range(todo) /\ \A c \in Asked : Proper(c, dom)
    BY AskedProper
<1> QED BY <1>1, <1>2 DEF Rest, Call

LEMMA AfterIs ==
    ASSUME Typed, NEW calls, Rewritten(calls), Shaped(calls, dom')
    PROVE  /\ Asked' = Rest \cup Range(calls) /\ CallList(todo', dom')
           /\ \A c \in Rest \cup Range(calls) : Proper(c, dom')
           /\ Len(todo') = Len(calls) + Len(Tail(todo))
           /\ \A i \in 1 .. Len(calls) : todo'[i] = calls[i]
           /\ \A i \in 1 .. Len(Tail(todo)) : todo'[Len(calls) + i] = Tail(todo)[i]
           /\ Range(todo') = Range(calls) \cup Range(Tail(todo))
<1>1. /\ Tail(todo) \in Seq(Range(Tail(todo))) /\ \A c \in Rest : Proper(c, dom)
    BY HeadIs DEF Rewritten
<1>2. calls \in Seq(Range(calls)) /\ \A c \in Range(calls) : Proper(c, dom')
    BY DEF Shaped, CallList
<1>3. todo' = calls \o Tail(todo) /\ rows' = rows /\ posts' = posts
    BY DEF Rewritten, out
<1>4. /\ todo' \in Seq(Range(todo')) /\ Range(todo') = Range(calls) \cup Range(Tail(todo))
      /\ Len(todo') = Len(calls) + Len(Tail(todo))
      /\ \A i \in 1 .. Len(calls) : todo'[i] = calls[i]
      /\ \A i \in 1 .. Len(Tail(todo)) : todo'[Len(calls) + i] = Tail(todo)[i]
    <2>1. PICK q : q = Tail(todo)
        OBVIOUS
    <2>2. q \in Seq(Range(q))
        BY <1>1, <2>1
    <2>3. /\ calls \o q \in Seq(Range(calls \o q)) /\ Range(calls \o q) = Range(calls) \cup Range(q)
          /\ Len(calls \o q) = Len(calls) + Len(q)
          /\ \A i \in 1 .. Len(calls) : (calls \o q)[i] = calls[i]
          /\ \A i \in 1 .. Len(q) : (calls \o q)[Len(calls) + i] = q[i]
        BY <1>2, <2>2, Joined
    <2> QED BY <1>3, <2>1, <2>3
<1>5. Asked' = rows \cup posts \cup Range(todo')
    BY <1>3 DEF Asked, Range
<1>6. \A c \in Rest : Proper(c, dom')
    BY <1>1, LongerIs, ProperGrows DEF Shaped, Typed
<1> QED BY <1>2, <1>4, <1>5, <1>6 DEF Rest, CallList

\* Calls of the right shape, put in the first one's place, leave the rest in shape.
LEMMA RewrittenFormed ==
    ASSUME Formed, NEW calls, Rewritten(calls), Shaped(calls, dom')
    PROVE  Typed' /\ Wanted' /\ InTurn(todo', dom') /\ Alone'
<1>1. /\ given' = given /\ program' = program /\ posted' = posted /\ rows' = rows /\ posts' = posts
      /\ Call.c \notin Flat /\ todo # <<>>
    BY DEF Rewritten, model, out
<1>2. Typed /\ Domains(dom') /\ Longer(dom, dom') /\ Bigger(dom, dom')
    BY LongerIs DEF Formed, Shaped
<1>3. /\ CallList(todo', dom') /\ \A c \in Rest \cup Range(calls) : Proper(c, dom')
      /\ Len(todo') = Len(calls) + Len(Tail(todo))
      /\ \A i \in 1 .. Len(calls) : todo'[i] = calls[i]
      /\ \A i \in 1 .. Len(Tail(todo)) : todo'[Len(calls) + i] = Tail(todo)[i]
      /\ Range(todo') = Range(calls) \cup Range(Tail(todo))
    BY <1>2, AfterIs
<1>4. Typed'
    <2>1. Bigger(given, dom')
        BY <1>2 DEF Typed, Bigger, Longer
    <2>2. dom'[1] = dom[1]
        <3>1. 1 \in 1 .. Len(dom)
            BY <1>2, DomainsAre DEF Typed, Bigger
        <3> QED BY <1>2, <3>1 DEF Longer
    <2>3. \A c \in rows \cup posts : Proper(c, dom')
        BY <1>3 DEF Rest
    <2> QED BY <1>1, <1>2, <1>3, <2>1, <2>2, <2>3 DEF Typed
<1>5. Wanted'
    BY <1>1 DEF Formed, Wanted
<1>6. InTurn(todo', dom')
    <2>1. /\ Len(calls) \in Nat /\ DOMAIN calls = 1 .. Len(calls)
        BY ListIs DEF Shaped, CallList
    <2>2. todo \in Seq(Range(todo))
        BY <1>2 DEF Typed, CallList
    <2>3. /\ Len(todo) \in Nat /\ Len(todo) >= 1 /\ DOMAIN todo = 1 .. Len(todo)
          /\ Len(Tail(todo)) = Len(todo) - 1
          /\ \A i \in 1 .. Len(todo) - 1 : Tail(todo)[i] = todo[i + 1]
        BY <1>1, <2>2, TailIs, ListIs
    <2>4. DOMAIN todo' = 1 .. Len(calls) + Len(todo) - 1
        BY <1>3, <2>1, <2>3, ListIs DEF CallList
    <2>5. ASSUME NEW i \in 1 .. Len(todo) - 1
          PROVE  Tail(todo)[i].c # "post" /\ Tail(todo)[i].c # "two"
        <3>1. i + 1 \in DOMAIN todo /\ i + 1 # 1 /\ Tail(todo)[i] = todo[i + 1]
            BY <2>3
        <3>2. todo[1].c # "within"
            BY <1>1 DEF Call, Flat
        <3>3. \A w, p, d : Waits(w, p, d) => w.c = "within"
            BY DEF Waits, Within
        <3> QED BY <3>1, <3>2, <3>3 DEF Formed, InTurn
    <2>6. ASSUME NEW i \in DOMAIN todo'
          PROVE  /\ todo'[i].c = "post" => (i = 1 /\ Ready(todo'[1], dom')) \/ (i = 2 /\ Waits(todo'[1], todo'[2], dom'))
                 /\ todo'[i].c = "two" => i = 1
        <3>1. CASE i <= Len(calls)
            <4>1. i \in DOMAIN calls /\ todo'[i] = calls[i] /\ todo'[1] = calls[1] /\ (i = 2 => todo'[2] = calls[2])
                BY <1>3, <2>1, <2>4, <3>1
            <4>2. /\ calls[i].c = "post" => (i = 1 /\ Ready(calls[1], dom')) \/ (i = 2 /\ Waits(calls[1], calls[2], dom'))
                  /\ calls[i].c = "two" => i = 1
                BY <4>1 DEF Shaped, InTurn
            <4> QED BY <4>1, <4>2
        <3>2. CASE ~ (i <= Len(calls))
            <4>1. PICK j \in 1 .. Len(todo) - 1 : i = Len(calls) + j
                <5>1. i - Len(calls) \in 1 .. Len(todo) - 1 /\ i = Len(calls) + (i - Len(calls))
                    BY <2>1, <2>3, <2>4, <3>2
                <5> QED BY <5>1
            <4>2. todo'[i] = Tail(todo)[j]
                BY <1>3, <2>3, <4>1
            <4> QED BY <2>5, <4>2
        <3> QED BY <3>1, <3>2
    <2> QED BY <2>6 DEF InTurn
<1>7. Alone'
    <2>1. ASSUME NEW c \in Range(todo'), c.c = "element" PROVE FALSE
        <3>1. c \in Range(Tail(todo))
            BY <1>3, <2>1 DEF Shaped
        <3>2. Range(todo) = {Call} \cup Range(Tail(todo))
            BY <1>1, <1>2, HeadIs
        <3>3. Tail(todo) = <<>>
            BY <2>1, <3>1, <3>2 DEF Formed, Alone
        <3> QED BY <3>1, <3>3, NoCalls
    <2> QED BY <2>1 DEF Alone
<1> QED BY <1>4, <1>5, <1>6, <1>7

\* What the encodings there were say.
LEMMA StillEncoded ==
    ASSUME Formed, Encodes, NEW calls, Rewritten(calls), Shaped(calls, dom')
    PROVE  \A s : Fits(s, dom') /\ Meets(s, Equations') => EncodedAt(s)
<1> SUFFICES ASSUME NEW s, Fits(s, dom'), Meets(s, Equations') PROVE EncodedAt(s)
    OBVIOUS
<1>1. Typed /\ Selects /\ Domains(dom) /\ Domains(dom') /\ Bigger(dom, dom') /\ todo # <<>>
    BY LongerIs DEF Formed, Shaped, Typed, Rewritten
<1>2. PICK t : Fits(t, dom) /\ Alike(s, t, 1 .. Len(dom)) /\ Alike(t, s, 1 .. Len(dom))
    BY <1>1, Restricted
<1>3. Equations \subseteq Equations'
    <2>1. Asked = Rest \cup {Call} /\ Asked' = Rest \cup Range(calls)
        BY <1>1, HeadIs, AfterIs
    <2>2. Call.c # "int_lin_eq"
        BY DEF Rewritten, Flat
    <2> QED BY <2>1, <2>2 DEF Equations
<1>4. Meets(s, Equations)
    BY <1>3 DEF Meets
<1>5. \A c \in Equations : Proper(c, dom)
    BY <1>1, AskedProper DEF Equations
<1>6. Meets(t, Equations)
    BY <1>1, <1>2, <1>4, <1>5, MeetsAlike
<1>7. EncodedAt(t)
    BY <1>2, <1>6 DEF Encodes
<1> QED BY <1>1, <1>2, <1>7, EncodedAlike

LEMMA RewrittenEncodes ==
    ASSUME Formed, Encodes, NEW calls, Rewritten(calls), Shaped(calls, dom'), UNCHANGED shared
    PROVE  Selects' /\ Encodes'
<1>1. Typed /\ Selects /\ Domains(dom) /\ Domains(dom') /\ Longer(dom, dom') /\ Bigger(dom, dom')
    BY LongerIs DEF Formed, Shaped, Typed
<1>2. select' = select /\ two' = two
    BY DEF shared
<1>3. Columns(dom) \subseteq Columns(dom') /\ Booleans(dom) \subseteq Booleans(dom')
    BY <1>1, ColumnsGrow
<1>4. \A x \in DOMAIN select \cup DOMAIN two : dom'[x] = dom[x]
    BY <1>1 DEF Selects, Longer, Columns
<1>5. Selects'
    BY <1>1, <1>2, <1>3, <1>4 DEF Selects
<1>6. ASSUME NEW s, EncodedAt(s) PROVE EncodedAt(s)'
    <2>1. \A x, v : mip_select_at(x, v)' = mip_select_at(x, v)
        BY <1>2 DEF mip_select_at
    <2>2. \A x \in DOMAIN two : dom'[x] = dom[x]
        BY <1>4
    <2>3. (\A x \in DOMAIN select : \A v \in Int : s[mip_select_at(x, v)] = 1 <=> s[x] = v)'
        BY <1>2, <1>6, <2>1 DEF EncodedAt
    <2>4. (\A x \in DOMAIN two : \E lo, hi \in Int :
               lo < hi /\ dom[x] \subseteq lo .. hi /\ s[x] = IF s[two[x]] = 1 THEN hi ELSE lo)'
        BY <1>2, <1>6, <2>2 DEF EncodedAt
    <2> QED BY <2>3, <2>4 DEF EncodedAt
<1> QED BY <1>5, <1>6, StillEncoded DEF Encodes

LEMMA AtOneAlike ==
    ASSUME NEW d, Domains(d), NEW c, Proper(c, d), NEW s, NEW t, Alike(s, t, 1 .. Len(d))
    PROVE  AtOne(c, s) <=> AtOne(c, t)
<1>1. c.c = "element_live" => s[c.index] = t[c.index]
    BY LookupParts DEF Alike, Columns
<1> QED BY <1>1 DEF AtOne

\* An assignment that the new calls accept, less the new columns.
LEMMA Backwards ==
    ASSUME Formed, Encodes, Narrows, NEW calls, Rewritten(calls), Expands(calls, dom'),
           NEW s, Fits(s, dom'), Meets(s, Asked')
    PROVE  \E t : Fits(t, dom) /\ Alike(s, t, 1 .. Len(dom)) /\ Alike(t, s, 1 .. Len(dom)) /\ Meets(t, Asked)
<1>1. /\ Typed /\ Selects /\ Domains(dom) /\ Domains(dom') /\ Bigger(dom, dom') /\ todo # <<>>
      /\ Shaped(calls, dom') /\ Sound(calls, dom')
    BY LongerIs DEF Formed, Shaped, Typed, Rewritten, Expands
<1>2. PICK t : Fits(t, dom) /\ Alike(s, t, 1 .. Len(dom)) /\ Alike(t, s, 1 .. Len(dom))
    BY <1>1, Restricted
<1>3. /\ Asked = Rest \cup {Call} /\ Asked' = Rest \cup Range(calls) /\ Proper(Call, dom)
      /\ \A c \in Rest : Proper(c, dom)
    BY <1>1, HeadIs, AfterIs
<1>4. EncodedAt(s)
    <2>1. Meets(s, Equations')
        BY DEF Meets, Equations
    <2> QED BY <1>1, <2>1, StillEncoded
<1>5. Meets(s, Rest) /\ Meets(s, Range(calls))
    BY <1>3 DEF Meets
<1>6. Meets(t, Rest)
    BY <1>1, <1>2, <1>3, <1>5, MeetsAlike
<1>7. AtOne(Call, s)
    <2>1. CASE Call.c = "element_live"
        <3>1. Meets(t, Others)
            BY <1>3, <1>6, <2>1 DEF Meets, Others
        <3>2. AtOne(Call, t)
            BY <1>2, <1>3, <3>1 DEF Narrows
        <3> QED BY <1>1, <1>2, <1>3, <3>2, AtOneAlike
    <2>2. CASE Call.c # "element_live"
        BY <2>2 DEF AtOne
    <2> QED BY <2>1, <2>2
<1>8. Holds(Call, s)
    BY <1>1, <1>4, <1>5, <1>7 DEF Sound
<1>9. Holds(Call, t)
    BY <1>1, <1>2, <1>3, <1>8, HoldsExtended
<1>10. Meets(t, Asked)
    BY <1>3, <1>6, <1>9 DEF Meets
<1> QED BY <1>2, <1>10

\* An assignment to the columns there were, completed.
LEMMA Forwards ==
    ASSUME Formed, Meant, NEW calls, Rewritten(calls), Expands(calls, dom'),
           NEW s, Fits(s, dom), Meets(s, Asked)
    PROVE  \E t : Fits(t, dom') /\ Alike(s, t, 1 .. Len(dom)) /\ Meets(t, Asked')
<1>1. /\ Typed /\ Domains(dom) /\ Domains(dom') /\ Bigger(dom, dom') /\ todo # <<>>
      /\ Shaped(calls, dom') /\ Complete(calls, dom')
    BY LongerIs DEF Formed, Shaped, Typed, Rewritten, Expands
<1>3. /\ Asked = Rest \cup {Call} /\ Asked' = Rest \cup Range(calls) /\ Proper(Call, dom)
      /\ \A c \in Rest : Proper(c, dom)
    BY <1>1, HeadIs, AfterIs
<1>4. EncodedAt(s)
    BY DEF Meant, Encodes, Meets, Equations
<1>5. AtOne(Call, s)
    BY <1>3 DEF Meant, Narrows, Meets, Others
<1>6. Call.c = "two" => s[Call.x] \in {lb(Call.x), ub(Call.x)}
    BY <1>3 DEF Meant, TwoEnds, AtEnds
<1>7. Holds(Call, s) /\ Meets(s, Rest)
    BY <1>3 DEF Meets
<1>8. PICK t : Fits(t, dom') /\ Alike(s, t, 1 .. Len(dom)) /\ Meets(t, Range(calls))
    BY <1>1, <1>4, <1>5, <1>6, <1>7 DEF Complete
<1>9. Meets(t, Rest)
    BY <1>1, <1>3, <1>7, <1>8, MeetsAlike
<1>10. Meets(t, Asked')
    BY <1>3, <1>8, <1>9 DEF Meets
<1> QED BY <1>8, <1>10

LEMMA RewrittenNarrows ==
    ASSUME Formed, Meant, NEW calls, Rewritten(calls), Expands(calls, dom')
    PROVE  Narrows'
<1>1. /\ Typed /\ Selects /\ Domains(dom) /\ Domains(dom') /\ Bigger(dom, dom') /\ todo # <<>>
      /\ Shaped(calls, dom') /\ Sound(calls, dom') /\ LooksUp(calls, dom')
    BY LongerIs DEF Formed, Shaped, Typed, Rewritten, Expands
<1>2. /\ Asked = Rest \cup {Call} /\ Asked' = Rest \cup Range(calls) /\ Proper(Call, dom)
      /\ \A c \in Rest : Proper(c, dom)
    BY <1>1, HeadIs, AfterIs
<1>3. ASSUME NEW s, Fits(s, dom'), Meets(s, Others'), NEW c \in Asked', c.c = "element_live"
      PROVE  AtOne(c, s)
    <2>1. CASE Call.c = "element"
        <3>1. Tail(todo) = <<>>
            BY <1>1, <2>1, HeadIs DEF Formed, Alone
        <3>2. c \notin Rest
            <4>1. Rest = rows \cup posts
                BY <3>1, NoCalls DEF Rest
            <4> QED BY <1>1, <1>3, <4>1 DEF Typed
        <3>3. Meets(s, {k \in Range(calls) : k.c # "element_live"})
            BY <1>2, <1>3 DEF Meets, Others
        <3> QED BY <1>1, <1>2, <1>3, <2>1, <3>2, <3>3 DEF LooksUp
    <2>2. CASE Call.c # "element"
        <3>1. PICK t : Fits(t, dom) /\ Alike(s, t, 1 .. Len(dom)) /\ Alike(t, s, 1 .. Len(dom))
            BY <1>1, <1>3, Restricted
        <3>2. EncodedAt(s)
            <4>1. Meets(s, Equations')
                BY <1>3 DEF Meets, Equations, Others
            <4> QED BY <1>1, <1>3, <4>1, StillEncoded DEF Meant
        <3>3. Meets(t, {k \in Rest : k.c # "element_live"})
            <4>1. Meets(s, {k \in Rest : k.c # "element_live"})
                BY <1>2, <1>3 DEF Meets, Others
            <4>2. \A k \in {k \in Rest : k.c # "element_live"} : Proper(k, dom)
                BY <1>2
            <4> QED BY <1>1, <3>1, <4>1, <4>2, MeetsAlike
        <3>4. ASSUME Call.c # "element_live" PROVE Holds(Call, t)
            <4>1. Meets(s, Range(calls))
                BY <1>1, <1>2, <1>3, <2>2, <3>4 DEF Meets, Others, Shaped
            <4>2. AtOne(Call, s)
                BY <3>4 DEF AtOne
            <4>3. Holds(Call, s)
                BY <1>1, <1>3, <3>2, <4>1, <4>2 DEF Sound
            <4> QED BY <1>1, <1>2, <3>1, <4>3, HoldsExtended
        <3>5. Meets(t, Others)
            BY <1>2, <3>3, <3>4 DEF Meets, Others
        <3>6. c \in Asked
            BY <1>1, <1>2, <1>3, <2>2 DEF Shaped
        <3>7. AtOne(c, t)
            BY <3>1, <3>5, <3>6 DEF Meant, Narrows
        <3> QED BY <1>1, <1>2, <3>1, <3>6, <3>7, AtOneAlike
    <2> QED BY <2>1, <2>2
<1>4. \A s : Fits(s, dom') /\ Meets(s, Others') => \A c \in Asked' : AtOne(c, s)
    BY <1>3 DEF AtOne
<1>5. \A c, s : AtOne(c, s)' <=> AtOne(c, s)
    BY DEF AtOne
<1> QED BY <1>4 DEF Narrows

\* The ends of a column that is to be told by one Boolean.
NewTwos(calls) == \A c \in Range(calls) : c.c = "two" => c.x \in Columns(dom) /\ AtEnds(c)

LEMMA RewrittenTwoEnds ==
    ASSUME Formed, Meant, NEW calls, Rewritten(calls), Expands(calls, dom'), NewTwos(calls)
    PROVE  TwoEnds'
<1>1. /\ Typed /\ Domains(dom) /\ Domains(dom') /\ Longer(dom, dom') /\ todo # <<>> /\ Shaped(calls, dom')
    BY DEF Formed, Shaped, Typed, Rewritten, Expands
<1>2. /\ Asked = Rest \cup {Call} /\ Asked' = Rest \cup Range(calls)
    BY <1>1, HeadIs, AfterIs
<1>3. ASSUME NEW c \in Asked', c.c = "two" PROVE AtEnds(c)'
    <2>1. c \in Range(calls)
        <3>1. \A k \in rows \cup posts : k.c # "two"
            BY <1>1 DEF Typed
        <3>2. todo \in Seq(Range(todo))
            BY <1>1 DEF Typed, CallList
        <3>3. \A i \in 1 .. Len(todo) - 1 : Tail(todo)[i] = todo[i + 1] /\ i + 1 \in DOMAIN todo /\ i + 1 # 1
            BY <1>1, <3>2, TailIs, ListIs
        <3>4. DOMAIN Tail(todo) = 1 .. Len(todo) - 1
            BY <1>1, <3>2
        <3>5. \A k \in Range(Tail(todo)) : k.c # "two"
            BY <3>3, <3>4 DEF Range, Formed, InTurn
        <3> QED BY <1>2, <1>3, <3>1, <3>5 DEF Rest
    <2>2. c.x \in Columns(dom) /\ AtEnds(c) /\ dom'[c.x] = dom[c.x]
        BY <1>1, <1>3, <2>1 DEF NewTwos, Longer, Columns
    <2>3. lb(c.x)' = lb(c.x) /\ ub(c.x)' = ub(c.x)
        BY <2>2 DEF lb, ub
    <2>4. ASSUME NEW s, Fits(s, dom'), Meets(s, Asked') PROVE s[c.x] \in {lb(c.x), ub(c.x)}
        <3>1. PICK t : Fits(t, dom) /\ Alike(s, t, 1 .. Len(dom)) /\ Meets(t, Asked)
            BY <2>4, Backwards DEF Meant
        <3>2. s[c.x] = t[c.x]
            BY <2>2, <3>1 DEF Alike, Columns
        <3> QED BY <2>2, <3>1, <3>2 DEF AtEnds
    <2> QED BY <2>2, <2>3, <2>4 DEF AtEnds
<1> QED BY <1>3 DEF TwoEnds

LEMMA RewrittenMeaning ==
    ASSUME Formed, Meant, NEW calls, Rewritten(calls), Expands(calls, dom')
    PROVE  Meaning'
<1>1. given' = given /\ posted' = posted /\ Typed /\ Domains(dom) /\ Len(given) <= Len(dom)
    BY DEF Rewritten, model, Formed, Typed, Bigger
<1>2. 1 .. Len(given) \subseteq 1 .. Len(dom)
    BY <1>1, DomainsAre DEF Typed
<1>3. ASSUME NEW a PROVE Completed(a) <=> Completed(a)'
    <2>1. ASSUME Completed(a) PROVE Completed(a)'
        <3>1. PICK s : Fits(s, dom) /\ Alike(a, s, 1 .. Len(given)) /\ Meets(s, Asked)
            BY <2>1 DEF Completed
        <3>2. PICK t : Fits(t, dom') /\ Alike(s, t, 1 .. Len(dom)) /\ Meets(t, Asked')
            BY <3>1, Forwards
        <3>3. Alike(a, t, 1 .. Len(given))
            BY <1>2, <3>1, <3>2 DEF Alike
        <3> QED BY <1>1, <3>2, <3>3 DEF Completed
    <2>2. ASSUME Completed(a)' PROVE Completed(a)
        <3>1. PICK s : Fits(s, dom') /\ Alike(a, s, 1 .. Len(given)) /\ Meets(s, Asked')
            BY <1>1, <2>2 DEF Completed
        <3>2. PICK t : Fits(t, dom) /\ Alike(s, t, 1 .. Len(dom)) /\ Meets(t, Asked)
            BY <3>1, Backwards DEF Meant
        <3>3. Alike(a, t, 1 .. Len(given))
            BY <1>2, <3>1, <3>2 DEF Alike
        <3> QED BY <3>2, <3>3 DEF Completed
    <2> QED BY <2>1, <2>2
<1>4. \A a : Fits(a, given) => (Meets(a, posted) <=> Completed(a)')
    BY <1>3 DEF Meant, Meaning
<1> QED BY <1>1, <1>4 DEF Meaning

-----------------------------------------------------------------------------
(***************************************************************************)
(* What a rewriting has to show.                                           *)
(***************************************************************************)
Plain(c, d) == Proper(c, d) /\ c.c \notin {"post", "two", "element", "element_live", "times"}

\* s is an assignment at the head's step.
At1(s) == Fits(s, dom) /\ EncodedAt(s) /\ AtOne(Call, s)

Agrees(calls) == \A s : At1(s) => (Holds(Call, s) <=> Meets(s, Range(calls)))

Replaced ==
    \E calls : Rewritten(calls) /\ Expands(calls, dom') /\ UNCHANGED shared /\ NewTwos(calls)

LEMMA PlainInTurn ==
    ASSUME NEW calls, NEW d, \A c \in Range(calls) : c.c \notin {"post", "two"}
    PROVE  InTurn(calls, d) /\ NewTwos(calls)
BY DEF InTurn, NewTwos, Range

\* Calls that are no products.
LEMMA NoneMultiplied ==
    ASSUME NEW calls, NEW d, \A c \in Range(calls) : c.c # "times"
    PROVE  Multiplied(calls, d)
BY DEF Multiplied, Range

LEMMA LongerSelf ==
    ASSUME NEW d, Domains(d)
    PROVE  Longer(d, d) /\ Bigger(d, d)
BY DomainsAre DEF Longer, Bigger

LEMMA SameExpands ==
    ASSUME Typed, todo # <<>>, NEW calls, CallList(calls, dom), InTurn(calls, dom), Agrees(calls),
           \A c \in Range(calls) : c.c # "element" /\ (c.c = "element_live" => c = Call),
           Multiplied(calls, dom),
           Call.c # "element"
    PROVE  Expands(calls, dom)
<1>1. Domains(dom) /\ Longer(dom, dom)
    BY LongerSelf DEF Typed
<1>2. Shaped(calls, dom)
    BY <1>1 DEF Shaped
<1>3. Sound(calls, dom)
    BY DEF Sound, Agrees, At1
<1>4. Complete(calls, dom)
    <2>1. \A s : Alike(s, s, 1 .. Len(dom))
        BY DEF Alike
    <2> QED BY <2>1 DEF Complete, Agrees, At1
<1> QED BY <1>2, <1>3, <1>4 DEF Expands, LooksUp

LEMMA PlainExpands ==
    ASSUME Typed, todo # <<>>, NEW calls, calls \in Seq(Range(calls)), Agrees(calls), Call.c # "element",
           \A c \in Range(calls) : Plain(c, dom)
    PROVE  Expands(calls, dom) /\ NewTwos(calls)
<1>1. CallList(calls, dom) /\ \A c \in Range(calls) : c.c \notin {"post", "two", "element", "element_live", "times"}
    BY DEF CallList, Plain
<1>2. InTurn(calls, dom) /\ NewTwos(calls) /\ Multiplied(calls, dom)
    BY <1>1, PlainInTurn, NoneMultiplied
<1> QED BY <1>1, <1>2, SameExpands

LEMMA NoneExpands ==
    ASSUME Typed, todo # <<>>, Call.c # "element", \A s : At1(s) => Holds(Call, s)
    PROVE  Expands(<<>>, dom) /\ NewTwos(<<>>)
<1>1. PICK calls : calls = <<>>
    OBVIOUS
<1>2. calls \in Seq(Range(calls)) /\ Range(calls) = {}
    BY <1>1, NoCalls
<1>3. Agrees(calls)
    BY <1>2 DEF Agrees, Meets
<1>4. Expands(calls, dom) /\ NewTwos(calls)
    BY <1>2, <1>3, PlainExpands
<1> QED BY <1>1, <1>4

LEMMA OneExpands ==
    ASSUME Typed, todo # <<>>, Call.c # "element", NEW c, Plain(c, dom),
           \A s : At1(s) => (Holds(Call, s) <=> Holds(c, s))
    PROVE  Expands(<<c>>, dom) /\ NewTwos(<<c>>)
<1>1. PICK calls : calls = <<c>>
    OBVIOUS
<1>2. calls \in Seq(Range(calls)) /\ Range(calls) = {c}
    BY <1>1, OneCall
<1>3. Agrees(calls)
    BY <1>2 DEF Agrees, Meets
<1>4. Expands(calls, dom) /\ NewTwos(calls)
    BY <1>2, <1>3, PlainExpands
<1> QED BY <1>1, <1>4

LEMMA TwoExpands ==
    ASSUME Typed, todo # <<>>, Call.c # "element", NEW c, NEW k, Plain(c, dom), Plain(k, dom),
           \A s : At1(s) => (Holds(Call, s) <=> Holds(c, s) /\ Holds(k, s))
    PROVE  Expands(<<c, k>>, dom) /\ NewTwos(<<c, k>>)
<1>1. PICK calls : calls = <<c, k>>
    OBVIOUS
<1>2. calls \in Seq(Range(calls)) /\ Range(calls) = {c, k}
    BY <1>1, TwoCalls
<1>3. Agrees(calls)
    BY <1>2 DEF Agrees, Meets
<1>4. Expands(calls, dom) /\ NewTwos(calls)
    BY <1>2, <1>3, PlainExpands
<1> QED BY <1>1, <1>4

LEMMA ThreeExpands ==
    ASSUME Typed, todo # <<>>, Call.c # "element", NEW c, NEW k, NEW l,
           Plain(c, dom), Plain(k, dom), Plain(l, dom),
           \A s : At1(s) => (Holds(Call, s) <=> Holds(c, s) /\ Holds(k, s) /\ Holds(l, s))
    PROVE  Expands(<<c, k, l>>, dom) /\ NewTwos(<<c, k, l>>)
<1>1. PICK calls : calls = <<c, k, l>>
    OBVIOUS
<1>2. calls \in Seq(Range(calls)) /\ Range(calls) = {c, k, l}
    BY <1>1, ThreeCalls
<1>3. Agrees(calls)
    BY <1>2 DEF Agrees, Meets
<1>4. Expands(calls, dom) /\ NewTwos(calls)
    BY <1>2, <1>3, PlainExpands
<1> QED BY <1>1, <1>4

\* A membership handed to the pass.
LEMMA PostExpands ==
    ASSUME Typed, todo # <<>>, Call.c # "element", NEW p, Proper(p, dom), p.c = "post", Ready(p, dom),
           \A s : At1(s) => (Holds(Call, s) <=> Holds(p, s))
    PROVE  Expands(<<p>>, dom) /\ NewTwos(<<p>>)
<1>1. PICK calls : calls = <<p>>
    OBVIOUS
<1>2. calls \in Seq(Range(calls)) /\ Range(calls) = {p} /\ Len(calls) = 1 /\ calls[1] = p
    BY <1>1, OneCall
<1>3. Agrees(calls)
    BY <1>2 DEF Agrees, Meets
<1>4. DOMAIN calls = {1}
    BY <1>1
<1>5. InTurn(calls, dom) /\ NewTwos(calls) /\ CallList(calls, dom)
    BY <1>2, <1>4 DEF InTurn, NewTwos, CallList
<1> Multiplied(calls, dom)
    BY <1>2, NoneMultiplied
<1>6. Expands(calls, dom) /\ NewTwos(calls)
    BY <1>2, <1>3, <1>5, SameExpands
<1> QED BY <1>1, <1>6

\* An encoding made first.
LEMMA FirstExpands ==
    ASSUME Typed, todo # <<>>, Call.c \notin {"element", "two", "post", "times"},
           NEW k, Proper(k, dom), k.c \in {"select", "two"}
    PROVE  Expands(<<k, Call>>, dom)
<1>1. PICK calls : calls = <<k, Call>>
    OBVIOUS
<1>2. /\ calls \in Seq(Range(calls)) /\ Range(calls) = {k, Call} /\ Len(calls) = 2
      /\ calls[1] = k /\ calls[2] = Call
    BY <1>1, TwoCalls
<1>3. Agrees(calls)
    BY <1>2, HoldsEncoding DEF Agrees, Meets
<1>4. DOMAIN calls = {1, 2}
    BY <1>1
<1>5. InTurn(calls, dom) /\ CallList(calls, dom)
    BY <1>2, <1>4, HeadIs DEF InTurn, CallList
<1> Multiplied(calls, dom)
    BY <1>2, NoneMultiplied
<1>6. Expands(calls, dom)
    BY <1>2, <1>3, <1>5, SameExpands
<1> QED BY <1>1, <1>6

\* A rewriting without new columns.
LEMMA IntoReplaced ==
    ASSUME todo # <<>>, Call.c \notin Flat, NEW calls, Into(calls), Expands(calls, dom), NewTwos(calls)
    PROVE  Replaced
BY DEF Replaced, Rewritten, Into

LEMMA FirstIs ==
    ASSUME Typed, todo # <<>>, Call.c \notin Flat, NEW k, First(k)
    PROVE  Rewritten(<<k, Call>>) /\ dom' = dom /\ UNCHANGED shared
<1>1. todo \in Seq(Range(todo))
    BY DEF Typed, CallList
<1>2. <<k>> \o todo = <<k, Call>> \o Tail(todo)
    <2>1. PICK S : S = Range(todo) \cup {k}
        OBVIOUS
    <2>2. todo \in Seq(S) /\ k \in S
        BY <1>1, <2>1, SeqGrows
    <2> QED BY <2>2 DEF Call
<1> QED BY <1>2 DEF First, Rewritten

LEMMA SelectFirst ==
    ASSUME Typed, todo # <<>>, Call.c \notin Flat, Call.c \notin {"element", "two", "times"},
           NEW x, x \in Columns(dom), First(Select(x))
    PROVE  Replaced
<1>1. PICK calls : calls = <<Select(x), Call>>
    OBVIOUS
<1>2. Proper(Select(x), dom) /\ Select(x).c = "select"
    BY MadeEncoding
<1>3. Expands(calls, dom)
    BY <1>1, <1>2, FirstExpands DEF Flat
<1>4. Rewritten(calls) /\ dom' = dom /\ UNCHANGED shared
    BY <1>1, FirstIs
<1>5. NewTwos(calls)
    BY <1>1, <1>2, TwoCalls DEF NewTwos
<1> QED BY <1>3, <1>4, <1>5 DEF Replaced

-----------------------------------------------------------------------------
(***************************************************************************)
(* Columns while the flattener works.                                      *)
(***************************************************************************)
Working == Typed /\ Selects /\ todo # <<>> /\ \A x \in 1 .. Len(dom) : dom[x] # {}

LEMMA WorkingIs ==
    ASSUME Formed, NEW c, Doing(c)
    PROVE  /\ Working /\ Call.c = c /\ Proper(Call, dom) /\ Domains(dom)
           /\ 1 \in Columns(dom) /\ 1 \in Booleans(dom)
<1>1. Working /\ Call.c = c
    BY DEF Formed, Doing, Working
<1>2. Proper(Call, dom) /\ Domains(dom)
    BY <1>1, HeadIs DEF Working, Typed
<1>3. 1 \in 1 .. Len(dom)
    BY DomainsAre DEF Formed, Typed, Bigger
<1>4. dom[1] \subseteq 0 .. 1
    BY DEF Formed, Typed
<1> QED BY <1>1, <1>2, <1>3, <1>4 DEF Columns, Booleans

LEMMA ColumnIs ==
    ASSUME Working, NEW x, x \in Columns(dom)
    PROVE  /\ Finite(dom[x]) /\ dom[x] # {} /\ lb(x) \in dom[x] /\ ub(x) \in dom[x]
           /\ lb(x) \in Int /\ ub(x) \in Int /\ lb(x) <= ub(x) /\ x \in Nat /\ x # 0
           /\ \A w \in dom[x] : w \in Int /\ lb(x) <= w /\ w <= ub(x)
           /\ card(x) \in Nat /\ (is_fixed(x) <=> lb(x) = ub(x)) /\ (is_fixed(x) => dom[x] = {lb(x)})
<1>1. Finite(dom[x]) /\ dom[x] # {} /\ x \in 1 .. Len(dom) /\ Len(dom) \in Nat
    BY DomainsAre DEF Working, Typed, Columns
<1>2. /\ Max(dom[x]) \in dom[x] /\ Min(dom[x]) \in dom[x] /\ Max(dom[x]) \in Int /\ Min(dom[x]) \in Int
      /\ \A w \in dom[x] : w \in Int /\ Min(dom[x]) <= w /\ w <= Max(dom[x])
    BY <1>1, EndsAre
<1>3. Cardinality(dom[x]) = 1 <=> Min(dom[x]) = Max(dom[x])
    BY <1>1, OneValue
<1>4. Cardinality(dom[x]) = 1 => dom[x] = {Min(dom[x])}
    BY <1>1, OneValue
<1>5. Cardinality(dom[x]) \in Nat
    BY <1>1, FiniteParts
<1>6. Min(dom[x]) <= Max(dom[x])
    BY <1>2
<1> QED BY <1>1, <1>2, <1>3, <1>4, <1>5, <1>6 DEF lb, ub, card, is_fixed

LEMMA ValueIs ==
    ASSUME Working, NEW s, Fits(s, dom), NEW x, x \in Columns(dom)
    PROVE  /\ s[x] \in dom[x] /\ s[x] \in Int /\ lb(x) <= s[x] /\ s[x] <= ub(x)
           /\ is_fixed(x) => s[x] = fix(x) /\ s[x] = lb(x)
<1>1. s[x] \in dom[x] /\ s[x] \in Int
    BY FitsColumns DEF Working, Typed
<1> QED BY <1>1, ColumnIs DEF fix

LEMMA BooleanIs ==
    ASSUME Working, NEW b, b \in Booleans(dom)
    PROVE  /\ b \in Columns(dom) /\ b \in Nat /\ b # 0 /\ dom[b] \subseteq {0, 1}
           /\ is_fixed(b) => fix(b) \in {0, 1}
           /\ ~is_fixed(b) => dom[b] = {0, 1}
<1>1. b \in Columns(dom) /\ dom[b] \subseteq {0, 1}
    BY DEF Booleans
<1>2. fix(b) \in dom[b] /\ ub(b) \in dom[b] /\ (is_fixed(b) <=> lb(b) = ub(b)) /\ b \in Nat /\ b # 0
    BY <1>1, ColumnIs DEF fix
<1>3. ~is_fixed(b) => fix(b) # ub(b)
    BY <1>2 DEF fix
<1> QED BY <1>1, <1>2, <1>3

LEMMA BitIs ==
    ASSUME Working, NEW s, Fits(s, dom), NEW b, b \in Booleans(dom)
    PROVE  s[b] \in {0, 1} /\ s[b] \in Int /\ (is_fixed(b) => s[b] = fix(b))
BY BooleanIs, ValueIs

-----------------------------------------------------------------------------
(***************************************************************************)
(* Linear constraints while the flattener works.                           *)
(***************************************************************************)
LEMMA RowSummable ==
    ASSUME Working, NEW co, NEW xs, NEW k, Row(co, xs, k, dom), NEW s, Fits(s, dom)
    PROVE  Summable(co, xs, s) /\ SumOf(co, xs, s) \in Int
<1>1. Columns(dom) \subseteq Nat /\ \A x \in Columns(dom) : s[x] \in Int
    BY FitsColumns DEF Working, Typed
<1>2. xs \in Seq(Nat)
    BY <1>1, SeqGrows DEF Row
<1>3. \A i \in 1 .. Len(xs) : xs[i] \in Columns(dom)
    BY DEF Row
<1>4. Summable(co, xs, s)
    BY <1>1, <1>2, <1>3 DEF Summable, Row
<1> QED BY <1>4, SumType

LEMMA RowTerm ==
    ASSUME Working, NEW co, NEW xs, NEW k, Row(co, xs, k, dom)
    PROVE  /\ Len(xs) \in Nat /\ DOMAIN xs = 1 .. Len(xs) /\ DOMAIN co = 1 .. Len(xs)
           /\ \A i \in 1 .. Len(xs) : /\ co[i] \in Int /\ xs[i] \in Columns(dom)
                                      /\ lb(xs[i]) \in Int /\ ub(xs[i]) \in Int
                                      /\ fix(xs[i]) = lb(xs[i])
BY ColumnIs DEF Row, fix

LEMMA ProductAtMost ==
    ASSUME NEW v \in Int, NEW w \in Int, NEW u \in Int, w <= u
    PROVE  (v >= 0 => v * w <= v * u) /\ (v <= 0 => v * u <= v * w)
<1>1. PICK d \in Nat : u = w + d
    <2>1. u - w \in Nat /\ u = w + (u - w)
        OBVIOUS
    <2> QED BY <2>1
<1>2. v * u = v * w + v * d
    BY <1>1
<1>3. (v >= 0 => v * d >= 0) /\ (v <= 0 => v * d <= 0)
    OBVIOUS
<1> QED BY <1>2, <1>3

LEMMA UpperIs ==
    ASSUME Working, NEW co, NEW xs, NEW k, Row(co, xs, k, dom)
    PROVE  /\ mip_int_lin_ub(co, xs) \in Int
           /\ \A s : Fits(s, dom) => SumOf(co, xs, s) <= mip_int_lin_ub(co, xs)
<1> DEFINE g == [i \in 1 .. Len(xs) |-> co[i] * (IF co[i] > 0 THEN ub(xs[i]) ELSE lb(xs[i]))]
<1>1. /\ Len(xs) \in Nat
      /\ \A i \in 1 .. Len(xs) : co[i] \in Int /\ xs[i] \in Columns(dom) /\ lb(xs[i]) \in Int /\ ub(xs[i]) \in Int
    BY RowTerm
<1>2. /\ mip_int_lin_ub(co, xs) = Total(g) /\ Len(g) = Len(xs) /\ Len(g) \in Nat
      /\ g = [i \in 1 .. Len(xs) |-> g[i]]
      /\ \A i \in 1 .. Len(xs) : g[i] = co[i] * (IF co[i] > 0 THEN ub(xs[i]) ELSE lb(xs[i]))
    BY <1>1 DEF mip_int_lin_ub
<1> HIDE DEF g
<1>3. Numbers(g)
    <2>1. \A i \in 1 .. Len(xs) : (IF co[i] > 0 THEN ub(xs[i]) ELSE lb(xs[i])) \in Int
        BY <1>1
    <2>2. \A i \in 1 .. Len(xs) : g[i] \in Int
        <3>1. TAKE i \in 1 .. Len(xs)
        <3>2. PICK v \in Int, w \in Int : v = co[i] /\ w = IF co[i] > 0 THEN ub(xs[i]) ELSE lb(xs[i])
            BY <1>1, <2>1
        <3> QED BY <1>2, <3>2
    <2> QED BY <1>2, <2>2 DEF Numbers
<1>4. ASSUME NEW s, Fits(s, dom) PROVE SumOf(co, xs, s) <= mip_int_lin_ub(co, xs)
    <2>1. Summable(co, xs, s)
        BY <1>4, RowSummable
    <2>2. PICK f : f = Parts(co, xs, s)
        OBVIOUS
    <2>3. /\ Numbers(f) /\ Len(f) = Len(xs) /\ SumOf(co, xs, s) = Total(f)
          /\ \A i \in 1 .. Len(xs) : f[i] = co[i] * s[xs[i]]
        BY <2>1, <2>2, PartsAre
    <2>4. ASSUME NEW i \in 1 .. Len(xs) PROVE f[i] <= g[i]
        <3>1. PICK v \in Int, w \in Int, l \in Int, u \in Int :
                v = co[i] /\ w = s[xs[i]] /\ l = lb(xs[i]) /\ u = ub(xs[i]) /\ l <= w /\ w <= u
            BY <1>1, <1>4, ValueIs
        <3>2. f[i] = v * w
            BY <2>3, <3>1
        <3>3. g[i] = v * (IF v > 0 THEN u ELSE l)
            BY <1>2, <3>1
        <3>4. v > 0 => v * w <= v * u
            BY <3>1, ProductAtMost
        <3>5. ~ (v > 0) => v * w <= v * l
            BY <3>1, ProductAtMost
        <3> QED BY <3>2, <3>3, <3>4, <3>5
    <2>5. Total(f) <= Total(g)
        BY <1>2, <1>3, <2>3, <2>4, TotalMonotone
    <2> QED BY <1>2, <2>3, <2>5
<1> QED BY <1>2, <1>3, <1>4, TotalType

LEMMA RowNegated ==
    ASSUME Working, NEW co, NEW xs, NEW k, Row(co, xs, k, dom)
    PROVE  \A l \in Int : Row(Neg(co), xs, l, dom)
<1>1. Len(co) \in Nat /\ DOMAIN co = 1 .. Len(co) /\ \A i \in 1 .. Len(co) : co[i] \in Int
    BY DEF Row
<1>2. Neg(co) = [i \in 1 .. Len(co) |-> -co[i]]
    BY <1>1 DEF Neg
<1>3. Neg(co) \in Seq(Int) /\ Len(Neg(co)) = Len(co)
    BY <1>1, <1>2
<1> QED BY <1>3 DEF Row

LEMMA RowAppended ==
    ASSUME NEW co, NEW xs, NEW k, Row(co, xs, k, dom), NEW w, w \in Int, NEW x, x \in Columns(dom)
    PROVE  \A l \in Int : Row(Append(co, w), Append(xs, x), l, dom)
BY DEF Row

LEMMA LowerIs ==
    ASSUME Working, NEW co, NEW xs, NEW k, Row(co, xs, k, dom)
    PROVE  /\ mip_int_lin_lb(co, xs) \in Int
           /\ \A s : Fits(s, dom) => mip_int_lin_lb(co, xs) <= SumOf(co, xs, s)
<1>1. Row(Neg(co), xs, k, dom)
    BY RowNegated DEF Row
<1>2. /\ mip_int_lin_ub(Neg(co), xs) \in Int
      /\ \A s : Fits(s, dom) => SumOf(Neg(co), xs, s) <= mip_int_lin_ub(Neg(co), xs)
    BY <1>1, UpperIs
<1>3. \A s : Fits(s, dom) => SumOf(Neg(co), xs, s) = -SumOf(co, xs, s) /\ SumOf(co, xs, s) \in Int
    BY RowSummable, SumNegated
<1> QED BY <1>2, <1>3 DEF mip_int_lin_lb

-----------------------------------------------------------------------------
(***************************************************************************)
(* Half reification.                                                       *)
(***************************************************************************)
LEMMA LeImpExpands ==
    ASSUME Working, NEW co, NEW xs, NEW k, Row(co, xs, k, dom), NEW b, b \in Booleans(dom),
           Call.c # "element",
           \A s : Holds(Call, s) <=> (s[b] = 1 => SumOf(co, xs, s) <= k)
    PROVE  Expands(le_imp(co, xs, k, b), dom) /\ NewTwos(le_imp(co, xs, k, b))
<1> DEFINE hi == mip_int_lin_ub(co, xs)
           lo == mip_int_lin_lb(co, xs)
<1>1. Typed /\ todo # <<>> /\ b \in Columns(dom)
    BY BooleanIs DEF Working
<1>2. /\ hi \in Int /\ lo \in Int /\ k \in Int
      /\ \A s : At1(s) => lo <= SumOf(co, xs, s) /\ SumOf(co, xs, s) <= hi /\ SumOf(co, xs, s) \in Int
    BY UpperIs, LowerIs, RowSummable DEF At1, Row
<1>3. \A s : At1(s) => s[b] \in {0, 1} /\ (is_fixed(b) => s[b] = fix(b))
    BY BitIs DEF At1
<1> HIDE DEF hi, lo
<1>4. CASE is_fixed(b) /\ fix(b) = 1
    <2>1. Plain(Le(co, xs, k), dom)
        BY MadeLe DEF Plain
    <2>2. \A s : At1(s) => (Holds(Call, s) <=> Holds(Le(co, xs, k), s))
        BY <1>3, <1>4, LeHolds
    <2> QED BY <1>1, <1>4, <2>1, <2>2, OneExpands DEF le_imp
<1>5. CASE is_fixed(b) /\ fix(b) # 1
    <2>1. \A s : At1(s) => Holds(Call, s)
        BY <1>3, <1>5
    <2> QED BY <1>1, <1>5, <2>1, NoneExpands DEF le_imp
<1>6. CASE ~is_fixed(b) /\ hi <= k
    <2>1. \A s : At1(s) => Holds(Call, s)
        BY <1>2, <1>6
    <2> QED BY <1>1, <1>6, <2>1, NoneExpands DEF le_imp, hi
<1>7. CASE ~is_fixed(b) /\ ~ (hi <= k) /\ lo > k
    <2>1. Plain(Not(b), dom)
        BY <1>1, MadeTrue DEF Plain
    <2>2. \A s : At1(s) => (Holds(Call, s) <=> Holds(Not(b), s))
        BY <1>2, <1>3, <1>7, NotHolds
    <2> QED BY <1>1, <1>7, <2>1, <2>2, OneExpands DEF le_imp, hi, lo
<1>8. CASE ~is_fixed(b) /\ ~ (hi <= k) /\ ~ (lo > k)
    <2> DEFINE c == Le(Append(co, hi - k), Append(xs, b), hi)
    <2>1. Plain(c, dom)
        <3>1. Row(Append(co, hi - k), Append(xs, b), hi, dom)
            BY <1>1, <1>2, RowAppended
        <3> QED BY <3>1, MadeLe DEF Plain
    <2>2. ASSUME NEW s, At1(s) PROVE Holds(Call, s) <=> Holds(c, s)
        <3>1. PICK v, w : v = SumOf(co, xs, s) /\ w = s[b]
            OBVIOUS
        <3>2. v \in Int /\ w \in {0, 1} /\ v <= hi
            BY <1>2, <1>3, <2>2, <3>1
        <3>3. SumOf(Append(co, hi - k), Append(xs, b), s) = v + (hi - k) * w
                <4>1. Summable(co, xs, s) /\ b \in Nat /\ s[b] \in Int
                BY <2>2, RowSummable, BooleanIs, BitIs DEF At1
            <4>2. PICK u \in Int : u = hi - k
                BY <1>2
            <4>3. SumOf(Append(co, u), Append(xs, b), s) = SumOf(co, xs, s) + u * s[b]
                BY <4>1, <4>2, SumAppended
            <4> QED BY <3>1, <4>2, <4>3
        <3>4. Holds(c, s) <=> v + (hi - k) * w <= hi
            BY <3>3, LeHolds
        <3>5. (hi - k) * w = IF w = 1 THEN hi - k ELSE 0
            BY <1>2, <3>2
        <3> QED BY <1>2, <3>1, <3>2, <3>4, <3>5
    <2> QED BY <1>1, <1>8, <2>1, <2>2, OneExpands DEF le_imp, hi, lo
<1> QED BY <1>4, <1>5, <1>6, <1>7, <1>8

LEMMA AppendedSum ==
    ASSUME Working, NEW co, NEW xs, NEW k, Row(co, xs, k, dom), NEW w, w \in Int, NEW x, x \in Columns(dom),
           NEW s, Fits(s, dom)
    PROVE  /\ SumOf(Append(co, w), Append(xs, x), s) = SumOf(co, xs, s) + w * s[x]
           /\ SumOf(co, xs, s) \in Int /\ s[x] \in Int
<1>1. Summable(co, xs, s) /\ SumOf(co, xs, s) \in Int /\ x \in Nat /\ s[x] \in Int
    BY RowSummable, ValueIs, ColumnIs
<1> QED BY <1>1, SumAppended

LEMMA NegatedSum ==
    ASSUME Working, NEW co, NEW xs, NEW k, Row(co, xs, k, dom), NEW s, Fits(s, dom)
    PROVE  SumOf(Neg(co), xs, s) = -SumOf(co, xs, s) /\ SumOf(co, xs, s) \in Int
BY RowSummable, SumNegated

LEMMA LeImpNotExpands ==
    ASSUME Working, NEW co, NEW xs, NEW k, Row(co, xs, k, dom), NEW b, b \in Booleans(dom),
           Call.c # "element",
           \A s : Holds(Call, s) <=> (s[b] = 0 => SumOf(co, xs, s) <= k)
    PROVE  Expands(le_imp_not(co, xs, k, b), dom) /\ NewTwos(le_imp_not(co, xs, k, b))
<1> DEFINE hi == mip_int_lin_ub(co, xs)
           lo == mip_int_lin_lb(co, xs)
<1>1. Typed /\ todo # <<>> /\ b \in Columns(dom)
    BY BooleanIs DEF Working
<1>2. /\ hi \in Int /\ lo \in Int /\ k \in Int
      /\ \A s : At1(s) => lo <= SumOf(co, xs, s) /\ SumOf(co, xs, s) <= hi /\ SumOf(co, xs, s) \in Int
    BY UpperIs, LowerIs, RowSummable DEF At1, Row
<1>3. \A s : At1(s) => s[b] \in {0, 1} /\ (is_fixed(b) => s[b] = fix(b))
    BY BitIs DEF At1
<1> HIDE DEF hi, lo
<1>4. CASE is_fixed(b) /\ fix(b) # 1
    <2>1. Plain(Le(co, xs, k), dom)
        BY MadeLe DEF Plain
    <2>2. \A s : At1(s) => (Holds(Call, s) <=> Holds(Le(co, xs, k), s))
        BY <1>3, <1>4, LeHolds
    <2> QED BY <1>1, <1>4, <2>1, <2>2, OneExpands DEF le_imp_not
<1>5. CASE is_fixed(b) /\ fix(b) = 1
    <2>1. \A s : At1(s) => Holds(Call, s)
        BY <1>3, <1>5
    <2> QED BY <1>1, <1>5, <2>1, NoneExpands DEF le_imp_not
<1>6. CASE ~is_fixed(b) /\ hi <= k
    <2>1. \A s : At1(s) => Holds(Call, s)
        BY <1>2, <1>6
    <2> QED BY <1>1, <1>6, <2>1, NoneExpands DEF le_imp_not, hi
<1>7. CASE ~is_fixed(b) /\ ~ (hi <= k) /\ lo > k
    <2>1. Plain(True(b), dom)
        BY <1>1, MadeTrue DEF Plain
    <2>2. \A s : At1(s) => (Holds(Call, s) <=> Holds(True(b), s))
        BY <1>2, <1>3, <1>7, TrueHolds
    <2> QED BY <1>1, <1>7, <2>1, <2>2, OneExpands DEF le_imp_not, hi, lo
<1>8. CASE ~is_fixed(b) /\ ~ (hi <= k) /\ ~ (lo > k)
    <2> DEFINE c == Le(Append(co, k - hi), Append(xs, b), k)
    <2>1. Plain(c, dom)
        <3>1. Row(Append(co, k - hi), Append(xs, b), k, dom)
            BY <1>1, <1>2, RowAppended
        <3> QED BY <3>1, MadeLe DEF Plain
    <2>2. ASSUME NEW s, At1(s) PROVE Holds(Call, s) <=> Holds(c, s)
        <3>1. PICK v, w : v = SumOf(co, xs, s) /\ w = s[b]
            OBVIOUS
        <3>2. v \in Int /\ w \in {0, 1} /\ v <= hi
            BY <1>2, <1>3, <2>2, <3>1
        <3>3. SumOf(Append(co, k - hi), Append(xs, b), s) = v + (k - hi) * w
            <4>1. PICK u \in Int : u = k - hi
                BY <1>2
            <4>2. SumOf(Append(co, u), Append(xs, b), s) = SumOf(co, xs, s) + u * s[b]
                BY <1>1, <2>2, <4>1, AppendedSum DEF At1
            <4> QED BY <3>1, <4>1, <4>2
        <3>4. Holds(c, s) <=> v + (k - hi) * w <= k
            BY <3>3, LeHolds
        <3>5. (k - hi) * w = IF w = 1 THEN k - hi ELSE 0
            BY <1>2, <3>2
        <3>6. Holds(Call, s) <=> (w = 0 => v <= k)
            BY <3>1
        <3>7. CASE w = 0
            BY <1>2, <3>2, <3>4, <3>5, <3>6, <3>7
        <3>8. CASE w = 1
            BY <1>2, <3>2, <3>4, <3>5, <3>6, <3>8
        <3> QED BY <3>2, <3>7, <3>8
    <2> QED BY <1>1, <1>8, <2>1, <2>2, OneExpands DEF le_imp_not, hi, lo
<1> QED BY <1>4, <1>5, <1>6, <1>7, <1>8

\* The head, when it is a linear constraint.
LEMMA RowOfCall ==
    ASSUME Working, Proper(Call, dom), Call.c \in Linears \cup Reifieds
    PROVE  /\ Row(Call.co, Call.xs, Call.k, dom) /\ Call.c # "element"
           /\ Call.c \in Reifieds => Call.b \in Booleans(dom)
BY LinearParts, ReifiedParts DEF LinearOf, Row, Linears, Reifieds

\* fzn_int_lin_le_imp: the row, relaxed by what its sum can exceed the bound by.
LEMMA IntLinLeImpReplaced ==
    ASSUME Formed, IntLinLeImp
    PROVE  Replaced
<1>1. Working /\ Call.c = "le_imp" /\ Proper(Call, dom)
    BY WorkingIs DEF IntLinLeImp
<1>2. Row(Call.co, Call.xs, Call.k, dom) /\ Call.b \in Booleans(dom)
    BY <1>1, RowOfCall DEF Reifieds
<1>3. PICK calls : calls = le_imp(Call.co, Call.xs, Call.k, Call.b)
    OBVIOUS
<1>4. \A s : Holds(Call, s) <=> (s[Call.b] = 1 => SumOf(Call.co, Call.xs, s) <= Call.k)
    BY <1>1, HoldsReified
<1>5. Expands(calls, dom) /\ NewTwos(calls)
    BY <1>1, <1>2, <1>3, <1>4, LeImpExpands
<1> QED BY <1>1, <1>3, <1>5, IntoReplaced DEF IntLinLeImp, Working, Flat

\* The same for b = 0.
LEMMA IntLinLeImpNotReplaced ==
    ASSUME Formed, IntLinLeImpNot
    PROVE  Replaced
<1>1. Working /\ Call.c = "le_imp_not" /\ Proper(Call, dom)
    BY WorkingIs DEF IntLinLeImpNot
<1>2. Row(Call.co, Call.xs, Call.k, dom) /\ Call.b \in Booleans(dom)
    BY <1>1, RowOfCall DEF Reifieds
<1>3. PICK calls : calls = le_imp_not(Call.co, Call.xs, Call.k, Call.b)
    OBVIOUS
<1>4. \A s : Holds(Call, s) <=> (s[Call.b] = 0 => SumOf(Call.co, Call.xs, s) <= Call.k)
    BY <1>1, HoldsReified
<1>5. Expands(calls, dom) /\ NewTwos(calls)
    BY <1>1, <1>2, <1>3, <1>4, LeImpNotExpands
<1> QED BY <1>1, <1>3, <1>5, IntoReplaced DEF IntLinLeImpNot, Working, Flat

\* A sum is k when it is at most k and the negated sum at most -k.
LEMMA IntLinEqImpReplaced ==
    ASSUME Formed, IntLinEqImp
    PROVE  Replaced
<1> DEFINE c == Call
<1>1. Working /\ c.c = "eq_imp" /\ Proper(c, dom) /\ Typed /\ todo # <<>>
    BY WorkingIs DEF IntLinEqImp, Working
<1>2. /\ Row(c.co, c.xs, c.k, dom) /\ c.b \in Booleans(dom) /\ c.k \in Int
      /\ Row(Neg(c.co), c.xs, -c.k, dom)
    BY <1>1, RowOfCall, RowNegated DEF Reifieds, Row
<1>3. \A s : Holds(c, s) <=> (s[c.b] = 1 => SumOf(c.co, c.xs, s) = c.k)
    BY <1>1, HoldsReified
<1>4. ASSUME NEW s, At1(s)
      PROVE  /\ SumOf(Neg(c.co), c.xs, s) = -SumOf(c.co, c.xs, s) /\ SumOf(c.co, c.xs, s) \in Int
             /\ is_fixed(c.b) => s[c.b] = fix(c.b)
    BY <1>1, <1>2, <1>4, NegatedSum, BitIs DEF At1
<1>5. CASE is_fixed(c.b) /\ fix(c.b) = 1
    <2>1. Plain(Eq(c.co, c.xs, c.k), dom)
        BY <1>2, MadeEq DEF Plain
    <2>2. \A s : At1(s) => (Holds(c, s) <=> Holds(Eq(c.co, c.xs, c.k), s))
        BY <1>3, <1>4, <1>5, EqHolds
    <2>3. PICK calls : calls = <<Eq(c.co, c.xs, c.k)>>
        OBVIOUS
    <2>4. Expands(calls, dom) /\ NewTwos(calls)
        BY <1>1, <2>1, <2>2, <2>3, OneExpands
    <2> QED BY <1>1, <1>5, <2>3, <2>4, IntoReplaced DEF IntLinEqImp, Flat
<1>6. CASE is_fixed(c.b) /\ fix(c.b) # 1
    <2>1. \A s : At1(s) => Holds(c, s)
        BY <1>3, <1>4, <1>6
    <2>3. PICK calls : calls = <<>>
        OBVIOUS
    <2>4. Expands(calls, dom) /\ NewTwos(calls)
        BY <1>1, <2>1, <2>3, NoneExpands
    <2> QED BY <1>1, <1>6, <2>3, <2>4, IntoReplaced DEF IntLinEqImp, Flat
<1>7. CASE ~is_fixed(c.b)
    <2> DEFINE p == LeImp(c.co, c.xs, c.k, c.b)
               q == LeImp(Neg(c.co), c.xs, -c.k, c.b)
    <2>1. Plain(p, dom) /\ Plain(q, dom)
        BY <1>2, MadeImps DEF Plain
    <2>2. ASSUME NEW s, At1(s) PROVE Holds(c, s) <=> Holds(p, s) /\ Holds(q, s)
        BY <1>2, <1>3, <1>4, <2>2, LeImpHolds
    <2>3. PICK calls : calls = <<p, q>>
        OBVIOUS
    <2>4. Expands(calls, dom) /\ NewTwos(calls)
        <3> HIDE DEF p, q
        <3> QED BY <1>1, <2>1, <2>2, <2>3, TwoExpands
    <2> QED BY <1>1, <1>7, <2>3, <2>4, IntoReplaced DEF IntLinEqImp, Flat
<1> QED BY <1>5, <1>6, <1>7

\* fzn_int_lin_eq_imp for b = 0: two inequalities.
LEMMA IntLinEqImpNotReplaced ==
    ASSUME Formed, IntLinEqImpNot
    PROVE  Replaced
<1> DEFINE c == Call
<1>1. Working /\ c.c = "eq_imp_not" /\ Proper(c, dom) /\ Typed /\ todo # <<>>
    BY WorkingIs DEF IntLinEqImpNot, Working
<1>2. /\ Row(c.co, c.xs, c.k, dom) /\ c.b \in Booleans(dom) /\ c.k \in Int
      /\ Row(Neg(c.co), c.xs, -c.k, dom)
    BY <1>1, RowOfCall, RowNegated DEF Reifieds, Row
<1>3. \A s : Holds(c, s) <=> (s[c.b] = 0 => SumOf(c.co, c.xs, s) = c.k)
    BY <1>1, HoldsReified
<1>4. ASSUME NEW s, At1(s)
      PROVE  /\ SumOf(Neg(c.co), c.xs, s) = -SumOf(c.co, c.xs, s) /\ SumOf(c.co, c.xs, s) \in Int
             /\ is_fixed(c.b) => s[c.b] = fix(c.b)
             /\ s[c.b] \in {0, 1}
    BY <1>1, <1>2, <1>4, NegatedSum, BitIs DEF At1
<1>5. CASE is_fixed(c.b) /\ fix(c.b) # 1
    <2>1. Plain(Eq(c.co, c.xs, c.k), dom)
        BY <1>2, MadeEq DEF Plain
    <2>2. \A s : At1(s) => (Holds(c, s) <=> Holds(Eq(c.co, c.xs, c.k), s))
        BY <1>3, <1>4, <1>5, EqHolds
    <2>3. PICK calls : calls = <<Eq(c.co, c.xs, c.k)>>
        OBVIOUS
    <2>4. Expands(calls, dom) /\ NewTwos(calls)
        BY <1>1, <2>1, <2>2, <2>3, OneExpands
    <2> QED BY <1>1, <1>5, <2>3, <2>4, IntoReplaced DEF IntLinEqImpNot, Flat
<1>6. CASE is_fixed(c.b) /\ fix(c.b) = 1
    <2>1. \A s : At1(s) => Holds(c, s)
        BY <1>3, <1>4, <1>6
    <2>3. PICK calls : calls = <<>>
        OBVIOUS
    <2>4. Expands(calls, dom) /\ NewTwos(calls)
        BY <1>1, <2>1, <2>3, NoneExpands
    <2> QED BY <1>1, <1>6, <2>3, <2>4, IntoReplaced DEF IntLinEqImpNot, Flat
<1>7. CASE ~is_fixed(c.b)
    <2> DEFINE p == LeImpNot(c.co, c.xs, c.k, c.b)
               q == LeImpNot(Neg(c.co), c.xs, -c.k, c.b)
    <2>1. Plain(p, dom) /\ Plain(q, dom)
        BY <1>2, MadeImps DEF Plain
    <2>2. ASSUME NEW s, At1(s) PROVE Holds(c, s) <=> Holds(p, s) /\ Holds(q, s)
        BY <1>2, <1>3, <1>4, <2>2, LeImpNotHolds
    <2>3. PICK calls : calls = <<p, q>>
        OBVIOUS
    <2>4. Expands(calls, dom) /\ NewTwos(calls)
        <3> HIDE DEF p, q
        <3> QED BY <1>1, <2>1, <2>2, <2>3, TwoExpands
    <2> QED BY <1>1, <1>7, <2>3, <2>4, IntoReplaced DEF IntLinEqImpNot, Flat
<1> QED BY <1>5, <1>6, <1>7

-----------------------------------------------------------------------------
(***************************************************************************)
(* The forms a rewriting takes.                                            *)
(***************************************************************************)
Heads == Working /\ Call.c \notin Flat /\ Call.c # "element"

LEMMA IntoNone ==
    ASSUME Heads, Into(<<>>), \A s : At1(s) => Holds(Call, s)
    PROVE  Replaced
<1>1. PICK calls : calls = <<>>
    OBVIOUS
<1>2. Expands(calls, dom) /\ NewTwos(calls)
    BY <1>1, NoneExpands DEF Heads, Working
<1> QED BY <1>1, <1>2, IntoReplaced DEF Heads, Working

LEMMA IntoOne ==
    ASSUME Heads, NEW c, Into(<<c>>), Plain(c, dom), \A s : At1(s) => (Holds(Call, s) <=> Holds(c, s))
    PROVE  Replaced
<1>1. PICK calls : calls = <<c>>
    OBVIOUS
<1>2. Expands(calls, dom) /\ NewTwos(calls)
    BY <1>1, OneExpands DEF Heads, Working
<1> QED BY <1>1, <1>2, IntoReplaced DEF Heads, Working

LEMMA IntoPost ==
    ASSUME Heads, NEW c, Into(<<c>>), Proper(c, dom), c.c = "post", Ready(c, dom),
           \A s : At1(s) => (Holds(Call, s) <=> Holds(c, s))
    PROVE  Replaced
<1>1. PICK calls : calls = <<c>>
    OBVIOUS
<1>2. Expands(calls, dom) /\ NewTwos(calls)
    BY <1>1, PostExpands DEF Heads, Working
<1> QED BY <1>1, <1>2, IntoReplaced DEF Heads, Working

LEMMA IntoTwo ==
    ASSUME Heads, NEW c, NEW k, Into(<<c, k>>), Plain(c, dom), Plain(k, dom),
           \A s : At1(s) => (Holds(Call, s) <=> Holds(c, s) /\ Holds(k, s))
    PROVE  Replaced
<1>1. PICK calls : calls = <<c, k>>
    OBVIOUS
<1>2. Expands(calls, dom) /\ NewTwos(calls)
    BY <1>1, TwoExpands DEF Heads, Working
<1> QED BY <1>1, <1>2, IntoReplaced DEF Heads, Working

LEMMA IntoThree ==
    ASSUME Heads, NEW c, NEW k, NEW l, Into(<<c, k, l>>), Plain(c, dom), Plain(k, dom), Plain(l, dom),
           \A s : At1(s) => (Holds(Call, s) <=> Holds(c, s) /\ Holds(k, s) /\ Holds(l, s))
    PROVE  Replaced
<1>1. PICK calls : calls = <<c, k, l>>
    OBVIOUS
<1>2. Expands(calls, dom) /\ NewTwos(calls)
    BY <1>1, ThreeExpands DEF Heads, Working
<1> QED BY <1>1, <1>2, IntoReplaced DEF Heads, Working

LEMMA IntoPlain ==
    ASSUME Heads, NEW calls, Into(calls), calls \in Seq(Range(calls)), \A c \in Range(calls) : Plain(c, dom),
           Agrees(calls)
    PROVE  Replaced
<1>1. Expands(calls, dom) /\ NewTwos(calls)
    BY PlainExpands DEF Heads, Working
<1> QED BY <1>1, IntoReplaced DEF Heads, Working

-----------------------------------------------------------------------------
\* With new columns.
LEMMA NewDomains ==
    ASSUME NEW d, Domains(d), NEW f, Domains(f), NEW e, e = d \o f
    PROVE  /\ Domains(e) /\ Longer(d, e) /\ Bigger(d, e) /\ Len(e) = Len(d) + Len(f)
           /\ Len(d) \in Nat /\ Len(f) \in Nat
           /\ \A i \in 1 .. Len(f) : e[Len(d) + i] = f[i] /\ Len(d) + i \in Columns(e) /\ Len(d) + i \in Nat
<1>1. d \in Seq(SUBSET Int) /\ f \in Seq(SUBSET Int) /\ Len(d) \in Nat /\ Len(f) \in Nat
    BY DEF Domains
<1>2. /\ e \in Seq(SUBSET Int) /\ Len(e) = Len(d) + Len(f)
      /\ \A i \in 1 .. Len(d) : e[i] = d[i]
      /\ \A i \in 1 .. Len(f) : e[Len(d) + i] = f[i]
    BY <1>1
<1>3. \A x \in 1 .. Len(e) : IsFiniteSet(e[x])
    <2>1. TAKE x \in 1 .. Len(e)
    <2>2. CASE x \in 1 .. Len(d)
        BY <1>2, <2>2 DEF Domains
    <2>3. CASE x \notin 1 .. Len(d)
        <3>1. x - Len(d) \in 1 .. Len(f) /\ x = Len(d) + (x - Len(d))
            BY <1>1, <1>2, <2>3
        <3>2. e[x] = f[x - Len(d)]
            BY <1>2, <3>1
        <3> QED BY <3>1, <3>2 DEF Domains
    <2> QED BY <2>2, <2>3
<1>4. Domains(e) /\ Longer(d, e)
    BY <1>1, <1>2, <1>3 DEF Domains, Longer
<1>5. \A i \in 1 .. Len(f) : Len(d) + i \in Columns(e) /\ Len(d) + i \in Nat
    BY <1>1, <1>2 DEF Columns
<1> QED BY <1>1, <1>2, <1>4, <1>5, LongerIs

\* The domains e are d and n more, and f gives those values.
Extension(d, e, n) == Domains(d) /\ Domains(e) /\ Longer(d, e) /\ n \in Nat /\ Len(e) = Len(d) + n
Suits(f, d, e, n)  == \A i \in 1 .. n : f[i] \in e[Len(d) + i]

BitsFrom(d, e, n) ==
    \A i \in 1 .. n : e[Len(d) + i] = 0 .. 1 /\ Len(d) + i \in Booleans(e) /\ Len(d) + i \in Nat

AllBits(n) == [i \in 1 .. n |-> 0 .. 1]

LEMMA NewBits ==
    ASSUME NEW d, Domains(d), NEW n, n \in Nat, NEW e, e = d \o AllBits(n)
    PROVE  /\ Domains(e) /\ Longer(d, e) /\ Bigger(d, e) /\ Len(e) = Len(d) + n /\ Len(d) \in Nat
           /\ Extension(d, e, n) /\ BitsFrom(d, e, n)
<1>1. PICK f : f = [i \in 1 .. n |-> 0 .. 1] /\ f = AllBits(n)
    BY DEF AllBits
<1>2. Domains(f) /\ Len(f) = n
    <2>1. Finite(0 .. 1)
        <3>1. PICK u \in Int, v \in Int : u = 0 /\ v = 1
            OBVIOUS
        <3>2. Finite(u .. v)
            BY IntervalFinite
        <3> QED BY <3>1, <3>2
    <2>2. Len(f) = n /\ \A i \in 1 .. n : f[i] = 0 .. 1
        BY <1>1
    <2>3. 0 .. 1 \in SUBSET Int
        OBVIOUS
    <2>4. f \in Seq(SUBSET Int)
        BY <1>1, <2>3
    <2> QED BY <2>1, <2>2, <2>4 DEF Domains, Finite
<1>3. /\ Domains(e) /\ Longer(d, e) /\ Bigger(d, e) /\ Len(e) = Len(d) + Len(f)
      /\ Len(d) \in Nat /\ Len(f) \in Nat
      /\ \A i \in 1 .. Len(f) : e[Len(d) + i] = f[i] /\ Len(d) + i \in Columns(e) /\ Len(d) + i \in Nat
    <2>1. e = d \o f
        BY <1>1
    <2> QED BY <1>2, <2>1, NewDomains
<1>4. Extension(d, e, n)
    BY <1>2, <1>3 DEF Extension
<1>5. BitsFrom(d, e, n)
    BY <1>1, <1>2, <1>3 DEF BitsFrom, Booleans
<1> QED BY <1>2, <1>3, <1>4, <1>5

\* Values for the new columns.
LEMMA Extended ==
    ASSUME NEW d, NEW e, NEW n, Extension(d, e, n), NEW s, Fits(s, d), NEW f, Suits(f, d, e, n)
    PROVE  \E t : /\ Fits(t, e) /\ Alike(s, t, 1 .. Len(d))
                  /\ \A i \in 1 .. n : t[Len(d) + i] = f[i]
<1> DEFINE t == [x \in 1 .. Len(e) |-> IF x \in 1 .. Len(d) THEN s[x] ELSE f[x - Len(d)]]
<1> USE DEF Extension, Suits
<1>1. Len(d) \in Nat /\ \A x \in 1 .. Len(e) : e[x] \subseteq Int
    BY DomainsAre
<1>2. \A x \in 1 .. Len(e) : t[x] \in e[x]
    <2>1. TAKE x \in 1 .. Len(e)
    <2>2. CASE x \in 1 .. Len(d)
        BY <2>2 DEF Longer, Fits
    <2>3. CASE x \notin 1 .. Len(d)
        <3>1. x - Len(d) \in 1 .. n /\ x = Len(d) + (x - Len(d))
            BY <1>1, <2>3
        <3>2. f[x - Len(d)] \in e[x]
            BY <3>1
        <3> QED BY <2>3, <3>2
    <2> QED BY <2>2, <2>3
<1>3. Fits(t, e)
    BY <1>1, <1>2 DEF Fits
<1>4. Alike(s, t, 1 .. Len(d))
    BY <1>1 DEF Alike, Longer
<1>5. \A i \in 1 .. n : t[Len(d) + i] = f[i]
    BY <1>1
<1> QED BY <1>3, <1>4, <1>5

\* A call as the flattener makes them, products among them.
Usual(c, d) == Proper(c, d) /\ c.c \notin {"post", "two", "element", "element_live"}

\* The same where a product is among the calls.
LEMMA UsualReplaced ==
    ASSUME Heads, NEW calls, todo' = calls \o Tail(todo), UNCHANGED <<model, out, shared>>,
           Domains(dom'), Longer(dom, dom'), calls \in Seq(Range(calls)), Multiplied(calls, dom'),
           \A c \in Range(calls) : Usual(c, dom'), Sound(calls, dom'), Complete(calls, dom')
    PROVE  Replaced
<1>1. CallList(calls, dom') /\ \A c \in Range(calls) : c.c \notin {"post", "two", "element", "element_live"}
    BY DEF CallList, Usual
<1>2. InTurn(calls, dom') /\ NewTwos(calls)
    BY <1>1, PlainInTurn
<1>3. Expands(calls, dom')
    BY <1>1, <1>2 DEF Expands, Shaped, LooksUp, Heads
<1>4. Rewritten(calls) /\ UNCHANGED shared
    BY DEF Rewritten, Heads, Working
<1> QED BY <1>2, <1>3, <1>4 DEF Replaced

\* A rewriting with new columns: it is enough that their values can be told
\* from the assignment to the columns there were.
LEMMA NewReplaced ==
    ASSUME Heads, NEW calls, todo' = calls \o Tail(todo), UNCHANGED <<model, out, shared>>,
           Domains(dom'), Longer(dom, dom'), calls \in Seq(Range(calls)),
           \A c \in Range(calls) : Plain(c, dom'), Sound(calls, dom'), Complete(calls, dom')
    PROVE  Replaced
<1>1. \A c \in Range(calls) : Usual(c, dom') /\ c.c # "times"
    BY DEF Plain, Usual
<1>2. Multiplied(calls, dom')
    BY <1>1, NoneMultiplied
<1> QED BY <1>1, <1>2, UsualReplaced

LEMMA RowGrows ==
    ASSUME NEW d, NEW e, Domains(d), Domains(e), Bigger(d, e), NEW co, NEW xs, NEW k, Row(co, xs, k, d)
    PROVE  Row(co, xs, k, e)
BY ColumnsGrow, SeqGrows DEF Row

LEMMA SummableIn ==
    ASSUME NEW d, Domains(d), NEW co, NEW xs, NEW k, Row(co, xs, k, d), NEW s, Fits(s, d)
    PROVE  Summable(co, xs, s) /\ SumOf(co, xs, s) \in Int
<1>1. Columns(d) \subseteq Nat /\ \A x \in Columns(d) : s[x] \in Int
    BY FitsColumns
<1>2. xs \in Seq(Nat)
    BY <1>1, SeqGrows DEF Row
<1>3. \A i \in 1 .. Len(xs) : xs[i] \in Columns(d)
    BY DEF Row
<1>4. Summable(co, xs, s)
    BY <1>1, <1>2, <1>3 DEF Summable, Row
<1> QED BY <1>4, SumType

-----------------------------------------------------------------------------
(***************************************************************************)
(* The terms that are not fixed.                                           *)
(***************************************************************************)
FixedParts(co, xs) == [i \in 1 .. Len(xs) |-> IF is_fixed(xs[i]) THEN co[i] * fix(xs[i]) ELSE 0]

LEMMA FixedPartsAre ==
    ASSUME Working, NEW co, NEW xs, NEW k, Row(co, xs, k, dom)
    PROVE  /\ Numbers(FixedParts(co, xs)) /\ Len(FixedParts(co, xs)) = Len(xs)
           /\ mip_fixed_sum(co, xs) = Total(FixedParts(co, xs)) /\ mip_fixed_sum(co, xs) \in Int
           /\ \A s : Fits(s, dom) => \A i \in 1 .. Len(xs) :
                FixedParts(co, xs)[i] = IF i \in mip_free_terms(xs) THEN 0 ELSE co[i] * s[xs[i]]
<1>1. /\ Len(xs) \in Nat /\ \A i \in 1 .. Len(xs) : co[i] \in Int /\ xs[i] \in Columns(dom) /\ fix(xs[i]) \in Int
    BY RowTerm
<1>2. \A i \in 1 .. Len(xs) : co[i] * fix(xs[i]) \in Int
    BY <1>1
<1>3. Len(FixedParts(co, xs)) = Len(xs) /\ Numbers(FixedParts(co, xs))
    BY <1>1, <1>2 DEF FixedParts, Numbers
<1>4. mip_fixed_sum(co, xs) = Total(FixedParts(co, xs))
    BY DEF FixedParts, mip_fixed_sum
<1>5. ASSUME NEW s, Fits(s, dom), NEW i \in 1 .. Len(xs)
      PROVE  FixedParts(co, xs)[i] = IF i \in mip_free_terms(xs) THEN 0 ELSE co[i] * s[xs[i]]
    <2>1. is_fixed(xs[i]) => s[xs[i]] = fix(xs[i])
        BY <1>1, <1>5, ValueIs
    <2> QED BY <2>1 DEF FixedParts, mip_free_terms
<1> QED BY <1>3, <1>4, <1>5, TotalType

LEMMA FreeTermsAre ==
    ASSUME Working, NEW co, NEW xs, NEW k, Row(co, xs, k, dom)
    PROVE  Finite(mip_free_terms(xs)) /\ mip_free_terms(xs) \subseteq 1 .. Len(xs)
<1>1. Len(xs) \in Nat
    BY RowTerm
<1>2. Finite(1 .. Len(xs)) /\ mip_free_terms(xs) \subseteq 1 .. Len(xs)
    <2>1. Finite(1 .. Len(xs))
        BY <1>1, IntervalFinite
    <2> QED BY <2>1 DEF mip_free_terms
<1> QED BY <1>2, FiniteParts

\* With one free term the sum is that term and what is fixed.
LEMMA SingleSum ==
    ASSUME Working, NEW co, NEW xs, NEW k, Row(co, xs, k, dom), NEW m, mip_free_terms(xs) = {m},
           NEW s, Fits(s, dom)
    PROVE  /\ m \in 1 .. Len(xs) /\ xs[m] \in Columns(dom) /\ co[m] \in Int /\ s[xs[m]] \in Int
           /\ SumOf(co, xs, s) = mip_fixed_sum(co, xs) + co[m] * s[xs[m]]
<1>1. m \in 1 .. Len(xs) /\ xs[m] \in Columns(dom) /\ co[m] \in Int
    BY FreeTermsAre, RowTerm
<1>2. s[xs[m]] \in Int
    BY <1>1, ValueIs
<1>3. PICK f, g : f = Parts(co, xs, s) /\ g = FixedParts(co, xs)
    OBVIOUS
<1>4. /\ Numbers(f) /\ Len(f) = Len(xs) /\ SumOf(co, xs, s) = Total(f)
      /\ \A i \in 1 .. Len(xs) : f[i] = co[i] * s[xs[i]]
    BY <1>3, RowSummable, PartsAre
<1>5. /\ Numbers(g) /\ Len(g) = Len(xs) /\ mip_fixed_sum(co, xs) = Total(g) /\ Total(g) \in Int
      /\ \A i \in 1 .. Len(xs) : g[i] = IF i = m THEN 0 ELSE co[i] * s[xs[i]]
    BY <1>3, FixedPartsAre
<1>6. \A i \in 1 .. Len(g) : i # m => f[i] = g[i]
    BY <1>4, <1>5
<1>7. Total(f) = Total(g) + (f[m] - g[m])
    <2>1. m \in 1 .. Len(g) /\ Len(f) = Len(g)
        BY <1>1, <1>4, <1>5
    <2> QED BY <1>4, <1>5, <1>6, <2>1, TotalChanged
<1>8. f[m] = co[m] * s[xs[m]] /\ g[m] = 0 /\ f[m] \in Int
    BY <1>1, <1>4, <1>5 DEF Numbers
<1> QED BY <1>1, <1>2, <1>4, <1>5, <1>7, <1>8

\* With two, it is those two.
IsPair(S, m, n) == S = {m, n} /\ m # n

LEMMA DoubleSum ==
    ASSUME Working, NEW co, NEW xs, NEW k, Row(co, xs, k, dom),
           NEW m, NEW n, IsPair(mip_free_terms(xs), m, n), NEW s, Fits(s, dom)
    PROVE  /\ m \in 1 .. Len(xs) /\ xs[m] \in Columns(dom) /\ co[m] \in Int /\ s[xs[m]] \in Int
           /\ n \in 1 .. Len(xs) /\ xs[n] \in Columns(dom) /\ co[n] \in Int /\ s[xs[n]] \in Int
           /\ SumOf(co, xs, s) = mip_fixed_sum(co, xs) + (co[m] * s[xs[m]] + co[n] * s[xs[n]])
<1> USE DEF IsPair
<1>1. /\ m \in 1 .. Len(xs) /\ xs[m] \in Columns(dom) /\ co[m] \in Int
      /\ n \in 1 .. Len(xs) /\ xs[n] \in Columns(dom) /\ co[n] \in Int
    BY FreeTermsAre, RowTerm
<1>2. s[xs[m]] \in Int /\ s[xs[n]] \in Int
    BY <1>1, ValueIs
<1>3. PICK f, g : f = Parts(co, xs, s) /\ g = FixedParts(co, xs)
    OBVIOUS
<1>4. /\ Numbers(f) /\ Len(f) = Len(xs) /\ SumOf(co, xs, s) = Total(f)
      /\ \A i \in 1 .. Len(xs) : f[i] = co[i] * s[xs[i]]
    BY <1>3, RowSummable, PartsAre
<1>5. /\ Numbers(g) /\ Len(g) = Len(xs) /\ mip_fixed_sum(co, xs) = Total(g) /\ Total(g) \in Int
      /\ \A i \in 1 .. Len(xs) : g[i] = IF i \in {m, n} THEN 0 ELSE co[i] * s[xs[i]]
    BY <1>3, FixedPartsAre
<1> DEFINE h == [i \in 1 .. Len(xs) |-> IF i = m THEN f[m] ELSE g[i]]
<1>6. Len(xs) \in Nat /\ Numbers(h) /\ Len(h) = Len(xs) /\ \A i \in 1 .. Len(xs) : h[i] = IF i = m THEN f[m] ELSE g[i]
    BY <1>1, <1>4, <1>5 DEF Numbers
<1> HIDE DEF h
<1>7. Total(h) = Total(g) + (h[m] - g[m])
    <2>1. m \in 1 .. Len(g) /\ Len(h) = Len(g) /\ \A i \in 1 .. Len(g) : i # m => h[i] = g[i]
        BY <1>1, <1>5, <1>6
    <2> QED BY <1>5, <1>6, <2>1, TotalChanged
<1>8. Total(f) = Total(h) + (f[n] - h[n])
    <2>1. n \in 1 .. Len(h) /\ Len(f) = Len(h) /\ \A i \in 1 .. Len(h) : i # n => f[i] = h[i]
        BY <1>1, <1>4, <1>5, <1>6
    <2> QED BY <1>4, <1>6, <2>1, TotalChanged
<1>9. /\ h[m] = co[m] * s[xs[m]] /\ g[m] = 0 /\ h[n] = 0 /\ f[n] = co[n] * s[xs[n]]
      /\ h[m] \in Int /\ f[n] \in Int
    BY <1>1, <1>4, <1>5, <1>6 DEF Numbers
<1> QED BY <1>1, <1>2, <1>4, <1>5, <1>7, <1>8, <1>9

-----------------------------------------------------------------------------
(***************************************************************************)
(* Reified comparisons.                                                    *)
(***************************************************************************)
LEMMA SingleIs ==
    ASSUME Working, NEW co, NEW xs, NEW k, Row(co, xs, k, dom), mip_eq_reif_is_single(co, xs)
    PROVE  /\ FreeX(co, xs) \in Columns(dom) /\ ~is_fixed(FreeX(co, xs)) /\ FreeV(co, xs, k) \in Int
           /\ co[FreeTerm(co, xs)] \in {1, -1}
           /\ \A s : Fits(s, dom) =>
                /\ s[FreeX(co, xs)] \in Int
                /\ SumOf(co, xs, s) = k <=> s[FreeX(co, xs)] = FreeV(co, xs, k)
                /\ co[FreeTerm(co, xs)] = 1 => (SumOf(co, xs, s) <= k <=> s[FreeX(co, xs)] <= FreeV(co, xs, k))
                /\ co[FreeTerm(co, xs)] = -1 => (SumOf(co, xs, s) <= k <=> s[FreeX(co, xs)] >= FreeV(co, xs, k))
<1>1. Finite(mip_free_terms(xs)) /\ Cardinality(mip_free_terms(xs)) = 1
    BY FreeTermsAre DEF mip_eq_reif_is_single
<1>2. PICK m : m = FreeTerm(co, xs)
    OBVIOUS
<1>3. mip_free_terms(xs) = {m}
    BY <1>1, <1>2, OneValue DEF FreeTerm
<1>4. /\ m \in 1 .. Len(xs) /\ xs[m] \in Columns(dom)
    BY <1>3, FreeTermsAre, RowTerm
<1>5. co[m] \in {1, -1} /\ ~is_fixed(xs[m])
    BY <1>3 DEF mip_eq_reif_is_single, mip_free_terms
<1>6. k \in Int /\ mip_fixed_sum(co, xs) \in Int
    BY FixedPartsAre DEF Row
<1>7. FreeX(co, xs) = xs[m] /\ FreeV(co, xs, k) = co[m] * (k - mip_fixed_sum(co, xs))
    BY <1>2 DEF FreeX, FreeV
<1>8. FreeV(co, xs, k) \in Int
    BY <1>5, <1>6, <1>7
<1>9. ASSUME NEW s, Fits(s, dom)
      PROVE  /\ s[xs[m]] \in Int
             /\ SumOf(co, xs, s) = k <=> s[xs[m]] = FreeV(co, xs, k)
             /\ co[m] = 1 => (SumOf(co, xs, s) <= k <=> s[xs[m]] <= FreeV(co, xs, k))
             /\ co[m] = -1 => (SumOf(co, xs, s) <= k <=> s[xs[m]] >= FreeV(co, xs, k))
    <2>1. s[xs[m]] \in Int /\ SumOf(co, xs, s) = mip_fixed_sum(co, xs) + co[m] * s[xs[m]]
        BY <1>3, <1>9, SingleSum
    <2>2. CASE co[m] = 1
        BY <1>6, <1>7, <2>1, <2>2
    <2>3. CASE co[m] = -1
        BY <1>6, <1>7, <2>1, <2>3
    <2> QED BY <1>5, <2>1, <2>2, <2>3
<1> QED BY <1>2, <1>4, <1>5, <1>7, <1>8, <1>9

\* fzn_int_lin_le_reif: a membership for the pass, or two implications.
LEMMA IntLinLeReifReplaced ==
    ASSUME Formed, IntLinLeReif
    PROVE  Replaced
<1> DEFINE c == Call
<1>1. Working /\ c.c = "le_reif" /\ Proper(c, dom) /\ Typed /\ todo # <<>> /\ Heads
    BY WorkingIs DEF IntLinLeReif, Working, Heads, Flat
<1>2. /\ Row(c.co, c.xs, c.k, dom) /\ c.b \in Booleans(dom) /\ c.k \in Int
      /\ Row(Neg(c.co), c.xs, -c.k - 1, dom) /\ c.b \in Columns(dom)
    BY <1>1, RowOfCall, RowNegated, BooleanIs DEF Reifieds, Row
<1>3. \A s : Holds(c, s) <=> (s[c.b] = 1 <=> SumOf(c.co, c.xs, s) <= c.k)
    BY <1>1, HoldsReified
<1>4. ASSUME NEW s, At1(s)
      PROVE  /\ SumOf(Neg(c.co), c.xs, s) = -SumOf(c.co, c.xs, s) /\ SumOf(c.co, c.xs, s) \in Int
             /\ s[c.b] \in {0, 1} /\ Fits(s, dom)
    BY <1>1, <1>2, <1>4, NegatedSum, BitIs DEF At1
<1>5. CASE ~ (mip_eq_reif_is_single(c.co, c.xs) /\ MIP_domains /\ ~is_fixed(c.b))
    <2> DEFINE p == LeImp(c.co, c.xs, c.k, c.b)
               q == LeImpNot(Neg(c.co), c.xs, -c.k - 1, c.b)
    <2>1. Plain(p, dom) /\ Plain(q, dom)
        BY <1>2, MadeImps DEF Plain
    <2>2. ASSUME NEW s, At1(s) PROVE Holds(c, s) <=> Holds(p, s) /\ Holds(q, s)
        <3>1. PICK v \in Int, w \in {0, 1} : v = SumOf(c.co, c.xs, s) /\ w = s[c.b]
            BY <1>4, <2>2
        <3>2. Holds(p, s) <=> (w = 1 => v <= c.k)
            BY <3>1, LeImpHolds
        <3>3. Holds(q, s) <=> (w = 0 => -v <= -c.k - 1)
            BY <1>4, <2>2, <3>1, LeImpNotHolds
        <3>4. Holds(c, s) <=> (w = 1 <=> v <= c.k)
            BY <1>3, <3>1
        <3> QED BY <1>2, <3>1, <3>2, <3>3, <3>4
    <2>3. Into(<<p, q>>)
        BY <1>5 DEF IntLinLeReif
    <2> HIDE DEF p, q, c
    <2> QED BY <1>1, <2>1, <2>2, <2>3, IntoTwo DEF c
<1>6. CASE mip_eq_reif_is_single(c.co, c.xs) /\ MIP_domains /\ ~is_fixed(c.b)
    <2> DEFINE x    == FreeX(c.co, c.xs)
               v    == FreeV(c.co, c.xs, c.k)
               up   == c.co[FreeTerm(c.co, c.xs)] = 1
               has  == {w \in dom[x] : IF up THEN w <= v ELSE w >= v}
               post == Post(x, has, c.b, {HandedBound(up, has, v)})
    <2>1. /\ x \in Columns(dom) /\ ~is_fixed(x) /\ v \in Int /\ c.co[FreeTerm(c.co, c.xs)] \in {1, -1}
          /\ \A s : Fits(s, dom) => /\ s[x] \in Int
                                    /\ up => (SumOf(c.co, c.xs, s) <= c.k <=> s[x] <= v)
                                    /\ ~up => (SumOf(c.co, c.xs, s) <= c.k <=> s[x] >= v)
        BY <1>1, <1>2, <1>6, SingleIs
    <2>2. \A s : At1(s) => (Holds(c, s) <=> (s[c.b] = 1 <=> s[x] \in has)) /\ s[x] \in dom[x]
        <3>1. TAKE s
        <3>2. HAVE At1(s)
        <3>3. s[x] \in dom[x] /\ Fits(s, dom)
            BY <1>1, <1>4, <2>1, <3>2, ValueIs
        <3>4. s[x] \in has <=> (IF up THEN s[x] <= v ELSE s[x] >= v)
            BY <3>3
        <3>5. SumOf(c.co, c.xs, s) <= c.k <=> s[x] \in has
            BY <2>1, <3>3, <3>4
        <3> QED BY <1>3, <3>3, <3>5
    <2>3. IntLinLeReif => Into(IF has = dom[x] THEN <<True(c.b)>>
                               ELSE IF has = {} THEN <<Not(c.b)>> ELSE <<post>>)
        BY <1>6 DEF IntLinLeReif
    <2>4. has \subseteq dom[x] /\ Finite(dom[x]) /\ Finite(has)
        BY <1>1, <2>1, ColumnIs, FiniteParts
    <2> HIDE DEF x, v, has, up
    <2>5. CASE has = dom[x]
        <3>1. Plain(True(c.b), dom)
            BY <1>2, MadeTrue DEF Plain
        <3>2. \A s : At1(s) => (Holds(Call, s) <=> Holds(True(c.b), s))
            BY <2>2, <2>5, TrueHolds
        <3>3. Into(<<True(c.b)>>)
            BY <2>3, <2>5
        <3> HIDE DEF c
        <3> QED BY <1>1, <3>1, <3>2, <3>3, IntoOne
    <2>6. CASE has # dom[x] /\ has = {}
        <3>1. Plain(Not(c.b), dom)
            BY <1>2, MadeTrue DEF Plain
        <3>2. \A s : At1(s) => (Holds(Call, s) <=> Holds(Not(c.b), s))
            BY <1>4, <2>2, <2>6, NotHolds
        <3>3. Into(<<Not(c.b)>>)
            BY <2>3, <2>6
        <3> HIDE DEF c
        <3> QED BY <1>1, <3>1, <3>2, <3>3, IntoOne
    <2>7. CASE has # dom[x] /\ has # {}
        <3>1. PICK vs : vs = {HandedBound(up, has, v)}
            OBVIOUS
        <3>2. HandedBound(up, has, v) \in has
            BY <2>4, <2>7, EndsAre DEF HandedBound
        <3>3. vs # {} /\ vs \subseteq dom[x] /\ vs \subseteq Int
            BY <2>4, <3>1, <3>2 DEF Finite
        <3>4. /\ Proper(post, dom) /\ post.c = "post" /\ post.x = x /\ post.b = c.b /\ post.values = vs
            BY <1>2, <2>1, <2>4, <3>1, <3>3, MadePost
        <3>5. Ready(post, dom)
            BY <1>6, <2>1, <3>3, <3>4 DEF Ready, is_fixed, card
        <3>6. \A s : At1(s) => (Holds(Call, s) <=> Holds(post, s))
            <4>1. c.b # 0
                BY <1>1, <1>2, BooleanIs
            <4> QED BY <2>2, <4>1, PostHolds
        <3>7. Into(<<post>>)
            BY <2>3, <2>7
        <3> HIDE DEF post
        <3> QED BY <1>1, <3>4, <3>5, <3>6, <3>7, IntoPost
    <2> QED BY <2>5, <2>6, <2>7
<1> QED BY <1>5, <1>6

-----------------------------------------------------------------------------
\* Two free terms, the one less the other.
LEMMA DifferenceSum ==
    ASSUME Working, NEW co, NEW xs, NEW k, Row(co, xs, k, dom),
           NEW m, NEW n, IsPair(mip_free_terms(xs), m, n), co[m] = -co[n], co[m] \in {1, -1},
           NEW s, Fits(s, dom)
    PROVE  SumOf(co, xs, s) = k <=> s[xs[m]] = s[xs[n]] + co[m] * (k - mip_fixed_sum(co, xs))
<1>1. /\ s[xs[m]] \in Int /\ s[xs[n]] \in Int /\ co[n] \in Int
      /\ SumOf(co, xs, s) = mip_fixed_sum(co, xs) + (co[m] * s[xs[m]] + co[n] * s[xs[n]])
    BY DoubleSum
<1>2. k \in Int /\ mip_fixed_sum(co, xs) \in Int
    BY FixedPartsAre DEF Row
<1>3. PICK f \in Int, v \in Int, w \in Int, p \in {1, -1}, q \in Int :
        f = mip_fixed_sum(co, xs) /\ v = s[xs[m]] /\ w = s[xs[n]] /\ p = co[m] /\ q = co[n]
    BY <1>1, <1>2
<1>4. SumOf(co, xs, s) = f + (p * v + q * w) /\ p = -q
    BY <1>1, <1>3
<1>5. f + (p * v + q * w) = k <=> v = w + p * (k - f)
    <2>1. CASE p = 1
        <3>1. q = -1
            BY <1>3, <1>4, <2>1
        <3>2. p * v = v /\ q * w = -w /\ p * (k - f) = k - f
            BY <1>2, <1>3, <2>1, <3>1
        <3>3. f + (v + -w) = k <=> v = w + (k - f)
            <4>1. f \in Int /\ v \in Int /\ w \in Int /\ k \in Int
                BY <1>2, <1>3
            <4> QED BY <4>1
        <3> QED BY <3>2, <3>3
    <2>2. CASE p = -1
        <3>1. q = 1
            BY <1>3, <1>4, <2>2
        <3>2. p * v = -v /\ q * w = w /\ p * (k - f) = f - k
            BY <1>2, <1>3, <2>2, <3>1
        <3>3. f + (-v + w) = k <=> v = w + (f - k)
            <4>1. f \in Int /\ v \in Int /\ w \in Int /\ k \in Int
                BY <1>2, <1>3
            <4> QED BY <4>1
        <3> QED BY <3>2, <3>3
    <2> QED BY <1>3, <2>1, <2>2
<1> QED BY <1>3, <1>4, <1>5

LEMMA DifferenceIs ==
    ASSUME Working, NEW co, NEW xs, NEW k, Row(co, xs, k, dom), IsDifference(co, xs),
           NEW i, i = Min(mip_free_terms(xs)), NEW j, j = Max(mip_free_terms(xs))
    PROVE  /\ i \in 1 .. Len(xs) /\ j \in 1 .. Len(xs) /\ mip_free_terms(xs) = {i, j}
           /\ xs[i] \in Columns(dom) /\ xs[j] \in Columns(dom)
           /\ co[i] * (k - mip_fixed_sum(co, xs)) \in Int /\ mip_fixed_sum(co, xs) \in Int
           /\ \A s : Fits(s, dom) =>
                SumOf(co, xs, s) = k <=> s[xs[i]] = s[xs[j]] + co[i] * (k - mip_fixed_sum(co, xs))
<1>1. Finite(mip_free_terms(xs)) /\ Cardinality(mip_free_terms(xs)) = 2
    BY FreeTermsAre DEF IsDifference
<1>2. mip_free_terms(xs) = {i, j} /\ i < j
    BY <1>1, TwoValues
<1>3. /\ i \in 1 .. Len(xs) /\ xs[i] \in Columns(dom)
      /\ j \in 1 .. Len(xs) /\ xs[j] \in Columns(dom) /\ i # j
    <2>1. i \in 1 .. Len(xs) /\ j \in 1 .. Len(xs) /\ Len(xs) \in Nat
        BY <1>2, FreeTermsAre, RowTerm
    <2> QED BY <1>2, <2>1, RowTerm
<1>5. co[i] = -co[j] /\ co[i] \in {1, -1} /\ co[j] \in Int
    BY <1>2, <1>3, RowTerm DEF IsDifference
<1>6. k \in Int /\ mip_fixed_sum(co, xs) \in Int
    BY FixedPartsAre DEF Row
<1>7. ASSUME NEW s, Fits(s, dom)
      PROVE  SumOf(co, xs, s) = k <=> s[xs[i]] = s[xs[j]] + co[i] * (k - mip_fixed_sum(co, xs))
    <2>1. i # j /\ co[i] = -co[j] /\ co[i] \in {1, -1} /\ mip_free_terms(xs) = {i, j}
        BY <1>2, <1>3, <1>5
    <2>2. IsPair(mip_free_terms(xs), i, j)
        BY <2>1 DEF IsPair
    <2>3. PICK m, n : m = i /\ n = j
        OBVIOUS
    <2>4. IsPair(mip_free_terms(xs), m, n) /\ co[m] = -co[n] /\ co[m] \in {1, -1}
        BY <2>1, <2>2, <2>3
    <2>5. SumOf(co, xs, s) = k <=> s[xs[m]] = s[xs[n]] + co[m] * (k - mip_fixed_sum(co, xs))
        BY <1>7, <2>4, DifferenceSum
    <2> QED BY <2>3, <2>5
<1>8. co[i] * (k - mip_fixed_sum(co, xs)) \in Int
    BY <1>5, <1>6
<1> QED BY <1>2, <1>3, <1>6, <1>7, <1>8

-----------------------------------------------------------------------------
(***************************************************************************)
(* Short rows, and the head when it is a reified comparison.               *)
(***************************************************************************)
LEMMA PairIs ==
    ASSUME NEW d, Domains(d), NEW u, u \in Int, NEW v, v \in Int,
           NEW x, x \in Columns(d), NEW y, y \in Columns(d)
    PROVE  /\ \A k \in Int : Row(<<u, v>>, <<x, y>>, k, d)
           /\ \A s : Fits(s, d) =>
                s[x] \in Int /\ s[y] \in Int /\ SumOf(<<u, v>>, <<x, y>>, s) = u * s[x] + v * s[y]
<1>1. \A k \in Int : Row(<<u, v>>, <<x, y>>, k, d)
    BY DEF Row
<1>2. ASSUME NEW s, Fits(s, d)
      PROVE  s[x] \in Int /\ s[y] \in Int /\ SumOf(<<u, v>>, <<x, y>>, s) = u * s[x] + v * s[y]
    <2>1. s[x] \in Int /\ s[y] \in Int /\ x \in Nat /\ y \in Nat
        BY <1>2, FitsColumns
    <2> QED BY <2>1, SumTwo
<1> QED BY <1>1, <1>2

LEMMA UnitsAre ==
    ASSUME NEW d, Domains(d), NEW x, x \in Columns(d), NEW y, y \in Columns(d)
    PROVE  /\ \A k \in Int : /\ Row(<<1, 1>>, <<x, y>>, k, d) /\ Row(<<1, -1>>, <<x, y>>, k, d)
                             /\ Row(<<-1, 1>>, <<x, y>>, k, d) /\ Row(<<-1, -1>>, <<x, y>>, k, d)
           /\ \A s : Fits(s, d) =>
                /\ s[x] \in Int /\ s[y] \in Int
                /\ SumOf(<<1, 1>>, <<x, y>>, s) = s[x] + s[y]
                /\ SumOf(<<1, -1>>, <<x, y>>, s) = s[x] - s[y]
                /\ SumOf(<<-1, 1>>, <<x, y>>, s) = s[y] - s[x]
                /\ SumOf(<<-1, -1>>, <<x, y>>, s) = -s[x] - s[y]
<1>1. PICK p \in Int, m \in Int : p = 1 /\ m = -1
    OBVIOUS
<1>2. \A k \in Int : /\ Row(<<p, p>>, <<x, y>>, k, d) /\ Row(<<p, m>>, <<x, y>>, k, d)
                     /\ Row(<<m, p>>, <<x, y>>, k, d) /\ Row(<<m, m>>, <<x, y>>, k, d)
    BY PairIs
<1>3. ASSUME NEW s, Fits(s, d)
      PROVE  /\ s[x] \in Int /\ s[y] \in Int
             /\ SumOf(<<p, p>>, <<x, y>>, s) = s[x] + s[y]
             /\ SumOf(<<p, m>>, <<x, y>>, s) = s[x] - s[y]
             /\ SumOf(<<m, p>>, <<x, y>>, s) = s[y] - s[x]
             /\ SumOf(<<m, m>>, <<x, y>>, s) = -s[x] - s[y]
    <2>1. /\ s[x] \in Int /\ s[y] \in Int
          /\ SumOf(<<p, p>>, <<x, y>>, s) = p * s[x] + p * s[y]
          /\ SumOf(<<p, m>>, <<x, y>>, s) = p * s[x] + m * s[y]
          /\ SumOf(<<m, p>>, <<x, y>>, s) = m * s[x] + p * s[y]
          /\ SumOf(<<m, m>>, <<x, y>>, s) = m * s[x] + m * s[y]
        BY <1>3, PairIs
    <2> QED BY <1>1, <2>1
<1> QED BY <1>1, <1>2, <1>3

LEMMA UnitIs ==
    ASSUME NEW d, Domains(d), NEW x, x \in Columns(d)
    PROVE  /\ \A k \in Int : Row(<<1>>, <<x>>, k, d) /\ Row(<<-1>>, <<x>>, k, d)
           /\ \A s : Fits(s, d) =>
                s[x] \in Int /\ SumOf(<<1>>, <<x>>, s) = s[x] /\ SumOf(<<-1>>, <<x>>, s) = -s[x]
<1>1. \A k \in Int : Row(<<1>>, <<x>>, k, d) /\ Row(<<-1>>, <<x>>, k, d)
    BY DEF Row
<1>2. PICK p \in Int, m \in Int : p = 1 /\ m = -1
    OBVIOUS
<1>3. ASSUME NEW s, Fits(s, d)
      PROVE  s[x] \in Int /\ SumOf(<<p>>, <<x>>, s) = s[x] /\ SumOf(<<m>>, <<x>>, s) = -s[x]
    <2>1. s[x] \in Int /\ x \in Nat
        BY <1>3, FitsColumns
    <2>2. SumOf(<<p>>, <<x>>, s) = p * s[x] /\ SumOf(<<m>>, <<x>>, s) = m * s[x]
        BY <2>1, SumOne
    <2> QED BY <1>2, <2>1, <2>2
<1> QED BY <1>1, <1>2, <1>3

LEMMA TripleIs ==
    ASSUME NEW d, Domains(d), NEW w, w \in Int,
           NEW x, x \in Columns(d), NEW y, y \in Columns(d), NEW z, z \in Columns(d)
    PROVE  /\ \A k \in Int : Row(<<1, 1, w>>, <<x, y, z>>, k, d)
           /\ \A s : Fits(s, d) =>
                /\ s[x] \in Int /\ s[y] \in Int /\ s[z] \in Int
                /\ SumOf(<<1, 1, w>>, <<x, y, z>>, s) = s[x] + s[y] + w * s[z]
<1>1. \A k \in Int : Row(<<1, 1, w>>, <<x, y, z>>, k, d)
    BY DEF Row
<1>2. ASSUME NEW s, Fits(s, d)
      PROVE  /\ s[x] \in Int /\ s[y] \in Int /\ s[z] \in Int
             /\ SumOf(<<1, 1, w>>, <<x, y, z>>, s) = s[x] + s[y] + w * s[z]
    <2>1. s[x] \in Int /\ s[y] \in Int /\ s[z] \in Int /\ x \in Nat /\ y \in Nat /\ z \in Nat
        BY <1>2, FitsColumns
    <2>2. PICK u \in Int : u = 1
        OBVIOUS
    <2>3. SumOf(<<u, u, w>>, <<x, y, z>>, s) = u * s[x] + u * s[y] + w * s[z]
        BY <2>1, SumThree
    <2>4. u * s[x] = s[x] /\ u * s[y] = s[y]
        BY <2>1, <2>2
    <2> QED BY <2>1, <2>2, <2>3, <2>4
<1> QED BY <1>1, <1>2

\* The bits of the encodings.
LEMMA SelectedIs ==
    ASSUME Working, NEW x, x \in DOMAIN select, NEW v, v \in Int
    PROVE  /\ mip_select_at(x, v) \in Booleans(dom) /\ mip_select_at(x, v) \in Columns(dom)
           /\ x \in Columns(dom)
           /\ \A s : Fits(s, dom) /\ EncodedAt(s) =>
                s[mip_select_at(x, v)] \in {0, 1} /\ (s[mip_select_at(x, v)] = 1 <=> s[x] = v)
<1>1. 1 \in 1 .. Len(dom) /\ dom[1] \subseteq 0 .. 1 /\ Domains(dom)
    BY DomainsAre DEF Working, Typed, Bigger
<1>2. mip_select_at(x, v) \in Booleans(dom) /\ x \in Columns(dom)
    BY <1>1 DEF mip_select_at, Working, Selects, False, Booleans, Columns
<1> QED BY <1>2, BitIs, BooleanIs DEF EncodedAt

LEMMA TwoValuedIs ==
    ASSUME Working, NEW d, Domains(d), NEW x, x \in Columns(dom), x \in Columns(d), NEW b, b \in Columns(d)
    PROVE  /\ Plain(mip_two_valued(x, b), d) /\ Plain(mip_two_valued_not(x, b), d)
           /\ \A s : Fits(s, d) /\ s[b] \in {0, 1} =>
                /\ Holds(mip_two_valued(x, b), s) <=> s[x] = IF s[b] = 1 THEN ub(x) ELSE lb(x)
                /\ Holds(mip_two_valued_not(x, b), s) <=> s[x] = IF s[b] = 1 THEN lb(x) ELSE ub(x)
<1>1. PICK l \in Int, h \in Int : l = lb(x) /\ h = ub(x)
    BY ColumnIs
<1>2. PICK p, m \in Int, n \in Int : p = 1 /\ m = -(h - l) /\ n = h - l
    OBVIOUS
<1>3. p \in Int
    BY <1>2
<1> DEFINE one == Eq(<<1, -1>>, <<b, x>>, 0)
           gap == Eq(<<p, m>>, <<x, b>>, l)
           not == Eq(<<p, n>>, <<x, b>>, h)
<1>4. /\ mip_two_valued(x, b) = IF l = 0 /\ h = 1 THEN one ELSE gap
      /\ mip_two_valued_not(x, b) = not
    BY <1>1, <1>2 DEF mip_two_valued, mip_two_valued_not
<1>5. Plain(one, d) /\ Plain(gap, d) /\ Plain(not, d)
    <2>1. Row(<<1, -1>>, <<b, x>>, 0, d)
        BY UnitsAre
    <2>2. Row(<<p, m>>, <<x, b>>, l, d) /\ Row(<<p, n>>, <<x, b>>, h, d)
        BY <1>3, PairIs
    <2> QED BY <2>1, <2>2, MadeEq DEF Plain
<1>6. ASSUME NEW s, Fits(s, d), s[b] \in {0, 1}
      PROVE  /\ l = 0 /\ h = 1 => (Holds(one, s) <=> s[x] = IF s[b] = 1 THEN h ELSE l)
             /\ Holds(gap, s) <=> s[x] = IF s[b] = 1 THEN h ELSE l
             /\ Holds(not, s) <=> s[x] = IF s[b] = 1 THEN l ELSE h
    <2>1. /\ s[x] \in Int
          /\ Holds(one, s) <=> s[b] - s[x] = 0
        BY <1>6, UnitsAre, EqHolds
    <2>2. /\ Holds(gap, s) <=> p * s[x] + m * s[b] = l
          /\ Holds(not, s) <=> p * s[x] + n * s[b] = h
        BY <1>3, <1>6, PairIs, EqHolds
    <2>3. PICK v \in Int, w \in {0, 1} : v = s[x] /\ w = s[b]
        BY <1>6, <2>1
    <2>4. p * v = v /\ m * w = (IF w = 1 THEN l - h ELSE 0) /\ n * w = IF w = 1 THEN h - l ELSE 0
        BY <1>2, <2>3
    <2>5. CASE w = 0
        BY <2>1, <2>2, <2>3, <2>4, <2>5
    <2>6. CASE w = 1
        <3>1. p * v = v /\ m * w = l - h /\ n * w = h - l
            BY <2>4, <2>6
        <3>2. Holds(gap, s) <=> v = h
            <4>1. Holds(gap, s) <=> v + (l - h) = l
                BY <2>2, <2>3, <3>1
            <4>2. v + (l - h) = l <=> v = h
                OBVIOUS
            <4> QED BY <4>1, <4>2
        <3>3. Holds(not, s) <=> v = l
            BY <2>2, <2>3, <3>1
        <3>4. Holds(one, s) <=> v = 1
            BY <2>1, <2>3, <2>6
        <3> QED BY <2>3, <2>6, <3>2, <3>3, <3>4
    <2> QED BY <2>5, <2>6
<1> HIDE DEF one, gap, not
<1>7. Plain(mip_two_valued(x, b), d) /\ Plain(mip_two_valued_not(x, b), d)
    BY <1>4, <1>5
<1>8. ASSUME NEW s, Fits(s, d), s[b] \in {0, 1}
      PROVE  /\ Holds(mip_two_valued(x, b), s) <=> s[x] = IF s[b] = 1 THEN ub(x) ELSE lb(x)
             /\ Holds(mip_two_valued_not(x, b), s) <=> s[x] = IF s[b] = 1 THEN lb(x) ELSE ub(x)
    BY <1>1, <1>4, <1>6, <1>8
<1> QED BY <1>7, <1>8

LEMMA ReifiedHead ==
    ASSUME Working, Proper(Call, dom), Call.c \in Reifieds
    PROVE  /\ Heads /\ Row(Call.co, Call.xs, Call.k, dom) /\ Call.b \in Booleans(dom)
           /\ Call.b \in Columns(dom) /\ Call.b # 0 /\ Call.k \in Int
           /\ \A l \in Int : Row(Neg(Call.co), Call.xs, l, dom)
           /\ \A s : At1(s) =>
                /\ SumOf(Call.co, Call.xs, s) \in Int /\ Fits(s, dom)
                /\ SumOf(Neg(Call.co), Call.xs, s) = -SumOf(Call.co, Call.xs, s)
                /\ s[Call.b] \in {0, 1} /\ (is_fixed(Call.b) => s[Call.b] = fix(Call.b))
<1>1. Heads
    BY DEF Heads, Flat, Reifieds
<1>2. Row(Call.co, Call.xs, Call.k, dom) /\ Call.b \in Booleans(dom) /\ Call.k \in Int
    BY RowOfCall DEF Row
<1>3. \A l \in Int : Row(Neg(Call.co), Call.xs, l, dom)
    BY <1>2, RowNegated
<1>4. Call.b \in Columns(dom) /\ Call.b # 0
    BY <1>2, BooleanIs
<1>5. \A s : At1(s) =>
        /\ SumOf(Call.co, Call.xs, s) \in Int /\ Fits(s, dom)
        /\ SumOf(Neg(Call.co), Call.xs, s) = -SumOf(Call.co, Call.xs, s)
        /\ s[Call.b] \in {0, 1} /\ (is_fixed(Call.b) => s[Call.b] = fix(Call.b))
    BY <1>2, NegatedSum, BitIs DEF At1
<1> QED BY <1>1, <1>2, <1>3, <1>4, <1>5

-----------------------------------------------------------------------------
(***************************************************************************)
(* Reified equations.                                                      *)
(***************************************************************************)
LEMMA OldSum ==
    ASSUME NEW d, NEW co, NEW xs, NEW k, Row(co, xs, k, d), NEW s, NEW t, Alike(s, t, 1 .. Len(d))
    PROVE  SumOf(co, xs, s) = SumOf(co, xs, t)
<1>1. \A i \in 1 .. Len(xs) : s[xs[i]] = t[xs[i]]
    <2>1. xs \in Seq(Columns(d))
        BY DEF Row
    <2>2. PICK C : C = Columns(d)
        OBVIOUS
    <2>3. \A i \in 1 .. Len(xs) : xs[i] \in C
        BY <2>1, <2>2
    <2>4. \A x \in C : s[x] = t[x]
        BY <2>2 DEF Alike, Columns
    <2> QED BY <2>3, <2>4
<1> QED BY <1>1, SumAlike

LEMMA GrownSum ==
    ASSUME NEW d, NEW e, Domains(d), Domains(e), Bigger(d, e), NEW co, NEW xs, NEW k, Row(co, xs, k, d)
    PROVE  \A t : Fits(t, e) => /\ SumOf(co, xs, t) \in Int
                                /\ SumOf(Neg(co), xs, t) = -SumOf(co, xs, t)
<1>1. Row(co, xs, k, e)
    BY RowGrows
<1> QED BY <1>1, SummableIn, SumNegated

LEMMA MeetsThree ==
    ASSUME NEW p, NEW q, NEW r, NEW s
    PROVE  Meets(s, Range(<<p, q, r>>)) <=> Holds(p, s) /\ Holds(q, s) /\ Holds(r, s)
BY ThreeCalls DEF Meets

\* The sum is at most k, and at least; 1 + b of the two hold, or 2 - b.
LEMMA BothReifiedReplaced ==
    ASSUME Working, Proper(Call, dom), Call.c \in {"eq_reif", "ne_reif"}, NEW cb, NEW l,
           BothReified(Call, cb, l),
           (Call.c = "eq_reif" /\ cb = -1 /\ l = 1) \/ (Call.c = "ne_reif" /\ cb = 1 /\ l = 2)
    PROVE  Replaced
<1>1. PICK c, d, e, x, y : c = Call /\ d = dom /\ e = dom' /\ x = New + 1 /\ y = New + 2
    OBVIOUS
<1>2. /\ Heads /\ Row(c.co, c.xs, c.k, d) /\ c.b \in Booleans(d) /\ c.b \in Columns(d) /\ c.k \in Int
      /\ \A s : At1(s) => SumOf(c.co, c.xs, s) \in Int /\ Fits(s, d) /\ s[c.b] \in {0, 1}
      /\ \A k \in Int : Row(Neg(c.co), c.xs, k, d)
      /\ Domains(d)
    BY <1>1, ReifiedHead DEF Reifieds, Working, Typed
<1>3. /\ Domains(e) /\ Longer(d, e) /\ Bigger(d, e) /\ Len(e) = Len(d) + 2 /\ Len(d) \in Nat
      /\ e[x] = 0 .. 1 /\ e[y] = 0 .. 1 /\ x \in Booleans(e) /\ y \in Booleans(e)
      /\ x = Len(d) + 1 /\ y = Len(d) + 2
      /\ Extension(d, e, 2)
    <2>1. PICK n \in Nat : n = 2
        OBVIOUS
    <2>2. e = d \o AllBits(n)
        BY <1>1, <2>1 DEF BothReified, IntoNew, AllBits
    <2>3. 1 \in 1 .. n /\ 2 \in 1 .. n
        BY <2>1
    <2>4. /\ Domains(e) /\ Longer(d, e) /\ Bigger(d, e) /\ Len(e) = Len(d) + n /\ Len(d) \in Nat
          /\ Extension(d, e, n) /\ BitsFrom(d, e, n)
        BY <1>2, <2>2, NewBits
    <2> QED BY <1>1, <2>1, <2>3, <2>4 DEF New, BitsFrom
<1> DEFINE p == LeReif(c.co, c.xs, c.k, x)
           q == LeReif(Neg(c.co), c.xs, -c.k, y)
           r == Eq(<<1, 1, cb>>, <<x, y, c.b>>, l)
<1>4. /\ x \in Columns(e) /\ y \in Columns(e) /\ c.b \in Columns(e) /\ c.b \in Booleans(e)
      /\ Row(c.co, c.xs, c.k, e) /\ Row(Neg(c.co), c.xs, -c.k, e)
    <2>1. x \in Columns(e) /\ y \in Columns(e) /\ c.b \in Columns(e) /\ c.b \in Booleans(e)
        <3>1. Columns(d) \subseteq Columns(e) /\ Booleans(d) \subseteq Booleans(e)
            BY <1>2, <1>3, ColumnsGrow
        <3> QED BY <1>2, <1>3, <3>1 DEF Booleans
    <2>2. PICK k \in Int : k = -c.k
        BY <1>2
    <2>3. Row(Neg(c.co), c.xs, k, d)
        BY <1>2
    <2>4. Row(c.co, c.xs, c.k, e) /\ Row(Neg(c.co), c.xs, k, e)
        BY <1>2, <1>3, <2>3, RowGrows
    <2> QED BY <2>1, <2>2, <2>4
<1>5. cb \in Int /\ l \in Int
    OBVIOUS
<1>6. Plain(p, e) /\ Plain(q, e) /\ Plain(r, e)
    <2>1. Row(<<1, 1, cb>>, <<x, y, c.b>>, l, e)
        BY <1>3, <1>4, <1>5, TripleIs
    <2>2. Plain(r, e)
        BY <2>1, MadeEq DEF Plain
    <2>3. Plain(p, e)
        BY <1>3, <1>4, MadeImps DEF Plain
    <2>4. PICK k : k = -c.k
        OBVIOUS
    <2>5. Plain(LeReif(Neg(c.co), c.xs, k, y), e)
        BY <1>3, <1>4, <2>4, MadeImps DEF Plain
    <2> QED BY <2>2, <2>3, <2>4, <2>5
<1>7. ASSUME NEW t, Fits(t, e)
      PROVE  /\ Holds(p, t) <=> (t[x] = 1 <=> SumOf(c.co, c.xs, t) <= c.k)
             /\ Holds(q, t) <=> (t[y] = 1 <=> -SumOf(c.co, c.xs, t) <= -c.k)
             /\ Holds(r, t) <=> t[x] + t[y] + cb * t[c.b] = l
             /\ SumOf(c.co, c.xs, t) \in Int /\ t[x] \in {0, 1} /\ t[y] \in {0, 1} /\ t[c.b] \in {0, 1}
    <2>2. SumOf(<<1, 1, cb>>, <<x, y, c.b>>, t) = t[x] + t[y] + cb * t[c.b]
        BY <1>3, <1>4, <1>5, <1>7, TripleIs
    <2>3. t[x] \in {0, 1} /\ t[y] \in {0, 1} /\ t[c.b] \in {0, 1}
        BY <1>3, <1>4, <1>7, FitsColumns
    <2>4. /\ SumOf(c.co, c.xs, t) \in Int
          /\ SumOf(Neg(c.co), c.xs, t) = -SumOf(c.co, c.xs, t)
        BY <1>2, <1>3, <1>7, GrownSum
    <2>7. Holds(r, t) <=> t[x] + t[y] + cb * t[c.b] = l
        BY <2>2, EqHolds
    <2> HIDE DEF r
    <2> QED BY <2>3, <2>4, <2>7, LeReifHolds
<1>8. \A t : Holds(c, t) <=> IF c.c = "eq_reif" THEN (t[c.b] = 1 <=> SumOf(c.co, c.xs, t) = c.k)
                             ELSE (t[c.b] = 1 <=> SumOf(c.co, c.xs, t) # c.k)
    BY <1>1, HoldsReified
<1> DEFINE calls == <<p, q, r>>
<1>9. todo' = calls \o Tail(todo) /\ UNCHANGED <<model, out, shared>>
    BY <1>1 DEF BothReified, IntoNew
<1> HIDE DEF p, q, r
<1>10. calls \in Seq(Range(calls)) /\ \A k \in Range(calls) : Plain(k, e)
    BY <1>6, ThreeCalls
<1>11. \A t : Meets(t, Range(calls)) <=> Holds(p, t) /\ Holds(q, t) /\ Holds(r, t)
    BY MeetsThree
<1> HIDE DEF calls
<1>12. ASSUME NEW t, Fits(t, e), Meets(t, Range(calls)) PROVE Holds(c, t)
    <2>1. PICK v \in Int, a \in {0, 1}, b \in {0, 1}, w \in {0, 1} :
            v = SumOf(c.co, c.xs, t) /\ a = t[x] /\ b = t[y] /\ w = t[c.b]
        BY <1>7, <1>12
    <2>2. (a = 1 <=> v <= c.k) /\ (b = 1 <=> -v <= -c.k) /\ a + b + cb * w = l
        BY <1>7, <1>11, <1>12, <2>1
    <2>3. cb * w = IF w = 0 THEN 0 ELSE cb
        BY <1>5
    <2>4. c.c = "eq_reif" => (w = 1 <=> v = c.k)
        BY <1>1, <1>2, <2>2, <2>3
    <2>5. c.c # "eq_reif" => (w = 1 <=> v # c.k)
        BY <1>1, <1>2, <2>2, <2>3
    <2> QED BY <1>8, <2>1, <2>4, <2>5
<1>13. ASSUME NEW s, Fits(s, d), At1(s), Holds(c, s)
       PROVE  \E t : Fits(t, e) /\ Alike(s, t, 1 .. Len(d)) /\ Meets(t, Range(calls))
    <2>1. PICK v \in Int, w \in {0, 1} : v = SumOf(c.co, c.xs, s) /\ w = s[c.b]
        BY <1>2, <1>13
    <2> DEFINE a == IF v <= c.k THEN 1 ELSE 0
               b == IF v >= c.k THEN 1 ELSE 0
               f == <<a, b>>
    <2>2. \A i \in 1 .. 2 : f[i] \in e[Len(d) + i]
        BY <1>3
    <2>3. PICK t : Fits(t, e) /\ Alike(s, t, 1 .. Len(d)) /\ \A i \in 1 .. 2 : t[Len(d) + i] = f[i]
        <3>1. PICK n : n = 2
            OBVIOUS
        <3> HIDE DEF f
        <3>2. Extension(d, e, n) /\ Suits(f, d, e, n)
            BY <1>3, <2>2, <3>1 DEF Suits
        <3> QED BY <1>13, <3>1, <3>2, Extended
    <2>4. t[x] = a /\ t[y] = b
        BY <1>3, <2>3
    <2>5. SumOf(c.co, c.xs, t) = v /\ t[c.b] = w
        <3>1. SumOf(c.co, c.xs, s) = SumOf(c.co, c.xs, t)
            BY <1>2, <2>3, OldSum
        <3> QED BY <1>2, <2>1, <2>3, <3>1 DEF Alike, Columns
    <2>6. (a = 1 <=> v <= c.k) /\ (b = 1 <=> -v <= -c.k)
        BY <1>2
    <2>7. a + b + cb * w = l
        <3>1. cb * w = IF w = 0 THEN 0 ELSE cb
            BY <1>5
        <3>2. a + b = IF v = c.k THEN 2 ELSE 1
            BY <1>2
        <3>3. c.c = "eq_reif" => (w = 1 <=> v = c.k)
            BY <1>8, <1>13, <2>1
        <3>4. c.c = "ne_reif" => (w = 1 <=> v # c.k)
            BY <1>8, <1>13, <2>1
        <3> QED BY <1>1, <3>1, <3>2, <3>3, <3>4
    <2> HIDE DEF a, b, f
    <2> QED BY <1>7, <1>11, <2>3, <2>4, <2>5, <2>6, <2>7
<1>14. Sound(calls, dom')
    BY <1>1, <1>12 DEF Sound
<1>15. Complete(calls, dom')
    BY <1>1, <1>13 DEF Complete, At1
<1> QED BY <1>1, <1>2, <1>3, <1>9, <1>10, <1>14, <1>15, NewReplaced

-----------------------------------------------------------------------------
LEMMA FinitePair ==
    ASSUME NEW v, NEW w, v \in Int, w \in Int
    PROVE  Finite({v, w})
<1>1. {v, w} = ({} \cup {v}) \cup {w}
    OBVIOUS
<1>2. IsFiniteSet({v, w})
    <2>1. PICK S : S = {} \cup {v}
        OBVIOUS
    <2>2. IsFiniteSet(S)
        BY <2>1, FS_EmptySet, FS_AddElement
    <2>3. IsFiniteSet(S \cup {w})
        BY <2>2, FS_AddElement
    <2> QED BY <1>1, <2>1, <2>3
<1> QED BY <1>2 DEF Finite

LEMMA TwoFirst ==
    ASSUME Typed, todo # <<>>, Call.c \notin Flat, Call.c \notin {"element", "two", "times"},
           NEW x, x \in Columns(dom), First(Two(x)), AtEnds(Two(x))
    PROVE  Replaced
<1>1. PICK calls : calls = <<Two(x), Call>>
    OBVIOUS
<1>2. Proper(Two(x), dom) /\ Two(x).c = "two" /\ Two(x).x = x
    BY MadeEncoding
<1>3. Expands(calls, dom)
    BY <1>1, <1>2, FirstExpands DEF Flat
<1>4. Rewritten(calls) /\ dom' = dom /\ UNCHANGED shared
    BY <1>1, FirstIs
<1>5. NewTwos(calls)
    BY <1>1, <1>2, TwoCalls DEF NewTwos
<1> QED BY <1>3, <1>4, <1>5 DEF Replaced

\* A column of two values is at one of its bounds.
LEMMA BinaryIs ==
    ASSUME Working, NEW x, x \in Columns(dom), card(x) = 2
    PROVE  /\ dom[x] = {lb(x), ub(x)} /\ lb(x) < ub(x) /\ AtEnds(Two(x))
           /\ \A s : Fits(s, dom) => s[x] \in {lb(x), ub(x)}
<1>1. dom[x] = {lb(x), ub(x)} /\ lb(x) < ub(x)
    BY ColumnIs, TwoValues DEF card, lb, ub
<1>2. \A s : Fits(s, dom) => s[x] \in {lb(x), ub(x)}
    BY <1>1, ValueIs
<1> QED BY <1>1, <1>2, MadeEncoding DEF AtEnds

LEMMA TwoIs ==
    ASSUME Working, NEW x, x \in DOMAIN two, card(x) = 2
    PROVE  /\ two[x] \in Booleans(dom) /\ x \in Columns(dom)
           /\ \A s : Fits(s, dom) /\ EncodedAt(s) =>
                s[two[x]] \in {0, 1} /\ (s[two[x]] = 1 <=> s[x] = ub(x))
<1>1. two[x] \in Booleans(dom) /\ x \in Columns(dom)
    BY DEF Working, Selects
<1>2. ASSUME NEW s, Fits(s, dom), EncodedAt(s) PROVE s[two[x]] = 1 <=> s[x] = ub(x)
    <2>1. PICK lo \in Int, hi \in Int : /\ lo < hi /\ dom[x] \subseteq lo .. hi
                                        /\ s[x] = IF s[two[x]] = 1 THEN hi ELSE lo
        BY <1>2 DEF EncodedAt
    <2>2. /\ lb(x) \in dom[x] /\ ub(x) \in dom[x] /\ lb(x) \in Int /\ ub(x) \in Int
          /\ lb(x) < ub(x) /\ s[x] \in {lb(x), ub(x)}
        BY <1>1, <1>2, BinaryIs, ColumnIs
    <2>3. lo <= lb(x) /\ ub(x) <= hi
        BY <2>1, <2>2
    <2> QED BY <2>1, <2>2, <2>3
<1> QED BY <1>1, <1>2, BitIs

\* fzn_int_lin_eq_reif with the Boolean fixed, or of columns that share no value.
LEMMA IntLinEqReifDecidedReplaced ==
    ASSUME Formed, IntLinEqReifDecided
    PROVE  Replaced
<1> DEFINE c == Call
<1>1. Working /\ c.c = "eq_reif" /\ Proper(c, dom)
    BY WorkingIs DEF IntLinEqReifDecided
<1>2. /\ Heads /\ Row(c.co, c.xs, c.k, dom) /\ c.b \in Columns(dom)
      /\ \A s : At1(s) => /\ SumOf(c.co, c.xs, s) \in Int /\ Fits(s, dom)
                          /\ s[c.b] \in {0, 1} /\ (is_fixed(c.b) => s[c.b] = fix(c.b))
    BY <1>1, ReifiedHead DEF Reifieds
<1>3. \A s : Holds(c, s) <=> (s[c.b] = 1 <=> SumOf(c.co, c.xs, s) = c.k)
    BY <1>1, HoldsReified
<1>4. CASE is_fixed(c.b)
    <2>1. PICK kind \in {"int_lin_eq", "ne"} : kind = IF fix(c.b) = 1 THEN "int_lin_eq" ELSE "ne"
        OBVIOUS
    <2> DEFINE p == Lin(kind, c.co, c.xs, c.k)
    <2>2. Plain(p, dom)
        BY <1>2, MadeLin DEF Plain, Linears
    <2>3. Into(<<p>>)
        BY <1>4, <2>1 DEF IntLinEqReifDecided
    <2>4. ASSUME NEW s, At1(s) PROVE Holds(Call, s) <=> Holds(p, s)
        BY <1>2, <1>3, <1>4, <2>1, <2>4, EqHolds, NeHolds DEF Eq
    <2> HIDE DEF p, c
    <2> QED BY <1>2, <2>2, <2>3, <2>4, IntoOne
<1>5. CASE ~is_fixed(c.b) /\ mip_eq_reif_disjoint(c.co, c.xs, c.k) /\ Into(<<Not(c.b)>>)
    <2>1. Plain(Not(c.b), dom)
        BY <1>2, MadeTrue DEF Plain
    <2>2. ASSUME NEW s, At1(s) PROVE Holds(Call, s) <=> Holds(Not(c.b), s)
        <3>1. PICK i, j : i = Min(mip_free_terms(c.xs)) /\ j = Max(mip_free_terms(c.xs))
            OBVIOUS
        <3>2. PICK shift : shift = c.co[i] * (c.k - mip_fixed_sum(c.co, c.xs))
            OBVIOUS
        <3>3. IsDifference(c.co, c.xs) /\ dom[c.xs[i]] \cap {v + shift : v \in dom[c.xs[j]]} = {}
            BY <1>5, <3>1, <3>2 DEF mip_eq_reif_disjoint
        <3>4. /\ c.xs[i] \in Columns(dom) /\ c.xs[j] \in Columns(dom)
              /\ SumOf(c.co, c.xs, s) = c.k <=> s[c.xs[i]] = s[c.xs[j]] + shift
            BY <1>1, <1>2, <2>2, <3>1, <3>2, <3>3, DifferenceIs
        <3>5. s[c.xs[i]] \in dom[c.xs[i]] /\ s[c.xs[j]] \in dom[c.xs[j]]
            BY <1>1, <1>2, <2>2, <3>4, ValueIs
        <3>6. SumOf(c.co, c.xs, s) # c.k
            BY <3>3, <3>4, <3>5
        <3> QED BY <1>2, <1>3, <2>2, <3>6, NotHolds
    <2> HIDE DEF c
    <2> QED BY <1>2, <1>5, <2>1, <2>2, IntoOne
<1> QED BY <1>4, <1>5 DEF IntLinEqReifDecided

\* Two columns of the same two values are equal when their bits are.
LEMMA XorIs ==
    ASSUME NEW p, NEW q, NEW b, NEW y, NEW s, s[p] \in {0, 1}, s[q] \in {0, 1}, s[b] \in {0, 1}
    PROVE  Holds(Nary("xor", <<p, q, b>>, y), s) <=> (s[b] = 1 <=> s[p] = s[q])
<1> DEFINE f == [i \in 1 .. 3 |-> s[<<p, q, b>>[i]]]
<1>1. Numbers(f) /\ Len(f) = 3 /\ f[1] = s[p] /\ f[2] = s[q] /\ f[3] = s[b]
    BY DEF Numbers
<1>2. Holds(Nary("xor", <<p, q, b>>, y), s) <=> Total(f) % 2 = 1
    BY XorHolds
<1> HIDE DEF f
<1>3. Total(f) = f[1] + f[2] + f[3]
    BY <1>1, TotalThree
<1>4. PICK u \in {0, 1}, v \in {0, 1}, w \in {0, 1} : u = s[p] /\ v = s[q] /\ w = s[b]
    OBVIOUS
<1>5. (u + v + w) % 2 = 1 <=> (w = 1 <=> u = v)
    OBVIOUS
<1> QED BY <1>1, <1>2, <1>3, <1>4, <1>5

\* Two free columns of the same two values: the equation is between their bits.
LEMMA TwoValuedReplaced ==
    ASSUME Formed, mip_int_eq_reif_two_valued
    PROVE  Replaced
<1> DEFINE c == Call
<1>1. Working /\ c.c = "eq_reif" /\ Proper(c, dom) /\ Typed /\ todo # <<>>
    BY WorkingIs DEF mip_int_eq_reif_two_valued, Working
<1>2. /\ Heads /\ Row(c.co, c.xs, c.k, dom) /\ c.b \in Columns(dom) /\ c.b \in Booleans(dom)
      /\ \A s : At1(s) => SumOf(c.co, c.xs, s) \in Int /\ Fits(s, dom) /\ s[c.b] \in {0, 1}
    BY <1>1, ReifiedHead DEF Reifieds
<1>3. \A s : Holds(c, s) <=> (s[c.b] = 1 <=> SumOf(c.co, c.xs, s) = c.k)
    BY <1>1, HoldsReified
<1>4. PICK i, j : i = Min(mip_free_terms(c.xs)) /\ j = Max(mip_free_terms(c.xs))
    OBVIOUS
<1>5. /\ i \in mip_free_terms(c.xs) /\ j \in mip_free_terms(c.xs)
      /\ mip_free_terms(c.xs) = {i, j}
      /\ c.xs[i] \in Columns(dom) /\ c.xs[j] \in Columns(dom)
      /\ \A s : Fits(s, dom) => (SumOf(c.co, c.xs, s) = c.k <=> s[c.xs[i]] = s[c.xs[j]])
    <2>1. IsDifference(c.co, c.xs) /\ c.k = mip_fixed_sum(c.co, c.xs)
        BY DEF mip_int_eq_reif_two_valued, mip_eq_reif_two_valued
    <2>2. PICK f, shift : f = mip_fixed_sum(c.co, c.xs) /\ shift = c.co[i] * (c.k - f)
        OBVIOUS
    <2>3. /\ mip_free_terms(c.xs) = {i, j} /\ f \in Int /\ i \in 1 .. Len(c.xs)
          /\ c.xs[i] \in Columns(dom) /\ c.xs[j] \in Columns(dom)
          /\ \A s : Fits(s, dom) => (SumOf(c.co, c.xs, s) = c.k <=> s[c.xs[i]] = s[c.xs[j]] + shift)
        BY <1>1, <1>2, <1>4, <2>1, <2>2, DifferenceIs
    <2>4. shift = 0
        <3>1. c.co[i] \in Int
            BY <1>1, <1>2, <2>3, RowTerm
        <3> QED BY <2>1, <2>2, <2>3, <3>1
    <2>5. \A s : Fits(s, dom) => s[c.xs[j]] + shift = s[c.xs[j]]
        BY <1>1, <2>3, <2>4, ValueIs
    <2> QED BY <2>3, <2>5
<1> DEFINE ys == {c.xs[m] : m \in mip_free_terms(c.xs)}
<1>6. /\ \A y \in ys : y \in Columns(dom) /\ card(y) = 2
      /\ \A y, z \in ys : dom[y] = dom[z]
    BY <1>5 DEF mip_int_eq_reif_two_valued, mip_eq_reif_two_valued
<1>7. CASE \E x \in ys : First(Two(x))
    BY <1>1, <1>2, <1>6, <1>7, TwoFirst, BinaryIs DEF Heads, Flat
<1>8. CASE ys \subseteq DOMAIN two /\ Into(<<Nary("xor", <<two[Min(ys)], two[Max(ys)], c.b>>, False)>>)
    <2>1. PICK p, q : p = Min(ys) /\ q = Max(ys)
        OBVIOUS
    <2>2. /\ p \in ys /\ q \in ys /\ (p = q => ys = {p})
        <3>1. ys = {c.xs[i], c.xs[j]}
            BY <1>5
        <3>2. Finite(ys) /\ ys # {}
            <4>1. c.xs[i] \in Int /\ c.xs[j] \in Int
                BY <1>1, <1>5, ColumnIs
            <4> QED BY <3>1, <4>1, FinitePair
        <3>3. p \in ys /\ q \in ys /\ \A y \in ys : y \in Int /\ p <= y /\ y <= q
            BY <2>1, <3>2, EndsAre
        <3>4. p = q => \A y \in ys : y = p
            BY <3>3
        <3> HIDE DEF ys
        <3> QED BY <3>3, <3>4
    <2>3. PICK xs : xs = <<two[p], two[q], c.b>>
        OBVIOUS
    <2> DEFINE x == Nary("xor", xs, False)
    <2>4. Into(<<x>>)
        BY <1>8, <2>1, <2>3
    <2>5. two[p] \in Booleans(dom) /\ two[q] \in Booleans(dom)
        BY <1>1, <1>6, <1>8, <2>2, TwoIs
    <2>6. Plain(x, dom)
        <3>1. xs \in Seq(Booleans(dom)) /\ xs \in Seq(Columns(dom))
            BY <1>2, <2>3, <2>5 DEF Booleans
        <3>2. False \in Columns(dom)
            BY <1>1, WorkingIs, DomainsAre DEF Working, Typed, Bigger, Columns, False
        <3> QED BY <3>1, <3>2, MadeNary DEF Plain
    <2>7. ASSUME NEW s, At1(s) PROVE Holds(Call, s) <=> Holds(x, s)
        <3>1. /\ s[two[p]] \in {0, 1} /\ (s[two[p]] = 1 <=> s[p] = ub(p))
              /\ s[two[q]] \in {0, 1} /\ (s[two[q]] = 1 <=> s[q] = ub(q))
            BY <1>1, <1>6, <1>8, <2>2, <2>7, TwoIs DEF At1
        <3>2. ub(p) = ub(q) /\ lb(p) = lb(q)
            BY <1>6, <2>2 DEF ub, lb
        <3>3. s[p] \in {lb(p), ub(p)} /\ s[q] \in {lb(q), ub(q)} /\ lb(p) # ub(p)
            <4>1. lb(p) \in Int /\ lb(p) < ub(p) /\ ub(p) \in Int
                BY <1>1, <1>6, <2>2, BinaryIs, ColumnIs
            <4> QED BY <1>1, <1>6, <2>2, <2>7, <4>1, BinaryIs DEF At1
        <3>4. s[p] = s[q] <=> s[two[p]] = s[two[q]]
            BY <3>1, <3>2, <3>3
        <3>5. Holds(x, s) <=> (s[c.b] = 1 <=> s[two[p]] = s[two[q]])
            BY <1>2, <2>3, <2>7, <3>1, XorIs
        <3>6. s[c.xs[i]] = s[c.xs[j]] <=> s[p] = s[q]
            BY <1>5, <2>2
        <3>7. Holds(c, s) <=> (s[c.b] = 1 <=> s[c.xs[i]] = s[c.xs[j]])
            BY <1>2, <1>3, <1>5, <2>7
        <3> QED BY <3>4, <3>5, <3>6, <3>7
    <2> HIDE DEF x, c
    <2> QED BY <1>2, <2>4, <2>6, <2>7, IntoOne
<1> QED BY <1>7, <1>8 DEF mip_int_eq_reif_two_valued

-----------------------------------------------------------------------------
(***************************************************************************)
(* One free term, and disequalities.                                       *)
(***************************************************************************)
\* An assignment can be extended with any values of the new bits.
BitFree(d, e, x) ==
    \A s, a : Fits(s, d) /\ a \in {0, 1} => \E t : Fits(t, e) /\ Alike(s, t, 1 .. Len(d)) /\ t[x] = a

BitsFree(d, e, x, y) ==
    \A s, a, b : Fits(s, d) /\ a \in {0, 1} /\ b \in {0, 1} =>
        \E t : Fits(t, e) /\ Alike(s, t, 1 .. Len(d)) /\ t[x] = a /\ t[y] = b

LEMMA OneBit ==
    ASSUME NEW d, Domains(d), NEW n, n = 1, NEW e, e = d \o AllBits(n), NEW x, x = Len(d) + 1
    PROVE  /\ Domains(e) /\ Longer(d, e) /\ Bigger(d, e) /\ e[x] = 0 .. 1
           /\ x \in Booleans(e) /\ x \in Columns(e) /\ Len(d) \in Nat
           /\ BitFree(d, e, x)
<1>1. n \in Nat /\ 1 \in 1 .. n
    OBVIOUS
<1>2. /\ Domains(e) /\ Longer(d, e) /\ Bigger(d, e) /\ Len(d) \in Nat
      /\ Extension(d, e, n) /\ BitsFrom(d, e, n)
    BY <1>1, NewBits
<1>3. e[x] = 0 .. 1 /\ x \in Booleans(e) /\ x \in Columns(e)
    BY <1>1, <1>2 DEF BitsFrom, Booleans
<1>4. ASSUME NEW s, NEW a, Fits(s, d), a \in {0, 1}
      PROVE  \E t : Fits(t, e) /\ Alike(s, t, 1 .. Len(d)) /\ t[x] = a
    <2>1. PICK f : f = [i \in 1 .. n |-> a]
        OBVIOUS
    <2>2. Suits(f, d, e, n) /\ f[1] = a
        <3>1. f[1] = a /\ \A i \in 1 .. n : i = 1
            BY <1>1, <2>1
        <3>2. a \in 0 .. 1
            BY <1>4
        <3>3. f[1] \in e[Len(d) + 1]
            BY <1>3, <3>1, <3>2
        <3> QED BY <3>1, <3>3 DEF Suits
    <2>3. PICK t : Fits(t, e) /\ Alike(s, t, 1 .. Len(d)) /\ \A i \in 1 .. n : t[Len(d) + i] = f[i]
        BY <1>2, <1>4, <2>2, Extended
    <2> QED BY <1>1, <2>2, <2>3
<1>5. BitFree(d, e, x)
    BY <1>4 DEF BitFree
<1> QED BY <1>2, <1>3, <1>5

LEMMA TwoBits ==
    ASSUME NEW d, Domains(d), NEW n, n = 2, NEW e, e = d \o AllBits(n),
           NEW x, x = Len(d) + 1, NEW y, y = Len(d) + 2
    PROVE  /\ Domains(e) /\ Longer(d, e) /\ Bigger(d, e) /\ e[x] = 0 .. 1 /\ e[y] = 0 .. 1
           /\ x \in Booleans(e) /\ x \in Columns(e) /\ y \in Booleans(e) /\ y \in Columns(e)
           /\ Len(d) \in Nat
           /\ BitsFree(d, e, x, y)
<1> DEFINE Has(s, a, b) == \E t : Fits(t, e) /\ Alike(s, t, 1 .. Len(d)) /\ t[x] = a /\ t[y] = b
<1>1. n \in Nat /\ 1 \in 1 .. n /\ 2 \in 1 .. n
    OBVIOUS
<1>2. /\ Domains(e) /\ Longer(d, e) /\ Bigger(d, e) /\ Len(d) \in Nat
      /\ Extension(d, e, n) /\ BitsFrom(d, e, n)
    BY <1>1, NewBits
<1>3. /\ e[x] = 0 .. 1 /\ x \in Booleans(e) /\ x \in Columns(e)
      /\ e[y] = 0 .. 1 /\ y \in Booleans(e) /\ y \in Columns(e)
    BY <1>1, <1>2 DEF BitsFrom, Booleans
<1>4. ASSUME NEW s, NEW a, NEW b, Fits(s, d), a \in {0, 1}, b \in {0, 1}
      PROVE  Has(s, a, b)
    <2>1. PICK f : f = [i \in 1 .. n |-> IF i = 1 THEN a ELSE b]
        OBVIOUS
    <2>2. Suits(f, d, e, n) /\ f[1] = a /\ f[2] = b
        <3>1. f[1] = a /\ f[2] = b /\ \A i \in 1 .. n : i = 1 \/ i = 2
            BY <1>1, <2>1
        <3>2. a \in 0 .. 1 /\ b \in 0 .. 1
            BY <1>4
        <3>3. f[1] \in e[Len(d) + 1] /\ f[2] \in e[Len(d) + 2]
            BY <1>3, <3>1, <3>2
        <3> QED BY <3>1, <3>3 DEF Suits
    <2>3. PICK t : Fits(t, e) /\ Alike(s, t, 1 .. Len(d)) /\ \A i \in 1 .. n : t[Len(d) + i] = f[i]
        BY <1>2, <1>4, <2>2, Extended
    <2> QED BY <1>1, <2>2, <2>3
<1>5. \A s, a, b : Fits(s, d) /\ a \in {0, 1} /\ b \in {0, 1} => Has(s, a, b)
    <2> HIDE DEF Has
    <2> QED BY <1>4
<1>6. BitsFree(d, e, x, y)
    BY <1>5 DEF BitsFree
<1> QED BY <1>2, <1>3, <1>6

\* A rewriting to new bits, for a comparison that is reified.
LEMMA GrownReplaced ==
    ASSUME Heads, NEW calls, todo' = calls \o Tail(todo), UNCHANGED <<model, out, shared>>,
           Domains(dom'), Longer(dom, dom'), CallList(calls, dom'), InTurn(calls, dom'),
           \A c \in Range(calls) : c.c \notin {"two", "element", "element_live", "times"},
           Sound(calls, dom'), Complete(calls, dom')
    PROVE  Replaced
<1>1. NewTwos(calls) /\ Multiplied(calls, dom')
    BY NoneMultiplied DEF NewTwos
<1>2. Expands(calls, dom')
    BY <1>1 DEF Expands, Shaped, LooksUp, Heads
<1>3. Rewritten(calls) /\ UNCHANGED shared
    BY DEF Rewritten, Heads, Working
<1> QED BY <1>1, <1>2, <1>3 DEF Replaced

\* One free term: decided, told by a Boolean there is, posted, or an indicator.
LEMMA EqReifSingleReplaced ==
    ASSUME Formed, mip_int_eq_reif_single
    PROVE  Replaced
<1> DEFINE c == Call
<1>1. Working /\ c.c = "eq_reif" /\ Proper(c, dom) /\ Typed /\ todo # <<>>
    BY WorkingIs DEF mip_int_eq_reif_single, Working
<1>2. /\ Heads /\ Row(c.co, c.xs, c.k, dom) /\ c.b \in Columns(dom) /\ c.b \in Booleans(dom) /\ c.b # 0
      /\ \A s : At1(s) => Fits(s, dom) /\ EncodedAt(s) /\ s[c.b] \in {0, 1}
    BY <1>1, ReifiedHead DEF Reifieds, At1
<1>3. PICK x, v : x = FreeX(c.co, c.xs) /\ v = FreeV(c.co, c.xs, c.k)
    OBVIOUS
<1>4. /\ x \in Columns(dom) /\ ~is_fixed(x) /\ v \in Int
      /\ \A s : Fits(s, dom) => (SumOf(c.co, c.xs, s) = c.k <=> s[x] = v)
    BY <1>1, <1>2, <1>3, SingleIs DEF mip_int_eq_reif_single
<1>5. \A s : At1(s) => (Holds(c, s) <=> (s[c.b] = 1 <=> s[x] = v)) /\ s[x] \in dom[x]
    BY <1>1, <1>2, <1>4, HoldsReified, ValueIs
<1>6. ~is_fixed(c.b)
    BY DEF mip_int_eq_reif_single
<1>7. \/ v \notin dom[x] /\ Into(<<Not(c.b)>>)
      \/ /\ v \in dom[x] /\ card(x) = 2
         /\ Into(<<IF v = ub(x) THEN mip_two_valued(x, c.b) ELSE mip_two_valued_not(x, c.b)>>)
      \/ v \in dom[x] /\ Into(<<Post(x, {v}, c.b, {v})>>)
      \/ First(Select(x))
      \/ x \in DOMAIN select /\ Into(<<Eq(<<1, -1>>, <<mip_select_at(x, v), c.b>>, 0)>>)
    BY <1>3 DEF mip_int_eq_reif_single
<1>8. CASE v \notin dom[x] /\ Into(<<Not(c.b)>>)
    <2>1. Plain(Not(c.b), dom)
        BY <1>2, MadeTrue DEF Plain
    <2>2. \A s : At1(s) => (Holds(Call, s) <=> Holds(Not(c.b), s))
        BY <1>2, <1>5, <1>8, NotHolds
    <2> HIDE DEF c
    <2> QED BY <1>2, <1>8, <2>1, <2>2, IntoOne
<1>9. CASE /\ v \in dom[x] /\ card(x) = 2
           /\ Into(<<IF v = ub(x) THEN mip_two_valued(x, c.b) ELSE mip_two_valued_not(x, c.b)>>)
    <2>1. PICK p : p = IF v = ub(x) THEN mip_two_valued(x, c.b) ELSE mip_two_valued_not(x, c.b)
        OBVIOUS
    <2>2. Domains(dom)
        BY <1>1 DEF Typed
    <2>3. Plain(p, dom)
        BY <1>1, <1>2, <1>4, <2>1, <2>2, TwoValuedIs
    <2>4. lb(x) # ub(x) /\ v \in {lb(x), ub(x)} /\ \A s : At1(s) => s[x] \in {lb(x), ub(x)}
        <3>1. lb(x) < ub(x) /\ lb(x) \in Int /\ ub(x) \in Int
            BY <1>1, <1>4, <1>9, BinaryIs, ColumnIs
        <3>2. lb(x) # ub(x)
            BY <3>1
        <3> QED BY <1>1, <1>2, <1>4, <1>9, <3>2, BinaryIs
    <2>5. ASSUME NEW s, At1(s) PROVE Holds(Call, s) <=> Holds(p, s)
        <3>1. /\ v = ub(x) => (Holds(p, s) <=> s[x] = IF s[c.b] = 1 THEN ub(x) ELSE lb(x))
              /\ v # ub(x) => (Holds(p, s) <=> s[x] = IF s[c.b] = 1 THEN lb(x) ELSE ub(x))
            BY <1>1, <1>2, <1>4, <2>1, <2>2, <2>5, TwoValuedIs
        <3> QED BY <1>2, <1>5, <2>4, <2>5, <3>1
    <2> HIDE DEF c
    <2> QED BY <1>2, <1>9, <2>1, <2>3, <2>5, IntoOne
<1>10. CASE v \in dom[x] /\ Into(<<Post(x, {v}, c.b, {v})>>)
    <2>1. PICK vs : vs = {v}
        OBVIOUS
    <2> DEFINE p == Post(x, vs, c.b, vs)
    <2>2. Finite(vs) /\ vs # {} /\ vs \subseteq dom[x] /\ vs \subseteq Int
        <3>1. vs = {v, v} /\ vs # {}
            BY <2>1
        <3> QED BY <1>4, <1>10, <3>1, FinitePair
    <2>3. Proper(p, dom) /\ p.c = "post" /\ p.x = x /\ p.b = c.b /\ p.values = vs
        <3>1. p.c = "post" /\ p.x = x /\ p.b = c.b /\ p.values = vs
            BY DEF Post
        <3>2. c.b \in Booleans(dom) \cup {0} /\ x \in Columns(dom)
            BY <1>2, <1>4
        <3>3. Proper(p, dom)
            BY <2>2, <3>2, MadePost
        <3> QED BY <3>1, <3>3
    <2>4. Ready(p, dom)
        BY <1>4, <1>6, <2>2, <2>3 DEF Ready, is_fixed, card
    <2>5. \A s : At1(s) => (Holds(Call, s) <=> Holds(p, s))
        BY <1>2, <1>5, <2>1, PostHolds
    <2>6. Into(<<p>>)
        BY <1>10, <2>1
    <2> HIDE DEF c, p
    <2> QED BY <1>2, <2>3, <2>4, <2>5, <2>6, IntoPost
<1>11. CASE First(Select(x))
    BY <1>1, <1>4, <1>11, SelectFirst DEF Flat
<1>12. CASE x \in DOMAIN select /\ Into(<<Eq(<<1, -1>>, <<mip_select_at(x, v), c.b>>, 0)>>)
    <2>1. PICK y : y = mip_select_at(x, v)
        OBVIOUS
    <2>2. y \in Columns(dom) /\ \A s : At1(s) => s[y] \in {0, 1} /\ (s[y] = 1 <=> s[x] = v)
        BY <1>1, <1>2, <1>4, <1>12, <2>1, SelectedIs
    <2> DEFINE p == Eq(<<1, -1>>, <<y, c.b>>, 0)
    <2>3. Domains(dom)
        BY <1>1 DEF Typed
    <2>4. Plain(p, dom)
        <3>1. Row(<<1, -1>>, <<y, c.b>>, 0, dom)
            BY <1>2, <2>2, <2>3, UnitsAre
        <3> QED BY <3>1, MadeEq DEF Plain
    <2>5. ASSUME NEW s, At1(s) PROVE Holds(Call, s) <=> Holds(p, s)
        <3>1. Holds(p, s) <=> s[y] - s[c.b] = 0
            BY <1>2, <2>2, <2>3, <2>5, UnitsAre, EqHolds
        <3> QED BY <1>2, <1>5, <2>2, <2>5, <3>1
    <2>6. Into(<<p>>)
        BY <1>12, <2>1
    <2> HIDE DEF c, p
    <2> QED BY <1>2, <2>4, <2>5, <2>6, IntoOne
<1> QED BY <1>7, <1>8, <1>9, <1>10, <1>11, <1>12

-----------------------------------------------------------------------------
\* The same of a disequality.
LEMMA NeReifSingleReplaced ==
    ASSUME Formed, mip_int_ne_reif_single
    PROVE  Replaced
<1> DEFINE c == Call
<1>1. Working /\ c.c = "ne_reif" /\ Proper(c, dom) /\ Typed /\ todo # <<>>
    BY WorkingIs DEF mip_int_ne_reif_single, Working
<1>2. /\ Heads /\ Row(c.co, c.xs, c.k, dom) /\ c.b \in Columns(dom) /\ c.b \in Booleans(dom) /\ c.b # 0
      /\ \A s : At1(s) => Fits(s, dom) /\ EncodedAt(s) /\ s[c.b] \in {0, 1}
    BY <1>1, ReifiedHead DEF Reifieds, At1
<1>3. PICK x, v : x = FreeX(c.co, c.xs) /\ v = FreeV(c.co, c.xs, c.k)
    OBVIOUS
<1>4. /\ x \in Columns(dom) /\ ~is_fixed(x) /\ v \in Int
      /\ \A s : Fits(s, dom) => (SumOf(c.co, c.xs, s) = c.k <=> s[x] = v)
    BY <1>1, <1>2, <1>3, SingleIs DEF mip_int_ne_reif_single
<1>5. \A s : At1(s) => (Holds(c, s) <=> (s[c.b] = 1 <=> s[x] # v)) /\ s[x] \in dom[x]
    BY <1>1, <1>2, <1>4, HoldsReified, ValueIs
<1>6. ~is_fixed(c.b)
    BY DEF mip_int_ne_reif_single
<1>7. \/ v \notin dom[x] /\ Into(<<True(c.b)>>)
      \/ /\ v \in dom[x] /\ card(x) = 2
         /\ Into(<<IF v = ub(x) THEN mip_two_valued_not(x, c.b) ELSE mip_two_valued(x, c.b)>>)
      \/ v \in dom[x] /\ IntoNew(1, <<Post(x, {v}, New + 1, {v}), Eq(<<1, 1>>, <<New + 1, c.b>>, 1)>>)
      \/ First(Select(x))
      \/ x \in DOMAIN select /\ Into(<<Eq(<<1, 1>>, <<mip_select_at(x, v), c.b>>, 1)>>)
    BY <1>3 DEF mip_int_ne_reif_single
<1>8. CASE v \notin dom[x] /\ Into(<<True(c.b)>>)
    <2>1. Plain(True(c.b), dom)
        BY <1>2, MadeTrue DEF Plain
    <2>2. \A s : At1(s) => (Holds(Call, s) <=> Holds(True(c.b), s))
        BY <1>2, <1>5, <1>8, TrueHolds
    <2> HIDE DEF c
    <2> QED BY <1>2, <1>8, <2>1, <2>2, IntoOne
<1>9. CASE /\ v \in dom[x] /\ card(x) = 2
           /\ Into(<<IF v = ub(x) THEN mip_two_valued_not(x, c.b) ELSE mip_two_valued(x, c.b)>>)
    <2>1. PICK p : p = IF v = ub(x) THEN mip_two_valued_not(x, c.b) ELSE mip_two_valued(x, c.b)
        OBVIOUS
    <2>2. Domains(dom)
        BY <1>1 DEF Typed
    <2>3. Plain(p, dom)
        BY <1>1, <1>2, <1>4, <2>1, <2>2, TwoValuedIs
    <2>4. lb(x) # ub(x) /\ v \in {lb(x), ub(x)} /\ \A s : At1(s) => s[x] \in {lb(x), ub(x)}
        <3>1. lb(x) < ub(x) /\ lb(x) \in Int /\ ub(x) \in Int
            BY <1>1, <1>4, <1>9, BinaryIs, ColumnIs
        <3>2. lb(x) # ub(x)
            BY <3>1
        <3> QED BY <1>1, <1>2, <1>4, <1>9, <3>2, BinaryIs
    <2>5. ASSUME NEW s, At1(s) PROVE Holds(Call, s) <=> Holds(p, s)
        <3>1. /\ v # ub(x) => (Holds(p, s) <=> s[x] = IF s[c.b] = 1 THEN ub(x) ELSE lb(x))
              /\ v = ub(x) => (Holds(p, s) <=> s[x] = IF s[c.b] = 1 THEN lb(x) ELSE ub(x))
            BY <1>1, <1>2, <1>4, <2>1, <2>2, <2>5, TwoValuedIs
        <3> QED BY <1>2, <1>5, <2>4, <2>5, <3>1
    <2> HIDE DEF c
    <2> QED BY <1>2, <1>9, <2>1, <2>3, <2>5, IntoOne
<1>10. CASE v \in dom[x] /\ IntoNew(1, <<Post(x, {v}, New + 1, {v}), Eq(<<1, 1>>, <<New + 1, c.b>>, 1)>>)
    <2>1. PICK vs, n, d, e, y : vs = {v} /\ n = 1 /\ d = dom /\ e = dom' /\ y = New + 1
        OBVIOUS
    <2>2. e = d \o AllBits(n) /\ y = Len(d) + 1 /\ Domains(d)
        BY <1>1, <1>10, <2>1 DEF IntoNew, AllBits, New, Typed
    <2>3. /\ Domains(e) /\ Longer(d, e) /\ Bigger(d, e) /\ e[y] = 0 .. 1
          /\ y \in Booleans(e) /\ y \in Columns(e) /\ Len(d) \in Nat
          /\ BitFree(d, e, y)
        BY <2>1, <2>2, OneBit
    <2> DEFINE p == Post(x, vs, y, vs)
               q == Eq(<<1, 1>>, <<y, c.b>>, 1)
    <2>4. /\ x \in Columns(e) /\ c.b \in Columns(e) /\ c.b \in Booleans(e) /\ e[x] = dom[x] /\ y # 0
          /\ x \in 1 .. Len(d) /\ c.b \in 1 .. Len(d)
        <3>1. Columns(d) \subseteq Columns(e) /\ Booleans(d) \subseteq Booleans(e)
            BY <2>2, <2>3, ColumnsGrow
        <3> QED BY <1>2, <1>4, <2>1, <2>2, <2>3, <3>1 DEF Longer, Columns
    <2>5. Finite(vs) /\ vs # {} /\ vs \subseteq e[x] /\ vs \subseteq Int
        <3>1. vs = {v, v} /\ vs # {}
            BY <2>1
        <3> QED BY <1>4, <1>10, <2>4, <3>1, FinitePair
    <2>6. p.c = "post" /\ p.x = x /\ p.b = y /\ p.values = vs
        BY DEF Post
    <2>7. Proper(p, e)
        <3>1. y \in Booleans(e) \cup {0}
            BY <2>3
        <3> QED BY <2>4, <2>5, <3>1, MadePost
    <2>8. Ready(p, e)
        <3>1. Cardinality(e[y]) # 1
            <4>1. PICK i, j : i = 0 /\ j = 1
                OBVIOUS
            <4>2. Cardinality(i .. j) = 2
                <5>1. i \in Int /\ j \in Int
                    BY <4>1
                <5>2. Cardinality(i .. j) = IF i > j THEN 0 ELSE j - i + 1
                    BY <5>1, IntervalFinite
                <5> QED BY <4>1, <5>2
            <4> QED BY <2>3, <4>1, <4>2
        <3>2. Cardinality(e[x]) # 1
            BY <1>4, <2>4 DEF is_fixed, card
        <3> HIDE DEF p
        <3> QED BY <2>5, <2>6, <3>1, <3>2 DEF Ready
    <2>9. Proper(q, e) /\ q.c = "int_lin_eq"
        <3>1. Row(<<1, 1>>, <<y, c.b>>, 1, e)
            BY <2>3, <2>4, UnitsAre
        <3> QED BY <3>1, MadeEq
    <2>10. ASSUME NEW t, Fits(t, e)
           PROVE  /\ Holds(p, t) <=> (t[y] = 1 <=> t[x] = v)
                  /\ Holds(q, t) <=> t[y] + t[c.b] = 1
                  /\ t[y] \in {0, 1} /\ t[c.b] \in {0, 1}
        <3>1. Holds(q, t) <=> t[y] + t[c.b] = 1
            BY <2>3, <2>4, <2>10, UnitsAre, EqHolds
        <3>2. Holds(p, t) <=> (t[y] = 1 <=> t[x] = v)
            BY <2>1, <2>4, PostHolds
        <3>3. t[y] \in {0, 1} /\ t[c.b] \in {0, 1}
            BY <2>3, <2>4, <2>10, FitsColumns
        <3> QED BY <3>1, <3>2, <3>3
    <2>11. PICK calls : calls = <<p, q>>
        OBVIOUS
    <2>12. todo' = calls \o Tail(todo) /\ UNCHANGED <<model, out, shared>>
        BY <1>10, <2>1, <2>11 DEF IntoNew
    <2> HIDE DEF p, q
    <2>13. /\ calls \in Seq(Range(calls)) /\ Range(calls) = {p, q} /\ Len(calls) = 2
           /\ calls[1] = p /\ calls[2] = q /\ DOMAIN calls = {1, 2}
        BY <2>11, TwoCalls
    <2>14. CallList(calls, e) /\ InTurn(calls, e) /\ \A k \in Range(calls) : k.c \notin {"two", "element", "element_live", "times"}
        BY <2>6, <2>7, <2>8, <2>9, <2>13 DEF CallList, InTurn
    <2>15. \A t : Meets(t, Range(calls)) <=> Holds(p, t) /\ Holds(q, t)
        BY <2>13 DEF Meets
    <2>16. \A t : Holds(c, t) <=> (t[c.b] = 1 <=> SumOf(c.co, c.xs, t) # c.k)
        BY <1>1, HoldsReified
    <2>17. \A s, t : Fits(s, d) /\ Alike(s, t, 1 .. Len(d)) =>
              /\ SumOf(c.co, c.xs, t) = c.k <=> t[x] = v
              /\ s[x] = t[x] /\ s[c.b] = t[c.b]
        BY <1>2, <1>4, <2>1, <2>4, OldSum DEF Alike
    <2>18. ASSUME NEW t, Fits(t, e), Meets(t, Range(calls)) PROVE Holds(c, t)
        <3>1. PICK s : Fits(s, d) /\ Alike(s, t, 1 .. Len(d))
            BY <2>2, <2>3, <2>18, Restricted
        <3>2. SumOf(c.co, c.xs, t) = c.k <=> t[x] = v
            BY <2>17, <3>1
        <3> QED BY <2>10, <2>15, <2>16, <2>18, <3>2
    <2>19. ASSUME NEW s, Fits(s, d), Holds(c, s)
           PROVE  \E t : Fits(t, e) /\ Alike(s, t, 1 .. Len(d)) /\ Meets(t, Range(calls))
        <3>1. PICK a \in {0, 1} : a = IF s[x] = v THEN 1 ELSE 0
            OBVIOUS
        <3>2. PICK t : Fits(t, e) /\ Alike(s, t, 1 .. Len(d)) /\ t[y] = a
            BY <2>3, <2>19 DEF BitFree
        <3>3. Alike(s, s, 1 .. Len(d))
            BY DEF Alike
        <3>4. s[c.b] = 1 <=> s[x] # v
            BY <2>16, <2>17, <2>19, <3>3
        <3>5. t[x] = s[x] /\ t[c.b] = s[c.b] /\ t[c.b] \in {0, 1}
            BY <2>10, <2>17, <2>19, <3>2
        <3> QED BY <2>10, <2>15, <3>1, <3>2, <3>4, <3>5
    <2>20. Sound(calls, dom') /\ Complete(calls, dom')
        BY <2>1, <2>18, <2>19 DEF Sound, Complete
    <2> QED BY <1>2, <2>1, <2>3, <2>12, <2>14, <2>20, GrownReplaced
<1>11. CASE First(Select(x))
    BY <1>1, <1>4, <1>11, SelectFirst DEF Flat
<1>12. CASE x \in DOMAIN select /\ Into(<<Eq(<<1, 1>>, <<mip_select_at(x, v), c.b>>, 1)>>)
    <2>1. PICK y : y = mip_select_at(x, v)
        OBVIOUS
    <2>2. y \in Columns(dom) /\ \A s : At1(s) => s[y] \in {0, 1} /\ (s[y] = 1 <=> s[x] = v)
        BY <1>1, <1>2, <1>4, <1>12, <2>1, SelectedIs
    <2> DEFINE p == Eq(<<1, 1>>, <<y, c.b>>, 1)
    <2>3. Domains(dom)
        BY <1>1 DEF Typed
    <2>4. Plain(p, dom)
        <3>1. Row(<<1, 1>>, <<y, c.b>>, 1, dom)
            BY <1>2, <2>2, <2>3, UnitsAre
        <3> QED BY <3>1, MadeEq DEF Plain
    <2>5. ASSUME NEW s, At1(s) PROVE Holds(Call, s) <=> Holds(p, s)
        <3>1. Holds(p, s) <=> s[y] + s[c.b] = 1
            BY <1>2, <2>2, <2>3, <2>5, UnitsAre, EqHolds
        <3> QED BY <1>2, <1>5, <2>2, <2>5, <3>1
    <2>6. Into(<<p>>)
        BY <1>12, <2>1
    <2> HIDE DEF c, p
    <2> QED BY <1>2, <2>4, <2>5, <2>6, IntoOne
<1> QED BY <1>7, <1>8, <1>9, <1>10, <1>11, <1>12

-----------------------------------------------------------------------------
\* fzn_int_lin_eq_reif in general: two bits for the two inequalities.
LEMMA EqReifGeneralReplaced ==
    ASSUME Formed, IntLinEqReifGeneral
    PROVE  Replaced
<1>1. Working /\ Call.c = "eq_reif" /\ Proper(Call, dom)
    BY WorkingIs DEF IntLinEqReifGeneral
<1>2. PICK cb, l : cb = -1 /\ l = 1
    OBVIOUS
<1>3. BothReified(Call, cb, l)
    BY <1>2 DEF IntLinEqReifGeneral
<1> QED BY <1>1, <1>2, <1>3, BothReifiedReplaced

\* fzn_int_lin_ne_reif with the Boolean fixed, or in general.
LEMMA NeReifReplaced ==
    ASSUME Formed, IntLinNeReif
    PROVE  Replaced
<1> DEFINE c == Call
<1>1. Working /\ c.c = "ne_reif" /\ Proper(c, dom)
    BY WorkingIs DEF IntLinNeReif
<1>2. /\ Heads /\ Row(c.co, c.xs, c.k, dom) /\ c.b \in Columns(dom)
      /\ \A s : At1(s) => s[c.b] \in {0, 1} /\ (is_fixed(c.b) => s[c.b] = fix(c.b))
    BY <1>1, ReifiedHead DEF Reifieds
<1>3. \A s : Holds(c, s) <=> (s[c.b] = 1 <=> SumOf(c.co, c.xs, s) # c.k)
    BY <1>1, HoldsReified
<1>4. CASE is_fixed(c.b) /\ Into(<<Lin(IF fix(c.b) = 1 THEN "ne" ELSE "int_lin_eq", c.co, c.xs, c.k)>>)
    <2>1. PICK kind \in {"int_lin_eq", "ne"} : kind = IF fix(c.b) = 1 THEN "ne" ELSE "int_lin_eq"
        OBVIOUS
    <2> DEFINE p == Lin(kind, c.co, c.xs, c.k)
    <2>2. Plain(p, dom)
        BY <1>2, MadeLin DEF Plain, Linears
    <2>3. Into(<<p>>)
        BY <1>4, <2>1
    <2>4. ASSUME NEW s, At1(s) PROVE Holds(Call, s) <=> Holds(p, s)
        BY <1>2, <1>3, <1>4, <2>1, <2>4, EqHolds, NeHolds DEF Eq
    <2> HIDE DEF p, c
    <2> QED BY <1>2, <2>2, <2>3, <2>4, IntoOne
<1>5. CASE BothReified(c, 1, 2)
    <2>1. PICK cb, l : cb = 1 /\ l = 2
        OBVIOUS
    <2> QED BY <1>1, <1>5, <2>1, BothReifiedReplaced
<1> QED BY <1>4, <1>5 DEF IntLinNeReif

LEMMA LinearHead ==
    ASSUME Working, Proper(Call, dom), Call.c = "ne"
    PROVE  /\ Heads /\ Row(Call.co, Call.xs, Call.k, dom) /\ Call.k \in Int
           /\ \A l \in Int : Row(Neg(Call.co), Call.xs, l, dom) /\ Row(Call.co, Call.xs, l, dom)
           /\ \A s : At1(s) => Fits(s, dom) /\ EncodedAt(s)
           /\ \A s : Holds(Call, s) <=> SumOf(Call.co, Call.xs, s) # Call.k
<1>1. Heads
    BY DEF Heads, Flat
<1>2. Row(Call.co, Call.xs, Call.k, dom)
    BY RowOfCall DEF Linears
<1>3. Call.k \in Int /\ \A l \in Int : Row(Call.co, Call.xs, l, dom)
    BY <1>2 DEF Row
<1>4. \A l \in Int : Row(Neg(Call.co), Call.xs, l, dom)
    BY <1>2, RowNegated
<1>5. \A s : At1(s) => Fits(s, dom) /\ EncodedAt(s)
    BY DEF At1
<1>6. \A s : Holds(Call, s) <=> SumOf(Call.co, Call.xs, s) # Call.k
    BY HoldsLinear
<1> QED BY <1>1, <1>2, <1>3, <1>4, <1>5, <1>6

\* fzn_int_lin_ne with one free term: the value is left out of a domain.
LEMMA NeSingleReplaced ==
    ASSUME Formed, IntLinNeSingle
    PROVE  Replaced
<1> DEFINE c == Call
<1>1. Working /\ c.c = "ne" /\ Proper(c, dom) /\ Typed /\ todo # <<>>
    BY WorkingIs DEF IntLinNeSingle, Working
<1>2. /\ Heads /\ Row(c.co, c.xs, c.k, dom)
      /\ \A s : At1(s) => Fits(s, dom) /\ EncodedAt(s)
      /\ \A s : Holds(c, s) <=> SumOf(c.co, c.xs, s) # c.k
    BY <1>1, LinearHead
<1>3. PICK x, v : x = FreeX(c.co, c.xs) /\ v = FreeV(c.co, c.xs, c.k)
    OBVIOUS
<1>4. /\ x \in Columns(dom) /\ ~is_fixed(x) /\ v \in Int
      /\ \A s : Fits(s, dom) => (SumOf(c.co, c.xs, s) = c.k <=> s[x] = v)
    BY <1>1, <1>2, <1>3, SingleIs DEF IntLinNeSingle
<1>5. /\ \A s : At1(s) => (Holds(c, s) <=> s[x] # v)
      /\ \A s : At1(s) => s[x] \in dom[x] /\ s[x] \in Int /\ lb(x) <= s[x] /\ s[x] <= ub(x)
    BY <1>1, <1>2, <1>4, ValueIs
<1>6. Finite(dom[x]) /\ lb(x) \in Int /\ ub(x) \in Int
    BY <1>1, <1>4, ColumnIs
<1>7. \/ v \notin dom[x] /\ Into(<<>>)
      \/ Into(<<Within(x, dom[x] \ {v})>>)
      \/ v \in dom[x] /\ Into(<<Post(x, dom[x] \ {v}, 0, {v})>>)
      \/ Into(<<Within(x, lb(x) .. ub(x) \ {v})>>)
      \/ First(Select(x))
      \/ x \in DOMAIN select /\ Into(<<Not(mip_select_at(x, v))>>)
    BY <1>3 DEF IntLinNeSingle
<1>8. CASE v \notin dom[x] /\ Into(<<>>)
    <2>1. \A s : At1(s) => Holds(Call, s)
        BY <1>5, <1>8
    <2> QED BY <1>2, <1>8, <2>1, IntoNone
<1>9. ASSUME NEW S, Finite(S), Into(<<Within(x, S)>>), \A s : At1(s) => (s[x] # v <=> s[x] \in S)
      PROVE  Replaced
    <2>1. Plain(Within(x, S), dom)
        BY <1>4, <1>9, MadeWithin DEF Plain
    <2>2. \A s : At1(s) => (Holds(Call, s) <=> Holds(Within(x, S), s))
        BY <1>5, <1>9, WithinHolds
    <2> HIDE DEF c
    <2> QED BY <1>2, <1>9, <2>1, <2>2, IntoOne
<1>10. CASE Into(<<Within(x, dom[x] \ {v})>>)
    <2>1. Finite(dom[x] \ {v}) /\ \A s : At1(s) => (s[x] # v <=> s[x] \in dom[x] \ {v})
        BY <1>5, <1>6, FiniteParts
    <2> QED BY <1>9, <1>10, <2>1
<1>11. CASE Into(<<Within(x, lb(x) .. ub(x) \ {v})>>)
    <2>1. PICK I : I = lb(x) .. ub(x)
        OBVIOUS
    <2>2. Finite(I) /\ I \ {v} \subseteq I
        BY <1>6, <2>1, IntervalFinite
    <2>3. Finite(I \ {v})
        BY <2>2, FiniteParts
    <2>4. \A s : At1(s) => (s[x] # v <=> s[x] \in I \ {v})
        BY <1>5, <1>6, <2>1
    <2> QED BY <1>9, <1>11, <2>1, <2>3, <2>4
<1>12. CASE v \in dom[x] /\ Into(<<Post(x, dom[x] \ {v}, 0, {v})>>)
    <2>1. PICK vs, S, zero : vs = {v} /\ S = dom[x] \ {v} /\ zero = 0
        OBVIOUS
    <2> DEFINE p == Post(x, S, zero, vs)
    <2>2. Finite(S) /\ vs # {} /\ vs \subseteq dom[x] /\ vs \subseteq Int
        BY <1>4, <1>6, <1>12, <2>1, FiniteParts
    <2>3. p.c = "post" /\ p.x = x /\ p.b = zero /\ p.values = vs
        BY DEF Post
    <2>4. Proper(p, dom)
        <3>1. zero \in Booleans(dom) \cup {0}
            BY <2>1
        <3> QED BY <1>4, <2>2, <3>1, MadePost
    <2>5. Ready(p, dom)
        BY <1>4, <2>1, <2>2, <2>3 DEF Ready, is_fixed, card
    <2>6. \A s : At1(s) => (Holds(Call, s) <=> Holds(p, s))
        BY <1>5, <2>1, PostHolds
    <2>7. Into(<<p>>)
        BY <1>12, <2>1
    <2> HIDE DEF c, p
    <2> QED BY <1>2, <2>3, <2>4, <2>5, <2>6, <2>7, IntoPost
<1>13. CASE First(Select(x))
    BY <1>1, <1>4, <1>13, SelectFirst DEF Flat
<1>14. CASE x \in DOMAIN select /\ Into(<<Not(mip_select_at(x, v))>>)
    <2>1. PICK y : y = mip_select_at(x, v)
        OBVIOUS
    <2>2. y \in Columns(dom) /\ \A s : At1(s) => s[y] \in {0, 1} /\ (s[y] = 1 <=> s[x] = v)
        BY <1>1, <1>2, <1>4, <1>14, <2>1, SelectedIs
    <2>3. Plain(Not(y), dom)
        BY <2>2, MadeTrue DEF Plain
    <2>4. \A s : At1(s) => (Holds(Call, s) <=> Holds(Not(y), s))
        BY <1>5, <2>2, NotHolds
    <2> HIDE DEF c
    <2> QED BY <1>2, <1>14, <2>1, <2>3, <2>4, IntoOne
<1> QED BY <1>7, <1>8, <1>10, <1>11, <1>12, <1>13, <1>14

\* fzn_int_lin_ne in general: a bit says on which side the sum is.
LEMMA NeGeneralReplaced ==
    ASSUME Formed, IntLinNeGeneral
    PROVE  Replaced
<1>1. PICK c, n, d, e, y : c = Call /\ n = 1 /\ d = dom /\ e = dom' /\ y = New + 1
    OBVIOUS
<1>2. Working /\ c.c = "ne" /\ Proper(c, dom) /\ Domains(d)
    BY <1>1, WorkingIs DEF IntLinNeGeneral
<1>3. /\ Heads /\ c.k \in Int
      /\ \A l \in Int : Row(Neg(c.co), c.xs, l, d) /\ Row(c.co, c.xs, l, d)
      /\ \A s : Holds(c, s) <=> SumOf(c.co, c.xs, s) # c.k
    BY <1>1, <1>2, LinearHead
<1>4. e = d \o AllBits(n) /\ y = Len(d) + 1
    BY <1>1 DEF IntLinNeGeneral, IntoNew, AllBits, New
<1>5. /\ Domains(e) /\ Longer(d, e) /\ Bigger(d, e) /\ y \in Booleans(e) /\ Len(d) \in Nat
      /\ BitFree(d, e, y)
    BY <1>1, <1>2, <1>4, OneBit
<1>6. PICK k \in Int, l \in Int : k = c.k - 1 /\ l = -c.k - 1
    BY <1>3
<1> DEFINE p == LeImp(c.co, c.xs, k, y)
           q == LeImpNot(Neg(c.co), c.xs, l, y)
<1>7. Plain(p, e) /\ Plain(q, e)
    <2>1. Row(c.co, c.xs, k, e) /\ Row(Neg(c.co), c.xs, l, e)
        BY <1>2, <1>3, <1>5, RowGrows
    <2> QED BY <1>5, <2>1, MadeImps DEF Plain
<1>8. ASSUME NEW t, Fits(t, e)
      PROVE  /\ Holds(p, t) <=> (t[y] = 1 => SumOf(c.co, c.xs, t) <= k)
             /\ Holds(q, t) <=> (t[y] = 0 => -SumOf(c.co, c.xs, t) <= l)
             /\ t[y] \in {0, 1} /\ SumOf(c.co, c.xs, t) \in Int
    <2>1. Row(c.co, c.xs, k, d)
        BY <1>3
    <2>2. SumOf(c.co, c.xs, t) \in Int /\ SumOf(Neg(c.co), c.xs, t) = -SumOf(c.co, c.xs, t)
        BY <1>2, <1>5, <1>8, <2>1, GrownSum
    <2>3. t[y] \in {0, 1}
        BY <1>5, <1>8, FitsColumns
    <2> QED BY <2>2, <2>3, LeImpHolds, LeImpNotHolds
<1>9. PICK calls : calls = <<p, q>>
    OBVIOUS
<1>10. todo' = calls \o Tail(todo) /\ UNCHANGED <<model, out, shared>>
    BY <1>1, <1>6, <1>9 DEF IntLinNeGeneral, IntoNew
<1> HIDE DEF p, q
<1>11. calls \in Seq(Range(calls)) /\ Range(calls) = {p, q} /\ \A r \in Range(calls) : Plain(r, e)
    BY <1>7, <1>9, TwoCalls
<1>12. \A t : Meets(t, Range(calls)) <=> Holds(p, t) /\ Holds(q, t)
    BY <1>11 DEF Meets
<1>13. ASSUME NEW t, Fits(t, e), Meets(t, Range(calls)) PROVE Holds(c, t)
    <2>1. PICK v \in Int, w \in {0, 1} : v = SumOf(c.co, c.xs, t) /\ w = t[y]
        BY <1>8, <1>13
    <2>2. (w = 1 => v <= k) /\ (w = 0 => -v <= l)
        BY <1>8, <1>12, <1>13, <2>1
    <2>3. v # c.k
        BY <1>3, <1>6, <2>2
    <2> QED BY <1>3, <2>1, <2>3
<1>14. ASSUME NEW s, Fits(s, d), Holds(c, s)
       PROVE  \E t : Fits(t, e) /\ Alike(s, t, 1 .. Len(d)) /\ Meets(t, Range(calls))
    <2>1. PICK v : v = SumOf(c.co, c.xs, s)
        OBVIOUS
    <2>2. PICK a \in {0, 1} : a = IF v <= k THEN 1 ELSE 0
        OBVIOUS
    <2>3. PICK t : Fits(t, e) /\ Alike(s, t, 1 .. Len(d)) /\ t[y] = a
        BY <1>5, <1>14 DEF BitFree
    <2>4. SumOf(c.co, c.xs, t) = v
        <3>1. Row(c.co, c.xs, k, d)
            BY <1>3
        <3> QED BY <2>1, <2>3, <3>1, OldSum
    <2>5. v \in Int /\ v # c.k
        BY <1>3, <1>8, <1>14, <2>1, <2>3, <2>4
    <2>6. (a = 1 => v <= k) /\ (a = 0 => -v <= l)
        BY <1>3, <1>6, <2>2, <2>5
    <2> QED BY <1>8, <1>12, <2>3, <2>4, <2>6
<1>15. Sound(calls, dom') /\ Complete(calls, dom')
    BY <1>1, <1>13, <1>14 DEF Sound, Complete
<1> QED BY <1>1, <1>3, <1>5, <1>10, <1>11, <1>15, NewReplaced

-----------------------------------------------------------------------------
(***************************************************************************)
(* Membership.                                                             *)
(***************************************************************************)
HullOf(S) == S \subseteq Hull(S) /\ Min(S) \in S /\ Max(S) \in S /\ Finite(Hull(S))

LEMMA HullIs ==
    ASSUME NEW S, Finite(S), S # {}
    PROVE  /\ HullOf(S) /\ Min(S) \in Int /\ Max(S) \in Int /\ Min(S) <= Max(S)
           /\ S # Hull(S) => Cardinality(S) # 1
           /\ \A v \in Int : v \in Hull(S) <=> Min(S) <= v /\ v <= Max(S)
<1>1. /\ Max(S) \in S /\ Min(S) \in S /\ Max(S) \in Int /\ Min(S) \in Int
      /\ \A w \in S : w \in Int /\ Min(S) <= w /\ w <= Max(S)
    BY EndsAre
<1>2. PICK lo \in Int, hi \in Int : lo = Min(S) /\ hi = Max(S)
    BY <1>1
<1>3. Hull(S) = lo .. hi /\ S \subseteq lo .. hi /\ lo <= hi
    BY <1>1, <1>2 DEF Hull
<1>4. Finite(Hull(S))
    BY <1>3, IntervalFinite
<1>5. Cardinality(S) = 1 => S = Hull(S)
    <2>1. Cardinality(S) = 1 => S = {lo} /\ lo = hi
        BY <1>2, OneValue
    <2>2. lo = hi => lo .. hi = {lo}
        OBVIOUS
    <2> QED BY <1>3, <2>1, <2>2
<1>6. \A v \in Int : v \in Hull(S) <=> Min(S) <= v /\ v <= Max(S)
    BY <1>2, <1>3
<1> QED BY <1>1, <1>2, <1>3, <1>4, <1>5, <1>6 DEF HullOf

LEMMA MemberHead ==
    ASSUME Working, Proper(Call, dom), Call.c \in {"in", "in_imp", "in_reif"}
    PROVE  /\ Heads /\ Call.x \in Columns(dom) /\ Finite(Call.s \cap dom[Call.x]) /\ Finite(Call.s)
           /\ Call.c # "in" => Call.b \in Booleans(dom) /\ Call.b \in Columns(dom) /\ Call.b # 0
           /\ \A s : At1(s) => /\ Fits(s, dom) /\ s[Call.x] \in dom[Call.x] /\ s[Call.x] \in Int
                               /\ s[Call.x] \in Call.s <=> s[Call.x] \in Call.s \cap dom[Call.x]
           /\ Call.c # "in" =>
                \A s : At1(s) => s[Call.b] \in {0, 1} /\ (is_fixed(Call.b) => s[Call.b] = fix(Call.b))
<1>1. Heads
    BY DEF Heads, Flat
<1>2. Call.x \in Columns(dom) /\ Finite(Call.s) /\ (Call.c # "in" => Call.b \in Booleans(dom))
    BY MemberParts DEF Members
<1>3. Finite(Call.s \cap dom[Call.x])
    BY <1>2, FiniteParts
<1>4. Call.c # "in" => Call.b \in Columns(dom) /\ Call.b # 0
    BY <1>2, BooleanIs
<1>5. \A s : At1(s) => Fits(s, dom) /\ s[Call.x] \in dom[Call.x] /\ s[Call.x] \in Int
    BY <1>2, ValueIs DEF At1
<1>6. Call.c # "in" => \A s : At1(s) => s[Call.b] \in {0, 1} /\ (is_fixed(Call.b) => s[Call.b] = fix(Call.b))
    BY <1>2, <1>5, BitIs
<1> QED BY <1>1, <1>2, <1>3, <1>4, <1>5, <1>6

LEMMA AfterOne ==
    ASSUME NEW a, NEW b
    PROVE  <<a>> \o <<>> = <<a>> /\ <<a>> \o <<b>> = <<a, b>>
<1>1. PICK p, q, r : p = <<a>> /\ q = <<b>> /\ r = <<a, b>>
    OBVIOUS
<1>2. /\ p \in Seq(Range(p)) /\ Len(p) = 1 /\ p[1] = a
      /\ q \in Seq(Range(q)) /\ Len(q) = 1 /\ q[1] = b
      /\ r \in Seq(Range(r)) /\ Len(r) = 2 /\ r[1] = a /\ r[2] = b
    BY <1>1, OneCall, TwoCalls
<1>3. PICK t : t = p \o q
    OBVIOUS
<1>4. /\ t \in Seq(Range(t)) /\ Len(t) = Len(p) + Len(q)
      /\ \A i \in 1 .. Len(p) : t[i] = p[i]
      /\ \A i \in 1 .. Len(q) : t[Len(p) + i] = q[i]
    <2>1. p \in Seq(Range(p)) /\ q \in Seq(Range(q))
        BY <1>2
    <2>2. /\ p \o q \in Seq(Range(p \o q)) /\ Len(p \o q) = Len(p) + Len(q)
          /\ \A i \in 1 .. Len(p) : (p \o q)[i] = p[i]
          /\ \A i \in 1 .. Len(q) : (p \o q)[Len(p) + i] = q[i]
        BY <2>1, Joined
    <2> QED BY <1>3, <2>2
<1>5. Len(t) = 2 /\ t[1] = a /\ t[2] = b
    BY <1>2, <1>4
<1>6. t = r
    BY <1>2, <1>4, <1>5
<1>7. p \o <<>> = p
    BY <1>2
<1> QED BY <1>1, <1>3, <1>6, <1>7

\* A membership to be posted waits for the bounds before it.
LEMMA WaitsExpands ==
    ASSUME Typed, todo # <<>>, Call.c # "element", NEW w, NEW p, Proper(w, dom), w.c = "within",
           Proper(p, dom), p.c = "post", Waits(w, p, dom),
           \A s : At1(s) => (Holds(Call, s) <=> Holds(w, s) /\ Holds(p, s))
    PROVE  Expands(<<w, p>>, dom) /\ NewTwos(<<w, p>>)
<1>1. PICK calls : calls = <<w, p>>
    OBVIOUS
<1>2. /\ calls \in Seq(Range(calls)) /\ Range(calls) = {w, p} /\ DOMAIN calls = {1, 2}
      /\ calls[1] = w /\ calls[2] = p
    BY <1>1, TwoCalls
<1>3. Agrees(calls)
    BY <1>2 DEF Agrees, Meets
<1>4. InTurn(calls, dom) /\ NewTwos(calls) /\ CallList(calls, dom)
    BY <1>2 DEF InTurn, NewTwos, CallList
<1>6. Multiplied(calls, dom)
    BY <1>2, NoneMultiplied
<1>5. Expands(calls, dom)
    BY <1>2, <1>3, <1>4, <1>6, SameExpands
<1> QED BY <1>1, <1>4, <1>5

\* fzn_int_in: the bounds, then the pass for what is missing between them.
LEMMA IntInReplaced ==
    ASSUME Formed, IntIn
    PROVE  Replaced
<1>1. PICK c, x, si : c = Call /\ x = c.x /\ si = c.s \cap dom[x]
    OBVIOUS
<1>2. Working /\ Typed /\ todo # <<>> /\ c.c = "in" /\ Proper(c, dom) /\ 1 \in Columns(dom)
    BY <1>1, WorkingIs DEF IntIn, Working
<1>3. /\ Heads /\ x \in Columns(dom) /\ Finite(si)
      /\ \A s : At1(s) => s[x] \in dom[x] /\ s[x] \in Int /\ (s[x] \in c.s <=> s[x] \in si)
    BY <1>1, <1>2, MemberHead
<1>4. \A s : At1(s) => (Holds(Call, s) <=> s[x] \in si)
    BY <1>1, <1>2, <1>3, HoldsMember
<1>5. CASE si = {}
    <2>1. Plain(Fail, dom)
        BY <1>2, MadeFail DEF Plain
    <2>2. \A s : At1(s) => (Holds(Call, s) <=> Holds(Fail, s))
        BY <1>4, <1>5, FailHolds
    <2>3. Into(<<Fail>>)
        BY <1>1, <1>5 DEF IntIn
    <2> QED BY <1>3, <2>1, <2>2, <2>3, IntoOne
<1>6. CASE si # {} /\ si = dom[x]
    <2>1. \A s : At1(s) => Holds(Call, s)
        BY <1>3, <1>4, <1>6
    <2>2. Into(<<>>)
        BY <1>1, <1>6 DEF IntIn
    <2> QED BY <1>3, <2>1, <2>2, IntoNone
<1>7. CASE si # {} /\ si # dom[x]
    <2>1. PICK zero : zero = 0
        OBVIOUS
    <2> DEFINE w == Within(x, Hull(si))
               p == Post(x, si, zero, si)
               q == InCall("in_encoded", x, si, zero)
    <2>2. \/ si = Hull(si) /\ Into(<<w>>)
          \/ si # Hull(si) /\ Into(<<w, p>>)
          \/ si # Hull(si) /\ Into(<<w, q>>)
        <3>1. Into(<<w>> \o (IF si = Hull(si) THEN <<>>
                             ELSE IF mip_domains_wanted(x) THEN <<p>> ELSE <<q>>))
            BY <1>1, <1>7, <2>1 DEF IntIn
        <3>2. <<w>> \o <<>> = <<w>> /\ <<w>> \o <<p>> = <<w, p>> /\ <<w>> \o <<q>> = <<w, q>>
            BY AfterOne
        <3> HIDE DEF w, p, q
        <3> QED BY <3>1, <3>2
    <2>3. HullOf(si) /\ si \subseteq Int /\ (si # Hull(si) => Cardinality(si) # 1)
        BY <1>3, <1>7, HullIs DEF Finite
    <2>4. Plain(w, dom) /\ w.c = "within" /\ Proper(w, dom)
        BY <1>3, <2>3, MadeWithin DEF Plain, HullOf
    <2>5. \A s : Holds(w, s) <=> s[x] \in Hull(si)
        BY WithinHolds
    <2>6. CASE si = Hull(si) /\ Into(<<w>>)
        <3>1. \A s : At1(s) => (Holds(Call, s) <=> Holds(w, s))
            BY <1>4, <2>5, <2>6
        <3> HIDE DEF w
        <3> QED BY <1>3, <2>4, <2>6, <3>1, IntoOne
    <2>7. CASE si # Hull(si) /\ Into(<<w, p>>)
        <3>1. p.c = "post" /\ p.x = x /\ p.b = zero /\ p.values = si
            BY DEF Post
        <3>2. Proper(p, dom)
            <4>1. zero \in Booleans(dom) \cup {0}
                BY <2>1
            <4> QED BY <1>3, <2>3, <4>1, MadePost
        <3>3. \A s : Holds(p, s) <=> s[x] \in si
            BY <2>1, PostHolds
        <3>4. \A s : At1(s) => (Holds(Call, s) <=> Holds(w, s) /\ Holds(p, s))
            BY <1>4, <2>3, <2>5, <3>3 DEF HullOf
        <3>5. Waits(w, p, dom)
            BY <1>1, <1>7, <2>1, <2>3, <2>7, <3>1 DEF Waits
        <3> HIDE DEF w, p
        <3>6. Expands(<<w, p>>, dom) /\ NewTwos(<<w, p>>)
            BY <1>1, <1>2, <2>4, <3>1, <3>2, <3>4, <3>5, WaitsExpands
        <3>7. PICK calls : calls = <<w, p>>
            OBVIOUS
        <3> QED BY <1>3, <2>7, <3>6, <3>7, IntoReplaced DEF Heads, Working
    <2>8. CASE si # Hull(si) /\ Into(<<w, q>>)
        <3>1. Plain(q, dom)
            <4>1. PICK kind : kind = "in_encoded"
                OBVIOUS
            <4>2. Proper(InCall(kind, x, si, zero), dom) /\ InCall(kind, x, si, zero).c = kind
                BY <1>3, <2>1, <4>1, MadeInCall
            <4> QED BY <4>1, <4>2 DEF Plain
        <3>2. \A s : Holds(q, s) <=> s[x] \in si
            BY <2>1, EncodedHolds
        <3>3. \A s : At1(s) => (Holds(Call, s) <=> Holds(w, s) /\ Holds(q, s))
            BY <1>4, <2>3, <2>5, <3>2 DEF HullOf
        <3> HIDE DEF w, q
        <3> QED BY <1>3, <2>4, <2>8, <3>1, <3>3, IntoTwo
    <2> QED BY <2>2, <2>6, <2>7, <2>8
<1> QED BY <1>5, <1>6, <1>7

-----------------------------------------------------------------------------
\* fzn_int_in_imp, whether the set holds, cannot hold, or is to be passed on.
LEMMA IntInImpReplaced ==
    ASSUME Formed, IntInImp
    PROVE  Replaced
<1>1. PICK c, x, b, si : c = Call /\ x = c.x /\ b = c.b /\ si = c.s \cap dom[x]
    OBVIOUS
<1>2. Working /\ c.c = "in_imp" /\ Proper(c, dom) /\ Domains(dom)
    BY <1>1, WorkingIs DEF IntInImp
<1>3. /\ Heads /\ x \in Columns(dom) /\ Finite(si) /\ Finite(c.s)
      /\ b \in Booleans(dom) /\ b \in Columns(dom) /\ b # 0
      /\ \A s : At1(s) => /\ Fits(s, dom) /\ s[x] \in dom[x] /\ s[x] \in Int /\ (s[x] \in c.s <=> s[x] \in si)
                          /\ s[b] \in {0, 1} /\ (is_fixed(b) => s[b] = fix(b))
    BY <1>1, <1>2, MemberHead
<1>4. /\ \A s : Holds(Call, s) <=> (s[b] = 1 => s[x] \in c.s)
      /\ \A s : At1(s) => (Holds(Call, s) <=> (s[b] = 1 => s[x] \in si))
    BY <1>1, <1>2, <1>3, HoldsMember
<1>5. CASE is_fixed(b) /\ fix(b) = 1
    <2>1. Plain(In(x, c.s), dom)
        BY <1>3, MadeWithin DEF Plain
    <2>2. \A s : At1(s) => (Holds(Call, s) <=> Holds(In(x, c.s), s))
        BY <1>3, <1>4, <1>5, InHolds
    <2>3. Into(<<In(x, c.s)>>)
        BY <1>1, <1>5 DEF IntInImp
    <2> QED BY <1>3, <2>1, <2>2, <2>3, IntoOne
<1>6. CASE (is_fixed(b) /\ fix(b) # 1) \/ (~is_fixed(b) /\ si # {} /\ si = dom[x])
    <2>1. \A s : At1(s) => Holds(Call, s)
        BY <1>3, <1>4, <1>6
    <2>2. Into(<<>>)
        BY <1>1, <1>6 DEF IntInImp
    <2> QED BY <1>3, <2>1, <2>2, IntoNone
<1>7. CASE ~is_fixed(b) /\ si = {}
    <2>1. Plain(Not(b), dom)
        BY <1>3, MadeTrue DEF Plain
    <2>2. \A s : At1(s) => (Holds(Call, s) <=> Holds(Not(b), s))
        BY <1>3, <1>4, <1>7, NotHolds
    <2>3. Into(<<Not(b)>>)
        BY <1>1, <1>7 DEF IntInImp
    <2> QED BY <1>3, <2>1, <2>2, <2>3, IntoOne
<1>8. CASE ~is_fixed(b) /\ si # {} /\ si # dom[x] /\ si = Hull(si)
    <2>1. PICK k \in Int, l \in Int : k = -Min(si) /\ l = Max(si)
        BY <1>3, <1>8, HullIs
    <2> DEFINE p == LeImp(<<-1>>, <<x>>, k, b)
               q == LeImp(<<1>>, <<x>>, l, b)
    <2>2. Plain(p, dom) /\ Plain(q, dom)
        <3>1. Row(<<-1>>, <<x>>, k, dom) /\ Row(<<1>>, <<x>>, l, dom)
            BY <1>2, <1>3, UnitIs
        <3> QED BY <1>3, <3>1, MadeImps DEF Plain
    <2>3. ASSUME NEW s, At1(s) PROVE Holds(Call, s) <=> Holds(p, s) /\ Holds(q, s)
        <3>1. /\ Holds(p, s) <=> (s[b] = 1 => -s[x] <= k)
              /\ Holds(q, s) <=> (s[b] = 1 => s[x] <= l)
            BY <1>2, <1>3, <2>3, UnitIs, LeImpHolds
        <3>2. s[x] \in si <=> Min(si) <= s[x] /\ s[x] <= Max(si)
            BY <1>3, <1>8, <2>3, HullIs
        <3>3. Min(si) \in Int
            BY <1>3, <1>8, HullIs
        <3>4. Min(si) <= s[x] <=> -s[x] <= k
            BY <1>3, <2>1, <2>3, <3>3
        <3> QED BY <1>4, <2>1, <2>3, <3>1, <3>2, <3>4
    <2>4. Into(<<p, q>>)
        BY <1>1, <1>8, <2>1 DEF IntInImp
    <2> HIDE DEF p, q
    <2> QED BY <1>3, <2>2, <2>3, <2>4, IntoTwo
<1>9. CASE ~is_fixed(b) /\ si # {} /\ si # dom[x] /\ si # Hull(si)
    <2>1. PICK kind : kind = "in_encoded_imp"
        OBVIOUS
    <2> DEFINE p == InCall(kind, x, si, b)
    <2>2. Plain(p, dom)
        BY <1>3, <2>1, MadeInCall DEF Plain
    <2>3. \A s : At1(s) => (Holds(Call, s) <=> Holds(p, s))
        BY <1>4, <2>1, EncodedImpHolds
    <2>4. Into(<<p>>)
        BY <1>1, <1>9, <2>1 DEF IntInImp
    <2> HIDE DEF p
    <2> QED BY <1>3, <2>2, <2>3, <2>4, IntoOne
<1> QED BY <1>5, <1>6, <1>7, <1>8, <1>9

\* The complement, one value at a time.
LEMMA NotInIs ==
    ASSUME NEW x, x \in Columns(dom), Domains(dom), NEW S, Finite(S \cap dom[x])
    PROVE  /\ mip_int_not_in(x, S) \in Seq(Range(mip_int_not_in(x, S)))
           /\ \A c \in Range(mip_int_not_in(x, S)) : Plain(c, dom)
           /\ \A s : Fits(s, dom) => (Meets(s, Range(mip_int_not_in(x, S))) <=> s[x] \notin S)
<1>1. PICK T : T = S \cap dom[x]
    OBVIOUS
<1>2. PICK n, f, q : n = Cardinality(T) /\ f = Asc(T) /\ q = mip_int_not_in(x, S)
    OBVIOUS
<1>3. /\ n \in Nat /\ \A i \in 1 .. n : f[i] \in T /\ f[i] \in Int
      /\ \A v \in T : \E i \in 1 .. n : f[i] = v
    BY <1>1, <1>2, AscIs
<1>4. q = [i \in 1 .. n |-> Lin("ne", <<1>>, <<x>>, f[i])]
    BY <1>1, <1>2 DEF mip_int_not_in
<1>5. Len(q) = n /\ \A i \in 1 .. n : q[i] = Lin("ne", <<1>>, <<x>>, f[i])
    BY <1>3, <1>4
<1>6. q \in Seq(Range(q)) /\ Range(q) = {q[i] : i \in 1 .. n}
    <2>1. q = [i \in 1 .. n |-> q[i]]
        BY <1>4
    <2> QED BY <1>3, <2>1, MadeList
<1>7. \A c \in Range(q) : Plain(c, dom)
    <2>1. ASSUME NEW i \in 1 .. n PROVE Plain(q[i], dom)
        <3>1. Row(<<1>>, <<x>>, f[i], dom)
            BY <1>3, UnitIs
        <3>2. PICK kind \in Linears : kind = "ne"
            BY DEF Linears
        <3>3. Proper(q[i], dom) /\ q[i].c = "ne"
            BY <1>5, <3>1, <3>2, MadeLin
        <3> QED BY <3>3 DEF Plain
    <2> QED BY <1>6, <2>1
<1>8. ASSUME NEW s, Fits(s, dom) PROVE Meets(s, Range(q)) <=> s[x] \notin S
    <2>1. s[x] \in dom[x] /\ SumOf(<<1>>, <<x>>, s) = s[x]
        BY <1>8, UnitIs, FitsColumns
    <2>2. \A i \in 1 .. n : Holds(q[i], s) <=> s[x] # f[i]
        BY <1>5, <2>1, NeHolds
    <2>3. Meets(s, Range(q)) <=> \A i \in 1 .. n : Holds(q[i], s)
        BY <1>6 DEF Meets
    <2>4. s[x] \in S <=> s[x] \in T
        BY <1>1, <2>1
    <2> QED BY <1>3, <2>2, <2>3, <2>4
<1> QED BY <1>2, <1>6, <1>7, <1>8

\* fzn_int_in_reif: the set for one value of the Boolean, its complement for the other.
LEMMA IntInReifReplaced ==
    ASSUME Formed, IntInReif
    PROVE  Replaced
<1>1. PICK c, x, b, si : c = Call /\ x = c.x /\ b = c.b /\ si = c.s \cap dom[x]
    OBVIOUS
<1>2. Working /\ c.c = "in_reif" /\ Proper(c, dom) /\ Domains(dom)
    BY <1>1, WorkingIs DEF IntInReif
<1>3. /\ Heads /\ x \in Columns(dom) /\ Finite(si) /\ Finite(c.s)
      /\ b \in Booleans(dom) /\ b \in Columns(dom) /\ b # 0
      /\ \A s : At1(s) => /\ Fits(s, dom) /\ s[x] \in dom[x] /\ s[x] \in Int /\ (s[x] \in c.s <=> s[x] \in si)
                          /\ s[b] \in {0, 1} /\ (is_fixed(b) => s[b] = fix(b))
    BY <1>1, <1>2, MemberHead
<1>4. /\ \A s : Holds(Call, s) <=> (s[b] = 1 <=> s[x] \in c.s)
      /\ \A s : At1(s) => (Holds(Call, s) <=> (s[b] = 1 <=> s[x] \in si))
    BY <1>1, <1>2, <1>3, HoldsMember
<1>5. CASE is_fixed(b) /\ fix(b) = 1
    <2>1. Plain(In(x, c.s), dom)
        BY <1>3, MadeWithin DEF Plain
    <2>2. \A s : At1(s) => (Holds(Call, s) <=> Holds(In(x, c.s), s))
        BY <1>3, <1>4, <1>5, InHolds
    <2>3. Into(<<In(x, c.s)>>)
        BY <1>1, <1>5 DEF IntInReif
    <2> QED BY <1>3, <2>1, <2>2, <2>3, IntoOne
<1>6. CASE is_fixed(b) /\ fix(b) # 1
    <2>1. PICK q : q = mip_int_not_in(x, c.s)
        OBVIOUS
    <2>2. q \in Seq(Range(q)) /\ \A r \in Range(q) : Plain(r, dom)
        BY <1>1, <1>2, <1>3, <2>1, NotInIs
    <2>3. \A s : Fits(s, dom) => (Meets(s, Range(q)) <=> s[x] \notin c.s)
        BY <1>1, <1>2, <1>3, <2>1, NotInIs
    <2>4. Agrees(q)
        BY <1>3, <1>4, <1>6, <2>3 DEF Agrees
    <2>5. Into(q)
        BY <1>1, <1>6, <2>1 DEF IntInReif
    <2> QED BY <1>3, <2>2, <2>4, <2>5, IntoPlain
<1>7. CASE ~is_fixed(b) /\ si = {}
    <2>1. Plain(Not(b), dom)
        BY <1>3, MadeTrue DEF Plain
    <2>2. \A s : At1(s) => (Holds(Call, s) <=> Holds(Not(b), s))
        BY <1>3, <1>4, <1>7, NotHolds
    <2>3. Into(<<Not(b)>>)
        BY <1>1, <1>7 DEF IntInReif
    <2> QED BY <1>3, <2>1, <2>2, <2>3, IntoOne
<1>8. CASE ~is_fixed(b) /\ si # {} /\ si = dom[x]
    <2>1. Plain(True(b), dom)
        BY <1>3, MadeTrue DEF Plain
    <2>2. \A s : At1(s) => (Holds(Call, s) <=> Holds(True(b), s))
        BY <1>3, <1>4, <1>8, TrueHolds
    <2>3. Into(<<True(b)>>)
        BY <1>1, <1>8 DEF IntInReif
    <2> QED BY <1>3, <2>1, <2>2, <2>3, IntoOne
<1>9. CASE ~is_fixed(b) /\ si # {} /\ si # dom[x] /\ mip_domains_wanted(x)
    <2> DEFINE p == Post(x, si, b, si)
    <2>1. p.c = "post" /\ p.x = x /\ p.b = b /\ p.values = si
        BY DEF Post
    <2>2. Proper(p, dom)
        <3>1. b \in Booleans(dom) \cup {0} /\ si \subseteq Int
            BY <1>3 DEF Finite
        <3> QED BY <1>3, <3>1, MadePost
    <2>3. Ready(p, dom)
        BY <1>1, <1>9, <2>1 DEF Ready, mip_domains_wanted, is_fixed, card
    <2>4. \A s : At1(s) => (Holds(Call, s) <=> Holds(p, s))
        BY <1>3, <1>4, PostHolds
    <2>5. Into(<<p>>)
        BY <1>1, <1>9 DEF IntInReif
    <2> HIDE DEF p
    <2> QED BY <1>3, <2>1, <2>2, <2>3, <2>4, <2>5, IntoPost
<1>10. CASE ~is_fixed(b) /\ si # {} /\ si # dom[x] /\ ~mip_domains_wanted(x) /\ si # Hull(si)
    <2>1. PICK kind : kind = "in_encoded"
        OBVIOUS
    <2> DEFINE p == InCall(kind, x, si, b)
    <2>2. Plain(p, dom)
        BY <1>3, <2>1, MadeInCall DEF Plain
    <2>3. \A s : At1(s) => (Holds(Call, s) <=> Holds(p, s))
        BY <1>3, <1>4, <2>1, EncodedHolds
    <2>4. Into(<<p>>)
        BY <1>1, <1>10, <2>1 DEF IntInReif
    <2> HIDE DEF p
    <2> QED BY <1>3, <2>2, <2>3, <2>4, IntoOne
<1>11. CASE ~is_fixed(b) /\ si # {} /\ si # dom[x] /\ ~mip_domains_wanted(x) /\ si = Hull(si)
    <2>19. PICK k \in Int, l \in Int : k = -Min(si) /\ l = Max(si)
        BY <1>3, <1>11, HullIs
    <2>1. PICK n, d, e, y, z : n = 2 /\ d = dom /\ e = dom' /\ y = New + 1 /\ z = New + 2
        OBVIOUS
    <2>2. Min(si) \in Int /\ -k <= l /\ \A v \in Int : v \in si <=> -v <= k /\ v <= l
        <3>1. Min(si) \in Int /\ Min(si) <= l /\ \A v \in Int : v \in si <=> Min(si) <= v /\ v <= l
            BY <1>3, <1>11, <2>19, HullIs
        <3> QED BY <2>19, <3>1
    <2> DEFINE p == LeReif(<<-1>>, <<x>>, k, y)
               q == LeReif(<<1>>, <<x>>, l, z)
               r == Eq(<<1, 1, -1>>, <<y, z, b>>, 1)
    <2>3. IntoNew(2, <<p, q, r>>)
        BY <1>1, <1>11, <2>1, <2>19 DEF IntInReif
    <2>4. e = d \o AllBits(n) /\ y = Len(d) + 1 /\ z = Len(d) + 2 /\ Domains(d)
        BY <1>2, <2>1, <2>3 DEF IntoNew, AllBits, New
    <2>5. /\ Domains(e) /\ Longer(d, e) /\ Bigger(d, e) /\ Len(d) \in Nat
          /\ y \in Booleans(e) /\ y \in Columns(e) /\ z \in Booleans(e) /\ z \in Columns(e)
          /\ BitsFree(d, e, y, z)
        BY <2>1, <2>4, TwoBits
    <2>6. /\ x \in Columns(e) /\ b \in Columns(e) /\ b \in Booleans(e)
          /\ x \in 1 .. Len(d) /\ b \in 1 .. Len(d)
        <3>1. Columns(d) \subseteq Columns(e) /\ Booleans(d) \subseteq Booleans(e)
            BY <2>4, <2>5, ColumnsGrow
        <3> QED BY <1>3, <2>1, <3>1 DEF Columns
    <2>7. Plain(p, e) /\ Plain(q, e)
        <3>1. Row(<<-1>>, <<x>>, k, e) /\ Row(<<1>>, <<x>>, l, e)
            BY <2>5, <2>6, UnitIs
        <3> QED BY <2>5, <3>1, MadeImps DEF Plain
    <2>8. PICK m \in Int : m = -1
        OBVIOUS
    <2>9. Plain(r, e)
        <3>1. Row(<<1, 1, m>>, <<y, z, b>>, 1, e)
            BY <2>5, <2>6, TripleIs
        <3> QED BY <2>8, <3>1, MadeEq DEF Plain
    <2>10. ASSUME NEW t, Fits(t, e)
           PROVE  /\ Holds(p, t) <=> (t[y] = 1 <=> -t[x] <= k)
                  /\ Holds(q, t) <=> (t[z] = 1 <=> t[x] <= l)
                  /\ Holds(r, t) <=> t[y] + t[z] - t[b] = 1
                  /\ t[y] \in {0, 1} /\ t[z] \in {0, 1} /\ t[b] \in {0, 1} /\ t[x] \in Int
        <3> HIDE DEF p, q, r
        <3>1. /\ Holds(p, t) <=> (t[y] = 1 <=> -t[x] <= k)
              /\ Holds(q, t) <=> (t[z] = 1 <=> t[x] <= l)
              /\ t[x] \in Int
            BY <2>5, <2>6, <2>10, UnitIs, LeReifHolds DEF p, q
        <3>2. SumOf(<<1, 1, m>>, <<y, z, b>>, t) = t[y] + t[z] + m * t[b]
            BY <2>5, <2>6, <2>10, TripleIs
        <3>3. t[y] \in {0, 1} /\ t[z] \in {0, 1} /\ t[b] \in {0, 1}
            BY <2>5, <2>6, <2>10, FitsColumns
        <3>4. m * t[b] = -t[b]
            BY <2>8, <3>3
        <3>5. Holds(r, t) <=> t[y] + t[z] - t[b] = 1
            BY <2>8, <3>2, <3>3, <3>4, EqHolds DEF r
        <3> QED BY <3>1, <3>3, <3>5
    <2>11. PICK calls : calls = <<p, q, r>>
        OBVIOUS
    <2>12. todo' = calls \o Tail(todo) /\ UNCHANGED <<model, out, shared>>
        BY <2>3, <2>11 DEF IntoNew
    <2> HIDE DEF p, q, r
    <2>13. calls \in Seq(Range(calls)) /\ Range(calls) = {p, q, r} /\ \A h \in Range(calls) : Plain(h, e)
        BY <2>7, <2>9, <2>11, ThreeCalls
    <2>14. \A t : Meets(t, Range(calls)) <=> Holds(p, t) /\ Holds(q, t) /\ Holds(r, t)
        BY <2>13 DEF Meets
    <2>15. ASSUME NEW t, Fits(t, e) PROVE Holds(Call, t) <=> (t[b] = 1 <=> -t[x] <= k /\ t[x] <= l)
        <3>1. t[x] \in si <=> -t[x] <= k /\ t[x] <= l
            BY <2>2, <2>10, <2>15
        <3>2. t[x] \in dom[x]
            BY <1>3, <2>1, <2>5, <2>6, <2>15, FitsColumns DEF Longer
        <3> QED BY <1>1, <1>4, <3>1, <3>2
    <2>16. ASSUME NEW t, Fits(t, e), Meets(t, Range(calls)) PROVE Holds(Call, t)
        <3>1. PICK v \in Int, g \in {0, 1}, h \in {0, 1}, w \in {0, 1} :
                v = t[x] /\ g = t[y] /\ h = t[z] /\ w = t[b]
            BY <2>10, <2>16
        <3>2. (g = 1 <=> -v <= k) /\ (h = 1 <=> v <= l) /\ g + h - w = 1
            BY <2>10, <2>14, <2>16, <3>1
        <3>3. w = 1 <=> -v <= k /\ v <= l
            BY <2>2, <3>2
        <3> QED BY <2>15, <2>16, <3>1, <3>3
    <2>17. ASSUME NEW s, Fits(s, d), At1(s), Holds(Call, s)
           PROVE  \E t : Fits(t, e) /\ Alike(s, t, 1 .. Len(d)) /\ Meets(t, Range(calls))
        <3>1. PICK v \in Int, w \in {0, 1} : v = s[x] /\ w = s[b]
            BY <1>3, <2>17
        <3>2. PICK g, h : g = (IF -v <= k THEN 1 ELSE 0) /\ h = IF v <= l THEN 1 ELSE 0
            OBVIOUS
        <3>7. g \in {0, 1} /\ h \in {0, 1}
            BY <3>2
        <3>3. PICK t : Fits(t, e) /\ Alike(s, t, 1 .. Len(d)) /\ t[y] = g /\ t[z] = h
            <4>1. BitsFree(d, e, y, z)
                BY <2>5
            <4> QED BY <2>17, <3>7, <4>1 DEF BitsFree
        <3>4. t[x] = v /\ t[b] = w
            BY <2>6, <3>1, <3>3 DEF Alike
        <3>5. w = 1 <=> -v <= k /\ v <= l
            BY <1>4, <2>2, <2>17, <3>1
        <3>6. g + h - w = 1
            BY <2>2, <3>2, <3>5
        <3> QED BY <2>10, <2>14, <3>2, <3>3, <3>4, <3>6
    <2>18. Sound(calls, dom') /\ Complete(calls, dom')
        BY <2>1, <2>16, <2>17 DEF Sound, Complete, At1
    <2> QED BY <1>3, <2>1, <2>5, <2>12, <2>13, <2>18, NewReplaced
<1> QED BY <1>5, <1>6, <1>7, <1>8, <1>9, <1>10, <1>11

-----------------------------------------------------------------------------
(***************************************************************************)
(* Sums of the indicators of an encoding.                                  *)
(***************************************************************************)
Distinct(f, n) == \A i, j \in 1 .. n : f[i] = f[j] => i = j

Picks(ps, x, f, n) ==
    /\ n \in Nat /\ ps = [i \in 1 .. n |-> ps[i]] /\ \A i \in 1 .. n : f[i] \in Int /\ ps[i] = mip_select_at(x, f[i])
    /\ Distinct(f, n)

\* One of the indicators is 1 at most, and then the sum is its coefficient.
Picked(co, ps, x, f, n, s) ==
    /\ \A i \in 1 .. n : s[x] = f[i] => SumOf(co, ps, s) = co[i]
    /\ (\A i \in 1 .. n : s[x] # f[i]) => SumOf(co, ps, s) = 0

LEMMA PicksAre ==
    ASSUME Working, NEW x, x \in DOMAIN select, NEW ps, NEW f, NEW n, Picks(ps, x, f, n),
           NEW co, co \in Seq(Int), Len(co) = n
    PROVE  /\ \A k \in Int : Row(co, ps, k, dom)
           /\ ps \in Seq(Booleans(dom)) /\ Len(ps) = n
           /\ \A s : Fits(s, dom) /\ EncodedAt(s) => Picked(co, ps, x, f, n, s) /\ SumOf(co, ps, s) \in Int
<1>1. /\ n \in Nat /\ ps = [i \in 1 .. n |-> ps[i]]
      /\ \A i \in 1 .. n : f[i] \in Int /\ ps[i] = mip_select_at(x, f[i])
    BY DEF Picks
<1>2. \A i \in 1 .. n : ps[i] \in Booleans(dom) /\ ps[i] \in Columns(dom)
    BY <1>1, SelectedIs
<1>3. ps \in Seq(Booleans(dom)) /\ ps \in Seq(Columns(dom)) /\ Len(ps) = n
    <2>1. ps \in [1 .. n -> Booleans(dom)] /\ ps \in [1 .. n -> Columns(dom)]
        BY <1>1, <1>2
    <2> QED BY <1>1, <2>1
<1>4. \A k \in Int : Row(co, ps, k, dom)
    BY <1>3 DEF Row
<1>5. Domains(dom)
    BY DEF Working, Typed
<1>6. ASSUME NEW s, Fits(s, dom), EncodedAt(s) PROVE Picked(co, ps, x, f, n, s) /\ SumOf(co, ps, s) \in Int
    <2>1. Summable(co, ps, s) /\ SumOf(co, ps, s) \in Int
        <3>1. PICK k \in Int : k = 0
            OBVIOUS
        <3> QED BY <1>4, <1>5, <1>6, <3>1, SummableIn
    <2>2. \A i \in 1 .. n : s[ps[i]] \in {0, 1} /\ (s[ps[i]] = 1 <=> s[x] = f[i])
        BY <1>1, <1>6, SelectedIs
    <2>3. ASSUME NEW k \in 1 .. n, s[x] = f[k] PROVE SumOf(co, ps, s) = co[k]
        <3>1. \A i \in 1 .. Len(ps) : s[ps[i]] = IF i = k THEN 1 ELSE 0
            BY <1>3, <2>2, <2>3 DEF Picks, Distinct
        <3>2. k \in 1 .. Len(ps)
            BY <1>3
        <3> QED BY <2>1, <3>1, <3>2, SumOneHot
    <2>4. ASSUME \A i \in 1 .. n : s[x] # f[i] PROVE SumOf(co, ps, s) = 0
        <3>1. \A i \in 1 .. Len(ps) : s[ps[i]] = 0
            BY <1>3, <2>2, <2>4
        <3> QED BY <2>1, <3>1, SumAllZero
    <2> QED BY <2>1, <2>3, <2>4 DEF Picked
<1> QED BY <1>3, <1>4, <1>6

LEMMA AscDistinct ==
    ASSUME NEW S, Finite(S)
    PROVE  Distinct(Asc(S), Cardinality(S))
BY AscIs DEF Distinct

LEMMA SelectSeqIs ==
    ASSUME Working, NEW x, x \in DOMAIN select, NEW S, Finite(S), NEW w, w \in Int
    PROVE  /\ \A k \in Int : Row(Same(w, S), SelectSeq_(x, S), k, dom)
           /\ \A s : Fits(s, dom) /\ EncodedAt(s) =>
                SumOf(Same(w, S), SelectSeq_(x, S), s) = IF s[x] \in S THEN w ELSE 0
<1>1. PICK n, f, co, ps : n = Cardinality(S) /\ f = Asc(S) /\ co = Same(w, S) /\ ps = SelectSeq_(x, S)
    OBVIOUS
<1>2. /\ n \in Nat /\ \A i \in 1 .. n : f[i] \in S /\ f[i] \in Int
      /\ \A v \in S : \E i \in 1 .. n : f[i] = v
    BY <1>1, AscIs
<1>3. co = [i \in 1 .. n |-> w] /\ ps = [i \in 1 .. n |-> mip_select_at(x, f[i])]
    BY <1>1 DEF Same, SelectSeq_
<1>4. co \in Seq(Int) /\ Len(co) = n /\ \A i \in 1 .. n : co[i] = w
    BY <1>2, <1>3
<1>5. Picks(ps, x, f, n)
    <2>1. Distinct(f, n)
        BY <1>1, AscDistinct
    <2> QED BY <1>2, <1>3, <2>1 DEF Picks
<1>6. /\ \A k \in Int : Row(co, ps, k, dom)
      /\ \A s : Fits(s, dom) /\ EncodedAt(s) => Picked(co, ps, x, f, n, s)
    BY <1>4, <1>5, PicksAre
<1>7. ASSUME NEW s, Fits(s, dom), EncodedAt(s) PROVE SumOf(co, ps, s) = IF s[x] \in S THEN w ELSE 0
    <2>1. Picked(co, ps, x, f, n, s)
        BY <1>6, <1>7
    <2>2. CASE s[x] \in S
        <3>1. PICK i \in 1 .. n : f[i] = s[x]
            BY <1>2, <2>2
        <3> QED BY <1>4, <2>1, <2>2, <3>1 DEF Picked
    <2>3. CASE s[x] \notin S
        BY <1>2, <2>1, <2>3 DEF Picked
    <2> QED BY <2>2, <2>3
<1> QED BY <1>1, <1>6, <1>7

\* A row with one term more.
LEMMA AppendedIs ==
    ASSUME NEW d, Domains(d), NEW co, NEW xs, NEW k, Row(co, xs, k, d), NEW w, w \in Int, NEW x, x \in Columns(d)
    PROVE  /\ \A l \in Int : Row(Append(co, w), Append(xs, x), l, d)
           /\ \A s : Fits(s, d) => /\ SumOf(Append(co, w), Append(xs, x), s) = SumOf(co, xs, s) + w * s[x]
                                   /\ SumOf(co, xs, s) \in Int /\ s[x] \in Int
<1>1. Append(co, w) \in Seq(Int) /\ Append(xs, x) \in Seq(Columns(d)) /\ Len(Append(co, w)) = Len(Append(xs, x))
    BY DEF Row
<1>2. ASSUME NEW s, Fits(s, d)
      PROVE  /\ SumOf(Append(co, w), Append(xs, x), s) = SumOf(co, xs, s) + w * s[x]
             /\ SumOf(co, xs, s) \in Int /\ s[x] \in Int
    <2>1. Summable(co, xs, s) /\ SumOf(co, xs, s) \in Int
        BY <1>2, SummableIn
    <2>2. x \in Nat /\ s[x] \in Int
        BY <1>2, FitsColumns
    <2> QED BY <2>1, <2>2, SumAppended
<1> QED BY <1>1, <1>2 DEF Row

\* mip_set_in_encoded: a sum of the indicators of the encoding.
LEMMA SetInEncodedReplaced ==
    ASSUME Formed, mip_set_in_encoded
    PROVE  Replaced
<1>1. PICK c, x, b, S : c = Call /\ x = c.x /\ b = c.b /\ S = c.s
    OBVIOUS
<1>2. /\ Working /\ c.c \in {"in_encoded", "in_encoded_imp"} /\ Proper(c, dom) /\ Domains(dom)
    <2>1. PICK k \in {"in_encoded", "in_encoded_imp"} : Doing(k)
        BY DEF mip_set_in_encoded
    <2> QED BY <1>1, <2>1, WorkingIs
<1>3. Heads
    BY <1>1, <1>2 DEF Heads, Flat
<1>4. /\ x \in Columns(dom) /\ Finite(S) /\ (c.c = "in_encoded" => b \in Booleans(dom) \cup {0})
      /\ (c.c = "in_encoded_imp" => b \in Booleans(dom) /\ b # 0)
    BY <1>1, <1>2, MemberParts, BooleanIs DEF Members
<1>5. \A s : At1(s) => Fits(s, dom) /\ EncodedAt(s) /\ (b # 0 => s[b] \in {0, 1})
    BY <1>2, <1>4, BitIs DEF At1
<1>6. \A s : /\ c.c = "in_encoded" => (Holds(Call, s) <=> ((b = 0 \/ s[b] = 1) <=> s[x] \in S))
             /\ c.c = "in_encoded_imp" => (Holds(Call, s) <=> (s[b] = 1 => s[x] \in S))
    BY <1>1, <1>2, HoldsMember
<1>7. PICK kind : kind = "in_encoded_imp"
    OBVIOUS
<1>8. \/ First(Select(x))
      \/ /\ x \in DOMAIN select
         /\ Into(<<IF c.c = kind THEN Le(Append(Same(-1, S), 1), Append(SelectSeq_(x, S), b), 0)
                   ELSE IF b = 0 THEN Eq(Same(1, S), SelectSeq_(x, S), 1)
                   ELSE Eq(Append(Same(1, S), -1), Append(SelectSeq_(x, S), b), 0)>>)
    BY <1>1, <1>7 DEF mip_set_in_encoded
<1>9. CASE First(Select(x))
    <2>1. Typed /\ todo # <<>> /\ Call.c \notin Flat /\ Call.c \notin {"element", "two", "times"}
        BY <1>1, <1>2 DEF Working, Flat
    <2> QED BY <1>4, <1>9, <2>1, SelectFirst
<1>10. CASE x \in DOMAIN select /\ c.c = kind /\ Into(<<Le(Append(Same(-1, S), 1), Append(SelectSeq_(x, S), b), 0)>>)
    <2>1. PICK m, p, z, co, xs : m = -1 /\ p = 1 /\ z = 0 /\ m \in Int /\ p \in Int /\ z \in Int /\ co = Same(m, S) /\ xs = SelectSeq_(x, S)
        OBVIOUS
    <2>2. /\ Row(co, xs, z, dom)
          /\ \A s : Fits(s, dom) /\ EncodedAt(s) => SumOf(co, xs, s) = IF s[x] \in S THEN m ELSE 0
        BY <1>2, <1>4, <1>10, <2>1, SelectSeqIs
    <2>3. b \in Columns(dom) /\ b \in Booleans(dom) /\ b # 0
        BY <1>2, <1>4, <1>7, <1>10, BooleanIs
    <2>4. /\ Row(Append(co, p), Append(xs, b), z, dom)
          /\ \A s : Fits(s, dom) => SumOf(Append(co, p), Append(xs, b), s) = SumOf(co, xs, s) + p * s[b]
        BY <1>2, <2>1, <2>2, <2>3, AppendedIs
    <2> DEFINE q == Le(Append(co, p), Append(xs, b), z)
    <2>5. Plain(q, dom)
        BY <2>4, MadeLe DEF Plain
    <2>6. ASSUME NEW s, At1(s) PROVE Holds(Call, s) <=> Holds(q, s)
        <3>1. s[b] \in {0, 1} /\ Fits(s, dom) /\ EncodedAt(s)
            BY <1>5, <2>3, <2>6
        <3>2. p * s[b] = s[b]
            BY <2>1, <3>1
        <3>3. SumOf(Append(co, p), Append(xs, b), s) = (IF s[x] \in S THEN m ELSE 0) + s[b]
            BY <2>2, <2>4, <3>1, <3>2
        <3>4. Holds(q, s) <=> (IF s[x] \in S THEN -1 ELSE 0) + s[b] <= 0
            BY <2>1, <3>3, LeHolds
        <3>5. Holds(q, s) <=> (s[b] = 1 => s[x] \in S)
            BY <3>1, <3>4
        <3> QED BY <1>6, <1>7, <1>10, <3>5
    <2>7. Into(<<q>>)
        BY <1>10, <2>1
    <2> HIDE DEF q
    <2> QED BY <1>3, <2>5, <2>6, <2>7, IntoOne
<1>11. CASE x \in DOMAIN select /\ c.c # kind /\ b = 0 /\ Into(<<Eq(Same(1, S), SelectSeq_(x, S), 1)>>)
    <2>1. PICK p, co, xs : p = 1 /\ p \in Int /\ co = Same(p, S) /\ xs = SelectSeq_(x, S)
        OBVIOUS
    <2>2. /\ Row(co, xs, p, dom)
          /\ \A s : Fits(s, dom) /\ EncodedAt(s) => SumOf(co, xs, s) = IF s[x] \in S THEN p ELSE 0
        BY <1>2, <1>4, <1>11, <2>1, SelectSeqIs
    <2> DEFINE q == Eq(co, xs, p)
    <2>3. Plain(q, dom)
        BY <2>2, MadeEq DEF Plain
    <2>4. ASSUME NEW s, At1(s) PROVE Holds(Call, s) <=> Holds(q, s)
        <3>1. Holds(q, s) <=> s[x] \in S
            BY <1>5, <2>1, <2>2, <2>4, EqHolds
        <3> QED BY <1>2, <1>6, <1>7, <1>11, <3>1
    <2>5. Into(<<q>>)
        BY <1>11, <2>1
    <2> HIDE DEF q
    <2> QED BY <1>3, <2>3, <2>4, <2>5, IntoOne
<1>12. CASE /\ x \in DOMAIN select /\ c.c # kind /\ b # 0
            /\ Into(<<Eq(Append(Same(1, S), -1), Append(SelectSeq_(x, S), b), 0)>>)
    <2>1. PICK m, p, z, co, xs : m = -1 /\ p = 1 /\ z = 0 /\ m \in Int /\ p \in Int /\ z \in Int /\ co = Same(p, S) /\ xs = SelectSeq_(x, S)
        OBVIOUS
    <2>2. /\ Row(co, xs, z, dom)
          /\ \A s : Fits(s, dom) /\ EncodedAt(s) => SumOf(co, xs, s) = IF s[x] \in S THEN p ELSE 0
        BY <1>2, <1>4, <1>12, <2>1, SelectSeqIs
    <2>3. b \in Columns(dom) /\ b \in Booleans(dom)
        BY <1>2, <1>4, <1>7, <1>12, BooleanIs
    <2>4. /\ Row(Append(co, m), Append(xs, b), z, dom)
          /\ \A s : Fits(s, dom) => SumOf(Append(co, m), Append(xs, b), s) = SumOf(co, xs, s) + m * s[b]
        BY <1>2, <2>1, <2>2, <2>3, AppendedIs
    <2> DEFINE q == Eq(Append(co, m), Append(xs, b), z)
    <2>5. Plain(q, dom)
        BY <2>4, MadeEq DEF Plain
    <2>6. ASSUME NEW s, At1(s) PROVE Holds(Call, s) <=> Holds(q, s)
        <3>1. s[b] \in {0, 1} /\ Fits(s, dom) /\ EncodedAt(s)
            BY <1>5, <1>12, <2>6
        <3>2. m * s[b] = -s[b]
            BY <2>1, <3>1
        <3>3. SumOf(Append(co, m), Append(xs, b), s) = (IF s[x] \in S THEN p ELSE 0) - s[b]
            BY <2>1, <2>2, <2>4, <3>1, <3>2
        <3>4. Holds(q, s) <=> (IF s[x] \in S THEN 1 ELSE 0) - s[b] = 0
            BY <2>1, <3>3, EqHolds
        <3>5. Holds(q, s) <=> (s[b] = 1 <=> s[x] \in S)
            BY <3>1, <3>4
        <3> QED BY <1>2, <1>6, <1>7, <1>12, <3>5
    <2>7. Into(<<q>>)
        BY <1>12, <2>1
    <2> HIDE DEF q
    <2> QED BY <1>3, <2>5, <2>6, <2>7, IntoOne
<1> QED BY <1>7, <1>8, <1>9, <1>10, <1>11, <1>12

-----------------------------------------------------------------------------
(***************************************************************************)
(* Looking an element up.                                                  *)
(***************************************************************************)
LEMMA ValuesFinite ==
    ASSUME NEW L, IsFiniteSet(L), NEW g, g = [i \in L |-> g[i]], \A i \in L : g[i] \in Int
    PROVE  Finite({g[i] : i \in L})
<1>1. PICK T : T = {g[i] : i \in L}
    OBVIOUS
<1>2. g \in [L -> T] /\ \A t \in T : \E i \in L : g[i] = t
    BY <1>1
<1>3. g \in Surjection(L, T)
    BY <1>2 DEF Surjection
<1>4. IsFiniteSet(T)
    BY <1>3, FS_Surjection
<1> QED BY <1>1, <1>4 DEF Finite

\* Where an index may point.
LEMMA PositionsFinite ==
    ASSUME NEW n, n \in Nat, NEW L, L \subseteq 1 .. n, NEW o, o \in Int
    PROVE  Finite(L) /\ Finite({i + o - 1 : i \in L})
<1>1. Finite(1 .. n)
    BY IntervalFinite
<1>2. Finite(L)
    BY <1>1, FiniteParts
<1> DEFINE g == [i \in L |-> i + o - 1]
<1>3. g = [i \in L |-> g[i]] /\ \A i \in L : g[i] \in Int
    OBVIOUS
<1>4. {g[i] : i \in L} = {i + o - 1 : i \in L}
    OBVIOUS
<1> HIDE DEF g
<1>5. Finite({g[i] : i \in L})
    BY <1>2, <1>3, ValuesFinite DEF Finite
<1> QED BY <1>2, <1>4, <1>5

LEMMA LookedUp ==
    ASSUME NEW calls, NEW w, NEW p, calls = <<w, p>>, p.c = "element_live", w.c # "element_live",
           Call.c = "element", NEW e,
           \A t : Holds(w, t) => AtOne(p, t)
    PROVE  LooksUp(calls, e)
<1>1. Range(calls) = {w, p}
    BY TwoCalls
<1>2. \A t : AtOne(w, t)
    BY DEF AtOne
<1> QED BY <1>1, <1>2 DEF LooksUp, Meets

\* mip_int_element: the index is narrowed to the live positions first.
LEMMA ElementReplaced ==
    ASSUME Formed, mip_int_element
    PROVE  Replaced
<1>1. PICK c, o, index, value, xs, live :
        /\ c = Call /\ o = c.offset /\ index = c.index /\ value = c.value /\ xs = c.xs
        /\ live = mip_live_positions(xs, value)
    OBVIOUS
<1>2. /\ Working /\ Typed /\ todo # <<>> /\ c.c = "element" /\ Proper(c, dom) /\ Domains(dom)
      /\ 1 \in Columns(dom)
    BY <1>1, WorkingIs DEF mip_int_element, Working
<1>3. /\ xs \in Seq(Columns(dom)) /\ o \in Int /\ index \in Columns(dom) /\ value \in Columns(dom)
      /\ Len(xs) \in Nat /\ \A i \in 1 .. Len(xs) : xs[i] \in Columns(dom)
    BY <1>1, <1>2, LookupParts
<1>4. live \subseteq 1 .. Len(xs) /\ \A i \in 1 .. Len(xs) : i \in live <=> dom[xs[i]] \cap dom[value] # {}
    BY <1>1 DEF mip_live_positions
<1>5. \A s : Holds(Call, s) <=> \E i \in 1 .. Len(xs) : s[index] = i + o - 1 /\ s[value] = s[xs[i]]
    BY <1>1, <1>2, HoldsLookup
<1>6. \A s : Fits(s, dom) =>
        (Holds(Call, s) <=> \E i \in live : s[index] = i + o - 1 /\ s[value] = s[xs[i]])
    <2> SUFFICES ASSUME NEW s, Fits(s, dom), NEW i \in 1 .. Len(xs), s[value] = s[xs[i]] PROVE i \in live
        BY <1>4, <1>5
    <2>1. s[value] \in dom[value] /\ s[xs[i]] \in dom[xs[i]]
        BY <1>2, <1>3, FitsColumns
    <2> QED BY <1>4, <2>1
<1>7. Longer(dom, dom)
    BY <1>2, LongerSelf
<1>8. CASE live = {}
    <2>1. PICK calls : calls = <<Fail>>
        OBVIOUS
    <2>2. calls \in Seq(Range(calls)) /\ Range(calls) = {Fail}
        BY <2>1, OneCall
    <2>3. Proper(Fail, dom) /\ Fail.c = "within"
        BY <1>2, MadeFail
    <2>4. CallList(calls, dom) /\ \A k \in Range(calls) : k.c \notin {"post", "two", "element", "element_live", "times"}
        BY <2>2, <2>3 DEF CallList
    <2>5. InTurn(calls, dom) /\ NewTwos(calls) /\ Multiplied(calls, dom)
        BY <2>4, PlainInTurn, NoneMultiplied
    <2>6. \A s : ~Meets(s, Range(calls))
        BY <2>2, FailHolds DEF Meets
    <2>7. Sound(calls, dom)
        BY <2>6 DEF Sound
    <2>8. Complete(calls, dom)
        BY <1>6, <1>8 DEF Complete
    <2>9. LooksUp(calls, dom)
        BY <2>4 DEF LooksUp, AtOne
    <2>10. Shaped(calls, dom)
        BY <1>2, <1>7, <2>4, <2>5 DEF Shaped
    <2>11. Into(calls)
        BY <1>1, <1>8, <2>1 DEF mip_int_element
    <2>12. Call.c \notin Flat
        BY <1>1, <1>2 DEF Flat
    <2> QED BY <1>2, <2>5, <2>7, <2>8, <2>9, <2>10, <2>11, <2>12, IntoReplaced DEF Expands
<1>9. CASE live # {}
    <2>1. PICK S : S = {i + o - 1 : i \in live}
        OBVIOUS
    <2>2. Finite(S)
        BY <1>3, <1>4, <2>1, PositionsFinite
    <2> DEFINE w == In(index, S)
               p == ElementOf(xs, o, index, value, live)
    <2>3. Proper(w, dom) /\ w.c = "in"
        BY <1>3, <2>2, MadeWithin
    <2>4. Proper(p, dom) /\ p.c = "element_live"
        BY <1>3, <1>4, <1>9, MadeElement
    <2>5. \A s : Holds(w, s) <=> s[index] \in S
        BY InHolds
    <2>6. \A s : Holds(p, s) <=> \E i \in live : s[index] = i + o - 1 /\ s[value] = s[xs[i]]
        <3>1. p.xs = xs /\ p.offset = o /\ p.index = index /\ p.value = value /\ p.live = live
            BY DEF ElementOf
        <3> HIDE DEF p
        <3> QED BY <2>4, <3>1, HoldsLookup
    <2>7. \A s : AtOne(p, s) <=> s[index] \in S
        <3>1. p.c = "element_live" /\ p.offset = o /\ p.index = index /\ p.live = live
            BY DEF ElementOf
        <3>2. Positions(p) = S
            BY <2>1, <3>1 DEF Positions
        <3> HIDE DEF p
        <3> QED BY <3>1, <3>2 DEF AtOne
    <2>8. PICK calls : calls = <<w, p>>
        OBVIOUS
    <2>9. Into(calls)
        BY <1>1, <1>9, <2>1, <2>8 DEF mip_int_element
    <2>20. p.xs = Call.xs
        BY <1>1 DEF ElementOf
    <2> HIDE DEF w, p
    <2>10. calls \in Seq(Range(calls)) /\ Range(calls) = {w, p}
        BY <2>8, TwoCalls
    <2>11. CallList(calls, dom) /\ \A k \in Range(calls) : k.c \notin {"post", "two", "times"}
        BY <2>3, <2>4, <2>10 DEF CallList
    <2>12. InTurn(calls, dom) /\ NewTwos(calls) /\ Multiplied(calls, dom)
        BY <2>11, PlainInTurn, NoneMultiplied
    <2>13. Shaped(calls, dom)
        BY <1>1, <1>2, <1>7, <2>3, <2>4, <2>10, <2>11, <2>12, <2>20 DEF Shaped
    <2>14. \A s : Meets(s, Range(calls)) <=> Holds(w, s) /\ Holds(p, s)
        BY <2>10 DEF Meets
    <2>15. \A s : Holds(p, s) => Holds(w, s)
        BY <2>1, <2>5, <2>6
    <2>16. \A s : Fits(s, dom) => (Holds(Call, s) <=> Meets(s, Range(calls)))
        BY <1>6, <2>6, <2>14, <2>15
    <2>17. Sound(calls, dom) /\ Complete(calls, dom)
        <3>1. \A s : Alike(s, s, 1 .. Len(dom))
            BY DEF Alike
        <3> QED BY <2>16, <3>1 DEF Sound, Complete
    <2>18. LooksUp(calls, dom)
        BY <1>1, <1>2, <2>3, <2>4, <2>5, <2>7, <2>8, LookedUp
    <2>19. Call.c \notin Flat
        BY <1>1, <1>2 DEF Flat
    <2> QED BY <1>2, <2>9, <2>12, <2>13, <2>17, <2>18, <2>19, IntoReplaced DEF Expands
<1> QED BY <1>8, <1>9

\* The head when it is an element at one of its live positions.
LEMMA ElementHead ==
    ASSUME Formed, NEW c, c = Call, Doing("element_live")
    PROVE  /\ Heads /\ Working /\ Typed /\ Domains(dom) /\ todo # <<>> /\ Call.c \notin Flat
           /\ Call.c = "element_live" /\ c.xs \in Seq(Columns(dom))
           /\ Finite(c.live) /\ c.live # {} /\ Min(c.live) \in c.live /\ Max(c.live) \in c.live
           /\ \A i \in c.live : i \in 1 .. Len(c.xs) /\ i \in Int /\ Min(c.live) <= i /\ i <= Max(c.live)
           /\ \A i \in c.live : c.xs[i] \in Columns(dom)
           /\ c.offset \in Int /\ c.index \in Columns(dom) /\ c.value \in Columns(dom)
           /\ \A s : Holds(Call, s) <=> \E i \in c.live : s[c.index] = At(i) /\ s[c.value] = s[c.xs[i]]
           /\ \A s : At1(s) => Fits(s, dom) /\ EncodedAt(s) /\ \E i \in c.live : s[c.index] = At(i)
           /\ \A i : At(i) = i + c.offset - 1
<1>1. Working /\ Typed /\ todo # <<>> /\ Call.c = "element_live" /\ Proper(c, dom) /\ Domains(dom)
    BY WorkingIs DEF Working
<1>2. Heads /\ Call.c \notin Flat
    BY <1>1 DEF Heads, Flat
<1>3. /\ c.xs \in Seq(Columns(dom)) /\ c.offset \in Int /\ c.index \in Columns(dom) /\ c.value \in Columns(dom)
      /\ c.live # {} /\ c.live \subseteq 1 .. Len(c.xs)
    BY <1>1, LookupParts
<1>4. Finite(c.live)
    <2>1. Len(c.xs) \in Nat
        BY <1>3
    <2> QED BY <1>3, <2>1, PositionsFinite
<1>5. /\ Min(c.live) \in c.live /\ Max(c.live) \in c.live
      /\ \A i \in c.live : i \in Int /\ Min(c.live) <= i /\ i <= Max(c.live)
    BY <1>3, <1>4, EndsAre
<1>6. \A i \in c.live : c.xs[i] \in Columns(dom)
    BY <1>3
<1>7. \A i : At(i) = i + c.offset - 1
    BY DEF At
<1>8. \A s : Holds(Call, s) <=> \E i \in c.live : s[c.index] = i + c.offset - 1 /\ s[c.value] = s[c.xs[i]]
    BY <1>1, HoldsLookup
<1>9. \A s : At1(s) => Fits(s, dom) /\ EncodedAt(s) /\ \E i \in c.live : s[c.index] = i + c.offset - 1
    BY <1>1 DEF At1, AtOne, Positions
<1>10. \A s : Holds(Call, s) <=> \E i \in c.live : s[c.index] = At(i) /\ s[c.value] = s[c.xs[i]]
    BY <1>7, <1>8
<1>11. \A s : At1(s) => Fits(s, dom) /\ EncodedAt(s) /\ \E i \in c.live : s[c.index] = At(i)
    BY <1>7, <1>9
<1>12. \A i \in c.live : i \in 1 .. Len(c.xs)
    BY <1>3
<1> QED BY <1>1, <1>2, <1>3, <1>4, <1>5, <1>6, <1>7, <1>10, <1>11, <1>12

-----------------------------------------------------------------------------
\* An element of a variable array: each live position implies an equation.
LEMMA ElementOfManyReplaced ==
    ASSUME Formed, ElementOfMany
    PROVE  Replaced
<1>1. PICK c, x, n, f : c = Call /\ x = c.index /\ n = Cardinality(c.live) /\ f = Asc(c.live)
    OBVIOUS
<1>2. Doing("element_live")
    BY DEF ElementOfMany
<1>3. /\ Heads /\ Working /\ Typed /\ Domains(dom) /\ todo # <<>> /\ Call.c \notin Flat
      /\ Call.c = "element_live" /\ Finite(c.live) /\ x \in Columns(dom) /\ c.value \in Columns(dom)
      /\ c.offset \in Int
    BY <1>1, <1>2, ElementHead
<1>4. /\ \A i \in c.live : c.xs[i] \in Columns(dom) /\ i \in Int
      /\ \A s : Holds(Call, s) <=> \E i \in c.live : s[x] = At(i) /\ s[c.value] = s[c.xs[i]]
      /\ \A s : At1(s) => Fits(s, dom) /\ EncodedAt(s) /\ \E i \in c.live : s[x] = At(i)
    BY <1>1, <1>2, ElementHead
<1>5. \A i \in c.live : At(i) = i + c.offset - 1 /\ At(i) \in Int
    BY <1>1, <1>3, <1>4 DEF At
<1>6. /\ n \in Nat /\ DOMAIN f = 1 .. n
      /\ \A k \in 1 .. n : f[k] \in c.live
      /\ \A i \in c.live : \E k \in 1 .. n : f[k] = i
    BY <1>1, <1>3, AscIs
<1>7. CASE First(Select(x))
    <2>1. Call.c \notin {"element", "two", "times"}
        BY <1>3
    <2> QED BY <1>3, <1>7, <2>1, SelectFirst
<1>8. CASE /\ x \in DOMAIN select
           /\ Into([k \in DOMAIN f |-> EqImp(<<1, -1>>, <<c.value, c.xs[f[k]]>>, 0, mip_select_at(x, At(f[k])))])
    <2>1. PICK calls :
            calls = [k \in 1 .. n |-> EqImp(<<1, -1>>, <<c.value, c.xs[f[k]]>>, 0, mip_select_at(x, At(f[k])))]
        OBVIOUS
    <2>2. Into(calls)
        BY <1>6, <1>8, <2>1
    <2>3. calls \in Seq(Range(calls)) /\ Range(calls) = {calls[k] : k \in 1 .. n}
        <3>1. calls = [k \in 1 .. n |-> calls[k]]
            BY <2>1
        <3> QED BY <1>6, <3>1, MadeList
    <2>4. ASSUME NEW k \in 1 .. n
          PROVE  /\ Plain(calls[k], dom)
                 /\ \A s : At1(s) => (Holds(calls[k], s) <=> (s[x] = At(f[k]) => s[c.value] = s[c.xs[f[k]]]))
        <3>1. PICK y, b : y = c.xs[f[k]] /\ b = mip_select_at(x, At(f[k]))
            OBVIOUS
        <3>2. calls[k] = EqImp(<<1, -1>>, <<c.value, y>>, 0, b)
            BY <2>1, <3>1
        <3>3. f[k] \in c.live /\ y \in Columns(dom) /\ At(f[k]) \in Int
            BY <1>4, <1>5, <1>6, <3>1
        <3>4. /\ b \in Booleans(dom)
              /\ \A s : Fits(s, dom) /\ EncodedAt(s) => s[b] \in {0, 1} /\ (s[b] = 1 <=> s[x] = At(f[k]))
            BY <1>3, <1>8, <3>1, <3>3, SelectedIs
        <3>5. Row(<<1, -1>>, <<c.value, y>>, 0, dom)
            BY <1>3, <3>3, UnitsAre
        <3>6. Plain(calls[k], dom)
            BY <3>2, <3>4, <3>5, MadeImps DEF Plain
        <3>7. ASSUME NEW s, At1(s) PROVE Holds(calls[k], s) <=> (s[x] = At(f[k]) => s[c.value] = s[y])
            <4>1. Fits(s, dom) /\ EncodedAt(s)
                BY <1>4, <3>7
            <4>2. /\ s[c.value] \in Int /\ s[y] \in Int
                  /\ SumOf(<<1, -1>>, <<c.value, y>>, s) = s[c.value] - s[y]
                BY <1>3, <3>3, <4>1, UnitsAre
            <4>3. Holds(calls[k], s) <=> (s[b] = 1 => s[c.value] - s[y] = 0)
                BY <3>2, <4>2, EqImpHolds
            <4> QED BY <3>4, <4>1, <4>2, <4>3
        <3> QED BY <3>1, <3>6, <3>7
    <2>5. \A p \in Range(calls) : Plain(p, dom)
        BY <2>3, <2>4
    <2>6. ASSUME NEW s, At1(s) PROVE Holds(Call, s) <=> Meets(s, Range(calls))
        <3>1. Meets(s, Range(calls)) <=> \A k \in 1 .. n : s[x] = At(f[k]) => s[c.value] = s[c.xs[f[k]]]
            BY <2>3, <2>4, <2>6 DEF Meets
        <3>2. PICK j \in 1 .. n : s[x] = At(f[j])
            BY <1>4, <1>6, <2>6
        <3>3. ASSUME NEW i \in c.live, s[x] = At(i) PROVE i = f[j]
            <4>1. f[j] \in c.live
                BY <1>6
            <4>2. PICK u \in Int, v \in Int, w \in Int : u = i /\ v = f[j] /\ w = c.offset
                BY <1>3, <1>4, <4>1
            <4>3. At(i) = u + w - 1 /\ At(f[j]) = v + w - 1
                BY <1>5, <4>1, <4>2
            <4>4. u + w - 1 = v + w - 1
                BY <3>2, <3>3, <4>3
            <4>5. u = v
                BY <4>4
            <4> QED BY <4>2, <4>5
        <3>4. Holds(Call, s) <=> s[c.value] = s[c.xs[f[j]]]
            BY <1>4, <1>6, <3>2, <3>3
        <3>5. \A k \in 1 .. n : s[x] = At(f[k]) => f[k] = f[j]
            BY <1>6, <3>3
        <3> QED BY <3>1, <3>2, <3>4, <3>5
    <2>7. Agrees(calls)
        BY <2>6 DEF Agrees
    <2> QED BY <1>3, <2>2, <2>3, <2>5, <2>7, IntoPlain
<1> QED BY <1>1, <1>7, <1>8 DEF ElementOfMany, ElementLive

\* One Boolean tells two positions apart when they are the bounds of the index.
BothEnds == {At(i) : i \in ElementLive} = {lb(Call.index), ub(Call.index)}

LEMMA ElementEnds ==
    ASSUME Formed, Doing("element_live"), BothEnds, Cardinality(Call.live) = 2
    PROVE  /\ lb(Call.index) < ub(Call.index)
           /\ lb(Call.index) = At(Min(Call.live)) /\ ub(Call.index) = At(Max(Call.live))
           /\ Call.live = {Min(Call.live), Max(Call.live)}
<1>1. PICK c, x, i, j : c = Call /\ x = c.index /\ i = Min(c.live) /\ j = Max(c.live)
    OBVIOUS
<1>2. /\ Finite(c.live) /\ Working /\ x \in Columns(dom) /\ c.offset \in Int
      /\ \A k : At(k) = k + c.offset - 1
    BY <1>1, ElementHead
<1>3. c.live = {i, j} /\ i < j /\ i \in Int /\ j \in Int
    BY <1>1, <1>2, TwoValues, ElementHead
<1>4. PICK a, b : a = At(i) /\ b = At(j)
    OBVIOUS
<1>5. a \in Int /\ b \in Int /\ a < b
    BY <1>2, <1>3, <1>4
<1>6. {lb(x), ub(x)} = {a, b}
    BY <1>1, <1>3, <1>4 DEF BothEnds, ElementLive
<1>7. lb(x) \in Int /\ ub(x) \in Int /\ lb(x) <= ub(x)
    BY <1>2, ColumnIs
<1>8. lb(x) = a /\ ub(x) = b
    BY <1>5, <1>6, <1>7
<1> QED BY <1>1, <1>3, <1>4, <1>5, <1>8

\* An element at one of two live positions, when they are the index's bounds.
LEMMA ElementOfTwoReplaced ==
    ASSUME Formed, Narrows, ElementOfTwo, BothEnds
    PROVE  Replaced
<1>1. PICK c, x, i, j : c = Call /\ x = c.index /\ i = Min(c.live) /\ j = Max(c.live)
    OBVIOUS
<1>2. Doing("element_live") /\ Cardinality(c.live) = 2
    BY <1>1 DEF ElementOfTwo, ElementLive
<1>3. /\ Heads /\ Working /\ Typed /\ Domains(dom) /\ todo # <<>> /\ Call.c \notin Flat
      /\ Call.c = "element_live" /\ x \in Columns(dom) /\ c.value \in Columns(dom)
    BY <1>1, <1>2, ElementHead
<1>4. /\ c.xs[i] \in Columns(dom) /\ c.xs[j] \in Columns(dom)
      /\ \A s : Holds(Call, s) <=> \E k \in c.live : s[x] = At(k) /\ s[c.value] = s[c.xs[k]]
      /\ \A s : At1(s) => Fits(s, dom) /\ EncodedAt(s) /\ \E k \in c.live : s[x] = At(k)
    BY <1>1, <1>2, ElementHead
<1>5. lb(x) < ub(x) /\ lb(x) = At(i) /\ ub(x) = At(j) /\ c.live = {i, j} /\ lb(x) \in Int /\ ub(x) \in Int
    BY <1>1, <1>2, <1>3, ElementEnds, ColumnIs
<1>6. CASE First(Two(x))
    <2>1. Two(x).x = x
        BY <1>3, MadeEncoding
    <2>2. ASSUME NEW s, Fits(s, dom), Meets(s, Asked) PROVE s[x] \in {lb(x), ub(x)}
        <3>1. Meets(s, Others) /\ Call \in Asked
            BY <1>3, HeadIs, <2>2 DEF Meets, Others
        <3>2. AtOne(Call, s)
            BY <2>2, <3>1 DEF Narrows
        <3>3. s[x] \in {At(k) : k \in c.live}
            BY <1>1, <1>3, <3>2 DEF AtOne, Positions, At
        <3> QED BY <1>1, <3>3 DEF BothEnds, ElementLive
    <2>3. AtEnds(Two(x))
        BY <1>5, <2>1, <2>2 DEF AtEnds
    <2>4. Call.c \notin {"element", "two", "times"}
        BY <1>3
    <2> QED BY <1>3, <1>6, <2>3, <2>4, TwoFirst
<1>7. CASE /\ x \in DOMAIN two
           /\ Into(<<EqImp(<<1, -1>>, <<c.value, c.xs[j]>>, 0, two[x]),
                     EqImpNot(<<1, -1>>, <<c.value, c.xs[i]>>, 0, two[x])>>)
    <2>1. PICK b, v, y, z : b = two[x] /\ v = c.value /\ y = c.xs[j] /\ z = c.xs[i]
        OBVIOUS
    <2>2. b \in Booleans(dom) /\ v \in Columns(dom) /\ y \in Columns(dom) /\ z \in Columns(dom)
        BY <1>3, <1>4, <1>7, <2>1 DEF Working, Selects
    <2> DEFINE p == EqImp(<<1, -1>>, <<v, y>>, 0, b)
               q == EqImpNot(<<1, -1>>, <<v, z>>, 0, b)
    <2>3. Plain(p, dom) /\ Plain(q, dom)
        <3>1. Row(<<1, -1>>, <<v, y>>, 0, dom) /\ Row(<<1, -1>>, <<v, z>>, 0, dom)
            BY <1>3, <2>2, UnitsAre
        <3> QED BY <2>2, <3>1, MadeImps DEF Plain
    <2>4. ASSUME NEW s, At1(s) PROVE Holds(Call, s) <=> Holds(p, s) /\ Holds(q, s)
        <3>1. Fits(s, dom) /\ EncodedAt(s) /\ s[x] \in {lb(x), ub(x)} /\ s[b] \in {0, 1}
            BY <1>3, <1>4, <1>5, <2>2, <2>4, BitIs
        <3>2. s[b] = 1 <=> s[x] = ub(x)
            <4>1. PICK lo \in Int, hi \in Int : /\ lo < hi /\ dom[x] \subseteq lo .. hi
                                                /\ s[x] = IF s[two[x]] = 1 THEN hi ELSE lo
                BY <1>7, <3>1 DEF EncodedAt
            <4>2. lo <= lb(x) /\ ub(x) <= hi
                <5>1. lb(x) \in dom[x] /\ ub(x) \in dom[x]
                    BY <1>3, ColumnIs
                <5> QED BY <4>1, <5>1
            <4> QED BY <1>5, <2>1, <3>1, <4>1, <4>2
        <3>3. /\ s[v] \in Int /\ s[y] \in Int /\ s[z] \in Int
              /\ SumOf(<<1, -1>>, <<v, y>>, s) = s[v] - s[y]
              /\ SumOf(<<1, -1>>, <<v, z>>, s) = s[v] - s[z]
            BY <1>3, <2>2, <3>1, UnitsAre
        <3>4. /\ Holds(p, s) <=> (s[b] = 1 => s[v] - s[y] = 0)
              /\ Holds(q, s) <=> (s[b] = 0 => s[v] - s[z] = 0)
            BY <3>3, EqImpHolds, EqImpNotHolds
        <3>5. Holds(Call, s) <=> \/ s[x] = lb(x) /\ s[v] = s[z]
                                 \/ s[x] = ub(x) /\ s[v] = s[y]
            BY <1>4, <1>5, <2>1
        <3> QED BY <1>5, <3>1, <3>2, <3>3, <3>4, <3>5
    <2>5. Into(<<p, q>>)
        BY <1>7, <2>1
    <2> HIDE DEF p, q
    <2> QED BY <1>3, <2>3, <2>4, <2>5, IntoTwo
<1> QED BY <1>1, <1>6, <1>7 DEF ElementOfTwo, ElementLive

-----------------------------------------------------------------------------
\* Numbers in steps of one size.
Steps(g, lo, hi, step) ==
    \A i \in lo .. hi : g[i] \in Int /\ (i # hi => g[i + 1] - g[i] = step)

Line(g, lo, hi, step) == \A i \in lo .. hi : g[i] = g[lo] + step * (i - lo)

LEMMA Stepwise ==
    ASSUME NEW lo, NEW hi, lo \in Int, hi \in Int, lo <= hi, NEW g, NEW step, step \in Int,
           Steps(g, lo, hi, step)
    PROVE  Line(g, lo, hi, step)
<1> DEFINE n == hi - lo
           S == {j \in 0 .. n : g[lo + j] = g[lo] + step * j}
<1> USE DEF Steps
<1>1. n \in Nat /\ \A j \in 0 .. n : lo + j \in lo .. hi /\ g[lo + j] \in Int
    OBVIOUS
<1>2. 0 \in S
    <2>1. lo + 0 = lo /\ step * 0 = 0 /\ 0 \in 0 .. n /\ g[lo] \in Int
        BY <1>1
    <2> QED BY <2>1
<1>3. ASSUME NEW j \in 0 .. n - 1, j \in S PROVE j + 1 \in S
    <2>1. /\ j \in Int /\ j + 1 \in 0 .. n /\ lo + j \in lo .. hi /\ lo + j # hi /\ (lo + j) + 1 = lo + (j + 1)
          /\ g[lo + j] \in Int /\ g[lo + (j + 1)] \in Int
        BY <1>1
    <2>2. g[lo + (j + 1)] - g[lo + j] = step
        BY <2>1
    <2>3. g[lo + j] = g[lo] + step * j
        BY <1>3
    <2>4. PICK m \in Int : m = step * j
        BY <2>1
    <2>5. step * (j + 1) = m + step
        BY <2>1, <2>4
    <2>6. g[lo] \in Int
        OBVIOUS
    <2>7. g[lo + (j + 1)] = g[lo] + step * (j + 1)
        BY <2>1, <2>2, <2>3, <2>4, <2>5, <2>6
    <2> QED BY <2>1, <2>7
<1> HIDE DEF S, n
<1>4. \A j \in 0 .. n : j \in S
    BY <1>1, <1>2, <1>3, RangeInduction, Zenon
<1>5. ASSUME NEW i \in lo .. hi PROVE g[i] = g[lo] + step * (i - lo)
    <2>1. i - lo \in 0 .. n /\ lo + (i - lo) = i
        BY DEF n
    <2>2. i - lo \in S
        BY <1>4, <2>1
    <2> QED BY <2>1, <2>2 DEF S
<1> QED BY <1>5 DEF Line

LEMMA FixedHead ==
    ASSUME Formed, NEW c, c = Call, Doing("element_live"), \A i \in c.live : is_fixed(c.xs[i]),
           NEW g, g = [i \in c.live |-> fix(c.xs[i])]
    PROVE  /\ \A i \in c.live : g[i] \in Int /\ g[i] = fix(c.xs[i])
           /\ \A s : At1(s) =>
                (Holds(Call, s) <=> \E i \in c.live : s[c.index] = At(i) /\ s[c.value] = g[i])
<1>1. /\ Working /\ \A i \in c.live : c.xs[i] \in Columns(dom)
      /\ \A s : Holds(Call, s) <=> \E i \in c.live : s[c.index] = At(i) /\ s[c.value] = s[c.xs[i]]
    BY ElementHead
<1>2. \A i \in c.live : g[i] \in Int /\ g[i] = fix(c.xs[i])
    BY <1>1, ColumnIs DEF fix
<1>3. \A s : At1(s) => \A i \in c.live : s[c.xs[i]] = g[i]
    BY <1>1, <1>2, ValueIs DEF At1
<1>4. ASSUME NEW s, At1(s)
      PROVE  Holds(Call, s) <=> \E i \in c.live : s[c.index] = At(i) /\ s[c.value] = g[i]
    <2>1. \A i \in c.live : s[c.xs[i]] = g[i]
        BY <1>3, <1>4
    <2>2. Holds(Call, s) <=> \E i \in c.live : s[c.index] = At(i) /\ s[c.value] = s[c.xs[i]]
        BY <1>1
    <2> QED BY <2>1, <2>2
<1> QED BY <1>2, <1>4

\* An element of constants: linear where they are in steps, else by the encoding.
LEMMA ElementFixedReplaced ==
    ASSUME Formed, mip_int_element_fixed
    PROVE  Replaced
<1>1. PICK c, x, y, o, live, lo, hi : /\ c = Call /\ x = c.index /\ y = c.value /\ o = c.offset /\ live = c.live
                                      /\ lo = Min(live) /\ hi = Max(live)
    OBVIOUS
<1>2. PICK g : g = [i \in live |-> fix(c.xs[i])]
    OBVIOUS
<1>3. Doing("element_live") /\ \A i \in live : is_fixed(c.xs[i])
    BY <1>1 DEF mip_int_element_fixed, ElementLive
<1>4. /\ Heads /\ Working /\ Typed /\ Domains(dom) /\ todo # <<>> /\ Call.c \notin Flat
      /\ Call.c = "element_live" /\ x \in Columns(dom) /\ y \in Columns(dom) /\ o \in Int
      /\ Finite(live) /\ live # {} /\ lo \in live /\ hi \in live
    BY <1>1, <1>3, ElementHead
<1>5. /\ \A i \in live : i \in Int /\ lo <= i /\ i <= hi
      /\ \A s : At1(s) => Fits(s, dom) /\ EncodedAt(s) /\ \E i \in live : s[x] = At(i)
      /\ \A i : At(i) = i + o - 1
    BY <1>1, <1>3, ElementHead
<1>6. /\ \A i \in live : g[i] \in Int /\ g[i] = fix(c.xs[i])
      /\ \A s : At1(s) => (Holds(Call, s) <=> \E i \in live : s[x] = At(i) /\ s[y] = g[i])
    BY <1>1, <1>2, <1>3, FixedHead
<1>7. \A i \in live : At(i) \in Int
    BY <1>4, <1>5
<1>8. ASSUME NEW s, At1(s) PROVE s[x] \in Int /\ s[y] \in Int
    BY <1>4, <1>5, <1>8, ValueIs
<1> DEFINE values == {g[i] : i \in live}
<1>9. {fix(c.xs[i]) : i \in live} = values /\ fix(c.xs[lo]) = g[lo]
    BY <1>4, <1>6
<1>10. values # {} /\ Finite(values)
    <2>1. g = [i \in live |-> g[i]] /\ \A i \in live : g[i] \in Int
        BY <1>2, <1>6
    <2>2. IsFiniteSet(live)
        BY <1>4 DEF Finite
    <2> QED BY <1>4, <2>1, <2>2, ValuesFinite
<1> HIDE DEF values
<1>11. CASE Cardinality(values) = 1 /\ Into(<<Within(y, {g[lo]})>>)
    <2>1. \A i \in live : g[i] = g[lo]
        <3>1. values = {Min(values)}
            BY <1>10, <1>11, OneValue
        <3> QED BY <1>4, <3>1 DEF values
    <2>2. Plain(Within(y, {g[lo]}), dom)
        <3>1. PICK v \in Int : v = g[lo]
            BY <1>4, <1>6
        <3>2. {v} = {v, v} /\ Finite({v, v})
            BY FinitePair
        <3> QED BY <1>4, <3>1, <3>2, MadeWithin DEF Plain
    <2>3. ASSUME NEW s, At1(s) PROVE Holds(Call, s) <=> Holds(Within(y, {g[lo]}), s)
        BY <1>5, <1>6, <2>1, <2>3, WithinHolds
    <2> QED BY <1>4, <1>11, <2>2, <2>3, IntoOne
<1>12. PICK step : step = fix(c.xs[lo + 1]) - g[lo]
    OBVIOUS
<1>13. CASE /\ Cardinality(values) # 1
            /\ live = lo .. hi /\ \A i \in live \ {hi} : fix(c.xs[i + 1]) - fix(c.xs[i]) = step
            /\ Into(<<Eq(<<1, -step>>, <<y, x>>, g[lo] - step * At(lo))>>)
    <2>1. lo \in Int /\ hi \in Int /\ lo <= hi
        BY <1>4, <1>5
    <2>2. lo # hi
        <3>1. lo = hi => live = {lo}
            BY <1>13, <2>1
        <3>2. lo = hi => values = {g[lo]}
            BY <3>1 DEF values
        <3>3. \A v : Cardinality({v}) = 1
            BY FS_Singleton
        <3> QED BY <1>13, <3>2, <3>3
    <2>3. lo + 1 \in live /\ step \in Int
        <3>1. lo + 1 \in live
            BY <1>13, <2>1, <2>2
        <3> QED BY <1>4, <1>6, <1>12, <3>1
    <2>4. \A i \in lo .. hi : i # hi => g[i + 1] - g[i] = step
        <3>1. TAKE i \in lo .. hi
        <3>2. HAVE i # hi
        <3>3. i \in live /\ i + 1 \in live /\ i \in live \ {hi}
            BY <1>13, <2>1, <3>2
        <3> QED BY <1>6, <1>13, <3>3
    <2>5. \A i \in live : g[i] = g[lo] + step * (i - lo)
        <3>1. \A i \in lo .. hi : g[i] \in Int
            BY <1>6, <1>13
        <3>2. \A i \in lo .. hi : g[i] = g[lo] + step * (i - lo)
            <4>1. Steps(g, lo, hi, step)
                BY <2>4, <3>1 DEF Steps
            <4>2. Line(g, lo, hi, step)
                BY <2>1, <2>3, <4>1, Stepwise
            <4> QED BY <4>2 DEF Line
        <3> QED BY <1>13, <3>2
    <2>6. PICK n, u, k : n = -step /\ u = 1 /\ k = g[lo] - step * At(lo) /\ n \in Int /\ u \in Int /\ k \in Int
        <3>1. step * At(lo) \in Int
            BY <1>4, <1>7, <2>3
        <3> QED BY <1>4, <1>6, <2>3, <3>1
    <2> DEFINE p == Eq(<<u, n>>, <<y, x>>, k)
    <2>7. Plain(p, dom)
        <3>1. Row(<<u, n>>, <<y, x>>, k, dom)
            BY <1>4, <2>6, PairIs
        <3> QED BY <3>1, MadeEq DEF Plain
    <2>8. ASSUME NEW s, At1(s) PROVE Holds(Call, s) <=> Holds(p, s)
        <3>1. PICK j \in live : s[x] = At(j)
            BY <1>5, <2>8
        <3>2. \A i \in live : s[x] = At(i) => i = j
            <4>1. TAKE i \in live
            <4>2. HAVE s[x] = At(i)
            <4>3. i \in Int /\ j \in Int /\ i + o - 1 = j + o - 1
                BY <1>5, <3>1, <4>2
            <4> QED BY <1>4, <4>3
        <3>3. Holds(Call, s) <=> s[y] = g[j]
            BY <1>6, <2>8, <3>1, <3>2
        <3>4. SumOf(<<u, n>>, <<y, x>>, s) = u * s[y] + n * s[x]
            <4>1. Fits(s, dom)
                BY <1>5, <2>8
            <4>2. Domains(dom) /\ x \in Columns(dom) /\ y \in Columns(dom)
                BY <1>4
            <4> QED BY <2>6, <4>1, <4>2, PairIs
        <3>5. Holds(p, s) <=> u * s[y] + n * s[x] = k
            BY <3>4, EqHolds
        <3>6. PICK a \in Int, b \in Int, d \in Int, m \in Int, v \in Int : a = s[y] /\ b = j /\ d = lo /\ m = step /\ v = g[lo]
            BY <1>4, <1>5, <1>6, <1>8, <2>3, <2>8
        <3>7. s[x] = b + o - 1 /\ At(lo) = d + o - 1
            BY <1>5, <3>1, <3>6
        <3>8. u * s[y] = a /\ n * s[x] = -(m * (b + o - 1)) /\ k = v - m * (d + o - 1)
            BY <1>4, <2>6, <3>6, <3>7
        <3>9. m * (b + o - 1) = m * b + m * (o - 1) /\ m * (d + o - 1) = m * d + m * (o - 1) /\ m * (b - d) = m * b - m * d
            BY <1>4
        <3>10. PICK q \in Int, r \in Int, w \in Int : q = m * b /\ r = m * d /\ w = m * (o - 1)
            BY <1>4
        <3>11. g[j] = v + (q - r)
            BY <2>5, <3>1, <3>6, <3>9, <3>10
        <3>12. Holds(p, s) <=> a - (q + w) = v - (r + w)
            BY <3>5, <3>8, <3>9, <3>10
        <3>13. a - (q + w) = v - (r + w) <=> a = v + (q - r)
            OBVIOUS
        <3> QED BY <3>3, <3>6, <3>11, <3>12, <3>13
    <2>9. Into(<<p>>)
        BY <1>13, <2>6
    <2> HIDE DEF p
    <2> QED BY <1>4, <2>7, <2>8, <2>9, IntoOne
<1>14. CASE First(Select(x))
    <2>1. Call.c \notin {"element", "two", "times"}
        BY <1>4
    <2> QED BY <1>4, <1>14, <2>1, SelectFirst
<1>15. PICK n, f : n = Cardinality(live) /\ f = Asc(live)
    OBVIOUS
<1>16. CASE /\ x \in DOMAIN select
            /\ Into(<<Eq(Append([k \in DOMAIN f |-> fix(c.xs[f[k]])], -1),
                         Append([k \in DOMAIN f |-> mip_select_at(x, At(f[k]))], y), 0)>>)
    <2>1. /\ n \in Nat /\ DOMAIN f = 1 .. n
          /\ \A k \in 1 .. n : f[k] \in live
          /\ \A i \in live : \E k \in 1 .. n : f[k] = i
          /\ Distinct(f, n)
        BY <1>4, <1>15, AscIs, AscDistinct
    <2>10. PICK m, z : m = -1 /\ z = 0 /\ m \in Int /\ z \in Int
        OBVIOUS
    <2>2. PICK co, ps, h : /\ co = [k \in 1 .. n |-> fix(c.xs[f[k]])]
                           /\ ps = [k \in 1 .. n |-> mip_select_at(x, At(f[k]))]
                           /\ h = [k \in 1 .. n |-> At(f[k])]
        OBVIOUS
    <2>3. co \in Seq(Int) /\ Len(co) = n /\ \A k \in 1 .. n : co[k] = g[f[k]]
        <3>1. \A k \in 1 .. n : fix(c.xs[f[k]]) = g[f[k]] /\ g[f[k]] \in Int
            BY <1>6, <2>1
        <3> QED BY <2>1, <2>2, <3>1
    <2>4. Picks(ps, x, h, n)
        <3>1. \A k \in 1 .. n : h[k] = At(f[k]) /\ h[k] \in Int
            BY <1>7, <2>1, <2>2
        <3>2. Distinct(h, n)
            <4>1. ASSUME NEW i \in 1 .. n, NEW j \in 1 .. n, h[i] = h[j] PROVE i = j
                <5>1. f[i] \in Int /\ f[j] \in Int /\ f[i] + o - 1 = f[j] + o - 1
                    BY <1>5, <2>1, <3>1, <4>1
                <5>2. f[i] = f[j]
                    BY <1>4, <5>1
                <5> QED BY <2>1, <5>2 DEF Distinct
            <4> QED BY <4>1 DEF Distinct
        <3> QED BY <2>1, <2>2, <3>1, <3>2 DEF Picks
    <2>5. Row(co, ps, z, dom) /\ \A s : Fits(s, dom) /\ EncodedAt(s) => Picked(co, ps, x, h, n, s)
        BY <1>4, <1>16, <2>3, <2>4, <2>10, PicksAre
    <2>6. /\ Row(Append(co, m), Append(ps, y), z, dom)
          /\ \A s : Fits(s, dom) => SumOf(Append(co, m), Append(ps, y), s) = SumOf(co, ps, s) + m * s[y]
        <3>1. Domains(dom) /\ y \in Columns(dom) /\ Row(co, ps, z, dom)
            BY <1>4, <2>5
        <3> QED BY <2>10, <3>1, AppendedIs
    <2> DEFINE p == Eq(Append(co, m), Append(ps, y), z)
    <2>7. Plain(p, dom)
        BY <2>6, MadeEq DEF Plain
    <2>8. ASSUME NEW s, At1(s) PROVE Holds(Call, s) <=> Holds(p, s)
        <3>1. PICK j \in live : s[x] = At(j)
            BY <1>5, <2>8
        <3>2. \A i \in live : s[x] = At(i) => i = j
            <4>1. TAKE i \in live
            <4>2. HAVE s[x] = At(i)
            <4>3. i \in Int /\ j \in Int /\ i + o - 1 = j + o - 1
                BY <1>5, <3>1, <4>2
            <4> QED BY <1>4, <4>3
        <3>3. Holds(Call, s) <=> s[y] = g[j]
            BY <1>6, <2>8, <3>1, <3>2
        <3>4. PICK k \in 1 .. n : f[k] = j
            BY <2>1, <3>1
        <3>5. SumOf(co, ps, s) = g[j]
            <4>1. s[x] = h[k]
                BY <2>2, <3>1, <3>4
            <4>2. Picked(co, ps, x, h, n, s)
                BY <1>5, <2>5, <2>8
            <4> QED BY <2>3, <3>4, <4>1, <4>2 DEF Picked
        <3>6. SumOf(Append(co, m), Append(ps, y), s) = g[j] + m * s[y]
            BY <1>5, <2>6, <2>8, <3>5
        <3>7. Holds(p, s) <=> g[j] + m * s[y] = 0
            BY <2>10, <3>6, EqHolds
        <3>8. s[y] \in Int /\ g[j] \in Int /\ m * s[y] = -s[y]
            BY <1>6, <1>8, <2>8, <2>10
        <3> QED BY <3>3, <3>7, <3>8
    <2>9. Into(<<p>>)
        BY <1>16, <2>1, <2>2, <2>10
    <2> HIDE DEF p
    <2> QED BY <1>4, <2>7, <2>8, <2>9, IntoOne
<1>17. \/ Cardinality(values) = 1 /\ Into(<<Within(y, {g[lo]})>>)
       \/ /\ Cardinality(values) # 1
          /\ live = lo .. hi /\ \A i \in live \ {hi} : fix(c.xs[i + 1]) - fix(c.xs[i]) = step
          /\ Into(<<Eq(<<1, -step>>, <<y, x>>, g[lo] - step * At(lo))>>)
       \/ First(Select(x))
       \/ /\ x \in DOMAIN select
          /\ Into(<<Eq(Append([k \in DOMAIN f |-> fix(c.xs[f[k]])], -1),
                       Append([k \in DOMAIN f |-> mip_select_at(x, At(f[k]))], y), 0)>>)
    BY <1>1, <1>9, <1>12, <1>15 DEF mip_int_element_fixed, ElementLive
<1> QED BY <1>11, <1>13, <1>14, <1>16, <1>17

-----------------------------------------------------------------------------
(***************************************************************************)
(* Arithmetic.                                                             *)
(***************************************************************************)
LEMMA OperationHead ==
    ASSUME Formed, NEW k, k \in {"abs", "times", "times_element", "div", "mod", "maximum", "minimum"},
           Doing(k), NEW c, c = Call
    PROVE  /\ Heads /\ Working /\ Typed /\ todo # <<>> /\ Domains(dom) /\ Call.c \notin Flat
           /\ c.c = k /\ c.y \in Columns(dom) /\ Len(c.xs) \in Nat /\ DOMAIN c.xs = 1 .. Len(c.xs)
           /\ c.xs \in Seq(Columns(dom)) /\ Proper(c, dom)
           /\ \A i \in 1 .. Len(c.xs) : c.xs[i] \in Columns(dom)
           /\ k = "abs" => Len(c.xs) = 1 /\ c.xs[1] \in Columns(dom)
           /\ k \in {"times", "times_element", "div", "mod"} =>
                Len(c.xs) = 2 /\ c.xs[1] \in Columns(dom) /\ c.xs[2] \in Columns(dom)
           /\ k \in {"maximum", "minimum"} => Len(c.xs) > 0
           /\ \A s : At1(s) => Fits(s, dom) /\ EncodedAt(s)
<1>1. Working /\ Call.c = k /\ Proper(Call, dom) /\ Domains(dom)
    BY WorkingIs
<1>2. Heads /\ Call.c \notin Flat
    BY <1>1 DEF Heads, Flat
<1>3. Typed /\ todo # <<>>
    BY <1>1 DEF Working
<1>4. c.xs \in Seq(Columns(dom)) /\ c.y \in Columns(dom)
    BY <1>1, OperationParts
<1>5. Len(c.xs) \in Nat /\ DOMAIN c.xs = 1 .. Len(c.xs) /\ \A i \in 1 .. Len(c.xs) : c.xs[i] \in Columns(dom)
    BY <1>4
<1>6. /\ k = "abs" => Len(c.xs) = 1
      /\ k \in {"times", "times_element", "div", "mod"} => Len(c.xs) = 2
      /\ k \in {"maximum", "minimum"} => Len(c.xs) > 0
    BY <1>1, OperationParts
<1>7. /\ Len(c.xs) = 1 => c.xs[1] \in Columns(dom)
      /\ Len(c.xs) = 2 => c.xs[1] \in Columns(dom) /\ c.xs[2] \in Columns(dom)
    BY <1>5
<1> QED BY <1>1, <1>2, <1>3, <1>4, <1>5, <1>6, <1>7 DEF At1

LEMMA MeetsSix ==
    ASSUME NEW p, NEW q, NEW r, NEW u, NEW v, NEW w, NEW calls, calls = <<p, q, r, u, v, w>>
    PROVE  /\ calls \in Seq(Range(calls)) /\ Range(calls) = {p, q, r, u, v, w}
           /\ \A s : Meets(s, Range(calls)) <=>
                Holds(p, s) /\ Holds(q, s) /\ Holds(r, s) /\ Holds(u, s) /\ Holds(v, s) /\ Holds(w, s)
<1>1. PICK S : S = {p, q, r, u, v, w}
    OBVIOUS
<1>2. DOMAIN calls = {1, 2, 3, 4, 5, 6}
    BY DEF Range
<1>3. Range(calls) = S
    BY <1>1, <1>2 DEF Range
<1>4. calls \in Seq(S)
    BY <1>1
<1> QED BY <1>1, <1>3, <1>4 DEF Meets

\* With a column that may be on either side of zero: the two sides, the bounds,
\* and a Boolean that says which side it is.
AbsRows(t, a, b, y, most) ==
    /\ t[a] - t[b] <= 0 /\ -t[b] - t[a] <= 0 /\ t[b] \in 0 .. most
    /\ t[y] = 1 => t[b] - t[a] <= 0
    /\ t[y] = 0 => t[b] + t[a] <= 0
    /\ t[y] = 1 <=> -t[a] <= 0

\* fzn_int_abs, on either side of zero and across it.
LEMMA IntAbsReplaced ==
    ASSUME Formed, IntAbs
    PROVE  Replaced
<1>1. PICK c, a, b, n, d, e, y :
        c = Call /\ a = c.xs[1] /\ b = c.y /\ n = 1 /\ d = dom /\ e = dom' /\ y = New + 1
    OBVIOUS
<1>2. Doing("abs")
    BY DEF IntAbs
<1>3. PICK most : most = Max({ub(a), -lb(a)})
    OBVIOUS
<1>4. /\ Heads /\ Working /\ Domains(dom) /\ c.c = "abs" /\ a \in Columns(dom) /\ b \in Columns(dom)
      /\ \A s : At1(s) => Fits(s, dom) /\ EncodedAt(s)
    <2>1. PICK kind : kind = "abs"
        OBVIOUS
    <2> QED BY <1>1, <1>2, <2>1, OperationHead
<1>5. \A s : Holds(Call, s) <=> s[b] = Abs(s[a])
    BY <1>1, <1>4, HoldsAbs
<1>6. /\ lb(a) \in Int /\ ub(a) \in Int
      /\ \A s : Fits(s, dom) => s[a] \in Int /\ lb(a) <= s[a] /\ s[a] <= ub(a)
    BY <1>4, ColumnIs, ValueIs
<1>7. CASE lb(a) >= 0 /\ Into(<<Eq(<<1, -1>>, <<b, a>>, 0)>>)
    <2>1. PICK q : q = Eq(<<1, -1>>, <<b, a>>, 0)
        OBVIOUS
    <2>2. Plain(q, dom)
        BY <1>4, <2>1, UnitsAre, MadeEq DEF Plain
    <2>3. ASSUME NEW s, At1(s) PROVE Holds(Call, s) <=> Holds(q, s)
        <3>1. Fits(s, dom)
            BY <1>4, <2>3
        <3>2. s[a] \in Int /\ s[b] \in Int /\ s[a] >= 0
            BY <1>4, <1>6, <1>7, <3>1, UnitsAre
        <3>3. Holds(q, s) <=> s[b] - s[a] = 0
            BY <1>4, <2>1, <3>1, UnitsAre, EqHolds
        <3>4. Abs(s[a]) = s[a]
            BY <3>2 DEF Abs
        <3> QED BY <1>5, <3>2, <3>3, <3>4
    <2> QED BY <1>4, <1>7, <2>1, <2>2, <2>3, IntoOne
<1>8. CASE ub(a) <= 0 /\ Into(<<Eq(<<1, 1>>, <<b, a>>, 0)>>)
    <2>1. PICK q : q = Eq(<<1, 1>>, <<b, a>>, 0)
        OBVIOUS
    <2>2. Plain(q, dom)
        BY <1>4, <2>1, UnitsAre, MadeEq DEF Plain
    <2>3. ASSUME NEW s, At1(s) PROVE Holds(Call, s) <=> Holds(q, s)
        <3>1. Fits(s, dom)
            BY <1>4, <2>3
        <3>2. s[a] \in Int /\ s[b] \in Int /\ s[a] <= 0
            BY <1>4, <1>6, <1>8, <3>1, UnitsAre
        <3>3. Holds(q, s) <=> s[b] + s[a] = 0
            BY <1>4, <2>1, <3>1, UnitsAre, EqHolds
        <3>4. Abs(s[a]) = -s[a]
            BY <3>2 DEF Abs
        <3> QED BY <1>5, <3>2, <3>3, <3>4
    <2> QED BY <1>4, <1>8, <2>1, <2>2, <2>3, IntoOne
<1>9. CASE /\ ~(lb(a) >= 0) /\ ~(ub(a) <= 0)
           /\ IntoNew(n, <<Le(<<-1, 1>>, <<b, a>>, 0), Le(<<-1, -1>>, <<b, a>>, 0),
                           Within(b, 0 .. most), LeImp(<<1, -1>>, <<b, a>>, 0, y),
                           LeImpNot(<<1, 1>>, <<b, a>>, 0, y), LeReif(<<-1>>, <<a>>, 0, y)>>)
    <2>1. e = d \o AllBits(n) /\ y = Len(d) + 1
        BY <1>1, <1>9 DEF IntoNew, AllBits, New
    <2>2. /\ Domains(e) /\ Longer(d, e) /\ Bigger(d, e) /\ y \in Booleans(e)
          /\ BitFree(d, e, y)
        BY <1>1, <1>4, <2>1, OneBit
    <2>3. a \in Columns(e) /\ b \in Columns(e)
        BY <1>1, <1>4, <2>2, ColumnsGrow
    <2>4. most \in Int /\ ub(a) <= most /\ -lb(a) <= most /\ Finite(0 .. most)
        <3>1. PICK u \in Int, v \in Int : u = ub(a) /\ v = -lb(a)
            BY <1>6
        <3>2. Finite({u, v})
            BY <3>1, FinitePair
        <3>3. Max({u, v}) \in Int /\ \A w \in {u, v} : w <= Max({u, v})
            BY <3>2, EndsAre
        <3>4. Finite(0 .. Max({u, v}))
            BY <3>3, IntervalFinite
        <3> QED BY <1>3, <3>1, <3>3, <3>4
    <2> DEFINE p1 == Le(<<-1, 1>>, <<b, a>>, 0)
               p2 == Le(<<-1, -1>>, <<b, a>>, 0)
               p3 == Within(b, 0 .. most)
               p4 == LeImp(<<1, -1>>, <<b, a>>, 0, y)
               p5 == LeImpNot(<<1, 1>>, <<b, a>>, 0, y)
               p6 == LeReif(<<-1>>, <<a>>, 0, y)
    <2>5. Plain(p1, e) /\ Plain(p2, e) /\ Plain(p3, e) /\ Plain(p4, e) /\ Plain(p5, e) /\ Plain(p6, e)
        <3>1. /\ Row(<<-1, 1>>, <<b, a>>, 0, e) /\ Row(<<-1, -1>>, <<b, a>>, 0, e)
              /\ Row(<<1, -1>>, <<b, a>>, 0, e) /\ Row(<<1, 1>>, <<b, a>>, 0, e)
            BY <2>2, <2>3, UnitsAre
        <3>2. Row(<<-1>>, <<a>>, 0, e)
            BY <2>2, <2>3, UnitIs
        <3>3. Plain(p1, e) /\ Plain(p2, e)
            BY <3>1, MadeLe DEF Plain
        <3>4. Plain(p3, e)
            BY <2>3, <2>4, MadeWithin DEF Plain
        <3>5. Plain(p4, e) /\ Plain(p5, e)
            BY <2>2, <3>1, MadeImps DEF Plain
        <3>6. Plain(p6, e)
            BY <2>2, <3>2, MadeImps DEF Plain
        <3> QED BY <3>3, <3>4, <3>5, <3>6
    <2>6. ASSUME NEW t, Fits(t, e)
          PROVE  /\ Holds(p1, t) /\ Holds(p2, t) /\ Holds(p3, t) /\ Holds(p4, t) /\ Holds(p5, t) /\ Holds(p6, t)
                     <=> AbsRows(t, a, b, y, most)
        <3>1. /\ SumOf(<<1, 1>>, <<b, a>>, t) = t[b] + t[a]
              /\ SumOf(<<1, -1>>, <<b, a>>, t) = t[b] - t[a]
              /\ SumOf(<<-1, 1>>, <<b, a>>, t) = t[a] - t[b]
              /\ SumOf(<<-1, -1>>, <<b, a>>, t) = -t[b] - t[a]
            BY <2>2, <2>3, <2>6, UnitsAre
        <3>2. SumOf(<<-1>>, <<a>>, t) = -t[a]
            BY <2>2, <2>3, <2>6, UnitIs
        <3>3. Holds(p1, t) <=> t[a] - t[b] <= 0
            BY <3>1, LeHolds
        <3>4. Holds(p2, t) <=> -t[b] - t[a] <= 0
            BY <3>1, LeHolds
        <3>5. Holds(p3, t) <=> t[b] \in 0 .. most
            BY WithinHolds
        <3>6. Holds(p4, t) <=> (t[y] = 1 => t[b] - t[a] <= 0)
            BY <3>1, LeImpHolds
        <3>7. Holds(p5, t) <=> (t[y] = 0 => t[b] + t[a] <= 0)
            BY <3>1, LeImpNotHolds
        <3>8. Holds(p6, t) <=> (t[y] = 1 <=> -t[a] <= 0)
            BY <3>2, LeReifHolds
        <3> QED BY <3>3, <3>4, <3>5, <3>6, <3>7, <3>8 DEF AbsRows
    <2>7. \A t : Fits(t, e) => t[a] \in Int /\ t[b] \in Int /\ t[y] \in {0, 1}
        BY <2>2, <2>3, FitsColumns
    <2>8. PICK calls : calls = <<p1, p2, p3, p4, p5, p6>>
        OBVIOUS
    <2>9. todo' = calls \o Tail(todo) /\ UNCHANGED <<model, out, shared>>
        BY <1>9, <2>8 DEF IntoNew
    <2> HIDE DEF p1, p2, p3, p4, p5, p6
    <2>10. /\ calls \in Seq(Range(calls)) /\ \A p \in Range(calls) : Plain(p, e)
           /\ \A t : Fits(t, e) => (Meets(t, Range(calls)) <=> AbsRows(t, a, b, y, most))
        BY <2>5, <2>6, <2>8, MeetsSix
    <2>11. ASSUME NEW t, Fits(t, e), Meets(t, Range(calls)) PROVE t[b] = Abs(t[a])
        <3>1. PICK u \in Int, v \in Int, w \in {0, 1} : u = t[a] /\ v = t[b] /\ w = t[y]
            BY <2>7, <2>11
        <3>2. u - v <= 0 /\ -v - u <= 0 /\ (w = 1 => v - u <= 0) /\ (w = 0 => v + u <= 0)
            BY <2>10, <2>11, <3>1 DEF AbsRows
        <3>3. v = IF u < 0 THEN -u ELSE u
            BY <3>2
        <3> QED BY <3>1, <3>3 DEF Abs
    <2>12. ASSUME NEW s, Fits(s, d), s[b] = Abs(s[a])
           PROVE  \E t : Fits(t, e) /\ Alike(s, t, 1 .. Len(d)) /\ Meets(t, Range(calls))
        <3>1. PICK w \in {0, 1} : w = IF s[a] >= 0 THEN 1 ELSE 0
            OBVIOUS
        <3>2. PICK t : Fits(t, e) /\ Alike(s, t, 1 .. Len(d)) /\ t[y] = w
            BY <2>2, <2>12 DEF BitFree
        <3>3. t[a] = s[a] /\ t[b] = s[b]
            BY <1>1, <1>4, <3>2 DEF Alike, Columns
        <3>4. PICK u \in Int, v \in Int : u = t[a] /\ v = t[b]
            BY <2>7, <3>2
        <3>5. lb(a) <= u /\ u <= ub(a) /\ v = IF u < 0 THEN -u ELSE u
            BY <1>1, <1>6, <2>12, <3>3, <3>4 DEF Abs
        <3>6. 0 <= v /\ v <= most
            BY <1>6, <2>4, <3>5
        <3>7. w = IF u >= 0 THEN 1 ELSE 0
            BY <3>1, <3>3, <3>4
        <3>8. /\ u - v <= 0 /\ -v - u <= 0 /\ v \in 0 .. most
              /\ w = 1 => v - u <= 0
              /\ w = 0 => v + u <= 0
              /\ w = 1 <=> -u <= 0
            BY <2>4, <3>5, <3>6, <3>7
        <3>9. AbsRows(t, a, b, y, most)
            BY <3>2, <3>4, <3>8 DEF AbsRows
        <3> QED BY <2>10, <3>2, <3>9
    <2>13. Sound(calls, dom') /\ Complete(calls, dom')
        BY <1>1, <1>5, <2>11, <2>12 DEF Sound, Complete
    <2> QED BY <1>1, <1>4, <2>2, <2>9, <2>10, <2>13, NewReplaced
<1> QED BY <1>1, <1>3, <1>7, <1>8, <1>9 DEF IntAbs

\* The product of two 0..1 columns is bounded from above alone.
BitProduct ==
    dom[Call.xs[1]] = 0 .. 1 /\ dom[Call.xs[2]] = 0 .. 1 => \A v \in dom[Call.y] : v >= 0

\* y = m * x as a row.
LEMMA MultipleIs ==
    ASSUME NEW d, Domains(d), NEW m, m \in Int, NEW x, x \in Columns(d), NEW y, y \in Columns(d)
    PROVE  /\ Row(<<1, -m>>, <<y, x>>, 0, d)
           /\ \A s : Fits(s, d) => /\ s[x] \in Int /\ s[y] \in Int
                                   /\ SumOf(<<1, -m>>, <<y, x>>, s) = 0 <=> s[y] = m * s[x]
<1>1. PICK u, v : u = 1 /\ v = -m /\ u \in Int /\ v \in Int
    OBVIOUS
<1>2. Row(<<u, v>>, <<y, x>>, 0, d)
    BY <1>1, PairIs
<1>3. ASSUME NEW s, Fits(s, d)
      PROVE  /\ s[x] \in Int /\ s[y] \in Int
             /\ SumOf(<<u, v>>, <<y, x>>, s) = 0 <=> s[y] = m * s[x]
    <2>1. s[x] \in Int /\ s[y] \in Int /\ SumOf(<<u, v>>, <<y, x>>, s) = u * s[y] + v * s[x]
        BY <1>1, <1>3, PairIs
    <2>2. u * s[y] = s[y]
        BY <1>1, <2>1
    <2>3. v * s[x] = -(m * s[x]) /\ m * s[x] \in Int
        BY <1>1, <2>1
    <2>4. PICK p \in Int, q \in Int : p = s[y] /\ q = m * s[x]
        BY <2>1, <2>3
    <2>5. SumOf(<<u, v>>, <<y, x>>, s) = p - q
        BY <2>1, <2>2, <2>3, <2>4
    <2>6. p - q = 0 <=> p = q
        OBVIOUS
    <2> QED BY <2>1, <2>4, <2>5, <2>6
<1> QED BY <1>1, <1>2, <1>3

LEMMA UnitTripleIs ==
    ASSUME NEW d, Domains(d), NEW x, x \in Columns(d), NEW y, y \in Columns(d), NEW z, z \in Columns(d)
    PROVE  /\ \A k \in Int : Row(<<1, 1, -1>>, <<x, y, z>>, k, d)
           /\ \A s : Fits(s, d) =>
                /\ s[x] \in Int /\ s[y] \in Int /\ s[z] \in Int
                /\ SumOf(<<1, 1, -1>>, <<x, y, z>>, s) = s[x] + s[y] - s[z]
<1>1. PICK w : w = -1 /\ w \in Int
    OBVIOUS
<1>2. \A k \in Int : Row(<<1, 1, w>>, <<x, y, z>>, k, d)
    BY <1>1, TripleIs
<1>3. ASSUME NEW s, Fits(s, d)
      PROVE  /\ s[x] \in Int /\ s[y] \in Int /\ s[z] \in Int
             /\ SumOf(<<1, 1, w>>, <<x, y, z>>, s) = s[x] + s[y] - s[z]
    <2>1. /\ s[x] \in Int /\ s[y] \in Int /\ s[z] \in Int
          /\ SumOf(<<1, 1, w>>, <<x, y, z>>, s) = s[x] + s[y] + w * s[z]
        BY <1>1, <1>3, TripleIs
    <2>2. w * s[z] = -s[z]
        BY <1>1, <2>1
    <2> QED BY <2>1, <2>2
<1> QED BY <1>1, <1>2, <1>3

\* The same call under another name.
LEMMA Renamed ==
    ASSUME NEW c, NEW d, Proper(c, d), c.c = "times", NEW k, k = [c EXCEPT !.c = "times_element"]
    PROVE  Proper(k, d) /\ k.c = "times_element" /\ k.xs = c.xs /\ k.y = c.y
<1>1. /\ c.xs \in Seq(Columns(d)) /\ c.y \in Columns(d) /\ DOMAIN c = {"c", "xs", "y"} /\ Len(c.xs) = 2
    BY OperationParts
<1>2. k.c = "times_element" /\ k.xs = c.xs /\ k.y = c.y
    BY <1>1
<1>3. k = [c |-> k.c, xs |-> k.xs, y |-> k.y]
    BY <1>1
<1>4. k \in [c: {"times", "times_element", "div", "mod"}, xs: Seq(Columns(d)), y: Columns(d)]
    BY <1>1, <1>2, <1>3
<1>5. Operation(k, d)
    BY <1>1, <1>2, <1>4 DEF Operation
<1> QED BY <1>2, <1>5 DEF Proper

TimesRows(s, a, b, y) ==
    s[a] + s[b] - s[y] <= 1 /\ s[y] - s[a] <= 0 /\ s[y] - s[b] <= 0

\* A product that takes the place of one, its factors not both Booleans.
LEMMA TimesReplaced ==
    ASSUME Heads, NEW q, Into(<<q>>), Proper(q, dom), q.c = "times",
           ~(dom[q.xs[1]] = 0 .. 1 /\ dom[q.xs[2]] = 0 .. 1),
           \A s : At1(s) => (Holds(Call, s) <=> Holds(q, s))
    PROVE  Replaced
<1>1. PICK calls : calls = <<q>>
    OBVIOUS
<1>2. calls \in Seq(Range(calls)) /\ Range(calls) = {q} /\ DOMAIN calls = {1} /\ calls[1] = q
    BY <1>1, OneCall
<1>3. Multiplied(calls, dom)
    BY <1>2 DEF Multiplied
<1>4. Agrees(calls)
    BY <1>2 DEF Agrees, Meets
<1>5. InTurn(calls, dom) /\ NewTwos(calls) /\ CallList(calls, dom)
    BY <1>2, PlainInTurn DEF CallList
<1>6. Expands(calls, dom)
    BY <1>2, <1>3, <1>4, <1>5, SameExpands DEF Heads, Working
<1> QED BY <1>1, <1>5, <1>6, IntoReplaced DEF Heads, Working

\* fzn_int_times with a fixed factor, of two Booleans, or to be looked up.
LEMMA IntTimesReplaced ==
    ASSUME Formed, IntTimes, BitProduct
    PROVE  Replaced
<1>1. PICK c, a, b, y : c = Call /\ a = c.xs[1] /\ b = c.xs[2] /\ y = c.y
    OBVIOUS
<1>2. Doing("times")
    BY DEF IntTimes
<1>3. /\ Heads /\ Working /\ Domains(dom) /\ c.c = "times" /\ Proper(c, dom)
      /\ a \in Columns(dom) /\ b \in Columns(dom) /\ y \in Columns(dom)
      /\ \A s : At1(s) => Fits(s, dom) /\ EncodedAt(s)
    <2>1. PICK kind : kind = "times"
        OBVIOUS
    <2> QED BY <1>1, <1>2, <2>1, OperationHead
<1>4. \A s : Holds(Call, s) <=> s[y] = s[a] * s[b]
    BY <1>1, <1>3, HoldsOperation
<1>5. \A s : Fits(s, dom) => s[a] \in Int /\ s[b] \in Int /\ s[y] \in Int
    BY <1>3, FitsColumns
<1>6. ASSUME NEW x, NEW z, x \in Columns(dom), z \in Columns(dom), is_fixed(x),
             \A s : Holds(Call, s) <=> s[y] = s[x] * s[z],
             Into(<<Eq(<<1, -fix(x)>>, <<y, z>>, 0)>>)
      PROVE  Replaced
    <2>1. PICK m, q : m = fix(x) /\ q = Eq(<<1, -m>>, <<y, z>>, 0)
        OBVIOUS
    <2>2. m \in Int /\ \A s : Fits(s, dom) => s[x] = m
        BY <1>3, <1>6, <2>1, ColumnIs, ValueIs DEF fix
    <2>3. /\ Row(<<1, -m>>, <<y, z>>, 0, dom)
          /\ \A s : Fits(s, dom) => (SumOf(<<1, -m>>, <<y, z>>, s) = 0 <=> s[y] = m * s[z])
        BY <1>3, <1>6, <2>2, MultipleIs
    <2>4. Plain(q, dom)
        BY <2>1, <2>3, MadeEq DEF Plain
    <2>5. ASSUME NEW s, At1(s) PROVE Holds(Call, s) <=> Holds(q, s)
        <3>1. Fits(s, dom)
            BY <1>3, <2>5
        <3>2. Holds(q, s) <=> s[y] = m * s[z]
            BY <2>1, <2>3, <3>1, EqHolds
        <3>3. s[x] = m
            BY <2>2, <3>1
        <3> QED BY <1>6, <3>2, <3>3
    <2>6. Into(<<q>>)
        BY <1>6, <2>1
    <2> QED BY <1>3, <2>4, <2>5, <2>6, IntoOne
<1>7. CASE is_fixed(a) /\ Into(<<Eq(<<1, -fix(a)>>, <<y, b>>, 0)>>)
    BY <1>3, <1>4, <1>6, <1>7
<1>8. CASE is_fixed(b) /\ Into(<<Eq(<<1, -fix(b)>>, <<y, a>>, 0)>>)
    <2>1. \A s : At1(s) => s[a] * s[b] = s[b] * s[a]
        BY <1>3, <1>5
    <2>2. PICK m, q : m = fix(b) /\ q = Eq(<<1, -m>>, <<y, a>>, 0)
        OBVIOUS
    <2>3. m \in Int /\ \A s : Fits(s, dom) => s[b] = m
        BY <1>3, <1>8, <2>2, ColumnIs, ValueIs DEF fix
    <2>4. /\ Row(<<1, -m>>, <<y, a>>, 0, dom)
          /\ \A s : Fits(s, dom) => (SumOf(<<1, -m>>, <<y, a>>, s) = 0 <=> s[y] = m * s[a])
        <3>1. m \in Int /\ a \in Columns(dom) /\ y \in Columns(dom) /\ Domains(dom)
            BY <1>3, <2>3
        <3>2. Row(<<1, -m>>, <<y, a>>, 0, dom)
            BY <3>1, MultipleIs
        <3>3. \A s : Fits(s, dom) => (SumOf(<<1, -m>>, <<y, a>>, s) = 0 <=> s[y] = m * s[a])
            BY <3>1, MultipleIs
        <3> QED BY <3>2, <3>3
    <2>5. Plain(q, dom)
        BY <2>2, <2>4, MadeEq DEF Plain
    <2>6. ASSUME NEW s, At1(s) PROVE Holds(Call, s) <=> Holds(q, s)
        <3>1. Fits(s, dom)
            BY <1>3, <2>6
        <3>2. Holds(q, s) <=> s[y] = m * s[a]
            BY <2>2, <2>4, <3>1, EqHolds
        <3>3. s[b] = m /\ s[a] * s[b] = s[b] * s[a]
            BY <2>1, <2>3, <2>6, <3>1
        <3> QED BY <1>4, <3>2, <3>3
    <2>7. Into(<<q>>)
        BY <1>8, <2>2
    <2> QED BY <1>3, <2>5, <2>6, <2>7, IntoOne
<1>9. CASE /\ dom[a] = 0 .. 1 /\ dom[b] = 0 .. 1
           /\ Into(<<Le(<<1, 1, -1>>, <<a, b, y>>, 1), Le(<<-1, 1>>, <<a, y>>, 0), Le(<<-1, 1>>, <<b, y>>, 0)>>)
    <2>1. PICK p, q, r : /\ p = Le(<<1, 1, -1>>, <<a, b, y>>, 1) /\ q = Le(<<-1, 1>>, <<a, y>>, 0)
                         /\ r = Le(<<-1, 1>>, <<b, y>>, 0)
        OBVIOUS
    <2>2. Row(<<1, 1, -1>>, <<a, b, y>>, 1, dom) /\ Row(<<-1, 1>>, <<a, y>>, 0, dom) /\ Row(<<-1, 1>>, <<b, y>>, 0, dom)
        BY <1>3, UnitTripleIs, UnitsAre
    <2>3. Plain(p, dom) /\ Plain(q, dom) /\ Plain(r, dom)
        BY <2>1, <2>2, MadeLe DEF Plain
    <2>4. ASSUME NEW s, At1(s) PROVE Holds(Call, s) <=> Holds(p, s) /\ Holds(q, s) /\ Holds(r, s)
        <3>1. Fits(s, dom)
            BY <1>3, <2>4
        <3>2. /\ SumOf(<<1, 1, -1>>, <<a, b, y>>, s) = s[a] + s[b] - s[y]
              /\ SumOf(<<-1, 1>>, <<a, y>>, s) = s[y] - s[a]
              /\ SumOf(<<-1, 1>>, <<b, y>>, s) = s[y] - s[b]
            BY <1>3, <3>1, UnitTripleIs, UnitsAre
        <3>3. Holds(p, s) /\ Holds(q, s) /\ Holds(r, s) <=> TimesRows(s, a, b, y)
            BY <2>1, <3>2, LeHolds DEF TimesRows
        <3>4. s[a] \in {0, 1} /\ s[b] \in {0, 1} /\ s[y] \in Int /\ s[y] >= 0
            <4>1. s[a] \in dom[a] /\ s[b] \in dom[b] /\ s[y] \in dom[y] /\ s[y] \in Int
                BY <1>3, <3>1, FitsColumns
            <4>2. \A v \in dom[y] : v >= 0
                BY <1>1, <1>9 DEF BitProduct
            <4> QED BY <1>9, <4>1, <4>2
        <3>5. s[a] * s[b] = IF s[a] = 1 /\ s[b] = 1 THEN 1 ELSE 0
            BY <3>4
        <3>6. PICK u \in {0, 1}, v \in {0, 1}, w \in Int : u = s[a] /\ v = s[b] /\ w = s[y] /\ w >= 0
            BY <3>4
        <3>7. (u + v - w <= 1 /\ w - u <= 0 /\ w - v <= 0) <=> w = IF u = 1 /\ v = 1 THEN 1 ELSE 0
            BY <3>6
        <3>8. TimesRows(s, a, b, y) <=> s[y] = s[a] * s[b]
            BY <3>5, <3>6, <3>7 DEF TimesRows
        <3> QED BY <1>4, <3>3, <3>8
    <2>5. Into(<<p, q, r>>)
        BY <1>9, <2>1
    <2> QED BY <1>3, <2>3, <2>4, <2>5, IntoThree
<1>10. CASE ~(dom[a] = 0 .. 1 /\ dom[b] = 0 .. 1) /\ Into(<<Nary("times", <<b, a>>, y)>>)
    <2>1. PICK xs, q : xs = <<b, a>> /\ q = Nary("times", xs, y)
        OBVIOUS
    <2>2. xs \in Seq(Columns(dom)) /\ Len(xs) = 2
        BY <1>3, <2>1
    <2>3. Proper(q, dom) /\ q.c = "times" /\ q.xs[1] = b /\ q.xs[2] = a
        <3>1. Proper(Nary("times", xs, y), dom)
            BY <1>3, <2>2, MadeNary
        <3>2. q.c = "times" /\ q.xs = xs
            BY <2>1 DEF Nary
        <3> QED BY <2>1, <3>1, <3>2
    <2>4. ASSUME NEW s, At1(s) PROVE Holds(Call, s) <=> Holds(q, s)
        <3>1. Holds(q, s) <=> s[y] = s[b] * s[a]
            BY <2>1, TimesHolds
        <3>2. s[a] * s[b] = s[b] * s[a]
            BY <1>3, <1>5, <2>4
        <3> QED BY <1>4, <3>1, <3>2
    <2>5. Into(<<q>>)
        BY <1>10, <2>1
    <2> QED BY <1>3, <1>10, <2>3, <2>4, <2>5, TimesReplaced
<1>11. CASE Into(<<[Call EXCEPT !.c = "times_element"]>>)
    <2>1. PICK q : q = [c EXCEPT !.c = "times_element"]
        OBVIOUS
    <2>2. Proper(q, dom) /\ q.c = "times_element" /\ q.xs = c.xs /\ q.y = c.y
        BY <1>3, <2>1, Renamed
    <2>3. Plain(q, dom)
        BY <2>2 DEF Plain
    <2>4. \A s : Holds(q, s) <=> s[y] = s[a] * s[b]
        BY <1>1, <2>2, HoldsOperation
    <2>5. Into(<<q>>)
        BY <1>1, <1>11, <2>1
    <2>6. \A s : At1(s) => (Holds(Call, s) <=> Holds(q, s))
        BY <1>4, <2>4
    <2> QED BY <1>3, <2>3, <2>5, <2>6, IntoOne
<1> QED BY <1>1, <1>7, <1>8, <1>9, <1>10, <1>11 DEF IntTimes

\* mip_int_times_element: a product looked up in the multiples of a column.
LEMMA TimesElementReplaced ==
    ASSUME Formed, mip_int_times_element
    PROVE  Replaced
<1>1. PICK c, a, b, y, n, f :
        c = Call /\ a = c.xs[1] /\ b = c.xs[2] /\ y = c.y /\ n = Cardinality(dom[a]) /\ f = Asc(dom[a])
    OBVIOUS
<1>2. Doing("times_element")
    BY DEF mip_int_times_element
<1>3. /\ Heads /\ Working /\ Typed /\ todo # <<>> /\ Domains(dom) /\ c.c = "times_element"
      /\ a \in Columns(dom) /\ b \in Columns(dom) /\ y \in Columns(dom) /\ Call.c \notin Flat
      /\ \A s : At1(s) => Fits(s, dom) /\ EncodedAt(s)
    <2>1. PICK kind : kind = "times_element"
        OBVIOUS
    <2> QED BY <1>1, <1>2, <2>1, OperationHead
<1>4. \A s : Holds(Call, s) <=> s[y] = s[a] * s[b]
    BY <1>1, <1>3, HoldsOperation
<1>5. Finite(dom[a]) /\ \A s : Fits(s, dom) => s[a] \in Int /\ s[b] \in Int /\ s[y] \in Int /\ s[a] \in dom[a]
    BY <1>3, FitsColumns, ColumnIs
<1>6. /\ n \in Nat /\ DOMAIN f = 1 .. n
      /\ \A k \in 1 .. n : f[k] \in dom[a] /\ f[k] \in Int
      /\ \A v \in dom[a] : \E k \in 1 .. n : f[k] = v
    BY <1>1, <1>5, AscIs
<1>7. CASE First(Select(a))
    <2>1. Call.c \notin {"element", "two", "times"}
        BY <1>1, <1>3
    <2> QED BY <1>3, <1>7, <2>1, SelectFirst
<1>8. CASE /\ a \in DOMAIN select
           /\ Into([k \in DOMAIN f |-> EqImp(<<1, -f[k]>>, <<y, b>>, 0, mip_select_at(a, f[k]))])
    <2>1. PICK calls : calls = [k \in 1 .. n |-> EqImp(<<1, -f[k]>>, <<y, b>>, 0, mip_select_at(a, f[k]))]
        OBVIOUS
    <2>2. Into(calls)
        BY <1>6, <1>8, <2>1
    <2>3. calls \in Seq(Range(calls)) /\ Range(calls) = {calls[k] : k \in 1 .. n}
        <3>1. calls = [k \in 1 .. n |-> calls[k]]
            BY <2>1
        <3> QED BY <1>6, <3>1, MadeList
    <2>4. ASSUME NEW k \in 1 .. n
          PROVE  /\ Plain(calls[k], dom)
                 /\ \A s : At1(s) => (Holds(calls[k], s) <=> (s[a] = f[k] => s[y] = f[k] * s[b]))
        <3>1. PICK v, p : v = f[k] /\ p = mip_select_at(a, v)
            OBVIOUS
        <3>2. calls[k] = EqImp(<<1, -v>>, <<y, b>>, 0, p) /\ v \in Int
            BY <1>6, <2>1, <3>1
        <3>3. /\ p \in Booleans(dom)
              /\ \A s : Fits(s, dom) /\ EncodedAt(s) => s[p] \in {0, 1} /\ (s[p] = 1 <=> s[a] = v)
            BY <1>3, <1>8, <3>1, <3>2, SelectedIs
        <3> v \in Int /\ b \in Columns(dom) /\ y \in Columns(dom) /\ Domains(dom)
            BY <1>3, <3>2
        <3>4. Row(<<1, -v>>, <<y, b>>, 0, dom)
            BY MultipleIs
        <3>5. \A s : Fits(s, dom) => (SumOf(<<1, -v>>, <<y, b>>, s) = 0 <=> s[y] = v * s[b])
            BY MultipleIs
        <3>6. Plain(calls[k], dom)
            BY <3>2, <3>3, <3>4, MadeImps DEF Plain
        <3>7. ASSUME NEW s, At1(s) PROVE Holds(calls[k], s) <=> (s[a] = v => s[y] = v * s[b])
            <4>1. Fits(s, dom) /\ EncodedAt(s)
                BY <1>3, <3>7
            <4>2. Holds(calls[k], s) <=> (s[p] = 1 => SumOf(<<1, -v>>, <<y, b>>, s) = 0)
                BY <3>2, EqImpHolds
            <4> QED BY <3>3, <3>5, <4>1, <4>2
        <3> QED BY <3>1, <3>6, <3>7
    <2>5. \A p \in Range(calls) : Plain(p, dom)
        BY <2>3, <2>4
    <2>6. ASSUME NEW s, At1(s) PROVE Holds(Call, s) <=> Meets(s, Range(calls))
        <3>1. Meets(s, Range(calls)) <=> \A k \in 1 .. n : s[a] = f[k] => s[y] = f[k] * s[b]
            BY <2>3, <2>4, <2>6 DEF Meets
        <3>2. PICK j \in 1 .. n : s[a] = f[j]
            BY <1>3, <1>5, <1>6, <2>6
        <3> QED BY <1>4, <3>1, <3>2
    <2>7. Agrees(calls)
        BY <2>6 DEF Agrees
    <2> QED BY <1>3, <2>2, <2>3, <2>5, <2>7, IntoPlain
<1> QED BY <1>1, <1>7, <1>8 DEF mip_int_times_element

-----------------------------------------------------------------------------
(***************************************************************************)
(* Lists put together, and new bits of which one is set.                   *)
(***************************************************************************)
Listed(q, S) == q \in Seq(Range(q)) /\ Range(q) = S

LEMMA ListedShort == Listed(<<>>, {}) /\ \A c : Listed(<<c>>, {c})
<1>1. Listed(<<>>, {})
    BY NoCalls DEF Listed
<1>2. ASSUME NEW c PROVE Listed(<<c>>, {c})
    BY OneCall DEF Listed
<1> QED BY <1>1, <1>2

LEMMA ListedMade ==
    ASSUME NEW n, n \in Nat, NEW q, q = [i \in 1 .. n |-> q[i]]
    PROVE  Listed(q, {q[i] : i \in 1 .. n})
BY MadeList DEF Listed

LEMMA ListedJoin ==
    ASSUME NEW p, NEW q, NEW S, NEW T, Listed(p, S), Listed(q, T)
    PROVE  Listed(p \o q, S \cup T)
BY Joined DEF Listed

Hot(d, n, t, k) == \A i \in 1 .. n : t[Len(d) + i] = IF i = k THEN 1 ELSE 0

HotSum(d, n, t, sum) ==
    /\ \A i \in 1 .. n : t[Len(d) + i] \in {0, 1}
    /\ sum = 1 <=> \E k \in 1 .. n : Hot(d, n, t, k)
    /\ sum <= 1 <=> \A i, j \in 1 .. n : t[Len(d) + i] = 1 /\ t[Len(d) + j] = 1 => i = j

LEMMA OneHotIs ==
    ASSUME NEW d, Len(d) \in Nat, NEW e, Domains(e), NEW n, n \in Nat, BitsFrom(d, e, n),
           NEW co, co = [i \in 1 .. n |-> 1], NEW bs, bs = [i \in 1 .. n |-> Len(d) + i]
    PROVE  /\ \A k \in Int : Row(co, bs, k, e)
           /\ \A t : Fits(t, e) => HotSum(d, n, t, SumOf(co, bs, t))
<1>1. co \in Seq(Int) /\ bs \in Seq(Columns(e)) /\ Len(co) = n /\ Len(bs) = n
    <2>1. \A i \in 1 .. n : Len(d) + i \in Columns(e)
        BY DEF BitsFrom, Booleans
    <2> QED BY <2>1
<1>2. \A k \in Int : Row(co, bs, k, e)
    BY <1>1 DEF Row
<1>3. ASSUME NEW t, Fits(t, e)
      PROVE  /\ \A i \in 1 .. n : t[Len(d) + i] \in {0, 1}
             /\ SumOf(co, bs, t) = 1 <=>
                  \E k \in 1 .. n : \A i \in 1 .. n : t[Len(d) + i] = IF i = k THEN 1 ELSE 0
             /\ SumOf(co, bs, t) <= 1 <=>
                  \A i, j \in 1 .. n : t[Len(d) + i] = 1 /\ t[Len(d) + j] = 1 => i = j
    <2>1. \A i \in 1 .. n : t[Len(d) + i] \in {0, 1}
        BY <1>3, FitsColumns DEF BitsFrom
    <2>2. Row(co, bs, 0, e)
        BY <1>2
    <2>3. Summable(co, bs, t)
        BY <1>3, <2>2, SummableIn
    <2>4. Bits(bs, t) /\ Ones(co, bs)
        BY <1>1, <2>1 DEF Bits, Ones
    <2>5. (SumOf(co, bs, t) = 1 <=> OneSet(bs, t)) /\ (SumOf(co, bs, t) <= 1 <=> AtMostOneSet(bs, t))
        BY <2>3, <2>4, SumOfBits
    <2>6. \A i \in 1 .. n : t[bs[i]] = t[Len(d) + i]
        OBVIOUS
    <2>7. OneSet(bs, t) <=> \E k \in 1 .. n : \A i \in 1 .. n : t[Len(d) + i] = IF i = k THEN 1 ELSE 0
        BY <1>1, <2>6 DEF OneSet
    <2>8. AtMostOneSet(bs, t) <=> \A i, j \in 1 .. n : t[Len(d) + i] = 1 /\ t[Len(d) + j] = 1 => i = j
        BY <1>1, <2>6 DEF AtMostOneSet
    <2> QED BY <2>1, <2>5, <2>7, <2>8
<1> QED BY <1>2, <1>3 DEF HotSum, Hot

\* An assignment continued with one bit set.
HotFree(d, e, n) ==
    \A s, k : Fits(s, d) /\ k \in 1 .. n =>
        \E t : Fits(t, e) /\ Alike(s, t, 1 .. Len(d)) /\ Hot(d, n, t, k)

LEMMA HotIsFree ==
    ASSUME NEW d, NEW e, NEW n, Extension(d, e, n), BitsFrom(d, e, n)
    PROVE  HotFree(d, e, n)
<1> SUFFICES ASSUME NEW s, NEW k, Fits(s, d), k \in 1 .. n
             PROVE  \E t : Fits(t, e) /\ Alike(s, t, 1 .. Len(d)) /\ Hot(d, n, t, k)
    BY DEF HotFree
<1>1. PICK f : f = [i \in 1 .. n |-> IF i = k THEN 1 ELSE 0]
    OBVIOUS
<1>2. Suits(f, d, e, n)
    BY <1>1 DEF Suits, BitsFrom
<1>3. PICK t : /\ Fits(t, e) /\ Alike(s, t, 1 .. Len(d)) /\ \A i \in 1 .. n : t[Len(d) + i] = f[i]
    BY <1>2, Extended
<1> QED BY <1>1, <1>3 DEF Hot

-----------------------------------------------------------------------------
(***************************************************************************)
(* Extrema.                                                                *)
(***************************************************************************)
Below(k, u, v) == IF k = "maximum" THEN u <= v ELSE v <= u

Extreme(k, V)      == IF k = "maximum" THEN Max(V) ELSE Min(V)
Beats(k, g, n, C, m) == \A i \in 1 .. n : i \notin C => Below(k, g[i], g[m])
Attains(k, g, C, v) == (\E i \in C : v = g[i]) /\ \A i \in C : Below(k, g[i], v)

LEMMA ExtremumIs ==
    ASSUME NEW k, k \in {"maximum", "minimum"}, NEW n, n \in Nat, n > 0,
           NEW g, g = [i \in 1 .. n |-> g[i]], \A i \in 1 .. n : g[i] \in Int, NEW v, v \in Int,
           NEW C, C \subseteq 1 .. n, NEW m, m \in C, Beats(k, g, n, C, m),
           NEW V, V = {g[i] : i \in 1 .. n}
    PROVE  v = Extreme(k, V) <=> Attains(k, g, C, v)
<1> USE DEF Extreme, Beats, Attains
<1>1. PICK L : L = 1 .. n /\ V = {g[i] : i \in L}
    OBVIOUS
<1>2. Finite(V)
    <2>1. IsFiniteSet(L)
        BY <1>1, IntervalFinite DEF Finite
    <2> QED BY <1>1, <2>1, ValuesFinite
<1>3. V # {}
    BY <1>1
<1>4. /\ Max(V) \in V /\ Min(V) \in V /\ Max(V) \in Int /\ Min(V) \in Int
      /\ \A w \in V : w \in Int /\ Min(V) <= w /\ w <= Max(V)
    BY <1>2, <1>3, EndsAre
<1>5. ASSUME (\E i \in C : v = g[i]) /\ \A i \in C : Below(k, g[i], v)
      PROVE  v \in V /\ \A w \in V : Below(k, w, v)
    <2>1. v \in V
        BY <1>1, <1>5
    <2>2. ASSUME NEW i \in L PROVE Below(k, g[i], v)
        <3>1. CASE i \in C
            BY <1>5, <3>1
        <3>2. CASE i \notin C
            <4>1. Below(k, g[i], g[m]) /\ Below(k, g[m], v)
                BY <1>1, <1>5, <3>2
            <4>2. g[i] \in Int /\ g[m] \in Int
                BY <1>1
            <4> QED BY <4>1, <4>2 DEF Below
        <3> QED BY <3>1, <3>2
    <2> QED BY <1>1, <2>1, <2>2
<1>6. ASSUME v \in V /\ \A w \in V : Below(k, w, v)
      PROVE  (\E i \in C : v = g[i]) /\ \A i \in C : Below(k, g[i], v)
    <2>1. PICK i \in L : v = g[i]
        BY <1>1, <1>6
    <2>2. \A j \in C : Below(k, g[j], v)
        BY <1>1, <1>6
    <2>3. CASE i \in C
        BY <2>1, <2>2, <2>3
    <2>4. CASE i \notin C
        <3>1. Below(k, v, g[m]) /\ Below(k, g[m], v) /\ g[m] \in Int
            BY <1>1, <2>1, <2>2, <2>4
        <3>2. v = g[m]
            BY <3>1 DEF Below
        <3> QED BY <2>2, <3>2
    <2> QED BY <2>3, <2>4
<1>7. v = Max(V) <=> v \in V /\ \A w \in V : w <= v
    <2>1. v = Max(V) => v \in V /\ \A w \in V : w <= v
        BY <1>4
    <2> QED BY <1>2, <2>1, MaxIs
<1>8. v = Min(V) <=> v \in V /\ \A w \in V : v <= w
    <2>1. v = Min(V) => v \in V /\ \A w \in V : v <= w
        BY <1>4
    <2> QED BY <1>2, <2>1, MinIs
<1>9. CASE k = "maximum"
    BY <1>1, <1>5, <1>6, <1>7, <1>9 DEF Below
<1>10. CASE k = "minimum"
    BY <1>1, <1>5, <1>6, <1>8, <1>10 DEF Below
<1> QED BY <1>9, <1>10

\* No column that is left out can be beyond one that is kept.
Covers(C, k, xs) ==
    \E m \in C : \A s : Fits(s, dom) =>
        \A i \in 1 .. Len(xs) : i \notin C => Below(k, s[xs[i]], s[xs[m]])

LEMMA CandidatesAre ==
    ASSUME Working, NEW xs, NEW n, n = Len(xs), n \in Nat, n > 0, \A i \in 1 .. n : xs[i] \in Columns(dom),
           NEW k, k \in {"maximum", "minimum"}, NEW C, C = mip_extremum_candidates(xs, k = "maximum")
    PROVE  Finite(C) /\ C \subseteq 1 .. n /\ Covers(C, k, xs)
<1>1. PICK L : L = 1 .. n
    OBVIOUS
<1>2. Finite(L) /\ L # {} /\ \A i \in L : i \in Int
    BY <1>1, IntervalFinite
<1>3. \A i \in L : lb(xs[i]) \in Int /\ ub(xs[i]) \in Int
    BY <1>1, ColumnIs
<1>4. \A s : Fits(s, dom) => \A i \in L : s[xs[i]] \in Int /\ lb(xs[i]) <= s[xs[i]] /\ s[xs[i]] <= ub(xs[i])
    BY <1>1, ValueIs
<1>5. PICK g, h : g = [i \in L |-> lb(xs[i])] /\ h = [i \in L |-> ub(xs[i])]
    OBVIOUS
<1>6. Finite({g[i] : i \in L}) /\ Finite({h[i] : i \in L})
    <2>1. IsFiniteSet(L)
        BY <1>2 DEF Finite
    <2>2. g = [i \in L |-> g[i]] /\ h = [i \in L |-> h[i]]
        BY <1>5
    <2>3. \A i \in L : g[i] \in Int /\ h[i] \in Int
        BY <1>3, <1>5
    <2>4. Finite({g[i] : i \in L})
        BY <2>1, <2>2, <2>3, ValuesFinite
    <2>5. Finite({h[i] : i \in L})
        BY <2>1, <2>2, <2>3, ValuesFinite
    <2> QED BY <2>4, <2>5
<1>7. PICK V, W : V = {lb(xs[i]) : i \in L} /\ W = {ub(xs[i]) : i \in L}
    OBVIOUS
<1>8. Finite(V) /\ Finite(W) /\ V # {} /\ W # {}
    <2>1. V = {g[i] : i \in L} /\ W = {h[i] : i \in L}
        BY <1>5, <1>7
    <2>2. Finite(V) /\ Finite(W)
        BY <1>6, <2>1
    <2>3. V # {} /\ W # {}
        BY <1>2, <1>7
    <2> QED BY <2>2, <2>3
<1>9. Max(V) \in V /\ Max(V) \in Int /\ Min(W) \in W /\ Min(W) \in Int
    BY <1>8, EndsAre
<1>10. ASSUME NEW tightest, NEW could, NEW attains, could \subseteq L, attains \subseteq L, attains # {},
              C = IF could \cap attains # {} THEN could ELSE could \cup {Min(attains)}
       PROVE  C \subseteq L /\ could \subseteq C /\ \E m \in C : m \in attains
    <2>1. Finite(attains)
        BY <1>2, <1>10, FiniteParts
    <2>2. Min(attains) \in attains
        BY <1>10, <2>1, EndsAre
    <2> QED BY <1>10, <2>2
<1>11. CASE k = "maximum"
    <2>1. PICK tightest, could, attains :
            /\ tightest = Max(V) /\ could = {i \in L : ub(xs[i]) > tightest}
            /\ attains = {i \in L : lb(xs[i]) = tightest}
        OBVIOUS
    <2>2. C = IF could \cap attains # {} THEN could ELSE could \cup {Min(attains)}
        BY <1>1, <1>7, <1>11, <2>1 DEF mip_extremum_candidates
    <2>3. could \subseteq L /\ attains \subseteq L /\ attains # {}
        BY <1>7, <1>9, <2>1
    <2>4. C \subseteq L /\ could \subseteq C /\ \E m \in C : m \in attains
        BY <1>10, <2>2, <2>3
    <2>5. PICK m \in C : m \in attains
        BY <2>4
    <2>6. ASSUME NEW s, Fits(s, dom), NEW i \in L, i \notin C PROVE Below(k, s[xs[i]], s[xs[m]])
        <3>1. ~(ub(xs[i]) > tightest) /\ lb(xs[m]) = tightest /\ m \in L
            BY <2>1, <2>4, <2>5, <2>6
        <3>2. s[xs[i]] \in Int /\ s[xs[i]] <= ub(xs[i]) /\ lb(xs[m]) <= s[xs[m]] /\ s[xs[m]] \in Int
            BY <1>4, <2>6, <3>1
        <3>3. s[xs[i]] <= s[xs[m]]
            BY <1>3, <1>9, <2>1, <3>1, <3>2
        <3> QED BY <1>11, <3>3 DEF Below
    <2>7. Finite(C)
        BY <1>2, <2>4, FiniteParts
    <2> QED BY <1>1, <2>4, <2>5, <2>6, <2>7 DEF Covers
<1>12. CASE k = "minimum"
    <2>1. PICK tightest, could, attains :
            /\ tightest = Min(W) /\ could = {i \in L : lb(xs[i]) < tightest}
            /\ attains = {i \in L : ub(xs[i]) = tightest}
        OBVIOUS
    <2>2. C = IF could \cap attains # {} THEN could ELSE could \cup {Min(attains)}
        BY <1>1, <1>7, <1>12, <2>1 DEF mip_extremum_candidates
    <2>3. could \subseteq L /\ attains \subseteq L /\ attains # {}
        BY <1>7, <1>9, <2>1
    <2>4. C \subseteq L /\ could \subseteq C /\ \E m \in C : m \in attains
        BY <1>10, <2>2, <2>3
    <2>5. PICK m \in C : m \in attains
        BY <2>4
    <2>6. ASSUME NEW s, Fits(s, dom), NEW i \in L, i \notin C PROVE Below(k, s[xs[i]], s[xs[m]])
        <3>1. ~(lb(xs[i]) < tightest) /\ ub(xs[m]) = tightest /\ m \in L
            BY <2>1, <2>4, <2>5, <2>6
        <3>2. s[xs[i]] \in Int /\ lb(xs[i]) <= s[xs[i]] /\ s[xs[m]] <= ub(xs[m]) /\ s[xs[m]] \in Int
            BY <1>4, <2>6, <3>1
        <3>3. s[xs[m]] <= s[xs[i]]
            BY <1>3, <1>9, <2>1, <3>1, <3>2
        <3> QED BY <1>12, <3>3 DEF Below
    <2>7. Finite(C)
        BY <1>2, <2>4, FiniteParts
    <2> QED BY <1>1, <2>4, <2>5, <2>6, <2>7 DEF Covers
<1> QED BY <1>11, <1>12

\* An order between two columns, as a row and as one implied by a Boolean.
Ordering(p, r, k, x, y, b, d) ==
    /\ Plain(p, d) /\ Plain(r, d)
    /\ \A s : Fits(s, d) =>
         /\ Holds(p, s) <=> Below(k, s[x], s[y])
         /\ Holds(r, s) <=> (s[b] = 1 => Below(k, s[y], s[x]))

Signs(k, u, v) == IF k = "maximum" THEN u = -1 /\ v = 1 ELSE u = 1 /\ v = -1

LEMMA BelowIs ==
    ASSUME NEW d, Domains(d), NEW k, k \in {"maximum", "minimum"}, NEW u, NEW v, Signs(k, u, v),
           NEW x, x \in Columns(d), NEW y, y \in Columns(d), NEW b, b \in Booleans(d),
           NEW p, p = Le(<<u, v>>, <<y, x>>, 0), NEW r, r = LeImp(<<v, u>>, <<y, x>>, 0, b)
    PROVE  Ordering(p, r, k, x, y, b, d)
<1>0. IF k = "maximum" THEN u = -1 /\ v = 1 ELSE u = 1 /\ v = -1
    BY DEF Signs
<1>1. u \in {1, -1} /\ v \in {1, -1} /\ u \in Int /\ v \in Int
    <2>1. CASE k = "maximum"
        BY <1>0, <2>1
    <2>2. CASE k # "maximum"
        BY <1>0, <2>2
    <2> QED BY <2>1, <2>2
<1>2. Row(<<u, v>>, <<y, x>>, 0, d)
    BY <1>1, PairIs
<1>3. Row(<<v, u>>, <<y, x>>, 0, d)
    BY <1>1, PairIs
<1>4. Plain(Le(<<u, v>>, <<y, x>>, 0), d) /\ Plain(LeImp(<<v, u>>, <<y, x>>, 0, b), d)
    BY <1>2, <1>3, MadeLe, MadeImps DEF Plain
<1>5. ASSUME NEW s, Fits(s, d)
      PROVE  /\ Holds(Le(<<u, v>>, <<y, x>>, 0), s) <=> Below(k, s[x], s[y])
             /\ Holds(LeImp(<<v, u>>, <<y, x>>, 0, b), s) <=> (s[b] = 1 => Below(k, s[y], s[x]))
    <2>0. ASSUME NEW a \in Int, NEW c \in Int
          PROVE  s[x] \in Int /\ s[y] \in Int /\ SumOf(<<a, c>>, <<y, x>>, s) = a * s[y] + c * s[x]
        BY <1>5, PairIs
    <2>1. s[x] \in Int /\ s[y] \in Int /\ SumOf(<<u, v>>, <<y, x>>, s) = u * s[y] + v * s[x]
        BY <1>1, <2>0, Zenon
    <2>2. SumOf(<<v, u>>, <<y, x>>, s) = v * s[y] + u * s[x]
        BY <1>1, <2>0, Zenon
    <2>3. u * s[y] + v * s[x] <= 0 <=> Below(k, s[x], s[y])
        <3>1. CASE k = "maximum"
            <4>1. u * s[y] = -s[y] /\ v * s[x] = s[x]
                BY <1>0, <2>1, <3>1
            <4> QED BY <2>1, <3>1, <4>1 DEF Below
        <3>2. CASE k = "minimum"
            <4>1. u * s[y] = s[y] /\ v * s[x] = -s[x]
                BY <1>0, <2>1, <3>2
            <4> QED BY <2>1, <3>2, <4>1 DEF Below
        <3> QED BY <3>1, <3>2
    <2>4. v * s[y] + u * s[x] <= 0 <=> Below(k, s[y], s[x])
        <3>1. CASE k = "maximum"
            <4>1. v * s[y] = s[y] /\ u * s[x] = -s[x]
                BY <1>0, <2>1, <3>1
            <4> QED BY <2>1, <3>1, <4>1 DEF Below
        <3>2. CASE k = "minimum"
            <4>1. v * s[y] = -s[y] /\ u * s[x] = s[x]
                BY <1>0, <2>1, <3>2
            <4> QED BY <2>1, <3>2, <4>1 DEF Below
        <3> QED BY <3>1, <3>2
    <2>5. Holds(Le(<<u, v>>, <<y, x>>, 0), s) <=> SumOf(<<u, v>>, <<y, x>>, s) <= 0
        BY LeHolds
    <2>6. Holds(LeImp(<<v, u>>, <<y, x>>, 0, b), s) <=> (s[b] = 1 => SumOf(<<v, u>>, <<y, x>>, s) <= 0)
        BY LeImpHolds
    <2> QED BY <2>1, <2>2, <2>3, <2>4, <2>5, <2>6
<1> QED BY <1>4, <1>5 DEF Ordering

\* What the call asks, in the candidates alone.
LEMMA ExtremumHead ==
    ASSUME Formed, NEW c, c = Call, NEW k, k \in {"maximum", "minimum"}, Doing(k),
           NEW C, C = mip_extremum_candidates(c.xs, k = "maximum")
    PROVE  /\ Finite(C) /\ C \subseteq 1 .. Len(c.xs) /\ C # {}
           /\ \A s : Fits(s, dom) =>
                (Holds(Call, s) <=> (\E i \in C : s[c.y] = s[c.xs[i]])
                                    /\ \A i \in C : Below(k, s[c.xs[i]], s[c.y]))
<1>1. PICK xs, n, y : xs = c.xs /\ n = Len(xs) /\ y = c.y
    OBVIOUS
<1>2. /\ Heads /\ Working /\ Domains(dom) /\ c.c = k /\ y \in Columns(dom) /\ n \in Nat /\ n > 0
      /\ \A i \in 1 .. n : xs[i] \in Columns(dom)
    BY <1>1, OperationHead
<1>3. /\ Finite(C) /\ C \subseteq 1 .. n
      /\ Covers(C, k, xs)
    BY <1>1, <1>2, CandidatesAre
<1>4. PICK m \in C : \A s : Fits(s, dom) => \A i \in 1 .. n : i \notin C => Below(k, s[xs[i]], s[xs[m]])
    BY <1>1, <1>3 DEF Covers
<1>5. ASSUME NEW s, Fits(s, dom)
      PROVE  Holds(Call, s) <=> (\E i \in C : s[y] = s[xs[i]]) /\ \A i \in C : Below(k, s[xs[i]], s[y])
    <2>1. PICK g, v : g = [i \in 1 .. n |-> s[xs[i]]] /\ v = s[y]
        OBVIOUS
    <2>2. v \in Int /\ g = [i \in 1 .. n |-> g[i]] /\ \A i \in 1 .. n : g[i] \in Int /\ g[i] = s[xs[i]]
        BY <1>2, <1>5, <2>1, FitsColumns
    <2>3. Beats(k, g, n, C, m)
        BY <1>3, <1>4, <1>5, <2>2 DEF Beats
    <2>5. PICK V : V = {g[i] : i \in 1 .. n}
        OBVIOUS
    <2>4. v = Extreme(k, V) <=> Attains(k, g, C, v)
        BY <1>2, <1>3, <2>2, <2>3, <2>5, ExtremumIs
    <2>6. V = {s[xs[i]] : i \in 1 .. n}
        BY <2>2, <2>5
    <2>7. Holds(Call, s) <=> v = Extreme(k, V)
        <3>1. CASE k = "maximum"
            <4>1. Call.c = "maximum"
                BY <1>2, <3>1
            <4>2. Holds(Call, s) <=> s[Call.y] = Max({s[Call.xs[i]] : i \in 1 .. Len(Call.xs)})
                BY <4>1, HoldsOperation
            <4> QED BY <1>1, <2>1, <2>6, <3>1, <4>2 DEF Extreme
        <3>2. CASE k = "minimum"
            <4>1. Call.c = "minimum"
                BY <1>2, <3>2
            <4>2. Holds(Call, s) <=> s[Call.y] = Min({s[Call.xs[i]] : i \in 1 .. Len(Call.xs)})
                BY <4>1, HoldsOperation
            <4> QED BY <1>1, <2>1, <2>6, <3>2, <4>2 DEF Extreme
        <3> QED BY <3>1, <3>2
    <2>8. (\E i \in C : v = g[i]) <=> \E i \in C : s[y] = s[xs[i]]
        BY <1>3, <2>1, <2>2
    <2>9. (\A i \in C : Below(k, g[i], v)) <=> \A i \in C : Below(k, s[xs[i]], s[y])
        BY <1>3, <2>1, <2>2
    <2> QED BY <2>4, <2>7, <2>8, <2>9 DEF Attains
<1> QED BY <1>1, <1>3, <1>4, <1>5

\* fzn_array_int_maximum and _minimum: one bit for each candidate.
LEMMA ExtremumReplaced ==
    ASSUME Formed, mip_int_extremum
    PROVE  Replaced
<1>1. PICK c, k, xs, y, C, f, n : /\ c = Call /\ k = c.c /\ xs = c.xs /\ y = c.y
                                  /\ C = mip_extremum_candidates(c.xs, k = "maximum")
                                  /\ f = Asc(C) /\ n = Cardinality(C)
    OBVIOUS
<1>2. k \in {"maximum", "minimum"} /\ Doing(k)
    BY <1>1 DEF mip_int_extremum, Doing
<1>3. /\ Heads /\ Working /\ Domains(dom) /\ y \in Columns(dom)
      /\ \A i \in 1 .. Len(xs) : xs[i] \in Columns(dom)
      /\ \A s : At1(s) => Fits(s, dom)
    BY <1>1, <1>2, OperationHead
<1>4. /\ Finite(C) /\ C \subseteq 1 .. Len(xs) /\ C # {}
      /\ \A s : Fits(s, dom) =>
            (Holds(Call, s) <=> (\E i \in C : s[y] = s[xs[i]]) /\ \A i \in C : Below(k, s[xs[i]], s[y]))
    BY <1>1, <1>2, ExtremumHead
<1>5. /\ n \in Nat /\ DOMAIN f = 1 .. n /\ Len(f) = n
      /\ \A j \in 1 .. n : f[j] \in C
      /\ \A i \in C : \E j \in 1 .. n : f[j] = i
    <2>1. n \in Nat /\ DOMAIN f = 1 .. n /\ \A j \in 1 .. n : f[j] \in C
        BY <1>1, <1>4, AscIs
    <2>2. Len(f) = n
        BY <1>1, <1>4, AscIs
    <2>3. ASSUME NEW i \in C PROVE \E j \in 1 .. n : f[j] = i
        <3>1. Rank(C, i) \in 1 .. n /\ f[Rank(C, i)] = i
            BY <1>1, <1>4, AscIs
        <3> QED BY <3>1
    <2> QED BY <2>1, <2>2, <2>3
<1>6. \A j \in 1 .. n : xs[f[j]] \in Columns(dom)
    BY <1>3, <1>4, <1>5
<1>7. PICK u, v : u = (IF k = "maximum" THEN -1 ELSE 1) /\ v = -u
    OBVIOUS
<1>71. Signs(k, u, v)
    <2>1. CASE k = "maximum"
        <3>1. u = -1 /\ u \in Int
            BY <1>7, <2>1
        <3>2. v = -u
            BY <1>7
        <3>4. u \in Int => -u \in Int /\ u + (-u) = 0
            OBVIOUS
        <3>5. v \in Int /\ u + v = 0
            BY <3>1, <3>2, <3>4, Zenon
        <3>3. v = 1
            BY <3>1, <3>5
        <3> QED BY <2>1, <3>1, <3>3 DEF Signs
    <2>2. CASE k # "maximum"
        BY <1>7, <2>2 DEF Signs
    <2> QED BY <2>1, <2>2
<1>8. PICK one : one = 1
    OBVIOUS
<1>9. \/ n = 1 /\ Into(<<Eq(<<1, -1>>, <<y, xs[f[1]]>>, 0)>>)
      \/ IntoNew(n, [j \in 1 .. n |-> Le(<<u, v>>, <<y, xs[f[j]]>>, 0)]
                    \o <<Eq([j \in 1 .. n |-> 1], [j \in 1 .. n |-> New + j], one)>>
                    \o [j \in 1 .. n |-> LeImp(<<v, u>>, <<y, xs[f[j]]>>, 0, New + j)])
    <2>1. v = IF k = "maximum" THEN 1 ELSE -1
        BY <1>7
    <2>2. \/ n = 1 /\ Into(<<Eq(<<1, -1>>, <<y, xs[f[1]]>>, 0)>>)
          \/ IntoNew(n, [j \in DOMAIN f |-> Le(<<u, v>>, <<y, xs[f[j]]>>, 0)]
                        \o <<Eq([j \in DOMAIN f |-> 1], [j \in DOMAIN f |-> New + j], one)>>
                        \o [j \in DOMAIN f |-> LeImp(<<v, u>>, <<y, xs[f[j]]>>, 0, New + j)])
        <3>1. PICK sign : sign = IF c.c = "maximum" THEN -1 ELSE 1
            OBVIOUS
        <3>2. u = sign /\ v = -sign
            BY <1>1, <1>7, <3>1
        <3>3. \/ n = 1 /\ Into(<<Eq(<<1, -1>>, <<y, xs[f[1]]>>, 0)>>)
              \/ IntoNew(n, [j \in DOMAIN f |-> Le(<<sign, -sign>>, <<y, xs[f[j]]>>, 0)]
                            \o <<Eq([j \in DOMAIN f |-> 1], [j \in DOMAIN f |-> New + j], 1)>>
                            \o [j \in DOMAIN f |-> LeImp(<<-sign, sign>>, <<y, xs[f[j]]>>, 0, New + j)])
            BY <1>1, <1>5, <3>1 DEF mip_int_extremum
        <3> QED BY <1>8, <3>2, <3>3
    <2> QED BY <1>5, <2>2
<1>10. CASE n = 1 /\ Into(<<Eq(<<1, -1>>, <<y, xs[f[1]]>>, 0)>>)
    <2>1. PICK x, i, q : i = f[1] /\ x = xs[i] /\ q = Eq(<<1, -1>>, <<y, x>>, 0)
        OBVIOUS
    <2>2. i \in C /\ (\A j \in C : j = i) /\ x \in Columns(dom)
        BY <1>5, <1>6, <1>10, <2>1
    <2>3. Plain(q, dom)
        BY <1>3, <2>1, <2>2, UnitsAre, MadeEq DEF Plain
    <2>4. ASSUME NEW s, At1(s) PROVE Holds(Call, s) <=> Holds(q, s)
        <3>1. Fits(s, dom)
            BY <1>3, <2>4
        <3>2. s[x] \in Int /\ s[y] \in Int /\ SumOf(<<1, -1>>, <<y, x>>, s) = s[y] - s[x]
            BY <1>3, <2>2, <3>1, UnitsAre
        <3>3. Holds(q, s) <=> s[y] - s[x] = 0
            BY <2>1, <3>2, EqHolds
        <3>4. Holds(Call, s) <=> s[y] = s[x] /\ Below(k, s[x], s[y])
            BY <1>4, <2>1, <2>2, <3>1
        <3>5. s[y] = s[x] => Below(k, s[x], s[y])
            BY <3>2 DEF Below
        <3> QED BY <3>2, <3>3, <3>4, <3>5
    <2> QED BY <1>3, <1>10, <2>1, <2>3, <2>4, IntoOne
<1>11. ASSUME IntoNew(n, [j \in 1 .. n |-> Le(<<u, v>>, <<y, xs[f[j]]>>, 0)]
                    \o <<Eq([j \in 1 .. n |-> 1], [j \in 1 .. n |-> New + j], one)>>
                    \o [j \in 1 .. n |-> LeImp(<<v, u>>, <<y, xs[f[j]]>>, 0, New + j)])
       PROVE  Replaced
    <2>1. PICK d, e : d = dom /\ e = dom' /\ New = Len(d)
        BY DEF New
    <2>2. e = d \o AllBits(n)
        BY <1>11, <2>1 DEF IntoNew, AllBits
    <2>3. /\ Domains(e) /\ Longer(d, e) /\ Bigger(d, e) /\ Len(d) \in Nat
          /\ Extension(d, e, n) /\ BitsFrom(d, e, n)
        BY <1>3, <1>5, <2>1, <2>2, NewBits
    <2>4. PICK p, r, co, bs : /\ p = [j \in 1 .. n |-> Le(<<u, v>>, <<y, xs[f[j]]>>, 0)]
                              /\ r = [j \in 1 .. n |-> LeImp(<<v, u>>, <<y, xs[f[j]]>>, 0, Len(d) + j)]
                              /\ co = [i \in 1 .. n |-> 1] /\ bs = [i \in 1 .. n |-> Len(d) + i]
        OBVIOUS
    <2>5. PICK q, calls : q = Eq(co, bs, one) /\ calls = p \o <<q>> \o r
        OBVIOUS
    <2>6. todo' = calls \o Tail(todo) /\ UNCHANGED <<model, out, shared>>
        BY <1>11, <2>1, <2>4, <2>5 DEF IntoNew
    <2>7. /\ \A k_ \in Int : Row(co, bs, k_, e)
          /\ \A t : Fits(t, e) => HotSum(d, n, t, SumOf(co, bs, t))
        BY <1>5, <2>3, <2>4, OneHotIs
    <2>8. Plain(q, e)
        BY <1>8, <2>5, <2>7, MadeEq DEF Plain
    <2>9. ASSUME NEW j \in 1 .. n
          PROVE  /\ Plain(p[j], e) /\ Plain(r[j], e)
                 /\ \A t : Fits(t, e) =>
                      /\ Holds(p[j], t) <=> Below(k, t[xs[f[j]]], t[y])
                      /\ Holds(r[j], t) <=> (t[Len(d) + j] = 1 => Below(k, t[y], t[xs[f[j]]]))
        <3>1. PICK x, b : x = xs[f[j]] /\ b = Len(d) + j
            OBVIOUS
        <3>2. x \in Columns(e) /\ y \in Columns(e) /\ b \in Booleans(e)
            BY <1>3, <1>6, <2>1, <2>3, <3>1, ColumnsGrow DEF BitsFrom
        <3>3. p[j] = Le(<<u, v>>, <<y, x>>, 0) /\ r[j] = LeImp(<<v, u>>, <<y, x>>, 0, b)
            BY <2>4, <3>1
        <3>4. Ordering(p[j], r[j], k, x, y, b, e)
            BY <1>2, <1>71, <2>3, <3>2, <3>3, BelowIs
        <3> QED BY <3>1, <3>4 DEF Ordering
    <2>10. Listed(calls, {p[j] : j \in 1 .. n} \cup {q} \cup {r[j] : j \in 1 .. n})
        <3>1. p = [j \in 1 .. n |-> p[j]] /\ r = [j \in 1 .. n |-> r[j]]
            BY <2>4
        <3>2. PICK S, T : S = {p[j] : j \in 1 .. n} /\ T = {r[j] : j \in 1 .. n}
            OBVIOUS
        <3>3. Listed(p, S) /\ Listed(r, T) /\ Listed(<<q>>, {q})
            <4>1. Listed(p, S)
                BY <1>5, <3>1, <3>2, ListedMade
            <4>2. Listed(r, T)
                BY <1>5, <3>1, <3>2, ListedMade
            <4> QED BY <4>1, <4>2, ListedShort
        <3>4. Listed(p \o <<q>>, S \cup {q})
            BY <3>3, ListedJoin
        <3>5. Listed((p \o <<q>>) \o r, (S \cup {q}) \cup T)
            BY <3>3, <3>4, ListedJoin
        <3> QED BY <2>5, <3>2, <3>5
    <2>11. calls \in Seq(Range(calls)) /\ \A z \in Range(calls) : Plain(z, e)
        BY <2>8, <2>9, <2>10 DEF Listed
    <2>12. ASSUME NEW t, Fits(t, e)
           PROVE  Meets(t, Range(calls)) <=>
                    /\ \A j \in 1 .. n : Below(k, t[xs[f[j]]], t[y])
                    /\ \E m \in 1 .. n : Hot(d, n, t, m)
                    /\ \A j \in 1 .. n : t[Len(d) + j] = 1 => Below(k, t[y], t[xs[f[j]]])
        <3>1. Meets(t, Range(calls)) <=>
                (\A j \in 1 .. n : Holds(p[j], t)) /\ Holds(q, t) /\ \A j \in 1 .. n : Holds(r[j], t)
            BY <2>10 DEF Listed, Meets
        <3>2. Holds(q, t) <=> \E m \in 1 .. n : Hot(d, n, t, m)
            BY <1>8, <2>5, <2>7, <2>12, EqHolds DEF HotSum
        <3> QED BY <2>9, <2>12, <3>1, <3>2
    <2>13. \A t : Fits(t, e) => t[y] \in Int /\ \A j \in 1 .. n : t[xs[f[j]]] \in Int
        <3>1. y \in Columns(e) /\ \A j \in 1 .. n : xs[f[j]] \in Columns(e)
            BY <1>3, <1>6, <2>1, <2>3, ColumnsGrow
        <3> QED BY <2>3, <3>1, FitsColumns
    <2>14. ASSUME NEW t, Fits(t, e)
           PROVE  \E s : Fits(s, d) /\ Alike(t, s, 1 .. Len(d))
        BY <1>3, <2>1, <2>3, <2>14, Restricted
    <2>15. ASSUME NEW t, Fits(t, e), Meets(t, Range(calls)) PROVE Holds(Call, t)
        <3>1. PICK m \in 1 .. n : Hot(d, n, t, m)
            BY <2>12, <2>15
        <3>2. /\ \A j \in 1 .. n : Below(k, t[xs[f[j]]], t[y])
              /\ Below(k, t[y], t[xs[f[m]]])
            BY <2>12, <2>15, <3>1 DEF Hot
        <3>3. t[y] = t[xs[f[m]]]
            BY <2>13, <2>15, <3>2 DEF Below
        <3>4. (\E i \in C : t[y] = t[xs[i]]) /\ \A i \in C : Below(k, t[xs[i]], t[y])
            BY <1>5, <3>2, <3>3
        <3>5. PICK s : Fits(s, d) /\ Alike(t, s, 1 .. Len(d))
            BY <2>14, <2>15
        <3>6. s[y] = t[y] /\ \A i \in C : s[xs[i]] = t[xs[i]]
            BY <1>3, <1>4, <2>1, <3>5 DEF Alike, Columns
        <3>7. Holds(Call, s)
            BY <1>4, <2>1, <3>4, <3>5, <3>6
        <3> QED BY <1>1, <1>2, <1>3, <2>1, <3>5, <3>7, HoldsExtended, WorkingIs
    <2>16. ASSUME NEW s, Fits(s, d), Holds(Call, s)
           PROVE  \E t : Fits(t, e) /\ Alike(s, t, 1 .. Len(d)) /\ Meets(t, Range(calls))
        <3>1. (\E i \in C : s[y] = s[xs[i]]) /\ \A i \in C : Below(k, s[xs[i]], s[y])
            BY <1>4, <2>1, <2>16
        <3>2. PICK m \in 1 .. n : s[y] = s[xs[f[m]]]
            BY <1>5, <3>1
        <3>3. HotFree(d, e, n)
            BY <2>3, HotIsFree
        <3>4. PICK t : Fits(t, e) /\ Alike(s, t, 1 .. Len(d)) /\ Hot(d, n, t, m)
            BY <2>16, <3>3 DEF HotFree
        <3>5. t[y] = s[y] /\ \A j \in 1 .. n : t[xs[f[j]]] = s[xs[f[j]]]
            BY <1>3, <1>6, <2>1, <3>4 DEF Alike, Columns
        <3>6. \A j \in 1 .. n : Below(k, t[xs[f[j]]], t[y])
            BY <1>5, <3>1, <3>5
        <3>7. \A j \in 1 .. n : t[Len(d) + j] = 1 => Below(k, t[y], t[xs[f[j]]])
            <4>1. t[y] = t[xs[f[m]]] /\ t[y] \in Int
                BY <2>13, <3>2, <3>4, <3>5
            <4>2. \A j \in 1 .. n : t[Len(d) + j] = 1 => j = m
                BY <3>4 DEF Hot
            <4> QED BY <4>1, <4>2 DEF Below
        <3> QED BY <2>12, <3>4, <3>6, <3>7
    <2>17. Sound(calls, dom') /\ Complete(calls, dom')
        BY <2>1, <2>15, <2>16 DEF Sound, Complete
    <2> QED BY <1>3, <2>1, <2>3, <2>6, <2>11, <2>17, NewReplaced
<1> QED BY <1>9, <1>10, <1>11

-----------------------------------------------------------------------------
(***************************************************************************)
(* The first condition that holds.                                         *)
(***************************************************************************)
IsFirst(bs, s, i) == s[bs[i]] = 1 /\ \A j \in 1 .. Len(bs) : j < i => s[bs[j]] = 0
FirstTaken(c, s)  == \A i \in 1 .. Len(c.bs) : IsFirst(c.bs, s, i) => s[c.y] = s[c.xs[i]]

LEMMA IfHead ==
    ASSUME Formed, Doing("if"), NEW c, c = Call
    PROVE  /\ Heads /\ Working /\ Domains(dom) /\ c.c = "if" /\ Proper(Call, dom)
           /\ c.bs \in Seq(Booleans(dom)) /\ c.xs \in Seq(Columns(dom)) /\ c.y \in Columns(dom)
           /\ Len(c.bs) \in Nat /\ Len(c.xs) = Len(c.bs)
           /\ DOMAIN c.bs = 1 .. Len(c.bs) /\ DOMAIN c.xs = 1 .. Len(c.bs)
           /\ \A i \in 1 .. Len(c.bs) : c.bs[i] \in Booleans(dom) /\ c.xs[i] \in Columns(dom)
           /\ \A s : At1(s) => Fits(s, dom)
           /\ \A s : Fits(s, dom) => (Holds(Call, s) <=> FirstTaken(c, s))
<1>1. Working /\ Call.c = "if" /\ Proper(Call, dom) /\ Domains(dom)
    BY WorkingIs
<1>2. Heads
    BY <1>1 DEF Heads, Flat
<1>3. /\ c.bs \in Seq(Booleans(dom)) /\ c.xs \in Seq(Columns(dom)) /\ c.y \in Columns(dom)
      /\ Len(c.bs) = Len(c.xs)
    BY <1>1, LookupParts
<1>4. /\ Len(c.bs) \in Nat /\ Len(c.xs) = Len(c.bs)
      /\ DOMAIN c.bs = 1 .. Len(c.bs) /\ DOMAIN c.xs = 1 .. Len(c.bs)
      /\ \A i \in 1 .. Len(c.bs) : c.bs[i] \in Booleans(dom) /\ c.xs[i] \in Columns(dom)
    BY <1>3
<1>5. ASSUME NEW s, Fits(s, dom)
      PROVE  Holds(Call, s) <=> FirstTaken(c, s)
    <2>1. PICK T, n, m : T = Taken(Call, s) /\ n = Len(c.bs) /\ m = Min(T)
        OBVIOUS
    <2>2. T = {i \in 1 .. n : s[c.bs[i]] = 1} /\ n \in Nat
        BY <1>4, <2>1 DEF Taken
    <2>3. Finite(T)
        <3>1. Finite(1 .. n)
            BY <2>2, IntervalFinite
        <3> QED BY <2>2, <3>1, FiniteParts
    <2>4. Holds(Call, s) <=> (T # {} => s[c.y] = s[c.xs[m]])
        BY <1>1, <2>1, HoldsLookup
    <2>5. \A i \in 1 .. n : s[c.bs[i]] \in {0, 1}
        BY <1>1, <1>4, <1>5, <2>1, FitsColumns
    <2>6. ASSUME NEW i \in 1 .. n, IsFirst(c.bs, s, i)
          PROVE  T # {} /\ i = m
        <3>1. i \in T /\ \A j \in T : i <= j
            BY <2>1, <2>2, <2>6 DEF IsFirst
        <3> QED BY <2>1, <2>3, <3>1, MinIs
    <2>7. ASSUME T # {}
          PROVE  m \in 1 .. n /\ IsFirst(c.bs, s, m)
        <3>1. m \in T /\ \A j \in T : m <= j
            BY <2>1, <2>3, <2>7, EndsAre
        <3>2. \A j \in 1 .. n : j < m => s[c.bs[j]] = 0
            BY <2>2, <2>5, <3>1
        <3> QED BY <2>1, <2>2, <3>1, <3>2 DEF IsFirst
    <2> QED BY <2>1, <2>4, <2>6, <2>7 DEF FirstTaken
<1> QED BY <1>1, <1>2, <1>3, <1>4, <1>5 DEF At1

\* A choice of two: one equation of constants, or an implied one for each.
LEMMA ChoiceReplaced ==
    ASSUME Formed, mip_int_choice
    PROVE  Replaced
<1>1. PICK c, d, b, x, z, y : /\ c = Call /\ d = c.bs[2] /\ b = c.bs[1] /\ x = c.xs[1] /\ z = c.xs[2]
                              /\ y = c.y
    OBVIOUS
<1>2. Doing("if") /\ Len(c.bs) = 2 /\ is_fixed(d) /\ fix(d) = 1
    BY <1>1 DEF mip_int_choice, mip_is_binary_choice, Certain
<1>3. /\ Heads /\ Working /\ Domains(dom) /\ y \in Columns(dom)
      /\ \A i \in 1 .. Len(c.bs) : c.bs[i] \in Booleans(dom) /\ c.xs[i] \in Columns(dom)
      /\ \A s : At1(s) => Fits(s, dom)
      /\ \A s : Fits(s, dom) => (Holds(Call, s) <=> FirstTaken(c, s))
    BY <1>1, <1>2, IfHead
<1>4. /\ b \in Booleans(dom) /\ d \in Booleans(dom) /\ x \in Columns(dom) /\ z \in Columns(dom)
      /\ b \in Columns(dom)
    BY <1>1, <1>2, <1>3 DEF Booleans
<1>5. ASSUME NEW s, At1(s)
      PROVE  /\ Fits(s, dom) /\ s[b] \in {0, 1} /\ s[x] \in Int /\ s[z] \in Int /\ s[y] \in Int
             /\ Holds(Call, s) <=> s[y] = IF s[b] = 1 THEN s[x] ELSE s[z]
    <2>1. Fits(s, dom)
        BY <1>3, <1>5
    <2>2. s[b] \in {0, 1} /\ s[d] = 1 /\ s[x] \in Int /\ s[z] \in Int /\ s[y] \in Int
        <3>1. s[d] = fix(d)
            BY <1>2, <1>3, <1>4, <2>1, BitIs
        <3>2. s[b] \in {0, 1}
            BY <1>3, <1>4, <2>1, BitIs
        <3> QED BY <1>2, <1>3, <1>4, <2>1, <3>1, <3>2, FitsColumns
    <2>3. (1 \in 1 .. Len(c.bs)) /\ (2 \in 1 .. Len(c.bs)) /\ \A i \in 1 .. Len(c.bs) : i = 1 \/ i = 2
        BY <1>2
    <2>4. CASE s[b] = 1
        <3>1. \A i \in 1 .. Len(c.bs) : IsFirst(c.bs, s, i) <=> i = 1
            BY <1>1, <1>2, <2>3, <2>4 DEF IsFirst
        <3> QED BY <1>1, <1>3, <2>1, <2>2, <2>3, <2>4, <3>1 DEF FirstTaken
    <2>5. CASE s[b] = 0
        <3>1. \A i \in 1 .. Len(c.bs) : IsFirst(c.bs, s, i) <=> i = 2
            BY <1>1, <1>2, <2>2, <2>3, <2>5 DEF IsFirst
        <3> QED BY <1>1, <1>3, <2>1, <2>2, <2>3, <2>5, <3>1 DEF FirstTaken
    <2> QED BY <2>2, <2>4, <2>5
<1>6. Into(IF is_fixed(x) /\ is_fixed(z) THEN <<Eq(<<fix(x) - fix(z), -1>>, <<b, y>>, -fix(z))>>
           ELSE <<EqImp(<<1, -1>>, <<y, x>>, 0, b), EqImpNot(<<1, -1>>, <<y, z>>, 0, b)>>)
    BY <1>1 DEF mip_int_choice
<1>7. CASE is_fixed(x) /\ is_fixed(z)
    <2>1. PICK u, v, w, q : u = fix(x) /\ v = fix(z) /\ w = u - v /\ q = Eq(<<w, -1>>, <<b, y>>, -v)
        OBVIOUS
    <2>2. u \in Int /\ v \in Int /\ w \in Int
        <3>1. u \in Int
            BY <1>3, <1>4, <2>1, ColumnIs DEF fix
        <3>2. v \in Int
            BY <1>3, <1>4, <2>1, ColumnIs DEF fix
        <3> QED BY <2>1, <3>1, <3>2
    <2>3. Row(<<w, -1>>, <<b, y>>, -v, dom)
        BY <1>3, <1>4, <2>2, PairIs
    <2>4. Plain(q, dom)
        BY <2>1, <2>3, MadeEq DEF Plain
    <2>5. ASSUME NEW s, At1(s) PROVE Holds(Call, s) <=> Holds(q, s)
        <3>1. s[x] = u /\ s[z] = v
            <4>1. Fits(s, dom)
                BY <1>5, <2>5
            <4> QED BY <1>3, <1>4, <1>7, <2>1, <4>1, ValueIs
        <3>2. ASSUME NEW k \in Int PROVE SumOf(<<w, k>>, <<b, y>>, s) = w * s[b] + k * s[y]
            BY <1>3, <1>4, <1>5, <2>2, <2>5, PairIs
        <3>3. SumOf(<<w, -1>>, <<b, y>>, s) = w * s[b] + (-1) * s[y]
            BY <3>2
        <3>4. Holds(q, s) <=> SumOf(<<w, -1>>, <<b, y>>, s) = -v
            BY <2>1, EqHolds
        <3>5. CASE s[b] = 1
            <4>1. w * s[b] = u - v
                BY <2>1, <2>2, <3>5
            <4>2. Holds(Call, s) <=> s[y] = u
                BY <1>5, <2>5, <3>1, <3>5
            <4> QED BY <1>5, <2>2, <2>5, <3>3, <3>4, <4>1, <4>2
        <3>6. CASE s[b] = 0
            <4>1. w * s[b] = 0
                BY <2>2, <3>6
            <4>2. Holds(Call, s) <=> s[y] = v
                BY <1>5, <2>5, <3>1, <3>6
            <4> QED BY <1>5, <2>2, <2>5, <3>3, <3>4, <4>1, <4>2
        <3> QED BY <1>5, <2>5, <3>5, <3>6
    <2>6. Into(<<q>>)
        BY <1>6, <1>7, <2>1
    <2> QED BY <1>3, <2>4, <2>5, <2>6, IntoOne
<1>8. CASE ~(is_fixed(x) /\ is_fixed(z))
    <2>1. PICK p, q : p = EqImp(<<1, -1>>, <<y, x>>, 0, b) /\ q = EqImpNot(<<1, -1>>, <<y, z>>, 0, b)
        OBVIOUS
    <2>2. Row(<<1, -1>>, <<y, x>>, 0, dom) /\ Row(<<1, -1>>, <<y, z>>, 0, dom)
        BY <1>3, <1>4, UnitsAre
    <2>3. Plain(p, dom) /\ Plain(q, dom)
        BY <1>4, <2>1, <2>2, MadeImps DEF Plain
    <2>4. ASSUME NEW s, At1(s) PROVE Holds(Call, s) <=> Holds(p, s) /\ Holds(q, s)
        <3>1. Holds(p, s) <=> (s[b] = 1 => s[y] - s[x] = 0)
            <4>1. SumOf(<<1, -1>>, <<y, x>>, s) = s[y] - s[x]
                BY <1>3, <1>4, <1>5, <2>4, UnitsAre
            <4> QED BY <2>1, <4>1, EqImpHolds
        <3>2. Holds(q, s) <=> (s[b] = 0 => s[y] - s[z] = 0)
            <4>1. SumOf(<<1, -1>>, <<y, z>>, s) = s[y] - s[z]
                BY <1>3, <1>4, <1>5, <2>4, UnitsAre
            <4> QED BY <2>1, <4>1, EqImpNotHolds
        <3> QED BY <1>5, <2>4, <3>1, <3>2
    <2>5. Into(<<p, q>>)
        BY <1>6, <1>8, <2>1
    <2> QED BY <1>3, <2>3, <2>4, <2>5, IntoTwo
<1> QED BY <1>7, <1>8

LEMMA SomeFirst ==
    ASSUME NEW bs, NEW n, n = Len(bs), n \in Nat, NEW s, \A i \in 1 .. n : s[bs[i]] \in {0, 1}
    PROVE  (\A i \in 1 .. n : s[bs[i]] = 0) \/ \E i \in 1 .. n : IsFirst(bs, s, i)
<1>1. PICK T, m : T = {i \in 1 .. n : s[bs[i]] = 1} /\ m = Min(T)
    OBVIOUS
<1>2. Finite(T)
    <2>1. Finite(1 .. n)
        BY IntervalFinite
    <2> QED BY <1>1, <2>1, FiniteParts
<1>3. ASSUME T # {} PROVE m \in 1 .. n /\ IsFirst(bs, s, m)
    <2>1. m \in T /\ \A j \in T : m <= j
        BY <1>1, <1>2, <1>3, EndsAre
    <2>2. ASSUME NEW j \in 1 .. n, j < m PROVE s[bs[j]] = 0
        <3>1. j \notin T
            BY <1>1, <2>1, <2>2
        <3> QED BY <1>1, <3>1
    <2> QED BY <1>1, <2>1, <2>2 DEF IsFirst
<1> QED BY <1>1, <1>3

LEMMA SumIncreased ==
    ASSUME NEW co, NEW xs, NEW a, Summable(co, xs, a), NEW x, x \in Nat, a[x] \in Int
    PROVE  /\ SumOf(Append(co, 1), Append(xs, x), a) = SumOf(co, xs, a) + a[x]
           /\ SumOf(Append(co, -1), Append(xs, x), a) = SumOf(co, xs, a) - a[x]
<1>1. ASSUME NEW w, w \in Int
      PROVE  SumOf(Append(co, w), Append(xs, x), a) = SumOf(co, xs, a) + w * a[x]
    BY <1>1, SumAppended
<1>2. SumOf(co, xs, a) \in Int
    BY SumType
<1>3. SumOf(Append(co, 1), Append(xs, x), a) = SumOf(co, xs, a) + 1 * a[x]
    BY <1>1
<1>4. SumOf(Append(co, -1), Append(xs, x), a) = SumOf(co, xs, a) + (-1) * a[x]
    BY <1>1
<1> QED BY <1>2, <1>3, <1>4

\* A branch whose condition holds, or one before it.
FirstRow(q, bs, z, i, d) ==
    /\ Plain(q, d)
    /\ \A t : Fits(t, d) =>
         (Holds(q, t) <=> (t[bs[i]] = 1 => t[z] = 1 \/ \E j \in 1 .. i - 1 : t[bs[j]] = 1))

LEMMA FirstTrueIs ==
    ASSUME NEW d, Domains(d), NEW bs, NEW n, n = Len(bs), n \in Nat,
           \A j \in 1 .. n : bs[j] \in Booleans(d), NEW z, z \in Booleans(d),
           NEW i, i \in 1 .. n, NEW q,
           q = Le([j \in 1 .. i + 1 |-> IF j <= i THEN -1 ELSE 1],
                  [j \in 1 .. i + 1 |-> IF j < i THEN bs[j] ELSE IF j = i THEN z ELSE bs[i]], 0)
    PROVE  FirstRow(q, bs, z, i, d)
<1>1. PICK ones, zs, co, xs : /\ ones = [j \in 1 .. i |-> 1]
                              /\ zs = [j \in 1 .. i |-> IF j < i THEN bs[j] ELSE z]
                              /\ co = Append(Neg(ones), 1) /\ xs = Append(zs, bs[i])
    OBVIOUS
<1>2. /\ ones \in Seq(Int) /\ Len(ones) = i /\ Len(zs) = i
      /\ \A j \in 1 .. i : zs[j] \in Booleans(d) /\ zs[j] = IF j < i THEN bs[j] ELSE z
    <2>1. \A j \in 1 .. i : j \in 1 .. n
        OBVIOUS
    <2> QED BY <1>1, <2>1
<1>3. Neg(ones) = [j \in 1 .. i |-> -1] /\ Neg(ones) \in Seq(Int) /\ Len(Neg(ones)) = i
    <2>1. Neg(ones) = [j \in 1 .. i |-> -1]
        BY <1>1 DEF Neg
    <2> QED BY <2>1
<1>4. zs \in Seq(Columns(d)) /\ bs[i] \in Columns(d)
    <2>1. \A j \in 1 .. i : zs[j] \in Columns(d)
        BY <1>2 DEF Booleans
    <2>2. bs[i] \in Columns(d)
        BY DEF Booleans
    <2> QED BY <1>1, <2>1, <2>2
<1>5. co = [j \in 1 .. i + 1 |-> IF j <= i THEN -1 ELSE 1]
    <2>1. PICK u : u = [j \in 1 .. i |-> -1]
        OBVIOUS
    <2>2. co = Append(u, 1)
        BY <1>1, <1>3, <2>1
    <2>3. Append(u, 1) = [j \in 1 .. i + 1 |-> IF j <= i THEN -1 ELSE 1]
        BY <2>1
    <2> QED BY <2>2, <2>3
<1>6. xs = [j \in 1 .. i + 1 |-> IF j < i THEN bs[j] ELSE IF j = i THEN z ELSE bs[i]]
    BY <1>1
<1>7. q = Le(co, xs, 0)
    BY <1>5, <1>6
<1>8. Row(co, xs, 0, d)
    BY <1>1, <1>2, <1>3, <1>4 DEF Row
<1>9. Plain(q, d)
    BY <1>7, <1>8, MadeLe DEF Plain
<1>10. ASSUME NEW t, Fits(t, d)
       PROVE  Holds(q, t) <=> (t[bs[i]] = 1 => t[z] = 1 \/ \E j \in 1 .. i - 1 : t[bs[j]] = 1)
    <2>1. Row(ones, zs, 0, d)
        BY <1>2, <1>4 DEF Row
    <2>2. Summable(ones, zs, t) /\ SumOf(ones, zs, t) \in Int
        BY <1>10, <2>1, SummableIn
    <2>3. Bits(zs, t)
        BY <1>2, <1>10, FitsColumns DEF Bits
    <2>4. Ones(ones, zs)
        BY <1>1, <1>2 DEF Ones
    <2>5. /\ SumOf(ones, zs, t) >= 0
          /\ SumOf(ones, zs, t) >= 1 <=> \E j \in 1 .. i : t[zs[j]] = 1
        <3>1. SumOf(ones, zs, t) >= 0
            BY <2>2, <2>3, <2>4, SumOfBits
        <3>2. SumOf(ones, zs, t) >= 1 <=> \E j \in 1 .. Len(zs) : t[zs[j]] = 1
            BY <2>2, <2>3, <2>4, SumOfBits
        <3> QED BY <1>2, <3>1, <3>2
    <2>6. Summable(Neg(ones), zs, t) /\ SumOf(Neg(ones), zs, t) = -SumOf(ones, zs, t)
        BY <2>2, SumNegated
    <2>7. t[bs[i]] \in {0, 1} /\ bs[i] \in Nat
        BY <1>10, FitsColumns
    <2>8. SumOf(co, xs, t) = SumOf(Neg(ones), zs, t) + t[bs[i]]
        <3>1. PICK minus, x : minus = Neg(ones) /\ x = bs[i]
            OBVIOUS
        <3>2. Summable(minus, zs, t) /\ x \in Nat /\ t[x] \in Int
            BY <2>6, <2>7, <3>1
        <3>4. SumOf(Append(minus, 1), Append(zs, x), t) = SumOf(minus, zs, t) + t[x]
            BY <3>2, SumIncreased
        <3> QED BY <1>1, <3>1, <3>4
    <2>9. Holds(q, t) <=> SumOf(co, xs, t) <= 0
        BY <1>7, LeHolds
    <2>10. (\E j \in 1 .. i : t[zs[j]] = 1) <=> t[z] = 1 \/ \E j \in 1 .. i - 1 : t[bs[j]] = 1
        <3>1. zs[i] = z /\ \A j \in 1 .. i - 1 : zs[j] = bs[j]
            BY <1>2
        <3>2. \A j \in 1 .. i : j = i \/ j \in 1 .. i - 1
            OBVIOUS
        <3>3. i \in 1 .. i /\ \A j \in 1 .. i - 1 : j \in 1 .. i
            OBVIOUS
        <3> QED BY <3>1, <3>2, <3>3
    <2> QED BY <2>2, <2>5, <2>6, <2>7, <2>8, <2>9, <2>10
<1> QED BY <1>9, <1>10 DEF FirstRow

\* The value of the one that is chosen.
PickedRow(q, w, y, d, n, e) ==
    /\ Plain(q, e)
    /\ \A t, k : Fits(t, e) /\ k \in 1 .. n /\ Hot(d, n, t, k) => (Holds(q, t) <=> t[y] = w[k])

LEMMA PickedRowIs ==
    ASSUME NEW d, Len(d) \in Nat, NEW e, Domains(e), NEW n, n \in Nat, BitsFrom(d, e, n),
           NEW w, w = [i \in 1 .. n |-> w[i]], \A i \in 1 .. n : w[i] \in Int, NEW y, y \in Columns(e),
           NEW bs, bs = [i \in 1 .. n |-> Len(d) + i],
           NEW q, q = Eq(Append(w, -1), Append(bs, y), 0)
    PROVE  PickedRow(q, w, y, d, n, e)
<1>1. \A i \in 1 .. n : bs[i] \in Columns(e) /\ bs[i] = Len(d) + i
    BY DEF BitsFrom, Booleans
<1>2. w \in Seq(Int) /\ bs \in Seq(Columns(e)) /\ Len(w) = n /\ Len(bs) = n
    <2>1. w \in Seq(Int) /\ Len(w) = n
        OBVIOUS
    <2> QED BY <1>1, <2>1
<1>3. Row(Append(w, -1), Append(bs, y), 0, e)
    BY <1>2 DEF Row
<1>4. Plain(q, e)
    BY <1>3, MadeEq DEF Plain
<1>5. ASSUME NEW t, NEW k, Fits(t, e), k \in 1 .. n, Hot(d, n, t, k)
      PROVE  Holds(q, t) <=> t[y] = w[k]
    <2>1. Row(w, bs, 0, e)
        BY <1>2 DEF Row
    <2>2. Summable(w, bs, t)
        BY <1>5, <2>1, SummableIn
    <2>3. SumOf(w, bs, t) = w[k]
        <3>1. \A i \in 1 .. Len(bs) : t[bs[i]] = IF i = k THEN 1 ELSE 0
            BY <1>1, <1>2, <1>5 DEF Hot
        <3>2. k \in 1 .. Len(bs)
            BY <1>2, <1>5
        <3>3. ASSUME NEW v, NEW p, Summable(v, p, t), k \in 1 .. Len(p),
                     \A i \in 1 .. Len(p) : t[p[i]] = IF i = k THEN 1 ELSE 0
              PROVE  SumOf(v, p, t) = v[k]
            BY <3>3, SumOneHot
        <3> QED BY <2>2, <3>1, <3>2, <3>3
    <2>4. t[y] \in Int /\ y \in Nat
        BY <1>5, FitsColumns
    <2>5. SumOf(Append(w, -1), Append(bs, y), t) = SumOf(w, bs, t) - t[y]
        BY <2>2, <2>4, SumIncreased
    <2>6. Holds(q, t) <=> SumOf(Append(w, -1), Append(bs, y), t) = 0
        BY EqHolds
    <2>7. w[k] \in Int
        BY <1>5
    <2> QED BY <2>3, <2>4, <2>5, <2>6, <2>7
<1> QED BY <1>4, <1>5 DEF PickedRow

\* What the bits of a choice say: none and no condition holds, or the first that does.
Chosen(d, n, bs, t, k) ==
    \/ k = 0 /\ \A i \in 1 .. n : t[Len(d) + i] = 0 /\ t[bs[i]] = 0
    \/ k \in 1 .. n /\ Hot(d, n, t, k) /\ IsFirst(bs, t, k)

Reaches(d, n, bs, t) ==
    \A i \in 1 .. n : t[bs[i]] = 1 => t[Len(d) + i] = 1 \/ \E j \in 1 .. i - 1 : t[bs[j]] = 1

Bounded(d, n, bs, t, tot) ==
    IF tot THEN \E k \in 1 .. n : Hot(d, n, t, k)
    ELSE /\ \A i, j \in 1 .. n : t[Len(d) + i] = 1 /\ t[Len(d) + j] = 1 => i = j
         /\ \A i \in 1 .. n : t[Len(d) + i] = 1 => t[bs[i]] = 1

LEMMA ChosenIs ==
    ASSUME NEW d, Len(d) \in Nat, NEW n, n \in Nat, NEW bs, Len(bs) = n, NEW t, NEW tot, tot \in BOOLEAN,
           \A i \in 1 .. n : t[bs[i]] \in {0, 1} /\ t[Len(d) + i] \in {0, 1},
           tot => \E i \in 1 .. n : t[bs[i]] = 1
    PROVE  Reaches(d, n, bs, t) /\ Bounded(d, n, bs, t, tot) <=> \E k \in 0 .. n : Chosen(d, n, bs, t, k)
<1>1. ASSUME Reaches(d, n, bs, t), Bounded(d, n, bs, t, tot)
      PROVE  \E k \in 0 .. n : Chosen(d, n, bs, t, k)
    <2>1. (\A i \in 1 .. n : t[bs[i]] = 0) \/ \E i \in 1 .. n : IsFirst(bs, t, i)
        BY SomeFirst
    <2>2. CASE \A i \in 1 .. n : t[bs[i]] = 0
        <3>1. tot = FALSE
            BY <2>2
        <3>2. \A i \in 1 .. n : t[Len(d) + i] = 0
            BY <1>1, <2>2, <3>1 DEF Bounded
        <3>3. Chosen(d, n, bs, t, 0) /\ 0 \in 0 .. n
            BY <2>2, <3>2 DEF Chosen
        <3> QED BY <3>3
    <2>3. ASSUME NEW m \in 1 .. n, IsFirst(bs, t, m)
          PROVE  \E k \in 0 .. n : Chosen(d, n, bs, t, k)
        <3>1. t[bs[m]] = 1 /\ \A j \in 1 .. m - 1 : t[bs[j]] = 0
            BY <2>3 DEF IsFirst
        <3>2. t[Len(d) + m] = 1
            BY <1>1, <3>1 DEF Reaches
        <3>3. Hot(d, n, t, m)
            <4>1. CASE tot
                <5>1. PICK k \in 1 .. n : Hot(d, n, t, k)
                    BY <1>1, <4>1 DEF Bounded
                <5>2. k = m
                    BY <3>2, <5>1 DEF Hot
                <5> QED BY <5>1, <5>2
            <4>2. CASE ~tot
                <5>1. ASSUME NEW i \in 1 .. n PROVE t[Len(d) + i] = IF i = m THEN 1 ELSE 0
                    BY <1>1, <3>2, <4>2 DEF Bounded
                <5> QED BY <5>1 DEF Hot
            <4> QED BY <4>1, <4>2
        <3>4. Chosen(d, n, bs, t, m)
            BY <2>3, <3>3 DEF Chosen
        <3> QED BY <3>4
    <2> QED BY <2>1, <2>2, <2>3
<1>2. ASSUME NEW k \in 0 .. n, Chosen(d, n, bs, t, k)
      PROVE  Reaches(d, n, bs, t) /\ Bounded(d, n, bs, t, tot)
    <2>1. CASE k = 0 /\ \A i \in 1 .. n : t[Len(d) + i] = 0 /\ t[bs[i]] = 0
        <3>1. tot = FALSE
            BY <2>1
        <3> QED BY <2>1, <3>1 DEF Reaches, Bounded
    <2>2. CASE k \in 1 .. n /\ Hot(d, n, t, k) /\ IsFirst(bs, t, k)
        <3>1. t[bs[k]] = 1 /\ \A j \in 1 .. n : j < k => t[bs[j]] = 0
            BY <2>2 DEF IsFirst
        <3>2. \A i \in 1 .. n : t[Len(d) + i] = IF i = k THEN 1 ELSE 0
            BY <2>2 DEF Hot
        <3>3. ASSUME NEW i \in 1 .. n, t[bs[i]] = 1
              PROVE  t[Len(d) + i] = 1 \/ \E j \in 1 .. i - 1 : t[bs[j]] = 1
            <4>1. i = k \/ k \in 1 .. i - 1
                BY <2>2, <3>1, <3>3
            <4> QED BY <3>1, <3>2, <4>1
        <3>4. Bounded(d, n, bs, t, tot)
            <4>1. CASE tot
                BY <2>2, <4>1 DEF Bounded
            <4>2. CASE ~tot
                <5>1. \A i \in 1 .. n : t[Len(d) + i] = 1 => i = k
                    BY <3>2
                <5> QED BY <2>2, <3>1, <4>2, <5>1 DEF Bounded
            <4> QED BY <4>1, <4>2
        <3> QED BY <3>3, <3>4 DEF Reaches
    <2> QED BY <1>2, <2>1, <2>2 DEF Chosen
<1> QED BY <1>1, <1>2

\* A list of rows that says what P does.
BoundedList(B, d, n, bs, tot, e) ==
    \E S : /\ Listed(B, S) /\ \A c \in S : Plain(c, e)
           /\ \A t : Fits(t, e) => (Meets(t, S) <=> Bounded(d, n, bs, t, tot))

LEMMA BoundedRows ==
    ASSUME NEW d, Len(d) \in Nat, NEW e, Domains(e), NEW n, n \in Nat, BitsFrom(d, e, n),
           NEW bs, Len(bs) = n, \A i \in 1 .. n : bs[i] \in Booleans(e),
           NEW ones, ones = [i \in 1 .. n |-> 1], NEW all, all = [i \in 1 .. n |-> Len(d) + i],
           NEW tot, tot \in BOOLEAN, NEW B,
           B = IF tot THEN <<Eq(ones, all, 1)>>
               ELSE <<Le(ones, all, 1)>> \o [i \in 1 .. n |-> Le(<<-1, 1>>, <<bs[i], Len(d) + i>>, 0)]
    PROVE  BoundedList(B, d, n, bs, tot, e)
<1>1. /\ \A k_ \in Int : Row(ones, all, k_, e)
      /\ \A t : Fits(t, e) => HotSum(d, n, t, SumOf(ones, all, t))
    BY OneHotIs
<1>4. Row(ones, all, 1, e)
    BY <1>1
<1>2. CASE tot
    <2>1. PICK one, q : one = 1 /\ q = Eq(ones, all, one)
        OBVIOUS
    <2>2. Listed(B, {q})
        BY <1>2, <2>1, ListedShort
    <2>3. Plain(q, e)
        <3>1. Row(ones, all, one, e)
            BY <1>1, <2>1
        <3> QED BY <2>1, <3>1, MadeEq DEF Plain
    <2>4. ASSUME NEW t, Fits(t, e) PROVE Meets(t, {q}) <=> Bounded(d, n, bs, t, tot)
        <3>1. Holds(q, t) <=> SumOf(ones, all, t) = 1
            BY <2>1, EqHolds
        <3>2. HotSum(d, n, t, SumOf(ones, all, t))
            BY <1>1, <2>4
        <3> QED BY <1>2, <3>1, <3>2 DEF HotSum, Meets, Bounded
    <2>5. \A c \in {q} : Plain(c, e)
        BY <2>3
    <2> QED BY <2>2, <2>4, <2>5 DEF BoundedList
<1>3. CASE ~tot
    <2>1. PICK one, q, r : /\ one = 1 /\ q = Le(ones, all, one)
                           /\ r = [i \in 1 .. n |-> Le(<<-1, 1>>, <<bs[i], Len(d) + i>>, 0)]
        OBVIOUS
    <2>2. PICK R, S : R = {r[i] : i \in 1 .. n} /\ S = {q} \cup R
        OBVIOUS
    <2>3. Listed(B, S)
        <3>1. r = [i \in 1 .. n |-> r[i]]
            BY <2>1
        <3>2. Listed(r, R)
            BY <2>2, <3>1, ListedMade
        <3>3. Listed(<<q>>, {q})
            BY ListedShort
        <3>4. Listed(<<q>> \o r, {q} \cup R)
            BY <3>2, <3>3, ListedJoin
        <3> QED BY <1>3, <2>1, <2>2, <3>4
    <2>4. Plain(q, e)
        <3>1. Row(ones, all, one, e)
            BY <1>4, <2>1
        <3> QED BY <2>1, <3>1, MadeLe DEF Plain
    <2>5. ASSUME NEW i \in 1 .. n
          PROVE  /\ Plain(r[i], e)
                 /\ \A t : Fits(t, e) => (Holds(r[i], t) <=> (t[Len(d) + i] = 1 => t[bs[i]] = 1))
        <3>1. PICK b, x : b = Len(d) + i /\ x = bs[i]
            OBVIOUS
        <3>2. b \in Columns(e) /\ b \in Booleans(e) /\ x \in Columns(e) /\ x \in Booleans(e)
            BY <3>1 DEF BitsFrom, Booleans
        <3>3. r[i] = Le(<<-1, 1>>, <<x, b>>, 0)
            BY <2>1, <3>1
        <3>4. Row(<<-1, 1>>, <<x, b>>, 0, e)
            BY <3>2, UnitsAre
        <3>5. Plain(r[i], e)
            BY <3>3, <3>4, MadeLe DEF Plain
        <3>6. ASSUME NEW t, Fits(t, e) PROVE Holds(r[i], t) <=> (t[b] = 1 => t[x] = 1)
            <4>1. SumOf(<<-1, 1>>, <<x, b>>, t) = t[b] - t[x]
                BY <3>2, <3>6, UnitsAre
            <4>2. t[b] \in {0, 1} /\ t[x] \in {0, 1}
                BY <3>2, <3>6, FitsColumns
            <4>3. Holds(r[i], t) <=> t[b] - t[x] <= 0
                BY <3>3, <4>1, LeHolds
            <4> QED BY <4>2, <4>3
        <3> QED BY <3>1, <3>5, <3>6
    <2>6. ASSUME NEW t, Fits(t, e) PROVE Meets(t, S) <=> Bounded(d, n, bs, t, tot)
        <3>1. Holds(q, t) <=> SumOf(ones, all, t) <= 1
            BY <2>1, LeHolds
        <3>2. HotSum(d, n, t, SumOf(ones, all, t))
            BY <1>1, <2>6
        <3>3. Meets(t, S) <=> Holds(q, t) /\ \A i \in 1 .. n : Holds(r[i], t)
            BY <2>2 DEF Meets
        <3>4. \A i \in 1 .. n : Holds(r[i], t) <=> (t[Len(d) + i] = 1 => t[bs[i]] = 1)
            BY <2>5, <2>6
        <3> QED BY <1>3, <3>1, <3>2, <3>3, <3>4 DEF HotSum, Bounded
    <2>7. \A c \in S : Plain(c, e)
        BY <2>2, <2>4, <2>5
    <2> QED BY <2>3, <2>6, <2>7 DEF BoundedList
<1> QED BY <1>2, <1>3

\* A list of rows that gives the value of the one that is chosen.
Branches(P, d, n, bs, xs, y, tot, e) ==
    \E S : /\ Listed(P, S) /\ \A c \in S : Plain(c, e)
           /\ \A t, k : Fits(t, e) /\ Chosen(d, n, bs, t, k) /\ (tot => k # 0) =>
                 (Meets(t, S) <=> (k # 0 => t[y] = t[xs[k]]))

LEMMA FixedBranches ==
    ASSUME Working, NEW d, d = dom, Domains(d), NEW e, Domains(e), Longer(d, e),
           NEW n, n \in Nat, BitsFrom(d, e, n), NEW bs, Len(bs) = n,
           NEW xs, \A i \in 1 .. n : xs[i] \in Columns(d) /\ is_fixed(xs[i]), NEW y, y \in Columns(d),
           NEW all, all = [i \in 1 .. n |-> Len(d) + i], NEW w, w = [i \in 1 .. n |-> fix(xs[i])]
    PROVE  Branches(<<Eq(Append(w, -1), Append(all, y), 0)>>, d, n, bs, xs, y, TRUE, e)
<1>1. /\ Len(d) \in Nat /\ Bigger(d, e)
      /\ y \in Columns(e) /\ \A i \in 1 .. n : xs[i] \in Columns(e)
    BY LongerIs, DomainsAre, ColumnsGrow
<1>2. PICK q : q = Eq(Append(w, -1), Append(all, y), 0)
    OBVIOUS
<1>3. ASSUME NEW i \in 1 .. n PROVE w[i] \in Int /\ \A t : Fits(t, e) => t[xs[i]] = w[i]
    <2>1. PICK x : x = xs[i] /\ w[i] = lb(x)
        BY DEF fix
    <2>2. x \in Columns(dom) /\ is_fixed(x)
        BY <2>1
    <2>3. lb(x) \in Int /\ dom[x] = {lb(x)}
        BY <2>2, ColumnIs
    <2>4. e[x] = dom[x] /\ x \in 1 .. Len(e)
        BY <1>1, <2>1, <2>2 DEF Longer, Columns
    <2>5. ASSUME NEW t, Fits(t, e) PROVE t[x] = lb(x)
        BY <2>3, <2>4, <2>5 DEF Fits
    <2> QED BY <2>1, <2>3, <2>5
<1>4. PickedRow(q, w, y, d, n, e)
    <2>1. w = [i \in 1 .. n |-> w[i]]
        OBVIOUS
    <2>2. \A i \in 1 .. n : w[i] \in Int
        BY <1>3
    <2> QED BY <1>1, <1>2, <2>1, <2>2, PickedRowIs
<1>5. ASSUME NEW t, NEW k, Fits(t, e), Chosen(d, n, bs, t, k), k # 0
      PROVE  Meets(t, {q}) <=> t[y] = t[xs[k]]
    <2>1. k \in 1 .. n /\ Hot(d, n, t, k)
        BY <1>5 DEF Chosen
    <2>2. Holds(q, t) <=> t[y] = w[k]
        BY <1>4, <1>5, <2>1 DEF PickedRow
    <2> QED BY <1>3, <1>5, <2>1, <2>2 DEF Meets
<1>6. Listed(<<q>>, {q}) /\ \A c \in {q} : Plain(c, e)
    BY <1>4, ListedShort DEF PickedRow
<1>7. Branches(<<q>>, d, n, bs, xs, y, TRUE, e)
    BY <1>5, <1>6 DEF Branches
<1> QED BY <1>2, <1>7

LEMMA FreeBranches ==
    ASSUME NEW d, Domains(d), NEW e, Domains(e), Longer(d, e),
           NEW n, n \in Nat, BitsFrom(d, e, n), NEW bs, Len(bs) = n,
           NEW xs, \A i \in 1 .. n : xs[i] \in Columns(d), NEW y, y \in Columns(d), NEW tot,
           NEW P, P = [i \in 1 .. n |-> P[i]],
           \A i \in 1 .. n : P[i] = EqImp(<<1, -1>>, <<y, xs[i]>>, 0, Len(d) + i)
    PROVE  Branches(P, d, n, bs, xs, y, tot, e)
<1>1. /\ Len(d) \in Nat /\ Bigger(d, e)
      /\ y \in Columns(e) /\ \A i \in 1 .. n : xs[i] \in Columns(e)
    BY LongerIs, DomainsAre, ColumnsGrow
<1>2. PICK S : S = {P[i] : i \in 1 .. n}
    OBVIOUS
<1>3. Listed(P, S)
    BY <1>2, ListedMade
<1>4. ASSUME NEW i \in 1 .. n
      PROVE  /\ Plain(P[i], e)
             /\ \A t : Fits(t, e) => (Holds(P[i], t) <=> (t[Len(d) + i] = 1 => t[y] = t[xs[i]]))
    <2>1. PICK b, x : b = Len(d) + i /\ x = xs[i]
        OBVIOUS
    <2>2. b \in Booleans(e) /\ x \in Columns(e)
        BY <1>1, <2>1 DEF BitsFrom
    <2>3. P[i] = EqImp(<<1, -1>>, <<y, x>>, 0, b)
        BY <2>1
    <2>4. Row(<<1, -1>>, <<y, x>>, 0, e)
        BY <1>1, <2>2, UnitsAre
    <2>5. Plain(P[i], e)
        BY <2>2, <2>3, <2>4, MadeImps DEF Plain
    <2>6. ASSUME NEW t, Fits(t, e) PROVE Holds(P[i], t) <=> (t[b] = 1 => t[y] = t[x])
        <3>1. SumOf(<<1, -1>>, <<y, x>>, t) = t[y] - t[x] /\ t[y] \in Int /\ t[x] \in Int
            BY <1>1, <2>2, <2>6, UnitsAre
        <3>2. Holds(P[i], t) <=> (t[b] = 1 => t[y] - t[x] = 0)
            BY <2>3, <3>1, EqImpHolds
        <3> QED BY <3>1, <3>2
    <2> QED BY <2>1, <2>5, <2>6
<1>5. ASSUME NEW t, NEW k, Fits(t, e), Chosen(d, n, bs, t, k)
      PROVE  Meets(t, S) <=> (k # 0 => t[y] = t[xs[k]])
    <2>1. Meets(t, S) <=> \A i \in 1 .. n : t[Len(d) + i] = 1 => t[y] = t[xs[i]]
        BY <1>2, <1>4, <1>5 DEF Meets
    <2>2. CASE k = 0 /\ \A i \in 1 .. n : t[Len(d) + i] = 0
        <3>1. \A i \in 1 .. n : t[Len(d) + i] # 1
            BY <1>1, <2>2
        <3> QED BY <2>1, <2>2, <3>1
    <2>3. CASE k \in 1 .. n /\ Hot(d, n, t, k)
        <3>1. ASSUME NEW i \in 1 .. n PROVE t[Len(d) + i] = 1 <=> i = k
            <4>1. t[Len(d) + i] = IF i = k THEN 1 ELSE 0
                BY <2>3 DEF Hot
            <4> QED BY <4>1
        <3>2. k # 0
            BY <2>3
        <3> QED BY <2>1, <2>3, <3>1, <3>2
    <2> QED BY <1>5, <2>2, <2>3 DEF Chosen
<1>6. \A c \in S : Plain(c, e)
    BY <1>2, <1>4
<1>7. \A t, k : Fits(t, e) /\ Chosen(d, n, bs, t, k) /\ (tot => k # 0) =>
                   (Meets(t, S) <=> (k # 0 => t[y] = t[xs[k]]))
    BY <1>5
<1> QED BY <1>3, <1>6, <1>7, Zenon DEF Branches

\* mip_if_then_else: a bit for the first condition that holds.
LEMMA IfThenElseReplaced ==
    ASSUME Formed, IntIfThenElse
    PROVE  Replaced
<1>1. PICK c, bs, xs, y, n, d, e : /\ c = Call /\ bs = c.bs /\ xs = c.xs /\ y = c.y /\ n = Len(bs)
                                   /\ d = dom /\ e = dom'
    OBVIOUS
<1>2. Doing("if")
    BY DEF IntIfThenElse
<1>3. /\ Heads /\ Working /\ Domains(d) /\ y \in Columns(d) /\ n \in Nat /\ DOMAIN bs = 1 .. n
      /\ \A i \in 1 .. n : bs[i] \in Booleans(d) /\ xs[i] \in Columns(d)
      /\ \A s : At1(s) => Fits(s, d)
      /\ \A s : Fits(s, d) => (Holds(Call, s) <=> FirstTaken(c, s))
    BY <1>1, <1>2, IfHead
<1>4. PICK tot \in BOOLEAN : tot <=> mip_choice_is_total(bs)
    BY DEF mip_choice_is_total
<1>5. PICK A, ones, all, w, L, M :
          /\ A = [i \in 1 .. n |-> Le([j \in 1 .. i + 1 |-> IF j <= i THEN -1 ELSE 1],
                                      [j \in 1 .. i + 1 |-> IF j < i THEN bs[j]
                                                            ELSE IF j = i THEN New + i ELSE bs[i]], 0)]
          /\ ones = [i \in 1 .. n |-> 1] /\ all = [i \in 1 .. n |-> New + i]
          /\ w = [i \in 1 .. n |-> fix(xs[i])]
          /\ L = [i \in 1 .. n |-> Le(<<-1, 1>>, <<bs[i], New + i>>, 0)]
          /\ M = [i \in 1 .. n |-> EqImp(<<1, -1>>, <<y, xs[i]>>, 0, New + i)]
    OBVIOUS
<1>6. PICK B : B = IF tot THEN <<Eq(ones, all, 1)>> ELSE <<Le(ones, all, 1)>> \o L
    OBVIOUS
<1>7. PICK P : P = IF tot /\ \A i \in 1 .. n : is_fixed(xs[i])
                   THEN <<Eq(Append(w, -1), Append(all, y), 0)>> ELSE M
    OBVIOUS
<1>8. IntoNew(n, (A \o B) \o P)
    <2>1. IntoNew(Len(bs),
             [i \in DOMAIN bs |-> Le([j \in 1 .. i + 1 |-> IF j <= i THEN -1 ELSE 1],
                                      [j \in 1 .. i + 1 |-> IF j < i THEN bs[j]
                                                            ELSE IF j = i THEN New + i ELSE bs[i]], 0)]
             \o (IF mip_choice_is_total(bs) THEN <<Eq([i \in DOMAIN bs |-> 1], [i \in DOMAIN bs |-> New + i], 1)>>
                 ELSE <<Le([i \in DOMAIN bs |-> 1], [i \in DOMAIN bs |-> New + i], 1)>>
                      \o [i \in DOMAIN bs |-> Le(<<-1, 1>>, <<bs[i], New + i>>, 0)])
             \o (IF mip_choice_is_total(bs) /\ \A i \in DOMAIN bs : is_fixed(c.xs[i])
                 THEN <<Eq(Append([i \in DOMAIN bs |-> fix(c.xs[i])], -1),
                           Append([i \in DOMAIN bs |-> New + i], c.y), 0)>>
                 ELSE [i \in DOMAIN bs |-> EqImp(<<1, -1>>, <<c.y, c.xs[i]>>, 0, New + i)]))
        BY <1>1 DEF IntIfThenElse, FirstTrue
    <2> QED BY <1>1, <1>3, <1>4, <1>5, <1>6, <1>7, <2>1
<1>9. New = Len(d) /\ Len(d) \in Nat /\ e = d \o AllBits(n) /\ todo' = ((A \o B) \o P) \o Tail(todo)
      /\ UNCHANGED <<model, out, shared>>
    <2>1. New = Len(d) /\ Len(d) \in Nat
        BY <1>1, <1>3, DomainsAre DEF New
    <2> QED BY <1>1, <1>8, <2>1 DEF IntoNew, AllBits
<1>10. /\ Domains(e) /\ Longer(d, e) /\ Bigger(d, e)
       /\ Extension(d, e, n) /\ BitsFrom(d, e, n)
    BY <1>3, <1>9, NewBits
<1>11. y \in Columns(e) /\ \A i \in 1 .. n : bs[i] \in Booleans(e) /\ xs[i] \in Columns(e) /\ New + i \in Booleans(e)
    <2>1. \A i \in 1 .. n : New + i \in Booleans(e)
        BY <1>9, <1>10 DEF BitsFrom
    <2> QED BY <1>3, <1>10, <2>1, ColumnsGrow
<1>12. \A t : Fits(t, e) /\ tot => \E i \in 1 .. n : t[bs[i]] = 1
    <2>1. ASSUME NEW t, Fits(t, e), tot PROVE \E i \in 1 .. n : t[bs[i]] = 1
        <3>1. PICK i \in 1 .. n : is_fixed(bs[i]) /\ fix(bs[i]) = 1
            BY <1>3, <1>4, <2>1 DEF mip_choice_is_total, Certain
        <3>2. PICK b : b = bs[i]
            OBVIOUS
        <3>3. b \in Columns(dom) /\ is_fixed(b) /\ lb(b) = 1
            BY <1>1, <1>3, <3>1, <3>2 DEF fix, Booleans
        <3>4. dom[b] = {lb(b)}
            BY <1>3, <3>3, ColumnIs
        <3>5. e[b] = dom[b] /\ b \in 1 .. Len(e)
            BY <1>1, <1>10, <3>3 DEF Longer, Columns
        <3>6. t[b] = 1
            BY <2>1, <3>3, <3>4, <3>5 DEF Fits
        <3> QED BY <3>2, <3>6
    <2> QED BY <2>1
<1>13. PICK SA : SA = {A[i] : i \in 1 .. n}
    OBVIOUS
<1>14. /\ Listed(A, SA)
       /\ \A i \in 1 .. n : FirstRow(A[i], bs, New + i, i, e)
    <2>1. A = [i \in 1 .. n |-> A[i]]
        BY <1>5
    <2>2. Listed(A, SA)
        BY <1>3, <1>13, <2>1, ListedMade
    <2>3. ASSUME NEW i \in 1 .. n PROVE FirstRow(A[i], bs, New + i, i, e)
        <3>1. PICK z, q : z = New + i /\ q = A[i]
            OBVIOUS
        <3>2. q = Le([j \in 1 .. i + 1 |-> IF j <= i THEN -1 ELSE 1],
                     [j \in 1 .. i + 1 |-> IF j < i THEN bs[j] ELSE IF j = i THEN z ELSE bs[i]], 0)
            BY <1>5, <3>1
        <3>3. z \in Booleans(e) /\ \A j \in 1 .. n : bs[j] \in Booleans(e)
            BY <1>11, <3>1
        <3>4. FirstRow(q, bs, z, i, e)
            BY <1>1, <1>3, <1>10, <3>2, <3>3, FirstTrueIs
        <3> QED BY <3>1, <3>4
    <2> QED BY <2>2, <2>3
<1>15. PICK SB : /\ Listed(B, SB) /\ \A k \in SB : Plain(k, e)
                 /\ \A t : Fits(t, e) => (Meets(t, SB) <=> Bounded(d, n, bs, t, tot))
    <2>1. B = IF tot THEN <<Eq(ones, all, 1)>>
              ELSE <<Le(ones, all, 1)>> \o [i \in 1 .. n |-> Le(<<-1, 1>>, <<bs[i], Len(d) + i>>, 0)]
        BY <1>5, <1>6, <1>9
    <2>2. ones = [i \in 1 .. n |-> 1] /\ all = [i \in 1 .. n |-> Len(d) + i] /\ Len(bs) = n
        BY <1>1, <1>5, <1>9
    <2>3. \A i \in 1 .. n : bs[i] \in Booleans(e)
        BY <1>11
    <2>4. BoundedList(B, d, n, bs, tot, e)
        BY <1>3, <1>9, <1>10, <2>1, <2>2, <2>3, BoundedRows
    <2> QED BY <2>4 DEF BoundedList
<1>16. Branches(P, d, n, bs, xs, y, tot, e)
    <2>1. CASE tot /\ \A i \in 1 .. n : is_fixed(xs[i])
        <3>1. all = [i \in 1 .. n |-> Len(d) + i] /\ Len(bs) = n /\ w = [i \in 1 .. n |-> fix(xs[i])]
            BY <1>1, <1>5, <1>9
        <3>2. Branches(<<Eq(Append(w, -1), Append(all, y), 0)>>, d, n, bs, xs, y, TRUE, e)
            BY <1>1, <1>3, <1>10, <2>1, <3>1, FixedBranches
        <3> QED BY <1>7, <2>1, <3>2
    <2>2. CASE ~(tot /\ \A i \in 1 .. n : is_fixed(xs[i]))
        <3>1. P = M
            BY <1>7, <2>2
        <3>2. P = [i \in 1 .. n |-> P[i]] /\ Len(bs) = n
            BY <1>1, <1>5, <3>1
        <3>3. \A i \in 1 .. n : P[i] = EqImp(<<1, -1>>, <<y, xs[i]>>, 0, Len(d) + i)
            BY <1>5, <1>9, <3>1
        <3> QED BY <1>3, <1>10, <3>2, <3>3, FreeBranches
    <2> QED BY <2>1, <2>2
<1>17. PICK SP : /\ Listed(P, SP) /\ \A k \in SP : Plain(k, e)
                 /\ \A t, k : Fits(t, e) /\ Chosen(d, n, bs, t, k) /\ (tot => k # 0) =>
                      (Meets(t, SP) <=> (k # 0 => t[y] = t[xs[k]]))
    BY <1>16 DEF Branches
<1>18. PICK calls : calls = (A \o B) \o P
    OBVIOUS
<1>19. Listed(calls, (SA \cup SB) \cup SP)
    <2>1. Listed(A \o B, SA \cup SB)
        BY <1>14, <1>15, ListedJoin
    <2> QED BY <1>17, <1>18, <2>1, ListedJoin
<1>20. calls \in Seq(Range(calls)) /\ \A k \in Range(calls) : Plain(k, e)
    <2>1. \A k \in SA : Plain(k, e)
        BY <1>13, <1>14 DEF FirstRow
    <2> QED BY <1>15, <1>17, <1>19, <2>1 DEF Listed
<1>21. ASSUME NEW t, Fits(t, e)
       PROVE  Meets(t, Range(calls)) <=>
                \E k \in 0 .. n : Chosen(d, n, bs, t, k) /\ (k # 0 => t[y] = t[xs[k]])
    <2>1. Meets(t, Range(calls)) <=> Meets(t, SA) /\ Meets(t, SB) /\ Meets(t, SP)
        BY <1>19 DEF Listed, Meets
    <2>2. Meets(t, SA) <=> Reaches(d, n, bs, t)
        <3>1. \A i \in 1 .. n : Holds(A[i], t) <=>
                  (t[bs[i]] = 1 => t[Len(d) + i] = 1 \/ \E j \in 1 .. i - 1 : t[bs[j]] = 1)
            BY <1>9, <1>14, <1>21 DEF FirstRow
        <3> QED BY <1>13, <3>1 DEF Meets, Reaches
    <2>3. Meets(t, SB) <=> Bounded(d, n, bs, t, tot)
        BY <1>15, <1>21
    <2>4. \A i \in 1 .. n : t[bs[i]] \in {0, 1} /\ t[Len(d) + i] \in {0, 1}
        BY <1>9, <1>10, <1>11, <1>21, FitsColumns
    <2>5. Reaches(d, n, bs, t) /\ Bounded(d, n, bs, t, tot) <=> \E k \in 0 .. n : Chosen(d, n, bs, t, k)
        <3>1. (tot => \E i \in 1 .. n : t[bs[i]] = 1) /\ Len(bs) = n
            BY <1>1, <1>12, <1>21
        <3> QED BY <1>3, <1>9, <2>4, <3>1, ChosenIs
    <2>6. ASSUME NEW k \in 0 .. n, Chosen(d, n, bs, t, k)
          PROVE  Meets(t, SP) <=> (k # 0 => t[y] = t[xs[k]])
        <3>1. ASSUME tot PROVE k # 0
            <4>1. PICK i \in 1 .. n : t[bs[i]] = 1
                BY <1>12, <1>21, <3>1
            <4> QED BY <2>6, <4>1 DEF Chosen
        <3> QED BY <1>17, <1>21, <2>6, <3>1
    <2> QED BY <2>1, <2>2, <2>3, <2>5, <2>6
<1>22. ASSUME NEW t, Fits(t, e), Meets(t, Range(calls)) PROVE Holds(Call, t)
    <2>1. PICK k \in 0 .. n : Chosen(d, n, bs, t, k) /\ (k # 0 => t[y] = t[xs[k]])
        BY <1>21, <1>22
    <2>2. PICK s : Fits(s, d) /\ Alike(t, s, 1 .. Len(d))
        BY <1>3, <1>10, <1>22, Restricted
    <2>3. s[y] = t[y] /\ \A i \in 1 .. n : s[xs[i]] = t[xs[i]] /\ s[bs[i]] = t[bs[i]]
        BY <1>3, <2>2 DEF Alike, Columns, Booleans
    <2>4. ASSUME NEW i \in 1 .. n, IsFirst(bs, s, i) PROVE s[y] = s[xs[i]]
        <3>1. t[bs[i]] = 1 /\ \A j \in 1 .. n : j < i => t[bs[j]] = 0
            BY <1>1, <2>3, <2>4 DEF IsFirst
        <3>2. k \in 1 .. n /\ IsFirst(bs, t, k)
            BY <2>1, <3>1 DEF Chosen
        <3>3. t[bs[k]] = 1 /\ \A j \in 1 .. n : j < k => t[bs[j]] = 0
            BY <1>1, <3>2 DEF IsFirst
        <3>4. k = i
            BY <3>1, <3>2, <3>3
        <3> QED BY <2>1, <2>3, <3>2, <3>4
    <2>5. Holds(Call, s)
        BY <1>1, <1>3, <2>2, <2>4 DEF FirstTaken
    <2>6. Proper(Call, d)
        BY <1>1, <1>2, IfHead
    <2> QED BY <1>3, <2>2, <2>5, <2>6, HoldsExtended
<1>23. ASSUME NEW s, Fits(s, d), Holds(Call, s)
       PROVE  \E t : Fits(t, e) /\ Alike(s, t, 1 .. Len(d)) /\ Meets(t, Range(calls))
    <2>1. (\A i \in 1 .. n : s[bs[i]] = 0) \/ \E i \in 1 .. n : IsFirst(bs, s, i)
        <3>1. \A i \in 1 .. n : s[bs[i]] \in {0, 1}
            BY <1>3, <1>23, FitsColumns
        <3> QED BY <1>1, <1>3, <3>1, SomeFirst
    <2>2. PICK k \in 0 .. n : /\ k = 0 => \A i \in 1 .. n : s[bs[i]] = 0
                              /\ k # 0 => IsFirst(bs, s, k)
        <3>1. CASE \A i \in 1 .. n : s[bs[i]] = 0
            <4>1. 0 \in 0 .. n
                BY <1>3
            <4> QED BY <3>1, <4>1
        <3>2. CASE \E i \in 1 .. n : IsFirst(bs, s, i)
            <4>1. PICK i \in 1 .. n : IsFirst(bs, s, i)
                BY <3>2
            <4>2. i \in 0 .. n /\ i # 0
                OBVIOUS
            <4> QED BY <4>1, <4>2
        <3> QED BY <2>1, <3>1, <3>2
    <2>3. PICK f : f = [i \in 1 .. n |-> IF i = k THEN 1 ELSE 0]
        OBVIOUS
    <2>4. Suits(f, d, e, n)
        BY <1>10, <2>3 DEF Suits, BitsFrom
    <2>5. PICK t : Fits(t, e) /\ Alike(s, t, 1 .. Len(d)) /\ \A i \in 1 .. n : t[Len(d) + i] = f[i]
        BY <1>10, <1>23, <2>4, Extended
    <2>6. t[y] = s[y] /\ \A i \in 1 .. n : t[xs[i]] = s[xs[i]] /\ t[bs[i]] = s[bs[i]]
        BY <1>3, <2>5 DEF Alike, Columns, Booleans
    <2>7. CASE k = 0
        <3>1. \A i \in 1 .. n : t[Len(d) + i] = 0 /\ t[bs[i]] = 0
            BY <2>2, <2>3, <2>5, <2>6, <2>7
        <3>2. Chosen(d, n, bs, t, k)
            BY <2>7, <3>1 DEF Chosen
        <3> QED BY <1>21, <2>5, <2>7, <3>2
    <2>8. CASE k # 0
        <3>1. k \in 1 .. n /\ IsFirst(bs, s, k)
            BY <2>2, <2>8
        <3>2. IsFirst(bs, t, k)
            <4>1. s[bs[k]] = 1 /\ \A j \in 1 .. n : j < k => s[bs[j]] = 0
                BY <1>1, <3>1 DEF IsFirst
            <4> QED BY <1>1, <2>6, <3>1, <4>1 DEF IsFirst
        <3>3. Hot(d, n, t, k)
            BY <2>3, <2>5 DEF Hot
        <3>4. t[y] = t[xs[k]]
            <4>1. s[y] = s[xs[k]]
                BY <1>1, <1>3, <1>23, <3>1 DEF FirstTaken
            <4> QED BY <2>6, <3>1, <4>1
        <3>5. Chosen(d, n, bs, t, k)
            BY <3>1, <3>2, <3>3 DEF Chosen
        <3> QED BY <1>21, <2>5, <3>4, <3>5
    <2> QED BY <2>7, <2>8
<1>24. Sound(calls, dom') /\ Complete(calls, dom')
    BY <1>1, <1>22, <1>23 DEF Sound, Complete
<1>25. todo' = calls \o Tail(todo) /\ UNCHANGED <<model, out, shared>> /\ Longer(dom, dom')
    BY <1>1, <1>9, <1>10, <1>18
<1> QED BY <1>1, <1>3, <1>10, <1>20, <1>24, <1>25, NewReplaced

-----------------------------------------------------------------------------
(***************************************************************************)
(* Parity.                                                                 *)
(***************************************************************************)
LEMMA AscRises ==
    ASSUME NEW S, Finite(S), NEW m, m \in Nat, S \subseteq 1 .. m
    PROVE  Places(Asc(S), Cardinality(S), m)
<1>1. PICK f, n : f = Asc(S) /\ n = Cardinality(S)
    OBVIOUS
<1>2. /\ n \in Nat
      /\ \A i \in 1 .. n : f[i] \in S /\ f[i] \in Int /\ Rank(S, f[i]) = i
    BY <1>1, AscIs
<1>3. ASSUME NEW i \in 1 .. n, NEW j \in 1 .. n, i < j PROVE f[i] < f[j]
    <2>1. f[i] # f[j]
        BY <1>2, <1>3
    <2>2. ASSUME f[j] < f[i] PROVE FALSE
        <3>1. Rank(S, f[j]) < Rank(S, f[i])
            BY <1>2, <2>2, RankOrder
        <3> QED BY <1>2, <1>3, <3>1
    <2> QED BY <1>2, <2>1, <2>2
<1>4. \A i \in 1 .. n : f[i] \in 1 .. m
    BY <1>2
<1> QED BY <1>1, <1>3, <1>4 DEF Places

\* Zeros and ones add up to the number of ones.
LEMMA TotalCount ==
    ASSUME NEW f, Numbers(f), \A i \in 1 .. Len(f) : f[i] \in {0, 1}
    PROVE  Total(f) = Cardinality({i \in 1 .. Len(f) : f[i] = 1})
<1>1. PICK p : PartialSums(p, f) /\ Total(f) = p[Len(f)]
    BY TotalSums
<1>2. PICK m : m = Len(f)
    OBVIOUS
<1>3. /\ m \in Nat /\ p[0] = 0
      /\ \A i \in 1 .. m : f[i] \in {0, 1} /\ p[i] = p[i - 1] + f[i]
    BY <1>1, <1>2 DEF Numbers, PartialSums
<1> DEFINE O(k) == {i \in 1 .. k : f[i] = 1}
           S == {k \in 0 .. m : p[k] = Cardinality(O(k))}
<1>4. 0 \in S
    <2>1. O(0) = {}
        OBVIOUS
    <2>2. Cardinality({}) = 0
        BY FS_EmptySet
    <2> QED BY <1>3, <2>1, <2>2
<1>5. ASSUME NEW k \in 0 .. m - 1, k \in S PROVE k + 1 \in S
    <2>1. k + 1 \in 1 .. m /\ k + 1 \in 0 .. m /\ (k + 1) - 1 = k
        BY <1>3
    <2>2. p[k + 1] = p[k] + f[k + 1] /\ p[k] = Cardinality(O(k)) /\ f[k + 1] \in {0, 1}
        BY <1>3, <1>5, <2>1
    <2>3. IsFiniteSet(O(k)) /\ Cardinality(O(k)) \in Nat
        <3>1. Finite(1 .. k)
            BY <1>3, IntervalFinite
        <3> QED BY <3>1, FiniteParts DEF Finite
    <2>4. CASE f[k + 1] = 0
        <3>1. O(k + 1) = O(k)
            BY <1>3, <2>4
        <3>2. p[k + 1] = Cardinality(O(k + 1))
            <4> HIDE DEF O
            <4> QED BY <2>2, <2>3, <2>4, <3>1
        <3> QED BY <2>1, <3>2
    <2>5. CASE f[k + 1] = 1
        <3>1. O(k + 1) = O(k) \cup {k + 1} /\ k + 1 \notin O(k)
            BY <1>3, <2>5
        <3>2. Cardinality(O(k) \cup {k + 1}) = Cardinality(O(k)) + 1
            <4> HIDE DEF O
            <4> QED BY <2>3, <3>1, FS_AddElement
        <3>3. Cardinality(O(k + 1)) = p[k + 1]
            <4> HIDE DEF O
            <4> QED BY <2>2, <2>3, <2>5, <3>1, <3>2
        <3> QED BY <2>1, <3>3
    <2> QED BY <2>2, <2>4, <2>5
<1>6. \A k \in 0 .. m : k \in S
    <2> HIDE DEF S
    <2> QED BY <1>3, <1>4, <1>5, RangeInduction, Zenon
<1>7. m \in S
    BY <1>3, <1>6
<1> QED BY <1>1, <1>2, <1>7

LEMMA NumbersMade ==
    ASSUME NEW n, n \in Nat, NEW g, g = [k \in 1 .. n |-> g[k]], \A k \in 1 .. n : g[k] \in Int
    PROVE  Numbers(g) /\ Len(g) = n
<1>1. g \in [1 .. n -> Int]
    BY Zenon
<1>2. Len(g) = n /\ DOMAIN g = 1 .. n
    OBVIOUS
<1> QED BY <1>1, <1>2 DEF Numbers

\* How many of the columns that are free a solution sets.
Odd(n, free, want, s) == Total([k \in 1 .. n |-> s[free[k]]]) % 2 = want

\* Which those are, and the parity they must have.
ParityParts(c, W, at, n, free, want) ==
    /\ W = {i \in DOMAIN c.xs : ~is_fixed(c.xs[i])} /\ at = Asc(W) /\ n = Cardinality(W)
    /\ free = [k \in 1 .. n |-> c.xs[at[k]]]
    /\ want = 1 - (Cardinality({i \in DOMAIN c.xs : Certain(c.xs[i])}) % 2)

LEMMA ParityHead ==
    ASSUME Formed, Doing("xor"), NEW c, c = Call,
           NEW W, NEW at, NEW n, NEW free, NEW want, ParityParts(c, W, at, n, free, want)
    PROVE  /\ Heads /\ Working /\ Domains(dom) /\ Proper(Call, dom)
           /\ n \in Nat /\ DOMAIN at = 1 .. n /\ Len(at) = n /\ want \in {0, 1}
           /\ \A k \in 1 .. n : free[k] \in Booleans(dom)
           /\ \A s : At1(s) => Fits(s, dom)
           /\ \A s : Fits(s, dom) => (Holds(Call, s) <=> Odd(n, free, want, s))
<1>1. Working /\ Call.c = "xor" /\ Proper(Call, dom) /\ Domains(dom)
    BY WorkingIs
<1>2. Heads
    BY <1>1 DEF Heads, Flat
<1>3. PICK xs, m : xs = c.xs /\ m = Len(xs)
    OBVIOUS
<1>4. xs \in Seq(Booleans(dom)) /\ m \in Nat /\ DOMAIN xs = 1 .. m /\ \A i \in 1 .. m : xs[i] \in Booleans(dom)
    <2>1. xs \in Seq(Booleans(dom))
        BY <1>1, <1>3, OperationParts
    <2> QED BY <1>3, <2>1
<1> /\ W = {i \in DOMAIN c.xs : ~is_fixed(c.xs[i])} /\ at = Asc(W) /\ n = Cardinality(W)
    /\ free = [k \in 1 .. n |-> c.xs[at[k]]]
    /\ want = 1 - (Cardinality({i \in DOMAIN c.xs : Certain(c.xs[i])}) % 2)
    BY DEF ParityParts
<1>5. W = {i \in 1 .. m : ~is_fixed(xs[i])}
    BY <1>3, <1>4
<1>6. PICK H, h : H = {i \in 1 .. m : Certain(xs[i])} /\ h = Cardinality(H)
    OBVIOUS
<1>7. want = 1 - (h % 2)
    BY <1>3, <1>4, <1>6
<1>8. Finite(1 .. m)
    BY <1>4, IntervalFinite
<1>9. Finite(W) /\ W \subseteq 1 .. m
    BY <1>5, <1>8, FiniteParts
<1>10. h \in Nat
    BY <1>6, <1>8, FiniteParts
<1>11. want \in {0, 1}
    BY <1>7, <1>10
<1>12. n \in Nat /\ DOMAIN at = 1 .. n /\ Len(at) = n /\ \A k \in 1 .. n : at[k] \in W
    BY <1>9, AscIs
<1>13. \A k \in 1 .. n : free[k] = xs[at[k]] /\ free[k] \in Booleans(dom)
    BY <1>3, <1>4, <1>9, <1>12
<1>14. ASSUME NEW s, Fits(s, dom)
       PROVE  Holds(Call, s) <=> Odd(n, free, want, s)
    <2>1. PICK f, l, r, g : /\ f = [i \in 1 .. m |-> s[xs[i]]]
                            /\ l = [i \in 1 .. m |-> IF i \in W THEN s[xs[i]] ELSE 0]
                            /\ r = [i \in 1 .. m |-> IF i \in H THEN 1 ELSE 0]
                            /\ g = [k \in 1 .. n |-> s[free[k]]]
        OBVIOUS
    <2>2. \A i \in 1 .. m : s[xs[i]] \in {0, 1} /\ (is_fixed(xs[i]) => s[xs[i]] = fix(xs[i]))
        BY <1>1, <1>4, <1>14, BitIs
    <2>3. Numbers(f) /\ Numbers(l) /\ Numbers(r) /\ Len(f) = m /\ Len(l) = m /\ Len(r) = m
        BY <1>4, <2>1, <2>2 DEF Numbers
    <2>4. Numbers(g) /\ Len(g) = n
        <3>1. ASSUME NEW k \in 1 .. n PROVE s[free[k]] \in Int
            <4>1. free[k] = xs[at[k]] /\ at[k] \in 1 .. m
                BY <1>9, <1>12, <1>13
            <4>2. s[xs[at[k]]] \in {0, 1}
                BY <2>2, <4>1
            <4> QED BY <4>1, <4>2
        <3>2. g = [k \in 1 .. n |-> g[k]] /\ \A k \in 1 .. n : g[k] \in Int
            BY <2>1, <3>1
        <3> QED BY <1>12, <3>2, NumbersMade
    <2>5. Total(f) = Total(l) + Total(r)
        <3>1. \A i \in 1 .. m : f[i] = l[i] + r[i]
            <4>1. ASSUME NEW i \in 1 .. m PROVE f[i] = l[i] + r[i]
                <5>1. CASE i \in W
                    <6>1. i \notin H
                        BY <1>5, <1>6, <5>1 DEF Certain
                    <6> QED BY <2>1, <2>2, <5>1, <6>1
                <5>2. CASE i \notin W
                    <6>1. is_fixed(xs[i]) /\ s[xs[i]] = fix(xs[i])
                        BY <1>5, <2>2, <5>2
                    <6>2. i \in H <=> s[xs[i]] = 1
                        BY <1>6, <6>1 DEF Certain
                    <6> QED BY <2>1, <2>2, <5>2, <6>2
                <5> QED BY <5>1, <5>2
            <4> QED BY <4>1
        <3> QED BY <2>3, <3>1, TotalAdded
    <2>6. Total(r) = h
        <3>1. \A i \in 1 .. m : r[i] \in {0, 1} /\ (r[i] = 1 <=> i \in H)
            BY <2>1
        <3>2. {i \in 1 .. Len(r) : r[i] = 1} = H
            BY <1>6, <2>3, <3>1
        <3>3. Total(r) = Cardinality({i \in 1 .. Len(r) : r[i] = 1})
            BY <2>3, <3>1, TotalCount
        <3> QED BY <1>6, <3>2, <3>3
    <2>7. Total(l) = Total(g)
        <3>1. Places(at, Len(g), Len(l))
            BY <1>4, <1>9, <2>3, <2>4, AscRises
        <3>2. \A k \in 1 .. Len(g) : g[k] = l[at[k]]
            BY <1>9, <1>12, <1>13, <2>1, <2>4
        <3>3. ASSUME NEW j \in 1 .. Len(l) PROVE l[j] = 0 \/ \E k \in 1 .. Len(g) : at[k] = j
            <4>1. CASE j \in W
                <5>1. Rank(W, j) \in 1 .. n /\ at[Rank(W, j)] = j
                    BY <1>9, <4>1, AscIs
                <5> QED BY <2>4, <5>1
            <4>2. CASE j \notin W
                BY <2>1, <2>3, <4>2
            <4> QED BY <4>1, <4>2
        <3> QED BY <2>3, <2>4, <3>1, <3>2, <3>3, TotalSparse
    <2>8. Total(g) \in Int
        BY <2>4, TotalType
    <2>9. Holds(Call, s) <=> Total(f) % 2 = 1
        BY <1>1, <1>3, <2>1, HoldsOperation
    <2>10. Odd(n, free, want, s) <=> Total(g) % 2 = want
        BY <2>1 DEF Odd
    <2>11. PICK t : t = Total(g)
        OBVIOUS
    <2>12. (t + h) % 2 = 1 <=> t % 2 = 1 - (h % 2)
        BY <1>10, <2>8, <2>11
    <2> QED BY <1>7, <2>5, <2>6, <2>7, <2>9, <2>10, <2>11, <2>12
<1> QED BY <1>1, <1>2, <1>11, <1>12, <1>13, <1>14 DEF At1

\* The free columns, added up.
Sums(n, free, s, f) == Total([k \in 1 .. n |-> s[free[k]]]) = f

\* What the sum of the free columns may be, and the row that says it.
SumFacts(d, n, free, ones, s, f) ==
    /\ f \in 0 .. n /\ SumOf(ones, free, s) = f /\ Row(ones, free, 0, d)
    /\ n = 0 => f = 0
    /\ n = 1 => f = s[free[1]]
    /\ n = 2 => f = s[free[1]] + s[free[2]]

LEMMA FreeSum ==
    ASSUME NEW d, Domains(d), NEW n, n \in Nat, NEW free, free = [k \in 1 .. n |-> free[k]],
           \A k \in 1 .. n : free[k] \in Booleans(d), NEW ones, ones = [k \in 1 .. n |-> 1],
           NEW s, Fits(s, d), NEW f, Sums(n, free, s, f)
    PROVE  SumFacts(d, n, free, ones, s, f)
<1>1. PICK g : g = [k \in 1 .. n |-> s[free[k]]]
    OBVIOUS
<1>2. \A k \in 1 .. n : s[free[k]] \in {0, 1} /\ g[k] \in {0, 1} /\ free[k] \in Columns(d)
    BY <1>1, FitsColumns
<1>3. Numbers(g) /\ Len(g) = n
    <2>1. g = [k \in 1 .. n |-> g[k]] /\ \A k \in 1 .. n : g[k] \in Int
        BY <1>1, <1>2
    <2> QED BY <2>1, NumbersMade
<1>4. f = Total(g) /\ f \in Int
    <2>1. f = Total(g)
        BY <1>1 DEF Sums
    <2> QED BY <1>3, <2>1, TotalType
<1>5. f >= 0
    BY <1>2, <1>3, <1>4, TotalPositive
<1>6. f <= n
    <2>1. Numbers(ones) /\ Len(ones) = n
        <3>1. ones = [k \in 1 .. n |-> ones[k]] /\ \A k \in 1 .. n : ones[k] \in Int
            OBVIOUS
        <3> QED BY <3>1, NumbersMade
    <2>2. Total(g) <= Total(ones)
        <3>1. \A k \in 1 .. Len(g) : g[k] <= ones[k]
            BY <1>2, <1>3
        <3> QED BY <1>3, <2>1, <3>1, TotalMonotone
    <2>3. Total(ones) = Cardinality({i \in 1 .. Len(ones) : ones[i] = 1})
        <3>1. \A k \in 1 .. Len(ones) : ones[k] \in {0, 1}
            BY <2>1
        <3> QED BY <2>1, <3>1, TotalCount
    <2>4. {i \in 1 .. Len(ones) : ones[i] = 1} = 1 .. n
        BY <2>1
    <2>5. Cardinality(1 .. n) = n
        <3>1. 1 \in Int /\ n \in Int
            OBVIOUS
        <3>2. Cardinality(1 .. n) = IF 1 > n THEN 0 ELSE n - 1 + 1
            BY <3>1, IntervalFinite
        <3> QED BY <3>2
    <2> QED BY <1>4, <2>2, <2>3, <2>4, <2>5
<1>7. SumOf(ones, free, s) = f
    <2>1. Len(free) = n
        OBVIOUS
    <2>2. [k \in 1 .. Len(free) |-> ones[k] * s[free[k]]] = g
        <3>1. \A k \in 1 .. n : ones[k] * s[free[k]] = s[free[k]]
            BY <1>2
        <3> QED BY <1>1, <2>1, <3>1
    <2> QED BY <1>4, <2>2 DEF SumOf
<1>8. Row(ones, free, 0, d)
    BY <1>2 DEF Row
<1>9. n = 0 => f = 0
    BY <1>3, <1>4, TotalNone
<1>10. n = 1 => f = s[free[1]]
    <2>1. n = 1 => f = g[1]
        BY <1>3, <1>4, TotalSingle
    <2> QED BY <1>1, <2>1
<1>11. n = 2 => f = s[free[1]] + s[free[2]]
    <2>1. n = 2 => f = g[1] + g[2]
        BY <1>3, <1>4, TotalTwo
    <2>2. n = 2 => g[1] = s[free[1]] /\ g[2] = s[free[2]]
        BY <1>1
    <2> QED BY <2>1, <2>2
<1> QED BY <1>4, <1>5, <1>6, <1>7, <1>8, <1>9, <1>10, <1>11 DEF SumFacts

\* fzn_array_bool_xor: the free Booleans add up to an odd or an even number.
LEMMA ParityReplaced ==
    ASSUME Formed, mip_bool_parity
    PROVE  Replaced
<1>1. PICK c, W, at, n, free, want, d, e :
          /\ c = Call /\ W = {i \in DOMAIN c.xs : ~is_fixed(c.xs[i])} /\ at = Asc(W) /\ n = Cardinality(W)
          /\ free = [k \in 1 .. n |-> c.xs[at[k]]]
          /\ want = 1 - (Cardinality({i \in DOMAIN c.xs : Certain(c.xs[i])}) % 2)
          /\ ParityParts(c, W, at, n, free, want)
          /\ d = dom /\ e = dom'
    BY DEF ParityParts
<1>2. Doing("xor")
    BY DEF mip_bool_parity
<1>3. /\ Heads /\ Working /\ Domains(d) /\ Proper(Call, d)
      /\ n \in Nat /\ DOMAIN at = 1 .. n /\ Len(at) = n /\ want \in {0, 1}
      /\ \A k \in 1 .. n : free[k] \in Booleans(d)
      /\ \A s : At1(s) => Fits(s, d)
      /\ \A s : Fits(s, d) => (Holds(Call, s) <=> Odd(n, free, want, s))
    <2>0. Formed /\ Doing("xor") /\ c = Call /\ ParityParts(c, W, at, n, free, want)
        BY <1>1, <1>2
    <2>1. Heads /\ Working /\ Domains(dom) /\ Proper(Call, dom)
        <3>1. Heads /\ Working
            BY <2>0, ParityHead
        <3>2. Domains(dom) /\ Proper(Call, dom)
            BY <2>0, ParityHead
        <3> QED BY <3>1, <3>2
    <2>2. n \in Nat /\ DOMAIN at = 1 .. n /\ Len(at) = n /\ want \in {0, 1}
        BY <2>0, ParityHead
    <2>3. \A k \in 1 .. n : free[k] \in Booleans(dom)
        BY <2>0, ParityHead
    <2>4. /\ \A s : At1(s) => Fits(s, dom)
          /\ \A s : Fits(s, dom) => (Holds(Call, s) <=> Odd(n, free, want, s))
        BY <2>0, ParityHead
    <2> QED BY <1>1, <2>1, <2>2, <2>3, <2>4
<1>4. PICK ones : ones = [k \in 1 .. n |-> 1]
    OBVIOUS
<1>5. /\ n = 0 => Into(IF want = 0 THEN <<>> ELSE <<Fail>>)
      /\ n = 1 => Into(<<Within(free[1], {want})>>)
      /\ n = 2 => Into(<<Eq(<<1, IF want = 1 THEN 1 ELSE -1>>, free, want)>>)
      /\ n \notin {0, 1, 2} =>
            /\ e = Append(d, 0 .. (n - want) \div 2)
            /\ todo' = <<Eq(Append(ones, -2), Append(free, Len(d) + 1), want)>> \o Tail(todo)
            /\ UNCHANGED <<model, out, shared>>
    <2> DEFINE ThisInto(a, w) ==
           IF Len(a) = 0 THEN Into(IF w = 0 THEN <<>> ELSE <<Fail>>)
           ELSE IF Len(a) = 1 THEN Into(<<Within([k \in DOMAIN a |-> Call.xs[a[k]]][1], {w})>>)
           ELSE IF Len(a) = 2
           THEN Into(<<Eq(<<1, IF w = 1 THEN 1 ELSE -1>>, [k \in DOMAIN a |-> Call.xs[a[k]]], w)>>)
           ELSE /\ dom' = Append(dom, 0 .. (Len(a) - w) \div 2)
                /\ todo' = <<Eq(Append([k \in DOMAIN a |-> 1], -2),
                                Append([k \in DOMAIN a |-> Call.xs[a[k]]], New + 1), w)>> \o Tail(todo)
                /\ UNCHANGED <<model, out, shared>>
    <2>1. ThisInto(Asc({i \in DOMAIN Call.xs : ~is_fixed(Call.xs[i])}),
                   1 - (Cardinality({i \in DOMAIN Call.xs : Certain(Call.xs[i])}) % 2))
        BY DEF mip_bool_parity
    <2>2. ThisInto(at, want)
        <3> HIDE DEF ThisInto
        <3> QED BY <1>1, <2>1
    <2>3. /\ free = [k \in DOMAIN at |-> Call.xs[at[k]]] /\ ones = [k \in DOMAIN at |-> 1] /\ Len(at) = n
          /\ New = Len(d)
        BY <1>1, <1>3, <1>4 DEF New
    <2>4. IF n = 0 THEN Into(IF want = 0 THEN <<>> ELSE <<Fail>>)
          ELSE IF n = 1 THEN Into(<<Within(free[1], {want})>>)
          ELSE IF n = 2
          THEN Into(<<Eq(<<1, IF want = 1 THEN 1 ELSE -1>>, free, want)>>)
          ELSE /\ dom' = Append(dom, 0 .. (n - want) \div 2)
               /\ todo' = <<Eq(Append(ones, -2), Append(free, Len(d) + 1), want)>> \o Tail(todo)
               /\ UNCHANGED <<model, out, shared>>
        BY <2>2, <2>3
    <2>5. CASE n = 0
        BY <2>4, <2>5
    <2>6. CASE n = 1
        BY <2>4, <2>6
    <2>7. CASE n = 2
        BY <2>4, <2>7
    <2>8. CASE n \notin {0, 1, 2}
        BY <1>1, <2>4, <2>8
    <2> QED BY <2>5, <2>6, <2>7, <2>8
<1>6. free = [k \in 1 .. n |-> free[k]]
    BY <1>1
<1>7. ASSUME NEW s, Fits(s, d)
      PROVE  \E f : /\ f \in 0 .. n /\ SumOf(ones, free, s) = f /\ Row(ones, free, 0, d)
                    /\ n = 0 => f = 0
                    /\ n = 1 => f = s[free[1]]
                    /\ n = 2 => f = s[free[1]] + s[free[2]]
                    /\ Holds(Call, s) <=> f % 2 = want
    <2>1. PICK f : Sums(n, free, s, f) /\ f = Total([k \in 1 .. n |-> s[free[k]]])
        BY DEF Sums
    <2>2. Odd(n, free, want, s) <=> f % 2 = want
        BY <2>1 DEF Odd
    <2>3. SumFacts(d, n, free, ones, s, f)
        BY <1>3, <1>4, <1>6, <1>7, <2>1, FreeSum
    <2>4. Holds(Call, s) <=> f % 2 = want
        BY <1>3, <1>7, <2>2
    <2> QED BY <2>3, <2>4 DEF SumFacts
<1>8. CASE n = 0
    <2>1. ASSUME NEW s, At1(s) PROVE Holds(Call, s) <=> want = 0
        <3>1. Fits(s, d)
            BY <1>3, <2>1
        <3>2. Holds(Call, s) <=> 0 % 2 = want
            BY <1>7, <1>8, <3>1
        <3> QED BY <3>2
    <2>2. CASE want = 0
        <3>1. Into(<<>>)
            BY <1>5, <1>8, <2>2
        <3> QED BY <1>3, <2>1, <2>2, <3>1, IntoNone
    <2>3. CASE want # 0
        <3>1. Into(<<Fail>>)
            BY <1>5, <1>8, <2>3
        <3>2. Plain(Fail, dom)
            <4>1. 1 \in Columns(dom)
                BY <1>2, WorkingIs
            <4> QED BY <4>1, MadeFail DEF Plain
        <3> QED BY <1>3, <2>1, <2>3, <3>1, <3>2, FailHolds, IntoOne
    <2> QED BY <2>2, <2>3
<1>9. CASE n = 1
    <2>1. PICK x, q : x = free[1] /\ q = Within(x, {want})
        OBVIOUS
    <2>2. x \in Columns(dom) /\ x \in Booleans(dom)
        <3>1. 1 \in 1 .. n
            BY <1>9
        <3>2. free[1] \in Booleans(dom)
            BY <1>1, <1>3, <3>1
        <3> QED BY <2>1, <3>2 DEF Booleans
    <2>3. Plain(q, dom)
        <3>1. Finite({want})
            <4>1. Finite({want, want})
                <5>1. want \in Int
                    BY <1>3
                <5> QED BY <5>1, FinitePair
            <4>2. {want, want} = {want}
                OBVIOUS
            <4> QED BY <4>1, <4>2
        <3> QED BY <2>1, <2>2, <3>1, MadeWithin DEF Plain
    <2>4. ASSUME NEW s, At1(s) PROVE Holds(Call, s) <=> Holds(q, s)
        <3>1. Fits(s, d)
            BY <1>3, <2>4
        <3>2. Holds(Call, s) <=> s[x] % 2 = want
            BY <1>7, <1>9, <2>1, <3>1
        <3>3. s[x] \in {0, 1}
            BY <1>1, <1>3, <2>2, <3>1, BitIs
        <3>4. Holds(q, s) <=> s[x] = want
            BY <2>1, WithinHolds
        <3> QED BY <3>2, <3>3, <3>4
    <2>5. Into(<<q>>)
        BY <1>5, <1>9, <2>1
    <2> QED BY <1>3, <2>3, <2>4, <2>5, IntoOne
<1>10. CASE n = 2
    <2>1. PICK x, y, v, q : x = free[1] /\ y = free[2] /\ v = (IF want = 1 THEN 1 ELSE -1)
                            /\ q = Eq(<<1, v>>, <<x, y>>, want)
        OBVIOUS
    <2>2. x \in Columns(dom) /\ x \in Booleans(dom) /\ y \in Columns(dom) /\ y \in Booleans(dom)
        <3>1. 1 \in 1 .. n /\ 2 \in 1 .. n
            BY <1>10
        <3>2. free[1] \in Booleans(dom) /\ free[2] \in Booleans(dom)
            BY <1>1, <1>3, <3>1
        <3> QED BY <2>1, <3>2 DEF Booleans
    <2>3. v \in Int /\ want \in Int
        BY <1>3, <2>1
    <2>4. Plain(q, dom)
        <3>1. PICK one \in Int : one = 1
            OBVIOUS
        <3>2. Row(<<one, v>>, <<x, y>>, want, dom)
            BY <1>1, <1>3, <2>2, <2>3, PairIs
        <3> QED BY <2>1, <3>1, <3>2, MadeEq DEF Plain
    <2>5. ASSUME NEW s, At1(s) PROVE Holds(Call, s) <=> Holds(q, s)
        <3>1. Fits(s, d)
            BY <1>3, <2>5
        <3>2. Holds(Call, s) <=> (s[x] + s[y]) % 2 = want
            BY <1>7, <1>10, <2>1, <3>1
        <3>3. s[x] \in {0, 1} /\ s[y] \in {0, 1}
            BY <1>1, <1>3, <2>2, <3>1, BitIs
        <3>4. Holds(q, s) <=> SumOf(<<1, v>>, <<x, y>>, s) = want
            BY <2>1, EqHolds
        <3>5. CASE want = 1
            <4>1. SumOf(<<1, 1>>, <<x, y>>, s) = s[x] + s[y]
                BY <1>1, <1>3, <2>2, <3>1, UnitsAre
            <4> QED BY <2>1, <3>2, <3>3, <3>4, <3>5, <4>1
        <3>6. CASE want = 0
            <4>1. SumOf(<<1, -1>>, <<x, y>>, s) = s[x] - s[y]
                BY <1>1, <1>3, <2>2, <3>1, UnitsAre
            <4>2. v = -1
                BY <2>1, <3>6
            <4> QED BY <3>2, <3>3, <3>4, <3>6, <4>1, <4>2
        <3> QED BY <1>3, <3>5, <3>6
    <2>6. Into(<<q>>)
        <3>1. free = <<x, y>>
            BY <1>6, <1>10, <2>1
        <3> QED BY <1>5, <1>10, <2>1, <3>1
    <2> QED BY <1>3, <2>4, <2>5, <2>6, IntoOne
<1>11. CASE n \notin {0, 1, 2}
    <2>1. PICK D, y, two_, q : /\ D = 0 .. (n - want) \div 2 /\ y = Len(d) + 1 /\ two_ = -2
                               /\ q = Eq(Append(ones, two_), Append(free, y), want)
        OBVIOUS
    <2>2. e = d \o <<D>> /\ todo' = <<q>> \o Tail(todo) /\ UNCHANGED <<model, out, shared>>
        <3>1. e = Append(d, D) /\ todo' = <<q>> \o Tail(todo) /\ UNCHANGED <<model, out, shared>>
            BY <1>5, <1>11, <2>1
        <3>2. d \in Seq(SUBSET Int)
            BY <1>3 DEF Domains
        <3> QED BY <3>1, <3>2
    <2>3. Finite(D)
        BY <1>3, <2>1, IntervalFinite
    <2>4. Domains(<<D>>) /\ Len(<<D>>) = 1 /\ <<D>>[1] = D
        BY <2>3 DEF Domains, Finite
    <2>5. /\ Domains(e) /\ Longer(d, e) /\ Bigger(d, e) /\ Len(e) = Len(d) + 1 /\ Len(d) \in Nat
          /\ e[y] = D /\ y \in Columns(e)
        <3>1. PICK f : f = <<D>>
            OBVIOUS
        <3>2. Domains(f) /\ Len(f) = 1 /\ f[1] = D
            BY <2>4, <3>1
        <3>3. e = d \o f
            BY <2>2, <3>1
        <3>4. Domains(e) /\ Longer(d, e) /\ Bigger(d, e)
            BY <1>3, <3>2, <3>3, NewDomains
        <3>5. Len(e) = Len(d) + Len(f) /\ Len(d) \in Nat
            BY <1>3, <3>2, <3>3, NewDomains
        <3>6. e[Len(d) + 1] = D
            BY <2>2, <3>2, <3>5, <1>3 DEF Domains
        <3>7. Len(d) + 1 \in Columns(e)
            BY <3>2, <3>5 DEF Columns
        <3> QED BY <2>1, <3>2, <3>4, <3>5, <3>6, <3>7
    <2>6. Extension(d, e, 1)
        BY <1>3, <2>5 DEF Extension
    <2>7. /\ \A k \in 1 .. n : free[k] \in Booleans(e)
          /\ want \in Int /\ two_ \in Int
        BY <1>3, <2>1, <2>5, ColumnsGrow
    <2>8. Row(ones, free, 0, e)
        <3>1. ones \in Seq(Int) /\ Len(ones) = n
            BY <1>3, <1>4
        <3>2. \A k \in 1 .. n : free[k] \in Columns(e)
            BY <2>7 DEF Booleans
        <3>3. free \in Seq(Columns(e)) /\ Len(free) = n
            BY <1>3, <1>6, <3>2
        <3> QED BY <3>1, <3>3 DEF Row
    <2>9. ASSUME NEW w, w \in Int
          PROVE  /\ \A l \in Int : Row(Append(ones, w), Append(free, y), l, e)
                 /\ \A s : Fits(s, e) => /\ SumOf(Append(ones, w), Append(free, y), s) = SumOf(ones, free, s) + w * s[y]
                                         /\ SumOf(ones, free, s) \in Int /\ s[y] \in Int
        BY <2>5, <2>8, <2>9, AppendedIs
    <2>10. Plain(q, e)
        <3>1. Row(Append(ones, two_), Append(free, y), want, e)
            BY <2>7, <2>9
        <3> QED BY <2>1, <3>1, MadeEq DEF Plain
    <2>11. ASSUME NEW t, NEW s, Fits(t, e), Fits(s, d), Alike(s, t, 1 .. Len(d))
           PROVE  \E f : /\ f \in 0 .. n /\ t[y] \in D /\ t[y] \in Int
                         /\ Holds(Call, s) <=> f % 2 = want
                         /\ Holds(q, t) <=> f - 2 * t[y] = want
        <3>1. PICK f : f \in 0 .. n /\ SumOf(ones, free, s) = f /\ (Holds(Call, s) <=> f % 2 = want)
            BY <1>7, <2>11
        <3>2. SumOf(ones, free, t) = f
            <4>1. \A k \in 1 .. Len(free) : s[free[k]] = t[free[k]]
                BY <1>3, <1>6, <2>11 DEF Alike, Booleans, Columns
            <4> QED BY <3>1, <4>1, SumAlike
        <3>3. t[y] \in D /\ t[y] \in Int
            BY <2>5, <2>11, FitsColumns
        <3>4. SumOf(Append(ones, two_), Append(free, y), t) = f + two_ * t[y]
            BY <2>7, <2>9, <2>11, <3>2
        <3>5. Holds(q, t) <=> SumOf(Append(ones, two_), Append(free, y), t) = want
            BY <2>1, EqHolds
        <3>6. two_ * t[y] = -(2 * t[y])
            BY <2>1, <3>3
        <3> QED BY <3>1, <3>3, <3>4, <3>5, <3>6
    <2>12. ASSUME NEW t, Fits(t, e), Holds(q, t) PROVE Holds(Call, t)
        <3>1. PICK s : Fits(s, d) /\ Alike(s, t, 1 .. Len(d)) /\ Alike(t, s, 1 .. Len(d))
            BY <1>3, <2>5, <2>12, Restricted
        <3>2. PICK f : /\ f \in 0 .. n /\ t[y] \in Int
                       /\ Holds(Call, s) <=> f % 2 = want
                       /\ f - 2 * t[y] = want
            BY <2>11, <2>12, <3>1
        <3>3. PICK v \in Int : v = t[y]
            BY <3>2
        <3>4. f = 2 * v + want
            <4>1. f - 2 * v = want
                BY <3>2, <3>3
            <4> QED BY <3>2, <4>1
        <3>5. (2 * v + want) % 2 = want
            BY <1>3
        <3> QED BY <1>3, <3>1, <3>2, <3>4, <3>5, HoldsExtended
    <2>13. ASSUME NEW s, Fits(s, d), Holds(Call, s)
           PROVE  \E t : Fits(t, e) /\ Alike(s, t, 1 .. Len(d)) /\ Holds(q, t)
        <3>1. PICK f : f \in 0 .. n /\ SumOf(ones, free, s) = f /\ f % 2 = want
            BY <1>7, <2>13
        <3>2. PICK v : v = (f - want) \div 2
            OBVIOUS
        <3>3. v \in D /\ f - 2 * v = want /\ v \in Int
            BY <1>3, <2>1, <3>1, <3>2
        <3>4. PICK g : g = <<v>>
            OBVIOUS
        <3>5. Suits(g, d, e, 1)
            <4>1. ASSUME NEW i \in 1 .. 1 PROVE g[i] \in e[Len(d) + i]
                <5>1. i = 1
                    OBVIOUS
                <5>2. e[Len(d) + 1] = D /\ g[1] = v
                    BY <2>1, <2>5, <3>4
                <5> QED BY <3>3, <5>1, <5>2
            <4> QED BY <4>1 DEF Suits
        <3>6. PICK t : /\ Fits(t, e) /\ Alike(s, t, 1 .. Len(d)) /\ \A i \in 1 .. 1 : t[Len(d) + i] = g[i]
            BY <2>6, <2>13, <3>5, Extended
        <3>7. t[y] = v
            BY <2>1, <3>4, <3>6
        <3>8. SumOf(ones, free, t) = f
            <4>1. \A k \in 1 .. Len(free) : s[free[k]] = t[free[k]]
                BY <1>3, <1>6, <3>6 DEF Alike, Booleans, Columns
            <4> QED BY <3>1, <4>1, SumAlike
        <3>9. SumOf(Append(ones, two_), Append(free, y), t) = f + two_ * t[y]
            BY <2>7, <2>9, <3>6, <3>8
        <3>10. two_ * t[y] = -(2 * v)
            BY <2>1, <3>3, <3>7
        <3>11. Holds(q, t)
            <4>1. Holds(q, t) <=> SumOf(Append(ones, two_), Append(free, y), t) = want
                BY <2>1, EqHolds
            <4> QED BY <1>3, <3>1, <3>3, <3>9, <3>10, <4>1
        <3> QED BY <3>6, <3>11
    <2>14. Sound(<<q>>, dom') /\ Complete(<<q>>, dom')
        <3>1. \A t : Meets(t, Range(<<q>>)) <=> Holds(q, t)
            BY OneCall DEF Meets
        <3> QED BY <1>1, <2>12, <2>13, <3>1 DEF Sound, Complete
    <2>15. <<q>> \in Seq(Range(<<q>>)) /\ \A k \in Range(<<q>>) : Plain(k, dom')
        BY <1>1, <2>10, OneCall
    <2> QED BY <1>1, <1>3, <2>2, <2>5, <2>14, <2>15, NewReplaced
<1> QED BY <1>8, <1>9, <1>10, <1>11

\* The columns of xs have the values of a row of ts.
AmongRows(xs, ts, M, N, s) == \E t \in N : \A j \in M : s[xs[j]] = ts[t][j]

LEMMA TableHead ==
    ASSUME Formed, Doing("table"), NEW c, c = Call, NEW xs, xs = c.xs, NEW ts, ts = c.tuples,
           NEW m, m = Len(xs), NEW n, n = Len(ts)
    PROVE  /\ Heads /\ Working /\ Domains(dom) /\ Proper(Call, dom)
           /\ m \in Nat /\ DOMAIN xs = 1 .. m /\ n \in Nat /\ DOMAIN ts = 1 .. n
           /\ \A j \in 1 .. m : xs[j] \in Columns(dom) /\ \A t \in 1 .. n : ts[t][j] \in Int
           /\ \A s : At1(s) => Fits(s, dom)
           /\ \A s : Holds(Call, s) <=> \E t \in 1 .. n : \A j \in 1 .. m : s[xs[j]] = ts[t][j]
<1>1. Working /\ Call.c = "table" /\ Proper(Call, dom) /\ Domains(dom)
    BY WorkingIs
<1>2. Heads
    BY <1>1 DEF Heads, Flat
<1>3. /\ xs \in Seq(Columns(dom)) /\ ts \in Seq(Seq(Int))
      /\ \A t \in DOMAIN ts : Len(ts[t]) = m
    BY <1>1, GlobalParts
<1>4. m \in Nat /\ DOMAIN xs = 1 .. m /\ n \in Nat /\ DOMAIN ts = 1 .. n
    BY <1>3
<1>5. ASSUME NEW j \in 1 .. m PROVE xs[j] \in Columns(dom) /\ \A t \in 1 .. n : ts[t][j] \in Int
    <2>1. xs[j] \in Columns(dom)
        BY <1>3, <1>4
    <2>2. ASSUME NEW t \in 1 .. n PROVE ts[t][j] \in Int
        <3>1. ts[t] \in Seq(Int) /\ Len(ts[t]) = m
            <4>1. PICK S : S = Seq(Int)
                OBVIOUS
            <4>2. ts \in Seq(S)
                BY <1>3, <4>1
            <4>3. ts[t] \in S
                BY <1>4, <4>2
            <4> QED BY <1>3, <1>4, <4>1, <4>3
        <3> QED BY <1>4, <3>1
    <2> QED BY <2>1, <2>2
<1>6. \A s : At1(s) => Fits(s, dom)
    BY DEF At1
<1>7. ASSUME NEW s PROVE Holds(Call, s) <=> \E t \in 1 .. n : \A j \in 1 .. m : s[xs[j]] = ts[t][j]
    <2>1. Holds(Call, s) <=> AmongRows(xs, ts, DOMAIN xs, DOMAIN ts, s)
        BY <1>1, HoldsTable DEF AmongRows
    <2>2. Holds(Call, s) <=> AmongRows(xs, ts, 1 .. m, 1 .. n, s)
        BY <1>4, <2>1, Zenon
    <2> QED BY <2>2 DEF AmongRows
<1> QED BY <1>1, <1>2, <1>4, <1>5, <1>6, <1>7

\* A table: a bit for each row, one of which holds.
LEMMA TableReplaced ==
    ASSUME Formed, IntTable
    PROVE  Replaced
<1>1. PICK c, xs, ts, m, n, d, e : /\ c = Call /\ xs = c.xs /\ ts = c.tuples /\ m = Len(xs) /\ n = Len(ts)
                                   /\ d = dom /\ e = dom'
    OBVIOUS
<1>2. Doing("table")
    BY DEF IntTable
<1>3. /\ Heads /\ Working /\ Domains(d) /\ Proper(Call, d)
      /\ m \in Nat /\ DOMAIN xs = 1 .. m /\ n \in Nat /\ DOMAIN ts = 1 .. n
      /\ \A j \in 1 .. m : xs[j] \in Columns(d) /\ \A t \in 1 .. n : ts[t][j] \in Int
      /\ \A s : Holds(Call, s) <=> \E t \in 1 .. n : \A j \in 1 .. m : s[xs[j]] = ts[t][j]
    <2>1. Heads /\ Working /\ Domains(dom) /\ Proper(Call, dom)
        BY <1>1, <1>2, TableHead
    <2>2. m \in Nat /\ DOMAIN xs = 1 .. m /\ n \in Nat /\ DOMAIN ts = 1 .. n
        BY <1>1, <1>2, TableHead
    <2>3. \A j \in 1 .. m : xs[j] \in Columns(dom) /\ \A t \in 1 .. n : ts[t][j] \in Int
        BY <1>1, <1>2, TableHead
    <2>4. \A s : Holds(Call, s) <=> \E t \in 1 .. n : \A j \in 1 .. m : s[xs[j]] = ts[t][j]
        BY <1>1, <1>2, TableHead
    <2> QED BY <1>1, <2>1, <2>2, <2>3, <2>4
<1>4. PICK ones, bs, q, P, calls :
          /\ ones = [t \in 1 .. n |-> 1] /\ bs = [t \in 1 .. n |-> New + t] /\ q = Eq(ones, bs, 1)
          /\ P = [j \in 1 .. m |-> Eq(Append([t \in 1 .. n |-> ts[t][j]], -1), Append(bs, xs[j]), 0)]
          /\ calls = <<q>> \o P
    OBVIOUS
<1>5. IntoNew(n, calls)
    <2>1. IntoNew(Len(ts),
             <<Eq([t \in DOMAIN ts |-> 1], [t \in DOMAIN ts |-> New + t], 1)>>
             \o [j \in DOMAIN xs |->
                    Eq(Append([t \in DOMAIN ts |-> ts[t][j]], -1),
                       Append([t \in DOMAIN ts |-> New + t], xs[j]), 0)])
        BY <1>1 DEF IntTable
    <2> QED BY <1>1, <1>3, <1>4, <2>1
<1>6. New = Len(d) /\ Len(d) \in Nat /\ e = d \o AllBits(n) /\ todo' = calls \o Tail(todo)
      /\ UNCHANGED <<model, out, shared>>
    <2>1. New = Len(d) /\ Len(d) \in Nat
        BY <1>1, <1>3, DomainsAre DEF New
    <2> QED BY <1>1, <1>5, <2>1 DEF IntoNew, AllBits
<1>7. /\ Domains(e) /\ Longer(d, e) /\ Bigger(d, e)
      /\ Extension(d, e, n) /\ BitsFrom(d, e, n)
    BY <1>3, <1>6, NewBits
<1>8. bs = [t \in 1 .. n |-> Len(d) + t]
    BY <1>4, <1>6
<1>9. PICK one \in Int : one = 1
    OBVIOUS
<1>10. /\ \A k \in Int : Row(ones, bs, k, e)
       /\ \A t : Fits(t, e) => HotSum(d, n, t, SumOf(ones, bs, t))
    BY <1>3, <1>4, <1>6, <1>7, <1>8, OneHotIs
<1>11. Plain(q, e)
    <2>1. Row(ones, bs, one, e)
        BY <1>9, <1>10
    <2> QED BY <1>4, <1>9, <2>1, MadeEq DEF Plain
<1>12. ASSUME NEW j \in 1 .. m
       PROVE  PickedRow(P[j], [t \in 1 .. n |-> ts[t][j]], xs[j], d, n, e)
    <2>1. PICK w, y, p : w = [t \in 1 .. n |-> ts[t][j]] /\ y = xs[j] /\ p = P[j]
        OBVIOUS
    <2>2. w = [t \in 1 .. n |-> w[t]] /\ \A t \in 1 .. n : w[t] \in Int
        BY <1>3, <2>1
    <2>3. y \in Columns(e)
        BY <1>3, <1>7, <2>1, ColumnsGrow
    <2>4. p = Eq(Append(w, -1), Append(bs, y), 0)
        BY <1>4, <2>1
    <2>5. PickedRow(p, w, y, d, n, e)
        BY <1>3, <1>6, <1>7, <1>8, <2>2, <2>3, <2>4, PickedRowIs
    <2> QED BY <2>1, <2>5
<1>13. PICK S : S = {P[j] : j \in 1 .. m}
    OBVIOUS
<1>14. Listed(calls, {q} \cup S)
    <2>1. P = [j \in 1 .. m |-> P[j]]
        BY <1>4
    <2>2. Listed(P, S)
        BY <1>3, <1>13, <2>1, ListedMade
    <2>3. Listed(<<q>>, {q})
        BY ListedShort
    <2> QED BY <1>4, <2>2, <2>3, ListedJoin
<1>15. calls \in Seq(Range(calls)) /\ \A k \in Range(calls) : Plain(k, e)
    BY <1>11, <1>12, <1>13, <1>14 DEF Listed, PickedRow
<1>16. ASSUME NEW t, Fits(t, e)
       PROVE  Meets(t, Range(calls)) <=>
                \E k \in 1 .. n : Hot(d, n, t, k) /\ \A j \in 1 .. m : t[xs[j]] = ts[k][j]
    <2>1. Meets(t, Range(calls)) <=> Holds(q, t) /\ \A j \in 1 .. m : Holds(P[j], t)
        BY <1>13, <1>14 DEF Listed, Meets
    <2>2. Holds(q, t) <=> \E k \in 1 .. n : Hot(d, n, t, k)
        <3>1. PICK sum : sum = SumOf(ones, bs, t)
            OBVIOUS
        <3>2. HotSum(d, n, t, sum)
            BY <1>10, <1>16, <3>1
        <3>3. Holds(q, t) <=> sum = 1
            BY <1>4, <3>1, EqHolds
        <3> QED BY <3>2, <3>3 DEF HotSum
    <2>3. ASSUME NEW k \in 1 .. n, Hot(d, n, t, k), NEW j \in 1 .. m
          PROVE  Holds(P[j], t) <=> t[xs[j]] = ts[k][j]
        BY <1>12, <1>16, <2>3 DEF PickedRow
    <2> QED BY <2>1, <2>2, <2>3
<1>17. ASSUME NEW t, Fits(t, e), Meets(t, Range(calls)) PROVE Holds(Call, t)
    BY <1>3, <1>16, <1>17
<1>18. ASSUME NEW s, Fits(s, d), Holds(Call, s)
       PROVE  \E t : Fits(t, e) /\ Alike(s, t, 1 .. Len(d)) /\ Meets(t, Range(calls))
    <2>1. PICK k \in 1 .. n : \A j \in 1 .. m : s[xs[j]] = ts[k][j]
        BY <1>3, <1>18
    <2>2. HotFree(d, e, n)
        BY <1>7, HotIsFree
    <2>3. PICK t : Fits(t, e) /\ Alike(s, t, 1 .. Len(d)) /\ Hot(d, n, t, k)
        BY <1>18, <2>2 DEF HotFree
    <2>4. \A j \in 1 .. m : t[xs[j]] = ts[k][j]
        BY <1>3, <2>1, <2>3 DEF Alike, Columns
    <2> QED BY <1>16, <2>3, <2>4
<1>19. Sound(calls, dom') /\ Complete(calls, dom')
    BY <1>1, <1>17, <1>18 DEF Sound, Complete
<1> QED BY <1>1, <1>3, <1>6, <1>7, <1>15, <1>19, NewReplaced

===============================================================================
