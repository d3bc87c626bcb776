------------------------- MODULE DecompositionsProofs -------------------------
(***************************************************************************)
(* That the globals over encodings and the divisions are rewritten to      *)
(* calls that say the same, that encodings are made and the other steps    *)
(* taken without changing what is said, and what follows of                *)
(* Decompositions.                                                         *)
(***************************************************************************)
EXTENDS DecompositionsLemmas

LEMMA TimesGrows ==
    ASSUME NEW a \in Int, NEW b \in Int, NEW n \in Int, n >= 0, a <= b
    PROVE  a * n <= b * n
<1>1. (b - a) * n >= 0
    OBVIOUS
<1>2. (b - a) * n = b * n - a * n
    OBVIOUS
<1> QED BY <1>1, <1>2

LEMMA QuotientIs ==
    ASSUME NEW v \in Int, NEW n \in Int, n > 0
    PROVE  /\ v \div n \in Int /\ v % n \in 0 .. n - 1 /\ v = (v \div n) * n + (v % n)
OBVIOUS

LEMMA QuotientOnly ==
    ASSUME NEW n \in Int, n > 0, NEW q \in Int, NEW r \in 0 .. n - 1, NEW v \in Int, v = q * n + r
    PROVE  v \div n = q /\ v % n = r
<1>1. PICK p \in Int, m \in 0 .. n - 1 : p = v \div n /\ m = v % n /\ v = p * n + m
    BY QuotientIs
<1>2. CASE p < q
    <2>1. (p + 1) * n <= q * n
        BY <1>2, TimesGrows
    <2>2. (p + 1) * n = p * n + n
        OBVIOUS
    <2> QED BY <1>1, <2>1, <2>2
<1>3. CASE p > q
    <2>1. (q + 1) * n <= p * n
        BY <1>3, TimesGrows
    <2>2. (q + 1) * n = q * n + n
        OBVIOUS
    <2> QED BY <1>1, <2>1, <2>2
<1>4. CASE p = q
    BY <1>1, <1>4
<1> QED BY <1>2, <1>3, <1>4
\* A column is encoded before the constraint is looked at again.
LEMMA SelectOneReplaced ==
    ASSUME Heads, Call.c \notin {"two", "times"}, NEW xs, xs \subseteq Columns(dom), SelectOneOf(xs)
    PROVE  Replaced
<1>1. PICK x \in xs \ DOMAIN select : First(Select(x))
    BY DEF SelectOneOf
<1>2. Typed /\ todo # <<>> /\ Call.c \notin Flat /\ Call.c \notin {"element", "two", "times"} /\ x \in Columns(dom)
    BY DEF Heads, Working
<1> QED BY <1>1, <1>2, SelectFirst

\* Where a value may be taken, the values more than one column may take, and
\* the columns that are encoded for them.
Holders(xs, v) == {i \in DOMAIN xs : v \in dom[xs[i]]}
Contested(xs)  == {v \in UNION {dom[xs[i]] : i \in DOMAIN xs} : Len(Asc(Holders(xs, v))) > 1}
Used(xs, vs) ==
    {xs[i] : i \in UNION {{Asc(Holders(xs, vs[k]))[m] : m \in DOMAIN Asc(Holders(xs, vs[k]))} : k \in DOMAIN vs}}
OneOf(xs, v) ==
    Le([m \in DOMAIN Asc(Holders(xs, v)) |-> 1],
       [m \in DOMAIN Asc(Holders(xs, v)) |-> mip_select_at(xs[Asc(Holders(xs, v))[m]], v)], 1)

HoldersAre(xs, n) ==
    /\ Finite(Contested(xs))
    /\ \A v : /\ Finite(Holders(xs, v)) /\ Holders(xs, v) \subseteq 1 .. n
              /\ \A i \in Holders(xs, v) : v \in dom[xs[i]]
    /\ \A v, i, j : i \in Holders(xs, v) /\ j \in Holders(xs, v) /\ i # j => v \in Contested(xs)

LEMMA ContestedIs ==
    ASSUME Working, NEW xs, NEW n, n \in Nat, DOMAIN xs = 1 .. n, \A i \in 1 .. n : xs[i] \in Columns(dom)
    PROVE  HoldersAre(xs, n)
<1>1. ASSUME NEW v
      PROVE  /\ Finite(Holders(xs, v)) /\ Holders(xs, v) \subseteq 1 .. n
             /\ \A i \in Holders(xs, v) : v \in dom[xs[i]]
    <2>1. Holders(xs, v) \subseteq 1 .. n /\ \A i \in Holders(xs, v) : v \in dom[xs[i]]
        BY DEF Holders
    <2>2. Finite(1 .. n)
        BY IntervalFinite
    <2> QED BY <2>1, <2>2, FiniteParts
<1>2. PICK D, F : D = UNION F /\ F = {dom[xs[i]] : i \in 1 .. n}
    OBVIOUS
<1>3. Finite(D)
    <2>1. \A i \in 1 .. n : Finite(dom[xs[i]])
        BY ColumnIs
    <2>2. PICK g : g = [i \in 1 .. n |-> dom[xs[i]]]
        OBVIOUS
    <2>3. g \in Surjection(1 .. n, F)
        <3>1. g \in [1 .. n -> F] /\ \A T \in F : \E i \in 1 .. n : g[i] = T
            BY <1>2, <2>2
        <3> QED BY <3>1 DEF Surjection
    <2>4. IsFiniteSet(F)
        <3>1. IsFiniteSet(1 .. n)
            BY IntervalFinite DEF Finite
        <3> QED BY <2>3, <3>1, FS_Surjection
    <2>5. \A T \in F : IsFiniteSet(T) /\ T \subseteq Int
        BY <1>2, <2>1 DEF Finite
    <2>6. IsFiniteSet(UNION F)
        BY <2>4, <2>5, FS_UNION
    <2> QED BY <1>2, <2>5, <2>6 DEF Finite
<1>4. Contested(xs) = {v \in D : Len(Asc(Holders(xs, v))) > 1}
    BY <1>2 DEF Contested
<1>5. Finite(Contested(xs))
    <2>1. Contested(xs) \subseteq D
        BY <1>4
    <2> QED BY <1>3, <2>1, FiniteParts
<1>6. ASSUME NEW v, NEW i, NEW j, i \in Holders(xs, v), j \in Holders(xs, v), i # j
      PROVE  v \in Contested(xs)
    <2>1. PICK H : H = Holders(xs, v)
        OBVIOUS
    <2>2. Finite(H) /\ i \in H /\ j \in H
        BY <1>1, <1>6, <2>1
    <2>3. Len(Asc(H)) = Cardinality(H) /\ Cardinality(H) \in Nat
        BY <2>2, AscIs
    <2>4. Cardinality(H) # 0
        BY <2>2, OneValue
    <2>5. Cardinality(H) # 1
        <3>1. ASSUME H = {Min(H)} PROVE FALSE
            BY <1>6, <2>2, <3>1
        <3> QED BY <2>2, <3>1, OneValue
    <2>6. v \in D
        BY <1>1, <1>2, <1>6
    <2> QED BY <1>4, <2>1, <2>3, <2>4, <2>5, <2>6
<1> QED BY <1>1, <1>5, <1>6 DEF HoldersAre

\* A row keeps those that may take a value from taking it twice.
OnceRow(q, xs, v) ==
    /\ Plain(q, dom)
    /\ \A s : Fits(s, dom) /\ EncodedAt(s) =>
         (Holds(q, s) <=> \A i, j \in Holders(xs, v) : s[xs[i]] = v /\ s[xs[j]] = v => i = j)

LEMMA OneOfIs ==
    ASSUME Working, NEW xs, NEW n, n \in Nat, DOMAIN xs = 1 .. n, \A i \in 1 .. n : xs[i] \in Columns(dom),
           NEW v, v \in Int, \A i \in Holders(xs, v) : xs[i] \in DOMAIN select
    PROVE  OnceRow(OneOf(xs, v), xs, v)
<1>1. PICK H, at, m, ones, ps, q :
          /\ H = Holders(xs, v) /\ at = Asc(H) /\ m = Cardinality(H) /\ ones = [k \in 1 .. m |-> 1]
          /\ ps = [k \in 1 .. m |-> mip_select_at(xs[at[k]], v)] /\ q = OneOf(xs, v)
    OBVIOUS
<1>2. Finite(H)
    <2>1. HoldersAre(xs, n)
        BY ContestedIs
    <2> QED BY <1>1, <2>1 DEF HoldersAre
<1>3. /\ m \in Nat /\ DOMAIN at = 1 .. m
      /\ \A k \in 1 .. m : at[k] \in H
    BY <1>1, <1>2, AscIs
<1>31. \A i \in H : \E k \in 1 .. m : at[k] = i
    <2>1. ASSUME NEW i \in H PROVE \E k \in 1 .. m : at[k] = i
        <3>1. Rank(H, i) \in 1 .. m /\ at[Rank(H, i)] = i
            BY <1>1, <1>2, AscIs
        <3> QED BY <3>1
    <2> QED BY <2>1
<1>32. Distinct(at, m)
    BY <1>1, <1>2, AscDistinct
<1>4. q = Le(ones, ps, 1)
    BY <1>1, <1>3 DEF OneOf
<1>5. \A k \in 1 .. m : xs[at[k]] \in DOMAIN select /\ ps[k] = mip_select_at(xs[at[k]], v)
    BY <1>1, <1>3
<1>6. \A k \in 1 .. m : ps[k] \in Booleans(dom) /\ ps[k] \in Columns(dom)
    <2>1. ASSUME NEW k \in 1 .. m PROVE ps[k] \in Booleans(dom) /\ ps[k] \in Columns(dom)
        <3>1. PICK x : x = xs[at[k]] /\ x \in DOMAIN select
            BY <1>5
        <3>2. mip_select_at(x, v) \in Booleans(dom) /\ mip_select_at(x, v) \in Columns(dom)
            BY <3>1, SelectedIs
        <3> QED BY <1>5, <3>1, <3>2
    <2> QED BY <2>1
<1>7. PICK one \in Int : one = 1
    OBVIOUS
<1>8. Row(ones, ps, one, dom)
    <2>1. ones \in Seq(Int) /\ Len(ones) = m
        BY <1>1, <1>3
    <2>2. ps \in Seq(Columns(dom)) /\ Len(ps) = m
        BY <1>1, <1>3, <1>6
    <2> QED BY <1>7, <2>1, <2>2 DEF Row
<1>9. Plain(q, dom)
    BY <1>4, <1>7, <1>8, MadeLe DEF Plain
<1>10. ASSUME NEW s, Fits(s, dom), EncodedAt(s)
       PROVE  Holds(q, s) <=> \A i, j \in H : s[xs[i]] = v /\ s[xs[j]] = v => i = j
    <2>1. \A k \in 1 .. m : s[ps[k]] \in {0, 1} /\ (s[ps[k]] = 1 <=> s[xs[at[k]]] = v)
        <3>1. ASSUME NEW k \in 1 .. m
              PROVE  s[ps[k]] \in {0, 1} /\ (s[ps[k]] = 1 <=> s[xs[at[k]]] = v)
            <4>1. PICK x : x = xs[at[k]] /\ x \in DOMAIN select
                BY <1>5
            <4>2. s[mip_select_at(x, v)] \in {0, 1} /\ (s[mip_select_at(x, v)] = 1 <=> s[x] = v)
                BY <1>10, <4>1, SelectedIs
            <4> QED BY <1>5, <4>1, <4>2
        <3> QED BY <3>1
    <2>2. Domains(dom)
        BY DEF Working, Typed
    <2>3. Summable(ones, ps, s)
        BY <1>8, <1>10, <2>2, SummableIn
    <2>4. Len(ps) = m
        BY <1>1, <1>3
    <2>5. Bits(ps, s) /\ Ones(ones, ps)
        BY <1>1, <2>1, <2>4 DEF Bits, Ones
    <2>6. SumOf(ones, ps, s) <= 1 <=> AtMostOneSet(ps, s)
        BY <2>3, <2>5, SumOfBits
    <2>7. Holds(q, s) <=> SumOf(ones, ps, s) <= 1
        BY <1>4, LeHolds
    <2>8. AtMostOneSet(ps, s) <=> \A k, l \in 1 .. m : s[xs[at[k]]] = v /\ s[xs[at[l]]] = v => k = l
        BY <2>1, <2>4 DEF AtMostOneSet
    <2>9. (\A k, l \in 1 .. m : s[xs[at[k]]] = v /\ s[xs[at[l]]] = v => k = l)
          <=> \A i, j \in H : s[xs[i]] = v /\ s[xs[j]] = v => i = j
        <3>1. \A k, l \in 1 .. m : at[k] = at[l] => k = l
            BY <1>32 DEF Distinct
        <3> QED BY <1>3, <1>31, <3>1
    <2> QED BY <2>6, <2>7, <2>8, <2>9
<1> QED BY <1>1, <1>9, <1>10 DEF OnceRow

\* fzn_all_different_int: each shared value is taken once at most.
LEMMA AllDifferentReplaced ==
    ASSUME Formed, IntAllDifferent
    PROVE  Replaced
<1>1. PICK c, xs, n, C, vs, m, U :
          /\ c = Call /\ xs = c.xs /\ n = Len(xs) /\ C = Contested(xs) /\ vs = Asc(C) /\ m = Cardinality(C)
          /\ U = Used(xs, vs)
    OBVIOUS
<1>2. Doing("all_different")
    BY DEF IntAllDifferent
<1>3. Working /\ Call.c = "all_different" /\ Proper(Call, dom)
    BY <1>2, WorkingIs
<1>4. Heads
    BY <1>3 DEF Heads, Flat
<1>5. n \in Nat /\ DOMAIN xs = 1 .. n /\ \A i \in 1 .. n : xs[i] \in Columns(dom)
    <2>1. xs \in Seq(Columns(dom))
        BY <1>1, <1>3, GlobalParts
    <2> QED BY <1>1, <2>1
<1>60. HoldersAre(xs, n)
    BY <1>3, <1>5, ContestedIs
<1>6. /\ Finite(C)
      /\ \A v : /\ Finite(Holders(xs, v)) /\ Holders(xs, v) \subseteq 1 .. n
                /\ \A i \in Holders(xs, v) : v \in dom[xs[i]]
    BY <1>1, <1>60 DEF HoldersAre
<1>7. \A v, i, j : i \in Holders(xs, v) /\ j \in Holders(xs, v) /\ i # j => v \in C
    BY <1>1, <1>60 DEF HoldersAre
<1>8. m \in Nat /\ DOMAIN vs = 1 .. m /\ \A k \in 1 .. m : vs[k] \in C /\ vs[k] \in Int
    BY <1>1, <1>6, AscIs
<1>81. \A v \in C : \E k \in 1 .. m : vs[k] = v
    <2>1. ASSUME NEW v \in C PROVE \E k \in 1 .. m : vs[k] = v
        <3>1. Rank(C, v) \in 1 .. m /\ vs[Rank(C, v)] = v
            BY <1>1, <1>6, AscIs
        <3> QED BY <3>1
    <2> QED BY <2>1
<1>9. \/ SelectOneOf(U)
      \/ U \subseteq DOMAIN select /\ Into([k \in DOMAIN vs |-> OneOf(xs, vs[k])])
    <2>1. \/ SelectOneOf(Used(Call.xs, Asc(Contested(Call.xs))))
          \/ /\ Used(Call.xs, Asc(Contested(Call.xs))) \subseteq DOMAIN select
             /\ Into([k \in DOMAIN Asc(Contested(Call.xs)) |-> OneOf(Call.xs, Asc(Contested(Call.xs))[k])])
        BY Zenon DEF IntAllDifferent, Used, Contested, Holders, OneOf
    <2> QED BY <1>1, <2>1
<1>10. /\ U \subseteq Columns(dom)
       /\ \A k \in 1 .. m : \A i \in Holders(xs, vs[k]) : xs[i] \in U
    <2>1. ASSUME NEW k \in 1 .. m
          PROVE  /\ \A i \in Holders(xs, vs[k]) : \E l \in DOMAIN Asc(Holders(xs, vs[k])) : Asc(Holders(xs, vs[k]))[l] = i
                 /\ \A l \in DOMAIN Asc(Holders(xs, vs[k])) : Asc(Holders(xs, vs[k]))[l] \in 1 .. n
        <3>1. PICK H, h, f : H = Holders(xs, vs[k]) /\ h = Cardinality(H) /\ f = Asc(H)
            OBVIOUS
        <3>2. Finite(H) /\ H \subseteq 1 .. n
            BY <1>6, <3>1
        <3>3. DOMAIN f = 1 .. h /\ \A l \in 1 .. h : f[l] \in H
            BY <3>1, <3>2, AscIs
        <3>4. \A i \in H : Rank(H, i) \in 1 .. h /\ f[Rank(H, i)] = i
            BY <3>1, <3>2, AscIs
        <3> QED BY <3>1, <3>2, <3>3, <3>4
    <2>2. ASSUME NEW x \in U PROVE x \in Columns(dom)
        <3>1. PICK T, i : /\ T \in {{Asc(Holders(xs, vs[k]))[l] : l \in DOMAIN Asc(Holders(xs, vs[k]))} : k \in DOMAIN vs}
                          /\ i \in T /\ x = xs[i]
            BY <1>1, Zenon DEF Used
        <3>2. PICK k \in DOMAIN vs : T = {Asc(Holders(xs, vs[k]))[l] : l \in DOMAIN Asc(Holders(xs, vs[k]))}
            BY <3>1
        <3>3. PICK l \in DOMAIN Asc(Holders(xs, vs[k])) : i = Asc(Holders(xs, vs[k]))[l]
            BY <3>1, <3>2
        <3> QED BY <1>5, <1>8, <2>1, <3>1, <3>3
    <2>3. ASSUME NEW k \in 1 .. m, NEW i \in Holders(xs, vs[k]) PROVE xs[i] \in U
        <3>1. PICK l \in DOMAIN Asc(Holders(xs, vs[k])) : Asc(Holders(xs, vs[k]))[l] = i
            BY <2>1
        <3>2. PICK T : T = {Asc(Holders(xs, vs[k]))[j] : j \in DOMAIN Asc(Holders(xs, vs[k]))}
            OBVIOUS
        <3>3. i \in T
            BY <3>1, <3>2
        <3>4. T \in {{Asc(Holders(xs, vs[h]))[j] : j \in DOMAIN Asc(Holders(xs, vs[h]))} : h \in DOMAIN vs}
            BY <1>8, <3>2
        <3> QED BY <1>1, <3>3, <3>4, Zenon DEF Used
    <2> QED BY <2>2, <2>3
<1>11. CASE SelectOneOf(U)
    BY <1>3, <1>4, <1>10, <1>11, SelectOneReplaced
<1>12. CASE U \subseteq DOMAIN select /\ Into([k \in DOMAIN vs |-> OneOf(xs, vs[k])])
    <2>1. PICK calls : calls = [k \in 1 .. m |-> OneOf(xs, vs[k])]
        OBVIOUS
    <2>2. Into(calls)
        BY <1>8, <1>12, <2>1
    <2>3. calls \in Seq(Range(calls)) /\ Range(calls) = {calls[k] : k \in 1 .. m}
        BY <1>8, <2>1, MadeList
    <2>4. ASSUME NEW k \in 1 .. m PROVE OnceRow(calls[k], xs, vs[k])
        <3>1. PICK v : v = vs[k]
            OBVIOUS
        <3>2. v \in Int /\ \A i \in Holders(xs, v) : xs[i] \in DOMAIN select
            BY <1>8, <1>10, <1>12, <3>1
        <3>3. OnceRow(OneOf(xs, v), xs, v)
            BY <1>3, <1>5, <3>2, OneOfIs
        <3> QED BY <2>1, <3>1, <3>3
    <2>5. \A k \in Range(calls) : Plain(k, dom)
        BY <2>3, <2>4 DEF OnceRow
    <2>6. ASSUME NEW s, At1(s) PROVE Holds(Call, s) <=> Meets(s, Range(calls))
        <3>1. Fits(s, dom) /\ EncodedAt(s)
            BY <2>6 DEF At1
        <3>2. Holds(Call, s) <=> \A i, j \in 1 .. n : i # j => s[xs[i]] # s[xs[j]]
            <4>1. Holds(c, s) <=> \A i, j \in DOMAIN c.xs : i # j => s[c.xs[i]] # s[c.xs[j]]
                BY <1>1, <1>3, HoldsDifferent
            <4> QED BY <1>1, <1>5, <4>1
        <3>3. Meets(s, Range(calls)) <=> \A k \in 1 .. m : Holds(calls[k], s)
            BY <2>3 DEF Meets
        <3>4. \A k \in 1 .. m : Holds(calls[k], s) <=>
                  \A i, j \in Holders(xs, vs[k]) : s[xs[i]] = vs[k] /\ s[xs[j]] = vs[k] => i = j
            BY <2>4, <3>1 DEF OnceRow
        <3>5. \A i \in 1 .. n : i \in Holders(xs, s[xs[i]])
            <4>1. Domains(dom)
                BY <1>3 DEF Working, Typed
            <4>2. \A i \in 1 .. n : s[xs[i]] \in dom[xs[i]]
                BY <1>5, <3>1, <4>1, FitsColumns
            <4> QED BY <1>5, <4>2 DEF Holders
        <3>6. ASSUME \A i, j \in 1 .. n : i # j => s[xs[i]] # s[xs[j]], NEW k \in 1 .. m
              PROVE  Holds(calls[k], s)
            <4>1. Holders(xs, vs[k]) \subseteq 1 .. n
                BY <1>6
            <4> QED BY <3>4, <3>6, <4>1
        <3>7. ASSUME \A k \in 1 .. m : Holds(calls[k], s), NEW i \in 1 .. n, NEW j \in 1 .. n, i # j,
                     s[xs[i]] = s[xs[j]]
              PROVE  FALSE
            <4>1. PICK v : v = s[xs[i]] /\ v = s[xs[j]] /\ i \in Holders(xs, v) /\ j \in Holders(xs, v)
                BY <3>5, <3>7
            <4>2. v \in C
                BY <1>7, <3>7, <4>1
            <4>3. PICK k \in 1 .. m : vs[k] = v
                BY <1>81, <4>2
            <4> QED BY <3>4, <3>7, <4>1, <4>3
        <3> QED BY <3>2, <3>3, <3>6, <3>7
    <2>7. Agrees(calls)
        BY <2>6 DEF Agrees
    <2> QED BY <1>4, <2>2, <2>3, <2>5, <2>7, IntoPlain
<1> QED BY <1>9, <1>11, <1>12

LEMMA InverseHead ==
    ASSUME Formed, NEW k, k \in {"inverse", "inverse_in_range"}, Doing(k), NEW c, c = Call,
           NEW xs, xs = c.xs, NEW ys, ys = c.ys, NEW m, m = Len(xs), NEW n, n = Len(ys)
    PROVE  /\ Heads /\ Working /\ Domains(dom) /\ Proper(Call, dom) /\ Call.c = k
           /\ m \in Nat /\ DOMAIN xs = 1 .. m /\ n \in Nat /\ DOMAIN ys = 1 .. n
           /\ \A i \in 1 .. m : xs[i] \in Columns(dom)
           /\ \A i \in 1 .. n : ys[i] \in Columns(dom)
<1>1. Working /\ Call.c = k /\ Proper(Call, dom) /\ Domains(dom)
    BY WorkingIs
<1>2. Heads
    BY <1>1 DEF Heads, Flat
<1>3. xs \in Seq(Columns(dom)) /\ ys \in Seq(Columns(dom))
    BY <1>1, GlobalParts
<1> QED BY <1>1, <1>2, <1>3

LEMMA InverseRenamed ==
    ASSUME NEW c, NEW d, Proper(c, d), c.c = "inverse", NEW k, k = [c EXCEPT !.c = "inverse_in_range"]
    PROVE  Proper(k, d) /\ k.c = "inverse_in_range" /\ k.xs = c.xs /\ k.ys = c.ys
<1>1. c.xs \in Seq(Columns(d)) /\ c.ys \in Seq(Columns(d)) /\ DOMAIN c = {"c", "xs", "ys"}
    BY GlobalParts
<1>2. c \in [c: {"lex_less", "lex_lesseq", "inverse", "inverse_in_range"}, xs: Seq(Columns(d)), ys: Seq(Columns(d))]
    BY Zenon DEF Proper, Comparison, Membership, Operation, LookupCall, GlobalCall, Encoding
<1>3. k \in [c: {"lex_less", "lex_lesseq", "inverse", "inverse_in_range"}, xs: Seq(Columns(d)), ys: Seq(Columns(d))]
    BY <1>2
<1>4. k.c = "inverse_in_range" /\ k.xs = c.xs /\ k.ys = c.ys
    BY <1>2
<1> QED BY <1>3, <1>4 DEF Proper, GlobalCall

\* fzn_int_inverse narrows both lists to each other's positions first;
LEMMA InverseReplaced ==
    ASSUME Formed, IntInverse
    PROVE  Replaced
<1>1. PICK c, xs, ys, m, n : c = Call /\ xs = c.xs /\ ys = c.ys /\ m = Len(xs) /\ n = Len(ys)
    OBVIOUS
<1>2. Doing("inverse")
    BY DEF IntInverse
<1>3. /\ Heads /\ Working /\ Domains(dom) /\ Proper(Call, dom) /\ Call.c = "inverse"
      /\ m \in Nat /\ DOMAIN xs = 1 .. m /\ n \in Nat /\ DOMAIN ys = 1 .. n
      /\ \A i \in 1 .. m : xs[i] \in Columns(dom)
      /\ \A i \in 1 .. n : ys[i] \in Columns(dom)
    BY <1>1, <1>2, InverseHead
<1>4. PICK P, Q, r, calls : /\ P = [i \in 1 .. m |-> Within(xs[i], 1 .. n)]
                            /\ Q = [j \in 1 .. n |-> Within(ys[j], 1 .. m)]
                            /\ r = [c EXCEPT !.c = "inverse_in_range"]
                            /\ calls = (P \o Q) \o <<r>>
    OBVIOUS
<1>5. Into(calls)
    <2>1. Into([i \in DOMAIN xs |-> Within(xs[i], DOMAIN ys)]
               \o [j \in DOMAIN ys |-> Within(ys[j], DOMAIN xs)] \o <<[c EXCEPT !.c = "inverse_in_range"]>>)
        BY <1>1 DEF IntInverse
    <2> QED BY <1>3, <1>4, <2>1
<1>6. Proper(r, dom) /\ r.c = "inverse_in_range" /\ r.xs = xs /\ r.ys = ys
    BY <1>1, <1>3, <1>4, InverseRenamed
<1>7. Finite(1 .. m) /\ Finite(1 .. n)
    <2>1. 1 \in Int /\ m \in Int /\ n \in Int
        BY <1>3
    <2> QED BY <2>1, IntervalFinite
<1>8. \A i \in 1 .. m : Plain(P[i], dom) /\ \A s : Holds(P[i], s) <=> s[xs[i]] \in 1 .. n
    <2>1. ASSUME NEW i \in 1 .. m
          PROVE  Plain(P[i], dom) /\ \A s : Holds(P[i], s) <=> s[xs[i]] \in 1 .. n
        <3>1. P[i] = Within(xs[i], 1 .. n) /\ xs[i] \in Columns(dom)
            BY <1>3, <1>4
        <3>2. Plain(P[i], dom)
            BY <1>7, <3>1, MadeWithin DEF Plain
        <3>3. ASSUME NEW s PROVE Holds(P[i], s) <=> s[xs[i]] \in 1 .. n
            <4>1. PICK D, x : D = 1 .. n /\ x = xs[i]
                OBVIOUS
            <4>2. Holds(Within(x, D), s) <=> s[x] \in D
                BY WithinHolds
            <4> QED BY <3>1, <4>1, <4>2
        <3> QED BY <3>2, <3>3
    <2> QED BY <2>1
<1>9. \A j \in 1 .. n : Plain(Q[j], dom) /\ \A s : Holds(Q[j], s) <=> s[ys[j]] \in 1 .. m
    <2>1. ASSUME NEW j \in 1 .. n
          PROVE  Plain(Q[j], dom) /\ \A s : Holds(Q[j], s) <=> s[ys[j]] \in 1 .. m
        <3>1. Q[j] = Within(ys[j], 1 .. m) /\ ys[j] \in Columns(dom)
            BY <1>3, <1>4
        <3>2. Plain(Q[j], dom)
            BY <1>7, <3>1, MadeWithin DEF Plain
        <3>3. ASSUME NEW s PROVE Holds(Q[j], s) <=> s[ys[j]] \in 1 .. m
            <4>1. PICK D, x : D = 1 .. m /\ x = ys[j]
                OBVIOUS
            <4>2. Holds(Within(x, D), s) <=> s[x] \in D
                BY WithinHolds
            <4> QED BY <3>1, <4>1, <4>2
        <3> QED BY <3>2, <3>3
    <2> QED BY <2>1
<1>10. PICK S, T : S = {P[i] : i \in 1 .. m} /\ T = {Q[j] : j \in 1 .. n}
    OBVIOUS
<1>11. Listed(calls, (S \cup T) \cup {r})
    <2>1. P = [i \in 1 .. m |-> P[i]] /\ Q = [j \in 1 .. n |-> Q[j]]
        BY <1>4
    <2>2. Listed(P, S)
        BY <1>3, <1>10, <2>1, ListedMade
    <2>3. Listed(Q, T)
        BY <1>3, <1>10, <2>1, ListedMade
    <2>4. Listed(<<r>>, {r})
        BY ListedShort
    <2>5. Listed(P \o Q, S \cup T)
        BY <2>2, <2>3, ListedJoin
    <2> QED BY <1>4, <2>4, <2>5, ListedJoin
<1>12. calls \in Seq(Range(calls)) /\ \A k \in Range(calls) : Plain(k, dom)
    <2>1. Plain(r, dom)
        BY <1>6 DEF Plain
    <2> QED BY <1>8, <1>9, <1>10, <1>11, <2>1 DEF Listed
<1>13. ASSUME NEW s, At1(s) PROVE Holds(Call, s) <=> Meets(s, Range(calls))
    <2>1. Holds(c, s) <=> /\ \A i \in DOMAIN c.xs : s[c.xs[i]] \in DOMAIN c.ys
                          /\ \A j \in DOMAIN c.ys : s[c.ys[j]] \in DOMAIN c.xs
                          /\ Inverses(c.xs, c.ys, s)
        BY <1>1, <1>3, HoldsGlobal
    <2>2. Holds(r, s) <=> Inverses(xs, ys, s)
        BY <1>6, HoldsGlobal
    <2>3. Meets(s, Range(calls)) <=>
             /\ \A i \in 1 .. m : Holds(P[i], s)
             /\ \A j \in 1 .. n : Holds(Q[j], s)
             /\ Holds(r, s)
        BY <1>10, <1>11 DEF Listed, Meets
    <2> QED BY <1>1, <1>3, <1>8, <1>9, <2>1, <2>2, <2>3
<1>14. Agrees(calls)
    BY <1>13 DEF Agrees
<1> QED BY <1>3, <1>5, <1>12, <1>14, IntoPlain

\* A row of the square: that the one column has the value where the other has.
SquareRow(q, x, v, y, w) ==
    Plain(q, dom) /\ \A s : Fits(s, dom) /\ EncodedAt(s) => (Holds(q, s) <=> (s[x] = v <=> s[y] = w))

LEMMA SquareRowIs ==
    ASSUME Working, NEW x, x \in DOMAIN select, NEW v, v \in Int, NEW y, y \in DOMAIN select, NEW w, w \in Int,
           NEW q, q = Eq(<<1, -1>>, <<mip_select_at(x, v), mip_select_at(y, w)>>, 0)
    PROVE  SquareRow(q, x, v, y, w)
<1>1. PICK a, b : a = mip_select_at(x, v) /\ b = mip_select_at(y, w)
    OBVIOUS
<1>2. /\ a \in Columns(dom)
      /\ \A s : Fits(s, dom) /\ EncodedAt(s) => s[a] \in {0, 1} /\ (s[a] = 1 <=> s[x] = v)
    BY <1>1, SelectedIs
<1>3. /\ b \in Columns(dom)
      /\ \A s : Fits(s, dom) /\ EncodedAt(s) => s[b] \in {0, 1} /\ (s[b] = 1 <=> s[y] = w)
    BY <1>1, SelectedIs
<1>4. Domains(dom)
    BY DEF Working, Typed
<1>5. Plain(q, dom)
    BY <1>1, <1>2, <1>3, <1>4, UnitsAre, MadeEq DEF Plain
<1>6. ASSUME NEW s, Fits(s, dom), EncodedAt(s) PROVE Holds(q, s) <=> (s[x] = v <=> s[y] = w)
    <2>1. SumOf(<<1, -1>>, <<a, b>>, s) = s[a] - s[b]
        BY <1>2, <1>3, <1>4, <1>6, UnitsAre
    <2>2. Holds(q, s) <=> s[a] - s[b] = 0
        BY <1>1, <2>1, EqHolds
    <2> QED BY <1>2, <1>3, <1>6, <2>2
<1> QED BY <1>5, <1>6 DEF SquareRow

\* then it is one indicator equal to another.
LEMMA InRangeReplaced ==
    ASSUME Formed, IntInverseInRange
    PROVE  Replaced
<1>1. PICK c, xs, ys, m, n, U : /\ c = Call /\ xs = c.xs /\ ys = c.ys /\ m = Len(xs) /\ n = Len(ys)
                                /\ U = {xs[i] : i \in DOMAIN xs} \cup {ys[j] : j \in DOMAIN ys}
    OBVIOUS
<1>2. Doing("inverse_in_range")
    BY DEF IntInverseInRange
<1>3. /\ Heads /\ Working /\ Domains(dom) /\ Proper(Call, dom) /\ Call.c = "inverse_in_range"
      /\ m \in Nat /\ DOMAIN xs = 1 .. m /\ n \in Nat /\ DOMAIN ys = 1 .. n
      /\ \A i \in 1 .. m : xs[i] \in Columns(dom)
      /\ \A i \in 1 .. n : ys[i] \in Columns(dom)
    BY <1>1, <1>2, InverseHead
<1>4. PICK calls : calls = [k \in 1 .. m * n |->
              Eq(<<1, -1>>, <<mip_select_at(xs[((k - 1) \div n) + 1], ((k - 1) % n) + 1),
                              mip_select_at(ys[((k - 1) % n) + 1], ((k - 1) \div n) + 1)>>, 0)]
    OBVIOUS
<1>5. SelectOneOf(U) \/ (U \subseteq DOMAIN select /\ Into(calls))
    BY <1>1, <1>4 DEF IntInverseInRange
<1>6. CASE SelectOneOf(U)
    <2>1. U \subseteq Columns(dom)
        BY <1>1, <1>3
    <2> QED BY <1>3, <1>6, <2>1, SelectOneReplaced
<1>7. CASE U \subseteq DOMAIN select /\ Into(calls)
    <2>1. m * n \in Nat
        BY <1>3
    <2>2. calls \in Seq(Range(calls)) /\ Range(calls) = {calls[k] : k \in 1 .. m * n}
        <3>1. calls = [k \in 1 .. m * n |-> calls[k]]
            BY <1>4
        <3>2. PICK p : p = m * n
            OBVIOUS
        <3> QED BY <2>1, <3>1, <3>2, MadeList
    <2>3. ASSUME NEW k \in 1 .. m * n
          PROVE  \E i \in 1 .. m, j \in 1 .. n : SquareRow(calls[k], xs[i], j, ys[j], i)
        <3>1. n > 0
            <4>1. n = 0 => m * n = 0
                BY <1>3
            <4> QED BY <1>3, <2>1, <4>1
        <3>2. PICK i, j : i = ((k - 1) \div n) + 1 /\ j = ((k - 1) % n) + 1
            OBVIOUS
        <3>3. i \in Int /\ j \in 1 .. n /\ k - 1 = (i - 1) * n + (j - 1)
            <4>1. k - 1 \in Int /\ n \in Int
                BY <1>3, <2>1
            <4>2. (k - 1) \div n \in Int /\ (k - 1) % n \in 0 .. n - 1 /\ k - 1 = ((k - 1) \div n) * n + ((k - 1) % n)
                BY <3>1, <4>1, QuotientIs
            <4>3. (i - 1) = (k - 1) \div n /\ (j - 1) = (k - 1) % n
                BY <3>2, <4>2
            <4> QED BY <3>2, <4>2, <4>3, <1>3
        <3>4. i >= 1
            <4>1. ASSUME i <= 0 PROVE FALSE
                <5>1. (i - 1) * n <= (-1) * n
                    BY <1>3, <3>1, <3>3, <4>1, TimesGrows
                <5>2. (-1) * n = -n
                    BY <1>3
                <5> QED BY <1>3, <2>1, <3>3, <5>1, <5>2
            <4> QED BY <3>3, <4>1
        <3>5. i <= m
            <4>1. ASSUME i > m PROVE FALSE
                <5>1. m * n <= (i - 1) * n
                    BY <1>3, <3>1, <3>3, <4>1, TimesGrows
                <5> QED BY <1>3, <2>1, <3>3, <5>1
            <4> QED BY <1>3, <3>3, <4>1
        <3>6. PICK x, y : x = xs[i] /\ y = ys[j]
            OBVIOUS
        <3>7. x \in DOMAIN select /\ y \in DOMAIN select /\ i \in 1 .. m
            BY <1>1, <1>3, <1>7, <3>3, <3>4, <3>5, <3>6
        <3>8. calls[k] = Eq(<<1, -1>>, <<mip_select_at(x, j), mip_select_at(y, i)>>, 0)
            BY <1>4, <3>2, <3>6
        <3>9. SquareRow(calls[k], x, j, y, i)
            BY <1>3, <3>3, <3>7, <3>8, SquareRowIs
        <3> QED BY <3>3, <3>6, <3>7, <3>9
    <2>4. ASSUME NEW i \in 1 .. m, NEW j \in 1 .. n
          PROVE  \E k \in 1 .. m * n : SquareRow(calls[k], xs[i], j, ys[j], i)
        <3>1. PICK k : k = (i - 1) * n + (j - 1) + 1
            OBVIOUS
        <3>2. (i - 1) * n \in Int /\ (i - 1) * n >= 0 /\ (i - 1) * n <= m * n - n
            <4>1. (m - 1) * n = m * n - n /\ m - 1 \in Int
                BY <1>3
            <4>2. 0 * n <= (i - 1) * n /\ (i - 1) * n <= (m - 1) * n
                <5>1. 0 * n <= (i - 1) * n
                    BY <1>3, TimesGrows
                <5>2. (i - 1) * n <= (m - 1) * n
                    BY <1>3, TimesGrows
                <5> QED BY <5>1, <5>2
            <4> QED BY <1>3, <4>1, <4>2
        <3>3. k \in 1 .. m * n
            BY <1>3, <2>1, <3>1, <3>2
        <3>4. (k - 1) \div n = i - 1 /\ (k - 1) % n = j - 1
            <4>1. k - 1 \in Int /\ n \in Int /\ n > 0 /\ i - 1 \in Int /\ j - 1 \in 0 .. n - 1
                BY <1>3, <2>1, <3>3
            <4>2. k - 1 = (i - 1) * n + (j - 1)
                BY <1>3, <3>1, <3>2
            <4> QED BY <4>1, <4>2, QuotientOnly
        <3>5. PICK x, y : x = xs[i] /\ y = ys[j]
            OBVIOUS
        <3>6. x \in DOMAIN select /\ y \in DOMAIN select
            BY <1>1, <1>3, <1>7, <3>5
        <3>7. ((k - 1) \div n) + 1 = i /\ ((k - 1) % n) + 1 = j
            BY <3>4
        <3>8. calls[k] = Eq(<<1, -1>>, <<mip_select_at(x, j), mip_select_at(y, i)>>, 0)
            BY <1>4, <3>3, <3>5, <3>7
        <3>9. SquareRow(calls[k], x, j, y, i)
            BY <1>3, <3>6, <3>8, SquareRowIs
        <3> QED BY <3>3, <3>5, <3>9
    <2>5. \A k \in Range(calls) : Plain(k, dom)
        BY <2>2, <2>3 DEF SquareRow
    <2>6. ASSUME NEW s, At1(s) PROVE Holds(Call, s) <=> Meets(s, Range(calls))
        <3>1. Fits(s, dom) /\ EncodedAt(s)
            BY <2>6 DEF At1
        <3>2. Holds(Call, s) <=> \A i \in 1 .. m, j \in 1 .. n : s[xs[i]] = j <=> s[ys[j]] = i
            <4>1. Holds(c, s) <=> Inverses(c.xs, c.ys, s)
                BY <1>1, <1>3, HoldsGlobal
            <4> QED BY <1>1, <1>3, <4>1 DEF Inverses
        <3>3. Meets(s, Range(calls)) <=> \A k \in 1 .. m * n : Holds(calls[k], s)
            BY <2>2 DEF Meets
        <3>4. ASSUME \A k \in 1 .. m * n : Holds(calls[k], s), NEW i \in 1 .. m, NEW j \in 1 .. n
              PROVE  s[xs[i]] = j <=> s[ys[j]] = i
            BY <2>4, <3>1, <3>4 DEF SquareRow
        <3>5. ASSUME \A i \in 1 .. m, j \in 1 .. n : s[xs[i]] = j <=> s[ys[j]] = i, NEW k \in 1 .. m * n
              PROVE  Holds(calls[k], s)
            BY <2>3, <3>1, <3>5 DEF SquareRow
        <3> QED BY <3>2, <3>3, <3>4, <3>5
    <2>7. Agrees(calls)
        BY <2>6 DEF Agrees
    <2> QED BY <1>3, <1>7, <2>2, <2>5, <2>7, IntoPlain
<1> QED BY <1>5, <1>6, <1>7

\* What a lexicographic comparison asks of the places both lists have.
LexIs(xs, ys, z, tail, s) ==
    \/ \E i \in 1 .. z : s[xs[i]] < s[ys[i]] /\ \A j \in 1 .. i - 1 : s[xs[j]] = s[ys[j]]
    \/ tail /\ \A i \in 1 .. z : s[xs[i]] = s[ys[i]]

Smaller(z, m, n) == z = Min({m, n})

LEMMA SmallerIs ==
    ASSUME NEW m, m \in Nat, NEW n, n \in Nat, NEW z, Smaller(z, m, n)
    PROVE  z \in Nat /\ z <= m /\ z <= n /\ z \in {m, n}
<1>1. PICK S : S = {m, n}
    OBVIOUS
<1>2. Finite(S) /\ S # {}
    <2>1. m \in Int /\ n \in Int
        OBVIOUS
    <2>2. Finite({m, n})
        BY <2>1, FinitePair
    <2> QED BY <1>1, <2>2
<1>3. Min(S) \in S /\ \A w \in S : Min(S) <= w
    BY <1>2, EndsAre
<1> QED BY <1>1, <1>3 DEF Smaller

LEMMA LexHead ==
    ASSUME Formed, NEW k, k \in {"lex_less", "lex_lesseq"}, Doing(k), NEW c, c = Call,
           NEW xs, xs = c.xs, NEW ys, ys = c.ys, NEW m, m = Len(xs), NEW n, n = Len(ys),
           NEW z, Smaller(z, m, n), NEW tail, tail \in BOOLEAN,
           tail <=> m < n \/ (m = n /\ k # "lex_less")
    PROVE  /\ Heads /\ Working /\ Domains(dom) /\ Proper(Call, dom) /\ Call.c = k
           /\ m \in Nat /\ n \in Nat /\ z \in Nat
           /\ \A i \in 1 .. z : xs[i] \in Columns(dom) /\ ys[i] \in Columns(dom)
           /\ mip_lex_strict(m, n, k = "lex_less") <=> ~tail
           /\ z = 0 => (mip_lex_empty(m, n, k = "lex_less") <=> tail)
           /\ \A s : Holds(Call, s) <=> LexIs(xs, ys, z, tail, s)
<1>1. Working /\ Call.c = k /\ Proper(Call, dom) /\ Domains(dom)
    BY WorkingIs
<1>2. Heads
    BY <1>1 DEF Heads, Flat
<1>3. xs \in Seq(Columns(dom)) /\ ys \in Seq(Columns(dom))
    BY <1>1, GlobalParts
<1>4. m \in Nat /\ n \in Nat /\ DOMAIN xs = 1 .. m /\ DOMAIN ys = 1 .. n
    BY <1>3
<1>5. z \in Nat /\ z <= m /\ z <= n /\ z \in {m, n}
    BY <1>4, SmallerIs
<1>6. \A i \in 1 .. z : xs[i] \in Columns(dom) /\ ys[i] \in Columns(dom)
    BY <1>3, <1>4, <1>5
<1>7. mip_lex_strict(m, n, k = "lex_less") <=> ~tail
    BY <1>4 DEF mip_lex_strict
<1>8. z = 0 => (mip_lex_empty(m, n, k = "lex_less") <=> tail)
    BY <1>4, <1>5 DEF mip_lex_empty
<1>9. ASSUME NEW s PROVE Holds(Call, s) <=> LexIs(xs, ys, z, tail, s)
    <2>1. Holds(c, s) <=> LexBefore(xs, ys, k = "lex_less", s)
        <3>1. CASE k = "lex_less"
            <4>1. Holds(c, s) <=> LexBefore(c.xs, c.ys, TRUE, s)
                BY <1>1, <3>1, HoldsGlobal
            <4> QED BY <3>1, <4>1
        <3>2. CASE k = "lex_lesseq"
            <4>1. Holds(c, s) <=> LexBefore(c.xs, c.ys, FALSE, s)
                BY <1>1, <3>2, HoldsGlobal
            <4>2. (k = "lex_less") = FALSE
                BY <3>2
            <4> QED BY <4>1, <4>2
        <3> QED BY <3>1, <3>2
    <2>2. DOMAIN xs \cap DOMAIN ys = 1 .. z
        BY <1>4, <1>5
    <2>3. LexBefore(xs, ys, k = "lex_less", s) <=> LexIs(xs, ys, z, tail, s)
        BY <1>4, <2>2 DEF LexBefore, LexIs
    <2> QED BY <2>1, <2>3
<1> QED BY <1>1, <1>2, <1>4, <1>5, <1>6, <1>7, <1>8, <1>9

\* The lists agree up to a place, and differ there; n + 1 where they agree at all.
Track(d, n, t, p) ==
    \A i \in 1 .. n : /\ t[Len(d) + i] = IF i < p THEN 1 ELSE 0
                      /\ t[Len(d) + n + i] = IF i = p THEN 1 ELSE 0
Linked(a, l, n) == a[1] + l[1] = 1 /\ \A i \in 1 .. n - 1 : a[i] - a[i + 1] - l[i + 1] = 0
Turns(a, l, n, p) == \A i \in 1 .. n : a[i] = (IF i < p THEN 1 ELSE 0) /\ l[i] = (IF i = p THEN 1 ELSE 0)

LEMMA LinkedTurn ==
    ASSUME NEW n, n \in Nat, n > 0, NEW a, NEW l, \A i \in 1 .. n : a[i] \in {0, 1} /\ l[i] \in {0, 1}
    PROVE  Linked(a, l, n) <=> \E p \in 1 .. n + 1 : Turns(a, l, n, p)
<1>1. ASSUME NEW p \in 1 .. n + 1, Turns(a, l, n, p) PROVE Linked(a, l, n)
    <2>1. a[1] + l[1] = 1
        <3>1. a[1] = (IF 1 < p THEN 1 ELSE 0) /\ l[1] = (IF 1 = p THEN 1 ELSE 0)
            BY <1>1 DEF Turns
        <3> QED BY <3>1
    <2>2. ASSUME NEW i \in 1 .. n - 1 PROVE a[i] - a[i + 1] - l[i + 1] = 0
        <3>1. i \in 1 .. n /\ i + 1 \in 1 .. n
            OBVIOUS
        <3>2. a[i] = (IF i < p THEN 1 ELSE 0) /\ a[i + 1] = (IF i + 1 < p THEN 1 ELSE 0)
              /\ l[i + 1] = (IF i + 1 = p THEN 1 ELSE 0)
            BY <1>1, <3>1 DEF Turns
        <3> QED BY <3>2
    <2> QED BY <2>1, <2>2 DEF Linked
<1>2. ASSUME Linked(a, l, n) PROVE \E p \in 1 .. n + 1 : Turns(a, l, n, p)
    <2>1. PICK p \in 1 .. n + 1 : /\ p # n + 1 => a[p] = 0
                                  /\ \A i \in 1 .. n : i < p => a[i] = 1
        <3>1. CASE \A i \in 1 .. n : a[i] = 1
            <4>1. n + 1 \in 1 .. n + 1
                OBVIOUS
            <4> QED BY <3>1, <4>1
        <3>2. CASE \E i \in 1 .. n : a[i] = 0
            <4>1. PICK T : T = {i \in 1 .. n : a[i] = 0}
                OBVIOUS
            <4>2. T \subseteq Nat /\ T # {}
                BY <3>2, <4>1
            <4>3. PICK p \in T : \A y \in T : p <= y
                BY <4>2, NatMinimum
            <4>4. p \in 1 .. n + 1 /\ a[p] = 0 /\ \A i \in 1 .. n : i < p => a[i] = 1
                BY <4>1, <4>3
            <4> QED BY <4>4
        <3> QED BY <3>1, <3>2
    <2>2. ASSUME NEW i \in 1 .. n, i < p PROVE a[i] = 1 /\ l[i] = 0
        <3>1. a[i] = 1
            BY <2>1, <2>2
        <3>2. CASE i = 1
            BY <1>2, <3>1, <3>2 DEF Linked
        <3>3. CASE i # 1
            <4>1. i - 1 \in 1 .. n - 1 /\ i - 1 \in 1 .. n /\ (i - 1) + 1 = i
                BY <3>3
            <4>2. a[i - 1] = 1
                BY <2>1, <2>2, <4>1
            <4>3. a[i - 1] - a[i] - l[i] = 0
                BY <1>2, <4>1 DEF Linked
            <4> QED BY <3>1, <4>2, <4>3
        <3> QED BY <3>2, <3>3
    <2>3. ASSUME p \in 1 .. n PROVE a[p] = 0 /\ l[p] = 1
        <3>1. a[p] = 0
            BY <2>1, <2>3
        <3>2. CASE p = 1
            BY <1>2, <3>1, <3>2 DEF Linked
        <3>3. CASE p # 1
            <4>1. p - 1 \in 1 .. n - 1 /\ p - 1 \in 1 .. n /\ (p - 1) + 1 = p
                BY <2>3, <3>3
            <4>2. a[p - 1] = 1
                BY <2>1, <4>1
            <4>3. a[p - 1] - a[p] - l[p] = 0
                BY <1>2, <4>1 DEF Linked
            <4> QED BY <2>3, <3>1, <4>2, <4>3
        <3> QED BY <3>2, <3>3
    <2>4. ASSUME NEW i \in 1 .. n, i > p PROVE a[i] = 0 /\ l[i] = 0
        <3>1. PICK S : S = {k \in 0 .. n - p : a[p + k] = 0}
            OBVIOUS
        <3>2. p \in 1 .. n /\ n - p \in Nat
            BY <2>4
        <3>3. 0 \in S
            <4>1. p + 0 = p /\ a[p] = 0
                BY <2>3, <3>2
            <4> QED BY <3>1, <3>2, <4>1
        <3>4. ASSUME NEW k \in 0 .. (n - p) - 1, a[p + k] = 0
              PROVE  a[p + (k + 1)] = 0 /\ l[p + (k + 1)] = 0
            <4>1. p + k \in 1 .. n - 1 /\ (p + k) + 1 = p + (k + 1) /\ p + (k + 1) \in 1 .. n
                BY <3>2
            <4>2. a[p + k] - a[p + (k + 1)] - l[p + (k + 1)] = 0
                <5>1. a[p + k] - a[(p + k) + 1] - l[(p + k) + 1] = 0
                    BY <1>2, <4>1 DEF Linked
                <5> QED BY <4>1, <5>1
            <4> QED BY <3>4, <4>1, <4>2
        <3>5. \A k \in 0 .. (n - p) - 1 : k \in S => k + 1 \in S
            BY <3>1, <3>2, <3>4
        <3>6. \A k \in 0 .. n - p : k \in S
            BY <3>2, <3>3, <3>5, RangeInduction, Zenon
        <3>7. (i - p) - 1 \in 0 .. (n - p) - 1 /\ (i - p) - 1 \in 0 .. n - p /\ p + (((i - p) - 1) + 1) = i
            BY <2>4, <3>2
        <3>8. a[p + ((i - p) - 1)] = 0
            BY <3>1, <3>6, <3>7
        <3> QED BY <3>4, <3>7, <3>8
    <2>5. ASSUME NEW i \in 1 .. n
          PROVE  a[i] = (IF i < p THEN 1 ELSE 0) /\ l[i] = (IF i = p THEN 1 ELSE 0)
        <3>1. i < p \/ i = p \/ i > p
            OBVIOUS
        <3> QED BY <2>2, <2>3, <2>4, <3>1
    <2> QED BY <2>5 DEF Turns
<1> QED BY <1>1, <1>2

LEMMA MinusTripleIs ==
    ASSUME NEW d, Domains(d), NEW x, x \in Columns(d), NEW y, y \in Columns(d), NEW z, z \in Columns(d)
    PROVE  /\ \A k \in Int : Row(<<1, -1, -1>>, <<x, y, z>>, k, d)
           /\ \A s : Fits(s, d) =>
                /\ s[x] \in Int /\ s[y] \in Int /\ s[z] \in Int
                /\ SumOf(<<1, -1, -1>>, <<x, y, z>>, s) = s[x] - s[y] - s[z]
<1>1. ASSUME NEW k \in Int PROVE Row(<<1, -1, -1>>, <<x, y, z>>, k, d)
    BY DEF Row
<1>2. ASSUME NEW s, Fits(s, d)
      PROVE  /\ s[x] \in Int /\ s[y] \in Int /\ s[z] \in Int
             /\ SumOf(<<1, -1, -1>>, <<x, y, z>>, s) = s[x] - s[y] - s[z]
    <2>1. s[x] \in Int /\ s[y] \in Int /\ s[z] \in Int /\ x \in Nat /\ y \in Nat /\ z \in Nat
        BY <1>2, FitsColumns
    <2>2. PICK u \in Int, v \in Int : u = 1 /\ v = -1
        OBVIOUS
    <2>3. SumOf(<<u, v, v>>, <<x, y, z>>, s) = u * s[x] + v * s[y] + v * s[z]
        BY <2>1, SumThree
    <2>4. u * s[x] = s[x] /\ v * s[y] = -s[y] /\ v * s[z] = -s[z]
        BY <2>1, <2>2
    <2> QED BY <2>1, <2>2, <2>3, <2>4
<1> QED BY <1>1, <1>2

\* The rows of a chain, and what they say together.
ChainList(B, d, n, strict, e) ==
    \E S : /\ Listed(B, S) /\ \A k \in S : Plain(k, e)
           /\ \A t : Fits(t, e) =>
                (Meets(t, S) <=> \E p \in 1 .. (IF strict THEN n ELSE n + 1) : Track(d, n, t, p))

LEMMA ChainIs ==
    ASSUME NEW d, Len(d) \in Nat, NEW e, Domains(e), NEW n, n \in Nat, n > 0, BitsFrom(d, e, n + n),
           NEW E, E = [i \in 1 .. n |-> Len(d) + i], NEW L, L = [i \in 1 .. n |-> Len(d) + n + i],
           NEW strict, strict \in BOOLEAN, NEW B, B = mip_lex_chain(E, L, n, strict)
    PROVE  ChainList(B, d, n, strict, e)
<1>1. \A i \in 1 .. n : E[i] \in Booleans(e) /\ L[i] \in Booleans(e) /\ E[i] \in Columns(e) /\ L[i] \in Columns(e)
    <2>1. ASSUME NEW i \in 1 .. n PROVE E[i] \in Booleans(e) /\ L[i] \in Booleans(e)
        <3>1. i \in 1 .. n + n /\ n + i \in 1 .. n + n /\ Len(d) + (n + i) = Len(d) + n + i
            OBVIOUS
        <3>2. Len(d) + i \in Booleans(e) /\ Len(d) + (n + i) \in Booleans(e)
            BY <3>1 DEF BitsFrom
        <3> QED BY <3>1, <3>2
    <2> QED BY <2>1 DEF Booleans
<1>2. PICK ones, h, F, l, S :
          /\ ones = [i \in 1 .. n |-> 1] /\ h = Eq(<<1, 1>>, <<E[1], L[1]>>, 1)
          /\ F = [i \in 1 .. n - 1 |-> Eq(<<1, -1, -1>>, <<E[i], E[i + 1], L[i + 1]>>, 0)]
          /\ l = (IF strict THEN Eq(ones, L, 1) ELSE Le(ones, L, 1))
          /\ S = {F[i] : i \in 1 .. n - 1}
    OBVIOUS
<1>3. B = (<<h>> \o F) \o <<l>>
    BY <1>2 DEF mip_lex_chain
<1>4. Listed(B, ({h} \cup S) \cup {l})
    <2>1. F = [i \in 1 .. n - 1 |-> F[i]] /\ n - 1 \in Nat
        BY <1>2
    <2>2. Listed(F, S)
        <3>1. PICK m : m = n - 1
            OBVIOUS
        <3>2. m \in Nat /\ F = [i \in 1 .. m |-> F[i]] /\ S = {F[i] : i \in 1 .. m}
            BY <1>2, <2>1, <3>1
        <3>3. Listed(F, {F[i] : i \in 1 .. m})
            BY <3>2, ListedMade
        <3> QED BY <3>2, <3>3
    <2>3. PICK H, K, T, U : H = <<h>> /\ K = <<l>> /\ T = {h} /\ U = {l}
        OBVIOUS
    <2>4. Listed(H, T) /\ Listed(K, U)
        BY <2>3, ListedShort
    <2>5. Listed(H \o F, T \cup S)
        BY <2>2, <2>4, ListedJoin
    <2>6. PICK P, V : P = H \o F /\ V = T \cup S
        OBVIOUS
    <2>7. Listed(P \o K, V \cup U)
        BY <2>4, <2>5, <2>6, ListedJoin
    <2>8. B = P \o K
        BY <1>3, <2>3, <2>6
    <2>9. V \cup U = ({h} \cup S) \cup {l}
        BY <2>3, <2>6
    <2> QED BY <2>7, <2>8, <2>9
<1>5. PICK g : g = [i \in 1 .. Len(d) + n |-> 0]
    OBVIOUS
<1>6. Len(g) = Len(d) + n /\ Len(g) \in Nat
    BY <1>5
<1>7. BitsFrom(g, e, n)
    <2>1. ASSUME NEW i \in 1 .. n
          PROVE  e[Len(g) + i] = 0 .. 1 /\ Len(g) + i \in Booleans(e) /\ Len(g) + i \in Nat
        <3>1. n + i \in 1 .. n + n /\ Len(d) + (n + i) = Len(g) + i
            BY <1>6
        <3> QED BY <3>1 DEF BitsFrom
    <2> QED BY <2>1 DEF BitsFrom
<1>8. L = [i \in 1 .. n |-> Len(g) + i]
    BY <1>6
<1>9. /\ \A k \in Int : Row(ones, L, k, e)
      /\ \A t : Fits(t, e) => HotSum(g, n, t, SumOf(ones, L, t))
    BY <1>2, <1>6, <1>7, <1>8, OneHotIs
<1>10. Plain(l, e)
    <2>1. PICK one \in Int : one = 1
        OBVIOUS
    <2>2. Row(ones, L, one, e)
        BY <1>9
    <2>3. Plain(Eq(ones, L, one), e)
        BY <2>2, MadeEq DEF Plain
    <2>4. Plain(Le(ones, L, one), e)
        BY <2>2, MadeLe DEF Plain
    <2> QED BY <1>2, <2>1, <2>3, <2>4
<1>11. Plain(h, e) /\ \A t : Fits(t, e) => (Holds(h, t) <=> t[E[1]] + t[L[1]] = 1)
    <2>1. PICK x, y, one : x = E[1] /\ y = L[1] /\ one = 1
        OBVIOUS
    <2>2. x \in Columns(e) /\ y \in Columns(e)
        BY <1>1, <2>1
    <2>3. h = Eq(<<1, 1>>, <<x, y>>, one)
        BY <1>2, <2>1
    <2>4. Plain(h, e)
        BY <2>1, <2>2, <2>3, UnitsAre, MadeEq DEF Plain
    <2>5. ASSUME NEW t, Fits(t, e) PROVE Holds(h, t) <=> t[x] + t[y] = 1
        <3>1. SumOf(<<1, 1>>, <<x, y>>, t) = t[x] + t[y]
            BY <2>2, <2>5, UnitsAre
        <3> QED BY <2>1, <2>3, <3>1, EqHolds
    <2> QED BY <2>1, <2>4, <2>5
<1>12. ASSUME NEW i \in 1 .. n - 1
       PROVE  Plain(F[i], e) /\ \A t : Fits(t, e) => (Holds(F[i], t) <=> t[E[i]] - t[E[i + 1]] - t[L[i + 1]] = 0)
    <2>1. PICK x, y, z, q : x = E[i] /\ y = E[i + 1] /\ z = L[i + 1] /\ q = F[i]
        OBVIOUS
    <2>2. x \in Columns(e) /\ y \in Columns(e) /\ z \in Columns(e)
        <3>1. i \in 1 .. n /\ i + 1 \in 1 .. n
            OBVIOUS
        <3> QED BY <1>1, <2>1, <3>1
    <2>3. q = Eq(<<1, -1, -1>>, <<x, y, z>>, 0)
        BY <1>2, <2>1
    <2>4. Plain(q, e)
        BY <2>2, <2>3, MinusTripleIs, MadeEq DEF Plain
    <2>5. ASSUME NEW t, Fits(t, e) PROVE Holds(q, t) <=> t[x] - t[y] - t[z] = 0
        <3>1. SumOf(<<1, -1, -1>>, <<x, y, z>>, t) = t[x] - t[y] - t[z]
            BY <2>2, <2>5, MinusTripleIs
        <3> QED BY <2>3, <3>1, EqHolds
    <2> QED BY <2>1, <2>4, <2>5
<1>13. ASSUME NEW t, Fits(t, e)
       PROVE  Meets(t, ({h} \cup S) \cup {l}) <=>
                \E p \in 1 .. (IF strict THEN n ELSE n + 1) : Track(d, n, t, p)
    <2>1. PICK a, b : a = [i \in 1 .. n |-> t[E[i]]] /\ b = [i \in 1 .. n |-> t[L[i]]]
        OBVIOUS
    <2>2. \A i \in 1 .. n : a[i] \in {0, 1} /\ b[i] \in {0, 1}
        BY <1>1, <1>13, <2>1, FitsColumns
    <2>3. Meets(t, ({h} \cup S) \cup {l}) <=>
             Holds(h, t) /\ (\A i \in 1 .. n - 1 : Holds(F[i], t)) /\ Holds(l, t)
        <3>1. Meets(t, S) <=> \A i \in 1 .. n - 1 : Holds(F[i], t)
            BY <1>2, Zenon DEF Meets
        <3>2. Meets(t, ({h} \cup S) \cup {l}) <=> Holds(h, t) /\ Meets(t, S) /\ Holds(l, t)
            BY Zenon DEF Meets
        <3> QED BY <3>1, <3>2
    <2>4. Holds(h, t) /\ (\A i \in 1 .. n - 1 : Holds(F[i], t)) <=> Linked(a, b, n)
        <3>1. a[1] = t[E[1]] /\ b[1] = t[L[1]]
            BY <2>1
        <3>2. \A i \in 1 .. n - 1 : a[i] = t[E[i]] /\ a[i + 1] = t[E[i + 1]] /\ b[i + 1] = t[L[i + 1]]
            BY <2>1
        <3>3. Holds(h, t) <=> a[1] + b[1] = 1
            BY <1>11, <1>13, <3>1
        <3>4. ASSUME NEW i \in 1 .. n - 1 PROVE Holds(F[i], t) <=> a[i] - a[i + 1] - b[i + 1] = 0
            <4>1. Holds(F[i], t) <=> t[E[i]] - t[E[i + 1]] - t[L[i + 1]] = 0
                BY <1>12, <1>13
            <4> QED BY <3>2, <4>1
        <3> QED BY <3>3, <3>4 DEF Linked
    <2>5. Linked(a, b, n) <=> \E p \in 1 .. n + 1 : Turns(a, b, n, p)
        BY <2>2, LinkedTurn
    <2>6. ASSUME NEW p PROVE Turns(a, b, n, p) <=> Track(d, n, t, p)
        <3>1. \A i \in 1 .. n : a[i] = t[Len(d) + i] /\ b[i] = t[Len(d) + n + i]
            BY <2>1
        <3> QED BY <3>1 DEF Turns, Track
    <2>7. ASSUME NEW p \in 1 .. n + 1, Track(d, n, t, p)
          PROVE  Holds(l, t) <=> p \in 1 .. (IF strict THEN n ELSE n + 1)
        <3>1. PICK sum : sum = SumOf(ones, L, t)
            OBVIOUS
        <3>2. HotSum(g, n, t, sum)
            BY <1>9, <1>13, <3>1
        <3>3. \A i \in 1 .. n : t[Len(g) + i] = IF i = p THEN 1 ELSE 0
            BY <1>6, <2>7 DEF Track
        <3>4. sum <= 1
            <4>1. ASSUME NEW i \in 1 .. n, NEW j \in 1 .. n, t[Len(g) + i] = 1, t[Len(g) + j] = 1
                  PROVE  i = j
                <5>1. t[Len(g) + i] = (IF i = p THEN 1 ELSE 0) /\ t[Len(g) + j] = (IF j = p THEN 1 ELSE 0)
                    BY <3>3
                <5> QED BY <4>1, <5>1
            <4>2. \A i, j \in 1 .. n : t[Len(g) + i] = 1 /\ t[Len(g) + j] = 1 => i = j
                BY <4>1
            <4> QED BY <3>2, <4>2 DEF HotSum
        <3>5. sum = 1 <=> p \in 1 .. n
            <4>1. sum = 1 <=> \E k \in 1 .. n : Hot(g, n, t, k)
                BY <3>2 DEF HotSum
            <4>2. ASSUME p \in 1 .. n PROVE Hot(g, n, t, p)
                BY <3>3 DEF Hot
            <4>3. ASSUME NEW k \in 1 .. n, Hot(g, n, t, k) PROVE p = k
                BY <3>3, <4>3 DEF Hot
            <4> QED BY <4>1, <4>2, <4>3
        <3>6. CASE strict
            <4>1. Holds(l, t) <=> sum = 1
                BY <1>2, <3>1, <3>6, EqHolds
            <4> QED BY <3>5, <3>6, <4>1
        <3>7. CASE ~strict
            <4>1. Holds(l, t) <=> sum <= 1
                BY <1>2, <3>1, <3>7, LeHolds
            <4> QED BY <3>4, <3>7, <4>1
        <3> QED BY <3>6, <3>7
    <2>8. 1 .. (IF strict THEN n ELSE n + 1) \subseteq 1 .. n + 1
        OBVIOUS
    <2> QED BY <2>3, <2>4, <2>5, <2>6, <2>7, <2>8
<1>14. \A k \in ({h} \cup S) \cup {l} : Plain(k, e)
    BY <1>2, <1>10, <1>11, <1>12
<1> QED BY <1>4, <1>13, <1>14, Zenon DEF ChainList

\* Two columns compared where a bit says so.
Compared(q, r, x, y, a, b, e) ==
    /\ Plain(q, e) /\ Plain(r, e)
    /\ \A t : Fits(t, e) =>
         /\ Holds(q, t) <=> (t[a] = 1 => t[x] = t[y])
         /\ Holds(r, t) <=> (t[b] = 1 => t[x] < t[y])

LEMMA ComparedIs ==
    ASSUME NEW e, Domains(e), NEW x, x \in Columns(e), NEW y, y \in Columns(e),
           NEW a, a \in Booleans(e), NEW b, b \in Booleans(e),
           NEW q, q = EqImp(<<1, -1>>, <<x, y>>, 0, a), NEW r, r = LeImp(<<1, -1>>, <<x, y>>, -1, b)
    PROVE  Compared(q, r, x, y, a, b, e)
<1>1. PICK less \in Int : less = -1
    OBVIOUS
<1>2. Row(<<1, -1>>, <<x, y>>, 0, e) /\ Row(<<1, -1>>, <<x, y>>, less, e)
    BY UnitsAre
<1>3. Plain(q, e)
    BY <1>2, MadeImps DEF Plain
<1>4. Plain(r, e)
    BY <1>1, <1>2, MadeImps DEF Plain
<1>5. ASSUME NEW t, Fits(t, e)
      PROVE  /\ Holds(q, t) <=> (t[a] = 1 => t[x] = t[y])
             /\ Holds(r, t) <=> (t[b] = 1 => t[x] < t[y])
    <2>1. t[x] \in Int /\ t[y] \in Int /\ SumOf(<<1, -1>>, <<x, y>>, t) = t[x] - t[y]
        BY <1>5, UnitsAre
    <2>2. Holds(q, t) <=> (t[a] = 1 => t[x] - t[y] = 0)
        BY <2>1, EqImpHolds
    <2>3. Holds(r, t) <=> (t[b] = 1 => t[x] - t[y] <= -1)
        BY <2>1, LeImpHolds
    <2> QED BY <2>1, <2>2, <2>3
<1> QED BY <1>3, <1>4, <1>5 DEF Compared

\* The lists agree before a place, and the first is the less at it; past the end
\* of both, they agree.
First_(xs, ys, z, s, p) ==
    /\ \A i \in 1 .. z : i < p => s[xs[i]] = s[ys[i]]
    /\ p <= z => s[xs[p]] < s[ys[p]]

LEMMA LexTurns ==
    ASSUME NEW xs, NEW ys, NEW z, z \in Nat, NEW tail, tail \in BOOLEAN, NEW s
    PROVE  LexIs(xs, ys, z, tail, s) <=>
             \E p \in 1 .. (IF ~tail THEN z ELSE z + 1) : First_(xs, ys, z, s, p)
<1>1. ASSUME NEW i \in 1 .. z, s[xs[i]] < s[ys[i]], \A j \in 1 .. i - 1 : s[xs[j]] = s[ys[j]]
      PROVE  i \in 1 .. (IF ~tail THEN z ELSE z + 1) /\ First_(xs, ys, z, s, i)
    BY <1>1 DEF First_
<1>2. ASSUME tail, \A i \in 1 .. z : s[xs[i]] = s[ys[i]]
      PROVE  z + 1 \in 1 .. (IF ~tail THEN z ELSE z + 1) /\ First_(xs, ys, z, s, z + 1)
    BY <1>2 DEF First_
<1>3. ASSUME NEW p \in 1 .. (IF ~tail THEN z ELSE z + 1), First_(xs, ys, z, s, p)
      PROVE  LexIs(xs, ys, z, tail, s)
    <2>1. CASE p <= z
        <3>1. p \in 1 .. z /\ s[xs[p]] < s[ys[p]] /\ \A j \in 1 .. p - 1 : s[xs[j]] = s[ys[j]]
            BY <1>3, <2>1 DEF First_
        <3> QED BY <3>1 DEF LexIs
    <2>2. CASE ~(p <= z)
        <3>1. tail /\ p = z + 1
            BY <1>3, <2>2
        <3>2. \A i \in 1 .. z : s[xs[i]] = s[ys[i]]
            BY <1>3, <3>1 DEF First_
        <3> QED BY <3>1, <3>2 DEF LexIs
    <2> QED BY <2>1, <2>2
<1> QED BY <1>1, <1>2, <1>3 DEF LexIs

\* Every place can be tracked.
LEMMA TrackFree ==
    ASSUME NEW d, NEW e, NEW n, n \in Nat, Extension(d, e, n + n), BitsFrom(d, e, n + n),
           NEW s, Fits(s, d), NEW p, p \in 1 .. n + 1
    PROVE  \E t : Fits(t, e) /\ Alike(s, t, 1 .. Len(d)) /\ Track(d, n, t, p)
<1>1. PICK f : f = [i \in 1 .. n + n |-> IF i <= n THEN IF i < p THEN 1 ELSE 0
                                         ELSE IF i - n = p THEN 1 ELSE 0]
    OBVIOUS
<1>2. Suits(f, d, e, n + n)
    <2>1. ASSUME NEW i \in 1 .. n + n PROVE f[i] \in e[Len(d) + i]
        <3>1. e[Len(d) + i] = 0 .. 1
            BY DEF BitsFrom
        <3>2. f[i] \in 0 .. 1
            BY <1>1
        <3> QED BY <3>1, <3>2
    <2> QED BY <2>1 DEF Suits
<1>3. PICK t : /\ Fits(t, e) /\ Alike(s, t, 1 .. Len(d))
               /\ \A i \in 1 .. n + n : t[Len(d) + i] = f[i]
    <2>1. PICK m : m = n + n
        OBVIOUS
    <2>2. \E t : /\ Fits(t, e) /\ Alike(s, t, 1 .. Len(d))
                 /\ \A i \in 1 .. m : t[Len(d) + i] = f[i]
        BY <1>2, <2>1, Extended
    <2> QED BY <2>1, <2>2
<1>4. Track(d, n, t, p)
    <2>1. ASSUME NEW i \in 1 .. n
          PROVE  /\ t[Len(d) + i] = IF i < p THEN 1 ELSE 0
                 /\ t[Len(d) + n + i] = IF i = p THEN 1 ELSE 0
        <3>1. i \in 1 .. n + n /\ n + i \in 1 .. n + n /\ Len(d) + (n + i) = Len(d) + n + i
            BY DEF Extension
        <3>2. t[Len(d) + i] = f[i] /\ t[Len(d) + (n + i)] = f[n + i]
            BY <1>3, <3>1
        <3>3. f[i] = (IF i < p THEN 1 ELSE 0) /\ f[n + i] = (IF i = p THEN 1 ELSE 0)
            BY <1>1, <3>1
        <3> QED BY <3>1, <3>2, <3>3
    <2> QED BY <2>1 DEF Track
<1> QED BY <1>3, <1>4

\* fzn_lex_less_int and _lesseq_int: a bit for the first place that differs.
LEMMA LexReplaced ==
    ASSUME Formed, mip_int_lex
    PROVE  Replaced
<1>1. PICK c, k, xs, ys, m, n, z, d, e :
          /\ c = Call /\ k = c.c /\ xs = c.xs /\ ys = c.ys /\ m = Len(xs) /\ n = Len(ys)
          /\ z = Min({m, n}) /\ d = dom /\ e = dom'
    OBVIOUS
<1>2. k \in {"lex_less", "lex_lesseq"} /\ Doing(k)
    BY <1>1 DEF mip_int_lex, Doing
<1>3. Smaller(z, m, n)
    BY <1>1 DEF Smaller
<1>4. m \in Nat /\ n \in Nat
    <2>1. Call.c = k /\ Proper(Call, dom)
        BY <1>2, WorkingIs
    <2>2. xs \in Seq(Columns(dom)) /\ ys \in Seq(Columns(dom))
        BY <1>1, <1>2, <2>1, GlobalParts
    <2> QED BY <1>1, <2>2
<1>5. PICK tail \in BOOLEAN : tail <=> m < n \/ (m = n /\ k # "lex_less")
    OBVIOUS
<1>6. /\ Heads /\ Working /\ Domains(d) /\ Proper(Call, d) /\ z \in Nat
      /\ \A i \in 1 .. z : xs[i] \in Columns(d) /\ ys[i] \in Columns(d)
      /\ mip_lex_strict(m, n, k = "lex_less") <=> ~tail
      /\ z = 0 => (mip_lex_empty(m, n, k = "lex_less") <=> tail)
      /\ \A s : Holds(Call, s) <=> LexIs(xs, ys, z, tail, s)
    <2>1. Heads /\ Working /\ Domains(dom) /\ Proper(Call, dom) /\ z \in Nat
        BY <1>1, <1>2, <1>3, <1>5, LexHead
    <2>2. \A i \in 1 .. z : xs[i] \in Columns(dom) /\ ys[i] \in Columns(dom)
        BY <1>1, <1>2, <1>3, <1>5, LexHead
    <2>3. mip_lex_strict(m, n, k = "lex_less") <=> ~tail
        BY <1>1, <1>2, <1>3, <1>5, LexHead
    <2>4. z = 0 => (mip_lex_empty(m, n, k = "lex_less") <=> tail)
        BY <1>1, <1>2, <1>3, <1>5, LexHead
    <2>5. \A s : Holds(Call, s) <=> LexIs(xs, ys, z, tail, s)
        BY <1>1, <1>2, <1>3, <1>5, LexHead
    <2> QED BY <1>1, <2>1, <2>2, <2>3, <2>4, <2>5
<1>7. \A s : At1(s) => Fits(s, d)
    BY <1>1 DEF At1
<1>8. PICK strict, E, L, B, P, Q, calls :
          /\ strict \in BOOLEAN /\ strict = mip_lex_strict(m, n, k = "lex_less")
          /\ E = [i \in 1 .. z |-> New + i] /\ L = [i \in 1 .. z |-> New + z + i]
          /\ B = mip_lex_chain(E, L, z, strict)
          /\ P = [i \in 1 .. z |-> EqImp(<<1, -1>>, <<xs[i], ys[i]>>, 0, E[i])]
          /\ Q = [i \in 1 .. z |-> LeImp(<<1, -1>>, <<xs[i], ys[i]>>, -1, L[i])]
          /\ calls = (B \o P) \o Q
    <2>1. mip_lex_strict(m, n, k = "lex_less") \in BOOLEAN
        <3>1. CASE k = "lex_less"
            BY <1>4, <3>1 DEF mip_lex_strict
        <3>2. CASE k # "lex_less"
            BY <1>4, <3>2 DEF mip_lex_strict
        <3> QED BY <3>1, <3>2
    <2> QED BY <2>1
<1>9. IF z = 0 THEN Into(IF mip_lex_empty(m, n, k = "lex_less") THEN <<>> ELSE <<Fail>>)
      ELSE IntoNew(2 * z, calls)
    <2>1. IF Min({Len(Call.xs), Len(Call.ys)}) = 0
          THEN Into(IF mip_lex_empty(Len(Call.xs), Len(Call.ys), Call.c = "lex_less") THEN <<>> ELSE <<Fail>>)
          ELSE IntoNew(2 * Min({Len(Call.xs), Len(Call.ys)}),
                  mip_lex_chain([i \in 1 .. Min({Len(Call.xs), Len(Call.ys)}) |-> New + i],
                                [i \in 1 .. Min({Len(Call.xs), Len(Call.ys)}) |->
                                    New + Min({Len(Call.xs), Len(Call.ys)}) + i],
                                Min({Len(Call.xs), Len(Call.ys)}),
                                mip_lex_strict(Len(Call.xs), Len(Call.ys), Call.c = "lex_less"))
                  \o [i \in 1 .. Min({Len(Call.xs), Len(Call.ys)}) |->
                        EqImp(<<1, -1>>, <<Call.xs[i], Call.ys[i]>>, 0,
                              [j \in 1 .. Min({Len(Call.xs), Len(Call.ys)}) |-> New + j][i])]
                  \o [i \in 1 .. Min({Len(Call.xs), Len(Call.ys)}) |->
                        LeImp(<<1, -1>>, <<Call.xs[i], Call.ys[i]>>, -1,
                              [j \in 1 .. Min({Len(Call.xs), Len(Call.ys)}) |->
                                  New + Min({Len(Call.xs), Len(Call.ys)}) + j][i])])
        BY Zenon DEF mip_int_lex
    <2> QED BY <1>1, <1>8, <2>1
<1>10. CASE z = 0
    <2>1. \A s : Holds(Call, s) <=> tail
        BY <1>6, <1>10 DEF LexIs
    <2>2. CASE tail
        <3>1. Into(<<>>)
            BY <1>6, <1>9, <1>10, <2>2
        <3> QED BY <1>6, <2>1, <2>2, <3>1, IntoNone
    <2>3. CASE ~tail
        <3>1. Into(<<Fail>>)
            BY <1>6, <1>9, <1>10, <2>3
        <3>2. Plain(Fail, dom)
            <4>1. 1 \in Columns(dom)
                BY <1>2, WorkingIs
            <4> QED BY <4>1, MadeFail DEF Plain
        <3> QED BY <1>6, <2>1, <2>3, <3>1, <3>2, FailHolds, IntoOne
    <2> QED BY <2>2, <2>3
<1>11. CASE z # 0
    <2>1. z > 0 /\ z + z \in Nat /\ 2 * z = z + z
        BY <1>6, <1>11
    <2>2. New = Len(d) /\ Len(d) \in Nat /\ e = d \o AllBits(z + z) /\ todo' = calls \o Tail(todo)
          /\ UNCHANGED <<model, out, shared>>
        <3>1. New = Len(d) /\ Len(d) \in Nat
            BY <1>1, <1>6, DomainsAre DEF New
        <3>2. IntoNew(z + z, calls)
            BY <1>9, <1>11, <2>1
        <3> QED BY <1>1, <3>1, <3>2 DEF IntoNew, AllBits
    <2>3. PICK w : w = z + z
        OBVIOUS
    <2>4. /\ Domains(e) /\ Longer(d, e) /\ Bigger(d, e)
          /\ Extension(d, e, w) /\ BitsFrom(d, e, w)
        BY <1>6, <2>1, <2>2, <2>3, NewBits
    <2>5. E = [i \in 1 .. z |-> Len(d) + i] /\ L = [i \in 1 .. z |-> Len(d) + z + i]
        BY <1>8, <2>2
    <2>6. \A i \in 1 .. z : E[i] \in Booleans(e) /\ L[i] \in Booleans(e)
        <3>1. ASSUME NEW i \in 1 .. z PROVE E[i] \in Booleans(e) /\ L[i] \in Booleans(e)
            <4>1. i \in 1 .. w /\ z + i \in 1 .. w /\ Len(d) + (z + i) = Len(d) + z + i
                BY <1>6, <2>2, <2>3
            <4>2. Len(d) + i \in Booleans(e) /\ Len(d) + (z + i) \in Booleans(e)
                BY <2>4, <4>1 DEF BitsFrom
            <4> QED BY <2>5, <4>1, <4>2
        <3> QED BY <3>1
    <2>7. ChainList(B, d, z, strict, e)
        <3>1. BitsFrom(d, e, z + z)
            BY <2>3, <2>4
        <3>2. z \in Nat /\ z > 0 /\ Len(d) \in Nat /\ Domains(e) /\ strict \in BOOLEAN
              /\ B = mip_lex_chain(E, L, z, strict)
            BY <1>6, <1>8, <2>1, <2>2, <2>4
        <3> QED BY <2>5, <3>1, <3>2, ChainIs, Zenon
    <2>8. PICK S : /\ Listed(B, S) /\ \A q \in S : Plain(q, e)
                   /\ \A t : Fits(t, e) =>
                        (Meets(t, S) <=> \E p \in 1 .. (IF strict THEN z ELSE z + 1) : Track(d, z, t, p))
        BY <2>7, Zenon DEF ChainList
    <2>9. ASSUME NEW i \in 1 .. z
          PROVE  Compared(P[i], Q[i], xs[i], ys[i], E[i], L[i], e)
        <3>1. PICK x, y, a, b, q, r : x = xs[i] /\ y = ys[i] /\ a = E[i] /\ b = L[i] /\ q = P[i] /\ r = Q[i]
            OBVIOUS
        <3>2. x \in Columns(e) /\ y \in Columns(e)
            BY <1>6, <2>4, <3>1, ColumnsGrow
        <3>3. a \in Booleans(e) /\ b \in Booleans(e)
            BY <2>6, <3>1
        <3>4. q = EqImp(<<1, -1>>, <<x, y>>, 0, a) /\ r = LeImp(<<1, -1>>, <<x, y>>, -1, b)
            BY <1>8, <3>1
        <3>5. Compared(q, r, x, y, a, b, e)
            BY <2>4, <3>2, <3>3, <3>4, ComparedIs
        <3> QED BY <3>1, <3>5
    <2>10. PICK T, U : T = {P[i] : i \in 1 .. z} /\ U = {Q[i] : i \in 1 .. z}
        OBVIOUS
    <2>11. Listed(calls, (S \cup T) \cup U)
        <3>1. P = [i \in 1 .. z |-> P[i]] /\ Q = [i \in 1 .. z |-> Q[i]]
            BY <1>8
        <3>2. Listed(P, T) /\ Listed(Q, U)
            BY <1>6, <2>10, <3>1, ListedMade
        <3>3. Listed(B \o P, S \cup T)
            BY <2>8, <3>2, ListedJoin
        <3>4. PICK BP, V : BP = B \o P /\ V = S \cup T
            OBVIOUS
        <3>5. Listed(BP \o Q, V \cup U)
            BY <3>2, <3>3, <3>4, ListedJoin
        <3> QED BY <1>8, <3>4, <3>5
    <2>12. calls \in Seq(Range(calls)) /\ \A q \in Range(calls) : Plain(q, e)
        BY <2>8, <2>9, <2>10, <2>11 DEF Listed, Compared
    <2>13. ASSUME NEW t, Fits(t, e)
           PROVE  Meets(t, Range(calls)) <=>
                    \E p \in 1 .. (IF strict THEN z ELSE z + 1) : Track(d, z, t, p) /\ First_(xs, ys, z, t, p)
        <3>1. Meets(t, Range(calls)) <=> Meets(t, S) /\ \A i \in 1 .. z : Holds(P[i], t) /\ Holds(Q[i], t)
            <4>1. Meets(t, T) <=> \A i \in 1 .. z : Holds(P[i], t)
                BY <2>10, Zenon DEF Meets
            <4>2. Meets(t, U) <=> \A i \in 1 .. z : Holds(Q[i], t)
                BY <2>10, Zenon DEF Meets
            <4>3. Meets(t, (S \cup T) \cup U) <=> Meets(t, S) /\ Meets(t, T) /\ Meets(t, U)
                BY Zenon DEF Meets
            <4> QED BY <2>11, <4>1, <4>2, <4>3, Zenon DEF Listed
        <3>2. ASSUME NEW p \in 1 .. z + 1, Track(d, z, t, p)
              PROVE  (\A i \in 1 .. z : Holds(P[i], t) /\ Holds(Q[i], t)) <=> First_(xs, ys, z, t, p)
            <4>1. ASSUME NEW i \in 1 .. z
                  PROVE  /\ Holds(P[i], t) <=> (i < p => t[xs[i]] = t[ys[i]])
                         /\ Holds(Q[i], t) <=> (i = p => t[xs[i]] < t[ys[i]])
                <5>1. /\ Holds(P[i], t) <=> (t[E[i]] = 1 => t[xs[i]] = t[ys[i]])
                      /\ Holds(Q[i], t) <=> (t[L[i]] = 1 => t[xs[i]] < t[ys[i]])
                    BY <2>9, <2>13 DEF Compared
                <5>2. t[E[i]] = (IF i < p THEN 1 ELSE 0) /\ t[L[i]] = (IF i = p THEN 1 ELSE 0)
                    BY <2>5, <3>2 DEF Track
                <5> QED BY <5>1, <5>2
            <4>2. (\A i \in 1 .. z : Holds(P[i], t) /\ Holds(Q[i], t)) <=>
                    /\ \A i \in 1 .. z : i < p => t[xs[i]] = t[ys[i]]
                    /\ \A i \in 1 .. z : i = p => t[xs[i]] < t[ys[i]]
                BY <4>1
            <4>3. (\A i \in 1 .. z : i = p => t[xs[i]] < t[ys[i]]) <=> (p <= z => t[xs[p]] < t[ys[p]])
                BY <1>6
            <4> QED BY <4>2, <4>3 DEF First_
        <3>3. Meets(t, S) <=> \E p \in 1 .. (IF strict THEN z ELSE z + 1) : Track(d, z, t, p)
            BY <2>8, <2>13
        <3>4. 1 .. (IF strict THEN z ELSE z + 1) \subseteq 1 .. z + 1
            BY <1>6
        <3> QED BY <3>1, <3>2, <3>3, <3>4
    <2>14. ASSUME NEW t PROVE Holds(Call, t) <=> \E p \in 1 .. (IF strict THEN z ELSE z + 1) : First_(xs, ys, z, t, p)
        <3>1. LexIs(xs, ys, z, tail, t) <=>
                \E p \in 1 .. (IF ~tail THEN z ELSE z + 1) : First_(xs, ys, z, t, p)
            BY <1>6, LexTurns
        <3>2. strict <=> ~tail
            BY <1>6, <1>8
        <3>3. CASE tail
            BY <1>6, <3>1, <3>2, <3>3
        <3>4. CASE ~tail
            BY <1>6, <3>1, <3>2, <3>4
        <3> QED BY <3>3, <3>4
    <2>15. ASSUME NEW t, Fits(t, e), Meets(t, Range(calls)) PROVE Holds(Call, t)
        BY <2>13, <2>14, <2>15
    <2>16. ASSUME NEW s, Fits(s, d), Holds(Call, s)
           PROVE  \E t : Fits(t, e) /\ Alike(s, t, 1 .. Len(d)) /\ Meets(t, Range(calls))
        <3>1. PICK p \in 1 .. (IF strict THEN z ELSE z + 1) : First_(xs, ys, z, s, p)
            BY <2>14, <2>16
        <3>2. p \in 1 .. z + 1
            BY <1>6, <3>1
        <3>3. PICK t : Fits(t, e) /\ Alike(s, t, 1 .. Len(d)) /\ Track(d, z, t, p)
            <4>1. Extension(d, e, z + z) /\ BitsFrom(d, e, z + z)
                BY <2>3, <2>4
            <4> QED BY <1>6, <2>16, <3>2, <4>1, TrackFree
        <3>4. \A i \in 1 .. z : s[xs[i]] = t[xs[i]] /\ s[ys[i]] = t[ys[i]]
            BY <1>6, <3>3 DEF Alike, Columns
        <3>5. First_(xs, ys, z, t, p)
            <4>1. p <= z => p \in 1 .. z
                BY <3>2
            <4> QED BY <3>1, <3>4, <4>1 DEF First_
        <3> QED BY <2>13, <3>1, <3>3, <3>5
    <2>17. Sound(calls, dom') /\ Complete(calls, dom')
        BY <1>1, <2>15, <2>16 DEF Sound, Complete
    <2> QED BY <1>1, <1>6, <2>2, <2>4, <2>12, <2>17, NewReplaced
<1> QED BY <1>10, <1>11

LEMMA QuotSigns ==
    ASSUME NEW v \in Int, NEW w \in Int, w > 0
    PROVE  /\ v >= 0 => Quot(v, w) = v \div w /\ Quot(v, -w) = -(v \div w)
           /\ v < 0 => Quot(v, w) = -((-v) \div w) /\ Quot(v, -w) = (-v) \div w
           /\ Quot(v, w) \in Int /\ Quot(v, -w) \in Int /\ Quot(v, -w) = -Quot(v, w)
<1>1. PICK n \in Int : n = -w
    OBVIOUS
<1>2. n < 0 /\ Abs(n) = w /\ Abs(w) = w
    BY <1>1 DEF Abs
<1>3. CASE v >= 0
    <2>1. Abs(v) = v /\ v \div w \in Int
        BY <1>3 DEF Abs
    <2>2. Quot(v, w) = v \div w
        BY <1>2, <1>3, <2>1 DEF Quot
    <2>3. Quot(v, n) = -(v \div w)
        BY <1>2, <1>3, <2>1 DEF Quot
    <2> QED BY <1>1, <1>3, <2>1, <2>2, <2>3
<1>4. CASE v < 0
    <2>1. Abs(v) = -v /\ (-v) \div w \in Int
        BY <1>4 DEF Abs
    <2>2. Quot(v, w) = -((-v) \div w)
        BY <1>2, <1>4, <2>1 DEF Quot
    <2>3. Quot(v, n) = (-v) \div w
        BY <1>2, <1>4, <2>1 DEF Quot
    <2> QED BY <1>1, <1>4, <2>1, <2>2, <2>3
<1> QED BY <1>3, <1>4

\* What is left of a division has the dividend's sign and is less than the divisor.
Divides(v, w, q, r) ==
    /\ v = w * q + r /\ r < Abs(w) /\ -r < Abs(w)
    /\ v >= 0 => r >= 0
    /\ v < 0 => r <= 0

LEMMA DividesPositive ==
    ASSUME NEW v \in Int, NEW w \in Int, w > 0, NEW q \in Int, NEW r \in Int
    PROVE  Divides(v, w, q, r) <=> q = Quot(v, w) /\ r = v - w * q
<1>1. Abs(w) = w /\ w * q \in Int
    BY DEF Abs
<1>2. CASE v >= 0
    <2>1. Quot(v, w) = v \div w
        BY <1>2, QuotSigns
    <2>2. ASSUME Divides(v, w, q, r) PROVE q = v \div w /\ r = v - w * q
        <3>1. v = w * q + r /\ r \in 0 .. w - 1
            BY <1>1, <1>2, <2>2 DEF Divides
        <3>2. v = q * w + r
            BY <3>1
        <3>3. v \div w = q
            BY <3>1, <3>2, QuotientOnly
        <3> QED BY <1>1, <3>1, <3>3
    <2>3. ASSUME q = v \div w, r = v - w * q PROVE Divides(v, w, q, r)
        <3>1. v % w \in 0 .. w - 1 /\ v = q * w + (v % w)
            BY <2>3, QuotientIs
        <3>2. q * w = w * q
            OBVIOUS
        <3>3. r = v % w
            BY <1>1, <2>3, <3>1, <3>2
        <3> QED BY <1>1, <1>2, <2>3, <3>1, <3>3 DEF Divides
    <2> QED BY <2>1, <2>2, <2>3
<1>3. CASE v < 0
    <2>1. PICK V \in Int, Q \in Int, R \in Int : V = -v /\ Q = -q /\ R = -r
        OBVIOUS
    <2>2. Quot(v, w) = -(V \div w) /\ V \div w \in Int
        BY <1>3, <2>1, QuotSigns
    <2>3. Q * w = -(w * q) /\ Q * w \in Int
        BY <2>1
    <2>4. ASSUME Divides(v, w, q, r) PROVE q = -(V \div w) /\ r = v - w * q
        <3>1. v = w * q + r /\ R \in 0 .. w - 1
            BY <1>1, <1>3, <2>1, <2>4 DEF Divides
        <3>2. V = Q * w + R
            BY <1>1, <2>1, <2>3, <3>1
        <3>3. V \div w = Q
            BY <3>1, <3>2, QuotientOnly
        <3> QED BY <1>1, <2>1, <3>1, <3>3
    <2>5. ASSUME q = -(V \div w), r = v - w * q PROVE Divides(v, w, q, r)
        <3>1. Q = V \div w
            BY <2>1, <2>2, <2>5
        <3>2. V % w \in 0 .. w - 1 /\ V = Q * w + (V % w)
            BY <3>1, QuotientIs
        <3>3. R = V % w
            BY <1>1, <2>1, <2>3, <2>5, <3>2
        <3> QED BY <1>1, <1>3, <2>1, <2>5, <3>2, <3>3 DEF Divides
    <2> QED BY <2>2, <2>4, <2>5
<1> QED BY <1>2, <1>3

LEMMA DividesOnly ==
    ASSUME NEW v \in Int, NEW w \in Int, w # 0, NEW q \in Int, NEW r \in Int
    PROVE  Divides(v, w, q, r) <=> q = Quot(v, w) /\ r = v - w * q
<1>1. CASE w > 0
    BY <1>1, DividesPositive
<1>2. CASE w < 0
    <2>1. PICK W \in Int, Q \in Int : W = -w /\ Q = -q
        OBVIOUS
    <2>2. W > 0 /\ w = -W /\ w * q = W * Q /\ W * Q \in Int /\ w * q \in Int
        BY <1>2, <2>1
    <2>3. Divides(v, W, Q, r) <=> Q = Quot(v, W) /\ r = v - W * Q
        BY <2>2, DividesPositive
    <2>4. Quot(v, w) = -Quot(v, W) /\ Quot(v, W) \in Int
        BY <2>2, QuotSigns
    <2>5. Abs(w) = W /\ Abs(W) = W
        BY <1>2, <2>1 DEF Abs
    <2>6. Divides(v, w, q, r) <=> Divides(v, W, Q, r)
        BY <2>2, <2>5 DEF Divides
    <2>7. Q = Quot(v, W) <=> q = Quot(v, w)
        BY <2>1, <2>4
    <2> QED BY <2>2, <2>3, <2>6, <2>7
<1> QED BY <1>1, <1>2

\* Quotients rise with the dividend, and come nearer to zero as the divisor grows.
LEMMA QuotientRises ==
    ASSUME NEW v \in Int, NEW u \in Int, NEW w \in Int, w > 0, u <= v
    PROVE  u \div w <= v \div w
<1>1. PICK p \in Int, q \in Int : p = u \div w /\ q = v \div w
    OBVIOUS
<1>2. /\ u % w \in 0 .. w - 1 /\ u = p * w + (u % w)
      /\ v % w \in 0 .. w - 1 /\ v = q * w + (v % w)
    BY <1>1, QuotientIs
<1>3. ASSUME q + 1 <= p PROVE FALSE
    <2>1. (q + 1) * w <= p * w
        BY <1>3, TimesGrows
    <2>2. (q + 1) * w = q * w + w /\ q * w \in Int /\ p * w \in Int
        OBVIOUS
    <2> QED BY <1>2, <2>1, <2>2
<1> QED BY <1>1, <1>3

LEMMA QuotientFalls ==
    ASSUME NEW v \in Int, v >= 0, NEW w \in Int, w > 0, NEW x \in Int, w <= x
    PROVE  0 <= v \div x /\ v \div x <= v \div w /\ v \div w <= v
<1>1. PICK p \in Int, q \in Int : p = v \div x /\ q = v \div w
    OBVIOUS
<1>2. /\ v % x \in 0 .. x - 1 /\ v = p * x + (v % x)
      /\ v % w \in 0 .. w - 1 /\ v = q * w + (v % w)
    BY <1>1, QuotientIs
<1>3. p >= 0 /\ q >= 0
    <2>1. 0 \div x <= v \div x /\ 0 \div w <= v \div w
        BY QuotientRises
    <2>2. 0 \div x = 0 /\ 0 \div w = 0
        OBVIOUS
    <2> QED BY <1>1, <2>1, <2>2
<1>4. ASSUME q + 1 <= p PROVE FALSE
    <2>1. (q + 1) * w <= p * w
        BY <1>4, TimesGrows
    <2>2. w * p <= x * p
        BY <1>3, TimesGrows
    <2>3. (q + 1) * w = q * w + w /\ q * w \in Int /\ w * p = p * w /\ x * p = p * x /\ p * w \in Int /\ p * x \in Int
        OBVIOUS
    <2> QED BY <1>2, <2>1, <2>2, <2>3
<1>5. q <= v
    <2>1. 1 * q <= w * q
        BY <1>3, TimesGrows
    <2>2. w * q = q * w /\ q * w \in Int
        OBVIOUS
    <2> QED BY <1>2, <2>1, <2>2
<1> QED BY <1>1, <1>3, <1>4, <1>5

LEMMA QuotBounds ==
    ASSUME NEW v \in Int, NEW w \in Int, w # 0
    PROVE  Quot(v, w) \in Int /\ Quot(v, w) <= Abs(v) /\ -Abs(v) <= Quot(v, w)
<1>1. PICK W \in Int, V \in Int : W = Abs(w) /\ V = Abs(v)
    BY DEF Abs
<1>2. W > 0 /\ V >= 0
    BY <1>1 DEF Abs
<1>3. 0 <= V \div W /\ V \div W <= V /\ V \div W \in Int
    BY <1>2, QuotientFalls
<1> QED BY <1>1, <1>3 DEF Quot

\* A positive divisor between two others: the quotient is between two corners.
LEMMA QuotBetween ==
    ASSUME NEW a \in Int, NEW b \in Int, NEW v \in Int, a <= v, v <= b,
           NEW l \in Int, NEW u \in Int, NEW w \in Int, l > 0, l <= w, w <= u
    PROVE  /\ Quot(a, l) <= Quot(v, w) \/ Quot(a, u) <= Quot(v, w)
           /\ Quot(v, w) <= Quot(b, l) \/ Quot(v, w) <= Quot(b, u)
<1>1. CASE v >= 0
    <2>1. Quot(v, w) = v \div w /\ v \div w \in Int /\ v \div w >= 0
        BY <1>1, QuotSigns, QuotientFalls
    <2>2. b >= 0 /\ Quot(b, l) = b \div l /\ b \div l \in Int
        <3>1. b >= 0
            BY <1>1
        <3>2. b \div l \in Int
            BY <3>1, QuotientFalls
        <3> QED BY <3>1, <3>2, QuotSigns
    <2>3. v \div w <= v \div l /\ v \div l <= b \div l /\ v \div l \in Int
        BY <1>1, QuotientFalls, QuotientRises
    <2>4. CASE a >= 0
        <3>1. Quot(a, u) = a \div u /\ a \div u \in Int
            BY <2>4, QuotSigns
        <3>2. a \div u <= v \div u /\ v \div u <= v \div w /\ v \div u \in Int
            BY <1>1, QuotientFalls, QuotientRises
        <3> QED BY <2>1, <2>2, <2>3, <3>1, <3>2
    <2>5. CASE a < 0
        <3>1. Quot(a, u) = -((-a) \div u) /\ (-a) \div u \in Int
            BY <2>5, QuotSigns
        <3>2. (-a) \div u >= 0
            <4>1. PICK A \in Int : A = -a
                OBVIOUS
            <4>2. A >= 0
                BY <2>5, <4>1
            <4> QED BY <4>1, <4>2, QuotientFalls
        <3> QED BY <2>1, <2>2, <2>3, <3>1, <3>2
    <2> QED BY <2>4, <2>5
<1>2. CASE v < 0
    <2>1. PICK V \in Int, A \in Int, B \in Int : V = -v /\ A = -a /\ B = -b
        OBVIOUS
    <2>2. V > 0 /\ V <= A /\ B <= V
        BY <1>2, <2>1
    <2>3. Quot(v, w) = -(V \div w) /\ V \div w \in Int /\ V \div w >= 0
        BY <1>2, <2>1, <2>2, QuotSigns, QuotientFalls
    <2>4. Quot(a, l) = -(A \div l) /\ A \div l \in Int
        BY <2>1, <2>2, QuotSigns
    <2>5. V \div w <= V \div l /\ V \div l <= A \div l /\ V \div l \in Int
        BY <2>2, QuotientFalls, QuotientRises
    <2>6. CASE b < 0
        <3>1. Quot(b, u) = -(B \div u) /\ B \div u \in Int /\ B > 0
            BY <2>1, <2>6, QuotSigns
        <3>2. B \div u <= V \div u /\ V \div u <= V \div w /\ V \div u \in Int
            BY <2>2, QuotientFalls, QuotientRises
        <3> QED BY <2>3, <2>4, <2>5, <3>1, <3>2
    <2>7. CASE b >= 0
        <3>1. Quot(b, u) = b \div u /\ b \div u \in Int /\ b \div u >= 0
            BY <2>7, QuotSigns, QuotientFalls
        <3> QED BY <2>3, <2>4, <2>5, <3>1
    <2> QED BY <2>6, <2>7
<1> QED BY <1>1, <1>2

\* A product of two is between two products of their bounds.
LEMMA TimesBetween ==
    ASSUME NEW l \in Int, NEW u \in Int, NEW v \in Int, l <= v, v <= u,
           NEW m \in Int, NEW n \in Int, NEW z \in Int, m <= z, z <= n
    PROVE  /\ \E x \in {l, u}, y \in {m, n} : x * y <= v * z
           /\ \E x \in {l, u}, y \in {m, n} : v * z <= x * y
<1>1. ASSUME NEW y \in Int
      PROVE  /\ \E x \in {l, u} : x * y <= v * y
             /\ \E x \in {l, u} : v * y <= x * y
    <2>1. CASE y >= 0
        BY <2>1, TimesGrows
    <2>2. CASE y < 0
        <3>1. PICK k \in Int : k = -y
            OBVIOUS
        <3>2. l * k <= v * k /\ v * k <= u * k
            BY <2>2, <3>1, TimesGrows
        <3>3. l * k = -(l * y) /\ v * k = -(v * y) /\ u * k = -(u * y)
              /\ l * y \in Int /\ v * y \in Int /\ u * y \in Int
            BY <3>1
        <3>4. u * y <= v * y /\ v * y <= l * y
            BY <3>2, <3>3
        <3> QED BY <3>4
    <2> QED BY <2>1, <2>2
<1>2. (v * m <= v * z /\ v * z <= v * n) \/ (v * n <= v * z /\ v * z <= v * m)
    <2>1. CASE v >= 0
        <3>1. m * v <= z * v /\ z * v <= n * v
            BY <2>1, TimesGrows
        <3> QED BY <3>1
    <2>2. CASE v < 0
        <3>1. PICK k \in Int : k = -v
            OBVIOUS
        <3>2. m * k <= z * k /\ z * k <= n * k
            BY <2>2, <3>1, TimesGrows
        <3>3. m * k = -(v * m) /\ z * k = -(v * z) /\ n * k = -(v * n)
              /\ v * m \in Int /\ v * z \in Int /\ v * n \in Int
            BY <3>1
        <3> QED BY <3>2, <3>3
    <2> QED BY <2>1, <2>2
<1>3. v * m \in Int /\ v * n \in Int /\ v * z \in Int
    OBVIOUS
<1>4. PICK x, y \in {l, u} : x * m <= v * m /\ v * m <= y * m
    BY <1>1
<1>5. PICK p, q \in {l, u} : p * n <= v * n /\ v * n <= q * n
    BY <1>1
<1>6. x * m \in Int /\ y * m \in Int /\ p * n \in Int /\ q * n \in Int
    OBVIOUS
<1>7. /\ x * m <= v * z \/ p * n <= v * z
      /\ v * z <= y * m \/ v * z <= q * n
    BY <1>2, <1>3, <1>4, <1>5, <1>6
<1> QED BY <1>7

LEMMA FiniteFour ==
    ASSUME NEW a \in Int, NEW b \in Int, NEW c \in Int, NEW d \in Int
    PROVE  Finite({a, b, c, d})
<1>1. PICK S, T : S = {a, b} /\ T = {c, d}
    OBVIOUS
<1>2. Finite(S) /\ Finite(T)
    BY <1>1, FinitePair
<1>3. IsFiniteSet(S \cup T) /\ S \cup T \subseteq Int
    BY <1>2, FS_Union DEF Finite
<1>4. S \cup T = {a, b, c, d}
    BY <1>1
<1> QED BY <1>3, <1>4 DEF Finite

LEMMA HullHas ==
    ASSUME NEW S, Finite(S), S # {}
    PROVE  /\ Finite(Hull(S)) /\ Hull(S) # {}
           /\ \A v \in Int : (\E p \in S : p <= v) /\ (\E p \in S : v <= p) => v \in Hull(S)
<1>1. PICK lo, hi \in Int : lo = Min(S) /\ hi = Max(S)
    BY EndsAre
<1>2. lo <= hi /\ \A w \in S : w \in Int /\ lo <= w /\ w <= hi
    BY <1>1, EndsAre
<1>3. Hull(S) = lo .. hi
    BY <1>1 DEF Hull
<1>4. Finite(Hull(S)) /\ Hull(S) # {}
    <2>1. Finite(lo .. hi)
        BY IntervalFinite
    <2>2. lo \in lo .. hi
        BY <1>2
    <2> QED BY <1>3, <2>1, <2>2
<1>5. ASSUME NEW v \in Int, NEW p \in S, p <= v, NEW q \in S, v <= q PROVE v \in Hull(S)
    BY <1>2, <1>3, <1>5
<1> QED BY <1>4, <1>5

LEMMA ReachIs ==
    ASSUME Working, NEW x, x \in Columns(dom)
    PROVE  Reach(x) \in Int /\ Reach(x) >= 0 /\ \A v \in dom[x] : v \in Int /\ Abs(v) <= Reach(x)
<1>1. PICK lo, hi \in Int : lo = lb(x) /\ hi = ub(x)
    BY ColumnIs
<1>2. \A v \in dom[x] : v \in Int /\ lo <= v /\ v <= hi
    BY <1>1, ColumnIs
<1>3. PICK S : S = {Abs(lo), Abs(hi)}
    OBVIOUS
<1>4. Abs(lo) \in Int /\ Abs(hi) \in Int /\ Abs(lo) >= 0
    BY DEF Abs
<1>5. Finite(S) /\ S # {}
    BY <1>3, <1>4, FinitePair
<1>6. Max(S) \in Int /\ Abs(lo) <= Max(S) /\ Abs(hi) <= Max(S)
    BY <1>3, <1>5, EndsAre
<1>7. Reach(x) = Max(S)
    BY <1>1, <1>3 DEF Reach
<1>8. ASSUME NEW v \in dom[x] PROVE Abs(v) <= Max(S)
    BY <1>2, <1>4, <1>6, <1>8 DEF Abs
<1> QED BY <1>2, <1>4, <1>6, <1>7, <1>8

\* Every quotient of the two columns is in an interval.
LEMMA QuotientsAre ==
    ASSUME Working, NEW a, a \in Columns(dom), NEW b, b \in Columns(dom), NEW q, q = quotients(a, b)
    PROVE  /\ Finite(q) /\ q # {}
           /\ \A v \in dom[a], w \in dom[b] : w # 0 => Quot(v, w) \in q
<1>1. PICK A, B, l, u \in Int : A = lb(a) /\ B = ub(a) /\ l = lb(b) /\ u = ub(b)
    BY ColumnIs
<1>2. /\ \A v \in dom[a] : v \in Int /\ A <= v /\ v <= B
      /\ \A w \in dom[b] : w \in Int /\ l <= w /\ w <= u
      /\ l <= u
    BY <1>1, ColumnIs
<1>3. CASE l * u > 0
    <2>1. l > 0 \/ u < 0
        <3>1. ASSUME l <= 0, u >= 0 PROVE FALSE
            <4>1. l * u <= 0 * u
                BY <3>1, TimesGrows
            <4> QED BY <1>3, <4>1
        <3> QED BY <3>1
    <2>2. l # 0 /\ u # 0
        BY <1>2, <2>1
    <2>3. PICK c1, c2, c3, c4 \in Int : c1 = Quot(A, l) /\ c2 = Quot(A, u) /\ c3 = Quot(B, l) /\ c4 = Quot(B, u)
        BY <2>2, QuotBounds
    <2>4. PICK S : S = {c1, c2, c3, c4}
        OBVIOUS
    <2>5. q = Hull(S)
        <3>1. lb(b) * ub(b) > 0
            BY <1>1, <1>3
        <3>2. q = Hull({Quot(v, w) : v \in {A, B}, w \in {l, u}})
            BY <1>1, <3>1 DEF quotients, Ends
        <3>3. {Quot(v, w) : v \in {A, B}, w \in {l, u}} = S
            <4>1. {Quot(v, w) : v \in {A, B}, w \in {l, u}} =
                    {Quot(A, l), Quot(A, u), Quot(B, l), Quot(B, u)}
                OBVIOUS
            <4> QED BY <2>3, <2>4, <4>1
        <3> QED BY <3>2, <3>3
    <2>6. Finite(S) /\ S # {}
        BY <2>4, FiniteFour
    <2>7. ASSUME NEW v \in dom[a], NEW w \in dom[b]
          PROVE  Quot(v, w) \in Int /\ (\E p \in S : p <= Quot(v, w)) /\ (\E p \in S : Quot(v, w) <= p)
        <3>1. v \in Int /\ A <= v /\ v <= B /\ w \in Int /\ l <= w /\ w <= u
            BY <1>2
        <3>2. CASE l > 0
            <4>1. w > 0 /\ Quot(v, w) \in Int
                BY <3>1, <3>2, QuotBounds
            <4>2. Quot(A, l) <= Quot(v, w) \/ Quot(A, u) <= Quot(v, w)
                BY <3>1, <3>2, QuotBetween
            <4>3. Quot(v, w) <= Quot(B, l) \/ Quot(v, w) <= Quot(B, u)
                BY <3>1, <3>2, QuotBetween
            <4> QED BY <2>3, <2>4, <4>1, <4>2, <4>3
        <3>3. CASE u < 0
            <4>1. PICK L, U, W \in Int : L = -u /\ U = -l /\ W = -w
                BY <3>1
            <4>2. L > 0 /\ L <= W /\ W <= U /\ w < 0
                BY <3>1, <3>3, <4>1
            <4>3. /\ u = -L /\ l = -U /\ w = -W
                BY <3>1, <4>1
            <4>4. /\ Quot(v, w) = -Quot(v, W) /\ Quot(v, W) \in Int
                  /\ c1 = -Quot(A, U) /\ Quot(A, U) \in Int /\ c2 = -Quot(A, L) /\ Quot(A, L) \in Int
                  /\ c3 = -Quot(B, U) /\ Quot(B, U) \in Int /\ c4 = -Quot(B, L) /\ Quot(B, L) \in Int
                <5>1. W > 0 /\ U > 0
                    BY <4>2
                <5> QED BY <2>3, <3>1, <4>2, <4>3, <5>1, QuotSigns
            <4>5. Quot(A, L) <= Quot(v, W) \/ Quot(A, U) <= Quot(v, W)
                BY <3>1, <4>2, QuotBetween
            <4>6. Quot(v, W) <= Quot(B, L) \/ Quot(v, W) <= Quot(B, U)
                BY <3>1, <4>2, QuotBetween
            <4>7. (c3 <= Quot(v, w) \/ c4 <= Quot(v, w)) /\ (Quot(v, w) <= c1 \/ Quot(v, w) <= c2)
                BY <4>4, <4>5, <4>6
            <4>8. Quot(v, w) \in Int
                BY <4>4
            <4> QED BY <2>4, <4>7, <4>8
        <3> QED BY <2>1, <3>2, <3>3
    <2> QED BY <2>5, <2>6, <2>7, HullHas
<1>4. CASE ~(l * u > 0)
    <2>1. q = -Reach(a) .. Reach(a)
        BY <1>1, <1>4 DEF quotients
    <2>2. PICK R \in Int : R = Reach(a)
        BY ReachIs
    <2>3. R >= 0 /\ \A v \in dom[a] : v \in Int /\ Abs(v) <= R
        BY <2>2, ReachIs
    <2>4. Finite(q) /\ q # {}
        <3>1. PICK N \in Int : N = -R
            OBVIOUS
        <3>2. Finite(N .. R)
            BY IntervalFinite
        <3>3. 0 \in N .. R
            BY <2>3, <3>1
        <3> QED BY <2>1, <2>2, <3>1, <3>2, <3>3
    <2>5. ASSUME NEW v \in dom[a], NEW w \in dom[b], w # 0 PROVE Quot(v, w) \in q
        <3>1. v \in Int /\ w \in Int /\ Abs(v) \in Int /\ Abs(v) <= R
            BY <1>2, <2>3 DEF Abs
        <3>2. Quot(v, w) \in Int /\ Quot(v, w) <= Abs(v) /\ -Abs(v) <= Quot(v, w)
            BY <2>5, <3>1, QuotBounds
        <3> QED BY <2>1, <2>2, <3>1, <3>2
    <2> QED BY <2>4, <2>5
<1> QED BY <1>3, <1>4

Corners(l, u, m, n) == {v * w : v \in {l, u}, w \in {m, n}}

\* Where a divisor times a quotient lies.
Products(b, q) == Hull({v * w : v \in Ends(b), w \in {Min(q), Max(q)}})

LEMMA ProductsAre ==
    ASSUME NEW q, Finite(q), q # {}, Working, NEW b, b \in Columns(dom),
           NEW P, P = Products(b, q)
    PROVE  Finite(P) /\ P # {} /\ \A v \in dom[b], z \in q : v * z \in P
<1>1. PICK l, u, m, n \in Int : l = lb(b) /\ u = ub(b) /\ m = Min(q) /\ n = Max(q)
    BY ColumnIs, EndsAre
<1>2. /\ \A w \in dom[b] : w \in Int /\ l <= w /\ w <= u
      /\ \A z \in q : z \in Int /\ m <= z /\ z <= n
    BY <1>1, ColumnIs, EndsAre
<1>3. PICK S : S = Corners(l, u, m, n)
    OBVIOUS
<1>4. P = Hull(S)
    BY <1>1, <1>3 DEF Ends, Corners, Products
<1>5. Finite(S) /\ S # {}
    <2>1. PICK T : T = {l * m, l * n, u * m, u * n}
        OBVIOUS
    <2>2. ASSUME NEW x \in Int, NEW y \in Int PROVE x * y \in Int
        OBVIOUS
    <2>3. Finite(T) /\ T # {}
        <3>1. l * m \in Int /\ l * n \in Int /\ u * m \in Int /\ u * n \in Int
            BY <2>2, Zenon
        <3> QED BY <2>1, <3>1, FiniteFour
    <2>4. S = T
        BY <1>3, <2>1 DEF Corners
    <2> QED BY <2>3, <2>4
<1>6. ASSUME NEW v \in dom[b], NEW z \in q PROVE v * z \in P
    <2>1. v \in Int /\ l <= v /\ v <= u /\ z \in Int /\ m <= z /\ z <= n
        BY <1>2
    <2>2. PICK x \in {l, u}, y \in {m, n} : x * y <= v * z
        BY <2>1, TimesBetween
    <2>3. PICK x2 \in {l, u}, y2 \in {m, n} : v * z <= x2 * y2
        BY <2>1, TimesBetween
    <2>4. x * y \in S /\ x2 * y2 \in S /\ v * z \in Int
        BY <1>3, <2>1, <2>2, <2>3 DEF Corners
    <2> QED BY <1>4, <1>5, <2>2, <2>3, <2>4, HullHas
<1> QED BY <1>4, <1>5, <1>6, HullHas

LEMMA SevenListed ==
    ASSUME NEW a, NEW b, NEW c, NEW d, NEW e, NEW f, NEW g
    PROVE  Listed(<<a, b, c, d, e, f, g>>, {a, b, c, d, e, f, g})
<1>1. PICK q, S : q = <<a, b, c, d, e, f, g>> /\ S = {a, b, c, d, e, f, g}
    OBVIOUS
<1>2. /\ Len(q) = 7 /\ DOMAIN q = 1 .. 7
      /\ q[1] = a /\ q[2] = b /\ q[3] = c /\ q[4] = d /\ q[5] = e /\ q[6] = f /\ q[7] = g
    BY <1>1
<1>3. \A i \in 1 .. 7 : q[i] \in S
    <2>1. \A i \in 1 .. 7 : i = 1 \/ i = 2 \/ i = 3 \/ i = 4 \/ i = 5 \/ i = 6 \/ i = 7
        OBVIOUS
    <2> QED BY <1>1, <1>2, <2>1
<1>4. \A k \in S : \E i \in 1 .. 7 : k = q[i]
    BY <1>1, <1>2
<1>5. Range(q) = S
    BY <1>2, <1>3, <1>4 DEF Range
<1>6. q \in Seq(S)
    <2>1. q = [i \in 1 .. 7 |-> q[i]]
        BY <1>1, <1>2
    <2>2. PICK n \in Nat : n = 7
        OBVIOUS
    <2>3. q = [i \in 1 .. n |-> q[i]]
        BY <2>1, <2>2
    <2>4. q \in Seq(Range(q))
        BY <2>3, MadeList
    <2> QED BY <1>5, <2>4
<1> QED BY <1>1, <1>5, <1>6 DEF Listed

\* The sign of a remainder, and its size.
Signed(v, w, r, g, m) ==
    /\ g = 1 <=> v >= 0
    /\ g = 1 => r >= 0
    /\ g = 0 => r <= 0
    /\ m = Abs(w) /\ r - m <= -1 /\ -m - r <= -1

\* The calls that say so.
Remainders(S, a, b, r, g, m, y, x, e) ==
    /\ \A k \in S : Plain(k, e)
    /\ \A t : Fits(t, e) =>
         (Meets(t, S) <=> Signed(t[a], t[b], t[r], t[g], t[m]) /\ t[y] = t[x])

LEMMA RemaindersAre ==
    ASSUME NEW e, Domains(e), NEW a, a \in Columns(e), NEW b, b \in Columns(e), NEW r, r \in Columns(e),
           NEW g, g \in Booleans(e), NEW m, m \in Columns(e), NEW y, y \in Columns(e), NEW x, x \in Columns(e),
           NEW p1, p1 = LeReif(<<-1>>, <<a>>, 0, g), NEW p2, p2 = LeImp(<<-1>>, <<r>>, 0, g),
           NEW p3, p3 = LeImpNot(<< 1 >>, <<r>>, 0, g), NEW p4, p4 = Nary("abs", <<b>>, m),
           NEW p5, p5 = Le(<<-1, 1>>, <<m, r>>, -1), NEW p6, p6 = Le(<<-1, -1>>, <<m, r>>, -1),
           NEW p7, p7 = Eq(<<1, -1>>, <<y, x>>, 0)
    PROVE  Remainders({p1, p2, p3, p4, p5, p6, p7}, a, b, r, g, m, y, x, e)
<1>1. Plain(p1, e)
    BY UnitIs, MadeImps DEF Plain
<1>2. Plain(p2, e)
    BY UnitIs, MadeImps DEF Plain
<1>3. Plain(p3, e)
    BY UnitIs, MadeImps DEF Plain
<1>4. Plain(p4, e)
    <2>1. PICK q, abs : q = <<b>> /\ abs = "abs"
        OBVIOUS
    <2>2. q \in Seq(Columns(e)) /\ Len(q) = 1
        BY <2>1
    <2>3. Proper(Nary("abs", q, m), e) /\ Nary("abs", q, m).c = "abs"
        BY <2>2, MadeNary
    <2> QED BY <2>1, <2>3 DEF Plain
<1>5. PICK less \in Int : less = -1
    OBVIOUS
<1>6. Plain(p5, e)
    <2>1. Row(<<-1, 1>>, <<m, r>>, less, e)
        BY UnitsAre
    <2> QED BY <1>5, <2>1, MadeLe DEF Plain
<1>7. Plain(p6, e)
    <2>1. Row(<<-1, -1>>, <<m, r>>, less, e)
        BY UnitsAre
    <2> QED BY <1>5, <2>1, MadeLe DEF Plain
<1>8. Plain(p7, e)
    <2>1. Row(<<1, -1>>, <<y, x>>, 0, e)
        BY UnitsAre
    <2> QED BY <2>1, MadeEq DEF Plain
<1>9. ASSUME NEW t, Fits(t, e)
      PROVE  Meets(t, {p1, p2, p3, p4, p5, p6, p7}) <=>
                Signed(t[a], t[b], t[r], t[g], t[m]) /\ t[y] = t[x]
    <2>1. t[a] \in Int /\ SumOf(<<-1>>, <<a>>, t) = -t[a]
        BY <1>9, UnitIs
    <2>2. t[r] \in Int /\ SumOf(<<-1>>, <<r>>, t) = -t[r] /\ SumOf(<<1>>, <<r>>, t) = t[r]
        BY <1>9, UnitIs
    <2>3. t[m] \in Int /\ SumOf(<<-1, 1>>, <<m, r>>, t) = t[r] - t[m]
          /\ SumOf(<<-1, -1>>, <<m, r>>, t) = -t[m] - t[r]
        BY <1>9, UnitsAre
    <2>4. t[y] \in Int /\ t[x] \in Int /\ SumOf(<<1, -1>>, <<y, x>>, t) = t[y] - t[x]
        BY <1>9, UnitsAre
    <2>5. Holds(p1, t) <=> (t[g] = 1 <=> t[a] >= 0)
        <3>1. Holds(p1, t) <=> (t[g] = 1 <=> -t[a] <= 0)
            BY <2>1, LeReifHolds
        <3> QED BY <2>1, <3>1
    <2>6. Holds(p2, t) <=> (t[g] = 1 => t[r] >= 0)
        <3>1. Holds(p2, t) <=> (t[g] = 1 => -t[r] <= 0)
            BY <2>2, LeImpHolds
        <3> QED BY <2>2, <3>1
    <2>7. Holds(p3, t) <=> (t[g] = 0 => t[r] <= 0)
        BY <2>2, LeImpNotHolds
    <2>8. Holds(p4, t) <=> t[m] = Abs(t[b])
        <3>1. PICK q : q = <<b>>
            OBVIOUS
        <3>2. q[1] = b
            BY <3>1
        <3> QED BY <3>1, <3>2, AbsHolds
    <2>9. Holds(p5, t) <=> t[r] - t[m] <= -1
        BY <2>3, LeHolds
    <2>10. Holds(p6, t) <=> -t[m] - t[r] <= -1
        BY <2>3, LeHolds
    <2>11. Holds(p7, t) <=> t[y] = t[x]
        <3>1. Holds(p7, t) <=> t[y] - t[x] = 0
            BY <2>4, EqHolds
        <3> QED BY <2>4, <3>1
    <2>12. Meets(t, {p1, p2, p3, p4, p5, p6, p7}) <=>
             /\ Holds(p1, t) /\ Holds(p2, t) /\ Holds(p3, t) /\ Holds(p4, t) /\ Holds(p5, t)
             /\ Holds(p6, t) /\ Holds(p7, t)
        BY Zenon DEF Meets
    <2> QED BY <2>5, <2>6, <2>7, <2>8, <2>9, <2>10, <2>11, <2>12 DEF Signed
<1>10. \A k \in {p1, p2, p3, p4, p5, p6, p7} : Plain(k, e)
    BY <1>1, <1>2, <1>3, <1>4, <1>6, <1>7, <1>8, Zenon
<1> QED BY <1>9, <1>10, Zenon DEF Remainders

\* The dividend is the product and the remainder.
Splits(t, a, b, q, r) == t[a] = t[b] * t[q] + t[r]

\* A sum of three, the products left as they are.
Term(u, a, x) == u * a[x]

LEMMA SumOfThree ==
    ASSUME NEW u \in Int, NEW v \in Int, NEW w \in Int, NEW x \in Nat, NEW y \in Nat, NEW z \in Nat,
           NEW s, s[x] \in Int, s[y] \in Int, s[z] \in Int
    PROVE  SumOf(<<u, v, w>>, <<x, y, z>>, s) = Term(u, s, x) + Term(v, s, y) + Term(w, s, z)
<1>1. SumOf(<<u, v, w>>, <<x, y, z>>, s) = u * s[x] + v * s[y] + w * s[z]
    BY SumThree, SMTT(20)
<1> QED BY <1>1 DEF Term

LEMMA FixedDivided ==
    ASSUME NEW e, Domains(e), NEW a, a \in Columns(e), NEW b, b \in Columns(e),
           NEW q, q \in Columns(e), NEW r, r \in Columns(e), NEW m, m \in Int,
           \A t : Fits(t, e) => t[b] = m,
           NEW k, k = Eq(<<m, 1, -1>>, <<q, r, a>>, 0)
    PROVE  /\ Plain(k, e)
           /\ \A t : Fits(t, e) => (Holds(k, t) <=> Splits(t, a, b, q, r))
<1>1. PICK one \in Int, less \in Int : one = 1 /\ less = -1
    OBVIOUS
<1>2. Row(<<m, one, less>>, <<q, r, a>>, 0, e)
    BY DEF Row
<1>3. Plain(k, e)
    BY <1>1, <1>2, MadeEq DEF Plain
<1>4. ASSUME NEW t, Fits(t, e) PROVE Holds(k, t) <=> Splits(t, a, b, q, r)
    <2>1. t[a] \in Int /\ t[b] \in Int /\ t[q] \in Int /\ t[r] \in Int /\ a \in Nat /\ q \in Nat /\ r \in Nat
        BY <1>4, FitsColumns
    <2>2. SumOf(<<m, one, less>>, <<q, r, a>>, t) = m * t[q] + one * t[r] + less * t[a]
        <3>1. q \in Nat /\ r \in Nat /\ a \in Nat
            BY <2>1
        <3>2. t[q] \in Int /\ t[r] \in Int /\ t[a] \in Int
            BY <2>1
        <3>3. m \in Int /\ one \in Int /\ less \in Int
            OBVIOUS
        <3>4. SumOf(<<m, one, less>>, <<q, r, a>>, t) = Term(m, t, q) + Term(one, t, r) + Term(less, t, a)
            BY <3>1, <3>2, <3>3, SumOfThree
        <3> QED BY <3>4 DEF Term
    <2>3. one * t[r] = t[r] /\ less * t[a] = -t[a] /\ t[b] = m
        BY <1>1, <1>4, <2>1
    <2>4. Holds(k, t) <=> m * t[q] + t[r] - t[a] = 0
        <3>1. PICK z : z = m * t[q]
            OBVIOUS
        <3>2. z \in Int
            BY <2>1, <3>1
        <3>3. SumOf(<<m, one, less>>, <<q, r, a>>, t) = z + t[r] - t[a]
            BY <2>1, <2>2, <2>3, <3>1, <3>2
        <3>4. Holds(k, t) <=> SumOf(<<m, one, less>>, <<q, r, a>>, t) = 0
            BY <1>1, EqHolds
        <3> QED BY <3>1, <3>3, <3>4
    <2>5. PICK z : z = m * t[q]
        OBVIOUS
    <2>6. z \in Int /\ t[b] * t[q] = z
        BY <1>4, <2>1, <2>5
    <2>7. Holds(k, t) <=> z + t[r] - t[a] = 0
        BY <2>4, <2>5
    <2> QED BY <2>1, <2>6, <2>7 DEF Splits
<1> QED BY <1>3, <1>4

Product(t, z, b, q) == t[z] = t[b] * t[q]

LEMMA ScaledDivided ==
    ASSUME NEW e, Domains(e), NEW a, a \in Columns(e), NEW b, b \in Columns(e),
           NEW q, q \in Columns(e), NEW r, r \in Columns(e), NEW z, z \in Columns(e),
           NEW k, k = Nary("times", <<b, q>>, z), NEW l, l = Eq(<<1, -1, -1>>, <<a, z, r>>, 0)
    PROVE  /\ Usual(k, e) /\ k.c = "times" /\ k.xs = <<b, q>> /\ Plain(l, e)
           /\ \A t : Fits(t, e) =>
                (Holds(k, t) /\ Holds(l, t) <=> Product(t, z, b, q) /\ Splits(t, a, b, q, r))
<1>1. Usual(k, e) /\ k.c = "times" /\ k.xs = <<b, q>>
    <2>1. PICK xs : xs = <<b, q>>
        OBVIOUS
    <2>2. xs \in Seq(Columns(e)) /\ Len(xs) = 2
        BY <2>1
    <2>3. Proper(Nary("times", xs, z), e) /\ Nary("times", xs, z).c = "times"
        BY <2>2, MadeNary
    <2>4. Nary("times", xs, z).xs = xs
        BY DEF Nary
    <2> QED BY <2>1, <2>3, <2>4 DEF Usual
<1>2. Plain(l, e)
    BY MinusTripleIs, MadeEq DEF Plain
<1>3. ASSUME NEW t, Fits(t, e)
      PROVE  Holds(k, t) /\ Holds(l, t) <=> Product(t, z, b, q) /\ Splits(t, a, b, q, r)
    <2>1. t[a] \in Int /\ t[b] \in Int /\ t[q] \in Int /\ t[r] \in Int /\ t[z] \in Int
        BY <1>3, FitsColumns
    <2>2. Holds(k, t) <=> t[z] = t[b] * t[q]
        <3>1. PICK xs : xs = <<b, q>>
            OBVIOUS
        <3>2. xs[1] = b /\ xs[2] = q
            BY <3>1
        <3> QED BY <3>1, <3>2, TimesHolds
    <2>3. SumOf(<<1, -1, -1>>, <<a, z, r>>, t) = t[a] - t[z] - t[r]
        BY <1>3, MinusTripleIs
    <2>4. Holds(l, t) <=> t[a] - t[z] - t[r] = 0
        BY <2>3, EqHolds
    <2> QED BY <2>1, <2>2, <2>4 DEF Product, Splits
<1> QED BY <1>1, <1>2, <1>3

LEMMA SignedDivides ==
    ASSUME NEW v \in Int, NEW w \in Int, NEW q \in Int, NEW r \in Int, NEW m \in Int, m >= 1,
           NEW g \in {0, 1}, Signed(v, w, r, g, m), v = w * q + r
    PROVE  w # 0 /\ q = Quot(v, w) /\ r = v - w * Quot(v, w)
<1>1. w # 0
    BY DEF Signed, Abs
<1>2. Abs(w) \in Int
    BY DEF Abs
<1>3. Divides(v, w, q, r)
    BY <1>2 DEF Signed, Divides
<1> QED BY <1>1, <1>3, DividesOnly

LEMMA DividesSigned ==
    ASSUME NEW v \in Int, NEW w \in Int, w # 0, NEW q, q = Quot(v, w), NEW r, r = v - w * q,
           NEW g, g = (IF v >= 0 THEN 1 ELSE 0), NEW m, m = Abs(w)
    PROVE  /\ q \in Int /\ r \in Int /\ g \in 0 .. 1 /\ m \in Int /\ m >= 1
           /\ Signed(v, w, r, g, m) /\ v = w * q + r /\ 1 - m <= r /\ r <= m - 1
<1>1. q \in Int
    BY QuotBounds
<1>2. r \in Int
    BY <1>1
<1>3. Divides(v, w, q, r)
    BY <1>1, <1>2, DividesOnly
<1>4. m \in Int /\ m >= 1
    BY DEF Abs
<1>5. v = w * q + r /\ r < m /\ -r < m /\ (v >= 0 => r >= 0) /\ (v < 0 => r <= 0)
    BY <1>3 DEF Divides
<1>6. Signed(v, w, r, g, m)
    BY <1>2, <1>4, <1>5 DEF Signed
<1> QED BY <1>1, <1>2, <1>4, <1>5, <1>6

\* The columns of a division.
Division(d, e, q, R, P, fixed) ==
    /\ Domains(e) /\ Longer(d, e) /\ Bigger(d, e) /\ Len(d) \in Nat
    /\ Extension(d, e, IF fixed THEN 4 ELSE 5)
    /\ e[Len(d) + 1] = q /\ e[Len(d) + 2] = 1 - R .. R - 1 /\ e[Len(d) + 3] = 0 .. 1
    /\ e[Len(d) + 4] = 1 .. R
    /\ Len(d) + 1 \in Columns(e) /\ Len(d) + 2 \in Columns(e) /\ Len(d) + 3 \in Booleans(e)
    /\ Len(d) + 4 \in Columns(e)
    /\ ~fixed => e[Len(d) + 5] = P /\ Len(d) + 5 \in Columns(e)

\* A list of four, and a fifth perhaps.
Filled(f, S, n, a, b, c, d, p) ==
    /\ f \in Seq(S) /\ Len(f) = n /\ f[1] = a /\ f[2] = b /\ f[3] = c /\ f[4] = d
    /\ n = 5 => f[5] = p

LEMMA FilledIs ==
    ASSUME NEW S, NEW a \in S, NEW b \in S, NEW c \in S, NEW d \in S, NEW p \in S, NEW fixed \in BOOLEAN
    PROVE  Filled(<<a, b, c, d>> \o (IF fixed THEN <<>> ELSE <<p>>), S, IF fixed THEN 4 ELSE 5, a, b, c, d, p)
<1>1. PICK u : u = <<a, b, c, d>>
    OBVIOUS
<1>2. u \in Seq(S) /\ Len(u) = 4 /\ u[1] = a /\ u[2] = b /\ u[3] = c /\ u[4] = d
    BY <1>1
<1>3. Filled(u, S, 4, a, b, c, d, p)
    BY <1>2 DEF Filled
<1>4. PICK f : f = Append(u, p)
    OBVIOUS
<1>5. f \in Seq(S) /\ Len(f) = 5
    <2>0. u \in Seq(S)
        BY <1>2
    <2>1. Append(u, p) \in Seq(S) /\ Len(Append(u, p)) = Len(u) + 1
        BY <2>0
    <2> QED BY <1>2, <1>4, <2>1
<1>6. f[5] = p /\ \A i \in 1 .. 4 : f[i] = u[i]
    <2>0. u \in Seq(S)
        BY <1>2
    <2>1. Append(u, p)[Len(u) + 1] = p /\ \A i \in 1 .. Len(u) : Append(u, p)[i] = u[i]
        BY <2>0
    <2> QED BY <1>2, <1>4, <2>1
<1>7. Filled(f, S, 5, a, b, c, d, p)
    BY <1>2, <1>5, <1>6 DEF Filled
<1>8. u \o <<>> = u /\ u \o <<p>> = f
    BY <1>2, <1>4
<1>9. CASE fixed
    BY <1>1, <1>3, <1>8, <1>9
<1>10. CASE ~fixed
    BY <1>1, <1>7, <1>8, <1>10
<1> QED BY <1>9, <1>10

LEMMA FilledDomains ==
    ASSUME NEW f, NEW n, n \in {4, 5}, NEW a, NEW b, NEW c, NEW d, NEW p,
           Finite(a), Finite(b), Finite(c), Finite(d), Finite(p), Filled(f, SUBSET Int, n, a, b, c, d, p)
    PROVE  Domains(f)
<1>1. /\ f \in Seq(SUBSET Int) /\ Len(f) = n /\ f[1] = a /\ f[2] = b /\ f[3] = c /\ f[4] = d
      /\ n = 5 => f[5] = p
    BY DEF Filled
<1>2. ASSUME NEW i \in 1 .. Len(f) PROVE IsFiniteSet(f[i])
    <2>1. i = 1 \/ i = 2 \/ i = 3 \/ i = 4 \/ (n = 5 /\ i = 5)
        BY <1>1
    <2> QED BY <1>1, <2>1 DEF Finite
<1> QED BY <1>1, <1>2 DEF Domains

LEMMA DivisionIs ==
    ASSUME NEW d, Domains(d), NEW q, Finite(q), NEW R, R \in Int, NEW P, Finite(P),
           NEW fixed, fixed \in BOOLEAN, NEW n, n = (IF fixed THEN 4 ELSE 5), NEW f,
           Filled(f, SUBSET Int, n, q, 1 - R .. R - 1, 0 .. 1, 1 .. R, P),
           NEW e, e = d \o f
    PROVE  Division(d, e, q, R, P, fixed)
<1>1. PICK A, B, C : A = 1 - R .. R - 1 /\ B = 0 .. 1 /\ C = 1 .. R
    OBVIOUS
<1>2. Finite(A) /\ Finite(B) /\ Finite(C)
    <2>1. PICK u \in Int, v \in Int, w \in Int, o \in Int : u = 1 - R /\ v = R - 1 /\ w = 1 /\ o = 0
        OBVIOUS
    <2>2. Finite(u .. v)
        BY IntervalFinite
    <2>3. Finite(w .. R)
        BY IntervalFinite
    <2>4. Finite(o .. w)
        BY IntervalFinite
    <2> QED BY <1>1, <2>1, <2>2, <2>3, <2>4
<1>3. Filled(f, SUBSET Int, n, q, A, B, C, P) /\ n \in {4, 5} /\ (n = 5 <=> ~fixed)
    BY <1>1
<1>31. /\ Len(f) = n /\ f[1] = q /\ f[2] = A /\ f[3] = B /\ f[4] = C /\ (~fixed => f[5] = P)
    BY <1>3 DEF Filled
<1>4. Domains(f)
    BY <1>2, <1>3, FilledDomains
<1>5. Domains(e) /\ Longer(d, e) /\ Bigger(d, e)
    BY <1>4, NewDomains
<1>6. Len(e) = Len(d) + n /\ Len(d) \in Nat
    <2>1. Len(e) = Len(d) + Len(f)
        BY <1>4, NewDomains
    <2>2. Len(d) \in Nat
        BY <1>4, NewDomains
    <2> QED BY <1>31, <2>1, <2>2
<1>7. \A i \in 1 .. n : e[Len(d) + i] = f[i] /\ Len(d) + i \in Columns(e)
    <2>1. \A i \in 1 .. Len(f) : e[Len(d) + i] = f[i] /\ Len(d) + i \in Columns(e) /\ Len(d) + i \in Nat
        <3>1. PICK g : g = f
            OBVIOUS
        <3>2. Domains(g) /\ e = d \o g
            BY <1>4, <3>1
        <3>3. \A i \in 1 .. Len(g) : e[Len(d) + i] = g[i] /\ Len(d) + i \in Columns(e) /\ Len(d) + i \in Nat
            BY <3>2, NewDomains
        <3> QED BY <3>1, <3>3
    <2> QED BY <1>31, <2>1
<1>8. Extension(d, e, n) /\ n \in Nat
    BY <1>5, <1>6 DEF Extension
<1>9. 1 \in 1 .. n /\ 2 \in 1 .. n /\ 3 \in 1 .. n /\ 4 \in 1 .. n /\ (~fixed => 5 \in 1 .. n)
    OBVIOUS
<1>10. /\ e[Len(d) + 1] = q /\ e[Len(d) + 2] = A /\ e[Len(d) + 3] = B /\ e[Len(d) + 4] = C
       /\ Len(d) + 1 \in Columns(e) /\ Len(d) + 2 \in Columns(e) /\ Len(d) + 3 \in Columns(e)
       /\ Len(d) + 4 \in Columns(e)
       /\ ~fixed => e[Len(d) + 5] = P /\ Len(d) + 5 \in Columns(e)
    BY <1>31, <1>7, <1>9
<1>11. Len(d) + 3 \in Booleans(e)
    BY <1>1, <1>10 DEF Booleans
<1> QED BY <1>1, <1>5, <1>6, <1>8, <1>10, <1>11 DEF Division

LEMMA DivisionHead ==
    ASSUME Formed, NEW k, k \in {"div", "mod"}, Doing(k), NEW c, c = Call,
           NEW a, a = c.xs[1], NEW b, b = c.xs[2], NEW y, y = c.y
    PROVE  /\ Heads /\ Working /\ Domains(dom) /\ c.c = k /\ Proper(Call, dom)
           /\ a \in Columns(dom) /\ b \in Columns(dom) /\ y \in Columns(dom)
           /\ \A s : At1(s) => Fits(s, dom)
           /\ \A s : Holds(Call, s) <=>
                /\ s[b] # 0
                /\ s[y] = IF k = "div" THEN Quot(s[a], s[b]) ELSE s[a] - s[b] * Quot(s[a], s[b])
<1>1. /\ Heads /\ Working /\ Domains(dom) /\ c.c = k /\ Proper(Call, dom)
      /\ a \in Columns(dom) /\ b \in Columns(dom) /\ y \in Columns(dom)
    BY OperationHead
<1>2. \A s : At1(s) => Fits(s, dom)
    BY DEF At1
<1>3. ASSUME NEW s
      PROVE  Holds(Call, s) <=>
                /\ s[b] # 0
                /\ s[y] = IF k = "div" THEN Quot(s[a], s[b]) ELSE s[a] - s[b] * Quot(s[a], s[b])
    <2>1. CASE k = "div"
        BY <1>1, <2>1, HoldsOperation
    <2>2. CASE k = "mod"
        BY <1>1, <2>2, HoldsOperation
    <2> QED BY <2>1, <2>2
<1> QED BY <1>1, <1>2, <1>3

\* The product of a division comes first, and is of the divisor and the quotient.
OneProduct(calls, b, L, fixed) ==
    \A i \in DOMAIN calls :
        calls[i].c = "times" => i = 1 /\ ~fixed /\ calls[1].xs = <<b, L + 1>>

\* One call that is not a product,
LEMMA NoProduct ==
    ASSUME NEW k, k.c # "times", NEW b, NEW L, NEW fixed
    PROVE  OneProduct(<<k>>, b, L, fixed)
BY DEF OneProduct

\* a product and a row,
LEMMA ProductAndRow ==
    ASSUME NEW k, NEW l, l.c # "times", NEW b, NEW L, k.xs = <<b, L + 1>>, NEW fixed, ~fixed
    PROVE  OneProduct(<<k, l>>, b, L, fixed)
<1>1. PICK q : q = <<k, l>>
    OBVIOUS
<1>2. DOMAIN q = {1, 2} /\ q[1] = k /\ q[2] = l
    BY <1>1
<1>3. OneProduct(q, b, L, fixed)
    BY <1>2 DEF OneProduct
<1> QED BY <1>1, <1>3

\* and what follows them.
LEMMA ProductFirst ==
    ASSUME NEW F, NEW G, NEW S, NEW T, Listed(F, S), Listed(G, T), \A k \in T : k.c # "times",
           NEW b, NEW L, NEW fixed, OneProduct(F, b, L, fixed)
    PROVE  OneProduct(F \o G, b, L, fixed)
<1>1. /\ DOMAIN F = 1 .. Len(F) /\ Len(F) \in Nat /\ DOMAIN G = 1 .. Len(G) /\ Len(G) \in Nat
      /\ \A i \in 1 .. Len(G) : G[i] \in T
    BY ListIs DEF Listed
<1>2. PICK R : R = S \cup T
    OBVIOUS
<1>3. F \in Seq(R) /\ G \in Seq(R)
    BY <1>2, SeqGrows DEF Listed
<1>4. ASSUME NEW i \in DOMAIN (F \o G), (F \o G)[i].c = "times"
      PROVE  i = 1 /\ ~fixed /\ (F \o G)[1].xs = <<b, L + 1>>
    <2>1. i \in 1 .. Len(F) + Len(G)
        BY <1>3
    <2>2. CASE i <= Len(F)
        <3>1. (F \o G)[i] = F[i] /\ (F \o G)[1] = F[1] /\ i \in DOMAIN F
            BY <1>1, <1>3, <2>1, <2>2
        <3> QED BY <1>4, <3>1 DEF OneProduct
    <2>3. CASE i > Len(F)
        <3>1. (F \o G)[i] = G[i - Len(F)] /\ i - Len(F) \in 1 .. Len(G)
            BY <1>1, <1>3, <2>1, <2>3
        <3> QED BY <1>1, <1>4, <3>1
    <2> QED BY <1>1, <2>1, <2>2, <2>3
<1> QED BY <1>4 DEF OneProduct

\* What the calls of a division ask, whichever come first.
Dividing(calls, a, b, y, x, L, fixed, e) ==
    /\ calls \in Seq(Range(calls)) /\ \A k \in Range(calls) : Usual(k, e)
    /\ OneProduct(calls, b, L, fixed)
    /\ \A t : Fits(t, e) =>
         (Meets(t, Range(calls)) <=>
            /\ Signed(t[a], t[b], t[L + 2], t[L + 3], t[L + 4]) /\ t[y] = t[x]
            /\ Splits(t, a, b, L + 1, L + 2)
            /\ ~fixed => Product(t, L + 5, b, L + 1))

LEMMA DividingIs ==
    ASSUME NEW e, Domains(e), NEW a, a \in Columns(e), NEW b, b \in Columns(e), NEW y, y \in Columns(e),
           NEW L, L + 1 \in Columns(e), L + 2 \in Columns(e), L + 3 \in Booleans(e), L + 4 \in Columns(e),
           NEW x, x \in Columns(e), NEW fixed, fixed \in BOOLEAN, ~fixed => L + 5 \in Columns(e),
           NEW m, fixed => m \in Int /\ \A t : Fits(t, e) => t[b] = m,
           NEW F, F = (IF fixed THEN <<Eq(<<m, 1, -1>>, <<L + 1, L + 2, a>>, 0)>>
                       ELSE <<Nary("times", <<b, L + 1>>, L + 5), Eq(<<1, -1, -1>>, <<a, L + 5, L + 2>>, 0)>>),
           NEW calls, calls = F \o <<LeReif(<<-1>>, <<a>>, 0, L + 3), LeImp(<<-1>>, <<L + 2>>, 0, L + 3),
                                     LeImpNot(<< 1 >>, <<L + 2>>, 0, L + 3), Nary("abs", <<b>>, L + 4),
                                     Le(<<-1, 1>>, <<L + 4, L + 2>>, -1), Le(<<-1, -1>>, <<L + 4, L + 2>>, -1),
                                     Eq(<<1, -1>>, <<y, x>>, 0)>>
    PROVE  Dividing(calls, a, b, y, x, L, fixed, e)
<1>1. PICK q, r, g, n, z : q = L + 1 /\ r = L + 2 /\ g = L + 3 /\ n = L + 4 /\ z = L + 5
    OBVIOUS
<1>2. q \in Columns(e) /\ r \in Columns(e) /\ g \in Booleans(e) /\ n \in Columns(e) /\ (~fixed => z \in Columns(e))
    BY <1>1
<1>3. PICK p1, p2, p3, p4, p5, p6, p7 :
          /\ p1 = LeReif(<<-1>>, <<a>>, 0, g) /\ p2 = LeImp(<<-1>>, <<r>>, 0, g)
          /\ p3 = LeImpNot(<<1>>, <<r>>, 0, g) /\ p4 = Nary("abs", <<b>>, n)
          /\ p5 = Le(<<-1, 1>>, <<n, r>>, -1) /\ p6 = Le(<<-1, -1>>, <<n, r>>, -1)
          /\ p7 = Eq(<<1, -1>>, <<y, x>>, 0)
    OBVIOUS
<1>4. PICK G, T : G = <<p1, p2, p3, p4, p5, p6, p7>> /\ T = {p1, p2, p3, p4, p5, p6, p7}
    OBVIOUS
<1>5. Listed(G, T)
    BY <1>4, SevenListed
<1>6. Remainders(T, a, b, r, g, n, y, x, e)
    <2>1. Remainders({p1, p2, p3, p4, p5, p6, p7}, a, b, r, g, n, y, x, e)
        BY <1>2, <1>3, RemaindersAre
    <2> QED BY <1>4, <2>1
<1>7. calls = F \o G
    BY <1>1, <1>3, <1>4
<1>8. PICK S : /\ Listed(F, S) /\ \A k \in S : Usual(k, e)
               /\ OneProduct(F, b, L, fixed)
               /\ \A t : Fits(t, e) =>
                    (Meets(t, S) <=> Splits(t, a, b, q, r) /\ (~fixed => Product(t, z, b, q)))
    <2>1. CASE fixed
        <3>1. PICK k, U : k = Eq(<<m, 1, -1>>, <<q, r, a>>, 0) /\ U = {k}
            OBVIOUS
        <3>2. F = <<k>>
            BY <1>1, <2>1, <3>1
        <3>31. m \in Int /\ \A t : Fits(t, e) => t[b] = m
            BY <2>1
        <3>3. Plain(k, e)
            BY <1>2, <3>1, <3>31, FixedDivided
        <3>4. \A t : Fits(t, e) => (Holds(k, t) <=> Splits(t, a, b, q, r))
            BY <1>2, <3>1, <3>31, FixedDivided
        <3>5. Listed(F, U)
            BY <3>1, <3>2, ListedShort
        <3>6. \A t : Fits(t, e) =>
                (Meets(t, U) <=> Splits(t, a, b, q, r) /\ (~fixed => Product(t, z, b, q)))
            BY <2>1, <3>1, <3>4 DEF Meets
        <3>7. \A j \in U : Usual(j, e)
            BY <3>1, <3>3 DEF Plain, Usual
        <3>8. OneProduct(F, b, L, fixed)
            <4>1. k.c # "times"
                BY <3>3 DEF Plain
            <4>2. OneProduct(<<k>>, b, L, fixed)
                BY <4>1, NoProduct
            <4> QED BY <3>2, <4>2
        <3> QED BY <3>5, <3>6, <3>7, <3>8, Zenon
    <2>2. CASE ~fixed
        <3>1. PICK k, l, U : /\ k = Nary("times", <<b, q>>, z) /\ l = Eq(<<1, -1, -1>>, <<a, z, r>>, 0)
                             /\ U = {k, l}
            OBVIOUS
        <3>2. F = <<k, l>>
            BY <1>1, <2>2, <3>1
        <3>31. q \in Columns(e) /\ r \in Columns(e) /\ z \in Columns(e)
              /\ k = Nary("times", <<b, q>>, z) /\ l = Eq(<<1, -1, -1>>, <<a, z, r>>, 0)
            BY <1>2, <2>2, <3>1
        <3>3. Usual(k, e) /\ k.xs = <<b, q>> /\ Plain(l, e)
            BY <3>31, ScaledDivided
        <3>4. \A t : Fits(t, e) =>
                (Holds(k, t) /\ Holds(l, t) <=> Product(t, z, b, q) /\ Splits(t, a, b, q, r))
            BY <3>31, ScaledDivided
        <3>5. Listed(F, U)
            <4>1. Listed(<<k, l>>, {k, l})
                BY TwoCalls DEF Listed
            <4> QED BY <3>1, <3>2, <4>1
        <3>6. \A t : Fits(t, e) =>
                (Meets(t, U) <=> Splits(t, a, b, q, r) /\ (~fixed => Product(t, z, b, q)))
            BY <2>2, <3>1, <3>4, Zenon DEF Meets
        <3>7. \A j \in U : Usual(j, e)
            BY <3>1, <3>3 DEF Plain, Usual
        <3>8. OneProduct(F, b, L, fixed)
            <4>1. k.xs = <<b, L + 1>>
                BY <1>1, <3>3
            <4>2. l.c # "times"
                BY <3>3 DEF Plain
            <4>3. OneProduct(<<k, l>>, b, L, fixed)
                BY <2>2, <4>1, <4>2, ProductAndRow
            <4> QED BY <3>2, <4>3
        <3> QED BY <3>5, <3>6, <3>7, <3>8, Zenon
    <2> QED BY <2>1, <2>2
<1>9. Listed(calls, S \cup T)
    <2>1. Listed(F \o G, S \cup T)
        BY <1>5, <1>8, ListedJoin
    <2> QED BY <1>7, <2>1
<1>10. \A k \in T : Plain(k, e)
    BY <1>6 DEF Remainders
<1>11. calls \in Seq(Range(calls)) /\ \A k \in Range(calls) : Usual(k, e)
    <2>1. \A k \in T : Usual(k, e)
        BY <1>10 DEF Plain, Usual
    <2> QED BY <1>8, <1>9, <2>1 DEF Listed
<1>13. OneProduct(calls, b, L, fixed)
    <2>1. \A k \in T : k.c # "times"
        BY <1>10 DEF Plain
    <2> QED BY <1>5, <1>7, <1>8, <2>1, ProductFirst
<1>12. ASSUME NEW t, Fits(t, e)
       PROVE  Meets(t, Range(calls)) <=>
                /\ Signed(t[a], t[b], t[r], t[g], t[n]) /\ t[y] = t[x]
                /\ Splits(t, a, b, q, r)
                /\ ~fixed => Product(t, z, b, q)
    <2>1. Meets(t, Range(calls)) <=> Meets(t, S) /\ Meets(t, T)
        BY <1>9 DEF Listed, Meets
    <2>2. Meets(t, T) <=> Signed(t[a], t[b], t[r], t[g], t[n]) /\ t[y] = t[x]
        BY <1>6, <1>12 DEF Remainders
    <2>3. Meets(t, S) <=> Splits(t, a, b, q, r) /\ (~fixed => Product(t, z, b, q))
        BY <1>8, <1>12
    <2> QED BY <2>1, <2>2, <2>3
<1> QED BY <1>1, <1>11, <1>12, <1>13 DEF Dividing

LEMMA JoinTwice ==
    ASSUME NEW S, NEW p, NEW q, NEW r, p \in Seq(S), q \in Seq(S), r \in Seq(S)
    PROVE  (p \o q) \o r = p \o (q \o r)
OBVIOUS
\* The domains of the columns a division makes, and the calls it is rewritten to.
DivisionFill(b, q, R, P) ==
    <<q, 1 - R .. R - 1, 0 .. 1, 1 .. R>> \o (IF is_fixed(b) THEN <<>> ELSE <<P>>)

DivisionCalls(k, a, b, y, L) ==
    (IF is_fixed(b) THEN <<Eq(<<fix(b), 1, -1>>, <<L + 1, L + 2, a>>, 0)>>
     ELSE <<Nary("times", <<b, L + 1>>, L + 5), Eq(<<1, -1, -1>>, <<a, L + 5, L + 2>>, 0)>>)
    \o <<LeReif(<<-1>>, <<a>>, 0, L + 3), LeImp(<<-1>>, <<L + 2>>, 0, L + 3),
         LeImpNot(<<1>>, <<L + 2>>, 0, L + 3), Nary("abs", <<b>>, L + 4),
         Le(<<-1, 1>>, <<L + 4, L + 2>>, -1), Le(<<-1, -1>>, <<L + 4, L + 2>>, -1),
         Eq(<<1, -1>>, <<y, IF k = "div" THEN L + 1 ELSE L + 2>>, 0)>>

LEMMA DivModIs ==
    ASSUME IntDivMod, NEW k, k = Call.c,
           NEW a, a = Call.xs[1], NEW b, b = Call.xs[2], NEW y, y = Call.y, NEW q, q = quotients(a, b),
           NEW R, R = Reach(b), NEW P, P = Products(b, q),
           NEW L, L = Len(dom), Domains(dom), Finite(q), Finite(P)
    PROVE  /\ k \in {"div", "mod"} /\ Doing(k)
           /\ dom' = dom \o DivisionFill(b, q, R, P)
           /\ UNCHANGED <<model, out, shared>>
<1>1. New = L
    BY DEF New
<1>2. k \in {"div", "mod"} /\ Doing(k)
    BY DEF IntDivMod, Doing
<1>3. UNCHANGED <<model, out, shared>>
    BY Zenon DEF IntDivMod
<1>4. dom' = dom \o <<q, 1 - R .. R - 1, 0 .. 1, 1 .. R>> \o (IF is_fixed(b) THEN <<>> ELSE <<P>>)
    BY DEF IntDivMod, Products
<1>8. PICK u, w : /\ u = <<q, 1 - R .. R - 1, 0 .. 1, 1 .. R>>
                  /\ w = (IF is_fixed(b) THEN <<>> ELSE <<P>>)
    OBVIOUS
<1>9. dom' = dom \o (u \o w)
    <2>1. dom \in Seq(SUBSET Int) /\ u \in Seq(SUBSET Int) /\ w \in Seq(SUBSET Int)
        <3>1. dom \in Seq(SUBSET Int)
            BY DEF Domains
        <3>2. PICK S : S = SUBSET Int
            OBVIOUS
        <3>3. PICK A, B, C \in S : A = 1 - R .. R - 1 /\ B = 0 .. 1 /\ C = 1 .. R
            <4>1. 1 - R .. R - 1 \in S /\ 0 .. 1 \in S /\ 1 .. R \in S
                BY <3>2
            <4> QED BY <4>1, Zenon
        <3>4. q \in S /\ P \in S
            BY <3>2 DEF Finite
        <3>5. <<q, A, B, C>> \in Seq(S) /\ (IF is_fixed(b) THEN <<>> ELSE <<P>>) \in Seq(S)
            BY <3>4
        <3>6. u = <<q, A, B, C>> /\ w = (IF is_fixed(b) THEN <<>> ELSE <<P>>)
            BY <1>8, <3>3
        <3> QED BY <3>1, <3>2, <3>5, <3>6
    <2> QED BY <1>4, <1>8, <2>1, JoinTwice
<1>10. dom' = dom \o DivisionFill(b, q, R, P)
    BY <1>8, <1>9, Zenon DEF DivisionFill
<1> QED BY <1>2, <1>3, <1>10, Zenon

LEMMA DivModTodo ==
    ASSUME IntDivMod, NEW cs, cs = DivisionCalls(Call.c, Call.xs[1], Call.xs[2], Call.y, Len(dom))
    PROVE  todo' = cs \o Tail(todo)
<1>1. New = Len(dom)
    BY DEF New
<1>2. todo' = DivisionCalls(Call.c, Call.xs[1], Call.xs[2], Call.y, New) \o Tail(todo)
    BY Zenon DEF IntDivMod, DivisionCalls
<1> QED BY <1>1, <1>2

\* A divisor of 0..1 has a quotient on both sides of zero.
LEMMA QuotientsDiffer ==
    ASSUME Working, NEW a, a \in Columns(dom), NEW b, b \in Columns(dom)
    PROVE  ~(dom[b] = 0 .. 1 /\ quotients(a, b) = 0 .. 1)
<1>1. SUFFICES ASSUME dom[b] = 0 .. 1, quotients(a, b) = 0 .. 1 PROVE FALSE
    OBVIOUS
<1>2. lb(b) \in 0 .. 1 /\ lb(b) <= 0 /\ ub(b) \in Int
    <2>1. 0 \in dom[b] /\ lb(b) \in dom[b] /\ ub(b) \in Int /\ \A w \in dom[b] : lb(b) <= w
        BY <1>1, ColumnIs
    <2> QED BY <1>1, <2>1
<1>3. lb(b) = 0 /\ ~(lb(b) * ub(b) > 0)
    BY <1>2
<1>4. -Reach(a) .. Reach(a) = 0 .. 1
    BY <1>1, <1>3 DEF quotients
<1>5. Reach(a) \in Int /\ Reach(a) >= 0
    BY ReachIs
<1>6. PICK r \in Int : r = Reach(a) /\ r >= 0
    BY <1>5
<1>7. 1 \in -r .. r
    BY <1>4, <1>6
<1>8. -r \in -r .. r
    BY <1>6
<1>9. -r \in 0 .. 1
    BY <1>4, <1>6, <1>8
<1> QED BY <1>6, <1>7, <1>9

\* fzn_int_div and fzn_int_mod: product, remainder, its sign and its size.
LEMMA DivModReplaced ==
    ASSUME Formed, IntDivMod
    PROVE  Replaced
<1>1. PICK c, k, a, b, y, q, R, P, L, d, e :
          /\ c = Call /\ k = c.c /\ a = c.xs[1] /\ b = c.xs[2] /\ y = c.y
          /\ q = quotients(a, b) /\ R = Reach(b)
          /\ P = Products(b, q)
          /\ L = Len(dom) /\ d = dom /\ e = dom'
    OBVIOUS
<1>2. k \in {"div", "mod"} /\ Doing(k)
    BY <1>1 DEF IntDivMod, Doing
<1>3. /\ Heads /\ Working /\ Domains(dom) /\ Domains(d) /\ Proper(Call, d)
      /\ a \in Columns(dom) /\ b \in Columns(dom) /\ y \in Columns(dom)
      /\ a \in Columns(d) /\ b \in Columns(d) /\ y \in Columns(d)
    BY <1>1, <1>2, DivisionHead
<1>4. \A s : Holds(Call, s) <=>
        /\ s[b] # 0
        /\ s[y] = IF k = "div" THEN Quot(s[a], s[b]) ELSE s[a] - s[b] * Quot(s[a], s[b])
    BY <1>1, <1>2, DivisionHead
<1>5. R \in Int /\ R >= 0 /\ \A v \in dom[b] : v \in Int /\ Abs(v) <= R
    BY <1>1, <1>3, ReachIs
<1>6. Finite(q) /\ q # {} /\ \A v \in dom[a], w \in dom[b] : w # 0 => Quot(v, w) \in q
    BY <1>1, <1>3, QuotientsAre
<1>7. Finite(P) /\ P # {} /\ \A v \in dom[b], z \in q : v * z \in P
    BY <1>1, <1>3, <1>6, ProductsAre
<1>8. PICK fixed, n, m, x, f, F, calls :
          /\ fixed = is_fixed(b) /\ n = (IF fixed THEN 4 ELSE 5) /\ m = fix(b)
          /\ x = (IF k = "div" THEN L + 1 ELSE L + 2)
          /\ f = <<q, 1 - R .. R - 1, 0 .. 1, 1 .. R>> \o (IF fixed THEN <<>> ELSE <<P>>)
          /\ F = (IF fixed THEN <<Eq(<<m, 1, -1>>, <<L + 1, L + 2, a>>, 0)>>
                  ELSE <<Nary("times", <<b, L + 1>>, L + 5), Eq(<<1, -1, -1>>, <<a, L + 5, L + 2>>, 0)>>)
          /\ calls = F \o <<LeReif(<<-1>>, <<a>>, 0, L + 3), LeImp(<<-1>>, <<L + 2>>, 0, L + 3),
                            LeImpNot(<<1>>, <<L + 2>>, 0, L + 3), Nary("abs", <<b>>, L + 4),
                            Le(<<-1, 1>>, <<L + 4, L + 2>>, -1), Le(<<-1, -1>>, <<L + 4, L + 2>>, -1),
                            Eq(<<1, -1>>, <<y, x>>, 0)>>
    OBVIOUS
<1>9. e = d \o f
    <2>1. dom' = dom \o DivisionFill(b, q, R, P)
        BY <1>1, <1>3, <1>6, <1>7, DivModIs
    <2> QED BY <1>1, <1>8, <2>1, Zenon DEF DivisionFill
<1>10. todo' = calls \o Tail(todo)
    <2>1. calls = DivisionCalls(k, a, b, y, L)
        BY <1>8, Zenon DEF DivisionCalls
    <2>2. calls = DivisionCalls(Call.c, Call.xs[1], Call.xs[2], Call.y, Len(dom))
        BY <1>1, <2>1
    <2> QED BY <2>2, DivModTodo
<1>11. UNCHANGED <<model, out, shared>>
    BY Zenon DEF IntDivMod
<1>12. fixed \in BOOLEAN
    BY <1>8 DEF is_fixed
<1>13. Division(d, e, q, R, P, fixed)
    <2>1. PICK A, B, C : A = 1 - R .. R - 1 /\ B = 0 .. 1 /\ C = 1 .. R
        OBVIOUS
    <2>2. PICK S : S = SUBSET Int
        OBVIOUS
    <2>3. q \in S /\ A \in S /\ B \in S /\ C \in S /\ P \in S
        BY <1>6, <1>7, <2>1, <2>2 DEF Finite
    <2>4. Filled(<<q, A, B, C>> \o (IF fixed THEN <<>> ELSE <<P>>), S, IF fixed THEN 4 ELSE 5, q, A, B, C, P)
        BY <1>12, <2>3, FilledIs
    <2>5. Filled(f, SUBSET Int, n, q, 1 - R .. R - 1, 0 .. 1, 1 .. R, P)
        BY <1>8, <2>1, <2>2, <2>4, Zenon
    <2> QED BY <1>3, <1>5, <1>6, <1>7, <1>8, <1>9, <1>12, <2>5, DivisionIs
<1>14. L = Len(d)
    BY <1>1
<1>15. /\ Domains(e) /\ Longer(d, e) /\ Bigger(d, e) /\ L \in Nat /\ Extension(d, e, n)
       /\ e[L + 1] = q /\ e[L + 2] = 1 - R .. R - 1 /\ e[L + 3] = 0 .. 1 /\ e[L + 4] = 1 .. R
       /\ L + 1 \in Columns(e) /\ L + 2 \in Columns(e) /\ L + 3 \in Booleans(e) /\ L + 4 \in Columns(e)
       /\ ~fixed => e[L + 5] = P /\ L + 5 \in Columns(e)
    BY <1>8, <1>13, <1>14 DEF Division
<1>16. x \in Columns(e) /\ a \in Columns(e) /\ b \in Columns(e) /\ y \in Columns(e)
    <2>1. a \in Columns(e) /\ b \in Columns(e) /\ y \in Columns(e)
        BY <1>3, <1>15, ColumnsGrow
    <2> QED BY <1>8, <1>15, <2>1
<1>17. ASSUME NEW t, Fits(t, e)
       PROVE  \E s : Fits(s, d) /\ Alike(s, t, 1 .. Len(d)) /\ Alike(t, s, 1 .. Len(d))
                     /\ (Holds(Call, s) <=> Holds(Call, t)) /\ s[a] = t[a] /\ s[b] = t[b] /\ s[y] = t[y]
    <2>1. PICK s : Fits(s, d) /\ Alike(t, s, 1 .. Len(d)) /\ Alike(s, t, 1 .. Len(d))
        BY <1>3, <1>15, <1>17, Restricted
    <2>2. Holds(Call, s) <=> Holds(Call, t)
        BY <1>3, <2>1, HoldsExtended
    <2>3. s[a] = t[a] /\ s[b] = t[b] /\ s[y] = t[y]
        BY <1>3, <2>1 DEF Alike, Columns
    <2> QED BY <2>1, <2>2, <2>3
<1>18. fixed => m \in Int /\ \A t : Fits(t, e) => t[b] = m
    <2>1. ASSUME fixed PROVE m \in Int
        BY <1>3, <1>8, ColumnIs DEF fix
    <2>2. ASSUME fixed, NEW t, Fits(t, e) PROVE t[b] = m
        <3>1. PICK s : Fits(s, d) /\ s[b] = t[b]
            BY <1>17, <2>2
        <3>2. Fits(s, dom)
            BY <1>1, <3>1
        <3>3. s[b] = fix(b)
            BY <1>3, <1>8, <2>2, <3>2, ValueIs
        <3> QED BY <1>8, <3>1, <3>3
    <2> QED BY <2>1, <2>2
<1>19. Dividing(calls, a, b, y, x, L, fixed, e)
    BY <1>8, <1>12, <1>15, <1>16, <1>18, DividingIs
<1>20. calls \in Seq(Range(calls)) /\ \A j \in Range(calls) : Usual(j, e)
    BY <1>19 DEF Dividing
<1>21. ASSUME NEW t, Fits(t, e), Meets(t, Range(calls)) PROVE Holds(Call, t)
    <2>1. PICK v, w, z, r, g, j : v = t[a] /\ w = t[b] /\ z = t[L + 1] /\ r = t[L + 2] /\ g = t[L + 3] /\ j = t[L + 4]
        OBVIOUS
    <2>2. v \in Int /\ w \in Int /\ z \in Int /\ r \in Int /\ g \in {0, 1} /\ j \in Int /\ j \in 1 .. R
        BY <1>15, <1>16, <1>21, <2>1, FitsColumns
    <2>3. Signed(v, w, r, g, j) /\ t[y] = t[x] /\ v = w * z + r
        BY <1>19, <1>21, <2>1 DEF Dividing, Splits
    <2>4. j >= 1
        BY <1>5, <2>2
    <2>5. w # 0 /\ z = Quot(v, w) /\ r = v - w * Quot(v, w)
        BY <2>2, <2>3, <2>4, SignedDivides
    <2>6. t[y] = IF k = "div" THEN z ELSE r
        BY <1>8, <2>1, <2>3
    <2> QED BY <1>4, <2>1, <2>5, <2>6
<1>22. ASSUME NEW s, Fits(s, d), Holds(Call, s)
       PROVE  \E t : Fits(t, e) /\ Alike(s, t, 1 .. Len(d)) /\ Meets(t, Range(calls))
    <2>1. PICK v, w, z, r, g, j, u :
              /\ v = s[a] /\ w = s[b] /\ z = Quot(v, w) /\ r = v - w * z
              /\ g = (IF v >= 0 THEN 1 ELSE 0) /\ j = Abs(w) /\ u = w * z
        OBVIOUS
    <2>2. v \in Int /\ w \in Int /\ v \in dom[a] /\ w \in dom[b]
        BY <1>1, <1>3, <1>22, <2>1, FitsColumns
    <2>3. w # 0 /\ s[y] = IF k = "div" THEN z ELSE r
        BY <1>4, <1>22, <2>1
    <2>4. /\ z \in Int /\ r \in Int /\ g \in 0 .. 1 /\ j \in Int /\ j >= 1
          /\ Signed(v, w, r, g, j) /\ v = w * z + r /\ 1 - j <= r /\ r <= j - 1
        <3>1. v \in Int /\ w \in Int /\ w # 0 /\ j = Abs(w) /\ z = Quot(v, w) /\ r = v - w * z
            BY <2>1, <2>2, <2>3
        <3>2. g = (IF v >= 0 THEN 1 ELSE 0)
            BY <2>1, Zenon
        <3>3. z \in Int
            BY <3>1, <3>2, DividesSigned
        <3>4. r \in Int
            BY <3>1, <3>3
        <3>5. g \in 0 .. 1 /\ j \in Int
            BY <3>1, <3>2 DEF Abs
        <3>6. j >= 1
            BY <3>1 DEF Abs
        <3>7. Signed(v, w, r, g, j)
            BY <3>1, <3>2, DividesSigned
        <3>8. v = w * z + r
            BY <3>1, <3>3
        <3>9. 1 - j <= r /\ r <= j - 1
            BY <3>1, <3>2, DividesSigned
        <3> QED BY <3>3, <3>4, <3>5, <3>6, <3>7, <3>8, <3>9
    <2>5. z \in q /\ u \in P /\ j <= R
        BY <1>5, <1>6, <1>7, <2>1, <2>2, <2>3
    <2>6. PICK h : h = <<z, r, g, j, u>>
        OBVIOUS
    <2>7. h[1] = z /\ h[2] = r /\ h[3] = g /\ h[4] = j /\ h[5] = u
        BY <2>6
    <2>8. Suits(h, d, e, n)
        <3>1. ASSUME NEW i \in 1 .. n PROVE h[i] \in e[L + i]
            <4>1. i = 1 \/ i = 2 \/ i = 3 \/ i = 4 \/ (~fixed /\ i = 5)
                BY <1>8
            <4>2. r \in 1 - R .. R - 1 /\ j \in 1 .. R
                BY <1>5, <2>4, <2>5
            <4> QED BY <1>15, <2>4, <2>5, <2>7, <4>1, <4>2
        <3> QED BY <1>14, <3>1 DEF Suits
    <2>9. PICK t : Fits(t, e) /\ Alike(s, t, 1 .. Len(d)) /\ \A i \in 1 .. n : t[L + i] = h[i]
        BY <1>14, <1>15, <1>22, <2>8, Extended
    <2>10. t[L + 1] = z /\ t[L + 2] = r /\ t[L + 3] = g /\ t[L + 4] = j /\ (~fixed => t[L + 5] = u)
        BY <1>8, <2>7, <2>9
    <2>11. t[a] = v /\ t[b] = w /\ t[y] = s[y]
        BY <1>3, <2>1, <2>9 DEF Alike, Columns
    <2>12. t[y] = t[x]
        BY <1>8, <2>3, <2>10, <2>11
    <2>13. Signed(t[a], t[b], t[L + 2], t[L + 3], t[L + 4])
        BY <2>4, <2>10, <2>11
    <2>14. Splits(t, a, b, L + 1, L + 2) /\ (~fixed => Product(t, L + 5, b, L + 1))
        BY <2>1, <2>4, <2>10, <2>11 DEF Splits, Product
    <2>15. Meets(t, Range(calls))
        BY <1>19, <2>9, <2>12, <2>13, <2>14 DEF Dividing
    <2> QED BY <2>9, <2>15
<1>23. Sound(calls, dom') /\ Complete(calls, dom')
    BY <1>1, <1>21, <1>22 DEF Sound, Complete
<1>24. Domains(dom') /\ Longer(dom, dom') /\ \A j \in Range(calls) : Usual(j, dom')
    BY <1>1, <1>15, <1>20
<1>25. Multiplied(calls, dom')
    <2>1. ASSUME NEW i \in DOMAIN calls, calls[i].c = "times"
          PROVE  i = 1 /\ ~(e[calls[1].xs[1]] = 0 .. 1 /\ e[calls[1].xs[2]] = 0 .. 1)
        <3>1. i = 1 /\ calls[1].xs = <<b, L + 1>>
            BY <1>19, <2>1 DEF Dividing, OneProduct
        <3>2. calls[1].xs[1] = b /\ calls[1].xs[2] = L + 1
            BY <3>1
        <3>3. e[b] = dom[b] /\ e[L + 1] = q
            BY <1>1, <1>3, <1>15 DEF Longer, Columns
        <3>4. ~(dom[b] = 0 .. 1 /\ q = 0 .. 1)
            BY <1>1, <1>3, QuotientsDiffer
        <3> QED BY <3>1, <3>2, <3>3, <3>4
    <2> QED BY <1>1, <2>1 DEF Multiplied
<1> QED BY <1>3, <1>10, <1>11, <1>20, <1>23, <1>24, <1>25, UsualReplaced

\* A rewriting, whatever becomes of the encodings.
Reworked == \E calls : Rewritten(calls) /\ Expands(calls, dom') /\ NewTwos(calls)

\* The column a Boolean tells, one Boolean more.
TwoGrown(x, b, k) ==
    /\ Domains(dom') /\ Longer(dom, dom') /\ Bigger(dom, dom') /\ Len(dom) \in Nat /\ b = Len(dom) + 1
    /\ Extension(dom, dom', 1) /\ BitsFrom(dom, dom', 1) /\ b \in Booleans(dom') /\ b \in Columns(dom')
    /\ x \in Columns(dom) /\ x \in Columns(dom') /\ Plain(k, dom')
    /\ \A s : Fits(s, dom') => (Holds(k, s) <=> s[x] = IF s[b] = 1 THEN ub(x) ELSE lb(x))

LEMMA TwoStep ==
    ASSUME Formed, mip_two_valued_at, NEW x, x = Call.x, NEW b, b = Len(dom) + 1,
           NEW k, k = mip_two_valued(x, b), NEW calls, calls = <<k>>
    PROVE  /\ Heads /\ Working /\ Call.c = "two" /\ Rewritten(calls) /\ TwoGrown(x, b, k)
           /\ two' = [y \in DOMAIN two \cup {x} |-> IF y = x THEN b ELSE two[y]] /\ select' = select
<1>1. Doing("two")
    BY DEF mip_two_valued_at
<1>2. Working /\ Call.c = "two" /\ Proper(Call, dom) /\ Domains(dom)
    BY <1>1, WorkingIs
<1>3. Heads /\ todo # <<>>
    BY <1>2 DEF Heads, Flat, Working
<1>4. x \in Columns(dom)
    BY <1>2, GlobalParts
<1>5. /\ dom' = Append(dom, 0 .. 1) /\ todo' = calls \o Tail(todo) /\ UNCHANGED <<model, out, select>>
      /\ two' = [y \in DOMAIN two \cup {x} |-> IF y = x THEN b ELSE two[y]]
    BY DEF mip_two_valued_at, New
<1>6. Rewritten(calls)
    BY <1>2, <1>3, <1>5 DEF Rewritten, Flat
<1>7. /\ Domains(dom') /\ Longer(dom, dom') /\ Bigger(dom, dom') /\ Len(dom) \in Nat
      /\ Extension(dom, dom', 1) /\ BitsFrom(dom, dom', 1)
    <2>1. dom' = dom \o AllBits(1)
        <3>1. PICK S, I : S = SUBSET Int /\ I = 0 .. 1
            OBVIOUS
        <3>2. dom \in Seq(S) /\ I \in S
            BY <1>2, <3>1 DEF Domains
        <3>3. AllBits(1) = <<I>>
            BY <3>1 DEF AllBits
        <3>4. Append(dom, I) = dom \o <<I>>
            BY <3>2
        <3> QED BY <1>5, <3>1, <3>3, <3>4
    <2>2. PICK n \in Nat : n = 1
        OBVIOUS
    <2>3. dom' = dom \o AllBits(n)
        BY <2>1, <2>2
    <2>4. /\ Domains(dom') /\ Longer(dom, dom') /\ Bigger(dom, dom') /\ Len(dom) \in Nat
          /\ Extension(dom, dom', n) /\ BitsFrom(dom, dom', n)
        BY <1>2, <2>3, NewBits
    <2> QED BY <2>2, <2>4
<1>8. b \in Booleans(dom') /\ b \in Columns(dom') /\ x \in Columns(dom')
    <2>1. b \in Booleans(dom')
        BY <1>7 DEF BitsFrom
    <2> QED BY <1>2, <1>4, <1>7, <2>1, ColumnsGrow, FitsColumns DEF Booleans
<1>9. Plain(k, dom')
    BY <1>2, <1>4, <1>7, <1>8, TwoValuedIs
<1>10. ASSUME NEW s, Fits(s, dom') PROVE Holds(k, s) <=> s[x] = IF s[b] = 1 THEN ub(x) ELSE lb(x)
    <2>1. s[b] \in {0, 1}
        BY <1>7, <1>8, <1>10, FitsColumns
    <2> QED BY <1>2, <1>4, <1>7, <1>8, <1>10, <2>1, TwoValuedIs
<1> QED BY <1>2, <1>3, <1>4, <1>5, <1>6, <1>7, <1>8, <1>9, <1>10 DEF TwoGrown

LEMMA TwoReworked ==
    ASSUME Formed, mip_two_valued_at
    PROVE  Reworked /\ Selects'
<1>1. PICK x, b, k, calls : x = Call.x /\ b = Len(dom) + 1 /\ k = mip_two_valued(x, b) /\ calls = <<k>>
    OBVIOUS
<1>2. /\ Heads /\ Working /\ Call.c = "two" /\ Rewritten(calls) /\ TwoGrown(x, b, k)
      /\ two' = [y \in DOMAIN two \cup {x} |-> IF y = x THEN b ELSE two[y]] /\ select' = select
    <2>1. /\ Heads /\ Working /\ Call.c = "two" /\ Rewritten(calls) /\ TwoGrown(x, b, k) /\ select' = select
        BY <1>1, TwoStep
    <2>2. two' = [y \in DOMAIN two \cup {x} |-> IF y = x THEN b ELSE two[y]]
        BY <1>1 DEF mip_two_valued_at, New
    <2> QED BY <2>1, <2>2, Zenon
<1>3. /\ Domains(dom') /\ Longer(dom, dom') /\ Bigger(dom, dom') /\ Len(dom) \in Nat /\ b = Len(dom) + 1
      /\ Extension(dom, dom', 1) /\ BitsFrom(dom, dom', 1) /\ b \in Booleans(dom') /\ b \in Columns(dom')
      /\ x \in Columns(dom) /\ x \in Columns(dom') /\ Plain(k, dom')
    BY <1>2 DEF TwoGrown
<1>4. \A s : Fits(s, dom') => (Holds(k, s) <=> s[x] = IF s[b] = 1 THEN ub(x) ELSE lb(x))
    BY <1>2 DEF TwoGrown
<1>5. calls \in Seq(Range(calls)) /\ Range(calls) = {k}
    BY <1>1, OneCall
<1>6. Shaped(calls, dom') /\ NewTwos(calls)
    <2>1. CallList(calls, dom') /\ \A c \in Range(calls) : c.c \notin {"post", "two", "element", "element_live", "times"}
        BY <1>3, <1>5 DEF CallList, Plain
    <2>2. InTurn(calls, dom') /\ NewTwos(calls) /\ Multiplied(calls, dom')
        BY <2>1, PlainInTurn, NoneMultiplied
    <2> QED BY <1>3, <2>1, <2>2 DEF Shaped
<1>7. Sound(calls, dom')
    BY <1>2, HoldsEncoding DEF Sound
<1>8. Complete(calls, dom')
    <2>1. ASSUME NEW s, Fits(s, dom), s[x] \in {lb(x), ub(x)}
          PROVE  \E t : Fits(t, dom') /\ Alike(s, t, 1 .. Len(dom)) /\ Meets(t, Range(calls))
        <3>1. PICK v, h : v = (IF s[x] = ub(x) THEN 1 ELSE 0) /\ h = <<v>>
            OBVIOUS
        <3>2. v \in {0, 1} /\ h[1] = v
            BY <3>1
        <3>3. Suits(h, dom, dom', 1)
            <4>1. dom'[Len(dom) + 1] = 0 .. 1
                BY <1>3 DEF BitsFrom
            <4>2. h[1] \in dom'[Len(dom) + 1]
                BY <3>2, <4>1
            <4> QED BY <4>2 DEF Suits
        <3>4. PICK t : Fits(t, dom') /\ Alike(s, t, 1 .. Len(dom)) /\ \A i \in 1 .. 1 : t[Len(dom) + i] = h[i]
            <4>1. PICK n \in Nat : n = 1
                OBVIOUS
            <4>2. \E t : Fits(t, dom') /\ Alike(s, t, 1 .. Len(dom)) /\ \A i \in 1 .. n : t[Len(dom) + i] = h[i]
                BY <1>3, <2>1, <3>3, <4>1, Extended
            <4> QED BY <4>1, <4>2
        <3>5. t[b] = v
            BY <1>3, <3>2, <3>4
        <3>6. t[x] = s[x]
            BY <1>3, <3>4 DEF Alike, Columns
        <3>7. t[x] = IF t[b] = 1 THEN ub(x) ELSE lb(x)
            BY <2>1, <3>1, <3>5, <3>6
        <3>8. Holds(k, t)
            BY <1>4, <3>4, <3>7
        <3> QED BY <1>5, <3>4, <3>8 DEF Meets
    <2> QED BY <1>1, <1>2, <2>1 DEF Complete
<1>9. LooksUp(calls, dom')
    BY <1>2 DEF LooksUp
<1>10. Reworked
    BY <1>2, <1>6, <1>7, <1>8, <1>9 DEF Reworked, Expands
<1>11. Selects'
    <2>1. Selects /\ Columns(dom) \subseteq Columns(dom') /\ Booleans(dom) \subseteq Booleans(dom')
        BY <1>2, <1>3, ColumnsGrow DEF Working, Heads, Extension
    <2>2. \A y \in DOMAIN select : dom'[y] = dom[y]
        BY <1>3, <2>1 DEF Selects, Longer, Columns
    <2>3. (\A y \in DOMAIN select :
              /\ y \in Columns(dom) /\ Interval(dom[y], DOMAIN select[y])
              /\ \A v \in DOMAIN select[y] : select[y][v] \in Booleans(dom))'
        BY <1>2, <2>1, <2>2 DEF Selects
    <2>4. ASSUME NEW y \in DOMAIN two' PROVE y \in Columns(dom') /\ two'[y] \in Booleans(dom')
        BY <1>2, <1>3, <2>1, <2>4 DEF Selects
    <2> QED BY <2>3, <2>4 DEF Selects
<1> QED BY <1>10, <1>11

LEMMA TwoEncodes ==
    ASSUME Formed, mip_two_valued_at, Encodes, TwoEnds
    PROVE  Encodes'
<1>1. PICK x, b, k, calls : x = Call.x /\ b = Len(dom) + 1 /\ k = mip_two_valued(x, b) /\ calls = <<k>>
    OBVIOUS
<1>2. /\ Heads /\ Working /\ Call.c = "two" /\ Rewritten(calls) /\ TwoGrown(x, b, k)
      /\ two' = [y \in DOMAIN two \cup {x} |-> IF y = x THEN b ELSE two[y]] /\ select' = select
    <2>1. /\ Heads /\ Working /\ Call.c = "two" /\ Rewritten(calls) /\ TwoGrown(x, b, k) /\ select' = select
        BY <1>1, TwoStep
    <2>2. two' = [y \in DOMAIN two \cup {x} |-> IF y = x THEN b ELSE two[y]]
        BY <1>1 DEF mip_two_valued_at, New
    <2> QED BY <2>1, <2>2, Zenon
<1>3. calls \in Seq(Range(calls)) /\ Range(calls) = {k} /\ Typed /\ Selects
    BY <1>1, OneCall DEF Formed
<1>4. Shaped(calls, dom')
    <2>1. CallList(calls, dom') /\ \A c \in Range(calls) : c.c \notin {"post", "two", "element", "element_live", "times"}
        BY <1>2, <1>3 DEF CallList, Plain, TwoGrown
    <2>2. InTurn(calls, dom') /\ Multiplied(calls, dom')
        BY <2>1, PlainInTurn, NoneMultiplied
    <2> QED BY <1>2, <2>1, <2>2 DEF Shaped, TwoGrown
<1>5. lb(x) \in Int /\ ub(x) \in Int /\ lb(x) < ub(x) /\ dom[x] \subseteq lb(x) .. ub(x) /\ dom'[x] = dom[x]
    <2>1. Call \in Asked
        BY <1>2, <1>3, HeadIs DEF Working
    <2>2. lb(x) < ub(x)
        BY <1>1, <1>2, <2>1 DEF TwoEnds, AtEnds
    <2>3. x \in Columns(dom) /\ Longer(dom, dom')
        BY <1>2 DEF TwoGrown
    <2>4. lb(x) \in Int /\ ub(x) \in Int /\ \A w \in dom[x] : w \in Int /\ lb(x) <= w /\ w <= ub(x)
        BY <1>2, <2>3, ColumnIs
    <2> QED BY <2>2, <2>3, <2>4 DEF Longer, Columns
<1>6. k.c = "int_lin_eq"
    BY <1>1, SMT DEF mip_two_valued, Eq, Lin
<1>7. k \in Equations'
    <2>1. k \in Asked'
        BY <1>2, <1>3, <1>4, AfterIs
    <2> QED BY <1>6, <2>1 DEF Equations
<1>8. ASSUME NEW s, Fits(s, dom'), Meets(s, Equations') PROVE EncodedAt(s)'
    <2>1. EncodedAt(s)
        BY <1>2, <1>4, <1>8, StillEncoded
    <2>2. Holds(k, s)
        BY <1>7, <1>8 DEF Meets
    <2>3. s[x] = IF s[b] = 1 THEN ub(x) ELSE lb(x)
        BY <1>2, <1>8, <2>2 DEF TwoGrown
    <2>4. \A y, v : mip_select_at(y, v)' = mip_select_at(y, v)
        BY <1>2 DEF mip_select_at
    <2>5. (\A y \in DOMAIN select : \A v \in Int : s[mip_select_at(y, v)] = 1 <=> s[y] = v)'
        BY <1>2, <2>1, <2>4 DEF EncodedAt
    <2>6. ASSUME NEW y \in DOMAIN two'
          PROVE  \E lo, hi \in Int : /\ lo < hi /\ dom'[y] \subseteq lo .. hi
                                     /\ s[y] = IF s[two'[y]] = 1 THEN hi ELSE lo
        <3>1. CASE y = x
            BY <1>2, <1>5, <2>3, <3>1
        <3>2. CASE y # x
            <4>1. y \in DOMAIN two /\ two'[y] = two[y]
                BY <1>2, <2>6, <3>2
            <4>2. dom'[y] = dom[y]
                BY <1>2, <1>3, <4>1 DEF Selects, Longer, Columns, TwoGrown
            <4> QED BY <2>1, <4>1, <4>2 DEF EncodedAt
        <3> QED BY <3>1, <3>2
    <2> QED BY <2>5, <2>6 DEF EncodedAt
<1> QED BY <1>8 DEF Encodes

\* The indicators of a column's interval, the constant false in a hole.
BitPerValue(p, x, e) ==
    /\ \A v \in lb(x) .. ub(x) : p[v] \in Booleans(e)
    /\ \A v \in lb(x) .. ub(x) : v \notin dom[x] => p[v] = 1

\* One column of a sum is 1 and the others are 0.
SetAt(xs, a, k) == \A i \in 1 .. Len(xs) : a[xs[i]] = IF i = k THEN 1 ELSE 0

LEMMA SumSetAt ==
    ASSUME NEW co, NEW xs, NEW a, Summable(co, xs, a), NEW k, k \in 1 .. Len(xs), SetAt(xs, a, k)
    PROVE  SumOf(co, xs, a) = co[k]
BY SumOneHot DEF SetAt

\* The value the column has is the one whose indicator is 1.
Told(p, x, t) == \A v \in lb(x) .. ub(x) : t[p[v]] = IF v = t[x] THEN 1 ELSE 0

Chooses(q1, q2, p, x, e) ==
    /\ Plain(q1, e) /\ Plain(q2, e) /\ q1.c = "int_lin_eq" /\ q2.c = "int_lin_eq"
    /\ \A t : Fits(t, e) => (Holds(q1, t) /\ Holds(q2, t) <=> Told(p, x, t))

LEMMA SelectRows ==
    ASSUME Working, NEW e, Domains(e), Longer(dom, e), NEW x, x \in Columns(dom),
           NEW p, DOMAIN p = lb(x) .. ub(x), BitPerValue(p, x, e),
           NEW vs, vs = Asc(DOMAIN p), NEW ps, ps = [i \in DOMAIN vs |-> p[vs[i]]],
           NEW q1, q1 = Eq(Same(1, DOMAIN p), ps, 1),
           NEW q2, q2 = (IF card(x) = 2 THEN mip_two_valued(x, p[ub(x)]) ELSE Eq(Append(vs, -1), Append(ps, x), 0))
    PROVE  Chooses(q1, q2, p, x, e)
<1>1. PICK l, u, I, n : l = lb(x) /\ u = ub(x) /\ I = l .. u /\ n = Cardinality(I)
    OBVIOUS
<1>2. /\ l \in Int /\ u \in Int /\ l <= u /\ Domains(dom) /\ dom[x] # {} /\ Finite(dom[x])
      /\ l \in dom[x] /\ u \in dom[x] /\ \A w \in dom[x] : w \in Int /\ l <= w /\ w <= u
    BY <1>1, ColumnIs DEF Working, Typed
<1>3. Finite(I) /\ DOMAIN p = I
    BY <1>1, <1>2, IntervalFinite
<1>4. /\ n \in Nat /\ DOMAIN vs = 1 .. n /\ Len(vs) = n /\ vs \in Seq(I)
      /\ \A i \in 1 .. n : vs[i] \in I /\ vs[i] \in Int
      /\ \A v \in I : \E i \in 1 .. n : vs[i] = v
    BY <1>1, <1>3, AscIs
<1>5. \A i, j \in 1 .. n : vs[i] = vs[j] => i = j
    <2>1. Distinct(Asc(I), Cardinality(I))
        BY <1>3, AscDistinct
    <2> QED BY <1>1, <1>3, <2>1 DEF Distinct
<1>6. ps = [i \in 1 .. n |-> ps[i]] /\ \A i \in 1 .. n : ps[i] = p[vs[i]]
    BY <1>4
<1>7. \A v \in I : p[v] \in Booleans(e) /\ p[v] \in Columns(e) /\ (v \notin dom[x] => p[v] = 1)
    BY <1>1 DEF BitPerValue, Booleans, Columns
<1>8. Bigger(dom, e) /\ x \in Columns(e) /\ e[x] = dom[x] /\ u \in I
    <2>1. Bigger(dom, e) /\ u \in I
        BY <1>1, <1>2, LongerIs
    <2> QED BY <1>2, <2>1, ColumnsGrow DEF Longer, Columns
<1>9. PICK co, less : co = Same(1, I) /\ less = -1 /\ less \in Int
    <2>1. -1 \in Int
        OBVIOUS
    <2> QED BY <2>1
<1>10. co = [i \in 1 .. n |-> 1]
    BY <1>1, <1>9 DEF Same
<1>11. /\ ps \in Seq(Columns(e)) /\ ps \in Seq(Booleans(e)) /\ Len(ps) = n
       /\ co \in Seq(Int) /\ Len(co) = n /\ vs \in Seq(Int)
    <2>1. \A i \in 1 .. n : ps[i] \in Columns(e) /\ ps[i] \in Booleans(e)
        BY <1>4, <1>6, <1>7
    <2>2. ps \in Seq(Columns(e)) /\ ps \in Seq(Booleans(e)) /\ Len(ps) = n
        <3>1. ps \in [1 .. n -> Columns(e)] /\ ps \in [1 .. n -> Booleans(e)]
            BY <1>4, <1>6, <2>1
        <3>2. Len(ps) = n
            BY <1>4, <1>6
        <3>3. n \in Nat
            BY <1>4
        <3> QED BY <3>1, <3>2, <3>3
    <2>3. co \in Seq(Int) /\ Len(co) = n
        BY <1>4, <1>10
    <2>4. I \subseteq Int
        BY <1>1, <1>2
    <2> QED BY <1>4, <2>2, <2>3, <2>4
<1>12. Row(co, ps, 1, e) /\ Row(vs, ps, 0, e)
    BY <1>4, <1>11 DEF Row
<1>13. q1 = Eq(co, ps, 1)
    BY <1>3, <1>9
<1>14. Plain(q1, e) /\ q1.c = "int_lin_eq"
    BY <1>12, <1>13, MadeEq DEF Plain
<1>17. ASSUME NEW t, Fits(t, e)
       PROVE  Holds(q1, t) <=> \E k \in 1 .. n : \A i \in 1 .. n : t[ps[i]] = IF i = k THEN 1 ELSE 0
    <2>1. Summable(co, ps, t)
        BY <1>12, <1>17, SummableIn
    <2>2. Bits(ps, t) /\ Ones(co, ps)
        <3>1. \A i \in 1 .. n : t[ps[i]] \in {0, 1}
            BY <1>4, <1>6, <1>7, <1>17, FitsColumns
        <3> QED BY <1>10, <1>11, <3>1 DEF Bits, Ones
    <2>3. SumOf(co, ps, t) = 1 <=> OneSet(ps, t)
        BY <2>1, <2>2, SumOfBits
    <2>4. Holds(q1, t) <=> SumOf(co, ps, t) = 1
        BY <1>13, EqHolds
    <2>5. OneSet(ps, t) <=> \E k \in 1 .. n : \A i \in 1 .. n : t[ps[i]] = IF i = k THEN 1 ELSE 0
        <3>1. PICK m : m = Len(ps)
            OBVIOUS
        <3>2. OneSet(ps, t) <=> \E k \in 1 .. m : \A i \in 1 .. m : t[ps[i]] = IF i = k THEN 1 ELSE 0
            BY <3>1 DEF OneSet
        <3>3. m = n
            BY <1>11, <3>1
        <3> QED BY <3>2, <3>3
    <2> QED BY <2>3, <2>4, <2>5
<1>15. CASE card(x) = 2
    <2>1. q2 = mip_two_valued(x, p[u])
        BY <1>1, <1>15
    <2>2. PICK b : b = p[u]
        OBVIOUS
    <2>3. b \in Columns(e) /\ b \in Booleans(e)
        BY <1>7, <1>8, <2>2
    <2>4. Plain(q2, e)
        BY <1>8, <2>1, <2>2, <2>3, TwoValuedIs
    <2>5. q2.c = "int_lin_eq"
        BY <2>1, SMT DEF mip_two_valued, Eq, Lin
    <2>6. dom[x] = {l, u} /\ l < u
        BY <1>1, <1>15, BinaryIs
    <2>7. ASSUME NEW t, Fits(t, e) PROVE Holds(q2, t) <=> t[x] = IF t[p[u]] = 1 THEN u ELSE l
        <3>1. t[b] \in {0, 1}
            BY <2>3, <2>7, FitsColumns
        <3>2. Holds(mip_two_valued(x, b), t) <=> t[x] = IF t[b] = 1 THEN ub(x) ELSE lb(x)
            BY <1>8, <2>3, <2>7, <3>1, TwoValuedIs
        <3> QED BY <1>1, <2>1, <2>2, <3>2
    <2>8. ASSUME NEW t, Fits(t, e) PROVE Holds(q1, t) /\ Holds(q2, t) <=> Told(p, x, t)
        <3>1. /\ t[x] \in dom[x] /\ t[x] \in Int /\ t[x] \in I
            BY <1>1, <1>2, <1>8, <2>8, FitsColumns
        <3>2. Holds(q1, t) <=> \E k \in 1 .. n : \A i \in 1 .. n : t[ps[i]] = IF i = k THEN 1 ELSE 0
            BY <1>17, <2>8
        <3>3. ASSUME Holds(q1, t), Holds(q2, t) PROVE Told(p, x, t)
            <4>1. PICK k \in 1 .. n : \A i \in 1 .. n : t[ps[i]] = IF i = k THEN 1 ELSE 0
                BY <3>2, <3>3
            <4>2. \A i \in 1 .. n : t[p[vs[i]]] = IF i = k THEN 1 ELSE 0
                BY <1>6, <4>1
            <4>3. vs[k] \in {l, u}
                <5>1. ASSUME vs[k] \notin dom[x] PROVE FALSE
                    <6>1. t[1] = 1
                        BY <1>4, <1>7, <4>2, <5>1
                    <6>2. t[1] = 0
                        <7>1. 1 \in Columns(e) /\ e[1] = dom[1] /\ dom[1] \subseteq {0}
                            BY <1>2, <1>8, DomainsAre DEF Working, Typed, Bigger, Longer, Columns
                        <7> QED BY <2>8, <7>1, FitsColumns
                    <6> QED BY <6>1, <6>2
                <5> QED BY <2>6, <5>1
            <4>4. PICK j \in 1 .. n : vs[j] = u
                BY <1>4, <1>8
            <4>5. t[x] = vs[k]
                BY <2>6, <2>7, <2>8, <3>3, <4>2, <4>3, <4>4
            <4>6. ASSUME NEW v \in I PROVE t[p[v]] = IF v = t[x] THEN 1 ELSE 0
                <5>1. PICK i \in 1 .. n : vs[i] = v
                    BY <1>4
                <5> QED BY <1>5, <4>2, <4>5, <5>1
            <4> QED BY <1>1, <4>6 DEF Told
        <3>4. ASSUME Told(p, x, t) PROVE Holds(q1, t) /\ Holds(q2, t)
            <4>1. \A v \in I : t[p[v]] = IF v = t[x] THEN 1 ELSE 0
                BY <1>1, <3>4 DEF Told
            <4>2. PICK k \in 1 .. n : vs[k] = t[x]
                BY <1>4, <3>1
            <4>3. \A i \in 1 .. n : t[ps[i]] = IF i = k THEN 1 ELSE 0
                BY <1>4, <1>5, <1>6, <4>1, <4>2
            <4>4. t[p[u]] = IF u = t[x] THEN 1 ELSE 0
                BY <1>8, <4>1
            <4>5. t[x] = IF t[p[u]] = 1 THEN u ELSE l
                BY <2>6, <3>1, <4>4
            <4> QED BY <2>7, <2>8, <3>2, <4>3, <4>5
        <3> QED BY <3>3, <3>4
    <2> QED BY <1>14, <2>4, <2>5, <2>8 DEF Chooses
<1>16. CASE card(x) # 2
    <2>1. q2 = Eq(Append(vs, less), Append(ps, x), 0)
        BY <1>9, <1>16
    <2>2. Row(Append(vs, less), Append(ps, x), 0, e)
        BY <1>8, <1>9, <1>12, AppendedIs
    <2>3. Plain(q2, e) /\ q2.c = "int_lin_eq"
        BY <2>1, <2>2, MadeEq DEF Plain
    <2>8. ASSUME NEW t, Fits(t, e) PROVE Holds(q1, t) /\ Holds(q2, t) <=> Told(p, x, t)
        <3>1. /\ t[x] \in dom[x] /\ t[x] \in Int /\ t[x] \in I
            BY <1>1, <1>2, <1>8, <2>8, FitsColumns
        <3>2. Holds(q1, t) <=> \E k \in 1 .. n : \A i \in 1 .. n : t[ps[i]] = IF i = k THEN 1 ELSE 0
            BY <1>17, <2>8
        <3>3. ASSUME NEW k \in 1 .. n, \A i \in 1 .. n : t[ps[i]] = IF i = k THEN 1 ELSE 0
              PROVE  Holds(q2, t) <=> t[x] = vs[k]
            <4>1. Summable(vs, ps, t)
                BY <1>12, <2>8, SummableIn
            <4>2. SumOf(vs, ps, t) = vs[k]
                <5>1. k \in 1 .. Len(ps) /\ \A i \in 1 .. Len(ps) : t[ps[i]] = IF i = k THEN 1 ELSE 0
                    BY <1>11, <3>3
                <5>2. SetAt(ps, t, k)
                    BY <5>1 DEF SetAt
                <5> QED BY <4>1, <5>1, <5>2, SumSetAt
            <4>3. SumOf(Append(vs, less), Append(ps, x), t) = SumOf(vs, ps, t) + less * t[x]
                BY <1>8, <1>9, <1>12, <2>8, AppendedIs
            <4>4. Holds(q2, t) <=> SumOf(Append(vs, less), Append(ps, x), t) = 0
                BY <2>1, EqHolds
            <4>5. less * t[x] = -t[x] /\ vs[k] \in Int
                BY <1>4, <1>9, <3>1
            <4> QED BY <3>1, <4>2, <4>3, <4>4, <4>5
        <3>4. ASSUME Holds(q1, t), Holds(q2, t) PROVE Told(p, x, t)
            <4>1. PICK k \in 1 .. n : \A i \in 1 .. n : t[ps[i]] = IF i = k THEN 1 ELSE 0
                BY <3>2, <3>4
            <4>2. t[x] = vs[k]
                BY <3>3, <3>4, <4>1
            <4>3. ASSUME NEW v \in I PROVE t[p[v]] = IF v = t[x] THEN 1 ELSE 0
                <5>1. PICK i \in 1 .. n : vs[i] = v
                    BY <1>4
                <5>2. t[p[v]] = IF i = k THEN 1 ELSE 0
                    BY <1>6, <4>1, <5>1
                <5> QED BY <1>5, <4>2, <5>1, <5>2
            <4> QED BY <1>1, <4>3 DEF Told
        <3>5. ASSUME Told(p, x, t) PROVE Holds(q1, t) /\ Holds(q2, t)
            <4>1. \A v \in I : t[p[v]] = IF v = t[x] THEN 1 ELSE 0
                BY <1>1, <3>5 DEF Told
            <4>2. PICK k \in 1 .. n : vs[k] = t[x]
                BY <1>4, <3>1
            <4>3. \A i \in 1 .. n : t[ps[i]] = IF i = k THEN 1 ELSE 0
                BY <1>4, <1>5, <1>6, <4>1, <4>2
            <4> QED BY <3>2, <3>3, <4>2, <4>3
        <3> QED BY <3>4, <3>5
    <2> QED BY <1>14, <2>3, <2>8 DEF Chooses
<1> QED BY <1>15, <1>16

\* A column's indicators, made.
Indicators(x) == [v \in lb(x) .. ub(x) |-> mip_select_bit(x, v)]

SelectGrown(x, p) ==
    /\ Domains(dom') /\ Longer(dom, dom') /\ Bigger(dom, dom') /\ Len(dom) \in Nat
    /\ Extension(dom, dom', card(x)) /\ BitsFrom(dom, dom', card(x)) /\ x \in Columns(dom)
    /\ DOMAIN p = lb(x) .. ub(x) /\ BitPerValue(p, x, dom')
    /\ \A v \in dom[x] : p[v] = Len(dom) + Rank(dom[x], v)

SelectCalls(x, p) ==
    LET vs == Asc(DOMAIN p)  ps == [i \in DOMAIN vs |-> p[vs[i]]] IN
    <<Eq(Same(1, DOMAIN p), ps, 1),
      IF card(x) = 2 THEN mip_two_valued(x, p[ub(x)]) ELSE Eq(Append(vs, -1), Append(ps, x), 0)>>

LEMMA SelectIs ==
    ASSUME Formed, mip_select, NEW x, x = Call.x, NEW p, p = Indicators(x)
    PROVE  /\ Doing("select") /\ dom' = dom \o AllBits(card(x))
           /\ todo' = SelectCalls(x, p) \o Tail(todo)
           /\ UNCHANGED <<model, out, two>>
<1>1. Doing("select") /\ UNCHANGED <<model, out, two>>
    BY Zenon DEF mip_select
<1>2. dom' = dom \o AllBits(card(x))
    BY Zenon DEF mip_select, AllBits
<1>3. todo' = SelectCalls(Call.x, Indicators(Call.x)) \o Tail(todo)
    BY Zenon DEF mip_select, Indicators, SelectCalls
<1> QED BY <1>1, <1>2, <1>3, Zenon

LEMMA SelectStep ==
    ASSUME Formed, mip_select, NEW x, x = Call.x, NEW p, p = Indicators(x),
           NEW calls, calls = SelectCalls(x, p)
    PROVE  /\ Heads /\ Working /\ Call.c = "select" /\ Rewritten(calls) /\ SelectGrown(x, p)
           /\ two' = two
<1>1. Doing("select") /\ dom' = dom \o AllBits(card(x)) /\ UNCHANGED <<model, out, two>>
    BY SelectIs
<1>2. todo' = calls \o Tail(todo)
    BY SelectIs
<1>3. Working /\ Call.c = "select" /\ Proper(Call, dom) /\ Domains(dom) /\ 1 \in Booleans(dom)
    BY <1>1, WorkingIs
<1>4. Heads /\ todo # <<>>
    BY <1>3 DEF Heads, Flat, Working
<1>5. Rewritten(calls)
    BY <1>1, <1>2, <1>3, <1>4 DEF Rewritten, Flat
<1>6. x \in Columns(dom)
    BY <1>3, GlobalParts
<1>7. PICK n : n = card(x)
    OBVIOUS
<1>8. n \in Nat /\ Finite(dom[x]) /\ n = Cardinality(dom[x])
    BY <1>3, <1>6, <1>7, ColumnIs DEF card
<1>9. /\ Domains(dom') /\ Longer(dom, dom') /\ Bigger(dom, dom') /\ Len(dom) \in Nat
      /\ Extension(dom, dom', n) /\ BitsFrom(dom, dom', n)
    BY <1>1, <1>3, <1>7, <1>8, NewBits
<1>10. DOMAIN p = lb(x) .. ub(x) /\ \A v \in lb(x) .. ub(x) : p[v] = mip_select_bit(x, v)
    BY DEF Indicators
<1>11. ASSUME NEW v \in lb(x) .. ub(x), v \in dom[x]
       PROVE  p[v] = Len(dom) + Rank(dom[x], v) /\ p[v] \in Booleans(dom')
    <2>1. p[v] = Len(dom) + Rank(dom[x], v)
        BY <1>10, <1>11 DEF mip_select_bit, New, Rank
    <2>2. Rank(dom[x], v) \in 1 .. n
        BY <1>8, <1>11, RankType
    <2> QED BY <1>9, <2>1, <2>2 DEF BitsFrom
<1>12. ASSUME NEW v \in lb(x) .. ub(x), v \notin dom[x] PROVE p[v] = 1 /\ p[v] \in Booleans(dom')
    <2>1. p[v] = 1
        BY <1>10, <1>12 DEF mip_select_bit, False
    <2> QED BY <1>3, <1>9, <2>1, ColumnsGrow
<1>13. BitPerValue(p, x, dom')
    BY <1>11, <1>12 DEF BitPerValue
<1>14. \A v \in dom[x] : v \in lb(x) .. ub(x)
    BY <1>3, <1>6, ColumnIs
<1>15. SelectGrown(x, p)
    BY <1>6, <1>7, <1>9, <1>10, <1>11, <1>13, <1>14 DEF SelectGrown
<1> QED BY <1>1, <1>3, <1>4, <1>5, <1>15

SelectListed(calls, x, p) ==
    \E q1, q2 : calls = <<q1, q2>> /\ Chooses(q1, q2, p, x, dom')

LEMMA SelectListedIs ==
    ASSUME Working, NEW x, NEW p, SelectGrown(x, p), NEW calls, calls = SelectCalls(x, p)
    PROVE  SelectListed(calls, x, p)
<1>1. PICK vs : vs = Asc(DOMAIN p)
    OBVIOUS
<1>2. PICK ps : ps = [i \in DOMAIN vs |-> p[vs[i]]]
    OBVIOUS
<1>3. PICK q1, q2 :
          /\ q1 = Eq(Same(1, DOMAIN p), ps, 1)
          /\ q2 = (IF card(x) = 2 THEN mip_two_valued(x, p[ub(x)]) ELSE Eq(Append(vs, -1), Append(ps, x), 0))
    OBVIOUS
<1>4. calls = <<q1, q2>>
    BY <1>1, <1>2, <1>3, Zenon DEF SelectCalls
<1>5. Domains(dom') /\ Longer(dom, dom') /\ x \in Columns(dom) /\ DOMAIN p = lb(x) .. ub(x) /\ BitPerValue(p, x, dom')
    BY DEF SelectGrown
<1>6. Chooses(q1, q2, p, x, dom')
    BY <1>1, <1>2, <1>3, <1>5, SelectRows
<1> QED BY <1>4, <1>6 DEF SelectListed

\* What the two rows are, listed.
LEMMA SelectShaped ==
    ASSUME Working, NEW x, NEW p, SelectGrown(x, p), NEW calls, SelectListed(calls, x, p)
    PROVE  /\ Shaped(calls, dom') /\ NewTwos(calls)
           /\ \A c \in Range(calls) : c.c = "int_lin_eq"
           /\ \A t : Fits(t, dom') => (Meets(t, Range(calls)) <=> Told(p, x, t))
<1>1. PICK q1, q2 : calls = <<q1, q2>> /\ Chooses(q1, q2, p, x, dom')
    BY DEF SelectListed
<1>2. /\ Plain(q1, dom') /\ Plain(q2, dom') /\ q1.c = "int_lin_eq" /\ q2.c = "int_lin_eq"
      /\ \A t : Fits(t, dom') => (Holds(q1, t) /\ Holds(q2, t) <=> Told(p, x, t))
    BY <1>1 DEF Chooses
<1>3. calls \in Seq(Range(calls)) /\ Range(calls) = {q1, q2}
    BY <1>1, TwoCalls
<1>4. CallList(calls, dom') /\ \A c \in Range(calls) : c.c \notin {"post", "two", "element", "element_live", "times"}
    BY <1>2, <1>3 DEF CallList, Plain
<1>5. InTurn(calls, dom') /\ NewTwos(calls) /\ Multiplied(calls, dom')
    BY <1>4, PlainInTurn, NoneMultiplied
<1>6. Shaped(calls, dom')
    BY <1>4, <1>5 DEF Shaped, SelectGrown
<1> QED BY <1>2, <1>3, <1>5, <1>6 DEF Meets

LEMMA SelectReworked ==
    ASSUME Formed, mip_select
    PROVE  Reworked /\ Selects'
<1>1. PICK x : x = Call.x
    OBVIOUS
<1>2. PICK p : p = Indicators(x)
    OBVIOUS
<1>3. PICK calls : calls = SelectCalls(x, p)
    OBVIOUS
<1>4. Heads /\ Working /\ Call.c = "select" /\ Rewritten(calls) /\ SelectGrown(x, p) /\ two' = two
    BY <1>1, <1>2, <1>3, SelectStep
<1>5. select' = [y \in DOMAIN select \cup {x} |-> IF y = x THEN p ELSE select[y]]
    <2>1. select' = [y \in DOMAIN select \cup {Call.x} |-> IF y = Call.x THEN Indicators(Call.x) ELSE select[y]]
        BY Zenon DEF mip_select, Indicators
    <2> QED BY <1>1, <1>2, <2>1, Zenon
<1>6. SelectListed(calls, x, p)
    BY <1>3, <1>4, SelectListedIs
<1>7. /\ Shaped(calls, dom') /\ NewTwos(calls)
      /\ \A t : Fits(t, dom') => (Meets(t, Range(calls)) <=> Told(p, x, t))
    BY <1>4, <1>6, SelectShaped
<1>8. /\ Domains(dom') /\ Longer(dom, dom') /\ Bigger(dom, dom') /\ Len(dom) \in Nat
      /\ Extension(dom, dom', card(x)) /\ BitsFrom(dom, dom', card(x)) /\ x \in Columns(dom)
      /\ DOMAIN p = lb(x) .. ub(x) /\ BitPerValue(p, x, dom')
      /\ \A v \in dom[x] : p[v] = Len(dom) + Rank(dom[x], v)
    BY <1>4 DEF SelectGrown
<1>9. Sound(calls, dom')
    BY <1>4, HoldsEncoding DEF Sound
<1>10. Complete(calls, dom')
    <2>1. ASSUME NEW s, Fits(s, dom)
          PROVE  \E t : Fits(t, dom') /\ Alike(s, t, 1 .. Len(dom)) /\ Meets(t, Range(calls))
        <3>1. Finite(dom[x]) /\ s[x] \in dom[x] /\ card(x) = Cardinality(dom[x])
            BY <1>4, <1>8, <2>1, ColumnIs, ValueIs DEF card
        <3>2. PICK k, n : k = Rank(dom[x], s[x]) /\ n = card(x)
            OBVIOUS
        <3>3. k \in 1 .. n
            BY <3>1, <3>2, RankType
        <3>4. PICK t : Fits(t, dom') /\ Alike(s, t, 1 .. Len(dom)) /\ Hot(dom, n, t, k)
            <4>1. HotFree(dom, dom', n)
                BY <1>8, <3>2, HotIsFree
            <4> QED BY <2>1, <3>3, <4>1 DEF HotFree
        <3>5. t[x] = s[x] /\ t[1] = 0
            <4>1. t[x] = s[x]
                BY <1>8, <3>4 DEF Alike, Columns
            <4>2. Domains(dom) /\ 1 \in Columns(dom) /\ dom[1] \subseteq {0} /\ s[1] = t[1]
                BY <1>4, <3>4, DomainsAre DEF Working, Typed, Bigger, Alike, Columns
            <4>3. s[1] \in dom[1]
                BY <2>1, <4>2, FitsColumns
            <4> QED BY <4>1, <4>2, <4>3
        <3>6. ASSUME NEW v \in lb(x) .. ub(x) PROVE t[p[v]] = IF v = t[x] THEN 1 ELSE 0
            <4>1. CASE v \in dom[x]
                <5>1. p[v] = Len(dom) + Rank(dom[x], v) /\ Rank(dom[x], v) \in 1 .. n
                    BY <1>8, <3>1, <3>2, <4>1, RankType
                <5>2. t[p[v]] = IF Rank(dom[x], v) = k THEN 1 ELSE 0
                    BY <3>4, <5>1 DEF Hot
                <5>3. Rank(dom[x], v) = k <=> v = s[x]
                    <6>1. v \in Int /\ s[x] \in Int
                        BY <3>1, <4>1 DEF Finite
                    <6>2. v < s[x] => Rank(dom[x], v) < k
                        BY <3>1, <3>2, <4>1, RankOrder
                    <6>3. s[x] < v => k < Rank(dom[x], v)
                        BY <3>1, <3>2, <4>1, RankOrder
                    <6>4. k \in Int /\ Rank(dom[x], v) \in Int
                        BY <3>3, <5>1
                    <6> QED BY <3>2, <6>1, <6>2, <6>3, <6>4
                <5> QED BY <3>5, <5>2, <5>3
            <4>2. CASE v \notin dom[x]
                <5>1. p[v] = 1
                    BY <1>8, <4>2 DEF BitPerValue
                <5> QED BY <3>1, <3>5, <4>2, <5>1
            <4> QED BY <4>1, <4>2
        <3>7. Told(p, x, t)
            BY <3>6 DEF Told
        <3> QED BY <1>7, <3>4, <3>7
    <2> QED BY <2>1 DEF Complete
<1>11. LooksUp(calls, dom')
    BY <1>4 DEF LooksUp
<1>12. Reworked
    BY <1>4, <1>7, <1>9, <1>10, <1>11 DEF Reworked, Expands
<1>13. Selects'
    <2>1. Selects /\ Columns(dom) \subseteq Columns(dom') /\ Booleans(dom) \subseteq Booleans(dom')
        BY <1>4, <1>8, ColumnsGrow DEF Working, Extension
    <2>2. dom'[x] = dom[x] /\ \A y \in DOMAIN select : dom'[y] = dom[y]
        BY <1>8, <2>1 DEF Selects, Longer, Columns
    <2>3. Interval(dom[x], DOMAIN p)
        BY <1>4, <1>8, ColumnIs DEF Interval
    <2>4. \A v \in DOMAIN p : p[v] \in Booleans(dom')
        BY <1>8 DEF BitPerValue
    <2>5. ASSUME NEW y \in DOMAIN select'
          PROVE  /\ y \in Columns(dom') /\ Interval(dom'[y], DOMAIN select'[y])
                 /\ \A v \in DOMAIN select'[y] : select'[y][v] \in Booleans(dom')
        <3>1. CASE y = x
            <4>1. select'[y] = p
                BY <1>5, <2>5, <3>1
            <4> QED BY <1>8, <2>1, <2>2, <2>3, <2>4, <3>1, <4>1
        <3>2. CASE y # x
            <4>1. y \in DOMAIN select /\ select'[y] = select[y]
                BY <1>5, <2>5, <3>2
            <4> QED BY <2>1, <2>2, <4>1 DEF Selects
        <3> QED BY <3>1, <3>2
    <2>6. (\A y \in DOMAIN two : y \in Columns(dom) /\ two[y] \in Booleans(dom))'
        BY <1>4, <2>1 DEF Selects
    <2> QED BY <2>5, <2>6 DEF Selects, Interval
<1> QED BY <1>12, <1>13

LEMMA SelectEncodes ==
    ASSUME Formed, mip_select, Encodes
    PROVE  Encodes'
<1>1. PICK x : x = Call.x
    OBVIOUS
<1>2. PICK p : p = Indicators(x)
    OBVIOUS
<1>3. PICK calls : calls = SelectCalls(x, p)
    OBVIOUS
<1>4. Heads /\ Working /\ Call.c = "select" /\ Rewritten(calls) /\ SelectGrown(x, p) /\ two' = two
    BY <1>1, <1>2, <1>3, SelectStep
<1>5. select' = [y \in DOMAIN select \cup {x} |-> IF y = x THEN p ELSE select[y]]
    <2>1. select' = [y \in DOMAIN select \cup {Call.x} |-> IF y = Call.x THEN Indicators(Call.x) ELSE select[y]]
        BY Zenon DEF mip_select, Indicators
    <2> QED BY <1>1, <1>2, <2>1, Zenon
<1>6. SelectListed(calls, x, p)
    BY <1>3, <1>4, SelectListedIs
<1>7. /\ Shaped(calls, dom')
      /\ \A c \in Range(calls) : c.c = "int_lin_eq"
      /\ \A t : Fits(t, dom') => (Meets(t, Range(calls)) <=> Told(p, x, t))
    BY <1>4, <1>6, SelectShaped
<1>8. /\ Domains(dom') /\ Longer(dom, dom') /\ Bigger(dom, dom') /\ x \in Columns(dom)
      /\ DOMAIN p = lb(x) .. ub(x)
    BY <1>4 DEF SelectGrown
<1>9. Typed /\ Selects
    BY <1>4 DEF Working
<1>10. Range(calls) \subseteq Equations'
    <2>1. Asked' = Rest \cup Range(calls)
        BY <1>4, <1>7, <1>9, AfterIs
    <2> QED BY <1>7, <2>1 DEF Equations
<1>11. ASSUME NEW s, Fits(s, dom'), Meets(s, Equations') PROVE EncodedAt(s)'
    <2>1. EncodedAt(s)
        BY <1>4, <1>7, <1>11, StillEncoded
    <2>2. Told(p, x, s)
        BY <1>7, <1>10, <1>11 DEF Meets
    <2>3. s[x] \in lb(x) .. ub(x) /\ s[1] = 0
        <3>1. Domains(dom) /\ 1 \in Columns(dom) /\ dom[1] \subseteq {0}
            BY <1>9, DomainsAre DEF Typed, Bigger, Columns
        <3>2. s[x] \in dom'[x] /\ dom'[x] = dom[x] /\ s[1] \in dom'[1] /\ dom'[1] = dom[1]
            BY <1>8, <1>11, <3>1, ColumnsGrow, FitsColumns DEF Longer, Columns
        <3>3. \A w \in dom[x] : w \in lb(x) .. ub(x)
            BY <1>4, <1>8, ColumnIs
        <3> QED BY <3>1, <3>2, <3>3
    <2>4. ASSUME NEW y \in DOMAIN select', NEW v \in Int PROVE s[mip_select_at(y, v)'] = 1 <=> s[y] = v
        <3>1. CASE y = x
            <4>1. select'[y] = p
                BY <1>5, <2>4, <3>1
            <4>2. mip_select_at(y, v)' = IF v \in lb(x) .. ub(x) THEN p[v] ELSE 1
                BY <1>8, <4>1 DEF mip_select_at, False
            <4>3. CASE v \in lb(x) .. ub(x)
                <5>1. s[p[v]] = IF v = s[x] THEN 1 ELSE 0
                    BY <2>2, <4>3 DEF Told
                <5> QED BY <3>1, <4>2, <4>3, <5>1
            <4>4. CASE v \notin lb(x) .. ub(x)
                BY <2>3, <3>1, <4>2, <4>4
            <4> QED BY <4>3, <4>4
        <3>2. CASE y # x
            <4>1. y \in DOMAIN select /\ select'[y] = select[y]
                BY <1>5, <2>4, <3>2
            <4>2. mip_select_at(y, v)' = mip_select_at(y, v)
                BY <4>1 DEF mip_select_at, False
            <4> QED BY <2>1, <4>1, <4>2 DEF EncodedAt
        <3> QED BY <3>1, <3>2
    <2>5. (\A y \in DOMAIN select : \A v \in Int : s[mip_select_at(y, v)] = 1 <=> s[y] = v)'
        BY <2>4
    <2>6. \A y \in DOMAIN two : dom'[y] = dom[y]
        BY <1>8, <1>9 DEF Selects, Longer, Columns
    <2>7. (\A y \in DOMAIN two :
              \E lo, hi \in Int : /\ lo < hi /\ dom[y] \subseteq lo .. hi
                                  /\ s[y] = IF s[two[y]] = 1 THEN hi ELSE lo)'
        BY <1>4, <2>1, <2>6 DEF EncodedAt
    <2> QED BY <2>5, <2>7 DEF EncodedAt
<1> QED BY <1>11 DEF Encodes

-----------------------------------------------------------------------------
(***************************************************************************)
(* The steps that are no rewriting.                                        *)
(***************************************************************************)
Shrinks(d, e) ==
    /\ Domains(d) /\ Domains(e) /\ Len(e) = Len(d) /\ Bigger(d, e)
    /\ \A x \in 1 .. Len(d) : e[x] \subseteq d[x]

LEMMA ShrinksMade ==
    ASSUME NEW d, Domains(d), NEW x, x \in 1 .. Len(d), NEW S, S \subseteq d[x], NEW e, e = [d EXCEPT ![x] = S]
    PROVE  /\ Shrinks(d, e) /\ e[x] = S /\ \A y \in 1 .. Len(d) : y # x => e[y] = d[y]
           /\ \A s : Fits(s, e) <=> Fits(s, d) /\ s[x] \in S
<1>1. d \in Seq(SUBSET Int) /\ Len(d) \in Nat /\ \A y \in 1 .. Len(d) : Finite(d[y]) /\ d[y] \subseteq Int
    BY DomainsAre DEF Domains
<1>2. PICK T : T = SUBSET Int
    OBVIOUS
<1>3. d \in Seq(T) /\ S \in T /\ S \subseteq Int
    <2>1. S \subseteq Int
        BY <1>1
    <2> QED BY <1>1, <1>2, <2>1
<1>4. e \in Seq(T) /\ Len(e) = Len(d) /\ e[x] = S /\ \A y \in 1 .. Len(d) : y # x => e[y] = d[y]
    BY <1>1, <1>3
<1>5. \A y \in 1 .. Len(d) : e[y] \subseteq d[y] /\ IsFiniteSet(e[y])
    <2>1. Finite(S)
        BY <1>1, FiniteParts
    <2> QED BY <1>1, <1>4, <2>1 DEF Finite
<1>6. Shrinks(d, e)
    BY <1>2, <1>4, <1>5 DEF Shrinks, Domains, Bigger
<1>7. ASSUME NEW s PROVE Fits(s, e) <=> Fits(s, d) /\ s[x] \in S
    <2>1. ASSUME Fits(s, e) PROVE Fits(s, d) /\ s[x] \in S
        <3>1. s \in [1 .. Len(e) -> Int] /\ \A y \in 1 .. Len(e) : s[y] \in e[y]
            BY <2>1 DEF Fits
        <3>2. \A y \in 1 .. Len(d) : s[y] \in d[y]
            BY <1>4, <1>5, <3>1
        <3> QED BY <1>4, <3>1, <3>2 DEF Fits
    <2>2. ASSUME Fits(s, d), s[x] \in S PROVE Fits(s, e)
        <3>1. s \in [1 .. Len(d) -> Int] /\ \A y \in 1 .. Len(d) : s[y] \in d[y]
            BY <2>2 DEF Fits
        <3>2. \A y \in 1 .. Len(d) : s[y] \in e[y]
            BY <1>4, <2>2, <3>1
        <3> QED BY <1>4, <3>1, <3>2 DEF Fits
    <2> QED BY <2>1, <2>2
<1> QED BY <1>4, <1>6, <1>7

LEMMA ShrinksSelects ==
    ASSUME Selects, Domains(dom), Shrinks(dom, dom'), UNCHANGED shared
    PROVE  Selects' /\ \A s : EncodedAt(s) => EncodedAt(s)'
<1>1. select' = select /\ two' = two /\ Domains(dom') /\ Bigger(dom, dom') /\ \A x \in 1 .. Len(dom) : dom'[x] \subseteq dom[x]
    BY DEF shared, Shrinks
<1>2. Columns(dom) \subseteq Columns(dom') /\ Booleans(dom) \subseteq Booleans(dom')
    BY <1>1, ColumnsGrow
<1>3. \A x \in DOMAIN select \cup DOMAIN two : dom'[x] \subseteq dom[x]
    BY <1>1 DEF Selects, Columns
<1>4. \A x \in DOMAIN select : Interval(dom'[x], DOMAIN select[x])
    BY <1>3 DEF Selects, Interval
<1>5. Selects'
    <2>1. \A x \in DOMAIN select : Interval(dom[x], DOMAIN select[x])'
        BY <1>1, <1>4 DEF Interval
    <2>2. (\A x \in DOMAIN select :
              /\ x \in Columns(dom) /\ Interval(dom[x], DOMAIN select[x])
              /\ \A v \in DOMAIN select[x] : select[x][v] \in Booleans(dom))'
        BY <1>1, <1>2, <2>1 DEF Selects
    <2>3. (\A x \in DOMAIN two : x \in Columns(dom) /\ two[x] \in Booleans(dom))'
        BY <1>1, <1>2 DEF Selects
    <2> QED BY <2>2, <2>3 DEF Selects
<1>6. ASSUME NEW s, EncodedAt(s) PROVE EncodedAt(s)'
    <2>1. \A x, v : mip_select_at(x, v)' = mip_select_at(x, v)
        BY <1>1 DEF mip_select_at, False
    <2>2. (\A x \in DOMAIN select : \A v \in Int : s[mip_select_at(x, v)] = 1 <=> s[x] = v)'
        BY <1>1, <1>6, <2>1 DEF EncodedAt
    <2>3. ASSUME NEW x \in DOMAIN two
          PROVE  \E lo, hi \in Int : lo < hi /\ dom'[x] \subseteq lo .. hi /\ s[x] = IF s[two[x]] = 1 THEN hi ELSE lo
        <3>1. PICK lo, hi \in Int : lo < hi /\ dom[x] \subseteq lo .. hi /\ s[x] = IF s[two[x]] = 1 THEN hi ELSE lo
            BY <1>6 DEF EncodedAt
        <3>2. dom'[x] \subseteq lo .. hi
            BY <1>3, <3>1
        <3> QED BY <3>1, <3>2
    <2>4. (\A x \in DOMAIN two : \E lo, hi \in Int :
               lo < hi /\ dom[x] \subseteq lo .. hi /\ s[x] = IF s[two[x]] = 1 THEN hi ELSE lo)'
        BY <1>1, <2>3
    <2> QED BY <2>2, <2>4 DEF EncodedAt
<1> QED BY <1>5, <1>6

\* The calls after the first.
LEMMA AfterFirst ==
    ASSUME Formed, todo # <<>>
    PROVE  /\ CallList(Tail(todo), dom)
           /\ \A i \in DOMAIN Tail(todo) :
                /\ Tail(todo)[i].c # "two"
                /\ Tail(todo)[i].c = "post" => i = 1 /\ Waits(Call, Tail(todo)[1], dom)
           /\ \A c \in Range(Tail(todo)) : c.c # "two"
           /\ \A c \in Range(Tail(todo)) : c.c = "element" => Tail(todo) = <<>>
<1>1. Typed /\ todo \in Seq(Range(todo))
    BY DEF Formed, Typed, CallList
<1>2. /\ Tail(todo) \in Seq(Range(Tail(todo))) /\ Range(todo) = {todo[1]} \cup Range(Tail(todo))
      /\ Len(todo) >= 1 /\ Len(Tail(todo)) = Len(todo) - 1
      /\ \A i \in 1 .. Len(todo) - 1 : Tail(todo)[i] = todo[i + 1]
    BY <1>1, TailIs
<1>3. CallList(Tail(todo), dom)
    BY <1>1, <1>2 DEF CallList, Typed
<1>4. /\ DOMAIN todo = 1 .. Len(todo) /\ DOMAIN Tail(todo) = 1 .. Len(todo) - 1 /\ Len(todo) \in Nat
    BY <1>1, <1>2, ListIs
<1>5. ASSUME NEW i \in DOMAIN Tail(todo)
      PROVE  /\ Tail(todo)[i].c # "two"
             /\ Tail(todo)[i].c = "post" => i = 1 /\ Waits(Call, Tail(todo)[1], dom)
    <2>1. i + 1 \in DOMAIN todo /\ i + 1 # 1 /\ Tail(todo)[i] = todo[i + 1] /\ i \in Int
        BY <1>2, <1>4
    <2>2. /\ todo[i + 1].c = "post" => i + 1 = 2 /\ Waits(todo[1], todo[2], dom)
          /\ todo[i + 1].c # "two"
        BY <2>1 DEF Formed, InTurn
    <2>3. i + 1 = 2 => i = 1 /\ Tail(todo)[1] = todo[2]
        BY <2>1
    <2> QED BY <2>1, <2>2, <2>3 DEF Call
<1>6. \A c \in Range(Tail(todo)) : \E i \in DOMAIN Tail(todo) : c = Tail(todo)[i]
    BY <1>2, <1>4, ListIs
<1>7. \A c \in Range(Tail(todo)) : c.c = "element" => Tail(todo) = <<>>
    BY <1>2 DEF Formed, Alone
<1> QED BY <1>3, <1>5, <1>6, <1>7

LEMMA NoTwos ==
    ASSUME Typed, todo # <<>>, \A c \in Range(Tail(todo)) : c.c # "two"
    PROVE  \A c \in rows \cup posts \cup Range(Tail(todo)) : c.c # "two"
BY DEF Typed

\* A call that is taken as it is.
LEMMA TakenFormed ==
    ASSUME Formed, LinRow \/ ToPass
    PROVE  Formed' /\ Asked' = Asked /\ UNCHANGED <<model, dom, shared>>
<1>1. todo # <<>> /\ todo' = Tail(todo) /\ UNCHANGED <<model, dom, shared>>
    BY DEF LinRow, ToPass, Doing
<1>2. /\ given' = given /\ program' = program /\ posted' = posted /\ dom' = dom /\ select' = select /\ two' = two
    BY <1>1 DEF model, shared
<1>3. \/ Call.c \in {"int_lin_le", "int_lin_eq"} /\ rows' = rows \cup {Call} /\ posts' = posts
      \/ Call.c = "post" /\ posts' = posts \cup {Call} /\ rows' = rows
    BY DEF LinRow, ToPass, Doing
<1>4. Typed /\ Proper(Call, dom) /\ Range(todo) = {Call} \cup Range(Tail(todo))
    BY <1>1, HeadIs DEF Formed
<1>5. /\ CallList(Tail(todo), dom)
      /\ \A i \in DOMAIN Tail(todo) :
           /\ Tail(todo)[i].c # "two"
           /\ Tail(todo)[i].c = "post" => i = 1 /\ Waits(Call, Tail(todo)[1], dom)
      /\ \A c \in Range(Tail(todo)) : c.c = "element" => Tail(todo) = <<>>
    BY <1>1, AfterFirst
<1>6. Asked = rows \cup posts \cup Range(todo) /\ Asked' = rows' \cup posts' \cup Range(Tail(todo))
    BY <1>1 DEF Asked, Range
<1>7. Asked' = Asked
    BY <1>3, <1>4, <1>6
<1>8. Typed'
    BY <1>1, <1>2, <1>3, <1>4, <1>5 DEF Typed
<1>9. Wanted' /\ Selects'
    BY <1>2 DEF Formed, Wanted, Selects, Interval
<1>10. InTurn(todo', dom')
    <2>1. \A w, p, d : Waits(w, p, d) => w.c = "within"
        BY DEF Waits, Within
    <2> QED BY <1>1, <1>2, <1>3, <1>5, <2>1 DEF InTurn
<1>11. Alone'
    <2>1. \A c \in Range(todo') : c.c = "element" => Tail(todo') = <<>>
        <3>1. ASSUME NEW c \in Range(Tail(todo)), c.c = "element" PROVE FALSE
            BY <1>5, <3>1, NoCalls
        <3> QED BY <1>1, <3>1
    <2> QED BY <2>1 DEF Alone
<1> QED BY <1>1, <1>7, <1>8, <1>9, <1>10, <1>11 DEF Formed

\* The meaning stays when columns, encodings and what is asked do.
LEMMA SameMeant ==
    ASSUME Formed, Meant, Asked' = Asked, UNCHANGED <<model, dom, shared>>
    PROVE  Meant'
<1>1. /\ given' = given /\ posted' = posted /\ dom' = dom /\ select' = select /\ two' = two
    BY DEF model, shared
<1>2. Equations' = Equations /\ Others' = Others
    BY DEF Equations, Others
<1>3. Encodes'
    <2>1. Shrinks(dom, dom')
        BY <1>1 DEF Formed, Typed, Shrinks, Bigger
    <2>2. \A s : EncodedAt(s) => EncodedAt(s)'
        BY <2>1, ShrinksSelects DEF Formed, Typed
    <2>3. \A s : Fits(s, dom') /\ Meets(s, Equations') => EncodedAt(s)'
        BY <1>1, <1>2, <2>2 DEF Meant, Encodes
    <2> QED BY <2>3 DEF Encodes
<1>4. Narrows'
    BY <1>1, <1>2 DEF Meant, Narrows, AtOne
<1>5. TwoEnds'
    BY <1>1 DEF Meant, TwoEnds, AtEnds, lb, ub
<1>6. Meaning'
    BY <1>1 DEF Meant, Meaning, Completed
<1> QED BY <1>3, <1>4, <1>5, <1>6 DEF Meant

-----------------------------------------------------------------------------
\* A domain that takes its bounds.
LEMMA BoundsStep ==
    ASSUME Formed, Bounds
    PROVE  /\ todo # <<>> /\ todo' = Tail(todo) /\ Call.c = "within" /\ UNCHANGED <<model, out, shared>>
           /\ Call.x \in 1 .. Len(dom) /\ Shrinks(dom, dom') /\ dom'[Call.x] = dom[Call.x] \cap Call.s
           /\ \A s : Fits(s, dom') <=> Fits(s, dom) /\ Holds(Call, s)
           /\ Asked' = Rest /\ Asked = Rest \cup {Call}
<1>1. todo # <<>> /\ todo' = Tail(todo) /\ Call.c = "within" /\ UNCHANGED <<model, out, shared>>
    BY DEF Bounds, Doing
<1>2. PICK x, S : x = Call.x /\ S = dom[x] \cap Call.s
    OBVIOUS
<1>3. dom' = [dom EXCEPT ![x] = S]
    BY <1>2 DEF Bounds
<1>4. Typed /\ Domains(dom) /\ Proper(Call, dom) /\ Asked = Rest \cup {Call}
    BY <1>1, HeadIs DEF Formed, Typed
<1>5. x \in 1 .. Len(dom)
    BY <1>1, <1>2, <1>4, MemberParts DEF Members, Columns
<1>6. S \subseteq dom[x]
    BY <1>2
<1>7. PICK e : e = dom'
    OBVIOUS
<1>8. /\ Shrinks(dom, e) /\ e[x] = S
      /\ \A s : Fits(s, e) <=> Fits(s, dom) /\ s[x] \in S
    BY <1>3, <1>4, <1>5, <1>6, <1>7, ShrinksMade
<1>9. ASSUME NEW s PROVE Fits(s, e) <=> Fits(s, dom) /\ Holds(Call, s)
    <2>1. Holds(Call, s) <=> s[x] \in Call.s
        BY <1>1, <1>2, HoldsMember
    <2>2. Fits(s, dom) => s[x] \in dom[x]
        BY <1>5 DEF Fits
    <2> QED BY <1>2, <1>8, <2>1, <2>2
<1>10. Asked' = Rest
    BY <1>1 DEF Asked, Rest, Range, out
<1> QED BY <1>1, <1>2, <1>4, <1>5, <1>7, <1>8, <1>9, <1>10

\* Bounds taken into a domain: no call loses its shape, and the membership
\* that waited for them is ready.
LEMMA BoundsFormed ==
    ASSUME Formed, Bounds
    PROVE  Formed'
<1>1. /\ todo # <<>> /\ todo' = Tail(todo) /\ Call.c = "within" /\ UNCHANGED <<model, out, shared>>
      /\ Call.x \in 1 .. Len(dom) /\ Shrinks(dom, dom') /\ dom'[Call.x] = dom[Call.x] \cap Call.s
    BY BoundsStep
<1>2. /\ given' = given /\ program' = program /\ posted' = posted /\ rows' = rows /\ posts' = posts
      /\ UNCHANGED shared
    BY <1>1 DEF model, out
<1>3. Typed /\ Domains(dom) /\ Domains(dom') /\ Bigger(dom, dom') /\ Len(dom) \in Nat /\ Len(dom') = Len(dom)
      /\ \A x \in 1 .. Len(dom) : dom'[x] \subseteq dom[x]
    BY <1>1, DomainsAre DEF Formed, Typed, Shrinks
<1>4. /\ CallList(Tail(todo), dom)
      /\ \A i \in DOMAIN Tail(todo) :
           /\ Tail(todo)[i].c # "two"
           /\ Tail(todo)[i].c = "post" => i = 1 /\ Waits(Call, Tail(todo)[1], dom)
      /\ \A c \in Range(Tail(todo)) : c.c = "element" => Tail(todo) = <<>>
    BY <1>1, AfterFirst
<1>5. Typed'
    <2>1. Bigger(given, dom')
        BY <1>3 DEF Typed, Bigger
    <2>2. dom'[1] \subseteq {0}
        <3>1. 1 \in 1 .. Len(dom)
            BY <1>3, DomainsAre DEF Typed, Bigger
        <3> QED BY <1>3, <3>1 DEF Typed
    <2>3. CallList(todo', dom')
        BY <1>1, <1>3, <1>4, ListGrows
    <2>4. \A c \in rows \cup posts : Proper(c, dom')
        BY <1>3, ProperGrows DEF Typed
    <2> QED BY <1>2, <1>3, <2>1, <2>2, <2>3, <2>4 DEF Typed
<1>6. Wanted'
    BY <1>2 DEF Formed, Wanted
<1>7. Selects'
    BY <1>1, <1>2, <1>3, ShrinksSelects DEF Formed
<1>8. InTurn(todo', dom')
    <2>1. ASSUME NEW i \in DOMAIN Tail(todo), Tail(todo)[i].c = "post"
          PROVE  i = 1 /\ Ready(Tail(todo)[1], dom')
        <3>1. PICK p : p = Tail(todo)[1]
            OBVIOUS
        <3>2. i = 1 /\ Waits(Call, p, dom)
            BY <1>4, <2>1, <3>1
        <3>3. Proper(p, dom) /\ p.c = "post"
            <4>1. p \in Range(Tail(todo))
                BY <1>4, <3>1, <3>2, ListIs DEF CallList
            <4> QED BY <1>4, <2>1, <3>1, <3>2, <4>1 DEF CallList
        <3>4. p.x \in 1 .. Len(dom)
            BY <3>3, MemberParts DEF Members, Columns
        <3>5. /\ Call = Within(p.x, Hull(p.values)) /\ p.b = 0
              /\ p.values \subseteq dom[p.x] /\ p.values # {} /\ Cardinality(p.values) # 1
            BY <3>2 DEF Waits
        <3>6. Finite(dom[p.x]) /\ Finite(p.values)
            BY <1>3, <3>4, <3>5, DomainsAre, FiniteParts
        <3>7. p.values \subseteq Hull(p.values)
            BY <3>5, <3>6, HullIs DEF HullOf
        <3>8. Call.x = p.x /\ Call.s = Hull(p.values)
            BY <3>5 DEF Within
        <3>9. p.values \subseteq dom'[p.x]
            BY <1>1, <3>5, <3>7, <3>8
        <3>10. Finite(dom'[p.x])
            BY <1>3, <3>4, DomainsAre
        <3>11. Cardinality(dom'[p.x]) # 1
            <4>1. ASSUME Cardinality(dom'[p.x]) = 1 PROVE FALSE
                <5>1. dom'[p.x] = {Min(dom'[p.x])}
                    BY <3>10, <4>1, OneValue
                <5>2. p.values = dom'[p.x]
                    BY <3>5, <3>9, <5>1
                <5> QED BY <3>5, <4>1, <5>2
            <4> QED BY <4>1
        <3> QED BY <3>1, <3>2, <3>5, <3>9, <3>11 DEF Ready
    <2> QED BY <1>1, <1>4, <2>1 DEF InTurn
<1>9. Alone'
    <2>1. ASSUME NEW c \in Range(Tail(todo)), c.c = "element" PROVE FALSE
        BY <1>4, <2>1, NoCalls
    <2> QED BY <1>1, <2>1 DEF Alone
<1> QED BY <1>5, <1>6, <1>7, <1>8, <1>9 DEF Formed

\* Nor does any assignment gain or lose by it.
LEMMA BoundsMeant ==
    ASSUME Formed, Bounds, Meant
    PROVE  Meant'
<1>1. /\ todo # <<>> /\ todo' = Tail(todo) /\ Call.c = "within" /\ UNCHANGED <<model, out, shared>>
      /\ Shrinks(dom, dom') /\ Asked' = Rest /\ Asked = Rest \cup {Call}
    BY BoundsStep
<1>2. \A s : Fits(s, dom') <=> Fits(s, dom) /\ Holds(Call, s)
    BY BoundsStep
<1>3. given' = given /\ posted' = posted /\ UNCHANGED shared
    BY <1>1 DEF model
<1>4. ASSUME NEW s PROVE Meets(s, Asked) <=> Meets(s, Asked') /\ Holds(Call, s)
    BY <1>1 DEF Meets
<1>5. Encodes'
    <2>1. Equations' = Equations
        BY <1>1 DEF Equations
    <2>2. \A s : EncodedAt(s) => EncodedAt(s)'
        BY <1>1, <1>3, ShrinksSelects DEF Formed, Typed
    <2>3. \A s : Fits(s, dom') /\ Meets(s, Equations') => EncodedAt(s)'
        BY <1>2, <2>1, <2>2 DEF Meant, Encodes
    <2> QED BY <2>3 DEF Encodes
<1>6. Narrows'
    <2>1. Others = Others' \cup {Call}
        BY <1>1 DEF Others
    <2>2. \A s : Holds(Call, s) /\ Meets(s, Others') => Meets(s, Others)
        BY <2>1 DEF Meets
    <2>3. \A s : Fits(s, dom') /\ Meets(s, Others') => \A c \in Asked' : AtOne(c, s)
        BY <1>1, <1>2, <2>2 DEF Meant, Narrows
    <2> QED BY <2>3 DEF Narrows, AtOne
<1>7. TwoEnds'
    <2>1. \A c \in Rest : c.c # "two"
        BY <1>1, AfterFirst, NoTwos DEF Rest, Formed
    <2> QED BY <1>1, <2>1 DEF TwoEnds
<1>8. Meaning'
    <2>1. \A a : Completed(a)' <=> Completed(a)
        BY <1>2, <1>3, <1>4 DEF Completed
    <2> QED BY <1>3, <2>1 DEF Meant, Meaning
<1> QED BY <1>5, <1>6, <1>7, <1>8 DEF Meant

-----------------------------------------------------------------------------
\* The next constraint of the model.
LEMMA TakeUpStep ==
    ASSUME Formed, TakeUp, NEW c, c = Head(program)
    PROVE  /\ todo = <<>> /\ todo' = <<c>> /\ program' = Tail(program) /\ posted' = posted \cup {c}
           /\ given' = given /\ dom' = dom /\ rows' = rows /\ posts' = posts /\ UNCHANGED shared
           /\ c \in Range(program) /\ Range(program') \subseteq Range(program) /\ CallList(program', given)
           /\ Proper(c, given) /\ Proper(c, dom) /\ c.c \notin Internal
           /\ Asked = rows \cup posts /\ Asked' = Asked \cup {c}
<1>1. /\ todo = <<>> /\ todo' = <<c>> /\ program # <<>> /\ program' = Tail(program) /\ posted' = posted \cup {c}
      /\ given' = given /\ dom' = dom /\ rows' = rows /\ posts' = posts /\ UNCHANGED shared
    BY DEF TakeUp, out
<1>2. Typed /\ Domains(given) /\ Domains(dom) /\ Bigger(given, dom) /\ program \in Seq(Range(program))
    BY DEF Formed, Typed, CallList
<1>3. /\ Tail(program) \in Seq(Range(Tail(program))) /\ Range(program) = {program[1]} \cup Range(Tail(program))
    BY <1>1, <1>2, TailIs
<1>4. c = program[1]
    BY <1>1, <1>2
<1>5. CallList(program', given)
    BY <1>1, <1>2, <1>3 DEF Typed, CallList
<1>6. Proper(c, given) /\ c.c \notin Internal
    BY <1>2, <1>3, <1>4 DEF Formed, Typed, CallList, Wanted
<1>7. Proper(c, dom)
    BY <1>2, <1>6, ProperGrows
<1>8. Asked = rows \cup posts \cup Range(todo) /\ Asked' = rows \cup posts \cup Range(todo')
    BY <1>1 DEF Asked, Range
<1>9. Range(todo) = {} /\ Range(todo') = {c}
    BY <1>1, NoCalls, OneCall
<1> QED BY <1>1, <1>3, <1>4, <1>5, <1>6, <1>7, <1>8, <1>9

\* A constraint is taken up when all before it are flattened.
LEMMA TakeUpFormed ==
    ASSUME Formed, TakeUp
    PROVE  Formed'
<1>1. PICK c : c = Head(program)
    OBVIOUS
<1>2. /\ todo = <<>> /\ todo' = <<c>> /\ program' = Tail(program) /\ posted' = posted \cup {c}
      /\ given' = given /\ dom' = dom /\ rows' = rows /\ posts' = posts /\ UNCHANGED shared
      /\ Range(program') \subseteq Range(program) /\ CallList(program', given)
      /\ Proper(c, given) /\ Proper(c, dom) /\ c.c \notin Internal
    BY <1>1, TakeUpStep
<1>3. CallList(todo', dom) /\ DOMAIN todo' = {1} /\ todo'[1] = c
    <2>1. PICK q : q = todo'
        OBVIOUS
    <2>2. q = <<c>> /\ q \in Seq(Range(q)) /\ Range(q) = {c} /\ Len(q) = 1 /\ q[1] = c
        BY <1>2, <2>1, OneCall
    <2>3. DOMAIN q = {1}
        BY <2>2
    <2> QED BY <1>2, <2>1, <2>2, <2>3 DEF CallList
<1>4. Typed'
    BY <1>2, <1>3 DEF Formed, Typed
<1>5. Wanted'
    BY <1>2 DEF Formed, Wanted
<1>6. Selects'
    BY <1>2 DEF Formed, Selects, Interval, shared
<1>7. InTurn(todo', dom')
    BY <1>2, <1>3 DEF InTurn, Internal
<1>8. Alone'
    <2>1. Tail(todo') = <<>>
        BY <1>2
    <2> QED BY <2>1 DEF Alone
<1> QED BY <1>4, <1>5, <1>6, <1>7, <1>8 DEF Formed

\* A constraint taken up is asked from then on, in the model and of the rows.
LEMMA TakeUpMeant ==
    ASSUME Formed, TakeUp, Meant
    PROVE  Meant'
<1>1. PICK c : c = Head(program)
    OBVIOUS
<1>2. /\ todo = <<>> /\ posted' = posted \cup {c}
      /\ given' = given /\ dom' = dom /\ UNCHANGED shared
      /\ Proper(c, given) /\ c.c \notin Internal
      /\ Asked = rows \cup posts /\ Asked' = Asked \cup {c}
    BY <1>1, TakeUpStep
<1>3. Typed /\ Selects /\ Domains(given) /\ Domains(dom)
    BY DEF Formed, Typed
<1>4. Encodes'
    <2>1. Shrinks(dom, dom')
        BY <1>2, <1>3, LongerSelf DEF Shrinks
    <2>2. \A s : EncodedAt(s) => EncodedAt(s)'
        BY <1>2, <1>3, <2>1, ShrinksSelects
    <2>3. \A s : Meets(s, Equations') => Meets(s, Equations)
        BY <1>2 DEF Meets, Equations
    <2>4. \A s : Fits(s, dom') /\ Meets(s, Equations') => EncodedAt(s)'
        BY <1>2, <2>2, <2>3 DEF Meant, Encodes
    <2> QED BY <2>4 DEF Encodes
<1>5. Narrows'
    <2>1. \A s : Meets(s, Others') => Meets(s, Others)
        BY <1>2 DEF Meets, Others
    <2>2. \A s : AtOne(c, s)
        BY <1>2 DEF AtOne, Internal
    <2>3. \A s : Fits(s, dom) /\ Meets(s, Others') => \A k \in Asked' : AtOne(k, s)
        BY <1>2, <2>1, <2>2 DEF Meant, Narrows
    <2> QED BY <1>2, <2>3 DEF Narrows, AtOne
<1>6. TwoEnds'
    <2>1. \A k \in Asked' : k.c # "two"
        BY <1>2, <1>3 DEF Typed, Internal
    <2> QED BY <2>1 DEF TwoEnds
<1>7. Meaning'
    <2>1. ASSUME NEW a, Fits(a, given) PROVE Meets(a, posted') <=> Completed(a)'
        <3>1. Meets(a, posted') <=> Meets(a, posted) /\ Holds(c, a)
            BY <1>2 DEF Meets
        <3>2. ASSUME NEW s, Alike(a, s, 1 .. Len(given)) PROVE Holds(c, a) <=> Holds(c, s)
            BY <1>2, <1>3, <3>2, HoldsExtended
        <3>3. \A s : Meets(s, Asked') <=> Meets(s, Asked) /\ Holds(c, s)
            BY <1>2 DEF Meets
        <3>4. Completed(a)' <=> Completed(a) /\ Holds(c, a)
            BY <1>2, <3>2, <3>3 DEF Completed
        <3>5. Meets(a, posted) <=> Completed(a)
            BY <2>1 DEF Meant, Meaning
        <3> QED BY <3>1, <3>4, <3>5
    <2> QED BY <1>2, <2>1 DEF Meaning
<1> QED BY <1>4, <1>5, <1>6, <1>7 DEF Meant

-----------------------------------------------------------------------------
\* The model loses a value of a column of its own.
Loses(x, v) ==
    /\ x \in 1 .. Len(given)
    /\ \A s : Fits(s, dom') <=> Fits(s, dom) /\ s[x] # v
    /\ \A s : Fits(s, given') <=> Fits(s, given) /\ s[x] # v

LEMMA NarrowStep ==
    ASSUME Formed, Narrow
    PROVE  /\ todo = <<>> /\ todo' = todo /\ program' = program /\ posted' = posted /\ rows' = rows
           /\ posts' = posts /\ UNCHANGED shared /\ Asked' = Asked /\ Asked = rows \cup posts
           /\ Shrinks(dom, dom') /\ Shrinks(given, given') /\ Bigger(given', dom') /\ dom'[1] \subseteq dom[1]
           /\ \E x, v : Loses(x, v)
<1>1. /\ todo = <<>> /\ todo' = todo /\ program' = program /\ posted' = posted /\ rows' = rows
      /\ posts' = posts /\ UNCHANGED shared
    BY DEF Narrow, out
<1>2. PICK x, v : x \in 1 .. Len(given) /\ dom' = [dom EXCEPT ![x] = @ \ {v}] /\ given' = [given EXCEPT ![x] = @ \ {v}]
    BY DEF Narrow
<1>3. /\ Domains(given) /\ Domains(dom) /\ Bigger(given, dom) /\ Len(given) \in Nat /\ Len(dom) \in Nat
      /\ Len(given) >= 1
    BY DomainsAre DEF Formed, Typed
<1>4. PICK S, T, d, g : S = dom[x] \ {v} /\ T = given[x] \ {v} /\ d = dom' /\ g = given'
    OBVIOUS
<1>e. S \subseteq dom[x] /\ T \subseteq given[x]
    BY <1>4
<1>5. d = [dom EXCEPT ![x] = S] /\ g = [given EXCEPT ![x] = T] /\ x \in 1 .. Len(dom)
    BY <1>2, <1>3, <1>4 DEF Bigger
<1>6. /\ Shrinks(dom, d) /\ d[x] = S /\ \A y \in 1 .. Len(dom) : y # x => d[y] = dom[y]
      /\ \A s : Fits(s, d) <=> Fits(s, dom) /\ s[x] \in S
    <2>1. Domains(dom) /\ x \in 1 .. Len(dom) /\ S \subseteq dom[x] /\ d = [dom EXCEPT ![x] = S]
        BY <1>3, <1>5, <1>e
    <2>2. Shrinks(dom, d) /\ d[x] = S
        BY <2>1, ShrinksMade
    <2>3. \A y \in 1 .. Len(dom) : y # x => d[y] = dom[y]
        BY <2>1, ShrinksMade
    <2>4. \A s : Fits(s, d) <=> Fits(s, dom) /\ s[x] \in S
        BY <2>1, ShrinksMade
    <2> QED BY <2>2, <2>3, <2>4
<1>7. /\ Shrinks(given, g) /\ g[x] = T /\ \A y \in 1 .. Len(given) : y # x => g[y] = given[y]
      /\ \A s : Fits(s, g) <=> Fits(s, given) /\ s[x] \in T
    <2>1. Domains(given) /\ x \in 1 .. Len(given) /\ T \subseteq given[x] /\ g = [given EXCEPT ![x] = T]
        BY <1>2, <1>3, <1>5, <1>e
    <2>2. Shrinks(given, g) /\ g[x] = T
        BY <2>1, ShrinksMade
    <2>3. \A y \in 1 .. Len(given) : y # x => g[y] = given[y]
        BY <2>1, ShrinksMade
    <2>4. \A s : Fits(s, g) <=> Fits(s, given) /\ s[x] \in T
        BY <2>1, ShrinksMade
    <2> QED BY <2>2, <2>3, <2>4
<1>8. Bigger(g, d)
    <2>1. Len(g) = Len(given) /\ Len(d) = Len(dom)
        BY <1>6, <1>7 DEF Shrinks
    <2>2. ASSUME NEW y \in 1 .. Len(given) PROVE d[y] \subseteq g[y]
        <3>1. dom[y] \subseteq given[y] /\ y \in 1 .. Len(dom)
            BY <1>3 DEF Bigger
        <3> QED BY <1>4, <1>6, <1>7, <3>1
    <2> QED BY <1>3, <2>1, <2>2 DEF Bigger
<1>9. d[1] \subseteq dom[1]
    BY <1>3, <1>6 DEF Shrinks, Bigger
<1>10. \A s : Fits(s, d) <=> Fits(s, dom) /\ s[x] # v
    <2>1. \A s : Fits(s, dom) => s[x] \in dom[x]
        BY <1>5 DEF Fits
    <2> QED BY <1>4, <1>6, <2>1
<1>11. \A s : Fits(s, g) <=> Fits(s, given) /\ s[x] # v
    <2>1. \A s : Fits(s, given) => s[x] \in given[x]
        BY <1>2 DEF Fits
    <2> QED BY <1>4, <1>7, <2>1
<1>12. Asked' = Asked /\ Asked = rows \cup posts
    <2>1. Asked = rows \cup posts \cup Range(todo)
        BY DEF Asked, Range
    <2>2. Range(todo) = {}
        BY <1>1, NoCalls
    <2> QED BY <1>1, <2>1, <2>2 DEF Asked
<1>13. Loses(x, v)
    BY <1>2, <1>4, <1>10, <1>11 DEF Loses
<1> QED BY <1>1, <1>4, <1>6, <1>7, <1>8, <1>9, <1>12, <1>13

\* The model may lose a value before its constraints are flattened.
LEMMA NarrowFormed ==
    ASSUME Formed, Narrow
    PROVE  Formed'
<1>1. /\ todo = <<>> /\ todo' = todo /\ program' = program /\ posted' = posted /\ rows' = rows
      /\ posts' = posts /\ UNCHANGED shared
      /\ Shrinks(dom, dom') /\ Shrinks(given, given') /\ Bigger(given', dom') /\ dom'[1] \subseteq dom[1]
    BY NarrowStep
<1>2. /\ Domains(dom) /\ Domains(dom') /\ Bigger(dom, dom') /\ Domains(given) /\ Domains(given')
      /\ Bigger(given, given') /\ Len(given') = Len(given)
    BY <1>1 DEF Shrinks
<1>3. Typed'
    <2>1. CallList(program', given') /\ CallList(todo', dom')
        BY <1>1, <1>2, ListGrows DEF Formed, Typed
    <2>2. \A c \in posted : Proper(c, given')
        BY <1>2, ProperGrows DEF Formed, Typed
    <2>3. \A c \in rows \cup posts : Proper(c, dom')
        BY <1>2, ProperGrows DEF Formed, Typed
    <2> QED BY <1>1, <1>2, <2>1, <2>2, <2>3 DEF Formed, Typed
<1>4. Wanted'
    BY <1>1 DEF Formed, Wanted
<1>5. Selects'
    BY <1>1, <1>2, ShrinksSelects DEF Formed
<1>6. InTurn(todo', dom')
    <2>1. DOMAIN todo' = {}
        BY <1>1
    <2> QED BY <2>1 DEF InTurn
<1>7. Alone'
    BY <1>1 DEF Formed, Alone
<1> QED BY <1>3, <1>4, <1>5, <1>6, <1>7 DEF Formed

\* The value is lost to the model and to the columns alike.
LEMMA NarrowMeant ==
    ASSUME Formed, Narrow, Meant
    PROVE  Meant'
<1>1. /\ posted' = posted /\ UNCHANGED shared /\ Asked' = Asked /\ Asked = rows \cup posts
      /\ Shrinks(dom, dom') /\ Shrinks(given, given')
    BY NarrowStep
<1>2. PICK x, v : Loses(x, v)
    BY NarrowStep
<1>3. Typed /\ Selects /\ Domains(dom) /\ Len(given') = Len(given)
    BY <1>1 DEF Formed, Typed, Shrinks
<1>4. Encodes'
    <2>1. \A s : EncodedAt(s) => EncodedAt(s)'
        BY <1>1, <1>3, ShrinksSelects
    <2>2. \A s : Fits(s, dom') /\ Meets(s, Equations') => EncodedAt(s)'
        BY <1>1, <1>2, <2>1 DEF Meant, Encodes, Equations, Loses
    <2> QED BY <2>2 DEF Encodes
<1>5. Narrows'
    <2>1. \A s : Fits(s, dom') /\ Meets(s, Others') => \A c \in Asked' : AtOne(c, s)
        BY <1>1, <1>2 DEF Meant, Narrows, Others, Loses
    <2> QED BY <2>1 DEF Narrows, AtOne
<1>6. TwoEnds'
    <2>1. \A c \in Asked' : c.c # "two"
        BY <1>1, <1>3 DEF Typed
    <2> QED BY <2>1 DEF TwoEnds
<1>7. Meaning'
    <2>1. ASSUME NEW a, Fits(a, given') PROVE Meets(a, posted') <=> Completed(a)'
        <3>1. Fits(a, given) /\ a[x] # v
            BY <1>2, <2>1 DEF Loses
        <3>2. \A s : Alike(a, s, 1 .. Len(given)) => s[x] # v
            BY <1>2, <3>1 DEF Alike, Loses
        <3>3. \A s : Fits(s, dom') /\ Alike(a, s, 1 .. Len(given)) <=> Fits(s, dom) /\ Alike(a, s, 1 .. Len(given))
            BY <1>2, <3>2 DEF Loses
        <3>4. Completed(a)' <=> Completed(a)
            BY <1>1, <1>3, <3>3 DEF Completed
        <3> QED BY <1>1, <3>1, <3>4 DEF Meant, Meaning
    <2> QED BY <2>1 DEF Meaning
<1> QED BY <1>4, <1>5, <1>6, <1>7 DEF Meant

-----------------------------------------------------------------------------
\* The model before its first constraint.
LEMMA InitGiven ==
    ASSUME Init
    PROVE  /\ Domains(given) /\ Len(given) >= 1 /\ given[1] = {0}
           /\ CallList(program, given) /\ \A c \in Range(program) : c.c \notin Internal
<1>1. PICK p \in Programs : given = <<{0}>> \o p.given /\ program = p.calls
    BY DEF Init
<1>2. /\ p.given \in Seq(SUBSET Int) /\ \A x \in DOMAIN p.given : IsFiniteSet(p.given[x])
      /\ p.calls \in Seq({p.calls[i] : i \in DOMAIN p.calls})
      /\ \A i \in DOMAIN p.calls : Proper(p.calls[i], <<{0}>> \o p.given) /\ p.calls[i].c \notin Internal
    BY <1>1, ProgramsAssumption DEF Internal
<1>3. PICK T, q : T = SUBSET Int /\ q = p.given
    OBVIOUS
<1>4. {0} \in T /\ q \in Seq(T) /\ Len(q) \in Nat /\ DOMAIN q = 1 .. Len(q)
    BY <1>2, <1>3
<1>5. PICK z : z = {0}
    OBVIOUS
<1>6. PICK u : u = <<z>>
    OBVIOUS
<1>7. u \in Seq(T) /\ Len(u) = 1 /\ u[1] = z
    BY <1>4, <1>5, <1>6
<1>8. /\ u \o q \in Seq(T) /\ Len(u \o q) = Len(q) + 1 /\ (u \o q)[1] = z
      /\ \A x \in 2 .. Len(q) + 1 : (u \o q)[x] = q[x - 1]
    <2>2. u \in Seq(Range(u)) /\ q \in Seq(Range(q)) /\ Range(u) \subseteq T /\ Range(q) \subseteq T
        BY <1>4, <1>7, ListOf
    <2>6. /\ u \o q \in Seq(Range(u \o q)) /\ Range(u \o q) = Range(u) \cup Range(q)
          /\ Len(u \o q) = Len(u) + Len(q)
        BY <2>2, Joined
    <2>1. u \o q \in Seq(T) /\ Len(u \o q) = Len(q) + 1
        <3>1. Range(u \o q) \subseteq T
            BY <2>2, <2>6
        <3>2. u \o q \in Seq(T)
            BY <2>6, <3>1, SeqGrows
        <3> QED BY <1>4, <1>7, <2>6, <3>2
    <2>3. /\ \A i \in 1 .. Len(u) : (u \o q)[i] = u[i]
          /\ \A i \in 1 .. Len(q) : (u \o q)[Len(u) + i] = q[i]
        BY <2>2, Joined
    <2>4. (u \o q)[1] = z
        BY <1>7, <2>3
    <2>5. ASSUME NEW x \in 2 .. Len(q) + 1 PROVE (u \o q)[x] = q[x - 1]
        <3>1. x - 1 \in 1 .. Len(q) /\ Len(u) + (x - 1) = x
            BY <1>4, <1>7
        <3> QED BY <2>3, <3>1
    <2> QED BY <2>1, <2>4, <2>5
<1>9. given = u \o q
    BY <1>1, <1>3, <1>5, <1>6
<1>10. \A x \in 1 .. Len(given) : IsFiniteSet(given[x])
    <2>1. IsFiniteSet(z)
        BY <1>5, FS_Singleton
    <2>2. \A x \in 2 .. Len(q) + 1 : x - 1 \in DOMAIN q
        BY <1>4
    <2>3. \A x \in 1 .. Len(q) + 1 : x = 1 \/ x \in 2 .. Len(q) + 1
        BY <1>4
    <2> QED BY <1>2, <1>3, <1>8, <1>9, <2>1, <2>2, <2>3
<1>11. Domains(given) /\ Len(given) >= 1 /\ given[1] = {0}
    BY <1>3, <1>4, <1>5, <1>8, <1>9, <1>10 DEF Domains
<1>12. Range(program) = {p.calls[i] : i \in DOMAIN p.calls}
    BY <1>1 DEF Range
<1>13. program \in Seq(Range(program))
    BY <1>1, <1>2, <1>12
<1>14. \A c \in Range(program) : Proper(c, given) /\ c.c \notin Internal
    BY <1>1, <1>2, <1>12
<1> QED BY <1>11, <1>13, <1>14 DEF CallList

\* It holds of a model that is only given,
LEMMA InitFormed ==
    ASSUME Init
    PROVE  Formed
<1>1. /\ dom = given /\ todo = <<>> /\ posted = {} /\ rows = {} /\ posts = {} /\ select = <<>> /\ two = <<>>
    BY DEF Init
<1>2. /\ Domains(given) /\ Len(given) >= 1 /\ given[1] = {0}
      /\ CallList(program, given) /\ \A c \in Range(program) : c.c \notin Internal
    BY InitGiven
<1>3. CallList(todo, dom)
    BY <1>1, NoCalls DEF CallList
<1>4. Typed
    BY <1>1, <1>2, <1>3, LongerSelf DEF Typed
<1>5. Wanted
    BY <1>2 DEF Wanted
<1>6. DOMAIN select = {} /\ DOMAIN two = {} /\ DOMAIN todo = {}
    BY <1>1
<1>7. Selects /\ InTurn(todo, dom)
    BY <1>6 DEF Selects, InTurn
<1>8. Alone
    BY <1>1, NoCalls DEF Alone
<1> QED BY <1>4, <1>5, <1>7, <1>8 DEF Formed

\* and so does what it means.
LEMMA InitMeant ==
    ASSUME Init
    PROVE  Meant
<1>1. /\ dom = given /\ todo = <<>> /\ posted = {} /\ rows = {} /\ posts = {} /\ select = <<>> /\ two = <<>>
    BY DEF Init
<1>2. DOMAIN select = {} /\ DOMAIN two = {} /\ DOMAIN todo = {}
    BY <1>1
<1>3. Asked = {}
    BY <1>1, <1>2 DEF Asked
<1>4. Encodes
    BY <1>2 DEF Encodes, EncodedAt
<1>5. Narrows /\ TwoEnds
    BY <1>3 DEF Narrows, TwoEnds
<1>6. Meaning
    <2>1. \A a : Meets(a, posted)
        BY <1>1 DEF Meets
    <2>2. \A a : Fits(a, given) => Completed(a)
        BY <1>1, <1>3 DEF Completed, Meets, Alike
    <2> QED BY <2>1, <2>2 DEF Meaning
<1> QED BY <1>4, <1>5, <1>6 DEF Meant

-----------------------------------------------------------------------------
\* The encodings there were, when calls replace the first one.
LEMMA RewrittenSelects ==
    ASSUME Formed, NEW calls, Shaped(calls, dom'), UNCHANGED shared
    PROVE  Selects'
<1>1. Selects /\ Domains(dom) /\ Domains(dom') /\ Longer(dom, dom') /\ Bigger(dom, dom')
    BY LongerIs DEF Formed, Shaped, Typed
<1>2. select' = select /\ two' = two
    BY DEF shared
<1>3. Columns(dom) \subseteq Columns(dom') /\ Booleans(dom) \subseteq Booleans(dom')
    BY <1>1, ColumnsGrow
<1>4. \A x \in DOMAIN select \cup DOMAIN two : dom'[x] = dom[x]
    BY <1>1 DEF Selects, Longer, Columns
<1> QED BY <1>1, <1>2, <1>3, <1>4 DEF Selects

Reshaped == \E calls : Rewritten(calls) /\ Shaped(calls, dom')

\* Whatever the new calls mean, the shape stays.
LEMMA ReshapedFormed ==
    ASSUME Formed, Reshaped, Selects'
    PROVE  Formed'
<1>1. PICK calls : Rewritten(calls) /\ Shaped(calls, dom')
    BY DEF Reshaped
<1>2. Typed' /\ Wanted' /\ InTurn(todo', dom') /\ Alone'
    BY <1>1, RewrittenFormed
<1> QED BY <1>2 DEF Formed

\* A rewriting that makes an encoding keeps the shape,
LEMMA ReworkedFormed ==
    ASSUME Formed, Reworked, Selects'
    PROVE  Formed'
<1>1. Reshaped
    BY DEF Reshaped, Reworked, Expands
<1> QED BY <1>1, ReshapedFormed

\* and the meaning, once the new encoding is shown to be one.
LEMMA ReworkedMeant ==
    ASSUME Formed, Meant, Reworked, Encodes'
    PROVE  Meant'
<1>1. PICK calls : Rewritten(calls) /\ Expands(calls, dom') /\ NewTwos(calls)
    BY DEF Reworked
<1>2. Narrows' /\ TwoEnds' /\ Meaning'
    BY <1>1, RewrittenNarrows, RewrittenTwoEnds, RewrittenMeaning
<1> QED BY <1>2 DEF Meant

\* A rewriting that leaves the encodings alone keeps the shape,
LEMMA ReplacedFormed ==
    ASSUME Formed, Replaced
    PROVE  Formed'
<1>1. PICK calls : Rewritten(calls) /\ Expands(calls, dom') /\ UNCHANGED shared
    BY DEF Replaced
<1>2. Selects'
    BY <1>1, RewrittenSelects DEF Expands
<1>3. Reshaped
    BY <1>1 DEF Reshaped, Expands
<1> QED BY <1>2, <1>3, ReshapedFormed

\* and the meaning.
LEMMA ReplacedMeant ==
    ASSUME Formed, Meant, Replaced
    PROVE  Meant'
<1>1. PICK calls : Rewritten(calls) /\ Expands(calls, dom') /\ UNCHANGED shared /\ NewTwos(calls)
    BY DEF Replaced
<1>2. Encodes'
    BY <1>1, RewrittenEncodes DEF Expands, Meant
<1>3. Reworked
    BY <1>1 DEF Reworked
<1> QED BY <1>2, <1>3, ReworkedMeant

-----------------------------------------------------------------------------
\* What two steps write, whatever it means.
LEMMA PlainReshaped ==
    ASSUME Typed, todo # <<>>, Call.c \notin Flat, NEW calls, calls \in Seq(Range(calls)),
           \A c \in Range(calls) : Plain(c, dom), Into(calls)
    PROVE  Reshaped /\ UNCHANGED shared
<1>1. /\ todo' = calls \o Tail(todo) /\ UNCHANGED <<model, out, shared>> /\ dom' = dom
    BY DEF Into
<1>2. Longer(dom, dom) /\ Domains(dom)
    BY LongerSelf DEF Typed
<1>3. InTurn(calls, dom) /\ Multiplied(calls, dom)
    BY PlainInTurn, NoneMultiplied DEF Plain
<1>4. CallList(calls, dom)
    BY DEF CallList, Plain
<1>5. Shaped(calls, dom')
    BY <1>1, <1>2, <1>3, <1>4 DEF Shaped, Plain
<1>6. Rewritten(calls)
    BY <1>1 DEF Rewritten
<1> QED BY <1>1, <1>5, <1>6 DEF Reshaped

\* A rewriting that replaces, reshapes.
LEMMA FirstReshaped ==
    ASSUME Typed, todo # <<>>, Call.c \notin Flat, Call.c \notin {"element", "two", "times"},
           NEW k, Proper(k, dom), k.c = "two", First(k)
    PROVE  Reshaped /\ UNCHANGED shared
<1>1. Rewritten(<<k, Call>>) /\ dom' = dom /\ UNCHANGED shared
    BY FirstIs
<1>2. Expands(<<k, Call>>, dom)
    BY FirstExpands DEF Flat
<1> QED BY <1>1, <1>2 DEF Reshaped, Expands

\* The two steps that may not replace still reshape: the element of two,
LEMMA ElementOfTwoReshaped ==
    ASSUME Formed, ElementOfTwo
    PROVE  Reshaped /\ UNCHANGED shared
<1>1. PICK c, x, i, j : c = Call /\ x = c.index /\ i = Min(c.live) /\ j = Max(c.live)
    OBVIOUS
<1>2. Doing("element_live") /\ Cardinality(c.live) = 2
    BY <1>1 DEF ElementOfTwo, ElementLive
<1>3. /\ Working /\ Typed /\ Domains(dom) /\ todo # <<>> /\ Call.c \notin Flat
      /\ Call.c = "element_live" /\ x \in Columns(dom) /\ c.value \in Columns(dom)
    BY <1>1, <1>2, ElementHead
<1>4. c.xs[i] \in Columns(dom) /\ c.xs[j] \in Columns(dom)
    BY <1>1, <1>2, ElementHead
<1>5. CASE First(Two(x))
    <2>1. Proper(Two(x), dom) /\ Two(x).c = "two"
        BY <1>3, MadeEncoding
    <2>2. Call.c \notin {"element", "two", "times"}
        BY <1>3
    <2>3. PICK k : k = Two(x)
        OBVIOUS
    <2> QED BY <1>3, <1>5, <2>1, <2>2, <2>3, FirstReshaped
<1>6. CASE /\ x \in DOMAIN two
           /\ Into(<<EqImp(<<1, -1>>, <<c.value, c.xs[j]>>, 0, two[x]),
                     EqImpNot(<<1, -1>>, <<c.value, c.xs[i]>>, 0, two[x])>>)
    <2>1. PICK b, v, y, z : b = two[x] /\ v = c.value /\ y = c.xs[j] /\ z = c.xs[i]
        OBVIOUS
    <2>2. b \in Booleans(dom) /\ v \in Columns(dom) /\ y \in Columns(dom) /\ z \in Columns(dom)
        BY <1>3, <1>4, <1>6, <2>1 DEF Working, Selects
    <2>3. PICK p, q : /\ p = EqImp(<<1, -1>>, <<v, y>>, 0, b)
                      /\ q = EqImpNot(<<1, -1>>, <<v, z>>, 0, b)
        OBVIOUS
    <2>4. Row(<<1, -1>>, <<v, y>>, 0, dom) /\ Row(<<1, -1>>, <<v, z>>, 0, dom)
        BY <1>3, <2>2, UnitsAre
    <2>5. Plain(p, dom) /\ Plain(q, dom)
        BY <2>2, <2>3, <2>4, MadeImps DEF Plain
    <2>6. PICK calls : calls = <<p, q>>
        OBVIOUS
    <2>7. calls \in Seq(Range(calls)) /\ Range(calls) = {p, q}
        BY <2>6, TwoCalls
    <2>8. Into(calls)
        BY <1>6, <2>1, <2>3, <2>6
    <2>9. \A k \in Range(calls) : Plain(k, dom)
        BY <2>5, <2>7
    <2> QED BY <1>3, <2>7, <2>8, <2>9, PlainReshaped
<1> QED BY <1>1, <1>5, <1>6 DEF ElementOfTwo, ElementLive

\* and the product.
LEMMA IntTimesReshaped ==
    ASSUME Formed, IntTimes
    PROVE  Reshaped /\ UNCHANGED shared
<1>1. CASE BitProduct
    <2>1. Replaced
        BY <1>1, IntTimesReplaced
    <2> QED BY <2>1 DEF Replaced, Reshaped, Expands
<1>2. CASE ~BitProduct
    <2>1. PICK c, a, b, y : c = Call /\ a = c.xs[1] /\ b = c.xs[2] /\ y = c.y
        OBVIOUS
    <2>2. Doing("times")
        BY DEF IntTimes
    <2>3. /\ Heads /\ Working /\ Domains(dom) /\ c.c = "times" /\ Proper(c, dom)
          /\ a \in Columns(dom) /\ b \in Columns(dom) /\ y \in Columns(dom)
        <3>1. PICK kind : kind = "times"
            OBVIOUS
        <3> QED BY <2>1, <2>2, <3>1, OperationHead
    <2>4. dom[a] = 0 .. 1 /\ dom[b] = 0 .. 1
        BY <1>2, <2>1 DEF BitProduct
    <2>5. ~is_fixed(a) /\ ~is_fixed(b)
        <3>1. Cardinality(0 .. 1) # 1
            <4>1. PICK m \in Int, n \in Int : m = 0 /\ n = 1
                OBVIOUS
            <4>2. Cardinality(m .. n) = IF m > n THEN 0 ELSE n - m + 1
                BY IntervalFinite
            <4> QED BY <4>1, <4>2
        <3> QED BY <2>4, <3>1 DEF is_fixed, card
    <2>6. PICK p, q, r : /\ p = Le(<<1, 1, -1>>, <<a, b, y>>, 1) /\ q = Le(<<-1, 1>>, <<a, y>>, 0)
                         /\ r = Le(<<-1, 1>>, <<b, y>>, 0)
        OBVIOUS
    <2>7. Into(<<p, q, r>>)
        BY <2>1, <2>4, <2>5, <2>6 DEF IntTimes
    <2>8. Row(<<1, 1, -1>>, <<a, b, y>>, 1, dom) /\ Row(<<-1, 1>>, <<a, y>>, 0, dom) /\ Row(<<-1, 1>>, <<b, y>>, 0, dom)
        BY <2>3, UnitTripleIs, UnitsAre
    <2>9. Plain(p, dom) /\ Plain(q, dom) /\ Plain(r, dom)
        BY <2>6, <2>8, MadeLe DEF Plain
    <2>10. PICK calls : calls = <<p, q, r>>
        OBVIOUS
    <2>11. calls \in Seq(Range(calls)) /\ Range(calls) = {p, q, r}
        BY <2>10, ThreeCalls
    <2>12. Into(calls) /\ \A k \in Range(calls) : Plain(k, dom)
        BY <2>7, <2>9, <2>10, <2>11
    <2>13. Typed /\ todo # <<>> /\ Call.c \notin Flat
        BY <2>1, <2>3 DEF Working, Flat
    <2> QED BY <2>11, <2>12, <2>13, PlainReshaped
<1> QED BY <1>1, <1>2

-----------------------------------------------------------------------------
(***************************************************************************)
(* Every step.                                                             *)
(***************************************************************************)
Rewrites ==
    \/ Implied \/ Reified \/ Member \/ mip_set_in_encoded
    \/ mip_int_element \/ mip_int_element_fixed \/ ElementOfMany
    \/ IntAbs \/ mip_int_times_element \/ mip_int_extremum \/ Choice \/ Global

\* Each rewriting but two replaces a call by calls that say the same.
LEMMA RewritesReplaced ==
    ASSUME Formed, Rewrites
    PROVE  Replaced
<1>1. CASE Implied
    BY <1>1, IntLinLeImpReplaced, IntLinLeImpNotReplaced, IntLinEqImpReplaced, IntLinEqImpNotReplaced DEF Implied
<1>2. CASE Reified
    BY <1>2, IntLinLeReifReplaced, IntLinEqReifDecidedReplaced, TwoValuedReplaced, EqReifSingleReplaced,
       EqReifGeneralReplaced, NeSingleReplaced, NeGeneralReplaced, NeReifReplaced, NeReifSingleReplaced
       DEF Reified
<1>3. CASE Member \/ mip_set_in_encoded
    BY <1>3, IntInReplaced, IntInImpReplaced, IntInReifReplaced, SetInEncodedReplaced DEF Member
<1>4. CASE mip_int_element \/ mip_int_element_fixed \/ ElementOfMany
    BY <1>4, ElementReplaced, ElementFixedReplaced, ElementOfManyReplaced
<1>5. CASE IntAbs \/ mip_int_times_element \/ mip_int_extremum
    BY <1>5, IntAbsReplaced, TimesElementReplaced, ExtremumReplaced
<1>6. CASE Choice
    BY <1>6, ChoiceReplaced, IfThenElseReplaced, ParityReplaced DEF Choice
<1>7. CASE Global
    BY <1>7, DivModReplaced, LexReplaced, AllDifferentReplaced, InverseReplaced, InRangeReplaced, TableReplaced
       DEF Global
<1> QED BY <1>1, <1>2, <1>3, <1>4, <1>5, <1>6, <1>7 DEF Rewrites

\* The steps, told apart by how they are proved.
LEMMA NextIs ==
    ASSUME Next
    PROVE  \/ TakeUp \/ Narrow \/ LinRow \/ Bounds \/ ToPass \/ Rewrites
           \/ mip_two_valued_at \/ mip_select \/ ElementOfTwo \/ IntTimes
BY DEF Next, Linear, Encode, Lookup, Arithmetic, Rewrites

\* The shape is kept by every step.
LEMMA NextFormed ==
    ASSUME Formed, [Next]_vars
    PROVE  Formed'
<1>1. CASE TakeUp \/ Narrow \/ Bounds
    BY <1>1, TakeUpFormed, NarrowFormed, BoundsFormed
<1>2. CASE LinRow \/ ToPass
    BY <1>2, TakenFormed
<1>3. CASE Rewrites
    BY <1>3, RewritesReplaced, ReplacedFormed
<1>4. CASE mip_two_valued_at \/ mip_select
    BY <1>4, TwoReworked, SelectReworked, ReworkedFormed
<1>5. CASE ElementOfTwo \/ IntTimes
    <2>1. Reshaped /\ UNCHANGED shared
        BY <1>5, ElementOfTwoReshaped, IntTimesReshaped
    <2>2. Selects'
        BY <2>1, RewrittenSelects DEF Reshaped
    <2> QED BY <2>1, <2>2, ReshapedFormed
<1>6. CASE UNCHANGED vars
    <2>1. /\ given' = given /\ program' = program /\ posted' = posted /\ dom' = dom /\ todo' = todo
          /\ rows' = rows /\ posts' = posts /\ select' = select /\ two' = two
        BY <1>6 DEF vars, model, out, shared
    <2>2. Typed' /\ Wanted' /\ Selects' /\ Alone'
        BY <2>1 DEF Formed, Typed, Wanted, Selects, Interval, Alone
    <2> QED BY <2>1, <2>2 DEF Formed
<1> QED BY <1>1, <1>2, <1>3, <1>4, <1>5, <1>6, NextIs

\* Whatever was flattened and whatever the rest of the model narrowed, a call that
\* is still to be expanded is well formed for the columns there are by then, a
\* shared encoding is of Booleans and covers its column's values, and a membership
\* for the pass is posted right after the bounds it needs.
THEOREM FlatteningIsFormed == Spec => []Formed
<1>1. Init => Formed
    BY InitFormed
<1>2. Formed /\ [Next]_vars => Formed'
    BY NextFormed
<1> QED BY <1>1, <1>2, PTL DEF Spec

\* Only ToPass hands anything to the pass.
LEMMA PostsAre ==
    ASSUME Formed, [Next]_vars, ~ToPass
    PROVE  posts' = posts
<1>1. CASE TakeUp \/ Narrow \/ LinRow \/ Bounds
    BY <1>1 DEF TakeUp, Narrow, LinRow, Bounds, out
<1>2. CASE Rewrites
    BY <1>2, RewritesReplaced DEF Replaced, Rewritten, out
<1>3. CASE mip_two_valued_at \/ mip_select
    BY <1>3, TwoReworked, SelectReworked DEF Reworked, Rewritten, out
<1>4. CASE ElementOfTwo \/ IntTimes
    BY <1>4, ElementOfTwoReshaped, IntTimesReshaped DEF Reshaped, Rewritten, out
<1>5. CASE UNCHANGED vars
    BY <1>5 DEF vars, out
<1> QED BY <1>1, <1>2, <1>3, <1>4, <1>5, NextIs

\* What a predicate posts for the flattener's own pass (mip_domains.mzn) is the
\* pass's to handle: values that the column can take, a column that is not fixed, and no
\* Boolean that is.
THEOREM PassHanded == Spec => PassIsHandedItsOwn
<1> DEFINE Handed ==
              \A p \in posts' \ posts :
                  /\ p.values # {} /\ p.values \subseteq dom[p.x]
                  /\ ~is_fixed(p.x) /\ (p.b = 0 \/ ~is_fixed(p.b))
<1>1. ASSUME Formed, [Next]_vars PROVE Handed
    <2>1. CASE ToPass
        <3>1. posts' = posts \cup {todo[1]} /\ todo[1].c = "post" /\ 1 \in DOMAIN todo
            <4>1. posts' = posts \cup {todo[1]} /\ todo[1].c = "post" /\ todo # <<>>
                BY <2>1 DEF ToPass, Doing, Call
            <4>2. DOMAIN todo = 1 .. Len(todo) /\ Len(todo) >= 1 /\ Len(todo) \in Nat
                BY <1>1, <4>1, ListIs, TailIs DEF Formed, Typed, CallList
            <4> QED BY <4>1, <4>2
        <3>2. Ready(todo[1], dom)
            BY <1>1, <3>1 DEF Formed, InTurn
        <3> QED BY <3>1, <3>2 DEF Ready, is_fixed, card
    <2>2. CASE ~ToPass
        BY <1>1, <2>2, PostsAre
    <2> QED BY <2>1, <2>2
<1>2. Formed /\ [Next]_vars => [Handed]_vars
    BY <1>1
<1>3. Spec => []Formed
    BY FlatteningIsFormed
<1>4. Spec => [][Handed]_vars
    BY <1>2, <1>3, PTL DEF Spec
<1> QED BY <1>4 DEF PassIsHandedItsOwn

\* The two steps whose rows need something of the domains.  An element at one of
\* two live positions is told by a Boolean of the index, so these must be the
\* index's bounds (mip_element.mzn:63-70).  The rows of a product of two Booleans
\* give it no lower bound (fzn_int_times.mzn:22-25), so its domain must.
Regular == (ElementOfTwo => BothEnds) /\ (IntTimes => BitProduct)

\* The meaning is kept by every step that is regular.
LEMMA NextMeant ==
    ASSUME Formed, Meant, [Next]_vars, Regular
    PROVE  Meant'
<1>1. CASE TakeUp \/ Narrow \/ Bounds
    BY <1>1, TakeUpMeant, NarrowMeant, BoundsMeant
<1>2. CASE LinRow \/ ToPass
    BY <1>2, TakenFormed, SameMeant
<1>3. CASE Rewrites
    BY <1>3, RewritesReplaced, ReplacedMeant
<1>4. CASE mip_two_valued_at \/ mip_select
    <2>1. Encodes /\ TwoEnds
        BY DEF Meant
    <2>2. Reworked /\ Encodes'
        BY <1>4, <2>1, TwoReworked, SelectReworked, TwoEncodes, SelectEncodes
    <2> QED BY <2>2, ReworkedMeant
<1>5. CASE ElementOfTwo \/ IntTimes
    <2>1. Narrows
        BY DEF Meant
    <2>2. Replaced
        BY <1>5, <2>1, ElementOfTwoReplaced, IntTimesReplaced DEF Regular
    <2> QED BY <2>2, ReplacedMeant
<1>6. CASE UNCHANGED vars
    <2>1. UNCHANGED <<model, dom, shared>> /\ Asked' = Asked
        BY <1>6 DEF vars, out, Asked
    <2> QED BY <2>1, SameMeant
<1> QED BY <1>1, <1>2, <1>3, <1>4, <1>5, <1>6, NextIs

-----------------------------------------------------------------------------
(***************************************************************************)
(* The assignments, column by column.                                      *)
(***************************************************************************)
Assigned(d, n) == {s \in [1 .. n -> Int] : \A x \in 1 .. n : s[x] \in d[x]}

OneOn(A, V) == {Append(a, v) : a \in A, v \in V}

Nothing == {<<>>}

LEMMA OneOnIs == \A A, V, s : s \in OneOn(A, V) <=> \E a \in A, v \in V : s = Append(a, v)
BY DEF OneOn

LEMMA OneMore ==
    ASSUME NEW n, n \in Nat, n >= 1, NEW t, t \in [1 .. n - 1 -> Int], NEW v, v \in Int
    PROVE  /\ Append(t, v) \in [1 .. n -> Int] /\ Append(t, v)[n] = v
           /\ \A x \in 1 .. n - 1 : Append(t, v)[x] = t[x]
<1>1. PICK m \in Nat : m = n - 1
    <2>1. n - 1 \in Nat
        OBVIOUS
    <2> QED BY <2>1
<1>2. t \in [1 .. m -> Int] /\ m + 1 = n /\ m \in Nat
    BY <1>1
<1>3. t \in Seq(Int) /\ Len(t) = m
    BY <1>2
<1>4. Append(t, v) \in Seq(Int) /\ Len(Append(t, v)) = m + 1
    BY <1>2, <1>3
<1>5. Append(t, v)[m + 1] = v /\ \A x \in 1 .. m : Append(t, v)[x] = t[x]
    BY <1>2, <1>3
<1>6. PICK s : s = Append(t, v)
    OBVIOUS
<1>10. s \in Seq(Int) /\ Len(s) = n
    BY <1>2, <1>4, <1>6
<1>7. s \in [1 .. Len(s) -> Int] /\ Len(s) = n
    BY <1>10
<1>8. s \in [1 .. n -> Int]
    BY <1>7
<1>9. s[n] = v /\ \A x \in 1 .. n - 1 : s[x] = t[x]
    BY <1>1, <1>2, <1>5, <1>6
<1> QED BY <1>6, <1>8, <1>9

LEMMA OneLess ==
    ASSUME NEW n, n \in Nat, n >= 1, NEW s, s \in [1 .. n -> Int]
    PROVE  \E t \in [1 .. n - 1 -> Int] : s = Append(t, s[n]) /\ \A x \in 1 .. n - 1 : t[x] = s[x]
<1>1. PICK t : t = [x \in 1 .. n - 1 |-> s[x]]
    OBVIOUS
<1>2. t \in [1 .. n - 1 -> Int] /\ s[n] \in Int /\ \A x \in 1 .. n - 1 : t[x] = s[x]
    BY <1>1
<1>3. PICK u : u = Append(t, s[n])
    OBVIOUS
<1>4. u \in [1 .. n -> Int] /\ u[n] = s[n] /\ \A x \in 1 .. n - 1 : u[x] = t[x]
    <2>1. PICK v : v = s[n]
        OBVIOUS
    <2>2. v \in Int /\ u = Append(t, v)
        BY <1>2, <1>3, <2>1
    <2>3. Append(t, v) \in [1 .. n -> Int]
        BY <1>2, <2>2, OneMore
    <2>4. Append(t, v)[n] = v
        BY <1>2, <2>2, OneMore
    <2>5. \A x \in 1 .. n - 1 : Append(t, v)[x] = t[x]
        BY <1>2, <2>2, OneMore
    <2> QED BY <2>1, <2>2, <2>3, <2>4, <2>5
<1>5. \A x \in 1 .. n : u[x] = s[x]
    BY <1>2, <1>4
<1>6. u = s
    BY <1>4, <1>5
<1> QED BY <1>2, <1>3, <1>6

LEMMA AssignedNone == \A d : Assigned(d, 0) = {<<>>}
<1> TAKE d
<1>1. <<>> \in [1 .. 0 -> Int] /\ 1 .. 0 = {}
    OBVIOUS
<1>2. \A s \in [1 .. 0 -> Int] : s = <<>>
    BY <1>1
<1>3. \A s : s \in Assigned(d, 0) <=> s \in [1 .. 0 -> Int]
    BY <1>1 DEF Assigned
<1>4. \A s : s \in Assigned(d, 0) <=> s = <<>>
    BY <1>1, <1>2, <1>3
<1> QED BY <1>4

LEMMA AssignedMore ==
    ASSUME NEW d, NEW n, n \in Nat, n >= 1, d[n] \subseteq Int
    PROVE  Assigned(d, n) = OneOn(Assigned(d, n - 1), d[n])
<1>1. ASSUME NEW t \in Assigned(d, n - 1), NEW v \in d[n]
      PROVE  Append(t, v) \in Assigned(d, n)
    <2>1. t \in [1 .. n - 1 -> Int] /\ v \in Int /\ \A x \in 1 .. n - 1 : t[x] \in d[x]
        BY <1>1 DEF Assigned
    <2>2. PICK s : s = Append(t, v)
        OBVIOUS
    <2>3. s \in [1 .. n -> Int] /\ s[n] = v /\ \A x \in 1 .. n - 1 : s[x] = t[x]
        <3>1. Append(t, v) \in [1 .. n -> Int]
            BY <2>1, OneMore
        <3>2. Append(t, v)[n] = v
            BY <2>1, OneMore
        <3>3. \A x \in 1 .. n - 1 : Append(t, v)[x] = t[x]
            BY <2>1, OneMore
        <3> QED BY <2>2, <3>1, <3>2, <3>3
    <2>4. \A x \in 1 .. n : s[x] \in d[x]
        BY <2>1, <2>3
    <2> QED BY <2>2, <2>3, <2>4 DEF Assigned
<1>2. ASSUME NEW s \in Assigned(d, n)
      PROVE  \E t \in Assigned(d, n - 1), v \in d[n] : s = Append(t, v)
    <2>1. s \in [1 .. n -> Int] /\ \A x \in 1 .. n : s[x] \in d[x]
        BY DEF Assigned
    <2>2. PICK t \in [1 .. n - 1 -> Int] : s = Append(t, s[n]) /\ \A x \in 1 .. n - 1 : t[x] = s[x]
        BY <2>1, OneLess
    <2>3. t \in Assigned(d, n - 1)
        BY <2>1, <2>2 DEF Assigned
    <2> QED BY <2>1, <2>2, <2>3
<1>3. \A s : s \in OneOn(Assigned(d, n - 1), d[n]) <=> \E t \in Assigned(d, n - 1), v \in d[n] : s = Append(t, v)
    BY OneOnIs
<1>4. ASSUME NEW s PROVE s \in Assigned(d, n) <=> s \in OneOn(Assigned(d, n - 1), d[n])
    <2>1. s \in Assigned(d, n) => \E t \in Assigned(d, n - 1), v \in d[n] : s = Append(t, v)
        BY <1>2
    <2>2. (\E t \in Assigned(d, n - 1), v \in d[n] : s = Append(t, v)) => s \in Assigned(d, n)
        BY <1>1
    <2> QED BY <1>3, <2>1, <2>2
<1> QED BY <1>4

\* Own is the assignments within the domains.
LEMMA OwnIs ==
    ASSUME Domains(given)
    PROVE  Own = Assigned(given, Len(given))
<1> DEFINE N == Len(given)
           upto[i \in 0 .. N] ==
               IF i = 0 THEN Nothing ELSE OneOn(upto[i - 1], given[i])
           h == [i \in 0 .. N |-> Assigned(given, i)]
<1>1. N \in Nat /\ \A i \in 1 .. N : given[i] \subseteq Int
    BY DomainsAre
<1>2. Own = upto[N]
    BY DEF Own, OneOn, Nothing
<1> HIDE DEF N
<1>3. /\ h[0] = Nothing
      /\ \A i \in 1 .. N : h[i] = OneOn(h[i - 1], given[i])
    <2>1. h[0] = Nothing
        BY <1>1, AssignedNone DEF Nothing
    <2>2. ASSUME NEW i \in 1 .. N PROVE h[i] = OneOn(h[i - 1], given[i])
        <3>1. h[i] = Assigned(given, i) /\ h[i - 1] = Assigned(given, i - 1)
            BY <1>1
        <3>2. i \in Nat /\ i >= 1 /\ given[i] \subseteq Int
            BY <1>1
        <3>3. Assigned(given, i) = OneOn(Assigned(given, i - 1), given[i])
            BY <3>2, AssignedMore
        <3> HIDE DEF h
        <3> QED BY <3>1, <3>3
    <2> QED BY <2>1, <2>2
<1>4. h = [i \in 0 .. N |-> IF i = 0 THEN Nothing ELSE OneOn(h[i - 1], given[i])]
    <2>1. PICK g : g = h
        OBVIOUS
    <2>2. DOMAIN g = 0 .. N /\ g = [i \in 0 .. N |-> g[i]]
        BY <2>1
    <2> HIDE DEF h
    <2>3. \A i \in 0 .. N : g[i] = IF i = 0 THEN Nothing ELSE OneOn(g[i - 1], given[i])
        BY <1>1, <1>3, <2>1
    <2>4. g = [i \in 0 .. N |-> IF i = 0 THEN Nothing ELSE OneOn(g[i - 1], given[i])]
        BY <2>2, <2>3
    <2> QED BY <2>1, <2>4
<1> HIDE DEF h
<1>5. upto = [i \in 0 .. N |-> IF i = 0 THEN Nothing ELSE OneOn(upto[i - 1], given[i])]
    BY <1>4
<1> HIDE DEF upto
<1>6. upto[0] = Nothing /\ \A i \in 1 .. N : upto[i] = OneOn(upto[i - 1], given[i])
    BY <1>1, <1>5
<1>7. \A i \in 0 .. N : upto[i] = h[i]
    <2>1. upto[0] = h[0]
        BY <1>3, <1>6
    <2>2. \A i \in 1 .. N : upto[i - 1] = h[i - 1] => upto[i] = h[i]
        BY <1>3, <1>6
    <2> QED BY <1>1, <2>1, <2>2, LoopUnique, ZenonT(30)
<1> QED BY <1>1, <1>2, <1>7 DEF h, N

-----------------------------------------------------------------------------
\* The last column that a call waits for.
Latest(c) == Max(Named(c) \cup {Len(given)})

LEMMA LatestIs ==
    ASSUME Typed, NEW c, Proper(c, dom)
    PROVE  /\ Latest(c) \in Len(given) .. Len(dom)
           /\ \A j \in Nat : Latest(c) <= j => Named(c) \ {0} \subseteq 1 .. j
<1>1. Domains(given) /\ Domains(dom) /\ Len(given) \in Nat /\ Len(dom) \in Nat /\ Len(given) <= Len(dom)
    BY DomainsAre DEF Typed, Bigger
<1>2. Named(c) \subseteq 0 .. Len(dom)
    BY <1>1, NamedColumns
<1>3. PICK S : S = Named(c) \cup {Len(given)}
    OBVIOUS
<1>4. S \subseteq 0 .. Len(dom) /\ Len(given) \in S
    BY <1>1, <1>2, <1>3
<1>5. PICK z \in Int, w \in Int : z = 0 /\ w = Len(dom)
    BY <1>1
<1>6. Finite(z .. w)
    BY IntervalFinite
<1>7. Finite(S)
    BY <1>4, <1>5, <1>6, FiniteParts
<1>8. Max(S) \in S /\ \A x \in S : x \in Int /\ x <= Max(S)
    BY <1>4, <1>7, EndsAre
<1>9. Latest(c) = Max(S)
    BY <1>3 DEF Latest
<1>10. Max(S) \in Len(given) .. Len(dom)
    <2>1. PICK m : m = Max(S)
        OBVIOUS
    <2>2. m \in S /\ m \in Int /\ Len(given) <= m
        BY <1>4, <1>8, <2>1
    <2>3. m \in 0 .. Len(dom)
        BY <1>4, <2>2
    <2>4. m \in Len(given) .. Len(dom)
        BY <1>1, <2>2, <2>3
    <2> QED BY <2>1, <2>4
<1>11. ASSUME NEW j \in Nat, Max(S) <= j PROVE Named(c) \ {0} \subseteq 1 .. j
    <2>1. ASSUME NEW x \in Named(c), x # 0 PROVE x \in 1 .. j
        <3>1. x \in 0 .. Len(dom) /\ x \in S
            BY <1>2, <1>3
        <3>2. x <= Max(S) /\ Max(S) \in Int
            BY <1>8, <1>10, <3>1
        <3> QED BY <1>1, <1>11, <2>1, <3>1, <3>2
    <2> QED BY <2>1
<1> QED BY <1>9, <1>10, <1>11

LEMMA HeldBy ==
    ASSUME Typed, NEW c, Proper(c, dom), NEW j, j \in Nat, Latest(c) <= j,
           NEW s, NEW t, Alike(s, t, 1 .. j)
    PROVE  Holds(c, s) <=> Holds(c, t)
<1>1. Named(c) \ {0} \subseteq 1 .. j
    BY LatestIs
<1>2. Alike(s, t, Named(c) \ {0})
    BY <1>1 DEF Alike
<1> QED BY <1>2, HoldsAlike DEF Typed

\* What completes a up to a column.
Waiting(i)   == {c \in Asked : Latest(c) = i}
Keeps(S, C)  == {s \in S : \A c \in C : Holds(c, s)}
Partly(a, i) ==
    {s \in Assigned(dom, i) : Alike(a, s, 1 .. Len(given)) /\ \A c \in Asked : Latest(c) <= i => Holds(c, s)}

LEMMA PartlyFirst ==
    ASSUME Typed, NEW a, a \in Assigned(dom, Len(given))
    PROVE  Keeps({a}, Waiting(Len(given))) = Partly(a, Len(given))
<1>1. \A c \in Asked : Latest(c) <= Len(given) <=> Latest(c) = Len(given)
    <2>1. ASSUME NEW c \in Asked PROVE Latest(c) <= Len(given) <=> Latest(c) = Len(given)
        <3>1. Proper(c, dom)
            BY AskedProper
        <3>2. Latest(c) \in Len(given) .. Len(dom) /\ Len(given) \in Nat
            BY <3>1, LatestIs, DomainsAre DEF Typed
        <3> QED BY <3>2
    <2> QED BY <2>1
<1>2. \A s \in Assigned(dom, Len(given)) : Alike(a, s, 1 .. Len(given)) <=> s = a
    BY DEF Assigned, Alike
<1>3. \A s : s \in Partly(a, Len(given)) <=> s = a /\ \A c \in Asked : Latest(c) = Len(given) => Holds(c, s)
    BY <1>1, <1>2 DEF Partly
<1>4. \A s : s \in Keeps({a}, Waiting(Len(given))) <=> s = a /\ \A c \in Asked : Latest(c) = Len(given) => Holds(c, s)
    BY DEF Keeps, Waiting
<1> QED BY <1>3, <1>4

LEMMA PartlyNext ==
    ASSUME Typed, NEW a, NEW i, i \in Len(given) + 1 .. Len(dom)
    PROVE  Keeps(OneOn(Partly(a, i - 1), dom[i]), Waiting(i)) = Partly(a, i)
<1>1. Len(given) \in Nat /\ Len(dom) \in Nat /\ i \in Nat /\ i >= 1 /\ i - 1 \in Nat /\ i \in 1 .. Len(dom)
      /\ dom[i] \subseteq Int
    BY DomainsAre DEF Typed
<1>2. ASSUME NEW c \in Asked PROVE Proper(c, dom) /\ Latest(c) \in Nat
    <2>1. Proper(c, dom)
        BY AskedProper
    <2>2. Latest(c) \in Len(given) .. Len(dom)
        BY <2>1, LatestIs
    <2> QED BY <1>1, <2>1, <2>2
<1>3. ASSUME NEW t, NEW s, s \in Assigned(dom, i), t \in Assigned(dom, i - 1), Alike(s, t, 1 .. i - 1)
      PROVE  s \in Partly(a, i) <=> t \in Partly(a, i - 1) /\ \A c \in Waiting(i) : Holds(c, s)
    <2>1. Alike(a, s, 1 .. Len(given)) <=> Alike(a, t, 1 .. Len(given))
        <3>1. 1 .. Len(given) \subseteq 1 .. i - 1
            BY <1>1
        <3> QED BY <1>3, <3>1 DEF Alike
    <2>2. \A c \in Asked : Latest(c) <= i - 1 => (Holds(c, s) <=> Holds(c, t))
        BY <1>1, <1>2, <1>3, HeldBy
    <2>3. \A c \in Asked : Latest(c) <= i <=> Latest(c) <= i - 1 \/ Latest(c) = i
        BY <1>1, <1>2
    <2> QED BY <1>3, <2>1, <2>2, <2>3 DEF Partly, Waiting
<1>4. ASSUME NEW s, s \in Partly(a, i) PROVE s \in Keeps(OneOn(Partly(a, i - 1), dom[i]), Waiting(i))
    <2>1. s \in Assigned(dom, i)
        BY <1>4 DEF Partly
    <2>2. s \in OneOn(Assigned(dom, i - 1), dom[i])
        BY <1>1, <2>1, AssignedMore
    <2>3. PICK t \in Assigned(dom, i - 1), v \in dom[i] : s = Append(t, v)
        BY <2>2, OneOnIs
    <2>4. Alike(s, t, 1 .. i - 1)
        <3>1. t \in [1 .. i - 1 -> Int] /\ v \in Int
            BY <1>1, <2>3 DEF Assigned
        <3>2. \A x \in 1 .. i - 1 : Append(t, v)[x] = t[x]
            BY <1>1, <3>1, OneMore
        <3> QED BY <2>3, <3>2 DEF Alike
    <2>5. t \in Partly(a, i - 1) /\ \A c \in Waiting(i) : Holds(c, s)
        BY <1>3, <1>4, <2>1, <2>3, <2>4
    <2>6. s \in OneOn(Partly(a, i - 1), dom[i])
        BY <2>3, <2>5, OneOnIs
    <2> QED BY <2>5, <2>6 DEF Keeps
<1>5. ASSUME NEW s, s \in Keeps(OneOn(Partly(a, i - 1), dom[i]), Waiting(i)) PROVE s \in Partly(a, i)
    <2>1. s \in OneOn(Partly(a, i - 1), dom[i]) /\ \A c \in Waiting(i) : Holds(c, s)
        BY <1>5 DEF Keeps
    <2>2. PICK t \in Partly(a, i - 1), v \in dom[i] : s = Append(t, v)
        BY <2>1, OneOnIs
    <2>3. t \in Assigned(dom, i - 1)
        BY DEF Partly
    <2>4. Alike(s, t, 1 .. i - 1)
        <3>1. t \in [1 .. i - 1 -> Int] /\ v \in Int
            BY <1>1, <2>2, <2>3 DEF Assigned
        <3>2. \A x \in 1 .. i - 1 : Append(t, v)[x] = t[x]
            BY <1>1, <3>1, OneMore
        <3> QED BY <2>2, <3>2 DEF Alike
    <2>5. s \in Assigned(dom, i)
        <3>1. s \in OneOn(Assigned(dom, i - 1), dom[i])
            BY <2>2, <2>3, OneOnIs
        <3> QED BY <1>1, <3>1, AssignedMore
    <2> QED BY <1>3, <2>1, <2>3, <2>4, <2>5
<1> QED BY <1>4, <1>5

\* Completions is what completes a up to the last column.
LEMMA CompletionsIs ==
    ASSUME Typed, NEW a, a \in Assigned(dom, Len(given))
    PROVE  Completions(a) = Partly(a, Len(dom))
<1> DEFINE G == Len(given)
           M == Len(dom)
           upto[i \in G .. M] ==
               Keeps(IF i = G THEN {a} ELSE OneOn(upto[i - 1], dom[i]), Waiting(i))
           h == [i \in G .. M |-> Partly(a, i)]
<1>1. G \in Nat /\ M \in Nat /\ G <= M
    BY DomainsAre DEF Typed, Bigger
<1>2. Completions(a) = upto[M]
    BY DEF Completions, Keeps, Waiting, OneOn, Latest
<1>3. h[G] = Keeps({a}, Waiting(G))
    BY <1>1, PartlyFirst
<1>4. ASSUME NEW i \in G + 1 .. M PROVE h[i] = Keeps(OneOn(h[i - 1], dom[i]), Waiting(i))
    <2>1. h[i] = Partly(a, i) /\ h[i - 1] = Partly(a, i - 1)
        BY <1>1
    <2>2. Keeps(OneOn(Partly(a, i - 1), dom[i]), Waiting(i)) = Partly(a, i)
        BY PartlyNext
    <2> HIDE DEF h
    <2> QED BY <2>1, <2>2
<1>5. h[M] = Partly(a, M)
    BY <1>1
<1>6. PICK S : S = {a}
    OBVIOUS
<1> HIDE DEF G, M
<1>7. h = [i \in G .. M |-> Keeps(IF i = G THEN {a} ELSE OneOn(h[i - 1], dom[i]), Waiting(i))]
    <2>1. PICK g : g = h
        OBVIOUS
    <2>2. g = [i \in G .. M |-> g[i]]
        BY <2>1
    <2> HIDE DEF h
    <2>3. \A i \in G .. M : i # G => i \in G + 1 .. M
        BY <1>1
    <2>4. \A i \in G .. M : g[i] = Keeps(IF i = G THEN {a} ELSE OneOn(g[i - 1], dom[i]), Waiting(i))
        BY <1>3, <1>4, <2>1, <2>3
    <2>5. g = [i \in G .. M |-> Keeps(IF i = G THEN {a} ELSE OneOn(g[i - 1], dom[i]), Waiting(i))]
        BY <2>2, <2>4
    <2> QED BY <2>1, <2>5
<1> HIDE DEF h
<1>8. upto = [i \in G .. M |-> Keeps(IF i = G THEN {a} ELSE OneOn(upto[i - 1], dom[i]), Waiting(i))]
    BY <1>7
<1> HIDE DEF upto
<1>9. /\ upto[G] = Keeps({a}, Waiting(G))
      /\ \A i \in G + 1 .. M : upto[i] = Keeps(OneOn(upto[i - 1], dom[i]), Waiting(i))
    <2>1. \A i \in G .. M : upto[i] = Keeps(IF i = G THEN {a} ELSE OneOn(upto[i - 1], dom[i]), Waiting(i))
        BY <1>8
    <2>2. G \in G .. M /\ \A i \in G + 1 .. M : i \in G .. M /\ i # G
        BY <1>1
    <2> QED BY <2>1, <2>2
<1>10. upto[M] = h[M]
    <2> DEFINE A == {k \in 0 .. M - G : upto[G + k] = h[G + k]}
    <2>1. 0 \in A
        <3>1. 0 \in 0 .. M - G /\ G + 0 = G
            BY <1>1
        <3> QED BY <1>3, <1>9, <3>1
    <2>2. ASSUME NEW k \in 0 .. M - G - 1, k \in A PROVE k + 1 \in A
        <3>1. G + (k + 1) \in G + 1 .. M /\ (G + (k + 1)) - 1 = G + k /\ k + 1 \in 0 .. M - G
            BY <1>1
        <3>2. PICK i : i = G + (k + 1)
            OBVIOUS
        <3>3. i \in G + 1 .. M /\ upto[i - 1] = h[i - 1]
            BY <2>2, <3>1, <3>2
        <3>4. upto[i] = h[i]
            BY <1>4, <1>9, <3>3
        <3> QED BY <3>1, <3>2, <3>4
    <2> HIDE DEF A
    <2>3. PICK n \in Nat : n = M - G
        <3>1. M - G \in Nat
            BY <1>1
        <3> QED BY <3>1
    <2>4. \A k \in 0 .. n - 1 : k \in A => k + 1 \in A
        BY <2>2, <2>3
    <2>5. \A k \in 0 .. n : k \in A
        BY <2>1, <2>4, RangeInduction, Zenon
    <2>6. n \in A /\ G + n = M
        BY <1>1, <2>3, <2>5
    <2> QED BY <2>3, <2>6 DEF A
<1> QED BY <1>2, <1>5, <1>10 DEF M

LEMMA AcceptsIs ==
    ASSUME Typed, NEW a, Fits(a, given)
    PROVE  Accepts(a) <=> Completed(a)
<1>1. /\ Domains(given) /\ Domains(dom) /\ Len(given) \in Nat /\ Len(dom) \in Nat /\ Len(given) <= Len(dom)
      /\ DOMAIN given = 1 .. Len(given)
    BY DomainsAre DEF Typed, Bigger, Domains
<1>2. a \in [1 .. Len(given) -> Int]
    BY DEF Fits
<1>3. \A s : Fits(s, dom) <=> s \in Assigned(dom, Len(dom))
    BY DEF Fits, Assigned
<1>4. \A c \in Asked : Latest(c) <= Len(dom)
    <2>1. ASSUME NEW c \in Asked PROVE Latest(c) <= Len(dom)
        <3>1. Proper(c, dom)
            BY AskedProper
        <3>2. Latest(c) \in Len(given) .. Len(dom)
            BY <3>1, LatestIs
        <3> QED BY <1>1, <3>2
    <2> QED BY <2>1
<1>5. Partly(a, Len(dom)) # {} <=> Completed(a)
    BY <1>3, <1>4 DEF Partly, Completed, Meets
<1>6. CASE \A x \in 1 .. Len(given) : a[x] \in dom[x]
    <2>1. a \in Assigned(dom, Len(given))
        BY <1>2, <1>6 DEF Assigned
    <2>2. Completions(a) = Partly(a, Len(dom))
        BY <2>1, CompletionsIs
    <2> QED BY <1>1, <1>5, <1>6, <2>2 DEF Accepts
<1>7. CASE ~ \A x \in 1 .. Len(given) : a[x] \in dom[x]
    <2>1. PICK x \in 1 .. Len(given) : a[x] \notin dom[x]
        BY <1>7
    <2>2. ASSUME NEW s, Fits(s, dom), Alike(a, s, 1 .. Len(given)) PROVE FALSE
        <3>1. a[x] = s[x] /\ x \in 1 .. Len(dom)
            BY <1>1, <2>2 DEF Alike
        <3>2. s[x] \in dom[x]
            BY <2>2, <3>1 DEF Fits
        <3> QED BY <2>1, <3>1, <3>2
    <2>3. ~Completed(a)
        BY <2>2 DEF Completed
    <2>4. ~Accepts(a)
        BY <1>1, <1>7 DEF Accepts
    <2> QED BY <2>3, <2>4
<1> QED BY <1>6, <1>7

\* The invariant says of assignments what RowsMeanCalls says of completions.
LEMMA MeantIs ==
    ASSUME Formed, Meant
    PROVE  RowsMeanCalls
<1>1. ASSUME NEW a \in Own PROVE (\A c \in posted : Holds(c, a)) <=> Accepts(a)
    <2>1. a \in Assigned(given, Len(given)) /\ Typed
        BY OwnIs DEF Formed, Typed
    <2>2. Fits(a, given)
        BY <2>1 DEF Assigned, Fits
    <2>3. Meets(a, posted) <=> Completed(a)
        BY <2>2 DEF Meant, Meaning
    <2>4. Accepts(a) <=> Completed(a)
        BY <2>1, <2>2, AcceptsIs
    <2> QED BY <2>3, <2>4 DEF Meets
<1> QED BY <1>1 DEF RowsMeanCalls

\* An assignment to the model's columns satisfies the calls taken up exactly if it can
\* be completed to all columns along the rows, the memberships for the pass and the
\* calls still to be expanded, after every step of the flattener: no rewriting
\* loses or gains a solution, with encodings shared between calls and domains that narrow.
\* The two steps of Regular are assumed to find the domains they need.
THEOREM RowsMeanTheirCalls == Spec /\ [][Regular]_vars => []RowsMeanCalls
<1>1. Init => Formed /\ Meant
    BY InitFormed, InitMeant
<1>2. ASSUME Formed, Meant, [Next]_vars, [Regular]_vars PROVE Formed' /\ Meant'
    <2>1. CASE Regular
        BY <1>2, <2>1, NextFormed, NextMeant
    <2>2. CASE UNCHANGED vars
        <3>1. UNCHANGED <<model, dom, shared>> /\ Asked' = Asked
            BY <2>2 DEF vars, out, Asked
        <3> QED BY <1>2, <3>1, NextFormed, SameMeant
    <2> QED BY <1>2, <2>1, <2>2
<1>3. Formed /\ Meant => RowsMeanCalls
    BY MeantIs
<1>4. Formed /\ Meant /\ [Next]_vars /\ [Regular]_vars => (Formed /\ Meant)'
    BY <1>2
<1>5. Spec /\ [][Regular]_vars => [](Formed /\ Meant)
    BY <1>1, <1>4, PTL DEF Spec
<1> QED BY <1>3, <1>5, PTL

-----------------------------------------------------------------------------
(***************************************************************************)
(* Models for which nothing has to be assumed of the steps: the entries of *)
(* the arrays they look up are constants, and a product of two columns     *)
(* that may be 0..1 is not asked to be negative.                           *)
(***************************************************************************)
Lookups     == {"element", "element_live"}
Constant(S) == \A v, w \in S : v = w

Looked(c, d) == c.c \in Lookups => \A k \in DOMAIN c.xs : Constant(d[c.xs[k]])

Multiplies(c, d) ==
    c.c = "times" /\ 0 .. 1 \subseteq d[c.xs[1]] /\ 0 .. 1 \subseteq d[c.xs[2]]
    => \A v \in d[c.y] : v >= 0

TamePrograms ==
    \A p \in Programs : \A i \in DOMAIN p.calls :
        Looked(p.calls[i], <<{0}>> \o p.given) /\ Multiplies(p.calls[i], <<{0}>> \o p.given)

\* What is left of such a model: a product, if there is one, comes first.
Tame ==
    /\ \A c \in Range(program) : Looked(c, given) /\ Multiplies(c, given)
    /\ \A c \in Range(todo) : Looked(c, dom)
    /\ \A i \in DOMAIN todo : todo[i].c = "times" => i = 1 /\ BitProduct

\* Domains that narrow leave constants constant,
LEMMA LookedGrows ==
    ASSUME NEW c, NEW d, NEW e, Proper(c, d), Bigger(d, e), Looked(c, d)
    PROVE  Looked(c, e)
<1>1. ASSUME c.c \in Lookups, NEW k \in DOMAIN c.xs PROVE Constant(e[c.xs[k]])
    <2>1. c.xs \in Seq(Columns(d))
        BY <1>1, LookupParts DEF Lookups
    <2>2. c.xs[k] \in 1 .. Len(d)
        BY <1>1, <2>1 DEF Columns
    <2>3. e[c.xs[k]] \subseteq d[c.xs[k]]
        BY <2>2 DEF Bigger
    <2> QED BY <1>1, <2>3 DEF Looked, Constant
<1> QED BY <1>1 DEF Looked

\* and products not negative.
LEMMA MultipliesGrows ==
    ASSUME NEW c, NEW d, NEW e, Proper(c, d), Bigger(d, e), Multiplies(c, d)
    PROVE  Multiplies(c, e)
<1>1. CASE c.c = "times"
    <2>1. c.xs \in Seq(Columns(d)) /\ Len(c.xs) = 2 /\ c.y \in Columns(d)
        BY <1>1, OperationParts
    <2>2. c.xs[1] \in 1 .. Len(d) /\ c.xs[2] \in 1 .. Len(d) /\ c.y \in 1 .. Len(d)
        BY <2>1 DEF Columns
    <2>3. e[c.xs[1]] \subseteq d[c.xs[1]] /\ e[c.xs[2]] \subseteq d[c.xs[2]] /\ e[c.y] \subseteq d[c.y]
        BY <2>2 DEF Bigger
    <2> QED BY <2>3 DEF Multiplies
<1> QED BY <1>1 DEF Multiplies

\* A tame model begins tame,
LEMMA TameInit ==
    ASSUME TamePrograms, Init
    PROVE  Tame
<1>1. PICK p \in Programs : given = <<{0}>> \o p.given /\ program = p.calls
    BY DEF Init
<1>2. todo = <<>> /\ Range(todo) = {} /\ DOMAIN todo = {}
    BY DEF Init, Range
<1> QED BY <1>1, <1>2 DEF TamePrograms, Tame, Range

\* no rewriting makes an array of variables or a product of two Booleans,
LEMMA TameReshaped ==
    ASSUME Formed, Tame, Reshaped
    PROVE  Tame'
<1>1. PICK calls : Rewritten(calls) /\ Shaped(calls, dom')
    BY DEF Reshaped
<1>2. todo # <<>> /\ program' = program /\ given' = given
    BY <1>1 DEF Rewritten, model
<1>3. Typed /\ Domains(dom) /\ Longer(dom, dom') /\ Bigger(dom, dom')
    BY <1>1, LongerIs DEF Formed, Typed, Shaped
<1>4. /\ Range(todo') = Range(calls) \cup Range(Tail(todo))
      /\ Len(todo') = Len(calls) + Len(Tail(todo))
      /\ \A i \in 1 .. Len(calls) : todo'[i] = calls[i]
      /\ \A i \in 1 .. Len(Tail(todo)) : todo'[Len(calls) + i] = Tail(todo)[i]
      /\ CallList(todo', dom')
    BY <1>1, <1>3, AfterIs
<1>5. /\ Range(todo) = {Call} \cup Range(Tail(todo)) /\ Proper(Call, dom)
      /\ \A c \in Range(todo) : Proper(c, dom)
    BY <1>2, <1>3, HeadIs DEF Typed, CallList
<1>6. \A c \in Range(todo) : Looked(c, dom')
    BY <1>3, <1>5, LookedGrows DEF Tame
<1>7. ASSUME NEW c \in Range(calls) PROVE Looked(c, dom')
    <2>1. c.c # "element" /\ (c.c = "element_live" => c = Call \/ (Call.c = "element" /\ c.xs = Call.xs))
        BY <1>1 DEF Shaped
    <2>2. Looked(Call, dom')
        BY <1>5, <1>6
    <2> QED BY <2>1, <2>2 DEF Looked, Lookups
<1>8. ASSUME NEW i \in DOMAIN todo', todo'[i].c = "times" PROVE i = 1 /\ BitProduct'
    <2>1. /\ DOMAIN todo' = 1 .. Len(todo') /\ Len(calls) \in Nat /\ DOMAIN calls = 1 .. Len(calls)
          /\ Len(Tail(todo)) \in Nat /\ DOMAIN todo = 1 .. Len(todo) /\ Len(Tail(todo)) = Len(todo) - 1
          /\ Len(todo) \in Nat /\ \A k \in 1 .. Len(todo) - 1 : Tail(todo)[k] = todo[k + 1]
        BY <1>1, <1>2, <1>3, <1>4, ListIs, TailIs DEF Shaped, Typed, CallList
    <2>2. CASE i <= Len(calls)
        <3>1. i \in DOMAIN calls /\ calls[i].c = "times" /\ todo'[1] = calls[1]
            BY <1>4, <1>8, <2>1, <2>2
        <3>2. i = 1 /\ ~(dom'[calls[1].xs[1]] = 0 .. 1 /\ dom'[calls[1].xs[2]] = 0 .. 1)
            BY <1>1, <3>1 DEF Shaped, Multiplied
        <3> QED BY <3>1, <3>2 DEF BitProduct, Call
    <2>3. CASE i > Len(calls)
        <3>1. PICK k : k = i - Len(calls)
            OBVIOUS
        <3>2. k \in 1 .. Len(Tail(todo)) /\ i = Len(calls) + k
            BY <1>4, <1>8, <2>1, <2>3, <3>1
        <3>3. todo'[i] = todo[k + 1] /\ k + 1 \in DOMAIN todo /\ k + 1 # 1
            BY <1>4, <2>1, <3>2
        <3> QED BY <1>8, <3>3 DEF Tame
    <2> QED BY <1>8, <2>1, <2>2, <2>3
<1> QED BY <1>2, <1>4, <1>6, <1>7, <1>8, <1>5 DEF Tame

\* The head is taken and nothing put in its place.
LEMMA TameTaken ==
    ASSUME Formed, Tame, todo # <<>>, todo' = Tail(todo), program' = program, given' = given,
           Bigger(dom, dom')
    PROVE  Tame'
<1>1. Typed /\ todo \in Seq(Range(todo)) /\ \A c \in Range(todo) : Proper(c, dom)
    BY DEF Formed, Typed, CallList
<1>2. /\ Range(Tail(todo)) \subseteq Range(todo) /\ DOMAIN Tail(todo) = 1 .. Len(todo) - 1
      /\ DOMAIN todo = 1 .. Len(todo) /\ Len(todo) \in Nat
      /\ \A i \in 1 .. Len(todo) - 1 : Tail(todo)[i] = todo[i + 1]
    BY <1>1, TailIs, ListIs
<1>3. \A c \in Range(Tail(todo)) : Looked(c, dom')
    BY <1>1, <1>2, LookedGrows DEF Tame
<1>4. ASSUME NEW i \in DOMAIN Tail(todo) PROVE Tail(todo)[i].c # "times"
    <2>1. i + 1 \in DOMAIN todo /\ i + 1 # 1 /\ Tail(todo)[i] = todo[i + 1]
        BY <1>2
    <2> QED BY <2>1 DEF Tame
<1> QED BY <1>3, <1>4 DEF Tame

\* and so every step keeps it.
LEMMA TameNext ==
    ASSUME Formed, Tame, [Next]_vars
    PROVE  Tame'
<1>1. Typed /\ Domains(dom) /\ Domains(given) /\ Bigger(given, dom) /\ \A c \in Range(program) : Proper(c, given)
    BY DEF Formed, Typed, CallList
<1>2. CASE TakeUp
    <2>1. PICK c : c = Head(program)
        OBVIOUS
    <2>2. /\ todo' = <<c>> /\ dom' = dom /\ given' = given
          /\ c \in Range(program) /\ Range(program') \subseteq Range(program)
        BY <1>2, <2>1, TakeUpStep
    <2>3. Range(todo') = {c} /\ DOMAIN todo' = {1} /\ todo'[1] = c
        BY <2>2, OneCall
    <2>4. Looked(c, given) /\ Multiplies(c, given) /\ Proper(c, given)
        BY <1>1, <2>2 DEF Tame
    <2>5. Looked(c, dom) /\ Multiplies(c, dom)
        BY <1>1, <2>4, LookedGrows, MultipliesGrows
    <2>6. c.c = "times" => BitProduct'
        BY <2>2, <2>3, <2>5 DEF BitProduct, Multiplies, Call
    <2> QED BY <2>2, <2>3, <2>5, <2>6 DEF Tame
<1>3. CASE Narrow
    <2>1. todo = <<>> /\ todo' = todo /\ program' = program /\ Shrinks(given, given')
        BY <1>3, NarrowStep
    <2>2. Bigger(given, given')
        BY <2>1 DEF Shrinks
    <2>3. \A c \in Range(program) : Looked(c, given') /\ Multiplies(c, given')
        BY <1>1, <2>2, LookedGrows, MultipliesGrows DEF Tame
    <2>4. Range(todo') = {} /\ DOMAIN todo' = {}
        BY <2>1 DEF Range
    <2> QED BY <2>1, <2>3, <2>4 DEF Tame
<1>4. CASE LinRow \/ ToPass
    <2>1. todo # <<>> /\ todo' = Tail(todo) /\ program' = program /\ given' = given /\ dom' = dom
        BY <1>4 DEF LinRow, ToPass, Doing, model
    <2>2. Bigger(dom, dom')
        BY <1>1, <2>1, LongerSelf
    <2> QED BY <2>1, <2>2, TameTaken
<1>5. CASE Bounds
    <2>1. todo # <<>> /\ todo' = Tail(todo) /\ program' = program /\ given' = given /\ Bigger(dom, dom')
        BY <1>5, BoundsStep DEF model, Shrinks
    <2> QED BY <2>1, TameTaken
<1>6. CASE Rewrites
    BY <1>6, TameReshaped, RewritesReplaced DEF Replaced, Expands, Reshaped
<1>7. CASE mip_two_valued_at \/ mip_select
    BY <1>7, TameReshaped, TwoReworked, SelectReworked DEF Reworked, Expands, Reshaped
<1>8. CASE ElementOfTwo \/ IntTimes
    BY <1>8, TameReshaped, ElementOfTwoReshaped, IntTimesReshaped
<1>9. CASE UNCHANGED vars
    <2>1. todo' = todo /\ program' = program /\ given' = given /\ dom' = dom
        BY <1>9 DEF vars, model
    <2>2. BitProduct' <=> BitProduct
        BY <2>1 DEF BitProduct, Call
    <2> QED BY <2>1, <2>2 DEF Tame
<1> QED BY <1>2, <1>3, <1>4, <1>5, <1>6, <1>7, <1>8, <1>9, NextIs

\* Both of the two steps then find what they need.
LEMMA TameRegular ==
    ASSUME Formed, Tame
    PROVE  Regular
<1>1. ASSUME ElementOfTwo PROVE FALSE
    <2>1. PICK i \in Call.live : ~is_fixed(Call.xs[i])
        BY <1>1 DEF ElementOfTwo, ElementLive
    <2>2. Doing("element_live")
        BY <1>1 DEF ElementOfTwo
    <2>3. Working /\ Typed /\ Call.c = "element_live" /\ todo # <<>>
        BY <2>2, WorkingIs DEF Working
    <2>4. Call \in Range(todo) /\ Proper(Call, dom)
        BY <2>3, HeadIs
    <2>5. Call.xs \in Seq(Columns(dom)) /\ Call.live \subseteq 1 .. Len(Call.xs)
        BY <2>3, <2>4, LookupParts
    <2>6. i \in DOMAIN Call.xs /\ Call.xs[i] \in Columns(dom)
        BY <2>1, <2>5
    <2>7. Constant(dom[Call.xs[i]])
        BY <2>3, <2>4, <2>6 DEF Tame, Looked, Lookups
    <2>8. lb(Call.xs[i]) \in dom[Call.xs[i]] /\ ub(Call.xs[i]) \in dom[Call.xs[i]]
        BY <2>3, <2>6, ColumnIs
    <2>9. lb(Call.xs[i]) = ub(Call.xs[i])
        BY <2>7, <2>8 DEF Constant
    <2> QED BY <2>1, <2>3, <2>6, <2>9, ColumnIs
<1>2. ASSUME IntTimes PROVE BitProduct
    <2>1. Doing("times")
        BY <1>2 DEF IntTimes
    <2>2. Typed /\ todo # <<>> /\ todo[1].c = "times"
        BY <2>1 DEF Formed, Doing, Call
    <2>3. 1 \in DOMAIN todo
        BY <2>2, ListIs, TailIs DEF Typed, CallList
    <2> QED BY <2>2, <2>3 DEF Tame
<1> QED BY <1>1, <1>2 DEF Regular

\* A model whose arrays hold constants and that does not ask products of Booleans
\* to be negative is flattened without losing or gaining a solution, whatever
\* the rest of the model does to the domains in between: with what is still to be
\* done, the rows and what the pass was handed accept exactly what the calls that
\* were taken up mean.  Nothing is assumed of the steps.
THEOREM TameProgramsMeanTheirCalls == TamePrograms /\ Spec => []RowsMeanCalls
<1>1. TamePrograms /\ Init => Tame
    BY TameInit
<1>2. Formed /\ Tame /\ [Next]_vars => Tame'
    BY TameNext
<1>3. Spec => []Formed
    BY FlatteningIsFormed
<1>4. Formed /\ Tame => Regular
    BY TameRegular
<1>5. TamePrograms /\ Spec => [][Regular]_vars
    BY <1>1, <1>2, <1>3, <1>4, PTL DEF Spec
<1> QED BY <1>5, RowsMeanTheirCalls, PTL

===============================================================================
