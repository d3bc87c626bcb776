--------------------------- MODULE Decompositions ---------------------------
(***************************************************************************)
(* The MiniZinc library (src/mznlib): how a constraint the backends do not *)
(* take is written with the rows they do.  The flattener expands one call  *)
(* at a time, in the order of the conjunctions; a predicate reads the      *)
(* domains as they are then, and shares the encodings made before it.      *)
(*                                                                         *)
(* A column is a number, a domain a set of integers, a Boolean 0 or 1;     *)
(* column 1 is the constant false.  Calls are at the root, with finite     *)
(* domains below the caps of options.mzn, and a column occurs once in a    *)
(* call.                                                                   *)
(***************************************************************************)
EXTENDS Sums, FiniteSets, SequencesExt

CONSTANTS
    Programs,       \* sets of domains and of the calls of a model, in order
    MaxNarrow       \* bound: domains narrowed by the rest of the model

False == 1

VARIABLES
    MIP_domains,    \* whether comparisons go to the flattener's own pass
    program,        \* the calls still to be flattened
    posted,         \* auxiliary: those that were taken up
    given,          \* auxiliary: the domains the model gives its own columns
    dom,
    todo,           \* what is left of the call being flattened
    rows, posts,    \* rows, and constraints handed to the pass
    select, two,    \* the encodings that are shared, by column
    narrowed        \* bound: see MaxNarrow

shared == <<select, two>>
out    == <<rows, posts>>
model  == <<MIP_domains, program, posted, given, narrowed>>
vars   == <<model, dom, todo, out, shared>>

-----------------------------------------------------------------------------
(* Columns and linear terms.                                               *)
lb(x)       == Min(dom[x])
ub(x)       == Max(dom[x])
card(x)     == Cardinality(dom[x])
is_fixed(x) == card(x) = 1
fix(x)      == lb(x)
Asc(S)      ==   \* in ascending order
    [i \in 1 .. Cardinality(S) |-> CHOOSE v \in S : Cardinality({w \in S : w <= v}) = i]
Neg(co)     == [i \in DOMAIN co |-> -co[i]]
Same(v, S)  == [i \in 1 .. Cardinality(S) |-> v]

mip_int_lin_ub(co, xs) ==
    Total([i \in 1 .. Len(xs) |-> co[i] * (IF co[i] > 0 THEN ub(xs[i]) ELSE lb(xs[i]))])

mip_int_lin_lb(co, xs) == -mip_int_lin_ub(Neg(co), xs)

mip_free_terms(xs) == {i \in 1 .. Len(xs) : ~is_fixed(xs[i])}

mip_fixed_sum(co, xs) ==
    Total([i \in 1 .. Len(xs) |-> IF is_fixed(xs[i]) THEN co[i] * fix(xs[i]) ELSE 0])

-----------------------------------------------------------------------------
(* Calls.  Those of one shape differ in their name.                        *)
Lin(c, co, xs, k)        == [c |-> c, co |-> co, xs |-> xs, k |-> k]
Le(co, xs, k)            == Lin("int_lin_le", co, xs, k)
Eq(co, xs, k)            == Lin("int_lin_eq", co, xs, k)
Reif(c, co, xs, k, b)    == [c |-> c, co |-> co, xs |-> xs, k |-> k, b |-> b]
LeImp(co, xs, k, b)      == Reif("le_imp", co, xs, k, b)
LeImpNot(co, xs, k, b)   == Reif("le_imp_not", co, xs, k, b)
EqImp(co, xs, k, b)      == Reif("eq_imp", co, xs, k, b)
EqImpNot(co, xs, k, b)   == Reif("eq_imp_not", co, xs, k, b)
LeReif(co, xs, k, b)     == Reif("le_reif", co, xs, k, b)
Within(x, S)             == [c |-> "within", x |-> x, s |-> S]
True(b)                  == Within(b, {1})
Not(b)                   == Within(b, {0})
In(x, S)                 == [c |-> "in", x |-> x, s |-> S]
InCall(c, x, S, b)       == [c |-> c, x |-> x, s |-> S, b |-> b]
Post(x, S, b, values)    == [c |-> "post", x |-> x, s |-> S, b |-> b, values |-> values]
Nary(c, xs, y)           == [c |-> c, xs |-> xs, y |-> y]
Choose_(c, bs, xs, y)    == [c |-> c, bs |-> bs, xs |-> xs, y |-> y]
Element(xs, offset, index, value) ==
    [c |-> "element", xs |-> xs, offset |-> offset, index |-> index, value |-> value]

ElementOf(xs, offset, index, value, live) ==
    [c |-> "element_live", xs |-> xs, offset |-> offset, index |-> index, value |-> value,
     live |-> live]

Pairwise(c, xs, ys)      == [c |-> c, xs |-> xs, ys |-> ys]
Table(xs, tuples)        == [c |-> "table", xs |-> xs, tuples |-> tuples]

Abs(v) == IF v < 0 THEN -v ELSE v

\* Division truncates towards zero.
Quot(v, w) == IF (v < 0) = (w < 0) THEN Abs(v) \div Abs(w) ELSE -(Abs(v) \div Abs(w))

\* xs at most ys, or less: at the first position where they differ, or where the
\* shorter ends.
LexBefore(xs, ys, strict, a) ==
    \/ \E i \in DOMAIN xs \cap DOMAIN ys :
          a[xs[i]] < a[ys[i]] /\ \A j \in 1 .. i - 1 : a[xs[j]] = a[ys[j]]
    \/ /\ \A i \in DOMAIN xs \cap DOMAIN ys : a[xs[i]] = a[ys[i]]
       /\ Len(xs) < Len(ys) \/ (Len(xs) = Len(ys) /\ ~strict)

\* Where xs has j, ys has i at j.
Inverses(xs, ys, a) == \A i \in DOMAIN xs, j \in DOMAIN ys : a[xs[i]] = j <=> a[ys[j]] = i

\* What a call asks of an assignment to the columns.
SumOf(co, xs, a) == Total([i \in 1 .. Len(xs) |-> co[i] * a[xs[i]]])
Taken(c, a) == {i \in 1 .. Len(c.bs) : a[c.bs[i]] = 1}

Holds(c, a) ==
    CASE c.c = "int_lin_le" -> SumOf(c.co, c.xs, a) <= c.k
      [] c.c = "int_lin_eq" -> SumOf(c.co, c.xs, a) = c.k
      [] c.c = "ne"         -> SumOf(c.co, c.xs, a) # c.k
      [] c.c = "le_imp"     -> a[c.b] = 1 => SumOf(c.co, c.xs, a) <= c.k
      [] c.c = "le_imp_not" -> a[c.b] = 0 => SumOf(c.co, c.xs, a) <= c.k
      [] c.c = "eq_imp"     -> a[c.b] = 1 => SumOf(c.co, c.xs, a) = c.k
      [] c.c = "eq_imp_not" -> a[c.b] = 0 => SumOf(c.co, c.xs, a) = c.k
      [] c.c = "le_reif"    -> a[c.b] = 1 <=> SumOf(c.co, c.xs, a) <= c.k
      [] c.c = "eq_reif"    -> a[c.b] = 1 <=> SumOf(c.co, c.xs, a) = c.k
      [] c.c = "ne_reif"    -> a[c.b] = 1 <=> SumOf(c.co, c.xs, a) # c.k
      [] c.c \in {"within", "in"} -> a[c.x] \in c.s
      [] c.c = "in_imp"     -> a[c.b] = 1 => a[c.x] \in c.s
      [] c.c = "in_reif"    -> a[c.b] = 1 <=> a[c.x] \in c.s
      [] c.c = "in_encoded_imp" -> a[c.b] = 1 => a[c.x] \in c.s
      [] c.c = "in_encoded" -> (c.b = 0 \/ a[c.b] = 1) <=> a[c.x] \in c.s
      [] c.c = "post"       -> (c.b = 0 \/ a[c.b] = 1) <=> a[c.x] \in c.s
      [] c.c = "xor"        -> Total([i \in 1 .. Len(c.xs) |-> a[c.xs[i]]]) % 2 = 1
      [] c.c = "element"    ->
            \E i \in 1 .. Len(c.xs) : a[c.index] = i + c.offset - 1 /\ a[c.value] = a[c.xs[i]]
      [] c.c = "element_live" ->
            \E i \in c.live : a[c.index] = i + c.offset - 1 /\ a[c.value] = a[c.xs[i]]
      [] c.c = "abs"        -> a[c.y] = Abs(a[c.xs[1]])
      [] c.c \in {"times", "times_element"} -> a[c.y] = a[c.xs[1]] * a[c.xs[2]]
      [] c.c = "maximum"    ->
            a[c.y] = Max({a[c.xs[i]] : i \in 1 .. Len(c.xs)})
      [] c.c = "minimum"    ->
            a[c.y] = Min({a[c.xs[i]] : i \in 1 .. Len(c.xs)})
      [] c.c = "div"        -> a[c.xs[2]] # 0 /\ a[c.y] = Quot(a[c.xs[1]], a[c.xs[2]])
      [] c.c = "mod"        ->
            /\ a[c.xs[2]] # 0
            /\ a[c.y] = a[c.xs[1]] - a[c.xs[2]] * Quot(a[c.xs[1]], a[c.xs[2]])
      [] c.c = "lex_less"   -> LexBefore(c.xs, c.ys, TRUE, a)
      [] c.c = "lex_lesseq" -> LexBefore(c.xs, c.ys, FALSE, a)
      [] c.c = "all_different" -> \A i, j \in DOMAIN c.xs : i # j => a[c.xs[i]] # a[c.xs[j]]
      [] c.c = "table"      ->
            \E t \in DOMAIN c.tuples : \A j \in DOMAIN c.xs : a[c.xs[j]] = c.tuples[t][j]
      [] c.c = "inverse"    ->
            /\ \A i \in DOMAIN c.xs : a[c.xs[i]] \in DOMAIN c.ys
            /\ \A j \in DOMAIN c.ys : a[c.ys[j]] \in DOMAIN c.xs
            /\ Inverses(c.xs, c.ys, a)
      [] c.c = "inverse_in_range" -> Inverses(c.xs, c.ys, a)
      [] c.c = "if"         ->
            Taken(c, a) # {} => a[c.y] = a[c.xs[Min(Taken(c, a))]]
      [] OTHER              -> TRUE     \* an encoding: its rows are still to come

-----------------------------------------------------------------------------
(* Calls that are well formed for columns with domains d: as many          *)
(* coefficients as columns, and Booleans where a Boolean is wanted.  A     *)
(* membership that is not reified has 0 for its Boolean.                   *)
Columns(d)  == 1 .. Len(d)
Booleans(d) == {b \in Columns(d) : d[b] \subseteq 0 .. 1}

Comparison(c, d) ==
    /\ \/ c \in [c: {"int_lin_le", "int_lin_eq", "ne"},
                co: Seq(Int), xs: Seq(Columns(d)), k: Int]
       \/ c \in [c: {"le_imp", "le_imp_not", "eq_imp", "eq_imp_not", "le_reif", "eq_reif", "ne_reif"},
                co: Seq(Int), xs: Seq(Columns(d)), k: Int, b: Booleans(d)]
    /\ Len(c.co) = Len(c.xs)

Membership(c, d) ==
    /\ \/ c \in [c: {"within", "in"}, x: Columns(d), s: SUBSET Int]
       \/ c \in [c: {"in_imp", "in_reif", "in_encoded_imp"}, x: Columns(d), s: SUBSET Int,
                b: Booleans(d)]
       \/ c \in [c: {"in_encoded"}, x: Columns(d), s: SUBSET Int, b: Booleans(d) \cup {0}]
       \/ c \in [c: {"post"}, x: Columns(d), s: SUBSET Int, b: Booleans(d) \cup {0},
                values: SUBSET Int]
    /\ IsFiniteSet(c.s)

Operation(c, d) ==
    \/ c \in [c: {"xor"}, xs: Seq(Booleans(d)), y: Columns(d)]
    \/ c \in [c: {"abs"}, xs: Seq(Columns(d)), y: Columns(d)] /\ Len(c.xs) = 1
    \/ /\ c \in [c: {"times", "times_element", "div", "mod"}, xs: Seq(Columns(d)), y: Columns(d)]
       /\ Len(c.xs) = 2
    \/ /\ c \in [c: {"maximum", "minimum"}, xs: Seq(Columns(d)), y: Columns(d)]
       /\ Len(c.xs) > 0

LookupCall(c, d) ==
    \/ /\ c \in [c: {"if"}, bs: Seq(Booleans(d)), xs: Seq(Columns(d)), y: Columns(d)]
       /\ Len(c.bs) = Len(c.xs)
    \/ c \in [c: {"element"}, xs: Seq(Columns(d)), offset: Int, index: Columns(d), value: Columns(d)]
    \/ /\ c \in [c: {"element_live"}, xs: Seq(Columns(d)), offset: Int, index: Columns(d),
                 value: Columns(d), live: SUBSET Int]
       /\ c.live # {} /\ c.live \subseteq 1 .. Len(c.xs)

GlobalCall(c, d) ==
    \/ c \in [c: {"lex_less", "lex_lesseq", "inverse", "inverse_in_range"},
             xs: Seq(Columns(d)), ys: Seq(Columns(d))]
    \/ c \in [c: {"all_different"}, xs: Seq(Columns(d))]
    \/ /\ c \in [c: {"table"}, xs: Seq(Columns(d)), tuples: Seq(Seq(Int))]
       /\ \A t \in DOMAIN c.tuples : Len(c.tuples[t]) = Len(c.xs)

Encoding(c, d) == c \in [c: {"select", "two"}, x: Columns(d)]

Proper(c, d) ==
    \/ Comparison(c, d) \/ Membership(c, d) \/ Operation(c, d) \/ LookupCall(c, d)
    \/ GlobalCall(c, d) \/ Encoding(c, d)

\* A model's domains are finite and its calls well formed; the rest of the calls
\* are the library's own.
ASSUME ProgramsAssumption ==
    \A p \in Programs :
        /\ p.given \in Seq(SUBSET Int) /\ \A x \in DOMAIN p.given : IsFiniteSet(p.given[x])
        /\ p.calls \in Seq({p.calls[i] : i \in DOMAIN p.calls})
        /\ \A i \in DOMAIN p.calls :
              /\ Proper(p.calls[i], <<{0}>> \o p.given)
              /\ p.calls[i].c \notin {"post", "element_live", "select", "two"}

-----------------------------------------------------------------------------
(* A step of the flattener: the first call, and what becomes of it.        *)
Call == todo[1]

Doing(c) == todo # <<>> /\ Call.c = c /\ \A x \in 1 .. Len(dom) : dom[x] # {}

Into(calls) ==
    /\ todo' = calls \o Tail(todo)
    /\ UNCHANGED <<model, dom, out, shared>>

\* A let with new Booleans: columns New + 1 and on.
New == Len(dom)

IntoNew(n, calls) ==
    /\ dom' = dom \o [i \in 1 .. n |-> 0 .. 1]
    /\ todo' = calls \o Tail(todo)
    /\ UNCHANGED <<model, out, shared>>

First(call) ==
    /\ todo' = <<call>> \o todo
    /\ UNCHANGED <<model, dom, out, shared>>

Select(x) == [c |-> "select", x |-> x]
Two(x)    == [c |-> "two", x |-> x]

\* What the backend takes, what the flattener takes into a domain, and what its
\* pass takes.
LinRow ==
    /\ todo # <<>> /\ Call.c \in {"int_lin_le", "int_lin_eq"} /\ Doing(Call.c)
    /\ rows' = rows \cup {Call}
    /\ todo' = Tail(todo)
    /\ UNCHANGED <<model, dom, posts, shared>>

Bounds ==
    /\ Doing("within")
    /\ dom' = [dom EXCEPT ![Call.x] = @ \cap Call.s]
    /\ todo' = Tail(todo)
    /\ UNCHANGED <<model, out, shared>>

ToPass ==
    /\ Doing("post")
    /\ posts' = posts \cup {Call}
    /\ todo' = Tail(todo)
    /\ UNCHANGED <<model, dom, rows, shared>>

-----------------------------------------------------------------------------
(* Half reification: mip_linear.mzn, fzn_int_lin_*_imp.mzn.                *)

\* Faulty: the row's bound is the constraint's.
LeImpTight(co, xs, k, b) ==
    IF is_fixed(b) THEN (IF fix(b) = 1 THEN <<Le(co, xs, k)>> ELSE <<>>)
    ELSE LET hi == mip_int_lin_ub(co, xs) IN
         IF hi <= k THEN <<>>
         ELSE IF mip_int_lin_lb(co, xs) > k THEN <<Not(b)>>
         ELSE <<Le(Append(co, hi - k), Append(xs, b), k)>>

le_imp(co, xs, k, b) ==
    IF is_fixed(b) THEN (IF fix(b) = 1 THEN <<Le(co, xs, k)>> ELSE <<>>)
    ELSE LET hi == mip_int_lin_ub(co, xs) IN
         IF hi <= k THEN <<>>
         ELSE IF mip_int_lin_lb(co, xs) > k THEN <<Not(b)>>
         ELSE <<Le(Append(co, hi - k), Append(xs, b), hi)>>

le_imp_not(co, xs, k, b) ==
    IF is_fixed(b) THEN (IF fix(b) = 1 THEN <<>> ELSE <<Le(co, xs, k)>>)
    ELSE LET hi == mip_int_lin_ub(co, xs) IN
         IF hi <= k THEN <<>>
         ELSE IF mip_int_lin_lb(co, xs) > k THEN <<True(b)>>
         ELSE <<Le(Append(co, k - hi), Append(xs, b), k)>>

IntLinLeImp    == Doing("le_imp") /\ Into(le_imp(Call.co, Call.xs, Call.k, Call.b))
IntLinLeImpNot == Doing("le_imp_not") /\ Into(le_imp_not(Call.co, Call.xs, Call.k, Call.b))

IntLinEqImp ==
    /\ Doing("eq_imp")
    /\ LET c == Call IN
       Into(IF is_fixed(c.b)
            THEN (IF fix(c.b) = 1 THEN <<Eq(c.co, c.xs, c.k)>> ELSE <<>>)
            ELSE <<LeImp(c.co, c.xs, c.k, c.b), LeImp(Neg(c.co), c.xs, -c.k, c.b)>>)

IntLinEqImpNot ==
    /\ Doing("eq_imp_not")
    /\ LET c == Call IN
       Into(IF is_fixed(c.b)
            THEN (IF fix(c.b) = 1 THEN <<>> ELSE <<Eq(c.co, c.xs, c.k)>>)
            ELSE <<LeImpNot(c.co, c.xs, c.k, c.b), LeImpNot(Neg(c.co), c.xs, -c.k, c.b)>>)

-----------------------------------------------------------------------------
(* Encodings, made once for a column: mip_linear.mzn.                      *)
mip_two_valued(x, b) ==
    IF lb(x) = 0 /\ ub(x) = 1 THEN Eq(<<1, -1>>, <<b, x>>, 0)
    ELSE Eq(<<1, -(ub(x) - lb(x))>>, <<x, b>>, lb(x))

mip_two_valued_not(x, b) == Eq(<<1, ub(x) - lb(x)>>, <<x, b>>, ub(x))

mip_two_valued_at ==
    /\ Doing("two")
    /\ LET x == Call.x  b == New + 1 IN
       /\ dom' = Append(dom, 0 .. 1)
       /\ two' = [y \in DOMAIN two \cup {x} |-> IF y = x THEN b ELSE two[y]]
       /\ todo' = <<mip_two_valued(x, b)>> \o Tail(todo)
    /\ UNCHANGED <<model, out, select>>

\* A value's indicator, the constant false in a hole.
mip_select_bit(x, v) ==
    IF v \in dom[x] THEN New + Cardinality({w \in dom[x] : w <= v}) ELSE False

mip_select ==
    /\ Doing("select")
    /\ LET x   == Call.x
           p   == [v \in lb(x) .. ub(x) |-> mip_select_bit(x, v)]
           vs  == Asc(DOMAIN p)
           ps  == [i \in DOMAIN vs |-> p[vs[i]]]
       IN
       /\ dom' = dom \o [i \in 1 .. card(x) |-> 0 .. 1]
       /\ select' = [y \in DOMAIN select \cup {x} |-> IF y = x THEN p ELSE select[y]]
       /\ todo' = <<Eq(Same(1, DOMAIN p), ps, 1),
                    IF card(x) = 2 THEN mip_two_valued(x, p[ub(x)])
                    ELSE Eq(Append(vs, -1), Append(ps, x), 0)>> \o Tail(todo)
    /\ UNCHANGED <<model, out, two>>

mip_select_at(x, v) == IF v \in DOMAIN select[x] THEN select[x][v] ELSE False

SelectSeq_(x, S) == [i \in 1 .. Cardinality(S) |-> mip_select_at(x, Asc(S)[i])]

-----------------------------------------------------------------------------
(* Reified comparisons: fzn_int_lin_{le,eq,ne}_reif.mzn, fzn_int_lin_ne.mzn. *)
mip_domains_wanted(x)   == MIP_domains /\ ~is_fixed(x)
mip_domains_encodes(x)  == mip_domains_wanted(x) /\ card(x) # ub(x) - lb(x) + 1

mip_eq_reif_is_single(co, xs) ==
    LET free == mip_free_terms(xs) IN
    Cardinality(free) = 1 /\ \A i \in free : co[i] \in {1, -1}

\* The one free term: its column, and the value the rest compares it with.
FreeTerm(co, xs)   == Min(mip_free_terms(xs))
FreeX(co, xs)      == xs[FreeTerm(co, xs)]
FreeV(co, xs, k)   == co[FreeTerm(co, xs)] * (k - mip_fixed_sum(co, xs))

\* Faulty: the bound is handed over as it was asked, in a hole perhaps.
HandedAsAsked(up, has, v) == v

\* The bound snapped onto a value the column can take.
HandedBound(up, has, v) == IF up THEN Max(has) ELSE Min(has)

IntLinLeReif ==
    /\ Doing("le_reif")
    /\ LET c == Call IN
       IF mip_eq_reif_is_single(c.co, c.xs) /\ MIP_domains /\ ~is_fixed(c.b)
       THEN LET x    == FreeX(c.co, c.xs)
                v    == FreeV(c.co, c.xs, c.k)
                up   == c.co[FreeTerm(c.co, c.xs)] = 1
                has  == {w \in dom[x] : IF up THEN w <= v ELSE w >= v}
            IN Into(IF has = dom[x] THEN <<True(c.b)>>
                    ELSE IF has = {} THEN <<Not(c.b)>>
                    ELSE <<Post(x, has, c.b, {HandedBound(up, has, v)})>>)
       ELSE Into(<<LeImp(c.co, c.xs, c.k, c.b), LeImpNot(Neg(c.co), c.xs, -c.k - 1, c.b)>>)

\* Two free terms with opposite unit coefficients.
IsDifference(co, xs) ==
    LET free == mip_free_terms(xs) IN
    /\ Cardinality(free) = 2
    /\ \A i, j \in free : i # j => co[i] = -co[j] /\ co[i] \in {1, -1}

mip_eq_reif_disjoint(co, xs, k) ==
    /\ IsDifference(co, xs)
    /\ LET i     == Min(mip_free_terms(xs))
           j     == Max(mip_free_terms(xs))
           shift == co[i] * (k - mip_fixed_sum(co, xs))
       IN dom[xs[i]] \cap {v + shift : v \in dom[xs[j]]} = {}

mip_eq_reif_two_valued(co, xs, k) ==
    /\ IsDifference(co, xs)
    /\ k = mip_fixed_sum(co, xs)
    /\ \A i, j \in mip_free_terms(xs) : card(xs[i]) = 2 /\ dom[xs[i]] = dom[xs[j]]

\* 1 + b = le + ge, and for a disequality le + ge + b = 2.
BothReified(c, cb, k) ==
    IntoNew(2, <<LeReif(c.co, c.xs, c.k, New + 1), LeReif(Neg(c.co), c.xs, -c.k, New + 2),
                 Eq(<<1, 1, cb>>, <<New + 1, New + 2, c.b>>, k)>>)

IntLinEqReifDecided ==
    /\ Doing("eq_reif")
    /\ LET c == Call IN
       \/ /\ is_fixed(c.b)
          /\ Into(<<Lin(IF fix(c.b) = 1 THEN "int_lin_eq" ELSE "ne", c.co, c.xs, c.k)>>)
       \/ /\ ~is_fixed(c.b) /\ mip_eq_reif_disjoint(c.co, c.xs, c.k)
          /\ Into(<<Not(c.b)>>)

mip_int_eq_reif_two_valued ==
    /\ Doing("eq_reif")
    /\ LET c  == Call
           ys == {c.xs[i] : i \in mip_free_terms(c.xs)}
       IN
       /\ ~is_fixed(c.b) /\ mip_eq_reif_two_valued(c.co, c.xs, c.k)
       /\ \/ \E x \in ys \ DOMAIN two :
                (\A y \in ys \ DOMAIN two : x <= y) /\ First(Two(x))
          \/ /\ ys \subseteq DOMAIN two
             /\ Into(<<Nary("xor", <<two[Min(ys)], two[Max(ys)], c.b>>, False)>>)

mip_int_eq_reif_single ==
    /\ Doing("eq_reif")
    /\ LET c == Call IN
       /\ ~is_fixed(c.b) /\ mip_eq_reif_is_single(c.co, c.xs)
       /\ LET x == FreeX(c.co, c.xs)
              v == FreeV(c.co, c.xs, c.k)
          IN CASE v \notin dom[x] -> Into(<<Not(c.b)>>)
               [] v \in dom[x] /\ card(x) = 2 ->
                    Into(<<IF v = ub(x) THEN mip_two_valued(x, c.b)
                           ELSE mip_two_valued_not(x, c.b)>>)
               [] v \in dom[x] /\ card(x) # 2 /\ mip_domains_encodes(x) ->
                    Into(<<Post(x, {v}, c.b, {v})>>)
               [] OTHER ->
                    \/ x \notin DOMAIN select /\ First(Select(x))
                    \/ /\ x \in DOMAIN select
                       /\ Into(<<Eq(<<1, -1>>, <<mip_select_at(x, v), c.b>>, 0)>>)

IntLinEqReifGeneral ==
    /\ Doing("eq_reif")
    /\ LET c == Call IN
       /\ ~is_fixed(c.b) /\ ~mip_eq_reif_is_single(c.co, c.xs)
       /\ ~mip_eq_reif_disjoint(c.co, c.xs, c.k) /\ ~mip_eq_reif_two_valued(c.co, c.xs, c.k)
       /\ BothReified(c, -1, 1)

IntLinNeSingle ==
    /\ Doing("ne")
    /\ LET c == Call IN
       /\ mip_eq_reif_is_single(c.co, c.xs)
       /\ LET x == FreeX(c.co, c.xs)
              v == FreeV(c.co, c.xs, c.k)
          IN IF v \notin dom[x] THEN Into(<<>>)
             ELSE IF card(x) = 2 THEN Into(<<Within(x, dom[x] \ {v})>>)
             ELSE IF mip_domains_wanted(x) THEN Into(<<Post(x, dom[x] \ {v}, 0, {v})>>)
             ELSE IF v \in {lb(x), ub(x)} THEN Into(<<Within(x, lb(x) .. ub(x) \ {v})>>)
             ELSE \/ x \notin DOMAIN select /\ First(Select(x))
                  \/ x \in DOMAIN select /\ Into(<<Not(mip_select_at(x, v))>>)

\* One Boolean says which side of k the sum falls on.
IntLinNeGeneral ==
    /\ Doing("ne")
    /\ LET c == Call IN
       /\ ~mip_eq_reif_is_single(c.co, c.xs)
       /\ IntoNew(1, <<LeImp(c.co, c.xs, c.k - 1, New + 1),
                       LeImpNot(Neg(c.co), c.xs, -c.k - 1, New + 1)>>)

IntLinNeReif ==
    /\ Doing("ne_reif")
    /\ LET c == Call IN
       \/ /\ is_fixed(c.b)
          /\ Into(<<Lin(IF fix(c.b) = 1 THEN "ne" ELSE "int_lin_eq", c.co, c.xs, c.k)>>)
       \/ /\ ~is_fixed(c.b) /\ ~mip_eq_reif_is_single(c.co, c.xs)
          /\ BothReified(c, 1, 2)

mip_int_ne_reif_single ==
    /\ Doing("ne_reif")
    /\ LET c == Call IN
       /\ ~is_fixed(c.b) /\ mip_eq_reif_is_single(c.co, c.xs)
       /\ LET x == FreeX(c.co, c.xs)
              v == FreeV(c.co, c.xs, c.k)
          IN CASE v \notin dom[x] -> Into(<<True(c.b)>>)
               [] v \in dom[x] /\ card(x) = 2 ->
                    Into(<<IF v = ub(x) THEN mip_two_valued_not(x, c.b)
                           ELSE mip_two_valued(x, c.b)>>)
               [] v \in dom[x] /\ card(x) # 2 /\ mip_domains_encodes(x) ->
                    IntoNew(1, <<Post(x, {v}, New + 1, {v}),
                                 Eq(<<1, 1>>, <<New + 1, c.b>>, 1)>>)
               [] OTHER ->
                    \/ x \notin DOMAIN select /\ First(Select(x))
                    \/ /\ x \in DOMAIN select
                       /\ Into(<<Eq(<<1, 1>>, <<mip_select_at(x, v), c.b>>, 1)>>)

-----------------------------------------------------------------------------
(* Membership: fzn_int_in*.mzn, mip_linear.mzn.                            *)
Fail == Within(False, {})
Hull(S) == Min(S) .. Max(S)

IntIn ==
    /\ Doing("in")
    /\ LET x == Call.x  si == Call.s \cap dom[x] IN
       Into(IF si = {} THEN <<Fail>>
            ELSE IF si = dom[x] THEN <<>>
            ELSE <<Within(x, Hull(si))>> \o
                 (IF si = Hull(si) THEN <<>>
                  ELSE IF mip_domains_wanted(x) THEN <<Post(x, si, 0, si)>>
                  ELSE <<InCall("in_encoded", x, si, 0)>>))

IntInImp ==
    /\ Doing("in_imp")
    /\ LET x == Call.x  b == Call.b  si == Call.s \cap dom[x] IN
       Into(IF is_fixed(b) THEN (IF fix(b) = 1 THEN <<In(x, Call.s)>> ELSE <<>>)
            ELSE IF si = {} THEN <<Not(b)>>
            ELSE IF si = dom[x] THEN <<>>
            ELSE IF si = Hull(si)
            THEN <<LeImp(<<-1>>, <<x>>, -Min(si), b), LeImp(<<1>>, <<x>>, Max(si), b)>>
            ELSE <<InCall("in_encoded_imp", x, si, b)>>)

mip_int_not_in(x, S) ==
    [i \in 1 .. Cardinality(S \cap dom[x]) |-> Lin("ne", <<1>>, <<x>>, Asc(S \cap dom[x])[i])]

IntInReif ==
    /\ Doing("in_reif")
    /\ LET x == Call.x  b == Call.b  si == Call.s \cap dom[x] IN
       IF is_fixed(b) THEN Into(IF fix(b) = 1 THEN <<In(x, Call.s)>> ELSE mip_int_not_in(x, Call.s))
       ELSE IF si = {} THEN Into(<<Not(b)>>)
       ELSE IF si = dom[x] THEN Into(<<True(b)>>)
       ELSE IF mip_domains_wanted(x) THEN Into(<<Post(x, si, b, si)>>)
       ELSE IF si = Hull(si)
       THEN IntoNew(2, <<LeReif(<<-1>>, <<x>>, -Min(si), New + 1),
                         LeReif(<<1>>, <<x>>, Max(si), New + 2),
                         Eq(<<1, 1, -1>>, <<New + 1, New + 2, b>>, 1)>>)
       ELSE Into(<<InCall("in_encoded", x, si, b)>>)

mip_set_in_encoded ==
    /\ \E c \in {"in_encoded", "in_encoded_imp"} : Doing(c)
    /\ LET x == Call.x  b == Call.b  ps == SelectSeq_(x, Call.s)  n == Cardinality(Call.s) IN
       \/ x \notin DOMAIN select /\ First(Select(x))
       \/ /\ x \in DOMAIN select
          /\ Into(<<IF Call.c = "in_encoded_imp"
                    THEN Le(Append(Same(-1, Call.s), 1), Append(ps, b), 0)
                    ELSE IF b = 0 THEN Eq(Same(1, Call.s), ps, 1)
                    ELSE Eq(Append(Same(1, Call.s), -1), Append(ps, b), 0)>>)

-----------------------------------------------------------------------------
(* An array at a variable index: mip_element.mzn.                          *)
mip_live_positions(xs, value) == {i \in 1 .. Len(xs) : dom[xs[i]] \cap dom[value] # {}}

\* The positions are those of before the index is narrowed to them.
mip_int_element ==
    /\ Doing("element")
    /\ LET live == mip_live_positions(Call.xs, Call.value)  e == Call IN
       Into(IF live = {} THEN <<Fail>>
            ELSE <<In(e.index, {i + e.offset - 1 : i \in live}),
                   ElementOf(e.xs, e.offset, e.index, e.value, live)>>)

ElementLive == Call.live
At(i)       == i + Call.offset - 1

mip_int_element_fixed ==
    /\ Doing("element_live")
    /\ \A i \in ElementLive : is_fixed(Call.xs[i])
    /\ LET live == ElementLive
           lo   == Min(live)
           v(i) == fix(Call.xs[i])
           step == v(lo + 1) - v(lo)
           x    == Call.index
       IN IF Cardinality({v(i) : i \in live}) = 1 THEN Into(<<Within(Call.value, {v(lo)})>>)
          ELSE IF live = lo .. Max(live) /\ \A i \in live \ {Max(live)} : v(i + 1) - v(i) = step
          THEN Into(<<Eq(<<1, -step>>, <<Call.value, x>>, v(lo) - step * At(lo))>>)
          ELSE \/ x \notin DOMAIN select /\ First(Select(x))
               \/ /\ x \in DOMAIN select
                  /\ LET is == Asc(live) IN
                     Into(<<Eq(Append([k \in DOMAIN is |-> v(is[k])], -1),
                               Append([k \in DOMAIN is |-> mip_select_at(x, At(is[k]))],
                                      Call.value), 0)>>)

\* Two positions need one Boolean saying which.
ElementOfTwo ==
    /\ Doing("element_live")
    /\ Cardinality(ElementLive) = 2 /\ \E i \in ElementLive : ~is_fixed(Call.xs[i])
    /\ LET x == Call.index  live == ElementLive  e == Call IN
       \/ x \notin DOMAIN two /\ First(Two(x))
       \/ /\ x \in DOMAIN two
          /\ Into(<<EqImp(<<1, -1>>, <<e.value, e.xs[Max(live)]>>, 0, two[x]),
                    EqImpNot(<<1, -1>>, <<e.value, e.xs[Min(live)]>>, 0, two[x])>>)

ElementOfMany ==
    /\ Doing("element_live")
    /\ Cardinality(ElementLive) # 2 /\ \E i \in ElementLive : ~is_fixed(Call.xs[i])
    /\ LET x == Call.index  is == Asc(ElementLive)  e == Call IN
       \/ x \notin DOMAIN select /\ First(Select(x))
       \/ /\ x \in DOMAIN select
          /\ Into([k \in DOMAIN is |->
                      EqImp(<<1, -1>>, <<e.value, e.xs[is[k]]>>, 0, mip_select_at(x, At(is[k])))])

-----------------------------------------------------------------------------
(* Arithmetic: fzn_int_abs.mzn, fzn_int_times.mzn, mip_extrema.mzn.        *)
IntAbs ==
    /\ Doing("abs")
    /\ LET a == Call.xs[1]  b == Call.y  nonneg == New + 1
           most == Max({ub(a), -lb(a)})
       IN IF lb(a) >= 0 THEN Into(<<Eq(<<1, -1>>, <<b, a>>, 0)>>)
          ELSE IF ub(a) <= 0 THEN Into(<<Eq(<<1, 1>>, <<b, a>>, 0)>>)
          ELSE IntoNew(1, <<Le(<<-1, 1>>, <<b, a>>, 0), Le(<<-1, -1>>, <<b, a>>, 0),
                            Within(b, 0 .. most),
                            LeImp(<<1, -1>>, <<b, a>>, 0, nonneg),
                            LeImpNot(<<1, 1>>, <<b, a>>, 0, nonneg),
                            LeReif(<<-1>>, <<a>>, 0, nonneg)>>)

\* Faulty: operands of one size are swapped too, and swapped again.
SwapsEqual(a, b) == card(a) >= card(b)

\* The narrower operand indexes.
Swaps(a, b) == card(a) > card(b)

IntTimes ==
    /\ Doing("times")
    /\ LET a == Call.xs[1]  b == Call.xs[2]  c == Call.y IN
       Into(IF is_fixed(a) THEN <<Eq(<<1, -fix(a)>>, <<c, b>>, 0)>>
            ELSE IF is_fixed(b) THEN <<Eq(<<1, -fix(b)>>, <<c, a>>, 0)>>
            ELSE IF dom[a] = 0 .. 1 /\ dom[b] = 0 .. 1
            THEN <<Le(<<1, 1, -1>>, <<a, b, c>>, 1), Le(<<-1, 1>>, <<a, c>>, 0),
                   Le(<<-1, 1>>, <<b, c>>, 0)>>
            ELSE IF Swaps(a, b) THEN <<Nary("times", <<b, a>>, c)>>
            ELSE <<[Call EXCEPT !.c = "times_element"]>>)

mip_int_times_element ==
    /\ Doing("times_element")
    /\ LET a == Call.xs[1]  b == Call.xs[2]  c == Call.y  vs == Asc(dom[a]) IN
       \/ a \notin DOMAIN select /\ First(Select(a))
       \/ /\ a \in DOMAIN select
          /\ Into([i \in DOMAIN vs |->
                      EqImp(<<1, -vs[i]>>, <<c, b>>, 0, mip_select_at(a, vs[i]))])

\* Those that can attain the extremum, and one that does.
mip_extremum_candidates(xs, maximum) ==
    LET is       == 1 .. Len(xs)
        tightest == IF maximum THEN Max({lb(xs[i]) : i \in is}) ELSE Min({ub(xs[i]) : i \in is})
        could    == {i \in is : IF maximum THEN ub(xs[i]) > tightest ELSE lb(xs[i]) < tightest}
        attains  == {i \in is : (IF maximum THEN lb(xs[i]) ELSE ub(xs[i])) = tightest}
    IN IF could \cap attains # {} THEN could ELSE could \cup {Min(attains)}

mip_int_extremum ==
    /\ \E c \in {"maximum", "minimum"} : Doing(c)
    /\ LET c    == Call
           at   == Asc(mip_extremum_candidates(c.xs, c.c = "maximum"))
           sign == IF c.c = "maximum" THEN -1 ELSE 1
       IN IF Len(at) = 1 THEN Into(<<Eq(<<1, -1>>, <<c.y, c.xs[at[1]]>>, 0)>>)
          ELSE IntoNew(Len(at),
                  [j \in DOMAIN at |-> Le(<<sign, -sign>>, <<c.y, c.xs[at[j]]>>, 0)]
                  \o <<Eq([j \in DOMAIN at |-> 1], [j \in DOMAIN at |-> New + j], 1)>>
                  \o [j \in DOMAIN at |->
                         LeImp(<<-sign, sign>>, <<c.y, c.xs[at[j]]>>, 0, New + j)])

-----------------------------------------------------------------------------
(* The first condition that holds, and parity: mip_if_then_else.mzn,       *)
(* fzn_int_if_then_else.mzn, fzn_bool_array_xor.mzn.                       *)
Certain(b) == is_fixed(b) /\ fix(b) = 1

mip_is_binary_choice(bs) == Len(bs) = 2 /\ Certain(bs[2])
mip_choice_is_total(bs)  == \E i \in DOMAIN bs : Certain(bs[i])

mip_int_choice ==
    /\ Doing("if") /\ mip_is_binary_choice(Call.bs)
    /\ LET c == Call.bs[1]  a == Call.xs[1]  b == Call.xs[2]  y == Call.y IN
       Into(IF is_fixed(a) /\ is_fixed(b) THEN <<Eq(<<fix(a) - fix(b), -1>>, <<c, y>>, -fix(b))>>
            ELSE <<EqImp(<<1, -1>>, <<y, a>>, 0, c), EqImpNot(<<1, -1>>, <<y, b>>, 0, c)>>)

\* Row i of mip_first_true: a branch whose condition holds, or one before it.
FirstTrue(bs, chosen(_), i) ==
    Le([j \in 1 .. i + 1 |-> IF j <= i THEN -1 ELSE 1],
       [j \in 1 .. i + 1 |-> IF j < i THEN bs[j] ELSE IF j = i THEN chosen(i) ELSE bs[i]], 0)

IntIfThenElse ==
    /\ Doing("if") /\ ~mip_is_binary_choice(Call.bs)
    /\ LET c == Call
           bs == c.bs
           chosen(i) == New + i
           all == [i \in DOMAIN bs |-> chosen(i)]
           one == [i \in DOMAIN bs |-> 1]
       IN IntoNew(Len(bs),
             [i \in DOMAIN bs |-> FirstTrue(bs, chosen, i)]
             \o (IF mip_choice_is_total(bs) THEN <<Eq(one, all, 1)>>
                 ELSE <<Le(one, all, 1)>>
                      \o [i \in DOMAIN bs |-> Le(<<-1, 1>>, <<bs[i], chosen(i)>>, 0)])
             \o (IF mip_choice_is_total(bs) /\ \A i \in DOMAIN bs : is_fixed(c.xs[i])
                 THEN <<Eq(Append([i \in DOMAIN bs |-> fix(c.xs[i])], -1), Append(all, c.y), 0)>>
                 ELSE [i \in DOMAIN bs |-> EqImp(<<1, -1>>, <<c.y, c.xs[i]>>, 0, chosen(i))]))

mip_bool_parity ==
    /\ Doing("xor")
    /\ LET live == Asc({i \in DOMAIN Call.xs : ~is_fixed(Call.xs[i])})
           n    == Len(live)
           held == Cardinality({i \in DOMAIN Call.xs : Certain(Call.xs[i])})
           want == 1 - (held % 2)
           free == [k \in DOMAIN live |-> Call.xs[live[k]]]
       IN IF n = 0 THEN Into(IF want = 0 THEN <<>> ELSE <<Fail>>)
          ELSE IF n = 1 THEN Into(<<Within(free[1], {want})>>)
          ELSE IF n = 2 THEN Into(<<Eq(<<1, IF want = 1 THEN 1 ELSE -1>>, free, want)>>)
          ELSE /\ dom' = Append(dom, 0 .. (n - want) \div 2)
               /\ todo' = <<Eq(Append([k \in DOMAIN live |-> 1], -2), Append(free, New + 1), want)>>
                          \o Tail(todo)
               /\ UNCHANGED <<model, out, shared>>

-----------------------------------------------------------------------------
(* Division: mip_division.mzn.                                             *)
Ends(x)       == {lb(x), ub(x)}
Reach(x)      == Max({Abs(lb(x)), Abs(ub(x))})

quotients(a, b) ==
    IF lb(b) * ub(b) > 0 THEN Hull({Quot(v, w) : v \in Ends(a), w \in Ends(b)})
    ELSE -Reach(a) .. Reach(a)

IntDivMod ==
    /\ \E c \in {"div", "mod"} : Doing(c)
    /\ LET a == Call.xs[1]  b == Call.xs[2]  q == quotients(a, b)
           quotient == New + 1  remainder == New + 2  nonneg == New + 3  magnitude == New + 4
           scaled   == New + 5
           products == Hull({v * w : v \in Ends(b), w \in {Min(q), Max(q)}})
       IN
       /\ dom' = dom \o <<q, 1 - Reach(b) .. Reach(b) - 1, 0 .. 1, 1 .. Reach(b)>>
                     \o (IF is_fixed(b) THEN <<>> ELSE <<products>>)
       /\ todo' =
             (IF is_fixed(b)
              THEN <<Eq(<<fix(b), 1, -1>>, <<quotient, remainder, a>>, 0)>>
              ELSE <<Nary("times", <<b, quotient>>, scaled),
                     Eq(<<1, -1, -1>>, <<a, scaled, remainder>>, 0)>>)
             \o <<LeReif(<<-1>>, <<a>>, 0, nonneg),
                  LeImp(<<-1>>, <<remainder>>, 0, nonneg),
                  LeImpNot(<<1>>, <<remainder>>, 0, nonneg),
                  Nary("abs", <<b>>, magnitude),
                  Le(<<-1, 1>>, <<magnitude, remainder>>, -1),
                  Le(<<-1, -1>>, <<magnitude, remainder>>, -1),
                  Eq(<<1, -1>>, <<Call.y, IF Call.c = "div" THEN quotient ELSE remainder>>, 0)>>
             \o Tail(todo)
       /\ UNCHANGED <<model, out, shared>>

-----------------------------------------------------------------------------
(* Globals over the encodings: mip_lex.mzn, fzn_int_all_different.mzn,     *)
(* fzn_int_inverse*.mzn, fzn_int_table.mzn.                                *)
mip_lex_strict(nx, ny, strict) == IF strict THEN nx >= ny ELSE nx > ny
mip_lex_empty(nx, ny, strict)  == nx = 0 /\ (ny > 0 \/ ~strict)

mip_lex_chain(equal, less, size, strict) ==
    <<Eq(<<1, 1>>, <<equal[1], less[1]>>, 1)>>
    \o [i \in 1 .. size - 1 |-> Eq(<<1, -1, -1>>, <<equal[i], equal[i + 1], less[i + 1]>>, 0)]
    \o <<IF strict THEN Eq([i \in 1 .. size |-> 1], less, 1) ELSE Le([i \in 1 .. size |-> 1], less, 1)>>

mip_int_lex ==
    /\ \E c \in {"lex_less", "lex_lesseq"} : Doing(c)
    /\ LET xs     == Call.xs
           ys     == Call.ys
           strict == Call.c = "lex_less"
           size   == Min({Len(xs), Len(ys)})
           equal  == [i \in 1 .. size |-> New + i]
           less   == [i \in 1 .. size |-> New + size + i]
       IN IF size = 0 THEN Into(IF mip_lex_empty(Len(xs), Len(ys), strict) THEN <<>> ELSE <<Fail>>)
          ELSE IntoNew(2 * size,
                  mip_lex_chain(equal, less, size, mip_lex_strict(Len(xs), Len(ys), strict))
                  \o [i \in 1 .. size |-> EqImp(<<1, -1>>, <<xs[i], ys[i]>>, 0, equal[i])]
                  \o [i \in 1 .. size |-> LeImp(<<1, -1>>, <<xs[i], ys[i]>>, -1, less[i])])

\* The first of the columns that has no encoding yet is encoded.
SelectOneOf(xs) ==
    \E x \in xs \ DOMAIN select : (\A y \in xs \ DOMAIN select : x <= y) /\ First(Select(x))

IntAllDifferent ==
    /\ Doing("all_different")
    /\ LET xs     == Call.xs
           at(v)  == Asc({i \in DOMAIN xs : v \in dom[xs[i]]})
           values == UNION {dom[xs[i]] : i \in DOMAIN xs}
           vs     == Asc({v \in values : Len(at(v)) > 1})
           used   == {xs[i] : i \in UNION {{at(vs[k])[m] : m \in DOMAIN at(vs[k])} : k \in DOMAIN vs}}
       IN
       \/ SelectOneOf(used)
       \/ /\ used \subseteq DOMAIN select
          /\ Into([k \in DOMAIN vs |->
                      Le([m \in DOMAIN at(vs[k]) |-> 1],
                         [m \in DOMAIN at(vs[k]) |-> mip_select_at(xs[at(vs[k])[m]], vs[k])], 1)])

\* Offsets 1.
IntInverse ==
    /\ Doing("inverse")
    /\ LET xs == Call.xs  ys == Call.ys IN
       Into([i \in DOMAIN xs |-> Within(xs[i], DOMAIN ys)]
            \o [j \in DOMAIN ys |-> Within(ys[j], DOMAIN xs)]
            \o <<[Call EXCEPT !.c = "inverse_in_range"]>>)

IntInverseInRange ==
    /\ Doing("inverse_in_range")
    /\ LET xs == Call.xs  ys == Call.ys  n == Len(ys)
           used == {xs[i] : i \in DOMAIN xs} \cup {ys[j] : j \in DOMAIN ys}
           i(k) == ((k - 1) \div n) + 1
           j(k) == ((k - 1) % n) + 1
       IN
       \/ SelectOneOf(used)
       \/ /\ used \subseteq DOMAIN select
          /\ Into([k \in 1 .. Len(xs) * n |->
                      Eq(<<1, -1>>,
                         <<mip_select_at(xs[i(k)], j(k)), mip_select_at(ys[j(k)], i(k))>>, 0)])

IntTable ==
    /\ Doing("table")
    /\ LET xs == Call.xs  ts == Call.tuples
           chosen == [t \in DOMAIN ts |-> New + t]
       IN IntoNew(Len(ts),
             <<Eq([t \in DOMAIN ts |-> 1], chosen, 1)>>
             \o [m \in DOMAIN xs |->
                    Eq(Append([t \in DOMAIN ts |-> ts[t][m]], -1), Append(chosen, xs[m]), 0)])

-----------------------------------------------------------------------------
Init ==
    /\ MIP_domains \in BOOLEAN
    /\ \E p \in Programs :
          /\ given = <<{0}>> \o p.given
          /\ program = p.calls
    /\ dom = given /\ todo = <<>> /\ posted = {}
    /\ rows = {} /\ posts = {} /\ select = <<>> /\ two = <<>> /\ narrowed = 0

\* The flattener takes up the next constraint; between two, the model narrows a
\* domain in its own ways.
TakeUp ==
    /\ todo = <<>> /\ program # <<>> /\ \A x \in 1 .. Len(dom) : dom[x] # {}
    /\ todo' = <<Head(program)>> /\ program' = Tail(program)
    /\ posted' = posted \cup {Head(program)}
    /\ UNCHANGED <<MIP_domains, given, narrowed, dom, out, shared>>

Narrow ==
    /\ todo = <<>> /\ posted # {} /\ program # <<>> /\ narrowed < MaxNarrow
    /\ \E x \in 1 .. Len(given) : \E v \in dom[x] :
          /\ ~is_fixed(x)
          /\ dom' = [dom EXCEPT ![x] = @ \ {v}]
          /\ given' = [given EXCEPT ![x] = @ \ {v}]
    /\ narrowed' = narrowed + 1
    /\ UNCHANGED <<MIP_domains, program, posted, todo, out, shared>>

Linear     == LinRow \/ Bounds \/ ToPass
Implied    == IntLinLeImp \/ IntLinLeImpNot \/ IntLinEqImp \/ IntLinEqImpNot
Encode     == mip_two_valued_at \/ mip_select \/ mip_set_in_encoded
Reified    == \/ IntLinLeReif \/ IntLinEqReifDecided \/ mip_int_eq_reif_two_valued
              \/ mip_int_eq_reif_single \/ IntLinEqReifGeneral
              \/ IntLinNeSingle \/ IntLinNeGeneral \/ IntLinNeReif \/ mip_int_ne_reif_single
Member     == IntIn \/ IntInImp \/ IntInReif
Lookup     == mip_int_element \/ mip_int_element_fixed \/ ElementOfTwo \/ ElementOfMany
Arithmetic == IntAbs \/ IntTimes \/ mip_int_times_element \/ mip_int_extremum
Global     == IntDivMod \/ mip_int_lex \/ IntAllDifferent \/ IntInverse \/ IntInverseInRange \/ IntTable
Choice     == mip_int_choice \/ IntIfThenElse \/ mip_bool_parity

Next ==
    \/ TakeUp \/ Narrow
    \/ Linear \/ Implied \/ Encode \/ Reified \/ Member \/ Lookup \/ Arithmetic \/ Choice \/ Global

\* The compiler runs until nothing is left.
Spec == Init /\ [][Next]_vars /\ WF_vars(Next)

-----------------------------------------------------------------------------
\* The assignments to the model's own columns, and what completes one of them to
\* all columns along the rows, each checked where its last column has its value.
Own ==
    LET upto[i \in 0 .. Len(given)] ==
            IF i = 0 THEN {<<>>} ELSE {Append(a, v) : a \in upto[i - 1], v \in given[i]}
    IN upto[Len(given)]

\* The columns a call names, in whichever of its fields.
Named(c) ==
    UNION {IF f \in {"xs", "ys", "bs"} THEN {c[f][i] : i \in DOMAIN c[f]} ELSE {c[f]} :
              f \in DOMAIN c \cap {"xs", "ys", "bs", "x", "y", "b", "index", "value"}}

Asked == rows \cup posts \cup {todo[i] : i \in DOMAIN todo}

Completions(a) ==
    LET upto[i \in Len(given) .. Len(dom)] ==
            LET asked == {c \in Asked : Max(Named(c) \cup {Len(given)}) = i}
                S == IF i = Len(given) THEN {a}
                     ELSE {Append(s, v) : s \in upto[i - 1], v \in dom[i]}
            IN {s \in S : \A c \in asked : Holds(c, s)}
    IN upto[Len(dom)]

Accepts(a) == (\A x \in DOMAIN given : a[x] \in dom[x]) /\ Completions(a) # {}

\* At every step the rows so far, with what is still to be done, accept an
\* assignment to the model's columns exactly when it satisfies the calls, given
\* values of the columns that were made: half reifications, encodings of holes
\* and shared selectors lose no solution and let none in.
RowsMeanCalls ==
    \A a \in Own :
        (\A c \in posted : Holds(c, a)) <=> Accepts(a)

\* "The pass also assumes every value it is handed lies inside the variable's
\* domain", and skips a call whose first argument is no variable.
PassIsHandedItsOwn ==
    [][\A p \in posts' \ posts :
          /\ p.values # {} /\ p.values \subseteq dom[p.x]
          /\ ~is_fixed(p.x) /\ (p.b = 0 \/ ~is_fixed(p.b))]_vars

\* "a rewrite loop hangs the flattener with no message at all": every call comes
\* down to rows.
FlatteningEnds == <>((todo = <<>> /\ program = <<>>) \/ \E x \in 1 .. Len(dom) : dom[x] = {})

=============================================================================
