----------------------------- MODULE MCRowForms -----------------------------
(* The models TLC runs RowForms with.                                      *)
EXTENDS RowForms

MCValues == 0 .. 3
MCCoefficients == -3 .. 3
MCCapabilities ==
    {[floats |-> TRUE, indicators |-> b, quadratic |-> b] : b \in BOOLEAN}

\* Domains: lists of intervals of 0 .. 3, some with holes, one empty.
In(lo, hi) == [min |-> lo, max |-> hi]
Bits       == <<In(0, 1)>>
Domains    == {<<>>, <<In(0, 3)>>, <<In(1, 2)>>, <<In(0, 0), In(2, 3)>>, <<In(0, 1), In(3, 3)>>,
               <<In(0, 0), In(2, 2)>>, <<In(1, 1), In(3, 3)>>}

Model(column, domain, boolean, layers) ==
    [column |-> column, domain |-> domain, boolean |-> boolean, layers |-> layers]

Lin(ident, coeffs, xs, r) ==
    [ident |-> ident, argc |-> 3, coeffs |-> coeffs, xs |-> xs, rhs |-> r]
Imp(ident, coeffs, xs, r, b) ==
    [ident |-> ident, argc |-> 4, coeffs |-> coeffs, xs |-> xs, rhs |-> r, b |-> b]
Clause(pos, neg) == [ident |-> "bool_clause", argc |-> 2, pos |-> pos, neg |-> neg]
Equal(ident, a, b) == [ident |-> ident, argc |-> 2, a |-> a, b |-> b]
Product(ident, a, b, c) == [ident |-> ident, argc |-> 3, a |-> a, b |-> b, c |-> c]

\* Decisions 1 (an integer) and 2 (a Boolean) share a column, 3 is a Boolean
\* and 4 an integer with a column of their own.
Args  == {Dec(1), Dec(2), Dec(3), Lit(0), Lit(1)}
Ints  == {Dec(1), Dec(4), Lit(0), Lit(2)}
Bools == {Dec(2), Dec(3), Lit(0), Lit(1)}

AnyConstraint ==
    {Lin("int_lin_le", <<a, -1>>, <<x, y>>, Lit(k)) : a \in {-1, 1, 2}, x \in Args, y \in Args, k \in 0 .. 1}
    \cup {Lin("bool_lin_eq", <<a, 1>>, <<x, y>>, r) : a \in {-1, 1}, x \in Bools, y \in Bools, r \in Ints}
    \cup {Lin(ident, <<1>>, <<x>>, Lit(1)) : ident \in Linear \cup FloatLinear, x \in {Dec(3), Dec(4)}}
    \cup {Clause(<<p, q>>, <<n>>) : p \in Bools, q \in Bools, n \in Bools}
    \cup {Clause(<<>>, <<p, q>>) : p \in Bools, q \in Bools} \cup {Clause(<<>>, <<>>)}
    \cup {Equal("bool_to_int", a, b) : a \in {Lit(0), Lit(1)}, b \in {Dec(1), Dec(4), Lit(1)}}
    \cup {Equal("int_to_float", Dec(4), Lit(2)), Equal("bool_to_int", Dec(2), Dec(1))}
    \cup {Imp(ident, <<1, a>>, <<x, y>>, Lit(1), b) :
            ident \in Implied \cup FloatImplied, a \in {-1, 1}, x \in {Dec(1), Dec(4)},
            y \in {Dec(1), Lit(2)}, b \in Bools}
    \cup {Product(ident, a, b, c) :
            ident \in Times \cup FloatTimes, a \in Ints, b \in Ints, c \in {Dec(1), Dec(4), Lit(2)}}
    \cup {[Clause(<<>>, <<>>) EXCEPT !.argc = 3], [Clause(<<>>, <<>>) EXCEPT !.ident = "int_pow"]}

\* A constraint of every form, after and before one that stamps the columns, the
\* second of them in a layer of its own.
SharedColumns == <<1, 1, 2, 3>>
SharedDomains == <<<<In(0, 2)>>, Bits, Bits, <<In(0, 2)>>>>
SharedKinds   == <<FALSE, TRUE, TRUE, FALSE>>
First  == Lin("int_lin_eq", <<1, 1>>, <<Dec(4), Dec(3)>>, Dec(1))
Second == Lin("int_lin_le", <<2, -1>>, <<Dec(1), Dec(2)>>, Lit(1))

FormModels ==
    {Model(SharedColumns, SharedDomains, SharedKinds, <<<<First, c>>, <<Second>>>>) : c \in AnyConstraint}

\* Any two domains met in one column, beside one that may have holes too.
DomainModels ==
    {Model(<<1, 2, 1>>, <<a, b, c>>, <<FALSE, FALSE, k>>,
           <<<<Lin("int_lin_le", <<1, 1>>, <<Dec(1), Dec(2)>>, Lit(2))>>>>) :
        a \in Domains, b \in Domains, c \in Domains, k \in BOOLEAN}

\* Holes before a constraint that is refused.
RefusedModels ==
    {Model(<<1>>, <<<<In(0, 0), In(2, 3)>>>>, <<FALSE>>,
           <<<<[Clause(<<>>, <<>>) EXCEPT !.argc = 3]>>>>)}

MCModels == FormModels \cup DomainModels \cup RefusedModels

=============================================================================
