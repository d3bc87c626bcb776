-------------------------- MODULE MCDecompositions --------------------------
\* Columns 2 to 6 of each program: three integers and two Booleans, of which a
\* program's calls use some.
EXTENDS Decompositions

X == 2  Y == 3  Z == 4  B == 5  D == 6

Bool == 0 .. 1
Of(x, y, z, b, d, calls) == [given |-> <<x, y, z, b, d>>, calls |-> calls]

Signs == {<<1, 1>>, <<1, -1>>}

\* Linear comparisons, implied and reified, of two columns and of one.
Comparisons ==
    {Of(x, y, {0}, b, {0}, <<Reif(c, co, <<X, Y>>, k, B)>>) :
        c \in {"le_imp", "le_reif", "eq_imp", "eq_reif", "ne_reif"}, co \in Signs,
        x \in {0 .. 2, {-1, 1}}, y \in {{1}, {-1, 1}, {0, 2, 3}}, k \in -1 .. 2, b \in {Bool, {1}}}
    \cup
    {Of(x, y, {0}, {0}, {0}, <<Lin("ne", co, <<X, Y>>, k)>>) :
        co \in Signs, x \in {0 .. 2, {-1, 1}}, y \in {{1}, 0 .. 1, {0, 2, 3}}, k \in 0 .. 2}

Sets == {{1}, 1 .. 2, {0, 2}, {1, 3}, {4}}

Memberships ==
    {Of(x, {0}, {0}, {0}, {0}, <<In(X, s)>>) : x \in {0 .. 3, {0, 1, 3}, {1, 3}}, s \in Sets}
    \cup
    {Of(x, {0}, {0}, b, {0}, <<InCall(c, X, s, B)>>) :
        c \in {"in_imp", "in_reif"}, x \in {0 .. 3, {0, 1, 3}, {1, 3}}, s \in Sets,
        b \in {Bool, {0}}}

\* An array of three columns at an index, all, some or none of them fixed.
Arrays ==
    {Of(x, y, z, {1}, {0}, <<Element(xs, o, X, Z)>>) :
        xs \in {<<Y, B, Y>>, <<B, D, B>>, <<Y, B, D>>, <<D, B, Y>>}, o \in {0, 1},
        x \in {0 .. 2, 1 .. 3, {1, 2}}, y \in {{2}, 1 .. 2}, z \in {0 .. 2, {1, 2}}}

\* Of a variable array's elements exactly two can be the value, and the index
\* cannot be at both.
OneOfTwo(p) ==
    LET e    == p.calls[1]
        d(x) == p.given[x - 1]
        live == {i \in 1 .. 3 : d(e.xs[i]) \cap d(e.value) # {}}
    IN /\ \E i \in live : Cardinality(d(e.xs[i])) > 1
       /\ Cardinality(live) = 2
       /\ ~({i + e.offset - 1 : i \in live} \subseteq d(e.index))

Elements == {p \in Arrays : ~OneOfTwo(p)}

Arithmetics ==
    {Of(x, y, {0}, {0}, {0}, <<Nary("abs", <<X>>, Y)>>) :
        x \in {-2 .. 1, {-1, 2}, 0 .. 2, -2 .. 0}, y \in {0 .. 2, -1 .. 1}}
    \cup
    {Of(x, y, z, {0}, {0}, <<Nary("times", <<X, Y>>, Z)>>) :
        x \in {Bool, -1 .. 1, {2}}, y \in {Bool, {-1, 2}, -1 .. 0}, z \in {0 .. 2, {0, 4}}}
    \cup
    {Of(x, y, z, b, {0}, <<Nary(c, <<X, Y, B>>, Z)>>) :
        c \in {"maximum", "minimum"}, x \in {0 .. 2, {1, 3}}, y \in {Bool, {-1, 2}},
        z \in {-1 .. 3}, b \in {Bool, {1}}}

Selections ==
    {Of(x, y, 0 .. 2, b, d, <<Choose_("if", bs, SubSeq(<<X, Y>>, 1, Len(bs)), Z)>>) :
        bs \in {<<>>, <<B>>, <<B, D>>, <<D, B>>},
        x \in {{2}, 0 .. 1}, y \in {{1}, 1 .. 2}, b \in {Bool, {1}}, d \in {Bool, {1}}}
    \cup
    {Of({0}, {0}, {0}, b, d, <<Nary("xor", xs, False)>>) :
        xs \in {<<B>>, <<B, D>>, <<B, D, X>>}, b \in {Bool, {0}}, d \in {Bool, {1}}}

Globals ==
    {Of(x, y, -2 .. 2, {0}, {0}, <<Nary(c, <<X, Y>>, Z)>>) :
        c \in {"div", "mod"}, x \in {-3 .. -2, -1 .. 2}, y \in {{2}, {-1, 2}, {-2, -1}, {0, 2}}}
    \cup
    {Of(x, y, 0 .. 1, b, {0}, <<Pairwise(c, xs, ys)>>) :
        c \in {"lex_less", "lex_lesseq"}, x \in {0 .. 1, {1}}, y \in {{0, 2}}, b \in {Bool, {0}},
        xs \in {<<>>, <<X>>, <<X, Y>>}, ys \in {<<>>, <<Z, B>>, <<Z>>}}
    \cup
    {Of(x, y, z, {0}, {0}, <<Pairwise(c, <<X, Y>>, <<Z>>)>>) :
        c \in {"inverse", "inverse_in_range"}, x \in {0 .. 1, {1, 3}}, y \in {1 .. 2},
        z \in {1 .. 2, 0 .. 3}}
    \cup
    {Of(x, y, z, {1}, {0}, <<[c |-> "all_different", xs |-> xs]>>) :
        xs \in {<<X>>, <<X, Y, Z>>, <<X, B, Y>>}, x \in {0 .. 1, {1}}, y \in {1 .. 2, {0, 2}},
        z \in {0 .. 2, {3}}}
    \cup
    {Of(x, 0 .. 2, {0}, {0}, {0}, <<Table(<<X, Y>>, ts)>>) :
        x \in {0 .. 2, {2}}, ts \in {<<>>, << <<0, 1>>, <<2, 2>> >>, << <<1, 1>>, <<1, 2>>, <<2, 0>> >>}}

\* Two calls that share an encoding, the domain narrowed between them.
SharedFirst(x) ==
    {Reif("ne_reif", <<1>>, <<X>>, 1, B), Reif("eq_reif", <<1, -1>>, <<X, Y>>, 0, B),
     Nary("times", <<X, Y>>, Z), InCall("in_reif", X, {0, 2}, B)}
SharedThen(x) ==
    {Reif("eq_reif", <<1>>, <<X>>, 2, D), Lin("ne", <<-1>>, <<X>>, -1),
     Element(<<Z, Z, Z>>, 0, X, Y), InCall("in_imp", X, {0, 2}, D)}

Shared ==
    UNION {{Of(x, x, 0 .. 2, Bool, Bool, <<f, t>>) : f \in SharedFirst(x), t \in SharedThen(x)} :
              x \in {0 .. 2, 1 .. 2, {0, 2}}}

MCPrograms == Comparisons \cup Memberships \cup Elements \cup Arithmetics \cup Selections \cup Globals \cup Shared

MCOneOfTwo == {p \in Arrays : OneOfTwo(p)}

=============================================================================
