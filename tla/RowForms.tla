------------------------------ MODULE RowForms ------------------------------
(***************************************************************************)
(* The rows of MipModel::build (src/src/mip_model.cpp), pass 2 and the     *)
(* domains with holes, for what Declarations (src/src/signatures.cpp) says *)
(* a solver accepts: which constraint takes which form, how its arguments  *)
(* become terms and a right-hand side, and what the backend is given.      *)
(*                                                                         *)
(* It runs the loop of ColumnDomains, then the scratch of RowScratch, one  *)
(* term at a time.  The layers of a model only add constraints to its      *)
(* lowest, each built when it is pushed; layers with decisions are         *)
(* IncrementalRun's.  Identifiers come without the fzn_ prefix that        *)
(* dispatch_ident takes off.                                               *)
(***************************************************************************)
EXTENDS ColumnDomains, RowScratch, Sums, SequencesExt

CONSTANT Capabilities   \* what backends can do: records of the flags used here

ASSUME CapabilitiesAssumption ==
    \A c \in Capabilities :
        c.floats \in BOOLEAN /\ c.indicators \in BOOLEAN /\ c.quadratic \in BOOLEAN

VARIABLES
    caps,       \* MipBackend::capabilities
    phase,
    layer,      \* the layer being built
    position,   \* c: how many of its constraints are done
    item,       \* the constraint, or the holes, being posted
    queue,      \* the rows still to be built for it
    todo,       \* the terms still to be read of the row being built
    rhs,        \* its right-hand side so far
    rows,       \* rows_
    given,      \* what the backend was given for the item
    total       \* auxiliary: how many rows the backend was given

scratch == <<columns, slot, stamp, rowId, idx, val, building, sum, terms>>
progress == <<phase, layer, position, item, queue, todo, rhs, rows, given, total>>
formsVars == <<domainsVars, scratch, caps, progress>>

-----------------------------------------------------------------------------
(* Declarations: the constraints it names and how many arguments they have. *)
Linear      == {"int_lin_le", "int_lin_eq", "bool_lin_le", "bool_lin_eq"}
FloatLinear == {"float_lin_le", "float_lin_eq"}
Implied      == {"int_lin_le_imp", "int_lin_eq_imp"}
FloatImplied == {"float_lin_le_imp", "float_lin_eq_imp"}
Times      == {"int_times"}
FloatTimes == {"float_times"}

\* Faulty: indicators are declared whatever the backend can do.
DeclaredIndicators(c) ==
    Linear \X {3} \cup {<<"bool_clause", 2>>, <<"bool_to_int", 2>>}
        \cup (IF c.floats THEN FloatLinear \X {3} \cup {<<"int_to_float", 2>>} ELSE {})
        \cup Implied \X {4}
        \cup (IF c.floats THEN FloatImplied \X {4} ELSE {})
        \cup (IF c.quadratic THEN Times \X {3} ELSE {})
        \cup (IF c.quadratic /\ c.floats THEN FloatTimes \X {3} ELSE {})

Declared(c) ==
    Linear \X {3} \cup {<<"bool_clause", 2>>, <<"bool_to_int", 2>>}
        \cup (IF c.floats THEN FloatLinear \X {3} \cup {<<"int_to_float", 2>>} ELSE {})
        \cup (IF c.indicators THEN Implied \X {4} ELSE {})
        \cup (IF c.indicators /\ c.floats THEN FloatImplied \X {4} ELSE {})
        \cup (IF c.quadratic THEN Times \X {3} ELSE {})
        \cup (IF c.quadratic /\ c.floats THEN FloatTimes \X {3} ELSE {})

IsLe(ident) == ident \in {"int_lin_le", "bool_lin_le", "float_lin_le",
                          "int_lin_le_imp", "float_lin_le_imp"}

\* The chain of identifiers in pass 2: the form of a constraint, the number of
\* arguments it wants, and the capability the form needs.
Form(ident) ==
    CASE ident \in Linear \cup FloatLinear       -> "linear"
      [] ident = "bool_clause"                   -> "clause"
      [] ident \in {"bool_to_int", "int_to_float"} -> "equal"
      [] ident \in Implied \cup FloatImplied     -> IF caps.indicators THEN "implied" ELSE "unknown"
      [] ident \in Times \cup FloatTimes         -> IF caps.quadratic THEN "times" ELSE "unknown"
      [] OTHER                                   -> "unknown"

Wants(form) == CASE form \in {"linear", "times"} -> 3
                 [] form \in {"clause", "equal"} -> 2
                 [] form = "implied" -> 4
                 [] OTHER -> 0

-----------------------------------------------------------------------------
(* Arguments and terms.                                                    *)
Dec(d) == [is |-> "decision", v |-> d]
Lit(k) == [is |-> "literal", v |-> k]
Col(c) == [is |-> "column", v |-> c]

IsLiteral(arg) == arg.is = "literal"

\* What a constraint of a model m may be over: its decisions and numbers, and
\* where a truth value is expected its Booleans and the two truth values.
Arguments(m) ==
    [is : {"decision"}, v : 1 .. Len(m.column)] \cup [is : {"literal"}, v : Int]
Truths(m) ==
    [is : {"decision"}, v : {d \in 1 .. Len(m.column) : m.boolean[d]}]
        \cup [is : {"literal"}, v : {0, 1}]

\* The arguments have the types the identifier says, an implied row a literal on
\* its right; pass 1 has made the two decisions of a channelling constraint one column.
WellFormed(con, m) ==
    /\ con.ident \notin {"none", "holes"}
    /\ con.ident \in Linear \cup FloatLinear \cup Implied \cup FloatImplied =>
          /\ con.coeffs \in Seq(Int) /\ con.xs \in Seq(Arguments(m))
          /\ Len(con.coeffs) = Len(con.xs) /\ con.rhs \in Arguments(m)
    /\ con.ident \in Implied \cup FloatImplied => IsLiteral(con.rhs) /\ con.b \in Truths(m)
    /\ con.ident = "bool_clause" => con.pos \in Seq(Truths(m)) /\ con.neg \in Seq(Truths(m))
    /\ con.ident \in {"bool_to_int", "int_to_float"} =>
          /\ con.a \in Arguments(m) /\ con.b \in Arguments(m)
          /\ con.a.is = "decision" /\ con.b.is = "decision" =>
                m.column[con.a.v] = m.column[con.b.v]
    /\ con.ident \in Times \cup FloatTimes =>
          con.a \in Arguments(m) /\ con.b \in Arguments(m) /\ con.c \in Arguments(m)

\* A domain of several intervals has no empty one among them.
ASSUME FormsAssumption ==
    \A m \in Models :
        /\ Len(m.layers) \in Nat \ {0}
        /\ \A l \in 1 .. Len(m.layers) :
              /\ Len(m.layers[l]) \in Nat
              /\ \A i \in 1 .. Len(m.layers[l]) : WellFormed(m.layers[l][i], m)
        /\ \A d \in 1 .. Len(m.column) :
              Len(m.domain[d]) > 1 =>
                  \A i \in 1 .. Len(m.domain[d]) : m.domain[d][i].min <= m.domain[d][i].max

\* column_arg.
ColumnArg(arg) == IF arg.is = "decision" THEN ColumnOf(arg.v) ELSE arg.v

\* Its literal, which a decision leaves at zero.
LiteralOf(arg) == IF IsLiteral(arg) THEN arg ELSE Lit(0)

\* A term: a weighted argument, and a constant that goes with it.
Term(a, arg)        == [coef |-> a, arg |-> arg, constant |-> 0]
NegatedTerm(arg)    == [coef |-> -1, arg |-> arg, constant |-> 1]

\* A row to be built: bin is the column that implies it, 0 if none does.
Plan(ts, sense, r, bin) == [terms |-> ts, sense |-> sense, rhs |-> r, bin |-> bin]

SenseOf(ident) == IF IsLe(ident) THEN "le" ELSE "eq"

WeightedSum(con) == [i \in 1 .. Len(con.xs) |-> Term(con.coeffs[i], con.xs[i])]

\* A variable right-hand side moves to the left, a literal one stays.
LinearPlan(con) ==
    Plan(Append(WeightedSum(con), Term(-1, con.rhs)), SenseOf(con.ident), 0, 0)

ClausePlan(con) ==
    Plan([i \in 1 .. Len(con.pos) |-> Term(1, con.pos[i])]
             \o [i \in 1 .. Len(con.neg) |-> NegatedTerm(con.neg[i])], "ge", 1, 0)

EqualPlan(con) == Plan(<<Term(1, con.a), Term(-1, con.b)>>, "eq", 0, 0)

\* A literal indicator that is true leaves the row itself.  Of the right-hand side
\* only the literal is read.
ImpliedPlan(con) ==
    Plan(Append(WeightedSum(con), Term(-1, LiteralOf(con.rhs))), SenseOf(con.ident), 0,
         IF IsLiteral(con.b) THEN 0 ELSE ColumnArg(con.b))

\* A product with an operand fixed.
ProductPlan(con) ==
    LET product == IF IsLiteral(con.a) THEN Term(con.a.v, con.b) ELSE Term(con.b.v, con.a)
    IN  Plan(<<product, Term(-1, con.c)>>, "eq", 0, 0)

-----------------------------------------------------------------------------
(* Domains with holes.                                                     *)
Holey(c) == Len(intervals[c]) > 1

\* The selectors of the columns come after the model's columns, in order.
SelectorsOf(c)     == IF Holey(c) THEN Len(intervals[c]) ELSE 0
SelectorsBefore(c) == Len(intervals) + Total([h \in 1 .. c - 1 |-> SelectorsOf(h)])
Selectors          == Total([h \in 1 .. Len(intervals) |-> SelectorsOf(h)])

\* The selectors of c with their weights, after some terms.
Selecting(ts, c, weights) ==
    ts \o [r \in 1 .. Len(intervals[c]) |-> Term(weights[r], Col(SelectorsBefore(c) + r))]

\* Faulty: both rows of a column hold it to the lower ends.
HolePlansLower(c) ==
    LET ones == [r \in 1 .. Len(intervals[c]) |-> 1]
        mins == [r \in 1 .. Len(intervals[c]) |-> -intervals[c][r].min]
        x    == <<Term(1, Col(c))>>
    IN  <<Plan(Selecting(<<>>, c, ones), "eq", 1, 0),
          Plan(Selecting(x, c, mins), "ge", 0, 0),
          Plan(Selecting(x, c, mins), "le", 0, 0)>>

HolePlans(c) ==
    LET ones == [r \in 1 .. Len(intervals[c]) |-> 1]
        mins == [r \in 1 .. Len(intervals[c]) |-> -intervals[c][r].min]
        maxs == [r \in 1 .. Len(intervals[c]) |-> -intervals[c][r].max]
        x    == <<Term(1, Col(c))>>
    IN  <<Plan(Selecting(<<>>, c, ones), "eq", 1, 0),
          Plan(Selecting(x, c, mins), "ge", 0, 0),
          Plan(Selecting(x, c, maxs), "le", 0, 0)>>

\* The rows of all columns with holes, column by column.
HoleRows ==
    LET upTo[c \in 0 .. Len(intervals)] ==
            IF c = 0 THEN <<>>
            ELSE upTo[c - 1] \o (IF Holey(c) THEN HolePlans(c) ELSE <<>>)
    IN  upTo[Len(intervals)]

-----------------------------------------------------------------------------
(* The build.                                                              *)
NoItem == [ident |-> "none"]
Holes  == [ident |-> "holes"]

FormsInit ==
    /\ DomainsInit /\ Init
    /\ caps \in Capabilities
    /\ phase = "columns" /\ layer = 1 /\ position = 0
    /\ item = NoItem /\ queue = <<>> /\ todo = <<>> /\ rhs = 0
    /\ rows = 0 /\ given = <<>> /\ total = 0

ColumnLoop ==
    /\ phase = "columns"
    /\ DomainsNext
    /\ UNCHANGED <<scratch, caps, progress>>

\* The columns are handed over, the scratch is sized to all there are, and a
\* first build goes on with the rows of the domains with holes.
SizeScratch ==
    /\ phase = "columns" /\ ColumnsDone
    /\ Assign
    /\ columns' = Len(intervals) + Selectors
    /\ item' = Holes
    /\ queue' = IF layer = 1 THEN HoleRows ELSE <<>>
    /\ given' = <<>>
    /\ phase' = "rows"
    /\ UNCHANGED <<domainsVars, caps, layer, position, todo, rhs, rows, total>>

RowStart ==
    /\ phase = "rows" /\ queue # <<>>
    /\ RowBegin
    /\ todo' = Head(queue).terms /\ rhs' = Head(queue).rhs
    /\ phase' = "terms"
    /\ UNCHANGED <<domainsVars, caps, layer, position, item, queue, rows, given, total>>

\* A true literal in a clause, or a false one negated: there is no row to post.
Satisfies(t) ==
    /\ item.ident = "bool_clause" /\ IsLiteral(t.arg)
    /\ t.arg.v # t.constant

\* Faulty: a literal is left out of the right-hand side.
ReadTermDropsLiteral ==
    /\ phase = "terms" /\ todo # <<>>
    /\ ~Satisfies(Head(todo))
    /\ LET t == Head(todo)
       IN  IF IsLiteral(t.arg)
           THEN UNCHANGED <<scratch, rhs>>
           ELSE /\ \E c \in Column, a \in Coefficients :
                      /\ c = ColumnArg(t.arg) /\ a = t.coef
                      /\ Fold(c, a) \/ NewTerm(c, a)
                /\ rhs' = rhs - t.constant
    /\ todo' = Tail(todo)
    /\ UNCHANGED <<domainsVars, caps, phase, layer, position, item, queue, rows, given, total>>

\* A literal moves to the right-hand side, a column's term is added to the row.
ReadTerm ==
    /\ phase = "terms" /\ todo # <<>>
    /\ ~Satisfies(Head(todo))
    /\ LET t == Head(todo)
       IN  IF IsLiteral(t.arg)
           THEN /\ rhs' = rhs - t.constant - t.coef * t.arg.v
                /\ UNCHANGED scratch
           ELSE /\ \E c \in Column, a \in Coefficients :
                      /\ c = ColumnArg(t.arg) /\ a = t.coef
                      /\ Fold(c, a) \/ NewTerm(c, a)
                /\ rhs' = rhs - t.constant
    /\ todo' = Tail(todo)
    /\ UNCHANGED <<domainsVars, caps, phase, layer, position, item, queue, rows, given, total>>

Satisfied ==
    /\ phase = "terms" /\ todo # <<>>
    /\ Satisfies(Head(todo))
    /\ RowPost
    /\ todo' = <<>> /\ queue' = Tail(queue) /\ phase' = "rows"
    /\ UNCHANGED <<domainsVars, caps, layer, position, item, rhs, rows, given, total>>

Compares(x, sense, r) ==
    CASE sense = "le" -> x <= r
      [] sense = "eq" -> x = r
      [] sense = "ge" -> x >= r

\* row_post: a row without terms is posted only if it does not hold; an
\* indicator row is posted as it is.
Posted == idx # <<>> \/ Head(queue).bin # 0 \/ ~Compares(0, Head(queue).sense, rhs)

RowEnd ==
    /\ phase = "terms" /\ todo = <<>>
    /\ RowPost
    /\ IF Posted
       THEN /\ given' = Append(given, [kind |-> "linear", idx |-> idx, val |-> val,
                                       sense |-> Head(queue).sense, rhs |-> rhs,
                                       bin |-> Head(queue).bin])
            /\ rows' = rows + 1 /\ total' = total + 1
       ELSE UNCHANGED <<given, rows, total>>
    /\ queue' = Tail(queue) /\ phase' = "rows"
    /\ UNCHANGED <<domainsVars, caps, layer, position, item, todo, rhs>>

-----------------------------------------------------------------------------
(* One constraint of pass 2.                                               *)
Constraints == model.layers[layer]
Con == Constraints[position + 1]

\* A turn of the loop that starts on the constraint.
Turn ==
    /\ phase = "rows" /\ queue = <<>> /\ position < Len(Constraints)
    /\ item' = Con /\ position' = position + 1
    /\ UNCHANGED <<domainsVars, scratch, caps, layer, todo, rhs>>

\* handled_: pass 1 made the two decisions one column.
Handled ==
    /\ Form(Con.ident) = "equal" /\ Con.argc = 2
    /\ ~IsLiteral(Con.a) /\ ~IsLiteral(Con.b)

\* Form's constraint is about to be posted.
Takes(form) ==
    /\ Turn
    /\ ~Handled
    /\ Form(Con.ident) = form /\ Con.argc = Wants(form)

OneRow(plan) ==
    /\ queue' = <<plan>> /\ given' = <<>>
    /\ UNCHANGED <<phase, rows, total>>

NoRow == given' = <<>> /\ UNCHANGED <<phase, queue, rows, total>>

Skip == Turn /\ Handled /\ NoRow

LinearRow == Takes("linear") /\ OneRow(LinearPlan(Con))
ClauseRow == Takes("clause") /\ OneRow(ClausePlan(Con))
EqualRow  == Takes("equal") /\ OneRow(EqualPlan(Con))

\* Implied by nothing: no constraint at all.
Implies == ~(IsLiteral(Con.b) /\ Con.b.v = 0)

ImpliedRow == Takes("implied") /\ Implies /\ OneRow(ImpliedPlan(Con))
ImpliedByNothing == Takes("implied") /\ ~Implies /\ NoRow

Quadratic == ~IsLiteral(Con.a) /\ ~IsLiteral(Con.b)

QuadraticRow ==
    /\ Takes("times") /\ Quadratic
    /\ given' = <<[kind |-> "quadratic", a |-> ColumnArg(Con.a), b |-> ColumnArg(Con.b),
                   out |-> IF IsLiteral(Con.c) THEN 0 ELSE ColumnArg(Con.c),
                   rhs |-> IF IsLiteral(Con.c) THEN Con.c.v ELSE 0]>>
    /\ rows' = rows + 1 /\ total' = total + 1
    /\ UNCHANGED <<phase, queue>>

ProductRow == Takes("times") /\ ~Quadratic /\ OneRow(ProductPlan(Con))

\* An unknown constraint, or the wrong number of arguments.
Reject ==
    /\ Turn
    /\ Form(Con.ident) = "unknown" \/ Con.argc # Wants(Form(Con.ident))
    /\ phase' = "error" /\ given' = <<>>
    /\ UNCHANGED <<queue, rows, total>>

\* The next layer is pushed and built; the columns are all there.
NextLayer ==
    /\ phase = "rows" /\ queue = <<>> /\ position = Len(Constraints)
    /\ layer < Len(model.layers)
    /\ layer' = layer + 1 /\ position' = 0 /\ phase' = "columns"
    /\ UNCHANGED <<domainsVars, scratch, caps, item, queue, todo, rhs, rows, given, total>>

Built ==
    /\ \/ phase = "error"
       \/ /\ phase = "rows" /\ queue = <<>> /\ position = Len(Constraints)
          /\ layer = Len(model.layers)
    /\ UNCHANGED formsVars

FormsNext ==
    \/ ColumnLoop \/ SizeScratch
    \/ RowStart \/ ReadTerm \/ Satisfied \/ RowEnd
    \/ Skip \/ LinearRow \/ ClauseRow \/ EqualRow \/ ImpliedRow \/ ImpliedByNothing
    \/ QuadraticRow \/ ProductRow \/ Reject
    \/ NextLayer \/ Built

FormsSpec == FormsInit /\ [][FormsNext]_formsVars

-----------------------------------------------------------------------------
(* What rows and constraints say of an assignment y of the columns.        *)
Hull(c) == {v \in Values : intervals[c][1].min <= v /\ v <= Last(intervals[c]).max}

Assignments == {y \in [1 .. Len(intervals) -> Values] : \A c \in DOMAIN y : y[c] \in Hull(c)}

Weighted(weights, xs) == Total([i \in 1 .. Len(xs) |-> weights[i] * xs[i]])

RowHolds(r, y) ==
    IF r.kind = "quadratic"
    THEN y[r.a] * y[r.b] - (IF r.out = 0 THEN 0 ELSE y[r.out]) = r.rhs
    ELSE (r.bin = 0 \/ y[r.bin] = 1)
             => Compares(Weighted(r.val, [i \in 1 .. Len(r.idx) |-> y[r.idx[i]]]), r.sense, r.rhs)

\* A constraint in its own terms, its decisions given the values x.
Value(arg, x)  == IF IsLiteral(arg) THEN arg.v ELSE x[arg.v]
Dot(con, x)    == Weighted(con.coeffs, [i \in 1 .. Len(con.xs) |-> Value(con.xs[i], x)])

Says(con, x) ==
    CASE Form(con.ident) = "linear"  -> Compares(Dot(con, x), SenseOf(con.ident), Value(con.rhs, x))
      [] Form(con.ident) = "clause"  -> \/ \E i \in DOMAIN con.pos : Value(con.pos[i], x) = 1
                                        \/ \E i \in DOMAIN con.neg : Value(con.neg[i], x) = 0
      [] Form(con.ident) = "equal"   -> Value(con.a, x) = Value(con.b, x)
      [] Form(con.ident) = "implied" ->
            Value(con.b, x) = 1 => Compares(Dot(con, x), SenseOf(con.ident), Value(con.rhs, x))
      [] Form(con.ident) = "times"   -> Value(con.a, x) * Value(con.b, x) = Value(con.c, x)

ItemDone == phase = "rows" /\ queue = <<>> /\ item # NoItem

-----------------------------------------------------------------------------
(* Properties.                                                             *)
FormsTypeOK ==
    /\ DomainsTypeOK /\ TypeOK
    /\ caps \in Capabilities
    /\ phase \in {"columns", "rows", "terms", "error"}
    /\ layer \in 1 .. Len(model.layers) /\ position \in 0 .. Len(Constraints)
    /\ rhs \in Int /\ rows = total
    /\ building <=> phase = "terms"
    /\ phase = "terms" => queue # <<>>
    /\ item \notin {NoItem, Holes} => Len(given) <= 1

\* Whatever the form, with literals on either side, repeats of a decision and
\* decisions that share a column, the rows the backend was given for a constraint
\* allow exactly the assignments that satisfy the constraint.
RowsMeanConstraint ==
    ItemDone /\ item # Holes =>
        \A y \in Assignments :
            (\A i \in DOMAIN given : RowHolds(given[i], y))
                <=> Says(item, [d \in Decisions |-> y[ColumnOf(d)]])

\* Values y of the model's columns, and z of the selectors after them.
Along(y, z) ==
    [s \in DOMAIN y \cup DOMAIN z |-> IF s \in DOMAIN y THEN y[s] ELSE z[s]]

\* A column's bounds and the three rows of every domain with holes leave the
\* columns exactly the values all of their decisions' domains allow: there is a
\* choice of selectors for these and for no others.
HolesMeanDomain ==
    ItemDone /\ item = Holes /\ layer = 1 =>
        \A y \in [1 .. Len(intervals) -> Values] :
            (\A d \in Decisions : y[ColumnOf(d)] \in Allowed(d))
                <=> /\ y \in Assignments
                    /\ \E z \in [Len(intervals) + 1 .. columns -> {0, 1}] :
                          \A i \in DOMAIN given : RowHolds(given[i], Along(y, z))

\* "A flag set here is a promise", and "the core only dispatches a constraint the
\* solver declared": what is declared for a backend is never rejected, and no row
\* needs what the backend did not say it can do.
DeclaredIsPosted ==
    /\ phase = "error" => <<item.ident, item.argc>> \notin Declared(caps)
    /\ \A i \in DOMAIN given :
          IF given[i].kind = "quadratic" THEN caps.quadratic
          ELSE given[i].bin # 0 => caps.indicators

=============================================================================
