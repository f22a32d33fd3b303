---------------------------- MODULE MCSqlSelect ----------------------------
(* Small relations and clauses for SqlSelect.                              *)
EXTENDS SqlLaws

A == <<"a">>
E == <<"e">>
N == <<"n">>
R(id, a, e) == [id |-> id, fields |-> <<Field(A, a), Field(E, e)>>]
T(s) == Str(<<s>>)
Rel(view, rs) == [view |-> view, rows |-> rs, cols |-> <<A, E>>]

MCRelations == {
    Rel(FALSE, <<R(1, IntV(1), IntV(1)), R(2, IntV(1), IntV(2)), R(3, IntV(2), FloatV(1))>>),
    Rel(FALSE, <<R(1, T("a"), IntV(2)), R(2, T("b"), IntV(1)), R(3, T("a"), IntV(1))>>),
    Rel(TRUE, <<R(1, IntV(1), T("+")), [id |-> 2, fields |-> <<Field(E, T("-"))>>], R(3, Null, T("1"))>>),
    Rel(TRUE, <<R(1, BoolV(TRUE), Null), R(2, IntV(0), IntV(2))>>),
    Rel(TRUE, << >>)}
MCOperands == {
    Rel(FALSE, <<R(1, IntV(1), IntV(1)), R(2, FloatV(2), T("a"))>>),
    Rel(TRUE, <<R(1, T("a"), IntV(1)), R(2, Null, IntV(2))>>),
    Rel(FALSE, << >>), Rel(TRUE, << >>)}

Word(s) == [text |-> s, quoted |-> FALSE]
Quoted(s) == [text |-> s, quoted |-> TRUE]
Plain(col, op, vals) == [form |-> "plain", col |-> col, op |-> op, vals |-> vals]
SubRows == <<R(1, IntV(1), IntV(2)), R(2, T("a"), IntV(1)), R(3, IntV(2), Null)>>
Sub(sel, on) == [rows |-> SubRows, sel |-> sel, on |-> on]
Expr(terms, ops, cmp, rhs) == [form |-> "expr", terms |-> terms, ops |-> ops, cmp |-> cmp, rhs |-> rhs]
Col(c) == [col |-> c, lit |-> 0, neg |-> FALSE]
Lit(h, neg) == [col |-> << >>, lit |-> h, neg |-> neg]

One == Plain(A, "eq", <<Word(<<"1">>)>>)
Two == Plain(E, "gt", <<Word(<<"1">>)>>)
Tee == Plain(<<"A", ".", "a">>, "eq", <<Quoted(<<"a">>)>>)
Many == <<One, Two, Tee,
    Plain(A, "neq", <<Word(<<"1", ".", "5">>)>>), Plain(E, "lte", <<Word(<<"A">>)>>), Plain(E, "lt", <<Quoted(<<"+">>)>>),
    Plain(A, "between", <<Word(<<"0">>), Word(<<"2">>)>>), Plain(A, "in", <<Quoted(<<"b">>), Quoted(<<"a">>)>>),
    Plain(A, "like", <<Quoted(<<"%">>)>>), Plain(A, "like", <<Word(<<"1">>)>>), Plain(A, "eq", <<Word(N)>>),
    Plain(A, "isnull", << >>), Plain(E, "isnotnull", << >>), Plain(IdName, "eq", <<Word(<<"2">>)>>),
    Expr(<<Col(A), Col(E), Lit(4, TRUE)>>, <<"-", "*">>, "gt", 4),
    Expr(<<Col(A), Lit(2, FALSE), Col(E), Col(E)>>, <<"/", "+", "%">>, "eq", 2),
    Expr(<<Lit(6, FALSE), Col(E), Col(A)>>, <<"-", "-">>, "lte", 3),
    [form |-> "scalar", col |-> E, op |-> "eq", sub |-> Sub(E, <<A, A>>)],
    [form |-> "scalar", col |-> E, op |-> "gte", sub |-> [rows |-> <<Head(SubRows)>>, sel |-> E, on |-> << >>]],
    [form |-> "scalar", col |-> E, op |-> "gte", sub |-> Sub(A, << >>)],
    [form |-> "in", col |-> A, sub |-> Sub(A, << >>)], [form |-> "in", col |-> A, sub |-> Sub(E, << >>)],
    [form |-> "in", col |-> A, sub |-> Sub(A, <<E, E>>)], [form |-> "in", col |-> E, sub |-> Sub(E, <<A, A>>)],
    [form |-> "exists", neg |-> FALSE, sub |-> Sub(A, <<A, A>>)], [form |-> "exists", neg |-> TRUE, sub |-> Sub(A, <<A, E>>)],
    [form |-> "exists", neg |-> TRUE, sub |-> Sub(A, << >>)]>>
C(c) == <<[k |-> "cond", c |-> c]>>
K(k) == <<[k |-> k]>>
MCClauses == {<< >>} \cup {C(Many[i]) : i \in DOMAIN Many} \cup
    {C(One) \o K("OR") \o C(Two) \o K("AND") \o C(Tee), C(One) \o K("AND") \o C(Two) \o K("OR") \o C(Tee),
     C(One) \o K("AND") \o K("(") \o C(Two) \o K("OR") \o C(Tee) \o K(")"), K("(") \o C(One) \o K(")") \o K("OR") \o C(Two),
     K("(") \o C(One) \o K("OR") \o K("(") \o C(Tee) \o K(")") \o K(")"), K("(") \o K("(") \o K("(") \o C(One) \o K(")") \o K(")") \o K(")"),
     K("(") \o C(One), C(One) \o K("AND"), C(One) \o C(Two), C(One) \o K("OR") \o C(Two) \o K("OR") \o C(Tee) \o K("OR") \o C(Many[25]),
     C(One) \o K("OR") \o C(Two) \o K("OR") \o C(Tee), C(One) \o K("AND") \o C(Two) \o K("AND") \o C(Tee) \o K("AND") \o C(One)}

B == <<"b">>
On(l, op, c) == <<[left |-> l, op |-> op, col |-> c, lit |-> Null]>>
OnLit(l, op, a) == <<[left |-> l, op |-> op, col |-> << >>, lit |-> a]>>
Q(q, c) == <<q, ".", c>>
Join(kind, alias, conds) == [kind |-> kind, alias |-> alias, conds |-> conds]
MCJoins == {<<Join(k, B, On(Q("A", "a"), "eq", Q("b", "a")))>> : k \in {"inner", "left", "right", "full"}} \cup
    {<<Join("cross", B, << >>)>>, <<Join("full", B, On(Q("A", "e"), "lt", Q("b", "e")) \o OnLit(Q("b", "e"), "neq", IntV(2)))>>,
     <<Join("left", B, On(Q("A", "a"), "eq", Q("b", "a"))), Join("right", N, On(Q("b", "e"), "eq", Q("n", "e")))>>,
     <<Join("inner", B, On(Q("A", "e"), "gte", Q("b", "e"))), Join("full", N, On(Q("A", "a"), "eq", Q("n", "a")))>>}

By(kind, cols, sets) == [kind |-> kind, cols |-> cols, sets |-> sets]
MCGroupings == {By("none", << >>, << >>), By("plain", <<A>>, << >>), By("plain", <<A, E>>, << >>), By("rollup", <<A, E>>, << >>),
    By("cube", <<A, E>>, << >>), By("cube", <<A, E, N>>, << >>), By("sets", << >>, << <<E>>, << >> >>)}
Agg(fn, col, filter) == [fn |-> fn, col |-> col, filter |-> filter, alias |-> <<"n", "_">>]
MCAggItems == {
    <<Agg("none", A, << >>), Agg("count", Star, << >>), Agg("count", E, << >>), Agg("sum", E, << >>), Agg("count_distinct", E, << >>)>>,
    <<Agg("count", Star, <<Filter(A, "eq", <<<<"1">>>>)>>), Agg("min", A, << >>), Agg("max", E, << >>), Agg("avg", A, << >>)>>,
    <<Agg("string_agg", E, << >>), Agg("count_distinct", A, << >>), Agg("count", A, << >>)>>}

It(col) == [kind |-> "column", col |-> col, alias |-> col]
MCItems == {<<It(A)>>, <<It(E), It(IdName)>>, <<It(E), [kind |-> "literal", value |-> IntV(2), alias |-> N]>>,
    <<[kind |-> "expr", terms |-> <<Col(A), Col(E)>>, ops |-> <<"*">>, alias |-> N]>>,
    <<It(WinName), [kind |-> "case", branches |-> <<[conds |-> <<Filter(A, "eq", <<<<"1">>>>), [Filter(E, "gt", <<<<"1">>>>) EXCEPT !.or = TRUE]>>,
                                               then |-> T("a")]>>, else |-> Null, alias |-> N]>>}
Frame(lo, hi, range) == [lo |-> lo, hi |-> hi, range |-> range]
Edge(k, n) == [k |-> k, n |-> n]
Win(fn, col, part, order, n, frame) == [fn |-> fn, col |-> col, part |-> part, order |-> order, asc |-> [i \in DOMAIN order |-> n # 2],
    n |-> n, default |-> IntV(9), framed |-> frame # << >>, frame |-> frame]
MCWindows == {Win(fn, E, <<A>>, <<E>>, 1, << >>) : fn \in {"row_number", "rank", "dense_rank", "lag", "lead", "first_value", "last_value"}}
    \cup {Win(fn, A, << >>, <<A>>, 2, << >>) : fn \in {"row_number", "rank", "dense_rank", "ntile", "lag", "sum"}}
    \cup {Win("sum", E, << >>, <<A>>, 1, Frame(Edge("preceding", 1), Edge("current", 0), FALSE)),
          Win("sum", E, << >>, <<A>>, 1, Frame(Edge("unbounded", 0), Edge("current", 0), TRUE)),
          Win("count", Star, <<A>>, <<E>>, 1, Frame(Edge("current", 0), Edge("following", 1), FALSE)),
          Win("max", E, << >>, <<E>>, 1, Frame(Edge("following", 1), Edge("unbounded", 0), FALSE)),
          Win("count", Star, << >>, <<E>>, 1, Frame(Edge("unbounded", 0), Edge("preceding", 1), FALSE)),
          Win("count", A, <<A>>, << >>, 1, << >>), Win("ntile", A, << >>, <<E>>, 3, << >>)}
Key(col, asc) == [col |-> col, asc |-> asc]
MCOrders == {<< >>, <<Key(A, TRUE)>>, <<Key(E, FALSE), Key(A, TRUE)>>}

Words == <<"eq", "neq", "gt", "gte", "lt", "lte", "in", "between", "isnull", "isnotnull", "like", "ilike">>
Letters == <<"0", "1", "2", "3", "4", "5", "6", "7", "8", "9", "a", "b">>
MCOpWords == [w \in {<<Letters[i]>> : i \in DOMAIN Words} |-> Words[CHOOSE i \in DOMAIN Words : <<Letters[i]>> = w]]
NoDistance(a, b, c, d) == 0
MCView == <<left, right, stage, rows>>
=============================================================================
