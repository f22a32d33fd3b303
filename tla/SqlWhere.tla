------------------------------ MODULE SqlWhere ------------------------------
(***************************************************************************)
(* Conditions of the SQL front end (sql.c): WHERE, HAVING, CASE WHEN and   *)
(* FILTER clauses from their tokens to their verdict on a row.             *)
(*                                                                         *)
(* A clause is a sequence of tokens: AND, OR, parentheses, and conditions, *)
(* each with the fields its grammar reads.  A clause without parentheses   *)
(* becomes the filter list of kdb_find_ex; any other is kept as a tree and *)
(* evaluated row by row on texts.  A subquery is SELECT sel FROM rows,     *)
(* with WHERE on[1] = alias.on[2] when it is correlated.  Arithmetic is    *)
(* exact: a number is a fraction <<n, d>>, d > 0.                          *)
(***************************************************************************)
EXTENDS KdbQuery

CONSTANTS
    MaxCond,       \* KDB_SQL_MAX_COND
    MaxCondDepth   \* KDB_SQL_MAX_COND_DEPTH

ASSUME WhereAssumption == {MaxCond, MaxCondDepth} \subseteq Nat \ {0}

kdb_row_get(r, col) == kdb_record_get_field(r, col)

---------------------------------------------------------------------------
\* Texts of literals and values.  A word that is neither true nor false and
\* not quoted (NULL above all) is no value; sql__value_text returns NULL.

HasText(val) == val.quoted \/ val.text \in {TrueWord, FalseWord} \/ kdb_str_is_int(val.text) \/ kdb_str_is_float(val.text)

Renders(a) == a.t \in {"int", "float", "bool", "string"}
sql__field_to_filter_text(a) == IF a.t = "string" THEN a.v ELSE kdb_value_to_str(a)
NO_MATCH_SENTINEL == <<"_", "%", "_">>
sql__render_sql_literal(a) == IF Renders(a) THEN sql__field_to_filter_text(a) ELSE NO_MATCH_SENTINEL

\* A field of the outer row, or the id it keeps outside its fields.
OrPseudo(f, r, col) == IF f # NoField THEN f ELSE ColumnValue(r, col)
sql__lookup_outer_field(r, col) == OrPseudo(kdb_row_get(r, col), r, col)

\* The inner SELECT after the outer references have become literals.
Correlated(sub) == sub.on # << >>
sql__substitute_outer_refs(sub, outer) ==
    IF ~Correlated(sub) THEN << >>
    ELSE <<[or |-> FALSE, key |-> sub.on[1],
            vals |-> <<sql__render_sql_literal(sql__lookup_outer_field(outer, sub.on[2]))>>]>>
FieldsOf(rs, col) == [i \in DOMAIN rs |-> kdb_row_get(rs[i], col)]
SelectedBy(sub, q) == IF q.ok THEN Found(FieldsOf(kdb_query_scan(q, sub.rows), sub.sel)) ELSE BadArg
Selected(sub, filters) == SelectedBy(sub, kdb__build_query(filters))

\* A subquery for one value must give one row, a list any number; every value
\* must have a text.
HasTexts(res) == res.ok /\ \A i \in DOMAIN res.rows : res.rows[i] # NoField /\ Renders(res.rows[i])
OneText(res) == HasTexts(res) /\ Len(res.rows) = 1
TextsOf(res) == [i \in DOMAIN res.rows |-> sql__field_to_filter_text(res.rows[i])]

---------------------------------------------------------------------------
\* One condition: a filter, or a node of the tree that has no filter form.

WordOf(op) == CHOOSE w \in DOMAIN OpWords : OpWords[w] = op
Filter(col, op, vals) ==
    [or |-> FALSE, key |-> IF op = "eq" THEN col ELSE col \o <<"_", "_">> \o WordOf(op), vals |-> vals]
Leaf(f) == [kind |-> "leaf", f |-> f]
Bad == [kind |-> "bad"]
Texts(vals) == [i \in DOMAIN vals |-> vals[i].text]
InText(vals) == IF vals = << >> THEN << << >> >> ELSE vals

\* A subquery without an outer reference runs now and becomes literals.
ScalarLeaf(c, res) == IF OneText(res) THEN Leaf(Filter(c.col, c.op, TextsOf(res))) ELSE Bad
sql__parse_scalar_subquery(c) == ScalarLeaf(c, Selected(c.sub, << >>))
InLeaf(c, res) == IF HasTexts(res) THEN Leaf(Filter(c.col, "in", InText(TextsOf(res)))) ELSE Bad
sql__parse_in_subquery(c) == InLeaf(c, Selected(c.sub, << >>))

sql__parse_condition(c) ==
    CASE c.form = "expr" -> [kind |-> "expr", terms |-> c.terms, ops |-> c.ops, cmp |-> c.cmp, rhs |-> c.rhs]
      [] c.form = "scalar" /\ Correlated(c.sub) -> [kind |-> "scalar", col |-> c.col, op |-> c.op, sub |-> c.sub]
      [] c.form = "scalar" /\ ~Correlated(c.sub) -> sql__parse_scalar_subquery(c)
      [] c.form = "in" /\ Correlated(c.sub) -> [kind |-> "in", col |-> c.col, sub |-> c.sub]
      [] c.form = "in" /\ ~Correlated(c.sub) -> sql__parse_in_subquery(c)
      [] c.form = "exists" -> [kind |-> "exists", neg |-> c.neg, sub |-> c.sub]
      [] c.form = "plain" ->
            IF c.op \in {"like", "ilike"} THEN IF c.vals[1].quoted THEN Leaf(Filter(c.col, c.op, Texts(c.vals))) ELSE Bad
            ELSE IF \A i \in DOMAIN c.vals : HasText(c.vals[i]) THEN Leaf(Filter(c.col, c.op, Texts(c.vals))) ELSE Bad

\* The alias of the query's own table goes; only a filter can carry one.
sql__strip_own_alias(node, alias) ==
    IF node.kind = "leaf" /\ alias # << >> /\ Prefix(node.f.key, Append(alias, "."))
    THEN [node EXCEPT !.f.key = Drop(@, Len(alias) + 1)] ELSE node

---------------------------------------------------------------------------
\* The clause.  A parser is the tokens left, whether the clause must stay a
\* tree and the conditions read so far; a result is a node and a parser.

Refused(p) == [node |-> Bad, p |-> p]
At(p, k) == p.toks # << >> /\ Head(p.toks).k = k
Advance(p) == [p EXCEPT !.toks = Tail(@)]

RECURSIVE sql__parse_or_expr(_, _, _), sql__parse_and_expr(_, _, _)

Closed(inner) == IF inner.node = Bad \/ ~At(inner.p, ")") THEN Refused(inner.p) ELSE [node |-> inner.node, p |-> Advance(inner.p)]
Condition(p, c, node) ==
    IF node = Bad \/ (c.form # "exists" /\ p.leaves >= MaxCond) THEN Refused(p)
    ELSE [node |-> node, p |-> [Advance(p) EXCEPT !.leaves = @ + 1, !.tree = @ \/ node.kind # "leaf"]]
sql__parse_cond_primary(p, alias, depth) ==
    CASE At(p, "(") ->
            IF depth + 1 > MaxCondDepth THEN Refused(p)
            ELSE Closed(sql__parse_or_expr([Advance(p) EXCEPT !.tree = TRUE], alias, depth + 1))
      [] At(p, "cond") -> Condition(p, Head(p.toks).c, sql__strip_own_alias(sql__parse_condition(Head(p.toks).c), alias))
      [] OTHER -> Refused(p)

\* Operands between the keyword, nested to the left.
RECURSIVE Chain(_, _, _, _)
Linked(left, right, kw, alias, depth) ==
    IF right.node = Bad THEN right
    ELSE Chain([node |-> [kind |-> kw, left |-> left.node, right |-> right.node], p |-> right.p], kw, alias, depth)
NextOperand(p, kw, alias, depth) ==
    IF kw = "AND" THEN sql__parse_cond_primary(p, alias, depth) ELSE sql__parse_and_expr(p, alias, depth)
Chain(left, kw, alias, depth) ==
    IF left.node = Bad \/ ~At(left.p, kw) THEN left
    ELSE Linked(left, NextOperand(Advance(left.p), kw, alias, depth), kw, alias, depth)

sql__parse_and_expr(p, alias, depth) == Chain(sql__parse_cond_primary(p, alias, depth), "AND", alias, depth)
sql__parse_or_expr(p, alias, depth) == Chain(sql__parse_and_expr(p, alias, depth), "OR", alias, depth)

sql__parse_cond_clause(toks, alias) ==
    sql__parse_or_expr([toks |-> toks, tree |-> FALSE, leaves |-> 0], alias, 0)

\* The statement goes on after the clause, so tokens left over are an error.
Complete(parsed) == parsed.node # Bad /\ parsed.p.toks = << >>

---------------------------------------------------------------------------
\* The filter list of a tree without parentheses.

sql__cond_flatten_leaf(node, or) == <<[node.f EXCEPT !.or = or]>>

RECURSIVE sql__cond_flatten_and_chain(_, _)
\* Mutant: every filter of the chain carries the mark, not only its first.
sql__cond_flatten_and_chain_marks(node, or) ==
    IF node.kind = "AND" THEN sql__cond_flatten_and_chain(node.left, or) \o sql__cond_flatten_leaf(node.right, or)
    ELSE sql__cond_flatten_leaf(node, or)
sql__cond_flatten_and_chain(node, or) ==
    IF node.kind = "AND" THEN sql__cond_flatten_and_chain(node.left, or) \o sql__cond_flatten_leaf(node.right, FALSE)
    ELSE sql__cond_flatten_leaf(node, or)

RECURSIVE sql__cond_flatten_or(_)
sql__cond_flatten_or(node) ==
    IF node.kind = "OR" THEN sql__cond_flatten_or(node.left) \o sql__cond_flatten_and_chain(node.right, TRUE)
    ELSE sql__cond_flatten_and_chain(node, FALSE)

sql__cond_flatten(node) == sql__cond_flatten_or(node)

---------------------------------------------------------------------------
\* Values on texts.  strcmp() is the difference of the first bytes that
\* differ (the C library's own), and -2 is also the code for incomparable.

CMP_INCOMPARABLE == -2

\* strtod(): the longest beginning that is a number.
LongestNumber(text, ends) == IF ends = {} THEN Fail ELSE Strtod(SubSeq(text, 1, Max(ends)))
IsNumber(s) == kdb_str_is_int(s) \/ kdb_str_is_float(s)
strtod(text) == LongestNumber(text, {i \in DOMAIN text : IsNumber(SubSeq(text, 1, i))})

sql__field_to_double(a) == kdb__to_double(a)   \* of a Numeric field, it refuses the others

NumberCmp(h, d) == IF d = Fail THEN CMP_INCOMPARABLE ELSE Sign(h - d.v)
sql__field_cmp_text(a, text) ==
    CASE Numeric(a) -> NumberCmp(kdb__to_double(a), strtod(text))
      [] a.t = "string" -> StrDiff(a.v, text)
      [] OTHER -> CMP_INCOMPARABLE

sql__field_equal(a, b) ==
    CASE a = NoField \/ b = NoField -> a = b
      [] Numeric(a) /\ Numeric(b) -> sql__field_to_double(a) = sql__field_to_double(b)
      [] OTHER -> a.t = "string" /\ b.t = "string" /\ a.v = b.v

sql__field_cmp_ex(a, b) ==
    CASE Numeric(a) /\ Numeric(b) -> Sign(sql__field_to_double(a) - sql__field_to_double(b))
      [] a.t = "string" /\ b.t = "string" -> StrDiff(a.v, b.v)
      [] OTHER -> CMP_INCOMPARABLE

\* For MIN and MAX: what does not compare is equal.
sql__field_cmp(a, b) == IF {a.t, b.t} = {"string"} \/ (Numeric(a) /\ Numeric(b)) THEN sql__field_cmp_ex(a, b) ELSE 0

sql__cmp_matches_op(cmp, op) ==
    /\ cmp # CMP_INCOMPARABLE
    /\ CASE op = "eq" -> cmp = 0 [] op = "neq" -> cmp # 0 [] op = "gt" -> cmp > 0
         [] op = "gte" -> cmp >= 0 [] op = "lt" -> cmp < 0 [] op = "lte" -> cmp <= 0

sql__parse_row_cond(f) == LET k == kdb_parse_filter_key(f.key) IN [col |-> k.col, op |-> k.op, vals |-> f.vals]

RowCond(c, a) ==
    LET says(i, op) == a # NoField /\ sql__cmp_matches_op(sql__field_cmp_text(a, c.vals[i]), op)
    IN CASE c.op = "isnull" -> a = NoField \/ a.t = "null"
         [] c.op = "isnotnull" -> a # NoField /\ a.t # "null"
         [] c.op = "like" -> a.t = "string" /\ kdb_like_match(c.vals[1], a.v)
         [] c.op = "ilike" -> a.t = "string" /\ kdb_ilike_match(c.vals[1], a.v)
         [] c.op = "between" -> says(1, "gte") /\ says(2, "lte")
         [] c.op = "in" -> c.vals # << << >> >> /\ \E i \in DOMAIN c.vals : says(i, "eq")
         [] OTHER -> says(1, c.op)
RowCondOn(r, c) == RowCond(c, kdb_row_get(r, c.col))
sql__row_cond_matches(r, f) == RowCondOn(r, sql__parse_row_cond(f))

---------------------------------------------------------------------------
\* Arithmetic: products first, then sums, both from the left; NULL (no
\* value) when a column is no number or a divisor is zero.

NaN == << >>
TermNumber(a, neg) == IF Numeric(a) THEN <<Signed(neg, sql__field_to_double(a)), 2>> ELSE NaN
sql__expr_term_value(term, r) ==
    TermNumber(IF term.col = << >> THEN FloatV(term.lit) ELSE kdb_row_get(r, term.col), term.neg)

Times(x, y) == <<x[1] * y[1], x[2] * y[2]>>
Over(x, y) == IF y[1] < 0 THEN <<-x[1] * y[2], -x[2] * y[1]>> ELSE <<x[1] * y[2], x[2] * y[1]>>
fmod(x, y) == <<Sign(x[1]) * (Abs(x[1] * y[2]) % Abs(y[1] * x[2])), x[2] * y[2]>>
Plus(x, y) == <<x[1] * y[2] + y[1] * x[2], x[2] * y[2]>>
Minus(x, y) == Plus(x, <<-y[1], y[2]>>)
Apply(op, x, y) ==
    CASE op = "*" -> Times(x, y)
      [] op \in {"/", "%"} -> IF y[1] = 0 THEN NaN ELSE IF op = "/" THEN Over(x, y) ELSE fmod(x, y)
      [] op = "+" -> Plus(x, y)
      [] op = "-" -> Minus(x, y)

\* Replaces the terms i and i + 1 by their result, again and again.
RECURSIVE Collapse(_, _, _, _)
Collapse(vals, ops, i, which) ==
    IF i > Len(ops) \/ NaN \in Range(vals) THEN [vals |-> vals, ops |-> ops]
    ELSE IF ops[i] \notin which THEN Collapse(vals, ops, i + 1, which)
    ELSE Collapse(ReplaceAt(RemoveAt(vals, i + 1), i, Apply(ops[i], vals[i], vals[i + 1])), RemoveAt(ops, i), i, which)

Sums(p) == Collapse(p.vals, p.ops, 1, {"+", "-"})
Total(sums) == IF NaN \in Range(sums.vals) THEN NaN ELSE sums.vals[1]
sql__eval_expr(e, r) ==
    Total(Sums(Collapse([i \in DOMAIN e.terms |-> sql__expr_term_value(e.terms[i], r)], e.ops, 1, {"*", "/", "%"})))

---------------------------------------------------------------------------
\* The tree on a row.  A subquery that fails matches nothing, negated or not.

Inner(r, sub) == Selected(sub, sql__substitute_outer_refs(sub, r))
Answers(res, neg) == res.ok /\ (IF neg THEN res.rows = << >> ELSE res.rows # << >>)
sql__eval_exists(r, node) == Answers(Inner(r, node.sub), node.neg)

MatchesOne(r, node, res) == OneText(res) /\ sql__row_cond_matches(r, Filter(node.col, node.op, TextsOf(res)))
sql__eval_correlated_scalar(r, node) == MatchesOne(r, node, Inner(r, node.sub))

MatchesSome(r, node, res) == HasTexts(res) /\ sql__row_cond_matches(r, Filter(node.col, "in", InText(TextsOf(res))))
sql__eval_correlated_in(r, node) == MatchesSome(r, node, Inner(r, node.sub))

Compared(x, node) == x # NaN /\ sql__cmp_matches_op(Sign(2 * x[1] - node.rhs * x[2]), node.cmp)
RECURSIVE sql__cond_tree_matches(_, _)
sql__cond_tree_matches(r, node) ==
    CASE node.kind = "leaf" -> sql__row_cond_matches(r, node.f)
      [] node.kind = "AND" -> sql__cond_tree_matches(r, node.left) /\ sql__cond_tree_matches(r, node.right)
      [] node.kind = "OR" -> sql__cond_tree_matches(r, node.left) \/ sql__cond_tree_matches(r, node.right)
      [] node.kind = "exists" -> sql__eval_exists(r, node)
      [] node.kind = "scalar" -> sql__eval_correlated_scalar(r, node)
      [] node.kind = "in" -> sql__eval_correlated_in(r, node)
      [] node.kind = "expr" -> Compared(sql__eval_expr(node, r), node)

sql__filter_rows_tree(rows, node) == SelectSeq(rows, LAMBDA r : sql__cond_tree_matches(r, node))

\* Rows of a stored table: the list goes to kdb_find_ex, a tree is evaluated
\* on every row.
FoundBy(rows, q) == IF q.ok THEN Found(kdb_query_scan(q, rows)) ELSE BadArg
Where(rows, parsed) ==
    IF parsed.p.tree THEN Found(sql__filter_rows_tree(rows, parsed.node))
    ELSE FoundBy(rows, kdb__build_query(sql__cond_flatten(parsed.node)))

\* CASE WHEN and FILTER keep the list and evaluate it row by row.
NextCond(acc, starts, ok) ==
    [result |-> acc.result \/ (starts /\ acc.group), group |-> (starts \/ acc.group) /\ ok]
Accepted(acc) == acc.result \/ acc.group
sql__conds_match(r, conds) ==
    Accepted(FoldLeft(LAMBDA acc, i : NextCond(acc, conds[i].or /\ i > 1, sql__row_cond_matches(r, conds[i])),
                      [result |-> FALSE, group |-> TRUE], [i \in DOMAIN conds |-> i]))

Branch(item, i) == IF i # 0 THEN item.branches[i].then ELSE item.else
sql__eval_case_item(item, r) == Branch(item, SelectInSeq(item.branches, LAMBDA br : sql__conds_match(r, br.conds)))
=============================================================================
