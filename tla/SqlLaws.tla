------------------------------ MODULE SqlLaws ------------------------------
(***************************************************************************)
(* What a SELECT promises, stated against reference definitions of its own *)
(* kind: token rewriting for conditions, sets of id tuples for joins,      *)
(* counting for grouping, windows and set operators.                       *)
(***************************************************************************)
EXTENDS SqlSelect

Compares(a, b) == (Numeric(a) /\ Numeric(b)) \/ (a.t = "string" /\ b.t = "string")
Holds(a, b, op) == Compares(a, b) /\ LET c == kdb_value_compare(a, b) IN
    CASE op = "eq" -> c = 0 [] op = "neq" -> c # 0 [] op = "gt" -> c > 0
      [] op = "gte" -> c >= 0 [] op = "lt" -> c < 0 [] op = "lte" -> c <= 0
\* Two texts strcmp() tells apart by the very number that means incomparable.
Clash(a, b) == a.t = "string" /\ b.t = "string" /\ StrDiff(a.v, b.v) = CMP_INCOMPARABLE

---------------------------------------------------------------------------
\* Conditions.

\* A WHERE clause over the first table has been run, or refused.
WhereStep == stage = "from" /\ stage' \in {"where", "failed"} /\ did' \in Clauses \ {<< >>}
CondsOf(toks) == {toks[i].c : i \in {j \in DOMAIN toks : toks[j].k = "cond"}}
Single(c) == sql__parse_cond_clause(<<[k |-> "cond", c |-> c]>>, LeftAlias)

\* The value of a clause by rewriting: a value in parentheses, then AND of two
\* values, then OR of two values no AND stands beside.
Val(b) == IF b THEN "T" ELSE "F"
RECURSIVE Rewritten(_)
Rewritten(s) ==
    LET is(i, set) == i \in DOMAIN s /\ s[i] \in set
        bool == {"T", "F"}
        triple(i, mid) == is(i, bool) /\ is(i + 1, {mid}) /\ is(i + 2, bool)
        parens == {i \in DOMAIN s : is(i, {"("}) /\ is(i + 1, bool) /\ is(i + 2, {")"})}
        ands == {i \in DOMAIN s : triple(i, "AND")}
        ors == {i \in DOMAIN s : triple(i, "OR") /\ ~is(i - 1, {"AND"}) /\ ~is(i + 3, {"AND"})}
        put(i, v) == SubSeq(s, 1, i - 1) \o <<v>> \o SubSeq(s, i + 3, Len(s))
    IN IF parens # {} THEN Rewritten(put(Min(parens), s[Min(parens) + 1]))
       ELSE IF ands # {} THEN Rewritten(put(Min(ands), Val(s[Min(ands)] = "T" /\ s[Min(ands) + 2] = "T")))
       ELSE IF ors # {} THEN Rewritten(put(Min(ors), Val(s[Min(ors)] = "T" \/ s[Min(ors) + 2] = "T")))
       ELSE s

\* The rows a WHERE keeps are those on which its conditions, each judged by
\* itself, combine to true, AND before OR and parentheses first, whether the
\* clause became a filter list for the storage engine or stayed a tree; it is
\* refused only if its tokens do not reduce, a condition of its own is bad, or
\* a limit is met.  A list evaluated row by row (CASE WHEN, FILTER) says what
\* the tree says.
ClauseIsStandard ==
    WhereStep =>
    LET toks == did'
        parsed == sql__parse_cond_clause(toks, LeftAlias)
        filters == sql__cond_flatten(parsed.node)
        flat == ~left.view /\ ~parsed.p.tree
        isCond(i) == toks[i].k = "cond"
        alone(i, r) == LET one == Single(toks[i].c).node
                       IN IF flat THEN kdb_query_matches(kdb__build_query(sql__cond_flatten(one)), r) ELSE sql__cond_tree_matches(r, one)
        symbols(r) == [i \in DOMAIN toks |-> IF isCond(i) THEN Val(alone(i, r)) ELSE toks[i].k]
        skeleton == [i \in DOMAIN toks |-> IF isCond(i) THEN "T" ELSE toks[i].k]
        bad == \E i \in DOMAIN toks : isCond(i) /\ Single(toks[i].c).node = Bad
        deep == Cardinality({i \in DOMAIN toks : toks[i].k = "("}) > MaxCondDepth
        many == Cardinality({i \in DOMAIN toks : isCond(i)}) > MaxCond
        groups == Cardinality({i \in DOMAIN toks : toks[i].k = "OR"}) + 1
    IN IF stage' = "where"
       THEN /\ rows' = SelectSeq(left.rows, LAMBDA r : Rewritten(symbols(r)) = <<"T">>)
            /\ ~parsed.p.tree => \A r \in Range(left.rows) :
                    sql__conds_match(r, filters) = sql__cond_tree_matches(r, parsed.node)
       ELSE Len(Rewritten(skeleton)) # 1 \/ bad \/ deep \/ many \/ (flat /\ groups > MaxFilterGroups)

\* Putting a condition in parentheses moves it from the storage engine to the
\* front end's own comparison of texts, and the two agree on every row where
\* the column is a number and the literals are numbers, or the column is a
\* text and the literals look like nothing else (and no two of them differ by
\* the code for incomparable).
PathsAgree ==
    WhereStep =>
    \A c \in CondsOf(did') : \A r \in Range(left.rows) :
        LET one == Single(c)
            key == sql__parse_row_cond(one.node.f)
            a == kdb_row_get(r, key.col)
            text(i) == key.vals[i]
            plain == IF Numeric(a) THEN \A i \in DOMAIN key.vals : kdb_str_is_int(text(i)) \/ kdb_str_is_float(text(i))
                     ELSE a.t = "string" /\ \A i \in DOMAIN key.vals :
                            kdb_type_infer(text(i)) = "string" /\ ~Clash(a, Str(text(i)))
        IN one.node.kind = "leaf" /\ (plain \/ key.op \in {"isnull", "isnotnull"}) /\ key.col # IdName =>
            sql__row_cond_matches(r, one.node.f) = kdb_query_matches(kdb__build_query(<<one.node.f>>), r)

\* Arithmetic as the grammar reads it: split at the last sum, then at the last
\* product.
RECURSIVE Sum(_, _), Product(_, _)
Bin(op, x, y) == IF x = NaN \/ y = NaN THEN NaN ELSE Apply(op, x, y)
Product(vals, ops) ==
    IF ops = << >> THEN vals[1] ELSE Bin(Last(ops), Product(Front(vals), Front(ops)), Last(vals))
Sum(vals, ops) ==
    LET cuts == {i \in DOMAIN ops : ops[i] \in {"+", "-"}}
        i == Max(cuts)
    IN IF cuts = {} THEN Product(vals, ops)
       ELSE Bin(ops[i], Sum(SubSeq(vals, 1, i), SubSeq(ops, 1, i - 1)),
                        Product(SubSeq(vals, i + 1, Len(vals)), SubSeq(ops, i + 1, Len(ops))))
ExprIsArithmetic ==
    WhereStep =>
    \A c \in {x \in CondsOf(did') : x.form = "expr"} : \A r \in Range(left.rows) :
        LET x == sql__eval_expr(c, r)
            y == Sum([i \in DOMAIN c.terms |-> sql__expr_term_value(c.terms[i], r)], c.ops)
        IN IF x = NaN \/ y = NaN THEN x = y ELSE x[1] * y[2] = y[1] * x[2]

\* A correlated subquery, run anew for every row with the outer value pasted
\* in as a literal, is the semijoin it stands for; NOT EXISTS is the antijoin.
\* (A text that looks like something else is pasted in as that.)
SubqueryIsSemijoin ==
    WhereStep =>
    \A c \in {x \in CondsOf(did') : x.form \in {"exists", "in"}} : \A r \in Range(left.rows) :
        LET outer == ColumnValue(r, c.sub.on[2])
            twins == {s \in Range(c.sub.rows) : Holds(ColumnValue(s, c.sub.on[1]), outer, "eq")}
            given == {kdb_row_get(s, c.sub.sel) : s \in twins}
            a == kdb_row_get(r, c.col)
            plain == outer.t = "string" => kdb_type_infer(outer.v) = "string"
        IN Correlated(c.sub) /\ plain =>
            sql__cond_tree_matches(r, Single(c).node) =
                IF c.form = "exists" THEN c.neg <=> twins = {}
                ELSE (\A b \in given : Renders(b)) /\ \E b \in given : Holds(a, b, "eq")

\* Conditions mean what SQL says, by whichever of the two paths they are
\* judged: clauses, comparisons, arithmetic and subqueries (sql.c:543-1091,
\* 3584-4260).
ConditionsAreStandard ==
    [][ClauseIsStandard /\ PathsAgree /\ ExprIsArithmetic /\ SubqueryIsSemijoin]_vars

---------------------------------------------------------------------------
\* Joins: a combined row is named by the ids it came from, 0 for padding.

OfId(rel, id) == CHOOSE r \in Range(rel.rows) : r.id = id
\* A chain of INNER, LEFT, RIGHT and FULL joins (sql__build_joined_rows_multi,
\* sql.c:5975-6135) yields each combination of rows that every ON accepts
\* once, and each row an outer join keeps without a partner once, padded.
JoinIsRelational == [][stage = "from" /\ stage' = "joined" =>
    LET js == did'
        aliases == <<LeftAlias>> \o [j \in DOMAIN js |-> js[j].alias]
        rel(k) == IF k = 1 THEN left ELSE right
        ids(k) == {r.id : r \in Range(rel(k).rows)}
        source(name) == CHOOSE k \in DOMAIN aliases : Prefix(name, Append(aliases[k], "."))
        value(t, name) ==
            LET k == source(name) IN
            IF t[k] = 0 THEN Null ELSE ColumnValue(OfId(rel(k), t[k]), Drop(name, Len(aliases[k]) + 1))
        on(t, jc) == \A c \in DOMAIN jc.conds :
            Holds(value(t, jc.conds[c].left),
                  IF jc.conds[c].col # << >> THEN value(t, jc.conds[c].col) ELSE jc.conds[c].lit, jc.conds[c].op)
        zeros(k) == [i \in 1 .. k |-> 0]
        step(acc, k) ==   \* acc: the tuples of the first k tables
            LET jc == js[k]
                pairs == {p \in acc \X ids(k + 1) : on(Append(p[1], p[2]), jc)}
            IN {Append(p[1], p[2]) : p \in pairs}
               \cup (IF jc.kind \in {"left", "full"} THEN {Append(t, 0) : t \in acc \ {p[1] : p \in pairs}} ELSE {})
               \cup (IF jc.kind \in {"right", "full"} THEN {Append(zeros(k), i) : i \in ids(k + 1) \ {p[2] : p \in pairs}} ELSE {})
        wanted == FoldLeft(step, {<<i>> : i \in ids(1)}, [k \in DOMAIN js |-> k])
        number(a) == IF a = Null THEN 0 ELSE a.v \div 2
        tuple(r) == [k \in DOMAIN aliases |-> number(kdb_row_get(r, Qualified(aliases[k], IdName)))]
        clash == \E r, s \in Range(left.rows) \cup Range(right.rows) : \E f \in Range(r.fields), g \in Range(s.fields) :
                    Clash(f.value, g.value)
    IN clash \/
        /\ {tuple(r) : r \in Range(rows')} = wanted
        /\ Len(rows') = Cardinality(wanted)
        /\ \A r \in Range(rows') : \A f \in Range(r.fields) : f.value = value(tuple(r), f.name)]_vars

---------------------------------------------------------------------------
\* Grouping: whatever the keys, every row is counted once per grouping set,
\* and without a NULL among the keys a set gives one row per distinct key.
CountedOnce ==
    stage' = "grouped" =>
    LET by == did'.by
        items == did'.items
        sets == GroupingSets(by)
        plain(i, fn) == items[i].fn = fn /\ items[i].filter = << >>
        column(i) == MapThenSumSet(LAMBDA k : rows'[k].fields[i].value.v, DOMAIN rows')
        nullKey(s) == \E r \in Range(rows), c \in Range(sets[s]) : kdb_row_get(r, c) = Null
        same(r, q, s) == \A c \in Range(sets[s]) :
            LET a == kdb_row_get(r, c)
                b == kdb_row_get(q, c)
            IN (a = NoField /\ b = NoField) \/ (Compares(a, b) /\ kdb_value_compare(a, b) = 0)
        keys(s) == IF sets[s] = << >> THEN 1 ELSE Cardinality({{q \in DOMAIN rows : same(rows[r], rows[q], s)} : r \in DOMAIN rows})
    IN /\ \A i \in DOMAIN items :
            /\ plain(i, "count") /\ items[i].col = Star => column(i) = 2 * Len(rows) * Len(sets)
            /\ plain(i, "count") /\ items[i].col # Star => column(i) = 2 * Len(Present(FieldsOf(rows, items[i].col))) * Len(sets)
            /\ plain(i, "sum") => column(i) = Len(sets) *
                    MapThenSumSet(LAMBDA k : LET a == kdb_row_get(rows[k], items[i].col) IN IF Numeric(a) THEN a.v ELSE 0, DOMAIN rows)
       /\ (\A s \in DOMAIN sets : ~nullKey(s)) => Len(rows') = MapThenSumSet(keys, DOMAIN sets)

\* Aggregates of one group are those of its rows, COUNT(DISTINCT) and
\* STRING_AGG (which go over the table a second time) included: without NULL
\* keys the group they see is the group the other items see.
RescanAgrees ==
    stage' = "grouped" =>
    LET by == did'.by
        items == did'.items
        sets == GroupingSets(by)
        noNull == \A r \in Range(rows), c \in GroupCols(by) : kdb_row_get(r, c) # Null
        at(i, k) == rows'[k].fields[i].value
        distinct(i, j) == items[i].fn = "count_distinct" /\ items[j].fn = "count" /\ items[i].col = items[j].col
                            /\ items[i].filter = items[j].filter
    IN noNull => \A i, j \in DOMAIN items : \A k \in DOMAIN rows' :
        /\ distinct(i, j) => at(i, k).v <= at(j, k).v
        /\ distinct(i, j) /\ (\A r \in Range(rows) : kdb_row_get(r, items[i].col) \notin {Null, NoField}) =>
                (at(i, k).v = 0 <=> at(j, k).v = 0)

\* GROUP BY, ROLLUP, CUBE and GROUPING SETS lose no row and count none twice
\* (sql__compute_aggregates, sql.c:4584-4828, 6605-6713).
GroupsCountOnce == [][CountedOnce /\ RescanAgrees]_vars

---------------------------------------------------------------------------
\* Windows, as long as the keys compare: row numbers count a partition off in
\* its order, RANK counts the rows before, DENSE_RANK the distinct keys before,
\* NTILE cuts into buckets that differ by one row at most, a framed sum is the
\* sum of the frame and LAG and LEAD mirror each other.
WindowsCount == [][stage' = "windowed" =>
    LET item == did'
        n == Len(rows)
        keyed == \A i, j \in 1 .. n : \A c \in Range(item.part) \cup Range(item.order) :
            Compares(kdb_row_get(rows[i], c), kdb_row_get(rows[j], c))
        part(i) == {j \in 1 .. n : \A c \in Range(item.part) : kdb_value_compare(kdb_row_get(rows[i], c), kdb_row_get(rows[j], c)) = 0}
        \* -1, 0, 1: row i before, beside or behind row j by ORDER BY
        cmp(i, j) == LET v == [k \in DOMAIN item.order |->
                            (IF item.asc[k] THEN 1 ELSE -1) * kdb_value_compare(kdb_row_get(rows[i], item.order[k]), kdb_row_get(rows[j], item.order[k]))]
                         d == SelectInSeq(v, LAMBDA x : x # 0)
                     IN IF d = 0 THEN 0 ELSE v[d]
        out(i) == Last(rows'[i].fields).value
        before(i) == {j \in part(i) : cmp(j, i) < 0}
        place(i) == Cardinality(before(i)) + Cardinality({j \in part(i) : cmp(j, i) = 0 /\ j <= i})
        nth(i, p) == CHOOSE j \in part(i) : place(j) = p
        num(i) == LET a == kdb_row_get(rows[i], item.col) IN IF Numeric(a) THEN a.v ELSE 0
        bucket(i, b) == {j \in part(i) : out(j) = IntV(b)}
        lower(i) == CASE item.frame.lo.k = "unbounded" -> 1 [] item.frame.lo.k = "current" -> place(i)
                      [] item.frame.lo.k = "preceding" -> place(i) - item.frame.lo.n [] OTHER -> place(i) + item.frame.lo.n
        upper(i) == CASE item.frame.hi.k = "unbounded" -> n [] item.frame.hi.k = "following" -> place(i) + item.frame.hi.n
                      [] item.frame.hi.k = "preceding" -> place(i) - item.frame.hi.n
                      [] OTHER -> IF item.frame.range THEN Max({place(j) : j \in {q \in part(i) : cmp(q, i) = 0}}) ELSE place(i)
        frame(i) == {j \in part(i) : ~item.framed \/ (lower(i) <= place(j) /\ place(j) <= upper(i))}
    IN keyed => \A i \in 1 .. n :
        CASE item.fn = "row_number" -> out(i) = IntV(place(i))
          [] item.fn = "rank" -> out(i) = IntV(1 + Cardinality(before(i)))
          [] item.fn = "dense_rank" -> out(i) = IntV(1 + Cardinality({{k \in part(i) : cmp(k, j) = 0} : j \in before(i)}))
          [] item.fn = "lag" -> place(i) > item.n => out(i) = (LET f == kdb_row_get(rows[nth(i, place(i) - item.n)], item.col) IN IF f = NoField THEN Null ELSE f)
          [] item.fn = "lead" -> place(i) + item.n > Cardinality(part(i)) => out(i) = item.default
          [] item.fn = "ntile" ->
                /\ \A a, b \in 1 .. item.n : a < b => Cardinality(bucket(i, a)) - Cardinality(bucket(i, b)) \in {0, 1}
                /\ \A j \in part(i) : place(i) < place(j) => out(i).v <= out(j).v
                /\ out(i).v \in 2 .. 2 * item.n
          [] item.fn = "sum" -> out(i) = FloatV(MapThenSumSet(num, frame(i)))
          [] item.fn = "count" /\ item.col = Star -> out(i) = IntV(Cardinality(frame(i)))
          [] OTHER -> TRUE]_vars

---------------------------------------------------------------------------
\* Set operators as SQL counts them: a row of multiplicity m here and k there
\* comes out m + k, min(m, k) or m - k times with ALL, and at most once
\* without.  Columns are told apart by place, not by name.
SetOpsCounted ==
    stage' = "combined" =>
    LET vals(r) == [i \in DOMAIN r.fields |-> r.fields[i].value]
        times(rs, v) == Cardinality({i \in DOMAIN rs : vals(rs[i]) = v})
        seen == {vals(r) : r \in Range(rows) \cup Range(did'.next)}
        m(v) == times(rows, v)
        k(v) == times(did'.next, v)
        want(v) == CASE did'.op = "union" -> m(v) + k(v)
                     [] did'.op = "intersect" -> Min({m(v), k(v)})
                     [] did'.op = "except" -> IF m(v) > k(v) THEN m(v) - k(v) ELSE 0
        once(v) == CASE did'.op = "union" -> TRUE
                     [] did'.op = "intersect" -> m(v) > 0 /\ k(v) > 0
                     [] did'.op = "except" -> m(v) > 0 /\ k(v) = 0
        scalar == \A v \in seen : \A i \in DOMAIN v : v[i].t \in {"null", "int", "float", "bool", "string"}
    IN scalar => \A v \in seen : times(rows', v) = IF did'.all THEN want(v) ELSE IF once(v) THEN 1 ELSE 0

\* ORDER BY and LIMIT: the page is sorted, holds rows of the result at most as
\* often as they are there, is as long as it can be, and leaves out no row
\* that sorts before one it shows, as long as the keys compare.
PageIsSlice ==
    stage' = "done" =>
    LET keys == did'.keys
        n == Len(rows)
        size == IF did'.offset >= n THEN 0
                ELSE IF did'.limit = 0 THEN n - did'.offset ELSE Min({did'.limit, n - did'.offset})
        value(r, k) == kdb_row_get(r, keys[k].col)
        comparable == \A r, q \in Range(rows) : \A k \in DOMAIN keys :
            Compares(value(r, k), value(q, k)) \/ NoField \in {value(r, k), value(q, k)}
        before(r, q) == LET v == [k \in DOMAIN keys |-> (IF keys[k].asc THEN 1 ELSE -1) *
                                (CASE value(r, k) = NoField \/ value(q, k) = NoField ->
                                        (IF value(r, k) = NoField THEN 0 ELSE 1) - (IF value(q, k) = NoField THEN 0 ELSE 1)
                                   [] OTHER -> kdb_value_compare(value(r, k), value(q, k)))]
                            d == SelectInSeq(v, LAMBDA x : x # 0)
                        IN d # 0 /\ v[d] < 0
        times(rs, r) == Cardinality({i \in DOMAIN rs : rs[i] = r})
    IN comparable =>
        /\ Len(rows') = size
        /\ \A r \in Range(rows') : times(rows', r) <= times(rows, r)
        /\ \A i, j \in DOMAIN rows' : i < j => ~before(rows'[j], rows'[i])
        /\ \A i \in DOMAIN rows' : Cardinality({j \in DOMAIN rows : before(rows[j], rows'[i])}) <= did'.offset + i - 1

\* Multiplicities survive to the page the caller sees: set operators, order
\* and limit (sql.c:4830-4988, 6946-7069).
ResultsCount == [][SetOpsCounted /\ PageIsSlice]_vars
=============================================================================
