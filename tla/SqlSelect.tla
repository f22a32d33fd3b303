----------------------------- MODULE SqlSelect -----------------------------
(***************************************************************************)
(* SELECT (sql__exec_select_core and sql__exec_select_stmt, sql.c) as the  *)
(* steps it takes over the rows it has fetched: FROM and JOIN, WHERE, then *)
(* either grouping and HAVING or window functions and the projection, then *)
(* DISTINCT, set operators, ORDER BY and LIMIT.                            *)
(*                                                                         *)
(* A relation is its rows and the columns of its schema (of a view: those  *)
(* of its first row).  The parsed statement is chosen clause by clause as  *)
(* the steps run.  Out of memory is left out.                              *)
(***************************************************************************)
EXTENDS SqlWhere

CONSTANTS
    Relations,     \* what the first table may hold
    Operands,      \* what the joined table and the other arm may hold
    Clauses,       \* WHERE and HAVING clauses (sequences of tokens)
    Joins,         \* chains of JOIN clauses over the operand
    Groupings,     \* GROUP BY clauses
    AggItems,      \* SELECT lists with aggregates
    Items,         \* SELECT lists without
    Windows,       \* window functions
    Orders,        \* ORDER BY clauses
    MaxGroups,     \* KDB_SQL_MAX_GROUPS
    MaxCubeCols,   \* KDB_SQL_MAX_CUBE_COLS
    MaxDistinct,   \* KDB_SQL_MAX_COUNT_DISTINCT_VALS
    MaxSorted      \* bound of the model: rows one sort may have (qsort is a set of orders)

ASSUME SelectAssumption == {MaxGroups, MaxCubeCols, MaxDistinct, MaxSorted} \subseteq Nat \ {0}

VARIABLES
    left, right,   \* the stored relations
    stage,         \* how far the statement is
    rows,          \* rows, agg or acc
    did            \* the clause of the last step

vars == <<left, right, stage, rows, did>>

Star == <<"%">>    \* the argument of COUNT(*)
Field(name, a) == [name |-> name, value |-> a]
Row(fields) == [id |-> 0, fields |-> fields]

---------------------------------------------------------------------------
\* Joins.

Qualified(qual, name) == qual \o <<".">> \o name
sql__append_qualified_fields(dst, src, qual) ==
    [dst EXCEPT !.fields = @ \o [i \in DOMAIN src.fields |-> Field(Qualified(qual, src.fields[i].name), src.fields[i].value)]
                             \o <<Field(Qualified(qual, IdName), IntV(src.id))>>]
sql__append_qualified_nulls(dst, schema, qual) ==
    [dst EXCEPT !.fields = @ \o [i \in DOMAIN schema |-> Field(Qualified(qual, schema[i]), Null)]
                             \o <<Field(Qualified(qual, IdName), Null)>>]

\* A view has no columns to pad with when it has no rows.
sql__schema_for_padding(rel) ==
    IF ~rel.view THEN [ok |-> TRUE, cols |-> rel.cols]
    ELSE IF rel.rows = << >> THEN [ok |-> FALSE, cols |-> << >>]
    ELSE [ok |-> TRUE, cols |-> [i \in DOMAIN rel.rows[1].fields |-> rel.rows[1].fields[i].name]]

\* Mutant: one of the conditions is enough.
OnMatches_any(combo, conds) ==
    conds = << >> \/ \E c \in DOMAIN conds :
        LET lf == kdb_row_get(combo, conds[c].left)
            rf == IF conds[c].col # << >> THEN kdb_row_get(combo, conds[c].col) ELSE conds[c].lit
        IN sql__cmp_matches_op(sql__field_cmp_ex(lf, rf), conds[c].op)
OnMatches(combo, conds) ==
    \A c \in DOMAIN conds :
        LET lf == kdb_row_get(combo, conds[c].left)
            rf == IF conds[c].col # << >> THEN kdb_row_get(combo, conds[c].col) ELSE conds[c].lit
        IN sql__cmp_matches_op(sql__field_cmp_ex(lf, rf), conds[c].op)

\* One JOIN of the chain: the matches of every row so far, or the row padded;
\* then the rows of the table nothing matched, behind the template of NULLs.
JoinStep(acc, jc, rel, anyRight) ==
    LET schema == sql__schema_for_padding(rel)
        padLeft == jc.kind \in {"left", "full"}
        padRight == jc.kind \in {"right", "full"}
        combo(i, j) == sql__append_qualified_fields(acc.rows[i], rel.rows[j], jc.alias)
        hits(i) == SelectSeq([j \in DOMAIN rel.rows |-> j], LAMBDA j : OnMatches(combo(i, j), jc.conds))
        of(i) == IF hits(i) = << >> /\ padLeft
                 THEN <<sql__append_qualified_nulls(acc.rows[i], schema.cols, jc.alias)>>
                 ELSE [h \in DOMAIN hits(i) |-> combo(i, hits(i)[h])]
        lone == SelectSeq([j \in DOMAIN rel.rows |-> j],
                          LAMBDA j : padRight /\ \A i \in DOMAIN acc.rows : ~OnMatches(combo(i, j), jc.conds))
    IN [ok |-> acc.ok /\ (padLeft \/ anyRight => schema.ok),
        rows |-> FlattenSeq([i \in DOMAIN acc.rows |-> of(i)])
                 \o [k \in DOMAIN lone |-> sql__append_qualified_fields(acc.template, rel.rows[lone[k]], jc.alias)],
        template |-> sql__append_qualified_nulls(acc.template, schema.cols, jc.alias)]

sql__build_joined_rows_multi(first, alias, joins, rel) ==
    LET anyRight == \E j \in DOMAIN joins : joins[j].kind \in {"right", "full"}
        schema == sql__schema_for_padding(first)
        start == [ok |-> anyRight => schema.ok,
                  rows |-> [i \in DOMAIN first.rows |-> sql__append_qualified_fields(Row(<< >>), first.rows[i], alias)],
                  template |-> sql__append_qualified_nulls(Row(<< >>), schema.cols, alias)]
    IN FoldLeft(LAMBDA acc, jc : JoinStep(acc, jc, rel, anyRight), start, joins)

---------------------------------------------------------------------------
\* Aggregates over the fields that are there; NULL counts, but adds nothing.

Present(fs) == SelectSeq(fs, LAMBDA a : a # NoField)
SumOf(fs) == FoldLeft(LAMBDA acc, a : IF Numeric(a) THEN acc + sql__field_to_double(a) ELSE acc, 0, fs)
AvgOf(nums) == IF nums = << >> THEN 0 ELSE SumOf(nums) \div Len(nums)
Extremum(fs, better(_)) ==
    IF fs = << >> THEN Null
    ELSE FoldLeft(LAMBDA acc, a : IF better(sql__field_cmp(a, acc)) THEN a ELSE acc, Head(fs), Tail(fs))
OfPresent(fn, fs) ==
    CASE fn = "count" -> IntV(Len(fs))
      [] fn = "sum" -> FloatV(SumOf(fs))
      [] fn = "avg" -> FloatV(AvgOf(SelectSeq(fs, Numeric)))
      [] fn = "min" -> Extremum(fs, LAMBDA c : c < 0)
      [] fn = "max" -> Extremum(fs, LAMBDA c : c > 0)
Aggregate(fn, star, fs) == IF fn = "count" /\ star THEN IntV(Len(fs)) ELSE OfPresent(fn, Present(fs))

KeyRefs(r, cols) == [k \in DOMAIN cols |-> kdb_row_get(r, cols[k])]
SameRefs(x, y) == \A k \in DOMAIN x : sql__field_equal(x[k], y[k])

\* One pass: the group of a row is the first whose key equals its own.
Entered(groups, g, key, r) ==
    IF g = 0 THEN Append(groups, [key |-> key, rows |-> <<r>>]) ELSE [groups EXCEPT ![g].rows = Append(@, r)]
\* Mutant: only the group of the row before is looked at, as in sorted input.
Enter_sorted(groups, key, r) ==
    Entered(groups, IF groups # << >> /\ SameRefs(Last(groups).key, key) THEN Len(groups) ELSE 0, key, r)
Enter(groups, key, r) == Entered(groups, SelectInSeq(groups, LAMBDA x : SameRefs(x.key, key)), key, r)
Grouped(all, cols) ==
    FoldLeft(LAMBDA groups, r : Enter(groups, KeyRefs(r, cols), r),
             IF cols = << >> THEN <<[key |-> << >>, rows |-> << >>]>> ELSE << >>, all)

Filtered(item, rs) == SelectSeq(rs, LAMBDA r : sql__conds_match(r, item.filter))

\* COUNT(DISTINCT) and STRING_AGG go over all rows again and take those whose
\* key equals the group's.
Rescanned(all, cols, g) == SelectSeq(all, LAMBDA r : SameRefs(g.key, KeyRefs(r, cols)))
DistinctValues(fs) ==
    FoldLeft(LAMBDA seen, a : IF a = NoField \/ a.t = "null" \/ \E i \in DOMAIN seen : sql__field_equal(seen[i], a)
                              THEN seen ELSE Append(seen, a), << >>, fs)
WithText(acc, text) == (IF acc = << >> THEN << >> ELSE acc \o <<"_">>) \o text
Concatenated(fs) ==
    IF fs = << >> THEN Null ELSE Str(FoldLeft(LAMBDA acc, a : WithText(acc, sql__field_to_filter_text(a)), << >>, fs))
StringAgg(fs) == Concatenated(SelectSeq(fs, Renders))

KeyField(key, k) == IF k = 0 \/ key[k] = NoField THEN Null ELSE key[k]
Again(item, all, cols, g) == FieldsOf(Filtered(item, Rescanned(all, cols, g)), item.col)
AggValue(item, all, cols, g) ==
    CASE item.fn = "none" -> KeyField(g.key, SelectInSeq(cols, LAMBDA c : c = item.col))
      [] item.fn = "count_distinct" -> IntV(Len(DistinctValues(Again(item, all, cols, g))))
      [] item.fn = "string_agg" -> StringAgg(Again(item, all, cols, g))
      [] OTHER -> Aggregate(item.fn, item.col = Star, FieldsOf(Filtered(item, g.rows), item.col))

\* Too many distinct values or too many groups fail the statement.
Crowded(values, items) ==
    \E g \in DOMAIN values, i \in DOMAIN items : items[i].fn = "count_distinct" /\ values[g][i].v > 2 * MaxDistinct
AggRows(values, items) ==
    IF Len(values) > MaxGroups \/ Crowded(values, items) THEN BadArg
    ELSE Found([g \in DOMAIN values |-> Row([i \in DOMAIN items |-> Field(items[i].alias, values[g][i])])])
GroupValues(all, items, cols, groups) ==
    [g \in DOMAIN groups |-> [i \in DOMAIN items |-> AggValue(items[i], all, cols, groups[g])]]
sql__compute_aggregates(all, items, cols) == AggRows(GroupValues(all, items, cols, Grouped(all, cols)), items)

\* The lists of columns a GROUP BY clause stands for, and their union.
RECURSIVE Cube(_)
Cube(cols) ==   \* every subset, bit by bit from the highest mask down
    IF cols = << >> THEN << << >> >>
    ELSE LET front == Cube(Front(cols))
         IN [i \in DOMAIN front |-> Append(front[i], Last(cols))] \o front
GroupingSets(by) ==
    CASE by.kind = "none" -> << << >> >>
      [] by.kind = "plain" -> <<by.cols>>
      [] by.kind = "rollup" -> [i \in 1 .. Len(by.cols) + 1 |-> SubSeq(by.cols, 1, Len(by.cols) + 1 - i)]
      [] by.kind = "cube" -> Cube(by.cols)
      [] by.kind = "sets" -> by.sets
GroupCols(by) == UNION {Range(GroupingSets(by)[s]) : s \in DOMAIN GroupingSets(by)}
GroupingOk(by, items) ==
    /\ by.kind = "cube" => Len(by.cols) <= MaxCubeCols
    /\ \A i \in DOMAIN items : items[i].fn = "none" => items[i].col \in GroupCols(by)

\* One pass per grouping set, the results behind each other.
Behind(parts) == IF \A s \in DOMAIN parts : parts[s].ok THEN Found(FlattenSeq([s \in DOMAIN parts |-> parts[s].rows])) ELSE BadArg
PerSet(all, items, sets) == Behind([s \in DOMAIN sets |-> sql__compute_aggregates(all, items, sets[s])])
AggregateAll(all, items, by) == IF GroupingOk(by, items) THEN PerSet(all, items, GroupingSets(by)) ELSE BadArg

---------------------------------------------------------------------------
\* Window functions.

sql__win_field_cmp(a, b) ==
    CASE a = NoField /\ b = NoField -> 0
      [] a = NoField /\ b # NoField -> -1
      [] a # NoField /\ b = NoField -> 1
      [] OTHER -> sql__field_cmp(a, b)
Verdicts(r, q, cols) == [k \in DOMAIN cols |-> sql__win_field_cmp(kdb_row_get(r, cols[k]), kdb_row_get(q, cols[k]))]
sql__win_partition_equal(item, r, q) == Range(Verdicts(r, q, item.part)) \subseteq {0}
sql__win_order_equal(item, r, q) == Range(Verdicts(r, q, item.order)) \subseteq {0}

\* Partition, then order, then the place in the input.
FirstVerdict(verdicts) == IF verdicts = << >> THEN 0 ELSE Head(verdicts)
Turned(verdicts, asc) == [k \in DOMAIN verdicts |-> IF asc[k] THEN verdicts[k] ELSE -verdicts[k]]
sql__win_cmp(item, rs, i, j) ==
    FirstVerdict(SelectSeq(Verdicts(rs[i], rs[j], item.part) \o Turned(Verdicts(rs[i], rs[j], item.order), item.asc) \o <<i - j>>,
                           LAMBDA c : c # 0))

\* Mutant: the remainder is not spread over the first buckets.
NtileBucket_even(pos, size, n) == IF size < n THEN pos + 1 ELSE pos \div (size \div n) + 1
NtileBucket(pos, size, n) ==
    LET base == size \div n
        rem == size % n
    IN IF pos < rem * (base + 1) THEN pos \div (base + 1) + 1 ELSE rem + (pos - rem * (base + 1)) \div base + 1

\* The value of the window function at place si of the sorted rows.
WindowValue(item, at, si) ==
    LET n == Len(at)
        breaks(k) == k = 1 \/ ~sql__win_partition_equal(item, at[k], at[k - 1])
        start == Max({k \in 1 .. si : breaks(k)})
        stop == Min({k \in si + 1 .. n + 1 : k = n + 1 \/ breaks(k)}) - 1
        partEnd == Min({k \in start + 1 .. n + 1 : k = n + 1 \/ ~sql__win_partition_equal(item, at[k], at[start])})
        leads(k) == k = start \/ ~sql__win_order_equal(item, at[k], at[k - 1])
        peer == Max({k \in start .. si : leads(k)})
        peerEnd == Max({k \in peer .. partEnd - 1 : \A m \in peer + 1 .. k : sql__win_order_equal(item, at[m], at[peer])})
        field(k) == LET f == kdb_row_get(at[k], item.col) IN IF f = NoField THEN Null ELSE f
        neighbour(k, there) == IF there THEN field(k) ELSE item.default
        lo == CASE item.frame.lo.k = "unbounded" -> start [] item.frame.lo.k = "preceding" -> si - item.frame.lo.n
                [] item.frame.lo.k = "current" -> si [] item.frame.lo.k = "following" -> si + item.frame.lo.n
        hi == CASE item.frame.hi.k = "unbounded" -> partEnd - 1 [] item.frame.hi.k = "preceding" -> si - item.frame.hi.n
                [] item.frame.hi.k = "current" -> IF item.frame.range THEN peerEnd ELSE si
                [] item.frame.hi.k = "following" -> si + item.frame.hi.n
        framed == FieldsOf(SubSeq(at, Max({lo, start}), Min({hi, partEnd - 1})), item.col)
    IN CASE item.fn = "row_number" -> IntV(si - start + 1)
         [] item.fn = "rank" -> IntV(peer - start + 1)
         [] item.fn = "dense_rank" -> IntV(Cardinality({k \in start .. si : leads(k)}))
         [] item.fn = "lag" -> neighbour(si - item.n, si >= start + item.n)
         [] item.fn = "lead" -> neighbour(si + item.n, si + item.n < partEnd)
         [] item.fn = "first_value" -> field(start)
         [] item.fn = "last_value" -> field(partEnd - 1)
         [] item.fn = "ntile" -> IntV(NtileBucket(si - start, partEnd - start, item.n))
         [] item.framed -> Aggregate(item.fn, item.col = Star, framed)
         [] OTHER -> Aggregate(item.fn, item.col = Star, FieldsOf(SubSeq(at, start, stop), item.col))

\* Every order qsort() may leave; the value goes into a field of its own.
WinName == <<"_", "n">>
sql__compute_window_functions(rs, item) ==
    LET orders == qsort([i \in DOMAIN rs |-> i], LAMBDA i, j : sql__win_cmp(item, rs, i, j))
        place(ord, i) == CHOOSE si \in DOMAIN ord : ord[si] = i
        at(ord) == [si \in DOMAIN ord |-> rs[ord[si]]]
    IN {[i \in DOMAIN rs |->
            [rs[i] EXCEPT !.fields = Append(@, Field(WinName, WindowValue(item, at(ord), place(ord, i))))]] : ord \in orders}

---------------------------------------------------------------------------
\* Projection, set operators, order.

\* Numbers are kept in halves: what an expression gives between two is cut.
Halves(x) == IF x = NaN THEN Null ELSE FloatV((2 * x[1]) \div x[2])
ItemValue(item, r) ==
    CASE item.kind = "literal" -> item.value
      [] item.kind = "expr" -> Halves(sql__eval_expr(item, r))
      [] item.kind = "case" -> sql__eval_case_item(item, r)
      [] item.kind = "column" -> sql__lookup_outer_field(r, item.col)
Kept(fields) == SelectSeq(fields, LAMBDA f : f.value # NoField)
sql__project_rows(rs, items) ==
    [i \in DOMAIN rs |-> [rs[i] EXCEPT !.fields =
        Kept([k \in DOMAIN items |-> Field(items[k].alias, ItemValue(items[k], rs[i]))])]]

sql__row_equal(a, b) ==
    /\ Len(a.fields) = Len(b.fields)
    /\ \A i \in DOMAIN a.fields :
        LET fa == a.fields[i]
            fb == b.fields[i]
        IN /\ fa.name = fb.name /\ fa.value.t = fb.value.t
           /\ fa.value.t = "null" \/ sql__field_equal(fa.value, fb.value)

sql__dedupe_rows(rs) ==
    FoldLeft(LAMBDA kept, r : IF \E j \in DOMAIN kept : sql__row_equal(r, kept[j]) THEN kept ELSE Append(kept, r), << >>, rs)

\* Mutant: with ALL a partner is used again and again.
Matched_reused(acc, r, j, all, keep) ==
    [used |-> acc.used, rows |-> IF (j # 0) = keep THEN Append(acc.rows, r) ELSE acc.rows]
\* dst against src row by row; with ALL a match uses its partner up.
Matched(acc, r, j, all, keep) ==
    [used |-> IF all /\ j # 0 THEN acc.used \cup {j} ELSE acc.used,
     rows |-> IF (j # 0) = keep THEN Append(acc.rows, r) ELSE acc.rows]
Partner(r, src, used) == SelectInSeq([k \in DOMAIN src |-> k], LAMBDA k : k \notin used /\ sql__row_equal(r, src[k]))
Deduped(rs, all) == IF all THEN rs ELSE sql__dedupe_rows(rs)
Against(dst, src, all, keep) ==
    Deduped(FoldLeft(LAMBDA acc, r : Matched(acc, r, Partner(r, src, acc.used), all, keep), [used |-> {}, rows |-> << >>], dst).rows, all)
sql__intersect_rows(dst, src, all) == Against(dst, src, all, TRUE)
sql__except_rows(dst, src, all) == Against(dst, src, all, FALSE)

sql__rename_rows_like(rs, tmpl) ==
    [r \in DOMAIN rs |-> [rs[r] EXCEPT !.fields = [i \in DOMAIN @ |-> [@[i] EXCEPT !.name = tmpl.fields[i].name]]]]

\* The other arm must have as many columns in its first row, and takes the
\* names of the first arm's first row; a row with more fields than that one
\* reads past its end (undefined behaviour, a failure here).
SetOp(acc, next, op, all) ==
    LET clash == acc # << >> /\ next # << >> /\ Len(acc[1].fields) # Len(next[1].fields)
        ragged == acc # << >> /\ \E r \in DOMAIN next : Len(next[r].fields) > Len(acc[1].fields)
        named == IF acc = << >> THEN next ELSE sql__rename_rows_like(next, acc[1])
    IN IF clash \/ ragged THEN BadArg
       ELSE Found(CASE op = "union" -> IF all THEN acc \o named ELSE sql__dedupe_rows(acc \o named)
                    [] op = "intersect" -> sql__intersect_rows(acc, named, all)
                    [] op = "except" -> sql__except_rows(acc, named, all))

sql__row_cmp(a, b, keys) ==
    FirstVerdict(SelectSeq(Turned(Verdicts(a, b, [k \in DOMAIN keys |-> keys[k].col]), [k \in DOMAIN keys |-> keys[k].asc]),
                           LAMBDA c : c # 0))
sql__sort_rows(rs, keys) == IF keys = << >> THEN {rs} ELSE qsort(rs, LAMBDA a, b : sql__row_cmp(a, b, keys))

\* A limit of zero is no limit.
sql__limit_rows(rs, offset, limit) ==
    LET rest == SubSeq(rs, offset + 1, Len(rs)) IN IF limit > 0 /\ Len(rest) > limit THEN SubSeq(rest, 1, limit) ELSE rest

---------------------------------------------------------------------------
\* The statement.

Init ==
    /\ left \in Relations /\ right \in Operands
    /\ stage = "from" /\ rows = << >> /\ did = << >>

Step(from, to) == stage = from /\ stage' = to /\ UNCHANGED <<left, right>>
Yield(res, to) == IF res.ok THEN rows' = res.rows /\ stage' = to ELSE rows' = << >> /\ stage' = "failed"

\* A stored table without parentheses in its WHERE is filtered while it is read.
LeftAlias == <<"A">>
Filtering(rel, parsed) ==
    IF ~Complete(parsed) THEN BadArg
    ELSE IF rel.view THEN Found(sql__filter_rows_tree(rel.rows, parsed.node)) ELSE Where(rel.rows, parsed)
sql__fetch_base_rows(toks) ==
    IF toks = << >> THEN Found(left.rows) ELSE Filtering(left, sql__parse_cond_clause(toks, LeftAlias))

FromWhere == \E toks \in Clauses :
    /\ stage = "from" /\ did' = toks
    /\ Yield(sql__fetch_base_rows(toks), "where")
    /\ UNCHANGED <<left, right>>

FromJoin == \E js \in Joins :
    /\ stage = "from" /\ did' = js
    /\ Yield(sql__build_joined_rows_multi(left, LeftAlias, js, right), "joined")
    /\ UNCHANGED <<left, right>>

FilterTree(rs, parsed) == IF Complete(parsed) THEN Found(sql__filter_rows_tree(rs, parsed.node)) ELSE BadArg

\* After a join the alias stays, and WHERE is always a tree.
JoinWhere == \E toks \in Clauses \ {<< >>} :
    /\ stage = "joined" /\ did' = toks
    /\ Yield(FilterTree(rows, sql__parse_cond_clause(toks, << >>)), "where")
    /\ UNCHANGED <<left, right>>

GroupBy == \E by \in Groupings, items \in AggItems :
    /\ stage \in {"where", "joined"} /\ did' = [by |-> by, items |-> items]
    /\ Yield(AggregateAll(rows, items, by), "grouped")
    /\ UNCHANGED <<left, right>>

sql__cond_tree_has_exists(toks) == \E i \in DOMAIN toks : toks[i].k = "cond" /\ toks[i].c.form = "exists"
Having == \E toks \in Clauses \ {<< >>} :
    /\ stage = "grouped" /\ did' = toks
    /\ Yield(IF sql__cond_tree_has_exists(toks) THEN BadArg ELSE FilterTree(rows, sql__parse_cond_clause(toks, << >>)), "core")
    /\ UNCHANGED <<left, right>>

Window == \E item \in Windows :
    /\ Step("where", "windowed") /\ did' = item
    /\ Len(rows) <= MaxSorted
    /\ rows' \in sql__compute_window_functions(rows, item)

Project == \E items \in Items :
    /\ stage \in {"where", "joined", "windowed"} /\ stage' = "core" /\ UNCHANGED <<left, right>>
    /\ did' = items
    /\ rows' = sql__project_rows(rows, items)

Distinct ==
    /\ stage \in {"core", "grouped"} /\ stage' = "distinct" /\ UNCHANGED <<left, right>>
    /\ did' = << >>
    /\ rows' = sql__dedupe_rows(rows)

\* The other arm is SELECT items FROM the operand, DISTINCT or not.
SetOps == \E op \in {"union", "intersect", "except"}, all \in BOOLEAN, items \in Items :
    /\ stage \in {"core", "distinct"}
    /\ did' = [op |-> op, all |-> all, next |-> sql__project_rows(right.rows, items)]
    /\ Yield(SetOp(rows, did'.next, op, all), "combined")
    /\ UNCHANGED <<left, right>>

OrderLimit == \E keys \in Orders, offset, limit \in 0 .. 2 :
    /\ stage \in {"core", "distinct", "combined", "grouped"} /\ stage' = "done" /\ UNCHANGED <<left, right>>
    /\ Len(rows) <= MaxSorted
    /\ did' = [keys |-> keys, offset |-> offset, limit |-> limit]
    /\ \E sorted \in sql__sort_rows(rows, keys) : rows' = sql__limit_rows(sorted, offset, limit)

\* The rows go to the caller, who may run the next statement.
Return ==
    /\ stage \in {"done", "failed"}
    /\ stage' = "from" /\ rows' = << >> /\ did' = << >>
    /\ UNCHANGED <<left, right>>

Next == FromWhere \/ FromJoin \/ JoinWhere \/ GroupBy \/ Having \/ Window \/ Project \/ Distinct \/ SetOps \/ OrderLimit \/ Return

Spec == Init /\ [][Next]_vars
=============================================================================
