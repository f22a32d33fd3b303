---------------------------- MODULE KdbAggregate ----------------------------
(***************************************************************************)
(* The aggregation pipeline (kdb_aggregate, kumdb.c) as the sequence of    *)
(* results it goes through, and the searches over one table.               *)
(***************************************************************************)
EXTENDS KdbQuery

CONSTANTS
    Tables,        \* what the table may hold: sequences of rows
    Others,        \* what the table of a $lookup may hold
    Filters,       \* filter lists
    GroupBys,      \* lists of group-by fields
    SortKeys,      \* lists of sort keys
    Fields,        \* field names of $project, $lookup, $unwind and accumulators
    MaxAggGroups,  \* KDB_AGG_MAX_GROUPS
    MaxGroupKeys,  \* KDB_AGG_MAX_GROUP_KEYS
    MaxSortKeys,   \* KDB_AGG_MAX_SORT_KEYS
    MaxStages      \* bound on the length of a pipeline

ASSUME AggregateAssumption == {MaxAggGroups, MaxGroupKeys, MaxSortKeys} \subseteq Nat \ {0} /\ MaxStages \in Nat

VARIABLES
    table, other,  \* the stored rows
    cur,           \* KdbResult cur: the rows between two stages
    n,             \* stages run so far
    st             \* KdbStatus st

vars == <<table, other, cur, n, st>>

LookupName == <<"b">>
CountName == <<"n">>
SumName == <<"e">>

---------------------------------------------------------------------------
\* Stages.

Matching(rows, q) == IF q.ok THEN Found(kdb_query_scan(q, rows)) ELSE BadArg
kdb__agg_match(rows, filters) == Matching(rows, kdb__build_query(filters))

\* The first key that tells the rows apart decides; keys beyond the cap are ignored.
kdb__agg_row_cmp(ra, rb, keys) ==
    FoldLeft(LAMBDA c, key : IF c # 0 THEN c ELSE kdb__sort_cmp(ra, rb, key), 0, keys)
kdb__agg_sort(rows, keys) ==
    IF keys = << >> THEN {rows}
    ELSE qsort(rows, LAMBDA a, b : kdb__agg_row_cmp(a, b, SubSeq(keys, 1, Min({Len(keys), MaxSortKeys}))))

\* Group keys: a missing field equals a missing field only.
KeyOf(r, groupBy) == [k \in DOMAIN groupBy |-> kdb_record_get_field(r, groupBy[k])]
\* Mutant: equal values of two types are two keys.
SameKey_typed(x, y) == \A k \in DOMAIN x : x[k].t = y[k].t /\ x[k] = y[k]
SameKey(x, y) ==
    \A k \in DOMAIN x : (x[k] = NoField /\ y[k] = NoField) \/
                        (x[k] # NoField /\ y[k] # NoField /\ kdb_value_compare(x[k], y[k]) = 0)

\* One pass over the rows; a group is its key and the indices of its rows.
Joining(groups, g, key, i) ==
    IF g = 0 THEN Append(groups, [key |-> key, members |-> <<i>>]) ELSE [groups EXCEPT ![g].members = Append(@, i)]
Gathered(groups, key, i) == Joining(groups, SelectInSeq(groups, LAMBDA x : SameKey(x.key, key)), key, i)
Gather(rows, groupBy) ==
    FoldLeft(LAMBDA groups, i : Gathered(groups, KeyOf(rows[i], groupBy), i),
             IF groupBy = << >> THEN <<[key |-> << >>, members |-> << >>]>> ELSE << >>, [i \in DOMAIN rows |-> i])

\* COUNT(*), and SUM (or AVG's numerator), COUNT(col), MIN and MAX of a field:
\* NULL and missing values do not count, and a value that is no number does
\* not add.  MIN and MAX keep the value a later one does not beat.
Values(rows, members, field) ==
    SelectSeq([m \in DOMAIN members |-> kdb_record_get_field(rows[members[m]], field)],
              LAMBDA a : a # NoField /\ a.t # "null")
AccSum(vals) == FoldLeft(LAMBDA acc, a : IF Numeric(a) THEN Rounded(acc + kdb__agg_value_to_double(a)) ELSE acc, 0, vals)
AccAvg(vals) == LET m == Len(SelectSeq(vals, Numeric)) IN IF m = 0 THEN 0 ELSE AccSum(vals) \div m
AccMin(vals) ==
    FoldLeft(LAMBDA acc, a : IF acc.t = "null" \/ kdb_value_compare(a, acc) < 0 THEN a ELSE acc, Null, vals)
AccMax(vals) ==
    FoldLeft(LAMBDA acc, a : IF acc.t = "null" \/ kdb_value_compare(a, acc) > 0 THEN a ELSE acc, Null, vals)

Accumulate(fn, vals) ==
    CASE fn = "count" -> IntV(Len(vals))
      [] fn = "sum" -> FloatV(AccSum(vals))
      [] fn = "avg" -> FloatV(AccAvg(vals))
      [] fn = "min" -> AccMin(vals)
      [] fn = "max" -> AccMax(vals)

\* Every group becomes a row without an id: its key, COUNT(*) and acc.fn(acc.field).
GroupRow(rows, g, groupBy, acc) ==
    [id |-> 0, fields |->
        [k \in DOMAIN groupBy |-> [name |-> groupBy[k], value |-> IF g.key[k] = NoField THEN Null ELSE g.key[k]]]
        \o <<[name |-> CountName, value |-> IntV(Len(g.members))],
             [name |-> SumName, value |-> Accumulate(acc.fn, Values(rows, g.members, acc.field))]>>]
GroupRows(rows, groups, groupBy, acc) ==
    IF Len(groups) > MaxAggGroups THEN BadArg ELSE Found([i \in DOMAIN groups |-> GroupRow(rows, groups[i], groupBy, acc)])
kdb__agg_group(rows, groupBy, acc) ==
    IF Len(groupBy) > MaxGroupKeys THEN BadArg ELSE GroupRows(rows, Gather(rows, groupBy), groupBy, acc)

kdb__agg_project(rows, fields) ==
    [i \in DOMAIN rows |-> [rows[i] EXCEPT !.fields =
        LET present == SelectSeq(fields, LAMBDA f : ColumnValue(rows[i], f) # NoField)
        IN [k \in DOMAIN present |-> [name |-> present[k], value |-> ColumnValue(rows[i], present[k])]]]]

\* A row of the other table as an object, its id folded in as a field (and the
\* two timestamps, which the id stands for).
kdb__build_lookup_object(r) == Object(<<[name |-> IdName, value |-> IntV(r.id)]>> \o r.fields)
TooWide(r) == Len(kdb__build_lookup_object(r).v) > MaxNestElems

Equals(a, foreign) == kdb_query_add_filter_value(kdb_query_init, foreign, "eq", a, Null)
Matches(a, foreign) == IF a = NoField \/ a.t = "null" THEN << >> ELSE kdb_query_scan(Equals(a, foreign), other)
LookupItems(found) == Array([m \in DOMAIN found |-> kdb__build_lookup_object(found[m])])

\* An array and an object hold MaxNestElems elements at most: more matches, or a
\* match with more fields, fail the stage.
Attached(rows, found, as) ==
    IF \E i \in DOMAIN rows : Len(found[i]) > MaxNestElems \/ \E r \in Range(found[i]) : TooWide(r) THEN BadArg
    ELSE Found([i \in DOMAIN rows |-> kdb_record_set_field(rows[i], as, LookupItems(found[i]))])
kdb__agg_lookup(rows, local, foreign, as) ==
    Attached(rows, [i \in DOMAIN rows |-> Matches(ColumnValue(rows[i], local), foreign)], as)

Unwound(r, field, a) == IF a.t # "array" THEN << >> ELSE [e \in DOMAIN a.v |-> kdb_record_set_field(r, field, a.v[e])]
kdb__agg_unwind(rows, field) ==
    FlattenSeq([i \in DOMAIN rows |-> Unwound(rows[i], field, kdb_record_get_field(rows[i], field))])

---------------------------------------------------------------------------
\* kdb_aggregate: fetch everything, then stage after stage; a failing stage
\* ends the call without a result.

Init ==
    /\ table \in Tables /\ other \in Others
    /\ cur = table /\ n = 0 /\ st = "ok"

Stage == st = "ok" /\ n < MaxStages /\ n' = n + 1 /\ UNCHANGED <<table, other>>
Yield(res) == IF res.ok THEN cur' = res.rows /\ st' = "ok" ELSE cur' = << >> /\ st' = "failed"

MatchStage == Stage /\ \E f \in Filters : Yield(kdb__agg_match(cur, f))
GroupStage == Stage /\ \E g \in GroupBys, f \in Fields, fn \in {"count", "sum", "avg", "min", "max"} :
    Yield(kdb__agg_group(cur, g, [fn |-> fn, field |-> f]))
SortStage == Stage /\ st' = "ok" /\ \E k \in SortKeys : cur' \in kdb__agg_sort(cur, k)
LimitStage == Stage /\ st' = "ok" /\ \E m \in 1 .. 2 : cur' = kdb_result_limit(cur, m)
SkipStage == Stage /\ st' = "ok" /\ \E m \in 1 .. 2 : cur' = kdb_result_offset(cur, m)
ProjectStage == Stage /\ st' = "ok" /\ \E f, g \in Fields : cur' = kdb__agg_project(cur, <<f, g>>)
LookupStage == Stage /\ \E l, f \in Fields : Yield(kdb__agg_lookup(cur, l, f, LookupName))
UnwindStage == Stage /\ st' = "ok" /\ \E f \in Fields : cur' = kdb__agg_unwind(cur, f)
\* A $group of too many accumulators, a $lookup in a table that is not there.
RefusedStage == Stage /\ Yield(BadArg)

\* The result is handed out and the next call starts over.
Return ==
    /\ n > 0
    /\ cur' = table /\ n' = 0 /\ st' = "ok"
    /\ UNCHANGED <<table, other>>

Next == MatchStage \/ GroupStage \/ SortStage \/ LimitStage \/ SkipStage \/ ProjectStage
            \/ LookupStage \/ UnwindStage \/ RefusedStage \/ Return

Spec == Init /\ [][Next]_vars
---------------------------------------------------------------------------
\* Properties.

\* Rows are whole: an id is 0 or a stored row's; every stored field a result
\* row with that id still has is the stored one, unless a $lookup or $unwind
\* replaced it.
RowsAreStored ==
    \A i \in DOMAIN cur : cur[i].id # 0 =>
        \E r \in Range(table) : r.id = cur[i].id /\ \A k \in DOMAIN cur[i].fields :
            LET f == cur[i].fields[k]
                was == ColumnValue(r, f.name)
            IN f.value = was \/ f.name = LookupName \/ (was # NoField /\ was.t = "array" /\ f.value \in Range(was.v))

\* $group is the quotient of its input: every row counts in exactly one
\* group, two rows share a group exactly when their keys are equal, and the
\* accumulators of a group are those of its rows, whatever their order.
GroupIsQuotient ==
    \A g \in GroupBys, f \in Fields :
        LET res(fn) == kdb__agg_group(cur, g, [fn |-> fn, field |-> f])
            same(a, b) == IF Numeric(a) /\ Numeric(b) THEN a.v = b.v ELSE a.t = b.t /\ a = b
            class(i) == {j \in DOMAIN cur : \A k \in DOMAIN g : same(KeyOf(cur[i], g)[k], KeyOf(cur[j], g)[k])}
            classes == {class(i) : i \in DOMAIN cur}
            vals(c) == {kdb_record_get_field(cur[j], f) : j \in c} \ {NoField, Null}
            out(fn, i) == res(fn).rows[i].fields[Len(g) + 2].value
            counted(c, i) == res("sum").rows[i].fields[Len(g) + 1].value = IntV(Cardinality(c))
            keyed(c, i) == \A j \in c : \A k \in DOMAIN g :
                LET a == kdb_record_get_field(cur[j], g[k])
                    b == res("sum").rows[i].fields[k].value
                IN IF a = NoField THEN b = Null ELSE kdb_value_compare(a, b) = 0
            total(c) == MapThenSumSet(LAMBDA j : LET a == kdb_record_get_field(cur[j], f)
                                                 IN IF Numeric(a) THEN a.v ELSE 0, c)
            ordered(c) == \A x, y \in vals(c) : Comparable(x, y)
            right(c, i) ==
                /\ counted(c, i) /\ keyed(c, i)
                /\ out("sum", i) = FloatV(total(c))
                /\ ordered(c) /\ vals(c) # {} =>
                    /\ \A x \in vals(c) : kdb_value_compare(out("min", i), x) <= 0
                    /\ \A x \in vals(c) : kdb_value_compare(out("max", i), x) >= 0
        IN st = "ok" /\ res("sum").ok /\ g # << >> =>
            /\ Len(res("sum").rows) = Cardinality(classes)
            /\ \A c \in classes : \E i \in DOMAIN res("sum").rows : right(c, i)

\* $lookup then $unwind is the inner join of the two tables on the fields.
LookupUnwindIsJoin ==
    \A l, f \in Fields :
        LET looked == kdb__agg_lookup(cur, l, f, LookupName)
            joined == kdb__agg_unwind(looked.rows, LookupName)
            pair(i, j) == LET a == ColumnValue(cur[i], l)
                              b == ColumnValue(other[j], f)
                          IN a.t # "null" /\ a # NoField /\ b # NoField /\ kdb_value_compare(a, b) = 0
            pairs == {p \in (DOMAIN cur) \X (DOMAIN other) : pair(p[1], p[2])}
            row(i, j) == kdb_record_set_field(cur[i], LookupName, kdb__build_lookup_object(other[j]))
        IN looked.ok =>
            /\ Len(looked.rows) = Len(cur)
            /\ Len(joined) = Cardinality(pairs)
            /\ \A p \in pairs : \E k \in DOMAIN joined : joined[k] = row(p[1], p[2])

\* The pages of an ordered find, each from a call of its own, give every row
\* exactly once, as long as no two rows tie and all values compare.
PagesPartition ==
    n = 0 => \A key \in {[col |-> f, asc |-> a] : f \in Fields, a \in BOOLEAN} :
        LET page(k) == kdb_find_ex(table, << >>, [by |-> key, offset |-> k, limit |-> 1])
            untied == \A i, j \in DOMAIN table : i # j =>
                kdb__sort_cmp(table[i], table[j], key) \notin {0, INCOMPARABLE}
        IN untied => \A i \in DOMAIN table :
            {k \in 0 .. Len(table) - 1 : <<table[i]>> \in page(k)} # {} /\
            Cardinality({k \in 0 .. Len(table) - 1 : <<table[i]>> \in page(k)}) = 1

\* A filter list means what it says: the rows some group between two OR marks
\* accepts with all of its filters.  A mark on the very first filter leaves an
\* empty group in front, and that one accepts every row.
FilterListIsDisjunction ==
    n = 0 => \A fs \in Filters :
        LET q == kdb__build_query(fs)
            starts == {1} \cup {i \in DOMAIN fs : fs[i].or}
            group(i) == {j \in DOMAIN fs : i <= j /\ \A k \in starts : k <= i \/ k > j}
            one(j, r) == kdb_query_matches(kdb__build_query(<<[fs[j] EXCEPT !.or = FALSE]>>), r)
        IN q.ok => \A r \in Range(table) :
            kdb_query_matches(q, r) <=>
                fs = << >> \/ fs[1].or \/ \E i \in starts : \A j \in group(i) : one(j, r)

\* A pipeline computes relational algebra over the stored rows, whatever stages
\* ran before (kdb_aggregate and its stages).
PipelineIsRelational == RowsAreStored /\ GroupIsQuotient /\ LookupUnwindIsJoin

\* A find is exact: the filter list picks the rows it describes, and paging
\* through them in order loses and repeats none (kdb__build_query,
\* kdb_query_matches, kdb_find_ex).
FindIsExact == FilterListIsDisjunction /\ PagesPartition

\* Text search: a row is found when every (or some) word of the query stands
\* in it as a word, the row with more of them comes first, and a limit cuts
\* the end of the same list.
WordIn(term, text) ==
    \E i \in 1 .. Len(text), j \in 0 .. Len(text) :
        /\ i <= j /\ Lower(SubSeq(text, i, j)) = term
        /\ i = 1 \/ text[i - 1] \notin Alnum
        /\ j = Len(text) \/ text[j + 1] \notin Alnum
TextSearchFinds ==
    n = 0 => \A r \in Range(table), f \in Fields : kdb_record_get_field(r, f).t = "string" =>
        LET query == kdb_record_get_field(r, f).v
            terms == Range(kdb__text_tokenize(query))
            ids(res) == [i \in DOMAIN res.rows |-> res.rows[i].id]
            all == kdb_text_search(table, <<f>>, query, "all", 0)
            any == kdb_text_search(table, <<f>>, query, "any", 0)
            has(x, t) == kdb_record_get_field(x, f).t = "string" /\ WordIn(t, kdb_record_get_field(x, f).v)
            short == \A t \in terms : Len(t) < MaxTermLen - 1
        IN terms # {} /\ short =>
            /\ Range(ids(all)) = {x.id : x \in {y \in Range(table) : \A t \in terms : has(y, t)}}
            /\ Range(ids(any)) = {x.id : x \in {y \in Range(table) : \E t \in terms : has(y, t)}}
            /\ ids(kdb_text_search(table, <<f>>, query, "any", 1)) = SubSeq(ids(any), 1, 1)
            /\ \A i, j \in DOMAIN any.rows : i < j =>
                Last(any.rows[i].fields).value.v >= Last(any.rows[j].fields).value.v

\* Geo search: the limited answer holds the nearest rows, and a box holds
\* exactly the rows within its edges.
NearestFirst ==
    n = 0 => \A p, q \in {<<x, y>> : x, y \in {-2, 0, 2}} :
        LET o == [lat |-> <<"a">>, lon |-> <<"e">>, center |-> p, max |-> 0, limit |-> 1, min |-> p]
            all == kdb_geo_near(table, [o EXCEPT !.limit = 0])
            near == kdb_geo_near(table, o)
            box == kdb_geo_within_box(table, [o EXCEPT !.max = q])
            dist(r) == Last(r.fields).value.v
        IN /\ Len(all.rows) = Cardinality({i \in DOMAIN table : Located(table[i], o)})
           /\ near.rows # << >> => \A i \in DOMAIN all.rows : dist(near.rows[1]) <= dist(all.rows[i])
           /\ all.rows # << >> <=> near.rows # << >>
           /\ box.ok => Range(box.rows) = {r \in Range(table) : Located(r, o)
                /\ Lat(r, o) \in p[1] .. q[1] /\ Lon(r, o) \in p[2] .. q[2]}

\* The searches find what their definitions say, best first, and a limit only
\* cuts the tail (kdb_text_search, kdb_geo_near, kdb_geo_within_box).
SearchesAreExact == TextSearchFinds /\ NearestFirst
=============================================================================
