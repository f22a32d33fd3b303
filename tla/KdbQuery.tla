------------------------------ MODULE KdbQuery ------------------------------
(***************************************************************************)
(* Filters and results (query.c, kdb__build_query and kdb_find_ex of       *)
(* kumdb.c), full text search and geo search (kumdb.c).                    *)
(*                                                                         *)
(* A row is its id and its fields; a query is a sequence of AND-groups, a  *)
(* group a sequence of filters.  A filter string is split: its "OR:" mark, *)
(* its key, and its value cut at the commas (no value: no pieces).  The    *)
(* tables have no index, so that every query is a scan; what an index      *)
(* makes of a query is KdbTable's.                                         *)
(***************************************************************************)
EXTENDS KdbRecord

CONSTANTS
    MaxFilterGroups,  \* KDB_MAX_FILTER_GROUPS
    MaxFilterKeys,    \* KDB_MAX_FILTER_KEYS
    OpWords,          \* the suffixes of a filter key and the operators they name
    MaxTerms,         \* KDB_TEXT_MAX_TERMS
    MaxTermLen,       \* KDB_TEXT_MAX_TERM_LEN
    MaxLat, MaxLon,   \* 90 and 180 degrees
    kdb_geo_distance_km(_, _, _, _)

ASSUME QueryAssumption ==
    {MaxFilterGroups, MaxFilterKeys, MaxTerms, MaxTermLen, MaxLat, MaxLon} \subseteq Nat \ {0}

\* The pseudo-columns id, created_at and updated_at: the id stands for them.
IdName == <<"_">>
kdb__pseudo_column_value(r, name) == IF name = IdName THEN IntV(r.id) ELSE NoField
ColumnValue(r, name) == IF name = IdName THEN kdb__pseudo_column_value(r, name) ELSE kdb_record_get_field(r, name)

---------------------------------------------------------------------------
\* Building a query.

BadFilter == [ok |-> FALSE, col |-> << >>, op |-> "eq"]
KeyParts(col, word) ==
    IF Len(col) = 0 \/ Len(col) >= NameLen \/ word \notin DOMAIN OpWords THEN BadFilter
    ELSE [ok |-> TRUE, col |-> col, op |-> OpWords[word]]
KeyCut(key, seps) ==
    IF seps = {} THEN [ok |-> TRUE, col |-> key, op |-> "eq"]
    ELSE KeyParts(SubSeq(key, 1, Min(seps) - 1), SubSeq(key, Min(seps) + 2, Len(key)))
kdb_parse_filter_key(key) == KeyCut(key, {i \in 1 .. Len(key) - 1 : key[i] = "_" /\ key[i + 1] = "_"})

NoQuery == [ok |-> FALSE, groups |-> << >>]
kdb_query_init == [ok |-> TRUE, groups |-> << << >> >>]

\* Mutant: an OR mark starts no new group.
kdb_query_start_or_group_same(q) == q
kdb_query_start_or_group(q) ==
    IF Len(q.groups) >= MaxFilterGroups THEN NoQuery ELSE [q EXCEPT !.groups = Append(@, << >>)]

kdb_query_add_filter_value(q, col, op, b, b2) ==
    LET g == Len(q.groups) IN
    IF Len(q.groups[g]) >= MaxFilterKeys THEN NoQuery
    ELSE [q EXCEPT !.groups[g] = Append(@, [col |-> col, op |-> op, b |-> b, b2 |-> b2])]

\* The list of an IN stays a text; every other value is what it looks like as a
\* whole, commas included.  Only BETWEEN is cut, at the first comma.
Whole(vals) == FoldLeft(LAMBDA s, piece : s \o <<",">> \o piece, Head(vals), Tail(vals))
ReadFilter(vals) == LET s == Whole(vals) IN kdb_value_from_string(s, kdb_type_infer(s))
Operand(op, vals) ==
    CASE vals = << >> -> Null
      [] op = "in" /\ vals # << >> -> vals
      [] op = "between" /\ vals # << >> -> ReadFilter(<<Head(vals)>>)
      [] OTHER -> ReadFilter(vals)
Operand2(op, vals) == IF op = "between" /\ Len(vals) > 1 THEN ReadFilter(Tail(vals)) ELSE Null
AddRead(q, k, b, b2) ==
    IF ~k.ok \/ (k.op # "in" /\ b = Fail) \/ b2 = Fail THEN NoQuery ELSE kdb_query_add_filter_value(q, k.col, k.op, b, b2)
AddParsed(q, k, vals) == AddRead(q, k, Operand(k.op, vals), Operand2(k.op, vals))
kdb_query_add_filter(q, key, vals) == AddParsed(q, kdb_parse_filter_key(key), vals)

OneSided(f) == kdb_parse_filter_key(f.key).op = "between" /\ Len(f.vals) = 1
AddFilter(q, f) == IF ~q.ok \/ OneSided(f) THEN NoQuery ELSE kdb_query_add_filter(q, f.key, f.vals)
kdb__build_query(filters) ==
    FoldLeft(LAMBDA q, f : AddFilter(IF q.ok /\ f.or THEN kdb_query_start_or_group(q) ELSE q, f), kdb_query_init, filters)

\* A row without the column matches only isnull.  (Only live rows get here.)
FilterMatches(f, a) == IF a = NoField THEN f.op = "isnull" ELSE kdb_value_matches(a, f.op, f.b, f.b2)
kdb__group_matches(group, r) == \A i \in DOMAIN group : FilterMatches(group[i], ColumnValue(r, group[i].col))

kdb_query_matches(q, r) == q.groups = << >> \/ \E g \in DOMAIN q.groups : kdb__group_matches(q.groups[g], r)

kdb_query_scan(q, rows) == SelectSeq(rows, LAMBDA r : kdb_query_matches(q, r))

---------------------------------------------------------------------------
\* Results.  qsort() promises nothing about equal rows, and nothing at all
\* when the comparison is not an order: its outcome is a set.

Descending(c) == IF c = INCOMPARABLE THEN c ELSE -c   \* -INT32_MIN wraps
qsort(rows, cmp(_, _)) ==
    LET order == \A a, b, c \in Range(rows) :
                    /\ Sign(cmp(a, b)) = -Sign(cmp(b, a))
                    /\ cmp(a, b) <= 0 /\ cmp(b, c) <= 0 => cmp(a, c) <= 0
        orders == {[i \in DOMAIN rows |-> rows[p[i]]] : p \in Permutations(DOMAIN rows)}
    IN IF order THEN {s \in orders : \A i \in 1 .. Len(s) - 1 : cmp(s[i], s[i + 1]) <= 0} ELSE orders

\* A missing field is less than any value.
MissingFirst(fa, fb) ==
    IF NoField \in {fa, fb} THEN (IF fa = NoField THEN 0 ELSE 1) - (IF fb = NoField THEN 0 ELSE 1) ELSE kdb_value_compare(fa, fb)
Directed(c, asc) == IF asc THEN c ELSE Descending(c)
kdb__sort_cmp(ra, rb, key) == Directed(MissingFirst(ColumnValue(ra, key.col), ColumnValue(rb, key.col)), key.asc)

kdb_result_sort(rows, key) == qsort(rows, LAMBDA a, b : kdb__sort_cmp(a, b, key))
kdb_result_limit(rows, n) == IF Len(rows) <= n THEN rows ELSE SubSeq(rows, 1, n)
kdb_result_offset(rows, n) == SubSeq(rows, n + 1, Len(rows))

\* The results an ordered, paged find may give, no index in the way; a zero
\* limit is no limit.
Page(s, offset, limit) == IF limit > 0 THEN kdb_result_limit(kdb_result_offset(s, offset), limit) ELSE kdb_result_offset(s, offset)
FindEx(rows, q, opts) ==
    IF ~q.ok THEN {} ELSE {Page(s, opts.offset, opts.limit) : s \in kdb_result_sort(kdb_query_scan(q, rows), opts.by)}
kdb_find_ex(rows, filters, opts) == FindEx(rows, kdb__build_query(filters), opts)

---------------------------------------------------------------------------
\* Full text search: words are runs of letters and digits in lower case.

Alnum == Digits \cup {"A", "a", "b", "e", "n"}
Split(acc, c) ==
    IF c \in Alnum THEN [acc EXCEPT !.word = Append(@, c)]
    ELSE [words |-> IF acc.word = << >> THEN acc.words ELSE Append(acc.words, acc.word), word |-> << >>]
Cut(w) == Lower(IF Len(w) >= MaxTermLen THEN SubSeq(w, 1, MaxTermLen - 1) ELSE w)
CutAll(words) == [i \in DOMAIN words |-> Cut(words[i])]
WordSplit(text) == CutAll(FoldLeft(Split, [words |-> << >>, word |-> << >>], Append(text, " ")).words)

FirstTerms(words) == SubSeq(words, 1, Min({Len(words), MaxTerms}))
kdb__text_tokenize(text) == FirstTerms(WordSplit(text))
kdb__text_count_field(text, term) == Len(SelectSeq(WordSplit(text), LAMBDA w : w = term))

kdb__append_row_with_extra_float(r, name, h) == [r EXCEPT !.fields = Append(@, [name |-> name, value |-> FloatV(h)])]

\* Hits by rank, best first, ties by id; then the limit.
Ranked(hits, limit, better(_, _)) ==
    LET sorted == SortSeq(hits, LAMBDA x, y :
                    better(x.rank, y.rank) \/ (x.rank = y.rank /\ x.row.id < y.row.id))
    IN IF limit > 0 THEN kdb_result_limit(sorted, limit) ELSE sorted

BadArg == [ok |-> FALSE, rows |-> << >>]
Found(rows) == [ok |-> TRUE, rows |-> rows]

ScoreName == <<"b", "_">>   \* _score, _distance_km
FieldHits(f, term) == IF f.t = "string" THEN kdb__text_count_field(f.v, term) ELSE 0
TermHits(r, fields, term) == MapThenSumSet(LAMBDA i : FieldHits(kdb_record_get_field(r, fields[i]), term), DOMAIN fields)
Hit(r, fields, terms) == [row |-> r, hits |-> [t \in DOMAIN terms |-> TermHits(r, fields, terms[t])]]
\* Mutant: one word is enough in either mode.
Included_any(hit, mode) == Range(hit.hits) \ {0} # {}
Included(hit, mode) == IF mode = "all" THEN 0 \notin Range(hit.hits) ELSE Range(hit.hits) \ {0} # {}
Scored(hit) == [row |-> hit.row, rank |-> FoldLeft(+, 0, hit.hits)]
WithScores(ranked) == [i \in DOMAIN ranked |-> kdb__append_row_with_extra_float(ranked[i].row, ScoreName, 2 * ranked[i].rank)]
TermSearch(rows, fields, terms, mode, limit) ==
    LET found == SelectSeq([i \in DOMAIN rows |-> Hit(rows[i], fields, terms)], LAMBDA h : Included(h, mode))
    IN IF terms = << >> THEN << >> ELSE WithScores(Ranked([i \in DOMAIN found |-> Scored(found[i])], limit, >))
kdb_text_search(rows, fields, query, mode, limit) ==
    IF fields = << >> THEN BadArg ELSE Found(TermSearch(rows, fields, kdb__text_tokenize(query), mode, limit))

---------------------------------------------------------------------------
\* Geo search: two numeric fields; a row without them is left out.

kdb__agg_value_to_double(a) == Rounded(a.v)   \* of a Numeric value, it refuses the others
OnEarth(p) == -MaxLat <= p[1] /\ p[1] <= MaxLat /\ -MaxLon <= p[2] /\ p[2] <= MaxLon
Located(r, o) == Numeric(kdb_record_get_field(r, o.lat)) /\ Numeric(kdb_record_get_field(r, o.lon))
Lat(r, o) == kdb__agg_value_to_double(kdb_record_get_field(r, o.lat))
Lon(r, o) == kdb__agg_value_to_double(kdb_record_get_field(r, o.lon))

kdb_geo_near(rows, o) ==
    LET dist(r) == kdb_geo_distance_km(o.center[1], o.center[2], Lat(r, o), Lon(r, o))
        found == SelectSeq(rows, LAMBDA r : Located(r, o) /\ (o.max > 0 => dist(r) <= o.max))
        ranked == Ranked([i \in DOMAIN found |-> [row |-> found[i], rank |-> dist(found[i])]], o.limit, <)
    IN IF ~OnEarth(o.center) THEN BadArg
       ELSE Found([i \in DOMAIN ranked |->
                kdb__append_row_with_extra_float(ranked[i].row, ScoreName, ranked[i].rank)])

kdb_geo_within_box(rows, o) ==
    LET inside(r) == /\ Located(r, o)
                     /\ o.min[1] <= Lat(r, o) /\ Lat(r, o) <= o.max[1]
                     /\ o.min[2] <= Lon(r, o) /\ Lon(r, o) <= o.max[2]
    IN IF o.min[1] > o.max[1] \/ o.min[2] > o.max[2] \/ ~OnEarth(o.min) \/ ~OnEarth(o.max) THEN BadArg
       ELSE Found(SelectSeq(rows, inside))
=============================================================================
