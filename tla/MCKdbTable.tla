----------------------------- MODULE MCKdbTable -----------------------------
(* KdbTable over the values of KdbTypes and the record sizes of KdbRecord. *)
EXTENDS KdbRecord, KdbTableLaws

F(c, a) == [x \in {c} |-> a]
Pair(a, b) == [x \in {"a", "b"} |-> IF x = "a" THEN a ELSE b]
MCColNames == <<"a", "b">>
S(c) == Str(<<c>>)

MCValues == {Null, IntV(0), IntV(1), BoolV(TRUE), BoolV(FALSE), S("0"), S("1"), S("A"), S("b"), Str(<< >>)}
MCTypes == {"null", "int", "bool", "string"}
MCMatches(a, op, b) == kdb_value_matches(a, op, b, b)
Payload == [a \in MCValues |-> Len(kdb__write_value_payload(a))]
MCSize(r) == 1 + MapThenSumSet(LAMBDA c : 1 + Payload[r[c]], DOMAIN r)
\* The bytes of the values, folded into two buckets; the tag of a number
\* shows in their count.
Bytes(a) == CASE a.t = "null" -> 255
              [] a.t = "string" -> IF a.v = << >> THEN 0 ELSE code[a.v[1]]
              [] a.t = "int" -> 7 + a.v \div 2
              [] OTHER -> a.v \div 2
MCHash(as) == MapThenSumSet(LAMBDA k : k * Bytes(as[k]), DOMAIN as) % 2

MCNewColumns == {Column("a", "int", FALSE, FALSE, TRUE), Column("b", "string", TRUE, TRUE, FALSE)}
MCInsertRows == {Pair(IntV(0), S("1")), F("a", BoolV(TRUE))}
MCBatches == {<<Pair(IntV(1), S("b")), Pair(IntV(1), Null)>>}
\* Rows and a query of one type per column, for the run on stale indexes.
TypedRows == {Pair(IntV(0), S("1")), Pair(IntV(1), S("0"))}
TypedQueries == {F("b", S("1"))}
MCPatches == {F("a", IntV(0))}
MCQueries == {F("a", IntV(1)), F("a", BoolV(TRUE)), F("b", S("1")), Pair(IntV(0), S("1")), << >>}
MCChecks == {[col |-> "a", op |-> "gte", lit |-> IntV(1)]}
MCDefaults == {IntV(1)}
MCBad == Fail
=============================================================================
