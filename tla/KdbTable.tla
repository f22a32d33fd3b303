------------------------------ MODULE KdbTable ------------------------------
(***************************************************************************)
(* One open table: its header (columns, composite indexes, checks), its    *)
(* rows, the hash indexes in memory (index.c), the constraints of a write  *)
(* and every ALTER (table.c), and a query that may go through an index     *)
(* (kdb_query_execute).                                                    *)
(*                                                                         *)
(* A row is a function from the fields it has to values.  What a value is  *)
(* is left to the constants: Matches is kdb_value_matches, Cast is         *)
(* kdb_value_cast, Hash is kdb_index_hash_multi, Size the bytes of a row.  *)
(* The file is its header and its rows; ids, locks and crashes are         *)
(* KdbStorage's.  A call the code refuses before it changes anything is    *)
(* not a step.                                                             *)
(***************************************************************************)
EXTENDS Integers, Sequences, FiniteSets

CONSTANTS
    ColNames,          \* every column name, in the order a record lists them
    Values, Types,     \* a value is a record with a field t \in Types
    Matches(_, _, _),  \* value, operator, literal
    Cast(_, _),        \* value and type; Bad if it does not convert
    Bad,
    Hash(_),           \* of a sequence of values
    Size(_),           \* of a row
    LookupCap,         \* KDB_INDEX_BUCKETS, also the most offsets of a lookup
    ColumnCap, MaxComposites, MaxCompositeCols, MaxChecks,
    NewColumns, InsertRows, Batches, Patches, Queries, Checks, Defaults,   \* arguments of calls
    MaxRows, MaxAlters, MaxFaults                    \* bounds of the model

ElemsOf(s) == {s[i] : i \in DOMAIN s}
Names == ElemsOf(ColNames)
Rows == UNION {[D -> Values] : D \in SUBSET Names}

None == [t |-> "none"]   \* has_default = 0
Columns == [name : Names, type : Types, nullable : BOOLEAN, indexed : BOOLEAN, unique : BOOLEAN,
            default : Values \cup {None}]

ASSUME TableAssumption ==
    /\ {LookupCap, ColumnCap, MaxComposites, MaxCompositeCols, MaxChecks, MaxRows, MaxAlters, MaxFaults} \subseteq Nat
    /\ "null" \in Types
    /\ \A v \in Values : v.t \in Types
    /\ \A v \in Values, t \in Types : Cast(v, t) # Bad => Cast(v, t) \in Values /\ Cast(v, t).t = t
    /\ Bad \notin Values
    /\ Defaults \subseteq {v \in Values : v.t # "null"}
\* A literal of one value is equal to another either way round.
ASSUME MatchesAssumption == \A v, w \in Values : Matches(v, "eq", w) <=> Matches(w, "eq", v)
\* A record takes at least its status byte.
ASSUME SizeAssumption == \A r \in Rows : Size(r) \in Nat \ {0}
ASSUME ArgumentAssumption ==
    /\ ColNames \in Seq(Names)
    /\ InsertRows \subseteq Rows /\ Patches \subseteq Rows /\ Queries \subseteq Rows
    /\ Batches \subseteq Seq(Rows) /\ << >> \notin Batches
    /\ NewColumns \subseteq Columns

VARIABLES
    hdr,      \* tbl->header: cols (the array, its first n are the columns), comps, checks
    disk,     \* the header in the file
    dirty,    \* tbl->dirty
    rows,     \* the records of the file
    idx,      \* tbl->indices, each its columns and its nodes, newest first
    fp,       \* the file is open; FALSE after a rewrite that lost it
    last,     \* the last call and whether it returned KDB_OK
    faults, alters

vars == <<hdr, disk, dirty, rows, idx, fp, last, faults, alters>>

---------------------------------------------------------------------------
\* The header.

Column(c, t, nullable, indexed, unique) ==
    [name |-> c, type |-> t, nullable |-> nullable, indexed |-> indexed, unique |-> unique, default |-> None]

\* The least i \in S, 0 if there is none.
First(S) == IF S = {} THEN 0 ELSE CHOOSE i \in S : \A j \in S : i <= j
Without(s, i) == [j \in 1 .. Len(s) - 1 |-> IF j < i THEN s[j] ELSE s[j + 1]]

\* The members of S among 1 .. n in order, and the elements of s at them:
\* SelectSeq, by the places of the elements.
Ascending(S, n) ==
    LET to[k \in 0 .. n] == IF k = 0 THEN << >> ELSE IF k \in S THEN Append(to[k - 1], k) ELSE to[k - 1] IN to[n]
Select(s, S) == LET at == Ascending(S, Len(s)) IN [k \in DOMAIN at |-> s[at[k]]]

kdb_table_get_column(h, c) == First({i \in 1 .. h.n : h.cols[i].name = c})
kdb_table_has_column(h, c) == kdb_table_get_column(h, c) # 0

\* A new column takes the next slot of the array, used before or not.
WithColumn(h, col) ==
    [h EXCEPT !.cols = [i \in 1 .. (IF Len(h.cols) > h.n THEN Len(h.cols) ELSE h.n + 1) |->
                           IF i = h.n + 1 THEN col ELSE h.cols[i]],
              !.n = h.n + 1]
\* memmove closes the gap and leaves the old last slot behind.
WithoutColumn(h, i) ==
    [h EXCEPT !.cols = [j \in DOMAIN h.cols |-> IF i <= j /\ j < h.n THEN h.cols[j + 1] ELSE h.cols[j]],
              !.n = h.n - 1]

kdb_table_infer_schema(h, r) ==
    LET with[i \in 0 .. Len(ColNames)] ==
            IF i = 0 THEN h
            ELSE IF ColNames[i] \in DOMAIN r /\ ~kdb_table_has_column(with[i - 1], ColNames[i])
                 THEN WithColumn(with[i - 1], Column(ColNames[i], r[ColNames[i]].t, TRUE, FALSE, FALSE))
                 ELSE with[i - 1]
    IN with[Len(ColNames)]

---------------------------------------------------------------------------
\* Rows, their places in the file, and the indexes over them.

EqRow(q, r) == \A c \in DOMAIN q : c \in DOMAIN r /\ Matches(r[c], "eq", q[c])   \* one AND-group of equalities
IsNull(r, c) == c \notin DOMAIN r \/ r[c].t = "null"
Patched(r, p) == [c \in DOMAIN r \cup DOMAIN p |-> IF c \in DOMAIN p THEN p[c] ELSE r[c]]
Updated(rs, q, p) == [i \in DOMAIN rs |-> IF EqRow(q, rs[i]) THEN Patched(rs[i], p) ELSE rs[i]]

\* What the ALTERs that rewrite the rows make of them.
FieldDropped(rs, c) == [i \in DOMAIN rs |-> [x \in DOMAIN rs[i] \ {c} |-> rs[i][x]]]
\* Rows may have a field b already, which is no column: those of old list it
\* before c, so that a reader goes on finding it.
HavingBoth(rs, c, b) == {i \in DOMAIN rs : {b, c} \subseteq DOMAIN rs[i]}
FieldRenamed(rs, c, b, old) ==
    LET Renamed(i) == [x \in (DOMAIN rs[i] \ {c}) \cup {b} |-> IF x = b /\ i \notin old THEN rs[i][c] ELSE rs[i][x]]
    IN [i \in DOMAIN rs |-> IF c \in DOMAIN rs[i] THEN Renamed(i) ELSE rs[i]]
FieldCast(rs, c, t) == [i \in DOMAIN rs |-> IF c \in DOMAIN rs[i] THEN [rs[i] EXCEPT ![c] = Cast(@, t)] ELSE rs[i]]

Offsets(rs) ==
    LET end[i \in 0 .. Len(rs)] == IF i = 0 THEN 0 ELSE end[i - 1] + Size(rs[i])
    IN [i \in 1 .. Len(rs) + 1 |-> end[i - 1]]
\* The row that starts at an offset; elsewhere no record can be read.
kdb_storage_read_at(rs, o) == First({i \in DOMAIN rs : Offsets(rs)[i] = o})

Key(ix, r) == Hash([k \in DOMAIN ix.cols |-> r[ix.cols[k]]])
kdb_index_insert(ix, r, o) ==
    IF ElemsOf(ix.cols) \subseteq DOMAIN r THEN [ix EXCEPT !.nodes = <<[h |-> Key(ix, r), off |-> o]>> \o @] ELSE ix
kdb_index_new(cs) == [cols |-> cs, nodes |-> << >>]
Built(cs, rs) ==
    LET with[i \in 0 .. Len(rs)] ==
            IF i = 0 THEN kdb_index_new(cs) ELSE kdb_index_insert(with[i - 1], rs[i], Offsets(rs)[i])
    IN with[Len(rs)]
kdb_index_rebuild(ix, rs) == Built(ix.cols, rs)
Rebuilt(ixs, rs) == [i \in DOMAIN ixs |-> kdb_index_rebuild(ixs[i], rs)]

kdb_index_build_for_table(h) ==
    LET on == Ascending({i \in 1 .. h.n : h.cols[i].indexed}, h.n)
    IN [i \in DOMAIN on |-> kdb_index_new(<<h.cols[on[i]].name>>)]
\* By position, whatever column sits there now.
kdb_index_build_composite_for_table(h) ==
    [d \in DOMAIN h.comps |-> kdb_index_new([k \in DOMAIN h.comps[d] |-> h.cols[h.comps[d][k]].name])]

\* An index over exactly these columns, in any order.
kdb_index_find_composite(ixs, cs) ==
    First({i \in DOMAIN ixs : Len(ixs[i].cols) = Cardinality(cs) /\ cs \subseteq ElemsOf(ixs[i].cols)})

\* The nodes of one bucket, newest first; a lookup returns at most LookupCap.
Bucket(ix, q) == Select(ix.nodes, {k \in DOMAIN ix.nodes : ix.nodes[k].h = Key(ix, q)})
kdb_index_lookup_multi(ix, q) ==
    LET hit == Bucket(ix, q)
    IN SubSeq(hit, 1, IF Len(hit) < LookupCap THEN Len(hit) ELSE LookupCap)

\* The positions of the rows a query returns.  An empty bucket, or no index,
\* means a scan.
kdb_query_scan(rs, q) == Ascending({i \in DOMAIN rs : EqRow(q, rs[i])}, Len(rs))
\* Mutant: what the index found is not checked against the row.
kdb_query_execute_unchecked(rs, ixs, q) ==
    LET i == IF Cardinality(DOMAIN q) \in 1 .. MaxCompositeCols THEN kdb_index_find_composite(ixs, DOMAIN q) ELSE 0
        hit == IF i = 0 THEN << >> ELSE kdb_index_lookup_multi(ixs[i], q)
    IN IF hit = << >> THEN kdb_query_scan(rs, q)
       ELSE LET at == [k \in DOMAIN hit |-> kdb_storage_read_at(rs, hit[k].off)]
            IN Select(at, {k \in DOMAIN at : at[k] # 0})
kdb_query_execute(rs, ixs, q) ==
    LET i == IF Cardinality(DOMAIN q) \in 1 .. MaxCompositeCols THEN kdb_index_find_composite(ixs, DOMAIN q) ELSE 0
        hit == IF i = 0 THEN << >> ELSE kdb_index_lookup_multi(ixs[i], q)
        at == [k \in DOMAIN hit |-> kdb_storage_read_at(rs, hit[k].off)]
    IN IF hit = << >> THEN kdb_query_scan(rs, q)
       ELSE Select(at, {k \in DOMAIN at : at[k] # 0 /\ EqRow(q, rs[at[k]])})

---------------------------------------------------------------------------
\* Constraints.

CheckHolds(ck, r) == ~IsNull(r, ck.col) => Matches(r[ck.col], ck.op, ck.lit)

kdb_table_check_insert_constraints(h, rs, r) ==
    /\ \A i \in 1 .. h.n :
        LET c == h.cols[i] IN
        /\ ~c.nullable => ~IsNull(r, c.name)
        /\ c.unique /\ ~IsNull(r, c.name) => kdb_query_scan(rs, [x \in {c.name} |-> r[x]]) = << >>
    /\ \A k \in DOMAIN h.checks : CheckHolds(h.checks[k], r)

\* Mutant: the new value is compared with the rows as they are.
kdb_table_check_update_constraints_before(h, rs, q, p) ==
    \A i \in DOMAIN rs : EqRow(q, rs[i]) => kdb_table_check_insert_constraints(h, Without(rs, i), Patched(rs[i], p))
\* The rows as the update would leave them, each pair compared.
kdb_table_check_update_constraints(h, rs, q, p) ==
    LET after == Updated(rs, q, p) IN
    \A i \in DOMAIN rs : EqRow(q, rs[i]) =>
        /\ \A n \in 1 .. h.n :
            LET c == h.cols[n] IN
            /\ ~c.nullable => ~IsNull(after[i], c.name)
            /\ c.unique /\ ~IsNull(after[i], c.name) =>
                \A j \in DOMAIN rs \ {i} :
                    ~IsNull(after[j], c.name) => ~Matches(after[i][c.name], "eq", after[j][c.name])
        /\ \A k \in DOMAIN h.checks : CheckHolds(h.checks[k], after[i])

\* A default fills a field the record does not have; a NULL it has stays.
kdb_table_apply_defaults(h, r) ==
    LET missing == {i \in 1 .. h.n : h.cols[i].default # None /\ h.cols[i].name \notin DOMAIN r}
    IN [c \in DOMAIN r \cup {h.cols[i].name : i \in missing} |->
           IF c \in DOMAIN r THEN r[c] ELSE h.cols[kdb_table_get_column(h, c)].default]

---------------------------------------------------------------------------
\* Writes.  Returned(op, ok) ends every call.

Calls == {"create", "reopen", "insert", "insert_batch", "update", "delete", "compact", "add_column", "drop_column",
          "create_index", "drop_index", "create_composite_index", "drop_composite_index", "rename_column",
          "set_nullable", "set_unique", "alter_column_type", "add_check", "set_default", "drop_default"}
Returned(op, ok) == last' = [op |-> op, ok |-> ok]

\* A step of the call fails: one fault less.
Fault(fails) == (fails => faults < MaxFaults) /\ faults' = IF fails THEN faults + 1 ELSE faults

\* kdb_storage_rewrite: a fault before the rename leaves the file, a failing
\* rename or reopen also loses the file handle.  Three ALTERs flush the header
\* once more, which the new file has already; that may fail too.
Rewrite(out, h, rs) ==
    /\ Fault(out # "ok")
    /\ fp' = (out \in {"ok", "early", "flush"})
    /\ IF out \in {"ok", "reopen", "flush"} THEN rows' = rs /\ disk' = h ELSE UNCHANGED <<rows, disk>>
    /\ dirty' = (out = "flush" \/ (dirty /\ out # "ok"))
Outcomes == {"ok", "early", "rename", "reopen"}
AlterOutcomes == Outcomes \cup {"flush"}

\* kdb_storage_flush_header: what is written may be the header without being
\* synced, or nothing; the row of an insert still in the buffer may be lost.
Flush(f, h) ==
    /\ Fault(f # "ok")
    /\ disk' = IF f \in {"ok", "unsynced"} THEN h ELSE disk
    /\ dirty' = (f # "ok")
Flushes == {"ok", "unsynced", "unwritten"}
RowFlushes == Flushes \cup {"lost"}

\* One record of an insert: defaults, constraints, append, indexes.
AppendRecord(h, s, r) ==
    LET full == kdb_table_apply_defaults(h, r)
        o == Offsets(s.rows)[Len(s.rows) + 1]
    IN IF s.ok /\ kdb_table_check_insert_constraints(h, s.rows, full)
       THEN [rows |-> Append(s.rows, full), idx |-> [i \in DOMAIN s.idx |-> kdb_index_insert(s.idx[i], full, o)], ok |-> TRUE]
       ELSE [s EXCEPT !.ok = FALSE]

\* The first record refused ends the batch; the ones before it stay.
AppendRecords(h, s, rs) ==
    LET done[i \in 0 .. Len(rs)] == IF i = 0 THEN s ELSE AppendRecord(h, done[i - 1], rs[i]) IN done[Len(rs)]

\* The header is flushed only when no record was refused, and nobody looks at
\* how that went.
InsertAll(op, rs) ==
    LET h == IF hdr.n = 0 THEN kdb_table_infer_schema(hdr, rs[1]) ELSE hdr
        end == AppendRecords(h, [rows |-> rows, idx |-> idx, ok |-> TRUE], rs)
    IN /\ fp /\ Len(rows) + Len(rs) <= MaxRows
       /\ hdr' = h /\ idx' = end.idx
       /\ \/ /\ end.ok
             /\ \E f \in RowFlushes :
                 /\ Flush(f, h)
                 /\ rows' = IF f = "lost" THEN Without(end.rows, Len(end.rows)) ELSE end.rows
          \/ /\ ~end.ok
             /\ rows' = end.rows
             /\ dirty' = (dirty \/ hdr.n = 0 \/ end.rows # rows)
             /\ UNCHANGED <<disk, faults>>
       /\ Returned(op, end.ok)
       /\ UNCHANGED <<fp, alters>>

kdb_table_insert(r) == InsertAll("insert", <<r>>)
kdb_table_insert_batch(rs) == InsertAll("insert_batch", rs)

kdb_table_update(q, p, out) ==
    LET new == Updated(rows, q, p) IN
    /\ fp /\ kdb_table_check_update_constraints(hdr, rows, q, p)
    /\ Rewrite(out, hdr, new)
    /\ idx' = IF out = "ok" THEN Rebuilt(idx, new) ELSE idx
    /\ Returned("update", out = "ok")
    /\ UNCHANGED <<hdr, alters>>

\* Mutant: the rows move and the indexes do not.
kdb_table_delete_stale(q, out) ==
    /\ fp
    /\ Rewrite(out, hdr, Select(rows, {i \in DOMAIN rows : ~EqRow(q, rows[i])}))
    /\ Returned("delete", out = "ok")
    /\ UNCHANGED <<hdr, idx, alters>>
kdb_table_delete(q, out) ==
    LET new == Select(rows, {i \in DOMAIN rows : ~EqRow(q, rows[i])}) IN
    /\ fp
    /\ Rewrite(out, hdr, new)
    /\ idx' = IF out = "ok" THEN Rebuilt(idx, new) ELSE idx
    /\ Returned("delete", out = "ok")
    /\ UNCHANGED <<hdr, alters>>

kdb_table_compact(out) ==
    /\ fp
    /\ Rewrite(out, hdr, rows)
    /\ idx' = IF out = "ok" THEN Rebuilt(idx, rows) ELSE idx
    /\ Returned("compact", out = "ok")
    /\ UNCHANGED <<hdr, alters>>

---------------------------------------------------------------------------
\* ALTERs.  FlushHeader ends the ones that do not touch the rows.

Alter == fp /\ alters < MaxAlters /\ alters' = alters + 1

\* Mutant: the header is left to be written on close.
FlushHeader_later(op, h) ==
    /\ hdr' = h /\ dirty' = TRUE
    /\ Returned(op, TRUE)
    /\ UNCHANGED <<disk, rows, fp, faults>>
FlushHeader(op, h) ==
    /\ hdr' = h
    /\ \E f \in Flushes : Flush(f, h) /\ Returned(op, f = "ok")
    /\ UNCHANGED <<rows, fp>>

SetColumn(h, c, field, x) ==
    [h EXCEPT !.cols[kdb_table_get_column(h, c)] =
        IF field = "nullable" THEN [@ EXCEPT !.nullable = x]
        ELSE IF field = "unique" THEN [@ EXCEPT !.unique = x]
        ELSE IF field = "indexed" THEN [@ EXCEPT !.indexed = x]
        ELSE IF field = "type" THEN [@ EXCEPT !.type = x]
        ELSE IF field = "name" THEN [@ EXCEPT !.name = x]
        ELSE [@ EXCEPT !.default = x]]

NewIndex(cs) == idx' = Append(idx, kdb_index_rebuild(kdb_index_new(cs), rows))
\* The first index whose first column this is, composite or not, goes.
DroppedIndex(c) ==
    LET i == First({j \in DOMAIN idx : idx[j].cols[1] = c}) IN IF i = 0 THEN idx ELSE Without(idx, i)

kdb_table_add_column(col) ==
    LET indexed == col.indexed \/ col.unique IN
    /\ Alter /\ ~kdb_table_has_column(hdr, col.name) /\ hdr.n < ColumnCap
    /\ IF indexed THEN NewIndex(<<col.name>>) ELSE UNCHANGED idx
    /\ FlushHeader("add_column", WithColumn(hdr, [col EXCEPT !.indexed = indexed]))

\* The header and the indexes change before the rewrite is tried; the
\* composites keep the old positions.
kdb_table_drop_column(c, out) ==
    LET h == WithoutColumn([hdr EXCEPT !.checks = Select(@, {k \in DOMAIN @ : @[k].col # c})], kdb_table_get_column(hdr, c)) IN
    /\ Alter /\ kdb_table_has_column(hdr, c)
    /\ hdr' = h /\ idx' = DroppedIndex(c)
    /\ Rewrite(out, h, FieldDropped(rows, c))
    /\ Returned("drop_column", out = "ok")

kdb_table_create_index(c) ==
    /\ Alter /\ kdb_table_has_column(hdr, c) /\ ~hdr.cols[kdb_table_get_column(hdr, c)].indexed
    /\ NewIndex(<<c>>)
    /\ FlushHeader("create_index", SetColumn(hdr, c, "indexed", TRUE))

kdb_table_drop_index(c) ==
    /\ Alter /\ kdb_table_has_column(hdr, c) /\ hdr.cols[kdb_table_get_column(hdr, c)].indexed
    /\ idx' = DroppedIndex(c)
    /\ FlushHeader("drop_index", SetColumn(hdr, c, "indexed", FALSE))

kdb_table_create_composite_index(cs) ==
    /\ Alter /\ Len(cs) \in 2 .. MaxCompositeCols /\ Len(hdr.comps) < MaxComposites
    /\ \A k \in DOMAIN cs : kdb_table_has_column(hdr, cs[k])
    /\ kdb_index_find_composite(idx, ElemsOf(cs)) = 0
    /\ NewIndex(cs)
    /\ FlushHeader("create_composite_index",
                   [hdr EXCEPT !.comps = Append(@, [k \in DOMAIN cs |-> kdb_table_get_column(hdr, cs[k])])])

\* The index is found by its names, the definition by the columns' positions
\* now: it may be another one, or none.
kdb_table_drop_composite_index(cs) ==
    LET i == kdb_index_find_composite(idx, ElemsOf(cs))
        pos == {kdb_table_get_column(hdr, cs[k]) : k \in DOMAIN cs}
        d == First({e \in DOMAIN hdr.comps : Len(hdr.comps[e]) = Len(cs) /\ pos \subseteq ElemsOf(hdr.comps[e])})
    IN /\ Alter /\ i # 0
       /\ idx' = Without(idx, i)
       /\ FlushHeader("drop_composite_index", IF d = 0 THEN hdr ELSE [hdr EXCEPT !.comps = Without(@, d)])

\* The first index that starts with the column is renamed with it; the other
\* columns of a composite and the checks keep the old name.
kdb_table_rename_column(c, b, out) ==
    LET h == SetColumn(hdr, c, "name", b)
        i == First({j \in DOMAIN idx : idx[j].cols[1] = c})
    IN /\ Alter /\ kdb_table_has_column(hdr, c) /\ ~kdb_table_has_column(hdr, b)
       /\ hdr' = h
       /\ idx' = IF i = 0 THEN idx ELSE [idx EXCEPT ![i].cols[1] = b]
       /\ \E old \in SUBSET HavingBoth(rows, c, b) : Rewrite(out, h, FieldRenamed(rows, c, b, old))
       /\ Returned("rename_column", out = "ok")

kdb_table_set_nullable(c, on) ==
    /\ Alter /\ kdb_table_has_column(hdr, c)
    /\ UNCHANGED idx
    /\ FlushHeader("set_nullable", SetColumn(hdr, c, "nullable", on))

kdb_table_set_unique(c, on) ==
    LET h == SetColumn(hdr, c, "unique", on)
        new == on /\ ~hdr.cols[kdb_table_get_column(hdr, c)].indexed
    IN /\ Alter /\ kdb_table_has_column(hdr, c)
       /\ IF new THEN NewIndex(<<c>>) ELSE UNCHANGED idx
       /\ FlushHeader("set_unique", IF new THEN SetColumn(h, c, "indexed", TRUE) ELSE h)

\* Mutant: the type does not go back when a row cannot be converted.
kdb_table_alter_column_type_kept(c, t, out) ==
    /\ Alter /\ kdb_table_has_column(hdr, c) /\ hdr.cols[kdb_table_get_column(hdr, c)].type # t
    /\ out = "early" /\ \E i \in DOMAIN rows : c \in DOMAIN rows[i] /\ Cast(rows[i][c], t) = Bad
    /\ hdr' = SetColumn(hdr, c, "type", t)
    /\ Returned("alter_column_type", FALSE)
    /\ UNCHANGED <<rows, disk, dirty, fp, faults, idx>>
\* Only the indexes over the column are rebuilt.  If the rewrite fails the type
\* goes back and nothing else has changed in memory.
kdb_table_alter_column_type(c, t, out) ==
    LET new == FieldCast(rows, c, t)
        convertible == \A i \in DOMAIN rows : c \in DOMAIN rows[i] => Cast(rows[i][c], t) # Bad
        h == SetColumn(hdr, c, "type", t)
        done == convertible /\ out \in {"ok", "flush"}
    IN /\ Alter /\ kdb_table_has_column(hdr, c) /\ hdr.cols[kdb_table_get_column(hdr, c)].type # t
       /\ IF convertible THEN Rewrite(out, h, new) ELSE out = "early" /\ UNCHANGED <<rows, disk, dirty, fp, faults>>
       /\ hdr' = IF done THEN h ELSE hdr
       /\ idx' = IF done
                 THEN [i \in DOMAIN idx |-> IF c \in ElemsOf(idx[i].cols) THEN kdb_index_rebuild(idx[i], new) ELSE idx[i]]
                 ELSE idx
       /\ Returned("alter_column_type", convertible /\ out = "ok")

kdb_table_add_check(ck) ==
    /\ Alter /\ kdb_table_has_column(hdr, ck.col) /\ Len(hdr.checks) < MaxChecks
    /\ UNCHANGED idx
    /\ FlushHeader("add_check", [hdr EXCEPT !.checks = Append(@, ck)])

kdb_table_set_default(c, v) ==
    /\ Alter /\ kdb_table_has_column(hdr, c)
    /\ UNCHANGED idx
    /\ FlushHeader("set_default", SetColumn(hdr, c, "default", v))

kdb_table_drop_default(c) ==
    /\ Alter /\ kdb_table_has_column(hdr, c) /\ hdr.cols[kdb_table_get_column(hdr, c)].default # None
    /\ UNCHANGED idx
    /\ FlushHeader("drop_default", SetColumn(hdr, c, "default", None))

\* kdb_table_close and kdb_table_open: a dirty header is written while the
\* file is still open, or is not, then everything is read back and indexed anew.
kdb_table_reopen ==
    \E h \in {hdr, disk} :
        /\ \E f \in Flushes :
            /\ Fault(f # "ok")
            /\ f # "ok" => fp /\ dirty
            /\ h = IF fp /\ dirty /\ f # "unwritten" THEN hdr ELSE disk
        /\ hdr' = h /\ disk' = h /\ dirty' = FALSE /\ fp' = TRUE
        /\ idx' = IF h.n = 0 THEN << >>
                  ELSE Rebuilt(kdb_index_build_for_table(h) \o kdb_index_build_composite_for_table(h), rows)
        /\ Returned("reopen", TRUE)
        /\ UNCHANGED <<rows, alters>>

---------------------------------------------------------------------------

\* Column names differ, and the positions of a composite index are inside the
\* array, past its n columns or not.
HeaderOK(h) ==
    /\ h \in [cols : Seq(Columns), n : Nat, comps : Seq(Seq(Nat)), checks : Seq(Checks)]
    /\ h.n <= Len(h.cols)
    /\ \A i, j \in 1 .. h.n : h.cols[i].name = h.cols[j].name => i = j
    /\ \A d \in DOMAIN h.comps : \A k \in DOMAIN h.comps[d] : h.comps[d][k] \in DOMAIN h.cols
IndexOK(ix) == ix = [cols |-> ix.cols, nodes |-> ix.nodes] /\ ix.cols \in Seq(Names)
IndexesOK(ixs) == ixs \in Seq(ElemsOf(ixs)) /\ \A i \in DOMAIN ixs : IndexOK(ixs[i])

\* The type invariant, with what a header keeps through every ALTER of
\* table.c: no two columns of one name (kdb_table_add_column and
\* kdb_table_rename_column check, kdb_table_drop_column moves the rest down).
TypeOK ==
    /\ HeaderOK(hdr) /\ HeaderOK(disk)
    /\ rows \in Seq(Rows)
    /\ IndexesOK(idx)
    /\ dirty \in BOOLEAN /\ fp \in BOOLEAN
    /\ last \in [op : Calls, ok : BOOLEAN]
    /\ faults \in 0 .. MaxFaults /\ alters \in 0 .. MaxAlters

EmptyHeader == [cols |-> << >>, n |-> 0, comps |-> << >>, checks |-> << >>]

Init ==
    /\ hdr = EmptyHeader /\ disk = EmptyHeader /\ dirty = FALSE
    /\ rows = << >> /\ idx = << >> /\ fp = TRUE
    /\ last = [op |-> "create", ok |-> TRUE] /\ faults = 0 /\ alters = 0

Write ==
    \/ \E r \in InsertRows : kdb_table_insert(r)
    \/ \E rs \in Batches : kdb_table_insert_batch(rs)
    \/ \E q \in Queries, p \in Patches, out \in Outcomes : kdb_table_update(q, p, out)
    \/ \E q \in Queries, out \in Outcomes : kdb_table_delete(q, out)
    \/ \E out \in Outcomes : kdb_table_compact(out)

AlterTable ==
    \E c \in Names :
        \/ \E col \in NewColumns : col.name = c /\ kdb_table_add_column(col)
        \/ \E out \in AlterOutcomes : kdb_table_drop_column(c, out)
        \/ \E b \in Names, out \in AlterOutcomes : kdb_table_rename_column(c, b, out)
        \/ kdb_table_create_index(c)
        \/ kdb_table_drop_index(c)
        \/ \E b \in Names \ {c} : kdb_table_create_composite_index(<<c, b>>)
        \/ \E b \in Names \ {c} : kdb_table_drop_composite_index(<<c, b>>)
        \/ \E on \in BOOLEAN : kdb_table_set_nullable(c, on)
        \/ \E on \in BOOLEAN : kdb_table_set_unique(c, on)
        \/ \E t \in Types \ {"null"}, out \in AlterOutcomes : kdb_table_alter_column_type(c, t, out)
        \/ \E ck \in Checks : ck.col = c /\ kdb_table_add_check(ck)
        \/ \E v \in Defaults : kdb_table_set_default(c, v)
        \/ kdb_table_drop_default(c)

Next == Write \/ AlterTable \/ kdb_table_reopen

Spec == Init /\ [][Next]_vars
=============================================================================
