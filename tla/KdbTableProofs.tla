-------------------------- MODULE KdbTableProofs --------------------------
(***************************************************************************)
(* Proofs about KdbTable, for every set of columns, values, indexes and    *)
(* rows: the type invariant, the header on disk, the answers of an index,  *)
(* and what every write keeps.                                             *)
(***************************************************************************)
EXTENDS KdbTableLemmas

---------------------------------------------------------------------------
\* The type invariant.

\* The outcome a call returns.
LEMMA ReturnedOK ==
    ASSUME NEW op \in Calls, NEW ok, ok \in BOOLEAN, Returned(op, ok)
    PROVE  last' \in [op : Calls, ok : BOOLEAN]
  BY Zenon DEF Returned

\* A fault is counted and bounded.
LEMMA FaultBound ==
    ASSUME TypeOK, NEW fails, Fault(fails)
    PROVE  faults' \in 0 .. MaxFaults
<1>1. MaxFaults \in Nat /\ faults \in 0 .. MaxFaults
  BY TableAssumption DEF TypeOK
<1>2. CASE fails
  BY <1>1, <1>2 DEF Fault
<1>3. CASE ~fails
  BY <1>1, <1>3 DEF Fault
<1> QED
  BY <1>2, <1>3

\* What a flush leaves in the file.
LEMMA FlushFacts ==
    ASSUME TypeOK, NEW f, NEW h, HeaderOK(h), Flush(f, h)
    PROVE  HeaderOK(disk') /\ dirty' \in BOOLEAN /\ faults' \in 0 .. MaxFaults
<1>1. faults' \in 0 .. MaxFaults
  BY FaultBound DEF Flush
<1>2. HeaderOK(disk') /\ dirty' \in BOOLEAN
  BY DEF Flush, TypeOK
<1> QED
  BY <1>1, <1>2

\* kdb_storage_rewrite with a well-formed header and well-formed rows.
LEMMA RewriteKeepsTypes ==
    ASSUME TypeOK, NEW out, NEW h, HeaderOK(h), NEW rs \in Seq(Rows), Rewrite(out, h, rs),
           HeaderOK(hdr'), IndexesOK(idx'), alters' \in 0 .. MaxAlters,
           NEW op \in Calls, NEW ok, ok \in BOOLEAN, Returned(op, ok)
    PROVE  TypeOK'
<1>1. HeaderOK(disk') /\ rows' \in Seq(Rows)
  BY DEF TypeOK, Rewrite
<1>2. dirty' \in BOOLEAN /\ fp' \in BOOLEAN
  <2>1. CASE out = "ok"
    BY <2>1 DEF TypeOK, Rewrite
  <2>2. CASE out # "ok"
    BY <2>2 DEF TypeOK, Rewrite
  <2> QED BY <2>1, <2>2
<1>3. faults' \in 0 .. MaxFaults
  BY FaultBound DEF Rewrite
<1>4. last' \in [op : Calls, ok : BOOLEAN]
  BY ReturnedOK
<1> QED
  BY <1>1, <1>2, <1>3, <1>4 DEF TypeOK

\* kdb_storage_flush_header with a well-formed header.
LEMMA FlushKeepsTypes ==
    ASSUME TypeOK, Alter, NEW op \in Calls, NEW h, HeaderOK(h), FlushHeader(op, h), IndexesOK(idx')
    PROVE  TypeOK'
<1>1. alters' \in 0 .. MaxAlters
  BY TableAssumption DEF TypeOK, Alter
<1>2. PICK f \in Flushes : Flush(f, h) /\ Returned(op, f = "ok")
  BY Zenon DEF FlushHeader
<1>3. last' \in [op : Calls, ok : BOOLEAN]
  <2>1. (f = "ok") \in BOOLEAN
    OBVIOUS
  <2> QED BY <1>2, <2>1, ReturnedOK
<1>4. HeaderOK(disk') /\ dirty' \in BOOLEAN /\ faults' \in 0 .. MaxFaults
  BY <1>2, FlushFacts
<1> QED
  BY <1>1, <1>3, <1>4 DEF TypeOK, FlushHeader

\* kdb_insert_row and a batch.
LEMMA InsertKeepsTypes ==
    ASSUME TypeOK, NEW op \in Calls, NEW rs \in Seq(Rows), rs # << >>, InsertAll(op, rs)
    PROVE  TypeOK'
<1> DEFINE h == IF hdr.n = 0 THEN kdb_table_infer_schema(hdr, rs[1]) ELSE hdr
           s == [rows |-> rows, idx |-> idx, ok |-> TRUE]
           e == AppendRecords(h, s, rs)
<1>1. rs[1] \in Rows
  BY EmptySeq
<1>2. HeaderOK(h)
  BY <1>1, InferFacts DEF TypeOK
<1> HIDE DEF h
<1>3. rows \in Seq(Rows) /\ idx = [i \in DOMAIN idx |-> idx[i]] /\ (\A i \in DOMAIN idx : IndexOK(idx[i]))
      /\ DOMAIN idx = 1 .. Len(idx) /\ Len(idx) \in Nat
  BY IndexesShape DEF TypeOK
<1>4. Grown(h, s, e)
  BY <1>2, <1>3, AppendFacts
<1>5. s.rows = rows /\ s.idx = idx
  OBVIOUS
<1> HIDE DEF e, s
<1>6. Enlarged(h, rows, idx, e.rows, e.idx) /\ e.ok \in BOOLEAN
  BY <1>4, <1>5 DEF Grown
<1>7. IndexesOK(e.idx)
  BY <1>3, <1>6, IndexesByDomain DEF Enlarged
<1>8. /\ hdr' = h /\ idx' = e.idx
      /\ \/ \E f \in RowFlushes : Flush(f, h) /\ rows' = IF f = "lost" THEN Without(e.rows, Len(e.rows)) ELSE e.rows
         \/ rows' = e.rows /\ dirty' = (dirty \/ hdr.n = 0 \/ e.rows # rows) /\ UNCHANGED <<disk, faults>>
      /\ Returned(op, e.ok)
      /\ UNCHANGED <<fp, alters>>
  BY Zenon DEF InsertAll, h, s, e
<1>9. last' \in [op : Calls, ok : BOOLEAN]
  BY <1>6, <1>8, ReturnedOK
<1>10. e.rows \in Seq(Rows)
  BY <1>6 DEF Enlarged
<1>11. rows' \in Seq(Rows) /\ HeaderOK(disk') /\ dirty' \in BOOLEAN /\ faults' \in 0 .. MaxFaults
  <2>1. CASE \E f \in RowFlushes : Flush(f, h) /\ rows' = IF f = "lost" THEN Without(e.rows, Len(e.rows)) ELSE e.rows
    <3>1. PICK f \in RowFlushes : Flush(f, h) /\ rows' = IF f = "lost" THEN Without(e.rows, Len(e.rows)) ELSE e.rows
      BY <2>1
    <3>2. rows' \in Seq(Rows)
      BY <1>10, <3>1, LastLostKeepsClean
    <3> QED BY <1>2, <3>1, <3>2, FlushFacts
  <2>2. CASE rows' = e.rows /\ dirty' = (dirty \/ hdr.n = 0 \/ e.rows # rows) /\ UNCHANGED <<disk, faults>>
    BY <1>10, <2>2 DEF TypeOK
  <2> QED BY <1>8, <2>1, <2>2
<1> QED
  BY <1>2, <1>7, <1>8, <1>9, <1>11 DEF TypeOK

\* The inserts, the updates and the deletes.
LEMMA WriteKeepsTypes ==
    ASSUME TypeOK, Write
    PROVE  TypeOK'
<1>1. ASSUME NEW r \in InsertRows, kdb_table_insert(r) PROVE TypeOK'
  <2>1. <<r>> \in Seq(Rows) /\ <<r>> # << >>
    BY ArgumentAssumption
  <2>2. InsertAll("insert", <<r>>) /\ "insert" \in Calls
    BY <1>1, Zenon DEF kdb_table_insert, Calls
  <2> QED BY <2>1, <2>2, InsertKeepsTypes
<1>2. ASSUME NEW rs \in Batches, kdb_table_insert_batch(rs) PROVE TypeOK'
  <2>1. rs \in Seq(Rows) /\ rs # << >>
    BY ArgumentAssumption
  <2>2. InsertAll("insert_batch", rs) /\ "insert_batch" \in Calls
    BY <1>2, Zenon DEF kdb_table_insert_batch, Calls
  <2> QED BY <2>1, <2>2, InsertKeepsTypes
<1>3. rows \in Seq(Rows) /\ HeaderOK(hdr) /\ IndexesOK(idx) /\ alters \in 0 .. MaxAlters
  BY DEF TypeOK
<1>4. ASSUME NEW q \in Queries, NEW p \in Patches, NEW out \in Outcomes, kdb_table_update(q, p, out) PROVE TypeOK'
  <2> DEFINE new == Updated(rows, q, p)
  <2>1. new \in Seq(Rows)
    <3>1. p \in Rows /\ kdb_table_check_update_constraints(hdr, rows, q, p)
      BY <1>4, ArgumentAssumption DEF kdb_table_update
    <3> QED BY <1>3, <3>1, UpdateKeepsClean
  <2> HIDE DEF new
  <2>2. /\ Rewrite(out, hdr, new)
        /\ idx' = IF out = "ok" THEN Rebuilt(idx, new) ELSE idx
        /\ Returned("update", out = "ok")
        /\ UNCHANGED <<hdr, alters>>
    BY <1>4 DEF kdb_table_update, new
  <2>3. IndexesOK(idx') /\ HeaderOK(hdr') /\ alters' \in 0 .. MaxAlters
    BY <1>3, <2>1, <2>2, RebuiltOK
  <2>4. "update" \in Calls /\ (out = "ok") \in BOOLEAN
    BY Zenon DEF Calls
  <2> QED BY <1>3, <2>1, <2>2, <2>3, <2>4, RewriteKeepsTypes
<1>5. ASSUME NEW q \in Queries, NEW out \in Outcomes, kdb_table_delete(q, out) PROVE TypeOK'
  <2> DEFINE new == Select(rows, {i \in DOMAIN rows : ~EqRow(q, rows[i])})
  <2>1. new \in Seq(Rows)
    BY <1>3, SelectKeepsClean
  <2> HIDE DEF new
  <2>2. /\ Rewrite(out, hdr, new)
        /\ idx' = IF out = "ok" THEN Rebuilt(idx, new) ELSE idx
        /\ Returned("delete", out = "ok")
        /\ UNCHANGED <<hdr, alters>>
    BY <1>5 DEF kdb_table_delete, new
  <2>3. IndexesOK(idx') /\ HeaderOK(hdr') /\ alters' \in 0 .. MaxAlters
    BY <1>3, <2>1, <2>2, RebuiltOK
  <2>4. "delete" \in Calls /\ (out = "ok") \in BOOLEAN
    BY Zenon DEF Calls
  <2> QED BY <1>3, <2>1, <2>2, <2>3, <2>4, RewriteKeepsTypes
<1>6. ASSUME NEW out \in Outcomes, kdb_table_compact(out) PROVE TypeOK'
  <2>1. /\ Rewrite(out, hdr, rows)
        /\ idx' = IF out = "ok" THEN Rebuilt(idx, rows) ELSE idx
        /\ Returned("compact", out = "ok")
        /\ UNCHANGED <<hdr, alters>>
    BY <1>6 DEF kdb_table_compact
  <2>2. IndexesOK(idx') /\ HeaderOK(hdr') /\ alters' \in 0 .. MaxAlters
    BY <1>3, <2>1, RebuiltOK
  <2>3. "compact" \in Calls /\ (out = "ok") \in BOOLEAN
    BY Zenon DEF Calls
  <2> QED BY <1>3, <2>1, <2>2, <2>3, RewriteKeepsTypes
<1> QED
  BY <1>1, <1>2, <1>4, <1>5, <1>6 DEF Write


---------------------------------------------------------------------------
\* What the ALTERs make of rows, indexes and header is of the right type.

\* A function from positions to rows is a sequence of rows.
LEMMA RowsByDomain ==
    ASSUME NEW rs \in Seq(Rows), NEW rt, DOMAIN rt = DOMAIN rs, rt = [i \in DOMAIN rt |-> rt[i]],
           \A i \in DOMAIN rs : rt[i] \in Rows
    PROVE  rt \in Seq(Rows)
<1>1. DOMAIN rs = 1 .. Len(rs) /\ Len(rs) \in Nat
  OBVIOUS
<1>2. rt = [i \in 1 .. Len(rs) |-> rt[i]]
  BY <1>1
<1> QED
  BY <1>1, <1>2

\* The rows without a dropped column.
LEMMA FieldDroppedOK ==
    ASSUME NEW rs \in Seq(Rows), NEW c
    PROVE  FieldDropped(rs, c) \in Seq(Rows)
<1> DEFINE rt == FieldDropped(rs, c)
<1>1. DOMAIN rt = DOMAIN rs /\ rt = [i \in DOMAIN rt |-> rt[i]]
  BY DEF FieldDropped
<1>2. ASSUME NEW i \in DOMAIN rs PROVE rt[i] \in Rows
  <2>1. rs[i] \in Rows
    OBVIOUS
  <2>2. rt[i] = [x \in DOMAIN rs[i] \ {c} |-> rs[i][x]]
    BY DEF FieldDropped
  <2> HIDE DEF rt
  <2>3. DOMAIN rs[i] \subseteq Names /\ \A x \in DOMAIN rs[i] : rs[i][x] \in Values
    BY <2>1, RowFacts
  <2> QED BY <2>2, <2>3, RowFacts
<1> HIDE DEF rt
<1>3. rt \in Seq(Rows)
  BY <1>1, <1>2, RowsByDomain
<1> QED
  BY <1>3 DEF rt

\* The rows under a renamed column.
LEMMA FieldRenamedOK ==
    ASSUME NEW rs \in Seq(Rows), NEW c, NEW b \in Names, NEW old, old \subseteq HavingBoth(rs, c, b)
    PROVE  FieldRenamed(rs, c, b, old) \in Seq(Rows)
<1> DEFINE rt == FieldRenamed(rs, c, b, old)
<1>1. DOMAIN rt = DOMAIN rs /\ rt = [i \in DOMAIN rt |-> rt[i]]
  BY DEF FieldRenamed
<1>2. ASSUME NEW i \in DOMAIN rs PROVE rt[i] \in Rows
  <2>1. rs[i] \in Rows
    OBVIOUS
  <2>2. rt[i] = IF c \in DOMAIN rs[i]
                THEN [x \in (DOMAIN rs[i] \ {c}) \cup {b} |-> IF x = b /\ i \notin old THEN rs[i][c] ELSE rs[i][x]]
                ELSE rs[i]
    BY DEF FieldRenamed
  <2> HIDE DEF rt
  <2>3. DOMAIN rs[i] \subseteq Names /\ \A x \in DOMAIN rs[i] : rs[i][x] \in Values
    BY <2>1, RowFacts
  <2>4. CASE c \in DOMAIN rs[i]
    <3>1. i \in old => b \in DOMAIN rs[i]
      BY DEF HavingBoth
    <3> QED BY <2>2, <2>3, <2>4, <3>1, RowFacts
  <2> QED BY <2>1, <2>2, <2>4
<1> HIDE DEF rt
<1>3. rt \in Seq(Rows)
  BY <1>1, <1>2, RowsByDomain
<1> QED
  BY <1>3 DEF rt

\* A conversion that succeeds for every row gives rows again, each with the
\* new type in the column if it has the column.
LEMMA FieldCastFacts ==
    ASSUME NEW rs \in Seq(Rows), NEW c, NEW t \in Types,
           \A i \in DOMAIN rs : c \in DOMAIN rs[i] => Cast(rs[i][c], t) # Bad
    PROVE  /\ FieldCast(rs, c, t) \in Seq(Rows)
           /\ \A k \in DOMAIN FieldCast(rs, c, t) :
                 c \in DOMAIN FieldCast(rs, c, t)[k] => FieldCast(rs, c, t)[k][c].t = t
<1> DEFINE rt == FieldCast(rs, c, t)
<1>1. DOMAIN rt = DOMAIN rs /\ rt = [i \in DOMAIN rt |-> rt[i]]
  BY DEF FieldCast
<1>2. ASSUME NEW i \in DOMAIN rs PROVE rt[i] \in Rows /\ (c \in DOMAIN rt[i] => rt[i][c].t = t)
  <2>1. rs[i] \in Rows
    OBVIOUS
  <2>2. rt[i] = IF c \in DOMAIN rs[i] THEN [rs[i] EXCEPT ![c] = Cast(rs[i][c], t)] ELSE rs[i]
    BY DEF FieldCast
  <2> HIDE DEF rt
  <2>3. DOMAIN rs[i] \subseteq Names /\ \A x \in DOMAIN rs[i] : rs[i][x] \in Values
    BY <2>1, RowFacts
  <2>4. CASE c \in DOMAIN rs[i]
    <3> DEFINE v == Cast(rs[i][c], t)
    <3>1. v \in Values /\ v.t = t
      BY <2>3, <2>4, TableAssumption
    <3>2. rt[i] = [rs[i] EXCEPT ![c] = v]
      BY <2>2, <2>4
    <3> HIDE DEF v
    <3>3. /\ rt[i] = [x \in DOMAIN rt[i] |-> rt[i][x]] /\ DOMAIN rt[i] = DOMAIN rs[i]
          /\ rt[i][c] = v /\ \A x \in DOMAIN rs[i] : x # c => rt[i][x] = rs[i][x]
      BY <2>4, <3>2
    <3>4. rt[i] \in Rows
      BY <2>3, <3>1, <3>3, RowFacts
    <3> QED BY <3>1, <3>3, <3>4
  <2>5. CASE c \notin DOMAIN rs[i]
    BY <2>1, <2>2, <2>5
  <2> QED BY <2>4, <2>5
<1> HIDE DEF rt
<1>3. rt \in Seq(Rows)
  BY <1>1, <1>2, RowsByDomain
<1> QED
  BY <1>1, <1>2, <1>3 DEF rt

\* kdb_create_index builds one more index.
LEMMA NewIndexOK ==
    ASSUME TypeOK, NEW cs \in Seq(Names), NewIndex(cs)
    PROVE  IndexesOK(idx')
<1>1. idx' = Append(idx, Built(cs, rows))
  BY DEF NewIndex, kdb_index_rebuild, kdb_index_new
<1>2. rows \in Seq(Rows) /\ IndexesOK(idx)
  BY DEF TypeOK
<1> QED
  BY <1>1, <1>2, BuiltOK, AppendIndexOK

\* kdb_drop_index keeps the other indexes.
LEMMA DroppedIndexFacts ==
    ASSUME TypeOK, NEW c, NEW ixs, ixs = DroppedIndex(c)
    PROVE  /\ IndexesOK(ixs)
           /\ \A k \in DOMAIN ixs : \E j \in DOMAIN idx : ixs[k] = idx[j]
<1> DEFINE S == {j \in DOMAIN idx : idx[j].cols[1] = c}
           i == First(S)
<1>1. IndexesOK(idx) /\ DOMAIN idx \subseteq Nat \ {0}
  BY IndexesShape DEF TypeOK
<1>2. i # 0 => i \in DOMAIN idx
  <2>1. S \subseteq Nat \ {0} /\ S \subseteq DOMAIN idx
    BY <1>1
  <2> HIDE DEF S
  <2> QED BY <2>1, FirstFacts
<1>3. ixs = IF i = 0 THEN idx ELSE Without(idx, i)
  BY DEF DroppedIndex
<1> HIDE DEF i
<1> QED
  BY <1>1, <1>2, <1>3, WithoutIndexOK

\* Only a rename changes which columns there are.
LEMMA SetColumnKeepsNames ==
    ASSUME NEW h, HeaderOK(h), NEW c, kdb_table_has_column(h, c), NEW field, NEW x, Settable(h, field, x), field # "name"
    PROVE  \A b : kdb_table_has_column(SetColumn(h, c, field, x), b) <=> kdb_table_has_column(h, b)
<1> DEFINE i == kdb_table_get_column(h, c)
           t == SetColumn(h, c, field, x)
<1>1. h.n \in Nat /\ h.cols \in Seq(Columns) /\ DOMAIN h.cols = 1 .. Len(h.cols) /\ h.n <= Len(h.cols)
      /\ h = [cols |-> h.cols, n |-> h.n, comps |-> h.comps, checks |-> h.checks]
  BY HeaderFacts
<1>2. t = [h EXCEPT !.cols = [h.cols EXCEPT ![i] = ColumnWith(h.cols[i], field, x)]]
  BY SetColumnFacts
<1>3. i \in 1 .. h.n
  BY <1>1, GetColumnFacts
<1> HIDE DEF i, t
<1>4. t.n = h.n /\ t.cols = [h.cols EXCEPT ![i] = ColumnWith(h.cols[i], field, x)]
  BY <1>1, <1>2
<1>5. h.cols[i] \in Columns /\ i \in DOMAIN h.cols
  BY <1>1, <1>3
<1>6. ColumnWith(h.cols[i], field, x).name = h.cols[i].name
  BY <1>5 DEF ColumnWith, Columns, Settable
<1>7. \A j \in 1 .. h.n : t.cols[j].name = h.cols[j].name
  BY <1>1, <1>4, <1>5, <1>6
<1> QED
  BY <1>1, <1>4, <1>7, GetColumnFacts DEF t

---------------------------------------------------------------------------
\* Every ALTER keeps the types.

\* The bound on the schema changes.
LEMMA AlterBound ==
    ASSUME TypeOK, Alter
    PROVE  alters' \in 0 .. MaxAlters
  BY TableAssumption DEF TypeOK, Alter

\* The schema changes, one by one.
LEMMA AddColumnTypes ==
    ASSUME TypeOK, NEW col \in NewColumns, kdb_table_add_column(col)
    PROVE  TypeOK'
<1> DEFINE x == [col EXCEPT !.indexed = col.indexed \/ col.unique]
           h == WithColumn(hdr, x)
<1>1. x \in Columns /\ x.name = col.name /\ x.name \in Names
  <2>1. col \in Columns /\ (col.indexed \/ col.unique) \in BOOLEAN
    BY ArgumentAssumption
  <2> QED BY <2>1 DEF Columns
<1>2. /\ Alter /\ ~kdb_table_has_column(hdr, x.name)
      /\ NewIndex(<<x.name>>) \/ UNCHANGED idx
      /\ FlushHeader("add_column", h)
  BY <1>1 DEF kdb_table_add_column
<1> HIDE DEF x
<1>3. HeaderOK(h)
  BY <1>1, <1>2, WithColumnFacts DEF TypeOK
<1>4. IndexesOK(idx')
  <2>1. <<x.name>> \in Seq(Names)
    BY <1>1
  <2> QED BY <1>2, <2>1, NewIndexOK DEF TypeOK
<1>5. "add_column" \in Calls
  BY Zenon DEF Calls
<1> HIDE DEF h
<1> QED
  BY <1>2, <1>3, <1>4, <1>5, FlushKeepsTypes

\* kdb_table_drop_column.
LEMMA DropColumnTypes ==
    ASSUME TypeOK, NEW c, NEW out, kdb_table_drop_column(c, out)
    PROVE  TypeOK'
<1> DEFINE K == {k \in DOMAIN hdr.checks : hdr.checks[k].col # c}
           g == [hdr EXCEPT !.checks = Select(hdr.checks, K)]
           i == kdb_table_get_column(hdr, c)
           h == WithoutColumn(g, i)
<1>1. /\ Alter /\ kdb_table_has_column(hdr, c)
      /\ hdr' = h /\ idx' = DroppedIndex(c)
      /\ Rewrite(out, h, FieldDropped(rows, c))
      /\ Returned("drop_column", out = "ok")
  BY DEF kdb_table_drop_column
<1>2. HeaderOK(g) /\ g.n = hdr.n
  <2>1. /\ hdr = [cols |-> hdr.cols, n |-> hdr.n, comps |-> hdr.comps, checks |-> hdr.checks]
        /\ hdr.checks \in Seq(Checks)
    BY HeaderFacts DEF TypeOK
  <2>2. Select(hdr.checks, K) \in Seq(Checks)
    <3> HIDE DEF K
    <3> QED BY <2>1, SelectFacts
  <2> HIDE DEF K
  <2>3. /\ g = [cols |-> hdr.cols, n |-> hdr.n, comps |-> hdr.comps, checks |-> g.checks]
        /\ g.cols = hdr.cols /\ g.n = hdr.n /\ g.comps = hdr.comps /\ g.checks \in Seq(Checks)
    BY <2>1, <2>2
  <2> HIDE DEF g
  <2> QED BY <2>3 DEF TypeOK, HeaderOK
<1>3. i \in 1 .. hdr.n
  BY <1>1, HeaderFacts, GetColumnFacts DEF TypeOK
<1> HIDE DEF g, i
<1>4. HeaderOK(h)
  BY <1>2, <1>3, WithoutColumnOK
<1> HIDE DEF h
<1>5. IndexesOK(idx') /\ HeaderOK(hdr')
  BY <1>1, <1>4, DroppedIndexFacts
<1>6. FieldDropped(rows, c) \in Seq(Rows)
  BY FieldDroppedOK DEF TypeOK
<1>7. "drop_column" \in Calls /\ (out = "ok") \in BOOLEAN
  BY Zenon DEF Calls
<1>8. alters' \in 0 .. MaxAlters
  BY <1>1, AlterBound
<1> QED
  BY <1>1, <1>4, <1>5, <1>6, <1>7, <1>8, RewriteKeepsTypes

\* kdb_table_rename_column.
LEMMA RenameColumnTypes ==
    ASSUME TypeOK, NEW c \in Names, NEW b \in Names, NEW out, kdb_table_rename_column(c, b, out)
    PROVE  TypeOK'
<1> DEFINE h == SetColumn(hdr, c, "name", b)
           i == First({j \in DOMAIN idx : idx[j].cols[1] = c})
<1>1. /\ Alter /\ kdb_table_has_column(hdr, c) /\ ~kdb_table_has_column(hdr, b)
      /\ hdr' = h
      /\ idx' = IF i = 0 THEN idx ELSE [idx EXCEPT ![i].cols[1] = b]
      /\ \E old \in SUBSET HavingBoth(rows, c, b) : Rewrite(out, h, FieldRenamed(rows, c, b, old))
      /\ Returned("rename_column", out = "ok")
  BY Zenon DEF kdb_table_rename_column
<1>2. HeaderOK(h)
  <2>1. Settable(hdr, "name", b)
    BY <1>1 DEF Settable
  <2> QED BY <1>1, <2>1, SetColumnFacts DEF TypeOK
<1> HIDE DEF h, i
<1>3. IndexesOK(idx')
  <2>1. CASE i = 0
    BY <1>1, <2>1 DEF TypeOK
  <2>2. CASE i # 0
    <3>1. /\ Len(idx) \in Nat /\ DOMAIN idx = 1 .. Len(idx) /\ idx = [k \in 1 .. Len(idx) |-> idx[k]]
          /\ \A k \in 1 .. Len(idx) : IndexOK(idx[k])
      BY IndexesShape DEF TypeOK
    <3>2. idx' = [idx EXCEPT ![i] = [idx[i] EXCEPT !.cols = [idx[i].cols EXCEPT ![1] = b]]]
      BY <1>1, <2>2
    <3>3. idx' = [k \in 1 .. Len(idx) |-> idx'[k]]
      BY <3>1, <3>2
    <3>4. ASSUME NEW k \in 1 .. Len(idx) PROVE IndexOK(idx'[k])
      <4>1. CASE k # i
        BY <3>1, <3>2, <4>1
      <4>2. CASE k = i
        <5>1. idx[k] = [cols |-> idx[k].cols, nodes |-> idx[k].nodes] /\ idx[k].cols \in Seq(Names)
          BY <3>1 DEF IndexOK
        <5>2. idx'[k] = [idx[k] EXCEPT !.cols = [idx[k].cols EXCEPT ![1] = b]]
          BY <3>1, <3>2, <4>2
        <5>3. [idx[k].cols EXCEPT ![1] = b] \in Seq(Names)
          <6> DEFINE u == idx[k].cols
                     w == [u EXCEPT ![1] = b]
          <6>1. DOMAIN u = 1 .. Len(u) /\ Len(u) \in Nat /\ \A j \in DOMAIN u : u[j] \in Names
            BY <5>1
          <6> HIDE DEF u
          <6>2. DOMAIN w = 1 .. Len(u) /\ w = [j \in DOMAIN w |-> w[j]] /\ \A j \in 1 .. Len(u) : w[j] = IF j = 1 THEN b ELSE u[j]
            BY <6>1
          <6> HIDE DEF w
          <6>3. w \in Seq(Names)
            BY <6>1, <6>2
          <6> QED BY <6>3 DEF u, w
        <5>4. idx'[k] = [cols |-> [idx[k].cols EXCEPT ![1] = b], nodes |-> idx[k].nodes]
          BY <5>1, <5>2
        <5> QED BY <5>3, <5>4 DEF IndexOK
      <4> QED BY <4>1, <4>2
    <3> QED BY <3>1, <3>3, <3>4, IndexesByDomain
  <2> QED BY <2>1, <2>2
<1>4. PICK new \in Seq(Rows) : Rewrite(out, h, new)
  BY <1>1, FieldRenamedOK DEF TypeOK
<1>5. "rename_column" \in Calls /\ (out = "ok") \in BOOLEAN
  BY Zenon DEF Calls
<1>6. alters' \in 0 .. MaxAlters /\ HeaderOK(hdr')
  BY <1>1, <1>2, AlterBound
<1> QED
  BY <1>1, <1>2, <1>3, <1>4, <1>5, <1>6, RewriteKeepsTypes

\* kdb_table_alter_column_type.
LEMMA AlterTypeTypes ==
    ASSUME TypeOK, NEW c \in Names, NEW t \in Types, NEW out, kdb_table_alter_column_type(c, t, out)
    PROVE  TypeOK'
<1> DEFINE new == FieldCast(rows, c, t)
           convertible == \A i \in DOMAIN rows : c \in DOMAIN rows[i] => Cast(rows[i][c], t) # Bad
           h == SetColumn(hdr, c, "type", t)
           done == convertible /\ out \in {"ok", "flush"}
<1>1. /\ Alter /\ kdb_table_has_column(hdr, c)
      /\ IF convertible THEN Rewrite(out, h, new) ELSE out = "early" /\ UNCHANGED <<rows, disk, dirty, fp, faults>>
      /\ hdr' = IF done THEN h ELSE hdr
      /\ idx' = IF done
                THEN [i \in DOMAIN idx |-> IF c \in ElemsOf(idx[i].cols) THEN kdb_index_rebuild(idx[i], new) ELSE idx[i]]
                ELSE idx
      /\ Returned("alter_column_type", convertible /\ out = "ok")
  BY Zenon DEF kdb_table_alter_column_type
<1>2. HeaderOK(h) /\ HeaderOK(hdr)
  <2>1. Settable(hdr, "type", t)
    BY DEF Settable
  <2> QED BY <1>1, <2>1, SetColumnFacts DEF TypeOK
<1>3. convertible => new \in Seq(Rows)
  BY FieldCastFacts DEF TypeOK
<1> HIDE DEF new, convertible, h
<1>4. IndexesOK(idx')
  <2>1. CASE done
    <3>1. /\ Len(idx) \in Nat /\ DOMAIN idx = 1 .. Len(idx) /\ \A k \in 1 .. Len(idx) : IndexOK(idx[k])
      BY IndexesShape DEF TypeOK
    <3>2. idx' = [i \in 1 .. Len(idx) |-> IF c \in ElemsOf(idx[i].cols) THEN Built(idx[i].cols, new) ELSE idx[i]]
      BY <1>1, <2>1, <3>1 DEF kdb_index_rebuild
    <3>3. \A k \in 1 .. Len(idx) : idx[k].cols \in Seq(Names)
      BY <3>1 DEF IndexOK
    <3>4. \A k \in 1 .. Len(idx) : IndexOK(idx'[k])
      BY <1>3, <2>1, <3>1, <3>2, <3>3, BuiltOK
    <3>5. idx' = [k \in 1 .. Len(idx) |-> idx'[k]]
      BY <3>2
    <3> QED BY <3>1, <3>4, <3>5, IndexesByDomain
  <2>2. CASE ~done
    BY <1>1, <2>2 DEF TypeOK
  <2> QED BY <2>1, <2>2
<1>5. "alter_column_type" \in Calls /\ (convertible /\ out = "ok") \in BOOLEAN
  BY Zenon DEF Calls
<1>6. alters' \in 0 .. MaxAlters /\ HeaderOK(hdr')
  BY <1>1, <1>2, AlterBound
<1>7. CASE convertible
  BY <1>1, <1>2, <1>3, <1>4, <1>5, <1>6, <1>7, RewriteKeepsTypes
<1>8. CASE ~convertible
  <2>1. last' \in [op : Calls, ok : BOOLEAN]
    BY <1>1, <1>5, ReturnedOK
  <2> QED BY <1>1, <1>4, <1>6, <1>8, <2>1 DEF TypeOK
<1> QED
  BY <1>7, <1>8

\* The ALTERs of one field of a column.
LEMMA SetColumnTypes ==
    ASSUME TypeOK, Alter, NEW op \in Calls, NEW c, NEW field, NEW x,
           kdb_table_has_column(hdr, c), Settable(hdr, field, x), IndexesOK(idx'),
           FlushHeader(op, SetColumn(hdr, c, field, x))
    PROVE  TypeOK'
<1>1. HeaderOK(SetColumn(hdr, c, field, x))
  BY SetColumnFacts DEF TypeOK
<1> QED
  BY <1>1, FlushKeepsTypes

\* kdb_table_set_column_unique.
LEMMA SetUniqueTypes ==
    ASSUME TypeOK, NEW c \in Names, NEW on \in BOOLEAN, kdb_table_set_unique(c, on)
    PROVE  TypeOK'
<1> DEFINE h == SetColumn(hdr, c, "unique", on)
           g == SetColumn(h, c, "indexed", TRUE)
           new == on /\ ~hdr.cols[kdb_table_get_column(hdr, c)].indexed
<1>1. /\ Alter /\ kdb_table_has_column(hdr, c)
      /\ IF new THEN NewIndex(<<c>>) ELSE UNCHANGED idx
      /\ FlushHeader("set_unique", IF new THEN g ELSE h)
  BY DEF kdb_table_set_unique
<1>2. Settable(hdr, "unique", on)
  BY DEF Settable
<1>3. HeaderOK(h) /\ kdb_table_has_column(h, c)
  BY <1>1, <1>2, SetColumnFacts, SetColumnKeepsNames DEF TypeOK
<1> HIDE DEF h
<1>4. Settable(h, "indexed", TRUE)
  BY DEF Settable
<1>5. HeaderOK(g)
  BY <1>3, <1>4, SetColumnFacts
<1> HIDE DEF g, new
<1>6. IndexesOK(idx')
  <2>1. <<c>> \in Seq(Names)
    OBVIOUS
  <2> QED BY <1>1, <2>1, NewIndexOK DEF TypeOK
<1>7. "set_unique" \in Calls
  BY Zenon DEF Calls
<1> QED
  BY <1>1, <1>3, <1>5, <1>6, <1>7, FlushKeepsTypes

\* kdb_create_composite_index.
LEMMA CreateCompositeTypes ==
    ASSUME TypeOK, NEW cs \in Seq(Names), kdb_table_create_composite_index(cs)
    PROVE  TypeOK'
<1> DEFINE ps == [k \in DOMAIN cs |-> kdb_table_get_column(hdr, cs[k])]
           h == [hdr EXCEPT !.comps = Append(hdr.comps, ps)]
<1>1. /\ Alter /\ (\A k \in DOMAIN cs : kdb_table_has_column(hdr, cs[k]))
      /\ NewIndex(cs) /\ FlushHeader("create_composite_index", h)
  BY DEF kdb_table_create_composite_index
<1>2. /\ hdr = [cols |-> hdr.cols, n |-> hdr.n, comps |-> hdr.comps, checks |-> hdr.checks]
      /\ hdr.n \in Nat /\ hdr.n <= Len(hdr.cols) /\ DOMAIN hdr.cols = 1 .. Len(hdr.cols) /\ Len(hdr.cols) \in Nat
      /\ hdr.comps \in Seq(Seq(Nat))
  BY HeaderFacts DEF TypeOK
<1>3. \A k \in DOMAIN cs : ps[k] \in 1 .. hdr.n
  BY <1>1, <1>2, GetColumnFacts
<1>4. ps \in Seq(Nat) /\ \A k \in DOMAIN ps : ps[k] \in DOMAIN hdr.cols
  <2>1. DOMAIN cs = 1 .. Len(cs) /\ Len(cs) \in Nat
    OBVIOUS
  <2>2. ps = [k \in 1 .. Len(cs) |-> ps[k]]
    BY <2>1
  <2> HIDE DEF ps
  <2> QED BY <1>2, <1>3, <2>1, <2>2
<1> HIDE DEF ps
<1>5. Append(hdr.comps, ps) \in Seq(Seq(Nat))
  BY <1>2, <1>4
<1>6. ASSUME NEW d \in DOMAIN Append(hdr.comps, ps), NEW k \in DOMAIN Append(hdr.comps, ps)[d]
      PROVE  Append(hdr.comps, ps)[d][k] \in DOMAIN hdr.cols
  <2>1. CASE d \in DOMAIN hdr.comps
    <3>1. Append(hdr.comps, ps)[d] = hdr.comps[d]
      BY <1>2, <2>1
    <3> QED BY <1>6, <2>1, <3>1 DEF TypeOK, HeaderOK
  <2>2. CASE d \notin DOMAIN hdr.comps
    <3>1. Append(hdr.comps, ps)[d] = ps
      BY <1>2, <2>2
    <3> QED BY <1>4, <1>6, <3>1
  <2> QED BY <2>1, <2>2
<1>7. h = [cols |-> hdr.cols, n |-> hdr.n, comps |-> Append(hdr.comps, ps), checks |-> hdr.checks]
  <2> DEFINE w == Append(hdr.comps, ps)
  <2>1. h = [hdr EXCEPT !.comps = w]
    OBVIOUS
  <2> HIDE DEF w, h
  <2>2. h = [cols |-> hdr.cols, n |-> hdr.n, comps |-> w, checks |-> hdr.checks]
    BY <1>2, <2>1
  <2> QED BY <2>2 DEF w
<1> HIDE DEF h
<1>8. HeaderOK(h)
  <2>1. h.cols = hdr.cols /\ h.n = hdr.n /\ h.comps = Append(hdr.comps, ps) /\ h.checks = hdr.checks
    BY <1>7
  <2> QED BY <1>5, <1>6, <1>7, <2>1 DEF TypeOK, HeaderOK
<1>9. IndexesOK(idx')
  BY <1>1, NewIndexOK
<1>10. "create_composite_index" \in Calls
  BY Zenon DEF Calls
<1> QED
  BY <1>1, <1>8, <1>9, <1>10, FlushKeepsTypes

\* kdb_drop_composite_index.
LEMMA DropCompositeTypes ==
    ASSUME TypeOK, NEW cs, kdb_table_drop_composite_index(cs)
    PROVE  TypeOK'
<1> DEFINE S == {j \in DOMAIN idx : Len(idx[j].cols) = Cardinality(ElemsOf(cs)) /\ ElemsOf(cs) \subseteq ElemsOf(idx[j].cols)}
           i == First(S)
           pos == {kdb_table_get_column(hdr, cs[k]) : k \in DOMAIN cs}
           D == {e \in DOMAIN hdr.comps : Len(hdr.comps[e]) = Len(cs) /\ pos \subseteq ElemsOf(hdr.comps[e])}
           d == First(D)
           h == IF d = 0 THEN hdr ELSE [hdr EXCEPT !.comps = Without(hdr.comps, d)]
<1>1. Alter /\ i # 0 /\ idx' = Without(idx, i) /\ FlushHeader("drop_composite_index", h)
  BY DEF kdb_table_drop_composite_index, kdb_index_find_composite
<1>2. /\ hdr = [cols |-> hdr.cols, n |-> hdr.n, comps |-> hdr.comps, checks |-> hdr.checks]
      /\ hdr.comps \in Seq(Seq(Nat)) /\ DOMAIN hdr.comps \subseteq Nat \ {0}
  BY HeaderFacts DEF TypeOK
<1>3. i \in DOMAIN idx
  <2>1. S \subseteq DOMAIN idx /\ S \subseteq Nat \ {0}
    BY IndexesShape DEF TypeOK
  <2> HIDE DEF S
  <2> QED BY <1>1, <2>1, FirstFacts
<1>4. d # 0 => d \in DOMAIN hdr.comps
  <2>1. D \subseteq DOMAIN hdr.comps /\ D \subseteq Nat \ {0}
    BY <1>2
  <2> HIDE DEF D
  <2> QED BY <2>1, FirstFacts
<1> HIDE DEF i, d
<1>5. HeaderOK(h)
  <2>1. CASE d = 0
    BY <2>1 DEF TypeOK
  <2>2. CASE d # 0
    <3> DEFINE w == Without(hdr.comps, d)
    <3>1. w \in Seq(Seq(Nat)) /\ \A k \in DOMAIN w : \E j \in DOMAIN hdr.comps : w[k] = hdr.comps[j]
      BY <1>2, <1>4, <2>2, WithoutFacts
    <3> HIDE DEF w
    <3>2. h = [cols |-> hdr.cols, n |-> hdr.n, comps |-> w, checks |-> hdr.checks]
      BY <1>2, <2>2 DEF w
    <3> HIDE DEF h
    <3>3. h.cols = hdr.cols /\ h.n = hdr.n /\ h.comps = w /\ h.checks = hdr.checks
      BY <3>2
    <3>4. \A k \in DOMAIN w : \A j \in DOMAIN w[k] : w[k][j] \in DOMAIN hdr.cols
      BY <3>1, Zenon DEF TypeOK, HeaderOK
    <3>5. h \in [cols : Seq(Columns), n : Nat, comps : Seq(Seq(Nat)), checks : Seq(Checks)]
      BY <3>1, <3>2, HeaderFacts DEF TypeOK
    <3> QED BY <3>3, <3>4, <3>5, HeaderFacts DEF TypeOK, HeaderOK
  <2> QED BY <2>1, <2>2
<1> HIDE DEF h
<1>6. IndexesOK(idx')
  BY <1>1, <1>3, WithoutIndexOK DEF TypeOK
<1>7. "drop_composite_index" \in Calls
  BY Zenon DEF Calls
<1> QED
  BY <1>1, <1>5, <1>6, <1>7, FlushKeepsTypes

\* Every schema change.
LEMMA AlterKeepsTypes ==
    ASSUME TypeOK, AlterTable
    PROVE  TypeOK'
<1>1. PICK c \in Names :
        \/ \E col \in NewColumns : col.name = c /\ kdb_table_add_column(col)
        \/ \E out \in AlterOutcomes : kdb_table_drop_column(c, out)
        \/ \E b \in Names, out \in AlterOutcomes : kdb_table_rename_column(c, b, out)
        \/ kdb_table_create_index(c)
        \/ kdb_table_drop_index(c)
        \/ \E b \in Names \ {c} : kdb_table_create_composite_index(<<c, b>>)
        \/ \E b \in Names \ {c} : kdb_table_drop_composite_index(<<c, b>>)
        \/ \E on \in BOOLEAN : kdb_table_set_nullable(c, on)
        \/ \E on \in BOOLEAN : kdb_table_set_unique(c, on)
        \/ \E t \in Types \ {"null"}, out \in AlterOutcomes : kdb_table_alter_column_type(c, t, out)
        \/ \E ck \in Checks : ck.col = c /\ kdb_table_add_check(ck)
        \/ \E v \in Defaults : kdb_table_set_default(c, v)
        \/ kdb_table_drop_default(c)
  BY Zenon DEF AlterTable
<1>2. CASE \E col \in NewColumns : col.name = c /\ kdb_table_add_column(col)
  BY <1>2, AddColumnTypes, Zenon
<1>3. CASE \E out \in AlterOutcomes : kdb_table_drop_column(c, out)
  BY <1>3, DropColumnTypes, Zenon
<1>4. CASE \E b \in Names, out \in AlterOutcomes : kdb_table_rename_column(c, b, out)
  BY <1>4, RenameColumnTypes, Zenon
<1>5. CASE kdb_table_create_index(c)
  <2>1. /\ Alter /\ kdb_table_has_column(hdr, c) /\ NewIndex(<<c>>)
        /\ FlushHeader("create_index", SetColumn(hdr, c, "indexed", TRUE))
    BY <1>5, Zenon DEF kdb_table_create_index
  <2>2. <<c>> \in Seq(Names) /\ Settable(hdr, "indexed", TRUE)
    BY DEF Settable
  <2>3. IndexesOK(idx') /\ "create_index" \in Calls
    BY <2>1, <2>2, NewIndexOK, Zenon DEF Calls
  <2> QED BY <2>1, <2>2, <2>3, SetColumnTypes
<1>6. CASE kdb_table_drop_index(c)
  <2>1. /\ Alter /\ kdb_table_has_column(hdr, c) /\ idx' = DroppedIndex(c)
        /\ FlushHeader("drop_index", SetColumn(hdr, c, "indexed", FALSE))
    BY <1>6, Zenon DEF kdb_table_drop_index
  <2>2. Settable(hdr, "indexed", FALSE)
    BY DEF Settable
  <2>3. IndexesOK(idx')
    BY <2>1, DroppedIndexFacts
  <2>4. "drop_index" \in Calls
    BY Zenon DEF Calls
  <2> QED BY <2>1, <2>2, <2>3, <2>4, SetColumnTypes
<1>7. CASE \E b \in Names \ {c} : kdb_table_create_composite_index(<<c, b>>)
  <2>1. \A b \in Names : <<c, b>> \in Seq(Names)
    OBVIOUS
  <2> QED BY <1>7, <2>1, CreateCompositeTypes
<1>8. CASE \E b \in Names \ {c} : kdb_table_drop_composite_index(<<c, b>>)
  BY <1>8, DropCompositeTypes, Zenon
<1>9. CASE \E on \in BOOLEAN : kdb_table_set_nullable(c, on)
  <2>1. PICK on \in BOOLEAN : kdb_table_set_nullable(c, on)
    BY <1>9
  <2>2. /\ Alter /\ kdb_table_has_column(hdr, c) /\ UNCHANGED idx
        /\ FlushHeader("set_nullable", SetColumn(hdr, c, "nullable", on))
    BY <2>1, Zenon DEF kdb_table_set_nullable
  <2>3. Settable(hdr, "nullable", on) /\ IndexesOK(idx')
    BY <2>2 DEF Settable, TypeOK
  <2>4. "set_nullable" \in Calls
    BY Zenon DEF Calls
  <2> QED BY <2>2, <2>3, <2>4, SetColumnTypes, Zenon
<1>10. CASE \E on \in BOOLEAN : kdb_table_set_unique(c, on)
  BY <1>10, SetUniqueTypes, Zenon
<1>11. CASE \E t \in Types \ {"null"}, out \in AlterOutcomes : kdb_table_alter_column_type(c, t, out)
  <2>1. PICK t \in Types, out \in AlterOutcomes : kdb_table_alter_column_type(c, t, out)
    BY <1>11
  <2> QED BY <2>1, AlterTypeTypes, Zenon
<1>12. CASE \E ck \in Checks : ck.col = c /\ kdb_table_add_check(ck)
  <2>1. PICK ck \in Checks : kdb_table_add_check(ck)
    BY <1>12
  <2> DEFINE h == [hdr EXCEPT !.checks = Append(hdr.checks, ck)]
             w == Append(hdr.checks, ck)
  <2>2. Alter /\ UNCHANGED idx /\ FlushHeader("add_check", h)
    BY <2>1, Zenon DEF kdb_table_add_check
  <2>3. HeaderOK(h)
    <3>1. /\ hdr = [cols |-> hdr.cols, n |-> hdr.n, comps |-> hdr.comps, checks |-> hdr.checks]
          /\ hdr.checks \in Seq(Checks)
      BY HeaderFacts DEF TypeOK
    <3>2. w \in Seq(Checks)
      BY <3>1
    <3>3. h = [hdr EXCEPT !.checks = w]
      OBVIOUS
    <3> HIDE DEF w, h
    <3>4. /\ h = [cols |-> hdr.cols, n |-> hdr.n, comps |-> hdr.comps, checks |-> w]
          /\ h.cols = hdr.cols /\ h.n = hdr.n /\ h.comps = hdr.comps
      BY <3>1, <3>3
    <3> QED BY <3>2, <3>4 DEF TypeOK, HeaderOK
  <2>4. "add_check" \in Calls /\ IndexesOK(idx')
    BY <2>2, Zenon DEF Calls, TypeOK
  <2> HIDE DEF h
  <2> QED BY <2>2, <2>3, <2>4, FlushKeepsTypes
<1>13. CASE \E v \in Defaults : kdb_table_set_default(c, v)
  <2>1. PICK v \in Defaults : kdb_table_set_default(c, v)
    BY <1>13
  <2>2. /\ Alter /\ kdb_table_has_column(hdr, c) /\ UNCHANGED idx
        /\ FlushHeader("set_default", SetColumn(hdr, c, "default", v))
    BY <2>1, Zenon DEF kdb_table_set_default
  <2>3. Settable(hdr, "default", v) /\ IndexesOK(idx')
    BY <2>2, TableAssumption DEF Settable, TypeOK
  <2>4. "set_default" \in Calls
    BY Zenon DEF Calls
  <2> QED BY <2>2, <2>3, <2>4, SetColumnTypes, Zenon
<1>14. CASE kdb_table_drop_default(c)
  <2>1. /\ Alter /\ kdb_table_has_column(hdr, c) /\ UNCHANGED idx
        /\ FlushHeader("drop_default", SetColumn(hdr, c, "default", None))
    BY <1>14, Zenon DEF kdb_table_drop_default
  <2>2. Settable(hdr, "default", None) /\ IndexesOK(idx')
    BY <2>1 DEF Settable, TypeOK
  <2>3. "drop_default" \in Calls
    BY Zenon DEF Calls
  <2> QED BY <2>1, <2>2, <2>3, SetColumnTypes, Zenon
<1> QED
  BY <1>1, <1>2, <1>3, <1>4, <1>5, <1>6, <1>7, <1>8, <1>9, <1>10, <1>11, <1>12, <1>13, <1>14

\* The indexes a reopened table starts from: one for each indexed column, one
\* for each composite.
LEMMA NewIndexesOK ==
    ASSUME NEW h, HeaderOK(h)
    PROVE  IndexesOK(kdb_index_build_for_table(h) \o kdb_index_build_composite_for_table(h))
<1>1. /\ h.n \in Nat /\ h.n <= Len(h.cols) /\ DOMAIN h.cols = 1 .. Len(h.cols) /\ Len(h.cols) \in Nat
      /\ \A i \in 1 .. Len(h.cols) : h.cols[i].name \in Names
  BY HeaderFacts DEF Columns
<1>2. \A cs \in Seq(Names) : IndexOK(kdb_index_new(cs))
  BY DEF IndexOK, kdb_index_new
<1>3. IndexesOK(kdb_index_build_for_table(h))
  <2> DEFINE S == {i \in 1 .. h.n : h.cols[i].indexed}
             on == Ascending(S, h.n)
             s == kdb_index_build_for_table(h)
  <2>1. on \in Seq(1 .. h.n)
    <3> HIDE DEF S
    <3> QED BY <1>1, AscendingFacts
  <2>2. s = [i \in DOMAIN on |-> kdb_index_new(<<h.cols[on[i]].name>>)]
    BY DEF kdb_index_build_for_table
  <2> HIDE DEF on, s
  <2>3. DOMAIN on = 1 .. Len(on) /\ Len(on) \in Nat
    BY <2>1
  <2>4. ASSUME NEW i \in 1 .. Len(on) PROVE IndexOK(s[i])
    <3>1. h.cols[on[i]].name \in Names
      BY <1>1, <2>1, <2>3
    <3>2. <<h.cols[on[i]].name>> \in Seq(Names)
      BY <3>1
    <3> QED BY <1>2, <2>2, <2>3, <3>2
  <2>5. s = [i \in 1 .. Len(on) |-> s[i]]
    BY <2>2, <2>3
  <2>6. IndexesOK(s)
    BY <2>3, <2>4, <2>5, IndexesByDomain
  <2> QED BY <2>6 DEF s
<1>4. IndexesOK(kdb_index_build_composite_for_table(h))
  <2> DEFINE s == kdb_index_build_composite_for_table(h)
             m == Len(h.comps)
             cs(d) == [k \in DOMAIN h.comps[d] |-> h.cols[h.comps[d][k]].name]
  <2>1. s = [d \in DOMAIN h.comps |-> kdb_index_new(cs(d))]
    BY DEF kdb_index_build_composite_for_table
  <2>2. m \in Nat /\ DOMAIN h.comps = 1 .. m /\ \A d \in 1 .. m : h.comps[d] \in Seq(Nat)
    BY HeaderFacts
  <2>3. ASSUME NEW d \in 1 .. m PROVE cs(d) \in Seq(Names)
    <3>1. DOMAIN h.comps[d] = 1 .. Len(h.comps[d]) /\ Len(h.comps[d]) \in Nat
      BY <2>2
    <3>2. \A k \in DOMAIN h.comps[d] : h.comps[d][k] \in DOMAIN h.cols
      BY <2>2 DEF HeaderOK
    <3>3. \A k \in DOMAIN h.comps[d] : h.cols[h.comps[d][k]].name \in Names
      BY <1>1, <3>2
    <3> QED BY <3>1, <3>3
  <2> HIDE DEF s, cs, m
  <2>4. \A d \in 1 .. m : IndexOK(s[d])
    BY <1>2, <2>1, <2>2, <2>3
  <2>5. s = [d \in 1 .. m |-> s[d]]
    BY <2>1, <2>2
  <2>6. IndexesOK(s)
    BY <2>2, <2>4, <2>5, IndexesByDomain
  <2> QED BY <2>6 DEF s
<1> QED
  BY <1>3, <1>4, ConcatIndexesOK

\* Opening the table again reads the header back from the file.
LEMMA ReopenKeepsTypes ==
    ASSUME TypeOK, kdb_table_reopen
    PROVE  TypeOK'
<1>1. PICK h \in {hdr, disk} :
        /\ \E f \in Flushes : Fault(f # "ok")
        /\ hdr' = h /\ disk' = h /\ dirty' = FALSE /\ fp' = TRUE
        /\ idx' = IF h.n = 0 THEN << >>
                  ELSE Rebuilt(kdb_index_build_for_table(h) \o kdb_index_build_composite_for_table(h), rows)
        /\ Returned("reopen", TRUE)
        /\ UNCHANGED <<rows, alters>>
  BY Zenon DEF kdb_table_reopen
<1>2. HeaderOK(h) /\ faults' \in 0 .. MaxFaults
  BY <1>1, FaultBound DEF TypeOK
<1> DEFINE ixs == kdb_index_build_for_table(h) \o kdb_index_build_composite_for_table(h)
<1>3. IndexesOK(ixs) /\ idx' = IF h.n = 0 THEN << >> ELSE Rebuilt(ixs, rows)
  BY <1>1, <1>2, NewIndexesOK
<1> HIDE DEF ixs
<1>4. IndexesOK(<< >>)
  BY DEF IndexesOK, ElemsOf
<1>5. IndexesOK(idx')
  BY <1>1, <1>3, <1>4, RebuiltOK DEF TypeOK
<1>6. "reopen" \in Calls
  BY Zenon DEF Calls
<1>7. last' \in [op : Calls, ok : BOOLEAN]
  BY <1>1, <1>6, ReturnedOK
<1> QED
  BY <1>1, <1>2, <1>5, <1>7 DEF TypeOK

\* A table that is created, written, altered and reopened, with a fault at any
\* of its rewrites, keeps a header the code can index into: no column twice,
\* no composite beyond the array of columns, memory and file alike.
THEOREM TypeCorrect == Spec => []TypeOK
<1>1. Init => TypeOK
  <2>1. ASSUME Init PROVE TypeOK
    <3>1. HeaderOK(EmptyHeader)
      BY DEF HeaderOK, EmptyHeader
    <3>2. IndexesOK(<< >>)
      BY DEF IndexesOK, ElemsOf
    <3>3. last \in [op : Calls, ok : BOOLEAN]
      BY <2>1, Zenon DEF Init, Calls
    <3>4. faults \in 0 .. MaxFaults /\ alters \in 0 .. MaxAlters
      BY <2>1, TableAssumption DEF Init
    <3>5. rows \in Seq(Rows) /\ dirty \in BOOLEAN /\ fp \in BOOLEAN
      <4>1. rows = << >> /\ dirty = FALSE /\ fp = TRUE
        BY <2>1, Zenon DEF Init
      <4>2. << >> \in Seq(Rows)
        BY EmptySeq
      <4> QED BY <4>1, <4>2, Zenon
    <3>6. HeaderOK(hdr) /\ HeaderOK(disk) /\ IndexesOK(idx)
      BY <2>1, <3>1, <3>2, Zenon DEF Init
    <3> QED BY <3>3, <3>4, <3>5, <3>6, Zenon DEF TypeOK
  <2> QED BY <2>1
<1>2. TypeOK /\ [Next]_vars => TypeOK'
  <2>1. ASSUME TypeOK, Next PROVE TypeOK'
    BY <2>1, WriteKeepsTypes, AlterKeepsTypes, ReopenKeepsTypes, Zenon DEF Next
  <2>2. ASSUME TypeOK, UNCHANGED vars PROVE TypeOK'
    BY <2>2, Zenon DEF TypeOK, HeaderOK, IndexesOK, IndexOK, vars
  <2> QED BY <2>1, <2>2
<1> QED
  BY <1>1, <1>2, PTL DEF Spec

\* Whatever call returned KDB_OK, kdb_table_reopen reads back the header the
\* caller was told of: an ALTER flushes or rewrites it, a write that inferred
\* the columns flushes it (the property needs no invariant).
THEOREM HeaderDurable == Spec => []AckedSchemaOnDisk
<1>1. Init => AckedSchemaOnDisk
  BY DEF Init, AckedSchemaOnDisk
<1>2. AckedSchemaOnDisk /\ [Next]_vars => AckedSchemaOnDisk'
  <2> SUFFICES ASSUME AckedSchemaOnDisk, [Next]_vars PROVE AckedSchemaOnDisk'
    OBVIOUS
  <2>1. ASSUME NEW op, NEW h, FlushHeader(op, h) PROVE AckedSchemaOnDisk'
    <3>1. PICK f \in Flushes : Flush(f, h) /\ last' = [op |-> op, ok |-> f = "ok"] /\ hdr' = h
      BY <2>1, Zenon DEF FlushHeader, Returned
    <3>2. last'.ok => disk' = h
      BY <3>1 DEF Flush
    <3> QED BY <3>1, <3>2 DEF AckedSchemaOnDisk
  <2>2. ASSUME NEW op, NEW out, NEW h, NEW rs, Rewrite(out, h, rs), hdr' = h, Returned(op, out = "ok")
        PROVE  AckedSchemaOnDisk'
    BY <2>2 DEF Rewrite, Returned, AckedSchemaOnDisk
  <2>3. ASSUME NEW op \in {"insert", "insert_batch"}, NEW rs, InsertAll(op, rs) PROVE AckedSchemaOnDisk'
    <3> DEFINE h == IF hdr.n = 0 THEN kdb_table_infer_schema(hdr, rs[1]) ELSE hdr
               e == AppendRecords(h, [rows |-> rows, idx |-> idx, ok |-> TRUE], rs)
    <3>1. /\ hdr' = h /\ last' = [op |-> op, ok |-> e.ok]
          /\ e.ok => \E f \in RowFlushes : Flush(f, h)
      BY <2>3, Zenon DEF InsertAll, Returned
    <3> HIDE DEF h, e
    <3>2. last'.ok => disk' = hdr' \/ dirty'
      BY <3>1 DEF Flush
    <3>3. last'.op \in {"insert", "insert_batch"}
      BY <3>1
    <3> QED BY <3>2, <3>3 DEF AckedSchemaOnDisk
  <2>4. CASE Write
    <3>1. CASE \/ \E r \in InsertRows : kdb_table_insert(r)
               \/ \E rs \in Batches : kdb_table_insert_batch(rs)
      <4>1. {"insert", "insert_batch"} = {"insert"} \cup {"insert_batch"}
        OBVIOUS
      <4> QED BY <2>3, <3>1, <4>1, Zenon DEF kdb_table_insert, kdb_table_insert_batch
    <3>2. CASE \/ \E q \in Queries, p \in Patches, out \in Outcomes : kdb_table_update(q, p, out)
               \/ \E q \in Queries, out \in Outcomes : kdb_table_delete(q, out)
               \/ \E out \in Outcomes : kdb_table_compact(out)
      BY <2>2, <3>2, Zenon DEF kdb_table_update, kdb_table_delete, kdb_table_compact
    <3> QED BY <2>4, <3>1, <3>2, Zenon DEF Write
  <2>5. CASE AlterTable
    <3>1. ASSUME NEW c, NEW t, NEW out, kdb_table_alter_column_type(c, t, out) PROVE AckedSchemaOnDisk'
      <4> DEFINE new == FieldCast(rows, c, t)
                 convertible == \A i \in DOMAIN rows : c \in DOMAIN rows[i] => Cast(rows[i][c], t) # Bad
                 h == SetColumn(hdr, c, "type", t)
      <4>1. /\ IF convertible THEN Rewrite(out, h, new) ELSE out = "early" /\ UNCHANGED <<rows, disk, dirty, fp, faults>>
            /\ convertible /\ out = "ok" => hdr' = h
            /\ Returned("alter_column_type", convertible /\ out = "ok")
        BY <3>1, Zenon DEF kdb_table_alter_column_type
      <4> HIDE DEF new, convertible, h
      <4> QED BY <4>1 DEF Rewrite, Returned, AckedSchemaOnDisk
    <3>2. ASSUME NEW c, NEW out, kdb_table_drop_column(c, out) PROVE AckedSchemaOnDisk'
      BY <2>2, <3>2, Zenon DEF kdb_table_drop_column
    <3>3. ASSUME NEW c, NEW b, NEW out, kdb_table_rename_column(c, b, out) PROVE AckedSchemaOnDisk'
      BY <2>2, <3>3, Zenon DEF kdb_table_rename_column
    <3> QED BY <2>1, <2>5, <3>1, <3>2, <3>3, Zenon
          DEF AlterTable, kdb_table_add_column, kdb_table_create_index, kdb_table_drop_index,
              kdb_table_create_composite_index, kdb_table_drop_composite_index, kdb_table_set_nullable,
              kdb_table_set_unique, kdb_table_add_check, kdb_table_set_default, kdb_table_drop_default
  <2>6. CASE kdb_table_reopen
    <3>1. disk' = hdr'
      BY <2>6 DEF kdb_table_reopen
    <3> QED BY <3>1 DEF AckedSchemaOnDisk
  <2>7. CASE UNCHANGED vars
    BY <2>7 DEF vars, AckedSchemaOnDisk
  <2> QED BY <2>4, <2>5, <2>6, <2>7 DEF Next
<1> QED
  BY <1>1, <1>2, PTL DEF Spec

---------------------------------------------------------------------------
\* What the writes promise.

\* A first insert infers columns that ask for nothing, so the rows break
\* under the inferred header what they broke before.
LEMMA InferredAsksNothing ==
    ASSUME NEW h, HeaderOK(h), h.n = 0, NEW r \in Rows, NEW t, t = kdb_table_infer_schema(h, r), NEW rs
    PROVE  Breaking(t, rs) = Breaking(h, rs) /\ (Clean(h, rs) => Clean(t, rs))
<1>1. t.checks = h.checks /\ \A i \in 1 .. t.n : t.cols[i].nullable /\ ~t.cols[i].unique
  BY InferFacts
<1>2. \A i \in 1 .. h.n : FALSE
  OBVIOUS
<1>3. Breaking(t, rs) = Breaking(h, rs)
  BY <1>1, <1>2 DEF Breaking, RowBreaks
<1>4. \A x, y : ~PairBreaks(t, x, y)
  BY <1>1 DEF PairBreaks
<1> QED
  BY <1>3, <1>4 DEF Clean

\* What an insert does to the rows, their constraints and the indexes.
LEMMA InsertEffect ==
    ASSUME TypeOK, NEW op, NEW rs \in Seq(Rows), rs # << >>, InsertAll(op, rs)
    PROVE  /\ ~(last'.ok /\ dirty') => Enlarged(hdr', rows, idx, rows', idx')
           /\ Clean(hdr, rows) => Clean(hdr', rows')
           /\ Breaking(hdr', rows') \subseteq Breaking(hdr, rows)
           /\ Len(rs) = 1 /\ ~last'.ok => rows' = rows
           /\ last'.op = op
<1> DEFINE h == IF hdr.n = 0 THEN kdb_table_infer_schema(hdr, rs[1]) ELSE hdr
           s == [rows |-> rows, idx |-> idx, ok |-> TRUE]
           e == AppendRecords(h, s, rs)
<1>1. rs[1] \in Rows
  BY EmptySeq
<1>2. HeaderOK(h)
  BY <1>1, InferFacts DEF TypeOK
<1>3. Breaking(h, rows) = Breaking(hdr, rows) /\ (Clean(hdr, rows) => Clean(h, rows))
  BY <1>1, InferredAsksNothing DEF TypeOK
<1> HIDE DEF h
<1>4. rows \in Seq(Rows) /\ idx = [i \in DOMAIN idx |-> idx[i]] /\ (\A i \in DOMAIN idx : IndexOK(idx[i]))
  BY IndexesShape DEF TypeOK
<1>5. Grown(h, s, e) /\ (Len(rs) = 1 /\ ~e.ok => e.rows = rows)
  BY <1>2, <1>4, AppendFacts
<1>6. s.rows = rows /\ s.idx = idx
  OBVIOUS
<1> HIDE DEF e, s
<1>7. Enlarged(h, rows, idx, e.rows, e.idx)
  BY <1>5, <1>6 DEF Grown
<1>8. /\ hdr' = h /\ idx' = e.idx
      /\ \/ /\ e.ok
            /\ \E f \in RowFlushes : Flush(f, h) /\ rows' = IF f = "lost" THEN Without(e.rows, Len(e.rows)) ELSE e.rows
         \/ ~e.ok /\ rows' = e.rows
      /\ last' = [op |-> op, ok |-> e.ok]
  BY Zenon DEF InsertAll, Returned, h, s, e
<1>9. last'.op = op /\ last'.ok = e.ok
  BY <1>8
<1>10. e.rows \in Seq(Rows) /\ (Clean(h, rows) => Clean(h, e.rows)) /\ Breaking(h, e.rows) \subseteq Breaking(h, rows)
  BY <1>7 DEF Enlarged
<1>11. CASE rows' = e.rows
  BY <1>3, <1>5, <1>7, <1>8, <1>9, <1>10, <1>11
<1>12. CASE rows' # e.rows
  <2>1. e.ok /\ dirty' /\ rows' = Without(e.rows, Len(e.rows))
    BY <1>8, <1>12 DEF Flush
  <2>2. (Clean(h, e.rows) => Clean(h, rows')) /\ Breaking(h, rows') \subseteq Breaking(h, e.rows)
    BY <1>10, <2>1, LastLostKeepsClean
  <2> QED BY <1>3, <1>8, <1>9, <1>10, <2>1, <2>2
<1> QED
  BY <1>11, <1>12

\* Which writes a step is, by the name of the call.
LEMMA WriteCases ==
    ASSUME TypeOK, Write
    PROVE  \/ \E op \in {"insert", "insert_batch"}, rs \in Seq(Rows) :
                 rs # << >> /\ InsertAll(op, rs) /\ (op = "insert" => Len(rs) = 1)
           \/ \E op \in {"update", "delete", "compact"}, out \in Outcomes, new \in Seq(Rows) :
                 /\ Rewrite(out, hdr, new)
                 /\ idx' = IF out = "ok" THEN Rebuilt(idx, new) ELSE idx
                 /\ Returned(op, out = "ok") /\ UNCHANGED hdr
                 /\ Clean(hdr, rows) => Clean(hdr, new)
                 /\ Breaking(hdr, new) \subseteq Breaking(hdr, rows)
<1>1. ASSUME NEW r \in InsertRows, kdb_table_insert(r)
      PROVE  \E rs \in Seq(Rows) : rs # << >> /\ InsertAll("insert", rs) /\ Len(rs) = 1
  <2>1. <<r>> \in Seq(Rows) /\ <<r>> # << >> /\ Len(<<r>>) = 1
    BY ArgumentAssumption
  <2>2. InsertAll("insert", <<r>>)
    BY <1>1, Zenon DEF kdb_table_insert
  <2> QED BY <2>1, <2>2, Zenon
<1>2. ASSUME NEW rs \in Batches, kdb_table_insert_batch(rs)
      PROVE  rs \in Seq(Rows) /\ rs # << >> /\ InsertAll("insert_batch", rs)
  BY <1>2, ArgumentAssumption, Zenon DEF kdb_table_insert_batch
<1>3. rows \in Seq(Rows)
  BY DEF TypeOK
<1>4. ASSUME NEW q \in Queries, NEW p \in Patches, NEW out \in Outcomes, kdb_table_update(q, p, out)
      PROVE  /\ Rewrite(out, hdr, Updated(rows, q, p))
             /\ idx' = IF out = "ok" THEN Rebuilt(idx, Updated(rows, q, p)) ELSE idx
             /\ Returned("update", out = "ok") /\ UNCHANGED hdr
             /\ Updated(rows, q, p) \in Seq(Rows)
             /\ Clean(hdr, rows) => Clean(hdr, Updated(rows, q, p))
             /\ Breaking(hdr, Updated(rows, q, p)) \subseteq Breaking(hdr, rows)
  <2>1. p \in Rows /\ kdb_table_check_update_constraints(hdr, rows, q, p)
    BY <1>4, ArgumentAssumption DEF kdb_table_update
  <2>2. /\ Rewrite(out, hdr, Updated(rows, q, p))
        /\ idx' = IF out = "ok" THEN Rebuilt(idx, Updated(rows, q, p)) ELSE idx
        /\ Returned("update", out = "ok") /\ UNCHANGED hdr
    BY <1>4, Zenon DEF kdb_table_update
  <2> QED BY <1>3, <2>1, <2>2, UpdateKeepsClean
<1>5. ASSUME NEW q \in Queries, NEW out \in Outcomes, kdb_table_delete(q, out)
      PROVE  \E new \in Seq(Rows) :
               /\ Rewrite(out, hdr, new)
               /\ idx' = IF out = "ok" THEN Rebuilt(idx, new) ELSE idx
               /\ Returned("delete", out = "ok") /\ UNCHANGED hdr
               /\ Clean(hdr, rows) => Clean(hdr, new)
               /\ Breaking(hdr, new) \subseteq Breaking(hdr, rows)
  <2> DEFINE new == Select(rows, {i \in DOMAIN rows : ~EqRow(q, rows[i])})
  <2>1. /\ new \in Seq(Rows) /\ (Clean(hdr, rows) => Clean(hdr, new))
        /\ Breaking(hdr, new) \subseteq Breaking(hdr, rows)
    BY <1>3, SelectKeepsClean
  <2>2. /\ Rewrite(out, hdr, new)
        /\ idx' = IF out = "ok" THEN Rebuilt(idx, new) ELSE idx
        /\ Returned("delete", out = "ok") /\ UNCHANGED hdr
    BY <1>5, Zenon DEF kdb_table_delete
  <2> HIDE DEF new
  <2> QED BY <2>1, <2>2, Zenon
<1>6. ASSUME NEW out \in Outcomes, kdb_table_compact(out)
      PROVE  /\ Rewrite(out, hdr, rows)
             /\ idx' = IF out = "ok" THEN Rebuilt(idx, rows) ELSE idx
             /\ Returned("compact", out = "ok") /\ UNCHANGED hdr
  BY <1>6, Zenon DEF kdb_table_compact
<1>7. Breaking(hdr, rows) \subseteq Breaking(hdr, rows)
  OBVIOUS
<1>8. CASE (\E r \in InsertRows : kdb_table_insert(r)) \/ (\E rs \in Batches : kdb_table_insert_batch(rs))
  <2>1. "insert" # "insert_batch"
    OBVIOUS
  <2> QED BY <1>1, <1>2, <1>8, <2>1, Zenon
<1>9. CASE \E q \in Queries, p \in Patches, out \in Outcomes : kdb_table_update(q, p, out)
  BY <1>4, <1>9, Zenon
<1>10. CASE \E q \in Queries, out \in Outcomes : kdb_table_delete(q, out)
  BY <1>5, <1>10, Zenon
<1>11. CASE \E out \in Outcomes : kdb_table_compact(out)
  BY <1>3, <1>6, <1>7, <1>11, Zenon
<1> QED
  BY <1>8, <1>9, <1>10, <1>11, Zenon DEF Write

\* The other steps name themselves.
LEMMA AlterNames ==
    ASSUME AlterTable
    PROVE  last'.op \in Calls \ {"create", "reopen", "insert", "insert_batch", "update", "delete", "compact"}
<1>1. \A op, ok : Returned(op, ok) => last'.op = op
  BY DEF Returned
<1>2. \A op, h : FlushHeader(op, h) => last'.op = op
  BY <1>1, Zenon DEF FlushHeader
<1> QED
  <2>1. \/ last'.op \in {"add_column", "drop_column", "rename_column", "create_index", "drop_index"}
        \/ last'.op \in {"create_composite_index", "drop_composite_index", "set_nullable", "set_unique"}
        \/ last'.op \in {"alter_column_type", "add_check", "set_default", "drop_default"}
    BY <1>1, <1>2, ZenonT(60)
       DEF AlterTable, kdb_table_add_column, kdb_table_drop_column, kdb_table_rename_column, kdb_table_create_index,
           kdb_table_drop_index, kdb_table_create_composite_index, kdb_table_drop_composite_index,
           kdb_table_set_nullable, kdb_table_set_unique, kdb_table_alter_column_type, kdb_table_add_check,
           kdb_table_set_default, kdb_table_drop_default
  <2> QED BY <2>1 DEF Calls

\* NOT NULL, UNIQUE and CHECK survive every write of every batch, update,
\* delete and compaction, with any fault in it, on a header of any shape:
\* kdb_table_check_insert_constraints compares with the rows already appended,
\* kdb_table_check_update_constraints with the rows as they will be.
THEOREM ConstraintsKept == Spec => WritesKeepConstraints
<1> DEFINE A == last'.op \in {"insert", "insert_batch", "update", "delete", "compact"} =>
                  /\ Clean(hdr, rows) => Clean(hdr', rows')
                  /\ Breaking(hdr', rows') \subseteq Breaking(hdr, rows)
<1>1. TypeOK /\ [Next]_vars => [A]_vars
  <2> SUFFICES ASSUME TypeOK, Next PROVE A
    OBVIOUS
  <2>1. CASE Write
    <3>1. ASSUME NEW op, NEW rs \in Seq(Rows), rs # << >>, InsertAll(op, rs) PROVE A
      BY <3>1, InsertEffect
    <3>2. ASSUME NEW out, NEW new \in Seq(Rows), Rewrite(out, hdr, new), UNCHANGED hdr,
                 Clean(hdr, rows) => Clean(hdr, new), Breaking(hdr, new) \subseteq Breaking(hdr, rows)
          PROVE  A
      BY <3>2 DEF Rewrite
    <3> HIDE DEF A
    <3> QED BY <2>1, <3>1, <3>2, WriteCases, Zenon
  <2>2. CASE AlterTable
    BY <2>2, AlterNames
  <2>3. CASE kdb_table_reopen
    BY <2>3 DEF kdb_table_reopen, Returned
  <2> QED BY <2>1, <2>2, <2>3 DEF Next
<1>2. Spec => []TypeOK
  BY TypeCorrect
<1> QED
  BY <1>1, <1>2, PTL DEF Spec, WritesKeepConstraints

---------------------------------------------------------------------------
\* Indexes follow the rows.

\* A rebuild gives what a rebuild of the result would give again.
LEMMA RebuiltIsFresh ==
    ASSUME NEW ixs, IndexesOK(ixs), NEW rs \in Seq(Rows), NEW ixt, ixt = Rebuilt(ixs, rs)
    PROVE  \A i \in DOMAIN ixt : ixt[i] = Built(ixt[i].cols, rs)
<1>1. DOMAIN ixt = DOMAIN ixs /\ \A i \in DOMAIN ixs : ixt[i] = Built(ixs[i].cols, rs)
  BY DEF Rebuilt, kdb_index_rebuild
<1>2. \A i \in DOMAIN ixs : ixs[i].cols \in Seq(Names)
  BY IndexesShape DEF IndexOK
<1>3. \A i \in DOMAIN ixs : ixt[i].cols = ixs[i].cols
  BY <1>1, <1>2, BuiltOK
<1> QED
  BY <1>1, <1>3

\* A fresh index is one built over the rows of now.
LEMMA FreshByBuilt ==
    AllFresh <=> \A i \in DOMAIN idx : idx[i] = Built(idx[i].cols, rows)
  BY Zenon DEF AllFresh, Fresh, kdb_index_rebuild

\* The same of the next state.
LEMMA FreshAfter ==
    AllFresh' <=> \A i \in DOMAIN idx' : idx'[i] = Built(idx'[i].cols, rows')
  BY Zenon DEF AllFresh, Fresh, kdb_index_rebuild

\* A new index is built over the rows of now.
LEMMA NewIndexFresh ==
    ASSUME TypeOK, AllFresh, NEW cs \in Seq(Names), NewIndex(cs), UNCHANGED rows
    PROVE  AllFresh'
<1>1. idx' = Append(idx, Built(cs, rows))
  BY DEF NewIndex, kdb_index_rebuild, kdb_index_new
<1>2. rows \in Seq(Rows) /\ IndexesOK(idx) /\ DOMAIN idx = 1 .. Len(idx) /\ Len(idx) \in Nat
  BY IndexesShape DEF TypeOK
<1>3. IndexOK(Built(cs, rows)) /\ Built(cs, rows).cols = cs
  BY <1>2, BuiltOK
<1>4. /\ DOMAIN idx' = 1 .. Len(idx) + 1
      /\ \A i \in 1 .. Len(idx) : idx'[i] = idx[i]
      /\ idx'[Len(idx) + 1] = Built(cs, rows)
  BY <1>1, <1>2, <1>3, AppendIndexOK
<1>5. ASSUME NEW i \in DOMAIN idx' PROVE idx'[i] = Built(idx'[i].cols, rows')
  <2>1. CASE i \in 1 .. Len(idx)
    BY <1>2, <1>4, <2>1, FreshByBuilt
  <2>2. CASE i = Len(idx) + 1
    BY <1>3, <1>4, <2>2
  <2> QED BY <1>2, <1>4, <2>1, <2>2
<1> QED
  BY <1>5, FreshAfter

\* kdb_table_update, kdb_table_delete, kdb_table_compact and a reopen rebuild
\* every index, an insert extends each by the node a rebuild would add, CREATE
\* INDEX appends a built one and DROP INDEX takes one away: by induction over
\* the rows of the file an incremental insert and a rebuild are the same.
THEOREM IndexesFollow == Spec => IndexesFollowWrites
<1> DEFINE A == /\ last'.ok /\ last'.op \in {"update", "delete", "compact", "reopen"} => AllFresh'
                /\ last'.op \in {"create_index", "create_composite_index", "drop_index"} /\ AllFresh => AllFresh'
                /\ last'.op \in {"insert", "insert_batch"} /\ AllFresh /\ ~(last'.ok /\ dirty') => AllFresh'
<1>1. TypeOK /\ [Next]_vars => [A]_vars
  <2> SUFFICES ASSUME TypeOK, Next PROVE A
    OBVIOUS
  <2>0. IndexesOK(idx) /\ rows \in Seq(Rows)
    BY DEF TypeOK
  <2>1. CASE Write
    <3>1. ASSUME NEW op \in {"insert", "insert_batch"}, NEW rs \in Seq(Rows), rs # << >>, InsertAll(op, rs) PROVE A
      <4>1. (~(last'.ok /\ dirty') => Enlarged(hdr', rows, idx, rows', idx')) /\ last'.op = op
        BY <3>1, InsertEffect
      <4>2. AllFresh /\ ~(last'.ok /\ dirty') => AllFresh'
        BY <4>1, FreshByBuilt, FreshAfter DEF Enlarged
      <4> QED BY <4>1, <4>2
    <3>2. ASSUME NEW op \in {"update", "delete", "compact"}, NEW out, NEW new \in Seq(Rows), Rewrite(out, hdr, new),
                 idx' = (IF out = "ok" THEN Rebuilt(idx, new) ELSE idx), Returned(op, out = "ok")
          PROVE  A
      <4>1. last'.op = op /\ (last'.ok <=> out = "ok")
        BY <3>2 DEF Returned
      <4>2. out = "ok" => AllFresh'
        BY <2>0, <3>2, RebuiltIsFresh, FreshAfter DEF Rewrite
      <4> QED BY <4>1, <4>2
    <3> HIDE DEF A
    <3> QED BY <2>1, <3>1, <3>2, WriteCases, Zenon
  <2>2. CASE AlterTable
    <3>1. ASSUME last'.op \in {"create_index", "create_composite_index", "drop_index"}, AllFresh PROVE AllFresh'
      <4>1. \A op, h : FlushHeader(op, h) => last'.op = op /\ UNCHANGED rows
        BY DEF FlushHeader, Returned
      <4>2. ASSUME NEW cs \in Seq(Names), NEW op, NEW h, NewIndex(cs), FlushHeader(op, h) PROVE AllFresh'
        BY <3>1, <4>1, <4>2, NewIndexFresh
      <4>3. ASSUME NEW c, NEW h, idx' = DroppedIndex(c), FlushHeader("drop_index", h) PROVE AllFresh'
        <5>1. \A k \in DOMAIN idx' : \E j \in DOMAIN idx : idx'[k] = idx[j]
          BY <4>3, DroppedIndexFacts
        <5>2. UNCHANGED rows
          BY <4>1, <4>3
        <5> QED BY <3>1, <5>1, <5>2, FreshByBuilt, FreshAfter
      <4>4. ASSUME NEW c \in Names, kdb_table_create_index(c) PROVE AllFresh'
        <5>1. <<c>> \in Seq(Names)
          OBVIOUS
        <5> QED BY <4>2, <4>4, <5>1, Zenon DEF kdb_table_create_index
      <4>5. ASSUME NEW c \in Names, NEW b \in Names, kdb_table_create_composite_index(<<c, b>>) PROVE AllFresh'
        <5>1. <<c, b>> \in Seq(Names)
          OBVIOUS
        <5> QED BY <4>2, <4>5, <5>1, Zenon DEF kdb_table_create_composite_index
      <4>6. ASSUME NEW c, kdb_table_drop_index(c) PROVE AllFresh'
        BY <4>3, <4>6, Zenon DEF kdb_table_drop_index
      <4>7. \A op, ok : Returned(op, ok) => last'.op = op
        BY DEF Returned
      <4>8. \E c \in Names :
              \/ kdb_table_create_index(c)
              \/ kdb_table_drop_index(c)
              \/ \E b \in Names \ {c} : kdb_table_create_composite_index(<<c, b>>)
        <5>1. last'.op \notin {"add_column", "drop_column", "rename_column", "drop_composite_index", "set_nullable",
                               "set_unique", "alter_column_type", "add_check", "set_default", "drop_default"}
          BY <3>1
        <5> QED BY <2>2, <4>1, <4>7, <5>1, ZenonT(60)
                DEF AlterTable, kdb_table_add_column, kdb_table_drop_column, kdb_table_rename_column,
                    kdb_table_drop_composite_index, kdb_table_set_nullable, kdb_table_set_unique,
                    kdb_table_alter_column_type, kdb_table_add_check, kdb_table_set_default, kdb_table_drop_default
      <4> QED BY <4>4, <4>5, <4>6, <4>8
    <3>2. last'.op \notin {"update", "delete", "compact", "reopen", "insert", "insert_batch"}
      BY <2>2, AlterNames
    <3> QED BY <3>1, <3>2, Zenon
  <2>3. CASE kdb_table_reopen
    <3>1. PICK h \in {hdr, disk} :
            /\ idx' = IF h.n = 0 THEN << >>
                      ELSE Rebuilt(kdb_index_build_for_table(h) \o kdb_index_build_composite_for_table(h), rows)
            /\ Returned("reopen", TRUE) /\ UNCHANGED rows
      BY <2>3, Zenon DEF kdb_table_reopen
    <3>2. HeaderOK(h)
      BY <3>1 DEF TypeOK
    <3> DEFINE ixs == kdb_index_build_for_table(h) \o kdb_index_build_composite_for_table(h)
    <3>3. IndexesOK(ixs) /\ idx' = IF h.n = 0 THEN << >> ELSE Rebuilt(ixs, rows)
      BY <3>1, <3>2, NewIndexesOK
    <3> HIDE DEF ixs
    <3>4. AllFresh'
      <4>1. CASE h.n = 0
        BY <3>1, <4>1, FreshAfter
      <4>2. CASE h.n # 0
        BY <2>0, <3>1, <3>3, <4>2, RebuiltIsFresh, FreshAfter
      <4> QED BY <4>1, <4>2
    <3>5. last'.op = "reopen"
      BY <3>1 DEF Returned
    <3> QED BY <3>4, <3>5
  <2> QED BY <2>1, <2>2, <2>3, Zenon DEF Next
<1>2. Spec => []TypeOK
  BY TypeCorrect
<1> QED
  BY <1>1, <1>2, PTL DEF Spec, IndexesFollowWrites

---------------------------------------------------------------------------
\* A call that fails.

\* The old rows are the beginning of the new ones.
LEMMA PrefixOfEnlarged ==
    ASSUME NEW rs \in Seq(Rows), NEW rt \in Seq(Rows), Len(rs) <= Len(rt), \A i \in 1 .. Len(rs) : rt[i] = rs[i]
    PROVE  rs = SubSeq(rt, 1, Len(rs))
<1>1. Len(rs) \in Nat /\ rs = [i \in 1 .. Len(rs) |-> rs[i]]
  OBVIOUS
<1>2. SubSeq(rt, 1, Len(rs)) = [i \in 1 .. Len(rs) |-> rt[i]]
  BY <1>1
<1> QED
  BY <1>1, <1>2

\* A failed conversion, a failed rewrite before its rename and a refused record
\* leave the rows of a file that stays open; kdb_table_alter_column_type takes
\* its new type back unless the rewrite went through.
THEOREM FailuresClean == Spec => FailuresAreClean
<1>1. TypeOK /\ [Next]_vars => [FailureKeepsRows /\ TypeChangeAllOrNothing]_vars
  <2> SUFFICES ASSUME TypeOK, Next PROVE FailureKeepsRows /\ TypeChangeAllOrNothing
    OBVIOUS
  <2>0. rows \in Seq(Rows) /\ HeaderOK(hdr)
    BY DEF TypeOK
  <2>1. ASSUME last'.ok, last'.op # "alter_column_type" PROVE FailureKeepsRows /\ TypeChangeAllOrNothing
    BY <2>1 DEF FailureKeepsRows, TypeChangeAllOrNothing
  <2>2. ASSUME NEW op, NEW out, NEW h, NEW rs, Rewrite(out, h, rs), Returned(op, out = "ok"), op \in Calls,
               op \notin {"insert_batch", "alter_column_type"}
        PROVE  /\ TypeChangeAllOrNothing
               /\ (out = "flush" => AlteredAllTheSame) => FailureKeepsRows
    <3>1. last'.op = op /\ (last'.ok <=> out = "ok")
      BY <2>2 DEF Returned
    <3>2. out \notin {"ok", "flush"} /\ fp' => UNCHANGED rows
      BY <2>2 DEF Rewrite
    <3> QED BY <2>2, <3>1, <3>2 DEF FailureKeepsRows, TypeChangeAllOrNothing
  <2>3. CASE Write
    <3>1. ASSUME NEW op \in {"insert", "insert_batch"}, NEW rs \in Seq(Rows), rs # << >>, InsertAll(op, rs),
                 op = "insert" => Len(rs) = 1
          PROVE  FailureKeepsRows /\ TypeChangeAllOrNothing
      <4>1. /\ ~(last'.ok /\ dirty') => Enlarged(hdr', rows, idx, rows', idx')
            /\ (Len(rs) = 1 /\ ~last'.ok => rows' = rows)
            /\ last'.op = op
        BY <3>1, InsertEffect
      <4>2. ~last'.ok => rows = SubSeq(rows', 1, Len(rows))
        BY <2>0, <4>1, PrefixOfEnlarged DEF Enlarged
      <4> QED BY <3>1, <4>1, <4>2 DEF FailureKeepsRows, TypeChangeAllOrNothing
    <3>2. ASSUME NEW op \in {"update", "delete", "compact"}, NEW out \in Outcomes, NEW new, Rewrite(out, hdr, new),
                 Returned(op, out = "ok")
          PROVE  FailureKeepsRows /\ TypeChangeAllOrNothing
      <4>1. op \in Calls /\ op \notin {"insert_batch", "alter_column_type"}
        BY <3>2 DEF Calls
      <4>2. out # "flush"
        BY <3>2 DEF Outcomes
      <4> QED BY <2>2, <3>2, <4>1, <4>2
    <3> QED BY <2>3, <3>1, <3>2, WriteCases, Zenon
  <2>4. ASSUME NEW c \in Names, NEW t \in Types, NEW out, kdb_table_alter_column_type(c, t, out)
        PROVE  FailureKeepsRows /\ TypeChangeAllOrNothing
    <3> DEFINE new == FieldCast(rows, c, t)
               convertible == \A i \in DOMAIN rows : c \in DOMAIN rows[i] => Cast(rows[i][c], t) # Bad
               h == SetColumn(hdr, c, "type", t)
               i == kdb_table_get_column(hdr, c)
               done == convertible /\ out \in {"ok", "flush"}
    <3>1. /\ kdb_table_has_column(hdr, c) /\ hdr.cols[i].type # t
          /\ IF convertible THEN Rewrite(out, h, new) ELSE out = "early" /\ UNCHANGED <<rows, disk, dirty, fp, faults>>
          /\ hdr' = IF done THEN h ELSE hdr
          /\ done \/ UNCHANGED idx
          /\ Returned("alter_column_type", convertible /\ out = "ok")
      BY <2>4, Zenon DEF kdb_table_alter_column_type
    <3>2. i \in 1 .. hdr.n /\ hdr.cols[i].name = c
      BY <2>0, <3>1, HeaderFacts, GetColumnFacts
    <3>3. h.cols[i].type = t
      <4>1. Settable(hdr, "type", t)
        BY DEF Settable
      <4>2. h = [hdr EXCEPT !.cols = [hdr.cols EXCEPT ![i] = ColumnWith(hdr.cols[i], "type", t)]]
        BY <2>0, <3>1, <4>1, SetColumnFacts
      <4> HIDE DEF h, i
      <4>3. /\ hdr = [cols |-> hdr.cols, n |-> hdr.n, comps |-> hdr.comps, checks |-> hdr.checks]
            /\ i \in DOMAIN hdr.cols /\ hdr.cols[i] \in Columns
        BY <2>0, <3>2, HeaderFacts
      <4>4. h.cols[i] = ColumnWith(hdr.cols[i], "type", t)
        BY <4>2, <4>3
      <4>5. ColumnWith(hdr.cols[i], "type", t).type = t
        BY <4>3 DEF ColumnWith, Columns
      <4> QED BY <4>4, <4>5
    <3>4. convertible => \A k \in DOMAIN rows : ~IsNull(rows[k], c) => new[k][c].t = t
      <4>1. DOMAIN new = DOMAIN rows /\ \A k \in DOMAIN rows : c \in DOMAIN rows[k] => c \in DOMAIN new[k]
        BY DEF FieldCast
      <4>2. convertible => \A k \in DOMAIN new : c \in DOMAIN new[k] => new[k][c].t = t
        BY <2>0, FieldCastFacts
      <4> HIDE DEF new, convertible
      <4> QED BY <4>1, <4>2 DEF IsNull
    <3>5. last'.op = "alter_column_type" /\ (last'.ok <=> convertible /\ out = "ok")
      BY <3>1 DEF Returned
    <3> HIDE DEF convertible, h, i
    <3>6. CASE done
      <4> HIDE DEF new
      <4>1. hdr' = h /\ disk' = h /\ rows' = new /\ (out = "flush" => dirty')
        BY <3>1, <3>6 DEF Rewrite
      <4>2. TypeChanged
        BY <3>1, <3>2, <3>3, <3>4, <3>6, <4>1 DEF TypeChanged
      <4>3. out = "flush" => AlteredAllTheSame
        BY <3>5, <4>1 DEF AlteredAllTheSame, new
      <4> QED BY <3>5, <3>6, <4>1, <4>2, <4>3 DEF FailureKeepsRows, TypeChangeAllOrNothing
    <3>7. CASE ~done
      <4> HIDE DEF new
      <4>1. fp' => UNCHANGED <<rows, disk>>
        BY <3>1, <3>7 DEF Rewrite
      <4>2. UNCHANGED <<hdr, idx>>
        BY <3>1, <3>7
      <4> QED BY <3>5, <3>7, <4>1, <4>2 DEF FailureKeepsRows, TypeChangeAllOrNothing
    <3> QED BY <3>6, <3>7
  <2>5. CASE AlterTable
    <3>1. ASSUME NEW op, NEW h, FlushHeader(op, h), op \notin {"insert_batch", "alter_column_type"}
          PROVE  FailureKeepsRows /\ TypeChangeAllOrNothing
      <4>1. last'.op = op /\ UNCHANGED rows
        BY <3>1 DEF FlushHeader, Returned
      <4> QED BY <3>1, <4>1 DEF FailureKeepsRows, TypeChangeAllOrNothing
    <3>2. ASSUME NEW c \in Names, NEW out, kdb_table_drop_column(c, out) PROVE FailureKeepsRows /\ TypeChangeAllOrNothing
      <4>1. "drop_column" \in Calls /\ "drop_column" \notin {"insert_batch", "alter_column_type"}
        BY DEF Calls
      <4>2. PICK h : hdr' = h /\ Rewrite(out, h, FieldDropped(rows, c)) /\ Returned("drop_column", out = "ok")
        BY <3>2, Zenon DEF kdb_table_drop_column
      <4>3. out = "flush" => AlteredAllTheSame
        BY <4>2 DEF Rewrite, Returned, AlteredAllTheSame
      <4> QED BY <2>2, <4>1, <4>2, <4>3
    <3>3. ASSUME NEW c \in Names, NEW b \in Names, NEW out, kdb_table_rename_column(c, b, out)
          PROVE  FailureKeepsRows /\ TypeChangeAllOrNothing
      <4>1. "rename_column" \in Calls /\ "rename_column" \notin {"insert_batch", "alter_column_type"}
        BY DEF Calls
      <4> DEFINE h == SetColumn(hdr, c, "name", b)
      <4>2. PICK old \in SUBSET HavingBoth(rows, c, b) :
              hdr' = h /\ Rewrite(out, h, FieldRenamed(rows, c, b, old)) /\ Returned("rename_column", out = "ok")
        BY <3>3, Zenon DEF kdb_table_rename_column
      <4> HIDE DEF h
      <4>3. ASSUME out = "flush" PROVE AlteredAllTheSame
        <5>1. disk' = hdr' /\ dirty' /\ rows' = FieldRenamed(rows, c, b, old) /\ last'.op = "rename_column"
          BY <4>2, <4>3 DEF Rewrite, Returned
        <5> QED BY <5>1, Zenon DEF AlteredAllTheSame
      <4> QED BY <2>2, <4>1, <4>2, <4>3
    <3>4. ASSUME NEW c \in Names, NEW t \in Types \ {"null"}, NEW out \in AlterOutcomes, kdb_table_alter_column_type(c, t, out)
          PROVE  FailureKeepsRows /\ TypeChangeAllOrNothing
      BY <2>4, <3>4
    <3>5. \A op \in {"add_column", "create_index", "drop_index", "create_composite_index", "drop_composite_index",
                     "set_nullable", "set_unique", "add_check", "set_default", "drop_default"} :
             op \notin {"insert_batch", "alter_column_type"}
      OBVIOUS
    <3> QED BY <2>5, <3>1, <3>2, <3>3, <3>4, <3>5, Zenon
          DEF AlterTable, kdb_table_add_column, kdb_table_create_index, kdb_table_drop_index,
              kdb_table_create_composite_index, kdb_table_drop_composite_index, kdb_table_set_nullable,
              kdb_table_set_unique, kdb_table_add_check, kdb_table_set_default, kdb_table_drop_default
  <2>6. CASE kdb_table_reopen
    <3>1. last'.ok /\ last'.op = "reopen"
      BY <2>6 DEF kdb_table_reopen, Returned
    <3> QED BY <2>1, <3>1
  <2> QED BY <2>3, <2>5, <2>6, Zenon DEF Next
<1>2. Spec => []TypeOK
  BY TypeCorrect
<1> QED
  BY <1>1, <1>2, PTL DEF Spec, FailuresAreClean

---------------------------------------------------------------------------
\* A query through an index.

\* An index of as many columns as the query has fields, which covers them,
\* has no other column.
LEMMA ColumnsAreFields ==
    ASSUME NEW T, NEW cs \in Seq(T), NEW D, Len(cs) = Cardinality(D), D \subseteq ElemsOf(cs)
    PROVE  D = ElemsOf(cs)
<1> DEFINE I == 1 .. Len(cs)
           E == ElemsOf(cs)
<1>1. IsFiniteSet(I) /\ Cardinality(I) = Len(cs) /\ Len(cs) \in Nat /\ DOMAIN cs = I
  <2>1. Len(cs) \in Nat /\ DOMAIN cs = I
    OBVIOUS
  <2>2. IsFiniteSet(I) /\ Cardinality(I) = Len(cs)
    BY <2>1, FS_Interval
  <2> QED BY <2>1, <2>2
<1>2. E = {cs[i] : i \in I}
  BY <1>1 DEF ElemsOf
<1>3. cs \in Surjection(I, E)
  BY <1>1, <1>2 DEF Surjection
<1> HIDE DEF I, E
<1>4. IsFiniteSet(E) /\ Cardinality(E) <= Cardinality(I)
  BY <1>1, <1>3, FS_Surjection
<1>5. Cardinality(E) \in Nat
  BY <1>4, FS_CardinalityType
<1>6. D \subseteq E
  BY DEF E
<1>7. Cardinality(D) = Cardinality(E) \/ Cardinality(D) < Cardinality(E)
  BY <1>1, <1>4, <1>5, <1>6, FS_Subset
<1>8. Cardinality(D) = Cardinality(E)
  BY <1>1, <1>4, <1>5, <1>7
<1> QED
  BY <1>4, <1>6, <1>8, FS_Subset DEF E

\* The record at the offset of a row is that row.
LEMMA ReadAtOffset ==
    ASSUME NEW rs \in Seq(Rows), NEW j \in DOMAIN rs
    PROVE  kdb_storage_read_at(rs, Offsets(rs)[j]) = j
<1> DEFINE S == {i \in DOMAIN rs : Offsets(rs)[i] = Offsets(rs)[j]}
<1>1. DOMAIN rs = 1 .. Len(rs) /\ Len(rs) \in Nat
  OBVIOUS
<1>2. \A i \in DOMAIN rs : Offsets(rs)[i] = Offsets(rs)[j] => i = j
  <2> SUFFICES ASSUME NEW i \in DOMAIN rs, i # j PROVE Offsets(rs)[i] # Offsets(rs)[j]
    OBVIOUS
  <2>1. i \in 1 .. Len(rs) + 1 /\ j \in 1 .. Len(rs) + 1 /\ (i < j \/ j < i)
    BY <1>1
  <2>2. Offsets(rs)[i] \in Nat /\ Offsets(rs)[j] \in Nat
    BY <2>1, OffsetsFacts
  <2>3. Offsets(rs)[i] < Offsets(rs)[j] \/ Offsets(rs)[j] < Offsets(rs)[i]
    BY <2>1, OffsetsFacts
  <2> QED BY <2>2, <2>3
<1>3. S = {j}
  BY <1>2
<1>4. S \subseteq Nat \ {0}
  BY <1>1
<1>5. First(S) \in S
  <2> HIDE DEF S
  <2> QED BY <1>3, <1>4, FirstFacts
<1>6. kdb_storage_read_at(rs, Offsets(rs)[j]) = First(S)
  BY DEF kdb_storage_read_at
<1> QED
  BY <1>3, <1>5, <1>6

Covers(cs, r) == ElemsOf(cs) \subseteq DOMAIN r

\* What a bucket of an index built from the rows holds: a place of the index
\* for every row with its columns that hashes like the query, none twice.
LEMMA BucketFacts ==
    ASSUME NEW cs, NEW rs \in Seq(Rows), NEW ix, ix = Built(cs, rs), NEW q, NEW b, b = Bucket(ix, q)
    PROVE  /\ ix.cols = cs
           /\ b \in Seq(Nodes(cs, rs))
           /\ \A k \in DOMAIN b : \E j \in DOMAIN rs : b[k] = NodeOf(cs, rs, j)
           /\ \A j \in DOMAIN rs : Covers(cs, rs[j]) /\ Key(ix, rs[j]) = Key(ix, q) =>
                 \E k \in DOMAIN b : b[k] = NodeOf(cs, rs, j)
           /\ \A j, k \in DOMAIN b : j # k => b[j].off # b[k].off
<1>1. PICK ns \in Seq(Nodes(cs, rs)) :
         /\ ix = [cols |-> cs, nodes |-> ns]
         /\ \A k \in DOMAIN ns : \E i \in DOMAIN rs : ElemsOf(cs) \subseteq DOMAIN rs[i] /\ ns[k] = NodeOf(cs, rs, i)
         /\ \A i \in DOMAIN rs : ElemsOf(cs) \subseteq DOMAIN rs[i] => \E k \in DOMAIN ns : ns[k] = NodeOf(cs, rs, i)
         /\ \A j, k \in DOMAIN ns : j < k => ns[k].off < ns[j].off
  BY BuiltFacts
<1>2. ix.cols = cs /\ ix.nodes = ns
  BY <1>1
<1> DEFINE S == {k \in DOMAIN ns : ns[k].h = Key(ix, q)}
           a == Ascending(S, Len(ns))
<1>3. b = Select(ns, S)
  BY <1>2 DEF Bucket
<1>4. /\ b = [k \in DOMAIN a |-> ns[a[k]]]
      /\ b \in Seq(Nodes(cs, rs))
      /\ \A k \in DOMAIN a : a[k] \in S /\ a[k] \in DOMAIN ns
      /\ \A i \in DOMAIN ns : i \in S => \E k \in DOMAIN a : a[k] = i
      /\ \A j, k \in DOMAIN a : j # k => a[j] # a[k]
  <2> HIDE DEF S
  <2> QED BY <1>1, <1>3, SelectFacts
<1> HIDE DEF a
<1>5. \A k \in DOMAIN b : \E j \in DOMAIN rs : b[k] = NodeOf(cs, rs, j)
  BY <1>1, <1>4
<1>6. ASSUME NEW j \in DOMAIN rs, Covers(cs, rs[j]), Key(ix, rs[j]) = Key(ix, q)
      PROVE  \E k \in DOMAIN b : b[k] = NodeOf(cs, rs, j)
  <2>1. PICK i \in DOMAIN ns : ns[i] = NodeOf(cs, rs, j)
    BY <1>1, <1>6 DEF Covers
  <2>2. ns[i].h = Key(ix, rs[j])
    BY <1>2, <2>1 DEF NodeOf, Key, kdb_index_new
  <2>3. i \in S
    BY <1>6, <2>2
  <2> QED BY <1>4, <2>1, <2>3
<1>7. ASSUME NEW j \in DOMAIN b, NEW k \in DOMAIN b, j # k PROVE b[j].off # b[k].off
  <2>1. \A m \in DOMAIN ns : ns[m].off \in Nat
    <3> TAKE m \in DOMAIN ns
    <3>1. PICK i \in DOMAIN rs : ns[m] = NodeOf(cs, rs, i)
      BY <1>1
    <3>2. i \in 1 .. Len(rs) + 1
      OBVIOUS
    <3>3. ns[m].off = Offsets(rs)[i]
      BY <3>1 DEF NodeOf
    <3> QED BY <3>2, <3>3, OffsetsFacts
  <2>2. a[j] \in DOMAIN ns /\ a[k] \in DOMAIN ns /\ a[j] # a[k] /\ b[j] = ns[a[j]] /\ b[k] = ns[a[k]]
    BY <1>4, <1>7
  <2>3. a[j] < a[k] \/ a[k] < a[j]
    BY <1>1, <2>2
  <2>4. ns[a[j]].off < ns[a[k]].off \/ ns[a[k]].off < ns[a[j]].off
    BY <1>1, <2>2, <2>3
  <2> QED BY <2>1, <2>2, <2>4
<1> QED
  BY <1>2, <1>4, <1>5, <1>6, <1>7

\* The elements of a selection, each once if they were once before.
LEMMA SelectElements ==
    ASSUME NEW T, NEW s \in Seq(T), NEW S, NEW t, t = Select(s, S)
    PROVE  /\ \A x : x \in ElemsOf(t) <=> \E k \in DOMAIN s : k \in S /\ x = s[k]
           /\ ElementsOnce(s) => ElementsOnce(t)
<1> DEFINE a == Ascending(S, Len(s))
<1> HIDE DEF a
<1>1. /\ t = [k \in DOMAIN a |-> s[a[k]]]
      /\ \A k \in DOMAIN a : a[k] \in S /\ a[k] \in DOMAIN s
      /\ \A i \in DOMAIN s : i \in S => \E k \in DOMAIN a : a[k] = i
      /\ \A j, k \in DOMAIN a : j # k => a[j] # a[k]
  BY SelectFacts DEF a
<1>2. DOMAIN t = DOMAIN a /\ \A k \in DOMAIN a : t[k] = s[a[k]]
  BY <1>1
<1>3. \A x : x \in ElemsOf(t) <=> \E k \in DOMAIN s : k \in S /\ x = s[k]
  BY <1>1, <1>2 DEF ElemsOf
<1>4. ElementsOnce(s) => ElementsOnce(t)
  BY <1>1, <1>2 DEF ElementsOnce
<1> QED
  BY <1>3, <1>4

\* A scan answers with exactly the rows that match, each once.
LEMMA ScanElements ==
    ASSUME NEW rs \in Seq(Rows), NEW q
    PROVE  /\ ElemsOf(kdb_query_scan(rs, q)) = {j \in DOMAIN rs : EqRow(q, rs[j])}
           /\ ElementsOnce(kdb_query_scan(rs, q))
<1> DEFINE a == kdb_query_scan(rs, q)
<1> HIDE DEF a
<1>1. /\ a \in Seq(1 .. Len(rs))
      /\ \A k \in DOMAIN a : a[k] \in DOMAIN rs /\ EqRow(q, rs[a[k]])
      /\ \A i \in DOMAIN rs : EqRow(q, rs[i]) => \E k \in DOMAIN a : a[k] = i
      /\ \A j, k \in DOMAIN a : j < k => a[j] < a[k]
  BY ScanFacts DEF a
<1>2. ElemsOf(a) = {j \in DOMAIN rs : EqRow(q, rs[j])}
  BY <1>1 DEF ElemsOf
<1>3. ASSUME NEW j \in DOMAIN a, NEW k \in DOMAIN a, a[j] = a[k] PROVE j = k
  <2>1. j \in Nat /\ k \in Nat /\ a[j] \in Nat /\ a[k] \in Nat
    BY <1>1
  <2>2. ~(j < k) /\ ~(k < j)
    BY <1>1, <1>3, <2>1
  <2> QED BY <2>1, <2>2
<1> QED
  BY <1>2, <1>3 DEF ElementsOnce, a

\* A lookup whose bucket is within the cap returns the whole bucket.
LEMMA WholeBucket ==
    ASSUME NEW T, NEW b \in Seq(T), Len(b) <= LookupCap
    PROVE  SubSeq(b, 1, IF Len(b) < LookupCap THEN Len(b) ELSE LookupCap) = b
<1>1. Len(b) \in Nat /\ LookupCap \in Nat
  BY TableAssumption
<1>2. (IF Len(b) < LookupCap THEN Len(b) ELSE LookupCap) = Len(b)
  BY <1>1
<1>3. b = [i \in 1 .. Len(b) |-> b[i]] /\ SubSeq(b, 1, Len(b)) = [i \in 1 .. Len(b) |-> b[i]]
  BY <1>1
<1> QED
  BY <1>2, <1>3, Zenon

\* The rows at the offsets a lookup returned, and which of them match.
Places(rs, hit) == [k \in DOMAIN hit |-> kdb_storage_read_at(rs, hit[k].off)]
Matching(rs, at, q) == {k \in DOMAIN at : at[k] # 0 /\ EqRow(q, rs[at[k]])}

\* Through a fresh index over exactly the fields of the query, whose bucket is
\* whole and holds the rows that match, a query finds what a scan finds.
LEMMA LookupIsScan ==
    ASSUME NEW rs \in Seq(Rows), NEW q, NEW cs, DOMAIN q = ElemsOf(cs), NEW ix, ix = Built(cs, rs),
           NEW hit, hit = Bucket(ix, q),
           \A j \in DOMAIN rs : EqRow(q, rs[j]) => Key(ix, rs[j]) = Key(ix, q),
           NEW at, at = Places(rs, hit), NEW got, got = Select(at, Matching(rs, at, q))
    PROVE  ElemsOf(got) = {j \in DOMAIN rs : EqRow(q, rs[j])} /\ ElementsOnce(got)
<1>1. /\ hit \in Seq(Nodes(cs, rs))
      /\ \A k \in DOMAIN hit : \E j \in DOMAIN rs : hit[k] = NodeOf(cs, rs, j)
      /\ \A j \in DOMAIN rs : Covers(cs, rs[j]) /\ Key(ix, rs[j]) = Key(ix, q) =>
             \E k \in DOMAIN hit : hit[k] = NodeOf(cs, rs, j)
      /\ \A j, k \in DOMAIN hit : j # k => hit[j].off # hit[k].off
  <2>1. hit \in Seq(Nodes(cs, rs))
    BY BucketFacts
  <2>2. \A k \in DOMAIN hit : \E j \in DOMAIN rs : hit[k] = NodeOf(cs, rs, j)
    BY BucketFacts
  <2>3. \A j \in DOMAIN rs : Covers(cs, rs[j]) /\ Key(ix, rs[j]) = Key(ix, q) =>
             \E k \in DOMAIN hit : hit[k] = NodeOf(cs, rs, j)
    BY BucketFacts
  <2>4. \A j, k \in DOMAIN hit : j # k => hit[j].off # hit[k].off
    BY BucketFacts
  <2> QED BY <2>1, <2>2, <2>3, <2>4, Zenon
<1>2. DOMAIN at = DOMAIN hit /\ DOMAIN hit = 1 .. Len(hit) /\ Len(hit) \in Nat
  BY <1>1 DEF Places
<1>3. ASSUME NEW k \in DOMAIN hit, NEW j \in DOMAIN rs, hit[k] = NodeOf(cs, rs, j)
      PROVE  at[k] = j /\ hit[k].off = Offsets(rs)[j]
  <2>1. hit[k].off = Offsets(rs)[j]
    BY <1>3 DEF NodeOf
  <2> QED BY <2>1, ReadAtOffset DEF Places
<1>4. \A k \in DOMAIN hit : at[k] \in DOMAIN rs /\ hit[k].off = Offsets(rs)[at[k]]
  BY <1>1, <1>3
<1>5. at \in Seq(DOMAIN rs)
  <2>1. at = [k \in 1 .. Len(hit) |-> at[k]]
    BY <1>2 DEF Places
  <2> QED BY <1>2, <1>4, <2>1
<1>6. ElementsOnce(at)
  BY <1>1, <1>2, <1>4 DEF ElementsOnce
<1> DEFINE S == Matching(rs, at, q)
<1>7. (\A x : x \in ElemsOf(got) <=> \E k \in DOMAIN at : k \in S /\ x = at[k]) /\ ElementsOnce(got)
  <2>1. got = Select(at, S)
    OBVIOUS
  <2> HIDE DEF S
  <2>2. \A x : x \in ElemsOf(got) <=> \E k \in DOMAIN at : k \in S /\ x = at[k]
    BY <1>5, <2>1, SelectElements
  <2>3. ElementsOnce(got)
    BY <1>5, <1>6, <2>1, SelectElements
  <2> QED BY <2>2, <2>3
<1>8. ASSUME NEW j \in DOMAIN rs, EqRow(q, rs[j]) PROVE \E k \in DOMAIN at : k \in S /\ at[k] = j
  <2>1. Covers(cs, rs[j])
    BY <1>8 DEF EqRow, Covers
  <2>2. PICK k \in DOMAIN hit : hit[k] = NodeOf(cs, rs, j)
    BY <1>1, <1>8, <2>1
  <2>3. at[k] = j /\ j # 0
    BY <1>3, <2>2
  <2> QED BY <1>2, <1>8, <2>3 DEF Matching
<1>9. \A k \in DOMAIN at : k \in S => at[k] \in DOMAIN rs /\ EqRow(q, rs[at[k]])
  BY <1>2, <1>4 DEF Matching
<1> HIDE DEF S
<1>10. \A x \in ElemsOf(got) : x \in DOMAIN rs /\ EqRow(q, rs[x])
  BY <1>7, <1>9
<1>11. \A j \in DOMAIN rs : EqRow(q, rs[j]) => j \in ElemsOf(got)
  BY <1>7, <1>8, Zenon
<1> QED
  BY <1>7, <1>10, <1>11, Zenon

\* Whatever order the rows were written, updated and deleted in and however the
\* offsets moved, kdb_query_execute answers through a fresh index as a scan
\* would: the offset in a node leads back to the row it was taken from, and the
\* row is compared again.
THEOREM IndexedAnswers == Spec => []AnswersExact
<1>1. ASSUME TypeOK PROVE AnswersExact
  <2> SUFFICES ASSUME NEW q \in Queries,
                      kdb_index_find_composite(idx, DOMAIN q) # 0,
                      Fresh(idx[kdb_index_find_composite(idx, DOMAIN q)]),
                      SameBuckets(idx[kdb_index_find_composite(idx, DOMAIN q)], q)
               PROVE  /\ ElemsOf(kdb_query_execute(rows, idx, q)) = ElemsOf(kdb_query_scan(rows, q))
                      /\ ElementsOnce(kdb_query_execute(rows, idx, q))
    BY Zenon DEF AnswersExact
  <2> DEFINE S == {j \in DOMAIN idx : Len(idx[j].cols) = Cardinality(DOMAIN q) /\ DOMAIN q \subseteq ElemsOf(idx[j].cols)}
             i == kdb_index_find_composite(idx, DOMAIN q)
             ix == idx[i]
             cs == ix.cols
             used == Cardinality(DOMAIN q) \in 1 .. MaxCompositeCols
             hit == IF ~used THEN << >> ELSE kdb_index_lookup_multi(ix, q)
             at == Places(rows, hit)
             got == kdb_query_execute(rows, idx, q)
  <2>1. rows \in Seq(Rows)
    BY <1>1 DEF TypeOK
  <2>2. i \in DOMAIN idx /\ Len(cs) = Cardinality(DOMAIN q) /\ DOMAIN q \subseteq ElemsOf(cs)
    <3>1. i = First(S)
      BY DEF kdb_index_find_composite
    <3>2. S \subseteq Nat \ {0}
      BY <1>1, IndexesShape DEF TypeOK
    <3>3. First(S) \in S
      <4> HIDE DEF S
      <4> QED BY <3>1, <3>2, FirstFacts
    <3> HIDE DEF i
    <3> QED BY <3>1, <3>3
  <2>3. cs \in Seq(Names)
    BY <1>1, <2>2, IndexesShape DEF TypeOK, IndexOK
  <2>4. DOMAIN q = ElemsOf(cs)
    <3> HIDE DEF cs
    <3> QED BY <2>2, <2>3, ColumnsAreFields
  <2>5. ix = Built(cs, rows)
    BY Zenon DEF Fresh, kdb_index_rebuild
  <2>6. /\ Len(Bucket(ix, q)) <= LookupCap
        /\ \A j \in DOMAIN rows : EqRow(q, rows[j]) => Key(ix, rows[j]) = Key(ix, q)
    BY Zenon DEF SameBuckets
  <2>7. got = IF hit = << >> THEN kdb_query_scan(rows, q)
              ELSE Select(at, Matching(rows, at, q))
    <3>1. CASE used
      BY <3>1, Zenon DEF kdb_query_execute, Places, Matching
    <3>2. CASE ~used
      BY <3>2, Zenon DEF kdb_query_execute, Places, Matching
    <3> QED BY <3>1, <3>2
  <2>8. used => hit = Bucket(ix, q)
    <3> HIDE DEF ix, cs
    <3>1. Bucket(ix, q) \in Seq(Nodes(cs, rows))
      BY <2>1, <2>5, BucketFacts
    <3>2. SubSeq(Bucket(ix, q), 1, IF Len(Bucket(ix, q)) < LookupCap THEN Len(Bucket(ix, q)) ELSE LookupCap) = Bucket(ix, q)
      BY <2>6, <3>1, WholeBucket
    <3> QED BY <3>2, Zenon DEF kdb_index_lookup_multi
  <2>9. CASE hit = << >>
    BY <2>1, <2>7, <2>9, ScanElements
  <2>10. CASE hit # << >>
    <3>1. used
      BY <2>10
    <3>2. hit = Bucket(ix, q)
      BY <2>8, <3>1
    <3>3. at = Places(rows, hit)
      OBVIOUS
    <3>4. got = Select(at, Matching(rows, at, q))
      BY <2>7, <2>10
    <3> HIDE DEF got, at, hit, ix, cs
    <3>5. ElemsOf(got) = {j \in DOMAIN rows : EqRow(q, rows[j])} /\ ElementsOnce(got)
      BY <2>1, <2>4, <2>5, <2>6, <3>2, <3>3, <3>4, LookupIsScan
    <3>6. ElemsOf(kdb_query_scan(rows, q)) = {j \in DOMAIN rows : EqRow(q, rows[j])}
      BY <2>1, ScanElements
    <3> QED BY <3>5, <3>6 DEF got
  <2> QED BY <2>9, <2>10
<1>2. Spec => []TypeOK
  BY TypeCorrect
<1> QED
  BY <1>1, <1>2, PTL
=============================================================================
