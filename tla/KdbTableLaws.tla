---------------------------- MODULE KdbTableLaws ----------------------------
(***************************************************************************)
(* What a table promises: its indexes only speed queries up, its writes    *)
(* break no constraint, its ALTERs are complete or have no effect.         *)
(***************************************************************************)
EXTENDS KdbTable

\* An index holds what a rebuild would give it now.
Fresh(ix) == ix = kdb_index_rebuild(ix, rows)
AllFresh == \A i \in DOMAIN idx : Fresh(idx[i])

\* Values that compare equal also hash alike, and the bucket is not cut off.
SameBuckets(ix, q) ==
    /\ Len(Bucket(ix, q)) <= LookupCap
    /\ \A i \in DOMAIN rows : EqRow(q, rows[i]) => Key(ix, rows[i]) = Key(ix, q)

ElementsOnce(s) == \A i, j \in DOMAIN s : s[i] = s[j] => i = j

\* kdb_query_execute (query.c:373-456): through a fresh index whose key
\* values are stored in the type they are asked for in, a query returns the
\* rows a scan returns, each once, whichever way the offsets moved before.
AnswersExact ==
    \A q \in Queries :
        LET got == kdb_query_execute(rows, idx, q)
            i == kdb_index_find_composite(idx, DOMAIN q)
        IN i # 0 /\ Fresh(idx[i]) /\ SameBuckets(idx[i], q) =>
               ElemsOf(got) = ElemsOf(kdb_query_scan(rows, q)) /\ ElementsOnce(got)

\* kdb_table_update, kdb_table_delete, kdb_table_compact and kdb_table_open
\* leave every index fresh, even one an ALTER had left behind; an insert and
\* CREATE INDEX keep fresh indexes fresh.  (An insert whose flush failed says
\* KDB_OK with the header still dirty; the row may be gone, its nodes are not.)
IndexesFollowWrites ==
    [][ /\ last'.ok /\ last'.op \in {"update", "delete", "compact", "reopen"} => AllFresh'
        /\ last'.op \in {"create_index", "create_composite_index", "drop_index"} /\ AllFresh => AllFresh'
        /\ last'.op \in {"insert", "insert_batch"} /\ AllFresh /\ ~ (last'.ok /\ dirty') => AllFresh' ]_vars

---------------------------------------------------------------------------

RowBreaks(h, r) ==
    \/ \E i \in 1 .. h.n : ~h.cols[i].nullable /\ IsNull(r, h.cols[i].name)
    \/ \E k \in DOMAIN h.checks : ~CheckHolds(h.checks[k], r)
PairBreaks(h, r, s) ==
    \E i \in 1 .. h.n :
        LET c == h.cols[i] IN
        c.unique /\ ~IsNull(r, c.name) /\ ~IsNull(s, c.name) /\ Matches(r[c.name], "eq", s[c.name])

Breaking(h, rs) == {r \in ElemsOf(rs) : RowBreaks(h, r)}
Clean(h, rs) == Breaking(h, rs) = {} /\ \A i, j \in DOMAIN rs : i # j => ~PairBreaks(h, rs[i], rs[j])

\* kdb_table_check_insert_constraints and kdb_table_check_update_constraints
\* (table.c:958-1134): a table that satisfies NOT NULL, UNIQUE and CHECK
\* still does after any write, a batch refused half way and an update of
\* several rows to one value included; a write adds no breaking row to a
\* table that already has some.
WritesKeepConstraints ==
    [][ last'.op \in {"insert", "insert_batch", "update", "delete", "compact"} =>
            /\ Clean(hdr, rows) => Clean(hdr', rows')
            /\ Breaking(hdr', rows') \subseteq Breaking(hdr, rows) ]_vars

\* The change of a column's type is in every row, in the header and in the file.
TypeChanged ==
    \E i \in 1 .. hdr.n :
        LET c == hdr.cols[i].name IN
        /\ hdr'.cols[i].type # hdr.cols[i].type /\ disk' = hdr'
        /\ \A k \in DOMAIN rows : ~IsNull(rows[k], c) => rows'[k][c].t = hdr'.cols[i].type

\* kdb_table_alter_column_type (table.c:495-566): either every row that has a
\* value in the column now holds it in the new type, in the file and in the
\* header, even if the flush after the rewrite failed and the header stays dirty;
\* or, unless the file handle was lost, nothing has changed.
TypeChangeAllOrNothing ==
    last'.op = "alter_column_type" =>
        IF last'.ok THEN TypeChanged
        ELSE fp' => UNCHANGED <<hdr, disk, rows, idx>> \/ (TypeChanged /\ dirty')

\* kdb_table_drop_column, kdb_table_rename_column and kdb_table_alter_column_type
\* flush the header once more after the rewrite.  If only that fails, they
\* have done all of it, and the header in the file is the one in memory.
AlteredAllTheSame ==
    /\ disk' = hdr' /\ dirty'
    /\ \E c \in Names :
        \/ last'.op = "drop_column" /\ rows' = FieldDropped(rows, c)
        \/ /\ last'.op = "rename_column"
           /\ \E b \in Names : \E old \in SUBSET HavingBoth(rows, c, b) : rows' = FieldRenamed(rows, c, b, old)
        \/ last'.op = "alter_column_type" /\ \E t \in Types : rows' = FieldCast(rows, c, t)

\* A failed call never changes the rows of a file whose handle it keeps, but
\* for such an ALTER; a batch keeps the rows before the one refused, in place.
FailureKeepsRows ==
    ~last'.ok /\ fp' => \/ IF last'.op = "insert_batch" THEN rows = SubSeq(rows', 1, Len(rows)) ELSE rows' = rows
                       \/ AlteredAllTheSame

\* A call that fails leaves the stored rows as they were, or is an ALTER that has
\* done all but its last flush; a type change is complete in rows, header and
\* file or has no effect at all.
FailuresAreClean == [][FailureKeepsRows /\ TypeChangeAllOrNothing]_vars

\* Every call that returned KDB_OK left the header of the file equal to the
\* one in memory, so that a reopen finds the schema the caller was told of.
\* kdb_table_insert and kdb_table_insert_batch do not look at their flush
\* (table.c:1178, 1224): when it fails, the header is still marked to be written.
AckedSchemaOnDisk == last.ok => disk = hdr \/ (last.op \in {"insert", "insert_batch"} /\ dirty)

\* The comment over kdb_table_alter_column_type (table.c:516-518): it converts
\* every row's value "via kdb_value_cast -- NULL stays NULL"; DOCUMENTATION.md:795
\* says the same, "`NULL` stays `NULL`".  kdb_value_cast (types.c:855-859) makes
\* of a NULL the zero of the new type.
NullStaysNull ==
    [][last'.op = "alter_column_type" =>
        \A k \in DOMAIN rows : \A c \in DOMAIN rows[k] : IsNull(rows[k], c) => IsNull(rows'[k], c)]_vars

\* DOCUMENTATION.md:771 "A composite index is purely a lookup accelerator,
\* same as a single-column one": a query returns the rows of a scan.
IndexOnlyAccelerates ==
    fp => \A q \in Queries : ElemsOf(kdb_query_execute(rows, idx, q)) = ElemsOf(kdb_query_scan(rows, q))
=============================================================================
