--------------------------- MODULE KdbForeignKeys ---------------------------
(***************************************************************************)
(* Foreign keys across the tables of a database (kumdb.c): what an insert  *)
(* or update must find, and what a delete or update does to the rows that  *)
(* point at the ones it changes: RESTRICT, CASCADE, SET NULL, recursively. *)
(*                                                                         *)
(* An argument of a call gives values to some fields; a row has a value    *)
(* for each, Null for the ones it was never given.  A foreign key of one   *)
(* column lives in that column, one of several in the header; here both    *)
(* are records, the first with Len(cols) = 1.                              *)
(* One call is one step: nothing else runs inside it.  A cascade writes    *)
(* table after table, and a call that fails half way keeps what it wrote.  *)
(* Calls on a table without a file, which kdb_add would create without any *)
(* constraint, are left out.                                               *)
(*                                                                         *)
(* The indexes a query may go through are KdbTable's; here they are what   *)
(* they miss: a set of rows, any of Misses, that the world may change from *)
(* one call to the next.                                                   *)
(***************************************************************************)
EXTENDS Integers, Sequences, FiniteSets, SequencesExt, Lists

CONSTANTS
    Tables, ColOrder,      \* names of tables; columns in schema order, then id and,
                           \* where the model has it, updated_at
    Vals, Null,            \* the values of a field, Null among them
    NotNull, Unique,       \* the pairs <<table, column>> declared so
    Default,               \* [Tables -> the fields with a DEFAULT]
    Schemas,               \* the sequences of foreign keys to start with
    NewKeys,               \* the foreign keys to add
    Records, Imports, Patches, Queries,   \* arguments of calls
    Misses,                \* the sets of ids that the indexes may leave out
    Clock,                 \* what time() may return
    MaxDepth,              \* KDB_FK_MAX_CASCADE_DEPTH
    MaxReferencers,        \* KDB_MAX_FK_REFERENCERS
    MaxCompositeReferencers,   \* KDB_MAX_COMPOSITE_FK_REFERENCERS
    MaxCompositeKeys,      \* KDB_MAX_COMPOSITE_FKS
    MaxRows, MaxAlters, MaxId   \* bounds of the model

Cols == {ColOrder[i] : i \in DOMAIN ColOrder}
Row == [Cols -> Vals]
Fields == UNION {[F -> Vals] : F \in SUBSET Cols}
Action == {"restrict", "cascade", "setnull"}
Distinct(s) == \A i, j \in DOMAIN s : s[i] = s[j] => i = j
Pseudo == {"id", "updated_at"}
\* A key has columns of its own table and, one by one, columns of another.  The
\* pseudo columns are in no table's header, so no part of a key, but a key of
\* one column may refer to them.
Key == {fk \in [t : Tables, cols : Seq(Cols \ Pseudo), ref : Tables, refcols : Seq(Cols), del : Action, upd : Action] :
            /\ Len(fk.cols) = Len(fk.refcols) /\ Len(fk.cols) >= 1
            /\ Distinct(fk.cols) /\ Distinct(fk.refcols)}

ASSUME ForeignKeyAssumption ==
    /\ {MaxDepth, MaxReferencers, MaxCompositeReferencers, MaxCompositeKeys, MaxRows, MaxAlters, MaxId} \subseteq Nat
    /\ ColOrder \in Seq(Cols) /\ "id" \in Cols
    /\ Null \in Vals /\ 1 .. MaxId \subseteq Vals /\ Null \notin 1 .. MaxId
    /\ Default \in [Tables -> Fields] /\ \A t \in Tables : DOMAIN Default[t] \cap Pseudo = {}
    /\ Schemas \subseteq Seq(Key) /\ NewKeys \subseteq Key
    /\ Records \subseteq Fields /\ Queries \subseteq Fields
    /\ \A rs \in Imports : rs \in Seq(Fields)
    /\ \A p \in Patches : p \in Fields /\ p # << >> /\ DOMAIN p \cap Pseudo = {}
    /\ {} \in Misses /\ Clock \subseteq Vals \ {Null}

VARIABLES
    rows,      \* [Tables -> sequence of rows]
    exists,    \* the tables that have a file
    fks,       \* the foreign keys, in the order the directory lists them
    next_id,
    unseen,    \* the ids of the rows that a query through an index does not find
    now,
    last,      \* the last call, whether it returned KDB_OK, what it was to delete
    alters

World == <<unseen, now>>
vars == <<rows, exists, fks, next_id, World, last, alters>>

---------------------------------------------------------------------------

Val(r, c) == IF c \in DOMAIN r THEN r[c] ELSE Null
MatchesAll(q, r) == \A c \in DOMAIN q : Val(r, c) # Null /\ Val(r, c) = q[c]
Matching(R, t, q) == {r \in Range(R[t]) : MatchesAll(q, r)}
\* kdb_query_execute: a query with a filter may go through an index.  The counts,
\* the updates and the deletes scan.
Found(R, t, q) == Only(R[t], {r \in Matching(R, t, q) : DOMAIN q = {} \/ r["id"] \notin unseen})
Patched(r, p) == [c \in DOMAIN r \cup DOMAIN p |-> IF c \in DOMAIN p THEN p[c] ELSE r[c]]
Stamped(r) == [c \in DOMAIN r |-> IF c = "updated_at" THEN now ELSE r[c]]
KeyOf(r, cs) == [k \in DOMAIN cs |-> Val(r, cs[k])]
Query(cs, key) == [c \in Range(cs) |-> key[CHOOSE k \in DOMAIN cs : cs[k] = c]]
Whole(key) == \A k \in DOMAIN key : key[k] # Null   \* MATCH SIMPLE

\* kdb_table_update and its own constraints (KdbTable): [ok, rows].
kdb_table_update(R, t, q, p) ==
    LET new == [i \in DOMAIN R[t] |-> IF MatchesAll(q, R[t][i]) THEN Stamped(Patched(R[t][i], p)) ELSE R[t][i]]
        bad == \E i \in DOMAIN new, c \in Range(ColOrder) :
                  /\ MatchesAll(q, R[t][i])
                  /\ \/ <<t, c>> \in NotNull /\ Val(new[i], c) = Null
                     \/ /\ <<t, c>> \in Unique /\ Val(new[i], c) # Null
                        /\ \E j \in DOMAIN new \ {i} : Val(new[j], c) = Val(new[i], c)
    IN IF bad THEN [ok |-> FALSE, rows |-> R] ELSE [ok |-> TRUE, rows |-> [R EXCEPT ![t] = new]]

kdb_table_delete(R, t, q) == [R EXCEPT ![t] = Only(@, Range(@) \ Matching(R, t, q))]

\* kdb_table_insert_batch: defaults, then the table's constraints; the first
\* record refused ends it.
Full(t, r, id) == Stamped([c \in Cols |-> IF c = "id" THEN id ELSE IF c \in DOMAIN r THEN r[c] ELSE Val(Default[t], c)])
Refused(R, t, full) ==
    \E c \in Cols :
        \/ <<t, c>> \in NotNull /\ Val(full, c) = Null
        \/ <<t, c>> \in Unique /\ Val(full, c) # Null /\ Matching(R, t, [x \in {c} |-> full[c]]) # {}
Inserted(acc, t, r) ==
    IF ~acc.ok \/ Refused(acc.rows, t, Full(t, r, acc.id)) THEN [acc EXCEPT !.ok = FALSE]
    ELSE [ok |-> TRUE, rows |-> [acc.rows EXCEPT ![t] = Append(@, Full(t, r, acc.id))], id |-> acc.id + 1]
kdb_table_insert_batch(R, t, rs, id) ==
    LET after[i \in 0 .. Len(rs)] ==
            IF i = 0 THEN [ok |-> TRUE, rows |-> R, id |-> id] ELSE Inserted(after[i - 1], t, rs[i])
    IN  after[Len(rs)]

---------------------------------------------------------------------------
\* The referencing side: the key is partly NULL or some row has it.

HasParent(fk, key) == fk.ref \in exists /\ Matching(rows, fk.ref, Query(fk.refcols, key)) # {}

kdb__check_fk_child(t, r) ==
    \A i \in DOMAIN fks :
        LET fk == fks[i] IN
        fk.t = t /\ Len(fk.cols) = 1 /\ Whole(KeyOf(r, fk.cols)) => HasParent(fk, KeyOf(r, fk.cols))
kdb__check_composite_fk_child(t, r) ==
    \A i \in DOMAIN fks :
        LET fk == fks[i] IN
        fk.t = t /\ Len(fk.cols) > 1 /\ Whole(KeyOf(r, fk.cols)) => HasParent(fk, KeyOf(r, fk.cols))

\* Only the columns the patch sets.
kdb__check_fk_child_update(t, p) ==
    \A i \in DOMAIN fks :
        LET fk == fks[i] IN
        fk.t = t /\ Len(fk.cols) = 1 /\ fk.cols[1] \in DOMAIN p /\ p[fk.cols[1]] # Null =>
            HasParent(fk, KeyOf(p, fk.cols))
\* Each affected row, the components that are not patched from the row.
kdb__check_composite_fk_child_update(t, affected, p) ==
    \A i \in DOMAIN fks :
        LET fk == fks[i] IN
        fk.t = t /\ Len(fk.cols) > 1 /\ Range(fk.cols) \cap DOMAIN p # {} =>
            /\ fk.ref \in exists
            /\ \A j \in DOMAIN affected :
                LET key == KeyOf(Patched(affected[j], p), fk.cols) IN Whole(key) => HasParent(fk, key)

---------------------------------------------------------------------------
\* The referenced side.  patch is NoPatch for a delete.

NoPatch == << >>
Capped(s, cap) == SubSeq(s, 1, IF Len(s) < cap THEN Len(s) ELSE cap)
Referencers(t) == {fk \in Range(fks) : fk.t \in exists /\ fk.ref = t}
ColumnReferencers(t, c) == {fk \in Referencers(t) : fk.refcols = <<c>>}
CompositeReferencers(t) == {fk \in Referencers(t) : Len(fk.cols) > 1}

kdb__find_fk_referencers(t, c) ==
    Capped(Only(fks, ColumnReferencers(t, c)), MaxReferencers)
kdb__find_composite_fk_referencers(t) ==
    Capped(Only(fks, CompositeReferencers(t)), MaxCompositeReferencers)

Touched(cs, patch) == patch = NoPatch \/ Range(cs) \cap DOMAIN patch # {}

\* The visits of the nested loops: column, row, key for the keys of one column;
\* key, row for the others.
ByRow(affected, refs) ==
    FlattenSeq([i \in DOMAIN affected |-> [j \in DOMAIN refs |-> [row |-> affected[i], fk |-> refs[j]]]])
ByKey(refs, affected) ==
    FlattenSeq([j \in DOMAIN refs |-> [i \in DOMAIN affected |-> [row |-> affected[i], fk |-> refs[j]]]])
SingleVisits(t, affected, patch) ==
    FlattenSeq([k \in DOMAIN ColOrder |->
        IF Touched(<<ColOrder[k]>>, patch) THEN ByRow(affected, kdb__find_fk_referencers(t, ColOrder[k])) ELSE << >>])
CompositeVisits(t, affected, patch) ==
    LET refs == kdb__find_composite_fk_referencers(t)
    IN  ByKey(Only(refs, {fk \in Range(refs) : Touched(fk.refcols, patch)}), affected)

Failed(R) == [ok |-> FALSE, rows |-> R]
Done(R) == [ok |-> TRUE, rows |-> R]
Args(R, t, affected, patch, composite) ==
    [rows |-> R, t |-> t, affected |-> affected, patch |-> patch, composite |-> composite]

\* In what follows enforce is Enforce of what is left of the depth.
\* Mutant: keys of several columns are not looked at.
EnforceBoth_single(enforce, R, t, affected, patch) == enforce[Args(R, t, affected, patch, FALSE)]
\* Both kinds of keys, single ones first.
EnforceBoth(enforce, R, t, affected, patch) ==
    LET single == enforce[Args(R, t, affected, patch, FALSE)]
    IN  IF single.ok THEN enforce[Args(single.rows, t, affected, patch, TRUE)] ELSE single

\* A cascaded write of one field looks only at the single-column keys that
\* point at it.
kdb__cascade_set_one_field(enforce, R, t, q, p) ==
    LET res == enforce[Args(R, t, Found(R, t, q), p, FALSE)]
    IN  IF res.ok THEN kdb_table_update(res.rows, t, q, p) ELSE res
kdb__cascade_set_composite_fields(enforce, R, t, q, p) ==
    LET res == EnforceBoth(enforce, R, t, Found(R, t, q), p)
    IN  IF res.ok THEN kdb_table_update(res.rows, t, q, p) ELSE res
CascadeDelete(enforce, R, t, q) ==
    LET res == EnforceBoth(enforce, R, t, Found(R, t, q), NoPatch)
    IN  IF res.ok THEN Done(kdb_table_delete(res.rows, t, q)) ELSE res

\* RESTRICT.
Forbid(R, t, q) == IF Matching(R, t, q) = {} THEN Done(R) ELSE Failed(R)

ActionOf(w, patch) == IF patch = NoPatch THEN w.fk.del ELSE w.fk.upd
\* The rows that point at w.row, and what their key becomes.
Children(w) == Query(w.fk.cols, KeyOf(w.row, w.fk.refcols))
NewKey(w, patch) ==
    IF ActionOf(w, patch) = "setnull" THEN [k \in DOMAIN w.fk.cols |-> Null]
    ELSE KeyOf(Patched(w.row, patch), w.fk.refcols)

\* Mutant: a cascading delete does not look who points at the rows it deletes.
Act_shallow(enforce, R, w, patch) ==
    IF w.fk.del = "restrict" THEN Forbid(R, w.fk.t, Children(w))
    ELSE Done(kdb_table_delete(R, w.fk.t, Children(w)))
\* One row, one key that points at it.
Act(enforce, R, w, patch) ==
    IF ActionOf(w, patch) = "restrict" THEN Forbid(R, w.fk.t, Children(w))
    ELSE IF ActionOf(w, patch) = "cascade" /\ patch = NoPatch THEN CascadeDelete(enforce, R, w.fk.t, Children(w))
    ELSE IF Len(w.fk.cols) = 1
         THEN kdb__cascade_set_one_field(enforce, R, w.fk.t, Children(w), Query(w.fk.cols, NewKey(w, patch)))
         ELSE kdb__cascade_set_composite_fields(enforce, R, w.fk.t, Children(w), Query(w.fk.cols, NewKey(w, patch)))
\* The visits one by one, until one fails; a row whose key is partly NULL is
\* passed over.
Acted(enforce, res, w, patch) ==
    IF res.ok /\ Whole(KeyOf(w.row, w.fk.refcols)) THEN Act(enforce, res.rows, w, patch) ELSE res
ActAll(enforce, R, visits, patch) ==
    LET after[n \in 0 .. Len(visits)] ==
            IF n = 0 THEN Done(R) ELSE Acted(enforce, after[n - 1], visits[n], patch)
    IN  after[Len(visits)]

\* kdb__enforce_fk_referential_actions and its composite counterpart, where the
\* chain of cascades may still become left long.
Call == [rows : [Tables -> Seq(Row)], t : Tables, affected : Seq(Row), patch : Fields, composite : BOOLEAN]
VisitsOf(c) == IF c.composite THEN CompositeVisits(c.t, c.affected, c.patch) ELSE SingleVisits(c.t, c.affected, c.patch)
Enforce[left \in 0 .. MaxDepth + 1] ==
    [c \in Call |-> IF left = 0 THEN Failed(c.rows) ELSE ActAll(Enforce[left - 1], c.rows, VisitsOf(c), c.patch)]
Enforced == Enforce[MaxDepth + 1]

---------------------------------------------------------------------------
\* Calls.

Returned(op, ok) == last' = [op |-> op, ok |-> ok]
ReturnedDelete(t, q, ok) == last' = [op |-> "delete", ok |-> ok, t |-> t, q |-> q]

\* The keys are checked before the defaults are filled in.
kdb_add(t, r) ==
    LET res == kdb_table_insert_batch(rows, t, <<r>>, next_id) IN
    /\ t \in exists /\ Len(rows[t]) < MaxRows /\ next_id <= MaxId
    /\ IF kdb__check_fk_child(t, r) /\ kdb__check_composite_fk_child(t, r) /\ res.ok
       THEN rows' = res.rows /\ next_id' = res.id /\ Returned("add", TRUE)
       ELSE Returned("add", FALSE) /\ UNCHANGED <<rows, next_id>>
    /\ UNCHANGED <<exists, fks, World, alters>>

\* No foreign key is looked at.
kdb_batch_import(t, rs) ==
    LET res == kdb_table_insert_batch(rows, t, rs, next_id) IN
    /\ t \in exists /\ Len(rows[t]) + Len(rs) <= MaxRows /\ next_id + Len(rs) <= MaxId + 1
    /\ rows' = res.rows /\ next_id' = res.id
    /\ Returned("import", res.ok)
    /\ UNCHANGED <<exists, fks, World, alters>>

\* The cascades are written before the table's own constraints are checked.
kdb_update(t, q, p) ==
    LET affected == Found(rows, t, q)
        acted == EnforceBoth(Enforced, rows, t, affected, p)
        res == IF ~(kdb__check_fk_child_update(t, p) /\ kdb__check_composite_fk_child_update(t, affected, p))
               THEN Failed(rows)
               ELSE IF acted.ok THEN kdb_table_update(acted.rows, t, q, p) ELSE acted
    IN /\ t \in exists
       /\ rows' = res.rows
       /\ Returned("update", res.ok)
       /\ UNCHANGED <<exists, fks, next_id, World, alters>>

\* Mutant: the rows go before the keys are looked at.
kdb_delete_first(t, q) ==
    LET res == EnforceBoth(Enforced, kdb_table_delete(rows, t, q), t, Found(rows, t, q), NoPatch)
    IN /\ t \in exists
       /\ rows' = res.rows
       /\ ReturnedDelete(t, q, res.ok)
       /\ UNCHANGED <<exists, fks, next_id, World, alters>>
kdb_delete(t, q) ==
    LET res == CascadeDelete(Enforced, rows, t, q)
    IN /\ t \in exists
       /\ rows' = res.rows
       /\ ReturnedDelete(t, q, res.ok)
       /\ UNCHANGED <<exists, fks, next_id, World, alters>>

Alter == alters < MaxAlters /\ alters' = alters + 1

\* SET NULL needs nullable columns.
SetNullFits(fk) == "setnull" \in {fk.del, fk.upd} => \A c \in Range(fk.cols) : <<fk.t, c>> \notin NotNull

\* A column has one key; a set of columns, in any order, has one.
kdb_table_add_foreign_key(fk) ==
    /\ Len(fk.cols) = 1 /\ SetNullFits(fk)
    /\ \A i \in DOMAIN fks : ~(fks[i].t = fk.t /\ fks[i].cols = fk.cols)
    /\ fks' = Append(fks, fk)
kdb_table_add_composite_foreign_key(fk) ==
    LET own == Only(fks, {k \in Range(fks) : k.t = fk.t /\ Len(k.cols) > 1}) IN
    /\ Len(fk.cols) > 1 /\ SetNullFits(fk) /\ Len(own) < MaxCompositeKeys
    /\ \A i \in DOMAIN own : ~(Len(own[i].cols) = Len(fk.cols) /\ Range(own[i].cols) = Range(fk.cols))
    /\ fks' = Append(fks, fk)
kdb_table_drop_foreign_key(i) == Len(fks[i].cols) = 1 /\ fks' = RemoveAt(fks, i)
kdb_table_drop_composite_foreign_key(i) == Len(fks[i].cols) > 1 /\ fks' = RemoveAt(fks, i)

\* Both tables are there; the rows they have are not checked.
kdb_add_foreign_key(fk) ==
    /\ Alter /\ {fk.t, fk.ref} \subseteq exists
    /\ kdb_table_add_foreign_key(fk)
    /\ Returned("add_foreign_key", TRUE)
    /\ UNCHANGED <<rows, exists, next_id, World>>

kdb_add_composite_foreign_key(fk) ==
    /\ Alter /\ {fk.t, fk.ref} \subseteq exists
    /\ Range(fk.refcols) \cap Pseudo = {}
    /\ kdb_table_add_composite_foreign_key(fk)
    /\ Returned("add_foreign_key", TRUE)
    /\ UNCHANGED <<rows, exists, next_id, World>>

kdb_drop_foreign_key(i) ==
    /\ Alter /\ kdb_table_drop_foreign_key(i)
    /\ Returned("drop_foreign_key", TRUE)
    /\ UNCHANGED <<rows, exists, next_id, World>>

kdb_drop_composite_foreign_key(i) ==
    /\ Alter /\ kdb_table_drop_composite_foreign_key(i)
    /\ Returned("drop_foreign_key", TRUE)
    /\ UNCHANGED <<rows, exists, next_id, World>>

\* The keys of the table go with its file, those that point at it stay.
kdb_drop_table(t) ==
    /\ Alter /\ t \in exists
    /\ exists' = exists \ {t} /\ rows' = [rows EXCEPT ![t] = << >>]
    /\ fks' = Only(fks, {fk \in Range(fks) : fk.t # t})
    /\ Returned("drop_table", TRUE)
    /\ UNCHANGED <<next_id, World>>

\* The file moves with its own keys; those that point at the old name keep it.
kdb_rename_table(t, u) ==
    /\ Alter /\ t \in exists /\ u \notin exists
    /\ exists' = (exists \ {t}) \cup {u}
    /\ rows' = [rows EXCEPT ![t] = << >>, ![u] = rows[t]]
    /\ fks' = [i \in DOMAIN fks |-> IF fks[i].t = t THEN [fks[i] EXCEPT !.t = u] ELSE fks[i]]
    /\ Returned("rename_table", TRUE)
    /\ UNCHANGED <<next_id, World>>

\* Between two calls the indexes come to miss other rows (other columns dropped, a
\* value with more rows than an index returns, texts read as another type) or are
\* rebuilt, and time goes on.
Meanwhile ==
    /\ unseen' \in Misses /\ now' \in Clock
    /\ Returned("meanwhile", TRUE)
    /\ UNCHANGED <<rows, exists, fks, next_id, alters>>

\* Every name has a table, or only those the keys name.
Init ==
    /\ rows = [t \in Tables |-> << >>]
    /\ fks \in Schemas
    /\ exists \in {Tables, UNION {{fks[i].t, fks[i].ref} : i \in DOMAIN fks}}
    /\ next_id = 1
    /\ unseen = {} /\ now \in Clock
    /\ last = [op |-> "open", ok |-> TRUE]
    /\ alters = 0

Next ==
    \/ \E t \in Tables, r \in Records : kdb_add(t, r)
    \/ \E t \in Tables, rs \in Imports : kdb_batch_import(t, rs)
    \/ \E t \in Tables, q \in Queries, p \in Patches : kdb_update(t, q, p)
    \/ \E t \in Tables, q \in Queries : kdb_delete(t, q)
    \/ \E fk \in NewKeys : kdb_add_foreign_key(fk)
    \/ \E fk \in NewKeys : kdb_add_composite_foreign_key(fk)
    \/ \E i \in DOMAIN fks : kdb_drop_foreign_key(i)
    \/ \E i \in DOMAIN fks : kdb_drop_composite_foreign_key(i)
    \/ \E t \in Tables : kdb_drop_table(t)
    \/ \E t, u \in Tables : kdb_rename_table(t, u)
    \/ Meanwhile

Spec == Init /\ [][Next]_vars

---------------------------------------------------------------------------

\* The rows of a key's table that point at nothing.
Orphans(R, fk) ==
    {r \in Range(R[fk.t]) : Whole(KeyOf(r, fk.cols)) /\ Matching(R, fk.ref, Query(fk.refcols, KeyOf(r, fk.cols))) = {}}
AllOrphans(R) == UNION {{<<i, r["id"]>> : r \in Orphans(R, fks[i])} : i \in DOMAIN fks}

\* No table points at itself, no column is part of two keys or a key of a
\* key, no key has a default, none refers to what every update changes.
Disjoint ==
    /\ \A i \in DOMAIN fks :
        /\ fks[i].t # fks[i].ref /\ "updated_at" \notin Range(fks[i].refcols)
        /\ Range(fks[i].cols) \cap DOMAIN Default[fks[i].t] = {}
    /\ \A i, j \in DOMAIN fks :
        /\ i # j /\ fks[i].t = fks[j].t => Range(fks[i].cols) \cap Range(fks[j].cols) = {}
        /\ fks[i].t = fks[j].ref /\ Len(fks[i].cols) = 1 /\ Len(fks[j].cols) > 1 =>
               Range(fks[i].cols) \cap Range(fks[j].refcols) = {}

\* No more keys point at a column, or at a table, than a call looks at.
WithinCaps ==
    \A t \in Tables :
        /\ \A c \in Cols : Len(Only(fks, ColumnReferencers(t, c))) <= MaxReferencers
        /\ Len(Only(fks, CompositeReferencers(t))) <= MaxCompositeReferencers

\* No chain of keys leads back to the table it starts from.
NoCircle ==
    \E rank \in [Tables -> 0 .. Cardinality(Tables)] : \A i \in DOMAIN fks : rank[fks[i].ref] < rank[fks[i].t]

\* kdb_add, kdb_update and kdb_delete (kumdb.c:1562, 2595, 2645): where the
\* keys do not overlap and there are not too many, and no index leaves out a
\* row, a call that returned KDB_OK leaves no row that points at nothing unless
\* it pointed at nothing before, however far the cascade went through tables,
\* keys and actions.  An insert only counts, whatever the indexes miss.  An
\* update may find its rows changed by its own cascade when the keys form a
\* circle, and then leaves the rows the cascade has moved without a parent; so
\* may a delete that asks for updated_at, which its cascade changes.
AcceptedWritesKeepReferences ==
    [][ /\ last'.op \in {"add", "update", "delete"} /\ last'.ok /\ Disjoint /\ WithinCaps
        /\ last'.op # "add" => unseen = {}
        /\ last'.op = "update" => NoCircle
        /\ last'.op = "delete" => "updated_at" \notin DOMAIN last'.q
        => AllOrphans(rows') \subseteq AllOrphans(rows) ]_vars

OnlyRestricts == \A i \in DOMAIN fks : {fks[i].del, fks[i].upd} = {"restrict"}

\* Where every action is RESTRICT, a call that fails has changed nothing.
RestrictLeavesNothingBehind ==
    [][ ~last'.ok /\ last'.op # "import" /\ OnlyRestricts => rows' = rows ]_vars

\* The comment of kdb__enforce_fk_referential_actions (kumdb.c:1113) says of
\* RESTRICT that it "rejects the write if any referencing row remains": with no
\* other action, an accepted update or delete leaves no row that points at
\* nothing.  It does when the index its rows are fetched through misses one, and
\* when the key refers to updated_at, which no patch names.
RestrictRejects ==
    [][ last'.op \in {"update", "delete"} /\ last'.ok /\ OnlyRestricts =>
            AllOrphans(rows') \subseteq AllOrphans(rows) ]_vars

Ids(R, t) == {R[t][i]["id"] : i \in DOMAIN R[t]}
AllIds(R) == UNION {Ids(R, t) : t \in Tables}
RowOf(R, i) == CHOOSE r \in UNION {Range(R[t]) : t \in Tables} : r["id"] = i

\* The rows that point, through a key that cascades, at a row of S.
Pointing(R, S) ==
    UNION {{r["id"] : r \in {x \in Range(R[fks[i].t]) :
                /\ fks[i].del = "cascade" /\ Whole(KeyOf(x, fks[i].cols))
                /\ \E s \in S \cap Ids(R, fks[i].ref) : KeyOf(RowOf(R, s), fks[i].refcols) = KeyOf(x, fks[i].cols)}} :
           i \in DOMAIN fks}

\* A successful delete with keys that cascade or restrict, not too many, and no
\* index that leaves out a row, removes exactly the rows it was to delete and
\* the rows that point at a removed row: the least set that holds the first and
\* is closed under the keys, whatever order the loops visit them in.
DeleteRemovesClosure ==
    [][ /\ last'.op = "delete" /\ last'.ok /\ unseen = {} /\ WithinCaps
        /\ \A i \in DOMAIN fks : fks[i].del # "setnull"
        => LET gone == AllIds(rows) \ AllIds(rows')
               hit == {r["id"] : r \in Matching(rows, last'.t, last'.q)}
           IN /\ hit \subseteq gone /\ Pointing(rows, gone) \subseteq gone
              /\ \A S \in SUBSET gone : hit \subseteq S /\ Pointing(rows, S) \subseteq S => S = gone ]_vars
=============================================================================
