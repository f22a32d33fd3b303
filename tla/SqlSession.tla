----------------------------- MODULE SqlSession -----------------------------
(***************************************************************************)
(* kdb_exec_sql on one connection: the dispatch of a statement, the SQL    *)
(* transaction kept in db->sql_tx, the view registry __kumdb_views__,      *)
(* INSERT, UPDATE and DELETE with RETURNING and ON CONFLICT, and the two   *)
(* forms of WITH, which run as several storage calls.  A SELECT is reduced *)
(* to the relation it reads (SqlSelect has the rest of it), and kdb_tx_*   *)
(* to what KdbTx shows of it when no file operation fails.                 *)
(***************************************************************************)
EXTENDS Naturals, Integers, FiniteSets, TLC, Functions, SequencesExt, FiniteSetsExt, Folds, Lists

CONSTANTS
    Names,            \* the names of tables and views
    Odd,              \* those a "name=..." filter reads as a bool, a number or null
    Vals, Missing,    \* the values of a column; a row that lacks the column
    Typed, Cut,       \* the texts a filter reads as a number, a bool or null; what
                      \* ON CONFLICT keeps of a value in its filter (255 bytes)
    Lossy,            \* the tables with an index that may leave rows out (KdbTable)
    Savepoints,
    Tuples, Sets, Wheres,    \* rows to insert, SET assignments, WHERE conditions
    CteLists,         \* the lists of a WITH and the relation its main SELECT reads
    Recursions,       \* a WITH RECURSIVE: its name, base case, recursive term (the
                      \* values each value leads to), UNION ALL or not, what is wrong with it
    InitStates,       \* tables and views a connection may find, and whether they ever collided
    MaxRows, MaxSaves, MaxViews, MaxStmts, MaxFaults,    \* bounds of the model
    MaxCtes,          \* KDB_SQL_MAX_CTES
    MaxIters          \* KDB_SQL_MAX_RECURSIVE_ITERS

NoTable == [there |-> FALSE, next |-> 0, rows |-> << >>]
Table(next, rows) == [there |-> TRUE, next |-> next, rows |-> rows]
Cols == {"k", "v"}
Tuple == [k : Vals, v : Vals \cup {Missing}]
Row == [id : Nat, k : Vals, v : Vals \cup {Missing}]
\* Every row has an id of its own, below the next one (IdsUnique of KdbStorage).
Numbered(t) ==
    /\ t.rows \in Seq(Row) /\ t.next \in Nat
    /\ \A i, j \in DOMAIN t.rows : t.rows[i].id < t.next /\ (t.rows[i].id = t.rows[j].id => i = j)
View == [name : Names, of : Names]
\* No two views have one name, if a filter finds it.
Unique(vs) == \A v, w \in Range(vs) : v.name = w.name /\ v.name \notin Odd => v = w

ASSUME SqlAssumption ==
    /\ \A s \in InitStates :
        /\ s.tables = [n \in Names |-> s.tables[n]]
        /\ \A n \in Names : (s.tables[n].there \/ s.tables[n] = NoTable) /\ Numbered(s.tables[n])
        /\ s.views \in Seq(View) /\ Unique(s.views)
        /\ s.views = << >> \/ s.collided
    /\ \A w \in CteLists : w[1] \in Seq(View) \ {<< >>} /\ w[2] \in Names
    /\ \A w \in Recursions : w.name \in Names /\ w.base \in Names /\ w.edges \in [Vals -> Seq(Vals)]
    /\ Tuples \subseteq Tuple /\ Sets \subseteq [col : Cols, val : Vals]
    /\ Typed \subseteq Vals /\ Cut \in [Vals -> Vals] /\ Lossy \subseteq Names

NoTx == [failed |-> FALSE, saves |-> << >>, begun |-> << >>]
Idle == [op |-> "idle"]

VARIABLES
    tables,     \* Names -> NoTable or the rows on disk and the next id
    views,      \* the rows of __kumdb_views__: a name and the relation its SELECT reads
    tx,         \* db->sql_tx: what the transaction and each savepoint saved, and
                \* as a history the tables and views at BEGIN
    run,        \* Idle, or the WITH statement being executed
    reply,      \* what the last kdb_exec_sql returned
    collided,   \* history: some name has been a table and a view at once
    left, faults

vars == <<tables, views, tx, run, reply, collided, left, faults>>

Rows(n) == tables[n].rows
Exists(n) == tables[n].there    \* kdb_table_exists
Open == tx # NoTx
Before == [tables |-> tables, views |-> views]

-----------------------------------------------------------------------------
(* Names and views.                                                        *)

\* The filter "name=..." finds the rows whose stored string it reads back.
Registered(n, vs) == {i \in DOMAIN vs : vs[i].name = n /\ n \notin Odd}
sql__view_exists(n) == Registered(n, views) # {}
sql__lookup_view(n) == views[Min(Registered(n, views))].of

\* sql__fetch_table_or_view: a table first, else the view's SELECT, run afresh.
Hop(n) == IF Exists(n) \/ ~sql__view_exists(n) THEN n ELSE sql__lookup_view(n)
Source(n) ==
    LET at[d \in 0 .. Len(views) + 1] == IF d = 0 THEN n ELSE Hop(at[d - 1])
    IN  at[Len(views) + 1]
Resolves(n) == Exists(Source(n))
\* Following the views never ends: the nested SELECTs exhaust the stack.
Loops(n) == ~Exists(Source(n)) /\ sql__view_exists(Source(n))
sql__fetch_table_or_view(n) == Rows(Source(n))

-----------------------------------------------------------------------------
(* Tables, and the calls that go through db->sql_tx.                       *)

Fresh == Table(1, << >>)
\* kdb_add for each row; the first one creates a missing table.
Appended(t, rs) == Table(t.next + Len(rs),
    t.rows \o [i \in DOMAIN rs |-> [id |-> t.next + i - 1, k |-> rs[i].k, v |-> rs[i].v]])
Added(t, rs) == Appended(IF t.there THEN t ELSE Fresh, rs)
WithRows(n, rs) == Table(tables[n].next, rs)
\* The row after rs fails: kdb__get_or_create_table may have made the table.
Partial(t, rs) == IF rs = << >> /\ ~t.there THEN {NoTable, Fresh} ELSE {Added(t, rs)}

\* kdb__tx_touch: the transaction and every savepoint keep the table as it is
\* before they first change it.
Keep(save, n) ==
    [name |-> save.name,
     kept |-> [m \in DOMAIN save.kept \cup {n} |-> IF m \in DOMAIN save.kept THEN save.kept[m] ELSE tables[n]]]
Touch(n) == [tx EXCEPT !.saves = [d \in DOMAIN @ |-> Keep(@[d], n)]]
Put(n, t) ==
    /\ tables' = [tables EXCEPT ![n] = t]
    /\ collided' = (collided \/ (t.there /\ sql__view_exists(n)))
\* A call that fails marks the transaction (tx->failed) until a rollback.
sql__db_write(n, t, ok) ==
    /\ Put(n, t)
    /\ tx' = IF Open THEN [Touch(n) EXCEPT !.failed = ~ok] ELSE tx
Writable == ~tx.failed
Restored(kept) == [n \in Names |-> IF n \in DOMAIN kept THEN kept[n] ELSE tables[n]]
Depth(n) == {d \in 2 .. Len(tx.saves) : tx.saves[d].name = n}

Reply(op, n, st, affected, rows, args) ==
    [op |-> op, name |-> n, st |-> st, affected |-> affected, rows |-> rows, args |-> args]
NotSet == -1
None == << >>

\* One statement, complete: idle before and after.  Content after the statement
\* is refused only once the statement has been executed.
Exec(op, n, affected, rows, args) ==
    /\ run' = Idle
    /\ \E st \in {"ok", "trailing"} : reply' = Reply(op, n, st, affected, rows, args)
Fail(op, n, affected, args) ==
    run' = Idle /\ reply' = Reply(op, n, "failed", affected, None, args)
Refuse(op, n) ==
    /\ Fail(op, n, NotSet, None)
    /\ UNCHANGED <<tables, views, tx, collided, faults>>
Statement == run = Idle /\ left > 0 /\ left' = left - 1
Fault == faults < MaxFaults /\ faults' = faults + 1
NoFault == UNCHANGED faults

-----------------------------------------------------------------------------
(* BEGIN, COMMIT, ROLLBACK and savepoints.                                 *)

sql__begin_tx ==
    /\ Statement
    /\ \/ Open /\ Refuse("begin", "none")
       \/ /\ ~Open
          /\ tx' = [failed |-> FALSE, saves |-> <<[name |-> "tx", kept |-> << >>]>>, begun |-> Before]
          /\ Exec("begin", "none", NotSet, None, None)
          /\ UNCHANGED <<tables, views, collided, faults>>

\* A failed commit has unlinked the savepoints' backups and leaves tx open.
sql__exec_commit ==
    /\ Statement
    /\ \/ (~Open \/ tx.failed) /\ Refuse("commit", "none")
       \/ /\ Open /\ ~tx.failed
          /\ \/ tx' = NoTx /\ NoFault /\ Exec("commit", "none", NotSet, None, None)
             \/ /\ tx' = [tx EXCEPT !.saves = <<Head(@)>>]
                /\ Fault /\ Fail("commit", "none", NotSet, None)
          /\ UNCHANGED <<tables, views, collided>>

sql__exec_rollback ==
    /\ Statement
    /\ \/ ~Open /\ Refuse("rollback", "none")
       \/ /\ Open
          /\ tables' = Restored(Head(tx.saves).kept)
          /\ tx' = NoTx
          /\ Exec("rollback", "none", NotSet, None, None)
          /\ UNCHANGED <<views, collided, faults>>

RollbackTo(s) ==
    /\ Statement
    /\ \/ Depth(s) = {} /\ Refuse("rollback_to", s)
       \/ \E d \in Depth(s) :
            /\ tables' = Restored(tx.saves[d].kept)
            /\ tx' = [tx EXCEPT !.failed = FALSE,
                      !.saves = Append(SubSeq(tx.saves, 1, d - 1), [name |-> s, kept |-> << >>])]
            /\ Exec("rollback_to", s, NotSet, None, None)
            /\ UNCHANGED <<views, collided, faults>>

sql__exec_savepoint(s) ==
    /\ Statement
    /\ \/ (~Open \/ tx.failed \/ Depth(s) # {}) /\ Refuse("savepoint", s)
       \/ /\ Open /\ ~tx.failed /\ Depth(s) = {} /\ Len(tx.saves) < MaxSaves
          /\ tx' = [tx EXCEPT !.saves = Append(@, [name |-> s, kept |-> << >>])]
          /\ Exec("savepoint", s, NotSet, None, None)
          /\ UNCHANGED <<tables, views, collided, faults>>

sql__exec_release_savepoint(s) ==
    /\ Statement
    /\ \/ Depth(s) = {} /\ Refuse("release", s)
       \/ \E d \in Depth(s) :
            /\ tx' = [tx EXCEPT !.saves = SubSeq(@, 1, d - 1)]
            /\ Exec("release", s, NotSet, None, None)
            /\ UNCHANGED <<tables, views, collided, faults>>

-----------------------------------------------------------------------------
(* CREATE and DROP, refused while a transaction is open.                   *)

\* Mutant: only ALTER is refused inside a transaction.
Schema_always(op, n) == Statement
Schema(op, n) == Statement /\ ~Open
SchemaInTx == Statement /\ Open /\ \E op \in {"create", "alter", "drop"} : Refuse(op, "none")

\* kdb_create_table knows nothing of views.  The statement is refused when the
\* table exists, or when a constraint is refused and the new table dropped again.
sql__exec_create_table(n) ==
    /\ Schema("create", n)
    /\ \/ Refuse("create", n)
       \/ /\ ~Exists(n)
          /\ Put(n, Fresh)
          /\ Exec("create", n, NotSet, None, None)
          /\ UNCHANGED <<views, tx, faults>>

sql__exec_drop_table(n) ==
    /\ Schema("drop", n)
    /\ Put(n, NoTable)
    /\ Exec("drop", n, NotSet, None, None)
    /\ UNCHANGED <<views, tx, faults>>

\* Mutant: the view is registered without running its SELECT first.
CreateView_unchecked(n, of) ==
    /\ Schema("view", n)
    /\ \/ (Exists(n) \/ sql__view_exists(n)) /\ Refuse("view", n)
       \/ /\ ~Exists(n) /\ ~sql__view_exists(n) /\ Len(views) < MaxViews
          /\ views' = Append(views, [name |-> n, of |-> of])
          /\ Exec("view", n, NotSet, None, None)
          /\ UNCHANGED <<tables, tx, collided, faults>>

sql__exec_create_view(n, of) ==
    /\ Schema("view", n)
    /\ ~Loops(of)
    /\ \/ (Exists(n) \/ sql__view_exists(n) \/ ~Resolves(of)) /\ Refuse("view", n)
       \/ /\ ~Exists(n) /\ ~sql__view_exists(n) /\ Resolves(of) /\ Len(views) < MaxViews
          /\ views' = Append(views, [name |-> n, of |-> of])
          /\ Exec("view", n, NotSet, None, None)
          /\ UNCHANGED <<tables, tx, collided, faults>>

\* The registry without the views of these names; kdb_delete with that filter.
Without(gone, vs) ==
    LET kept[i \in 0 .. Len(vs)] ==
            IF i = 0 THEN << >>
            ELSE IF vs[i].name \in gone THEN kept[i - 1] ELSE Append(kept[i - 1], vs[i])
    IN  kept[Len(vs)]
Unregistered(n, vs) == Without({n} \ Odd, vs)

sql__exec_drop_view(n) ==
    /\ Schema("drop_view", n)
    /\ \/ ~sql__view_exists(n) /\ Refuse("drop_view", n)
       \/ /\ sql__view_exists(n)
          /\ views' = Unregistered(n, views)
          /\ Exec("drop_view", n, NotSet, None, None)
          /\ UNCHANGED <<tables, tx, collided, faults>>

-----------------------------------------------------------------------------
(* INSERT.                                                                 *)

\* ORDER BY id DESC LIMIT n, reversed: the rows the statement has just added.
sql__fetch_last_inserted_rows(t, n) == SubSeq(t.rows, Len(t.rows) - n + 1, Len(t.rows))

\* The rows are added one by one.  All of them are, and the statement ends well
\* or at its malformed remainder (affected_out set or not); or one add fails,
\* and the rows before it stay.  A failing ON CONFLICT sets no affected_out.
Counted(op, i) == IF op = "upsert" THEN NotSet ELSE i
InsertRows(op, n, rs, ending, args) ==
    /\ Len(Rows(n)) + Len(rs) <= MaxRows
    /\ UNCHANGED views
    /\ \/ /\ Writable \/ rs = << >>
          /\ IF rs = << >> THEN UNCHANGED <<tables, tx, collided>>
                           ELSE sql__db_write(n, Added(tables[n], rs), TRUE)
          /\ NoFault
          /\ \/ ending = "ok" /\ Exec(op, n, Len(rs), sql__fetch_last_inserted_rows(Added(tables[n], rs), Len(rs)), args)
             \/ ending = "counted" /\ Fail(op, n, Len(rs), args)
             \/ ending = "silent" /\ Fail(op, n, NotSet, args)
       \/ /\ ~Writable /\ rs # << >>
          /\ Fail(op, n, Counted(op, 0), args)
          /\ UNCHANGED <<tables, tx, collided, faults>>
       \/ /\ Writable /\ Fault
          /\ \E i \in 0 .. Len(rs) - 1 : \E t \in Partial(tables[n], SubSeq(rs, 1, i)) :
                sql__db_write(n, t, FALSE) /\ Fail(op, n, Counted(op, i), args)

Insert(n, rs, malformed) ==
    /\ Statement
    /\ InsertRows("insert", n, rs, IF malformed THEN "silent" ELSE "ok", rs)

\* SELECT * of a row without the column v yields one field, not two.
FullRows(rs) == {i \in 0 .. Len(rs) : \A j \in 1 .. i : rs[j].v # Missing}
InsertSelect(n, of) ==
    /\ Statement
    /\ ~Loops(of)
    /\ \/ ~Resolves(of) /\ Refuse("insert", n)
       \/ /\ Resolves(of)
          /\ LET rs == sql__fetch_table_or_view(of)
                 m == Max(FullRows(rs))
             IN  InsertRows("insert", n, SubSeq(rs, 1, m), IF m < Len(rs) THEN "counted" ELSE "ok", SubSeq(rs, 1, m))

\* The rows a WHERE clause selects, and what UPDATE and DELETE make of a table.
All == [col |-> "all", val |-> Missing]
Nowhere == [col |-> "none", val |-> Missing]
Hits(where, r) == where = All \/ (where \notin {All, Nowhere} /\ r[where.col] = where.val)
\* The same condition as a filter for the storage engine: its value is a text
\* once more, and no text of a row equals a number or a bool.
InFilter(where) == IF where # All /\ where.val \in Typed THEN Nowhere ELSE where
Key(r) == InFilter([col |-> "k", val |-> Cut[r.k]])
Selected(rs, where) == Only(rs, {r \in Range(rs) : Hits(where, r)})
Matched(n, where) == Selected(Rows(n), where)
Updated(n, where, set) ==
    [i \in DOMAIN Rows(n) |->
        IF Hits(where, Rows(n)[i]) THEN [Rows(n)[i] EXCEPT ![set.col] = set.val] ELSE Rows(n)[i]]
Remaining(n, where) == Only(Rows(n), {r \in Range(Rows(n)) : ~Hits(where, r)})
Ids(rs) == {rs[i].id : i \in DOMAIN rs}
\* A read may go through an index; kdb_count and the writes scan.
Lost(n, where) == IF n \in Lossy /\ where # All THEN SUBSET Ids(Matched(n, where)) ELSE {{}}
kdb_find_ex(rs, where, lost) == Only(rs, {r \in Range(rs) : Hits(where, r) /\ r.id \notin lost})
\* The WHERE clause with parentheses, judged row by row on a scan, and without.
Paths(n, where) ==
    {[cond |-> where, lost |-> {}]} \cup [cond : {InFilter(where)}, lost : Lost(n, InFilter(where))]

\* A write that is refused: by the failed transaction, by a constraint, by storage.
WriteFails(op, n, args) ==
    /\ Exists(n)
    /\ \/ ~Writable /\ UNCHANGED <<tables, tx, collided, faults>>
       \/ Writable /\ Fault /\ sql__db_write(n, tables[n], FALSE)
    /\ Fail(op, n, NotSet, args)
    /\ UNCHANGED views

\* INSERT ... ON CONFLICT (k) DO NOTHING or DO UPDATE SET col = val.
NoSet == [col |-> "none", val |-> Missing]
Upserted(n, r, set) ==
    \/ /\ set = NoSet
       /\ Exec("upsert", n, 0, None, <<r, set, {}>>)
       /\ UNCHANGED <<tables, views, tx, collided, faults>>
    \/ set # NoSet /\ WriteFails("upsert", n, <<r, set, {}>>)
    \/ /\ set # NoSet /\ Writable
       /\ sql__db_write(n, WithRows(n, Updated(n, Key(r), set)), TRUE)
       /\ \E lost \in Lost(n, Key(r)) :
            Exec("upsert", n, Len(Matched(n, Key(r))),
                 kdb_find_ex(Updated(n, Key(r), set), Key(r), lost), <<r, set, lost>>)
       /\ UNCHANGED <<views, faults>>

Existing(n, r) == Matched(n, Key(r))

sql__exec_insert_on_conflict(n, r, set) ==
    /\ Statement
    /\ \/ ~Exists(n) /\ Refuse("upsert", n)
       \/ /\ Exists(n)
          /\ IF Existing(n, r) = << >> THEN InsertRows("upsert", n, <<r>>, "ok", <<r, set, {}>>) ELSE Upserted(n, r, set)

-----------------------------------------------------------------------------
(* UPDATE and DELETE.                                                      *)

\* No such table: the flat path without RETURNING finds out in kdb_tx_update.
NoSuchTable(op, n) ==
    /\ ~Exists(n)
    /\ \/ UNCHANGED tx
       \/ Open /\ Writable /\ tx' = [Touch(n) EXCEPT !.failed = TRUE]
    /\ Fail(op, n, NotSet, None)
    /\ UNCHANGED <<tables, views, collided, faults>>

\* sql__resolve_where_to_id_filter found nothing: no call is made at all.
NothingToDo(op, n, where, args) ==
    /\ Exists(n) /\ Matched(n, where) = << >>
    /\ Exec(op, n, 0, None, args)
    /\ UNCHANGED <<tables, tx, views, collided, faults>>

\* Mutant: RETURNING applies the WHERE clause again after the update.
Returned_again(rs, ids, where) == Selected(rs, where)
\* The ids are captured before the update and name the rows after it.
Returned(rs, ids, where) == Only(rs, {r \in Range(rs) : r.id \in ids})

sql__exec_update(n, where, set) ==
    /\ Statement
    /\ \/ NoSuchTable("update", n)
       \/ WriteFails("update", n, <<where, set, {}>>)
       \/ NothingToDo("update", n, where, <<where, set, {}>>)
       \/ /\ Exists(n) /\ Writable
          /\ \E p \in Paths(n, where) :
                /\ sql__db_write(n, WithRows(n, Updated(n, p.cond, set)), TRUE)
                /\ Exec("update", n, Len(Matched(n, p.cond)),
                        Returned(Updated(n, p.cond, set), Ids(Matched(n, p.cond)) \ p.lost, p.cond),
                        <<where, set, p.lost>>)
          /\ UNCHANGED <<views, faults>>

sql__exec_delete(n, where) ==
    /\ Statement
    /\ \/ NoSuchTable("delete", n)
       \/ WriteFails("delete", n, <<where, None, {}>>)
       \/ NothingToDo("delete", n, where, <<where, None, {}>>)
       \/ /\ Exists(n) /\ Writable
          /\ \E p \in Paths(n, where) :
                /\ sql__db_write(n, WithRows(n, Remaining(n, p.cond)), TRUE)
                /\ Exec("delete", n, Len(Matched(n, p.cond)), kdb_find_ex(Rows(n), p.cond, p.lost),
                        <<where, None, p.lost>>)
          /\ UNCHANGED <<views, faults>>

-----------------------------------------------------------------------------
(* WITH name AS (SELECT ...), ... SELECT: temporary views.                 *)

Continue(r) == run' = r /\ UNCHANGED <<tx, reply, left>>

sql__exec_with_stmt(ctes, main) ==
    /\ Statement
    /\ run' = [op |-> "with", ctes |-> ctes, main |-> main, stage |-> "add", added |-> 0, gone |-> 0,
               st |-> "failed", rows |-> None, before |-> Before, clean |-> TRUE]
    /\ UNCHANGED <<tables, views, tx, reply, collided, faults>>

Ctes == {run.ctes[i].name : i \in 1 .. run.added}
Cte == run.ctes[run.added + 1]
CteRefused ==
    \/ run.added >= MaxCtes
    \/ Exists(Cte.name) \/ sql__view_exists(Cte.name) \/ Cte.name \in Ctes
    \/ ~Resolves(Cte.of)

WithAdd ==
    /\ run.op = "with" /\ run.stage = "add"
    /\ ~Loops(Cte.of)
    /\ UNCHANGED <<tables, collided>>
    /\ \/ CteRefused /\ Continue([run EXCEPT !.stage = "done"]) /\ UNCHANGED <<views, faults>>
       \/ ~CteRefused /\ Fault /\ Continue([run EXCEPT !.stage = "done", !.clean = FALSE]) /\ UNCHANGED views
       \/ /\ ~CteRefused
          /\ views' = Append(views, Cte)
          /\ Continue([run EXCEPT !.added = @ + 1,
                                  !.stage = IF run.added + 1 = Len(run.ctes) THEN "main" ELSE "add"])
          /\ NoFault

WithMain ==
    /\ run.op = "with" /\ run.stage = "main"
    /\ ~Loops(run.main)
    /\ IF Resolves(run.main)
       THEN Continue([run EXCEPT !.stage = "done", !.st = "ok", !.rows = sql__fetch_table_or_view(run.main)])
       ELSE Continue([run EXCEPT !.stage = "done"])
    /\ UNCHANGED <<tables, views, collided, faults>>

\* Mutant: the loop goes on to the next view only when it has deleted this one.
WithDrop_found ==
    /\ run.op = "with" /\ run.stage = "done" /\ run.gone < run.added
    /\ sql__view_exists(run.ctes[run.gone + 1].name)
    /\ views' = Unregistered(run.ctes[run.gone + 1].name, views)
    /\ Continue([run EXCEPT !.gone = @ + 1])
    /\ UNCHANGED <<tables, collided, faults>>

\* done: every temporary view is deleted; a failing kdb_delete is ignored.
WithDrop ==
    /\ run.op = "with" /\ run.stage = "done" /\ run.gone < run.added
    /\ \/ /\ views' = Unregistered(run.ctes[run.gone + 1].name, views) /\ NoFault
          /\ Continue([run EXCEPT !.gone = @ + 1])
       \/ UNCHANGED views /\ Fault /\ Continue([run EXCEPT !.gone = @ + 1, !.clean = FALSE])
    /\ UNCHANGED <<tables, collided>>

WithReturn ==
    /\ run.op = "with" /\ run.stage = "done" /\ run.gone = run.added
    /\ run' = Idle
    /\ reply' = Reply("with", run.main, run.st, NotSet, run.rows, run)
    /\ UNCHANGED <<tables, views, tx, collided, left, faults>>

-----------------------------------------------------------------------------
(* WITH RECURSIVE: a real table that holds each round's rows in turn.      *)

Values(rs) == [i \in DOMAIN rs |-> [k |-> rs[i].k, v |-> rs[i].v]]

sql__exec_with_recursive_stmt(c, base, edges, all, flaw) ==
    /\ Statement
    /\ ~Loops(base) /\ Len(sql__fetch_table_or_view(base)) <= MaxRows
    /\ UNCHANGED <<views, tx>>
    /\ \/ /\ Exists(c) \/ sql__view_exists(c) \/ ~Resolves(base) \/ sql__fetch_table_or_view(base) = << >>
          /\ Fail("recursive", c, NotSet, None)
          /\ UNCHANGED <<tables, collided, faults>>
       \/ /\ ~Exists(c) /\ ~sql__view_exists(c) /\ Resolves(base) /\ sql__fetch_table_or_view(base) # << >>
          /\ \/ /\ Put(c, Added(NoTable, Values(sql__fetch_table_or_view(base))))
                /\ run' = [op |-> "recursive", name |-> c, edges |-> edges, all |-> all, flaw |-> flaw,
                           base |-> Values(sql__fetch_table_or_view(base)),
                           acc |-> Values(sql__fetch_table_or_view(base)),
                           stage |-> "round", round |-> 0, created |-> TRUE, st |-> "failed", rows |-> None,
                           before |-> Before, clean |-> TRUE]
                /\ NoFault /\ UNCHANGED reply
             \/ \* the caller is told, the table stays
                /\ Fault
                /\ \E i \in 0 .. Len(sql__fetch_table_or_view(base)) - 1 :
                     \E t \in Partial(NoTable, SubSeq(Values(sql__fetch_table_or_view(base)), 1, i)) : Put(c, t)
                /\ Fail("recursive", c, NotSet, None)

Leads(r) == [i \in DOMAIN run.edges[r.k] |-> [k |-> run.edges[r.k][i], v |-> r.v]]
Produced == FlattenSeq([i \in DOMAIN Rows(run.name) |-> Leads(Rows(run.name)[i])])
\* Mutant: a row produced twice in one round is kept twice.
Unseen_twice(rs) == SelectSeq(rs, LAMBDA r : r \notin Range(run.acc))
\* sql__except_rows(new_rows, accumulated, 0)
Unseen(rs) ==
    LET kept[i \in 0 .. Len(rs)] ==
            IF i = 0 THEN << >>
            ELSE IF rs[i] \in Range(kept[i - 1]) \cup Range(run.acc) THEN kept[i - 1] ELSE Append(kept[i - 1], rs[i])
    IN  kept[Len(rs)]
NewRows == IF run.all THEN Produced ELSE Unseen(Produced)
RoundFails == run.flaw = "term" \/ (run.flaw = "shape" /\ Produced # << >>)

RecRound ==
    /\ run.op = "recursive" /\ run.stage = "round" /\ run.round < MaxIters
    /\ UNCHANGED views
    /\ \/ /\ RoundFails
          /\ Continue([run EXCEPT !.stage = "cleanup"]) /\ UNCHANGED <<tables, collided, faults>>
       \/ /\ ~RoundFails /\ NewRows = << >>
          /\ Continue([run EXCEPT !.stage = "final"]) /\ UNCHANGED <<tables, collided, faults>>
       \/ /\ ~RoundFails /\ NewRows # << >>
          /\ \/ /\ Put(run.name, Added(NoTable, NewRows)) /\ NoFault
                /\ Continue([run EXCEPT !.acc = @ \o NewRows, !.round = @ + 1])
             \/ \* kdb_drop_table fails, which is ignored: the old rows stay in front
                /\ Put(run.name, Added(tables[run.name], NewRows)) /\ Fault
                /\ Continue([run EXCEPT !.acc = @ \o NewRows, !.round = @ + 1, !.clean = FALSE])
             \/ /\ Fault
                /\ \E i \in 0 .. Len(NewRows) - 1 :
                     \E t \in Partial(NoTable, SubSeq(NewRows, 1, i)) : Put(run.name, t)
                /\ Continue([run EXCEPT !.stage = "cleanup", !.clean = FALSE])

RecDiverges ==
    /\ run.op = "recursive" /\ run.stage = "round" /\ run.round = MaxIters
    /\ Continue([run EXCEPT !.stage = "cleanup"])
    /\ UNCHANGED <<tables, views, collided, faults>>

\* table_created is cleared before the accumulated rows are materialised.
RecFinal ==
    /\ run.op = "recursive" /\ run.stage = "final"
    /\ UNCHANGED views
    /\ \/ Put(run.name, Added(NoTable, run.acc)) /\ NoFault /\ Continue([run EXCEPT !.stage = "main"])
       \/ /\ Put(run.name, Added(tables[run.name], run.acc)) /\ Fault
          /\ Continue([run EXCEPT !.stage = "main", !.clean = FALSE])
       \/ /\ Fault
          /\ \E i \in 0 .. Len(run.acc) - 1 : \E t \in Partial(NoTable, SubSeq(run.acc, 1, i)) : Put(run.name, t)
          /\ Continue([run EXCEPT !.stage = "cleanup", !.created = FALSE, !.clean = FALSE])

RecMain ==
    /\ run.op = "recursive" /\ run.stage = "main"
    /\ Continue(IF run.flaw = "main" THEN [run EXCEPT !.stage = "cleanup"]
                ELSE [run EXCEPT !.stage = "cleanup", !.st = "ok", !.rows = Values(Rows(run.name))])
    /\ UNCHANGED <<tables, views, collided, faults>>

\* Mutant: the table is dropped only when the statement succeeded.
RecCleanup_success ==
    /\ run.op = "recursive" /\ run.stage = "cleanup"
    /\ IF run.created /\ run.st = "ok" THEN Put(run.name, NoTable) ELSE UNCHANGED <<tables, collided>>
    /\ NoFault
    /\ run' = Idle
    /\ reply' = Reply("recursive", run.name, run.st, NotSet, run.rows, run)
    /\ UNCHANGED <<views, tx, left>>

RecCleanup ==
    /\ run.op = "recursive" /\ run.stage = "cleanup"
    /\ \/ run.created /\ Put(run.name, NoTable) /\ NoFault /\ reply' = Reply("recursive", run.name, run.st, NotSet, run.rows, run)
       \/ /\ ~run.created /\ UNCHANGED <<tables, collided>> /\ NoFault
          /\ reply' = Reply("recursive", run.name, run.st, NotSet, run.rows, run)
       \/ /\ run.created /\ UNCHANGED <<tables, collided>> /\ Fault
          /\ reply' = Reply("recursive", run.name, run.st, NotSet, run.rows, [run EXCEPT !.clean = FALSE])
    /\ run' = Idle
    /\ UNCHANGED <<views, tx, left>>

-----------------------------------------------------------------------------
(* SELECT, a crash, and the specification.                                 *)

sql__exec_select_stmt(n) ==
    /\ Statement
    /\ ~Loops(n)
    /\ IF Resolves(n)
       THEN /\ Exec("select", n, NotSet, sql__fetch_table_or_view(n), None)
            /\ UNCHANGED <<tables, views, tx, collided, faults>>
       ELSE Refuse("select", n)

\* The next kdb_open rolls an open transaction back; nothing else is undone.
Restart ==
    /\ tables' = IF Open THEN Restored(Head(tx.saves).kept) ELSE tables
    /\ tx' = NoTx
    /\ run' = Idle
    /\ reply' = Reply("crash", "none", "failed", NotSet, None, None)
    /\ UNCHANGED <<views, collided, left>>
Crash == Restart /\ Fault
\* Views that read each other: the nested SELECTs exhaust the stack.
StackOverflow ==
    /\ \/ run = Idle /\ left > 0 /\ \E n \in Names : Loops(n)
       \/ run.op = "with" /\ run.stage = "add" /\ Loops(Cte.of)
       \/ run.op = "with" /\ run.stage = "main" /\ Loops(run.main)
    /\ Restart /\ NoFault

Init ==
    /\ \E s \in InitStates : tables = s.tables /\ views = s.views /\ collided = s.collided
    /\ tx = NoTx /\ run = Idle /\ reply = Reply("open", "none", "ok", NotSet, None, None)
    /\ left = MaxStmts /\ faults = 0


Transaction ==
    \/ sql__begin_tx \/ sql__exec_commit \/ sql__exec_rollback
    \/ \E s \in Savepoints : RollbackTo(s) \/ sql__exec_savepoint(s) \/ sql__exec_release_savepoint(s)
Schemas ==
    \/ SchemaInTx
    \/ \E n \in Names : sql__exec_create_table(n) \/ sql__exec_drop_table(n) \/ sql__exec_drop_view(n)
    \/ \E n, of \in Names : sql__exec_create_view(n, of)
Writes ==
    \E n \in Names :
        \/ \E rs \in BoundedSeq(Tuples, 2) \ {<< >>}, b \in BOOLEAN : Insert(n, rs, b)
        \/ \E of \in Names : InsertSelect(n, of)
        \/ \E r \in Tuples, set \in Sets \cup {NoSet} : sql__exec_insert_on_conflict(n, r, set)
        \/ \E w \in Wheres, set \in Sets : sql__exec_update(n, w, set)
        \/ \E w \in Wheres : sql__exec_delete(n, w)
Withs ==
    \/ \E w \in CteLists : sql__exec_with_stmt(w[1], w[2])
    \/ \E w \in Recursions : sql__exec_with_recursive_stmt(w.name, w.base, w.edges, w.all, w.flaw)
\* The statement under way goes on: one thread, which nothing else stops.
Step ==
    \/ WithAdd \/ WithMain \/ WithDrop \/ WithReturn
    \/ RecRound \/ RecDiverges \/ RecFinal \/ RecMain \/ RecCleanup

Next ==
    \/ Transaction \/ Schemas \/ Writes \/ Withs \/ Step \/ Crash \/ StackOverflow
    \/ \E n \in Names : sql__exec_select_stmt(n)

\* A statement under way goes on or the process dies.
Spec == Init /\ [][Next]_vars /\ WF_vars(run # Idle /\ (Crash \/ Step \/ StackOverflow))

-----------------------------------------------------------------------------
(* Properties.                                                             *)

\* The statement op returns in this step.
Ended(op) == run' = Idle /\ reply'.op = op
Did(op) == Ended(op) /\ reply'.st # "failed"

\* ROLLBACK gives every table that existed at BEGIN its rows of then, and leaves
\* the views of then registered: no statement that a rollback cannot undo gets
\* through while a transaction is open (kdb_exec_sql refuses schema changes, and
\* WITH may use only names that are free).
RollbackRestores ==
    [][Did("rollback") =>
        /\ \A n \in Names : tx.begun.tables[n].there => tables'[n] = tx.begun.tables[n]
        /\ \A i \in DOMAIN tx.begun.views : Contains(views', tx.begun.views[i])]_vars

Cleaned ==
    \A op \in {"with", "recursive"} : Ended(op) /\ run # Idle =>
        (reply'.args.clean /\ (op = "with" => \A i \in DOMAIN run.ctes : run.ctes[i].name \notin Odd)
            => tables' = run.before.tables /\ views' = run.before.views)
OwnNames == IF run.op = "with" THEN {run.ctes[i].name : i \in DOMAIN run.ctes} ELSE {run.name}
Foreign(vs) == Without(OwnNames, vs)
Confined ==
    run # Idle /\ ~Open =>
        /\ \A n \in Names : n \notin OwnNames \/ run.op = "with" => tables'[n] = tables[n]
        /\ Foreign(views') = Foreign(views)

\* A WITH statement returns with every table and view as it found them, when it
\* succeeds and when it fails, if no storage call it made failed and its names
\* can be found by a filter.  Whatever fails, and wherever the program dies, it
\* changes no table and no view but the ones it names.
WithLeavesNothing == [][Cleaned /\ Confined]_vars

\* The number of walks of length n that end in r.
Walks[n \in Nat, r \in [k : Vals, v : Vals \cup {Missing}]] ==
    IF n = 0 THEN Cardinality({i \in DOMAIN run.base : run.base[i] = r})
    ELSE FoldSet(LAMBDA q, s : s + Walks[n - 1, q] * Cardinality({i \in DOMAIN run.edges[q.k] : run.edges[q.k][i] = r.k}),
                 0, {q \in [k : Vals, v : {r.v}] : TRUE})
TotalWalks(r) == FoldSet(LAMBDA n, s : s + Walks[n, r], 0, 0 .. MaxIters)
Times(s, r) == Cardinality({i \in DOMAIN s : s[i] = r})

\* What a WITH RECURSIVE that succeeds puts in its table is every row that can
\* be derived: with UNION ALL as often as there are derivations, with UNION once
\* (but a row of the base case as often as the base case returned it).
RecursiveIsFixpoint ==
    [][Ended("recursive") /\ run # Idle /\ reply'.st = "ok" /\ reply'.args.clean =>
        \A r \in [k : Vals, v : Vals \cup {Missing}] :
            Times(reply'.rows, r) =
                IF run.all THEN TotalWalks(r)
                ELSE IF Walks[0, r] > 0 THEN Walks[0, r]
                ELSE IF TotalWalks(r) > 0 THEN 1 ELSE 0]_vars

\* affected_out, once set, counts the rows added, changed or removed.
AffectedIsTrue(op, n) ==
    LET old == Range(Rows(n))
        new == Range(tables'[n].rows)
    IN  Ended(op) /\ reply'.affected # NotSet =>
          CASE op = "insert" -> Cardinality(new \ old) = reply'.affected /\ old \subseteq new
            [] op = "delete" -> Cardinality(old \ new) = reply'.affected /\ new \subseteq old
            [] OTHER -> Cardinality(new \ old) <= reply'.affected
ReturningIsExact(op, n) ==
    LET old == Rows(n)
        new == tables'[n].rows
        added == Only(new, {r \in Range(new) : r.id \notin Ids(old)})
        removed == Only(old, {r \in Range(old) : r.id \notin Ids(new) \cup reply'.args[3]})
        changed == {r \in Range(new) : r.id \in Ids(old)} \ Range(old)
    IN  Did(op) =>
          CASE op = "insert" -> reply'.rows = added
            [] op = "delete" -> reply'.rows = removed
            [] op = "update" \/ (op = "upsert" /\ reply'.args[2].col # "k") ->
                  /\ {r \in changed \cup Range(added) : r.id \notin reply'.args[3]} \subseteq Range(reply'.rows)
                  /\ Range(reply'.rows) \subseteq Range(new) /\ Len(reply'.rows) <= reply'.affected
                  /\ reply'.args[3] = {} => Len(reply'.rows) = reply'.affected
            [] OTHER -> TRUE
DistinctKeys(rs) == \A i, j \in DOMAIN rs : rs[i].k = rs[j].k => i = j
Sought(r) == r.k \notin Typed /\ Cut[r.k] = r.k
UpsertKeepsKeys(op, n) ==
    Ended(op) /\ op = "upsert" /\ reply'.args # None =>
        (reply'.args[2].col # "k" /\ Sought(reply'.args[1]) /\ DistinctKeys(Rows(n)) =>
            DistinctKeys(tables'[n].rows))

\* What a writing statement tells its caller is true.  affected_out, once set,
\* is the number of rows added, changed or removed, failed or not.  RETURNING
\* yields the rows added, the changed rows as they are now, the removed rows as
\* they were: never the rows that match the WHERE clause only before, or only
\* after (ON CONFLICT DO UPDATE finds its rows again by the key, so it loses
\* them when it sets the key).  It misses only rows an index leaves out, and they
\* are counted all the same.  ON CONFLICT (k) keeps the values of k distinct,
\* inside a transaction and outside, as long as it does not set k itself and the
\* value is one its filter reads back as it stands.
RepliesAreExact ==
    [][\A op \in {"insert", "upsert", "update", "delete"} : reply'.op = op =>
        LET n == reply'.name
        IN  AffectedIsTrue(op, n) /\ ReturningIsExact(op, n) /\ UpsertKeepsKeys(op, n)]_vars

\* ON CONFLICT (k) DO NOTHING leaves a table that has a row with the tuple's key
\* exactly as it is (DOCUMENTATION.md:674-676).  The code asks with a filter, whose
\* value is a number or a bool again if its text looks like one (sql.c:2501-2518).
DoNothingIsNoOp ==
    [][Ended("upsert") /\ reply'.args # None =>
        LET n == reply'.name
        IN  reply'.args[2] = NoSet /\ (\E r \in Range(Rows(n)) : r.k = reply'.args[1].k) => tables' = tables]_vars

\* INSERT ... SELECT checks the column counts before it inserts anything
\* (sql.c:2684-2685, DOCUMENTATION.md:665-667): refused for them, where no
\* storage call failed, it has added no row.
CountsCheckedFirst ==
    [][Ended("insert") /\ reply'.st = "failed" /\ reply'.affected # NotSet /\ faults' = faults =>
        tables' = tables]_vars

\* Views never read one another in a circle, unless a table was once given the
\* name of a view: CREATE VIEW runs its SELECT before the name exists.
ViewsAcyclic == ~collided => \A n \in Names : ~Loops(n)

\* A WITH statement under way always ends: the rounds of WITH RECURSIVE are bounded.
WithReturns == []<>(run = Idle)
=============================================================================
