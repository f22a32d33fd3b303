# A TLA+ model of KumDB

KumDB (`src/`) is an embedded database in C: one file per table, a C API
(`include/kumdb.h`), a SQL front end (`src/sql.c`), a Qt application
and command line tools. This directory holds TLA+ models of it, the TLC configurations that
check them on small instances, and TLAPS proofs of the most important results.
`PROJECT.json` maps every definition to the lines of C it stands for and lists the
runs, the hazards and the findings.

## 1. The system

| Component | State | Operations | Talks to |
|---|---|---|---|
| Transactions and recovery (`kumdb.c` 385-930) | per transaction: tables touched, which are new, savepoint stack, failed flag; on disk: `.txbak` and `.txbak.sp<n>` copies, `.kdb_tx_commit` marker | `kdb_tx_begin/add/update/delete`, `savepoint`, `rollback_to_savepoint`, `release_savepoint`, `commit`, `rollback`; `kdb__tx_recover` in `kdb_open` | calls the plain operations; replaces table files by rename |
| Handle cache (`kumdb.c` 30-83, 3090-3114) | `db->tables[]`, an open `KdbTable` per table | open on demand, evict, drop | everything that replaces a file must evict |
| Storage (`storage.c`) | table file: header (`next_id`, `record_count`, schema) and a sequence of length-prefixed records; in memory: a cached header, the stdio buffer | create, open, append, batch, flush header, scan, rewrite (through `.tmp` and rename), drop | takes no lock itself |
| Locking (`lock.c`) | `T.kdb.lock`, an fcntl lock | acquire (blocking), release; `kdb_atomic_write` | held by every mutating operation of `table.c` |
| Tables and schema (`table.c`) | schema in the header, index array | insert, batch, update, delete, compact, ALTER operations, constraint checks, defaults | storage, indexes, locking |
| Indexes (`index.c`) | in-memory hash from value to file offsets | insert, lookup, rebuild | rebuilt after every rewrite |
| Foreign keys (`kumdb.c` 932-1556) | declared in the headers of the referencing tables | child checks, RESTRICT / CASCADE / SET NULL with a depth cap | update and delete other tables' files |
| Queries and values (`query.c`, `types.c`, `record.c`) | none | filters, comparison, coercion, sorting, LIMIT/OFFSET, serialisation | |
| Aggregation, text and geo search (`kumdb.c` 1664-2545) | none | pipelines over result sets | |
| SQL (`sql.c`) | per handle: the open transaction `db->sql_tx`, views | parse and execute statements | the C API |
| Errors (`error.c`) | last error of the thread | set, read | |
| Qt application, command line tools (`app/`, `tools/`) | none | user interfaces | the C API |

What is hard here: the process may die between any two file operations; an I/O
call may fail half way through a loop; a cached handle or header may be stale; one
statement may change several tables; file names are reused. Nothing in KumDB runs
in the background and there are no threads, so the interleavings that matter are
those of a crash (or of a failing call, or of a second process) with the steps of
one call. The list of hazards, each at its line, is in `PROJECT.json`.

What makes each part correct:

* Transactions: all or nothing, whatever interrupts them; a savepoint restores
  exactly the state of its creation; nothing is left on disk that would change a
  later outcome.
* Storage: an acknowledged record is found by every later scan, ids are never
  reused, a reader never sees a file change under it, the lock is always given back.
* Tables and indexes: a lookup finds the rows a scan finds; a write breaks no
  constraint, whatever the other rows of the same statement are; a failed call leaves
  the rows alone; the schema a caller was told of is the one in the file.
* Foreign keys: an accepted statement leaves no new dangling reference; a delete
  removes exactly what the keys say.
* Values and records: what goes through text or bytes comes back; comparison is an
  order and every operator follows it.
* Queries and SELECT: results agree with a reference definition, row by row and as
  often as they should.
* The SQL session: a statement's reply is true, a rollback restores, WITH leaves
  nothing behind.

## 2. Modules

| Module | What it is |
|---|---|
| `AtomicTx` | the abstract promise of `kumdb.h`: a committed state, a view, all-or-nothing |
| `KdbTx` | transactions, savepoints and recovery, one action per file operation |
| `KdbTxRefinement` | the mapping from KdbTx to AtomicTx |
| `KdbTxHistory` | KdbTx with history variables: what was promised, what each savepoint saw |
| `KdbTxProofs` | TLAPS proofs about KdbTx: types, settled outcomes, handles, tracking, nothing left over |
| `KdbTxRefinementProofs` | TLAPS proofs that KdbTx implements AtomicTx, and of what was promised and what a savepoint restores |
| `KdbStorage` | one table file under several processes: storage.c, lock.c and the calls of table.c that change rows |
| `KdbStorageProofs` | TLAPS proofs about KdbStorage: types, stable readers, whole files, unique ids, durable rows |
| `KdbTypes` | types.c: inference, parsing, printing, casts, comparison, filter operators, LIKE and regular expressions |
| `KdbRecord` | record.c: the bytes of a record and back, fields by name and by path |
| `KdbValueLaws` | what the two promise, against definitions that do not follow the code |
| `KdbQuery` | query.c, filter lists, `kdb_find_ex`, text and geo search |
| `KdbAggregate` | the aggregation pipeline, one action per stage, and the properties of queries |
| `KdbTable`, `KdbTableLaws` | one open table: table.c, index.c and the use of indexes by `kdb_query_execute`; its properties |
| `Lists` | the rows of a list that belong to a set, for KdbForeignKeys and SqlSession |
| `InductionLemmas` | induction over naturals and sequences; what is proved of the recursive functions of the models and of the community modules |
| `KdbTableLemmas`, `KdbTableProofs` | what the operators of KdbTable compute; TLAPS proofs of the properties of KdbTableLaws |
| `KdbForeignKeys` | foreign keys across tables: kumdb.c 932-1603, 2595-2680, 2880-3114 |
| `KdbForeignKeysProofs` | TLAPS proofs about KdbForeignKeys: types, ids, references, RESTRICT, the closure a delete removes |
| `SqlWhere` | conditions of the SQL front end, from tokens to a verdict on a row |
| `SqlSelect`, `SqlLaws` | SELECT stage by stage; its properties |
| `SqlSession` | `kdb_exec_sql`: transactions, views, writes with RETURNING and ON CONFLICT, WITH and WITH RECURSIVE |
| `SqlSessionProofs` | TLAPS proofs about SqlSession: views without circles, exact rollback, WITH, exact replies |
| `MC*` | constants for TLC |

Which module stands on which: KdbRecord extends KdbTypes, KdbQuery extends KdbRecord,
KdbAggregate and SqlWhere extend KdbQuery, SqlSelect extends SqlWhere. So a SELECT is
checked with the filters, comparisons and conversions of the engine under it, not with
ideal ones. KdbTable takes values as constants, and MCKdbTable gives it those of
KdbTypes and the record sizes of KdbRecord. KdbTx and KdbStorage are two views of the
same files: KdbTx takes what an operation does to a table file as one step and looks at
several files, KdbStorage looks inside that step at one file. SqlSession takes from
KdbTx what a transaction promises when no file operation of it fails, and from
SqlSelect only which relation a SELECT reads.

### KdbTx

On disk: `file` (T.kdb), `bak` (T.kdb.txbak at depth 0 and T.kdb.txbak.sp<d-1> at
depth d), `marker` (the tables listed in `.kdb_tx_commit`). In memory: `handle` (the
cache `db->tables[]`), `seen` (`tables[]` with `is_new_table[]`, of the transaction
and of every savepoint), `spName`, `spCount`, `failed`, and the control state of the
running call: `pc`, `call`, `todo`.

A file holds an abstract contents value, or `NoFile`, or `Torn` (a copy cut short).
Every call is split where the process may die: `kdb_tx_commit`, for instance, is
`kdb_tx_commit`, `UnlinkBackup` for each savepoint backup, `CommitMarks`,
`WriteMarker` (the rename that publishes the marker) or `WriteMarkerFails`,
`DiscardBackup` for each backup and `DeleteMarker`. `kdb__tx_touch` is a loop over
depths: `TouchSeen`, `TouchFull`, `TouchNew`, `TouchCopy` followed by `CopyDone` or
`CopyFails`. Loops over arrays are taken in any order. Recovery is `kdb_open`,
`RecoverDiscard`, `RecoverUnmark`, `RecoverScan`, `RecoverDone`, and may itself be
interrupted. Calls the code rejects at entry (failed transaction, unknown
savepoint) are stuttering steps and are left out.

KdbTxRefinement maps this to AtomicTx. Its view is `file` while a transaction runs and
what is committed otherwise; `Committed` is, table by table, what a crash now would
leave of it: the backup, where there is one and no marker, else the file. Two points
need care. While the first backup of a table is being copied the file itself is still
untouched, so it is what is committed; and a table that the running transaction has
created is not there for the others, although its file is (`CommittedOf`).

KdbTxHistory counts a rollback as giving a table up (`GivesUp`) when a rename that
should restore it fails in the loop of the rollback, which goes on; the end of the loop
gives nothing up.

`CrashSites` names the control points at which the process may die and `IoFaults`
the operations that may fail; the runs use them to separate the questions.
`kdb_close` on a handle whose C-API transaction is still open leaves the backups on
disk for the next `kdb_open`; in the model that is `Crash` at `pc = "tx"`.

### KdbStorage

On disk: `inode` (the contents of every file: whether the header is written, its
`next_id` and `record_count`, the rows), `path` and `tmp` (the inodes that T.kdb and
T.kdb.tmp name). `lock` is the holder of the fcntl lock. Every handle is a process:
`fd`, `hdr`, `dirty` are `tbl->fp`, `tbl->header`, `tbl->dirty`; `buf` is the record
in the stdio buffer of `tbl->fp`; `out` is `out_fp` of a rewrite; `pc`, `todo` and
`mine` are the control state of the running call. `serial` and `acked` are history.

Inodes are explicit because rename and unlink change what the path names and never
what a descriptor refers to: that is what readers rely on and what a writer's own
handle has to be careful about. The stdio buffer is explicit because the code never
flushes a row by itself: the row is written by the next `fseek` or by the `rewind` of
`kdb__write_header`, and the header after it, which is where a crash hurts.

An insert is `kdb_table_insert` (take the lock), `AppendRow` for each row or
`RowRejected` (a constraint, inference or the table limit) or `AppendFails`, then
`FlushRow` and `FlushHeader`, or `FlushFails`. A rewrite (update, delete, compact) is
`kdb_table_rewrite`, `OpenTmp`, `Fill`, `Rename`, or one of `RewriteFails`,
`RenameFails`, `ReopenFails`. Creation is three steps, `kdb_storage_create` (no table
is there), `FopenCreate` and `CreateDone`: it takes no lock, and among several `Creators`
the second truncates the file of the first. `Crash` may happen at the control
points in `CrashSites`; `CrashInWrite` cuts a record short.

Abstractions. A record is its id and a key that names the insertion it came from;
values matter only to constraints, and a rejected row is an alternative of every
append. The rows of a file are a set: their order shows only in that nothing behind a
torn record is read, and `AppendTo` says that. (The bytes behind a torn record are
read as the rest of it; that they might by chance look like a record is left out.) The
header is written in one step; a torn header, which takes a power failure, is not
modelled. A partly filled T.kdb.tmp is `Blank`: nothing ever reads it. Drops are
allowed only with a single writer, because `kdb_storage_drop` takes no lock. ALTER
operations, which take no lock either, are not in this module.

### KdbTypes, KdbRecord, KdbQuery, KdbAggregate

The functions of types.c, record.c and query.c are operators of the same name. A text
is a sequence of one-character strings; `code` orders it as `strcmp` does. A number is
kept in halves so that a FLOAT can lie between two INTs, and a double rounds to
`Mantissa` bits, so the place where integers stop being exact (2^53 in C) lies among the
values of a run. `%g` keeps `GDigits` digits. The words for null, true and false are
single letters. Records have two-byte integers and one-byte counts; every limit of the
reader (`MaxStringLen`, `MaxNestElems`, `MaxNestDepth`, `MaxColumns`, and `MaxRecordSize`
for the size in front of a record) is a constant that the run `values` sets low enough to
be hit. `qsort` is any order the comparison function allows, which matters where it
answers INCOMPARABLE. KdbValueLaws hands one set of inputs after the other to these
operators; in KdbAggregate the state is the pipeline's current result `cur`, and every
stage is an action, with its caps (`MaxAggGroups`, `MaxGroupKeys`, `MaxSortKeys`,
`MaxNestElems`). The tables of KdbQuery and KdbAggregate have no index: `FindEx` and the `Matches` of a $lookup scan, as `kdb_query_execute` does then (`query.c:454`).
$match always does. What a query through an index answers is KdbTable's (`AnswersExact`);
rows such an index leaves out (section 3) are missing from a find and a $lookup as well.

### KdbTable

`hdr` is `tbl->header`, `disk` the header in the file, `dirty`, `rows`, and `idx` the
indexes in memory, each a list of (hash, offset); `fp` is FALSE after a rewrite that lost
its file. Offsets are sums of record sizes, so a row that becomes shorter moves the rows
behind it, and a stale offset reads another row or nothing. A rewrite has the outcomes of
`kdb_storage_rewrite`: done, failed with the file intact, or lost; the ALTERs that flush the
header once more after it have a fourth, `"flush"`. A header flush (`Flush`) may fail with
the header written or not; an insert ignores that, and the row that was still in the stdio
buffer may be gone. Arrays that the code
shifts by memmove keep their old last element, as in C. Each function of table.c is an
action; what it makes of the rows is an operator of its own (`Updated`, `FieldDropped`,
`FieldRenamed`, `FieldCast`, `AppendRecords`), and the loops of the code are recursive
functions (`Ascending`, `Offsets`, `Built`, `AppendRecords`, `kdb_table_infer_schema`).

Its assumptions on the constants are what the code gives: a type has its name and
`kdb_value_cast` returns a value of the type asked for or fails (`TableAssumption`); two
values are equal whichever is taken for the filter's (`MatchesAssumption`); a record
has at least its status byte (`SizeAssumption`); arguments are rows and columns
(`ArgumentAssumption`). The run `table` evaluates them for the values of KdbTypes and the
record sizes of KdbRecord.

### KdbForeignKeys

`rows` and `exists` per table, `fks` in the order the directory lists them. A call is one
step, because nothing else runs in it, but its loops keep their order: `SingleVisits` and
`CompositeVisits` are the pairs of a row and a key that the nested loops go through, in
their order, `Act` performs one action, `ActAll` one visit after the other until one fails,
and a call that fails half way keeps what it had written. `Enforce[left]` maps the
arguments of `kdb__enforce_fk_referential_actions` (or of its composite counterpart) to
rows and outcome, where the chain of cascades may still become `left` long: a recursive
function over the depth, as the C functions recurse with `depth + 1`. As in C, a cascaded
write of one column (`kdb__cascade_set_one_field`) follows single-column keys only, one of
several columns both kinds. The caps (`MaxDepth`, `MaxReferencers`,
`MaxCompositeReferencers`, `MaxCompositeKeys`) are constants.

Two things besides the application change the outcome of a call, and `Meanwhile` changes
them between calls. `unseen` has the ids of rows that a query through an index leaves out:
the code fetches the rows whose keys it enforces by `kdb_query_execute` (`Found`), which
may use an index that is stale, capped or keyed by another type, while counts, updates and
deletes scan (`Matching`). Why an index misses a row is KdbTable's; here any set of `Misses`
may be missed, by every query with a filter alike and until the next `Meanwhile`, which is
more than the code does: it rebuilds the indexes of a table it has rewritten. A row that
an index yields twice is visited once in the model.
`now` is what `time()` returns, and goes into `updated_at` where a row is inserted
or rewritten (`Stamped`). `created_at` never changes and is an ordinary column here.

An argument gives values to some fields; a stored row has a value for every column, `Null`
where the C record has no field, which no comparison tells apart. Its assumptions
(`ForeignKeyAssumption`): ids are values and not NULL, a key is as the ALTER functions let
it be (`Key`: distinct columns, no pseudo column among the referencing ones), a default or
a patch does not set a pseudo column, indexes may miss nothing, time is not NULL.

### SqlWhere, SqlSelect, SqlSession

SqlWhere parses a sequence of tokens as sql.c does and follows the decision between the
flat path (a filter list for `kdb_find_ex`) and the tree evaluated row by row on texts.
SqlSelect goes through the stages of a SELECT, the clause of each chosen when it is
reached: `stage`, `rows`, and `did`, the clause just applied. SqlSession has the tables
(rows and next id), the rows of `__kumdb_views__`, `tx` for `db->sql_tx`, the `reply`, and
`run`, a WITH statement between two of its storage calls, where a call may fail or the
process may die. A "name=..." filter never finds a view whose name reads as a bool, a
number or null: `Odd` has such a name.

The flat path of UPDATE and DELETE and the conflict check of INSERT hand a condition to
the storage engine as a text. Its value is inferred again there, and a text in `Typed`
(it reads as a number, a bool or null) then equals no stored text: `InFilter`. ON CONFLICT
cuts the value besides (`Cut`, 255 bytes). A condition with parentheses is judged row by
row instead; the model takes either path for every condition (`Paths`). Rows that
RETURNING hands out are read by `kdb_find_ex`, which may use an index: of a `Lossy` table
it may leave any rows out (KdbTable says when), while counts, updates and deletes scan.

## 3. Runs

| Run | Instance | Shows |
|---|---|---|
| `tx_faults` | 2 tables, 1 savepoint, crashes anywhere, all I/O faults, cascades, drops | `OutcomeSettled`: once a table is backed up, only the rename of the marker changes what a crash would leave of it; `NoOrphanHandle`; `TypeOK` |
| `tx_crash` | 3 tables with room for 2, 1 savepoint, crashes anywhere but in a copy, failing backups and markers | `AllOrNothing` (refinement of AtomicTx), `NoLeftovers`, `CallReturns` |
| `tx_savepoints` | 2 tables, one of them created and dropped in transactions, 2 savepoints, each table with a key on itself, failing backups and markers, crashes outside transactions | `SavepointExact`, `AtRestAsPromised` |
| `storage_crash` | 1 writer, 1 reader, 3 single-row inserts into a table of at most 2 rows, rewrites, drops, failing rewrites, renames and reopens, crashes outside create, outside a write and outside the moment between row and header | `IdsUnique`, `AckedDurable`, `ReaderStable`, `TypeOK` |
| `storage_writers` | 2 writers, batches of up to 2 rows that may stop half way, every I/O fault, crashes anywhere but in create | `NamedFileWhole`, `LockGivenBack` |
| `values` | texts of up to 5 characters, 18 scalars and 6 nested values pairwise, 341 LIKE patterns and 628 regular expressions, records of up to 3 fields, every limit of the reader reached | `ConversionsReturn`, `ComparisonsAgree`, `PatternsAreReference`, `RecordReadsBack` |
| `queries` | tables of up to 3 rows with missing, NULL, mixed and nested values and no index, filter lists of up to 3, pipelines of 2 stages, 2 groups of 2 keys at most, 3 nested elements | `FindIsExact`, `PipelineIsRelational`, `SearchesAreExact` |
| `table` | 2 columns, 2 rows, 2 ALTERs, 1 failing rewrite or flush, 2 hash buckets | `AnswersExact`, `IndexesFollowWrites`, `WritesKeepConstraints`, `FailuresAreClean`, `AckedSchemaOnDisk` |
| `table_stale_index` | as `table`, rows of one type per column, no fault | violated: `IndexOnlyAccelerates` |
| `foreign_keys` | 3 tables, chains, forks, pairs of columns and circles with every action, 1 ALTER, 2 rows per table, depth 2, indexes that may come to miss the first row | `AcceptedWritesKeepReferences`, `DeleteRemovesClosure`, `RestrictLeavesNothingBehind` |
| `sql_select` | relations of up to 3 rows joined with up to 2 more, about 40 clauses, ROLLUP, CUBE and GROUPING SETS, every window function, every set operator | `ConditionsAreStandard`, `JoinIsRelational`, `GroupsCountOnce`, `WindowsCount`, `ResultsCount` |
| `sql_session` | 3 names, 3 values (one reads as a number, one is cut), 3 statements, 3 rows, 1 fault, an index that leaves rows out, WITH of up to 3 names, recursion of 2 rounds | `RollbackRestores`, `ViewsAcyclic`, `RepliesAreExact`, `WithLeavesNothing`, `RecursiveIsFixpoint`, `WithReturns` |

Every action and disjunct of every next-state relation fires in one of the passing runs.
`foreign_keys`, `sql_select` and `sql_session` have a VIEW that leaves out the outcome of
the last call; their properties are about steps, and every step is still examined when
its source state is, or about a part of the state the VIEW keeps.

Bounds. Two tables are enough for everything that relates a table to another one
(partial rollback, cascades, a marker with some backups left); the third table of
`tx_crash` makes the table limit bite. Two savepoints give nesting and reuse of a
depth. Two contents values tell "changed" from "unchanged". Three keys with room for
two rows give an insert before and after a delete, a full table, and an id that could
be reused; two processes give every interleaving of a holder of the lock with somebody
else; `storage_writers` needs a single key, its properties do not look at rows. Two
columns give an index that an ALTER of the other column must not disturb, and a
composite one; two rows give a row that moves and two that collide with each other;
two hash buckets make collisions the rule. Three tables and depth 2 give a chain that
reaches its cap and one that just does not. Three statements are enough to open a
transaction, write, and end it, or to build two views and use them; the initial states
supply what takes longer to build.

### What the passing runs exclude

The models contain what the code does in the following cases too; the properties or the
configurations leave them out because there the code does not keep the promise. Each can
be seen by lifting the exclusion named in parentheses.

* A crash after a transaction created a table leaves the table: `tx->is_new_table[]` is
  in memory only (`kumdb.c:594`; `kumdb.h:256` promises a rollback). (`tx_crash` has
  every table from the start.)
* A crash inside the copy of a backup leaves a partial `.txbak` under its final name,
  and recovery renames it over the intact table (`kumdb.c:430`, `566`; `kumdb.h:260`).
  (`"copy"` in `CrashSites`.)
* `kdb_tx_rollback` does not undo what a cascade did to another table (`kumdb.c:669`;
  `kumdb.h:250`). (`Cascades`.)
* A `kdb_tx_commit` that fails on its marker has already dropped the savepoints
  (`kumdb.c:719`; `kumdb.h:281` says nothing was lost).
* A rollback whose rename fails leaves a backup that the next `kdb_open` applies over
  later writes (`"restore"` in `IoFaults`).
* A crash between a row and its header makes the next insert reuse the row's id
  (`storage.c:60`; `DOCUMENTATION.md:31`); so does one after a batch that stopped half
  way. (`"header"` in `CrashSites`, `MaxBatch`.)
* A crash inside a write leaves a torn row, and rows acknowledged later cannot be read
  behind it (`"write"` in `CrashSites`); one inside `kdb_storage_create` leaves a file
  without a header (`"creating"`).
* Of two processes that create the table at once, one truncates what the other may have
  filled (`storage.c:116`, `121`; `README.md:122` warns of two writers). (`Creators`: one in
  `storage_crash`, both in `storage_writers`.)
* `kdb_table_insert` and the batch ignore a failing flush and acknowledge the rows
  (`table.c:1178`, `1224`). `AckedDurable` excludes it (`"flush"` in `IoFaults`). The run
  `table` has it: there `AckedSchemaOnDisk` asks that a header not written is still marked
  dirty, and `IndexesFollowWrites` leaves out the node of a row that was lost. The record of
  a refused batch that is still in the buffer is taken for written.
* DROP COLUMN, RENAME COLUMN and a change of type return the error of the flush after their
  rewrite, when rows and file have changed already (`table.c:225`, `449`, `565`):
  `FailureKeepsRows` names that outcome (`AlteredAllTheSame`). The header in the file is the
  new one all the same, because `kdb_storage_rewrite` writes it into the file it renames.
* A change of type turns NULL into the zero of the new type (`NullStaysNull`).
  `TypeChanged` is about rows that have a value.
* RENAME COLUMN to a name that rows have as a field, though no column has it, leaves two
  fields of one name in the record; the model keeps the one a reader finds first.
* Indexes other than the altered column's are stale after DROP COLUMN, RENAME COLUMN and
  a change of type until the next update, delete, compaction or reopen: the run
  `table_stale_index`. `AnswersExact` is about fresh indexes, about values asked for in
  the type they are stored in (the filter text `1` is a BOOL and hashes unlike the INT),
  and about buckets below the cap of a lookup.
* The writer of a record checks none of the reader's limits (`record.c:493`, `521`, `671`): a
  record with a string of more than 4096 bytes, or of more than 16 MB in all, is acknowledged,
  and a scan ends in front of it. `RecordReadsBack` says which records these are; the rows of
  KdbTable and KdbStorage are within the limits.
* A filter list whose first entry carries `OR:` has an empty first group, which matches
  every row (`kumdb.c:187`); `FindIsExact` counts that group in.
* What an index leaves out of the rows whose keys are enforced is written without a look at
  what points at it: `RestrictRejects`. `DeleteRemovesClosure`, and
  `AcceptedWritesKeepReferences` for updates and deletes, are about indexes that miss
  nothing (`unseen`); inserts are checked with any.
* Every update changes `updated_at`, which no patch names, so a key that refers to it is not
  looked at: `RestrictRejects`. `Disjoint` excludes such keys, and of deletes
  `AcceptedWritesKeepReferences` excludes those that ask for `updated_at`: their own cascade
  may change what they match.
* A CASCADE done before a RESTRICT or a constraint of the table itself is found stays
  done (`kumdb.c:1192`, `2632`); `RestrictLeavesNothingBehind` is about keys that only
  restrict. An update whose cascade comes back to its own table may no longer find the rows
  it started from, as `kdb_table_update` evaluates the filters again (`kumdb.c:2638`;
  `kumdb.h:448` promises that a key is NULL or some existing value): with `a.y` pointing at
  `b.x` and `b.x` at `a.x`, both ON UPDATE CASCADE, and rows `a(x=1,y=1)`, `b(x=1)`, setting `x`
  to 2 where `y` is 1 returns KDB_OK and leaves `a(x=1,y=2)` and `b(x=2)`. `NoCircle` is asked
  of updates, not of deletes. Keys beyond the 32 (or 16 composite) a call looks at are
  silently left out (`kumdb.c:1036`, `1378`): `WithinCaps`. Columns shared by two keys, defaults of key columns and tables that reference
  themselves can leave orphans: `Disjoint` excludes them. `kdb_batch_import` checks no
  keys; `kdb_add_foreign_key` does not look at the rows there are; dropping or renaming
  a table leaves references to it.
* `strcmp` may answer the number that means "not comparable" in sql.c (`sql.c:3673`):
  `Clash` excludes such texts. NULL keys form a group each (`noNull`), and
  keys that do not compare have no order (`keyed`, `comparable`).
* A table may be created under the name of a view, and dropping it later can close a
  circle of views; `ViewsAcyclic` holds until that happens (`collided`), and the stack
  overflow that follows is the action `StackOverflow`. A WITH whose cleanup fails, or
  whose names a filter cannot find, leaves its views or its table behind (`clean`, `Odd`),
  and the same WITH is refused from then on. ON CONFLICT DO UPDATE with RETURNING loses
  the rows whose key it has set. UNION in WITH RECURSIVE keeps duplicates of the base case.
* ON CONFLICT sees no conflict for a text that reads as a number, a bool or null, or that is
  longer than 255 bytes: `DoNothingIsNoOp`. `UpsertKeepsKeys` is about the other
  texts (`Sought`).
* INSERT ... SELECT finds a row with too few columns only when it comes to it, and the rows
  before it stay: `CountsCheckedFirst`. `RepliesAreExact` counts them.
* RETURNING does not hand out the rows that an index leaves out (`reply.args[3]`), though
  they are updated or deleted and counted.

Five of these are promises of the documentation, stated as properties beside the others
but in none of the runs, because TLC finds each violated: it does so in seconds with the
property in the place of the others in the configuration named here.

| Property | Promise | Configuration and trace |
|---|---|---|
| `NullStaysNull` | `table.c:517`, `DOCUMENTATION.md:795`: "`NULL` stays `NULL`" | `MCKdbTable.cfg`. A batch with b = NULL, ALTER COLUMN b TYPE int, and b is 0 (`types.c:855`). |
| `RestrictRejects` | `kumdb.c:1113`: "rejects the write if any referencing row remains" | `MCKdbForeignKeys.cfg` with `Schemas <- MCRestrict`. A row of a, a row of b that points at it, the index comes to miss the first, and DELETE on a returns KDB_OK (`kumdb.c:2668`). |
| `RestrictRejects` | the same; `DOCUMENTATION.md:845` lets a key refer to `updated_at` | `MCKdbForeignKeys.cfg` with `Schemas <- MCStamp`, `ColOrder <- MCStampedOrder`, `Misses = {{}}`, `Clock = {1, 2}`. A second later an update of another column returns KDB_OK, and the row of b points at nothing (`table.c:1250`). |
| `DoNothingIsNoOp` | `DOCUMENTATION.md:673`: "it checks whether a row already matches every named column's value. If one does, `DO NOTHING` leaves things exactly as they are" | `MCSqlSession.cfg`. A row whose k is a text like '5' or 'true', INSERT of a row with the same k ON CONFLICT (k) DO NOTHING, and the table has two (`sql.c:2511`, `query.c:67`). |
| `CountsCheckedFirst` | `sql.c:2684`: "fails the whole statement before anything is inserted"; `DOCUMENTATION.md:665` | `MCSqlSession.cfg` with `MaxFaults = 0`. INSERT ... SELECT from a table with a full row followed by a row without the second column adds the first row and then fails (`sql.c:2695`). |

Fairness. `FairSpec` of KdbTx has weak fairness on the steps of a running call: the
code neither waits nor blocks inside these calls, nothing obliges the application to
make one, and nothing makes the process die. `FairSpec` of KdbStorage has weak fairness
on the steps under the lock, process by process: once `fcntl` has returned, no step
waits for another process. Nothing is assumed about who gets the lock. In SqlSession
a WITH statement under way goes on or the process dies: one thread runs it and waits for
nothing. No fairness is assumed on the statements of the application.

## 4. Proofs

Every theorem holds for every value of the constants its assumptions leave: any number
of tables, rows, processes, savepoints, columns, any limits, any set of crash sites and
faults. Each inductive invariant was checked by TLC on a run's instance before it was
proved.

### Transactions

`KdbTxProofs`, from `TxAssumption` alone: `TypeCorrect`, `OutcomeIsSettled`,
`HandlesFollowFiles`, `Tracking`; and `NothingLeftOver`.

* `Inv` strengthens `TypeOK` with what ties the control state to memory and disk (which
  operations run at which `pc`, that `todo` lists only tracked entries, that a marker
  exists only while its backups are being discarded, that a table is tracked as backed
  up only when its backup exists). `OutcomeSettled` is not inductive by itself: that
  `DiscardBackup` changes nothing needs the fact that the marker lists every entry in
  `todo`, that `UndoTable` changes nothing needs that the backup being renamed is the one
  recovery would use.
* `TrackInv` follows kdb__tx_touch through its loop over the depths: what is tracked as
  old at an active depth has its backup there, but for the depths that are being
  unlinked and the tables already restored.
* `BackupInv` is the other direction: a backup on disk has somebody who will still
  remove it. It gives `NoLeftovers`, under `RestoresWork`: no rename that restores a
  backup fails. Without it the code does leave one behind (section 3).

`KdbTxRefinementProofs` proves `Refinement`: Spec implements AtomicTx. `RInv` adds to
these invariants that a table tracked at one depth is tracked at the depths before it
(`NestInv`), that a rollback has removed the created tables it has done with
(`UndoneInv`), and that without creations and drops no table is tracked as new
(`FixedInv`). `CommittedStep` shows that a step which is neither a plain write nor the
end of a commit leaves what is committed alone; `Simulation` then maps each step to
Open, Close, Write, Begin, TxWrite, Commit, Abort or a stutter. The hypothesis is
`RefinementAssumptions`, and each part of it is there because the code breaks the
promise without it, as section 3 lists: restoring renames succeed; a foreign key's
actions stay on tables the transaction has tracked; no crash cuts a backup short; and
the transaction creates and drops no tables or the process does not die in it. The run
`tx_crash` is an instance of the first side of the last one; `tx_savepoints`, which
checks what follows for the tables at rest, is one of the second.

The second part of the module adds the history variables. `PromisesKept`: by induction, what was
promised is what is committed, so it is what the files hold between transactions.
`SavepointsExact`: `SnapInv` says of every active savepoint, at every point of every
call, that undoing to it now would give what the tables were when it was created; it is
inductive with `TrackInv` and `NestInv`. Its hypotheses are that restoring renames succeed
and that cascades stay on tracked tables; crashes need none, as they end every savepoint.

Two of these proof attempts corrected the model. The refinement mapping took a table
that the running transaction had created for a committed one, and `GivesUp` took the last
step of a successful rollback for one that gives a table up; neither showed in the
instances checked then. `tx_savepoints` now has crashes and a cascade.

### Storage

`KdbStorageProofs`, from `StorageAssumption`:

* `TypeCorrect`. That `next_id` stays in range needs more than types: no header, in
  memory or on disk, is ahead of the number of keys used by more than one, and no row
  or buffered record has an id above it (`Typed`). `NextIdAfterFits` shows that the
  next_id a rewrite computes exists and keeps that bound.
* `ReadersStable`, under `SoleCreator`: one process at most creates the table. Every step
  either leaves a file alone, adds to it, or writes one that nobody has open and the path
  does not name (`FilesGrow`). For T.kdb.tmp this needs `TmpOwned`: no descriptor but
  `out_fp` refers to it. For `FopenCreate` it needs `SInv`: from the moment a sole creator
  has found no table (`CreateSafe`), nobody gives the path a file before it does, as
  without a table nobody has one to rename (`NoTable`).
* `NamedWhole`, under the hypothesis that no process dies inside
  `kdb_storage_create`, for any number of creators: a path without a whole file names
  the one a creator still has to write the header of. The file that is renamed is whole because the rewrite that
  filled it still holds the lock (`LockHeld`), so nobody has truncated it since.
* `UniqueIds` and `AckedRowsDurable`, under `CarefulWriter`: one process writes, its
  writes and flushes do not fail or stop half way, and it does not die between the last
  row of an insertion and its header; with batches, which may stop half way, it does
  not die and loses no file with the handle open. Each part excludes one of the losses
  of section 3, and the run `storage_crash` is an instance. Any number of readers, drops,
  reopenings, failing rewrites and crashes elsewhere remain. `WInv` relates the writer's
  cached header, its buffer and the file: the cached next_id is past every id in both
  (`IdsInv`), the one on disk is past every id in the file unless the header is still
  to be written (`HeaderInv`), the file about to be renamed has the rows to keep
  (`RewriteInv`), every acknowledged key is in the file (`AckInv`).

The invariant `IInv` is `Typed`, `LockHeld` and `TmpOwned`.

### Tables and indexes

`KdbTableProofs`, from the assumptions named in section 2 and nothing else:

* `TypeCorrect`. With `HeaderOK`: the names of the columns in use are distinct through every
  ADD, DROP and RENAME, and composite constraints stay within the array of columns,
  although `kdb_table_drop_column` shifts it under them.
* `HeaderDurable` (`AckedSchemaOnDisk`) is inductive by itself; the theorem shows it for
  every ALTER and insert and every outcome of its rewrite and its flush.
* `ConstraintsKept` (`WritesKeepConstraints`): `InsertedRowFits` and `UpdateKeepsClean`
  show that what `kdb_table_check_insert_constraints` and its counterpart test is what
  NOT NULL, UNIQUE and CHECK ask, `AppendFacts` carries it through a batch row by row, and
  symmetry of equality through a pair.
* `IndexesFollow` (`IndexesFollowWrites`): `BuiltAppend` shows by induction over the file
  that one insertion into an index and a rebuild with one more row are the same. That
  needs the offsets of the rows before to stay (`OffsetsAppend`).
* `FailuresClean` (`FailuresAreClean`), for every outcome of a rewrite, the last flush
  included.
* `IndexedAnswers` (`AnswersExact`): the nodes of a built index are, in some order, one for
  each row that has its columns (`BuiltFacts`), offsets are distinct (`OffsetsFacts`, where
  a record of zero bytes would break it), so the offset in a node leads back to its row
  and to no other, and the comparison after the lookup discards collisions.

The loops of the code are recursive functions here. The library's induction theorems
take a predicate and cannot be used, so `InductionLemmas` states induction for the
*set* of the numbers that have a property (from the library's `WFMin` over `<`), and
lemmas named `...Unfolds` show that a recursive function satisfies its equation. What
`Ascending`, `Offsets`, `Built`, `AppendRecords` and `kdb_table_infer_schema` compute is
proved this way for every input.

### Foreign keys

`KdbForeignKeysProofs`, from `ForeignKeyAssumption`: any tables, columns, keys, actions,
caps and depth, and any sets of rows the indexes miss. The last matters for all but
`AcceptedWrites` (there for updates and deletes) and `DeleteClosure`, which are about steps
where `unseen` is empty: then `Found` and what the write scans are the same rows.

* `FKTypes` and `FKIds` are the invariants: `FKInv` (types, every key is of a table that has
  a file, `next_id` within its bound) and `IdInv` (no two
  different rows share an id, and every id is below `next_id`).
* A cascade is a recursion over the depth and, at each depth, a loop over visits, both over
  rows that change under it. What one call does to the rows is therefore put as a relation
  between the rows before and after it, and shown to hold for `Enforce[left]` if it holds for
  `Enforce[left - 1]`: first for each action of one visit, then for any list of visits by
  induction over the list, then for every `left` by induction over the depth. A visit has to
  leave alone what the visits before it achieved, and that is why the relations say more
  than the theorems: a delete only takes rows away or sets fields to NULL (`Shrunk`), so
  that a row once gone, or a reference once cleared, stays so (`TakesAway`); an update
  follows the keys up, and without a circle it never comes back to a table it has finished
  with (`MovesUp`).
* `AcceptedWrites` (`AcceptedWritesKeepReferences`). For an add, what the child checks
  establish survives the insertion. For a delete, every visited key has no row left that
  points at a removed one, and nothing else loses its parent. For an update, in addition,
  the rows of each key have followed their parents to the new value or to NULL, and the
  patch itself was checked against parents that the cascade does not touch (`CircleFree`).
  `Disjoint`, `WithinCaps` and `NoCircle` are used where section 3 says.
  An update stamps `updated_at` besides what it patches (`RewrittenFacts`); no key of
  `Disjoint` has it on either side, which is all the argument needs.
* `RestrictLeavesNothing` (`RestrictLeavesNothingBehind`): with RESTRICT alone no visit
  writes, at any depth, so the first write is the last step of the call.
* `DeleteClosure` (`DeleteRemovesClosure`). `Deletes` says of a call that for every set
  closed under the cascading keys, which holds the rows it starts from, only rows of that
  set go, and that no row is left that points at one that went. So what is gone is closed,
  and contained in every closed set with the matched rows in it. Ids stand for rows
  in the property, which is what `IdInv` is needed for.

One of these attempts corrected a property. The update case could not be proved for a
circle of tables: TLC then found the trace given in section 3, and the C code does the
same. `DeleteRemovesClosure` lacked the caps on referencers among its hypotheses.

### SQL session

`SqlSessionProofs`, from `SqlAssumption`: the tables and views a connection finds are
well formed, no two views a filter finds share a name (`sql__exec_create_view` refuses
the second), `collided` is set where that cannot be known, a WITH list has at least one
entry, as its grammar asks, and names are names; the rows of a table have distinct ids below
the next one (`Numbered`, which `IdsUnique` of KdbStorage promises), and rows to insert, SET
assignments and recursive terms speak of the columns and values there are, `Cut` makes a
value of a value, and nothing else is known of `Typed` and `Lossy`. Any number of names, rows, savepoints
and statements, crashes and failing storage calls included.

The invariant `Inv` has three parts, and every action of `Next` is first reduced to its
effect on tables, views and transaction (`Effect`, 11 kinds: a write that every save keeps,
a table put at a free name, a view registered or removed, BEGIN, the end or a shortening of
the saves, the two rollbacks). The proof then goes by effect, not by action.

* `Shape`: a table kept by one savepoint is kept by every earlier one (`KeptIn`), which is
  what lets ROLLBACK TO leave the older ones usable; the first save, or else the table
  itself, holds the rows of BEGIN, and the views of BEGIN are still registered (`BegunIn`).
* `RunInv`: the names of a WITH under way were free when it began, in the tables, in every
  save and in what BEGIN saw (`Free`, `FreeView`). Without it a WITH inside a transaction,
  which bypasses `db->sql_tx`, could change what a rollback owes.
* `AcyclicInv`: as long as no name has been a table and a view at once, none is both,
  and no set of views is closed under "the view reads one of the set" (`NoCircle`). The
  first half alone carries no information about circles and the second alone is broken
  by a CREATE VIEW whose SELECT gets through only because a table hides a view.
  `NoCircle` speaks of sets of names and not of hops, so a step keeps it without
  counting; `EndsWithoutCircle` leads back to `Source`, which walks as many hops as
  there are views and otherwise would have visited a closed set.

From `Inv` follow `ViewsNeverCircle` (`ViewsAcyclic`) and `RollbackIsExact`
(`RollbackRestores`). `WithIsExact` (`WithLeavesNothing`) needs `Books` besides: at every
storage call of a WITH, the registry without its names is the one it found, the names it has
undone are gone, and for WITH RECURSIVE every table but its own is untouched and its own
was missing; what `Without` leaves of a list is shown by induction over the list.

`RepliesExact` (`RepliesAreExact`) needs `RowsInv`: the rows of every table, and of every table
a savepoint keeps, are `Numbered`, and what a recursion has gathered are rows. With it a write
is one of three things (`Grown`, rows at the end with ids not used before; `Edited`, rows
changed in place under their ids; or rows left out), and the reply is compared with each: how
many rows differ, and which. The set of rows that an index leaves out is part of the reply,
so RETURNING is compared with the other rows. ON CONFLICT keeps the keys distinct where the
filter that finds nothing is the filter for the tuple's own key (`Sought`). `Told` carries both the truth of the reply and `Numbered` of
the new table through every branch of a statement, those that fail halfway included. The
count of an update is a bound and not an equation, because an UPDATE counts the rows it
matched, some of which may have had the new value already.

### Only model-checked

Liveness (`CallReturns`, `LockGivenBack`, `WithReturns`) is out of the prover's reach.
The modules over values (KdbTypes and everything that extends it, so the laws of values,
queries, pipelines and SELECT) use RECURSIVE operators, as nested values and pattern
matchers are recursive in the code, and are out of reach for that reason. In SqlSession
`RecursiveIsFixpoint` stays with TLC: it counts walks by FoldSet, whose recursion the library
states through operators with an operator parameter.

## 5. Plan

What is left, in this order:

1. Proofs: the laws of scalars in KdbTypes (`ComparisonsAgree`), once the recursion over
   nested values and patterns is in a module of its own.
2. ALTER operations, which take no lock, beside a second process in KdbStorage; two
   transactions on one handle in KdbTx.

## 6. Not modelled

Message texts and error reporting (`error.c`). The lexer of SQL and the grammar of CREATE
and ALTER TABLE: what these statements do to a table is in KdbTable and KdbForeignKeys. The
scalar functions and CAST of a select list. The haversine formula, a constant function of
the geo searches. The bytes of a hash. Out of memory. The Qt application and the command
line tools, user interfaces over the C API; Windows. Failing `unlink`s (a stale commit
marker would discard a later transaction's backups), two transactions on one handle (they
share the `.txbak` paths), and a second read-write process during a transaction (its
recovery would roll that transaction back; `kumdb.h:246` documents a single writer).
