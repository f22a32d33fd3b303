------------------------------- MODULE KdbTx -------------------------------
(***************************************************************************)
(* Transactions, savepoints and crash recovery of kumdb.c.                 *)
(*                                                                         *)
(* One process owns the data directory (KumDB is single-writer).  Every    *)
(* table T is a file T.kdb.  A transaction applies its operations to the   *)
(* real files at once and relies on copies taken beforehand:               *)
(*   T.kdb.txbak          the table as it was when the tx first touched it *)
(*   T.kdb.txbak.sp<d-1>  the same for the savepoint at depth d            *)
(*   .kdb_tx_commit       the commit marker: the backups safe to discard   *)
(* The process may die between any two of the file operations below; the   *)
(* next read-write kdb_open runs kdb__tx_recover on whatever it finds.     *)
(*                                                                         *)
(* A table's contents are abstract values.  The arrays tables[] and        *)
(* is_new_table[] of KdbTx and KdbSavepoint are one function, seen; the    *)
(* loops over them are taken in any order, which includes array order.     *)
(***************************************************************************)
EXTENDS Naturals, FiniteSets

CONSTANTS
    Tables,        \* table names
    Contents,      \* contents of a well-formed table file
    Empty,         \* the contents kdb_storage_create writes
    NoFile,        \* no such file
    Torn,          \* a file whose copy was cut short
    Names,         \* savepoint names
    MaxTables,     \* KDB_TX_MAX_TABLES
    MaxSavepoints, \* KDB_TX_MAX_SAVEPOINTS
    InitFiles,     \* tables that exist when the model starts
    Droppable,     \* tables a plain kdb_drop_table may remove
    Cascades,      \* t -> tables an update or delete on t may change through foreign keys
    CrashSites,    \* control points at which the process may die
    IoFaults       \* file operations that may fail: backup, marker, restore, recover

Pcs == {"down", "recover_marker", "recover_scan", "idle", "tx", "touch", "copy",
        "op", "unlink", "mark", "discard", "restore"}

ASSUME TxAssumption ==
    /\ Empty \in Contents
    /\ NoFile \notin Contents /\ Torn \notin Contents /\ NoFile # Torn
    /\ NoFile \notin Tables
    /\ MaxTables \in Nat /\ MaxSavepoints \in Nat
    /\ InitFiles \subseteq Tables /\ Droppable \subseteq Tables
    /\ Cascades \in [Tables -> SUBSET Tables]
    /\ CrashSites \subseteq Pcs

Depths  == 0 .. MaxSavepoints    \* 0 is the transaction, d > 0 is savepoints[d - 1]
Entries == Depths \X Tables
Files   == Contents \cup {NoFile, Torn}
Mutators == {"add", "modify"}    \* kdb_tx_update and kdb_tx_delete take the same steps
Ops == Mutators \cup {"commit", "rollback", "close", "rollback_to", "release"}

VARIABLES
    \* on disk
    file,      \* [Tables -> Files], T.kdb
    bak,       \* [Entries -> Files], T.kdb.txbak and T.kdb.txbak.sp<d-1>
    marker,    \* the tables listed in .kdb_tx_commit; {} when there is none
    \* in memory
    handle,    \* [Tables -> ...], db->tables[]: cached open handle of the table
    pc,        \* where the running call is
    call,      \* the running call and its arguments
    todo,      \* what the running loop has left to visit
    seen,      \* [Entries -> {"no", "new", "old"}], tables[] with is_new_table[]
    spName,    \* savepoints[].name
    spCount,   \* savepoint_count
    failed     \* tx->failed

disk == <<file, bak, marker>>
txmem == <<seen, spName, spCount, failed>>
vars == <<file, bak, marker, handle, pc, call, todo, seen, spName, spCount, failed>>

NoCall == [op |-> "none", tbl |-> NoFile, depth |-> 0]
Call(op, t, d) == [op |-> op, tbl |-> t, depth |-> d]

CallType == [op : Ops \cup {"none"}, tbl : Tables \cup {NoFile},
             depth : 0 .. MaxSavepoints + 1]

TypeOK ==
    /\ file \in [Tables -> Files]
    /\ bak \in [Entries -> Files]
    /\ marker \subseteq Tables
    /\ handle \in [Tables -> {"none", "open", "orphan"}]
    /\ pc \in Pcs
    /\ call \in CallType
    /\ todo \subseteq Entries
    /\ seen \in [Entries -> {"no", "new", "old"}]
    /\ spName \in [Depths -> Names \cup {NoFile}]
    /\ spCount \in Depths
    /\ failed \in BOOLEAN

Init ==
    /\ file = [t \in Tables |-> IF t \in InitFiles THEN Empty ELSE NoFile]
    /\ bak = [e \in Entries |-> NoFile]
    /\ marker = {}
    /\ handle = [t \in Tables |-> "none"]
    /\ pc = "down"
    /\ call = NoCall
    /\ todo = {}
    /\ seen = [e \in Entries |-> "no"]
    /\ spName = [d \in Depths |-> NoFile]
    /\ spCount = 0
    /\ failed = FALSE

-----------------------------------------------------------------------------
(* File operations.                                                        *)

\* A read or a write through the handle cache: kdb__get_table opens the file
\* when no handle is cached; a handle whose file was replaced under it still
\* writes to the old inode, which no path names any more.
WriteTable(t, c) ==
    /\ file' = IF handle[t] = "orphan" THEN file ELSE [file EXCEPT ![t] = c]
    /\ handle' = [handle EXCEPT ![t] = IF @ = "none" THEN "open" ELSE @]

\* kdb__evict_table: close the cached handle.
Evict(h, t) == [h EXCEPT ![t] = "none"]

\* What unlinking or renaming over t.kdb does to a handle still open on it.
Detach(h, t) == [h EXCEPT ![t] = IF @ = "open" THEN "orphan" ELSE @]

\* Mutant: the cached handle is not evicted before the rename.
RestoreTableNoEvict(e) ==
    /\ handle' = Detach(handle, e[2])
    /\ file' = [file EXCEPT ![e[2]] = bak[e]]
    /\ bak' = [bak EXCEPT ![e] = NoFile]

\* kdb__tx_restore_table_from: evict the handle, rename the backup into place.
RestoreTable(e) ==
    /\ handle' = Detach(Evict(handle, e[2]), e[2])
    /\ file' = [file EXCEPT ![e[2]] = bak[e]]
    /\ bak' = [bak EXCEPT ![e] = NoFile]

\* The same when rename() fails.
RestoreTableFails(e) ==
    /\ handle' = Evict(handle, e[2])
    /\ UNCHANGED <<file, bak>>

\* kdb_drop_table: evict the handle, unlink the file.
DropTable(t) ==
    /\ handle' = Detach(Evict(handle, t), t)
    /\ file' = [file EXCEPT ![t] = NoFile]

-----------------------------------------------------------------------------
(* Opening and closing a read-write handle.                                *)

BackupsOnDisk(b) == {e \in Entries : b[e] # NoFile}

kdb_open ==
    /\ pc = "down"
    /\ IF marker # {}
       THEN pc' = "recover_marker" /\ todo' = {0} \X marker
       ELSE pc' = "recover_scan" /\ todo' = BackupsOnDisk(bak)
    /\ UNCHANGED <<disk, handle, call, txmem>>

\* Mutant: the marker is deleted before the backups it lists.
RecoverDiscardMarkerFirst ==
    /\ pc = "recover_marker"
    /\ marker' = {}
    /\ \E e \in todo :
        /\ bak' = [bak EXCEPT ![e] = NoFile]
        /\ todo' = todo \ {e}
    /\ UNCHANGED <<file, handle, pc, call, txmem>>

\* kdb__tx_recover, committed case: drop the backups the marker lists ...
RecoverDiscard ==
    /\ pc = "recover_marker"
    /\ \E e \in todo :
        /\ bak' = [bak EXCEPT ![e] = NoFile]
        /\ todo' = todo \ {e}
    /\ UNCHANGED <<file, marker, handle, pc, call, txmem>>

\* ... then the marker itself, and go on to the directory scan.
RecoverUnmark ==
    /\ pc = "recover_marker" /\ todo = {}
    /\ marker' = {}
    /\ pc' = "recover_scan"
    /\ todo' = BackupsOnDisk(bak)
    /\ UNCHANGED <<file, bak, handle, call, txmem>>

\* One directory entry: savepoint backups are unlinked, whole-transaction
\* backups renamed over their table (a failing rename is ignored).
RecoverScan ==
    /\ pc = "recover_scan"
    /\ \E e \in todo :
        /\ \/ /\ e[1] > 0
              /\ bak' = [bak EXCEPT ![e] = NoFile]
              /\ UNCHANGED <<file, handle>>
           \/ e[1] = 0 /\ RestoreTable(e)
           \/ e[1] = 0 /\ "recover" \in IoFaults /\ RestoreTableFails(e)
        /\ todo' = todo \ {e}
    /\ UNCHANGED <<marker, pc, call, txmem>>

RecoverDone ==
    /\ pc = "recover_scan" /\ todo = {}
    /\ pc' = "idle"
    /\ UNCHANGED <<disk, handle, call, todo, txmem>>

ForgetTx ==
    /\ call' = NoCall
    /\ todo' = {}
    /\ seen' = [e \in Entries |-> "no"]
    /\ spName' = [d \in Depths |-> NoFile]
    /\ spCount' = 0
    /\ failed' = FALSE

\* kdb_close with no SQL transaction open: close every cached handle.
kdb_close ==
    /\ pc = "idle"
    /\ pc' = "down"
    /\ handle' = [t \in Tables |-> "none"]
    /\ UNCHANGED <<disk, call, todo, txmem>>

\* The process dies: what is in memory is gone, what is on disk stays.
Crash ==
    /\ pc \in CrashSites \ {"down"}
    /\ pc' = "down"
    /\ handle' = [t \in Tables |-> "none"]
    /\ ForgetTx
    /\ UNCHANGED disk

-----------------------------------------------------------------------------
(* Operations outside a transaction.                                       *)

\* kdb_add, kdb_update, kdb_delete or kdb_batch_import, acknowledged.  A
\* cascading one is several of these steps.
PlainWrite(t, c) ==
    /\ pc = "idle"
    /\ WriteTable(t, c)
    /\ UNCHANGED <<bak, marker, pc, call, todo, txmem>>

kdb_drop_table(t) ==
    /\ pc = "idle" /\ t \in Droppable
    /\ DropTable(t)
    /\ UNCHANGED <<bak, marker, pc, call, todo, txmem>>

-----------------------------------------------------------------------------
(* kdb_tx_begin, kdb_tx_add, kdb_tx_update, kdb_tx_delete.                 *)

kdb_tx_begin ==
    /\ pc = "idle"
    /\ pc' = "tx"
    /\ UNCHANGED <<disk, handle, call, todo, txmem>>

\* The entry checks; a call on a failed transaction returns without effect.
TxMutate(op, t) ==
    /\ pc = "tx" /\ ~failed
    /\ pc' = "touch"
    /\ call' = Call(op, t, 0)
    /\ UNCHANGED <<disk, handle, todo, txmem>>

\* A kdb_tx_* call returns to its caller; st is FALSE when it failed.
Return(st) ==
    /\ pc' = "tx"
    /\ call' = NoCall
    /\ todo' = {}
    /\ failed' = (failed \/ ~st)

Cursor == <<call.depth, call.tbl>>
TablesSeen(d) == {t \in Tables : seen[<<d, t>>] # "no"}
Advance == call' = [call EXCEPT !.depth = @ + 1]

\* kdb__tx_touch, one turn of its loop: depth 0 is the transaction's own
\* tracking, the following depths are the active savepoints.
TouchSeen ==
    /\ pc = "touch" /\ call.depth <= spCount
    /\ seen[Cursor] # "no"
    /\ Advance
    /\ UNCHANGED <<disk, handle, pc, todo, txmem>>

TouchFull ==
    /\ pc = "touch" /\ call.depth <= spCount
    /\ seen[Cursor] = "no"
    /\ Cardinality(TablesSeen(call.depth)) >= MaxTables
    /\ Return(FALSE)
    /\ UNCHANGED <<disk, handle, seen, spName, spCount>>

\* The table does not exist yet: remember to drop it.
TouchNew ==
    /\ pc = "touch" /\ call.depth <= spCount
    /\ seen[Cursor] = "no"
    /\ Cardinality(TablesSeen(call.depth)) < MaxTables
    /\ file[call.tbl] = NoFile
    /\ seen' = [seen EXCEPT ![Cursor] = "new"]
    /\ Advance
    /\ UNCHANGED <<disk, handle, pc, todo, spName, spCount, failed>>

\* Mutant: a table already tracked is backed up again.
TouchCopyAgain ==
    /\ pc = "touch" /\ call.depth <= spCount
    /\ file[call.tbl] # NoFile
    /\ bak' = [bak EXCEPT ![Cursor] = Torn]
    /\ pc' = "copy"
    /\ UNCHANGED <<file, marker, handle, call, todo, txmem>>

\* kdb__tx_backup_table_to: fopen(dst, "wb") truncates the backup ...
TouchCopy ==
    /\ pc = "touch" /\ call.depth <= spCount
    /\ seen[Cursor] = "no"
    /\ Cardinality(TablesSeen(call.depth)) < MaxTables
    /\ file[call.tbl] # NoFile
    /\ bak' = [bak EXCEPT ![Cursor] = Torn]
    /\ pc' = "copy"
    /\ UNCHANGED <<file, marker, handle, call, todo, txmem>>

\* ... and only once all of it is written and synced is the table tracked.
CopyDone ==
    /\ pc = "copy"
    /\ bak' = [bak EXCEPT ![Cursor] = file[call.tbl]]
    /\ seen' = [seen EXCEPT ![Cursor] = "old"]
    /\ pc' = "touch"
    /\ Advance
    /\ UNCHANGED <<file, marker, handle, todo, spName, spCount, failed>>

\* Mutant: the partial backup is left behind when the copy fails.
CopyFailsKeepsBackup ==
    /\ pc = "copy" /\ "backup" \in IoFaults
    /\ Return(FALSE)
    /\ UNCHANGED <<disk, handle, seen, spName, spCount>>

CopyFails ==
    /\ pc = "copy" /\ "backup" \in IoFaults
    /\ bak' = [bak EXCEPT ![Cursor] = NoFile]
    /\ Return(FALSE)
    /\ UNCHANGED <<file, marker, handle, seen, spName, spCount>>

\* Every depth is tracked: run the operation proper.
TouchDone ==
    /\ pc = "touch" /\ call.depth > spCount
    /\ pc' = "op"
    /\ todo' = IF call.op = "add" THEN {} ELSE {0} \X Cascades[call.tbl]
    /\ UNCHANGED <<disk, handle, call, txmem>>

\* kdb__get_or_create_table: kdb_add creates a missing table.
OpCreate ==
    /\ pc = "op" /\ call.op = "add"
    /\ handle[call.tbl] = "none" /\ file[call.tbl] = NoFile
    /\ WriteTable(call.tbl, Empty)
    /\ UNCHANGED <<bak, marker, pc, call, todo, txmem>>

\* kdb_update and kdb_delete cascade to the referencing tables first, straight
\* through kdb_table_update/kdb_table_delete: no kdb__tx_touch on the way.
OpCascade ==
    /\ pc = "op"
    /\ \E e \in todo :
        /\ \/ /\ file[e[2]] # NoFile
              /\ \E c \in Contents : WriteTable(e[2], c)
           \/ UNCHANGED <<file, handle>>    \* no child row, or no such table
        /\ todo' = todo \ {e}
    /\ UNCHANGED <<bak, marker, pc, call, txmem>>

OpDone ==
    /\ pc = "op" /\ todo = {}
    /\ file[call.tbl] # NoFile
    /\ \E c \in Contents : WriteTable(call.tbl, c)
    /\ Return(TRUE)
    /\ UNCHANGED <<bak, marker, seen, spName, spCount>>

\* The operation fails, before or after it changed the table: a missing table,
\* a constraint, a RESTRICT met after other cascades, an I/O error.
OpFails ==
    /\ pc = "op"
    /\ \/ UNCHANGED <<file, handle>>
       \/ file[call.tbl] # NoFile /\ \E c \in Contents : WriteTable(call.tbl, c)
    /\ Return(FALSE)
    /\ UNCHANGED <<bak, marker, seen, spName, spCount>>

-----------------------------------------------------------------------------
(* Savepoints, commit and rollback.                                        *)

ActiveNames == {spName[d] : d \in 1 .. spCount}

kdb_tx_savepoint(n) ==
    /\ pc = "tx" /\ ~failed
    /\ n \notin ActiveNames
    /\ spCount < MaxSavepoints
    /\ spCount' = spCount + 1
    /\ spName' = [spName EXCEPT ![spCount + 1] = n]
    /\ seen' = [e \in Entries |-> IF e[1] = spCount + 1 THEN "no" ELSE seen[e]]
    /\ call' = NoCall
    /\ UNCHANGED <<disk, handle, pc, todo, failed>>

\* The backups of the savepoints at depth d and deeper.
SavepointBackups(d) ==
    {e \in Entries : d <= e[1] /\ e[1] <= spCount /\ seen[e] = "old"}

\* Each of these four starts by unlinking savepoint backups.
StartUnlink(op, d, first) ==
    /\ pc = "tx"
    /\ pc' = "unlink"
    /\ call' = Call(op, NoFile, d)
    /\ todo' = SavepointBackups(first)
    /\ UNCHANGED <<disk, handle, txmem>>

kdb_tx_commit == ~failed /\ StartUnlink("commit", 0, 1)

kdb_tx_rollback == StartUnlink("rollback", 0, 1)

\* kdb_close while db->sql_tx is open rolls it back first.
kdb_close_tx == StartUnlink("close", 0, 1)

kdb_tx_rollback_to_savepoint(n) ==
    \E d \in 1 .. spCount : spName[d] = n /\ StartUnlink("rollback_to", d, d + 1)

kdb_tx_release_savepoint(n) ==
    \E d \in 1 .. spCount : spName[d] = n /\ StartUnlink("release", d, d)

\* Mutant: the loop over the savepoint backups does not advance.
UnlinkBackupStuck ==
    /\ pc = "unlink"
    /\ \E e \in todo : bak' = [bak EXCEPT ![e] = NoFile]
    /\ UNCHANGED <<file, marker, handle, pc, call, todo, txmem>>

UnlinkBackup ==
    /\ pc = "unlink"
    /\ \E e \in todo :
        /\ bak' = [bak EXCEPT ![e] = NoFile]
        /\ todo' = todo \ {e}
    /\ UNCHANGED <<file, marker, handle, pc, call, txmem>>

\* savepoint_count = d.
Truncate(d) ==
    /\ spCount' = d
    /\ spName' = [e \in Depths |-> IF e > d THEN NoFile ELSE spName[e]]

BackedUp == {t \in Tables : seen[<<0, t>>] = "old"}

\* Mutant: one savepoint too many is popped.
ReleaseDoneOffByOne ==
    /\ pc = "unlink" /\ todo = {} /\ call.op = "release"
    /\ Truncate(call.depth - 2)
    /\ Return(TRUE)
    /\ UNCHANGED <<disk, handle, seen>>

ReleaseDone ==
    /\ pc = "unlink" /\ todo = {} /\ call.op = "release"
    /\ Truncate(call.depth - 1)
    /\ Return(TRUE)
    /\ UNCHANGED <<disk, handle, seen>>

CommitMarks ==
    /\ pc = "unlink" /\ todo = {} /\ call.op = "commit"
    /\ BackedUp # {}
    /\ Truncate(0)
    /\ pc' = "mark"
    /\ UNCHANGED <<disk, handle, call, todo, seen, failed>>

\* Nothing was backed up: the transaction is simply freed.
CommitNothing ==
    /\ pc = "unlink" /\ todo = {} /\ call.op = "commit"
    /\ BackedUp = {}
    /\ ForgetTx
    /\ pc' = "idle"
    /\ UNCHANGED <<disk, handle>>

\* kdb__tx_write_marker succeeds: from here on the transaction is committed.
WriteMarker ==
    /\ pc = "mark"
    /\ marker' = BackedUp
    /\ pc' = "discard"
    /\ todo' = {0} \X BackedUp
    /\ UNCHANGED <<file, bak, handle, call, txmem>>

\* It fails before its rename: kdb_tx_commit returns, tx is still valid.
WriteMarkerFails ==
    /\ pc = "mark" /\ "marker" \in IoFaults
    /\ pc' = "tx"
    /\ UNCHANGED <<disk, handle, call, todo, txmem>>

DiscardBackup ==
    /\ pc = "discard"
    /\ \E e \in todo :
        /\ bak' = [bak EXCEPT ![e] = NoFile]
        /\ todo' = todo \ {e}
    /\ UNCHANGED <<file, marker, handle, pc, call, txmem>>

DeleteMarker ==
    /\ pc = "discard" /\ todo = {}
    /\ marker' = {}
    /\ pc' = "idle"
    /\ ForgetTx
    /\ UNCHANGED <<file, bak, handle>>

\* kdb_tx_rollback, kdb_close and kdb_tx_rollback_to_savepoint: after the
\* nested savepoints, undo every table tracked at call.depth.
StartRestore ==
    /\ pc = "unlink" /\ todo = {}
    /\ call.op \in {"rollback", "close", "rollback_to"}
    /\ Truncate(call.depth)
    /\ pc' = "restore"
    /\ todo' = {call.depth} \X TablesSeen(call.depth)
    /\ UNCHANGED <<disk, handle, call, seen, failed>>

\* Mutant: tables the transaction created are not dropped.
UndoTableKeepsNew ==
    /\ pc = "restore"
    /\ \E e \in todo :
        /\ IF seen[e] = "old" THEN RestoreTable(e) ELSE UNCHANGED <<file, bak, handle>>
        /\ todo' = todo \ {e}
    /\ UNCHANGED <<marker, pc, call, txmem>>

UndoTable ==
    /\ pc = "restore"
    /\ \E e \in todo :
        /\ \/ seen[e] = "new" /\ DropTable(e[2]) /\ UNCHANGED bak
           \/ seen[e] = "old" /\ RestoreTable(e)
           \/ seen[e] = "old" /\ "restore" \in IoFaults /\ RestoreTableFails(e)
        /\ todo' = todo \ {e}
    /\ UNCHANGED <<marker, pc, call, txmem>>

RollbackDone ==
    /\ pc = "restore" /\ todo = {} /\ call.depth = 0
    /\ ForgetTx
    /\ IF call.op = "close"
       THEN pc' = "down" /\ handle' = [t \in Tables |-> "none"]
       ELSE pc' = "idle" /\ UNCHANGED handle
    /\ UNCHANGED disk

\* Mutant: the savepoint keeps tracking the tables it has just restored.
RollbackToDoneKeepsSeen ==
    /\ pc = "restore" /\ todo = {} /\ call.depth > 0
    /\ failed' = FALSE
    /\ pc' = "tx"
    /\ call' = NoCall
    /\ UNCHANGED <<disk, handle, todo, seen, spName, spCount>>

\* The savepoint stays, tracking nothing; the failed flag is cleared.
RollbackToDone ==
    /\ pc = "restore" /\ todo = {} /\ call.depth > 0
    /\ seen' = [e \in Entries |-> IF e[1] = call.depth THEN "no" ELSE seen[e]]
    /\ failed' = FALSE
    /\ pc' = "tx"
    /\ call' = NoCall
    /\ UNCHANGED <<disk, handle, todo, spName, spCount>>

-----------------------------------------------------------------------------

Recovery == kdb_open \/ RecoverDiscard \/ RecoverUnmark \/ RecoverScan \/ RecoverDone

Mutation ==
    \/ TouchSeen \/ TouchFull \/ TouchNew \/ TouchCopy \/ CopyDone \/ CopyFails \/ TouchDone
    \/ OpCreate \/ OpCascade \/ OpDone \/ OpFails

Ending ==
    \/ UnlinkBackup \/ ReleaseDone \/ CommitMarks \/ CommitNothing
    \/ WriteMarker \/ WriteMarkerFails \/ DiscardBackup \/ DeleteMarker
    \/ StartRestore \/ UndoTable \/ RollbackDone \/ RollbackToDone

\* What the application asks for, PlainWrite apart.
Request ==
    \/ kdb_close \/ kdb_close_tx \/ kdb_tx_begin \/ kdb_tx_commit \/ kdb_tx_rollback
    \/ \E t \in Tables : kdb_drop_table(t)
    \/ \E op \in Mutators, t \in Tables : TxMutate(op, t)
    \/ \E n \in Names : kdb_tx_savepoint(n)
    \/ \E n \in Names : kdb_tx_rollback_to_savepoint(n)
    \/ \E n \in Names : kdb_tx_release_savepoint(n)

NonPlain == Recovery \/ Mutation \/ Ending \/ Request \/ Crash

Next == NonPlain \/ \E t \in Tables, c \in Contents : PlainWrite(t, c)

Spec == Init /\ [][Next]_vars

\* A call that was made runs on until it returns (or the process dies): the
\* code neither blocks nor waits.  Nothing obliges the application to call.
CallStep == (Recovery /\ pc # "down") \/ Mutation \/ Ending

FairSpec == Spec /\ WF_vars(CallStep)

-----------------------------------------------------------------------------
(* Properties.                                                             *)

\* What kdb__tx_recover would leave in t.kdb if the process died now.
Recoverable(t) ==
    IF bak[<<0, t>>] # NoFile /\ t \notin marker THEN bak[<<0, t>>] ELSE file[t]

\* The tables whose fate is settled: all of them between a crash and the end
\* of recovery, and those a running transaction has backed up.
Settled(t) ==
    \/ pc \in {"down", "recover_marker", "recover_scan"}
    \/ pc # "idle" /\ seen[<<0, t>>] = "old"

\* kdb__tx_touch, kdb_tx_commit, kdb_tx_rollback and kdb__tx_recover together:
\* from its backup to the end of the transaction, nothing but the rename that
\* publishes the commit marker changes what a crash would leave of a table,
\* and recovery, however often it is itself interrupted, changes nothing.
OutcomeSettled ==
    [][\A t \in Tables :
        Settled(t) /\ ~(pc = "mark" /\ pc' = "discard") => Recoverable(t)' = Recoverable(t)]_vars

\* No backup and no marker outlives its transaction (a stale one would undo
\* later writes, or commit a later transaction, at the next kdb_open).
NoLeftovers == pc = "idle" => marker = {} /\ \A e \in Entries : bak[e] = NoFile

\* No cached handle outlives the file it was opened on: kdb__evict_table runs
\* before every rename over, or unlink of, a table file.
NoOrphanHandle == \A t \in Tables : handle[t] # "orphan"

\* Every call, recovery included, comes back to its caller unless the process dies.
CallReturns == pc \notin {"down", "idle", "tx"} ~> pc \in {"down", "idle", "tx"}
=============================================================================
