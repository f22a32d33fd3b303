----------------------------- MODULE KdbStorage -----------------------------
(***************************************************************************)
(* One table file: storage.c under the locking of table.c and lock.c.      *)
(*                                                                         *)
(* Every handle is a process of its own that has the table open (or not);  *)
(* Writers may change it, the others only read.  A handle caches the       *)
(* header it read when it opened the file and holds an open descriptor, so *)
(* inodes are explicit: rename() and unlink() change what the path names,  *)
(* never what a descriptor refers to.                                      *)
(*                                                                         *)
(* Appending goes to the end of the file through a stdio buffer, the       *)
(* header is rewritten in place afterwards; updating, deleting and         *)
(* compacting write T.kdb.tmp and rename it over T.kdb.  A record is its   *)
(* id and a key, which names the kdb_add it came from and is never reused. *)
(* A file's records are a set: their order shows only in that nothing      *)
(* after a torn record can be read.                                        *)
(***************************************************************************)
EXTENDS Naturals, FiniteSets

CONSTANTS
    Handles,     \* processes that may open the table
    Writers,     \* those that opened the database read-write
    Creators,    \* writers that may call kdb_create_table, or be the first to add
    NoHandle,    \* nobody: the lock is free
    MaxRecords,  \* KDB_MAX_RECORDS
    MaxBatch,    \* rows in one kdb_batch_import
    MaxKeys,     \* bound: records appended over a whole behaviour
    CanDrop,     \* may kdb_drop_table be called?
    CrashSites,  \* control points at which a process may die
    IoFaults     \* what may fail: append, flush, rewrite, rename, reopen

Pcs == {"closed", "create", "creating", "idle", "insert", "header", "rewrite", "fill", "rename"}

\* A second writer is not expected to survive a drop: kdb_storage_drop takes no
\* lock and unlinks the lock file.
ASSUME StorageAssumption ==
    /\ IsFiniteSet(Handles) /\ Writers \subseteq Handles /\ NoHandle \notin Handles
    /\ Creators \subseteq Writers
    /\ MaxRecords \in Nat /\ MaxBatch \in Nat /\ MaxKeys \in Nat
    /\ CanDrop \in BOOLEAN
    /\ CanDrop => \A g, h \in Writers : g = h

NoInode == 0
Inodes == 1 .. 2 * Cardinality(Handles) + 2
Keys == 1 .. MaxKeys
Ids == 1 .. MaxKeys + 1

\* A file that fopen(.., "wb") has truncated and nobody has written yet.
Blank == [magic |-> FALSE, next |-> 1, count |-> 0, rows |-> {}]
\* What is left of a record that was cut short.
Torn == [id |-> 0, key |-> 0]

VARIABLES
    inode,  \* [Inodes -> contents]: the header (is it written? next_id, record_count), the rows
    path,   \* the inode T.kdb names
    tmp,    \* the inode T.kdb.tmp names
    lock,   \* who holds the fcntl lock on T.kdb.lock
    \* per handle
    fd,     \* tbl->fp: the inode it is open on
    hdr,    \* tbl->header: next_id and record_count as cached
    dirty,  \* tbl->dirty
    buf,    \* the record in tbl->fp's stdio buffer
    out,    \* out_fp of a running rewrite, or fp of a running kdb_storage_create
    pc,     \* where the running call is
    todo,   \* rows it has left to append
    mine,   \* the keys it has appended, or deletes
    \* history
    serial, \* keys used so far
    acked   \* keys whose insertion was acknowledged, less those deleted since

own == <<fd, hdr, dirty, buf, out, pc, todo, mine>>
vars == <<inode, path, tmp, lock, own, serial, acked>>

Headers == [next : Ids, count : Nat]
Records == [id : Ids, key : Keys] \cup {Torn}
Contents == [magic : BOOLEAN, next : Ids, count : Nat, rows : SUBSET Records]

TypeOK ==
    /\ inode \in [Inodes -> Contents]
    /\ path \in Inodes \cup {NoInode} /\ tmp \in Inodes \cup {NoInode}
    /\ lock \in Handles \cup {NoHandle}
    /\ fd \in [Handles -> Inodes \cup {NoInode}]
    /\ hdr \in [Handles -> Headers]
    /\ dirty \in [Handles -> BOOLEAN]
    /\ buf \in [Handles -> SUBSET Records]
    /\ out \in [Handles -> Inodes \cup {NoInode}]
    /\ pc \in [Handles -> Pcs]
    /\ todo \in [Handles -> 0 .. MaxBatch]
    /\ mine \in [Handles -> SUBSET Keys]
    /\ serial \in 0 .. MaxKeys
    /\ acked \subseteq Keys

FreshHeader == [next |-> 1, count |-> 0]

Init ==
    /\ inode = [i \in Inodes |-> Blank]
    /\ path = NoInode /\ tmp = NoInode /\ lock = NoHandle
    /\ fd = [h \in Handles |-> NoInode]
    /\ hdr = [h \in Handles |-> FreshHeader]
    /\ dirty = [h \in Handles |-> FALSE]
    /\ buf = [h \in Handles |-> {}]
    /\ out = [h \in Handles |-> NoInode]
    /\ pc = [h \in Handles |-> "closed"]
    /\ todo = [h \in Handles |-> 0]
    /\ mine = [h \in Handles |-> {}]
    /\ serial = 0 /\ acked = {}

-----------------------------------------------------------------------------
(* Files and buffers.                                                      *)

\* An inode that no path and no descriptor refers to.
Free(i) ==
    /\ i # path /\ i # tmp
    /\ \A h \in Handles : i # fd[h] /\ i # out[h]

\* kdb_storage_scan stops at the first record kdb_record_read cannot read.
Visible(rows) == rows \ {Torn}

\* f once b is written at its end.  Records behind a torn one are never read
\* again; those put into a file that another kdb_storage_create has truncated
\* lie where a header is written next (that they reach beyond it is left out).
AppendTo(f, b) ==
    IF Torn \in f.rows \/ ~ f.magic THEN f ELSE [f EXCEPT !.rows = @ \cup b]

KeysOf(rows) == {r.key : r \in Visible(rows)}

\* The file h has open once its stdio buffer is written out.
Flushed(h) == AppendTo(inode[fd[h]], buf[h])

HeaderOf(f) == [next |-> f.next, count |-> f.count]
SetHeader(f, hd) == [f EXCEPT !.magic = TRUE, !.next = hd.next, !.count = hd.count]

\* The call of h ends and gives the lock back (kdb_lock_release).
Release(h, next) ==
    /\ lock' = IF lock = h THEN NoHandle ELSE lock
    /\ pc' = [pc EXCEPT ![h] = next]
    /\ todo' = [todo EXCEPT ![h] = 0]
    /\ mine' = [mine EXCEPT ![h] = {}]

-----------------------------------------------------------------------------
(* Creating, opening, closing and dropping.                                *)

\* kdb_storage_create finds no table ...
kdb_storage_create(h) ==
    /\ h \in Creators /\ pc[h] = "closed"
    /\ path = NoInode
    /\ pc' = [pc EXCEPT ![h] = "create"]
    /\ UNCHANGED <<inode, path, tmp, lock, fd, hdr, dirty, buf, out, todo, mine, serial, acked>>

\* ... fopen(path, "wb") makes one, or truncates what another process has made
\* since: no lock is held.  The header is still in the buffer ...
FopenCreate(h) ==
    /\ pc[h] = "create"
    /\ \E i \in Inodes :
        /\ IF path # NoInode THEN i = path
           ELSE Free(i) /\ \A j \in Inodes : Free(j) => i <= j
        /\ path' = i
        /\ out' = [out EXCEPT ![h] = i]
        /\ inode' = [inode EXCEPT ![i] = Blank]
    /\ pc' = [pc EXCEPT ![h] = "creating"]
    /\ UNCHANGED <<tmp, lock, fd, hdr, dirty, buf, todo, mine, serial, acked>>

\* ... and fclose writes it.
CreateDone(h) ==
    /\ pc[h] = "creating"
    /\ inode' = [inode EXCEPT ![out[h]] = SetHeader(@, FreshHeader)]
    /\ out' = [out EXCEPT ![h] = NoInode]
    /\ pc' = [pc EXCEPT ![h] = "closed"]
    /\ UNCHANGED <<path, tmp, lock, fd, hdr, dirty, buf, todo, mine, serial, acked>>

\* kdb_storage_open: a file without a header cannot be opened.
kdb_storage_open(h) ==
    /\ pc[h] = "closed"
    /\ path # NoInode /\ inode[path].magic
    /\ fd' = [fd EXCEPT ![h] = path]
    /\ hdr' = [hdr EXCEPT ![h] = HeaderOf(inode[path])]
    /\ dirty' = [dirty EXCEPT ![h] = FALSE]
    /\ buf' = [buf EXCEPT ![h] = {}]
    /\ pc' = [pc EXCEPT ![h] = "idle"]
    /\ UNCHANGED <<inode, path, tmp, lock, out, todo, mine, serial, acked>>

\* kdb_storage_close: a dirty header is flushed, fclose writes the buffer.
CloseFile(h) ==
    /\ inode' = IF fd[h] = NoInode THEN inode
                ELSE [inode EXCEPT ![fd[h]] =
                        IF dirty[h] THEN SetHeader(Flushed(h), hdr[h]) ELSE Flushed(h)]
    /\ fd' = [fd EXCEPT ![h] = NoInode]
    /\ buf' = [buf EXCEPT ![h] = {}]
    /\ dirty' = [dirty EXCEPT ![h] = FALSE]

kdb_storage_close(h) ==
    /\ pc[h] = "idle"
    /\ CloseFile(h)
    /\ pc' = [pc EXCEPT ![h] = "closed"]
    /\ UNCHANGED <<path, tmp, lock, hdr, out, todo, mine, serial, acked>>

\* kdb_drop_table: evict the handle, unlink the table and its lock file.
kdb_storage_drop(h) ==
    /\ CanDrop /\ h \in Writers /\ pc[h] = "idle"
    /\ CloseFile(h)
    /\ path' = NoInode /\ lock' = NoHandle
    /\ acked' = {}
    /\ pc' = [pc EXCEPT ![h] = "closed"]
    /\ UNCHANGED <<tmp, hdr, out, todo, mine, serial>>

\* A query between two calls: its fseek writes the buffer out.
kdb_storage_scan(h) ==
    /\ pc[h] = "idle" /\ fd[h] # NoInode /\ buf[h] # {}
    /\ inode' = [inode EXCEPT ![fd[h]] = Flushed(h)]
    /\ buf' = [buf EXCEPT ![h] = {}]
    /\ UNCHANGED <<path, tmp, lock, fd, hdr, dirty, out, pc, todo, mine, serial, acked>>

-----------------------------------------------------------------------------
(* Insertion.                                                              *)

\* Mutant: the lock is not waited for.
AcquireAnyway(h, next) ==
    /\ h \in Writers /\ pc[h] = "idle"
    /\ lock' = h
    /\ pc' = [pc EXCEPT ![h] = next]

\* kdb_lock_acquire with wait = 1 blocks until the lock is free.
Acquire(h, next) ==
    /\ h \in Writers /\ pc[h] = "idle"
    /\ lock = NoHandle
    /\ lock' = h
    /\ pc' = [pc EXCEPT ![h] = next]

\* kdb_table_insert (n = 1) and kdb_table_insert_batch.
kdb_table_insert(h, n) ==
    /\ serial + n <= MaxKeys
    /\ Acquire(h, "insert")
    /\ todo' = [todo EXCEPT ![h] = n]
    /\ UNCHANGED <<inode, path, tmp, fd, hdr, dirty, buf, out, mine, serial, acked>>

\* One row: fseek to the end writes out the row before it, kdb_storage_append
\* takes the next id from the cached header and leaves the row in the buffer.
AppendRow(h) ==
    /\ pc[h] = "insert" /\ todo[h] > 0
    /\ fd[h] # NoInode
    /\ hdr[h].count < MaxRecords
    /\ serial < MaxKeys /\ serial' = serial + 1
    /\ inode' = [inode EXCEPT ![fd[h]] = Flushed(h)]
    /\ buf' = [buf EXCEPT ![h] = {[id |-> hdr[h].next, key |-> serial + 1]}]
    /\ hdr' = [hdr EXCEPT ![h].next = @ + 1, ![h].count = @ + 1]
    /\ dirty' = [dirty EXCEPT ![h] = TRUE]
    /\ todo' = [todo EXCEPT ![h] = @ - 1]
    /\ mine' = [mine EXCEPT ![h] = @ \cup {serial + 1}]
    /\ UNCHANGED <<path, tmp, lock, fd, out, pc, acked>>

\* Mutant: the early return forgets the lock.
RowRejectedKeepsLock(h) ==
    /\ pc[h] = "insert" /\ todo[h] > 0
    /\ pc' = [pc EXCEPT ![h] = "idle"]
    /\ todo' = [todo EXCEPT ![h] = 0]
    /\ mine' = [mine EXCEPT ![h] = {}]
    /\ UNCHANGED <<inode, path, tmp, lock, fd, hdr, dirty, buf, out, serial, acked>>

\* A constraint fails, the schema cannot be inferred or the table is full: the
\* call returns, the rows before this one stay and the header stays dirty.
RowRejected(h) ==
    /\ pc[h] = "insert" /\ todo[h] > 0
    /\ Release(h, "idle")
    /\ UNCHANGED <<inode, path, tmp, fd, hdr, dirty, buf, out, serial, acked>>

\* kdb_record_write fails: the id is used up, part of the row may be written.
AppendFails(h) ==
    /\ pc[h] = "insert" /\ todo[h] > 0 /\ "append" \in IoFaults
    /\ fd[h] # NoInode /\ hdr[h].count < MaxRecords
    /\ serial < MaxKeys /\ serial' = serial + 1
    /\ inode' = [inode EXCEPT ![fd[h]] = Flushed(h)]
    /\ \E b \in {{}, {Torn}} : buf' = [buf EXCEPT ![h] = b]
    /\ hdr' = [hdr EXCEPT ![h].next = @ + 1]
    /\ Release(h, "idle")
    /\ UNCHANGED <<path, tmp, fd, dirty, out, acked>>

\* kdb_storage_flush_header: rewind writes the last row out ...
FlushRow(h) ==
    /\ pc[h] = "insert" /\ todo[h] = 0
    /\ inode' = [inode EXCEPT ![fd[h]] = Flushed(h)]
    /\ buf' = [buf EXCEPT ![h] = {}]
    /\ pc' = [pc EXCEPT ![h] = "header"]
    /\ UNCHANGED <<path, tmp, lock, fd, hdr, dirty, out, todo, mine, serial, acked>>

\* Mutant: the header is left for later.
FlushHeaderDeferred(h) ==
    /\ pc[h] = "header"
    /\ acked' = acked \cup mine[h]
    /\ Release(h, "idle")
    /\ UNCHANGED <<inode, path, tmp, fd, hdr, dirty, buf, out, serial>>

\* ... then the header is written over the old one, and the call returns KDB_OK.
FlushHeader(h) ==
    /\ pc[h] = "header"
    /\ inode' = [inode EXCEPT ![fd[h]] = SetHeader(@, hdr[h])]
    /\ dirty' = [dirty EXCEPT ![h] = FALSE]
    /\ acked' = acked \cup mine[h]
    /\ Release(h, "idle")
    /\ UNCHANGED <<path, tmp, fd, hdr, buf, out, serial>>

\* Its failure is not looked at.  Either the row is lost, or it is written and
\* the header is not; the call returns KDB_OK.
FlushFails(h) ==
    /\ "flush" \in IoFaults
    /\ \/ pc[h] = "insert" /\ todo[h] = 0 /\ buf' = [buf EXCEPT ![h] = {}]
       \/ pc[h] = "header" /\ UNCHANGED buf
    /\ acked' = acked \cup mine[h]
    /\ Release(h, "idle")
    /\ UNCHANGED <<inode, path, tmp, fd, hdr, dirty, out, serial>>

-----------------------------------------------------------------------------
(* Rewriting: update, delete, compact.                                     *)

kdb_table_rewrite(h) ==
    /\ Acquire(h, "rewrite")
    /\ UNCHANGED <<inode, path, tmp, fd, hdr, dirty, buf, out, todo, mine, serial, acked>>

\* fopen(tmp_path, "wb") creates the temporary file or truncates a leftover.
OpenTmp(h) ==
    /\ pc[h] = "rewrite"
    /\ \E i \in Inodes :
        /\ IF tmp # NoInode THEN i = tmp
           ELSE Free(i) /\ \A j \in Inodes : Free(j) => i <= j
        /\ tmp' = i
        /\ out' = [out EXCEPT ![h] = i]
        /\ inode' = [inode EXCEPT ![i] = Blank]
    /\ pc' = [pc EXCEPT ![h] = "fill"]
    /\ UNCHANGED <<path, lock, fd, hdr, dirty, buf, todo, mine, serial, acked>>

\* Mutant: the largest id in use is taken for the next one.
LargestId(rows, next) ==
    CHOOSE n \in Ids \cup {0} :
        /\ \A r \in rows : r.id <= n
        /\ \A m \in Ids \cup {0} : (\A r \in rows : r.id <= m) => n <= m

\* The least number that is not below next and is above every id of rows.
NextIdAfter(rows, next) ==
    CHOOSE n \in Ids :
        /\ next <= n /\ \A r \in rows : r.id < n
        /\ \A m \in Ids : next <= m /\ (\A r \in rows : r.id < m) => n <= m

\* What a rewrite writes: the rows the scan reads, less the victims, under a
\* header whose next_id is past every id in use.
Rewritten(h, victims) ==
    LET kept == {r \in Visible(Flushed(h).rows) : r.key \notin victims}
    IN  [magic |-> TRUE, next |-> NextIdAfter(kept, hdr[h].next),
         count |-> Cardinality(kept), rows |-> kept]

\* Mutant: the surviving rows are written back over the open table file.
FillInPlace(h) ==
    /\ pc[h] = "fill" /\ fd[h] # NoInode
    /\ \E victims \in SUBSET KeysOf(Flushed(h).rows) :
        /\ inode' = [inode EXCEPT ![fd[h]] = Rewritten(h, victims),
                                  ![out[h]] = Rewritten(h, victims)]
        /\ mine' = [mine EXCEPT ![h] = victims]
    /\ buf' = [buf EXCEPT ![h] = {}]
    /\ pc' = [pc EXCEPT ![h] = "rename"]
    /\ UNCHANGED <<path, tmp, lock, fd, hdr, dirty, out, todo, serial, acked>>

\* Scan the table (its fseek writes the buffer out), copy what the transform
\* keeps, patch the header, fsync.  The victims are the rows a delete matches;
\* update and compact have none.
Fill(h) ==
    /\ pc[h] = "fill" /\ fd[h] # NoInode
    /\ \E victims \in SUBSET KeysOf(Flushed(h).rows) :
        /\ inode' = [inode EXCEPT ![fd[h]] = Flushed(h),
                                  ![out[h]] = Rewritten(h, victims)]
        /\ mine' = [mine EXCEPT ![h] = victims]
    /\ buf' = [buf EXCEPT ![h] = {}]
    /\ pc' = [pc EXCEPT ![h] = "rename"]
    /\ UNCHANGED <<path, tmp, lock, fd, hdr, dirty, out, todo, serial, acked>>

\* A constraint of the update fails, an I/O call does, or the handle has no
\* file: the temporary file is unlinked, the table is as it was.
RewriteFails(h) ==
    /\ \/ pc[h] = "rewrite" /\ UNCHANGED tmp
       \/ /\ pc[h] = "fill" /\ (fd[h] = NoInode \/ "rewrite" \in IoFaults)
          /\ tmp' = NoInode
    /\ out' = [out EXCEPT ![h] = NoInode]
    /\ Release(h, "idle")
    /\ UNCHANGED <<inode, path, fd, hdr, dirty, buf, serial, acked>>

\* Mutant: the table file is not opened again.
RenameKeepsFile(h) ==
    /\ pc[h] = "rename"
    /\ path' = tmp /\ tmp' = NoInode
    /\ out' = [out EXCEPT ![h] = NoInode]
    /\ hdr' = [hdr EXCEPT ![h] = HeaderOf(inode[out[h]])]
    /\ dirty' = [dirty EXCEPT ![h] = FALSE]
    /\ acked' = acked \ mine[h]
    /\ Release(h, "idle")
    /\ UNCHANGED <<inode, fd, buf, serial>>

\* fclose, rename(tmp_path, tbl->path), reopen, take over the new header.
Rename(h) ==
    /\ pc[h] = "rename"
    /\ path' = tmp /\ tmp' = NoInode
    /\ fd' = [fd EXCEPT ![h] = tmp]
    /\ out' = [out EXCEPT ![h] = NoInode]
    /\ hdr' = [hdr EXCEPT ![h] = HeaderOf(inode[out[h]])]
    /\ dirty' = [dirty EXCEPT ![h] = FALSE]
    /\ acked' = acked \ mine[h]
    /\ Release(h, "idle")
    /\ UNCHANGED <<inode, buf, serial>>

\* rename fails after tbl->fp was closed: the handle is left without a file.
RenameFails(h) ==
    /\ pc[h] = "rename" /\ "rename" \in IoFaults
    /\ tmp' = NoInode
    /\ fd' = [fd EXCEPT ![h] = NoInode]
    /\ out' = [out EXCEPT ![h] = NoInode]
    /\ Release(h, "idle")
    /\ UNCHANGED <<inode, path, hdr, dirty, buf, serial, acked>>

\* The rename is done but the table cannot be opened again: the call fails
\* although it took effect, and the handle is left without a file.
ReopenFails(h) ==
    /\ pc[h] = "rename" /\ "reopen" \in IoFaults
    /\ path' = tmp /\ tmp' = NoInode
    /\ fd' = [fd EXCEPT ![h] = NoInode]
    /\ out' = [out EXCEPT ![h] = NoInode]
    /\ acked' = acked \ mine[h]
    /\ Release(h, "idle")
    /\ UNCHANGED <<inode, hdr, dirty, buf, serial>>

-----------------------------------------------------------------------------
(* Death of a process: its buffer and its descriptors are gone, the kernel *)
(* releases its lock, the files stay.                                      *)

Dies(h) ==
    /\ Release(h, "closed")
    /\ fd' = [fd EXCEPT ![h] = NoInode]
    /\ out' = [out EXCEPT ![h] = NoInode]
    /\ buf' = [buf EXCEPT ![h] = {}]
    /\ dirty' = [dirty EXCEPT ![h] = FALSE]
    /\ UNCHANGED <<path, tmp, hdr, serial, acked>>

\* In an insert on a handle that a failed rewrite left without a file, fseek is
\* given a null pointer.
Crash(h) ==
    /\ \/ pc[h] \in CrashSites \ {"closed"}
       \/ pc[h] = "insert" /\ todo[h] > 0 /\ fd[h] = NoInode
    /\ Dies(h)
    /\ UNCHANGED inode

\* Death inside the write that empties the buffer.
CrashInWrite(h) ==
    /\ "write" \in CrashSites
    /\ pc[h] = "insert" /\ todo[h] = 0
    /\ Dies(h)
    /\ inode' = [inode EXCEPT ![fd[h]] = AppendTo(@, {Torn})]

-----------------------------------------------------------------------------

\* The steps of a call that has the lock.
Locked(h) ==
    \/ AppendRow(h) \/ RowRejected(h) \/ AppendFails(h) \/ FlushRow(h) \/ FlushHeader(h)
    \/ FlushFails(h) \/ OpenTmp(h) \/ Fill(h)
    \/ RewriteFails(h) \/ Rename(h) \/ RenameFails(h) \/ ReopenFails(h)

Request(h) ==
    \/ kdb_storage_create(h) \/ FopenCreate(h) \/ CreateDone(h)
    \/ kdb_storage_open(h) \/ kdb_storage_close(h) \/ kdb_storage_drop(h) \/ kdb_storage_scan(h)
    \/ (\E n \in 1 .. MaxBatch : kdb_table_insert(h, n)) \/ kdb_table_rewrite(h)

Next == \E h \in Handles : Locked(h) \/ Request(h) \/ Crash(h) \/ CrashInWrite(h)

Spec == Init /\ [][Next]_vars

\* A call that holds the lock runs on: no step under the lock waits.
FairSpec == Spec /\ \A h \in Handles : WF_vars(Locked(h))

-----------------------------------------------------------------------------
(* Properties.                                                             *)

\* What a process that opens the table now would read.
Rows == IF path = NoInode THEN {} ELSE Visible(inode[path].rows)

\* DOCUMENTATION.md: id is "auto-incrementing, unique per table".  The cached
\* next_id, the header on disk and the ids in the file stay in step through
\* inserts, batches, rewrites, reopening and crashes.
IdsUnique == \A r, s \in Rows : r.id = s.id => r = s

\* A row whose insertion was acknowledged is read by whoever opens the table, at
\* every moment until a delete of it has returned.
AckedDurable == acked \subseteq KeysOf(Rows)

\* README: "Multiple readers are fine."  While a process has the file open,
\* nothing it has read is changed or taken away under it: writers append to
\* the inode it has open or give the path another one.  (Two processes that
\* create the table at once are outside it: the run has one Creator.)
ReaderStable ==
    [][\A h \in Handles : fd[h] # NoInode /\ fd'[h] = fd[h] =>
        inode[fd[h]].rows \subseteq inode'[fd[h]].rows]_vars

\* The path names a whole table file, never a rewrite in progress: the lock
\* keeps two rewrites from sharing T.kdb.tmp, and a leftover T.kdb.tmp is never
\* renamed as it is.
NamedFileWhole ==
    path # NoInode /\ (\A h \in Handles : pc[h] # "creating") => inode[path].magic

\* Whatever happens under the lock, it is given back: every return path of
\* table.c releases it, and no step under it waits for another process.
LockGivenBack == \A h \in Handles : lock = h ~> lock # h
=============================================================================
