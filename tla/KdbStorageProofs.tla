-------------------------- MODULE KdbStorageProofs --------------------------
(***************************************************************************)
(* Proofs about KdbStorage, for any number of processes.                   *)
(***************************************************************************)
EXTENDS KdbStorage, TLAPS, FiniteSetTheorems, WellFoundedInduction

\* Files, headers and buffers when n keys have been used.
GoodFiles(n) ==
    {f \in Contents : f.next <= n + 1 /\ IsFiniteSet(f.rows) /\ \A r \in f.rows : r.id <= n}
GoodHeaders(n) == {hd \in Headers : hd.next <= n + 1}
GoodBufs(n) == {b \in SUBSET Records : IsFiniteSet(b) /\ \A r \in b : r.id <= n}

-----------------------------------------------------------------------------
(* Files and headers.                                                      *)

\* A set of natural numbers that is not empty has a least element.
LEMMA LeastNat ==
    ASSUME NEW S \in SUBSET Nat, S # {}
    PROVE  \E n \in S : \A m \in S : n <= m
<1>1. PICK n \in S : \A m \in S : ~ (<<m, n>> \in OpToRel(<, Nat))
  BY NatLessThanWellFounded, WFMin, Zenon
<1>2. \A m \in S : ~ (m < n)
  BY <1>1 DEF OpToRel
<1> QED BY <1>2

\* kdb_storage_rewrite's next_id: at least the old one, past every id kept,
\* and no larger than the number of keys used allows.
LEMMA NextIdAfterFits ==
    ASSUME NEW n \in 0 .. MaxKeys, NEW rows \in SUBSET Records, \A r \in rows : r.id <= n,
           NEW next \in Ids, next <= n + 1
    PROVE  /\ NextIdAfter(rows, next) \in Ids
           /\ next <= NextIdAfter(rows, next) /\ NextIdAfter(rows, next) <= n + 1
           /\ \A r \in rows : r.id < NextIdAfter(rows, next)
<1> DEFINE S == {k \in Ids : next <= k /\ \A r \in rows : r.id < k}
<1>1. n + 1 \in S /\ S \subseteq Nat
  <2>1. \A r \in rows : r.id \in Nat
    BY StorageAssumption DEF Records, Ids, Torn
  <2> QED BY <2>1, StorageAssumption DEF Ids
<1>2. PICK k \in S : \A m \in S : k <= m
  BY <1>1, LeastNat, Zenon
<1>3. NextIdAfter(rows, next) \in S /\ \A m \in S : NextIdAfter(rows, next) <= m
  BY <1>2, Zenon DEF NextIdAfter
<1> QED BY <1>1, <1>3

LEMMA BlankIsGood == ASSUME NEW n \in 0 .. MaxKeys PROVE Blank \in GoodFiles(n)
BY FS_EmptySet, StorageAssumption DEF Blank, GoodFiles, Contents, Ids

LEMMA FreshIsGood == ASSUME NEW n \in 0 .. MaxKeys PROVE FreshHeader \in GoodHeaders(n)
BY StorageAssumption DEF FreshHeader, GoodHeaders, Headers, Ids

LEMMA AppendIsGood ==
    ASSUME NEW n \in 0 .. MaxKeys, NEW f \in GoodFiles(n), NEW b \in GoodBufs(n)
    PROVE  AppendTo(f, b) \in GoodFiles(n)
<1>1. IsFiniteSet(f.rows \cup b)
  BY FS_Union, Zenon DEF GoodFiles, GoodBufs
<1> QED BY <1>1 DEF GoodFiles, GoodBufs, AppendTo, Contents

LEMMA SetHeaderIsGood ==
    ASSUME NEW n \in 0 .. MaxKeys, NEW f \in GoodFiles(n), NEW hd \in GoodHeaders(n)
    PROVE  SetHeader(f, hd) \in GoodFiles(n)
BY DEF SetHeader, GoodFiles, GoodHeaders, Contents, Headers

LEMMA HeaderOfIsGood ==
    ASSUME NEW n \in 0 .. MaxKeys, NEW f \in GoodFiles(n)
    PROVE  HeaderOf(f) \in GoodHeaders(n)
BY DEF HeaderOf, GoodFiles, GoodHeaders, Contents, Headers

LEMMA GoodGrows ==
    ASSUME NEW n \in 0 .. MaxKeys, n < MaxKeys
    PROVE  /\ n + 1 \in 0 .. MaxKeys
           /\ GoodFiles(n) \subseteq GoodFiles(n + 1)
           /\ GoodHeaders(n) \subseteq GoodHeaders(n + 1)
           /\ GoodBufs(n) \subseteq GoodBufs(n + 1)
<1>1. \A r \in Records : r.id \in Nat /\ (r.id <= n => r.id <= n + 1)
  BY StorageAssumption DEF Records, Ids, Torn
<1>2. \A k \in Ids : k <= n + 1 => k <= (n + 1) + 1
  BY DEF Ids
<1>3. GoodFiles(n) \subseteq GoodFiles(n + 1)
  <2> SUFFICES ASSUME NEW f \in GoodFiles(n) PROVE f \in GoodFiles(n + 1)
    OBVIOUS
  <2>1. f \in Contents /\ f.next \in Ids /\ f.rows \in SUBSET Records
    BY DEF GoodFiles, Contents
  <2>2. f.next <= n + 1 /\ IsFiniteSet(f.rows) /\ \A r \in f.rows : r.id <= n
    BY DEF GoodFiles
  <2>3. f.next <= (n + 1) + 1
    BY <2>1, <2>2, <1>2
  <2>4. \A r \in f.rows : r.id <= n + 1
    BY <2>1, <2>2, <1>1
  <2> QED BY <2>1, <2>2, <2>3, <2>4, Zenon DEF GoodFiles
<1>4. GoodHeaders(n) \subseteq GoodHeaders(n + 1)
  BY <1>2 DEF GoodHeaders, Headers
<1>5. GoodBufs(n) \subseteq GoodBufs(n + 1)
  BY <1>1, Zenon DEF GoodBufs
<1>6. n + 1 \in 0 .. MaxKeys
  BY StorageAssumption
<1> QED BY <1>3, <1>4, <1>5, <1>6

LEMMA RewrittenIsGood ==
    ASSUME NEW n \in 0 .. MaxKeys, NEW f \in GoodFiles(n), NEW hd \in GoodHeaders(n),
           NEW kept \in SUBSET f.rows
    PROVE  [magic |-> TRUE, next |-> NextIdAfter(kept, hd.next),
            count |-> Cardinality(kept), rows |-> kept] \in GoodFiles(n)
<1>1. IsFiniteSet(kept) /\ Cardinality(kept) \in Nat
  BY FS_Subset, FS_CardinalityType, Zenon DEF GoodFiles
<1>2. kept \in SUBSET Records /\ \A r \in kept : r.id <= n
  BY DEF GoodFiles, Contents
<1>3. hd.next \in Ids /\ hd.next <= n + 1
  BY DEF GoodHeaders, Headers
<1>4. NextIdAfter(kept, hd.next) \in Ids /\ NextIdAfter(kept, hd.next) <= n + 1
  BY <1>2, <1>3, NextIdAfterFits
<1> QED BY <1>1, <1>2, <1>4 DEF GoodFiles, Contents

-----------------------------------------------------------------------------
(* The inductive invariant.                                                *)

LockedPcs == {"insert", "header", "rewrite", "fill", "rename"}

\* The variables have their types, and ids are bounded by the keys used: that
\* is why next_id never leaves Ids.
Typed ==
    /\ inode \in [Inodes -> GoodFiles(serial)]
    /\ path \in Inodes \cup {NoInode} /\ tmp \in Inodes \cup {NoInode}
    /\ lock \in Handles \cup {NoHandle}
    /\ fd \in [Handles -> Inodes \cup {NoInode}]
    /\ hdr \in [Handles -> GoodHeaders(serial)]
    /\ dirty \in [Handles -> BOOLEAN]
    /\ buf \in [Handles -> GoodBufs(serial)]
    /\ out \in [Handles -> Inodes \cup {NoInode}]
    /\ pc \in [Handles -> Pcs]
    /\ todo \in [Handles -> 0 .. MaxBatch]
    /\ mine \in [Handles -> SUBSET Keys]
    /\ serial \in 0 .. MaxKeys
    /\ acked \subseteq Keys

\* Between kdb_lock_acquire and kdb_lock_release the writer has the lock.
LockHeld == \A h \in Handles : pc[h] \in LockedPcs => h \in Writers /\ lock = h

\* T.kdb.tmp belongs to the rewrite that runs: no descriptor but out_fp refers
\* to it, not even that of a kdb_storage_create, the path never does, and it is
\* whole when it is renamed.
TmpOwned ==
    /\ tmp # NoInode => tmp # path /\ \A h \in Handles : fd[h] # tmp
    /\ \A h \in Handles : pc[h] \in {"fill", "rename"} => tmp # NoInode /\ out[h] = tmp
    /\ \A h \in Handles : pc[h] = "rename" => inode[tmp].magic
    /\ \A h \in Handles : pc[h] = "creating" => out[h] # NoInode /\ out[h] # tmp

IInv == Typed /\ LockHeld /\ TmpOwned

LEMMA FlushedIsGood ==
    ASSUME Typed, NEW h \in Handles, fd[h] # NoInode
    PROVE  fd[h] \in Inodes /\ Flushed(h) \in GoodFiles(serial)
<1>1. fd[h] \in Inodes /\ serial \in 0 .. MaxKeys
  BY DEF Typed
<1>2. inode[fd[h]] \in GoodFiles(serial) /\ buf[h] \in GoodBufs(serial)
  BY <1>1 DEF Typed
<1> QED BY <1>1, <1>2, AppendIsGood DEF Flushed

LEMMA EmptyBufIsGood == ASSUME NEW n \in 0 .. MaxKeys PROVE {} \in GoodBufs(n)
BY FS_EmptySet DEF GoodBufs

LEMMA TornBufIsGood == ASSUME NEW n \in 0 .. MaxKeys PROVE {Torn} \in GoodBufs(n)
<1>1. Torn \in Records /\ Torn.id <= n
  BY DEF Records, Torn
<1>2. IsFiniteSet({Torn})
  BY FS_Singleton, Zenon
<1> QED BY <1>1, <1>2 DEF GoodBufs

\* Giving the lock back keeps the types.
LEMMA ReleaseTyped ==
    ASSUME Typed, NEW h \in Handles, NEW next \in Pcs, Release(h, next)
    PROVE  /\ lock' \in Handles \cup {NoHandle}
           /\ pc' \in [Handles -> Pcs]
           /\ todo' \in [Handles -> 0 .. MaxBatch]
           /\ mine' \in [Handles -> SUBSET Keys]
BY StorageAssumption DEF Typed, Release

LEMMA CloseFileTyped ==
    ASSUME Typed, NEW h \in Handles, CloseFile(h), serial' = serial
    PROVE  /\ inode' \in [Inodes -> GoodFiles(serial')]
           /\ fd' \in [Handles -> Inodes \cup {NoInode}]
           /\ buf' \in [Handles -> GoodBufs(serial')]
           /\ dirty' \in [Handles -> BOOLEAN]
<1>1. serial \in 0 .. MaxKeys /\ hdr[h] \in GoodHeaders(serial)
  BY DEF Typed
<1>2. inode' \in [Inodes -> GoodFiles(serial')]
  <2>1. CASE fd[h] = NoInode
    BY <2>1 DEF Typed, CloseFile
  <2>2. CASE fd[h] # NoInode
    <3>1. fd[h] \in Inodes /\ Flushed(h) \in GoodFiles(serial)
      BY <2>2, FlushedIsGood
    <3>2. SetHeader(Flushed(h), hdr[h]) \in GoodFiles(serial)
      BY <1>1, <3>1, SetHeaderIsGood
    <3> QED BY <2>2, <3>1, <3>2 DEF Typed, CloseFile
  <2> QED BY <2>1, <2>2
<1>3. fd' \in [Handles -> Inodes \cup {NoInode}] /\ dirty' \in [Handles -> BOOLEAN]
  BY DEF Typed, CloseFile
<1>4. buf' \in [Handles -> GoodBufs(serial')]
  BY <1>1, EmptyBufIsGood DEF Typed, CloseFile
<1> QED BY <1>2, <1>3, <1>4

LEMMA DiesTyped ==
    ASSUME Typed, NEW h \in Handles, Dies(h), inode' \in [Inodes -> GoodFiles(serial)]
    PROVE  Typed'
<1>1. serial' = serial /\ Release(h, "closed") /\ "closed" \in Pcs /\ {} \in GoodBufs(serial)
  BY EmptyBufIsGood DEF Dies, Typed, Pcs
<1>2. buf' \in [Handles -> GoodBufs(serial')]
  BY <1>1 DEF Typed, Dies
<1> QED BY <1>1, <1>2, ReleaseTyped DEF Typed, Dies

-----------------------------------------------------------------------------
(* Every step keeps the types.                                             *)

LEMMA TypedLocked ==
    ASSUME Typed, TmpOwned, NEW h \in Handles, Locked(h)
    PROVE  Typed'
<1>0. serial \in 0 .. MaxKeys /\ {"idle", "header", "fill", "rename", "insert"} \subseteq Pcs
  BY DEF Typed, Pcs
<1>f. fd[h] # NoInode => [inode EXCEPT ![fd[h]] = Flushed(h)] \in [Inodes -> GoodFiles(serial)]
  BY FlushedIsGood DEF Typed
<1>e. [buf EXCEPT ![h] = {}] \in [Handles -> GoodBufs(serial)]
  BY <1>0, EmptyBufIsGood DEF Typed
<1>n. NoInode \notin Inodes
  BY DEF NoInode, Inodes
<1>1. CASE AppendRow(h)
  <2> USE <1>1 DEF AppendRow
  <2>1. serial + 1 \in 0 .. MaxKeys /\ serial' = serial + 1 /\ serial < MaxKeys
    BY <1>0, GoodGrows
  <2>2. inode' \in [Inodes -> GoodFiles(serial')]
    BY <1>0, <1>f, <2>1, GoodGrows
  <2>3. hdr[h] \in GoodHeaders(serial) /\ hdr[h].next \in Ids /\ hdr[h].next <= serial + 1
        /\ hdr[h].count \in Nat
    BY DEF Typed, GoodHeaders, Headers
  <2>4. hdr' \in [Handles -> GoodHeaders(serial')]
    <3>1. [hdr[h] EXCEPT !.next = @ + 1, !.count = @ + 1] \in GoodHeaders(serial + 1)
      <4>1. hdr[h].next + 1 \in Ids /\ hdr[h].next + 1 <= (serial + 1) + 1
        BY <1>0, <2>1, <2>3, StorageAssumption DEF Ids
      <4>2. hdr[h].count + 1 \in Nat /\ hdr[h] \in Headers
        BY <2>3 DEF GoodHeaders
      <4> HIDE DEF AppendRow
      <4> QED BY <4>1, <4>2 DEF GoodHeaders, Headers
    <3>2. hdr \in [Handles -> GoodHeaders(serial + 1)]
      BY <1>0, <2>1, GoodGrows DEF Typed
    <3>3. hdr' = [hdr EXCEPT ![h] = [hdr[h] EXCEPT !.next = @ + 1, !.count = @ + 1]]
      BY DEF Typed, GoodHeaders, Headers
    <3> HIDE DEF AppendRow
    <3> QED BY <2>1, <3>1, <3>2, <3>3
  <2>5. buf' \in [Handles -> GoodBufs(serial')]
    <3>1. [id |-> hdr[h].next, key |-> serial + 1] \in Records
      BY <1>0, <2>1, <2>3 DEF Records, Keys
    <3>2. {[id |-> hdr[h].next, key |-> serial + 1]} \in GoodBufs(serial + 1)
      <4>1. IsFiniteSet({[id |-> hdr[h].next, key |-> serial + 1]})
        BY FS_Singleton, Zenon
      <4> QED BY <3>1, <4>1, <2>3 DEF GoodBufs
    <3>3. buf \in [Handles -> GoodBufs(serial + 1)]
      BY <1>0, <2>1, GoodGrows DEF Typed
    <3>4. buf' = [buf EXCEPT ![h] = {[id |-> hdr[h].next, key |-> serial + 1]}]
      OBVIOUS
    <3> HIDE DEF AppendRow
    <3> QED BY <2>1, <3>2, <3>3, <3>4
  <2>6. todo' \in [Handles -> 0 .. MaxBatch]
    BY StorageAssumption DEF Typed
  <2>7. mine' \in [Handles -> SUBSET Keys]
    BY <1>0, <2>1 DEF Typed, Keys
  <2>8. dirty' \in [Handles -> BOOLEAN]
    BY DEF Typed
  <2> QED BY <2>1, <2>2, <2>4, <2>5, <2>6, <2>7, <2>8 DEF Typed
<1>2. CASE RowRejected(h)
  BY <1>0, <1>2, ReleaseTyped DEF RowRejected, Typed
<1>3. CASE AppendFails(h)
  <2> USE <1>3 DEF AppendFails
  <2>1. serial + 1 \in 0 .. MaxKeys /\ serial' = serial + 1 /\ serial < MaxKeys
    BY <1>0, GoodGrows
  <2>2. inode' \in [Inodes -> GoodFiles(serial')]
    BY <1>0, <1>f, <2>1, GoodGrows
  <2>3. hdr' \in [Handles -> GoodHeaders(serial')]
    <3>1. hdr[h] \in GoodHeaders(serial) /\ hdr[h].next \in Ids /\ hdr[h].next <= serial + 1
      BY DEF Typed, GoodHeaders, Headers
    <3>2. [hdr[h] EXCEPT !.next = @ + 1] \in GoodHeaders(serial + 1)
      BY <1>0, <2>1, <3>1, StorageAssumption DEF GoodHeaders, Headers, Ids
    <3>3. hdr \in [Handles -> GoodHeaders(serial + 1)]
      BY <1>0, <2>1, GoodGrows DEF Typed
    <3>4. hdr' = [hdr EXCEPT ![h] = [hdr[h] EXCEPT !.next = @ + 1]]
      BY DEF Typed, GoodHeaders, Headers
    <3> HIDE DEF AppendFails
    <3> QED BY <2>1, <3>2, <3>3, <3>4
  <2>4. buf' \in [Handles -> GoodBufs(serial')]
    <3>1. {} \in GoodBufs(serial + 1) /\ {Torn} \in GoodBufs(serial + 1)
      BY <2>1, EmptyBufIsGood, TornBufIsGood
    <3>2. buf \in [Handles -> GoodBufs(serial + 1)]
      BY <1>0, <2>1, GoodGrows DEF Typed
    <3> QED BY <2>1, <3>1, <3>2
  <2>5. Release(h, "idle")
    OBVIOUS
  <2> QED BY <1>0, <2>1, <2>2, <2>3, <2>4, <2>5, ReleaseTyped DEF Typed
<1>4. CASE FlushRow(h)
  <2>1. inode' \in [Inodes -> GoodFiles(serial)]
    <3>1. CASE fd[h] = NoInode
      BY <1>4, <1>n, <3>1 DEF FlushRow, Typed
    <3>2. CASE fd[h] # NoInode
      BY <1>4, <1>f, <3>2 DEF FlushRow
    <3> QED BY <3>1, <3>2
  <2> QED BY <1>0, <1>4, <1>e, <2>1 DEF FlushRow, Typed
<1>5. CASE FlushHeader(h)
  <2>1. inode' \in [Inodes -> GoodFiles(serial)]
    <3>1. CASE fd[h] = NoInode
      BY <1>5, <1>n, <3>1 DEF FlushHeader, Typed
    <3>2. CASE fd[h] # NoInode
      <4>1. fd[h] \in Inodes /\ inode[fd[h]] \in GoodFiles(serial) /\ hdr[h] \in GoodHeaders(serial)
        BY <3>2 DEF Typed
      <4>2. SetHeader(inode[fd[h]], hdr[h]) \in GoodFiles(serial)
        BY <1>0, <4>1, SetHeaderIsGood
      <4> QED BY <1>5, <4>1, <4>2 DEF FlushHeader, Typed
    <3> QED BY <3>1, <3>2
  <2> QED BY <1>0, <1>5, <2>1, ReleaseTyped DEF FlushHeader, Typed
<1>6. CASE FlushFails(h)
  <2>1. buf' \in [Handles -> GoodBufs(serial)]
    BY <1>6, <1>e DEF FlushFails, Typed
  <2> QED BY <1>0, <1>6, <2>1, ReleaseTyped DEF FlushFails, Typed
<1>7. CASE OpenTmp(h)
  <2>1. Blank \in GoodFiles(serial)
    BY <1>0, BlankIsGood
  <2> QED BY <1>0, <1>7, <2>1 DEF OpenTmp, Typed
<1>8. CASE Fill(h)
  <2>1. fd[h] \in Inodes /\ Flushed(h) \in GoodFiles(serial) /\ hdr[h] \in GoodHeaders(serial)
    BY <1>8, FlushedIsGood DEF Fill, Typed
  <2>2. PICK victims \in SUBSET KeysOf(Flushed(h).rows) :
            /\ inode' = [inode EXCEPT ![fd[h]] = Flushed(h), ![out[h]] = Rewritten(h, victims)]
            /\ mine' = [mine EXCEPT ![h] = victims]
    BY <1>8 DEF Fill
  <2>3. Rewritten(h, victims) \in GoodFiles(serial)
    <3> DEFINE kept == {r \in Visible(Flushed(h).rows) : r.key \notin victims}
    <3>1. kept \in SUBSET Flushed(h).rows
      BY DEF Visible
    <3> HIDE DEF kept
    <3>2. [magic |-> TRUE, next |-> NextIdAfter(kept, hdr[h].next),
           count |-> Cardinality(kept), rows |-> kept] \in GoodFiles(serial)
      BY <1>0, <2>1, <3>1, RewrittenIsGood
    <3> QED BY <3>2 DEF Rewritten, kept
  <2>4. inode' \in [Inodes -> GoodFiles(serial)]
    BY <2>1, <2>2, <2>3 DEF Typed
  <2>5. victims \in SUBSET Keys
    BY <2>1 DEF KeysOf, Visible, GoodFiles, Contents, Records, Keys, Torn
  <2>6. mine' \in [Handles -> SUBSET Keys]
    BY <2>2, <2>5 DEF Typed
  <2> QED BY <1>0, <1>8, <1>e, <2>4, <2>6 DEF Fill, Typed
<1>9. CASE RewriteFails(h)
  BY <1>0, <1>9, ReleaseTyped DEF RewriteFails, Typed
<1>10. CASE Rename(h)
  <2>1. out[h] \in Inodes /\ inode[out[h]] \in GoodFiles(serial)
    BY <1>10 DEF Rename, Typed, TmpOwned
  <2>2. hdr' \in [Handles -> GoodHeaders(serial)]
    BY <1>0, <1>10, <2>1, HeaderOfIsGood DEF Rename, Typed
  <2> QED BY <1>0, <1>10, <2>2, ReleaseTyped DEF Rename, Typed
<1>11. CASE RenameFails(h) \/ ReopenFails(h)
  BY <1>0, <1>11, ReleaseTyped DEF RenameFails, ReopenFails, Typed
<1> QED BY <1>1, <1>2, <1>3, <1>4, <1>5, <1>6, <1>7, <1>8, <1>9, <1>10, <1>11 DEF Locked

LEMMA TypedRequest ==
    ASSUME Typed, NEW h \in Handles, Request(h)
    PROVE  Typed'
<1>0. serial \in 0 .. MaxKeys /\ {"closed", "create", "creating", "idle", "insert", "rewrite"} \subseteq Pcs
  BY DEF Typed, Pcs
<1>e. [buf EXCEPT ![h] = {}] \in [Handles -> GoodBufs(serial)]
  BY <1>0, EmptyBufIsGood DEF Typed
<1>1. CASE kdb_storage_create(h)
  BY <1>0, <1>1 DEF kdb_storage_create, Typed
<1>9. CASE FopenCreate(h)
  <2>1. Blank \in GoodFiles(serial)
    BY <1>0, BlankIsGood
  <2> QED BY <1>0, <1>9, <2>1 DEF FopenCreate, Typed
<1>2. CASE CreateDone(h)
  <2>1. out[h] \in Inodes => SetHeader(inode[out[h]], FreshHeader) \in GoodFiles(serial)
    BY <1>0, FreshIsGood, SetHeaderIsGood DEF Typed
  <2>2. inode' \in [Inodes -> GoodFiles(serial)]
    BY <1>2, <2>1 DEF CreateDone, Typed
  <2> QED BY <1>0, <1>2, <2>2 DEF CreateDone, Typed
<1>3. CASE kdb_storage_open(h)
  <2>1. path \in Inodes /\ HeaderOf(inode[path]) \in GoodHeaders(serial)
    BY <1>0, <1>3, HeaderOfIsGood DEF kdb_storage_open, Typed
  <2>2. hdr' \in [Handles -> GoodHeaders(serial)]
    BY <1>3, <2>1 DEF kdb_storage_open, Typed
  <2> QED BY <1>0, <1>3, <1>e, <2>1, <2>2 DEF kdb_storage_open, Typed
<1>4. CASE kdb_storage_close(h)
  BY <1>0, <1>4, CloseFileTyped DEF kdb_storage_close, Typed
<1>5. CASE kdb_storage_drop(h)
  BY <1>0, <1>5, CloseFileTyped DEF kdb_storage_drop, Typed
<1>6. CASE kdb_storage_scan(h)
  <2>1. inode' \in [Inodes -> GoodFiles(serial)]
    BY <1>6, FlushedIsGood DEF kdb_storage_scan, Typed
  <2> QED BY <1>0, <1>6, <1>e, <2>1 DEF kdb_storage_scan, Typed
<1>7. ASSUME NEW n \in 1 .. MaxBatch, kdb_table_insert(h, n) PROVE Typed'
  <2>1. todo' \in [Handles -> 0 .. MaxBatch]
    BY <1>7, StorageAssumption DEF kdb_table_insert, Typed
  <2> QED BY <1>0, <1>7, <2>1 DEF kdb_table_insert, Acquire, Typed
<1>8. CASE kdb_table_rewrite(h)
  BY <1>0, <1>8 DEF kdb_table_rewrite, Acquire, Typed
<1> QED BY <1>1, <1>2, <1>3, <1>4, <1>5, <1>6, <1>7, <1>8, <1>9 DEF Request

LEMMA TypedCrash ==
    ASSUME Typed, NEW h \in Handles, Crash(h) \/ CrashInWrite(h)
    PROVE  Typed'
<1>0. serial \in 0 .. MaxKeys
  BY DEF Typed
<1>1. CASE Crash(h)
  BY <1>1, DiesTyped DEF Crash, Typed
<1>2. CASE CrashInWrite(h)
  <2>1. fd[h] \in Inodes =>
            AppendTo(inode[fd[h]], {Torn}) \in GoodFiles(serial)
    <3>1. {Torn} \in GoodBufs(serial)
      BY <1>0, TornBufIsGood
    <3> QED BY <1>0, <3>1, AppendIsGood DEF Typed
  <2>2. inode' \in [Inodes -> GoodFiles(serial)]
    BY <1>2, <2>1 DEF CrashInWrite, Typed
  <2> QED BY <1>2, <2>2, DiesTyped DEF CrashInWrite
<1> QED BY <1>1, <1>2

-----------------------------------------------------------------------------
(* The lock.                                                               *)

LEMMA LockStep ==
    ASSUME Typed, LockHeld, Next
    PROVE  LockHeld'
<1>0. PICK h \in Handles : Locked(h) \/ Request(h) \/ Crash(h) \/ CrashInWrite(h)
  BY DEF Next
<1>n. NoHandle \notin Handles
  BY StorageAssumption
<1>1. CASE pc' = pc /\ lock' = lock
  BY <1>1 DEF LockHeld
<1>2. ASSUME NEW next \in {"idle", "closed"}, Release(h, next) PROVE LockHeld'
  <2> SUFFICES ASSUME NEW g \in Handles, pc'[g] \in LockedPcs PROVE g \in Writers /\ lock' = g
    BY DEF LockHeld
  <2>1. g # h /\ pc'[g] = pc[g]
    BY <1>2 DEF Release, Typed, LockedPcs
  <2> QED BY <1>2, <2>1 DEF Release, LockHeld
<1>3. ASSUME NEW next \in {"closed", "create", "creating", "idle"}, lock' = lock, pc' = [pc EXCEPT ![h] = next]
      PROVE  LockHeld'
  BY <1>3 DEF LockHeld, LockedPcs, Typed
<1>4. ASSUME NEW next \in LockedPcs, pc[h] \in LockedPcs, lock' = lock, pc' = [pc EXCEPT ![h] = next]
      PROVE  LockHeld'
  BY <1>4 DEF LockHeld, LockedPcs, Typed
<1>5. ASSUME NEW next \in LockedPcs, Acquire(h, next) PROVE LockHeld'
  BY <1>5, <1>n DEF LockHeld, LockedPcs, Typed, Acquire
<1>6. CASE kdb_storage_drop(h)
  <2> SUFFICES ASSUME NEW g \in Handles, pc'[g] \in LockedPcs PROVE FALSE
    BY DEF LockHeld
  <2>1. g # h /\ pc'[g] = pc[g] /\ g \in Writers
    BY <1>6 DEF kdb_storage_drop, Typed, LockedPcs, LockHeld
  <2> QED BY <1>6, <2>1, StorageAssumption DEF kdb_storage_drop
<1>7. CASE Locked(h)
  <2>1. CASE AppendRow(h)
    BY <1>1, <2>1 DEF AppendRow
  <2>2. CASE RowRejected(h) \/ AppendFails(h) \/ FlushHeader(h) \/ FlushFails(h)
             \/ RewriteFails(h) \/ Rename(h) \/ RenameFails(h) \/ ReopenFails(h)
    BY <1>2, <2>2
    DEF RowRejected, AppendFails, FlushHeader, FlushFails, RewriteFails, Rename, RenameFails,
        ReopenFails
  <2>3. CASE FlushRow(h) \/ OpenTmp(h) \/ Fill(h)
    BY <1>4, <2>3 DEF FlushRow, OpenTmp, Fill, LockedPcs
  <2> QED BY <1>7, <2>1, <2>2, <2>3 DEF Locked
<1>8. CASE Request(h)
  <2>1. CASE \/ kdb_storage_create(h) \/ FopenCreate(h) \/ CreateDone(h)
             \/ kdb_storage_open(h) \/ kdb_storage_close(h)
    BY <1>3, <2>1
    DEF kdb_storage_create, FopenCreate, CreateDone, kdb_storage_open, kdb_storage_close
  <2>2. CASE kdb_storage_scan(h)
    BY <1>1, <2>2 DEF kdb_storage_scan
  <2>3. CASE (\E n \in 1 .. MaxBatch : kdb_table_insert(h, n)) \/ kdb_table_rewrite(h)
    BY <1>5, <2>3 DEF kdb_table_insert, kdb_table_rewrite, LockedPcs
  <2> QED BY <1>6, <1>8, <2>1, <2>2, <2>3 DEF Request
<1>9. CASE Crash(h) \/ CrashInWrite(h)
  BY <1>2, <1>9 DEF Crash, CrashInWrite, Dies
<1> QED BY <1>0, <1>7, <1>8, <1>9

-----------------------------------------------------------------------------
(* What steps do to files.                                                 *)

\* g has everything f has.
Grows(f, g) == f.rows \subseteq g.rows /\ (f.magic => g.magic)

LEMMA AppendGrows ==
    ASSUME NEW n, NEW f \in GoodFiles(n), NEW b
    PROVE  Grows(f, AppendTo(f, b))
BY DEF Grows, AppendTo, GoodFiles, Contents

LEMMA SetHeaderGrows ==
    ASSUME NEW n, NEW f \in GoodFiles(n), NEW hd
    PROVE  /\ Grows(f, SetHeader(f, hd)) /\ SetHeader(f, hd).magic
           /\ SetHeader(f, hd).rows = f.rows
BY DEF Grows, SetHeader, GoodFiles, Contents

LEMMA FlushedGrows ==
    ASSUME Typed, NEW h \in Handles, fd[h] \in Inodes
    PROVE  Grows(inode[fd[h]], Flushed(h))
BY AppendGrows DEF Typed, Flushed

\* kdb_storage_close only adds to the file that is closed.
LEMMA CloseFileGrows ==
    ASSUME Typed, NEW h \in Handles, CloseFile(h), NEW i \in Inodes
    PROVE  /\ Grows(inode[i], inode'[i])
           /\ i # fd[h] => inode'[i] = inode[i]
<1>1. CASE fd[h] = NoInode
  BY <1>1 DEF CloseFile, Grows
<1>2. CASE fd[h] # NoInode
  <2>1. Grows(inode[fd[h]], Flushed(h)) /\ Flushed(h) \in GoodFiles(serial) /\ fd[h] \in Inodes
    BY <1>2, FlushedGrows, FlushedIsGood
  <2>2. Grows(inode[fd[h]], SetHeader(Flushed(h), hdr[h]))
    BY <2>1, SetHeaderGrows DEF Grows
  <2>3. \/ inode' = [inode EXCEPT ![fd[h]] = SetHeader(Flushed(h), hdr[h])]
        \/ inode' = [inode EXCEPT ![fd[h]] = Flushed(h)]
    BY <1>2 DEF CloseFile
  <2>4. Grows(inode[i], inode[i])
    BY DEF Grows
  <2> QED BY <2>1, <2>2, <2>3, <2>4 DEF Typed
<1> QED BY <1>1, <1>2

\* A step outside the lock does not touch T.kdb.tmp.
LEMMA TmpUntouched ==
    ASSUME Typed, TmpOwned, NEW h \in Handles, tmp # NoInode,
           Request(h) \/ Crash(h) \/ CrashInWrite(h)
    PROVE  tmp' = tmp /\ inode'[tmp] = inode[tmp]
<1>0. tmp \in Inodes /\ tmp # path /\ fd[h] # tmp
  BY DEF Typed, TmpOwned
<1>1. CASE kdb_storage_create(h) \/ FopenCreate(h)
  BY <1>0, <1>1 DEF kdb_storage_create, FopenCreate, Free, Typed
<1>2. CASE CreateDone(h)
  BY <1>0, <1>2 DEF CreateDone, Typed, TmpOwned
<1>3. CASE kdb_storage_close(h) \/ kdb_storage_drop(h)
  BY <1>0, <1>3, CloseFileGrows DEF kdb_storage_close, kdb_storage_drop
<1>4. CASE kdb_storage_scan(h)
  BY <1>0, <1>4 DEF kdb_storage_scan, Typed
<1>5. CASE kdb_storage_open(h) \/ (\E n \in 1 .. MaxBatch : kdb_table_insert(h, n)) \/ kdb_table_rewrite(h)
  BY <1>5 DEF kdb_storage_open, kdb_table_insert, kdb_table_rewrite
<1>6. CASE Crash(h) \/ CrashInWrite(h)
  BY <1>0, <1>6 DEF Crash, CrashInWrite, Dies, Typed
<1> QED BY <1>1, <1>2, <1>3, <1>4, <1>5, <1>6 DEF Request

\* A file somebody has open, or that the path names, only grows, unless
\* kdb_storage_create truncates it.
LEMMA FilesGrow ==
    ASSUME Typed, TmpOwned, NEW h \in Handles, FopenCreate(h) => path = NoInode,
           Locked(h) \/ Request(h) \/ Crash(h) \/ CrashInWrite(h),
           NEW i \in Inodes, i = path \/ \E g \in Handles : fd[g] = i
    PROVE  Grows(inode[i], inode'[i])
<1>0. Grows(inode[i], inode[i]) /\ NoInode \notin Inodes
  BY DEF Grows, NoInode, Inodes
<1>f. fd[h] \in Inodes => Grows(inode[fd[h]], Flushed(h))
  BY FlushedGrows
<1>t. i # tmp
  BY <1>0 DEF TmpOwned
<1>1. CASE inode' = inode
  BY <1>0, <1>1
<1>2. CASE inode' = [inode EXCEPT ![fd[h]] = Flushed(h)]
  BY <1>0, <1>f, <1>2 DEF Typed
<1>3. CASE FlushHeader(h)
  <2>1. fd[h] = i => Grows(inode[i], SetHeader(inode[i], hdr[h]))
    BY SetHeaderGrows DEF Typed
  <2> QED BY <1>0, <1>3, <2>1 DEF FlushHeader, Typed
<1>4. CASE OpenTmp(h)
  <2>1. PICK j \in Inodes : (j = tmp \/ Free(j)) /\ inode' = [inode EXCEPT ![j] = Blank]
    BY <1>4 DEF OpenTmp
  <2>2. i # j
    BY <1>t, <2>1 DEF Free
  <2> QED BY <1>0, <2>1, <2>2 DEF Typed
<1>5. CASE Fill(h)
  <2>1. PICK victims \in SUBSET KeysOf(Flushed(h).rows) :
            inode' = [inode EXCEPT ![fd[h]] = Flushed(h), ![out[h]] = Rewritten(h, victims)]
    BY <1>5 DEF Fill
  <2>2. out[h] # i
    BY <1>5, <1>t DEF Fill, TmpOwned
  <2> QED BY <1>0, <1>f, <2>1, <2>2 DEF Typed
<1>6. CASE FopenCreate(h)
  <2>1. PICK j \in Inodes : Free(j) /\ inode' = [inode EXCEPT ![j] = Blank]
    BY <1>6 DEF FopenCreate
  <2>2. i # j
    BY <2>1 DEF Free
  <2> QED BY <1>0, <2>1, <2>2 DEF Typed
<1>7. CASE CreateDone(h)
  <2>1. out[h] = i => Grows(inode[i], SetHeader(inode[i], FreshHeader))
    BY SetHeaderGrows DEF Typed
  <2> QED BY <1>0, <1>7, <2>1 DEF CreateDone, Typed
<1>8. CASE CloseFile(h)
  BY <1>8, CloseFileGrows
<1>9. CASE CrashInWrite(h)
  <2>1. fd[h] = i => Grows(inode[i], AppendTo(inode[i], {Torn}))
    BY AppendGrows DEF Typed
  <2> QED BY <1>0, <1>9, <2>1 DEF CrashInWrite, Typed
<1>10. CASE Locked(h)
  <2>1. CASE AppendRow(h) \/ AppendFails(h) \/ FlushRow(h)
    BY <1>2, <2>1 DEF AppendRow, AppendFails, FlushRow
  <2>2. CASE RowRejected(h) \/ FlushFails(h) \/ RewriteFails(h) \/ Rename(h) \/ RenameFails(h)
             \/ ReopenFails(h)
    BY <1>1, <2>2 DEF RowRejected, FlushFails, RewriteFails, Rename, RenameFails, ReopenFails
  <2> QED BY <1>3, <1>4, <1>5, <1>10, <2>1, <2>2 DEF Locked
<1>11. CASE Request(h)
  <2>1. CASE kdb_storage_close(h) \/ kdb_storage_drop(h)
    BY <1>8, <2>1 DEF kdb_storage_close, kdb_storage_drop
  <2>2. CASE kdb_storage_scan(h)
    BY <1>2, <2>2 DEF kdb_storage_scan
  <2>3. CASE \/ kdb_storage_create(h) \/ kdb_storage_open(h)
             \/ (\E n \in 1 .. MaxBatch : kdb_table_insert(h, n)) \/ kdb_table_rewrite(h)
    BY <1>1, <2>3 DEF kdb_storage_create, kdb_storage_open, kdb_table_insert, kdb_table_rewrite
  <2> QED BY <1>6, <1>7, <1>11, <2>1, <2>2, <2>3 DEF Request
<1>12. CASE Crash(h)
  BY <1>1, <1>12 DEF Crash
<1> QED BY <1>9, <1>10, <1>11, <1>12

-----------------------------------------------------------------------------
(* T.kdb.tmp.                                                              *)

\* Under the lock only the holder's rewrite is concerned: whoever else is
\* filling or renaming would hold the lock as well.
LEMMA TmpLocked ==
    ASSUME IInv, NEW h \in Handles, Locked(h)
    PROVE  TmpOwned'
<1>0. pc[h] \in LockedPcs
  BY DEF Locked, AppendRow, RowRejected, AppendFails, FlushRow, FlushHeader, FlushFails, OpenTmp,
         Fill, RewriteFails, Rename, RenameFails, ReopenFails, LockedPcs
<1>g. \A g \in Handles : g # h => pc'[g] = pc[g] /\ pc[g] \notin LockedPcs
  <2>1. \A g \in Handles : g # h => pc'[g] = pc[g]
    BY DEF IInv, Typed, Locked, AppendRow, RowRejected, AppendFails, FlushRow, FlushHeader,
           FlushFails, OpenTmp, Fill, RewriteFails, Rename, RenameFails, ReopenFails, Release
  <2> QED BY <1>0, <2>1 DEF IInv, LockHeld
<1>n. NoInode \notin Inodes
  BY DEF NoInode, Inodes
<1>c. pc'[h] # "creating" /\ \A g \in Handles : g # h => out'[g] = out[g]
  BY DEF IInv, Typed, Locked, AppendRow, RowRejected, AppendFails, FlushRow, FlushHeader,
         FlushFails, OpenTmp, Fill, RewriteFails, Rename, RenameFails, ReopenFails, Release
<1>d. \A g \in Handles : pc'[g] = "creating" => out'[g] # NoInode /\ (tmp' # NoInode => out'[g] # tmp)
  BY <1>c, <1>g DEF IInv, TmpOwned
<1>1. CASE pc'[h] \notin {"fill", "rename"} /\ tmp' = tmp /\ path' = path /\ fd' = fd
  BY <1>1, <1>c, <1>d, <1>g DEF IInv, TmpOwned, LockedPcs
<1>2. CASE pc'[h] \notin {"fill", "rename"} /\ tmp' = NoInode
  BY <1>2, <1>d, <1>g DEF TmpOwned, LockedPcs
<1>3. CASE AppendRow(h)
  BY <1>1, <1>3 DEF AppendRow
<1>4. CASE RowRejected(h) \/ AppendFails(h) \/ FlushHeader(h) \/ FlushFails(h)
  BY <1>1, <1>4 DEF RowRejected, AppendFails, FlushHeader, FlushFails, Release, IInv, Typed
<1>5. CASE FlushRow(h)
  BY <1>1, <1>5 DEF FlushRow, IInv, Typed
<1>6. CASE OpenTmp(h)
  <2>1. PICK j \in Inodes : (j = tmp \/ Free(j)) /\ tmp' = j /\ out' = [out EXCEPT ![h] = j]
    BY <1>6 DEF OpenTmp
  <2>2. pc'[h] = "fill" /\ out'[h] = tmp' /\ fd' = fd /\ path' = path
    BY <1>6, <2>1 DEF OpenTmp, IInv, Typed
  <2>3. tmp' # NoInode /\ tmp' # path /\ \A g \in Handles : fd[g] # tmp'
    BY <1>n, <2>1 DEF Free, IInv, TmpOwned
  <2>4. \A g \in Handles : pc'[g] = "creating" => out'[g] # tmp'
    BY <1>c, <1>g, <2>1 DEF Free, IInv, TmpOwned
  <2> QED BY <1>d, <1>g, <2>2, <2>3, <2>4 DEF TmpOwned, LockedPcs
<1>7. CASE Fill(h)
  <2>1. PICK victims \in SUBSET KeysOf(Flushed(h).rows) :
            inode' = [inode EXCEPT ![fd[h]] = Flushed(h), ![out[h]] = Rewritten(h, victims)]
    BY <1>7 DEF Fill
  <2>2. out[h] = tmp /\ tmp \in Inodes
    BY <1>7 DEF Fill, IInv, TmpOwned, Typed
  <2>3. inode'[tmp].magic
    <3>1. inode'[tmp] = Rewritten(h, victims)
      BY <2>1, <2>2 DEF IInv, Typed
    <3> QED BY <3>1 DEF Rewritten
  <2>4. fd' = fd /\ path' = path /\ tmp' = tmp /\ out' = out
    BY <1>7 DEF Fill
  <2> QED BY <1>c, <1>d, <1>g, <1>n, <2>2, <2>3, <2>4 DEF IInv, TmpOwned, LockedPcs
<1>8. CASE RewriteFails(h)
  BY <1>1, <1>2, <1>8 DEF RewriteFails, Release, IInv, Typed
<1>9. CASE Rename(h) \/ RenameFails(h) \/ ReopenFails(h)
  BY <1>2, <1>9 DEF Rename, RenameFails, ReopenFails, Release, IInv, Typed
<1> QED BY <1>3, <1>4, <1>5, <1>6, <1>7, <1>8, <1>9 DEF Locked

LEMMA TmpUnlocked ==
    ASSUME IInv, NEW h \in Handles, Request(h) \/ Crash(h) \/ CrashInWrite(h)
    PROVE  TmpOwned'
<1>1. tmp' = tmp /\ (tmp # NoInode => inode'[tmp] = inode[tmp])
  <2>1. tmp # NoInode => tmp' = tmp /\ inode'[tmp] = inode[tmp]
    BY TmpUntouched DEF IInv
  <2>2. tmp' = tmp
    BY DEF Request, kdb_storage_create, FopenCreate, CreateDone, kdb_storage_open, kdb_storage_close,
           kdb_storage_drop, kdb_storage_scan, kdb_table_insert, kdb_table_rewrite, Crash,
           CrashInWrite, Dies
  <2> QED BY <2>1, <2>2
<1>2. \A g \in Handles : pc'[g] \in {"fill", "rename"} => pc'[g] = pc[g] /\ out'[g] = out[g]
  BY DEF IInv, Typed, Request, kdb_storage_create, FopenCreate, CreateDone, kdb_storage_open, kdb_storage_close,
         kdb_storage_drop, kdb_storage_scan, kdb_table_insert, kdb_table_rewrite, Acquire, Crash,
         CrashInWrite, Dies, Release
<1>3. tmp # NoInode => tmp # path' /\ \A g \in Handles : fd'[g] # tmp
  <2> SUFFICES ASSUME tmp # NoInode PROVE tmp # path' /\ \A g \in Handles : fd'[g] # tmp
    OBVIOUS
  <2>0. tmp # path /\ \A g \in Handles : fd[g] # tmp
    BY DEF IInv, TmpOwned
  <2>1. path' \in {path, NoInode} \/ (path' # tmp /\ FopenCreate(h))
    BY DEF Request, kdb_storage_create, FopenCreate, CreateDone, kdb_storage_open, kdb_storage_close,
           kdb_storage_drop, kdb_storage_scan, kdb_table_insert, kdb_table_rewrite, Crash,
           CrashInWrite, Dies, Free
  <2>2. \A g \in Handles : fd'[g] \in {fd[g], path, NoInode}
    BY DEF IInv, Typed, Request, kdb_storage_create, FopenCreate, CreateDone, kdb_storage_open, kdb_storage_close,
           kdb_storage_drop, kdb_storage_scan, kdb_table_insert, kdb_table_rewrite, Crash,
           CrashInWrite, Dies, CloseFile
  <2> QED BY <2>0, <2>1, <2>2
<1>4. \A g \in Handles : pc'[g] = "creating" => out'[g] # NoInode /\ out'[g] # tmp'
  <2>1. CASE FopenCreate(h)
    BY <1>1, <2>1 DEF FopenCreate, Free, IInv, Typed, TmpOwned, NoInode, Inodes
  <2>2. CASE ~ FopenCreate(h)
    <3>1. \A g \in Handles : pc'[g] = "creating" => pc[g] = "creating" /\ out'[g] = out[g]
      BY <2>2 DEF IInv, Typed, Request, kdb_storage_create, CreateDone, kdb_storage_open,
         kdb_storage_close, kdb_storage_drop, kdb_storage_scan, kdb_table_insert,
         kdb_table_rewrite, Acquire, Crash, CrashInWrite, Dies, Release
    <3> QED BY <1>1, <3>1 DEF IInv, TmpOwned
  <2> QED BY <2>1, <2>2
<1> QED BY <1>1, <1>2, <1>3, <1>4 DEF IInv, TmpOwned

-----------------------------------------------------------------------------
(* The theorems.                                                           *)

LEMMA InitIInv == Init => IInv
<1> SUFFICES ASSUME Init PROVE IInv
  OBVIOUS
<1>1. 0 \in 0 .. MaxKeys
  BY StorageAssumption
<1>2. Blank \in GoodFiles(0) /\ FreshHeader \in GoodHeaders(0) /\ {} \in GoodBufs(0)
  BY <1>1, BlankIsGood, FreshIsGood, EmptyBufIsGood
<1>3. Typed
  BY <1>1, <1>2, StorageAssumption DEF Init, Typed, Pcs
<1> QED BY <1>3 DEF Init, IInv, LockHeld, TmpOwned, LockedPcs

LEMMA NextIInv == IInv /\ [Next]_vars => IInv'
<1> SUFFICES ASSUME IInv, [Next]_vars PROVE IInv'
  OBVIOUS
<1>1. CASE Next
  <2>1. PICK h \in Handles : Locked(h) \/ Request(h) \/ Crash(h) \/ CrashInWrite(h)
    BY <1>1 DEF Next
  <2>2. Typed'
    BY <2>1, TypedLocked, TypedRequest, TypedCrash DEF IInv
  <2>3. LockHeld'
    BY <1>1, LockStep DEF IInv
  <2>4. TmpOwned'
    BY <2>1, TmpLocked, TmpUnlocked
  <2> QED BY <2>2, <2>3, <2>4 DEF IInv
<1>2. CASE UNCHANGED vars
  BY <1>2 DEF vars, own, IInv, Typed, LockHeld, TmpOwned
<1> QED BY <1>1, <1>2

\* The inductive invariant holds in every reachable state.
THEOREM Invariance == Spec => []IInv
BY InitIInv, NextIInv, PTL DEF Spec

\* Type correctness for any number of processes, keys and rows in a batch: in
\* particular next_id stays within the ids that the keys used allow, through
\* appends, failed appends, and the next_id a rewrite computes.
THEOREM TypeCorrect == Spec => []TypeOK
<1>1. IInv => TypeOK
  BY DEF IInv, Typed, TypeOK, GoodFiles, GoodHeaders, GoodBufs
<1> QED BY <1>1, Invariance, PTL

-----------------------------------------------------------------------------
(* One process creates.                                                    *)

\* Between kdb_storage_exists and fopen(path, "wb") a second creator could make
\* the table, and have its rows truncated; with one creator nobody can.
SoleCreator == \A g, h \in Creators : g = h

\* Where there is no table nobody has a file, unless a table may be dropped.
NoTable ==
    path = NoInode /\ ~ CanDrop =>
        \A h \in Handles : fd[h] = NoInode /\ pc[h] \in {"closed", "create"}

\* fopen truncates nothing.
CreateSafe ==
    \A h \in Handles :
        /\ pc[h] \in {"create", "creating"} => h \in Creators
        /\ pc[h] = "create" => path = NoInode

\* A file that a process has open has its header.
OpenWhole == \A h \in Handles : fd[h] # NoInode => inode[fd[h]].magic

SInv == NoTable /\ CreateSafe /\ OpenWhole

\* What a step does to the path.
LEMMA PathStep ==
    ASSUME Typed, NEW h \in Handles, Locked(h) \/ Request(h) \/ Crash(h) \/ CrashInWrite(h)
    PROVE  \/ path' = path
           \/ FopenCreate(h)
           \/ kdb_storage_drop(h)
           \/ Rename(h) \/ ReopenFails(h)
BY DEF Locked, Request, AppendRow, RowRejected, AppendFails, FlushRow, FlushHeader, FlushFails, OpenTmp,
   Fill, RewriteFails, RenameFails, kdb_storage_create, CreateDone, kdb_storage_open, kdb_storage_close,
   kdb_storage_scan, kdb_table_insert, kdb_table_rewrite, Crash, CrashInWrite, Dies

\* A step changes the descriptor and the control point of its own process only.
LEMMA OwnStep ==
    ASSUME Typed, NEW h \in Handles, Locked(h) \/ Request(h) \/ Crash(h) \/ CrashInWrite(h),
           NEW g \in Handles \ {h}
    PROVE  fd'[g] = fd[g] /\ pc'[g] = pc[g]
BY DEF Typed, Locked, Request, AppendRow, RowRejected, AppendFails, FlushRow, FlushHeader, FlushFails, OpenTmp,
   Fill, RewriteFails, Rename, RenameFails, ReopenFails, kdb_storage_create, FopenCreate, CreateDone,
   kdb_storage_open, kdb_storage_close, CloseFile, kdb_storage_drop,
   kdb_storage_scan, kdb_table_insert, kdb_table_rewrite, Acquire, Crash, CrashInWrite, Dies, Release

LEMMA SStep ==
    ASSUME SoleCreator, IInv, SInv, NEW h \in Handles,
           Locked(h) \/ Request(h) \/ Crash(h) \/ CrashInWrite(h)
    PROVE  SInv'
<1>0. Typed /\ TmpOwned /\ LockHeld /\ NoInode \notin Inodes
  BY DEF IInv, NoInode, Inodes
<1>1. FopenCreate(h) => path = NoInode
  BY DEF FopenCreate, SInv, CreateSafe
<1>2. NoTable'
  <2> SUFFICES ASSUME path' = NoInode, ~ CanDrop, NEW g \in Handles
               PROVE  fd'[g] = NoInode /\ pc'[g] \in {"closed", "create"}
    BY DEF NoTable
  <2>1. path = NoInode /\ ~ FopenCreate(h)
    <3>1. ~ kdb_storage_drop(h)
      BY DEF kdb_storage_drop
    <3>2. ~ FopenCreate(h)
      BY <1>0 DEF FopenCreate
    <3>3. ~ (Rename(h) \/ ReopenFails(h))
      BY <1>0 DEF Rename, ReopenFails, TmpOwned
    <3> QED BY <1>0, <3>1, <3>2, <3>3, PathStep
  <2>2. \A k \in Handles : fd[k] = NoInode /\ pc[k] \in {"closed", "create"}
    BY <2>1 DEF SInv, NoTable
  <2>3. CASE g # h
    BY <1>0, <2>2, <2>3, OwnStep
  <2>4. CASE g = h
    BY <1>0, <2>1, <2>2, <2>4 DEF Typed, Locked, Request, AppendRow, RowRejected, AppendFails, FlushRow,
       FlushHeader, FlushFails, OpenTmp, Fill, RewriteFails, Rename, RenameFails, ReopenFails,
       kdb_storage_create, CreateDone, kdb_storage_open, kdb_storage_close, kdb_storage_drop,
       kdb_storage_scan, kdb_table_insert, kdb_table_rewrite, Acquire, Crash, CrashInWrite, Dies, Release
  <2> QED BY <2>3, <2>4
<1>3. CreateSafe'
  <2> SUFFICES ASSUME NEW g \in Handles
               PROVE  /\ pc'[g] \in {"create", "creating"} => g \in Creators
                      /\ pc'[g] = "create" => path' = NoInode
    BY DEF CreateSafe
  <2>1. CASE g = h
    BY <1>0, <2>1 DEF SInv, CreateSafe, Typed, Locked, Request, AppendRow, RowRejected, AppendFails, FlushRow,
       FlushHeader, FlushFails, OpenTmp, Fill, RewriteFails, Rename, RenameFails, ReopenFails,
       kdb_storage_create, FopenCreate, CreateDone, kdb_storage_open, kdb_storage_close, kdb_storage_drop,
       kdb_storage_scan, kdb_table_insert, kdb_table_rewrite, Acquire, Crash, CrashInWrite, Dies, Release
  <2>2. CASE g # h
    <3>1. pc'[g] = pc[g]
      BY <1>0, <2>2, OwnStep
    <3>2. CASE pc[g] # "create"
      BY <3>1, <3>2 DEF SInv, CreateSafe
    <3>3. CASE pc[g] = "create"
      <4>1. g \in Creators /\ g \in Writers /\ path = NoInode
        BY <3>3, StorageAssumption DEF SInv, CreateSafe
      <4>2. ~ FopenCreate(h)
        BY <2>2, <4>1 DEF FopenCreate, SInv, CreateSafe, SoleCreator
      <4>3. ~ (Rename(h) \/ ReopenFails(h))
        <5> SUFFICES ASSUME Rename(h) \/ ReopenFails(h) PROVE FALSE
          OBVIOUS
        <5>1. pc[h] = "rename" /\ h \in Writers
          BY <1>0 DEF Rename, ReopenFails, LockHeld, LockedPcs
        <5>2. ~ CanDrop
          BY <2>2, <4>1, <5>1, StorageAssumption
        <5> QED BY <4>1, <5>1, <5>2 DEF SInv, NoTable
      <4>4. path' = NoInode
        BY <1>0, <4>1, <4>2, <4>3, PathStep DEF kdb_storage_drop
      <4> QED BY <4>1, <4>4
    <3> QED BY <3>2, <3>3
  <2> QED BY <2>1, <2>2
<1>4. OpenWhole'
  <2> SUFFICES ASSUME NEW g \in Handles, fd'[g] # NoInode PROVE inode'[fd'[g]].magic
    BY DEF OpenWhole
  <2>1. CASE fd'[g] = fd[g]
    <3>1. fd[g] \in Inodes /\ inode[fd[g]].magic
      BY <1>0, <2>1 DEF Typed, SInv, OpenWhole
    <3>2. Grows(inode[fd[g]], inode'[fd[g]])
      BY <1>0, <1>1, <3>1, FilesGrow
    <3> QED BY <2>1, <3>1, <3>2 DEF Grows
  <2>2. CASE fd'[g] # fd[g]
    <3>1. g = h
      BY <1>0, <2>2, OwnStep
    <3>2. kdb_storage_open(h) \/ Rename(h)
      BY <1>0, <2>2, <3>1 DEF Typed, Locked, Request, AppendRow, RowRejected, AppendFails, FlushRow,
       FlushHeader, FlushFails, OpenTmp, Fill, RewriteFails, RenameFails, ReopenFails,
       kdb_storage_create, FopenCreate, CreateDone, kdb_storage_close, CloseFile, kdb_storage_drop,
       kdb_storage_scan, kdb_table_insert, kdb_table_rewrite, Crash, CrashInWrite, Dies
    <3> QED BY <1>0, <3>1, <3>2 DEF kdb_storage_open, Rename, Typed, TmpOwned
  <2> QED BY <2>1, <2>2
<1> QED BY <1>2, <1>3, <1>4 DEF SInv

LEMMA SoleInv == SoleCreator => (Spec => []SInv)
<1> SUFFICES ASSUME SoleCreator PROVE Spec => []SInv
  OBVIOUS
<1>0. SoleCreator
  OBVIOUS
<1>1. Init => SInv
  BY DEF Init, SInv, NoTable, CreateSafe, OpenWhole
<1>2. IInv /\ SInv /\ [Next]_vars => SInv'
  <2> SUFFICES ASSUME IInv, SInv, [Next]_vars PROVE SInv'
    OBVIOUS
  <2>1. CASE UNCHANGED vars
    BY <2>1 DEF vars, own, SInv, NoTable, CreateSafe, OpenWhole
  <2>2. CASE Next
    BY <1>0, <2>2, SStep DEF Next
  <2> QED BY <2>1, <2>2
<1> QED BY <1>1, <1>2, Invariance, PTL DEF Spec

\* Readers are never disturbed, as long as one process at most creates the
\* table: whatever any number of writers do, and wherever they die, the rows of
\* a file that a process has open are neither changed nor removed while it has
\* it open.  (kdb_storage_create truncates the file of a second creator.)
THEOREM ReadersStable ==
    ASSUME SoleCreator
    PROVE  Spec => ReaderStable
<1> DEFINE Stable == \A h \in Handles : fd[h] # NoInode /\ fd'[h] = fd[h] =>
                        inode[fd[h]].rows \subseteq inode'[fd[h]].rows
<1>1. IInv /\ SInv /\ [Next]_vars => [Stable]_vars
  <2> SUFFICES ASSUME IInv, SInv, Next, NEW g \in Handles, fd[g] # NoInode
               PROVE  inode[fd[g]].rows \subseteq inode'[fd[g]].rows
    OBVIOUS
  <2>1. PICK h \in Handles : Locked(h) \/ Request(h) \/ Crash(h) \/ CrashInWrite(h)
    BY DEF Next
  <2>2. fd[g] \in Inodes /\ (FopenCreate(h) => path = NoInode)
    BY DEF IInv, Typed, SInv, CreateSafe, FopenCreate
  <2>3. Grows(inode[fd[g]], inode'[fd[g]])
    BY <2>1, <2>2, FilesGrow DEF IInv
  <2> QED BY <2>3 DEF Grows
<1> QED BY <1>1, Invariance, SoleInv, PTL DEF Spec, ReaderStable

\* If no process dies inside kdb_storage_create, the table's path names a whole
\* table file at every moment, whatever fails and wherever else processes die:
\* neither a leftover T.kdb.tmp nor another writer's unfinished one ever
\* becomes the table.
THEOREM NamedWhole ==
    ASSUME "creating" \notin CrashSites
    PROVE  Spec => []NamedFileWhole
<1> DEFINE Whole == path # NoInode =>
                        inode[path].magic \/ \E g \in Handles : pc[g] = "creating" /\ out[g] = path
<1>1. Init => Whole
  BY DEF Init
<1>2. IInv /\ Whole /\ [Next]_vars => Whole'
  <2> SUFFICES ASSUME IInv, Whole, [Next]_vars, path' # NoInode
               PROVE  inode'[path'].magic \/ \E g \in Handles : pc'[g] = "creating" /\ out'[g] = path'
    OBVIOUS
  <2>0. Typed /\ TmpOwned
    BY DEF IInv
  <2>1. CASE UNCHANGED vars
    BY <2>1 DEF vars, own
  <2>2. CASE Next
    <3>1. PICK h \in Handles : Locked(h) \/ Request(h) \/ Crash(h) \/ CrashInWrite(h)
      BY <2>2 DEF Next
    <3>2. CASE FopenCreate(h)
      BY <2>0, <3>2 DEF FopenCreate, Typed
    <3>3. CASE Rename(h) \/ ReopenFails(h)
      BY <2>0, <3>3 DEF Rename, ReopenFails, TmpOwned
    <3>4. CASE path' = path /\ ~ FopenCreate(h)
      <4>1. path \in Inodes
        BY <2>0, <3>4 DEF Typed
      <4>2. Grows(inode[path], inode'[path])
        BY <2>0, <3>1, <3>4, <4>1, FilesGrow
      <4>3. CASE inode[path].magic
        BY <3>4, <4>2, <4>3 DEF Grows
      <4>4. ASSUME NEW g \in Handles, pc[g] = "creating", out[g] = path
            PROVE  inode'[path].magic \/ (pc'[g] = "creating" /\ out'[g] = path)
        <5>1. CASE CreateDone(h) /\ g = h
          <6>1. inode'[path] = SetHeader(inode[path], FreshHeader) /\ inode[path] \in GoodFiles(serial)
            BY <2>0, <4>1, <4>4, <5>1 DEF CreateDone, Typed
          <6> QED BY <6>1, SetHeaderGrows
        <5>2. CASE ~ (CreateDone(h) /\ g = h)
          BY <2>0, <3>1, <3>4, <4>4, <5>2
          DEF Typed, Locked, Request, AppendRow, RowRejected, AppendFails, FlushRow, FlushHeader, FlushFails,
              OpenTmp, Fill, RewriteFails, Rename, RenameFails, ReopenFails, kdb_storage_create, CreateDone,
              kdb_storage_open, kdb_storage_close, kdb_storage_drop, kdb_storage_scan, kdb_table_insert,
              kdb_table_rewrite, Acquire, Crash, CrashInWrite, Dies, Release
        <5> QED BY <5>1, <5>2
      <4> QED BY <3>4, <4>1, <4>3, <4>4
    <3>5. CASE kdb_storage_drop(h)
      BY <3>5 DEF kdb_storage_drop
    <3> QED BY <2>0, <3>1, <3>2, <3>3, <3>4, <3>5, PathStep
  <2> QED BY <2>1, <2>2
<1>3. Whole => NamedFileWhole
  BY DEF NamedFileWhole
<1> QED BY <1>1, <1>2, <1>3, Invariance, PTL DEF Spec

-----------------------------------------------------------------------------
(* One careful writer and any number of readers.                           *)

\* One process writes, no write and no flush fails or is cut short, and nobody
\* dies between the last row of an insertion and its header.  A batch that stops
\* half-way leaves rows in the file that only the cached header counts, so then
\* nobody may die or lose the file before the handle is closed.
CarefulWriter ==
    /\ \A g, h \in Writers : g = h
    /\ {"append", "flush"} \cap IoFaults = {}
    /\ {"header", "write"} \cap CrashSites = {}
    /\ \/ MaxBatch <= 1
       \/ CrashSites \subseteq {"closed", "creating"} /\ "rename" \notin IoFaults

\* The rows of the file the path names.
Named == IF path = NoInode THEN {} ELSE inode[path].rows

\* The rows of the table once w's buffer is written out.
Stored(w) == Named \cup buf[w]

\* No record is ever cut short.
Untorn ==
    /\ \A i \in Inodes : Torn \notin inode[i].rows
    /\ \A h \in Handles : Torn \notin buf[h]

\* Readers have nothing to write.
ReadersQuiet ==
    \A h \in Handles \ Writers : pc[h] \in {"closed", "idle"} /\ buf[h] = {} /\ ~dirty[h]

\* The writer is on the file the path names, or on none; what it has buffered
\* is counted in its cached header only.
WriterInv ==
    \A w \in Writers :
        /\ fd[w] \in {NoInode, path}
        /\ pc[w] \in {"closed", "create", "creating"} => fd[w] = NoInode
        /\ pc[w] = "create" => path = NoInode
        /\ pc[w] = "creating" => path # NoInode /\ out[w] = path /\ Named = {}
        /\ fd[w] = NoInode => buf[w] = {}
        /\ buf[w] # {} => dirty[w] /\ (MaxBatch > 1 \/ (pc[w] = "insert" /\ todo[w] = 0))
        /\ pc[w] = "insert" /\ todo[w] = 0 => fd[w] # NoInode /\ dirty[w]
        /\ pc[w] = "header" => fd[w] # NoInode /\ dirty[w] /\ buf[w] = {}
        /\ pc[w] = "rename" => fd[w] # NoInode /\ buf[w] = {}

\* The cached header's next_id is past every id in the file and in the buffer.
IdsInv ==
    /\ \A r, s \in Named : r.id = s.id => r = s
    /\ \A w \in Writers :
        /\ \A r, s \in Stored(w) : r.id = s.id => r = s
        /\ fd[w] # NoInode => \A r \in Stored(w) : r.id < hdr[w].next

\* So is the next_id on disk, unless the writer still has that header to write.
HeaderInv ==
    path # NoInode =>
        \/ \A r \in inode[path].rows : r.id < inode[path].next
        \/ \E w \in Writers : fd[w] = path /\ dirty[w] /\ (pc[w] = "header" \/ MaxBatch > 1)

\* What is about to be renamed over the table has its rows, less the victims.
RewriteInv ==
    \A w \in Writers : pc[w] = "rename" =>
        /\ inode[tmp].rows \subseteq inode[path].rows
        /\ \A r \in inode[path].rows : r.key \notin mine[w] => r \in inode[tmp].rows
        /\ \A r \in inode[tmp].rows : r.id < inode[tmp].next

\* What was acknowledged, or is about to be, is in the file.
AckInv ==
    /\ \A k \in acked : \E r \in Named : r.key = k
    /\ \A w \in Writers :
        /\ pc[w] \in {"insert", "header"} => \A k \in mine[w] : \E r \in Stored(w) : r.key = k
        /\ pc[w] \notin {"insert", "header", "rename"} => mine[w] = {}

\* The inductive invariant of a careful writer.
WInv == Untorn /\ ReadersQuiet /\ WriterInv /\ IdsInv /\ HeaderInv /\ RewriteInv /\ AckInv

\* Without torn rows, writing a buffer out adds its rows to the file.
LEMMA FlushedUntorn ==
    ASSUME Typed, Untorn, OpenWhole, NEW h \in Handles, fd[h] # NoInode
    PROVE  /\ fd[h] \in Inodes
           /\ Flushed(h).rows = inode[fd[h]].rows \cup buf[h]
           /\ Flushed(h).next = inode[fd[h]].next
           /\ Torn \notin Flushed(h).rows
<1>1. fd[h] \in Inodes /\ inode[fd[h]] \in Contents
  BY DEF Typed, GoodFiles
<1> QED
  BY <1>1 DEF Untorn, OpenWhole, Flushed, AppendTo, Contents

\* With nothing buffered there is nothing to write out.
LEMMA FlushedQuiet ==
    ASSUME Typed, Untorn, NEW h \in Handles, fd[h] # NoInode, buf[h] = {}
    PROVE  Flushed(h) = inode[fd[h]]
<1>1. fd[h] \in Inodes /\ inode[fd[h]] \in Contents
  BY DEF Typed, GoodFiles
<1>2. AppendTo(inode[fd[h]], {}) = inode[fd[h]]
  BY <1>1 DEF AppendTo, Contents
<1> QED
  BY <1>2 DEF Flushed

\* A process that only reads changes nothing the writer relies on.
LEMMA ReaderStep ==
    ASSUME Typed, LockHeld, WInv, NEW h \in Handles \ Writers,
           Locked(h) \/ Request(h) \/ Crash(h) \/ CrashInWrite(h)
    PROVE  WInv'
<1>1. pc[h] \in {"closed", "idle"} /\ buf[h] = {} /\ ~dirty[h]
  BY DEF WInv, ReadersQuiet
<1>2. kdb_storage_open(h) \/ kdb_storage_close(h) \/ Crash(h)
  BY <1>1, StorageAssumption DEF Locked, Request, AppendRow, RowRejected, AppendFails, FlushRow, FlushHeader, FlushFails,
     OpenTmp, Fill, RewriteFails, Rename, RenameFails, ReopenFails, kdb_storage_create, FopenCreate, CreateDone,
     kdb_storage_drop, kdb_storage_scan, kdb_table_insert, kdb_table_rewrite, Acquire, CrashInWrite
<1>3. inode' = inode
  <2>1. CASE kdb_storage_close(h) /\ fd[h] # NoInode
    <3>1. inode' = [inode EXCEPT ![fd[h]] = inode[fd[h]]]
      BY <1>1, <2>1, FlushedQuiet DEF kdb_storage_close, CloseFile, WInv
    <3> QED
      BY <3>1 DEF Typed
  <2> QED
    BY <1>2, <2>1 DEF kdb_storage_open, kdb_storage_close, CloseFile, Crash
<1>4. /\ UNCHANGED <<path, tmp, acked>>
      /\ pc'[h] \in {"closed", "idle"} /\ buf'[h] = {} /\ ~dirty'[h]
      /\ \A g \in Handles \ {h} : /\ fd'[g] = fd[g] /\ hdr'[g] = hdr[g] /\ dirty'[g] = dirty[g]
                                  /\ buf'[g] = buf[g] /\ pc'[g] = pc[g] /\ todo'[g] = todo[g]
                                  /\ mine'[g] = mine[g] /\ out'[g] = out[g]
  BY <1>2 DEF kdb_storage_open, kdb_storage_close, CloseFile, Crash, Dies, Release, Typed
<1>5. Writers \subseteq Handles \ {h} /\ Named' = Named /\ \A w \in Writers : Stored(w)' = Stored(w)
  BY <1>3, <1>4, StorageAssumption DEF Named, Stored
<1>6. Untorn' /\ ReadersQuiet'
  BY <1>3, <1>4 DEF WInv, Untorn, ReadersQuiet
<1>7. WriterInv' /\ IdsInv'
  BY <1>3, <1>4, <1>5 DEF WInv, WriterInv, IdsInv
<1>8. HeaderInv'
  BY <1>3, <1>4, <1>5 DEF WInv, HeaderInv
<1>9. RewriteInv' /\ AckInv'
  BY <1>3, <1>4, <1>5 DEF WInv, RewriteInv, AckInv
<1> QED
  BY <1>6, <1>7, <1>8, <1>9 DEF WInv

\* A call that only begins, or that gives up before it changed anything.
LEMMA PausedStep ==
    ASSUME Typed, Typed', WInv, CarefulWriter, NEW w \in Writers,
           UNCHANGED <<inode, path, fd, hdr, dirty, buf, acked>>,
           \A g \in Handles \ {w} : pc'[g] = pc[g],
           mine'[w] = {},
           \/ pc[w] = "idle" /\ pc'[w] = "insert" /\ todo'[w] > 0
           \/ pc[w] = "idle" /\ pc'[w] = "rewrite"
           \/ pc[w] = "insert" /\ todo[w] > 0 /\ pc'[w] = "idle"
           \/ pc[w] \in {"rewrite", "fill"} /\ pc'[w] = "idle"
           \/ pc[w] = "closed" /\ pc'[w] = "create" /\ path = NoInode
    PROVE  WInv'
<1>0. w \in Handles /\ Writers = {w}
  BY StorageAssumption DEF CarefulWriter
<1>1. Named' = Named /\ Stored(w)' = Stored(w)
  BY DEF Named, Stored
<1>2. Untorn' /\ ReadersQuiet'
  BY <1>0 DEF WInv, Untorn, ReadersQuiet
<1>3. WriterInv'
  BY <1>0, <1>1 DEF WInv, WriterInv
<1>4. IdsInv'
  BY <1>0, <1>1 DEF WInv, IdsInv
<1>5. HeaderInv'
  BY <1>0 DEF WInv, HeaderInv
<1>6. RewriteInv' /\ AckInv'
  BY <1>0, <1>1 DEF WInv, RewriteInv, AckInv
<1> QED
  BY <1>2, <1>3, <1>4, <1>5, <1>6 DEF WInv

\* kdb_storage_insert gives the row the cached next_id and buffers it.
LEMMA AppendStep ==
    ASSUME Typed, WInv, OpenWhole, CarefulWriter, NEW w \in Writers, AppendRow(w)
    PROVE  WInv'
<1> DEFINE row == [id |-> hdr[w].next, key |-> serial + 1]
<1>0. w \in Handles /\ Writers = {w}
  BY StorageAssumption DEF CarefulWriter
<1>1. fd[w] = path /\ path # NoInode /\ path \in Inodes
  BY <1>0 DEF AppendRow, WInv, WriterInv, Typed
<1>2. hdr[w].next \in Nat \ {0} /\ serial \in Nat
  BY <1>0, StorageAssumption DEF Typed, GoodHeaders, Headers, Ids
<1>3. /\ inode' = [inode EXCEPT ![path] = Flushed(w)]
      /\ Flushed(w).rows = Stored(w) /\ Flushed(w).next = inode[path].next /\ Torn \notin Flushed(w).rows
  BY <1>0, <1>1, FlushedUntorn DEF AppendRow, WInv, Named, Stored
<1>4. /\ UNCHANGED <<path, tmp, fd, acked>>
      /\ pc' = pc /\ pc[w] = "insert" /\ dirty'[w]
      /\ buf' = [buf EXCEPT ![w] = {row}]
      /\ mine'[w] = mine[w] \cup {row.key}
      /\ hdr'[w].next = hdr[w].next + 1
      /\ todo[w] > 0
  BY <1>0 DEF AppendRow, Typed, GoodHeaders, Headers
<1>5. Named' = Stored(w) /\ Stored(w)' = Stored(w) \cup {row} /\ Named \subseteq Stored(w)
  BY <1>0, <1>1, <1>3, <1>4 DEF Named, Stored, Typed
<1>6. Untorn'
  BY <1>0, <1>2, <1>3, <1>4 DEF WInv, Untorn, Torn, Typed
<1>7. ReadersQuiet'
  BY <1>0, <1>4 DEF AppendRow, WInv, ReadersQuiet, Typed
<1>8. WriterInv'
  <2>1. MaxBatch \in Nat /\ todo[w] \in 0 .. MaxBatch /\ todo'[w] = todo[w] - 1
    BY <1>0, StorageAssumption DEF AppendRow, Typed
  <2> QED
    BY <1>0, <1>1, <1>4, <2>1 DEF WriterInv
<1>9. IdsInv'
  <2>1. \A r \in Stored(w) : r.id < hdr[w].next
    BY <1>1, <1>0 DEF WInv, IdsInv
  <2>2. \A r, s \in Stored(w) : r.id = s.id => r = s
    BY <1>0 DEF WInv, IdsInv
  <2>3. \A r \in Stored(w) : r.id \in Nat
    BY <1>0, <1>1 DEF Typed, GoodFiles, GoodBufs, Contents, Records, Torn, Ids, Stored, Named
  <2>4. row.id = hdr[w].next
    OBVIOUS
  <2> QED
    BY <1>0, <1>2, <1>4, <1>5, <2>1, <2>2, <2>3, <2>4 DEF IdsInv
<1>10. HeaderInv'
  <2>1. CASE buf[w] = {}
    <3>1. Stored(w) = inode[path].rows /\ pc[w] # "header"
      BY <1>1, <1>4, <2>1 DEF Stored, Named
    <3> QED
      BY <1>0, <1>1, <1>3, <1>4, <3>1 DEF WInv, HeaderInv, Typed
  <2>2. CASE buf[w] # {}
    <3>1. MaxBatch > 1
      BY <1>0, <1>4, <2>2 DEF WInv, WriterInv
    <3> QED
      BY <1>0, <1>1, <1>4, <3>1 DEF HeaderInv
  <2> QED
    BY <2>1, <2>2
<1>11. RewriteInv'
  BY <1>0, <1>4 DEF RewriteInv
<1>12. AckInv'
  <2>1. \A k \in acked' : \E r \in Named' : r.key = k
    <3>1. \A k \in acked : \E r \in Named : r.key = k
      BY DEF WInv, AckInv
    <3> QED BY <1>4, <1>5, <3>1
  <2>2. \A k \in mine[w] : \E r \in Stored(w) : r.key = k
    BY <1>0, <1>4 DEF WInv, AckInv
  <2>3. \A k \in mine'[w] : \E r \in Stored(w)' : r.key = k
    <3> HIDE DEF row
    <3> QED BY <1>4, <1>5, <2>2
  <2>4. pc'[w] = "insert"
    BY <1>4
  <2> QED
    BY <1>0, <2>1, <2>3, <2>4 DEF AckInv
<1> QED
  BY <1>6, <1>7, <1>8, <1>9, <1>10, <1>11, <1>12 DEF WInv

\* The buffer reaches the file: between the last row and the header, in a query,
\* or at the start of a rewrite.  No row comes or goes.
LEMMA WriteOutStep ==
    ASSUME Typed, Typed', WInv, OpenWhole, CarefulWriter, NEW w \in Writers, fd[w] # NoInode,
           inode'[path] = Flushed(w),
           \A i \in Inodes : Torn \notin inode'[i].rows,
           UNCHANGED <<path, fd, hdr, dirty, acked>>,
           buf' = [buf EXCEPT ![w] = {}],
           \A g \in Handles \ {w} : pc'[g] = pc[g],
           \/ pc[w] = "idle" /\ pc'[w] = "idle" /\ mine'[w] = mine[w] /\ buf[w] # {}
           \/ pc[w] = "insert" /\ todo[w] = 0 /\ pc'[w] = "header" /\ mine'[w] = mine[w]
           \/ pc[w] = "fill" /\ pc'[w] = "rename" /\ RewriteInv'
    PROVE  WInv'
<1>0. w \in Handles /\ Writers = {w}
  BY StorageAssumption DEF CarefulWriter
<1>1. fd[w] = path /\ path # NoInode /\ path \in Inodes
  BY <1>0 DEF WInv, WriterInv, Typed
<1>2. Flushed(w).rows = Stored(w) /\ Flushed(w).next = inode[path].next
  BY <1>0, <1>1, FlushedUntorn DEF WInv, Named, Stored
<1>3. Named' = Stored(w) /\ Stored(w)' = Stored(w)
  BY <1>0, <1>1, <1>2 DEF Named, Stored, Typed
<1>4. Untorn' /\ ReadersQuiet'
  BY <1>0 DEF WInv, Untorn, ReadersQuiet, Typed
<1>5. WriterInv'
  BY <1>0, <1>1 DEF WInv, WriterInv, Typed
<1>6. IdsInv'
  BY <1>0, <1>1, <1>3 DEF WInv, IdsInv
<1>7. HeaderInv'
  <2>1. CASE buf[w] = {}
    <3>1. Stored(w) = inode[path].rows
      BY <1>1, <2>1 DEF Stored, Named
    <3> QED
      BY <1>0, <1>1, <1>2, <3>1 DEF WInv, HeaderInv, WriterInv
  <2>2. CASE buf[w] # {}
    BY <1>0, <1>1, <2>2 DEF WInv, HeaderInv, WriterInv
  <2> QED
    BY <2>1, <2>2
<1>8. RewriteInv'
  BY <1>0 DEF RewriteInv
<1>9. AckInv'
  <2>1. \A k \in acked' : \E r \in Named' : r.key = k
    BY <1>3 DEF WInv, AckInv, Stored
  <2>2. pc'[w] \in {"insert", "header"} => \A k \in mine'[w] : \E r \in Stored(w)' : r.key = k
    BY <1>0, <1>3 DEF WInv, AckInv
  <2>3. pc'[w] \notin {"insert", "header", "rename"} => mine'[w] = {}
    BY <1>0 DEF WInv, AckInv
  <2> QED
    BY <1>0, <2>1, <2>2, <2>3 DEF AckInv
<1> QED
  BY <1>4, <1>5, <1>6, <1>7, <1>8, <1>9 DEF WInv

\* The header that counts the new rows reaches the file.
LEMMA FlushHeaderStep ==
    ASSUME Typed, Typed', WInv, CarefulWriter, NEW w \in Writers, FlushHeader(w)
    PROVE  WInv'
<1>0. w \in Handles /\ Writers = {w} /\ pc[w] = "header"
  BY StorageAssumption DEF CarefulWriter, FlushHeader
<1>1. fd[w] = path /\ path # NoInode /\ path \in Inodes /\ buf[w] = {}
  BY <1>0 DEF WInv, WriterInv, Typed
<1>2. /\ \A i \in Inodes : inode'[i].rows = inode[i].rows
      /\ inode'[path].next = hdr[w].next
  BY <1>0, <1>1 DEF FlushHeader, SetHeader, Typed, GoodFiles, Contents
<1>3. /\ UNCHANGED <<path, fd, hdr, buf>>
      /\ \A g \in Handles \ {w} : pc'[g] = pc[g] /\ dirty'[g] = dirty[g]
      /\ pc'[w] = "idle" /\ mine'[w] = {} /\ acked' = acked \cup mine[w]
  BY <1>0 DEF FlushHeader, Release, Typed
<1>4. Named' = Named /\ Stored(w) = Named /\ Stored(w)' = Named
  BY <1>0, <1>1, <1>2, <1>3 DEF Named, Stored
<1>5. Untorn' /\ ReadersQuiet'
  BY <1>0, <1>2, <1>3 DEF WInv, Untorn, ReadersQuiet
<1>6. WriterInv'
  BY <1>0, <1>1, <1>3, <1>4 DEF WInv, WriterInv
<1>7. IdsInv'
  BY <1>0, <1>3, <1>4 DEF WInv, IdsInv
<1>8. HeaderInv'
  BY <1>0, <1>1, <1>2, <1>3, <1>4 DEF WInv, IdsInv, HeaderInv, Named
<1>9. RewriteInv'
  BY <1>0, <1>3 DEF RewriteInv
<1>10. AckInv'
  BY <1>0, <1>3, <1>4 DEF WInv, AckInv
<1> QED
  BY <1>5, <1>6, <1>7, <1>8, <1>9, <1>10 DEF WInv

\* kdb_storage_rewrite writes its buffer out and opens the temporary file.
LEMMA OpenTmpStep ==
    ASSUME Typed, Typed', TmpOwned, WInv, CarefulWriter, NEW w \in Writers, OpenTmp(w)
    PROVE  WInv'
<1>0. w \in Handles /\ Writers = {w} /\ pc[w] = "rewrite"
  BY StorageAssumption DEF CarefulWriter, OpenTmp
<1>1. PICK i \in Inodes : i # path /\ inode' = [inode EXCEPT ![i] = Blank]
  BY DEF OpenTmp, Free, TmpOwned
<1>2. /\ UNCHANGED <<path, fd, hdr, dirty, buf, mine, acked>>
      /\ \A g \in Handles \ {w} : pc'[g] = pc[g]
      /\ pc'[w] = "fill"
  BY <1>0 DEF OpenTmp, Typed
<1>3. path # NoInode => path \in Inodes /\ inode'[path] = inode[path]
  BY <1>1 DEF Typed
<1>4. Named' = Named /\ Stored(w)' = Stored(w)
  BY <1>2, <1>3 DEF Named, Stored
<1>5. Untorn'
  BY <1>1, <1>2 DEF WInv, Untorn, Blank, Typed
<1>6. ReadersQuiet'
  BY <1>0, <1>2 DEF WInv, ReadersQuiet
<1>7. WriterInv'
  BY <1>0, <1>2, <1>4 DEF WInv, WriterInv
<1>8. IdsInv'
  BY <1>0, <1>2, <1>4 DEF WInv, IdsInv
<1>9. HeaderInv'
  BY <1>0, <1>2, <1>3 DEF WInv, HeaderInv
<1>10. RewriteInv' /\ AckInv'
  BY <1>0, <1>2, <1>4 DEF WInv, RewriteInv, AckInv
<1> QED
  BY <1>5, <1>6, <1>7, <1>8, <1>9, <1>10 DEF WInv

\* The temporary file gets the rows to keep and the header.
LEMMA FillStep ==
    ASSUME Typed, Typed', TmpOwned, WInv, OpenWhole, CarefulWriter, NEW w \in Writers, Fill(w)
    PROVE  WInv'
<1>0. w \in Handles /\ Writers = {w} /\ pc[w] = "fill" /\ pc'[w] = "rename" /\ fd[w] # NoInode
  BY StorageAssumption DEF CarefulWriter, Fill, Typed
<1>1. fd[w] = path /\ path # NoInode /\ path \in Inodes
  BY <1>0 DEF WInv, WriterInv, Typed
<1>2. out[w] = tmp /\ tmp \in Inodes /\ tmp # path
  BY <1>0 DEF TmpOwned, Typed
<1>3. PICK victims \in SUBSET KeysOf(Flushed(w).rows) :
          /\ inode' = [inode EXCEPT ![fd[w]] = Flushed(w), ![out[w]] = Rewritten(w, victims)]
          /\ mine' = [mine EXCEPT ![w] = victims]
  BY DEF Fill
<1>4. /\ UNCHANGED <<path, tmp, fd, hdr, dirty, acked>>
      /\ buf' = [buf EXCEPT ![w] = {}]
      /\ \A g \in Handles \ {w} : pc'[g] = pc[g]
  BY <1>0 DEF Fill, Typed
<1>5. inode'[path] = Flushed(w) /\ inode'[tmp] = Rewritten(w, victims) /\ mine'[w] = victims
  BY <1>0, <1>1, <1>2, <1>3 DEF Typed
<1>6. /\ Flushed(w) \in GoodFiles(serial) /\ hdr[w] \in GoodHeaders(serial)
      /\ Torn \notin Flushed(w).rows /\ serial \in 0 .. MaxKeys
  BY <1>0, FlushedIsGood, FlushedUntorn DEF Typed, WInv
<1> DEFINE kept == {r \in Flushed(w).rows : r.key \notin victims}
<1>7. Rewritten(w, victims).rows = kept /\ Rewritten(w, victims).next = NextIdAfter(kept, hdr[w].next)
  <2>1. Visible(Flushed(w).rows) = Flushed(w).rows
    BY <1>6 DEF Visible
  <2> QED
    BY <2>1 DEF Rewritten
<1>8. \A r \in kept : r.id < NextIdAfter(kept, hdr[w].next)
  <2>1. kept \in SUBSET Records /\ \A r \in kept : r.id <= serial
    BY <1>6 DEF GoodFiles, Contents
  <2>2. hdr[w].next \in Ids /\ hdr[w].next <= serial + 1
    BY <1>6 DEF GoodHeaders, Headers
  <2> HIDE DEF kept
  <2> QED
    BY <1>6, <2>1, <2>2, NextIdAfterFits
<1>9. RewriteInv'
  BY <1>0, <1>4, <1>5, <1>7, <1>8 DEF RewriteInv
<1>10. \A i \in Inodes : Torn \notin inode'[i].rows
  BY <1>1, <1>2, <1>3, <1>6, <1>7 DEF WInv, Untorn, Typed
<1> QED
  BY <1>0, <1>4, <1>5, <1>9, <1>10, WriteOutStep

\* The rewritten file takes the path over, opened again or not.
LEMMA RenameStep ==
    ASSUME Typed, Typed', TmpOwned, WInv, CarefulWriter, NEW w \in Writers,
           Rename(w) \/ ReopenFails(w)
    PROVE  WInv'
<1>0. w \in Handles /\ Writers = {w} /\ pc[w] = "rename" /\ pc'[w] = "idle"
  BY StorageAssumption DEF CarefulWriter, Rename, ReopenFails, Release, Typed
<1>1. out[w] = tmp /\ tmp \in Inodes /\ tmp # NoInode
  BY <1>0 DEF TmpOwned, Typed
<1>2. buf[w] = {} /\ path # NoInode
  BY <1>0 DEF WInv, WriterInv, Typed
<1>3. /\ UNCHANGED <<inode, buf>> /\ path' = tmp /\ mine'[w] = {} /\ acked' = acked \ mine[w]
      /\ \A g \in Handles \ {w} : pc'[g] = pc[g] /\ dirty'[g] = dirty[g]
      /\ fd'[w] \in {NoInode, tmp}
      /\ fd'[w] # NoInode => hdr'[w].next = inode[tmp].next
  BY <1>0, <1>1 DEF Rename, ReopenFails, Release, HeaderOf, Typed
<1>4. Named' = inode[tmp].rows /\ Stored(w)' = inode[tmp].rows /\ Named = inode[path].rows
  BY <1>0, <1>1, <1>2, <1>3 DEF Named, Stored
<1>5. Untorn' /\ ReadersQuiet'
  BY <1>0, <1>3 DEF WInv, Untorn, ReadersQuiet
<1>6. WriterInv'
  BY <1>0, <1>1, <1>2, <1>3 DEF WriterInv
<1>7. Named' \subseteq Named
  BY <1>0, <1>4 DEF WInv, RewriteInv
<1>8. IdsInv'
  BY <1>0, <1>3, <1>4, <1>7 DEF WInv, IdsInv, RewriteInv
<1>9. HeaderInv'
  BY <1>0, <1>1, <1>3 DEF WInv, HeaderInv, RewriteInv
<1>10. RewriteInv'
  BY <1>0 DEF RewriteInv
<1>11. AckInv'
  BY <1>0, <1>3, <1>4 DEF WInv, AckInv, RewriteInv
<1> QED
  BY <1>5, <1>6, <1>8, <1>9, <1>10, <1>11 DEF WInv

\* The handle loses its file, and what its header had still to count is in it.
LEMMA RenameFailsStep ==
    ASSUME Typed, Typed', WInv, CarefulWriter, NEW w \in Writers, RenameFails(w)
    PROVE  WInv'
<1>0. w \in Handles /\ Writers = {w} /\ pc[w] = "rename" /\ MaxBatch <= 1
  BY StorageAssumption DEF CarefulWriter, RenameFails
<1>1. /\ UNCHANGED <<inode, path, buf, acked, hdr, dirty>> /\ fd'[w] = NoInode /\ mine'[w] = {}
      /\ pc'[w] = "idle" /\ \A g \in Handles \ {w} : pc'[g] = pc[g]
  BY <1>0 DEF RenameFails, Release, Typed
<1>2. buf[w] = {}
  BY <1>0 DEF WInv, WriterInv
<1>3. Named' = Named /\ Stored(w)' = Stored(w)
  BY <1>1 DEF Named, Stored
<1>4. Untorn' /\ ReadersQuiet'
  BY <1>0, <1>1 DEF WInv, Untorn, ReadersQuiet
<1>5. WriterInv' /\ IdsInv'
  BY <1>0, <1>1, <1>2, <1>3 DEF WInv, WriterInv, IdsInv
<1>6. HeaderInv'
  BY <1>0, <1>1, StorageAssumption DEF WInv, HeaderInv
<1>7. RewriteInv' /\ AckInv'
  BY <1>0, <1>1, <1>3 DEF WInv, RewriteInv, AckInv
<1> QED
  BY <1>4, <1>5, <1>6, <1>7 DEF WInv

\* fopen makes an empty file.
LEMMA CreateStep ==
    ASSUME Typed, Typed', WInv, CarefulWriter, NEW w \in Writers, FopenCreate(w)
    PROVE  WInv'
<1>0. w \in Handles /\ Writers = {w} /\ pc[w] = "create" /\ pc'[w] = "creating" /\ path = NoInode
  BY StorageAssumption DEF CarefulWriter, FopenCreate, Typed, WInv, WriterInv
<1>1. path' \in Inodes /\ inode' = [inode EXCEPT ![path'] = Blank] /\ path' # NoInode /\ out'[w] = path'
  BY <1>0 DEF FopenCreate, Inodes, NoInode, Typed
<1>2. /\ UNCHANGED <<fd, hdr, dirty, buf, mine, acked>>
      /\ \A g \in Handles \ {w} : pc'[g] = pc[g]
  BY <1>0 DEF FopenCreate, Typed
<1>3. fd[w] = NoInode /\ buf[w] = {} /\ Named = {} /\ mine[w] = {}
  BY <1>0 DEF WInv, WriterInv, AckInv, Named
<1>4. Named' = {} /\ Stored(w)' = {} /\ inode'[path'].rows = {}
  BY <1>1, <1>2, <1>3 DEF Named, Stored, Blank, Typed
<1>5. Untorn' /\ ReadersQuiet'
  BY <1>0, <1>1, <1>2 DEF WInv, Untorn, ReadersQuiet, Blank, Typed
<1>6. WriterInv' /\ IdsInv' /\ HeaderInv'
  BY <1>0, <1>1, <1>2, <1>3, <1>4 DEF WriterInv, IdsInv, HeaderInv
<1>7. RewriteInv' /\ AckInv'
  BY <1>0, <1>2, <1>3, <1>4 DEF WInv, RewriteInv, AckInv
<1> QED
  BY <1>5, <1>6, <1>7 DEF WInv

\* Its header is written before the lock is released.
LEMMA CreateDoneStep ==
    ASSUME Typed, Typed', WInv, CarefulWriter, NEW w \in Writers, CreateDone(w)
    PROVE  WInv'
<1>0. w \in Handles /\ Writers = {w} /\ pc[w] = "creating" /\ pc'[w] = "closed"
  BY StorageAssumption DEF CarefulWriter, CreateDone, Typed
<1>1. fd[w] = NoInode /\ buf[w] = {} /\ path # NoInode /\ path \in Inodes /\ Named = {} /\ mine[w] = {}
      /\ out[w] = path
  BY <1>0 DEF WInv, WriterInv, AckInv, Typed
<1>2. \A i \in Inodes : inode'[i].rows = inode[i].rows
  BY <1>1 DEF CreateDone, SetHeader, Typed, GoodFiles, Contents
<1>3. /\ UNCHANGED <<path, fd, hdr, dirty, buf, mine, acked>>
      /\ \A g \in Handles \ {w} : pc'[g] = pc[g]
  BY <1>0 DEF CreateDone, Typed
<1>4. Named' = {} /\ Stored(w)' = {} /\ inode'[path'].rows = {}
  BY <1>1, <1>2, <1>3 DEF Named, Stored
<1>5. Untorn' /\ ReadersQuiet'
  BY <1>0, <1>2, <1>3 DEF WInv, Untorn, ReadersQuiet
<1>6. WriterInv' /\ IdsInv' /\ HeaderInv'
  BY <1>0, <1>1, <1>3, <1>4 DEF WriterInv, IdsInv, HeaderInv
<1>7. RewriteInv' /\ AckInv'
  BY <1>0, <1>1, <1>3, <1>4 DEF WInv, RewriteInv, AckInv
<1> QED
  BY <1>5, <1>6, <1>7 DEF WInv

\* A new handle reads a header that is past every id in the file.
LEMMA OpenStep ==
    ASSUME Typed, Typed', WInv, CarefulWriter, NEW w \in Writers, kdb_storage_open(w)
    PROVE  WInv'
<1>0. w \in Handles /\ Writers = {w} /\ pc[w] = "closed" /\ pc'[w] = "idle"
  BY StorageAssumption DEF CarefulWriter, kdb_storage_open, Typed
<1>1. fd[w] = NoInode /\ buf[w] = {} /\ path # NoInode /\ path \in Inodes /\ mine[w] = {}
  BY <1>0 DEF kdb_storage_open, WInv, WriterInv, AckInv, Typed
<1>2. /\ UNCHANGED <<inode, path, mine, acked>>
      /\ fd'[w] = path /\ hdr'[w].next = inode[path].next /\ buf'[w] = {}
      /\ \A g \in Handles \ {w} : pc'[g] = pc[g] /\ buf'[g] = buf[g] /\ dirty'[g] = dirty[g]
  BY <1>0 DEF kdb_storage_open, HeaderOf, Typed
<1>3. Named' = Named /\ Stored(w)' = Named /\ Named = inode[path].rows
  BY <1>1, <1>2 DEF Named, Stored
<1>4. Untorn' /\ ReadersQuiet'
  BY <1>0, <1>2 DEF WInv, Untorn, ReadersQuiet
<1>5. \A r \in Named : r.id < inode[path].next
  BY <1>0, <1>1, <1>3 DEF WInv, HeaderInv
<1>6. WriterInv' /\ IdsInv' /\ HeaderInv'
  BY <1>0, <1>1, <1>2, <1>3, <1>5 DEF WInv, WriterInv, IdsInv, HeaderInv
<1>7. RewriteInv' /\ AckInv'
  BY <1>0, <1>1, <1>2, <1>3 DEF WInv, RewriteInv, AckInv
<1> QED
  BY <1>4, <1>6, <1>7 DEF WInv

\* fclose writes the buffer out, after a header that was still to be written.
LEMMA CloseStep ==
    ASSUME Typed, Typed', WInv, OpenWhole, CarefulWriter, NEW w \in Writers,
           kdb_storage_close(w) \/ kdb_storage_drop(w)
    PROVE  WInv'
<1>0. w \in Handles /\ Writers = {w} /\ pc[w] = "idle" /\ pc'[w] = "closed" /\ mine[w] = {}
  BY StorageAssumption DEF CarefulWriter, kdb_storage_close, kdb_storage_drop, Typed, WInv, AckInv
<1>1. /\ mine' = mine /\ fd'[w] = NoInode /\ buf'[w] = {} /\ ~dirty'[w]
      /\ \A g \in Handles \ {w} : pc'[g] = pc[g] /\ buf'[g] = buf[g] /\ dirty'[g] = dirty[g]
      /\ \/ path' = path /\ acked' = acked
         \/ path' = NoInode /\ acked' = {}
  BY <1>0 DEF kdb_storage_close, kdb_storage_drop, CloseFile, Typed
<1>2. CASE fd[w] = NoInode
  <2>1. inode' = inode /\ buf[w] = {}
    BY <1>0, <1>2 DEF kdb_storage_close, kdb_storage_drop, CloseFile, WInv, WriterInv
  <2>2. Named' \in {Named, {}} /\ Stored(w)' = Named' /\ (path' # NoInode => Named' = Named)
    BY <1>1, <2>1 DEF Named, Stored
  <2>3. Untorn' /\ ReadersQuiet' /\ WriterInv'
    BY <1>0, <1>1, <2>1, <2>2 DEF WInv, Untorn, ReadersQuiet, WriterInv
  <2>4. IdsInv' /\ HeaderInv' /\ RewriteInv'
    BY <1>0, <1>1, <1>2, <2>1, <2>2 DEF WInv, IdsInv, HeaderInv, RewriteInv
  <2>5. AckInv'
    BY <1>0, <1>1, <2>2 DEF WInv, AckInv, Named
  <2> QED
    BY <2>3, <2>4, <2>5 DEF WInv
<1>3. CASE fd[w] # NoInode
  <2>1. fd[w] = path /\ path \in Inodes /\ path # NoInode
    BY <1>0, <1>3 DEF WInv, WriterInv, Typed
  <2>2. Flushed(w).rows = Stored(w) /\ Flushed(w).next = inode[path].next /\ Torn \notin Flushed(w).rows
        /\ Flushed(w) \in Contents
    BY <1>0, <1>3, <2>1, FlushedUntorn, FlushedIsGood DEF WInv, Stored, Named, GoodFiles
  <2>3. /\ inode' = [inode EXCEPT ![path] = IF dirty[w] THEN SetHeader(Flushed(w), hdr[w]) ELSE Flushed(w)]
        /\ inode'[path].rows = Stored(w)
        /\ inode'[path].next = IF dirty[w] THEN hdr[w].next ELSE inode[path].next
    <3> DEFINE f == IF dirty[w] THEN SetHeader(Flushed(w), hdr[w]) ELSE Flushed(w)
    <3>1. inode' = [inode EXCEPT ![path] = f]
      BY <1>3, <2>1 DEF kdb_storage_close, kdb_storage_drop, CloseFile
    <3>2. f.rows = Stored(w) /\ f.next = IF dirty[w] THEN hdr[w].next ELSE inode[path].next
      BY <2>2 DEF SetHeader, Contents
    <3> HIDE DEF f
    <3>3. inode'[path] = f
      BY <2>1, <3>1 DEF Typed
    <3> QED
      BY <3>1, <3>2, <3>3 DEF f
  <2>4. /\ path' # NoInode => Named' = Stored(w)
        /\ path' = NoInode => Named' = {}
        /\ Stored(w)' = Named'
    BY <1>1, <2>3 DEF Named, Stored
  <2>5. Untorn' /\ ReadersQuiet' /\ WriterInv'
    BY <1>0, <1>1, <2>1, <2>2, <2>3, <2>4 DEF WInv, Untorn, ReadersQuiet, WriterInv, Typed
  <2>6. \A r \in Stored(w) : r.id < inode'[path].next
    <3>1. CASE dirty[w]
      BY <1>0, <1>3, <2>3, <3>1 DEF WInv, IdsInv
    <3>2. CASE ~dirty[w]
      <4>1. Stored(w) = inode[path].rows
        BY <1>0, <2>1, <3>2 DEF WInv, WriterInv, Stored, Named
      <4> QED
        BY <1>0, <2>1, <2>3, <3>2, <4>1 DEF WInv, HeaderInv
    <3> QED
      BY <3>1, <3>2
  <2>7. HeaderInv'
    BY <1>1, <2>3, <2>6 DEF HeaderInv
  <2>8. IdsInv' /\ RewriteInv'
    BY <1>0, <1>1, <2>4 DEF WInv, IdsInv, RewriteInv
  <2>9. AckInv'
    <3>1. \A k \in acked' : \E r \in Named' : r.key = k
      BY <1>1, <2>1, <2>4 DEF WInv, AckInv, Stored
    <3> QED
      BY <1>0, <1>1, <3>1 DEF AckInv
  <2> QED
    BY <2>5, <2>7, <2>8, <2>9 DEF WInv
<1> QED
  BY <1>2, <1>3

\* Nobody dies with a row in the file that its header does not count.
LEMMA CrashStep ==
    ASSUME Typed, Typed', WInv, CarefulWriter, NEW w \in Writers, Crash(w)
    PROVE  WInv'
<1>0. w \in Handles /\ Writers = {w} /\ pc'[w] = "closed" /\ pc[w] # "header"
  BY StorageAssumption DEF CarefulWriter, Crash, Dies, Release, Typed, WInv, WriterInv
<1>1. /\ UNCHANGED <<inode, path, acked>> /\ mine'[w] = {} /\ fd'[w] = NoInode /\ buf'[w] = {}
      /\ \A g \in Handles \ {w} : pc'[g] = pc[g] /\ buf'[g] = buf[g] /\ dirty'[g] = dirty[g]
  BY <1>0 DEF Crash, Dies, Release, Typed
<1>2. fd[w] = NoInode \/ MaxBatch <= 1
  BY <1>0 DEF CarefulWriter, Crash, WInv, WriterInv
<1>3. Named' = Named /\ Stored(w)' = Named
  BY <1>1 DEF Named, Stored
<1>4. Untorn' /\ ReadersQuiet' /\ WriterInv'
  BY <1>0, <1>1 DEF WInv, Untorn, ReadersQuiet, WriterInv
<1>5. HeaderInv'
  BY <1>0, <1>1, <1>2, StorageAssumption DEF WInv, HeaderInv, Typed
<1>6. IdsInv' /\ RewriteInv' /\ AckInv'
  BY <1>0, <1>1, <1>3 DEF WInv, IdsInv, RewriteInv, AckInv
<1> QED
  BY <1>4, <1>5, <1>6 DEF WInv

\* Every step of the writer.
LEMMA WriterStep ==
    ASSUME IInv, Typed', WInv, OpenWhole, CarefulWriter, NEW w \in Writers,
           Locked(w) \/ Request(w) \/ Crash(w) \/ CrashInWrite(w)
    PROVE  WInv'
<1> USE DEF IInv
<1>0. w \in Handles
  BY StorageAssumption
<1>1. CASE AppendRow(w)
  BY <1>1, AppendStep
<1>2. CASE RowRejected(w) \/ RewriteFails(w)
  BY <1>0, <1>2, PausedStep DEF RowRejected, RewriteFails, Release, Typed
<1>3. CASE FlushRow(w)
  <2>1. fd[w] # NoInode /\ fd[w] = path /\ path \in Inodes
    BY <1>0, <1>3 DEF FlushRow, WInv, WriterInv, Typed
  <2>2. inode'[path] = Flushed(w) /\ \A i \in Inodes : Torn \notin inode'[i].rows
    BY <1>0, <1>3, <2>1, FlushedUntorn DEF FlushRow, WInv, Untorn, Typed
  <2> QED
    BY <1>0, <1>3, <2>1, <2>2, WriteOutStep DEF FlushRow, Typed
<1>4. CASE FlushHeader(w)
  BY <1>4, FlushHeaderStep
<1>5. CASE OpenTmp(w)
  BY <1>5, OpenTmpStep
<1>6. CASE Fill(w)
  BY <1>6, FillStep
<1>7. CASE Rename(w) \/ ReopenFails(w)
  BY <1>7, RenameStep
<1>8. CASE RenameFails(w)
  BY <1>8, RenameFailsStep
<1>14. CASE kdb_storage_create(w)
  <2>1. mine[w] = {}
    BY <1>0, <1>14 DEF kdb_storage_create, WInv, AckInv
  <2> QED
    BY <1>0, <1>14, <2>1, PausedStep DEF kdb_storage_create, Typed
<1>9. CASE FopenCreate(w) \/ CreateDone(w) \/ kdb_storage_open(w)
  BY <1>9, CreateStep, CreateDoneStep, OpenStep
<1>10. CASE kdb_storage_close(w) \/ kdb_storage_drop(w)
  BY <1>10, CloseStep
<1>11. CASE kdb_storage_scan(w)
  <2>1. fd[w] # NoInode /\ fd[w] = path /\ path \in Inodes
    BY <1>0, <1>11 DEF kdb_storage_scan, WInv, WriterInv, Typed
  <2>2. inode'[path] = Flushed(w) /\ \A i \in Inodes : Torn \notin inode'[i].rows
    BY <1>0, <1>11, <2>1, FlushedUntorn DEF kdb_storage_scan, WInv, Untorn, Typed
  <2> QED
    BY <1>0, <1>11, <2>1, <2>2, WriteOutStep DEF kdb_storage_scan
<1>12. CASE (\E n \in 1 .. MaxBatch : kdb_table_insert(w, n)) \/ kdb_table_rewrite(w)
  <2>1. mine[w] = {}
    BY <1>0, <1>12 DEF kdb_table_insert, kdb_table_rewrite, Acquire, WInv, AckInv
  <2> QED
    BY <1>0, <1>12, <2>1, PausedStep DEF kdb_table_insert, kdb_table_rewrite, Acquire, Typed
<1>13. CASE Crash(w)
  BY <1>13, CrashStep
<1> QED
  BY <1>1, <1>2, <1>3, <1>4, <1>5, <1>6, <1>7, <1>8, <1>9, <1>10, <1>11, <1>12, <1>13, <1>14
  DEF Locked, Request, CarefulWriter, AppendFails, FlushFails, CrashInWrite

\* No file and no handle at first.
LEMMA WInit == Init => WInv
<1> SUFFICES ASSUME Init PROVE WInv
  OBVIOUS
<1>1. Untorn /\ ReadersQuiet /\ WriterInv
  BY StorageAssumption DEF Init, Untorn, ReadersQuiet, WriterInv, Blank
<1>2. IdsInv /\ HeaderInv /\ RewriteInv /\ AckInv
  BY StorageAssumption DEF Init, IdsInv, HeaderInv, RewriteInv, AckInv, Named, Stored
<1> QED
  BY <1>1, <1>2 DEF WInv

\* Every step of any process.
LEMMA WStep == CarefulWriter /\ IInv /\ SInv /\ WInv /\ [Next]_vars => WInv'
<1> SUFFICES ASSUME CarefulWriter, IInv, SInv, WInv, [Next]_vars PROVE WInv'
  OBVIOUS
<1>1. Typed'
  BY NextIInv DEF IInv
<1>2. CASE UNCHANGED vars
  BY <1>2 DEF vars, own, WInv, Untorn, ReadersQuiet, WriterInv, IdsInv, HeaderInv, RewriteInv, AckInv,
     Named, Stored
<1>3. CASE Next
  <2>1. PICK h \in Handles : Locked(h) \/ Request(h) \/ Crash(h) \/ CrashInWrite(h)
    BY <1>3 DEF Next
  <2> QED
    BY <1>1, <2>1, ReaderStep, WriterStep DEF IInv, SInv
<1> QED
  BY <1>2, <1>3

\* WInv is an invariant of a careful writer.
LEMMA SafeWhenCareful == CarefulWriter => (Spec => []WInv)
<1> SUFFICES ASSUME CarefulWriter PROVE Spec => []WInv
  OBVIOUS
<1>1. CarefulWriter
  OBVIOUS
<1>2. IInv /\ SInv /\ WInv /\ [Next]_vars => WInv'
  BY <1>1, WStep
<1>3. SoleCreator
  BY StorageAssumption DEF CarefulWriter, SoleCreator
<1>4. Spec => []SInv
  BY <1>3, SoleInv
<1> QED
  BY <1>2, <1>4, WInit, Invariance, PTL DEF Spec

\* No two rows of a table have the same id, after any sequence of inserts, deletes,
\* rewrites, drops, reopenings and crashes of a careful writer.
THEOREM UniqueIds ==
    ASSUME CarefulWriter
    PROVE  Spec => []IdsUnique
<1>1. WInv => IdsUnique
  BY DEF WInv, IdsInv, IdsUnique, Rows, Named, Visible
<1> QED
  BY <1>1, SafeWhenCareful, PTL

\* A row whose insertion was acknowledged is in the file until it is deleted: no
\* rewrite, no failed rename and no crash of a careful writer loses it.
THEOREM AckedRowsDurable ==
    ASSUME CarefulWriter
    PROVE  Spec => []AckedDurable
<1>1. IInv /\ WInv => AckedDurable
  <2> SUFFICES ASSUME IInv, WInv, NEW k \in acked PROVE k \in KeysOf(Rows)
    BY DEF AckedDurable
  <2>1. PICK r \in Named : r.key = k
    BY DEF WInv, AckInv
  <2>2. Visible(Rows) = Named
    BY DEF IInv, Typed, WInv, Untorn, Rows, Named, Visible
  <2>3. KeysOf(Rows) = {row.key : row \in Named}
    BY <2>2 DEF KeysOf
  <2> QED
    BY <2>1, <2>3
<1> QED
  BY <1>1, SafeWhenCareful, Invariance, PTL
=============================================================================
