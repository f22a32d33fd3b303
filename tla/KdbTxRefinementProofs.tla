----------------------- MODULE KdbTxRefinementProofs -----------------------
(***************************************************************************)
(* KdbTx implements AtomicTx: a proof for every set of tables, contents and *)
(* names, every number of savepoints and every crash site and fault the    *)
(* assumptions leave.  RInv adds to the invariants of KdbTxProofs what     *)
(* the committed content of a table depends on; Simulation maps each step. *)
(* The promises of KdbTxHistory follow: from the refinement for the tables *)
(* between transactions, and from SnapInv, the way back to every active    *)
(* savepoint, for the savepoints.                                          *)
(***************************************************************************)
EXTENDS KdbTxRefinement, KdbTxHistory, KdbTxProofs

\* The points of a transaction, from its beginning to its commit or its undoing.
OpenPcs == {"tx", "touch", "copy", "op", "unlink", "mark", "restore"}

\* A write or a drop of one table.
Stores == \E t \in Tables, v \in Files : file' = [file EXCEPT ![t] = v]

\* The points between a crash, or a close, and the end of the recovery.
ClosedPcs == {"down", "recover_marker", "recover_scan"}

\* Where a step may lead: a transaction is entered from rest only and left by its
\* commit, by the end of its rollback or by a crash; recovery leads to rest.
ControlFlow ==
    /\ pc \in ClosedPcs => pc' \in ClosedPcs \cup {"idle"}
    /\ pc = "idle" => pc' \in {"idle", "tx", "down"} /\ spCount' \in {spCount, 0}
    /\ pc = "idle" /\ file' # file => pc' = "idle" /\ Stores
    /\ pc = "discard" => pc' \in {"discard", "idle", "down"}
    /\ pc = "mark" => UNCHANGED <<file, spCount>> \/ pc' = "down"
    /\ pc = "mark" /\ pc' \in {"idle", "discard"} => UNCHANGED file
    /\ pc = "unlink" /\ pc' = "idle" => UNCHANGED file
    /\ pc \in OpenPcs => pc' \in OpenPcs \cup {"discard", "idle", "down"}
    /\ pc \in OpenPcs /\ pc' = "discard" => pc = "mark"
    /\ pc = "restore" /\ pc' = "restore" /\ todo' # todo => UndoTable

\* Every step, of whichever call, goes where ControlFlow says.
LEMMA Steps == [Next]_vars => ControlFlow
<1> SUFFICES ASSUME [Next]_vars PROVE ControlFlow
  OBVIOUS
<1> USE DEF ControlFlow, ClosedPcs, OpenPcs, disk, txmem
<1>1. CASE Recovery
  BY <1>1 DEF Recovery, kdb_open, RecoverDiscard, RecoverUnmark, RecoverScan, RecoverDone
<1>2. CASE Mutation
  BY <1>2 DEF Mutation, TouchSeen, TouchFull, TouchNew, TouchCopy, CopyDone, CopyFails, TouchDone,
     OpCreate, OpCascade, OpDone, OpFails, Return
<1>3. CASE Ending
  <2>1. CASE UndoTable
    BY <2>1 DEF UndoTable
  <2>2. CASE CommitNothing \/ DeleteMarker \/ RollbackDone
    BY <2>2 DEF CommitNothing, DeleteMarker, RollbackDone, ForgetTx
  <2>3. CASE UnlinkBackup \/ ReleaseDone \/ CommitMarks \/ StartRestore \/ RollbackToDone
    BY <2>3 DEF UnlinkBackup, ReleaseDone, CommitMarks, StartRestore, RollbackToDone, Return
  <2>4. CASE WriteMarker \/ WriteMarkerFails \/ DiscardBackup
    BY <2>4 DEF WriteMarker, WriteMarkerFails, DiscardBackup
  <2> QED
    BY <1>3, <2>1, <2>2, <2>3, <2>4 DEF Ending
<1>4. CASE Request
  <2>1. ASSUME NEW t \in Tables, kdb_drop_table(t) PROVE ControlFlow
    BY <2>1 DEF kdb_drop_table, DropTable, Stores, Files
  <2>2. CASE kdb_close \/ kdb_tx_begin
    BY <2>2 DEF kdb_close, kdb_tx_begin, ForgetTx
  <2>3. ASSUME NEW op, NEW d, NEW first, StartUnlink(op, d, first) PROVE ControlFlow
    BY <2>3 DEF StartUnlink
  <2>4. ASSUME NEW op, NEW t, TxMutate(op, t) PROVE ControlFlow
    BY <2>4 DEF TxMutate
  <2>5. ASSUME NEW n, kdb_tx_savepoint(n) PROVE ControlFlow
    BY <2>5 DEF kdb_tx_savepoint
  <2> QED
    BY <1>4, <2>1, <2>2, <2>3, <2>4, <2>5 DEF Request, kdb_close_tx, kdb_tx_commit,
       kdb_tx_rollback, kdb_tx_rollback_to_savepoint, kdb_tx_release_savepoint
<1>5. CASE Crash
  BY <1>5 DEF Crash, ForgetTx
<1>6. ASSUME NEW t \in Tables, NEW c \in Contents, PlainWrite(t, c) PROVE ControlFlow
  BY <1>6 DEF PlainWrite, WriteTable, Stores, Files
<1>7. CASE UNCHANGED vars
  BY <1>7 DEF vars
<1> QED
  BY <1>1, <1>2, <1>3, <1>4, <1>5, <1>6, <1>7 DEF Next, NonPlain

\* In a transaction a step stores, drops or restores one table, or none.
LEMMA StoreStep ==
    ASSUME Inv, [Next]_vars, pc \in OpenPcs
    PROVE  file' = file \/ Stores
<1> USE DEF Inv, TypeOK, OpenPcs, Stores
<1>1. CASE OpCreate
  BY <1>1, TxAssumption DEF OpCreate, WriteTable, CallInv, Files
<1>2. CASE OpCascade
  BY <1>2 DEF OpCascade, WriteTable, Entries, Files
<1>3. CASE OpDone
  BY <1>3 DEF OpDone, WriteTable, CallInv, Files
<1>4. CASE OpFails
  BY <1>4 DEF OpFails, WriteTable, CallInv, Files
<1>5. CASE UndoTable
  BY <1>5 DEF UndoTable, RestoreTable, RestoreTableFails, DropTable, Entries, Files
<1>6. CASE Recovery
  BY <1>6 DEF Recovery, kdb_open, RecoverDiscard, RecoverUnmark, RecoverScan, RecoverDone
<1>7. CASE UNCHANGED file
  BY <1>7
<1> QED
  BY <1>1, <1>2, <1>3, <1>4, <1>5, <1>6, <1>7
  DEF Next, NonPlain, Mutation, Ending, Request, vars, disk, TouchSeen, TouchFull, TouchNew,
      TouchCopy, CopyDone, CopyFails, TouchDone, UnlinkBackup, ReleaseDone, CommitMarks,
      CommitNothing, WriteMarker, WriteMarkerFails, DiscardBackup, DeleteMarker, StartRestore,
      RollbackDone, RollbackToDone, Crash, StartUnlink, PlainWrite, kdb_close, kdb_close_tx,
      kdb_tx_begin, kdb_tx_commit, kdb_tx_rollback, TxMutate, kdb_drop_table, kdb_tx_savepoint,
      kdb_tx_rollback_to_savepoint, kdb_tx_release_savepoint

\* The foreign keys of a table only lead back to the table itself.
CascadesTracked == \A t \in Tables : Cascades[t] \subseteq {t}

\* No table is created or dropped.
TablesFixed == InitFiles = Tables /\ Droppable = {}

\* A table that exists keeps existing, and so no depth tracks one as new.
FixedInv ==
    TablesFixed =>
        /\ \A t \in Tables : file[t] # NoFile
        /\ \A e \in Entries : seen[e] # "new"

\* A rollback has dropped the created tables it is done with.
UndoneInv ==
    pc = "restore" /\ call.depth = 0 =>
        \A t \in Tables : seen[<<0, t>>] = "new" /\ <<0, t>> \notin todo => file[t] = NoFile

\* With the tables fixed, no step makes or drops one.
LEMMA FixedStep == Inv /\ TrackInv /\ FixedInv /\ [Next]_vars => FixedInv'
<1> SUFFICES ASSUME Inv, TrackInv, FixedInv, [Next]_vars, TablesFixed
             PROVE  /\ \A t \in Tables : file'[t] # NoFile
                    /\ \A e \in Entries : seen'[e] # "new"
  BY DEF FixedInv
<1> USE TxAssumption DEF Inv, FixedInv, TypeOK
<1> DEFINE P == (\A t \in Tables : file'[t] # NoFile) /\ \A e \in Entries : seen'[e] # "new"
<1>1. CASE UNCHANGED <<file, seen>>
  BY <1>1
<1>2. CASE RecoverScan
  BY <1>2 DEF RecoverScan, RestoreTable, RestoreTableFails, ScanInv, Entries, txmem
<1>3. CASE TouchNew
  BY <1>3 DEF TouchNew, CallInv
<1>4. CASE CopyDone
  BY <1>4 DEF CopyDone
<1>5. CASE OpCreate
  BY <1>5 DEF OpCreate, WriteTable, CallInv, txmem
<1>6. CASE OpCascade
  BY <1>6 DEF OpCascade, WriteTable, Entries, txmem
<1>7. CASE OpDone
  BY <1>7 DEF OpDone, WriteTable, CallInv
<1>8. CASE OpFails
  BY <1>8 DEF OpFails, WriteTable, CallInv
<1>9. CASE UndoTable
  BY <1>9 DEF UndoTable, RestoreTable, RestoreTableFails, TrackInv, CallInv, Entries, txmem
<1>10. CASE RollbackToDone
  BY <1>10 DEF RollbackToDone, disk
<1>11. CASE ForgetTx /\ UNCHANGED file
  BY <1>11 DEF ForgetTx
<1>12. ASSUME NEW t \in Tables, kdb_drop_table(t) PROVE P
  BY <1>12 DEF kdb_drop_table, TablesFixed
<1>13. ASSUME NEW n \in Names, kdb_tx_savepoint(n) PROVE P
  BY <1>13 DEF kdb_tx_savepoint, disk
<1>14. ASSUME NEW t \in Tables, NEW c \in Contents, PlainWrite(t, c) PROVE P
  BY <1>14 DEF PlainWrite, WriteTable, txmem
<1> QED
  BY <1>1, <1>2, <1>3, <1>4, <1>5, <1>6, <1>7, <1>8, <1>9, <1>10, <1>11, <1>12, <1>13, <1>14
  DEF Next, NonPlain, Recovery, Mutation, Ending, Request, vars, disk, txmem,
      kdb_open, RecoverDiscard, RecoverUnmark, RecoverDone, TouchSeen, TouchFull, TouchCopy,
      CopyFails, TouchDone, UnlinkBackup, ReleaseDone, CommitMarks, CommitNothing, WriteMarker,
      WriteMarkerFails, DiscardBackup, DeleteMarker, StartRestore, RollbackDone, Crash, StartUnlink,
      kdb_close, kdb_close_tx, kdb_tx_begin, kdb_tx_commit, kdb_tx_rollback, TxMutate,
      kdb_tx_rollback_to_savepoint, kdb_tx_release_savepoint

\* kdb__tx_undo_entry drops the tables that the transaction created.
LEMMA UndoneStep == Inv /\ UndoneInv /\ [Next]_vars => UndoneInv'
<1> SUFFICES ASSUME Inv, UndoneInv, [Next]_vars, pc' = "restore", call'.depth = 0,
                    NEW t \in Tables, seen'[<<0, t>>] = "new", <<0, t>> \notin todo'
             PROVE  file'[t] = NoFile
  BY DEF UndoneInv
<1> USE DEF Inv, UndoneInv, TypeOK
<1>1. CASE StartRestore
  BY <1>1 DEF StartRestore, TablesSeen
<1>2. CASE UndoTable
  <2>1. PICK e \in todo :
            /\ \/ seen[e] = "new" /\ DropTable(e[2])
               \/ seen[e] = "old" /\ RestoreTable(e)
               \/ seen[e] = "old" /\ UNCHANGED file
            /\ todo' = todo \ {e}
    BY <1>2 DEF UndoTable, RestoreTableFails
  <2>2. UNCHANGED <<seen, call>> /\ pc = "restore"
    BY <1>2 DEF UndoTable, txmem
  <2>3. e \in Entries /\ e[1] = 0
    BY <2>2 DEF CallInv
  <2>4. e = <<0, e[2]>> /\ e[2] \in Tables
    BY <2>3, EntryShape
  <2>5. seen[<<0, t>>] = "new" /\ call.depth = 0
    BY <2>2
  <2>6. CASE t = e[2]
    <3>1. seen[e] = "new"
      BY <2>4, <2>5, <2>6
    <3>2. DropTable(e[2])
      BY <2>1, <3>1
    <3> QED
      BY <2>6, <3>2 DEF DropTable
  <2>7. CASE t # e[2]
    <3>1. <<0, t>> # e
      BY <2>4, <2>7
    <3>2. file[t] = NoFile
      BY <2>1, <2>2, <2>5, <3>1
    <3> QED
      BY <2>1, <2>7, <3>2 DEF DropTable, RestoreTable
  <2> QED
    BY <2>6, <2>7
<1>3. CASE UNCHANGED vars
  BY <1>3 DEF vars
<1> QED
  BY <1>1, <1>2, <1>3
  DEF Next, NonPlain, Recovery, Mutation, Ending, Request, disk, txmem, Return, ForgetTx,
      kdb_open, RecoverDiscard, RecoverUnmark, RecoverScan, RecoverDone, TouchSeen, TouchFull,
      TouchNew, TouchCopy, CopyDone, CopyFails, TouchDone, OpCreate, OpCascade, OpDone, OpFails,
      UnlinkBackup, ReleaseDone, CommitMarks, CommitNothing, WriteMarker, WriteMarkerFails,
      DiscardBackup, DeleteMarker, RollbackDone, RollbackToDone, Crash, StartUnlink, PlainWrite,
      kdb_close, kdb_close_tx, kdb_tx_begin, kdb_tx_commit, kdb_tx_rollback, TxMutate,
      kdb_drop_table, kdb_tx_savepoint, kdb_tx_rollback_to_savepoint, kdb_tx_release_savepoint

\* A table tracked at one depth is tracked at all the depths before it.
NestInv ==
    pc \in OpenPcs =>
        \A c, d \in Depths, t \in Tables :
            c <= d /\ d <= spCount /\ seen[<<d, t>>] # "no" => seen[<<c, t>>] # "no"

\* kdb__tx_touch tracks a table at every depth up to the current one.
LEMMA NestStep == Inv /\ TrackInv /\ NestInv /\ [Next]_vars => NestInv'
<1> SUFFICES ASSUME Inv, TrackInv, NestInv, [Next]_vars, pc' \in OpenPcs,
                    NEW c \in Depths, NEW d \in Depths, NEW t \in Tables,
                    c <= d, d <= spCount', seen'[<<d, t>>] # "no"
             PROVE  seen'[<<c, t>>] # "no"
  BY DEF NestInv
<1> USE TxAssumption DEF Inv, TypeOK, NestInv, OpenPcs
<1>0. c \in Nat /\ d \in Nat /\ <<d, t>> \in Entries /\ <<c, t>> \in Entries /\ spCount \in Nat
  BY DEF Depths, Entries
<1>1. CASE TouchNew
  BY <1>0, <1>1, CursorEntry DEF TouchNew, Cursor, TrackInv, Depths
<1>2. CASE CopyDone
  BY <1>0, <1>2, CursorEntry DEF CopyDone, Cursor, TrackInv, Depths
<1>3. CASE ReleaseDone
  BY <1>0, <1>3 DEF ReleaseDone, Truncate, CallInv, CallType
<1>4. CASE CommitMarks
  BY <1>0, <1>4 DEF CommitMarks, Truncate
<1>5. CASE StartRestore
  BY <1>0, <1>5 DEF StartRestore, Truncate, CallInv, CallType
<1>6. CASE RollbackToDone
  <2>1. spCount = call.depth /\ spCount' = spCount /\ pc = "restore"
    BY <1>6 DEF RollbackToDone, TrackInv
  <2>2. d # call.depth
    BY <1>0, <1>6 DEF RollbackToDone
  <2>3. c # call.depth
    BY <1>0, <2>1, <2>2
  <2>4. seen'[<<c, t>>] = seen[<<c, t>>] /\ seen'[<<d, t>>] = seen[<<d, t>>]
    BY <1>0, <1>6, <2>2, <2>3 DEF RollbackToDone
  <2> QED
    BY <2>1, <2>4
<1>7. ASSUME NEW n \in Names, kdb_tx_savepoint(n) PROVE seen'[<<c, t>>] # "no"
  BY <1>0, <1>7 DEF kdb_tx_savepoint
<1>8. CASE pc = "idle"
  BY <1>0, <1>8, Steps DEF RestInv, AtRest, ControlFlow
<1>9. CASE UNCHANGED <<seen, spCount>> /\ pc \in OpenPcs
  BY <1>0, <1>9
<1> QED
  BY <1>1, <1>2, <1>3, <1>4, <1>5, <1>6, <1>7, <1>8, <1>9
  DEF Next, NonPlain, Recovery, Mutation, Ending, Request, vars, disk, txmem, Return, Advance,
     Truncate, ForgetTx, WriteTable, DropTable, RestoreTable, RestoreTableFails, kdb_open,
     RecoverDiscard, RecoverUnmark, RecoverScan, RecoverDone, TouchSeen, TouchFull, TouchNew,
     TouchCopy, CopyDone, CopyFails, TouchDone, OpCreate, OpCascade, OpDone, OpFails, UnlinkBackup,
     CommitNothing, WriteMarker, WriteMarkerFails, DiscardBackup, DeleteMarker, UndoTable,
     RollbackDone, Crash, StartUnlink, PlainWrite, kdb_close, kdb_close_tx, kdb_tx_begin,
     kdb_tx_commit, kdb_tx_rollback, TxMutate, kdb_drop_table, kdb_tx_rollback_to_savepoint,
     kdb_tx_release_savepoint

\* The process does not die inside a transaction.
OpenCrashFree == CrashSites \cap OpenPcs = {}

\* What all-or-nothing rests on.  The renames that restore backups succeed
\* (kdb__tx_rollback_internal goes on without them); the writes of a foreign
\* key's action stay on tables the transaction has tracked (kdb__tx_touch is not
\* called for the others); a crash does not cut a backup short (the recovery would
\* restore what there is of it); and either the transaction creates and drops no
\* tables, or the process does not die in it (a created table has no backup for
\* the recovery to find).
RefinementAssumptions ==
    /\ RestoresWork
    /\ CascadesTracked
    /\ "copy" \notin CrashSites
    /\ TablesFixed \/ OpenCrashFree

\* The inductive invariant of the refinement.
RInv == Inv /\ NoOrphanHandle /\ TrackInv /\ BackupInv /\ FixedInv /\ UndoneInv /\ NestInv

\* Outside a transaction and its recovery, the tables are what is committed.
LEMMA RestCommitted ==
    ASSUME RInv, pc \in {"idle", "discard"}, NEW t \in Tables
    PROVE  CommittedOf(t) = file[t]
  BY TxEntry DEF RInv, Inv, BackupInv, DiscardInv, CommittedOf, Phase, Recoverable

\* The same of the next state.
LEMMA RestCommittedNext ==
    ASSUME RInv', pc' \in {"idle", "discard"}, NEW t \in Tables
    PROVE  CommittedOf(t)' = file'[t]
  BY TxEntry DEF RInv, Inv, BackupInv, DiscardInv, CommittedOf, Phase, Recoverable

\* A step that is neither a plain write nor the end of a commit changes nothing
\* that is committed: not the backup, not the write, not the rollback, not a crash.
LEMMA CommittedStep ==
    ASSUME RefinementAssumptions, RInv, RInv', [Next]_vars, NEW u \in Tables,
           ~(pc = "idle" /\ file' # file),
           ~(pc = "mark" /\ pc' = "discard"), ~(pc = "unlink" /\ pc' = "idle")
    PROVE  CommittedOf(u)' = CommittedOf(u)
<1> USE TxAssumption DEF CommittedOf, Phase, Recoverable, Cursor, RInv, Inv, TypeOK, MarkerInv, RestInv, AtRest
<1>0. <<0, u>> \in Entries
  BY TxEntry
<1>1. CASE kdb_open
  BY <1>0, <1>1, EntryShape DEF kdb_open, disk
<1>2. CASE RecoverDiscard
  BY <1>0, <1>2, EntryShape DEF RecoverDiscard, DiscardInv
<1>3. CASE RecoverUnmark
  BY <1>0, <1>3, EntryShape DEF RecoverUnmark, DiscardInv
<1>4. CASE RecoverScan
  BY <1>0, <1>4, EntryShape DEF RecoverScan, RestoreTable, RestoreTableFails, Evict, txmem,
     Entries, Depths, Files, CallType, RestoresWork, RefinementAssumptions, CallInv, DiscardInv,
     TrackInv, ScanInv, UndoneInv, CascadesTracked, OpenCrashFree
<1>5. CASE RecoverDone
  BY <1>0, <1>5, EntryShape DEF RecoverDone, disk
<1>6. CASE TouchSeen
  BY <1>0, <1>6, EntryShape DEF TouchSeen, disk, txmem
<1>7. CASE TouchFull
  BY <1>0, <1>7, EntryShape DEF TouchFull, Return, disk
<1>8. CASE TouchNew
  BY <1>0, <1>8, EntryShape DEF TouchNew, disk, BackupInv
<1>9. CASE TouchCopy
  BY <1>0, <1>9, EntryShape DEF TouchCopy, txmem, BackupInv
<1>10. CASE CopyDone
  BY <1>0, <1>10, EntryShape DEF CopyDone
<1>11. CASE CopyFails
  <2>1. Cursor \in Entries
    BY <1>11, CursorEntry DEF CopyFails
  <2>2. pc = "copy" /\ pc' = "tx" /\ UNCHANGED <<file, marker, seen>> /\ call' = NoCall
    BY <1>11 DEF CopyFails, Return
  <2>3. bak' = [bak EXCEPT ![Cursor] = NoFile] /\ seen[Cursor] = "no"
    BY <1>11 DEF CopyFails, CallInv
  <2> QED
    BY <1>0, <2>1, <2>2, <2>3
<1>12. CASE TouchDone
  BY <1>0, <1>12, EntryShape DEF TouchDone, disk, txmem
<1>13. CASE OpCreate
  BY <1>0, <1>13, EntryShape DEF OpCreate, WriteTable, txmem, Depths, TrackInv
<1>14. CASE OpCascade
  BY <1>0, <1>14, EntryShape DEF OpCascade, WriteTable, txmem, Depths, RefinementAssumptions,
     CallInv, TrackInv, CascadesTracked
<1>15. CASE OpDone
  BY <1>0, <1>15, EntryShape DEF OpDone, WriteTable, Return, Depths, TrackInv
<1>16. CASE OpFails
  BY <1>0, <1>16, EntryShape DEF OpFails, WriteTable, Return, Depths, TrackInv
<1>17. CASE UnlinkBackup
  BY <1>0, <1>17, EntryShape DEF UnlinkBackup, txmem, CallInv
<1>18. CASE ReleaseDone
  BY <1>0, <1>18, EntryShape DEF ReleaseDone, Return, disk
<1>19. CASE CommitMarks
  BY <1>0, <1>19, EntryShape DEF CommitMarks, disk
<1>20. CASE CommitNothing
  BY <1>0, <1>20, EntryShape DEF CommitNothing
<1>21. CASE WriteMarker
  BY <1>0, <1>21, EntryShape DEF WriteMarker
<1>22. CASE WriteMarkerFails
  BY <1>0, <1>22, EntryShape DEF WriteMarkerFails, disk, txmem
<1>23. CASE DiscardBackup
  BY <1>0, <1>23, EntryShape DEF DiscardBackup, DiscardInv
<1>24. CASE DeleteMarker
  BY <1>0, <1>24, EntryShape DEF DeleteMarker, BackupInv
<1>25. CASE StartRestore
  BY <1>0, <1>25, EntryShape DEF StartRestore, disk
<1>26. CASE UndoTable
  <2>1. PICK e \in todo :
            /\ \/ seen[e] = "new" /\ DropTable(e[2]) /\ UNCHANGED bak
               \/ seen[e] = "old" /\ RestoreTable(e)
            /\ todo' = todo \ {e}
    BY <1>26 DEF UndoTable, RefinementAssumptions, RestoresWork
  <2>2. pc = "restore" /\ UNCHANGED <<pc, seen, call, marker, spCount>> /\ marker = {}
    BY <1>26 DEF UndoTable, txmem
  <2>3. e \in Entries /\ e[1] = call.depth /\ e = <<e[1], e[2]>> /\ e[1] <= spCount /\ e[2] \in Tables
    BY <2>2, EntryShape DEF CallInv
  <2>4. CASE u # e[2]
    <3>1. UNCHANGED <<file[u], bak[<<0, u>>]>>
      BY <1>0, <2>1, <2>3, <2>4 DEF DropTable, RestoreTable
    <3> QED
      BY <2>2, <3>1
  <2>5. CASE u = e[2] /\ call.depth = 0
    <3>1. e = <<0, u>>
      BY <2>3, <2>5
    <3>2. seen[e] = "old" => bak[e] # NoFile
      BY <2>1, <2>2, <2>3 DEF TrackInv
    <3>3. seen[e] = "new" => CommittedOf(u)' = NoFile /\ CommittedOf(u) = NoFile
      BY <2>2, <3>1
    <3>4. CASE seen[e] = "old" /\ RestoreTable(e)
      <4>1. CommittedOf(u) = bak[e]
        BY <2>2, <3>1, <3>2, <3>4
      <4>2. file'[u] = bak[e] /\ bak'[e] = NoFile
        BY <2>3, <2>5, <3>1, <3>4 DEF RestoreTable
      <4>3. CommittedOf(u)' = file'[u]
        BY <2>2, <3>1, <3>4, <4>2
      <4> QED
        BY <4>1, <4>2, <4>3
    <3> QED
      BY <2>1, <3>3, <3>4
  <2>6. CASE u = e[2] /\ call.depth # 0
    <3>1. e # <<0, u>> /\ seen[e] # "no"
      BY <2>1, <2>3, <2>6
    <3>2. seen[<<0, u>>] # "no"
      <4>1. call.depth \in Depths /\ 0 \in Depths /\ 0 <= call.depth /\ call.depth <= spCount
        BY <2>3, TxEntry DEF Entries, Depths
      <4>2. e = <<call.depth, u>>
        BY <2>3, <2>6
      <4> QED
        BY <2>2, <3>1, <4>1, <4>2 DEF NestInv, OpenPcs
    <3>3. bak'[<<0, u>>] = bak[<<0, u>>]
      BY <1>0, <2>1, <3>1 DEF RestoreTable
    <3>4. seen[<<0, u>>] = "old" => bak[<<0, u>>] # NoFile
      BY <1>0, <2>2, <2>3, <2>6 DEF TrackInv, CallType
    <3>5. seen[<<0, u>>] \in {"new", "old"}
      BY <1>0, <3>2
    <3> QED
      BY <2>2, <3>3, <3>4, <3>5
  <2> QED
    BY <2>4, <2>5, <2>6
<1>27. CASE RollbackDone
  BY <1>0, <1>27, EntryShape DEF RollbackDone, disk, BackupInv, UndoneInv
<1>28. CASE RollbackToDone
  BY <1>0, <1>28, EntryShape DEF RollbackToDone, disk
<1>29. CASE kdb_close
  BY <1>0, <1>29, EntryShape DEF kdb_close, disk
<1>30. CASE kdb_close_tx
  BY <1>0, <1>30, EntryShape DEF kdb_close_tx, StartUnlink, disk, txmem
<1>31. CASE kdb_tx_begin
  BY <1>0, <1>31, EntryShape DEF kdb_tx_begin, disk, txmem
<1>32. CASE kdb_tx_commit
  BY <1>0, <1>32, EntryShape DEF kdb_tx_commit, StartUnlink, disk, txmem
<1>33. CASE kdb_tx_rollback
  BY <1>0, <1>33, EntryShape DEF kdb_tx_rollback, StartUnlink, disk, txmem
<1>34. CASE Crash
  <2>1. UNCHANGED <<file, bak, marker>> /\ pc' = "down" /\ pc \in CrashSites \ {"copy"}
    BY <1>34 DEF Crash, disk, RefinementAssumptions
  <2>2. CommittedOf(u)' = Recoverable(u)
    BY <2>1
  <2>3. CASE pc \in {"idle", "discard"}
    <3>1. CommittedOf(u) = file[u]
      BY <2>3, RestCommitted
    <3>2. Recoverable(u) = file[u]
      BY <1>0, <2>3 DEF BackupInv, DiscardInv
    <3> QED
      BY <2>2, <3>1, <3>2
  <2>4. CASE pc \in {"recover_marker", "recover_scan", "down"}
    BY <2>2, <2>4
  <2>5. CASE pc \in OpenPcs
    <3>1. TablesFixed
      BY <2>1, <2>5 DEF RefinementAssumptions, OpenCrashFree
    <3>2. seen[<<0, u>>] # "new"
      BY <1>0, <3>1 DEF FixedInv
    <3> QED
      BY <2>1, <2>2, <2>5, <3>2
  <2> QED
    BY <2>3, <2>4, <2>5 DEF Pcs, OpenPcs
<1>35. ASSUME NEW t \in Tables, kdb_drop_table(t) PROVE CommittedOf(u)' = CommittedOf(u)
  BY <1>0, <1>35, EntryShape DEF kdb_drop_table
<1>36. ASSUME NEW op \in Mutators, NEW t \in Tables, TxMutate(op, t) PROVE CommittedOf(u)' = CommittedOf(u)
  BY <1>0, <1>36, EntryShape DEF TxMutate, disk, txmem
<1>37. ASSUME NEW n \in Names, kdb_tx_savepoint(n) PROVE CommittedOf(u)' = CommittedOf(u)
  BY <1>0, <1>37, EntryShape DEF kdb_tx_savepoint, disk, Depths
<1>38. ASSUME NEW n \in Names, kdb_tx_rollback_to_savepoint(n) PROVE CommittedOf(u)' = CommittedOf(u)
  BY <1>0, <1>38, EntryShape DEF kdb_tx_rollback_to_savepoint, StartUnlink, disk, txmem
<1>39. ASSUME NEW n \in Names, kdb_tx_release_savepoint(n) PROVE CommittedOf(u)' = CommittedOf(u)
  BY <1>0, <1>39, EntryShape DEF kdb_tx_release_savepoint, StartUnlink, disk, txmem
<1>40. ASSUME NEW t \in Tables, NEW c \in Contents, PlainWrite(t, c) PROVE CommittedOf(u)' = CommittedOf(u)
  BY <1>0, <1>40, EntryShape DEF PlainWrite
<1>41. CASE UNCHANGED vars
  BY <1>0, <1>41, EntryShape DEF vars
<1> QED
  BY <1>1, <1>2, <1>3, <1>4, <1>5, <1>6, <1>7, <1>8, <1>9, <1>10, <1>11, <1>12, <1>13, <1>14, <1>15, <1>16, <1>17, <1>18, <1>19, <1>20, <1>21, <1>22, <1>23, <1>24, <1>25, <1>26, <1>27, <1>28, <1>29, <1>30, <1>31, <1>32, <1>33, <1>34, <1>35, <1>36, <1>37, <1>38, <1>39, <1>40, <1>41
  DEF Next, NonPlain, Recovery, Mutation, Ending, Request

\* The inductive invariant of the refinement.
LEMMA RStep == RestoresWork /\ RInv /\ [Next]_vars => RInv'
<1> SUFFICES ASSUME RestoresWork, RInv, [Next]_vars PROVE RInv'
  OBVIOUS
<1> QED
  BY InvStep, HandleStep, TrackStep, BackupStep, FixedStep, UndoneStep, NestStep DEF RInv

\* It holds of a process that has not opened the database.
LEMMA RInit == Init => RInv
<1> SUFFICES ASSUME Init PROVE RInv
  OBVIOUS
<1>1. NoOrphanHandle
  BY DEF Init, NoOrphanHandle
<1>2. FixedInv
  BY TxAssumption DEF Init, FixedInv, TablesFixed
<1>3. UndoneInv /\ NestInv
  BY DEF Init, UndoneInv, NestInv, OpenPcs
<1> QED
  BY <1>1, <1>2, <1>3, InvInit, TrackInit, BackupInit DEF RInv

-----------------------------------------------------------------------------
(* The steps of AtomicTx, and which step of the code is which.             *)

\* No committed table changes.
Same == \A t \in Tables : CommittedOf(t)' = CommittedOf(t)

\* The committed tables, as one function.
LEMMA SameCommitted == Same => Committed' = Committed
  BY DEF Same, Committed

\* Between transactions the view of AtomicTx is the files.
LEMMA RestView ==
    ASSUME RInv, pc \in {"idle", "discard"}
    PROVE  Committed = file
<1>1. file = [t \in Tables |-> file[t]]
  BY DEF RInv, Inv, TypeOK
<1> QED
  BY <1>1, RestCommitted DEF Committed

\* The same of the next state.
LEMMA RestViewNext ==
    ASSUME RInv', pc' \in {"idle", "discard"}
    PROVE  Committed' = file'
<1>1. file' = [t \in Tables |-> file'[t]]
  BY DEF RInv, Inv, TypeOK
<1> QED
  BY <1>1, RestCommittedNext DEF Committed

\* A step AtomicTx does not see.
LEMMA SilentStep ==
    ASSUME Same, Phase' = Phase, Phase = "tx" => file' = file
    PROVE  UNCHANGED Atomic!vars
  BY SameCommitted DEF Atomic!vars, View

\* The end of the recovery is AtomicTx's Open.
LEMMA OpenStep ==
    ASSUME Same, Phase = "closed", Phase' = "idle"
    PROVE  Atomic!Next
  BY SameCommitted DEF Atomic!Next, Atomic!Open, View

\* A close or a crash between transactions is AtomicTx's Close.
LEMMA CloseStep ==
    ASSUME Same, Phase = "idle", Phase' = "closed"
    PROVE  Atomic!Next
  BY SameCommitted DEF Atomic!Next, Atomic!Close, View

\* A write outside a transaction is AtomicTx's Write.
LEMMA WriteStep ==
    ASSUME RInv, RInv', pc = "idle", pc' = "idle", Stores
    PROVE  Atomic!Next
<1>1. PICK t \in Tables, v \in Files : file' = [file EXCEPT ![t] = v]
  BY DEF Stores
<1>2. Committed = file /\ Committed' = file' /\ View = file /\ View' = file'
  BY RestView, RestViewNext DEF View, Phase
<1>3. Phase = "idle" /\ Phase' = "idle"
  BY DEF Phase
<1>4. Atomic!Write(t, v)
  BY <1>1, <1>2, <1>3 DEF Atomic!Write
<1> QED
  BY <1>4 DEF Atomic!Next

\* kdb_tx_begin is AtomicTx's Begin.
LEMMA BeginStep ==
    ASSUME RInv, Same, pc = "idle", Phase' = "tx", file' = file
    PROVE  Atomic!Next
<1>1. Committed = file /\ View = file /\ Phase = "idle"
  BY RestView DEF View, Phase
<1>2. Committed' = Committed /\ View' = View
  BY <1>1, SameCommitted DEF View
<1> QED
  BY <1>1, <1>2 DEF Atomic!Next, Atomic!Begin

\* A write or a partial undo inside a transaction is AtomicTx's TxWrite.
LEMMA TxWriteStep ==
    ASSUME Same, Phase = "tx", Phase' = "tx", Stores
    PROVE  Atomic!Next
<1>1. PICK t \in Tables, v \in Files : file' = [file EXCEPT ![t] = v]
  BY DEF Stores
<1>2. View = file /\ View' = file'
  BY DEF View
<1>3. Atomic!TxWrite(t, v)
  BY <1>1, <1>2, SameCommitted DEF Atomic!TxWrite
<1> QED
  BY <1>3 DEF Atomic!Next

\* The commit marker, or the last backup of a commit without one, is AtomicTx's Commit.
LEMMA CommitStep ==
    ASSUME RInv', Phase = "tx", pc' \in {"idle", "discard"}, file' = file
    PROVE  Atomic!Next
<1>1. View = file /\ Phase' = "idle"
  BY DEF View, Phase
<1>2. Committed' = file' /\ View' = file'
  BY <1>1, RestViewNext DEF View
<1> QED
  BY <1>1, <1>2 DEF Atomic!Next, Atomic!Commit

\* The end of a rollback, and a crash in a transaction, is AtomicTx's Abort.
LEMMA AbortStep ==
    ASSUME Same, Phase = "tx", pc' \in {"idle", "down"}
    PROVE  Atomic!Next
<1>1. Phase' \in {"idle", "closed"}
  BY DEF Phase
<1>2. View' = Committed'
  BY <1>1 DEF View
<1> QED
  BY <1>1, <1>2, SameCommitted DEF Atomic!Next, Atomic!Abort

\* The steps that show a write or a commit; the others change no table a caller sees.
LEMMA Simulation ==
    ASSUME RefinementAssumptions, RInv, RInv', [Next]_vars
    PROVE  [Atomic!Next]_(Atomic!vars)
<1>0. ControlFlow
  BY Steps
<1>1. CASE pc = "idle" /\ file' # file
  <2>1. pc' = "idle" /\ Stores
    BY <1>0, <1>1 DEF ControlFlow
  <2> QED
    BY <1>1, <2>1, WriteStep
<1>2. CASE (pc = "mark" /\ pc' = "discard") \/ (pc = "unlink" /\ pc' = "idle")
  <2>1. file' = file
    BY <1>0, <1>2 DEF ControlFlow
  <2> QED
    BY <1>2, <2>1, CommitStep DEF Phase
<1>3. CASE ~(pc = "idle" /\ file' # file) /\ ~(pc = "mark" /\ pc' = "discard") /\ ~(pc = "unlink" /\ pc' = "idle")
  <2>1. Same
    BY <1>3, CommittedStep DEF Same
  <2>2. CASE Phase = "closed"
    <3>1. Phase' \in {"closed", "idle"}
      BY <1>0, <2>2 DEF Phase, ControlFlow, ClosedPcs
    <3> QED
      BY <2>1, <2>2, <3>1, SilentStep, OpenStep
  <2>3. CASE pc = "discard"
    <3>1. Phase = "idle" /\ Phase' \in {"idle", "closed"}
      BY <1>0, <2>3 DEF Phase, ControlFlow
    <3> QED
      BY <2>1, <3>1, SilentStep, CloseStep
  <2>4. CASE pc = "idle"
    <3>1. pc' \in {"idle", "down", "tx"} /\ file' = file
      BY <1>0, <1>3, <2>4 DEF ControlFlow
    <3>2. Phase = "idle" /\ Phase' \in {"idle", "closed", "tx"}
      BY <2>4, <3>1 DEF Phase
    <3> QED
      BY <2>1, <2>4, <3>1, <3>2, SilentStep, CloseStep, BeginStep
  <2>5. CASE Phase = "tx"
    <3>1. CASE pc' \in {"idle", "down"}
      BY <2>1, <2>5, <3>1, AbortStep
    <3>2. CASE pc' \notin {"idle", "down"}
      <4>1. Phase' = "tx"
        BY <1>0, <1>3, <2>5, <3>2 DEF Phase, OpenPcs, ControlFlow, RInv, Inv, TypeOK, Pcs
      <4>2. file' = file \/ Stores
        BY <2>5, StoreStep DEF Phase, RInv, Inv, TypeOK, Pcs, OpenPcs
      <4> QED
        BY <2>1, <2>5, <4>1, <4>2, SilentStep, TxWriteStep
    <3> QED
      BY <3>1, <3>2
  <2> QED
    BY <2>2, <2>3, <2>4, <2>5 DEF Phase
<1> QED
  BY <1>1, <1>2, <1>3

\* The initial states map to initial states.
LEMMA AtomicInit ==
    ASSUME RInv, Init
    PROVE  Atomic!Init
<1>1. Phase = "closed"
  BY DEF Init, Phase
<1>2. Committed \in [Tables -> Files]
  BY <1>1, TxEntry DEF RInv, Inv, TypeOK, Init, Committed, CommittedOf, Recoverable
<1> QED
  BY <1>1, <1>2 DEF Atomic!Init, View

\* Transactions are all-or-nothing: whatever the tables, the writes, the faults of
\* a backup or of the marker, the point of a commit, a rollback or a recovery
\* where the process dies and the number of crashes, the code implements AtomicTx.
THEOREM Refinement ==
    ASSUME RefinementAssumptions
    PROVE  Spec => AllOrNothing
<1>1. RefinementAssumptions
  OBVIOUS
<1>2. Init => RInv /\ Atomic!Init
  BY RInit, AtomicInit
<1>3. RInv /\ [Next]_vars => RInv'
  BY <1>1, RStep DEF RefinementAssumptions
<1>4. RInv /\ RInv' /\ [Next]_vars => [Atomic!Next]_(Atomic!vars)
  BY <1>1, Simulation
<1> QED
  BY <1>2, <1>3, <1>4, PTL DEF Spec, AllOrNothing, Atomic!Spec

---------------------------------------------------------------------------
\* The promises of KdbTxHistory.

\* The history variable adds no step.
LEMMA HistoryStep == [HNext]_hvars => [Next]_vars
  BY DEF HNext, hvars, Next

\* A rollback that restores every backup gives nothing up.
LEMMA NothingGivenUp ==
    ASSUME RestoresWork, RInv, [Next]_vars, NEW t \in Tables
    PROVE  ~GivesUp(t)
<1> SUFFICES ASSUME GivesUp(t) PROVE FALSE
  OBVIOUS
<1> USE DEF RInv, Inv, TypeOK
<1>1. pc = "restore" /\ pc' = "restore" /\ call.depth = 0 /\ <<0, t>> \in todo \ todo' /\ bak'[<<0, t>>] # NoFile
  BY DEF GivesUp
<1>2. UndoTable
  BY <1>1, Steps DEF ControlFlow
<1>3. PICK e \in todo :
          /\ \/ seen[e] = "new" /\ UNCHANGED bak
             \/ seen[e] = "old" /\ RestoreTable(e)
          /\ todo' = todo \ {e}
  BY <1>2 DEF UndoTable, RestoresWork
<1>4. e = <<0, t>> /\ e \in Entries
  BY <1>1, <1>3
<1> QED
  BY <1>1, <1>3, <1>4 DEF RestoreTable, BackupInv

\* A table the transaction does not track shows what is committed.
LEMMA UntrackedCommitted ==
    ASSUME RInv, pc \in {"mark", "unlink"}, NEW t \in Tables, seen[<<0, t>>] = "no"
    PROVE  CommittedOf(t) = file[t]
  BY TxEntry DEF RInv, BackupInv, CommittedOf, Phase, Recoverable

\* What was promised stays what is committed.
LEMMA PromiseStep ==
    ASSUME RefinementAssumptions, RInv, RInv', promised = Committed, [HNext]_hvars
    PROVE  promised' = Committed'
<1>1. [Next]_vars
  BY HistoryStep
<1>2. CASE UNCHANGED hvars
  <2>1. UNCHANGED <<promised, pc, file>>
    BY <1>2 DEF hvars, vars
  <2>2. Same
    BY <1>1, <2>1, CommittedStep DEF Same
  <2> QED
    BY <2>1, <2>2, SameCommitted
<1>3. ASSUME NEW t \in Tables, NEW c \in Contents, PlainWrite(t, c),
             promised' = [promised EXCEPT ![t] = c]
      PROVE  promised' = Committed'
  <2>1. pc = "idle" /\ pc' = "idle" /\ file' = [file EXCEPT ![t] = c]
    BY <1>3 DEF PlainWrite, WriteTable, RInv, NoOrphanHandle
  <2> QED
    BY <1>3, <2>1, RestView, RestViewNext
<1>4. ASSUME NonPlain, promised' = [t \in Tables |-> Promise(t)]
      PROVE  promised' = Committed'
  <2> SUFFICES ASSUME NEW t \in Tables PROVE Promise(t) = CommittedOf(t)'
    BY <1>4 DEF Committed
  <2>1. ~GivesUp(t)
    BY <1>1, NothingGivenUp DEF RefinementAssumptions
  <2>2. promised[t] = CommittedOf(t)
    BY DEF Committed
  <2>3. CASE pc = "idle" /\ file' # file
    <3>1. pc' = "idle" /\ ~Publishes
      BY <1>1, <2>3, Steps DEF Publishes, ControlFlow
    <3> QED
      BY <2>1, <2>2, <2>3, <3>1, RestCommitted, RestCommittedNext DEF Promise
  <2>4. CASE Publishes
    <3>1. file' = file /\ pc # "idle" /\ pc' \in {"idle", "discard"} /\ pc \in {"mark", "unlink"}
      BY <1>1, <2>4, Steps DEF Publishes, ControlFlow
    <3>2. CommittedOf(t)' = file'[t]
      BY <3>1, RestCommittedNext
    <3> QED
      BY <2>1, <2>2, <2>4, <3>1, <3>2, UntrackedCommitted DEF Promise
  <2>5. CASE ~(pc = "idle" /\ file' # file) /\ ~Publishes
    <3>1. CommittedOf(t)' = CommittedOf(t)
      BY <1>1, <2>5, CommittedStep DEF Publishes
    <3> QED
      BY <2>1, <2>2, <2>5, <3>1 DEF Promise
  <2> QED
    BY <2>3, <2>4, <2>5
<1> QED
  BY <1>2, <1>3, <1>4 DEF HNext

\* Between transactions the tables are what the calls that returned promised: no
\* rollback and no crash loses a committed write or shows an undone one.
THEOREM PromisesKept ==
    ASSUME RefinementAssumptions
    PROVE  HSpec => []AtRestAsPromised
<1>1. RefinementAssumptions /\ RestoresWork
  BY DEF RefinementAssumptions
<1>2. HInit => RInv /\ promised = Committed
  <2> SUFFICES ASSUME HInit PROVE RInv /\ promised = Committed
    OBVIOUS
  <2>1. RInv /\ promised = file
    BY RInit DEF HInit
  <2>2. \A t \in Tables : CommittedOf(t) = file[t]
    BY TxEntry DEF HInit, Init, CommittedOf, Phase, Recoverable
  <2>3. file = [t \in Tables |-> file[t]]
    BY <2>1 DEF RInv, Inv, TypeOK
  <2> QED
    BY <2>1, <2>2, <2>3 DEF Committed
<1>3. RInv /\ [HNext]_hvars => RInv'
  BY <1>1, HistoryStep, RStep
<1>4. RInv /\ RInv' /\ promised = Committed /\ [HNext]_hvars => (promised = Committed)'
  BY <1>1, PromiseStep
<1>5. RInv /\ promised = Committed => AtRestAsPromised
  BY RestView DEF AtRestAsPromised
<1> QED
  BY <1>2, <1>3, <1>4, <1>5, PTL DEF HSpec

-----------------------------------------------------------------------------
(* Savepoints.                                                             *)

\* Undoing the savepoint at an active depth gives what the tables were when it
\* was created: at every point of a call, but for the backups it is unlinking and
\* the tables it has already restored.
SnapInv ==
    pc \in OpenPcs =>
        \A d \in 1 .. spCount, t \in Tables :
            IF pc = "restore" /\ d = call.depth /\ <<d, t>> \notin todo
            THEN file[t] = spSnap[d][t]
            ELSE UndoneTo(d, t) = spSnap[d][t] \/ (pc = "unlink" /\ d > KeptDepth)

\* Every step of the code keeps each active savepoint's way back.
LEMMA SnapStep ==
    ASSUME CascadesTracked, "restore" \notin IoFaults, Inv, TrackInv, NestInv, SnapInv, [HNext]_hvars
    PROVE  SnapInv'
<1> SUFFICES ASSUME pc' \in OpenPcs, NEW d \in 1 .. spCount', NEW u \in Tables,
                    ~(pc' = "unlink" /\ d > KeptDepth')
             PROVE  IF pc' = "restore" /\ d = call'.depth /\ <<d, u>> \notin todo'
                    THEN file'[u] = spSnap'[d][u]
                    ELSE UndoneTo(d, u)' = spSnap'[d][u]
  BY DEF SnapInv
<1> USE TxAssumption DEF Inv, TypeOK, OpenPcs
<1> DEFINE Goal == IF pc' = "restore" /\ d = call'.depth /\ <<d, u>> \notin todo'
                   THEN file'[u] = spSnap'[d][u]
                   ELSE UndoneTo(d, u)' = spSnap'[d][u]
<1>0. /\ d \in Nat /\ 0 < d /\ d <= spCount' /\ d \in Depths /\ <<d, u>> \in Entries
      /\ spCount \in Nat /\ spCount' \in Nat
  <2>1. spCount' \in Depths
    BY HistoryStep, TypeStep DEF Inv, TypeOK
  <2> QED
    BY <2>1 DEF Depths, Entries
<1>1. /\ d <= spCount => spSnap'[d] = spSnap[d]
      /\ d > spCount => spSnap'[d] = file
  <2>1. CASE UNCHANGED hvars
    BY <1>0, <2>1 DEF hvars, vars
  <2>2. CASE HNext
    <3>1. spSnap'[d] = Snapshot(d)
      BY <1>0, <2>2 DEF HNext
    <3> QED
      BY <1>0, <3>1 DEF Snapshot
  <2> QED
    BY <2>1, <2>2
<1>2. [Next]_vars
  BY HistoryStep
<1>3. ASSUME UNCHANGED <<file, bak, seen>>, d <= spCount, pc \in OpenPcs \ {"restore"},
             pc = "unlink" => d <= KeptDepth,
             pc' = "restore" => todo' = {call'.depth} \X TablesSeen(call'.depth)
      PROVE  Goal
  <2>1. UndoneTo(d, u)' = UndoneTo(d, u) /\ UndoneTo(d, u) = spSnap'[d][u]
    BY <1>0, <1>1, <1>3 DEF SnapInv, UndoneTo, KeptDepth, CallType
  <2>2. ASSUME pc' = "restore", d = call'.depth, <<d, u>> \notin todo' PROVE UndoneTo(d, u) = file[u]
    BY <1>3, <2>2 DEF UndoneTo, TablesSeen
  <2> QED
    BY <1>3, <2>1, <2>2
<1>4. ASSUME UNCHANGED <<pc, spCount, todo, call, file, bak, seen>> PROVE Goal
  BY <1>0, <1>1, <1>4 DEF SnapInv, UndoneTo, KeptDepth
<1>5. CASE TouchNew
  BY <1>0, <1>1, <1>5, CursorEntry DEF TouchNew, Cursor, CallInv, Advance, SnapInv, UndoneTo, disk
<1>6. CASE TouchCopy
  BY <1>0, <1>1, <1>6, CursorEntry DEF TouchCopy, Cursor, CallInv, SnapInv, UndoneTo, txmem
<1>7. CASE CopyDone
  BY <1>0, <1>1, <1>7, CursorEntry DEF CopyDone, Cursor, CallInv, Advance, SnapInv, UndoneTo
<1>8. CASE CopyFails
  BY <1>0, <1>1, <1>8, CursorEntry DEF CopyFails, Cursor, CallInv, SnapInv, UndoneTo, Return
<1>9. ASSUME pc = "op", UNCHANGED <<bak, seen, spCount>>, pc' \in {"op", "tx"},
             \A t \in Tables : t # call.tbl => file'[t] = file[t]
      PROVE  Goal
  BY <1>0, <1>1, <1>9 DEF TrackInv, SnapInv, UndoneTo
<1>10. CASE OpCreate
  BY <1>9, <1>10 DEF OpCreate, WriteTable, CallInv, txmem
<1>11. CASE OpCascade
  <2>1. PICK e \in todo : \/ \E c \in Contents : WriteTable(e[2], c)
                          \/ UNCHANGED file
    BY <1>11 DEF OpCascade
  <2>2. pc = "op" /\ UNCHANGED <<bak, pc, call, seen, spCount>>
    BY <1>11 DEF OpCascade, txmem
  <2>3. e[2] = call.tbl
    BY <2>2, EntryShape DEF TrackInv, CallInv, CascadesTracked
  <2> QED
    BY <1>9, <2>1, <2>2, <2>3 DEF WriteTable
<1>12. CASE OpDone
  BY <1>9, <1>12 DEF OpDone, WriteTable, CallInv, Return
<1>13. CASE OpFails
  BY <1>9, <1>13 DEF OpFails, WriteTable, CallInv, Return
<1>14. ASSUME NEW n \in Names, kdb_tx_savepoint(n) PROVE Goal
  BY <1>0, <1>1, <1>14 DEF kdb_tx_savepoint, SnapInv, UndoneTo, disk
<1>15. CASE UnlinkBackup
  <2>1. PICK e \in todo : bak' = [bak EXCEPT ![e] = NoFile]
    BY <1>15 DEF UnlinkBackup
  <2>2. pc = "unlink" /\ UNCHANGED <<file, pc, call, seen, spCount>> /\ KeptDepth' = KeptDepth
    BY <1>15 DEF UnlinkBackup, txmem, KeptDepth
  <2>3. d <= KeptDepth /\ e # <<d, u>>
    BY <1>0, <2>2 DEF TrackInv, CallType, KeptDepth
  <2> QED
    BY <1>0, <1>1, <2>1, <2>2, <2>3 DEF SnapInv, UndoneTo, CallType, KeptDepth
<1>16. CASE UndoTable
  <2>1. PICK e \in todo :
            /\ \/ seen[e] = "new" /\ DropTable(e[2]) /\ UNCHANGED bak
               \/ seen[e] = "old" /\ RestoreTable(e)
            /\ todo' = todo \ {e}
    BY <1>16 DEF UndoTable, RestoreTableFails
  <2>2. pc = "restore" /\ UNCHANGED <<pc, seen, call, spCount>> /\ spCount = call.depth
    BY <1>16 DEF UndoTable, txmem, TrackInv
  <2>3. e \in Entries /\ e = <<call.depth, e[2]>> /\ e[2] \in Tables
    BY <2>2, EntryShape DEF CallInv
  <2>4. CASE u # e[2]
    <3>1. UNCHANGED <<file[u], bak[<<d, u>>]>> /\ (<<d, u>> \in todo' <=> <<d, u>> \in todo)
      BY <1>0, <2>1, <2>3, <2>4 DEF DropTable, RestoreTable
    <3> QED
      BY <1>0, <1>1, <2>2, <3>1 DEF SnapInv, UndoneTo
  <2>5. CASE u = e[2] /\ d = call.depth
    <3>1. e = <<d, u>> /\ <<d, u>> \notin todo'
      BY <2>1, <2>3, <2>5
    <3>2. file'[u] = UndoneTo(d, u)
      BY <2>1, <2>3, <2>5, <3>1 DEF DropTable, RestoreTable, UndoneTo
    <3>3. UndoneTo(d, u) = spSnap[d][u]
      BY <1>0, <2>1, <2>2, <3>1 DEF SnapInv
    <3> QED
      BY <1>0, <1>1, <2>2, <2>5, <3>1, <3>2, <3>3
  <2>6. CASE u = e[2] /\ d # call.depth
    <3>1. e # <<d, u>> /\ seen[e] # "no" /\ d <= call.depth /\ call.depth \in Depths
      BY <1>0, <2>1, <2>2, <2>3, <2>6 DEF Entries
    <3>2. seen[<<d, u>>] # "no"
      BY <1>0, <2>2, <2>3, <2>6, <3>1 DEF NestInv
    <3>3. bak'[<<d, u>>] = bak[<<d, u>>]
      BY <1>0, <2>1, <3>1 DEF RestoreTable
    <3>4. UndoneTo(d, u)' = UndoneTo(d, u)
      BY <1>0, <2>2, <3>2, <3>3 DEF UndoneTo
    <3>5. UndoneTo(d, u) = spSnap[d][u]
      BY <1>0, <2>2, <2>6 DEF SnapInv
    <3> QED
      BY <1>0, <1>1, <2>2, <2>6, <3>4, <3>5
  <2> QED
    BY <2>4, <2>5, <2>6
<1>17. CASE RollbackToDone
  <2>1. UNCHANGED <<file, bak, spCount>> /\ pc = "restore" /\ todo = {} /\ spCount = call.depth
    BY <1>17 DEF RollbackToDone, disk, TrackInv
  <2>2. seen'[<<d, u>>] = IF d = call.depth THEN "no" ELSE seen[<<d, u>>]
    BY <1>0, <1>17 DEF RollbackToDone
  <2>3. IF d = call.depth THEN file[u] = spSnap[d][u] ELSE UndoneTo(d, u) = spSnap[d][u]
    BY <1>0, <2>1 DEF SnapInv
  <2>4. pc' = "tx"
    BY <1>17 DEF RollbackToDone
  <2> QED
    BY <1>0, <1>1, <2>1, <2>2, <2>3, <2>4 DEF UndoneTo
<1>18. CASE ReleaseDone
  <2>1. pc = "unlink" /\ UNCHANGED <<file, bak, seen>> /\ d <= call.depth - 1 /\ d <= spCount /\ d <= KeptDepth
    BY <1>0, <1>18 DEF ReleaseDone, Truncate, Return, disk, CallInv, CallType, KeptDepth
  <2>2. pc' = "tx"
    BY <1>18 DEF ReleaseDone, Return
  <2> QED
    BY <1>3, <2>1, <2>2
<1>19. CASE StartRestore
  <2>1. pc = "unlink" /\ UNCHANGED <<file, bak, seen>> /\ d <= spCount /\ d <= KeptDepth
    BY <1>0, <1>19 DEF StartRestore, Truncate, disk, CallInv, CallType, KeptDepth
  <2>2. todo' = {call'.depth} \X TablesSeen(call'.depth)
    BY <1>19 DEF StartRestore
  <2> QED
    BY <1>3, <2>1, <2>2
<1>20. CASE pc \in {"idle", "mark"}
  <2>1. spCount' = 0
    BY <1>2, <1>20, Steps DEF RestInv, AtRest, TrackInv, ControlFlow, OpenPcs
  <2> QED
    BY <1>0, <2>1
<1>21. CASE pc = "tx" /\ pc' # "restore" /\ UNCHANGED <<file, bak, seen, spCount>>
  BY <1>0, <1>3, <1>21
<1>22. CASE TouchSeen \/ TouchFull \/ TouchDone
  BY <1>0, <1>3, <1>22 DEF TouchSeen, TouchFull, TouchDone, disk, txmem, Return
<1>23. CASE CommitMarks
  BY <1>0, <1>23 DEF CommitMarks, Truncate
<1> QED
  BY <1>2, <1>4, <1>5, <1>6, <1>7, <1>8, <1>10, <1>11, <1>12, <1>13, <1>14, <1>15, <1>16, <1>17,
     <1>18, <1>19, <1>20, <1>21, <1>22, <1>23
  DEF Next, NonPlain, Recovery, Mutation, Ending, Request, vars, disk, txmem, ForgetTx, kdb_open, RecoverDiscard, RecoverUnmark,
      RecoverScan, RecoverDone, CommitNothing, WriteMarker, WriteMarkerFails, DiscardBackup,
      DeleteMarker, RollbackDone, Crash, StartUnlink, PlainWrite, kdb_close, kdb_close_tx,
      kdb_tx_begin, kdb_tx_commit, kdb_tx_rollback, TxMutate, kdb_drop_table,
      kdb_tx_rollback_to_savepoint, kdb_tx_release_savepoint

\* Undoing to a savepoint gives back the tables as they were when it was created,
\* for any number of nested savepoints, whatever was released, created, dropped or
\* rolled back in between and wherever a backup fails.
THEOREM SavepointsExact ==
    ASSUME CascadesTracked, "restore" \notin IoFaults
    PROVE  HSpec => []SavepointExact
<1> DEFINE SInv == Inv /\ TrackInv /\ NestInv /\ SnapInv
<1>1. HInit => SInv
  <2> SUFFICES ASSUME HInit PROVE SInv
    OBVIOUS
  <2>1. NestInv /\ SnapInv
    BY DEF HInit, Init, NestInv, SnapInv, OpenPcs
  <2> QED
    BY <2>1, InvInit, TrackInit DEF HInit
<1>2. SInv /\ [HNext]_hvars => SInv'
  BY HistoryStep, InvStep, TrackStep, NestStep, SnapStep
<1>3. SInv => SavepointExact
  BY DEF SnapInv, SavepointExact, OpenPcs
<1> QED
  BY <1>1, <1>2, <1>3, PTL DEF HSpec
=============================================================================
