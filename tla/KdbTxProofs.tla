---------------------------- MODULE KdbTxProofs ----------------------------
(***************************************************************************)
(* Proofs about KdbTx, for every set of tables and contents, every number  *)
(* of savepoints, every crash site, every I/O fault and every foreign-key  *)
(* graph.  Inv is the inductive invariant: TypeOK and what each control    *)
(* point may rely on.                                                      *)
(***************************************************************************)
EXTENDS KdbTx, TLAPS

AtRest == {"down", "recover_marker", "recover_scan", "idle"}

\* The marker exists only from WriteMarker to the end of the cleanup, be it
\* done by the commit itself or by the recovery after a crash.
MarkerInv == pc \notin {"down", "recover_marker", "discard"} => marker = {}

\* No transaction is remembered when none is running.
RestInv == pc \in AtRest => spCount = 0 /\ failed = FALSE /\ \A e \in Entries : seen[e] = "no"

\* A tracked table keeps its backup until the commit or the rollback uses it.
BackedInv ==
    pc \in {"tx", "touch", "copy", "op", "unlink", "mark", "restore"} =>
        \A t \in Tables :
            seen[<<0, t>>] = "old" =>
                bak[<<0, t>>] # NoFile \/ (pc = "restore" /\ call.depth = 0 /\ <<0, t>> \notin todo)

\* While backups are discarded, the marker names every tracked table, and a
\* backup the marker names is either gone or still to be visited.
DiscardInv ==
    /\ pc \in {"discard", "recover_marker"} =>
        /\ todo \subseteq {0} \X marker
        /\ \A t \in marker : bak[<<0, t>>] = NoFile \/ <<0, t>> \in todo
    /\ pc = "discard" => \A t \in Tables : seen[<<0, t>>] = "old" => t \in marker

\* The scan only visits backups that exist.
ScanInv == pc = "recover_scan" => \A e \in todo : bak[e] # NoFile

\* The arguments of the running call.
CallInv ==
    /\ pc \in {"touch", "copy", "op"} => call.tbl \in Tables
    /\ pc = "copy" => call.depth <= spCount /\ seen[Cursor] = "no" /\ file[call.tbl] # NoFile
    /\ pc \in {"unlink", "restore"} => call.depth <= spCount
    /\ pc = "unlink" =>
        /\ \A e \in todo : e[1] > 0
        /\ call.op = "release" => call.depth > 0
    /\ pc = "restore" => \A e \in todo : e[1] = call.depth

Inv ==
    /\ TypeOK
    /\ MarkerInv
    /\ RestInv
    /\ BackedInv
    /\ DiscardInv
    /\ ScanInv
    /\ CallInv

-----------------------------------------------------------------------------
(* Type correctness.                                                       *)


LEMMA NoCallType == NoCall \in CallType
BY TxAssumption DEF NoCall, CallType

LEMMA AdvanceType ==
    ASSUME TypeOK, call.depth <= spCount, Advance
    PROVE  call' \in CallType
BY TxAssumption DEF TypeOK, Advance, CallType, Depths

LEMMA ForgetType ==
    ASSUME ForgetTx
    PROVE  /\ call' \in CallType
           /\ todo' \subseteq Entries
           /\ seen' \in [Entries -> {"no", "new", "old"}]
           /\ spName' \in [Depths -> Names \cup {NoFile}]
           /\ spCount' \in Depths
           /\ failed' \in BOOLEAN
<1>1. call' \in CallType /\ todo' \subseteq Entries
  BY NoCallType DEF ForgetTx
<1>2. seen' \in [Entries -> {"no", "new", "old"}]
  BY DEF ForgetTx
<1>3. spName' \in [Depths -> Names \cup {NoFile}]
  BY DEF ForgetTx
<1>4. spCount' \in Depths
  BY TxAssumption DEF ForgetTx, Depths
<1>5. failed' \in BOOLEAN
  BY DEF ForgetTx
<1> QED
  BY <1>1, <1>2, <1>3, <1>4, <1>5

LEMMA TxEntry == \A t \in Tables : <<0, t>> \in Entries
BY TxAssumption DEF Entries, Depths

LEMMA TypeStep == Inv /\ [Next]_vars => TypeOK'
<1> SUFFICES ASSUME Inv, [Next]_vars PROVE TypeOK'
  OBVIOUS
<1> USE TxAssumption DEF Inv
<1>1. CASE kdb_open
  BY <1>1 DEF kdb_open, BackupsOnDisk, disk, txmem, TypeOK, Entries, Depths, Pcs
<1>2. CASE RecoverDiscard
  BY <1>2 DEF RecoverDiscard, txmem, TypeOK, Files
<1>3. CASE RecoverUnmark
  BY <1>3 DEF RecoverUnmark, BackupsOnDisk, txmem, TypeOK, Pcs
<1>4. CASE RecoverScan
  <2>1. file' \in [Tables -> Files]
    BY <1>4 DEF RecoverScan, RestoreTable, RestoreTableFails, TypeOK
  <2>2. bak' \in [Entries -> Files]
    BY <1>4 DEF RecoverScan, RestoreTable, RestoreTableFails, TypeOK, Files
  <2>3. handle' \in [Tables -> {"none", "open", "orphan"}]
    BY <1>4 DEF RecoverScan, RestoreTable, RestoreTableFails, Evict, Detach, TypeOK
  <2>4. todo' \subseteq Entries
    BY <1>4 DEF RecoverScan, TypeOK
  <2> QED
    BY <1>4, <2>1, <2>2, <2>3, <2>4 DEF RecoverScan, txmem, TypeOK
<1>5. CASE RecoverDone
  BY <1>5 DEF RecoverDone, disk, txmem, TypeOK, Pcs
<1>6. CASE TouchSeen
  <2>1. call.depth <= spCount /\ Advance
    BY <1>6 DEF TouchSeen
  <2>2. call' \in CallType
    BY <2>1, AdvanceType
  <2> QED
    BY <1>6, <2>2 DEF TouchSeen, disk, txmem, TypeOK
<1>7. CASE TouchFull
  BY <1>7 DEF TouchFull, Return, NoCall, disk, TypeOK, Pcs, CallType
<1>8. CASE TouchNew
  <2>1. seen' \in [Entries -> {"no", "new", "old"}]
    BY <1>8 DEF TouchNew, TypeOK
  <2>2. call.depth <= spCount /\ Advance
    BY <1>8 DEF TouchNew
  <2>3. call' \in CallType
    BY <2>2, AdvanceType
  <2> QED
    BY <1>8, <2>1, <2>3 DEF TouchNew, disk, TypeOK
<1>9. CASE TouchCopy
  BY <1>9 DEF TouchCopy, txmem, TypeOK, Files, Pcs
<1>10. CASE CopyDone
  <2>1. bak' \in [Entries -> Files]
    BY <1>10 DEF CopyDone, TypeOK, CallInv
  <2>2. seen' \in [Entries -> {"no", "new", "old"}]
    BY <1>10 DEF CopyDone, TypeOK
  <2>3. call.depth <= spCount /\ Advance
    BY <1>10 DEF CopyDone, CallInv
  <2>4. call' \in CallType
    BY <2>3, AdvanceType
  <2> QED
    BY <1>10, <2>1, <2>2, <2>4 DEF CopyDone, TypeOK, Pcs
<1>11. CASE CopyFails
  BY <1>11 DEF CopyFails, Return, NoCall, Cursor, TypeOK, Entries, Depths, Files, Pcs, CallType,
     CallInv
<1>12. CASE TouchDone
  BY <1>12 DEF TouchDone, disk, txmem, TypeOK, Entries, Depths, Pcs, CallInv
<1>13. CASE OpCreate
  BY <1>13 DEF OpCreate, WriteTable, txmem, TypeOK, Files
<1>14. CASE OpCascade
  <2>1. file' \in [Tables -> Files]
    BY <1>14 DEF OpCascade, WriteTable, TypeOK, Files
  <2>2. handle' \in [Tables -> {"none", "open", "orphan"}]
    BY <1>14 DEF OpCascade, WriteTable, TypeOK
  <2>3. todo' \subseteq Entries
    BY <1>14 DEF OpCascade, TypeOK
  <2> QED
    BY <1>14, <2>1, <2>2, <2>3 DEF OpCascade, txmem, TypeOK
<1>15. CASE OpDone
  BY <1>15 DEF OpDone, WriteTable, Return, NoCall, TypeOK, Files, Pcs, CallType, CallInv
<1>16. CASE OpFails
  <2>1. file' \in [Tables -> Files]
    BY <1>16 DEF OpFails, WriteTable, TypeOK, Files
  <2>2. handle' \in [Tables -> {"none", "open", "orphan"}]
    BY <1>16 DEF OpFails, WriteTable, TypeOK
  <2>3. failed' \in BOOLEAN
    BY <1>16 DEF OpFails, Return
  <2> QED
    BY <1>16, <2>1, <2>2, <2>3 DEF OpFails, Return, NoCall, CallType, TypeOK, Pcs
<1>17. CASE UnlinkBackup
  BY <1>17 DEF UnlinkBackup, txmem, TypeOK, Files
<1>18. CASE ReleaseDone
  BY <1>18 DEF ReleaseDone, Truncate, Return, NoCall, disk, TypeOK, Depths, Pcs, CallType, CallInv
<1>19. CASE CommitMarks
  BY <1>19 DEF CommitMarks, Truncate, disk, TypeOK, Depths, Pcs
<1>20. CASE CommitNothing
  BY <1>20, ForgetType DEF CommitNothing, disk, TypeOK, Pcs
<1>21. CASE WriteMarker
  BY <1>21 DEF WriteMarker, BackedUp, txmem, TypeOK, Entries, Depths, Pcs
<1>22. CASE WriteMarkerFails
  BY <1>22 DEF WriteMarkerFails, disk, txmem, TypeOK, Pcs
<1>23. CASE DiscardBackup
  BY <1>23 DEF DiscardBackup, txmem, TypeOK, Files
<1>24. CASE DeleteMarker
  BY <1>24, ForgetType DEF DeleteMarker, TypeOK, Pcs
<1>25. CASE StartRestore
  BY <1>25 DEF StartRestore, Truncate, TablesSeen, disk, TypeOK, Entries, Depths, Pcs, CallType,
     CallInv
<1>26. CASE UndoTable
  <2>1. file' \in [Tables -> Files]
    BY <1>26 DEF UndoTable, DropTable, RestoreTable, RestoreTableFails, TypeOK, Files
  <2>2. bak' \in [Entries -> Files]
    BY <1>26 DEF UndoTable, RestoreTable, RestoreTableFails, TypeOK, Files
  <2>3. handle' \in [Tables -> {"none", "open", "orphan"}]
    BY <1>26 DEF UndoTable, DropTable, RestoreTable, RestoreTableFails, Evict, Detach, TypeOK
  <2>4. todo' \subseteq Entries
    BY <1>26 DEF UndoTable, TypeOK
  <2> QED
    BY <1>26, <2>1, <2>2, <2>3, <2>4 DEF UndoTable, txmem, TypeOK
<1>27. CASE RollbackDone
  BY <1>27, ForgetType DEF RollbackDone, disk, TypeOK, Pcs
<1>28. CASE RollbackToDone
  <2>1. seen' \in [Entries -> {"no", "new", "old"}]
    BY <1>28 DEF RollbackToDone, TypeOK
  <2> QED
    BY <1>28, <2>1, NoCallType DEF RollbackToDone, disk, TypeOK, Pcs
<1>29. CASE kdb_close
  BY <1>29 DEF kdb_close, disk, txmem, TypeOK, Pcs
<1>30. CASE kdb_close_tx
  BY <1>30 DEF kdb_close_tx, StartUnlink, SavepointBackups, Call, disk, txmem, TypeOK, Ops, Pcs,
     CallType
<1>31. CASE kdb_tx_begin
  BY <1>31 DEF kdb_tx_begin, disk, txmem, TypeOK, Pcs
<1>32. CASE kdb_tx_commit
  BY <1>32 DEF kdb_tx_commit, StartUnlink, SavepointBackups, Call, disk, txmem, TypeOK, Ops, Pcs,
     CallType
<1>33. CASE kdb_tx_rollback
  BY <1>33 DEF kdb_tx_rollback, StartUnlink, SavepointBackups, Call, disk, txmem, TypeOK, Ops,
     Pcs, CallType
<1>34. CASE Crash
  BY <1>34, ForgetType DEF Crash, disk, TypeOK, Pcs
<1>35. ASSUME NEW t \in Tables, kdb_drop_table(t) PROVE TypeOK'
  BY <1>35 DEF kdb_drop_table, DropTable, Evict, Detach, txmem, TypeOK, Files
<1>36. ASSUME NEW op \in Mutators, NEW t \in Tables, TxMutate(op, t) PROVE TypeOK'
  BY <1>36 DEF TxMutate, Call, disk, txmem, TypeOK, Ops, Pcs, CallType
<1>37. ASSUME NEW n \in Names, kdb_tx_savepoint(n) PROVE TypeOK'
  BY <1>37 DEF kdb_tx_savepoint, NoCall, disk, TypeOK, Depths, CallType
<1>38. ASSUME NEW n \in Names, kdb_tx_rollback_to_savepoint(n) PROVE TypeOK'
  BY <1>38 DEF kdb_tx_rollback_to_savepoint, StartUnlink, SavepointBackups, Call, disk, txmem,
     TypeOK, Depths, Ops, Pcs, CallType
<1>39. ASSUME NEW n \in Names, kdb_tx_release_savepoint(n) PROVE TypeOK'
  BY <1>39 DEF kdb_tx_release_savepoint, StartUnlink, SavepointBackups, Call, disk, txmem, TypeOK,
     Depths, Ops, Pcs, CallType
<1>40. ASSUME NEW t \in Tables, NEW c \in Contents, PlainWrite(t, c) PROVE TypeOK'
  BY <1>40 DEF PlainWrite, WriteTable, txmem, TypeOK, Files
<1>41. CASE UNCHANGED vars
  BY <1>41 DEF vars, TypeOK
<1> QED
  BY <1>1, <1>2, <1>3, <1>4, <1>5, <1>6, <1>7, <1>8, <1>9, <1>10, <1>11, <1>12, <1>13, <1>14, <1>15, <1>16, <1>17, <1>18, <1>19, <1>20, <1>21, <1>22, <1>23, <1>24, <1>25, <1>26, <1>27, <1>28, <1>29, <1>30, <1>31, <1>32, <1>33, <1>34, <1>35, <1>36, <1>37, <1>38, <1>39, <1>40, <1>41 DEF
     Next, NonPlain, Recovery, Mutation, Ending, Request

-----------------------------------------------------------------------------
(* The inductive invariant.                                                *)

LEMMA InvInit == Init => Inv
<1> SUFFICES ASSUME Init PROVE Inv
  OBVIOUS
<1>1. file \in [Tables -> Files]
  BY TxAssumption DEF Init, Files
<1>2. bak \in [Entries -> Files]
  BY DEF Init, Files
<1>3. /\ handle \in [Tables -> {"none", "open", "orphan"}]
      /\ seen \in [Entries -> {"no", "new", "old"}]
      /\ spName \in [Depths -> Names \cup {NoFile}]
      /\ spCount \in Depths
  BY TxAssumption DEF Init, Depths
<1>4. call \in CallType
  BY NoCallType DEF Init
<1>5. TypeOK
  BY <1>1, <1>2, <1>3, <1>4 DEF Init, TypeOK, Pcs
<1>6. MarkerInv /\ RestInv /\ BackedInv /\ DiscardInv /\ ScanInv /\ CallInv
  BY DEF Init, MarkerInv, RestInv, BackedInv, DiscardInv, ScanInv, CallInv
<1> QED
  BY <1>5, <1>6 DEF Inv

ControlInv == MarkerInv /\ RestInv /\ BackedInv /\ DiscardInv /\ ScanInv /\ CallInv

LEMMA ControlStep == Inv /\ [Next]_vars /\ TypeOK' => ControlInv'
<1> SUFFICES ASSUME Inv, [Next]_vars, TypeOK' PROVE ControlInv'
  OBVIOUS
<1> USE TxAssumption DEF Inv, ControlInv, MarkerInv, RestInv, BackedInv, DiscardInv, ScanInv,
                         CallInv, AtRest
<1>1. CASE kdb_open
  BY <1>1 DEF kdb_open, BackupsOnDisk, disk, txmem
<1>2. CASE RecoverDiscard
  BY <1>2 DEF RecoverDiscard, txmem, TypeOK
<1>3. CASE RecoverUnmark
  BY <1>3 DEF RecoverUnmark, BackupsOnDisk, txmem
<1>4. CASE RecoverScan
  BY <1>4 DEF RecoverScan, RestoreTable, RestoreTableFails, txmem, TypeOK
<1>5. CASE RecoverDone
  BY <1>5 DEF RecoverDone, disk, txmem
<1>6. CASE TouchSeen
  BY <1>6 DEF TouchSeen, Advance, disk, txmem
<1>7. CASE TouchFull
  BY <1>7 DEF TouchFull, Return, disk
<1>8. CASE TouchNew
  BY <1>8 DEF TouchNew, Advance, disk
<1>9. CASE TouchCopy
  BY <1>9 DEF TouchCopy, Cursor, txmem
<1>10. CASE CopyDone
  <2>1. \A e \in Entries : e # Cursor => bak'[e] = bak[e] /\ seen'[e] = seen[e]
    BY <1>10 DEF CopyDone
  <2>2. Cursor \in Entries /\ file[call.tbl] \in Files
    BY <1>10 DEF CopyDone, TypeOK
  <2>3. bak'[Cursor] = file[call.tbl]
    BY <1>10, <2>2 DEF CopyDone, TypeOK
  <2>4. BackedInv'
    BY <1>10, <2>1, <2>3, TxEntry DEF CopyDone
  <2> QED
    BY <1>10, <2>4 DEF CopyDone, Advance
<1>11. CASE CopyFails
  <2>1. \A e \in Entries : e # Cursor => bak'[e] = bak[e]
    BY <1>11 DEF CopyFails
  <2>2. BackedInv'
    BY <1>11, <2>1, TxEntry DEF CopyFails
  <2> QED
    BY <1>11, <2>2 DEF CopyFails, Return
<1>12. CASE TouchDone
  BY <1>12 DEF TouchDone, disk, txmem
<1>13. CASE OpCreate
  BY <1>13 DEF OpCreate, txmem
<1>14. CASE OpCascade
  BY <1>14 DEF OpCascade, txmem
<1>15. CASE OpDone
  BY <1>15 DEF OpDone, Return
<1>16. CASE OpFails
  BY <1>16 DEF OpFails, Return
<1>17. CASE UnlinkBackup
  BY <1>17 DEF UnlinkBackup, txmem
<1>18. CASE ReleaseDone
  BY <1>18 DEF ReleaseDone, Return, disk
<1>19. CASE CommitMarks
  BY <1>19 DEF CommitMarks, disk
<1>20. CASE CommitNothing
  BY <1>20 DEF CommitNothing, ForgetTx, disk
<1>21. CASE WriteMarker
  BY <1>21 DEF WriteMarker, BackedUp, txmem
<1>22. CASE WriteMarkerFails
  BY <1>22 DEF WriteMarkerFails, disk, txmem
<1>23. CASE DiscardBackup
  BY <1>23 DEF DiscardBackup, txmem, TypeOK
<1>24. CASE DeleteMarker
  BY <1>24 DEF DeleteMarker, ForgetTx
<1>25. CASE StartRestore
  BY <1>25 DEF StartRestore, Truncate, disk, TypeOK, Depths
<1>26. CASE UndoTable
  BY <1>26 DEF UndoTable, RestoreTable, RestoreTableFails, txmem, TypeOK, Entries, Depths
<1>27. CASE RollbackDone
  BY <1>27 DEF RollbackDone, ForgetTx, disk
<1>28. CASE RollbackToDone
  BY <1>28 DEF RollbackToDone, disk, Entries, Depths
<1>29. CASE kdb_close
  BY <1>29 DEF kdb_close, txmem
<1>30. CASE kdb_close_tx
  BY <1>30 DEF kdb_close_tx, StartUnlink, SavepointBackups, Call, disk, txmem, TypeOK, Entries,
     Depths
<1>31. CASE kdb_tx_begin
  BY <1>31 DEF kdb_tx_begin, disk, txmem, TypeOK, Entries
<1>32. CASE kdb_tx_commit
  BY <1>32 DEF kdb_tx_commit, StartUnlink, SavepointBackups, Call, disk, txmem, TypeOK, Entries,
     Depths
<1>33. CASE kdb_tx_rollback
  BY <1>33 DEF kdb_tx_rollback, StartUnlink, SavepointBackups, Call, disk, txmem, TypeOK, Entries,
     Depths
<1>34. CASE Crash
  BY <1>34 DEF Crash, ForgetTx
<1>35. ASSUME NEW t \in Tables, kdb_drop_table(t) PROVE ControlInv'
  BY <1>35 DEF kdb_drop_table, txmem
<1>36. ASSUME NEW op \in Mutators, NEW t \in Tables, TxMutate(op, t) PROVE ControlInv'
  BY <1>36 DEF TxMutate, Call, disk, txmem
<1>37. ASSUME NEW n \in Names, kdb_tx_savepoint(n) PROVE ControlInv'
  BY <1>37 DEF kdb_tx_savepoint, disk, Entries, Depths
<1>38. ASSUME NEW n \in Names, kdb_tx_rollback_to_savepoint(n) PROVE ControlInv'
  BY <1>38 DEF kdb_tx_rollback_to_savepoint, StartUnlink, SavepointBackups, Call, disk, txmem,
     Entries, Depths
<1>39. ASSUME NEW n \in Names, kdb_tx_release_savepoint(n) PROVE ControlInv'
  BY <1>39 DEF kdb_tx_release_savepoint, StartUnlink, SavepointBackups, Call, disk, txmem,
     Entries, Depths
<1>40. ASSUME NEW t \in Tables, NEW c \in Contents, PlainWrite(t, c) PROVE ControlInv'
  BY <1>40 DEF PlainWrite, txmem
<1>41. CASE UNCHANGED vars
  BY <1>41 DEF vars, Cursor
<1> QED
  BY <1>1, <1>2, <1>3, <1>4, <1>5, <1>6, <1>7, <1>8, <1>9, <1>10, <1>11, <1>12, <1>13, <1>14, <1>15, <1>16, <1>17, <1>18, <1>19, <1>20, <1>21, <1>22, <1>23, <1>24, <1>25, <1>26, <1>27, <1>28, <1>29, <1>30, <1>31, <1>32, <1>33, <1>34, <1>35, <1>36, <1>37, <1>38, <1>39, <1>40, <1>41 DEF
     Next, NonPlain, Recovery, Mutation, Ending, Request

LEMMA InvStep == Inv /\ [Next]_vars => Inv'
BY TypeStep, ControlStep DEF Inv, ControlInv

\* The inductive invariant holds in every reachable state of KdbTx.
THEOREM Invariance == Spec => []Inv
<1>1. Init => Inv
  BY InvInit
<1>2. Inv /\ [Next]_vars => Inv'
  BY InvStep
<1> QED
  BY <1>1, <1>2, PTL DEF Spec

\* Type correctness of the transaction state, whatever the constants.
THEOREM TypeCorrect == Spec => []TypeOK
<1>1. Inv => TypeOK
  BY DEF Inv
<1> QED
  BY Invariance, <1>1, PTL

-----------------------------------------------------------------------------
(* What a crash leaves of a table is settled once it has been backed up.   *)

Kept(t) == Settled(t) /\ ~(pc = "mark" /\ pc' = "discard") => Recoverable(t)' = Recoverable(t)

LEMMA OutcomeStep == Inv /\ [Next]_vars => \A t \in Tables : Kept(t)
<1> SUFFICES ASSUME Inv, [Next]_vars, NEW u \in Tables,
                    Settled(u), ~(pc = "mark" /\ pc' = "discard")
             PROVE  Recoverable(u)' = Recoverable(u)
  BY DEF Kept
<1> USE TxAssumption DEF Inv, Settled, Recoverable, MarkerInv, RestInv, BackedInv, DiscardInv,
                         ScanInv, CallInv, AtRest
<1>1. CASE kdb_open
  BY <1>1 DEF kdb_open, disk
<1>2. CASE RecoverDiscard
  BY <1>2 DEF RecoverDiscard
<1>3. CASE RecoverUnmark
  BY <1>3 DEF RecoverUnmark
<1>4. CASE RecoverScan
  BY <1>4 DEF RecoverScan, RestoreTable, RestoreTableFails, txmem, TypeOK, Entries
<1>5. CASE RecoverDone
  BY <1>5 DEF RecoverDone, disk
<1>6. CASE TouchSeen
  BY <1>6 DEF TouchSeen, disk
<1>7. CASE TouchFull
  BY <1>7 DEF TouchFull, disk
<1>8. CASE TouchNew
  BY <1>8 DEF TouchNew, disk
<1>9. CASE TouchCopy
  <2>1. seen[<<0, u>>] = "old" /\ seen[Cursor] = "no"
    BY <1>9 DEF TouchCopy
  <2>2. bak'[<<0, u>>] = bak[<<0, u>>]
    BY <1>9, <2>1, TxEntry DEF TouchCopy
  <2> QED
    BY <1>9, <2>2 DEF TouchCopy
<1>10. CASE CopyDone
  <2>1. seen[<<0, u>>] = "old" /\ seen[Cursor] = "no"
    BY <1>10 DEF CopyDone
  <2>2. bak'[<<0, u>>] = bak[<<0, u>>]
    BY <1>10, <2>1, TxEntry DEF CopyDone
  <2> QED
    BY <1>10, <2>2 DEF CopyDone
<1>11. CASE CopyFails
  <2>1. seen[<<0, u>>] = "old" /\ seen[Cursor] = "no"
    BY <1>11 DEF CopyFails
  <2>2. bak'[<<0, u>>] = bak[<<0, u>>]
    BY <1>11, <2>1, TxEntry DEF CopyFails
  <2> QED
    BY <1>11, <2>2 DEF CopyFails
<1>12. CASE TouchDone
  BY <1>12 DEF TouchDone, disk
<1>13. CASE OpCreate
  BY <1>13 DEF OpCreate
<1>14. CASE OpCascade
  BY <1>14 DEF OpCascade
<1>15. CASE OpDone
  BY <1>15 DEF OpDone
<1>16. CASE OpFails
  BY <1>16 DEF OpFails
<1>17. CASE UnlinkBackup
  BY <1>17 DEF UnlinkBackup
<1>18. CASE ReleaseDone
  BY <1>18 DEF ReleaseDone, disk
<1>19. CASE CommitMarks
  BY <1>19 DEF CommitMarks, disk
<1>20. CASE CommitNothing
  BY <1>20 DEF CommitNothing, disk
<1>21. CASE WriteMarker
  BY <1>21 DEF WriteMarker
<1>22. CASE WriteMarkerFails
  BY <1>22 DEF WriteMarkerFails, disk
<1>23. CASE DiscardBackup
  BY <1>23 DEF DiscardBackup
<1>24. CASE DeleteMarker
  BY <1>24 DEF DeleteMarker
<1>25. CASE StartRestore
  BY <1>25 DEF StartRestore, disk
<1>26. CASE UndoTable
  <2>1. marker' = {} /\ marker = {} /\ seen[<<0, u>>] = "old"
    BY <1>26 DEF UndoTable
  <2>2. PICK e \in todo :
            \/ seen[e] = "new" /\ DropTable(e[2]) /\ UNCHANGED bak
            \/ seen[e] = "old" /\ RestoreTable(e)
            \/ UNCHANGED <<file, bak>>
    BY <1>26 DEF UndoTable, RestoreTableFails
  <2>3. e \in Entries /\ e = <<call.depth, e[2]>> /\ e[2] \in Tables
    BY <1>26 DEF UndoTable, TypeOK, Entries
  <2>4. CASE e = <<0, u>>
    BY <1>26, <2>1, <2>2, <2>3, <2>4 DEF UndoTable, RestoreTable, TypeOK
  <2>5. CASE e # <<0, u>>
    <3>1. bak'[<<0, u>>] = bak[<<0, u>>]
      BY <2>2, <2>5, TxEntry DEF RestoreTable, TypeOK
    <3>2. CASE call.depth = 0
      BY <2>1, <2>2, <2>3, <2>5, <3>1, <3>2 DEF DropTable, RestoreTable, TypeOK
    <3>3. CASE call.depth # 0
      BY <1>26, <2>1, <3>1, <3>3 DEF UndoTable
    <3> QED
      BY <3>2, <3>3
  <2> QED
    BY <2>4, <2>5
<1>27. CASE RollbackDone
  BY <1>27 DEF RollbackDone, disk
<1>28. CASE RollbackToDone
  BY <1>28 DEF RollbackToDone, disk
<1>29. CASE kdb_close
  BY <1>29 DEF kdb_close
<1>30. CASE kdb_close_tx
  BY <1>30 DEF kdb_close_tx, StartUnlink, disk
<1>31. CASE kdb_tx_begin
  BY <1>31 DEF kdb_tx_begin
<1>32. CASE kdb_tx_commit
  BY <1>32 DEF kdb_tx_commit, StartUnlink, disk
<1>33. CASE kdb_tx_rollback
  BY <1>33 DEF kdb_tx_rollback, StartUnlink, disk
<1>34. CASE Crash
  BY <1>34 DEF Crash, disk
<1>35. ASSUME NEW t \in Tables, kdb_drop_table(t) PROVE Recoverable(u)' = Recoverable(u)
  BY <1>35 DEF kdb_drop_table
<1>36. ASSUME NEW op \in Mutators, NEW t \in Tables, TxMutate(op, t) PROVE Recoverable(u)' = Recoverable(u)
  BY <1>36 DEF TxMutate, disk
<1>37. ASSUME NEW n \in Names, kdb_tx_savepoint(n) PROVE Recoverable(u)' = Recoverable(u)
  BY <1>37 DEF kdb_tx_savepoint, disk
<1>38. ASSUME NEW n \in Names, kdb_tx_rollback_to_savepoint(n) PROVE Recoverable(u)' = Recoverable(u)
  BY <1>38 DEF kdb_tx_rollback_to_savepoint, StartUnlink, disk
<1>39. ASSUME NEW n \in Names, kdb_tx_release_savepoint(n) PROVE Recoverable(u)' = Recoverable(u)
  BY <1>39 DEF kdb_tx_release_savepoint, StartUnlink, disk
<1>40. ASSUME NEW t \in Tables, NEW c \in Contents, PlainWrite(t, c) PROVE Recoverable(u)' = Recoverable(u)
  BY <1>40 DEF PlainWrite
<1>41. CASE UNCHANGED vars
  BY <1>41 DEF vars
<1> QED
  BY <1>1, <1>2, <1>3, <1>4, <1>5, <1>6, <1>7, <1>8, <1>9, <1>10, <1>11, <1>12, <1>13, <1>14, <1>15, <1>16, <1>17, <1>18, <1>19, <1>20, <1>21, <1>22, <1>23, <1>24, <1>25, <1>26, <1>27, <1>28, <1>29, <1>30, <1>31, <1>32, <1>33, <1>34, <1>35, <1>36, <1>37, <1>38, <1>39, <1>40, <1>41 DEF
     Next, NonPlain, Recovery, Mutation, Ending, Request

\* From its backup to the end of the transaction, only the rename of the commit
\* marker changes what a crash would leave of a table, and recovery changes
\* nothing however often it is interrupted: OutcomeSettled, for every instance.
THEOREM OutcomeIsSettled == Spec => OutcomeSettled
<1>1. Inv /\ [Next]_vars =>
        [\A t \in Tables : Settled(t) /\ ~(pc = "mark" /\ pc' = "discard")
                                => Recoverable(t)' = Recoverable(t)]_vars
  BY OutcomeStep DEF Kept
<1> QED
  BY Invariance, <1>1, PTL DEF Spec, OutcomeSettled

-----------------------------------------------------------------------------
(* Cached handles.                                                         *)

LEMMA HandleStep == NoOrphanHandle /\ Inv /\ [Next]_vars => NoOrphanHandle'
<1> SUFFICES ASSUME NoOrphanHandle, Inv, [Next]_vars PROVE NoOrphanHandle'
  OBVIOUS
<1> USE DEF NoOrphanHandle, Inv, TypeOK
<1>1. CASE RecoverScan
  BY <1>1 DEF RecoverScan, RestoreTable, RestoreTableFails, Evict, Detach
<1>2. CASE OpCreate
  BY <1>2 DEF OpCreate, WriteTable
<1>3. CASE OpCascade
  BY <1>3 DEF OpCascade, WriteTable
<1>4. CASE OpDone
  BY <1>4 DEF OpDone, WriteTable
<1>5. CASE OpFails
  BY <1>5 DEF OpFails, WriteTable
<1>6. CASE UndoTable
  BY <1>6 DEF UndoTable, DropTable, RestoreTable, RestoreTableFails, Evict, Detach
<1>7. CASE RollbackDone
  BY <1>7 DEF RollbackDone
<1>8. CASE kdb_close
  BY <1>8 DEF kdb_close
<1>9. CASE Crash
  BY <1>9 DEF Crash
<1>10. ASSUME NEW t \in Tables, kdb_drop_table(t) PROVE NoOrphanHandle'
  BY <1>10 DEF kdb_drop_table, DropTable, Evict, Detach
<1>11. ASSUME NEW t \in Tables, NEW c \in Contents, PlainWrite(t, c) PROVE NoOrphanHandle'
  BY <1>11 DEF PlainWrite, WriteTable
<1>12. CASE UNCHANGED handle
  BY <1>12
<1> QED
  BY <1>1, <1>2, <1>3, <1>4, <1>5, <1>6, <1>7, <1>8, <1>9, <1>10, <1>11, <1>12
  DEF Next, NonPlain, Recovery, Mutation, Ending, Request, vars, kdb_open, RecoverDiscard,
     RecoverUnmark, RecoverDone, TouchSeen, TouchFull, TouchNew, TouchCopy, CopyDone, CopyFails,
     TouchDone, UnlinkBackup, ReleaseDone, CommitMarks, CommitNothing, WriteMarker,
     WriteMarkerFails, DiscardBackup, DeleteMarker, StartRestore, RollbackToDone, StartUnlink,
     kdb_close_tx, kdb_tx_begin, kdb_tx_commit, kdb_tx_rollback, TxMutate, kdb_tx_savepoint,
     kdb_tx_rollback_to_savepoint, kdb_tx_release_savepoint

\* No cached handle ever refers to a file that was replaced or dropped.
THEOREM HandlesFollowFiles == Spec => []NoOrphanHandle
<1>1. Init => NoOrphanHandle
  BY DEF Init, NoOrphanHandle
<1> QED
  BY <1>1, Invariance, HandleStep, PTL DEF Spec

-----------------------------------------------------------------------------
(* What kdb__tx_touch has tracked.                                         *)

\* A tracked entry is a depth and a table; depth 0 is the transaction itself.
LEMMA EntryShape ==
    ASSUME NEW e \in Entries
    PROVE  /\ e[1] \in Nat /\ e[2] \in Tables
           /\ e = <<e[1], e[2]>>
           /\ e[1] <= 0 => e = <<0, e[2]>>
BY TxAssumption DEF Entries, Depths

\* kdb__tx_touch works on an entry of an active depth.
LEMMA CursorEntry ==
    ASSUME TypeOK, call.tbl \in Tables, call.depth <= spCount
    PROVE  Cursor \in Entries
<1>1. call.depth \in Nat /\ spCount \in Nat /\ spCount <= MaxSavepoints
  BY TxAssumption DEF TypeOK, CallType, Depths
<1> QED
  BY <1>1, TxAssumption DEF Entries, Depths, Cursor

\* The depth below which the running call leaves savepoint backups alone.
KeptDepth == IF call.op = "release" THEN call.depth - 1 ELSE call.depth

\* kdb__tx_touch has gone through the depths before the one it is at, so an
\* operation only runs on a table every depth tracks; and what a depth tracks as
\* old has its backup until the loop that unlinks or restores gets to it.
TrackInv ==
    /\ pc \in {"touch", "copy"} =>
        \A d \in Depths : d < call.depth => seen[<<d, call.tbl>>] # "no"
    /\ pc = "op" =>
        /\ \A d \in Depths : d <= spCount => seen[<<d, call.tbl>>] # "no"
        /\ todo \subseteq {0} \X Cascades[call.tbl]
    /\ pc \in {"tx", "touch", "copy", "op", "unlink", "mark", "restore"} =>
        \A e \in Entries : seen[e] = "old" /\ e[1] <= spCount =>
            \/ bak[e] # NoFile
            \/ pc = "unlink" /\ e[1] > KeptDepth
            \/ pc = "restore" /\ e[1] = call.depth /\ e \notin todo
    /\ pc = "unlink" =>
        /\ \A e \in todo : e[1] > KeptDepth
        /\ call.op = "commit" => call.depth = 0
    /\ pc = "mark" => spCount = 0
    /\ pc = "restore" => spCount = call.depth

\* kdb__tx_touch goes to the next depth with the same table and call.
LEMMA Advanced ==
    ASSUME TypeOK, Advance
    PROVE  /\ call.depth \in Nat
           /\ call'.depth = call.depth + 1 /\ call'.tbl = call.tbl /\ call'.op = call.op
           /\ \A d \in Depths : d < call'.depth => d < call.depth \/ d = call.depth
<1>1. call.depth \in Nat /\ DOMAIN call = {"op", "tbl", "depth"}
  BY DEF TypeOK, CallType
<1>2. call'.depth = call.depth + 1 /\ call'.tbl = call.tbl /\ call'.op = call.op
  BY <1>1 DEF Advance
<1> QED
  BY <1>1, <1>2 DEF Depths

\* Every step of the code keeps what is tracked backed up.
LEMMA TrackStep == Inv /\ TrackInv /\ [Next]_vars => TrackInv'
<1> SUFFICES ASSUME Inv, TrackInv, [Next]_vars PROVE TrackInv'
  OBVIOUS
<1> USE TxAssumption DEF Inv, TrackInv
<1>1. CASE kdb_open
  BY <1>1 DEF kdb_open
<1>2. CASE RecoverDiscard
  BY <1>2 DEF RecoverDiscard
<1>3. CASE RecoverUnmark
  BY <1>3 DEF RecoverUnmark
<1>4. CASE RecoverScan
  BY <1>4 DEF RecoverScan
<1>5. CASE RecoverDone
  BY <1>5 DEF RecoverDone
<1>6. CASE TouchSeen
  BY <1>6, Advanced DEF TouchSeen, Cursor, disk, txmem
<1>7. CASE TouchFull
  BY <1>7 DEF TouchFull, Return, disk
<1>8. CASE TouchNew
  <2>1. Cursor \in Entries
    BY <1>8, CursorEntry DEF TouchNew, CallInv
  <2>2. \A e \in Entries : seen'[e] # "no" \/ (e # Cursor /\ seen'[e] = seen[e])
    BY <1>8, <2>1 DEF TouchNew, TypeOK
  <2>3. \A e \in Entries : seen'[e] = "old" => seen[e] = "old"
    BY <1>8, <2>1 DEF TouchNew
  <2> QED
    BY <1>8, <2>2, <2>3, Advanced DEF TouchNew, Cursor, disk, Entries, CallInv
<1>9. CASE TouchCopy
  BY <1>9 DEF TouchCopy, txmem
<1>10. CASE CopyDone
  <2>1. Cursor \in Entries /\ file[call.tbl] # NoFile
    BY <1>10, CursorEntry DEF CopyDone, CallInv
  <2>2. \A e \in Entries : e # Cursor => seen'[e] = seen[e] /\ bak'[e] = bak[e]
    BY <1>10 DEF CopyDone
  <2>3. seen'[Cursor] = "old" /\ bak'[Cursor] # NoFile
    BY <1>10, <2>1 DEF CopyDone, TypeOK
  <2>4. \A d \in Depths : d < call'.depth => seen'[<<d, call'.tbl>>] # "no"
    BY <1>10, <2>2, <2>3, Advanced DEF CopyDone, Cursor
  <2> QED
    BY <1>10, <2>2, <2>3, <2>4 DEF CopyDone
<1>11. CASE CopyFails
  BY <1>11 DEF CopyFails, Return, CallInv
<1>12. CASE TouchDone
  BY <1>12 DEF TouchDone, disk, txmem, TypeOK, Depths, CallType
<1>13. CASE OpCreate
  BY <1>13 DEF OpCreate, txmem
<1>14. CASE OpCascade
  BY <1>14 DEF OpCascade, txmem
<1>15. CASE OpDone
  BY <1>15 DEF OpDone, Return
<1>16. CASE OpFails
  BY <1>16 DEF OpFails, Return
<1>17. CASE UnlinkBackup
  BY <1>17 DEF UnlinkBackup, txmem, KeptDepth
<1>18. CASE ReleaseDone
  BY <1>18 DEF ReleaseDone, Truncate, Return, disk, TypeOK, Entries, Depths, CallType, KeptDepth,
     CallInv
<1>19. CASE CommitMarks
  BY <1>19 DEF CommitMarks, Truncate, disk, TypeOK, Entries, Depths, Files, KeptDepth
<1>20. CASE CommitNothing
  BY <1>20 DEF CommitNothing
<1>21. CASE WriteMarker
  BY <1>21 DEF WriteMarker
<1>22. CASE WriteMarkerFails
  BY <1>22 DEF WriteMarkerFails, disk, txmem
<1>23. CASE DiscardBackup
  BY <1>23 DEF DiscardBackup
<1>24. CASE DeleteMarker
  BY <1>24 DEF DeleteMarker
<1>25. CASE StartRestore
  BY <1>25 DEF StartRestore, Truncate, disk, TypeOK, Entries, Depths, CallType, KeptDepth, CallInv
<1>26. CASE UndoTable
  BY <1>26 DEF UndoTable, RestoreTable, RestoreTableFails, txmem, TypeOK, CallInv
<1>27. CASE RollbackDone
  BY <1>27 DEF RollbackDone
<1>28. CASE RollbackToDone
  BY <1>28 DEF RollbackToDone, disk
<1>29. CASE kdb_close
  BY <1>29 DEF kdb_close
<1>30. CASE kdb_close_tx
  BY <1>30 DEF kdb_close_tx, StartUnlink, SavepointBackups, Call, disk, txmem, Entries, Depths,
     KeptDepth
<1>31. CASE kdb_tx_begin
  BY <1>31 DEF kdb_tx_begin, txmem, RestInv, AtRest
<1>32. CASE kdb_tx_commit
  BY <1>32 DEF kdb_tx_commit, StartUnlink, SavepointBackups, Call, disk, txmem, Entries, Depths,
     KeptDepth
<1>33. CASE kdb_tx_rollback
  BY <1>33 DEF kdb_tx_rollback, StartUnlink, SavepointBackups, Call, disk, txmem, Entries, Depths,
     KeptDepth
<1>34. CASE Crash
  BY <1>34 DEF Crash
<1>35. ASSUME NEW t \in Tables, kdb_drop_table(t) PROVE TrackInv'
  BY <1>35 DEF kdb_drop_table
<1>36. ASSUME NEW op \in Mutators, NEW t \in Tables, TxMutate(op, t) PROVE TrackInv'
  BY <1>36 DEF TxMutate, Call, disk, txmem, Depths
<1>37. ASSUME NEW n \in Names, kdb_tx_savepoint(n) PROVE TrackInv'
  BY <1>37 DEF kdb_tx_savepoint, disk, TypeOK, Entries, Depths
<1>38. ASSUME NEW n \in Names, kdb_tx_rollback_to_savepoint(n) PROVE TrackInv'
  BY <1>38 DEF kdb_tx_rollback_to_savepoint, StartUnlink, SavepointBackups, Call, disk, txmem,
     Entries, Depths, KeptDepth
<1>39. ASSUME NEW n \in Names, kdb_tx_release_savepoint(n) PROVE TrackInv'
  BY <1>39 DEF kdb_tx_release_savepoint, StartUnlink, SavepointBackups, Call, disk, txmem,
     Entries, Depths, KeptDepth
<1>40. ASSUME NEW t \in Tables, NEW c \in Contents, PlainWrite(t, c) PROVE TrackInv'
  BY <1>40 DEF PlainWrite
<1>41. CASE UNCHANGED vars
  BY <1>41 DEF vars, KeptDepth
<1> QED
  BY <1>1, <1>2, <1>3, <1>4, <1>5, <1>6, <1>7, <1>8, <1>9, <1>10, <1>11, <1>12, <1>13, <1>14, <1>15, <1>16, <1>17, <1>18, <1>19, <1>20, <1>21, <1>22, <1>23, <1>24, <1>25, <1>26, <1>27, <1>28, <1>29, <1>30, <1>31, <1>32, <1>33, <1>34, <1>35, <1>36, <1>37, <1>38, <1>39, <1>40, <1>41 DEF
     Next, NonPlain, Recovery, Mutation, Ending, Request


\* Nothing is tracked in a process that has not opened the database.
LEMMA TrackInit == Init => TrackInv
BY DEF Init, TrackInv

\* What the transaction and its savepoints track is backed up, in every
\* reachable state.
THEOREM Tracking == Spec => []TrackInv
BY TrackInit, TrackStep, Invariance, PTL DEF Spec

-----------------------------------------------------------------------------
(* Backups, when every rename that restores one succeeds.                  *)

RestoresWork == {"restore", "recover"} \cap IoFaults = {}

\* A backup on disk is one that somebody will still remove: recovery has it to
\* visit, or it belongs to a tracked table of the transaction or of an active
\* savepoint; the unlinking and restoring loops have the rest to visit.
BackupInv ==
    /\ pc = "idle" => \A e \in Entries : bak[e] = NoFile
    /\ pc \in {"recover_scan", "discard"} => \A e \in Entries : bak[e] # NoFile => e \in todo
    /\ pc \in {"tx", "touch", "copy", "op", "unlink", "mark", "restore"} =>
        \A e \in Entries : bak[e] # NoFile =>
            e[1] <= spCount /\ (seen[e] = "old" \/ (pc = "copy" /\ e = Cursor))
    /\ pc = "unlink" => \A e \in Entries : bak[e] # NoFile => e[1] <= KeptDepth \/ e \in todo
    /\ pc = "restore" => \A e \in Entries : bak[e] # NoFile /\ e[1] = call.depth => e \in todo

\* Every step of the code leaves no backup behind that nobody will visit.
LEMMA BackupStep == RestoresWork /\ Inv /\ TrackInv /\ BackupInv /\ [Next]_vars => BackupInv'
<1> SUFFICES ASSUME RestoresWork, Inv, TrackInv, BackupInv, [Next]_vars PROVE BackupInv'
  OBVIOUS
<1> USE TxAssumption DEF Inv, TrackInv, BackupInv
<1>1. CASE kdb_open
  BY <1>1 DEF kdb_open, BackupsOnDisk, disk
<1>2. CASE RecoverDiscard
  BY <1>2 DEF RecoverDiscard
<1>3. CASE RecoverUnmark
  BY <1>3 DEF RecoverUnmark, BackupsOnDisk
<1>4. CASE RecoverScan
  BY <1>4 DEF RecoverScan, RestoreTable, TypeOK, RestoresWork
<1>5. CASE RecoverDone
  BY <1>5 DEF RecoverDone, disk
<1>6. CASE TouchSeen
  BY <1>6 DEF TouchSeen, disk, txmem
<1>7. CASE TouchFull
  BY <1>7 DEF TouchFull, Return, disk
<1>8. CASE TouchNew
  BY <1>8 DEF TouchNew, disk
<1>9. CASE TouchCopy
  BY <1>9 DEF TouchCopy, Cursor, txmem
<1>10. CASE CopyDone
  <2>1. \A e \in Entries : e # Cursor => bak'[e] = bak[e] /\ seen'[e] = seen[e]
    BY <1>10 DEF CopyDone
  <2>2. Cursor \in Entries /\ Cursor[1] <= spCount
    BY <1>10, CursorEntry DEF CopyDone, CallInv, Cursor
  <2>3. seen'[Cursor] = "old"
    BY <1>10, <2>2 DEF CopyDone, TypeOK
  <2> QED
    BY <1>10, <2>1, <2>2, <2>3 DEF CopyDone
<1>11. CASE CopyFails
  <2>1. \A e \in Entries : e # Cursor => bak'[e] = bak[e]
    BY <1>11 DEF CopyFails
  <2>2. Cursor \in Entries /\ Cursor[1] <= spCount
    BY <1>11, CursorEntry DEF CopyFails, CallInv, Cursor
  <2>3. bak'[Cursor] = NoFile
    BY <1>11, <2>2 DEF CopyFails, TypeOK
  <2> QED
    BY <1>11, <2>1, <2>2, <2>3 DEF CopyFails, Return
<1>12. CASE TouchDone
  BY <1>12 DEF TouchDone, disk, txmem
<1>13. CASE OpCreate
  BY <1>13 DEF OpCreate, txmem
<1>14. CASE OpCascade
  BY <1>14 DEF OpCascade, txmem
<1>15. CASE OpDone
  BY <1>15 DEF OpDone, Return
<1>16. CASE OpFails
  BY <1>16 DEF OpFails, Return
<1>17. CASE UnlinkBackup
  BY <1>17 DEF UnlinkBackup, txmem, TypeOK, KeptDepth
<1>18. CASE ReleaseDone
  BY <1>18 DEF ReleaseDone, Truncate, Return, disk, KeptDepth
<1>19. CASE CommitMarks
  <2>1. \A e \in Entries : bak[e] # NoFile => e[1] <= 0
    BY <1>19 DEF CommitMarks, KeptDepth
  <2> QED
    BY <1>19, <2>1 DEF CommitMarks, Truncate, disk
<1>20. CASE CommitNothing
  <2>1. \A e \in Entries : bak[e] # NoFile => e[1] <= 0 /\ seen[e] = "old"
    BY <1>20 DEF CommitNothing, KeptDepth
  <2>2. \A e \in Entries : bak[e] = NoFile
    BY <1>20, <2>1, EntryShape DEF CommitNothing, BackedUp
  <2> QED
    BY <1>20, <2>2 DEF CommitNothing, disk
<1>21. CASE WriteMarker
  BY <1>21 DEF WriteMarker, BackedUp, Entries, Depths
<1>22. CASE WriteMarkerFails
  BY <1>22 DEF WriteMarkerFails, disk, txmem
<1>23. CASE DiscardBackup
  BY <1>23 DEF DiscardBackup, TypeOK
<1>24. CASE DeleteMarker
  BY <1>24 DEF DeleteMarker
<1>25. CASE StartRestore
  BY <1>25 DEF StartRestore, Truncate, TablesSeen, disk, Entries, KeptDepth
<1>26. CASE UndoTable
  BY <1>26 DEF UndoTable, RestoreTable, txmem, TypeOK, RestoresWork
<1>27. CASE RollbackDone
  BY <1>27 DEF RollbackDone, disk, Entries, Depths
<1>28. CASE RollbackToDone
  BY <1>28 DEF RollbackToDone, disk
<1>29. CASE kdb_close
  BY <1>29 DEF kdb_close
<1>30. CASE kdb_close_tx
  BY <1>30 DEF kdb_close_tx, StartUnlink, SavepointBackups, Call, disk, txmem, Entries, Depths,
     KeptDepth
<1>31. CASE kdb_tx_begin
  BY <1>31 DEF kdb_tx_begin, disk
<1>32. CASE kdb_tx_commit
  BY <1>32 DEF kdb_tx_commit, StartUnlink, SavepointBackups, Call, disk, txmem, Entries, Depths,
     KeptDepth
<1>33. CASE kdb_tx_rollback
  BY <1>33 DEF kdb_tx_rollback, StartUnlink, SavepointBackups, Call, disk, txmem, Entries, Depths,
     KeptDepth
<1>34. CASE Crash
  BY <1>34 DEF Crash
<1>35. ASSUME NEW t \in Tables, kdb_drop_table(t) PROVE BackupInv'
  BY <1>35 DEF kdb_drop_table
<1>36. ASSUME NEW op \in Mutators, NEW t \in Tables, TxMutate(op, t) PROVE BackupInv'
  BY <1>36 DEF TxMutate, disk, txmem
<1>37. ASSUME NEW n \in Names, kdb_tx_savepoint(n) PROVE BackupInv'
  BY <1>37 DEF kdb_tx_savepoint, disk, TypeOK, Entries, Depths
<1>38. ASSUME NEW n \in Names, kdb_tx_rollback_to_savepoint(n) PROVE BackupInv'
  BY <1>38 DEF kdb_tx_rollback_to_savepoint, StartUnlink, SavepointBackups, Call, disk, txmem,
     Entries, Depths, KeptDepth
<1>39. ASSUME NEW n \in Names, kdb_tx_release_savepoint(n) PROVE BackupInv'
  BY <1>39 DEF kdb_tx_release_savepoint, StartUnlink, SavepointBackups, Call, disk, txmem,
     Entries, Depths, KeptDepth
<1>40. ASSUME NEW t \in Tables, NEW c \in Contents, PlainWrite(t, c) PROVE BackupInv'
  BY <1>40 DEF PlainWrite
<1>41. CASE UNCHANGED vars
  BY <1>41 DEF vars, Cursor, KeptDepth
<1> QED
  BY <1>1, <1>2, <1>3, <1>4, <1>5, <1>6, <1>7, <1>8, <1>9, <1>10, <1>11, <1>12, <1>13, <1>14, <1>15, <1>16, <1>17, <1>18, <1>19, <1>20, <1>21, <1>22, <1>23, <1>24, <1>25, <1>26, <1>27, <1>28, <1>29, <1>30, <1>31, <1>32, <1>33, <1>34, <1>35, <1>36, <1>37, <1>38, <1>39, <1>40, <1>41 DEF
     Next, NonPlain, Recovery, Mutation, Ending, Request


\* A new database has no backups.
LEMMA BackupInit == Init => BackupInv
BY DEF Init, BackupInv

\* No backup and no commit marker outlives its transaction, for any number of
\* tables and savepoints, wherever the process dies, the copy of a backup
\* included, as long as the renames that restore backups succeed.
THEOREM NothingLeftOver ==
    ASSUME RestoresWork
    PROVE  Spec => []NoLeftovers
<1>1. RestoresWork
  OBVIOUS
<1>2. Inv /\ BackupInv => NoLeftovers
  BY DEF Inv, MarkerInv, BackupInv, NoLeftovers
<1>3. Inv /\ TrackInv /\ BackupInv /\ [Next]_vars => BackupInv'
  BY <1>1, BackupStep
<1> QED
  BY <1>2, <1>3, BackupInit, Invariance, Tracking, PTL DEF Spec
=============================================================================
