-------------------------- MODULE KdbTxRefinement --------------------------
(* KdbTx implements AtomicTx.  What is committed is what kdb__tx_recover   *)
(* would leave on disk; no variable of KdbTx's history is used.            *)
EXTENDS KdbTx

\* The transaction is over for the abstract specification as soon as the
\* marker is on disk; recovery is part of opening.
Phase ==
    CASE pc \in {"down", "recover_marker", "recover_scan"} -> "closed"
      [] pc \in {"idle", "discard"} -> "idle"
      [] OTHER -> "tx"

\* A backup still being copied does not count yet: the table itself is intact.
\* A table the running transaction has created is not there for the others.
CommittedOf(t) ==
    IF pc = "copy" /\ Cursor = <<0, t>> THEN file[t]
    ELSE IF Phase = "tx" /\ seen[<<0, t>>] = "new" THEN NoFile
    ELSE Recoverable(t)

Committed == [t \in Tables |-> CommittedOf(t)]

View == IF Phase = "tx" THEN file ELSE Committed

Atomic == INSTANCE AtomicTx WITH
    Values <- Files, committed <- Committed, view <- View, phase <- Phase

\* kdb_tx_* with backups, marker and recovery is the all-or-nothing unit that
\* kumdb.h describes: every step of the code is a step of AtomicTx or invisible.
AllOrNothing == Atomic!Spec
=============================================================================
