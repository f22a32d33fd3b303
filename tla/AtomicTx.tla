------------------------------ MODULE AtomicTx ------------------------------
(***************************************************************************)
(* What kumdb.h and DOCUMENTATION.md promise of transactions: operations   *)
(* grouped into one all-or-nothing unit for a single writer.  Outside a    *)
(* transaction a write is durable when it returns.  Inside one, writes     *)
(* show at once in the tables but count only from the commit on: rollback, *)
(* closing the handle or a crash leaves the database as it was committed.  *)
(***************************************************************************)
CONSTANTS Tables, Values

VARIABLES
    committed,  \* [Tables -> Values], what survives a crash
    view,       \* [Tables -> Values], what the tables show
    phase       \* "closed", "idle" or "tx"

vars == <<committed, view, phase>>

Init ==
    /\ committed \in [Tables -> Values]
    /\ view = committed
    /\ phase = "closed"

Open == phase = "closed" /\ phase' = "idle" /\ UNCHANGED <<committed, view>>

Close == phase = "idle" /\ phase' = "closed" /\ UNCHANGED <<committed, view>>

Write(t, v) ==
    /\ phase = "idle"
    /\ committed' = [committed EXCEPT ![t] = v]
    /\ view' = [view EXCEPT ![t] = v]
    /\ UNCHANGED phase

Begin == phase = "idle" /\ phase' = "tx" /\ UNCHANGED <<committed, view>>

TxWrite(t, v) ==
    /\ phase = "tx"
    /\ view' = [view EXCEPT ![t] = v]
    /\ UNCHANGED <<committed, phase>>

Commit ==
    /\ phase = "tx"
    /\ committed' = view
    /\ phase' = "idle"
    /\ UNCHANGED view

\* A rollback ends in an open handle; a crash, or closing, in a closed one.
Abort ==
    /\ phase = "tx"
    /\ view' = committed
    /\ phase' \in {"idle", "closed"}
    /\ UNCHANGED committed

Next ==
    \/ Open \/ Close \/ Begin \/ Commit \/ Abort
    \/ \E t \in Tables, v \in Values : Write(t, v) \/ TxWrite(t, v)

Spec == Init /\ [][Next]_vars
=============================================================================
