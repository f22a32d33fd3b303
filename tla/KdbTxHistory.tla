---------------------------- MODULE KdbTxHistory ----------------------------
(***************************************************************************)
(* KdbTx with two history variables, which no action reads: what each      *)
(* table has been promised to hold, and what the tables held when each     *)
(* active savepoint was created.                                           *)
(***************************************************************************)
EXTENDS KdbTx

VARIABLES
    promised,  \* [Tables -> Files \cup {"unknown"}]
    spSnap     \* [Depths -> [Tables -> Files]]

hvars == <<vars, promised, spSnap>>

NoSnap == [t \in Tables |-> NoFile]

\* The step that commits: the marker reaches the disk, or there is nothing to mark.
Publishes == (pc = "mark" /\ pc' = "discard") \/ (pc = "unlink" /\ pc' = "idle")

\* kdb_tx_rollback could not restore t and says so.
GivesUp(t) ==
    /\ pc = "restore" /\ pc' = "restore" /\ call.depth = 0
    /\ <<0, t>> \in todo \ todo'
    /\ bak'[<<0, t>>] # NoFile

\* No promise holds for a table whose rollback was reported to have failed,
\* until it is written again.
Promise(t) ==
    IF GivesUp(t) THEN "unknown"
    ELSE IF pc = "idle" /\ file'[t] # file[t] THEN file'[t]
    ELSE IF Publishes /\ (promised[t] # "unknown" \/ seen[<<0, t>>] # "no") THEN file'[t]
    ELSE promised[t]

\* A savepoint pushed by this step is given the tables as they are.
Snapshot(d) ==
    IF d = 0 \/ d > spCount' THEN NoSnap ELSE IF d > spCount THEN file ELSE spSnap[d]

HInit ==
    /\ Init
    /\ promised = file
    /\ spSnap = [d \in Depths |-> NoSnap]

HNext ==
    /\ \/ /\ NonPlain
          /\ promised' = [t \in Tables |-> Promise(t)]
       \/ \E t \in Tables, c \in Contents :
            /\ PlainWrite(t, c)
            /\ promised' = [promised EXCEPT ![t] = c]
    /\ spSnap' = [d \in Depths |-> Snapshot(d)]

HSpec == HInit /\ [][HNext]_hvars

-----------------------------------------------------------------------------

\* The promise of kumdb.h: whenever the handle is open with no transaction,
\* every table holds what the last acknowledged write or commit left in it,
\* whatever was rolled back or interrupted by a crash in between.
AtRestAsPromised ==
    pc = "idle" => \A t \in Tables : promised[t] \in {file[t], "unknown"}

\* What rolling back to the savepoint at depth d would make of t.
UndoneTo(d, t) ==
    CASE seen[<<d, t>>] = "old" -> bak[<<d, t>>]
      [] seen[<<d, t>>] = "new" -> NoFile
      [] seen[<<d, t>>] = "no"  -> file[t]

\* Between calls, rolling back to any active savepoint would give every table
\* exactly the contents it had when that savepoint was created, through
\* nesting, releases, earlier rollbacks and reuse of a depth's backup names.
SavepointExact ==
    pc = "tx" => \A d \in 1 .. spCount, t \in Tables : UndoneTo(d, t) = spSnap[d][t]

=============================================================================
