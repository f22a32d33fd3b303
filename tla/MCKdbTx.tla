------------------------------ MODULE MCKdbTx ------------------------------
(* Constant values for model checking KdbTx and its refinement.                               *)
EXTENDS KdbTxRefinement

CONSTANTS a, b, c

\* No foreign keys.
NoCascades == [t \in Tables |-> {}]

\* b has a foreign key on a with an ON DELETE/UPDATE action.
CascadeToB == [t \in Tables |-> IF t = a THEN {b} ELSE {}]

\* Each table has a foreign key on itself with an ON DELETE/UPDATE action.
CascadeToSelf == [t \in Tables |-> {t}]

\* The process may die outside a transaction only, its recovery included.
OutsideTx == Pcs \ {"tx", "touch", "copy", "op", "unlink", "mark", "restore"}

\* The process may die anywhere, or anywhere but while copying a backup.
Anywhere == Pcs
NotWhileCopying == Pcs \ {"copy"}
=============================================================================
