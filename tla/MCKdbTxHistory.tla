--------------------------- MODULE MCKdbTxHistory ---------------------------
(* Constant values for model checking KdbTxHistory.                        *)
EXTENDS MCKdbTx, KdbTxHistory
=============================================================================
