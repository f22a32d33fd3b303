---------------------------- MODULE MCKdbStorage ----------------------------
(* Constant values for model checking KdbStorage.                          *)
EXTENDS KdbStorage

CONSTANTS w, r

\* Between two calls, or under the lock but for the moment when the row is in
\* the file and the header is not.
OutsideHeaderWindow == Pcs \ {"creating", "header"}

\* Anywhere but in kdb_storage_create.
OnceCreated == (Pcs \cup {"write"}) \ {"creating"}
=============================================================================
