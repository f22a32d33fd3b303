------------------------------- MODULE Lists -------------------------------
(***************************************************************************)
(* The rows a query keeps, in their order.  SelectSeq says the same of an  *)
(* operator; a set of rows is what a proof can speak of.                   *)
(***************************************************************************)
EXTENDS Naturals, Sequences

\* The elements of s that belong to S, in their order.
Only(s, S) ==
    LET kept[i \in 0 .. Len(s)] ==
            IF i = 0 THEN << >> ELSE IF s[i] \in S THEN Append(kept[i - 1], s[i]) ELSE kept[i - 1]
    IN  kept[Len(s)]
=============================================================================
