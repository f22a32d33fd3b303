-------------------------- MODULE MCKdbForeignKeys --------------------------
(* Three tables, keys of one and of two columns with every mix of actions. *)
EXTENDS KdbForeignKeys

MCVals == {1, 2, 3, Null}
MCColOrder == <<"x", "y", "id">>
MCStampedOrder == <<"x", "y", "id", "updated_at">>
FK(t, cs, u, ds, del, upd) == [t |-> t, cols |-> cs, ref |-> u, refcols |-> ds, del |-> del, upd |-> upd]
\* A chain b.x -> a.x, c.x -> b.x; a fork; a pair of columns; a circle.
Chain == {<<FK("b", <<"x">>, "a", <<"x">>, d, d), FK("c", <<"x">>, "b", <<"x">>, e, e)>> :
              <<d, e>> \in {<<"cascade", "cascade">>, <<"cascade", "setnull">>, <<"restrict", "restrict">>}}
Fork == {<<FK("b", <<"x">>, "a", <<"x">>, "cascade", "setnull"), FK("c", <<"x">>, "a", <<"x">>, d, "cascade")>> : d \in {"restrict", "setnull"}}
Wide == {<<FK("b", <<"x", "y">>, "a", <<"x", "y">>, d, "cascade")>> : d \in {"cascade", "setnull"}}
Cycle == {<<FK("a", <<"x">>, "b", <<"x">>, d, d), FK("b", <<"x">>, "a", <<"x">>, d, d)>> : d \in {"cascade", "setnull"}}
MCSchemas == Chain \cup Fork \cup Wide \cup Cycle
\* One key that refuses, on a column and on the time of the last update.
MCRestrict == {<<FK("b", <<"x">>, "a", <<"x">>, "restrict", "restrict")>>}
MCStamp == {<<FK("b", <<"y">>, "a", <<"updated_at">>, "restrict", "restrict")>>}
MCMisses == {{}, {1}}
MCNewKeys == {FK("c", <<"y">>, "a", <<"id">>, "cascade", "restrict"), FK("c", <<"x", "y">>, "b", <<"y", "x">>, "cascade", "cascade")}
One(c, n) == [x \in {c} |-> n]
Two(n, m) == [x \in {"x", "y"} |-> IF x = "x" THEN n ELSE m]
MCRecords == {Two(1, 2)}
MCImports == {<<One("x", 2)>>}
MCPatches == {One("x", 2), One("x", Null)}
MCQueries == {One("x", 1), << >>}
MCDefault == [t \in Tables |-> << >>]
MCNotNull == {}
\* What the next call depends on: the outcome of the last one is only read by
\* the properties of the step it was set in.
MCView == <<rows, exists, fks, next_id, World, alters>>
MCUnique == {<<"a", "x">>}
=============================================================================
