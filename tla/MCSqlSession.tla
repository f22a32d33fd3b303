---------------------------- MODULE MCSqlSession ----------------------------
(* Two names a filter finds and one it does not.  The value 1 is a text    *)
(* like '5', the value 2 a long one whose first 255 bytes are the value 0. *)
EXTENDS SqlSession

Filled(rs) == Table(Len(rs) + 1, [i \in DOMAIN rs |-> [id |-> i, k |-> rs[i][1], v |-> rs[i][2]]])
OnlyT(t) == [n \in Names |-> IF n = "t" THEN t ELSE NoTable]
Given(t, vs) == [tables |-> OnlyT(t), views |-> vs, collided |-> vs # << >>]
\* The last one: CREATE TABLE u; CREATE VIEW t AS SELECT * FROM u; CREATE TABLE t; DROP TABLE u.
MCInitStates == {Given(NoTable, << >>), Given(Filled(<<<<0, 1>>, <<1, 1>>>>), << >>), Given(Filled(<<<<0, 0>>, <<1, Missing>>>>), << >>),
    Given(Filled(<<<<0, 0>>>>), <<[name |-> "t", of |-> "u"]>>)}
Line == (0 :> <<1>> @@ 1 :> << >> @@ 2 :> << >>)
Ring == (0 :> <<1, 1>> @@ 1 :> <<0>> @@ 2 :> << >>)
Rec(name, base, edges, all, flaw) == [name |-> name, base |-> base, edges |-> edges, all |-> all, flaw |-> flaw]
MCRecursions == {Rec("u", "t", e, a, "none") : e \in {Line, Ring}, a \in BOOLEAN}
    \cup {Rec("u", "t", Line, TRUE, f) : f \in {"shape", "term", "main"}} \cup {Rec("yes", "u", Ring, FALSE, "none")}
MCTuples == {[k |-> 0, v |-> 1], [k |-> 1, v |-> 0], [k |-> 2, v |-> 0]}
MCCut == [v \in Vals |-> v % 2]
MCSets == {[col |-> "k", val |-> 1], [col |-> "v", val |-> 0]}
MCWheres == {All, [col |-> "k", val |-> 0], [col |-> "v", val |-> 1]}
Cte1(n, of) == [name |-> n, of |-> of]
MCCteLists == {<<<<Cte1("u", "t")>>, "u">>, <<<<Cte1("u", "t")>>, "yes">>, <<<<Cte1("u", "t"), Cte1("yes", "u")>>, "u">>,
    <<<<Cte1("yes", "t"), Cte1("u", "yes")>>, "u">>, <<<<Cte1("u", "t"), Cte1("yes", "u"), Cte1("yes", "u")>>, "u">>}
MCView == <<tables, views, tx, run, collided, left, faults>>
=============================================================================
