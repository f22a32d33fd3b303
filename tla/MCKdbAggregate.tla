--------------------------- MODULE MCKdbAggregate ---------------------------
(* Small tables, filters and fields for KdbAggregate.                      *)
EXTENDS KdbAggregate

F(name, a) == [name |-> name, value |-> a]
A == <<"a">>
E == <<"e">>
Rows(i) == {[id |-> i, fields |-> f] : f \in
    {<<F(A, IntV(1)), F(E, IntV(i))>>, <<F(A, FloatV(1))>>, <<F(A, BoolV(TRUE)), F(E, Null)>>, <<F(E, IntV(3 - i))>>,
     <<F(A, Str(<<"a", " ", "A", "b">>)), F(E, IntV(0))>>, <<F(A, Str(<<"a", "b", ".", "a", ".", "e">>))>>,
     <<F(A, Array(<<IntV(1), Null>>)), F(E, IntV(1))>>}}
Kind(i, a) == CHOOSE x \in Rows(i) : x.fields[1] = F(A, a)
MCTables == {<<r, q>> : r \in {Kind(1, IntV(1)), Kind(1, BoolV(TRUE))}, q \in Rows(2)} \cup {<< >>} \cup
            {<<Kind(1, BoolV(TRUE)), Kind(2, FloatV(1)), Kind(3, IntV(1))>>,
             <<Kind(1, Str(<<"a", " ", "A", "b">>)), Kind(2, Str(<<"a", "b", ".", "a", ".", "e">>))>>}
MCOthers == {<<[id |-> 1, fields |-> <<F(A, IntV(1))>>], [id |-> 2, fields |-> <<F(A, BoolV(TRUE)), F(E, IntV(2))>>]>>,
             << >>, [i \in 1 .. 4 |-> [id |-> i, fields |-> <<F(A, IntV(1))>>]],
             <<[id |-> 1, fields |-> <<F(A, IntV(1)), F(E, Null), F(<<"b">>, IntV(2))>>]>>}

OneFilter == [or : BOOLEAN, key : {A, <<"a", "_", "_", "n">>, <<"e", "_", "_", "b">>, <<"_", "_", "n">>, <<"_", "_", "_", "2">>},
              vals : {<< >>, <<<<"1">>>>, <<<<"0">>, <<"2">>>>}]
MCFilters == {<< >>} \cup {<<f>> : f \in OneFilter} \cup
             {<<f, g>> : f \in {x \in OneFilter : x.key = A}, g \in OneFilter} \cup
             {<<f, g, g>> : f, g \in {x \in OneFilter : x.key = A}}
MCGroupBys == {<< >>, <<A>>, <<E>>, <<A, E>>, <<A, E, A>>}
MCSortKeys == {<<[col |-> A, asc |-> TRUE]>>, <<[col |-> E, asc |-> FALSE], [col |-> IdName, asc |-> TRUE]>>,
               <<[col |-> A, asc |-> FALSE], [col |-> E, asc |-> TRUE], [col |-> IdName, asc |-> FALSE]>>}
MCFields == {A, E, IdName}
MCOpWords == [w \in {<<"e">>, <<"n">>, <<"b">>, <<"1">>} |->
    CASE w = <<"e">> -> "eq" [] w = <<"n">> -> "isnull" [] w = <<"b">> -> "between" [] w = <<"1">> -> "in"]
Taxicab(a, b, c, d) == (IF a < c THEN c - a ELSE a - c) + (IF b < d THEN d - b ELSE b - d)
=============================================================================
