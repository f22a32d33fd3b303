---------------------------- MODULE MCKdbValues ----------------------------
(* Inputs for KdbValueLaws.                                               *)
EXTENDS KdbValueLaws

Strings(alphabet, n) == BoundedSeq(alphabet, n)

MCTexts == Strings({" ", "-", ".", "1", "2", "A", "e", "n"}, 3) \cup Strings({"1", "."}, 5)
MCScalars == {Null, IntV(-1), IntV(0), IntV(1), IntV(2), IntV(10), IntV(32), IntV(33), FloatV(-1), FloatV(1), FloatV(21),
              BoolV(TRUE), BoolV(FALSE), Str(<< >>), Str(<<"1">>), Str(<<"a", "b">>), Str(<<"a">>), Blob(<<"a">>)}
MCNested == {Array(<< >>), Array(<<IntV(1)>>), Array(<<Str(<<"a">>)>>), Array(<<Null, IntV(1)>>),
             Object(<<[name |-> <<"a">>, value |-> IntV(1)]>>), Object(<<[name |-> <<"b">>, value |-> IntV(0)]>>)}
MCLikePatterns == Strings({"a", "A", "%", "_"}, 4)
MCLikeTexts == Strings({"a", "A", "b"}, 4) \cup {<<"a", "%", "b">>, <<"%">>, <<"%", "a">>}
MCAtoms == [set : {{"a"}, {"b"}, {"a", "b"}}, q : {"1", "*", "+", "?"}]
MCRegexes == [caret : BOOLEAN, dollar : BOOLEAN, atoms : BoundedSeq(MCAtoms, 2)]
MCRegexTexts == Strings({"a", "b"}, 3)

Field(n, a) == [name |-> n, value |-> a]
MCFieldValues == {Null, IntV(-3), FloatV(3), BoolV(TRUE), Str(<<"a", "b">>), Str(<<"a", "b", "a">>), Blob(<<"b">>)} \cup
    {Array(<<Array(<<IntV(1)>>), Null>>), Array(<<Array(<<Array(<< >>)>>)>>), Array(<<Null, Null, Null>>),
     Object(<<Field(<<"b">>, Str(<<"a">>)), Field(<<"a">>, Null)>>)}
MCRecords == [id : {0, 300}, fields : {<< >>} \cup
    {<<Field(<<"a">>, x)>> : x \in MCFieldValues} \cup
    {<<Field(<<"a">>, x), Field(<<"n", "_">>, y)>> : x, y \in MCFieldValues} \cup
    {<<Field(<<"a">>, Null), Field(<<"b">>, Null), Field(<<"e">>, Null)>>}]
=============================================================================
