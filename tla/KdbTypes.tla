------------------------------ MODULE KdbTypes ------------------------------
(***************************************************************************)
(* Values (types.c): what a text is taken for, how values compare, match a *)
(* filter and are cast, and the two pattern matchers.                      *)
(*                                                                         *)
(* A text is a sequence of one-character strings over Chars; code gives    *)
(* the order of strcmp().  A number is kept in halves, so that a FLOAT can *)
(* lie between two INTs; a double keeps Mantissa bits of it (53 in C).     *)
(* The operators are the functions of types.c, the module has no state.    *)
(***************************************************************************)
EXTENDS Integers, Sequences, FiniteSets, SequencesExt, FiniteSetsExt

CONSTANTS
    Mantissa,   \* bits of a double's mantissa
    MaxDigits,  \* digits of the largest int64_t: more of them is ERANGE
    GDigits     \* significant digits %g prints (6 in C)

ASSUME TypesAssumption == {Mantissa, MaxDigits, GDigits} \subseteq Nat \ {0}

Signs == {"-", "+"}
\* The characters of the model's texts and their codes.
DigitSeq == <<"0", "1", "2", "3", "4", "5", "6", "7", "8", "9">>
Digits == {"0", "1", "2", "3", "4", "5", "6", "7", "8", "9"}
code == [c \in Digits |-> 47 + (CHOOSE i \in DOMAIN DigitSeq : DigitSeq[i] = c)]
            @@ (" " :> 32) @@ ("%" :> 37) @@ ("+" :> 43) @@ ("," :> 44) @@ ("-" :> 45) @@ ("." :> 46) @@ ("A" :> 65) @@ ("_" :> 95)
            @@ ("a" :> 97) @@ ("b" :> 98) @@ ("e" :> 101) @@ ("n" :> 110)

\* The words kdb_str_is_null and kdb_str_is_bool know are single letters here:
\* n stands for null, A for true (yes) and b for false (no).
NullWord == <<"n">>
TrueWord == <<"A">>
FalseWord == <<"b">>

INCOMPARABLE == -100   \* INT32_MIN

---------------------------------------------------------------------------
\* Values: a type tag and what the union holds.

Null == [t |-> "null", v |-> 0]
IntV(n) == [t |-> "int", v |-> 2 * n]
FloatV(h) == [t |-> "float", v |-> h]
BoolV(b) == [t |-> "bool", v |-> IF b THEN 2 ELSE 0]
Str(s) == [t |-> "string", v |-> s]
Blob(s) == [t |-> "blob", v |-> s]
Array(s) == [t |-> "array", v |-> s]
Object(s) == [t |-> "object", v |-> s]

Numeric(a) == a.t \in {"int", "float", "bool"}

Abs(n) == IF n < 0 THEN -n ELSE n
Sign(n) == IF n < 0 THEN -1 ELSE IF n > 0 THEN 1 ELSE 0

\* A multiple of the unit nearest to a, ties to even.
Even(q, twice, unit) == unit * (IF twice > unit \/ (twice = unit /\ q % 2 = 1) THEN q + 1 ELSE q)
NearestTo(a, unit) == Even(a \div unit, 2 * (a % unit), unit)

\* The double nearest to h halves.
Ulp(a) == 2 ^ (CHOOSE k \in 0 .. 12 : a < 2 ^ (Mantissa + k) /\ (k = 0 \/ a >= 2 ^ (Mantissa + k - 1)))
Rounded(h) == Sign(h) * NearestTo(Abs(h), Ulp(Abs(h)))

kdb__to_double(a) == IF Numeric(a) THEN Rounded(a.v) ELSE 0

---------------------------------------------------------------------------
\* What a text is taken for.

From(s, i) == IF i = 0 THEN << >> ELSE SubSeq(s, i, Len(s))
Before(s, i) == IF i = 0 THEN s ELSE SubSeq(s, 1, i - 1)
After(s, i) == IF i = 0 THEN << >> ELSE SubSeq(s, i + 1, Len(s))
Place(s, set) == SelectInSeq(s, LAMBDA c : c \in set)   \* 0: nowhere

kdb__skip_ws(s) == SelectInSeq(s, LAMBDA c : c # " ")
Trimmed(s) == From(s, kdb__skip_ws(s))

AllDigits(s) == s # << >> /\ \A i \in DOMAIN s : s[i] \in Digits
Unsigned(s) == IF s # << >> /\ Head(s) \in Signs THEN Tail(s) ELSE s

kdb_str_is_null(s) == Trimmed(s) \in {NullWord, << >>}
kdb_str_is_bool(s) == Trimmed(s) \in {TrueWord, FalseWord, <<"1">>, <<"0">>}
kdb_str_is_int(s) == AllDigits(Unsigned(Trimmed(s)))

\* digits with at most one dot, then perhaps an exponent; without an exponent
\* the dot is required.
Dots(m) == Cardinality({i \in DOMAIN m : m[i] = "."})
IsMantissa(m) ==
    /\ \A i \in DOMAIN m : m[i] \in Digits \cup {"."}
    /\ Dots(m) <= 1 /\ Dots(m) < Len(m)
IsFloatCut(u, e) ==
    /\ IsMantissa(Before(u, e))
    /\ IF e = 0 THEN Dots(u) = 1 ELSE AllDigits(Unsigned(After(u, e)))
IsFloat(u) == IsFloatCut(u, Place(u, {"e"}))
kdb_str_is_float(s) == IsFloat(Unsigned(Trimmed(s)))

kdb_type_infer(s) ==
    CASE kdb_str_is_null(s) -> "null"
      [] ~kdb_str_is_null(s) /\ kdb_str_is_bool(s) -> "bool"
      [] ~kdb_str_is_bool(s) /\ kdb_str_is_int(s) -> "int"
      [] kdb_str_is_float(s) -> "float"
      [] OTHER -> "string"

---------------------------------------------------------------------------
\* Reading a text as a value of a type; Fail is KDB_ERR_BAD_TYPE.

Fail == [t |-> "fail", v |-> 0]

Magnitude(s) == FoldLeft(LAMBDA acc, c : 10 * acc + code[c] - 48, 0, s)
Negative(s) == s # << >> /\ Head(s) = "-"
Signed(neg, n) == IF neg THEN -n ELSE n

\* strtoll() of a text kdb_str_is_int accepts, the only ones it is given; a
\* number out of range (ERANGE) is refused.
StrtollOf(neg, u) == IF Len(u) > MaxDigits THEN Fail ELSE IntV(Signed(neg, Magnitude(u)))
Strtoll(s) == StrtollOf(Negative(Trimmed(s)), Unsigned(Trimmed(s)))

\* strtod() of a text kdb_str_is_float accepts, to the nearest half below; an
\* exponent is a power of ten and a huge one ERANGE.
Scaled(h, power) == IF power < 0 THEN h \div 10 ^ (-power) ELSE h * 10 ^ power
Powered(neg, h, power) == IF power > MaxDigits THEN Fail ELSE FloatV(Rounded(Signed(neg, Scaled(h, power))))
StrtodCut(neg, m, x) ==   \* the mantissa and the exponent
    Powered(neg, 2 * Magnitude(SelectSeq(m, LAMBDA c : c # ".")),
            Signed(Negative(x), Magnitude(Unsigned(x))) - Len(After(m, Place(m, {"."}))))
StrtodOf(neg, u, e) == StrtodCut(neg, Before(u, e), After(u, e))
Strtod(s) == StrtodOf(Negative(Trimmed(s)), Unsigned(Trimmed(s)), Place(Unsigned(Trimmed(s)), {"e"}))

ReadAs(s, t) ==
    CASE t = "null" -> Null
      [] t = "bool" -> BoolV(s \in {TrueWord, <<"1">>})
      [] t = "int" -> Strtoll(s)
      [] t = "float" -> Strtod(s)
      [] t = "string" -> Str(s)
      [] OTHER -> Fail
kdb_value_from_string(s, hint) == ReadAs(s, IF hint \in {"unknown", "null"} THEN kdb_type_infer(s) ELSE hint)

---------------------------------------------------------------------------
\* Comparison: -1, 0, 1 or INCOMPARABLE.

\* The difference at the first place two strings differ.
ByteAt(s, i) == IF i <= Len(s) THEN code[s[i]] ELSE 0
DiffAt(s, r, i) == ByteAt(s, i) - ByteAt(r, i)
FirstDiff(s, r, n) == Min({k \in 1 .. n : s[k] # r[k]} \cup {n + 1})
StrDiff(s, r) == DiffAt(s, r, FirstDiff(s, r, Min({Len(s), Len(r)})))
strcmp(s, r) == Sign(StrDiff(s, r))

\* The first difference of two sequences of verdicts decides; on a common
\* prefix the shorter is less.
Decided(verdicts, rest) == IF verdicts = << >> THEN rest ELSE Head(verdicts)
\* Mutant: a common prefix is taken for equality.
Lexicographic_prefix(verdict, m, n) == Decided(SelectSeq(verdict, LAMBDA c : c # 0), 0)
Lexicographic(verdict, m, n) == Decided(SelectSeq(verdict, LAMBDA c : c # 0), Sign(m - n))

RECURSIVE kdb_value_compare(_, _)

kdb__compare_array(a, b) ==
    Lexicographic([i \in 1 .. Min({Len(a.v), Len(b.v)}) |-> kdb_value_compare(a.v[i], b.v[i])],
                  Len(a.v), Len(b.v))

\* Members in stored order, the name before the value.
NameFirst(names, values) == IF names # 0 THEN names ELSE values
kdb__compare_object(a, b) ==
    Lexicographic([i \in 1 .. Min({Len(a.v), Len(b.v)}) |->
                      NameFirst(strcmp(a.v[i].name, b.v[i].name), kdb_value_compare(a.v[i].value, b.v[i].value))],
                  Len(a.v), Len(b.v))

kdb_value_compare(a, b) ==
    CASE a.t = "null" -> IF b.t = "null" THEN 0 ELSE -1
      [] a.t # "null" /\ b.t = "null" -> 1
      [] Numeric(a) /\ Numeric(b) -> Sign(kdb__to_double(a) - kdb__to_double(b))
      [] a.t = "string" /\ b.t = "string" -> strcmp(a.v, b.v)
      [] a.t = "array" /\ b.t = "array" -> kdb__compare_array(a, b)
      [] a.t = "object" /\ b.t = "object" -> kdb__compare_object(a, b)
      [] OTHER -> INCOMPARABLE
Comparable(a, b) == kdb_value_compare(a, b) # INCOMPARABLE

---------------------------------------------------------------------------
\* LIKE: the scan remembers the last % and where in the text it took over.

RECURSIVE LikeFrom(_, _, _, _, _, _)
LikeFrom(pat, text, p, t, starP, starT) ==
    IF t > Len(text) THEN \A i \in p .. Len(pat) : pat[i] = "%"
    ELSE IF p <= Len(pat) /\ pat[p] \in {"_", text[t]} THEN LikeFrom(pat, text, p + 1, t + 1, starP, starT)
    ELSE IF p <= Len(pat) /\ pat[p] = "%" THEN LikeFrom(pat, text, p + 1, t, p, t)
    ELSE starP # 0 /\ LikeFrom(pat, text, starP + 1, starT + 1, starP, starT + 1)

kdb_like_match(pat, text) == LikeFrom(pat, text, 1, 1, 0, 0)

Lower(s) == [i \in DOMAIN s |-> IF s[i] = "A" THEN "a" ELSE s[i]]
kdb_ilike_match(pat, text) == LikeFrom(Lower(pat), Lower(text), 1, 1, 0, 0)

\* REGEXP: a pattern is a sequence of atoms, each a set of characters with a
\* quantifier "1", "*", "+" or "?", between optional anchors; a filter has it
\* as a value of type "regexp", its text read.
Atoms == [set : SUBSET {"a", "b"}, q : {"1", "*", "+", "?"}]

RECURSIVE kdb__re_match_here(_, _, _)
\* How often the atom can be repeated at the head of the text.
Run(atom, text) ==
    LET stop == SelectInSeq(text, LAMBDA c : c \notin atom.set) IN IF stop = 0 THEN Len(text) ELSE stop - 1
Drop(s, n) == SubSeq(s, n + 1, Len(s))

\* Mutant: the longest run only, without giving back.
kdb__re_match_repeat_greedy(atom, rest, dollar, text, least) ==
    least <= Run(atom, text) /\ kdb__re_match_here(rest, dollar, Drop(text, Run(atom, text)))
\* Longest first, then one less, down to the least count allowed.
kdb__re_match_repeat(atom, rest, dollar, text, least) ==
    \E n \in least .. Run(atom, text) : kdb__re_match_here(rest, dollar, Drop(text, n))

kdb__re_match_here(pat, dollar, text) ==
    IF pat = << >> THEN dollar => text = << >>
    ELSE LET atom == Head(pat) IN
         CASE atom.q = "*" -> kdb__re_match_repeat(atom, Tail(pat), dollar, text, 0)
           [] atom.q = "+" -> kdb__re_match_repeat(atom, Tail(pat), dollar, text, 1)
           [] atom.q = "?" ->
                \/ text # << >> /\ Head(text) \in atom.set /\ kdb__re_match_here(Tail(pat), dollar, Tail(text))
                \/ kdb__re_match_here(Tail(pat), dollar, text)
           [] OTHER ->
                text # << >> /\ Head(text) \in atom.set /\ kdb__re_match_here(Tail(pat), dollar, Tail(text))

kdb_regex_match(re, text) ==
    IF re.caret THEN kdb__re_match_here(re.atoms, re.dollar, text)
    ELSE \E i \in 0 .. Len(text) : kdb__re_match_here(re.atoms, re.dollar, Drop(text, i))

---------------------------------------------------------------------------
\* Filters.

Prefix(s, p) == Len(p) <= Len(s) /\ SubSeq(s, 1, Len(p)) = p
Suffix(s, p) == Len(p) <= Len(s) /\ SubSeq(s, Len(s) - Len(p) + 1, Len(s)) = p

\* An IN list is a sequence of texts (the pieces between the commas); each is
\* read as whatever it looks like, an empty or unreadable one is skipped.
Equal(a, b) == b # Fail /\ kdb_value_compare(a, b) = 0
Listed(a, tok) == tok # << >> /\ Equal(a, kdb_value_from_string(tok, kdb_type_infer(tok)))
InList(a, tokens) == \E i \in DOMAIN tokens : Listed(a, Reverse(Trimmed(Reverse(Trimmed(tokens[i])))))

\* What a comparison says to an operator; INCOMPARABLE says no to all.
Verdict(c, op) ==
    /\ c # INCOMPARABLE
    /\ CASE op = "eq" -> c = 0 [] op = "neq" -> c # 0 [] op = "gt" -> c > 0
         [] op = "gte" -> c >= 0 [] op = "lt" -> c < 0 [] op = "lte" -> c <= 0

kdb_value_matches(a, op, b, b2) ==
    LET texts == a.t = "string" /\ b.t = "string"
    IN CASE op = "isnull" -> a.t = "null"
         [] op = "isnotnull" -> a.t # "null"
         [] op \in {"eq", "neq", "gt", "gte", "lt", "lte"} -> Verdict(kdb_value_compare(a, b), op)
         [] op = "between" -> Verdict(kdb_value_compare(a, b), "gte") /\ Verdict(kdb_value_compare(a, b2), "lte")
         [] op = "in" -> InList(a, b)
         [] op = "contains" -> texts /\ \E i \in 0 .. Len(a.v) : Prefix(Drop(a.v, i), b.v)
         [] op = "startswith" -> texts /\ Prefix(a.v, b.v)
         [] op = "endswith" -> texts /\ Suffix(a.v, b.v)
         [] op = "like" -> texts /\ kdb_like_match(b.v, a.v)
         [] op = "ilike" -> texts /\ kdb_ilike_match(b.v, a.v)
         [] op = "regexp" -> a.t = "string" /\ b.t = "regexp" /\ kdb_regex_match(b.v, a.v)
         [] OTHER -> FALSE

---------------------------------------------------------------------------
\* Casts.

RECURSIVE Decimal(_)
Decimal(n) == (IF n < 10 THEN << >> ELSE Decimal(n \div 10)) \o <<DigitSeq[(n % 10) + 1]>>

\* %g of a number given in halves: GDigits significant digits, ties to even.
\* The result is in tenths.
DigitsCut(n) == 10 ^ (CHOOSE k \in 0 .. n : n < 10 ^ (GDigits + k) /\ (k = 0 \/ n >= 10 ^ (GDigits + k - 1)))
Significant(a) == NearestTo(5 * a, DigitsCut(5 * a))

Fixed(tenths) == Decimal(tenths \div 10) \o (IF tenths % 10 = 0 THEN << >> ELSE <<".">> \o Decimal(tenths % 10))

\* One digit, the others behind the dot without trailing zeros, an exponent
\* of at least two digits.
Fraction(ds, last) == IF last = 1 THEN << >> ELSE <<".">> \o SubSeq(ds, 2, last)
Exponential(ds) ==
    <<ds[1]>> \o Fraction(ds, SelectLastInSeq(ds, LAMBDA c : c # "0")) \o <<"e", "+", "0">> \o Decimal(Len(ds) - 2)
Scientific(tenths) == Exponential(Decimal(tenths))

Printed(tenths) == IF tenths < 10 * 10 ^ GDigits THEN Fixed(tenths) ELSE Scientific(tenths)
\* Mutant: an integer printed with %g.
Spelled_g(t, h) == (IF h < 0 THEN <<"-">> ELSE << >>) \o Printed(Significant(Abs(h)))
Spelled(t, h) ==
    (IF h < 0 THEN <<"-">> ELSE << >>) \o (IF t = "int" THEN Decimal(Abs(h) \div 2) ELSE Printed(Significant(Abs(h))))

kdb_value_to_str(a) ==
    CASE a.t = "null" -> NullWord
      [] a.t \in {"int", "float"} -> Spelled(a.t, a.v)
      [] a.t = "bool" -> IF a.v # 0 THEN TrueWord ELSE FalseWord
      [] OTHER -> <<"_">>   \* a rendering that cannot be read back

\* memset 0, then the tag: what a NULL becomes when it is cast.
Zero(t) == [t |-> t, v |-> IF t \in {"int", "float", "bool"} THEN 0 ELSE << >>]

Halved(h) == IF h < 0 THEN -((-h) \div 2) ELSE h \div 2   \* (int64_t) truncates

kdb_value_cast(a, t) ==
    CASE a.t = t -> a
      [] a.t # t /\ a.t = "null" -> Zero(t)
      [] t = "int" /\ a.t = "float" -> IntV(Halved(a.v))
      [] t = "int" /\ a.t = "bool" -> [a EXCEPT !.t = "int"]
      [] t = "int" /\ a.t = "string" /\ kdb_str_is_int(a.v) -> kdb_value_from_string(a.v, "int")
      [] t = "float" /\ a.t \in {"int", "bool"} -> FloatV(Rounded(a.v))
      [] t = "float" /\ a.t = "string" /\ kdb_str_is_float(a.v) -> kdb_value_from_string(a.v, "float")
      [] t = "bool" /\ a.t = "int" -> BoolV(a.v # 0)
      [] t = "bool" /\ a.t = "string" /\ kdb_str_is_bool(a.v) -> kdb_value_from_string(a.v, "bool")
      [] t = "string" -> kdb_value_from_string(kdb_value_to_str(a), "string")
      [] t = "null" -> Null
      [] OTHER -> Fail
=============================================================================
