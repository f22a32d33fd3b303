---------------------------- MODULE KdbValueLaws ----------------------------
(***************************************************************************)
(* What values and records promise the rest of the engine.  A behaviour    *)
(* hands one set of inputs after the other to the functions of types.c and *)
(* record.c; each property compares what they answer with a definition     *)
(* that does not follow the code.                                          *)
(***************************************************************************)
EXTENDS KdbRecord

CONSTANTS
    Texts,      \* texts a client may pass for a value
    Scalars,    \* values that are compared, matched and cast
    Nested,     \* arrays and objects that are compared with them
    LikePatterns, LikeTexts,
    Regexes, RegexTexts,
    Records     \* records to be written and read back

VARIABLE probe   \* the inputs under examination

ASSUME LawsAssumption == Scalars # {} /\ Records # {}

Idle == [kind |-> "idle"]
Probed(kind) == probe.kind = kind

Init == probe = Idle
Start == probe = Idle

ProbeText == Start /\ \E s \in Texts : probe' = [kind |-> "text", s |-> s]
ProbeValues ==
    Start /\ \E a, b, c \in Scalars \cup Nested : probe' = [kind |-> "values", a |-> a, b |-> b, c |-> c]
ProbeLike == Start /\ \E p \in LikePatterns, t \in LikeTexts : probe' = [kind |-> "like", p |-> p, t |-> t]
ProbeRegex == Start /\ \E p \in Regexes, t \in RegexTexts : probe' = [kind |-> "regex", p |-> p, t |-> t]
ProbeRecord == Start /\ \E r \in Records : probe' = [kind |-> "record", r |-> r]
Done == ~Start /\ probe' = Idle

Next == ProbeText \/ ProbeValues \/ ProbeLike \/ ProbeRegex \/ ProbeRecord \/ Done

Spec == Init /\ [][Next]_probe

---------------------------------------------------------------------------
\* %g prints the number exactly.
Printable(a) == Significant(IF a.v < 0 THEN -a.v ELSE a.v) = 5 * (IF a.v < 0 THEN -a.v ELSE a.v)

\* A text that is taken for a type can be read as that type, unless it is a
\* number out of range; and what was read prints as a text that reads back as
\* an equal value, although not always of the same type ("1" is a BOOL).
InferredTextReads ==
    Probed("text") =>
        LET s == probe.s
            t == kdb_type_infer(s)
            a == kdb_value_from_string(s, t)
            back == kdb_value_to_str(a)
        IN /\ a = Fail => t \in {"int", "float"} /\ Len(s) > MaxDigits
           /\ a # Fail => a.t = t
           /\ a # Fail /\ t # "string" /\ (t = "float" => Printable(a)) =>
                kdb_value_compare(kdb_value_from_string(back, kdb_type_infer(back)), a) = 0

\* Comparison is a partial order: the two directions agree, incomparability
\* is symmetric, and <= is transitive wherever it is defined.
CompareIsOrder ==
    Probed("values") =>
        LET cmp(x, y) == kdb_value_compare(x, y)
            le(x, y) == cmp(x, y) # INCOMPARABLE /\ cmp(x, y) <= 0
        IN /\ (cmp(probe.a, probe.b) = INCOMPARABLE) <=> (cmp(probe.b, probe.a) = INCOMPARABLE)
           /\ cmp(probe.a, probe.b) # INCOMPARABLE => cmp(probe.a, probe.b) = -cmp(probe.b, probe.a)
           /\ le(probe.a, probe.b) /\ le(probe.b, probe.c) /\ Comparable(probe.a, probe.c) => le(probe.a, probe.c)

\* Two numbers a double can hold exactly are equal to a filter exactly when
\* they are the same number, whatever their types; larger ones may not be.
NumericEqualityExact ==
    Probed("values") /\ Numeric(probe.a) /\ Numeric(probe.b) =>
        LET exact(x) == Rounded(x.v) = x.v
        IN exact(probe.a) /\ exact(probe.b) =>
            (kdb_value_matches(probe.a, "eq", probe.b, Null) <=> probe.a.v = probe.b.v)

\* The operators of a filter agree with each other: on values that compare,
\* exactly one of lt, eq, gt holds and neq, gte, lte are their complements;
\* BETWEEN is gte and lte; IN over one printed number is eq.
OperatorsAgree ==
    Probed("values") =>
        LET m(op) == kdb_value_matches(probe.a, op, probe.b, probe.c)
            single == kdb_value_to_str(probe.b)
        IN /\ Comparable(probe.a, probe.b) =>
                /\ m("neq") <=> ~m("eq")
                /\ m("gte") <=> ~m("lt")
                /\ m("lte") <=> ~m("gt")
                /\ Cardinality({op \in {"lt", "eq", "gt"} : m(op)}) = 1
           /\ ~Comparable(probe.a, probe.b) => \A op \in {"eq", "neq", "lt", "gt", "lte", "gte", "between"} : ~m(op)
           /\ m("between") <=> m("gte") /\ kdb_value_matches(probe.a, "lte", probe.c, Null)
           /\ Numeric(probe.a) /\ Numeric(probe.b) /\ (probe.b.t = "float" => Printable(probe.b)) =>
                (kdb_value_matches(probe.a, "in", <<single>>, Null) <=> m("eq"))

\* A cast that succeeds has the type asked for, and casting back to the first
\* type gives the value again whenever the way there lost nothing.
CastsReturn ==
    Probed("values") /\ probe.a.t # "null" =>
        \A t \in {"int", "float", "bool", "string"} :
            LET c == kdb_value_cast(probe.a, t)
                lossless == \/ t = "string" /\ probe.a.t \in {"int", "bool"}
                            \/ t = "float" /\ probe.a.t = "int" /\ Rounded(probe.a.v) = probe.a.v
                            \/ t = "int" /\ probe.a.t = "bool"
            IN /\ c # Fail => c.t = t
               /\ lossless => kdb_value_cast(c, probe.a.t) = probe.a

\* Conversions lose nothing they need not lose: a text taken for a type reads
\* as a value of it that prints back, and a cast that can be undone is undone
\* by the cast back (kdb_type_infer, kdb_value_from_string, kdb_value_cast).
ConversionsReturn == InferredTextReads /\ CastsReturn

\* Comparison and filter operators tell one story: the comparison is an order
\* where it is defined, equality is numeric equality, and the operators of a
\* filter are what that order makes them (kdb_value_compare, kdb_value_matches).
ComparisonsAgree == CompareIsOrder /\ NumericEqualityExact /\ OperatorsAgree

---------------------------------------------------------------------------
\* The set of positions of the text a prefix of the pattern can end at.
LikeStep(ends, c, text) ==
    IF c = "%" THEN {j \in 0 .. Len(text) : \E i \in ends : i <= j}
    ELSE {i + 1 : i \in {k \in ends : k < Len(text) /\ c \in {"_", text[k + 1]}}}
LikeReference(pat, text) ==
    Len(text) \in FoldLeft(LAMBDA ends, c : LikeStep(ends, c, text), {0}, pat)

\* The backtracking matcher agrees with the definition of LIKE, with and
\* without regard to case, on every text that holds no percent sign.
LikeIsReference ==
    Probed("like") /\ ~Contains(probe.t, "%") =>
        /\ kdb_like_match(probe.p, probe.t) <=> LikeReference(probe.p, probe.t)
        /\ kdb_ilike_match(probe.p, probe.t) <=> LikeReference(Lower(probe.p), Lower(probe.t))

RegexStep(ends, atom, text) ==
    LET fits(i, j) == \A k \in i + 1 .. j : text[k] \in atom.set
        times == CASE atom.q = "1" -> {1} [] atom.q = "?" -> {0, 1}
                   [] atom.q = "+" -> 1 .. Len(text) [] atom.q = "*" -> 0 .. Len(text)
    IN {j \in 0 .. Len(text) : \E i \in ends : j - i \in times /\ fits(i, j)}
RegexReference(re, text) ==
    LET ends == FoldLeft(LAMBDA e, atom : RegexStep(e, atom, text),
                         IF re.caret THEN {0} ELSE 0 .. Len(text), re.atoms)
    IN IF re.dollar THEN Len(text) \in ends ELSE ends # {}

\* The recursive matcher accepts exactly the texts the expression denotes.
RegexIsReference ==
    Probed("regex") => (kdb_regex_match(probe.p, probe.t) <=> RegexReference(probe.p, probe.t))

\* The two pattern matchers decide what their patterns denote
\* (kdb_like_match, kdb_ilike_match, kdb_regex_match).
PatternsAreReference == LikeIsReference /\ RegexIsReference

---------------------------------------------------------------------------
RECURSIVE Depth(_)
Depth(a) ==
    CASE a.t = "array" -> 1 + Max({0} \cup {Depth(a.v[i]) : i \in DOMAIN a.v})
      [] a.t = "object" -> 1 + Max({0} \cup {Depth(a.v[i].value) : i \in DOMAIN a.v})
      [] OTHER -> 0
RECURSIVE Fits(_)
Fits(a) ==
    CASE a.t \in {"string", "blob"} -> Len(a.v) <= MaxStringLen
      [] a.t = "array" -> Len(a.v) <= MaxNestElems /\ \A i \in DOMAIN a.v : Fits(a.v[i])
      [] a.t = "object" ->
            Len(a.v) <= MaxNestElems /\ \A i \in DOMAIN a.v : Len(a.v[i].name) < NameLen /\ Fits(a.v[i].value)
      [] OTHER -> TRUE

\* A record within every limit of the reader, the one on its size included, reads
\* back as it was written, and the reader stops where the next record begins; one
\* beyond them is written all the same and refused by the reader, which is where
\* a scan of the file will stop.
RoundTrip ==
    Probed("record") =>
        LET r == probe.r
            buf == kdb_record_serialize(r)
            file == kdb_record_write(r)
            got == kdb_record_read(file)
            fits == /\ Len(buf) <= MaxRecordSize /\ Len(r.fields) <= MaxColumns
                    /\ \A i \in DOMAIN r.fields :
                        Fits(r.fields[i].value) /\ Depth(r.fields[i].value) <= MaxNestDepth
        IN /\ Len(buf) = kdb_record_serial_size(r)
           /\ got.ok <=> fits
           /\ fits => /\ got.val = r /\ got.next = Len(file) + 1
                      /\ kdb_record_deserialize(buf).next = Len(buf) + 1

\* A record cut short anywhere, as a crash in the middle of a write leaves it,
\* is refused, never read as a shorter record: for its size, and were the size
\* wrong, for its bytes.
TornRecordRefused ==
    Probed("record") =>
        LET file == kdb_record_write(probe.r)
        IN \A n \in 0 .. Len(file) - 1 :
            /\ ~kdb_record_read(SubSeq(file, 1, n)).ok
            /\ ~kdb_record_deserialize(SubSeq(file, 2, n)).ok

\* Bytes of the next record behind this one change nothing.
NextRecordUnread ==
    Probed("record") =>
        LET file == kdb_record_write(probe.r)
            buf == kdb_record_serialize(probe.r)
        IN /\ kdb_record_read(file \o file) = kdb_record_read(file)
           /\ kdb_record_deserialize(buf \o buf) = kdb_record_deserialize(buf)

\* Setting a field by name makes exactly that name read as the new value, a
\* dotted name included, and leaves every other field alone.
SetFieldReadsBack ==
    Probed("record") =>
        LET r == probe.r
            names == {r.fields[i].name : i \in DOMAIN r.fields} \cup {<<"b">>, <<"a", ".", "b">>}
        IN \A n \in names :
            LET w == kdb_record_set_field(r, n, IntV(3))
            IN /\ kdb_record_get_field(w, n) = IntV(3)
               /\ \A k \in names \ {n} : kdb__find_field(w.fields, k) = kdb__find_field(r.fields, k)

\* What was written to a table file is what a scan will read: a record reads
\* back whole, never in part, whatever stands behind it, and a field set by
\* name is the field read by that name (record.c).
RecordReadsBack == RoundTrip /\ TornRecordRefused /\ NextRecordUnread /\ SetFieldReadsBack
=============================================================================
