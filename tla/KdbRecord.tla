----------------------------- MODULE KdbRecord -----------------------------
(***************************************************************************)
(* The bytes of a record (record.c) and the fields of a record.            *)
(*                                                                         *)
(* Widths are scaled down: an integer has two bytes, a count one, a name   *)
(* NameLen bytes, a value header two (its tag and the padding) and the     *)
(* size before a record is a single number.  A record is its id and a      *)
(* sequence of fields, a field a name and a value.                         *)
(***************************************************************************)
EXTENDS KdbTypes

CONSTANTS
    NameLen,       \* KDB_MAX_NAME_LEN
    MaxStringLen,  \* KDB_MAX_STRING_LEN
    MaxNestElems,  \* KDB_MAX_NEST_ELEMS
    MaxNestDepth,  \* KDB_MAX_NEST_DEPTH
    MaxColumns,    \* KDB_MAX_COLUMNS
    MaxRecordSize  \* KDB_MAX_RECORD_SERIAL_SIZE

ASSUME RecordAssumption ==
    /\ NameLen \in Nat /\ NameLen > 1
    /\ {MaxStringLen, MaxNestElems, MaxNestDepth, MaxColumns, MaxRecordSize} \subseteq Nat

tags == <<"null", "int", "float", "bool", "string", "blob", "array", "object">>
Tag(t) == SelectInSeq(tags, LAMBDA x : x = t) - 1

write_u64(n) == LET m == n % 65536 IN <<m % 256, m \div 256>>
read_u64(b) == LET m == b[1] + 256 * b[2] IN IF m >= 32768 THEN m - 65536 ELSE m
Encoded(s) == [i \in DOMAIN s |-> code[s[i]]]
Decoded(b) == [i \in DOMAIN b |-> CHOOSE c \in DOMAIN code : code[c] = b[i]]

---------------------------------------------------------------------------
\* Writing.  A name is cut to NameLen - 1 characters and padded with zeros.

kdb__write_value_header(t) == <<Tag(t), 0>>
kdb__write_field_name(s) ==
    [i \in 1 .. NameLen |-> IF i <= Len(s) /\ i < NameLen THEN code[s[i]] ELSE 0]

RECURSIVE kdb__write_value_payload(_)
kdb__write_value_payload(a) ==
    CASE a.t = "int" -> write_u64(a.v \div 2)
      [] a.t = "float" -> write_u64(a.v)
      [] a.t = "bool" -> <<a.v \div 2>>
      [] a.t = "string" -> <<Len(a.v)>> \o Encoded(a.v) \o <<0>>
      [] a.t = "blob" -> <<Len(a.v)>> \o Encoded(a.v)
      [] a.t = "array" ->
            <<Len(a.v)>> \o FlattenSeq([i \in DOMAIN a.v |->
                kdb__write_value_header(a.v[i].t) \o kdb__write_value_payload(a.v[i])])
      [] a.t = "object" ->
            <<Len(a.v)>> \o FlattenSeq([i \in DOMAIN a.v |->
                kdb__write_field_name(a.v[i].name) \o kdb__write_value_header(a.v[i].value.t)
                    \o kdb__write_value_payload(a.v[i].value)])
      [] OTHER -> << >>

kdb_record_serialize(r) ==
    write_u64(r.id) \o <<Len(r.fields)>> \o FlattenSeq([i \in DOMAIN r.fields |->
        kdb__write_field_name(r.fields[i].name) \o kdb__write_value_header(r.fields[i].value.t)
            \o kdb__write_value_payload(r.fields[i].value)])

\* The size computed beforehand, which the writer allocates and the index
\* rebuild steps by.
RECURSIVE kdb__value_payload_size(_)
kdb__value_payload_size(a) ==
    CASE a.t \in {"int", "float"} -> 2
      [] a.t = "bool" -> 1
      [] a.t = "string" -> 1 + Len(a.v) + 1
      [] a.t = "blob" -> 1 + Len(a.v)
      [] a.t = "array" -> 1 + MapThenSumSet(LAMBDA i : 2 + kdb__value_payload_size(a.v[i]), DOMAIN a.v)
      [] a.t = "object" -> 
            1 + MapThenSumSet(LAMBDA i : NameLen + 2 + kdb__value_payload_size(a.v[i].value), DOMAIN a.v)
      [] OTHER -> 0

\* Mutant: the headers of the values forgotten.
kdb_record_serial_size_bare(r) ==
    3 + MapThenSumSet(LAMBDA i : NameLen + kdb__value_payload_size(r.fields[i].value), DOMAIN r.fields)
kdb_record_serial_size(r) ==
    3 + MapThenSumSet(LAMBDA i : NameLen + 2 + kdb__value_payload_size(r.fields[i].value), DOMAIN r.fields)

---------------------------------------------------------------------------
\* Reading: what was read and how far, or Corrupt.  Every read asks first
\* whether the buffer holds that many bytes.

Corrupt == [ok |-> FALSE, val |-> Null, next |-> 0]
Read(val, next) == [ok |-> TRUE, val |-> val, next |-> next]
Need(buf, p, n) == Len(buf) - p + 1 >= n

\* The last byte of a name is made a NUL.
ReadName(buf, p) ==
    LET raw == SubSeq(buf, p, p + NameLen - 2) IN Decoded(Before(raw, Place(raw, {0})))

RECURSIVE kdb__read_value(_, _, _)

\* n elements one after the other; skip bytes of name stand before each.
RECURSIVE ReadMany(_, _, _, _, _)
Joined(elem, rest) == IF rest.ok THEN Read(<<elem>> \o rest.val, rest.next) ELSE Corrupt
ReadOn(buf, p, n, depth, named, x) ==
    IF ~x.ok THEN Corrupt
    ELSE Joined(IF named THEN [name |-> ReadName(buf, p), value |-> x.val] ELSE x.val,
                ReadMany(buf, x.next, n - 1, depth, named))
ReadMany(buf, p, n, depth, named) ==
    IF n = 0 THEN Read(<< >>, p)
    ELSE IF named /\ ~Need(buf, p, NameLen) THEN Corrupt
    ELSE ReadOn(buf, p, n, depth, named, kdb__read_value(buf, IF named THEN p + NameLen ELSE p, depth))

Container(t, xs) == IF xs.ok THEN Read([t |-> t, v |-> xs.val], xs.next) ELSE Corrupt
kdb__read_value(buf, p, depth) ==
    IF ~Need(buf, p, 2) \/ buf[p] >= Len(tags) THEN Corrupt
    ELSE LET t == tags[buf[p] + 1]
             q == p + 2
             sized == t \in {"string", "blob", "array", "object"}
             n == IF sized /\ Need(buf, q, 1) THEN buf[q] ELSE 0
             nested == t \in {"array", "object"}
             body == SubSeq(buf, q + 1, q + n)
         IN CASE sized /\ ~Need(buf, q, 1) -> Corrupt
              [] t \in {"int", "float"} ->
                    IF ~Need(buf, q, 2) THEN Corrupt
                    ELSE LET m == read_u64(SubSeq(buf, q, q + 1))
                         IN Read(IF t = "int" THEN IntV(m) ELSE FloatV(m), q + 2)
              [] t = "bool" -> IF ~Need(buf, q, 1) THEN Corrupt ELSE Read([t |-> t, v |-> 2 * buf[q]], q + 1)
              [] t = "string" /\ sized /\ Need(buf, q, 1) ->
                    IF n > MaxStringLen \/ ~Need(buf, q + 1, n + 1) THEN Corrupt
                    ELSE Read(Str(Decoded(body)), q + n + 2)
              [] t = "blob" /\ Need(buf, q, 1) ->
                    IF n > MaxStringLen \/ ~Need(buf, q + 1, n) THEN Corrupt
                    ELSE Read(Blob(Decoded(body)), q + n + 1)
              [] nested /\ Need(buf, q, 1) ->
                    IF depth >= MaxNestDepth \/ n > MaxNestElems THEN Corrupt
                    ELSE Container(t, ReadMany(buf, q + 1, n, depth + 1, t = "object"))
              [] t = "null" -> Read(Null, q)

RecordOf(id, fs) == IF fs.ok THEN Read([id |-> id, fields |-> fs.val], fs.next) ELSE Corrupt
kdb_record_deserialize(buf) ==
    IF ~Need(buf, 1, 3) \/ buf[3] > MaxColumns THEN Corrupt
    ELSE RecordOf(read_u64(SubSeq(buf, 1, 2)), ReadMany(buf, 4, buf[3], 0, TRUE))

\* In the file: the size, which only the reader holds against a limit, and the bytes.
kdb_record_write(r) == LET buf == kdb_record_serialize(r) IN <<Len(buf)>> \o buf
kdb_record_read(file) ==
    IF ~Need(file, 1, 1) \/ file[1] \notin 1 .. MaxRecordSize \/ ~Need(file, 2, file[1]) THEN Corrupt
    ELSE LET got == kdb_record_deserialize(SubSeq(file, 2, file[1] + 1))
         IN IF got.ok THEN Read(got.val, file[1] + 2) ELSE Corrupt

---------------------------------------------------------------------------
\* Fields by name.  A name is a sequence of characters, "." separates steps
\* into objects; a field of exactly that name comes first.

NoField == [t |-> "absent", v |-> 0]
FieldAt(fields, i) == IF i = 0 THEN NoField ELSE fields[i].value
kdb__find_field(fields, name) == FieldAt(fields, SelectInSeq(fields, LAMBDA f : f.name = name))

RECURSIVE FollowPath(_, _)
Descend(f, d, rest) == IF d = 1 \/ f.t # "object" THEN NoField ELSE FollowPath(f.v, rest)
FollowFrom(fields, path, d) ==
    IF d = 0 THEN kdb__find_field(fields, path)
    ELSE Descend(kdb__find_field(fields, Before(path, d)), d, After(path, d))
FollowPath(fields, path) == FollowFrom(fields, path, Place(path, {"."}))

OrPath(exact, fields, name) == IF exact # NoField \/ ~Contains(name, ".") THEN exact ELSE FollowPath(fields, name)
kdb_record_get_field(r, name) == OrPath(kdb__find_field(r.fields, name), r.fields, name)

\* A field is overwritten where it stands or added at the end.
kdb_record_set_field(r, name, val) ==
    LET i == SelectInSeq(r.fields, LAMBDA f : f.name = name)
        f == [name |-> name, value |-> val]
    IN [r EXCEPT !.fields = IF i = 0 THEN Append(@, f) ELSE [@ EXCEPT ![i] = f]]
=============================================================================
