------------------------- MODULE KdbForeignKeysProofs -------------------------
(***************************************************************************)
(* Foreign keys, for any tables, columns, keys, actions and caps: the      *)
(* types of rows and keys through every call and the uniqueness of ids;    *)
(* where every action is RESTRICT, a call that fails has written nothing;  *)
(* an accepted insert, and an accepted update or delete whose rows the     *)
(* indexes all find, leaves no row that points at nothing unless it        *)
(* pointed at nothing before, however deep the cascade; such a delete      *)
(* removes exactly the closure of what it matched.                         *)
(*                                                                         *)
(* A cascade is a recursion over calls and, within a call, over visits.    *)
(* What one call does is a relation of the rows before and after it        *)
(* (MovesUp for an update, TakesAway and Deletes for a delete); it is shown *)
(* to hold after any visit if it holds for the calls that visit makes, and *)
(* so, by induction on the depth left, for every call.                     *)
(***************************************************************************)
EXTENDS KdbForeignKeys, InductionLemmas, FiniteSetTheorems

---------------------------------------------------------------------------
\* Rows, keys and the writes of one table.

DB == [Tables -> Seq(Row)]

LEMMA ValFacts ==
    ASSUME NEW c \in Cols
    PROVE  /\ \A r \in Row : Val(r, c) = r[c] /\ r[c] \in Vals /\ DOMAIN r = Cols
           /\ \A p \in Fields : Val(p, c) \in Vals /\ DOMAIN p \subseteq Cols /\ (c \in DOMAIN p => p[c] \in Vals)
<1>1. \A r \in Row : Val(r, c) = r[c] /\ r[c] \in Vals /\ DOMAIN r = Cols
  BY DEF Row, Val
<1>2. \A p \in Fields : Val(p, c) \in Vals /\ DOMAIN p \subseteq Cols /\ (c \in DOMAIN p => p[c] \in Vals)
  <2> SUFFICES ASSUME NEW p \in Fields PROVE Val(p, c) \in Vals /\ DOMAIN p \subseteq Cols /\ (c \in DOMAIN p => p[c] \in Vals)
    OBVIOUS
  <2>1. PICK F \in SUBSET Cols : p \in [F -> Vals]
    BY DEF Fields
  <2>2. Null \in Vals
    BY ForeignKeyAssumption
  <2> QED BY <2>1, <2>2 DEF Val
<1> QED
  BY <1>1, <1>2

\* A patched row has the patched fields and keeps the others.
LEMMA PatchedFacts ==
    ASSUME NEW r \in Row, NEW p \in Fields
    PROVE  /\ Patched(r, p) \in Row
           /\ \A c \in Cols : Val(Patched(r, p), c) = IF c \in DOMAIN p THEN p[c] ELSE Val(r, c)
<1>1. PICK F \in SUBSET Cols : p \in [F -> Vals]
  BY DEF Fields
<1>2. DOMAIN r = Cols /\ DOMAIN p = F /\ DOMAIN r \cup DOMAIN p = Cols
  BY <1>1 DEF Row
<1>3. Patched(r, p) = [c \in Cols |-> IF c \in F THEN p[c] ELSE r[c]]
  BY <1>2 DEF Patched
<1>4. Patched(r, p) \in Row
  BY <1>1, <1>3 DEF Row
<1>5. \A c \in Cols : Val(Patched(r, p), c) = IF c \in DOMAIN p THEN p[c] ELSE Val(r, c)
  BY <1>2, <1>3 DEF Val
<1> QED
  BY <1>4, <1>5

\* The time of a write goes into updated_at alone.
LEMMA StampedFacts ==
    ASSUME now \in Clock, NEW r \in Row
    PROVE  /\ Stamped(r) \in Row
           /\ \A c \in Cols \ {"updated_at"} : Val(Stamped(r), c) = Val(r, c)
<1>1. DOMAIN r = Cols /\ now \in Vals /\ \A c \in Cols : r[c] \in Vals
  BY ForeignKeyAssumption DEF Row
<1>2. Stamped(r) = [c \in Cols |-> IF c = "updated_at" THEN now ELSE r[c]]
  BY <1>1 DEF Stamped
<1>3. Stamped(r) \in Row
  BY <1>1, <1>2 DEF Row
<1>4. \A c \in Cols \ {"updated_at"} : Val(Stamped(r), c) = Val(r, c)
  BY <1>1, <1>2 DEF Val
<1> QED
  BY <1>3, <1>4

\* A query for a key asks for its values in the columns.
LEMMA QueryFacts ==
    ASSUME NEW cs \in Seq(Cols), NEW key, DOMAIN key = DOMAIN cs, \A k \in DOMAIN cs : key[k] \in Vals
    PROVE  /\ Query(cs, key) \in Fields /\ DOMAIN Query(cs, key) = Range(cs)
           /\ Distinct(cs) => \A k \in DOMAIN cs : Query(cs, key)[cs[k]] = key[k]
<1> DEFINE At(c) == CHOOSE k \in DOMAIN cs : cs[k] = c
<1>1. \A c \in Range(cs) : At(c) \in DOMAIN cs /\ cs[At(c)] = c
  BY DEF Range
<1>2. Query(cs, key) = [c \in Range(cs) |-> key[At(c)]]
  BY DEF Query
<1>3. Range(cs) \in SUBSET Cols
  BY DEF Range
<1>4. \A k \in DOMAIN cs : cs[k] \in Range(cs)
  BY DEF Range
<1> HIDE DEF At
<1>5. Query(cs, key) \in [Range(cs) -> Vals]
  BY <1>1, <1>2
<1>6. Query(cs, key) \in Fields
  BY <1>3, <1>5 DEF Fields
<1>7. ASSUME Distinct(cs), NEW k \in DOMAIN cs PROVE Query(cs, key)[cs[k]] = key[k]
  <2>1. At(cs[k]) = k
    BY <1>1, <1>4, <1>7 DEF Distinct
  <2> QED BY <1>2, <1>4, <2>1
<1> QED
  BY <1>2, <1>5, <1>6, <1>7

\* A row matches the query for a whole key just if it has the key.
LEMMA QueryMatches ==
    ASSUME NEW cs \in Seq(Cols), Distinct(cs), NEW key, key = [k \in DOMAIN cs |-> key[k]],
           \A k \in DOMAIN cs : key[k] \in Vals, Whole(key), NEW x \in Row
    PROVE  MatchesAll(Query(cs, key), x) <=> KeyOf(x, cs) = key
<1>1. DOMAIN key = DOMAIN cs
  OBVIOUS
<1>2. DOMAIN Query(cs, key) = Range(cs) /\ \A k \in DOMAIN cs : Query(cs, key)[cs[k]] = key[k] /\ cs[k] \in Range(cs)
  <2>1. \A k \in DOMAIN cs : cs[k] \in Range(cs)
    BY DEF Range
  <2>2. DOMAIN Query(cs, key) = Range(cs) /\ \A k \in DOMAIN cs : Query(cs, key)[cs[k]] = key[k]
    BY <1>1, QueryFacts, Zenon
  <2> QED BY <2>1, <2>2
<1>3. \A k \in DOMAIN cs : key[k] # Null
  BY <1>1 DEF Whole
<1>4. ASSUME MatchesAll(Query(cs, key), x) PROVE KeyOf(x, cs) = key
  <2>1. \A k \in DOMAIN cs : Val(x, cs[k]) = key[k]
    BY <1>2, <1>4 DEF MatchesAll
  <2> QED BY <2>1 DEF KeyOf
<1>5. ASSUME KeyOf(x, cs) = key PROVE MatchesAll(Query(cs, key), x)
  <2>1. \A k \in DOMAIN cs : Val(x, cs[k]) = key[k]
    BY <1>5 DEF KeyOf
  <2>2. ASSUME NEW c \in Range(cs) PROVE Val(x, c) # Null /\ Val(x, c) = Query(cs, key)[c]
    <3>1. PICK k \in DOMAIN cs : cs[k] = c
      BY RangeIs
    <3> QED BY <1>2, <1>3, <2>1, <3>1
  <2> QED BY <1>2, <2>2 DEF MatchesAll
<1> QED
  BY <1>4, <1>5

\* What a key becomes when a patch is written over the row.
LEMMA KeyOfFacts ==
    ASSUME NEW cs \in Seq(Cols), NEW x \in Row
    PROVE  /\ KeyOf(x, cs) = [k \in DOMAIN cs |-> KeyOf(x, cs)[k]] /\ DOMAIN KeyOf(x, cs) = DOMAIN cs
           /\ \A k \in DOMAIN cs : KeyOf(x, cs)[k] = Val(x, cs[k]) /\ KeyOf(x, cs)[k] \in Vals
<1>1. \A k \in DOMAIN cs : cs[k] \in Cols
  OBVIOUS
<1>2. \A k \in DOMAIN cs : Val(x, cs[k]) \in Vals
  BY <1>1, ValFacts
<1> QED
  BY <1>2 DEF KeyOf

LEMMA KeyUntouched ==
    ASSUME NEW cs \in Seq(Cols), NEW x \in Row, NEW p \in Fields, Range(cs) \cap DOMAIN p = {}
    PROVE  KeyOf(Patched(x, p), cs) = KeyOf(x, cs)
<1>1. \A k \in DOMAIN cs : cs[k] \in Cols /\ cs[k] \in Range(cs)
  BY DEF Range
<1>2. \A k \in DOMAIN cs : Val(Patched(x, p), cs[k]) = Val(x, cs[k])
  BY <1>1, PatchedFacts
<1> QED
  BY <1>2 DEF KeyOf

LEMMA KeyWritten ==
    ASSUME NEW cs \in Seq(Cols), Distinct(cs), NEW x \in Row, NEW key, key = [k \in DOMAIN cs |-> key[k]],
           \A k \in DOMAIN cs : key[k] \in Vals
    PROVE  KeyOf(Patched(x, Query(cs, key)), cs) = key
<1>1. DOMAIN key = DOMAIN cs
  OBVIOUS
<1>2. /\ Query(cs, key) \in Fields /\ DOMAIN Query(cs, key) = Range(cs)
      /\ \A k \in DOMAIN cs : Query(cs, key)[cs[k]] = key[k]
  BY <1>1, QueryFacts
<1>3. \A k \in DOMAIN cs : cs[k] \in Cols /\ cs[k] \in Range(cs)
  BY DEF Range
<1>4. \A k \in DOMAIN cs : Val(Patched(x, Query(cs, key)), cs[k]) = key[k]
  BY <1>2, <1>3, PatchedFacts
<1> QED
  BY <1>4 DEF KeyOf

LEMMA RowsFacts ==
    ASSUME NEW R \in DB, NEW t \in Tables
    PROVE  R[t] \in Seq(Row) /\ \A r \in Range(R[t]) : r \in Row
<1>1. R[t] \in Seq(Row)
  BY DEF DB
<1> QED
  BY <1>1 DEF Range

\* A delete leaves the rows that do not match and the other tables.
LEMMA DeleteFacts ==
    ASSUME NEW R \in DB, NEW t \in Tables, NEW q, NEW S, S = kdb_table_delete(R, t, q)
    PROVE  /\ S \in DB
           /\ \A u \in Tables \ {t} : S[u] = R[u]
           /\ \A r : r \in Range(S[t]) <=> r \in Range(R[t]) /\ ~MatchesAll(q, r)
<1> DEFINE K == Range(R[t]) \ Matching(R, t, q)
           s == Only(R[t], K)
<1>1. s \in Seq(Row) /\ Range(s) = Range(R[t]) \cap K
  BY RowsFacts, OnlyFacts
<1>2. S = [R EXCEPT ![t] = s]
  BY DEF kdb_table_delete
<1> HIDE DEF s
<1>3. S \in DB /\ S[t] = s /\ \A u \in Tables \ {t} : S[u] = R[u]
  BY <1>1, <1>2 DEF DB
<1>4. \A r : r \in Range(S[t]) <=> r \in Range(R[t]) /\ ~MatchesAll(q, r)
  BY <1>1, <1>3 DEF Matching
<1> QED
  BY <1>3, <1>4

\* What an update makes of a row.
Rewritten(r, q, p) == IF MatchesAll(q, r) THEN Stamped(Patched(r, p)) ELSE r

LEMMA RewrittenFacts ==
    ASSUME now \in Clock, NEW r \in Row, NEW q, NEW p \in Fields
    PROVE  /\ Rewritten(r, q, p) \in Row
           /\ \A c \in Cols \ {"updated_at"} :
                 Val(Rewritten(r, q, p), c) = IF MatchesAll(q, r) THEN Val(Patched(r, p), c) ELSE Val(r, c)
           /\ \A cs \in Seq(Cols) : "updated_at" \notin Range(cs) =>
                 KeyOf(Rewritten(r, q, p), cs) = IF MatchesAll(q, r) THEN KeyOf(Patched(r, p), cs) ELSE KeyOf(r, cs)
<1>1. Patched(r, p) \in Row
  BY PatchedFacts
<1>2. Rewritten(r, q, p) \in Row
  BY <1>1, StampedFacts DEF Rewritten
<1>3. ASSUME NEW c \in Cols \ {"updated_at"}
      PROVE  Val(Rewritten(r, q, p), c) = IF MatchesAll(q, r) THEN Val(Patched(r, p), c) ELSE Val(r, c)
  BY <1>1, StampedFacts DEF Rewritten
<1>4. ASSUME NEW cs \in Seq(Cols), "updated_at" \notin Range(cs)
      PROVE  KeyOf(Rewritten(r, q, p), cs) = IF MatchesAll(q, r) THEN KeyOf(Patched(r, p), cs) ELSE KeyOf(r, cs)
  <2>1. \A k \in DOMAIN cs : cs[k] \in Cols /\ cs[k] # "updated_at"
    BY <1>4 DEF Range
  <2>2. \A k \in DOMAIN cs : Val(Rewritten(r, q, p), cs[k]) = IF MatchesAll(q, r) THEN Val(Patched(r, p), cs[k]) ELSE Val(r, cs[k])
    BY <1>3, <2>1
  <2> QED BY <2>2 DEF KeyOf
<1> QED
  BY <1>2, <1>3, <1>4

\* An update that succeeds patches the rows that match, in one table.
LEMMA UpdateFacts ==
    ASSUME now \in Clock, NEW R \in DB, NEW t \in Tables, NEW q, NEW p \in Fields, NEW res, res = kdb_table_update(R, t, q, p)
    PROVE  /\ res.rows \in DB /\ res.ok \in BOOLEAN
           /\ ~res.ok => res.rows = R
           /\ \A u \in Tables \ {t} : res.rows[u] = R[u]
           /\ res.ok => \A s : s \in Range(res.rows[t]) <=> \E r \in Range(R[t]) : s = Rewritten(r, q, p)
<1> DEFINE new == [i \in DOMAIN R[t] |-> Rewritten(R[t][i], q, p)]
           done == [ok |-> TRUE, rows |-> [R EXCEPT ![t] = new]]
<1>0. R[t] \in Seq(Row)
  BY RowsFacts
<1>1. res = [ok |-> FALSE, rows |-> R] \/ res = done
  BY DEF kdb_table_update, Rewritten
<1>2. new \in Seq(Row)
  <2>1. \A i \in DOMAIN R[t] : R[t][i] \in Row
    BY <1>0
  <2>2. \A i \in DOMAIN R[t] : Rewritten(R[t][i], q, p) \in Row
    BY <2>1, RewrittenFacts
  <2>3. DOMAIN R[t] = 1 .. Len(R[t]) /\ Len(R[t]) \in Nat
    BY <1>0
  <2> QED BY <2>2, <2>3
<1>3. \A s : s \in Range(new) <=> \E r \in Range(R[t]) : s = Rewritten(r, q, p)
  BY DEF Range
<1> HIDE DEF new
<1>4. CASE res = [ok |-> FALSE, rows |-> R]
  BY <1>4
<1>5. CASE res = done
  <2>1. done.rows \in DB /\ done.rows[t] = new /\ \A u \in Tables \ {t} : done.rows[u] = R[u]
    BY <1>2 DEF DB
  <2>2. done.ok = TRUE
    OBVIOUS
  <2> HIDE DEF done
  <2> QED BY <1>3, <1>5, <2>1, <2>2
<1> QED
  BY <1>1, <1>4, <1>5

\* Where the recursion of an insert starts.
Begun(R, id) == [ok |-> TRUE, rows |-> R, id |-> id]

LEMMA InsertUnfolds ==
    ASSUME NEW R, NEW t, NEW rs, NEW id, Len(rs) \in Nat
    PROVE  \E f : /\ f = [i \in 0 .. Len(rs) |-> IF i = 0 THEN Begun(R, id) ELSE Inserted(f[i - 1], t, rs[i])]
                  /\ kdb_table_insert_batch(R, t, rs, id) = f[Len(rs)]
<1> DEFINE n == Len(rs)
           First == Begun(R, id)
           Is(f, m) == f = [i \in 0 .. m |-> IF i = 0 THEN First ELSE Inserted(f[i - 1], t, rs[i])]
           G == {m \in Nat : \E f : Is(f, m)}
<1>5. kdb_table_insert_batch(R, t, rs, id) = (CHOOSE f : Is(f, n))[n]
  BY DEF kdb_table_insert_batch, Begun
<1>6. n \in Nat
  OBVIOUS
<1> HIDE DEF First, n
<1>1. 0 \in G
  <2>1. Is([i \in 0 .. 0 |-> First], 0)
    OBVIOUS
  <2> QED BY <2>1
<1>2. ASSUME NEW m \in Nat, m \in G PROVE m + 1 \in G
  <2>1. PICK f : Is(f, m)
    BY <1>2
  <2> DEFINE g == [i \in 0 .. m + 1 |-> IF i = m + 1 THEN Inserted(f[m], t, rs[i]) ELSE f[i]]
  <2>2. \A i \in 0 .. m + 1 : g[i] = IF i = 0 THEN First ELSE Inserted(g[i - 1], t, rs[i])
    <3> TAKE i \in 0 .. m + 1
    <3>1. CASE i = m + 1
      <4>1. g[i] = Inserted(f[m], t, rs[i]) /\ g[i - 1] = f[m] /\ i # 0
        BY <3>1
      <4> QED BY <4>1, <3>1
    <3>2. CASE i # m + 1
      BY <2>1, <3>2
    <3> QED BY <3>1, <3>2
  <2>3. Is(g, m + 1)
    BY <2>2, Zenon
  <2> HIDE DEF g
  <2> QED BY <2>3
<1>3. n \in G
  <2> HIDE DEF G
  <2> QED BY <1>1, <1>2, <1>6, InductionOnSet
<1>4. Is(CHOOSE f : Is(f, n), n)
  BY <1>3
<1> QED
  BY <1>4, <1>5, Zenon DEF First, n

\* A row is stored with its id, its fields and the defaults.
LEMMA FullFacts ==
    ASSUME now \in Clock, NEW t \in Tables, NEW r \in Fields, NEW id \in Vals
    PROVE  /\ Full(t, r, id) \in Row
           /\ \A c \in Cols \ {"updated_at"} :
                 Val(Full(t, r, id), c) = IF c = "id" THEN id ELSE IF c \in DOMAIN r THEN r[c] ELSE Val(Default[t], c)
<1> DEFINE f == [c \in Cols |-> IF c = "id" THEN id ELSE IF c \in DOMAIN r THEN r[c] ELSE Val(Default[t], c)]
<1>1. Default[t] \in Fields
  BY ForeignKeyAssumption
<1>2. \A c \in Cols : Val(Default[t], c) \in Vals /\ (c \in DOMAIN r => r[c] \in Vals)
  BY <1>1, ValFacts
<1>3. f \in Row
  BY <1>2 DEF Row
<1>4. \A c \in Cols : Val(f, c) = IF c = "id" THEN id ELSE IF c \in DOMAIN r THEN r[c] ELSE Val(Default[t], c)
  BY <1>3, ValFacts
<1>5. Full(t, r, id) = Stamped(f)
  BY DEF Full
<1> HIDE DEF f
<1> QED
  BY <1>3, <1>4, <1>5, StampedFacts

\* An insert adds rows at the end of its table, in as many steps as records.
LEMMA InsertFacts ==
    ASSUME now \in Clock, NEW R \in DB, NEW t \in Tables, NEW rs \in Seq(Fields), NEW id \in Nat \ {0}, id + Len(rs) <= MaxId + 1,
           NEW res, res = kdb_table_insert_batch(R, t, rs, id)
    PROVE  res.rows \in DB /\ res.ok \in BOOLEAN /\ res.id \in id .. id + Len(rs)
<1>0. Len(rs) \in Nat /\ DOMAIN rs = 1 .. Len(rs) /\ MaxId \in Nat /\ \A i \in 1 .. Len(rs) : rs[i] \in Fields
  BY ForeignKeyAssumption
<1>1. PICK f : /\ f = [i \in 0 .. Len(rs) |-> IF i = 0 THEN Begun(R, id) ELSE Inserted(f[i - 1], t, rs[i])]
               /\ kdb_table_insert_batch(R, t, rs, id) = f[Len(rs)]
  <2>1. Len(rs) \in Nat
    BY <1>0
  <2> QED BY <2>1, InsertUnfolds
<1> DEFINE Good(a, m) == a \in [ok : BOOLEAN, rows : DB, id : id .. id + m]
           G == {m \in Nat : Good(f[m], m)}
<1>2. 0 \in G
  <2>1. f[0] = [ok |-> TRUE, rows |-> R, id |-> id]
    BY <1>0, <1>1 DEF Begun
  <2>2. Good([ok |-> TRUE, rows |-> R, id |-> id], 0)
    OBVIOUS
  <2> HIDE DEF Good
  <2> QED BY <2>1, <2>2
<1>3. ASSUME NEW m \in 0 .. Len(rs) - 1, m \in G PROVE m + 1 \in G
  <2>0. m \in Nat /\ m + 1 \in 1 .. Len(rs)
    BY <1>0
  <2>1. f[m + 1] = Inserted(f[m], t, rs[m + 1])
    <3>1. m + 1 \in 0 .. Len(rs) /\ m + 1 # 0 /\ (m + 1) - 1 = m
      BY <1>0
    <3> QED BY <1>1, <3>1
  <2> DEFINE a == f[m]
             full == Full(t, rs[m + 1], a.id)
  <2>2. Good(a, m)
    <3> HIDE DEF Good
    <3> QED BY <1>3
  <2>3. rs[m + 1] \in Fields /\ a.id \in Nat \ {0} /\ a.id <= MaxId /\ a.id \in Vals
    BY <1>0, <2>0, <2>2, ForeignKeyAssumption
  <2>4. full \in Row
    BY <2>3, FullFacts
  <2>5. Good([a EXCEPT !.ok = FALSE], m + 1)
    <3> HIDE DEF a
    <3>1. id .. id + m \subseteq id .. id + (m + 1)
      BY <2>0
    <3>2. a \in [ok : BOOLEAN, rows : DB, id : id .. id + (m + 1)]
      BY <2>2, <3>1
    <3> QED BY <3>2
  <2>6. Good([ok |-> TRUE, rows |-> [a.rows EXCEPT ![t] = Append(@, full)], id |-> a.id + 1], m + 1)
    <3>1. a.rows[t] \in Seq(Row)
      BY <2>2, RowsFacts
    <3> HIDE DEF full
    <3>2. Append(a.rows[t], full) \in Seq(Row)
      BY <3>1, <2>4
    <3>3. [a.rows EXCEPT ![t] = Append(@, full)] \in DB
      BY <2>2, <3>2 DEF DB
    <3>4. a.id + 1 \in id .. id + (m + 1)
      BY <2>0, <2>2
    <3> QED BY <3>3, <3>4
  <2> HIDE DEF Good
  <2>7. Good(f[m + 1], m + 1)
    BY <2>1, <2>5, <2>6 DEF Inserted
  <2> QED BY <2>0, <2>7
<1>4. Len(rs) \in G
  <2>1. Len(rs) \in Nat /\ Len(rs) \in 0 .. Len(rs)
    BY <1>0
  <2> HIDE DEF G
  <2>2. \A m \in 0 .. Len(rs) : m \in G
    BY <2>1, <1>2, <1>3, InductionUpTo
  <2> QED BY <2>1, <2>2
<1> HIDE DEF Good
<1>5. Good(res, Len(rs))
  BY <1>1, <1>4
<1> QED
  BY <1>5 DEF Good

\* One record that is accepted is one more row.
Grown(R, t, r, id) == [R EXCEPT ![t] = Append(@, Full(t, r, id))]
Accepts(R, t, r, id, res) == res = kdb_table_insert_batch(R, t, <<r>>, id) /\ res.ok

LEMMA AddFacts ==
    ASSUME NEW R, NEW t, NEW r, NEW id, NEW res, Accepts(R, t, r, id, res)
    PROVE  res.rows = Grown(R, t, r, id) /\ res.id = id + 1
<1> USE DEF Accepts, Grown
<1> DEFINE rs == <<r>>
           First == Begun(R, id)
<1>1. Len(rs) = 1 /\ rs[1] = r /\ Len(rs) \in Nat
  OBVIOUS
<1>0. res = kdb_table_insert_batch(R, t, rs, id)
  OBVIOUS
<1> HIDE DEF rs
<1>2. PICK f : /\ f = [i \in 0 .. 1 |-> IF i = 0 THEN First ELSE Inserted(f[i - 1], t, rs[i])]
               /\ kdb_table_insert_batch(R, t, rs, id) = f[1]
  <2>1. \E f : /\ f = [i \in 0 .. Len(rs) |-> IF i = 0 THEN First ELSE Inserted(f[i - 1], t, rs[i])]
               /\ kdb_table_insert_batch(R, t, rs, id) = f[Len(rs)]
    <3>1. Len(rs) \in Nat
      BY <1>1
    <3> HIDE DEF First
    <3>2. \A a, b, c, d : Len(c) \in Nat =>
            \E f : /\ f = [i \in 0 .. Len(c) |-> IF i = 0 THEN Begun(a, d) ELSE Inserted(f[i - 1], b, c[i])]
                   /\ kdb_table_insert_batch(a, b, c, d) = f[Len(c)]
      BY InsertUnfolds, Zenon
    <3> QED BY <3>1, <3>2 DEF First
  <2> QED BY <1>1, <2>1
<1>3. f[0] = First /\ f[1] = Inserted(f[0], t, rs[1])
  <2>1. 0 \in 0 .. 1 /\ 1 \in 0 .. 1 /\ 1 - 1 = 0 /\ 1 # 0
    OBVIOUS
  <2> HIDE DEF First
  <2> QED BY <1>2, <2>1
<1>4. res = Inserted(First, t, r)
  BY <1>0, <1>1, <1>2, <1>3
<1>5. First.ok = TRUE /\ First.rows = R /\ First.id = id
  BY DEF Begun
<1>6. [First EXCEPT !.ok = FALSE].ok = FALSE
  BY DEF Begun
<1> HIDE DEF First
<1> DEFINE new == [R EXCEPT ![t] = Append(@, Full(t, r, id))]
<1>7. Inserted(First, t, r) = [ok |-> TRUE, rows |-> new, id |-> id + 1]
  BY <1>4, <1>5, <1>6 DEF Inserted
<1> HIDE DEF new
<1>8. res.rows = new /\ res.id = id + 1
  BY <1>4, <1>7
<1> QED
  BY <1>8 DEF new

---------------------------------------------------------------------------
\* The keys that point at a table, and the visits of a call.

\* What every state of the specification has: keys of tables that have a file,
\* and a time.
Fits == fks \in Seq(Key) /\ (\A i \in DOMAIN fks : fks[i].t \in exists) /\ now \in Clock

LEMMA KeyFacts ==
    ASSUME NEW g \in Key
    PROVE  /\ g.t \in Tables /\ g.ref \in Tables /\ g.del \in Action /\ g.upd \in Action
           /\ g.cols \in Seq(Cols) /\ g.refcols \in Seq(Cols)
           /\ Distinct(g.cols) /\ Distinct(g.refcols)
           /\ DOMAIN g.cols = 1 .. Len(g.cols) /\ DOMAIN g.refcols = DOMAIN g.cols /\ Len(g.cols) \in Nat
           /\ 1 \in DOMAIN g.cols
           /\ Range(g.cols) \cap Pseudo = {} /\ "id" \notin Range(g.cols) /\ "updated_at" \notin Range(g.cols)
           /\ Range(g.cols) \subseteq Cols /\ Range(g.refcols) \subseteq Cols
           /\ Len(g.refcols) = Len(g.cols)
<1>1. /\ g.t \in Tables /\ g.ref \in Tables /\ g.del \in Action /\ g.upd \in Action
      /\ g.cols \in Seq(Cols \ Pseudo) /\ g.refcols \in Seq(Cols)
      /\ Len(g.cols) = Len(g.refcols) /\ Len(g.cols) >= 1
      /\ Distinct(g.cols) /\ Distinct(g.refcols)
  BY DEF Key
<1>2. /\ DOMAIN g.cols = 1 .. Len(g.cols) /\ DOMAIN g.refcols = 1 .. Len(g.refcols) /\ Len(g.cols) \in Nat
      /\ \A k \in DOMAIN g.cols : g.cols[k] \in Cols /\ g.cols[k] \notin Pseudo
      /\ \A k \in DOMAIN g.refcols : g.refcols[k] \in Cols
  BY <1>1
<1>3. g.cols \in Seq(Cols)
  BY <1>1
<1>4. Range(g.cols) \cap Pseudo = {} /\ Range(g.cols) \subseteq Cols /\ Range(g.refcols) \subseteq Cols
  BY <1>2 DEF Range
<1>5. "id" \notin Range(g.cols) /\ "updated_at" \notin Range(g.cols)
  BY <1>4 DEF Pseudo
<1> QED
  BY <1>1, <1>2, <1>3, <1>4, <1>5

LEMMA FksFacts ==
    ASSUME fks \in Seq(Key)
    PROVE  /\ \A g \in Range(fks) : g \in Key /\ \E i \in DOMAIN fks : fks[i] = g
           /\ \A i \in DOMAIN fks : fks[i] \in Key /\ fks[i] \in Range(fks)
  BY DEF Range

\* A capped sequence is a first part of it, all of it within the cap.
LEMMA CappedFacts ==
    ASSUME NEW T, NEW s \in Seq(T), NEW cap \in Nat
    PROVE  /\ Capped(s, cap) \in Seq(T) /\ Range(Capped(s, cap)) \subseteq Range(s)
           /\ Len(s) <= cap => Capped(s, cap) = s
<1> DEFINE n == IF Len(s) < cap THEN Len(s) ELSE cap
           r == SubSeq(s, 1, n)
<1>1. Len(s) \in Nat /\ n \in Nat /\ n <= Len(s) /\ (Len(s) <= cap => n = Len(s))
  OBVIOUS
<1>2. DOMAIN s = 1 .. Len(s)
  OBVIOUS
<1> HIDE DEF n
<1>3. r \in Seq(T) /\ DOMAIN r = 1 .. n /\ \A i \in 1 .. n : r[i] = s[i]
  BY <1>1
<1>5. ASSUME Len(s) <= cap PROVE r = s
  BY <1>1, <1>5
<1> HIDE DEF r
<1>4. Range(r) \subseteq Range(s)
  <2>0. 1 .. n \subseteq 1 .. Len(s)
    <3>1. \A k, l \in Nat : k <= l => 1 .. k \subseteq 1 .. l
      OBVIOUS
    <3> QED BY <1>1, <3>1, Zenon
  <2>1. \A i \in DOMAIN r : i \in DOMAIN s /\ r[i] = s[i]
    BY <2>0, <1>2, <1>3, Zenon
  <2> QED BY <2>1 DEF Range
<1> QED
  BY <1>3, <1>4, <1>5 DEF Capped, n, r

LEMMA ReferencersFacts ==
    ASSUME fks \in Seq(Key), NEW t \in Tables
    PROVE  /\ \A c \in Cols : /\ kdb__find_fk_referencers(t, c) \in Seq(Key)
                              /\ Range(kdb__find_fk_referencers(t, c)) \subseteq ColumnReferencers(t, c)
                              /\ WithinCaps => Range(kdb__find_fk_referencers(t, c)) = ColumnReferencers(t, c)
           /\ kdb__find_composite_fk_referencers(t) \in Seq(Key)
           /\ Range(kdb__find_composite_fk_referencers(t)) \subseteq CompositeReferencers(t)
           /\ WithinCaps => Range(kdb__find_composite_fk_referencers(t)) = CompositeReferencers(t)
<1>0. MaxReferencers \in Nat /\ MaxCompositeReferencers \in Nat
  BY ForeignKeyAssumption
<1>1. ASSUME NEW c \in Cols
      PROVE  /\ kdb__find_fk_referencers(t, c) \in Seq(Key)
             /\ Range(kdb__find_fk_referencers(t, c)) \subseteq ColumnReferencers(t, c)
             /\ WithinCaps => Range(kdb__find_fk_referencers(t, c)) = ColumnReferencers(t, c)
  <2> DEFINE C == ColumnReferencers(t, c)
             s == Only(fks, C)
  <2>1. C \subseteq Range(fks)
    BY DEF ColumnReferencers, Referencers
  <2>2. s \in Seq(Key) /\ Range(s) = Range(fks) \cap C
    BY OnlyFacts
  <2>3. WithinCaps => Len(s) <= MaxReferencers
    BY DEF WithinCaps
  <2> HIDE DEF s, C
  <2>4. /\ Capped(s, MaxReferencers) \in Seq(Key) /\ Range(Capped(s, MaxReferencers)) \subseteq Range(s)
        /\ Len(s) <= MaxReferencers => Capped(s, MaxReferencers) = s
    BY <1>0, <2>2, CappedFacts
  <2> QED BY <2>1, <2>2, <2>3, <2>4 DEF kdb__find_fk_referencers, s, C
<1>2. /\ kdb__find_composite_fk_referencers(t) \in Seq(Key)
      /\ Range(kdb__find_composite_fk_referencers(t)) \subseteq CompositeReferencers(t)
      /\ WithinCaps => Range(kdb__find_composite_fk_referencers(t)) = CompositeReferencers(t)
  <2> DEFINE C == CompositeReferencers(t)
             s == Only(fks, C)
  <2>1. C \subseteq Range(fks)
    BY DEF CompositeReferencers, Referencers
  <2>2. s \in Seq(Key) /\ Range(s) = Range(fks) \cap C
    BY OnlyFacts
  <2>3. WithinCaps => Len(s) <= MaxCompositeReferencers
    BY DEF WithinCaps
  <2> HIDE DEF s, C
  <2>4. /\ Capped(s, MaxCompositeReferencers) \in Seq(Key) /\ Range(Capped(s, MaxCompositeReferencers)) \subseteq Range(s)
        /\ Len(s) <= MaxCompositeReferencers => Capped(s, MaxCompositeReferencers) = s
    BY <1>0, <2>2, CappedFacts
  <2> QED BY <2>1, <2>2, <2>3, <2>4 DEF kdb__find_composite_fk_referencers, s, C
<1> QED
  BY <1>1, <1>2

Pair == [row : Row, fk : Key]

\* The nested loops visit each row with each key.
LEMMA LoopFacts ==
    ASSUME NEW A \in Seq(Row), NEW refs \in Seq(Key)
    PROVE  /\ ByRow(A, refs) \in Seq(Pair) /\ ByKey(refs, A) \in Seq(Pair)
           /\ \A w : w \in Range(ByRow(A, refs)) <=> \E r \in Range(A), k \in Range(refs) : w = [row |-> r, fk |-> k]
           /\ \A w : w \in Range(ByKey(refs, A)) <=> \E r \in Range(A), k \in Range(refs) : w = [row |-> r, fk |-> k]
<1>0. /\ DOMAIN A = 1 .. Len(A) /\ Len(A) \in Nat /\ \A i \in DOMAIN A : A[i] \in Row
      /\ DOMAIN refs = 1 .. Len(refs) /\ Len(refs) \in Nat /\ \A j \in DOMAIN refs : refs[j] \in Key
  OBVIOUS
<1> DEFINE V(i, j) == [row |-> A[i], fk |-> refs[j]]
<1>1. \A i \in DOMAIN A, j \in DOMAIN refs : V(i, j) \in Pair
  BY <1>0 DEF Pair
<1>2. /\ ByRow(A, refs) \in Seq(Pair)
      /\ \A w : w \in Range(ByRow(A, refs)) <=> \E i \in DOMAIN A, j \in DOMAIN refs : w = V(i, j)
  <2> DEFINE ss == [i \in DOMAIN A |-> [j \in DOMAIN refs |-> V(i, j)]]
  <2>1. ByRow(A, refs) = FlattenSeq(ss)
    BY DEF ByRow
  <2> HIDE DEF V
  <2>2. \A i \in DOMAIN A : ss[i] \in Seq(Pair)
    BY <1>0, <1>1
  <2>3. ss \in Seq(Seq(Pair)) /\ DOMAIN ss = DOMAIN A
    BY <1>0, <2>2
  <2>4. \A i \in DOMAIN A : \A w : w \in Range(ss[i]) <=> \E j \in DOMAIN refs : w = V(i, j)
    BY DEF Range
  <2> HIDE DEF ss
  <2>5. FlattenSeq(ss) \in Seq(Pair) /\ Range(FlattenSeq(ss)) = UNION {Range(ss[i]) : i \in DOMAIN ss}
    BY <2>3, FlattenFacts
  <2> QED BY <2>1, <2>3, <2>4, <2>5
<1>3. /\ ByKey(refs, A) \in Seq(Pair)
      /\ \A w : w \in Range(ByKey(refs, A)) <=> \E i \in DOMAIN A, j \in DOMAIN refs : w = V(i, j)
  <2> DEFINE ss == [j \in DOMAIN refs |-> [i \in DOMAIN A |-> V(i, j)]]
  <2>1. ByKey(refs, A) = FlattenSeq(ss)
    BY DEF ByKey
  <2> HIDE DEF V
  <2>2. \A j \in DOMAIN refs : ss[j] \in Seq(Pair)
    BY <1>0, <1>1
  <2>3. ss \in Seq(Seq(Pair)) /\ DOMAIN ss = DOMAIN refs
    BY <1>0, <2>2
  <2>4. \A j \in DOMAIN refs : \A w : w \in Range(ss[j]) <=> \E i \in DOMAIN A : w = V(i, j)
    BY DEF Range
  <2> HIDE DEF ss
  <2>5. FlattenSeq(ss) \in Seq(Pair) /\ Range(FlattenSeq(ss)) = UNION {Range(ss[j]) : j \in DOMAIN ss}
    BY <2>3, FlattenFacts
  <2> QED BY <2>1, <2>3, <2>4, <2>5
<1>4. \A w : (\E i \in DOMAIN A, j \in DOMAIN refs : w = V(i, j)) <=> \E r \in Range(A), k \in Range(refs) : w = [row |-> r, fk |-> k]
  BY DEF Range
<1> HIDE DEF V
<1> QED
  BY <1>2, <1>3, <1>4

\* The visits a call makes: a row it affects and a key that points at a column
\* it touches.
Visits(t, A, p, composite) ==
    {w \in Pair : /\ w.row \in Range(A) /\ w.fk \in Range(fks) /\ w.fk.ref = t
                  /\ Touched(w.fk.refcols, p) /\ (composite <=> Len(w.fk.cols) > 1)}

LEMMA CompositeVisitsFacts ==
    ASSUME Fits, NEW t \in Tables, NEW A \in Seq(Row), NEW p, NEW vs, vs = CompositeVisits(t, A, p)
    PROVE  /\ vs \in Seq(Pair) /\ Range(vs) \subseteq Visits(t, A, p, TRUE)
           /\ WithinCaps => Visits(t, A, p, TRUE) \subseteq Range(vs)
<1> DEFINE refs == kdb__find_composite_fk_referencers(t)
           H == {fk \in Range(refs) : Touched(fk.refcols, p)}
           s == Only(refs, H)
<1>1. refs \in Seq(Key) /\ Range(refs) \subseteq CompositeReferencers(t) /\ (WithinCaps => Range(refs) = CompositeReferencers(t))
  BY ReferencersFacts DEF Fits
<1>2. \A g : g \in CompositeReferencers(t) <=> g \in Range(fks) /\ g.ref = t /\ Len(g.cols) > 1
  <2>1. \A g \in Range(fks) : g.t \in exists
    BY DEF Fits, Range
  <2> QED BY <2>1 DEF CompositeReferencers, Referencers
<1>3. vs = ByKey(s, A)
  BY DEF CompositeVisits
<1> HIDE DEF refs
<1>4. s \in Seq(Key) /\ Range(s) = Range(refs) \cap H
  BY <1>1, OnlyFacts
<1>5. Range(s) = H
  BY <1>4
<1> HIDE DEF s
<1>6. vs \in Seq(Pair) /\ \A w : w \in Range(vs) <=> \E r \in Range(A), k \in Range(s) : w = [row |-> r, fk |-> k]
  BY <1>3, <1>4, LoopFacts
<1>7. Range(A) \subseteq Row /\ Range(fks) \subseteq Key
  BY DEF Fits, Range
<1>8. ASSUME NEW w \in Range(vs) PROVE w \in Visits(t, A, p, TRUE)
  <2>1. PICK r \in Range(A), k \in Range(s) : w = [row |-> r, fk |-> k]
    BY <1>6
  <2>2. k \in Range(fks) /\ k.ref = t /\ Len(k.cols) > 1 /\ Touched(k.refcols, p)
    BY <1>1, <1>2, <1>5
  <2>3. w.row = r /\ w.fk = k
    BY <2>1
  <2>4. w \in Pair
    BY <2>1, <2>2, <1>7 DEF Pair
  <2> QED BY <2>2, <2>3, <2>4 DEF Visits
<1>9. ASSUME WithinCaps, NEW w \in Visits(t, A, p, TRUE) PROVE w \in Range(vs)
  <2>1. w = [row |-> w.row, fk |-> w.fk] /\ w.row \in Range(A) /\ w.fk \in H
    BY <1>1, <1>2, <1>9 DEF Visits, Pair
  <2> QED BY <1>5, <1>6, <2>1
<1> QED
  BY <1>6, <1>8, <1>9

LEMMA OneColumn ==
    ASSUME NEW T, NEW s \in Seq(T), 1 \in DOMAIN s
    PROVE  ~(Len(s) > 1) <=> s = <<s[1]>>
<1>1. DOMAIN s = 1 .. Len(s) /\ Len(s) \in Nat
  OBVIOUS
<1>2. ASSUME ~(Len(s) > 1) PROVE s = <<s[1]>>
  <2>1. Len(s) = 1
    BY <1>1, <1>2
  <2> QED BY <2>1
<1>3. ASSUME s = <<s[1]>> PROVE ~(Len(s) > 1)
  <2> DEFINE x == s[1]
  <2>1. s = <<x>>
    BY <1>3
  <2> HIDE DEF x
  <2>2. Len(s) = 1
    BY <2>1
  <2> QED BY <2>2
<1> QED
  BY <1>2, <1>3

LEMMA SingleVisitsFacts ==
    ASSUME Fits, NEW t \in Tables, NEW A \in Seq(Row), NEW p, NEW vs, vs = SingleVisits(t, A, p)
    PROVE  /\ vs \in Seq(Pair) /\ Range(vs) \subseteq Visits(t, A, p, FALSE)
           /\ WithinCaps => Visits(t, A, p, FALSE) \subseteq Range(vs)
<1> DEFINE refs(k) == kdb__find_fk_referencers(t, ColOrder[k])
           ss == [k \in DOMAIN ColOrder |-> IF Touched(<<ColOrder[k]>>, p) THEN ByRow(A, refs(k)) ELSE << >>]
<1>0. /\ DOMAIN ColOrder = 1 .. Len(ColOrder) /\ Len(ColOrder) \in Nat
      /\ \A k \in DOMAIN ColOrder : ColOrder[k] \in Cols
      /\ \A c \in Cols : \E k \in DOMAIN ColOrder : ColOrder[k] = c
  BY ForeignKeyAssumption DEF Cols
<1>1. \A k \in DOMAIN ColOrder :
        /\ refs(k) \in Seq(Key) /\ Range(refs(k)) \subseteq ColumnReferencers(t, ColOrder[k])
        /\ WithinCaps => Range(refs(k)) = ColumnReferencers(t, ColOrder[k])
  BY <1>0, ReferencersFacts DEF Fits
<1>2. \A c, g : g \in ColumnReferencers(t, c) <=> g \in Range(fks) /\ g.ref = t /\ g.refcols = <<c>>
  <2>1. \A g \in Range(fks) : g.t \in exists
    BY DEF Fits, Range
  <2> QED BY <2>1 DEF ColumnReferencers, Referencers
<1>3. vs = FlattenSeq(ss)
  BY DEF SingleVisits
<1> HIDE DEF refs
<1>4. \A k \in DOMAIN ColOrder :
        /\ ByRow(A, refs(k)) \in Seq(Pair)
        /\ \A w : w \in Range(ByRow(A, refs(k))) <=> \E r \in Range(A), g \in Range(refs(k)) : w = [row |-> r, fk |-> g]
  BY <1>1, LoopFacts
<1>5. ss \in Seq(Seq(Pair)) /\ DOMAIN ss = DOMAIN ColOrder
  <2>1. \A k \in DOMAIN ColOrder : (IF Touched(<<ColOrder[k]>>, p) THEN ByRow(A, refs(k)) ELSE << >>) \in Seq(Pair)
    BY <1>4
  <2> QED BY <1>0, <2>1
<1>6. \A k \in DOMAIN ColOrder : \A w : w \in Range(ss[k]) <=>
        Touched(<<ColOrder[k]>>, p) /\ \E r \in Range(A), g \in Range(refs(k)) : w = [row |-> r, fk |-> g]
  <2> SUFFICES ASSUME NEW k \in DOMAIN ColOrder, NEW w
               PROVE  w \in Range(ss[k]) <=>
                        Touched(<<ColOrder[k]>>, p) /\ \E r \in Range(A), g \in Range(refs(k)) : w = [row |-> r, fk |-> g]
    OBVIOUS
  <2>1. CASE Touched(<<ColOrder[k]>>, p)
    BY <1>4, <2>1
  <2>2. CASE ~Touched(<<ColOrder[k]>>, p)
    <3>1. ss[k] = << >>
      BY <2>2
    <3> QED BY <2>2, <3>1 DEF Range
  <2> QED BY <2>1, <2>2
<1> HIDE DEF ss
<1>7. vs \in Seq(Pair) /\ Range(vs) = UNION {Range(ss[k]) : k \in DOMAIN ss}
  BY <1>3, <1>5, FlattenFacts
<1>8. \A w : w \in Range(vs) <=> \E k \in DOMAIN ColOrder : w \in Range(ss[k])
  BY <1>5, <1>7
<1>9. Range(A) \subseteq Row /\ Range(fks) \subseteq Key
  BY DEF Fits, Range
<1>10. \A g \in Range(fks) : ~(Len(g.cols) > 1) <=> g.refcols = <<g.refcols[1]>>
  <2> SUFFICES ASSUME NEW g \in Range(fks) PROVE ~(Len(g.cols) > 1) <=> g.refcols = <<g.refcols[1]>>
    OBVIOUS
  <2>1. Len(g.refcols) = Len(g.cols) /\ g.refcols \in Seq(Cols) /\ 1 \in DOMAIN g.refcols
    <3>1. g \in Key
      BY <1>9
    <3> QED BY <3>1, KeyFacts
  <2> QED BY <2>1, OneColumn
<1>11. ASSUME NEW w \in Range(vs) PROVE w \in Visits(t, A, p, FALSE)
  <2>1. PICK k \in DOMAIN ColOrder : w \in Range(ss[k])
    BY <1>8
  <2>2. Touched(<<ColOrder[k]>>, p)
    BY <1>6, <2>1
  <2>3. PICK r \in Range(A), g \in Range(refs(k)) : w = [row |-> r, fk |-> g]
    BY <1>6, <2>1
  <2>4. g \in Range(fks) /\ g.ref = t /\ g.refcols = <<ColOrder[k]>>
    BY <1>1, <1>2
  <2>5. g.refcols[1] = ColOrder[k]
    BY <2>4
  <2>6. ~(Len(g.cols) > 1)
    BY <1>10, <2>4, <2>5
  <2>7. w.row = r /\ w.fk = g /\ w \in Pair
    BY <1>9, <2>3, <2>4 DEF Pair
  <2> QED BY <2>2, <2>4, <2>6, <2>7 DEF Visits
<1>12. ASSUME WithinCaps, NEW w \in Visits(t, A, p, FALSE) PROVE w \in Range(vs)
  <2>1. /\ w = [row |-> w.row, fk |-> w.fk] /\ w.row \in Range(A) /\ w.fk \in Range(fks) /\ w.fk.ref = t
        /\ Touched(w.fk.refcols, p) /\ ~(Len(w.fk.cols) > 1)
    BY <1>12 DEF Visits, Pair
  <2>2. w.fk.refcols = <<w.fk.refcols[1]>>
    BY <1>10, <2>1
  <2>3. w.fk.refcols[1] \in Cols
    <3>1. w.fk \in Key
      BY <1>9, <2>1
    <3>2. w.fk.refcols \in Seq(Cols) /\ 1 \in DOMAIN w.fk.refcols
      BY <3>1, KeyFacts
    <3> QED BY <3>2
  <2>4. PICK k \in DOMAIN ColOrder : ColOrder[k] = w.fk.refcols[1]
    BY <1>0, <2>3
  <2>5. w.fk \in Range(refs(k))
    BY <1>1, <1>2, <1>12, <2>1, <2>2, <2>4
  <2>6. Touched(<<ColOrder[k]>>, p)
    BY <2>1, <2>2, <2>4
  <2>7. w \in Range(ss[k])
    BY <1>6, <2>1, <2>5, <2>6
  <2> QED BY <1>8, <2>7
<1> QED
  BY <1>7, <1>11, <1>12

\* A call visits the rows and keys it has to, and within the caps all of them.
LEMMA VisitsFacts ==
    ASSUME Fits, NEW c \in Call, NEW vs, vs = VisitsOf(c)
    PROVE  /\ vs \in Seq(Pair) /\ Range(vs) \subseteq Visits(c.t, c.affected, c.patch, c.composite)
           /\ WithinCaps => Visits(c.t, c.affected, c.patch, c.composite) \subseteq Range(vs)
<1>1. c.t \in Tables /\ c.affected \in Seq(Row) /\ c.composite \in BOOLEAN
  BY DEF Call
<1>2. CASE c.composite = TRUE
  <2>1. vs = CompositeVisits(c.t, c.affected, c.patch)
    BY <1>2 DEF VisitsOf
  <2> QED BY <1>1, <1>2, <2>1, CompositeVisitsFacts
<1>3. CASE c.composite = FALSE
  <2>1. vs = SingleVisits(c.t, c.affected, c.patch)
    BY <1>3 DEF VisitsOf
  <2> QED BY <1>1, <1>3, <2>1, SingleVisitsFacts
<1> QED
  BY <1>1, <1>2, <1>3

---------------------------------------------------------------------------
\* The visits one after the other, and the calls for every depth.

\* The results after each visit.
Course(f, e, R, vs, p) ==
    f = [n \in 0 .. Len(vs) |-> IF n = 0 THEN Done(R) ELSE Acted(e, f[n - 1], vs[n], p)]

LEMMA ActAllUnfolds ==
    ASSUME NEW e, NEW R, NEW vs, NEW p, Len(vs) \in Nat
    PROVE  \E f : Course(f, e, R, vs, p) /\ ActAll(e, R, vs, p) = f[Len(vs)]
<1> DEFINE n == Len(vs)
           First == Done(R)
           Is(f, m) == f = [i \in 0 .. m |-> IF i = 0 THEN First ELSE Acted(e, f[i - 1], vs[i], p)]
           G == {m \in Nat : \E f : Is(f, m)}
<1>5. ActAll(e, R, vs, p) = (CHOOSE f : Is(f, n))[n]
  BY DEF ActAll
<1>6. n \in Nat
  OBVIOUS
<1> HIDE DEF First, n
<1>1. 0 \in G
  <2>1. Is([i \in 0 .. 0 |-> First], 0)
    OBVIOUS
  <2> QED BY <2>1
<1>2. ASSUME NEW m \in Nat, m \in G PROVE m + 1 \in G
  <2>1. PICK f : Is(f, m)
    BY <1>2
  <2> DEFINE g == [i \in 0 .. m + 1 |-> IF i = m + 1 THEN Acted(e, f[m], vs[i], p) ELSE f[i]]
  <2>2. \A i \in 0 .. m + 1 : g[i] = IF i = 0 THEN First ELSE Acted(e, g[i - 1], vs[i], p)
    <3> TAKE i \in 0 .. m + 1
    <3>1. CASE i = m + 1
      <4>1. g[i] = Acted(e, f[m], vs[i], p) /\ g[i - 1] = f[m] /\ i # 0
        BY <3>1
      <4> QED BY <4>1, <3>1
    <3>2. CASE i # m + 1
      BY <2>1, <3>2
    <3> QED BY <3>1, <3>2
  <2>3. Is(g, m + 1)
    BY <2>2, Zenon
  <2> HIDE DEF g
  <2> QED BY <2>3
<1>3. n \in G
  <2> HIDE DEF G
  <2> QED BY <1>1, <1>2, <1>6, InductionOnSet
<1>4. Is(CHOOSE f : Is(f, n), n)
  BY <1>3
<1> QED
  BY <1>4, <1>5, Zenon DEF First, n, Course

\* What holds before the first visit, with the number of visits made, and is
\* kept by each holds after the last.
LEMMA ActAllInduction ==
    ASSUME NEW e, NEW R, NEW p, NEW T, NEW vs \in Seq(T), NEW G,
           <<0, Done(R)>> \in G,
           \A n \in 0 .. Len(vs) - 1 : \A a : <<n, a>> \in G => <<n + 1, Acted(e, a, vs[n + 1], p)>> \in G
    PROVE  <<Len(vs), ActAll(e, R, vs, p)>> \in G
<1>0. Len(vs) \in Nat
  OBVIOUS
<1>1. PICK f : Course(f, e, R, vs, p) /\ ActAll(e, R, vs, p) = f[Len(vs)]
  <2>1. \A a, b, c, d : Len(c) \in Nat => \E f : Course(f, a, b, c, d) /\ ActAll(a, b, c, d) = f[Len(c)]
    BY ActAllUnfolds, Zenon
  <2> QED BY <1>0, <2>1, Zenon
<1> DEFINE H == {n \in Nat : <<n, f[n]>> \in G}
<1>2. 0 \in H
  <2>1. f[0] = Done(R)
    BY <1>0, <1>1 DEF Course
  <2> QED BY <2>1
<1>3. ASSUME NEW n \in 0 .. Len(vs) - 1, n \in H PROVE n + 1 \in H
  <2>1. n \in Nat /\ n + 1 \in 0 .. Len(vs) /\ n + 1 # 0 /\ (n + 1) - 1 = n
    BY <1>0
  <2>2. f[n + 1] = Acted(e, f[n], vs[n + 1], p)
    BY <1>1, <2>1 DEF Course
  <2>3. <<n, f[n]>> \in G
    BY <1>3
  <2>4. <<n + 1, Acted(e, f[n], vs[n + 1], p)>> \in G
    BY <2>3
  <2> QED BY <2>1, <2>2, <2>4
<1>4. Len(vs) \in H
  <2>1. Len(vs) \in 0 .. Len(vs)
    BY <1>0
  <2> HIDE DEF H
  <2>2. \A n \in 0 .. Len(vs) : n \in H
    BY <1>0, <1>2, <1>3, InductionUpTo
  <2> QED BY <2>1, <2>2
<1> QED
  BY <1>1, <1>4

\* One layer of Enforce, over the layer below.
Layer(e, left) == [c \in Call |-> IF left = 0 THEN Failed(c.rows) ELSE ActAll(e, c.rows, VisitsOf(c), c.patch)]

LEMMA EnforceUnfolds == Enforce = [left \in 0 .. MaxDepth + 1 |-> Layer(Enforce[left - 1], left)]
<1> DEFINE Is(f, m) == f = [left \in 0 .. m |-> Layer(f[left - 1], left)]
           G == {m \in Nat : \E f : Is(f, m)}
           n == MaxDepth + 1
<1>0. MaxDepth \in Nat /\ n \in Nat
  BY ForeignKeyAssumption
<1>1. Enforce = CHOOSE f : Is(f, n)
  BY DEF Enforce, Layer
<1> HIDE DEF n
<1>2. 0 \in G
  <2> DEFINE g == [left \in 0 .. 0 |-> Layer(<< >>, 0)]
  <2>1. \A left \in 0 .. 0 : g[left] = Layer(g[left - 1], left)
    BY DEF Layer
  <2>2. Is(g, 0)
    BY <2>1, Zenon
  <2> HIDE DEF g
  <2> QED BY <2>2
<1>3. ASSUME NEW m \in Nat, m \in G PROVE m + 1 \in G
  <2>1. PICK f : Is(f, m)
    BY <1>3
  <2> DEFINE g == [left \in 0 .. m + 1 |-> IF left = m + 1 THEN Layer(f[m], left) ELSE f[left]]
  <2>2. \A left \in 0 .. m + 1 : g[left] = Layer(g[left - 1], left)
    <3> TAKE left \in 0 .. m + 1
    <3>1. CASE left = m + 1
      <4>1. g[left] = Layer(f[m], left) /\ g[left - 1] = f[m]
        BY <3>1
      <4> QED BY <4>1
    <3>2. CASE left = 0
      <4>1. g[left] = Layer(f[left - 1], left)
        BY <2>1, <3>2
      <4> QED BY <4>1, <3>2 DEF Layer
    <3>3. CASE left # m + 1 /\ left # 0
      BY <2>1, <3>3
    <3> QED BY <3>1, <3>2, <3>3
  <2>3. Is(g, m + 1)
    BY <2>2, Zenon
  <2> HIDE DEF g
  <2> QED BY <2>3
<1>4. n \in G
  <2> HIDE DEF G
  <2> QED BY <1>0, <1>2, <1>3, InductionOnSet
<1>5. Is(CHOOSE f : Is(f, n), n)
  BY <1>4
<1> QED
  BY <1>1, <1>5 DEF n

\* What holds where no cascade is allowed, and of one layer when of the layer
\* below, holds of the calls the operations make.
LEMMA EnforceInduction ==
    ASSUME NEW G, [c \in Call |-> Failed(c.rows)] \in G,
           \A e \in G : [c \in Call |-> ActAll(e, c.rows, VisitsOf(c), c.patch)] \in G
    PROVE  Enforced \in G
<1> DEFINE H == {n \in Nat : Enforce[n] \in G}
           n == MaxDepth + 1
<1>0. MaxDepth \in Nat /\ n \in Nat /\ n \in 0 .. n
  BY ForeignKeyAssumption
<1>1. 0 \in H
  <2>1. Enforce[0] = Layer(Enforce[0 - 1], 0)
    BY <1>0, EnforceUnfolds
  <2>2. Layer(Enforce[0 - 1], 0) = [c \in Call |-> Failed(c.rows)]
    BY DEF Layer
  <2> QED BY <2>1, <2>2
<1>2. ASSUME NEW m \in 0 .. n - 1, m \in H PROVE m + 1 \in H
  <2>1. m \in Nat /\ m + 1 \in 0 .. MaxDepth + 1 /\ m + 1 # 0 /\ (m + 1) - 1 = m
    BY <1>0
  <2>2. Enforce[m + 1] = Layer(Enforce[m], m + 1)
    BY <2>1, EnforceUnfolds
  <2>3. Layer(Enforce[m], m + 1) = [c \in Call |-> ActAll(Enforce[m], c.rows, VisitsOf(c), c.patch)]
    BY <2>1 DEF Layer
  <2>4. [c \in Call |-> ActAll(Enforce[m], c.rows, VisitsOf(c), c.patch)] \in G
    BY <1>2
  <2> QED BY <2>1, <2>2, <2>3, <2>4
<1>3. n \in H
  <2> HIDE DEF H, n
  <2>1. \A m \in 0 .. n : m \in H
    BY <1>0, <1>1, <1>2, InductionUpTo
  <2> QED BY <1>0, <2>1
<1> QED
  BY <1>3 DEF Enforced

---------------------------------------------------------------------------
\* The types of results.

Result == [ok : BOOLEAN, rows : DB]
Typed(e) == \A c \in Call : e[c] \in Result

LEMMA ResultFacts ==
    ASSUME NEW R \in DB
    PROVE  /\ Done(R) \in Result /\ Done(R).ok = TRUE /\ Done(R).rows = R
           /\ Failed(R) \in Result /\ Failed(R).ok = FALSE /\ Failed(R).rows = R
           /\ \A b \in BOOLEAN : [ok |-> b, rows |-> R] \in Result
  BY DEF Done, Failed, Result

LEMMA NoPatchFits == NoPatch \in Fields /\ DOMAIN NoPatch = {}
<1>1. NoPatch \in [{} -> Vals] /\ DOMAIN NoPatch = {}
  BY DEF NoPatch
<1> QED
  BY <1>1 DEF Fields

LEMMA FoundFacts ==
    ASSUME NEW R \in DB, NEW t \in Tables, NEW q
    PROVE  /\ Found(R, t, q) \in Seq(Row)
           /\ \A r \in Range(Found(R, t, q)) : r \in Range(R[t]) /\ MatchesAll(q, r)
           /\ unseen = {} => \A r \in Range(R[t]) : MatchesAll(q, r) => r \in Range(Found(R, t, q))
<1> DEFINE M == {r \in Matching(R, t, q) : DOMAIN q = {} \/ r["id"] \notin unseen}
<1>1. R[t] \in Seq(Row)
  BY RowsFacts
<1>2. Found(R, t, q) \in Seq(Row) /\ Range(Found(R, t, q)) = Range(R[t]) \cap M
  BY <1>1, OnlyFacts DEF Found
<1> QED
  BY <1>2 DEF Matching

LEMMA ArgsFacts ==
    ASSUME NEW R \in DB, NEW t \in Tables, NEW A \in Seq(Row), NEW p \in Fields, NEW b \in BOOLEAN, NEW c, c = Args(R, t, A, p, b)
    PROVE  c \in Call /\ c.rows = R /\ c.t = t /\ c.affected = A /\ c.patch = p /\ c.composite = b
  BY DEF Args, Call, DB

LEMMA CallTyped ==
    ASSUME NEW e, Typed(e), NEW R \in DB, NEW t \in Tables, NEW A \in Seq(Row), NEW p \in Fields, NEW b \in BOOLEAN
    PROVE  e[Args(R, t, A, p, b)] \in Result
<1>1. Args(R, t, A, p, b) \in Call
  BY DEF Args, Call, DB
<1> QED
  BY <1>1 DEF Typed

LEMMA UpdateTyped ==
    ASSUME now \in Clock, NEW R \in DB, NEW t \in Tables, NEW q, NEW p \in Fields
    PROVE  kdb_table_update(R, t, q, p) \in Result
<1> DEFINE res == kdb_table_update(R, t, q, p)
<1>1. res.rows \in DB /\ res.ok \in BOOLEAN
  BY UpdateFacts
<1>2. res = [ok |-> res.ok, rows |-> res.rows]
  BY DEF kdb_table_update
<1> HIDE DEF res
<1>3. res \in Result
  BY <1>1, <1>2 DEF Result
<1> QED
  BY <1>3 DEF res

\* What the key of the children of a visit becomes, and the patch that does it.
LEMMA NewKeyFacts ==
    ASSUME NEW w \in Pair, NEW p \in Fields, NEW K, K = NewKey(w, p), NEW np, np = Query(w.fk.cols, K)
    PROVE  /\ K = [k \in DOMAIN w.fk.cols |-> K[k]] /\ DOMAIN K = DOMAIN w.fk.cols /\ \A k \in DOMAIN w.fk.cols : K[k] \in Vals
           /\ ActionOf(w, p) = "setnull" => \A k \in DOMAIN w.fk.cols : K[k] = Null
           /\ ActionOf(w, p) # "setnull" => K = KeyOf(Patched(w.row, p), w.fk.refcols)
           /\ np \in Fields /\ DOMAIN np = Range(w.fk.cols) /\ np # NoPatch
           /\ \A k \in DOMAIN w.fk.cols : np[w.fk.cols[k]] = K[k]
<1> DEFINE g == w.fk
<1>1. w.row \in Row /\ g \in Key
  BY DEF Pair
<1>2. /\ g.cols \in Seq(Cols) /\ g.refcols \in Seq(Cols) /\ Distinct(g.cols)
      /\ DOMAIN g.refcols = DOMAIN g.cols /\ 1 \in DOMAIN g.cols
  BY <1>1, KeyFacts
<1>3. Patched(w.row, p) \in Row
  BY <1>1, PatchedFacts
<1>4. Null \in Vals
  BY ForeignKeyAssumption
<1> HIDE DEF g
<1>7. ASSUME DOMAIN K = DOMAIN g.cols, \A k \in DOMAIN g.cols : K[k] \in Vals
      PROVE  /\ np \in Fields /\ DOMAIN np = Range(g.cols) /\ np # NoPatch
             /\ \A k \in DOMAIN g.cols : np[g.cols[k]] = K[k]
  <2>1. /\ Query(g.cols, K) \in Fields /\ DOMAIN Query(g.cols, K) = Range(g.cols)
        /\ \A k \in DOMAIN g.cols : Query(g.cols, K)[g.cols[k]] = K[k]
    BY <1>2, <1>7, QueryFacts
  <2>2. np = Query(g.cols, K)
    BY DEF g
  <2>3. g.cols[1] \in Range(g.cols)
    BY <1>2 DEF Range
  <2> QED BY <2>1, <2>2, <2>3, NoPatchFits
<1>5. CASE ActionOf(w, p) = "setnull"
  <2>1. K = [k \in DOMAIN g.cols |-> Null]
    BY <1>5 DEF NewKey, g
  <2>2. DOMAIN K = DOMAIN g.cols /\ \A k \in DOMAIN g.cols : K[k] = Null /\ K[k] \in Vals
    BY <1>4, <2>1
  <2>3. K = [k \in DOMAIN g.cols |-> K[k]]
    BY <2>1, <2>2
  <2> QED BY <1>5, <1>7, <2>2, <2>3 DEF g
<1>6. CASE ActionOf(w, p) # "setnull"
  <2>1. K = KeyOf(Patched(w.row, p), g.refcols)
    BY <1>6 DEF NewKey, g
  <2>2. K = [k \in DOMAIN g.refcols |-> K[k]] /\ DOMAIN K = DOMAIN g.refcols /\ \A k \in DOMAIN g.refcols : K[k] \in Vals
    BY <1>2, <1>3, <2>1, KeyOfFacts
  <2> QED BY <1>2, <1>6, <1>7, <2>1, <2>2 DEF g
<1> QED
  BY <1>5, <1>6

LEMMA EnforceBothTyped ==
    ASSUME NEW e, Typed(e), NEW R \in DB, NEW t \in Tables, NEW A \in Seq(Row), NEW p \in Fields
    PROVE  EnforceBoth(e, R, t, A, p) \in Result
<1> DEFINE one == e[Args(R, t, A, p, FALSE)]
           two == e[Args(one.rows, t, A, p, TRUE)]
<1>1. one \in Result
  BY CallTyped
<1>2. one.rows \in DB
  BY <1>1 DEF Result
<1>3. two \in Result
  BY <1>2, CallTyped
<1> QED
  BY <1>1, <1>3 DEF EnforceBoth

LEMMA WritesTyped ==
    ASSUME now \in Clock, NEW e, Typed(e), NEW R \in DB, NEW t \in Tables, NEW q, NEW p \in Fields
    PROVE  /\ kdb__cascade_set_one_field(e, R, t, q, p) \in Result
           /\ kdb__cascade_set_composite_fields(e, R, t, q, p) \in Result
           /\ CascadeDelete(e, R, t, q) \in Result
<1>0. Found(R, t, q) \in Seq(Row)
  BY FoundFacts
<1>1. kdb__cascade_set_one_field(e, R, t, q, p) \in Result
  <2> DEFINE res == e[Args(R, t, Found(R, t, q), p, FALSE)]
  <2>1. res \in Result
    BY <1>0, CallTyped
  <2> HIDE DEF res
  <2>2. kdb_table_update(res.rows, t, q, p) \in Result
    BY <2>1, UpdateTyped DEF Result
  <2> QED BY <2>1, <2>2 DEF kdb__cascade_set_one_field, res
<1>2. kdb__cascade_set_composite_fields(e, R, t, q, p) \in Result
  <2> DEFINE res == EnforceBoth(e, R, t, Found(R, t, q), p)
  <2>1. res \in Result
    BY <1>0, EnforceBothTyped
  <2> HIDE DEF res
  <2>2. kdb_table_update(res.rows, t, q, p) \in Result
    BY <2>1, UpdateTyped DEF Result
  <2> QED BY <2>1, <2>2 DEF kdb__cascade_set_composite_fields, res
<1>3. CascadeDelete(e, R, t, q) \in Result
  <2> DEFINE res == EnforceBoth(e, R, t, Found(R, t, q), NoPatch)
  <2>1. res \in Result
    BY <1>0, EnforceBothTyped, NoPatchFits
  <2> HIDE DEF res
  <2>2. kdb_table_delete(res.rows, t, q) \in DB
    BY <2>1, DeleteFacts DEF Result
  <2> QED BY <2>1, <2>2, ResultFacts DEF CascadeDelete, res
<1> QED
  BY <1>1, <1>2, <1>3

LEMMA ActTyped ==
    ASSUME now \in Clock, NEW e, Typed(e), NEW R \in DB, NEW w \in Pair, NEW p \in Fields
    PROVE  Act(e, R, w, p) \in Result
<1>1. w.fk.t \in Tables
  BY KeyFacts DEF Pair
<1>2. Query(w.fk.cols, NewKey(w, p)) \in Fields
  BY NewKeyFacts
<1>3. Forbid(R, w.fk.t, Children(w)) \in Result
  BY ResultFacts DEF Forbid
<1> QED
  BY <1>1, <1>2, <1>3, WritesTyped DEF Act

LEMMA ActedTyped ==
    ASSUME now \in Clock, NEW e, Typed(e), NEW a \in Result, NEW w \in Pair, NEW p \in Fields
    PROVE  Acted(e, a, w, p) \in Result
  BY ActTyped DEF Acted, Result

LEMMA ActAllTyped ==
    ASSUME now \in Clock, NEW e, Typed(e), NEW R \in DB, NEW vs \in Seq(Pair), NEW p \in Fields
    PROVE  ActAll(e, R, vs, p) \in Result
<1> DEFINE G == Nat \X Result
<1>0. Len(vs) \in Nat /\ \A n \in 0 .. Len(vs) - 1 : n \in Nat /\ n + 1 \in Nat /\ vs[n + 1] \in Pair
  OBVIOUS
<1>1. <<0, Done(R)>> \in G
  BY ResultFacts
<1>2. ASSUME NEW n \in 0 .. Len(vs) - 1, NEW a, <<n, a>> \in G PROVE <<n + 1, Acted(e, a, vs[n + 1], p)>> \in G
  BY <1>0, <1>2, ActedTyped
<1> HIDE DEF G
<1>3. <<Len(vs), ActAll(e, R, vs, p)>> \in G
  BY <1>1, <1>2, ActAllInduction
<1> QED
  BY <1>3 DEF G

LEMMA LayerTyped ==
    ASSUME Fits, NEW e, Typed(e)
    PROVE  Typed([c \in Call |-> ActAll(e, c.rows, VisitsOf(c), c.patch)])
<1>1. ASSUME NEW c \in Call PROVE ActAll(e, c.rows, VisitsOf(c), c.patch) \in Result
  <2>1. c.rows \in DB /\ c.patch \in Fields
    BY DEF Call, DB
  <2>2. VisitsOf(c) \in Seq(Pair)
    BY VisitsFacts
  <2> QED BY <2>1, <2>2, ActAllTyped DEF Fits
<1> QED
  BY <1>1 DEF Typed

LEMMA FirstTyped == Typed([c \in Call |-> Failed(c.rows)])
<1>1. \A c \in Call : Failed(c.rows) \in Result
  BY ResultFacts DEF Call, DB
<1> QED
  BY <1>1 DEF Typed

\* However deep the cascade, a call ends with a result.
LEMMA EnforcedTyped ==
    ASSUME Fits
    PROVE  Typed(Enforced)
<1> DEFINE G == {e \in [Call -> Result] : Typed(e)}
           zero == [c \in Call |-> Failed(c.rows)]
           next(e) == [c \in Call |-> ActAll(e, c.rows, VisitsOf(c), c.patch)]
<1>1. zero \in G
  BY FirstTyped DEF Typed
<1>2. ASSUME NEW e \in G PROVE next(e) \in G
  <2>1. Typed(next(e))
    BY LayerTyped
  <2> QED BY <2>1 DEF Typed
<1>3. Enforced \in G
  <2> HIDE DEF G
  <2> QED BY <1>1, <1>2, EnforceInduction
<1> QED
  BY <1>3

---------------------------------------------------------------------------
\* A relation between the rows before and after, and a condition that each
\* visit establishes and the relation keeps, hold of all the visits of a call.
LEMMA ActAllKeeps ==
    ASSUME now \in Clock, NEW e, Typed(e), NEW R \in DB, NEW p \in Fields, NEW vs \in Seq(Pair), NEW J, NEW D,
           <<R, R>> \in J,
           \A S1, S2, S3 \in DB : <<S1, S2>> \in J /\ <<S2, S3>> \in J => <<S1, S3>> \in J,
           \A w \in Range(vs) : \A S \in DB :
               Whole(KeyOf(w.row, w.fk.refcols)) /\ Act(e, S, w, p).ok =>
                   <<S, Act(e, S, w, p).rows>> \in J /\ <<w, Act(e, S, w, p).rows>> \in D,
           \A w \in Range(vs) : \A S1, S2 \in DB : <<w, S1>> \in D /\ <<S1, S2>> \in J => <<w, S2>> \in D,
           ActAll(e, R, vs, p).ok
    PROVE  /\ <<R, ActAll(e, R, vs, p).rows>> \in J
           /\ \A w \in Range(vs) : Whole(KeyOf(w.row, w.fk.refcols)) => <<w, ActAll(e, R, vs, p).rows>> \in D
<1> DEFINE W(i) == Whole(KeyOf(vs[i].row, vs[i].fk.refcols))
           G == {x \in Nat \X Result :
                   x[2].ok => <<R, x[2].rows>> \in J /\ \A i \in 1 .. x[1] : i \in DOMAIN vs /\ W(i) => <<vs[i], x[2].rows>> \in D}
<1>0. Len(vs) \in Nat /\ DOMAIN vs = 1 .. Len(vs) /\ \A i \in DOMAIN vs : vs[i] \in Pair /\ vs[i] \in Range(vs)
  BY DEF Range
<1>1. <<0, Done(R)>> \in G
  <2> DEFINE x == <<0, Done(R)>>
  <2>1. x \in Nat \X Result /\ x[1] = 0 /\ x[2] = Done(R)
    BY ResultFacts
  <2>2. Done(R).rows = R
    BY DEF Done
  <2>4. \A i \in 1 .. 0 : FALSE
    OBVIOUS
  <2> HIDE DEF x, W
  <2>3. x \in G
    BY <2>1, <2>2, <2>4
  <2> QED BY <2>3 DEF x
<1>2. ASSUME NEW n \in 0 .. Len(vs) - 1, NEW a, <<n, a>> \in G PROVE <<n + 1, Acted(e, a, vs[n + 1], p)>> \in G
  <2> DEFINE v == vs[n + 1]
             b == Acted(e, a, v, p)
  <2>1. n \in Nat /\ n + 1 \in Nat /\ n + 1 \in DOMAIN vs /\ v \in Pair /\ v \in Range(vs) /\ 1 .. n + 1 = (1 .. n) \cup {n + 1}
    BY <1>0
  <2>2. a \in Result /\ (a.ok => <<R, a.rows>> \in J /\ \A i \in 1 .. n : i \in DOMAIN vs /\ W(i) => <<vs[i], a.rows>> \in D)
    BY <1>2
  <2>3. b \in Result
    BY <2>1, <2>2, ActedTyped
  <2>4. ASSUME b.ok PROVE <<R, b.rows>> \in J /\ \A i \in 1 .. n + 1 : i \in DOMAIN vs /\ W(i) => <<vs[i], b.rows>> \in D
    <3>1. CASE a.ok /\ W(n + 1)
      <4>1. b = Act(e, a.rows, v, p)
        BY <3>1 DEF Acted
      <4>2. a.rows \in DB /\ b.rows \in DB
        BY <2>2, <2>3 DEF Result
      <4>3. <<a.rows, b.rows>> \in J /\ <<v, b.rows>> \in D
        BY <2>1, <2>4, <3>1, <4>1, <4>2
      <4> HIDE DEF b
      <4>4. <<R, b.rows>> \in J
        BY <2>2, <3>1, <4>2, <4>3
      <4>5. ASSUME NEW i \in 1 .. n + 1, i \in DOMAIN vs, W(i) PROVE <<vs[i], b.rows>> \in D
        <5>1. CASE i = n + 1
          BY <4>3, <5>1
        <5>2. CASE i # n + 1
          <6>1. <<vs[i], a.rows>> \in D
            BY <2>1, <2>2, <3>1, <4>5, <5>2
          <6> QED BY <1>0, <4>2, <4>3, <4>5, <6>1
        <5> QED BY <5>1, <5>2
      <4> QED BY <4>4, <4>5
    <3>2. CASE ~(a.ok /\ W(n + 1))
      <4>1. b = a
        BY <3>2 DEF Acted
      <4>2. a.ok /\ ~W(n + 1)
        BY <2>4, <3>2, <4>1
      <4> HIDE DEF b
      <4>3. \A i \in 1 .. n + 1 : i \in DOMAIN vs /\ W(i) => i \in 1 .. n
        BY <2>1, <4>2
      <4> HIDE DEF W
      <4> QED BY <2>2, <4>1, <4>2, <4>3
    <3> QED BY <3>1, <3>2
  <2> HIDE DEF b, W
  <2>5. <<n + 1, b>> \in Nat \X Result /\ <<n + 1, b>>[1] = n + 1 /\ <<n + 1, b>>[2] = b
    BY <2>1, <2>3
  <2>6. <<n + 1, b>> \in G
    BY <2>4, <2>5
  <2> QED BY <2>6 DEF b
<1>3. <<Len(vs), ActAll(e, R, vs, p)>> \in G
  <2> HIDE DEF G
  <2> QED BY <1>1, <1>2, ActAllInduction
<1> DEFINE res == ActAll(e, R, vs, p)
<1>4. res.ok
  OBVIOUS
<1> HIDE DEF res, W
<1>5. <<R, res.rows>> \in J /\ \A i \in 1 .. Len(vs) : i \in DOMAIN vs /\ W(i) => <<vs[i], res.rows>> \in D
  <2>1. <<Len(vs), res>> \in G
    BY <1>3 DEF res
  <2> QED BY <1>4, <2>1
<1>6. \A w \in Range(vs) : Whole(KeyOf(w.row, w.fk.refcols)) => <<w, res.rows>> \in D
  <2> SUFFICES ASSUME NEW w \in Range(vs), Whole(KeyOf(w.row, w.fk.refcols)) PROVE <<w, res.rows>> \in D
    OBVIOUS
  <2>1. PICK i \in DOMAIN vs : vs[i] = w
    BY RangeIs
  <2> QED BY <1>0, <1>5, <2>1 DEF W
<1> QED
  BY <1>5, <1>6 DEF res

---------------------------------------------------------------------------
\* Deletes, and writes that make fields NULL.  Afterwards a row has fewer
\* values, and no row that is left has lost the row it points at.

HasKey(R, t, cs, K) == \E x \in Range(R[t]) : KeyOf(x, cs) = K
Narrower(s, r) == Val(s, "id") = Val(r, "id") /\ \A c \in Cols \ {"updated_at"} : Val(s, c) \in {Val(r, c), Null}
Thinned(R, S) == \A u \in Tables : \A s \in Range(S[u]) : \E r \in Range(R[u]) : Narrower(s, r)
KeepsParents(R, S) ==
    \A g \in Range(fks) : \A s \in Range(S[g.t]) :
        LET K == KeyOf(s, g.cols)
        IN  Whole(K) /\ HasKey(R, g.ref, g.refcols, K) => HasKey(S, g.ref, g.refcols, K)
Shrunk(R, S) == Thinned(R, S) /\ KeepsParents(R, S)

LEMMA DisjointFacts ==
    ASSUME Fits, Disjoint
    PROVE  /\ \A g \in Range(fks) : g.t # g.ref /\ Range(g.cols) \cap DOMAIN Default[g.t] = {} /\ "updated_at" \notin Range(g.refcols)
           /\ \A g, h \in Range(fks) : g # h /\ g.t = h.t => Range(g.cols) \cap Range(h.cols) = {}
           /\ \A g, h \in Range(fks) : g.t = h.ref /\ Len(g.cols) = 1 /\ Len(h.cols) > 1 => Range(g.cols) \cap Range(h.refcols) = {}
<1>1. \A g \in Range(fks) : \E i \in DOMAIN fks : fks[i] = g
  BY RangeIs
<1>2. \A g \in Range(fks) : g.t # g.ref /\ Range(g.cols) \cap DOMAIN Default[g.t] = {} /\ "updated_at" \notin Range(g.refcols)
  BY <1>1 DEF Disjoint
<1>3. \A g, h \in Range(fks) : g # h /\ g.t = h.t => Range(g.cols) \cap Range(h.cols) = {}
  <2> SUFFICES ASSUME NEW g \in Range(fks), NEW h \in Range(fks), g # h, g.t = h.t
               PROVE  Range(g.cols) \cap Range(h.cols) = {}
    OBVIOUS
  <2>1. PICK i \in DOMAIN fks : fks[i] = g
    BY <1>1
  <2>2. PICK j \in DOMAIN fks : fks[j] = h
    BY <1>1
  <2>3. i # j
    BY <2>1, <2>2
  <2> QED BY <2>1, <2>2, <2>3 DEF Disjoint
<1>4. \A g, h \in Range(fks) : g.t = h.ref /\ Len(g.cols) = 1 /\ Len(h.cols) > 1 => Range(g.cols) \cap Range(h.refcols) = {}
  <2> SUFFICES ASSUME NEW g \in Range(fks), NEW h \in Range(fks), g.t = h.ref, Len(g.cols) = 1, Len(h.cols) > 1
               PROVE  Range(g.cols) \cap Range(h.refcols) = {}
    OBVIOUS
  <2>1. PICK i \in DOMAIN fks : fks[i] = g
    BY <1>1
  <2>2. PICK j \in DOMAIN fks : fks[j] = h
    BY <1>1
  <2> QED BY <2>1, <2>2 DEF Disjoint
<1> QED
  BY <1>2, <1>3, <1>4

LEMMA NarrowKey ==
    ASSUME NEW s \in Row, NEW r \in Row, Narrower(s, r), NEW cs \in Seq(Cols), "updated_at" \notin Range(cs), Whole(KeyOf(s, cs))
    PROVE  KeyOf(s, cs) = KeyOf(r, cs)
<1>1. \A k \in DOMAIN cs : cs[k] \in Cols \ {"updated_at"}
  BY DEF Range
<1>2. \A k \in DOMAIN cs : Val(s, cs[k]) # Null
  BY DEF Whole, KeyOf
<1>3. \A k \in DOMAIN cs : Val(s, cs[k]) = Val(r, cs[k])
  BY <1>1, <1>2 DEF Narrower
<1> QED
  BY <1>3 DEF KeyOf

LEMMA NarrowMatches ==
    ASSUME NEW s \in Row, NEW r \in Row, Narrower(s, r), NEW q, DOMAIN q \subseteq Cols \ {"updated_at"}, MatchesAll(q, s)
    PROVE  MatchesAll(q, r)
  BY DEF Narrower, MatchesAll

\* What a patch makes of a key depends on the key and the patch.
LEMMA PatchedKeys ==
    ASSUME NEW x \in Row, NEW r \in Row, NEW cs \in Seq(Cols), KeyOf(x, cs) = KeyOf(r, cs), NEW p \in Fields
    PROVE  KeyOf(Patched(x, p), cs) = KeyOf(Patched(r, p), cs)
<1>1. \A k \in DOMAIN cs : cs[k] \in Cols
  OBVIOUS
<1>2. \A k \in DOMAIN cs : Val(x, cs[k]) = Val(r, cs[k])
  BY KeyOfFacts
<1>3. \A k \in DOMAIN cs : Val(Patched(x, p), cs[k]) = Val(Patched(r, p), cs[k])
  BY <1>1, <1>2, PatchedFacts
<1> QED
  BY <1>3 DEF KeyOf

LEMMA ShrunkReflexive ==
    ASSUME NEW R \in DB
    PROVE  Shrunk(R, R)
  BY DEF Shrunk, Thinned, KeepsParents, Narrower

LEMMA ShrunkTransitive ==
    ASSUME Fits, NEW R \in DB, NEW S \in DB, NEW T \in DB, Shrunk(R, S), Shrunk(S, T)
    PROVE  Shrunk(R, T)
<1>1. Thinned(R, T)
  <2> SUFFICES ASSUME NEW u \in Tables, NEW s \in Range(T[u]) PROVE \E r \in Range(R[u]) : Narrower(s, r)
    BY DEF Thinned
  <2>1. PICK x \in Range(S[u]) : Narrower(s, x)
    BY DEF Shrunk, Thinned
  <2>2. PICK r \in Range(R[u]) : Narrower(x, r)
    BY DEF Shrunk, Thinned
  <2>3. Narrower(s, r)
    BY <2>1, <2>2 DEF Narrower
  <2> QED BY <2>3
<1>2. KeepsParents(R, T)
  <2> DEFINE K(s, g) == KeyOf(s, g.cols)
  <2> SUFFICES ASSUME NEW g \in Range(fks), NEW s \in Range(T[g.t]), Whole(K(s, g)), HasKey(R, g.ref, g.refcols, K(s, g))
               PROVE  HasKey(T, g.ref, g.refcols, K(s, g))
    BY DEF KeepsParents
  <2>1. g \in Key
    BY FksFacts DEF Fits
  <2>2. g.t \in Tables /\ g.cols \in Seq(Cols) /\ "updated_at" \notin Range(g.cols)
    BY <2>1, KeyFacts
  <2>3. PICK x \in Range(S[g.t]) : Narrower(s, x)
    BY <2>2 DEF Shrunk, Thinned
  <2>4. K(x, g) = K(s, g)
    BY <2>2, <2>3, NarrowKey, RowsFacts
  <2>5. HasKey(S, g.ref, g.refcols, K(s, g))
    BY <2>4 DEF Shrunk, KeepsParents
  <2> QED BY <2>5 DEF Shrunk, KeepsParents
<1> QED
  BY <1>1, <1>2 DEF Shrunk

\* A visit is done with when no row has the key, or the row keeps it.
Gone(w, p, S) ==
    \/ p # NoPatch /\ KeyOf(Patched(w.row, p), w.fk.refcols) = KeyOf(w.row, w.fk.refcols)
    \/ \A s \in Range(S[w.fk.t]) : KeyOf(s, w.fk.cols) # KeyOf(w.row, w.fk.refcols)
Cleared(w, p, S) == Whole(KeyOf(w.row, w.fk.refcols)) => Gone(w, p, S)

LEMMA ClearedStays ==
    ASSUME NEW w \in Pair, NEW p, NEW R \in DB, NEW S \in DB, Shrunk(R, S), Cleared(w, p, R)
    PROVE  Cleared(w, p, S)
<1> DEFINE K == KeyOf(w.row, w.fk.refcols)
<1>1. w.fk.t \in Tables /\ w.fk.cols \in Seq(Cols) /\ "updated_at" \notin Range(w.fk.cols)
  BY KeyFacts DEF Pair
<1> SUFFICES ASSUME Whole(K), \A s \in Range(R[w.fk.t]) : KeyOf(s, w.fk.cols) # K,
                    NEW s \in Range(S[w.fk.t]), KeyOf(s, w.fk.cols) = K
             PROVE  FALSE
  BY DEF Cleared, Gone
<1>2. PICK r \in Range(R[w.fk.t]) : Narrower(s, r)
  BY <1>1 DEF Shrunk, Thinned
<1>3. KeyOf(r, w.fk.cols) = K
  BY <1>1, <1>2, NarrowKey, RowsFacts
<1> QED
  BY <1>3

\* What a call that only takes values away ends with.
NullPatch(p, A) == \A a \in Range(A) : \A c \in DOMAIN p : p[c] \in {Val(a, c), Null}
TakesAway(e) ==
    \A c \in Call :
        NullPatch(c.patch, c.affected) /\ e[c].ok =>
            /\ Shrunk(c.rows, e[c].rows)
            /\ \A w \in Visits(c.t, c.affected, c.patch, c.composite) : Cleared(w, c.patch, e[c].rows)

LEMMA SingleTakesAway ==
    ASSUME NEW e, Typed(e), TakesAway(e),
           NEW R \in DB, NEW t \in Tables, NEW A \in Seq(Row), NEW p \in Fields, NullPatch(p, A), NEW b \in BOOLEAN,
           NEW res, res = e[Args(R, t, A, p, b)], res.ok
    PROVE  Shrunk(R, res.rows) /\ \A w \in Visits(t, A, p, b) : Cleared(w, p, res.rows)
<1> DEFINE c == Args(R, t, A, p, b)
<1>1. c \in Call /\ c.rows = R /\ c.t = t /\ c.affected = A /\ c.patch = p /\ c.composite = b
  BY ArgsFacts
<1>2. e[c].ok /\ res = e[c]
  OBVIOUS
<1> HIDE DEF c
<1>3. NullPatch(c.patch, c.affected)
  BY <1>1
<1>4. Shrunk(c.rows, e[c].rows) /\ \A w \in Visits(c.t, c.affected, c.patch, c.composite) : Cleared(w, c.patch, e[c].rows)
  BY <1>1, <1>2, <1>3, Zenon DEF TakesAway
<1> QED
  BY <1>1, <1>2, <1>4

LEMMA BothTakeAway ==
    ASSUME Fits, NEW e, Typed(e), TakesAway(e),
           NEW R \in DB, NEW t \in Tables, NEW A \in Seq(Row), NEW p \in Fields, NullPatch(p, A),
           NEW res, res = EnforceBoth(e, R, t, A, p), res.ok
    PROVE  Shrunk(R, res.rows) /\ \A b \in BOOLEAN : \A w \in Visits(t, A, p, b) : Cleared(w, p, res.rows)
<1> DEFINE one == e[Args(R, t, A, p, FALSE)]
<1>1. one \in Result
  BY CallTyped
<1>2. one.ok /\ res = e[Args(one.rows, t, A, p, TRUE)]
  BY DEF EnforceBoth
<1>3. Shrunk(R, one.rows) /\ \A w \in Visits(t, A, p, FALSE) : Cleared(w, p, one.rows)
  <2>1. one = e[Args(R, t, A, p, FALSE)]
    OBVIOUS
  <2> HIDE DEF one
  <2> QED BY <1>2, <2>1, SingleTakesAway
<1> HIDE DEF one
<1>4. one.rows \in DB
  BY <1>1 DEF Result
<1>5. Shrunk(one.rows, res.rows) /\ \A w \in Visits(t, A, p, TRUE) : Cleared(w, p, res.rows)
  <2>1. TRUE \in BOOLEAN /\ res = e[Args(one.rows, t, A, p, TRUE)]
    BY <1>2
  <2> QED BY <1>4, <2>1, SingleTakesAway, Zenon
<1>6. res.rows \in DB
  <2>1. e[Args(one.rows, t, A, p, TRUE)] \in Result
    BY <1>4, CallTyped
  <2> QED BY <1>2, <2>1 DEF Result
<1>7. Shrunk(R, res.rows)
  BY <1>3, <1>4, <1>5, <1>6, ShrunkTransitive
<1>8. \A w \in Visits(t, A, p, FALSE) : Cleared(w, p, res.rows)
  <2>1. \A w \in Visits(t, A, p, FALSE) : w \in Pair
    BY DEF Visits
  <2> QED BY <1>3, <1>4, <1>5, <1>6, <2>1, ClearedStays
<1> QED
  BY <1>5, <1>7, <1>8

\* Deleting rows whose children are dealt with.
LEMMA DeleteShrinks ==
    ASSUME Fits, Disjoint, unseen = {}, NEW R \in DB, NEW S \in DB, Shrunk(R, S),
           NEW t \in Tables, NEW q \in Fields, "updated_at" \notin DOMAIN q,
           \A b \in BOOLEAN : \A w \in Visits(t, Found(R, t, q), NoPatch, b) : Cleared(w, NoPatch, S)
    PROVE  Shrunk(R, kdb_table_delete(S, t, q))
<1> DEFINE T == kdb_table_delete(S, t, q)
<1>1. /\ T \in DB /\ \A u \in Tables \ {t} : T[u] = S[u]
      /\ \A r : r \in Range(T[t]) <=> r \in Range(S[t]) /\ ~MatchesAll(q, r)
  BY DeleteFacts
<1> HIDE DEF T
<1>2. Thinned(S, T)
  <2> SUFFICES ASSUME NEW u \in Tables, NEW s \in Range(T[u]) PROVE \E r \in Range(S[u]) : Narrower(s, r)
    BY DEF Thinned
  <2>1. s \in Range(S[u])
    BY <1>1
  <2> QED BY <2>1 DEF Narrower
<1>3. KeepsParents(S, T)
  <2> SUFFICES ASSUME NEW g \in Range(fks), NEW s \in Range(T[g.t]), NEW K, K = KeyOf(s, g.cols), Whole(K),
                      HasKey(S, g.ref, g.refcols, K)
               PROVE  HasKey(T, g.ref, g.refcols, K)
    BY DEF KeepsParents
  <2>1. g \in Key
    BY FksFacts DEF Fits
  <2>2. g.t \in Tables /\ g.ref \in Tables /\ g.cols \in Seq(Cols) /\ g.refcols \in Seq(Cols) /\ g.t # g.ref /\ "updated_at" \notin Range(g.refcols)
    BY <2>1, KeyFacts, DisjointFacts
  <2>3. PICK x \in Range(S[g.ref]) : KeyOf(x, g.refcols) = K
    BY DEF HasKey
  <2>4. CASE g.ref # t \/ ~MatchesAll(q, x)
    <3>1. x \in Range(T[g.ref])
      BY <1>1, <2>2, <2>4
    <3> QED BY <2>3, <3>1 DEF HasKey
  <2>5. CASE g.ref = t /\ MatchesAll(q, x)
    <3>1. x \in Row
      BY <2>2, RowsFacts
    <3>2. PICK r \in Range(R[t]) : Narrower(x, r)
      BY <2>2, <2>5 DEF Shrunk, Thinned
    <3>3. r \in Row
      BY <2>2, RowsFacts
    <3>4. KeyOf(r, g.refcols) = K
      BY <2>2, <2>3, <3>1, <3>2, <3>3, NarrowKey
    <3>5. MatchesAll(q, r)
      <4>1. DOMAIN q \subseteq Cols \ {"updated_at"}
        BY DEF Fields
      <4> QED BY <2>5, <3>1, <3>2, <3>3, <4>1, NarrowMatches
    <3>6. r \in Range(Found(R, t, q))
      BY <3>5, FoundFacts
    <3> DEFINE w == [row |-> r, fk |-> g]
    <3>7. w \in Visits(t, Found(R, t, q), NoPatch, Len(g.cols) > 1) /\ (Len(g.cols) > 1) \in BOOLEAN
      BY <2>1, <2>5, <3>3, <3>6 DEF Visits, Pair, Touched
    <3>8. Cleared(w, NoPatch, S)
      BY <3>7, Zenon
    <3>9. w.row = r /\ w.fk = g
      OBVIOUS
    <3> HIDE DEF w
    <3>10. \A s2 \in Range(S[g.t]) : KeyOf(s2, g.cols) # K
      BY <3>4, <3>8, <3>9 DEF Cleared, Gone
    <3>11. s \in Range(S[g.t])
      BY <1>1, <2>2, <2>5
    <3> QED BY <3>10, <3>11
  <2> QED BY <2>4, <2>5
<1>4. Shrunk(S, T)
  BY <1>2, <1>3 DEF Shrunk
<1> QED
  BY <1>1, <1>4, ShrunkTransitive DEF T

LEMMA CascadeDeleteTakesAway ==
    ASSUME Fits, Disjoint, unseen = {}, NEW e, Typed(e), TakesAway(e), NEW R \in DB,
           NEW t \in Tables, NEW q \in Fields, "updated_at" \notin DOMAIN q,
           NEW res, res = CascadeDelete(e, R, t, q), res.ok
    PROVE  Shrunk(R, res.rows) /\ \A r \in Range(res.rows[t]) : ~MatchesAll(q, r)
<1> DEFINE A == Found(R, t, q)
           both == EnforceBoth(e, R, t, A, NoPatch)
<1>1. A \in Seq(Row) /\ both = EnforceBoth(e, R, t, A, NoPatch)
  BY FoundFacts
<1>2. both \in Result
  BY <1>1, NoPatchFits, EnforceBothTyped
<1>3. both.ok /\ res = Done(kdb_table_delete(both.rows, t, q))
  BY DEF CascadeDelete
<1>4. NullPatch(NoPatch, A)
  BY NoPatchFits DEF NullPatch
<1> HIDE DEF both
<1>5. Shrunk(R, both.rows) /\ \A b \in BOOLEAN : \A w \in Visits(t, A, NoPatch, b) : Cleared(w, NoPatch, both.rows)
  <2> HIDE DEF A
  <2> QED BY <1>1, <1>3, <1>4, NoPatchFits, BothTakeAway
<1>6. both.rows \in DB /\ res.rows = kdb_table_delete(both.rows, t, q)
  BY <1>2, <1>3 DEF Result, Done
<1>7. \A r \in Range(res.rows[t]) : ~MatchesAll(q, r)
  BY <1>6, DeleteFacts
<1>8. Shrunk(R, kdb_table_delete(both.rows, t, q))
  BY <1>5, <1>6, DeleteShrinks DEF A
<1> QED
  BY <1>6, <1>7, <1>8

\* Writing NULL, or what they have, over rows whose children are dealt with.
LEMMA NullWriteShrinks ==
    ASSUME Fits, Disjoint, unseen = {}, NEW R \in DB, NEW S \in DB, Shrunk(R, S),
           NEW t \in Tables, NEW q \in Fields, "updated_at" \notin DOMAIN q, NEW p \in Fields,
           "id" \notin DOMAIN p, p # NoPatch, DOMAIN p \subseteq DOMAIN q, \A c \in DOMAIN p : p[c] \in {q[c], Null},
           \A g \in Range(fks) : \A r \in Range(Found(R, t, q)) :
               g.ref = t /\ Touched(g.refcols, p) => Cleared([row |-> r, fk |-> g], p, S),
           NEW res, res = kdb_table_update(S, t, q, p), res.ok
    PROVE  Shrunk(R, res.rows)
<1> DEFINE T == res.rows
<1>0. DOMAIN q \subseteq Cols \ {"updated_at"} /\ DOMAIN p \subseteq Cols /\ now \in Clock
  BY DEF Fields, Fits
<1>1. /\ T \in DB /\ \A u \in Tables \ {t} : T[u] = S[u]
      /\ \A s : s \in Range(T[t]) <=> \E r \in Range(S[t]) : s = Rewritten(r, q, p)
  BY <1>0, UpdateFacts
<1> HIDE DEF T
<1>2. ASSUME NEW x \in Row PROVE Narrower(Rewritten(x, q, p), x)
  <2>1. CASE MatchesAll(q, x)
    <3>1. \A c \in DOMAIN p : p[c] \in {Val(x, c), Null}
      BY <2>1 DEF MatchesAll
    <3>2. \A c \in Cols : Val(Patched(x, p), c) \in {Val(x, c), Null}
      BY <3>1, PatchedFacts
    <3>3. Val(Patched(x, p), "id") = Val(x, "id") /\ "id" \in Cols \ {"updated_at"}
      BY PatchedFacts, ForeignKeyAssumption
    <3> QED BY <1>0, <2>1, <3>2, <3>3, RewrittenFacts DEF Narrower
  <2>2. CASE ~MatchesAll(q, x)
    BY <2>2 DEF Rewritten, Narrower
  <2> QED BY <2>1, <2>2
<1>3. Thinned(S, T)
  <2> SUFFICES ASSUME NEW u \in Tables, NEW s \in Range(T[u]) PROVE \E r \in Range(S[u]) : Narrower(s, r)
    BY DEF Thinned
  <2>1. CASE u = t
    <3>1. PICK r \in Range(S[t]) : s = Rewritten(r, q, p)
      BY <1>1, <2>1
    <3>2. r \in Row
      BY RowsFacts
    <3> QED BY <1>2, <2>1, <3>1, <3>2
  <2>2. CASE u # t
    BY <1>1, <2>2 DEF Narrower
  <2> QED BY <2>1, <2>2
<1>4. KeepsParents(S, T)
  <2> SUFFICES ASSUME NEW g \in Range(fks), NEW s \in Range(T[g.t]), NEW K, K = KeyOf(s, g.cols), Whole(K),
                      HasKey(S, g.ref, g.refcols, K)
               PROVE  HasKey(T, g.ref, g.refcols, K)
    BY DEF KeepsParents
  <2>1. g \in Key
    BY FksFacts DEF Fits
  <2>2. g.t \in Tables /\ g.ref \in Tables /\ g.cols \in Seq(Cols) /\ g.refcols \in Seq(Cols) /\ g.t # g.ref /\ "updated_at" \notin Range(g.refcols)
    BY <2>1, KeyFacts, DisjointFacts
  <2>3. PICK x \in Range(S[g.ref]) : KeyOf(x, g.refcols) = K
    BY DEF HasKey
  <2>4. CASE g.ref # t
    <3>1. x \in Range(T[g.ref])
      BY <1>1, <2>2, <2>4
    <3> QED BY <2>3, <3>1 DEF HasKey
  <2>5. CASE g.ref = t /\ KeyOf(Rewritten(x, q, p), g.refcols) = K
    <3>1. Rewritten(x, q, p) \in Range(T[t])
      BY <1>1, <2>3, <2>5
    <3> QED BY <2>5, <3>1 DEF HasKey
  <2>6. CASE g.ref = t /\ KeyOf(Rewritten(x, q, p), g.refcols) # K
    <3>1. x \in Row
      BY <2>2, RowsFacts
    <3>2. MatchesAll(q, x) /\ KeyOf(Patched(x, p), g.refcols) # K
      BY <1>0, <2>2, <2>3, <2>6, <3>1, RewrittenFacts
    <3>3. Touched(g.refcols, p)
      BY <2>2, <2>3, <3>1, <3>2, KeyUntouched DEF Touched
    <3>4. PICK r \in Range(R[t]) : Narrower(x, r)
      BY <2>2, <2>6 DEF Shrunk, Thinned
    <3>5. r \in Row
      BY RowsFacts
    <3>6. KeyOf(r, g.refcols) = K
      BY <2>2, <2>3, <3>1, <3>4, <3>5, NarrowKey
    <3>7. MatchesAll(q, r)
      BY <1>0, <3>1, <3>2, <3>4, <3>5, NarrowMatches
    <3>8. r \in Range(Found(R, t, q))
      BY <3>7, FoundFacts
    <3> DEFINE w == [row |-> r, fk |-> g]
    <3>9. Cleared(w, p, S)
      BY <2>6, <3>3, <3>8
    <3>10. w.row = r /\ w.fk = g
      OBVIOUS
    <3> HIDE DEF w
    <3>11. KeyOf(Patched(r, p), g.refcols) # K
      BY <2>2, <2>3, <3>1, <3>2, <3>5, <3>6, PatchedKeys
    <3>12. \A s2 \in Range(S[g.t]) : KeyOf(s2, g.cols) # K
      BY <3>6, <3>9, <3>10, <3>11 DEF Cleared, Gone
    <3>13. s \in Range(S[g.t])
      BY <1>1, <2>2, <2>6
    <3> QED BY <3>12, <3>13
  <2> QED BY <2>4, <2>5, <2>6
<1>5. Shrunk(S, T)
  BY <1>3, <1>4 DEF Shrunk
<1> QED
  BY <1>1, <1>5, ShrunkTransitive DEF T

\* After the write no row has the key, unless it was written over with itself.
KeyFor(g, K) == K = [k \in DOMAIN g.cols |-> K[k]] /\ \A k \in DOMAIN g.cols : K[k] \in Vals

LEMMA WriteClears ==
    ASSUME now \in Clock, NEW g \in Key, NEW S \in DB, NEW K, KeyFor(g, K), Whole(K), NEW N, KeyFor(g, N), N # K,
           NEW res, res = kdb_table_update(S, g.t, Query(g.cols, K), Query(g.cols, N)), res.ok
    PROVE  \A s \in Range(res.rows[g.t]) : KeyOf(s, g.cols) # K
<1> DEFINE q == Query(g.cols, K)
           p == Query(g.cols, N)
<1>0. /\ K = [k \in DOMAIN g.cols |-> K[k]] /\ \A k \in DOMAIN g.cols : K[k] \in Vals
      /\ N = [k \in DOMAIN g.cols |-> N[k]] /\ \A k \in DOMAIN g.cols : N[k] \in Vals
  BY DEF KeyFor
<1>1. g.t \in Tables /\ g.cols \in Seq(Cols) /\ Distinct(g.cols) /\ "updated_at" \notin Range(g.cols)
  BY KeyFacts
<1>2. p \in Fields
  BY <1>0, <1>1, QueryFacts
<1>3. ASSUME NEW x \in Row PROVE KeyOf(Rewritten(x, q, p), g.cols) # K
  <2>1. MatchesAll(q, x) <=> KeyOf(x, g.cols) = K
    BY <1>0, <1>1, QueryMatches
  <2>2. KeyOf(Patched(x, p), g.cols) = N
    BY <1>0, <1>1, KeyWritten
  <2> QED BY <1>1, <1>2, <2>1, <2>2, RewrittenFacts
<1> SUFFICES ASSUME NEW s \in Range(res.rows[g.t]) PROVE KeyOf(s, g.cols) # K
  OBVIOUS
<1>4. PICK x \in Range(S[g.t]) : s = Rewritten(x, q, p)
  <2> DEFINE u == g.t
             T == res.rows[u]
  <2>1. res = kdb_table_update(S, u, q, p) /\ u \in Tables
    BY <1>1
  <2> HIDE DEF q, p, u, T
  <2>2. \A x : x \in Range(T) <=> \E r \in Range(S[u]) : x = Rewritten(r, q, p)
    BY <1>2, <2>1, UpdateFacts DEF T
  <2> QED BY <2>2 DEF u, T
<1>5. x \in Row
  BY <1>1, RowsFacts
<1> QED
  BY <1>3, <1>4, <1>5

\* The children of a visit are the rows with the key.
LEMMA ChildrenFacts ==
    ASSUME NEW w \in Pair, NEW K, K = KeyOf(w.row, w.fk.refcols), Whole(K), NEW q, q = Children(w)
    PROVE  /\ K = [k \in DOMAIN w.fk.cols |-> K[k]] /\ DOMAIN K = DOMAIN w.fk.cols
           /\ \A k \in DOMAIN w.fk.cols : K[k] \in Vals /\ K[k] # Null
           /\ q = Query(w.fk.cols, K) /\ q \in Fields /\ DOMAIN q = Range(w.fk.cols)
           /\ \A k \in DOMAIN w.fk.cols : q[w.fk.cols[k]] = K[k]
           /\ \A x \in Row : MatchesAll(q, x) <=> KeyOf(x, w.fk.cols) = K
<1> DEFINE g == w.fk
           cs == g.cols
<1>1. w.row \in Row /\ g \in Key
  BY DEF Pair
<1>2. cs \in Seq(Cols) /\ g.refcols \in Seq(Cols) /\ Distinct(cs) /\ DOMAIN g.refcols = DOMAIN cs
  BY <1>1, KeyFacts
<1>3. K = [k \in DOMAIN cs |-> K[k]] /\ DOMAIN K = DOMAIN cs /\ \A k \in DOMAIN cs : K[k] \in Vals
  BY <1>1, <1>2, KeyOfFacts
<1>4. \A k \in DOMAIN cs : K[k] # Null
  BY <1>3 DEF Whole
<1>5. q = Query(cs, K)
  BY DEF Children
<1> HIDE DEF g, cs
<1>6. q \in Fields /\ DOMAIN q = Range(cs) /\ \A k \in DOMAIN cs : q[cs[k]] = K[k]
  <2>1. \A s \in Seq(Cols) : \A key : DOMAIN key = DOMAIN s /\ (\A k \in DOMAIN s : key[k] \in Vals) /\ Distinct(s) =>
          /\ Query(s, key) \in Fields /\ DOMAIN Query(s, key) = Range(s)
          /\ \A k \in DOMAIN s : Query(s, key)[s[k]] = key[k]
    BY QueryFacts
  <2>2. DOMAIN K = DOMAIN cs /\ (\A k \in DOMAIN cs : K[k] \in Vals) /\ Distinct(cs)
    BY <1>2, <1>3
  <2>3. /\ Query(cs, K) \in Fields /\ DOMAIN Query(cs, K) = Range(cs)
        /\ \A k \in DOMAIN cs : Query(cs, K)[cs[k]] = K[k]
    BY <1>2, <2>1, <2>2
  <2> QED BY <1>5, <2>3, Zenon
<1>7. \A x \in Row : MatchesAll(q, x) <=> KeyOf(x, cs) = K
  BY <1>2, <1>3, <1>5, QueryMatches
<1> QED
  BY <1>3, <1>4, <1>5, <1>6, <1>7 DEF g, cs

\* Which of its branches a visit takes.
LEMMA ActCases ==
    ASSUME NEW e, NEW R, NEW w \in Pair, NEW p, NEW q, q = Children(w), NEW np, np = Query(w.fk.cols, NewKey(w, p)),
           NEW res, res = Act(e, R, w, p)
    PROVE  \/ ActionOf(w, p) = "restrict" /\ res = Forbid(R, w.fk.t, q)
           \/ ActionOf(w, p) = "cascade" /\ p = NoPatch /\ res = CascadeDelete(e, R, w.fk.t, q)
           \/ /\ ActionOf(w, p) = "setnull" \/ (ActionOf(w, p) = "cascade" /\ p # NoPatch)
              /\ \/ Len(w.fk.cols) = 1 /\ res = kdb__cascade_set_one_field(e, R, w.fk.t, q, np)
                 \/ Len(w.fk.cols) > 1 /\ res = kdb__cascade_set_composite_fields(e, R, w.fk.t, q, np)
<1>1. ActionOf(w, p) \in {"restrict", "cascade", "setnull"}
  BY KeyFacts DEF Pair, ActionOf, Action
<1>2. Len(w.fk.cols) = 1 \/ Len(w.fk.cols) > 1
  <2>1. w.fk \in Key
    BY DEF Pair
  <2>2. Len(w.fk.cols) \in Nat /\ 1 \in 1 .. Len(w.fk.cols)
    BY <2>1, KeyFacts
  <2>3. \A n \in Nat : 1 \in 1 .. n => n = 1 \/ n > 1
    OBVIOUS
  <2> QED BY <2>2, <2>3, Zenon
<1>3. CASE ActionOf(w, p) = "restrict"
  BY <1>3 DEF Act
<1>4. CASE ActionOf(w, p) = "cascade" /\ p = NoPatch
  BY <1>4 DEF Act
<1>5. CASE ActionOf(w, p) = "setnull" \/ (ActionOf(w, p) = "cascade" /\ p # NoPatch)
  <2>1. CASE Len(w.fk.cols) = 1
    <3>1. res = kdb__cascade_set_one_field(e, R, w.fk.t, q, np)
      BY <1>5, <2>1 DEF Act
    <3> QED BY <1>5, <2>1, <3>1
  <2>2. CASE Len(w.fk.cols) > 1
    <3>0. Len(w.fk.cols) # 1
      <4>1. \A n : n > 1 => n # 1
        OBVIOUS
      <4> QED BY <2>2, <4>1, Zenon
    <3>1. res = kdb__cascade_set_composite_fields(e, R, w.fk.t, q, np)
      BY <1>5, <3>0 DEF Act
    <3> QED BY <1>5, <2>2, <3>1
  <2> QED BY <1>2, <2>1, <2>2
<1> QED
  BY <1>1, <1>3, <1>4, <1>5

LEMMA NullsNotWhole ==
    ASSUME NEW g \in Key, NEW K, \A k \in DOMAIN g.cols : K[k] = Null, DOMAIN K = DOMAIN g.cols
    PROVE  ~Whole(K)
<1>1. 1 \in DOMAIN g.cols
  BY KeyFacts
<1> QED
  BY <1>1 DEF Whole

\* A cascade that writes the rows of one key where it takes values away.
LEMMA SetTakesAway ==
    ASSUME Fits, Disjoint, unseen = {}, NEW e, Typed(e), TakesAway(e), NEW R \in DB, NEW g \in Key, g \in Range(fks),
           NEW q \in Fields, DOMAIN q = Range(g.cols), NEW np \in Fields, DOMAIN np = Range(g.cols), np # NoPatch,
           \A c \in DOMAIN np : np[c] \in {q[c], Null},
           NEW res, res.ok,
           \/ Len(g.cols) = 1 /\ res = kdb__cascade_set_one_field(e, R, g.t, q, np)
           \/ Len(g.cols) > 1 /\ res = kdb__cascade_set_composite_fields(e, R, g.t, q, np)
    PROVE  Shrunk(R, res.rows) /\ \E S \in DB : res = kdb_table_update(S, g.t, q, np)
<1> DEFINE t == g.t
           A == Found(R, t, q)
<1>1. t \in Tables /\ g.cols \in Seq(Cols) /\ "id" \notin Range(g.cols) /\ "updated_at" \notin DOMAIN q
  BY KeyFacts
<1>2. A \in Seq(Row) /\ \A r \in Range(A) : MatchesAll(q, r)
  BY <1>1, FoundFacts
<1>3. NullPatch(np, A)
  BY <1>2 DEF NullPatch, MatchesAll
<1>4. PICK S \in DB : /\ res = kdb_table_update(S, t, q, np) /\ Shrunk(R, S)
                      /\ \A h \in Range(fks) : \A r \in Range(A) :
                           h.ref = t /\ Touched(h.refcols, np) => Cleared([row |-> r, fk |-> h], np, S)
  <2>0. ASSUME NEW h \in Range(fks), NEW r \in Range(A), h.ref = t, Touched(h.refcols, np)
        PROVE  [row |-> r, fk |-> h] \in Visits(t, A, np, Len(h.cols) > 1) /\ (Len(h.cols) > 1) \in BOOLEAN
    <3>1. h \in Key /\ r \in Row
      BY <1>2, FksFacts DEF Fits, Range
    <3> QED BY <2>0, <3>1 DEF Visits, Pair
  <2>1. CASE Len(g.cols) = 1 /\ res = kdb__cascade_set_one_field(e, R, t, q, np)
    <3> DEFINE one == e[Args(R, t, A, np, FALSE)]
    <3>1. one \in Result /\ one = e[Args(R, t, A, np, FALSE)] /\ FALSE \in BOOLEAN
      BY <1>1, <1>2, CallTyped
    <3>2. one.ok /\ res = kdb_table_update(one.rows, t, q, np)
      BY <2>1 DEF kdb__cascade_set_one_field
    <3> HIDE DEF one, A
    <3>3. Shrunk(R, one.rows) /\ \A w \in Visits(t, A, np, FALSE) : Cleared(w, np, one.rows)
      BY <1>1, <1>2, <1>3, <3>1, <3>2, SingleTakesAway
    <3>4. ASSUME NEW h \in Range(fks), NEW r \in Range(A), h.ref = t, Touched(h.refcols, np)
          PROVE  Cleared([row |-> r, fk |-> h], np, one.rows)
      <4>1. ~(Len(h.cols) > 1)
        <5>1. Range(h.refcols) \cap Range(g.cols) # {}
          BY <3>4 DEF Touched
        <5> QED BY <2>1, <3>4, <5>1, DisjointFacts
      <4>2. [row |-> r, fk |-> h] \in Visits(t, A, np, FALSE)
        BY <2>0, <3>4, <4>1 DEF Visits
      <4> QED BY <3>3, <4>2
    <3>5. one.rows \in DB
      BY <3>1 DEF Result
    <3> QED BY <3>2, <3>3, <3>4, <3>5
  <2>2. CASE Len(g.cols) > 1 /\ res = kdb__cascade_set_composite_fields(e, R, t, q, np)
    <3> DEFINE both == EnforceBoth(e, R, t, A, np)
    <3>1. both \in Result /\ both = EnforceBoth(e, R, t, A, np)
      BY <1>1, <1>2, EnforceBothTyped
    <3>2. both.ok /\ res = kdb_table_update(both.rows, t, q, np)
      BY <2>2 DEF kdb__cascade_set_composite_fields
    <3> HIDE DEF both, A
    <3>3. Shrunk(R, both.rows) /\ \A b \in BOOLEAN : \A w \in Visits(t, A, np, b) : Cleared(w, np, both.rows)
      BY <1>1, <1>2, <1>3, <3>1, <3>2, BothTakeAway
    <3>4. ASSUME NEW h \in Range(fks), NEW r \in Range(A), h.ref = t, Touched(h.refcols, np)
          PROVE  Cleared([row |-> r, fk |-> h], np, both.rows)
      <4>1. [row |-> r, fk |-> h] \in Visits(t, A, np, Len(h.cols) > 1) /\ (Len(h.cols) > 1) \in BOOLEAN
        BY <2>0, <3>4
      <4> QED BY <3>3, <4>1, Zenon
    <3>5. both.rows \in DB
      BY <3>1 DEF Result
    <3> QED BY <3>2, <3>3, <3>4, <3>5
  <2> QED BY <2>1, <2>2
<1>5. Shrunk(R, res.rows)
  <2>1. "id" \notin DOMAIN np /\ DOMAIN np \subseteq DOMAIN q
    BY <1>1
  <2>2. \A h \in Range(fks) : \A r \in Range(Found(R, t, q)) :
          h.ref = t /\ Touched(h.refcols, np) => Cleared([row |-> r, fk |-> h], np, S)
    BY <1>4
  <2>3. res = kdb_table_update(S, t, q, np) /\ Shrunk(R, S)
    BY <1>4
  <2> HIDE DEF t, A
  <2> QED BY <1>1, <2>1, <2>2, <2>3, NullWriteShrinks
<1> QED
  BY <1>4, <1>5

\* One visit of a call that takes values away.
LEMMA ActTakesAway ==
    ASSUME Fits, Disjoint, unseen = {}, NEW e, Typed(e), TakesAway(e), NEW R \in DB, NEW w \in Pair, w.fk \in Range(fks),
           NEW p \in Fields, \A c \in DOMAIN p : p[c] \in {Val(w.row, c), Null},
           Whole(KeyOf(w.row, w.fk.refcols)), NEW res, res = Act(e, R, w, p), res.ok
    PROVE  Shrunk(R, res.rows) /\ Gone(w, p, res.rows)
<1> DEFINE g == w.fk
           K == KeyOf(w.row, g.refcols)
           q == Children(w)
           N == NewKey(w, p)
           np == Query(g.cols, N)
<1>1. g \in Key /\ g.t \in Tables /\ w.row \in Row /\ g.refcols \in Seq(Cols) /\ DOMAIN g.refcols = DOMAIN g.cols
  BY KeyFacts DEF Pair
<1>2. /\ K = [k \in DOMAIN g.cols |-> K[k]] /\ DOMAIN K = DOMAIN g.cols
      /\ \A k \in DOMAIN g.cols : K[k] \in Vals /\ K[k] # Null
      /\ q = Query(g.cols, K) /\ q \in Fields /\ DOMAIN q = Range(g.cols)
      /\ \A k \in DOMAIN g.cols : q[g.cols[k]] = K[k]
      /\ \A x \in Row : MatchesAll(q, x) <=> KeyOf(x, g.cols) = K
  BY ChildrenFacts
<1>a. "updated_at" \notin DOMAIN q
  BY <1>1, <1>2, KeyFacts
<1>3. /\ N = [k \in DOMAIN g.cols |-> N[k]] /\ DOMAIN N = DOMAIN g.cols /\ \A k \in DOMAIN g.cols : N[k] \in Vals
      /\ ActionOf(w, p) = "setnull" => \A k \in DOMAIN g.cols : N[k] = Null
      /\ ActionOf(w, p) # "setnull" => N = KeyOf(Patched(w.row, p), g.refcols)
      /\ np \in Fields /\ DOMAIN np = Range(g.cols) /\ np # NoPatch
      /\ \A k \in DOMAIN g.cols : np[g.cols[k]] = N[k]
  BY NewKeyFacts
<1>4. \/ ActionOf(w, p) = "restrict" /\ res = Forbid(R, g.t, q)
      \/ ActionOf(w, p) = "cascade" /\ p = NoPatch /\ res = CascadeDelete(e, R, g.t, q)
      \/ /\ ActionOf(w, p) = "setnull" \/ (ActionOf(w, p) = "cascade" /\ p # NoPatch)
         /\ \/ Len(g.cols) = 1 /\ res = kdb__cascade_set_one_field(e, R, g.t, q, np)
            \/ Len(g.cols) > 1 /\ res = kdb__cascade_set_composite_fields(e, R, g.t, q, np)
  BY ActCases
<1>5. g \in Range(fks)
  OBVIOUS
<1>6. ASSUME NEW S \in DB, \A s \in Range(S[g.t]) : ~MatchesAll(q, s) PROVE Gone(w, p, S)
  <2>1. \A s \in Range(S[g.t]) : KeyOf(s, g.cols) # K
    BY <1>1, <1>2, <1>6, RowsFacts
  <2> QED BY <2>1 DEF Gone
<1>7. \A k \in DOMAIN g.cols : N[k] \in {K[k], Null}
  <2>1. CASE ActionOf(w, p) = "setnull"
    BY <1>3, <2>1
  <2>2. CASE ActionOf(w, p) # "setnull"
    <3>1. Patched(w.row, p) \in Row
      BY <1>1, PatchedFacts
    <3>2. \A k \in DOMAIN g.cols : /\ g.refcols[k] \in Cols
                                   /\ N[k] = Val(Patched(w.row, p), g.refcols[k]) /\ K[k] = Val(w.row, g.refcols[k])
      BY <1>1, <1>3, <2>2, <3>1, KeyOfFacts
    <3>3. \A c \in Cols : Val(Patched(w.row, p), c) \in {Val(w.row, c), Null}
      BY <1>1, PatchedFacts
    <3> QED BY <3>2, <3>3
  <2> QED BY <2>1, <2>2
<1> HIDE DEF K, q, N, np
<1>8. \A c \in DOMAIN np : np[c] \in {q[c], Null}
  <2> SUFFICES ASSUME NEW c \in Range(g.cols) PROVE np[c] \in {q[c], Null}
    BY <1>3
  <2>1. PICK k \in DOMAIN g.cols : g.cols[k] = c
    BY RangeIs
  <2> QED BY <1>2, <1>3, <1>7, <2>1
<1>9. CASE ActionOf(w, p) = "restrict" /\ res = Forbid(R, g.t, q)
  <2>1. res.rows = R /\ Matching(R, g.t, q) = {}
    BY <1>9, ResultFacts DEF Forbid
  <2>2. \A s \in Range(R[g.t]) : ~MatchesAll(q, s)
    BY <2>1 DEF Matching
  <2> QED BY <1>6, <2>1, <2>2, ShrunkReflexive
<1>10. CASE res = CascadeDelete(e, R, g.t, q)
  <2>1. Shrunk(R, res.rows) /\ \A r \in Range(res.rows[g.t]) : ~MatchesAll(q, r)
    BY <1>1, <1>2, <1>a, <1>10, CascadeDeleteTakesAway
  <2>2. res.rows \in DB
    <3>1. CascadeDelete(e, R, g.t, q) \in Result
      BY <1>1, <1>2, WritesTyped, NoPatchFits DEF Fits
    <3> QED BY <1>10, <3>1 DEF Result
  <2> QED BY <1>6, <2>1, <2>2
<1>11. CASE /\ ActionOf(w, p) = "setnull" \/ (ActionOf(w, p) = "cascade" /\ p # NoPatch)
            /\ \/ Len(g.cols) = 1 /\ res = kdb__cascade_set_one_field(e, R, g.t, q, np)
               \/ Len(g.cols) > 1 /\ res = kdb__cascade_set_composite_fields(e, R, g.t, q, np)
  <2>1. Shrunk(R, res.rows) /\ \E S \in DB : res = kdb_table_update(S, g.t, q, np)
    BY <1>1, <1>2, <1>3, <1>5, <1>8, <1>11, SetTakesAway
  <2>2. PICK S \in DB : res = kdb_table_update(S, g.t, q, np)
    BY <2>1
  <2>3. CASE N = K
    <3>1. ActionOf(w, p) # "setnull"
      BY <1>1, <1>2, <1>3, <2>3, NullsNotWhole DEF K
    <3> QED BY <1>3, <1>11, <2>1, <2>3, <3>1 DEF Gone, K
  <2>4. CASE N # K
    <3>1. /\ res = kdb_table_update(S, g.t, Query(g.cols, K), Query(g.cols, N))
      BY <1>2, <2>2 DEF np
    <3>2. Whole(K)
      BY DEF K
    <3>3. \A s \in Range(res.rows[g.t]) : KeyOf(s, g.cols) # K
      <4>1. KeyFor(g, K) /\ KeyFor(g, N)
        BY <1>2, <1>3 DEF KeyFor
      <4> HIDE DEF g
      <4> QED BY <1>1, <2>4, <3>1, <3>2, <4>1, WriteClears DEF Fits
    <3> QED BY <2>1, <3>3 DEF Gone, K
  <2> QED BY <2>3, <2>4
<1> QED
  BY <1>4, <1>9, <1>10, <1>11

LEMMA LayerTakesAway ==
    ASSUME Fits, WithinCaps, Disjoint, unseen = {}, NEW e, Typed(e), TakesAway(e)
    PROVE  TakesAway([c \in Call |-> ActAll(e, c.rows, VisitsOf(c), c.patch)])
<1> SUFFICES ASSUME NEW c \in Call, NullPatch(c.patch, c.affected), NEW res, res = ActAll(e, c.rows, VisitsOf(c), c.patch), res.ok
             PROVE  /\ Shrunk(c.rows, res.rows)
                    /\ \A w \in Visits(c.t, c.affected, c.patch, c.composite) : Cleared(w, c.patch, res.rows)
  BY DEF TakesAway
<1> DEFINE vs == VisitsOf(c)
           p == c.patch
           R == c.rows
           J == {x \in DB \X DB : Shrunk(x[1], x[2])}
           D == {x \in Pair \X DB : Cleared(x[1], p, x[2])}
<1>1. R \in DB /\ p \in Fields
  BY DEF Call, DB
<1>2. vs \in Seq(Pair) /\ Range(vs) = Visits(c.t, c.affected, p, c.composite)
  BY VisitsFacts
<1>3. \A S, T \in DB : <<S, T>> \in J <=> Shrunk(S, T)
  OBVIOUS
<1>4. \A w \in Pair, S \in DB : <<w, S>> \in D <=> Cleared(w, p, S)
  OBVIOUS
<1>5. res = ActAll(e, R, vs, p)
  OBVIOUS
<1> HIDE DEF vs, R, J, D, p
<1>6. <<R, R>> \in J
  BY <1>1, <1>3, ShrunkReflexive
<1>7. \A S, T, U \in DB : <<S, T>> \in J /\ <<T, U>> \in J => <<S, U>> \in J
  BY <1>3, ShrunkTransitive
<1>8. \A w \in Range(vs) : w \in Pair /\ w.fk \in Range(fks) /\ \A x \in DOMAIN p : p[x] \in {Val(w.row, x), Null}
  BY <1>2 DEF Visits, NullPatch, p
<1>9. ASSUME NEW w \in Range(vs), NEW S \in DB, Whole(KeyOf(w.row, w.fk.refcols)), Act(e, S, w, p).ok
      PROVE  <<S, Act(e, S, w, p).rows>> \in J /\ <<w, Act(e, S, w, p).rows>> \in D
  <2> DEFINE r == Act(e, S, w, p)
  <2>1. r \in Result
    BY <1>1, <1>8, ActTyped DEF Fits
  <2>2. r = Act(e, S, w, p) /\ r.ok
    BY <1>9
  <2> HIDE DEF r
  <2>3. Shrunk(S, r.rows) /\ Gone(w, p, r.rows)
    BY <1>1, <1>8, <1>9, <2>2, ActTakesAway
  <2>4. r.rows \in DB
    BY <2>1 DEF Result
  <2> QED BY <1>3, <1>4, <1>8, <2>2, <2>3, <2>4 DEF Cleared
<1>10. \A w \in Range(vs) : \A S, T \in DB : <<w, S>> \in D /\ <<S, T>> \in J => <<w, T>> \in D
  BY <1>3, <1>4, <1>8, ClearedStays
<1>11. res.rows \in DB
  BY <1>1, <1>2, <1>5, ActAllTyped DEF Result, Fits
<1>12. ActAll(e, R, vs, p).ok
  BY <1>5
<1>13. /\ <<R, ActAll(e, R, vs, p).rows>> \in J
       /\ \A w \in Range(vs) : Whole(KeyOf(w.row, w.fk.refcols)) => <<w, ActAll(e, R, vs, p).rows>> \in D
  BY <1>1, <1>2, <1>6, <1>7, <1>9, <1>10, <1>12, ActAllKeeps DEF Fits
<1>14. Shrunk(R, res.rows)
  BY <1>1, <1>3, <1>5, <1>11, <1>13
<1>15. \A w \in Range(vs) : Cleared(w, p, res.rows)
  BY <1>4, <1>5, <1>8, <1>11, <1>13 DEF Cleared
<1> QED
  BY <1>2, <1>14, <1>15 DEF R, p

\* However deep the cascade, a call that takes values away loses no parent of
\* a row it leaves.
LEMMA EnforcedTakesAway ==
    ASSUME Fits, WithinCaps, Disjoint, unseen = {}
    PROVE  TakesAway(Enforced)
<1> DEFINE G == {e \in [Call -> Result] : Typed(e) /\ TakesAway(e)}
           zero == [c \in Call |-> Failed(c.rows)]
           next(e) == [c \in Call |-> ActAll(e, c.rows, VisitsOf(c), c.patch)]
<1>1. zero \in G
  <2>1. \A c \in Call : zero[c].ok = FALSE
    BY DEF Failed
  <2>2. TakesAway(zero)
    BY <2>1 DEF TakesAway
  <2> QED BY <2>2, FirstTyped DEF Typed
<1>2. ASSUME NEW e \in G PROVE next(e) \in G
  <2>1. Typed(next(e)) /\ TakesAway(next(e))
    BY LayerTyped, LayerTakesAway
  <2> QED BY <2>1 DEF Typed
<1>3. Enforced \in G
  <2> HIDE DEF G
  <2> QED BY <1>1, <1>2, EnforceInduction
<1> QED
  BY <1>3

---------------------------------------------------------------------------
\* The rows that point at nothing.

LEMMA HasKeyFacts ==
    ASSUME NEW R \in DB, NEW t \in Tables, NEW g \in Key, NEW K, KeyFor(g, K), Whole(K)
    PROVE  Matching(R, t, Query(g.refcols, K)) # {} <=> HasKey(R, t, g.refcols, K)
<1>0. K = [k \in DOMAIN g.refcols |-> K[k]] /\ \A k \in DOMAIN g.refcols : K[k] \in Vals
  BY KeyFacts DEF KeyFor
<1>1. g.refcols \in Seq(Cols) /\ Distinct(g.refcols)
  BY KeyFacts
<1>2. \A x \in Row : MatchesAll(Query(g.refcols, K), x) <=> KeyOf(x, g.refcols) = K
  BY <1>0, <1>1, QueryMatches
<1>3. \A x \in Range(R[t]) : x \in Row
  BY RowsFacts
<1> QED
  BY <1>2, <1>3 DEF Matching, HasKey

LEMMA RowKeyFor ==
    ASSUME NEW g \in Key, NEW r \in Row
    PROVE  KeyFor(g, KeyOf(r, g.cols)) /\ KeyFor(g, KeyOf(r, g.refcols))
<1>1. g.cols \in Seq(Cols) /\ g.refcols \in Seq(Cols) /\ DOMAIN g.refcols = DOMAIN g.cols
  BY KeyFacts
<1> QED
  BY <1>1, KeyOfFacts DEF KeyFor

LEMMA OrphanFacts ==
    ASSUME NEW R \in DB, NEW g \in Key, NEW r
    PROVE  r \in Orphans(R, g) <=>
             /\ r \in Range(R[g.t]) /\ Whole(KeyOf(r, g.cols))
             /\ ~HasKey(R, g.ref, g.refcols, KeyOf(r, g.cols))
<1>1. g.t \in Tables /\ g.ref \in Tables
  BY KeyFacts
<1> SUFFICES ASSUME r \in Range(R[g.t]), Whole(KeyOf(r, g.cols))
             PROVE  Matching(R, g.ref, Query(g.refcols, KeyOf(r, g.cols))) = {} <=> ~HasKey(R, g.ref, g.refcols, KeyOf(r, g.cols))
  BY DEF Orphans
<1>2. r \in Row
  BY <1>1, RowsFacts
<1>3. KeyFor(g, KeyOf(r, g.cols))
  BY <1>2, RowKeyFor
<1> QED
  BY <1>1, <1>3, HasKeyFacts

\* It is enough that every orphan was one before, by its id.
LEMMA OrphansStay ==
    ASSUME Fits, NEW R, NEW S,
           \A g \in Range(fks) : \A s \in Orphans(S, g) : \E r \in Orphans(R, g) : s["id"] = r["id"]
    PROVE  AllOrphans(S) \subseteq AllOrphans(R)
<1> SUFFICES ASSUME NEW x \in AllOrphans(S) PROVE x \in AllOrphans(R)
  OBVIOUS
<1>1. PICK i \in DOMAIN fks : x \in {<<i, r["id"]>> : r \in Orphans(S, fks[i])}
  BY DEF AllOrphans
<1>2. PICK s \in Orphans(S, fks[i]) : x = <<i, s["id"]>>
  BY <1>1
<1>3. fks[i] \in Range(fks)
  BY DEF Range
<1>4. PICK r \in Orphans(R, fks[i]) : s["id"] = r["id"]
  BY <1>3
<1>5. x \in {<<i, y["id"]>> : y \in Orphans(R, fks[i])}
  BY <1>2, <1>4
<1> QED
  BY <1>5 DEF AllOrphans

LEMMA ShrunkOrphans ==
    ASSUME Fits, NEW R \in DB, NEW S \in DB, Shrunk(R, S)
    PROVE  AllOrphans(S) \subseteq AllOrphans(R)
<1> SUFFICES ASSUME NEW g \in Range(fks), NEW s \in Orphans(S, g) PROVE \E r \in Orphans(R, g) : s["id"] = r["id"]
  BY OrphansStay
<1>1. g \in Key
  BY FksFacts DEF Fits
<1>2. g.t \in Tables /\ g.cols \in Seq(Cols) /\ "updated_at" \notin Range(g.cols) /\ "id" \in Cols
  BY <1>1, KeyFacts, ForeignKeyAssumption
<1>3. s \in Range(S[g.t]) /\ Whole(KeyOf(s, g.cols)) /\ ~HasKey(S, g.ref, g.refcols, KeyOf(s, g.cols))
  BY <1>1, OrphanFacts
<1>4. PICK r \in Range(R[g.t]) : Narrower(s, r)
  BY <1>2, <1>3 DEF Shrunk, Thinned
<1>5. s \in Row /\ r \in Row
  BY <1>2, <1>3, RowsFacts
<1>6. KeyOf(r, g.cols) = KeyOf(s, g.cols)
  BY <1>2, <1>3, <1>4, <1>5, NarrowKey
<1>7. ~HasKey(R, g.ref, g.refcols, KeyOf(s, g.cols))
  BY <1>3 DEF Shrunk, KeepsParents
<1>8. r \in Orphans(R, g)
  BY <1>1, <1>3, <1>6, <1>7, OrphanFacts
<1>9. s["id"] = r["id"]
  BY <1>2, <1>4, <1>5, ValFacts DEF Narrower
<1> QED
  BY <1>8, <1>9

\* A delete that is accepted.
LEMMA DeleteKeepsReferences ==
    ASSUME Fits, rows \in DB, WithinCaps, Disjoint, unseen = {}, NEW t \in Tables, NEW q \in Fields,
           "updated_at" \notin DOMAIN q, NEW res, res = CascadeDelete(Enforced, rows, t, q), res.ok
    PROVE  AllOrphans(res.rows) \subseteq AllOrphans(rows)
<1>1. Typed(Enforced) /\ TakesAway(Enforced)
  BY EnforcedTyped, EnforcedTakesAway
<1>2. Shrunk(rows, res.rows)
  BY <1>1, CascadeDeleteTakesAway
<1>3. CascadeDelete(Enforced, rows, t, q) \in Result
  BY <1>1, WritesTyped, NoPatchFits DEF Fits
<1>4. res.rows \in DB
  BY <1>3 DEF Result
<1> QED
  BY <1>2, <1>4, ShrunkOrphans

---------------------------------------------------------------------------
\* Updates, where the tables can be ranked so that every key points at a lower
\* one.  Before the rows of t that a call is about are written, the keys they
\* will have are pending: what points at them is no orphan then.

Ranks(rank) == rank \in [Tables -> Nat] /\ \A g \in Range(fks) : rank[g.ref] < rank[g.t]
Pend(g, t, A, p) == {K \in {KeyOf(Patched(a, p), g.refcols) : a \in Range(A)} : g.ref = t}
SameKey(s, r, cs) == Val(s, "id") = Val(r, "id") /\ KeyOf(s, cs) = KeyOf(r, cs)

\* The tables up to the rank of t are as before; no key that points there has
\* a new value, and no row has become an orphan, but for what is pending.
Above(rank, t, R, S) == \A u \in Tables : rank[u] <= rank[t] => S[u] = R[u]
OldKeys(rank, t, A, p, R, S) ==
    \A g \in Range(fks) : rank[g.ref] <= rank[t] =>
        \A s \in Range(S[g.t]) : Whole(KeyOf(s, g.cols)) =>
            KeyOf(s, g.cols) \in Pend(g, t, A, p) \/ \E r \in Range(R[g.t]) : SameKey(s, r, g.cols)
OldOrphans(t, A, p, R, S) ==
    \A g \in Range(fks) : \A s \in Orphans(S, g) :
        KeyOf(s, g.cols) \in Pend(g, t, A, p) \/ \E r \in Orphans(R, g) : SameKey(s, r, g.cols)
Moved(rank, t, A, p, R, S) == Above(rank, t, R, S) /\ OldKeys(rank, t, A, p, R, S) /\ OldOrphans(t, A, p, R, S)
\* No row has the key of a visit, unless it is pending.
Settled(w, t, A, p, S) ==
    LET K == KeyOf(w.row, w.fk.refcols)
    IN  Whole(K) => K \in Pend(w.fk, t, A, p) \/ \A s \in Range(S[w.fk.t]) : KeyOf(s, w.fk.cols) # K

LEMMA MovedReflexive ==
    ASSUME NEW rank, NEW t, NEW A, NEW p, NEW R
    PROVE  Moved(rank, t, A, p, R, R)
  BY DEF Moved, Above, OldKeys, OldOrphans, SameKey

LEMMA MovedTransitive ==
    ASSUME Fits, NEW rank, NEW t, NEW A, NEW p, NEW R \in DB, NEW S \in DB, NEW T \in DB,
           Moved(rank, t, A, p, R, S), Moved(rank, t, A, p, S, T)
    PROVE  Moved(rank, t, A, p, R, T)
<1>1. Above(rank, t, R, T)
  BY DEF Moved, Above
<1>2. OldKeys(rank, t, A, p, R, T)
  <2> SUFFICES ASSUME NEW g \in Range(fks), rank[g.ref] <= rank[t], NEW s \in Range(T[g.t]), Whole(KeyOf(s, g.cols)),
                      KeyOf(s, g.cols) \notin Pend(g, t, A, p)
               PROVE  \E r \in Range(R[g.t]) : SameKey(s, r, g.cols)
    BY DEF OldKeys
  <2>1. PICK x \in Range(S[g.t]) : SameKey(s, x, g.cols)
    BY DEF Moved, OldKeys
  <2>2. PICK r \in Range(R[g.t]) : SameKey(x, r, g.cols)
    BY <2>1 DEF Moved, OldKeys, SameKey
  <2> QED BY <2>1, <2>2 DEF SameKey
<1>3. OldOrphans(t, A, p, R, T)
  <2> SUFFICES ASSUME NEW g \in Range(fks), NEW s \in Orphans(T, g), KeyOf(s, g.cols) \notin Pend(g, t, A, p)
               PROVE  \E r \in Orphans(R, g) : SameKey(s, r, g.cols)
    BY DEF OldOrphans
  <2>1. PICK x \in Orphans(S, g) : SameKey(s, x, g.cols)
    BY DEF Moved, OldOrphans
  <2>2. PICK r \in Orphans(R, g) : SameKey(x, r, g.cols)
    BY <2>1 DEF Moved, OldOrphans, SameKey
  <2> QED BY <2>1, <2>2 DEF SameKey
<1> QED
  BY <1>1, <1>2, <1>3 DEF Moved

LEMMA SettledStays ==
    ASSUME NEW rank, Ranks(rank), NEW t \in Tables, NEW A, NEW p, NEW R \in DB, NEW S \in DB, Moved(rank, t, A, p, R, S),
           NEW w \in Pair, w.fk \in Range(fks), w.fk.ref = t, Settled(w, t, A, p, R)
    PROVE  Settled(w, t, A, p, S)
<1> DEFINE g == w.fk
           K == KeyOf(w.row, g.refcols)
<1> SUFFICES ASSUME Whole(K), K \notin Pend(g, t, A, p), NEW s \in Range(S[g.t]), KeyOf(s, g.cols) = K
             PROVE  FALSE
  BY DEF Settled
<1>1. rank[g.ref] <= rank[t]
  BY DEF Ranks
<1>2. PICK r \in Range(R[g.t]) : SameKey(s, r, g.cols)
  BY <1>1 DEF Moved, OldKeys
<1> QED
  BY <1>2 DEF Settled, SameKey

\* What is so when the rows of t are written too.
Written(rank, t, q, p, R, T) ==
    /\ \A u \in Tables : rank[u] <= rank[t] /\ u # t => T[u] = R[u]
    /\ \A s \in Range(T[t]) : \E r \in Range(R[t]) : s = Rewritten(r, q, p)
    /\ \A g \in Range(fks) : g.t # t /\ g.ref # t /\ rank[g.ref] <= rank[t] =>
         \A s \in Range(T[g.t]) : Whole(KeyOf(s, g.cols)) => \E r \in Range(R[g.t]) : SameKey(s, r, g.cols)
    /\ \A g \in Range(fks) : g.t # t =>
         \A s \in Orphans(T, g) : \E r \in Orphans(R, g) : SameKey(s, r, g.cols)

\* Writing the rows: what was pending is there.
LEMMA WriteMoves ==
    ASSUME Fits, Disjoint, unseen = {}, NEW rank, Ranks(rank), NEW R \in DB, NEW S \in DB, NEW t \in Tables, NEW q \in Fields,
           NEW p \in Fields, p # NoPatch, NEW A, A = Found(R, t, q), Moved(rank, t, A, p, R, S),
           \A g \in Range(fks) : \A r \in Range(A) :
               g.ref = t /\ Touched(g.refcols, p) => Settled([row |-> r, fk |-> g], t, A, p, S),
           NEW res, res = kdb_table_update(S, t, q, p), res.ok
    PROVE  Written(rank, t, q, p, R, res.rows)
<1> DEFINE T == res.rows
<1>1. /\ T \in DB /\ \A u \in Tables \ {t} : T[u] = S[u]
      /\ \A s : s \in Range(T[t]) <=> \E r \in Range(S[t]) : s = Rewritten(r, q, p)
  BY UpdateFacts DEF Fits
<1> HIDE DEF T
<1>2. S[t] = R[t] /\ \A u \in Tables : rank[u] <= rank[t] => S[u] = R[u]
  <2>1. rank[t] <= rank[t]
    BY DEF Ranks
  <2> QED BY <2>1 DEF Moved, Above
<1>3. \A g \in Range(fks) : g \in Key /\ g.t \in Tables /\ g.ref \in Tables /\ g.refcols \in Seq(Cols) /\ g.t # g.ref
  BY FksFacts, KeyFacts, DisjointFacts DEF Fits
<1>a. \A g \in Range(fks), x \in Row :
        KeyOf(Rewritten(x, q, p), g.refcols) = IF MatchesAll(q, x) THEN KeyOf(Patched(x, p), g.refcols) ELSE KeyOf(x, g.refcols)
  <2>1. \A g \in Range(fks) : g.refcols \in Seq(Cols) /\ "updated_at" \notin Range(g.refcols)
    BY <1>3, DisjointFacts
  <2>2. now \in Clock
    BY DEF Fits
  <2> QED BY <2>1, <2>2, RewrittenFacts
<1>4. ASSUME NEW g \in Range(fks), g.t # t, g.ref # t, rank[g.ref] <= rank[t], NEW s \in Range(T[g.t]), Whole(KeyOf(s, g.cols))
      PROVE  \E r \in Range(R[g.t]) : SameKey(s, r, g.cols)
  <2>1. s \in Range(S[g.t])
    BY <1>1, <1>3, <1>4
  <2>2. Pend(g, t, A, p) = {}
    BY <1>4 DEF Pend
  <2> QED BY <1>4, <2>1, <2>2 DEF Moved, OldKeys
<1>5. ASSUME NEW g \in Range(fks), g.t # t, NEW s \in Orphans(T, g)
      PROVE  \E r \in Orphans(R, g) : SameKey(s, r, g.cols)
  <2> DEFINE K == KeyOf(s, g.cols)
  <2>1. s \in Range(T[g.t]) /\ Whole(K) /\ ~HasKey(T, g.ref, g.refcols, K)
    BY <1>1, <1>3, <1>5, OrphanFacts
  <2>2. s \in Range(S[g.t])
    BY <1>1, <1>3, <1>5, <2>1
  <2> HIDE DEF K
  <2>3. K \notin Pend(g, t, A, p) /\ ~HasKey(S, g.ref, g.refcols, K)
    <3>1. CASE g.ref # t
      BY <1>1, <1>3, <2>1, <3>1 DEF Pend, HasKey
    <3>2. CASE g.ref = t
      <4>1. ASSUME NEW a \in Range(A) PROVE KeyOf(Patched(a, p), g.refcols) # K
        <5>1. a \in Range(R[t]) /\ MatchesAll(q, a)
          BY <4>1, FoundFacts
        <5>2. Rewritten(a, q, p) \in Range(T[t]) /\ a \in Row
          BY <1>1, <1>2, <5>1, RowsFacts
        <5>3. KeyOf(Rewritten(a, q, p), g.refcols) = KeyOf(Patched(a, p), g.refcols)
          BY <1>a, <5>1, <5>2
        <5> QED BY <2>1, <3>2, <5>2, <5>3 DEF HasKey
      <4>2. K \notin Pend(g, t, A, p)
        BY <4>1 DEF Pend
      <4>3. ASSUME NEW x \in Range(R[t]) PROVE KeyOf(x, g.refcols) # K
        <5> SUFFICES ASSUME KeyOf(x, g.refcols) = K PROVE FALSE
          OBVIOUS
        <5>1. x \in Row
          BY RowsFacts
        <5>2. Rewritten(x, q, p) \in Range(T[t])
          BY <1>1, <1>2
        <5>3. KeyOf(Rewritten(x, q, p), g.refcols) # K
          BY <2>1, <3>2, <5>2 DEF HasKey
        <5>4. MatchesAll(q, x) /\ KeyOf(Patched(x, p), g.refcols) # KeyOf(x, g.refcols)
          BY <1>a, <5>1, <5>3
        <5>5. x \in Range(A)
          BY <5>4, FoundFacts
        <5>6. Touched(g.refcols, p)
          BY <1>3, <5>1, <5>4, KeyUntouched DEF Touched
        <5> DEFINE w == [row |-> x, fk |-> g]
        <5>7. Settled(w, t, A, p, S)
          BY <3>2, <5>5, <5>6
        <5>8. w.row = x /\ w.fk = g
          OBVIOUS
        <5> HIDE DEF w
        <5>9. \A s2 \in Range(S[g.t]) : KeyOf(s2, g.cols) # K
          BY <2>1, <4>2, <5>7, <5>8 DEF Settled
        <5> QED BY <2>2, <5>9 DEF K
      <4> QED BY <1>2, <3>2, <4>2, <4>3 DEF HasKey
    <3> QED BY <3>1, <3>2
  <2>4. s \in Orphans(S, g)
    BY <1>3, <2>1, <2>2, <2>3, OrphanFacts DEF K
  <2> QED BY <2>3, <2>4 DEF Moved, OldOrphans, K
<1> QED
  BY <1>1, <1>2, <1>4, <1>5 DEF T, Written

\* What a call of an update ends with.
MovesUp(rank, e) ==
    \A c \in Call :
        c.patch # NoPatch /\ e[c].ok =>
            /\ Moved(rank, c.t, c.affected, c.patch, c.rows, e[c].rows)
            /\ \A w \in Visits(c.t, c.affected, c.patch, c.composite) : Settled(w, c.t, c.affected, c.patch, e[c].rows)

LEMMA SingleMoves ==
    ASSUME NEW e, NEW rank, MovesUp(rank, e),
           NEW R \in DB, NEW t \in Tables, NEW A \in Seq(Row), NEW p \in Fields, p # NoPatch, NEW b \in BOOLEAN,
           NEW res, res = e[Args(R, t, A, p, b)], res.ok
    PROVE  Moved(rank, t, A, p, R, res.rows) /\ \A w \in Visits(t, A, p, b) : Settled(w, t, A, p, res.rows)
<1> DEFINE c == Args(R, t, A, p, b)
<1>1. c \in Call /\ c.rows = R /\ c.t = t /\ c.affected = A /\ c.patch = p /\ c.composite = b
  BY ArgsFacts
<1>2. e[c].ok /\ res = e[c]
  OBVIOUS
<1> HIDE DEF c
<1>3. c.patch # NoPatch
  BY <1>1
<1>4. /\ Moved(rank, c.t, c.affected, c.patch, c.rows, e[c].rows)
      /\ \A w \in Visits(c.t, c.affected, c.patch, c.composite) : Settled(w, c.t, c.affected, c.patch, e[c].rows)
  BY <1>1, <1>2, <1>3, Zenon DEF MovesUp
<1> QED
  BY <1>1, <1>2, <1>4

LEMMA BothMove ==
    ASSUME Fits, NEW e, Typed(e), NEW rank, Ranks(rank), MovesUp(rank, e),
           NEW R \in DB, NEW t \in Tables, NEW A \in Seq(Row), NEW p \in Fields, p # NoPatch,
           NEW res, res = EnforceBoth(e, R, t, A, p), res.ok
    PROVE  Moved(rank, t, A, p, R, res.rows) /\ \A b \in BOOLEAN : \A w \in Visits(t, A, p, b) : Settled(w, t, A, p, res.rows)
<1> DEFINE one == e[Args(R, t, A, p, FALSE)]
<1>1. one \in Result
  BY CallTyped
<1>2. one.ok /\ res = e[Args(one.rows, t, A, p, TRUE)]
  BY DEF EnforceBoth
<1>3. Moved(rank, t, A, p, R, one.rows) /\ \A w \in Visits(t, A, p, FALSE) : Settled(w, t, A, p, one.rows)
  <2>1. one = e[Args(R, t, A, p, FALSE)]
    OBVIOUS
  <2> HIDE DEF one
  <2> QED BY <1>2, <2>1, SingleMoves
<1> HIDE DEF one
<1>4. one.rows \in DB
  BY <1>1 DEF Result
<1>5. Moved(rank, t, A, p, one.rows, res.rows) /\ \A w \in Visits(t, A, p, TRUE) : Settled(w, t, A, p, res.rows)
  <2>1. TRUE \in BOOLEAN /\ res = e[Args(one.rows, t, A, p, TRUE)]
    BY <1>2
  <2> QED BY <1>4, <2>1, SingleMoves, Zenon
<1>6. res.rows \in DB
  <2>1. e[Args(one.rows, t, A, p, TRUE)] \in Result
    BY <1>4, CallTyped
  <2> QED BY <1>2, <2>1 DEF Result
<1>7. Moved(rank, t, A, p, R, res.rows)
  BY <1>3, <1>4, <1>5, <1>6, MovedTransitive
<1>8. \A w \in Visits(t, A, p, FALSE) : Settled(w, t, A, p, res.rows)
  <2>1. \A w \in Visits(t, A, p, FALSE) : w \in Pair /\ w.fk \in Range(fks) /\ w.fk.ref = t
    BY DEF Visits
  <2> QED BY <1>3, <1>4, <1>5, <1>6, <2>1, SettledStays
<1> QED
  BY <1>5, <1>7, <1>8

\* A cascade that writes the rows of one key.
LEMMA SetMoves ==
    ASSUME Fits, Disjoint, unseen = {}, NEW e, Typed(e), NEW rank, Ranks(rank), MovesUp(rank, e), NEW R \in DB, NEW g \in Key, g \in Range(fks),
           NEW q \in Fields, NEW np \in Fields, DOMAIN np = Range(g.cols), np # NoPatch,
           NEW res, res.ok,
           \/ Len(g.cols) = 1 /\ res = kdb__cascade_set_one_field(e, R, g.t, q, np)
           \/ Len(g.cols) > 1 /\ res = kdb__cascade_set_composite_fields(e, R, g.t, q, np)
    PROVE  \E S \in DB : /\ res = kdb_table_update(S, g.t, q, np) /\ Moved(rank, g.t, Found(R, g.t, q), np, R, S)
                         /\ \A h \in Range(fks) : \A r \in Range(Found(R, g.t, q)) :
                              h.ref = g.t /\ Touched(h.refcols, np) => Settled([row |-> r, fk |-> h], g.t, Found(R, g.t, q), np, S)
<1> DEFINE t == g.t
           A == Found(R, t, q)
<1>1. t \in Tables
  BY KeyFacts
<1>2. A \in Seq(Row)
  BY <1>1, FoundFacts
<1>3. ASSUME NEW h \in Range(fks), NEW r \in Range(A), h.ref = t, Touched(h.refcols, np)
      PROVE  [row |-> r, fk |-> h] \in Visits(t, A, np, Len(h.cols) > 1) /\ (Len(h.cols) > 1) \in BOOLEAN
  <2>1. h \in Key /\ r \in Row
    BY <1>2, FksFacts DEF Fits, Range
  <2> QED BY <1>3, <2>1 DEF Visits, Pair
<1>4. CASE Len(g.cols) = 1 /\ res = kdb__cascade_set_one_field(e, R, t, q, np)
  <2> DEFINE one == e[Args(R, t, A, np, FALSE)]
  <2>1. one \in Result /\ one = e[Args(R, t, A, np, FALSE)] /\ FALSE \in BOOLEAN
    BY <1>1, <1>2, CallTyped
  <2>2. one.ok /\ res = kdb_table_update(one.rows, t, q, np)
    BY <1>4 DEF kdb__cascade_set_one_field
  <2> HIDE DEF one, A
  <2>3. Moved(rank, t, A, np, R, one.rows) /\ \A w \in Visits(t, A, np, FALSE) : Settled(w, t, A, np, one.rows)
    BY <1>1, <1>2, <2>1, <2>2, SingleMoves
  <2>4. ASSUME NEW h \in Range(fks), NEW r \in Range(A), h.ref = t, Touched(h.refcols, np)
        PROVE  Settled([row |-> r, fk |-> h], t, A, np, one.rows)
    <3>1. ~(Len(h.cols) > 1)
      <4>1. Range(h.refcols) \cap Range(g.cols) # {}
        BY <2>4 DEF Touched
      <4> QED BY <1>4, <2>4, <4>1, DisjointFacts
    <3>2. [row |-> r, fk |-> h] \in Visits(t, A, np, FALSE)
      BY <1>3, <2>4, <3>1 DEF Visits
    <3> QED BY <2>3, <3>2
  <2>5. one.rows \in DB
    BY <2>1 DEF Result
  <2> QED BY <2>2, <2>3, <2>4, <2>5 DEF A
<1>5. CASE Len(g.cols) > 1 /\ res = kdb__cascade_set_composite_fields(e, R, t, q, np)
  <2> DEFINE both == EnforceBoth(e, R, t, A, np)
  <2>1. both \in Result /\ both = EnforceBoth(e, R, t, A, np)
    BY <1>1, <1>2, EnforceBothTyped
  <2>2. both.ok /\ res = kdb_table_update(both.rows, t, q, np)
    BY <1>5 DEF kdb__cascade_set_composite_fields
  <2> HIDE DEF both, A
  <2>3. Moved(rank, t, A, np, R, both.rows) /\ \A b \in BOOLEAN : \A w \in Visits(t, A, np, b) : Settled(w, t, A, np, both.rows)
    BY <1>1, <1>2, <2>1, <2>2, BothMove
  <2>4. ASSUME NEW h \in Range(fks), NEW r \in Range(A), h.ref = t, Touched(h.refcols, np)
        PROVE  Settled([row |-> r, fk |-> h], t, A, np, both.rows)
    <3>1. [row |-> r, fk |-> h] \in Visits(t, A, np, Len(h.cols) > 1) /\ (Len(h.cols) > 1) \in BOOLEAN
      BY <1>3, <2>4
    <3> QED BY <2>3, <3>1, Zenon
  <2>5. both.rows \in DB
    BY <2>1 DEF Result
  <2> QED BY <2>2, <2>3, <2>4, <2>5 DEF A
<1> QED
  BY <1>4, <1>5

\* The rows that are written keep their other keys.
LEMMA RewrittenKeys ==
    ASSUME Fits, Disjoint, NEW g \in Range(fks), NEW h \in Range(fks), h.t = g.t, NEW r \in Row, NEW q,
           NEW np \in Fields, DOMAIN np = Range(g.cols), h # g \/ ~MatchesAll(q, r)
    PROVE  SameKey(Rewritten(r, q, np), r, h.cols)
<1>1. h.cols \in Seq(Cols) /\ "updated_at" \notin Range(h.cols) /\ "id" \in Cols /\ "id" \notin Range(g.cols)
  BY FksFacts, KeyFacts, ForeignKeyAssumption DEF Fits
<1>4. /\ KeyOf(Rewritten(r, q, np), h.cols) = IF MatchesAll(q, r) THEN KeyOf(Patched(r, np), h.cols) ELSE KeyOf(r, h.cols)
      /\ Val(Rewritten(r, q, np), "id") = IF MatchesAll(q, r) THEN Val(Patched(r, np), "id") ELSE Val(r, "id")
  BY <1>1, RewrittenFacts DEF Fits
<1>2. CASE ~MatchesAll(q, r)
  BY <1>2, <1>4 DEF SameKey
<1>3. CASE h # g /\ MatchesAll(q, r)
  <2>1. Range(h.cols) \cap DOMAIN np = {}
    BY <1>3, DisjointFacts
  <2>2. KeyOf(Patched(r, np), h.cols) = KeyOf(r, h.cols)
    BY <1>1, <2>1, KeyUntouched
  <2>3. Val(Patched(r, np), "id") = Val(r, "id")
    BY <1>1, PatchedFacts
  <2> QED BY <1>3, <1>4, <2>2, <2>3 DEF SameKey
<1> QED
  BY <1>2, <1>3

\* One visit of an update.
LEMMA ActMoves ==
    ASSUME Fits, Disjoint, unseen = {}, NEW e, Typed(e), NEW rank, Ranks(rank), MovesUp(rank, e), NEW R \in DB,
           NEW w \in Pair, w.fk \in Range(fks), NEW t \in Tables, w.fk.ref = t, NEW A \in Seq(Row), w.row \in Range(A),
           NEW p \in Fields, p # NoPatch, Whole(KeyOf(w.row, w.fk.refcols)),
           NEW res, res = Act(e, R, w, p), res.ok
    PROVE  Moved(rank, t, A, p, R, res.rows) /\ Settled(w, t, A, p, res.rows)
<1> DEFINE g == w.fk
           u == g.t
           K == KeyOf(w.row, g.refcols)
           q == Children(w)
           N == NewKey(w, p)
           np == Query(g.cols, N)
           T == res.rows
<1>1. g \in Key /\ g.t \in Tables /\ w.row \in Row
  BY KeyFacts DEF Pair
<1>2. /\ K = [k \in DOMAIN g.cols |-> K[k]] /\ DOMAIN K = DOMAIN g.cols
      /\ \A k \in DOMAIN g.cols : K[k] \in Vals /\ K[k] # Null
      /\ q = Query(g.cols, K) /\ q \in Fields /\ DOMAIN q = Range(g.cols)
      /\ \A x \in Row : MatchesAll(q, x) <=> KeyOf(x, g.cols) = K
  BY ChildrenFacts
<1>3. /\ N = [k \in DOMAIN g.cols |-> N[k]] /\ DOMAIN N = DOMAIN g.cols /\ \A k \in DOMAIN g.cols : N[k] \in Vals
      /\ ActionOf(w, p) = "setnull" => \A k \in DOMAIN g.cols : N[k] = Null
      /\ ActionOf(w, p) # "setnull" => N = KeyOf(Patched(w.row, p), g.refcols)
      /\ np \in Fields /\ DOMAIN np = Range(g.cols) /\ np # NoPatch
  BY NewKeyFacts
<1>4. \/ ActionOf(w, p) = "restrict" /\ res = Forbid(R, g.t, q)
      \/ /\ \/ Len(g.cols) = 1 /\ res = kdb__cascade_set_one_field(e, R, g.t, q, np)
            \/ Len(g.cols) > 1 /\ res = kdb__cascade_set_composite_fields(e, R, g.t, q, np)
  BY ActCases
<1>5. g \in Range(fks)
  OBVIOUS
<1>6. Whole(N) => N \in Pend(g, t, A, p)
  <2>1. ASSUME Whole(N) PROVE N = KeyOf(Patched(w.row, p), g.refcols)
    BY <1>1, <1>3, <2>1, NullsNotWhole
  <2> HIDE DEF N
  <2> QED BY <2>1 DEF Pend
<1>7. Whole(K)
  OBVIOUS
<1> HIDE DEF K, q, N, np, T
<1>8. CASE ActionOf(w, p) = "restrict" /\ res = Forbid(R, g.t, q)
  <2>1. res.rows = R /\ Matching(R, g.t, q) = {}
    BY <1>8, ResultFacts DEF Forbid
  <2>2. \A s \in Range(R[g.t]) : ~MatchesAll(q, s)
    BY <2>1 DEF Matching
  <2>3. \A s \in Range(R[g.t]) : KeyOf(s, g.cols) # K
    BY <1>1, <1>2, <2>2, RowsFacts
  <2> QED BY <2>1, <2>3, MovedReflexive DEF Settled, K
<1>9. CASE \/ Len(g.cols) = 1 /\ res = kdb__cascade_set_one_field(e, R, g.t, q, np)
           \/ Len(g.cols) > 1 /\ res = kdb__cascade_set_composite_fields(e, R, g.t, q, np)
  <2> DEFINE B == Found(R, u, q)
  <2>1. PICK S \in DB : /\ res = kdb_table_update(S, u, q, np) /\ Moved(rank, u, B, np, R, S)
                        /\ \A h \in Range(fks) : \A r \in Range(B) :
                             h.ref = u /\ Touched(h.refcols, np) => Settled([row |-> r, fk |-> h], u, B, np, S)
    BY <1>1, <1>2, <1>3, <1>5, <1>9, SetMoves
  <2>2. res \in Result /\ T \in DB
    <3>1. kdb_table_update(S, u, q, np) \in Result
      BY <1>1, <1>3, UpdateTyped DEF Fits
    <3> QED BY <2>1, <3>1 DEF Result, T
  <2>3. /\ \A v \in Tables : rank[v] <= rank[u] /\ v # u => T[v] = R[v]
        /\ \A s \in Range(T[u]) : \E r \in Range(R[u]) : s = Rewritten(r, q, np)
        /\ \A h \in Range(fks) : h.t # u /\ h.ref # u /\ rank[h.ref] <= rank[u] =>
             \A s \in Range(T[h.t]) : Whole(KeyOf(s, h.cols)) => \E r \in Range(R[h.t]) : SameKey(s, r, h.cols)
        /\ \A h \in Range(fks) : h.t # u =>
             \A s \in Orphans(T, h) : \E r \in Orphans(R, h) : SameKey(s, r, h.cols)
    <3>1. B = Found(R, u, q) /\ u \in Tables
      BY <1>1
    <3> HIDE DEF B, u
    <3>2. Written(rank, u, q, np, R, res.rows)
      BY <1>2, <1>3, <2>1, <3>1, WriteMoves
    <3> QED BY <3>2 DEF T, Written
  <2>4. rank \in [Tables -> Nat] /\ rank[t] < rank[u] /\ u # t /\ u \in Tables
    BY <1>1 DEF Ranks
  <2>5. \A h \in Range(fks) : h \in Key /\ h.t \in Tables /\ h.ref \in Tables /\ rank[h.ref] < rank[h.t]
    BY FksFacts, KeyFacts DEF Fits, Ranks
  <2> HIDE DEF u, B
  <2>6. ASSUME NEW h \in Range(fks), h.t = u, NEW s \in Range(T[u]), Whole(KeyOf(s, h.cols))
        PROVE  KeyOf(s, h.cols) \in Pend(h, t, A, p) \/ \E r \in Range(R[u]) : SameKey(s, r, h.cols)
    <3>1. PICK r \in Range(R[u]) : s = Rewritten(r, q, np)
      BY <2>3
    <3>2. r \in Row
      BY <1>1, RowsFacts DEF u
    <3>3. CASE h = g /\ MatchesAll(q, r)
      <4>1. KeyOf(s, g.cols) = KeyOf(Patched(r, np), g.cols)
        <5>1. g.cols \in Seq(Cols) /\ "updated_at" \notin Range(g.cols) /\ now \in Clock
          BY <1>1, KeyFacts DEF Fits
        <5> QED BY <1>3, <3>1, <3>2, <3>3, <5>1, RewrittenFacts
      <4>2. KeyOf(s, g.cols) = N
        <5>1. g.cols \in Seq(Cols) /\ Distinct(g.cols)
          BY <1>1, KeyFacts
        <5> QED BY <1>3, <3>2, <4>1, <5>1, KeyWritten DEF np
      <4> QED BY <1>6, <2>6, <3>3, <4>2
    <3>4. CASE h # g \/ ~MatchesAll(q, r)
      <4>1. SameKey(s, r, h.cols)
        BY <1>3, <1>5, <2>6, <3>1, <3>2, <3>4, RewrittenKeys DEF u
      <4> QED BY <4>1
    <3> QED BY <3>3, <3>4
  <2>7. Above(rank, t, R, T)
    <3> SUFFICES ASSUME NEW v \in Tables, rank[v] <= rank[t] PROVE T[v] = R[v]
      BY DEF Above
    <3>1. rank[v] <= rank[u] /\ v # u
      BY <2>4
    <3> QED BY <2>3, <3>1
  <2>8. OldKeys(rank, t, A, p, R, T)
    <3> SUFFICES ASSUME NEW h \in Range(fks), rank[h.ref] <= rank[t], NEW s \in Range(T[h.t]), Whole(KeyOf(s, h.cols))
                 PROVE  KeyOf(s, h.cols) \in Pend(h, t, A, p) \/ \E r \in Range(R[h.t]) : SameKey(s, r, h.cols)
      BY DEF OldKeys
    <3>1. CASE h.t = u
      BY <2>6, <3>1
    <3>2. CASE h.t # u
      <4>1. h.ref # u /\ rank[h.ref] <= rank[u]
        BY <2>4, <2>5
      <4> QED BY <2>3, <3>2, <4>1
    <3> QED BY <3>1, <3>2
  <2>9. OldOrphans(t, A, p, R, T)
    <3> SUFFICES ASSUME NEW h \in Range(fks), NEW s \in Orphans(T, h)
                 PROVE  KeyOf(s, h.cols) \in Pend(h, t, A, p) \/ \E r \in Orphans(R, h) : SameKey(s, r, h.cols)
      BY DEF OldOrphans
    <3>1. CASE h.t # u
      BY <2>3, <3>1
    <3>2. CASE h.t = u
      <4>1. s \in Range(T[h.t]) /\ Whole(KeyOf(s, h.cols)) /\ ~HasKey(T, h.ref, h.refcols, KeyOf(s, h.cols))
        BY <2>2, <2>5, OrphanFacts
      <4>2. SUFFICES ASSUME KeyOf(s, h.cols) \notin Pend(h, t, A, p)
                     PROVE  \E r \in Orphans(R, h) : SameKey(s, r, h.cols)
        OBVIOUS
      <4>3. PICK r \in Range(R[u]) : SameKey(s, r, h.cols)
        BY <2>6, <3>2, <4>1, <4>2
      <4>4. T[h.ref] = R[h.ref]
        <5>1. h.ref \in Tables /\ rank[h.ref] <= rank[u] /\ h.ref # u
          BY <1>1, <2>4, <2>5, <3>2
        <5> QED BY <2>3, <5>1
      <4>5. r \in Orphans(R, h)
        BY <2>5, <3>2, <4>1, <4>3, <4>4, OrphanFacts DEF SameKey, HasKey
      <4> QED BY <4>3, <4>5
    <3> QED BY <3>1, <3>2
  <2>10. Settled(w, t, A, p, T)
    <3>1. CASE N = K
      BY <1>6, <1>7, <3>1 DEF Settled, K
    <3>2. CASE N # K
      <4>1. KeyFor(g, K) /\ KeyFor(g, N)
        BY <1>2, <1>3 DEF KeyFor
      <4>2. res = kdb_table_update(S, g.t, Query(g.cols, K), Query(g.cols, N))
        BY <1>2, <2>1 DEF np, u
      <4>3. \A s \in Range(res.rows[g.t]) : KeyOf(s, g.cols) # K
        <5> HIDE DEF g
        <5> QED BY <1>1, <1>7, <3>2, <4>1, <4>2, WriteClears DEF Fits
      <4> QED BY <4>3 DEF Settled, K, T
    <3> QED BY <3>1, <3>2
  <2> QED BY <2>7, <2>8, <2>9, <2>10 DEF Moved, T
<1> QED
  BY <1>4, <1>8, <1>9

LEMMA LayerMoves ==
    ASSUME Fits, WithinCaps, Disjoint, unseen = {}, NEW rank, Ranks(rank), NEW e, Typed(e), MovesUp(rank, e)
    PROVE  MovesUp(rank, [c \in Call |-> ActAll(e, c.rows, VisitsOf(c), c.patch)])
<1> SUFFICES ASSUME NEW c \in Call, c.patch # NoPatch, NEW res, res = ActAll(e, c.rows, VisitsOf(c), c.patch), res.ok
             PROVE  /\ Moved(rank, c.t, c.affected, c.patch, c.rows, res.rows)
                    /\ \A w \in Visits(c.t, c.affected, c.patch, c.composite) : Settled(w, c.t, c.affected, c.patch, res.rows)
  BY DEF MovesUp
<1> DEFINE vs == VisitsOf(c)
           t == c.t
           A == c.affected
           p == c.patch
           R == c.rows
           J == {x \in DB \X DB : Moved(rank, t, A, p, x[1], x[2])}
           D == {x \in Pair \X DB : Settled(x[1], t, A, p, x[2])}
<1>1. R \in DB /\ t \in Tables /\ A \in Seq(Row) /\ p \in Fields /\ p # NoPatch
  BY DEF Call, DB
<1>2. vs \in Seq(Pair) /\ Range(vs) = Visits(t, A, p, c.composite)
  BY VisitsFacts
<1>3. \A S, T \in DB : <<S, T>> \in J <=> Moved(rank, t, A, p, S, T)
  OBVIOUS
<1>4. \A w \in Pair, S \in DB : <<w, S>> \in D <=> Settled(w, t, A, p, S)
  OBVIOUS
<1>5. res = ActAll(e, R, vs, p)
  OBVIOUS
<1> HIDE DEF vs, R, J, D, p, t, A
<1>6. <<R, R>> \in J
  BY <1>1, <1>3, MovedReflexive
<1>7. \A S, T, U \in DB : <<S, T>> \in J /\ <<T, U>> \in J => <<S, U>> \in J
  BY <1>3, MovedTransitive
<1>8. \A w \in Range(vs) : w \in Pair /\ w.fk \in Range(fks) /\ w.fk.ref = t /\ w.row \in Range(A)
  BY <1>2 DEF Visits
<1>9. ASSUME NEW w \in Range(vs), NEW S \in DB, Whole(KeyOf(w.row, w.fk.refcols)), Act(e, S, w, p).ok
      PROVE  <<S, Act(e, S, w, p).rows>> \in J /\ <<w, Act(e, S, w, p).rows>> \in D
  <2> DEFINE r == Act(e, S, w, p)
  <2>1. r \in Result
    BY <1>1, <1>8, ActTyped DEF Fits
  <2>2. r = Act(e, S, w, p) /\ r.ok
    BY <1>9
  <2> HIDE DEF r
  <2>3. Moved(rank, t, A, p, S, r.rows) /\ Settled(w, t, A, p, r.rows)
    BY <1>1, <1>8, <1>9, <2>2, ActMoves
  <2>4. r.rows \in DB
    BY <2>1 DEF Result
  <2> QED BY <1>3, <1>4, <1>8, <2>2, <2>3, <2>4
<1>10. \A w \in Range(vs) : \A S, T \in DB : <<w, S>> \in D /\ <<S, T>> \in J => <<w, T>> \in D
  BY <1>1, <1>3, <1>4, <1>8, SettledStays
<1>11. res.rows \in DB
  BY <1>1, <1>2, <1>5, ActAllTyped DEF Result, Fits
<1>12. ActAll(e, R, vs, p).ok
  BY <1>5
<1>13. /\ <<R, ActAll(e, R, vs, p).rows>> \in J
       /\ \A w \in Range(vs) : Whole(KeyOf(w.row, w.fk.refcols)) => <<w, ActAll(e, R, vs, p).rows>> \in D
  BY <1>1, <1>2, <1>6, <1>7, <1>9, <1>10, <1>12, ActAllKeeps DEF Fits
<1>14. Moved(rank, t, A, p, R, res.rows)
  BY <1>1, <1>3, <1>5, <1>11, <1>13
<1>15. \A w \in Range(vs) : Settled(w, t, A, p, res.rows)
  BY <1>4, <1>5, <1>8, <1>11, <1>13 DEF Settled
<1> QED
  BY <1>2, <1>14, <1>15 DEF R, p, t, A

\* However deep the cascade of an update, where no keys form a circle.
LEMMA EnforcedMoves ==
    ASSUME Fits, WithinCaps, Disjoint, unseen = {}, NEW rank, Ranks(rank)
    PROVE  MovesUp(rank, Enforced)
<1> DEFINE G == {e \in [Call -> Result] : Typed(e) /\ MovesUp(rank, e)}
           zero == [c \in Call |-> Failed(c.rows)]
           next(e) == [c \in Call |-> ActAll(e, c.rows, VisitsOf(c), c.patch)]
<1>1. zero \in G
  <2>1. \A c \in Call : zero[c].ok = FALSE
    BY DEF Failed
  <2>2. MovesUp(rank, zero)
    BY <2>1 DEF MovesUp
  <2> QED BY <2>2, FirstTyped DEF Typed
<1>2. ASSUME NEW e \in G PROVE next(e) \in G
  <2>1. Typed(next(e)) /\ MovesUp(rank, next(e))
    BY LayerTyped, LayerMoves
  <2> QED BY <2>1 DEF Typed
<1>3. Enforced \in G
  <2> HIDE DEF G
  <2> QED BY <1>1, <1>2, EnforceInduction
<1> QED
  BY <1>3

---------------------------------------------------------------------------
\* What the referencing side checks before an update.
LEMMA CheckedKeys ==
    ASSUME Fits, rows \in DB, NEW t \in Tables, NEW q, NEW p \in Fields, NEW A, A = Found(rows, t, q),
           kdb__check_fk_child_update(t, p), kdb__check_composite_fk_child_update(t, A, p),
           NEW g \in Range(fks), g.t = t, Range(g.cols) \cap DOMAIN p # {},
           NEW r \in Range(A), NEW K, K = KeyOf(Patched(r, p), g.cols), Whole(K)
    PROVE  HasKey(rows, g.ref, g.refcols, K)
<1>1. g \in Key /\ g.ref \in Tables /\ g.cols \in Seq(Cols) /\ Len(g.cols) \in Nat /\ 1 \in DOMAIN g.cols /\ DOMAIN g.cols = 1 .. Len(g.cols)
  BY FksFacts, KeyFacts DEF Fits
<1>2. r \in Row
  BY FoundFacts, RowsFacts
<1>3. Patched(r, p) \in Row
  BY <1>2, PatchedFacts
<1>4. KeyFor(g, K)
  BY <1>1, <1>3, RowKeyFor
<1>5. PICK i \in DOMAIN fks : fks[i] = g
  BY RangeIs
<1>6. HasParent(g, K)
  <2>1. CASE Len(g.cols) = 1
    <3>1. DOMAIN g.cols = {1}
      BY <1>1, <2>1
    <3>2. g.cols[1] \in DOMAIN p
      <4>1. PICK c \in Range(g.cols) : c \in DOMAIN p
        OBVIOUS
      <4>2. PICK k \in DOMAIN g.cols : g.cols[k] = c
        BY RangeIs
      <4> QED BY <3>1, <4>1, <4>2
    <3>3. g.cols[1] \in Cols
      BY <1>1
    <3>4. Val(Patched(r, p), g.cols[1]) = p[g.cols[1]] /\ Val(p, g.cols[1]) = p[g.cols[1]]
      BY <1>2, <3>2, <3>3, PatchedFacts DEF Val
    <3>5. K = KeyOf(p, g.cols)
      BY <3>1, <3>4 DEF KeyOf
    <3>6. p[g.cols[1]] # Null
      BY <3>1, <3>4, <3>5 DEF Whole, KeyOf
    <3> QED BY <1>5, <2>1, <3>2, <3>5, <3>6 DEF kdb__check_fk_child_update
  <2>2. CASE Len(g.cols) > 1
    <3>1. PICK j \in DOMAIN A : A[j] = r
      BY RangeIs
    <3> QED BY <1>5, <2>2, <3>1 DEF kdb__check_composite_fk_child_update
  <2>3. Len(g.cols) = 1 \/ Len(g.cols) > 1
    <3>1. \A n \in Nat : 1 \in 1 .. n => n = 1 \/ n > 1
      OBVIOUS
    <3> QED BY <1>1, <3>1, Zenon
  <2> QED BY <2>1, <2>2, <2>3
<1> QED
  BY <1>1, <1>4, <1>6, HasKeyFacts DEF HasParent


LEMMA CircleFree ==
    ASSUME Fits, NoCircle
    PROVE  \E rank : Ranks(rank)
<1>1. PICK rank \in [Tables -> 0 .. Cardinality(Tables)] : \A i \in DOMAIN fks : rank[fks[i].ref] < rank[fks[i].t]
  BY DEF NoCircle
<1>2. \A n : \A x \in 0 .. n : x \in Nat
  OBVIOUS
<1>3. rank \in [Tables -> Nat]
  BY <1>1, <1>2
<1>4. \A g \in Range(fks) : rank[g.ref] < rank[g.t]
  BY <1>1, RangeIs
<1> QED
  BY <1>3, <1>4 DEF Ranks

\* An update that is accepted.
LEMMA UpdateKeepsReferences ==
    ASSUME Fits, rows \in DB, WithinCaps, Disjoint, unseen = {}, NoCircle, NEW t \in Tables, NEW q \in Fields,
           NEW p \in Fields, p # NoPatch, "id" \notin DOMAIN p, NEW A, A = Found(rows, t, q),
           kdb__check_fk_child_update(t, p), kdb__check_composite_fk_child_update(t, A, p),
           NEW acted, acted = EnforceBoth(Enforced, rows, t, A, p), acted.ok,
           NEW res, res = kdb_table_update(acted.rows, t, q, p), res.ok
    PROVE  AllOrphans(res.rows) \subseteq AllOrphans(rows)
<1>1. PICK rank : Ranks(rank)
  BY CircleFree
<1>2. A \in Seq(Row) /\ Typed(Enforced) /\ MovesUp(rank, Enforced)
  BY <1>1, FoundFacts, EnforcedTyped, EnforcedMoves
<1>3. acted.rows \in DB
  BY <1>2, EnforceBothTyped DEF Result
<1>4. Moved(rank, t, A, p, rows, acted.rows) /\ \A b \in BOOLEAN : \A w \in Visits(t, A, p, b) : Settled(w, t, A, p, acted.rows)
  BY <1>1, <1>2, BothMove
<1>5. ASSUME NEW g \in Range(fks), NEW r \in Range(A), g.ref = t, Touched(g.refcols, p)
      PROVE  Settled([row |-> r, fk |-> g], t, A, p, acted.rows)
  <2>1. g \in Key /\ r \in Row
    BY <1>2, FksFacts DEF Fits, Range
  <2>2. [row |-> r, fk |-> g] \in Visits(t, A, p, Len(g.cols) > 1) /\ (Len(g.cols) > 1) \in BOOLEAN
    BY <1>5, <2>1 DEF Visits, Pair
  <2> QED BY <1>4, <2>2, Zenon
<1>6. Written(rank, t, q, p, rows, res.rows) /\ res.rows \in DB
  <2>1. Written(rank, t, q, p, rows, res.rows)
    BY <1>1, <1>3, <1>4, <1>5, WriteMoves
  <2>2. res.rows \in DB
    BY <1>3, UpdateFacts DEF Fits
  <2> QED BY <2>1, <2>2
<1> SUFFICES ASSUME NEW g \in Range(fks), NEW s \in Orphans(res.rows, g) PROVE \E r \in Orphans(rows, g) : s["id"] = r["id"]
  BY OrphansStay
<1>7. /\ g \in Key /\ g.t \in Tables /\ g.ref \in Tables /\ g.cols \in Seq(Cols) /\ g.t # g.ref /\ "id" \in Cols
      /\ "updated_at" \notin Range(g.cols)
  BY FksFacts, KeyFacts, DisjointFacts, ForeignKeyAssumption DEF Fits
<1> DEFINE K == KeyOf(s, g.cols)
<1>8. s \in Range(res.rows[g.t]) /\ Whole(K) /\ ~HasKey(res.rows, g.ref, g.refcols, K)
  BY <1>6, <1>7, OrphanFacts
<1>9. s \in Row /\ s["id"] = Val(s, "id")
  BY <1>6, <1>7, <1>8, RowsFacts, ValFacts
<1>10. CASE g.t # t
  <2>1. PICK r \in Orphans(rows, g) : SameKey(s, r, g.cols)
    BY <1>6, <1>10 DEF Written
  <2>2. r \in Row
    BY <1>7, OrphanFacts, RowsFacts
  <2>3. r["id"] = Val(r, "id")
    BY <1>7, <2>2, ValFacts
  <2> QED BY <1>9, <2>1, <2>3 DEF SameKey
<1>11. CASE g.t = t
  <2>1. PICK r \in Range(rows[t]) : s = Rewritten(r, q, p)
    BY <1>6, <1>8, <1>11 DEF Written
  <2>2. r \in Row
    BY RowsFacts
  <2>8. /\ KeyOf(s, g.cols) = IF MatchesAll(q, r) THEN KeyOf(Patched(r, p), g.cols) ELSE KeyOf(r, g.cols)
        /\ Val(s, "id") = IF MatchesAll(q, r) THEN Val(Patched(r, p), "id") ELSE Val(r, "id")
    BY <1>7, <2>1, <2>2, RewrittenFacts DEF Fits
  <2>3. res.rows[g.ref] = rows[g.ref]
    <3>1. rank[g.ref] <= rank[t]
      BY <1>1, <1>7, <1>11 DEF Ranks
    <3> QED BY <1>6, <1>7, <1>11, <3>1 DEF Written
  <2>4. ~HasKey(rows, g.ref, g.refcols, K)
    BY <1>8, <2>3 DEF HasKey
  <2>5. s["id"] = r["id"]
    <3>1. Val(Patched(r, p), "id") = Val(r, "id")
      BY <1>7, <2>2, PatchedFacts
    <3>2. Val(s, "id") = Val(r, "id")
      BY <2>8, <3>1
    <3>3. r["id"] = Val(r, "id")
      BY <1>7, <2>2, ValFacts
    <3> QED BY <1>9, <3>2, <3>3
  <2>6. KeyOf(r, g.cols) = K
    <3> SUFFICES ASSUME KeyOf(r, g.cols) # K PROVE FALSE
      OBVIOUS
    <3>1. KeyOf(s, g.cols) = KeyOf(Patched(r, p), g.cols) /\ MatchesAll(q, r)
      BY <2>8
    <3>2. Range(g.cols) \cap DOMAIN p # {}
      BY <1>7, <2>2, <3>1, KeyUntouched
    <3>3. r \in Range(A)
      BY <3>1, FoundFacts
    <3>4. K = KeyOf(Patched(r, p), g.cols)
      BY <3>1
    <3> HIDE DEF K
    <3> QED BY <1>8, <1>11, <2>4, <3>2, <3>3, <3>4, CheckedKeys
  <2>7. r \in Orphans(rows, g)
    BY <1>7, <1>8, <1>11, <2>1, <2>4, <2>6, OrphanFacts
  <2> QED BY <2>5, <2>7
<1> QED
  BY <1>10, <1>11


---------------------------------------------------------------------------
\* An insert that is accepted.

LEMMA FullKey ==
    ASSUME Fits, Disjoint, NEW g \in Range(fks), NEW r \in Fields, NEW id \in Vals
    PROVE  KeyOf(Full(g.t, r, id), g.cols) = KeyOf(r, g.cols)
<1>1. g.t \in Tables /\ g.cols \in Seq(Cols) /\ "id" \notin Range(g.cols) /\ "updated_at" \notin Range(g.cols) /\ Range(g.cols) \cap DOMAIN Default[g.t] = {}
  BY FksFacts, KeyFacts, DisjointFacts DEF Fits
<1>2. \A k \in DOMAIN g.cols : g.cols[k] \in Cols /\ g.cols[k] \in Range(g.cols)
  BY <1>1 DEF Range
<1>3. ASSUME NEW k \in DOMAIN g.cols PROVE Val(Full(g.t, r, id), g.cols[k]) = Val(r, g.cols[k])
  <2> DEFINE c == g.cols[k]
  <2>1. c \in Cols /\ c # "id" /\ c # "updated_at" /\ c \notin DOMAIN Default[g.t]
    BY <1>1, <1>2
  <2>2. Val(Full(g.t, r, id), c) = IF c = "id" THEN id ELSE IF c \in DOMAIN r THEN r[c] ELSE Val(Default[g.t], c)
    BY <1>1, <2>1, FullFacts DEF Fits
  <2> QED BY <2>1, <2>2 DEF Val
<1> QED
  BY <1>3 DEF KeyOf

LEMMA AddKeepsReferences ==
    ASSUME Fits, rows \in DB, Disjoint, NEW t \in Tables, NEW r \in Fields, NEW id \in Vals,
           kdb__check_fk_child(t, r), kdb__check_composite_fk_child(t, r),
           NEW res, res = kdb_table_insert_batch(rows, t, <<r>>, id), res.ok
    PROVE  AllOrphans(res.rows) \subseteq AllOrphans(rows)
<1> DEFINE full == Full(t, r, id)
           T == res.rows
<1>1. T = [rows EXCEPT ![t] = Append(@, full)]
  <2>1. Accepts(rows, t, r, id, res)
    BY DEF Accepts
  <2>2. res.rows = Grown(rows, t, r, id)
    BY <2>1, AddFacts, Zenon
  <2> QED BY <2>2 DEF Grown
<1>2. full \in Row /\ rows[t] \in Seq(Row)
  BY FullFacts, RowsFacts DEF Fits
<1>0. full = Full(t, r, id)
  OBVIOUS
<1> HIDE DEF full, T
<1>3. T \in DB /\ Range(T[t]) = Range(rows[t]) \cup {full} /\ \A u \in Tables \ {t} : T[u] = rows[u]
  <2>1. Append(rows[t], full) \in Seq(Row) /\ Range(Append(rows[t], full)) = Range(rows[t]) \cup {full}
    BY <1>2, RangeAppend
  <2>2. T[t] = Append(rows[t], full) /\ T \in DB /\ \A u \in Tables \ {t} : T[u] = rows[u]
    BY <1>1, <2>1 DEF DB
  <2> QED BY <2>1, <2>2
<1> SUFFICES ASSUME NEW g \in Range(fks), NEW s \in Orphans(T, g) PROVE \E x \in Orphans(rows, g) : s["id"] = x["id"]
  BY OrphansStay DEF T
<1>4. g \in Key /\ g.t \in Tables /\ g.ref \in Tables
  BY FksFacts, KeyFacts DEF Fits
<1>5. s \in Range(T[g.t]) /\ Whole(KeyOf(s, g.cols)) /\ ~HasKey(T, g.ref, g.refcols, KeyOf(s, g.cols))
  BY <1>3, <1>4, OrphanFacts
<1>6. ~HasKey(rows, g.ref, g.refcols, KeyOf(s, g.cols))
  <2>1. \A u \in Tables : \A x \in Range(rows[u]) : x \in Range(T[u])
    BY <1>3
  <2> QED BY <1>4, <1>5, <2>1 DEF HasKey
<1>7. CASE s \in Range(rows[g.t])
  BY <1>4, <1>5, <1>6, <1>7, OrphanFacts
<1>8. CASE s \notin Range(rows[g.t])
  <2>1. g.t = t /\ s = full
    BY <1>3, <1>4, <1>5, <1>8
  <2>2. KeyOf(s, g.cols) = KeyOf(r, g.cols)
    BY <1>0, <2>1, FullKey
  <2>3. PICK i \in DOMAIN fks : fks[i] = g
    BY RangeIs
  <2>4. Len(g.cols) = 1 \/ Len(g.cols) > 1
    <3>1. \A n \in Nat : 1 \in 1 .. n => n = 1 \/ n > 1
      OBVIOUS
    <3> QED BY <1>4, <3>1, KeyFacts, Zenon
  <2>5. HasParent(g, KeyOf(s, g.cols))
    BY <1>5, <2>1, <2>2, <2>3, <2>4 DEF kdb__check_fk_child, kdb__check_composite_fk_child
  <2>6. KeyFor(g, KeyOf(s, g.cols))
    BY <1>2, <1>4, <2>1, RowKeyFor
  <2>7. HasKey(rows, g.ref, g.refcols, KeyOf(s, g.cols))
    BY <1>4, <1>5, <2>5, <2>6, HasKeyFacts DEF HasParent
  <2> QED BY <1>6, <2>7
<1> QED
  BY <1>7, <1>8


---------------------------------------------------------------------------
\* Where every action is RESTRICT no cascade writes anything.

OnlyRestrict == \A g \in Range(fks) : g.del = "restrict" /\ g.upd = "restrict"
Leaves(e) == \A c \in Call : e[c].rows = c.rows

LEMMA ActLeaves ==
    ASSUME OnlyRestrict, NEW e, NEW R \in DB, NEW w, w.fk \in Range(fks), NEW p
    PROVE  Act(e, R, w, p) \in Result /\ Act(e, R, w, p).rows = R
<1>1. ActionOf(w, p) = "restrict"
  BY DEF OnlyRestrict, ActionOf
<1>2. Forbid(R, w.fk.t, Children(w)) \in Result /\ Forbid(R, w.fk.t, Children(w)).rows = R
  BY ResultFacts DEF Forbid
<1> QED
  BY <1>1, <1>2 DEF Act

LEMMA LayerLeaves ==
    ASSUME Fits, OnlyRestrict, NEW e
    PROVE  /\ Typed([c \in Call |-> ActAll(e, c.rows, VisitsOf(c), c.patch)])
           /\ Leaves([c \in Call |-> ActAll(e, c.rows, VisitsOf(c), c.patch)])
<1>1. ASSUME NEW c \in Call
      PROVE  ActAll(e, c.rows, VisitsOf(c), c.patch) \in Result /\ ActAll(e, c.rows, VisitsOf(c), c.patch).rows = c.rows
  <2> DEFINE vs == VisitsOf(c)
             R == c.rows
             p == c.patch
             G == Nat \X {a \in Result : a.rows = R}
  <2>1. R \in DB
    BY DEF Call, DB
  <2>2. vs \in Seq(Pair) /\ \A n \in 1 .. Len(vs) : vs[n].fk \in Range(fks)
    <3>1. vs \in Seq(Pair) /\ Range(vs) \subseteq Visits(c.t, c.affected, c.patch, c.composite)
      BY VisitsFacts
    <3> HIDE DEF vs
    <3>2. \A n \in 1 .. Len(vs) : vs[n] \in Range(vs)
      BY <3>1 DEF Range
    <3> QED BY <3>1, <3>2 DEF Visits
  <2> HIDE DEF vs, R, p
  <2>3. Len(vs) \in Nat /\ \A n \in 0 .. Len(vs) - 1 : n + 1 \in 1 .. Len(vs)
    BY <2>2
  <2>4. <<0, Done(R)>> \in G
    BY <2>1, ResultFacts
  <2>5. ASSUME NEW n \in 0 .. Len(vs) - 1, NEW a, <<n, a>> \in G PROVE <<n + 1, Acted(e, a, vs[n + 1], p)>> \in G
    <3>1. n + 1 \in Nat /\ a \in Result /\ a.rows = R /\ vs[n + 1].fk \in Range(fks)
      BY <2>2, <2>3, <2>5
    <3>2. Act(e, R, vs[n + 1], p) \in Result /\ Act(e, R, vs[n + 1], p).rows = R
      BY <2>1, <3>1, ActLeaves
    <3>3. Acted(e, a, vs[n + 1], p) \in Result /\ Acted(e, a, vs[n + 1], p).rows = R
      BY <3>1, <3>2 DEF Acted
    <3> QED BY <3>1, <3>3
  <2> HIDE DEF G
  <2>6. <<Len(vs), ActAll(e, R, vs, p)>> \in G
    BY <2>2, <2>4, <2>5, ActAllInduction
  <2> QED BY <2>6 DEF G, vs, R, p
<1> QED
  BY <1>1 DEF Typed, Leaves

LEMMA EnforcedLeaves ==
    ASSUME Fits, OnlyRestrict
    PROVE  Leaves(Enforced)
<1> DEFINE G == {e \in [Call -> Result] : Leaves(e)}
           zero == [c \in Call |-> Failed(c.rows)]
           next(e) == [c \in Call |-> ActAll(e, c.rows, VisitsOf(c), c.patch)]
<1>1. zero \in G
  <2>1. \A c \in Call : Failed(c.rows).rows = c.rows
    BY DEF Failed
  <2> QED BY <2>1, FirstTyped DEF Typed, Leaves
<1>2. ASSUME NEW e \in G PROVE next(e) \in G
  BY LayerLeaves DEF Typed
<1>3. Enforced \in G
  <2> HIDE DEF G
  <2> QED BY <1>1, <1>2, EnforceInduction
<1> QED
  BY <1>3

LEMMA BothLeave ==
    ASSUME Fits, OnlyRestrict, NEW R \in DB, NEW t \in Tables, NEW A \in Seq(Row), NEW p \in Fields
    PROVE  EnforceBoth(Enforced, R, t, A, p).rows = R
<1>1. ASSUME NEW b \in BOOLEAN PROVE Enforced[Args(R, t, A, p, b)].rows = R
  <2>1. Args(R, t, A, p, b) \in Call /\ Args(R, t, A, p, b).rows = R
    BY ArgsFacts
  <2> QED BY <2>1, EnforcedLeaves DEF Leaves
<1>2. Enforced[Args(R, t, A, p, FALSE)].rows = R /\ Enforced[Args(R, t, A, p, TRUE)].rows = R
  BY <1>1, Zenon
<1> QED
  BY <1>2 DEF EnforceBoth

---------------------------------------------------------------------------
\* What every state has.

FKInv ==
    /\ rows \in DB /\ exists \subseteq Tables /\ Fits
    /\ next_id \in Nat \ {0} /\ next_id <= MaxId + 1

\* The keys a step may leave.
Owned(E) == {g \in Key : g.t \in E}

LEMMA OwnedFacts ==
    ASSUME NEW s, NEW E
    PROVE  s \in Seq(Owned(E)) <=> s \in Seq(Key) /\ \A i \in DOMAIN s : s[i].t \in E
<1>1. ASSUME s \in Seq(Owned(E)) PROVE s \in Seq(Key) /\ \A i \in DOMAIN s : s[i].t \in E
  <2>1. \A i \in DOMAIN s : s[i] \in Key /\ s[i].t \in E
    BY <1>1 DEF Owned
  <2>2. DOMAIN s = 1 .. Len(s) /\ Len(s) \in Nat
    BY <1>1
  <2>3. s \in Seq(Key)
    BY <1>1, <2>1, <2>2
  <2> QED BY <2>1, <2>3
<1>2. ASSUME s \in Seq(Key), \A i \in DOMAIN s : s[i].t \in E PROVE s \in Seq(Owned(E))
  <2>1. \A i \in DOMAIN s : s[i] \in Owned(E)
    BY <1>2 DEF Owned
  <2>2. DOMAIN s = 1 .. Len(s) /\ Len(s) \in Nat
    BY <1>2
  <2> QED BY <1>2, <2>1, <2>2
<1> QED
  BY <1>1, <1>2

LEMMA RemovedFacts ==
    ASSUME NEW T, NEW s \in Seq(T), NEW i \in DOMAIN s
    PROVE  RemoveAt(s, i) \in Seq(T)
<1>1. Len(s) \in Nat /\ i \in 1 .. Len(s)
  OBVIOUS
<1>2. SubSeq(s, 1, i - 1) \in Seq(T) /\ SubSeq(s, i + 1, Len(s)) \in Seq(T)
  <2>1. \A m \in 1 .. i - 1 : m \in 1 .. Len(s)
    BY <1>1
  <2>2. \A m \in i + 1 .. Len(s) : m \in 1 .. Len(s)
    BY <1>1
  <2> QED BY <1>1, <2>1, <2>2
<1> QED
  BY <1>2 DEF RemoveAt


LEMMA FitsIs == Fits <=> fks \in Seq(Owned(exists)) /\ now \in Clock
  BY OwnedFacts DEF Fits

LEMMA InitInv ==
    ASSUME Init
    PROVE  FKInv
<1>1. rows \in DB
  BY DEF Init, DB
<1>2. fks \in Seq(Key)
  BY ForeignKeyAssumption DEF Init
<1>3. \A i \in DOMAIN fks : fks[i].t \in Tables /\ fks[i].ref \in Tables
  BY <1>2, FksFacts, KeyFacts
<1>4. exists \subseteq Tables /\ \A i \in DOMAIN fks : fks[i].t \in exists
  BY <1>3 DEF Init
<1>5. next_id = 1 /\ now \in Clock /\ MaxId \in Nat
  BY ForeignKeyAssumption DEF Init
<1> QED
  BY <1>1, <1>2, <1>4, <1>5 DEF FKInv, Fits

\* The results of the calls that write rows.
LEMMA UpdateResult ==
    ASSUME FKInv, NEW t \in Tables, NEW q, NEW p \in Fields, kdb_update(t, q, p)
    PROVE  rows' \in DB
<1> DEFINE affected == Found(rows, t, q)
           acted == EnforceBoth(Enforced, rows, t, affected, p)
<1>1. rows \in DB /\ Typed(Enforced)
  BY EnforcedTyped DEF FKInv
<1>2. acted \in Result
  BY <1>1, FoundFacts, EnforceBothTyped
<1>3. rows' \in {rows, acted.rows, kdb_table_update(acted.rows, t, q, p).rows}
  BY DEF kdb_update, Failed
<1> HIDE DEF acted
<1>4. acted.rows \in DB
  BY <1>2 DEF Result
<1> QED
  BY <1>1, <1>3, <1>4, UpdateFacts DEF FKInv, Fits

LEMMA DeleteResult ==
    ASSUME FKInv, NEW t \in Tables, NEW q, kdb_delete(t, q)
    PROVE  rows' \in DB
<1>1. rows \in DB /\ Typed(Enforced)
  BY EnforcedTyped DEF FKInv
<1>2. CascadeDelete(Enforced, rows, t, q) \in Result
  BY <1>1, WritesTyped, NoPatchFits DEF FKInv, Fits
<1> QED
  BY <1>2 DEF kdb_delete, Result

LEMMA NextInv ==
    ASSUME FKInv, [Next]_vars
    PROVE  FKInv'
<1> USE DEF FKInv
<1>0. MaxId \in Nat /\ Records \subseteq Fields /\ Queries \subseteq Fields /\ NewKeys \subseteq Key
  BY ForeignKeyAssumption
<1>a. fks \in Seq(Owned(exists)) /\ fks \in Seq(Key) /\ now \in Clock
  BY FitsIs DEF Fits
<1>b. ASSUME rows' \in DB, UNCHANGED <<exists, fks>>, now' \in Clock, next_id' \in Nat \ {0}, next_id' <= MaxId + 1 PROVE FKInv'
  BY <1>b DEF Fits
<1>c. ASSUME rows' \in DB, exists' \subseteq Tables, fks' \in Seq(Owned(exists')), UNCHANGED <<next_id, World>> PROVE FKInv'
  <2>1. fks' \in Seq(Key) /\ \A i \in DOMAIN fks' : fks'[i].t \in exists'
    BY <1>c, OwnedFacts
  <2> QED BY <1>c, <2>1 DEF Fits, World
<1>1. ASSUME NEW t \in Tables, NEW r \in Records, kdb_add(t, r) PROVE FKInv'
  <2> DEFINE res == kdb_table_insert_batch(rows, t, <<r>>, next_id)
  <2>1. <<r>> \in Seq(Fields) /\ Len(<<r>>) = 1
    BY <1>0
  <2>2. next_id <= MaxId
    BY <1>1 DEF kdb_add
  <2>3. next_id + Len(<<r>>) <= MaxId + 1
    BY <1>0, <2>1, <2>2
  <2>4. res.rows \in DB /\ res.id \in next_id .. next_id + Len(<<r>>)
    BY <2>1, <2>3, InsertFacts DEF Fits
  <2>5. res.id \in Nat \ {0} /\ res.id <= MaxId + 1
    <3> HIDE DEF res
    <3> QED BY <1>0, <2>1, <2>3, <2>4
  <2>6. rows' \in {rows, res.rows} /\ next_id' \in {next_id, res.id} /\ UNCHANGED <<exists, fks, now>>
    BY <1>1 DEF kdb_add, World
  <2> HIDE DEF res
  <2> QED BY <1>a, <1>b, <2>4, <2>5, <2>6
<1>2. ASSUME NEW t \in Tables, NEW rs \in Imports, kdb_batch_import(t, rs) PROVE FKInv'
  <2> DEFINE res == kdb_table_insert_batch(rows, t, rs, next_id)
  <2>1. rs \in Seq(Fields) /\ Len(rs) \in Nat
    BY ForeignKeyAssumption
  <2>2. next_id + Len(rs) <= MaxId + 1 /\ rows' = res.rows /\ next_id' = res.id /\ UNCHANGED <<exists, fks, now>>
    BY <1>2 DEF kdb_batch_import, World
  <2>3. res.rows \in DB /\ res.id \in next_id .. next_id + Len(rs)
    BY <2>1, <2>2, InsertFacts DEF Fits
  <2> HIDE DEF res
  <2>4. res.id \in Nat \ {0} /\ res.id <= MaxId + 1
    BY <1>0, <2>1, <2>2, <2>3
  <2> QED BY <1>a, <1>b, <2>2, <2>3, <2>4
<1>3. ASSUME NEW t \in Tables, NEW q \in Queries, NEW p \in Patches, kdb_update(t, q, p) PROVE FKInv'
  <2>1. p \in Fields
    BY ForeignKeyAssumption
  <2>2. rows' \in DB
    BY <1>3, <2>1, UpdateResult
  <2>3. UNCHANGED <<exists, fks, next_id, now>>
    BY <1>3 DEF kdb_update, World
  <2> QED BY <1>a, <1>b, <2>2, <2>3
<1>4. ASSUME NEW t \in Tables, NEW q \in Queries, kdb_delete(t, q) PROVE FKInv'
  <2>1. rows' \in DB
    BY <1>4, DeleteResult
  <2>2. UNCHANGED <<exists, fks, next_id, now>>
    BY <1>4 DEF kdb_delete, World
  <2> QED BY <1>a, <1>b, <2>1, <2>2
<1>5. ASSUME NEW fk \in NewKeys, fk.t \in exists, fks' = Append(fks, fk), UNCHANGED <<rows, exists, next_id, World>> PROVE FKInv'
  <2>1. fk \in Owned(exists)
    BY <1>0, <1>5 DEF Owned
  <2>2. fks' \in Seq(Owned(exists))
    BY <1>a, <1>5, <2>1
  <2> QED BY <1>5, <1>c, <2>2
<1>6. ASSUME NEW i \in DOMAIN fks, fks' = RemoveAt(fks, i), UNCHANGED <<rows, exists, next_id, World>> PROVE FKInv'
  <2>1. fks' \in Seq(Owned(exists))
    BY <1>a, <1>6, RemovedFacts
  <2> QED BY <1>6, <1>c, <2>1
<1>7. ASSUME NEW t \in Tables, kdb_drop_table(t) PROVE FKInv'
  <2>1. /\ exists' = exists \ {t} /\ rows' = [rows EXCEPT ![t] = << >>] /\ UNCHANGED <<next_id, World>>
        /\ fks' = Only(fks, {fk \in Range(fks) : fk.t # t})
    BY <1>7 DEF kdb_drop_table
  <2>2. rows' \in DB
    <3>1. << >> \in Seq(Row)
      OBVIOUS
    <3> QED BY <2>1, <3>1 DEF DB
  <2>3. fks' \in Seq(Key) /\ Range(fks') = Range(fks) \cap {fk \in Range(fks) : fk.t # t}
    BY <1>a, <2>1, OnlyFacts
  <2>4. \A i \in DOMAIN fks' : fks'[i] \in Range(fks) /\ fks'[i].t # t
    BY <2>3, RangeIs
  <2>5. \A g \in Range(fks) : g.t \in exists
    BY RangeIs DEF Fits
  <2>6. \A i \in DOMAIN fks' : fks'[i].t \in exists'
    BY <2>1, <2>4, <2>5
  <2> QED BY <1>c, <2>1, <2>2, <2>3, <2>6, OwnedFacts
<1>8. ASSUME NEW t \in Tables, NEW u \in Tables, kdb_rename_table(t, u) PROVE FKInv'
  <2>1. /\ exists' = (exists \ {t}) \cup {u} /\ rows' = [rows EXCEPT ![t] = << >>, ![u] = rows[t]] /\ UNCHANGED <<next_id, World>>
        /\ fks' = [i \in DOMAIN fks |-> IF fks[i].t = t THEN [fks[i] EXCEPT !.t = u] ELSE fks[i]]
    BY <1>8 DEF kdb_rename_table
  <2>2. rows' \in DB
    <3>1. << >> \in Seq(Row) /\ rows[t] \in Seq(Row)
      BY RowsFacts
    <3> QED BY <2>1, <3>1 DEF DB
  <2>3. ASSUME NEW i \in DOMAIN fks PROVE fks'[i] \in Owned(exists')
    <3>1. fks[i] \in Key /\ fks[i].t \in exists
      BY <1>a, FksFacts DEF Fits
    <3>2. CASE fks[i].t = t
      <4>1. [fks[i] EXCEPT !.t = u] \in Key /\ [fks[i] EXCEPT !.t = u].t = u
        BY <3>1 DEF Key
      <4>2. fks'[i] = [fks[i] EXCEPT !.t = u] /\ u \in exists'
        BY <2>1, <3>2
      <4> DEFINE moved == [fks[i] EXCEPT !.t = u]
      <4> HIDE DEF moved
      <4>3. moved \in Key /\ moved.t = u /\ fks'[i] = moved
        BY <4>1, <4>2 DEF moved
      <4> QED BY <4>2, <4>3 DEF Owned
    <3>3. CASE fks[i].t # t
      BY <2>1, <3>1, <3>3 DEF Owned
    <3> QED BY <3>2, <3>3
  <2>4. fks' \in Seq(Owned(exists'))
    <3>1. DOMAIN fks = 1 .. Len(fks) /\ Len(fks) \in Nat
      BY <1>a
    <3>2. DOMAIN fks' = DOMAIN fks /\ fks' = [i \in DOMAIN fks |-> fks'[i]]
      BY <2>1
    <3> QED BY <2>3, <3>1, <3>2
  <2> QED BY <1>c, <2>1, <2>2, <2>4
<1>9. CASE UNCHANGED vars
  BY <1>9, <1>a, <1>b DEF vars, World
<1>11. CASE Meanwhile
  BY <1>11, <1>b DEF Meanwhile
<1>10. CASE Next
  <2>1. ASSUME NEW fk \in NewKeys, kdb_add_foreign_key(fk) \/ kdb_add_composite_foreign_key(fk) PROVE FKInv'
    BY <1>5, <2>1 DEF kdb_add_foreign_key, kdb_add_composite_foreign_key, kdb_table_add_foreign_key, kdb_table_add_composite_foreign_key
  <2>2. ASSUME NEW i \in DOMAIN fks, kdb_drop_foreign_key(i) \/ kdb_drop_composite_foreign_key(i) PROVE FKInv'
    BY <1>6, <2>2 DEF kdb_drop_foreign_key, kdb_drop_composite_foreign_key, kdb_table_drop_foreign_key, kdb_table_drop_composite_foreign_key
  <2> QED BY <1>1, <1>2, <1>3, <1>4, <1>7, <1>8, <1>10, <1>11, <2>1, <2>2 DEF Next
<1> QED
  BY <1>9, <1>10

\* Every reachable state has rows of every column for each table, keys of
\* tables that have a file, and an id to give (kdb_add, kdb_batch_import, kumdb.c).
THEOREM FKTypes == Spec => []FKInv
<1>1. Init => FKInv
  BY InitInv
<1>2. FKInv /\ [Next]_vars => FKInv'
  BY NextInv
<1> QED
  BY <1>1, <1>2, PTL DEF Spec


---------------------------------------------------------------------------
\* What a step may do.

\* Only one of the three calls whose keys are looked at has its name.
LEMMA Calls ==
    ASSUME Next
    PROVE  /\ last'.op = "add" => \E t \in Tables, r \in Records : kdb_add(t, r)
           /\ last'.op = "update" => \E t \in Tables, q \in Queries, p \in Patches : kdb_update(t, q, p)
           /\ last'.op = "delete" => \E t \in Tables, q \in Queries : kdb_delete(t, q)
           /\ ~last'.ok /\ last'.op # "import" => last'.op \in {"add", "update", "delete"}
<1>1. ASSUME NEW t \in Tables, NEW r \in Records, kdb_add(t, r) PROVE last'.op = "add"
  BY <1>1 DEF kdb_add, Returned
<1>2. ASSUME NEW t \in Tables, NEW rs \in Imports, kdb_batch_import(t, rs) PROVE last'.op = "import"
  BY <1>2 DEF kdb_batch_import, Returned
<1>3. ASSUME NEW t \in Tables, NEW q \in Queries, NEW p \in Patches, kdb_update(t, q, p) PROVE last'.op = "update"
  BY <1>3 DEF kdb_update, Returned
<1>4. ASSUME NEW t \in Tables, NEW q \in Queries, kdb_delete(t, q) PROVE last'.op = "delete"
  BY <1>4 DEF kdb_delete, ReturnedDelete
<1>5. ASSUME NEW fk \in NewKeys, kdb_add_foreign_key(fk) \/ kdb_add_composite_foreign_key(fk)
      PROVE  last'.op = "add_foreign_key" /\ last'.ok
  BY <1>5 DEF kdb_add_foreign_key, kdb_add_composite_foreign_key, Returned
<1>6. ASSUME NEW i \in DOMAIN fks, kdb_drop_foreign_key(i) \/ kdb_drop_composite_foreign_key(i)
      PROVE  last'.op = "drop_foreign_key" /\ last'.ok
  BY <1>6 DEF kdb_drop_foreign_key, kdb_drop_composite_foreign_key, Returned
<1>7. ASSUME NEW t \in Tables, kdb_drop_table(t) PROVE last'.op = "drop_table" /\ last'.ok
  BY <1>7 DEF kdb_drop_table, Returned
<1>8. ASSUME NEW t \in Tables, NEW u \in Tables, kdb_rename_table(t, u) PROVE last'.op = "rename_table" /\ last'.ok
  BY <1>8 DEF kdb_rename_table, Returned
<1>9. ASSUME Meanwhile PROVE last'.op = "meanwhile" /\ last'.ok
  BY <1>9 DEF Meanwhile, Returned
<1> QED
  BY <1>1, <1>2, <1>3, <1>4, <1>5, <1>6, <1>7, <1>8, <1>9 DEF Next

\* A call that fails leaves the rows.
LEMMA FailuresLeave ==
    ASSUME FKInv, Next, ~last'.ok, last'.op # "import", OnlyRestrict
    PROVE  rows' = rows
<1>0. Fits /\ rows \in DB /\ now \in Clock
  BY DEF FKInv, Fits
<1>1. ASSUME NEW t \in Tables, NEW r \in Records, kdb_add(t, r) PROVE rows' = rows
  BY <1>1 DEF kdb_add, Returned
<1>2. ASSUME NEW t \in Tables, NEW q \in Queries, NEW p \in Patches, kdb_update(t, q, p) PROVE rows' = rows
  <2> DEFINE acted == EnforceBoth(Enforced, rows, t, Found(rows, t, q), p)
             res == IF ~(kdb__check_fk_child_update(t, p) /\ kdb__check_composite_fk_child_update(t, Found(rows, t, q), p))
                    THEN Failed(rows)
                    ELSE IF acted.ok THEN kdb_table_update(acted.rows, t, q, p) ELSE acted
  <2>1. p \in Fields
    BY ForeignKeyAssumption
  <2>2. acted.rows = rows
    BY <1>0, <2>1, FoundFacts, BothLeave
  <2>3. rows' = res.rows /\ last' = [op |-> "update", ok |-> res.ok]
    BY <1>2 DEF kdb_update, Returned
  <2>4. Failed(rows).rows = rows
    BY DEF Failed
  <2>5. ~res.ok
    BY <2>3
  <2>6. ~kdb_table_update(rows, t, q, p).ok => kdb_table_update(rows, t, q, p).rows = rows
    BY <1>0, <2>1, UpdateFacts
  <2> HIDE DEF acted
  <2> QED BY <2>2, <2>3, <2>4, <2>5, <2>6
<1>3. ASSUME NEW t \in Tables, NEW q \in Queries, kdb_delete(t, q) PROVE rows' = rows
  <2> DEFINE acted == EnforceBoth(Enforced, rows, t, Found(rows, t, q), NoPatch)
             res == CascadeDelete(Enforced, rows, t, q)
  <2>1. acted.rows = rows
    BY <1>0, FoundFacts, NoPatchFits, BothLeave
  <2>2. rows' = res.rows /\ last'.ok = res.ok
    BY <1>3 DEF kdb_delete, ReturnedDelete
  <2>3. ~res.ok
    BY <2>2
  <2>4. res = IF acted.ok THEN Done(kdb_table_delete(acted.rows, t, q)) ELSE acted
    BY DEF CascadeDelete
  <2>5. Done(kdb_table_delete(acted.rows, t, q)).ok
    BY DEF Done
  <2> HIDE DEF acted, res
  <2> QED BY <2>1, <2>2, <2>3, <2>4, <2>5
<1> QED
  BY <1>1, <1>2, <1>3, Calls

\* Where every action is RESTRICT, a call that fails has changed nothing
\* (kdb_update, kdb_delete and kdb_add, kumdb.c:2595, 2645, 1562).
THEOREM RestrictLeavesNothing == Spec => RestrictLeavesNothingBehind
<1>1. FKInv /\ [Next]_vars =>
        [ ~last'.ok /\ last'.op # "import" /\ OnlyRestricts => rows' = rows ]_vars
  <2> SUFFICES ASSUME FKInv, Next, ~last'.ok, last'.op # "import",
                      OnlyRestricts
               PROVE  rows' = rows
    BY DEF vars
  <2>1. OnlyRestrict
    <3>1. \A i \in DOMAIN fks : fks[i].del = "restrict" /\ fks[i].upd = "restrict"
      BY DEF OnlyRestricts
    <3> QED BY <3>1, RangeIs DEF OnlyRestrict
  <2> QED BY <2>1, FailuresLeave
<1> QED
  BY <1>1, FKTypes, PTL DEF Spec, RestrictLeavesNothingBehind

\* An accepted call leaves no new orphan.
LEMMA AcceptedKeep ==
    ASSUME FKInv, Next, last'.op \in {"add", "update", "delete"}, last'.ok, Disjoint, WithinCaps,
           last'.op # "add" => unseen = {}, last'.op = "update" => NoCircle,
           last'.op = "delete" => "updated_at" \notin DOMAIN last'.q
    PROVE  AllOrphans(rows') \subseteq AllOrphans(rows)
<1>0. Fits /\ rows \in DB /\ Queries \subseteq Fields /\ Records \subseteq Fields /\ now \in Clock
  BY ForeignKeyAssumption DEF FKInv, Fits
<1>1. CASE last'.op = "add"
  <2>1. PICK t \in Tables, r \in Records : kdb_add(t, r)
    BY <1>1, Calls
  <2> DEFINE res == kdb_table_insert_batch(rows, t, <<r>>, next_id)
  <2>2. next_id \in Vals
    <3>1. next_id \in 1 .. MaxId
      <4>1. next_id <= MaxId /\ next_id \in Nat \ {0} /\ MaxId \in Nat
        BY <2>1, ForeignKeyAssumption DEF kdb_add, FKInv
      <4> QED BY <4>1
    <3> QED BY <3>1, ForeignKeyAssumption
  <2>3. kdb__check_fk_child(t, r) /\ kdb__check_composite_fk_child(t, r) /\ res.ok /\ rows' = res.rows
    BY <2>1 DEF kdb_add, Returned
  <2> HIDE DEF res
  <2>4. AllOrphans(res.rows) \subseteq AllOrphans(rows)
    BY <1>0, <2>2, <2>3, AddKeepsReferences DEF res
  <2> QED BY <2>3, <2>4
<1>2. CASE last'.op = "update"
  <2>1. PICK t \in Tables, q \in Queries, p \in Patches : kdb_update(t, q, p)
    BY <1>2, Calls
  <2> DEFINE A == Found(rows, t, q)
             acted == EnforceBoth(Enforced, rows, t, A, p)
             res == kdb_table_update(acted.rows, t, q, p)
             checked == kdb__check_fk_child_update(t, p) /\ kdb__check_composite_fk_child_update(t, A, p)
             ret == IF ~checked THEN Failed(rows) ELSE IF acted.ok THEN res ELSE acted
  <2>2. p \in Fields /\ p # NoPatch /\ "id" \notin DOMAIN p
    BY ForeignKeyAssumption DEF NoPatch, Pseudo
  <2>3. rows' = ret.rows /\ last' = [op |-> "update", ok |-> ret.ok]
    BY <2>1 DEF kdb_update, Returned
  <2>4. ~Failed(rows).ok /\ ret.ok
    BY <2>3 DEF Failed
  <2>5. checked /\ acted.ok /\ res.ok /\ rows' = res.rows
    <3> HIDE DEF checked, acted, res
    <3> QED BY <2>3, <2>4
  <2>6. AllOrphans(res.rows) \subseteq AllOrphans(rows)
    BY <1>0, <1>2, <2>2, <2>5, UpdateKeepsReferences
  <2> HIDE DEF res
  <2> QED BY <2>5, <2>6
<1>3. CASE last'.op = "delete"
  <2>1. PICK t \in Tables, q \in Queries : kdb_delete(t, q)
    BY <1>3, Calls
  <2> DEFINE res == CascadeDelete(Enforced, rows, t, q)
  <2>2. rows' = res.rows /\ res.ok /\ q \in Fields /\ "updated_at" \notin DOMAIN q /\ unseen = {}
    BY <1>0, <1>3, <2>1 DEF kdb_delete, ReturnedDelete
  <2>3. AllOrphans(res.rows) \subseteq AllOrphans(rows)
    BY <1>0, <2>2, DeleteKeepsReferences
  <2> HIDE DEF res
  <2> QED BY <2>2, <2>3
<1> QED
  BY <1>1, <1>2, <1>3

\* Where the keys do not overlap and are not too many, a call that returned KDB_OK
\* leaves no row that points at nothing unless it pointed at nothing before,
\* however far the cascade went through tables, keys and actions: an insert
\* always, an update or a delete if no index leaves out a row (kdb_add,
\* kdb_update and kdb_delete, kumdb.c:1562, 2595, 2645).
THEOREM AcceptedWrites == Spec => AcceptedWritesKeepReferences
<1>1. FKInv /\ [Next]_vars =>
        [ last'.op \in {"add", "update", "delete"} /\ last'.ok /\ Disjoint /\ WithinCaps
          /\ (last'.op # "add" => unseen = {}) /\ (last'.op = "update" => NoCircle)
          /\ (last'.op = "delete" => "updated_at" \notin DOMAIN last'.q)
          => AllOrphans(rows') \subseteq AllOrphans(rows) ]_vars
  <2> SUFFICES ASSUME FKInv, Next, last'.op \in {"add", "update", "delete"}, last'.ok, Disjoint, WithinCaps,
                      last'.op # "add" => unseen = {}, last'.op = "update" => NoCircle,
                      last'.op = "delete" => "updated_at" \notin DOMAIN last'.q
               PROVE  AllOrphans(rows') \subseteq AllOrphans(rows)
    BY DEF vars
  <2> QED BY AcceptedKeep
<1> QED
  BY <1>1, FKTypes, PTL DEF Spec, AcceptedWritesKeepReferences


---------------------------------------------------------------------------
\* No two different rows, of one table or of two, have the same id, and no row
\* an id not yet given.

Fresh(n, R) ==
    /\ \A u \in Tables : \A r \in Range(R[u]) : r["id"] \in Nat /\ r["id"] < n
    /\ \A u, v \in Tables : \A r \in Range(R[u]), s \in Range(R[v]) : r["id"] = s["id"] => u = v /\ r = s
Thins(R, S) == \A u \in Tables : \A s \in Range(S[u]) : s \in Range(R[u])

LEMMA FreshThins ==
    ASSUME NEW n, NEW R, NEW S, Fresh(n, R), Thins(R, S)
    PROVE  Fresh(n, S)
  BY ZenonT(60) DEF Fresh, Thins

LEMMA DeleteThins ==
    ASSUME NEW R \in DB, NEW t \in Tables, NEW q
    PROVE  Thins(R, kdb_table_delete(R, t, q)) /\ kdb_table_delete(R, t, q) \in DB
<1> DEFINE S == kdb_table_delete(R, t, q)
<1>1. /\ S \in DB /\ \A u \in Tables \ {t} : S[u] = R[u]
      /\ \A r : r \in Range(S[t]) <=> r \in Range(R[t]) /\ ~MatchesAll(q, r)
  BY DeleteFacts
<1> HIDE DEF S
<1>2. Thins(R, S)
  BY <1>1 DEF Thins
<1> QED
  BY <1>1, <1>2 DEF S

LEMMA FreshUpdate ==
    ASSUME now \in Clock, NEW n, NEW R \in DB, Fresh(n, R), NEW t \in Tables, NEW q, NEW p \in Fields, "id" \notin DOMAIN p
    PROVE  Fresh(n, kdb_table_update(R, t, q, p).rows)
<1> DEFINE res == kdb_table_update(R, t, q, p)
           T == res.rows
           F(u, r) == IF u = t THEN Rewritten(r, q, p) ELSE r
<1>0. res = kdb_table_update(R, t, q, p)
  OBVIOUS
<1> HIDE DEF F, res
<1>1. /\ T \in DB /\ res.ok \in BOOLEAN /\ (~res.ok => T = R)
      /\ \A u \in Tables \ {t} : T[u] = R[u]
      /\ res.ok => \A s : s \in Range(T[t]) <=> \E r \in Range(R[t]) : s = Rewritten(r, q, p)
  BY <1>0, UpdateFacts
<1> HIDE DEF T
<1> USE DEF F
<1>2. CASE ~res.ok
  BY <1>1, <1>2 DEF T, res
<1>3. CASE res.ok
  <2>1. \A u \in Tables : \A s \in Range(T[u]) : \E r \in Range(R[u]) : s = F(u, r)
    BY <1>1, <1>3
  <2>2. \A u \in Tables : \A r \in Range(R[u]) : F(u, r)["id"] = r["id"]
    <3> SUFFICES ASSUME NEW u \in Tables, NEW r \in Range(R[u]) PROVE F(u, r)["id"] = r["id"]
      OBVIOUS
    <3>1. r \in Row /\ "id" \in Cols
      BY RowsFacts, ForeignKeyAssumption
    <3>2. Val(Patched(r, p), "id") = Val(r, "id")
      BY <3>1, PatchedFacts
    <3>3. Rewritten(r, q, p) \in Row /\ Val(Rewritten(r, q, p), "id") = Val(r, "id")
      BY <3>1, <3>2, RewrittenFacts
    <3>4. Rewritten(r, q, p)["id"] = r["id"]
      BY <3>1, <3>3, ValFacts
    <3> QED BY <3>4
  <2> HIDE DEF F
  <2>3. ASSUME NEW u \in Tables, NEW s \in Range(T[u]) PROVE s["id"] \in Nat /\ s["id"] < n
    <3>1. PICK r \in Range(R[u]) : s = F(u, r)
      BY <2>1
    <3> QED BY <2>2, <3>1 DEF Fresh
  <2>4. ASSUME NEW u \in Tables, NEW v \in Tables, NEW x \in Range(T[u]), NEW y \in Range(T[v]), x["id"] = y["id"]
        PROVE  u = v /\ x = y
    <3>1. PICK r \in Range(R[u]) : x = F(u, r)
      BY <2>1
    <3>2. PICK s \in Range(R[v]) : y = F(v, s)
      BY <2>1
    <3>3. r["id"] = s["id"]
      BY <2>2, <2>4, <3>1, <3>2
    <3>4. u = v /\ r = s
      BY <3>3 DEF Fresh
    <3> QED BY <3>1, <3>2, <3>4
  <2>5. Fresh(n, T)
    BY <2>3, <2>4 DEF Fresh
  <2> QED BY <2>5 DEF T, res
<1> QED
  BY <1>1, <1>2, <1>3

\* What a call keeps.
KeepsIds(n, e) == \A c \in Call : Fresh(n, c.rows) => Fresh(n, e[c].rows)

LEMMA FreshBoth ==
    ASSUME NEW n, NEW e, Typed(e), KeepsIds(n, e), NEW R \in DB, Fresh(n, R),
           NEW t \in Tables, NEW A \in Seq(Row), NEW p \in Fields
    PROVE  Fresh(n, EnforceBoth(e, R, t, A, p).rows)
<1>1. ASSUME NEW S \in DB, Fresh(n, S), NEW b \in BOOLEAN PROVE Fresh(n, e[Args(S, t, A, p, b)].rows)
  <2>1. Args(S, t, A, p, b) \in Call /\ Args(S, t, A, p, b).rows = S
    BY ArgsFacts
  <2> QED BY <1>1, <2>1 DEF KeepsIds
<1> DEFINE one == e[Args(R, t, A, p, FALSE)]
<1>2. Fresh(n, one.rows)
  BY <1>1, Zenon
<1>3. one.rows \in DB
  BY CallTyped DEF Result
<1>4. Fresh(n, e[Args(one.rows, t, A, p, TRUE)].rows)
  BY <1>1, <1>2, <1>3, Zenon
<1> QED
  BY <1>2, <1>4 DEF EnforceBoth

LEMMA FreshWrites ==
    ASSUME now \in Clock, NEW n, NEW e, Typed(e), KeepsIds(n, e), NEW R \in DB, Fresh(n, R),
           NEW t \in Tables, NEW q, NEW p \in Fields, "id" \notin DOMAIN p
    PROVE  /\ Fresh(n, kdb__cascade_set_one_field(e, R, t, q, p).rows)
           /\ Fresh(n, kdb__cascade_set_composite_fields(e, R, t, q, p).rows)
           /\ Fresh(n, CascadeDelete(e, R, t, q).rows)
<1>0. Found(R, t, q) \in Seq(Row)
  BY FoundFacts
<1>1. Fresh(n, kdb__cascade_set_one_field(e, R, t, q, p).rows)
  <2> DEFINE c == Args(R, t, Found(R, t, q), p, FALSE)
             res == e[c]
  <2>1. c \in Call /\ c.rows = R
    <3>1. \A b \in BOOLEAN : Args(R, t, Found(R, t, q), p, b) \in Call /\ Args(R, t, Found(R, t, q), p, b).rows = R
      BY <1>0, ArgsFacts
    <3> QED BY <3>1, Zenon
  <2>2. res.rows \in DB /\ Fresh(n, res.rows)
    <3> HIDE DEF c
    <3> QED BY <2>1 DEF Typed, Result, KeepsIds
  <2> HIDE DEF res
  <2>3. Fresh(n, kdb_table_update(res.rows, t, q, p).rows)
    BY <2>2, FreshUpdate
  <2> QED BY <2>2, <2>3 DEF kdb__cascade_set_one_field, res
<1>2. Fresh(n, kdb__cascade_set_composite_fields(e, R, t, q, p).rows)
  <2> DEFINE res == EnforceBoth(e, R, t, Found(R, t, q), p)
  <2>1. res.rows \in DB /\ Fresh(n, res.rows)
    BY <1>0, EnforceBothTyped, FreshBoth DEF Result
  <2> HIDE DEF res
  <2>2. Fresh(n, kdb_table_update(res.rows, t, q, p).rows)
    BY <2>1, FreshUpdate
  <2> QED BY <2>1, <2>2 DEF kdb__cascade_set_composite_fields, res
<1>3. Fresh(n, CascadeDelete(e, R, t, q).rows)
  <2> DEFINE res == EnforceBoth(e, R, t, Found(R, t, q), NoPatch)
  <2>1. res.rows \in DB /\ Fresh(n, res.rows)
    BY <1>0, NoPatchFits, EnforceBothTyped, FreshBoth DEF Result
  <2> HIDE DEF res
  <2>2. Fresh(n, kdb_table_delete(res.rows, t, q))
    BY <2>1, DeleteThins, FreshThins
  <2> QED BY <2>1, <2>2 DEF CascadeDelete, Done, res
<1> QED
  BY <1>1, <1>2, <1>3

LEMMA FreshAct ==
    ASSUME now \in Clock, NEW n, NEW e, Typed(e), KeepsIds(n, e), NEW R \in DB, Fresh(n, R), NEW w \in Pair, NEW p \in Fields
    PROVE  Fresh(n, Act(e, R, w, p).rows)
<1>1. w.fk.t \in Tables /\ "id" \notin Range(w.fk.cols)
  BY KeyFacts DEF Pair
<1>2. Query(w.fk.cols, NewKey(w, p)) \in Fields /\ DOMAIN Query(w.fk.cols, NewKey(w, p)) = Range(w.fk.cols)
  BY NewKeyFacts
<1>3. Fresh(n, Forbid(R, w.fk.t, Children(w)).rows)
  BY ResultFacts DEF Forbid
<1> QED
  BY <1>1, <1>2, <1>3, FreshWrites DEF Act

LEMMA FreshLayer ==
    ASSUME Fits, NEW n, NEW e, Typed(e), KeepsIds(n, e)
    PROVE  KeepsIds(n, [c \in Call |-> ActAll(e, c.rows, VisitsOf(c), c.patch)])
<1>1. ASSUME NEW c \in Call, Fresh(n, c.rows) PROVE Fresh(n, ActAll(e, c.rows, VisitsOf(c), c.patch).rows)
  <2> DEFINE vs == VisitsOf(c)
             R == c.rows
             p == c.patch
             G == Nat \X {a \in Result : Fresh(n, a.rows)}
  <2>1. R \in DB /\ p \in Fields
    BY DEF Call, DB
  <2>2. vs \in Seq(Pair)
    BY VisitsFacts
  <2>3. R = c.rows
    OBVIOUS
  <2> HIDE DEF vs, R, p
  <2>4. Len(vs) \in Nat /\ \A m \in 0 .. Len(vs) - 1 : m + 1 \in 1 .. Len(vs) /\ m + 1 \in Nat /\ vs[m + 1] \in Pair
    BY <2>2
  <2>5. <<0, Done(R)>> \in G
    BY <1>1, <2>1, <2>3, ResultFacts
  <2>6. ASSUME NEW m \in 0 .. Len(vs) - 1, NEW a, <<m, a>> \in G PROVE <<m + 1, Acted(e, a, vs[m + 1], p)>> \in G
    <3>1. a \in Result /\ Fresh(n, a.rows) /\ vs[m + 1] \in Pair /\ m + 1 \in Nat
      BY <2>4, <2>6
    <3>2. a.rows \in DB
      BY <3>1 DEF Result
    <3>3. Acted(e, a, vs[m + 1], p) \in Result
      BY <2>1, <3>1, ActedTyped DEF Fits
    <3>4. Fresh(n, Act(e, a.rows, vs[m + 1], p).rows)
      BY <2>1, <3>1, <3>2, FreshAct DEF Fits
    <3>5. Fresh(n, Acted(e, a, vs[m + 1], p).rows)
      BY <3>1, <3>4 DEF Acted
    <3> QED BY <3>1, <3>3, <3>5
  <2> HIDE DEF G
  <2>7. <<Len(vs), ActAll(e, R, vs, p)>> \in G
    BY <2>2, <2>5, <2>6, ActAllInduction
  <2> QED BY <2>7 DEF G, vs, R, p
<1> QED
  BY <1>1 DEF KeepsIds

LEMMA FreshEnforced ==
    ASSUME Fits, NEW n
    PROVE  KeepsIds(n, Enforced)
<1> DEFINE G == {e \in [Call -> Result] : Typed(e) /\ KeepsIds(n, e)}
           zero == [c \in Call |-> Failed(c.rows)]
           next(e) == [c \in Call |-> ActAll(e, c.rows, VisitsOf(c), c.patch)]
<1>1. zero \in G
  <2>1. \A c \in Call : Failed(c.rows).rows = c.rows
    BY DEF Failed
  <2> QED BY <2>1, FirstTyped DEF Typed, KeepsIds
<1>2. ASSUME NEW e \in G PROVE next(e) \in G
  <2>1. Typed(next(e)) /\ KeepsIds(n, next(e))
    BY LayerTyped, FreshLayer
  <2> QED BY <2>1 DEF Typed
<1>3. Enforced \in G
  <2> HIDE DEF G
  <2> QED BY <1>1, <1>2, EnforceInduction
<1> QED
  BY <1>3


LEMMA FreshAppend ==
    ASSUME NEW n \in Nat, NEW R \in DB, Fresh(n, R), NEW t \in Tables, NEW full \in Row, full["id"] = n
    PROVE  Fresh(n + 1, [R EXCEPT ![t] = Append(@, full)])
<1> DEFINE T == [R EXCEPT ![t] = Append(@, full)]
<1>1. Range(T[t]) = Range(R[t]) \cup {full} /\ \A u \in Tables \ {t} : T[u] = R[u]
  <2>1. R[t] \in Seq(Row)
    BY RowsFacts
  <2>2. Range(Append(R[t], full)) = Range(R[t]) \cup {full}
    BY <2>1, RangeAppend
  <2>3. T[t] = Append(R[t], full) /\ \A u \in Tables \ {t} : T[u] = R[u]
    BY DEF DB
  <2> QED BY <2>2, <2>3
<1> HIDE DEF T
<1>2. \A u \in Tables : \A s \in Range(T[u]) : s \in Range(R[u]) \/ (u = t /\ s = full)
  BY <1>1
<1>3. \A i \in Nat : i < n => i < n + 1 /\ i # n
  OBVIOUS
<1>4. ASSUME NEW u \in Tables, NEW s \in Range(T[u]) PROVE s["id"] \in Nat /\ s["id"] < n + 1
  <2>1. CASE s \in Range(R[u])
    <3>1. s["id"] \in Nat /\ s["id"] < n
      BY <2>1 DEF Fresh
    <3> QED BY <1>3, <3>1
  <2>2. CASE s = full
    BY <2>2
  <2> QED BY <1>2, <2>1, <2>2
<1>5. ASSUME NEW u \in Tables, NEW v \in Tables, NEW x \in Range(T[u]), NEW y \in Range(T[v]), x["id"] = y["id"]
      PROVE  u = v /\ x = y
  <2>1. \A w \in Tables : \A z \in Range(R[w]) : z["id"] # full["id"]
    BY <1>3 DEF Fresh
  <2>2. CASE x \in Range(R[u]) /\ y \in Range(R[v])
    BY <1>5, <2>2 DEF Fresh
  <2>3. CASE x = full /\ y = full /\ u = t /\ v = t
    BY <2>3
  <2>4. CASE x \in Range(R[u]) /\ y = full
    BY <1>5, <2>1, <2>4
  <2>5. CASE x = full /\ y \in Range(R[v])
    BY <1>5, <2>1, <2>5
  <2> QED BY <1>2, <2>2, <2>3, <2>4, <2>5
<1>6. Fresh(n + 1, T)
  BY <1>4, <1>5 DEF Fresh
<1> QED
  BY <1>6 DEF T

LEMMA FreshInsert ==
    ASSUME now \in Clock, NEW R \in DB, NEW t \in Tables, NEW rs \in Seq(Fields), NEW id \in Nat \ {0}, id + Len(rs) <= MaxId + 1,
           Fresh(id, R), NEW res, res = kdb_table_insert_batch(R, t, rs, id)
    PROVE  Fresh(res.id, res.rows)
<1>0. Len(rs) \in Nat /\ DOMAIN rs = 1 .. Len(rs) /\ MaxId \in Nat /\ \A i \in 1 .. Len(rs) : rs[i] \in Fields
  BY ForeignKeyAssumption
<1>1. PICK f : /\ f = [i \in 0 .. Len(rs) |-> IF i = 0 THEN Begun(R, id) ELSE Inserted(f[i - 1], t, rs[i])]
               /\ kdb_table_insert_batch(R, t, rs, id) = f[Len(rs)]
  <2>1. Len(rs) \in Nat
    BY <1>0
  <2> QED BY <2>1, InsertUnfolds
<1> DEFINE Good(a, m) == a \in [ok : BOOLEAN, rows : DB, id : id .. id + m] /\ Fresh(a.id, a.rows)
           G == {m \in Nat : Good(f[m], m)}
<1>2. 0 \in G
  <2> DEFINE a == [ok |-> TRUE, rows |-> R, id |-> id]
  <2>1. f[0] = a
    BY <1>0, <1>1 DEF Begun
  <2>2. a \in [ok : BOOLEAN, rows : DB, id : id .. id + 0] /\ a.id = id /\ a.rows = R
    OBVIOUS
  <2> HIDE DEF a
  <2>3. Good(a, 0)
    BY <2>2
  <2> HIDE DEF Good
  <2> QED BY <2>1, <2>3
<1>3. ASSUME NEW m \in 0 .. Len(rs) - 1, m \in G PROVE m + 1 \in G
  <2>0. m \in Nat /\ m + 1 \in 1 .. Len(rs)
    BY <1>0
  <2>1. f[m + 1] = Inserted(f[m], t, rs[m + 1])
    <3>1. m + 1 \in 0 .. Len(rs) /\ m + 1 # 0 /\ (m + 1) - 1 = m
      BY <1>0
    <3> QED BY <1>1, <3>1
  <2> DEFINE a == f[m]
             full == Full(t, rs[m + 1], a.id)
             grown == [a.rows EXCEPT ![t] = Append(@, full)]
             no == [a EXCEPT !.ok = FALSE]
             yes == [ok |-> TRUE, rows |-> grown, id |-> a.id + 1]
  <2>2. Good(a, m)
    <3> HIDE DEF Good
    <3> QED BY <1>3
  <2>3. rs[m + 1] \in Fields /\ a.id \in Nat \ {0} /\ a.id <= MaxId /\ a.id \in Vals /\ a.id \in id .. id + m /\ a.rows \in DB
    BY <1>0, <2>0, <2>2, ForeignKeyAssumption
  <2>4. full \in Row /\ full["id"] = a.id
    <3>1. full \in Row
      BY <2>3, FullFacts
    <3>2. full["id"] = a.id
      <4>1. "id" \in Cols \ {"updated_at"}
        BY ForeignKeyAssumption
      <4> HIDE DEF full
      <4>2. Val(full, "id") = a.id
        BY <2>3, <4>1, FullFacts DEF full
      <4> QED BY <3>1, <4>1, <4>2, ValFacts
    <3> QED BY <3>1, <3>2
  <2>5. Good(no, m + 1)
    <3> HIDE DEF a
    <3>1. id .. id + m \subseteq id .. id + (m + 1)
      BY <2>0
    <3>2. a \in [ok : BOOLEAN, rows : DB, id : id .. id + (m + 1)] /\ Fresh(a.id, a.rows)
      BY <2>2, <3>1
    <3>3. no \in [ok : BOOLEAN, rows : DB, id : id .. id + (m + 1)] /\ no.id = a.id /\ no.rows = a.rows
      BY <3>2
    <3> HIDE DEF no
    <3> QED BY <3>2, <3>3
  <2>6. Good(yes, m + 1)
    <3>1. a.rows[t] \in Seq(Row)
      BY <2>3, RowsFacts
    <3>2. Fresh(a.id + 1, grown)
      <4> HIDE DEF full, a
      <4> QED BY <2>2, <2>3, <2>4, FreshAppend
    <3> HIDE DEF full, a
    <3>3. Append(a.rows[t], full) \in Seq(Row)
      BY <3>1, <2>4
    <3>4. grown \in DB
      BY <2>3, <3>3 DEF DB
    <3>5. a.id + 1 \in id .. id + (m + 1)
      BY <2>0, <2>3
    <3> HIDE DEF grown
    <3>6. yes \in [ok : BOOLEAN, rows : DB, id : id .. id + (m + 1)] /\ yes.id = a.id + 1 /\ yes.rows = grown
      BY <3>4, <3>5
    <3> HIDE DEF yes
    <3> QED BY <3>2, <3>6
  <2> HIDE DEF Good
  <2>7. f[m + 1] \in {no, yes}
    BY <2>1 DEF Inserted
  <2>8. Good(f[m + 1], m + 1)
    <3> HIDE DEF no, yes
    <3> QED BY <2>5, <2>6, <2>7
  <2> QED BY <2>0, <2>8
<1>4. Len(rs) \in G
  <2>1. Len(rs) \in Nat /\ Len(rs) \in 0 .. Len(rs)
    BY <1>0
  <2> HIDE DEF G
  <2>2. \A m \in 0 .. Len(rs) : m \in G
    BY <2>1, <1>2, <1>3, InductionUpTo
  <2> QED BY <2>1, <2>2
<1> HIDE DEF Good
<1>5. Good(res, Len(rs))
  BY <1>1, <1>4
<1> QED
  BY <1>5 DEF Good

\* With the types, what every state has.
IdInv == Fresh(next_id, rows)

LEMMA InitIds ==
    ASSUME Init
    PROVE  IdInv
<1>1. \A u \in Tables : Range(rows[u]) = {}
  BY DEF Init, Range
<1> QED
  BY <1>1 DEF IdInv, Fresh

LEMMA RenamedIds ==
    ASSUME FKInv, IdInv, NEW t \in Tables, NEW u \in Tables, t # u, NEW S, S = [rows EXCEPT ![t] = << >>, ![u] = rows[t]]
    PROVE  Fresh(next_id, S)
<1>1. Range(S[u]) = Range(rows[t]) /\ Range(S[t]) = {} /\ \A v \in Tables \ {t, u} : S[v] = rows[v]
  BY DEF FKInv, DB, Range
<1> DEFINE Old(v) == IF v = u THEN t ELSE v
<1>2. \A v \in Tables : \A r \in Range(S[v]) : v # t /\ Old(v) \in Tables /\ r \in Range(rows[Old(v)])
  BY <1>1
<1>3. \A v, w \in Tables : v # t /\ w # t /\ Old(v) = Old(w) => v = w
  OBVIOUS
<1> HIDE DEF Old
<1>4. \A v \in Tables : \A r \in Range(S[v]) : r["id"] \in Nat /\ r["id"] < next_id
  BY <1>2 DEF IdInv, Fresh
<1>5. ASSUME NEW v \in Tables, NEW w \in Tables, NEW r \in Range(S[v]), NEW s \in Range(S[w]), r["id"] = s["id"]
      PROVE  v = w /\ r = s
  <2>1. /\ v # t /\ Old(v) \in Tables /\ r \in Range(rows[Old(v)])
        /\ w # t /\ Old(w) \in Tables /\ s \in Range(rows[Old(w)])
    BY <1>2
  <2>2. Old(v) = Old(w) /\ r = s
    BY <1>5, <2>1, Zenon DEF IdInv, Fresh
  <2> QED BY <1>3, <2>1, <2>2
<1> QED
  BY <1>4, <1>5 DEF Fresh

LEMMA NextIds ==
    ASSUME FKInv, IdInv, [Next]_vars
    PROVE  IdInv'
<1>0. /\ rows \in DB /\ Fits /\ MaxId \in Nat /\ Records \subseteq Fields
      /\ next_id \in Nat \ {0} /\ Fresh(next_id, rows) /\ Typed(Enforced) /\ KeepsIds(next_id, Enforced)
      /\ now \in Clock
  BY ForeignKeyAssumption, EnforcedTyped, FreshEnforced DEF FKInv, IdInv, Fits
<1>a. ASSUME NEW S, Fresh(next_id, S), rows' = S, UNCHANGED next_id PROVE IdInv'
  BY <1>a DEF IdInv, Fresh
<1>b. ASSUME Thins(rows, rows'), UNCHANGED next_id PROVE IdInv'
  <2>1. \A S : Thins(rows, S) => Fresh(next_id, S)
    BY <1>0, FreshThins
  <2>2. Fresh(next_id, rows')
    BY <1>b, <2>1
  <2> QED BY <1>b, <2>2 DEF IdInv, Fresh
<1>1. ASSUME NEW t \in Tables, NEW r \in Records, kdb_add(t, r) PROVE IdInv'
  <2> DEFINE res == kdb_table_insert_batch(rows, t, <<r>>, next_id)
  <2>1. <<r>> \in Seq(Fields) /\ Len(<<r>>) = 1
    BY <1>0
  <2>2. next_id <= MaxId
    BY <1>1 DEF kdb_add
  <2>3. next_id + Len(<<r>>) <= MaxId + 1
    BY <1>0, <2>1, <2>2
  <2>4. Fresh(res.id, res.rows)
    BY <1>0, <2>1, <2>3, FreshInsert
  <2>5. (rows' = res.rows /\ next_id' = res.id) \/ UNCHANGED <<rows, next_id>>
    BY <1>1 DEF kdb_add
  <2> HIDE DEF res
  <2>6. CASE rows' = res.rows /\ next_id' = res.id
    BY <2>4, <2>6 DEF IdInv, Fresh
  <2> QED BY <1>0, <1>a, <2>5, <2>6
<1>2. ASSUME NEW t \in Tables, NEW rs \in Imports, kdb_batch_import(t, rs) PROVE IdInv'
  <2> DEFINE res == kdb_table_insert_batch(rows, t, rs, next_id)
  <2>1. rs \in Seq(Fields)
    BY ForeignKeyAssumption
  <2>2. next_id + Len(rs) <= MaxId + 1 /\ rows' = res.rows /\ next_id' = res.id
    BY <1>2 DEF kdb_batch_import
  <2>3. Fresh(res.id, res.rows)
    BY <1>0, <2>1, <2>2, FreshInsert
  <2> HIDE DEF res
  <2> QED BY <2>2, <2>3 DEF IdInv, Fresh
<1>3. ASSUME NEW t \in Tables, NEW q \in Queries, NEW p \in Patches, kdb_update(t, q, p) PROVE IdInv'
  <2> DEFINE acted == EnforceBoth(Enforced, rows, t, Found(rows, t, q), p)
  <2>1. p \in Fields /\ "id" \notin DOMAIN p
    BY ForeignKeyAssumption DEF Pseudo
  <2>2. acted.rows \in DB /\ Fresh(next_id, acted.rows)
    BY <1>0, <2>1, FoundFacts, EnforceBothTyped, FreshBoth DEF Result
  <2>3. UNCHANGED next_id /\ rows' \in {rows, acted.rows, kdb_table_update(acted.rows, t, q, p).rows}
    BY <1>3 DEF kdb_update, Failed
  <2> HIDE DEF acted
  <2>4. Fresh(next_id, kdb_table_update(acted.rows, t, q, p).rows)
    BY <1>0, <2>1, <2>2, FreshUpdate
  <2> QED BY <1>0, <1>a, <2>2, <2>3, <2>4
<1>4. ASSUME NEW t \in Tables, NEW q \in Queries, kdb_delete(t, q) PROVE IdInv'
  <2>1. Fresh(next_id, CascadeDelete(Enforced, rows, t, q).rows)
    BY <1>0, NoPatchFits, FreshWrites
  <2>2. UNCHANGED next_id /\ rows' = CascadeDelete(Enforced, rows, t, q).rows
    BY <1>4 DEF kdb_delete
  <2> QED BY <1>a, <2>1, <2>2
<1>5. ASSUME UNCHANGED <<rows, next_id>> PROVE IdInv'
  BY <1>5, <1>b DEF Thins
<1>6. ASSUME NEW t \in Tables, kdb_drop_table(t) PROVE IdInv'
  <2>1. rows' = [rows EXCEPT ![t] = << >>] /\ UNCHANGED next_id
    BY <1>6 DEF kdb_drop_table
  <2>2. Range(rows'[t]) = {} /\ \A u \in Tables \ {t} : rows'[u] = rows[u]
    BY <1>0, <2>1 DEF DB, Range
  <2>3. Thins(rows, rows')
    BY <2>2 DEF Thins
  <2> QED BY <1>b, <2>1, <2>3
<1>7. ASSUME NEW t \in Tables, NEW u \in Tables, kdb_rename_table(t, u) PROVE IdInv'
  <2>1. rows' = [rows EXCEPT ![t] = << >>, ![u] = rows[t]] /\ UNCHANGED next_id /\ t # u
    BY <1>7 DEF kdb_rename_table
  <2> QED BY <1>a, <2>1, RenamedIds
<1>8. CASE UNCHANGED vars
  BY <1>5, <1>8 DEF vars
<1>10. CASE Meanwhile
  BY <1>5, <1>10 DEF Meanwhile
<1>9. CASE Next
  <2>1. ASSUME NEW fk \in NewKeys, kdb_add_foreign_key(fk) \/ kdb_add_composite_foreign_key(fk) PROVE IdInv'
    BY <1>5, <2>1 DEF kdb_add_foreign_key, kdb_add_composite_foreign_key
  <2>2. ASSUME NEW i \in DOMAIN fks, kdb_drop_foreign_key(i) \/ kdb_drop_composite_foreign_key(i) PROVE IdInv'
    BY <1>5, <2>2 DEF kdb_drop_foreign_key, kdb_drop_composite_foreign_key
  <2> QED BY <1>1, <1>2, <1>3, <1>4, <1>6, <1>7, <1>9, <1>10, <2>1, <2>2 DEF Next
<1> QED
  BY <1>8, <1>9


---------------------------------------------------------------------------
\* Deletes where no key sets NULL.  A row is only removed when nothing that is
\* left points at it; and only rows of C are, when C has the rows of the call
\* and, of the rows B there were, every row that points at one of C.

NoSetNull == \A g \in Range(fks) : g.del # "setnull"
Emptied(w, S) ==
    LET K == KeyOf(w.row, w.fk.refcols)
    IN  Whole(K) => \A s \in Range(S[w.fk.t]) : KeyOf(s, w.fk.cols) # K
Childless(R, S) ==
    \A g \in Range(fks) : \A r \in Range(R[g.ref]) : r \in Range(S[g.ref]) \/ Emptied([row |-> r, fk |-> g], S)
Taken(R, S) == Thins(R, S) /\ Childless(R, S)
Inside(C, R, S) == \A u \in Tables : \A r \in Range(R[u]) : r \in Range(S[u]) \/ r["id"] \in C
Within(B, C, t, A) == \A a \in Range(A) : a \in Range(B[t]) /\ a["id"] \in C
Closed(B, C) ==
    \A g \in Range(fks) : g.del = "cascade" =>
        \A s \in Range(B[g.ref]), x \in Range(B[g.t]) :
            s["id"] \in C /\ Whole(KeyOf(x, g.cols)) /\ KeyOf(s, g.refcols) = KeyOf(x, g.cols) => x["id"] \in C
Deletes(B, C, e) ==
    \A c \in Call : c.patch = NoPatch /\ e[c].ok =>
        /\ Taken(c.rows, e[c].rows)
        /\ \A w \in Visits(c.t, c.affected, NoPatch, c.composite) : Emptied(w, e[c].rows)
        /\ Thins(B, c.rows) /\ Within(B, C, c.t, c.affected) => Inside(C, c.rows, e[c].rows)

LEMMA EmptiedStays ==
    ASSUME NEW w \in Pair, NEW R, NEW S, Thins(R, S), Emptied(w, R)
    PROVE  Emptied(w, S)
<1>1. w.fk.t \in Tables
  BY KeyFacts DEF Pair
<1> QED
  BY <1>1 DEF Emptied, Thins

LEMMA VisitIsPair ==
    ASSUME NEW g \in Key, NEW r \in Row, NEW w, w = [row |-> r, fk |-> g]
    PROVE  w \in Pair /\ w.row = r /\ w.fk = g
  BY DEF Pair

LEMMA TakenReflexive ==
    ASSUME NEW R
    PROVE  Taken(R, R) /\ \A C : Inside(C, R, R)
  BY DEF Taken, Thins, Childless, Inside

LEMMA TakenTransitive ==
    ASSUME Fits, NEW R \in DB, NEW S \in DB, NEW T \in DB, Taken(R, S), Taken(S, T)
    PROVE  Taken(R, T) /\ \A C : Inside(C, R, S) /\ Inside(C, S, T) => Inside(C, R, T)
<1>1. Thins(R, T)
  BY DEF Taken, Thins
<1>2. Childless(R, T)
  <2> SUFFICES ASSUME NEW g \in Range(fks), NEW r \in Range(R[g.ref]), r \notin Range(T[g.ref])
               PROVE  Emptied([row |-> r, fk |-> g], T)
    BY DEF Childless
  <2>1. g \in Key /\ g.ref \in Tables
    BY FksFacts, KeyFacts DEF Fits
  <2>2. r \in Row
    BY <2>1, RowsFacts
  <2> DEFINE w == [row |-> r, fk |-> g]
  <2>3. w \in Pair
    BY <2>1, <2>2, VisitIsPair
  <2>4. (r \notin Range(S[g.ref]) => Emptied(w, S)) /\ (r \in Range(S[g.ref]) => Emptied(w, T))
    BY DEF Taken, Childless
  <2> HIDE DEF w
  <2>5. Emptied(w, T)
    BY <2>3, <2>4, EmptiedStays DEF Taken
  <2> QED BY <2>5 DEF w
<1>3. ASSUME NEW C, Inside(C, R, S), Inside(C, S, T) PROVE Inside(C, R, T)
  BY <1>3 DEF Inside
<1> QED
  BY <1>1, <1>2, <1>3 DEF Taken

LEMMA SingleDeletes ==
    ASSUME NEW B, NEW C, NEW e, Deletes(B, C, e),
           NEW R \in DB, NEW t \in Tables, NEW A \in Seq(Row), NEW b \in BOOLEAN,
           NEW res, res = e[Args(R, t, A, NoPatch, b)], res.ok
    PROVE  /\ Taken(R, res.rows) /\ \A w \in Visits(t, A, NoPatch, b) : Emptied(w, res.rows)
           /\ Thins(B, R) /\ Within(B, C, t, A) => Inside(C, R, res.rows)
<1> DEFINE c == Args(R, t, A, NoPatch, b)
<1>1. c \in Call /\ c.rows = R /\ c.t = t /\ c.affected = A /\ c.patch = NoPatch /\ c.composite = b
  BY ArgsFacts, NoPatchFits
<1>2. e[c].ok /\ res = e[c]
  OBVIOUS
<1> HIDE DEF c
<1>3. /\ Taken(c.rows, e[c].rows)
      /\ \A w \in Visits(c.t, c.affected, NoPatch, c.composite) : Emptied(w, e[c].rows)
      /\ Thins(B, c.rows) /\ Within(B, C, c.t, c.affected) => Inside(C, c.rows, e[c].rows)
  BY <1>1, <1>2, Zenon DEF Deletes
<1> QED
  BY <1>1, <1>2, <1>3

LEMMA BothDelete ==
    ASSUME Fits, NEW B, NEW C, NEW e, Typed(e), Deletes(B, C, e),
           NEW R \in DB, NEW t \in Tables, NEW A \in Seq(Row),
           NEW res, res = EnforceBoth(e, R, t, A, NoPatch), res.ok
    PROVE  /\ Taken(R, res.rows) /\ \A b \in BOOLEAN : \A w \in Visits(t, A, NoPatch, b) : Emptied(w, res.rows)
           /\ Thins(B, R) /\ Within(B, C, t, A) => Inside(C, R, res.rows)
<1> DEFINE one == e[Args(R, t, A, NoPatch, FALSE)]
<1>1. one \in Result
  BY CallTyped, NoPatchFits
<1>2. one.ok /\ res = e[Args(one.rows, t, A, NoPatch, TRUE)]
  BY DEF EnforceBoth
<1>3. /\ Taken(R, one.rows) /\ \A w \in Visits(t, A, NoPatch, FALSE) : Emptied(w, one.rows)
      /\ Thins(B, R) /\ Within(B, C, t, A) => Inside(C, R, one.rows)
  <2>1. one = e[Args(R, t, A, NoPatch, FALSE)]
    OBVIOUS
  <2> HIDE DEF one
  <2> QED BY <1>2, <2>1, SingleDeletes
<1> HIDE DEF one
<1>4. one.rows \in DB
  BY <1>1 DEF Result
<1>5. /\ Taken(one.rows, res.rows) /\ \A w \in Visits(t, A, NoPatch, TRUE) : Emptied(w, res.rows)
      /\ Thins(B, one.rows) /\ Within(B, C, t, A) => Inside(C, one.rows, res.rows)
  <2>1. TRUE \in BOOLEAN /\ res = e[Args(one.rows, t, A, NoPatch, TRUE)]
    BY <1>2
  <2> QED BY <1>4, <2>1, <1>2, SingleDeletes, Zenon
<1>6. res.rows \in DB
  <2>1. e[Args(one.rows, t, A, NoPatch, TRUE)] \in Result
    BY <1>4, CallTyped, NoPatchFits
  <2> QED BY <1>2, <2>1 DEF Result
<1>7. Taken(R, res.rows) /\ (Inside(C, R, one.rows) /\ Inside(C, one.rows, res.rows) => Inside(C, R, res.rows))
  BY <1>3, <1>4, <1>5, <1>6, TakenTransitive
<1>8. \A w \in Visits(t, A, NoPatch, FALSE) : Emptied(w, res.rows)
  <2>1. \A w \in Visits(t, A, NoPatch, FALSE) : w \in Pair
    BY DEF Visits
  <2> QED BY <1>3, <1>5, <2>1, EmptiedStays DEF Taken
<1>9. Thins(B, R) => Thins(B, one.rows)
  BY <1>3 DEF Taken, Thins
<1>10. \A b \in BOOLEAN : \A w \in Visits(t, A, NoPatch, b) : Emptied(w, res.rows)
  BY <1>5, <1>8
<1> QED
  BY <1>3, <1>5, <1>7, <1>9, <1>10, Zenon


\* Deleting rows that nothing that is left points at.
LEMMA DeleteTakes ==
    ASSUME Fits, unseen = {}, NEW R \in DB, NEW S \in DB, Taken(R, S), NEW t \in Tables, NEW q,
           \A b \in BOOLEAN : \A w \in Visits(t, Found(R, t, q), NoPatch, b) : Emptied(w, S)
    PROVE  /\ Taken(R, kdb_table_delete(S, t, q))
           /\ \A C : Inside(C, R, S) /\ (\A r \in Range(Found(R, t, q)) : r["id"] \in C) => Inside(C, R, kdb_table_delete(S, t, q))
<1> DEFINE T == kdb_table_delete(S, t, q)
<1>1. /\ T \in DB /\ \A u \in Tables \ {t} : T[u] = S[u]
      /\ \A r : r \in Range(T[t]) <=> r \in Range(S[t]) /\ ~MatchesAll(q, r)
  BY DeleteFacts
<1>2. Thins(S, T)
  BY DeleteThins
<1> HIDE DEF T
<1>3. \A u \in Tables : \A r \in Range(S[u]) : r \notin Range(T[u]) => u = t /\ r \in Range(R[t]) /\ r \in Range(Found(R, t, q))
  <2> SUFFICES ASSUME NEW u \in Tables, NEW r \in Range(S[u]), r \notin Range(T[u])
               PROVE  u = t /\ r \in Range(R[t]) /\ r \in Range(Found(R, t, q))
    OBVIOUS
  <2>1. u = t /\ MatchesAll(q, r)
    BY <1>1
  <2>2. r \in Range(R[t])
    BY <2>1 DEF Taken, Thins
  <2> QED BY <2>1, <2>2, FoundFacts
<1>4. Childless(S, T)
  <2> SUFFICES ASSUME NEW g \in Range(fks), NEW r \in Range(S[g.ref]), r \notin Range(T[g.ref])
               PROVE  Emptied([row |-> r, fk |-> g], T)
    BY DEF Childless
  <2>1. g \in Key /\ g.ref \in Tables
    BY FksFacts, KeyFacts DEF Fits
  <2>2. r \in Row
    BY <2>1, RowsFacts
  <2>3. g.ref = t /\ r \in Range(Found(R, t, q))
    BY <1>3, <2>1
  <2> DEFINE w == [row |-> r, fk |-> g]
  <2>4. w \in Pair /\ w.row = r /\ w.fk = g
    BY <2>1, <2>2, VisitIsPair
  <2> HIDE DEF w
  <2>5. w \in Visits(t, Found(R, t, q), NoPatch, Len(g.cols) > 1) /\ (Len(g.cols) > 1) \in BOOLEAN
    BY <2>3, <2>4 DEF Visits, Touched
  <2>6. Emptied(w, S)
    BY <2>5, Zenon
  <2>7. Emptied(w, T)
    BY <1>2, <2>4, <2>6, EmptiedStays
  <2> QED BY <2>7 DEF w
<1>5. Taken(S, T)
  BY <1>2, <1>4 DEF Taken
<1>6. Taken(R, T) /\ \A C : Inside(C, R, S) /\ Inside(C, S, T) => Inside(C, R, T)
  BY <1>1, <1>5, TakenTransitive
<1>7. \A C : (\A r \in Range(Found(R, t, q)) : r["id"] \in C) => Inside(C, S, T)
  BY <1>3 DEF Inside
<1> QED
  BY <1>6, <1>7 DEF T

LEMMA CascadeDeletes ==
    ASSUME Fits, unseen = {}, NEW B, NEW C, NEW e, Typed(e), Deletes(B, C, e), NEW R \in DB, NEW t \in Tables, NEW q,
           NEW res, res = CascadeDelete(e, R, t, q), res.ok
    PROVE  /\ res.rows \in DB /\ Taken(R, res.rows) /\ \A r \in Range(res.rows[t]) : ~MatchesAll(q, r)
           /\ Thins(B, R) /\ (\A r \in Range(R[t]) : MatchesAll(q, r) => r["id"] \in C) => Inside(C, R, res.rows)
<1> DEFINE A == Found(R, t, q)
           both == EnforceBoth(e, R, t, A, NoPatch)
<1>1. A \in Seq(Row) /\ both = EnforceBoth(e, R, t, A, NoPatch) /\ \A r : r \in Range(A) <=> r \in Range(R[t]) /\ MatchesAll(q, r)
  BY FoundFacts
<1>2. both \in Result
  BY <1>1, NoPatchFits, EnforceBothTyped
<1>3. both.ok /\ res = Done(kdb_table_delete(both.rows, t, q))
  BY DEF CascadeDelete
<1>a. A = Found(R, t, q)
  OBVIOUS
<1> HIDE DEF both, A
<1>4. /\ Taken(R, both.rows) /\ \A b \in BOOLEAN : \A w \in Visits(t, A, NoPatch, b) : Emptied(w, both.rows)
      /\ Thins(B, R) /\ Within(B, C, t, A) => Inside(C, R, both.rows)
  BY <1>1, <1>3, BothDelete
<1>5. both.rows \in DB /\ res.rows = kdb_table_delete(both.rows, t, q)
  BY <1>2, <1>3 DEF Result, Done
<1>6. res.rows \in DB /\ \A r \in Range(res.rows[t]) : ~MatchesAll(q, r)
  BY <1>5, DeleteFacts
<1>7. /\ Taken(R, res.rows)
      /\ \A D : Inside(D, R, both.rows) /\ (\A r \in Range(A) : r["id"] \in D) => Inside(D, R, res.rows)
  BY <1>4, <1>5, <1>a, DeleteTakes
<1>8. ASSUME Thins(B, R), \A r \in Range(R[t]) : MatchesAll(q, r) => r["id"] \in C PROVE Inside(C, R, res.rows)
  <2>1. \A r \in Range(A) : r["id"] \in C
    BY <1>1, <1>8
  <2>2. Within(B, C, t, A)
    BY <1>1, <1>8, <2>1 DEF Within, Thins
  <2> QED BY <1>4, <1>7, <1>8, <2>1, <2>2
<1> QED
  BY <1>6, <1>7, <1>8

\* One visit.
LEMMA ActDeletes ==
    ASSUME Fits, unseen = {}, NoSetNull, NEW B, NEW C, Closed(B, C), NEW e, Typed(e), Deletes(B, C, e), NEW R \in DB,
           NEW w \in Pair, w.fk \in Range(fks), Whole(KeyOf(w.row, w.fk.refcols)),
           NEW res, res = Act(e, R, w, NoPatch), res.ok
    PROVE  /\ Taken(R, res.rows) /\ Emptied(w, res.rows)
           /\ Thins(B, R) /\ w.row \in Range(B[w.fk.ref]) /\ w.row["id"] \in C => Inside(C, R, res.rows)
<1> DEFINE g == w.fk
           K == KeyOf(w.row, g.refcols)
           q == Children(w)
<1>1. g \in Key /\ g.t \in Tables /\ g \in Range(fks)
  BY KeyFacts DEF Pair
<1>2. \A x \in Row : MatchesAll(q, x) <=> KeyOf(x, g.cols) = K
  BY ChildrenFacts
<1>3. ActionOf(w, NoPatch) = g.del /\ g.del # "setnull"
  BY DEF ActionOf, NoSetNull
<1>4. \/ g.del = "restrict" /\ res = Forbid(R, g.t, q)
      \/ g.del = "cascade" /\ res = CascadeDelete(e, R, g.t, q)
  BY <1>3, ActCases
<1>5. Whole(K)
  OBVIOUS
<1>a. K = KeyOf(w.row, w.fk.refcols)
  OBVIOUS
<1> HIDE DEF q, K
<1>6. ASSUME NEW S \in DB, \A s \in Range(S[g.t]) : ~MatchesAll(q, s) PROVE Emptied(w, S)
  <2>1. \A s \in Range(S[g.t]) : KeyOf(s, g.cols) # K
    BY <1>1, <1>2, <1>6, RowsFacts
  <2> QED BY <2>1, <1>a DEF Emptied
<1>7. CASE g.del = "restrict" /\ res = Forbid(R, g.t, q)
  <2>1. res.rows = R /\ Matching(R, g.t, q) = {}
    BY <1>7, ResultFacts DEF Forbid
  <2>2. \A s \in Range(R[g.t]) : ~MatchesAll(q, s)
    BY <2>1 DEF Matching
  <2> QED BY <1>6, <2>1, <2>2, TakenReflexive
<1>8. CASE g.del = "cascade" /\ res = CascadeDelete(e, R, g.t, q)
  <2>1. /\ res.rows \in DB /\ Taken(R, res.rows) /\ \A r \in Range(res.rows[g.t]) : ~MatchesAll(q, r)
        /\ Thins(B, R) /\ (\A r \in Range(R[g.t]) : MatchesAll(q, r) => r["id"] \in C) => Inside(C, R, res.rows)
    BY <1>1, <1>8, CascadeDeletes
  <2>2. ASSUME Thins(B, R), w.row \in Range(B[g.ref]), w.row["id"] \in C, NEW r \in Range(R[g.t]), MatchesAll(q, r)
        PROVE  r["id"] \in C
    <3>1. r \in Row /\ r \in Range(B[g.t])
      BY <1>1, <2>2, RowsFacts DEF Thins
    <3>2. KeyOf(r, g.cols) = K
      BY <1>2, <2>2, <3>1
    <3>3. Whole(KeyOf(r, g.cols)) /\ KeyOf(w.row, g.refcols) = KeyOf(r, g.cols)
      BY <1>5, <3>2, <1>a
    <3> HIDE DEF g
    <3> QED BY <1>1, <1>8, <2>2, <3>1, <3>3 DEF Closed
  <2> QED BY <1>6, <2>1, <2>2
<1> QED
  BY <1>4, <1>7, <1>8

LEMMA LayerDeletes ==
    ASSUME Fits, unseen = {}, WithinCaps, NoSetNull, NEW B, NEW C, Closed(B, C), NEW e, Typed(e), Deletes(B, C, e)
    PROVE  Deletes(B, C, [c \in Call |-> ActAll(e, c.rows, VisitsOf(c), c.patch)])
<1> SUFFICES ASSUME NEW c \in Call, c.patch = NoPatch, NEW res, res = ActAll(e, c.rows, VisitsOf(c), c.patch), res.ok
             PROVE  /\ Taken(c.rows, res.rows)
                    /\ \A w \in Visits(c.t, c.affected, NoPatch, c.composite) : Emptied(w, res.rows)
                    /\ Thins(B, c.rows) /\ Within(B, C, c.t, c.affected) => Inside(C, c.rows, res.rows)
  BY DEF Deletes
<1> DEFINE vs == VisitsOf(c)
           R == c.rows
           A == c.affected
           t == c.t
           Rel(S, T) == Taken(S, T) /\ (Thins(B, S) /\ Within(B, C, t, A) => Inside(C, S, T))
           J == {x \in DB \X DB : Rel(x[1], x[2])}
           D == {x \in Pair \X DB : Emptied(x[1], x[2])}
<1>1. R \in DB /\ NoPatch \in Fields
  BY NoPatchFits DEF Call, DB
<1>2. vs \in Seq(Pair) /\ Range(vs) = Visits(t, A, NoPatch, c.composite)
  BY VisitsFacts
<1> HIDE DEF Rel
<1>3. \A S, T \in DB : <<S, T>> \in J <=> Rel(S, T)
  OBVIOUS
<1>4. \A w \in Pair, S \in DB : <<w, S>> \in D <=> Emptied(w, S)
  OBVIOUS
<1>5. res = ActAll(e, R, vs, NoPatch)
  OBVIOUS
<1> HIDE DEF vs, R, J, D, t, A
<1>6. <<R, R>> \in J
  BY <1>1, <1>3, TakenReflexive DEF Rel
<1>7. ASSUME NEW S \in DB, NEW T \in DB, NEW U \in DB, <<S, T>> \in J, <<T, U>> \in J PROVE <<S, U>> \in J
  <2>1. Rel(S, T) /\ Rel(T, U)
    BY <1>3, <1>7
  <2>2. Taken(S, T) /\ Taken(T, U)
    BY <2>1 DEF Rel
  <2>3. Taken(S, U) /\ (Inside(C, S, T) /\ Inside(C, T, U) => Inside(C, S, U))
    BY <2>2, TakenTransitive
  <2>4. Thins(B, S) => Thins(B, T)
    BY <2>2 DEF Taken, Thins
  <2>5. Rel(S, U)
    BY <2>1, <2>3, <2>4, Zenon DEF Rel
  <2> QED BY <1>3, <2>5
<1>8. \A w \in Range(vs) : w \in Pair /\ w.fk \in Range(fks) /\ w.row \in Range(A) /\ w.fk.ref = t
  BY <1>2 DEF Visits
<1>9. ASSUME NEW w \in Range(vs), NEW S \in DB, Whole(KeyOf(w.row, w.fk.refcols)), Act(e, S, w, NoPatch).ok
      PROVE  <<S, Act(e, S, w, NoPatch).rows>> \in J /\ <<w, Act(e, S, w, NoPatch).rows>> \in D
  <2> DEFINE r == Act(e, S, w, NoPatch)
  <2>1. r \in Result
    BY <1>1, <1>8, ActTyped DEF Fits
  <2>2. r = Act(e, S, w, NoPatch) /\ r.ok
    BY <1>9
  <2> HIDE DEF r
  <2>3. /\ Taken(S, r.rows) /\ Emptied(w, r.rows)
        /\ Thins(B, S) /\ w.row \in Range(B[w.fk.ref]) /\ w.row["id"] \in C => Inside(C, S, r.rows)
    BY <1>8, <1>9, <2>2, ActDeletes
  <2>4. r.rows \in DB
    BY <2>1 DEF Result
  <2>5. Within(B, C, t, A) => w.row \in Range(B[w.fk.ref]) /\ w.row["id"] \in C
    BY <1>8 DEF Within
  <2>6. Rel(S, r.rows)
    BY <2>3, <2>5, Zenon DEF Rel
  <2> QED BY <1>3, <1>4, <1>8, <2>2, <2>3, <2>4, <2>6
<1>10. ASSUME NEW w \in Range(vs), NEW S \in DB, NEW T \in DB, <<w, S>> \in D, <<S, T>> \in J PROVE <<w, T>> \in D
  <2>1. w \in Pair /\ Emptied(w, S) /\ Thins(S, T)
    BY <1>3, <1>4, <1>8, <1>10 DEF Rel, Taken
  <2> QED BY <1>4, <2>1, EmptiedStays
<1>11. res.rows \in DB
  BY <1>1, <1>2, <1>5, ActAllTyped DEF Result, Fits
<1>12. ActAll(e, R, vs, NoPatch).ok
  BY <1>5
<1>13. /\ <<R, ActAll(e, R, vs, NoPatch).rows>> \in J
       /\ \A w \in Range(vs) : Whole(KeyOf(w.row, w.fk.refcols)) => <<w, ActAll(e, R, vs, NoPatch).rows>> \in D
  BY <1>1, <1>2, <1>6, <1>7, <1>9, <1>10, <1>12, ActAllKeeps DEF Fits
<1>14. Rel(R, res.rows)
  BY <1>1, <1>3, <1>5, <1>11, <1>13
<1>15. \A w \in Range(vs) : Emptied(w, res.rows)
  BY <1>4, <1>5, <1>8, <1>11, <1>13 DEF Emptied
<1> QED
  BY <1>2, <1>14, <1>15 DEF R, t, A, Rel

LEMMA EnforcedDeletes ==
    ASSUME Fits, unseen = {}, WithinCaps, NoSetNull, NEW B, NEW C, Closed(B, C)
    PROVE  Deletes(B, C, Enforced)
<1> DEFINE G == {e \in [Call -> Result] : Typed(e) /\ Deletes(B, C, e)}
           zero == [c \in Call |-> Failed(c.rows)]
           next(e) == [c \in Call |-> ActAll(e, c.rows, VisitsOf(c), c.patch)]
<1>1. zero \in G
  <2>1. \A c \in Call : zero[c].ok = FALSE
    BY DEF Failed
  <2>2. Deletes(B, C, zero)
    BY <2>1 DEF Deletes
  <2> QED BY <2>2, FirstTyped DEF Typed
<1>2. ASSUME NEW e \in G PROVE next(e) \in G
  <2>1. Typed(next(e)) /\ Deletes(B, C, next(e))
    BY LayerTyped, LayerDeletes
  <2> QED BY <2>1 DEF Typed
<1>3. Enforced \in G
  <2> HIDE DEF G
  <2> QED BY <1>1, <1>2, EnforceInduction
<1> QED
  BY <1>3


LEMMA IdsAre ==
    ASSUME NEW R, NEW i
    PROVE  /\ \A t : i \in Ids(R, t) <=> \E r \in Range(R[t]) : r["id"] = i
           /\ i \in AllIds(R) <=> \E t \in Tables : \E r \in Range(R[t]) : r["id"] = i
<1>1. \A t : i \in Ids(R, t) <=> \E r \in Range(R[t]) : r["id"] = i
  BY DEF Ids, Range
<1> QED
  BY <1>1 DEF AllIds

LEMMA RowOfIs ==
    ASSUME IdInv, NEW t \in Tables, NEW r \in Range(rows[t])
    PROVE  RowOf(rows, r["id"]) = r
<1> DEFINE All == UNION {Range(rows[u]) : u \in Tables}
<1>1. r \in All
  OBVIOUS
<1>2. \A x \in All : x["id"] = r["id"] => x = r
  BY DEF IdInv, Fresh
<1>3. RowOf(rows, r["id"]) = CHOOSE x \in All : x["id"] = r["id"]
  BY DEF RowOf
<1> HIDE DEF All
<1> QED
  BY <1>1, <1>2, <1>3

\* A set of ids that has what points at it.
LEMMA ClosedIs ==
    ASSUME FKInv, IdInv, NEW S, Pointing(rows, S) \subseteq S
    PROVE  Closed(rows, S)
<1> SUFFICES ASSUME NEW g \in Range(fks), g.del = "cascade", NEW s \in Range(rows[g.ref]), NEW x \in Range(rows[g.t]),
                    s["id"] \in S, Whole(KeyOf(x, g.cols)), KeyOf(s, g.refcols) = KeyOf(x, g.cols)
             PROVE  x["id"] \in S
  BY DEF Closed
<1>1. PICK i \in DOMAIN fks : fks[i] = g
  BY RangeIs
<1>2. g.ref \in Tables /\ g.t \in Tables
  BY FksFacts, KeyFacts DEF FKInv, Fits
<1>3. s["id"] \in S \cap Ids(rows, g.ref) /\ RowOf(rows, s["id"]) = s
  BY <1>2, IdsAre, RowOfIs
<1> DEFINE P(j) == {r["id"] : r \in {y \in Range(rows[fks[j].t]) :
                /\ fks[j].del = "cascade" /\ Whole(KeyOf(y, fks[j].cols))
                /\ \E z \in S \cap Ids(rows, fks[j].ref) : KeyOf(RowOf(rows, z), fks[j].refcols) = KeyOf(y, fks[j].cols)}}
<1>4. x["id"] \in P(i)
  BY <1>1, <1>3
<1>5. Pointing(rows, S) = UNION {P(j) : j \in DOMAIN fks}
  BY DEF Pointing
<1> HIDE DEF P
<1> QED
  BY <1>4, <1>5

\* res is what a successful delete of the rows of t that match q returns, gone
\* the ids it takes away and hit the ids of the rows it was asked for.
Removes(t, q, res, gone, hit) ==
    /\ res = CascadeDelete(Enforced, rows, t, q) /\ res.ok
    /\ gone = AllIds(rows) \ AllIds(res.rows)
    /\ hit = {r["id"] : r \in Matching(rows, t, q)}
\* gone is the least set with hit in it that the keys close.
IsClosure(gone, hit) ==
    /\ Pointing(rows, gone) \subseteq gone /\ hit \subseteq gone
    /\ \A S \in SUBSET gone : hit \subseteq S /\ Pointing(rows, S) \subseteq S => S = gone

\* A delete that is accepted.
LEMMA DeleteIsClosure ==
    ASSUME FKInv, IdInv, unseen = {}, WithinCaps, NoSetNull, NEW t \in Tables, NEW q,
           NEW res, NEW gone, NEW hit, Removes(t, q, res, gone, hit)
    PROVE  IsClosure(gone, hit)
<1> USE DEF Removes
<1>0. Fits /\ rows \in DB /\ Typed(Enforced) /\ Thins(rows, rows)
  BY EnforcedTyped DEF FKInv, Thins
<1>1. ASSUME NEW C, Closed(rows, C)
      PROVE  /\ res.rows \in DB /\ Taken(rows, res.rows) /\ \A r \in Range(res.rows[t]) : ~MatchesAll(q, r)
             /\ (\A r \in Range(rows[t]) : MatchesAll(q, r) => r["id"] \in C) => Inside(C, rows, res.rows)
  <2>1. Deletes(rows, C, Enforced)
    BY <1>0, <1>1, EnforcedDeletes
  <2> QED BY <1>0, <2>1, CascadeDeletes
<1>2. Closed(rows, Nat)
  <2>1. \A g \in Range(fks) : g.t \in Tables
    BY <1>0, FksFacts, KeyFacts DEF Fits
  <2> QED BY <2>1 DEF Closed, IdInv, Fresh
<1>3. res.rows \in DB /\ Taken(rows, res.rows) /\ \A r \in Range(res.rows[t]) : ~MatchesAll(q, r)
  BY <1>1, <1>2
<1>4. \A i : i \in gone <=> \E u \in Tables : \E r \in Range(rows[u]) : r["id"] = i /\ r \notin Range(res.rows[u])
  <2> SUFFICES ASSUME NEW i
               PROVE  i \in gone <=> \E u \in Tables : \E r \in Range(rows[u]) : r["id"] = i /\ r \notin Range(res.rows[u])
    OBVIOUS
  <2>1. i \in gone <=> i \in AllIds(rows) /\ i \notin AllIds(res.rows)
    OBVIOUS
  <2>2. ASSUME i \in gone PROVE \E u \in Tables : \E r \in Range(rows[u]) : r["id"] = i /\ r \notin Range(res.rows[u])
    BY <2>1, <2>2, IdsAre
  <2>3. ASSUME NEW u \in Tables, NEW r \in Range(rows[u]), r["id"] = i, r \notin Range(res.rows[u]) PROVE i \in gone
    <3>1. i \in AllIds(rows)
      BY <2>3, IdsAre
    <3>2. ASSUME NEW v \in Tables, NEW y \in Range(res.rows[v]), y["id"] = i PROVE FALSE
      <4>1. y \in Range(rows[v])
        BY <1>3 DEF Taken, Thins
      <4>2. u = v /\ r = y
        BY <2>3, <3>2, <4>1 DEF IdInv, Fresh
      <4> QED BY <2>3, <4>2
    <3>3. i \notin AllIds(res.rows)
      BY <3>2, IdsAre
    <3> QED BY <2>1, <3>1, <3>3
  <2> QED BY <2>2, <2>3
<1>5. hit \subseteq gone
  <2> SUFFICES ASSUME NEW r \in Matching(rows, t, q) PROVE r["id"] \in gone
    OBVIOUS
  <2>1. r \in Range(rows[t]) /\ MatchesAll(q, r)
    BY DEF Matching
  <2>2. r \notin Range(res.rows[t])
    BY <1>3, <2>1
  <2> QED BY <1>4, <2>1, <2>2
<1>6. ASSUME NEW i \in DOMAIN fks, NEW x \in Range(rows[fks[i].t]), Whole(KeyOf(x, fks[i].cols)),
             NEW z \in gone \cap Ids(rows, fks[i].ref), KeyOf(RowOf(rows, z), fks[i].refcols) = KeyOf(x, fks[i].cols)
      PROVE  x["id"] \in gone
  <2> DEFINE g == fks[i]
  <2>1. g \in Range(fks) /\ g \in Key /\ g.t \in Tables /\ g.ref \in Tables
    BY <1>0, FksFacts, KeyFacts DEF Fits
  <2> HIDE DEF g
  <2>2. PICK r \in Range(rows[g.ref]) : r["id"] = z
    BY <1>6, IdsAre DEF g
  <2>3. RowOf(rows, z) = r /\ r \in Row
    BY <1>0, <2>1, <2>2, RowOfIs, RowsFacts
  <2>4. r \notin Range(res.rows[g.ref])
    <3>1. PICK u \in Tables : \E y \in Range(rows[u]) : y["id"] = z /\ y \notin Range(res.rows[u])
      BY <1>4, <1>6
    <3>2. PICK y \in Range(rows[u]) : y["id"] = z /\ y \notin Range(res.rows[u])
      BY <3>1
    <3>3. u = g.ref /\ y = r
      BY <2>1, <2>2, <3>2 DEF IdInv, Fresh
    <3> QED BY <3>2, <3>3
  <2> DEFINE w == [row |-> r, fk |-> g]
  <2>5. w \in Pair /\ w.row = r /\ w.fk = g
    BY <2>1, <2>3, VisitIsPair
  <2>6. Emptied(w, res.rows)
    BY <1>3, <2>1, <2>4 DEF Taken, Childless
  <2> HIDE DEF w
  <2>7. KeyOf(r, g.refcols) = KeyOf(x, g.cols) /\ Whole(KeyOf(x, g.cols))
    BY <1>6, <2>3 DEF g
  <2>8. x \notin Range(res.rows[g.t])
    BY <2>5, <2>6, <2>7 DEF Emptied
  <2>9. x \in Range(rows[g.t])
    BY DEF g
  <2> QED BY <1>4, <2>1, <2>8, <2>9
<1>7. Pointing(rows, gone) \subseteq gone
  BY <1>6 DEF Pointing
<1>8. ASSUME NEW S \in SUBSET gone, hit \subseteq S, Pointing(rows, S) \subseteq S PROVE S = gone
  <2>1. Closed(rows, S)
    BY <1>8, ClosedIs
  <2>2. \A r \in Range(rows[t]) : MatchesAll(q, r) => r["id"] \in S
    BY <1>8 DEF Matching
  <2>3. Inside(S, rows, res.rows)
    BY <1>1, <2>1, <2>2
  <2>4. gone \subseteq S
    BY <1>4, <2>3 DEF Inside
  <2> QED BY <1>8, <2>4
<1> QED
  BY <1>5, <1>7, <1>8 DEF IsClosure

\* Every reachable state has no two different rows with the same id (kumdb.c, storage.c).
THEOREM FKIds == Spec => []IdInv
<1>1. Init => IdInv
  BY InitIds
<1>2. FKInv /\ IdInv /\ [Next]_vars => IdInv'
  BY NextIds
<1> QED
  BY <1>1, <1>2, FKTypes, PTL DEF Spec

\* A successful delete with keys that cascade or restrict, not too many of them,
\* and no index that leaves out a row, removes exactly the rows of its own table
\* that match its own filter and the rows that point at a removed row: the least
\* set that is closed under the keys (kdb_delete, kumdb.c:2645).
THEOREM DeleteClosure == Spec => DeleteRemovesClosure
<1> DEFINE Small == last'.op = "delete" /\ last'.ok /\ unseen = {} /\ WithinCaps /\ \A i \in DOMAIN fks : fks[i].del # "setnull"
<1>1. FKInv /\ IdInv /\ [Next]_vars =>
        [ Small => LET gone == AllIds(rows) \ AllIds(rows')
                       hit == {r["id"] : r \in Matching(rows, last'.t, last'.q)}
                   IN /\ hit \subseteq gone /\ Pointing(rows, gone) \subseteq gone
                      /\ \A S \in SUBSET gone : hit \subseteq S /\ Pointing(rows, S) \subseteq S => S = gone ]_vars
  <2> SUFFICES ASSUME FKInv, IdInv, Next, Small
               PROVE  IsClosure(AllIds(rows) \ AllIds(rows'), {r["id"] : r \in Matching(rows, last'.t, last'.q)})
    BY DEF vars, IsClosure
  <2> DEFINE gone == AllIds(rows) \ AllIds(rows')
             hit == {r["id"] : r \in Matching(rows, last'.t, last'.q)}
  <2>1. PICK t \in Tables, q \in Queries : kdb_delete(t, q)
    BY Calls
  <2> DEFINE res == CascadeDelete(Enforced, rows, t, q)
  <2>2. rows' = res.rows /\ res.ok /\ res = CascadeDelete(Enforced, rows, t, q) /\ last'.t = t /\ last'.q = q
    BY <2>1 DEF kdb_delete, ReturnedDelete
  <2>3. NoSetNull
    BY RangeIs DEF NoSetNull
  <2> HIDE DEF res
  <2>4. Removes(t, q, res, gone, hit)
    BY <2>2 DEF Removes
  <2> HIDE DEF gone, hit
  <2>5. IsClosure(gone, hit)
    BY <2>1, <2>3, <2>4, DeleteIsClosure, Zenon
  <2> QED BY <2>5 DEF gone, hit
<1> QED
  BY <1>1, FKTypes, FKIds, PTL DEF Spec, DeleteRemovesClosure
=============================================================================
