-------------------------- MODULE KdbTableLemmas --------------------------
(***************************************************************************)
(* What the operators of KdbTable and KdbTableLaws compute, for every row  *)
(* and every header: offsets, selections, built indexes, altered columns,  *)
(* the checks of an insert and an update.                                  *)
(***************************************************************************)
EXTENDS KdbTableLaws, InductionLemmas, FiniteSetTheorems

\* One step of the recursion of Ascending.
Taken(S, s, k) == IF k \in S THEN Append(s, k) ELSE s

\* Ascending is the last value of its recursion.
LEMMA AscendingUnfolds ==
    ASSUME NEW S, NEW n \in Nat
    PROVE  \E f : /\ f = [k \in 0 .. n |-> IF k = 0 THEN << >> ELSE Taken(S, f[k - 1], k)]
                  /\ Ascending(S, n) = f[n]
<1> DEFINE Is(f, m) == f = [k \in 0 .. m |-> IF k = 0 THEN << >> ELSE Taken(S, f[k - 1], k)]
           G == {m \in Nat : \E f : Is(f, m)}
<1>1. 0 \in G
  <2>1. Is([k \in 0 .. 0 |-> << >>], 0)
    OBVIOUS
  <2> QED BY <2>1
<1>2. ASSUME NEW m \in Nat, m \in G PROVE m + 1 \in G
  <2>1. PICK f : Is(f, m)
    BY <1>2
  <2> DEFINE g == [k \in 0 .. m + 1 |-> IF k = m + 1 THEN Taken(S, f[m], k) ELSE f[k]]
  <2>2. \A k \in 0 .. m + 1 : g[k] = IF k = 0 THEN << >> ELSE Taken(S, g[k - 1], k)
    <3> TAKE k \in 0 .. m + 1
    <3>1. CASE k = m + 1
      <4>1. g[k] = Taken(S, f[m], k) /\ g[k - 1] = f[m] /\ k # 0
        BY <3>1
      <4> QED BY <4>1, <3>1
    <3>2. CASE k # m + 1
      BY <2>1, <3>2
    <3> QED BY <3>1, <3>2
  <2>3. Is(g, m + 1)
    BY <2>2, Zenon
  <2> HIDE DEF g
  <2> QED BY <2>3
<1>3. n \in G
  <2> HIDE DEF G
  <2> QED BY <1>1, <1>2, InductionOnSet
<1>4. Is(CHOOSE f : Is(f, n), n)
  BY <1>3
<1>5. Ascending(S, n) = (CHOOSE f : Is(f, n))[n]
  BY DEF Ascending, Taken
<1> QED
  BY <1>4, <1>5

\* Ascending lists exactly the positions of S, in increasing order.
LEMMA AscendingFacts ==
    ASSUME NEW S, NEW n \in Nat, NEW a, a = Ascending(S, n)
    PROVE  /\ a \in Seq(1 .. n)
           /\ \A k \in DOMAIN a : a[k] \in S /\ a[k] \in 1 .. n
           /\ \A x \in 1 .. n : x \in S => \E k \in DOMAIN a : a[k] = x
           /\ \A j, k \in DOMAIN a : j < k => a[j] < a[k]
<1>1. PICK f : /\ f = [k \in 0 .. n |-> IF k = 0 THEN << >> ELSE Taken(S, f[k - 1], k)]
               /\ Ascending(S, n) = f[n]
  BY AscendingUnfolds
<1> DEFINE Good(s, m) == /\ s \in Seq(1 .. m)
                         /\ \A k \in DOMAIN s : s[k] \in S /\ s[k] \in 1 .. m
                         /\ \A x \in 1 .. m : x \in S => \E k \in DOMAIN s : s[k] = x
                         /\ \A j, k \in DOMAIN s : j < k => s[j] < s[k]
           G == {m \in Nat : Good(f[m], m)}
<1>2. 0 \in G
  <2>1. f[0] = << >>
    BY <1>1
  <2>2. Good(<< >>, 0)
    BY EmptySeq
  <2> HIDE DEF Good
  <2> QED BY <2>1, <2>2
<1>3. ASSUME NEW m \in 0 .. n - 1, m \in G PROVE m + 1 \in G
  <2>1. f[m + 1] = IF m + 1 \in S THEN Append(f[m], m + 1) ELSE f[m]
    <3>1. m + 1 \in 0 .. n /\ m + 1 # 0 /\ (m + 1) - 1 = m
      OBVIOUS
    <3>2. f[m + 1] = Taken(S, f[m], m + 1)
      BY <1>1, <3>1
    <3> QED BY <3>2 DEF Taken
  <2>2. Good(f[m], m)
    BY <1>3
  <2>3. CASE m + 1 \notin S
    BY <2>1, <2>2, <2>3
  <2>4. CASE m + 1 \in S
    <3> DEFINE s == f[m]
               t == Append(s, m + 1)
    <3>0. Good(s, m)
      BY <2>2
    <3>1. s \in Seq(1 .. m + 1) /\ t \in Seq(1 .. m + 1) /\ Len(t) = Len(s) + 1
      BY <2>2, AppendProperties
    <3>2. DOMAIN s = 1 .. Len(s) /\ DOMAIN t = 1 .. Len(s) + 1 /\ Len(s) \in Nat
      BY <3>1
    <3>3. \A k \in 1 .. Len(s) : t[k] = s[k]
      BY <3>1
    <3>4. t[Len(s) + 1] = m + 1
      BY <3>1
    <3> HIDE DEF s, t
    <3>5. \A k \in DOMAIN t : t[k] \in S /\ t[k] \in 1 .. m + 1
      BY <3>0, <2>4, <3>2, <3>3, <3>4
    <3>6. \A x \in 1 .. m + 1 : x \in S => \E k \in DOMAIN t : t[k] = x
      BY <3>0, <3>2, <3>3, <3>4
    <3>7. ASSUME NEW j \in DOMAIN t, NEW k \in DOMAIN t, j < k PROVE t[j] < t[k]
      <4>1. j \in 1 .. Len(s) /\ t[j] = s[j] /\ s[j] \in 1 .. m
        BY <3>0, <3>2, <3>3, <3>7
      <4>2. CASE k \in 1 .. Len(s)
        BY <3>0, <3>2, <3>3, <3>7, <4>1, <4>2
      <4>3. CASE k = Len(s) + 1
        BY <3>4, <4>1, <4>3
      <4> QED BY <3>2, <4>2, <4>3
    <3>8. t = f[m + 1]
      BY <2>1, <2>4 DEF s, t
    <3> QED BY <3>1, <3>5, <3>6, <3>7, <3>8
  <2> QED BY <2>3, <2>4
<1>4. n \in G
  <2> HIDE DEF G
  <2> QED BY <1>2, <1>3, InductionUpTo
<1> QED
  BY <1>1, <1>4

\* Select keeps the elements at the positions of S, in their order.
LEMMA SelectFacts ==
    ASSUME NEW T, NEW s \in Seq(T), NEW S, NEW a, a = Ascending(S, Len(s)), NEW t, t = Select(s, S)
    PROVE  /\ a \in Seq(1 .. Len(s))
           /\ t = [k \in DOMAIN a |-> s[a[k]]]
           /\ t \in Seq(T)
           /\ \A k \in DOMAIN a : a[k] \in S /\ a[k] \in DOMAIN s
           /\ \A i \in DOMAIN s : i \in S => \E k \in DOMAIN a : a[k] = i
           /\ \A j, k \in DOMAIN a : j # k => a[j] # a[k]
<1>1. /\ a \in Seq(1 .. Len(s))
      /\ \A k \in DOMAIN a : a[k] \in S /\ a[k] \in 1 .. Len(s)
      /\ \A x \in 1 .. Len(s) : x \in S => \E k \in DOMAIN a : a[k] = x
      /\ \A j, k \in DOMAIN a : j < k => a[j] < a[k]
  BY AscendingFacts
<1>2. DOMAIN s = 1 .. Len(s) /\ DOMAIN a = 1 .. Len(a) /\ Len(a) \in Nat
  BY <1>1
<1>3. t = [k \in DOMAIN a |-> s[a[k]]]
  BY DEF Select
<1>4. t \in Seq(T)
  <2>1. \A k \in 1 .. Len(a) : s[a[k]] \in T
    BY <1>1, <1>2
  <2> QED BY <1>2, <1>3, <2>1
<1>5. ASSUME NEW j \in DOMAIN a, NEW k \in DOMAIN a, j # k PROVE a[j] # a[k]
  <2>1. j < k \/ k < j
    BY <1>2, <1>5
  <2>2. a[j] < a[k] \/ a[k] < a[j]
    BY <1>1, <2>1
  <2> QED BY <1>1, <2>2
<1> QED
  BY <1>1, <1>2, <1>3, <1>4, <1>5

\* The least of a set of positions, 0 of none.
LEMMA FirstFacts ==
    ASSUME NEW S, S \subseteq Nat \ {0}
    PROVE  /\ First(S) = 0 <=> S = {}
           /\ S # {} => First(S) \in S /\ \A j \in S : First(S) <= j
<1>1. CASE S = {}
  BY <1>1 DEF First
<1>2. CASE S # {}
  <2>1. \E i \in S : \A j \in S : i <= j
    BY <1>2, LeastElement
  <2>2. First(S) = CHOOSE i \in S : \A j \in S : i <= j
    BY <1>2 DEF First
  <2>3. First(S) \in S /\ \A j \in S : First(S) <= j
    BY <2>1, <2>2
  <2> QED BY <1>2, <2>3
<1> QED
  BY <1>1, <1>2

\* A sequence without its i-th element.
LEMMA WithoutFacts ==
    ASSUME NEW T, NEW s \in Seq(T), NEW i \in DOMAIN s
    PROVE  /\ Without(s, i) \in Seq(T)
           /\ \A k \in DOMAIN Without(s, i) : \E j \in DOMAIN s : Without(s, i)[k] = s[j]
<1>1. DOMAIN s = 1 .. Len(s) /\ Len(s) \in Nat \ {0} /\ Len(s) - 1 \in Nat
  OBVIOUS
<1>2. \A j \in 1 .. Len(s) - 1 : j \in DOMAIN s /\ j + 1 \in DOMAIN s
  BY <1>1
<1>3. \A j \in 1 .. Len(s) - 1 : s[j] \in T /\ s[j + 1] \in T
  BY <1>1
<1>4. Without(s, i) = [j \in 1 .. Len(s) - 1 |-> IF j < i THEN s[j] ELSE s[j + 1]]
  BY DEF Without
<1> DEFINE t == [j \in 1 .. Len(s) - 1 |-> IF j < i THEN s[j] ELSE s[j + 1]]
<1>5. \A j \in 1 .. Len(s) - 1 : t[j] \in T /\ \E k \in DOMAIN s : t[j] = s[k]
  BY <1>2, <1>3
<1>6. DOMAIN t = 1 .. Len(s) - 1 /\ t = [j \in 1 .. Len(s) - 1 |-> t[j]]
  OBVIOUS
<1> HIDE DEF t
<1>7. t \in Seq(T)
  BY <1>1, <1>5, <1>6
<1>8. Without(s, i) = t
  BY <1>4 DEF t
<1> QED
  BY <1>5, <1>6, <1>7, <1>8

\* Offsets are the values of the running sum of the row sizes.
LEMMA OffsetsUnfolds ==
    ASSUME NEW rs, Len(rs) \in Nat
    PROVE  \E f : /\ f = [k \in 0 .. Len(rs) |-> IF k = 0 THEN 0 ELSE f[k - 1] + Size(rs[k])]
                  /\ Offsets(rs) = [i \in 1 .. Len(rs) + 1 |-> f[i - 1]]
<1> DEFINE Is(f, m) == f = [k \in 0 .. m |-> IF k = 0 THEN 0 ELSE f[k - 1] + Size(rs[k])]
           G == {m \in Nat : \E f : Is(f, m)}
<1>1. 0 \in G
  <2>1. Is([k \in 0 .. 0 |-> 0], 0)
    OBVIOUS
  <2> QED BY <2>1
<1>2. ASSUME NEW m \in Nat, m \in G PROVE m + 1 \in G
  <2>1. PICK f : Is(f, m)
    BY <1>2
  <2> DEFINE g == [k \in 0 .. m + 1 |-> IF k = m + 1 THEN f[m] + Size(rs[k]) ELSE f[k]]
  <2>2. \A k \in 0 .. m + 1 : g[k] = IF k = 0 THEN 0 ELSE g[k - 1] + Size(rs[k])
    <3> TAKE k \in 0 .. m + 1
    <3>1. CASE k = m + 1
      <4>1. g[k] = f[m] + Size(rs[k]) /\ g[k - 1] = f[m] /\ k # 0
        BY <3>1
      <4> QED BY <4>1, <3>1
    <3>2. CASE k # m + 1
      BY <2>1, <3>2
    <3> QED BY <3>1, <3>2
  <2>3. Is(g, m + 1)
    BY <2>2, Zenon
  <2> HIDE DEF g
  <2> QED BY <2>3
<1>3. Len(rs) \in G
  <2> HIDE DEF G
  <2> QED BY <1>1, <1>2, InductionOnSet
<1>4. Is(CHOOSE f : Is(f, Len(rs)), Len(rs))
  BY <1>3
<1>5. Offsets(rs) = [i \in 1 .. Len(rs) + 1 |-> (CHOOSE f : Is(f, Len(rs)))[i - 1]]
  BY DEF Offsets
<1> QED
  BY <1>4, <1>5

\* A built index is the last value of the insertions, row by row.
LEMMA BuiltUnfolds ==
    ASSUME NEW cs, NEW rs, Len(rs) \in Nat
    PROVE  \E f : /\ f = [k \in 0 .. Len(rs) |-> IF k = 0 THEN kdb_index_new(cs) ELSE kdb_index_insert(f[k - 1], rs[k], Offsets(rs)[k])]
                  /\ Built(cs, rs) = f[Len(rs)]
<1> DEFINE Is(f, m) == f = [k \in 0 .. m |-> IF k = 0 THEN kdb_index_new(cs) ELSE kdb_index_insert(f[k - 1], rs[k], Offsets(rs)[k])]
           G == {m \in Nat : \E f : Is(f, m)}
<1>1. 0 \in G
  <2>1. Is([k \in 0 .. 0 |-> kdb_index_new(cs)], 0)
    OBVIOUS
  <2> QED BY <2>1
<1>2. ASSUME NEW m \in Nat, m \in G PROVE m + 1 \in G
  <2>1. PICK f : Is(f, m)
    BY <1>2
  <2> DEFINE g == [k \in 0 .. m + 1 |-> IF k = m + 1 THEN kdb_index_insert(f[m], rs[k], Offsets(rs)[k]) ELSE f[k]]
  <2>2. \A k \in 0 .. m + 1 : g[k] = IF k = 0 THEN kdb_index_new(cs) ELSE kdb_index_insert(g[k - 1], rs[k], Offsets(rs)[k])
    <3> TAKE k \in 0 .. m + 1
    <3>1. CASE k = m + 1
      <4>1. g[k] = kdb_index_insert(f[m], rs[k], Offsets(rs)[k]) /\ g[k - 1] = f[m] /\ k # 0
        BY <3>1
      <4> QED BY <4>1, <3>1
    <3>2. CASE k # m + 1
      BY <2>1, <3>2
    <3> QED BY <3>1, <3>2
  <2>3. Is(g, m + 1)
    BY <2>2, Zenon
  <2> HIDE DEF g
  <2> QED BY <2>3
<1>3. Len(rs) \in G
  <2> HIDE DEF G
  <2> QED BY <1>1, <1>2, InductionOnSet
<1>4. Is(CHOOSE f : Is(f, Len(rs)), Len(rs))
  BY <1>3
<1>5. Built(cs, rs) = (CHOOSE f : Is(f, Len(rs)))[Len(rs)]
  BY DEF Built
<1> QED
  BY <1>4, <1>5


\* One step of the inference.
Inferred(h, r, k) ==
    IF ColNames[k] \in DOMAIN r /\ ~kdb_table_has_column(h, ColNames[k])
    THEN WithColumn(h, Column(ColNames[k], r[ColNames[k]].t, TRUE, FALSE, FALSE)) ELSE h

\* kdb_table_infer_schema goes over the columns one by one.
LEMMA InferUnfolds ==
    ASSUME NEW h, NEW r, Len(ColNames) \in Nat
    PROVE  \E f : /\ f = [k \in 0 .. Len(ColNames) |-> IF k = 0 THEN h ELSE Inferred(f[k - 1], r, k)]
                  /\ kdb_table_infer_schema(h, r) = f[Len(ColNames)]
<1> DEFINE Is(f, m) == f = [k \in 0 .. m |-> IF k = 0 THEN h ELSE Inferred(f[k - 1], r, k)]
           G == {m \in Nat : \E f : Is(f, m)}
<1>1. 0 \in G
  <2>1. Is([k \in 0 .. 0 |-> h], 0)
    OBVIOUS
  <2> QED BY <2>1
<1>2. ASSUME NEW m \in Nat, m \in G PROVE m + 1 \in G
  <2>1. PICK f : Is(f, m)
    BY <1>2
  <2> DEFINE g == [k \in 0 .. m + 1 |-> IF k = m + 1 THEN Inferred(f[m], r, k) ELSE f[k]]
  <2>2. \A k \in 0 .. m + 1 : g[k] = IF k = 0 THEN h ELSE Inferred(g[k - 1], r, k)
    <3> TAKE k \in 0 .. m + 1
    <3>1. CASE k = m + 1
      <4>1. g[k] = Inferred(f[m], r, k) /\ g[k - 1] = f[m] /\ k # 0
        BY <3>1
      <4> QED BY <4>1, <3>1
    <3>2. CASE k # m + 1
      BY <2>1, <3>2
    <3> QED BY <3>1, <3>2
  <2>3. Is(g, m + 1)
    BY <2>2, Zenon
  <2> HIDE DEF g
  <2> QED BY <2>3
<1>3. Len(ColNames) \in G
  <2> HIDE DEF G
  <2> QED BY <1>1, <1>2, InductionOnSet
<1>4. Is(CHOOSE f : Is(f, Len(ColNames)), Len(ColNames))
  BY <1>3
<1>5. kdb_table_infer_schema(h, r) = (CHOOSE f : Is(f, Len(ColNames)))[Len(ColNames)]
  BY DEF kdb_table_infer_schema, Inferred
<1> QED
  BY <1>4, <1>5

\* AppendRecords goes over the rows one by one.
LEMMA AppendUnfolds ==
    ASSUME NEW h, NEW s, NEW rs, Len(rs) \in Nat
    PROVE  \E f : /\ f = [k \in 0 .. Len(rs) |-> IF k = 0 THEN s ELSE AppendRecord(h, f[k - 1], rs[k])]
                  /\ AppendRecords(h, s, rs) = f[Len(rs)]
<1> DEFINE Is(f, m) == f = [k \in 0 .. m |-> IF k = 0 THEN s ELSE AppendRecord(h, f[k - 1], rs[k])]
           G == {m \in Nat : \E f : Is(f, m)}
<1>1. 0 \in G
  <2>1. Is([k \in 0 .. 0 |-> s], 0)
    OBVIOUS
  <2> QED BY <2>1
<1>2. ASSUME NEW m \in Nat, m \in G PROVE m + 1 \in G
  <2>1. PICK f : Is(f, m)
    BY <1>2
  <2> DEFINE g == [k \in 0 .. m + 1 |-> IF k = m + 1 THEN AppendRecord(h, f[m], rs[k]) ELSE f[k]]
  <2>2. \A k \in 0 .. m + 1 : g[k] = IF k = 0 THEN s ELSE AppendRecord(h, g[k - 1], rs[k])
    <3> TAKE k \in 0 .. m + 1
    <3>1. CASE k = m + 1
      <4>1. g[k] = AppendRecord(h, f[m], rs[k]) /\ g[k - 1] = f[m] /\ k # 0
        BY <3>1
      <4> QED BY <4>1, <3>1
    <3>2. CASE k # m + 1
      BY <2>1, <3>2
    <3> QED BY <3>1, <3>2
  <2>3. Is(g, m + 1)
    BY <2>2, Zenon
  <2> HIDE DEF g
  <2> QED BY <2>3
<1>3. Len(rs) \in G
  <2> HIDE DEF G
  <2> QED BY <1>1, <1>2, InductionOnSet
<1>4. Is(CHOOSE f : Is(f, Len(rs)), Len(rs))
  BY <1>3
<1>5. AppendRecords(h, s, rs) = (CHOOSE f : Is(f, Len(rs)))[Len(rs)]
  BY DEF AppendRecords
<1> QED
  BY <1>4, <1>5

\* Rows of positive size have increasing, and so distinct, offsets.
LEMMA OffsetsFacts ==
    ASSUME NEW rs \in Seq(Rows)
    PROVE  /\ Offsets(rs) \in [1 .. Len(rs) + 1 -> Nat]
           /\ \A i, j \in 1 .. Len(rs) + 1 : i < j => Offsets(rs)[i] < Offsets(rs)[j]
<1>0. Len(rs) \in Nat
  OBVIOUS
<1>1. PICK f : /\ f = [k \in 0 .. Len(rs) |-> IF k = 0 THEN 0 ELSE f[k - 1] + Size(rs[k])]
               /\ Offsets(rs) = [i \in 1 .. Len(rs) + 1 |-> f[i - 1]]
  BY <1>0, OffsetsUnfolds
<1> DEFINE G == {n \in Nat : \A i \in 0 .. n : f[i] \in Nat /\ (i < n => f[i] < f[n])}
<1>2. 0 \in G
  BY <1>0, <1>1
<1>3. ASSUME NEW n \in 0 .. Len(rs) - 1, n \in G PROVE n + 1 \in G
  <2>1. n + 1 \in 0 .. Len(rs) /\ n + 1 # 0 /\ (n + 1) - 1 = n
    BY <1>0
  <2>2. f[n + 1] = f[n] + Size(rs[n + 1])
    BY <1>1, <2>1
  <2>3. rs[n + 1] \in Rows
    BY <2>1
  <2>4. Size(rs[n + 1]) \in Nat \ {0}
    BY <2>3, SizeAssumption
  <2>5. \A i \in 0 .. n : f[i] \in Nat /\ (i < n => f[i] < f[n])
    BY <1>3
  <2>6. f[n] < f[n + 1] /\ f[n + 1] \in Nat
    BY <2>2, <2>4, <2>5
  <2>7. ASSUME NEW i \in 0 .. n + 1 PROVE f[i] \in Nat /\ (i < n + 1 => f[i] < f[n + 1])
    <3>1. CASE i = n + 1
      BY <2>6, <3>1
    <3>2. CASE i = n
      BY <2>6, <2>5, <3>2
    <3>3. CASE i \in 0 .. n - 1
      BY <2>5, <2>6, <3>3
    <3> QED BY <3>1, <3>2, <3>3
  <2> QED BY <2>7
<1>4. \A n \in 0 .. Len(rs) : n \in G
  <2> HIDE DEF G
  <2> QED BY <1>0, <1>2, <1>3, InductionUpTo
<1>5. \A n \in 0 .. Len(rs) : f[n] \in Nat /\ \A i \in 0 .. n : i < n => f[i] < f[n]
  BY <1>4
<1>6. ASSUME NEW i \in 1 .. Len(rs) + 1, NEW j \in 1 .. Len(rs) + 1, i < j
      PROVE  Offsets(rs)[i] < Offsets(rs)[j]
  <2>1. i - 1 \in 0 .. Len(rs) /\ j - 1 \in 0 .. Len(rs) /\ i - 1 \in 0 .. j - 1 /\ i - 1 < j - 1
    BY <1>0, <1>6
  <2>2. f[i - 1] < f[j - 1]
    BY <1>5, <2>1
  <2> QED BY <1>1, <2>2
<1>7. \A i \in 1 .. Len(rs) + 1 : f[i - 1] \in Nat
  BY <1>0, <1>5
<1> QED
  BY <1>1, <1>6, <1>7

\* The offsets of the rows before it do not depend on the last row.
LEMMA OffsetsAppend ==
    ASSUME NEW rs \in Seq(Rows), NEW r \in Rows
    PROVE  \A i \in 1 .. Len(rs) + 1 : Offsets(Append(rs, r))[i] = Offsets(rs)[i]
<1> DEFINE rt == Append(rs, r)
<1>0. /\ Len(rs) \in Nat /\ rt \in Seq(Rows) /\ Len(rt) = Len(rs) + 1
      /\ \A i \in 1 .. Len(rs) : rt[i] = rs[i]
  BY AppendProperties
<1> HIDE DEF rt
<1>1. PICK f : /\ f = [k \in 0 .. Len(rs) |-> IF k = 0 THEN 0 ELSE f[k - 1] + Size(rs[k])]
               /\ Offsets(rs) = [i \in 1 .. Len(rs) + 1 |-> f[i - 1]]
  BY <1>0, OffsetsUnfolds
<1>2. PICK g : /\ g = [k \in 0 .. Len(rt) |-> IF k = 0 THEN 0 ELSE g[k - 1] + Size(rt[k])]
               /\ Offsets(rt) = [i \in 1 .. Len(rt) + 1 |-> g[i - 1]]
  BY <1>0, OffsetsUnfolds
<1> DEFINE G == {n \in Nat : f[n] = g[n]}
<1>3. 0 \in G
  BY <1>0, <1>1, <1>2
<1>4. ASSUME NEW n \in 0 .. Len(rs) - 1, n \in G PROVE n + 1 \in G
  <2>1. n + 1 \in 0 .. Len(rs) /\ n + 1 \in 0 .. Len(rt) /\ n + 1 # 0 /\ (n + 1) - 1 = n
        /\ n + 1 \in 1 .. Len(rs)
    BY <1>0
  <2>2. f[n + 1] = f[n] + Size(rs[n + 1]) /\ g[n + 1] = g[n] + Size(rt[n + 1])
    BY <1>1, <1>2, <2>1
  <2>3. rs[n + 1] = rt[n + 1]
    BY <1>0, <2>1
  <2>4. f[n] = g[n]
    BY <1>4
  <2> QED BY <2>2, <2>3, <2>4
<1>5. \A n \in 0 .. Len(rs) : n \in G
  <2> HIDE DEF G
  <2> QED BY <1>0, <1>3, <1>4, InductionUpTo
<1>6. ASSUME NEW i \in 1 .. Len(rs) + 1 PROVE Offsets(rt)[i] = Offsets(rs)[i]
  <2>1. i \in 1 .. Len(rt) + 1 /\ i - 1 \in 0 .. Len(rs)
    BY <1>0
  <2>2. f[i - 1] = g[i - 1]
    BY <1>5, <2>1
  <2> QED BY <1>1, <1>2, <2>1, <2>2
<1> QED
  BY <1>6 DEF rt

\* What an index built over a file holds of one row.
NodeOf(cs, rs, i) == [h |-> Key(kdb_index_new(cs), rs[i]), off |-> Offsets(rs)[i]]
Nodes(cs, rs) == {NodeOf(cs, rs, i) : i \in DOMAIN rs}

\* kdb_index_insert pushes a node on the front, if the row has all the columns.
LEMMA InsertShape ==
    ASSUME NEW cs, NEW ns, NEW r, NEW o
    PROVE  kdb_index_insert([cols |-> cs, nodes |-> ns], r, o) =
              [cols |-> cs, nodes |-> IF ElemsOf(cs) \subseteq DOMAIN r
                                      THEN <<[h |-> Key(kdb_index_new(cs), r), off |-> o]>> \o ns ELSE ns]
  BY DEF kdb_index_insert, Key, kdb_index_new

\* A built index has a node of a row exactly when the row has all the columns.
LEMMA BuiltFacts ==
    ASSUME NEW cs, NEW rs \in Seq(Rows)
    PROVE  \E ns \in Seq(Nodes(cs, rs)) :
              /\ Built(cs, rs) = [cols |-> cs, nodes |-> ns]
              /\ \A k \in DOMAIN ns : \E i \in DOMAIN rs :
                    ElemsOf(cs) \subseteq DOMAIN rs[i] /\ ns[k] = NodeOf(cs, rs, i)
              /\ \A i \in DOMAIN rs : ElemsOf(cs) \subseteq DOMAIN rs[i] => \E k \in DOMAIN ns : ns[k] = NodeOf(cs, rs, i)
              /\ \A j, k \in DOMAIN ns : j < k => ns[k].off < ns[j].off
<1>0. Len(rs) \in Nat /\ DOMAIN rs = 1 .. Len(rs)
  OBVIOUS
<1>1. PICK f : /\ f = [k \in 0 .. Len(rs) |-> IF k = 0 THEN kdb_index_new(cs)
                                              ELSE kdb_index_insert(f[k - 1], rs[k], Offsets(rs)[k])]
               /\ Built(cs, rs) = f[Len(rs)]
  BY <1>0, BuiltUnfolds
<1>2. \A i, j \in 1 .. Len(rs) + 1 : i < j => Offsets(rs)[i] < Offsets(rs)[j]
  BY OffsetsFacts
<1>2a. \A i \in 1 .. Len(rs) + 1 : Offsets(rs)[i] \in Nat
  BY OffsetsFacts
<1> DEFINE N(i) == NodeOf(cs, rs, i)
           Has(i) == ElemsOf(cs) \subseteq DOMAIN rs[i]
           Good(ns, n) ==
              /\ ns \in Seq(Nodes(cs, rs))
              /\ \A k \in DOMAIN ns : \E i \in 1 .. n : Has(i) /\ ns[k] = N(i)
              /\ \A i \in 1 .. n : Has(i) => \E k \in DOMAIN ns : ns[k] = N(i)
              /\ \A j, k \in DOMAIN ns : j < k => ns[k].off < ns[j].off
           G == {n \in Nat : \E ns : f[n] = [cols |-> cs, nodes |-> ns] /\ Good(ns, n)}
<1>3. 0 \in G
  <2>1. f[0] = [cols |-> cs, nodes |-> << >>]
    BY <1>0, <1>1 DEF kdb_index_new
  <2>2. Good(<< >>, 0)
    BY EmptySeq
  <2> HIDE DEF Good
  <2> QED BY <2>1, <2>2
<1>4. ASSUME NEW n \in 0 .. Len(rs) - 1, n \in G PROVE n + 1 \in G
  <2>1. n + 1 \in 0 .. Len(rs) /\ n + 1 # 0 /\ (n + 1) - 1 = n /\ n + 1 \in DOMAIN rs
    BY <1>0
  <2>2. PICK ns : f[n] = [cols |-> cs, nodes |-> ns] /\ Good(ns, n)
    BY <1>4
  <2>3. f[n + 1] = kdb_index_insert(f[n], rs[n + 1], Offsets(rs)[n + 1])
    BY <1>1, <2>1
  <2>6. kdb_index_insert([cols |-> cs, nodes |-> ns], rs[n + 1], Offsets(rs)[n + 1]) =
           [cols |-> cs, nodes |-> IF Has(n + 1) THEN <<N(n + 1)>> \o ns ELSE ns]
    BY InsertShape, Zenon DEF NodeOf
  <2>4. CASE ~Has(n + 1)
    <3>1. f[n + 1] = [cols |-> cs, nodes |-> ns]
      BY <2>2, <2>3, <2>4, <2>6, Zenon
    <3> HIDE DEF N, Has
    <3>2. \A i \in 1 .. n + 1 : i \in 1 .. n \/ i = n + 1
      OBVIOUS
    <3>3. \A i \in 1 .. n : i \in 1 .. n + 1
      OBVIOUS
    <3>4. Good(ns, n + 1)
      <4>1. \A k \in DOMAIN ns : \E i \in 1 .. n + 1 : Has(i) /\ ns[k] = N(i)
        BY <2>2, <3>3
      <4>2. \A i \in 1 .. n + 1 : Has(i) => \E k \in DOMAIN ns : ns[k] = N(i)
        BY <2>2, <2>4, <3>2
      <4> QED BY <2>2, <4>1, <4>2
    <3> HIDE DEF Good
    <3> QED BY <3>1, <3>4
  <2>5. CASE Has(n + 1)
    <3> DEFINE x == N(n + 1)
               nt == <<x>> \o ns
    <3>1. f[n + 1] = [cols |-> cs, nodes |-> nt]
      BY <2>2, <2>3, <2>5, <2>6, Zenon
    <3>2. x \in Nodes(cs, rs) /\ <<x>> \in Seq(Nodes(cs, rs)) /\ Len(<<x>>) = 1 /\ <<x>>[1] = x
      BY <2>1 DEF Nodes
    <3>3. ns \in Seq(Nodes(cs, rs)) /\ Len(ns) \in Nat /\ DOMAIN ns = 1 .. Len(ns)
      BY <2>2
    <3> HIDE DEF x
    <3>4. nt \in Seq(Nodes(cs, rs)) /\ Len(nt) = Len(ns) + 1
      BY <3>2, <3>3, ConcatProperties
    <3>5. nt[1] = x /\ \A k \in 1 .. Len(ns) : nt[k + 1] = ns[k]
      <4>1. \A i \in 1 .. 1 + Len(ns) : nt[i] = IF i <= 1 THEN <<x>>[i] ELSE ns[i - 1]
        BY <3>2, <3>3, ConcatProperties
      <4> HIDE DEF nt
      <4> QED BY <3>2, <3>3, <4>1
    <3> HIDE DEF nt
    <3>6. DOMAIN nt = 1 .. Len(ns) + 1
      BY <3>4
    <3>7. \A k \in DOMAIN nt : k = 1 \/ (k - 1 \in DOMAIN ns /\ nt[k] = ns[k - 1])
      BY <3>3, <3>5, <3>6
    <3>8. \A k \in DOMAIN ns : k + 1 \in DOMAIN nt /\ nt[k + 1] = ns[k]
      BY <3>3, <3>5, <3>6
    <3>9. 1 \in DOMAIN nt /\ nt[1] = N(n + 1)
      BY <3>3, <3>5, <3>6 DEF x
    <3> HIDE DEF N, Has
    <3>10. \A k \in DOMAIN nt : \E i \in 1 .. n + 1 : Has(i) /\ nt[k] = N(i)
      <4>1. n + 1 \in 1 .. n + 1 /\ \A i \in 1 .. n : i \in 1 .. n + 1
        OBVIOUS
      <4>2. \A k \in DOMAIN ns : \E i \in 1 .. n + 1 : Has(i) /\ ns[k] = N(i)
        BY <2>2, <4>1
      <4> QED BY <2>5, <3>7, <3>9, <4>1, <4>2
    <3>11. \A i \in 1 .. n + 1 : Has(i) => \E k \in DOMAIN nt : nt[k] = N(i)
      <4>1. \A i \in 1 .. n + 1 : i \in 1 .. n \/ i = n + 1
        OBVIOUS
      <4>2. \A i \in 1 .. n : Has(i) => \E k \in DOMAIN nt : nt[k] = N(i)
        BY <2>2, <3>8
      <4> QED BY <3>9, <4>1, <4>2
    <3>12. ASSUME NEW j \in DOMAIN nt, NEW k \in DOMAIN nt, j < k PROVE nt[k].off < nt[j].off
      <4>1. k - 1 \in DOMAIN ns /\ nt[k] = ns[k - 1]
        BY <3>6, <3>7, <3>12
      <4>2. CASE j = 1
        <5>1. PICK i \in 1 .. n : ns[k - 1] = N(i)
          BY <2>2, <4>1
        <5>2. Offsets(rs)[i] < Offsets(rs)[n + 1]
          BY <1>0, <1>2, <2>1
        <5> QED BY <3>9, <4>1, <4>2, <5>1, <5>2 DEF N, NodeOf
      <4>3. CASE j # 1
        <5>1. j - 1 \in DOMAIN ns /\ nt[j] = ns[j - 1] /\ j - 1 < k - 1
          BY <3>6, <3>7, <3>12, <4>3
        <5> QED BY <2>2, <4>1, <5>1
      <4> QED BY <4>2, <4>3
    <3>13. Good(nt, n + 1)
      BY <3>4, <3>10, <3>11, <3>12
    <3> HIDE DEF Good
    <3> QED BY <3>1, <3>13
  <2> QED BY <2>4, <2>5
<1>5. \A n \in 0 .. Len(rs) : n \in G
  <2> HIDE DEF G
  <2> QED BY <1>0, <1>3, <1>4, InductionUpTo
<1>6. Len(rs) \in G
  <2> HIDE DEF G
  <2> QED BY <1>0, <1>5
<1> QED
  BY <1>0, <1>1, <1>6

\* One more row in the file is one more insertion into the index.
LEMMA BuiltAppend ==
    ASSUME NEW cs, NEW rs \in Seq(Rows), NEW r \in Rows
    PROVE  Built(cs, Append(rs, r)) = kdb_index_insert(Built(cs, rs), r, Offsets(rs)[Len(rs) + 1])
<1> DEFINE rt == Append(rs, r)
<1>0. /\ Len(rs) \in Nat /\ rt \in Seq(Rows) /\ Len(rt) = Len(rs) + 1 /\ Len(rt) \in Nat
      /\ \A i \in 1 .. Len(rs) : rt[i] = rs[i]
      /\ rt[Len(rs) + 1] = r
  BY AppendProperties
<1>1. \A i \in 1 .. Len(rs) + 1 : Offsets(rt)[i] = Offsets(rs)[i]
  BY OffsetsAppend
<1> HIDE DEF rt
<1>2. PICK f : /\ f = [k \in 0 .. Len(rs) |-> IF k = 0 THEN kdb_index_new(cs)
                                              ELSE kdb_index_insert(f[k - 1], rs[k], Offsets(rs)[k])]
               /\ Built(cs, rs) = f[Len(rs)]
  BY <1>0, BuiltUnfolds
<1>3. PICK g : /\ g = [k \in 0 .. Len(rt) |-> IF k = 0 THEN kdb_index_new(cs)
                                              ELSE kdb_index_insert(g[k - 1], rt[k], Offsets(rt)[k])]
               /\ Built(cs, rt) = g[Len(rt)]
  BY <1>0, BuiltUnfolds
<1> DEFINE G == {n \in Nat : f[n] = g[n]}
<1>4. 0 \in G
  BY <1>0, <1>2, <1>3
<1>5. ASSUME NEW n \in 0 .. Len(rs) - 1, n \in G PROVE n + 1 \in G
  <2>1. n + 1 \in 0 .. Len(rs) /\ n + 1 \in 0 .. Len(rt) /\ n + 1 # 0 /\ (n + 1) - 1 = n
        /\ n + 1 \in 1 .. Len(rs) /\ n + 1 \in 1 .. Len(rs) + 1
    BY <1>0
  <2>2. /\ f[n + 1] = kdb_index_insert(f[n], rs[n + 1], Offsets(rs)[n + 1])
        /\ g[n + 1] = kdb_index_insert(g[n], rt[n + 1], Offsets(rt)[n + 1])
    BY <1>2, <1>3, <2>1
  <2>3. rs[n + 1] = rt[n + 1] /\ Offsets(rt)[n + 1] = Offsets(rs)[n + 1]
    BY <1>0, <1>1, <2>1
  <2>4. f[n] = g[n]
    BY <1>5
  <2>5. f[n + 1] = g[n + 1]
    BY <2>2, <2>3, <2>4
  <2> QED BY <2>5
<1>6. f[Len(rs)] = g[Len(rs)]
  <2>1. \A n \in 0 .. Len(rs) : n \in G
    <3> HIDE DEF G
    <3> QED BY <1>0, <1>4, <1>5, InductionUpTo
  <2> QED BY <1>0, <2>1
<1>7. g[Len(rt)] = kdb_index_insert(g[Len(rs)], rt[Len(rs) + 1], Offsets(rt)[Len(rs) + 1])
  <2>1. Len(rt) \in 0 .. Len(rt) /\ Len(rt) # 0 /\ Len(rt) - 1 = Len(rs) /\ Len(rt) = Len(rs) + 1
    BY <1>0
  <2> QED BY <1>3, <2>1
<1>8. Offsets(rt)[Len(rs) + 1] = Offsets(rs)[Len(rs) + 1]
  BY <1>0, <1>1
<1>9. Built(cs, rt) = kdb_index_insert(Built(cs, rs), r, Offsets(rs)[Len(rs) + 1])
  BY <1>0, <1>2, <1>3, <1>6, <1>7, <1>8
<1> QED
  BY <1>9 DEF rt

\* Rows are the partial functions from column names to values.
LEMMA RowFacts ==
    ASSUME NEW r
    PROVE  r \in Rows <=> /\ r = [c \in DOMAIN r |-> r[c]]
                          /\ DOMAIN r \subseteq Names
                          /\ \A c \in DOMAIN r : r[c] \in Values
<1>1. ASSUME r \in Rows
      PROVE  r = [c \in DOMAIN r |-> r[c]] /\ DOMAIN r \subseteq Names /\ \A c \in DOMAIN r : r[c] \in Values
  <2>1. PICK D \in SUBSET Names : r \in [D -> Values]
    BY <1>1 DEF Rows
  <2> QED BY <2>1
<1>2. ASSUME r = [c \in DOMAIN r |-> r[c]], DOMAIN r \subseteq Names, \A c \in DOMAIN r : r[c] \in Values
      PROVE  r \in Rows
  <2>1. r \in [DOMAIN r -> Values] /\ DOMAIN r \in SUBSET Names
    BY <1>2
  <2> QED BY <2>1 DEF Rows
<1> QED
  BY <1>1, <1>2

\* The position kdb_table_get_column finds names the column it was asked for.
LEMMA GetColumnFacts ==
    ASSUME NEW h, NEW c, h.n \in Nat
    PROVE  /\ kdb_table_has_column(h, c) <=> \E i \in 1 .. h.n : h.cols[i].name = c
           /\ kdb_table_has_column(h, c) => /\ kdb_table_get_column(h, c) \in 1 .. h.n
                                            /\ h.cols[kdb_table_get_column(h, c)].name = c
<1> DEFINE S == {i \in 1 .. h.n : h.cols[i].name = c}
<1>1. S \subseteq Nat \ {0}
  OBVIOUS
<1>2. kdb_table_get_column(h, c) = First(S) /\ (kdb_table_has_column(h, c) <=> First(S) # 0)
  BY DEF kdb_table_get_column, kdb_table_has_column
<1>3. (First(S) = 0 <=> S = {}) /\ (S # {} => First(S) \in S)
  <2> HIDE DEF S
  <2> QED BY <1>1, FirstFacts
<1> QED
  BY <1>2, <1>3

\* The fields of a header.
LEMMA HeaderFacts ==
    ASSUME NEW h, HeaderOK(h)
    PROVE  /\ h = [cols |-> h.cols, n |-> h.n, comps |-> h.comps, checks |-> h.checks]
           /\ h.cols \in Seq(Columns) /\ Len(h.cols) \in Nat /\ DOMAIN h.cols = 1 .. Len(h.cols)
           /\ h.n \in Nat /\ h.n <= Len(h.cols)
           /\ h.comps \in Seq(Seq(Nat)) /\ h.checks \in Seq(Checks)
           /\ \A i \in 1 .. Len(h.cols) : h.cols[i] \in Columns
<1>1. h \in [cols : Seq(Columns), n : Nat, comps : Seq(Seq(Nat)), checks : Seq(Checks)] /\ h.n <= Len(h.cols)
  BY DEF HeaderOK
<1>2. h.cols \in Seq(Columns)
  BY <1>1
<1> QED
  BY <1>1, <1>2

\* A new column keeps the header well-formed and the positions of the old ones.
LEMMA WithColumnFacts ==
    ASSUME NEW h, HeaderOK(h), NEW col \in Columns, ~kdb_table_has_column(h, col.name), NEW t, t = WithColumn(h, col)
    PROVE  /\ HeaderOK(t)
           /\ t.n = h.n + 1 /\ t.checks = h.checks /\ t.comps = h.comps
           /\ \A i \in 1 .. h.n : t.cols[i] = h.cols[i]
           /\ t.cols[h.n + 1] = col
<1>1. /\ h = [cols |-> h.cols, n |-> h.n, comps |-> h.comps, checks |-> h.checks]
      /\ h.cols \in Seq(Columns) /\ Len(h.cols) \in Nat /\ DOMAIN h.cols = 1 .. Len(h.cols)
      /\ h.n \in Nat /\ h.n <= Len(h.cols)
      /\ h.comps \in Seq(Seq(Nat)) /\ h.checks \in Seq(Checks)
      /\ \A i \in 1 .. Len(h.cols) : h.cols[i] \in Columns
  BY HeaderFacts
<1> DEFINE m == IF Len(h.cols) > h.n THEN Len(h.cols) ELSE h.n + 1
           cs == [i \in 1 .. m |-> IF i = h.n + 1 THEN col ELSE h.cols[i]]
<1>2. t = [cols |-> cs, n |-> h.n + 1, comps |-> h.comps, checks |-> h.checks]
  BY <1>1 DEF WithColumn
<1>3. m \in Nat /\ h.n + 1 <= m /\ Len(h.cols) <= m
  BY <1>1
<1>3a. m = Len(h.cols) \/ (m = h.n + 1 /\ h.n = Len(h.cols))
  BY <1>1
<1> HIDE DEF m
<1>4. \A i \in 1 .. m : i # h.n + 1 => i \in 1 .. Len(h.cols)
  BY <1>1, <1>3a
<1>5. \A i \in 1 .. m : cs[i] \in Columns
  BY <1>1, <1>4
<1>6. cs \in Seq(Columns) /\ Len(cs) = m /\ DOMAIN cs = 1 .. m
  <2> HIDE DEF cs
  <2>1. cs = [i \in 1 .. m |-> cs[i]]
    BY DEF cs
  <2> QED BY <1>3, <1>5, <2>1
<1>7. (\A i \in 1 .. h.n : cs[i] = h.cols[i]) /\ cs[h.n + 1] = col
  BY <1>1, <1>3
<1> HIDE DEF cs
<1>8. \A i \in 1 .. h.n : h.cols[i].name # col.name
  BY <1>1, GetColumnFacts
<1>9. ASSUME NEW i \in 1 .. h.n + 1, NEW j \in 1 .. h.n + 1, cs[i].name = cs[j].name PROVE i = j
  <2>1. \A k \in 1 .. h.n + 1 : k = h.n + 1 \/ k \in 1 .. h.n
    BY <1>1
  <2>2. \A k, l \in 1 .. h.n : h.cols[k].name = h.cols[l].name => k = l
    BY DEF HeaderOK
  <2>3. CASE i = h.n + 1
    BY <1>7, <1>8, <1>9, <2>1, <2>3
  <2>4. CASE i \in 1 .. h.n
    BY <1>7, <1>8, <1>9, <2>1, <2>2, <2>4
  <2> QED BY <2>1, <2>3, <2>4
<1>10. \A d \in DOMAIN h.comps : \A k \in DOMAIN h.comps[d] : h.comps[d][k] \in DOMAIN cs
  <2>1. DOMAIN h.cols \subseteq DOMAIN cs
    BY <1>1, <1>3, <1>6
  <2> QED BY <2>1 DEF HeaderOK
<1>11. HeaderOK(t)
  BY <1>1, <1>2, <1>3, <1>6, <1>9, <1>10 DEF HeaderOK
<1> QED
  BY <1>2, <1>7, <1>11

\* kdb_table_drop_column's shift keeps the header well-formed, its composites within the array.
LEMMA WithoutColumnOK ==
    ASSUME NEW h, HeaderOK(h), NEW i \in 1 .. h.n
    PROVE  HeaderOK(WithoutColumn(h, i))
<1>1. /\ h = [cols |-> h.cols, n |-> h.n, comps |-> h.comps, checks |-> h.checks]
      /\ h.cols \in Seq(Columns) /\ Len(h.cols) \in Nat /\ DOMAIN h.cols = 1 .. Len(h.cols)
      /\ h.n \in Nat /\ h.n <= Len(h.cols)
      /\ h.comps \in Seq(Seq(Nat)) /\ h.checks \in Seq(Checks)
      /\ \A j \in 1 .. Len(h.cols) : h.cols[j] \in Columns
  BY HeaderFacts
<1> DEFINE cs == [j \in DOMAIN h.cols |-> IF i <= j /\ j < h.n THEN h.cols[j + 1] ELSE h.cols[j]]
           t == WithoutColumn(h, i)
<1>2. t = [cols |-> cs, n |-> h.n - 1, comps |-> h.comps, checks |-> h.checks]
  <2>1. h = [cols |-> h.cols, n |-> h.n, comps |-> h.comps, checks |-> h.checks]
    BY <1>1
  <2> HIDE DEF cs
  <2>2. t = [h EXCEPT !.cols = cs, !.n = h.n - 1]
    BY DEF WithoutColumn, cs
  <2> QED BY <2>1, <2>2
<1>3. \A j \in 1 .. Len(h.cols) : cs[j] \in Columns
  BY <1>1
<1>4. cs \in Seq(Columns) /\ Len(cs) = Len(h.cols) /\ DOMAIN cs = DOMAIN h.cols
  <2>1. cs = [j \in 1 .. Len(h.cols) |-> cs[j]]
    BY <1>1
  <2> HIDE DEF cs
  <2> QED BY <1>1, <1>3, <2>1
<1>5. \A j \in 1 .. h.n - 1 : cs[j] = IF i <= j THEN h.cols[j + 1] ELSE h.cols[j]
  BY <1>1
<1> HIDE DEF cs, t
<1>6. ASSUME NEW j \in 1 .. h.n - 1, NEW k \in 1 .. h.n - 1, cs[j].name = cs[k].name PROVE j = k
  <2>1. \A x, y \in 1 .. h.n : h.cols[x].name = h.cols[y].name => x = y
    BY DEF HeaderOK
  <2>2. j \in 1 .. h.n /\ j + 1 \in 1 .. h.n /\ k \in 1 .. h.n /\ k + 1 \in 1 .. h.n
    BY <1>1
  <2>3. CASE i <= j /\ i <= k
    <3>1. h.cols[j + 1].name = h.cols[k + 1].name
      BY <1>5, <1>6, <2>3
    <3> QED BY <2>1, <2>2, <3>1
  <2>4. CASE i <= j /\ ~(i <= k)
    <3>1. h.cols[j + 1].name = h.cols[k].name
      BY <1>5, <1>6, <2>4
    <3> QED BY <2>1, <2>2, <2>4, <3>1
  <2>5. CASE ~(i <= j) /\ i <= k
    <3>1. h.cols[j].name = h.cols[k + 1].name
      BY <1>5, <1>6, <2>5
    <3> QED BY <2>1, <2>2, <2>5, <3>1
  <2>6. CASE ~(i <= j) /\ ~(i <= k)
    <3>1. h.cols[j].name = h.cols[k].name
      BY <1>5, <1>6, <2>6
    <3> QED BY <2>1, <2>2, <3>1
  <2> QED BY <2>3, <2>4, <2>5, <2>6
<1>7. \A d \in DOMAIN h.comps : \A k \in DOMAIN h.comps[d] : h.comps[d][k] \in DOMAIN cs
  BY <1>4 DEF HeaderOK
<1>8. h.n - 1 \in Nat /\ h.n - 1 <= Len(cs)
  BY <1>1, <1>4
<1>9. HeaderOK(t)
  BY <1>1, <1>2, <1>4, <1>6, <1>7, <1>8 DEF HeaderOK
<1> QED
  BY <1>9 DEF t

\* A column replaced by one of another name, type or default.
LEMMA ReplaceColumnOK ==
    ASSUME NEW h, HeaderOK(h), NEW i \in 1 .. h.n, NEW col \in Columns,
           \A j \in 1 .. h.n : j # i => h.cols[j].name # col.name
    PROVE  HeaderOK([h EXCEPT !.cols[i] = col])
<1>1. /\ h = [cols |-> h.cols, n |-> h.n, comps |-> h.comps, checks |-> h.checks]
      /\ h.cols \in Seq(Columns) /\ Len(h.cols) \in Nat /\ DOMAIN h.cols = 1 .. Len(h.cols)
      /\ h.n \in Nat /\ h.n <= Len(h.cols)
      /\ h.comps \in Seq(Seq(Nat)) /\ h.checks \in Seq(Checks)
  BY HeaderFacts
<1> DEFINE cs == [h.cols EXCEPT ![i] = col]
           t == [h EXCEPT !.cols[i] = col]
<1>2. t = [cols |-> cs, n |-> h.n, comps |-> h.comps, checks |-> h.checks]
  <2>1. h = [cols |-> h.cols, n |-> h.n, comps |-> h.comps, checks |-> h.checks]
    BY <1>1
  <2> QED BY <2>1
<1>3. i \in 1 .. Len(h.cols) /\ \A j \in 1 .. h.n : j \in 1 .. Len(h.cols)
  BY <1>1
<1>4. cs \in Seq(Columns) /\ Len(cs) = Len(h.cols) /\ DOMAIN cs = DOMAIN h.cols
      /\ \A j \in 1 .. h.n : cs[j] = IF j = i THEN col ELSE h.cols[j]
  BY <1>1, <1>3, ExceptSeq
<1> HIDE DEF cs, t
<1>5. \A j, k \in 1 .. h.n : cs[j].name = cs[k].name => j = k
  BY <1>4 DEF HeaderOK
<1>6. \A d \in DOMAIN h.comps : \A k \in DOMAIN h.comps[d] : h.comps[d][k] \in DOMAIN cs
  BY <1>4 DEF HeaderOK
<1>7. HeaderOK(t)
  BY <1>1, <1>2, <1>4, <1>5, <1>6 DEF HeaderOK
<1> QED
  BY <1>7 DEF t

\* The column a call of SetColumn leaves.
ColumnWith(col, field, x) ==
    IF field = "nullable" THEN [col EXCEPT !.nullable = x]
    ELSE IF field = "unique" THEN [col EXCEPT !.unique = x]
    ELSE IF field = "indexed" THEN [col EXCEPT !.indexed = x]
    ELSE IF field = "type" THEN [col EXCEPT !.type = x]
    ELSE IF field = "name" THEN [col EXCEPT !.name = x]
    ELSE [col EXCEPT !.default = x]

\* The values each field may be set to.
Settable(h, field, x) ==
    \/ field \in {"nullable", "unique", "indexed"} /\ x \in BOOLEAN
    \/ field = "type" /\ x \in Types
    \/ field = "name" /\ x \in Names /\ ~kdb_table_has_column(h, x)
    \/ field = "default" /\ x \in Values \cup {None}

\* An altered column keeps the header well-formed.
LEMMA SetColumnFacts ==
    ASSUME NEW h, HeaderOK(h), NEW c, kdb_table_has_column(h, c), NEW field, NEW x, Settable(h, field, x),
           NEW i, i = kdb_table_get_column(h, c)
    PROVE  /\ HeaderOK(SetColumn(h, c, field, x))
           /\ SetColumn(h, c, field, x) = [h EXCEPT !.cols = [h.cols EXCEPT ![i] = ColumnWith(h.cols[i], field, x)]]
<1>1. i \in 1 .. h.n /\ i \in DOMAIN h.cols /\ h.cols[i].name = c /\ h.cols[i] \in Columns
  BY HeaderFacts, GetColumnFacts
<1>2. \A j \in 1 .. h.n : j # i => h.cols[j].name # h.cols[i].name
  BY <1>1 DEF HeaderOK
<1> DEFINE col == ColumnWith(h.cols[i], field, x)
<1>3. SetColumn(h, c, field, x) = [h EXCEPT !.cols[i] = col]
  BY DEF SetColumn, ColumnWith
<1>4. col \in Columns
  BY <1>1 DEF Columns, ColumnWith, Settable
<1>5. \A j \in 1 .. h.n : j # i => h.cols[j].name # col.name
  <2>1. CASE field = "name"
    <3>1. col.name = x
      BY <1>1, <2>1 DEF Columns, ColumnWith
    <3>2. ~kdb_table_has_column(h, x)
      BY <2>1 DEF Settable
    <3> QED BY <3>1, <3>2, GetColumnFacts, HeaderFacts
  <2>2. CASE field # "name"
    <3>1. col.name = h.cols[i].name
      BY <1>1, <2>2 DEF Columns, ColumnWith, Settable
    <3> QED BY <1>2, <3>1
  <2> QED BY <2>1, <2>2
<1> HIDE DEF col
<1>6. HeaderOK([h EXCEPT !.cols[i] = col])
  BY <1>1, <1>4, <1>5, ReplaceColumnOK
<1>7. [h EXCEPT !.cols[i] = col] = [h EXCEPT !.cols = [h.cols EXCEPT ![i] = col]]
  <2>1. h = [cols |-> h.cols, n |-> h.n, comps |-> h.comps, checks |-> h.checks]
    BY HeaderFacts
  <2> QED BY <2>1
<1> QED
  BY <1>3, <1>6, <1>7 DEF col

\* The inferred schema only adds columns, all nullable and without constraints.
LEMMA InferFacts ==
    ASSUME NEW h, HeaderOK(h), NEW r \in Rows, NEW t, t = kdb_table_infer_schema(h, r)
    PROVE  /\ HeaderOK(t)
           /\ t.checks = h.checks
           /\ h.n = 0 => \A i \in 1 .. t.n : t.cols[i].nullable /\ ~t.cols[i].unique
<1>0. ColNames \in Seq(Names) /\ Len(ColNames) \in Nat /\ \A k \in 1 .. Len(ColNames) : ColNames[k] \in Names
  BY ArgumentAssumption
<1>1. PICK f : /\ f = [k \in 0 .. Len(ColNames) |-> IF k = 0 THEN h ELSE Inferred(f[k - 1], r, k)]
               /\ t = f[Len(ColNames)]
  BY <1>0, InferUnfolds
<1> DEFINE Good(u) == /\ HeaderOK(u)
                      /\ u.checks = h.checks
                      /\ h.n = 0 => \A i \in 1 .. u.n : u.cols[i].nullable /\ ~u.cols[i].unique
           G == {n \in Nat : Good(f[n])}
<1>2. 0 \in G
  <2>1. f[0] = h
    BY <1>0, <1>1
  <2>2. Good(h)
    OBVIOUS
  <2> HIDE DEF Good
  <2> QED BY <2>1, <2>2
<1>3. ASSUME NEW n \in 0 .. Len(ColNames) - 1, n \in G PROVE n + 1 \in G
  <2>1. n + 1 \in 0 .. Len(ColNames) /\ n + 1 # 0 /\ (n + 1) - 1 = n /\ n + 1 \in 1 .. Len(ColNames)
    BY <1>0
  <2>2. f[n + 1] = Inferred(f[n], r, n + 1)
    BY <1>1, <2>1
  <2>3. Good(f[n])
    BY <1>3
  <2> DEFINE u == f[n]
             c == ColNames[n + 1]
             col == Column(c, r[c].t, TRUE, FALSE, FALSE)
  <2>4. CASE c \in DOMAIN r /\ ~kdb_table_has_column(u, c)
    <3>1. f[n + 1] = WithColumn(u, col)
      BY <2>2, <2>4 DEF Inferred
    <3>2. r[c] \in Values
      BY <2>4, RowFacts
    <3>3. col \in Columns /\ col.name = c /\ col.nullable = TRUE /\ col.unique = FALSE
      BY <1>0, <2>1, <3>2, TableAssumption DEF Columns, Column
    <3> HIDE DEF c, col, u
    <3>4. HeaderOK(u) /\ u.checks = h.checks /\ u.n \in Nat
      BY <2>3, HeaderFacts DEF u
    <3> DEFINE w == WithColumn(u, col)
    <3>5. /\ HeaderOK(w) /\ w.n = u.n + 1 /\ w.checks = u.checks
          /\ \A i \in 1 .. u.n : w.cols[i] = u.cols[i]
          /\ w.cols[u.n + 1] = col
      BY <2>4, <3>3, <3>4, WithColumnFacts
    <3> HIDE DEF w
    <3>6. ASSUME h.n = 0, NEW i \in 1 .. w.n PROVE w.cols[i].nullable /\ ~w.cols[i].unique
      <4>1. i \in 1 .. u.n \/ i = u.n + 1
        BY <3>4, <3>5
      <4>2. \A j \in 1 .. u.n : u.cols[j].nullable /\ ~u.cols[j].unique
        BY <2>3, <3>6 DEF u
      <4> QED BY <3>3, <3>5, <4>1, <4>2
    <3>7. Good(w)
      BY <3>4, <3>5, <3>6
    <3> HIDE DEF Good
    <3> QED BY <3>1, <3>7 DEF w
  <2>5. CASE ~(c \in DOMAIN r /\ ~kdb_table_has_column(u, c))
    <3>1. f[n + 1] = u
      BY <2>2, <2>5 DEF Inferred
    <3> HIDE DEF Good
    <3> QED BY <2>3, <3>1
  <2> QED BY <2>4, <2>5
<1>4. \A n \in 0 .. Len(ColNames) : n \in G
  <2> HIDE DEF G
  <2> QED BY <1>0, <1>2, <1>3, InductionUpTo
<1>5. Good(f[Len(ColNames)])
  <2> HIDE DEF Good
  <2> QED BY <1>0, <1>4
<1> QED
  BY <1>1, <1>5

\* An updated row is a row.
LEMMA PatchedRow ==
    ASSUME NEW r \in Rows, NEW p \in Rows
    PROVE  Patched(r, p) \in Rows
<1> DEFINE x == Patched(r, p)
<1>1. x = [c \in DOMAIN r \cup DOMAIN p |-> IF c \in DOMAIN p THEN p[c] ELSE r[c]]
  BY DEF Patched
<1>2. /\ DOMAIN r \subseteq Names /\ DOMAIN p \subseteq Names
      /\ \A c \in DOMAIN r : r[c] \in Values
      /\ \A c \in DOMAIN p : p[c] \in Values
  BY RowFacts
<1> QED
  BY <1>1, <1>2, RowFacts

\* A row with its defaults is a row.
LEMMA DefaultsRow ==
    ASSUME NEW h, HeaderOK(h), NEW r \in Rows
    PROVE  kdb_table_apply_defaults(h, r) \in Rows
<1> DEFINE missing == {i \in 1 .. h.n : h.cols[i].default # None /\ h.cols[i].name \notin DOMAIN r}
           new == {h.cols[i].name : i \in missing}
           x == kdb_table_apply_defaults(h, r)
<1>1. x = [c \in DOMAIN r \cup new |-> IF c \in DOMAIN r THEN r[c] ELSE h.cols[kdb_table_get_column(h, c)].default]
  BY DEF kdb_table_apply_defaults
<1>2. DOMAIN r \subseteq Names /\ \A c \in DOMAIN r : r[c] \in Values
  BY RowFacts
<1>3. h.n \in Nat /\ h.n <= Len(h.cols) /\ Len(h.cols) \in Nat /\ \A i \in 1 .. Len(h.cols) : h.cols[i] \in Columns
  BY HeaderFacts
<1>4. ASSUME NEW c \in new PROVE c \in Names /\ h.cols[kdb_table_get_column(h, c)].default \in Values
  <2>1. PICK i \in missing : c = h.cols[i].name
    OBVIOUS
  <2>2. i \in 1 .. h.n /\ i \in 1 .. Len(h.cols) /\ h.cols[i].default # None
    BY <1>3
  <2>3. h.cols[i].name \in Names /\ h.cols[i].default \in Values
    BY <1>3, <2>2 DEF Columns
  <2>4. kdb_table_get_column(h, c) \in 1 .. h.n /\ h.cols[kdb_table_get_column(h, c)].name = c
    BY <1>3, <2>1, <2>2, GetColumnFacts
  <2>5. kdb_table_get_column(h, c) = i
    BY <2>1, <2>2, <2>4 DEF HeaderOK
  <2> QED BY <2>1, <2>3, <2>5
<1> HIDE DEF new, missing, x
<1>5. DOMAIN x \subseteq Names /\ \A c \in DOMAIN x : x[c] \in Values
  BY <1>1, <1>2, <1>4
<1>6. x = [c \in DOMAIN x |-> x[c]]
  BY <1>1
<1>7. x \in Rows
  BY <1>5, <1>6, RowFacts
<1> QED
  BY <1>7 DEF x

\* A scan answers with the rows that match, each once.
LEMMA ScanFacts ==
    ASSUME NEW rs \in Seq(Rows), NEW q, NEW a, a = kdb_query_scan(rs, q)
    PROVE  /\ a \in Seq(1 .. Len(rs))
           /\ \A k \in DOMAIN a : a[k] \in DOMAIN rs /\ EqRow(q, rs[a[k]])
           /\ \A i \in DOMAIN rs : EqRow(q, rs[i]) => \E k \in DOMAIN a : a[k] = i
           /\ \A j, k \in DOMAIN a : j < k => a[j] < a[k]
<1> DEFINE S == {i \in DOMAIN rs : EqRow(q, rs[i])}
<1>1. Len(rs) \in Nat /\ DOMAIN rs = 1 .. Len(rs)
  OBVIOUS
<1>2. a = Ascending(S, Len(rs))
  BY DEF kdb_query_scan
<1>3. /\ a \in Seq(1 .. Len(rs))
      /\ \A k \in DOMAIN a : a[k] \in S /\ a[k] \in 1 .. Len(rs)
      /\ \A x \in 1 .. Len(rs) : x \in S => \E k \in DOMAIN a : a[k] = x
      /\ \A j, k \in DOMAIN a : j < k => a[j] < a[k]
  <2> HIDE DEF S
  <2> QED BY <1>1, <1>2, AscendingFacts
<1> QED
  BY <1>1, <1>3

\* What an insert checks is what Clean asks of the new row.
LEMMA InsertedRowFits ==
    ASSUME NEW h, HeaderOK(h), NEW rs \in Seq(Rows), NEW r \in Rows,
           kdb_table_check_insert_constraints(h, rs, r)
    PROVE  /\ ~RowBreaks(h, r)
           /\ \A i \in DOMAIN rs : ~PairBreaks(h, r, rs[i]) /\ ~PairBreaks(h, rs[i], r)
<1>1. ~RowBreaks(h, r)
  BY DEF kdb_table_check_insert_constraints, RowBreaks
<1>2. ASSUME NEW i \in DOMAIN rs, NEW n \in 1 .. h.n, h.cols[n].unique,
             ~IsNull(r, h.cols[n].name), ~IsNull(rs[i], h.cols[n].name)
      PROVE  /\ ~Matches(r[h.cols[n].name], "eq", rs[i][h.cols[n].name])
             /\ ~Matches(rs[i][h.cols[n].name], "eq", r[h.cols[n].name])
  <2> DEFINE c == h.cols[n].name
             q == [x \in {c} |-> r[x]]
  <2>1. kdb_query_scan(rs, q) = << >>
    BY <1>2 DEF kdb_table_check_insert_constraints
  <2>2. ~EqRow(q, rs[i])
    <3> HIDE DEF q
    <3>1. DOMAIN << >> = {}
      OBVIOUS
    <3> QED BY <2>1, <3>1, ScanFacts
  <2>3. c \in DOMAIN r /\ c \in DOMAIN rs[i]
    BY <1>2 DEF IsNull
  <2>4. rs[i] \in Rows
    OBVIOUS
  <2>5. r[c] \in Values /\ rs[i][c] \in Values
    BY <2>3, <2>4, RowFacts
  <2>6. ~Matches(rs[i][c], "eq", r[c])
    BY <2>2, <2>3 DEF EqRow
  <2> QED BY <2>5, <2>6, MatchesAssumption
<1> QED
  BY <1>1, <1>2 DEF PairBreaks

\* A row that passed the insert's checks keeps the table clean.
LEMMA AppendKeepsClean ==
    ASSUME NEW h, HeaderOK(h), NEW rs \in Seq(Rows), NEW r \in Rows,
           kdb_table_check_insert_constraints(h, rs, r)
    PROVE  /\ Clean(h, rs) => Clean(h, Append(rs, r))
           /\ Breaking(h, Append(rs, r)) \subseteq Breaking(h, rs)
<1> DEFINE rt == Append(rs, r)
<1>1. ~RowBreaks(h, r) /\ \A i \in DOMAIN rs : ~PairBreaks(h, r, rs[i]) /\ ~PairBreaks(h, rs[i], r)
  BY InsertedRowFits
<1>2. /\ DOMAIN rs = 1 .. Len(rs) /\ Len(rs) \in Nat
      /\ rt \in Seq(Rows) /\ Len(rt) = Len(rs) + 1
      /\ \A i \in 1 .. Len(rs) : rt[i] = rs[i]
      /\ rt[Len(rs) + 1] = r
  BY AppendProperties
<1> HIDE DEF rt
<1>3. \A i \in DOMAIN rt : (i \in DOMAIN rs /\ rt[i] = rs[i]) \/ (i = Len(rs) + 1 /\ rt[i] = r)
  BY <1>2
<1>4. Breaking(h, rt) \subseteq Breaking(h, rs)
  BY <1>1, <1>3 DEF Breaking, ElemsOf
<1>5. ASSUME Clean(h, rs) PROVE Clean(h, rt)
  <2>1. Breaking(h, rs) = {} /\ \A i, j \in DOMAIN rs : i # j => ~PairBreaks(h, rs[i], rs[j])
    BY <1>5 DEF Clean
  <2>2. \A i, j \in DOMAIN rt : i # j => ~PairBreaks(h, rt[i], rt[j])
    BY <1>1, <1>3, <2>1
  <2> QED BY <1>4, <2>1, <2>2 DEF Clean
<1> QED
  BY <1>4, <1>5 DEF rt

\* What the records of an insert, some of them or all, do to rows and indexes.
Enlarged(h, rs, ixs, rt, ixt) ==
    /\ rt \in Seq(Rows) /\ Len(rs) <= Len(rt)
    /\ \A i \in 1 .. Len(rs) : rt[i] = rs[i]
    /\ Clean(h, rs) => Clean(h, rt)
    /\ Breaking(h, rt) \subseteq Breaking(h, rs)
    /\ ixt = [i \in DOMAIN ixs |-> ixt[i]]
    /\ \A i \in DOMAIN ixs : IndexOK(ixt[i])
    /\ (\A i \in DOMAIN ixs : ixs[i] = Built(ixs[i].cols, rs)) =>
          \A i \in DOMAIN ixs : ixt[i] = Built(ixt[i].cols, rt)
Grown(h, s, e) ==
    /\ e = [rows |-> e.rows, idx |-> e.idx, ok |-> e.ok] /\ e.ok \in BOOLEAN
    /\ Enlarged(h, s.rows, s.idx, e.rows, e.idx)

\* Insertion keeps an index an index of the same columns.
LEMMA InsertIntoIndex ==
    ASSUME NEW ix, IndexOK(ix), NEW r, NEW o
    PROVE  IndexOK(kdb_index_insert(ix, r, o)) /\ kdb_index_insert(ix, r, o).cols = ix.cols
<1>1. ix = [cols |-> ix.cols, nodes |-> ix.nodes] /\ ix.cols \in Seq(Names)
  BY DEF IndexOK
<1>2. kdb_index_insert(ix, r, o) =
         [cols |-> ix.cols, nodes |-> IF ElemsOf(ix.cols) \subseteq DOMAIN r
                                      THEN <<[h |-> Key(kdb_index_new(ix.cols), r), off |-> o]>> \o ix.nodes ELSE ix.nodes]
  BY <1>1, InsertShape, Zenon
<1> DEFINE ns == IF ElemsOf(ix.cols) \subseteq DOMAIN r
                 THEN <<[h |-> Key(kdb_index_new(ix.cols), r), off |-> o]>> \o ix.nodes ELSE ix.nodes
<1> HIDE DEF ns
<1>3. kdb_index_insert(ix, r, o) = [cols |-> ix.cols, nodes |-> ns]
  BY <1>2 DEF ns
<1> QED
  BY <1>1, <1>3 DEF IndexOK

\* One more row of a batch adds to the table and its indexes alike.
LEMMA AppendRecordGrows ==
    ASSUME NEW h, HeaderOK(h), NEW s, NEW v, Grown(h, s, v), Len(s.rows) \in Nat, NEW r \in Rows
    PROVE  Grown(h, s, AppendRecord(h, v, r))
<1> DEFINE full == kdb_table_apply_defaults(h, r)
           o == Offsets(v.rows)[Len(v.rows) + 1]
           w == AppendRecord(h, v, r)
           fits == v.ok /\ kdb_table_check_insert_constraints(h, v.rows, full)
<1>1. full \in Rows
  BY DefaultsRow
<1>2. w = IF fits
          THEN [rows |-> Append(v.rows, full), idx |-> [i \in DOMAIN v.idx |-> kdb_index_insert(v.idx[i], full, o)],
                ok |-> TRUE]
          ELSE [v EXCEPT !.ok = FALSE]
  BY DEF AppendRecord
<1> HIDE DEF full
<1>3. CASE ~fits
  <2>1. w = [rows |-> v.rows, idx |-> v.idx, ok |-> FALSE]
    BY <1>2, <1>3 DEF Grown
  <2> HIDE DEF w
  <2>2. w.rows = v.rows /\ w.idx = v.idx /\ w.ok = FALSE
    BY <2>1
  <2>3. w = [rows |-> w.rows, idx |-> w.idx, ok |-> w.ok]
    BY <2>1, <2>2
  <2>4. Enlarged(h, s.rows, s.idx, v.rows, v.idx)
    BY DEF Grown
  <2>5. w.ok \in BOOLEAN
    BY <2>2
  <2>6. Enlarged(h, s.rows, s.idx, w.rows, w.idx)
    BY <2>2, <2>4
  <2> QED BY <2>3, <2>5, <2>6 DEF Grown, w
<1>4. CASE fits
  <2> DEFINE rt == Append(v.rows, full)
             it == [i \in DOMAIN v.idx |-> kdb_index_insert(v.idx[i], full, o)]
  <2>1. w = [rows |-> rt, idx |-> it, ok |-> TRUE]
    BY <1>2, <1>4
  <2>2. v.rows \in Seq(Rows) /\ DOMAIN v.idx = DOMAIN s.idx
    BY DEF Grown, Enlarged
  <2>3. /\ rt \in Seq(Rows) /\ Len(rt) = Len(v.rows) + 1 /\ Len(v.rows) \in Nat
        /\ \A i \in 1 .. Len(v.rows) : rt[i] = v.rows[i]
    BY <1>1, <2>2, AppendProperties
  <2>4. /\ Clean(h, v.rows) => Clean(h, rt)
        /\ Breaking(h, rt) \subseteq Breaking(h, v.rows)
    BY <1>1, <1>4, <2>2, AppendKeepsClean
  <2>5. ASSUME NEW i \in DOMAIN s.idx PROVE IndexOK(it[i]) /\ it[i].cols = v.idx[i].cols
    <3> HIDE DEF o
    <3>1. IndexOK(v.idx[i])
      BY DEF Grown, Enlarged
    <3>2. it[i] = kdb_index_insert(v.idx[i], full, o)
      BY <2>2
    <3> QED BY <3>1, <3>2, InsertIntoIndex
  <2>6. \A i \in DOMAIN s.idx : v.idx[i] = Built(v.idx[i].cols, v.rows) => it[i] = Built(v.idx[i].cols, rt)
    BY <1>1, <2>2, BuiltAppend
  <2>7. it = [i \in DOMAIN s.idx |-> it[i]]
    BY <2>2
  <2> HIDE DEF rt, it, w
  <2>8. Len(s.rows) <= Len(rt) /\ \A i \in 1 .. Len(s.rows) : rt[i] = s.rows[i]
    BY <2>3 DEF Grown, Enlarged
  <2>9. w.rows = rt /\ w.idx = it /\ w.ok = TRUE
    BY <2>1
  <2>10. w = [rows |-> w.rows, idx |-> w.idx, ok |-> w.ok]
    BY <2>1, <2>9
  <2>11. (\A i \in DOMAIN s.idx : s.idx[i] = Built(s.idx[i].cols, s.rows)) =>
            \A i \in DOMAIN s.idx : it[i] = Built(it[i].cols, rt)
    BY <2>5, <2>6 DEF Grown, Enlarged
  <2>12. Enlarged(h, s.rows, s.idx, rt, it)
    <3>1. (Clean(h, s.rows) => Clean(h, rt)) /\ Breaking(h, rt) \subseteq Breaking(h, s.rows)
      BY <2>4 DEF Grown, Enlarged
    <3> QED BY <2>3, <2>5, <2>7, <2>8, <2>11, <3>1 DEF Enlarged
  <2>13. w.ok \in BOOLEAN
    BY <2>9
  <2>14. Enlarged(h, s.rows, s.idx, w.rows, w.idx)
    BY <2>9, <2>12
  <2> QED BY <2>10, <2>13, <2>14 DEF Grown, w
<1> QED
  BY <1>3, <1>4

\* A whole batch of rows adds to the table and its indexes alike.
LEMMA AppendFacts ==
    ASSUME NEW h, HeaderOK(h), NEW rs0 \in Seq(Rows), NEW ixs, ixs = [i \in DOMAIN ixs |-> ixs[i]],
           \A i \in DOMAIN ixs : IndexOK(ixs[i]), NEW rs \in Seq(Rows),
           NEW s, s = [rows |-> rs0, idx |-> ixs, ok |-> TRUE], NEW e, e = AppendRecords(h, s, rs)
    PROVE  /\ Grown(h, s, e)
           /\ Len(rs) = 1 /\ ~e.ok => e.rows = rs0
<1>0. Len(rs) \in Nat /\ \A k \in 1 .. Len(rs) : rs[k] \in Rows
  OBVIOUS
<1>1. PICK f : /\ f = [k \in 0 .. Len(rs) |-> IF k = 0 THEN s ELSE AppendRecord(h, f[k - 1], rs[k])]
               /\ e = f[Len(rs)]
  BY <1>0, AppendUnfolds
<1> DEFINE G == {n \in Nat : Grown(h, s, f[n])}
<1>2. f[0] = s
  BY <1>0, <1>1
<1>3. Grown(h, s, s)
  <2>1. s.rows = rs0 /\ s.idx = ixs /\ s.ok = TRUE
    OBVIOUS
  <2>2. Enlarged(h, rs0, ixs, rs0, ixs)
    BY DEF Enlarged
  <2> QED BY <2>1, <2>2 DEF Grown
<1>4. 0 \in G
  BY <1>2, <1>3
<1>5. ASSUME NEW n \in 0 .. Len(rs) - 1, n \in G PROVE n + 1 \in G
  <2>1. n + 1 \in 0 .. Len(rs) /\ n + 1 # 0 /\ (n + 1) - 1 = n /\ n + 1 \in 1 .. Len(rs)
    BY <1>0
  <2>2. f[n + 1] = AppendRecord(h, f[n], rs[n + 1])
    BY <1>1, <2>1
  <2>3. rs[n + 1] \in Rows /\ Len(s.rows) \in Nat
    BY <1>0, <2>1
  <2>4. Grown(h, s, f[n])
    BY <1>5
  <2>5. Grown(h, s, f[n + 1])
    BY <2>2, <2>3, <2>4, AppendRecordGrows
  <2> QED BY <2>5
<1>6. \A n \in 0 .. Len(rs) : n \in G
  <2> HIDE DEF G
  <2> QED BY <1>0, <1>4, <1>5, InductionUpTo
<1>7. Grown(h, s, e)
  BY <1>0, <1>1, <1>6
<1>8. ASSUME Len(rs) = 1, ~e.ok PROVE e.rows = rs0
  <2>1. f[1] = AppendRecord(h, f[0], rs[1])
    <3>1. 1 \in 0 .. Len(rs) /\ 1 # 0 /\ 1 - 1 = 0
      BY <1>8
    <3> QED BY <1>1, <3>1
  <2>2. e = AppendRecord(h, s, rs[1])
    BY <1>1, <1>2, <1>8, <2>1
  <2> DEFINE full == kdb_table_apply_defaults(h, rs[1])
             fits == s.ok /\ kdb_table_check_insert_constraints(h, s.rows, full)
  <2>3. e.ok = TRUE \/ e = [s EXCEPT !.ok = FALSE]
    <3>1. CASE fits
      <4>1. e = [rows |-> Append(s.rows, full),
                 idx |-> [i \in DOMAIN s.idx |-> kdb_index_insert(s.idx[i], full, Offsets(s.rows)[Len(s.rows) + 1])],
                 ok |-> TRUE]
        BY <2>2, <3>1, Zenon DEF AppendRecord
      <4> QED BY <4>1
    <3>2. CASE ~fits
      BY <2>2, <3>2, Zenon DEF AppendRecord
    <3> QED BY <3>1, <3>2
  <2> QED BY <1>8, <2>3
<1> QED
  BY <1>7, <1>8

---------------------------------------------------------------------------
\* Updates and deletes keep what a header asks of its rows.

\* Rows that passed the update's checks keep the table clean.
LEMMA UpdateKeepsClean ==
    ASSUME NEW h, NEW rs \in Seq(Rows), NEW q, NEW p \in Rows,
           kdb_table_check_update_constraints(h, rs, q, p),
           NEW rt, rt = Updated(rs, q, p)
    PROVE  /\ rt \in Seq(Rows)
           /\ Clean(h, rs) => Clean(h, rt)
           /\ Breaking(h, rt) \subseteq Breaking(h, rs)
<1>1. DOMAIN rs = 1 .. Len(rs) /\ Len(rs) \in Nat /\ \A i \in DOMAIN rs : rs[i] \in Rows
  OBVIOUS
<1>2. \A i \in DOMAIN rs : rt[i] \in Rows /\ (~EqRow(q, rs[i]) => rt[i] = rs[i])
  BY <1>1, PatchedRow DEF Updated
<1>3. rt \in Seq(Rows) /\ DOMAIN rt = DOMAIN rs
  <2>1. rt = [i \in 1 .. Len(rs) |-> rt[i]]
    BY <1>1 DEF Updated
  <2> QED BY <1>1, <1>2, <2>1
<1>4. ASSUME NEW i \in DOMAIN rs, EqRow(q, rs[i])
      PROVE  /\ ~RowBreaks(h, rt[i])
             /\ \A n \in 1 .. h.n : \A j \in DOMAIN rs \ {i} :
                  LET c == h.cols[n] IN
                  c.unique /\ ~IsNull(rt[i], c.name) /\ ~IsNull(rt[j], c.name) =>
                    ~Matches(rt[i][c.name], "eq", rt[j][c.name])
  BY <1>4 DEF kdb_table_check_update_constraints, RowBreaks
<1>5. Breaking(h, rt) \subseteq Breaking(h, rs)
  BY <1>2, <1>3, <1>4 DEF Breaking, ElemsOf
<1>6. ASSUME Clean(h, rs), NEW i \in DOMAIN rt, NEW j \in DOMAIN rt, i # j PROVE ~PairBreaks(h, rt[i], rt[j])
  <2>1. CASE EqRow(q, rs[i])
    BY <1>3, <1>4, <1>6, <2>1 DEF PairBreaks
  <2>2. CASE ~EqRow(q, rs[i]) /\ EqRow(q, rs[j])
    <3> SUFFICES ASSUME NEW n \in 1 .. h.n, h.cols[n].unique, ~IsNull(rt[i], h.cols[n].name),
                        ~IsNull(rt[j], h.cols[n].name), Matches(rt[i][h.cols[n].name], "eq", rt[j][h.cols[n].name])
                 PROVE  FALSE
      BY DEF PairBreaks
    <3> DEFINE c == h.cols[n].name
    <3>1. c \in DOMAIN rt[i] /\ c \in DOMAIN rt[j]
      BY DEF IsNull
    <3>2. rt[i][c] \in Values /\ rt[j][c] \in Values
      BY <1>2, <1>3, <3>1, RowFacts
    <3>3. ~Matches(rt[j][c], "eq", rt[i][c])
      BY <1>3, <1>4, <1>6, <2>2
    <3> QED BY <3>2, <3>3, MatchesAssumption
  <2>3. CASE ~EqRow(q, rs[i]) /\ ~EqRow(q, rs[j])
    <3>1. rt[i] = rs[i] /\ rt[j] = rs[j]
      BY <1>2, <1>3, <2>3
    <3> QED BY <1>3, <1>6, <3>1 DEF Clean
  <2> QED BY <2>1, <2>2, <2>3
<1>7. Clean(h, rs) => Clean(h, rt)
  BY <1>5, <1>6 DEF Clean
<1> QED
  BY <1>3, <1>5, <1>7

\* Fewer rows break no constraint.
LEMMA SelectKeepsClean ==
    ASSUME NEW h, NEW rs \in Seq(Rows), NEW S
    PROVE  /\ Select(rs, S) \in Seq(Rows)
           /\ Clean(h, rs) => Clean(h, Select(rs, S))
           /\ Breaking(h, Select(rs, S)) \subseteq Breaking(h, rs)
<1> DEFINE rt == Select(rs, S)
           a == Ascending(S, Len(rs))
<1> HIDE DEF rt, a
<1>1. /\ rt = [k \in DOMAIN a |-> rs[a[k]]]
      /\ rt \in Seq(Rows)
      /\ \A k \in DOMAIN a : a[k] \in S /\ a[k] \in DOMAIN rs
      /\ \A j, k \in DOMAIN a : j # k => a[j] # a[k]
  BY SelectFacts DEF rt, a
<1>2. DOMAIN rt = DOMAIN a /\ \A k \in DOMAIN a : rt[k] = rs[a[k]]
  BY <1>1
<1>3. Breaking(h, rt) \subseteq Breaking(h, rs)
  BY <1>1, <1>2 DEF Breaking, ElemsOf
<1>4. Clean(h, rs) => Clean(h, rt)
  BY <1>1, <1>2, <1>3 DEF Clean
<1> QED
  BY <1>1, <1>3, <1>4 DEF rt

\* Rows that lose the last one break no constraint they kept.
LEMMA LastLostKeepsClean ==
    ASSUME NEW h, NEW rs \in Seq(Rows), NEW rt, rt = Without(rs, Len(rs))
    PROVE  /\ rt \in Seq(Rows)
           /\ Clean(h, rs) => Clean(h, rt)
           /\ Breaking(h, rt) \subseteq Breaking(h, rs)
<1>1. DOMAIN rs = 1 .. Len(rs) /\ Len(rs) \in Nat
  OBVIOUS
<1>2. DOMAIN rt = 1 .. Len(rs) - 1 /\ \A k \in DOMAIN rt : k \in DOMAIN rs /\ rt[k] = rs[k]
  BY <1>1 DEF Without
<1>3. Breaking(h, rt) \subseteq Breaking(h, rs)
  BY <1>2 DEF Breaking, ElemsOf
<1>4. Clean(h, rs) => Clean(h, rt)
  BY <1>2, <1>3 DEF Clean
<1>5. rt \in Seq(Rows)
  <2>1. CASE Len(rs) = 0
    <3>1. DOMAIN rt = {} /\ rt = [k \in {} |-> rt[k]]
      BY <1>1, <1>2, <2>1 DEF Without
    <3>2. rt = << >>
      BY <3>1
    <3> QED BY <3>2
  <2>2. CASE Len(rs) # 0
    BY <1>1, <2>2, WithoutFacts
  <2> QED BY <2>1, <2>2
<1> QED
  BY <1>3, <1>4, <1>5

---------------------------------------------------------------------------
\* Indexes stay a sequence of indexes.

\* A function on 1 .. n is a sequence.
LEMMA SeqByDomain ==
    ASSUME NEW n \in Nat, NEW s, s = [i \in 1 .. n |-> s[i]]
    PROVE  s \in Seq(ElemsOf(s)) /\ Len(s) = n /\ DOMAIN s = 1 .. n
<1>1. DOMAIN s = 1 .. n
  OBVIOUS
<1>2. \A i \in 1 .. n : s[i] \in ElemsOf(s)
  BY <1>1 DEF ElemsOf
<1> QED
  BY <1>1, <1>2

\* A function on 1 .. n to indexes is a sequence of indexes.
LEMMA IndexesByDomain ==
    ASSUME NEW n \in Nat, NEW s, s = [i \in 1 .. n |-> s[i]], \A i \in 1 .. n : IndexOK(s[i])
    PROVE  IndexesOK(s)
  BY SeqByDomain DEF IndexesOK

\* What a sequence of indexes is made of.
LEMMA IndexesShape ==
    ASSUME NEW s, IndexesOK(s)
    PROVE  /\ Len(s) \in Nat /\ DOMAIN s = 1 .. Len(s) /\ s = [i \in 1 .. Len(s) |-> s[i]]
           /\ \A i \in 1 .. Len(s) : IndexOK(s[i])
  BY DEF IndexesOK

\* A built index is an index of the columns asked for.
LEMMA BuiltOK ==
    ASSUME NEW cs \in Seq(Names), NEW rs \in Seq(Rows)
    PROVE  IndexOK(Built(cs, rs)) /\ Built(cs, rs).cols = cs
<1>1. PICK ns \in Seq(Nodes(cs, rs)) : Built(cs, rs) = [cols |-> cs, nodes |-> ns]
  BY BuiltFacts
<1> QED
  BY <1>1 DEF IndexOK

\* kdb__rebuild_all_indexes keeps every index's columns.
LEMMA RebuiltOK ==
    ASSUME NEW ixs, IndexesOK(ixs), NEW rs \in Seq(Rows)
    PROVE  IndexesOK(Rebuilt(ixs, rs))
<1>1. \A i \in 1 .. Len(ixs) : ixs[i].cols \in Seq(Names)
  BY IndexesShape DEF IndexOK
<1>2. Rebuilt(ixs, rs) = [i \in 1 .. Len(ixs) |-> Built(ixs[i].cols, rs)]
  BY IndexesShape DEF Rebuilt, kdb_index_rebuild
<1>3. \A i \in 1 .. Len(ixs) : IndexOK(Rebuilt(ixs, rs)[i])
  BY <1>1, <1>2, BuiltOK
<1>4. Rebuilt(ixs, rs) = [i \in 1 .. Len(ixs) |-> Rebuilt(ixs, rs)[i]]
  BY <1>2
<1> QED
  BY <1>3, <1>4, IndexesShape, IndexesByDomain

\* One more index.
LEMMA AppendIndexOK ==
    ASSUME NEW ixs, IndexesOK(ixs), NEW x, IndexOK(x)
    PROVE  /\ IndexesOK(Append(ixs, x))
           /\ DOMAIN Append(ixs, x) = 1 .. Len(ixs) + 1
           /\ \A i \in 1 .. Len(ixs) : Append(ixs, x)[i] = ixs[i]
           /\ Append(ixs, x)[Len(ixs) + 1] = x
<1> DEFINE T == ElemsOf(ixs) \cup {x}
           t == Append(ixs, x)
<1>1. ixs \in Seq(T) /\ x \in T /\ Len(ixs) \in Nat
  BY DEF IndexesOK
<1>2. /\ t \in Seq(T) /\ Len(t) = Len(ixs) + 1
      /\ \A i \in 1 .. Len(ixs) : t[i] = ixs[i]
      /\ t[Len(ixs) + 1] = x
  <2> HIDE DEF T
  <2> QED BY <1>1, AppendProperties
<1> HIDE DEF t
<1>3. t = [i \in 1 .. Len(ixs) + 1 |-> t[i]] /\ DOMAIN t = 1 .. Len(ixs) + 1
  BY <1>1, <1>2
<1>4. \A i \in 1 .. Len(ixs) + 1 : i \in 1 .. Len(ixs) \/ i = Len(ixs) + 1
  BY <1>1
<1>5. \A i \in 1 .. Len(ixs) + 1 : IndexOK(t[i])
  BY <1>2, <1>4, IndexesShape
<1>6. IndexesOK(t)
  BY <1>1, <1>3, <1>5, IndexesByDomain
<1> QED
  BY <1>2, <1>3, <1>6 DEF t

\* The indexes of two kinds, one list after the other.
LEMMA ConcatIndexesOK ==
    ASSUME NEW s, IndexesOK(s), NEW t, IndexesOK(t)
    PROVE  IndexesOK(s \o t)
<1> DEFINE T == ElemsOf(s) \cup ElemsOf(t)
           u == s \o t
<1>1. s \in Seq(T) /\ t \in Seq(T) /\ Len(s) \in Nat /\ Len(t) \in Nat
  BY DEF IndexesOK
<1>2. /\ u \in Seq(T) /\ Len(u) = Len(s) + Len(t)
      /\ \A i \in 1 .. Len(s) + Len(t) : u[i] = IF i <= Len(s) THEN s[i] ELSE t[i - Len(s)]
  <2> HIDE DEF T
  <2> QED BY <1>1, ConcatProperties
<1> HIDE DEF u
<1>3. u = [i \in 1 .. Len(s) + Len(t) |-> u[i]]
  BY <1>1, <1>2
<1>4. ASSUME NEW i \in 1 .. Len(s) + Len(t) PROVE IndexOK(u[i])
  <2>1. CASE i <= Len(s)
    BY <1>1, <1>2, <2>1, IndexesShape
  <2>2. CASE ~(i <= Len(s))
    <3>1. i - Len(s) \in 1 .. Len(t)
      BY <1>1, <2>2
    <3> QED BY <1>2, <2>2, <3>1, IndexesShape
  <2> QED BY <2>1, <2>2
<1>5. Len(s) + Len(t) \in Nat
  BY <1>1
<1>6. IndexesOK(u)
  BY <1>3, <1>4, <1>5, IndexesByDomain
<1> QED
  BY <1>6 DEF u

\* One index less.
LEMMA WithoutIndexOK ==
    ASSUME NEW ixs, IndexesOK(ixs), NEW i \in DOMAIN ixs
    PROVE  /\ IndexesOK(Without(ixs, i))
           /\ \A k \in DOMAIN Without(ixs, i) : \E j \in DOMAIN ixs : Without(ixs, i)[k] = ixs[j]
<1> DEFINE t == Without(ixs, i)
<1>1. ixs \in Seq(ElemsOf(ixs))
  BY DEF IndexesOK
<1>2. t \in Seq(ElemsOf(ixs)) /\ \A k \in DOMAIN t : \E j \in DOMAIN ixs : t[k] = ixs[j]
  BY <1>1, WithoutFacts
<1> HIDE DEF t
<1>3. Len(t) \in Nat /\ DOMAIN t = 1 .. Len(t) /\ t = [k \in 1 .. Len(t) |-> t[k]]
  BY <1>2
<1>4. \A k \in 1 .. Len(t) : IndexOK(t[k])
  BY <1>2, <1>3, IndexesShape
<1>5. IndexesOK(t)
  BY <1>3, <1>4, IndexesByDomain
<1> QED
  BY <1>2, <1>5 DEF t
=============================================================================
