--------------------------- MODULE InductionLemmas ---------------------------
(***************************************************************************)
(* Induction over the natural numbers and over sequences for the recursive *)
(* functions of the model.  The library's induction theorems take a        *)
(* predicate; here the predicate is the set of what satisfies it, so that  *)
(* every use is first-order: show that 0 is in the set and that n + 1 is   *)
(* when n is.  Then what Only and FlattenSeq compute.                      *)
(***************************************************************************)
EXTENDS Lists, SequencesExt, SequenceTheorems, FiniteSetTheorems, WellFoundedInduction, TLAPS

Less == {p \in Nat \X Nat : p[1] < p[2]}

LEMMA LessWellFounded == IsWellFoundedOn(Less, Nat)
  BY NatLessThanWellFounded DEF OpToRel, Less

\* Every non-empty set of naturals has a least element.
LEMMA LeastElement ==
    ASSUME NEW T, T \subseteq Nat, T # {}
    PROVE  \E x \in T : \A y \in T : x <= y
<1>1. PICK x \in T : \A y \in T : ~(<<y, x>> \in Less)
  BY LessWellFounded, WFMin
<1>2. \A y \in T : ~(y < x)
  BY <1>1 DEF Less
<1> QED
  BY <1>2

\* A set that holds 0 and, with n, also n + 1 holds every natural number.
LEMMA InductionOnSet ==
    ASSUME NEW S, 0 \in S, \A n \in Nat : n \in S => n + 1 \in S
    PROVE  \A n \in Nat : n \in S
<1> DEFINE T == Nat \ S
<1> SUFFICES ASSUME T # {} PROVE FALSE
  OBVIOUS
<1>1. PICK x \in T : \A y \in T : x <= y
  <2>1. T \subseteq Nat
    OBVIOUS
  <2> HIDE DEF T
  <2> QED BY <2>1, LeastElement
<1>2. x \in Nat /\ x # 0 /\ x - 1 \in Nat
  OBVIOUS
<1>3. x - 1 \in S
  BY <1>1, <1>2
<1> QED
  BY <1>2, <1>3

\* The same up to a bound.
LEMMA InductionUpTo ==
    ASSUME NEW S, NEW m \in Nat, 0 \in S, \A n \in 0 .. m - 1 : n \in S => n + 1 \in S
    PROVE  \A n \in 0 .. m : n \in S
<1> DEFINE R == {n \in Nat : n > m \/ n \in S}
<1>1. 0 \in R
  OBVIOUS
<1>2. \A n \in Nat : n \in R => n + 1 \in R
  OBVIOUS
<1>3. \A n \in Nat : n \in R
  <2> HIDE DEF R
  <2> QED BY <1>1, <1>2, InductionOnSet
<1> QED
  BY <1>3

\* Induction over sequences: what holds of the empty one, and with s of s and one
\* element more, holds of every sequence.
LEMMA InductionOnSeq ==
    ASSUME NEW T, NEW P, << >> \in P, \A s \in Seq(T), x \in T : s \in P => Append(s, x) \in P
    PROVE  \A s \in Seq(T) : s \in P
<1> SUFFICES ASSUME NEW s \in Seq(T) PROVE s \in P
  OBVIOUS
<1> DEFINE n == Len(s)
           G == {m \in Nat : SubSeq(s, 1, m) \in P}
<1>0. n \in Nat /\ n \in 0 .. n
  OBVIOUS
<1>1. 0 \in G
  <2>1. SubSeq(s, 1, 0) = << >>
    OBVIOUS
  <2> QED BY <2>1
<1>2. ASSUME NEW m \in 0 .. n - 1, m \in G PROVE m + 1 \in G
  <2>1. SubSeq(s, 1, m) \in P /\ m \in Nat /\ m + 1 \in Nat
    BY <1>0, <1>2
  <2>2. SubSeq(s, 1, m) \in Seq(T) /\ s[m + 1] \in T
    BY <1>0
  <2>3. SubSeq(s, 1, m + 1) = Append(SubSeq(s, 1, m), s[m + 1])
    BY <1>0
  <2>4. SubSeq(s, 1, m + 1) \in P
    BY <2>1, <2>2, <2>3, Zenon
  <2> QED BY <2>1, <2>4
<1>3. n \in G
  <2> HIDE DEF G, n
  <2>1. \A m \in 0 .. n - 1 : m \in G => m + 1 \in G
    BY <1>2
  <2>2. \A m \in 0 .. n : m \in G
    BY <1>0, <1>1, <2>1, InductionUpTo
  <2> QED BY <1>0, <2>2
<1>4. SubSeq(s, 1, n) = s
  OBVIOUS
<1>5. SubSeq(s, 1, n) \in P
  BY <1>3
<1> HIDE DEF n
<1> QED
  BY <1>4, <1>5, Zenon

-----------------------------------------------------------------------------
(* Sequences: the elements of one, of a part of one, of several in a row.    *)

\* The values of a function.
LEMMA RangeIs ==
    ASSUME NEW f, NEW x
    PROVE  x \in Range(f) <=> \E i \in DOMAIN f : f[i] = x
  BY DEF Range

LEMMA RangeAppend ==
    ASSUME NEW T, NEW s \in Seq(T), NEW e
    PROVE  Range(Append(s, e)) = Range(s) \cup {e}
<1> DEFINE r == Append(s, e)
<1>1. /\ DOMAIN s = 1 .. Len(s) /\ Len(s) \in Nat
      /\ DOMAIN r = 1 .. Len(s) + 1
      /\ \A i \in 1 .. Len(s) : r[i] = s[i]
      /\ r[Len(s) + 1] = e
  OBVIOUS
<1> HIDE DEF r
<1>2. Range(r) = Range(s) \cup {e}
  BY <1>1 DEF Range
<1> QED
  BY <1>2 DEF r

LEMMA RangeConcat ==
    ASSUME NEW T, NEW s \in Seq(T), NEW s2 \in Seq(T)
    PROVE  s \o s2 \in Seq(T) /\ Range(s \o s2) = Range(s) \cup Range(s2)
<1> DEFINE r == s \o s2
<1>1. /\ DOMAIN s = 1 .. Len(s) /\ Len(s) \in Nat
      /\ DOMAIN s2 = 1 .. Len(s2) /\ Len(s2) \in Nat
      /\ DOMAIN r = 1 .. Len(s) + Len(s2)
      /\ \A i \in 1 .. Len(s) + Len(s2) : r[i] = IF i <= Len(s) THEN s[i] ELSE s2[i - Len(s)]
  OBVIOUS
<1>2. s \o s2 \in Seq(T)
  OBVIOUS
<1> HIDE DEF r
<1>3. \A i \in 1 .. Len(s) : r[i] = s[i] /\ i \in DOMAIN r
  BY <1>1
<1>4. \A j \in 1 .. Len(s2) : r[Len(s) + j] = s2[j] /\ Len(s) + j \in DOMAIN r
  BY <1>1
<1>5. \A i \in DOMAIN r : (i \in DOMAIN s /\ r[i] = s[i]) \/ (i - Len(s) \in DOMAIN s2 /\ r[i] = s2[i - Len(s)])
  BY <1>1
<1>6. Range(r) \subseteq Range(s) \cup Range(s2)
  BY <1>5 DEF Range
<1>7. Range(s) \subseteq Range(r)
  BY <1>1, <1>3 DEF Range
<1>8. Range(s2) \subseteq Range(r)
  <2>1. ASSUME NEW x \in Range(s2) PROVE x \in Range(r)
    <3>1. PICK j \in 1 .. Len(s2) : s2[j] = x
      BY <1>1, <2>1, RangeIs
    <3>2. r[Len(s) + j] = x /\ Len(s) + j \in DOMAIN r
      BY <1>4, <3>1
    <3> QED BY <3>2, RangeIs
  <2> QED BY <2>1
<1> QED
  BY <1>2, <1>6, <1>7, <1>8 DEF r

\* One step of the recursion of Only.
Kept(s, S, acc, i) == IF s[i] \in S THEN Append(acc, s[i]) ELSE acc
Keeping(s, S, f, m) == f = [i \in 0 .. m |-> IF i = 0 THEN << >> ELSE Kept(s, S, f[i - 1], i)]

\* Only is the last value of its recursion.
LEMMA OnlyUnfolds ==
    ASSUME NEW s, NEW S, NEW n \in Nat, n = Len(s)
    PROVE  \E f : Keeping(s, S, f, n) /\ Only(s, S) = f[n]
<1> DEFINE Is(f, m) == Keeping(s, S, f, m)
           G == {m \in Nat : \E f : Is(f, m)}
<1>1. 0 \in G
  <2>1. Is([i \in 0 .. 0 |-> << >>], 0)
    BY DEF Keeping
  <2> QED BY <2>1
<1>2. ASSUME NEW m \in Nat, m \in G PROVE m + 1 \in G
  <2>1. PICK f : f = [i \in 0 .. m |-> IF i = 0 THEN << >> ELSE Kept(s, S, f[i - 1], i)]
    BY <1>2 DEF Keeping
  <2> DEFINE g == [i \in 0 .. m + 1 |-> IF i = m + 1 THEN Kept(s, S, f[m], i) ELSE f[i]]
  <2>2. \A i \in 0 .. m + 1 : g[i] = IF i = 0 THEN << >> ELSE Kept(s, S, g[i - 1], i)
    <3> TAKE i \in 0 .. m + 1
    <3>1. CASE i = m + 1
      <4>1. g[i] = Kept(s, S, f[m], i) /\ g[i - 1] = f[m] /\ i # 0
        BY <3>1
      <4> QED BY <4>1, <3>1
    <3>2. CASE i # m + 1
      BY <2>1, <3>2
    <3> QED BY <3>1, <3>2
  <2>3. Is(g, m + 1)
    BY <2>2, Zenon DEF Keeping
  <2> HIDE DEF g
  <2> QED BY <2>3
<1>3. n \in G
  <2> HIDE DEF G
  <2> QED BY <1>1, <1>2, InductionOnSet
<1>4. Is(CHOOSE f : Is(f, n), n)
  BY <1>3
<1>5. Only(s, S) = (CHOOSE f : Is(f, n))[n]
  BY DEF Only, Keeping, Kept
<1> QED
  BY <1>4, <1>5

\* Only keeps the elements of the set and no others.
LEMMA OnlyFacts ==
    ASSUME NEW T, NEW s \in Seq(T), NEW S
    PROVE  Only(s, S) \in Seq(T) /\ Range(Only(s, S)) = Range(s) \cap S
<1>0. Len(s) \in Nat /\ DOMAIN s = 1 .. Len(s) /\ \A i \in 1 .. Len(s) : s[i] \in T
  OBVIOUS
<1>10. PICK f : Keeping(s, S, f, Len(s)) /\ Only(s, S) = f[Len(s)]
  BY <1>0, OnlyUnfolds
<1>1. /\ f = [i \in 0 .. Len(s) |-> IF i = 0 THEN << >> ELSE Kept(s, S, f[i - 1], i)]
      /\ Only(s, S) = f[Len(s)]
  BY <1>10 DEF Keeping
<1> DEFINE Upto(m) == {s[i] : i \in 1 .. m}
           Good(q, m) == q \in Seq(T) /\ Range(q) = Upto(m) \cap S
           G == {m \in Nat : Good(f[m], m)}
<1>2. 0 \in G
  <2>1. f[0] = << >>
    BY <1>0, <1>1
  <2>2. Good(<< >>, 0)
    BY DEF Range
  <2> QED BY <2>1, <2>2
<1>3. ASSUME NEW m \in 0 .. Len(s) - 1, m \in G PROVE m + 1 \in G
  <2>1. f[m + 1] = Kept(s, S, f[m], m + 1)
    <3>1. m + 1 \in 0 .. Len(s) /\ m + 1 # 0 /\ (m + 1) - 1 = m
      BY <1>0
    <3> QED BY <1>1, <3>1
  <2>2. f[m] \in Seq(T) /\ Range(f[m]) = Upto(m) \cap S
    BY <1>3
  <2>3. Upto(m + 1) = Upto(m) \cup {s[m + 1]} /\ s[m + 1] \in T
    <3>1. 1 .. m + 1 = (1 .. m) \cup {m + 1} /\ m + 1 \in 1 .. Len(s)
      BY <1>0
    <3> QED BY <1>0, <3>1, Zenon
  <2>4. CASE s[m + 1] \notin S
    BY <2>1, <2>2, <2>3, <2>4 DEF Kept
  <2>5. CASE s[m + 1] \in S
    <3>1. f[m + 1] = Append(f[m], s[m + 1])
      BY <2>1, <2>5 DEF Kept
    <3>2. Range(f[m + 1]) = Range(f[m]) \cup {s[m + 1]}
      BY <2>2, <3>1, RangeAppend
    <3>3. f[m + 1] \in Seq(T)
      BY <2>2, <2>3, <3>1
    <3> QED BY <2>2, <2>3, <2>5, <3>2, <3>3
  <2> QED BY <2>4, <2>5
<1>4. Len(s) \in G
  <2>1. Len(s) \in Nat /\ Len(s) \in 0 .. Len(s)
    BY <1>0
  <2> HIDE DEF G
  <2>2. \A m \in 0 .. Len(s) : m \in G
    BY <2>1, <1>2, <1>3, InductionUpTo
  <2> QED BY <2>1, <2>2
<1>5. Upto(Len(s)) = Range(s)
  BY <1>0 DEF Range
<1> QED
  BY <1>1, <1>4, <1>5

\* The last element is kept or not.
LEMMA OnlyLast ==
    ASSUME NEW T, NEW s \in Seq(T), NEW x \in T, NEW S
    PROVE  Only(Append(s, x), S) = IF x \in S THEN Append(Only(s, S), x) ELSE Only(s, S)
<1> DEFINE t == Append(s, x)
           k == Len(s)
<1>1. k \in Nat /\ Len(t) = k + 1 /\ t[k + 1] = x /\ \A i \in 1 .. k : t[i] = s[i]
  OBVIOUS
<1>2. k = Len(s)
  OBVIOUS
<1> HIDE DEF t, k
<1>3. PICK f : Keeping(t, S, f, k + 1) /\ Only(t, S) = f[k + 1]
  BY <1>1, OnlyUnfolds
<1>4. PICK g : Keeping(s, S, g, k) /\ Only(s, S) = g[k]
  BY <1>1, <1>2, OnlyUnfolds
<1>5. \A i \in 0 .. k + 1 : f[i] = IF i = 0 THEN << >> ELSE Kept(t, S, f[i - 1], i)
  BY <1>1, <1>3 DEF Keeping
<1>6. \A i \in 0 .. k : g[i] = IF i = 0 THEN << >> ELSE Kept(s, S, g[i - 1], i)
  BY <1>1, <1>4 DEF Keeping
<1> DEFINE H == {m \in Nat : f[m] = g[m]}
<1>7. ASSUME NEW m \in 0 .. k - 1, m \in H PROVE m + 1 \in H
  <2>1. m \in Nat /\ m + 1 \in 0 .. k /\ m + 1 \in 0 .. k + 1 /\ m + 1 # 0 /\ (m + 1) - 1 = m /\ m + 1 \in 1 .. k
    BY <1>1
  <2>2. f[m + 1] = Kept(t, S, f[m], m + 1)
    BY <1>5, <2>1
  <2>3. g[m + 1] = Kept(s, S, g[m], m + 1)
    BY <1>6, <2>1
  <2>4. t[m + 1] = s[m + 1] /\ f[m] = g[m]
    BY <1>1, <1>7, <2>1
  <2> QED BY <2>1, <2>2, <2>3, <2>4 DEF Kept
<1>8. k \in H
  <2>1. 0 \in H /\ k \in 0 .. k
    BY <1>1, <1>5, <1>6
  <2> HIDE DEF H
  <2>2. \A m \in 0 .. k - 1 : m \in H => m + 1 \in H
    BY <1>7
  <2>3. \A m \in 0 .. k : m \in H
    BY <1>1, <2>1, <2>2, InductionUpTo
  <2> QED BY <2>1, <2>3
<1>9. f[k + 1] = Kept(t, S, f[k], k + 1)
  BY <1>1, <1>5
<1> QED
  BY <1>1, <1>3, <1>4, <1>8, <1>9 DEF Kept, t

\* Nothing is kept of nothing.
LEMMA OnlyEmpty == \A S : Only(<< >>, S) = << >>
<1> SUFFICES ASSUME NEW S PROVE Only(<< >>, S) = << >>
  OBVIOUS
<1>1. PICK f : Keeping(<< >>, S, f, 0) /\ Only(<< >>, S) = f[0]
  BY OnlyUnfolds
<1> QED
  BY <1>1 DEF Keeping

\* Whether an element belongs to the set matters only for those of the sequence.
LEMMA OnlySame ==
    ASSUME NEW T, NEW s \in Seq(T), NEW S, NEW R, \A x \in Range(s) : x \in S <=> x \in R
    PROVE  Only(s, S) = Only(s, R)
<1> DEFINE P == {q \in Seq(T) : (\A x \in Range(q) : x \in S <=> x \in R) => Only(q, S) = Only(q, R)}
<1>1. << >> \in P
  BY OnlyEmpty
<1>2. ASSUME NEW q \in Seq(T), NEW x \in T, q \in P PROVE Append(q, x) \in P
  <2>1. Append(q, x) \in Seq(T) /\ Range(Append(q, x)) = Range(q) \cup {x}
    BY RangeAppend
  <2> SUFFICES ASSUME \A y \in Range(Append(q, x)) : y \in S <=> y \in R
               PROVE  Only(Append(q, x), S) = Only(Append(q, x), R)
    BY <2>1
  <2>2. Only(q, S) = Only(q, R) /\ (x \in S <=> x \in R)
    BY <1>2, <2>1
  <2>3. Only(Append(q, x), S) = IF x \in S THEN Append(Only(q, S), x) ELSE Only(q, S)
    BY OnlyLast
  <2>4. Only(Append(q, x), R) = IF x \in R THEN Append(Only(q, R), x) ELSE Only(q, R)
    BY OnlyLast
  <2> QED BY <2>2, <2>3, <2>4
<1>3. s \in P
  <2> HIDE DEF P
  <2> QED BY <1>1, <1>2, InductionOnSeq
<1> QED
  BY <1>3

\* A sequence all of whose elements are wanted, or none.
LEMMA OnlyAllOrNone ==
    ASSUME NEW T, NEW s \in Seq(T), NEW S
    PROVE  /\ (\A x \in Range(s) : x \in S) => Only(s, S) = s
           /\ (\A x \in Range(s) : x \notin S) => Only(s, S) = << >>
<1> DEFINE P == {q \in Seq(T) : /\ (\A x \in Range(q) : x \in S) => Only(q, S) = q
                                /\ (\A x \in Range(q) : x \notin S) => Only(q, S) = << >>}
<1>1. << >> \in P
  BY OnlyEmpty
<1>2. ASSUME NEW q \in Seq(T), NEW x \in T, q \in P PROVE Append(q, x) \in P
  <2>1. Append(q, x) \in Seq(T) /\ Range(Append(q, x)) = Range(q) \cup {x}
    BY RangeAppend
  <2>2. Only(Append(q, x), S) = IF x \in S THEN Append(Only(q, S), x) ELSE Only(q, S)
    BY OnlyLast
  <2> QED BY <1>2, <2>1, <2>2
<1>3. s \in P
  <2> HIDE DEF P
  <2> QED BY <1>1, <1>2, InductionOnSeq
<1> QED
  BY <1>3

\* One part after the other.
LEMMA OnlyConcat ==
    ASSUME NEW T, NEW s \in Seq(T), NEW t \in Seq(T), NEW S
    PROVE  Only(s \o t, S) = Only(s, S) \o Only(t, S)
<1>0. Only(s, S) \in Seq(T)
  BY OnlyFacts
<1> DEFINE P == {q \in Seq(T) : Only(s \o q, S) = Only(s, S) \o Only(q, S)}
<1>1. << >> \in P
  <2>1. s \o << >> = s /\ Only(s, S) \o << >> = Only(s, S) /\ Only(<< >>, S) = << >>
    BY <1>0, OnlyEmpty
  <2>2. << >> \in Seq(T)
    OBVIOUS
  <2> QED BY <2>1, <2>2, Zenon
<1>2. ASSUME NEW q \in Seq(T), NEW x \in T, q \in P PROVE Append(q, x) \in P
  <2>1. s \o Append(q, x) = Append(s \o q, x) /\ s \o q \in Seq(T) /\ Append(q, x) \in Seq(T)
    OBVIOUS
  <2>2. Only(Append(q, x), S) = IF x \in S THEN Append(Only(q, S), x) ELSE Only(q, S)
    BY OnlyLast
  <2>3. Only(Append(s \o q, x), S) = IF x \in S THEN Append(Only(s \o q, S), x) ELSE Only(s \o q, S)
    BY <2>1, OnlyLast
  <2>4. Only(q, S) \in Seq(T)
    BY OnlyFacts
  <2>5. Only(s, S) \o Append(Only(q, S), x) = Append(Only(s, S) \o Only(q, S), x)
    BY <1>0, <2>4
  <2> QED BY <1>2, <2>1, <2>2, <2>3, <2>5
<1>3. t \in P
  <2> HIDE DEF P
  <2> QED BY <1>1, <1>2, InductionOnSeq
<1> QED
  BY <1>3

\* As many elements as places that hold a wanted one.
LEMMA OnlyCount ==
    ASSUME NEW T, NEW s \in Seq(T), NEW S
    PROVE  /\ IsFiniteSet({i \in DOMAIN s : s[i] \in S})
           /\ Len(Only(s, S)) = Cardinality({i \in DOMAIN s : s[i] \in S})
<1> DEFINE At(q) == {i \in DOMAIN q : q[i] \in S}
           P == {q \in Seq(T) : IsFiniteSet(At(q)) /\ Len(Only(q, S)) = Cardinality(At(q))}
<1>1. << >> \in P
  <2>1. At(<< >>) = {} /\ Only(<< >>, S) = << >> /\ Len(<< >>) = 0
    BY OnlyEmpty
  <2> QED BY <2>1, FS_EmptySet
<1>2. ASSUME NEW q \in Seq(T), NEW x \in T, q \in P PROVE Append(q, x) \in P
  <2> DEFINE r == Append(q, x)
             n == Len(q) + 1
  <2>1. /\ r \in Seq(T) /\ n \in Nat \ {0} /\ DOMAIN q = 1 .. n - 1 /\ DOMAIN r = 1 .. n
        /\ r[n] = x /\ \A i \in 1 .. n - 1 : r[i] = q[i]
    OBVIOUS
  <2>2. Only(r, S) = IF x \in S THEN Append(Only(q, S), x) ELSE Only(q, S)
    BY OnlyLast
  <2>3. Only(q, S) \in Seq(T)
    BY OnlyFacts
  <2>4. IsFiniteSet(At(q)) /\ Len(Only(q, S)) = Cardinality(At(q))
    BY <1>2
  <2> HIDE DEF r, n
  <2>5. CASE x \in S
    <3>0. 1 .. n = (1 .. n - 1) \cup {n} /\ n \notin 1 .. n - 1
      BY <2>1
    <3>1. At(r) = At(q) \cup {n} /\ n \notin At(q)
      BY <2>1, <2>5, <3>0
    <3> HIDE DEF At
    <3>2. IsFiniteSet(At(r)) /\ Cardinality(At(r)) = Cardinality(At(q)) + 1
      BY <2>4, <3>1, FS_AddElement
    <3>3. Len(Only(r, S)) = Len(Only(q, S)) + 1
      BY <2>2, <2>3, <2>5
    <3> QED BY <2>1, <2>4, <3>2, <3>3 DEF r
  <2>6. CASE x \notin S
    <3>1. At(r) = At(q)
      BY <2>1, <2>6
    <3> QED BY <2>1, <2>2, <2>4, <2>6, <3>1 DEF r
  <2> QED BY <2>5, <2>6
<1>3. s \in P
  <2> HIDE DEF P
  <2> QED BY <1>1, <1>2, InductionOnSeq
<1> QED
  BY <1>3

\* One step of the recursion of FlattenSeq.
Joined(ss, acc, i) == IF i = 1 THEN ss[i] ELSE acc \o ss[i]

LEMMA FlattenUnfolds ==
    ASSUME NEW ss, NEW n \in Nat, n = Len(ss), n # 0
    PROVE  \E f : /\ f = [i \in 1 .. n |-> Joined(ss, f[i - 1], i)]
                  /\ FlattenSeq(ss) = f[n]
<1> DEFINE Is(f, m) == f = [i \in 1 .. m |-> Joined(ss, f[i - 1], i)]
           G == {m \in Nat : m = 0 \/ \E f : Is(f, m)}
<1>1. 0 \in G
  OBVIOUS
<1>2. ASSUME NEW m \in Nat, m \in G PROVE m + 1 \in G
  <2>1. CASE m = 0
    <3> DEFINE g == [i \in 1 .. 1 |-> ss[1]]
    <3>1. \A i \in 1 .. 1 : g[i] = Joined(ss, g[i - 1], i)
      BY DEF Joined
    <3>2. Is(g, 1)
      BY <3>1, Zenon
    <3> HIDE DEF g
    <3> QED BY <2>1, <3>2
  <2>2. CASE m # 0
    <3>1. PICK f : Is(f, m)
      BY <1>2, <2>2
    <3> DEFINE g == [i \in 1 .. m + 1 |-> IF i = m + 1 THEN Joined(ss, f[m], i) ELSE f[i]]
    <3>2. \A i \in 1 .. m + 1 : g[i] = Joined(ss, g[i - 1], i)
      <4> TAKE i \in 1 .. m + 1
      <4>1. CASE i = m + 1
        <5>1. g[i] = Joined(ss, f[m], i) /\ g[i - 1] = f[m]
          BY <2>2, <4>1
        <5> QED BY <5>1, <4>1
      <4>2. CASE i = 1
        <5>1. g[i] = Joined(ss, f[i - 1], i)
          BY <2>2, <3>1, <4>2
        <5> QED BY <5>1, <4>2 DEF Joined
      <4>3. CASE i # m + 1 /\ i # 1
        BY <3>1, <4>3
      <4> QED BY <4>1, <4>2, <4>3
    <3>3. Is(g, m + 1)
      BY <3>2, Zenon
    <3> HIDE DEF g
    <3> QED BY <3>3
  <2> QED BY <2>1, <2>2
<1>3. n \in G
  <2> HIDE DEF G
  <2> QED BY <1>1, <1>2, InductionOnSet
<1>4. Is(CHOOSE f : Is(f, n), n)
  BY <1>3
<1>5. FlattenSeq(ss) = (CHOOSE f : Is(f, n))[n]
  BY DEF FlattenSeq, Joined
<1> QED
  BY <1>4, <1>5

\* FlattenSeq has the elements of the sequences.
LEMMA FlattenFacts ==
    ASSUME NEW T, NEW ss \in Seq(Seq(T))
    PROVE  FlattenSeq(ss) \in Seq(T) /\ Range(FlattenSeq(ss)) = UNION {Range(ss[i]) : i \in DOMAIN ss}
<1>0. Len(ss) \in Nat /\ DOMAIN ss = 1 .. Len(ss) /\ \A i \in 1 .. Len(ss) : ss[i] \in Seq(T)
  OBVIOUS
<1>1. CASE Len(ss) = 0
  <2>1. FlattenSeq(ss) = ss /\ ss = << >>
    BY <1>1 DEF FlattenSeq
  <2> QED BY <2>1 DEF Range
<1>2. CASE Len(ss) # 0
  <2>1. PICK f : /\ f = [i \in 1 .. Len(ss) |-> Joined(ss, f[i - 1], i)]
                 /\ FlattenSeq(ss) = f[Len(ss)]
    BY <1>0, <1>2, FlattenUnfolds
  <2> DEFINE Upto(m) == UNION {Range(ss[i]) : i \in 1 .. m}
             Good(q, m) == q \in Seq(T) /\ Range(q) = Upto(m)
             G == {m \in Nat : m = 0 \/ Good(f[m], m)}
  <2>2. 0 \in G
    OBVIOUS
  <2>3. ASSUME NEW m \in 0 .. Len(ss) - 1, m \in G PROVE m + 1 \in G
    <3>1. f[m + 1] = Joined(ss, f[m], m + 1)
      <4>1. m + 1 \in 1 .. Len(ss) /\ (m + 1) - 1 = m
        BY <1>0
      <4> QED BY <2>1, <4>1
    <3>2. Upto(m + 1) = Upto(m) \cup Range(ss[m + 1]) /\ ss[m + 1] \in Seq(T)
      <4>1. 1 .. m + 1 = (1 .. m) \cup {m + 1} /\ m + 1 \in 1 .. Len(ss)
        BY <1>0
      <4> QED BY <1>0, <4>1, Zenon
    <3>a. m \in Nat
      BY <1>0
    <3>3. CASE m = 0
      <4>1. f[m + 1] = ss[m + 1] /\ Upto(m) = {}
        BY <3>1, <3>3 DEF Joined
      <4>2. Good(f[m + 1], m + 1)
        BY <3>2, <4>1, Zenon
      <4> HIDE DEF Good
      <4> QED BY <4>2, <3>a
    <3>4. CASE m # 0
      <4>0. Good(f[m], m)
        <5> HIDE DEF Good
        <5> QED BY <2>3, <3>4
      <4>1. f[m] \in Seq(T) /\ Range(f[m]) = Upto(m)
        BY <4>0, Zenon
      <4>2. f[m + 1] = f[m] \o ss[m + 1]
        <5>1. m + 1 # 1
          BY <3>4, <3>a
        <5> QED BY <3>1, <5>1, Zenon DEF Joined
      <4>3. f[m + 1] \in Seq(T) /\ Range(f[m + 1]) = Range(f[m]) \cup Range(ss[m + 1])
        BY <3>2, <4>1, <4>2, RangeConcat
      <4>4. Good(f[m + 1], m + 1)
        BY <3>2, <4>1, <4>3, Zenon
      <4> HIDE DEF Good
      <4> QED BY <4>4, <3>a
    <3> HIDE DEF G
    <3> QED BY <3>3, <3>4
  <2>4. Len(ss) \in G
    <3>1. Len(ss) \in Nat /\ Len(ss) \in 0 .. Len(ss)
      BY <1>0
    <3> HIDE DEF G
    <3>2. \A m \in 0 .. Len(ss) : m \in G
      BY <3>1, <2>2, <2>3, InductionUpTo
    <3> QED BY <3>1, <3>2
  <2>5. Good(FlattenSeq(ss), Len(ss))
    BY <1>2, <2>1, <2>4
  <2> QED BY <1>0, <2>5
<1> QED
  BY <1>1, <1>2
=============================================================================
