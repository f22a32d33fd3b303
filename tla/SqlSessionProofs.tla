-------------------------- MODULE SqlSessionProofs --------------------------
(***************************************************************************)
(* Proofs about SqlSession, for every set of names, rows, statements and   *)
(* bounds: views never read each other in a circle, a rollback restores    *)
(* what was there at BEGIN, a WITH statement leaves nothing behind, and    *)
(* what INSERT, UPDATE and DELETE tell their caller is true.               *)
(* Every step of Next is first reduced to its effect on the tables, the    *)
(* views and the saves of the transaction; the invariants are preserved    *)
(* effect by effect.                                                       *)
(***************************************************************************)
EXTENDS SqlSession, InductionLemmas, FiniteSetTheorems

-----------------------------------------------------------------------------
(* Finite sequences, and the registry of views as one.                     *)

\* A finite sequence, of whatever kind.
Listed(s) == s \in Seq(Range(s))

\* A function on 1 .. n is a list.
LEMMA ListedBy ==
    ASSUME NEW n \in Nat, NEW q, q = [i \in DOMAIN q |-> q[i]], DOMAIN q = 1 .. n
    PROVE  Listed(q) /\ Len(q) = n
<1> DEFINE R == Range(q)
<1>1. \A i \in DOMAIN q : q[i] \in R
  BY DEF Range
<1> HIDE DEF R
<1>2. q \in [1 .. n -> R]
  BY <1>1
<1>3. q \in Seq(R) /\ Len(q) = n
  BY <1>2
<1> QED
  BY <1>3 DEF Listed, R

\* A sequence in the usual sense is one.
LEMMA SequenceListed ==
    ASSUME NEW T, NEW q \in Seq(T)
    PROVE  Listed(q)
<1>1. Len(q) \in Nat /\ q = [i \in DOMAIN q |-> q[i]] /\ DOMAIN q = 1 .. Len(q)
  OBVIOUS
<1> QED
  BY <1>1, ListedBy

\* An element at the end of a list.
LEMMA AppendFacts ==
    ASSUME NEW s, Listed(s), NEW e, NEW q, q = Append(s, e)
    PROVE  /\ Listed(q) /\ Len(q) = Len(s) + 1 /\ Len(s) \in Nat
           /\ DOMAIN s = 1 .. Len(s) /\ DOMAIN q = 1 .. Len(s) + 1
           /\ \A i \in DOMAIN s : q[i] = s[i]
           /\ q[Len(s) + 1] = e
<1> DEFINE T == Range(s) \cup {e}
<1>1. s \in Seq(T) /\ e \in T
  BY DEF Listed
<1>2. q \in Seq(T) /\ Len(q) = Len(s) + 1
  BY <1>1
<1>3. /\ Len(s) \in Nat /\ DOMAIN s = 1 .. Len(s) /\ DOMAIN q = 1 .. Len(s) + 1
      /\ \A i \in DOMAIN s : q[i] = s[i]
      /\ q[Len(s) + 1] = e
  BY <1>1, <1>2
<1>4. Listed(q)
  BY <1>2, SequenceListed
<1> QED
  BY <1>2, <1>3, <1>4

\* The first elements of a list.
LEMMA PrefixFacts ==
    ASSUME NEW s, Listed(s), NEW d \in 0 .. Len(s), NEW q, q = SubSeq(s, 1, d)
    PROVE  /\ Listed(q) /\ Len(q) = d /\ DOMAIN q = 1 .. d
           /\ \A i \in 1 .. d : q[i] = s[i]
<1> DEFINE T == Range(s)
<1>1. s \in Seq(T)
  BY DEF Listed
<1>2. q \in Seq(T) /\ Len(q) = d /\ DOMAIN q = 1 .. d /\ \A i \in 1 .. d : q[i] = s[i]
  BY <1>1
<1>3. Listed(q)
  BY <1>2, SequenceListed
<1> QED
  BY <1>2, <1>3

\* A list of one element.
LEMMA SingleFacts ==
    ASSUME NEW e, NEW q, q = <<e>>
    PROVE  Listed(q) /\ Len(q) = 1 /\ DOMAIN q = 1 .. 1 /\ q[1] = e
<1>1. q \in Seq({e}) /\ Len(q) = 1 /\ DOMAIN q = 1 .. 1 /\ q[1] = e
  OBVIOUS
<1>2. Range(q) = {e}
  BY <1>1 DEF Range
<1> QED
  BY <1>1, <1>2 DEF Listed

\* The registry with one view more.
LEMMA RegisterFacts ==
    ASSUME NEW vs \in Seq(View), NEW w \in View, NEW us, us = Append(vs, w)
    PROVE  /\ us \in Seq(View) /\ Range(us) = Range(vs) \cup {w}
           /\ Unique(vs) /\ (w.name \in Odd \/ Registered(w.name, vs) = {}) => Unique(us)
<1>1. us \in Seq(View) /\ Len(us) = Len(vs) + 1 /\ us[Len(us)] = w
      /\ \A i \in 1 .. Len(vs) : us[i] = vs[i]
  OBVIOUS
<1>2. DOMAIN us = 1 .. Len(vs) + 1 /\ DOMAIN vs = 1 .. Len(vs) /\ Len(vs) \in Nat
  BY <1>1
<1>3. Range(us) = Range(vs) \cup {w}
  BY <1>1, <1>2 DEF Range
<1>4. ASSUME Unique(vs), w.name \in Odd \/ Registered(w.name, vs) = {} PROVE Unique(us)
  <2>1. \A v \in Range(vs) : v.name = w.name => w.name \in Odd
    BY <1>4 DEF Registered, Range
  <2> QED
    BY <1>3, <1>4, <2>1 DEF Unique
<1> QED
  BY <1>1, <1>3, <1>4

\* What a filter on the name of v finds.
LEMMA LookupFacts ==
    ASSUME NEW vs \in Seq(View), Unique(vs), NEW v \in Range(vs), v.name \notin Odd
    PROVE  Registered(v.name, vs) # {} /\ vs[Min(Registered(v.name, vs))] = v
<1> DEFINE R == Registered(v.name, vs)
<1>1. DOMAIN vs = 1 .. Len(vs) /\ Len(vs) \in Nat
  OBVIOUS
<1>2. R \subseteq Nat /\ R \subseteq DOMAIN vs
  BY <1>1 DEF Registered
<1>3. R # {}
  BY DEF Registered, Range
<1>4. \E x \in R : \A y \in R : x <= y
  <2> HIDE DEF R
  <2> QED BY <1>2, <1>3, LeastElement
<1>5. Min(R) \in R
  <2> HIDE DEF R
  <2> QED BY <1>4 DEF Min
<1>6. vs[Min(R)] \in Range(vs) /\ vs[Min(R)].name = v.name
  BY <1>2, <1>5 DEF Range, Registered
<1> QED
  BY <1>3, <1>6 DEF Unique

\* What it finds is registered.
LEMMA FoundFacts ==
    ASSUME NEW vs \in Seq(View), NEW n, Registered(n, vs) # {}
    PROVE  n \notin Odd /\ \E v \in Range(vs) : v.name = n
  BY DEF Registered, Range

\* Induction over the registry: what holds of the empty one, and with vs of vs
\* and one view more, holds of every registry.
LEMMA InductionOnViews ==
    ASSUME NEW P, << >> \in P, \A vs \in Seq(View), w \in View : vs \in P => Append(vs, w) \in P
    PROVE  \A vs \in Seq(View) : vs \in P
  BY InductionOnSeq

\* One row of the registry, read by the deletion of these names.
Passed(gone, vs, s, i) == IF vs[i].name \in gone THEN s ELSE Append(s, vs[i])
Passing(gone, vs, f, m) == f = [i \in 0 .. m |-> IF i = 0 THEN << >> ELSE Passed(gone, vs, f[i - 1], i)]

\* Without is the last value of its recursion.
LEMMA WithoutUnfolds ==
    ASSUME NEW gone, NEW vs, NEW len \in Nat, len = Len(vs)
    PROVE  \E f : Passing(gone, vs, f, len) /\ Without(gone, vs) = f[len]
<1> DEFINE G == {m \in Nat : \E f : Passing(gone, vs, f, m)}
<1>1. 0 \in G
  <2>1. Passing(gone, vs, [i \in 0 .. 0 |-> << >>], 0)
    BY DEF Passing
  <2> QED BY <2>1
<1>2. ASSUME NEW m \in Nat, m \in G PROVE m + 1 \in G
  <2>1. PICK f : f = [i \in 0 .. m |-> IF i = 0 THEN << >> ELSE Passed(gone, vs, f[i - 1], i)]
    BY <1>2 DEF Passing
  <2> DEFINE g == [i \in 0 .. m + 1 |-> IF i = m + 1 THEN Passed(gone, vs, f[m], i) ELSE f[i]]
  <2>2. \A i \in 0 .. m + 1 : g[i] = IF i = 0 THEN << >> ELSE Passed(gone, vs, g[i - 1], i)
    <3> TAKE i \in 0 .. m + 1
    <3>1. CASE i = m + 1
      <4>1. g[i] = Passed(gone, vs, f[m], i) /\ g[i - 1] = f[m] /\ i # 0
        BY <3>1
      <4> QED BY <4>1, <3>1
    <3>2. CASE i # m + 1
      BY <2>1, <3>2
    <3> QED BY <3>1, <3>2
  <2>3. Passing(gone, vs, g, m + 1)
    BY <2>2, Zenon DEF Passing
  <2> HIDE DEF g
  <2> QED BY <2>3
<1>3. len \in G
  <2> HIDE DEF G
  <2> QED BY <1>1, <1>2, InductionOnSet
<1>4. Passing(gone, vs, CHOOSE f : Passing(gone, vs, f, len), len)
  BY <1>3
<1>5. Without(gone, vs) = (CHOOSE f : Passing(gone, vs, f, len))[len]
  BY DEF Without, Passing, Passed
<1> QED
  BY <1>4, <1>5

\* A last view is kept or not.
LEMMA WithoutLast ==
    /\ \A gone : Without(gone, << >>) = << >>
    /\ \A gone : \A vs \in Seq(View), w \in View :
          Without(gone, Append(vs, w)) =
              IF w.name \in gone THEN Without(gone, vs) ELSE Append(Without(gone, vs), w)
<1>1. ASSUME NEW gone PROVE Without(gone, << >>) = << >>
  <2>1. PICK f : Passing(gone, << >>, f, 0) /\ Without(gone, << >>) = f[0]
    BY WithoutUnfolds
  <2> QED BY <2>1 DEF Passing
<1>2. ASSUME NEW gone, NEW vs \in Seq(View), NEW w \in View
      PROVE  Without(gone, Append(vs, w)) =
                IF w.name \in gone THEN Without(gone, vs) ELSE Append(Without(gone, vs), w)
  <2> DEFINE us == Append(vs, w)
             k == Len(vs)
  <2>1. k \in Nat /\ Len(us) = k + 1 /\ us[k + 1] = w /\ \A i \in 1 .. k : us[i] = vs[i]
    OBVIOUS
  <2> HIDE DEF us, k
  <2>2. PICK f : Passing(gone, us, f, k + 1) /\ Without(gone, us) = f[k + 1]
    BY <2>1, WithoutUnfolds
  <2>3. PICK g : Passing(gone, vs, g, k) /\ Without(gone, vs) = g[k]
    BY <2>1, WithoutUnfolds DEF k
  <2>4. \A i \in 0 .. k + 1 : f[i] = IF i = 0 THEN << >> ELSE Passed(gone, us, f[i - 1], i)
    BY <2>1, <2>2 DEF Passing
  <2>5. \A i \in 0 .. k : g[i] = IF i = 0 THEN << >> ELSE Passed(gone, vs, g[i - 1], i)
    BY <2>1, <2>3 DEF Passing
  <2> DEFINE H == {m \in Nat : f[m] = g[m]}
  <2>6. 0 \in H
    BY <2>1, <2>4, <2>5
  <2>7. ASSUME NEW m \in 0 .. k - 1, m \in H PROVE m + 1 \in H
    <3>1. m \in Nat /\ m + 1 \in 0 .. k /\ m + 1 \in 0 .. k + 1 /\ m + 1 # 0 /\ (m + 1) - 1 = m /\ m + 1 \in 1 .. k
      BY <2>1
    <3>2. f[m + 1] = Passed(gone, us, f[m], m + 1)
      BY <2>4, <3>1
    <3>3. g[m + 1] = Passed(gone, vs, g[m], m + 1)
      BY <2>5, <3>1
    <3>4. us[m + 1] = vs[m + 1] /\ f[m] = g[m]
      BY <2>1, <2>7, <3>1
    <3> QED BY <3>1, <3>2, <3>3, <3>4 DEF Passed
  <2>8. f[k] = g[k]
    <3> HIDE DEF H
    <3>1. \A m \in 0 .. k - 1 : m \in H => m + 1 \in H
      BY <2>7
    <3>2. \A m \in 0 .. k : m \in H
      BY <2>1, <2>6, <3>1, InductionUpTo
    <3>3. k \in H
      BY <2>1, <3>2
    <3> QED BY <3>3 DEF H
  <2>9. f[k + 1] = Passed(gone, us, f[k], k + 1)
    BY <2>1, <2>4
  <2> QED BY <2>1, <2>2, <2>3, <2>8, <2>9 DEF Passed, us
<1> QED
  BY <1>1, <1>2

\* What is left is a registry of the views whose name is not among these.
LEMMA WithoutFacts ==
    ASSUME NEW gone, NEW vs \in Seq(View)
    PROVE  /\ Without(gone, vs) \in Seq(View)
           /\ Range(Without(gone, vs)) = {v \in Range(vs) : v.name \notin gone}
<1> DEFINE P == {s \in Seq(View) : /\ Without(gone, s) \in Seq(View)
                                   /\ Range(Without(gone, s)) = {v \in Range(s) : v.name \notin gone}}
<1>1. << >> \in P
  <2>1. Without(gone, << >>) = << >> /\ Range(<< >>) = {}
    BY WithoutLast DEF Range
  <2>2. << >> \in Seq(View) /\ {v \in {} : v.name \notin gone} = {}
    OBVIOUS
  <2> QED BY <2>1, <2>2, Zenon
<1>2. ASSUME NEW s \in Seq(View), NEW w \in View, s \in P PROVE Append(s, w) \in P
  <2> DEFINE u == Without(gone, s)
             t == Append(s, w)
  <2>1. u \in Seq(View) /\ Range(u) = {v \in Range(s) : v.name \notin gone}
    BY <1>2
  <2>2. Without(gone, t) = IF w.name \in gone THEN u ELSE Append(u, w)
    BY WithoutLast
  <2>3. t \in Seq(View) /\ Range(t) = Range(s) \cup {w}
    BY RegisterFacts
  <2>4. Append(u, w) \in Seq(View) /\ Range(Append(u, w)) = Range(u) \cup {w}
    BY <2>1, RegisterFacts
  <2> HIDE DEF u, t
  <2>5. t \in P
    BY <2>1, <2>2, <2>3, <2>4
  <2> QED BY <2>5 DEF t
<1>3. vs \in P
  <2> HIDE DEF P
  <2> QED BY <1>1, <1>2, InductionOnViews
<1> QED
  BY <1>3

\* Only the names that occur matter.
LEMMA WithoutSame ==
    ASSUME NEW gone, NEW lost, NEW vs \in Seq(View),
           \A v \in Range(vs) : v.name \in gone <=> v.name \in lost
    PROVE  Without(gone, vs) = Without(lost, vs)
<1> DEFINE P == {s \in Seq(View) : (\A v \in Range(s) : v.name \in gone <=> v.name \in lost)
                                      => Without(gone, s) = Without(lost, s)}
<1>1. << >> \in P
  BY WithoutLast
<1>2. ASSUME NEW s \in Seq(View), NEW w \in View, s \in P PROVE Append(s, w) \in P
  <2>1. Append(s, w) \in Seq(View) /\ Range(Append(s, w)) = Range(s) \cup {w}
    BY RegisterFacts
  <2> SUFFICES ASSUME \A v \in Range(Append(s, w)) : v.name \in gone <=> v.name \in lost
               PROVE  Without(gone, Append(s, w)) = Without(lost, Append(s, w))
    BY <2>1
  <2>2. Without(gone, s) = Without(lost, s) /\ (w.name \in gone <=> w.name \in lost)
    BY <1>2, <2>1
  <2>3. Without(gone, Append(s, w)) = IF w.name \in gone THEN Without(gone, s) ELSE Append(Without(gone, s), w)
    BY WithoutLast
  <2>4. Without(lost, Append(s, w)) = IF w.name \in lost THEN Without(lost, s) ELSE Append(Without(lost, s), w)
    BY WithoutLast
  <2> QED BY <2>2, <2>3, <2>4
<1>3. vs \in P
  <2> HIDE DEF P
  <2> QED BY <1>1, <1>2, InductionOnViews
<1> QED
  BY <1>3

\* Names that do not occur change nothing.
LEMMA WithoutNone ==
    ASSUME NEW gone, NEW vs \in Seq(View), \A v \in Range(vs) : v.name \notin gone
    PROVE  Without(gone, vs) = vs
<1> DEFINE P == {s \in Seq(View) : (\A v \in Range(s) : v.name \notin gone) => Without(gone, s) = s}
<1>1. << >> \in P
  BY WithoutLast
<1>2. ASSUME NEW s \in Seq(View), NEW w \in View, s \in P PROVE Append(s, w) \in P
  <2>1. Append(s, w) \in Seq(View) /\ Range(Append(s, w)) = Range(s) \cup {w}
    BY RegisterFacts
  <2> SUFFICES ASSUME \A v \in Range(Append(s, w)) : v.name \notin gone
               PROVE  Without(gone, Append(s, w)) = Append(s, w)
    BY <2>1
  <2>2. Without(gone, s) = s /\ w.name \notin gone
    BY <1>2, <2>1
  <2>3. Without(gone, Append(s, w)) = IF w.name \in gone THEN Without(gone, s) ELSE Append(Without(gone, s), w)
    BY WithoutLast
  <2> QED BY <2>2, <2>3
<1>3. vs \in P
  <2> HIDE DEF P
  <2> QED BY <1>1, <1>2, InductionOnViews
<1> QED
  BY <1>3

\* Deleting some of the names first makes no difference.
LEMMA WithoutTwice ==
    ASSUME NEW gone, NEW first, \A n \in first : n \in gone, NEW vs \in Seq(View)
    PROVE  Without(gone, Without(first, vs)) = Without(gone, vs)
<1> DEFINE P == {s \in Seq(View) : Without(gone, Without(first, s)) = Without(gone, s)}
<1>1. << >> \in P
  BY WithoutLast
<1>2. ASSUME NEW s \in Seq(View), NEW w \in View, s \in P PROVE Append(s, w) \in P
  <2> DEFINE u == Without(first, s)
  <2>1. u \in Seq(View)
    BY WithoutFacts
  <2>2. Without(gone, u) = Without(gone, s)
    BY <1>2
  <2>3. Without(first, Append(s, w)) = IF w.name \in first THEN u ELSE Append(u, w)
    BY WithoutLast
  <2>4. Without(gone, Append(s, w)) = IF w.name \in gone THEN Without(gone, s) ELSE Append(Without(gone, s), w)
    BY WithoutLast
  <2> HIDE DEF u
  <2>5. Without(gone, Append(u, w)) = IF w.name \in gone THEN Without(gone, u) ELSE Append(Without(gone, u), w)
    BY <2>1, WithoutLast
  <2>6. Append(s, w) \in Seq(View)
    OBVIOUS
  <2>7. Without(gone, Without(first, Append(s, w))) = Without(gone, Append(s, w))
    BY <2>2, <2>3, <2>4, <2>5
  <2> QED BY <2>6, <2>7
<1>3. vs \in P
  <2> HIDE DEF P
  <2> QED BY <1>1, <1>2, InductionOnViews
<1> QED
  BY <1>3

\* Deleting by name keeps the other views, and those no filter finds.
LEMMA UnregisterFacts ==
    ASSUME NEW vs \in Seq(View), NEW n, NEW us, us = Unregistered(n, vs)
    PROVE  /\ us \in Seq(View)
           /\ Range(us) = {v \in Range(vs) : v.name # n \/ n \in Odd}
           /\ Unique(vs) => Unique(us)
<1>1. us \in Seq(View) /\ Range(us) = {v \in Range(vs) : v.name \notin {n} \ Odd}
  BY WithoutFacts DEF Unregistered
<1>2. Unique(vs) => Unique(us)
  BY <1>1 DEF Unique
<1> QED
  BY <1>1, <1>2

-----------------------------------------------------------------------------
(* Views that read each other in a circle.                                 *)

\* Every name of S is a view, found by its name, of a name of S.
Circle(S, vs) ==
    S # {} /\ \A n \in S : \E v \in Range(vs) : v.name = n /\ n \notin Odd /\ v.of \in S

NoCircle(vs) == \A S \in SUBSET Names : ~Circle(S, vs)

\* No name is a table and a view that is found.
Apart == \A n \in Names : ~(Exists(n) /\ sql__view_exists(n))

\* Source is the last value of its recursion.
LEMMA SourceUnfolds ==
    ASSUME NEW n, NEW len \in Nat, len = Len(views) + 1
    PROVE  \E f : f = [d \in 0 .. len |-> IF d = 0 THEN n ELSE Hop(f[d - 1])] /\ Source(n) = f[len]
<1> DEFINE Is(f, m) == f = [d \in 0 .. m |-> IF d = 0 THEN n ELSE Hop(f[d - 1])]
           G == {m \in Nat : \E f : Is(f, m)}
<1>1. 0 \in G
  <2>1. Is([d \in 0 .. 0 |-> n], 0)
    OBVIOUS
  <2> QED BY <2>1
<1>2. ASSUME NEW m \in Nat, m \in G PROVE m + 1 \in G
  <2>1. PICK f : Is(f, m)
    BY <1>2
  <2> DEFINE g == [d \in 0 .. m + 1 |-> IF d = m + 1 THEN Hop(f[m]) ELSE f[d]]
  <2>2. \A d \in 0 .. m + 1 : g[d] = IF d = 0 THEN n ELSE Hop(g[d - 1])
    <3> TAKE d \in 0 .. m + 1
    <3>1. CASE d = m + 1
      <4>1. g[d] = Hop(f[m]) /\ g[d - 1] = f[m] /\ d # 0
        BY <3>1
      <4> QED BY <4>1, <3>1
    <3>2. CASE d # m + 1
      BY <2>1, <3>2
    <3> QED BY <3>1, <3>2
  <2>3. Is(g, m + 1)
    BY <2>2, Zenon
  <2> HIDE DEF g
  <2> QED BY <2>3
<1>3. len \in G
  <2> HIDE DEF G
  <2> QED BY <1>1, <1>2, InductionOnSet
<1>4. Is(CHOOSE f : Is(f, len), len)
  BY <1>3
<1>5. Source(n) = (CHOOSE f : Is(f, len))[len]
  BY DEF Source
<1> QED
  BY <1>4, <1>5

\* One step along the views: a found view leads to what it was created on.
LEMMA HopFacts ==
    ASSUME views \in Seq(View), Unique(views), NEW n
    PROVE  /\ Exists(n) \/ ~sql__view_exists(n) => Hop(n) = n
           /\ ~Exists(n) /\ sql__view_exists(n) =>
                 \E v \in Range(views) : v.name = n /\ n \notin Odd /\ v \in View /\ Hop(n) = v.of
<1>1. ASSUME ~Exists(n), sql__view_exists(n)
      PROVE  \E v \in Range(views) : v.name = n /\ n \notin Odd /\ v \in View /\ Hop(n) = v.of
  <2>1. Registered(n, views) # {}
    BY <1>1 DEF sql__view_exists
  <2>2. PICK v \in Range(views) : v.name = n /\ n \notin Odd
    BY <2>1, FoundFacts
  <2>3. views[Min(Registered(n, views))] = v
    BY <2>2, LookupFacts
  <2>4. v \in View
    BY DEF Range
  <2>5. Hop(n) = v.of
    BY <1>1, <2>3 DEF Hop, sql__lookup_view
  <2> QED
    BY <2>2, <2>4, <2>5
<1> QED
  BY <1>1 DEF Hop

\* Where no views read each other in a circle, following them ends.
LEMMA EndsWithoutCircle ==
    ASSUME views \in Seq(View), Unique(views), NoCircle(views), NEW n \in Names
    PROVE  ~Loops(n)
<1> SUFFICES ASSUME Loops(n) PROVE FALSE
  OBVIOUS
<1> DEFINE len == Len(views) + 1
           On(m) == ~Exists(m) /\ sql__view_exists(m)
<1>0. Len(views) \in Nat /\ len \in Nat /\ DOMAIN views = 1 .. Len(views)
  OBVIOUS
<1>1. PICK f : f = [d \in 0 .. len |-> IF d = 0 THEN n ELSE Hop(f[d - 1])] /\ Source(n) = f[len]
  <2> HIDE DEF len
  <2>1. len = Len(views) + 1
    BY DEF len
  <2> QED BY <1>0, <2>1, SourceUnfolds
<1>2. f[0] = n /\ On(f[len])
  BY <1>0, <1>1 DEF Loops
<1>3. \A d \in 0 .. len - 1 : f[d + 1] = Hop(f[d])
  BY <1>0, <1>1
\* the chain leads through views to its end
<1>4. \A d \in 0 .. len : On(f[d])
  <2> DEFINE G == {k \in Nat : k > len \/ On(f[len - k])}
  <2>1. 0 \in G
    BY <1>0, <1>2
  <2>2. ASSUME NEW k \in Nat, k \in G PROVE k + 1 \in G
    <3> SUFFICES ASSUME k + 1 <= len PROVE On(f[len - (k + 1)])
      BY <1>0
    <3> DEFINE e == len - (k + 1)
    <3>1. e \in 0 .. len - 1 /\ e + 1 = len - k
      BY <1>0
    <3>2. f[e + 1] = Hop(f[e])
      BY <1>3, <3>1
    <3>3. On(f[e + 1])
      BY <2>2, <3>1, <1>0
    <3>4. Exists(f[e]) \/ ~sql__view_exists(f[e]) => Hop(f[e]) = f[e]
      BY HopFacts
    <3> QED
      BY <3>2, <3>3, <3>4
  <2>3. \A k \in Nat : k \in G
    <3> HIDE DEF G
    <3> QED BY <2>1, <2>2, InductionOnSet
  <2>4. ASSUME NEW d \in 0 .. len PROVE On(f[d])
    <3>1. len - d \in Nat /\ len - (len - d) = d /\ ~(len - d > len)
      BY <1>0
    <3> QED BY <2>3, <3>1
  <2> QED
    BY <2>4
\* more names than views: one comes twice
<1> DEFINE Where(d) == Min(Registered(f[d], views))
           at == [d \in 0 .. len |-> Where(d)]
<1>5. \A d \in 0 .. len : at[d] \in 1 .. Len(views) /\ views[at[d]].name = f[d]
  <2> TAKE d \in 0 .. len
  <2>1. PICK v \in Range(views) : v.name = f[d] /\ f[d] \notin Odd
    BY <1>4, FoundFacts DEF sql__view_exists
  <2>2. Registered(f[d], views) # {} /\ views[Min(Registered(f[d], views))] = v
    BY <2>1, LookupFacts
  <2>3. Registered(f[d], views) \subseteq DOMAIN views /\ Registered(f[d], views) \subseteq Nat
    BY <1>0 DEF Registered
  <2>4. Min(Registered(f[d], views)) \in Registered(f[d], views)
    BY <2>2, <2>3, LeastElement DEF Min
  <2>5. at[d] = Min(Registered(f[d], views))
    OBVIOUS
  <2> HIDE DEF at
  <2> QED
    BY <1>0, <2>1, <2>2, <2>3, <2>4, <2>5
<1>6. PICK c \in 0 .. len, d \in 0 .. len : c # d /\ at[c] = at[d]
  <2>1. IsFiniteSet(0 .. len) /\ Cardinality(0 .. len) = len + 1
    BY <1>0, FS_Interval
  <2>2. IsFiniteSet(1 .. Len(views)) /\ Cardinality(1 .. Len(views)) = Len(views)
    BY <1>0, FS_Interval, SMTT(30)
  <2>3. at \in [0 .. len -> 1 .. Len(views)]
    BY <1>5
  <2> HIDE DEF at
  <2>4. Cardinality(1 .. Len(views)) < Cardinality(0 .. len)
    BY <1>0, <2>1, <2>2
  <2> QED
    BY <2>1, <2>2, <2>3, <2>4, FS_PigeonHole
<1>7. f[c] = f[d]
  BY <1>5, <1>6
\* what lies between is a circle
<1>8. ASSUME NEW a \in 0 .. len, NEW b \in 0 .. len, a < b, f[a] = f[b] PROVE FALSE
  <2> DEFINE S == {f[e] : e \in a .. b - 1}
  <2>1. a \in a .. b - 1 /\ \A e \in a .. b - 1 : e \in 0 .. len - 1 /\ e \in 0 .. len
    BY <1>0, <1>8
  <2>2. ASSUME NEW e \in a .. b - 1 PROVE f[e + 1] \in S
    <3>1. CASE e + 1 = b
      BY <1>8, <2>1, <3>1
    <3>2. CASE e + 1 # b
      <4>1. e + 1 \in a .. b - 1
        BY <1>0, <3>2
      <4> QED BY <4>1
    <3> QED BY <3>1, <3>2
  <2>3. ASSUME NEW e \in a .. b - 1
        PROVE  f[e] \in Names /\ \E v \in Range(views) : v.name = f[e] /\ f[e] \notin Odd /\ v.of \in S
    <3>1. e \in 0 .. len /\ On(f[e]) /\ f[e + 1] = Hop(f[e])
      BY <1>3, <1>4, <2>1
    <3>2. PICK v \in Range(views) : v.name = f[e] /\ f[e] \notin Odd /\ v \in View /\ Hop(f[e]) = v.of
      BY <3>1, HopFacts
    <3> QED
      BY <2>2, <3>1, <3>2 DEF View
  <2>4. S \in SUBSET Names /\ S # {}
    BY <2>1, <2>3
  <2>5. Circle(S, views)
    BY <2>3, <2>4 DEF Circle
  <2> QED
    BY <2>4, <2>5 DEF NoCircle
<1> QED
  BY <1>0, <1>6, <1>7, <1>8

\* A view of something that could be read closes no circle.
LEMMA NewViewClosesNone ==
    ASSUME views \in Seq(View), Unique(views), NoCircle(views), Apart,
           NEW w \in View, ~Exists(w.name), ~sql__view_exists(w.name), Resolves(w.of),
           NEW us, us = Append(views, w)
    PROVE  NoCircle(us)
<1> SUFFICES ASSUME NEW S \in SUBSET Names, Circle(S, us) PROVE FALSE
  BY DEF NoCircle
<1>1. Range(us) = Range(views) \cup {w}
  BY RegisterFacts
<1>2. \A v \in Range(views) : v.name # w.name \/ w.name \in Odd
  BY DEF sql__view_exists, Registered, Range
<1>3. w.name \in S /\ w.name \notin Odd
  <2> SUFFICES ASSUME ~(w.name \in S /\ w.name \notin Odd) PROVE Circle(S, views)
    BY DEF NoCircle
  <2> QED
    BY <1>1 DEF Circle
<1>4. w.of \in S
  BY <1>1, <1>2, <1>3 DEF Circle
<1> DEFINE len == Len(views) + 1
<1>5. len \in Nat
  OBVIOUS
<1>6. PICK f : f = [d \in 0 .. len |-> IF d = 0 THEN w.of ELSE Hop(f[d - 1])] /\ Source(w.of) = f[len]
  <2>1. len = Len(views) + 1
    OBVIOUS
  <2> HIDE DEF len
  <2> QED BY <1>5, <2>1, SourceUnfolds
<1>7. ASSUME NEW m \in S PROVE ~Exists(m) /\ Hop(m) \in S
  <2>1. CASE m = w.name
    BY <1>3, <2>1, HopFacts
  <2>2. CASE m # w.name
    <3>1. PICK v \in Range(views) : v.name = m /\ m \notin Odd /\ v.of \in S
      BY <1>1, <2>2 DEF Circle
    <3>2. Registered(m, views) # {} /\ views[Min(Registered(m, views))] = v
      BY <3>1, LookupFacts
    <3>3. sql__view_exists(m) /\ ~Exists(m)
      BY <3>2 DEF sql__view_exists, Apart
    <3> QED
      BY <3>1, <3>2, <3>3 DEF Hop, sql__lookup_view
  <2> QED BY <2>1, <2>2
<1> DEFINE G == {d \in Nat : f[d] \in S}
<1>8. 0 \in G
  BY <1>4, <1>5, <1>6
<1>9. ASSUME NEW d \in 0 .. len - 1, d \in G PROVE d + 1 \in G
  <2>1. f[d + 1] = Hop(f[d]) /\ d + 1 \in Nat
    BY <1>5, <1>6
  <2> QED BY <1>7, <1>9, <2>1
<1>10. len \in G
  <2> HIDE DEF G, len
  <2>1. \A d \in 0 .. len - 1 : d \in G => d + 1 \in G
    BY <1>9
  <2>2. \A d \in 0 .. len : d \in G
    BY <1>5, <1>8, <2>1, InductionUpTo
  <2> QED BY <1>5, <2>2
<1> QED
  BY <1>6, <1>7, <1>10 DEF Resolves

-----------------------------------------------------------------------------
(* The invariant.                                                          *)

\* What tables holds for a name.
Entry(t) == t.there \/ t = NoTable

\* The tables a save keeps existed still later; whatever a savepoint keeps, every
\* earlier one keeps too.
KeptIn(saves, ts) ==
    \A d \in DOMAIN saves, n \in Names : n \in DOMAIN saves[d].kept =>
        /\ Entry(saves[d].kept[n])
        /\ saves[d].kept[n].there => ts[n].there
        /\ \A c \in 1 .. d : /\ n \in DOMAIN saves[c].kept
                             /\ saves[c].kept[n].there => saves[d].kept[n].there

\* A table of BEGIN is in the first save, or as it was; a view of BEGIN is registered.
BegunIn(saves, begun, ts, vs) ==
    /\ \A n \in Names : begun.tables[n].there =>
          IF n \in DOMAIN saves[1].kept THEN saves[1].kept[n] = begun.tables[n] ELSE ts[n] = begun.tables[n]
    /\ \A i \in DOMAIN begun.views : begun.views[i] \in Range(vs)

\* What a rollback brings back is not a table n.
Free(n) == Open =>
    /\ ~tx.begun.tables[n].there
    /\ \A d \in DOMAIN tx.saves : n \in DOMAIN tx.saves[d].kept => ~tx.saves[d].kept[n].there

\* What a filter on n finds was not there at BEGIN.
FreeView(n) == Open => n \in Odd \/ \A i \in DOMAIN tx.begun.views : tx.begun.views[i].name # n

Shape ==
    /\ tables = [n \in Names |-> tables[n]] /\ \A n \in Names : Entry(tables[n])
    /\ views \in Seq(View) /\ Unique(views)
    /\ tx = [failed |-> tx.failed, saves |-> tx.saves, begun |-> tx.begun]
    /\ Open => Listed(tx.saves) /\ Len(tx.saves) >= 1
    /\ Open => KeptIn(tx.saves, tables) /\ BegunIn(tx.saves, tx.begun, tables, views)

WithFields == {"op", "ctes", "main", "stage", "added", "gone", "st", "rows", "before", "clean"}
WithInv ==
    /\ run.op = "with" /\ DOMAIN run = WithFields
    /\ run.ctes \in Seq(View)
    /\ run.added \in 0 .. Len(run.ctes) /\ run.gone \in 0 .. run.added
    /\ run.stage = "add" => run.added < Len(run.ctes)
    /\ \A i \in 1 .. run.added : FreeView(run.ctes[i].name)
RecursiveFields == {"op", "name", "edges", "all", "flaw", "base", "acc", "stage", "round", "created",
                    "st", "rows", "before", "clean"}
RecursiveInv ==
    /\ run.op = "recursive" /\ DOMAIN run = RecursiveFields
    /\ run.name \in Names /\ Free(run.name)
RunInv == run = Idle \/ WithInv \/ RecursiveInv

ApartIn(ts, vs) == \A n \in Names : ~(ts[n].there /\ Registered(n, vs) # {})
AcyclicInv == ~collided => ApartIn(tables, views) /\ NoCircle(views)

Inv == Shape /\ RunInv /\ AcyclicInv

-----------------------------------------------------------------------------
(* What a step does to the tables, the views and the transaction.          *)

Stays == UNCHANGED <<tables, views, tx, collided>>
Placed(n, t) ==
    /\ Entry(t)
    /\ tables' = [tables EXCEPT ![n] = t]
    /\ ~collided' => ~collided /\ ~(t.there /\ sql__view_exists(n))
Wrote(n, t, b) ==
    /\ Exists(n) => t.there
    /\ Placed(n, t) /\ UNCHANGED views
    /\ tx' = IF Open THEN [Touch(n) EXCEPT !.failed = b] ELSE tx
PutFree(n, t) == Free(n) /\ Placed(n, t) /\ UNCHANGED <<views, tx>>
Registers(w) ==
    /\ ~Exists(w.name) /\ ~sql__view_exists(w.name) /\ Resolves(w.of)
    /\ views' = Append(views, w) /\ UNCHANGED <<tables, tx, collided>>
Unregisters(n) == FreeView(n) /\ views' = Unregistered(n, views) /\ UNCHANGED <<tables, tx, collided>>
Begins ==
    /\ tx' = [failed |-> FALSE, saves |-> <<[name |-> "tx", kept |-> << >>]>>, begun |-> Before]
    /\ UNCHANGED <<tables, views, collided>>
Ends == tx' = NoTx /\ UNCHANGED <<tables, views, collided>>
Shortens ==
    /\ Open /\ \E q : /\ Listed(q) /\ Len(q) \in 1 .. Len(tx.saves)
                      /\ \A i \in 1 .. Len(q) : q[i] = tx.saves[i]
                      /\ tx' = [tx EXCEPT !.saves = q]
    /\ UNCHANGED <<tables, views, collided>>
Saves ==
    /\ Open /\ \E s : tx' = [tx EXCEPT !.saves = Append(@, [name |-> s, kept |-> << >>])]
    /\ UNCHANGED <<tables, views, collided>>
RollsBack ==
    /\ Open /\ tables' = Restored(tx.saves[1].kept) /\ tx' = NoTx
    /\ UNCHANGED <<views, collided>>
RollsBackTo(d) ==
    /\ Open /\ tables' = Restored(tx.saves[d].kept)
    /\ \E s : tx' = [tx EXCEPT !.failed = FALSE, !.saves = Append(SubSeq(tx.saves, 1, d - 1), [name |-> s, kept |-> << >>])]
    /\ UNCHANGED <<views, collided>>

Effect ==
    \/ Stays
    \/ \E n \in Names : \E t, b : Wrote(n, t, b)
    \/ \E n \in Names : \E t : PutFree(n, t)
    \/ \E w \in View : Registers(w)
    \/ \E n : Unregisters(n)
    \/ Begins \/ Ends \/ Shortens \/ Saves \/ RollsBack
    \/ \E d \in 2 .. Len(tx.saves) : RollsBackTo(d)

-----------------------------------------------------------------------------
\* Rows added to a table leave a table.
LEMMA AddedThere == ASSUME NEW t, NEW rs PROVE Added(t, rs).there /\ Entry(Added(t, rs))
  BY DEF Added, Appended, Table, Entry

\* A failing add leaves a table that was there.
LEMMA PartialThere ==
    ASSUME NEW t, NEW rs, NEW u \in Partial(t, rs)
    PROVE  (t.there => u.there) /\ Entry(u)
  BY AddedThere DEF Partial, Entry, Fresh, Table

\* A call through db->sql_tx writes one table, which the transaction has kept.
LEMMA DbWriteEffect ==
    ASSUME NEW n, NEW t, NEW ok, Exists(n) => t.there, Entry(t), sql__db_write(n, t, ok), UNCHANGED views
    PROVE  \E u, b : Wrote(n, u, b)
<1> WITNESS t, ~ok
<1> QED BY DEF sql__db_write, Wrote, Put, Placed

\* A call on a missing table writes nothing, but marks the transaction.
LEMMA NoSuchTableEffect ==
    ASSUME Shape, NEW op, NEW n \in Names, NoSuchTable(op, n)
    PROVE  run' = Idle /\ reply'.op = op /\ (Stays \/ \E u, b : Wrote(n, u, b))
<1>1. run' = Idle /\ reply'.op = op
  BY DEF NoSuchTable, Fail, Reply
<1>2. CASE UNCHANGED tx
  BY <1>1, <1>2 DEF NoSuchTable, Stays
<1>3. CASE Open /\ tx' = [Touch(n) EXCEPT !.failed = TRUE]
  <2>0. tables' = tables /\ collided' = collided /\ ~tables[n].there /\ views' = views
    BY DEF NoSuchTable, Exists
  <2>1. tables' = [tables EXCEPT ![n] = tables[n]]
    BY <2>0 DEF Shape
  <2>3. Wrote(n, tables[n], TRUE)
    BY <1>3, <2>0, <2>1 DEF Wrote, Placed, Exists, Shape
  <2> QED BY <1>1, <2>3
<1> QED
  BY <1>2, <1>3 DEF NoSuchTable

\* What a write that has a table to work on does.
WriteEffect(op, n) == run' = Idle /\ reply'.op = op /\ (Stays \/ \E t, b : Wrote(n, t, b))

\* A reply names its statement.
LEMMA ReplyOp == \A op, n, st, a, rs, args : Reply(op, n, st, a, rs, args).op = op
  BY DEF Reply

\* A refused statement changes nothing and says so.
LEMMA RefuseEffect ==
    ASSUME NEW op, NEW n, NEW m, Refuse(op, n)
    PROVE  Stays /\ WriteEffect(op, m) /\ reply'.st = "failed"
  BY DEF Refuse, Fail, Reply, WriteEffect, Stays

\* INSERT writes its table, wherever it ends.
LEMMA InsertRowsEffect ==
    ASSUME NEW op, NEW n, NEW rs, NEW ending, NEW args,
           InsertRows(op, n, rs, ending, args)
    PROVE  WriteEffect(op, n)
<1>1. ASSUME NEW a, NEW r, Exec(op, n, a, r, args) \/ Fail(op, n, a, args)
      PROVE  run' = Idle /\ reply'.op = op
  BY <1>1, ReplyOp DEF Exec, Fail
<1>2. CASE /\ IF rs = << >> THEN UNCHANGED <<tables, tx, collided>>
                            ELSE sql__db_write(n, Added(tables[n], rs), TRUE)
           /\ run' = Idle /\ reply'.op = op
  <2>1. UNCHANGED views
    BY DEF InsertRows
  <2>2. CASE rs = << >>
    BY <1>2, <2>1, <2>2 DEF Stays, WriteEffect
  <2>3. CASE rs # << >>
    <3>1. \E u, b : Wrote(n, u, b)
      BY <1>2, <2>1, <2>3, AddedThere, DbWriteEffect
    <3> QED BY <1>2, <3>1 DEF WriteEffect
  <2> QED BY <2>2, <2>3
<1>3. CASE Fail(op, n, Counted(op, 0), args) /\ UNCHANGED <<tables, tx, collided, faults>>
  BY <1>3, ReplyOp DEF InsertRows, Fail, WriteEffect, Stays
<1>4. CASE \E i \in 0 .. Len(rs) - 1 : \E t \in Partial(tables[n], SubSeq(rs, 1, i)) :
                sql__db_write(n, t, FALSE) /\ Fail(op, n, Counted(op, i), args)
  <2>1. UNCHANGED views
    BY DEF InsertRows
  <2>2. PICK i \in 0 .. Len(rs) - 1 : \E t \in Partial(tables[n], SubSeq(rs, 1, i)) :
                sql__db_write(n, t, FALSE) /\ Fail(op, n, Counted(op, i), args)
    BY <1>4
  <2>3. PICK t \in Partial(tables[n], SubSeq(rs, 1, i)) :
                sql__db_write(n, t, FALSE) /\ Fail(op, n, Counted(op, i), args)
    BY <2>2
  <2>4. (Exists(n) => t.there) /\ Entry(t)
    BY PartialThere DEF Exists
  <2>5. \E u, b : Wrote(n, u, b)
    BY <2>1, <2>3, <2>4, DbWriteEffect
  <2> QED BY <2>3, <2>5, ReplyOp DEF Fail, WriteEffect
<1> QED
  BY <1>1, <1>2, <1>3, <1>4 DEF InsertRows

\* UPDATE and DELETE on a table that is there, and the branches they share.
LEMMA WriteFailsEffect ==
    ASSUME NEW op, NEW n, NEW args, WriteFails(op, n, args)
    PROVE  WriteEffect(op, n)
<1>1. UNCHANGED views /\ run' = Idle /\ reply'.op = op /\ Exists(n)
  BY ReplyOp DEF WriteFails, Fail
<1>2. CASE UNCHANGED <<tables, tx, collided, faults>>
  BY <1>1, <1>2 DEF WriteEffect, Stays
<1>3. CASE sql__db_write(n, tables[n], FALSE)
  <2>1. \E u, b : Wrote(n, u, b)
    BY <1>1, <1>3, DbWriteEffect DEF Exists, Entry
  <2> QED BY <1>1, <2>1 DEF WriteEffect
<1> QED
  BY <1>2, <1>3 DEF WriteFails

\* Without a row that matches, nothing is written.
LEMMA NothingToDoEffect ==
    ASSUME NEW op, NEW n, NEW where, NEW args, NothingToDo(op, n, where, args)
    PROVE  WriteEffect(op, n)
  BY ReplyOp DEF NothingToDo, Exec, WriteEffect, Stays

\* The rows a write leaves in a table it found.
LEMMA RewriteEffect ==
    ASSUME NEW op, NEW n, NEW rs, sql__db_write(n, WithRows(n, rs), TRUE), UNCHANGED views,
           run' = Idle, reply'.op = op
    PROVE  WriteEffect(op, n)
<1>1. WithRows(n, rs).there /\ Entry(WithRows(n, rs))
  BY DEF WithRows, Table, Entry
<1>2. \E u, b : Wrote(n, u, b)
  BY <1>1, DbWriteEffect
<1> QED
  BY <1>2 DEF WriteEffect

\* UPDATE writes its table or nothing.
LEMMA UpdateEffect ==
    ASSUME Shape, NEW n \in Names, NEW where, NEW set, sql__exec_update(n, where, set)
    PROVE  WriteEffect("update", n)
<1>1. CASE NoSuchTable("update", n)
  BY <1>1, NoSuchTableEffect DEF WriteEffect
<1>2. CASE WriteFails("update", n, <<where, set, {}>>)
  BY <1>2, WriteFailsEffect
<1>3. CASE NothingToDo("update", n, where, <<where, set, {}>>)
  BY <1>3, NothingToDoEffect
<1>4. ASSUME NEW cond, NEW rs, NEW args, sql__db_write(n, WithRows(n, Updated(n, cond, set)), TRUE),
             Exec("update", n, Len(Matched(n, cond)), rs, args), UNCHANGED <<views, faults>>
      PROVE  WriteEffect("update", n)
  <2>1. run' = Idle /\ reply'.op = "update"
    BY <1>4, ReplyOp DEF Exec
  <2> QED BY <1>4, <2>1, RewriteEffect
<1> QED
  BY <1>1, <1>2, <1>3, <1>4 DEF sql__exec_update

\* DELETE writes its table or nothing.
LEMMA DeleteEffect ==
    ASSUME Shape, NEW n \in Names, NEW where, sql__exec_delete(n, where)
    PROVE  WriteEffect("delete", n)
<1>1. CASE NoSuchTable("delete", n)
  BY <1>1, NoSuchTableEffect DEF WriteEffect
<1>2. CASE WriteFails("delete", n, <<where, None, {}>>)
  BY <1>2, WriteFailsEffect
<1>3. CASE NothingToDo("delete", n, where, <<where, None, {}>>)
  BY <1>3, NothingToDoEffect
<1>4. ASSUME NEW cond, NEW rs, NEW args, sql__db_write(n, WithRows(n, Remaining(n, cond)), TRUE),
             Exec("delete", n, Len(Matched(n, cond)), rs, args), UNCHANGED <<views, faults>>
      PROVE  WriteEffect("delete", n)
  <2>1. run' = Idle /\ reply'.op = "delete"
    BY <1>4, ReplyOp DEF Exec
  <2> QED BY <1>4, <2>1, RewriteEffect
<1> QED
  BY <1>1, <1>2, <1>3, <1>4 DEF sql__exec_delete

\* INSERT ... ON CONFLICT writes its table or nothing.
LEMMA UpsertEffect ==
    ASSUME NEW n \in Names, NEW r, NEW set, sql__exec_insert_on_conflict(n, r, set)
    PROVE  WriteEffect("upsert", n)
<1>1. CASE Refuse("upsert", n)
  BY <1>1, RefuseEffect
<1>2. CASE InsertRows("upsert", n, <<r>>, "ok", <<r, set, {}>>)
  BY <1>2, InsertRowsEffect
<1>3. CASE Upserted(n, r, set)
  <2>1. CASE /\ Exec("upsert", n, 0, None, <<r, set, {}>>)
             /\ UNCHANGED <<tables, views, tx, collided, faults>>
    BY <2>1, ReplyOp DEF Exec, WriteEffect, Stays
  <2>2. CASE WriteFails("upsert", n, <<r, set, {}>>)
    BY <2>2, WriteFailsEffect
  <2>3. ASSUME NEW rs, NEW args, sql__db_write(n, WithRows(n, Updated(n, Key(r), set)), TRUE),
               Exec("upsert", n, Len(Matched(n, Key(r))), rs, args), UNCHANGED <<views, faults>>
        PROVE  WriteEffect("upsert", n)
    <3>1. run' = Idle /\ reply'.op = "upsert"
      BY <2>3, ReplyOp DEF Exec
    <3> QED BY <2>3, <3>1, RewriteEffect
  <2> QED BY <1>3, <2>1, <2>2, <2>3 DEF Upserted
<1> QED
  BY <1>1, <1>2, <1>3 DEF sql__exec_insert_on_conflict

\* INSERT ... VALUES.
LEMMA InsertEffect ==
    ASSUME NEW n \in Names, NEW rs, NEW malformed, Insert(n, rs, malformed)
    PROVE  WriteEffect("insert", n)
<1>1. InsertRows("insert", n, rs, IF malformed THEN "silent" ELSE "ok", rs)
  BY DEF Insert
<1> QED BY <1>1, InsertRowsEffect

\* INSERT ... SELECT.
LEMMA InsertSelectEffect ==
    ASSUME NEW n \in Names, NEW of, InsertSelect(n, of)
    PROVE  WriteEffect("insert", n)
<1>1. CASE Refuse("insert", n)
  BY <1>1, RefuseEffect
<1>2. ASSUME NEW rs, NEW ending, NEW args, InsertRows("insert", n, rs, ending, args)
      PROVE  WriteEffect("insert", n)
  BY <1>2, InsertRowsEffect
<1> QED
  BY <1>1, <1>2 DEF InsertSelect

\* INSERT, UPDATE and DELETE write one table, if any.
LEMMA WritesEffect ==
    ASSUME Shape, Writes
    PROVE  \E n \in Names : \E op \in {"insert", "upsert", "update", "delete"} : WriteEffect(op, n)
<1>1. PICK n \in Names :
        \/ \E rs \in BoundedSeq(Tuples, 2) \ {<< >>}, b \in BOOLEAN : Insert(n, rs, b)
        \/ \E of \in Names : InsertSelect(n, of)
        \/ \E r \in Tuples, set \in Sets \cup {NoSet} : sql__exec_insert_on_conflict(n, r, set)
        \/ \E w \in Wheres, set \in Sets : sql__exec_update(n, w, set)
        \/ \E w \in Wheres : sql__exec_delete(n, w)
  BY DEF Writes
<1>2. CASE \E rs \in BoundedSeq(Tuples, 2) \ {<< >>}, b \in BOOLEAN : Insert(n, rs, b)
  BY <1>2, InsertEffect
<1>3. CASE \E of \in Names : InsertSelect(n, of)
  BY <1>3, InsertSelectEffect
<1>4. CASE \E r \in Tuples, set \in Sets \cup {NoSet} : sql__exec_insert_on_conflict(n, r, set)
  BY <1>4, UpsertEffect
<1>5. CASE \E w \in Wheres, set \in Sets : sql__exec_update(n, w, set)
  BY <1>5, UpdateEffect
<1>6. CASE \E w \in Wheres : sql__exec_delete(n, w)
  BY <1>6, DeleteEffect
<1> QED
  BY <1>1, <1>2, <1>3, <1>4, <1>5, <1>6

-----------------------------------------------------------------------------
(* The transaction's own statements, schema statements, WITH.              *)

\* BEGIN, COMMIT, ROLLBACK and savepoints change the transaction, and only a
\* rollback changes the tables.
LEMMA TransactionEffect ==
    ASSUME Shape, Transaction
    PROVE  Effect /\ run' = Idle
<1>0. /\ \A q : Listed(q) => Len(q) \in Nat
      /\ Open => Head(tx.saves) = tx.saves[1] /\ Listed(tx.saves) /\ Len(tx.saves) \in Nat /\ Len(tx.saves) >= 1
  BY DEF Shape, Listed
<1>1. ASSUME NEW op, NEW n, Refuse(op, n) PROVE Effect /\ run' = Idle
  BY <1>1, RefuseEffect DEF Effect, WriteEffect
<1>2. CASE sql__begin_tx
  BY <1>1, <1>2 DEF sql__begin_tx, Effect, Begins, Exec
<1>3. CASE sql__exec_commit
  <2>1. CASE tx' = NoTx /\ NoFault /\ Exec("commit", "none", NotSet, None, None)
    BY <1>3, <2>1 DEF sql__exec_commit, Effect, Ends, Exec, Refuse, Fail
  <2>2. CASE Open /\ tx' = [tx EXCEPT !.saves = <<Head(@)>>] /\ Fault /\ Fail("commit", "none", NotSet, None)
    <3> DEFINE q == <<Head(tx.saves)>>
    <3>1. Listed(q) /\ Len(q) = 1 /\ q[1] = tx.saves[1]
      BY <1>0, <2>2, SingleFacts
    <3>2. Len(q) \in 1 .. Len(tx.saves) /\ \A i \in 1 .. Len(q) : q[i] = tx.saves[i]
      BY <1>0, <2>2, <3>1
    <3>3. tx' = [tx EXCEPT !.saves = q] /\ UNCHANGED <<tables, views, collided>> /\ run' = Idle
      BY <1>3, <2>2 DEF sql__exec_commit, Refuse, Fail
    <3> QED BY <2>2, <3>1, <3>2, <3>3 DEF Effect, Shortens
  <2> QED BY <1>1, <1>3, <2>1, <2>2 DEF sql__exec_commit
<1>4. CASE sql__exec_rollback
  BY <1>0, <1>1, <1>4 DEF sql__exec_rollback, Effect, RollsBack, Exec
<1>5. ASSUME NEW s \in Savepoints, RollbackTo(s) PROVE Effect /\ run' = Idle
  <2>1. ASSUME NEW d \in Depth(s), tables' = Restored(tx.saves[d].kept),
               tx' = [tx EXCEPT !.failed = FALSE,
                      !.saves = Append(SubSeq(tx.saves, 1, d - 1), [name |-> s, kept |-> << >>])],
               Exec("rollback_to", s, NotSet, None, None), UNCHANGED <<views, collided, faults>>
        PROVE  Effect /\ run' = Idle
    <3>1. d \in 2 .. Len(tx.saves)
      BY DEF Depth
    <3>2. Open
      BY <3>1 DEF Open, NoTx
    <3>3. RollsBackTo(d)
      BY <2>1, <3>2 DEF RollsBackTo
    <3> QED BY <2>1, <3>1, <3>3 DEF Effect, Exec
  <2> QED BY <1>1, <1>5, <2>1 DEF RollbackTo
<1>6. ASSUME NEW s \in Savepoints, sql__exec_savepoint(s) PROVE Effect /\ run' = Idle
  BY <1>1, <1>6 DEF sql__exec_savepoint, Effect, Saves, Exec
<1>7. ASSUME NEW s \in Savepoints, sql__exec_release_savepoint(s) PROVE Effect /\ run' = Idle
  <2>1. ASSUME NEW d \in Depth(s), tx' = [tx EXCEPT !.saves = SubSeq(@, 1, d - 1)],
               Exec("release", s, NotSet, None, None), UNCHANGED <<tables, views, collided, faults>>
        PROVE  Effect /\ run' = Idle
    <3>1. d \in 2 .. Len(tx.saves)
      BY DEF Depth
    <3>2. Open
      BY <3>1 DEF Open, NoTx
    <3> DEFINE q == SubSeq(tx.saves, 1, d - 1)
    <3>3. d - 1 \in 0 .. Len(tx.saves)
      BY <1>0, <3>1, <3>2
    <3>4. Listed(q) /\ Len(q) = d - 1 /\ \A i \in 1 .. d - 1 : q[i] = tx.saves[i]
      BY <1>0, <3>2, <3>3, PrefixFacts
    <3>5. Len(q) \in 1 .. Len(tx.saves)
      BY <1>0, <3>1, <3>2, <3>4
    <3>6. Shortens
      <4>1. tx' = [tx EXCEPT !.saves = q]
        BY <2>1
      <4> HIDE DEF q
      <4> QED BY <2>1, <3>2, <3>4, <3>5, <4>1 DEF Shortens
    <3> QED BY <2>1, <3>6 DEF Effect, Exec
  <2> QED BY <1>1, <1>7, <2>1 DEF sql__exec_release_savepoint
<1> QED
  BY <1>2, <1>3, <1>4, <1>5, <1>6, <1>7 DEF Transaction

\* A name that is no table, or no view a filter finds, is free.
LEMMA AbsentFree == ASSUME Shape, NEW n \in Names, ~Exists(n) PROVE Free(n)
<1> SUFFICES ASSUME Open PROVE /\ ~tx.begun.tables[n].there
                               /\ \A d \in DOMAIN tx.saves : n \in DOMAIN tx.saves[d].kept => ~tx.saves[d].kept[n].there
  BY DEF Free
<1>1. KeptIn(tx.saves, tables) /\ BegunIn(tx.saves, tx.begun, tables, views) /\ ~tables[n].there
  BY DEF Shape, Exists
<1>2. \A d \in DOMAIN tx.saves : n \in DOMAIN tx.saves[d].kept => ~tx.saves[d].kept[n].there
  BY <1>1 DEF KeptIn
<1>3. 1 \in DOMAIN tx.saves
  BY DEF Shape, Listed
<1> QED
  BY <1>1, <1>2, <1>3 DEF BegunIn

\* A name no filter finds was not registered at BEGIN.
LEMMA UnseenFree == ASSUME Shape, NEW n, ~sql__view_exists(n) PROVE FreeView(n)
<1> SUFFICES ASSUME Open, n \notin Odd, NEW i \in DOMAIN tx.begun.views, tx.begun.views[i].name = n PROVE FALSE
  BY DEF FreeView
<1>1. tx.begun.views[i] \in Range(views)
  BY DEF Shape, BegunIn
<1> QED
  BY <1>1 DEF sql__view_exists, Registered, Range

\* A table written past the transaction is one that it need not restore.
LEMMA PutEffect ==
    ASSUME NEW n \in Names, NEW t, Free(n), Entry(t), Put(n, t), UNCHANGED <<views, tx>>
    PROVE  Effect
  BY DEF Put, PutFree, Placed, Effect

\* CREATE and DROP run when no transaction is open.
LEMMA SchemasEffect ==
    ASSUME Shape, Schemas
    PROVE  Effect /\ run' = Idle
<1>1. ASSUME NEW op, NEW n, Refuse(op, n) PROVE Effect /\ run' = Idle
  BY <1>1, RefuseEffect DEF Effect, WriteEffect
<1>2. CASE SchemaInTx
  BY <1>1, <1>2 DEF SchemaInTx
<1>3. ASSUME NEW n \in Names, sql__exec_create_table(n) PROVE Effect /\ run' = Idle
  BY <1>1, <1>3, PutEffect DEF sql__exec_create_table, Schema, Free, Exec, Entry, Fresh, Table
<1>4. ASSUME NEW n \in Names, sql__exec_drop_table(n) PROVE Effect /\ run' = Idle
  BY <1>4, PutEffect DEF sql__exec_drop_table, Schema, Free, Exec, Entry
<1>5. ASSUME NEW n \in Names, sql__exec_drop_view(n) PROVE Effect /\ run' = Idle
  BY <1>1, <1>5 DEF sql__exec_drop_view, Schema, FreeView, Unregisters, Effect, Exec
<1>6. ASSUME NEW n \in Names, NEW of \in Names, sql__exec_create_view(n, of) PROVE Effect /\ run' = Idle
  <2>1. CASE /\ ~Exists(n) /\ ~sql__view_exists(n) /\ Resolves(of)
             /\ views' = Append(views, [name |-> n, of |-> of])
             /\ Exec("view", n, NotSet, None, None)
             /\ UNCHANGED <<tables, tx, collided, faults>>
    <3> DEFINE w == [name |-> n, of |-> of]
    <3>1. w \in View /\ w.name = n /\ w.of = of
      BY DEF View
    <3>2. views' = Append(views, w)
      BY <2>1
    <3> HIDE DEF w
    <3>3. Registers(w)
      BY <2>1, <3>1, <3>2 DEF Registers
    <3> QED BY <2>1, <3>1, <3>3 DEF Effect, Exec
  <2> QED BY <1>1, <1>6, <2>1 DEF sql__exec_create_view
<1> QED
  BY <1>2, <1>3, <1>4, <1>5, <1>6 DEF Schemas

\* A WITH statement starts by writing nothing, or the recursion's own new table.
LEMMA WithsEffect ==
    ASSUME Shape, Withs
    PROVE  Effect
<1>1. ASSUME NEW w \in CteLists, sql__exec_with_stmt(w[1], w[2]) PROVE Effect
  BY <1>1 DEF sql__exec_with_stmt, Effect, Stays
<1>2. ASSUME NEW w \in Recursions, sql__exec_with_recursive_stmt(w.name, w.base, w.edges, w.all, w.flaw) PROVE Effect
  <2>1. w.name \in Names
    BY SqlAssumption
  <2>2. UNCHANGED <<views, tx>>
    BY <1>2 DEF sql__exec_with_recursive_stmt
  <2>3. CASE UNCHANGED <<tables, collided, faults>>
    BY <2>2, <2>3 DEF Effect, Stays
  <2>4. ASSUME ~Exists(w.name), NEW t, Entry(t), Put(w.name, t) PROVE Effect
    BY <2>1, <2>2, <2>4, AbsentFree, PutEffect
  <2> QED BY <1>2, <2>3, <2>4, AddedThere, PartialThere DEF sql__exec_with_recursive_stmt
<1> QED
  BY <1>1, <1>2 DEF Withs

\* A WITH statement goes on with its own names only.
LEMMA StepEffect ==
    ASSUME Shape, RunInv, Step
    PROVE  Effect
<1> DEFINE Quiet == UNCHANGED <<tables, views, tx, collided>>
<1>1. CASE WithAdd
  <2>1. UNCHANGED <<tables, tx, collided>>
    BY <1>1 DEF WithAdd, Continue
  <2>2. WithInv /\ run.stage = "add"
    BY <1>1 DEF WithAdd, RunInv, Idle, RecursiveInv
  <2>3. Cte \in View
    BY <2>2 DEF WithInv, Cte
  <2>4. CASE UNCHANGED views
    BY <2>1, <2>4 DEF Effect, Stays
  <2>5. CASE ~CteRefused /\ views' = Append(views, Cte)
    <3>1. Registers(Cte)
      BY <2>1, <2>5 DEF CteRefused, Registers
    <3> QED BY <2>3, <3>1 DEF Effect
  <2> QED BY <1>1, <2>4, <2>5 DEF WithAdd
<1>2. CASE WithMain
  BY <1>2 DEF WithMain, Continue, Effect, Stays
<1>3. CASE WithDrop
  <2>1. UNCHANGED <<tables, tx, collided>>
    BY <1>3 DEF WithDrop, Continue
  <2>2. WithInv /\ run.gone < run.added
    BY <1>3 DEF WithDrop, RunInv, Idle, RecursiveInv
  <2>3. FreeView(run.ctes[run.gone + 1].name)
    BY <2>2 DEF WithInv
  <2>4. CASE UNCHANGED views
    BY <2>1, <2>4 DEF Effect, Stays
  <2>5. CASE views' = Unregistered(run.ctes[run.gone + 1].name, views)
    BY <2>1, <2>3, <2>5 DEF Unregisters, Effect
  <2> QED BY <1>3, <2>4, <2>5 DEF WithDrop
<1>4. CASE WithReturn
  BY <1>4 DEF WithReturn, Effect, Stays
<1>5. ASSUME run.op = "recursive", UNCHANGED <<views, tx>>, UNCHANGED <<tables, collided>> \/ \E t : Entry(t) /\ Put(run.name, t)
      PROVE  Effect
  <2>1. RecursiveInv
    BY <1>5 DEF RunInv, Idle, WithInv
  <2>2. CASE UNCHANGED <<tables, collided>>
    BY <1>5, <2>2 DEF Effect, Stays
  <2>3. CASE \E t : Entry(t) /\ Put(run.name, t)
    BY <1>5, <2>1, <2>3, PutEffect DEF RecursiveInv
  <2> QED BY <1>5, <2>2, <2>3
<1>6. CASE RecRound
  BY <1>5, <1>6, AddedThere, PartialThere DEF RecRound, Continue
<1>7. CASE RecDiverges
  BY <1>5, <1>7 DEF RecDiverges, Continue
<1>8. CASE RecFinal
  BY <1>5, <1>8, AddedThere, PartialThere DEF RecFinal, Continue
<1>9. CASE RecMain
  BY <1>5, <1>9 DEF RecMain, Continue
<1>10. CASE RecCleanup
  BY <1>5, <1>10 DEF RecCleanup, Entry
<1> QED
  BY <1>1, <1>2, <1>3, <1>4, <1>6, <1>7, <1>8, <1>9, <1>10 DEF Step

\* The next kdb_open rolls an open transaction back.
LEMMA RestartEffect ==
    ASSUME Shape, Restart
    PROVE  Effect /\ run' = Idle
<1>1. CASE Open
  BY <1>1 DEF Shape, Listed, Restart, RollsBack, Effect
<1>2. CASE ~Open
  BY <1>2 DEF Restart, Open, Stays, Effect
<1> QED
  BY <1>1, <1>2

\* Every step of the connection is one of the above.
LEMMA NextEffect ==
    ASSUME Shape, RunInv, Next
    PROVE  Effect
<1>1. CASE Writes
  <2>1. PICK n \in Names : \E op \in {"insert", "upsert", "update", "delete"} : WriteEffect(op, n)
    BY <1>1, WritesEffect
  <2> QED BY <2>1 DEF WriteEffect, Effect
<1>2. ASSUME NEW n \in Names, sql__exec_select_stmt(n) PROVE Effect
  BY <1>2, RefuseEffect DEF sql__exec_select_stmt, Effect, Stays
<1>3. CASE Crash \/ StackOverflow
  BY <1>3, RestartEffect DEF Crash, StackOverflow
<1> QED
  BY <1>1, <1>2, <1>3, TransactionEffect, SchemasEffect, WithsEffect, StepEffect DEF Next

-----------------------------------------------------------------------------
(* What the saves of a transaction keep.                                   *)

\* The saves p keep what the saves q keep, and the table n as it is.
Touched(q, n) == [d \in DOMAIN q |-> Keep(q[d], n)]
KeepsToo(p, q, n) ==
    \A d \in DOMAIN q :
        /\ DOMAIN p[d].kept = DOMAIN q[d].kept \cup {n}
        /\ \A m \in DOMAIN p[d].kept :
              p[d].kept[m] = IF m \in DOMAIN q[d].kept THEN q[d].kept[m] ELSE tables[n]

\* kdb__tx_touch does that for every save.
LEMMA TouchFacts ==
    ASSUME NEW q, Listed(q), NEW n, NEW p, p = Touched(q, n)
    PROVE  Listed(p) /\ Len(p) = Len(q) /\ DOMAIN p = DOMAIN q /\ KeepsToo(p, q, n)
<1>1. Len(q) \in Nat /\ DOMAIN q = 1 .. Len(q)
  BY DEF Listed
<1>2. p = [d \in DOMAIN p |-> p[d]] /\ DOMAIN p = 1 .. Len(q)
  BY <1>1 DEF Touched
<1>3. Listed(p) /\ Len(p) = Len(q)
  BY <1>1, <1>2, ListedBy
<1>4. \A d \in DOMAIN q : p[d] = Keep(q[d], n)
  BY DEF Touched
<1>5. \A s : Keep(s, n).kept = [m \in DOMAIN s.kept \cup {n} |-> IF m \in DOMAIN s.kept THEN s.kept[m] ELSE tables[n]]
  BY DEF Keep
<1>6. ASSUME NEW d \in DOMAIN q
      PROVE  /\ DOMAIN p[d].kept = DOMAIN q[d].kept \cup {n}
             /\ \A m \in DOMAIN p[d].kept : p[d].kept[m] =
                   IF m \in DOMAIN q[d].kept THEN q[d].kept[m] ELSE tables[n]
  <2>1. p[d].kept = [m \in DOMAIN q[d].kept \cup {n} |-> IF m \in DOMAIN q[d].kept THEN q[d].kept[m] ELSE tables[n]]
    BY <1>4, <1>5
  <2> QED BY <2>1
<1>7. DOMAIN p = DOMAIN q
  BY DEF Touched
<1>8. KeepsToo(p, q, n)
  BY <1>6 DEF KeepsToo
<1> QED
  BY <1>3, <1>7, <1>8

\* The first write of a table since a savepoint keeps it there.
LEMMA KeptTouched ==
    ASSUME NEW q, NEW p, DOMAIN p = DOMAIN q, NEW k \in Nat, DOMAIN q = 1 .. k, NEW n \in Names,
           KeepsToo(p, q, n),
           KeptIn(q, tables), tables = [m \in Names |-> tables[m]], \A m \in Names : Entry(tables[m]),
           NEW t, tables[n].there => t.there, NEW ts, ts = [tables EXCEPT ![n] = t]
    PROVE  KeptIn(p, ts)
<1> SUFFICES ASSUME NEW d \in DOMAIN p, NEW m \in Names, m \in DOMAIN p[d].kept
             PROVE  /\ Entry(p[d].kept[m])
                    /\ p[d].kept[m].there => ts[m].there
                    /\ \A c \in 1 .. d : /\ m \in DOMAIN p[c].kept
                                         /\ p[c].kept[m].there => p[d].kept[m].there
  BY DEF KeptIn
<1>1. \A x \in Names : tables[x].there => ts[x].there
  OBVIOUS
<1> USE DEF KeepsToo
<1>2. CASE m \in DOMAIN q[d].kept
  <2>1. p[d].kept[m] = q[d].kept[m] /\ Entry(q[d].kept[m]) /\ (q[d].kept[m].there => tables[m].there)
    BY <1>2 DEF KeptIn
  <2>2. ASSUME NEW c \in 1 .. d PROVE m \in DOMAIN p[c].kept /\ (p[c].kept[m].there => p[d].kept[m].there)
    <3>1. c \in DOMAIN q /\ m \in DOMAIN q[c].kept /\ (q[c].kept[m].there => q[d].kept[m].there)
      BY <1>2 DEF KeptIn
    <3>2. m \in DOMAIN p[c].kept /\ p[c].kept[m] = q[c].kept[m]
      BY <3>1
    <3> QED BY <2>1, <3>1, <3>2
  <2> QED BY <1>1, <2>1, <2>2
<1>3. CASE m \notin DOMAIN q[d].kept
  <2>1. m = n /\ p[d].kept[m] = tables[m]
    BY <1>3
  <2>2. ASSUME NEW c \in 1 .. d PROVE m \in DOMAIN p[c].kept /\ (p[c].kept[m].there => p[d].kept[m].there)
    <3>1. c \in DOMAIN q /\ m \in DOMAIN p[c].kept
      BY <2>1
    <3>2. CASE m \in DOMAIN q[c].kept
      <4>1. p[c].kept[m] = q[c].kept[m] /\ (q[c].kept[m].there => tables[m].there)
        BY <3>1, <3>2 DEF KeptIn
      <4> QED BY <2>1, <3>1, <4>1
    <3>3. CASE m \notin DOMAIN q[c].kept
      <4>1. p[c].kept[m] = tables[m]
        BY <2>1, <3>1, <3>3
      <4> QED BY <2>1, <3>1, <4>1
    <3> QED BY <3>2, <3>3
  <2> QED BY <1>1, <2>1, <2>2
<1> QED
  BY <1>2, <1>3

\* A table that is written was in the first save or is put there, as it was at BEGIN.
LEMMA BegunTouched ==
    ASSUME NEW q, NEW p, 1 \in DOMAIN q, NEW n \in Names,
           KeepsToo(p, q, n),
           NEW begun, NEW vs, BegunIn(q, begun, tables, vs), tables = [m \in Names |-> tables[m]],
           NEW t, NEW ts, ts = [tables EXCEPT ![n] = t]
    PROVE  BegunIn(p, begun, ts, vs)
<1> USE DEF KeepsToo
<1>1. ASSUME NEW m \in Names, begun.tables[m].there
      PROVE  IF m \in DOMAIN p[1].kept THEN p[1].kept[m] = begun.tables[m] ELSE ts[m] = begun.tables[m]
  <2>1. IF m \in DOMAIN q[1].kept THEN q[1].kept[m] = begun.tables[m] ELSE tables[m] = begun.tables[m]
    BY <1>1 DEF BegunIn
  <2>2. m \in DOMAIN q[1].kept => m \in DOMAIN p[1].kept /\ p[1].kept[m] = q[1].kept[m]
    OBVIOUS
  <2>3. m \notin DOMAIN q[1].kept /\ m = n => m \in DOMAIN p[1].kept /\ p[1].kept[m] = tables[m]
    OBVIOUS
  <2>4. m # n => ts[m] = tables[m] /\ (m \in DOMAIN p[1].kept => m \in DOMAIN q[1].kept)
    OBVIOUS
  <2> QED BY <2>1, <2>2, <2>3, <2>4
<1> QED
  BY <1>1 DEF BegunIn

\* A save whose name is used no more changes nothing of the earlier ones.
LEMMA KeptShortened ==
    ASSUME NEW q, NEW p, NEW k \in Nat, DOMAIN q = 1 .. k, NEW j \in 1 .. k, DOMAIN p = 1 .. j,
           \A i \in 1 .. j : p[i] = q[i], NEW ts, KeptIn(q, ts)
    PROVE  /\ KeptIn(p, ts)
           /\ \A begun, vs : BegunIn(q, begun, ts, vs) => BegunIn(p, begun, ts, vs)
<1>1. p[1] = q[1] /\ \A i \in DOMAIN p : i \in DOMAIN q /\ p[i] = q[i] /\ \A c \in 1 .. i : c \in DOMAIN p
  OBVIOUS
<1> QED
  BY <1>1 DEF KeptIn, BegunIn

\* A new savepoint keeps nothing yet.
LEMMA KeptAppended ==
    ASSUME NEW q, NEW p, NEW k \in Nat, DOMAIN q = 1 .. k, k >= 1, DOMAIN p = 1 .. k + 1,
           \A i \in 1 .. k : p[i] = q[i], DOMAIN p[k + 1].kept = {}, NEW ts, KeptIn(q, ts)
    PROVE  /\ KeptIn(p, ts)
           /\ \A begun, vs : BegunIn(q, begun, ts, vs) => BegunIn(p, begun, ts, vs)
<1>1. p[1] = q[1]
  OBVIOUS
<1>2. ASSUME NEW d \in DOMAIN p, NEW n \in Names, n \in DOMAIN p[d].kept
      PROVE  d \in DOMAIN q /\ p[d] = q[d] /\ \A c \in 1 .. d : p[c] = q[c]
  BY <1>2
<1>3. KeptIn(p, ts)
  BY <1>2 DEF KeptIn
<1> QED
  BY <1>1, <1>3 DEF BegunIn

\* What a save restores existed already, and leaves the earlier saves good.
LEMMA KeptRestored ==
    ASSUME NEW q, NEW k \in Nat, DOMAIN q = 1 .. k, NEW d \in 1 .. k, KeptIn(q, tables), \A n \in Names : Entry(tables[n]),
           NEW ts, ts = Restored(q[d].kept)
    PROVE  /\ \A n \in Names : (ts[n].there => tables[n].there) /\ Entry(ts[n])
           /\ \A c \in 1 .. d, n \in Names : n \in DOMAIN q[c].kept => (q[c].kept[n].there => ts[n].there)
           /\ \A begun, vs : BegunIn(q, begun, tables, vs) => BegunIn(q, begun, ts, vs)
<1>1. \A n \in Names : ts[n] = IF n \in DOMAIN q[d].kept THEN q[d].kept[n] ELSE tables[n]
  BY DEF Restored
<1>2. \A n \in Names : (ts[n].there => tables[n].there) /\ Entry(ts[n])
  BY <1>1 DEF KeptIn
<1>3. ASSUME NEW c \in 1 .. d, NEW n \in Names, n \in DOMAIN q[c].kept, q[c].kept[n].there PROVE ts[n].there
  <2>1. CASE n \in DOMAIN q[d].kept
    BY <1>1, <1>3, <2>1 DEF KeptIn
  <2>2. CASE n \notin DOMAIN q[d].kept
    <3>1. c \in DOMAIN q
      OBVIOUS
    <3> QED BY <1>1, <1>3, <2>2, <3>1 DEF KeptIn
  <2> QED BY <2>1, <2>2
<1>4. ASSUME NEW begun, NEW vs, BegunIn(q, begun, tables, vs) PROVE BegunIn(q, begun, ts, vs)
  <2>1. \A n \in Names : n \notin DOMAIN q[1].kept => ts[n] = tables[n]
    BY <1>1 DEF KeptIn
  <2> QED BY <1>4, <2>1 DEF BegunIn
<1> QED
  BY <1>2, <1>3, <1>4

-----------------------------------------------------------------------------
(* The tables, the views and the saves.                                    *)

\* What the proofs below use of the invariant.
LEMMA ShapeFacts ==
    ASSUME Shape
    PROVE  /\ tables = [n \in Names |-> tables[n]] /\ (\A n \in Names : Entry(tables[n])) /\ views \in Seq(View) /\ Unique(views)
           /\ tx = [failed |-> tx.failed, saves |-> tx.saves, begun |-> tx.begun]
           /\ Open => /\ Listed(tx.saves) /\ Len(tx.saves) \in Nat /\ Len(tx.saves) >= 1
                      /\ DOMAIN tx.saves = 1 .. Len(tx.saves) /\ 1 \in DOMAIN tx.saves
                      /\ KeptIn(tx.saves, tables) /\ BegunIn(tx.saves, tx.begun, tables, views)
  BY DEF Shape, Listed

\* Preservation, one lemma per kind of step.
LEMMA ShapeWrote ==
    ASSUME Shape, NEW n \in Names, NEW t, NEW b, Wrote(n, t, b)
    PROVE  Shape'
<1>1. tables' = [tables EXCEPT ![n] = t] /\ views' = views
  BY DEF Wrote, Placed
<1>2. tables' = [m \in Names |-> tables'[m]] /\ \A m \in Names : Entry(tables'[m])
  BY <1>1, ShapeFacts DEF Wrote, Placed
<1>3. CASE ~Open
  BY <1>1, <1>2, <1>3 DEF Shape, Wrote, Open
<1>4. CASE Open
  <2> DEFINE q == tx.saves
             p == Touched(q, n)
  <2>1. tx' = [failed |-> b, saves |-> p, begun |-> tx.begun]
    BY <1>4, ShapeFacts DEF Wrote, Touch, Touched
  <2>2. /\ Listed(q) /\ Len(q) \in Nat /\ Len(q) >= 1 /\ DOMAIN q = 1 .. Len(q) /\ 1 \in DOMAIN q
        /\ KeptIn(q, tables) /\ BegunIn(q, tx.begun, tables, views)
    BY <1>4, ShapeFacts
  <2>3. Listed(q) /\ p = Touched(q, n)
    BY <2>2
  <2>4. tables[n].there => t.there
    BY DEF Wrote, Exists
  <2> HIDE DEF p, q
  <2>5. Listed(p) /\ Len(p) = Len(q) /\ DOMAIN p = DOMAIN q /\ KeepsToo(p, q, n)
    BY <2>3, TouchFacts
  <2>6. KeptIn(p, tables')
    BY <1>1, <2>2, <2>4, <2>5, ShapeFacts, KeptTouched
  <2>7. BegunIn(p, tx.begun, tables', views)
    BY <1>1, <2>2, <2>5, ShapeFacts, BegunTouched
  <2>8. tx'.saves = p /\ tx'.begun = tx.begun /\ tx' = [failed |-> tx'.failed, saves |-> tx'.saves, begun |-> tx'.begun]
    BY <2>1
  <2> QED BY <1>1, <1>2, <2>2, <2>5, <2>6, <2>7, <2>8, ShapeFacts DEF Shape
<1> QED
  BY <1>3, <1>4

\* A table the saves do not know changes.
LEMMA ShapePutFree ==
    ASSUME Shape, NEW n \in Names, NEW t, PutFree(n, t)
    PROVE  Shape'
<1>1. tables' = [tables EXCEPT ![n] = t] /\ views' = views /\ tx' = tx
  BY DEF PutFree, Placed
<1>2. tables' = [m \in Names |-> tables'[m]] /\ \A m \in Names : Entry(tables'[m]) /\ (m # n => tables'[m] = tables[m])
  BY <1>1, ShapeFacts DEF PutFree, Placed
<1>3. ASSUME Open
      PROVE  KeptIn(tx.saves, tables') /\ BegunIn(tx.saves, tx.begun, tables', views)
  <2>1. /\ ~tx.begun.tables[n].there
        /\ \A d \in DOMAIN tx.saves : n \in DOMAIN tx.saves[d].kept => ~tx.saves[d].kept[n].there
    BY <1>3 DEF PutFree, Free
  <2>2. KeptIn(tx.saves, tables')
    <3>1. KeptIn(tx.saves, tables)
      BY <1>3, ShapeFacts
    <3>2. ASSUME NEW d \in DOMAIN tx.saves, NEW m \in Names, m \in DOMAIN tx.saves[d].kept, tx.saves[d].kept[m].there
          PROVE  tables'[m].there
      BY <1>2, <2>1, <3>1, <3>2 DEF KeptIn
    <3> QED BY <3>1, <3>2 DEF KeptIn
  <2>3. BegunIn(tx.saves, tx.begun, tables, views)
    BY <1>3, ShapeFacts
  <2> QED BY <1>2, <2>1, <2>2, <2>3 DEF BegunIn
<1>4. (Open)' <=> Open
  BY <1>1 DEF Open
<1> QED
  BY <1>1, <1>2, <1>3, <1>4 DEF Shape

\* Views come and go: those of BEGIN stay.
LEMMA ShapeViews ==
    ASSUME Shape, UNCHANGED <<tables, tx>>, views' \in Seq(View), Unique(views'),
           Open => \A i \in DOMAIN tx.begun.views : tx.begun.views[i] \in Range(views')
    PROVE  Shape'
<1>1. (Open)' <=> Open
  BY DEF Open
<1>2. Open => BegunIn(tx.saves, tx.begun, tables, views')
  BY DEF Shape, BegunIn
<1> QED
  BY <1>1, <1>2 DEF Shape

\* A view is registered.
LEMMA ShapeRegisters ==
    ASSUME Shape, NEW w \in View, Registers(w)
    PROVE  Shape'
<1>1. views' = Append(views, w) /\ UNCHANGED <<tables, tx>>
  BY DEF Registers
<1>2. w.name \in Odd \/ Registered(w.name, views) = {}
  BY DEF Registers, sql__view_exists
<1>3. views' \in Seq(View) /\ Range(views') = Range(views) \cup {w} /\ Unique(views')
  BY <1>1, <1>2, ShapeFacts, RegisterFacts
<1> QED
  BY <1>1, <1>3, ShapeViews DEF Shape, BegunIn

\* A view is deleted that was not there at BEGIN.
LEMMA ShapeUnregisters ==
    ASSUME Shape, NEW n, Unregisters(n)
    PROVE  Shape'
<1>1. views' = Unregistered(n, views) /\ UNCHANGED <<tables, tx>> /\ FreeView(n)
  BY DEF Unregisters
<1>2. views' \in Seq(View) /\ Range(views') = {v \in Range(views) : v.name # n \/ n \in Odd} /\ Unique(views')
  BY <1>1, ShapeFacts, UnregisterFacts
<1>3. Open => \A i \in DOMAIN tx.begun.views : tx.begun.views[i] \in Range(views')
  BY <1>1, <1>2 DEF FreeView, Shape, BegunIn
<1> QED
  BY <1>1, <1>2, <1>3, ShapeViews

\* BEGIN: the first save keeps nothing, and all is as it was.
LEMMA ShapeBegins ==
    ASSUME Shape, Begins
    PROVE  Shape'
<1> DEFINE e == [name |-> "tx", kept |-> << >>]
           q == <<e>>
<1>1. /\ tx' = [failed |-> FALSE, saves |-> q, begun |-> Before]
      /\ tables' = tables /\ views' = views
  BY DEF Begins
<1>2. Listed(q) /\ Len(q) = 1 /\ DOMAIN q = 1 .. 1 /\ q[1] = e
  BY SingleFacts
<1>3. DOMAIN e.kept = {}
  OBVIOUS
<1> HIDE DEF e, q
<1>4. KeptIn(q, tables)
  BY <1>2, <1>3 DEF KeptIn
<1>5. BegunIn(q, Before, tables, views)
  BY <1>2, <1>3, ShapeFacts DEF BegunIn, Before, Range
<1>6. tx'.saves = q /\ tx'.begun = Before /\ tx' = [failed |-> tx'.failed, saves |-> tx'.saves, begun |-> tx'.begun]
  BY <1>1
<1>7. /\ tables' = [n \in Names |-> tables'[n]] /\ \A n \in Names : Entry(tables'[n])
      /\ views' \in Seq(View) /\ Unique(views')
      /\ Len(q) >= 1
  BY <1>1, <1>2, ShapeFacts
<1> QED
  BY <1>1, <1>2, <1>4, <1>5, <1>6, <1>7 DEF Shape

\* RELEASE, and a COMMIT that fails.
LEMMA ShapeShortens ==
    ASSUME Shape, Shortens
    PROVE  Shape'
<1>1. PICK q : /\ Listed(q) /\ Len(q) \in 1 .. Len(tx.saves)
               /\ \A i \in 1 .. Len(q) : q[i] = tx.saves[i]
               /\ tx' = [tx EXCEPT !.saves = q]
  BY DEF Shortens
<1>2. Open /\ tables' = tables /\ views' = views
  BY DEF Shortens
<1>3. tx' = [failed |-> tx'.failed, saves |-> tx'.saves, begun |-> tx'.begun] /\ tx'.saves = q /\ tx'.begun = tx.begun
  BY <1>1, ShapeFacts
<1>4. DOMAIN q = 1 .. Len(q)
  BY <1>1 DEF Listed
<1>5. KeptIn(q, tables) /\ BegunIn(q, tx.begun, tables, views)
  BY <1>1, <1>2, <1>4, ShapeFacts, KeptShortened
<1> QED
  BY <1>1, <1>2, <1>3, <1>4, <1>5, ShapeFacts DEF Shape

\* SAVEPOINT.
LEMMA ShapeSaves ==
    ASSUME Shape, Saves
    PROVE  Shape'
<1>1. PICK s : tx' = [tx EXCEPT !.saves = Append(@, [name |-> s, kept |-> << >>])]
  BY DEF Saves
<1> DEFINE e == [name |-> s, kept |-> << >>]
           q == tx.saves
           p == Append(q, e)
<1>2. Open /\ tables' = tables /\ views' = views
  BY DEF Saves
<1>3. tx' = [failed |-> tx'.failed, saves |-> tx'.saves, begun |-> tx'.begun] /\ tx'.saves = p /\ tx'.begun = tx.begun
  BY <1>1, ShapeFacts
<1>4. /\ Listed(q) /\ Len(q) \in Nat /\ Len(q) >= 1 /\ DOMAIN q = 1 .. Len(q)
      /\ KeptIn(q, tables) /\ BegunIn(q, tx.begun, tables, views)
  BY <1>2, ShapeFacts
<1>5. DOMAIN e.kept = {}
  OBVIOUS
<1>51. Listed(q) /\ p = Append(q, e)
  BY <1>4
<1> HIDE DEF e, p, q
<1>6. Listed(p) /\ Len(p) = Len(q) + 1 /\ DOMAIN p = 1 .. Len(q) + 1 /\ p[Len(q) + 1] = e
  BY <1>51, AppendFacts
<1>61. \A i \in DOMAIN q : p[i] = q[i]
  BY <1>51, AppendFacts
<1>7. KeptIn(p, tables) /\ BegunIn(p, tx.begun, tables, views)
  BY <1>4, <1>5, <1>6, <1>61, KeptAppended
<1> QED
  BY <1>2, <1>3, <1>4, <1>6, <1>7, ShapeFacts DEF Shape

\* A restored database is a function of its names.
LEMMA RestoredIsTable == \A kept : Restored(kept) = [n \in Names |-> Restored(kept)[n]]
  BY DEF Restored

\* ROLLBACK, and the restart after a crash.
LEMMA ShapeRollsBack ==
    ASSUME Shape, RollsBack
    PROVE  Shape'
<1>1. tables' = [n \in Names |-> tables'[n]]
  BY RestoredIsTable DEF RollsBack
<1>3. \A n \in Names : Entry(tables'[n])
  BY ShapeFacts, KeptRestored DEF RollsBack
<1>2. tx' = [failed |-> tx'.failed, saves |-> tx'.saves, begun |-> tx'.begun] /\ (~Open)'
  BY DEF RollsBack, Open, NoTx
<1> QED
  BY <1>1, <1>2, <1>3 DEF Shape, RollsBack

\* COMMIT.
LEMMA ShapeEnds ==
    ASSUME Shape, Ends
    PROVE  Shape'
<1>1. tx' = [failed |-> tx'.failed, saves |-> tx'.saves, begun |-> tx'.begun] /\ (~Open)'
  BY DEF Ends, Open, NoTx
<1> QED
  BY <1>1 DEF Shape, Ends

\* ROLLBACK TO: the saves before the savepoint stay, and a new one takes its place.
LEMMA ShapeRollsBackTo ==
    ASSUME Shape, NEW d \in 2 .. Len(tx.saves), RollsBackTo(d)
    PROVE  Shape'
<1>1. PICK s : tx' = [tx EXCEPT !.failed = FALSE, !.saves = Append(SubSeq(tx.saves, 1, d - 1), [name |-> s, kept |-> << >>])]
  BY DEF RollsBackTo
<1> DEFINE e == [name |-> s, kept |-> << >>]
           q == tx.saves
           r == SubSeq(q, 1, d - 1)
           p == Append(r, e)
<1>2. Open /\ tables' = Restored(q[d].kept) /\ views' = views
  BY DEF RollsBackTo
<1>3. tx' = [failed |-> tx'.failed, saves |-> tx'.saves, begun |-> tx'.begun] /\ tx'.saves = p /\ tx'.begun = tx.begun
  BY <1>1, ShapeFacts
<1>4. /\ Listed(q) /\ Len(q) \in Nat /\ Len(q) >= 1 /\ DOMAIN q = 1 .. Len(q)
      /\ KeptIn(q, tables) /\ BegunIn(q, tx.begun, tables, views)
      /\ d \in 1 .. Len(q) /\ d - 1 \in 1 .. Len(q) /\ d - 1 \in 0 .. Len(q)
  BY <1>2, ShapeFacts
<1>5. DOMAIN e.kept = {}
  OBVIOUS
<1>51. Listed(q) /\ r = SubSeq(q, 1, d - 1) /\ d - 1 \in 0 .. Len(q)
  BY <1>4
<1> HIDE DEF e, p, q, r
<1>6. Listed(r) /\ Len(r) = d - 1 /\ DOMAIN r = 1 .. d - 1 /\ \A i \in 1 .. d - 1 : r[i] = q[i]
  <2>1. \A k \in 0 .. Len(q) : \A x : x = SubSeq(q, 1, k) =>
            Listed(x) /\ Len(x) = k /\ DOMAIN x = 1 .. k /\ \A i \in 1 .. k : x[i] = q[i]
    BY <1>51, PrefixFacts, ZenonT(60)
  <2> QED BY <1>51, <2>1, ZenonT(60)
<1>70. Listed(r) /\ p = Append(r, e)
  BY <1>6 DEF p
<1>7. Listed(p) /\ Len(p) = Len(r) + 1 /\ Len(r) \in Nat /\ DOMAIN p = 1 .. Len(r) + 1 /\ p[Len(r) + 1] = e
  BY <1>70, AppendFacts
<1>71. DOMAIN r = 1 .. Len(r) /\ \A i \in DOMAIN r : p[i] = r[i]
  BY <1>70, AppendFacts
<1>8. /\ \A n \in Names : Entry(tables'[n])
      /\ \A c \in 1 .. d, n \in Names : n \in DOMAIN q[c].kept => (q[c].kept[n].there => tables'[n].there)
      /\ BegunIn(q, tx.begun, tables', views)
  BY <1>2, <1>4, ShapeFacts, KeptRestored
<1>9. KeptIn(r, tables')
  <2>1. \A i \in 1 .. d - 1 : i \in DOMAIN q /\ i \in 1 .. d /\ r[i] = q[i]
    BY <1>4, <1>6
  <2> QED BY <1>4, <1>6, <1>8, <2>1 DEF KeptIn
<1>10. BegunIn(r, tx.begun, tables', views)
  <2>1. r[1] = q[1]
    BY <1>6
  <2> QED BY <1>8, <2>1 DEF BegunIn
<1>11. KeptIn(p, tables') /\ BegunIn(p, tx.begun, tables', views)
  <2>1. Len(r) >= 1
    BY <1>6
  <2> QED BY <1>5, <1>7, <1>71, <1>9, <1>10, <2>1, KeptAppended
<1>12. tables' = [n \in Names |-> tables'[n]]
  BY <1>2, RestoredIsTable
<1> QED
  BY <1>2, <1>3, <1>7, <1>8, <1>11, <1>12, ShapeFacts DEF Shape

\* A step that changes none of the three.
LEMMA ShapeStays == ASSUME Shape, UNCHANGED <<tables, views, tx>> PROVE Shape'
  BY DEF Shape, Open, KeptIn, BegunIn, Listed

\* Every step preserves the invariant of the tables, the views and the saves.
LEMMA ShapeKept == Shape /\ Effect => Shape'
<1> SUFFICES ASSUME Shape, Effect PROVE Shape'
  OBVIOUS
<1>1. CASE Stays
  BY <1>1, ShapeStays DEF Stays
<1> QED
  BY <1>1, ShapeWrote, ShapePutFree, ShapeRegisters, ShapeUnregisters, ShapeBegins, ShapeEnds,
     ShapeShortens, ShapeSaves, ShapeRollsBack, ShapeRollsBackTo DEF Effect

-----------------------------------------------------------------------------
(* The WITH statement under way.                                           *)

\* WITH starts with no name of its own added.
LEMMA WithStarts ==
    ASSUME NEW w \in CteLists, sql__exec_with_stmt(w[1], w[2])
    PROVE  WithInv'
<1> DEFINE q == w[1]
           r == [op |-> "with", ctes |-> q, main |-> w[2], stage |-> "add", added |-> 0, gone |-> 0,
                 st |-> "failed", rows |-> None, before |-> Before, clean |-> TRUE]
<1>1. q \in Seq(View) /\ q # << >>
  BY SqlAssumption
<1>2. run' = r
  BY DEF sql__exec_with_stmt
<1> HIDE DEF q
<1>3. DOMAIN r = WithFields
  BY DEF WithFields
<1>4. Len(q) \in Nat /\ Len(q) > 0
  BY <1>1
<1>5. r.op = "with" /\ r.ctes = q /\ r.added = 0 /\ r.gone = 0
  OBVIOUS
<1> HIDE DEF r
<1> QED
  BY <1>1, <1>2, <1>3, <1>4, <1>5 DEF WithInv

\* WITH RECURSIVE takes a name no rollback brings back.
LEMMA RecursiveStarts ==
    ASSUME Shape, NEW w \in Recursions,
           sql__exec_with_recursive_stmt(w.name, w.base, w.edges, w.all, w.flaw)
    PROVE  RunInv'
<1>1. CASE run' = Idle
  BY <1>1 DEF RunInv
<1>2. ASSUME NEW base, ~Exists(w.name),
             run' = [op |-> "recursive", name |-> w.name, edges |-> w.edges, all |-> w.all, flaw |-> w.flaw,
                     base |-> base, acc |-> base,
                     stage |-> "round", round |-> 0, created |-> TRUE, st |-> "failed", rows |-> None,
                     before |-> Before, clean |-> TRUE]
      PROVE  RunInv'
  <2>1. DOMAIN run' = RecursiveFields /\ run'.op = "recursive" /\ run'.name = w.name
    BY <1>2 DEF RecursiveFields
  <2>2. w.name \in Names
    BY SqlAssumption
  <2>3. Free(w.name)
    BY <1>2, <2>2, AbsentFree
  <2>4. tx' = tx
    BY DEF sql__exec_with_recursive_stmt
  <2>5. Free(run.name)'
    BY <2>1, <2>3, <2>4 DEF Free, Open
  <2> QED BY <2>1, <2>2, <2>5 DEF RunInv, RecursiveInv
<1> QED
  BY <1>1, <1>2 DEF sql__exec_with_recursive_stmt, Fail

\* A statement under way keeps its names free, as long as the transaction stays.
LEMMA WithGoesOn ==
    ASSUME WithInv, tx' = tx, NEW i, NEW j, NEW stage,
           i \in 0 .. Len(run.ctes), j \in 0 .. i,
           stage = "add" => i < Len(run.ctes),
           \A d \in 1 .. i : FreeView(run.ctes[d].name),
           run'.op = "with", run'.ctes = run.ctes, DOMAIN run' = WithFields,
           run'.added = i, run'.gone = j, run'.stage = stage
    PROVE  RunInv'
<1>1. \A n : FreeView(n) => FreeView(n)'
  BY DEF FreeView, Open
<1>2. WithInv'
  BY <1>1 DEF WithInv
<1> QED
  BY <1>2 DEF RunInv

\* The recursion keeps its name.
LEMMA RecursionGoesOn ==
    ASSUME RunInv, run.op = "recursive", tx' = tx, run'.op = run.op, run'.name = run.name, DOMAIN run' = DOMAIN run
    PROVE  RunInv'
<1>1. RecursiveInv
  BY DEF RunInv, Idle, WithInv
<1>2. RecursiveInv'
  BY <1>1 DEF RecursiveInv, Free, Open
<1> QED
  BY <1>2 DEF RunInv

\* Every step of a statement under way keeps its names free.
LEMMA RunStep ==
    ASSUME Shape, RunInv, Step
    PROVE  RunInv'
<1>1. ASSUME run.op = "with" PROVE WithInv
  BY <1>1 DEF RunInv, Idle, RecursiveInv
<1>2. CASE WithAdd
  <2>1. WithInv /\ run.stage = "add" /\ tx' = tx
    BY <1>1, <1>2 DEF WithAdd, Continue
  <2>2. ASSUME NEW r, Continue(r), r = [run EXCEPT !.stage = "done"] \/ r = [run EXCEPT !.stage = "done", !.clean = FALSE]
        PROVE  RunInv'
    <3>1. /\ run'.op = "with" /\ run'.ctes = run.ctes /\ DOMAIN run' = WithFields
          /\ run'.added = run.added /\ run'.gone = run.gone /\ run'.stage = "done"
      BY <2>1, <2>2 DEF WithInv, WithFields, Continue
    <3> QED BY <2>1, <3>1, WithGoesOn DEF WithInv
  <2>3. CASE /\ ~CteRefused
             /\ Continue([run EXCEPT !.added = @ + 1,
                                  !.stage = IF run.added + 1 = Len(run.ctes) THEN "main" ELSE "add"])
    <3> DEFINE i == run.added + 1
               stage == IF i = Len(run.ctes) THEN "main" ELSE "add"
    <3>1. /\ run'.op = "with" /\ run'.ctes = run.ctes /\ DOMAIN run' = WithFields
          /\ run'.added = i /\ run'.gone = run.gone /\ run'.stage = stage
      BY <2>1, <2>3 DEF WithInv, WithFields, Continue
    <3>2. FreeView(run.ctes[i].name)
      BY <2>3, UnseenFree DEF Cte, CteRefused
    <3>3. /\ i \in 0 .. Len(run.ctes) /\ run.gone \in 0 .. i
          /\ stage = "add" => i < Len(run.ctes)
      BY <2>1 DEF WithInv
    <3>4. \A d \in 1 .. i : FreeView(run.ctes[d].name)
      BY <2>1, <3>2 DEF WithInv
    <3> HIDE DEF i, stage
    <3> QED BY <2>1, <3>1, <3>3, <3>4, WithGoesOn
  <2> QED BY <1>2, <2>2, <2>3 DEF WithAdd
<1>3. CASE WithMain
  <2>1. WithInv /\ tx' = tx
    BY <1>1, <1>3 DEF WithMain, Continue
  <2>2. /\ run'.op = "with" /\ run'.ctes = run.ctes /\ DOMAIN run' = WithFields
        /\ run'.added = run.added /\ run'.gone = run.gone /\ run'.stage = "done"
    BY <1>3, <2>1 DEF WithMain, Continue, WithInv, WithFields
  <2> QED BY <2>1, <2>2, WithGoesOn DEF WithInv
<1>4. CASE WithDrop
  <2>1. WithInv /\ tx' = tx /\ run.gone < run.added /\ run.stage = "done"
    BY <1>1, <1>4 DEF WithDrop, Continue
  <2>2. /\ run'.op = "with" /\ run'.ctes = run.ctes /\ DOMAIN run' = WithFields
        /\ run'.added = run.added /\ run'.gone = run.gone + 1 /\ run'.stage = "done"
    BY <1>4, <2>1 DEF WithDrop, Continue, WithInv, WithFields
  <2>3. run.gone + 1 \in 0 .. run.added
    BY <2>1 DEF WithInv
  <2> QED BY <2>1, <2>2, <2>3, WithGoesOn DEF WithInv
<1>5. CASE WithReturn \/ RecCleanup
  BY <1>5 DEF WithReturn, RecCleanup, RunInv
<1>6. ASSUME run.op = "recursive", NEW r, Continue(r), r.op = run.op, r.name = run.name, DOMAIN r = DOMAIN run
      PROVE  RunInv'
  BY <1>6, RecursionGoesOn DEF Continue
<1>7. ASSUME run.op = "recursive" PROVE DOMAIN run = RecursiveFields
  BY <1>7 DEF RunInv, Idle, WithInv, RecursiveInv
<1>8. CASE RecRound
  BY <1>6, <1>7, <1>8 DEF RecRound, RecursiveFields
<1>9. CASE RecDiverges
  BY <1>6, <1>7, <1>9 DEF RecDiverges, RecursiveFields
<1>10. CASE RecFinal
  BY <1>6, <1>7, <1>10 DEF RecFinal, RecursiveFields
<1>11. CASE RecMain
  BY <1>6, <1>7, <1>11 DEF RecMain, RecursiveFields
<1> QED
  BY <1>2, <1>3, <1>4, <1>5, <1>8, <1>9, <1>10, <1>11 DEF Step

\* A step ends a statement, starts a WITH statement or carries one on.
LEMMA IdleOrUnderWay == Shape /\ Next => run' = Idle \/ Withs \/ Step
<1> SUFFICES ASSUME Shape, Next PROVE run' = Idle \/ Withs \/ Step
  OBVIOUS
<1>1. Writes => run' = Idle
  BY WritesEffect DEF WriteEffect
<1>2. Transaction \/ Schemas \/ Crash \/ StackOverflow => run' = Idle
  BY TransactionEffect, SchemasEffect, RestartEffect DEF Crash, StackOverflow
<1>3. ASSUME NEW n \in Names, sql__exec_select_stmt(n) PROVE run' = Idle
  BY <1>3 DEF sql__exec_select_stmt, Exec, Refuse, Fail
<1> QED
  BY <1>1, <1>2, <1>3 DEF Next

\* So the invariant of the statement under way is preserved.
LEMMA RunKept == Shape /\ RunInv /\ Next => RunInv'
<1> SUFFICES ASSUME Shape, RunInv, Next PROVE RunInv'
  OBVIOUS
<1>1. CASE run' = Idle
  BY <1>1 DEF RunInv
<1>2. CASE Withs
  BY <1>2, WithStarts, RecursiveStarts DEF Withs, RunInv
<1> QED
  BY <1>1, <1>2, IdleOrUnderWay, RunStep DEF Next

\* Only the last step of a WITH statement ends it.
LEMMA StillUnderWay ==
    ASSUME RunInv, run' = Idle
    PROVE  ~(WithAdd \/ WithMain \/ WithDrop \/ RecRound \/ RecDiverges \/ RecFinal \/ RecMain)
<1>1. run.op = "with" \/ run.op = "recursive" => "op" \in DOMAIN run
  BY DEF RunInv, Idle, WithInv, RecursiveInv, WithFields, RecursiveFields
<1>2. ASSUME NEW r, Continue(r), r.op = run.op, run.op = "with" \/ run.op = "recursive" PROVE FALSE
  BY <1>2 DEF Continue, Idle
<1>3. ~WithAdd /\ ~WithMain /\ ~WithDrop
  BY <1>1, <1>2 DEF WithAdd, WithMain, WithDrop
<1>4. ~RecRound /\ ~RecDiverges /\ ~RecFinal /\ ~RecMain
  BY <1>1, <1>2 DEF RecRound, RecDiverges, RecFinal, RecMain
<1> QED
  BY <1>3, <1>4

-----------------------------------------------------------------------------
(* Views without circles, and the invariant.                               *)

\* Fewer views, or fewer tables, keep names apart and close no circle.
LEMMA FewerViews ==
    ASSUME NEW vs \in Seq(View), Unique(vs), NEW us \in Seq(View), \A v \in Range(us) : v \in Range(vs)
    PROVE  /\ NoCircle(vs) => NoCircle(us)
           /\ \A n : Registered(n, us) # {} => Registered(n, vs) # {}
<1>1. ASSUME NEW n, Registered(n, us) # {} PROVE Registered(n, vs) # {}
  <2>1. n \notin Odd /\ \E v \in Range(us) : v.name = n
    BY <1>1, FoundFacts
  <2>2. PICK v \in Range(vs) : v.name = n
    BY <2>1
  <2> QED BY <2>1, <2>2, LookupFacts
<1>2. NoCircle(vs) => NoCircle(us)
  BY DEF NoCircle, Circle
<1> QED
  BY <1>1, <1>2

\* Views that stay need tables that do not collide with them.
LEMMA AcyclicSameViews ==
    ASSUME AcyclicInv, views' = views, ~collided' => ~collided,
           ~collided' => \A n \in Names : tables'[n].there => tables[n].there \/ Registered(n, views) = {}
    PROVE  AcyclicInv'
  BY DEF AcyclicInv, ApartIn

\* No step makes views read each other in a circle, unless a table and a view collide.
LEMMA AcyclicKept == Shape /\ AcyclicInv /\ Effect => AcyclicInv'
<1> SUFFICES ASSUME Shape, AcyclicInv, Effect PROVE AcyclicInv'
  OBVIOUS
<1>1. ASSUME NEW n \in Names, NEW t, Placed(n, t), views' = views PROVE AcyclicInv'
  <2>1. ~collided' => ~collided /\ ~(t.there /\ Registered(n, views) # {})
    BY <1>1 DEF Placed, sql__view_exists
  <2>2. tables' = [tables EXCEPT ![n] = t] /\ tables = [m \in Names |-> tables[m]]
    BY <1>1, ShapeFacts DEF Placed
  <2> QED BY <1>1, <2>1, <2>2, AcyclicSameViews
<1>2. CASE \E n \in Names : \E t, b : Wrote(n, t, b)
  BY <1>1, <1>2 DEF Wrote
<1>3. CASE \E n \in Names : \E t : PutFree(n, t)
  BY <1>1, <1>3 DEF PutFree
<1>4. ASSUME NEW w \in View, Registers(w) PROVE AcyclicInv'
  <2>1. CASE collided
    BY <1>4, <2>1 DEF Registers, AcyclicInv
  <2>2. CASE ~collided
    <3>1. views' = Append(views, w) /\ tables' = tables /\ ~Exists(w.name) /\ ~sql__view_exists(w.name) /\ Resolves(w.of)
      BY <1>4 DEF Registers
    <3>2. ApartIn(tables, views) /\ NoCircle(views)
      BY <2>2 DEF AcyclicInv
    <3>3. Apart
      BY <3>2 DEF Apart, ApartIn, Exists, sql__view_exists
    <3>4. NoCircle(views')
      BY <3>1, <3>2, <3>3, ShapeFacts, NewViewClosesNone
    <3>5. views' \in Seq(View) /\ Range(views') = Range(views) \cup {w}
      BY <3>1, ShapeFacts, RegisterFacts
    <3>6. ASSUME NEW n \in Names, tables[n].there PROVE Registered(n, views') = {}
      <4>1. n # w.name /\ Registered(n, views) = {}
        BY <3>1, <3>2, <3>6 DEF ApartIn, Exists
      <4>2. n \in Odd \/ \A v \in Range(views) : v.name # n
        BY <4>1 DEF Registered, Range
      <4>3. n \in Odd \/ \A v \in Range(views') : v.name # n
        BY <3>5, <4>1, <4>2
      <4> QED BY <3>5, <4>3, FoundFacts
    <3>7. ApartIn(tables', views')
      BY <3>1, <3>6 DEF ApartIn
    <3> QED BY <3>4, <3>7 DEF AcyclicInv
  <2> QED BY <2>1, <2>2
<1>5. ASSUME NEW n, Unregisters(n) PROVE AcyclicInv'
  <2>1. views' = Unregistered(n, views) /\ tables' = tables /\ collided' = collided
    BY <1>5 DEF Unregisters
  <2>2. views' \in Seq(View) /\ Range(views') = {v \in Range(views) : v.name # n \/ n \in Odd}
    BY <2>1, ShapeFacts, UnregisterFacts
  <2>3. \A v \in Range(views') : v \in Range(views)
    BY <2>2
  <2>4. /\ NoCircle(views) => NoCircle(views')
        /\ \A m : Registered(m, views') # {} => Registered(m, views) # {}
    BY <2>2, <2>3, ShapeFacts, FewerViews
  <2> QED BY <2>1, <2>4 DEF AcyclicInv, ApartIn
<1>6. CASE Stays \/ Begins \/ Ends \/ Shortens \/ Saves
  BY <1>6 DEF Stays, Begins, Ends, Shortens, Saves, AcyclicInv
<1>7. ASSUME NEW d \in 1 .. Len(tx.saves), Open, tables' = Restored(tx.saves[d].kept), UNCHANGED <<views, collided>>
      PROVE  AcyclicInv'
  <2>1. Len(tx.saves) \in Nat /\ DOMAIN tx.saves = 1 .. Len(tx.saves) /\ KeptIn(tx.saves, tables)
    BY <1>7, ShapeFacts
  <2>2. \A n \in Names : tables'[n].there => tables[n].there
    BY <1>7, <2>1, ShapeFacts, KeptRestored
  <2> QED BY <1>7, <2>2, AcyclicSameViews
<1>8. CASE RollsBack
  BY <1>7, <1>8, ShapeFacts DEF RollsBack
<1>9. CASE \E d \in 2 .. Len(tx.saves) : RollsBackTo(d)
  BY <1>7, <1>9 DEF RollsBackTo
<1> QED
  BY <1>2, <1>3, <1>4, <1>5, <1>6, <1>8, <1>9 DEF Effect

\* The states a connection may find.
LEMMA InitInv == Init => Inv
<1> SUFFICES ASSUME Init PROVE Inv
  OBVIOUS
<1>1. PICK s \in InitStates : tables = s.tables /\ views = s.views /\ collided = s.collided
  BY DEF Init
<1>2. /\ tables = [n \in Names |-> tables[n]] /\ (\A n \in Names : Entry(tables[n])) /\ views \in Seq(View) /\ Unique(views)
      /\ views = << >> \/ collided
  BY <1>1, SqlAssumption DEF Entry
<1>3. tx = NoTx /\ ~Open /\ run = Idle
  BY DEF Init, Open
<1>4. Shape
  BY <1>2, <1>3 DEF Shape, NoTx
<1>5. views = << >> => \A n : Registered(n, views) = {}
  BY DEF Registered
<1>6. views = << >> => NoCircle(views)
  BY DEF NoCircle, Circle, Range
<1>7. AcyclicInv
  BY <1>2, <1>5, <1>6 DEF AcyclicInv, ApartIn
<1> QED
  BY <1>3, <1>4, <1>7 DEF Inv, RunInv

\* Every step preserves the invariant.
LEMMA StepInv == Inv /\ [Next]_vars => Inv'
<1>1. ASSUME Inv, Next PROVE Inv'
  BY <1>1, NextEffect, ShapeKept, RunKept, AcyclicKept DEF Inv
<1>2. ASSUME Inv, UNCHANGED vars PROVE Inv'
  <2>1. UNCHANGED <<tables, views, tx, run, collided>>
    BY <1>2 DEF vars
  <2>2. Shape'
    BY <1>2, <2>1, ShapeStays DEF Inv
  <2>3. RunInv'
    BY <1>2, <2>1 DEF Inv, RunInv, WithInv, RecursiveInv, Free, FreeView, Open
  <2>4. AcyclicInv'
    BY <1>2, <2>1 DEF Inv, AcyclicInv
  <2> QED BY <2>2, <2>3, <2>4 DEF Inv
<1> QED
  BY <1>1, <1>2

\* The inductive invariant: what the saves of a transaction keep, the names of the
\* statement under way, and views without circles.
THEOREM Invariance == Spec => []Inv
  BY InitInv, StepInv, PTL DEF Spec

\* Following the views from any name ends, so that no SELECT exhausts the stack
\* (sql__fetch_table_or_view), unless a table was given the name of a view.
THEOREM ViewsNeverCircle == Spec => []ViewsAcyclic
<1>1. Inv => ViewsAcyclic
  BY EndsWithoutCircle, ShapeFacts DEF Inv, AcyclicInv, ViewsAcyclic
<1> QED
  BY <1>1, Invariance, PTL

-----------------------------------------------------------------------------
(* ROLLBACK.                                                               *)

\* The only statement that returns as a ROLLBACK that succeeded is one.
LEMMA OnlyRollback ==
    ASSUME Inv, Next, Did("rollback")
    PROVE  Open /\ tables' = Restored(tx.saves[1].kept) /\ views' = views
<1>0. run' = Idle /\ reply'.op = "rollback" /\ reply'.st # "failed"
  BY DEF Did, Ended
<1>1. ASSUME NEW op, NEW n, Refuse(op, n) PROVE FALSE
  BY <1>0, <1>1, RefuseEffect
<1>2. ASSUME NEW op, NEW n, NEW a, NEW r, NEW args, op # "rollback", Exec(op, n, a, r, args) \/ Fail(op, n, a, args)
      PROVE  FALSE
  BY <1>0, <1>2, ReplyOp DEF Exec, Fail
<1>3. CASE Transaction
  <2>1. ~sql__begin_tx
    BY <1>1, <1>2 DEF sql__begin_tx
  <2>2. ~sql__exec_commit
    BY <1>1, <1>2 DEF sql__exec_commit
  <2>3. \A s \in Savepoints : ~RollbackTo(s)
    BY <1>1, <1>2 DEF RollbackTo
  <2>4. \A s \in Savepoints : ~sql__exec_savepoint(s)
    BY <1>1, <1>2 DEF sql__exec_savepoint
  <2>5. \A s \in Savepoints : ~sql__exec_release_savepoint(s)
    BY <1>1, <1>2 DEF sql__exec_release_savepoint
  <2>6. sql__exec_rollback
    BY <1>3, <2>1, <2>2, <2>3, <2>4, <2>5 DEF Transaction
  <2>7. Open => Head(tx.saves) = tx.saves[1]
    BY DEF Inv, Shape, Listed
  <2> QED BY <1>1, <2>6, <2>7 DEF sql__exec_rollback
<1>4. ~Schemas
  <2>1. ~SchemaInTx
    BY <1>1 DEF SchemaInTx
  <2>2. \A n \in Names : ~sql__exec_create_table(n) /\ ~sql__exec_drop_table(n) /\ ~sql__exec_drop_view(n)
    BY <1>1, <1>2 DEF sql__exec_create_table, sql__exec_drop_table, sql__exec_drop_view
  <2>3. \A n, of \in Names : ~sql__exec_create_view(n, of)
    BY <1>1, <1>2 DEF sql__exec_create_view
  <2> QED BY <2>1, <2>2, <2>3 DEF Schemas
<1>5. ~Writes
  BY <1>0, WritesEffect DEF WriteEffect, Inv
<1>6. ~Withs
  <2>1. \A w \in CteLists : ~sql__exec_with_stmt(w[1], w[2])
    BY <1>0 DEF sql__exec_with_stmt, Idle
  <2>2. \A w \in Recursions : ~sql__exec_with_recursive_stmt(w.name, w.base, w.edges, w.all, w.flaw)
    BY <1>0, <1>2 DEF sql__exec_with_recursive_stmt, Idle
  <2> QED BY <2>1, <2>2 DEF Withs
<1>7. ~Step
  <2>1. ~WithReturn /\ ~RecCleanup
    BY <1>0, ReplyOp DEF WithReturn, RecCleanup
  <2> QED BY <1>0, <2>1, StillUnderWay DEF Step, Inv
<1>8. ~Crash /\ ~StackOverflow
  BY <1>0, ReplyOp DEF Crash, StackOverflow, Restart
<1>9. \A n \in Names : ~sql__exec_select_stmt(n)
  BY <1>1, <1>2 DEF sql__exec_select_stmt
<1> QED
  BY <1>3, <1>4, <1>5, <1>6, <1>7, <1>8, <1>9 DEF Next

\* ROLLBACK gives every table that existed at BEGIN its rows of then and leaves the
\* views of then registered (kdb_tx_rollback of sql__exec_rollback): RollbackRestores,
\* whatever ran in between, a WITH statement or a savepoint among it.
THEOREM RollbackIsExact == Spec => RollbackRestores
<1>1. ASSUME Inv, Next, Did("rollback")
      PROVE  /\ \A n \in Names : tx.begun.tables[n].there => tables'[n] = tx.begun.tables[n]
             /\ \A i \in DOMAIN tx.begun.views : Contains(views', tx.begun.views[i])
  <2>1. Open /\ tables' = Restored(tx.saves[1].kept) /\ views' = views
    BY <1>1, OnlyRollback
  <2>2. BegunIn(tx.saves, tx.begun, tables, views) /\ views \in Seq(View)
    BY <1>1, <2>1, ShapeFacts DEF Inv
  <2>3. \A n \in Names : tx.begun.tables[n].there => tables'[n] = tx.begun.tables[n]
    BY <2>1, <2>2 DEF BegunIn, Restored
  <2>4. \A i \in DOMAIN tx.begun.views : Contains(views', tx.begun.views[i])
    BY <2>1, <2>2 DEF BegunIn, Range, Contains
  <2> QED BY <2>3, <2>4
<1> QED
  BY <1>1, Invariance, PTL DEF Spec, RollbackRestores

-----------------------------------------------------------------------------
(* What a WITH statement leaves behind.                                    *)

NoOdd == \A i \in DOMAIN run.ctes : run.ctes[i].name \notin Odd

\* What a WITH statement under way has left to undo.
WithBooks == run.op = "with" =>
    /\ tables = run.before.tables
    /\ NoOdd => Without(Ctes, views) = run.before.views
    /\ NoOdd /\ run.clean => \A i \in 1 .. run.gone, v \in Range(views) : v.name # run.ctes[i].name
RecursiveBooks == run.op = "recursive" =>
    /\ run.before.tables = [n \in Names |-> run.before.tables[n]] /\ run.before.tables[run.name] = NoTable
    /\ \A n \in Names : n # run.name => tables[n] = run.before.tables[n]
    /\ views = run.before.views
    /\ run.created \/ ~run.clean
Books == WithBooks /\ RecursiveBooks

\* No WITH statement is under way: nothing to undo.
LEMMA IdleBooks == run' = Idle => Books'
  BY DEF Idle, Books, WithBooks, RecursiveBooks

\* WITH starts with all as it was.
LEMMA BooksOpened ==
    ASSUME Shape, NEW w \in CteLists, sql__exec_with_stmt(w[1], w[2])
    PROVE  Books'
<1>1. /\ run'.op = "with" /\ run'.added = 0 /\ run'.gone = 0 /\ run'.before = Before /\ run'.ctes = w[1]
      /\ tables' = tables /\ views' = views
  BY DEF sql__exec_with_stmt
<1>2. Ctes' = {}
  BY <1>1 DEF Ctes
<1>3. Without({}, views) = views
  BY ShapeFacts, WithoutNone
<1> QED
  BY <1>1, <1>2, <1>3 DEF Books, WithBooks, RecursiveBooks, Before

\* WITH RECURSIVE has written only its own table, which was not there.
LEMMA RecursiveBooksOpened ==
    ASSUME Shape, NEW w \in Recursions,
           sql__exec_with_recursive_stmt(w.name, w.base, w.edges, w.all, w.flaw)
    PROVE  Books'
<1>1. CASE run' = Idle
  BY <1>1, IdleBooks
<1>2. ASSUME ~Exists(w.name), NEW t, Put(w.name, t), NEW base,
             run' = [op |-> "recursive", name |-> w.name, edges |-> w.edges, all |-> w.all, flaw |-> w.flaw,
                     base |-> base, acc |-> base,
                     stage |-> "round", round |-> 0, created |-> TRUE, st |-> "failed", rows |-> None,
                     before |-> Before, clean |-> TRUE]
      PROVE  Books'
  <2>0. /\ run'.op = "recursive" /\ run'.name = w.name /\ run'.before = Before /\ run'.created = TRUE
        /\ views' = views
    BY <1>2 DEF sql__exec_with_recursive_stmt
  <2>1. w.name \in Names /\ tables[w.name] = NoTable
    BY <1>2, ShapeFacts, SqlAssumption DEF Exists, Entry
  <2>2. \A n \in Names : n # w.name => tables'[n] = tables[n]
    BY <1>2, ShapeFacts DEF Put
  <2> QED BY <2>0, <2>1, <2>2, ShapeFacts DEF Books, WithBooks, RecursiveBooks, Before
<1> QED
  BY <1>1, <1>2 DEF sql__exec_with_recursive_stmt, Fail

\* A temporary view is added: without the names added, the registry is the old one.
LEMMA WithAddBooks ==
    ASSUME Inv, Books, WithAdd
    PROVE  Books'
<1>1. WithInv /\ WithBooks /\ run.stage = "add" /\ tables' = tables
  BY DEF Inv, Books, RunInv, Idle, RecursiveInv, WithAdd
<1>2. ASSUME NEW r, Continue(r), r = [run EXCEPT !.stage = "done"] \/ r = [run EXCEPT !.stage = "done", !.clean = FALSE],
             views' = views
      PROVE  Books'
  <2>1. /\ run'.op = "with" /\ run'.ctes = run.ctes /\ run'.added = run.added /\ run'.gone = run.gone
        /\ run'.before = run.before /\ (run'.clean => run.clean)
    BY <1>1, <1>2 DEF WithInv, WithFields, Continue
  <2>2. Ctes' = Ctes /\ (NoOdd' <=> NoOdd)
    BY <2>1 DEF Ctes, NoOdd
  <2>3. run.op = "with" /\ tables' = run'.before.tables
    BY <1>1, <2>1 DEF WithBooks, WithInv
  <2>4. NoOdd' => Without(Ctes', views') = run'.before.views
    BY <1>1, <1>2, <2>1, <2>2, <2>3 DEF WithBooks
  <2>5. NoOdd' /\ run'.clean => \A i \in 1 .. run'.gone, v \in Range(views') : v.name # run'.ctes[i].name
    BY <1>1, <1>2, <2>1, <2>2, <2>3 DEF WithBooks
  <2> QED BY <2>1, <2>3, <2>4, <2>5 DEF Books, WithBooks, RecursiveBooks
<1>3. CASE /\ ~CteRefused
           /\ views' = Append(views, Cte)
           /\ Continue([run EXCEPT !.added = @ + 1,
                                   !.stage = IF run.added + 1 = Len(run.ctes) THEN "main" ELSE "add"])
  <2>1. /\ run'.op = "with" /\ run'.ctes = run.ctes /\ run'.added = run.added + 1 /\ run'.gone = run.gone
        /\ run'.before = run.before /\ run'.clean = run.clean
    BY <1>1, <1>3 DEF WithInv, WithFields, Continue
  <2>2. /\ run.added \in Nat /\ run.gone \in 0 .. run.added /\ run.added + 1 \in DOMAIN run.ctes
        /\ Cte = run.ctes[run.added + 1] /\ Cte \in View
    BY <1>1 DEF WithInv, Cte
  <2>3. Ctes' = Ctes \cup {Cte.name} /\ (NoOdd' <=> NoOdd)
    BY <2>1, <2>2 DEF Ctes, NoOdd
  <2>4. ~sql__view_exists(Cte.name) /\ Cte.name \notin Ctes
    BY <1>3 DEF CteRefused
  <2>5. ASSUME NoOdd PROVE Without(Ctes', views') = run.before.views
    <3>1. \A v \in Range(views) : v.name # Cte.name
      BY <2>2, <2>4, <2>5 DEF NoOdd, sql__view_exists, Registered, Range
    <3>2. Without(Ctes', views') = Without(Ctes', views)
      BY <1>3, <2>2, <2>3, ShapeFacts, WithoutLast DEF Inv
    <3>3. \A v \in Range(views) : v.name \in Ctes' <=> v.name \in Ctes
      BY <2>3, <3>1
    <3>4. Without(Ctes', views) = Without(Ctes, views)
      BY <3>3, ShapeFacts, WithoutSame DEF Inv
    <3> QED BY <1>1, <2>5, <3>2, <3>4 DEF WithBooks, WithInv
  <2>6. ASSUME NoOdd, run.clean, NEW i \in 1 .. run.gone, NEW v \in Range(views') PROVE v.name # run.ctes[i].name
    <3>1. Range(views') = Range(views) \cup {Cte}
      BY <1>3, <2>2, ShapeFacts, RegisterFacts DEF Inv
    <3>2. run.ctes[i].name \in Ctes
      BY <2>2 DEF Ctes
    <3> QED BY <1>1, <2>4, <2>6, <3>1, <3>2 DEF WithBooks, WithInv
  <2> QED BY <1>1, <2>1, <2>3, <2>5, <2>6 DEF Books, WithBooks, RecursiveBooks, WithInv
<1> QED
  BY <1>2, <1>3 DEF WithAdd

\* The main SELECT changes nothing.
LEMMA WithMainBooks ==
    ASSUME Inv, Books, WithMain
    PROVE  Books'
<1>1. WithInv /\ WithBooks /\ tables' = tables /\ views' = views
  BY DEF Inv, Books, RunInv, Idle, RecursiveInv, WithMain
<1>2. /\ run'.op = "with" /\ run'.ctes = run.ctes /\ run'.added = run.added /\ run'.gone = run.gone
      /\ run'.before = run.before /\ run'.clean = run.clean
  BY <1>1 DEF WithInv, WithFields, WithMain, Continue
<1>3. Ctes' = Ctes /\ (NoOdd' <=> NoOdd)
  BY <1>2 DEF Ctes, NoOdd
<1> QED
  BY <1>1, <1>2, <1>3 DEF Books, WithBooks, RecursiveBooks, WithInv

\* A temporary view is deleted, or the deletion fails.
LEMMA WithDropBooks ==
    ASSUME Inv, Books, WithDrop
    PROVE  Books'
<1>1. WithInv /\ WithBooks /\ tables' = tables /\ run.gone < run.added
  BY DEF Inv, Books, RunInv, Idle, RecursiveInv, WithDrop
<1> DEFINE n == run.ctes[run.gone + 1].name
<1>2. /\ run'.op = "with" /\ run'.ctes = run.ctes /\ run'.added = run.added /\ run'.gone = run.gone + 1
      /\ run'.before = run.before
  BY <1>1 DEF WithInv, WithFields, WithDrop, Continue
<1>3. \/ views' = Unregistered(n, views) /\ run'.clean = run.clean
      \/ views' = views /\ run'.clean = FALSE
  BY <1>1 DEF WithInv, WithFields, WithDrop, Continue
<1>4. Ctes' = Ctes /\ (NoOdd' <=> NoOdd)
  BY <1>2 DEF Ctes, NoOdd
<1>5. n \in Ctes /\ (NoOdd => n \notin Odd) /\ run.gone \in Nat
  BY <1>1 DEF WithInv, Ctes, NoOdd
<1> HIDE DEF n
<1>6. ASSUME NoOdd PROVE Without(Ctes, views') = run.before.views
  <2>1. Without(Ctes, views) = run.before.views
    BY <1>1, <1>6 DEF WithBooks, WithInv
  <2>2. Without(Ctes, Unregistered(n, views)) = Without(Ctes, views)
    <3>1. \A m \in {n} \ Odd : m \in Ctes
      BY <1>5
    <3> QED BY <3>1, ShapeFacts, WithoutTwice DEF Unregistered, Inv
  <2> QED BY <1>3, <2>1, <2>2
<1>7. ASSUME NoOdd, run'.clean PROVE \A i \in 1 .. run.gone + 1, v \in Range(views') : v.name # run.ctes[i].name
  <2>1. views' = Unregistered(n, views) /\ run.clean
    BY <1>3, <1>7
  <2>2. Range(views') = {v \in Range(views) : v.name # n \/ n \in Odd}
    BY <2>1, ShapeFacts, UnregisterFacts DEF Inv
  <2>3. \A i \in 1 .. run.gone, v \in Range(views) : v.name # run.ctes[i].name
    BY <1>1, <1>7, <2>1 DEF WithBooks, WithInv
  <2>4. \A v \in Range(views') : v \in Range(views) /\ v.name # run.ctes[run.gone + 1].name
    BY <1>5, <1>7, <2>2 DEF n
  <2> QED BY <1>5, <2>3, <2>4
<1> QED
  BY <1>1, <1>2, <1>4, <1>6, <1>7 DEF Books, WithBooks, RecursiveBooks, WithInv

\* A round writes only the recursion's own table.
LEMMA RecursionBooks ==
    ASSUME Inv, Books, RecRound \/ RecDiverges \/ RecFinal \/ RecMain
    PROVE  Books'
<1>1. run.op = "recursive" /\ views' = views /\ Continue(run')
  BY DEF RecRound, RecDiverges, RecFinal, RecMain, Continue
<1>2. RecursiveInv /\ RecursiveBooks
  BY <1>1 DEF Inv, RunInv, Idle, WithInv, Books
<1>3. run'.op = run.op /\ run'.name = run.name /\ run'.before = run.before /\ (run'.created \/ ~run'.clean)
  <2> DEFINE Goal(x) == /\ x.op = run.op /\ x.name = run.name /\ x.before = run.before
                        /\ x.clean = FALSE \/ (x.clean = run.clean /\ x.created = run.created)
             Staged(st) == [run EXCEPT !.stage = st]
             Stopped(st) == [run EXCEPT !.stage = st, !.clean = FALSE]
             Grown(acc, n) == [run EXCEPT !.acc = acc, !.round = n]
             Mixed(acc, n) == [run EXCEPT !.acc = acc, !.round = n, !.clean = FALSE]
             Failed(st, b) == [run EXCEPT !.stage = st, !.created = b, !.clean = FALSE]
             Answered(st, ok, rs) == [run EXCEPT !.stage = st, !.st = ok, !.rows = rs]
  <2>1. \/ \E st : run' = Staged(st) \/ run' = Stopped(st)
        \/ \E acc, n : run' = Grown(acc, n) \/ run' = Mixed(acc, n)
        \/ \E st, b : run' = Failed(st, b)
        \/ \E st, ok, rs : run' = Answered(st, ok, rs)
    <3>1. CASE RecRound
      BY <3>1 DEF RecRound, Continue
    <3>2. CASE RecDiverges
      BY <3>2 DEF RecDiverges, Continue
    <3>3. CASE RecFinal
      BY <3>3 DEF RecFinal, Continue
    <3>4. CASE RecMain
      BY <3>4 DEF RecMain, Continue
    <3> QED BY <3>1, <3>2, <3>3, <3>4
  <2>2. DOMAIN run = RecursiveFields /\ (run.created \/ ~run.clean)
    BY <1>2, <1>1 DEF RecursiveInv, RecursiveBooks
  <2>3. {"op", "name", "before", "clean", "created"} \subseteq DOMAIN run
    BY <2>2 DEF RecursiveFields
  <2>5. \A st, b : Goal(Failed(st, b))
    BY <2>3
  <2>6. \A st : Goal(Staged(st)) /\ Goal(Stopped(st))
    BY <2>3
  <2>7. \A acc, n : Goal(Grown(acc, n)) /\ Goal(Mixed(acc, n))
    BY <2>3
  <2>8. \A st, ok, rs : Goal(Answered(st, ok, rs))
    BY <2>3
  <2> HIDE DEF Goal, Staged, Stopped, Grown, Mixed, Failed, Answered
  <2>9. Goal(run')
    BY <2>1, <2>5, <2>6, <2>7, <2>8, ZenonT(30)
  <2> QED BY <2>2, <2>9 DEF Goal
<1>4. tables' = tables \/ \E t : Put(run.name, t)
  BY DEF RecRound, RecDiverges, RecFinal, RecMain
<1>5. \A n \in Names : n # run.name => tables'[n] = tables[n]
  BY <1>4, ShapeFacts DEF Put, Inv
<1> QED
  BY <1>1, <1>2, <1>3, <1>5 DEF Books, WithBooks, RecursiveBooks, RecursiveInv

\* Every step keeps the books.
LEMMA BooksKept == Inv /\ Books /\ [Next]_vars => Books'
<1>1. ASSUME Inv, Books, Next PROVE Books'
  <2>1. CASE run' = Idle
    BY <2>1, IdleBooks
  <2>2. CASE Withs
    BY <1>1, <2>2, BooksOpened, RecursiveBooksOpened DEF Withs, Inv
  <2>3. CASE Step
    <3>1. CASE WithReturn \/ RecCleanup
      BY <3>1, IdleBooks DEF WithReturn, RecCleanup
    <3> QED BY <1>1, <2>3, <3>1, WithAddBooks, WithMainBooks, WithDropBooks, RecursionBooks DEF Step
  <2> QED BY <1>1, <2>1, <2>2, <2>3, IdleOrUnderWay DEF Inv
<1>2. ASSUME Books, UNCHANGED vars PROVE Books'
  BY <1>2 DEF vars, Books, WithBooks, RecursiveBooks, NoOdd, Ctes
<1> QED
  BY <1>1, <1>2

\* They are empty at first.
LEMMA BooksInit == Init => Books
  BY DEF Init, Idle, Books, WithBooks, RecursiveBooks

\* What is done while a WITH statement is under way is its own next step, or the
\* end of the process.
LEMMA OnlyTheStep ==
    ASSUME Next, run # Idle
    PROVE  Step \/ Restart
<1>1. ~Statement
  BY DEF Statement
<1> QED
  BY <1>1 DEF Next, Transaction, sql__begin_tx, sql__exec_commit, sql__exec_rollback, RollbackTo,
     sql__exec_savepoint, sql__exec_release_savepoint, Schemas, SchemaInTx, Schema, sql__exec_create_table,
     sql__exec_drop_table, sql__exec_drop_view, sql__exec_create_view, Writes, Insert, InsertSelect,
     sql__exec_insert_on_conflict, sql__exec_update, sql__exec_delete, Withs, sql__exec_with_stmt,
     sql__exec_with_recursive_stmt, sql__exec_select_stmt, Crash, StackOverflow

\* A WITH statement changes no table and no view but its own.
LEMMA StepConfined == ASSUME Inv, Next PROVE Confined
<1> SUFFICES ASSUME run # Idle, ~Open
             PROVE  /\ \A n \in Names : n \notin OwnNames \/ run.op = "with" => tables'[n] = tables[n]
                    /\ Foreign(views') = Foreign(views)
  BY DEF Confined
<1>0. views \in Seq(View) /\ tables = [n \in Names |-> tables[n]]
  BY ShapeFacts DEF Inv
<1>1. CASE Restart
  BY <1>1 DEF Restart
<1>2. CASE WithAdd
  <2>1. WithInv /\ run.stage = "add" /\ tables' = tables /\ run.op = "with"
    BY <1>2 DEF Inv, RunInv, Idle, RecursiveInv, WithAdd
  <2>2. CASE views' = views
    BY <2>1, <2>2
  <2>3. CASE views' = Append(views, Cte)
    <3>1. Cte \in View /\ Cte.name \in OwnNames
      BY <2>1 DEF WithInv, Cte, OwnNames
    <3>2. Foreign(views') = Foreign(views)
      BY <1>0, <2>3, <3>1, WithoutLast DEF Foreign
    <3> QED BY <2>1, <3>2
  <2> QED BY <1>2, <2>2, <2>3 DEF WithAdd
<1>3. CASE WithDrop
  <2>1. WithInv /\ run.gone < run.added /\ tables' = tables /\ run.op = "with"
    BY <1>3 DEF Inv, RunInv, Idle, RecursiveInv, WithDrop
  <2> DEFINE n == run.ctes[run.gone + 1].name
  <2>2. CASE views' = views
    BY <2>1, <2>2
  <2>3. CASE views' = Unregistered(n, views)
    <3>1. n \in OwnNames
      BY <2>1 DEF WithInv, OwnNames
    <3>2. \A m \in {n} \ Odd : m \in OwnNames
      BY <3>1
    <3>3. Foreign(views') = Foreign(views)
      BY <1>0, <2>3, <3>2, WithoutTwice DEF Foreign, Unregistered
    <3> QED BY <2>1, <3>3
  <2> QED BY <1>3, <2>2, <2>3 DEF WithDrop
<1>4. CASE WithMain \/ WithReturn
  BY <1>4 DEF WithMain, WithReturn
<1>5. CASE RecRound \/ RecDiverges \/ RecFinal \/ RecMain \/ RecCleanup
  <2>1. run.op = "recursive" /\ views' = views
    BY <1>5 DEF RecRound, RecDiverges, RecFinal, RecMain, RecCleanup
  <2>2. tables' = tables \/ \E t : Put(run.name, t)
    BY <1>5 DEF RecRound, RecDiverges, RecFinal, RecMain, RecCleanup
  <2>3. \A n \in Names : n # run.name => tables'[n] = tables[n]
    BY <1>0, <2>2 DEF Put
  <2> QED BY <2>1, <2>3 DEF OwnNames
<1> QED
  BY <1>1, <1>2, <1>3, <1>4, <1>5, OnlyTheStep DEF Step

\* When it ends, and nothing failed, all is as before.
LEMMA StepCleaned == ASSUME Inv, Books, Next PROVE Cleaned
<1> SUFFICES ASSUME NEW op \in {"with", "recursive"}, Ended(op), run # Idle, reply'.args.clean,
                    op = "with" => \A i \in DOMAIN run.ctes : run.ctes[i].name \notin Odd
             PROVE  tables' = run.before.tables /\ views' = run.before.views
  BY DEF Cleaned
<1>0. run' = Idle /\ reply'.op = op
  BY DEF Ended
<1>1. ~Restart
  BY <1>0, ReplyOp DEF Restart
<1>2. ~(WithAdd \/ WithMain \/ WithDrop \/ RecRound \/ RecDiverges \/ RecFinal \/ RecMain)
  BY <1>0, StillUnderWay DEF Inv
<1>3. CASE WithReturn
  <2>1. WithInv /\ WithBooks /\ tables' = tables /\ views' = views /\ run.gone = run.added /\ reply'.args = run /\ op = "with"
    BY <1>0, <1>3 DEF Inv, Books, RunInv, Idle, RecursiveInv, WithReturn, Reply
  <2>2. NoOdd /\ run.clean
    BY <2>1 DEF NoOdd
  <2>3. Without(Ctes, views) = run.before.views
    BY <2>1, <2>2 DEF WithBooks, WithInv
  <2>4. \A v \in Range(views) : v.name \notin Ctes
    BY <2>1, <2>2 DEF WithBooks, WithInv, Ctes
  <2>5. Without(Ctes, views) = views
    BY <2>4, ShapeFacts, WithoutNone DEF Inv
  <2> QED BY <2>1, <2>3, <2>5 DEF WithBooks, WithInv
<1>4. CASE RecCleanup
  <2>1. run.op = "recursive" /\ views' = views
    BY <1>4 DEF RecCleanup
  <2>2. RecursiveInv /\ RecursiveBooks
    BY <2>1 DEF Inv, Books, RunInv, Idle, WithInv
  <2>3. Put(run.name, NoTable)
    BY <1>4, <2>2 DEF RecCleanup, Reply, RecursiveInv, RecursiveBooks, RecursiveFields
  <2>4. tables' = [n \in Names |-> IF n = run.name THEN NoTable ELSE tables[n]]
    BY <2>3, ShapeFacts DEF Put, Inv
  <2>5. tables' = [n \in Names |-> run.before.tables[n]]
    BY <2>2, <2>4 DEF RecursiveBooks, RecursiveInv
  <2> QED BY <2>1, <2>2, <2>5 DEF RecursiveBooks, RecursiveInv
<1> QED
  BY <1>1, <1>2, <1>3, <1>4, OnlyTheStep DEF Step

\* WithLeavesNothing: a WITH statement returns with every table and view as it found
\* them, if no storage call it made failed and its names can be found by a filter, and
\* changes no other table or view whatever fails (done: in sql__exec_with_stmt, cleanup:
\* in sql__exec_with_recursive_stmt).
THEOREM WithIsExact == Spec => WithLeavesNothing
<1>1. Init => Inv /\ Books
  BY InitInv, BooksInit
<1>2. (Inv /\ Books) /\ [Next]_vars => (Inv /\ Books)'
  BY StepInv, BooksKept
<1>3. Inv /\ Books /\ Next => Cleaned /\ Confined
  BY StepCleaned, StepConfined
<1> QED
  BY <1>1, <1>2, <1>3, PTL DEF Spec, WithLeavesNothing

-----------------------------------------------------------------------------
(* The rows of a table, before and after a write.                          *)

\* Rows, or the values of rows to come.
Valued(rs) == Listed(rs) /\ \A i \in DOMAIN rs : rs[i].k \in Vals /\ rs[i].v \in Vals \cup {Missing}

\* Rows added at the end of a table, with ids of their own.
Grown(old, new, q) ==
    /\ old \in Seq(Row) /\ q \in Seq(Row) /\ new = old \o q
    /\ \A i \in DOMAIN q : q[i].id \notin Ids(old)
    /\ \A i, j \in DOMAIN q : q[i].id = q[j].id => i = j

\* The rows at H changed, in place.
Edited(old, new, H) ==
    /\ old \in Seq(Row) /\ new \in Seq(Row) /\ DOMAIN new = DOMAIN old /\ H \subseteq DOMAIN old
    /\ \A i, j \in DOMAIN old : old[i].id = old[j].id => i = j
    /\ \A i \in DOMAIN old : new[i].id = old[i].id /\ (i \notin H => new[i] = old[i])

\* Rows have the fields rows have.
LEMMA RowFields ==
    ASSUME NEW r \in Row
    PROVE  r.id \in Nat /\ r.k \in Vals /\ r.v \in Vals \cup {Missing}
  BY DEF Row

\* What a table without a file holds.
LEMMA FreshNumbered == Numbered(NoTable) /\ Numbered(Fresh) /\ NoTable.rows = << >> /\ Fresh.rows = << >>
<1>1. << >> \in Seq(Row) /\ DOMAIN << >> = {}
  OBVIOUS
<1>2. NoTable.rows = << >> /\ NoTable.next = 0 /\ Fresh.rows = << >> /\ Fresh.next = 1
  BY DEF NoTable, Fresh, Table
<1> QED
  BY <1>1, <1>2 DEF Numbered

\* The rows kdb_add appends take the next ids.
LEMMA AppendedFacts ==
    ASSUME NEW t, Numbered(t), NEW rs, Valued(rs), NEW u, u = Appended(t, rs)
    PROVE  /\ Numbered(u)
           /\ \E q : /\ Grown(t.rows, u.rows, q) /\ Len(q) = Len(rs)
                     /\ \A i \in DOMAIN q : i \in DOMAIN rs /\ q[i].k = rs[i].k
<1> DEFINE q == [i \in DOMAIN rs |-> [id |-> t.next + i - 1, k |-> rs[i].k, v |-> rs[i].v]]
           m == Len(rs)
           old == t.rows
           n == Len(old)
           next == t.next
<1>1. m \in Nat /\ DOMAIN rs = 1 .. m
  BY DEF Valued, Listed
<1>2. old \in Seq(Row) /\ next \in Nat /\ n \in Nat /\ DOMAIN old = 1 .. n
      /\ \A i, j \in DOMAIN old : old[i].id < next /\ (old[i].id = old[j].id => i = j)
  BY DEF Numbered
<1>3. u.rows = old \o q /\ u.next = next + m
  BY DEF Appended, Table
<1>4. \A i \in 1 .. m : q[i] \in Row /\ q[i].id = next + i - 1 /\ q[i].k = rs[i].k
  <2> TAKE i \in 1 .. m
  <2>1. next + i - 1 \in Nat /\ i \in DOMAIN rs /\ rs[i].k \in Vals /\ rs[i].v \in Vals \cup {Missing}
    BY <1>1, <1>2 DEF Valued
  <2>2. q[i] = [id |-> next + i - 1, k |-> rs[i].k, v |-> rs[i].v]
    BY <2>1
  <2> QED BY <2>1, <2>2 DEF Row
<1>5. DOMAIN q = 1 .. m /\ q = [i \in 1 .. m |-> q[i]]
  BY <1>1
<1> HIDE DEF q, m, old, n, next
<1>6. q \in Seq(Row) /\ Len(q) = m
  <2>1. q \in [1 .. m -> Row]
    BY <1>4, <1>5
  <2> QED BY <1>1, <2>1
<1> DEFINE new == old \o q
<1>7. /\ new \in Seq(Row) /\ DOMAIN new = 1 .. n + m
      /\ \A i \in 1 .. n : new[i] = old[i]
      /\ \A i \in 1 .. m : new[n + i] = q[i]
  BY <1>1, <1>2, <1>6 DEF n
<1> HIDE DEF new
<1>8. \A i \in 1 .. n : old[i].id \in Nat
  BY <1>2, RowFields
<1>9. Grown(old, new, q)
  <2>1. \A i \in DOMAIN q : q[i].id \notin Ids(old)
    <3> SUFFICES ASSUME NEW i \in 1 .. m, NEW j \in 1 .. n PROVE q[i].id # old[j].id
      BY <1>2, <1>5 DEF Ids
    <3>1. old[j].id < next /\ old[j].id \in Nat
      BY <1>2, <1>8
    <3>2. q[i].id = next + i - 1 /\ i >= 1 /\ i \in Nat
      BY <1>1, <1>4
    <3> QED BY <1>2, <3>1, <3>2
  <2>2. \A i, j \in DOMAIN q : q[i].id = q[j].id => i = j
    BY <1>1, <1>2, <1>4, <1>5
  <2> QED BY <1>2, <1>6, <2>1, <2>2 DEF Grown, new
<1>10. ASSUME NEW i \in 1 .. n + m
       PROVE  \/ i \in 1 .. n /\ new[i].id = old[i].id /\ new[i].id < next /\ new[i].id \in Nat
              \/ i - n \in 1 .. m /\ new[i].id = next + (i - n) - 1
  <2>1. CASE i \in 1 .. n
    BY <1>2, <1>7, <1>8, <2>1
  <2>2. CASE i \notin 1 .. n
    <3>1. i - n \in 1 .. m /\ n + (i - n) = i
      BY <1>1, <1>2, <2>2
    <3> QED BY <1>4, <1>7, <3>1
  <2> QED BY <2>1, <2>2
<1>11. \A i, j \in 1 .. n + m : new[i].id < next + m /\ (new[i].id = new[j].id => i = j)
  <2> TAKE i, j \in 1 .. n + m
  <2>1. new[i].id < next + m
    BY <1>1, <1>2, <1>10
  <2>2. new[i].id = new[j].id => i = j
    BY <1>1, <1>2, <1>10
  <2> QED BY <2>1, <2>2
<1>12. Numbered(u)
  <2>1. u.rows = new /\ u.next = next + m
    BY <1>3 DEF new
  <2>2. u.next \in Nat
    BY <1>1, <1>2, <2>1
  <2> QED BY <1>7, <1>11, <2>1, <2>2 DEF Numbered
<1>13. Grown(t.rows, u.rows, q) /\ Len(q) = Len(rs) /\ \A i \in DOMAIN q : i \in DOMAIN rs /\ q[i].k = rs[i].k
  BY <1>1, <1>3, <1>4, <1>5, <1>6, <1>9 DEF new, old, m
<1> QED
  BY <1>12, <1>13

\* A list without repetition has as many elements as places.
LEMMA DistinctCount ==
    ASSUME NEW T, NEW q \in Seq(T), \A i, j \in DOMAIN q : q[i] = q[j] => i = j
    PROVE  Cardinality(Range(q)) = Len(q)
<1>1. Len(q) \in Nat /\ DOMAIN q = 1 .. Len(q)
  OBVIOUS
<1>2. IsFiniteSet(1 .. Len(q)) /\ Cardinality(1 .. Len(q)) = Len(q)
  <2> DEFINE m == Len(q)
  <2>1. m \in Nat
    BY <1>1
  <2> HIDE DEF m
  <2>2. IsFiniteSet(1 .. m) /\ Cardinality(1 .. m) = m
    <3>1. IsFiniteSet(1 .. m) /\ Cardinality(1 .. m) = IF 1 > m THEN 0 ELSE m - 1 + 1
      BY <2>1, FS_Interval
    <3> QED BY <2>1, <3>1
  <2> QED BY <2>2 DEF m
<1> DEFINE f == [i \in 1 .. Len(q) |-> q[i]]
<1>3. f \in Bijection(1 .. Len(q), Range(q))
  BY <1>1 DEF Bijection, Injection, IsInjective, Surjection, Range
<1> QED
  BY <1>2, <1>3, FS_Bijection DEF ExistsBijection

\* What added rows are to the table.
LEMMA GrownFacts ==
    ASSUME NEW old, NEW new, NEW q, Grown(old, new, q)
    PROVE  /\ Range(old) \subseteq Range(new) /\ Range(new) \ Range(old) = Range(q)
           /\ Cardinality(Range(new) \ Range(old)) = Len(q)
           /\ Only(new, {r \in Range(new) : r.id \notin Ids(old)}) = q
           /\ {r \in Range(new) : r.id \in Ids(old)} \ Range(old) = {}
           /\ Range(q) \subseteq Range(new)
<1>1. old \in Seq(Row) /\ q \in Seq(Row) /\ new = old \o q
  BY DEF Grown
<1>2. Range(new) = Range(old) \cup Range(q) /\ new \in Seq(Row)
  BY <1>1, RangeConcat
<1>3. \A r \in Range(old) : r.id \in Ids(old)
  BY DEF Range, Ids
<1>4. \A r \in Range(q) : r.id \notin Ids(old)
  BY DEF Grown, Range
<1>5. Range(new) \ Range(old) = Range(q)
  BY <1>2, <1>3, <1>4
<1>6. Cardinality(Range(q)) = Len(q)
  <2>1. \A i, j \in DOMAIN q : q[i] = q[j] => i = j
    BY DEF Grown
  <2> QED BY <1>1, <2>1, DistinctCount
<1>7. Only(new, {r \in Range(new) : r.id \notin Ids(old)}) = q
  <2> DEFINE S == {r \in Range(new) : r.id \notin Ids(old)}
  <2>1. (\A r \in Range(old) : r \notin S) /\ (\A r \in Range(q) : r \in S)
    BY <1>2, <1>3, <1>4
  <2> HIDE DEF S
  <2>2. Only(old, S) = << >>
    BY <1>1, <2>1, OnlyAllOrNone
  <2>3. Only(q, S) = q
    BY <1>1, <2>1, OnlyAllOrNone
  <2>4. Only(old \o q, S) = Only(old, S) \o Only(q, S)
    BY <1>1, OnlyConcat
  <2>5. << >> \o q = q
    BY <1>1
  <2>6. Only(new, S) = q
    BY <1>1, <2>2, <2>3, <2>4, <2>5, Zenon
  <2> QED BY <2>6 DEF S
<1> QED
  BY <1>2, <1>3, <1>4, <1>5, <1>6, <1>7

\* What changed rows are to the table.
LEMMA EditedFacts ==
    ASSUME NEW old, NEW new, NEW H, Edited(old, new, H), IsFiniteSet(H)
    PROVE  /\ Cardinality(Range(new) \ Range(old)) <= Cardinality(H)
           /\ \A r \in Range(new) \ Range(old) : \E i \in H : r = new[i]
           /\ {r \in Range(new) : r.id \notin Ids(old)} = {}
<1>1. \A r \in Range(new) \ Range(old) : \E i \in H : r = new[i]
  BY DEF Edited, Range
<1>2. {r \in Range(new) : r.id \notin Ids(old)} = {}
  BY DEF Edited, Range, Ids
<1> DEFINE D == Range(new) \ Range(old)
           G == {i \in H : new[i] \in D}
           f == [i \in G |-> new[i]]
<1>3. IsFiniteSet(G) /\ Cardinality(G) <= Cardinality(H)
  BY FS_Subset
<1>4. f \in Surjection(G, D)
  BY <1>1 DEF Surjection
<1>5. IsFiniteSet(D) /\ Cardinality(D) <= Cardinality(G)
  <2> HIDE DEF D, G, f
  <2> QED BY <1>3, <1>4, FS_Surjection
<1>6. Cardinality(D) \in Nat /\ Cardinality(G) \in Nat /\ Cardinality(H) \in Nat
  <2> HIDE DEF D, G, f
  <2> QED BY <1>3, <1>5, FS_CardinalityType
<1> HIDE DEF G
<1>7. Cardinality(D) <= Cardinality(H)
  <2> HIDE DEF D
  <2> QED BY <1>3, <1>5, <1>6
<1> QED
  BY <1>1, <1>2, <1>7

\* Of changed rows, those of a set that holds the rows at H and no others.
LEMMA PickedFacts ==
    ASSUME NEW new \in Seq(Row), NEW H, H \subseteq DOMAIN new, NEW S,
           \A i \in DOMAIN new : new[i] \in S <=> i \in H
    PROVE  /\ IsFiniteSet(H) /\ Len(Only(new, S)) = Cardinality(H)
           /\ Range(Only(new, S)) = Range(new) \cap S
           /\ \A i \in H : new[i] \in Range(new) \cap S
<1>1. new \in Seq(Row) /\ H \subseteq DOMAIN new
  OBVIOUS
<1>2. {i \in DOMAIN new : new[i] \in S} = H
  BY <1>1
<1>3. IsFiniteSet({i \in DOMAIN new : new[i] \in S}) /\ Len(Only(new, S)) = Cardinality({i \in DOMAIN new : new[i] \in S})
  BY <1>1, OnlyCount
<1>4. Range(Only(new, S)) = Range(new) \cap S
  BY <1>1, OnlyFacts
<1>5. \A i \in H : new[i] \in Range(new) \cap S
  BY <1>1 DEF Range
<1> QED
  BY <1>2, <1>3, <1>4, <1>5

-----------------------------------------------------------------------------
(* What a statement that writes tells its caller.                          *)

Truth(op, n) == AffectedIsTrue(op, n) /\ ReturningIsExact(op, n) /\ UpsertKeepsKeys(op, n)
Told(op, n) == run' = Idle /\ reply'.op = op /\ reply'.name = n /\ Truth(op, n) /\ Numbered(tables'[n])
Writers == {"insert", "upsert", "update", "delete"}

\* What a statement that succeeds replies.
LEMMA ExecReply ==
    ASSUME NEW op, NEW n, NEW a, NEW rs, NEW args, Exec(op, n, a, rs, args)
    PROVE  /\ run' = Idle /\ reply'.op = op /\ reply'.name = n /\ reply'.affected = a
           /\ reply'.rows = rs /\ reply'.args = args
  BY DEF Exec, Reply

\* What one that fails replies.
LEMMA FailReply ==
    ASSUME NEW op, NEW n, NEW a, NEW args, Fail(op, n, a, args)
    PROVE  /\ run' = Idle /\ reply'.op = op /\ reply'.name = n /\ reply'.affected = a
           /\ reply'.args = args /\ reply'.st = "failed"
  BY DEF Fail, Reply

\* Nothing written, nothing claimed.
LEMMA QuietTruth ==
    ASSUME NEW op \in Writers, NEW n, Numbered(tables[n]), tables'[n].rows = Rows(n),
           reply'.affected \in {NotSet, 0},
           reply'.st = "failed" \/ (reply'.affected = 0 /\ reply'.rows = << >>)
    PROVE  Truth(op, n)
<1> DEFINE old == Rows(n)
           none == {r \in Range(old) : r.id \notin Ids(old)}
<1>1. old \in Seq(Row)
  BY DEF Numbered, Rows
<1>2. none = {} /\ {r \in Range(old) : r.id \in Ids(old)} \ Range(old) = {} /\ Range(old) \ Range(old) = {}
  BY DEF Range, Ids
<1>3. Only(old, none) = << >>
  <2> HIDE DEF none, old
  <2> QED BY <1>1, <1>2, OnlyAllOrNone
<1>8. {r \in Range(old) : r.id \notin Ids(old) \cup reply'.args[3]} = none
  BY <1>2
<1>4. Cardinality({}) = 0 /\ Range(<< >>) = {} /\ Len(<< >>) = 0
  BY FS_EmptySet DEF Range
<1>5. AffectedIsTrue(op, n)
  <2> DEFINE R == Range(old)
  <2>1. Range(tables'[n].rows) = R /\ Range(Rows(n)) = R
    OBVIOUS
  <2>2. R \ R = {} /\ R \subseteq R
    OBVIOUS
  <2>3. reply'.affected # NotSet => reply'.affected = 0
    OBVIOUS
  <2> HIDE DEF R, old, none
  <2>4. Cardinality(R \ R) = 0
    BY <1>4, <2>2, Zenon
  <2>5. Cardinality(R \ R) <= 0
    BY <2>4
  <2> QED BY <2>1, <2>2, <2>3, <2>4, <2>5 DEF AffectedIsTrue, Writers
<1>6. ReturningIsExact(op, n)
  <2> SUFFICES ASSUME reply'.st # "failed" PROVE ReturningIsExact(op, n)
    BY DEF ReturningIsExact, Did
  <2>1. reply'.affected = 0 /\ reply'.rows = << >> /\ tables'[n].rows = old
    OBVIOUS
  <2>2. Only(old, {r \in Range(old) : r.id \notin Ids(old)}) = << >> /\ {r \in Range(old) : r.id \in Ids(old)} \ Range(old) = {}
    BY <1>2, <1>3
  <2>4. Only(old, {r \in Range(old) : r.id \notin Ids(old) \cup reply'.args[3]}) = << >>
    BY <1>3, <1>8
  <2>3. Rows(n) = old
    OBVIOUS
  <2> HIDE DEF old, none
  <2>5. CASE op = "insert"
    BY <2>1, <2>2, <2>3, <2>5 DEF ReturningIsExact
  <2>6. CASE op = "delete"
    BY <2>1, <2>3, <2>4, <2>6 DEF ReturningIsExact
  <2>7. CASE op = "update" \/ op = "upsert"
    <3>1. Range(Only(old, {r \in Range(old) : r.id \notin Ids(old)})) = {}
      BY <1>4, <2>2
    <3>2. Len(reply'.rows) = 0 /\ Range(reply'.rows) = {}
      BY <1>4, <2>1
    <3>3. ({r \in Range(old) : r.id \in Ids(old)} \ Range(old))
             \cup Range(Only(old, {r \in Range(old) : r.id \notin Ids(old)})) = {}
      BY <2>2, <3>1
    <3>4. op # "insert" /\ op # "delete"
      BY <2>7
    <3>5. Len(reply'.rows) <= reply'.affected /\ Len(reply'.rows) = reply'.affected
      BY <2>1, <3>2
    <3>6. Range(reply'.rows) \subseteq Range(old)
      BY <3>2
    <3> QED BY <2>1, <2>3, <3>3, <3>4, <3>5, <3>6 DEF ReturningIsExact
  <2> QED BY <2>5, <2>6, <2>7 DEF Writers
<1>7. UpsertKeepsKeys(op, n)
  BY DEF UpsertKeepsKeys
<1> QED
  BY <1>5, <1>6, <1>7 DEF Truth

\* Rows added and counted.
LEMMA GrownTruth ==
    ASSUME NEW op \in {"insert", "upsert"}, NEW n, NEW q, Grown(Rows(n), tables'[n].rows, q),
           reply'.affected \in {NotSet, Len(q)},
           reply'.st = "failed" \/ (reply'.affected = Len(q) /\ reply'.rows = q),
           op = "upsert" => /\ Len(q) <= 1
                            /\ Sought(reply'.args[1]) => \A i \in DOMAIN q, r \in Range(Rows(n)) : r.k # q[i].k
    PROVE  Truth(op, n)
<1> DEFINE old == Rows(n)
           new == tables'[n].rows
           D == Range(new) \ Range(old)
           A == {r \in Range(new) : r.id \notin Ids(old)}
           C == {r \in Range(new) : r.id \in Ids(old)} \ Range(old)
<1>0. Grown(old, new, q)
  OBVIOUS
<1>1. /\ Range(old) \subseteq Range(new) /\ Cardinality(D) = Len(q)
      /\ Only(new, A) = q /\ C = {} /\ Range(q) \subseteq Range(new)
  <2> HIDE DEF old, new
  <2> QED BY <1>0, GrownFacts
<1>2. old \in Seq(Row) /\ q \in Seq(Row) /\ new = old \o q
  BY DEF Grown
<1>3. Len(q) \in Nat
  BY <1>2
<1>4. AffectedIsTrue(op, n)
  <2>1. reply'.affected # NotSet => reply'.affected = Len(q)
    OBVIOUS
  <2>2. D = Range(new) \ Range(old)
    OBVIOUS
  <2> HIDE DEF D
  <2> QED BY <1>1, <1>3, <2>1, <2>2 DEF AffectedIsTrue
<1>5. ReturningIsExact(op, n)
  <2> SUFFICES ASSUME reply'.st # "failed" PROVE ReturningIsExact(op, n)
    BY DEF ReturningIsExact, Did
  <2>1. reply'.affected = Len(q) /\ reply'.rows = q
    OBVIOUS
  <2>2. CASE op = "insert"
    BY <1>1, <2>1, <2>2 DEF ReturningIsExact
  <2>3. CASE op = "upsert"
    <3>1. {r \in C \cup Range(Only(new, A)) : r.id \notin reply'.args[3]} \subseteq Range(q)
      BY <1>1
    <3>2. Len(reply'.rows) <= reply'.affected /\ Len(reply'.rows) = reply'.affected
      BY <1>3, <2>1
    <3> QED BY <1>1, <2>1, <2>3, <3>1, <3>2 DEF ReturningIsExact
  <2> QED BY <2>2, <2>3
<1>6. UpsertKeepsKeys(op, n)
  <2> SUFFICES ASSUME op = "upsert", Sought(reply'.args[1]), DistinctKeys(old) PROVE DistinctKeys(new)
    BY DEF UpsertKeepsKeys
  <2> DEFINE m == Len(old)
             l == Len(q)
  <2>1. /\ m \in Nat /\ l \in Nat /\ l <= 1 /\ DOMAIN old = 1 .. m /\ DOMAIN q = 1 .. l /\ DOMAIN new = 1 .. m + l
        /\ \A i \in 1 .. m : new[i] = old[i]
        /\ \A i \in 1 .. l : new[m + i] = q[i]
    BY <1>2
  <2>2. \A i \in 1 .. l, j \in 1 .. m : old[j].k # q[i].k
    BY <2>1 DEF Range
  <2>3. \A i, j \in 1 .. m : old[i].k = old[j].k => i = j
    BY <2>1 DEF DistinctKeys
  <2> HIDE DEF old, new, m, l
  <2>4. \A i \in 1 .. m + l : i \in 1 .. m \/ (l = 1 /\ i = m + 1)
    BY <2>1
  <2>5. \A i, j \in 1 .. m + l : new[i].k = new[j].k => i = j
    <3> TAKE i, j \in 1 .. m + l
    <3>1. CASE i \in 1 .. m /\ j \in 1 .. m
      BY <2>1, <2>3, <3>1
    <3>2. CASE i \in 1 .. m /\ l = 1 /\ j = m + 1
      BY <2>1, <2>2, <3>2
    <3>3. CASE j \in 1 .. m /\ l = 1 /\ i = m + 1
      BY <2>1, <2>2, <3>3
    <3> QED BY <2>4, <3>1, <3>2, <3>3
  <2> QED BY <2>1, <2>5 DEF DistinctKeys
<1> QED
  BY <1>4, <1>5, <1>6 DEF Truth

\* Rows changed and counted.
LEMMA EditedTruth ==
    ASSUME NEW op \in {"update", "upsert"}, NEW n, NEW H, NEW S, NEW lost, lost = reply'.args[3],
           Edited(Rows(n), tables'[n].rows, H), IsFiniteSet(H), reply'.affected = Cardinality(H),
           op = "update" \/ reply'.args[2].col # "k" =>
              /\ reply'.rows = Only(tables'[n].rows, S)
              /\ \A i \in DOMAIN tables'[n].rows :
                    tables'[n].rows[i] \in S <=> i \in H /\ tables'[n].rows[i].id \notin lost,
           op = "upsert" /\ reply'.args[2].col # "k" => \A i \in DOMAIN Rows(n) : tables'[n].rows[i].k = Rows(n)[i].k
    PROVE  Truth(op, n)
<1> DEFINE old == Rows(n)
           new == tables'[n].rows
           D == Range(new) \ Range(old)
           A == {r \in Range(new) : r.id \notin Ids(old)}
           C == {r \in Range(new) : r.id \in Ids(old)} \ Range(old)
<1>1. Cardinality(D) <= Cardinality(H) /\ (\A r \in D : \E i \in H : r = new[i]) /\ A = {}
  BY EditedFacts
<1>2. AffectedIsTrue(op, n)
  BY <1>1 DEF AffectedIsTrue
<1>3. ReturningIsExact(op, n)
  <2> SUFFICES ASSUME op = "update" \/ reply'.args[2].col # "k" PROVE ReturningIsExact(op, n)
    BY DEF ReturningIsExact
  <2> DEFINE G == {i \in H : new[i].id \notin lost}
  <2>0. G \subseteq H /\ IsFiniteSet(G) /\ Cardinality(G) <= Cardinality(H) /\ (lost = {} => G = H)
    <3>1. G \subseteq H /\ (lost = {} => G = H)
      OBVIOUS
    <3> HIDE DEF G
    <3> QED BY <3>1, FS_Subset
  <2>1. /\ Len(reply'.rows) = Cardinality(G) /\ Range(reply'.rows) = Range(new) \cap S
        /\ \A i \in G : new[i] \in Range(reply'.rows)
    <3>1. Edited(old, new, H)
      OBVIOUS
    <3>2. new \in Seq(Row) /\ G \subseteq DOMAIN new
      BY <2>0, <3>1 DEF Edited
    <3>3. \A i \in DOMAIN new : new[i] \in S <=> i \in G
      OBVIOUS
    <3>4. reply'.rows = Only(new, S)
      OBVIOUS
    <3> HIDE DEF new, G, old
    <3> QED BY <2>0, <3>2, <3>3, <3>4, PickedFacts
  <2>2. C \subseteq D
    OBVIOUS
  <2>3. {r \in C : r.id \notin lost} \subseteq Range(reply'.rows)
    <3>1. \A r \in D : r.id \notin lost => \E i \in G : r = new[i]
      BY <1>1
    <3> HIDE DEF C, D, G
    <3> QED BY <2>1, <2>2, <3>1
  <2>4. Range(Only(new, A)) = {}
    <3>1. new \in Seq(Row)
      BY DEF Edited
    <3>2. Range(Only(new, {})) = Range(new) \cap {}
      BY <3>1, OnlyFacts
    <3> QED BY <1>1, <3>2
  <2>5. {r \in C \cup Range(Only(new, A)) : r.id \notin lost} \subseteq Range(reply'.rows) /\ Range(reply'.rows) \subseteq Range(new)
    BY <2>1, <2>3, <2>4
  <2>6. Len(reply'.rows) <= reply'.affected /\ (lost = {} => Len(reply'.rows) = reply'.affected)
    BY <2>0, <2>1
  <2> HIDE DEF G
  <2> QED BY <2>5, <2>6 DEF ReturningIsExact
<1>4. UpsertKeepsKeys(op, n)
  <2> SUFFICES ASSUME op = "upsert", reply'.args[2].col # "k", DistinctKeys(old) PROVE DistinctKeys(new)
    BY DEF UpsertKeepsKeys
  <2>1. DOMAIN new = DOMAIN old /\ \A i \in DOMAIN old : new[i].k = old[i].k
    BY DEF Edited
  <2> QED BY <2>1 DEF DistinctKeys
<1> QED
  BY <1>2, <1>3, <1>4 DEF Truth

-----------------------------------------------------------------------------
(* INSERT.                                                                 *)

\* Of distinct elements, distinct ones are kept.
LEMMA OnlyDistinct ==
    ASSUME NEW T, NEW s \in Seq(T), NEW S, \A i, j \in DOMAIN s : s[i] = s[j] => i = j
    PROVE  \A i, j \in DOMAIN Only(s, S) : Only(s, S)[i] = Only(s, S)[j] => i = j
<1> DEFINE Distinct(q) == \A i, j \in DOMAIN q : q[i] = q[j] => i = j
           P == {q \in Seq(T) : Distinct(q) => Distinct(Only(q, S))}
<1>1. << >> \in P
  BY OnlyEmpty
<1>2. ASSUME NEW q \in Seq(T), NEW x \in T, q \in P PROVE Append(q, x) \in P
  <2> DEFINE p == Append(q, x)
             o == Only(q, S)
  <2>1. p \in Seq(T) /\ DOMAIN q = 1 .. Len(q) /\ DOMAIN p = 1 .. Len(q) + 1 /\ Len(q) \in Nat
        /\ p[Len(q) + 1] = x /\ \A i \in 1 .. Len(q) : p[i] = q[i]
    OBVIOUS
  <2> SUFFICES ASSUME Distinct(p) PROVE Distinct(Only(p, S))
    BY <2>1
  <2>2. Distinct(q) /\ x \notin Range(q)
    <3> HIDE DEF p
    <3> QED BY <2>1 DEF Range
  <2>3. Distinct(o)
    BY <1>2, <2>2
  <2>4. o \in Seq(T) /\ x \notin Range(o)
    BY <2>2, OnlyFacts
  <2>5. Only(p, S) = IF x \in S THEN Append(o, x) ELSE o
    BY OnlyLast
  <2> HIDE DEF o, p
  <2>6. Distinct(Append(o, x))
    <3>1. DOMAIN o = 1 .. Len(o) /\ DOMAIN Append(o, x) = 1 .. Len(o) + 1 /\ Len(o) \in Nat
          /\ Append(o, x)[Len(o) + 1] = x /\ \A i \in 1 .. Len(o) : Append(o, x)[i] = o[i] /\ o[i] # x
      BY <2>4 DEF Range
    <3>2. ASSUME NEW i \in 1 .. Len(o) + 1, NEW j \in 1 .. Len(o) + 1, Append(o, x)[i] = Append(o, x)[j]
          PROVE  i = j
      <4>1. CASE i \in 1 .. Len(o) /\ j \in 1 .. Len(o)
        BY <2>3, <3>1, <3>2, <4>1
      <4>2. CASE i = Len(o) + 1 \/ j = Len(o) + 1
        BY <3>1, <3>2, <4>2
      <4> QED BY <3>1, <4>1, <4>2
    <3> QED BY <3>1, <3>2
  <2> QED BY <2>3, <2>5, <2>6
<1> HIDE DEF P
<1>3. \A q \in Seq(T) : q \in P
  BY <1>1, <1>2, InductionOnSeq
<1> QED
  BY <1>3 DEF P

\* Nothing added.
LEMMA GrownByNone ==
    ASSUME NEW old, old \in Seq(Row)
    PROVE  Grown(old, old, << >>)
<1>1. << >> \in Seq(Row) /\ old = old \o << >> /\ DOMAIN << >> = {}
  OBVIOUS
<1> QED
  BY <1>1 DEF Grown

\* Rows added to a table, which may have to be created.
Adds(old, new, rs) ==
    \E q : Grown(old, new, q) /\ Len(q) = Len(rs) /\ \A i \in DOMAIN q : i \in DOMAIN rs /\ q[i].k = rs[i].k

\* kdb_add for each row adds that many rows.
LEMMA AddedFacts ==
    ASSUME NEW t, Numbered(t), Entry(t), NEW rs, Valued(rs)
    PROVE  Numbered(Added(t, rs)) /\ Adds(t.rows, Added(t, rs).rows, rs)
<1>1. CASE t.there
  <2>1. Added(t, rs) = Appended(t, rs)
    BY <1>1 DEF Added
  <2> QED BY <2>1, AppendedFacts DEF Adds
<1>2. CASE ~t.there
  <2>1. Added(t, rs) = Appended(Fresh, rs) /\ t.rows = Fresh.rows
    BY <1>2, FreshNumbered DEF Added, Entry
  <2> QED BY <2>1, FreshNumbered, AppendedFacts DEF Adds
<1> QED
  BY <1>1, <1>2

\* What an insertion that fails has added.
LEMMA PartialFacts ==
    ASSUME NEW t, Numbered(t), Entry(t), NEW rs, Valued(rs), NEW u \in Partial(t, rs)
    PROVE  Numbered(u) /\ Adds(t.rows, u.rows, rs)
<1>1. CASE rs = << >> /\ ~t.there
  <2>1. t = NoTable /\ u \in {NoTable, Fresh}
    BY <1>1 DEF Partial, Entry
  <2>2. Numbered(u) /\ u.rows = t.rows /\ t.rows = << >>
    BY <2>1, FreshNumbered
  <2>3. Grown(t.rows, u.rows, << >>)
    <3>1. << >> \in Seq(Row)
      OBVIOUS
    <3> QED BY <2>2, <3>1, GrownByNone
  <2>4. Len(<< >>) = Len(rs) /\ \A i \in DOMAIN << >> : i \in DOMAIN rs /\ << >>[i].k = rs[i].k
    BY <1>1
  <2> QED BY <2>2, <2>3, <2>4 DEF Adds
<1>2. CASE ~(rs = << >> /\ ~t.there)
  <2>1. u = Added(t, rs)
    BY <1>2 DEF Partial
  <2> QED BY <2>1, AddedFacts
<1> QED
  BY <1>1, <1>2

\* The first values of a list.
LEMMA ValuedPrefix ==
    ASSUME NEW rs, Valued(rs), NEW d \in 0 .. Len(rs), NEW p, p = SubSeq(rs, 1, d)
    PROVE  Valued(p) /\ Len(p) = d /\ \A i \in DOMAIN p : i \in DOMAIN rs /\ p[i] = rs[i]
<1>1. Listed(rs) /\ Len(rs) \in Nat /\ DOMAIN rs = 1 .. Len(rs) /\ d \in Nat
  BY DEF Valued, Listed
<1>2. Listed(p) /\ Len(p) = d /\ DOMAIN p = 1 .. d /\ \A i \in 1 .. d : p[i] = rs[i]
  <2>1. d \in 0 .. Len(rs) /\ Listed(rs) /\ p = SubSeq(rs, 1, d)
    BY <1>1
  <2> QED BY <2>1, PrefixFacts
<1>3. \A i \in DOMAIN p : i \in DOMAIN rs /\ p[i] = rs[i]
  BY <1>1, <1>2
<1> QED
  BY <1>2, <1>3 DEF Valued

\* Rows are values.
LEMMA RowsValued ==
    ASSUME NEW rs, rs \in Seq(Row)
    PROVE  Valued(rs)
<1>1. Listed(rs)
  BY SequenceListed
<1>2. \A i \in DOMAIN rs : rs[i] \in Row
  OBVIOUS
<1> QED
  BY <1>1, <1>2, RowFields DEF Valued

\* So are the rows of a statement and of a recursion.
LEMMA TuplesValued ==
    ASSUME NEW rs, rs \in Seq(Tuple)
    PROVE  Valued(rs)
<1>1. Listed(rs)
  BY SequenceListed
<1>2. \A i \in DOMAIN rs : rs[i] \in Tuple
  OBVIOUS
<1> QED
  BY <1>1, <1>2 DEF Valued, Tuple

\* A new entry of one name.
LEMMA PlacedFacts ==
    ASSUME Shape, NEW n \in Names, NEW t, tables' = [tables EXCEPT ![n] = t]
    PROVE  tables'[n] = t /\ \A m \in Names : m # n => tables'[m] = tables[m]
  BY ShapeFacts

\* The last rows of a table are those just added (ORDER BY id DESC LIMIT n).
LEMMA GrownLast ==
    ASSUME NEW old, NEW new, NEW q, Grown(old, new, q), NEW u, u.rows = new
    PROVE  sql__fetch_last_inserted_rows(u, Len(q)) = q
<1> DEFINE a == Len(old)
           b == Len(q)
           s == SubSeq(new, a + 1, a + b)
<1>1. old \in Seq(Row) /\ q \in Seq(Row) /\ new = old \o q
  BY DEF Grown
<1>2. a \in Nat /\ b \in Nat /\ Len(new) = a + b /\ (a + b) - b + 1 = a + 1
  BY <1>1
<1>3. s \in Seq(Row) /\ Len(s) = b /\ \A i \in 1 .. b : s[i] = q[i]
  BY <1>1
<1>4. s = q
  BY <1>1, <1>3
<1>5. sql__fetch_last_inserted_rows(u, Len(q)) = SubSeq(new, Len(new) - b + 1, Len(new))
  BY DEF sql__fetch_last_inserted_rows
<1> QED
  BY <1>2, <1>4, <1>5

\* An insertion, as far as it comes, tells the truth.
LEMMA AddingTold ==
    ASSUME NEW op \in {"insert", "upsert"}, NEW n, NEW rs, NEW u,
           Numbered(u), Adds(Rows(n), u.rows, rs), tables'[n] = u,
           run' = Idle, reply'.op = op, reply'.name = n,
           reply'.affected \in {NotSet, Len(rs)},
           reply'.st = "failed" \/ (reply'.affected = Len(rs) /\ reply'.rows = sql__fetch_last_inserted_rows(u, Len(rs))),
           op = "upsert" => /\ Len(rs) <= 1
                            /\ Sought(reply'.args[1]) => \A i \in DOMAIN rs, r \in Range(Rows(n)) : r.k # rs[i].k
    PROVE  Told(op, n)
<1>1. PICK q : Grown(Rows(n), u.rows, q) /\ Len(q) = Len(rs) /\ \A i \in DOMAIN q : i \in DOMAIN rs /\ q[i].k = rs[i].k
  BY DEF Adds
<1>2. sql__fetch_last_inserted_rows(u, Len(rs)) = q
  BY <1>1, GrownLast
<1>3. op = "upsert" => /\ Len(q) <= 1
                       /\ Sought(reply'.args[1]) => \A i \in DOMAIN q, r \in Range(Rows(n)) : r.k # q[i].k
  BY <1>1
<1>4. Truth(op, n)
  BY <1>1, <1>2, <1>3, GrownTruth
<1> QED
  BY <1>4 DEF Told

\* INSERT.
LEMMA InsertRowsTold ==
    ASSUME Shape, NEW n \in Names, Numbered(tables[n]), NEW op \in {"insert", "upsert"},
           NEW rs, Valued(rs), NEW ending, NEW args, InsertRows(op, n, rs, ending, args),
           op = "upsert" => /\ Len(rs) <= 1 /\ ending = "ok"
                            /\ Sought(args[1]) => \A i \in DOMAIN rs, r \in Range(Rows(n)) : r.k # rs[i].k
    PROVE  Told(op, n)
<1>1. Entry(tables[n]) /\ tables[n].rows = Rows(n) /\ Rows(n) \in Seq(Row)
  BY ShapeFacts DEF Rows, Numbered
<1>2. rs \in Seq(Range(rs)) /\ Len(rs) \in Nat
  BY DEF Valued, Listed
<1>3. CASE /\ IF rs = << >> THEN UNCHANGED <<tables, tx, collided>>
                            ELSE sql__db_write(n, Added(tables[n], rs), TRUE)
           /\ \/ ending = "ok" /\ Exec(op, n, Len(rs), sql__fetch_last_inserted_rows(Added(tables[n], rs), Len(rs)), args)
              \/ ending = "counted" /\ Fail(op, n, Len(rs), args)
              \/ ending = "silent" /\ Fail(op, n, NotSet, args)
  <2> DEFINE u == Added(tables[n], rs)
  <2>1. /\ run' = Idle /\ reply'.op = op /\ reply'.name = n /\ reply'.affected \in {NotSet, Len(rs)}
        /\ reply'.st = "failed" \/ (reply'.affected = Len(rs) /\ reply'.rows = sql__fetch_last_inserted_rows(u, Len(rs)))
    BY <1>3, ExecReply, FailReply
  <2>5. reply'.args = args
    BY <1>3, ExecReply, FailReply
  <2>2. Numbered(u) /\ Adds(Rows(n), u.rows, rs)
    BY <1>1, AddedFacts
  <2>3. CASE rs # << >>
    <3>1. tables'[n] = u
      BY <1>3, <2>3, PlacedFacts DEF sql__db_write, Put
    <3> HIDE DEF u
    <3> QED BY <2>1, <2>2, <2>5, <3>1, AddingTold
  <2>4. CASE rs = << >>
    <3>1. tables'[n] = tables[n] /\ Len(rs) = 0
      BY <1>3, <2>4
    <3> HIDE DEF u
    <3>2. PICK q : Grown(Rows(n), u.rows, q) /\ Len(q) = 0
      BY <2>2, <3>1 DEF Adds
    <3>3. q = << >>
      BY <3>2 DEF Grown
    <3>4. sql__fetch_last_inserted_rows(u, Len(rs)) = << >>
      BY <3>1, <3>2, <3>3, GrownLast
    <3>5. reply'.affected \in {NotSet, 0} /\ (reply'.st = "failed" \/ (reply'.affected = 0 /\ reply'.rows = << >>))
      BY <2>1, <3>1, <3>4
    <3>6. tables'[n].rows = Rows(n) /\ op \in Writers
      BY <1>1, <3>1 DEF Writers
    <3>7. Truth(op, n)
      BY <3>5, <3>6, QuietTruth
    <3> QED BY <2>1, <3>1, <3>7 DEF Told
  <2> QED BY <2>3, <2>4
<1>4. CASE Fail(op, n, Counted(op, 0), args) /\ UNCHANGED <<tables, tx, collided, faults>>
  <2>1. run' = Idle /\ reply'.op = op /\ reply'.name = n /\ reply'.affected \in {NotSet, 0} /\ reply'.st = "failed"
    BY <1>4, FailReply DEF Counted
  <2>2. tables'[n] = tables[n] /\ tables'[n].rows = Rows(n) /\ op \in Writers
    BY <1>1, <1>4 DEF Writers
  <2>3. Truth(op, n)
    BY <2>1, <2>2, QuietTruth
  <2> QED BY <2>1, <2>2, <2>3 DEF Told
<1>5. ASSUME NEW i \in 0 .. Len(rs) - 1, NEW u \in Partial(tables[n], SubSeq(rs, 1, i)),
             sql__db_write(n, u, FALSE), Fail(op, n, Counted(op, i), args)
      PROVE  Told(op, n)
  <2> DEFINE p == SubSeq(rs, 1, i)
  <2>1. i \in 0 .. Len(rs) /\ i \in Nat
    BY <1>2
  <2>2. Valued(p) /\ Len(p) = i /\ \A j \in DOMAIN p : j \in DOMAIN rs /\ p[j] = rs[j]
    BY <2>1, ValuedPrefix
  <2>3. u \in Partial(tables[n], p)
    BY <1>5
  <2> HIDE DEF p
  <2>4. Numbered(u) /\ Adds(Rows(n), u.rows, p)
    BY <1>1, <2>2, <2>3, PartialFacts
  <2>5. tables'[n] = u
    BY <1>5, PlacedFacts DEF sql__db_write, Put
  <2>6. run' = Idle /\ reply'.op = op /\ reply'.name = n /\ reply'.affected \in {NotSet, Len(p)} /\ reply'.st = "failed"
    BY <1>5, <2>2, FailReply DEF Counted
  <2>7. op = "upsert" => /\ Len(p) <= 1
                         /\ Sought(reply'.args[1]) => \A j \in DOMAIN p, r \in Range(Rows(n)) : r.k # p[j].k
    <3>1. reply'.args = args
      BY <1>5, FailReply
    <3> QED BY <1>2, <2>1, <2>2, <3>1
  <2> QED BY <2>4, <2>5, <2>6, <2>7, AddingTold
<1> QED
  BY <1>3, <1>4, <1>5 DEF InsertRows

-----------------------------------------------------------------------------
(* UPDATE, DELETE and ON CONFLICT DO UPDATE.                               *)

\* What the rows a WHERE clause selects are.
Chosen(rs, where) == {i \in DOMAIN rs : Hits(where, rs[i])}

\* The rows a WHERE clause selects are those, as many as there are.
LEMMA SelectedFacts ==
    ASSUME NEW rs, rs \in Seq(Row), NEW where
    PROVE  /\ IsFiniteSet(Chosen(rs, where)) /\ Len(Selected(rs, where)) = Cardinality(Chosen(rs, where))
           /\ Selected(rs, where) \in Seq(Row)
           /\ Range(Selected(rs, where)) = {r \in Range(rs) : Hits(where, r)}
           /\ Ids(Selected(rs, where)) = {rs[i].id : i \in Chosen(rs, where)}
<1> DEFINE S == {r \in Range(rs) : Hits(where, r)}
           m == Selected(rs, where)
<1>1. m = Only(rs, S)
  BY DEF Selected
<1>2. {i \in DOMAIN rs : rs[i] \in S} = Chosen(rs, where)
  BY DEF Chosen, Range
<1>3. IsFiniteSet({i \in DOMAIN rs : rs[i] \in S}) /\ Len(Only(rs, S)) = Cardinality({i \in DOMAIN rs : rs[i] \in S})
  <2> HIDE DEF S
  <2> QED BY OnlyCount
<1>4. Only(rs, S) \in Seq(Row) /\ Range(Only(rs, S)) = Range(rs) \cap S
  <2> HIDE DEF S
  <2> QED BY OnlyFacts
<1>5. Range(m) = S
  BY <1>1, <1>4
<1>6. Ids(m) = {rs[i].id : i \in Chosen(rs, where)}
  <2>1. Ids(m) = {r.id : r \in Range(m)}
    BY DEF Ids, Range
  <2>2. {r.id : r \in S} = {rs[i].id : i \in Chosen(rs, where)}
    BY DEF Chosen, Range
  <2> QED BY <1>5, <2>1, <2>2
<1> QED
  BY <1>1, <1>2, <1>3, <1>4, <1>5, <1>6

\* What an UPDATE makes of a table.
LEMMA UpdatedFacts ==
    ASSUME NEW n, Numbered(tables[n]), NEW where, NEW set \in [col : Cols, val : Vals], NEW new, new = Updated(n, where, set)
    PROVE  /\ Edited(Rows(n), new, Chosen(Rows(n), where))
           /\ Numbered(WithRows(n, new)) /\ WithRows(n, new).rows = new
           /\ set.col # "k" => \A i \in DOMAIN new : i \in DOMAIN Rows(n) /\ new[i].k = Rows(n)[i].k
<1> DEFINE old == Rows(n)
           H == Chosen(old, where)
<1>1. old \in Seq(Row) /\ Len(old) \in Nat /\ DOMAIN old = 1 .. Len(old) /\ tables[n].next \in Nat
      /\ \A i, j \in DOMAIN old : old[i].id < tables[n].next /\ (old[i].id = old[j].id => i = j)
  BY DEF Numbered, Rows
<1>2. new = [i \in DOMAIN old |-> IF Hits(where, old[i]) THEN [old[i] EXCEPT ![set.col] = set.val] ELSE old[i]]
  BY DEF Updated
<1>3. set.col \in {"k", "v"} /\ set.val \in Vals
  BY DEF Cols
<1> HIDE DEF old
<1>4. ASSUME NEW r \in Row
      PROVE  /\ [r EXCEPT ![set.col] = set.val] \in Row /\ [r EXCEPT ![set.col] = set.val].id = r.id
             /\ set.col # "k" => [r EXCEPT ![set.col] = set.val].k = r.k
  <2>1. CASE set.col = "k"
    BY <1>3, <2>1 DEF Row
  <2>2. CASE set.col = "v"
    BY <1>3, <2>2 DEF Row
  <2> QED BY <1>3, <2>1, <2>2
<1>5. ASSUME NEW i \in DOMAIN old
      PROVE  /\ new[i] \in Row /\ new[i].id = old[i].id /\ (i \notin H => new[i] = old[i])
             /\ set.col # "k" => new[i].k = old[i].k
  <2>1. old[i] \in Row
    BY <1>1
  <2>2. new[i] = IF Hits(where, old[i]) THEN [old[i] EXCEPT ![set.col] = set.val] ELSE old[i]
    BY <1>2
  <2>3. CASE Hits(where, old[i])
    <3>1. i \in H
      BY <2>3 DEF Chosen
    <3>2. new[i] = [old[i] EXCEPT ![set.col] = set.val]
      BY <2>2, <2>3
    <3> QED BY <1>4, <2>1, <3>1, <3>2
  <2>4. CASE ~Hits(where, old[i])
    BY <2>1, <2>2, <2>4
  <2> QED BY <2>3, <2>4
<1>6. DOMAIN new = DOMAIN old /\ new \in Seq(Row)
  <2>1. new = [i \in 1 .. Len(old) |-> new[i]] /\ DOMAIN new = DOMAIN old
    BY <1>1, <1>2
  <2>2. new \in [1 .. Len(old) -> Row]
    BY <1>1, <1>5, <2>1
  <2> QED BY <1>1, <2>1, <2>2
<1>7. Edited(old, new, H)
  <2>1. H \subseteq DOMAIN old
    BY DEF Chosen
  <2> QED BY <1>1, <1>5, <1>6, <2>1 DEF Edited
<1>8. WithRows(n, new).rows = new /\ WithRows(n, new).next = tables[n].next
  BY DEF WithRows, Table
<1>9. Numbered(WithRows(n, new))
  BY <1>1, <1>5, <1>6, <1>8 DEF Numbered
<1> QED
  BY <1>5, <1>6, <1>7, <1>8, <1>9 DEF old

\* A call that writes what was there before says nothing that is not so.
LEMMA QuietTold ==
    ASSUME NEW op \in Writers, NEW n, Numbered(tables[n]), tables'[n] = tables[n], run' = Idle,
           reply'.op = op, reply'.name = n, reply'.affected \in {NotSet, 0},
           reply'.st = "failed" \/ (reply'.affected = 0 /\ reply'.rows = << >>)
    PROVE  Told(op, n)
<1>1. tables'[n].rows = Rows(n)
  BY DEF Rows
<1>2. Truth(op, n)
  BY <1>1, QuietTruth
<1> QED
  BY <1>2 DEF Told

\* A refused statement.
LEMMA RefuseTold ==
    ASSUME NEW op \in Writers, NEW n, Numbered(tables[n]), Refuse(op, n)
    PROVE  Told(op, n)
<1>1. Fail(op, n, NotSet, None) /\ tables' = tables
  BY DEF Refuse
<1> QED
  BY <1>1, FailReply, QuietTold

\* A statement on a table that is not there.
LEMMA NoSuchTableTold ==
    ASSUME NEW op \in Writers, NEW n, Numbered(tables[n]), NoSuchTable(op, n)
    PROVE  Told(op, n)
<1>1. Fail(op, n, NotSet, None) /\ tables' = tables
  BY DEF NoSuchTable
<1> QED
  BY <1>1, FailReply, QuietTold

\* A write that is refused.
LEMMA WriteFailsTold ==
    ASSUME Shape, NEW op \in Writers, NEW n \in Names, Numbered(tables[n]), NEW args, WriteFails(op, n, args)
    PROVE  Told(op, n)
<1>1. Fail(op, n, NotSet, args)
  BY DEF WriteFails
<1>2. tables'[n] = tables[n]
  BY PlacedFacts DEF WriteFails, sql__db_write, Put
<1> QED
  BY <1>1, <1>2, FailReply, QuietTold

\* A write that finds no row.
LEMMA NothingToDoTold ==
    ASSUME NEW op \in Writers, NEW n, Numbered(tables[n]), NEW where, NEW args, NothingToDo(op, n, where, args)
    PROVE  Told(op, n)
<1>1. Exec(op, n, 0, None, args) /\ tables' = tables
  BY DEF NothingToDo
<1>2. reply'.rows = << >>
  BY <1>1, ExecReply DEF None
<1> QED
  BY <1>1, <1>2, ExecReply, QuietTold

\* UPDATE.
LEMMA UpdateTold ==
    ASSUME Shape, NEW n \in Names, Numbered(tables[n]), NEW where, NEW set \in [col : Cols, val : Vals],
           sql__exec_update(n, where, set)
    PROVE  Told("update", n)
<1>0. "update" \in Writers
  BY DEF Writers
<1>1. ASSUME NEW cond, NEW lost, sql__db_write(n, WithRows(n, Updated(n, cond, set)), TRUE),
             Exec("update", n, Len(Matched(n, cond)),
                  Returned(Updated(n, cond, set), Ids(Matched(n, cond)) \ lost, cond), <<where, set, lost>>)
      PROVE  Told("update", n)
  <2> DEFINE old == Rows(n)
             new == Updated(n, cond, set)
             H == Chosen(old, cond)
             S == {r \in Range(new) : r.id \in Ids(Matched(n, cond)) \ lost}
  <2>1. tables'[n] = WithRows(n, new)
    BY <1>1, PlacedFacts DEF sql__db_write, Put
  <2>2. /\ Edited(old, new, H) /\ Numbered(WithRows(n, new)) /\ WithRows(n, new).rows = new
    BY UpdatedFacts
  <2>3. IsFiniteSet(H) /\ Len(Matched(n, cond)) = Cardinality(H) /\ Ids(Matched(n, cond)) = {old[i].id : i \in H}
    <3>1. old \in Seq(Row)
      BY DEF Numbered, Rows
    <3>2. Matched(n, cond) = Selected(old, cond)
      BY DEF Matched
    <3> HIDE DEF old
    <3> QED BY <3>1, <3>2, SelectedFacts
  <2>4. /\ run' = Idle /\ reply'.op = "update" /\ reply'.name = n /\ reply'.affected = Cardinality(H)
        /\ reply'.rows = Only(new, S) /\ lost = reply'.args[3]
    BY <1>1, <2>3, ExecReply DEF Returned
  <2>5. \A i \in DOMAIN new : new[i] \in S <=> i \in H /\ new[i].id \notin lost
    <3> HIDE DEF old, new, H
    <3>1. TAKE i \in DOMAIN new
    <3>2. new[i] \in Range(new) /\ i \in DOMAIN old /\ new[i].id = old[i].id
          /\ H \subseteq DOMAIN old /\ \A j \in DOMAIN old : old[i].id = old[j].id => i = j
      BY <2>2 DEF Edited, Range
    <3> QED BY <2>3, <3>2
  <2>6. Truth("update", n)
    <3>1. tables'[n].rows = new
      BY <2>1, <2>2
    <3>2. Rows(n) = old
      OBVIOUS
    <3> HIDE DEF old, new, H, S
    <3> QED BY <2>2, <2>3, <2>4, <2>5, <3>1, <3>2, EditedTruth
  <2> QED BY <2>1, <2>2, <2>4, <2>6 DEF Told
<1> QED
  BY <1>0, <1>1, NoSuchTableTold, WriteFailsTold, NothingToDoTold DEF sql__exec_update

\* INSERT ... ON CONFLICT.
LEMMA UpsertTold ==
    ASSUME Shape, NEW n \in Names, Numbered(tables[n]), NEW r \in Tuple, NEW set \in [col : Cols, val : Vals] \cup {NoSet},
           sql__exec_insert_on_conflict(n, r, set)
    PROVE  Told("upsert", n)
<1>0. "upsert" \in Writers /\ "upsert" \in {"insert", "upsert"}
  BY DEF Writers
<1>1. CASE Existing(n, r) = << >> /\ InsertRows("upsert", n, <<r>>, "ok", <<r, set, {}>>)
  <2> DEFINE rs == <<r>>
             given == <<r, set, {}>>
  <2>1. rs \in Seq(Tuple) /\ Len(rs) = 1 /\ DOMAIN rs = {1} /\ rs[1] = r
    OBVIOUS
  <2>2. InsertRows("upsert", n, rs, "ok", given) /\ given[1] = r
    BY <1>1
  <2> HIDE DEF rs, given
  <2>3. Valued(rs)
    BY <2>1, TuplesValued
  <2>4. Sought(r) => \A i \in DOMAIN rs, x \in Range(Rows(n)) : x.k # rs[i].k
    <3> SUFFICES ASSUME Sought(r) PROVE \A x \in Range(Rows(n)) : x.k # r.k
      BY <2>1
    <3>1. Key(r) = [col |-> "k", val |-> r.k]
      BY DEF Sought, Key, InFilter
    <3>2. \A x : x.k = r.k => Hits(Key(r), x)
      BY <3>1 DEF Hits, All, Nowhere
    <3>3. Rows(n) \in Seq(Row) /\ Range(Selected(Rows(n), Key(r))) = {}
      BY <1>1 DEF Existing, Matched, Numbered, Rows, Range
    <3>4. {x \in Range(Rows(n)) : Hits(Key(r), x)} = {}
      BY <3>3, SelectedFacts
    <3> QED BY <3>2, <3>4
  <2>5. Sought(given[1]) => \A i \in DOMAIN rs, x \in Range(Rows(n)) : x.k # rs[i].k
    BY <2>2, <2>4
  <2>6. Len(rs) <= 1
    BY <2>1
  <2>7. ASSUME NEW op \in {"insert", "upsert"}, NEW ending, ending = "ok", InsertRows(op, n, rs, ending, given)
        PROVE  Told(op, n)
    BY <2>3, <2>5, <2>6, <2>7, InsertRowsTold
  <2> QED BY <1>0, <2>2, <2>7
<1>2. CASE Upserted(n, r, set)
  <2>1. CASE /\ Exec("upsert", n, 0, None, <<r, set, {}>>)
             /\ UNCHANGED <<tables, views, tx, collided, faults>>
    <3>1. reply'.rows = << >>
      BY <2>1, ExecReply DEF None
    <3> QED BY <1>0, <2>1, <3>1, ExecReply, QuietTold
  <2>2. CASE WriteFails("upsert", n, <<r, set, {}>>)
    BY <1>0, <2>2, WriteFailsTold
  <2>3. ASSUME set # NoSet, NEW lost, sql__db_write(n, WithRows(n, Updated(n, Key(r), set)), TRUE),
               Exec("upsert", n, Len(Matched(n, Key(r))),
                    kdb_find_ex(Updated(n, Key(r), set), Key(r), lost), <<r, set, lost>>)
        PROVE  Told("upsert", n)
    <3> DEFINE where == Key(r)
               old == Rows(n)
               new == Updated(n, where, set)
               H == Chosen(old, where)
               S == {x \in Range(new) : Hits(where, x) /\ x.id \notin lost}
    <3>0. set \in [col : Cols, val : Vals]
      BY <2>3
    <3>1. tables'[n] = WithRows(n, new)
      BY <2>3, PlacedFacts DEF sql__db_write, Put
    <3>2. /\ Edited(old, new, H) /\ Numbered(WithRows(n, new)) /\ WithRows(n, new).rows = new
          /\ set.col # "k" => \A i \in DOMAIN new : i \in DOMAIN old /\ new[i].k = old[i].k
      <4> HIDE DEF where
      <4> QED BY <3>0, UpdatedFacts
    <3>3. IsFiniteSet(H) /\ Len(Matched(n, where)) = Cardinality(H)
      <4>1. old \in Seq(Row)
        BY DEF Numbered, Rows
      <4>2. Matched(n, where) = Selected(old, where)
        BY DEF Matched
      <4> HIDE DEF old, where
      <4> QED BY <4>1, <4>2, SelectedFacts
    <3>4. /\ run' = Idle /\ reply'.op = "upsert" /\ reply'.name = n /\ reply'.affected = Cardinality(H)
          /\ reply'.rows = Only(new, S) /\ reply'.args = <<r, set, lost>>
      BY <2>3, <3>3, ExecReply DEF kdb_find_ex
    <3>5. reply'.args[2] = set /\ lost = reply'.args[3]
      BY <3>4
    <3>6. \A x, y : x.k = y.k => (Hits(where, x) <=> Hits(where, y))
      BY DEF Hits, Key, All, InFilter, Nowhere
    <3>7. set.col # "k" => \A i \in DOMAIN new : new[i] \in S <=> i \in H /\ new[i].id \notin lost
      <4>1. \A i \in DOMAIN new : new[i] \in Range(new)
        BY DEF Range
      <4>2. \A i \in DOMAIN new : new[i] \in S <=> Hits(where, new[i]) /\ new[i].id \notin lost
        BY <4>1
      <4>3. \A i \in DOMAIN old : i \in H <=> Hits(where, old[i])
        BY DEF Chosen
      <4> HIDE DEF S, H, new, old, where
      <4> QED BY <3>2, <3>6, <4>2, <4>3
    <3>8. Truth("upsert", n)
      <4>1. tables'[n].rows = new
        BY <3>1, <3>2
      <4>2. Rows(n) = old /\ DOMAIN new = DOMAIN old
        BY <3>2 DEF Edited
      <4> HIDE DEF old, new, H, S
      <4> QED BY <3>2, <3>3, <3>4, <3>5, <3>7, <4>1, <4>2, EditedTruth
    <3> QED BY <3>1, <3>2, <3>4, <3>8 DEF Told
  <2> QED BY <1>2, <2>1, <2>2, <2>3 DEF Upserted
<1> QED
  BY <1>0, <1>1, <1>2, RefuseTold DEF sql__exec_insert_on_conflict

-----------------------------------------------------------------------------
(* DELETE, INSERT and INSERT ... SELECT.                                   *)

\* DELETE.
LEMMA DeleteTold ==
    ASSUME Shape, NEW n \in Names, Numbered(tables[n]), NEW where, sql__exec_delete(n, where)
    PROVE  Told("delete", n)
<1>0. "delete" \in Writers
  BY DEF Writers
<1>1. ASSUME NEW cond, NEW lost, sql__db_write(n, WithRows(n, Remaining(n, cond)), TRUE),
             Exec("delete", n, Len(Matched(n, cond)), kdb_find_ex(Rows(n), cond, lost), <<where, None, lost>>)
      PROVE  Told("delete", n)
  <2> DEFINE old == Rows(n)
             gone == Matched(n, cond)
             Staying == {r \in Range(old) : ~Hits(cond, r)}
             new == Only(old, Staying)
  <2>1. /\ old \in Seq(Row) /\ tables[n].next \in Nat
        /\ \A i, j \in DOMAIN old : old[i].id < tables[n].next /\ (old[i].id = old[j].id => i = j)
    BY DEF Numbered, Rows
  <2>2. tables'[n] = Table(tables[n].next, new)
    BY <1>1, PlacedFacts DEF sql__db_write, Put, WithRows, Remaining
  <2>3. tables'[n].rows = new /\ tables'[n].next = tables[n].next
    BY <2>2 DEF Table
  <2>4. gone = Only(old, {r \in Range(old) : Hits(cond, r)}) /\ Range(gone) = {r \in Range(old) : Hits(cond, r)}
        /\ gone \in Seq(Row)
    <3>1. gone = Selected(old, cond)
      BY DEF Matched
    <3>2. Selected(old, cond) = Only(old, {r \in Range(old) : Hits(cond, r)})
      BY DEF Selected
    <3> HIDE DEF old, gone
    <3>3. Range(gone) = {r \in Range(old) : Hits(cond, r)} /\ gone \in Seq(Row)
      BY <2>1, <3>1, SelectedFacts
    <3> QED BY <3>1, <3>2, <3>3
  <2>5. Range(new) = Staying /\ new \in Seq(Row)
    <3>1. Staying \subseteq Range(old)
      OBVIOUS
    <3>2. old \in Seq(Row)
      BY <2>1
    <3> HIDE DEF old, Staying
    <3>3. new \in Seq(Row) /\ Range(new) = Range(old) \cap Staying
      BY <3>2, OnlyFacts
    <3> QED BY <3>1, <3>3
  <2>6. \A r, s \in Range(old) : r.id < tables[n].next /\ (r.id = s.id => r = s)
    <3> HIDE DEF old
    <3> QED BY <2>1 DEF Range
  <2>7. \A i, j \in DOMAIN old : old[i] = old[j] => i = j
    BY <2>1
  <2>8. \A i, j \in DOMAIN new : new[i] = new[j] => i = j
    <3> HIDE DEF old, Staying
    <3> QED BY <2>1, <2>7, OnlyDistinct
  <2>9. \A i, j \in DOMAIN gone : gone[i] = gone[j] => i = j
    <3> DEFINE S == {r \in Range(old) : Hits(cond, r)}
    <3>1. gone = Only(old, S)
      BY <2>4
    <3> HIDE DEF old, S, gone
    <3> QED BY <2>1, <2>7, <3>1, OnlyDistinct
  <2>10. \A i \in DOMAIN new : new[i] \in Range(old)
    <3>1. Staying \subseteq Range(old)
      OBVIOUS
    <3> HIDE DEF old, Staying, new
    <3> QED BY <2>5, <3>1 DEF Range
  <2>11. Numbered(tables'[n])
    <3> HIDE DEF old, new
    <3> QED BY <2>1, <2>3, <2>5, <2>6, <2>8, <2>10 DEF Numbered
  <2>12. Range(old) \ Range(new) = Range(gone) /\ Range(new) \subseteq Range(old)
    BY <2>4, <2>5
  <2>13. Cardinality(Range(gone)) = Len(gone)
    <3> HIDE DEF gone
    <3> QED BY <2>4, <2>9, DistinctCount
  <2>14. Only(old, {r \in Range(old) : Hits(cond, r) /\ r.id \notin lost})
           = Only(old, {r \in Range(old) : r.id \notin Ids(new) \cup lost})
    <3> DEFINE S == {r \in Range(old) : Hits(cond, r) /\ r.id \notin lost}
               R == {r \in Range(old) : r.id \notin Ids(new) \cup lost}
    <3>1. Ids(new) = {r.id : r \in Range(new)}
      BY DEF Ids, Range
    <3>2. ASSUME NEW r \in Range(old) PROVE r \in S <=> r \in R
      <4>1. r.id \in Ids(new) <=> \E s \in Staying : r.id = s.id
        BY <2>5, <3>1
      <4>2. \A s \in Staying : s \in Range(old)
        OBVIOUS
      <4>3. r.id \in Ids(new) <=> r \in Staying
        <5> HIDE DEF old, new, Staying
        <5> QED BY <2>6, <4>1, <4>2
      <4> QED BY <4>3
    <3> HIDE DEF S, R, old
    <3>3. Only(old, S) = Only(old, R)
      BY <2>1, <3>2, OnlySame
    <3> QED BY <3>3 DEF S, R
  <2>15. /\ run' = Idle /\ reply'.op = "delete" /\ reply'.name = n /\ reply'.affected = Len(gone)
         /\ reply'.rows = Only(old, {r \in Range(old) : Hits(cond, r) /\ r.id \notin lost}) /\ reply'.args[3] = lost
    BY <1>1, ExecReply DEF kdb_find_ex
  <2>16. Truth("delete", n)
    <3>1. Rows(n) = old
      OBVIOUS
    <3> HIDE DEF old, new, gone
    <3>2. AffectedIsTrue("delete", n)
      BY <2>3, <2>12, <2>13, <2>15, <3>1 DEF AffectedIsTrue
    <3>3. ReturningIsExact("delete", n)
      BY <2>3, <2>14, <2>15, <3>1 DEF ReturningIsExact
    <3>4. UpsertKeepsKeys("delete", n)
      BY DEF UpsertKeepsKeys
    <3> QED BY <3>2, <3>3, <3>4 DEF Truth
  <2> QED BY <2>11, <2>15, <2>16 DEF Told
<1> QED
  BY <1>0, <1>1, NoSuchTableTold, WriteFailsTold, NothingToDoTold DEF sql__exec_delete

\* INSERT ... VALUES.
LEMMA InsertTold ==
    ASSUME Shape, NEW n \in Names, Numbered(tables[n]), NEW rs \in BoundedSeq(Tuples, 2), NEW malformed, Insert(n, rs, malformed)
    PROVE  Told("insert", n)
<1>1. PICK m \in 0 .. 2 : rs \in [1 .. m -> Tuples]
  BY DEF BoundedSeq, SeqOf
<1>2. rs \in Seq(Tuple)
  BY <1>1, SqlAssumption
<1>3. InsertRows("insert", n, rs, IF malformed THEN "silent" ELSE "ok", rs)
  BY DEF Insert
<1> QED
  BY <1>2, <1>3, TuplesValued, InsertRowsTold

\* Following the views from a name leads to a name.
LEMMA SourceNamed ==
    ASSUME Shape, NEW n \in Names
    PROVE  Source(n) \in Names
<1> DEFINE m == Len(views) + 1
<1>1. views \in Seq(View) /\ Unique(views) /\ m \in Nat /\ m = Len(views) + 1
  BY ShapeFacts
<1>2. \A x \in Names : Hop(x) \in Names
  BY <1>1, HopFacts DEF View
<1> HIDE DEF m
<1>3. PICK f : f = [d \in 0 .. m |-> IF d = 0 THEN n ELSE Hop(f[d - 1])] /\ Source(n) = f[m]
  BY <1>1, SourceUnfolds
<1> DEFINE G == {d \in 0 .. m : f[d] \in Names}
<1>4. 0 \in G
  BY <1>1, <1>3
<1>5. \A d \in 0 .. m - 1 : d \in G => d + 1 \in G
  BY <1>1, <1>2, <1>3
<1> HIDE DEF G
<1>6. m \in G
  BY <1>1, <1>4, <1>5, InductionUpTo
<1> QED
  BY <1>3, <1>6 DEF G

\* The rows before the first one that lacks a column.
LEMMA FullFacts ==
    ASSUME NEW rs, Len(rs) \in Nat
    PROVE  Max(FullRows(rs)) \in 0 .. Len(rs)
<1> DEFINE F == FullRows(rs)
           m == Len(rs)
           T == {m - i : i \in F}
<1>1. F \subseteq 0 .. m /\ 0 \in F
  BY DEF FullRows
<1> HIDE DEF F, m
<1>2. m \in Nat
  BY DEF m
<1>3. T \subseteq Nat /\ T # {}
  <2>1. \A i \in F : m - i \in Nat
    BY <1>1, <1>2
  <2>2. m - 0 \in T
    BY <1>1
  <2> QED BY <2>1, <2>2
<1>4. PICK x \in T : \A y \in T : x <= y
  <2> HIDE DEF T
  <2> QED BY <1>3, LeastElement
<1>5. PICK i \in F : x = m - i
  BY <1>4
<1>6. \A j \in F : i >= j
  <2> TAKE j \in F
  <2>1. m - i <= m - j
    BY <1>4, <1>5
  <2> QED BY <1>1, <1>2, <2>1
<1>7. Max(F) \in F
  BY <1>6 DEF Max
<1> QED
  BY <1>1, <1>7 DEF F, m

\* INSERT ... SELECT takes the rows of a relation.
LEMMA InsertSelectTold ==
    ASSUME Shape, \A m \in Names : Numbered(tables[m]), NEW n \in Names, NEW of \in Names, InsertSelect(n, of)
    PROVE  Told("insert", n)
<1>1. "insert" \in Writers /\ "insert" \in {"insert", "upsert"} /\ Numbered(tables[n])
  BY DEF Writers
<1>2. CASE Refuse("insert", n)
  BY <1>1, <1>2, RefuseTold
<1>3. CASE LET rs == sql__fetch_table_or_view(of)
               m == Max(FullRows(rs))
           IN  InsertRows("insert", n, SubSeq(rs, 1, m), IF m < Len(rs) THEN "counted" ELSE "ok", SubSeq(rs, 1, m))
  <2> DEFINE rs == sql__fetch_table_or_view(of)
             m == Max(FullRows(rs))
             p == SubSeq(rs, 1, m)
             e == IF m < Len(rs) THEN "counted" ELSE "ok"
  <2>1. rs \in Seq(Row)
    BY SourceNamed DEF sql__fetch_table_or_view, Rows, Numbered
  <2>2. InsertRows("insert", n, p, e, p)
    BY <1>3
  <2> HIDE DEF rs, e
  <2>3. m \in 0 .. Len(rs)
    BY <2>1, FullFacts
  <2>4. Valued(rs)
    BY <2>1, RowsValued
  <2> HIDE DEF m
  <2>5. p = SubSeq(rs, 1, m)
    OBVIOUS
  <2> HIDE DEF p
  <2>6. Valued(p)
    BY <2>3, <2>4, <2>5, ValuedPrefix
  <2> QED BY <1>1, <2>2, <2>6, InsertRowsTold
<1> QED
  BY <1>2, <1>3 DEF InsertSelect

\* Every statement that writes tells the truth, and leaves the ids of its table in order.
LEMMA WritesTold ==
    ASSUME Shape, \A m \in Names : Numbered(tables[m]), Writes
    PROVE  \E n \in Names : \E op \in Writers : Told(op, n) /\ WriteEffect(op, n)
<1>1. PICK n \in Names :
        \/ \E rs \in BoundedSeq(Tuples, 2) \ {<< >>}, b \in BOOLEAN : Insert(n, rs, b)
        \/ \E of \in Names : InsertSelect(n, of)
        \/ \E r \in Tuples, set \in Sets \cup {NoSet} : sql__exec_insert_on_conflict(n, r, set)
        \/ \E w \in Wheres, set \in Sets : sql__exec_update(n, w, set)
        \/ \E w \in Wheres : sql__exec_delete(n, w)
  BY DEF Writes
<1>2. Numbered(tables[n]) /\ {"insert", "upsert", "update", "delete"} \subseteq Writers
  BY DEF Writers
<1>3. Tuples \subseteq Tuple /\ Sets \subseteq [col : Cols, val : Vals]
  BY SqlAssumption
<1>4. CASE \E rs \in BoundedSeq(Tuples, 2) \ {<< >>}, b \in BOOLEAN : Insert(n, rs, b)
  BY <1>2, <1>4, InsertTold, InsertEffect
<1>5. CASE \E of \in Names : InsertSelect(n, of)
  BY <1>2, <1>5, InsertSelectTold, InsertSelectEffect
<1>6. CASE \E r \in Tuples, set \in Sets \cup {NoSet} : sql__exec_insert_on_conflict(n, r, set)
  BY <1>2, <1>3, <1>6, UpsertTold, UpsertEffect
<1>7. CASE \E w \in Wheres, set \in Sets : sql__exec_update(n, w, set)
  BY <1>2, <1>3, <1>7, UpdateTold, UpdateEffect
<1>8. CASE \E w \in Wheres : sql__exec_delete(n, w)
  BY <1>2, <1>8, DeleteTold, DeleteEffect
<1> QED
  BY <1>1, <1>4, <1>5, <1>6, <1>7, <1>8

-----------------------------------------------------------------------------
(* The rows of every table, of every save and of a recursion.              *)

KeptNumbered(q) == \A d \in DOMAIN q, n \in Names : n \in DOMAIN q[d].kept => Numbered(q[d].kept[n])
RowsInv ==
    /\ \A n \in Names : Numbered(tables[n])
    /\ Open => KeptNumbered(tx.saves)
    /\ run.op = "recursive" => run.acc \in Seq(Tuple) /\ run.edges \in [Vals -> Seq(Vals)]

\* One step of the recursion of Unseen.
Fresher(rs, prev, i) == IF rs[i] \in Range(prev) \cup Range(run.acc) THEN prev ELSE Append(prev, rs[i])
Freshening(rs, f, m) == f = [i \in 0 .. m |-> IF i = 0 THEN << >> ELSE Fresher(rs, f[i - 1], i)]

\* Unseen is the last value of its recursion.
LEMMA UnseenUnfolds ==
    ASSUME NEW rs, NEW n \in Nat, n = Len(rs)
    PROVE  \E f : Freshening(rs, f, n) /\ Unseen(rs) = f[n]
<1> DEFINE Is(f, m) == Freshening(rs, f, m)
           G == {m \in Nat : \E f : Is(f, m)}
<1>1. 0 \in G
  <2>1. Is([i \in 0 .. 0 |-> << >>], 0)
    BY DEF Freshening
  <2> QED BY <2>1
<1>2. ASSUME NEW m \in Nat, m \in G PROVE m + 1 \in G
  <2>1. PICK f : f = [i \in 0 .. m |-> IF i = 0 THEN << >> ELSE Fresher(rs, f[i - 1], i)]
    BY <1>2 DEF Freshening
  <2> DEFINE g == [i \in 0 .. m + 1 |-> IF i = m + 1 THEN Fresher(rs, f[m], i) ELSE f[i]]
  <2>2. \A i \in 0 .. m + 1 : g[i] = IF i = 0 THEN << >> ELSE Fresher(rs, g[i - 1], i)
    <3> TAKE i \in 0 .. m + 1
    <3>1. CASE i = m + 1
      <4>1. g[i] = Fresher(rs, f[m], i) /\ g[i - 1] = f[m] /\ i # 0
        BY <3>1
      <4> QED BY <4>1, <3>1
    <3>2. CASE i # m + 1
      BY <2>1, <3>2
    <3> QED BY <3>1, <3>2
  <2>3. Is(g, m + 1)
    BY <2>2, Zenon DEF Freshening
  <2> HIDE DEF g
  <2> QED BY <2>3
<1>3. n \in G
  <2> HIDE DEF G
  <2> QED BY <1>1, <1>2, InductionOnSet
<1>4. Is(CHOOSE f : Is(f, n), n)
  BY <1>3
<1>5. Unseen(rs) = (CHOOSE f : Is(f, n))[n]
  BY DEF Unseen, Freshening, Fresher
<1> QED
  BY <1>4, <1>5

\* sql__except_rows returns rows.
LEMMA UnseenTuples ==
    ASSUME NEW T, NEW rs \in Seq(T)
    PROVE  Unseen(rs) \in Seq(T)
<1>1. Len(rs) \in Nat /\ \A i \in 1 .. Len(rs) : rs[i] \in T
  OBVIOUS
<1>2. PICK f : Freshening(rs, f, Len(rs)) /\ Unseen(rs) = f[Len(rs)]
  BY <1>1, UnseenUnfolds
<1>3. f = [i \in 0 .. Len(rs) |-> IF i = 0 THEN << >> ELSE Fresher(rs, f[i - 1], i)]
  BY <1>2 DEF Freshening
<1> DEFINE G == {m \in Nat : f[m] \in Seq(T)}
<1>4. 0 \in G
  BY <1>1, <1>3
<1>5. ASSUME NEW m \in 0 .. Len(rs) - 1, m \in G PROVE m + 1 \in G
  <2>1. m + 1 \in 0 .. Len(rs) /\ m + 1 # 0 /\ (m + 1) - 1 = m /\ rs[m + 1] \in T /\ f[m] \in Seq(T)
    BY <1>1, <1>5
  <2>2. f[m + 1] = Fresher(rs, f[m], m + 1)
    BY <1>3, <2>1
  <2>3. f[m + 1] \in Seq(T)
    BY <2>1, <2>2 DEF Fresher
  <2> QED BY <2>1, <2>3
<1> HIDE DEF G
<1>6. Len(rs) \in G
  <2>1. \A m \in 0 .. Len(rs) - 1 : m \in G => m + 1 \in G
    BY <1>5
  <2> QED BY <1>1, <1>4, <2>1, InductionUpTo
<1> QED
  BY <1>2, <1>6 DEF G

\* Rows without their ids.
LEMMA ValuesTuples ==
    ASSUME NEW rs, rs \in Seq(Row)
    PROVE  Values(rs) \in Seq(Tuple) /\ Len(Values(rs)) = Len(rs)
<1>1. Len(rs) \in Nat /\ DOMAIN rs = 1 .. Len(rs) /\ \A i \in 1 .. Len(rs) : rs[i] \in Row
  OBVIOUS
<1>2. \A i \in 1 .. Len(rs) : [k |-> rs[i].k, v |-> rs[i].v] \in Tuple
  BY <1>1, RowFields DEF Tuple
<1>3. Values(rs) = [i \in 1 .. Len(rs) |-> [k |-> rs[i].k, v |-> rs[i].v]]
  BY <1>1 DEF Values
<1>4. Values(rs) \in [1 .. Len(rs) -> Tuple]
  BY <1>2, <1>3
<1> QED
  BY <1>1, <1>4

\* What one round of a recursion produces.
LEMMA ProducedTuples ==
    ASSUME run.edges \in [Vals -> Seq(Vals)], Rows(run.name) \in Seq(Row)
    PROVE  Produced \in Seq(Tuple) /\ NewRows \in Seq(Tuple)
<1> DEFINE rs == Rows(run.name)
           ss == [i \in DOMAIN rs |-> Leads(rs[i])]
<1>1. Len(rs) \in Nat /\ DOMAIN rs = 1 .. Len(rs) /\ \A i \in 1 .. Len(rs) : rs[i] \in Row
  OBVIOUS
<1>2. ASSUME NEW r \in Row PROVE Leads(r) \in Seq(Tuple)
  <2> DEFINE e == run.edges[r.k]
  <2>1. e \in Seq(Vals) /\ r.v \in Vals \cup {Missing}
    BY RowFields
  <2>2. Leads(r) = [i \in DOMAIN e |-> [k |-> e[i], v |-> r.v]]
    BY DEF Leads
  <2> HIDE DEF e
  <2>3. Len(e) \in Nat /\ DOMAIN e = 1 .. Len(e) /\ \A i \in 1 .. Len(e) : [k |-> e[i], v |-> r.v] \in Tuple
    BY <2>1 DEF Tuple
  <2>4. Leads(r) \in [1 .. Len(e) -> Tuple]
    BY <2>2, <2>3
  <2> QED BY <2>3, <2>4
<1>3. ss \in Seq(Seq(Tuple))
  <2> HIDE DEF rs
  <2>1. \A i \in 1 .. Len(rs) : Leads(rs[i]) \in Seq(Tuple)
    BY <1>1, <1>2
  <2>2. ss = [i \in 1 .. Len(rs) |-> Leads(rs[i])]
    BY <1>1
  <2>3. ss \in [1 .. Len(rs) -> Seq(Tuple)]
    BY <2>1, <2>2
  <2> QED BY <1>1, <2>3
<1>4. Produced = FlattenSeq(ss)
  BY DEF Produced
<1>5. Produced \in Seq(Tuple)
  <2> HIDE DEF ss
  <2> QED BY <1>3, <1>4, FlattenFacts
<1> QED
  BY <1>5, UnseenTuples DEF NewRows

\* A table written anew.
LEMMA PutNumbered ==
    ASSUME Shape, RowsInv, NEW n \in Names, NEW t, Numbered(t), Put(n, t)
    PROVE  \A m \in Names : Numbered(tables'[m])
<1>1. tables' = [tables EXCEPT ![n] = t]
  BY DEF Put
<1>2. tables'[n] = t /\ \A m \in Names : m # n => tables'[m] = tables[m]
  BY <1>1, PlacedFacts
<1> QED
  BY <1>2 DEF RowsInv

\* What a rollback brings back.
LEMMA RestoredNumbered ==
    ASSUME RowsInv, Open, NEW d \in DOMAIN tx.saves, tables' = Restored(tx.saves[d].kept)
    PROVE  \A m \in Names : Numbered(tables'[m])
<1> SUFFICES ASSUME NEW m \in Names PROVE Numbered(tables'[m])
  OBVIOUS
<1>1. tables'[m] = IF m \in DOMAIN tx.saves[d].kept THEN tx.saves[d].kept[m] ELSE tables[m]
  BY DEF Restored
<1> QED
  BY <1>1 DEF RowsInv, KeptNumbered

\* Rows put into a table that was not there, all of them or those before a failure.
LEMMA MadeNumbered ==
    ASSUME NEW rs, rs \in Seq(Tuple)
    PROVE  /\ Numbered(Added(NoTable, rs))
           /\ \A i \in 0 .. Len(rs) - 1 : \A t \in Partial(NoTable, SubSeq(rs, 1, i)) : Numbered(t)
<1>1. Valued(rs) /\ Numbered(NoTable) /\ Entry(NoTable)
  BY TuplesValued, FreshNumbered DEF Entry
<1>2. Numbered(Added(NoTable, rs))
  BY <1>1, AddedFacts
<1>3. ASSUME NEW i \in 0 .. Len(rs) - 1, NEW t \in Partial(NoTable, SubSeq(rs, 1, i)) PROVE Numbered(t)
  <2> DEFINE p == SubSeq(rs, 1, i)
  <2>1. i \in 0 .. Len(rs) /\ p = SubSeq(rs, 1, i) /\ t \in Partial(NoTable, p)
    OBVIOUS
  <2> HIDE DEF p
  <2>2. Valued(p)
    BY <1>1, <2>1, ValuedPrefix
  <2> QED BY <1>1, <2>1, <2>2, PartialFacts
<1> QED
  BY <1>2, <1>3

\* The statement under way, when it is a recursion.
LEMMA RecursionFacts ==
    ASSUME Shape, RunInv, RowsInv, run.op = "recursive"
    PROVE  /\ DOMAIN run = RecursiveFields /\ run.name \in Names
           /\ run.acc \in Seq(Tuple) /\ run.edges \in [Vals -> Seq(Vals)] /\ NewRows \in Seq(Tuple)
           /\ \A rs \in Seq(Tuple) : Numbered(Added(tables[run.name], rs))
<1>1. RecursiveInv
  BY DEF RunInv, Idle, WithInv
<1>2. Numbered(tables[run.name]) /\ Entry(tables[run.name]) /\ run.name \in Names
  BY <1>1, ShapeFacts DEF RowsInv, RecursiveInv
<1>3. Rows(run.name) \in Seq(Row)
  BY <1>2 DEF Rows, Numbered
<1>4. run.acc \in Seq(Tuple) /\ run.edges \in [Vals -> Seq(Vals)]
  BY DEF RowsInv
<1>5. NewRows \in Seq(Tuple)
  BY <1>3, <1>4, ProducedTuples
<1>6. \A rs \in Seq(Tuple) : Numbered(Added(tables[run.name], rs))
  BY <1>2, TuplesValued, AddedFacts
<1> QED
  BY <1>1, <1>2, <1>4, <1>5, <1>6 DEF RecursiveInv

\* The transaction's own statements.
LEMMA TransactionNumbered ==
    ASSUME Shape, RowsInv, Transaction
    PROVE  \A m \in Names : Numbered(tables'[m])
<1>0. tables' = tables => \A m \in Names : Numbered(tables'[m])
  BY DEF RowsInv
<1>1. \A op, n : Refuse(op, n) => tables' = tables
  BY DEF Refuse
<1>2. CASE sql__begin_tx \/ sql__exec_commit
  BY <1>0, <1>1, <1>2 DEF sql__begin_tx, sql__exec_commit
<1>3. CASE sql__exec_rollback
  <2>1. Open => Head(tx.saves) = tx.saves[1] /\ 1 \in DOMAIN tx.saves
    BY DEF Shape, Listed
  <2> QED BY <1>0, <1>1, <1>3, <2>1, RestoredNumbered DEF sql__exec_rollback
<1>4. ASSUME NEW s \in Savepoints, RollbackTo(s) PROVE \A m \in Names : Numbered(tables'[m])
  <2>1. ASSUME NEW d \in Depth(s), tables' = Restored(tx.saves[d].kept) PROVE \A m \in Names : Numbered(tables'[m])
    <3>1. d \in 2 .. Len(tx.saves)
      BY DEF Depth
    <3>2. Open
      BY <3>1 DEF Open, NoTx
    <3>3. d \in DOMAIN tx.saves
      BY <3>1, <3>2, ShapeFacts
    <3> QED BY <2>1, <3>2, <3>3, RestoredNumbered
  <2> QED BY <1>0, <1>1, <1>4, <2>1 DEF RollbackTo
<1>5. ASSUME NEW s \in Savepoints, sql__exec_savepoint(s) \/ sql__exec_release_savepoint(s)
      PROVE  \A m \in Names : Numbered(tables'[m])
  BY <1>0, <1>1, <1>5 DEF sql__exec_savepoint, sql__exec_release_savepoint
<1> QED
  BY <1>2, <1>3, <1>4, <1>5 DEF Transaction

\* CREATE and DROP.
LEMMA SchemasNumbered ==
    ASSUME Shape, RowsInv, Schemas
    PROVE  \A m \in Names : Numbered(tables'[m])
<1>0. tables' = tables => \A m \in Names : Numbered(tables'[m])
  BY DEF RowsInv
<1>1. \A op, n : Refuse(op, n) => tables' = tables
  BY DEF Refuse
<1>2. CASE SchemaInTx
  BY <1>0, <1>1, <1>2 DEF SchemaInTx
<1>3. ASSUME NEW n \in Names, sql__exec_create_table(n) \/ sql__exec_drop_table(n)
      PROVE  \A m \in Names : Numbered(tables'[m])
  BY <1>0, <1>1, <1>3, FreshNumbered, PutNumbered DEF sql__exec_create_table, sql__exec_drop_table
<1>4. ASSUME NEW n \in Names, sql__exec_drop_view(n) \/ \E of \in Names : sql__exec_create_view(n, of)
      PROVE  \A m \in Names : Numbered(tables'[m])
  BY <1>0, <1>1, <1>4 DEF sql__exec_drop_view, sql__exec_create_view
<1> QED
  BY <1>2, <1>3, <1>4 DEF Schemas

\* The base case of a recursion.
LEMMA BaseTuples ==
    ASSUME Shape, RowsInv, NEW base \in Names
    PROVE  Values(sql__fetch_table_or_view(base)) \in Seq(Tuple)
           /\ Len(Values(sql__fetch_table_or_view(base))) = Len(sql__fetch_table_or_view(base))
<1>1. sql__fetch_table_or_view(base) \in Seq(Row)
  BY SourceNamed DEF sql__fetch_table_or_view, Rows, RowsInv, Numbered
<1> QED
  BY <1>1, ValuesTuples

\* WITH writes nothing, WITH RECURSIVE the rows of its base case.
LEMMA WithsNumbered ==
    ASSUME Shape, RowsInv, Withs
    PROVE  \A m \in Names : Numbered(tables'[m])
<1>0. tables' = tables => \A m \in Names : Numbered(tables'[m])
  BY DEF RowsInv
<1>1. ASSUME NEW w \in CteLists, sql__exec_with_stmt(w[1], w[2]) PROVE tables' = tables
  BY <1>1 DEF sql__exec_with_stmt
<1>2. ASSUME NEW w \in Recursions, sql__exec_with_recursive_stmt(w.name, w.base, w.edges, w.all, w.flaw)
      PROVE  \A m \in Names : Numbered(tables'[m])
  <2> DEFINE rs == Values(sql__fetch_table_or_view(w.base))
  <2>1. w.name \in Names /\ rs \in Seq(Tuple) /\ Len(rs) = Len(sql__fetch_table_or_view(w.base))
    BY SqlAssumption, BaseTuples
  <2>2. \/ tables' = tables
        \/ Put(w.name, Added(NoTable, rs))
        \/ \E i \in 0 .. Len(rs) - 1 : \E t \in Partial(NoTable, SubSeq(rs, 1, i)) : Put(w.name, t)
    BY <1>2, <2>1 DEF sql__exec_with_recursive_stmt
  <2> HIDE DEF rs
  <2>3. Numbered(Added(NoTable, rs)) /\ \A i \in 0 .. Len(rs) - 1 : \A t \in Partial(NoTable, SubSeq(rs, 1, i)) : Numbered(t)
    BY <2>1, MadeNumbered
  <2> QED BY <1>0, <2>1, <2>2, <2>3, PutNumbered
<1> QED
  BY <1>0, <1>1, <1>2 DEF Withs

\* The steps of a WITH statement.
LEMMA StepNumbered ==
    ASSUME Shape, RunInv, RowsInv, Step
    PROVE  \A m \in Names : Numbered(tables'[m])
<1>0. tables' = tables => \A m \in Names : Numbered(tables'[m])
  BY DEF RowsInv
<1>1. CASE WithAdd \/ WithMain \/ WithDrop \/ WithReturn \/ RecDiverges \/ RecMain
  BY <1>0, <1>1 DEF WithAdd, WithMain, WithDrop, WithReturn, RecDiverges, RecMain
<1>2. ASSUME run.op = "recursive", NEW rs, rs \in Seq(Tuple),
             \/ Put(run.name, Added(NoTable, rs)) \/ Put(run.name, Added(tables[run.name], rs))
             \/ \E i \in 0 .. Len(rs) - 1 : \E t \in Partial(NoTable, SubSeq(rs, 1, i)) : Put(run.name, t)
      PROVE  \A m \in Names : Numbered(tables'[m])
  <2>1. run.name \in Names /\ Numbered(Added(tables[run.name], rs))
    BY <1>2, RecursionFacts
  <2>2. Numbered(Added(NoTable, rs)) /\ \A i \in 0 .. Len(rs) - 1 : \A t \in Partial(NoTable, SubSeq(rs, 1, i)) : Numbered(t)
    BY <1>2, MadeNumbered
  <2> QED BY <1>2, <2>1, <2>2, PutNumbered
<1>3. CASE RecRound
  <2>1. run.op = "recursive"
    BY <1>3 DEF RecRound
  <2>2. NewRows \in Seq(Tuple)
    BY <2>1, RecursionFacts
  <2>3. \/ tables' = tables
        \/ Put(run.name, Added(NoTable, NewRows)) \/ Put(run.name, Added(tables[run.name], NewRows))
        \/ \E i \in 0 .. Len(NewRows) - 1 : \E t \in Partial(NoTable, SubSeq(NewRows, 1, i)) : Put(run.name, t)
    BY <1>3 DEF RecRound
  <2> QED BY <1>0, <1>2, <2>1, <2>2, <2>3
<1>4. CASE RecFinal
  <2>1. run.op = "recursive"
    BY <1>4 DEF RecFinal
  <2>2. run.acc \in Seq(Tuple)
    BY <2>1, RecursionFacts
  <2>3. \/ Put(run.name, Added(NoTable, run.acc)) \/ Put(run.name, Added(tables[run.name], run.acc))
        \/ \E i \in 0 .. Len(run.acc) - 1 : \E t \in Partial(NoTable, SubSeq(run.acc, 1, i)) : Put(run.name, t)
    BY <1>4 DEF RecFinal
  <2> QED BY <1>2, <2>1, <2>2, <2>3
<1>5. CASE RecCleanup
  <2>1. run.op = "recursive" /\ (tables' = tables \/ Put(run.name, NoTable))
    BY <1>5 DEF RecCleanup
  <2>2. run.name \in Names
    BY <2>1, RecursionFacts
  <2> QED BY <1>0, <2>1, <2>2, FreshNumbered, PutNumbered
<1> QED
  BY <1>1, <1>3, <1>4, <1>5 DEF Step

\* Every step leaves the ids of every table in order.
LEMMA TablesNumbered ==
    ASSUME Shape, RunInv, RowsInv, Next
    PROVE  \A m \in Names : Numbered(tables'[m])
<1>0. tables' = tables => \A m \in Names : Numbered(tables'[m])
  BY DEF RowsInv
<1>1. CASE Writes
  <2>1. \A m \in Names : Numbered(tables[m])
    BY DEF RowsInv
  <2>2. PICK n \in Names : \E op \in Writers : Told(op, n) /\ WriteEffect(op, n)
    BY <1>1, <2>1, WritesTold
  <2>3. Numbered(tables'[n])
    BY <2>2 DEF Told
  <2>4. tables' = tables \/ \E t : tables' = [tables EXCEPT ![n] = t]
    BY <2>2 DEF WriteEffect, Stays, Wrote, Placed
  <2> QED BY <1>0, <2>1, <2>3, <2>4, PlacedFacts
<1>2. CASE Crash \/ StackOverflow
  <2>1. Restart
    BY <1>2 DEF Crash, StackOverflow
  <2>2. Open => Head(tx.saves) = tx.saves[1] /\ 1 \in DOMAIN tx.saves
    BY DEF Shape, Listed
  <2> QED BY <1>0, <2>1, <2>2, RestoredNumbered DEF Restart
<1>3. ASSUME NEW n \in Names, sql__exec_select_stmt(n) PROVE tables' = tables
  BY <1>3 DEF sql__exec_select_stmt, Refuse
<1> QED
  BY <1>0, <1>1, <1>2, <1>3, TransactionNumbered, SchemasNumbered, WithsNumbered, StepNumbered DEF Next

\* What the saves keep are tables of this or an earlier state.
LEMMA SavesNumbered ==
    ASSUME Shape, RowsInv, Effect, Open'
    PROVE  KeptNumbered(tx'.saves)
<1>0. UNCHANGED tx => KeptNumbered(tx'.saves)
  BY DEF RowsInv, Open
<1>1. ASSUME NEW n \in Names, NEW t, NEW b, Wrote(n, t, b) PROVE KeptNumbered(tx'.saves)
  <2>1. CASE ~Open
    BY <1>0, <1>1, <2>1 DEF Wrote
  <2>2. CASE Open
    <3> DEFINE q == tx.saves
               p == Touched(q, n)
    <3>1. tx'.saves = p
      BY <1>1, <2>2, ShapeFacts DEF Wrote, Touch, Touched
    <3>2. Listed(q) /\ KeptNumbered(q) /\ \A m \in Names : Numbered(tables[m])
      BY <2>2, ShapeFacts DEF RowsInv
    <3>3. p = Touched(q, n)
      OBVIOUS
    <3> HIDE DEF p, q
    <3>4. DOMAIN p = DOMAIN q /\ KeepsToo(p, q, n)
      BY <3>2, <3>3, TouchFacts
    <3>5. KeptNumbered(p)
      BY <3>2, <3>4 DEF KeptNumbered, KeepsToo
    <3> QED BY <3>1, <3>5
  <2> QED BY <2>1, <2>2
<1>2. CASE Begins
  <2> DEFINE q == <<[name |-> "tx", kept |-> << >>]>>
  <2>1. tx'.saves = q
    BY <1>2 DEF Begins
  <2>2. DOMAIN q = {1} /\ DOMAIN q[1].kept = {}
    OBVIOUS
  <2> HIDE DEF q
  <2> QED BY <2>1, <2>2 DEF KeptNumbered
<1>3. CASE Ends \/ RollsBack
  BY <1>3 DEF Ends, RollsBack, Open
<1>4. CASE Shortens
  <2>1. PICK q : /\ Listed(q) /\ Len(q) \in 1 .. Len(tx.saves)
                 /\ \A i \in 1 .. Len(q) : q[i] = tx.saves[i]
                 /\ tx' = [tx EXCEPT !.saves = q]
    BY <1>4 DEF Shortens
  <2>2. Open /\ KeptNumbered(tx.saves) /\ DOMAIN tx.saves = 1 .. Len(tx.saves) /\ Len(tx.saves) \in Nat
    BY <1>4, ShapeFacts DEF Shortens, RowsInv
  <2>3. tx'.saves = q /\ DOMAIN q = 1 .. Len(q) /\ Len(q) \in Nat
    BY <2>1, <2>2, ShapeFacts DEF Listed
  <2>4. \A i \in DOMAIN q : i \in DOMAIN tx.saves /\ q[i] = tx.saves[i]
    BY <2>1, <2>2, <2>3
  <2> QED BY <2>2, <2>3, <2>4 DEF KeptNumbered
<1>5. ASSUME Open, NEW p, Listed(p), \A i \in DOMAIN p : i \in DOMAIN tx.saves /\ p[i] = tx.saves[i],
             NEW s, NEW q, q = Append(p, [name |-> s, kept |-> << >>]), tx'.saves = q
      PROVE  KeptNumbered(tx'.saves)
  <2> DEFINE e == [name |-> s, kept |-> << >>]
  <2>1. DOMAIN e.kept = {}
    OBVIOUS
  <2>2. q = Append(p, e)
    BY <1>5
  <2> HIDE DEF e
  <2>3. /\ DOMAIN q = 1 .. Len(p) + 1 /\ DOMAIN p = 1 .. Len(p) /\ Len(p) \in Nat
        /\ (\A i \in DOMAIN p : q[i] = p[i]) /\ q[Len(p) + 1] = e
    BY <1>5, <2>2, AppendFacts
  <2>4. KeptNumbered(tx.saves)
    BY <1>5 DEF RowsInv
  <2>5. ASSUME NEW d \in DOMAIN q, NEW m \in Names, m \in DOMAIN q[d].kept PROVE Numbered(q[d].kept[m])
    <3>1. d \in DOMAIN p
      BY <2>1, <2>3, <2>5
    <3>2. q[d] = tx.saves[d] /\ d \in DOMAIN tx.saves
      BY <1>5, <2>3, <3>1
    <3> QED BY <2>4, <2>5, <3>2 DEF KeptNumbered
  <2>6. KeptNumbered(q)
    BY <2>5 DEF KeptNumbered
  <2> QED BY <1>5, <2>6
<1>6. CASE Saves
  <2>1. PICK s : tx' = [tx EXCEPT !.saves = Append(@, [name |-> s, kept |-> << >>])]
    BY <1>6 DEF Saves
  <2>2. Open /\ Listed(tx.saves) /\ tx'.saves = Append(tx.saves, [name |-> s, kept |-> << >>])
    BY <1>6, <2>1, ShapeFacts DEF Saves
  <2> QED BY <1>5, <2>2
<1>7. ASSUME NEW d \in 2 .. Len(tx.saves), RollsBackTo(d) PROVE KeptNumbered(tx'.saves)
  <2> DEFINE p == SubSeq(tx.saves, 1, d - 1)
  <2>1. Open
    BY <1>7 DEF RollsBackTo
  <2>2. PICK s : tx' = [tx EXCEPT !.failed = FALSE, !.saves = Append(p, [name |-> s, kept |-> << >>])]
    BY <1>7 DEF RollsBackTo
  <2>3. Listed(tx.saves) /\ Len(tx.saves) \in Nat /\ DOMAIN tx.saves = 1 .. Len(tx.saves) /\ d - 1 \in 0 .. Len(tx.saves)
    BY <2>1, ShapeFacts
  <2>4. p = SubSeq(tx.saves, 1, d - 1)
    OBVIOUS
  <2>5. tx'.saves = Append(p, [name |-> s, kept |-> << >>])
    BY <2>2, ShapeFacts
  <2> HIDE DEF p
  <2>6. Listed(p) /\ DOMAIN p = 1 .. d - 1 /\ \A i \in 1 .. d - 1 : p[i] = tx.saves[i]
    <3> DEFINE e == d - 1
               q == tx.saves
    <3>1. Listed(q) /\ e \in 0 .. Len(q) /\ p = SubSeq(q, 1, e)
      BY <2>3, <2>4
    <3> HIDE DEF e, q
    <3>2. Listed(p) /\ DOMAIN p = 1 .. e /\ \A i \in 1 .. e : p[i] = q[i]
      BY <3>1, PrefixFacts
    <3> QED BY <3>2 DEF e, q
  <2>7. \A i \in DOMAIN p : i \in DOMAIN tx.saves /\ p[i] = tx.saves[i]
    BY <2>3, <2>6
  <2> QED BY <1>5, <2>1, <2>5, <2>6, <2>7
<1> QED
  BY <1>0, <1>1, <1>2, <1>3, <1>4, <1>6, <1>7 DEF Effect, Stays, PutFree, Registers, Unregisters

\* A recursion keeps rows and the values each value leads to.
LEMMA RecursionTyped ==
    ASSUME Shape, RunInv, RowsInv, Next, run'.op = "recursive"
    PROVE  run'.acc \in Seq(Tuple) /\ run'.edges \in [Vals -> Seq(Vals)]
<1>0. run' # Idle
  BY DEF Idle
<1>1. CASE Withs
  <2>1. \A w \in CteLists : ~sql__exec_with_stmt(w[1], w[2])
    BY DEF sql__exec_with_stmt
  <2>2. PICK w \in Recursions : sql__exec_with_recursive_stmt(w.name, w.base, w.edges, w.all, w.flaw)
    BY <1>1, <2>1 DEF Withs
  <2> DEFINE rs == Values(sql__fetch_table_or_view(w.base))
  <2>3. run' = [op |-> "recursive", name |-> w.name, edges |-> w.edges, all |-> w.all, flaw |-> w.flaw,
                base |-> rs, acc |-> rs,
                stage |-> "round", round |-> 0, created |-> TRUE, st |-> "failed", rows |-> None,
                before |-> Before, clean |-> TRUE]
    BY <1>0, <2>2 DEF sql__exec_with_recursive_stmt, Fail
  <2>4. w.edges \in [Vals -> Seq(Vals)] /\ rs \in Seq(Tuple)
    BY SqlAssumption, BaseTuples
  <2> HIDE DEF rs
  <2> QED BY <2>3, <2>4
<1>2. CASE Step
  <2>1. run.op = "with" => run'.op = "with" \/ run' = Idle
    <3> SUFFICES ASSUME run.op = "with" PROVE run'.op = "with" \/ run' = Idle
      OBVIOUS
    <3>1. DOMAIN run = WithFields
      BY DEF RunInv, Idle, WithInv, RecursiveInv
    <3> QED BY <1>2, <3>1 DEF WithFields, Step, WithAdd, WithMain, WithDrop, WithReturn, Continue,
               RecRound, RecDiverges, RecFinal, RecMain, RecCleanup
  <2>2. run.op = "with" \/ run.op = "recursive"
    BY <1>2 DEF Step, WithAdd, WithMain, WithDrop, WithReturn, RecRound, RecDiverges, RecFinal, RecMain, RecCleanup
  <2>3. run.op = "recursive"
    BY <1>0, <2>1, <2>2
  <2>4. /\ DOMAIN run = RecursiveFields
        /\ run.acc \in Seq(Tuple) /\ run.edges \in [Vals -> Seq(Vals)] /\ NewRows \in Seq(Tuple)
    BY <2>3, RecursionFacts
  <2>5. run.acc \o NewRows \in Seq(Tuple)
    BY <2>4
  <2>6. run'.edges = run.edges /\ run'.acc \in {run.acc, run.acc \o NewRows}
    <3>1. CASE RecRound
      BY <2>4, <3>1 DEF RecursiveFields, RecRound, Continue
    <3>2. CASE RecDiverges \/ RecMain
      BY <2>4, <3>2 DEF RecursiveFields, RecDiverges, RecMain, Continue
    <3>3. CASE RecFinal
      BY <2>4, <3>3 DEF RecursiveFields, RecFinal, Continue
    <3> QED BY <1>0, <1>2, <2>3, <3>1, <3>2, <3>3 DEF Step, WithAdd, WithMain, WithDrop, WithReturn, RecCleanup
  <2> QED BY <2>4, <2>5, <2>6
<1> QED
  BY <1>0, <1>1, <1>2, IdleOrUnderWay

\* The rows a connection finds are in order.
LEMMA RowsInit == Init => RowsInv
<1> SUFFICES ASSUME Init PROVE RowsInv
  OBVIOUS
<1>1. \A n \in Names : Numbered(tables[n])
  BY SqlAssumption DEF Init
<1>2. ~Open /\ run.op # "recursive"
  BY DEF Init, Open, Idle
<1> QED
  BY <1>1, <1>2 DEF RowsInv

\* Every step keeps the rows of tables, saves and recursions in order.
LEMMA RowsKept == Inv /\ RowsInv /\ [Next]_vars => RowsInv'
<1>1. ASSUME Inv, RowsInv, Next PROVE RowsInv'
  <2>1. Effect
    BY <1>1, NextEffect DEF Inv
  <2>2. \A n \in Names : Numbered(tables'[n])
    BY <1>1, TablesNumbered DEF Inv
  <2>3. Open' => KeptNumbered(tx'.saves)
    BY <1>1, <2>1, SavesNumbered DEF Inv
  <2>4. run'.op = "recursive" => run'.acc \in Seq(Tuple) /\ run'.edges \in [Vals -> Seq(Vals)]
    BY <1>1, RecursionTyped DEF Inv
  <2> QED BY <2>2, <2>3, <2>4 DEF RowsInv, KeptNumbered
<1>2. ASSUME RowsInv, UNCHANGED vars PROVE RowsInv'
  BY <1>2 DEF RowsInv, KeptNumbered, Open, vars
<1> QED
  BY <1>1, <1>2

\* The statements that reply as INSERT, UPDATE and DELETE do are those.
LEMMA OnlyWrites ==
    ASSUME Inv, Next, run' = Idle, reply'.op \in Writers
    PROVE  Writes
<1>0. reply'.op \notin {"begin", "commit", "rollback", "rollback_to", "savepoint", "release", "create", "alter", "drop",
                        "view", "drop_view", "with", "recursive", "select", "crash"}
  BY DEF Writers
<1>1. ASSUME NEW op, NEW n, NEW a, NEW r, NEW args, op \notin Writers,
             Refuse(op, n) \/ Exec(op, n, a, r, args) \/ Fail(op, n, a, args)
      PROVE  FALSE
  BY <1>1, ReplyOp DEF Refuse, Exec, Fail
<1>2. /\ "begin" \notin Writers /\ "commit" \notin Writers /\ "rollback" \notin Writers
      /\ "rollback_to" \notin Writers /\ "savepoint" \notin Writers /\ "release" \notin Writers
      /\ "create" \notin Writers /\ "alter" \notin Writers /\ "drop" \notin Writers /\ "view" \notin Writers
      /\ "drop_view" \notin Writers /\ "recursive" \notin Writers /\ "select" \notin Writers
  BY DEF Writers
<1>3. ~Transaction
  <2>1. ~sql__begin_tx /\ ~sql__exec_commit /\ ~sql__exec_rollback
    BY <1>1, <1>2 DEF sql__begin_tx, sql__exec_commit, sql__exec_rollback
  <2>2. \A s \in Savepoints : ~RollbackTo(s) /\ ~sql__exec_savepoint(s) /\ ~sql__exec_release_savepoint(s)
    BY <1>1, <1>2 DEF RollbackTo, sql__exec_savepoint, sql__exec_release_savepoint
  <2> QED BY <2>1, <2>2 DEF Transaction
<1>4. ~Schemas
  <2>1. ~SchemaInTx
    BY <1>1, <1>2 DEF SchemaInTx
  <2>2. \A n \in Names : ~sql__exec_create_table(n) /\ ~sql__exec_drop_table(n) /\ ~sql__exec_drop_view(n)
    BY <1>1, <1>2 DEF sql__exec_create_table, sql__exec_drop_table, sql__exec_drop_view
  <2>3. \A n, of \in Names : ~sql__exec_create_view(n, of)
    BY <1>1, <1>2 DEF sql__exec_create_view
  <2> QED BY <2>1, <2>2, <2>3 DEF Schemas
<1>5. ~Withs
  <2>1. \A w \in CteLists : ~sql__exec_with_stmt(w[1], w[2])
    BY DEF sql__exec_with_stmt, Idle
  <2>2. \A w \in Recursions : ~sql__exec_with_recursive_stmt(w.name, w.base, w.edges, w.all, w.flaw)
    BY <1>1, <1>2 DEF sql__exec_with_recursive_stmt, Idle
  <2> QED BY <2>1, <2>2 DEF Withs
<1>6. ~Step
  <2>1. ~WithReturn /\ ~RecCleanup
    BY <1>0, ReplyOp DEF WithReturn, RecCleanup
  <2> QED BY <2>1, StillUnderWay DEF Step, Inv
<1>7. ~Crash /\ ~StackOverflow
  BY <1>0, ReplyOp DEF Crash, StackOverflow, Restart
<1>8. \A n \in Names : ~sql__exec_select_stmt(n)
  BY <1>1, <1>2 DEF sql__exec_select_stmt
<1> QED
  BY <1>3, <1>4, <1>5, <1>6, <1>7, <1>8 DEF Next

\* What a writing statement tells its caller is true (sql__exec_insert,
\* sql__exec_insert_on_conflict, sql__exec_update, sql__exec_delete): affected_out and the
\* rows of RETURNING are those of what it did to the table, whatever failed on the way.
THEOREM RepliesExact == Spec => RepliesAreExact
<1>1. ASSUME Inv, RowsInv, Next, NEW op \in Writers, reply'.op = op PROVE Truth(op, reply'.name)
  <2>1. CASE run' = Idle
    <3>1. Writes
      BY <1>1, <2>1, OnlyWrites
    <3>2. PICK n \in Names : \E o \in Writers : Told(o, n)
      BY <1>1, <3>1, WritesTold DEF Inv, RowsInv
    <3> QED BY <1>1, <3>2 DEF Told
  <2>2. CASE run' # Idle
    BY <2>2 DEF Truth, AffectedIsTrue, ReturningIsExact, UpsertKeepsKeys, Did, Ended
  <2> QED BY <2>1, <2>2
<1>2. Spec => []RowsInv
  BY RowsInit, RowsKept, Invariance, PTL DEF Spec
<1>3. Inv /\ RowsInv /\ [Next]_vars =>
        [\A op \in {"insert", "upsert", "update", "delete"} : reply'.op = op =>
            LET n == reply'.name
            IN  AffectedIsTrue(op, n) /\ ReturningIsExact(op, n) /\ UpsertKeepsKeys(op, n)]_vars
  BY <1>1 DEF Truth, Writers
<1> QED
  BY <1>2, <1>3, Invariance, PTL DEF Spec, RepliesAreExact
=============================================================================
