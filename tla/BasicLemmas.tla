---------------------------- MODULE BasicLemmas ----------------------------
(***************************************************************************)
(* Induction over the natural numbers, and by it what the proofs need to   *)
(* know of the greatest element of a set, of the elements of a set in      *)
(* their order, of sequences of sequences put together, and of numbers in  *)
(* groups of seven bits.                                                   *)
(***************************************************************************)
EXTENDS SequencesExt, FiniteSetTheorems, WellFoundedInduction, TLAPS

\* A set of numbers with zero and every successor holds all numbers.
LEMMA SetInduction ==
    ASSUME NEW S, 0 \in S, \A n \in Nat : n \in S => n + 1 \in S
    PROVE  Nat \subseteq S
<1> DEFINE R == OpToRel(<, Nat)
<1>1. SUFFICES ASSUME Nat \ S # {} PROVE FALSE
  OBVIOUS
<1>2. IsWellFoundedOn(R, Nat)
  BY NatLessThanWellFounded
<1>3. R = {ss \in Nat \X Nat : ss[1] < ss[2]}
  BY DEF OpToRel
<1> HIDE DEF R
<1>4. PICK n \in Nat \ S : \A m \in Nat \ S : <<m, n>> \notin R
  BY <1>1, <1>2, WFMin
<1>5. n # 0 /\ n - 1 \in Nat /\ n = (n - 1) + 1
  OBVIOUS
<1>6. n - 1 \notin S
  BY <1>5
<1>7. <<n - 1, n>> \in R
  BY <1>3, <1>5
<1> QED BY <1>4, <1>5, <1>6, <1>7

\* Two sequences that begin alike and go on alike end alike.
LEMMA Agree ==
    ASSUME NEW N \in Nat, NEW f, NEW g, f[0] = g[0],
           \A n \in 1..N : f[n - 1] = g[n - 1] => f[n] = g[n]
    PROVE  f[N] = g[N]
<1> DEFINE B == {n \in Nat : n <= N => f[n] = g[n]}
<1>1. 0 \in B
  OBVIOUS
<1>2. ASSUME NEW n \in Nat, n \in B PROVE n + 1 \in B
  <2>1. CASE n + 1 <= N
    <3>1. n <= N /\ n + 1 \in 1..N /\ (n + 1) - 1 = n
      BY <2>1
    <3> QED BY <1>2, <3>1
  <2>2. CASE ~(n + 1 <= N)
    BY <2>2
  <2> QED BY <2>1, <2>2
<1> HIDE DEF B
<1>3. Nat \subseteq B
  BY <1>1, <1>2, SetInduction
<1> QED BY <1>3 DEF B

-----------------------------------------------------------------------------
(* The least and the greatest element *)

LEMMA MinIs ==
    ASSUME NEW S \in SUBSET Nat, S # {}
    PROVE  Min(S) \in S /\ \A x \in S : Min(S) <= x
<1> DEFINE R == OpToRel(<, Nat)
<1>1. IsWellFoundedOn(R, Nat)
  BY NatLessThanWellFounded
<1>2. R = {ss \in Nat \X Nat : ss[1] < ss[2]}
  BY DEF OpToRel
<1> HIDE DEF R
<1>3. PICK n \in S : \A m \in S : <<m, n>> \notin R
  BY <1>1, WFMin
<1>4. ASSUME NEW m \in S PROVE n <= m
  <2>1. m < n => <<m, n>> \in R
    BY <1>2
  <2> QED BY <1>3, <2>1
<1> QED BY <1>4 DEF Min

LEMMA MaxIs ==
    ASSUME NEW S \in SUBSET Nat, S # {}, NEW n \in Nat, \A x \in S : x <= n
    PROVE  Max(S) \in S /\ \A x \in S : x <= Max(S)
<1> DEFINE B == {k \in Nat : \A T \in SUBSET Nat : T # {} /\ (\A x \in T : x <= k) =>
                                \E m \in T : \A x \in T : x <= m}
<1>1. 0 \in B
  <2> SUFFICES ASSUME NEW T \in SUBSET Nat, T # {}, \A x \in T : x <= 0
               PROVE  \E m \in T : \A x \in T : x <= m
    OBVIOUS
  <2>1. PICK m \in T : TRUE
    OBVIOUS
  <2>2. \A x \in T : x = 0
    OBVIOUS
  <2> QED BY <2>1, <2>2
<1>2. ASSUME NEW k \in Nat, k \in B PROVE k + 1 \in B
  <2> SUFFICES ASSUME NEW T \in SUBSET Nat, T # {}, \A x \in T : x <= k + 1
               PROVE  \E m \in T : \A x \in T : x <= m
    OBVIOUS
  <2>1. CASE k + 1 \in T
    BY <2>1
  <2>2. CASE k + 1 \notin T
    <3>1. \A x \in T : x <= k
      BY <2>2
    <3> QED BY <3>1, <1>2
  <2> QED BY <2>1, <2>2
<1>3. Nat \subseteq B
  <2> HIDE DEF B
  <2> QED BY <1>1, <1>2, SetInduction
<1>4. \E m \in S : \A x \in S : x <= m
  BY <1>3
<1>5. \E m \in S : \A x \in S : m >= x
  BY <1>4
<1> QED BY <1>5 DEF Max

-----------------------------------------------------------------------------
(* The elements in their order *)

\* How many elements of S there are up to n.
Rank(S, n) == Cardinality({m \in S : m <= n})

LEMMA FiniteParts ==
    ASSUME NEW S, IsFiniteSet(S), NEW n
    PROVE  /\ IsFiniteSet({m \in S : m <= n}) /\ Rank(S, n) \in Nat
           /\ Rank(S, n) <= Cardinality(S)
<1>1. {m \in S : m <= n} \subseteq S
  OBVIOUS
<1> QED BY <1>1, FS_Subset, FS_CardinalityType DEF Rank

LEMMA RankGrows ==
    ASSUME NEW S \in SUBSET Nat, IsFiniteSet(S), NEW x \in S, NEW y \in S, x < y
    PROVE  Rank(S, x) < Rank(S, y)
<1> DEFINE X == {m \in S : m <= x}
           Y == {m \in S : m <= y}
<1>1. X \subseteq Y /\ y \in Y /\ y \notin X
  <2>1. x \in Nat /\ y \in Nat /\ \A m \in S : m \in Nat /\ (m <= x => m <= y)
    OBVIOUS
  <2>2. y <= y /\ ~(y <= x)
    BY <2>1
  <2> QED BY <2>1, <2>2, Zenon
<1>2. IsFiniteSet(Y) /\ IsFiniteSet(X)
  BY FiniteParts
<1>3. Cardinality(X) <= Cardinality(Y) /\ (Cardinality(X) = Cardinality(Y) => X = Y)
  BY <1>1, <1>2, FS_Subset
<1>4. Cardinality(X) \in Nat /\ Cardinality(Y) \in Nat
  BY <1>2, FS_CardinalityType
<1>5. Cardinality(X) < Cardinality(Y)
  BY <1>1, <1>3, <1>4
<1> QED BY <1>5 DEF Rank

\* Every rank is that of one element.
LEMMA RankIsBijective ==
    ASSUME NEW S \in SUBSET Nat, IsFiniteSet(S)
    PROVE  /\ \A n \in S : Rank(S, n) \in 1..Cardinality(S)
           /\ \A m, n \in S : Rank(S, m) = Rank(S, n) => m = n
           /\ \A k \in 1..Cardinality(S) : \E n \in S : Rank(S, n) = k
<1> DEFINE N == Cardinality(S)
           f == [n \in S |-> Rank(S, n)]
<1>0. N \in Nat
  BY FS_CardinalityType
<1>1. ASSUME NEW n \in S PROVE Rank(S, n) \in 1..N
  <2>1. Rank(S, n) \in Nat /\ Rank(S, n) <= N
    BY FiniteParts
  <2>2. n \in {m \in S : m <= n}
    OBVIOUS
  <2>3. Rank(S, n) # 0
    BY <2>2, FiniteParts, FS_EmptySet DEF Rank
  <2> QED BY <1>0, <2>1, <2>3
<1>2. ASSUME NEW m \in S, NEW n \in S, Rank(S, m) = Rank(S, n) PROVE m = n
  <2>1. Rank(S, m) \in Nat /\ Rank(S, n) \in Nat
    BY FiniteParts
  <2>2. ~(m < n) /\ ~(n < m)
    BY <1>2, <2>1, RankGrows
  <2> QED BY <2>2
<1>3. ASSUME NEW k \in 1..N PROVE \E n \in S : Rank(S, n) = k
  <2>1. IsFiniteSet(1..N) /\ Cardinality(1..N) = N
    BY <1>0, FS_Interval
  <2>2. f \in Injection(S, 1..N)
    BY <1>1, <1>2 DEF Injection, IsInjective
  <2>3. f \in Surjection(S, 1..N)
    BY <2>1, <2>2, FS_Injection
  <2> QED BY <2>3 DEF Surjection
<1> QED BY <1>1, <1>2, <1>3

\* The one of the highest rank is the greatest.
LEMMA FiniteMax ==
    ASSUME NEW S \in SUBSET Nat, IsFiniteSet(S), S # {}
    PROVE  Max(S) \in S /\ \A x \in S : x <= Max(S)
<1> DEFINE N == Cardinality(S)
<1>1. N \in Nat /\ N # 0
  BY FS_CardinalityType, FS_EmptySet
<1>2. N \in 1..N
  BY <1>1
<1>3. PICK m \in S : Rank(S, m) = N
  BY <1>2, RankIsBijective
<1>4. ASSUME NEW x \in S PROVE x <= m
  <2> SUFFICES ASSUME m < x PROVE FALSE
    OBVIOUS
  <2>1. Rank(S, m) < Rank(S, x)
    BY RankGrows
  <2>2. Rank(S, x) \in Nat /\ Rank(S, x) <= N
    BY FiniteParts
  <2> QED BY <1>1, <1>3, <2>1, <2>2
<1> QED BY <1>4, MaxIs

\* The numbers that are met in a sequence are finitely many.
LEMMA FiniteRange ==
    ASSUME NEW n \in Nat, NEW f, DOMAIN f = 1..n
    PROVE  IsFiniteSet({f[k] : k \in DOMAIN f})
<1>1. IsFiniteSet(1..n)
  BY FS_Interval
<1> DEFINE T == {f[k] : k \in 1..n}
           g == [k \in 1..n |-> f[k]]
<1>2. g \in Surjection(1..n, T)
  BY DEF Surjection
<1> HIDE DEF g, T
<1>3. IsFiniteSet(T)
  BY <1>1, <1>2, FS_Surjection
<1> QED BY <1>3 DEF T

-----------------------------------------------------------------------------
(* The elements of a sequence *)

\* x is an element of the sequence.
Has(s, x) == \E k \in DOMAIN s : s[k] = x

LEMMA ConcatHas ==
    ASSUME NEW S, NEW a \in Seq(S), NEW b \in Seq(S)
    PROVE  a \o b \in Seq(S) /\ \A x : Has(a \o b, x) <=> Has(a, x) \/ Has(b, x)
<1>1. /\ Len(a) \in Nat /\ Len(b) \in Nat /\ DOMAIN a = 1..Len(a) /\ DOMAIN b = 1..Len(b)
      /\ a \o b \in Seq(S) /\ Len(a \o b) = Len(a) + Len(b)
      /\ DOMAIN (a \o b) = 1..(Len(a) + Len(b))
  OBVIOUS
<1>2. \A k \in 1..Len(a) : k \in DOMAIN (a \o b) /\ (a \o b)[k] = a[k]
  BY <1>1
<1>3. \A k \in 1..Len(b) : Len(a) + k \in DOMAIN (a \o b) /\ (a \o b)[Len(a) + k] = b[k]
  BY <1>1
<1>4. \A k \in DOMAIN (a \o b) : k \notin 1..Len(a) =>
         k - Len(a) \in 1..Len(b) /\ (a \o b)[k] = b[k - Len(a)]
  BY <1>1
<1> QED BY <1>1, <1>2, <1>3, <1>4 DEF Has

LEMMA TailHas ==
    ASSUME NEW S, NEW s \in Seq(S), s # <<>>
    PROVE  /\ Head(s) \in S /\ Tail(s) \in Seq(S)
           /\ \A x : Has(s, x) <=> x = Head(s) \/ Has(Tail(s), x)
<1>1. /\ Len(s) \in Nat /\ Len(s) >= 1 /\ DOMAIN s = 1..Len(s)
      /\ Head(s) = s[1] /\ Head(s) \in S /\ Tail(s) \in Seq(S)
      /\ DOMAIN Tail(s) = 1..(Len(s) - 1)
      /\ \A k \in 1..(Len(s) - 1) : Tail(s)[k] = s[k + 1]
  OBVIOUS
<1>2. \A k \in 1..(Len(s) - 1) : k + 1 \in 1..Len(s)
  BY <1>1
<1>3. \A k \in 1..Len(s) : k = 1 \/ (k - 1 \in 1..(Len(s) - 1) /\ (k - 1) + 1 = k)
  BY <1>1
<1>4. 1 \in 1..Len(s)
  BY <1>1
<1>5. ASSUME NEW x, Has(s, x) PROVE x = Head(s) \/ Has(Tail(s), x)
  <2>1. PICK k \in 1..Len(s) : s[k] = x
    BY <1>1, <1>5 DEF Has
  <2>2. CASE k = 1
    BY <1>1, <2>1, <2>2
  <2>3. CASE k # 1
    <3>1. k - 1 \in DOMAIN Tail(s) /\ Tail(s)[k - 1] = x
      BY <1>1, <1>3, <2>1, <2>3
    <3> QED BY <3>1 DEF Has
  <2> QED BY <2>2, <2>3
<1> QED BY <1>1, <1>2, <1>4, <1>5 DEF Has

LEMMA AppendHas ==
    ASSUME NEW S, NEW s \in Seq(S), NEW e \in S
    PROVE  /\ Append(s, e) \in Seq(S) /\ DOMAIN s = 1..Len(s) /\ Len(s) \in Nat
           /\ Len(Append(s, e)) = Len(s) + 1
           /\ DOMAIN Append(s, e) = DOMAIN s \cup {Len(s) + 1} /\ Len(s) + 1 \notin DOMAIN s
           /\ Append(s, e)[Len(s) + 1] = e
           /\ \A k \in DOMAIN s : Append(s, e)[k] = s[k]
<1>1. /\ DOMAIN s = 1..Len(s) /\ Len(s) \in Nat /\ Append(s, e) \in Seq(S)
      /\ Len(Append(s, e)) = Len(s) + 1 /\ DOMAIN Append(s, e) = 1..(Len(s) + 1)
      /\ Append(s, e)[Len(s) + 1] = e /\ \A k \in DOMAIN s : Append(s, e)[k] = s[k]
  OBVIOUS
<1>2. 1..(Len(s) + 1) = 1..Len(s) \cup {Len(s) + 1} /\ Len(s) + 1 \notin 1..Len(s)
  BY <1>1
<1> QED BY <1>1, <1>2

-----------------------------------------------------------------------------
(* Sequences of sequences *)

\* What FlattenSeq puts together: the first n of them.
IsFlat(g, seqs, n) ==
    g = [i \in 1..n |-> IF i = 1 THEN seqs[i] ELSE g[i - 1] \o seqs[i]]

LEMMA FlatExists ==
    ASSUME NEW seqs
    PROVE  \A n \in Nat : \E g : IsFlat(g, seqs, n)
<1> DEFINE B == {n \in Nat : \E g : IsFlat(g, seqs, n)}
<1>1. 0 \in B
  <2>1. IsFlat([i \in 1..0 |-> 0], seqs, 0)
    BY DEF IsFlat
  <2> QED BY <2>1
<1>2. ASSUME NEW n \in Nat, n \in B PROVE n + 1 \in B
  <2>1. PICK g : IsFlat(g, seqs, n)
    BY <1>2
  <2> DEFINE h == [i \in 1..(n + 1) |->
                     IF i = n + 1 THEN (IF i = 1 THEN seqs[i] ELSE g[n] \o seqs[i]) ELSE g[i]]
  <2>2. ASSUME NEW i \in 1..(n + 1)
        PROVE  h[i] = IF i = 1 THEN seqs[i] ELSE h[i - 1] \o seqs[i]
    <3>1. CASE i = n + 1
      BY <3>1
    <3>2. CASE i # n + 1
      <4>1. i \in 1..n /\ (i # 1 => i - 1 \in 1..n /\ i - 1 # n + 1)
        BY <3>2
      <4>2. g[i] = IF i = 1 THEN seqs[i] ELSE g[i - 1] \o seqs[i]
        BY <2>1, <4>1 DEF IsFlat
      <4>3. h[i] = g[i] /\ (i # 1 => h[i - 1] = g[i - 1])
        BY <3>2, <4>1
      <4> QED BY <4>2, <4>3
    <3> QED BY <3>1, <3>2
  <2>3. IsFlat(h, seqs, n + 1)
    <3> HIDE DEF h
    <3>1. h = [i \in 1..(n + 1) |-> h[i]]
      BY DEF h
    <3> QED BY <2>2, <3>1 DEF IsFlat
  <2> QED BY <2>3
<1> HIDE DEF B
<1>3. Nat \subseteq B
  BY <1>1, <1>2, SetInduction
<1> QED BY <1>3 DEF B


LEMMA FlatContents ==
    ASSUME NEW S, NEW seqs \in Seq(Seq(S)), NEW n \in Nat, n <= Len(seqs),
           NEW g, IsFlat(g, seqs, n)
    PROVE  \A i \in 1..n :
              /\ g[i] \in Seq(S)
              /\ \A x : Has(g[i], x) <=> \E j \in 1..i : Has(seqs[j], x)
<1> DEFINE Good(i) ==
              /\ g[i] \in Seq(S)
              /\ \A x : Has(g[i], x) <=> \E j \in 1..i : Has(seqs[j], x)
           B == {i \in Nat : i \in 1..n => Good(i)}
<1>0. \A i \in Nat : i \in B <=> (i \in 1..n => Good(i))
  <2> HIDE DEF Good
  <2> QED OBVIOUS
<1>1. 0 \in B
  <2> HIDE DEF Good
  <2> QED OBVIOUS
<1> HIDE DEF B
<1>2. ASSUME NEW i \in Nat, i \in B PROVE i + 1 \in B
  <2> SUFFICES ASSUME i + 1 \in 1..n PROVE Good(i + 1)
    <3> HIDE DEF Good
    <3> QED BY <1>0
  <2>1. seqs[i + 1] \in Seq(S)
    OBVIOUS
  <2>2. CASE i = 0
    <3>1. g[i + 1] = seqs[1]
      BY <2>2 DEF IsFlat
    <3>2. \A j : j \in 1..(i + 1) <=> j = 1
      BY <2>2
    <3> QED BY <2>1, <2>2, <3>1, <3>2
  <2>3. CASE i # 0
    <3> DEFINE a == g[i]
               b == seqs[i + 1]
    <3>1. i \in 1..n /\ Good(i) /\ (i + 1) - 1 = i /\ i + 1 # 1
      <4> HIDE DEF Good
      <4> QED BY <1>0, <1>2, <2>3
    <3>2. g[i + 1] = a \o b
      BY <3>1 DEF IsFlat
    <3>3. a \in Seq(S) /\ b \in Seq(S)
      BY <2>1, <3>1
    <3>4. /\ a \o b \in Seq(S)
          /\ \A x : Has(a \o b, x) <=> Has(a, x) \/ Has(b, x)
      <4> HIDE DEF a, b
      <4> QED BY <3>3, ConcatHas
    <3>5. \A j : j \in 1..(i + 1) <=> j \in 1..i \/ j = i + 1
      OBVIOUS
    <3>6. Good(i + 1)
      <4>1. g[i + 1] \in Seq(S)
        BY <3>2, <3>4
      <4>2. ASSUME NEW x
            PROVE  Has(g[i + 1], x)
                      <=> \E j \in 1..(i + 1) : Has(seqs[j], x)
        BY <3>1, <3>2, <3>4, <3>5
      <4> QED BY <4>1, <4>2
    <3> QED BY <3>6
  <2> QED BY <2>2, <2>3
<1>3. Nat \subseteq B
  BY <1>1, <1>2, SetInduction
<1>4. \A i \in 1..n : Good(i)
  <2> HIDE DEF Good
  <2> QED BY <1>0, <1>3
<1> QED BY <1>4

\* FlattenSeq holds the elements of its sequences and no others.
LEMMA FlattenContents ==
    ASSUME NEW S, NEW seqs \in Seq(Seq(S))
    PROVE  /\ FlattenSeq(seqs) \in Seq(S)
           /\ \A x : Has(FlattenSeq(seqs), x)
                       <=> \E j \in DOMAIN seqs : Has(seqs[j], x)
<1> DEFINE n == Len(seqs)
           g == CHOOSE g : IsFlat(g, seqs, n)
<1>1. n \in Nat /\ DOMAIN seqs = 1..n /\ n <= Len(seqs)
  OBVIOUS
<1>2. CASE n = 0
  <2>1. seqs = <<>> /\ FlattenSeq(seqs) = <<>>
    BY <1>2 DEF FlattenSeq
  <2>2. DOMAIN FlattenSeq(seqs) = {} /\ DOMAIN seqs = {} /\ <<>> \in Seq(S)
    BY <2>1
  <2> QED BY <2>1, <2>2 DEF Has
<1>3. CASE n # 0
  <2>1. IsFlat(g, seqs, n)
    BY <1>1, FlatExists
  <2>2. FlattenSeq(seqs) = g[n]
    BY <1>3 DEF FlattenSeq, IsFlat
  <2> HIDE DEF g, n
  <2>3. n \in 1..n
    BY <1>1, <1>3
  <2>4. \A i \in 1..n :
           /\ g[i] \in Seq(S)
           /\ \A x : Has(g[i], x) <=> \E j \in 1..i : Has(seqs[j], x)
    BY <1>1, <2>1, FlatContents
  <2>5. /\ g[n] \in Seq(S)
        /\ \A x : Has(g[n], x) <=> \E j \in 1..n : Has(seqs[j], x)
    BY <2>3, <2>4, Zenon
  <2> QED BY <1>1, <2>2, <2>5, Zenon
<1> QED BY <1>2, <1>3
-----------------------------------------------------------------------------
(* Where the sequences lie in what is put together *)

\* s is the first n of the sequences, the k-th at o[k-1]+1..o[k].
Laid(s, seqs, n, o) ==
    /\ o \in [0..n -> Nat] /\ o[0] = 0 /\ o[n] = Len(s)
    /\ \A k \in 1..n : /\ o[k] = o[k - 1] + Len(seqs[k]) /\ o[k] <= Len(s)
                       /\ \A j \in 1..Len(seqs[k]) : s[o[k - 1] + j] = seqs[k][j]

LEMMA LaidMore ==
    ASSUME NEW S, NEW seqs \in Seq(Seq(S)), NEW n \in Nat, n + 1 <= Len(seqs),
           NEW s \in Seq(S), NEW o, Laid(s, seqs, n, o)
    PROVE  \E u : Laid(s \o seqs[n + 1], seqs, n + 1, u)
<1> DEFINE a == seqs[n + 1]
           t == s \o a
           u == [k \in 0..(n + 1) |-> IF k = n + 1 THEN Len(t) ELSE o[k]]
<1>1. a \in Seq(S) /\ t \in Seq(S) /\ Len(t) = Len(s) + Len(a) /\ Len(a) \in Nat /\ Len(s) \in Nat
  <2>1. n + 1 \in 1..Len(seqs)
    OBVIOUS
  <2> QED BY <2>1
<1>2. /\ \A j \in 1..Len(s) : t[j] = s[j]
      /\ \A j \in 1..Len(a) : t[Len(s) + j] = a[j]
  <2> HIDE DEF a
  <2> QED BY <1>1
<1>3. o \in [0..n -> Nat] /\ o[0] = 0 /\ o[n] = Len(s)
  BY DEF Laid
<1> HIDE DEF t, a
<1>4. u \in [0..(n + 1) -> Nat] /\ u[0] = 0 /\ u[n + 1] = Len(t) /\ \A k \in 0..n : u[k] = o[k]
  BY <1>1, <1>3
<1> HIDE DEF u
<1>5. ASSUME NEW k \in 1..(n + 1)
      PROVE  /\ u[k] = u[k - 1] + Len(seqs[k]) /\ u[k] <= Len(t)
             /\ \A j \in 1..Len(seqs[k]) : t[u[k - 1] + j] = seqs[k][j]
  <2>1. CASE k = n + 1
    <3>1. k - 1 = n /\ n \in 0..n /\ seqs[k] = a
      BY <2>1 DEF a
    <3>2. u[k - 1] = Len(s) /\ u[k] = Len(t)
      BY <1>3, <1>4, <2>1, <3>1
    <3>3. u[k] = u[k - 1] + Len(seqs[k]) /\ u[k] <= Len(t)
      BY <1>1, <3>1, <3>2
    <3>4. ASSUME NEW j \in 1..Len(seqs[k]) PROVE t[u[k - 1] + j] = seqs[k][j]
      BY <1>2, <3>1, <3>2
    <3> QED BY <3>3, <3>4
  <2>2. CASE k # n + 1
    <3>1. k \in 1..n /\ k \in 0..n /\ k - 1 \in 0..n
      BY <2>2
    <3>2. /\ o[k] = o[k - 1] + Len(seqs[k]) /\ o[k] <= Len(s)
          /\ \A j \in 1..Len(seqs[k]) : s[o[k - 1] + j] = seqs[k][j]
      BY <3>1 DEF Laid
    <3>3. u[k] = o[k] /\ u[k - 1] = o[k - 1] /\ o[k] \in Nat /\ o[k - 1] \in Nat
      BY <1>3, <1>4, <3>1
    <3>4. Len(seqs[k]) \in Nat
      <4>1. k \in 1..Len(seqs)
        BY <3>1
      <4> QED BY <4>1
    <3> DEFINE x == o[k - 1]
               y == Len(seqs[k])
    <3>5. x \in Nat /\ y \in Nat /\ o[k] = x + y /\ x + y <= Len(s)
      BY <3>2, <3>3, <3>4
    <3>6. u[k] = u[k - 1] + Len(seqs[k]) /\ u[k] <= Len(t)
      BY <1>1, <3>2, <3>3
    <3>7. ASSUME NEW j \in 1..Len(seqs[k]) PROVE t[u[k - 1] + j] = seqs[k][j]
      <4>1. s[x + j] = seqs[k][j] /\ u[k - 1] = x /\ j \in 1..y
        BY <3>2, <3>3
      <4> HIDE DEF x, y
      <4>2. j \in Nat /\ 1 <= j /\ j <= y
        BY <3>5, <4>1
      <4>3. x + j \in Nat /\ 1 <= x + j /\ x + j <= x + y
        BY <3>5, <4>2
      <4>4. x + j \in 1..Len(s)
        BY <1>1, <3>5, <4>3
      <4> QED BY <1>2, <4>1, <4>4
    <3> QED BY <3>6, <3>7
  <2> QED BY <2>1, <2>2
<1>6. Laid(t, seqs, n + 1, u)
  BY <1>4, <1>5 DEF Laid
<1> QED BY <1>6 DEF t, a

\* FlattenSeq lays its sequences one behind the other.
LEMMA FlattenLaid ==
    ASSUME NEW S, NEW seqs \in Seq(Seq(S))
    PROVE  FlattenSeq(seqs) \in Seq(S) /\ \E o : Laid(FlattenSeq(seqs), seqs, Len(seqs), o)
<1> DEFINE n == Len(seqs)
           g == CHOOSE g : IsFlat(g, seqs, n)
<1>1. n \in Nat /\ FlattenSeq(seqs) \in Seq(S)
  BY FlattenContents
<1>2. Laid(<<>>, seqs, 0, [k \in 0..0 |-> 0])
  BY DEF Laid
<1>3. CASE n = 0
  <2>1. FlattenSeq(seqs) = <<>>
    BY <1>3 DEF FlattenSeq
  <2> QED BY <1>1, <1>2, <1>3, <2>1
<1>4. CASE n # 0
  <2>1. IsFlat(g, seqs, n)
    BY <1>1, FlatExists
  <2>2. FlattenSeq(seqs) = g[n]
    BY <1>4 DEF FlattenSeq, IsFlat
  <2> HIDE DEF g, n
  <2>3. \A i \in 1..n : g[i] \in Seq(S)
    <3>1. seqs \in Seq(Seq(S)) /\ n \in Nat /\ n <= Len(seqs)
      BY <1>1 DEF n
    <3> QED BY ONLY <2>1, <3>1, FlatContents
  <2> DEFINE B == {i \in Nat : i \in 1..n => \E o : Laid(g[i], seqs, i, o)}
  <2>4. 0 \in B
    OBVIOUS
  <2>5. ASSUME NEW i \in Nat, i \in B PROVE i + 1 \in B
    <3> SUFFICES ASSUME i + 1 \in 1..n PROVE \E o : Laid(g[i + 1], seqs, i + 1, o)
      OBVIOUS
    <3>1. i + 1 <= Len(seqs)
      BY <1>1 DEF n
    <3>2. CASE i = 0
      <4>1. g[i + 1] = seqs[i + 1]
        BY <2>1, <3>2 DEF IsFlat
      <4>2. seqs[i + 1] \in Seq(S) /\ <<>> \in Seq(S)
        <5>1. i + 1 \in 1..Len(seqs)
          BY <3>1, <3>2
        <5> QED BY <5>1
      <4>3. <<>> \o seqs[i + 1] = seqs[i + 1]
        BY <4>2
      <4>4. \E u : Laid(<<>> \o seqs[i + 1], seqs, i + 1, u)
        <5>1. Laid(<<>>, seqs, i, [k \in 0..0 |-> 0])
          BY <1>2, <3>2
        <5> QED BY <3>1, <4>2, <5>1, LaidMore
      <4> QED BY <4>1, <4>3, <4>4
    <3>3. CASE i # 0
      <4>1. i \in 1..n /\ (i + 1) - 1 = i /\ i + 1 # 1
        BY <1>1, <3>3
      <4>2. g[i + 1] = g[i] \o seqs[i + 1]
        BY <2>1, <4>1 DEF IsFlat
      <4>3. PICK o : Laid(g[i], seqs, i, o)
        BY <2>5, <4>1
      <4>4. \E u : Laid(g[i] \o seqs[i + 1], seqs, i + 1, u)
        BY <2>3, <3>1, <4>1, <4>3, LaidMore
      <4> QED BY <4>2, <4>4
    <3> QED BY <3>2, <3>3
  <2> HIDE DEF B
  <2>6. Nat \subseteq B
    BY <2>4, <2>5, SetInduction
  <2>7. n \in Nat /\ n \in 1..n
    BY <1>1, <1>4
  <2>8. \E o : Laid(g[n], seqs, n, o)
    BY <2>6, <2>7 DEF B
  <2> QED BY <1>1, <2>2, <2>8 DEF n
<1> QED BY <1>3, <1>4

\* Every place is in one of the sequences.
LiesIn(seqs, n, o, x) == \E k \in 1..n : \E r \in 1..Len(seqs[k]) : x = o[k - 1] + r

LEMMA LaidAt ==
    ASSUME NEW S, NEW seqs \in Seq(Seq(S)), NEW n \in Nat, n <= Len(seqs),
           NEW s, NEW o, Laid(s, seqs, n, o)
    PROVE  \A x \in 1..Len(s) : LiesIn(seqs, n, o, x)
<1> DEFINE In(i, m) == \E k \in 1..m : \E r \in 1..Len(seqs[k]) : i = o[k - 1] + r
           B == {m \in Nat : m <= n => \A i \in 1..o[m] : In(i, m)}
<1>1. o \in [0..n -> Nat] /\ o[0] = 0 /\ o[n] = Len(s)
  BY DEF Laid
<1>2. 0 \in B
  <2>1. 1..o[0] = {}
    BY <1>1
  <2> QED BY <2>1
<1>3. ASSUME NEW m \in Nat, m \in B PROVE m + 1 \in B
  <2> SUFFICES ASSUME m + 1 <= n, NEW i \in 1..o[m + 1] PROVE In(i, m + 1)
    OBVIOUS
  <2>1. m + 1 \in 1..n /\ m + 1 \in 1..Len(seqs) /\ (m + 1) - 1 = m /\ m \in 0..n
    OBVIOUS
  <2>2. o[m + 1] = o[m] + Len(seqs[m + 1]) /\ o[m] \in Nat /\ Len(seqs[m + 1]) \in Nat
    <3>1. seqs[m + 1] \in Seq(S)
      BY <2>1
    <3> QED BY <1>1, <2>1, <3>1 DEF Laid
  <2>3. CASE i <= o[m]
    <3>1. i \in 1..o[m] /\ m <= n
      BY <2>2, <2>3
    <3>2. PICK k \in 1..m : \E r \in 1..Len(seqs[k]) : i = o[k - 1] + r
      BY <1>3, <3>1
    <3>3. k \in 1..(m + 1)
      OBVIOUS
    <3> QED BY <3>2, <3>3
  <2>4. CASE ~(i <= o[m])
    <3> DEFINE r == i - o[m]
    <3>1. r \in 1..Len(seqs[m + 1]) /\ i = o[m] + r /\ m + 1 \in 1..(m + 1)
      BY <2>2, <2>4
    <3> HIDE DEF r
    <3> QED BY <2>1, <3>1
  <2> QED BY <2>3, <2>4
<1> HIDE DEF B
<1>4. Nat \subseteq B
  BY <1>2, <1>3, SetInduction
<1>5. \A i \in 1..o[n] : In(i, n)
  <2> HIDE DEF In
  <2>1. n \in B /\ n <= n
    BY <1>4
  <2> QED BY <2>1 DEF B
<1> QED BY <1>1, <1>5 DEF LiesIn

\* There is one way to lay them.
LEMMA LaidOnce ==
    ASSUME NEW S, NEW seqs \in Seq(Seq(S)), NEW n \in Nat, n <= Len(seqs),
           NEW s \in Seq(S), NEW o, Laid(s, seqs, n, o),
           NEW t \in Seq(S), NEW u, Laid(t, seqs, n, u)
    PROVE  s = t
<1>1. /\ o \in [0..n -> Nat] /\ o[0] = 0 /\ o[n] = Len(s)
      /\ u \in [0..n -> Nat] /\ u[0] = 0 /\ u[n] = Len(t)
  BY DEF Laid
<1> DEFINE B == {m \in Nat : m <= n => o[m] = u[m]}
<1>2. 0 \in B
  BY <1>1
<1>3. ASSUME NEW m \in Nat, m \in B PROVE m + 1 \in B
  <2> SUFFICES ASSUME m + 1 <= n PROVE o[m + 1] = u[m + 1]
    OBVIOUS
  <2>1. m + 1 \in 1..n /\ (m + 1) - 1 = m
    OBVIOUS
  <2>2. o[m + 1] = o[m] + Len(seqs[m + 1]) /\ u[m + 1] = u[m] + Len(seqs[m + 1])
    BY <2>1 DEF Laid
  <2> QED BY <1>3, <2>2
<1> HIDE DEF B
<1>4. Nat \subseteq B
  BY <1>2, <1>3, SetInduction
<1>5. \A m \in 0..n : o[m] = u[m]
  BY <1>4 DEF B
<1>6. Len(s) = Len(t)
  BY <1>1, <1>5
<1>7. ASSUME NEW i \in 1..Len(s) PROVE s[i] = t[i]
  <2>1. PICK k \in 1..n : \E r \in 1..Len(seqs[k]) : i = o[k - 1] + r
    <3>1. LiesIn(seqs, n, o, i)
      BY LaidAt
    <3> QED BY <3>1 DEF LiesIn
  <2>2. PICK r \in 1..Len(seqs[k]) : i = o[k - 1] + r
    BY <2>1
  <2>3. o[k - 1] = u[k - 1]
    BY <1>5
  <2>4. s[o[k - 1] + r] = seqs[k][r] /\ t[u[k - 1] + r] = seqs[k][r]
    BY DEF Laid
  <2> QED BY <2>2, <2>3, <2>4
<1> QED BY <1>6, <1>7

-----------------------------------------------------------------------------
(* Sequences without repetitions *)

Distinct(s) == \A j, k \in DOMAIN s : s[j] = s[k] => j = k

LEMMA ConcatDistinct ==
    ASSUME NEW S, NEW a \in Seq(S), NEW b \in Seq(S), Distinct(a), Distinct(b),
           \A x : ~(Has(a, x) /\ Has(b, x))
    PROVE  Distinct(a \o b)
<1>1. /\ Len(a) \in Nat /\ Len(b) \in Nat /\ DOMAIN a = 1..Len(a) /\ DOMAIN b = 1..Len(b)
      /\ DOMAIN (a \o b) = 1..(Len(a) + Len(b))
  OBVIOUS
<1>2. ASSUME NEW k \in DOMAIN (a \o b)
      PROVE  \/ k \in 1..Len(a) /\ (a \o b)[k] = a[k]
             \/ k - Len(a) \in 1..Len(b) /\ (a \o b)[k] = b[k - Len(a)]
  <2>1. CASE k \in 1..Len(a)
    BY <1>1, <2>1
  <2>2. CASE k \notin 1..Len(a)
    BY <1>1, <2>2
  <2> QED BY <2>1, <2>2
<1>3. \A j, k : ~(j \in 1..Len(a) /\ k \in 1..Len(b) /\ a[j] = b[k])
  BY <1>1 DEF Has
<1>4. ASSUME NEW j \in DOMAIN (a \o b), NEW k \in DOMAIN (a \o b), (a \o b)[j] = (a \o b)[k]
      PROVE  j = k
  <2> DEFINE c == a \o b
             n == Len(a)
  <2>1. j \in Nat /\ k \in Nat /\ n \in Nat
    BY <1>1
  <2>2. \/ j \in 1..n /\ c[j] = a[j]
        \/ j - n \in 1..Len(b) /\ c[j] = b[j - n]
    BY <1>2
  <2>3. \/ k \in 1..n /\ c[k] = a[k]
        \/ k - n \in 1..Len(b) /\ c[k] = b[k - n]
    BY <1>2
  <2>4. c[j] = c[k]
    BY <1>4
  <2> HIDE DEF c
  <2>5. CASE j \in 1..n /\ k \in 1..n /\ a[j] = a[k]
    BY <1>1, <2>5 DEF Distinct
  <2>6. CASE j - n \in 1..Len(b) /\ k - n \in 1..Len(b) /\ b[j - n] = b[k - n]
    <3>1. j - n = k - n
      BY <1>1, <2>6 DEF Distinct
    <3> HIDE DEF n
    <3> QED BY <2>1, <3>1
  <2> HIDE DEF n
  <2> QED BY <1>3, <2>2, <2>3, <2>4, <2>5, <2>6 DEF n
<1> QED BY <1>4 DEF Distinct

LEMMA TailDistinct ==
    ASSUME NEW S, NEW s \in Seq(S), s # <<>>, Distinct(s)
    PROVE  Distinct(Tail(s)) /\ ~Has(Tail(s), Head(s))
<1>1. /\ Len(s) \in Nat /\ Len(s) >= 1 /\ DOMAIN s = 1..Len(s) /\ Head(s) = s[1]
      /\ DOMAIN Tail(s) = 1..(Len(s) - 1)
      /\ \A k \in 1..(Len(s) - 1) : Tail(s)[k] = s[k + 1]
  OBVIOUS
<1>2. \A k \in 1..(Len(s) - 1) : k + 1 \in 1..Len(s) /\ k + 1 # 1
  BY <1>1
<1>3. 1 \in 1..Len(s)
  BY <1>1
<1>4. ASSUME NEW j \in DOMAIN Tail(s), NEW k \in DOMAIN Tail(s), Tail(s)[j] = Tail(s)[k]
      PROVE  j = k
  <2>1. j + 1 = k + 1
    BY <1>1, <1>2, <1>4 DEF Distinct
  <2> QED BY <1>1, <2>1
<1>5. ASSUME Has(Tail(s), Head(s)) PROVE FALSE
  <2>1. PICK k \in 1..(Len(s) - 1) : s[k + 1] = s[1]
    BY <1>1, <1>5 DEF Has
  <2> QED BY <1>1, <1>2, <1>3, <2>1 DEF Distinct
<1> QED BY <1>4, <1>5 DEF Distinct

\* Sequences without repetitions, no two with a common element, make one.
LEMMA FlattenDistinct ==
    ASSUME NEW S, NEW seqs \in Seq(Seq(S)), \A j \in DOMAIN seqs : Distinct(seqs[j]),
           \A j, k \in DOMAIN seqs : \A x : Has(seqs[j], x) /\ Has(seqs[k], x) => j = k
    PROVE  Distinct(FlattenSeq(seqs))
<1> DEFINE n == Len(seqs)
           g == CHOOSE g : IsFlat(g, seqs, n)
<1>1. n \in Nat /\ DOMAIN seqs = 1..n /\ n <= Len(seqs)
  OBVIOUS
<1>2. CASE n = 0
  <2>1. seqs = <<>> /\ FlattenSeq(seqs) = <<>>
    BY <1>2 DEF FlattenSeq
  <2>2. DOMAIN FlattenSeq(seqs) = {}
    BY <2>1
  <2> QED BY <2>2 DEF Distinct
<1>3. CASE n # 0
  <2>1. IsFlat(g, seqs, n)
    BY <1>1, FlatExists
  <2>2. FlattenSeq(seqs) = g[n]
    BY <1>3 DEF FlattenSeq, IsFlat
  <2> HIDE DEF g, n
  <2>3. \A i \in 1..n :
           /\ g[i] \in Seq(S)
           /\ \A x : Has(g[i], x) <=> \E j \in 1..i : Has(seqs[j], x)
    <3>1. seqs \in Seq(Seq(S)) /\ n \in Nat /\ n <= Len(seqs)
      BY <1>1
    <3> QED BY ONLY <2>1, <3>1, FlatContents
  <2> DEFINE B == {i \in Nat : i \in 1..n => Distinct(g[i])}
  <2>4. 0 \in B
    OBVIOUS
  <2>5. ASSUME NEW i \in Nat, i \in B PROVE i + 1 \in B
    <3> SUFFICES ASSUME i + 1 \in 1..n PROVE Distinct(g[i + 1])
      OBVIOUS
    <3>1. i + 1 \in DOMAIN seqs /\ Distinct(seqs[i + 1]) /\ seqs[i + 1] \in Seq(S)
      <4>1. i + 1 \in DOMAIN seqs
        BY <1>1
      <4>2. \A j \in DOMAIN seqs : seqs[j] \in Seq(S)
        OBVIOUS
      <4> QED BY <4>1, <4>2
    <3>2. CASE i = 0
      <4>1. g[i + 1] = seqs[i + 1]
        BY <2>1, <3>2 DEF IsFlat
      <4> QED BY <3>1, <4>1
    <3>3. CASE i # 0
      <4>1. i \in 1..n /\ (i + 1) - 1 = i /\ i + 1 # 1
        BY <1>1, <3>3
      <4>2. g[i + 1] = g[i] \o seqs[i + 1]
        BY <2>1, <4>1 DEF IsFlat
      <4>3. Distinct(g[i]) /\ g[i] \in Seq(S)
        BY <2>3, <2>5, <4>1
      <4>4. ASSUME NEW x, Has(g[i], x), Has(seqs[i + 1], x) PROVE FALSE
        <5>1. PICK j \in 1..i : Has(seqs[j], x)
          BY <2>3, <4>1, <4>4
        <5>2. j \in DOMAIN seqs /\ j # i + 1
          BY <1>1, <4>1
        <5> QED BY <3>1, <4>4, <5>1, <5>2
      <4> QED BY <3>1, <4>2, <4>3, <4>4, ConcatDistinct
    <3> QED BY <3>2, <3>3
  <2> HIDE DEF B
  <2>6. Nat \subseteq B
    BY <2>4, <2>5, SetInduction
  <2>7. n \in Nat /\ n \in 1..n
    BY <1>1, <1>3
  <2> QED BY <2>2, <2>6, <2>7 DEF B
<1> QED BY <1>2, <1>3

-----------------------------------------------------------------------------
(* Powers of two *)

\* The provers know no exponents; that there are 2^n subsets of n numbers they do.
LEMMA PowerIs ==
    ASSUME NEW n \in Nat
    PROVE  2^n \in Nat \ {0} /\ 2^(n + 1) = 2 * 2^n
<1> DEFINE S == 1..n
           A == SUBSET S
           B == {T \cup {n + 1} : T \in A}
<1>1. IsFiniteSet(S) /\ Cardinality(S) = n
  BY FS_Interval
<1>2. IsFiniteSet(1..(n + 1)) /\ Cardinality(1..(n + 1)) = n + 1
  BY FS_Interval
<1>3. IsFiniteSet(A) /\ Cardinality(A) = 2^n
  BY <1>1, FS_SUBSET
<1>4. IsFiniteSet(SUBSET (1..(n + 1))) /\ Cardinality(SUBSET (1..(n + 1))) = 2^(n + 1)
  BY <1>2, FS_SUBSET
<1>5. SUBSET (1..(n + 1)) = A \cup B
  <2>1. ASSUME NEW T \in SUBSET (1..(n + 1)), T \notin A PROVE T \in B
    <3>1. n + 1 \in T
      <4>1. PICK x \in T : x \notin 1..n
        BY <2>1
      <4>2. x \in 1..(n + 1)
        OBVIOUS
      <4>3. x = n + 1
        BY <4>1, <4>2
      <4> QED BY <4>1, <4>3
    <3>2. T \ {n + 1} \in A
      <4>1. \A x \in T : x \in 1..(n + 1)
        OBVIOUS
      <4>2. \A x \in T : x # n + 1 => x \in 1..n
        BY <4>1
      <4> QED BY <4>2
    <3>3. T = (T \ {n + 1}) \cup {n + 1}
      BY <3>1
    <3> QED BY <3>2, <3>3
  <2>2. ASSUME NEW T \in A PROVE T \in SUBSET (1..(n + 1)) /\ T \cup {n + 1} \in SUBSET (1..(n + 1))
    <3>1. n + 1 \in 1..(n + 1) /\ \A x \in 1..n : x \in 1..(n + 1)
      OBVIOUS
    <3>2. \A x \in T : x \in 1..n
      BY <2>2
    <3>3. \A x \in T : x \in 1..(n + 1)
      BY <3>1, <3>2
    <3> QED BY <3>1, <3>3
  <2>3. ASSUME NEW T \in B PROVE T \in SUBSET (1..(n + 1))
    <3>1. PICK V \in A : T = V \cup {n + 1}
      BY <2>3
    <3> QED BY <2>2, <3>1
  <2> HIDE DEF A, B
  <2> QED BY <2>1, <2>2, <2>3
<1>6. A \cap B = {} /\ n + 1 \notin S
  OBVIOUS
<1>7. IsFiniteSet(B) /\ Cardinality(B) = Cardinality(A)
  <2> DEFINE f == [T \in A |-> T \cup {n + 1}]
  <2>1. f \in Bijection(A, B)
    <3>1. f \in [A -> B]
      OBVIOUS
    <3>2. ASSUME NEW T \in A, NEW U \in A, f[T] = f[U] PROVE T = U
      <4>1. T \cup {n + 1} = U \cup {n + 1} /\ n + 1 \notin T /\ n + 1 \notin U
        BY <1>6, <3>2
      <4> QED BY <4>1
    <3>3. \A V \in B : \E T \in A : f[T] = V
      OBVIOUS
    <3>4. DOMAIN f = A
      OBVIOUS
    <3> HIDE DEF f, A, B
    <3> QED BY <3>1, <3>2, <3>3, <3>4 DEF Bijection, Injection, Surjection, IsInjective
  <2>2. ExistsBijection(A, B)
    BY <2>1 DEF ExistsBijection
  <2> HIDE DEF A, B
  <2> QED BY <1>3, <2>2, FS_Bijection
<1> HIDE DEF A, B
<1>8. Cardinality(A \cup B) = 2 * 2^n
  <2>1. Cardinality(A \cup B) = Cardinality(A) + Cardinality(B) - Cardinality(A \cap B)
    BY <1>3, <1>7, FS_Union
  <2>2. Cardinality(A \cap B) = 0
    BY <1>6, FS_EmptySet
  <2>3. Cardinality(A) \in Nat
    BY <1>3, FS_CardinalityType
  <2> QED BY <1>3, <1>7, <2>1, <2>2, <2>3
<1>9. 2^n \in Nat \ {0}
  <2>1. Cardinality(A) \in Nat
    BY <1>3, FS_CardinalityType
  <2>2. A # {}
    BY DEF A
  <2>3. Cardinality(A) # 0
    BY <1>3, <2>2, FS_EmptySet
  <2> QED BY <1>3, <2>1, <2>3
<1> QED BY <1>4, <1>5, <1>8, <1>9

\* A group more is a factor of 128.
LEMMA GroupMore ==
    ASSUME NEW n \in Nat
    PROVE  2^(n + 7) = 128 * 2^n
<1>1. /\ 2^(n + 1) = 2 * 2^n /\ 2^(n + 2) = 2 * 2^(n + 1) /\ 2^(n + 3) = 2 * 2^(n + 2)
      /\ 2^(n + 4) = 2 * 2^(n + 3) /\ 2^(n + 5) = 2 * 2^(n + 4) /\ 2^(n + 6) = 2 * 2^(n + 5)
      /\ 2^(n + 7) = 2 * 2^(n + 6) /\ 2^n \in Nat
  <2>1. \A m \in Nat : 2^(m + 1) = 2 * 2^m
    BY PowerIs
  <2>2. /\ (n + 1) + 1 = n + 2 /\ (n + 2) + 1 = n + 3 /\ (n + 3) + 1 = n + 4
        /\ (n + 4) + 1 = n + 5 /\ (n + 5) + 1 = n + 6 /\ (n + 6) + 1 = n + 7
    OBVIOUS
  <2> QED BY <2>1, <2>2, PowerIs
<1> QED BY <1>1

\* Powers grow.
LEMMA PowerGrows ==
    ASSUME NEW m \in Nat, NEW n \in Nat, m <= n
    PROVE  2^m <= 2^n
<1> DEFINE B == {d \in Nat : 2^m <= 2^(m + d)}
<1>1. 0 \in B
  <2>1. m + 0 = m /\ 2^m \in Nat
    BY PowerIs
  <2> QED BY <2>1
<1>2. ASSUME NEW d \in Nat, d \in B PROVE d + 1 \in B
  <2>1. m + d \in Nat /\ (m + d) + 1 = m + (d + 1)
    OBVIOUS
  <2>2. 2^(m + d) \in Nat /\ 2^((m + d) + 1) = 2 * 2^(m + d) /\ 2^m \in Nat
    BY <2>1, PowerIs
  <2> QED BY <1>2, <2>1, <2>2
<1> HIDE DEF B
<1>3. Nat \subseteq B
  BY <1>1, <1>2, SetInduction
<1>4. n - m \in Nat /\ m + (n - m) = n
  OBVIOUS
<1>5. n - m \in B
  BY <1>3, <1>4
<1> QED BY <1>4, <1>5 DEF B

\* There is one power of none.
LEMMA PowerOfNone == 2^0 = 1
<1>1. IsFiniteSet({}) /\ Cardinality({}) = 0
  BY FS_EmptySet
<1>2. Cardinality(SUBSET {}) = 2^Cardinality({})
  BY <1>1, FS_SUBSET
<1>3. SUBSET {} = {{}}
  OBVIOUS
<1>4. Cardinality({{}}) = 1
  BY FS_Singleton
<1> QED BY <1>1, <1>2, <1>3, <1>4

-----------------------------------------------------------------------------
(* Groups of seven bits *)

\* What the groups before the n-th carry is less than G(n).
G(n) == 2^(7 * n)

\* What is left above the first n groups, and the i-th group.
Above(u, n) == u \div G(n)

Group(u, i) == Above(u, i - 1) % 128

\* Each group more is a factor of 128, so that the powers of the groups grow.
LEMMA GroupsGrow ==
    /\ G(0) = 1
    /\ \A n \in Nat : G(n) \in Nat \ {0} /\ G(n + 1) = 128 * G(n)
    /\ \A m, n \in Nat : m <= n => G(m) <= G(n)
<1>1. G(0) = 1
  <2>1. 7 * 0 = 0
    OBVIOUS
  <2> QED BY <2>1, PowerOfNone DEF G
<1>2. ASSUME NEW n \in Nat PROVE G(n) \in Nat \ {0} /\ G(n + 1) = 128 * G(n)
  <2>1. 7 * n \in Nat /\ 7 * (n + 1) = 7 * n + 7
    OBVIOUS
  <2> QED BY <2>1, PowerIs, GroupMore DEF G
<1>3. ASSUME NEW m \in Nat, NEW n \in Nat, m <= n PROVE G(m) <= G(n)
  <2>1. 7 * m \in Nat /\ 7 * n \in Nat /\ 7 * m <= 7 * n
    BY <1>3
  <2> QED BY <2>1, PowerGrows DEF G
<1> QED BY <1>1, <1>2, <1>3

\* Division with remainder, as the provers use it.
LEMMA Divided ==
    ASSUME NEW u \in Nat, NEW d \in Nat \ {0}, NEW q \in Nat, NEW r \in Nat,
           r < d, u = q * d + r
    PROVE  u \div d = q /\ u % d = r
OBVIOUS

\* Above the first n groups is the quotient, and below it a remainder.
LEMMA TopIs ==
    ASSUME NEW u \in Nat, NEW n \in Nat
    PROVE  /\ Above(u, n) \in Nat
           /\ \E r \in Nat : r < G(n) /\ u = Above(u, n) * G(n) + r
<1> DEFINE g == G(n)
           q == u \div g
           r == u % g
<1>1. g \in Nat \ {0}
  BY GroupsGrow
<1> HIDE DEF g
<1>2. q \in Nat /\ r \in 0..(g - 1)
  BY <1>1
<1>3. u = g * q + r
  BY <1>1
<1> HIDE DEF q, r
<1>4. u = q * g + r
  <2>1. g * q = q * g
    BY <1>1, <1>2
  <2> QED BY <1>3, <2>1
<1>5. q = Above(u, n) /\ g = G(n)
  BY DEF q, g, Above
<1>6. r \in Nat /\ r < g
  BY <1>1, <1>2
<1> QED BY <1>2, <1>4, <1>5, <1>6

\* Without the next group, a 128th of it is left.
LEMMA NextTop ==
    ASSUME NEW u \in Nat, NEW n \in Nat
    PROVE  /\ Above(u, n + 1) = Above(u, n) \div 128
           /\ Group(u, n + 1) \in 0..127
           /\ Above(u, n) = Above(u, n + 1) * 128 + Group(u, n + 1)
<1> DEFINE g == G(n)
           q == Above(u, n)
           p == q \div 128
           s == q % 128
<1>1. g \in Nat \ {0} /\ G(n + 1) = 128 * g
  BY GroupsGrow
<1>2. q \in Nat /\ \E r \in Nat : r < g /\ u = q * g + r
  BY TopIs
<1> HIDE DEF g, q
<1>3. PICK r \in Nat : r < g /\ u = q * g + r
  BY <1>2
<1>4. p \in Nat /\ s \in 0..127 /\ q = p * 128 + s
  BY <1>2
<1>5. Group(u, n + 1) = s
  <2>1. (n + 1) - 1 = n
    OBVIOUS
  <2> QED BY <2>1 DEF Group, q
<1> HIDE DEF p, s
<1>6. s * g \in Nat /\ s * g <= 127 * g
  BY <1>1, <1>4
<1>7. u = p * (128 * g) + (s * g + r)
  <2> DEFINE a == p * 128
  <2>1. a \in Nat /\ s \in Nat /\ g \in Nat
    BY <1>1, <1>4
  <2>2. a * g = p * (128 * g)
    BY <1>1, <1>4
  <2>3. (a + s) * g = a * g + s * g
    <3> HIDE DEF a
    <3> QED BY <2>1
  <2>4. q * g = p * (128 * g) + s * g
    <3>1. q = a + s
      BY <1>4
    <3> HIDE DEF a
    <3> QED BY <2>2, <2>3, <3>1
  <2> DEFINE x == q * g
             y == p * (128 * g)
             z == s * g
  <2>5. u = x + r /\ x = y + z /\ r \in Nat /\ y \in Nat /\ z \in Nat
    BY <1>1, <1>2, <1>3, <1>4, <1>6, <2>4
  <2> HIDE DEF x, y, z
  <2>6. u = y + (z + r)
    BY <2>5
  <2> QED BY <2>6 DEF y, z
<1>8. s * g + r \in Nat /\ s * g + r < 128 * g
  BY <1>1, <1>3, <1>6
<1>9. Above(u, n + 1) = p
  <2> DEFINE d == G(n + 1)
             r2 == s * g + r
  <2>1. d \in Nat \ {0} /\ r2 \in Nat /\ r2 < d /\ u = p * d + r2
    BY <1>1, <1>7, <1>8
  <2> HIDE DEF d, r2
  <2>2. u \div d = p
    BY <1>4, <2>1, Divided
  <2> QED BY <2>2 DEF Above, d
<1>10. Above(u, n + 1) = q \div 128
  BY <1>9 DEF p
<1>11. Group(u, n + 1) \in 0..127 /\ q = Above(u, n + 1) * 128 + Group(u, n + 1)
  BY <1>4, <1>5, <1>9
<1> QED BY <1>10, <1>11 DEF q
-----------------------------------------------------------------------------
(* What a number of W bits has room for *)

\* The groups of a number of W bits.
RoomFor(W) == (W + 6) \div 7

LEMMA RoomIs ==
    ASSUME NEW W \in Nat \ {0}
    PROVE  /\ RoomFor(W) \in Nat \ {0}
           /\ \A n \in Nat : n < RoomFor(W) <=> 7 * n < W
           /\ 2^W \in Nat \ {0} /\ 2^W <= G(RoomFor(W))
<1>1. /\ RoomFor(W) \in Nat \ {0} /\ W <= 7 * RoomFor(W)
      /\ \A n \in Nat : n < RoomFor(W) <=> 7 * n < W
  BY DEF RoomFor
<1>2. W \in Nat /\ 7 * RoomFor(W) \in Nat
  BY <1>1
<1>3. 2^W <= 2^(7 * RoomFor(W)) /\ 2^W \in Nat \ {0}
  BY <1>1, <1>2, PowerGrows, PowerIs
<1> QED BY <1>1, <1>3 DEF G

\* u has k groups.
FitsIn(W, u, k) == k \in 1..RoomFor(W) /\ u < G(k) /\ (k > 1 => u >= G(k - 1))

ByteOf(u, k, i) == Group(u, i) + (IF i < k THEN 128 ELSE 0)

LEMMA FitsOnce ==
    ASSUME NEW W \in Nat \ {0}, NEW u \in Nat, NEW k, FitsIn(W, u, k), NEW m, FitsIn(W, u, m)
    PROVE  m = k
<1>1. ASSUME NEW i, NEW n, FitsIn(W, u, i), FitsIn(W, u, n), i < n PROVE FALSE
  <2>1. i \in Nat /\ n - 1 \in Nat /\ i <= n - 1 /\ n > 1
    BY <1>1, RoomIs DEF FitsIn
  <2>2. G(i) <= G(n - 1) /\ G(i) \in Nat /\ G(n - 1) \in Nat
    BY <2>1, GroupsGrow
  <2>3. u < G(i) /\ u >= G(n - 1)
    BY <1>1, <2>1 DEF FitsIn
  <2> QED BY <2>2, <2>3
<1>2. m \in Nat /\ k \in Nat
  BY RoomIs DEF FitsIn
<1>3. ~(m < k) /\ ~(k < m)
  BY <1>1
<1> QED BY <1>2, <1>3

\* What the first n groups of u carry.
Low(u, n) == u - Above(u, n) * G(n)

\* The loop that writes ends with the last group.
LEMMA FitsLast ==
    ASSUME NEW W \in Nat \ {0}, NEW u \in Nat, u < 2^W, NEW n \in Nat, n > 0 => Above(u, n) > 0, Above(u, n) \div 128 = 0
    PROVE  FitsIn(W, u, n + 1)
<1> DEFINE g == G(n)
           q == Above(u, n)
<1>1. g \in Nat \ {0} /\ G(n + 1) = 128 * g /\ u \in Nat /\ u < 2^W /\ 2^W \in Nat
  BY GroupsGrow, RoomIs
<1>2. q \in Nat /\ \E r \in Nat : r < g /\ u = q * g + r
  BY <1>1, TopIs
<1>3. q < 128 /\ (n > 0 => q > 0)
  BY <1>2
<1> HIDE DEF g, q
<1>4. PICK r \in Nat : r < g /\ u = q * g + r
  BY <1>2
<1> DEFINE x == q * g
<1>5. x \in Nat /\ x <= 127 * g /\ (n > 0 => x >= g)
  <2>1. q <= 127 /\ q \in Nat
    BY <1>2, <1>3
  <2>2. x <= 127 * g /\ x \in Nat
    BY <1>1, <2>1
  <2>3. q >= 1 => x >= g
    BY <1>1, <2>1
  <2>4. n > 0 => q >= 1
    BY <1>2, <1>3
  <2> QED BY <2>2, <2>3, <2>4
<1>6. u = x + r
  BY <1>4
<1> HIDE DEF x
<1>7. u < 128 * g /\ (n > 0 => u >= g)
  BY <1>1, <1>4, <1>5, <1>6
<1>8. n < RoomFor(W)
  <2> SUFFICES ASSUME n >= RoomFor(W) PROVE FALSE
    BY RoomIs
  <2>1. n > 0 /\ RoomFor(W) \in Nat
    BY RoomIs
  <2>2. G(RoomFor(W)) <= g /\ 2^W <= G(RoomFor(W)) /\ G(RoomFor(W)) \in Nat
    BY <2>1, GroupsGrow, RoomIs DEF g
  <2> QED BY <1>1, <1>7, <2>1, <2>2
<1>9. n + 1 \in 1..RoomFor(W) /\ (n + 1) - 1 = n
  BY <1>8, RoomIs
<1> QED BY <1>1, <1>7, <1>9 DEF FitsIn, g

\* What a turn of the loop that reads adds, and when it is the last.
LEMMA ReadsGroup ==
    ASSUME NEW W \in Nat \ {0}, NEW u \in Nat, u < 2^W, NEW k, FitsIn(W, u, k), NEW i \in 0..(k - 1)
    PROVE  /\ 7 * i < W /\ (7 * i) % W = 7 * i
           /\ ByteOf(u, k, i + 1) % 128 = Group(u, i + 1)
           /\ ByteOf(u, k, i + 1) < 128 <=> i + 1 = k
           /\ (Low(u, i) + Group(u, i + 1) * 2^(7 * i)) % 2^W = Low(u, i + 1)
           /\ Low(u, k) = u
<1>1. k \in Nat /\ i \in Nat /\ i < RoomFor(W) /\ i < k /\ RoomFor(W) \in Nat
  BY RoomIs DEF FitsIn
<1>2. 7 * i < W /\ 7 * i \in Nat /\ W \in Nat
  BY <1>1, RoomIs
<1>3. (7 * i) % W = 7 * i
  <2> DEFINE x == 7 * i
  <2>1. x \in Nat /\ x < W /\ W \in Nat
    BY <1>2
  <2> HIDE DEF x
  <2>2. x % W = x
    BY <2>1
  <2> QED BY <2>2 DEF x
<1>4. u \in Nat /\ u < 2^W /\ 2^W \in Nat \ {0}
  BY RoomIs
<1>5. /\ Group(u, i + 1) \in 0..127 /\ Above(u, i + 1) \in Nat
      /\ Above(u, i) = Above(u, i + 1) * 128 + Group(u, i + 1)
  <2>1. i + 1 \in Nat
    BY <1>1
  <2>2. Above(u, i + 1) \in Nat
    BY <1>4, <2>1, TopIs
  <2>3. \A n \in Nat : /\ Group(u, n + 1) \in 0..127
                       /\ Above(u, n) = Above(u, n + 1) * 128 + Group(u, n + 1)
    BY <1>4, NextTop
  <2> QED BY <1>1, <2>2, <2>3
<1>6. /\ ByteOf(u, k, i + 1) % 128 = Group(u, i + 1)
      /\ ByteOf(u, k, i + 1) < 128 <=> i + 1 = k
  <2> DEFINE b == Group(u, i + 1)
  <2>1. b \in 0..127 /\ ByteOf(u, k, i + 1) = b + (IF i + 1 < k THEN 128 ELSE 0)
    BY <1>5 DEF ByteOf
  <2> HIDE DEF b
  <2>2. /\ (b + (IF i + 1 < k THEN 128 ELSE 0)) % 128 = b
        /\ b + (IF i + 1 < k THEN 128 ELSE 0) < 128 <=> i + 1 = k
    BY <1>1, <2>1
  <2> QED BY <2>1, <2>2 DEF b
<1>7. (Low(u, i) + Group(u, i + 1) * 2^(7 * i)) % 2^W = Low(u, i + 1)
  <2> DEFINE g == G(i)
             q == Above(u, i)
             p == Above(u, i + 1)
             b == Group(u, i + 1)
  <2>1. g \in Nat \ {0} /\ G(i + 1) = 128 * g
    BY <1>1, GroupsGrow
  <2>2. q \in Nat /\ \E r \in Nat : r < g /\ u = q * g + r
    BY <1>1, <1>4, TopIs
  <2>3. p \in Nat /\ b \in 0..127 /\ q = p * 128 + b
    BY <1>5
  <2>4. 2^(7 * i) = g
    BY DEF G
  <2>5. Low(u, i) = u - q * g /\ Low(u, i + 1) = u - p * (128 * g)
    BY <2>1 DEF Low
  <2>6. Low(u, i) = u - q * g /\ Low(u, i + 1) = u - p * (128 * g)
        /\ Group(u, i + 1) * 2^(7 * i) = b * g
    BY <2>4, <2>5
  <2> HIDE DEF g, q, p, b
  <2>7. q * g = p * (128 * g) + b * g
    <3> DEFINE a == p * 128
    <3>1. a \in Nat /\ b \in Nat /\ g \in Nat /\ q = a + b
      BY <2>1, <2>3
    <3>2. a * g = p * (128 * g)
      BY <2>1, <2>3
    <3>3. (a + b) * g = a * g + b * g
      <4> HIDE DEF a
      <4> QED BY <3>1
    <3>4. q * g = a * g + b * g
      <4> HIDE DEF a
      <4> QED BY <3>1, <3>3
    <3> HIDE DEF a
    <3> QED BY <3>2, <3>4
  <2>8. PICK r \in Nat : r < g /\ u = q * g + r
    BY <2>2
  <2> DEFINE x == q * g
             y == p * (128 * g)
             z == b * g
  <2>9. x = y + z /\ x \in Nat /\ y \in Nat /\ z \in Nat /\ u = x + r
    BY <2>1, <2>2, <2>3, <2>7, <2>8
  <2>10. Low(u, i) = u - x /\ Low(u, i + 1) = u - y /\ Group(u, i + 1) * 2^(7 * i) = z
    BY <2>6
  <2> HIDE DEF x, y, z
  <2> DEFINE w == u - y
  <2>11. (u - x) + z = w /\ w \in Nat /\ w < 2^W /\ 2^W \in Nat \ {0}
    BY <1>4, <2>8, <2>9
  <2>12. w % 2^W = w
    <3> HIDE DEF w
    <3> QED BY <2>11
  <2> QED BY <2>10, <2>11, <2>12
<1>8. Low(u, k) = u
  <2> DEFINE g == G(k)
             q == Above(u, k)
  <2>1. g \in Nat \ {0} /\ u < g
    BY <1>1, GroupsGrow DEF FitsIn
  <2>2. Low(u, k) = u - q * g
    BY DEF Low
  <2>3. q \in Nat /\ \E r \in Nat : r < g /\ u = q * g + r
    BY <1>1, <1>4, TopIs
  <2> HIDE DEF g, q
  <2>4. q = 0
    <3> SUFFICES ASSUME q >= 1 PROVE FALSE
      BY <2>3
    <3>1. PICK r \in Nat : u = q * g + r
      BY <2>3
    <3>2. q * g >= g /\ q * g \in Nat
      BY <2>1, <2>3
    <3> DEFINE x == q * g
    <3>3. u = x + r /\ x >= g /\ x \in Nat
      BY <3>1, <3>2
    <3> HIDE DEF x
    <3> QED BY <1>4, <2>1, <3>3
  <2> QED BY <1>4, <2>1, <2>2, <2>4
<1> QED BY <1>2, <1>3, <1>6, <1>7, <1>8

\* No group carries nothing and leaves everything.
LEMMA LowOfNone ==
    ASSUME NEW u \in Nat
    PROVE  Low(u, 0) = 0 /\ Above(u, 0) = u
<1>1. G(0) = 1 /\ u \div 1 = u
  BY GroupsGrow
<1>2. Above(u, 0) = u
  <2> DEFINE g == G(0)
  <2>1. g = 1
    BY <1>1
  <2> HIDE DEF g
  <2>2. u \div g = u
    BY <1>1, <2>1
  <2> QED BY <2>2 DEF Above, g
<1>3. Low(u, 0) = u - u * 1
  BY <1>1, <1>2 DEF Low
<1> QED BY <1>2, <1>3

\* The sums of the groups from byte p to each byte up to n.
Added(W, b, p, i) == (b[i] % 128) * 2^((7 * (i - p - 1)) % W)

SumsTo(W, f, b, p, n) ==
    f = [i \in p..n |-> IF i = p THEN 0 ELSE (f[i - 1] + Added(W, b, p, i)) % 2^W]

\* There are such sums up to every byte.
LEMMA SumsExist ==
    ASSUME NEW W, NEW b, NEW p \in Nat
    PROVE  \A n \in Nat : \E f : SumsTo(W, f, b, p, p + n)
<1> DEFINE B == {n \in Nat : \E f : SumsTo(W, f, b, p, p + n)}
<1>1. 0 \in B
  <2>1. SumsTo(W, [i \in p..p |-> 0], b, p, p)
    BY DEF SumsTo
  <2>2. p + 0 = p
    OBVIOUS
  <2> QED BY <2>1, <2>2
<1>2. ASSUME NEW n \in Nat, n \in B PROVE n + 1 \in B
  <2> DEFINE m == p + n
  <2>1. PICK f : SumsTo(W, f, b, p, m)
    BY <1>2
  <2>2. m \in Nat /\ p <= m /\ p + (n + 1) = m + 1
    OBVIOUS
  <2> HIDE DEF m
  <2> DEFINE g == [i \in p..(m + 1) |->
                      IF i <= m THEN f[i] ELSE (f[m] + Added(W, b, p, i)) % 2^W]
  <2>3. \A i \in p..m : f[i] = IF i = p THEN 0 ELSE (f[i - 1] + Added(W, b, p, i)) % 2^W
    BY <2>1 DEF SumsTo
  <2>4. /\ g[m + 1] = (f[m] + Added(W, b, p, m + 1)) % 2^W
        /\ \A i \in p..m : g[i] = f[i]
        /\ g = [i \in p..(m + 1) |-> g[i]]
    BY <2>2
  <2> HIDE DEF g
  <2>5. ASSUME NEW i \in p..(m + 1)
        PROVE  g[i] = IF i = p THEN 0 ELSE (g[i - 1] + Added(W, b, p, i)) % 2^W
    <3>1. CASE i = m + 1
      <4>1. i - 1 = m /\ m \in p..m /\ i # p
        BY <2>2, <3>1
      <4>2. g[i - 1] = f[m]
        BY <2>4, <4>1
      <4> QED BY <2>4, <3>1, <4>1, <4>2
    <3>2. CASE i \in p..m /\ i # p
      <4>1. i - 1 \in p..m
        BY <2>2, <3>2
      <4> QED BY <2>3, <2>4, <3>2, <4>1
    <3>3. CASE i = p
      <4>1. p \in p..m
        BY <2>2
      <4> QED BY <2>3, <2>4, <3>3, <4>1
    <3> QED BY <2>2, <3>1, <3>2, <3>3
  <2>6. SumsTo(W, g, b, p, m + 1)
    BY <2>4, <2>5 DEF SumsTo
  <2> QED BY <2>2, <2>6
<1> HIDE DEF B
<1>3. Nat \subseteq B
  BY <1>1, <1>2, SetInduction
<1> QED BY <1>3 DEF B

\* Every number of W bits has groups.
LEMMA FitsExists ==
    ASSUME NEW W \in Nat \ {0}, NEW u \in Nat, u < 2^W
    PROVE  \E k : FitsIn(W, u, k)
<1> DEFINE S == {k \in Nat : k > 0 /\ u < G(k)}
           k == Min(S)
<1>1. RoomFor(W) \in Nat \ {0} /\ 2^W <= G(RoomFor(W)) /\ 2^W \in Nat /\ G(RoomFor(W)) \in Nat
  BY RoomIs, GroupsGrow
<1>2. RoomFor(W) \in S
  BY <1>1
<1>3. k \in S /\ \A x \in S : k <= x
  <2>1. S \in SUBSET Nat /\ S # {}
    BY <1>2
  <2> HIDE DEF S
  <2> QED BY <2>1, MinIs
<1>4. k \in Nat /\ k > 0 /\ u < G(k) /\ k <= RoomFor(W)
  BY <1>2, <1>3
<1>5. k > 1 => u >= G(k - 1)
  <2> SUFFICES ASSUME k > 1, ~(u >= G(k - 1)) PROVE FALSE
    OBVIOUS
  <2>1. k - 1 \in Nat /\ k - 1 > 0 /\ ~(k <= k - 1)
    BY <1>4
  <2> HIDE DEF k
  <2>2. G(k - 1) \in Nat
    BY <2>1, GroupsGrow
  <2>3. k - 1 \in S
    BY <2>1, <2>2
  <2> QED BY <1>3, <2>1, <2>3
<1> HIDE DEF k, S
<1>6. FitsIn(W, u, k)
  BY <1>1, <1>4, <1>5 DEF FitsIn
<1> QED BY <1>6

\* What was written in k groups sums up to the number.
LEMMA SumOfBytes ==
    ASSUME NEW W \in Nat \ {0}, NEW u \in Nat, u < 2^W, NEW k, FitsIn(W, u, k),
           NEW f, SumsTo(W, f, [i \in 1..k |-> ByteOf(u, k, i)], 0, k)
    PROVE  f[k] = u
<1> DEFINE b == [i \in 1..k |-> ByteOf(u, k, i)]
           B == {i \in Nat : i <= k => f[i] = Low(u, i)}
<1>1. k \in Nat /\ k > 0
  BY RoomIs DEF FitsIn
<1>2. 0 \in B
  <2>1. 0 \in 0..k
    BY <1>1
  <2>2. f[0] = 0
    BY <2>1 DEF SumsTo
  <2> QED BY <2>2, LowOfNone
<1>3. ASSUME NEW i \in Nat, i \in B PROVE i + 1 \in B
  <2> SUFFICES ASSUME i + 1 <= k PROVE f[i + 1] = Low(u, i + 1)
    OBVIOUS
  <2>1. i \in 0..(k - 1) /\ i + 1 \in 0..k /\ i + 1 # 0 /\ (i + 1) - 1 = i /\ i + 1 \in 1..k
        /\ (i + 1) - 0 - 1 = i
    BY <1>1
  <2>2. f[i] = Low(u, i)
    BY <1>1, <1>3
  <2>3. f[i + 1] = (f[(i + 1) - 1] + Added(W, b, 0, i + 1)) % 2^W
    BY <2>1 DEF SumsTo
  <2>4. Added(W, b, 0, i + 1) = Group(u, i + 1) * 2^(7 * i)
    <3>1. b[i + 1] = ByteOf(u, k, i + 1)
      BY <2>1
    <3>2. (7 * i) % W = 7 * i /\ ByteOf(u, k, i + 1) % 128 = Group(u, i + 1)
      BY <2>1, ReadsGroup
    <3> HIDE DEF b
    <3> QED BY <2>1, <3>1, <3>2 DEF Added
  <2> QED BY <2>1, <2>2, <2>3, <2>4, ReadsGroup
<1> HIDE DEF B
<1>4. Nat \subseteq B
  BY <1>2, <1>3, SetInduction
<1>5. f[k] = Low(u, k)
  BY <1>1, <1>4 DEF B
<1>6. Low(u, k) = u
  <2>1. 0 \in 0..(k - 1)
    BY <1>1
  <2> QED BY <2>1, ReadsGroup
<1> QED BY <1>5, <1>6
=============================================================================
