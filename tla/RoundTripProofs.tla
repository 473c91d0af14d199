--------------------------- MODULE RoundTripProofs ---------------------------
(***************************************************************************)
(* What encode wrote is read back: the bytes of a varint, of a payload and *)
(* of an array are found again wherever they stand in a buffer; a slice    *)
(* that was cut holds the same values, or the first part of one; and so a  *)
(* message that was encoded, whole or cut, decodes without a panic to one  *)
(* that encodes to the same bytes.                                         *)
(***************************************************************************)
EXTENDS RoundTrip, DecodeProofs, BasicLemmas

-----------------------------------------------------------------------------
(* The same bytes in another place *)

\* The slice (p, hi] of b holds the bytes with which the slice (q, e] of c begins.
Alike(b, p, hi, c, q, e) ==
    /\ p \in Nat /\ hi \in Nat /\ q \in Nat /\ e \in Nat /\ p <= hi
    /\ hi - p <= e - q
    /\ \A i \in 1..(hi - p) : b[p + i] = c[q + i]

\* A varint ends in both or is cut in the shorter one.
LEMMA EndsAlike ==
    ASSUME NEW b, NEW p, NEW hi, NEW c, NEW q, NEW e, Alike(b, p, hi, c, q, e), NEW n \in Nat
    PROVE  p + n \in VarintEnds(b, p, hi) <=> n <= hi - p /\ q + n \in VarintEnds(c, q, e)
<1>1. p \in Nat /\ hi \in Nat /\ q \in Nat /\ e \in Nat /\ p <= hi /\ hi - p <= e - q
  BY DEF Alike
<1>2. \A i \in 1..(hi - p) : Continues(b, p + i) <=> Continues(c, q + i)
  BY DEF Alike, Continues
<1>3. p + n \in VarintEnds(b, p, hi)
        <=> n \in 1..(hi - p) /\ ~Continues(b, p + n) /\ \A i \in 1..(n - 1) : Continues(b, p + i)
  <2>1. (\A m \in (p + 1)..(p + n - 1) : Continues(b, m)) <=> \A i \in 1..(n - 1) : Continues(b, p + i)
    <3>1. \A m \in (p + 1)..(p + n - 1) : m - p \in 1..(n - 1) /\ p + (m - p) = m
      BY <1>1
    <3>2. \A i \in 1..(n - 1) : p + i \in (p + 1)..(p + n - 1)
      BY <1>1
    <3> QED BY <3>1, <3>2
  <2>2. p + n \in (p + 1)..hi <=> n \in 1..(hi - p)
    BY <1>1
  <2>3. p + n - 1 = (p + n) - 1
    BY <1>1
  <2> QED BY <2>1, <2>2, <2>3 DEF VarintEnds
<1>4. q + n \in VarintEnds(c, q, e)
        <=> n \in 1..(e - q) /\ ~Continues(c, q + n) /\ \A i \in 1..(n - 1) : Continues(c, q + i)
  <2>1. (\A m \in (q + 1)..(q + n - 1) : Continues(c, m)) <=> \A i \in 1..(n - 1) : Continues(c, q + i)
    <3>1. \A m \in (q + 1)..(q + n - 1) : m - q \in 1..(n - 1) /\ q + (m - q) = m
      BY <1>1
    <3>2. \A i \in 1..(n - 1) : q + i \in (q + 1)..(q + n - 1)
      BY <1>1
    <3> QED BY <3>1, <3>2
  <2>2. q + n \in (q + 1)..e <=> n \in 1..(e - q)
    BY <1>1
  <2>3. q + n - 1 = (q + n) - 1
    BY <1>1
  <2> QED BY <2>1, <2>2, <2>3 DEF VarintEnds
<1>5. n <= hi - p => (n \in 1..(hi - p) <=> n \in 1..(e - q))
                       /\ \A i \in 1..(n - 1) : i \in 1..(hi - p)
  BY <1>1
<1>6. n \in 1..(hi - p) => n <= hi - p
  BY <1>1
<1> HIDE DEF Continues
<1> QED BY <1>2, <1>3, <1>4, <1>5, <1>6

\* What is read up to there is the same number.
LEMMA ValueIs ==
    ASSUME NEW b, NEW p \in Nat, NEW n \in Nat
    PROVE  \E f : SumsTo(Width64, f, b, p, p + n) /\ VarintValue(b, p, p + n) = f[p + n]
<1> DEFINE f == CHOOSE f : SumsTo(Width64, f, b, p, p + n)
<1>1. SumsTo(Width64, f, b, p, p + n)
  BY SumsExist
<1>2. VarintValue(b, p, p + n) = f[p + n]
  BY DEF VarintValue, SumsTo, Added, M64
<1> HIDE DEF f
<1> QED BY <1>1, <1>2

LEMMA SumStep ==
    ASSUME NEW f, NEW b, NEW p, NEW n, SumsTo(Width64, f, b, p, n), NEW i \in p..n, i # p
    PROVE  f[i] = (f[i - 1] + Added(Width64, b, p, i)) % 2^Width64
BY DEF SumsTo

LEMMA ValueAlike ==
    ASSUME NEW b, NEW p, NEW hi, NEW c, NEW q, NEW e, Alike(b, p, hi, c, q, e),
           NEW n \in Nat, n <= hi - p
    PROVE  VarintValue(b, p, p + n) = VarintValue(c, q, q + n)
<1>1. p \in Nat /\ hi \in Nat /\ q \in Nat
  BY DEF Alike
<1>2. PICK f : SumsTo(Width64, f, b, p, p + n) /\ VarintValue(b, p, p + n) = f[p + n]
  BY <1>1, ValueIs
<1>3. PICK g : SumsTo(Width64, g, c, q, q + n) /\ VarintValue(c, q, q + n) = g[q + n]
  BY <1>1, ValueIs
<1> DEFINE S == {i \in Nat : i <= n => f[p + i] = g[q + i]}
<1>4. 0 \in S
  <2>1. p \in p..(p + n) /\ q \in q..(q + n) /\ p + 0 = p /\ q + 0 = q
    BY <1>1
  <2>2. f[p] = 0 /\ g[q] = 0
    BY <1>2, <1>3, <2>1 DEF SumsTo
  <2> QED BY <2>1, <2>2
<1>5. ASSUME NEW i \in Nat, i \in S PROVE i + 1 \in S
  <2> SUFFICES ASSUME i + 1 <= n PROVE f[p + (i + 1)] = g[q + (i + 1)]
    OBVIOUS
  <2>1. f[p + i] = g[q + i]
    BY <1>5
  <2> DEFINE u == p + (i + 1)
             v == q + (i + 1)
  <2>2. /\ u \in p..(p + n) /\ u # p /\ u - 1 = p + i /\ (u - p) - 1 = i
        /\ v \in q..(q + n) /\ v # q /\ v - 1 = q + i /\ (v - q) - 1 = i
    BY <1>1
  <2>3. b[u] = c[v]
    <3>1. i + 1 \in 1..(hi - p)
      BY <1>1
    <3> QED BY <3>1 DEF Alike
  <2> HIDE DEF u, v
  <2>4. f[u] = (f[u - 1] + Added(Width64, b, p, u)) % 2^Width64
    BY <1>2, <2>2, SumStep
  <2>5. g[v] = (g[v - 1] + Added(Width64, c, q, v)) % 2^Width64
    BY <1>3, <2>2, SumStep
  <2>6. Added(Width64, b, p, u) = Added(Width64, c, q, v)
    BY <2>2, <2>3, Zenon DEF Added
  <2>7. f[u] = g[v]
    BY <2>1, <2>2, <2>4, <2>5, <2>6
  <2> QED BY <2>7 DEF u, v
<1> HIDE DEF S
<1>6. Nat \subseteq S
  BY <1>4, <1>5, SetInduction
<1>7. f[p + n] = g[q + n]
  BY <1>6 DEF S
<1> QED BY <1>2, <1>3, <1>7

\* A shift that overflows does so in the longer slice.
LEMMA OverflowAlike ==
    ASSUME NEW b, NEW p, NEW hi, NEW c, NEW q, NEW e, Alike(b, p, hi, c, q, e),
           ShiftOverflows(b, p, hi)
    PROVE  ShiftOverflows(c, q, e)
<1>1. p \in Nat /\ hi \in Nat /\ q \in Nat /\ e \in Nat /\ hi - p <= e - q
  BY DEF Alike
<1>2. MaxGroups \in Nat
  BY WireAssumption DEF MaxGroups
<1>3. OverflowChecks /\ p + MaxGroups < hi
      /\ \A m \in (p + 1)..(p + MaxGroups) : Continues(b, m)
  BY DEF ShiftOverflows
<1>4. q + MaxGroups < e
  BY <1>1, <1>2, <1>3
<1>5. ASSUME NEW m \in (q + 1)..(q + MaxGroups) PROVE Continues(c, m)
  <2> DEFINE i == m - q
  <2>1. i \in 1..(hi - p) /\ p + i \in (p + 1)..(p + MaxGroups) /\ q + i = m
    BY <1>1, <1>2, <1>3
  <2> HIDE DEF i
  <2>2. b[p + i] = c[m]
    BY <2>1 DEF Alike
  <2> QED BY <1>3, <2>1, <2>2 DEF Continues
<1> QED BY <1>3, <1>4, <1>5 DEF ShiftOverflows

\* A varint that is read in one is read in the other, unless it is cut.
LEMMA ReadsAlike ==
    ASSUME NEW b, NEW p, NEW hi, NEW c, NEW q, NEW e, Alike(b, p, hi, c, q, e),
           ~ShiftOverflows(c, q, e), NEW T, NEW n \in Nat, NEW v
    PROVE  <<p + n, v>> \in VarintReads(b, p, hi, T)
             <=> n <= hi - p /\ <<q + n, v>> \in VarintReads(c, q, e, T)
<1>1. ~ShiftOverflows(b, p, hi)
  BY OverflowAlike
<1>2. <<p + n, v>> \in VarintReads(b, p, hi, T)
        <=> p + n \in VarintEnds(b, p, hi) /\ v = VarintValue(b, p, p + n) /\ v \in T
  BY <1>1 DEF VarintReads
<1>3. <<q + n, v>> \in VarintReads(c, q, e, T)
        <=> q + n \in VarintEnds(c, q, e) /\ v = VarintValue(c, q, q + n) /\ v \in T
  BY DEF VarintReads
<1> QED BY <1>2, <1>3, EndsAlike, ValueAlike

\* The offsets of a slice, counted from its beginning.
LEMMA EndIs ==
    ASSUME NEW b, NEW p \in Nat, NEW e \in Nat, NEW m \in VarintEnds(b, p, e)
    PROVE  m \in Nat /\ p < m /\ m <= e /\ m - p \in Nat /\ p + (m - p) = m
BY DEF VarintEnds

LEMMA PanicsAlike ==
    ASSUME NEW b, NEW p, NEW hi, NEW c, NEW q, NEW e, Alike(b, p, hi, c, q, e), NEW T,
           VarintPanics(b, p, hi, T)
    PROVE  VarintPanics(c, q, e, T)
<1>1. CASE ShiftOverflows(b, p, hi)
  BY <1>1, OverflowAlike DEF VarintPanics
<1>2. CASE ~ShiftOverflows(b, p, hi)
  <2>1. PICK m \in VarintEnds(b, p, hi) : VarintValue(b, p, m) \notin T
    BY <1>2 DEF VarintPanics
  <2>2. p \in Nat /\ hi \in Nat
    BY DEF Alike
  <2> DEFINE n == m - p
  <2>3. n \in Nat /\ p + n = m /\ n <= hi - p
    BY <2>2, EndIs
  <2> HIDE DEF n
  <2>4. q + n \in VarintEnds(c, q, e) /\ VarintValue(c, q, q + n) \notin T
    BY <2>1, <2>3, EndsAlike, ValueAlike
  <2> QED BY <2>4 DEF VarintPanics
<1> QED BY <1>1, <1>2

LEMMA PayloadIs ==
    ASSUME NEW b, NEW p \in Nat, NEW e \in Nat, NEW x \in Nat, NEW y
    PROVE  <<x, y>> \in Payloads(b, p, e)
             <=> y - x \in Nat /\ y \in Nat /\ y <= e /\ <<x, y - x>> \in VarintReads(b, p, e, U64)
<1>1. ASSUME <<x, y>> \in Payloads(b, p, e)
      PROVE  y - x \in Nat /\ y \in Nat /\ y <= e /\ <<x, y - x>> \in VarintReads(b, p, e, U64)
  <2>1. PICK r \in VarintReads(b, p, e, U64) : <<x, y>> = <<r[1], r[1] + r[2]>> /\ r[1] + r[2] <= e
    BY <1>1 DEF Payloads
  <2>2. r[1] \in Nat /\ r[2] \in Nat /\ r = <<r[1], r[2]>>
    BY <2>1, VarintReadsBounds DEF U64, VarintReads
  <2>3. r[1] = x /\ r[2] = y - x
    BY <2>1, <2>2
  <2> QED BY <2>1, <2>2, <2>3
<1>2. ASSUME y - x \in Nat, y \in Nat, y <= e, <<x, y - x>> \in VarintReads(b, p, e, U64)
      PROVE  <<x, y>> \in Payloads(b, p, e)
  <2> DEFINE r == <<x, y - x>>
  <2>1. r \in VarintReads(b, p, e, U64) /\ r[1] = x /\ r[1] + r[2] = y
    BY <1>2
  <2> HIDE DEF r
  <2> QED BY <1>2, <2>1 DEF Payloads
<1> QED BY <1>1, <1>2

\* So is a payload.
LEMMA PayloadsAlike ==
    ASSUME NEW b, NEW p, NEW hi, NEW c, NEW q, NEW e, Alike(b, p, hi, c, q, e),
           ~ShiftOverflows(c, q, e), NEW x \in Nat, NEW y \in Nat
    PROVE  <<p + x, p + y>> \in Payloads(b, p, hi)
             <=> y <= hi - p /\ <<q + x, q + y>> \in Payloads(c, q, e)
<1>1. p \in Nat /\ hi \in Nat /\ q \in Nat /\ e \in Nat /\ p <= hi /\ hi - p <= e - q
  BY DEF Alike
<1>2. /\ p + x \in Nat /\ p + y \in Nat /\ q + x \in Nat /\ q + y \in Nat
      /\ (p + y) - (p + x) = y - x /\ (q + y) - (q + x) = y - x
      /\ p + y <= hi <=> y <= hi - p
      /\ y <= hi - p => q + y <= e
      /\ y - x \in Nat /\ y <= hi - p => x <= hi - p
  BY <1>1
<1>3. <<p + x, p + y>> \in Payloads(b, p, hi)
        <=> y - x \in Nat /\ y <= hi - p /\ <<p + x, y - x>> \in VarintReads(b, p, hi, U64)
  BY <1>1, <1>2, PayloadIs
<1>4. <<q + x, q + y>> \in Payloads(c, q, e)
        <=> y - x \in Nat /\ q + y <= e /\ <<q + x, y - x>> \in VarintReads(c, q, e, U64)
  BY <1>1, <1>2, PayloadIs
<1>5. <<p + x, y - x>> \in VarintReads(b, p, hi, U64)
        <=> x <= hi - p /\ <<q + x, y - x>> \in VarintReads(c, q, e, U64)
  BY ReadsAlike
<1> QED BY <1>2, <1>3, <1>4, <1>5

\* A payload by what lies between its slice and it.
LEMMA PayloadFrom ==
    ASSUME NEW b, NEW p \in Nat, NEW e \in Nat, NEW r \in Payloads(b, p, e)
    PROVE  \E x, y \in Nat : x <= y /\ r = <<p + x, p + y>> /\ p + y <= e /\ x > 0
<1>1. r[1] \in Nat /\ p < r[1] /\ r[2] \in Nat /\ r[1] <= r[2] /\ r[2] <= e
  BY PayloadsBounds
<1>2. r = <<r[1], r[2]>>
  BY DEF Payloads
<1> DEFINE x == r[1] - p
           y == r[2] - p
<1>3. x \in Nat /\ y \in Nat /\ x <= y /\ p + x = r[1] /\ p + y = r[2] /\ x > 0
  BY <1>1
<1> HIDE DEF x, y
<1> QED BY <1>1, <1>2, <1>3

\* So is every payload of the shorter slice.
LEMMA PayloadsOfBoth ==
    ASSUME NEW b, NEW p, NEW hi, NEW c, NEW q, NEW e, Alike(b, p, hi, c, q, e),
           ~ShiftOverflows(c, q, e)
    PROVE  /\ \A r \in Payloads(b, p, hi) : \E x, y \in Nat :
                 /\ x <= y /\ y <= hi - p /\ r = <<p + x, p + y>>
                 /\ <<q + x, q + y>> \in Payloads(c, q, e)
           /\ \A r \in Payloads(c, q, e) : \E x, y \in Nat :
                 /\ x <= y /\ y <= e - q /\ r = <<q + x, q + y>>
                 /\ y <= hi - p <=> <<p + x, p + y>> \in Payloads(b, p, hi)
<1>1. p \in Nat /\ hi \in Nat /\ q \in Nat /\ e \in Nat /\ p <= hi /\ hi - p <= e - q
  BY DEF Alike
<1>2. ASSUME NEW r \in Payloads(b, p, hi)
      PROVE  \E x, y \in Nat : /\ x <= y /\ y <= hi - p /\ r = <<p + x, p + y>>
                               /\ <<q + x, q + y>> \in Payloads(c, q, e)
  <2>1. PICK x \in Nat, y \in Nat : x <= y /\ r = <<p + x, p + y>> /\ p + y <= hi
    BY <1>1, PayloadFrom
  <2>2. <<p + x, p + y>> \in Payloads(b, p, hi)
    BY <2>1
  <2>3. y <= hi - p /\ <<q + x, q + y>> \in Payloads(c, q, e)
    BY <2>2, PayloadsAlike
  <2> QED BY <2>1, <2>3
<1>3. ASSUME NEW r \in Payloads(c, q, e)
      PROVE  \E x, y \in Nat : /\ x <= y /\ y <= e - q /\ r = <<q + x, q + y>>
                               /\ y <= hi - p <=> <<p + x, p + y>> \in Payloads(b, p, hi)
  <2>1. PICK x \in Nat, y \in Nat : x <= y /\ r = <<q + x, q + y>> /\ q + y <= e
    BY <1>1, PayloadFrom
  <2>2. <<q + x, q + y>> \in Payloads(c, q, e)
    BY <2>1
  <2>3. y <= hi - p <=> <<p + x, p + y>> \in Payloads(b, p, hi)
    BY <2>2, PayloadsAlike
  <2>4. y <= e - q
    BY <1>1, <2>1
  <2> QED BY <2>1, <2>3, <2>4
<1> QED BY <1>2, <1>3

\* So is a value of a scalar type, and one of an unknown field.
LEMMA ReadEndsAlike ==
    ASSUME NEW b, NEW p, NEW hi, NEW c, NEW q, NEW e, Alike(b, p, hi, c, q, e),
           ~ShiftOverflows(c, q, e), NEW T, NEW n \in Nat
    PROVE  (\E r \in VarintReads(b, p, hi, T) : p + n = r[1])
             <=> n <= hi - p /\ \E r \in VarintReads(c, q, e, T) : q + n = r[1]
<1>1. (\E r \in VarintReads(b, p, hi, T) : p + n = r[1])
        <=> \E v : <<p + n, v>> \in VarintReads(b, p, hi, T)
  <2>1. \A r \in VarintReads(b, p, hi, T) : r = <<r[1], r[2]>>
    BY DEF VarintReads
  <2> QED BY <2>1
<1>2. (\E r \in VarintReads(c, q, e, T) : q + n = r[1])
        <=> \E v : <<q + n, v>> \in VarintReads(c, q, e, T)
  <2>1. \A r \in VarintReads(c, q, e, T) : r = <<r[1], r[2]>>
    BY DEF VarintReads
  <2> QED BY <2>1
<1>3. \A v : <<p + n, v>> \in VarintReads(b, p, hi, T)
               <=> n <= hi - p /\ <<q + n, v>> \in VarintReads(c, q, e, T)
  BY ReadsAlike
<1> QED BY <1>1, <1>2, <1>3

LEMMA PayloadEndsAlike ==
    ASSUME NEW b, NEW p, NEW hi, NEW c, NEW q, NEW e, Alike(b, p, hi, c, q, e),
           ~ShiftOverflows(c, q, e), NEW n \in Nat
    PROVE  (\E r \in Payloads(b, p, hi) : p + n = r[2])
             <=> n <= hi - p /\ \E r \in Payloads(c, q, e) : q + n = r[2]
<1>1. p \in Nat /\ hi \in Nat /\ q \in Nat /\ e \in Nat
  BY DEF Alike
<1>2. ASSUME NEW r \in Payloads(b, p, hi), p + n = r[2]
      PROVE  n <= hi - p /\ \E s \in Payloads(c, q, e) : q + n = s[2]
  <2>1. PICK x \in Nat, y \in Nat : /\ y <= hi - p /\ r = <<p + x, p + y>>
                                    /\ <<q + x, q + y>> \in Payloads(c, q, e)
    BY PayloadsOfBoth
  <2>2. n = y
    BY <1>1, <1>2, <2>1
  <2> QED BY <2>1, <2>2
<1>3. ASSUME n <= hi - p, NEW r \in Payloads(c, q, e), q + n = r[2]
      PROVE  \E s \in Payloads(b, p, hi) : p + n = s[2]
  <2>1. PICK x \in Nat, y \in Nat : /\ r = <<q + x, q + y>>
                                    /\ y <= hi - p <=> <<p + x, p + y>> \in Payloads(b, p, hi)
    BY PayloadsOfBoth
  <2>2. n = y
    BY <1>1, <1>3, <2>1
  <2> QED BY <1>3, <2>1, <2>2
<1> QED BY <1>2, <1>3

LEMMA ScalarEndsAlike ==
    ASSUME NEW b, NEW p, NEW hi, NEW c, NEW q, NEW e, Alike(b, p, hi, c, q, e),
           NEW vt \in ScalarTypes, ~ScalarPanics(vt, c, q, e), NEW n \in Nat
    PROVE  p + n \in ScalarEnds(vt, b, p, hi) <=> n <= hi - p /\ q + n \in ScalarEnds(vt, c, q, e)
<1>1. p \in Nat /\ hi \in Nat /\ q \in Nat /\ e \in Nat /\ p <= hi /\ hi - p <= e - q
  BY DEF Alike
<1>2. /\ p + n \in p..hi <=> n <= hi - p
      /\ n <= hi - p => q + n \in q..e
      /\ \A k : p + n = p + k /\ k \in Nat <=> n = k
      /\ \A k : q + n = q + k /\ k \in Nat <=> n = k
  BY <1>1
<1>3. CASE vt \in VarintTypes
  <2>1. ~ShiftOverflows(c, q, e)
    BY <1>3 DEF ScalarPanics, VarintPanics
  <2>2. vt \notin Fixed64Types /\ vt \notin Fixed32Types /\ vt \notin BlobTypes
    BY <1>3 DEF VarintTypes, Fixed64Types, Fixed32Types, BlobTypes
  <2>3. p + n \in ScalarEnds(vt, b, p, hi)
          <=> p + n \in p..hi /\ \E r \in VarintReads(b, p, hi, Accepts(vt)) : p + n = r[1]
    BY <1>3, <2>2 DEF ScalarEnds
  <2>4. q + n \in ScalarEnds(vt, c, q, e)
          <=> q + n \in q..e /\ \E r \in VarintReads(c, q, e, Accepts(vt)) : q + n = r[1]
    BY <1>3, <2>2 DEF ScalarEnds
  <2>5. (\E r \in VarintReads(b, p, hi, Accepts(vt)) : p + n = r[1])
          <=> n <= hi - p /\ \E r \in VarintReads(c, q, e, Accepts(vt)) : q + n = r[1]
    BY <2>1, ReadEndsAlike
  <2> QED BY <1>2, <2>3, <2>4, <2>5
<1>4. CASE vt \in BlobTypes
  <2>1. ~ShiftOverflows(c, q, e)
    BY <1>4 DEF ScalarPanics, VarintPanics, BlobTypes, VarintTypes
  <2>2. vt \notin Fixed64Types /\ vt \notin Fixed32Types /\ vt \notin VarintTypes
    BY <1>4 DEF VarintTypes, Fixed64Types, Fixed32Types, BlobTypes
  <2>3. p + n \in ScalarEnds(vt, b, p, hi)
          <=> p + n \in p..hi /\ \E r \in Payloads(b, p, hi) : p + n = r[2]
    BY <1>4, <2>2 DEF ScalarEnds
  <2>4. q + n \in ScalarEnds(vt, c, q, e)
          <=> q + n \in q..e /\ \E r \in Payloads(c, q, e) : q + n = r[2]
    BY <1>4, <2>2 DEF ScalarEnds
  <2> QED BY <1>2, <2>1, <2>3, <2>4, PayloadEndsAlike
<1>5. CASE vt \in Fixed64Types \cup Fixed32Types
  <2>1. vt \notin BlobTypes /\ vt \notin VarintTypes /\ Size64 \in Nat /\ Size32 \in Nat
    BY <1>5, WireAssumption DEF VarintTypes, Fixed64Types, Fixed32Types, BlobTypes
  <2>2. p + n \in ScalarEnds(vt, b, p, hi)
          <=> p + n \in p..hi /\ (\/ vt \in Fixed64Types /\ p + n = p + Size64
                                  \/ vt \in Fixed32Types /\ p + n = p + Size32)
    BY <2>1 DEF ScalarEnds
  <2>3. q + n \in ScalarEnds(vt, c, q, e)
          <=> q + n \in q..e /\ (\/ vt \in Fixed64Types /\ q + n = q + Size64
                                 \/ vt \in Fixed32Types /\ q + n = q + Size32)
    BY <2>1 DEF ScalarEnds
  <2> QED BY <1>2, <2>1, <2>2, <2>3
<1> QED BY <1>3, <1>4, <1>5 DEF ScalarTypes

LEMMA ScalarPanicsAlike ==
    ASSUME NEW b, NEW p, NEW hi, NEW c, NEW q, NEW e, Alike(b, p, hi, c, q, e),
           NEW vt \in ScalarTypes, ScalarPanics(vt, b, p, hi)
    PROVE  ScalarPanics(vt, c, q, e)
BY PanicsAlike DEF ScalarPanics, VarintTypes, BlobTypes, ScalarTypes

LEMMA UnknownEndsAlike ==
    ASSUME NEW b, NEW p, NEW hi, NEW c, NEW q, NEW e, Alike(b, p, hi, c, q, e),
           NEW w \in {0, 1, 2, 5}, ~UnknownPanics(w, c, q, e), NEW n \in Nat
    PROVE  p + n \in UnknownEnds(w, b, p, hi) <=> n <= hi - p /\ q + n \in UnknownEnds(w, c, q, e)
<1>1. p \in Nat /\ hi \in Nat /\ q \in Nat /\ e \in Nat /\ p <= hi /\ hi - p <= e - q
  BY DEF Alike
<1>2. /\ p + n \in p..hi <=> n <= hi - p
      /\ n <= hi - p => q + n \in q..e
      /\ \A k : p + n = p + k /\ k \in Nat <=> n = k
      /\ \A k : q + n = q + k /\ k \in Nat <=> n = k
  BY <1>1
<1>3. CASE w = 0
  <2>1. ~ShiftOverflows(c, q, e)
    BY <1>3 DEF UnknownPanics, VarintPanics
  <2>2. p + n \in UnknownEnds(w, b, p, hi)
          <=> p + n \in p..hi /\ \E r \in VarintReads(b, p, hi, U64) : p + n = r[1]
    BY <1>3 DEF UnknownEnds
  <2>3. q + n \in UnknownEnds(w, c, q, e)
          <=> q + n \in q..e /\ \E r \in VarintReads(c, q, e, U64) : q + n = r[1]
    BY <1>3 DEF UnknownEnds
  <2>4. (\E r \in VarintReads(b, p, hi, U64) : p + n = r[1])
          <=> n <= hi - p /\ \E r \in VarintReads(c, q, e, U64) : q + n = r[1]
    BY <2>1, ReadEndsAlike
  <2> QED BY <1>2, <2>2, <2>3, <2>4
<1>4. CASE w = 2
  <2>1. ~ShiftOverflows(c, q, e)
    BY <1>4 DEF UnknownPanics, VarintPanics
  <2>2. p + n \in UnknownEnds(w, b, p, hi)
          <=> p + n \in p..hi /\ \E r \in Payloads(b, p, hi) : p + n = r[2]
    BY <1>4 DEF UnknownEnds
  <2>3. q + n \in UnknownEnds(w, c, q, e)
          <=> q + n \in q..e /\ \E r \in Payloads(c, q, e) : q + n = r[2]
    BY <1>4 DEF UnknownEnds
  <2> QED BY <1>2, <2>1, <2>2, <2>3, PayloadEndsAlike
<1>5. CASE w = 1
  <2>1. Size64 \in Nat
    BY WireAssumption
  <2>2. p + n \in UnknownEnds(w, b, p, hi) <=> p + n \in p..hi /\ p + n = p + Size64
    BY <1>5 DEF UnknownEnds
  <2>3. q + n \in UnknownEnds(w, c, q, e) <=> q + n \in q..e /\ q + n = q + Size64
    BY <1>5 DEF UnknownEnds
  <2> QED BY <1>2, <2>1, <2>2, <2>3
<1>6. CASE w = 5
  <2>1. Size32 \in Nat
    BY WireAssumption
  <2>2. p + n \in UnknownEnds(w, b, p, hi) <=> p + n \in p..hi /\ p + n = p + Size32
    BY <1>6 DEF UnknownEnds
  <2>3. q + n \in UnknownEnds(w, c, q, e) <=> q + n \in q..e /\ q + n = q + Size32
    BY <1>6 DEF UnknownEnds
  <2> QED BY <1>2, <2>1, <2>2, <2>3
<1> QED BY <1>3, <1>4, <1>5, <1>6

LEMMA UnknownPanicsAlike ==
    ASSUME NEW b, NEW p, NEW hi, NEW c, NEW q, NEW e, Alike(b, p, hi, c, q, e),
           NEW w, UnknownPanics(w, b, p, hi)
    PROVE  UnknownPanics(w, c, q, e)
BY PanicsAlike DEF UnknownPanics

\* A slice behind the beginning of both.
LEMMA FartherAlike ==
    ASSUME NEW b, NEW p, NEW hi, NEW c, NEW q, NEW e, Alike(b, p, hi, c, q, e),
           NEW n \in Nat, NEW m \in Nat, n <= m, m <= hi - p
    PROVE  /\ Alike(b, p + n, hi, c, q + n, e)
           /\ Alike(b, p + n, p + m, c, q + n, q + m)
<1>1. p \in Nat /\ hi \in Nat /\ q \in Nat /\ e \in Nat /\ p <= hi /\ hi - p <= e - q
  BY DEF Alike
<1>2. ASSUME NEW i \in 1..(hi - (p + n)) PROVE b[(p + n) + i] = c[(q + n) + i]
  <2>1. n + i \in 1..(hi - p) /\ p + (n + i) = (p + n) + i /\ q + (n + i) = (q + n) + i
    BY <1>1
  <2>2. b[p + (n + i)] = c[q + (n + i)]
    BY <2>1 DEF Alike
  <2> QED BY <2>1, <2>2
<1>3. \A i \in 1..((p + m) - (p + n)) : i \in 1..(hi - (p + n))
  BY <1>1
<1>4. /\ p + n \in Nat /\ q + n \in Nat /\ p + m \in Nat /\ q + m \in Nat
      /\ p + n <= hi /\ hi - (p + n) <= e - (q + n)
      /\ p + n <= p + m /\ (p + m) - (p + n) <= (q + m) - (q + n)
  BY <1>1
<1> QED BY <1>1, <1>2, <1>3, <1>4 DEF Alike

\* An array is whole in both or in none, and reads alike.
LEMMA PackedAlike ==
    ASSUME NEW b, NEW p, NEW hi, NEW c, NEW q, NEW e, Alike(b, p, hi, c, q, e), hi - p = e - q,
           NEW vt
    PROVE  /\ PackedWhole(vt, b, p, hi) <=> PackedWhole(vt, c, q, e)
           /\ PackedPanics(vt, b, p, hi) => PackedPanics(vt, c, q, e)
           /\ \A i \in Nat : p + i \in ElementStarts(b, p, hi) <=> q + i \in ElementStarts(c, q, e)
<1>1. p \in Nat /\ hi \in Nat /\ q \in Nat /\ e \in Nat /\ p <= hi /\ hi - p <= e - q
  BY DEF Alike
<1>2. (hi = p <=> e = q) /\ (hi # p => (Continues(b, hi) <=> Continues(c, e)))
  <2> SUFFICES ASSUME hi # p PROVE b[hi] = c[e]
    BY <1>1 DEF Continues
  <2> DEFINE i == hi - p
  <2>1. i \in 1..(hi - p) /\ p + i = hi /\ q + i = e
    BY <1>1
  <2> HIDE DEF i
  <2> QED BY <2>1 DEF Alike
<1>3. PackedWhole(vt, b, p, hi) <=> PackedWhole(vt, c, q, e)
  BY <1>2 DEF PackedWhole
<1>4. ASSUME NEW i \in Nat
      PROVE  p + i \in ElementStarts(b, p, hi) <=> q + i \in ElementStarts(c, q, e)
  <2>1. p + i \in ElementStarts(b, p, hi) <=> i < hi - p /\ (i = 0 \/ ~Continues(b, p + i))
    BY <1>1 DEF ElementStarts
  <2>2. q + i \in ElementStarts(c, q, e) <=> i < e - q /\ (i = 0 \/ ~Continues(c, q + i))
    BY <1>1 DEF ElementStarts
  <2>3. i < hi - p /\ i # 0 => b[p + i] = c[q + i]
    <3>1. i < hi - p /\ i # 0 => i \in 1..(hi - p)
      BY <1>1
    <3> QED BY <3>1 DEF Alike
  <2>4. i < hi - p /\ i # 0 => (Continues(b, p + i) <=> Continues(c, q + i))
    BY <2>3 DEF Continues
  <2> QED BY <2>1, <2>2, <2>4
<1>5. ASSUME PackedPanics(vt, b, p, hi) PROVE PackedPanics(vt, c, q, e)
  <2>1. CASE vt \notin PackableTypes
    BY <2>1 DEF PackedPanics
  <2>2. CASE vt \in PackableTypes
    <3>1. PICK s \in ElementStarts(b, p, hi) :
             vt \in VarintTypes /\ VarintPanics(b, s, hi, PackedAccepts(vt))
      BY <1>5, <2>2 DEF PackedPanics
    <3> DEFINE i == s - p
    <3>2. i \in Nat /\ p + i = s /\ i < hi - p
      BY <1>1 DEF ElementStarts
    <3> HIDE DEF i
    <3>3. q + i \in ElementStarts(c, q, e)
      BY <1>4, <3>2
    <3>4. i <= i /\ i <= hi - p
      BY <1>1, <3>2
    <3>5. Alike(b, p + i, hi, c, q + i, e)
      BY <3>2, <3>4, FartherAlike
    <3>6. VarintPanics(c, q + i, e, PackedAccepts(vt))
      BY <3>1, <3>2, <3>5, PanicsAlike
    <3> QED BY <3>1, <3>3, <3>6 DEF PackedPanics
  <2> QED BY <2>1, <2>2
<1> QED BY <1>3, <1>4, <1>5

-----------------------------------------------------------------------------
(* A slice that was cut, in its place *)

\* What is read from a slice is read from a longer one that begins with it.
LEMMA ReadsInPlace ==
    ASSUME NEW b, NEW p, NEW hi, NEW c, NEW e, Alike(b, p, hi, c, p, e),
           ~ShiftOverflows(c, p, e)
    PROVE  /\ \A T : VarintReads(b, p, hi, T) \subseteq VarintReads(c, p, e, T)
           /\ Payloads(b, p, hi) \subseteq Payloads(c, p, e)
<1>1. p \in Nat /\ hi \in Nat
  BY DEF Alike
<1>2. ASSUME NEW T, NEW r \in VarintReads(b, p, hi, T) PROVE r \in VarintReads(c, p, e, T)
  <2> DEFINE n == r[1] - p
  <2>1. r[1] \in VarintEnds(b, p, hi) /\ r = <<r[1], r[2]>>
    BY <1>2 DEF VarintReads
  <2>2. n \in Nat /\ p + n = r[1]
    BY <1>1, <2>1, EndIs
  <2> HIDE DEF n
  <2>3. <<p + n, r[2]>> \in VarintReads(b, p, hi, T)
    BY <1>2, <2>1, <2>2
  <2>4. <<p + n, r[2]>> \in VarintReads(c, p, e, T)
    BY <2>2, <2>3, ReadsAlike
  <2> QED BY <2>1, <2>2, <2>4
<1>3. ASSUME NEW r \in Payloads(b, p, hi) PROVE r \in Payloads(c, p, e)
  <2>1. PICK x \in Nat, y \in Nat : r = <<p + x, p + y>> /\ <<p + x, p + y>> \in Payloads(c, p, e)
    BY PayloadsOfBoth
  <2> QED BY <2>1
<1> QED BY <1>2, <1>3

LEMMA ScalarInPlace ==
    ASSUME NEW b, NEW p, NEW hi, NEW c, NEW e, Alike(b, p, hi, c, p, e),
           NEW vt \in ScalarTypes, ~ScalarPanics(vt, c, p, e),
           NEW to \in ScalarEnds(vt, b, p, hi)
    PROVE  to \in ScalarEnds(vt, c, p, e)
<1>1. p \in Nat /\ hi \in Nat
  BY DEF Alike
<1> DEFINE n == to - p
<1>2. n \in Nat /\ p + n = to
  BY <1>1 DEF ScalarEnds
<1> HIDE DEF n
<1> QED BY <1>2, ScalarEndsAlike

LEMMA UnknownInPlace ==
    ASSUME NEW b, NEW p, NEW hi, NEW c, NEW e, Alike(b, p, hi, c, p, e),
           NEW w \in {0, 1, 2, 5}, ~UnknownPanics(w, c, p, e),
           NEW to \in UnknownEnds(w, b, p, hi)
    PROVE  to \in UnknownEnds(w, c, p, e)
<1>1. p \in Nat /\ hi \in Nat
  BY DEF Alike
<1> DEFINE n == to - p
<1>2. n \in Nat /\ p + n = to
  BY <1>1 DEF UnknownEnds
<1> HIDE DEF n
<1> QED BY <1>2, UnknownEndsAlike

\* An array that is there in both.
LEMMA PackedInPlace ==
    ASSUME NEW b, NEW p, NEW hi, NEW c, NEW e, Alike(b, p, hi, c, p, e), NEW vt,
           NEW r \in Payloads(b, p, hi)
    PROVE  /\ PackedWhole(vt, b, r[1], r[2]) <=> PackedWhole(vt, c, r[1], r[2])
           /\ PackedPanics(vt, b, r[1], r[2]) => PackedPanics(vt, c, r[1], r[2])
<1>1. p \in Nat /\ hi \in Nat
  BY DEF Alike
<1>2. PICK x \in Nat, y \in Nat : x <= y /\ r = <<p + x, p + y>> /\ p + y <= hi
  BY <1>1, PayloadFrom
<1>3. y <= hi - p
  BY <1>1, <1>2
<1>4. Alike(b, p + x, p + y, c, p + x, p + y)
  BY <1>2, <1>3, FartherAlike
<1> QED BY <1>2, <1>4, PackedAlike

\* A field of a cut slice is a field of the whole slice, or the cut goes
\* through its value.
LEMMA SameField ==
    ASSUME NEW b, NEW p, NEW hi, NEW c, NEW e, Alike(b, p, hi, c, p, e),
           NEW f \in FieldValue, Found(c, f, e), f.at = p,
           NEW g \in FieldValue, Found(b, g, hi), g.at = p,
           g.origin = f.origin, g.type = f.type, g.wire = f.wire
    PROVE  \/ g.kind = f.kind /\ g.to = f.to
           \/ g.kind \in {"Incomplete", "Invalid"} /\ g.to = hi
<1>1. p \in Nat /\ hi \in Nat /\ e \in Nat
  BY DEF Alike
<1>2. f.kind \in Kinds /\ g.kind \in Kinds /\ f.type \in ValueTypes /\ f.wire \in 0..7
  BY DEF FieldValue
<1>3. CASE g.kind = "Typed"
  <2>1. /\ g.origin = "value" /\ g.type # "Message"
        /\ g.to \in ScalarEnds(g.type, b, p, hi)
    BY <1>3 DEF Found
  <2>2. f.type \in ScalarTypes
    BY <1>2, <2>1 DEF ValueTypes
  <2>3. CASE f.kind = "Typed"
    <3>1. ~ScalarPanics(f.type, c, p, e) /\ f.to \in ScalarEnds(f.type, c, p, e)
      BY <2>3 DEF Found
    <3>2. g.to \in ScalarEnds(f.type, c, p, e)
      BY <2>1, <2>2, <3>1, ScalarInPlace
    <3>3. UnknownEnds(WireTypeOf(f.type), c, p, e) = {f.to}
          /\ UnknownEnds(WireTypeOf(f.type), c, p, e) = {g.to}
      BY <1>1, <2>2, <3>1, <3>2, ScalarEndsAgree
    <3> QED BY <1>3, <2>3, <3>3
  <2>4. CASE f.kind = "Incomplete"
    <3>1. ~ScalarPanics(f.type, c, p, e) /\ ScalarEnds(f.type, c, p, e) = {}
      BY <2>1, <2>4 DEF Found, Short
    <3> QED BY <2>1, <2>2, <3>1, ScalarInPlace
  <2> QED BY <1>2, <2>1, <2>3, <2>4 DEF Found, Kinds
<1>4. CASE g.kind = "Message"
  <2>1. g.origin = "value" /\ g.type = "Message"
    BY <1>4 DEF Found
  <2>2. PICK r \in Payloads(b, p, hi) : r[2] = g.to
    BY <1>4 DEF Found
  <2>3. CASE f.kind = "Message"
    <3>1. PICK s \in Payloads(c, p, e) : s[2] = f.to
      BY <2>3 DEF Found
    <3>2. ~ShiftOverflows(c, p, e)
      BY <3>1 DEF Payloads, VarintReads
    <3>3. r \in Payloads(c, p, e)
      BY <3>2, ReadsInPlace
    <3>4. r = s
      BY <1>1, <3>1, <3>3, OnePayload
    <3> QED BY <1>4, <2>2, <2>3, <3>1, <3>4
  <2>4. CASE f.kind = "Incomplete"
    <3>1. ~VarintPanics(c, p, e, U64) /\ Payloads(c, p, e) = {}
      BY <2>1, <2>4 DEF Found, Short
    <3> QED BY <2>2, <3>1, ReadsInPlace DEF VarintPanics
  <2> QED BY <1>2, <2>1, <2>3, <2>4 DEF Found, Kinds
<1>5. CASE g.kind = "Packed"
  <2>1. g.origin = "packed"
    BY <1>5 DEF Found
  <2>2. PICK r \in Payloads(b, p, hi) : r[2] = g.to /\ PackedWhole(g.type, b, r[1], r[2])
    BY <1>5 DEF Found
  <2>3. CASE f.kind = "Packed"
    <3>1. PICK s \in Payloads(c, p, e) : s[2] = f.to
      BY <2>3 DEF Found
    <3>2. ~ShiftOverflows(c, p, e)
      BY <3>1 DEF Payloads, VarintReads
    <3>3. r \in Payloads(c, p, e)
      BY <3>2, ReadsInPlace
    <3>4. r = s
      BY <1>1, <3>1, <3>3, OnePayload
    <3> QED BY <1>5, <2>2, <2>3, <3>1, <3>4
  <2>4. CASE f.kind = "Incomplete"
    <3>1. /\ ~VarintPanics(c, p, e, U64)
          /\ \/ Payloads(c, p, e) = {}
             \/ \E s \in Payloads(c, p, e) : ~PackedWhole(f.type, c, s[1], s[2])
      BY <2>1, <2>4 DEF Found, Short
    <3>2. r \in Payloads(c, p, e)
      BY <3>1, ReadsInPlace DEF VarintPanics
    <3>3. PICK s \in Payloads(c, p, e) : ~PackedWhole(f.type, c, s[1], s[2])
      BY <3>1, <3>2
    <3>4. r = s
      BY <1>1, <3>2, <3>3, OnePayload
    <3>5. PackedWhole(f.type, c, r[1], r[2])
      BY <2>2, PackedInPlace
    <3> QED BY <3>3, <3>4, <3>5
  <2> QED BY <1>2, <2>1, <2>3, <2>4 DEF Found, Kinds
<1>6. CASE g.kind = "Unknown"
  <2>1. g.origin = "unknown" /\ g.wire \in {0, 1, 2, 5} /\ g.to \in UnknownEnds(g.wire, b, p, hi)
    BY <1>6 DEF Found
  <2>2. CASE f.kind = "Unknown"
    <3>1. ~UnknownPanics(f.wire, c, p, e) /\ f.to \in UnknownEnds(f.wire, c, p, e)
      BY <2>2 DEF Found
    <3>2. g.to \in UnknownEnds(f.wire, c, p, e)
      BY <2>1, <3>1, UnknownInPlace
    <3>3. g.to = f.to
      BY <1>1, <2>1, <3>1, <3>2, OneEnd
    <3> QED BY <1>6, <2>2, <3>3
  <2>3. CASE f.kind = "Incomplete"
    <3>1. ~UnknownPanics(f.wire, c, p, e) /\ UnknownEnds(f.wire, c, p, e) = {}
      BY <2>1, <2>3 DEF Found, Short
    <3> QED BY <2>1, <3>1, UnknownInPlace
  <2> QED BY <1>2, <2>1, <2>2, <2>3 DEF Found, Kinds
<1>7. CASE g.kind = "Invalid"
  <2>1. g.to \in UnknownEnds(g.wire, b, p, hi) /\ g.wire \notin {0, 1, 2, 5}
    BY <1>7 DEF Found
  <2>2. g.to = hi
    BY <2>1 DEF UnknownEnds
  <2> QED BY <1>7, <2>2
<1>8. CASE g.kind = "Incomplete"
  BY <1>8 DEF Found
<1> QED BY <1>2, <1>3, <1>4, <1>5, <1>6, <1>7, <1>8 DEF Kinds

-----------------------------------------------------------------------------
(* Bytes that stand somewhere *)

\* The bytes s stand in c behind offset q.
Sits(c, q, s) == q + Len(s) <= Len(c) /\ \A i \in 1..Len(s) : c[q + i] = s[i]

LEMMA BytesIs ==
    ASSUME NEW S, NEW b \in Seq(S), NEW p \in Nat, NEW n \in Nat, p <= n, n <= Len(b)
    PROVE  /\ Bytes(b, p, n) \in Seq(S) /\ Len(Bytes(b, p, n)) = n - p
           /\ \A i \in 1..(n - p) : Bytes(b, p, n)[i] = b[p + i]
           /\ Sits(b, p, Bytes(b, p, n))
<1> DEFINE s == SubSeq(b, p + 1, n)
<1>1. s \in Seq(S) /\ Len(s) = n - p /\ \A i \in 1..(n - p) : s[i] = b[p + i]
  <2>1. \A i \in (p + 1)..n : i \in 1..Len(b)
    OBVIOUS
  <2>2. \A i \in 1..(n - p) : (p + 1) + i - 1 = p + i
    OBVIOUS
  <2> QED BY <2>1, <2>2
<1>2. Bytes(b, p, n) = s
  BY DEF Bytes
<1> HIDE DEF s
<1>3. p + (n - p) = n
  OBVIOUS
<1> QED BY <1>1, <1>2, <1>3 DEF Sits

\* Sequences with the same elements are the same.
LEMMA SameElements ==
    ASSUME NEW S, NEW s \in Seq(S), NEW t \in Seq(S), Len(t) = Len(s),
           \A i \in 1..Len(s) : t[i] = s[i]
    PROVE  t = s
<1>1. s = [i \in 1..Len(s) |-> s[i]]
  OBVIOUS
<1>2. t = [i \in 1..Len(t) |-> t[i]]
  OBVIOUS
<1> QED BY <1>1, <1>2, Zenon

\* What stands there is what is found there.
LEMMA SitsBytes ==
    ASSUME NEW S, NEW c \in Seq(S), NEW s \in Seq(S), NEW q \in Nat, Sits(c, q, s)
    PROVE  Bytes(c, q, q + Len(s)) = s
<1>1. Len(s) \in Nat /\ q + Len(s) <= Len(c) /\ q + Len(s) \in Nat /\ (q + Len(s)) - q = Len(s)
  BY DEF Sits
<1> DEFINE t == Bytes(c, q, q + Len(s))
<1>2. t \in Seq(S) /\ Len(t) = Len(s) /\ \A i \in 1..Len(s) : t[i] = c[q + i]
  <2> DEFINE n == q + Len(s)
  <2>1. n \in Nat /\ q <= n /\ n <= Len(c) /\ n - q = Len(s) /\ t = Bytes(c, q, n)
    BY <1>1
  <2> HIDE DEF n, t
  <2>2. Bytes(c, q, n) \in Seq(S) /\ Len(Bytes(c, q, n)) = n - q
        /\ \A i \in 1..(n - q) : Bytes(c, q, n)[i] = c[q + i]
    BY <2>1, BytesIs
  <2> QED BY <2>1, <2>2
<1> HIDE DEF t
<1>3. \A i \in 1..Len(s) : t[i] = s[i]
  BY <1>2 DEF Sits
<1>4. t = s
  BY <1>2, <1>3, SameElements
<1> QED BY <1>4 DEF t

LEMMA SitsConcat ==
    ASSUME NEW S, NEW a \in Seq(S), NEW b \in Seq(S), NEW c, NEW q \in Nat, Sits(c, q, a \o b)
    PROVE  Sits(c, q, a) /\ Sits(c, q + Len(a), b) /\ Len(a \o b) = Len(a) + Len(b)
<1> DEFINE s == a \o b
<1>1. /\ Len(s) = Len(a) + Len(b) /\ Len(a) \in Nat /\ Len(b) \in Nat
      /\ \A i \in 1..Len(a) : s[i] = a[i]
      /\ \A i \in 1..Len(b) : s[Len(a) + i] = b[i]
  OBVIOUS
<1>2. Sits(c, q, s)
  OBVIOUS
<1> HIDE DEF s
<1>3. q + Len(s) <= Len(c) /\ \A i \in 1..Len(s) : c[q + i] = s[i]
  BY <1>2 DEF Sits
<1>4. Sits(c, q, a)
  <2>1. \A i \in 1..Len(a) : i \in 1..Len(s)
    BY <1>1
  <2>2. Len(c) \in Int => q + Len(a) <= Len(c)
    BY <1>1, <1>3
  <2> QED BY <1>1, <1>3, <2>1, <2>2 DEF Sits
<1>5. Sits(c, q + Len(a), b)
  <2>1. \A i \in 1..Len(b) : Len(a) + i \in 1..Len(s) /\ q + (Len(a) + i) = (q + Len(a)) + i
    BY <1>1
  <2>2. (q + Len(a)) + Len(b) = q + Len(s)
    BY <1>1
  <2> QED BY <1>1, <1>3, <2>1, <2>2 DEF Sits
<1> QED BY <1>1, <1>4, <1>5 DEF s

\* What stands in bytes that stand somewhere.
LEMMA SitsIn ==
    ASSUME NEW S, NEW c \in Seq(S), NEW s \in Seq(S), NEW q \in Nat, Sits(c, q, s),
           NEW t \in Seq(S), NEW r \in Nat, Sits(s, r, t)
    PROVE  Sits(c, q + r, t)
<1>1. /\ Len(s) \in Nat /\ Len(t) \in Nat /\ Len(c) \in Nat
      /\ q + Len(s) <= Len(c) /\ r + Len(t) <= Len(s)
  BY DEF Sits
<1>2. (q + r) + Len(t) <= Len(c)
  BY <1>1
<1>3. ASSUME NEW i \in 1..Len(t) PROVE c[(q + r) + i] = t[i]
  <2>1. r + i \in 1..Len(s) /\ q + (r + i) = (q + r) + i
    BY <1>1
  <2>2. c[q + (r + i)] = s[r + i] /\ s[r + i] = t[i]
    BY <2>1 DEF Sits
  <2> QED BY <2>1, <2>2
<1> QED BY <1>2, <1>3 DEF Sits

\* They read as they do by themselves.
LEMMA SitsAlike ==
    ASSUME NEW S, NEW s \in Seq(S), NEW c, NEW q \in Nat, Sits(c, q, s),
           NEW e \in Nat, q + Len(s) <= e
    PROVE  Alike(s, 0, Len(s), c, q, e)
<1>1. Len(s) \in Nat /\ Len(s) - 0 <= e - q
  OBVIOUS
<1>2. \A i \in 1..(Len(s) - 0) : s[0 + i] = c[q + i]
  BY <1>1 DEF Sits
<1> QED BY <1>1, <1>2 DEF Alike

-----------------------------------------------------------------------------
(* What encode writes is read back *)

\* The bytes of a number: all but the last continue, and they are read as it.
LEMMA VarintIs ==
    ASSUME NEW u \in U64
    PROVE  LET v == VarintBytes(u)
           IN  /\ v \in Seq(Byte) /\ Len(v) \in 1..MaxGroups
               /\ \A i \in 1..(Len(v) - 1) : v[i] >= 128
               /\ v[Len(v)] < 128
               /\ VarintValue(v, 0, Len(v)) = u
<1>1. Width64 \in Nat \ {0} /\ u \in Nat /\ u < 2^Width64 /\ MaxGroups = RoomFor(Width64)
  BY WireAssumption DEF U64, M64, MaxGroups, RoomFor
<1>2. PICK k : FitsIn(Width64, u, k)
  BY <1>1, FitsExists
<1> DEFINE c == CHOOSE j \in 1..MaxGroups : u < G(j) /\ (j > 1 => u >= G(j - 1))
           v == [i \in 1..k |-> ByteOf(u, k, i)]
<1>3. c = k
  <2>1. FitsIn(Width64, u, c)
    BY <1>1, <1>2 DEF FitsIn
  <2> QED BY <1>1, <1>2, <2>1, FitsOnce
<1>4. VarintBytes(u) = v
  <2>1. VarintBytes(u) = [i \in 1..c |-> Group(u, i) + (IF i < c THEN 128 ELSE 0)]
    BY DEF VarintBytes, G, Group, Above
  <2> HIDE DEF c
  <2> QED BY <1>3, <2>1 DEF ByteOf
<1>5. k \in 1..MaxGroups /\ MaxGroups \in Nat /\ k \in Nat
  BY <1>1, <1>2, RoomIs DEF FitsIn
<1>6. \A i \in 1..k : v[i] \in Byte /\ (v[i] < 128 <=> i = k)
  <2> SUFFICES ASSUME NEW i \in 1..k PROVE v[i] \in Byte /\ (v[i] < 128 <=> i = k)
    OBVIOUS
  <2>1. i - 1 \in Nat /\ (i - 1) + 1 = i /\ i - 1 \in 0..(k - 1)
    BY <1>5
  <2>2. ByteOf(u, k, i) < 128 <=> i = k
    BY <1>1, <1>2, <2>1, ReadsGroup
  <2>3. Group(u, i) \in 0..127
    BY <1>1, <2>1, NextTop
  <2>4. ByteOf(u, k, i) \in Byte
    BY <2>3 DEF ByteOf, Byte
  <2> QED BY <2>2, <2>4
<1>7. v \in Seq(Byte) /\ Len(v) = k
  BY <1>5, <1>6
<1>8. VarintValue(v, 0, k) = u
  <2>1. PICK f : SumsTo(Width64, f, v, 0, 0 + k) /\ VarintValue(v, 0, 0 + k) = f[0 + k]
    <3> HIDE DEF v
    <3> QED BY <1>5, ValueIs
  <2>2. 0 + k = k
    BY <1>5
  <2>3. f[k] = u
    BY <1>1, <1>2, <2>1, <2>2, SumOfBytes
  <2> QED BY <2>1, <2>2, <2>3
<1> HIDE DEF v
<1>9. \A i \in 1..(k - 1) : v[i] >= 128
  <2>1. \A i \in 1..(k - 1) : i \in 1..k /\ i # k
    BY <1>5
  <2> QED BY <1>6, <2>1 DEF Byte
<1> QED BY <1>4, <1>5, <1>6, <1>7, <1>8, <1>9

\* The loop that reads them ends with them.
LEMMA VarintEndsOnce ==
    ASSUME NEW b, NEW p \in Nat, NEW e \in Nat, NEW m \in VarintEnds(b, p, e),
           NEW n \in VarintEnds(b, p, e)
    PROVE  m = n
BY DEF VarintEnds

LEMMA ReadsBack ==
    ASSUME NEW u \in U64, NEW c, NEW q \in Nat, Sits(c, q, VarintBytes(u)),
           NEW e \in Nat, q + Len(VarintBytes(u)) <= e
    PROVE  /\ VarintEnds(c, q, e) = {q + Len(VarintBytes(u))}
           /\ VarintValue(c, q, q + Len(VarintBytes(u))) = u
           /\ ~ShiftOverflows(c, q, e)
           /\ \A T : u \in T => /\ VarintReads(c, q, e, T) = {<<q + Len(VarintBytes(u)), u>>}
                                /\ ~VarintPanics(c, q, e, T)
<1> DEFINE v == VarintBytes(u)
           n == Len(v)
<1>1. /\ v \in Seq(Byte) /\ n \in 1..MaxGroups /\ \A i \in 1..(n - 1) : v[i] >= 128
      /\ v[n] < 128 /\ VarintValue(v, 0, n) = u
  BY VarintIs
<1>2. Alike(v, 0, n, c, q, e)
  <2> HIDE DEF v
  <2>1. v \in Seq(Byte) /\ Sits(c, q, v) /\ q + Len(v) <= e
    BY <1>1 DEF v
  <2> QED BY <2>1, SitsAlike
<1>3. n \in Nat /\ 0 + n = n /\ n <= n - 0
  BY <1>1
<1> HIDE DEF v, n
<1>4. n \in VarintEnds(v, 0, n)
  <2>1. \A m \in (0 + 1)..(n - 1) : v[m] >= 128
    BY <1>1
  <2>2. n \in (0 + 1)..n
    BY <1>3, <1>1
  <2>3. ~(v[n] >= 128)
    <3> DEFINE x == v[n]
    <3>1. x \in Byte
      BY <1>1 DEF n
    <3>2. x < 128
      BY <1>1
    <3> HIDE DEF x
    <3>3. ~(x >= 128)
      BY <3>1, <3>2 DEF Byte
    <3> QED BY <3>3 DEF x
  <2> QED BY <2>1, <2>2, <2>3 DEF VarintEnds, Continues
<1>5. q + n \in VarintEnds(c, q, e)
  BY <1>2, <1>3, <1>4, EndsAlike
<1>6. VarintEnds(c, q, e) = {q + n}
  BY <1>5, VarintEndsOnce
<1>7. VarintValue(c, q, q + n) = u
  BY <1>1, <1>2, <1>3, ValueAlike
<1>8. ~ShiftOverflows(c, q, e)
  <2> SUFFICES ASSUME q + MaxGroups < e, \A m \in (q + 1)..(q + MaxGroups) : Continues(c, m)
               PROVE  FALSE
    BY DEF ShiftOverflows
  <2>1. MaxGroups \in Nat
    BY WireAssumption DEF MaxGroups
  <2>2. q + n \in (q + 1)..(q + MaxGroups)
    BY <1>1, <2>1
  <2>3. ~Continues(c, q + n)
    BY <1>5 DEF VarintEnds
  <2> QED BY <2>2, <2>3
<1>9. ASSUME NEW T, u \in T
      PROVE  VarintReads(c, q, e, T) = {<<q + n, u>>} /\ ~VarintPanics(c, q, e, T)
  BY <1>6, <1>7, <1>8, <1>9 DEF VarintReads, VarintPanics
<1> QED BY <1>6, <1>7, <1>8, <1>9 DEF n, v

LEMMA DelimitedIs ==
    ASSUME NEW y \in Seq(Byte), Len(y) < M64
    PROVE  /\ Delimited(y) = VarintBytes(Len(y)) \o y /\ Len(y) \in U64
           /\ Delimited(y) \in Seq(Byte) /\ VarintBytes(Len(y)) \in Seq(Byte)
           /\ Len(Delimited(y)) = Len(VarintBytes(Len(y))) + Len(y)
           /\ Len(VarintBytes(Len(y))) \in Nat \ {0} /\ Len(y) \in Nat
<1>1. Len(y) \in Nat /\ Len(y) \in U64
  BY DEF U64
<1>2. Len(y) % M64 = Len(y)
  <2>1. M64 \in Nat \ {0}
    BY WireAssumption, PowerIs DEF M64
  <2> DEFINE n == Len(y)
  <2> HIDE DEF n
  <2>2. n \in Nat /\ n < M64 => n % M64 = n
    BY <2>1
  <2> QED BY <1>1, <2>2 DEF n
<1> DEFINE v == VarintBytes(Len(y))
<1>3. v \in Seq(Byte) /\ Len(v) \in Nat \ {0}
  <2>1. v \in Seq(Byte) /\ Len(v) \in 1..MaxGroups
    BY <1>1, VarintIs
  <2> HIDE DEF v
  <2> QED BY <2>1
<1>4. Delimited(y) = v \o y
  BY <1>2 DEF Delimited
<1> HIDE DEF v
<1>5. v \o y \in Seq(Byte) /\ Len(v \o y) = Len(v) + Len(y)
  BY <1>3
<1> QED BY <1>1, <1>3, <1>4, <1>5 DEF v

\* So is a payload behind its length.
LEMMA DelimitedBack ==
    ASSUME NEW y \in Seq(Byte), Len(y) < M64, NEW c, NEW q \in Nat, Sits(c, q, Delimited(y)),
           NEW e \in Nat, q + Len(Delimited(y)) <= e
    PROVE  LET l == q + Len(VarintBytes(Len(y)))
               to == q + Len(Delimited(y))
           IN  /\ l \in Nat /\ q < l /\ to = l + Len(y) /\ to \in Nat /\ l <= to
               /\ Payloads(c, q, e) = {<<l, to>>} /\ ~VarintPanics(c, q, e, U64)
               /\ Sits(c, l, y)
<1> DEFINE v == VarintBytes(Len(y))
           l == q + Len(v)
           to == q + Len(Delimited(y))
<1>1. /\ Delimited(y) = v \o y /\ Len(y) \in U64 /\ v \in Seq(Byte)
      /\ Len(Delimited(y)) = Len(v) + Len(y) /\ Len(v) \in Nat \ {0} /\ Len(y) \in Nat
  BY DelimitedIs
<1>2. l \in Nat /\ q < l /\ to = l + Len(y) /\ to \in Nat /\ l <= to /\ l <= e /\ to <= e
  BY <1>1
<1>3. Sits(c, q, v) /\ Sits(c, l, y)
  <2> HIDE DEF v
  <2> QED BY <1>1, SitsConcat
<1>4. VarintReads(c, q, e, U64) = {<<l, Len(y)>>} /\ ~VarintPanics(c, q, e, U64)
  BY <1>1, <1>2, <1>3, ReadsBack
<1> HIDE DEF v, l, to
<1>5. Payloads(c, q, e) = {<<l, to>>}
  <2> DEFINE r == <<l, Len(y)>>
  <2>1. r[1] = l /\ r[2] = Len(y) /\ r[1] + r[2] = to /\ VarintReads(c, q, e, U64) = {r}
    BY <1>2, <1>4
  <2> HIDE DEF r
  <2>2. {s \in VarintReads(c, q, e, U64) : s[1] + s[2] <= e} = {r}
    BY <1>2, <2>1
  <2> QED BY <2>1, <2>2 DEF Payloads
<1> QED BY <1>2, <1>3, <1>4, <1>5 DEF l, to, v

\* The payload of a value is the one that was found.
LEMMA PayloadOf ==
    ASSUME NEW b, NEW p \in Nat, NEW e \in Nat, NEW r \in Payloads(b, p, e)
    PROVE  Payloads(b, p, r[2]) = {r} /\ Payload(b, p, r[2]) = r
<1>1. PICK x \in Nat, y \in Nat : x <= y /\ r = <<p + x, p + y>> /\ p + y <= e /\ x > 0
  BY PayloadFrom
<1> DEFINE z == p + y
<1>2. z \in Nat /\ z - p = y /\ r[2] = z
  BY <1>1
<1>3. Alike(b, p, z, b, p, e)
  BY <1>1, <1>2 DEF Alike
<1>4. ~ShiftOverflows(b, p, e)
  BY DEF Payloads, VarintReads
<1> HIDE DEF z
<1>5. r \in Payloads(b, p, z)
  <2>1. <<p + x, p + y>> \in Payloads(b, p, z)
          <=> y <= z - p /\ <<p + x, p + y>> \in Payloads(b, p, e)
    BY <1>3, <1>4, PayloadsAlike
  <2> QED BY <1>1, <1>2, <2>1
<1>6. Payloads(b, p, z) = {r}
  <2>1. \A s \in Payloads(b, p, z) : s = r
    BY <1>2, <1>5, OnePayload
  <2> QED BY <1>5, <2>1
<1>7. Payload(b, p, z) = r
  BY <1>2, <1>6 DEF Payload
<1> QED BY <1>2, <1>6, <1>7

-----------------------------------------------------------------------------
(* A varint-typed value is written as a number that it is read from *)

LEMMA Numbers ==
    /\ M32 \in Nat \ {0} /\ M64 \in Nat \ {0} /\ M32 <= M64 /\ 256 <= M32
<1>1. 8 <= Width32 /\ Width32 <= Width64 /\ Width32 \in Nat /\ Width64 \in Nat
  BY WireAssumption
<1>2. 2^8 <= 2^Width32 /\ 2^Width32 <= 2^Width64
  BY <1>1, PowerGrows
<1>3. 2^8 = 256
  OBVIOUS
<1> QED BY <1>1, <1>2, <1>3, PowerIs DEF M32, M64

LEMMA ElementAgain ==
    ASSUME NEW vt \in VarintTypes, NEW u \in U64, vt = "SInt32" => u < M32
    PROVE  \E n \in U64 : /\ n = u \/ (vt = "Bool" /\ n \in {0, 1})
                          /\ ElementBytes(vt, u) = VarintBytes(n)
                          /\ ElementBytes(vt, n) = VarintBytes(n)
<1>1. M32 \in Nat \ {0} /\ M64 \in Nat \ {0} /\ 128 < M64 /\ u \in Nat /\ u < M64
  BY Numbers DEF U64
<1>2. CASE vt = "Bool"
  <2>1. ASSUME NEW n \in {0, 1} PROVE n \in U64 /\ VarintBytes(n) = <<n>>
    <3>1. Width64 \in Nat \ {0} /\ n \in Nat /\ n < 128 /\ n \in U64
      BY <1>1, WireAssumption DEF U64
    <3>2. Above(n, 0) = n /\ Above(n, 0) \div 128 = 0 /\ n < 2^Width64
      <4>1. n \div 128 = 0
        BY <3>1
      <4> QED BY <3>1, <4>1, LowOfNone DEF U64, M64
    <3>3. FitsIn(Width64, n, 1)
      <4>1. 0 + 1 = 1 /\ ~(0 > 0)
        OBVIOUS
      <4> QED BY <3>1, <3>2, <4>1, FitsLast
    <3> DEFINE v == VarintBytes(n)
               c == CHOOSE j \in 1..MaxGroups : n < G(j) /\ (j > 1 => n >= G(j - 1))
    <3>4. c = 1
      <4>1. FitsIn(Width64, n, c)
        BY <3>3 DEF FitsIn, MaxGroups, RoomFor
      <4> QED BY <3>1, <3>3, <4>1, FitsOnce
    <3>5. v = [i \in 1..c |-> Group(n, i) + (IF i < c THEN 128 ELSE 0)]
      BY DEF VarintBytes, G, Group, Above
    <3>6. Group(n, 1) = n
      <4>1. 1 - 1 = 0
        OBVIOUS
      <4>2. n % 128 = n
        BY <3>1
      <4> QED BY <3>2, <4>1, <4>2 DEF Group
    <3> HIDE DEF c, v
    <3>7. v = <<n>>
      BY <3>1, <3>4, <3>5, <3>6
    <3> QED BY <3>1, <3>7 DEF v
  <2> DEFINE n == IF u # 0 THEN 1 ELSE 0
  <2>2. n \in {0, 1} /\ ElementBytes(vt, u) = <<n>> /\ ElementBytes(vt, n) = <<n>>
    BY <1>2 DEF ElementBytes
  <2> HIDE DEF n
  <2> QED BY <1>2, <2>1, <2>2
<1>3. CASE vt \in {"SInt32", "SInt64"}
  <2> DEFINE n == 2 * Magnitude(u) - SignBit(u)
  <2>1. n = u
    <3> DEFINE x == u \div 2
               y == u % 2
    <3>1. x \in Nat /\ y \in 0..1 /\ u = 2 * x + y
      BY <1>1
    <3> HIDE DEF x, y
    <3>2. 2 * (x + y) - y = u
      BY <3>1
    <3> QED BY <3>2 DEF Magnitude, SignBit, x, y
  <2> HIDE DEF n
  <2>2. u % M64 = u /\ (u < M32 => u % M32 = u)
    BY <1>1
  <2>3. ElementBytes(vt, u) = VarintBytes(u)
    BY <1>3, <2>1, <2>2 DEF ElementBytes, n
  <2> WITNESS u \in U64
  <2> QED BY <2>3
<1>4. CASE vt \notin {"Bool", "SInt32", "SInt64"}
  <2>1. ElementBytes(vt, u) = VarintBytes(u)
    BY <1>4 DEF ElementBytes
  <2> WITNESS u \in U64
  <2> QED BY <2>1
<1> QED BY <1>2, <1>3, <1>4

\* It is accepted where the value was, and panics no more than it.
LEMMA SameAccepted ==
    ASSUME NEW vt \in VarintTypes, NEW u \in U64, NEW n,
           n = u \/ (vt = "Bool" /\ n \in {0, 1})
    PROVE  /\ u \in Accepts(vt) => n \in Accepts(vt)
           /\ u \in PackedAccepts(vt) => n \in PackedAccepts(vt)
           /\ ElementPanics(vt, n) => ElementPanics(vt, u)
<1>1. CASE n = u
  BY <1>1
<1>2. CASE vt = "Bool" /\ n \in {0, 1}
  <2>1. n \in U64
    BY <1>2, Numbers DEF U64
  <2>2. n \in U8 /\ PackedAccepts(vt) = U8 /\ Accepts(vt) = U64
    BY <1>2 DEF U8, PackedAccepts, Accepts
  <2>3. ~ElementPanics(vt, n)
    BY <1>2 DEF ElementPanics
  <2> QED BY <2>1, <2>2, <2>3
<1> QED BY <1>1, <1>2

LEMMA AcceptsRange ==
    ASSUME NEW vt \in VarintTypes
    PROVE  /\ Accepts(vt) \subseteq U64
           /\ \A u \in Accepts(vt) : vt = "SInt32" => u < M32
           /\ vt \in PackableTypes => /\ PackedAccepts(vt) \subseteq U64
                                      /\ \A u \in PackedAccepts(vt) : vt = "SInt32" => u < M32
<1>1. Accepts(vt) \subseteq U64
  BY AcceptsU64
<1>2. \A u \in Accepts(vt) : vt = "SInt32" => u < M32
  BY DEF Accepts, U32
<1>3. U8 \subseteq U64
  BY Numbers DEF U8, U64
<1>4. PackedAccepts(vt) \subseteq U64
  BY <1>1, <1>3 DEF PackedAccepts
<1>5. vt = "SInt32" => PackedAccepts(vt) = Accepts(vt)
  BY DEF PackedAccepts
<1> QED BY <1>1, <1>2, <1>4, <1>5

-----------------------------------------------------------------------------
(* So is an array of them *)

\* A varint ends before a byte that does not continue.
LEMMA EndExists ==
    ASSUME NEW b, NEW p \in Nat, NEW e \in Nat, p < e, ~Continues(b, e)
    PROVE  \E n \in (p + 1)..e : VarintEnds(b, p, e) = {n}
<1> DEFINE S == {m \in (p + 1)..e : ~Continues(b, m)}
           n == Min(S)
<1>1. n \in S /\ \A x \in S : n <= x
  <2>1. S \in SUBSET Nat /\ e \in S
    OBVIOUS
  <2> HIDE DEF S
  <2> QED BY <2>1, MinIs
<1>2. n \in (p + 1)..e /\ ~Continues(b, n)
  BY <1>1
<1>3. ASSUME NEW m \in (p + 1)..(n - 1) PROVE Continues(b, m)
  <2> SUFFICES ASSUME ~Continues(b, m) PROVE FALSE
    OBVIOUS
  <2>1. m \in (p + 1)..e /\ m < n
    BY <1>2
  <2>2. m \in S
    BY <2>1
  <2> HIDE DEF S, n
  <2> QED BY <1>1, <1>2, <2>1, <2>2
<1> HIDE DEF n, S
<1>4. n \in VarintEnds(b, p, e)
  BY <1>2, <1>3 DEF VarintEnds
<1>5. VarintEnds(b, p, e) = {n}
  BY <1>4, VarintEndsOnce
<1> QED BY <1>2, <1>5

\* The bytes of an element that is written as they were.
IsElement(vt, v) ==
    \E u \in PackedAccepts(vt) :
        v = VarintBytes(u) /\ ElementBytes(vt, u) = v /\ ~ElementPanics(vt, u)

\* The array (a, z] of b is whole, and can be read and written.
IsArray(vt, b, a, z) ==
    /\ vt \in VarintTypes \cap PackableTypes /\ a \in Nat /\ z \in Nat /\ a <= z
    /\ PackedWhole(vt, b, a, z) /\ ~PackedPanics(vt, b, a, z)
    /\ \A s \in ElementStarts(b, a, z) : ~ElementPanics(vt, ElementRaw(b, s, z))

\* The elements of such an array are written as numbers they are read from.
LEMMA ElementOf ==
    ASSUME NEW vt, NEW b, NEW a, NEW z, IsArray(vt, b, a, z), NEW s \in ElementStarts(b, a, z)
    PROVE  IsElement(vt, ElementBytes(vt, ElementRaw(b, s, z)))
<1>1. /\ vt \in VarintTypes /\ vt \in PackableTypes /\ a \in Nat /\ z \in Nat
      /\ PackedWhole(vt, b, a, z) /\ ~PackedPanics(vt, b, a, z)
      /\ ~ElementPanics(vt, ElementRaw(b, s, z))
  BY DEF IsArray
<1>2. s \in Nat /\ s < z /\ z # a
  BY <1>1 DEF ElementStarts
<1>3. ~Continues(b, z)
  BY <1>1, <1>2 DEF PackedWhole, VarintTypes, Fixed64Types, Fixed32Types
<1>4. PICK n \in (s + 1)..z : VarintEnds(b, s, z) = {n}
  BY <1>1, <1>2, <1>3, EndExists
<1> DEFINE u == VarintValue(b, s, n)
<1>5. ElementRaw(b, s, z) = u
  BY <1>4 DEF ElementRaw
<1>6. ~VarintPanics(b, s, z, PackedAccepts(vt))
  BY <1>1 DEF PackedPanics
<1>7. u \in PackedAccepts(vt)
  BY <1>4, <1>6 DEF VarintPanics
<1> HIDE DEF u
<1>8. u \in U64 /\ (vt = "SInt32" => u < M32)
  BY <1>1, <1>7, AcceptsRange
<1>9. PICK m \in U64 : /\ m = u \/ (vt = "Bool" /\ m \in {0, 1})
                       /\ ElementBytes(vt, u) = VarintBytes(m)
                       /\ ElementBytes(vt, m) = VarintBytes(m)
  BY <1>1, <1>8, ElementAgain
<1>10. m \in PackedAccepts(vt) /\ ~ElementPanics(vt, m)
  BY <1>1, <1>5, <1>7, <1>8, <1>9, SameAccepted
<1> QED BY <1>5, <1>9, <1>10 DEF IsElement

\* The sequence of which ElementsBytes is put together.
Elements(vt, b, a, z) ==
    [i \in 1..(z - a) |->
        LET s == a + i - 1
        IN  IF s \in ElementStarts(b, a, z) THEN ElementBytes(vt, ElementRaw(b, s, z)) ELSE <<>>]

LEMMA IsElementBytes ==
    ASSUME NEW vt \in VarintTypes \cap PackableTypes, NEW v, IsElement(vt, v)
    PROVE  \E u \in PackedAccepts(vt) :
              /\ u \in U64 /\ v = VarintBytes(u) /\ ElementBytes(vt, u) = v /\ ~ElementPanics(vt, u)
              /\ v \in Seq(Byte) /\ Len(v) \in Nat \ {0}
              /\ \A i \in 1..(Len(v) - 1) : v[i] >= 128
              /\ v[Len(v)] < 128
<1>1. PICK u \in PackedAccepts(vt) :
         v = VarintBytes(u) /\ ElementBytes(vt, u) = v /\ ~ElementPanics(vt, u)
  BY DEF IsElement
<1>2. u \in U64
  BY AcceptsRange
<1>3. /\ v \in Seq(Byte) /\ Len(v) \in 1..MaxGroups
      /\ \A i \in 1..(Len(v) - 1) : v[i] >= 128
      /\ v[Len(v)] < 128
  BY <1>1, <1>2, VarintIs
<1>4. Len(v) \in Nat \ {0}
  BY <1>3
<1> QED BY <1>1, <1>2, <1>3, <1>4

LEMMA ElementsAre ==
    ASSUME NEW vt, NEW b, NEW a, NEW z, IsArray(vt, b, a, z)
    PROVE  /\ Elements(vt, b, a, z) \in Seq(Seq(Byte)) /\ Len(Elements(vt, b, a, z)) = z - a
           /\ ElementsBytes(vt, b, a, z) = FlattenSeq(Elements(vt, b, a, z))
           /\ \A i \in 1..(z - a) : LET v == Elements(vt, b, a, z)[i]
                                    IN  v = <<>> \/ IsElement(vt, v)
<1>1. vt \in VarintTypes \cap PackableTypes /\ a \in Nat /\ z \in Nat /\ z - a \in Nat
  BY DEF IsArray
<1> DEFINE e == Elements(vt, b, a, z)
<1>2. ASSUME NEW i \in 1..(z - a) PROVE e[i] = <<>> \/ IsElement(vt, e[i])
  BY ElementOf DEF Elements
<1>3. ASSUME NEW i \in 1..(z - a) PROVE e[i] \in Seq(Byte)
  <2> HIDE DEF e
  <2>1. <<>> \in Seq(Byte)
    OBVIOUS
  <2>2. IsElement(vt, e[i]) => e[i] \in Seq(Byte)
    BY <1>1, IsElementBytes
  <2> QED BY <1>2, <2>1, <2>2
<1>4. e = [i \in 1..(z - a) |-> e[i]]
  BY DEF Elements
<1>5. ElementsBytes(vt, b, a, z) = FlattenSeq(e)
  BY DEF ElementsBytes, Elements
<1> HIDE DEF e
<1>6. e \in Seq(Seq(Byte)) /\ Len(e) = z - a
  BY <1>1, <1>3, <1>4
<1> QED BY <1>2, <1>5, <1>6 DEF e

\* Bytes that are elements one behind the other.
IsElements(vt, y) ==
    /\ y \in Seq(Byte)
    /\ Len(y) > 0 => y[Len(y)] < 128
    /\ \A x \in 1..Len(y) : x = 1 \/ y[x - 1] < 128 => \E v : IsElement(vt, v) /\ Sits(y, x - 1, v)

LEMMA ElementsLaid ==
    ASSUME NEW vt \in VarintTypes \cap PackableTypes, NEW seqs \in Seq(Seq(Byte)),
           \A k \in 1..Len(seqs) : seqs[k] = <<>> \/ IsElement(vt, seqs[k])
    PROVE  IsElements(vt, FlattenSeq(seqs))
<1> DEFINE y == FlattenSeq(seqs)
           n == Len(seqs)
<1>1. y \in Seq(Byte) /\ n \in Nat /\ n <= Len(seqs) /\ \E o : Laid(y, seqs, n, o)
  BY FlattenLaid
<1> HIDE DEF y
<1>2. PICK o : Laid(y, seqs, n, o)
  BY <1>1
<1>3. ASSUME NEW x \in 1..Len(y)
      PROVE  \E v : \E f \in Nat : \E r \in 1..Len(v) :
                x = f + r /\ IsElement(vt, v) /\ Sits(y, f, v) /\ Len(v) \in Nat
  <2>1. LiesIn(seqs, n, o, x)
    <3> HIDE DEF n
    <3> QED BY <1>1, <1>2, LaidAt
  <2>2. PICK k \in 1..n : \E r \in 1..Len(seqs[k]) : x = o[k - 1] + r
    BY <2>1 DEF LiesIn
  <2>3. PICK r \in 1..Len(seqs[k]) : x = o[k - 1] + r
    BY <2>2
  <2> DEFINE v == seqs[k]
             f == o[k - 1]
  <2>4. v \in Seq(Byte) /\ Len(v) \in Nat /\ v # <<>>
    BY <2>3
  <2>5. IsElement(vt, v)
    BY <2>4
  <2>6. f \in Nat /\ f + Len(v) <= Len(y) /\ \A j \in 1..Len(v) : y[f + j] = v[j]
    <3>1. o \in [0..n -> Nat] /\ k - 1 \in 0..n
      BY <1>1, <1>2 DEF Laid
    <3>2. o[k] = o[k - 1] + Len(seqs[k]) /\ o[k] <= Len(y)
      BY <1>2 DEF Laid
    <3>3. \A j \in 1..Len(v) : y[f + j] = v[j]
      BY <1>2 DEF Laid
    <3> QED BY <3>1, <3>2, <3>3
  <2>7. Sits(y, f, v)
    BY <2>6 DEF Sits
  <2>8. x = f + r /\ r \in 1..Len(v)
    BY <2>3
  <2> HIDE DEF v, f
  <2> QED BY <2>4, <2>5, <2>6, <2>7, <2>8
<1>4. Len(y) > 0 => y[Len(y)] < 128
  <2> SUFFICES ASSUME Len(y) > 0 PROVE y[Len(y)] < 128
    OBVIOUS
  <2>1. Len(y) \in 1..Len(y) /\ Len(y) \in Nat
    BY <1>1
  <2>0. PICK v : \E f \in Nat : \E r \in 1..Len(v) :
           Len(y) = f + r /\ IsElement(vt, v) /\ Sits(y, f, v) /\ Len(v) \in Nat
    BY <1>3, <2>1
  <2>2. PICK f \in Nat, r \in 1..Len(v) :
           Len(y) = f + r /\ IsElement(vt, v) /\ Sits(y, f, v) /\ Len(v) \in Nat
    BY <2>0
  <2>3. r = Len(v) /\ r \in 1..Len(v)
    BY <2>2 DEF Sits
  <2>4. y[f + r] = v[r]
    BY <2>2 DEF Sits
  <2>5. v[Len(v)] < 128
    BY <2>2, IsElementBytes
  <2> QED BY <2>2, <2>3, <2>4, <2>5
<1>5. ASSUME NEW x \in 1..Len(y), x = 1 \/ y[x - 1] < 128
      PROVE  \E v : IsElement(vt, v) /\ Sits(y, x - 1, v)
  <2>0. PICK v : \E f \in Nat : \E r \in 1..Len(v) :
           x = f + r /\ IsElement(vt, v) /\ Sits(y, f, v) /\ Len(v) \in Nat
    BY <1>3
  <2>1. PICK f \in Nat, r \in 1..Len(v) :
           x = f + r /\ IsElement(vt, v) /\ Sits(y, f, v) /\ Len(v) \in Nat
    BY <2>0
  <2>2. r = 1
    <3> SUFFICES ASSUME r > 1 PROVE FALSE
      BY <2>1
    <3>1. x # 1 /\ r - 1 \in 1..Len(v) /\ r - 1 \in 1..(Len(v) - 1) /\ x - 1 = f + (r - 1)
      BY <2>1
    <3>2. y[f + (r - 1)] = v[r - 1]
      BY <2>1, <3>1 DEF Sits
    <3>3. v[r - 1] >= 128 /\ v[r - 1] \in Byte
      <4>1. v \in Seq(Byte) /\ \A i \in 1..(Len(v) - 1) : v[i] >= 128
        BY <2>1, IsElementBytes
      <4> QED BY <3>1, <4>1
    <3>4. y[x - 1] < 128
      BY <1>5, <3>1
    <3> DEFINE w == v[r - 1]
    <3>5. w < 128 /\ w >= 128 /\ w \in 0..255
      BY <3>1, <3>2, <3>3, <3>4 DEF Byte
    <3> HIDE DEF w
    <3> QED BY <3>5
  <2>3. x - 1 = f
    BY <2>1, <2>2
  <2> QED BY <2>1, <2>3
<1> QED BY <1>1, <1>4, <1>5 DEF IsElements, y

\* An array stands there that is written as it is.
LEMMA ArrayBack ==
    ASSUME NEW vt \in VarintTypes \cap PackableTypes, NEW y, IsElements(vt, y),
           NEW c, NEW l \in Nat, Sits(c, l, y)
    PROVE  IsArray(vt, c, l, l + Len(y)) /\ ElementsBytes(vt, c, l, l + Len(y)) = y
<1> DEFINE to == l + Len(y)
<1>1. /\ y \in Seq(Byte) /\ Len(y) \in Nat /\ to \in Nat /\ l <= to /\ to - l = Len(y)
      /\ Len(y) > 0 => y[Len(y)] < 128
  BY DEF IsElements
<1>2. \A i \in 1..Len(y) : c[l + i] = y[i]
  BY <1>1 DEF Sits
<1> HIDE DEF to
<1>3. ASSUME NEW i \in 1..Len(y) PROVE Continues(c, l + i) <=> ~(y[i] < 128)
  <2> DEFINE w == y[i]
  <2>1. w \in Byte /\ c[l + i] = w
    BY <1>1, <1>2
  <2> HIDE DEF w
  <2>2. (w >= 128) <=> ~(w < 128)
    BY <2>1 DEF Byte
  <2> QED BY <2>1, <2>2 DEF w, Continues
<1>4. to # l => ~Continues(c, to)
  <2> SUFFICES ASSUME to # l PROVE ~Continues(c, to)
    OBVIOUS
  <2>1. Len(y) \in 1..Len(y) /\ l + Len(y) = to /\ Len(y) > 0
    BY <1>1
  <2> QED BY <1>1, <1>3, <2>1
\* What stands at the beginning of an element.
<1> DEFINE Stands(x, s, u, v) ==
              /\ v \in Seq(Byte) /\ v = VarintBytes(u) /\ ElementBytes(vt, u) = v
              /\ ~ElementPanics(vt, u) /\ Len(v) \in Nat \ {0} /\ Sits(y, x - 1, v)
              /\ VarintEnds(c, s, to) = {s + Len(v)} /\ VarintValue(c, s, s + Len(v)) = u
              /\ ~VarintPanics(c, s, to, PackedAccepts(vt))
<1>5. ASSUME NEW x \in 1..Len(y), x = 1 \/ y[x - 1] < 128
      PROVE  \E u \in PackedAccepts(vt) : \E v : Stands(x, l + x - 1, u, v)
  <2> DEFINE s == l + x - 1
  <2>1. PICK v : IsElement(vt, v) /\ Sits(y, x - 1, v)
    BY <1>5 DEF IsElements
  <2>2. PICK u \in PackedAccepts(vt) :
              /\ u \in U64 /\ v = VarintBytes(u) /\ ElementBytes(vt, u) = v /\ ~ElementPanics(vt, u)
              /\ v \in Seq(Byte) /\ Len(v) \in Nat \ {0}
    BY <2>1, IsElementBytes
  <2>3. s \in Nat /\ x - 1 \in Nat /\ s = l + (x - 1) /\ (x - 1) + Len(v) <= Len(y)
    BY <2>1, <2>2 DEF Sits
  <2>4. s + Len(v) <= to
    BY <1>1, <2>2, <2>3 DEF to
  <2> HIDE DEF s
  <2>5. Sits(c, s, v)
    <3>1. \A i \in 1..Len(v) : (x - 1) + i \in 1..Len(y) /\ l + ((x - 1) + i) = s + i
      BY <1>1, <2>2, <2>3
    <3>2. \A i \in 1..Len(v) : y[(x - 1) + i] = v[i]
      BY <2>1 DEF Sits
    <3>3. \A i \in 1..Len(v) : c[s + i] = v[i]
      BY <1>2, <3>1, <3>2
    <3>4. s + Len(v) <= Len(c)
      <4>1. l + Len(y) <= Len(c)
        BY DEF Sits
      <4>2. s + Len(v) \in Int /\ s + Len(v) <= l + Len(y)
        BY <1>1, <2>2, <2>3
      <4> QED BY <1>1, <4>1, <4>2
    <3> QED BY <3>3, <3>4 DEF Sits
  <2>6. VarintEnds(c, s, to) = {s + Len(v)} /\ VarintValue(c, s, s + Len(v)) = u
        /\ ~VarintPanics(c, s, to, PackedAccepts(vt))
    <3>1. u \in U64 /\ Sits(c, s, VarintBytes(u)) /\ s + Len(VarintBytes(u)) <= to /\ s \in Nat /\ to \in Nat
      BY <1>1, <2>2, <2>3, <2>4, <2>5
    <3>2. /\ VarintEnds(c, s, to) = {s + Len(VarintBytes(u))}
          /\ VarintValue(c, s, s + Len(VarintBytes(u))) = u
          /\ ~VarintPanics(c, s, to, PackedAccepts(vt))
      BY <3>1, ReadsBack
    <3> QED BY <2>2, <3>2
  <2> QED BY <2>1, <2>2, <2>6 DEF s
<1>6. ASSUME NEW i \in 1..Len(y)
      PROVE  l + i - 1 \in ElementStarts(c, l, to) <=> i = 1 \/ y[i - 1] < 128
  <2>1. l + i - 1 \in l..(to - 1) /\ (l + i - 1 = l <=> i = 1) /\ l + i - 1 = l + (i - 1)
    BY <1>1
  <2>2. i # 1 => i - 1 \in 1..Len(y)
    BY <1>1
  <2> QED BY <1>3, <2>1, <2>2 DEF ElementStarts
<1>7. ASSUME NEW s \in ElementStarts(c, l, to)
      PROVE  \E u \in PackedAccepts(vt) : \E v :
                 Stands(s - l + 1, s, u, v) /\ ElementRaw(c, s, to) = u
  <2> DEFINE x == s - l + 1
  <2>1. x \in 1..Len(y) /\ l + x - 1 = s
    BY <1>1 DEF ElementStarts
  <2> HIDE DEF x, Stands
  <2>2. x = 1 \/ y[x - 1] < 128
    BY <1>6, <2>1
  <2>3. PICK u \in PackedAccepts(vt) : \E v : Stands(x, s, u, v)
    BY <1>5, <2>1, <2>2
  <2>4. PICK v : Stands(x, s, u, v)
    BY <2>3
  <2>5. ElementRaw(c, s, to) = u
    BY <2>4 DEF ElementRaw, Stands
  <2> QED BY <2>4, <2>5 DEF x
<1>8. IsArray(vt, c, l, to)
  <2>1. PackedWhole(vt, c, l, to)
    BY <1>4 DEF PackedWhole, VarintTypes, Fixed64Types, Fixed32Types
  <2>2. ~PackedPanics(vt, c, l, to)
    BY <1>7 DEF PackedPanics
  <2>3. \A s \in ElementStarts(c, l, to) : ~ElementPanics(vt, ElementRaw(c, s, to))
    BY <1>7
  <2> QED BY <1>1, <2>1, <2>2, <2>3 DEF IsArray
<1> DEFINE e == Elements(vt, c, l, to)
           n == Len(y)
           EndOf(i) == CHOOSE m \in VarintEnds(c, l + i - 1, to) : TRUE
           o == [i \in 0..n |-> IF i = 0 THEN 0 ELSE EndOf(i) - l]
<1>9. e \in Seq(Seq(Byte)) /\ Len(e) = n /\ ElementsBytes(vt, c, l, to) = FlattenSeq(e)
  BY <1>1, <1>8, ElementsAre
<1>10. ASSUME NEW i \in 1..n
       PROVE  VarintEnds(c, l + i - 1, to) = {EndOf(i)} /\ EndOf(i) \in (l + i)..to
  <2> DEFINE p == l + i - 1
  <2>1. p \in Nat /\ p < to /\ to # l /\ p + 1 = l + i
    BY <1>1
  <2> HIDE DEF p
  <2>2. PICK m \in (p + 1)..to : VarintEnds(c, p, to) = {m}
    BY <1>1, <1>4, <2>1, EndExists
  <2> QED BY <2>1, <2>2 DEF p
<1> HIDE DEF EndOf
<1>11. o \in [0..n -> Nat] /\ o[0] = 0 /\ \A i \in 1..n : o[i] = EndOf(i) - l /\ o[i] \in 1..n
  <2>1. \A i \in 1..n : EndOf(i) - l \in 1..n
    BY <1>1, <1>10
  <2>2. n \in Nat
    BY <1>1
  <2> HIDE DEF n
  <2> QED BY <2>1, <2>2
<1> HIDE DEF o
<1>12. o[n] = n
  <2>1. CASE n = 0
    BY <1>11, <2>1
  <2>2. CASE n # 0
    <3>1. n \in 1..n /\ l + n = to
      BY <1>1, <2>2
    <3>2. EndOf(n) = to
      BY <1>1, <1>10, <3>1
    <3> QED BY <1>1, <1>11, <3>1, <3>2
  <2> QED BY <2>1, <2>2
<1> HIDE DEF Stands
<1>13. ASSUME NEW k \in 1..n
       PROVE  /\ o[k] = o[k - 1] + Len(e[k]) /\ o[k] <= n
              /\ \A j \in 1..Len(e[k]) : y[o[k - 1] + j] = e[k][j]
  <2> DEFINE s == l + k - 1
  <2>0. k \in Nat /\ k >= 1 /\ n \in Nat /\ k <= n /\ o[k] \in 1..n /\ s \in Nat
    BY <1>1, <1>11
  <2>1. CASE k = 1 \/ y[k - 1] < 128
    <3>1. s \in ElementStarts(c, l, to)
      BY <1>6, <2>1
    <3>2. s - l + 1 = k /\ to - l = n
      BY <1>1
    <3>3. PICK u \in PackedAccepts(vt) : \E v : Stands(k, s, u, v) /\ ElementRaw(c, s, to) = u
      BY <1>7, <3>1, <3>2
    <3>4. PICK v : Stands(k, s, u, v) /\ ElementRaw(c, s, to) = u
      BY <3>3
    <3>5. e[k] = v /\ VarintEnds(c, s, to) = {s + Len(v)} /\ Sits(y, k - 1, v) /\ Len(v) \in Nat
      BY <3>1, <3>2, <3>4 DEF Elements, Stands
    <3>6. EndOf(k) = s + Len(v)
      BY <1>10, <3>5
    <3>7. o[k - 1] = k - 1
      <4>1. CASE k = 1
        BY <1>11, <4>1
      <4>2. CASE k # 1
        <5>1. k - 1 \in 1..n /\ l + (k - 1) - 1 \in Nat /\ y[k - 1] < 128 /\ s = l + (k - 1)
          BY <1>1, <2>1, <4>2
        <5>2. ~Continues(c, s)
          BY <1>3, <5>1
        <5>3. s \in VarintEnds(c, l + (k - 1) - 1, to)
          BY <1>1, <5>1, <5>2 DEF VarintEnds
        <5>4. EndOf(k - 1) = s
          BY <1>10, <5>1, <5>3
        <5>5. s - l = k - 1
          BY <1>1, <5>1
        <5>6. o[k - 1] = EndOf(k - 1) - l
          BY <1>11, <5>1
        <5> QED BY <5>4, <5>5, <5>6
      <4> QED BY <4>1, <4>2
    <3>8. o[k] = (k - 1) + Len(v)
      BY <1>1, <1>11, <3>5, <3>6
    <3>9. \A j \in 1..Len(v) : y[(k - 1) + j] = v[j]
      BY <3>5 DEF Sits
    <3> QED BY <2>0, <3>5, <3>7, <3>8, <3>9
  <2>2. CASE ~(k = 1 \/ y[k - 1] < 128)
    <3>1. s \notin ElementStarts(c, l, to) /\ to - l = n
      BY <1>1, <1>6, <2>2
    <3>2. e[k] = <<>>
      BY <3>1 DEF Elements
    <3>3. k - 1 \in 1..n /\ l + (k - 1) - 1 \in Nat /\ s = l + (k - 1)
          /\ (l + (k - 1) - 1) + 1 = s /\ s + 1 = l + k
      BY <1>1, <2>2
    <3>4. Continues(c, s)
      BY <1>3, <2>2, <3>3
    <3> DEFINE m == EndOf(k - 1)
    <3>5. m \in VarintEnds(c, l + (k - 1) - 1, to)
      BY <1>10, <3>3
    <3> HIDE DEF m, s
    <3>6. m \in VarintEnds(c, s, to)
      BY <1>1, <2>0, <3>3, <3>4, <3>5 DEF VarintEnds
    <3>7. EndOf(k) = m
      BY <1>10, <3>6 DEF s
    <3>8. o[k] = o[k - 1]
      BY <1>11, <3>3, <3>7 DEF m
    <3> QED BY <2>0, <3>2, <3>8
  <2> QED BY <2>1, <2>2
<1> HIDE DEF e
<1>14. Laid(y, e, n, o)
  BY <1>11, <1>12, <1>13 DEF Laid
<1>15. FlattenSeq(e) = y
  <2>1. FlattenSeq(e) \in Seq(Byte) /\ \E u : Laid(FlattenSeq(e), e, Len(e), u)
    BY <1>9, FlattenLaid
  <2>2. PICK u : Laid(FlattenSeq(e), e, n, u)
    BY <1>9, <2>1
  <2>3. n \in Nat /\ n <= Len(e) /\ y \in Seq(Byte) /\ e \in Seq(Seq(Byte))
    BY <1>1, <1>9
  <2> HIDE DEF n
  <2> QED BY <1>14, <2>1, <2>2, <2>3, LaidOnce
<1> QED BY <1>8, <1>9, <1>15 DEF to

-----------------------------------------------------------------------------
(* So is a String that was made valid *)

\* y is UTF-8: each of its bytes belongs to a character.
IsText(y) == y \in Seq(Byte) /\ \A i \in 1..Len(y) : InChar(y, i)

LEMMA TextBack ==
    ASSUME NEW y, IsText(y)
    PROVE  Lossy(y) = y
<1> DEFINE n == Len(y)
           e == [i \in 1..n |-> <<y[i]>>]
           o == [i \in 0..n |-> i]
<1>1. n \in Nat /\ y \in Seq(Byte) /\ \A i \in 1..n : y[i] \in Byte
  BY DEF IsText
<1>2. Lossy(y) = FlattenSeq(e)
  <2>1. \A i \in 1..n : InChar(y, i)
    BY DEF IsText
  <2> QED BY <2>1 DEF Lossy
<1>3. e \in Seq(Seq(Byte)) /\ Len(e) = n /\ \A k \in 1..n : Len(e[k]) = 1 /\ e[k][1] = y[k]
  BY <1>1
<1> HIDE DEF e
<1>4. Laid(y, e, n, o)
  <2>1. o \in [0..n -> Nat] /\ o[0] = 0 /\ o[n] = n
    BY <1>1
  <2>2. ASSUME NEW k \in 1..n
        PROVE  /\ o[k] = o[k - 1] + Len(e[k]) /\ o[k] <= n
               /\ \A j \in 1..Len(e[k]) : y[o[k - 1] + j] = e[k][j]
    <3>1. o[k] = k /\ o[k - 1] = k - 1 /\ Len(e[k]) = 1 /\ (k - 1) + 1 = k /\ k <= n
      BY <1>1, <1>3
    <3>2. \A j \in 1..1 : j = 1
      OBVIOUS
    <3> HIDE DEF o
    <3> QED BY <1>3, <3>1, <3>2
  <2> HIDE DEF o
  <2> QED BY <2>1, <2>2 DEF Laid
<1> HIDE DEF o
<1>5. FlattenSeq(e) = y
  <2>1. FlattenSeq(e) \in Seq(Byte) /\ \E u : Laid(FlattenSeq(e), e, Len(e), u)
    BY <1>3, FlattenLaid
  <2>2. PICK u : Laid(FlattenSeq(e), e, n, u)
    BY <1>3, <2>1
  <2>3. n \in Nat /\ n <= Len(e) /\ y \in Seq(Byte) /\ e \in Seq(Seq(Byte))
    BY <1>1, <1>3
  <2> HIDE DEF n
  <2> QED BY <1>4, <2>1, <2>2, <2>3, LaidOnce
<1> QED BY <1>2, <1>5

\* The w bytes of s behind p are a character.
CharAt(s, p, w) ==
    /\ w \in 1..4 /\ p + w <= Len(s) /\ CharWidth(s[p + 1]) = w
    /\ \A r \in 2..w : s[p + r] \in Continuations(s[p + 1], r)

LEMMA WidthIs == \A lead : CharWidth(lead) \in 0..4
BY DEF CharWidth

LEMMA CharIn ==
    ASSUME NEW s \in Seq(Byte), NEW p \in Nat, NEW w, CharAt(s, p, w), NEW r \in 1..w
    PROVE  InChar(s, p + r)
<1>1. w \in 1..4 /\ p + w <= Len(s) /\ CharWidth(s[p + 1]) = w
      /\ \A q \in 2..w : s[p + q] \in Continuations(s[p + 1], q)
  BY DEF CharAt
<1>2. CharPart(s, p + 1, p + w)
  <2>1. p + w < (p + 1) + w
    BY <1>1
  <2>2. ASSUME NEW k \in ((p + 1) + 1)..(p + w)
        PROVE  s[k] \in Continuations(s[p + 1], k - (p + 1) + 1)
    <3>1. k - p \in 2..w /\ p + (k - p) = k /\ k - (p + 1) + 1 = k - p
      BY <1>1
    <3> QED BY <1>1, <3>1
  <2> QED BY <1>1, <2>1, <2>2 DEF CharPart
<1>3. p + 1 \in 1..(p + r) /\ (p + 1) + w - 1 = p + w /\ p + r <= p + w
  BY <1>1
<1> QED BY <1>1, <1>2, <1>3 DEF InChar

LEMMA CharOf ==
    ASSUME NEW x \in Seq(Byte), NEW k \in 1..Len(x), InChar(x, k)
    PROVE  \E p \in Nat : \E w : /\ CharAt(x, p, w) /\ p < k /\ k <= p + w
<1>1. PICK j \in 1..k : LET last == j + CharWidth(x[j]) - 1
                        IN  k <= last /\ last <= Len(x) /\ CharPart(x, j, last)
  BY DEF InChar
<1> DEFINE w == CharWidth(x[j])
           p == j - 1
<1>2. w \in 0..4
  BY WidthIs
<1>3. k <= j + w - 1 /\ j + w - 1 <= Len(x) /\ CharPart(x, j, j + w - 1)
  BY <1>1
<1>4. CharPart(x, j, j + w - 1) => \A m \in (j + 1)..(j + w - 1) : x[m] \in Continuations(x[j], m - j + 1)
  BY DEF CharPart
<1> HIDE DEF w
<1>5. p \in Nat /\ p + 1 = j /\ w \in 1..4 /\ p + w <= Len(x) /\ p < k /\ k <= p + w
  BY <1>2, <1>3
<1>6. ASSUME NEW r \in 2..w PROVE x[p + r] \in Continuations(x[p + 1], r)
  <2>1. p + r \in (j + 1)..(j + w - 1) /\ (p + r) - j + 1 = r
    BY <1>5
  <2> HIDE DEF p
  <2> QED BY <1>3, <1>4, <1>5, <2>1
<1>7. CharWidth(x[p + 1]) = w
  BY <1>5 DEF w
<1> HIDE DEF p
<1> QED BY <1>5, <1>6, <1>7 DEF CharAt

\* The w pieces behind the p-th are a byte each.
Bytewise(e, p, w) == w \in 1..4 /\ \A r \in 1..w : Len(e[p + r]) = 1

\* They are laid one behind the other.
CopiedAt(y, e, o, p, w) ==
    \A r \in 1..w : o[p + r] = o[p] + r /\ o[p + r] <= Len(y) /\ y[o[p] + r] = e[p + r][1]

LEMMA Copied ==
    ASSUME NEW y, NEW e, NEW n \in Nat, NEW o, Laid(y, e, n, o), NEW p \in Nat, NEW w, p + w <= n,
           Bytewise(e, p, w)
    PROVE  CopiedAt(y, e, o, p, w)
<1>1. w \in 1..4 /\ \A r \in 1..w : Len(e[p + r]) = 1
  BY DEF Bytewise
<1>2. o \in [0..n -> Nat] /\ \A r \in 0..w : p + r \in 0..n
  BY <1>1 DEF Laid
<1>3. ASSUME NEW r \in 1..w
      PROVE  /\ o[p + r] = o[p + (r - 1)] + 1 /\ o[p + r] <= Len(y)
             /\ y[o[p + (r - 1)] + 1] = e[p + r][1]
  <2>1. p + r \in 1..n /\ (p + r) - 1 = p + (r - 1) /\ Len(e[p + r]) = 1 /\ 1 \in 1..1
    BY <1>1
  <2> QED BY <2>1 DEF Laid
<1>4. o[p] \in Nat /\ p + 0 = p
  BY <1>1, <1>2
<1>5. o[p + 1] = o[p] + 1
  BY <1>1, <1>3, <1>4
<1>6. w >= 2 => o[p + 2] = o[p] + 2
  BY <1>1, <1>3, <1>4, <1>5
<1>7. w >= 3 => o[p + 3] = o[p] + 3
  BY <1>1, <1>3, <1>4, <1>6
<1>8. w >= 4 => o[p + 4] = o[p] + 4
  BY <1>1, <1>3, <1>4, <1>7
<1>9. ASSUME NEW r \in 0..w PROVE o[p + r] = o[p] + r
  BY <1>1, <1>4, <1>5, <1>6, <1>7, <1>8
<1>10. ASSUME NEW r \in 1..w PROVE y[o[p] + r] = e[p + r][1]
  <2>1. r - 1 \in 0..w /\ o[p + (r - 1)] = o[p] + (r - 1) /\ (o[p] + (r - 1)) + 1 = o[p] + r
    BY <1>1, <1>4, <1>9
  <2> QED BY <1>3, <2>1
<1>11. \A r \in 1..w : r \in 0..w
  BY <1>1
<1> QED BY <1>3, <1>9, <1>10, <1>11, Zenon DEF CopiedAt

\* from_utf8_lossy gives UTF-8, whatever it is given.
LEMMA LossyIsText ==
    ASSUME NEW x \in Seq(Byte)
    PROVE  IsText(Lossy(x))
<1> DEFINE n == Len(x)
           e == [i \in 1..n |->
                    IF InChar(x, i) THEN <<x[i]>>
                    ELSE IF \E j \in 1..(i - 1) : CharPart(x, j, i) THEN <<>> ELSE Replacement]
           y == FlattenSeq(e)
<1>1. n \in Nat /\ n <= n /\ \A i \in 1..n : x[i] \in Byte
  OBVIOUS
<1>2. Lossy(x) = y
  BY DEF Lossy
<1>3. ASSUME NEW k \in 1..n
      PROVE  /\ e[k] \in Seq(Byte)
             /\ InChar(x, k) => Len(e[k]) = 1 /\ e[k][1] = x[k]
             /\ ~InChar(x, k) => e[k] = <<>> \/ e[k] = Replacement
  <2>1. Replacement \in Seq(Byte) /\ <<>> \in Seq(Byte)
    BY DEF Replacement, Byte
  <2> QED BY <1>1, <2>1
<1>4. e \in Seq(Seq(Byte)) /\ Len(e) = n
  BY <1>1, <1>3
<1> HIDE DEF e
<1>5. y \in Seq(Byte) /\ \E o : Laid(y, e, n, o)
  BY <1>4, FlattenLaid
<1>6. PICK o : Laid(y, e, n, o)
  BY <1>5
<1> HIDE DEF y
<1>7. ASSUME NEW i \in 1..Len(y)
      PROVE  InChar(y, i)
  <2>1. LiesIn(e, n, o, i)
    <3>1. n \in Nat /\ n <= Len(e)
      BY <1>1, <1>4
    <3> HIDE DEF n
    <3> QED BY <1>4, <1>6, <3>1, LaidAt
  <2>2. PICK k \in 1..n : \E r \in 1..Len(e[k]) : i = o[k - 1] + r
    BY <2>1 DEF LiesIn
  <2>3. PICK r \in 1..Len(e[k]) : i = o[k - 1] + r
    BY <2>2
  <2>4. /\ o[k - 1] \in Nat /\ o[k] = o[k - 1] + Len(e[k]) /\ o[k] <= Len(y)
        /\ \A j \in 1..Len(e[k]) : y[o[k - 1] + j] = e[k][j]
    <3>1. o \in [0..n -> Nat] /\ k - 1 \in 0..n
      BY <1>1, <1>6 DEF Laid
    <3>2. o[k] = o[k - 1] + Len(e[k]) /\ o[k] <= Len(y)
      BY <1>6 DEF Laid
    <3>3. \A j \in 1..Len(e[k]) : y[o[k - 1] + j] = e[k][j]
      BY <1>6 DEF Laid
    <3> QED BY <3>1, <3>2, <3>3
  <2>5. CASE InChar(x, k)
    <3>1. PICK p \in Nat : \E w : CharAt(x, p, w) /\ p < k /\ k <= p + w
      BY <1>1, <2>5, CharOf
    <3>2. PICK w : CharAt(x, p, w) /\ p < k /\ k <= p + w
      BY <3>1
    <3>3. w \in 1..4 /\ p + w <= n /\ CharWidth(x[p + 1]) = w
          /\ \A q \in 2..w : x[p + q] \in Continuations(x[p + 1], q)
      BY <3>2 DEF CharAt
    <3>4. \A q \in 1..w : InChar(x, p + q) /\ p + q \in 1..n
      <4>1. ASSUME NEW q \in 1..w PROVE InChar(x, p + q)
        BY <3>2, CharIn
      <4>2. \A q \in 1..w : p + q \in 1..n
        BY <1>1, <3>3
      <4> QED BY <4>1, <4>2
    <3>5. \A q \in 1..w : Len(e[p + q]) = 1 /\ e[p + q][1] = x[p + q]
      BY <1>3, <3>4
    <3>6. \A q \in 1..w : o[p + q] = o[p] + q /\ o[p + q] <= Len(y) /\ y[o[p] + q] = x[p + q]
      <4>1. n \in Nat /\ w \in 1..4 /\ p + w <= n
        BY <1>1, <3>3
      <4> HIDE DEF n
      <4>2. Bytewise(e, p, w)
        BY <3>5, <4>1 DEF Bytewise
      <4>3. CopiedAt(y, e, o, p, w)
        BY <1>6, <4>1, <4>2, Copied, Zenon
      <4>4. \A q \in 1..w : o[p + q] = o[p] + q /\ o[p + q] <= Len(y) /\ y[o[p] + q] = e[p + q][1]
        BY <4>3 DEF CopiedAt
      <4> QED BY <3>5, <4>4, Zenon
    <3> DEFINE f == o[p]
    <3>7. f \in Nat
      <4>1. o \in [0..n -> Nat] /\ p \in 0..n
        BY <1>1, <1>6, <3>3 DEF Laid
      <4> QED BY <4>1
    <3>8. \A q \in 1..w : o[p + q] = f + q /\ f + q <= Len(y) /\ y[f + q] = x[p + q]
      BY <3>6
    <3> HIDE DEF f
    <3>9. CharAt(y, f, w)
      <4>1. f + w <= Len(y) /\ y[f + 1] = x[p + 1] /\ \A q \in 2..w : y[f + q] = x[p + q]
        BY <3>3, <3>8
      <4> QED BY <3>3, <4>1 DEF CharAt
    <3>10. k - p \in 1..w /\ p + (k - p) = k
      BY <3>2, <3>3
    <3>11. i = f + (k - p)
      <4>1. o[k] = f + (k - p)
        BY <3>8, <3>10
      <4>2. Len(e[k]) = 1
        BY <1>3, <2>5
      <4>3. r = 1 /\ o[k] = o[k - 1] + 1
        BY <2>3, <2>4, <4>2
      <4> QED BY <2>3, <4>1, <4>3
    <3> QED BY <1>5, <3>7, <3>9, <3>10, <3>11, CharIn
  <2>6. CASE ~InChar(x, k)
    <3>1. Len(Replacement) = 3 /\ Replacement[1] = 239 /\ Replacement[2] = 191 /\ Replacement[3] = 189
      BY DEF Replacement
    <3>2. e[k] = Replacement
      <4>1. e[k] # <<>>
        BY <2>3
      <4> QED BY <1>3, <2>6, <4>1
    <3> DEFINE f == o[k - 1]
    <3>3. f \in Nat /\ f + 3 <= Len(y) /\ y[f + 1] = 239 /\ y[f + 2] = 191 /\ y[f + 3] = 189 /\ i = f + r
          /\ r \in 1..3
      <4>1. f \in Nat /\ f + 3 <= Len(y) /\ \A q \in 1..3 : y[f + q] = Replacement[q]
        BY <2>4, <3>1, <3>2
      <4>2. i = f + r /\ r \in 1..3
        BY <2>3, <3>1, <3>2
      <4>3. 1 \in 1..3 /\ 2 \in 1..3 /\ 3 \in 1..3
        OBVIOUS
      <4> HIDE DEF f
      <4> QED BY <3>1, <4>1, <4>2, <4>3
    <3> HIDE DEF f
    <3>4. CharAt(y, f, 3)
      <4>1. CharWidth(239) = 3
        BY DEF CharWidth
      <4>2. Continuations(239, 2) = 128..191 /\ Continuations(239, 3) = 128..191
        BY DEF Continuations
      <4>3. 191 \in 128..191 /\ 189 \in 128..191
        OBVIOUS
      <4>4. \A q \in 2..3 : y[f + q] \in Continuations(239, q)
        <5>1. \A q \in 2..3 : q = 2 \/ q = 3
          OBVIOUS
        <5> QED BY <3>3, <4>2, <4>3, <5>1
      <4> QED BY <3>3, <4>1, <4>4 DEF CharAt
    <3> QED BY <1>5, <3>3, <3>4, CharIn
  <2> QED BY <2>5, <2>6
<1> QED BY <1>2, <1>5, <1>7 DEF IsText

-----------------------------------------------------------------------------
(* What encode writes for a value, and that it is read back *)

\* Values are a varint, some bytes of a fixed number, or a payload and its length.
IsVarint(f) == (f.kind = "Typed" /\ f.type \in VarintTypes) \/ (f.kind = "Unknown" /\ f.wire = 0)
IsFixed(f) == \/ f.kind = "Typed" /\ f.type \in Fixed64Types \cup Fixed32Types
              \/ f.kind = "Unknown" /\ f.wire \in {1, 5}
IsDelimited(f) == \/ f.kind = "Typed" /\ f.type \in BlobTypes
                  \/ f.kind = "Packed"
                  \/ f.kind = "Unknown" /\ f.wire = 2
IsRest(f) == f.kind \in {"Incomplete", "Invalid"}

\* The bytes written for the payload (l, z].
Content(f, b, l, z) ==
    IF f.kind = "Typed" /\ f.type = "String" THEN Lossy(Bytes(b, l, z))
    ELSE IF f.kind = "Packed" /\ f.type \in VarintTypes THEN ElementsBytes(f.type, b, l, z)
    ELSE Bytes(b, l, z)

LEMMA TypesApart ==
    /\ \A vt \in VarintTypes : vt \notin Fixed64Types \cup Fixed32Types \cup BlobTypes \cup {"Message"}
    /\ \A vt \in Fixed64Types \cup Fixed32Types : vt \notin VarintTypes \cup BlobTypes \cup {"Message"}
    /\ \A vt \in Fixed64Types : vt \notin Fixed32Types
    /\ \A vt \in BlobTypes : vt \notin VarintTypes \cup Fixed64Types \cup Fixed32Types \cup {"Message"}
    /\ \A vt \in PackableTypes : vt \in VarintTypes \cup Fixed64Types \cup Fixed32Types
BY DEF VarintTypes, Fixed64Types, Fixed32Types, BlobTypes, PackableTypes

LEMMA WritesVarint ==
    ASSUME NEW b, NEW f, IsVarint(f)
    PROVE  /\ f.kind = "Typed" => ValueBytes(b, f) = ElementBytes(f.type, VarintValue(b, f.at, f.to))
           /\ f.kind = "Unknown" => ValueBytes(b, f) = VarintBytes(VarintValue(b, f.at, f.to))
<1>1. CASE f.kind = "Typed" /\ f.type \in VarintTypes
  <2>1. f.type # "String" /\ f.type # "Bytes"
    BY <1>1, TypesApart DEF BlobTypes
  <2> QED BY <1>1, <2>1 DEF ValueBytes
<1>2. CASE f.kind = "Unknown" /\ f.wire = 0
  BY <1>2 DEF ValueBytes
<1> QED BY <1>1, <1>2 DEF IsVarint

LEMMA WritesBytes ==
    ASSUME NEW b, NEW f, IsFixed(f) \/ IsRest(f)
    PROVE  ValueBytes(b, f) = Bytes(b, f.at, f.to) /\ ~FieldPanics(b, f)
<1>1. CASE f.kind = "Typed" /\ f.type \in Fixed64Types \cup Fixed32Types
  <2>1. f.type \notin VarintTypes /\ f.type # "String" /\ f.type # "Bytes"
    BY <1>1, TypesApart DEF BlobTypes
  <2> QED BY <1>1, <2>1 DEF ValueBytes, FieldPanics
<1>2. CASE f.kind = "Unknown" /\ f.wire \in {1, 5}
  BY <1>2 DEF ValueBytes, FieldPanics
<1>3. CASE IsRest(f)
  BY <1>3 DEF ValueBytes, FieldPanics, IsRest
<1> QED BY <1>1, <1>2, <1>3 DEF IsFixed

LEMMA WritesDelimited ==
    ASSUME NEW b, NEW f, IsDelimited(f), NEW l, NEW z, Payload(b, f.at, f.to) = <<l, z>>
    PROVE  ValueBytes(b, f) = Delimited(Content(f, b, l, z))
<1>1. CASE f.kind = "Typed" /\ f.type \in BlobTypes
  <2>1. f.type \notin VarintTypes /\ (f.type = "String" \/ f.type = "Bytes")
    BY <1>1, TypesApart DEF BlobTypes
  <2> QED BY <1>1, <2>1 DEF ValueBytes, Content
<1>2. CASE f.kind = "Packed"
  BY <1>2 DEF ValueBytes, Content
<1>3. CASE f.kind = "Unknown" /\ f.wire = 2
  BY <1>3 DEF ValueBytes, Content
<1> QED BY <1>1, <1>2, <1>3 DEF IsDelimited

LEMMA WritePanics ==
    ASSUME NEW b, NEW f, NEW l, NEW z, IsDelimited(f) => Payload(b, f.at, f.to) = <<l, z>>
    PROVE  /\ f.kind = "Typed" /\ f.type \in VarintTypes =>
                (FieldPanics(b, f) <=> ElementPanics(f.type, VarintValue(b, f.at, f.to)))
           /\ f.kind = "Packed" /\ f.type \in VarintTypes =>
                (FieldPanics(b, f) <=> \E s \in ElementStarts(b, l, z) :
                                          ElementPanics(f.type, ElementRaw(b, s, z)))
           /\ (f.kind \notin {"Typed", "Packed"} \/ f.type \notin VarintTypes) => ~FieldPanics(b, f)
<1>1. ASSUME f.kind = "Packed" /\ f.type \in VarintTypes
      PROVE  FieldPanics(b, f) <=> \E s \in ElementStarts(b, l, z) :
                                      ElementPanics(f.type, ElementRaw(b, s, z))
  BY <1>1 DEF FieldPanics, IsDelimited
<1> QED BY <1>1 DEF FieldPanics

\* How a value of each shape is found.
OriginFits(f) == f.origin = CASE f.kind = "Typed" -> "value" [] f.kind = "Packed" -> "packed" [] OTHER -> "unknown"
Accepted(f) == IF f.kind = "Typed" THEN Accepts(f.type) ELSE U64
FixedSize(f) ==
    IF (f.kind = "Typed" /\ f.type \in Fixed64Types) \/ (f.kind = "Unknown" /\ f.wire = 1)
    THEN Size64 ELSE Size32

LEMMA Shapes ==
    ASSUME NEW b, NEW f \in FieldValue, NEW hi, Found(b, f, hi)
    PROVE  \/ f.kind = "Message" \/ IsRest(f)
           \/ IsVarint(f) \/ IsFixed(f) \/ IsDelimited(f)
<1>1. f.kind \in Kinds /\ f.type \in ValueTypes /\ f.wire \in 0..7
  BY DEF FieldValue
<1>2. CASE f.kind = "Typed"
  <2>1. f.type \in ScalarTypes
    BY <1>1, <1>2 DEF Found, ValueTypes
  <2> QED BY <1>2, <2>1 DEF ScalarTypes, IsVarint, IsFixed, IsDelimited
<1>3. CASE f.kind = "Unknown"
  <2>1. f.wire \in {0, 1, 2, 5}
    BY <1>3 DEF Found
  <2> QED BY <1>3, <2>1 DEF IsVarint, IsFixed, IsDelimited
<1> QED BY <1>1, <1>2, <1>3 DEF Kinds, IsRest, IsDelimited

LEMMA FoundVarint ==
    ASSUME NEW b, NEW f \in FieldValue, IsVarint(f), NEW hi \in Nat, f.at <= f.to, f.to <= hi
    PROVE  Found(b, f, hi) <=> /\ OriginFits(f)
                               /\ ~VarintPanics(b, f.at, hi, Accepted(f))
                               /\ \E r \in VarintReads(b, f.at, hi, Accepted(f)) : f.to = r[1]
<1>1. f.at \in Nat /\ f.to \in Nat /\ f.to \in f.at..hi /\ f.wire \in 0..7
  BY DEF FieldValue
<1>2. CASE f.kind = "Typed" /\ f.type \in VarintTypes
  <2>1. f.type \notin Fixed64Types \cup Fixed32Types \cup BlobTypes \cup {"Message"}
    BY <1>2, TypesApart
  <2>2. f.to \in ScalarEnds(f.type, b, f.at, hi)
          <=> \E r \in VarintReads(b, f.at, hi, Accepts(f.type)) : f.to = r[1]
    BY <1>1, <1>2, <2>1 DEF ScalarEnds
  <2>3. ScalarPanics(f.type, b, f.at, hi) <=> VarintPanics(b, f.at, hi, Accepts(f.type))
    BY <1>2, <2>1 DEF ScalarPanics
  <2>4. Found(b, f, hi) <=> /\ f.origin = "value"
                            /\ ~ScalarPanics(f.type, b, f.at, hi)
                            /\ f.to \in ScalarEnds(f.type, b, f.at, hi)
    BY <1>2, <2>1 DEF Found
  <2> QED BY <1>2, <2>2, <2>3, <2>4 DEF OriginFits, Accepted
<1>3. CASE f.kind = "Unknown" /\ f.wire = 0
  <2>1. f.to \in UnknownEnds(0, b, f.at, hi)
          <=> \E r \in VarintReads(b, f.at, hi, U64) : f.to = r[1]
    BY <1>1 DEF UnknownEnds
  <2>2. UnknownPanics(0, b, f.at, hi) <=> VarintPanics(b, f.at, hi, U64)
    BY DEF UnknownPanics
  <2>3. Found(b, f, hi) <=> /\ f.origin = "unknown"
                            /\ ~UnknownPanics(0, b, f.at, hi)
                            /\ f.to \in UnknownEnds(0, b, f.at, hi)
    BY <1>3 DEF Found
  <2> QED BY <1>3, <2>1, <2>2, <2>3 DEF OriginFits, Accepted
<1> QED BY <1>2, <1>3 DEF IsVarint

LEMMA FoundFixed ==
    ASSUME NEW b, NEW f \in FieldValue, IsFixed(f), NEW hi \in Nat, f.at <= f.to, f.to <= hi
    PROVE  Found(b, f, hi) <=> OriginFits(f) /\ f.to = f.at + FixedSize(f)
<1>1. f.at \in Nat /\ f.to \in Nat /\ f.to \in f.at..hi /\ f.wire \in 0..7
  BY DEF FieldValue
<1>2. CASE f.kind = "Typed" /\ f.type \in Fixed64Types \cup Fixed32Types
  <2>1. f.type \notin VarintTypes \cup BlobTypes \cup {"Message"}
        /\ (f.type \in Fixed64Types => f.type \notin Fixed32Types)
    BY <1>2, TypesApart
  <2>2. f.to \in ScalarEnds(f.type, b, f.at, hi) <=> f.to = f.at + FixedSize(f)
    BY <1>1, <1>2, <2>1 DEF ScalarEnds, FixedSize
  <2>3. ~ScalarPanics(f.type, b, f.at, hi)
    BY <1>2, <2>1 DEF ScalarPanics
  <2>4. Found(b, f, hi) <=> /\ f.origin = "value"
                            /\ ~ScalarPanics(f.type, b, f.at, hi)
                            /\ f.to \in ScalarEnds(f.type, b, f.at, hi)
    BY <1>2, <2>1 DEF Found
  <2> QED BY <1>2, <2>2, <2>3, <2>4 DEF OriginFits
<1>3. CASE f.kind = "Unknown" /\ f.wire \in {1, 5}
  <2>1. f.to \in UnknownEnds(f.wire, b, f.at, hi) <=> f.to = f.at + FixedSize(f)
    BY <1>1, <1>3 DEF UnknownEnds, FixedSize
  <2>2. ~UnknownPanics(f.wire, b, f.at, hi)
    BY <1>3 DEF UnknownPanics
  <2>3. Found(b, f, hi) <=> /\ f.origin = "unknown"
                            /\ ~UnknownPanics(f.wire, b, f.at, hi)
                            /\ f.to \in UnknownEnds(f.wire, b, f.at, hi)
    BY <1>3 DEF Found
  <2> QED BY <1>3, <2>1, <2>2, <2>3 DEF OriginFits
<1> QED BY <1>2, <1>3 DEF IsFixed

LEMMA FoundDelimited ==
    ASSUME NEW b, NEW f \in FieldValue, IsDelimited(f), NEW hi \in Nat, f.at <= f.to, f.to <= hi
    PROVE  Found(b, f, hi) <=> /\ OriginFits(f) /\ ~VarintPanics(b, f.at, hi, U64)
                               /\ \E q \in Payloads(b, f.at, hi) :
                                    /\ q[2] = f.to
                                    /\ f.kind = "Packed" => /\ ~PackedPanics(f.type, b, q[1], q[2])
                                                            /\ PackedWhole(f.type, b, q[1], q[2])
<1>1. f.at \in Nat /\ f.to \in Nat /\ f.to \in f.at..hi /\ f.wire \in 0..7
  BY DEF FieldValue
<1>2. CASE f.kind = "Typed" /\ f.type \in BlobTypes
  <2>1. f.type \notin VarintTypes \cup Fixed64Types \cup Fixed32Types \cup {"Message"}
    BY <1>2, TypesApart
  <2>2. f.to \in ScalarEnds(f.type, b, f.at, hi)
          <=> \E r \in Payloads(b, f.at, hi) : f.to = r[2]
    BY <1>1, <1>2, <2>1 DEF ScalarEnds
  <2>3. ScalarPanics(f.type, b, f.at, hi) <=> VarintPanics(b, f.at, hi, U64)
    BY <1>2, <2>1 DEF ScalarPanics
  <2>4. Found(b, f, hi) <=> /\ f.origin = "value"
                            /\ ~ScalarPanics(f.type, b, f.at, hi)
                            /\ f.to \in ScalarEnds(f.type, b, f.at, hi)
    BY <1>2, <2>1 DEF Found
  <2> QED BY <1>2, <2>2, <2>3, <2>4 DEF OriginFits
<1>3. CASE f.kind = "Unknown" /\ f.wire = 2
  <2>1. f.to \in UnknownEnds(2, b, f.at, hi) <=> \E r \in Payloads(b, f.at, hi) : f.to = r[2]
    BY <1>1 DEF UnknownEnds
  <2>2. UnknownPanics(2, b, f.at, hi) <=> VarintPanics(b, f.at, hi, U64)
    BY DEF UnknownPanics
  <2>3. Found(b, f, hi) <=> /\ f.origin = "unknown"
                            /\ ~UnknownPanics(2, b, f.at, hi)
                            /\ f.to \in UnknownEnds(2, b, f.at, hi)
    BY <1>3 DEF Found
  <2> QED BY <1>3, <2>1, <2>2, <2>3 DEF OriginFits
<1>4. CASE f.kind = "Packed"
  <2>1. Found(b, f, hi) <=> /\ f.origin = "packed"
                            /\ \E q \in Payloads(b, f.at, hi) :
                                  /\ q[2] = f.to
                                  /\ ~PackedPanics(f.type, b, q[1], q[2])
                                  /\ PackedWhole(f.type, b, q[1], q[2])
    BY <1>4 DEF Found
  <2>2. Payloads(b, f.at, hi) # {} => ~VarintPanics(b, f.at, hi, U64)
    BY <1>1, PayloadReads
  <2> QED BY <1>4, <2>1, <2>2 DEF OriginFits
<1> QED BY <1>2, <1>3, <1>4 DEF IsDelimited

\* y is what encode writes for a value like f.
IsPayload(f, s) ==
    /\ s \in Seq(Byte)
    /\ f.kind = "Typed" /\ f.type = "String" => IsText(s)
    /\ f.kind = "Packed" => /\ f.type \in PackableTypes
                            /\ f.type \in VarintTypes => IsElements(f.type, s)
                            /\ f.type \notin VarintTypes => PackedWhole(f.type, s, 0, Len(s))

IsValue(f, y) ==
    /\ y \in Seq(Byte)
    /\ IsVarint(f) => \E n \in Accepted(f) :
          /\ n \in U64 /\ y = VarintBytes(n)
          /\ f.kind = "Typed" => ElementBytes(f.type, n) = y /\ ~ElementPanics(f.type, n)
    /\ IsFixed(f) => Len(y) = FixedSize(f)
    /\ IsDelimited(f) => \E s : IsPayload(f, s) /\ y = Delimited(s)

LEMMA ShapesApart ==
    ASSUME NEW f
    PROVE  /\ IsVarint(f) => ~IsFixed(f) /\ ~IsDelimited(f) /\ ~IsRest(f)
           /\ IsFixed(f) => ~IsDelimited(f) /\ ~IsRest(f)
           /\ IsDelimited(f) => ~IsRest(f)
<1>1. CASE f.kind = "Typed"
  BY <1>1, TypesApart DEF IsVarint, IsFixed, IsDelimited, IsRest
<1>2. CASE f.kind # "Typed"
  BY <1>2 DEF IsVarint, IsFixed, IsDelimited, IsRest
<1> QED BY <1>1, <1>2

LEMMA AcceptedU64 ==
    ASSUME NEW f, IsVarint(f)
    PROVE  /\ Accepted(f) \subseteq U64
           /\ f.kind = "Typed" => f.type \in VarintTypes
           /\ f.kind = "Typed" \/ (f.kind = "Unknown" /\ Accepted(f) = U64)
<1>1. CASE f.kind = "Typed"
  BY <1>1, AcceptsRange DEF Accepted, IsVarint
<1>2. CASE f.kind # "Typed"
  BY <1>2 DEF Accepted, IsVarint
<1> QED BY <1>1, <1>2

LEMMA VarintWritten ==
    ASSUME NEW b, NEW f \in FieldValue, IsVarint(f), NEW hi \in Nat, f.at <= f.to, f.to <= hi,
           Found(b, f, hi), ~FieldPanics(b, f)
    PROVE  IsValue(f, ValueBytes(b, f))
<1> DEFINE u == VarintValue(b, f.at, f.to)
<1>1. f.at \in Nat /\ f.to \in Nat
  BY DEF FieldValue
<1>2. u \in Accepted(f)
  <2>1. PICK r \in VarintReads(b, f.at, hi, Accepted(f)) : f.to = r[1]
    BY FoundVarint
  <2> QED BY <2>1 DEF VarintReads
<1>3. u \in U64
  BY <1>2, AcceptedU64
<1> HIDE DEF u
<1>4. \E n \in Accepted(f) : /\ n \in U64 /\ ValueBytes(b, f) = VarintBytes(n)
                             /\ f.kind = "Typed" => /\ ElementBytes(f.type, n) = ValueBytes(b, f)
                                                    /\ ~ElementPanics(f.type, n)
  <2>1. CASE f.kind = "Unknown"
    <3>1. ValueBytes(b, f) = VarintBytes(u)
      BY <2>1, WritesVarint DEF u
    <3> QED BY <1>2, <1>3, <2>1, <3>1
  <2>2. CASE f.kind = "Typed"
    <3>1. f.type \in VarintTypes /\ Accepted(f) = Accepts(f.type)
      BY <2>2, AcceptedU64 DEF Accepted
    <3>2. ValueBytes(b, f) = ElementBytes(f.type, u)
      BY <2>2, WritesVarint DEF u
    <3>3. ~ElementPanics(f.type, u)
      BY <2>2, <3>1 DEF FieldPanics, u
    <3>4. f.type = "SInt32" => u < M32
      BY <1>2, <3>1, AcceptsRange
    <3>5. PICK n \in U64 : /\ n = u \/ (f.type = "Bool" /\ n \in {0, 1})
                           /\ ElementBytes(f.type, u) = VarintBytes(n)
                           /\ ElementBytes(f.type, n) = VarintBytes(n)
      BY <1>3, <3>1, <3>4, ElementAgain
    <3>6. n \in Accepts(f.type) /\ ~ElementPanics(f.type, n)
      BY <1>2, <1>3, <3>1, <3>3, <3>5, SameAccepted
    <3> QED BY <3>1, <3>2, <3>5, <3>6
  <2> QED BY <2>1, <2>2, AcceptedU64
<1>5. ValueBytes(b, f) \in Seq(Byte)
  <2>1. PICK n \in Accepted(f) : n \in U64 /\ ValueBytes(b, f) = VarintBytes(n)
    BY <1>4
  <2> QED BY <2>1, VarintIs
<1> QED BY <1>4, <1>5, ShapesApart DEF IsValue

LEMMA VarintRead ==
    ASSUME NEW c, NEW g \in FieldValue, IsVarint(g), OriginFits(g), NEW y, IsValue(g, y),
           Sits(c, g.at, y), g.to = g.at + Len(y), NEW e \in Nat, g.to <= e
    PROVE  Found(c, g, e) /\ ~FieldPanics(c, g) /\ ValueBytes(c, g) = y
<1>1. g.at \in Nat /\ g.to \in Nat
  BY DEF FieldValue
<1>2. PICK n \in Accepted(g) :
          /\ n \in U64 /\ y = VarintBytes(n)
          /\ g.kind = "Typed" => ElementBytes(g.type, n) = y /\ ~ElementPanics(g.type, n)
  BY DEF IsValue
<1>3. /\ VarintValue(c, g.at, g.to) = n
      /\ VarintReads(c, g.at, e, Accepted(g)) = {<<g.to, n>>}
      /\ ~VarintPanics(c, g.at, e, Accepted(g))
  BY <1>1, <1>2, ReadsBack
<1>4. Len(y) \in Nat
  BY DEF IsValue
<1>5. Found(c, g, e)
  <2>1. g.at <= g.to
    BY <1>1, <1>4
  <2>2. \E r \in VarintReads(c, g.at, e, Accepted(g)) : g.to = r[1]
    BY <1>3
  <2> QED BY <1>3, <2>1, <2>2, FoundVarint
<1>6. ValueBytes(c, g) = y
  BY <1>2, <1>3, WritesVarint, AcceptedU64
<1>7. ~FieldPanics(c, g)
  BY <1>2, <1>3, AcceptedU64 DEF FieldPanics
<1> QED BY <1>5, <1>6, <1>7

LEMMA FixedWritten ==
    ASSUME NEW b \in Seq(Byte), NEW f \in FieldValue, IsFixed(f) \/ IsRest(f), NEW hi \in Nat,
           f.at <= f.to, f.to <= hi, hi <= Len(b), Found(b, f, hi)
    PROVE  IsValue(f, ValueBytes(b, f))
<1>1. f.at \in Nat /\ f.to \in Nat
  BY DEF FieldValue
<1>2. ValueBytes(b, f) = Bytes(b, f.at, f.to)
  BY WritesBytes
<1>3. Bytes(b, f.at, f.to) \in Seq(Byte) /\ Len(Bytes(b, f.at, f.to)) = f.to - f.at
  <2>1. f.to <= Len(b)
    BY <1>1
  <2> QED BY <1>1, <2>1, BytesIs
<1>4. ASSUME IsFixed(f) PROVE f.to - f.at = FixedSize(f)
  <2>1. FixedSize(f) \in Nat
    BY WireAssumption DEF FixedSize
  <2> QED BY <1>1, <1>4, <2>1, FoundFixed
<1> QED BY <1>2, <1>3, <1>4, ShapesApart DEF IsValue

LEMMA FixedRead ==
    ASSUME NEW c \in Seq(Byte), NEW g \in FieldValue, IsFixed(g), OriginFits(g),
           NEW y, IsValue(g, y), Sits(c, g.at, y), g.to = g.at + Len(y),
           NEW e \in Nat, g.to <= e
    PROVE  Found(c, g, e) /\ ~FieldPanics(c, g) /\ ValueBytes(c, g) = y
<1>1. g.at \in Nat /\ g.to \in Nat
  BY DEF FieldValue
<1>2. y \in Seq(Byte) /\ Len(y) \in Nat /\ Len(y) = FixedSize(g)
  BY DEF IsValue
<1>3. Found(c, g, e)
  BY <1>1, <1>2, FoundFixed
<1>4. Bytes(c, g.at, g.to) = y
  BY <1>1, <1>2, SitsBytes
<1> QED BY <1>3, <1>4, WritesBytes

LEMMA DelimitedSeq ==
    ASSUME NEW s \in Seq(Byte)
    PROVE  Delimited(s) \in Seq(Byte) /\ Len(s) <= Len(Delimited(s))
<1> DEFINE u == Len(s) % M64
           v == VarintBytes(u)
<1>1. u \in U64
  BY Numbers DEF U64
<1> HIDE DEF u
<1>2. v \in Seq(Byte)
  BY <1>1, VarintIs
<1>3. Delimited(s) = v \o s
  BY DEF Delimited, u
<1> HIDE DEF v
<1> QED BY <1>2, <1>3

LEMMA DelimitedWritten ==
    ASSUME NEW b \in Seq(Byte), NEW f \in FieldValue, IsDelimited(f), NEW hi \in Nat,
           f.at <= f.to, f.to <= hi, hi <= Len(b), Found(b, f, hi), ~FieldPanics(b, f)
    PROVE  IsValue(f, ValueBytes(b, f))
<1>1. f.at \in Nat /\ f.to \in Nat
  BY DEF FieldValue
<1>2. PICK q \in Payloads(b, f.at, hi) :
         /\ q[2] = f.to
         /\ f.kind = "Packed" => /\ ~PackedPanics(f.type, b, q[1], q[2])
                                 /\ PackedWhole(f.type, b, q[1], q[2])
  BY FoundDelimited
<1> DEFINE l == q[1]
           z == q[2]
           s == Content(f, b, l, z)
<1>3. l \in Nat /\ z \in Nat /\ l <= z /\ z <= Len(b)
  BY <1>1, PayloadsBounds
<1>4. Payload(b, f.at, f.to) = <<l, z>>
  <2>1. Payload(b, f.at, f.to) = q
    <3>1. Payload(b, f.at, q[2]) = q
      BY <1>1, PayloadOf
    <3> QED BY <1>2, <3>1
  <2>2. q = <<q[1], q[2]>>
    BY DEF Payloads
  <2> QED BY <2>1, <2>2
<1> HIDE DEF l, z
<1>5. Bytes(b, l, z) \in Seq(Byte) /\ Len(Bytes(b, l, z)) = z - l
  BY <1>3, BytesIs
<1>6. IsPayload(f, s)
  <2>1. CASE f.kind = "Typed" /\ f.type = "String"
    <3>1. s = Lossy(Bytes(b, l, z))
      BY <2>1 DEF Content
    <3>2. IsText(s)
      BY <1>5, <3>1, LossyIsText
    <3> HIDE DEF s
    <3> QED BY <2>1, <3>2 DEF IsPayload, IsText
  <2>2. CASE f.kind = "Packed" /\ f.type \in VarintTypes
    <3>1. s = ElementsBytes(f.type, b, l, z)
      BY <2>2 DEF Content
    <3>2. f.type \in PackableTypes
      BY <1>2, <2>2 DEF PackedPanics
    <3>3. IsArray(f.type, b, l, z)
      <4>1. \A t \in ElementStarts(b, l, z) : ~ElementPanics(f.type, ElementRaw(b, t, z))
        BY <1>4, <2>2, WritePanics
      <4> QED BY <1>2, <1>3, <2>2, <3>2, <4>1 DEF IsArray, l, z
    <3>4. IsElements(f.type, s)
      <4> DEFINE seqs == Elements(f.type, b, l, z)
      <4>1. /\ seqs \in Seq(Seq(Byte)) /\ Len(seqs) = z - l /\ s = FlattenSeq(seqs)
            /\ \A i \in 1..(z - l) : seqs[i] = <<>> \/ IsElement(f.type, seqs[i])
        BY <3>1, <3>3, ElementsAre
      <4> HIDE DEF seqs, s
      <4>2. f.type \in VarintTypes \cap PackableTypes
        BY <2>2, <3>2
      <4> QED BY <4>1, <4>2, ElementsLaid
    <3> HIDE DEF s
    <3> QED BY <2>2, <3>2, <3>4 DEF IsPayload, IsElements
  <2>3. CASE f.kind = "Packed" /\ f.type \notin VarintTypes
    <3>1. s = Bytes(b, l, z)
      BY <2>3 DEF Content
    <3>2. f.type \in PackableTypes /\ PackedWhole(f.type, b, l, z)
      BY <1>2, <2>3 DEF PackedPanics, l, z
    <3>3. Len(s) - 0 = z - l
      BY <1>3, <1>5, <3>1
    <3> HIDE DEF s
    <3>4. PackedWhole(f.type, s, 0, Len(s))
      <4>1. f.type \in Fixed64Types \cup Fixed32Types
        BY <2>3, <3>2, TypesApart
      <4> QED BY <3>2, <3>3, <4>1, TypesApart DEF PackedWhole
    <3> QED BY <1>5, <2>3, <3>1, <3>2, <3>4 DEF IsPayload
  <2>4. CASE ~(f.kind = "Typed" /\ f.type = "String") /\ f.kind # "Packed"
    BY <1>5, <2>4 DEF Content, IsPayload
  <2> QED BY <2>1, <2>2, <2>3, <2>4
<1>7. ValueBytes(b, f) = Delimited(s)
  BY <1>4, WritesDelimited
<1> HIDE DEF s
<1>8. s \in Seq(Byte)
  BY <1>6 DEF IsPayload
<1> QED BY <1>6, <1>7, <1>8, DelimitedSeq, ShapesApart DEF IsValue

LEMMA DelimitedRead ==
    ASSUME NEW c \in Seq(Byte), Len(c) < M64, NEW g \in FieldValue, IsDelimited(g), OriginFits(g),
           NEW y, IsValue(g, y), Sits(c, g.at, y), g.to = g.at + Len(y),
           NEW e \in Nat, g.to <= e
    PROVE  Found(c, g, e) /\ ~FieldPanics(c, g) /\ ValueBytes(c, g) = y
<1>1. g.at \in Nat /\ g.to \in Nat
  BY DEF FieldValue
<1>2. PICK s : IsPayload(g, s) /\ y = Delimited(s)
  BY DEF IsValue
<1>3. s \in Seq(Byte) /\ Len(s) \in Nat
  BY <1>2 DEF IsPayload
<1>4. Len(s) < M64 /\ Len(y) \in Nat
  <2>1. Len(s) <= Len(y) /\ y \in Seq(Byte)
    BY <1>2, <1>3, DelimitedSeq
  <2>2. g.at + Len(y) <= Len(c)
    BY DEF Sits
  <2> QED BY <1>1, <1>3, <2>1, <2>2, Numbers
<1> DEFINE l == g.at + Len(VarintBytes(Len(s)))
<1>5. /\ l \in Nat /\ g.to = l + Len(s) /\ l <= g.to
      /\ Payloads(c, g.at, e) = {<<l, g.to>>} /\ ~VarintPanics(c, g.at, e, U64)
      /\ Sits(c, l, s)
  BY <1>1, <1>2, <1>3, <1>4, DelimitedBack
<1> HIDE DEF l
<1>6. Payload(c, g.at, g.to) = <<l, g.to>>
  <2> DEFINE r == <<l, g.to>>
  <2>1. r \in Payloads(c, g.at, e) /\ r[2] = g.to
    BY <1>5
  <2> HIDE DEF r
  <2>2. Payload(c, g.at, r[2]) = r
    BY <1>1, <2>1, PayloadOf
  <2> QED BY <2>1, <2>2 DEF r
<1>7. Bytes(c, l, g.to) = s
  BY <1>3, <1>5, SitsBytes
<1>8. ASSUME g.kind = "Packed"
      PROVE  ~PackedPanics(g.type, c, l, g.to) /\ PackedWhole(g.type, c, l, g.to)
  <2>1. CASE g.type \in VarintTypes
    <3>1. IsArray(g.type, c, l, g.to)
      BY <1>2, <1>5, <1>8, <2>1, ArrayBack DEF IsPayload
    <3> QED BY <3>1 DEF IsArray
  <2>2. CASE g.type \notin VarintTypes
    <3>1. g.type \in PackableTypes /\ PackedWhole(g.type, s, 0, Len(s))
      BY <1>2, <1>8, <2>2 DEF IsPayload
    <3>2. Len(s) - 0 = g.to - l
      <4>1. g.to = l + Len(s) /\ l \in Nat
        BY <1>5
      <4> QED BY <1>3, <4>1
    <3>3. PackedWhole(g.type, c, l, g.to)
      <4>1. g.type \in Fixed64Types \cup Fixed32Types
        BY <2>2, <3>1, TypesApart
      <4> QED BY <3>1, <3>2, <4>1, TypesApart DEF PackedWhole
    <3> QED BY <2>2, <3>1, <3>3 DEF PackedPanics
  <2> QED BY <2>1, <2>2
<1>9. Found(c, g, e)
  <2>1. \E q \in Payloads(c, g.at, e) :
           /\ q[2] = g.to
           /\ g.kind = "Packed" => /\ ~PackedPanics(g.type, c, q[1], q[2])
                                   /\ PackedWhole(g.type, c, q[1], q[2])
    BY <1>5, <1>8
  <2>2. g.at <= g.to
    BY <1>1, <1>4
  <2> QED BY <1>5, <2>1, <2>2, FoundDelimited
<1>10. Content(g, c, l, g.to) = s
  <2>1. CASE g.kind = "Typed" /\ g.type = "String"
    <3>1. Lossy(s) = s
      BY <1>2, <2>1, TextBack DEF IsPayload
    <3> QED BY <1>7, <2>1, <3>1 DEF Content
  <2>2. CASE g.kind = "Packed" /\ g.type \in VarintTypes
    <3>1. ElementsBytes(g.type, c, l, g.to) = s
      BY <1>2, <1>5, <2>2, ArrayBack DEF IsPayload
    <3> QED BY <2>2, <3>1 DEF Content
  <2> QED BY <1>7, <2>1, <2>2 DEF Content
<1>11. ValueBytes(c, g) = y
  BY <1>2, <1>6, <1>10, WritesDelimited
<1>12. ~FieldPanics(c, g)
  <2>1. CASE g.kind = "Packed" /\ g.type \in VarintTypes
    <3>1. IsArray(g.type, c, l, g.to)
      BY <1>2, <1>5, <2>1, ArrayBack DEF IsPayload
    <3> QED BY <1>6, <2>1, <3>1, WritePanics DEF IsArray
  <2>2. CASE ~(g.kind = "Packed" /\ g.type \in VarintTypes)
    <3>1. g.kind \notin {"Typed", "Packed"} \/ g.type \notin VarintTypes
      BY <2>2, TypesApart DEF IsDelimited
    <3> QED BY <1>6, <3>1, WritePanics
  <2> QED BY <2>1, <2>2
<1> QED BY <1>9, <1>11, <1>12

\* The bytes of an unfinished value are unfinished in another place.
LEMMA ShortAlike ==
    ASSUME NEW b, NEW p, NEW hi, NEW c, NEW q, NEW e,
           Alike(b, p, hi, c, q, e), Alike(c, q, e, b, p, hi),
           NEW org, NEW vt \in ValueTypes, NEW w, Short(org, vt, w, b, p, hi)
    PROVE  Short(org, vt, w, c, q, e)
<1>1. p \in Nat /\ hi \in Nat /\ q \in Nat /\ e \in Nat /\ p <= hi /\ q <= e /\ hi - p = e - q
  BY DEF Alike
<1>2. ASSUME ~VarintPanics(b, p, hi, U64)
      PROVE  /\ ~VarintPanics(c, q, e, U64) /\ ~ShiftOverflows(c, q, e)
             /\ Payloads(b, p, hi) = {} => Payloads(c, q, e) = {}
  <2>1. ~VarintPanics(c, q, e, U64)
    BY <1>2, PanicsAlike
  <2>2. ~ShiftOverflows(c, q, e)
    BY <2>1 DEF VarintPanics
  <2>3. ASSUME NEW r \in Payloads(c, q, e) PROVE Payloads(b, p, hi) # {}
    <3>1. PICK x \in Nat, y \in Nat : /\ x <= y /\ y <= e - q /\ r = <<q + x, q + y>>
                                      /\ y <= hi - p <=> <<p + x, p + y>> \in Payloads(b, p, hi)
      BY <2>2, PayloadsOfBoth
    <3>2. <<p + x, p + y>> \in Payloads(b, p, hi)
      BY <1>1, <3>1
    <3> QED BY <3>2
  <2> QED BY <2>1, <2>2, <2>3
<1>3. CASE org = "value" /\ vt = "Message"
  BY <1>2, <1>3 DEF Short
<1>4. CASE org = "value" /\ vt # "Message"
  <2>1. vt \in ScalarTypes
    BY <1>4 DEF ValueTypes
  <2>2. ~ScalarPanics(vt, b, p, hi) /\ ScalarEnds(vt, b, p, hi) = {}
    BY <1>4 DEF Short
  <2>3. ~ScalarPanics(vt, c, q, e)
    BY <2>1, <2>2, ScalarPanicsAlike
  <2>4. ASSUME NEW n \in ScalarEnds(vt, c, q, e) PROVE FALSE
    <3> DEFINE k == n - q
    <3>1. k \in Nat /\ q + k = n /\ k <= hi - p
      BY <1>1 DEF ScalarEnds
    <3> HIDE DEF k
    <3>2. p + k \in ScalarEnds(vt, b, p, hi)
      BY <2>1, <2>3, <2>4, <3>1, ScalarEndsAlike
    <3> QED BY <2>2, <3>2
  <2> QED BY <1>4, <2>3, <2>4 DEF Short
<1>5. CASE org = "packed"
  <2>1. ~VarintPanics(b, p, hi, U64)
    BY <1>5 DEF Short
  <2>2. CASE Payloads(b, p, hi) = {}
    BY <1>2, <1>5, <2>1, <2>2 DEF Short
  <2>3. CASE Payloads(b, p, hi) # {}
    <3>1. PICK r \in Payloads(b, p, hi) : /\ ~PackedPanics(vt, b, r[1], r[2])
                                          /\ ~PackedWhole(vt, b, r[1], r[2])
      BY <1>5, <2>3 DEF Short
    <3>2. PICK x \in Nat, y \in Nat : /\ x <= y /\ y <= hi - p /\ r = <<p + x, p + y>>
                                      /\ <<q + x, q + y>> \in Payloads(c, q, e)
      BY <1>2, <2>1, PayloadsOfBoth
    <3>3. Alike(b, p + x, p + y, c, q + x, q + y) /\ Alike(c, q + x, q + y, b, p + x, p + y)
      BY <1>1, <3>2, FartherAlike
    <3>4. (p + y) - (p + x) = (q + y) - (q + x)
      BY <1>1, <3>2
    <3>5. /\ PackedWhole(vt, b, p + x, p + y) <=> PackedWhole(vt, c, q + x, q + y)
          /\ PackedPanics(vt, c, q + x, q + y) => PackedPanics(vt, b, p + x, p + y)
      BY <3>3, <3>4, PackedAlike
    <3>6. ~PackedPanics(vt, c, q + x, q + y) /\ ~PackedWhole(vt, c, q + x, q + y)
      BY <3>1, <3>2, <3>5
    <3>7. \E s \in Payloads(c, q, e) : ~PackedPanics(vt, c, s[1], s[2]) /\ ~PackedWhole(vt, c, s[1], s[2])
      BY <3>2, <3>6
    <3> QED BY <1>2, <1>5, <2>1, <3>7 DEF Short
  <2> QED BY <2>2, <2>3
<1>6. CASE org = "unknown"
  <2>1. ~UnknownPanics(w, b, p, hi) /\ UnknownEnds(w, b, p, hi) = {}
    BY <1>6 DEF Short
  <2>2. w \in {0, 1, 2, 5}
    <3>1. w \notin {0, 1, 2, 5} => hi \in UnknownEnds(w, b, p, hi)
      BY <1>1 DEF UnknownEnds
    <3> QED BY <2>1, <3>1
  <2>3. ~UnknownPanics(w, c, q, e)
    BY <2>1, UnknownPanicsAlike
  <2>4. ASSUME NEW n \in UnknownEnds(w, c, q, e) PROVE FALSE
    <3> DEFINE k == n - q
    <3>1. k \in Nat /\ q + k = n /\ k <= hi - p
      BY <1>1 DEF UnknownEnds
    <3> HIDE DEF k
    <3>2. p + k \in UnknownEnds(w, b, p, hi)
      BY <2>2, <2>3, <2>4, <3>1, UnknownEndsAlike
    <3> QED BY <2>1, <3>2
  <2> QED BY <1>6, <2>3, <2>4 DEF Short
<1> QED BY <1>3, <1>4, <1>5, <1>6 DEF Short

LEMMA RestRead ==
    ASSUME NEW b \in Seq(Byte), NEW f \in FieldValue, IsRest(f), NEW hi \in Nat,
           f.at <= f.to, f.to <= hi, hi <= Len(b), Found(b, f, hi),
           NEW c \in Seq(Byte), NEW g \in FieldValue,
           g.kind = f.kind, g.type = f.type, g.origin = f.origin, g.wire = f.wire,
           Sits(c, g.at, ValueBytes(b, f)), g.to = g.at + Len(ValueBytes(b, f))
    PROVE  Found(c, g, g.to) /\ ~FieldPanics(c, g) /\ ValueBytes(c, g) = ValueBytes(b, f)
<1> DEFINE y == ValueBytes(b, f)
           p == f.at
           q == g.at
           e == g.to
<1>1. p \in Nat /\ f.to \in Nat /\ q \in Nat /\ e \in Nat /\ f.type \in ValueTypes
  BY DEF FieldValue
<1>2. y = Bytes(b, p, f.to)
  BY WritesBytes
<1>3. f.to = hi
  <2>1. CASE f.kind = "Incomplete"
    BY <2>1 DEF Found
  <2>2. CASE f.kind = "Invalid"
    <3>1. f.wire \notin {0, 1, 2, 5} /\ f.to \in UnknownEnds(f.wire, b, f.at, hi)
      BY <2>2 DEF Found
    <3> QED BY <3>1 DEF UnknownEnds
  <2> QED BY <2>1, <2>2 DEF IsRest
<1>4. y \in Seq(Byte) /\ Len(y) = hi - p /\ \A i \in 1..(hi - p) : y[i] = b[p + i]
  <2>1. p <= hi /\ hi <= Len(b) /\ y = Bytes(b, p, hi)
    BY <1>2, <1>3
  <2>2. p \in Nat
    BY <1>1
  <2> HIDE DEF y, p
  <2>3. Bytes(b, p, hi) \in Seq(Byte) /\ Len(Bytes(b, p, hi)) = hi - p
        /\ \A i \in 1..(hi - p) : Bytes(b, p, hi)[i] = b[p + i]
    BY <2>1, <2>2, BytesIs
  <2> QED BY <2>1, <2>3
<1>5. p <= hi /\ e = q + (hi - p) /\ hi - p \in Nat
  BY <1>1, <1>3, <1>4
<1>6. /\ q + (hi - p) <= Len(c) /\ \A i \in 1..(hi - p) : c[q + i] = b[p + i]
  BY <1>4 DEF Sits
<1>7. Bytes(c, q, e) = y
  BY <1>1, <1>4, SitsBytes
<1> HIDE DEF y, p, q, e
<1>8. Alike(b, p, hi, c, q, e) /\ Alike(c, q, e, b, p, hi)
  <2>1. hi - p = e - q /\ q <= e
    BY <1>1, <1>5
  <2>2. \A i \in 1..(e - q) : c[q + i] = b[p + i]
    BY <1>6, <2>1
  <2>3. Alike(b, p, hi, c, q, e)
    <3>1. hi - p <= e - q
      BY <1>1, <2>1
    <3>2. \A i \in 1..(hi - p) : b[p + i] = c[q + i]
      BY <1>6
    <3> QED BY <1>1, <1>5, <3>1, <3>2 DEF Alike
  <2>4. Alike(c, q, e, b, p, hi)
    BY <1>1, <2>1, <2>2 DEF Alike
  <2> QED BY <2>3, <2>4
<1>9. Found(c, g, g.to)
  <2>1. CASE f.kind = "Incomplete"
    <3>1. Short(f.origin, f.type, f.wire, b, p, hi)
      BY <2>1 DEF Found, p
    <3>2. Short(f.origin, f.type, f.wire, c, q, e)
      BY <1>1, <1>8, <3>1, ShortAlike
    <3> QED BY <2>1, <3>2 DEF Found, q, e
  <2>2. CASE f.kind = "Invalid"
    <3>1. f.wire \notin {0, 1, 2, 5} /\ f.origin = "unknown"
      BY <2>2 DEF Found
    <3>2. e \in UnknownEnds(f.wire, c, q, e)
      BY <1>1, <1>5, <3>1 DEF UnknownEnds
    <3>3. ~UnknownPanics(f.wire, c, q, e)
      BY <3>1 DEF UnknownPanics
    <3> QED BY <2>2, <3>1, <3>2, <3>3 DEF Found, q, e
  <2> QED BY <2>1, <2>2 DEF IsRest
<1>10. ValueBytes(c, g) = y /\ ~FieldPanics(c, g)
  <2>1. IsRest(g)
    BY DEF IsRest
  <2> QED BY <1>7, <2>1, WritesBytes DEF q, e
<1> QED BY <1>9, <1>10 DEF y

\* What encode writes for a value that was decoded is decoded to that value.
Readable(f) == OriginFits(f) /\ (IsVarint(f) \/ IsFixed(f) \/ IsDelimited(f))

LEMMA ValueWritten ==
    ASSUME NEW b \in Seq(Byte), NEW f \in FieldValue, f.kind # "Message", NEW hi \in Nat,
           f.at <= f.to, f.to <= hi, hi <= Len(b), Found(b, f, hi), ~FieldPanics(b, f)
    PROVE  IsValue(f, ValueBytes(b, f)) /\ (IsRest(f) \/ Readable(f))
<1>1. CASE IsRest(f)
  BY <1>1, FixedWritten
<1>2. CASE IsVarint(f)
  BY <1>2, VarintWritten, FoundVarint DEF Readable
<1>3. CASE IsFixed(f)
  BY <1>3, FixedWritten, FoundFixed DEF Readable
<1>4. CASE IsDelimited(f)
  BY <1>4, DelimitedWritten, FoundDelimited DEF Readable
<1> QED BY <1>1, <1>2, <1>3, <1>4, Shapes

LEMMA ValueRead ==
    ASSUME NEW c \in Seq(Byte), Len(c) < M64, NEW g \in FieldValue, IsRest(g) \/ Readable(g),
           g.at <= g.to, g.to <= Len(c), IsValue(g, Bytes(c, g.at, g.to))
    PROVE  /\ ~FieldPanics(c, g) /\ ValueBytes(c, g) = Bytes(c, g.at, g.to)
           /\ \A e \in Nat : Readable(g) /\ g.to <= e => Found(c, g, e)
<1>1. CASE IsRest(g)
  BY <1>1, WritesBytes, ShapesApart DEF Readable
<1>2. CASE Readable(g)
  <2> DEFINE y == Bytes(c, g.at, g.to)
  <2>1. g.at \in Nat /\ g.to \in Nat
    BY DEF FieldValue
  <2>2. Len(y) = g.to - g.at /\ Sits(c, g.at, y)
    BY <2>1, BytesIs
  <2>3. IsValue(g, y)
    OBVIOUS
  <2> HIDE DEF y
  <2>4. g.to = g.at + Len(y)
    BY <2>1, <2>2
  <2>5. ASSUME NEW e \in Nat, g.to <= e
        PROVE  Found(c, g, e) /\ ~FieldPanics(c, g) /\ ValueBytes(c, g) = y
    <3>1. CASE IsVarint(g)
      BY <1>2, <2>2, <2>3, <2>4, <2>5, <3>1, VarintRead DEF Readable
    <3>2. CASE IsFixed(g)
      BY <1>2, <2>2, <2>3, <2>4, <2>5, <3>2, FixedRead DEF Readable
    <3>3. CASE IsDelimited(g)
      BY <1>2, <2>2, <2>3, <2>4, <2>5, <3>3, DelimitedRead DEF Readable
    <3> QED BY <1>2, <3>1, <3>2, <3>3 DEF Readable
  <2>6. g.to <= g.to
    BY <2>1
  <2> QED BY <2>1, <2>5, <2>6 DEF y
<1> QED BY <1>1, <1>2

LEMMA SameShape ==
    ASSUME NEW f, NEW g, g.kind = f.kind, g.type = f.type, g.origin = f.origin, g.wire = f.wire
    PROVE  /\ IsRest(f) => IsRest(g)
           /\ Readable(f) => Readable(g)
           /\ \A y : IsValue(f, y) => IsValue(g, y)
<1>1. /\ IsRest(f) <=> IsRest(g)
      /\ IsVarint(f) <=> IsVarint(g)
      /\ IsFixed(f) <=> IsFixed(g)
      /\ IsDelimited(f) <=> IsDelimited(g)
      /\ OriginFits(f) <=> OriginFits(g)
      /\ Accepted(f) = Accepted(g) /\ FixedSize(f) = FixedSize(g)
      /\ \A s : IsPayload(f, s) <=> IsPayload(g, s)
  BY DEF IsRest, IsVarint, IsFixed, IsDelimited, OriginFits, Accepted, FixedSize, IsPayload
<1> QED BY <1>1 DEF Readable, IsValue

-----------------------------------------------------------------------------
(* What the tree and the bytes have to do with each other, on either trip *)

\* The slice of m lies in buffer b, and its sub-messages have boxes.
Placed(b, m) ==
    /\ m.hi <= Len(b)
    /\ \A k \in 1..Len(m.fields) : m.fields[k].kind = "Message" => m.fields[k].box # NoBox

\* The root is the whole buffer and the first call; the garbage of a message
\* that is read begins where its fields end.
Rooted ==
    /\ 1 \in Boxes /\ msgs[1].lo = 0 /\ msgs[1].hi = Len(buf)
    /\ \A b \in Boxes : Placed(buf, msgs[b])
    /\ \A d \in Depths : d = 1 <=> stack[d].box = 1
    /\ \A b \in Boxes : (\A d \in Depths : stack[d].box # b)
                            => Follows(buf, msgs[b].garbage, msgs[b])

LEMMA MorePlaced ==
    ASSUME NEW b, NEW m, NEW n, NEW f, n.hi = m.hi, Len(m.fields) \in Nat,
           Len(n.fields) = Len(m.fields) + 1, n.fields[Len(m.fields) + 1] = f,
           \A k \in 1..Len(m.fields) : n.fields[k] = m.fields[k],
           Placed(b, m), f.kind = "Message" => f.box # NoBox
    PROVE  Placed(b, n)
<1>1. ASSUME NEW k \in 1..Len(n.fields), n.fields[k].kind = "Message"
      PROVE  n.fields[k].box # NoBox
  <2>1. k \in 1..Len(m.fields) \/ k = Len(m.fields) + 1
    OBVIOUS
  <2> QED BY <1>1, <2>1 DEF Placed
<1> QED BY <1>1 DEF Placed

LEMMA FreshRooted ==
    ASSUME Fresh
    PROVE  Rooted
<1>1. PICK m \in Messages : msgs = <<NewMessage(m, 0, Len(buf))>>
  BY DEF Fresh
<1>2. /\ Len(msgs) = 1 /\ Len(msgs[1].fields) = 0 /\ msgs[1].lo = 0 /\ msgs[1].hi = Len(buf)
      /\ Len(stack) = 1 /\ stack[1].box = 1 /\ Len(buf) \in Nat
  BY <1>1 DEF Fresh, NewMessage
<1> QED BY <1>2 DEF Rooted, Placed, Boxes, Depths

LEMMA PushKeepsRooted ==
    ASSUME Inv, Running, PushStep, Rooted
    PROVE  Rooted'
<1> DEFINE B == Top.box
           L == Len(stack)
<1>1. PICK f \in FieldValue, pos \in Nat : f.kind # "Message" /\ Push(f, pos)
  BY DEF PushStep
<1>2. /\ Len(msgs') = Len(msgs) /\ Len(stack') = L /\ buf' = buf
      /\ \A b \in Boxes : SameSlice(msgs'[b], msgs[b])
      /\ \A b \in Boxes : b # B => msgs'[b] = msgs[b]
      /\ \A i \in Depths : stack'[i].box = stack[i].box
  BY <1>1, PushEffect
<1>3. Boxes' = Boxes /\ Depths' = Depths /\ L \in Depths /\ B \in Boxes /\ Top = stack[L]
  BY <1>2, TopFacts DEF Boxes, Depths, Top
<1>4. Placed(buf, msgs'[B])
  <2>1. /\ Len(msgs[B].fields) \in Nat
        /\ Len(msgs'[B].fields) = Len(msgs[B].fields) + 1
        /\ msgs'[B].fields[Len(msgs[B].fields) + 1] = f
        /\ \A k \in 1..Len(msgs[B].fields) : msgs'[B].fields[k] = msgs[B].fields[k]
    BY <1>1, PushFields
  <2>2. msgs'[B].hi = msgs[B].hi /\ Placed(buf, msgs[B])
    BY <1>2, <1>3 DEF SameSlice, Rooted
  <2> HIDE DEF B
  <2> QED BY <1>1, <2>1, <2>2, MorePlaced
<1>5. \A b \in Boxes : Placed(buf, msgs'[b])
  BY <1>2, <1>4 DEF Rooted
<1>6. ASSUME NEW b \in Boxes, \A d \in Depths : stack'[d].box # b
      PROVE  Follows(buf, msgs'[b].garbage, msgs'[b])
  <2>1. b # B
    BY <1>2, <1>3, <1>6
  <2> QED BY <1>2, <1>6, <2>1 DEF Rooted
<1>7. 1 \in Boxes /\ msgs'[1].lo = 0 /\ msgs'[1].hi = Len(buf)
  BY <1>2 DEF Rooted, SameSlice
<1>8. \A d \in Depths : d = 1 <=> stack'[d].box = 1
  BY <1>2 DEF Rooted
<1> QED BY <1>2, <1>3, <1>5, <1>6, <1>7, <1>8 DEF Rooted

LEMMA EnterKeepsRooted ==
    ASSUME Inv, Running, EnterStep, Rooted
    PROVE  Rooted'
<1> DEFINE L == Len(stack)
           N == Len(msgs)
<1>1. PICK f \in FieldValue, lo \in Nat, m \in Messages : f.to <= End /\ Enter(f, lo, m)
  BY DEF EnterStep
<1>2. /\ buf' = buf /\ Len(msgs') = N + 1 /\ msgs'[N + 1] = NewMessage(m, lo, f.to)
      /\ \A b \in 1..N : msgs'[b] = msgs[b]
      /\ Len(stack') = L + 1
      /\ stack'[L + 1] = [box |-> N + 1, pos |-> lo, ret |-> <<f>>]
      /\ \A i \in 1..L : stack'[i].box = stack[i].box
  BY <1>1, EnterEffect
<1>3. /\ Len(msgs'[N + 1].fields) = 0 /\ msgs'[N + 1].hi = f.to /\ stack'[L + 1].box = N + 1
  BY <1>2 DEF NewMessage
<1>4. /\ Boxes = 1..N /\ Boxes' = 1..(N + 1) /\ N \in Nat
      /\ Depths = 1..L /\ Depths' = 1..(L + 1) /\ L \in Nat /\ L > 0
      /\ End \in Nat /\ Top.box \in Boxes /\ f.to \in Nat
  BY <1>2, TopFacts DEF Boxes, Depths, FieldValue
<1>5. f.to <= Len(buf)
  <2>1. End <= Len(buf)
    BY <1>4 DEF Rooted, Placed, End, Value
  <2>2. Len(buf) \in Nat
    BY DEF Inv, TypeOK
  <2> QED BY <1>1, <1>4, <2>1, <2>2
<1>6. N > 0
  BY <1>4 DEF Rooted
<1> HIDE DEF L, N
<1>7. ASSUME NEW b \in 1..(N + 1) PROVE Placed(buf, msgs'[b])
  <2>1. CASE b = N + 1
    BY <1>3, <1>5, <2>1 DEF Placed
  <2>2. CASE b \in 1..N
    BY <1>2, <1>4, <2>2 DEF Rooted
  <2> QED BY <1>4, <2>1, <2>2
<1>8. ASSUME NEW d \in 1..(L + 1) PROVE d = 1 <=> stack'[d].box = 1
  <2>1. CASE d = L + 1
    BY <1>3, <1>4, <1>6, <2>1
  <2>2. CASE d \in 1..L
    BY <1>2, <1>4, <2>2 DEF Rooted
  <2> QED BY <1>4, <2>1, <2>2
<1>9. ASSUME NEW b \in 1..(N + 1), \A d \in 1..(L + 1) : stack'[d].box # b
      PROVE  Follows(buf, msgs'[b].garbage, msgs'[b])
  <2>1. b # N + 1
    BY <1>3, <1>4, <1>9
  <2>2. b \in 1..N /\ \A d \in 1..L : stack[d].box # b
    <3>1. \A d \in 1..L : d \in 1..(L + 1)
      BY <1>4
    <3> QED BY <1>2, <1>4, <1>9, <2>1, <3>1
  <2> QED BY <1>2, <1>4, <2>2 DEF Rooted
<1>10. 1 \in 1..N /\ msgs'[1].lo = 0 /\ msgs'[1].hi = Len(buf)
  BY <1>2, <1>4, <1>6 DEF Rooted
<1>11. 1 \in 1..(N + 1)
  BY <1>4
<1> QED BY <1>2, <1>4, <1>7, <1>8, <1>9, <1>10, <1>11 DEF Rooted

LEMMA ReturnKeepsRooted ==
    ASSUME Inv, Running, ReturnStep, Rooted, Linked, Nested
    PROVE  Rooted'
<1> DEFINE L == Len(stack)
           C == stack[L-1].box
           f == Top.ret[1]
           B == Top.box
<1>1. /\ Len(msgs') = Len(msgs) /\ buf' = buf
      /\ \A b \in Boxes : /\ msgs'[b].lo = msgs[b].lo /\ msgs'[b].hi = msgs[b].hi
                          /\ b # B => msgs'[b].garbage = msgs[b].garbage
      /\ msgs'[B].garbage = Top.pos
      /\ \A b \in Boxes : L = 1 \/ b # C => msgs'[b].fields = msgs[b].fields
      /\ Len(stack') = L - 1
      /\ \A i \in 1..(L-1) : stack'[i] = stack[i]
  BY ReturnEffect
<1>2. /\ Boxes' = Boxes /\ Depths = 1..L /\ Depths' = 1..(L-1)
      /\ L \in Nat /\ L > 0 /\ Top = stack[L] /\ B \in Boxes /\ L \in Depths
  BY <1>1, TopFacts DEF Boxes, Depths, Top
<1>3. ASSUME L > 1 PROVE C \in Boxes /\ C # B /\ Placed(buf, msgs'[C])
  <2>1. L - 1 \in Depths /\ L \in 2..L /\ L - 1 # L
    BY <1>2, <1>3
  <2>2. C \in Boxes /\ C # B
    BY <1>2, <2>1, CallTypes, CallsDiffer
  <2>3. f.box = B /\ B # NoBox
    <3>1. f.box = B
      BY <1>2, <2>1 DEF Nested, CallsLead
    <3> HIDE DEF f, B
    <3> QED BY <1>2, <3>1 DEF Boxes, NoBox
  <2>4. /\ Len(msgs[C].fields) \in Nat
        /\ Len(msgs'[C].fields) = Len(msgs[C].fields) + 1
        /\ msgs'[C].fields[Len(msgs[C].fields) + 1] = f
        /\ \A k \in 1..Len(msgs[C].fields) : msgs'[C].fields[k] = msgs[C].fields[k]
    <3>1. Len(stack) > 1
      BY <1>3
    <3> QED BY <3>1, ReturnFields, Zenon
  <2>5. msgs'[C].hi = msgs[C].hi /\ Placed(buf, msgs[C])
    BY <1>1, <2>2 DEF Rooted
  <2> HIDE DEF C, f, B
  <2> QED BY <2>2, <2>3, <2>4, <2>5, MorePlaced
<1> HIDE DEF f
<1>4. ASSUME NEW b \in Boxes PROVE Placed(buf, msgs'[b])
  <2>1. CASE L > 1 /\ b = C
    BY <1>3, <2>1
  <2>2. CASE L = 1 \/ b # C
    BY <1>1, <2>2 DEF Rooted, Placed
  <2>3. (L > 1 /\ b = C) \/ (L = 1 \/ b # C)
    <3> HIDE DEF L, C
    <3> QED BY <1>2
  <2> QED BY <2>1, <2>2, <2>3
<1>5. ASSUME NEW b \in Boxes, \A d \in 1..(L-1) : stack'[d].box # b
      PROVE  Follows(buf, msgs'[b].garbage, msgs'[b])
  <2>1. L = 1 \/ b # C
    <3>1. L = 1 \/ L - 1 \in 1..(L - 1)
      <4> HIDE DEF L
      <4> QED BY <1>2
    <3> QED BY <1>1, <1>5, <3>1
  <2>2. msgs'[b].fields = msgs[b].fields /\ msgs'[b].lo = msgs[b].lo
    BY <1>1, <2>1
  <2>3. CASE b = B
    <3>1. Follows(buf, Top.pos, msgs[b])
      BY <1>2, <2>3 DEF Linked
    <3>2. Follows(buf, Top.pos, msgs'[b])
      BY <2>2, <3>1, SameTiles
    <3> QED BY <1>1, <2>3, <3>2
  <2>4. CASE b # B
    <3>1. \A d \in Depths : stack[d].box # b
      <4>1. ASSUME NEW d \in Depths PROVE stack[d].box # b
        <5>1. d = L \/ d \in 1..(L - 1)
          BY <1>2
        <5> QED BY <1>1, <1>2, <1>5, <2>4, <5>1
      <4> QED BY <4>1
    <3>2. Follows(buf, msgs[b].garbage, msgs[b])
      BY <3>1 DEF Rooted
    <3>3. Follows(buf, msgs[b].garbage, msgs'[b])
      BY <2>2, <3>2, SameTiles
    <3> QED BY <1>1, <2>4, <3>3
  <2> QED BY <2>3, <2>4
<1>6. 1 \in Boxes /\ msgs'[1].lo = 0 /\ msgs'[1].hi = Len(buf)
  BY <1>1 DEF Rooted
<1>7. \A d \in 1..(L-1) : d = 1 <=> stack'[d].box = 1
  <2>1. \A d \in 1..(L-1) : d \in Depths
    BY <1>2
  <2> QED BY <1>1, <2>1 DEF Rooted
<1> QED BY <1>1, <1>2, <1>4, <1>5, <1>6, <1>7 DEF Rooted

LEMMA NextRooted ==
    ASSUME Inv, Linked, Nested, Rooted, [Next]_vars
    PROVE  Rooted'
<1>1. CASE Next
  <2>1. Running /\ (PushStep \/ EnterStep \/ ReturnStep \/ PanicStep)
    BY <1>1, StepShapes
  <2>2. CASE PanicStep
    BY <2>2 DEF PanicStep, Rooted, Boxes, Depths
  <2> QED BY <2>1, <2>2, PushKeepsRooted, EnterKeepsRooted, ReturnKeepsRooted
<1>2. CASE UNCHANGED vars
  BY <1>2 DEF vars, Rooted, Boxes, Depths
<1> QED BY <1>1, <1>2

-----------------------------------------------------------------------------
(* One turn of the loop on bytes that encode wrote, or on the first of them *)

\* The tag and the value of f are what encode writes for f; the payload of a
\* message begins at lo.
Spelled(b, f, lo) ==
    /\ Bytes(b, f.from, f.at) = TagBytes(f)
    /\ f.kind = "Message" => Delimited(Bytes(b, lo, f.to)) = Bytes(b, f.at, f.to)
    /\ f.kind # "Message" => /\ IsRest(f) \/ Readable(f)
                             /\ IsValue(f, Bytes(b, f.at, f.to))

LEMMA TagParts ==
    ASSUME NEW w \in 0..7, NEW n \in Nat
    PROVE  Number(w + 8 * n) = n /\ WireType(w + 8 * n) = w
BY DEF Number, WireType

LEMMA WireIs ==
    ASSUME NEW b, NEW f \in FieldValue, NEW m, NEW hi, Made(b, f, m, hi)
    PROVE  WireTypeOfValue(f) = f.wire
<1>1. f.wire \in 0..7 /\ f.number \in Nat /\ f.kind \in Kinds
  BY DEF FieldValue
<1>2. Number(f.wire + 8 * f.number) = f.number /\ WireType(f.wire + 8 * f.number) = f.wire
  BY <1>1, TagParts
<1>3. Found(b, f, hi)
  BY DEF Made
<1>4. CASE f.kind \in {"Typed", "Message"}
  <2>1. f.origin = "value"
    BY <1>3, <1>4 DEF Found
  <2>2. WireTypeOf(f.type) = f.wire
    BY <1>2, <2>1 DEF Made, OriginOf, TypeOf
  <2>3. f.kind = "Message" => f.type = "Message"
    BY <1>3 DEF Found
  <2>4. WireTypeOf("Message") = 2
    BY TypesApart DEF WireTypeOf, BlobTypes, VarintTypes, Fixed64Types, Fixed32Types
  <2> QED BY <1>4, <2>2, <2>3, <2>4 DEF WireTypeOfValue
<1>5. CASE f.kind = "Packed"
  <2>1. f.origin = "packed"
    BY <1>3, <1>5 DEF Found
  <2>2. f.wire = 2
    BY <1>2, <2>1 DEF Made, OriginOf
  <2> QED BY <1>5, <2>2 DEF WireTypeOfValue
<1>6. CASE f.kind \in {"Unknown", "Invalid", "Incomplete"}
  BY <1>6 DEF WireTypeOfValue
<1> QED BY <1>1, <1>4, <1>5, <1>6 DEF Kinds

LEMMA TagIs ==
    ASSUME NEW b, NEW f \in FieldValue, NEW m, NEW hi \in Nat, KeepsTag(b, f, hi), Made(b, f, m, hi)
    PROVE  /\ <<f.at, f.wire + 8 * f.number>> \in VarintReads(b, f.from, hi, U64)
           /\ f.from < f.at /\ f.at <= hi
           /\ TagBytes(f) = VarintBytes((f.wire + 8 * f.number) % M64)
<1>1. WireTypeOfValue(f) = f.wire
  BY WireIs
<1>2. <<f.at, f.wire + 8 * f.number>> \in VarintReads(b, f.from, hi, U64)
  BY <1>1 DEF KeepsTag
<1>3. f.from \in Nat
  BY DEF FieldValue
<1> QED BY <1>1, <1>2, <1>3, VarintReadsBounds DEF TagBytes

\* The bounds of a value.
LEMMA ToIs ==
    ASSUME NEW b, NEW f \in FieldValue, NEW hi \in Nat, f.at <= hi, Found(b, f, hi)
    PROVE  f.at <= f.to /\ f.to <= hi
<1>1. f.at \in Nat /\ f.to \in Nat /\ f.kind \in Kinds
  BY DEF FieldValue
<1>2. CASE f.kind = "Typed"
  BY <1>1, <1>2 DEF Found, ScalarEnds
<1>3. CASE f.kind \in {"Message", "Packed"}
  <2>1. PICK q \in Payloads(b, f.at, hi) : q[2] = f.to
    BY <1>3 DEF Found
  <2>2. q[1] \in Nat /\ f.at < q[1] /\ q[1] <= q[2] /\ q[2] <= hi
    BY <1>1, PayloadsBounds
  <2> QED BY <1>1, <2>1, <2>2
<1>4. CASE f.kind \in {"Unknown", "Invalid"}
  BY <1>1, <1>4 DEF Found, UnknownEnds
<1>5. CASE f.kind = "Incomplete"
  BY <1>1, <1>5 DEF Found
<1> QED BY <1>1, <1>2, <1>3, <1>4, <1>5 DEF Kinds

LEMMA SameBytes ==
    ASSUME NEW b \in Seq(Byte), NEW c \in Seq(Byte), NEW p, NEW hi, NEW e,
           Alike(b, p, hi, c, p, e), hi <= Len(b), e <= Len(c),
           NEW x \in Nat, NEW y \in Nat, p <= x, x <= y, y <= hi
    PROVE  Bytes(b, x, y) = Bytes(c, x, y) /\ Bytes(b, x, y) \in Seq(Byte)
<1>1. /\ p \in Nat /\ hi \in Nat /\ e \in Nat /\ hi <= e
      /\ \A i \in 1..(hi - p) : b[p + i] = c[p + i]
  BY DEF Alike
<1>2. y <= Len(b) /\ y <= Len(c)
  BY <1>1
<1>3. /\ Bytes(b, x, y) \in Seq(Byte) /\ Len(Bytes(b, x, y)) = y - x
      /\ \A i \in 1..(y - x) : Bytes(b, x, y)[i] = b[x + i]
  BY <1>2, BytesIs
<1>4. /\ Bytes(c, x, y) \in Seq(Byte) /\ Len(Bytes(c, x, y)) = y - x
      /\ \A i \in 1..(y - x) : Bytes(c, x, y)[i] = c[x + i]
  BY <1>2, BytesIs
<1>5. ASSUME NEW i \in 1..(y - x) PROVE b[x + i] = c[x + i]
  <2> DEFINE k == (x - p) + i
  <2>1. k \in 1..(hi - p) /\ p + k = x + i
    BY <1>1
  <2> HIDE DEF k
  <2>2. b[p + k] = c[p + k]
    BY <1>1, <2>1
  <2> QED BY <2>1, <2>2
<1> DEFINE w == Bytes(c, x, y)
<1>6. w \in Seq(Byte) /\ x + Len(w) = y /\ \A i \in 1..Len(w) : b[x + i] = w[i]
  <2>1. w \in Seq(Byte) /\ Len(w) = y - x
    BY <1>4
  <2>2. x + Len(w) = y
    BY <2>1
  <2>3. ASSUME NEW i \in 1..Len(w) PROVE b[x + i] = w[i]
    <3>1. i \in 1..(y - x)
      BY <2>1
    <3>2. w[i] = c[x + i]
      BY <1>4, <3>1
    <3> HIDE DEF w
    <3> QED BY <1>5, <3>1, <3>2
  <2> QED BY <2>1, <2>2, <2>3
<1> HIDE DEF w
<1>7. Bytes(b, x, x + Len(w)) = w
  BY <1>2, <1>6, SitsBytes DEF Sits
<1> QED BY <1>3, <1>6, <1>7 DEF w

\* The same tag is read in both.
LEMMA TagAgain ==
    ASSUME NEW b, NEW p, NEW hi, NEW c, NEW e, Alike(b, p, hi, c, p, e), NEW m,
           NEW g \in FieldValue, g.from = p, KeepsTag(b, g, hi), Made(b, g, m, hi),
           NEW f \in FieldValue, f.from = p, KeepsTag(c, f, e), Made(c, f, m, e)
    PROVE  /\ g.at = f.at /\ g.number = f.number /\ g.wire = f.wire
           /\ g.origin = f.origin /\ g.type = f.type /\ TagBytes(g) = TagBytes(f)
<1>1. p \in Nat /\ hi \in Nat /\ e \in Nat
  BY DEF Alike
<1> DEFINE u == g.wire + 8 * g.number
           v == f.wire + 8 * f.number
<1>2. <<g.at, u>> \in VarintReads(b, p, hi, U64) /\ TagBytes(g) = VarintBytes(u % M64)
  BY <1>1, TagIs
<1>3. <<f.at, v>> \in VarintReads(c, p, e, U64) /\ TagBytes(f) = VarintBytes(v % M64)
  BY <1>1, TagIs
<1>4. g.origin = OriginOf(m, u) /\ g.type = TypeOf(m, u) /\ f.origin = OriginOf(m, v) /\ f.type = TypeOf(m, v)
  BY DEF Made
<1>5. /\ g.wire \in 0..7 /\ g.number \in Nat /\ f.wire \in 0..7 /\ f.number \in Nat
  BY DEF FieldValue
<1>6. g.wire = WireType(u) /\ g.number = Number(u) /\ f.wire = WireType(v) /\ f.number = Number(v)
  BY <1>5, TagParts
<1> HIDE DEF u, v
<1>7. ~ShiftOverflows(c, p, e)
  BY <1>3 DEF VarintReads
<1>8. <<g.at, u>> \in VarintReads(c, p, e, U64)
  BY <1>2, <1>7, ReadsInPlace
<1>9. <<g.at, u>> = <<f.at, v>>
  BY <1>1, <1>3, <1>8, OneRead
<1>10. g.at = f.at /\ u = v
  BY <1>9
<1> QED BY <1>2, <1>3, <1>4, <1>6, <1>10

\* The field that is read is the one that was written, or its bytes are cut.
LEMMA FieldAgain ==
    ASSUME NEW b \in Seq(Byte), NEW c \in Seq(Byte), NEW p, NEW hi, NEW e,
           Alike(b, p, hi, c, p, e), hi <= Len(b), e <= Len(c), NEW m,
           NEW g \in FieldValue, g.from = p, KeepsTag(b, g, hi), Made(b, g, m, hi),
           NEW f \in FieldValue, f.from = p, KeepsTag(c, f, e), Made(c, f, m, e),
           NEW l \in Nat, Spelled(c, f, l), f.kind = "Message" => f.at <= l /\ l <= f.to
    PROVE  /\ \/ g.kind = f.kind /\ g.to = f.to
              \/ IsRest(g) /\ g.to = hi
           /\ Spelled(b, g, l)
<1>1. /\ p \in Nat /\ hi \in Nat /\ e \in Nat /\ g.at \in Nat /\ g.to \in Nat /\ f.to \in Nat
  BY DEF Alike, FieldValue
<1>2. /\ g.at = f.at /\ g.number = f.number /\ g.wire = f.wire
      /\ g.origin = f.origin /\ g.type = f.type /\ TagBytes(g) = TagBytes(f)
  BY TagAgain
<1>3. p < g.at /\ g.at <= hi
  BY <1>1, TagIs
<1>4. Found(b, g, hi) /\ Found(c, f, e)
  BY DEF Made
<1>5. g.at <= g.to /\ g.to <= hi
  BY <1>1, <1>3, <1>4, ToIs
<1>6. Alike(b, g.at, hi, c, g.at, e)
  <2> DEFINE n == g.at - p
  <2> DEFINE a == g.at
  <2>1. n \in Nat /\ p + n = a /\ n <= n /\ n <= hi - p
    <3>1. a \in Nat /\ p < a /\ a <= hi /\ n = a - p
      BY <1>1, <1>3
    <3> HIDE DEF a, n
    <3> QED BY <1>1, <3>1
  <2> HIDE DEF n
  <2>2. Alike(b, p + n, hi, c, p + n, e)
    BY <2>1, FartherAlike
  <2> QED BY <2>1, <2>2 DEF a
<1>7. \/ g.kind = f.kind /\ g.to = f.to
      \/ IsRest(g) /\ g.to = hi
  BY <1>2, <1>4, <1>6, SameField DEF IsRest
<1>8. Bytes(b, g.from, g.at) = TagBytes(g)
  <2>1. Bytes(b, p, g.at) = Bytes(c, p, g.at)
    BY <1>1, <1>3, SameBytes
  <2> QED BY <1>2, <2>1 DEF Spelled
<1>9. Bytes(b, g.at, g.to) = Bytes(c, g.at, g.to) /\ Bytes(b, g.at, g.to) \in Seq(Byte)
  BY <1>1, <1>3, <1>5, SameBytes
<1>10. CASE IsRest(g)
  <2>1. IsValue(g, Bytes(b, g.at, g.to))
    BY <1>9, <1>10, ShapesApart DEF IsValue
  <2> QED BY <1>7, <1>8, <1>10, <2>1 DEF Spelled, IsRest
<1>11. CASE ~IsRest(g)
  <2>1. g.kind = f.kind /\ g.to = f.to
    BY <1>7, <1>11
  <2>2. ASSUME g.kind = "Message"
        PROVE  Delimited(Bytes(b, l, g.to)) = Bytes(b, g.at, g.to)
    <3>1. p <= l /\ l <= g.to
      BY <1>1, <1>2, <1>3, <2>1, <2>2
    <3>2. Bytes(b, l, g.to) = Bytes(c, l, g.to)
      BY <1>1, <1>5, <3>1, SameBytes
    <3>3. Delimited(Bytes(c, l, f.to)) = Bytes(c, f.at, f.to)
      BY <2>1, <2>2 DEF Spelled
    <3> QED BY <1>2, <1>9, <2>1, <3>2, <3>3
  <2>3. ASSUME g.kind # "Message"
        PROVE  (IsRest(g) \/ Readable(g)) /\ IsValue(g, Bytes(b, g.at, g.to))
    <3>1. (IsRest(f) \/ Readable(f)) /\ IsValue(f, Bytes(c, f.at, f.to))
      BY <2>1, <2>3 DEF Spelled
    <3> QED BY <1>2, <1>9, <2>1, <3>1, SameShape
  <2> QED BY <1>7, <1>8, <2>1, <2>2, <2>3 DEF Spelled
<1> QED BY <1>10, <1>11

\* The decoder of a value that was found did not panic.
LEMMA FoundSafe ==
    ASSUME NEW c, NEW f \in FieldValue, NEW e \in Nat, Found(c, f, e)
    PROVE  /\ f.origin = "value" /\ f.type = "Message" => ~VarintPanics(c, f.at, e, U64)
           /\ f.origin = "value" /\ f.type # "Message" => ~ScalarPanics(f.type, c, f.at, e)
           /\ f.origin = "packed" => /\ ~VarintPanics(c, f.at, e, U64)
                                     /\ \A q \in Payloads(c, f.at, e) : ~PackedPanics(f.type, c, q[1], q[2])
           /\ f.origin = "unknown" => ~UnknownPanics(f.wire, c, f.at, e)
<1>1. f.at \in Nat /\ f.kind \in Kinds
  BY DEF FieldValue
<1>2. Payloads(c, f.at, e) # {} => ~VarintPanics(c, f.at, e, U64)
  BY <1>1, PayloadReads
<1>3. CASE f.kind = "Typed"
  BY <1>3 DEF Found
<1>4. CASE f.kind = "Message"
  BY <1>2, <1>4 DEF Found
<1>5. CASE f.kind = "Packed"
  <2>1. PICK q \in Payloads(c, f.at, e) : ~PackedPanics(f.type, c, q[1], q[2])
    BY <1>5 DEF Found
  <2>2. \A r \in Payloads(c, f.at, e) : r = q
    BY <1>1, <2>1, OnePayload
  <2>3. f.origin = "packed"
    BY <1>5 DEF Found
  <2> QED BY <1>2, <2>1, <2>2, <2>3
<1>6. CASE f.kind \in {"Unknown", "Invalid"}
  BY <1>6 DEF Found
<1>7. CASE f.kind = "Incomplete"
  <2>1. Short(f.origin, f.type, f.wire, c, f.at, e)
    BY <1>7 DEF Found
  <2>2. \A r, q \in Payloads(c, f.at, e) : r = q
    BY <1>1, OnePayload
  <2> QED BY <2>1, <2>2 DEF Short
<1> QED BY <1>1, <1>3, <1>4, <1>5, <1>6, <1>7 DEF Kinds

-----------------------------------------------------------------------------
(* Decoding what was written *)

\* At offset p of E, in a message of type m that ends at e, encode wrote field f;
\* the payload of a message begins at l.
WrittenField(E, T, m, p, e, f, l) ==
    /\ f.from = p /\ KeepsTag(E, f, e) /\ Made(E, f, m, e) /\ Spelled(E, f, l)
    /\ <<m, f.to, e>> \in T
    /\ f.kind = "Message" => /\ <<l, f.to>> \in Payloads(E, f.at, e)
                             /\ <<Schema[m][f.number].ref, l, f.to>> \in T

\* T are the places in E at which a message that encode wrote begins, goes on or
\* ends: <<its type, the place, its end>>.
Written(E, T) ==
    /\ E \in Seq(Byte) /\ Len(E) < M64
    /\ \A m \in Messages : \A p, e \in Nat : <<m, p, e>> \in T =>
          /\ e <= Len(E)
          /\ p < e => \E f \in FieldValue : \E l \in Nat : WrittenField(E, T, m, p, e, f, l)

\* What is left of message m is the rest of one that was written, or the
\* beginning of it if m is the root, or nothing.
Ahead(T, m, pos, root) ==
    pos = m.hi \/ \E e \in Nat : <<m.msg, pos, e>> \in T /\ m.hi <= e /\ (root \/ e = m.hi)

Reading(E, T) ==
    /\ Written(E, T)
    /\ Len(buf) <= Len(E) /\ \A i \in 1..Len(buf) : buf[i] = E[i]
    /\ status # "panicked"
    /\ \A d \in Depths : Ahead(T, msgs[stack[d].box], stack[d].pos, stack[d].box = 1)
    /\ \A b \in Boxes : \A k \in 1..Len(msgs[b].fields) :
          Spelled(buf, msgs[b].fields[k], msgs[msgs[b].fields[k].box].lo)
    /\ \A d \in 2..Len(stack) : Spelled(buf, stack[d].ret[1], msgs[stack[d].box].lo)
    /\ \A b \in Boxes : b # 1 => msgs[b].garbage = msgs[b].hi

LEMMA SpelledAt ==
    ASSUME NEW b, NEW f, NEW x, NEW y, Spelled(b, f, x), f.kind # "Message" \/ x = y
    PROVE  Spelled(b, f, y)
BY DEF Spelled

\* The field that was written at the cursor.
LEMMA WrittenNext ==
    ASSUME Inv, Running, Rooted, NEW E, NEW T, Reading(E, T), Top.pos < End
    PROVE  \E e \in Nat : \E f \in FieldValue : \E l \in Nat :
              /\ Alike(buf, Top.pos, End, E, Top.pos, e) /\ End <= Len(buf) /\ e <= Len(E)
              /\ (Top.box = 1 \/ e = End)
              /\ WrittenField(E, T, Value.msg, Top.pos, e, f, l)
<1> DEFINE p == Top.pos
           hi == End
           m == Value.msg
<1>1. /\ p \in Nat /\ hi \in Nat /\ m \in Messages /\ Top.box \in Boxes /\ Len(stack) \in Depths
  BY TopFacts
<1>2. PICK e \in Nat : <<m, p, e>> \in T /\ hi <= e /\ (Top.box = 1 \/ e = hi)
  <2>1. Ahead(T, Value, Top.pos, Top.box = 1)
    BY <1>1 DEF Reading, Top, Value
  <2>2. p # hi
    BY <1>1
  <2> QED BY <2>1, <2>2 DEF Ahead, End
<1>3. hi <= Len(buf)
  BY <1>1 DEF Rooted, Placed, End, Value
<1> HIDE DEF p, hi, m
<1>4. p < e
  BY <1>1, <1>2 DEF p, hi
<1>5. e <= Len(E) /\ \E f \in FieldValue : \E l \in Nat : WrittenField(E, T, m, p, e, f, l)
  BY <1>1, <1>2, <1>4 DEF Reading, Written
<1>6. Alike(buf, p, hi, E, p, e)
  <2>1. p <= hi /\ hi - p <= e - p
    BY <1>1, <1>2 DEF p, hi
  <2>2. ASSUME NEW i \in 1..(hi - p) PROVE buf[p + i] = E[p + i]
    <3> DEFINE n == p + i
    <3>1. Len(buf) \in Nat
      BY DEF Inv, TypeOK
    <3>2. n \in 1..Len(buf)
      BY <1>1, <1>3, <3>1
    <3> HIDE DEF n
    <3>3. buf[n] = E[n]
      BY <3>2 DEF Reading
    <3> QED BY <3>3 DEF n
  <2> QED BY <1>1, <2>1, <2>2 DEF Alike
<1>7. PICK f \in FieldValue : \E l \in Nat : WrittenField(E, T, m, p, e, f, l)
  BY <1>5
<1>8. PICK l \in Nat : WrittenField(E, T, m, p, e, f, l)
  BY <1>7
<1> QED BY <1>2, <1>3, <1>5, <1>6, <1>8 DEF p, hi, m

\* What is read there is what was written, or its bytes are cut.
LEMMA FieldRead ==
    ASSUME Inv, Running, Rooted, NEW E, NEW T, Reading(E, T), Top.pos < End,
           NEW g \in FieldValue, g.from = Top.pos, WellRead(buf, g, Value.msg, End)
    PROVE  \E l \in Nat :
              /\ Ahead(T, Value, g.to, Top.box = 1) /\ Spelled(buf, g, l)
              /\ g.kind = "Message" => /\ <<l, g.to>> \in Payloads(buf, g.at, End)
                                       /\ <<Schema[Value.msg][g.number].ref, l, g.to>> \in T
<1> DEFINE p == Top.pos
           m == Value.msg
           WrittenAs(e, f, l) ==
              /\ Alike(buf, p, End, E, p, e) /\ End <= Len(buf) /\ e <= Len(E)
              /\ (Top.box = 1 \/ e = End)
              /\ WrittenField(E, T, m, p, e, f, l)
<1>1. PICK e \in Nat : \E f \in FieldValue : \E l \in Nat : WrittenAs(e, f, l)
  BY WrittenNext
<1>2. PICK f \in FieldValue : \E l \in Nat : WrittenAs(e, f, l)
  BY <1>1
<1>3. PICK l \in Nat : WrittenAs(e, f, l)
  BY <1>2
<1>4. /\ p \in Nat /\ End \in Nat /\ buf \in Seq(Byte) /\ E \in Seq(Byte) /\ g.at \in Nat
  BY TopFacts DEF Inv, TypeOK, Reading, Written, FieldValue
<1>5. /\ Alike(buf, p, End, E, p, e) /\ End <= Len(buf) /\ e <= Len(E) /\ (Top.box = 1 \/ e = End)
      /\ f.from = p /\ KeepsTag(E, f, e) /\ Made(E, f, m, e) /\ Spelled(E, f, l)
      /\ <<m, f.to, e>> \in T
      /\ f.kind = "Message" => /\ <<l, f.to>> \in Payloads(E, f.at, e)
                               /\ <<Schema[m][f.number].ref, l, f.to>> \in T
      /\ g.from = p /\ KeepsTag(buf, g, End) /\ Made(buf, g, m, End)
  BY <1>3 DEF WellRead, WrittenField
<1> HIDE DEF p, m, WrittenAs
<1>6. f.kind = "Message" => f.at <= l /\ l <= f.to
  <2>1. ASSUME f.kind = "Message" PROVE f.at <= l /\ l <= f.to
    <3> DEFINE r == <<l, f.to>>
    <3>1. r[1] = l /\ r[2] = f.to /\ r \in Payloads(E, f.at, e) /\ f.at \in Nat
      BY <1>5, <2>1 DEF FieldValue
    <3> HIDE DEF r
    <3>2. f.at < r[1] /\ r[1] <= r[2] /\ r[1] \in Nat
      BY <3>1, PayloadsBounds
    <3> QED BY <3>1, <3>2
  <2> QED BY <2>1
<1>7. /\ \/ g.kind = f.kind /\ g.to = f.to
         \/ IsRest(g) /\ g.to = End
      /\ Spelled(buf, g, l)
  BY <1>4, <1>5, <1>6, FieldAgain
<1>8. g.at = f.at /\ g.number = f.number /\ p < g.at /\ g.at <= End
  <2>1. g.at = f.at /\ g.number = f.number
    BY <1>5, TagAgain
  <2>2. g.from < g.at /\ g.at <= End
    BY <1>4, <1>5, TagIs
  <2> QED BY <1>5, <2>1, <2>2
<1>9. Ahead(T, Value, g.to, Top.box = 1)
  <2>1. End <= e
    <3>1. End - p <= e - p
      BY <1>5 DEF Alike
    <3> QED BY <1>4, <3>1
  <2>2. CASE g.to = End
    BY <2>2 DEF Ahead, End
  <2>3. CASE g.to = f.to
    BY <1>5, <2>1, <2>3 DEF Ahead, End, m
  <2> QED BY <1>7, <2>2, <2>3
<1>10. ASSUME g.kind = "Message"
       PROVE  /\ <<l, g.to>> \in Payloads(buf, g.at, End)
              /\ <<Schema[m][g.number].ref, l, g.to>> \in T
  <2>1. g.kind = f.kind /\ g.to = f.to
    BY <1>7, <1>10 DEF IsRest
  <2>2. <<l, g.to>> \in Payloads(E, g.at, e)
    BY <1>5, <1>8, <1>10, <2>1
  <2>3. PICK q \in Payloads(buf, g.at, End) : q[2] = g.to
    BY <1>5, <1>10 DEF Made, Found
  <2>4. Alike(buf, g.at, End, E, g.at, e)
    <3> DEFINE a == g.at
               n == a - p
    <3>1. a \in Nat /\ p < a /\ a <= End
      BY <1>4, <1>8
    <3> HIDE DEF a
    <3>2. n \in Nat /\ p + n = a /\ n <= n /\ n <= End - p
      BY <1>4, <3>1
    <3> HIDE DEF n
    <3>3. Alike(buf, p + n, End, E, p + n, e)
      BY <1>5, <3>2, FartherAlike
    <3> QED BY <3>2, <3>3 DEF a
  <2>5. q \in Payloads(E, g.at, e)
    <3>1. ~ShiftOverflows(E, g.at, e)
      BY <1>4, <2>2, PayloadReads DEF VarintPanics
    <3> QED BY <2>3, <2>4, <3>1, ReadsInPlace
  <2>6. q = <<l, g.to>>
    BY <1>4, <2>2, <2>5, OnePayload
  <2> QED BY <1>5, <1>8, <1>10, <2>1, <2>3, <2>6
<1> QED BY <1>7, <1>9, <1>10 DEF m

\* The fields that are held keep their payloads.
LEMMA StillSpelled ==
    ASSUME Inv, Rooted, Nested, NEW E, NEW T, Reading(E, T), Len(msgs) <= Len(msgs'),
           \A b \in Boxes : msgs'[b].lo = msgs[b].lo
    PROVE  /\ \A b \in Boxes : \A k \in 1..Len(msgs[b].fields) :
                 Spelled(buf, msgs[b].fields[k], msgs'[msgs[b].fields[k].box].lo)
           /\ \A d \in 2..Len(stack) : Spelled(buf, stack[d].ret[1], msgs'[stack[d].box].lo)
<1>1. ASSUME NEW b \in Boxes, NEW k \in 1..Len(msgs[b].fields)
      PROVE  Spelled(buf, msgs[b].fields[k], msgs'[msgs[b].fields[k].box].lo)
  <2> DEFINE f == msgs[b].fields[k]
  <2>1. Spelled(buf, f, msgs[f.box].lo)
    BY DEF Reading
  <2>2. f.kind = "Message" => f.box # NoBox
    BY DEF Rooted, Placed
  <2>3. f.box # NoBox => f.box \in Boxes
    BY DEF Nested, FieldsLead, Boxes
  <2> HIDE DEF f
  <2>4. f.kind = "Message" => msgs'[f.box].lo = msgs[f.box].lo
    BY <2>2, <2>3
  <2>5. Spelled(buf, f, msgs'[f.box].lo)
    BY <2>1, <2>4, SpelledAt
  <2> QED BY <2>5 DEF f
<1>2. ASSUME NEW d \in 2..Len(stack)
      PROVE  Spelled(buf, stack[d].ret[1], msgs'[stack[d].box].lo)
  <2>1. d \in Depths
    BY DEF Depths, Inv, TypeOK
  <2>2. stack[d].box \in Boxes
    BY <2>1, CallTypes
  <2>3. Spelled(buf, stack[d].ret[1], msgs[stack[d].box].lo)
    BY DEF Reading
  <2> QED BY <2>2, <2>3
<1> QED BY <1>1, <1>2

LEMMA PushKeepsReading ==
    ASSUME Inv, Running, Rooted, Nested, PushStep, NothingRepeated', NEW E, NEW T, Reading(E, T)
    PROVE  Reading(E, T)'
<1> DEFINE B == Top.box
           L == Len(stack)
           n == Len(msgs[B].fields)
<1>1. PICK g \in FieldValue, pos \in Nat :
        /\ g.from = Top.pos /\ Top.pos < pos /\ pos <= g.to /\ g.to <= End
        /\ pos = g.to \/ DecodedAgain(buf, g)
        /\ g.kind # "Message" /\ WellRead(buf, g, Value.msg, End) /\ Push(g, pos)
  BY DEF PushStep
<1>2. /\ Len(msgs') = Len(msgs) /\ Len(stack') = L /\ buf' = buf /\ status' = status
      /\ \A b \in Boxes : SameSlice(msgs'[b], msgs[b])
      /\ \A b \in Boxes : b # B => msgs'[b] = msgs[b]
      /\ \A i \in Depths : /\ stack'[i].box = stack[i].box
                           /\ stack'[i].ret = stack[i].ret
                           /\ i # L => stack'[i] = stack[i]
      /\ stack'[L].pos = pos
  BY <1>1, PushEffect
<1>3. /\ Boxes' = Boxes /\ Depths' = Depths /\ Depths = 1..L /\ L \in Depths /\ B \in Boxes
      /\ Top = stack[L] /\ Top.pos \in Nat /\ End \in Nat
  BY <1>2, TopFacts DEF Boxes, Depths, Top
<1>4. /\ n \in Nat /\ Len(msgs'[B].fields) = n + 1 /\ msgs'[B].fields[n + 1] = g
      /\ \A k \in 1..n : msgs'[B].fields[k] = msgs[B].fields[k]
  BY <1>1, PushFields
<1> HIDE DEF n
<1>5. PICK l \in Nat : Ahead(T, Value, g.to, Top.box = 1) /\ Spelled(buf, g, l)
  <2>1. Top.pos < End
    BY <1>1, <1>3 DEF FieldValue
  <2> QED BY <1>1, <2>1, FieldRead
<1>6. pos = g.to
  <2>1. ASSUME NEW b \in Boxes, b = B PROVE ~DecodedAgain(buf', g)
    <3>1. g \in FieldsOf(b)'
      <4>1. n + 1 \in 1..(n + 1)
        BY <1>4
      <4> QED BY <1>4, <2>1, <4>1 DEF FieldsOf
    <3> QED BY <1>3, <3>1 DEF NothingRepeated
  <2>2. ~DecodedAgain(buf', g)
    BY <1>3, <2>1
  <2> QED BY <1>1, <1>2, <2>2
<1>7. Ahead(T, msgs'[B], pos, B = 1)
  <2>1. msgs'[B].hi = Value.hi /\ msgs'[B].msg = Value.msg
    BY <1>2, <1>3 DEF SameSlice, Value
  <2> QED BY <1>5, <1>6, <2>1 DEF Ahead
<1>8. ASSUME NEW d \in Depths
       PROVE  Ahead(T, msgs'[stack'[d].box], stack'[d].pos, stack'[d].box = 1)
  <2>1. CASE d = L
    BY <1>2, <1>3, <1>7, <2>1
  <2>2. CASE d # L
    <3>1. stack[d].box \in Boxes /\ stack[d].box # B
      BY <1>3, <2>2, CallTypes, CallsDiffer
    <3>2. Ahead(T, msgs[stack[d].box], stack[d].pos, stack[d].box = 1)
      BY DEF Reading
    <3> QED BY <1>2, <2>2, <3>1, <3>2
  <2> QED BY <2>1, <2>2
<1>9. /\ \A b \in Boxes : \A k \in 1..Len(msgs[b].fields) :
            Spelled(buf, msgs[b].fields[k], msgs'[msgs[b].fields[k].box].lo)
      /\ \A d \in 2..Len(stack) : Spelled(buf, stack[d].ret[1], msgs'[stack[d].box].lo)
  <2>1. Len(msgs) <= Len(msgs')
    BY <1>2 DEF Inv, TypeOK
  <2>2. \A b \in Boxes : msgs'[b].lo = msgs[b].lo
    BY <1>2 DEF SameSlice
  <2> QED BY <2>1, <2>2, StillSpelled
<1>10. ASSUME NEW b \in Boxes, NEW k \in 1..Len(msgs'[b].fields)
       PROVE  Spelled(buf, msgs'[b].fields[k], msgs'[msgs'[b].fields[k].box].lo)
  <2>1. CASE b # B
    BY <1>2, <1>9, <2>1
  <2>2. CASE b = B /\ k \in 1..n
    BY <1>4, <1>9, <2>2 DEF n
  <2>3. CASE b = B /\ k = n + 1
    BY <1>1, <1>4, <1>5, <2>3, SpelledAt
  <2>4. b = B => k \in 1..n \/ k = n + 1
    BY <1>4
  <2> QED BY <2>1, <2>2, <2>3, <2>4
<1>11. \A d \in 2..Len(stack) : Spelled(buf, stack'[d].ret[1], msgs'[stack'[d].box].lo)
  <2>1. \A d \in 2..Len(stack) : d \in Depths
    BY <1>3
  <2>2. ASSUME NEW d \in 2..Len(stack)
        PROVE  Spelled(buf, stack'[d].ret[1], msgs'[stack'[d].box].lo)
    <3>1. stack'[d].box = stack[d].box /\ stack'[d].ret = stack[d].ret
      BY <1>2, <2>1
    <3> QED BY <1>9, <3>1
  <2> QED BY <2>2
<1>12. \A b \in Boxes : b # 1 => msgs'[b].garbage = msgs'[b].hi
  BY <1>2 DEF SameSlice, Reading
<1> HIDE DEF L, B
<1>13. status' # "panicked" /\ Len(buf') <= Len(E) /\ \A i \in 1..Len(buf') : buf'[i] = E[i]
  BY <1>2 DEF Reading
<1>14. Written(E, T)
  BY DEF Reading
<1> QED BY <1>2, <1>3, <1>8, <1>10, <1>11, <1>12, <1>13, <1>14 DEF Reading, L

LEMMA EnterKeepsReading ==
    ASSUME Inv, Running, Rooted, Nested, EnterStep, NEW E, NEW T, Reading(E, T)
    PROVE  Reading(E, T)'
<1> DEFINE B == Top.box
           L == Len(stack)
           N == Len(msgs)
<1>1. PICK f \in FieldValue, lo \in Nat, m \in Messages :
        /\ f.from = Top.pos /\ Top.pos < lo /\ lo <= f.to /\ f.to <= End
        /\ f.kind = "Message" /\ <<lo, f.to>> \in Payloads(buf, f.at, End)
        /\ m = Schema[Value.msg][f.number].ref
        /\ WellRead(buf, f, Value.msg, End) /\ Enter(f, lo, m)
  BY DEF EnterStep
<1>2. /\ buf' = buf /\ status' = status /\ Len(msgs') = N + 1 /\ msgs'[N + 1] = NewMessage(m, lo, f.to)
      /\ \A b \in 1..N : msgs'[b] = msgs[b]
      /\ Len(stack') = L + 1
      /\ stack'[L + 1] = [box |-> N + 1, pos |-> lo, ret |-> <<f>>]
      /\ \A i \in 1..L : /\ stack'[i].box = stack[i].box
                         /\ stack'[i].ret = stack[i].ret
                         /\ i # L => stack'[i] = stack[i]
      /\ stack'[L].pos = f.to
  BY <1>1, EnterEffect
<1>3. /\ Boxes = 1..N /\ Boxes' = 1..(N + 1) /\ N \in Nat /\ B \in 1..N
      /\ Depths = 1..L /\ Depths' = 1..(L + 1) /\ L \in Nat /\ L \in 1..L
      /\ Top = stack[L] /\ Top.pos \in Nat /\ End \in Nat /\ f.at \in Nat /\ f.to \in Nat
  BY <1>2, TopFacts DEF Boxes, Depths, Top, FieldValue
<1>4. /\ msgs'[N + 1].msg = m /\ msgs'[N + 1].lo = lo /\ msgs'[N + 1].hi = f.to
      /\ msgs'[N + 1].garbage = f.to /\ Len(msgs'[N + 1].fields) = 0
      /\ stack'[L + 1].box = N + 1 /\ stack'[L + 1].pos = lo /\ stack'[L + 1].ret[1] = f
  BY <1>2 DEF NewMessage
<1> HIDE DEF L, N
<1>5. PICK l \in Nat : /\ Ahead(T, Value, f.to, Top.box = 1) /\ Spelled(buf, f, l)
                       /\ <<l, f.to>> \in Payloads(buf, f.at, End) /\ <<m, l, f.to>> \in T
  <2>1. Top.pos \in Nat /\ End \in Nat /\ f.to \in Nat
    BY <1>3
  <2>2. Top.pos < End
    BY <1>1, <2>1
  <2> QED BY <1>1, <2>2, FieldRead
<1>6. l = lo
  <2>1. <<l, f.to>> = <<lo, f.to>>
    BY <1>1, <1>3, <1>5, OnePayload
  <2> QED BY <2>1
<1>7. ASSUME NEW d \in 1..(L + 1)
      PROVE  Ahead(T, msgs'[stack'[d].box], stack'[d].pos, stack'[d].box = 1)
  <2>1. CASE d = L + 1
    <3> DEFINE n == msgs'[N + 1]
    <3>1. /\ n.msg = m /\ n.hi = f.to /\ f.to \in Nat
          /\ msgs'[stack'[d].box] = n /\ stack'[d].pos = lo
      BY <1>3, <1>4, <2>1
    <3>2. <<m, lo, f.to>> \in T
      BY <1>5, <1>6
    <3> HIDE DEF n
    <3>3. n.hi <= f.to /\ f.to = n.hi
      BY <3>1
    <3> QED BY <3>1, <3>2, <3>3 DEF Ahead
  <2>2. CASE d = L
    <3>1. msgs'[B] = Value /\ stack'[d].box = B /\ stack'[d].pos = f.to
      BY <1>2, <1>3, <2>2 DEF Value
    <3> QED BY <1>5, <3>1
  <2>3. CASE d \in 1..L /\ d # L
    <3>1. d \in Depths /\ stack[d].box \in 1..N
      BY <1>3, <2>3, CallTypes
    <3>2. Ahead(T, msgs[stack[d].box], stack[d].pos, stack[d].box = 1)
      BY <3>1 DEF Reading
    <3> QED BY <1>2, <2>3, <3>1, <3>2
  <2> QED BY <1>3, <2>1, <2>2, <2>3
<1>8. /\ \A b \in Boxes : \A k \in 1..Len(msgs[b].fields) :
            Spelled(buf, msgs[b].fields[k], msgs'[msgs[b].fields[k].box].lo)
      /\ \A d \in 2..Len(stack) : Spelled(buf, stack[d].ret[1], msgs'[stack[d].box].lo)
  <2>1. Len(msgs) <= Len(msgs')
    BY <1>2, <1>3 DEF N
  <2>2. \A b \in Boxes : msgs'[b].lo = msgs[b].lo
    BY <1>2, <1>3
  <2> QED BY <2>1, <2>2, StillSpelled
<1>9. ASSUME NEW b \in 1..(N + 1), NEW k \in 1..Len(msgs'[b].fields)
      PROVE  Spelled(buf, msgs'[b].fields[k], msgs'[msgs'[b].fields[k].box].lo)
  <2>1. b # N + 1
    BY <1>4
  <2>2. b \in 1..N
    BY <1>3, <2>1
  <2> QED BY <1>2, <1>3, <1>8, <2>2
<1>10. ASSUME NEW d \in 2..(L + 1)
       PROVE  Spelled(buf, stack'[d].ret[1], msgs'[stack'[d].box].lo)
  <2>1. CASE d = L + 1
    BY <1>4, <1>5, <1>6, <2>1
  <2>2. CASE d # L + 1
    <3>1. d \in 2..L /\ d \in 1..L
      BY <1>3, <2>2
    <3>2. Spelled(buf, stack[d].ret[1], msgs'[stack[d].box].lo)
      BY <1>8, <3>1 DEF L
    <3> QED BY <1>2, <3>1, <3>2
  <2> QED BY <2>1, <2>2
<1>11. ASSUME NEW b \in 1..(N + 1), b # 1 PROVE msgs'[b].garbage = msgs'[b].hi
  <2>1. b = N + 1 \/ b \in 1..N
    BY <1>3
  <2> QED BY <1>2, <1>3, <1>4, <1>11, <2>1 DEF Reading
<1>12. status' # "panicked" /\ Len(buf') <= Len(E) /\ \A i \in 1..Len(buf') : buf'[i] = E[i]
  BY <1>2 DEF Reading
<1>13. Written(E, T)
  BY DEF Reading
<1>14. Len(stack') = L + 1
  BY <1>2
<1> QED BY <1>2, <1>3, <1>7, <1>9, <1>10, <1>11, <1>12, <1>13, <1>14 DEF Reading

\* Only the root is cut in a tag: a sub-message is read to its end.
LEMMA ReturnsAtEnd ==
    ASSUME Inv, Running, Rooted, ReturnStep, NEW E, NEW T, Reading(E, T), Top.box # 1
    PROVE  Top.pos = End
<1> DEFINE p == Top.pos
           WrittenAs(e, f, l) ==
              /\ Alike(buf, Top.pos, End, E, Top.pos, e) /\ End <= Len(buf) /\ e <= Len(E)
              /\ (Top.box = 1 \/ e = End)
              /\ WrittenField(E, T, Value.msg, Top.pos, e, f, l)
<1>1. SUFFICES ASSUME Top.pos < End PROVE FALSE
  <2>1. Top.pos \in Nat /\ End \in Nat /\ Top.pos <= End
    BY TopFacts
  <2> QED BY <2>1
<1>2. PICK e \in Nat : \E f \in FieldValue : \E l \in Nat : WrittenAs(e, f, l)
  BY <1>1, WrittenNext
<1>3. PICK f \in FieldValue : \E l \in Nat : WrittenAs(e, f, l)
  BY <1>2
<1>4. PICK l \in Nat : WrittenAs(e, f, l)
  BY <1>3
<1>5. /\ Alike(buf, p, End, E, p, e) /\ e = End /\ f.from = p /\ KeepsTag(E, f, e) /\ Made(E, f, Value.msg, e)
      /\ p \in Nat /\ f.at \in Nat /\ End \in Nat
  BY <1>4, TopFacts DEF WrittenField, FieldValue
<1> HIDE DEF p, WrittenAs
<1>6. f.at \in VarintEnds(E, p, e) /\ p < f.at /\ f.at <= End
  <2>1. <<f.at, f.wire + 8 * f.number>> \in VarintReads(E, p, e, U64) /\ p < f.at /\ f.at <= e
    BY <1>5, TagIs
  <2> QED BY <1>5, <2>1 DEF VarintReads
<1> DEFINE a == f.at
           n == a - p
           h == End
<1>7. a \in Nat /\ p < a /\ a <= h /\ h \in Nat /\ p \in Nat /\ Alike(buf, p, h, E, p, e)
  BY <1>5, <1>6
<1>8. a \in VarintEnds(E, p, e)
  BY <1>6
<1> HIDE DEF a, h
<1>9. n \in Nat /\ p + n = a /\ n <= h - p
  BY <1>7
<1> HIDE DEF n
<1>10. p + n \in VarintEnds(buf, p, h)
  BY <1>7, <1>8, <1>9, EndsAlike
<1>11. VarintEnds(buf, Top.pos, End) # {} /\ Top.pos # End
  <2>1. Top.pos # End
    BY <1>1, <1>5 DEF p
  <2> QED BY <1>10, <2>1 DEF p, h
<1> QED BY <1>11 DEF ReturnStep

LEMMA ReturnKeepsReading ==
    ASSUME Inv, Running, Rooted, Nested, ReturnStep, NEW E, NEW T, Reading(E, T)
    PROVE  Reading(E, T)'
<1> DEFINE L == Len(stack)
           C == stack[L-1].box
           g == Top.ret[1]
           B == Top.box
<1>1. /\ Len(msgs') = Len(msgs) /\ buf' = buf /\ status' = IF L = 1 THEN "done" ELSE status
      /\ \A b \in Boxes : /\ msgs'[b].msg = msgs[b].msg
                          /\ msgs'[b].lo = msgs[b].lo /\ msgs'[b].hi = msgs[b].hi
                          /\ b # B => msgs'[b].garbage = msgs[b].garbage
      /\ msgs'[B].garbage = Top.pos
      /\ \A b \in Boxes : L = 1 \/ b # C => msgs'[b].fields = msgs[b].fields
      /\ Len(stack') = L - 1
      /\ \A i \in 1..(L-1) : stack'[i] = stack[i]
  BY ReturnEffect
<1>2. /\ Boxes' = Boxes /\ Depths = 1..L /\ Depths' = 1..(L-1)
      /\ L \in Nat /\ L > 0 /\ Top = stack[L] /\ B \in Boxes /\ L \in Depths
  BY <1>1, TopFacts DEF Boxes, Depths, Top
<1>3. /\ \A b \in Boxes : \A k \in 1..Len(msgs[b].fields) :
            Spelled(buf, msgs[b].fields[k], msgs'[msgs[b].fields[k].box].lo)
      /\ \A d \in 2..Len(stack) : Spelled(buf, stack[d].ret[1], msgs'[stack[d].box].lo)
  <2>1. Len(msgs) <= Len(msgs')
    BY <1>1 DEF Inv, TypeOK
  <2>2. \A b \in Boxes : msgs'[b].lo = msgs[b].lo
    BY <1>1
  <2> QED BY <2>1, <2>2, StillSpelled
<1>4. ASSUME L > 1, NEW k \in 1..Len(msgs'[C].fields)
      PROVE  Spelled(buf, msgs'[C].fields[k], msgs'[msgs'[C].fields[k].box].lo)
  <2>1. L \in 2..Len(stack)
    BY <1>2, <1>4
  <2>2. g.box = stack[L].box
    BY <1>2, <2>1 DEF Nested, CallsLead
  <2>3. Spelled(buf, g, msgs'[g.box].lo)
    BY <1>2, <1>3, <2>1, <2>2
  <2>4. /\ C \in Boxes /\ Len(msgs[C].fields) \in Nat
        /\ Len(msgs'[C].fields) = Len(msgs[C].fields) + 1
        /\ msgs'[C].fields[Len(msgs[C].fields) + 1] = g
        /\ \A j \in 1..Len(msgs[C].fields) : msgs'[C].fields[j] = msgs[C].fields[j]
    <3>1. Len(stack) > 1
      BY <1>4
    <3> QED BY <3>1, ReturnFields, Zenon
  <2> HIDE DEF C, g, L, B
  <2>5. CASE k = Len(msgs[C].fields) + 1
    BY <2>3, <2>4, <2>5
  <2>6. CASE k \in 1..Len(msgs[C].fields)
    <3>1. msgs'[C].fields[k] = msgs[C].fields[k]
      BY <2>4, <2>6
    <3>2. Spelled(buf, msgs[C].fields[k], msgs'[msgs[C].fields[k].box].lo)
      BY <1>3, <2>4, <2>6
    <3> QED BY <3>1, <3>2
  <2> DEFINE c == Len(msgs[C].fields)
  <2>7. k \in 1..(c + 1) /\ c \in Nat
    BY <1>4, <2>4
  <2> HIDE DEF c
  <2>8. k \in 1..c \/ k = c + 1
    BY <2>7
  <2> QED BY <2>5, <2>6, <2>8 DEF c
<1>5. B # 1 => Top.pos = msgs[B].hi
  BY ReturnsAtEnd DEF End, Value
<1> HIDE DEF g
<1>6. ASSUME NEW b \in Boxes, NEW k \in 1..Len(msgs'[b].fields)
      PROVE  Spelled(buf, msgs'[b].fields[k], msgs'[msgs'[b].fields[k].box].lo)
  <2>1. CASE L > 1 /\ b = C
    BY <1>4, <2>1
  <2>2. CASE L = 1 \/ b # C
    BY <1>1, <1>3, <2>2
  <2>3. (L > 1 /\ b = C) \/ (L = 1 \/ b # C)
    <3> HIDE DEF L, C
    <3> QED BY <1>2
  <2> QED BY <2>1, <2>2, <2>3
<1>7. ASSUME NEW d \in 1..(L-1)
      PROVE  Ahead(T, msgs'[stack'[d].box], stack'[d].pos, stack'[d].box = 1)
  <2>1. d \in Depths
    BY <1>2
  <2>2. stack[d].box \in Boxes
    BY <2>1, CallTypes
  <2>3. Ahead(T, msgs[stack[d].box], stack[d].pos, stack[d].box = 1)
    BY <2>1 DEF Reading
  <2> QED BY <1>1, <2>2, <2>3 DEF Ahead
<1>8. ASSUME NEW d \in 2..(L-1)
      PROVE  Spelled(buf, stack'[d].ret[1], msgs'[stack'[d].box].lo)
  <2>1. d \in 2..Len(stack) /\ d \in 1..(L-1)
    BY <1>2
  <2> QED BY <1>1, <1>3, <2>1
<1>9. ASSUME NEW b \in Boxes, b # 1 PROVE msgs'[b].garbage = msgs'[b].hi
  BY <1>1, <1>5, <1>9 DEF Reading
<1> HIDE DEF L, B, C
<1>10. status' # "panicked" /\ Len(buf') <= Len(E) /\ \A i \in 1..Len(buf') : buf'[i] = E[i]
  BY <1>1 DEF Reading
<1>11. Written(E, T)
  BY DEF Reading
<1> QED BY <1>1, <1>2, <1>6, <1>7, <1>8, <1>9, <1>10, <1>11 DEF Reading

LEMMA VarintPanicsAlike ==
    ASSUME NEW b, NEW p, NEW hi, NEW c, NEW q, NEW e, Alike(b, p, hi, c, q, e),
           VarintPanics(b, p, hi, U64)
    PROVE  VarintPanics(c, q, e, U64)
<1>1. UnknownPanics(0, b, p, hi)
  BY DEF UnknownPanics
<1>2. UnknownPanics(0, c, q, e)
  BY <1>1, UnknownPanicsAlike
<1> QED BY <1>2 DEF UnknownPanics

\* A tag that is read is the written one.
LEMMA ReadTagIs ==
    ASSUME NEW E, NEW p \in Nat, NEW e \in Nat, NEW m, NEW f \in FieldValue, f.from = p,
           KeepsTag(E, f, e), Made(E, f, m, e)
    PROVE  /\ ~VarintPanics(E, p, e, U64)
           /\ \A t \in VarintReads(E, p, e, U64) :
                 /\ t[1] = f.at /\ OriginOf(m, t[2]) = f.origin /\ TypeOf(m, t[2]) = f.type
                 /\ WireType(t[2]) = f.wire
<1> DEFINE u == f.wire + 8 * f.number
<1>1. <<f.at, u>> \in VarintReads(E, p, e, U64)
  BY TagIs
<1>2. WireType(u) = f.wire /\ OriginOf(m, u) = f.origin /\ TypeOf(m, u) = f.type
  BY TagParts DEF FieldValue, Made
<1> HIDE DEF u
<1>3. ASSUME NEW t \in VarintReads(E, p, e, U64)
      PROVE  t[1] = f.at /\ t[2] = u
  <2>1. t = <<f.at, u>>
    BY <1>1, <1>3, OneRead
  <2> QED BY <2>1
<1>4. ~VarintPanics(E, p, e, U64)
  <2>1. ~ShiftOverflows(E, p, e) /\ f.at \in VarintEnds(E, p, e) /\ VarintValue(E, p, f.at) \in U64
    BY <1>1 DEF VarintReads
  <2>2. \A n \in VarintEnds(E, p, e) : n = f.at
    BY <2>1, VarintEndsOnce
  <2> QED BY <2>1, <2>2 DEF VarintPanics
<1> QED BY <1>2, <1>3, <1>4

\* No turn of the loop panics: what is read there was written.
LEMMA ReadingIsSafe ==
    ASSUME Inv, Running, Rooted, NEW E, NEW T, Reading(E, T), Top.pos < End
    PROVE  ~Panics
<1> DEFINE p == Top.pos
           m == Value.msg
           WrittenAs(e, f, l) ==
              /\ Alike(buf, Top.pos, End, E, Top.pos, e) /\ End <= Len(buf) /\ e <= Len(E)
              /\ (Top.box = 1 \/ e = End)
              /\ WrittenField(E, T, Value.msg, Top.pos, e, f, l)
<1>1. PICK e \in Nat : \E f \in FieldValue : \E l \in Nat : WrittenAs(e, f, l)
  BY WrittenNext
<1>2. PICK f \in FieldValue : \E l \in Nat : WrittenAs(e, f, l)
  BY <1>1
<1>3. PICK l \in Nat : WrittenAs(e, f, l)
  BY <1>2
<1> DEFINE a == f.at
           h == End
<1>4. /\ Alike(buf, p, h, E, p, e) /\ f.from = p /\ KeepsTag(E, f, e) /\ Made(E, f, m, e) /\ Found(E, f, e)
      /\ p \in Nat /\ a \in Nat /\ h \in Nat
  BY <1>3, TopFacts DEF WrittenField, FieldValue, Made
<1> HIDE DEF WrittenAs
<1>5. /\ ~VarintPanics(E, p, e, U64)
      /\ \A t \in VarintReads(E, p, e, U64) :
            /\ t[1] = a /\ OriginOf(m, t[2]) = f.origin /\ TypeOf(m, t[2]) = f.type
            /\ WireType(t[2]) = f.wire
  BY <1>4, ReadTagIs
<1>6. ~VarintPanics(buf, p, h, U64)
  BY <1>4, <1>5, VarintPanicsAlike
<1>7. ASSUME NEW t \in Tags
      PROVE  /\ p < a /\ a <= h /\ t[1] = a /\ Origin(t[2]) = f.origin /\ TypeOfTag(t[2]) = f.type
             /\ WireType(t[2]) = f.wire
  <2>1. VarintReads(buf, p, h, U64) \subseteq VarintReads(E, p, e, U64)
    <3>1. ~ShiftOverflows(E, p, e)
      BY <1>5 DEF VarintPanics
    <3> QED BY <1>4, <3>1, ReadsInPlace
  <2>2. t \in VarintReads(E, p, e, U64)
    BY <2>1 DEF Tags
  <2>3. Origin(t[2]) = OriginOf(m, t[2])
    BY DEF Origin, OriginOf, Fields
  <2>4. TypeOfTag(t[2]) = TypeOf(m, t[2])
    BY <2>3 DEF TypeOfTag, TypeOf, Fields
  <2>5. Top.pos < t[1] /\ t[1] <= End
    BY TagFacts
  <2> QED BY <1>5, <2>2, <2>3, <2>4, <2>5
<1>8. SUFFICES ASSUME NEW t \in Tags
               PROVE  /\ Origin(t[2]) = "value" =>
                            IF TypeOfTag(t[2]) = "Message" THEN ~VarintPanics(buf, t[1], End, U64)
                            ELSE ~ScalarPanics(TypeOfTag(t[2]), buf, t[1], End)
                      /\ Origin(t[2]) = "packed" =>
                            /\ ~VarintPanics(buf, t[1], End, U64)
                            /\ \A q \in Payloads(buf, t[1], End) :
                                  ~PackedPanics(TypeOfTag(t[2]), buf, q[1], q[2])
                      /\ Origin(t[2]) = "unknown" => ~UnknownPanics(WireType(t[2]), buf, t[1], End)
  BY <1>6 DEF Panics
<1>9. Alike(buf, a, h, E, a, e)
  <2> DEFINE n == a - p
  <2>1. p < a /\ a <= h
    BY <1>7
  <2> HIDE DEF a, p, h
  <2>2. n \in Nat /\ p + n = a /\ n <= n /\ n <= h - p
    BY <1>4, <2>1
  <2> HIDE DEF n
  <2>3. Alike(buf, p + n, h, E, p + n, e)
    BY <1>4, <2>2, FartherAlike
  <2> QED BY <2>2, <2>3
<1>10. /\ f.origin = "value" /\ f.type = "Message" => ~VarintPanics(E, a, e, U64)
       /\ f.origin = "value" /\ f.type # "Message" => ~ScalarPanics(f.type, E, a, e)
       /\ f.origin = "packed" => /\ ~VarintPanics(E, a, e, U64)
                                 /\ \A q \in Payloads(E, a, e) : ~PackedPanics(f.type, E, q[1], q[2])
       /\ f.origin = "unknown" => ~UnknownPanics(f.wire, E, a, e)
  BY <1>4, FoundSafe
<1>11. f.type \in ValueTypes
  BY DEF FieldValue
<1> HIDE DEF a, p, h, m
<1>12. ~VarintPanics(E, a, e, U64) => ~VarintPanics(buf, a, h, U64)
  BY <1>9, VarintPanicsAlike
<1>13. f.origin = "value" /\ f.type # "Message" => ~ScalarPanics(f.type, buf, a, h)
  BY <1>9, <1>10, <1>11, ScalarPanicsAlike DEF ValueTypes
<1>14. ASSUME f.origin = "packed", NEW q \in Payloads(buf, a, h)
       PROVE  ~PackedPanics(f.type, buf, q[1], q[2])
  <2>1. ~ShiftOverflows(E, a, e)
    BY <1>10, <1>14 DEF VarintPanics
  <2>2. q \in Payloads(E, a, e)
    BY <1>9, <2>1, ReadsInPlace
  <2> QED BY <1>9, <1>10, <1>14, <2>2, PackedInPlace
<1>15. f.origin = "unknown" => ~UnknownPanics(f.wire, buf, a, h)
  BY <1>9, <1>10, UnknownPanicsAlike
<1> QED BY <1>7, <1>10, <1>12, <1>13, <1>14, <1>15 DEF h

\* A step keeps the fields.
LEMMA FieldsStay ==
    ASSUME Inv, Next
    PROVE  /\ buf' = buf
           /\ \A b \in Boxes : /\ b \in Boxes'
                               /\ \A k \in 1..Len(msgs[b].fields) :
                                     /\ k \in 1..Len(msgs'[b].fields)
                                     /\ msgs'[b].fields[k] = msgs[b].fields[k]
<1>1. Running /\ (PushStep \/ EnterStep \/ ReturnStep \/ PanicStep)
  BY StepShapes
<1> USE DEF Boxes
<1>2. CASE PushStep
  <2>1. PICK f \in FieldValue, pos \in Nat : Push(f, pos)
    BY <1>2 DEF PushStep
  <2>2. /\ Len(msgs') = Len(msgs) /\ buf' = buf
        /\ \A b \in Boxes : b # Top.box => msgs'[b] = msgs[b]
    BY <1>1, <2>1, PushEffect
  <2>3. /\ Len(msgs[Top.box].fields) \in Nat
        /\ Len(msgs'[Top.box].fields) = Len(msgs[Top.box].fields) + 1
        /\ \A k \in 1..Len(msgs[Top.box].fields) : msgs'[Top.box].fields[k] = msgs[Top.box].fields[k]
    BY <1>1, <2>1, PushFields
  <2> HIDE DEF Boxes
  <2>4. \A k \in 1..Len(msgs[Top.box].fields) : k \in 1..Len(msgs'[Top.box].fields)
    BY <2>3
  <2>5. Boxes' = Boxes
    BY <2>2 DEF Boxes
  <2> QED BY <2>2, <2>3, <2>4, <2>5
<1>3. CASE EnterStep
  <2>1. PICK f \in FieldValue, lo \in Nat, m \in Messages : Enter(f, lo, m)
    BY <1>3 DEF EnterStep
  <2>2. /\ Len(msgs') = Len(msgs) + 1 /\ buf' = buf /\ \A b \in 1..Len(msgs) : msgs'[b] = msgs[b]
    BY <1>1, <2>1, EnterEffect
  <2>3. Len(msgs) \in Nat
    BY DEF Inv, TypeOK
  <2> QED BY <2>2, <2>3
<1>4. CASE ReturnStep
  <2>1. /\ Len(msgs') = Len(msgs) /\ buf' = buf
        /\ \A b \in Boxes : Len(stack) = 1 \/ b # stack[Len(stack)-1].box
                                 => msgs'[b].fields = msgs[b].fields
    BY <1>1, <1>4, ReturnEffect
  <2> HIDE DEF Boxes
  <2>2. Boxes' = Boxes
    BY <2>1 DEF Boxes
  <2>3. ASSUME NEW b \in Boxes, NEW k \in 1..Len(msgs[b].fields)
        PROVE  k \in 1..Len(msgs'[b].fields) /\ msgs'[b].fields[k] = msgs[b].fields[k]
    <3>1. CASE Len(stack) = 1 \/ b # stack[Len(stack)-1].box
      BY <2>1, <3>1
    <3>2. CASE Len(stack) > 1 /\ b = stack[Len(stack)-1].box
      <4>1. /\ Len(msgs[b].fields) \in Nat
            /\ Len(msgs'[b].fields) = Len(msgs[b].fields) + 1
            /\ \A j \in 1..Len(msgs[b].fields) : msgs'[b].fields[j] = msgs[b].fields[j]
        BY <1>1, <1>4, <3>2, ReturnFields, Zenon
      <4> QED BY <4>1
    <3> DEFINE L == Len(stack)
    <3>3. L \in Nat /\ L > 0
      BY <1>1, TopFacts
    <3>4. L = 1 \/ L > 1
      <4> HIDE DEF L
      <4> QED BY <3>3
    <3> QED BY <3>1, <3>2, <3>4
  <2> QED BY <2>1, <2>2, <2>3
<1>5. CASE PanicStep
  BY <1>5 DEF PanicStep
<1> QED BY <1>1, <1>2, <1>3, <1>4, <1>5

LEMMA MoreRepeated ==
    ASSUME Inv, [Next]_vars, NothingRepeated'
    PROVE  NothingRepeated
<1>1. CASE UNCHANGED vars
  BY <1>1 DEF vars, NothingRepeated, Boxes, FieldsOf
<1>2. CASE Next
  <2>1. ASSUME NEW b \in Boxes, NEW k \in 1..Len(msgs[b].fields)
        PROVE  ~DecodedAgain(buf, msgs[b].fields[k])
    <3>1. /\ buf' = buf /\ b \in Boxes' /\ k \in 1..Len(msgs'[b].fields)
          /\ msgs'[b].fields[k] = msgs[b].fields[k]
      BY <1>2, FieldsStay
    <3>2. ~DecodedAgain(buf', msgs'[b].fields[k])
      BY <3>1 DEF NothingRepeated, FieldsOf
    <3> QED BY <3>1, <3>2
  <2> QED BY <2>1 DEF NothingRepeated, FieldsOf
<1> QED BY <1>1, <1>2

LEMMA NextReading ==
    ASSUME Inv, Rooted, Nested, [Next]_vars, NothingRepeated', NEW E, NEW T, Reading(E, T)
    PROVE  Reading(E, T)'
<1>1. CASE Next
  <2>1. Running /\ (PushStep \/ EnterStep \/ ReturnStep \/ PanicStep)
    BY <1>1, StepShapes
  <2>2. ~PanicStep
    BY <2>1, ReadingIsSafe DEF PanicStep
  <2> QED BY <2>1, <2>2, PushKeepsReading, EnterKeepsReading, ReturnKeepsReading
<1>2. CASE UNCHANGED vars
  BY <1>2 DEF vars, Reading, Boxes, Depths
<1> QED BY <1>1, <1>2

-----------------------------------------------------------------------------
(* The bytes of the boxes *)

\* What holds of a number if it holds of all greater ones up to N.
LEMMA DownInduction ==
    ASSUME NEW N \in Nat, NEW S, \A b \in 1..N : (\A c \in 1..N : b < c => c \in S) => b \in S
    PROVE  \A b \in 1..N : b \in S
<1> DEFINE B == {n \in Nat : \A b \in 1..N : N - n < b => b \in S}
<1>1. 0 \in B
  OBVIOUS
<1>2. ASSUME NEW n \in Nat, n \in B PROVE n + 1 \in B
  <2>1. ASSUME NEW b \in 1..N, N - (n + 1) < b PROVE b \in S
    <3>1. \A c \in 1..N : b < c => N - n < c
      BY <2>1
    <3>2. \A c \in 1..N : b < c => c \in S
      BY <1>2, <3>1
    <3> QED BY <3>2
  <2> QED BY <2>1
<1> HIDE DEF B
<1>3. N \in B
  <2>1. Nat \subseteq B
    BY <1>1, <1>2, SetInduction
  <2> QED BY <2>1
<1> QED BY <1>3 DEF B

\* enc are the bytes of the boxes.
Encoding(enc) == enc = [b \in Boxes |-> MessageBytes(enc, b)]

\* The bytes of a message depend on those of its sub-messages, whose boxes are later.
LEMMA SameMessageBytes ==
    ASSUME FieldsLead(msgs), NEW b \in Boxes, Placed(buf, msgs[b]), NEW x, NEW y,
           \A c \in Boxes : b < c => x[c] = y[c]
    PROVE  MessageBytes(x, b) = MessageBytes(y, b)
<1>1. ASSUME NEW k \in 1..Len(msgs[b].fields)
      PROVE  FieldBytes(x, msgs[b].fields[k]) = FieldBytes(y, msgs[b].fields[k])
  <2> DEFINE f == msgs[b].fields[k]
  <2>1. CASE f.kind = "Message"
    <3>1. f.box # NoBox
      BY <2>1 DEF Placed
    <3>2. f.box \in Boxes /\ b < f.box
      BY <3>1 DEF FieldsLead, Boxes
    <3> QED BY <3>2 DEF FieldBytes
  <2>2. CASE f.kind # "Message"
    BY <2>2 DEF FieldBytes
  <2> QED BY <2>1, <2>2
<1> QED BY <1>1 DEF MessageBytes

LEMMA EncodingExists ==
    ASSUME FieldsLead(msgs), Len(msgs) \in Nat, \A b \in Boxes : Placed(buf, msgs[b])
    PROVE  \E enc : Encoding(enc)
<1> DEFINE N == Len(msgs)
           Partly(x, n) == /\ x = [b \in Boxes |-> x[b]]
                           /\ \A b \in Boxes : N - n < b => x[b] = MessageBytes(x, b)
           S == {n \in Nat : \E x : Partly(x, n)}
<1>1. 0 \in S
  <2> DEFINE x == [b \in Boxes |-> <<>>]
  <2>1. Partly(x, 0)
    BY DEF Boxes
  <2> QED BY <2>1
<1>2. ASSUME NEW n \in Nat, n \in S PROVE n + 1 \in S
  <2>1. PICK x : Partly(x, n)
    BY <1>2
  <2> DEFINE y == [b \in Boxes |-> IF b = N - n THEN MessageBytes(x, b) ELSE x[b]]
  <2>2. y = [b \in Boxes |-> y[b]]
    OBVIOUS
  <2>3. \A b \in Boxes : y[b] = IF b = N - n THEN MessageBytes(x, b) ELSE x[b]
    OBVIOUS
  <2> HIDE DEF y
  <2>4. ASSUME NEW b \in Boxes, N - (n + 1) < b PROVE y[b] = MessageBytes(y, b)
    <3>1. b \in Nat /\ N \in Nat /\ (b = N - n \/ N - n < b) /\ \A c \in Boxes : b < c => c # N - n
      BY <2>4 DEF Boxes
    <3>2. \A c \in Boxes : b < c => x[c] = y[c]
      BY <2>3, <3>1
    <3>3. MessageBytes(x, b) = MessageBytes(y, b)
      BY <3>2, SameMessageBytes
    <3>4. N - n < b => b # N - n
      BY <3>1
    <3>5. CASE b = N - n
      BY <2>3, <3>3, <3>5
    <3>6. CASE N - n < b
      BY <2>1, <2>3, <3>3, <3>4, <3>6
    <3> QED BY <3>1, <3>5, <3>6
  <2>5. Partly(y, n + 1)
    BY <2>2, <2>4
  <2> HIDE DEF Partly
  <2> QED BY <2>5
<1> HIDE DEF S
<1>3. N \in S
  <2>1. Nat \subseteq S
    BY <1>1, <1>2, SetInduction
  <2> QED BY <2>1
<1>4. PICK x : Partly(x, N)
  BY <1>3 DEF S
<1>5. \A b \in Boxes : N - N < b
  BY DEF Boxes
<1>6. \A b \in Boxes : x[b] = MessageBytes(x, b)
  BY <1>4, <1>5
<1>7. x = [b \in Boxes |-> MessageBytes(x, b)]
  BY <1>4, <1>6
<1> QED BY <1>7 DEF Encoding

LEMMA EncodedIs ==
    ASSUME FieldsLead(msgs), Len(msgs) \in Nat, 1 \in Boxes, \A b \in Boxes : Placed(buf, msgs[b])
    PROVE  \E enc : Encoding(enc) /\ Encoded = enc[1]
<1> DEFINE enc == CHOOSE enc : Encoding(enc)
<1>1. Encoding(enc)
  BY EncodingExists
<1>2. Encoded = enc[1]
  BY DEF Encoded, Encoding
<1> QED BY <1>1, <1>2

LEMMA TagWritten ==
    ASSUME NEW b, NEW f \in FieldValue, NEW m, NEW hi \in Nat, KeepsTag(b, f, hi), Made(b, f, m, hi)
    PROVE  LET u == WireTypeOfValue(f) + 8 * f.number
           IN  /\ u \in U64 /\ u = f.wire + 8 * f.number /\ TagBytes(f) = VarintBytes(u)
               /\ TagBytes(f) \in Seq(Byte) /\ Len(TagBytes(f)) \in Nat \ {0}
<1> DEFINE u == WireTypeOfValue(f) + 8 * f.number
<1>1. u = f.wire + 8 * f.number
  BY WireIs
<1>2. <<f.at, u>> \in VarintReads(b, f.from, hi, U64) /\ TagBytes(f) = VarintBytes(u % M64)
  BY <1>1, TagIs
<1> HIDE DEF u
<1>3. u \in U64
  BY <1>2 DEF VarintReads
<1>4. u % M64 = u
  BY <1>3, Numbers DEF U64
<1>5. VarintBytes(u) \in Seq(Byte) /\ Len(VarintBytes(u)) \in Nat \ {0}
  <2> DEFINE v == VarintBytes(u)
  <2>1. v \in Seq(Byte) /\ Len(v) \in 1..MaxGroups
    BY <1>3, VarintIs
  <2> HIDE DEF v
  <2> QED BY <2>1 DEF v
<1> QED BY <1>1, <1>2, <1>3, <1>4, <1>5 DEF u

\* Where a field that was decoded lies.
LEMMA FieldDecoded ==
    ASSUME Inv, AllRead, Rooted, NEW b \in Boxes, NEW k \in 1..Len(msgs[b].fields)
    PROVE  LET f == msgs[b].fields[k]
               m == msgs[b]
           IN  /\ f \in FieldValue /\ f.from \in Nat /\ f.at \in Nat /\ f.to \in Nat
               /\ KeepsTag(buf, f, m.hi) /\ Made(buf, f, m.msg, m.hi)
               /\ Found(buf, f, m.hi)
               /\ m.msg \in Messages /\ m.hi \in Nat /\ m.hi <= Len(buf)
               /\ f.from < f.at /\ f.at <= f.to /\ f.to <= m.hi
<1> DEFINE f == msgs[b].fields[k]
           m == msgs[b]
<1>1. f \in FieldValue /\ m.msg \in Messages /\ m.hi \in Nat
  <2>1. m \in MessageValue
    BY DEF Inv, TypeOK, Boxes
  <2>2. m.fields \in Seq(FieldValue)
    BY <2>1 DEF MessageValue
  <2> QED BY <2>1, <2>2 DEF MessageValue
<1>2. WellRead(buf, f, m.msg, m.hi) /\ m.hi <= Len(buf)
  BY DEF AllRead, Rooted, Placed
<1> HIDE DEF f, m
<1>3. KeepsTag(buf, f, m.hi) /\ Made(buf, f, m.msg, m.hi) /\ Found(buf, f, m.hi)
  BY <1>2 DEF WellRead, Made
<1>4. f.from < f.at /\ f.at <= m.hi
  BY <1>1, <1>3, TagIs
<1>5. f.at <= f.to /\ f.to <= m.hi
  BY <1>1, <1>3, <1>4, ToIs
<1>6. f.from \in Nat /\ f.at \in Nat /\ f.to \in Nat
  BY <1>1 DEF FieldValue
<1> QED BY <1>1, <1>2, <1>3, <1>4, <1>5, <1>6 DEF f, m

\* What encode writes for the value of f can be read.
Writable(f) ==
    f.kind # "Message" => IsValue(f, ValueBytes(buf, f)) /\ (IsRest(f) \/ Readable(f))

AllWritable == \A b \in Boxes : \A k \in 1..Len(msgs[b].fields) : Writable(msgs[b].fields[k])

LEMMA FieldsWritable ==
    ASSUME Inv, AllRead, Rooted, ~EncodePanics
    PROVE  AllWritable
<1>1. ASSUME NEW b \in Boxes, NEW k \in 1..Len(msgs[b].fields) PROVE Writable(msgs[b].fields[k])
  <2> DEFINE f == msgs[b].fields[k]
             hi == msgs[b].hi
  <2>1. /\ f \in FieldValue /\ Found(buf, f, hi) /\ hi \in Nat /\ hi <= Len(buf)
        /\ f.at <= f.to /\ f.to <= hi
    BY FieldDecoded
  <2>2. ~FieldPanics(buf, f)
    BY DEF EncodePanics, FieldsOf
  <2>3. buf \in Seq(Byte)
    BY DEF Inv, TypeOK
  <2> HIDE DEF f, hi
  <2>4. Writable(f)
    BY <2>1, <2>2, <2>3, ValueWritten DEF Writable
  <2> QED BY <2>4 DEF f
<1> QED BY <1>1 DEF AllWritable

Elems(enc, b) == [k \in 1..Len(msgs[b].fields) |-> FieldBytes(enc, msgs[b].fields[k])]

\* The box of a sub-message.
LEMMA BoxOfMessage ==
    ASSUME Rooted, Nested, NEW b \in Boxes, NEW k \in 1..Len(msgs[b].fields), msgs[b].fields[k].kind = "Message"
    PROVE  LET c == msgs[b].fields[k].box
           IN  c \in Boxes /\ b < c /\ c # 1 /\ Leads(msgs[b], msgs[b].fields[k], msgs[c])
<1>1. msgs[b].fields[k].box # NoBox
  BY DEF Rooted, Placed
<1> DEFINE c == msgs[b].fields[k].box
<1>2. c \in 1..Len(msgs) /\ b < c /\ Leads(msgs[b], msgs[b].fields[k], msgs[c])
  BY <1>1 DEF Nested, FieldsLead, Boxes
<1> HIDE DEF c
<1>3. c # 1
  BY <1>2 DEF Boxes
<1> QED BY <1>2, <1>3 DEF Boxes, c

ValueOf(enc, f) == IF f.kind = "Message" THEN Delimited(enc[f.box]) ELSE ValueBytes(buf, f)

LEMMA FieldBytesTyped ==
    ASSUME Inv, AllRead, Rooted, AllWritable, NEW enc, NEW b \in Boxes, NEW k \in 1..Len(msgs[b].fields),
           LET f == msgs[b].fields[k] IN f.kind = "Message" => enc[f.box] \in Seq(Byte)
    PROVE  LET f == msgs[b].fields[k]
           IN  /\ FieldBytes(enc, f) = TagBytes(f) \o ValueOf(enc, f)
               /\ FieldBytes(enc, f) \in Seq(Byte)
               /\ TagBytes(f) \in Seq(Byte) /\ ValueOf(enc, f) \in Seq(Byte)
<1> DEFINE f == msgs[b].fields[k]
           t == TagBytes(f)
           v == ValueOf(enc, f)
<1>1. f \in FieldValue /\ KeepsTag(buf, f, msgs[b].hi) /\ Made(buf, f, msgs[b].msg, msgs[b].hi) /\ msgs[b].hi \in Nat
  BY FieldDecoded
<1>2. f.kind # "Message" => ValueBytes(buf, f) \in Seq(Byte)
  BY DEF AllWritable, Writable, IsValue
<1>3. f.kind = "Message" => enc[f.box] \in Seq(Byte)
  OBVIOUS
<1> HIDE DEF f
<1>4. t \in Seq(Byte)
  BY <1>1, TagWritten
<1>5. v \in Seq(Byte)
  BY <1>2, <1>3, DelimitedSeq DEF ValueOf
<1>6. FieldBytes(enc, f) = t \o v
  BY DEF FieldBytes, ValueOf
<1> HIDE DEF t, v
<1>7. t \o v \in Seq(Byte)
  BY <1>4, <1>5
<1> QED BY <1>4, <1>5, <1>6, <1>7 DEF t, v, f

\* The bytes of a message are those of its fields one behind the other.
LEMMA BoxLaid ==
    ASSUME Inv, AllRead, Rooted, AllWritable, NEW enc, Encoding(enc), NEW b \in Boxes,
           \A k \in 1..Len(msgs[b].fields) : LET f == msgs[b].fields[k]
                                             IN  f.kind = "Message" => enc[f.box] \in Seq(Byte)
    PROVE  /\ enc[b] \in Seq(Byte) /\ Len(msgs[b].fields) \in Nat
           /\ Elems(enc, b) \in Seq(Seq(Byte)) /\ Len(Elems(enc, b)) = Len(msgs[b].fields)
           /\ \A k \in 1..Len(msgs[b].fields) : Elems(enc, b)[k] = FieldBytes(enc, msgs[b].fields[k])
           /\ \E o : Laid(enc[b], Elems(enc, b), Len(msgs[b].fields), o)
<1> DEFINE n == Len(msgs[b].fields)
           F(k) == FieldBytes(enc, msgs[b].fields[k])
<1>1. n \in Nat
  BY MessageTypes
<1>2. \A k \in 1..n : F(k) \in Seq(Byte)
  BY FieldBytesTyped
<1>3. Elems(enc, b) = [k \in 1..n |-> F(k)]
  BY DEF Elems
<1>4. enc[b] = FlattenSeq(Elems(enc, b))
  BY DEF Encoding, MessageBytes, Elems
<1> HIDE DEF n, F
<1>5. Elems(enc, b) \in Seq(Seq(Byte)) /\ Len(Elems(enc, b)) = n /\ \A k \in 1..n : Elems(enc, b)[k] = F(k)
  BY <1>1, <1>2, <1>3
<1>6. FlattenSeq(Elems(enc, b)) \in Seq(Byte) /\ \E o : Laid(FlattenSeq(Elems(enc, b)), Elems(enc, b), n, o)
  BY <1>5, FlattenLaid
<1> QED BY <1>1, <1>4, <1>5, <1>6 DEF n, F

LEMMA BytesTyped ==
    ASSUME Inv, AllRead, Rooted, Nested, AllWritable, NEW enc, Encoding(enc)
    PROVE  \A b \in Boxes : enc[b] \in Seq(Byte)
<1> DEFINE S == {b \in Boxes : enc[b] \in Seq(Byte)}
           N == Len(msgs)
<1>1. N \in Nat /\ Boxes = 1..N
  BY DEF Inv, TypeOK, Boxes
<1>2. ASSUME NEW b \in 1..N, \A c \in 1..N : b < c => c \in S PROVE b \in S
  <2>1. ASSUME NEW k \in 1..Len(msgs[b].fields), msgs[b].fields[k].kind = "Message"
        PROVE  enc[msgs[b].fields[k].box] \in Seq(Byte)
    BY <1>1, <1>2, <2>1, BoxOfMessage
  <2>2. enc[b] \in Seq(Byte)
    BY <1>1, <2>1, BoxLaid
  <2> QED BY <1>1, <2>2
<1> HIDE DEF S, N
<1>3. \A b \in 1..N : b \in S
  BY <1>1, <1>2, DownInduction
<1> QED BY <1>1, <1>3 DEF S

\* In a message at e's end, field k of box b, written at p of E, is read as g.
ReadAgain(enc, E, b, k, p, e, g, l) ==
    /\ g.from = p /\ g.to = p + Len(FieldBytes(enc, msgs[b].fields[k]))
    /\ KeepsTag(E, g, e) /\ Made(E, g, msgs[b].msg, e) /\ Spelled(E, g, l)
    /\ g.kind = "Message" => /\ msgs[b].fields[k].kind = "Message"
                             /\ g.number = msgs[b].fields[k].number
                             /\ <<l, g.to>> \in Payloads(E, g.at, e)
                             /\ Sits(E, l, enc[msgs[b].fields[k].box])
                             /\ g.to = l + Len(enc[msgs[b].fields[k].box])

\* A field that encode writes at offset p of E, in a message that ends at e, is
\* found there again.
LEMMA FieldAt ==
    ASSUME Inv, AllRead, Rooted, Nested, AllWritable, NEW enc, Encoding(enc),
           NEW b \in Boxes, NEW k \in 1..Len(msgs[b].fields),
           NEW E \in Seq(Byte), Len(E) < M64, NEW p \in Nat, NEW e \in Nat, e <= Len(E), NEW s,
           s = FieldBytes(enc, msgs[b].fields[k]), Sits(E, p, s), p + Len(s) <= e,
           IsRest(msgs[b].fields[k]) => p + Len(s) = e
    PROVE  \E g \in FieldValue : \E l \in Nat : ReadAgain(enc, E, b, k, p, e, g, l)
<1> DEFINE f == msgs[b].fields[k]
           m == msgs[b].msg
           hi == msgs[b].hi
           t == TagBytes(f)
           v == ValueOf(enc, f)
           n == p + Len(t)
           z == n + Len(v)
           u == WireTypeOfValue(f) + 8 * f.number
           g == [f EXCEPT !.from = p, !.at = n, !.to = z]
           y == enc[f.box]
<1>1. /\ f \in FieldValue /\ KeepsTag(buf, f, hi) /\ Made(buf, f, m, hi) /\ Found(buf, f, hi)
      /\ m \in Messages /\ hi \in Nat /\ hi <= Len(buf)
      /\ f.at <= f.to /\ f.to <= hi
  BY FieldDecoded
<1>2. f.kind = "Message" => y \in Seq(Byte)
  BY BoxOfMessage, BytesTyped
<1>3. s = t \o v /\ t \in Seq(Byte) /\ v \in Seq(Byte)
  BY <1>2, FieldBytesTyped
<1>4. Writable(f)
  BY DEF AllWritable
<1> HIDE DEF f, m, hi
<1>5. u \in U64 /\ u = f.wire + 8 * f.number /\ t = VarintBytes(u)
  BY <1>1, TagWritten
<1> HIDE DEF t, u
<1>6. v = ValueOf(enc, f)
  OBVIOUS
<1> HIDE DEF v
<1>7. Sits(E, p, t) /\ Sits(E, n, v) /\ Len(s) = Len(t) + Len(v) /\ Len(t) \in Nat /\ Len(v) \in Nat
  <2>1. Sits(E, p, t \o v)
    BY <1>3
  <2> QED BY <1>3, <2>1, SitsConcat
<1>8. n \in Nat /\ z \in Nat /\ p + Len(s) = z /\ z <= e /\ n <= z /\ p + Len(t) <= e
  BY <1>7
<1>9. /\ g \in FieldValue /\ g.from = p /\ g.at = n /\ g.to = z /\ g.kind = f.kind /\ g.number = f.number
      /\ g.type = f.type /\ g.origin = f.origin /\ g.wire = f.wire /\ g.box = f.box
  BY <1>1, <1>8 DEF FieldValue
<1> HIDE DEF g
<1>10. WireTypeOfValue(g) = WireTypeOfValue(f) /\ TagBytes(g) = t
  BY <1>9 DEF WireTypeOfValue, TagBytes, t
<1>11. KeepsTag(E, g, e)
  <2>1. p + Len(VarintBytes(u)) = n /\ Sits(E, p, VarintBytes(u)) /\ p + Len(VarintBytes(u)) <= e
    BY <1>5, <1>7, <1>8
  <2>2. VarintReads(E, p, e, U64) = {<<n, u>>}
    BY <1>5, <2>1, ReadsBack
  <2> QED BY <1>9, <1>10, <2>2 DEF KeepsTag, u
<1>12. Bytes(E, p, n) = t /\ Bytes(E, n, z) = v
  BY <1>3, <1>7, <1>8, SitsBytes
<1>13. Found(E, g, e) => Made(E, g, m, e)
  BY <1>1, <1>9 DEF Made
<1> HIDE DEF n, z
<1>14. CASE f.kind = "Message"
  <2> HIDE DEF y
  <2>1. y \in Seq(Byte) /\ v = Delimited(y) /\ Len(y) \in Nat
    BY <1>2, <1>6, <1>14 DEF ValueOf, y
  <2>2. Len(y) < M64
    <3>1. Len(y) <= Len(v)
      BY <2>1, DelimitedSeq
    <3>2. z = n + Len(v)
      BY DEF z
    <3>3. Len(v) <= z
      BY <1>7, <1>8, <3>2
    <3>4. Len(E) \in Nat
      OBVIOUS
    <3>5. M64 \in Nat
      BY Numbers
    <3> QED BY <1>7, <1>8, <2>1, <3>1, <3>3, <3>4, <3>5
  <2> DEFINE l == n + Len(VarintBytes(Len(y)))
  <2>3. /\ l \in Nat /\ z = l + Len(y) /\ l <= z
        /\ Payloads(E, n, e) = {<<l, z>>} /\ Sits(E, l, y)
    <3>1. n + Len(Delimited(y)) = z
      BY <2>1 DEF z
    <3> QED BY <1>7, <1>8, <2>1, <2>2, <3>1, DelimitedBack
  <2> HIDE DEF l
  <2>4. Bytes(E, l, z) = y
    BY <2>1, <2>3, SitsBytes
  <2>5. Found(E, g, e)
    <3>1. g.origin = "value" /\ g.type = "Message"
      BY <1>1, <1>9, <1>14 DEF Found
    <3>2. \E q \in Payloads(E, n, e) : q[2] = z
      BY <2>3
    <3> QED BY <1>9, <1>14, <3>1, <3>2 DEF Found
  <2>6. Spelled(E, g, l)
    BY <1>9, <1>10, <1>12, <1>14, <2>1, <2>4 DEF Spelled
  <2>7. <<l, z>> \in Payloads(E, n, e)
    BY <2>3
  <2>8. ReadAgain(enc, E, b, k, p, e, g, l)
    BY <1>8, <1>9, <1>11, <1>13, <1>14, <2>3, <2>5, <2>6, <2>7 DEF f, m, y, ReadAgain
  <2> QED BY <1>9, <2>3, <2>8
<1>15. CASE f.kind # "Message"
  <2>1. IsValue(f, v) /\ (IsRest(f) \/ Readable(f)) /\ v = ValueBytes(buf, f)
    BY <1>4, <1>6, <1>15 DEF Writable, ValueOf
  <2>2. IsValue(g, v) /\ (IsRest(f) => IsRest(g)) /\ (Readable(f) => Readable(g))
    BY <1>9, <2>1, SameShape
  <2>3. Spelled(E, g, 0)
    BY <1>9, <1>10, <1>12, <1>15, <2>1, <2>2 DEF Spelled
  <2>4. Found(E, g, e)
    <3>1. CASE IsRest(f)
      <4>1. g.to = g.at + Len(ValueBytes(buf, f)) /\ Sits(E, g.at, ValueBytes(buf, f)) /\ g.to = e
        BY <1>7, <1>8, <1>9, <2>1, <3>1 DEF f, z
      <4>2. buf \in Seq(Byte)
        BY DEF Inv, TypeOK
      <4> QED BY <1>1, <1>9, <3>1, <4>1, <4>2, RestRead
    <3>2. CASE Readable(f)
      <4>1. g.at <= g.to /\ g.to <= Len(E)
        BY <1>8, <1>9
      <4>2. IsValue(g, Bytes(E, g.at, g.to))
        BY <1>9, <1>12, <2>2
      <4> QED BY <1>8, <1>9, <2>2, <3>2, <4>1, <4>2, ValueRead
    <3> QED BY <2>1, <3>1, <3>2
  <2>5. ReadAgain(enc, E, b, k, p, e, g, 0)
    BY <1>8, <1>9, <1>11, <1>13, <1>15, <2>3, <2>4 DEF m, ReadAgain
  <2> QED BY <1>9, <2>5
<1> QED BY <1>14, <1>15

-----------------------------------------------------------------------------
(* What encode wrote can be read *)

\* A value whose end is that of its slice is the last one.
LEMMA RestIsLast ==
    ASSUME Inv, AllRead, Linked, Rooted, NothingRepeated, NEW b \in Boxes,
           NEW k \in 1..Len(msgs[b].fields), IsRest(msgs[b].fields[k])
    PROVE  k = Len(msgs[b].fields)
<1> DEFINE f == msgs[b].fields[k]
           n == Len(msgs[b].fields)
           hi == msgs[b].hi
<1>1. f \in FieldValue /\ Found(buf, f, hi) /\ hi \in Nat /\ f.to \in Nat
  BY FieldDecoded
<1>2. f.to = hi
  <2>1. CASE f.kind = "Incomplete"
    BY <1>1, <2>1 DEF Found
  <2>2. CASE f.kind = "Invalid"
    BY <1>1, <2>2 DEF Found, UnknownEnds
  <2> QED BY <2>1, <2>2 DEF IsRest
<1>3. n \in Nat
  BY MessageTypes
<1>4. SUFFICES ASSUME k # n PROVE FALSE
  OBVIOUS
<1>5. k + 1 \in 1..n /\ k + 1 > 1 /\ (k + 1) - 1 = k
  BY <1>3, <1>4
<1> DEFINE j == k + 1
           g == msgs[b].fields[j]
<1>6. ~DecodedAgain(buf, f)
  BY DEF NothingRepeated, FieldsOf
<1>7. g.from = f.to
  <2>1. j \in 1..n /\ j > 1 /\ j - 1 = k
    BY <1>5
  <2> HIDE DEF j
  <2>2. Tiles(buf, msgs[b])
    BY DEF Linked
  <2>3. ~DecodedAgain(buf, msgs[b].fields[j-1]) => msgs[b].fields[j].from = msgs[b].fields[j-1].to
    BY <2>1, <2>2 DEF Tiles
  <2> QED BY <1>6, <2>1, <2>3
<1>8. g.from < g.at /\ g.at <= g.to /\ g.to <= hi /\ g.from \in Nat /\ g.at \in Nat /\ g.to \in Nat
  <2>1. j \in 1..Len(msgs[b].fields)
    BY <1>5
  <2> HIDE DEF j, f, n
  <2>2. /\ g \in FieldValue /\ g.from \in Nat /\ g.at \in Nat /\ g.to \in Nat
        /\ g.from < g.at /\ g.at <= g.to /\ g.to <= hi
    BY <2>1, FieldDecoded
  <2> QED BY <2>2
<1> QED BY <1>1, <1>2, <1>7, <1>8

\* Place p in E is one of message type m that ends at e: the k-th field of a box
\* that encode wrote there ends at p.
Place(enc, E, m, p, e) ==
    \E b \in Boxes : \E base \in Nat : \E k \in 0..Len(msgs[b].fields) : \E o :
        /\ m = msgs[b].msg /\ p = base + o[k] /\ e = base + Len(enc[b])
        /\ Sits(E, base, enc[b]) /\ Laid(enc[b], Elems(enc, b), Len(msgs[b].fields), o)

Places(enc, E) == {t \in Messages \X Nat \X Nat : Place(enc, E, t[1], t[2], t[3])}

LEMMA PlaceIn ==
    ASSUME NEW enc, NEW E, NEW m \in Messages, NEW p \in Nat, NEW e \in Nat
    PROVE  <<m, p, e>> \in Places(enc, E) <=> Place(enc, E, m, p, e)
BY DEF Places

\* A message that encode wrote at base begins there.
LEMMA PlaceOfBox ==
    ASSUME Inv, AllRead, Rooted, Nested, AllWritable, NEW enc, Encoding(enc), NEW E,
           NEW b \in Boxes, NEW base \in Nat, Sits(E, base, enc[b])
    PROVE  <<msgs[b].msg, base, base + Len(enc[b])>> \in Places(enc, E)
<1> DEFINE n == Len(msgs[b].fields)
           m == msgs[b].msg
           e == base + Len(enc[b])
<1>1. \A c \in Boxes : enc[c] \in Seq(Byte)
  BY BytesTyped
<1>2. \A k \in 1..n : LET f == msgs[b].fields[k] IN f.kind = "Message" => enc[f.box] \in Seq(Byte)
  BY <1>1, BoxOfMessage
<1>3. n \in Nat /\ \E o : Laid(enc[b], Elems(enc, b), n, o)
  BY <1>2, BoxLaid
<1>4. PICK o : Laid(enc[b], Elems(enc, b), n, o)
  BY <1>3
<1>5. 0 \in 0..n /\ base + o[0] = base
  BY <1>3, <1>4 DEF Laid
<1>6. m \in Messages
  <2>1. msgs[b] \in MessageValue
    BY DEF Inv, TypeOK, Boxes
  <2> QED BY <2>1 DEF MessageValue
<1>7. Len(enc[b]) \in Nat
  BY <1>1
<1>8. e \in Nat
  BY <1>7
<1>9. Place(enc, E, m, base, e)
  BY <1>4, <1>5 DEF Place
<1> HIDE DEF e, m
<1>10. <<m, base, e>> \in Places(enc, E)
  BY <1>6, <1>8, <1>9, PlaceIn
<1> QED BY <1>10 DEF e, m

\* The field that encode wrote at a place.
LEMMA PlaceRead ==
    ASSUME Inv, AllRead, Linked, Rooted, Nested, AllWritable, NothingRepeated, NEW enc, Encoding(enc),
           NEW E \in Seq(Byte), Len(E) < M64, NEW m \in Messages, NEW p \in Nat, NEW e \in Nat,
           Place(enc, E, m, p, e)
    PROVE  /\ e <= Len(E)
           /\ p < e => \E f \in FieldValue : \E l \in Nat : WrittenField(E, Places(enc, E), m, p, e, f, l)
<1> DEFINE At(b, base, k, o) ==
              /\ m = msgs[b].msg /\ p = base + o[k] /\ e = base + Len(enc[b])
              /\ Sits(E, base, enc[b]) /\ Laid(enc[b], Elems(enc, b), Len(msgs[b].fields), o)
<1>0. \E b \in Boxes : \E base \in Nat : \E k \in 0..Len(msgs[b].fields) : \E o : At(b, base, k, o)
  BY DEF Place
<1>1. PICK b \in Boxes : \E base \in Nat : \E k \in 0..Len(msgs[b].fields) : \E o : At(b, base, k, o)
  BY <1>0
<1>1a. PICK base \in Nat : \E k \in 0..Len(msgs[b].fields) : \E o : At(b, base, k, o)
  BY <1>1
<1>1b. PICK k \in 0..Len(msgs[b].fields) : \E o : At(b, base, k, o)
  BY <1>1a
<1>2. PICK o : At(b, base, k, o)
  BY <1>1b
<1> DEFINE n == Len(msgs[b].fields)
<1>3. \A c \in Boxes : enc[c] \in Seq(Byte)
  BY BytesTyped
<1>4. \A i \in 1..n : LET f == msgs[b].fields[i] IN f.kind = "Message" => enc[f.box] \in Seq(Byte)
  BY <1>3, BoxOfMessage
<1>5. /\ n \in Nat /\ k \in 0..n /\ Laid(enc[b], Elems(enc, b), n, o)
      /\ \A i \in 1..n : Elems(enc, b)[i] = FieldBytes(enc, msgs[b].fields[i])
  BY <1>2, <1>4, BoxLaid
<1>6. e <= Len(E)
  BY <1>2 DEF Sits
<1> SUFFICES ASSUME p < e
             PROVE  \E f \in FieldValue : \E l \in Nat : WrittenField(E, Places(enc, E), m, p, e, f, l)
  BY <1>6
<1> HIDE DEF n
<1>7. /\ o \in [0..n -> Nat] /\ o[0] = 0 /\ o[n] = Len(enc[b])
      /\ \A i \in 1..n : /\ o[i] = o[i - 1] + Len(Elems(enc, b)[i]) /\ o[i] <= Len(enc[b])
                         /\ \A j \in 1..Len(Elems(enc, b)[i]) : enc[b][o[i - 1] + j] = Elems(enc, b)[i][j]
  BY <1>5 DEF Laid
<1>8. k # n
  BY <1>2, <1>7
<1> DEFINE i == k + 1
           s == Elems(enc, b)[i]
           q == o[k]
<1>9. i \in 1..n /\ i - 1 = k /\ i \in 0..n
  BY <1>5, <1>8
<1> HIDE DEF i
<1>10. s = FieldBytes(enc, msgs[b].fields[i]) /\ s \in Seq(Byte)
  <2>1. FieldBytes(enc, msgs[b].fields[i]) \in Seq(Byte)
    BY <1>4, <1>9, FieldBytesTyped DEF n
  <2> QED BY <1>5, <1>9, <2>1
<1>11. /\ q \in Nat /\ o[i] = q + Len(s) /\ o[i] <= Len(enc[b])
       /\ \A j \in 1..Len(s) : enc[b][q + j] = s[j]
  BY <1>5, <1>7, <1>9
<1> HIDE DEF s
<1> HIDE DEF q
<1>12. Sits(enc[b], q, s)
  BY <1>11 DEF Sits
<1>13. p = base + q
  BY <1>2 DEF q
<1>14. Sits(E, p, s)
  BY <1>2, <1>3, <1>10, <1>11, <1>12, <1>13, SitsIn
<1>15. Len(s) \in Nat /\ Len(enc[b]) \in Nat
  BY <1>3, <1>10
<1>16. p + Len(s) = base + o[i] /\ p + Len(s) <= e
  <2> DEFINE x == o[i]
  <2>1. x = q + Len(s) /\ x <= Len(enc[b]) /\ p = base + q /\ e = base + Len(enc[b])
    BY <1>2, <1>11, <1>13
  <2>2. x \in Nat
    BY <1>11, <1>15, <2>1
  <2> DEFINE y == Len(enc[b])
             z == Len(s)
  <2>3. x = q + z /\ x <= y /\ p = base + q /\ e = base + y /\ y \in Nat /\ z \in Nat
    BY <1>15, <2>1
  <2> HIDE DEF x, y, z
  <2>4. p + z = base + x /\ p + z <= e
    BY <1>11, <2>2, <2>3
  <2> QED BY <2>4 DEF x, z
<1>17. IsRest(msgs[b].fields[i]) => p + Len(s) = e
  <2>1. ASSUME IsRest(msgs[b].fields[i]) PROVE i = n
    BY <1>9, <2>1, RestIsLast DEF n
  <2> QED BY <1>2, <1>7, <1>16, <2>1
<1>18. i \in 1..Len(msgs[b].fields)
  BY <1>9 DEF n
<1>19. \E g \in FieldValue : \E l \in Nat : ReadAgain(enc, E, b, i, p, e, g, l)
  <2>1. /\ s = FieldBytes(enc, msgs[b].fields[i]) /\ Sits(E, p, s) /\ p + Len(s) <= e
        /\ (IsRest(msgs[b].fields[i]) => p + Len(s) = e) /\ e <= Len(E)
    BY <1>6, <1>10, <1>14, <1>16, <1>17
  <2> QED BY <1>18, <2>1, FieldAt
<1>20. PICK g \in FieldValue : \E l \in Nat : ReadAgain(enc, E, b, i, p, e, g, l)
  BY <1>19
<1>21. PICK l \in Nat : ReadAgain(enc, E, b, i, p, e, g, l)
  BY <1>20
<1>22. <<m, g.to, e>> \in Places(enc, E)
  <2>1. g.to = base + o[i] /\ g.to \in Nat
    BY <1>10, <1>16, <1>21 DEF FieldValue, ReadAgain
  <2>2. i \in 0..Len(msgs[b].fields)
    BY <1>9 DEF n
  <2>3. Place(enc, E, m, g.to, e)
    BY <1>2, <2>1, <2>2 DEF Place
  <2> QED BY <2>1, <2>3, PlaceIn
<1>23. ASSUME g.kind = "Message"
       PROVE  /\ <<l, g.to>> \in Payloads(E, g.at, e)
              /\ <<Schema[m][g.number].ref, l, g.to>> \in Places(enc, E)
  <2> DEFINE c == msgs[b].fields[i].box
  <2>1. c \in Boxes /\ msgs[c].msg = Schema[m][g.number].ref
    BY <1>2, <1>18, <1>21, <1>23, BoxOfMessage DEF Leads, ReadAgain
  <2>2. Sits(E, l, enc[c]) /\ g.to = l + Len(enc[c])
    BY <1>21, <1>23 DEF ReadAgain
  <2> HIDE DEF c
  <2>3. <<msgs[c].msg, l, l + Len(enc[c])>> \in Places(enc, E)
    BY <2>1, <2>2, PlaceOfBox
  <2> QED BY <1>21, <1>23, <2>1, <2>2, <2>3 DEF ReadAgain
<1>24. WrittenField(E, Places(enc, E), m, p, e, g, l)
  BY <1>2, <1>21, <1>22, <1>23 DEF WrittenField, ReadAgain
<1> QED BY <1>24

LEMMA ReencodedBytes ==
    ASSUME Inv, AllRead, Nested, Rooted, ~EncodePanics
    PROVE  \E enc : /\ Encoding(enc) /\ AllWritable /\ Encoded = enc[1] /\ enc[1] \in Seq(Byte)
                    /\ 1 \in Boxes /\ msgs[1].msg \in Messages
<1>1. AllWritable
  BY FieldsWritable
<1>2. FieldsLead(msgs) /\ Len(msgs) \in Nat /\ 1 \in Boxes /\ \A b \in Boxes : Placed(buf, msgs[b])
  BY DEF Nested, Inv, TypeOK, Rooted
<1>3. PICK enc : Encoding(enc) /\ Encoded = enc[1]
  BY <1>2, EncodedIs
<1>4. enc[1] \in Seq(Byte)
  BY <1>1, <1>2, <1>3, BytesTyped
<1>5. msgs[1].msg \in Messages
  <2>1. msgs[1] \in MessageValue
    BY <1>2 DEF Inv, TypeOK, Boxes
  <2> QED BY <2>1 DEF MessageValue
<1> QED BY <1>1, <1>2, <1>3, <1>4, <1>5

LEMMA ReencodeFresh ==
    ASSUME Inv, AllRead, Nested, Rooted, Reencode
    PROVE  Fresh'
<1>1. ~EncodePanics
  BY DEF Reencode
<1>2. Encoded \in Seq(Byte) /\ msgs[1].msg \in Messages
  BY <1>1, ReencodedBytes
<1>3. PICK n \in 0..Len(Encoded) : /\ buf' = SubSeq(Encoded, 1, n)
                                   /\ msgs' = <<NewMessage(msgs[1].msg, 0, n)>>
  BY DEF Reencode
<1>4. buf' \in Seq(Byte) /\ Len(buf') = n
  <2> DEFINE s == Encoded
  <2>1. s \in Seq(Byte) /\ n \in 0..Len(s) /\ buf' = SubSeq(s, 1, n)
    BY <1>2, <1>3
  <2> HIDE DEF s
  <2>2. \A i \in 1..n : i \in 1..Len(s)
    BY <2>1
  <2> QED BY <2>1, <2>2
<1>5. status' = "running" /\ stack' = <<[box |-> 1, pos |-> 0, ret |-> <<>>]>>
  BY DEF Reencode
<1> QED BY <1>2, <1>3, <1>4, <1>5 DEF Fresh

\* What encode wrote for fields of which none was decoded twice is the second
\* trip's to read.
LEMMA ReencodeReads ==
    ASSUME Inv, AllRead, Linked, Nested, Rooted, Reencode, NothingRepeated
    PROVE  \E E, T : Reading(E, T)'
<1>1. ~EncodePanics
  BY DEF Reencode
<1>2. PICK enc : /\ Encoding(enc) /\ AllWritable /\ Encoded = enc[1] /\ enc[1] \in Seq(Byte)
                 /\ 1 \in Boxes /\ msgs[1].msg \in Messages
  BY <1>1, ReencodedBytes
<1>3. PICK E : E = Encoded
  OBVIOUS
<1>4. PICK T : T = Places(enc, E)
  OBVIOUS
<1>5. E = enc[1] /\ E \in Seq(Byte) /\ Len(E) \in Nat
  BY <1>2, <1>3
<1>6. Len(E) < M64
  BY <1>3 DEF Reencode
<1>7. PICK n \in 0..Len(E) : /\ buf' = SubSeq(E, 1, n)
                             /\ msgs' = <<NewMessage(msgs[1].msg, 0, n)>>
  BY <1>3 DEF Reencode
<1>8. Written(E, T)
  <2>1. ASSUME NEW m \in Messages, NEW p \in Nat, NEW e \in Nat, <<m, p, e>> \in T
        PROVE  /\ e <= Len(E)
               /\ p < e => \E f \in FieldValue : \E l \in Nat : WrittenField(E, T, m, p, e, f, l)
    <3>1. Place(enc, E, m, p, e)
      BY <1>4, <2>1, PlaceIn
    <3> QED BY <1>2, <1>4, <1>5, <1>6, <3>1, PlaceRead
  <2> QED BY <1>5, <1>6, <2>1 DEF Written
<1>9. Len(buf') <= Len(E) /\ \A i \in 1..Len(buf') : buf'[i] = E[i]
  <2>1. \A i \in 1..n : i \in 1..Len(E)
    BY <1>5
  <2>2. Len(buf') = n /\ \A i \in 1..n : buf'[i] = E[i]
    BY <1>5, <1>7, <2>1
  <2> QED BY <1>5, <2>2
<1>10. status' = "running" /\ stack' = <<[box |-> 1, pos |-> 0, ret |-> <<>>]>>
  BY DEF Reencode
<1>11. Boxes' = {1} /\ Depths' = {1} /\ Len(stack') = 1 /\ stack'[1].box = 1 /\ stack'[1].pos = 0
  BY <1>7, <1>10 DEF Boxes, Depths
<1>12. msgs'[1].fields = <<>> /\ msgs'[1].msg = msgs[1].msg /\ msgs'[1].hi = n
  BY <1>7 DEF NewMessage
<1>13. <<msgs[1].msg, 0, Len(E)>> \in T
  <2>1. Sits(E, 0, enc[1])
    BY <1>5 DEF Sits
  <2>2. 0 + Len(enc[1]) = Len(E)
    BY <1>5
  <2> QED BY <1>2, <1>4, <2>1, <2>2, PlaceOfBox
<1>14. Ahead(T, msgs'[1], 0, TRUE)
  <2>1. n <= Len(E) /\ <<msgs'[1].msg, 0, Len(E)>> \in T /\ msgs'[1].hi = n
    BY <1>5, <1>12, <1>13
  <2> HIDE DEF Places
  <2> QED BY <1>5, <2>1 DEF Ahead
<1>15. Reading(E, T)'
  <2>1. \A d \in Depths' : Ahead(T, msgs'[stack'[d].box], stack'[d].pos, stack'[d].box = 1)
    <3>1. ASSUME NEW d \in Depths'
          PROVE  Ahead(T, msgs'[stack'[d].box], stack'[d].pos, stack'[d].box = 1)
      <4>1. d = 1 /\ (stack'[d].box = 1) = TRUE
        BY <1>11
      <4>2. stack'[d].box = 1 /\ stack'[d].pos = 0
        BY <1>11, <4>1
      <4> QED BY <1>14, <4>1, <4>2
    <3> QED BY <3>1
  <2>2. \A b \in Boxes' : b = 1 /\ Len(msgs'[b].fields) = 0
    BY <1>11, <1>12
  <2>3. \A d \in 2..Len(stack') : FALSE
    BY <1>11
  <2> QED BY <1>8, <1>9, <1>10, <2>1, <2>2, <2>3 DEF Reading
<1> QED BY <1>15

-----------------------------------------------------------------------------
(* What was read can be written *)

LEMMA ReadingWritable ==
    ASSUME Inv, AllRead, Rooted, NEW E, NEW T, Reading(E, T)
    PROVE  /\ \A b \in Boxes : \A k \in 1..Len(msgs[b].fields) :
                 LET f == msgs[b].fields[k]
                 IN  ~FieldPanics(buf, f)
                     /\ (f.kind # "Message" => ValueBytes(buf, f) = Bytes(buf, f.at, f.to))
           /\ AllWritable
<1>1. ASSUME NEW b \in Boxes, NEW k \in 1..Len(msgs[b].fields)
      PROVE  LET f == msgs[b].fields[k]
             IN  /\ ~FieldPanics(buf, f)
                 /\ f.kind # "Message" => ValueBytes(buf, f) = Bytes(buf, f.at, f.to)
                 /\ Writable(f)
  <2> DEFINE f == msgs[b].fields[k]
             lo == msgs[f.box].lo
  <2>1. /\ f \in FieldValue /\ f.at <= f.to /\ f.to <= msgs[b].hi /\ msgs[b].hi \in Nat
        /\ msgs[b].hi <= Len(buf) /\ f.to \in Nat
    BY FieldDecoded
  <2>2. buf \in Seq(Byte) /\ Len(buf) \in Nat
    BY DEF Inv, TypeOK
  <2>3. Spelled(buf, f, lo)
    BY DEF Reading
  <2>4. Len(buf) < M64
    <3>1. Len(buf) <= Len(E) /\ Len(E) < M64 /\ Len(E) \in Nat
      BY DEF Reading, Written
    <3> QED BY <2>2, <3>1, Numbers
  <2>5. f.to <= Len(buf)
    BY <2>1, <2>2
  <2> HIDE DEF f, lo
  <2>6. f.kind = "Message" => ~FieldPanics(buf, f) /\ Writable(f)
    BY DEF FieldPanics, Writable
  <2>7. f.kind # "Message" => /\ ~FieldPanics(buf, f) /\ Writable(f)
                              /\ ValueBytes(buf, f) = Bytes(buf, f.at, f.to)
    <3> SUFFICES ASSUME f.kind # "Message"
                 PROVE  /\ ~FieldPanics(buf, f) /\ Writable(f)
                        /\ ValueBytes(buf, f) = Bytes(buf, f.at, f.to)
      OBVIOUS
    <3>1. (IsRest(f) \/ Readable(f)) /\ IsValue(f, Bytes(buf, f.at, f.to))
      BY <2>3 DEF Spelled
    <3>2. ~FieldPanics(buf, f) /\ ValueBytes(buf, f) = Bytes(buf, f.at, f.to)
      BY <2>1, <2>2, <2>4, <2>5, <3>1, ValueRead
    <3> QED BY <3>1, <3>2 DEF Writable
  <2> QED BY <2>6, <2>7 DEF f
<1> QED BY <1>1 DEF AllWritable

LEMMA ReadingEncodes ==
    ASSUME Inv, AllRead, Rooted, NEW E, NEW T, Reading(E, T)
    PROVE  ~EncodePanics
BY ReadingWritable DEF EncodePanics, FieldsOf

LEMMA ConcatIs ==
    ASSUME NEW S, NEW a \in Seq(S), NEW b \in Seq(S)
    PROVE  /\ a \o b \in Seq(S) /\ Len(a \o b) = Len(a) + Len(b)
           /\ \A i \in 1..Len(a) : (a \o b)[i] = a[i]
           /\ \A i \in 1..Len(b) : (a \o b)[Len(a) + i] = b[i]
OBVIOUS

LEMMA BytesJoin ==
    ASSUME NEW S, NEW b \in Seq(S), NEW p \in Nat, NEW q \in Nat, NEW r \in Nat,
           p <= q, q <= r, r <= Len(b)
    PROVE  Bytes(b, p, q) \o Bytes(b, q, r) = Bytes(b, p, r)
<1> DEFINE x == Bytes(b, p, q)
           y == Bytes(b, q, r)
           z == Bytes(b, p, r)
<1>1. q <= Len(b) /\ p <= r
  OBVIOUS
<1>2. /\ x \in Seq(S) /\ Len(x) = q - p /\ \A i \in 1..(q - p) : x[i] = b[p + i]
      /\ y \in Seq(S) /\ Len(y) = r - q /\ \A i \in 1..(r - q) : y[i] = b[q + i]
      /\ z \in Seq(S) /\ Len(z) = r - p /\ \A i \in 1..(r - p) : z[i] = b[p + i]
  BY <1>1, BytesIs
<1> HIDE DEF x, y, z
<1> DEFINE w == x \o y
<1>3. /\ w \in Seq(S) /\ Len(w) = r - p
      /\ \A i \in 1..Len(x) : w[i] = x[i]
      /\ \A i \in 1..Len(y) : w[Len(x) + i] = y[i]
  <2>1. x \in Seq(S) /\ y \in Seq(S)
    BY <1>2
  <2>2. /\ w \in Seq(S) /\ Len(w) = Len(x) + Len(y)
        /\ \A i \in 1..Len(x) : w[i] = x[i]
        /\ \A i \in 1..Len(y) : w[Len(x) + i] = y[i]
    BY <2>1, ConcatIs
  <2>3. Len(w) = r - p
    BY <1>2, <2>2
  <2> QED BY <2>2, <2>3
<1> HIDE DEF w
<1>4. ASSUME NEW i \in 1..(r - p) PROVE w[i] = z[i]
  <2>1. z[i] = b[p + i]
    BY <1>2
  <2>2. CASE i <= q - p
    <3>1. w[i] = x[i] /\ i \in 1..(q - p)
      BY <1>2, <1>3, <2>2
    <3> QED BY <1>2, <2>1, <3>1
  <2>3. CASE ~(i <= q - p)
    <3> DEFINE j == i - (q - p)
    <3>1. j \in 1..(r - q) /\ q + j = p + i /\ (q - p) + j = i
      BY <2>3
    <3>2. w[i] = y[j]
      BY <1>2, <1>3, <3>1
    <3> HIDE DEF j
    <3>3. y[j] = b[q + j]
      BY <1>2, <3>1
    <3> QED BY <2>1, <3>1, <3>2, <3>3
  <2> QED BY <2>2, <2>3
<1>5. w = z
  <2>1. w \in Seq(S) /\ z \in Seq(S) /\ Len(w) = Len(z) /\ \A i \in 1..Len(z) : w[i] = z[i]
    BY <1>2, <1>3, <1>4
  <2> QED BY <2>1
<1> QED BY <1>5 DEF w, x, y, z

\* A field encodes to the bytes it was decoded from if its sub-message does.
LEMMA FieldRewritten ==
    ASSUME Inv, AllRead, Rooted, Nested, NEW E, NEW T, Reading(E, T), NEW enc,
           NEW b \in Boxes, NEW k \in 1..Len(msgs[b].fields),
           LET f == msgs[b].fields[k]
               c == f.box
           IN  f.kind = "Message" => enc[c] = Bytes(buf, msgs[c].lo, msgs[c].garbage)
    PROVE  LET f == msgs[b].fields[k]
           IN  FieldBytes(enc, f) = Bytes(buf, f.from, f.to)
<1> DEFINE f == msgs[b].fields[k]
           c == f.box
<1>1. /\ f \in FieldValue /\ f.from < f.at /\ f.at <= f.to /\ f.to <= msgs[b].hi
      /\ msgs[b].hi <= Len(buf) /\ msgs[b].hi \in Nat
      /\ f.from \in Nat /\ f.at \in Nat /\ f.to \in Nat
  BY FieldDecoded
<1>2. buf \in Seq(Byte) /\ Len(buf) \in Nat
  BY DEF Inv, TypeOK
<1>3. Spelled(buf, f, msgs[c].lo)
  BY DEF Reading
<1>4. f.kind # "Message" => ValueBytes(buf, f) = Bytes(buf, f.at, f.to)
  BY ReadingWritable
<1>5. f.kind = "Message" => enc[c] = Bytes(buf, msgs[c].lo, f.to)
  <2>1. ASSUME f.kind = "Message" PROVE enc[c] = Bytes(buf, msgs[c].lo, f.to)
    <3>1. c \in Boxes /\ c # 1 /\ Leads(msgs[b], f, msgs[c])
      BY <2>1, BoxOfMessage
    <3>1a. msgs[c].hi = f.to
      BY <3>1 DEF Leads
    <3>2. msgs[c].garbage = msgs[c].hi
      BY <3>1 DEF Reading
    <3> QED BY <2>1, <3>1a, <3>2
  <2> QED BY <2>1
<1>6. f.to <= Len(buf) /\ f.from <= f.at
  <2> DEFINE h == msgs[b].hi
  <2>1. f.to <= h /\ h <= Len(buf) /\ h \in Nat
    BY <1>1
  <2> HIDE DEF h, f
  <2> QED BY <1>1, <1>2, <2>1
<1> HIDE DEF c, f
<1>7. Bytes(buf, f.from, f.at) \o Bytes(buf, f.at, f.to) = Bytes(buf, f.from, f.to)
  BY <1>1, <1>2, <1>6, BytesJoin
<1>8. Bytes(buf, f.from, f.at) = TagBytes(f)
  BY <1>3 DEF Spelled
<1>9. FieldBytes(enc, f) = Bytes(buf, f.from, f.to)
  <2>1. CASE f.kind = "Message"
    <3>1. Delimited(enc[c]) = Bytes(buf, f.at, f.to)
      BY <1>3, <1>5, <2>1 DEF Spelled
    <3> QED BY <1>7, <1>8, <2>1, <3>1 DEF FieldBytes, c
  <2>2. CASE f.kind # "Message"
    BY <1>4, <1>7, <1>8, <2>2 DEF FieldBytes
  <2> QED BY <2>1, <2>2
<1> QED BY <1>9 DEF f

\* What holds of a number if it holds of all smaller ones.
LEMMA UpInduction ==
    ASSUME NEW N \in Nat, NEW S, \A k \in 1..N : (\A j \in 1..N : j < k => j \in S) => k \in S
    PROVE  \A k \in 1..N : k \in S
<1> DEFINE B == {n \in Nat : \A k \in 1..N : k <= n => k \in S}
<1>1. 0 \in B
  OBVIOUS
<1>2. ASSUME NEW n \in Nat, n \in B PROVE n + 1 \in B
  <2>1. ASSUME NEW k \in 1..N, k <= n + 1 PROVE k \in S
    <3>1. \A j \in 1..N : j < k => j <= n
      BY <2>1
    <3>2. \A j \in 1..N : j < k => j \in S
      BY <1>2, <3>1
    <3> QED BY <3>2
  <2> QED BY <2>1
<1> HIDE DEF B
<1>3. N \in B
  <2>1. Nat \subseteq B
    BY <1>1, <1>2, SetInduction
  <2> QED BY <2>1
<1> QED BY <1>3 DEF B

\* A message encodes to the bytes it was decoded from, its garbage left out.
LEMMA BoxRewritten ==
    ASSUME Inv, status = "done", AllRead, Linked, Rooted, Nested, NothingRepeated,
           NEW E, NEW T, Reading(E, T), NEW enc, Encoding(enc), NEW b \in Boxes,
           \A c \in Boxes : b < c => enc[c] = Bytes(buf, msgs[c].lo, msgs[c].garbage)
    PROVE  enc[b] = Bytes(buf, msgs[b].lo, msgs[b].garbage)
<1> DEFINE n == Len(msgs[b].fields)
           lo == msgs[b].lo
           g == msgs[b].garbage
           F(k) == msgs[b].fields[k]
           X(k) == FieldBytes(enc, msgs[b].fields[k])
           el == Elems(enc, b)
<1>1. AllWritable
  BY ReadingWritable
<1>2. \A k \in 1..n : LET f == msgs[b].fields[k] IN f.kind = "Message" => enc[f.box] \in Seq(Byte)
  BY <1>1, BytesTyped, BoxOfMessage
<1>3. /\ enc[b] \in Seq(Byte) /\ n \in Nat
      /\ el \in Seq(Seq(Byte)) /\ Len(el) = n
      /\ \A k \in 1..n : el[k] = FieldBytes(enc, msgs[b].fields[k])
      /\ \E o : Laid(enc[b], el, n, o)
  BY <1>1, <1>2, BoxLaid
<1>4. PICK o : Laid(enc[b], el, n, o)
  BY <1>3
<1>5. buf \in Seq(Byte) /\ Len(buf) \in Nat /\ lo \in Nat /\ g \in Nat
  BY MessageTypes DEF Inv, TypeOK
<1>6. ASSUME NEW k \in 1..n
      PROVE  /\ F(k).from \in Nat /\ F(k).to \in Nat /\ F(k).from <= F(k).to /\ F(k).to <= Len(buf)
             /\ el[k] = Bytes(buf, F(k).from, F(k).to)
             /\ Len(el[k]) = F(k).to - F(k).from
             /\ \A j \in 1..Len(el[k]) : el[k][j] = buf[F(k).from + j]
  <2> DEFINE f == msgs[b].fields[k]
             h == msgs[b].hi
  <2>1. /\ f.from < f.at /\ f.at <= f.to /\ f.to <= h /\ h <= Len(buf) /\ h \in Nat
        /\ f.from \in Nat /\ f.at \in Nat /\ f.to \in Nat
    BY FieldDecoded
  <2>2. LET m == msgs[b].fields[k]
            c == m.box
        IN  m.kind = "Message" => enc[c] = Bytes(buf, msgs[c].lo, msgs[c].garbage)
    BY BoxOfMessage
  <2>3. FieldBytes(enc, f) = Bytes(buf, f.from, f.to)
    BY <2>2, FieldRewritten
  <2>4. el[k] = FieldBytes(enc, f)
    BY <1>3
  <2> HIDE DEF f, h, el
  <2>5. f.from <= f.to /\ f.to <= Len(buf)
    BY <1>5, <2>1
  <2> DEFINE y == el[k]
  <2>6. y = Bytes(buf, f.from, f.to)
    BY <2>3, <2>4
  <2> HIDE DEF y
  <2> DEFINE p == f.from
             q == f.to
  <2>7. p \in Nat /\ q \in Nat /\ p <= q /\ q <= Len(buf) /\ y = Bytes(buf, p, q)
    BY <2>1, <2>5, <2>6
  <2> HIDE DEF p, q
  <2>8. LET v == Bytes(buf, p, q)
        IN  Len(v) = q - p /\ \A j \in 1..(q - p) : v[j] = buf[p + j]
    <3>1. buf \in Seq(Byte) /\ p \in Nat /\ q \in Nat /\ p <= q /\ q <= Len(buf)
      BY <1>5, <2>7
    <3> QED BY <3>1, BytesIs
  <2> QED BY <2>7, <2>8 DEF y, f, p, q
<1>7. /\ \A k \in 1..n : F(k).from = IF k = 1 THEN lo ELSE F(k-1).to
      /\ g = IF n = 0 THEN lo ELSE F(n).to
  <2>1. \A k \in 1..n : ~DecodedAgain(buf, F(k))
    BY DEF NothingRepeated, FieldsOf
  <2>2. Tiles(buf, msgs[b])
    BY DEF Linked
  <2>3. \A k \in 1..n : k > 1 => k - 1 \in 1..n
    BY <1>3
  <2>4. Follows(buf, msgs[b].garbage, msgs[b])
    <3>1. Depths = {}
      BY DEF Inv, Calls, Depths
    <3> QED BY <3>1 DEF Rooted
  <2>5. ASSUME NEW k \in 1..n PROVE F(k).from = IF k = 1 THEN lo ELSE F(k-1).to
    <3>1. k = 1 \/ k > 1
      BY <1>3
    <3> QED BY <2>1, <2>2, <2>3, <3>1 DEF Tiles
  <2>6. n > 0 => n \in 1..n
    BY <1>3
  <2>7. g = IF n = 0 THEN lo ELSE F(n).to
    BY <1>3, <2>1, <2>4, <2>6 DEF Follows
  <2> QED BY <2>5, <2>7
<1> HIDE DEF n, F, el, lo, g
<1>8. /\ o \in [0..n -> Nat] /\ o[0] = 0 /\ o[n] = Len(enc[b])
      /\ \A k \in 1..n : /\ o[k] = o[k - 1] + Len(el[k]) /\ o[k] <= Len(enc[b])
                         /\ \A j \in 1..Len(el[k]) : enc[b][o[k - 1] + j] = el[k][j]
  BY <1>4 DEF Laid
<1> DEFINE S == {k \in 1..n : F(k).to = lo + o[k]}
<1>9. ASSUME NEW k \in 1..n, k > 1 => k - 1 \in S
      PROVE  F(k).to = lo + o[k] /\ F(k).from = lo + o[k-1]
  <2>1. k - 1 \in 0..n /\ k \in 0..n /\ (k = 1 \/ k > 1)
    BY <1>3
  <2> DEFINE x == o[k-1]
             y == o[k]
             z == Len(el[k])
  <2>2. x \in Nat /\ y \in Nat /\ y = x + z
    BY <1>8, <2>1
  <2>3. F(k).from = lo + x
    BY <1>5, <1>7, <1>8, <1>9, <2>1
  <2>4. z = F(k).to - F(k).from /\ F(k).to \in Nat /\ F(k).from \in Nat
    BY <1>6
  <2> HIDE DEF x, y, z
  <2> DEFINE p == F(k).from
             q == F(k).to
  <2>5. p = lo + x /\ z = q - p /\ q \in Nat /\ p \in Nat
    BY <2>3, <2>4
  <2>6. z \in Int
    BY <2>5
  <2> HIDE DEF p, q
  <2>7. q = lo + y
    BY <1>5, <2>2, <2>5, <2>6
  <2> QED BY <2>3, <2>7 DEF x, y, q
<1>10. \A k \in 1..n : k \in S
  <2>1. ASSUME NEW k \in 1..n, \A j \in 1..n : j < k => j \in S PROVE k \in S
    <3>1. k > 1 => k - 1 \in S
      BY <1>3, <2>1
    <3> QED BY <1>9, <3>1
  <2> HIDE DEF S
  <2> QED BY <1>3, <2>1, UpInduction
<1>11. \A k \in 1..n : F(k).to = lo + o[k] /\ F(k).from = lo + o[k-1]
  <2>1. ASSUME NEW k \in 1..n PROVE k > 1 => k - 1 \in S
    <3> HIDE DEF S
    <3> QED BY <1>3, <1>10
  <2> QED BY <1>9, <2>1
<1> HIDE DEF S
<1> DEFINE w == Len(enc[b])
           t == Bytes(buf, lo, g)
<1>12. g = lo + w /\ w \in Nat
  <2>1. w \in Nat
    BY <1>3
  <2>2. CASE n = 0
    BY <1>5, <1>7, <1>8, <2>2
  <2>3. CASE n # 0
    <3>1. n \in 1..n
      BY <1>3, <2>3
    <3> QED BY <1>7, <1>8, <1>11, <2>3, <3>1
  <2> QED BY <2>1, <2>2, <2>3
<1>13. g <= Len(buf)
  <2> DEFINE h == msgs[b].hi
  <2>1. g <= h /\ h <= Len(buf) /\ h \in Nat
    BY MessageTypes DEF Inv, Calls, Rooted, Placed, g
  <2> HIDE DEF h
  <2> QED BY <1>5, <2>1
<1> HIDE DEF w
<1>14. t \in Seq(Byte) /\ Len(t) = w /\ \A i \in 1..w : t[i] = buf[lo + i]
  <2>1. lo <= g /\ g - lo = w
    BY <1>5, <1>12
  <2> HIDE DEF t
  <2>2. LET v == Bytes(buf, lo, g)
        IN  v \in Seq(Byte) /\ Len(v) = g - lo /\ \A i \in 1..(g - lo) : v[i] = buf[lo + i]
    <3>1. buf \in Seq(Byte) /\ lo \in Nat /\ g \in Nat /\ lo <= g /\ g <= Len(buf)
      BY <1>5, <1>13, <2>1
    <3> QED BY <3>1, BytesIs
  <2>3. t \in Seq(Byte) /\ Len(t) = g - lo /\ \A i \in 1..(g - lo) : t[i] = buf[lo + i]
    BY <2>2 DEF t
  <2> QED BY <2>1, <2>3
<1> HIDE DEF t
<1>15. Laid(t, el, n, o)
  <2>1. ASSUME NEW k \in 1..n, NEW j \in 1..Len(el[k]) PROVE t[o[k - 1] + j] = el[k][j]
    <3>1. k - 1 \in 0..n /\ k \in 0..n
      BY <1>3
    <3> DEFINE x == o[k-1]
               z == Len(el[k])
               i == x + j
    <3>2. x \in Nat /\ z \in Nat /\ x + z <= w
      <4>1. z \in Nat
        BY <1>6
      <4> QED BY <1>8, <3>1, <4>1 DEF w
    <3>3. F(k).from = lo + x /\ el[k][j] = buf[F(k).from + j]
      BY <1>6, <1>11
    <3>4. j \in 1..z
      OBVIOUS
    <3> HIDE DEF x, z
    <3>5. i \in 1..w /\ lo + i = (lo + x) + j
      BY <1>5, <1>12, <3>2, <3>4
    <3> HIDE DEF i
    <3>6. t[i] = buf[lo + i]
      BY <1>14, <3>5
    <3> QED BY <3>3, <3>5, <3>6 DEF i, x
  <2> QED BY <1>8, <1>14, <2>1 DEF Laid, w
<1>16. enc[b] = t
  <2> DEFINE s == enc[b]
  <2>1. s \in Seq(Byte) /\ Laid(s, el, n, o) /\ n <= Len(el)
    BY <1>3, <1>4
  <2> HIDE DEF s
  <2>2. s = t
    BY <1>3, <1>14, <1>15, <2>1, LaidOnce
  <2> QED BY <2>2 DEF s
<1> QED BY <1>16 DEF t, lo, g

LEMMA MessageSurvives ==
    ASSUME Inv, status = "done", AllRead, Linked, Rooted, Nested, NothingRepeated,
           NEW E, NEW T, Reading(E, T)
    PROVE  Encoded \o Bytes(buf, msgs[1].garbage, msgs[1].hi) = buf
<1>1. FieldsLead(msgs) /\ Len(msgs) \in Nat /\ 1 \in Boxes /\ \A b \in Boxes : Placed(buf, msgs[b])
  BY DEF Nested, Inv, TypeOK, Rooted
<1>2. PICK enc : Encoding(enc) /\ Encoded = enc[1]
  BY <1>1, EncodedIs
<1> DEFINE S == {b \in Boxes : enc[b] = Bytes(buf, msgs[b].lo, msgs[b].garbage)}
           N == Len(msgs)
<1>3. N \in Nat /\ Boxes = 1..N
  BY <1>1 DEF Boxes
<1>4. ASSUME NEW b \in 1..N, \A c \in 1..N : b < c => c \in S PROVE b \in S
  <2>1. \A c \in Boxes : b < c => enc[c] = Bytes(buf, msgs[c].lo, msgs[c].garbage)
    BY <1>3, <1>4
  <2>2. enc[b] = Bytes(buf, msgs[b].lo, msgs[b].garbage)
    BY <1>2, <1>3, <2>1, BoxRewritten
  <2> QED BY <1>3, <2>2
<1> HIDE DEF S, N
<1>5. \A b \in 1..N : b \in S
  BY <1>3, <1>4, DownInduction
<1> DEFINE g == msgs[1].garbage
           h == msgs[1].hi
<1>6. Encoded = Bytes(buf, 0, g)
  <2>1. 1 \in S
    BY <1>1, <1>3, <1>5
  <2> QED BY <1>2, <2>1 DEF S, Rooted
<1>7. /\ buf \in Seq(Byte) /\ Len(buf) \in Nat /\ g \in Nat /\ h = Len(buf) /\ g <= h
  BY <1>1, MessageTypes DEF Inv, TypeOK, Calls, Rooted
<1> HIDE DEF g, h
<1>8. Bytes(buf, 0, g) \o Bytes(buf, g, h) = Bytes(buf, 0, h)
  <2>1. 0 \in Nat /\ h \in Nat /\ 0 <= g /\ g <= h /\ h <= Len(buf)
    BY <1>7
  <2> QED BY <1>7, <2>1, BytesJoin
<1>9. Bytes(buf, 0, h) = buf
  <2>1. Sits(buf, 0, buf)
    BY <1>7 DEF Sits
  <2>2. Bytes(buf, 0, 0 + Len(buf)) = buf
    BY <1>7, <2>1, SitsBytes
  <2>3. 0 + Len(buf) = h
    BY <1>7
  <2> QED BY <2>2, <2>3
<1> QED BY <1>6, <1>8, <1>9 DEF g, h

-----------------------------------------------------------------------------
(* Both trips *)

TripInv ==
    /\ Inv /\ AllRead /\ Linked /\ Nested /\ Rooted
    /\ trip \in {1, 2}
    /\ trip = 2 /\ whole /\ NothingRepeated => \E E, T : Reading(E, T)

LEMMA FreshTrip ==
    ASSUME Fresh
    PROVE  Inv /\ AllRead /\ Linked /\ Nested /\ Rooted
BY FreshInv, FreshAllRead, FreshLinked, FreshNested, FreshRooted

LEMMA TripInitInv == TripInit => TripInv
<1> SUFFICES ASSUME TripInit PROVE TripInv
  OBVIOUS
<1>1. Fresh
  BY InitFresh DEF TripInit
<1> QED BY <1>1, FreshTrip DEF TripInit, TripInv

LEMMA DecodeTripInv ==
    ASSUME TripInv, [Next]_vars, UNCHANGED <<trip, whole>>
    PROVE  TripInv'
<1>1. (Inv /\ AllRead /\ Linked /\ Nested /\ Rooted)'
  BY NextInv, NextAllRead, NextLinked, NextNested, NextRooted DEF TripInv
<1>2. ASSUME trip' = 2, whole', NothingRepeated' PROVE (\E E, T : Reading(E, T))'
  <2>1. NothingRepeated
    BY <1>2, MoreRepeated DEF TripInv
  <2>2. PICK E, T : Reading(E, T)
    BY <1>2, <2>1 DEF TripInv
  <2>3. Reading(E, T)'
    BY <1>2, <2>2, NextReading DEF TripInv
  <2> QED BY <2>3
<1>3. trip' \in {1, 2}
  BY DEF TripInv
<1> QED BY <1>1, <1>2, <1>3 DEF TripInv

LEMMA ReencodeTripInv ==
    ASSUME TripInv, Reencode
    PROVE  TripInv'
<1>1. trip = 1 /\ trip' = 2 /\ whole' = NothingRepeated
  BY DEF Reencode
<1>2. Fresh'
  BY <1>1, ReencodeFresh DEF TripInv
<1>3. (Inv /\ AllRead /\ Linked /\ Nested /\ Rooted)'
  BY <1>2, FreshTrip, PTL
<1>4. whole' => (\E E, T : Reading(E, T))'
  BY <1>1, ReencodeReads DEF TripInv
<1> QED BY <1>1, <1>3, <1>4 DEF TripInv

LEMMA PanicTripInv ==
    ASSUME TripInv, EncodePanic
    PROVE  TripInv'
<1>1. /\ status' = "panicked" /\ UNCHANGED <<buf, msgs, stack, trip, whole>>
      /\ EncodePanics
  BY DEF EncodePanic
<1>2. Inv'
  BY <1>1 DEF TripInv, Inv, TypeOK, Calls, Boxes, Depths
<1>3. (AllRead /\ Linked /\ Nested /\ Rooted)'
  BY <1>1 DEF TripInv, AllRead, Linked, Nested, Rooted, Boxes, Depths
<1>4. ~(trip = 2 /\ whole /\ NothingRepeated)
  BY <1>1, ReadingEncodes DEF TripInv
<1>5. NothingRepeated' <=> NothingRepeated
  BY <1>1 DEF NothingRepeated, Boxes, FieldsOf
<1> QED BY <1>1, <1>2, <1>3, <1>4, <1>5 DEF TripInv

LEMMA TripNextInv ==
    ASSUME TripInv, [TripNext]_tripVars
    PROVE  TripInv'
<1>1. CASE DecodeStep
  BY <1>1, DecodeTripInv DEF DecodeStep
<1>2. CASE Reencode
  BY <1>2, ReencodeTripInv
<1>3. CASE EncodePanic
  BY <1>3, PanicTripInv
<1>4. CASE UNCHANGED tripVars
  <2>1. UNCHANGED vars /\ UNCHANGED <<trip, whole>>
    BY <1>4 DEF tripVars, vars
  <2> QED BY <2>1, DecodeTripInv
<1> QED BY <1>1, <1>2, <1>3, <1>4 DEF TripNext

\* TripInv is kept by both trips and by the step between them, for every schema,
\* input and width: what the second trip reads is what encode wrote.
THEOREM TripAlways == TripSpec => []TripInv
BY TripInitInv, TripNextInv, PTL DEF TripSpec

\* On both trips decode keeps its types and its calls: each call in progress has
\* a message of its own and a cursor inside it, for every input and every prefix
\* of what encode wrote.
THEOREM TripCalls == TripSpec => [](TypeOK /\ Calls)
BY TripAlways, PTL DEF TripInv, Inv

\* Whatever prefix of a message that encode wrote is decoded, encoding it again
\* gives that prefix back, but for the bytes of a tag that was cut, if on neither
\* trip a byte was decoded twice.
THEOREM MessageAlwaysSurvives == TripSpec => []PartialMessageSurvives
<1>1. TripInv => PartialMessageSurvives
  <2> SUFFICES ASSUME TripInv, trip = 2, whole, status = "done", NothingRepeated
               PROVE  Encoded \o Bytes(buf, msgs[1].garbage, msgs[1].hi) = buf
    BY DEF PartialMessageSurvives
  <2>1. PICK E, T : Reading(E, T)
    BY DEF TripInv
  <2> QED BY <2>1, MessageSurvives DEF TripInv
<1> QED BY <1>1, TripAlways, PTL

\* Neither decode nor encode panics on what encode wrote, whole or cut anywhere,
\* if no byte was decoded twice.
THEOREM OutputAlwaysSafe == TripSpec => []EncoderOutputIsSafe
<1>1. TripInv => EncoderOutputIsSafe
  BY DEF TripInv, Reading, EncoderOutputIsSafe
<1> QED BY <1>1, TripAlways, PTL
=============================================================================
