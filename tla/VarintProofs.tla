---------------------------- MODULE VarintProofs ----------------------------
(***************************************************************************)
(* The integer conversions for all widths and all values: what the loops   *)
(* of decode.rs write and what they read, and that they are inverse to     *)
(* each other.                                                             *)
(***************************************************************************)
EXTENDS Varint, BasicLemmas

-----------------------------------------------------------------------------
(* Widths *)

\* The types have a sign bit, and a 32-bit value is small among the 64-bit ones.
LEMMA Widths ==
    \E h, k \in Nat \ {0} : M32 = 4 * h /\ M64 = 4 * k /\ M32 <= 2 * k
<1>1. /\ Width32 - 2 \in Nat /\ (Width32 - 2) + 1 = Width32 - 1 /\ (Width32 - 1) + 1 = Width32
      /\ Width64 - 2 \in Nat /\ (Width64 - 2) + 1 = Width64 - 1 /\ (Width64 - 1) + 1 = Width64
      /\ Width32 - 1 \in Nat /\ Width64 - 1 \in Nat /\ Width32 <= Width64 - 1
      /\ Width32 \in Nat /\ Width64 \in Nat
  BY VarintAssumption
<1>2. /\ 2^(Width32 - 2) \in Nat \ {0} /\ 2^(Width64 - 2) \in Nat \ {0}
      /\ 2^(Width32 - 1) = 2 * 2^(Width32 - 2) /\ 2^Width32 = 2 * 2^(Width32 - 1)
      /\ 2^(Width64 - 1) = 2 * 2^(Width64 - 2) /\ 2^Width64 = 2 * 2^(Width64 - 1)
  <2>1. \A n \in Nat : 2^n \in Nat \ {0} /\ 2^(n + 1) = 2 * 2^n
    BY PowerIs
  <2>2. 2^((Width32 - 2) + 1) = 2 * 2^(Width32 - 2) /\ 2^((Width32 - 1) + 1) = 2 * 2^(Width32 - 1)
    BY <1>1, <2>1
  <2>3. 2^((Width64 - 2) + 1) = 2 * 2^(Width64 - 2) /\ 2^((Width64 - 1) + 1) = 2 * 2^(Width64 - 1)
    BY <1>1, <2>1
  <2> QED BY <1>1, <2>1, <2>2, <2>3
<1>3. 2^Width32 <= 2^(Width64 - 1)
  BY <1>1, PowerGrows
<1> DEFINE h == 2^(Width32 - 2)
           k == 2^(Width64 - 2)
<1>4. h \in Nat \ {0} /\ k \in Nat \ {0} /\ M32 = 4 * h /\ M64 = 4 * k /\ M32 <= 2 * k
  BY <1>2, <1>3 DEF M32, M64
<1> HIDE DEF h, k
<1> QED BY <1>4

\* A u64 has room for MaxGroups groups, and the last of them is not empty.
LEMMA Rooms ==
    /\ MaxGroups \in Nat \ {0} /\ MaxGroups = RoomFor(Width64)
    /\ Width64 \in Nat \ {0} /\ M64 = 2^Width64
    /\ \A n \in Nat : n < MaxGroups <=> 7 * n < Width64
    /\ M64 \in Nat \ {0} /\ M64 <= G(MaxGroups)
<1>1. Width64 \in Nat \ {0} /\ MaxGroups = RoomFor(Width64) /\ M64 = 2^Width64
  BY VarintAssumption DEF MaxGroups, RoomFor, M64
<1> QED BY <1>1, RoomIs

-----------------------------------------------------------------------------
(* What is written *)

Fits(u, k) == FitsIn(Width64, u, k)

\* There is one shortest varint.
LEMMA BytesAre ==
    ASSUME NEW u \in Nat, NEW k, Fits(u, k)
    PROVE  VarintBytes(u) = [i \in 1..k |-> ByteOf(u, k, i)]
<1> DEFINE c == CHOOSE j \in 1..MaxGroups : u < G(j) /\ (j > 1 => u >= G(j - 1))
<1>1. Fits(u, c)
  <2>1. \E j \in 1..MaxGroups : u < G(j) /\ (j > 1 => u >= G(j - 1))
    BY Rooms DEF Fits, FitsIn
  <2> HIDE DEF G
  <2> QED BY <2>1, Rooms DEF Fits, FitsIn
<1>2. c = k
  <2> HIDE DEF c
  <2> QED BY <1>1, Rooms, FitsOnce DEF Fits
<1>3. VarintBytes(u) = [i \in 1..c |-> ((u \div G(i - 1)) % 128) + (IF i < c THEN 128 ELSE 0)]
  BY DEF VarintBytes, G
<1> HIDE DEF c
<1> QED BY <1>2, <1>3 DEF ByteOf, Group, Above

LEMMA LastFits ==
    ASSUME NEW u \in U64, NEW n \in Nat, n > 0 => Above(u, n) > 0, Above(u, n) \div 128 = 0
    PROVE  Fits(u, n + 1)
BY Rooms, FitsLast DEF Fits, U64

LEMMA ReadsOn ==
    ASSUME NEW u \in U64, NEW k, Fits(u, k), NEW i \in 0..(k - 1)
    PROVE  /\ 7 * i < Width64 /\ (7 * i) % Width64 = 7 * i
           /\ ByteOf(u, k, i + 1) % 128 = Group(u, i + 1)
           /\ ByteOf(u, k, i + 1) < 128 <=> i + 1 = k
           /\ (Low(u, i) + Group(u, i + 1) * 2^(7 * i)) % M64 = Low(u, i + 1)
           /\ Low(u, k) = u
BY Rooms, ReadsGroup DEF Fits, U64

\* The sums of the groups up to each byte.
IsSum(f, buf, p, n) == SumsTo(Width64, f, buf, p, n)

\* What the recursive function of Wire computes.
LEMMA ValueIsSum ==
    ASSUME NEW buf, NEW n \in Nat
    PROVE  \E f : IsSum(f, buf, 0, n) /\ VarintValue(buf, 0, n) = f[n]
<1> DEFINE f == CHOOSE f : IsSum(f, buf, 0, n)
<1>1. IsSum(f, buf, 0, n)
  <2>1. 0 + n = n
    OBVIOUS
  <2> QED BY <2>1, SumsExist DEF IsSum
<1>2. VarintValue(buf, 0, n) = f[n]
  BY DEF VarintValue, IsSum, SumsTo, Added, M64
<1> HIDE DEF f
<1> QED BY <1>1, <1>2

-----------------------------------------------------------------------------
(* The conversions *)

\* The arithmetic of a build without overflow checks, near its range.
LEMMA Wrapped ==
    ASSUME NEW M \in Nat \ {0}, NEW n \in Int, -M <= n, n < M
    PROVE  n % M = IF n < 0 THEN n + M ELSE n
OBVIOUS

Zigzag(n) == 2 * Abs(n) - (IF n < 0 THEN 1 ELSE 0)

Zigzagged == {"SInt32", "SInt64"}

\* The u64 of a value that gets through.
LEMMA RawIs ==
    ASSUME NEW type \in IntegerTypes, NEW n \in RangeOf(type), NEW u \in Raw(type, n)
    PROVE  /\ u \in U64 /\ n \in Int
           /\ type \in Zigzagged => u = Zigzag(n) /\ u < Modulus(type) \div 2
           /\ type \notin Zigzagged => u = IF n < 0 THEN n + M64 ELSE n
<1>1. PICK h \in Nat \ {0}, k \in Nat \ {0} : M32 = 4 * h /\ M64 = 4 * k /\ M32 <= 2 * k
  BY Widths
<1>2. CASE type \notin Zigzagged
  <2>1. n \in Int /\ -(2 * k) <= n /\ n < 4 * k
    BY <1>1, <1>2 DEF RangeOf, IntegerTypes, VarintTypes, U32, U64, Zigzagged
  <2>2. n % M64 = IF n < 0 THEN n + M64 ELSE n
    <3>1. M64 \in Nat \ {0} /\ -M64 <= n /\ n < M64 /\ n \in Int
      BY <1>1, <2>1
    <3> QED BY <3>1, Wrapped
  <2>3. u = n % M64
    BY <1>2 DEF Raw, Zigzagged
  <2> QED BY <1>1, <1>2, <2>1, <2>2, <2>3 DEF U64
<1>3. CASE type \in Zigzagged
  <2> DEFINE M == Modulus(type)
  <2>1. PICK j \in Nat \ {0} : M = 4 * j /\ M <= M64 /\ n \in (-(2 * j))..(2 * j - 1)
    BY <1>1, <1>3 DEF RangeOf, Modulus, Zigzagged
  <2> HIDE DEF M
  <2>2. /\ n \in Int /\ Abs(n) \in Nat /\ Zigzag(n) \in Nat /\ Zigzag(n) < M
        /\ Zigzag(n) <= 2 * Abs(n) /\ M \in Nat \ {0} /\ M \div 2 = 2 * j
    BY <2>1 DEF Abs, Zigzag
  <2>3. Zigzag(n) % M = Zigzag(n)
    BY <2>2
  <2>4. u = Zigzag(n) /\ u < M \div 2
    <3>1. Raw(type, n) = IF checks THEN {w \in {Zigzag(n)} : 2 * Abs(n) < M \div 2 /\ Abs(n) < M \div 2}
                         ELSE {w \in {Zigzag(n) % M} : w < M \div 2}
      BY <1>3 DEF Raw, ZigzagRaw, Zigzagged, Zigzag, M
    <3>2. CASE checks
      <4>1. u = Zigzag(n) /\ 2 * Abs(n) < M \div 2
        BY <3>1, <3>2
      <4> QED BY <2>2, <4>1
    <3>3. CASE ~checks
      <4>1. u = Zigzag(n) % M /\ u < M \div 2
        BY <3>1, <3>3
      <4> QED BY <2>3, <4>1
    <3> QED BY <3>2, <3>3
  <2>5. u \in U64
    BY <1>1, <2>1, <2>2, <2>4 DEF U64
  <2> QED BY <1>3, <2>2, <2>4, <2>5 DEF M
<1> QED BY <1>2, <1>3

\* Converting back is inverse to converting.
LEMMA ComesBack ==
    ASSUME NEW type \in IntegerTypes, NEW n \in RangeOf(type), NEW u \in Raw(type, n)
    PROVE  FromRaw(type, u) = n
<1>1. PICK h \in Nat \ {0}, k \in Nat \ {0} : M32 = 4 * h /\ M64 = 4 * k /\ M32 <= 2 * k
  BY Widths
<1>2. /\ u \in U64 /\ n \in Int
      /\ type \in Zigzagged => u = Zigzag(n)
      /\ type \notin Zigzagged => u = IF n < 0 THEN n + M64 ELSE n
  BY RawIs
<1>3. CASE type \in {"Int32", "Int64", "Enum"}
  <2>1. -(2 * k) <= n /\ n < 2 * k
    BY <1>1, <1>3 DEF RangeOf
  <2>2. Signed64(u) = n
    BY <1>1, <1>2, <1>3, <2>1 DEF Signed64, Zigzagged
  <2> QED BY <1>3, <2>2 DEF FromRaw
<1>4. CASE type \in {"UInt32", "UInt64"}
  <2>1. n \in Nat
    BY <1>4 DEF RangeOf, U32, U64
  <2> QED BY <1>2, <1>4, <2>1 DEF FromRaw, Zigzagged
<1>5. CASE type \in Zigzagged
  <2>1. u = Zigzag(n) /\ n \in Int
    BY <1>2, <1>5
  <2>2. (IF u % 2 = 0 THEN u \div 2 ELSE -((u \div 2) + 1)) = n
    BY <2>1 DEF Zigzag, Abs
  <2> QED BY <1>5, <2>2 DEF FromRaw, Zigzagged
<1> QED BY <1>3, <1>4, <1>5 DEF IntegerTypes, VarintTypes, Zigzagged

\* Every u64 of a value is accepted as the value of a field, and as an element
\* of an array unless a uint64 does not fit an i64.
LEMMA Accepted ==
    ASSUME NEW type \in IntegerTypes, NEW n \in RangeOf(type), NEW u \in Raw(type, n)
    PROVE  /\ u \in Accepts(type)
           /\ u \in PackedAccepts(type) \/ (type = "UInt64" /\ n >= M64 \div 2)
<1>1. PICK h \in Nat \ {0}, k \in Nat \ {0} : M32 = 4 * h /\ M64 = 4 * k /\ M32 <= 2 * k
  BY Widths
<1>2. /\ u \in U64 /\ n \in Int
      /\ type \in Zigzagged => u = Zigzag(n) /\ u < Modulus(type) \div 2
      /\ type \notin Zigzagged => u = IF n < 0 THEN n + M64 ELSE n
  BY RawIs
<1>3. CASE type = "Int32"
  <2>1. -(2 * h) <= n /\ n < 2 * h
    BY <1>1, <1>3 DEF RangeOf
  <2>2. Signed64(u) = n
    BY <1>1, <1>2, <1>3, <2>1 DEF Signed64, Zigzagged
  <2>3. u \in {w \in U64 : Signed64(w) \in (-(M32 \div 2))..(M32 \div 2 - 1)}
    BY <1>1, <1>2, <2>1, <2>2
  <2> QED BY <1>3, <2>3 DEF Accepts, PackedAccepts
<1>4. CASE type \in {"Int64", "Enum"}
  BY <1>2, <1>4 DEF Accepts, PackedAccepts
<1>5. CASE type = "UInt32"
  <2>1. n \in U32
    BY <1>5 DEF RangeOf
  <2>2. u \in U32
    BY <1>2, <1>5, <2>1 DEF U32, U64, Zigzagged
  <2> QED BY <1>5, <2>2 DEF Accepts, PackedAccepts
<1>6. CASE type = "UInt64"
  <2>1. n \in Nat /\ u = n
    BY <1>2, <1>6 DEF RangeOf, U64, Zigzagged
  <2>2. Signed64(u) >= 0 \/ n >= M64 \div 2
    BY <1>1, <2>1 DEF Signed64
  <2> QED BY <1>2, <1>6, <2>2 DEF Accepts, PackedAccepts
<1>7. CASE type = "SInt32"
  <2>1. u < M32 \div 2
    BY <1>2, <1>7 DEF Zigzagged, Modulus
  <2>2. u \in U32 /\ u # M32 - 1
    BY <1>1, <1>2, <2>1 DEF U32, U64
  <2> QED BY <1>7, <2>2 DEF Accepts, PackedAccepts
<1>8. CASE type = "SInt64"
  <2>1. u < M64 \div 2
    BY <1>2, <1>8 DEF Zigzagged, Modulus
  <2>2. u # M64 - 1 /\ Signed64(u) >= 0
    BY <1>1, <1>2, <2>1 DEF Signed64, U64
  <2> QED BY <1>2, <1>8, <2>2 DEF Accepts, PackedAccepts
<1> QED BY <1>3, <1>4, <1>5, <1>6, <1>7, <1>8 DEF IntegerTypes, VarintTypes

\* Only zigzag values of which the double does not fit are not converted.
LEMMA NotRaw ==
    ASSUME NEW type \in IntegerTypes, NEW n \in RangeOf(type), Raw(type, n) = {}
    PROVE  type \in Zigzagged /\ Abs(n) >= Modulus(type) \div 4
<1>1. PICK h \in Nat \ {0}, k \in Nat \ {0} : M32 = 4 * h /\ M64 = 4 * k /\ M32 <= 2 * k
  BY Widths
<1>2. type \in Zigzagged
  BY DEF Raw, Zigzagged
<1> DEFINE M == Modulus(type)
<1>3. PICK j \in Nat \ {0} : M = 4 * j /\ n \in (-(2 * j))..(2 * j - 1)
  BY <1>1, <1>2 DEF RangeOf, Modulus, Zigzagged
<1>4. Raw(type, n) = IF checks THEN {w \in {Zigzag(n)} : 2 * Abs(n) < M \div 2 /\ Abs(n) < M \div 2}
                     ELSE {w \in {Zigzag(n) % M} : w < M \div 2}
  BY <1>2 DEF Raw, ZigzagRaw, Zigzagged, Zigzag, M
<1> HIDE DEF M
<1>5. /\ n \in Int /\ Abs(n) \in Nat /\ Zigzag(n) \in Nat /\ Zigzag(n) < M
      /\ Zigzag(n) <= 2 * Abs(n) /\ M \in Nat \ {0} /\ M \div 2 = 2 * j /\ M \div 4 = j
  BY <1>3 DEF Abs, Zigzag
<1>6. Zigzag(n) % M = Zigzag(n)
  BY <1>5
<1>7. CASE checks
  <2>1. ~(2 * Abs(n) < M \div 2 /\ Abs(n) < M \div 2)
    BY <1>4, <1>7
  <2> QED BY <1>2, <1>5, <2>1 DEF M
<1>8. CASE ~checks
  <2>1. ~(Zigzag(n) < M \div 2)
    BY <1>4, <1>6, <1>8
  <2> QED BY <1>2, <1>5, <2>1 DEF M
<1> QED BY <1>7, <1>8

-----------------------------------------------------------------------------
(* The inductive invariant *)

IsWriting(u) ==
    /\ value = Above(u, Len(data))
    /\ Len(data) > 0 => value > 0
    /\ \A i \in 1..Len(data) : data[i] = Group(u, i) + 128

IsWritten(u) == Fits(u, Len(data)) /\ data = VarintBytes(u)

\* The values that do not get through.
Lost ==
    \/ vt \in Zigzagged /\ Abs(v) >= Modulus(vt) \div 4
    \/ vt = "UInt64" /\ packed /\ v >= M64 \div 2

OwnInv ==
    /\ vt \in IntegerTypes /\ v \in RangeOf(vt)
    /\ pc \in {"convert", "write"} => idx = 0 /\ result = 0 /\ data \in Seq(Byte)
    /\ pc = "convert" => data = <<>>
    /\ pc = "write" => \E u \in Raw(vt, v) : IsWriting(u)
    /\ pc = "read" => \E u \in Raw(vt, v) :
                        IsWritten(u) /\ idx \in 0..(Len(data) - 1) /\ result = Low(u, idx)
    /\ pc = "back" => \E u \in Raw(vt, v) :
                        IsWritten(u) /\ idx = Len(data) /\ result = u
    /\ pc = "done" => /\ result = v /\ idx = Len(data)
                      /\ \E u \in Raw(vt, v) : IsWritten(u)
    /\ pc = "panicked" => Lost
    /\ pc # "none"

\* The result is the sum up to idx.
IsResult ==
    /\ result \in U64
    /\ \A n \in Nat : \A f : IsSum(f, data, 0, n) /\ idx <= n => f[idx] = result

ForeignInv ==
    /\ data \in Seq(Byte) /\ vt = "UInt64" /\ packed = FALSE
    /\ pc \notin {"convert", "write"}
    /\ pc \in {"read", "back"} =>
          IsResult /\ idx \in 0..Len(data) /\ (checks => idx <= MaxGroups)
    /\ pc = "read" => \A m \in 1..idx : data[m] >= 128
    /\ pc = "back" => /\ idx > 0 /\ data[idx] < 128
                      /\ \A m \in 1..(idx - 1) : data[m] >= 128
    /\ pc = "none" => /\ \A m \in 1..Len(data) : data[m] >= 128
                      /\ checks => Len(data) <= MaxGroups
    /\ pc = "panicked" => /\ checks /\ MaxGroups < Len(data)
                          /\ \A m \in 1..MaxGroups : data[m] >= 128

VarintInv ==
    /\ checks \in BOOLEAN
    /\ pc \in {"convert", "write", "read", "back", "done", "none", "panicked"}
    /\ ~foreign => OwnInv
    /\ foreign => ForeignInv

LEMMA InitInv == Init => VarintInv
<1> SUFFICES ASSUME Init PROVE VarintInv
  OBVIOUS
<1>1. CASE pc = "convert"
  <2>1. ~foreign /\ vt \in IntegerTypes /\ v \in Values[vt] /\ data = <<>>
        /\ idx = 0 /\ result = 0 /\ checks \in BOOLEAN
    BY <1>1 DEF Init
  <2>2. v \in RangeOf(vt)
    BY <2>1, VarintAssumption
  <2>3. data \in Seq(Byte)
    BY <2>1
  <2> QED BY <1>1, <2>1, <2>2, <2>3 DEF VarintInv, OwnInv
<1>2. CASE pc = "read"
  <2>1. /\ foreign /\ vt = "UInt64" /\ packed = FALSE /\ data \in ByteStrings
        /\ idx = 0 /\ result = 0 /\ checks \in BOOLEAN
    BY <1>2 DEF Init
  <2>2. data \in Seq(Byte) /\ Len(data) \in Nat
    BY <2>1, VarintAssumption
  <2>3. IsResult
    <3>1. result \in U64
      BY <2>1, Rooms DEF U64
    <3>2. ASSUME NEW n \in Nat, NEW f, IsSum(f, data, 0, n) PROVE f[0] = 0
      BY <3>2 DEF IsSum, SumsTo, M64
    <3> QED BY <2>1, <3>1, <3>2 DEF IsResult
  <2>4. idx \in 0..Len(data) /\ (checks => idx <= MaxGroups) /\ \A m \in 1..idx : data[m] >= 128
    BY <2>1, <2>2, Rooms
  <2> QED BY <1>2, <2>1, <2>2, <2>3, <2>4 DEF VarintInv, ForeignInv
<1> QED BY <1>1, <1>2 DEF Init

\* The number that is written does not change.
LEMMA SameRaw ==
    ASSUME UNCHANGED <<checks, vt, v>>
    PROVE  Raw(vt, v)' = Raw(vt, v)
BY DEF Raw, ZigzagRaw, Modulus

\* The conversion gives the number that the loops carry, or the value is lost.
LEMMA ConvertInv == VarintInv /\ Convert => VarintInv'
<1> SUFFICES ASSUME VarintInv, Convert PROVE VarintInv'
  OBVIOUS
<1>1. /\ pc = "convert" /\ ~foreign /\ OwnInv
      /\ UNCHANGED <<checks, vt, packed, v, foreign, data, idx, result>>
  BY DEF Convert, VarintInv, ForeignInv
<1>2. /\ vt \in IntegerTypes /\ v \in RangeOf(vt) /\ data = <<>> /\ idx = 0 /\ result = 0
      /\ data \in Seq(Byte)
  BY <1>1 DEF OwnInv
<1>3. Raw(vt, v)' = Raw(vt, v)
  BY <1>1, SameRaw
<1>4. CASE value' \in Raw(vt, v) /\ pc' = "write"
  <2>1. value' \in U64
    BY <1>2, <1>4, RawIs
  <2>2. Above(value', 0) = value'
    BY <2>1, LowOfNone DEF U64
  <2>3. Len(data) = 0 /\ data' = data
    BY <1>1, <1>2
  <2>4. value' = Above(value', Len(data')) /\ ~(Len(data') > 0) /\ 1..Len(data') = {}
    BY <2>2, <2>3
  <2>5. \E u \in Raw(vt, v)' : IsWriting(u)'
    BY <1>3, <1>4, <2>4 DEF IsWriting
  <2> QED BY <1>1, <1>2, <1>4, <2>5 DEF VarintInv, OwnInv
<1>5. CASE Raw(vt, v) = {} /\ pc' = "panicked"
  <2>1. vt \in Zigzagged /\ Abs(v) >= Modulus(vt) \div 4
    BY <1>2, <1>5, NotRaw
  <2>2. Lost'
    BY <1>1, <2>1 DEF Lost, Modulus
  <2> QED BY <1>1, <1>2, <1>5, <2>2 DEF VarintInv, OwnInv
<1> QED BY <1>4, <1>5 DEF Convert

\* A turn of the loop that writes adds a group, or the last one.
LEMMA WriteInv == VarintInv /\ WriteGroup => VarintInv'
<1> SUFFICES ASSUME VarintInv, WriteGroup PROVE VarintInv'
  OBVIOUS
<1>1. /\ pc = "write" /\ ~foreign /\ OwnInv
      /\ UNCHANGED <<checks, vt, packed, v, foreign, idx, result>>
  BY DEF WriteGroup, VarintInv, ForeignInv
<1>2. /\ vt \in IntegerTypes /\ v \in RangeOf(vt) /\ idx = 0 /\ result = 0
      /\ data \in Seq(Byte)
  BY <1>1 DEF OwnInv
<1>3. PICK u \in Raw(vt, v) : IsWriting(u)
  BY <1>1 DEF OwnInv
<1>4. u \in U64 /\ u \in Nat
  BY <1>2, RawIs DEF U64
<1>5. u \in Raw(vt, v)'
  BY <1>1, SameRaw
<1> DEFINE n == Len(data)
<1>6. n \in Nat /\ value = Above(u, n) /\ value \in Nat /\ (n > 0 => value > 0)
      /\ \A i \in 1..n : data[i] = Group(u, i) + 128
  BY <1>2, <1>3, <1>4, TopIs DEF IsWriting
<1>7. /\ Above(u, n + 1) = value \div 128 /\ Group(u, n + 1) \in 0..127
      /\ value % 128 = Group(u, n + 1)
  <2>1. Above(u, n + 1) = value \div 128 /\ Group(u, n + 1) \in 0..127
    BY <1>4, <1>6, NextTop
  <2>2. (n + 1) - 1 = n
    BY <1>6
  <2>3. Group(u, n + 1) = value % 128
    BY <1>6, <2>2 DEF Group
  <2> QED BY <2>1, <2>3
<1> DEFINE e == (value % 128) + (IF value' > 0 THEN 128 ELSE 0)
<1>8. value' = Above(u, n + 1) /\ value' \in Nat /\ data' = Append(data, e)
      /\ pc' = IF value' > 0 THEN "write" ELSE "read"
  BY <1>6, <1>7 DEF WriteGroup
<1>9. e = Group(u, n + 1) + (IF value' > 0 THEN 128 ELSE 0) /\ e \in Byte
  <2>1. e = Group(u, n + 1) + (IF value' > 0 THEN 128 ELSE 0)
    BY <1>7
  <2> HIDE DEF e
  <2>2. e \in 0..255
    <3>1. \A b \in 0..127 : b + 128 \in 0..255 /\ b + 0 \in 0..255
      OBVIOUS
    <3>2. Group(u, n + 1) \in 0..127
      BY <1>7
    <3> QED BY <2>1, <3>1, <3>2
  <2> QED BY <2>1, <2>2 DEF Byte
<1> HIDE DEF n, e
<1>10. /\ data' \in Seq(Byte) /\ Len(data') = n + 1 /\ data'[n + 1] = e
       /\ \A i \in 1..n : data'[i] = data[i]
  BY <1>2, <1>8, <1>9 DEF n
<1>11. CASE value' > 0
  <2>1. pc' = "write"
    BY <1>8, <1>11
  <2>2. \A i \in 1..(n + 1) : data'[i] = Group(u, i) + 128
    <3>1. ASSUME NEW i \in 1..(n + 1) PROVE i \in 1..n \/ i = n + 1
      BY <1>6
    <3>2. data'[n + 1] = Group(u, n + 1) + 128
      BY <1>9, <1>10, <1>11
    <3> QED BY <1>6, <1>10, <3>1, <3>2
  <2>3. IsWriting(u)'
    BY <1>8, <1>10, <1>11, <2>2 DEF IsWriting
  <2> QED BY <1>1, <1>2, <1>5, <1>10, <2>1, <2>3 DEF VarintInv, OwnInv
<1>12. CASE ~(value' > 0)
  <2>1. pc' = "read" /\ value' = 0
    BY <1>8, <1>12
  <2>2. Fits(u, n + 1)
    BY <1>4, <1>6, <1>7, <1>8, <2>1, LastFits
  <2>3. VarintBytes(u) = [i \in 1..(n + 1) |-> ByteOf(u, n + 1, i)]
    BY <1>4, <2>2, BytesAre
  <2>4. \A i \in 1..(n + 1) : data'[i] = ByteOf(u, n + 1, i)
    <3>1. ASSUME NEW i \in 1..(n + 1) PROVE (i \in 1..n /\ i < n + 1) \/ i = n + 1
      BY <1>6
    <3>2. data'[n + 1] = ByteOf(u, n + 1, n + 1)
      BY <1>6, <1>7, <1>9, <1>10, <1>12 DEF ByteOf
    <3>3. ASSUME NEW i \in 1..n, i < n + 1 PROVE data'[i] = ByteOf(u, n + 1, i)
      BY <1>6, <1>10, <3>3 DEF ByteOf
    <3> QED BY <3>1, <3>2, <3>3
  <2>5. data' = VarintBytes(u)
    <3>1. data' = [i \in 1..(n + 1) |-> data'[i]]
      BY <1>10
    <3> QED BY <2>3, <2>4, <3>1
  <2>6. IsWritten(u)'
    BY <1>10, <2>2, <2>5 DEF IsWritten
  <2>7. idx' \in 0..(Len(data') - 1) /\ result' = Low(u, idx')
    BY <1>1, <1>2, <1>4, <1>6, <1>10, LowOfNone
  <2> QED BY <1>1, <1>2, <1>5, <2>1, <2>6, <2>7 DEF VarintInv, OwnInv
<1> QED BY <1>11, <1>12

\* What the encoder wrote is read to its end, each group to its place.
LEMMA ReadOwnInv == VarintInv /\ ReadGroup /\ ~foreign => VarintInv'
<1> SUFFICES ASSUME VarintInv, ReadGroup, ~foreign PROVE VarintInv'
  OBVIOUS
<1>1. /\ pc = "read" /\ OwnInv
      /\ UNCHANGED <<checks, vt, packed, v, foreign, value, data>>
  BY DEF ReadGroup, VarintInv
<1>2. vt \in IntegerTypes /\ v \in RangeOf(vt)
  BY <1>1 DEF OwnInv
<1>3. PICK u \in Raw(vt, v) :
          IsWritten(u) /\ idx \in 0..(Len(data) - 1) /\ result = Low(u, idx)
  BY <1>1 DEF OwnInv
<1>4. u \in U64 /\ u \in Nat
  BY <1>2, RawIs DEF U64
<1>5. u \in Raw(vt, v)'
  BY <1>1, SameRaw
<1> DEFINE k == Len(data)
<1>6. /\ Fits(u, k) /\ data = [i \in 1..k |-> ByteOf(u, k, i)]
      /\ k \in Nat /\ k > 0
  <2>1. Fits(u, k) /\ data = VarintBytes(u)
    BY <1>3 DEF IsWritten
  <2>2. k \in Nat /\ k > 0
    BY <2>1, Rooms DEF Fits, FitsIn
  <2> QED BY <1>4, <2>1, <2>2, BytesAre
<1> HIDE DEF k
<1>7. idx \in 0..(k - 1) /\ idx + 1 \in 1..k /\ idx < k /\ result = Low(u, idx)
  BY <1>3, <1>6 DEF k
<1>8. data[idx + 1] = ByteOf(u, k, idx + 1)
  BY <1>6, <1>7
<1>9. /\ 7 * idx < Width64 /\ (7 * idx) % Width64 = 7 * idx
      /\ ByteOf(u, k, idx + 1) % 128 = Group(u, idx + 1)
      /\ ByteOf(u, k, idx + 1) < 128 <=> idx + 1 = k
      /\ (Low(u, idx) + Group(u, idx + 1) * 2^(7 * idx)) % M64 = Low(u, idx + 1)
      /\ Low(u, k) = u
  BY <1>4, <1>6, <1>7, ReadsOn
<1>10. ~(idx >= Len(data)) /\ ~(7 * idx >= Width64)
  <2>1. ~(idx >= k)
    BY <1>6, <1>7
  <2>2. ~(7 * idx >= Width64)
    <3> DEFINE x == 7 * idx
    <3>1. x \in Nat /\ x < Width64 /\ Width64 \in Nat
      BY <1>6, <1>7, <1>9, VarintAssumption
    <3> HIDE DEF x
    <3>2. ~(x >= Width64)
      BY <3>1
    <3> QED BY <3>2 DEF x
  <2> QED BY <2>1, <2>2 DEF k
<1>11. /\ result' = (result + (data[idx + 1] % 128) * 2^((7 * idx) % Width64)) % M64
       /\ idx' = idx + 1
       /\ pc' = IF data[idx + 1] < 128 THEN "back" ELSE "read"
  BY <1>10 DEF ReadGroup
<1>12. result' = Low(u, idx + 1)
  BY <1>7, <1>8, <1>9, <1>11, Zenon
<1>13. IsWritten(u)'
  BY <1>1, <1>3 DEF IsWritten
<1>14. CASE idx + 1 = k
  <2>1. pc' = "back" /\ result' = u /\ idx' = Len(data)
    BY <1>8, <1>9, <1>11, <1>12, <1>14 DEF k
  <2> QED BY <1>1, <1>2, <1>5, <1>13, <2>1 DEF VarintInv, OwnInv
<1>15. CASE idx + 1 # k
  <2>1. pc' = "read"
    BY <1>8, <1>9, <1>11, <1>15
  <2>2. idx' \in 0..(Len(data') - 1) /\ result' = Low(u, idx')
    <3>1. Len(data') = k /\ idx' = idx + 1
      BY <1>1, <1>11 DEF k
    <3>2. idx + 1 \in 0..(k - 1)
      BY <1>6, <1>7, <1>15
    <3> QED BY <1>12, <3>1, <3>2
  <2> QED BY <1>1, <1>2, <1>5, <1>13, <2>1, <2>2 DEF VarintInv, OwnInv
<1> QED BY <1>14, <1>15

\* Whatever the bytes are, the result is the sum of the groups so far.
LEMMA ReadForeignInv == VarintInv /\ ReadGroup /\ foreign => VarintInv'
<1> SUFFICES ASSUME VarintInv, ReadGroup, foreign PROVE VarintInv'
  OBVIOUS
<1>1. /\ pc = "read" /\ ForeignInv /\ checks \in BOOLEAN
      /\ UNCHANGED <<checks, vt, packed, v, foreign, value, data>>
  BY DEF ReadGroup, VarintInv
<1>2. /\ data \in Seq(Byte) /\ vt = "UInt64" /\ packed = FALSE
      /\ IsResult /\ idx \in 0..Len(data) /\ (checks => idx <= MaxGroups)
      /\ \A m \in 1..idx : data[m] >= 128
  BY <1>1 DEF ForeignInv
<1>3. Len(data) \in Nat /\ idx \in Nat /\ MaxGroups \in Nat
  BY <1>2, Rooms
<1>4. CASE idx >= Len(data)
  <2>1. pc' = "none" /\ UNCHANGED <<idx, result>> /\ idx = Len(data)
    BY <1>2, <1>3, <1>4 DEF ReadGroup
  <2>2. (\A m \in 1..Len(data) : data[m] >= 128) /\ (checks => Len(data) <= MaxGroups)
    BY <1>2, <2>1
  <2> QED BY <1>1, <1>2, <2>1, <2>2 DEF VarintInv, ForeignInv
<1>5. CASE idx < Len(data) /\ checks /\ 7 * idx >= Width64
  <2>1. pc' = "panicked" /\ UNCHANGED <<idx, result>>
    BY <1>3, <1>5 DEF ReadGroup
  <2>2. ~(idx < MaxGroups)
    BY <1>3, <1>5, Rooms, VarintAssumption
  <2>3. MaxGroups < Len(data) /\ \A m \in 1..MaxGroups : data[m] >= 128
    BY <1>2, <1>3, <1>5, <2>2
  <2> QED BY <1>1, <1>2, <1>5, <2>1, <2>3 DEF VarintInv, ForeignInv
<1>6. CASE idx < Len(data) /\ ~(checks /\ 7 * idx >= Width64)
  <2>1. /\ result' = (result + (data[idx + 1] % 128) * 2^((7 * idx) % Width64)) % M64
        /\ idx' = idx + 1
        /\ pc' = IF data[idx + 1] < 128 THEN "back" ELSE "read"
    BY <1>3, <1>6 DEF ReadGroup
  <2>2. checks => idx + 1 <= MaxGroups
    <3> SUFFICES ASSUME checks PROVE idx + 1 <= MaxGroups
      OBVIOUS
    <3>1. 7 * idx < Width64
      BY <1>3, <1>6, VarintAssumption
    <3>2. idx < MaxGroups
      BY <1>3, <3>1, Rooms
    <3> QED BY <1>3, <3>2
  <2>3. idx + 1 \in 1..Len(data) /\ data[idx + 1] \in 0..255
    <3>1. idx + 1 \in 1..Len(data)
      BY <1>3, <1>6
    <3>2. data[idx + 1] \in Byte
      BY <1>2, <3>1
    <3> QED BY <3>1, <3>2 DEF Byte
  <2>4. result' \in U64
    <3> DEFINE b == data[idx + 1] % 128
               s == (7 * idx) % Width64
               x == b * 2^s
               w == result + x
    <3>1. b \in Nat
      <4>1. \A y \in 0..255 : y % 128 \in Nat
        OBVIOUS
      <4> QED BY <2>3, <4>1
    <3>2. s \in Nat
      BY <1>3, VarintAssumption
    <3> HIDE DEF b, s
    <3>3. 2^s \in Nat
      BY <3>2, PowerIs
    <3>4. x \in Nat
      BY <3>1, <3>3
    <3> HIDE DEF x
    <3>5. w \in Nat /\ M64 \in Nat \ {0}
      BY <1>2, <3>4, Rooms DEF IsResult, U64
    <3>6. result' = w % M64
      BY <2>1 DEF w, x, b, s
    <3> HIDE DEF w
    <3>7. w % M64 \in Nat /\ w % M64 < M64
      BY <3>5
    <3> QED BY <3>6, <3>7 DEF U64
  <2>5. ASSUME NEW n \in Nat, NEW f, IsSum(f, data, 0, n), idx + 1 <= n
        PROVE  f[idx + 1] = result'
    <3>1. f[idx] = result
      BY <1>2, <1>3, <2>5 DEF IsResult
    <3>2. f[idx + 1] = (f[idx] + Added(Width64, data, 0, idx + 1)) % M64
      <4>1. idx + 1 \in 0..n /\ idx + 1 # 0 /\ (idx + 1) - 1 = idx
        BY <1>3, <2>5
      <4>2. f[idx + 1] = (f[(idx + 1) - 1] + Added(Width64, data, 0, idx + 1)) % M64
        BY <2>5, <4>1 DEF IsSum, SumsTo, M64
      <4> QED BY <4>1, <4>2
    <3>3. Added(Width64, data, 0, idx + 1) = (data[idx + 1] % 128) * 2^((7 * idx) % Width64)
      <4>1. (idx + 1) - 0 - 1 = idx
        BY <1>3
      <4> QED BY <4>1 DEF Added
    <3> QED BY <2>1, <3>1, <3>2, <3>3
  <2>6. IsResult'
    BY <1>1, <2>1, <2>4, <2>5 DEF IsResult
  <2>7. idx' \in 0..Len(data') /\ idx' > 0 /\ (checks' => idx' <= MaxGroups)
    BY <1>1, <1>3, <2>1, <2>2, <2>3
  <2>8. data' = data /\ idx' = idx + 1 /\ idx' - 1 = idx
    BY <1>1, <1>3, <2>1
  <2>9. CASE data[idx + 1] < 128
    <3>1. pc' = "back"
      BY <2>1, <2>9
    <3>2. data'[idx'] < 128 /\ \A m \in 1..(idx' - 1) : data'[m] >= 128
      BY <1>2, <2>8, <2>9
    <3> QED BY <1>1, <1>2, <2>6, <2>7, <3>1, <3>2 DEF VarintInv, ForeignInv
  <2>10. CASE ~(data[idx + 1] < 128)
    <3>1. pc' = "read"
      BY <2>1, <2>10
    <3>2. \A m \in 1..(idx + 1) : data[m] >= 128
      <4>1. data[idx + 1] >= 128
        <5>1. \A y \in 0..255 : ~(y < 128) => y >= 128
          OBVIOUS
        <5> QED BY <2>3, <2>10, <5>1
      <4>2. \A m \in 1..(idx + 1) : m \in 1..idx \/ m = idx + 1
        BY <1>3
      <4> QED BY <1>2, <4>1, <4>2
    <3>3. \A m \in 1..idx' : data'[m] >= 128
      BY <2>8, <3>2
    <3> QED BY <1>1, <1>2, <2>6, <2>7, <3>1, <3>3 DEF VarintInv, ForeignInv
  <2> QED BY <2>9, <2>10
<1> QED BY <1>3, <1>4, <1>5, <1>6

\* The number converts back to the value it came from.
LEMMA ConvertBackInv == VarintInv /\ ConvertBack => VarintInv'
<1> SUFFICES ASSUME VarintInv, ConvertBack PROVE VarintInv'
  OBVIOUS
<1>1. /\ pc = "back" /\ checks \in BOOLEAN
      /\ UNCHANGED <<checks, vt, packed, v, foreign, value, data, idx>>
  BY DEF ConvertBack, VarintInv
<1>2. CASE ~foreign
  <2>1. OwnInv /\ vt \in IntegerTypes /\ v \in RangeOf(vt)
    BY <1>2 DEF VarintInv, OwnInv
  <2>2. PICK u \in Raw(vt, v) : IsWritten(u) /\ idx = Len(data) /\ result = u
    BY <1>1, <2>1 DEF OwnInv
  <2>3. u \in Raw(vt, v)' /\ IsWritten(u)'
    BY <1>1, <2>2, SameRaw DEF IsWritten
  <2>4. CASE pc' = "done" /\ result' = FromRaw(vt, result)
    <3>1. result' = v
      BY <2>1, <2>2, <2>4, ComesBack
    <3> QED BY <1>1, <1>2, <2>1, <2>2, <2>3, <2>4, <3>1 DEF VarintInv, OwnInv
  <2>5. CASE pc' = "panicked" /\ result \notin (IF packed THEN PackedAccepts(vt) ELSE Accepts(vt))
    <3>1. u \in Accepts(vt) /\ (u \in PackedAccepts(vt) \/ (vt = "UInt64" /\ v >= M64 \div 2))
      BY <2>1, Accepted
    <3>2. packed /\ vt = "UInt64" /\ v >= M64 \div 2
      BY <2>2, <2>5, <3>1
    <3>3. Lost'
      BY <1>1, <3>2 DEF Lost
    <3> QED BY <1>1, <1>2, <2>1, <2>5, <3>3 DEF VarintInv, OwnInv
  <2> QED BY <2>4, <2>5 DEF ConvertBack
<1>3. CASE foreign
  <2>1. /\ data \in Seq(Byte) /\ vt = "UInt64" /\ packed = FALSE /\ result \in U64
    BY <1>1, <1>3 DEF VarintInv, ForeignInv, IsResult
  <2>2. result \in (IF packed THEN PackedAccepts(vt) ELSE Accepts(vt))
    BY <2>1 DEF Accepts
  <2>3. pc' = "done"
    BY <2>2 DEF ConvertBack
  <2> QED BY <1>1, <1>3, <2>1, <2>3 DEF VarintInv, ForeignInv
<1> QED BY <1>2, <1>3

LEMMA StutterInv == VarintInv /\ UNCHANGED vars => VarintInv'
<1> SUFFICES ASSUME VarintInv, UNCHANGED vars PROVE VarintInv'
  OBVIOUS
<1>1. UNCHANGED <<checks, vt, packed, v, foreign, pc, value, data, idx, result>>
  BY DEF vars
<1>2. Raw(vt, v)' = Raw(vt, v) /\ Lost' = Lost
  BY <1>1, SameRaw DEF Lost, Modulus
<1>3. CASE ~foreign
  <2>1. OwnInv
    BY <1>3 DEF VarintInv
  <2>2. OwnInv'
    BY <1>1, <1>2, <2>1 DEF OwnInv, IsWriting, IsWritten
  <2> QED BY <1>1, <1>3, <2>2 DEF VarintInv
<1>4. CASE foreign
  <2>1. ForeignInv
    BY <1>4 DEF VarintInv
  <2>2. ForeignInv'
    BY <1>1, <2>1 DEF ForeignInv, IsResult
  <2> QED BY <1>1, <1>4, <2>2 DEF VarintInv
<1> QED BY <1>3, <1>4

\* The loops and the conversions keep to the number that was converted, or to
\* the sum of the groups that were read.
THEOREM VarintAlways == Spec => []VarintInv
<1>1. VarintInv /\ [Next]_vars => VarintInv'
  BY ConvertInv, WriteInv, ReadOwnInv, ReadForeignInv, ConvertBackInv, StutterInv DEF Next
<1> QED BY <1>1, InitInv, PTL DEF Spec

-----------------------------------------------------------------------------
(* The properties *)

\* Every value that gets through is decoded as what it was, from all of its
\* bytes.
THEOREM SurvivesAlways == Spec => []ValueSurvives
<1>1. VarintInv => ValueSurvives
  BY DEF VarintInv, OwnInv, ValueSurvives
<1> QED BY <1>1, VarintAlways, PTL

\* No values but the zigzag ones without room for their double and the large
\* uint64 elements of arrays are lost.
THEOREM CarriesAlways == Spec => []CarriesAllBut
<1>1. VarintInv => CarriesAllBut
  BY DEF VarintInv, OwnInv, Lost, Zigzagged, CarriesAllBut
<1> QED BY <1>1, VarintAlways, PTL

\* What the loop writes is the shortest varint of the converted value.
THEOREM ShortestAlways == Spec => []WritesShortest
<1>1. VarintInv => WritesShortest
  <2> SUFFICES ASSUME VarintInv, ~foreign, pc \in {"read", "back", "done"}
               PROVE  \E u \in Raw(vt, v) : data = VarintBytes(u)
    BY DEF WritesShortest
  <2>1. \E u \in Raw(vt, v) : IsWritten(u)
    BY DEF VarintInv, OwnInv
  <2> QED BY <2>1 DEF IsWritten
<1> QED BY <1>1, VarintAlways, PTL

\* The loop that reads does with any bytes what the operators of Wire say, on
\* which the decoder's model rests.
THEOREM ClosedFormAlways == Spec => []ClosedForm
<1>1. VarintInv => ClosedForm
  <2> SUFFICES ASSUME VarintInv, foreign PROVE ClosedForm
    BY DEF ClosedForm
  <2>1. ForeignInv /\ data \in Seq(Byte) /\ Len(data) \in Nat /\ MaxGroups \in Nat
    BY Rooms DEF VarintInv, ForeignInv
  <2> DEFINE e == Len(data)
  <2>2. \A m \in 1..e : (data[m] < 128 <=> ~(data[m] >= 128))
    <3>1. \A m \in 1..e : data[m] \in Byte
      BY <2>1
    <3>2. \A b \in Byte : b < 128 <=> ~(b >= 128)
      BY DEF Byte
    <3> QED BY <3>1, <3>2
  <2>3. ASSUME pc = "back" PROVE <<idx, result>> \in VarintReads(data, 0, e, U64)
    <3>1. /\ IsResult /\ idx \in 1..e /\ (checks => idx <= MaxGroups) /\ data[idx] < 128
          /\ \A m \in 1..(idx - 1) : data[m] >= 128
      BY <2>1, <2>3 DEF ForeignInv
    <3>2. idx \in VarintEnds(data, 0, e)
      <4>1. idx \in (0 + 1)..e /\ ~(data[idx] >= 128)
        BY <2>1, <2>2, <3>1
      <4>2. \A m \in (0 + 1)..(idx - 1) : data[m] >= 128
        BY <3>1
      <4> QED BY <4>1, <4>2 DEF VarintEnds, Continues
    <3>3. VarintValue(data, 0, idx) = result
      <4>1. PICK f : IsSum(f, data, 0, idx) /\ VarintValue(data, 0, idx) = f[idx]
        BY <2>1, <3>1, ValueIsSum
      <4> QED BY <2>1, <3>1, <4>1 DEF IsResult
    <3>4. ~ShiftOverflows(data, 0, e)
      <4> SUFFICES ASSUME ShiftOverflows(data, 0, e) PROVE FALSE
        OBVIOUS
      <4>1. checks /\ \A m \in (0 + 1)..(0 + MaxGroups) : data[m] >= 128
        BY DEF ShiftOverflows, Continues
      <4>2. idx \in (0 + 1)..(0 + MaxGroups)
        BY <2>1, <3>1, <4>1
      <4>3. ~(data[idx] >= 128)
        BY <2>2, <3>1
      <4> QED BY <4>1, <4>2, <4>3
    <3>5. result \in U64
      BY <3>1 DEF IsResult
    <3> QED BY <3>2, <3>3, <3>4, <3>5 DEF VarintReads
  <2>4. ASSUME pc = "none"
        PROVE  VarintEnds(data, 0, e) = {} /\ ~VarintPanics(data, 0, e, U64)
    <3>1. (\A m \in 1..e : data[m] >= 128) /\ (checks => e <= MaxGroups)
      BY <2>1, <2>4 DEF ForeignInv
    <3>2. VarintEnds(data, 0, e) = {}
      BY <2>1, <3>1 DEF VarintEnds, Continues
    <3>3. ~ShiftOverflows(data, 0, e)
      BY <2>1, <3>1 DEF ShiftOverflows
    <3> QED BY <3>2, <3>3 DEF VarintPanics
  <2>5. ASSUME pc = "panicked" PROVE VarintPanics(data, 0, e, U64)
    <3>1. checks /\ MaxGroups < e /\ \A m \in 1..MaxGroups : data[m] >= 128
      BY <2>1, <2>5 DEF ForeignInv
    <3>2. ShiftOverflows(data, 0, e)
      BY <2>1, <3>1 DEF ShiftOverflows, Continues
    <3> QED BY <3>2 DEF VarintPanics
  <2> QED BY <2>3, <2>4, <2>5 DEF ClosedForm
<1> QED BY <1>1, VarintAlways, PTL
=============================================================================
