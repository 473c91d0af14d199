-------------------------------- MODULE Wire --------------------------------
(***************************************************************************)
(* The wire format as protofish reads it (src/src/decode.rs): varints,     *)
(* fixed-width values, length-delimited values and packed arrays in a byte *)
(* buffer.  `buf' is the buffer, an offset p stands before byte p+1, and   *)
(* the slice the code calls `data' is the bytes p+1..e.  The operators say *)
(* where a value ends, whether its bytes are missing, and whether reading  *)
(* it panics; Varint.tla checks them against the loops of the code.        *)
(***************************************************************************)
EXTENDS Integers, Sequences

CONSTANTS
    Width32, Width64,   \* bits of u32/i32 and of u64/i64 (32 and 64 in the code)
    Size32, Size64,     \* bytes of the fixed-width values (4 and 8 in the code)
    OverflowChecks      \* TRUE: debug build, arithmetic overflow panics

ASSUME WireAssumption ==
    /\ Width32 \in Nat /\ Width64 \in Nat /\ 8 < Width32 /\ Width32 < Width64
    /\ Size32 \in Nat \ {0} /\ Size64 \in Nat \ {0}
    /\ OverflowChecks \in BOOLEAN

Byte == 0..255
M32 == 2^Width32
M64 == 2^Width64
U64 == {u \in Nat : u < M64}
U32 == {u \in U64 : u < M32}
U8  == 0..255

\* ValueType (src/src/context/mod.rs); an Enum or Message type also carries a
\* reference, which the schema keeps beside it.
Fixed64Types == {"Double", "Fixed64", "SFixed64"}
Fixed32Types == {"Float", "Fixed32", "SFixed32"}
VarintTypes  == {"Int32", "Int64", "UInt32", "UInt64", "SInt32", "SInt64", "Bool", "Enum"}
BlobTypes    == {"String", "Bytes"}
ScalarTypes  == Fixed64Types \cup Fixed32Types \cup VarintTypes \cup BlobTypes
ValueTypes   == ScalarTypes \cup {"Message"}
PackableTypes == (Fixed64Types \cup Fixed32Types \cup VarintTypes) \ {"Enum"}

\* ValueType::wire_type: what the decoder expects for a field of the type.
WireTypeOf(vt) ==
    CASE vt \in VarintTypes  -> 0
      [] vt \in Fixed64Types -> 1
      [] vt \in Fixed32Types -> 5
      [] vt \in BlobTypes \cup {"Message"} -> 2

-----------------------------------------------------------------------------
(* Varints *)

Continues(buf, n) == buf[n] >= 128

\* Where the varint at offset p ends: the first byte without the continuation
\* bit.  Empty when the slice ends first; never more than one offset.
VarintEnds(buf, p, e) ==
    {n \in (p+1)..e : ~Continues(buf, n) /\ \A m \in (p+1)..(n-1) : Continues(buf, m)}

\* The u64 accumulated by the loop.  Without overflow checks the shift amount
\* of an overlong varint wraps and the sum wraps.
VarintValue(buf, p, n) ==
    LET sum[i \in p..n] ==
            IF i = p THEN 0
            ELSE (sum[i-1] + (buf[i] % 128) * 2^((7 * (i - p - 1)) % Width64)) % M64
    IN  sum[n]

\* The groups of a varint that a u64 has room for; the shift of the next one
\* overflows.
MaxGroups == (Width64 + 6) \div 7

ShiftOverflows(buf, p, e) ==
    /\ OverflowChecks
    /\ p + MaxGroups < e
    /\ \A m \in (p+1)..(p + MaxGroups) : Continues(buf, m)

\* The three outcomes of reading a varint of which the values in T convert to
\* the type asked for: <<end, value>> pairs (at most one), None, or a panic.
VarintReads(buf, p, e, T) ==
    {r \in {<<n, VarintValue(buf, p, n)>> : n \in VarintEnds(buf, p, e)} :
        r[2] \in T /\ ~ShiftOverflows(buf, p, e)}

VarintPanics(buf, p, e, T) ==
    \/ ShiftOverflows(buf, p, e)
    \/ \E n \in VarintEnds(buf, p, e) : VarintValue(buf, p, n) \notin T

\* into_unsigned_varint: the groups of v, the continuation bit on all but the last.
VarintBytes(v) ==
    LET groups == CHOOSE k \in 1..MaxGroups :
                     v < 2^(7 * k) /\ (k > 1 => v >= 2^(7 * (k-1)))
    IN  [i \in 1..groups |->
            ((v \div 2^(7 * (i-1))) % 128) + (IF i < groups THEN 128 ELSE 0)]

\* transmute::<u64, i64>
Signed64(u) == IF u < M64 \div 2 THEN u ELSE u - M64

\* The raw u64 values a singular field of the type accepts: T::try_from of
\* from_unsigned_varint, try_into of from_signed_varint, and the overflow of
\* `magnitude' for the largest zigzag value in a checked build.
Accepts(vt) ==
    CASE vt = "Int32"  -> {u \in U64 : Signed64(u) \in (-(M32 \div 2))..(M32 \div 2 - 1)}
      [] vt = "UInt32" -> U32
      [] vt = "SInt32" -> IF OverflowChecks THEN U32 \ {M32 - 1} ELSE U32
      [] vt = "SInt64" -> IF OverflowChecks THEN U64 \ {M64 - 1} ELSE U64
      [] vt \in {"Int64", "UInt64", "Bool", "Enum"} -> U64

\* The same for the elements of a packed array, where the unsigned and zigzag
\* types are read with from_signed_varint and Bool as a u8.
PackedAccepts(vt) ==
    CASE vt = "Bool" -> U8
      [] vt \in {"UInt64", "SInt64"} -> {u \in U64 : Signed64(u) >= 0}
      [] OTHER -> Accepts(vt)

-----------------------------------------------------------------------------
(* Values *)

\* Bug: the announced length is not compared with the bytes that are there.
Payloads_Unchecked(buf, p, e) ==
    {<<r[1], r[1] + r[2]>> : r \in VarintReads(buf, p, e, U64)}

\* A length prefix and the bytes it announces, if they are all there:
\* <<start, end>> of the payload (at most one).
Payloads(buf, p, e) ==
    {<<r[1], r[1] + r[2]>> : r \in {r \in VarintReads(buf, p, e, U64) : r[1] + r[2] <= e}}

\* Where the value of a scalar type at offset p ends (at most one offset).
ScalarEnds(vt, buf, p, e) ==
    {n \in p..e :
        \/ vt \in Fixed64Types /\ n = p + Size64
        \/ vt \in Fixed32Types /\ n = p + Size32
        \/ vt \in VarintTypes /\ \E r \in VarintReads(buf, p, e, Accepts(vt)) : n = r[1]
        \/ vt \in BlobTypes /\ \E r \in Payloads(buf, p, e) : n = r[2]}

ScalarPanics(vt, buf, p, e) ==
    CASE vt \in VarintTypes -> VarintPanics(buf, p, e, Accepts(vt))
      [] vt \in BlobTypes   -> VarintPanics(buf, p, e, U64)
      [] OTHER -> FALSE

\* The offsets at which the elements of a varint array in (a, z] begin.
ElementStarts(buf, a, z) ==
    {s \in a..(z-1) : s = a \/ ~Continues(buf, s)}

\* read_packed!: the array holds whole elements only, and reading one panics.
PackedWhole(vt, buf, a, z) ==
    CASE vt \in Fixed64Types -> (z - a) % Size64 = 0
      [] vt \in Fixed32Types -> (z - a) % Size32 = 0
      [] OTHER -> z = a \/ ~Continues(buf, z)

PackedPanics(vt, buf, a, z) ==
    \/ vt \notin PackableTypes
    \/ /\ vt \in VarintTypes
       /\ \E s \in ElementStarts(buf, a, z) : VarintPanics(buf, s, z, PackedAccepts(vt))

\* Where the value of an unknown field ends, by its wire type alone.  A u128
\* holds every value of the u64 the loop accumulates.
UnknownEnds(wire, buf, p, e) ==
    {n \in p..e :
        \/ wire = 0 /\ \E r \in VarintReads(buf, p, e, U64) : n = r[1]
        \/ wire = 1 /\ n = p + Size64
        \/ wire = 2 /\ \E r \in Payloads(buf, p, e) : n = r[2]
        \/ wire = 5 /\ n = p + Size32
        \/ wire \notin {0, 1, 2, 5} /\ n = e}

UnknownPanics(wire, buf, p, e) ==
    wire \in {0, 2} /\ VarintPanics(buf, p, e, U64)
=============================================================================
