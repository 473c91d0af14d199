------------------------------- MODULE Varint -------------------------------
(***************************************************************************)
(* The integer conversions of src/src/decode.rs, loop by loop: a value of  *)
(* an integer type is converted to a u64, written group by group, read     *)
(* back group by group and converted to its type again, as the value of a  *)
(* singular field or as an element of a packed array.  Arbitrary bytes are *)
(* read with the same loop, against the closed form that Wire states.      *)
(* Both builds, with overflow checks and without, are behaviours of one    *)
(* specification.                                                          *)
(***************************************************************************)
EXTENDS Integers, Sequences

CONSTANTS
    Width32, Width64, Size32, Size64,   \* as in Wire
    Values,     \* Values[vt]: the values of the type that are tried
    ByteStrings \* the byte sequences that are read as a varint

VARIABLE checks     \* TRUE: a build in which arithmetic overflow panics

INSTANCE Wire WITH OverflowChecks <- checks

IntegerTypes == VarintTypes \ {"Bool"}

\* The values of an integer type.
RangeOf(vt) ==
    CASE vt \in {"Int32", "SInt32"} -> (-(M32 \div 2))..(M32 \div 2 - 1)
      [] vt \in {"Int64", "SInt64", "Enum"} -> (-(M64 \div 2))..(M64 \div 2 - 1)
      [] vt = "UInt32" -> U32
      [] vt = "UInt64" -> U64

ASSUME VarintAssumption ==
    /\ Width32 \in Nat /\ Width64 \in Nat /\ 8 < Width32 /\ Width32 < Width64
    /\ DOMAIN Values = IntegerTypes
    /\ \A vt \in IntegerTypes : Values[vt] \subseteq RangeOf(vt)
    /\ \A b \in ByteStrings : b \in Seq(Byte)

VARIABLES
    vt, packed, v,  \* the type, whether it is an array element, and the value
    foreign,        \* TRUE: the bytes do not come from the encoder; v is 0
    pc,             \* "convert", "write", "read", "back"; "done", "none", "panicked"
    value,          \* `value' of into_unsigned_varint
    data,           \* the bytes
    idx, result     \* of from_unsigned_varint; result ends as the typed value

vars == <<checks, vt, packed, v, foreign, pc, value, data, idx, result>>

Init ==
    /\ checks \in BOOLEAN
    /\ value = 0 /\ idx = 0 /\ result = 0
    /\ \/ /\ vt \in IntegerTypes
          /\ v \in Values[vt]
          /\ packed \in {p \in BOOLEAN : p => vt \in PackableTypes}
          /\ foreign = FALSE
          /\ pc = "convert"
          /\ data = <<>>
       \/ /\ vt = "UInt64" /\ v = 0 /\ packed = FALSE /\ foreign = TRUE
          /\ pc = "read"
          /\ data \in ByteStrings

-----------------------------------------------------------------------------
Abs(n) == IF n < 0 THEN -n ELSE n
Modulus(type) == IF type \in {"Int32", "UInt32", "SInt32"} THEN M32 ELSE M64

\* The zigzag of a value, `v * 2 - sign_bit' with v negated first if negative,
\* in the arithmetic of the build; into_unsigned_varint rejects a negative.
ZigzagRaw(type, n) ==
    LET M == Modulus(type)
        z == 2 * Abs(n) - (IF n < 0 THEN 1 ELSE 0)
    IN  IF checks THEN {u \in {z} : 2 * Abs(n) < M \div 2 /\ Abs(n) < M \div 2}
        ELSE {u \in {z % M} : u < M \div 2}

\* Bug: negative values are not transmuted.
Raw_Unsigned(type, n) ==
    IF type \in {"SInt32", "SInt64"} THEN ZigzagRaw(type, n) ELSE {n} \cap Nat

\* The u64 that is written, if the conversion does not panic.
Raw(type, n) ==
    IF type \in {"SInt32", "SInt64"} THEN ZigzagRaw(type, n) ELSE {n % M64}

Convert ==
    /\ pc = "convert"
    /\ \/ /\ value' \in Raw(vt, v)
          /\ pc' = "write"
       \/ /\ Raw(vt, v) = {}
          /\ pc' = "panicked"
          /\ UNCHANGED value
    /\ UNCHANGED <<checks, vt, packed, v, foreign, data, idx, result>>

\* Bug: the test of the value comes before the shift.
WriteGroup_TestFirst ==
    /\ pc = "write"
    /\ value' = value \div 128
    /\ data' = Append(data, (value % 128) + (IF value > 0 THEN 128 ELSE 0))
    /\ pc' = IF value > 0 THEN "write" ELSE "read"
    /\ UNCHANGED <<checks, vt, packed, v, foreign, idx, result>>

\* One turn of the loop of into_unsigned_varint.
WriteGroup ==
    /\ pc = "write"
    /\ value' = value \div 128
    /\ data' = Append(data, (value % 128) + (IF value' > 0 THEN 128 ELSE 0))
    /\ pc' = IF value' > 0 THEN "write" ELSE "read"
    /\ UNCHANGED <<checks, vt, packed, v, foreign, idx, result>>

\* Bug: the end of the data does not end the loop.
ReadGroup_NoReturn ==
    /\ pc = "read"
    /\ idx < Len(data)
    /\ IF checks /\ 7 * idx >= Width64
       THEN pc' = "panicked" /\ UNCHANGED <<idx, result>>
       ELSE /\ result' = (result + (data[idx + 1] % 128) * 2^((7 * idx) % Width64)) % M64
            /\ idx' = idx + 1
            /\ pc' = IF data[idx + 1] < 128 THEN "back" ELSE "read"
    /\ UNCHANGED <<checks, vt, packed, v, foreign, value, data>>

\* Bug: a group beyond the 64 bits is thought to be shifted out.
ReadGroup_ShiftedOut ==
    /\ pc = "read"
    /\ IF idx >= Len(data)
       THEN pc' = "none" /\ UNCHANGED <<idx, result>>
       ELSE /\ result' = (result + (data[idx + 1] % 128) * 2^(7 * idx)) % M64
            /\ idx' = idx + 1
            /\ pc' = IF data[idx + 1] < 128 THEN "back" ELSE "read"
    /\ UNCHANGED <<checks, vt, packed, v, foreign, value, data>>

\* One turn of the loop of from_unsigned_varint.
ReadGroup ==
    /\ pc = "read"
    /\ IF idx >= Len(data)
       THEN pc' = "none" /\ UNCHANGED <<idx, result>>
       ELSE IF checks /\ 7 * idx >= Width64
       THEN pc' = "panicked" /\ UNCHANGED <<idx, result>>
       ELSE /\ result' = (result + (data[idx + 1] % 128) * 2^((7 * idx) % Width64)) % M64
            /\ idx' = idx + 1
            /\ pc' = IF data[idx + 1] < 128 THEN "back" ELSE "read"
    /\ UNCHANGED <<checks, vt, packed, v, foreign, value, data>>

\* Bug: the magnitude of an odd zigzag value misses the sign bit.
FromRaw_NoSignBit(type, u) ==
    IF type \in {"Int32", "Int64", "Enum"} THEN Signed64(u)
    ELSE IF type \in {"UInt32", "UInt64"} THEN u
    ELSE IF u % 2 = 0 THEN u \div 2 ELSE -(u \div 2)

\* The value of the type for an accepted u64.
FromRaw(type, u) ==
    CASE type \in {"Int32", "Int64", "Enum"} -> Signed64(u)
      [] type \in {"UInt32", "UInt64"} -> u
      [] type \in {"SInt32", "SInt64"} ->
            IF u % 2 = 0 THEN u \div 2 ELSE -((u \div 2) + 1)

ConvertBack ==
    /\ pc = "back"
    /\ IF result \in (IF packed THEN PackedAccepts(vt) ELSE Accepts(vt))
       THEN pc' = "done" /\ result' = FromRaw(vt, result)
       ELSE pc' = "panicked" /\ UNCHANGED result
    /\ UNCHANGED <<checks, vt, packed, v, foreign, value, data, idx>>

Next == Convert \/ WriteGroup \/ ReadGroup \/ ConvertBack

Spec == Init /\ [][Next]_vars /\ WF_vars(Next)
-----------------------------------------------------------------------------

\* What is encoded and decoded comes back, from all of its bytes: the two loops
\* and the conversions on both sides are inverse to each other for every value
\* that gets through, in a build with and without overflow checks.
ValueSurvives ==
    ~foreign /\ pc = "done" => result = v /\ idx = Len(data)

\* The only values that do not get through, in either build: zigzag values of
\* which the double does not fit the signed type, and packed uint64 values that
\* do not fit an i64.
CarriesAllBut ==
    ~foreign /\ pc \in {"panicked", "none"} =>
        \/ vt \in {"SInt32", "SInt64"} /\ Abs(v) >= Modulus(vt) \div 4
        \/ vt = "UInt64" /\ packed /\ v >= M64 \div 2

\* The loop of into_unsigned_varint writes the shortest varint of the converted
\* value, the one Wire gives in closed form.
WritesShortest ==
    ~foreign /\ pc \in {"read", "back", "done"} =>
        \E u \in Raw(vt, v) : data = VarintBytes(u)

\* The loop of from_unsigned_varint computes what Wire says of a buffer.
ClosedForm ==
    foreign =>
        /\ pc = "back" => <<idx, result>> \in VarintReads(data, 0, Len(data), U64)
        /\ pc = "none" => /\ VarintEnds(data, 0, Len(data)) = {}
                          /\ ~VarintPanics(data, 0, Len(data), U64)
        /\ pc = "panicked" => VarintPanics(data, 0, Len(data), U64)

\* Every conversion ends.
Ends == <>(pc \in {"done", "none", "panicked"})

\* The table above test_zigzag_encoding (decode.rs:762-770), from protobuf's
\* documentation of sint32: n >= 0 is encoded as 2n and n < 0 as -2n - 1, up to
\* the largest and the smallest sint32.
ZigzagTable ==
    ~foreign /\ vt = "SInt32" =>
        /\ pc # "panicked"
        /\ pc = "write" /\ data = <<>> => value = IF v < 0 THEN -2 * v - 1 ELSE 2 * v

\* PackedArray::UInt64 holds every uint64 (decode.rs:85-86): what is encoded
\* from one can be decoded.
PackedUInt64Decodes ==
    ~foreign /\ vt = "UInt64" /\ packed => pc # "panicked"
=============================================================================
