----------------------------- MODULE RoundTrip -----------------------------
(***************************************************************************)
(* Decode composed with MessageValue::encode (src/src/decode.rs).  On the  *)
(* first trip a buffer is decoded; the MessageValue is encoded, and a      *)
(* prefix of the encoded bytes, a whole or a partial message, is decoded   *)
(* on the second trip.                                                     *)
(***************************************************************************)
EXTENDS Decode, SequencesExt

VARIABLES
    trip,     \* 1: decoding the input, 2: decoding bytes that were encoded
    whole     \* trip 2: every byte of the input is in exactly one field

tripVars == <<buf, status, msgs, stack, trip, whole>>

-----------------------------------------------------------------------------
(* Encoding of what was decoded from buffer b *)

Bytes(b, p, n) == SubSeq(b, p + 1, n)

\* A payload behind its length: a usize, which has the width of a u64.
Delimited(bytes) == VarintBytes(Len(bytes) % M64) \o bytes

\* UTF-8: the width of a character, by its first byte (0: no character begins
\* with it), and what its k-th byte may be.
CharWidth(lead) ==
    CASE lead < 128 -> 1
      [] lead \in 194..223 -> 2
      [] lead \in 224..239 -> 3
      [] lead \in 240..244 -> 4
      [] OTHER -> 0

Continuations(lead, k) ==
    CASE k = 2 /\ lead = 224 -> 160..191
      [] k = 2 /\ lead = 237 -> 128..159
      [] k = 2 /\ lead = 240 -> 144..191
      [] k = 2 /\ lead = 244 -> 128..143
      [] OTHER -> 128..191

\* The bytes of s from i to j are a character, or the beginning of one.
CharPart(s, i, j) ==
    /\ j < i + CharWidth(s[i])
    /\ \A k \in (i + 1)..j : s[k] \in Continuations(s[i], k - i + 1)

\* Byte i of s belongs to a whole character.
InChar(s, i) ==
    \E j \in 1..i :
        LET last == j + CharWidth(s[j]) - 1
        IN  i <= last /\ last <= Len(s) /\ CharPart(s, j, last)

\* String::from_utf8_lossy: one U+FFFD for each beginning of a character that does
\* not go on as one, and for every other byte that is in no character.
Replacement == <<239, 191, 189>>

Lossy(s) ==
    FlattenSeq([i \in 1..Len(s) |->
        IF InChar(s, i) THEN <<s[i]>>
        ELSE IF \E j \in 1..(i - 1) : CharPart(s, j, i) THEN <<>> ELSE Replacement])

\* The magnitude of the value a zigzag integer u stands for, and its sign bit.
Magnitude(u) == (u \div 2) + (u % 2)
SignBit(u) == u % 2

\* `v * 2 - sign_bit' in an integer of modulus M: it overflows, or wraps to a
\* negative number that into_unsigned_varint cannot convert.
ZigzagPanics(M, u) ==
    IF OverflowChecks THEN Magnitude(u) >= M \div 4
    ELSE (2 * Magnitude(u) - SignBit(u)) % M >= M \div 2

ElementPanics(vt, u) ==
    \/ vt = "SInt32" /\ ZigzagPanics(M32, u)
    \/ vt = "SInt64" /\ ZigzagPanics(M64, u)

\* Bug: the sign bit is added where it is to be subtracted.
ElementBytes_SignAdded(vt, u) ==
    IF vt = "Bool" THEN <<IF u # 0 THEN 1 ELSE 0>>
    ELSE IF vt \in {"SInt32", "SInt64"} THEN VarintBytes(2 * Magnitude(u) + SignBit(u))
    ELSE VarintBytes(u)

\* Bug: sint values are written like int values.
ElementBytes_NoZigzag(vt, u) ==
    IF vt = "Bool" THEN <<IF u # 0 THEN 1 ELSE 0>>
    ELSE IF vt \in {"SInt32", "SInt64"}
    THEN VarintBytes((IF u % 2 = 0 THEN Magnitude(u) ELSE -Magnitude(u)) % M64)
    ELSE VarintBytes(u)

\* The bytes of a varint-typed value decoded from the raw u64 u.
ElementBytes(vt, u) ==
    CASE vt = "Bool" -> <<IF u # 0 THEN 1 ELSE 0>>
      [] vt = "SInt32" -> VarintBytes((2 * Magnitude(u) - SignBit(u)) % M32)
      [] vt = "SInt64" -> VarintBytes((2 * Magnitude(u) - SignBit(u)) % M64)
      [] OTHER -> VarintBytes(u)

\* The payload of a length-delimited value.
Payload(b, at, to) == CHOOSE p \in Payloads(b, at, to) : p[2] = to

\* The raw values of the varints in (a, z], in order:
\* ElementRaw is the one that starts at s.
ElementRaw(b, s, z) == VarintValue(b, s, CHOOSE n \in VarintEnds(b, s, z) : TRUE)

\* PackedArray::encode of the varints in (a, z], without the length.
ElementsBytes(vt, b, a, z) ==
    FlattenSeq([i \in 1..(z - a) |->
        LET s == a + i - 1
        IN  IF s \in ElementStarts(b, a, z) THEN ElementBytes(vt, ElementRaw(b, s, z)) ELSE <<>>])

\* Value::encode for everything but a sub-message.
ValueBytes(b, f) ==
    CASE f.kind = "Incomplete" \/ f.kind = "Invalid" -> Bytes(b, f.at, f.to)
      [] f.kind = "Typed" /\ f.type \in VarintTypes ->
            ElementBytes(f.type, VarintValue(b, f.at, f.to))
      [] f.kind = "Unknown" /\ f.wire = 0 -> VarintBytes(VarintValue(b, f.at, f.to))
      [] f.kind = "Typed" /\ f.type = "String" ->
            LET p == Payload(b, f.at, f.to) IN Delimited(Lossy(Bytes(b, p[1], p[2])))
      [] (f.kind = "Typed" /\ f.type = "Bytes") \/ (f.kind = "Unknown" /\ f.wire = 2) ->
            LET p == Payload(b, f.at, f.to) IN Delimited(Bytes(b, p[1], p[2]))
      [] f.kind = "Packed" /\ f.type \in VarintTypes ->
            LET p == Payload(b, f.at, f.to) IN Delimited(ElementsBytes(f.type, b, p[1], p[2]))
      [] f.kind = "Packed" /\ f.type \notin VarintTypes ->
            LET p == Payload(b, f.at, f.to) IN Delimited(Bytes(b, p[1], p[2]))
      [] OTHER -> Bytes(b, f.at, f.to)

\* The tag in front of a value.
TagBytes(f) == VarintBytes((WireTypeOfValue(f) + 8 * f.number) % M64)

\* A field; enc are the bytes of the boxes.
FieldBytes(enc, f) ==
    TagBytes(f) \o IF f.kind = "Message" THEN Delimited(enc[f.box]) ELSE ValueBytes(buf, f)

\* MessageValue::encode: the fields in order, the garbage left out.
MessageBytes(enc, b) ==
    FlattenSeq([k \in 1..Len(msgs[b].fields) |-> FieldBytes(enc, msgs[b].fields[k])])

Encoded == LET enc[b \in Boxes] == MessageBytes(enc, b) IN enc[1]

FieldPanics(b, f) ==
    \/ /\ f.kind = "Typed" /\ f.type \in VarintTypes
       /\ ElementPanics(f.type, VarintValue(b, f.at, f.to))
    \/ /\ f.kind = "Packed" /\ f.type \in VarintTypes
       /\ LET p == Payload(b, f.at, f.to)
          IN  \E s \in ElementStarts(b, p[1], p[2]) :
                 ElementPanics(f.type, ElementRaw(b, s, p[2]))

EncodePanics == \E b \in Boxes : \E f \in FieldsOf(b) : FieldPanics(buf, f)

-----------------------------------------------------------------------------
\* No field keeps bytes that were decoded again after it.
NothingRepeated == \A b \in Boxes : \A f \in FieldsOf(b) : ~DecodedAgain(buf, f)

TripInit == Init /\ trip = 1 /\ whole = TRUE

DecodeStep == Next /\ UNCHANGED <<trip, whole>>

\* encode succeeds; a prefix of its bytes is decoded as the same message type.
\* The bytes are in one Vec, so their number is a usize.
Reencode ==
    /\ status = "done" /\ trip = 1 /\ ~EncodePanics
    /\ trip' = 2
    /\ whole' = NothingRepeated
    /\ LET bytes == Encoded
       IN  /\ Len(bytes) < M64
           /\ \E n \in 0..Len(bytes) :
                /\ buf' = SubSeq(bytes, 1, n)
                /\ msgs' = <<NewMessage(msgs[1].msg, 0, n)>>
    /\ stack' = <<[box |-> 1, pos |-> 0, ret |-> <<>>]>>
    /\ status' = "running"

\* encode panics.
EncodePanic ==
    /\ status = "done" /\ EncodePanics
    /\ status' = "panicked"
    /\ UNCHANGED <<buf, msgs, stack, trip, whole>>

TripNext == DecodeStep \/ Reencode \/ EncodePanic

\* A decoder that was called runs on; whether to encode is the client's choice.
TripSpec == TripInit /\ [][TripNext]_tripVars /\ WF_tripVars(DecodeStep)
-----------------------------------------------------------------------------

\* A partial message decodes to a value that encodes to the same bytes, save for
\* the garbage of a tag that was cut: lib.rs shows this for one message; it holds
\* for every prefix of what encode produced as long as no byte is decoded twice.
PartialMessageSurvives ==
    trip = 2 /\ whole /\ status = "done" /\ NothingRepeated
        => Encoded \o Bytes(buf, msgs[1].garbage, msgs[1].hi) = buf

\* What the example of lib.rs (src/src/lib.rs:46-47) asserts of a message that
\* is cut, `assert_eq!(encoded, &bytes[..])', for every such message.  The code
\* does not keep it: decode_unknown leaves the cursor before the bytes of a value
\* it found incomplete, and they are decoded and encoded once more.
CutMessageSurvives ==
    trip = 2 /\ whole /\ status = "done" /\ msgs[1].garbage = msgs[1].hi
        => Encoded = buf

\* What encode produced, whole or cut anywhere, is decoded, and can be encoded
\* again, without a panic: no value leaves the range its decoder accepts.  Only
\* bytes that are decoded twice, as part of an unknown value that was cut and
\* then as fields of their own, can be anything.
EncoderOutputIsSafe ==
    trip = 2 /\ whole /\ NothingRepeated => status # "panicked"

\* Every trip ends.
TripsEnd == <>[](status # "running")
=============================================================================
