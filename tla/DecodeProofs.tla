---------------------------- MODULE DecodeProofs ----------------------------
(***************************************************************************)
(* What holds of Decode for every schema, every input and every width of   *)
(* the integers: its types, the shape of its call stack, and that no byte  *)
(* of a message is lost or decoded twice; then, of the tree of             *)
(* MessageValues, that a step never takes back what is decoded, every      *)
(* field keeps its tag, the fields are where a reader without the schema   *)
(* would look for them, and the messages nest.                             *)
(***************************************************************************)
EXTENDS Decode, TLAPS

-----------------------------------------------------------------------------
(* Where values end *)

\* A varint that is read has at least one byte, ends in the slice and has a
\* value of the type asked for.
LEMMA VarintReadsBounds ==
    ASSUME NEW b, NEW p \in Nat, NEW e \in Nat, NEW T, NEW r \in VarintReads(b, p, e, T)
    PROVE  /\ r[1] \in Nat /\ p < r[1] /\ r[1] <= e
           /\ r[2] \in T
BY DEF VarintReads, VarintEnds

\* A payload starts behind its length and ends in the slice.
LEMMA PayloadsBounds ==
    ASSUME NEW b, NEW p \in Nat, NEW e \in Nat, NEW x \in Payloads(b, p, e)
    PROVE  /\ x[1] \in Nat /\ p < x[1]
           /\ x[2] \in Nat /\ x[1] <= x[2] /\ x[2] <= e
<1>1. PICK r \in VarintReads(b, p, e, U64) : x = <<r[1], r[1] + r[2]>> /\ r[1] + r[2] <= e
  BY DEF Payloads
<1>2. r[1] \in Nat /\ p < r[1] /\ r[2] \in Nat
  BY <1>1, VarintReadsBounds DEF U64
<1> QED  BY <1>1, <1>2

\* A varint ends in one place only, whatever type is read.
LEMMA OneRead ==
    ASSUME NEW b, NEW p \in Nat, NEW e \in Nat, NEW T, NEW U,
           NEW r \in VarintReads(b, p, e, T), NEW s \in VarintReads(b, p, e, U)
    PROVE  r = s
<1>1. PICK m \in VarintEnds(b, p, e) : r = <<m, VarintValue(b, p, m)>>
  BY DEF VarintReads
<1>2. PICK n \in VarintEnds(b, p, e) : s = <<n, VarintValue(b, p, n)>>
  BY DEF VarintReads
<1>3. m = n
  BY DEF VarintEnds
<1> QED  BY <1>1, <1>2, <1>3

LEMMA OnePayload ==
    ASSUME NEW b, NEW p \in Nat, NEW e \in Nat,
           NEW x \in Payloads(b, p, e), NEW y \in Payloads(b, p, e)
    PROVE  x = y
<1>1. PICK r \in VarintReads(b, p, e, U64) : x = <<r[1], r[1] + r[2]>>
  BY DEF Payloads
<1>2. PICK s \in VarintReads(b, p, e, U64) : y = <<s[1], s[1] + s[2]>>
  BY DEF Payloads
<1>3. r = s
  BY OneRead
<1> QED  BY <1>1, <1>2, <1>3

\* A reader without the schema ends a value in one place.
LEMMA OneEnd ==
    ASSUME NEW w \in 0..7, NEW b, NEW p \in Nat, NEW e \in Nat,
           NEW m \in UnknownEnds(w, b, p, e)
    PROVE  UnknownEnds(w, b, p, e) = {m}
<1> SUFFICES ASSUME NEW n \in UnknownEnds(w, b, p, e)
             PROVE  n = m
  OBVIOUS
<1>1. CASE w = 0
  <2>1. /\ \E r \in VarintReads(b, p, e, U64) : m = r[1]
        /\ \E r \in VarintReads(b, p, e, U64) : n = r[1]
    BY <1>1 DEF UnknownEnds
  <2> QED  BY <2>1, OneRead
<1>2. CASE w = 2
  <2>1. /\ \E x \in Payloads(b, p, e) : m = x[2]
        /\ \E x \in Payloads(b, p, e) : n = x[2]
    BY <1>2 DEF UnknownEnds
  <2> QED  BY <2>1, OnePayload
<1>3. CASE w \notin {0, 2}
  BY <1>3 DEF UnknownEnds
<1> QED  BY <1>1, <1>2, <1>3

\* A payload is read without a panic.
LEMMA PayloadReads ==
    ASSUME NEW b, NEW p \in Nat, NEW e \in Nat, Payloads(b, p, e) # {}
    PROVE  ~VarintPanics(b, p, e, U64)
<1>1. PICK r \in VarintReads(b, p, e, U64) : TRUE
  BY DEF Payloads
<1>2. PICK n \in VarintEnds(b, p, e) :
        VarintValue(b, p, n) \in U64 /\ ~ShiftOverflows(b, p, e)
  BY <1>1 DEF VarintReads
<1>3. \A k \in VarintEnds(b, p, e) : k = n
  BY <1>2 DEF VarintEnds
<1> QED  BY <1>2, <1>3 DEF VarintPanics

\* A payload is where a reader without the schema looks for it.
LEMMA PayloadEnds ==
    ASSUME NEW b, NEW p \in Nat, NEW e \in Nat
    PROVE  /\ \A x \in Payloads(b, p, e) : UnknownEnds(2, b, p, e) = {x[2]}
           /\ Payloads(b, p, e) = {} => UnknownEnds(2, b, p, e) = {}
<1>1. ASSUME NEW x \in Payloads(b, p, e)
      PROVE  UnknownEnds(2, b, p, e) = {x[2]}
  <2>1. x[2] \in p..e
    BY PayloadsBounds
  <2>2. x[2] \in UnknownEnds(2, b, p, e)
    BY <2>1 DEF UnknownEnds
  <2> QED  BY <2>2, OneEnd
<1>2. Payloads(b, p, e) = {} => UnknownEnds(2, b, p, e) = {}
  BY DEF UnknownEnds
<1> QED  BY <1>1, <1>2

LEMMA AcceptsU64 ==
    ASSUME NEW vt \in VarintTypes
    PROVE  Accepts(vt) \subseteq U64
BY DEF Accepts, VarintTypes, U32

\* A value of a scalar type ends where its wire type alone says, and its bytes
\* are missing for both readers or for neither.
LEMMA ScalarEndsAgree ==
    ASSUME NEW vt \in ScalarTypes, NEW b, NEW p \in Nat, NEW e \in Nat
    PROVE  /\ \A to \in ScalarEnds(vt, b, p, e) : UnknownEnds(WireTypeOf(vt), b, p, e) = {to}
           /\ ScalarEnds(vt, b, p, e) = {} /\ ~ScalarPanics(vt, b, p, e)
                => UnknownEnds(WireTypeOf(vt), b, p, e) = {}
<1> USE DEF Fixed64Types, Fixed32Types, VarintTypes, BlobTypes
<1>1. CASE vt \in VarintTypes
  <2>1. WireTypeOf(vt) = 0
    BY <1>1 DEF WireTypeOf
  <2>2. ASSUME NEW to \in ScalarEnds(vt, b, p, e)
        PROVE  to \in UnknownEnds(0, b, p, e)
    <3>1. PICK r \in VarintReads(b, p, e, Accepts(vt)) : to = r[1] /\ to \in p..e
      BY <1>1, <2>2 DEF ScalarEnds
    <3>2. r \in VarintReads(b, p, e, U64)
      BY <1>1, <3>1, AcceptsU64 DEF VarintReads
    <3> QED  BY <3>1, <3>2 DEF UnknownEnds
  <2>3. ASSUME ~ScalarPanics(vt, b, p, e), NEW n \in UnknownEnds(0, b, p, e)
        PROVE  n \in ScalarEnds(vt, b, p, e)
    <3>1. PICK r \in VarintReads(b, p, e, U64) : n = r[1] /\ n \in p..e
      BY <2>3 DEF UnknownEnds
    <3>2. ~VarintPanics(b, p, e, Accepts(vt))
      BY <1>1, <2>3 DEF ScalarPanics
    <3>3. r \in VarintReads(b, p, e, Accepts(vt))
      BY <3>2 DEF VarintReads, VarintPanics
    <3> QED  BY <1>1, <3>1, <3>3 DEF ScalarEnds
  <2> QED  BY <2>1, <2>2, <2>3, OneEnd
<1>2. CASE vt \in BlobTypes
  <2>1. WireTypeOf(vt) = 2
    BY <1>2 DEF WireTypeOf
  <2>2. ASSUME NEW to \in ScalarEnds(vt, b, p, e)
        PROVE  UnknownEnds(2, b, p, e) = {to}
    <3>1. PICK x \in Payloads(b, p, e) : to = x[2]
      BY <1>2, <2>2 DEF ScalarEnds
    <3> QED  BY <3>1, PayloadEnds
  <2>3. ScalarEnds(vt, b, p, e) = {} => Payloads(b, p, e) = {}
    <3>1. \A x \in Payloads(b, p, e) : x[2] \in p..e
      BY PayloadsBounds
    <3> QED  BY <1>2, <3>1 DEF ScalarEnds
  <2> QED  BY <2>1, <2>2, <2>3, PayloadEnds
<1>3. CASE vt \in Fixed64Types \cup Fixed32Types
  <2>1. /\ vt \in Fixed64Types => WireTypeOf(vt) = 1
        /\ vt \in Fixed32Types => WireTypeOf(vt) = 5
    BY DEF WireTypeOf
  <2>2. UnknownEnds(WireTypeOf(vt), b, p, e) = ScalarEnds(vt, b, p, e)
    BY <1>3, <2>1 DEF UnknownEnds, ScalarEnds
  <2>3. WireTypeOf(vt) \in 0..7
    BY <1>3, <2>1
  <2> QED  BY <2>2, <2>3, OneEnd
<1> QED  BY <1>1, <1>2, <1>3 DEF ScalarTypes

-----------------------------------------------------------------------------
(* The innermost call and the steps it takes *)

Inv == TypeOK /\ Calls

\* While decode runs there is an innermost call, with a message and a cursor in it.
LEMMA TopFacts ==
    ASSUME Inv, Running
    PROVE  /\ Len(stack) \in Nat /\ Len(stack) > 0 /\ Len(stack) \in Depths
           /\ Top \in Frame /\ Top.pos \in Nat
           /\ Top.box \in Boxes /\ Len(msgs) \in Nat
           /\ Value \in MessageValue /\ Value.msg \in Messages
           /\ End \in Nat /\ Top.pos <= End /\ Value.lo <= Top.pos
           /\ Value.garbage = End
<1>1. Len(stack) \in Nat /\ Len(stack) > 0 /\ Len(stack) \in Depths /\ Len(msgs) \in Nat
  BY DEF Inv, TypeOK, Calls, Running, Depths
<1>2. Top \in Frame
  BY <1>1 DEF Inv, TypeOK, Top, Depths
<1>3. Top.box \in Boxes /\ Top.pos \in Nat
  BY <1>1, <1>2 DEF Inv, Calls, Top, Frame
<1>4. Value \in MessageValue
  BY <1>1, <1>3 DEF Inv, TypeOK, Boxes, Value
<1>5. Value.msg \in Messages /\ End \in Nat
  BY <1>4 DEF MessageValue, End
<1>6. Top.pos <= End /\ Value.lo <= Top.pos /\ Value.garbage = End
  BY <1>1 DEF Inv, Calls, Top, Value, End
<1> QED  BY <1>1, <1>2, <1>3, <1>4, <1>5, <1>6

\* A tag moves the cursor forward, and names a decoder and a type.
LEMMA TagFacts ==
    ASSUME Inv, Running, NEW t \in Tags
    PROVE  /\ t[1] \in Nat /\ Top.pos < t[1] /\ t[1] <= End
           /\ Number(t[2]) \in Nat /\ WireType(t[2]) \in 0..7
           /\ Origin(t[2]) \in Origins
           /\ TypeOfTag(t[2]) \in ValueTypes
<1>1. t[1] \in Nat /\ Top.pos < t[1] /\ t[1] <= End /\ t[2] \in Nat
  BY TopFacts, VarintReadsBounds DEF Tags, U64
<1>2. Number(t[2]) \in Nat /\ WireType(t[2]) \in 0..7
  BY <1>1 DEF Number, WireType
<1>3. Origin(t[2]) \in Origins
  BY DEF Origin, Origins
<1>4. ASSUME Origin(t[2]) # "unknown"
      PROVE  Fields[Number(t[2])].type \in ValueTypes
  <2>1. Number(t[2]) \in DOMAIN Schema[Value.msg]
    BY <1>4 DEF Origin, Fields
  <2>2. Fields[Number(t[2])] \in FieldTypes
    BY <2>1, TopFacts, DecodeAssumption DEF DecodeAssumption, Fields
  <2> QED  BY <2>2 DEF FieldTypes
<1>5. TypeOfTag(t[2]) \in ValueTypes
  BY <1>4 DEF TypeOfTag, ValueTypes, ScalarTypes, BlobTypes
<1> QED  BY <1>1, <1>2, <1>3, <1>5

\* The FieldValue of a tag spans from the tag to the end it is given.
LEMMA FieldFacts ==
    ASSUME Inv, Running, NEW t \in Tags,
           NEW kind \in Kinds, NEW to \in Nat, NEW box \in Nat
    PROVE  LET f == Field(t[1], t[2], kind, to, box)
           IN  /\ f \in FieldValue
               /\ f.from = Top.pos /\ f.at = t[1] /\ f.to = to
               /\ f.kind = kind /\ f.origin = Origin(t[2]) /\ f.box = box
BY TopFacts, TagFacts DEF Field, FieldValue

\* The wire type of a tag is the one of the value it leads to.
LEMMA OriginFacts ==
    ASSUME Inv, Running, NEW t \in Tags
    PROVE  /\ Origin(t[2]) = "value" => WireTypeOf(TypeOfTag(t[2])) = WireType(t[2])
           /\ Origin(t[2]) = "packed" => WireType(t[2]) = 2
BY DEF Origin, TypeOfTag

-----------------------------------------------------------------------------
(* What is read right *)

\* The field encodes with the tag it was read from.
KeepsTag(b, f, hi) ==
    \E t \in VarintReads(b, f.from, hi, U64) :
        t = <<f.at, WireTypeOfValue(f) + 8 * f.number>>

\* A reader without the schema ends the field where it ends.
Framed(b, f, hi) ==
    LET ends == UnknownEnds(f.wire, b, f.at, hi)
    IN  /\ f.kind # "Incomplete" => ends = {f.to}
        /\ f.kind = "Incomplete" /\ f.origin # "packed" => ends = {}

\* The function that decodes the value behind a tag in a message of type m, and
\* the type it decodes it as.
OriginOf(m, tag) ==
    IF Number(tag) \notin DOMAIN Schema[m] THEN "unknown"
    ELSE LET d == Schema[m][Number(tag)]
         IN  IF d.packed THEN (IF WireType(tag) = 2 THEN "packed" ELSE "unknown")
             ELSE IF WireTypeOf(d.type) = WireType(tag) THEN "value" ELSE "unknown"

TypeOf(m, tag) ==
    IF OriginOf(m, tag) = "unknown" THEN "Bytes" ELSE Schema[m][Number(tag)].type

\* The slice (p, e] does not hold the value that the function org reads in it.
Short(org, vt, w, b, p, e) ==
    \/ /\ org = "value" /\ vt = "Message"
       /\ ~VarintPanics(b, p, e, U64) /\ Payloads(b, p, e) = {}
    \/ /\ org = "value" /\ vt # "Message"
       /\ ~ScalarPanics(vt, b, p, e) /\ ScalarEnds(vt, b, p, e) = {}
    \/ /\ org = "packed" /\ ~VarintPanics(b, p, e, U64)
       /\ \/ Payloads(b, p, e) = {}
          \/ \E q \in Payloads(b, p, e) :
                ~PackedPanics(vt, b, q[1], q[2]) /\ ~PackedWhole(vt, b, q[1], q[2])
    \/ /\ org = "unknown"
       /\ ~UnknownPanics(w, b, p, e) /\ UnknownEnds(w, b, p, e) = {}

\* What its decoder found behind the tag of f, in a slice that ends at hi.
Found(b, f, hi) ==
    /\ f.kind = "Typed" => /\ f.origin = "value" /\ f.type # "Message"
                           /\ ~ScalarPanics(f.type, b, f.at, hi)
                           /\ f.to \in ScalarEnds(f.type, b, f.at, hi)
    /\ f.kind = "Message" => /\ f.origin = "value" /\ f.type = "Message"
                             /\ \E q \in Payloads(b, f.at, hi) : q[2] = f.to
    /\ f.kind = "Packed" => /\ f.origin = "packed"
                            /\ \E q \in Payloads(b, f.at, hi) :
                                  /\ q[2] = f.to
                                  /\ ~PackedPanics(f.type, b, q[1], q[2])
                                  /\ PackedWhole(f.type, b, q[1], q[2])
    /\ f.kind \in {"Unknown", "Invalid"} =>
          /\ f.origin = "unknown" /\ (f.kind = "Unknown" <=> f.wire \in {0, 1, 2, 5})
          /\ ~UnknownPanics(f.wire, b, f.at, hi)
          /\ f.to \in UnknownEnds(f.wire, b, f.at, hi)
    /\ f.kind = "Incomplete" => /\ f.to = hi
                                /\ Short(f.origin, f.type, f.wire, b, f.at, hi)

\* The field is what the decoder its tag leads to makes of the bytes.
Made(b, f, m, hi) ==
    /\ f.origin = OriginOf(m, f.wire + 8 * f.number)
    /\ f.type = TypeOf(m, f.wire + 8 * f.number)
    /\ Found(b, f, hi)

WellRead(b, f, m, hi) == KeepsTag(b, f, hi) /\ Framed(b, f, hi) /\ Made(b, f, m, hi)

\* The field of a tag is well read if its kind goes with the decoder and its end
\* with the wire type.
LEMMA FieldWellRead ==
    ASSUME Inv, Running, NEW t \in Tags,
           NEW kind \in Kinds, NEW to \in Nat, NEW box \in Nat,
           Found(buf, Field(t[1], t[2], kind, to, box), End),
           kind # "Incomplete" => UnknownEnds(WireType(t[2]), buf, t[1], End) = {to},
           kind = "Incomplete" /\ Origin(t[2]) # "packed"
             => UnknownEnds(WireType(t[2]), buf, t[1], End) = {}
    PROVE  WellRead(buf, Field(t[1], t[2], kind, to, box), Value.msg, End)
<1> DEFINE f == Field(t[1], t[2], kind, to, box)
<1>1. /\ f.number = Number(t[2]) /\ f.wire = WireType(t[2]) /\ f.kind = kind
      /\ f.type = TypeOfTag(t[2]) /\ f.origin = Origin(t[2])
      /\ f.from = Top.pos /\ f.at = t[1] /\ f.to = to
  BY DEF Field
<1> HIDE DEF f
<1>2. WireTypeOfValue(f) = WireType(t[2])
  <2>1. WireTypeOf("Message") = 2
    BY DEF WireTypeOf, VarintTypes, Fixed64Types, Fixed32Types, BlobTypes
  <2>2. /\ kind = "Typed" => Origin(t[2]) = "value"
        /\ kind = "Packed" => Origin(t[2]) = "packed"
        /\ kind = "Message" => Origin(t[2]) = "value" /\ TypeOfTag(t[2]) = "Message"
    BY <1>1 DEF Found, f
  <2> QED  BY <1>1, <2>1, <2>2, OriginFacts DEF WireTypeOfValue, Kinds
<1>3. t = <<t[1], t[2]>> /\ t[2] \in Nat
  BY DEF Tags, VarintReads, U64
<1>4. t[2] = WireType(t[2]) + 8 * Number(t[2])
  BY <1>3 DEF WireType, Number
<1>5. KeepsTag(buf, f, End)
  BY <1>1, <1>2, <1>3, <1>4 DEF KeepsTag, Tags
<1>6. Framed(buf, f, End)
  BY <1>1 DEF Framed
<1>7. Made(buf, f, Value.msg, End)
  <2>1. f.wire + 8 * f.number = t[2]
    BY <1>1, <1>4
  <2>2. Origin(t[2]) = OriginOf(Value.msg, t[2])
    BY DEF Origin, OriginOf, Fields
  <2>3. TypeOfTag(t[2]) = TypeOf(Value.msg, t[2])
    BY <2>2 DEF TypeOfTag, TypeOf, Fields
  <2>4. Found(buf, f, End)
    BY DEF f
  <2> QED  BY <1>1, <2>1, <2>2, <2>3, <2>4 DEF Made
<1> QED  BY <1>5, <1>6, <1>7 DEF WellRead, f

-----------------------------------------------------------------------------
(* Every step has one of four shapes *)

\* A field is pushed that covers the bytes the cursor passes.
PushStep ==
    \E f \in FieldValue, pos \in Nat :
        /\ f.from = Top.pos /\ Top.pos < pos /\ pos <= f.to /\ f.to <= End
        /\ pos = f.to \/ DecodedAgain(buf, f)
        /\ f.kind # "Message" /\ f.box = NoBox
        /\ WellRead(buf, f, Value.msg, End)
        /\ Push(f, pos)

\* A call that begins: f is the field it will hand back, lo the start of its slice.
Enter(f, lo, m) ==
    /\ msgs' = Append(msgs, NewMessage(m, lo, f.to))
    /\ stack' = Append([stack EXCEPT ![Len(stack)].pos = f.to],
                       [box |-> Len(msgs) + 1, pos |-> lo, ret |-> <<f>>])
    /\ UNCHANGED <<buf, status>>

\* A call begins on bytes the cursor passes.
EnterStep ==
    \E f \in FieldValue, lo \in Nat, m \in Messages :
        /\ f.from = Top.pos /\ Top.pos < lo /\ lo <= f.to /\ f.to <= End
        /\ f.kind = "Message" /\ f.box = Len(msgs) + 1 /\ f.at < lo
        /\ <<lo, f.to>> \in Payloads(buf, f.at, End)
        /\ m = Schema[Value.msg][f.number].ref
        /\ WellRead(buf, f, Value.msg, End)
        /\ Enter(f, lo, m)

\* The innermost call ends with the rest of its slice as garbage.
ReturnStep ==
    /\ Top.pos = End \/ VarintEnds(buf, Top.pos, End) = {}
    /\ Return([msgs EXCEPT ![Top.box].garbage = Top.pos])

PanicStep == Top.pos < End /\ Panics /\ status' = "panicked" /\ UNCHANGED <<buf, msgs, stack>>

\* The field that a PushStep pushes is the field of a tag.
LEMMA PushOfTag ==
    ASSUME Inv, Running, NEW t \in Tags, NEW kind \in Kinds,
           NEW pos \in Nat, NEW to \in Nat, t[1] <= pos, pos <= to, to <= End,
           pos = to \/ DecodedAgain(buf, Field(t[1], t[2], kind, to, NoBox)),
           kind # "Message",
           WellRead(buf, Field(t[1], t[2], kind, to, NoBox), Value.msg, End),
           Push(Field(t[1], t[2], kind, to, NoBox), pos)
    PROVE  PushStep
<1> DEFINE f == Field(t[1], t[2], kind, to, NoBox)
<1>1. /\ f \in FieldValue /\ f.from = Top.pos /\ f.to = to
      /\ f.kind = kind /\ f.origin = Origin(t[2]) /\ f.box = NoBox
  BY FieldFacts DEF NoBox
<1>2. Top.pos < pos
  BY TagFacts, TopFacts
<1> HIDE DEF f
<1>3. Push(f, pos) /\ WellRead(buf, f, Value.msg, End) /\ (pos = to \/ DecodedAgain(buf, f))
  BY DEF f
<1> QED  BY <1>1, <1>2, <1>3 DEF PushStep

LEMMA StepShapes ==
    ASSUME Inv, Next
    PROVE  Running /\ (PushStep \/ EnterStep \/ ReturnStep \/ PanicStep)
<1> USE DEF Kinds
<1>1. CASE DecodeScalar
  <2>1. PICK t, to : /\ t \in Tags /\ to \in ScalarEnds(TypeOfTag(t[2]), buf, t[1], End)
                        /\ ~ScalarPanics(TypeOfTag(t[2]), buf, t[1], End)
                        /\ Origin(t[2]) = "value" /\ TypeOfTag(t[2]) # "Message"
                        /\ Push(Field(t[1], t[2], "Typed", to, NoBox), to)
    BY <1>1 DEF DecodeScalar
  <2>2. Running /\ to \in Nat /\ t[1] <= to /\ to <= End
    BY <1>1, <2>1, TagFacts, TopFacts DEF DecodeScalar, ScalarEnds
  <2>3. WellRead(buf, Field(t[1], t[2], "Typed", to, NoBox), Value.msg, End)
    <3>1. /\ TypeOfTag(t[2]) \in ScalarTypes /\ t[1] \in Nat /\ End \in Nat
          /\ WireTypeOf(TypeOfTag(t[2])) = WireType(t[2])
      BY <2>1, <2>2, TagFacts, TopFacts, OriginFacts DEF ValueTypes
    <3>2. UnknownEnds(WireType(t[2]), buf, t[1], End) = {to}
      BY <2>1, <3>1, ScalarEndsAgree
    <3>3. Found(buf, Field(t[1], t[2], "Typed", to, NoBox), End)
      BY <2>1 DEF Found, Field
    <3> QED  BY <2>1, <2>2, <3>2, <3>3, FieldWellRead DEF NoBox
  <2> QED  BY <2>1, <2>2, <2>3, PushOfTag
<1>2. CASE EnterMessage
  <2>1. PICK t, p :
          /\ t \in Tags /\ p \in Payloads(buf, t[1], End)
          /\ LET box   == Len(msgs) + 1
                 field == Field(t[1], t[2], "Message", p[2], box)
             IN  /\ Origin(t[2]) = "value" /\ TypeOfTag(t[2]) = "Message"
                 /\ msgs' = Append(msgs, NewMessage(Fields[Number(t[2])].ref, p[1], p[2]))
                 /\ stack' = Append([stack EXCEPT ![Len(stack)].pos = p[2]],
                                    [box |-> box, pos |-> p[1], ret |-> <<field>>])
    BY <1>2 DEF EnterMessage
  <2>2. Running /\ UNCHANGED <<buf, status>>
    BY <1>2 DEF EnterMessage
  <2>3. t[1] \in Nat /\ Top.pos < t[1] /\ End \in Nat /\ Top.pos \in Nat
    BY <2>1, <2>2, TagFacts, TopFacts
  <2>4. p[1] \in Nat /\ t[1] < p[1] /\ p[2] \in Nat /\ p[1] <= p[2] /\ p[2] <= End
    BY <2>1, <2>3, PayloadsBounds
  <2> DEFINE f == Field(t[1], t[2], "Message", p[2], Len(msgs) + 1)
             m == Fields[Number(t[2])].ref
  <2>5. /\ f \in FieldValue /\ f.from = Top.pos /\ f.to = p[2]
        /\ f.kind = "Message" /\ f.box = Len(msgs) + 1 /\ f.at = t[1]
        /\ f.number = Number(t[2])
        /\ <<p[1], f.to>> \in Payloads(buf, f.at, End)
        /\ WellRead(buf, f, Value.msg, End)
    <3>1. Len(msgs) + 1 \in Nat /\ "Message" \in Kinds
      BY <2>2, TopFacts
    <3>2. t \in Tags /\ Running /\ p[2] \in Nat
      BY <2>1, <2>2, <2>4
    <3>3. UnknownEnds(WireType(t[2]), buf, t[1], End) = {p[2]}
      <4>1. WireType(t[2]) = 2
        BY <2>1, <3>2, OriginFacts
           DEF WireTypeOf, VarintTypes, Fixed64Types, Fixed32Types, BlobTypes
      <4> QED  BY <2>1, <2>3, <4>1, PayloadEnds
    <3>4. WellRead(buf, f, Value.msg, End)
      <4>1. Found(buf, f, End)
        BY <2>1 DEF Found, Field
      <4> QED  BY <2>1, <3>1, <3>2, <3>3, <4>1, FieldWellRead
    <3>5. f.number = Number(t[2]) /\ f.at = t[1] /\ f.to = p[2]
      BY DEF Field
    <3>6. p = <<p[1], p[2]>>
      BY <2>1 DEF Payloads
    <3>7. <<p[1], f.to>> \in Payloads(buf, f.at, End)
      BY <2>1, <3>5, <3>6
    <3> QED  BY <2>1, <3>1, <3>2, <3>4, <3>5, <3>7, FieldFacts
  <2>6. m \in Messages
    <3>1. Number(t[2]) \in DOMAIN Schema[Value.msg]
      BY <2>1 DEF Origin, Fields
    <3>2. Fields[Number(t[2])] \in FieldTypes
      BY <2>2, <3>1, TopFacts, DecodeAssumption DEF DecodeAssumption, Fields
    <3> QED  BY <3>2 DEF FieldTypes
  <2>7. /\ msgs' = Append(msgs, NewMessage(m, p[1], p[2]))
        /\ stack' = Append([stack EXCEPT ![Len(stack)].pos = p[2]],
                           [box |-> Len(msgs) + 1, pos |-> p[1], ret |-> <<f>>])
        /\ m = Schema[Value.msg][f.number].ref
    BY <2>1, <2>5 DEF Fields
  <2> HIDE DEF f, m
  <2>8. Top.pos < p[1]
    BY <2>3, <2>4
  <2> QED  BY <2>2, <2>4, <2>5, <2>6, <2>7, <2>8 DEF EnterStep, Enter
<1>3. CASE TruncatedValue
  <2>1. PICK t \in Tags :
          /\ Origin(t[2]) = "value"
          /\ IF TypeOfTag(t[2]) = "Message"
             THEN ~VarintPanics(buf, t[1], End, U64) /\ Payloads(buf, t[1], End) = {}
             ELSE /\ ~ScalarPanics(TypeOfTag(t[2]), buf, t[1], End)
                  /\ ScalarEnds(TypeOfTag(t[2]), buf, t[1], End) = {}
          /\ Push(Field(t[1], t[2], "Incomplete", End, NoBox), End)
    BY <1>3 DEF TruncatedValue
  <2>2. Running /\ End \in Nat /\ t[1] \in Nat /\ t[1] <= End
    BY <1>3, TagFacts, TopFacts DEF TruncatedValue
  <2>3. UnknownEnds(WireType(t[2]), buf, t[1], End) = {}
    <3>1. WireTypeOf(TypeOfTag(t[2])) = WireType(t[2])
      BY <2>1, <2>2, OriginFacts
    <3>2. CASE TypeOfTag(t[2]) = "Message"
      <4>1. WireType(t[2]) = 2
        BY <3>1, <3>2 DEF WireTypeOf, VarintTypes, Fixed64Types, Fixed32Types, BlobTypes
      <4> QED  BY <2>1, <2>2, <3>2, <4>1, PayloadEnds
    <3>3. CASE TypeOfTag(t[2]) # "Message"
      <4>1. TypeOfTag(t[2]) \in ScalarTypes
        BY <2>2, <3>3, TagFacts DEF ValueTypes
      <4> QED  BY <2>1, <2>2, <3>1, <3>3, <4>1, ScalarEndsAgree
    <3> QED  BY <3>2, <3>3
  <2>4. Found(buf, Field(t[1], t[2], "Incomplete", End, NoBox), End)
    BY <2>1 DEF Found, Short, Field
  <2>5. WellRead(buf, Field(t[1], t[2], "Incomplete", End, NoBox), Value.msg, End)
    BY <2>1, <2>2, <2>3, <2>4, FieldWellRead DEF NoBox
  <2> QED  BY <2>1, <2>2, <2>5, PushOfTag
<1>4. CASE DecodePacked
  <2>1. PICK t, p : /\ t \in Tags /\ p \in Payloads(buf, t[1], End)
                       /\ Origin(t[2]) = "packed"
                       /\ ~PackedPanics(TypeOfTag(t[2]), buf, p[1], p[2])
                       /\ PackedWhole(TypeOfTag(t[2]), buf, p[1], p[2])
                       /\ Push(Field(t[1], t[2], "Packed", p[2], NoBox), p[2])
    BY <1>4 DEF DecodePacked
  <2>2. Running /\ t[1] \in Nat /\ End \in Nat
    BY <1>4, <2>1, TagFacts, TopFacts DEF DecodePacked
  <2>3. p[2] \in Nat /\ t[1] <= p[2] /\ p[2] <= End
    BY <2>1, <2>2, PayloadsBounds
  <2>4. UnknownEnds(WireType(t[2]), buf, t[1], End) = {p[2]}
    BY <2>1, <2>2, OriginFacts, PayloadEnds
  <2>5. Found(buf, Field(t[1], t[2], "Packed", p[2], NoBox), End)
    BY <2>1 DEF Found, Field
  <2>6. WellRead(buf, Field(t[1], t[2], "Packed", p[2], NoBox), Value.msg, End)
    BY <2>1, <2>2, <2>3, <2>4, <2>5, FieldWellRead DEF NoBox
  <2> QED  BY <2>1, <2>2, <2>3, <2>6, PushOfTag
<1>5. CASE TruncatedPacked
  <2>1. PICK t \in Tags : /\ Origin(t[2]) = "packed"
                          /\ ~VarintPanics(buf, t[1], End, U64)
                          /\ Payloads(buf, t[1], End) = {}
                          /\ Push(Field(t[1], t[2], "Incomplete", End, NoBox), End)
    BY <1>5 DEF TruncatedPacked
  <2>2. Running /\ End \in Nat /\ t[1] <= End
    BY <1>5, TagFacts, TopFacts DEF TruncatedPacked
  <2>3. Found(buf, Field(t[1], t[2], "Incomplete", End, NoBox), End)
    BY <2>1 DEF Found, Short, Field
  <2>4. WellRead(buf, Field(t[1], t[2], "Incomplete", End, NoBox), Value.msg, End)
    BY <2>1, <2>2, <2>3, FieldWellRead DEF NoBox, Field
  <2> QED  BY <2>1, <2>2, <2>4, PushOfTag
<1>6. CASE TruncatedElement
  <2>1. PICK t, p :
          /\ t \in Tags /\ p \in Payloads(buf, t[1], End)
          /\ Origin(t[2]) = "packed"
          /\ ~PackedPanics(TypeOfTag(t[2]), buf, p[1], p[2])
          /\ ~PackedWhole(TypeOfTag(t[2]), buf, p[1], p[2])
          /\ Push(Field(t[1], t[2], "Incomplete", End, NoBox), p[2])
    BY <1>6 DEF TruncatedElement
  <2>2. Running /\ t[1] \in Nat /\ End \in Nat
    BY <1>6, <2>1, TagFacts, TopFacts DEF TruncatedElement
  <2>3. p[2] \in Nat /\ t[1] <= p[2] /\ p[2] <= End
    BY <2>1, <2>2, PayloadsBounds
  <2>4. WellRead(buf, Field(t[1], t[2], "Incomplete", End, NoBox), Value.msg, End)
    <3>1. ~VarintPanics(buf, t[1], End, U64)
      BY <2>1, <2>2, PayloadReads
    <3>2. Found(buf, Field(t[1], t[2], "Incomplete", End, NoBox), End)
      BY <2>1, <3>1 DEF Found, Short, Field
    <3> QED  BY <2>1, <2>2, <3>2, FieldWellRead DEF NoBox
  <2>5. p[2] = End \/ DecodedAgain(buf, Field(t[1], t[2], "Incomplete", End, NoBox))
    BY <2>1, <2>2, <2>3 DEF DecodedAgain, Field
  <2> QED  BY <2>1, <2>2, <2>3, <2>4, <2>5, PushOfTag
<1>7. CASE DecodeUnknown
  <2>1. PICK t, to :
          /\ t \in Tags /\ to \in UnknownEnds(WireType(t[2]), buf, t[1], End)
          /\ Origin(t[2]) = "unknown" /\ ~UnknownPanics(WireType(t[2]), buf, t[1], End)
          /\ LET kind == IF WireType(t[2]) \in {0, 1, 2, 5} THEN "Unknown" ELSE "Invalid"
             IN  Push(Field(t[1], t[2], kind, to, NoBox), to)
    BY <1>7 DEF DecodeUnknown
  <2>2. Running /\ to \in Nat /\ t[1] <= to /\ to <= End
    BY <1>7, <2>1, TagFacts, TopFacts DEF DecodeUnknown, UnknownEnds
  <2> DEFINE kind == IF WireType(t[2]) \in {0, 1, 2, 5} THEN "Unknown" ELSE "Invalid"
  <2>3. /\ kind \in {"Unknown", "Invalid"} /\ (kind = "Unknown" <=> WireType(t[2]) \in {0, 1, 2, 5})
        /\ Push(Field(t[1], t[2], kind, to, NoBox), to)
    BY <2>1
  <2> HIDE DEF kind
  <2>4. UnknownEnds(WireType(t[2]), buf, t[1], End) = {to}
    BY <2>1, <2>2, TagFacts, TopFacts, OneEnd
  <2>5. Found(buf, Field(t[1], t[2], kind, to, NoBox), End)
    BY <2>1, <2>3 DEF Found, Field
  <2>6. WellRead(buf, Field(t[1], t[2], kind, to, NoBox), Value.msg, End)
    BY <2>1, <2>2, <2>3, <2>4, <2>5, FieldWellRead DEF NoBox
  <2> QED  BY <2>1, <2>2, <2>3, <2>6, PushOfTag
<1>8. CASE TruncatedUnknown
  <2>1. PICK t \in Tags : /\ Origin(t[2]) = "unknown"
                          /\ ~UnknownPanics(WireType(t[2]), buf, t[1], End)
                          /\ UnknownEnds(WireType(t[2]), buf, t[1], End) = {}
                          /\ Push(Field(t[1], t[2], "Incomplete", End, NoBox), t[1])
    BY <1>8 DEF TruncatedUnknown
  <2>2. Running /\ End \in Nat /\ t[1] \in Nat /\ t[1] <= End
    BY <1>8, TagFacts, TopFacts DEF TruncatedUnknown
  <2>3. Found(buf, Field(t[1], t[2], "Incomplete", End, NoBox), End)
    BY <2>1 DEF Found, Short, Field
  <2>4. WellRead(buf, Field(t[1], t[2], "Incomplete", End, NoBox), Value.msg, End)
    BY <2>1, <2>2, <2>3, FieldWellRead DEF NoBox
  <2>5. t[1] = End \/ DecodedAgain(buf, Field(t[1], t[2], "Incomplete", End, NoBox))
    BY <2>1, <2>2 DEF DecodedAgain, Field
  <2> QED  BY <2>1, <2>2, <2>4, <2>5, PushOfTag
<1>9. CASE EndOfMessage
  <2>1. Running /\ Top.pos = End /\ Return(msgs)
    BY <1>9 DEF EndOfMessage
  <2>2. msgs = [msgs EXCEPT ![Top.box].garbage = Top.pos]
    <3>1. msgs \in Seq(MessageValue) /\ Top.box \in 1..Len(msgs)
      BY <2>1, TopFacts DEF Inv, TypeOK, Boxes
    <3>2. msgs[Top.box] \in MessageValue /\ msgs[Top.box].garbage = Top.pos
      BY <2>1, TopFacts DEF Value
    <3>3. msgs[Top.box] = [msgs[Top.box] EXCEPT !.garbage = Top.pos]
      BY <3>2 DEF MessageValue
    <3>4. msgs = [i \in 1..Len(msgs) |-> msgs[i]]
      BY <3>1
    <3> QED  BY <3>1, <3>3, <3>4
  <2> QED  BY <2>1, <2>2 DEF ReturnStep
<1>10. CASE Garbage
  BY <1>10 DEF Garbage, ReturnStep
<1>11. CASE Panic
  BY <1>11 DEF Panic, PanicStep
<1> QED
  BY <1>1, <1>2, <1>3, <1>4, <1>5, <1>6, <1>7, <1>8, <1>9, <1>10, <1>11 DEF Next

-----------------------------------------------------------------------------
(* What the steps do to the messages and the calls *)

\* Replacing an element of a sequence.
LEMMA ExceptSeq ==
    ASSUME NEW S, NEW s \in Seq(S), NEW i \in 1..Len(s), NEW x \in S
    PROVE  LET t == [s EXCEPT ![i] = x]
           IN  /\ t \in Seq(S) /\ Len(t) = Len(s) /\ t[i] = x
               /\ \A j \in 1..Len(s) : j # i => t[j] = s[j]
OBVIOUS

LEMMA AppendOne ==
    ASSUME NEW S, NEW s \in Seq(S), NEW x \in S
    PROVE  s \o <<x>> = Append(s, x) /\ Append(s, x) \in Seq(S)
OBVIOUS

\* A message seen by its slice, type and garbage: everything but its fields.
SameSlice(m, n) ==
    m.msg = n.msg /\ m.lo = n.lo /\ m.hi = n.hi /\ m.garbage = n.garbage

LEMMA PushEffect ==
    ASSUME Inv, Running, NEW f \in FieldValue, NEW pos \in Nat, Push(f, pos)
    PROVE  /\ msgs' \in Seq(MessageValue) /\ Len(msgs') = Len(msgs)
           /\ stack' \in Seq(Frame) /\ Len(stack') = Len(stack)
           /\ \A b \in Boxes : SameSlice(msgs'[b], msgs[b])
           /\ \A b \in Boxes : b # Top.box => msgs'[b] = msgs[b]
           /\ msgs'[Top.box].fields = Append(Value.fields, f)
           /\ \A i \in Depths : /\ stack'[i].box = stack[i].box
                                /\ stack'[i].ret = stack[i].ret
                                /\ i # Len(stack) => stack'[i] = stack[i]
           /\ stack'[Len(stack)].pos = pos
           /\ buf' = buf /\ status' = status
<1> DEFINE B == Top.box
           L == Len(stack)
           m == [msgs[B] EXCEPT !.fields = Append(msgs[B].fields, f)]
           c == [stack[L] EXCEPT !.pos = pos]
<1>1. /\ msgs \in Seq(MessageValue) /\ stack \in Seq(Frame)
      /\ B \in 1..Len(msgs) /\ L \in 1..Len(stack)
      /\ Top = stack[L] /\ Value = msgs[B]
      /\ msgs[B] \in MessageValue /\ stack[L] \in Frame
  BY TopFacts DEF Inv, TypeOK, Boxes, Depths, Top, Value
<1>2. /\ msgs' = [msgs EXCEPT ![B] = m]
      /\ stack' = [stack EXCEPT ![L] = c]
      /\ buf' = buf /\ status' = status
  BY DEF Push
<1> HIDE DEF B, L
<1>3. /\ m \in MessageValue /\ SameSlice(m, msgs[B])
      /\ m.fields = Append(msgs[B].fields, f)
  <2>1. Append(msgs[B].fields, f) \in Seq(FieldValue)
    BY <1>1 DEF MessageValue
  <2> QED  BY <1>1, <2>1 DEF MessageValue, SameSlice
<1>4. c \in Frame /\ c.box = stack[L].box /\ c.ret = stack[L].ret /\ c.pos = pos
  BY <1>1 DEF Frame
<1> HIDE DEF m, c
<1>5. /\ msgs' \in Seq(MessageValue) /\ Len(msgs') = Len(msgs) /\ msgs'[B] = m
      /\ \A b \in 1..Len(msgs) : b # B => msgs'[b] = msgs[b]
  BY <1>1, <1>2, <1>3, ExceptSeq
<1>6. /\ stack' \in Seq(Frame) /\ Len(stack') = Len(stack) /\ stack'[L] = c
      /\ \A i \in 1..Len(stack) : i # L => stack'[i] = stack[i]
  BY <1>1, <1>2, <1>4, ExceptSeq
<1>7. \A b \in 1..Len(msgs) : SameSlice(msgs'[b], msgs[b])
  BY <1>3, <1>5 DEF SameSlice
<1>8. \A i \in 1..Len(stack) : /\ stack'[i].box = stack[i].box
                               /\ stack'[i].ret = stack[i].ret
                               /\ i # L => stack'[i] = stack[i]
  BY <1>4, <1>6
<1> QED  BY <1>1, <1>2, <1>3, <1>4, <1>5, <1>6, <1>7, <1>8 DEF B, L, Boxes, Depths

LEMMA PushKeepsInv ==
    ASSUME Inv, Running, PushStep
    PROVE  Inv'
<1>1. PICK f \in FieldValue, pos \in Nat :
        /\ f.from = Top.pos /\ Top.pos < pos /\ pos <= f.to /\ f.to <= End
        /\ Push(f, pos)
  BY DEF PushStep
<1>2. /\ msgs' \in Seq(MessageValue) /\ Len(msgs') = Len(msgs)
      /\ stack' \in Seq(Frame) /\ Len(stack') = Len(stack)
      /\ \A b \in Boxes : SameSlice(msgs'[b], msgs[b])
      /\ \A i \in Depths : /\ stack'[i].box = stack[i].box
                           /\ stack'[i].ret = stack[i].ret
                           /\ i # Len(stack) => stack'[i] = stack[i]
      /\ stack'[Len(stack)].pos = pos
      /\ buf' = buf /\ status' = status
  BY <1>1, PushEffect
<1>3. TypeOK'
  BY <1>2 DEF Inv, TypeOK
<1>4. Boxes' = Boxes /\ Depths' = Depths
  BY <1>2 DEF Boxes, Depths
<1>5. Calls'
  <2>1. (status = "running" => Len(stack) > 0)' /\ (status = "done" => Len(stack) = 0)'
    BY <1>2 DEF Inv, Calls
  <2>2. \A b \in Boxes : msgs'[b].lo <= msgs'[b].garbage /\ msgs'[b].garbage <= msgs'[b].hi
    BY <1>2 DEF Inv, Calls, SameSlice
  <2>3. ASSUME NEW i \in Depths
        PROVE  /\ stack'[i].box \in Boxes
               /\ msgs'[stack'[i].box].lo <= stack'[i].pos
               /\ stack'[i].pos <= msgs'[stack'[i].box].hi
               /\ msgs'[stack'[i].box].garbage = msgs'[stack'[i].box].hi
               /\ i > 1 => Len(stack'[i].ret) = 1
    <3>1. /\ stack[i].box \in Boxes
          /\ msgs[stack[i].box].lo <= stack[i].pos
          /\ stack[i].pos <= msgs[stack[i].box].hi
          /\ msgs[stack[i].box].garbage = msgs[stack[i].box].hi
          /\ i > 1 => Len(stack[i].ret) = 1
      BY DEF Inv, Calls
    <3>2. CASE i # Len(stack)
      BY <1>2, <3>1, <3>2 DEF SameSlice
    <3>3. CASE i = Len(stack)
      <4>1. stack[i] = Top /\ msgs[stack[i].box] = Value /\ stack'[i].pos = pos
        BY <1>2, <3>3 DEF Top, Value
      <4>2. Value.lo <= pos /\ pos <= Value.hi
        BY <1>1, TopFacts DEF End, MessageValue, FieldValue
      <4> QED  BY <1>2, <3>1, <4>1, <4>2 DEF SameSlice
    <3> QED  BY <3>2, <3>3
  <2>4. \A i, j \in Depths : i < j => stack'[i].box < stack'[j].box
    BY <1>2 DEF Inv, Calls
  <2> QED  BY <1>4, <2>1, <2>2, <2>3, <2>4 DEF Calls
<1> QED  BY <1>3, <1>5 DEF Inv

LEMMA EnterEffect ==
    ASSUME Inv, Running, NEW f \in FieldValue, NEW lo \in Nat, NEW m \in Messages,
           Enter(f, lo, m)
    PROVE  LET L == Len(stack)
               N == Len(msgs)
           IN  /\ msgs' \in Seq(MessageValue) /\ Len(msgs') = N + 1
               /\ msgs'[N + 1] = NewMessage(m, lo, f.to)
               /\ \A b \in 1..N : msgs'[b] = msgs[b]
               /\ stack' \in Seq(Frame) /\ Len(stack') = L + 1
               /\ stack'[L + 1] = [box |-> N + 1, pos |-> lo, ret |-> <<f>>]
               /\ \A i \in 1..L : /\ stack'[i].box = stack[i].box
                                  /\ stack'[i].ret = stack[i].ret
                                  /\ i # L => stack'[i] = stack[i]
               /\ stack'[L].pos = f.to
               /\ buf' = buf /\ status' = status
<1> DEFINE L == Len(stack)
           N == Len(msgs)
           v == NewMessage(m, lo, f.to)
           c == [stack[L] EXCEPT !.pos = f.to]
           d == [box |-> N + 1, pos |-> lo, ret |-> <<f>>]
           mid == [stack EXCEPT ![L] = c]
<1>1. /\ msgs \in Seq(MessageValue) /\ stack \in Seq(Frame)
      /\ N \in Nat /\ L \in 1..Len(stack) /\ stack[L] \in Frame /\ f.to \in Nat
  BY TopFacts DEF Inv, TypeOK, Depths, Top, FieldValue
<1>2. v \in MessageValue
  BY <1>1 DEF NewMessage, MessageValue
<1>3. c \in Frame /\ c.box = stack[L].box /\ c.ret = stack[L].ret /\ c.pos = f.to
  BY <1>1 DEF Frame
<1>4. d \in Frame
  BY <1>1 DEF Frame
<1>5. /\ msgs' = Append(msgs, v) /\ stack' = Append(mid, d)
      /\ buf' = buf /\ status' = status
  BY DEF Enter
<1> HIDE DEF v, c, d
<1>6. /\ mid \in Seq(Frame) /\ Len(mid) = L /\ mid[L] = c
      /\ \A i \in 1..L : i # L => mid[i] = stack[i]
  BY <1>1, <1>3, ExceptSeq
<1> HIDE DEF L, N, mid
<1>7. /\ msgs' \in Seq(MessageValue) /\ Len(msgs') = N + 1 /\ msgs'[N + 1] = v
      /\ \A b \in 1..N : msgs'[b] = msgs[b]
  BY <1>1, <1>2, <1>5 DEF N
<1>8. /\ stack' \in Seq(Frame) /\ Len(stack') = L + 1 /\ stack'[L + 1] = d
      /\ \A i \in 1..L : i # L => stack'[i] = stack[i]
      /\ stack'[L] = c
  BY <1>1, <1>4, <1>5, <1>6 DEF L
<1>9. \A i \in 1..L : stack'[i].box = stack[i].box /\ stack'[i].ret = stack[i].ret
  BY <1>3, <1>8
<1> QED  BY <1>3, <1>5, <1>7, <1>8, <1>9 DEF L, N, v, d

LEMMA EnterKeepsInv ==
    ASSUME Inv, Running, EnterStep
    PROVE  Inv'
<1> DEFINE L == Len(stack)
           N == Len(msgs)
<1>1. PICK f \in FieldValue, lo \in Nat, m \in Messages :
        /\ f.from = Top.pos /\ Top.pos < lo /\ lo <= f.to /\ f.to <= End
        /\ Enter(f, lo, m)
  BY DEF EnterStep
<1> DEFINE v == NewMessage(m, lo, f.to)
           d == [box |-> N + 1, pos |-> lo, ret |-> <<f>>]
<1>2. N \in Nat /\ L \in Nat /\ L > 0 /\ f.to \in Nat /\ stack[L] = Top
  BY TopFacts DEF FieldValue, Top
<1>3. v.lo = lo /\ v.hi = f.to /\ v.garbage = f.to
  BY DEF NewMessage
<1>4. d.box = N + 1 /\ d.pos = lo /\ Len(d.ret) = 1
  OBVIOUS
<1>5. /\ msgs' \in Seq(MessageValue) /\ Len(msgs') = N + 1 /\ msgs'[N + 1] = v
      /\ \A b \in 1..N : msgs'[b] = msgs[b]
      /\ buf' = buf /\ status' = status
  BY <1>1, EnterEffect
<1>6. /\ stack' \in Seq(Frame) /\ Len(stack') = L + 1 /\ stack'[L + 1] = d
      /\ \A i \in 1..L : /\ stack'[i].box = stack[i].box
                         /\ stack'[i].ret = stack[i].ret
                         /\ i # L => stack'[i] = stack[i]
      /\ stack'[L].pos = f.to
  BY <1>1, EnterEffect
<1> HIDE DEF v, d
<1>7. TypeOK'
  BY <1>5, <1>6 DEF Inv, TypeOK
<1>8. Boxes' = 1..(N + 1) /\ Depths' = 1..(L + 1) /\ Boxes = 1..N /\ Depths = 1..L
  BY <1>5, <1>6 DEF Boxes, Depths
<1> HIDE DEF L, N
<1>9. Calls'
  <2>1. (status = "running" => Len(stack) > 0)' /\ (status = "done" => Len(stack) = 0)'
    BY <1>2, <1>5, <1>6 DEF Running
  <2>2. \A b \in 1..(N + 1) : msgs'[b].lo <= msgs'[b].garbage /\ msgs'[b].garbage <= msgs'[b].hi
    BY <1>1, <1>2, <1>3, <1>5, <1>8 DEF Inv, Calls
  <2>3. ASSUME NEW i \in 1..(L + 1)
        PROVE  /\ stack'[i].box \in 1..(N + 1)
               /\ msgs'[stack'[i].box].lo <= stack'[i].pos
               /\ stack'[i].pos <= msgs'[stack'[i].box].hi
               /\ msgs'[stack'[i].box].garbage = msgs'[stack'[i].box].hi
               /\ i > 1 => Len(stack'[i].ret) = 1
    <3>1. CASE i = L + 1
      BY <1>1, <1>2, <1>3, <1>4, <1>5, <1>6, <3>1
    <3>2. CASE i \in 1..L
      <4>1. /\ stack[i].box \in 1..N
            /\ msgs[stack[i].box].lo <= stack[i].pos
            /\ stack[i].pos <= msgs[stack[i].box].hi
            /\ msgs[stack[i].box].garbage = msgs[stack[i].box].hi
            /\ i > 1 => Len(stack[i].ret) = 1
        BY <1>8, <3>2 DEF Inv, Calls
      <4>2. CASE i # L
        BY <1>2, <1>5, <1>6, <3>2, <4>1, <4>2
      <4>3. CASE i = L
        <5>1. Value = msgs[stack[L].box] /\ Value.lo \in Nat /\ End = Value.hi
          BY <1>2, TopFacts DEF Value, End, MessageValue
        <5>2. Value.lo <= f.to /\ f.to <= Value.hi
          BY <1>1, <1>2, <5>1, TopFacts
        <5> QED  BY <1>2, <1>5, <1>6, <4>1, <4>3, <5>1, <5>2
      <4> QED  BY <4>2, <4>3
    <3> QED  BY <1>2, <3>1, <3>2
  <2>4. ASSUME NEW i \in 1..(L + 1), NEW j \in 1..(L + 1), i < j
        PROVE  stack'[i].box < stack'[j].box
    <3>1. i \in 1..L /\ stack'[i].box = stack[i].box /\ stack[i].box \in 1..N
      BY <1>2, <1>6, <1>8, <2>4 DEF Inv, Calls
    <3>2. CASE j = L + 1
      BY <1>2, <1>4, <1>6, <3>1, <3>2
    <3>3. CASE j \in 1..L
      BY <1>6, <1>8, <2>4, <3>1, <3>3 DEF Inv, Calls
    <3> QED  BY <1>2, <3>2, <3>3
  <2> QED  BY <1>8, <2>1, <2>2, <2>3, <2>4 DEF Calls
<1> QED  BY <1>7, <1>9 DEF Inv

LEMMA ReturnEffect ==
    ASSUME Inv, Running, ReturnStep
    PROVE  LET L == Len(stack)
           IN  /\ msgs' \in Seq(MessageValue) /\ Len(msgs') = Len(msgs)
               /\ \A b \in Boxes : /\ msgs'[b].msg = msgs[b].msg
                                   /\ msgs'[b].lo = msgs[b].lo /\ msgs'[b].hi = msgs[b].hi
                                   /\ b # Top.box => msgs'[b].garbage = msgs[b].garbage
               /\ msgs'[Top.box].garbage = Top.pos
               /\ \A b \in Boxes : L = 1 \/ b # stack[L-1].box
                                     => msgs'[b].fields = msgs[b].fields
               /\ L > 1 => msgs'[stack[L-1].box].fields
                             = Append(msgs[stack[L-1].box].fields, Top.ret[1])
               /\ L > 1 => Top.ret[1] \in FieldValue /\ stack[L-1].box \in Boxes
                             /\ stack[L-1].box < Top.box
               /\ stack' \in Seq(Frame) /\ Len(stack') = L - 1
               /\ \A i \in 1..(L-1) : stack'[i] = stack[i]
               /\ status' = IF L = 1 THEN "done" ELSE status
               /\ buf' = buf
<1> DEFINE L == Len(stack)
           B == Top.box
           g == [msgs[B] EXCEPT !.garbage = Top.pos]
           mid == [msgs EXCEPT ![B] = g]
<1>1. /\ msgs \in Seq(MessageValue) /\ stack \in Seq(Frame) /\ Top = stack[L]
      /\ L \in Nat /\ L > 0 /\ B \in 1..Len(msgs) /\ Boxes = 1..Len(msgs)
      /\ msgs[B] \in MessageValue /\ Top.pos \in Nat /\ Top \in Frame
  BY TopFacts DEF Inv, TypeOK, Boxes, Top
<1>2. /\ g \in MessageValue /\ g.garbage = Top.pos /\ g.msg = msgs[B].msg
      /\ g.lo = msgs[B].lo /\ g.hi = msgs[B].hi /\ g.fields = msgs[B].fields
  BY <1>1 DEF MessageValue
<1>3. mid = [msgs EXCEPT ![Top.box].garbage = Top.pos]
  OBVIOUS
<1> HIDE DEF g
<1>4. /\ mid \in Seq(MessageValue) /\ Len(mid) = Len(msgs) /\ mid[B] = g
      /\ \A b \in 1..Len(msgs) : b # B => mid[b] = msgs[b]
  BY <1>1, <1>2, ExceptSeq
<1>5. Return(mid)
  BY <1>3 DEF ReturnStep
<1> HIDE DEF L, B, mid
<1>6. CASE L = 1
  <2>1. msgs' = mid /\ stack' = <<>> /\ status' = "done" /\ buf' = buf
    BY <1>5, <1>6 DEF Return, L
  <2>2. stack' \in Seq(Frame) /\ Len(stack') = 0
    BY <2>1
  <2> QED  BY <1>1, <1>2, <1>4, <1>6, <2>1, <2>2, SMTT(30) DEF L, B
<1>7. CASE L > 1
  <2> DEFINE C == stack[L-1].box
             r == Top.ret
             m == [mid[C] EXCEPT !.fields = mid[C].fields \o r]
  <2>1. /\ msgs' = [mid EXCEPT ![C] = m]
        /\ stack' = SubSeq(stack, 1, L - 1)
        /\ status' = status /\ buf' = buf
    BY <1>1, <1>5, <1>7 DEF Return, L
  <2>2. C \in 1..Len(msgs) /\ C < B /\ Len(r) = 1
    <3>1. L \in Depths /\ L - 1 \in Depths
      BY <1>1, <1>7 DEF Depths, L
    <3> QED  BY <1>1, <1>7, <3>1 DEF Inv, Calls, B
  <2>3. r \in Seq(FieldValue) /\ r[1] \in FieldValue /\ r = <<r[1]>>
    BY <1>1, <2>2, SMTT(30) DEF Frame
  <2> HIDE DEF C
  <2>4. mid[C] = msgs[C] /\ mid[C] \in MessageValue /\ C # B
    <3>1. C \in Nat /\ B \in Nat /\ C # B
      BY <1>1, <2>2
    <3> QED  BY <1>1, <1>4, <2>2, <3>1
  <2>5. msgs[C].fields \in Seq(FieldValue)
    BY <2>4 DEF MessageValue
  <2>6. /\ mid[C].fields \o r = Append(msgs[C].fields, r[1])
        /\ Append(msgs[C].fields, r[1]) \in Seq(FieldValue)
    <3> HIDE DEF r
    <3>1. mid[C].fields \o r = msgs[C].fields \o <<r[1]>>
      BY <2>3, <2>4
    <3> QED  BY <2>3, <2>5, <3>1, AppendOne
  <2>7. /\ m \in MessageValue /\ SameSlice(m, msgs[C])
        /\ m.fields = Append(msgs[C].fields, r[1])
    BY <2>4, <2>6 DEF MessageValue, SameSlice
  <2> HIDE DEF r, m
  <2>8. /\ msgs' \in Seq(MessageValue) /\ Len(msgs') = Len(msgs) /\ msgs'[C] = m
        /\ \A b \in 1..Len(msgs) : b # C => msgs'[b] = mid[b]
    BY <1>4, <2>1, <2>2, <2>7, ExceptSeq
  <2>9. /\ stack' \in Seq(Frame) /\ Len(stack') = L - 1
        /\ \A i \in 1..(L-1) : stack'[i] = stack[i]
    BY <1>1, <1>7, <2>1 DEF L
  <2>10. \A b \in 1..Len(msgs) :
            /\ msgs'[b].msg = msgs[b].msg
            /\ msgs'[b].lo = msgs[b].lo /\ msgs'[b].hi = msgs[b].hi
            /\ b # B => msgs'[b].garbage = msgs[b].garbage
            /\ b # C => msgs'[b].fields = msgs[b].fields
    BY <1>2, <1>4, <2>4, <2>7, <2>8 DEF SameSlice
  <2>11. msgs'[B].garbage = Top.pos
    BY <1>1, <1>2, <1>4, <2>4, <2>8
  <2>12. \A b \in Boxes : /\ msgs'[b].msg = msgs[b].msg
                          /\ msgs'[b].lo = msgs[b].lo /\ msgs'[b].hi = msgs[b].hi
                          /\ b # B => msgs'[b].garbage = msgs[b].garbage
    BY <1>1, <2>10
  <2>13. \A b \in Boxes : L = 1 \/ b # C => msgs'[b].fields = msgs[b].fields
    BY <1>1, <1>7, <2>10
  <2>14. msgs'[C].fields = Append(msgs[C].fields, r[1])
    BY <2>7, <2>8
  <2>15. r[1] \in FieldValue /\ C \in Boxes /\ C < B
    BY <1>1, <2>2, <2>3 DEF r
  <2>16. (status' = IF L = 1 THEN "done" ELSE status) /\ buf' = buf
    BY <1>7, <2>1
  <2>17. msgs' \in Seq(MessageValue) /\ Len(msgs') = Len(msgs)
    BY <2>8
  <2>18. /\ msgs' \in Seq(MessageValue) /\ Len(msgs') = Len(msgs)
         /\ \A b \in Boxes : /\ msgs'[b].msg = msgs[b].msg
                             /\ msgs'[b].lo = msgs[b].lo /\ msgs'[b].hi = msgs[b].hi
                             /\ b # B => msgs'[b].garbage = msgs[b].garbage
         /\ msgs'[B].garbage = Top.pos
         /\ \A b \in Boxes : L = 1 \/ b # C => msgs'[b].fields = msgs[b].fields
         /\ L > 1 => msgs'[C].fields = Append(msgs[C].fields, r[1])
         /\ L > 1 => r[1] \in FieldValue /\ C \in Boxes /\ C < B
         /\ stack' \in Seq(Frame) /\ Len(stack') = L - 1
         /\ \A i \in 1..(L-1) : stack'[i] = stack[i]
         /\ status' = IF L = 1 THEN "done" ELSE status
         /\ buf' = buf
    BY <2>9, <2>11, <2>12, <2>13, <2>14, <2>15, <2>16, <2>17
  <2> QED  BY ONLY <2>18 DEF L, B, C, r
<1> QED  BY <1>1, <1>6, <1>7

LEMMA ReturnKeepsInv ==
    ASSUME Inv, Running, ReturnStep
    PROVE  Inv'
<1> DEFINE L == Len(stack)
<1>1. /\ msgs' \in Seq(MessageValue) /\ Len(msgs') = Len(msgs)
      /\ \A b \in Boxes : /\ msgs'[b].lo = msgs[b].lo /\ msgs'[b].hi = msgs[b].hi
                          /\ b # Top.box => msgs'[b].garbage = msgs[b].garbage
      /\ msgs'[Top.box].garbage = Top.pos
      /\ stack' \in Seq(Frame) /\ Len(stack') = L - 1
      /\ \A i \in 1..(L-1) : stack'[i] = stack[i]
      /\ status' = IF L = 1 THEN "done" ELSE status
      /\ buf' = buf
  BY ReturnEffect
<1>2. /\ L \in Nat /\ L > 0 /\ stack[L] = Top /\ L \in Depths
      /\ Value.lo <= Top.pos /\ Top.pos <= End
  BY TopFacts DEF Top
<1>3. TypeOK'
  BY <1>1 DEF Inv, TypeOK
<1>4. Boxes' = Boxes /\ Depths' = 1..(L-1) /\ \A i \in 1..(L-1) : i \in Depths
  BY <1>1, <1>2 DEF Boxes, Depths
<1>5. Calls'
  <2>1. (status = "running" => Len(stack) > 0)' /\ (status = "done" => Len(stack) = 0)'
    BY <1>1, <1>2 DEF Inv, Calls, Running
  <2>2. \A b \in Boxes : msgs'[b].lo <= msgs'[b].garbage /\ msgs'[b].garbage <= msgs'[b].hi
    BY <1>1, <1>2 DEF Inv, Calls, Value, End
  <2>3. ASSUME NEW i \in 1..(L-1)
        PROVE  /\ stack'[i].box \in Boxes
               /\ msgs'[stack'[i].box].lo <= stack'[i].pos
               /\ stack'[i].pos <= msgs'[stack'[i].box].hi
               /\ msgs'[stack'[i].box].garbage = msgs'[stack'[i].box].hi
               /\ i > 1 => Len(stack'[i].ret) = 1
    <3>1. /\ stack[i].box \in Boxes
          /\ msgs[stack[i].box].lo <= stack[i].pos
          /\ stack[i].pos <= msgs[stack[i].box].hi
          /\ msgs[stack[i].box].garbage = msgs[stack[i].box].hi
          /\ i > 1 => Len(stack[i].ret) = 1
      BY <1>4 DEF Inv, Calls
    <3>2. stack[i].box # Top.box
      <4>1. i < L /\ stack[i].box \in Nat /\ Top.box \in Nat
        BY <1>2, <3>1, TopFacts DEF Boxes
      <4> QED  BY <1>2, <1>4, <4>1 DEF Inv, Calls
    <3> QED  BY <1>1, <3>1, <3>2
  <2>4. \A i, j \in 1..(L-1) : i < j => stack'[i].box < stack'[j].box
    BY <1>1, <1>4 DEF Inv, Calls
  <2> QED  BY <1>4, <2>1, <2>2, <2>3, <2>4 DEF Calls
<1> QED  BY <1>3, <1>5 DEF Inv

-----------------------------------------------------------------------------
(* Type correctness and the call stack *)

\* A decoding that begins, of any bytes.
Fresh ==
    /\ buf \in Seq(Byte)
    /\ status = "running"
    /\ \E m \in Messages : msgs = <<NewMessage(m, 0, Len(buf))>>
    /\ stack = <<[box |-> 1, pos |-> 0, ret |-> <<>>]>>

LEMMA InitFresh == Init => Fresh
BY DecodeAssumption DEF Init, Fresh, DecodeAssumption

LEMMA FreshInv ==
    ASSUME Fresh
    PROVE  Inv
<1>1. buf \in Seq(Byte) /\ Len(buf) \in Nat
  BY DEF Fresh
<1>2. PICK m \in Messages : msgs = <<NewMessage(m, 0, Len(buf))>>
  BY DEF Fresh
<1> DEFINE v == NewMessage(m, 0, Len(buf))
           c == [box |-> 1, pos |-> 0, ret |-> <<>>]
<1>3. v \in MessageValue /\ v.lo = 0 /\ v.hi = Len(buf) /\ v.garbage = Len(buf)
  BY <1>1 DEF NewMessage, MessageValue
<1>4. c \in Frame /\ c.box = 1 /\ c.pos = 0
  BY DEF Frame
<1>5. msgs = <<v>> /\ stack = <<c>> /\ status = "running"
  BY <1>2 DEF Fresh
<1> HIDE DEF v, c
<1>6. /\ msgs \in Seq(MessageValue) /\ Len(msgs) = 1 /\ msgs[1] = v
      /\ stack \in Seq(Frame) /\ Len(stack) = 1 /\ stack[1] = c
  BY <1>3, <1>4, <1>5
<1>7. TypeOK
  BY <1>1, <1>5, <1>6 DEF TypeOK
<1>8. Calls
  <2>1. Boxes = {1} /\ Depths = {1}
    BY <1>6 DEF Boxes, Depths
  <2> QED  BY <1>1, <1>3, <1>4, <1>5, <1>6, <2>1 DEF Calls
<1> QED  BY <1>7, <1>8 DEF Inv

LEMMA NextInv ==
    ASSUME Inv, [Next]_vars
    PROVE  Inv'
<1>1. CASE Next
  <2>1. Running /\ (PushStep \/ EnterStep \/ ReturnStep \/ PanicStep)
    BY <1>1, StepShapes
  <2>2. CASE PanicStep
    BY <2>1, <2>2 DEF PanicStep, Inv, TypeOK, Calls, Boxes, Depths, Running
  <2> QED  BY <2>1, <2>2, PushKeepsInv, EnterKeepsInv, ReturnKeepsInv
<1>2. CASE UNCHANGED vars
  BY <1>2 DEF vars, Inv, TypeOK, Calls, Boxes, Depths
<1> QED  BY <1>1, <1>2

LEMMA InvAlways == Spec => []Inv
<1>1. Init => Inv
  BY InitFresh, FreshInv
<1> QED BY <1>1, NextInv, PTL DEF Spec

\* The variables keep their types, for every schema and every input.
THEOREM TypeCorrect == Spec => []TypeOK
<1>1. Inv => TypeOK
  BY DEF Inv
<1> QED  BY <1>1, InvAlways, PTL

\* The shape of the call stack, the invariant the other proofs rest on.
THEOREM CallsCorrect == Spec => []Calls
<1>1. Inv => Calls
  BY DEF Inv
<1> QED  BY <1>1, InvAlways, PTL

-----------------------------------------------------------------------------
(* No byte is lost *)

LEMMA AppendElements ==
    ASSUME NEW S, NEW s \in Seq(S), NEW x \in S
    PROVE  /\ Len(Append(s, x)) = Len(s) + 1 /\ Len(s) \in Nat
           /\ Append(s, x)[Len(s) + 1] = x
           /\ \A k \in 1..Len(s) : k \in 1..(Len(s) + 1) /\ Append(s, x)[k] = s[k]
OBVIOUS

LEMMA MessageTypes ==
    ASSUME Inv, NEW b \in Boxes
    PROVE  /\ msgs[b].fields \in Seq(FieldValue) /\ msgs[b].garbage \in Nat
           /\ msgs[b].lo \in Nat /\ msgs[b].hi \in Nat
<1>1. msgs[b] \in MessageValue
  BY DEF Inv, TypeOK, Boxes
<1> QED  BY <1>1 DEF MessageValue

\* A step that pushes a field covers what the cursor passes with the field.
LEMMA PushLosesNothing ==
    ASSUME Inv, Running, PushStep, NoByteLost
    PROVE  NoByteLost'
<1> DEFINE L == Len(stack)
<1>1. PICK f \in FieldValue, pos \in Nat :
        /\ f.from = Top.pos /\ Top.pos < pos /\ pos <= f.to /\ f.to <= End
        /\ Push(f, pos)
  BY DEF PushStep
<1>2. /\ Len(msgs') = Len(msgs) /\ Len(stack') = L
      /\ \A b \in Boxes : SameSlice(msgs'[b], msgs[b])
      /\ \A b \in Boxes : b # Top.box => msgs'[b] = msgs[b]
      /\ msgs'[Top.box].fields = Append(Value.fields, f)
      /\ \A i \in Depths : /\ stack'[i].box = stack[i].box
                           /\ stack'[i].ret = stack[i].ret
                           /\ i # L => stack'[i] = stack[i]
      /\ stack'[L].pos = pos
  BY <1>1, PushEffect
<1>3. Boxes' = Boxes /\ Depths' = Depths
  BY <1>2 DEF Boxes, Depths
<1>4. /\ Value = msgs[Top.box] /\ Top = stack[L] /\ Top.box \in Boxes
      /\ L \in Depths /\ L \in Nat /\ Top.pos \in Nat /\ f.to \in Nat
      /\ Value.fields \in Seq(FieldValue)
  BY TopFacts, MessageTypes DEF Value, Top, FieldValue
<1>5. /\ Len(msgs'[Top.box].fields) = Len(Value.fields) + 1
      /\ Len(Value.fields) + 1 \in 1..Len(msgs'[Top.box].fields)
      /\ msgs'[Top.box].fields[Len(Value.fields) + 1] = f
      /\ \A k \in 1..Len(Value.fields) :
            /\ k \in 1..Len(msgs'[Top.box].fields)
            /\ msgs'[Top.box].fields[k] = Value.fields[k]
  <2> DEFINE s == Value.fields
             t == msgs'[Top.box].fields
  <2>1. s \in Seq(FieldValue) /\ t = Append(s, f)
    BY <1>2, <1>4
  <2> HIDE DEF s, t
  <2>2. /\ Len(t) = Len(s) + 1 /\ Len(s) \in Nat /\ t[Len(s) + 1] = f
        /\ \A k \in 1..Len(s) : k \in 1..(Len(s) + 1) /\ t[k] = s[k]
    BY <2>1, AppendElements
  <2>3. Len(s) + 1 \in 1..Len(t)
    BY <2>2
  <2> QED  BY <2>2, <2>3 DEF s, t
<1>6. ASSUME NEW b \in Boxes, NEW k \in 1..Len(msgs[b].fields)
      PROVE  k \in 1..Len(msgs'[b].fields) /\ msgs'[b].fields[k] = msgs[b].fields[k]
  <2>1. CASE b = Top.box
    BY <1>5, <1>4, <2>1
  <2> QED  BY <1>2, <1>6, <2>1
<1>7. ASSUME NEW b \in Boxes, NEW x \in (msgs[b].lo + 1)..msgs[b].hi
      PROVE  Accounted(b, x)'
  <2>1. CASE \E k \in 1..Len(msgs[b].fields) : x \in Span(msgs[b].fields[k])
    BY <1>6, <2>1 DEF Accounted
  <2>2. CASE x > msgs[b].garbage
    BY <1>2, <2>2 DEF SameSlice, Accounted
  <2>3. CASE \E i \in Depths : stack[i].box = b /\ x > stack[i].pos
    <3>1. PICK i \in Depths : stack[i].box = b /\ x > stack[i].pos
      BY <2>3
    <3>2. CASE i # L \/ x > pos
      BY <1>2, <1>3, <3>1, <3>2 DEF Accounted
    <3>3. CASE i = L /\ ~(x > pos)
      <4>1. x \in Nat
        BY MessageTypes
      <4>2. x \in Span(f) /\ b = Top.box
        BY <1>1, <1>4, <3>1, <3>3, <4>1 DEF Span
      <4> QED  BY <1>5, <4>2 DEF Accounted
    <3> QED  BY <3>2, <3>3
  <2>4. CASE \E i \in 2..Len(stack) : stack[i-1].box = b /\ x \in Span(stack[i].ret[1])
    <3>1. PICK i \in 2..Len(stack) : stack[i-1].box = b /\ x \in Span(stack[i].ret[1])
      BY <2>4
    <3>2. i \in Depths /\ i - 1 \in Depths
      BY <1>4, <3>1 DEF Depths
    <3> QED  BY <1>2, <3>1, <3>2 DEF Accounted
  <2> QED  BY <2>1, <2>2, <2>3, <2>4 DEF NoByteLost, Accounted
<1>8. \A b \in Boxes : msgs'[b].lo = msgs[b].lo /\ msgs'[b].hi = msgs[b].hi
  BY <1>2 DEF SameSlice
<1> QED  BY <1>3, <1>7, <1>8 DEF NoByteLost, Accounted

\* A call that begins covers what the caller's cursor passes with the field it
\* will hand back, and has its own slice still ahead of it.
LEMMA EnterLosesNothing ==
    ASSUME Inv, Running, EnterStep, NoByteLost
    PROVE  NoByteLost'
<1> DEFINE L == Len(stack)
           N == Len(msgs)
<1>1. PICK f \in FieldValue, lo \in Nat, m \in Messages :
        /\ f.from = Top.pos /\ Top.pos < lo /\ lo <= f.to /\ f.to <= End
        /\ Enter(f, lo, m)
  BY DEF EnterStep
<1> DEFINE v == NewMessage(m, lo, f.to)
           d == [box |-> N + 1, pos |-> lo, ret |-> <<f>>]
<1>2. /\ Len(msgs') = N + 1 /\ msgs'[N + 1] = v
      /\ \A b \in 1..N : msgs'[b] = msgs[b]
  BY <1>1, EnterEffect
<1>3. /\ Len(stack') = L + 1 /\ stack'[L + 1] = d
      /\ \A i \in 1..L : /\ stack'[i].box = stack[i].box
                         /\ stack'[i].ret = stack[i].ret
                         /\ i # L => stack'[i] = stack[i]
      /\ stack'[L].pos = f.to
  BY <1>1, EnterEffect
<1>4. /\ v.lo = lo /\ v.hi = f.to /\ d.box = N + 1 /\ d.pos = lo /\ d.ret[1] = f
  BY DEF NewMessage
<1>5. /\ Top = stack[L] /\ L \in Nat /\ L > 0 /\ N \in Nat
      /\ Top.pos \in Nat /\ f.to \in Nat /\ Boxes = 1..N /\ Depths = 1..L
  BY TopFacts DEF Top, FieldValue, Boxes, Depths
<1>6. Boxes' = 1..(N + 1) /\ Depths' = 1..(L + 1)
  BY <1>2, <1>3 DEF Boxes, Depths
<1> HIDE DEF L, N, v, d
<1>7. ASSUME NEW b \in 1..N, NEW x \in (msgs[b].lo + 1)..msgs[b].hi
      PROVE  Accounted(b, x)'
  <2>1. CASE \E k \in 1..Len(msgs[b].fields) : x \in Span(msgs[b].fields[k])
    BY <1>2, <1>3, <2>1 DEF Accounted
  <2>2. CASE x > msgs[b].garbage
    BY <1>2, <1>3, <2>2 DEF Accounted
  <2>3. CASE \E i \in Depths : stack[i].box = b /\ x > stack[i].pos
    <3>1. PICK i \in 1..L : stack[i].box = b /\ x > stack[i].pos
      BY <1>5, <2>3
    <3>2. CASE i # L \/ x > f.to
      BY <1>2, <1>3, <1>5, <1>6, <3>1, <3>2 DEF Accounted
    <3>3. CASE i = L /\ ~(x > f.to)
      <4>1. x \in Nat
        <5>1. b \in Boxes
          BY <1>5
        <5> QED  BY <5>1, MessageTypes
      <4>2. x \in Span(f)
        BY <1>1, <1>5, <3>1, <3>3, <4>1 DEF Span
      <4>3. L + 1 \in 2..(L + 1) /\ (L + 1) - 1 = L
        BY <1>5
      <4>4. stack'[L].box = b /\ stack'[L + 1].ret[1] = f
        BY <1>2, <1>3, <1>4, <3>1, <3>3
      <4> QED  BY <1>2, <1>3, <4>2, <4>3, <4>4 DEF Accounted
    <3>4. i = L \/ i # L
      OBVIOUS
    <3> QED  BY <3>2, <3>3, <3>4
  <2>4. CASE \E i \in 2..Len(stack) : stack[i-1].box = b /\ x \in Span(stack[i].ret[1])
    <3>1. PICK i \in 2..L : stack[i-1].box = b /\ x \in Span(stack[i].ret[1])
      BY <2>4 DEF L
    <3>2. i \in 1..L /\ i - 1 \in 1..L /\ i \in 2..(L+1)
      BY <1>5, <3>1
    <3> QED  BY <1>2, <1>3, <3>1, <3>2 DEF Accounted
  <2>5. Accounted(b, x)
    BY <1>5 DEF NoByteLost
  <2> QED  BY <2>1, <2>2, <2>3, <2>4, <2>5 DEF Accounted
<1>8. ASSUME NEW b, b = N + 1, NEW x \in (lo + 1)..f.to
      PROVE  Accounted(b, x)'
  <2>1. L + 1 \in Depths' /\ x > lo
    BY <1>5, <1>6
  <2>2. stack'[L + 1].box = b /\ x > stack'[L + 1].pos
    BY <1>3, <1>4, <1>8, <2>1
  <2> QED  BY <2>1, <2>2 DEF Accounted
<1>9. \A b \in 1..N : msgs'[b].lo = msgs[b].lo /\ msgs'[b].hi = msgs[b].hi
  BY <1>2, <1>3
<1>10. \A b \in 1..(N+1) : b \in 1..N \/ b = N + 1
  BY <1>5
<1>11. ASSUME NEW b \in 1..(N+1), NEW x \in (msgs'[b].lo + 1)..msgs'[b].hi
       PROVE  Accounted(b, x)'
  <2>1. CASE b \in 1..N
    BY <1>7, <1>9, <2>1
  <2>2. CASE b = N + 1
    <3>1. x \in (lo + 1)..f.to
      BY <1>2, <1>4, <2>2
    <3> QED  BY <1>8, <2>2, <3>1
  <2> QED  BY <1>10, <2>1, <2>2
<1> QED  BY <1>6, <1>11 DEF NoByteLost

\* A call that returns covers the rest of its slice with the garbage, and its
\* caller gets the field it waited for.
LEMMA ReturnLosesNothing ==
    ASSUME Inv, Running, ReturnStep, NoByteLost
    PROVE  NoByteLost'
<1> DEFINE L == Len(stack)
<1>1. /\ Len(msgs') = Len(msgs)
      /\ \A b \in Boxes : /\ msgs'[b].lo = msgs[b].lo /\ msgs'[b].hi = msgs[b].hi
                          /\ b # Top.box => msgs'[b].garbage = msgs[b].garbage
                          /\ L = 1 \/ b # stack[L-1].box
                               => msgs'[b].fields = msgs[b].fields
      /\ msgs'[Top.box].garbage = Top.pos
      /\ L > 1 => /\ msgs'[stack[L-1].box].fields
                       = Append(msgs[stack[L-1].box].fields, Top.ret[1])
                  /\ Top.ret[1] \in FieldValue /\ stack[L-1].box \in Boxes
      /\ Len(stack') = L - 1
      /\ \A i \in 1..(L-1) : stack'[i] = stack[i]
  BY ReturnEffect
<1>2. /\ L \in Nat /\ L > 0 /\ Top = stack[L] /\ Top.box \in Boxes
      /\ msgs[Top.box].garbage = msgs[Top.box].hi
      /\ Depths = 1..L
  BY TopFacts DEF Top, Value, End, Depths
<1>3. Boxes' = Boxes /\ Depths' = 1..(L-1)
  BY <1>1 DEF Boxes, Depths
<1> HIDE DEF L
<1>4. ASSUME L > 1
      PROVE  /\ Len(msgs[stack[L-1].box].fields) + 1 \in 1..Len(msgs'[stack[L-1].box].fields)
             /\ msgs'[stack[L-1].box].fields[Len(msgs[stack[L-1].box].fields) + 1] = Top.ret[1]
             /\ \A k \in 1..Len(msgs[stack[L-1].box].fields) :
                   /\ k \in 1..Len(msgs'[stack[L-1].box].fields)
                   /\ msgs'[stack[L-1].box].fields[k] = msgs[stack[L-1].box].fields[k]
  <2> DEFINE s == msgs[stack[L-1].box].fields
             t == msgs'[stack[L-1].box].fields
             f == Top.ret[1]
  <2>1. s \in Seq(FieldValue) /\ t = Append(s, f) /\ f \in FieldValue
    BY <1>1, <1>4, MessageTypes
  <2> HIDE DEF s, t, f
  <2>2. /\ Len(t) = Len(s) + 1 /\ Len(s) \in Nat /\ t[Len(s) + 1] = f
        /\ \A k \in 1..Len(s) : k \in 1..(Len(s) + 1) /\ t[k] = s[k]
    BY <2>1, AppendElements
  <2>3. Len(s) + 1 \in 1..Len(t)
    BY <2>2
  <2> QED  BY <2>2, <2>3 DEF s, t, f
<1>5. ASSUME NEW b \in Boxes, NEW k \in 1..Len(msgs[b].fields)
      PROVE  k \in 1..Len(msgs'[b].fields) /\ msgs'[b].fields[k] = msgs[b].fields[k]
  <2>1. CASE L > 1 /\ b = stack[L-1].box
    BY <1>4, <2>1
  <2>2. CASE L = 1 \/ b # stack[L-1].box
    BY <1>1, <1>5, <2>2
  <2> QED  BY <1>2, <2>1, <2>2
<1>6. ASSUME NEW b \in Boxes, NEW x \in (msgs[b].lo + 1)..msgs[b].hi
      PROVE  Accounted(b, x)'
  <2>1. CASE \E k \in 1..Len(msgs[b].fields) : x \in Span(msgs[b].fields[k])
    BY <1>5, <2>1 DEF Accounted
  <2>2. CASE x > msgs[b].garbage
    <3>1. b # Top.box
      BY <1>2, <2>2, MessageTypes
    <3> QED  BY <1>1, <2>2, <3>1 DEF Accounted
  <2>3. CASE \E i \in Depths : stack[i].box = b /\ x > stack[i].pos
    <3>1. PICK i \in 1..L : stack[i].box = b /\ x > stack[i].pos
      BY <1>2, <2>3
    <3>2. CASE i = L
      BY <1>1, <1>2, <3>1, <3>2 DEF Accounted
    <3>3. CASE i \in 1..(L-1)
      <4>1. i \in Depths' /\ stack'[i].box = b /\ x > stack'[i].pos
        BY <1>1, <1>3, <3>1, <3>3
      <4> QED  BY <4>1 DEF Accounted
    <3> QED  BY <1>2, <3>2, <3>3
  <2>4. CASE \E i \in 2..Len(stack) : stack[i-1].box = b /\ x \in Span(stack[i].ret[1])
    <3>1. PICK i \in 2..L : stack[i-1].box = b /\ x \in Span(stack[i].ret[1])
      BY <2>4 DEF L
    <3>2. CASE i = L
      BY <1>2, <1>4, <3>1, <3>2 DEF Accounted
    <3>3. CASE i # L
      <4>1. i \in 1..(L-1) /\ i - 1 \in 1..(L-1) /\ i \in 2..Len(stack')
        BY <1>1, <1>2, <3>1, <3>3
      <4>2. stack'[i-1].box = b /\ x \in Span(stack'[i].ret[1])
        BY <1>1, <3>1, <4>1
      <4> QED  BY <4>1, <4>2 DEF Accounted
    <3> QED  BY <3>2, <3>3
  <2> QED  BY <2>1, <2>2, <2>3, <2>4 DEF NoByteLost, Accounted
<1> QED  BY <1>1, <1>3, <1>6 DEF NoByteLost

LEMMA InitLosesNothing ==
    ASSUME Init
    PROVE  NoByteLost
<1>1. PICK m \in Messages : msgs = <<NewMessage(m, 0, Len(buf))>>
  BY DEF Init
<1>2. /\ Len(msgs) = 1 /\ msgs[1].lo = 0
      /\ Len(stack) = 1 /\ stack[1].box = 1 /\ stack[1].pos = 0
  BY <1>1 DEF Init, NewMessage
<1>3. ASSUME NEW b \in 1..1, NEW x \in (msgs[b].lo + 1)..msgs[b].hi
      PROVE  Accounted(b, x)
  <2>1. b = 1 /\ x > 0 /\ 1 \in Depths
    BY <1>2, <1>3 DEF Depths
  <2> QED  BY <1>2, <2>1 DEF Accounted
<1> QED  BY <1>2, <1>3 DEF NoByteLost, Boxes

LEMMA StutterLosesNothing ==
    ASSUME NoByteLost, UNCHANGED <<msgs, stack>>
    PROVE  NoByteLost'
<1>1. ASSUME NEW b \in Boxes, NEW x \in (msgs[b].lo + 1)..msgs[b].hi
      PROVE  Accounted(b, x)'
  <2>1. Accounted(b, x)
    BY DEF NoByteLost
  <2>2. Depths' = Depths
    BY DEF Depths
  <2> QED  BY <2>1, <2>2 DEF Accounted
<1>2. Boxes' = Boxes
  BY DEF Boxes
<1> QED  BY <1>1, <1>2 DEF NoByteLost

\* Decoding loses no byte of a message, whatever the bytes, the schema and the
\* widths of the integers are.
THEOREM NothingLost == Spec => []NoByteLost
<1>1. Inv /\ NoByteLost /\ [Next]_vars => NoByteLost'
  <2> SUFFICES ASSUME Inv, NoByteLost, [Next]_vars
               PROVE  NoByteLost'
    OBVIOUS
  <2>1. CASE Next
    <3>1. Running /\ (PushStep \/ EnterStep \/ ReturnStep \/ PanicStep)
      BY <2>1, StepShapes
    <3>2. CASE PanicStep
      BY <3>2, StutterLosesNothing DEF PanicStep
    <3> QED  BY <3>1, <3>2, PushLosesNothing, EnterLosesNothing, ReturnLosesNothing
  <2>2. CASE UNCHANGED vars
    BY <2>2, StutterLosesNothing DEF vars
  <2> QED  BY <2>1, <2>2
<1> QED  BY <1>1, InvAlways, InitLosesNothing, PTL DEF Spec

-----------------------------------------------------------------------------
(* No byte is decoded twice *)

\* The cursors say where the decoded fields end, and so where the next begins.
Ordered == FieldsBehindCursor /\ NoByteTwice

LEMMA OrderedFacts ==
    ASSUME Inv, Ordered
    PROVE  /\ \A d \in Depths : \A k \in 1..Len(msgs[stack[d].box].fields) :
                LET f == msgs[stack[d].box].fields[k]
                IN  \/ DecodedAgain(buf, f)
                    \/ d = Len(stack) /\ f.to <= stack[d].pos
                    \/ d < Len(stack) /\ f.to <= stack[d+1].ret[1].from
           /\ \A d \in Depths : d > 1 => /\ stack[d].ret[1].from <= stack[d].ret[1].to
                                         /\ stack[d].ret[1].to <= stack[d-1].pos
           /\ \A b \in Boxes : \A j \in 1..Len(msgs[b].fields) : \A i \in 1..(j - 1) :
                \/ msgs[b].fields[i].to <= msgs[b].fields[j].from
                \/ DecodedAgain(buf, msgs[b].fields[i])
BY DEF Ordered, FieldsBehindCursor, NoByteTwice

\* Appending a field that begins behind all the others keeps their order.
LEMMA AppendKeepsOrder ==
    ASSUME NEW s \in Seq(FieldValue), NEW f \in FieldValue, NEW t, t = Append(s, f),
           \A j \in 1..Len(s) : \A i \in 1..(j - 1) :
              s[i].to <= s[j].from \/ DecodedAgain(buf, s[i]),
           \A k \in 1..Len(s) : s[k].to <= f.from \/ DecodedAgain(buf, s[k])
    PROVE  \A j \in 1..Len(t) : \A i \in 1..(j - 1) :
              t[i].to <= t[j].from \/ DecodedAgain(buf, t[i])
<1>1. /\ Len(t) = Len(s) + 1 /\ Len(s) \in Nat /\ t[Len(s) + 1] = f
      /\ \A k \in 1..Len(s) : t[k] = s[k]
  BY AppendElements
<1>2. ASSUME NEW j \in 1..Len(t), NEW i \in 1..(j - 1)
      PROVE  t[i].to <= t[j].from \/ DecodedAgain(buf, t[i])
  <2>1. i \in 1..Len(s) /\ t[i] = s[i]
    BY <1>1
  <2>2. CASE j = Len(s) + 1
    BY <1>1, <2>1, <2>2
  <2>3. CASE j \in 1..Len(s)
    BY <1>1, <2>1, <2>3
  <2> QED  BY <1>1, <2>2, <2>3
<1> QED  BY <1>2

LEMMA PushKeepsOrder ==
    ASSUME Inv, Running, PushStep, Ordered
    PROVE  Ordered'
<1> DEFINE L == Len(stack)
           B == Top.box
<1>1. PICK f \in FieldValue, pos \in Nat :
        /\ f.from = Top.pos /\ Top.pos < pos
        /\ pos = f.to \/ DecodedAgain(buf, f)
        /\ Push(f, pos)
  BY DEF PushStep
<1>2. /\ Len(msgs') = Len(msgs) /\ Len(stack') = L /\ buf' = buf
      /\ \A b \in Boxes : b # B => msgs'[b] = msgs[b]
      /\ msgs'[B].fields = Append(msgs[B].fields, f)
      /\ \A i \in Depths : /\ stack'[i].box = stack[i].box
                           /\ stack'[i].ret = stack[i].ret
                           /\ i # L => stack'[i] = stack[i]
      /\ stack'[L].pos = pos
  BY <1>1, PushEffect DEF Value
<1>3. Boxes' = Boxes /\ Depths' = Depths
  BY <1>2 DEF Boxes, Depths
<1>4. /\ L \in Nat /\ L \in Depths /\ Depths = 1..L /\ B \in Boxes /\ stack[L].box = B
      /\ stack[L].pos = Top.pos /\ Top.pos \in Nat /\ f.to \in Nat
      /\ msgs[B].fields \in Seq(FieldValue)
  BY TopFacts, MessageTypes DEF Top, FieldValue, Depths
<1>5. \A d \in Depths : d # L => stack[d].box \in Boxes /\ stack[d].box # B
  BY <1>4 DEF Inv, Calls, Boxes
<1>6. /\ Len(msgs'[B].fields) = Len(msgs[B].fields) + 1 /\ Len(msgs[B].fields) \in Nat
      /\ msgs'[B].fields[Len(msgs[B].fields) + 1] = f
      /\ \A k \in 1..Len(msgs[B].fields) : /\ msgs'[B].fields[k] = msgs[B].fields[k]
                                           /\ msgs[B].fields[k].to \in Nat
  <2> DEFINE s == msgs[B].fields
             t == msgs'[B].fields
  <2>1. s \in Seq(FieldValue) /\ t = Append(s, f)
    BY <1>2, <1>4
  <2> HIDE DEF s, t
  <2>2. /\ Len(t) = Len(s) + 1 /\ Len(s) \in Nat /\ t[Len(s) + 1] = f
        /\ \A k \in 1..Len(s) : t[k] = s[k]
    BY <2>1, AppendElements
  <2>3. ASSUME NEW k \in 1..Len(s)
        PROVE  s[k].to \in Nat
    <3>1. s[k] \in FieldValue
      BY <2>1
    <3> QED  BY <3>1 DEF FieldValue
  <2> QED  BY <2>2, <2>3 DEF s, t
<1>7. \A k \in 1..Len(msgs[B].fields) :
        msgs[B].fields[k].to <= f.from \/ DecodedAgain(buf, msgs[B].fields[k])
  BY <1>1, <1>4, OrderedFacts, SMTT(30)
<1> HIDE DEF L, B
<1>8. ASSUME NEW d \in Depths, NEW k \in 1..Len(msgs'[stack'[d].box].fields)
      PROVE  LET g == msgs'[stack'[d].box].fields[k]
             IN  \/ DecodedAgain(buf, g)
                 \/ d = L /\ g.to <= stack'[d].pos
                 \/ d < L /\ g.to <= stack'[d+1].ret[1].from
  <2>1. CASE d = L
    <3>1. stack'[d].box = B
      BY <1>2, <1>4, <2>1
    <3>2. CASE k \in 1..Len(msgs[B].fields)
      <4>1. msgs'[B].fields[k] = msgs[B].fields[k] /\ msgs[B].fields[k].to \in Nat
        BY <1>6, <3>2
      <4>2. msgs[B].fields[k].to <= pos \/ DecodedAgain(buf, msgs[B].fields[k])
        BY <1>1, <1>4, <1>7, <3>2, <4>1
      <4> QED  BY <1>2, <2>1, <3>1, <4>1, <4>2
    <3>3. CASE k = Len(msgs[B].fields) + 1
      BY <1>1, <1>2, <1>6, <2>1, <3>1, <3>3
    <3> QED  BY <1>6, <1>8, <3>1, <3>2, <3>3
  <2>2. CASE d # L
    <3>1. d < L /\ d + 1 \in Depths
      BY <1>4, <2>2
    <3>2. /\ stack'[d].box = stack[d].box /\ msgs'[stack[d].box] = msgs[stack[d].box]
          /\ stack'[d+1].ret = stack[d+1].ret
      BY <1>2, <1>5, <2>2, <3>1
    <3>3. \/ DecodedAgain(buf, msgs[stack[d].box].fields[k])
          \/ msgs[stack[d].box].fields[k].to <= stack[d+1].ret[1].from
      BY <1>4, <1>8, <3>1, <3>2, OrderedFacts DEF L
    <3> QED  BY <3>1, <3>2, <3>3
  <2> QED  BY <2>1, <2>2
<1>9. ASSUME NEW d \in Depths, d > 1
      PROVE  /\ stack'[d].ret[1].from <= stack'[d].ret[1].to
             /\ stack'[d].ret[1].to <= stack'[d-1].pos
  <2>1. d - 1 \in Depths /\ d - 1 # L
    BY <1>4, <1>9
  <2> QED  BY <1>2, <1>9, <2>1, OrderedFacts
<1>10. ASSUME NEW b \in Boxes
       PROVE  \A j \in 1..Len(msgs'[b].fields) : \A i \in 1..(j - 1) :
                 \/ msgs'[b].fields[i].to <= msgs'[b].fields[j].from
                 \/ DecodedAgain(buf, msgs'[b].fields[i])
  <2>1. CASE b = B
    <3> DEFINE s == msgs[B].fields
               t == msgs'[B].fields
    <3>1. /\ s \in Seq(FieldValue) /\ t = Append(s, f)
          /\ \A j \in 1..Len(s) : \A i \in 1..(j - 1) :
                s[i].to <= s[j].from \/ DecodedAgain(buf, s[i])
          /\ \A k \in 1..Len(s) : s[k].to <= f.from \/ DecodedAgain(buf, s[k])
      BY <1>2, <1>4, <1>7, OrderedFacts
    <3> HIDE DEF s, t
    <3>2. \A j \in 1..Len(t) : \A i \in 1..(j - 1) :
             t[i].to <= t[j].from \/ DecodedAgain(buf, t[i])
      BY <3>1, AppendKeepsOrder
    <3> QED  BY <2>1, <3>2 DEF t
  <2>2. CASE b # B
    BY <1>2, <2>2, OrderedFacts
  <2> QED  BY <2>1, <2>2
<1>11. FieldsBehindCursor'
  BY <1>2, <1>3, <1>8, <1>9 DEF FieldsBehindCursor, L
<1>12. NoByteTwice'
  BY <1>2, <1>3, <1>10 DEF NoByteTwice
<1> QED  BY <1>11, <1>12 DEF Ordered

LEMMA EnterKeepsOrder ==
    ASSUME Inv, Running, EnterStep, Ordered
    PROVE  Ordered'
<1> DEFINE L == Len(stack)
           N == Len(msgs)
<1>1. PICK f \in FieldValue, lo \in Nat, m \in Messages :
        /\ f.from = Top.pos /\ Top.pos < lo /\ lo <= f.to
        /\ Enter(f, lo, m)
  BY DEF EnterStep
<1> DEFINE v == NewMessage(m, lo, f.to)
           c == [box |-> N + 1, pos |-> lo, ret |-> <<f>>]
<1>2. /\ buf' = buf /\ Len(msgs') = N + 1 /\ msgs'[N + 1] = v
      /\ \A b \in 1..N : msgs'[b] = msgs[b]
  BY <1>1, EnterEffect
<1>3. /\ Len(stack') = L + 1 /\ stack'[L + 1] = c
      /\ \A i \in 1..L : /\ stack'[i].box = stack[i].box
                         /\ stack'[i].ret = stack[i].ret
                         /\ i # L => stack'[i] = stack[i]
      /\ stack'[L].pos = f.to
  BY <1>1, EnterEffect
<1>4. Len(v.fields) = 0 /\ c.box = N + 1 /\ c.ret[1] = f
  BY DEF NewMessage
<1>5. /\ L \in Nat /\ L > 0 /\ N \in Nat /\ Boxes = 1..N /\ Depths = 1..L
      /\ stack[L].pos = Top.pos /\ Top.pos \in Nat /\ f.to \in Nat /\ f.from \in Nat
  BY TopFacts DEF Top, FieldValue, Boxes, Depths
<1>6. Boxes' = 1..(N + 1) /\ Depths' = 1..(L + 1)
  BY <1>2, <1>3 DEF Boxes, Depths
<1>7. \A d \in Depths : stack[d].box \in 1..N
  BY <1>5 DEF Inv, Calls
<1> HIDE DEF N, v, c
<1>8. ASSUME NEW d \in 1..(L + 1), NEW k \in 1..Len(msgs'[stack'[d].box].fields)
      PROVE  LET g == msgs'[stack'[d].box].fields[k]
             IN  \/ DecodedAgain(buf, g)
                 \/ d = L + 1 /\ g.to <= stack'[d].pos
                 \/ d < L + 1 /\ g.to <= stack'[d+1].ret[1].from
  <2>1. CASE d = L + 1
    <3>1. k \in 1..0
      BY <1>2, <1>3, <1>4, <1>8, <2>1
    <3> QED  BY <3>1
  <2>2. CASE d \in 1..L
    <3>1. d \in Depths /\ stack'[d].box = stack[d].box /\ stack[d].box \in 1..N
      BY <1>3, <1>5, <1>7, <2>2
    <3>2. msgs'[stack'[d].box] = msgs[stack[d].box]
      BY <1>2, <3>1
    <3>3. k \in 1..Len(msgs[stack[d].box].fields)
      BY <1>8, <3>2
    <3>4. \/ DecodedAgain(buf, msgs[stack[d].box].fields[k])
          \/ d = L /\ msgs[stack[d].box].fields[k].to <= stack[d].pos
          \/ d < L /\ msgs[stack[d].box].fields[k].to <= stack[d+1].ret[1].from
      BY <3>1, <3>3, OrderedFacts
    <3>5. CASE d = L
      <4>1. stack'[d+1].ret[1].from = stack[d].pos
        BY <1>1, <1>3, <1>4, <1>5, <3>5
      <4> QED  BY <1>5, <2>2, <3>2, <3>4, <3>5, <4>1
    <3>6. CASE d # L
      <4>1. d < L /\ d + 1 \in 1..L
        BY <1>5, <2>2, <3>6
      <4> QED  BY <1>3, <1>5, <3>2, <3>4, <4>1
    <3> QED  BY <3>5, <3>6
  <2> QED  BY <1>5, <2>1, <2>2
<1>9. ASSUME NEW d \in 1..(L + 1), d > 1
      PROVE  /\ stack'[d].ret[1].from <= stack'[d].ret[1].to
             /\ stack'[d].ret[1].to <= stack'[d-1].pos
  <2>1. CASE d = L + 1
    <3>1. f.from <= f.to
      BY <1>1, <1>5
    <3> QED  BY <1>3, <1>4, <1>5, <2>1, <3>1
  <2>2. CASE d \in 1..L
    <3>1. d \in Depths /\ d - 1 \in 1..L /\ d - 1 # L
      BY <1>5, <1>9, <2>2
    <3> QED  BY <1>3, <1>9, <2>2, <3>1, OrderedFacts
  <2> QED  BY <1>5, <2>1, <2>2
<1>10. ASSUME NEW b \in 1..(N + 1), NEW j \in 1..Len(msgs'[b].fields), NEW i \in 1..(j - 1)
       PROVE  \/ msgs'[b].fields[i].to <= msgs'[b].fields[j].from
              \/ DecodedAgain(buf, msgs'[b].fields[i])
  <2>1. CASE b \in 1..N
    BY <1>2, <1>5, <1>10, <2>1, OrderedFacts
  <2>2. CASE b = N + 1
    <3>1. j \in 1..0
      BY <1>2, <1>4, <1>10, <2>2
    <3> QED  BY <3>1
  <2> QED  BY <1>5, <2>1, <2>2
<1>11. FieldsBehindCursor'
  BY <1>2, <1>3, <1>6, <1>8, <1>9 DEF FieldsBehindCursor
<1>12. NoByteTwice'
  BY <1>2, <1>6, <1>10 DEF NoByteTwice
<1> QED  BY <1>11, <1>12 DEF Ordered

LEMMA ReturnKeepsOrder ==
    ASSUME Inv, Running, ReturnStep, Ordered
    PROVE  Ordered'
<1> DEFINE L == Len(stack)
           C == stack[L-1].box
           f == Top.ret[1]
<1>1. /\ Len(msgs') = Len(msgs) /\ buf' = buf
      /\ \A b \in Boxes : L = 1 \/ b # C => msgs'[b].fields = msgs[b].fields
      /\ L > 1 => /\ msgs'[C].fields = Append(msgs[C].fields, f)
                  /\ f \in FieldValue /\ C \in Boxes
      /\ Len(stack') = L - 1
      /\ \A i \in 1..(L-1) : stack'[i] = stack[i]
  BY ReturnEffect
<1>2. L \in Nat /\ L > 0 /\ Top = stack[L] /\ Depths = 1..L
  BY TopFacts DEF Top, Depths
<1>3. L = 1 \/ L > 1
  BY <1>2
<1>4. Boxes' = Boxes /\ Depths' = 1..(L-1)
  BY <1>1 DEF Boxes, Depths
<1>5. \A d \in 1..(L-1) : /\ stack[d].box \in Boxes /\ stack[d].pos \in Nat
                          /\ d # L - 1 => stack[d].box # C
  <2>1. \A d \in 1..(L-1) : d \in Depths /\ stack[d] \in Frame
    BY <1>2 DEF Inv, TypeOK
  <2>2. \A d \in 1..(L-1) : stack[d].box \in Boxes /\ stack[d].pos \in Nat
    BY <2>1 DEF Inv, Calls, Frame
  <2>3. ASSUME NEW d \in 1..(L-1), d # L - 1
        PROVE  stack[d].box # C
    <3>1. /\ d < L - 1 /\ d \in Depths /\ L - 1 \in Depths
          /\ stack[d].box \in Nat /\ C \in Nat
      BY <1>2, <2>2, <2>3 DEF Boxes
    <3> QED  BY <3>1 DEF Inv, Calls
  <2> QED  BY <2>2, <2>3
<1>6. ASSUME L > 1
      PROVE  /\ C \in Boxes /\ L - 1 \in Depths /\ L \in Depths
             /\ f.from \in Nat /\ f.to \in Nat
             /\ f.from <= f.to /\ f.to <= stack[L-1].pos
             /\ msgs[C].fields \in Seq(FieldValue)
             /\ \A k \in 1..Len(msgs[C].fields) :
                   /\ msgs[C].fields[k].to \in Nat
                   /\ msgs[C].fields[k].to <= f.from \/ DecodedAgain(buf, msgs[C].fields[k])
  <2>1. C \in Boxes /\ f \in FieldValue /\ L \in Depths /\ L - 1 \in Depths
    BY <1>1, <1>2, <1>6
  <2>2. msgs[C].fields \in Seq(FieldValue)
    BY <2>1, MessageTypes
  <2>3. \A k \in 1..Len(msgs[C].fields) : msgs[C].fields[k].to \in Nat
    <3> DEFINE s == msgs[C].fields
    <3>1. s \in Seq(FieldValue)
      BY <2>2
    <3> HIDE DEF s
    <3>2. ASSUME NEW k \in 1..Len(s)
          PROVE  s[k].to \in Nat
      <4>1. s[k] \in FieldValue
        BY <3>1
      <4> QED  BY <4>1 DEF FieldValue
    <3> QED  BY <3>2 DEF s
  <2>4. f.from <= f.to /\ f.to <= stack[L-1].pos
    BY <1>2, <1>6, <2>1, OrderedFacts
  <2>5. \A k \in 1..Len(msgs[C].fields) :
          msgs[C].fields[k].to <= f.from \/ DecodedAgain(buf, msgs[C].fields[k])
    <3>1. (L - 1) + 1 = L /\ L - 1 # L
      BY <1>2
    <3> QED  BY <1>2, <2>1, <3>1, OrderedFacts
  <2>6. f.from \in Nat /\ f.to \in Nat
    BY <2>1 DEF FieldValue
  <2> QED  BY <2>1, <2>2, <2>3, <2>4, <2>5, <2>6
<1>7. ASSUME L > 1
      PROVE  /\ Len(msgs'[C].fields) = Len(msgs[C].fields) + 1
             /\ Len(msgs[C].fields) \in Nat
             /\ msgs'[C].fields[Len(msgs[C].fields) + 1] = f
             /\ \A k \in 1..Len(msgs[C].fields) : msgs'[C].fields[k] = msgs[C].fields[k]
  <2> DEFINE s == msgs[C].fields
             t == msgs'[C].fields
  <2>1. s \in Seq(FieldValue) /\ t = Append(s, f) /\ f \in FieldValue
    BY <1>1, <1>6, <1>7
  <2> HIDE DEF s, t, f
  <2>2. /\ Len(t) = Len(s) + 1 /\ Len(s) \in Nat /\ t[Len(s) + 1] = f
        /\ \A k \in 1..Len(s) : t[k] = s[k]
    BY <2>1, AppendElements
  <2> QED  BY <2>2 DEF s, t, f
<1> HIDE DEF C, f
<1>8. ASSUME NEW d \in 1..(L-1), NEW k \in 1..Len(msgs'[stack'[d].box].fields)
      PROVE  LET g == msgs'[stack'[d].box].fields[k]
             IN  \/ DecodedAgain(buf, g)
                 \/ d = L - 1 /\ g.to <= stack'[d].pos
                 \/ d < L - 1 /\ g.to <= stack'[d+1].ret[1].from
  <2>1. stack'[d] = stack[d] /\ L > 1 /\ d \in Depths /\ stack[d].pos \in Nat
    <3>1. stack'[d] = stack[d]
      BY <1>1
    <3>2. L > 1 /\ d \in Depths
      BY <1>2
    <3>3. stack[d].pos \in Nat
      BY <1>5
    <3> QED  BY <3>1, <3>2, <3>3
  <2>2. CASE d = L - 1
    <3>1. stack'[d].box = C
      BY <2>1, <2>2 DEF C
    <3>2. CASE k \in 1..Len(msgs[C].fields)
      <4>1. \/ msgs'[C].fields[k].to <= stack[d].pos
            \/ DecodedAgain(buf, msgs'[C].fields[k])
        <5>1. msgs'[C].fields[k] = msgs[C].fields[k]
          BY <1>7, <2>1, <3>2
        <5>2. \/ msgs[C].fields[k].to <= f.from
              \/ DecodedAgain(buf, msgs[C].fields[k])
          BY <1>6, <2>1, <3>2
        <5>3. f.from \in Nat /\ f.to \in Nat /\ f.from <= f.to /\ f.to <= stack[d].pos
          BY <1>6, <2>1, <2>2
        <5>4. msgs[C].fields[k].to \in Nat
          BY <1>6, <2>1, <3>2
        <5> QED  BY <2>1, <5>1, <5>2, <5>3, <5>4
      <4> QED  BY <2>1, <2>2, <3>1, <4>1
    <3>3. CASE k = Len(msgs[C].fields) + 1
      BY <1>6, <1>7, <2>1, <2>2, <3>1, <3>3
    <3> QED  BY <1>7, <1>8, <2>1, <3>1, <3>2, <3>3, SMTT(30)
  <2>3. CASE d # L - 1
    <3>1. d < L - 1 /\ d + 1 \in 1..(L-1) /\ d < L /\ d # L
      BY <1>2, <2>3
    <3>2. stack'[d+1] = stack[d+1] /\ msgs'[stack[d].box].fields = msgs[stack[d].box].fields
      BY <1>1, <1>5, <2>3, <3>1
    <3>3. k \in 1..Len(msgs[stack[d].box].fields)
      BY <1>8, <2>1, <3>2
    <3>4. \/ DecodedAgain(buf, msgs[stack[d].box].fields[k])
          \/ msgs[stack[d].box].fields[k].to <= stack[d+1].ret[1].from
      BY <2>1, <3>1, <3>3, OrderedFacts
    <3> QED  BY <2>1, <3>1, <3>2, <3>4
  <2> QED  BY <2>2, <2>3
<1>9. ASSUME NEW d \in 1..(L-1), d > 1
      PROVE  /\ stack'[d].ret[1].from <= stack'[d].ret[1].to
             /\ stack'[d].ret[1].to <= stack'[d-1].pos
  <2>1. d \in Depths /\ d - 1 \in 1..(L-1)
    BY <1>2, <1>9
  <2> QED  BY <1>1, <1>9, <2>1, OrderedFacts
<1>10. ASSUME NEW b \in Boxes, NEW j \in 1..Len(msgs'[b].fields), NEW i \in 1..(j - 1)
      PROVE  \/ msgs'[b].fields[i].to <= msgs'[b].fields[j].from
             \/ DecodedAgain(buf, msgs'[b].fields[i])
  <2>1. CASE L > 1 /\ b = C
    <3> DEFINE s == msgs[C].fields
               t == msgs'[C].fields
    <3>1. /\ s \in Seq(FieldValue) /\ t = Append(s, f) /\ f \in FieldValue
          /\ \A n \in 1..Len(s) : \A k \in 1..(n - 1) :
                s[k].to <= s[n].from \/ DecodedAgain(buf, s[k])
          /\ \A k \in 1..Len(s) : s[k].to <= f.from \/ DecodedAgain(buf, s[k])
      BY <1>1, <1>6, <2>1, OrderedFacts
    <3> HIDE DEF s, t
    <3>2. \A n \in 1..Len(t) : \A k \in 1..(n - 1) :
             t[k].to <= t[n].from \/ DecodedAgain(buf, t[k])
      BY <3>1, AppendKeepsOrder
    <3> QED  BY <1>10, <2>1, <3>2 DEF t
  <2>2. CASE L = 1 \/ b # C
    BY <1>1, <1>10, <2>2, OrderedFacts
  <2> QED  BY <1>3, <2>1, <2>2
<1>11. FieldsBehindCursor'
  BY <1>1, <1>4, <1>8, <1>9 DEF FieldsBehindCursor
<1>12. NoByteTwice'
  BY <1>1, <1>4, <1>10 DEF NoByteTwice
<1> QED  BY <1>11, <1>12 DEF Ordered

LEMMA InitOrdered ==
    ASSUME Init
    PROVE  Ordered
<1>1. PICK m \in Messages : msgs = <<NewMessage(m, 0, Len(buf))>>
  BY DEF Init
<1>2. /\ Len(msgs) = 1 /\ Len(msgs[1].fields) = 0
      /\ Len(stack) = 1 /\ stack[1].box = 1
  BY <1>1 DEF Init, NewMessage
<1> QED  BY <1>2 DEF Ordered, FieldsBehindCursor, NoByteTwice, Boxes, Depths

LEMMA StutterKeepsOrder ==
    ASSUME Ordered, UNCHANGED <<buf, msgs, stack>>
    PROVE  Ordered'
BY DEF Ordered, FieldsBehindCursor, NoByteTwice, Boxes, Depths

LEMMA OrderedAlways == Spec => []Ordered
<1>1. Inv /\ Ordered /\ [Next]_vars => Ordered'
  <2> SUFFICES ASSUME Inv, Ordered, [Next]_vars
               PROVE  Ordered'
    OBVIOUS
  <2>1. CASE Next
    <3>1. Running /\ (PushStep \/ EnterStep \/ ReturnStep \/ PanicStep)
      BY <2>1, StepShapes
    <3>2. CASE PanicStep
      BY <3>2, StutterKeepsOrder DEF PanicStep
    <3> QED  BY <3>1, <3>2, PushKeepsOrder, EnterKeepsOrder, ReturnKeepsOrder
  <2>2. CASE UNCHANGED vars
    BY <2>2, StutterKeepsOrder DEF vars
  <2> QED  BY <2>1, <2>2
<1> QED  BY <1>1, InvAlways, InitOrdered, PTL DEF Spec

\* A byte is decoded into two fields of a message only when decode_unknown or
\* decode_packed left the cursor before the end of an Incomplete value.
THEOREM NothingTwice == Spec => []NoByteTwice
<1>1. Ordered => NoByteTwice
  BY DEF Ordered
<1> QED  BY <1>1, OrderedAlways, PTL

\* What a call has decoded lies behind its cursor, or behind the field it waits
\* for: the reason for the order of the fields.
THEOREM CursorPassed == Spec => []FieldsBehindCursor
<1>1. Ordered => FieldsBehindCursor
  BY DEF Ordered
<1> QED  BY <1>1, OrderedAlways, PTL

-----------------------------------------------------------------------------
(* The fields a step adds *)

LEMMA PushFields ==
    ASSUME Inv, Running, NEW f \in FieldValue, NEW pos \in Nat, Push(f, pos)
    PROVE  LET s == msgs[Top.box].fields
               t == msgs'[Top.box].fields
           IN  /\ s \in Seq(FieldValue) /\ t = Append(s, f)
               /\ Len(s) \in Nat /\ Len(t) = Len(s) + 1 /\ t[Len(s) + 1] = f
               /\ \A k \in 1..Len(s) : t[k] = s[k]
<1> DEFINE s == msgs[Top.box].fields
           t == msgs'[Top.box].fields
<1>1. s \in Seq(FieldValue) /\ t = Append(s, f)
  BY PushEffect, TopFacts, MessageTypes DEF Value
<1> HIDE DEF s, t
<1> QED  BY <1>1, AppendElements DEF s, t

LEMMA ReturnFields ==
    ASSUME Inv, Running, ReturnStep, Len(stack) > 1
    PROVE  LET C == stack[Len(stack) - 1].box
               s == msgs[C].fields
               t == msgs'[C].fields
           IN  /\ C \in Boxes /\ Top.ret[1] \in FieldValue
               /\ s \in Seq(FieldValue) /\ t = Append(s, Top.ret[1])
               /\ Len(s) \in Nat /\ Len(t) = Len(s) + 1 /\ t[Len(s) + 1] = Top.ret[1]
               /\ \A k \in 1..Len(s) : t[k] = s[k]
<1> DEFINE C == stack[Len(stack) - 1].box
           f == Top.ret[1]
           s == msgs[C].fields
           t == msgs'[C].fields
<1>1. C \in Boxes /\ f \in FieldValue /\ t = Append(s, f)
  BY ReturnEffect
<1>2. s \in Seq(FieldValue)
  BY <1>1, MessageTypes
<1> HIDE DEF f, s, t
<1>3. /\ Len(s) \in Nat /\ Len(t) = Len(s) + 1 /\ t[Len(s) + 1] = f
      /\ \A k \in 1..Len(s) : t[k] = s[k]
  BY <1>1, <1>2, AppendElements
<1> QED  BY <1>1, <1>2, <1>3 DEF f, s, t

LEMMA CallTypes ==
    ASSUME Inv, NEW i \in Depths
    PROVE  /\ stack[i].pos \in Nat /\ stack[i].box \in Boxes /\ stack[i].box \in Nat
           /\ i > 1 => stack[i].ret[1] \in FieldValue
<1>1. stack[i] \in Frame
  BY DEF Inv, TypeOK, Depths
<1>2. stack[i].box \in Boxes /\ (i > 1 => Len(stack[i].ret) = 1)
  BY DEF Inv, Calls
<1>3. stack[i].ret \in Seq(FieldValue)
  BY <1>1 DEF Frame
<1> QED  BY <1>1, <1>2, <1>3 DEF Frame, Boxes

\* The calls have different messages.
LEMMA CallsDiffer ==
    ASSUME Inv
    PROVE  \A i, j \in Depths : i # j => stack[i].box # stack[j].box
<1> SUFFICES ASSUME NEW i \in Depths, NEW j \in Depths, i < j
             PROVE  stack[i].box # stack[j].box
  BY DEF Depths
<1>1. stack[i].box \in Nat /\ stack[j].box \in Nat /\ stack[i].box < stack[j].box
  BY DEF Inv, Calls, Boxes
<1> QED  BY <1>1

-----------------------------------------------------------------------------
(* Only forward *)

LEMMA WholePrefix ==
    ASSUME NEW S, NEW s \in Seq(S)
    PROVE  SubSeq(s, 1, Len(s)) = s
OBVIOUS

LEMMA AppendPrefix ==
    ASSUME NEW S, NEW s \in Seq(S), NEW x \in S
    PROVE  SubSeq(Append(s, x), 1, Len(s)) = s
OBVIOUS

LEMMA SameMessage ==
    ASSUME NEW m \in MessageValue, NEW n \in MessageValue,
           SameSlice(m, n), m.fields = n.fields
    PROVE  m = n
BY DEF MessageValue, SameSlice

LEMMA PushForward ==
    ASSUME Inv, Running, PushStep
    PROVE  Forward
<1>1. PICK f \in FieldValue, pos \in Nat : Top.pos < pos /\ Push(f, pos)
  BY DEF PushStep
<1>2. /\ Len(stack) \in Depths /\ Top = stack[Len(stack)] /\ Top.pos \in Nat
      /\ Top.box \in Boxes
  BY TopFacts DEF Top
<1>3. ASSUME NEW b \in Boxes
      PROVE  SubSeq(msgs'[b].fields, 1, Len(msgs[b].fields)) = msgs[b].fields
  <2>1. CASE b = Top.box
    <3> DEFINE s == msgs[Top.box].fields
               t == msgs'[Top.box].fields
    <3>1. s \in Seq(FieldValue) /\ t = Append(s, f)
      BY <1>1, PushFields
    <3> HIDE DEF s, t
    <3>2. SubSeq(t, 1, Len(s)) = s
      BY <3>1, AppendPrefix
    <3> QED  BY <2>1, <3>2 DEF s, t
  <2>2. CASE b # Top.box
    <3>1. msgs'[b].fields = msgs[b].fields /\ msgs[b].fields \in Seq(FieldValue)
      BY <1>1, <2>2, PushEffect, MessageTypes
    <3> QED  BY <3>1, WholePrefix
  <2> QED  BY <2>1, <2>2
<1>4. \A b \in Boxes : (\A i \in Depths : stack[i].box # b) => msgs'[b] = msgs[b]
  BY <1>1, <1>2, PushEffect
<1>5. ASSUME NEW i \in Depths
      PROVE  stack'[i].pos >= stack[i].pos
  <2>1. stack[i].pos \in Nat
    BY CallTypes
  <2> QED  BY <1>1, <1>2, <2>1, PushEffect
<1>6. stack'[Len(stack)].pos > Top.pos
  BY <1>1, <1>2, PushEffect
<1> QED  BY <1>3, <1>4, <1>5, <1>6 DEF Forward

LEMMA EnterForward ==
    ASSUME Inv, Running, EnterStep
    PROVE  Forward
<1>1. PICK f \in FieldValue, lo \in Nat, m \in Messages :
        Top.pos < lo /\ lo <= f.to /\ Enter(f, lo, m)
  BY DEF EnterStep
<1>2. /\ Len(stack) \in Nat /\ Depths = 1..Len(stack) /\ Boxes = 1..Len(msgs)
      /\ Top = stack[Len(stack)] /\ Top.pos \in Nat /\ f.to \in Nat
  BY TopFacts DEF Top, FieldValue, Depths, Boxes
<1>3. /\ \A b \in 1..Len(msgs) : msgs'[b] = msgs[b]
      /\ Len(stack') = Len(stack) + 1
      /\ \A i \in 1..Len(stack) : i # Len(stack) => stack'[i] = stack[i]
      /\ stack'[Len(stack)].pos = f.to
  BY <1>1, EnterEffect
<1>4. ASSUME NEW b \in Boxes
      PROVE  /\ SubSeq(msgs'[b].fields, 1, Len(msgs[b].fields)) = msgs[b].fields
             /\ msgs'[b] = msgs[b]
  <2>1. msgs'[b] = msgs[b] /\ msgs[b].fields \in Seq(FieldValue)
    BY <1>2, <1>3, MessageTypes
  <2> QED  BY <2>1, WholePrefix
<1>5. ASSUME NEW i \in Depths
      PROVE  stack'[i].pos >= stack[i].pos
  <2>1. stack[i].pos \in Nat
    BY CallTypes
  <2>2. CASE i = Len(stack)
    BY <1>1, <1>2, <1>3, <2>2
  <2>3. CASE i # Len(stack)
    BY <1>2, <1>3, <2>1, <2>3
  <2> QED  BY <2>2, <2>3
<1>6. Len(stack') # Len(stack)
  BY <1>2, <1>3
<1> QED  BY <1>4, <1>5, <1>6 DEF Forward

LEMMA ReturnForward ==
    ASSUME Inv, Running, ReturnStep
    PROVE  Forward
<1> DEFINE L == Len(stack)
           C == stack[L-1].box
<1>1. /\ L \in Nat /\ L > 0 /\ L \in Depths /\ Depths = 1..L /\ Top = stack[L]
      /\ Boxes = 1..Len(msgs) /\ Top.box \in Boxes
  BY TopFacts DEF Top, Depths, Boxes
<1>2. L = 1 \/ L > 1
  BY <1>1
<1>3. ASSUME NEW b \in Boxes
      PROVE  SubSeq(msgs'[b].fields, 1, Len(msgs[b].fields)) = msgs[b].fields
  <2>1. msgs[b].fields \in Seq(FieldValue)
    BY MessageTypes
  <2>2. CASE L > 1 /\ b = C
    <3> DEFINE s == msgs[C].fields
               t == msgs'[C].fields
               f == Top.ret[1]
    <3>1. s \in Seq(FieldValue) /\ t = Append(s, f) /\ f \in FieldValue
      BY <2>2, ReturnFields
    <3> HIDE DEF s, t, f
    <3>2. SubSeq(t, 1, Len(s)) = s
      BY <3>1, AppendPrefix
    <3> QED  BY <2>2, <3>2 DEF s, t
  <2>3. CASE L = 1 \/ b # C
    <3>1. msgs'[b].fields = msgs[b].fields
      BY <2>3, ReturnEffect
    <3>2. SubSeq(msgs[b].fields, 1, Len(msgs[b].fields)) = msgs[b].fields
      BY <2>1, WholePrefix
    <3> QED  BY <3>1, <3>2
  <2>4. (L > 1 /\ b = C) \/ (L = 1 \/ b # C)
    BY <1>2
  <2> QED  BY <2>2, <2>3, <2>4
<1>4. ASSUME NEW b \in Boxes, \A i \in Depths : stack[i].box # b
      PROVE  msgs'[b] = msgs[b]
  <2>1. b # Top.box /\ (L = 1 \/ b # C)
    <3>1. stack[L].box # b
      BY <1>1, <1>4
    <3>2. L > 1 => L - 1 \in Depths
      BY <1>1
    <3> QED  BY <1>1, <1>2, <1>4, <3>1, <3>2
  <2>2. msgs[b] \in MessageValue /\ msgs'[b] \in MessageValue
    BY <1>1, ReturnEffect DEF Inv, TypeOK
  <2>3. SameSlice(msgs'[b], msgs[b]) /\ msgs'[b].fields = msgs[b].fields
    BY <2>1, ReturnEffect DEF SameSlice
  <2> QED  BY <2>2, <2>3, SameMessage
<1>5. ASSUME NEW i \in Depths, i <= Len(stack')
      PROVE  stack'[i].pos >= stack[i].pos
  <2>1. stack[i].pos \in Nat
    BY CallTypes
  <2>2. i \in 1..(L-1)
    BY <1>1, <1>5, ReturnEffect
  <2> QED  BY <2>1, <2>2, ReturnEffect
<1>6. Len(stack') # Len(stack)
  BY <1>1, ReturnEffect
<1> QED  BY <1>3, <1>4, <1>5, <1>6 DEF Forward

LEMMA PanicForward ==
    ASSUME Inv, Running, PanicStep
    PROVE  Forward
<1>1. msgs' = msgs /\ stack' = stack /\ status' # "running"
  BY DEF PanicStep
<1>2. ASSUME NEW b \in Boxes
      PROVE  SubSeq(msgs[b].fields, 1, Len(msgs[b].fields)) = msgs[b].fields
  BY MessageTypes, WholePrefix
<1>3. ASSUME NEW i \in Depths
      PROVE  stack[i].pos >= stack[i].pos
  BY CallTypes
<1> QED  BY <1>1, <1>2, <1>3 DEF Forward

\* No step takes back what a call has decoded: a returned message never changes,
\* fields are only appended, cursors only move on, and every turn of the loop
\* that neither begins nor ends a call moves its cursor.
THEOREM NeverBack == Spec => OnlyForward
<1>1. Inv /\ [Next]_vars => [Forward]_vars
  <2> SUFFICES ASSUME Inv, Next
               PROVE  Forward
    OBVIOUS
  <2>1. Running /\ (PushStep \/ EnterStep \/ ReturnStep \/ PanicStep)
    BY StepShapes
  <2> QED  BY <2>1, PushForward, EnterForward, ReturnForward, PanicForward
<1> QED  BY <1>1, InvAlways, PTL DEF Spec, OnlyForward

-----------------------------------------------------------------------------
(* Every field keeps its tag and its frame *)

\* The fields of the messages, and those the callees will hand back.
AllRead ==
    /\ \A b \in Boxes : \A k \in 1..Len(msgs[b].fields) :
          WellRead(buf, msgs[b].fields[k], msgs[b].msg, msgs[b].hi)
    /\ \A i \in 2..Len(stack) : WellRead(buf, stack[i].ret[1], msgs[stack[i-1].box].msg, msgs[stack[i-1].box].hi)

LEMMA PushKeepsRead ==
    ASSUME Inv, Running, PushStep, AllRead
    PROVE  AllRead'
<1> DEFINE B == Top.box
<1>1. PICK f \in FieldValue, pos \in Nat : WellRead(buf, f, Value.msg, End) /\ Push(f, pos)
  BY DEF PushStep
<1>2. /\ Len(msgs') = Len(msgs) /\ Len(stack') = Len(stack) /\ buf' = buf
      /\ \A b \in Boxes : msgs'[b].hi = msgs[b].hi /\ msgs'[b].msg = msgs[b].msg
      /\ \A b \in Boxes : b # B => msgs'[b] = msgs[b]
      /\ \A i \in Depths : stack'[i].box = stack[i].box /\ stack'[i].ret = stack[i].ret
  BY <1>1, PushEffect DEF SameSlice
<1>3. /\ Boxes' = Boxes /\ Depths = 1..Len(stack) /\ Len(stack) \in Nat
      /\ B \in Boxes /\ End = msgs[B].hi /\ Value = msgs[B]
  BY <1>2, TopFacts DEF Boxes, Depths, End, Value
<1>4. /\ Len(msgs[B].fields) \in Nat
      /\ Len(msgs'[B].fields) = Len(msgs[B].fields) + 1
      /\ msgs'[B].fields[Len(msgs[B].fields) + 1] = f
      /\ \A k \in 1..Len(msgs[B].fields) : msgs'[B].fields[k] = msgs[B].fields[k]
  BY <1>1, PushFields
<1> HIDE DEF B
<1>5. ASSUME NEW b \in Boxes, NEW k \in 1..Len(msgs'[b].fields)
      PROVE  WellRead(buf, msgs'[b].fields[k], msgs'[b].msg, msgs'[b].hi)
  <2>1. CASE b # B
    BY <1>2, <1>5, <2>1 DEF AllRead
  <2>2. CASE b = B /\ k = Len(msgs[B].fields) + 1
    BY <1>1, <1>2, <1>3, <1>4, <2>2
  <2>3. CASE b = B /\ k \in 1..Len(msgs[B].fields)
    BY <1>2, <1>4, <2>3 DEF AllRead
  <2> QED  BY <1>4, <1>5, <2>1, <2>2, <2>3
<1>6. ASSUME NEW i \in 2..Len(stack)
      PROVE  WellRead(buf, stack'[i].ret[1], msgs'[stack'[i-1].box].msg, msgs'[stack'[i-1].box].hi)
  <2>1. i \in Depths /\ i - 1 \in Depths /\ stack[i-1].box \in Boxes
    BY <1>3, CallTypes
  <2> QED  BY <1>2, <2>1 DEF AllRead
<1> QED  BY <1>2, <1>3, <1>5, <1>6 DEF AllRead

LEMMA EnterKeepsRead ==
    ASSUME Inv, Running, EnterStep, AllRead
    PROVE  AllRead'
<1> DEFINE L == Len(stack)
           N == Len(msgs)
<1>1. PICK f \in FieldValue, lo \in Nat, m \in Messages :
        WellRead(buf, f, Value.msg, End) /\ Enter(f, lo, m)
  BY DEF EnterStep
<1>2. /\ Len(msgs') = N + 1 /\ msgs'[N + 1] = NewMessage(m, lo, f.to)
      /\ \A b \in 1..N : msgs'[b] = msgs[b]
      /\ Len(stack') = L + 1
      /\ stack'[L + 1] = [box |-> N + 1, pos |-> lo, ret |-> <<f>>]
      /\ \A i \in 1..L : stack'[i].box = stack[i].box /\ stack'[i].ret = stack[i].ret
      /\ buf' = buf
  BY <1>1, EnterEffect
<1>3. Len(msgs'[N + 1].fields) = 0 /\ stack'[L + 1].ret[1] = f
  BY <1>2 DEF NewMessage
<1>4. /\ Boxes = 1..N /\ Boxes' = 1..(N + 1) /\ N \in Nat /\ Depths = 1..L
      /\ L \in Nat /\ L > 0 /\ stack[L].box \in 1..N /\ End = msgs[stack[L].box].hi
      /\ Value = msgs[stack[L].box]
  BY <1>2, TopFacts DEF Boxes, Depths, End, Value, Top
<1> HIDE DEF L, N
<1>5. ASSUME NEW b \in 1..(N + 1), NEW k \in 1..Len(msgs'[b].fields)
      PROVE  WellRead(buf, msgs'[b].fields[k], msgs'[b].msg, msgs'[b].hi)
  <2>1. b # N + 1
    <3> SUFFICES ASSUME b = N + 1
                 PROVE  FALSE
      OBVIOUS
    <3>1. k \in 1..0
      BY <1>3, <1>5
    <3> QED  BY <3>1
  <2>2. b \in 1..N
    BY <1>4, <2>1
  <2> QED  BY <1>2, <1>4, <1>5, <2>2 DEF AllRead
<1>6. ASSUME NEW i \in 2..(L + 1)
      PROVE  WellRead(buf, stack'[i].ret[1], msgs'[stack'[i-1].box].msg, msgs'[stack'[i-1].box].hi)
  <2>1. CASE i = L + 1
    <3>1. stack'[i-1].box = stack[L].box /\ msgs'[stack[L].box] = msgs[stack[L].box]
      BY <1>2, <1>4, <2>1
    <3> QED  BY <1>1, <1>3, <1>4, <2>1, <3>1
  <2>2. CASE i \in 2..L
    <3>1. i \in Depths /\ i - 1 \in Depths /\ stack[i-1].box \in Boxes
      BY <1>4, <2>2, CallTypes
    <3> QED  BY <1>2, <1>4, <2>2, <3>1 DEF AllRead, L
  <2> QED  BY <1>4, <2>1, <2>2
<1> QED  BY <1>2, <1>4, <1>5, <1>6 DEF AllRead

LEMMA ReturnKeepsRead ==
    ASSUME Inv, Running, ReturnStep, AllRead
    PROVE  AllRead'
<1> DEFINE L == Len(stack)
           C == stack[L-1].box
           f == Top.ret[1]
<1>1. /\ Len(msgs') = Len(msgs) /\ buf' = buf
      /\ \A b \in Boxes : msgs'[b].hi = msgs[b].hi /\ msgs'[b].msg = msgs[b].msg
      /\ \A b \in Boxes : L = 1 \/ b # C => msgs'[b].fields = msgs[b].fields
      /\ Len(stack') = L - 1
      /\ \A i \in 1..(L-1) : stack'[i] = stack[i]
  BY ReturnEffect
<1>2. /\ Boxes' = Boxes /\ Depths = 1..L /\ L \in Nat /\ L > 0 /\ Top = stack[L]
  BY <1>1, TopFacts DEF Boxes, Depths, Top
<1>3. L = 1 \/ L > 1
  <2> HIDE DEF L, C, f
  <2> QED  BY <1>2
<1>4. ASSUME L > 1
      PROVE  /\ C \in Boxes /\ WellRead(buf, f, msgs[C].msg, msgs[C].hi)
             /\ Len(msgs[C].fields) \in Nat
             /\ Len(msgs'[C].fields) = Len(msgs[C].fields) + 1
             /\ msgs'[C].fields[Len(msgs[C].fields) + 1] = f
             /\ \A k \in 1..Len(msgs[C].fields) : msgs'[C].fields[k] = msgs[C].fields[k]
  <2>1. L \in 2..L
    BY <1>2, <1>4
  <2>2. WellRead(buf, f, msgs[C].msg, msgs[C].hi)
    BY <1>2, <2>1 DEF AllRead
  <2> QED  BY <1>4, <2>2, ReturnFields
<1> HIDE DEF C, f
<1>5. ASSUME NEW b \in Boxes, NEW k \in 1..Len(msgs'[b].fields)
      PROVE  WellRead(buf, msgs'[b].fields[k], msgs'[b].msg, msgs'[b].hi)
  <2>1. CASE L = 1 \/ b # C
    BY <1>1, <1>5, <2>1 DEF AllRead
  <2>2. CASE L > 1 /\ b = C
    <3>1. CASE k = Len(msgs[C].fields) + 1
      BY <1>1, <1>4, <2>2, <3>1
    <3>2. CASE k \in 1..Len(msgs[C].fields)
      BY <1>1, <1>4, <2>2, <3>2 DEF AllRead
    <3> QED  BY <1>4, <1>5, <2>2, <3>1, <3>2
  <2> QED  BY <1>3, <2>1, <2>2
<1>6. ASSUME NEW i \in 2..(L-1)
      PROVE  WellRead(buf, stack'[i].ret[1], msgs'[stack'[i-1].box].msg, msgs'[stack'[i-1].box].hi)
  <2>1. /\ i \in 2..L /\ i \in 1..(L-1) /\ i - 1 \in 1..(L-1) /\ i - 1 \in Depths
        /\ stack[i-1].box \in Boxes
    BY <1>2, CallTypes
  <2> QED  BY <1>1, <2>1 DEF AllRead
<1> QED  BY <1>1, <1>2, <1>5, <1>6 DEF AllRead

LEMMA FreshAllRead ==
    ASSUME Fresh
    PROVE  AllRead
<1>1. PICK m \in Messages : msgs = <<NewMessage(m, 0, Len(buf))>>
  BY DEF Fresh
<1>2. Len(msgs) = 1 /\ Len(msgs[1].fields) = 0 /\ Len(stack) = 1
  BY <1>1 DEF Fresh, NewMessage
<1> QED  BY <1>2 DEF AllRead, Boxes

LEMMA NextAllRead ==
    ASSUME Inv, AllRead, [Next]_vars
    PROVE  AllRead'
<1>1. CASE Next
  <2>1. Running /\ (PushStep \/ EnterStep \/ ReturnStep \/ PanicStep)
    BY <1>1, StepShapes
  <2>2. CASE PanicStep
    BY <2>2 DEF PanicStep, AllRead, Boxes
  <2> QED  BY <2>1, <2>2, PushKeepsRead, EnterKeepsRead, ReturnKeepsRead
<1>2. CASE UNCHANGED vars
  BY <1>2 DEF vars, AllRead, Boxes
<1> QED  BY <1>1, <1>2

LEMMA AllReadAlways == Spec => []AllRead
BY InvAlways, InitFresh, FreshAllRead, NextAllRead, PTL DEF Spec

\* A field encodes with the number and the wire type of the tag it was read from,
\* whichever of the three decoders made its value.
THEOREM TagsKept == Spec => []TagSurvives
<1>1. Inv /\ AllRead => TagSurvives
  <2> SUFFICES ASSUME Inv, AllRead, NEW b \in Boxes, NEW f \in FieldsOf(b)
               PROVE  KeepsTag(buf, f, msgs[b].hi)
    BY DEF TagSurvives, KeepsTag
  <2> QED  BY DEF AllRead, WellRead, FieldsOf
<1> QED  BY <1>1, InvAlways, AllReadAlways, PTL

-----------------------------------------------------------------------------
(* The fields tile their message *)

\* A field that starts at x goes on where message m ends so far.
Follows(b, x, m) ==
    /\ Len(m.fields) = 0 => x = m.lo
    /\ Len(m.fields) > 0 /\ ~DecodedAgain(b, m.fields[Len(m.fields)])
         => x = m.fields[Len(m.fields)].to

Tiles(b, m) ==
    \A k \in 1..Len(m.fields) :
        /\ k = 1 => m.fields[k].from = m.lo
        /\ k > 1 /\ ~DecodedAgain(b, m.fields[k-1]) => m.fields[k].from = m.fields[k-1].to

\* Where the next field of a call starts: at its cursor, or where the field
\* starts that its callee will hand back.
Linked ==
    /\ \A b \in Boxes : Tiles(buf, msgs[b])
    /\ \A d \in Depths :
          /\ d = Len(stack) => Follows(buf, stack[d].pos, msgs[stack[d].box])
          /\ d < Len(stack) => Follows(buf, stack[d+1].ret[1].from, msgs[stack[d].box])
          /\ d > 1 => stack[d].ret[1].to = stack[d-1].pos

LEMMA SameTiles ==
    ASSUME NEW m, NEW n, m.fields = n.fields, m.lo = n.lo
    PROVE  /\ Tiles(buf, m) => Tiles(buf, n)
           /\ \A x : Follows(buf, x, m) => Follows(buf, x, n)
BY DEF Tiles, Follows

LEMMA MoreTiles ==
    ASSUME NEW m, NEW n, NEW f, n.lo = m.lo, Len(m.fields) \in Nat,
           Len(n.fields) = Len(m.fields) + 1, n.fields[Len(m.fields) + 1] = f,
           \A k \in 1..Len(m.fields) : n.fields[k] = m.fields[k],
           Tiles(buf, m), Follows(buf, f.from, m)
    PROVE  /\ Tiles(buf, n)
           /\ \A x : x = f.to \/ DecodedAgain(buf, f) => Follows(buf, x, n)
<1> DEFINE c == Len(m.fields)
<1>1. ASSUME NEW k \in 1..(c + 1)
      PROVE  /\ k = 1 => n.fields[k].from = n.lo
             /\ k > 1 /\ ~DecodedAgain(buf, n.fields[k-1])
                  => n.fields[k].from = n.fields[k-1].to
  <2>1. CASE k \in 1..c
    <3>1. k > 1 => k - 1 \in 1..c
      BY <2>1
    <3> QED  BY <2>1, <3>1 DEF Tiles
  <2>2. CASE k = c + 1
    <3>1. CASE c = 0
      BY <2>2, <3>1 DEF Follows
    <3>2. CASE c > 0
      <4>1. c \in 1..c /\ k - 1 = c /\ k # 1
        BY <2>2, <3>2
      <4> QED  BY <2>2, <3>2, <4>1 DEF Follows
    <3> QED  BY <3>1, <3>2
  <2> QED  BY <2>1, <2>2
<1>2. Tiles(buf, n)
  BY <1>1 DEF Tiles
<1>3. ASSUME NEW x, x = f.to \/ DecodedAgain(buf, f)
      PROVE  Follows(buf, x, n)
  BY <1>3 DEF Follows
<1> QED  BY <1>2, <1>3

LEMMA PushKeepsLinked ==
    ASSUME Inv, Running, PushStep, Linked
    PROVE  Linked'
<1> DEFINE B == Top.box
           L == Len(stack)
<1>1. PICK f \in FieldValue, pos \in Nat :
        /\ f.from = Top.pos /\ (pos = f.to \/ DecodedAgain(buf, f))
        /\ Push(f, pos)
  BY DEF PushStep
<1>2. /\ Len(msgs') = Len(msgs) /\ Len(stack') = L /\ buf' = buf
      /\ \A b \in Boxes : msgs'[b].lo = msgs[b].lo
      /\ \A b \in Boxes : b # B => msgs'[b] = msgs[b]
      /\ \A i \in Depths : /\ stack'[i].box = stack[i].box
                           /\ stack'[i].ret = stack[i].ret
                           /\ i # L => stack'[i] = stack[i]
      /\ stack'[L].pos = pos
  BY <1>1, PushEffect DEF SameSlice
<1>3. /\ Boxes' = Boxes /\ Depths' = Depths /\ Depths = 1..L /\ L \in Nat /\ L \in Depths
      /\ B \in Boxes /\ Top = stack[L]
  BY <1>2, TopFacts DEF Boxes, Depths, Top
<1>4. pos = f.to \/ DecodedAgain(buf, f)
  BY <1>1
<1>5. Tiles(buf, msgs[B]) /\ Follows(buf, f.from, msgs[B])
  BY <1>1, <1>3 DEF Linked
<1>6. Tiles(buf, msgs'[B]) /\ Follows(buf, pos, msgs'[B])
  <2>1. /\ Len(msgs[B].fields) \in Nat
        /\ Len(msgs'[B].fields) = Len(msgs[B].fields) + 1
        /\ msgs'[B].fields[Len(msgs[B].fields) + 1] = f
        /\ \A k \in 1..Len(msgs[B].fields) : msgs'[B].fields[k] = msgs[B].fields[k]
    BY <1>1, PushFields
  <2>2. msgs'[B].lo = msgs[B].lo
    BY <1>2, <1>3
  <2> HIDE DEF B
  <2> QED  BY <1>4, <1>5, <2>1, <2>2, MoreTiles
<1>7. \A b \in Boxes : Tiles(buf, msgs'[b])
  BY <1>2, <1>6 DEF Linked
<1>8. ASSUME NEW d \in Depths
      PROVE  /\ d = L => Follows(buf, stack'[d].pos, msgs'[stack'[d].box])
             /\ d < L => Follows(buf, stack'[d+1].ret[1].from, msgs'[stack'[d].box])
             /\ d > 1 => stack'[d].ret[1].to = stack'[d-1].pos
  <2>1. d = L => Follows(buf, stack'[d].pos, msgs'[stack'[d].box])
    BY <1>2, <1>3, <1>6
  <2>2. ASSUME d < L
        PROVE  Follows(buf, stack'[d+1].ret[1].from, msgs'[stack'[d].box])
    <3>1. d + 1 \in Depths /\ d # L
      BY <1>3, <2>2
    <3>2. stack[d].box \in Boxes /\ stack[d].box # B
      BY <1>3, <3>1, CallTypes, CallsDiffer
    <3> QED  BY <1>2, <2>2, <3>1, <3>2 DEF Linked
  <2>3. ASSUME d > 1
        PROVE  stack'[d].ret[1].to = stack'[d-1].pos
    <3>1. d - 1 \in Depths /\ d - 1 # L
      BY <1>3, <2>3
    <3> QED  BY <1>2, <2>3, <3>1 DEF Linked
  <2> QED  BY <2>1, <2>2, <2>3
<1> QED  BY <1>2, <1>3, <1>7, <1>8 DEF Linked

LEMMA EnterKeepsLinked ==
    ASSUME Inv, Running, EnterStep, Linked
    PROVE  Linked'
<1> DEFINE L == Len(stack)
           N == Len(msgs)
<1>1. PICK f \in FieldValue, lo \in Nat, m \in Messages :
        f.from = Top.pos /\ Enter(f, lo, m)
  BY DEF EnterStep
<1>2. /\ buf' = buf /\ Len(msgs') = N + 1 /\ msgs'[N + 1] = NewMessage(m, lo, f.to)
      /\ \A b \in 1..N : msgs'[b] = msgs[b]
      /\ Len(stack') = L + 1
      /\ stack'[L + 1] = [box |-> N + 1, pos |-> lo, ret |-> <<f>>]
      /\ \A i \in 1..L : /\ stack'[i].box = stack[i].box
                         /\ stack'[i].ret = stack[i].ret
                         /\ i # L => stack'[i] = stack[i]
      /\ stack'[L].pos = f.to
  BY <1>1, EnterEffect
<1>3. /\ Len(msgs'[N + 1].fields) = 0 /\ msgs'[N + 1].lo = lo
      /\ stack'[L + 1].box = N + 1 /\ stack'[L + 1].pos = lo /\ stack'[L + 1].ret[1] = f
  BY <1>2 DEF NewMessage
<1>4. /\ Boxes = 1..N /\ Boxes' = 1..(N + 1) /\ N \in Nat
      /\ Depths = 1..L /\ Depths' = 1..(L + 1)
      /\ L \in Nat /\ L > 0 /\ Top = stack[L]
  BY <1>2, TopFacts DEF Boxes, Depths, Top
<1>5. \A d \in 1..L : stack[d].box \in 1..N
  BY <1>4, CallTypes
<1> HIDE DEF L, N
<1>6. ASSUME NEW b \in 1..(N + 1)
      PROVE  Tiles(buf, msgs'[b])
  <2>1. CASE b = N + 1
    BY <1>3, <2>1 DEF Tiles
  <2>2. CASE b \in 1..N
    BY <1>2, <1>4, <2>2 DEF Linked
  <2> QED  BY <1>4, <2>1, <2>2
<1>7. ASSUME NEW d \in 1..(L + 1)
      PROVE  /\ d = L + 1 => Follows(buf, stack'[d].pos, msgs'[stack'[d].box])
             /\ d < L + 1 => Follows(buf, stack'[d+1].ret[1].from, msgs'[stack'[d].box])
             /\ d > 1 => stack'[d].ret[1].to = stack'[d-1].pos
  <2>1. d = L + 1 => Follows(buf, stack'[d].pos, msgs'[stack'[d].box])
    BY <1>3 DEF Follows
  <2>2. ASSUME d < L + 1
        PROVE  Follows(buf, stack'[d+1].ret[1].from, msgs'[stack'[d].box])
    <3>1. d \in 1..L /\ msgs'[stack'[d].box] = msgs[stack[d].box]
      BY <1>2, <1>4, <1>5, <2>2
    <3>2. CASE d = L
      <4>1. Follows(buf, stack[d].pos, msgs[stack[d].box])
        BY <1>4, <3>1, <3>2 DEF Linked, L
      <4> QED  BY <1>1, <1>3, <1>4, <3>1, <3>2, <4>1
    <3>3. CASE d # L
      <4>1. d < L /\ d + 1 \in 1..L
        BY <1>4, <3>1, <3>3
      <4>2. Follows(buf, stack[d+1].ret[1].from, msgs[stack[d].box])
        BY <1>4, <3>1, <4>1 DEF Linked, L
      <4> QED  BY <1>2, <3>1, <4>1, <4>2
    <3> QED  BY <3>2, <3>3
  <2>3. ASSUME d > 1
        PROVE  stack'[d].ret[1].to = stack'[d-1].pos
    <3>1. CASE d = L + 1
      BY <1>2, <1>3, <1>4, <3>1
    <3>2. CASE d # L + 1
      <4>1. d \in 1..L /\ d - 1 \in 1..L /\ d - 1 # L
        BY <1>4, <2>3, <3>2
      <4> QED  BY <1>2, <1>4, <2>3, <4>1 DEF Linked
    <3> QED  BY <3>1, <3>2
  <2> QED  BY <2>1, <2>2, <2>3
<1> QED  BY <1>2, <1>4, <1>6, <1>7 DEF Linked

LEMMA ReturnKeepsLinked ==
    ASSUME Inv, Running, ReturnStep, Linked
    PROVE  Linked'
<1> DEFINE L == Len(stack)
           C == stack[L-1].box
           f == Top.ret[1]
<1>1. /\ Len(msgs') = Len(msgs) /\ buf' = buf
      /\ \A b \in Boxes : msgs'[b].lo = msgs[b].lo
      /\ \A b \in Boxes : L = 1 \/ b # C => msgs'[b].fields = msgs[b].fields
      /\ Len(stack') = L - 1
      /\ \A i \in 1..(L-1) : stack'[i] = stack[i]
  BY ReturnEffect
<1>2. /\ Boxes' = Boxes /\ Depths = 1..L /\ Depths' = 1..(L-1)
      /\ L \in Nat /\ L > 0 /\ Top = stack[L]
  BY <1>1, TopFacts DEF Boxes, Depths, Top
<1>3. L = 1 \/ L > 1
  <2> HIDE DEF L, C, f
  <2> QED  BY <1>2
<1>4. ASSUME L > 1
      PROVE  C \in Boxes /\ Tiles(buf, msgs'[C]) /\ Follows(buf, stack[L-1].pos, msgs'[C])
  <2>1. L - 1 \in Depths /\ L \in Depths /\ L - 1 < L /\ (L - 1) + 1 = L
    BY <1>2, <1>4
  <2>2. C \in Boxes /\ msgs'[C].lo = msgs[C].lo
    BY <1>1, <2>1, CallTypes
  <2>3. Tiles(buf, msgs[C]) /\ Follows(buf, f.from, msgs[C]) /\ f.to = stack[L-1].pos
    BY <1>2, <1>4, <2>1, <2>2 DEF Linked
  <2>4. /\ Len(msgs[C].fields) \in Nat
        /\ Len(msgs'[C].fields) = Len(msgs[C].fields) + 1
        /\ msgs'[C].fields[Len(msgs[C].fields) + 1] = f
        /\ \A k \in 1..Len(msgs[C].fields) : msgs'[C].fields[k] = msgs[C].fields[k]
    BY <1>4, ReturnFields
  <2> HIDE DEF C, f
  <2> QED  BY <2>2, <2>3, <2>4, MoreTiles
<1> HIDE DEF f
<1>5. ASSUME NEW b \in Boxes
      PROVE  Tiles(buf, msgs'[b])
  <2>1. CASE L > 1 /\ b = C
    BY <1>4, <2>1
  <2>2. CASE L = 1 \/ b # C
    <3>1. Tiles(buf, msgs[b])
      BY DEF Linked
    <3> QED  BY <1>1, <2>2, <3>1, SameTiles
  <2>3. (L > 1 /\ b = C) \/ (L = 1 \/ b # C)
    BY <1>3
  <2> QED  BY <2>1, <2>2, <2>3
<1>6. ASSUME NEW d \in 1..(L-1)
      PROVE  /\ d = L - 1 => Follows(buf, stack'[d].pos, msgs'[stack'[d].box])
             /\ d < L - 1 => Follows(buf, stack'[d+1].ret[1].from, msgs'[stack'[d].box])
             /\ d > 1 => stack'[d].ret[1].to = stack'[d-1].pos
  <2>1. d \in Depths /\ L > 1 /\ stack'[d] = stack[d]
    BY <1>1, <1>2
  <2>2. d = L - 1 => Follows(buf, stack'[d].pos, msgs'[stack'[d].box])
    BY <1>4, <2>1
  <2>3. ASSUME d < L - 1
        PROVE  Follows(buf, stack'[d+1].ret[1].from, msgs'[stack'[d].box])
    <3>1. /\ d + 1 \in 1..(L-1) /\ d + 1 \in Depths /\ d < L
          /\ L - 1 \in Depths /\ d # L - 1
      BY <1>2, <2>3
    <3>2. stack[d].box \in Boxes /\ stack[d].box # C
      BY <2>1, <3>1, CallTypes, CallsDiffer
    <3>3. /\ msgs'[stack[d].box].fields = msgs[stack[d].box].fields
          /\ msgs'[stack[d].box].lo = msgs[stack[d].box].lo
      BY <1>1, <3>2
    <3>4. Follows(buf, stack[d+1].ret[1].from, msgs[stack[d].box])
      BY <2>1, <3>1 DEF Linked
    <3>5. Follows(buf, stack[d+1].ret[1].from, msgs'[stack[d].box])
      BY <3>3, <3>4, SameTiles
    <3> QED  BY <1>1, <2>1, <3>1, <3>5
  <2>4. ASSUME d > 1
        PROVE  stack'[d].ret[1].to = stack'[d-1].pos
    <3>1. d - 1 \in 1..(L-1)
      BY <1>2, <2>4
    <3> QED  BY <1>1, <2>1, <2>4, <3>1 DEF Linked
  <2> QED  BY <2>2, <2>3, <2>4
<1> QED  BY <1>1, <1>2, <1>5, <1>6 DEF Linked

LEMMA FreshLinked ==
    ASSUME Fresh
    PROVE  Linked
<1>1. PICK m \in Messages : msgs = <<NewMessage(m, 0, Len(buf))>>
  BY DEF Fresh
<1>2. /\ Len(msgs) = 1 /\ Len(msgs[1].fields) = 0 /\ msgs[1].lo = 0
      /\ Len(stack) = 1 /\ stack[1].box = 1 /\ stack[1].pos = 0
  BY <1>1 DEF Fresh, NewMessage
<1> QED  BY <1>2 DEF Linked, Tiles, Follows, Boxes, Depths

LEMMA NextLinked ==
    ASSUME Inv, Linked, [Next]_vars
    PROVE  Linked'
<1>1. CASE Next
  <2>1. Running /\ (PushStep \/ EnterStep \/ ReturnStep \/ PanicStep)
    BY <1>1, StepShapes
  <2>2. CASE PanicStep
    BY <2>2 DEF PanicStep, Linked, Boxes, Depths
  <2> QED  BY <2>1, <2>2, PushKeepsLinked, EnterKeepsLinked, ReturnKeepsLinked
<1>2. CASE UNCHANGED vars
  BY <1>2 DEF vars, Linked, Boxes, Depths
<1> QED  BY <1>1, <1>2

LEMMA LinkedAlways == Spec => []Linked
BY InvAlways, InitFresh, FreshLinked, NextLinked, PTL DEF Spec

\* A reader without the schema splits every message into the same fields: each
\* starts where the one before it ends and ends where its wire type says.
THEOREM FramingCorrect == Spec => []SchemaFreeFraming
<1>1. AllRead /\ Linked => SchemaFreeFraming
  <2> SUFFICES ASSUME AllRead, Linked, NEW b \in Boxes, NEW k \in 1..Len(msgs[b].fields)
               PROVE  LET m == msgs[b]
                          f == m.fields[k]
                          ends == UnknownEnds(f.wire, buf, f.at, m.hi)
                      IN  /\ k = 1 => f.from = m.lo
                          /\ k > 1 /\ ~DecodedAgain(buf, m.fields[k-1])
                               => f.from = m.fields[k-1].to
                          /\ f.kind # "Incomplete" => ends = {f.to}
                          /\ f.kind = "Incomplete" /\ f.origin # "packed" => ends = {}
    BY DEF SchemaFreeFraming
  <2>1. Tiles(buf, msgs[b]) /\ Framed(buf, msgs[b].fields[k], msgs[b].hi)
    BY DEF AllRead, Linked, WellRead
  <2> QED  BY <2>1 DEF Tiles, Framed
<1> QED  BY <1>1, AllReadAlways, LinkedAlways, PTL

-----------------------------------------------------------------------------
(* The messages nest *)

\* Field f of message m leads to message n.
Leads(m, f, n) ==
    /\ f.kind = "Message" /\ f.at < n.lo /\ n.hi = f.to
    /\ n.msg = Schema[m.msg][f.number].ref

\* Holders, for the messages of any state.
HoldersIn(ms, c) ==
    UNION {{b} \X {k \in 1..Len(ms[b].fields) : ms[b].fields[k].box = c} : b \in 1..Len(ms)}

\* Every box in a field is a later one, and the field leads to it.
FieldsLead(ms) ==
    \A b \in 1..Len(ms) : \A k \in 1..Len(ms[b].fields) :
        LET c == ms[b].fields[k].box
        IN  c # NoBox => /\ c \in 1..Len(ms) /\ b < c
                         /\ Leads(ms[b], ms[b].fields[k], ms[c])

\* No box is in two fields.
HeldOnce(ms) ==
    \A c \in 1..Len(ms) : \A g, h \in HoldersIn(ms, c) : g = h

\* Every box but the root is in a field or is being filled by a call.
HeldAtAll(ms, st) ==
    \A c \in 1..Len(ms) : \/ c = 1
                          \/ HoldersIn(ms, c) # {}
                          \/ \E i \in 2..Len(st) : st[i].box = c

\* The field a call will hand back leads to its box, which no other field holds.
CallsLead(ms, st) ==
    \A i \in 2..Len(st) : /\ st[i].ret[1].box = st[i].box
                          /\ Leads(ms[st[i-1].box], st[i].ret[1], ms[st[i].box])
                          /\ HoldersIn(ms, st[i].box) = {}

Nested ==
    /\ FieldsLead(msgs) /\ HeldOnce(msgs)
    /\ HeldAtAll(msgs, stack) /\ CallsLead(msgs, stack)

LEMMA HolderIs ==
    ASSUME NEW ms, NEW c, NEW h
    PROVE  h \in HoldersIn(ms, c) <=> \E b \in 1..Len(ms) : \E k \in 1..Len(ms[b].fields) :
                                          h = <<b, k>> /\ ms[b].fields[k].box = c
BY DEF HoldersIn

LEMMA SameLead ==
    ASSUME NEW m, NEW n, NEW f, NEW x, NEW y, m.msg = x.msg,
           n.lo = y.lo, n.hi = y.hi, n.msg = y.msg, Leads(m, f, n)
    PROVE  Leads(x, f, y)
BY DEF Leads

LEMMA PushKeepsNested ==
    ASSUME Inv, Running, PushStep, Nested
    PROVE  Nested'
<1> DEFINE B == Top.box
           n == Len(msgs[B].fields) + 1
           N == Len(msgs)
           L == Len(stack)
<1>1. PICK f \in FieldValue, pos \in Nat : f.box = NoBox /\ Push(f, pos)
  BY DEF PushStep
<1>2. /\ Len(msgs') = N /\ Len(stack') = L
      /\ \A b \in 1..N : /\ msgs'[b].msg = msgs[b].msg
                         /\ msgs'[b].lo = msgs[b].lo /\ msgs'[b].hi = msgs[b].hi
      /\ \A b \in 1..N : b # B => msgs'[b] = msgs[b]
      /\ \A i \in 1..L : stack'[i].box = stack[i].box /\ stack'[i].ret = stack[i].ret
  BY <1>1, PushEffect DEF SameSlice, Boxes, Depths
<1>3. L \in Nat /\ B \in 1..N /\ N \in Nat
  BY TopFacts DEF Boxes
<1>4. /\ n \in Nat /\ n - 1 \in Nat /\ Len(msgs[B].fields) = n - 1
      /\ Len(msgs'[B].fields) = n /\ msgs'[B].fields[n] = f
      /\ \A k \in 1..(n-1) : msgs'[B].fields[k] = msgs[B].fields[k]
  BY <1>1, PushFields
<1>5. \A i \in 1..L : stack[i].box \in 1..N
  BY CallTypes DEF Boxes, Depths
<1> HIDE DEF B, n, N, L
<1>6. ASSUME NEW b \in 1..N, NEW k \in 1..Len(msgs'[b].fields),
             msgs'[b].fields[k].box # NoBox
      PROVE  k \in 1..Len(msgs[b].fields) /\ msgs'[b].fields[k] = msgs[b].fields[k]
  <2>1. CASE b # B
    BY <1>2, <1>6, <2>1
  <2>2. CASE b = B
    <3>1. k \in 1..n /\ k # n
      BY <1>1, <1>4, <1>6, <2>2
    <3>2. k \in 1..(n-1)
      BY <1>4, <3>1
    <3> QED  BY <1>4, <2>2, <3>2
  <2> QED  BY <2>1, <2>2
<1>7. ASSUME NEW b \in 1..N, NEW k \in 1..Len(msgs[b].fields)
      PROVE  k \in 1..Len(msgs'[b].fields) /\ msgs'[b].fields[k] = msgs[b].fields[k]
  <2>1. CASE b # B
    BY <1>2, <1>7, <2>1
  <2>2. CASE b = B
    <3>1. k \in 1..(n-1) /\ k \in 1..n
      BY <1>4, <1>7, <2>2
    <3> QED  BY <1>4, <2>2, <3>1
  <2> QED  BY <2>1, <2>2
<1>8. ASSUME NEW h, NEW c, c # NoBox
      PROVE  h \in HoldersIn(msgs, c) <=> h \in HoldersIn(msgs', c)
  <2>1. h \in HoldersIn(msgs, c) <=> \E b \in 1..N : \E k \in 1..Len(msgs[b].fields) :
                                         h = <<b, k>> /\ msgs[b].fields[k].box = c
    BY HolderIs DEF N
  <2>2. h \in HoldersIn(msgs', c) <=> \E b \in 1..N : \E k \in 1..Len(msgs'[b].fields) :
                                          h = <<b, k>> /\ msgs'[b].fields[k].box = c
    BY <1>2, HolderIs
  <2> QED  BY <1>6, <1>7, <1>8, <2>1, <2>2
<1>9. FieldsLead(msgs')
  <2> SUFFICES ASSUME NEW b \in 1..N, NEW k \in 1..Len(msgs'[b].fields),
                      msgs'[b].fields[k].box # NoBox
               PROVE  LET c == msgs'[b].fields[k].box
                      IN  c \in 1..N /\ b < c /\ Leads(msgs'[b], msgs'[b].fields[k], msgs'[c])
    BY <1>2 DEF FieldsLead
  <2> DEFINE c == msgs[b].fields[k].box
  <2>1. k \in 1..Len(msgs[b].fields) /\ msgs'[b].fields[k] = msgs[b].fields[k] /\ c # NoBox
    BY <1>6
  <2>2. c \in 1..N /\ b < c /\ Leads(msgs[b], msgs[b].fields[k], msgs[c])
    BY <2>1 DEF Nested, FieldsLead, N
  <2> HIDE DEF c
  <2>3. Leads(msgs'[b], msgs[b].fields[k], msgs'[c])
    BY <1>2, <2>2, SameLead
  <2> QED  BY <2>1, <2>2, <2>3 DEF c
<1>10. HeldOnce(msgs')
  <2>1. \A c \in 1..N : c # NoBox
    BY DEF NoBox
  <2> QED  BY <1>2, <1>8, <2>1 DEF Nested, HeldOnce, N
<1>11. HeldAtAll(msgs', stack')
  <2> SUFFICES ASSUME NEW c \in 1..N, c # 1
               PROVE  HoldersIn(msgs', c) # {} \/ \E i \in 2..L : stack'[i].box = c
    BY <1>2 DEF HeldAtAll
  <2>1. HoldersIn(msgs, c) # {} \/ \E i \in 2..L : stack[i].box = c
    BY DEF Nested, HeldAtAll, N, L
  <2>2. c # NoBox /\ \A i \in 2..L : i \in 1..L
    BY <1>3 DEF NoBox
  <2> QED  BY <1>2, <1>8, <2>1, <2>2
<1>12. CallsLead(msgs', stack')
  <2> SUFFICES ASSUME NEW i \in 2..L
               PROVE  /\ stack'[i].ret[1].box = stack'[i].box
                      /\ Leads(msgs'[stack'[i-1].box], stack'[i].ret[1], msgs'[stack'[i].box])
                      /\ HoldersIn(msgs', stack'[i].box) = {}
    BY <1>2 DEF CallsLead
  <2>1. /\ i \in 1..L /\ i - 1 \in 1..L
        /\ stack[i].box \in 1..N /\ stack[i-1].box \in 1..N
    BY <1>3, <1>5
  <2>2. /\ stack[i].ret[1].box = stack[i].box /\ HoldersIn(msgs, stack[i].box) = {}
        /\ Leads(msgs[stack[i-1].box], stack[i].ret[1], msgs[stack[i].box])
    BY DEF Nested, CallsLead, L
  <2>3. Leads(msgs'[stack[i-1].box], stack[i].ret[1], msgs'[stack[i].box])
    BY <1>2, <2>1, <2>2, SameLead
  <2>4. HoldersIn(msgs', stack[i].box) = {}
    BY <1>8, <2>1, <2>2 DEF NoBox
  <2> QED  BY <1>2, <2>1, <2>2, <2>3, <2>4
<1> QED  BY <1>9, <1>10, <1>11, <1>12 DEF Nested

LEMMA EnterKeepsNested ==
    ASSUME Inv, Running, EnterStep, Nested
    PROVE  Nested'
<1> DEFINE N == Len(msgs)
           L == Len(stack)
<1>1. PICK f \in FieldValue, lo \in Nat, m \in Messages :
        /\ f.kind = "Message" /\ f.box = N + 1 /\ f.at < lo
        /\ m = Schema[Value.msg][f.number].ref
        /\ Enter(f, lo, m)
  BY DEF EnterStep
<1>2. /\ Len(msgs') = N + 1 /\ msgs'[N + 1] = NewMessage(m, lo, f.to)
      /\ \A b \in 1..N : msgs'[b] = msgs[b]
      /\ Len(stack') = L + 1
      /\ stack'[L + 1] = [box |-> N + 1, pos |-> lo, ret |-> <<f>>]
      /\ \A i \in 1..L : stack'[i].box = stack[i].box /\ stack'[i].ret = stack[i].ret
  BY <1>1, EnterEffect
<1>3. /\ Len(msgs'[N + 1].fields) = 0 /\ Leads(Value, f, msgs'[N + 1])
      /\ stack'[L + 1].box = N + 1 /\ stack'[L + 1].ret[1] = f
  BY <1>1, <1>2 DEF NewMessage, Leads
<1>4. L \in Nat /\ L > 0 /\ N \in Nat /\ Value = msgs[stack[L].box]
  BY TopFacts DEF Value, Top
<1>5. \A i \in 1..L : stack[i].box \in 1..N
  BY CallTypes DEF Boxes, Depths
<1> HIDE DEF N, L
<1>6. ASSUME NEW b \in 1..(N + 1), NEW k \in 1..Len(msgs'[b].fields)
      PROVE  b \in 1..N
  <2>1. b # N + 1
    <3> SUFFICES ASSUME b = N + 1
                 PROVE  FALSE
      OBVIOUS
    <3>1. k \in 1..0
      BY <1>3, <1>6
    <3> QED  BY <3>1
  <2> QED  BY <1>4, <2>1
<1>7. ASSUME NEW h, NEW c
      PROVE  h \in HoldersIn(msgs, c) <=> h \in HoldersIn(msgs', c)
  <2>1. h \in HoldersIn(msgs, c) <=> \E b \in 1..N : \E k \in 1..Len(msgs[b].fields) :
                                         h = <<b, k>> /\ msgs[b].fields[k].box = c
    BY HolderIs DEF N
  <2>2. h \in HoldersIn(msgs', c) <=> \E b \in 1..(N+1) : \E k \in 1..Len(msgs'[b].fields) :
                                          h = <<b, k>> /\ msgs'[b].fields[k].box = c
    BY <1>2, HolderIs
  <2>3. \A b \in 1..N : b \in 1..(N+1)
    BY <1>4
  <2> QED  BY <1>2, <1>6, <2>1, <2>2, <2>3, SMTT(30)
<1>8. HoldersIn(msgs, N + 1) = {}
  <2> SUFFICES ASSUME NEW h \in HoldersIn(msgs, N + 1)
               PROVE  FALSE
    OBVIOUS
  <2>1. PICK b, k : /\ b \in 1..N /\ k \in 1..Len(msgs[b].fields)
                    /\ msgs[b].fields[k].box = N + 1
    BY HolderIs DEF N
  <2>2. N + 1 \in 1..N
    BY <1>4, <2>1 DEF Nested, FieldsLead, N, NoBox
  <2> QED  BY <1>4, <2>2
<1>9. FieldsLead(msgs')
  <2> SUFFICES ASSUME NEW b \in 1..(N+1), NEW k \in 1..Len(msgs'[b].fields),
                      msgs'[b].fields[k].box # NoBox
               PROVE  LET c == msgs'[b].fields[k].box
                      IN  /\ c \in 1..(N+1) /\ b < c
                          /\ Leads(msgs'[b], msgs'[b].fields[k], msgs'[c])
    BY <1>2 DEF FieldsLead
  <2> DEFINE c == msgs[b].fields[k].box
  <2>1. b \in 1..N /\ msgs'[b] = msgs[b]
    BY <1>2, <1>6
  <2>2. c \in 1..N /\ b < c /\ Leads(msgs[b], msgs[b].fields[k], msgs[c])
    BY <2>1 DEF Nested, FieldsLead, N
  <2> HIDE DEF c
  <2>3. c \in 1..(N+1) /\ msgs'[c] = msgs[c]
    BY <1>2, <1>4, <2>2
  <2> QED  BY <2>1, <2>2, <2>3 DEF c
<1>10. HeldOnce(msgs')
  <2> SUFFICES ASSUME NEW c \in 1..(N+1), NEW g \in HoldersIn(msgs', c),
                      NEW h \in HoldersIn(msgs', c)
               PROVE  g = h
    BY <1>2 DEF HeldOnce
  <2>1. g \in HoldersIn(msgs, c) /\ h \in HoldersIn(msgs, c)
    BY <1>7
  <2>2. c \in 1..N
    BY <1>4, <1>8, <2>1
  <2> QED  BY <2>1, <2>2 DEF Nested, HeldOnce, N
<1>11. HeldAtAll(msgs', stack')
  <2> SUFFICES ASSUME NEW c \in 1..(N+1), c # 1
               PROVE  HoldersIn(msgs', c) # {} \/ \E i \in 2..(L+1) : stack'[i].box = c
    BY <1>2 DEF HeldAtAll
  <2>1. CASE c = N + 1
    <3>1. L + 1 \in 2..(L+1)
      BY <1>4
    <3> QED  BY <1>3, <2>1, <3>1
  <2>2. CASE c # N + 1
    <3>1. c \in 1..N
      BY <1>4, <2>2
    <3>2. HoldersIn(msgs, c) # {} \/ \E i \in 2..L : stack[i].box = c
      BY <3>1 DEF Nested, HeldAtAll, N, L
    <3>3. \A i \in 2..L : i \in 1..L /\ i \in 2..(L+1)
      BY <1>4
    <3> QED  BY <1>2, <1>7, <3>2, <3>3
  <2> QED  BY <2>1, <2>2
<1>12. CallsLead(msgs', stack')
  <2> SUFFICES ASSUME NEW i \in 2..(L+1)
               PROVE  /\ stack'[i].ret[1].box = stack'[i].box
                      /\ Leads(msgs'[stack'[i-1].box], stack'[i].ret[1], msgs'[stack'[i].box])
                      /\ HoldersIn(msgs', stack'[i].box) = {}
    BY <1>2 DEF CallsLead
  <2>1. CASE i = L + 1
    <3>1. /\ stack'[i-1].box = stack[L].box /\ stack[L].box \in 1..N
      BY <1>2, <1>4, <1>5, <2>1
    <3>2. msgs'[stack[L].box] = Value
      BY <1>2, <1>4, <3>1
    <3>3. HoldersIn(msgs', N + 1) = {}
      BY <1>7, <1>8
    <3> QED  BY <1>1, <1>3, <2>1, <3>1, <3>2, <3>3
  <2>2. CASE i # L + 1
    <3>1. /\ i \in 2..L /\ i \in 1..L /\ i - 1 \in 1..L
          /\ stack[i].box \in 1..N /\ stack[i-1].box \in 1..N
      BY <1>4, <1>5, <2>2
    <3>2. /\ stack[i].ret[1].box = stack[i].box /\ HoldersIn(msgs, stack[i].box) = {}
          /\ Leads(msgs[stack[i-1].box], stack[i].ret[1], msgs[stack[i].box])
      BY <3>1 DEF Nested, CallsLead, L
    <3>3. HoldersIn(msgs', stack[i].box) = {}
      BY <1>7, <3>2
    <3> QED  BY <1>2, <3>1, <3>2, <3>3
  <2> QED  BY <2>1, <2>2
<1> QED  BY <1>9, <1>10, <1>11, <1>12 DEF Nested

LEMMA ReturnKeepsNested ==
    ASSUME Inv, Running, ReturnStep, Nested
    PROVE  Nested'
<1> DEFINE N == Len(msgs)
           L == Len(stack)
           C == stack[L-1].box
           f == Top.ret[1]
           n == Len(msgs[C].fields) + 1
<1>1. /\ Len(msgs') = N
      /\ \A b \in 1..N : /\ msgs'[b].msg = msgs[b].msg
                         /\ msgs'[b].lo = msgs[b].lo /\ msgs'[b].hi = msgs[b].hi
      /\ \A b \in 1..N : L = 1 \/ b # C => msgs'[b].fields = msgs[b].fields
      /\ Len(stack') = L - 1
      /\ \A i \in 1..(L-1) : stack'[i] = stack[i]
  BY ReturnEffect DEF Boxes
<1>2. L \in Nat /\ L > 0 /\ N \in Nat /\ Top = stack[L] /\ Top.box \in 1..N
  BY TopFacts DEF Top, Boxes
<1>3. L = 1 \/ L > 1
  <2> HIDE DEF L, C, f, n
  <2> QED  BY <1>2
<1>4. \A i \in 1..L : stack[i].box \in 1..N
  BY CallTypes DEF Boxes, Depths
<1>5. ASSUME L > 1
      PROVE  /\ C \in 1..N /\ n \in Nat /\ n - 1 \in Nat /\ Len(msgs[C].fields) = n - 1
             /\ Len(msgs'[C].fields) = n /\ msgs'[C].fields[n] = f
             /\ \A k \in 1..(n-1) : msgs'[C].fields[k] = msgs[C].fields[k]
  <2> DEFINE s == msgs[C].fields
             t == msgs'[C].fields
  <2>1. /\ C \in Boxes /\ Len(s) \in Nat /\ Len(t) = Len(s) + 1 /\ t[Len(s) + 1] = f
        /\ \A k \in 1..Len(s) : t[k] = s[k]
    BY <1>5, ReturnFields
  <2>2. n = Len(s) + 1
    OBVIOUS
  <2> HIDE DEF s, t, n, f, C
  <2>3. n \in Nat /\ n - 1 = Len(s)
    BY <2>1, <2>2
  <2>4. C \in 1..N
    BY <2>1 DEF Boxes
  <2> QED  BY <2>1, <2>2, <2>3, <2>4 DEF s, t
<1>6. ASSUME L > 1
      PROVE  /\ f.box = Top.box /\ Leads(msgs[C], f, msgs[Top.box])
             /\ HoldersIn(msgs, Top.box) = {} /\ C < Top.box
  <2>1. L \in 2..L
    BY <1>2, <1>6
  <2>2. C < Top.box
    BY <1>6, ReturnEffect
  <2> QED  BY <1>2, <2>1, <2>2 DEF Nested, CallsLead
<1>7. \A i \in 1..(L-1) : stack[i].box # Top.box
  <2>1. \A i \in 1..(L-1) : i \in Depths /\ L \in Depths /\ i # L
    BY <1>2 DEF Depths
  <2> QED  BY <1>2, <2>1, CallsDiffer
<1> DEFINE T == Top.box
<1> HIDE DEF N, L, C, f, n, T
<1>8. ASSUME NEW b \in 1..N, NEW k \in 1..Len(msgs[b].fields)
      PROVE  k \in 1..Len(msgs'[b].fields) /\ msgs'[b].fields[k] = msgs[b].fields[k]
  <2>1. CASE L = 1 \/ b # C
    BY <1>1, <1>8, <2>1
  <2>2. CASE L > 1 /\ b = C
    <3>1. k \in 1..(n-1) /\ k \in 1..n
      BY <1>5, <1>8, <2>2
    <3> QED  BY <1>5, <2>2, <3>1
  <2> QED  BY <1>3, <2>1, <2>2
<1>9. ASSUME NEW b \in 1..N, NEW k \in 1..Len(msgs'[b].fields)
      PROVE  \/ k \in 1..Len(msgs[b].fields)
             \/ L > 1 /\ b = C /\ k = n /\ msgs'[b].fields[k] = f
  <2>1. CASE L = 1 \/ b # C
    BY <1>1, <1>9, <2>1
  <2>2. CASE L > 1 /\ b = C
    <3>1. k \in 1..n
      BY <1>5, <1>9, <2>2
    <3>2. k = n \/ k \in 1..(n-1)
      BY <1>5, <2>2, <3>1
    <3> QED  BY <1>5, <2>2, <3>2
  <2> QED  BY <1>3, <2>1, <2>2
<1>10. ASSUME NEW h, NEW c
       PROVE  h \in HoldersIn(msgs', c) <=> \/ h \in HoldersIn(msgs, c)
                                            \/ L > 1 /\ c = T /\ h = <<C, n>>
  <2>1. h \in HoldersIn(msgs, c) <=> \E b \in 1..N : \E k \in 1..Len(msgs[b].fields) :
                                         h = <<b, k>> /\ msgs[b].fields[k].box = c
    BY HolderIs DEF N
  <2>2. h \in HoldersIn(msgs', c) <=> \E b \in 1..N : \E k \in 1..Len(msgs'[b].fields) :
                                          h = <<b, k>> /\ msgs'[b].fields[k].box = c
    BY <1>1, HolderIs
  <2>3. ASSUME h \in HoldersIn(msgs, c)
        PROVE  h \in HoldersIn(msgs', c)
    BY <1>8, <2>1, <2>2, <2>3
  <2>4. ASSUME L > 1, c = T, h = <<C, n>>
        PROVE  h \in HoldersIn(msgs', c)
    <3>1. /\ C \in 1..N /\ n \in 1..Len(msgs'[C].fields)
          /\ msgs'[C].fields[n].box = T
      BY <1>5, <1>6, <2>4 DEF T
    <3> QED  BY <2>2, <2>4, <3>1
  <2>5. ASSUME h \in HoldersIn(msgs', c)
        PROVE  h \in HoldersIn(msgs, c) \/ (L > 1 /\ c = T /\ h = <<C, n>>)
    <3>1. PICK b, k : /\ b \in 1..N /\ k \in 1..Len(msgs'[b].fields)
                      /\ h = <<b, k>> /\ msgs'[b].fields[k].box = c
      BY <2>2, <2>5
    <3>2. CASE k \in 1..Len(msgs[b].fields)
      BY <1>8, <2>1, <3>1, <3>2
    <3>3. CASE L > 1 /\ b = C /\ k = n /\ msgs'[b].fields[k] = f
      BY <1>6, <3>1, <3>3 DEF T
    <3> QED  BY <1>9, <3>1, <3>2, <3>3
  <2> QED  BY <2>3, <2>4, <2>5
<1>11. FieldsLead(msgs')
  <2> SUFFICES ASSUME NEW b \in 1..N, NEW k \in 1..Len(msgs'[b].fields),
                      msgs'[b].fields[k].box # NoBox
               PROVE  LET c == msgs'[b].fields[k].box
                      IN  c \in 1..N /\ b < c /\ Leads(msgs'[b], msgs'[b].fields[k], msgs'[c])
    BY <1>1 DEF FieldsLead
  <2>1. CASE k \in 1..Len(msgs[b].fields)
    <3> DEFINE c == msgs[b].fields[k].box
    <3>1. msgs'[b].fields[k] = msgs[b].fields[k] /\ c # NoBox
      BY <1>8, <2>1
    <3>2. c \in 1..N /\ b < c /\ Leads(msgs[b], msgs[b].fields[k], msgs[c])
      BY <2>1, <3>1 DEF Nested, FieldsLead, N
    <3> HIDE DEF c
    <3>3. Leads(msgs'[b], msgs[b].fields[k], msgs'[c])
      BY <1>1, <3>2, SameLead
    <3> QED  BY <3>1, <3>2, <3>3 DEF c
  <2>2. CASE L > 1 /\ b = C /\ k = n /\ msgs'[b].fields[k] = f
    <3>1. f.box = T /\ T \in 1..N /\ C < T /\ Leads(msgs[C], f, msgs[T])
      BY <1>2, <1>6, <2>2 DEF T
    <3>2. Leads(msgs'[C], f, msgs'[T])
      BY <1>1, <2>2, <3>1, SameLead
    <3> QED  BY <2>2, <3>1, <3>2
  <2> QED  BY <1>9, <2>1, <2>2
<1>12. HeldOnce(msgs')
  <2> SUFFICES ASSUME NEW c \in 1..N, NEW g \in HoldersIn(msgs', c),
                      NEW h \in HoldersIn(msgs', c)
               PROVE  g = h
    BY <1>1 DEF HeldOnce
  <2>1. CASE L > 1 /\ c = T
    <3>1. HoldersIn(msgs, c) = {}
      BY <1>6, <2>1 DEF T
    <3> QED  BY <1>10, <3>1
  <2>2. CASE ~(L > 1 /\ c = T)
    <3>1. g \in HoldersIn(msgs, c) /\ h \in HoldersIn(msgs, c)
      BY <1>10, <2>2
    <3> QED  BY <3>1 DEF Nested, HeldOnce, N
  <2> QED  BY <2>1, <2>2
<1>13. HeldAtAll(msgs', stack')
  <2> SUFFICES ASSUME NEW c \in 1..N, c # 1
               PROVE  HoldersIn(msgs', c) # {} \/ \E i \in 2..(L-1) : stack'[i].box = c
    BY <1>1 DEF HeldAtAll
  <2>1. HoldersIn(msgs, c) # {} \/ \E i \in 2..L : stack[i].box = c
    BY DEF Nested, HeldAtAll, N, L
  <2>2. CASE HoldersIn(msgs, c) # {}
    BY <1>10, <2>2
  <2>3. ASSUME NEW i \in 2..L, stack[i].box = c
        PROVE  HoldersIn(msgs', c) # {} \/ \E j \in 2..(L-1) : stack'[j].box = c
    <3>1. CASE i = L
      <4>1. L > 1 /\ c = T
        BY <1>2, <2>3, <3>1 DEF T
      <4> QED  BY <1>10, <4>1
    <3>2. CASE i # L
      <4>1. i \in 2..(L-1) /\ i \in 1..(L-1)
        BY <1>2, <2>3, <3>2
      <4> QED  BY <1>1, <2>3, <4>1
    <3> QED  BY <3>1, <3>2
  <2> QED  BY <2>1, <2>2, <2>3
<1>14. CallsLead(msgs', stack')
  <2> SUFFICES ASSUME NEW i \in 2..(L-1)
               PROVE  /\ stack'[i].ret[1].box = stack'[i].box
                      /\ Leads(msgs'[stack'[i-1].box], stack'[i].ret[1], msgs'[stack'[i].box])
                      /\ HoldersIn(msgs', stack'[i].box) = {}
    BY <1>1 DEF CallsLead
  <2>1. /\ i \in 2..L /\ i \in 1..(L-1) /\ i - 1 \in 1..(L-1)
        /\ stack[i].box \in 1..N /\ stack[i-1].box \in 1..N
    BY <1>2, <1>4
  <2>2. /\ stack[i].ret[1].box = stack[i].box /\ HoldersIn(msgs, stack[i].box) = {}
        /\ Leads(msgs[stack[i-1].box], stack[i].ret[1], msgs[stack[i].box])
    BY <2>1 DEF Nested, CallsLead, L
  <2>3. Leads(msgs'[stack[i-1].box], stack[i].ret[1], msgs'[stack[i].box])
    BY <1>1, <2>1, <2>2, SameLead
  <2>4. HoldersIn(msgs', stack[i].box) = {}
    BY <1>7, <1>10, <2>1, <2>2 DEF T
  <2> QED  BY <1>1, <2>1, <2>2, <2>3, <2>4
<1> QED  BY <1>11, <1>12, <1>13, <1>14 DEF Nested

LEMMA FreshNested ==
    ASSUME Fresh
    PROVE  Nested
<1>1. PICK m \in Messages : msgs = <<NewMessage(m, 0, Len(buf))>>
  BY DEF Fresh
<1>2. Len(msgs) = 1 /\ Len(msgs[1].fields) = 0 /\ Len(stack) = 1
  BY <1>1 DEF Fresh, NewMessage
<1>3. \A c : HoldersIn(msgs, c) = {}
  BY <1>2 DEF HoldersIn
<1> QED  BY <1>2, <1>3 DEF Nested, FieldsLead, HeldOnce, HeldAtAll, CallsLead

LEMMA NextNested ==
    ASSUME Inv, Nested, [Next]_vars
    PROVE  Nested'
<1>1. CASE Next
  <2>1. Running /\ (PushStep \/ EnterStep \/ ReturnStep \/ PanicStep)
    BY <1>1, StepShapes
  <2>2. CASE PanicStep
    BY <2>2 DEF PanicStep, Nested
  <2> QED  BY <2>1, <2>2, PushKeepsNested, EnterKeepsNested, ReturnKeepsNested
<1>2. CASE UNCHANGED vars
  BY <1>2 DEF vars, Nested
<1> QED  BY <1>1, <1>2

LEMMA NestedAlways == Spec => []Nested
BY InvAlways, InitFresh, FreshNested, NextNested, PTL DEF Spec

\* The MessageValues form a tree along the nesting of the bytes: every message but
\* the root is held by one field, or by the call that fills it, which has the type
\* the schema gives the field and its bytes.
THEOREM NestingCorrect == Spec => []MessagesNest
<1>1. Inv /\ Nested => MessagesNest
  <2> SUFFICES ASSUME Inv, Nested, NEW c \in Boxes \ {1}
               PROVE  LET calls == {i \in 2..Len(stack) : stack[i].ret[1].box = c}
                          Fits(b, f) == /\ b < c
                                        /\ f.kind = "Message"
                                        /\ f.at < msgs[c].lo /\ msgs[c].hi = f.to
                                        /\ msgs[c].msg = Schema[msgs[b].msg][f.number].ref
                      IN  \/ /\ calls = {}
                             /\ \E h \in Holders(c) :
                                   Holders(c) = {h} /\ Fits(h[1], msgs[h[1]].fields[h[2]])
                          \/ /\ Holders(c) = {}
                             /\ \E i \in calls : calls = {i} /\ stack[i].box = c
                                                 /\ Fits(stack[i-1].box, stack[i].ret[1])
    BY DEF MessagesNest
  <2> DEFINE calls == {i \in 2..Len(stack) : stack[i].ret[1].box = c}
             Fits(b, f) == /\ b < c
                           /\ f.kind = "Message"
                           /\ f.at < msgs[c].lo /\ msgs[c].hi = f.to
                           /\ msgs[c].msg = Schema[msgs[b].msg][f.number].ref
  <2>1. Holders(c) = HoldersIn(msgs, c)
    BY DEF Holders, HoldersIn, Boxes
  <2>2. c \in 1..Len(msgs) /\ c # 1 /\ c # NoBox
    BY DEF Boxes, NoBox
  <2>3. \A i \in 2..Len(stack) : stack[i].ret[1].box = stack[i].box
    BY DEF Nested, CallsLead
  <2>4. CASE HoldersIn(msgs, c) # {}
    <3>1. PICK h : h \in HoldersIn(msgs, c)
      BY <2>4
    <3>2. PICK b, k : /\ b \in 1..Len(msgs) /\ k \in 1..Len(msgs[b].fields)
                      /\ h = <<b, k>> /\ msgs[b].fields[k].box = c
      BY <3>1, HolderIs
    <3>3. b < c /\ Leads(msgs[b], msgs[b].fields[k], msgs[c])
      BY <2>2, <3>2 DEF Nested, FieldsLead
    <3>4. HoldersIn(msgs, c) = {h}
      BY <2>2, <3>1 DEF Nested, HeldOnce
    <3>5. calls = {}
      BY <2>3, <2>4 DEF Nested, CallsLead
    <3>6. h[1] = b /\ h[2] = k
      BY <3>2
    <3>7. Fits(h[1], msgs[h[1]].fields[h[2]])
      BY <3>3, <3>6 DEF Leads
    <3> QED  BY <2>1, <3>1, <3>4, <3>5, <3>7
  <2>5. CASE HoldersIn(msgs, c) = {}
    <3>1. PICK i \in 2..Len(stack) : stack[i].box = c
      BY <2>2, <2>5 DEF Nested, HeldAtAll
    <3>2. \A j \in 2..Len(stack) : j \in Depths /\ j - 1 \in Depths /\ j - 1 < j
      <4>1. Len(stack) \in Nat
        BY DEF Inv, TypeOK
      <4> QED  BY <4>1 DEF Depths
    <3>3. calls = {i}
      BY <2>3, <3>1, <3>2, CallsDiffer
    <3>4. Leads(msgs[stack[i-1].box], stack[i].ret[1], msgs[c])
      BY <3>1 DEF Nested, CallsLead
    <3>5. stack[i-1].box < c
      BY <3>1, <3>2 DEF Inv, Calls
    <3>6. Fits(stack[i-1].box, stack[i].ret[1])
      BY <3>4, <3>5 DEF Leads
    <3> QED  BY <2>1, <2>5, <3>1, <3>3, <3>6
  <2> QED  BY <2>4, <2>5
<1> QED  BY <1>1, InvAlways, NestedAlways, PTL
=============================================================================
