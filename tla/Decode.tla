------------------------------- MODULE Decode -------------------------------
(***************************************************************************)
(* MessageInfo::decode (src/src/decode.rs): one call decodes one byte      *)
(* buffer against the message types of a context, recursively, into a tree *)
(* of MessageValues.  A step is one turn of the decoding loop of the       *)
(* innermost message: read a tag, read the value, push the field.          *)
(*                                                                         *)
(* A value is kept as its kind, its type and the span of the buffer it was *)
(* read from; the number, string or array it stands for is a function of   *)
(* these three.  Boxes of sub-messages are indices into msgs.              *)
(***************************************************************************)
EXTENDS Wire

CONSTANTS
    Messages,   \* the message types of the context
    Schema,     \* Schema[m]: field number -> [type, ref, packed] (MessageInfo.fields)
    Inputs      \* the byte sequences given to decode

FieldTypes == [type : ValueTypes, ref : Messages, packed : BOOLEAN]

ASSUME DecodeAssumption ==
    /\ \A b \in Inputs : b \in Seq(Byte)
    /\ DOMAIN Schema = Messages
    /\ \A m \in Messages : /\ DOMAIN Schema[m] \subseteq Nat
                           /\ \A k \in DOMAIN Schema[m] : Schema[m][k] \in FieldTypes

VARIABLES
    buf,      \* the bytes handed to Context::decode
    status,   \* "running", "done" or "panicked"
    msgs,     \* the MessageValues allocated so far; msgs[1] is the root
    stack     \* the active MessageInfo::decode calls, the root call first

vars == <<buf, status, msgs, stack>>

Kinds == {"Typed", "Packed", "Message", "Unknown", "Invalid", "Incomplete"}
Origins == {"value", "packed", "unknown"}
NoBox == 0

\* A FieldValue: the tag is bytes from+1..at, the bytes of the value at+1..to.
\* `origin' is the function that decoded it, `wire' the wire type of the tag.
FieldValue == [number : Nat, wire : 0..7, kind : Kinds, type : ValueTypes,
               origin : Origins, from : Nat, at : Nat, to : Nat, box : Nat]

\* A MessageValue and the slice (lo, hi] it decodes.  The garbage is the bytes
\* garbage+1..hi: Option::None is garbage = hi.
MessageValue == [msg : Messages, lo : Nat, hi : Nat,
                 fields : Seq(FieldValue), garbage : Nat]

\* A call: the box it fills, the offset of its `data' cursor and the FieldValue
\* its caller pushes when it returns (<<>> for the root call).
Frame == [box : Nat, pos : Nat, ret : Seq(FieldValue)]

NewMessage(m, lo, hi) ==
    [msg |-> m, lo |-> lo, hi |-> hi, fields |-> <<>>, garbage |-> hi]

Init ==
    /\ buf \in Inputs
    /\ status = "running"
    /\ \E m \in Messages : msgs = <<NewMessage(m, 0, Len(buf))>>
    /\ stack = <<[box |-> 1, pos |-> 0, ret |-> <<>>]>>

-----------------------------------------------------------------------------
(* The innermost call *)

Running == status = "running"
Top == stack[Len(stack)]
Value == msgs[Top.box]
End == Value.hi
Fields == Schema[Value.msg]

\* <<end, tag>> of the next tag.
Tags == VarintReads(buf, Top.pos, End, U64)
Number(tag) == tag \div 8

\* Bug: the mask 0x07 is missing.
WireType_Unmasked(tag) == tag
WireType(tag) == tag % 8

\* Bug: a packed field is read as an array whatever the wire type is.
Origin_PackedAlways(tag) ==
    IF Number(tag) \notin DOMAIN Fields THEN "unknown"
    ELSE LET f == Fields[Number(tag)]
         IN  IF f.packed THEN "packed"
             ELSE IF WireTypeOf(f.type) = WireType(tag) THEN "value" ELSE "unknown"

\* Bug: a singular field is read as its type whatever the wire type is.
Origin_ValueAlways(tag) ==
    IF Number(tag) \notin DOMAIN Fields THEN "unknown"
    ELSE IF ~Fields[Number(tag)].packed THEN "value"
    ELSE IF WireType(tag) = 2 THEN "packed" ELSE "unknown"

\* Which function decodes the value: the three-way branch of the loop.
Origin(tag) ==
    IF Number(tag) \notin DOMAIN Fields THEN "unknown"
    ELSE LET f == Fields[Number(tag)]
         IN  IF f.packed THEN (IF WireType(tag) = 2 THEN "packed" ELSE "unknown")
             ELSE IF WireTypeOf(f.type) = WireType(tag) THEN "value" ELSE "unknown"

\* Unknown fields have no type: "Bytes" stands in for it.
TypeOfTag(tag) ==
    IF Origin(tag) = "unknown" THEN "Bytes" ELSE Fields[Number(tag)].type

\* The FieldValue of the tag that ends at q.
Field(q, tag, kind, to, box) ==
    [number |-> Number(tag), wire |-> WireType(tag), kind |-> kind,
     type |-> TypeOfTag(tag), origin |-> Origin(tag),
     from |-> Top.pos, at |-> q, to |-> to, box |-> box]

\* msg.fields.push(..) with the cursor left at pos.
Push(field, pos) ==
    /\ msgs' = [msgs EXCEPT ![Top.box].fields = Append(@, field)]
    /\ stack' = [stack EXCEPT ![Len(stack)].pos = pos]
    /\ UNCHANGED <<buf, status>>

-----------------------------------------------------------------------------
(* One turn of the loop, by what the tag leads to *)

\* Value::decode of a scalar field.
DecodeScalar ==
    /\ Running
    /\ \E t \in Tags :
         /\ Origin(t[2]) = "value" /\ TypeOfTag(t[2]) # "Message"
         /\ ~ScalarPanics(TypeOfTag(t[2]), buf, t[1], End)
         /\ \E to \in ScalarEnds(TypeOfTag(t[2]), buf, t[1], End) :
              Push(Field(t[1], t[2], "Typed", to, NoBox), to)

\* Bug: a field of a message type is decoded as the type it is declared in.
EnterMessage_OwnType ==
    /\ Running
    /\ \E t \in Tags :
         /\ Origin(t[2]) = "value" /\ TypeOfTag(t[2]) = "Message"
         /\ \E p \in Payloads(buf, t[1], End) :
              LET box   == Len(msgs) + 1
                  field == Field(t[1], t[2], "Message", p[2], box)
              IN  /\ msgs' = Append(msgs, NewMessage(Value.msg, p[1], p[2]))
                  /\ stack' = Append([stack EXCEPT ![Len(stack)].pos = p[2]],
                                     [box |-> box, pos |-> p[1], ret |-> <<field>>])
    /\ UNCHANGED <<buf, status>>

\* Value::decode of a message field whose bytes are all there: the cursor moves
\* behind it and a call on its bytes begins; the field is pushed on return.
EnterMessage ==
    /\ Running
    /\ \E t \in Tags :
         /\ Origin(t[2]) = "value" /\ TypeOfTag(t[2]) = "Message"
         /\ \E p \in Payloads(buf, t[1], End) :
              LET box   == Len(msgs) + 1
                  field == Field(t[1], t[2], "Message", p[2], box)
                  ref   == Fields[Number(t[2])].ref
              IN  /\ msgs' = Append(msgs, NewMessage(ref, p[1], p[2]))
                  /\ stack' = Append([stack EXCEPT ![Len(stack)].pos = p[2]],
                                     [box |-> box, pos |-> p[1], ret |-> <<field>>])
    /\ UNCHANGED <<buf, status>>

\* Bug: the cursor is not cleared behind an Incomplete value.
TruncatedValue_CursorKept ==
    /\ Running
    /\ \E t \in Tags :
         /\ Origin(t[2]) = "value"
         /\ IF TypeOfTag(t[2]) = "Message"
            THEN /\ ~VarintPanics(buf, t[1], End, U64)
                 /\ Payloads(buf, t[1], End) = {}
            ELSE /\ ~ScalarPanics(TypeOfTag(t[2]), buf, t[1], End)
                 /\ ScalarEnds(TypeOfTag(t[2]), buf, t[1], End) = {}
         /\ Push(Field(t[1], t[2], "Incomplete", End, NoBox), t[1])

\* Value::decode of a field whose bytes are not all there: the rest of the
\* slice becomes the value and the cursor is cleared.
TruncatedValue ==
    /\ Running
    /\ \E t \in Tags :
         /\ Origin(t[2]) = "value"
         /\ IF TypeOfTag(t[2]) = "Message"
            THEN /\ ~VarintPanics(buf, t[1], End, U64)
                 /\ Payloads(buf, t[1], End) = {}
            ELSE /\ ~ScalarPanics(TypeOfTag(t[2]), buf, t[1], End)
                 /\ ScalarEnds(TypeOfTag(t[2]), buf, t[1], End) = {}
         /\ Push(Field(t[1], t[2], "Incomplete", End, NoBox), End)

\* Bug: the cursor of the message is not moved behind the array.
DecodePacked_CursorKept ==
    /\ Running
    /\ \E t \in Tags :
         /\ Origin(t[2]) = "packed"
         /\ \E p \in Payloads(buf, t[1], End) :
              /\ ~PackedPanics(TypeOfTag(t[2]), buf, p[1], p[2])
              /\ PackedWhole(TypeOfTag(t[2]), buf, p[1], p[2])
              /\ Push(Field(t[1], t[2], "Packed", p[2], NoBox), p[1])

\* Value::decode_packed, all elements read.
DecodePacked ==
    /\ Running
    /\ \E t \in Tags :
         /\ Origin(t[2]) = "packed"
         /\ \E p \in Payloads(buf, t[1], End) :
              /\ ~PackedPanics(TypeOfTag(t[2]), buf, p[1], p[2])
              /\ PackedWhole(TypeOfTag(t[2]), buf, p[1], p[2])
              /\ Push(Field(t[1], t[2], "Packed", p[2], NoBox), p[2])

\* Value::decode_packed when the array itself is missing or cut off.
TruncatedPacked ==
    /\ Running
    /\ \E t \in Tags :
         /\ Origin(t[2]) = "packed"
         /\ ~VarintPanics(buf, t[1], End, U64)
         /\ Payloads(buf, t[1], End) = {}
         /\ Push(Field(t[1], t[2], "Incomplete", End, NoBox), End)

\* Value::decode_packed when the last element is cut off: the value keeps the
\* bytes up to the end of the message, return_incomplete clears the cursor of
\* the array and the cursor of the message stays behind the array.
TruncatedElement ==
    /\ Running
    /\ \E t \in Tags :
         /\ Origin(t[2]) = "packed"
         /\ \E p \in Payloads(buf, t[1], End) :
              /\ ~PackedPanics(TypeOfTag(t[2]), buf, p[1], p[2])
              /\ ~PackedWhole(TypeOfTag(t[2]), buf, p[1], p[2])
              /\ Push(Field(t[1], t[2], "Incomplete", End, NoBox), p[2])

\* Value::decode_unknown.  A wire type that is not one takes the whole slice.
DecodeUnknown ==
    /\ Running
    /\ \E t \in Tags :
         /\ Origin(t[2]) = "unknown"
         /\ ~UnknownPanics(WireType(t[2]), buf, t[1], End)
         /\ \E to \in UnknownEnds(WireType(t[2]), buf, t[1], End) :
              LET kind == IF WireType(t[2]) \in {0, 1, 2, 5} THEN "Unknown" ELSE "Invalid"
              IN  Push(Field(t[1], t[2], kind, to, NoBox), to)

\* Bug: the cursor goes back to the tag.
TruncatedUnknown_BeforeTag ==
    /\ Running
    /\ \E t \in Tags :
         /\ Origin(t[2]) = "unknown"
         /\ ~UnknownPanics(WireType(t[2]), buf, t[1], End)
         /\ UnknownEnds(WireType(t[2]), buf, t[1], End) = {}
         /\ Push(Field(t[1], t[2], "Incomplete", End, NoBox), Top.pos)

\* Value::decode_unknown when the bytes are missing: the value keeps the rest of
\* the slice, and the cursor stays where it was, behind the tag.
TruncatedUnknown ==
    /\ Running
    /\ \E t \in Tags :
         /\ Origin(t[2]) = "unknown"
         /\ ~UnknownPanics(WireType(t[2]), buf, t[1], End)
         /\ UnknownEnds(WireType(t[2]), buf, t[1], End) = {}
         /\ Push(Field(t[1], t[2], "Incomplete", End, NoBox), t[1])

\* The call of the innermost message returns its MessageValue `value': its
\* caller pushes the field that holds it; the root call ends the decoding.
Return(values) ==
    IF Len(stack) = 1
    THEN /\ msgs' = values
         /\ stack' = <<>>
         /\ status' = "done"
         /\ UNCHANGED buf
    ELSE LET caller == stack[Len(stack) - 1].box
         IN  /\ msgs' = [values EXCEPT ![caller].fields = @ \o Top.ret]
             /\ stack' = SubSeq(stack, 1, Len(stack) - 1)
             /\ UNCHANGED <<buf, status>>

\* data.is_empty()
EndOfMessage ==
    /\ Running
    /\ Top.pos = End
    /\ Return(msgs)

\* Bug: the garbage is not kept.
Garbage_Dropped ==
    /\ Running
    /\ Top.pos < End
    /\ ~ShiftOverflows(buf, Top.pos, End)
    /\ VarintEnds(buf, Top.pos, End) = {}
    /\ Return(msgs)

\* Bug: the loop is not left.
Garbage_NoBreak ==
    /\ Running
    /\ Top.pos < End
    /\ ~ShiftOverflows(buf, Top.pos, End)
    /\ VarintEnds(buf, Top.pos, End) = {}
    /\ msgs' = [msgs EXCEPT ![Top.box].garbage = Top.pos]
    /\ UNCHANGED <<buf, status, stack>>

\* The bytes that are left are not a whole tag.
Garbage ==
    /\ Running
    /\ Top.pos < End
    /\ ~ShiftOverflows(buf, Top.pos, End)
    /\ VarintEnds(buf, Top.pos, End) = {}
    /\ Return([msgs EXCEPT ![Top.box].garbage = Top.pos])

\* A varint that does not fit its integer type, an overflow in a checked build
\* or a field that is packed but not packable: the process does not recover.
Panics ==
    \/ VarintPanics(buf, Top.pos, End, U64)
    \/ \E t \in Tags :
         \/ /\ Origin(t[2]) = "value"
            /\ IF TypeOfTag(t[2]) = "Message" THEN VarintPanics(buf, t[1], End, U64)
               ELSE ScalarPanics(TypeOfTag(t[2]), buf, t[1], End)
         \/ /\ Origin(t[2]) = "packed"
            /\ \/ VarintPanics(buf, t[1], End, U64)
               \/ \E p \in Payloads(buf, t[1], End) :
                    PackedPanics(TypeOfTag(t[2]), buf, p[1], p[2])
         \/ /\ Origin(t[2]) = "unknown"
            /\ UnknownPanics(WireType(t[2]), buf, t[1], End)

Panic ==
    /\ Running
    /\ Top.pos < End
    /\ Panics
    /\ status' = "panicked"
    /\ UNCHANGED <<buf, msgs, stack>>

Next ==
    \/ DecodeScalar \/ EnterMessage \/ TruncatedValue
    \/ DecodePacked \/ TruncatedPacked \/ TruncatedElement
    \/ DecodeUnknown \/ TruncatedUnknown
    \/ EndOfMessage \/ Garbage \/ Panic

\* decode is one sequential call: its thread keeps executing it.
Spec == Init /\ [][Next]_vars /\ WF_vars(Next)

-----------------------------------------------------------------------------
(* Invariants *)

\* The types of the variables.
TypeOK ==
    /\ buf \in Seq(Byte)
    /\ status \in {"running", "done", "panicked"}
    /\ msgs \in Seq(MessageValue)
    /\ stack \in Seq(Frame)

Boxes == 1..Len(msgs)
Depths == 1..Len(stack)
FieldsOf(b) == {msgs[b].fields[k] : k \in 1..Len(msgs[b].fields)}
Span(f) == (f.from + 1)..f.to

\* The calls in progress: each has its own message, callees have later boxes than
\* their callers, no garbage has been found yet, the cursor is inside the slice,
\* and every call but the root's holds the field it will hand back.
Calls ==
    /\ status = "running" => Len(stack) > 0
    /\ status = "done" => Len(stack) = 0
    /\ \A b \in Boxes : /\ msgs[b].lo <= msgs[b].garbage
                        /\ msgs[b].garbage <= msgs[b].hi
    /\ \A i \in Depths : /\ stack[i].box \in Boxes
                         /\ msgs[stack[i].box].lo <= stack[i].pos
                         /\ stack[i].pos <= msgs[stack[i].box].hi
                         /\ msgs[stack[i].box].garbage = msgs[stack[i].box].hi
                         /\ i > 1 => Len(stack[i].ret) = 1
    /\ \A i, j \in Depths : i < j => stack[i].box < stack[j].box

\* Byte x of message b is in the tag or value of one of its fields, in its
\* garbage, still ahead of its cursor, or in the field a callee will hand back.
Accounted(b, x) ==
    \/ \E k \in 1..Len(msgs[b].fields) : x \in Span(msgs[b].fields[k])
    \/ x > msgs[b].garbage
    \/ \E i \in Depths : stack[i].box = b /\ x > stack[i].pos
    \/ \E i \in 2..Len(stack) : stack[i-1].box = b /\ x \in Span(stack[i].ret[1])

\* Decoding loses no byte of a message, whatever the bytes and the schema are:
\* the recovery from partial and invalid messages the README promises.
NoByteLost ==
    \A b \in Boxes : \A x \in (msgs[b].lo + 1)..msgs[b].hi : Accounted(b, x)

\* Bytes of buffer b that f keeps are decoded again after it: decode_unknown
\* keeps the rest of the slice and leaves the cursor behind the tag, decode_packed
\* keeps the rest of the slice and leaves the cursor behind the array.
DecodedAgain(b, f) ==
    /\ f.kind = "Incomplete"
    /\ \/ f.origin = "unknown" /\ f.at < f.to
       \/ f.origin = "packed" /\ \E p \in Payloads(b, f.at, f.to) : p[2] < f.to

\* A byte is decoded into two fields of a message only when the first of them
\* is the Incomplete value of decode_unknown or decode_packed, which leave the
\* cursor before the end of the bytes they keep; in particular nothing follows
\* an Incomplete value of Value::decode, or of an array that ends the slice.
NoByteTwice ==
    \A b \in Boxes : \A j \in 1..Len(msgs[b].fields) : \A i \in 1..(j - 1) :
        LET f == msgs[b].fields[i]
        IN  f.to <= msgs[b].fields[j].from \/ DecodedAgain(buf, f)

\* What a call has decoded lies behind its cursor, or behind the field it waits
\* for, with the same exception; the reason NoByteTwice holds.
FieldsBehindCursor ==
    \A d \in Depths :
        /\ \A k \in 1..Len(msgs[stack[d].box].fields) :
             LET f == msgs[stack[d].box].fields[k]
             IN  \/ DecodedAgain(buf, f)
                 \/ d = Len(stack) /\ f.to <= stack[d].pos
                 \/ d < Len(stack) /\ f.to <= stack[d+1].ret[1].from
        /\ d > 1 => /\ stack[d].ret[1].from <= stack[d].ret[1].to
                    /\ stack[d].ret[1].to <= stack[d-1].pos

\* Where the fields that hold box c are: <<message, index>>.
Holders(c) ==
    UNION {{b} \X {k \in 1..Len(msgs[b].fields) : msgs[b].fields[k].box = c} : b \in Boxes}

\* The MessageValues form a tree along the nesting of the bytes: every box but
\* the root is held by exactly one field or one waiting call, its slice is the
\* end of that field's value and its type is the one the schema gives the field.
MessagesNest ==
    \A c \in Boxes \ {1} :
        LET calls == {i \in 2..Len(stack) : stack[i].ret[1].box = c}
            Fits(b, f) == /\ b < c
                          /\ f.kind = "Message"
                          /\ f.at < msgs[c].lo /\ msgs[c].hi = f.to
                          /\ msgs[c].msg = Schema[msgs[b].msg][f.number].ref
        IN  \/ /\ calls = {}
               /\ \E h \in Holders(c) : Holders(c) = {h} /\ Fits(h[1], msgs[h[1]].fields[h[2]])
            \/ /\ Holders(c) = {}
               /\ \E i \in calls : calls = {i} /\ stack[i].box = c
                                   /\ Fits(stack[i-1].box, stack[i].ret[1])

\* The fields tile a message exactly as a reader without the schema would split
\* it: a field starts where the one before it ends, unless bytes of that one are
\* decoded again, a complete value ends where its wire type alone says, and a
\* value outside a packed array is Incomplete only if its bytes really are missing.
SchemaFreeFraming ==
    \A b \in Boxes : \A k \in 1..Len(msgs[b].fields) :
        LET m == msgs[b]
            f == m.fields[k]
            ends == UnknownEnds(f.wire, buf, f.at, m.hi)
        IN  /\ k = 1 => f.from = m.lo
            /\ k > 1 /\ ~DecodedAgain(buf, m.fields[k-1]) => f.from = m.fields[k-1].to
            /\ f.kind # "Incomplete" => ends = {f.to}
            /\ f.kind = "Incomplete" /\ f.origin # "packed" => ends = {}

\* Value::wire_type: the wire type MessageValue::encode writes in front of the
\* value.
WireTypeOfValue(f) ==
    CASE f.kind = "Typed"   -> WireTypeOf(f.type)
      [] f.kind = "Packed"  -> 2
      [] f.kind = "Message" -> 2
      [] f.kind \in {"Unknown", "Invalid", "Incomplete"} -> f.wire

\* Every decoded field, whichever of the three decoders made its value, encodes
\* with the wire type and the number of the tag it was read from.
TagSurvives ==
    \A b \in Boxes : \A f \in FieldsOf(b) :
        \E t \in VarintReads(buf, f.from, msgs[b].hi, U64) :
            t = <<f.at, WireTypeOfValue(f) + 8 * f.number>>

\* What the README claims (README.md:43, "Ability to decode partial and invalid
\* Protocol Buffer messages."): no input ends in a panic.  The code does not
\* keep it: a varint beyond the range of its field's type panics (decode.rs:694).
NeverPanics == status # "panicked"

-----------------------------------------------------------------------------
(* Action and liveness properties *)

\* A step never touches a message whose call has returned, only appends to the
\* fields of one that is active, and never moves the cursor of a call back; a
\* step that neither begins nor ends a call moves it forward.
Forward ==
    /\ \A b \in Boxes :
          /\ SubSeq(msgs'[b].fields, 1, Len(msgs[b].fields)) = msgs[b].fields
          /\ (\A i \in Depths : stack[i].box # b) => msgs'[b] = msgs[b]
    /\ \A i \in Depths : i <= Len(stack') => stack'[i].pos >= stack[i].pos
    /\ Len(stack') = Len(stack) /\ status' = "running"
         => stack'[Len(stack)].pos > Top.pos

OnlyForward == [][Forward]_vars

\* decode comes to an end on every input.
Terminates == <>(status # "running")
=============================================================================
