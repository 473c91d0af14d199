------------------------------ MODULE MCDecode ------------------------------
(***************************************************************************)
(* Decode for two families of message types.  A and B, which contain each  *)
(* other, are decoded from every byte sequence up to MaxLen over an        *)
(* alphabet in which each byte can play several parts: a tag, a length,    *)
(* data, or a byte with the continuation bit.  And for each kind of field  *)
(* there is a message with one field of that kind, decoded from field 1    *)
(* under every wire type with some data behind it.                         *)
(***************************************************************************)
EXTENDS Decode, TLC

CONSTANTS A, B, Alphabet, MaxLen,
          Data, MaxData     \* the bytes behind the tag of a field, and how many

FieldKinds == [type : ValueTypes, packed : BOOLEAN]

MCMessages == {A, B} \cup FieldKinds

F(type, ref, packed) == [type |-> type, ref |-> ref, packed |-> packed]

\* A: 1 sint32, 2 message B, 3 packed uint64, 4 string
\* B: 0 is never declared; 1 message A, 2 packed fixed32, 3 fixed64
TwoTypes ==
    (A :> (1 :> F("SInt32", A, FALSE) @@ 2 :> F("Message", B, FALSE)
           @@ 3 :> F("UInt64", A, TRUE) @@ 4 :> F("String", A, FALSE)))
    @@ (B :> (1 :> F("Message", A, FALSE) @@ 2 :> F("Fixed32", A, TRUE)
           @@ 3 :> F("Fixed64", A, FALSE)))

MCSchema == TwoTypes @@ [k \in FieldKinds |-> 1 :> F(k.type, k, k.packed)]

Strings == UNION {[1..n -> Alphabet] : n \in 0..MaxLen}
OneField ==
    UNION {{<<tag>> \o d : tag \in 8..15, d \in [1..n -> Data]} : n \in 0..MaxData}

MCInputs == Strings \cup OneField

\* Each family on its own inputs.
MCInit == Init /\ buf \in (IF msgs[1].msg \in {A, B} THEN Strings ELSE OneField)
MCSpec == MCInit /\ [][Next]_vars /\ WF_vars(Next)
=============================================================================
