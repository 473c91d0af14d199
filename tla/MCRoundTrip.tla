---------------------------- MODULE MCRoundTrip ----------------------------
(***************************************************************************)
(* Round trips of every byte sequence up to MaxLen over a small alphabet,  *)
(* and of a String with every payload up to MaxLen over another one, which *)
(* makes characters of each width, and all that can be wrong with one.     *)
(***************************************************************************)
EXTENDS RoundTrip

CONSTANTS A, B, Alphabet, TextAlphabet, MaxLen

AString(text) == <<2, Len(text)>> \o text

MCInputs ==
    SeqOf(Alphabet, MaxLen) \cup {AString(text) : text \in SeqOf(TextAlphabet, MaxLen)}

F(type, ref, packed) == [type |-> type, ref |-> ref, packed |-> packed]

MCSchema ==
    (A :> (0 :> F("String", A, FALSE) @@ 1 :> F("SInt32", A, FALSE)
           @@ 2 :> F("Message", B, FALSE) @@ 3 :> F("UInt64", A, TRUE)))
    @@ (B :> (0 :> F("Bool", A, TRUE) @@ 1 :> F("Bool", A, FALSE)
           @@ 2 :> F("Fixed32", A, TRUE) @@ 3 :> F("SInt64", A, TRUE)))
=============================================================================
