------------------------------ MODULE MCVarint ------------------------------
(***************************************************************************)
(* Varint on the values around the places where a conversion changes       *)
(* behaviour, and on every byte string up to one byte beyond the longest   *)
(* varint a u64 has room for.                                              *)
(***************************************************************************)
EXTENDS Varint

CONSTANTS Near, Bytes   \* distance from a boundary; the bytes of the strings

Boundaries ==
    {0, 128, 16384, M32 \div 4, M32 \div 2, M32, M64 \div 4, M64 \div 2, M64}

MCValues ==
    [type \in IntegerTypes |->
        {n \in {s * b + d : s \in {-1, 1}, b \in Boundaries, d \in (-Near)..Near} :
            n \in RangeOf(type)}]

MCByteStrings == UNION {[1..n -> Bytes] : n \in 0..(MaxGroups + 1)}
=============================================================================
