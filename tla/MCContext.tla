----------------------------- MODULE MCContext -----------------------------
(***************************************************************************)
(* Lifecycle on every pair of small files over a pool of declarations      *)
(* whose names, scopes and references meet in as many ways as possible,    *)
(* and on the changes by hand that may follow.                             *)
(***************************************************************************)
EXTENDS Lifecycle

CONSTANTS MaxItems     \* declarations in the first file; the second has at most one

Field(name, number, type, ref) ==
    [name |-> <<name>>, number |-> number, type |-> type, ref |-> ref,
     multiplicity |-> "Single", packed |-> "unset"]
Ref(name, number, ref) == Field(name, number, "Unknown", ref)
Many(field, packed) == [field EXCEPT !.multiplicity = "Repeated", !.packed = packed]

Message(name, inner, fields, oneofs) ==
    [kind |-> "Message", name |-> name, inner |-> inner, fields |-> fields, oneofs |-> oneofs]
Enum(name, values) ==
    [kind |-> "Enum", name |-> name, inner |-> <<>>,
     fields |-> [k \in DOMAIN values |-> [name |-> <<values[k][1]>>, number |-> values[k][2]]]]
Rpc(name, input, output) == [name |-> <<name>>, input |-> input, output |-> output]
Service(name, rpcs) == [kind |-> "Service", name |-> name, inner |-> <<>>, rpcs |-> rpcs]
OneofOf(name, fields) == [name |-> <<name>>, fields |-> fields]

EnumA == Enum("A", <<<<"x", 0>>>>)
EnumB == Enum("B", <<<<"x", 0>>, <<"y", 0>>, <<"x", 1>>>>)    \* an alias, and a name twice

Pool ==
    { EnumA, EnumB,
      Message("A", <<>>, <<Ref("f", 1, <<"B">>)>>, <<>>),
      Message("A", <<EnumB>>, <<Ref("f", 2, <<"B">>), Ref("g", 1, <<"", "B">>)>>, <<>>),
      Message("A", <<Message("B", <<>>, <<Ref("f", 1, <<"A">>)>>, <<>>)>>, <<>>,
              <<OneofOf("o", <<Ref("g", 2, <<"B">>)>>)>>),
      Message("A", <<Message("B", <<Message("A", <<>>, <<Ref("f", 1, <<"B", "A">>)>>, <<>>)>>,
                             <<>>, <<>>), EnumA>>, <<Ref("f", 1, <<"A", "A">>)>>, <<>>),
      Message("A", <<Message("B", <<>>, <<Ref("f", 1, <<"A">>)>>, <<>>)>>,
              <<Ref("g", 1, <<"A">>)>>, <<OneofOf("o", <<Ref("f", 2, <<"", "A">>)>>)>>),
      Message("B", <<>>, <<Many(Field("f", 1, "Scalar", <<>>), "unset"),
                           Many(Field("g", 2, "Scalar", <<>>), "other"),
                           Many(Field("h", 3, "Blob", <<>>), "true")>>, <<>>),
      Message("B", <<>>, <<Field("f", 3, "Scalar", <<>>)>>,
              <<OneofOf("o", <<Field("g", 2, "Blob", <<>>), Field("h", 1, "Scalar", <<>>)>>),
                OneofOf("p", <<Field("f", 2, "Scalar", <<>>)>>)>>),
      Message("B", <<>>, <<>>,
              <<OneofOf("o", <<Field("g", 2, "Blob", <<>>), Ref("h", 1, <<"A">>)>>)>>),
      Service("A", <<Rpc("r", <<"B">>, <<"A", "B">>)>>),
      Service("B", <<Rpc("r", <<"A">>, <<"A">>), Rpc("q", <<"", "A">>, <<"A">>),
                     Rpc("r", <<"", "A">>, <<"A">>)>>) }

\* No file; a message with a nested enum in a package; a service and its message.
MCEdited ==
    {<<>>,
     <<[name |-> <<"A">>, items |-> <<Message("A", <<Enum("B", <<>>)>>,
                                              <<Ref("f", 2, <<"B">>)>>, <<>>)>>]>>,
     <<[name |-> <<"A">>, items |-> <<Message("B", <<>>, <<>>, <<>>),
                                      Service("A", <<Rpc("r", <<"B">>, <<"", "A", "B">>)>>)>>]>>}

PackageChoice == {<<>>, <<"A">>, <<"A", "B">>}

FilesUpTo(n) == [name : PackageChoice, items : UNION {[1..k -> Pool] : k \in 0..n}]

MCFiles ==
    MCEdited \cup {<<f>> : f \in FilesUpTo(MaxItems)}
           \cup {<<f, g>> : f \in FilesUpTo(MaxItems), g \in FilesUpTo(1)}

MCPackageNames == {<<>>, <<"A">>}
MCTypeNames == {<<"A">>, <<"B">>}
MCMemberNames == {<<"f">>, <<"g">>}

\* The second message of some other context.
MCForeign == {[of |-> "Message", ref |-> 2]}
=============================================================================
