------------------------------ MODULE MCParse ------------------------------
(***************************************************************************)
(* Instances of Source: every kind of statement in its place, alone and    *)
(* next to another one, with and without blanks, and lists of files.       *)
(* Integers are scaled down: 7 stands for the largest i64, 15 for the      *)
(* largest u64.                                                            *)
(***************************************************************************)
EXTENDS Source

MCWords ==
    Range(Builtins) \cup
    {"A", "b", "c", "al", "ant", "inf", "true", "proto3", "syntax", "import", "package",
     "option", "message", "enum", "service", "oneof", "map", "reserved", "repeated", "rpc",
     "returns", "stream", "to", "max", "nan", "weak", "public"}
MCTails == {"_b"}
MCDecimals == {"1", "2", "8", "16"}
MCOctals == {"0", "01"}
MCHexes == {"0x1"}
MCBlanks == {" "}

MCValueOf ==
    [l \in MCDecimals \cup MCOctals \cup MCHexes |->
        CASE l = "0" -> 0 [] l = "2" -> 2 [] l = "8" -> 8 [] l = "16" -> 16 [] OTHER -> 1]

a == <<"A">>
b == <<"b">>
one == Tok("1")
two == Tok("2")
minusTwo == Tok("-") \o two

Numbers == {Tok(l) : l \in MCDecimals \cup MCOctals \cup MCHexes}
Constants ==
    Numbers \cup
    {minusTwo, Tok("A"), Tok("A") \o Tok(".") \o Tok("b"), Tok("true"), Tok("inf"),
     <<<<"inf", "ant">>>>, <<<<"true", "_b">>>>, Tok("nan"), <<<<"1", ".", "2">>>>, <<<<"1", "e", "2">>>>,
     <<<<".", "2">>>>, Tok("-") \o <<<<".", "2", "e", "1">>>>,
     <<<<"'", "c", "\\n", "\\x41", " ", "'">>>>, <<<<"'", "\\101", "\\777", "'">>>>,
     <<<<"'", "\\q", "'">>>>}
OptionNames ==
    {Tok("A"), Tok("(") \o Tok("A") \o Tok(".") \o Tok("b") \o Tok(")") \o Tok(".") \o Tok("c")}
AnOption == Option(Tok("b"), Tok("A"))
SomeSettings ==
    {<<>>, <<Setting(Tok("A"), two)>>,
     <<Setting(Tok("A"), Tok("0x1")), Setting(Tok("b"), minusTwo)>>}
OptionStatements == {Option(n, v) : n \in OptionNames, v \in Constants}

Names ==
    {a, <<"b", "_b">>, <<"option">>, <<"option", "A">>, <<"option", "al">>, <<"option", "_b">>}
Types ==
    {Tok(t) : t \in {"A", "int32", "bytes"}}
        \cup {<<<<>>, a>>, <<a, b>>, <<<<>>, a, b>>}
        \cup {<<<<k>> \o t>> : k \in {"repeated", "int32", "stream", "message"},
                               t \in {a, <<"_b">>}}
        \cup {<<<<"option", "al">> \o a>>}

\* Fields, made by each of the constructors.
FieldsBy(Make(_, _, _, _)) ==
    {Make(t, b, two, <<>>) : t \in Types}
        \cup {Make(<<a>>, n, one, o) : n \in Names, o \in SomeSettings}
        \cup {Make(<<a>>, b, n, <<>>) : n \in Numbers}
        \cup {Make(<<a>>, b, two, <<Setting(n, v)>>) : n \in OptionNames, v \in Constants}

Values ==
    {EnumValue(n, m, o) : n \in Names, m \in {two, minusTwo, Tok("0"), Tok("8")},
                          o \in SomeSettings}
Zero == EnumValue(a, Tok("0"), <<>>)
Rpcs ==
    {RpcMethod(a, Arg(s, <<t>>), Arg(r, u), <<>>) :
        s \in BOOLEAN, r \in BOOLEAN, t \in {a, <<"stream", "A">>},
        u \in {<<a>>, <<<<>>, a, b>>, <<<<"stream", "A">>>>, <<<<"stream", "_b">>>>}}
        \cup {RpcMethod(a, Arg(TRUE, <<a>>), Arg(FALSE, <<a>>), m) :
                m \in {<<o>> : o \in OptionStatements \cup {EmptyStatement}}
                        \cup {<<AnOption, EmptyStatement, Option(Tok("A"), Tok("true"))>>}}

\* What may stand next to other statements, and in more than one place.
Few ==
    {Field(<<a>>, b, one, <<>>), Field(<<<<"repeated", "A">>>>, b, one, <<>>),
     Optional(Tok("int32"), b, Tok("0x1"), <<>>),
     Many(<<<<>>, a, b>>, a, two, <<Setting(Tok("A"), Tok("true"))>>),
     EmptyStatement, AnOption, Option(Tok("A"), two), Map(<<a>>, b, one),
     Reserved(one \o Tok("to") \o Tok("max")), Reserved(<<<<"'", "c", "'">>>>),
     Enum(a, <<Zero, EmptyStatement, AnOption, EnumValue(<<"option", "A">>, one, <<>>)>>),
     Oneof(a, <<OneofField(<<a>>, b, two, <<>>), EmptyStatement, AnOption,
                OneofField(Tok("int32"), a, one, <<>>)>>),
     Message(b, <<EmptyStatement, Enum(a, <<Zero>>), Field(<<a>>, b, one, <<>>)>>)}

Bodies(first, second) == {<<s>> : s \in first} \cup {<<s, t>> : s \in second, t \in second}

Definitions ==
    {Message(a, m) : m \in Bodies(
        FieldsBy(Field) \cup FieldsBy(Optional) \cup FieldsBy(Many) \cup OptionStatements, Few)}
        \cup {Message(a, <<Oneof(b, m)>>) : m \in Bodies(
                FieldsBy(OneofField) \cup OptionStatements,
                {OneofField(<<a>>, b, two, <<>>), EmptyStatement, AnOption})}
        \cup {Enum(a, m) : m \in Bodies(Values \cup OptionStatements,
                {Zero, EmptyStatement, AnOption, Reserved(two)})}
        \cup {Service(a, m) : m \in Bodies(Rpcs, {RpcMethod(b, Arg(TRUE, <<a>>), Arg(FALSE, <<a>>), <<>>),
                 RpcMethod(a, Arg(FALSE, <<a>>), Arg(TRUE, <<b>>), <<AnOption>>),
                 EmptyStatement, AnOption})}

Plain == Message(a, <<Field(<<a>>, b, one, <<>>)>>)
TopLevel ==
    {Plain, Enum(b, <<Zero>>), Package(<<a>>), Package(<<a, b>>), AnOption,
     Import(<<>>), Import(Tok("weak")), Import(Tok("public")),
     EmptyStatement, Option(Tok("A"), Tok("8")), Option(Tok("A"), <<<<"inf", "ant">>>>)}

\* Files that parse, change, are refused and panic.
Kinds ==
    {<<Package(<<a>>), Plain>>, <<Message(a, <<Enum(b, <<Zero, EnumValue(<<"option", "A">>, one, <<>>)>>)>>)>>,
     <<Enum(a, <<Zero, Reserved(two)>>)>>, <<Plain, EmptyStatement>>}

MCSources ==
    {<<File(<<d>>, w)>> : d \in Definitions, w \in BOOLEAN}
        \cup {<<File(m, w)>> : m \in Bodies({}, TopLevel), w \in BOOLEAN}
        \cup {<<File(m, FALSE), File(n, w)>> : m \in Kinds, n \in Kinds, w \in BOOLEAN}
        \cup {<<>>}

\* Valid files: an empty statement at the top level, a package in another layout.
ValidSources ==
    {<<File(m, w)>> : m \in {<<Plain>>, <<Package(<<a>>), Plain>>, <<Plain, EmptyStatement>>},
                      w \in BOOLEAN}
=============================================================================
