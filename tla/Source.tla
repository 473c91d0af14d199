------------------------------- MODULE Source -------------------------------
(***************************************************************************)
(* .proto files as the language specification of proto3 has them: made of  *)
(* tokens, with or without blanks between these.  Each constructor gives,  *)
(* for one kind of statement, how it is written, what it declares and what *)
(* becomes of the declaration: nothing, it is kept; or some of             *)
(*    "rejected"  the file does not match the grammar of proto.pest,       *)
(*    "panic"     Context::parse panics,                                   *)
(*    "changed"   the builder gets another declaration, or none,           *)
(*    "spaced"    as "changed", where blanks are written,                  *)
(*    "crashes"   as "panic", where blanks are written.                    *)
(* A token is a sequence of atoms; a name is a sequence of tokens, with an *)
(* empty one in front for a leading dot.                                   *)
(***************************************************************************)
EXTENDS Parse

Tok(atom) == <<<<atom>>>>
Join(seqs, between) ==
    FlattenSeq([k \in DOMAIN seqs |-> IF k = 1 THEN seqs[k] ELSE between \o seqs[k]])
Dotted(name) == Join([k \in DOMAIN name |-> SelectSeq(<<name[k]>>, LAMBDA t : t # <<>>)], Tok("."))
NameParts(name) == [k \in DOMAIN name |-> Spelled(name[k])]
Those(body, kind) == SelectSeq(body, LAMBDA st : st.kind = kind)
Declared(body, kinds) ==
    LET some == SelectSeq(body, LAMBDA st : st.kind \in kinds)
    IN  [k \in DOMAIN some |-> some[k].declares]
Written(body) == FlattenSeq([k \in DOMAIN body |-> body[k].tokens])
FatesIn(body) == UNION {body[k].fates : k \in DOMAIN body}

If(fate, condition) == {f \in {fate} : condition}

-----------------------------------------------------------------------------
(* Numbers, options, types *)

SignOf(number) == IF Len(number) = 2 THEN number[1][1] ELSE ""
Magnitude(number) == ValueOf[Last(number)[1]]
NumberOf(number) == IF SignOf(number) = "-" THEN -Magnitude(number) ELSE Magnitude(number)

FieldNumberFates(number) ==
    If("panic", SignOf(number) # "" \/ Magnitude(number) = 0 \/ Magnitude(number) > MaxUnsigned)
IntegerFates(number) == If("panic", Magnitude(number) > MaxSigned)

\* The text of a string, float or word is one token.
ConstantKind(value) ==
    IF Last(value)[1] \in Digits \cup Hexes /\ Len(Last(value)) = 1 THEN "intLit"
    ELSE IF value[1][1] = "'" THEN "strLit"
    ELSE IF {".", "e"} \cap Range(Last(value)) # {} \/ value \in {Tok("inf"), Tok("nan")}
    THEN "floatLit"
    ELSE IF value \in {Tok("true"), Tok("false")} THEN "boolLit" ELSE "fullIdent"

\* A number in front of a point is taken for the whole number, a point in front
\* of a number is not, and words may begin like floats and booleans.
ConstantFates(value) ==
    LET kind == ConstantKind(value)
        text == value[1]
    IN  IF kind = "intLit" THEN IntegerFates(value)
        ELSE IF kind = "strLit"
        THEN If("panic", "\\777" \in Range(text)) \cup If("rejected", "\\q" \in Range(text))
        ELSE IF kind = "floatLit" /\ Range(text) \cap Words = {}
        THEN {IF Last(value)[1] \in Digits THEN "rejected" ELSE "crashes"}
        ELSE If("rejected", kind = "fullIdent" /\ text[1] \in {"inf", "nan", "true", "false"})

\* What a character of a string stands for: all escapes but one are an A.
Means(char) ==
    CASE char = "\\n" -> "LF"
      [] char \in Backslashed \ {"\\n"} -> "A"
      [] OTHER -> char

Setting(name, value) ==
    [kind |-> "Option", tokens |-> name \o Tok("=") \o value, fates |-> ConstantFates(value),
     declares |->
        [name |-> Spelled(FlattenSeq(name)),
         value |-> [is |-> ConstantKind(value),
                    value |-> CASE ConstantKind(value) = "intLit" -> <<ToString(NumberOf(value))>>
                                [] ConstantKind(value) = "strLit" ->
                                      [k \in 1..(Len(value[1]) - 2) |-> Means(value[1][k + 1])]
                                [] OTHER -> <<Spelled(FlattenSeq(value))>>]]]

Option(name, value) ==
    [Setting(name, value) EXCEPT !.tokens = Tok("option") \o @ \o Tok(";")]

Bracketed(options) ==
    IF options = <<>> THEN <<>>
    ELSE Tok("[") \o Join([k \in DOMAIN options |-> options[k].tokens], Tok(",")) \o Tok("]")

\* What is left of a name when a keyword is taken for its beginning.
Behind(keyword, name) == SubSeq(name[1], Len(keyword) + 1, Len(name[1]))
Begins(keyword, name) == name # <<>> /\ IsPrefix(keyword, name[1])

SpacedFates(name) == If("spaced", Len(name) > 1)

\* The beginning of a type is taken for a keyword in front of it.
KeywordFates(keyword, type) ==
    IF ~Begins(keyword, type) THEN {}
    ELSE IF Behind(keyword, type)[1] \in Words THEN {"changed"} ELSE {"rejected"}

BuiltinFates(type) ==
    If("rejected", \E b \in Range(Builtins) : Begins(<<b>>, type) /\ type # Tok(b))

TypeOf(type) ==
    IF \E b \in Range(Builtins) : type = Tok(b)
    THEN [builtin |-> Spelled(type[1]), ref |-> <<>>]
    ELSE [builtin |-> "Unknown", ref |-> NameParts(type)]

-----------------------------------------------------------------------------
(* Statements *)

FieldDeclared(multiplicity, type, name, number, options) ==
    [kind |-> "Field",
     tokens |-> Dotted(type) \o <<name>> \o Tok("=") \o number \o Bracketed(options) \o Tok(";"),
     declares |-> [multiplicity |-> multiplicity, type |-> TypeOf(type), name |-> Spelled(name),
                   number |-> NumberOf(number), options |-> Declared(options, {"Option"})],
     fates |-> BuiltinFates(type) \cup SpacedFates(type) \cup FieldNumberFates(number)
                   \cup FatesIn(options)]

Field(type, name, number, options) ==
    [FieldDeclared("Single", type, name, number, options) EXCEPT
        !.fates = @ \cup KeywordFates(<<"repeated">>, type)
                    \cup KeywordFates(<<"option", "al">>, type)]
Many(type, name, number, options) ==
    [FieldDeclared("Repeated", type, name, number, options) EXCEPT !.tokens = Tok("repeated") \o @]
Optional(type, name, number, options) ==
    [FieldDeclared("Optional", type, name, number, options) EXCEPT
        !.tokens = <<<<"option", "al">>>> \o @]

OneofField(type, name, number, options) ==
    FieldDeclared("Single", type, name, number, options)

Oneof(name, body) ==
    [kind |-> "Oneof", tokens |-> Tok("oneof") \o <<name>> \o Tok("{") \o Written(body) \o Tok("}"),
     declares |-> [name |-> Spelled(name), fields |-> Declared(body, {"Field"}),
                   options |-> Declared(body, {"Option"})],
     fates |-> FatesIn(body)]

Map(type, name, number) ==
    [kind |-> "Map", fates |-> {"panic"} \cup BuiltinFates(type),
     tokens |-> Tok("map") \o Tok("<") \o Tok("string") \o Tok(",") \o Dotted(type) \o Tok(">")
                    \o <<name>> \o Tok("=") \o number \o Tok(";")]

Reserved(what) ==
    [kind |-> "Reserved", tokens |-> Tok("reserved") \o what \o Tok(";"),
     fates |-> If("rejected", what[1][1] = "'")]

EmptyStatement == [kind |-> "Empty", tokens |-> Tok(";"), fates |-> {}]

\* An option is looked for first: not found if there is more than a value.
EnumValue(name, number, options) ==
    [kind |-> "Value",
     tokens |-> <<name>> \o Tok("=") \o number \o Bracketed(options) \o Tok(";"),
     declares |-> [name |-> Spelled(name), number |-> NumberOf(number),
                   options |-> Declared(options, {"Option"})],
     fates |-> If("changed", /\ Begins(<<"option">>, <<name>>) /\ options = <<>>
                             /\ Len(name) > 1
                             /\ name[2] \in Words)
                   \cup IntegerFates(number) \cup FatesIn(options)]

Definition(keyword, name, body) ==
    Tok(keyword) \o <<name>> \o Tok("{") \o Written(body) \o Tok("}")

Enum(name, body) ==
    [kind |-> "Enum", tokens |-> Definition("enum", name, body),
     declares |-> [kind |-> "Enum", name |-> Spelled(name), inner |-> <<>>,
                   fields |-> Declared(body, {"Value"}), options |-> Declared(body, {"Option"})],
     fates |-> FatesIn(body) \cup If("rejected", Those(body, "Reserved") # <<>>)]

\* In a message a field is looked for before an option: one of the type `option'.
OptionFates(st) ==
    IF st.declares.value.is = "intLit" /\ st.tokens[3] = <<"=">>
    THEN {"changed"} \cup FieldNumberFates(SubSeq(st.tokens, 4, Len(st.tokens) - 1))
    ELSE st.fates

Message(name, body) ==
    [kind |-> "Message", tokens |-> Definition("message", name, body),
     declares |-> [kind |-> "Message", name |-> Spelled(name),
                   inner |-> Declared(body, {"Message", "Enum"}),
                   fields |-> Declared(body, {"Field"}), oneofs |-> Declared(body, {"Oneof"}),
                   options |-> Declared(body, {"Option"})],
     fates |-> UNION {IF body[k].kind = "Option" THEN OptionFates(body[k]) ELSE body[k].fates :
                          k \in DOMAIN body}]

Arg(stream, type) == [stream |-> stream, type |-> type]

\* A method ends with a semicolon or has a body, of options.
RpcMethod(name, input, output, body) ==
    LET Tokens(a) == Tok("(") \o (IF a.stream THEN Tok("stream") ELSE <<>>)
                         \o Dotted(a.type) \o Tok(")")
        Fates(a) == SpacedFates(a.type)
                        \cup (IF a.stream THEN {} ELSE KeywordFates(<<"stream">>, a.type))
        Declares(a) == [stream |-> a.stream, type |-> NameParts(a.type)]
        end == IF body = <<>> THEN Tok(";") ELSE Tok("{") \o Written(body) \o Tok("}")
    IN  [kind |-> "Rpc",
         tokens |-> Tok("rpc") \o <<name>> \o Tokens(input) \o Tok("returns") \o Tokens(output)
                        \o end,
         declares |-> [name |-> Spelled(name), input |-> Declares(input),
                       output |-> Declares(output), options |-> Declared(body, {"Option"})],
         fates |-> Fates(input) \cup Fates(output) \cup FatesIn(body)]

Service(name, body) ==
    [kind |-> "Service", tokens |-> Definition("service", name, body),
     declares |-> [kind |-> "Service", name |-> Spelled(name), inner |-> <<>>,
                   rpcs |-> Declared(body, {"Rpc"}), options |-> Declared(body, {"Option"})],
     fates |-> FatesIn(body)]

\* pest takes the blank behind the name for a part of it.
Package(name) ==
    [kind |-> "Package", tokens |-> Tok("package") \o Dotted(name) \o Tok(";"),
     declares |-> NameParts(name), fates |-> {"spaced"}]

Import(modifier) ==
    [kind |-> "Import", fates |-> {},
     tokens |-> Tok("import") \o modifier \o <<<<"'", "a", "'">>>> \o Tok(";")]

-----------------------------------------------------------------------------
(* Files *)

Wordlike == Words \cup Tails \cup Digits \cup Hexes
Needed(token, next) == Last(token) \in Wordlike /\ next[1] \in Wordlike

\* The atoms of the tokens, with blanks between all of them or only where two
\* words would become one.
Laid(tokens, wide) ==
    FlattenSeq([k \in DOMAIN tokens |->
        IF k < Len(tokens) /\ (wide \/ Needed(tokens[k], tokens[k + 1]))
        THEN Append(tokens[k], " ") ELSE tokens[k]])

Syntax == Tok("syntax") \o Tok("=") \o <<<<"\"", "proto3", "\"">>>> \o Tok(";")

\* The options of a file are not looked at, an empty statement is not expected.
TopFates(st) ==
    CASE st.kind = "Option" -> st.fates \cap {"rejected"}
      [] st.kind = "Empty" -> {"panic"}
      [] OTHER -> st.fates

File(body, wide) ==
    LET named == Declared(body, {"Package"})
        fates == UNION {TopFates(body[k]) : k \in DOMAIN body}
    IN  [text |-> Laid(Syntax \o Written(body), wide),
         declares |-> [name |-> IF named = <<>> THEN <<>> ELSE Last(named),
                       items |-> Declared(body, {"Message", "Enum", "Service"})],
         fates |-> IF wide THEN fates ELSE fates \ {"spaced", "crashes"}]

-----------------------------------------------------------------------------

CONSTANT Sources    \* lists of files

VARIABLE source

Init ==
    /\ source \in Sources
    /\ ParseInit([k \in DOMAIN source |-> source[k].text])

Next == (ParseNext \/ Returned) /\ UNCHANGED source

Spec == Init /\ [][Next]_<<parseVars, source>>

-----------------------------------------------------------------------------

\* The type of the state.
TypeOK ==
    /\ outcome \in {"parsing", "parsed", "SyntaxError", "panic"}
    /\ Len(packages) \in 0..Len(texts) /\ Len(tree) \in 0..1
    /\ tree # <<>> => /\ Len(packages) < Len(texts)
                      /\ tree[1].rule = "proto"
                      /\ tree[1].text = texts[Len(packages) + 1]
    /\ outcome = "parsed" => Len(packages) = Len(texts)

\* What the builder gets of a file is what the file declares, statement by
\* statement and number by number, unless a keyword is taken for the beginning
\* of a word or a blank for the end of a name (PackageBuilder::parse_str).
ParsesBack ==
    \A k \in DOMAIN packages :
        (packages[k] = source[k].declares) <=> source[k].fates \cap {"changed", "spaced"} = {}

\* The first file that is not parsed: it has no match in the grammar, or its
\* tree has a pair the code cannot convert.  All files before it are parsed, and
\* no file of the two kinds is (Context::parse, `?' and the panics below it).
EndsJustly ==
    LET fates == IF Len(packages) < Len(texts) THEN source[Len(packages) + 1].fates ELSE {}
    IN  /\ \A k \in DOMAIN packages :
              source[k].fates \cap {"rejected", "panic", "crashes"} = {}
        /\ outcome = "SyntaxError" => "rejected" \in fates
        /\ outcome = "panic" => fates \cap {"panic", "crashes"} # {} /\ "rejected" \notin fates

\* "Protofish is interested in parsing all valid proto-files" (README.md:57):
\* no file that keeps to the grammar of proto3 is refused or changed.
ParsesEveryFile ==
    /\ outcome \in {"parsing", "parsed"}
    /\ \A k \in DOMAIN packages : packages[k] = source[k].declares
=============================================================================
