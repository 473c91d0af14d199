------------------------------- MODULE Parse -------------------------------
(***************************************************************************)
(* Context::parse (src/src/context/parse.rs) up to the call of the         *)
(* builder: file by file, pest matches the text against the grammar, and   *)
(* the tree of pairs it returns becomes a PackageBuilder.  The first file  *)
(* with a syntax error ends the call.  A tree may hold a statement the     *)
(* code has no case for, or a literal it cannot convert: then it panics.   *)
(***************************************************************************)
EXTENDS Proto, Integers, SequencesExt

CONSTANTS
    ValueOf,                   \* the value of an integer literal
    MaxSigned, MaxUnsigned     \* the largest i64 and u64

VARIABLES
    texts,     \* the input
    tree,      \* the pairs of the current file: <<>> before pest has run
    packages,  \* the PackageBuilders made so far
    outcome    \* "parsing", "parsed", "SyntaxError" or "panic"

parseVars == <<texts, tree, packages, outcome>>

-----------------------------------------------------------------------------
(* Names and literals *)

\* as_str of a pair.
Spelled(atoms) == FoldLeft(LAMBDA a, b : a \o b, "", atoms)

\* The dot-separated parts of a name, as the builder tells them apart.
Parts(atoms) ==
    LET dots == SetToSortSeq({i \in 0..(Len(atoms) + 1) :
                    i \in DOMAIN atoms => atoms[i] = "."}, <)
    IN  [k \in 1..(Len(dots) - 1) |->
            Spelled(SubSeq(atoms, dots[k] + 1, dots[k + 1] - 1))]

\* parse_ident: the idents joined again, without the blanks between them.
Ident(p) == Spelled(SelectSeq(p.text, LAMBDA a : a \notin Blanks))

Literal(lit) == lit.inner[Len(lit.inner)]
HasSign(lit, sign) == lit.inner[1].rule = "sign" /\ lit.inner[1].text = <<sign>>

\* Bug: the leading zero is left to from_str_radix.
Unsigned_LeadingZero(lit) ==
    {n \in {ValueOf[Literal(lit).text[1]]} :
        n <= MaxUnsigned /\ ~HasSign(lit, "-") /\ ~HasSign(lit, "+")}

\* parse_uint_literal: the u64, none where it panics.  It has no case for a
\* sign, and leaves nothing of the octal literal 0.
Unsigned(lit) ==
    {n \in {ValueOf[Literal(lit).text[1]]} :
        /\ n <= MaxUnsigned
        /\ ~HasSign(lit, "-") /\ ~HasSign(lit, "+")
        /\ Literal(lit).text # <<"0">>}

\* parse_int_literal: the sign is applied to an i64 that was converted without.
Signed(lit) ==
    {IF HasSign(lit, "-") THEN -n ELSE n :
        n \in {ValueOf[Literal(lit).text[1]]} \cap 0..MaxSigned}

The(n) == CHOOSE i \in n : TRUE

\* parse_string_literal.
Denotes == [e \in Backslashed |-> IF e = "\\n" THEN "LF" ELSE "A"]
Characters(str) ==
    [k \in DOMAIN str.inner |->
        LET c == str.inner[k].inner[1]
        IN  IF c.rule = "anyChar" THEN c.text[1] ELSE Denotes[c.text[1]]]

-----------------------------------------------------------------------------
(* From pairs to builders *)

Among(p, rules) == SelectSeq(p.inner, LAMBDA q : q.rule \in rules)
Each(Make(_), pairs) == [k \in DOMAIN pairs |-> Make(pairs[k])]
NameOf(p) == Spelled(p.inner[1].text)

\* Constant::parse.
ConstantOf(p) ==
    LET c == p.inner[1]
    IN  [is |-> c.rule,
         value |-> CASE c.rule = "intLit" -> <<ToString(The(Signed(c)))>>
                     [] c.rule = "strLit" -> Characters(c)
                     [] OTHER -> <<Ident(c)>>]

\* ProtoOption::parse and parse_options.
OptionOf(p) == [name |-> Ident(p.inner[1]), value |-> ConstantOf(p.inner[2])]
OptionsOf(p) ==
    Each(OptionOf, Among(p, {"option", "fieldOption", "enumValueOption"}))

MultiplicityOf(p) ==
    IF p.inner = <<>> THEN "Single"
    ELSE IF p.inner[1].inner[1].rule = "optional" THEN "Optional" ELSE "Repeated"

\* parse_field_type: one of the built-in types, or a name for the builder.
TypeNamed(p) ==
    IF \E b \in Range(Builtins) : p.text = <<b>>
    THEN [builtin |-> Spelled(p.text), ref |-> <<>>]
    ELSE [builtin |-> "Unknown", ref |-> Parts(p.text)]

\* FieldBuilder::parse and, of the pairs of a oneof, parse_oneof.
FieldOf(multiplicity, ps) ==
    [multiplicity |-> multiplicity, type |-> TypeNamed(ps[1]),
     name |-> Spelled(ps[2].text), number |-> The(Unsigned(ps[3].inner[1])),
     options |-> IF Len(ps) = 4 THEN OptionsOf(ps[4]) ELSE <<>>]

FieldBuilder(p) == FieldOf(MultiplicityOf(p.inner[1]), Tail(p.inner))
OneofFieldBuilder(p) == FieldOf("Single", p.inner)

\* OneofBuilder::parse.
OneofOf(p) ==
    [name |-> NameOf(p), fields |-> Each(OneofFieldBuilder, Among(p, {"oneofField"})),
     options |-> OptionsOf(p)]

\* EnumBuilder::parse.
EnumOf(p) ==
    LET Value(q) == [name |-> NameOf(q), number |-> The(Signed(q.inner[2])),
                     options |-> OptionsOf(q)]
    IN  [kind |-> "Enum", name |-> NameOf(p), inner |-> <<>>,
         fields |-> Each(Value, Among(p.inner[2], {"enumField"})),
         options |-> OptionsOf(p.inner[2])]

RECURSIVE MessageOf(_)

\* MessageBuilder::parse.
MessageOf(p) ==
    LET Inner(q) == IF q.rule = "enum_" THEN EnumOf(q) ELSE MessageOf(q)
        body     == p.inner[2]
    IN  [kind |-> "Message", name |-> NameOf(p),
         inner |-> Each(Inner, Among(body, {"enum_", "message"})),
         fields |-> Each(FieldBuilder, Among(body, {"field"})),
         oneofs |-> Each(OneofOf, Among(body, {"oneof"})),
         options |-> OptionsOf(body)]

\* Bug: an argument is a stream if the other one is.
Rpc_OneStream(p) ==
    LET Arg(q) == [stream |-> p.inner[2].inner[1].inner # <<>>, type |-> Parts(q.inner[2].text)]
    IN  [name |-> NameOf(p), input |-> Arg(p.inner[2]), output |-> Arg(p.inner[3]),
         options |-> OptionsOf(p)]

\* RpcBuilder::parse and RpcArgBuilder::parse.
Rpc(p) ==
    LET Arg(q) == [stream |-> q.inner[1].inner # <<>>, type |-> Parts(q.inner[2].text)]
    IN  [name |-> NameOf(p), input |-> Arg(p.inner[2]), output |-> Arg(p.inner[3]),
         options |-> OptionsOf(p)]

\* ServiceBuilder::parse.
ServiceOf(p) ==
    [kind |-> "Service", name |-> NameOf(p), inner |-> <<>>,
     rpcs |-> Each(Rpc, Among(p, {"rpc"})), options |-> OptionsOf(p)]

\* ProtobufItemBuilder::parse.
ItemOf(p) ==
    LET q == p.inner[1]
    IN  CASE q.rule = "message" -> MessageOf(q)
          [] q.rule = "enum_" -> EnumOf(q)
          [] q.rule = "service" -> ServiceOf(q)

\* The PackageBuilder of PackageBuilder::parse_str: the last package statement
\* names it, up to the end of what pest matched.
PackageOf(p) ==
    LET names == Among(p, {"package"})
    IN  [name |-> IF names = <<>> THEN <<>> ELSE Parts(Last(names).inner[1].text),
         items |-> Each(ItemOf, Among(p, {"topLevelDef"}))]

\* What the conversion of a pair panics at: a statement without a case, an
\* unimplemented map, a literal out of range, a float with a blank in it, an
\* octal escape that is no u8.
Faulty(p) ==
    \/ p.rule = "proto" /\ Among(p, {"emptyStatement"}) # <<>>
    \/ p.rule = "mapField"
    \/ p.rule = "fieldNumber" /\ Unsigned(p.inner[1]) = {}
    \/ p.rule = "enumField" /\ Signed(p.inner[2]) = {}
    \/ p.rule = "constant" /\ p.inner[1].rule = "intLit" /\ Signed(p.inner[1]) = {}
    \/ p.rule = "floatLit" /\ Range(p.text) \cap Blanks # {}
    \/ p.rule = "octEscape" /\ p.text = <<"\\777">>

RECURSIVE Panics(_)

\* The options of a file, imports and reserved numbers are not converted.
Panics(p) ==
    \/ Faulty(p)
    \/ \E k \in DOMAIN p.inner :
          /\ p.rule = "proto" => p.inner[k].rule = "topLevelDef"
          /\ p.rule # "reserved"
          /\ Panics(p.inner[k])

-----------------------------------------------------------------------------

ParseInit(files) ==
    /\ texts = files
    /\ tree = <<>> /\ packages = <<>> /\ outcome = "parsing"

Pending == outcome = "parsing" /\ Len(packages) < Len(texts)

\* ProtoParser::parse(Rule::proto, input).
MatchFile ==
    /\ Pending /\ tree = <<>>
    /\ LET r == Match(R("proto"), texts[Len(packages) + 1], 1, FALSE)
       IN  /\ tree' = r.pairs
           /\ outcome' = IF r.ok THEN outcome ELSE "SyntaxError"
    /\ UNCHANGED <<texts, packages>>

\* Bug: the pairs of a file are left to the next one.
ConvertFile_KeepsTree ==
    /\ Pending /\ tree # <<>> /\ ~Panics(tree[1])
    /\ packages' = Append(packages, PackageOf(tree[1]))
    /\ UNCHANGED <<texts, tree, outcome>>

\* The pairs of one file become its PackageBuilder.
ConvertFile ==
    /\ Pending /\ tree # <<>> /\ ~Panics(tree[1])
    /\ packages' = Append(packages, PackageOf(tree[1]))
    /\ tree' = <<>>
    /\ UNCHANGED <<texts, outcome>>

PanicOnFile ==
    /\ Pending /\ tree # <<>> /\ Panics(tree[1])
    /\ outcome' = "panic"
    /\ UNCHANGED <<texts, tree, packages>>

AllConverted ==
    /\ outcome = "parsing" /\ Len(packages) = Len(texts)
    /\ outcome' = "parsed"
    /\ UNCHANGED <<texts, tree, packages>>

Returned == outcome # "parsing" /\ UNCHANGED parseVars

ParseNext == MatchFile \/ ConvertFile \/ PanicOnFile \/ AllConverted
=============================================================================
