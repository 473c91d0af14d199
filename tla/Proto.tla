------------------------------- MODULE Proto -------------------------------
(***************************************************************************)
(* The grammar of .proto files (src/src/proto.pest) and how pest matches   *)
(* it.  It is a parsing expression grammar: a choice takes the first       *)
(* alternative that matches and never comes back to it, a keyword matches  *)
(* the beginning of a longer word, and blanks are skipped between the      *)
(* parts of a sequence, also before a last part that is then empty.        *)
(*                                                                         *)
(* A text is a sequence of atoms: blanks, punctuation, integer literals,   *)
(* characters of strings and pieces of words, cut so that a keyword is a   *)
(* whole number of atoms.                                                  *)
(***************************************************************************)
EXTENDS Naturals, Sequences, TLC

CONSTANTS
    Words, Tails,              \* pieces of words: with a letter in front, and not
    Decimals, Octals, Hexes,   \* integer literals
    Blanks                     \* white space and comments

Digits == Decimals \cup Octals
HexEscapes == {"\\x41"}
OctEscapes == {"\\101", "\\777"}
CharEscapes == {"\\n"}
Backslashed == HexEscapes \cup OctEscapes \cup CharEscapes \cup {"\\q"}

-----------------------------------------------------------------------------
(* Parsing expressions *)

Atoms(atoms) == [op |-> "atoms", of |-> atoms]
K(keyword) == Atoms(<<keyword>>)
OneOf(set) == [op |-> "one", of |-> set]
Not(e) == [op |-> "not", of |-> e]
R(name) == [op |-> "rule", of |-> name]
S(es) == [op |-> "sequence", of |-> es]
C(es) == [op |-> "choice", of |-> es]
Star(e) == [op |-> "star", of |-> e]
Nothing == Atoms(<<>>)
Maybe(e) == C(<<e, Nothing>>)
List(e) == S(<<e, Star(S(<<K(","), e>>))>>)
AnyOf(keywords) == C([i \in DOMAIN keywords |-> K(keywords[i])])
Rules(names) == C([i \in DOMAIN names |-> R(names[i])])
Block(names) == S(<<K("{"), Star(Rules(names)), K("}")>>)

\* A rule, and a rule in which no blanks are skipped (`@' and `$').
Rule(e) == [atomic |-> FALSE, expr |-> e]
Atomic(e) == [atomic |-> TRUE, expr |-> e]

-----------------------------------------------------------------------------
(* The grammar *)

NameRules ==
    [r \in {"messageName", "enumName", "fieldName", "oneofName", "mapName",
            "serviceName", "rpcName"} |-> Rule(R("ident"))]

LiteralRules ==
    [ident |-> Atomic(S(<<OneOf(Words), Star(OneOf(Words \cup Tails \cup Digits))>>)),
     fullIdent |-> Rule(S(<<R("ident"), Star(S(<<K("."), R("ident")>>))>>)),
     sign |-> Rule(AnyOf(<<"-", "+">>)),
     decimalLit |-> Atomic(OneOf(Decimals)),
     octalLit |-> Atomic(OneOf(Octals)),
     hexLit |-> Atomic(OneOf(Hexes)),
     intLit |-> Rule(S(<<Maybe(R("sign")), Rules(<<"hexLit", "octalLit", "decimalLit">>)>>)),
     decimals |-> Rule(S(<<OneOf(Digits), Star(OneOf(Digits))>>)),
     exponent |-> Rule(S(<<AnyOf(<<"e", "E">>), Maybe(R("sign")), R("decimals")>>)),
     floatLit |-> Rule(S(<<Maybe(R("sign")),
        C(<<S(<<R("decimals"), K("."), Maybe(R("decimals")), Maybe(R("exponent"))>>),
            S(<<R("decimals"), R("exponent")>>),
            S(<<K("."), R("decimals"), Maybe(R("exponent"))>>),
            K("inf"), K("nan")>>)>>)),
     boolLit |-> Rule(AnyOf(<<"true", "false">>)),
     strLit |-> Atomic(C(<<S(<<K("'"), Star(R("charValueQuot")), K("'")>>),
                           S(<<K("\""), Star(R("charValueDblQuot")), K("\"")>>)>>)),
     charValueQuot |-> Atomic(C(<<Rules(<<"hexEscape", "octEscape", "charEscape">>),
        S(<<Not(OneOf(Backslashed \cup {"'"})), R("anyChar")>>)>>)),
     charValueDblQuot |-> Atomic(C(<<Rules(<<"hexEscape", "octEscape", "charEscape">>),
        S(<<Not(OneOf(Backslashed \cup {"\""})), R("anyChar")>>)>>)),
     hexEscape |-> Atomic(OneOf(HexEscapes)),
     octEscape |-> Atomic(OneOf(OctEscapes)),
     charEscape |-> Atomic(OneOf(CharEscapes)),
     anyChar |-> Atomic([op |-> "any"]),
     quote |-> Rule(AnyOf(<<"'", "\"">>)),
     constant |-> Rule(Rules(<<"intLit", "floatLit", "strLit", "boolLit", "fullIdent">>))]

Builtins == <<"double", "float", "int32", "int64", "uint32", "uint64", "sint32", "sint64",
              "fixed32", "fixed64", "sfixed32", "sfixed64", "bool", "string", "bytes">>

Options == Maybe(S(<<K("["), R("fieldOptions"), K("]")>>))

FieldRules ==
    [option |-> Rule(S(<<K("option"), R("optionName"), K("="), R("constant"), K(";")>>)),
     optionName |-> Rule(S(<<C(<<R("ident"), S(<<K("("), R("fullIdent"), K(")")>>)>>),
                             Star(S(<<K("."), R("ident")>>))>>)),
     messageType |-> Rule(S(<<Maybe(K(".")), Star(S(<<R("ident"), K(".")>>)),
                              R("messageName")>>)),
     type_ |-> Rule(C(<<AnyOf(Builtins), R("messageType")>>)),
     fieldNumber |-> Rule(R("intLit")),
     optional |-> Rule(Atoms(<<"option", "al">>)),
     repeated |-> Rule(K("repeated")),
     one_multiplicity |-> Rule(Rules(<<"repeated", "optional">>)),
     multiplicity |-> Rule(Maybe(R("one_multiplicity"))),
     field |-> Rule(S(<<R("multiplicity"), R("type_"), R("fieldName"), K("="),
                        R("fieldNumber"), Options, K(";")>>)),
     fieldOptions |-> Rule(List(R("fieldOption"))),
     fieldOption |-> Rule(S(<<R("optionName"), K("="), R("constant")>>)),
     oneof |-> Rule(S(<<K("oneof"), R("oneofName"),
                        Block(<<"option", "oneofField", "emptyStatement">>)>>)),
     oneofField |-> Rule(S(<<R("type_"), R("fieldName"), K("="), R("fieldNumber"),
                             Options, K(";")>>)),
     mapField |-> Rule(S(<<K("map"), K("<"), R("keyType"), K(","), R("type_"), K(">"),
                           R("mapName"), K("="), R("fieldNumber"), Options, K(";")>>)),
     keyType |-> Rule(AnyOf(SelectSeq(Builtins,
        LAMBDA b : b \notin {"double", "float", "bytes"}))),
     reserved |-> Rule(S(<<K("reserved"), C(<<List(R("range")), List(R("fieldName"))>>),
                           K(";")>>)),
     range |-> Rule(S(<<R("intLit"), Maybe(S(<<K("to"), C(<<R("intLit"), K("max")>>)>>))>>)),
     emptyStatement |-> Rule(K(";"))]

DefinitionRules ==
    [enum_ |-> Rule(S(<<K("enum"), R("enumName"), R("enumBody")>>)),
     enumBody |-> Rule(Block(<<"option", "enumField", "emptyStatement">>)),
     enumField |-> Rule(S(<<R("ident"), K("="), R("intLit"),
        Star(S(<<K("["), List(R("enumValueOption")), K("]")>>)), K(";")>>)),
     enumValueOption |-> Rule(S(<<R("optionName"), K("="), R("constant")>>)),
     message |-> Rule(S(<<K("message"), R("messageName"), R("messageBody")>>)),
     messageBody |-> Rule(Block(<<"field", "enum_", "message", "option", "oneof",
                                  "mapField", "reserved", "emptyStatement">>)),
     service |-> Rule(S(<<K("service"), R("serviceName"),
                          Block(<<"option", "rpc", "emptyStatement">>)>>)),
     stream |-> Rule(K("stream")),
     opt_stream |-> Rule(Maybe(R("stream"))),
     rpcParam |-> Rule(S(<<R("opt_stream"), R("messageType")>>)),
     rpc |-> Rule(S(<<K("rpc"), R("rpcName"), K("("), R("rpcParam"), K(")"), K("returns"),
                      K("("), R("rpcParam"), K(")"),
                      C(<<Block(<<"option", "emptyStatement">>), K(";")>>)>>)),
     syntax |-> Rule(S(<<K("syntax"), K("="), R("quote"), K("proto3"), R("quote"), K(";")>>)),
     import |-> Rule(S(<<K("import"), Maybe(AnyOf(<<"weak", "public">>)), R("strLit"), K(";")>>)),
     package |-> Rule(S(<<K("package"), R("fullIdent"), K(";")>>)),
     proto |-> Rule(S(<<Nothing, Maybe(K("BOM")), R("syntax"),
        Star(Rules(<<"import", "package", "option", "topLevelDef", "emptyStatement">>)),
        R("EOI")>>)),
     EOI |-> Rule(Not([op |-> "any"])),
     topLevelDef |-> Rule(Rules(<<"message", "enum_", "service">>))]

Grammar == NameRules @@ LiteralRules @@ FieldRules @@ DefinitionRules

-----------------------------------------------------------------------------
(* Matching *)

\* A match of the atoms from a position up to `at', with the pairs of the rules
\* that matched: [rule, text, inner].
Matched(at, pairs) == [ok |-> TRUE, at |-> at, pairs |-> pairs]
Failed == [ok |-> FALSE, at |-> 0, pairs |-> <<>>]

Then(r, s) == IF s.ok THEN Matched(s.at, r.pairs \o s.pairs) ELSE Failed

\* The position behind the blanks at p.
Skip(t, p, atomic) ==
    CHOOSE q \in p..(Len(t) + 1) :
        /\ atomic => q = p
        /\ ~atomic /\ q <= Len(t) => t[q] \notin Blanks
        /\ \A n \in p..(q - 1) : t[n] \in Blanks

RECURSIVE Match(_, _, _, _), InOrder(_, _, _, _), FirstOf(_, _, _, _), More(_, _, _, _)

Match(e, t, p, atomic) ==
    CASE e.op = "atoms" ->
            IF p + Len(e.of) <= Len(t) + 1 /\ SubSeq(t, p, p + Len(e.of) - 1) = e.of
            THEN Matched(p + Len(e.of), <<>>) ELSE Failed
      [] e.op = "one" -> IF p <= Len(t) /\ t[p] \in e.of THEN Matched(p + 1, <<>>) ELSE Failed
      [] e.op = "any" -> IF p <= Len(t) THEN Matched(p + 1, <<>>) ELSE Failed
      [] e.op = "not" -> IF Match(e.of, t, p, atomic).ok THEN Failed ELSE Matched(p, <<>>)
      [] e.op = "sequence" -> InOrder(e.of, t, p, atomic)
      [] e.op = "choice" -> FirstOf(e.of, t, p, atomic)
      [] e.op = "star" ->
            LET r == Match(e.of, t, p, atomic)
            IN  IF r.ok THEN Then(r, More(e.of, t, r.at, atomic)) ELSE Matched(p, <<>>)
      [] e.op = "rule" ->
            LET rule == Grammar[e.of]
                r    == Match(rule.expr, t, p, atomic \/ rule.atomic)
            IN  IF r.ok
                THEN Matched(r.at, <<[rule |-> e.of, text |-> SubSeq(t, p, r.at - 1),
                                      inner |-> r.pairs]>>)
                ELSE Failed

InOrder(es, t, p, atomic) ==
    LET r == Match(es[1], t, p, atomic)
    IN  IF ~r.ok \/ Len(es) = 1 THEN r
        ELSE Then(r, InOrder(Tail(es), t, Skip(t, r.at, atomic), atomic))

FirstOf(es, t, p, atomic) ==
    LET r == Match(es[1], t, p, atomic)
    IN  IF r.ok \/ Len(es) = 1 THEN r ELSE FirstOf(Tail(es), t, p, atomic)

\* Further repetitions: a blank is skipped only where another one follows.
More(e, t, p, atomic) ==
    LET r == Match(e, t, Skip(t, p, atomic), atomic)
    IN  IF r.ok THEN Then(r, More(e, t, r.at, atomic)) ELSE Matched(p, <<>>)
=============================================================================
