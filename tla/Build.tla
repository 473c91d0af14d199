------------------------------- MODULE Build -------------------------------
(***************************************************************************)
(* ContextBuilder::build (src/src/context/builder.rs): the trees of        *)
(* declarations that parse.rs makes of the .proto files become a Context.  *)
(* First `populate' walks the trees and gives every declaration its full   *)
(* name and its final index; then the types, in the order of these         *)
(* indices, and the services are taken out of the trees and built, with    *)
(* references by name resolved through the cache.  A step is one           *)
(* declaration.                                                            *)
(***************************************************************************)
EXTENDS Context, FiniteSetsExt, SequencesExt

CONSTANTS
    Files,      \* the lists of parsed files given to build
    MaxDepth    \* no declaration of theirs is nested deeper

(***************************************************************************)
(* A file is [name, items], an item                                        *)
(*    [kind : "Message", name, inner, fields, oneofs : Seq([name, fields])]*)
(*    [kind : "Enum", name, inner |-> <<>>, fields]                        *)
(*    [kind : "Service", name, inner |-> <<>>, rpcs : Seq([name, input,    *)
(*     output])]                                                           *)
(* and a field of a message [name, number, type, multiplicity, packed]:    *)
(* its type is "Scalar", "Blob" or "Unknown", with the name referred to in *)
(* `ref'; packed is the value of the option: "unset", "true" or "other".   *)
(* A reference with a leading dot has "" for its first part.               *)
(***************************************************************************)
FieldDecl ==
    [name : Names, number : Nat, type : {"Scalar", "Blob", "Unknown"}, ref : Names,
     multiplicity : {"Single", "Optional", "Repeated"}, packed : {"unset", "true", "other"}]
OneofDecl == [name : Names, fields : Seq(FieldDecl)]
RpcDecl == [name : Names, input : Names, output : Names]
EnumDecl == [kind : {"Enum"}, name : STRING, inner : {<<>>}, fields : Seq(EnumField)]
ServiceDecl == [kind : {"Service"}, name : STRING, inner : {<<>>}, rpcs : Seq(RpcDecl)]

\* The types that have no more than n levels.
TypeDecl[n \in 0..MaxDepth] ==
    IF n = 0 THEN {}
    ELSE EnumDecl \cup [kind : {"Message"}, name : STRING, inner : Seq(TypeDecl[n - 1]),
                        fields : Seq(FieldDecl), oneofs : Seq(OneofDecl)]

FileDecl == [name : Names, items : Seq(TypeDecl[MaxDepth] \cup ServiceDecl)]

ASSUME BuildAssumption ==
    MaxDepth \in Nat \ {0} /\ \A fs \in Files : fs \in Seq(FileDecl)

VARIABLES
    files,    \* the input
    status,   \* the phase of build, or how it failed
    agenda,   \* populate: the declarations still to visit, [idx, path]
    cache,    \* the BuildCache
    taken,    \* the paths of the items that were taken out of the trees
    built     \* the local vectors `types' and `services' of build

buildVars == <<files, status, agenda, cache, taken, built>>

\* The declaration at an idx_path <<file, item, inner item, ...>>.
Item(idx) ==
    LET at[n \in 2..Len(idx)] ==
            IF n = 2 THEN files[idx[1]].items[idx[2]] ELSE at[n - 1].inner[idx[n]]
    IN  at[Len(idx)]

TopLevel(fs) ==
    FlattenSeq([f \in DOMAIN fs |->
        [i \in DOMAIN fs[f].items |-> [idx |-> <<f, i>>, path |-> fs[f].name]]])

BuildInit ==
    /\ files \in Files
    /\ status = "populate"
    /\ agenda = TopLevel(files)
    /\ cache = [items |-> <<>>, items_by_idx |-> <<>>, types |-> <<>>, services |-> <<>>]
    /\ taken = {}
    /\ built = [types |-> <<>>, services |-> <<>>]

-----------------------------------------------------------------------------
(* populate *)

Visit == Head(agenda)
FullPath == Append(Visit.path, Item(Visit.idx).name)

InnerOf(idx, path) ==
    [i \in DOMAIN Item(idx).inner |-> [idx |-> Append(idx, i), path |-> path]]

Entry(kind, i) == [kind |-> kind, final_idx |-> i]
CacheData(kind, i) ==
    [item_type |-> kind, idx_path |-> Visit.idx, final_idx |-> i, full_name |-> FullPath]

\* A name that is taken, by a type or a service.  (No path is met twice.)  The
\* caller drops the cache.
Duplicate ==
    /\ status = "populate" /\ agenda # <<>>
    /\ FullPath \in DOMAIN cache.items
    /\ status' = "DuplicateType"
    /\ UNCHANGED <<files, agenda, cache, taken, built>>

\* Bug: the message is not entered under its path.
PopulateMessage_NoPath ==
    /\ status = "populate" /\ agenda # <<>> /\ Item(Visit.idx).kind = "Message"
    /\ FullPath \notin DOMAIN cache.items
    /\ LET i == Len(cache.types) + 1
       IN  cache' = [cache EXCEPT !.items = Bind(@, FullPath, Entry("Message", i)),
                                  !.types = Append(@, CacheData("Message", i))]
    /\ agenda' = InnerOf(Visit.idx, FullPath) \o Tail(agenda)
    /\ UNCHANGED <<files, status, taken, built>>

\* MessageBuilder::populate: the message, then its inner types.
PopulateMessage ==
    /\ status = "populate" /\ agenda # <<>> /\ Item(Visit.idx).kind = "Message"
    /\ FullPath \notin DOMAIN cache.items
    /\ LET i == Len(cache.types) + 1
       IN  cache' = [cache EXCEPT !.items = Bind(@, FullPath, Entry("Message", i)),
                                  !.items_by_idx = Bind(@, Visit.idx, Entry("Message", i)),
                                  !.types = Append(@, CacheData("Message", i))]
    /\ agenda' = InnerOf(Visit.idx, FullPath) \o Tail(agenda)
    /\ UNCHANGED <<files, status, taken, built>>

PopulateEnum ==
    /\ status = "populate" /\ agenda # <<>> /\ Item(Visit.idx).kind = "Enum"
    /\ FullPath \notin DOMAIN cache.items
    /\ LET i == Len(cache.types) + 1
       IN  cache' = [cache EXCEPT !.items = Bind(@, FullPath, Entry("Enum", i)),
                                  !.types = Append(@, CacheData("Enum", i))]
    /\ agenda' = Tail(agenda)
    /\ UNCHANGED <<files, status, taken, built>>

PopulateService ==
    /\ status = "populate" /\ agenda # <<>> /\ Item(Visit.idx).kind = "Service"
    /\ FullPath \notin DOMAIN cache.items
    /\ LET i == Len(cache.services) + 1
       IN  cache' = [cache EXCEPT !.items = Bind(@, FullPath, Entry("Service", i)),
                                  !.services = Append(@, CacheData("Service", i))]
    /\ agenda' = Tail(agenda)
    /\ UNCHANGED <<files, status, taken, built>>

Populated ==
    /\ status = "populate" /\ agenda = <<>>
    /\ status' = "types"
    /\ UNCHANGED <<files, agenda, cache, taken, built>>

-----------------------------------------------------------------------------
(* References by name *)

\* Bug: the search stops before the root, where only the name itself is left.
Found_NotRoot(rel, scope) ==
    LET At(n) == IF Head(rel) = "" THEN Tail(rel) ELSE SubSeq(scope, 1, n) \o rel
        hits  == {n \in 1..Len(scope) : At(n) \in DOMAIN cache.items}
    IN  IF hits = {} THEN {} ELSE {At(Max(hits))}

\* Bug: the search runs inwards from the root.
Found_RootFirst(rel, scope) ==
    LET At(n) == IF Head(rel) = "" THEN Tail(rel) ELSE SubSeq(scope, 1, n) \o rel
        hits  == {n \in 0..Len(scope) : At(n) \in DOMAIN cache.items}
    IN  IF hits = {} THEN {} ELSE {At(Min(hits))}

\* BuildCache::resolve_type: outwards from the scope, unless the name has a
\* leading dot; {the full name}, or {} where nothing is found.
Found(rel, scope) ==
    LET At(n) == IF Head(rel) = "" THEN Tail(rel) ELSE SubSeq(scope, 1, n) \o rel
        hits  == {n \in 0..Len(scope) : At(n) \in DOMAIN cache.items}
    IN  IF hits = {} THEN {} ELSE {At(Max(hits))}

KindOf(full) == cache.items[full].kind

\* FieldTypeBuilder::build: the status the field's type leads to, "types" for
\* the phase to go on.
FieldVerdictIn(f, scope) ==
    IF f.type # "Unknown" THEN "types"
    ELSE IF Found(f.ref, scope) = {} THEN "TypeNotFound"
    ELSE IF \E n \in Found(f.ref, scope) : KindOf(n) = "Service" THEN "unreachable"
    ELSE "types"

ResolvedType(f, scope) ==
    IF f.type # "Unknown" THEN [of |-> f.type, ref |-> 0]
    ELSE LET n == CHOOSE n \in Found(f.ref, scope) : TRUE
         IN  [of |-> KindOf(n), ref |-> cache.items[n].final_idx]

\* resolve_multiplicity.
ResolveMultiplicity(f) ==
    IF f.multiplicity # "Repeated" THEN f.multiplicity
    ELSE IF f.type # "Scalar" \/ f.packed = "other" THEN "Repeated" ELSE "RepeatedPacked"

BuiltField(f, scope, oneof) ==
    [name |-> f.name, number |-> f.number, type |-> ResolvedType(f, scope),
     multiplicity |-> ResolveMultiplicity(f), oneof |-> oneof]

-----------------------------------------------------------------------------
(* Building the types *)

\* BuildCache::parent_type: none where it panics.
Parents(idx) ==
    IF Len(idx) = 2 THEN {[of |-> "Package", ref |-> idx[1]]}
    ELSE {[of |-> "Message", ref |-> cache.items_by_idx[i].final_idx] :
             i \in {Front(idx)} \cap DOMAIN cache.items_by_idx}

Data == cache.types[Len(built.types) + 1]

\* take_type leaves a message its name, and nothing of an enum.
NameLeft(idx) == IF Item(idx).kind = "Enum" /\ idx \in taken THEN "" ELSE Item(idx).name

InnerNames(data) ==
    [k \in DOMAIN Item(data.idx_path).inner |->
        Append(data.full_name, NameLeft(Append(data.idx_path, k)))]

\* The fields in the order they are built: <<field, its oneof>>.
FieldsInOrder(item) ==
    [k \in DOMAIN item.fields |-> <<item.fields[k], NoOneof>>]
        \o FlattenSeq([o \in DOMAIN item.oneofs |->
                [k \in DOMAIN item.oneofs[o].fields |-> <<item.oneofs[o].fields[k], o>>]])

\* A later field of the same number replaces the earlier one.
LastWithNumber(fs, n) == CHOOSE k \in DOMAIN fs :
    fs[k][1].number = n /\ \A j \in DOMAIN fs : fs[j][1].number = n => j <= k

BuiltFields(fs, scope) ==
    [n \in {fs[k][1].number : k \in DOMAIN fs} |->
        LET f == fs[LastWithNumber(fs, n)] IN BuiltField(f[1], scope, f[2])]

\* The members of a finite set of numbers, the smallest first.
InOrder(S) ==
    [k \in 1..Cardinality(S) |-> CHOOSE n \in S : Cardinality({m \in S : m <= n}) = k]

\* Bug: a oneof lists the fields it was declared with.
FieldsOfOneof_Declared(item, fields, o) ==
    [k \in DOMAIN item.oneofs[o].fields |-> item.oneofs[o].fields[k].number]

\* A oneof lists the fields that are left of it, by number.
FieldsOfOneof(item, fields, o) ==
    InOrder({n \in DOMAIN fields : fields[n].oneof = o})

\* MessageBuilder::build.
BuiltMessage(data) ==
    LET item   == Item(data.idx_path)
        fields == BuiltFields(FieldsInOrder(item), data.full_name)
    IN  [kind |-> "Message", name |-> <<item.name>>, full_name |-> data.full_name,
         parent |-> CHOOSE p \in Parents(data.idx_path) : TRUE,
         self_ref |-> data.final_idx,
         inner_types |-> [k \in DOMAIN item.inner |->
            LET e == cache.items[InnerNames(data)[k]] IN [of |-> e.kind, ref |-> e.final_idx]],
         oneofs |-> [o \in DOMAIN item.oneofs |->
            [name |-> item.oneofs[o].name, self_ref |-> o,
             fields |-> FieldsOfOneof(item, fields, o)]],
         fields |-> fields,
         fields_by_name |-> [s \in {fields[n].name : n \in DOMAIN fields} |->
            Max({n \in DOMAIN fields : fields[n].name = s})]]

\* EnumBuilder::build: both maps keep the last of several fields.
BuiltEnum(data) ==
    LET item == Item(data.idx_path)
        LastOf(Same(_)) == CHOOSE k \in DOMAIN item.fields :
            Same(item.fields[k]) /\ \A j \in DOMAIN item.fields : Same(item.fields[j]) => j <= k
    IN  [kind |-> "Enum", name |-> <<item.name>>, full_name |-> data.full_name,
         parent |-> CHOOSE p \in Parents(data.idx_path) : TRUE,
         self_ref |-> data.final_idx, inner_types |-> <<>>, oneofs |-> <<>>,
         fields |-> [n \in {item.fields[k].number : k \in DOMAIN item.fields} |->
            item.fields[LastOf(LAMBDA f : f.number = n)]],
         fields_by_name |-> [s \in {item.fields[k].name : k \in DOMAIN item.fields} |->
            item.fields[LastOf(LAMBDA f : f.name = s)].number]]

\* What building a type leads to: the checks in their order.
InnerTypesPanic(data) == \E k \in DOMAIN InnerNames(data) :
    \/ InnerNames(data)[k] \notin DOMAIN cache.items
    \/ KindOf(InnerNames(data)[k]) # Item(Append(data.idx_path, k)).kind

TypeVerdict(data) ==
    LET item == Item(data.idx_path)
        fs   == IF item.kind = "Message" THEN FieldsInOrder(item) ELSE <<>>
        bad  == {k \in DOMAIN fs : FieldVerdictIn(fs[k][1], data.full_name) # "types"}
    IN  IF item.kind = "Service" \/ InnerTypesPanic(data) THEN "panic"
        ELSE IF bad # {} THEN FieldVerdictIn(fs[Min(bad)][1], data.full_name)
        ELSE IF Parents(data.idx_path) = {} \/ data.final_idx # Len(built.types) + 1
        THEN "panic" ELSE "types"

BuildType ==
    /\ status = "types" /\ Len(built.types) < Len(cache.types)
    /\ status' = TypeVerdict(Data)
    /\ taken' = taken \cup {Data.idx_path}
    /\ IF status' # "types" THEN UNCHANGED built
       ELSE built' = [built EXCEPT !.types = Append(@,
                IF Item(Data.idx_path).kind = "Message" THEN BuiltMessage(Data) ELSE BuiltEnum(Data))]
    /\ UNCHANGED <<files, agenda, cache>>

TypesBuilt ==
    /\ status = "types" /\ Len(built.types) = Len(cache.types)
    /\ status' = "services"
    /\ UNCHANGED <<files, agenda, cache, taken, built>>

-----------------------------------------------------------------------------
(* Building the services *)

ServiceData == cache.services[Len(built.services) + 1]

\* RpcArgBuilder::build of the arguments, in order.
ArgsOf(item) == FlattenSeq([k \in DOMAIN item.rpcs |-> <<item.rpcs[k].input, item.rpcs[k].output>>])

\* Bug: an rpc argument may be any type.
ArgVerdict_AnyKind(rel, scope) ==
    IF Found(rel, scope) = {} THEN "TypeNotFound" ELSE "services"

ArgVerdict(rel, scope) ==
    IF Found(rel, scope) = {} THEN "TypeNotFound"
    ELSE IF \E n \in Found(rel, scope) : KindOf(n) # "Message" THEN "InvalidTypeKind"
    ELSE "services"

ServiceVerdict(data) ==
    LET item == Item(data.idx_path)
        args == IF item.kind = "Service" THEN ArgsOf(item) ELSE <<>>
        bad  == {k \in DOMAIN args : ArgVerdict(args[k], data.full_name) # "services"}
    IN  IF item.kind # "Service" THEN "panic"
        ELSE IF bad # {} THEN ArgVerdict(args[Min(bad)], data.full_name)
        ELSE IF \E p \in Parents(data.idx_path) : p.of = "Package" THEN "services" ELSE "panic"

ArgRef(rel, scope) == cache.items[CHOOSE n \in Found(rel, scope) : TRUE].final_idx

BuiltService(data) ==
    LET item == Item(data.idx_path)
    IN  [name |-> <<item.name>>, full_name |-> data.full_name, self_ref |-> data.final_idx,
         parent |-> data.idx_path[1],
         rpcs |-> [k \in DOMAIN item.rpcs |->
            [name |-> item.rpcs[k].name,
             input |-> ArgRef(item.rpcs[k].input, data.full_name),
             output |-> ArgRef(item.rpcs[k].output, data.full_name)]],
         rpcs_by_name |-> [n \in {item.rpcs[k].name : k \in DOMAIN item.rpcs} |->
            Max({k \in DOMAIN item.rpcs : item.rpcs[k].name = n})]]

BuildService ==
    /\ status = "services" /\ Len(built.services) < Len(cache.services)
    /\ status' = ServiceVerdict(ServiceData)
    /\ taken' = taken \cup {ServiceData.idx_path}
    /\ IF status' # "services" THEN UNCHANGED built
       ELSE built' = [built EXCEPT !.services = Append(@, BuiltService(ServiceData))]
    /\ UNCHANGED <<files, agenda, cache>>

-----------------------------------------------------------------------------
(* The context *)

\* Handles of the types declared at the top of a package, in their order.
TopTypes(p) ==
    LET top == InOrder({i \in DOMAIN built.types :
                           built.types[i].parent = [of |-> "Package", ref |-> p]})
    IN  [k \in DOMAIN top |-> RefTo(built.types[top[k]])]

\* Bug: a service is listed by its position in the package.
ServicesOf_Position(p) ==
    LET own == InOrder({i \in DOMAIN built.services : built.services[i].parent = p})
    IN  [k \in DOMAIN own |-> k]

ServicesOf(p) ==
    LET own == InOrder({i \in DOMAIN built.services : built.services[i].parent = p})
    IN  [k \in DOMAIN own |-> built.services[own[k]].self_ref]

\* The last of equal names, as collecting into a map leaves it.
ByName(seq) ==
    [n \in {seq[i].full_name : i \in DOMAIN seq} |->
        Max({i \in DOMAIN seq : seq[i].full_name = n})]

Finish ==
    /\ status = "services" /\ Len(built.services) = Len(cache.services)
    /\ ctx' = [packages |-> [p \in DOMAIN files |->
                  [name |-> files[p].name, self_ref |-> p, types |-> TopTypes(p),
                   services |-> ServicesOf(p)]],
               types |-> built.types, types_by_name |-> ByName(built.types),
               services |-> built.services, services_by_name |-> ByName(built.services)]
    /\ status' = "ready"
    /\ UNCHANGED <<files, agenda, cache, taken, built>>

BuildNext ==
    \/ Finish
    \/ /\ \/ PopulateMessage \/ PopulateEnum \/ PopulateService \/ Duplicate \/ Populated
          \/ BuildType \/ TypesBuilt \/ BuildService
       /\ UNCHANGED ctx

-----------------------------------------------------------------------------
(* Properties *)

\* Every declaration of the input, found without the cache: its path, kind
\* and full name.
Declared ==
    LET Decl(idx, path) == [idx |-> idx, kind |-> Item(idx).kind,
                            full |-> Append(path, Item(idx).name)]
        level[n \in 1..MaxDepth] ==
            IF n = 1 THEN {Decl(d.idx, d.path) : d \in Range(TopLevel(files))}
            ELSE UNION {{Decl(Append(d.idx, i), d.full) : i \in DOMAIN Item(d.idx).inner} :
                           d \in level[n - 1]}
    IN  UNION Range(level)

\* What a reference in a scope should denote: the declarations with the name
\* in the innermost enclosing scope that has one.
Denoted(rel, scope) ==
    LET At(n) == IF Head(rel) = "" THEN Tail(rel) ELSE SubSeq(scope, 1, n) \o rel
        hits  == {n \in 0..Len(scope) : \E d \in Declared : d.full = At(n)}
    IN  {d \in Declared : hits # {} /\ d.full = At(Max(hits))}

FieldRefs(d) ==
    IF d.kind # "Message" THEN {}
    ELSE {f[1] : f \in {g \in Range(FieldsInOrder(Item(d.idx))) : g[1].type = "Unknown"}}

ArgRefs(d) == IF d.kind # "Service" THEN {} ELSE Range(ArgsOf(Item(d.idx)))

\* build accepts a list of files when it should and says why when it does not:
\* "duplicate" when two declarations have one full name, "not found" when some
\* reference denotes nothing, "invalid kind" when an rpc argument denotes no
\* message, and none of these of a list it accepts.
VerdictJustified ==
    LET Doubled  == \E d, e \in Declared : d.idx # e.idx /\ d.full = e.full
        Lost     == \E d \in Declared :
                        \/ \E f \in FieldRefs(d) : Denoted(f.ref, d.full) = {}
                        \/ \E a \in ArgRefs(d) : Denoted(a, d.full) = {}
        Misused  == \E d \in Declared : \E a \in ArgRefs(d) :
                        \E e \in Denoted(a, d.full) : e.kind # "Message"
    IN  /\ status = "DuplicateType" => Doubled
        /\ status = "TypeNotFound" => Lost
        /\ status = "InvalidTypeKind" => Misused
        /\ status = "ready" => ~Doubled /\ ~Lost /\ ~Misused

\* The types are the declared ones under their full names.  A field whose type
\* is given by name has the index of the declaration that name denotes, the
\* index the cache promised before that type was built.  A value of an enum
\* leads to a declared field with the value, one of the aliases if there are any.
BuildsWhatIsDeclared ==
    status = "ready" =>
        /\ {<<t.kind, t.full_name>> : t \in Range(built.types)}
               = {<<d.kind, d.full>> : d \in {e \in Declared : e.kind # "Service"}}
        /\ \A d \in Declared : \A f \in FieldRefs(d) :
             LET fs == FieldsInOrder(Item(d.idx))
             IN  fs[LastWithNumber(fs, f.number)][1] = f
                    => \E m \in get_message(ctx, d.full), e \in Denoted(f.ref, d.full) :
                            LET type == m.fields[f.number].type
                            IN  \E t \in resolve_type(ctx, type.ref) :
                                    t.kind = type.of /\ t.kind = e.kind /\ t.full_name = e.full
        /\ \A d \in Declared : d.kind = "Enum" =>
             \A f \in Range(Item(d.idx).fields) :
                \E t \in get_type(ctx, d.full) : \E g \in get_field_by_value(t, f.number) :
                    g \in Range(Item(d.idx).fields) /\ g.number = f.number

\* The builder's own assertions hold: no index is off (assert_eq!), no type is
\* missing from the cache (expect), no parent is missing, nothing is taken as
\* what it is not.  The exception is ServiceAsFieldType.
AssertionsHold == status # "panic"

\* Violated.  "Service as field type" is claimed to be unreachable.
ServiceAsFieldTypeUnreachable == status # "unreachable"
=============================================================================
