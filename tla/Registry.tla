------------------------------ MODULE Registry ------------------------------
(***************************************************************************)
(* Changing a context by hand (src/src/context/modify_api.rs).  A client   *)
(* drafts a message or an enum, adds members to it and inserts it; the     *)
(* context gives out handles and checks those it is given.                 *)
(***************************************************************************)
EXTENDS Context, SequencesExt

CONSTANTS
    PackageNames, TypeNames, MemberNames, Numbers,  \* what the client uses
    Foreign,                                        \* its handles of other contexts
    MaxPackages, MaxSize, MaxListed                 \* bounds on what there will be

ASSUME RegistryAssumption ==
    /\ PackageNames \subseteq Names /\ TypeNames \subseteq Names
    /\ MemberNames \subseteq Names /\ Numbers \subseteq Nat
    /\ Foreign \subseteq TypeRef
    /\ MaxPackages \in Nat /\ MaxSize \in Nat /\ MaxListed \in Nat

VARIABLE draft    \* the MessageInfo or EnumInfo the client is building: <<>> or <<t>>

-----------------------------------------------------------------------------
(* What the calls return *)

\* MessageInfo::new and EnumInfo::new.
NewType(kind, name, parent) ==
    [kind |-> kind, name |-> name, full_name |-> NoName, parent |-> parent,
     self_ref |-> FirstRef, inner_types |-> <<>>, oneofs |-> <<>>,
     fields |-> <<>>, fields_by_name |-> <<>>]

NewPackage(name) ==
    [name |-> name, self_ref |-> FirstRef, types |-> <<>>, services |-> <<>>]

\* The result of MessageInfo::add_field and EnumInfo::add_field.
FieldVerdict(t, f) ==
    IF f.number \in DOMAIN t.fields THEN "NumberConflict"
    ELSE IF f.name \in DOMAIN t.fields_by_name THEN "NameConflict"
    ELSE IF t.kind = "Message" /\ f.oneof \notin {NoOneof} \cup DOMAIN t.oneofs
    THEN "MissingOneof" ELSE "Ok"

\* Bug: the oneof the field names is not told.
FieldAdded_NotListed(t, f) ==
    [t EXCEPT !.fields = Bind(@, f.number, f),
              !.fields_by_name = Bind(@, f.name, f.number)]

\* A oneof of the message, with the field if it names the oneof.
OneofTold(t, f, o) ==
    IF t.kind = "Message" /\ o = f.oneof
    THEN [t.oneofs[o] EXCEPT !.fields = Append(@, f.number)] ELSE t.oneofs[o]

\* MessageInfo::add_field and EnumInfo::add_field.
FieldAdded(t, f) ==
    [t EXCEPT !.fields = Bind(t.fields, f.number, f),
              !.fields_by_name = Bind(t.fields_by_name, f.name, f.number),
              !.oneofs = [o \in DOMAIN t.oneofs |-> OneofTold(t, f, o)]]

Listed(o) == {o.fields[k] : k \in DOMAIN o.fields}

OneofVerdict(t, o) ==
    IF \E k \in DOMAIN t.oneofs : t.oneofs[k].name = o.name THEN "NameConflict"
    ELSE IF ~ (Listed(o) \subseteq DOMAIN t.fields) THEN "FieldNotFound" ELSE "Ok"

\* MessageInfo::add_oneof: the listed fields now point to the new oneof.
FieldTaken(t, o, n) ==
    IF n \in Listed(o) THEN [t.fields[n] EXCEPT !.oneof = Len(t.oneofs) + 1] ELSE t.fields[n]

OneofAdded(t, o) ==
    [t EXCEPT !.oneofs = Append(t.oneofs, [o EXCEPT !.self_ref = Len(t.oneofs) + 1]),
              !.fields = [n \in DOMAIN t.fields |-> FieldTaken(t, o, n)]]

\* Context::insert_package.
PackageVerdict(c, p) ==
    IF \E k \in DOMAIN c.packages : c.packages[k].name = p.name THEN "Exists" ELSE "Ok"

PackageAdded(c, p) ==
    [c EXCEPT !.packages = Append(@, [p EXCEPT !.self_ref = Len(c.packages) + 1])]

\* Context::insert_type.  A parent handle that denotes nothing here panics.
Dangling(c, t) ==
    t.parent.ref \notin (IF t.parent.of = "Package" THEN DOMAIN c.packages
                                                    ELSE DOMAIN c.types)

FullName(c, t) == OwnerName(c, t.parent) \o t.name

\* Bug: a name is looked up without the name of its package.
InsertVerdict_BareName(c, t) ==
    IF Dangling(c, t) THEN "panic"
    ELSE IF t.name \in DOMAIN c.types_by_name THEN "TypeExists"
    ELSE IF t.parent.of = "Message" /\ c.types[t.parent.ref].kind # "Message"
    THEN "panic" ELSE "Ok"

\* Bug: an enum is as good a parent as a message.
InsertVerdict_AnyParent(c, t) ==
    IF Dangling(c, t) THEN "panic"
    ELSE IF FullName(c, t) \in DOMAIN c.types_by_name THEN "TypeExists" ELSE "Ok"

InsertVerdict(c, t) ==
    IF Dangling(c, t) THEN "panic"
    ELSE IF FullName(c, t) \in DOMAIN c.types_by_name THEN "TypeExists"
    ELSE IF t.parent.of = "Message" /\ c.types[t.parent.ref].kind # "Message"
    THEN "panic" ELSE "Ok"

\* The parent's list with a new handle in it.
WithChild(c, p, ref) ==
    IF p.of = "Package" THEN [c EXCEPT !.packages[p.ref].types = Append(@, ref)]
                        ELSE [c EXCEPT !.types[p.ref].inner_types = Append(@, ref)]

\* The type as it is stored.
Inserted(c, t) == [t EXCEPT !.full_name = FullName(c, t), !.self_ref = Len(c.types) + 1]

\* Bug: the index is taken after the type was pushed.
TypeAdded_LateIndex(c, t) ==
    LET new == Inserted(c, t)
    IN  [WithChild(c, t.parent, RefTo(new)) EXCEPT
            !.types = Append(@, new),
            !.types_by_name = Bind(@, new.full_name, Len(c.types) + 2)]

\* Bug: the parent is given the handle the type had before it was inserted.
TypeAdded_OldHandle(c, t) ==
    LET new == Inserted(c, t)
    IN  [WithChild(c, t.parent, RefTo(t)) EXCEPT
            !.types = Append(@, new),
            !.types_by_name = Bind(@, new.full_name, new.self_ref)]

\* Bug: the new type comes first.
TypeAdded_InFront(c, t) ==
    LET new == [Inserted(c, t) EXCEPT !.self_ref = FirstRef]
    IN  [WithChild(c, t.parent, RefTo(new)) EXCEPT
            !.types = <<new>> \o @,
            !.types_by_name = Bind(@, new.full_name, FirstRef)]

\* What insert_type does once everything is validated.
TypeAdded(c, t) ==
    LET new == Inserted(c, t)
    IN  [WithChild(c, t.parent, RefTo(new)) EXCEPT
            !.types = Append(@, new),
            !.types_by_name = Bind(@, new.full_name, new.self_ref)]

\* What a call leaves behind if it succeeds, a set of at most one element: a call
\* that is refused returns an error and changes nothing.
Ok(verdict, result) == IF verdict = "Ok" THEN {result} ELSE {}

add_field(t, f) == Ok(FieldVerdict(t, f), FieldAdded(t, f))
add_oneof(t, o) == Ok(OneofVerdict(t, o), OneofAdded(t, o))
insert_package(c, p) == Ok(PackageVerdict(c, p), PackageAdded(c, p))
insert_type(c, t) == Ok(InsertVerdict(c, t), TypeAdded(c, t))

-----------------------------------------------------------------------------
(* The calls *)

\* Handles that this context has not given out: the self_ref of a draft, which is
\* MessageRef(0) or EnumRef(0) until it is inserted, and those of other contexts.
\* No call checks where a handle comes from.
Early == {[of |-> kind, ref |-> FirstRef] : kind \in TypeKinds}
Stray == Early \cup Foreign

TypeRefs == Given(ctx) \cup Stray

ParentRefs ==
    {[of |-> "Package", ref |-> p] : p \in DOMAIN ctx.packages}
        \cup {r \in TypeRefs : r.of = "Message"}

\* The type of a field: one scalar for all of them, or any handle at all.
FieldTypes == {[of |-> "Scalar", ref |-> 0]} \cup TypeRefs

\* The types and members there are, for the bound MaxSize.
Size ==
    LET Of(t) == 1 + Cardinality(DOMAIN t.fields) + Len(t.oneofs)
    IN  FoldLeft(LAMBDA n, t : n + Of(t), 0, ctx.types \o draft)

\* A refused insert_package, add_field or add_oneof is a step that changes nothing.
\* The two calls that insert a type have moved the draft in, and drop it.

InsertPackage ==
    /\ Len(ctx.packages) < MaxPackages
    /\ \E name \in PackageNames : ctx' \in insert_package(ctx, NewPackage(name))
    /\ UNCHANGED draft

StartDraft ==
    /\ draft = <<>> /\ Size < MaxSize
    /\ \E kind \in TypeKinds, name \in TypeNames, parent \in ParentRefs :
         draft' = <<NewType(kind, name, parent)>>
    /\ UNCHANGED ctx

AddField ==
    /\ draft # <<>> /\ draft[1].kind = "Message" /\ Size < MaxSize
    /\ \E name \in MemberNames, n \in Numbers, type \in FieldTypes,
          o \in 0..(Len(draft[1].oneofs) + 1) :
         LET f == [name |-> name, number |-> n, type |-> type,
                   multiplicity |-> "Single", oneof |-> o]
         IN  draft' \in {<<t>> : t \in add_field(draft[1], f)}
    /\ UNCHANGED ctx

AddEnumField ==
    /\ draft # <<>> /\ draft[1].kind = "Enum" /\ Size < MaxSize
    /\ \E name \in MemberNames, n \in Numbers :
         LET f == [name |-> name, number |-> n]
         IN  draft' \in {<<t>> : t \in add_field(draft[1], f)}
    /\ UNCHANGED ctx

AddOneof ==
    /\ draft # <<>> /\ draft[1].kind = "Message" /\ Size < MaxSize
    /\ \E name \in MemberNames, fields \in SeqOf(Numbers, MaxListed) :
         LET o == [name |-> name, self_ref |-> FirstRef, fields |-> fields]
         IN  draft' \in {<<t>> : t \in add_oneof(draft[1], o)}
    /\ UNCHANGED ctx

\* Context::insert_message and insert_enum.
InsertType ==
    /\ draft # <<>> /\ ctx' \in insert_type(ctx, draft[1])
    /\ draft' = <<>>

RefuseType ==
    /\ draft # <<>> /\ insert_type(ctx, draft[1]) = {}
    /\ draft' = <<>>
    /\ UNCHANGED ctx

RegistryNext ==
    InsertPackage \/ StartDraft \/ AddField \/ AddEnumField \/ AddOneof
        \/ InsertType \/ RefuseType

\* A context that is made by hand from Context::new on.
RegistryInit == ctx = EmptyContext /\ draft = <<>>
RegistrySpec == RegistryInit /\ [][RegistryNext]_<<ctx, draft>>

-----------------------------------------------------------------------------
(* Properties *)

\* A handle stored in the context, as the type of a field or the argument of an rpc,
\* denotes a type of its kind, so that decoding never meets the panic of
\* resolve_message or resolve_enum: whatever calls follow, only a field that a client
\* gave a stray handle can be without a type.
HandlesResolve ==
    /\ \A i \in DOMAIN ctx.types : ctx.types[i].kind = "Message" =>
            \A n \in DOMAIN ctx.types[i].fields :
                LET type == ctx.types[i].fields[n].type
                IN  TypeResolves(type) \/ type \in Stray
    /\ \A i \in DOMAIN ctx.services : \A k \in DOMAIN ctx.services[i].rpcs :
            LET rpc == ctx.services[i].rpcs[k]
            IN  \A m \in {rpc.input, rpc.output} : resolve_message(ctx, m) # {}

\* The members of every message, service and of the draft agree with their
\* indices, whatever the order in which fields and oneofs were added.
MembersConsistent ==
    /\ \A i \in DOMAIN ctx.types : MembersAgree(ctx.types[i])
    /\ \A i \in DOMAIN draft : MembersAgree(draft[i])
    /\ \A i \in DOMAIN ctx.services : RpcsAgree(ctx.services[i])

\* The names of a context, as Namespace has them.
Entries ==
    [n \in DOMAIN ctx.types_by_name |->
        LET t == ctx.types[ctx.types_by_name[n]]
        IN  [kind |-> t.kind,
             owner |-> IF t.parent.of = "Package" THEN NoName
                       ELSE ctx.types[t.parent.ref].full_name]]

\* A full name keeps denoting the type it was given to, and what is added hangs
\* below a package or below a message that was there before: every step, of
\* parsing and by hand, is one that Namespace allows (insert_type).
NS == INSTANCE Namespace WITH entries <- Entries
KeepsNames == NS!NSSpec

\* Violated.  add_oneof claims to "ensure none of the existing fields are part
\* of oneofs" before it takes them: a field a oneof lists points back to it.
OneofsKeepTheirFields ==
    \A i \in DOMAIN draft : \A o \in DOMAIN draft[i].oneofs :
        \A n \in Listed(draft[i].oneofs[o]) : draft[i].fields[n].oneof = o
=============================================================================
