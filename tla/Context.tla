------------------------------ MODULE Context ------------------------------
(***************************************************************************)
(* The Context of src/src/context/mod.rs: packages, types and services in  *)
(* vectors, handles (PackageRef, MessageRef, EnumRef, ServiceRef,          *)
(* OneofRef) that are indices into them, and maps from full names to       *)
(* indices.  Build fills one from .proto files, Registry changes one by    *)
(* hand, Decode reads one.                                                 *)
(*                                                                         *)
(* Indices count from 1 here and from 0 in the code.  A name is the        *)
(* sequence of its dot-separated parts, so that format!("{}.{}", a, b) is  *)
(* concatenation; no name (the package name None) is the empty sequence.   *)
(***************************************************************************)
EXTENDS Integers, Sequences, FiniteSets

VARIABLE ctx

Names == Seq(STRING)
NoName == <<>>
NoOneof == 0

\* The default value of a handle: InternalRef(0).
FirstRef == 1

TypeKinds == {"Message", "Enum"}
TypeRef == [of : TypeKinds, ref : Nat]
TypeParent == [of : {"Package", "Message"}, ref : Nat]

\* The seventeen value types, told apart by what refers to a type and, for
\* packing, by whether the wire type is 2 ("Blob").
ValueType == [of : {"Scalar", "Blob"}, ref : {0}] \cup TypeRef
Multiplicity == {"Single", "Optional", "Repeated", "RepeatedPacked"}

MessageField == [name : Names, number : Nat, type : ValueType,
                 multiplicity : Multiplicity, oneof : Nat]
EnumField == [name : Names, number : Nat]
Oneof == [name : Names, self_ref : Nat, fields : Seq(Nat)]

EmptyContext == [packages |-> <<>>, types |-> <<>>, types_by_name |-> <<>>,
                 services |-> <<>>, services_by_name |-> <<>>]

\* Map insertion: HashMap::insert, BTreeMap::insert and the vacant entries.
Bind(f, k, v) == [x \in DOMAIN f \cup {k} |-> IF x = k THEN v ELSE f[x]]

-----------------------------------------------------------------------------
(* Look-ups *)

RefTo(t) == [of |-> t.kind, ref |-> t.self_ref]

\* The look-ups return an Option, here a set of at most one element.
get_type(c, name) ==
    {c.types[c.types_by_name[n]] : n \in {name} \cap DOMAIN c.types_by_name}
get_message(c, name) == {t \in get_type(c, name) : t.kind = "Message"}
get_service(c, name) ==
    {c.services[c.services_by_name[n]] : n \in {name} \cap DOMAIN c.services_by_name}
resolve_type(c, ref) == {c.types[i] : i \in {ref} \cap DOMAIN c.types}

\* Nothing stands for the panic of these two and of resolve_package.
resolve_message(c, ref) == {t \in resolve_type(c, ref) : t.kind = "Message"}
resolve_enum(c, ref) == {t \in resolve_type(c, ref) : t.kind = "Enum"}
resolve_package(c, ref) == {c.packages[p] : p \in {ref} \cap DOMAIN c.packages}

\* Of a message, an enum and a service.
get_field(m, number) == {m.fields[n] : n \in {number} \cap DOMAIN m.fields}
get_field_by_name(m, name) ==
    UNION {get_field(m, m.fields_by_name[s]) : s \in {name} \cap DOMAIN m.fields_by_name}
get_oneof(m, oneof) ==
    {m.oneofs[o] : o \in {p \in DOMAIN m.oneofs :
        /\ m.oneofs[p].self_ref = oneof
        /\ \A q \in 1..(p - 1) : m.oneofs[q].self_ref # oneof}}
get_field_by_value(e, value) == get_field(e, value)
rpc_by_name(s, name) ==
    {s.rpcs[s.rpcs_by_name[n]] : n \in {name} \cap DOMAIN s.rpcs_by_name}

\* The handles the context has given out, by insert_* or in a TypeInfo.
Given(c) == {[of |-> c.types[i].kind, ref |-> i] : i \in DOMAIN c.types}

\* The full name of what a parent handle denotes.
OwnerName(c, p) ==
    IF p.of = "Package" THEN c.packages[p.ref].name ELSE c.types[p.ref].full_name

\* What it lists: Package.types or MessageInfo.inner_types.
Children(c, p) ==
    IF p.of = "Package" THEN c.packages[p.ref].types ELSE c.types[p.ref].inner_types

Owners(c) ==
    {[of |-> "Package", ref |-> p] : p \in DOMAIN c.packages}
        \cup {r \in Given(c) : r.of = "Message"}

-----------------------------------------------------------------------------
(* The shape of a context *)

MapInto(f, K, V) == DOMAIN f \subseteq K /\ \A k \in DOMAIN f : f[k] \in V

TypeInfoOK(t) ==
    /\ t.kind \in TypeKinds /\ t.name \in Names /\ t.full_name \in Names
    /\ t.parent \in TypeParent /\ t.self_ref \in Nat
    /\ t.inner_types \in Seq(TypeRef) /\ t.oneofs \in Seq(Oneof)
    /\ MapInto(t.fields, Nat, IF t.kind = "Message" THEN MessageField ELSE EnumField)
    /\ MapInto(t.fields_by_name, Names, DOMAIN t.fields)

PackageOK(p) ==
    /\ p.name \in Names /\ p.self_ref \in Nat
    /\ p.types \in Seq(TypeRef) /\ p.services \in Seq(Nat)

ServiceOK(s) ==
    /\ s.name \in Names /\ s.full_name \in Names
    /\ s.self_ref \in Nat /\ s.parent \in Nat
    /\ \A i \in DOMAIN s.rpcs : s.rpcs[i] \in [name : Names, input : Nat, output : Nat]
    /\ MapInto(s.rpcs_by_name, Names, DOMAIN s.rpcs)

\* Type invariant of a context.
ContextOK ==
    /\ \A i \in DOMAIN ctx.packages : PackageOK(ctx.packages[i])
    /\ \A i \in DOMAIN ctx.types : TypeInfoOK(ctx.types[i])
    /\ \A i \in DOMAIN ctx.services : ServiceOK(ctx.services[i])
    /\ MapInto(ctx.types_by_name, Names, DOMAIN ctx.types)
    /\ MapInto(ctx.services_by_name, Names, DOMAIN ctx.services)

-----------------------------------------------------------------------------
(* Properties of a context, however it was made *)

\* types_by_name is the inverse of full_name: get_type finds every type under
\* its own full name, and no two types share one.
NamesAreKeys ==
    /\ DOMAIN ctx.types_by_name = {ctx.types[i].full_name : i \in DOMAIN ctx.types}
    /\ \A i \in DOMAIN ctx.types : ctx.types_by_name[ctx.types[i].full_name] = i

\* A type hangs below an owner: the parent of an inner type is an older message,
\* the full name is the parent's and the type's own, and the type is listed once,
\* by its parent and by nothing else.
Hangs(c, i) ==
    LET t == c.types[i]
    IN  /\ t.self_ref = i
        /\ t.parent \in Owners(c)
        /\ t.parent.of = "Message" => t.parent.ref < i
        /\ t.full_name = OwnerName(c, t.parent) \o t.name
        /\ \E k \in DOMAIN Children(c, t.parent) :
             \A o \in Owners(c) : \A j \in DOMAIN Children(c, o) :
                Children(c, o)[j] = RefTo(t) <=> o = t.parent /\ j = k

ListsTypes(c) ==
    \A o \in Owners(c) : \A k \in DOMAIN Children(c, o) : Children(c, o)[k] \in Given(c)

\* The types form a forest below the packages, the same seen from both ends,
\* and the parents never run in a circle.
Forest == ListsTypes(ctx) /\ \A i \in DOMAIN ctx.types : Hangs(ctx, i)

\* A service hangs below its package in the same way, and is found by its name.
ServicesAreFound ==
    \A i \in DOMAIN ctx.services : LET s == ctx.services[i] IN
        /\ s.self_ref = i
        /\ get_service(ctx, s.full_name) = {s}
        /\ \A p \in DOMAIN ctx.packages :
              (\E k \in DOMAIN ctx.packages[p].services : ctx.packages[p].services[k] = i)
                  <=> ctx.packages[p] \in resolve_package(ctx, s.parent)
        /\ \A p \in resolve_package(ctx, s.parent) : s.full_name = p.name \o s.name

\* The handle in a field's type, if there is one, denotes a type of its kind.
TypeResolves(type) ==
    /\ type.of = "Message" => resolve_message(ctx, type.ref) # {}
    /\ type.of = "Enum" => resolve_enum(ctx, type.ref) # {}

\* The members of a message agree with its two indices and with its oneofs: a
\* field is found by its number and, unless a later one has taken it, by its
\* name (an alias of an enum may have taken the value); a field that names a
\* oneof is listed by it, and get_oneof finds each oneof at its own position.
MembersAgree(m) ==
    /\ \A n \in DOMAIN m.fields :
            /\ m.fields[n].number = n
            /\ get_field_by_name(m, m.fields[n].name) # {}
            /\ m.kind = "Message" /\ m.fields[n].oneof # NoOneof =>
                  \E o \in get_oneof(m, m.fields[n].oneof) :
                      \E k \in DOMAIN o.fields : o.fields[k] = n
    /\ \A s \in DOMAIN m.fields_by_name :
            /\ get_field_by_name(m, s) # {}
            /\ m.kind = "Message" => \A f \in get_field_by_name(m, s) : f.name = s
    /\ \A o \in DOMAIN m.oneofs :
            /\ get_oneof(m, o) = {m.oneofs[o]}
            /\ \A k \in DOMAIN m.oneofs[o].fields : get_field(m, m.oneofs[o].fields[k]) # {}

\* The rpcs of a service and their index by name.
RpcsAgree(s) ==
    /\ DOMAIN s.rpcs_by_name = {s.rpcs[k].name : k \in DOMAIN s.rpcs}
    /\ \A n \in DOMAIN s.rpcs_by_name : \A rpc \in rpc_by_name(s, n) : rpc.name = n
=============================================================================
