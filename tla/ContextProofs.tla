---------------------------- MODULE ContextProofs ----------------------------
(***************************************************************************)
(* The type of a context, and what those who make and change one keep of   *)
(* its members and its services.                                           *)
(***************************************************************************)
EXTENDS Context, TLAPS

-----------------------------------------------------------------------------
(* The type of a context *)

Maps(K, V) == UNION {[D -> V] : D \in SUBSET K}

MessageInfo ==
    [kind : {"Message"}, name : Names, full_name : Names, parent : TypeParent,
     self_ref : Nat, inner_types : Seq(TypeRef), oneofs : Seq(Oneof),
     fields : Maps(Nat, MessageField), fields_by_name : Maps(Names, Nat)]
EnumInfo ==
    [kind : {"Enum"}, name : Names, full_name : Names, parent : TypeParent,
     self_ref : Nat, inner_types : Seq(TypeRef), oneofs : {<<>>},
     fields : Maps(Nat, EnumField), fields_by_name : Maps(Names, Nat)]
TypeInfo == MessageInfo \cup EnumInfo
Package == [name : Names, self_ref : Nat, types : Seq(TypeRef), services : Seq(Nat)]
RpcInfo == [name : Names, input : Nat, output : Nat]
ServiceInfo ==
    [name : Names, full_name : Names, self_ref : Nat, parent : Nat,
     rpcs : Seq(RpcInfo), rpcs_by_name : Maps(Names, Nat)]
ContextType ==
    [packages : Seq(Package), types : Seq(TypeInfo), types_by_name : Maps(Names, Nat),
     services : Seq(ServiceInfo), services_by_name : Maps(Names, Nat)]

-----------------------------------------------------------------------------
(* Maps *)

LEMMA EmptyMap == ASSUME NEW K, NEW V PROVE <<>> \in Maps(K, V)
<1>1. <<>> = [x \in {} |-> 0]
  OBVIOUS
<1>2. [x \in {} |-> 0] \in [{} -> V]
  OBVIOUS
<1> QED BY <1>1, <1>2 DEF Maps

LEMMA MapDomain ==
    ASSUME NEW K, NEW V, NEW f \in Maps(K, V)
    PROVE  DOMAIN f \subseteq K /\ f \in [DOMAIN f -> V] /\ \A x \in DOMAIN f : f[x] \in V
BY DEF Maps

LEMMA BindMap ==
    ASSUME NEW K, NEW V, NEW f \in Maps(K, V), NEW k \in K, NEW v \in V
    PROVE  /\ Bind(f, k, v) \in Maps(K, V)
           /\ DOMAIN Bind(f, k, v) = DOMAIN f \cup {k}
           /\ Bind(f, k, v)[k] = v
           /\ \A x \in DOMAIN f : x # k => Bind(f, k, v)[x] = f[x]
<1>1. DOMAIN f \subseteq K /\ \A x \in DOMAIN f : f[x] \in V
  BY MapDomain
<1>2. Bind(f, k, v) \in [DOMAIN f \cup {k} -> V]
  BY <1>1 DEF Bind
<1> QED BY <1>1, <1>2 DEF Bind, Maps

LEMMA EmptyDomain == ASSUME NEW S, NEW s \in Seq(S), DOMAIN s = {} PROVE s = <<>>
<1>1. Len(s) = 0
  BY DOMAIN s = 1..Len(s), Len(s) \in Nat
<1> QED BY <1>1

-----------------------------------------------------------------------------
(* The members of a type *)

LEMMA OneofsTyped ==
    ASSUME NEW t \in TypeInfo
    PROVE  t.oneofs \in Seq(Oneof) /\ (t.kind = "Enum" => t.oneofs = <<>>)
<1>1. CASE t \in MessageInfo
  BY <1>1 DEF MessageInfo
<1>2. CASE t \in EnumInfo
  <2>1. t.oneofs = <<>>
    BY <1>2 DEF EnumInfo
  <2>2. <<>> \in Seq(Oneof)
    OBVIOUS
  <2> QED BY <2>1, <2>2
<1> QED BY <1>1, <1>2 DEF TypeInfo

\* What the calls rely on and keep: the two indices of a type and its oneofs,
\* by position.  (An alias of an enum may have taken the value of a name.)
Members(m) ==
    /\ \A n \in DOMAIN m.fields :
            m.fields[n].number = n /\ m.fields[n].name \in DOMAIN m.fields_by_name
    /\ \A s \in DOMAIN m.fields_by_name :
            /\ m.fields_by_name[s] \in DOMAIN m.fields
            /\ m.kind = "Message" => m.fields[m.fields_by_name[s]].name = s
    /\ \A o \in DOMAIN m.oneofs :
            /\ m.oneofs[o].self_ref = o
            /\ \A k \in DOMAIN m.oneofs[o].fields : m.oneofs[o].fields[k] \in DOMAIN m.fields
    /\ m.kind = "Message" =>
            \A n \in DOMAIN m.fields : m.fields[n].oneof # NoOneof =>
                /\ m.fields[n].oneof \in DOMAIN m.oneofs
                /\ \E k \in DOMAIN m.oneofs[m.fields[n].oneof].fields :
                        m.oneofs[m.fields[n].oneof].fields[k] = n

\* The look-ups of a type find what they should.
LEMMA MembersFound ==
    ASSUME NEW m \in TypeInfo, Members(m)
    PROVE  MembersAgree(m)
<1>1. \A n \in DOMAIN m.fields : get_field(m, n) = {m.fields[n]}
  BY DEF get_field
<1>2. \A s \in DOMAIN m.fields_by_name :
         get_field_by_name(m, s) = {m.fields[m.fields_by_name[s]]}
  BY <1>1 DEF get_field_by_name, Members
<1>3. \A o \in DOMAIN m.oneofs : get_oneof(m, o) = {m.oneofs[o]}
  <2> SUFFICES ASSUME NEW o \in DOMAIN m.oneofs
               PROVE  get_oneof(m, o) = {m.oneofs[o]}
    OBVIOUS
  <2>1. m.oneofs \in Seq(Oneof)
    <3>1. CASE m \in MessageInfo
      BY <3>1 DEF MessageInfo
    <3>2. CASE m \in EnumInfo
      BY <3>2 DEF EnumInfo
    <3> QED BY <3>1, <3>2 DEF TypeInfo
  <2>2. DOMAIN m.oneofs = 1..Len(m.oneofs) /\ Len(m.oneofs) \in Nat
    BY <2>1
  <2>3. \A q \in 1..(o - 1) : q \in DOMAIN m.oneofs /\ q # o
    BY <2>2
  <2>4. {p \in DOMAIN m.oneofs : /\ m.oneofs[p].self_ref = o
                                 /\ \A q \in 1..(p - 1) : m.oneofs[q].self_ref # o} = {o}
    BY <2>2, <2>3 DEF Members
  <2> QED BY <2>4 DEF get_oneof
<1>4. ASSUME NEW n \in DOMAIN m.fields
      PROVE  /\ m.fields[n].number = n
             /\ get_field_by_name(m, m.fields[n].name) # {}
             /\ m.kind = "Message" /\ m.fields[n].oneof # NoOneof =>
                   \E o \in get_oneof(m, m.fields[n].oneof) :
                       \E k \in DOMAIN o.fields : o.fields[k] = n
  <2>1. m.fields[n].number = n /\ get_field_by_name(m, m.fields[n].name) # {}
    BY <1>2 DEF Members
  <2>2. ASSUME m.kind = "Message", m.fields[n].oneof # NoOneof
        PROVE  \E o \in get_oneof(m, m.fields[n].oneof) :
                   \E k \in DOMAIN o.fields : o.fields[k] = n
    BY <1>3, <2>2 DEF Members
  <2> QED BY <2>1, <2>2
<1>5. ASSUME NEW s \in DOMAIN m.fields_by_name
      PROVE  /\ get_field_by_name(m, s) # {}
             /\ m.kind = "Message" => \A f \in get_field_by_name(m, s) : f.name = s
  <2>1. m.kind = "Message" => m.fields[m.fields_by_name[s]].name = s
    BY DEF Members
  <2>2. get_field_by_name(m, s) = {m.fields[m.fields_by_name[s]]}
    BY <1>2
  <2> QED BY <2>1, <2>2
<1>6. ASSUME NEW o \in DOMAIN m.oneofs
      PROVE  /\ get_oneof(m, o) = {m.oneofs[o]}
             /\ \A k \in DOMAIN m.oneofs[o].fields : get_field(m, m.oneofs[o].fields[k]) # {}
  BY <1>1, <1>3 DEF Members
<1> QED BY <1>4, <1>5, <1>6 DEF MembersAgree

-----------------------------------------------------------------------------
(* What a context keeps *)

Denotes(c, ref) == ref \in DOMAIN c.types /\ c.types[ref].kind = "Message"

Rpcs(s) ==
    /\ DOMAIN s.rpcs_by_name = {s.rpcs[k].name : k \in DOMAIN s.rpcs}
    /\ \A n \in DOMAIN s.rpcs_by_name :
          s.rpcs_by_name[n] \in DOMAIN s.rpcs /\ s.rpcs[s.rpcs_by_name[n]].name = n

\* A service, its package and what its rpcs refer to.
ServiceHangs(c, i) ==
    LET s == c.services[i]
    IN  /\ s.self_ref = i /\ Rpcs(s)
        /\ s.full_name \in DOMAIN c.services_by_name /\ c.services_by_name[s.full_name] = i
        /\ s.parent \in DOMAIN c.packages
        /\ s.full_name = c.packages[s.parent].name \o s.name
        /\ \A p \in DOMAIN c.packages :
              (\E k \in DOMAIN c.packages[p].services : c.packages[p].services[k] = i)
                  <=> p = s.parent
        /\ \A k \in DOMAIN s.rpcs : Denotes(c, s.rpcs[k].input) /\ Denotes(c, s.rpcs[k].output)

ServicesHang(c) ==
    /\ \A p \in DOMAIN c.packages : c.packages[p].self_ref = p
    /\ \A i \in DOMAIN c.services : ServiceHangs(c, i)
    /\ \A n \in DOMAIN c.services_by_name : c.services_by_name[n] \in DOMAIN c.services

\* They stay in place while packages and types are only added.
LEMMA ServicesStay ==
    ASSUME NEW c, NEW d, ServicesHang(c),
           d.services = c.services, d.services_by_name = c.services_by_name,
           DOMAIN c.packages \subseteq DOMAIN d.packages,
           \A p \in DOMAIN d.packages : d.packages[p].self_ref = p,
           \A p \in DOMAIN c.packages : /\ d.packages[p].name = c.packages[p].name
                                       /\ d.packages[p].services = c.packages[p].services,
           \A p \in DOMAIN d.packages \ DOMAIN c.packages : d.packages[p].services = <<>>,
           DOMAIN c.types \subseteq DOMAIN d.types,
           \A i \in DOMAIN c.types : d.types[i].kind = c.types[i].kind
    PROVE  ServicesHang(d)
<1>1. \A r : Denotes(c, r) => Denotes(d, r)
  BY DEF Denotes
<1>2. ASSUME NEW i \in DOMAIN d.services PROVE ServiceHangs(d, i)
  <2>1. ServiceHangs(c, i) /\ d.services[i] = c.services[i]
    BY DEF ServicesHang
  <2> DEFINE s == c.services[i]
  <2>2. s.parent \in DOMAIN c.packages
    BY <2>1 DEF ServiceHangs
  <2>3. ASSUME NEW p \in DOMAIN d.packages
        PROVE  (\E k \in DOMAIN d.packages[p].services : d.packages[p].services[k] = i)
                   <=> p = s.parent
    <3>1. CASE p \in DOMAIN c.packages
      <4>1. d.packages[p].services = c.packages[p].services
        BY <3>1
      <4>2. (\E k \in DOMAIN c.packages[p].services : c.packages[p].services[k] = i)
                <=> p = s.parent
        BY <2>1, <3>1 DEF ServiceHangs
      <4> HIDE DEF s
      <4> QED BY <4>1, <4>2
    <3>2. CASE p \notin DOMAIN c.packages
      <4>1. DOMAIN d.packages[p].services = {}
        BY <3>2
      <4> QED BY <2>2, <3>2, <4>1
    <3> QED BY <3>1, <3>2
  <2>4. /\ s.self_ref = i /\ Rpcs(s)
        /\ s.full_name \in DOMAIN d.services_by_name /\ d.services_by_name[s.full_name] = i
        /\ s.parent \in DOMAIN d.packages
        /\ s.full_name = d.packages[s.parent].name \o s.name
    BY <2>1, <2>2 DEF ServiceHangs
  <2>5. \A k \in DOMAIN s.rpcs : Denotes(d, s.rpcs[k].input) /\ Denotes(d, s.rpcs[k].output)
    BY <1>1, <2>1 DEF ServiceHangs
  <2>6. d.services[i] = s
    BY <2>1
  <2> HIDE DEF s
  <2> QED BY <2>3, <2>4, <2>5, <2>6 DEF ServiceHangs
<1> QED BY <1>2 DEF ServicesHang

LEMMA ServicesFound ==
    ASSUME ctx \in ContextType, ServicesHang(ctx)
    PROVE  /\ ServicesAreFound
           /\ \A i \in DOMAIN ctx.services : RpcsAgree(ctx.services[i])
           /\ \A i \in DOMAIN ctx.services : \A k \in DOMAIN ctx.services[i].rpcs :
                  \A m \in {ctx.services[i].rpcs[k].input, ctx.services[i].rpcs[k].output} :
                      resolve_message(ctx, m) # {}
<1>1. ASSUME NEW i \in DOMAIN ctx.services
      PROVE  LET s == ctx.services[i]
             IN  /\ s.self_ref = i
                 /\ get_service(ctx, s.full_name) = {s}
                 /\ \A p \in DOMAIN ctx.packages :
                       (\E k \in DOMAIN ctx.packages[p].services :
                            ctx.packages[p].services[k] = i)
                           <=> ctx.packages[p] \in resolve_package(ctx, s.parent)
                 /\ \A p \in resolve_package(ctx, s.parent) : s.full_name = p.name \o s.name
  <2> DEFINE s == ctx.services[i]
  <2>1. ServiceHangs(ctx, i)
    BY DEF ServicesHang
  <2>2. resolve_package(ctx, s.parent) = {ctx.packages[s.parent]}
    BY <2>1 DEF ServiceHangs, resolve_package
  <2>3. \A p \in DOMAIN ctx.packages :
           ctx.packages[p] = ctx.packages[s.parent] <=> p = s.parent
    <3>1. s.parent \in DOMAIN ctx.packages
      BY <2>1 DEF ServiceHangs
    <3>2. \A p \in DOMAIN ctx.packages : ctx.packages[p].self_ref = p
      BY DEF ServicesHang
    <3> HIDE DEF s
    <3> QED BY <3>1, <3>2
  <2>4. get_service(ctx, s.full_name) = {s}
    BY <2>1 DEF ServiceHangs, get_service
  <2> QED BY <2>1, <2>2, <2>3, <2>4 DEF ServiceHangs
<1>2. ServicesAreFound
  BY <1>1 DEF ServicesAreFound
<1>3. ASSUME NEW i \in DOMAIN ctx.services PROVE RpcsAgree(ctx.services[i])
  <2>1. Rpcs(ctx.services[i])
    BY DEF ServicesHang, ServiceHangs
  <2> QED BY <2>1 DEF Rpcs, RpcsAgree, rpc_by_name
<1>4. \A r : Denotes(ctx, r) => resolve_message(ctx, r) # {}
  BY DEF Denotes, resolve_message, resolve_type
<1>5. \A i \in DOMAIN ctx.services : \A k \in DOMAIN ctx.services[i].rpcs :
         Denotes(ctx, ctx.services[i].rpcs[k].input) /\ Denotes(ctx, ctx.services[i].rpcs[k].output)
  BY DEF ServicesHang, ServiceHangs
<1> QED BY <1>2, <1>3, <1>4, <1>5
=============================================================================
