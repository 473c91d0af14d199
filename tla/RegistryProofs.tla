--------------------------- MODULE RegistryProofs ---------------------------
(***************************************************************************)
(* What holds of a context made by hand, for all names, numbers and        *)
(* bounds and for every sequence of calls.                                 *)
(***************************************************************************)
EXTENDS Registry, ContextProofs

\* The draft has no inner types yet.
Typed ==
    /\ ctx \in ContextType
    /\ draft \in {<<>>} \cup {<<t>> : t \in {u \in TypeInfo : u.inner_types = <<>>}}

-----------------------------------------------------------------------------
(* The calls *)

\* A call leaves something behind exactly if its verdict is "Ok".
LEMMA CallsReturn ==
    /\ \A t, f, u : u \in add_field(t, f) <=> FieldVerdict(t, f) = "Ok" /\ u = FieldAdded(t, f)
    /\ \A t, o, u : u \in add_oneof(t, o) <=> OneofVerdict(t, o) = "Ok" /\ u = OneofAdded(t, o)
    /\ \A c, p, d :
          d \in insert_package(c, p) <=> PackageVerdict(c, p) = "Ok" /\ d = PackageAdded(c, p)
    /\ \A c, t, d :
          d \in insert_type(c, t) <=> InsertVerdict(c, t) = "Ok" /\ d = TypeAdded(c, t)
<1>1. \A verdict, result, x : x \in Ok(verdict, result) <=> verdict = "Ok" /\ x = result
  BY DEF Ok
<1> QED BY <1>1 DEF add_field, add_oneof, insert_package, insert_type

-----------------------------------------------------------------------------
(* add_field *)

FieldType(t) == IF t.kind = "Message" THEN MessageField ELSE EnumField

LEMMA FieldAddedTyped ==
    ASSUME NEW t \in TypeInfo, NEW f,
           f \in FieldType(t)
    PROVE  /\ FieldAdded(t, f) \in TypeInfo
           /\ FieldAdded(t, f).inner_types = t.inner_types
           /\ FieldAdded(t, f).kind = t.kind
           /\ FieldAdded(t, f).fields = Bind(t.fields, f.number, f)
           /\ FieldAdded(t, f).fields_by_name = Bind(t.fields_by_name, f.name, f.number)
           /\ DOMAIN FieldAdded(t, f).oneofs = DOMAIN t.oneofs
           /\ \A o \in DOMAIN t.oneofs : FieldAdded(t, f).oneofs[o] = OneofTold(t, f, o)
<1> DEFINE u == FieldAdded(t, f)
           V == FieldType(t)
<1>1. /\ t.kind \in TypeKinds /\ t.fields \in Maps(Nat, V) /\ t.fields_by_name \in Maps(Names, Nat)
      /\ f.number \in Nat /\ f.name \in Names
  BY DEF FieldType, TypeInfo, MessageInfo, EnumInfo, MessageField, EnumField, TypeKinds
<1>2. /\ Bind(t.fields, f.number, f) \in Maps(Nat, V)
      /\ Bind(t.fields_by_name, f.name, f.number) \in Maps(Names, Nat)
  BY <1>1, BindMap
<1>3. t.oneofs \in Seq(Oneof) /\ (t.kind = "Enum" => t.oneofs = <<>>)
  BY OneofsTyped
<1> DEFINE os == [o \in DOMAIN t.oneofs |-> OneofTold(t, f, o)]
<1>4. os \in Seq(Oneof) /\ (t.kind = "Enum" => os = <<>>)
  <2>1. \A o \in DOMAIN t.oneofs : os[o] \in Oneof
    <3> SUFFICES ASSUME NEW o \in DOMAIN t.oneofs
                 PROVE  os[o] \in Oneof
      OBVIOUS
    <3>0. t.oneofs[o] \in Oneof
      BY <1>3
    <3>1. t.oneofs[o] \in Oneof /\ t.oneofs[o].fields \in Seq(Nat)
      BY <3>0 DEF Oneof
    <3>2. Append(t.oneofs[o].fields, f.number) \in Seq(Nat)
      BY <3>1, <1>1
    <3>3. [t.oneofs[o] EXCEPT !.fields = Append(@, f.number)] \in Oneof
      BY <3>1, <3>2 DEF Oneof
    <3> QED BY <3>1, <3>3 DEF OneofTold
  <2>2. DOMAIN t.oneofs = 1..Len(t.oneofs) /\ Len(t.oneofs) \in Nat
    BY <1>3
  <2>3. os \in [1..Len(t.oneofs) -> Oneof]
    BY <2>1, <2>2
  <2>4. os \in Seq(Oneof)
    BY <2>2, <2>3
  <2>5. ASSUME t.kind = "Enum" PROVE os = <<>>
    <3>1. DOMAIN os = {} /\ DOMAIN t.oneofs = {}
      BY <1>3, <2>5
    <3> QED BY <3>1, <2>4, EmptyDomain
  <2> QED BY <2>4, <2>5
<1> DEFINE v == [t EXCEPT !.fields = Bind(t.fields, f.number, f),
                        !.fields_by_name = Bind(t.fields_by_name, f.name, f.number),
                        !.oneofs = os]
<1>6. CASE t \in MessageInfo
  <2>1. V = MessageField
    BY <1>6 DEF MessageInfo, FieldType
  <2>0. u = v
    BY DEF FieldAdded
  <2> HIDE DEF u, os
  <2>2. u \in MessageInfo
    BY <1>2, <1>4, <1>6, <2>0, <2>1 DEF MessageInfo
  <2>3. /\ u.kind = t.kind /\ u.inner_types = t.inner_types /\ u.oneofs = os
        /\ u.fields = Bind(t.fields, f.number, f)
        /\ u.fields_by_name = Bind(t.fields_by_name, f.name, f.number)
    BY <1>6, <2>0 DEF MessageInfo
  <2> QED BY <2>2, <2>3 DEF TypeInfo, os, u
<1>7. CASE t \in EnumInfo
  <2>1. V = EnumField /\ t.kind = "Enum"
    BY <1>7 DEF EnumInfo, FieldType
  <2>0. u = v
    BY DEF FieldAdded
  <2> HIDE DEF u, os
  <2>2. u \in EnumInfo
    BY <1>2, <1>4, <1>7, <2>0, <2>1 DEF EnumInfo
  <2>3. /\ u.kind = t.kind /\ u.inner_types = t.inner_types /\ u.oneofs = os
        /\ u.fields = Bind(t.fields, f.number, f)
        /\ u.fields_by_name = Bind(t.fields_by_name, f.name, f.number)
    BY <1>7, <2>0 DEF EnumInfo
  <2> QED BY <2>2, <2>3 DEF TypeInfo, os, u
<1> QED BY <1>6, <1>7 DEF TypeInfo

LEMMA FieldAddedMembers ==
    ASSUME NEW t \in TypeInfo, Members(t), NEW f,
           f \in FieldType(t),
           FieldVerdict(t, f) = "Ok"
    PROVE  Members(FieldAdded(t, f))
<1> DEFINE u == FieldAdded(t, f)
<1>1. /\ f.number \notin DOMAIN t.fields /\ f.name \notin DOMAIN t.fields_by_name
      /\ t.kind = "Message" => f.oneof \in {NoOneof} \cup DOMAIN t.oneofs
  BY DEF FieldVerdict
<1>2. /\ u.kind = t.kind
      /\ u.fields = Bind(t.fields, f.number, f)
      /\ u.fields_by_name = Bind(t.fields_by_name, f.name, f.number)
      /\ DOMAIN u.oneofs = DOMAIN t.oneofs
      /\ \A o \in DOMAIN t.oneofs : u.oneofs[o] = OneofTold(t, f, o)
  BY FieldAddedTyped
<1> HIDE DEF u
<1>3. /\ DOMAIN u.fields = DOMAIN t.fields \cup {f.number}
      /\ u.fields[f.number] = f
      /\ \A n \in DOMAIN t.fields : n # f.number /\ u.fields[n] = t.fields[n]
  BY <1>1, <1>2 DEF Bind
<1>4. /\ DOMAIN u.fields_by_name = DOMAIN t.fields_by_name \cup {f.name}
      /\ u.fields_by_name[f.name] = f.number
      /\ \A s \in DOMAIN t.fields_by_name :
            s # f.name /\ u.fields_by_name[s] = t.fields_by_name[s]
  BY <1>1, <1>2 DEF Bind
<1>5. ASSUME NEW o \in DOMAIN t.oneofs
      PROVE  /\ u.oneofs[o].self_ref = o
             /\ DOMAIN t.oneofs[o].fields \subseteq DOMAIN u.oneofs[o].fields
             /\ \A k \in DOMAIN t.oneofs[o].fields : u.oneofs[o].fields[k] = t.oneofs[o].fields[k]
             /\ \A k \in DOMAIN u.oneofs[o].fields : u.oneofs[o].fields[k] \in DOMAIN u.fields
             /\ t.kind = "Message" /\ o = f.oneof =>
                   \E k \in DOMAIN u.oneofs[o].fields : u.oneofs[o].fields[k] = f.number
  <2>1. t.oneofs[o] \in Oneof
    BY OneofsTyped
  <2>2. /\ t.oneofs[o].self_ref = o /\ t.oneofs[o].fields \in Seq(Nat)
        /\ \A k \in DOMAIN t.oneofs[o].fields : t.oneofs[o].fields[k] \in DOMAIN t.fields
    BY <2>1 DEF Oneof, Members
  <2>3. CASE t.kind = "Message" /\ o = f.oneof
    <3> DEFINE fs == t.oneofs[o].fields
    <3>1. u.oneofs[o].self_ref = o /\ u.oneofs[o].fields = Append(fs, f.number)
      BY <1>2, <2>1, <2>2, <2>3 DEF Oneof, OneofTold
    <3>2. /\ DOMAIN fs = 1..Len(fs) /\ Len(fs) \in Nat
          /\ DOMAIN Append(fs, f.number) = 1..(Len(fs) + 1)
          /\ \A k \in DOMAIN fs : Append(fs, f.number)[k] = fs[k]
          /\ Append(fs, f.number)[Len(fs) + 1] = f.number
      BY <2>2
    <3> HIDE DEF fs
    <3>3. \A k \in DOMAIN fs : fs[k] \in DOMAIN t.fields
      BY <2>2 DEF fs
    <3>4. \A k \in DOMAIN u.oneofs[o].fields : u.oneofs[o].fields[k] \in DOMAIN u.fields
      <4> SUFFICES ASSUME NEW k \in 1..(Len(fs) + 1)
                   PROVE  Append(fs, f.number)[k] \in DOMAIN u.fields
        BY <3>1, <3>2
      <4>1. CASE k \in DOMAIN fs
        BY <1>3, <3>2, <3>3, <4>1
      <4>2. CASE k = Len(fs) + 1
        BY <1>3, <3>2, <4>2
      <4> QED BY <3>2, <4>1, <4>2
    <3>5. DOMAIN fs \subseteq DOMAIN u.oneofs[o].fields
      BY <3>1, <3>2
    <3>6. \A k \in DOMAIN fs : u.oneofs[o].fields[k] = fs[k]
      BY <3>1, <3>2
    <3>7. \E k \in DOMAIN u.oneofs[o].fields : u.oneofs[o].fields[k] = f.number
      <4>1. Len(fs) + 1 \in 1..(Len(fs) + 1)
        BY <3>2
      <4> QED BY <3>1, <3>2, <4>1
    <3> QED BY <3>1, <3>4, <3>5, <3>6, <3>7 DEF fs
  <2>4. CASE ~(t.kind = "Message" /\ o = f.oneof)
    BY <1>2, <1>3, <2>2, <2>4 DEF OneofTold
  <2> QED BY <2>3, <2>4
<1>6. ASSUME NEW n \in DOMAIN u.fields
      PROVE  u.fields[n].number = n /\ u.fields[n].name \in DOMAIN u.fields_by_name
  BY <1>3, <1>4 DEF Members
<1>7. ASSUME NEW s \in DOMAIN u.fields_by_name
      PROVE  /\ u.fields_by_name[s] \in DOMAIN u.fields
             /\ u.kind = "Message" => u.fields[u.fields_by_name[s]].name = s
  BY <1>2, <1>3, <1>4 DEF Members
<1>8. ASSUME u.kind = "Message", NEW n \in DOMAIN u.fields, u.fields[n].oneof # NoOneof
      PROVE  /\ u.fields[n].oneof \in DOMAIN u.oneofs
             /\ \E k \in DOMAIN u.oneofs[u.fields[n].oneof].fields :
                    u.oneofs[u.fields[n].oneof].fields[k] = n
  <2>1. CASE n = f.number
    BY <1>1, <1>2, <1>3, <1>5, <1>8, <2>1
  <2>2. CASE n \in DOMAIN t.fields
    <3>1. u.fields[n] = t.fields[n] /\ t.kind = "Message"
      BY <1>2, <1>3, <1>8, <2>2
    <3>2. PICK k \in DOMAIN t.oneofs[t.fields[n].oneof].fields :
              /\ t.fields[n].oneof \in DOMAIN t.oneofs
              /\ t.oneofs[t.fields[n].oneof].fields[k] = n
      BY <1>8, <2>2, <3>1 DEF Members
    <3> QED BY <1>2, <1>5, <3>1, <3>2
  <2> QED BY <1>3, <2>1, <2>2
<1>9. \A o \in DOMAIN u.oneofs :
         /\ u.oneofs[o].self_ref = o
         /\ \A k \in DOMAIN u.oneofs[o].fields : u.oneofs[o].fields[k] \in DOMAIN u.fields
  BY <1>2, <1>5
<1>10. Members(u)
  BY <1>6, <1>7, <1>8, <1>9 DEF Members
<1> QED BY <1>10 DEF u

-----------------------------------------------------------------------------
(* add_oneof *)

LEMMA OneofAddedTyped ==
    ASSUME NEW t \in MessageInfo, NEW o \in Oneof
    PROVE  /\ OneofAdded(t, o) \in MessageInfo
           /\ OneofAdded(t, o).inner_types = t.inner_types
           /\ OneofAdded(t, o).fields_by_name = t.fields_by_name
           /\ OneofAdded(t, o).oneofs = Append(t.oneofs, [o EXCEPT !.self_ref = Len(t.oneofs) + 1])
           /\ DOMAIN OneofAdded(t, o).fields = DOMAIN t.fields
           /\ \A n \in DOMAIN t.fields : OneofAdded(t, o).fields[n] = FieldTaken(t, o, n)
<1> DEFINE new == Len(t.oneofs) + 1
           os == Append(t.oneofs, [o EXCEPT !.self_ref = new])
           fs == [n \in DOMAIN t.fields |-> FieldTaken(t, o, n)]
<1>1. t.oneofs \in Seq(Oneof) /\ t.fields \in Maps(Nat, MessageField) /\ new \in Nat
  <2>1. t.oneofs \in Seq(Oneof) /\ t.fields \in Maps(Nat, MessageField)
    BY DEF MessageInfo
  <2> QED BY <2>1
<1>2. os \in Seq(Oneof)
  <2>1. [o EXCEPT !.self_ref = new] \in Oneof
    BY <1>1 DEF Oneof
  <2> QED BY <1>1, <2>1
<1>3. fs \in Maps(Nat, MessageField)
  <2>1. \A n \in DOMAIN t.fields : FieldTaken(t, o, n) \in MessageField
    <3> SUFFICES ASSUME NEW n \in DOMAIN t.fields
                 PROVE  FieldTaken(t, o, n) \in MessageField
      OBVIOUS
    <3>1. t.fields[n] \in MessageField
      BY <1>1, MapDomain
    <3>2. [t.fields[n] EXCEPT !.oneof = new] \in MessageField
      BY <1>1, <3>1 DEF MessageField
    <3> QED BY <3>1, <3>2 DEF FieldTaken
  <2>2. fs \in [DOMAIN t.fields -> MessageField] /\ DOMAIN t.fields \subseteq Nat
    BY <1>1, <2>1, MapDomain
  <2> QED BY <2>2 DEF Maps
<1>4. OneofAdded(t, o) = [t EXCEPT !.oneofs = os, !.fields = fs]
  BY DEF OneofAdded
<1>5. \A n \in DOMAIN t.fields : fs[n] = FieldTaken(t, o, n)
  OBVIOUS
<1>6. DOMAIN fs = DOMAIN t.fields
  OBVIOUS
<1> HIDE DEF fs, os
<1>7. OneofAdded(t, o) \in MessageInfo
  BY <1>2, <1>3, <1>4 DEF MessageInfo
<1>8. /\ OneofAdded(t, o).inner_types = t.inner_types
      /\ OneofAdded(t, o).fields_by_name = t.fields_by_name
      /\ OneofAdded(t, o).oneofs = os
      /\ OneofAdded(t, o).fields = fs
  BY <1>4 DEF MessageInfo
<1> QED BY <1>5, <1>6, <1>7, <1>8 DEF os

\* Taking fields from an older oneof does not disturb what Members says: the
\* older one may go on listing them.
LEMMA OneofAddedMembers ==
    ASSUME NEW t \in MessageInfo, Members(t), NEW o \in Oneof, OneofVerdict(t, o) = "Ok"
    PROVE  Members(OneofAdded(t, o))
<1> DEFINE u == OneofAdded(t, o)
           N == Len(t.oneofs)
<1>1. /\ t \in TypeInfo /\ t.kind = "Message" /\ u.kind = "Message"
      /\ t.oneofs \in Seq(Oneof) /\ N \in Nat /\ DOMAIN t.oneofs = 1..N
      /\ t.fields \in Maps(Nat, MessageField)
  <2>1. t.oneofs \in Seq(Oneof) /\ t.kind = "Message" /\ t.fields \in Maps(Nat, MessageField)
    BY DEF MessageInfo
  <2>2. u.kind = "Message"
    BY OneofAddedTyped DEF MessageInfo
  <2> QED BY <2>1, <2>2 DEF TypeInfo
<1>2. /\ u.fields_by_name = t.fields_by_name
      /\ u.oneofs = Append(t.oneofs, [o EXCEPT !.self_ref = N + 1])
      /\ DOMAIN u.fields = DOMAIN t.fields
      /\ \A n \in DOMAIN t.fields : u.fields[n] = FieldTaken(t, o, n)
  BY OneofAddedTyped
<1> HIDE DEF u
<1>3. /\ DOMAIN u.oneofs = 1..(N + 1)
      /\ \A p \in 1..N : u.oneofs[p] = t.oneofs[p]
      /\ u.oneofs[N + 1] = [o EXCEPT !.self_ref = N + 1]
  BY <1>1, <1>2
<1>4. u.oneofs[N + 1].self_ref = N + 1 /\ u.oneofs[N + 1].fields = o.fields
  BY <1>1, <1>3 DEF Oneof
<1>5. ASSUME NEW n \in DOMAIN t.fields
      PROVE  /\ u.fields[n].number = n /\ u.fields[n].name = t.fields[n].name
             /\ n \in Listed(o) => u.fields[n].oneof = N + 1
             /\ n \notin Listed(o) => u.fields[n].oneof = t.fields[n].oneof
  <2>1. t.fields[n] \in MessageField /\ t.fields[n].number = n
    BY <1>1, MapDomain DEF Members
  <2> QED BY <1>1, <1>2, <2>1 DEF FieldTaken, MessageField
<1>6. Listed(o) \subseteq DOMAIN t.fields
  BY DEF OneofVerdict
<1>7. \A n \in DOMAIN u.fields :
         u.fields[n].number = n /\ u.fields[n].name \in DOMAIN u.fields_by_name
  BY <1>2, <1>5 DEF Members
<1>8. \A s \in DOMAIN u.fields_by_name :
         u.fields_by_name[s] \in DOMAIN u.fields /\ u.fields[u.fields_by_name[s]].name = s
  BY <1>1, <1>2, <1>5 DEF Members
<1>9. ASSUME NEW p \in DOMAIN u.oneofs
      PROVE  /\ u.oneofs[p].self_ref = p
             /\ \A k \in DOMAIN u.oneofs[p].fields : u.oneofs[p].fields[k] \in DOMAIN u.fields
  <2>1. CASE p \in 1..N
    BY <1>1, <1>2, <1>3, <2>1 DEF Members
  <2>2. CASE p = N + 1
    BY <1>2, <1>4, <1>6, <2>2 DEF Listed
  <2> QED BY <1>1, <1>3, <2>1, <2>2
<1>10. ASSUME NEW n \in DOMAIN u.fields, u.fields[n].oneof # NoOneof
       PROVE  /\ u.fields[n].oneof \in DOMAIN u.oneofs
              /\ \E k \in DOMAIN u.oneofs[u.fields[n].oneof].fields :
                     u.oneofs[u.fields[n].oneof].fields[k] = n
  <2>1. CASE n \in Listed(o)
    <3>1. PICK k \in DOMAIN o.fields : o.fields[k] = n
      BY <2>1 DEF Listed
    <3>2. u.fields[n].oneof = N + 1 /\ N + 1 \in DOMAIN u.oneofs
      BY <1>1, <1>2, <1>3, <1>5, <2>1
    <3> QED BY <1>4, <3>1, <3>2
  <2>2. CASE n \notin Listed(o)
    <3>1. u.fields[n].oneof = t.fields[n].oneof
      BY <1>2, <1>5, <2>2
    <3>2. /\ t.fields[n].oneof \in 1..N
          /\ \E k \in DOMAIN t.oneofs[t.fields[n].oneof].fields :
                 t.oneofs[t.fields[n].oneof].fields[k] = n
      BY <1>1, <1>2, <1>10, <3>1 DEF Members
    <3>3. t.fields[n].oneof \in DOMAIN u.oneofs
      BY <1>1, <1>3, <3>2
    <3> QED BY <1>3, <3>1, <3>2, <3>3
  <2> QED BY <2>1, <2>2
<1>11. Members(u)
  BY <1>7, <1>8, <1>9, <1>10 DEF Members
<1> QED BY <1>11 DEF u

-----------------------------------------------------------------------------
(* insert_type *)

NewRef(c, t) == [of |-> t.kind, ref |-> Len(c.types) + 1]

\* The list of an owner, with the new handle if it is the parent.
Extended(c, t, o, list) == IF t.parent = o THEN Append(list, NewRef(c, t)) ELSE list

LEMMA ParentOwns ==
    ASSUME NEW c \in ContextType, NEW t \in TypeInfo, InsertVerdict(c, t) = "Ok"
    PROVE  /\ t.parent \in Owners(c) /\ t.parent \in TypeParent
           /\ t.parent.of = "Package" => t.parent.ref \in DOMAIN c.packages
           /\ t.parent.of = "Message" => /\ t.parent.ref \in DOMAIN c.types
                                         /\ c.types[t.parent.ref].kind = "Message"
           /\ FullName(c, t) \in Names /\ FullName(c, t) \notin DOMAIN c.types_by_name
<1>1. t.parent \in TypeParent /\ t.name \in Names
  BY DEF TypeInfo, MessageInfo, EnumInfo
<1>2. /\ ~Dangling(c, t) /\ FullName(c, t) \notin DOMAIN c.types_by_name
      /\ t.parent.of = "Message" => c.types[t.parent.ref].kind = "Message"
  BY DEF InsertVerdict
<1>3. CASE t.parent.of = "Package"
  <2>1. t.parent.ref \in DOMAIN c.packages
    BY <1>2, <1>3 DEF Dangling
  <2>2. t.parent = [of |-> "Package", ref |-> t.parent.ref]
    BY <1>1, <1>3 DEF TypeParent
  <2>3. t.parent \in Owners(c)
    BY <2>1, <2>2 DEF Owners
  <2>4. c.packages \in Seq(Package)
    BY DEF ContextType
  <2>5. c.packages[t.parent.ref].name \in Names
    <3>1. c.packages[t.parent.ref] \in Package
      BY <2>1, <2>4
    <3> QED BY <3>1 DEF Package
  <2>6. OwnerName(c, t.parent) \in Names
    BY <1>3, <2>5 DEF OwnerName
  <2>7. FullName(c, t) \in Names
    BY <1>1, <2>6 DEF FullName, Names
  <2> QED BY <1>1, <1>2, <1>3, <2>1, <2>3, <2>7
<1>4. CASE t.parent.of = "Message"
  <2>1. t.parent.ref \in DOMAIN c.types
    BY <1>2, <1>4 DEF Dangling
  <2>2. t.parent = [of |-> c.types[t.parent.ref].kind, ref |-> t.parent.ref]
    BY <1>1, <1>2, <1>4 DEF TypeParent
  <2>3. t.parent \in Owners(c)
    BY <1>4, <2>1, <2>2 DEF Owners, Given
  <2>4. c.types \in Seq(TypeInfo)
    BY DEF ContextType
  <2>5. c.types[t.parent.ref].full_name \in Names
    BY <2>1, <2>4 DEF TypeInfo, MessageInfo, EnumInfo
  <2>6. OwnerName(c, t.parent) \in Names
    BY <1>4, <2>5 DEF OwnerName
  <2>7. FullName(c, t) \in Names
    BY <1>1, <2>6 DEF FullName, Names
  <2> QED BY <1>1, <1>2, <1>4, <2>1, <2>3, <2>7
<1> QED BY <1>1, <1>3, <1>4 DEF TypeParent

LEMMA InsertedTyped ==
    ASSUME NEW c \in ContextType, NEW t \in TypeInfo, InsertVerdict(c, t) = "Ok"
    PROVE  /\ Inserted(c, t) \in TypeInfo
           /\ Inserted(c, t).kind = t.kind /\ Inserted(c, t).name = t.name
           /\ Inserted(c, t).parent = t.parent /\ Inserted(c, t).self_ref = Len(c.types) + 1
           /\ Inserted(c, t).full_name = FullName(c, t)
           /\ Inserted(c, t).inner_types = t.inner_types /\ Inserted(c, t).oneofs = t.oneofs
           /\ Inserted(c, t).fields = t.fields
           /\ Inserted(c, t).fields_by_name = t.fields_by_name
           /\ RefTo(Inserted(c, t)) = NewRef(c, t) /\ NewRef(c, t) \in TypeRef
<1>1. FullName(c, t) \in Names
  BY ParentOwns
<1>2. c.types \in Seq(TypeInfo)
  BY DEF ContextType
<1>3. Len(c.types) + 1 \in Nat
  BY <1>2
<1> DEFINE full == FullName(c, t)
           n == Len(c.types) + 1
           u == [t EXCEPT !.full_name = full, !.self_ref = n]
<1> HIDE DEF full, n
<1>4. Inserted(c, t) = u
  BY DEF Inserted, full, n
<1>5. full \in Names /\ n \in Nat
  BY <1>1, <1>3 DEF full, n
<1>6. CASE t \in MessageInfo
  <2>1. u \in MessageInfo
    BY <1>5, <1>6 DEF MessageInfo
  <2>2. /\ u.kind = t.kind /\ u.name = t.name /\ u.parent = t.parent /\ u.self_ref = n
        /\ u.full_name = full /\ u.inner_types = t.inner_types /\ u.oneofs = t.oneofs
        /\ u.fields = t.fields /\ u.fields_by_name = t.fields_by_name
    BY <1>6 DEF MessageInfo
  <2>3. t.kind \in TypeKinds
    BY <1>6 DEF MessageInfo, TypeKinds
  <2> HIDE DEF u
  <2>4. [of |-> t.kind, ref |-> n] \in TypeRef
    BY <1>5, <2>3 DEF TypeRef
  <2> QED BY <1>4, <2>1, <2>2, <2>4 DEF TypeInfo, RefTo, NewRef, full, n
<1>7. CASE t \in EnumInfo
  <2>1. u \in EnumInfo
    BY <1>5, <1>7 DEF EnumInfo
  <2>2. /\ u.kind = t.kind /\ u.name = t.name /\ u.parent = t.parent /\ u.self_ref = n
        /\ u.full_name = full /\ u.inner_types = t.inner_types /\ u.oneofs = t.oneofs
        /\ u.fields = t.fields /\ u.fields_by_name = t.fields_by_name
    BY <1>7 DEF EnumInfo
  <2>3. t.kind \in TypeKinds
    BY <1>7 DEF EnumInfo, TypeKinds
  <2> HIDE DEF u
  <2>4. [of |-> t.kind, ref |-> n] \in TypeRef
    BY <1>5, <2>3 DEF TypeRef
  <2> QED BY <1>4, <2>1, <2>2, <2>4 DEF TypeInfo, RefTo, NewRef, full, n
<1> QED BY <1>6, <1>7 DEF TypeInfo

\* What no call of insert_type changes.
SameServices(c, d) == d.services = c.services /\ d.services_by_name = c.services_by_name
SamePackage(q, p) == q.name = p.name /\ q.self_ref = p.self_ref /\ q.services = p.services

\* WithChild changes the list of one owner and nothing else.
LEMMA WithChildTyped ==
    ASSUME NEW c \in ContextType, NEW p \in Owners(c), p \in TypeParent, NEW ref \in TypeRef
    PROVE  LET w == WithChild(c, p, ref)
           IN  /\ w \in ContextType
               /\ Len(w.types) = Len(c.types) /\ Len(w.packages) = Len(c.packages)
               /\ w.types_by_name = c.types_by_name /\ SameServices(c, w)
               /\ \A q \in DOMAIN c.packages :
                    /\ SamePackage(w.packages[q], c.packages[q])
                    /\ w.packages[q].types =
                         IF p = [of |-> "Package", ref |-> q]
                         THEN Append(c.packages[q].types, ref) ELSE c.packages[q].types
               /\ \A i \in DOMAIN c.types :
                    w.types[i] = [c.types[i] EXCEPT !.inner_types =
                         IF p = [of |-> "Message", ref |-> i]
                         THEN Append(c.types[i].inner_types, ref) ELSE c.types[i].inner_types]
<1> DEFINE w == WithChild(c, p, ref)
<1>1. c.types \in Seq(TypeInfo) /\ c.packages \in Seq(Package)
  BY DEF ContextType
<1>2. \A i \in DOMAIN c.types :
        /\ c.types[i] = [c.types[i] EXCEPT !.inner_types = c.types[i].inner_types]
        /\ c.types[i].inner_types \in Seq(TypeRef)
  <2> SUFFICES ASSUME NEW i \in DOMAIN c.types
               PROVE  /\ c.types[i] = [c.types[i] EXCEPT !.inner_types = c.types[i].inner_types]
                      /\ c.types[i].inner_types \in Seq(TypeRef)
    OBVIOUS
  <2>1. c.types[i] \in TypeInfo
    BY <1>1
  <2>2. CASE c.types[i] \in MessageInfo
    BY <2>2 DEF MessageInfo
  <2>3. CASE c.types[i] \in EnumInfo
    BY <2>3 DEF EnumInfo
  <2> QED BY <2>1, <2>2, <2>3 DEF TypeInfo
<1>3. CASE p.of = "Package"
  <2>1. p.ref \in DOMAIN c.packages /\ p = [of |-> "Package", ref |-> p.ref]
    BY <1>3 DEF Owners, Given
  <2> DEFINE old == c.packages[p.ref]
             pkg == [old EXCEPT !.types = Append(old.types, ref)]
             ps  == [c.packages EXCEPT ![p.ref] = pkg]
  <2>2. old \in Package
    BY <1>1, <2>1
  <2>3. pkg \in Package /\ SamePackage(pkg, old) /\ pkg.types = Append(old.types, ref)
    <3>1. Append(old.types, ref) \in Seq(TypeRef)
      BY <2>2 DEF Package
    <3> QED BY <2>2, <3>1 DEF Package, SamePackage
  <2>4. /\ ps \in Seq(Package) /\ Len(ps) = Len(c.packages)
        /\ ps[p.ref] = pkg /\ \A q \in DOMAIN c.packages : q # p.ref => ps[q] = c.packages[q]
    <3> HIDE DEF pkg
    <3> QED BY <1>1, <2>1, <2>3
  <2>5. w = [c EXCEPT !.packages = ps]
    BY <1>3 DEF WithChild
  <2> HIDE DEF ps, w
  <2>6. /\ w \in ContextType /\ w.types = c.types /\ w.packages = ps
        /\ w.types_by_name = c.types_by_name /\ SameServices(c, w)
    BY <2>4, <2>5 DEF ContextType, SameServices
  <2>7. \A q \in DOMAIN c.packages :
          /\ SamePackage(w.packages[q], c.packages[q])
          /\ w.packages[q].types =
               IF p = [of |-> "Package", ref |-> q]
               THEN Append(c.packages[q].types, ref) ELSE c.packages[q].types
    <3> SUFFICES ASSUME NEW q \in DOMAIN c.packages
                 PROVE  /\ SamePackage(w.packages[q], c.packages[q])
                        /\ w.packages[q].types =
                             IF p = [of |-> "Package", ref |-> q]
                             THEN Append(c.packages[q].types, ref) ELSE c.packages[q].types
      OBVIOUS
    <3>1. CASE q = p.ref
      <4>1. w.packages[q] = pkg
        BY <2>4, <2>6, <3>1
      <4> HIDE DEF pkg
      <4> QED BY <2>1, <2>3, <3>1, <4>1
    <3>2. CASE q # p.ref
      <4>1. p # [of |-> "Package", ref |-> q]
        BY <2>1, <3>2
      <4> QED BY <2>4, <2>6, <3>2, <4>1 DEF SamePackage
    <3> QED BY <3>1, <3>2
  <2>8. \A i \in DOMAIN c.types : p # [of |-> "Message", ref |-> i]
    BY <2>1
  <2>9. \A i \in DOMAIN c.types :
          w.types[i] = [c.types[i] EXCEPT !.inner_types =
               IF p = [of |-> "Message", ref |-> i]
               THEN Append(c.types[i].inner_types, ref) ELSE c.types[i].inner_types]
    BY <1>2, <2>6, <2>8
  <2> QED BY <2>4, <2>6, <2>7, <2>9 DEF w
<1>4. CASE p.of = "Message"
  <2>1. /\ p.ref \in DOMAIN c.types /\ c.types[p.ref].kind = "Message"
        /\ p = [of |-> "Message", ref |-> p.ref]
    BY <1>4 DEF Owners, Given
  <2> DEFINE old == c.types[p.ref]
             msg == [old EXCEPT !.inner_types = Append(old.inner_types, ref)]
             ts  == [c.types EXCEPT ![p.ref] = msg]
  <2>2. old \in MessageInfo
    <3>1. old \in TypeInfo
      BY <1>1, <2>1
    <3> QED BY <2>1, <3>1 DEF TypeInfo, EnumInfo
  <2>3. msg \in TypeInfo
    <3>1. Append(old.inner_types, ref) \in Seq(TypeRef)
      BY <2>2 DEF MessageInfo
    <3> QED BY <2>2, <3>1 DEF MessageInfo, TypeInfo
  <2>4. /\ ts \in Seq(TypeInfo) /\ Len(ts) = Len(c.types)
        /\ ts[p.ref] = msg /\ \A i \in DOMAIN c.types : i # p.ref => ts[i] = c.types[i]
    <3> HIDE DEF msg
    <3> QED BY <1>1, <2>1, <2>3
  <2>5. w = [c EXCEPT !.types = ts]
    BY <1>4 DEF WithChild
  <2> HIDE DEF ts, w
  <2>6. /\ w \in ContextType /\ w.types = ts /\ w.packages = c.packages
        /\ w.types_by_name = c.types_by_name /\ SameServices(c, w)
    BY <2>4, <2>5 DEF ContextType, SameServices
  <2>7. \A q \in DOMAIN c.packages : p # [of |-> "Package", ref |-> q]
    BY <2>1
  <2>9. \A i \in DOMAIN c.types :
          w.types[i] = [c.types[i] EXCEPT !.inner_types =
               IF p = [of |-> "Message", ref |-> i]
               THEN Append(c.types[i].inner_types, ref) ELSE c.types[i].inner_types]
    <3> SUFFICES ASSUME NEW i \in DOMAIN c.types
                 PROVE  w.types[i] = [c.types[i] EXCEPT !.inner_types =
                             IF p = [of |-> "Message", ref |-> i]
                             THEN Append(c.types[i].inner_types, ref)
                             ELSE c.types[i].inner_types]
      OBVIOUS
    <3>1. CASE i = p.ref
      BY <2>1, <2>4, <2>6, <3>1
    <3>2. CASE i # p.ref
      <4>1. p # [of |-> "Message", ref |-> i]
        BY <2>1, <3>2
      <4> QED BY <1>2, <2>4, <2>6, <3>2, <4>1
    <3> QED BY <3>1, <3>2
  <2> QED BY <2>4, <2>6, <2>7, <2>9 DEF w, SamePackage
<1> QED BY <1>3, <1>4 DEF TypeParent

\* The context after insert_type: one type more, which is listed by its parent
\* and found by its full name; all else is as it was.
LEMMA TypeAddedShape ==
    ASSUME NEW c \in ContextType, NEW t \in TypeInfo, t.inner_types = <<>>,
           InsertVerdict(c, t) = "Ok"
    PROVE  LET d == TypeAdded(c, t)
               n == Len(c.types) + 1
           IN  /\ d \in ContextType
               /\ n \in Nat /\ DOMAIN c.types = 1..(n - 1) /\ DOMAIN d.types = 1..n
               /\ DOMAIN d.packages = DOMAIN c.packages
               /\ d.types[n] = Inserted(c, t)
               /\ \A i \in DOMAIN c.types :
                    d.types[i] = [c.types[i] EXCEPT !.inner_types =
                        Extended(c, t, [of |-> "Message", ref |-> i], c.types[i].inner_types)]
               /\ \A q \in DOMAIN c.packages :
                    /\ SamePackage(d.packages[q], c.packages[q])
                    /\ d.packages[q].types =
                         Extended(c, t, [of |-> "Package", ref |-> q], c.packages[q].types)
               /\ d.types_by_name = Bind(c.types_by_name, FullName(c, t), n)
               /\ SameServices(c, d)
<1> DEFINE d == TypeAdded(c, t)
           n == Len(c.types) + 1
           new == Inserted(c, t)
           w == WithChild(c, t.parent, NewRef(c, t))
           map == Bind(c.types_by_name, FullName(c, t), n)
           ts == Append(w.types, new)
<1>1. c.types \in Seq(TypeInfo) /\ c.packages \in Seq(Package)
      /\ c.types_by_name \in Maps(Names, Nat)
  BY DEF ContextType
<1>2. n \in Nat /\ DOMAIN c.types = 1..(n - 1)
  BY <1>1
<1>3. /\ new \in TypeInfo /\ RefTo(new) = NewRef(c, t) /\ NewRef(c, t) \in TypeRef
      /\ new.self_ref = n /\ new.full_name = FullName(c, t)
  BY InsertedTyped
<1>4. /\ t.parent \in Owners(c) /\ t.parent \in TypeParent /\ FullName(c, t) \in Names
  BY ParentOwns
<1>5. /\ w \in ContextType
      /\ Len(w.types) = Len(c.types) /\ Len(w.packages) = Len(c.packages)
      /\ w.types_by_name = c.types_by_name /\ SameServices(c, w)
      /\ \A q \in DOMAIN c.packages :
           /\ SamePackage(w.packages[q], c.packages[q])
           /\ w.packages[q].types =
                Extended(c, t, [of |-> "Package", ref |-> q], c.packages[q].types)
      /\ \A i \in DOMAIN c.types :
           w.types[i] = [c.types[i] EXCEPT !.inner_types =
                Extended(c, t, [of |-> "Message", ref |-> i], c.types[i].inner_types)]
  <2> DEFINE ref == NewRef(c, t)
             p == t.parent
  <2> HIDE DEF ref, p
  <2>1. p \in Owners(c) /\ p \in TypeParent /\ ref \in TypeRef
    BY <1>3, <1>4 DEF ref, p
  <2>2. w = WithChild(c, p, ref)
    BY DEF ref, p
  <2> HIDE DEF w
  <2>3. /\ w \in ContextType
        /\ Len(w.types) = Len(c.types) /\ Len(w.packages) = Len(c.packages)
        /\ w.types_by_name = c.types_by_name /\ SameServices(c, w)
        /\ \A q \in DOMAIN c.packages :
             /\ SamePackage(w.packages[q], c.packages[q])
             /\ w.packages[q].types =
                  IF p = [of |-> "Package", ref |-> q]
                  THEN Append(c.packages[q].types, ref) ELSE c.packages[q].types
        /\ \A i \in DOMAIN c.types :
             w.types[i] = [c.types[i] EXCEPT !.inner_types =
                  IF p = [of |-> "Message", ref |-> i]
                  THEN Append(c.types[i].inner_types, ref) ELSE c.types[i].inner_types]
    BY <2>1, <2>2, WithChildTyped
  <2> QED BY <2>3 DEF Extended, p, ref
<1>6. map \in Maps(Names, Nat)
  BY <1>1, <1>2, <1>4, BindMap
<1>7. d = [w EXCEPT !.types = ts, !.types_by_name = map]
  BY <1>3, <1>5 DEF TypeAdded, ContextType
<1> HIDE DEF w, map, d, new
<1>8. w.types \in Seq(TypeInfo) /\ w.packages \in Seq(Package)
  BY <1>5 DEF ContextType
<1>9. /\ ts \in Seq(TypeInfo) /\ DOMAIN ts = 1..n /\ ts[n] = new
      /\ \A i \in 1..(n - 1) : ts[i] = w.types[i]
  BY <1>2, <1>3, <1>5, <1>8
<1> HIDE DEF ts
<1>10. /\ d \in ContextType /\ d.types = ts /\ d.packages = w.packages
       /\ d.types_by_name = map /\ SameServices(c, d)
  BY <1>5, <1>6, <1>7, <1>9 DEF ContextType, SameServices
<1>11. DOMAIN d.packages = DOMAIN c.packages
  BY <1>1, <1>5, <1>8, <1>10
<1> QED BY <1>2, <1>5, <1>9, <1>10, <1>11 DEF d, new, map

\* The owners after insert_type, what they list and what they are called.
LEMMA OwnersAfter ==
    ASSUME NEW c \in ContextType, NEW t \in TypeInfo, t.inner_types = <<>>,
           InsertVerdict(c, t) = "Ok"
    PROVE  LET d == TypeAdded(c, t)
               r == NewRef(c, t)
           IN  /\ Given(d) = Given(c) \cup {r}
               /\ Owners(d) = Owners(c) \cup {x \in {r} : t.kind = "Message"}
               /\ r \notin Given(c) /\ r \notin Owners(c)
               /\ \A o \in Owners(c) :
                    /\ Children(c, o) \in Seq(TypeRef)
                    /\ Children(d, o) = Extended(c, t, o, Children(c, o))
                    /\ OwnerName(d, o) = OwnerName(c, o)
               /\ t.kind = "Message" => Children(d, r) = <<>>
               /\ \A i \in DOMAIN c.types :
                    /\ d.types[i].kind = c.types[i].kind /\ d.types[i].name = c.types[i].name
                    /\ d.types[i].full_name = c.types[i].full_name
                    /\ d.types[i].parent = c.types[i].parent
                    /\ d.types[i].self_ref = c.types[i].self_ref
                    /\ d.types[i].oneofs = c.types[i].oneofs
                    /\ d.types[i].fields = c.types[i].fields
                    /\ d.types[i].fields_by_name = c.types[i].fields_by_name
                    /\ d.types[i].inner_types =
                         Extended(c, t, [of |-> "Message", ref |-> i], c.types[i].inner_types)
                    /\ c.types[i].inner_types \in Seq(TypeRef)
<1> DEFINE d == TypeAdded(c, t)
           r == NewRef(c, t)
           n == Len(c.types) + 1
<1>1. /\ d \in ContextType
      /\ n \in Nat /\ DOMAIN c.types = 1..(n - 1) /\ DOMAIN d.types = 1..n
      /\ DOMAIN d.packages = DOMAIN c.packages
      /\ d.types[n] = Inserted(c, t)
      /\ \A i \in DOMAIN c.types :
           d.types[i] = [c.types[i] EXCEPT !.inner_types =
               Extended(c, t, [of |-> "Message", ref |-> i], c.types[i].inner_types)]
      /\ \A q \in DOMAIN c.packages :
           /\ SamePackage(d.packages[q], c.packages[q])
           /\ d.packages[q].types =
                Extended(c, t, [of |-> "Package", ref |-> q], c.packages[q].types)
  BY TypeAddedShape
<1>2. /\ Inserted(c, t).kind = t.kind /\ Inserted(c, t).inner_types = <<>>
  BY InsertedTyped
<1> HIDE DEF d
<1>3. c.types \in Seq(TypeInfo) /\ c.packages \in Seq(Package)
  BY DEF ContextType
<1>4. ASSUME NEW i \in DOMAIN c.types
      PROVE  /\ d.types[i].kind = c.types[i].kind /\ d.types[i].name = c.types[i].name
             /\ d.types[i].full_name = c.types[i].full_name
             /\ d.types[i].parent = c.types[i].parent
             /\ d.types[i].self_ref = c.types[i].self_ref
             /\ d.types[i].oneofs = c.types[i].oneofs
             /\ d.types[i].fields = c.types[i].fields
             /\ d.types[i].fields_by_name = c.types[i].fields_by_name
             /\ d.types[i].inner_types =
                  Extended(c, t, [of |-> "Message", ref |-> i], c.types[i].inner_types)
             /\ c.types[i].inner_types \in Seq(TypeRef)
  <2> DEFINE list == Extended(c, t, [of |-> "Message", ref |-> i], c.types[i].inner_types)
             old == c.types[i]
  <2>1. old \in TypeInfo
    BY <1>3
  <2>2. d.types[i] = [old EXCEPT !.inner_types = list]
    BY <1>1
  <2> HIDE DEF list, old
  <2>3. CASE old \in MessageInfo
    BY <2>2, <2>3 DEF MessageInfo, old, list
  <2>4. CASE old \in EnumInfo
    BY <2>2, <2>4 DEF EnumInfo, old, list
  <2> QED BY <2>1, <2>3, <2>4 DEF TypeInfo
<1>5. /\ n \notin DOMAIN c.types /\ n \in DOMAIN d.types /\ d.types[n].kind = t.kind
      /\ d.types[n].inner_types = <<>>
      /\ \A i \in DOMAIN d.types : i = n \/ i \in DOMAIN c.types
      /\ DOMAIN c.types \subseteq DOMAIN d.types
      /\ r = [of |-> t.kind, ref |-> n]
  BY <1>1, <1>2 DEF NewRef
<1> HIDE DEF n, r
<1>6. Given(d) = Given(c) \cup {r}
  <2>1. ASSUME NEW x \in Given(d) PROVE x \in Given(c) \cup {r}
    <3>1. PICK i \in DOMAIN d.types : x = [of |-> d.types[i].kind, ref |-> i]
      BY DEF Given
    <3>2. CASE i = n
      BY <1>5, <3>1, <3>2
    <3>3. CASE i \in DOMAIN c.types
      BY <1>4, <3>1, <3>3 DEF Given
    <3> QED BY <1>5, <3>2, <3>3
  <2>2. r \in Given(d)
    BY <1>5 DEF Given
  <2>3. ASSUME NEW x \in Given(c) PROVE x \in Given(d)
    <3>1. PICK i \in DOMAIN c.types : x = [of |-> c.types[i].kind, ref |-> i]
      BY DEF Given
    <3>2. i \in DOMAIN d.types /\ d.types[i].kind = c.types[i].kind
      BY <1>4, <1>5
    <3> QED BY <3>1, <3>2 DEF Given
  <2> QED BY <2>1, <2>2, <2>3
<1>7. r \notin Given(c)
  BY <1>5 DEF Given
<1>8. t.kind \in TypeKinds
  BY DEF TypeInfo, MessageInfo, EnumInfo, TypeKinds
<1>9. r.of = t.kind /\ r.ref = n
  BY <1>5
<1>10. Owners(d) = Owners(c) \cup {x \in {r} : t.kind = "Message"}
  BY <1>1, <1>6, <1>9 DEF Owners
<1>11. r \notin Owners(c)
  BY <1>7, <1>8, <1>9 DEF Owners, TypeKinds
<1>12. ASSUME NEW o \in Owners(c)
       PROVE  /\ Children(c, o) \in Seq(TypeRef)
              /\ Children(d, o) = Extended(c, t, o, Children(c, o))
              /\ OwnerName(d, o) = OwnerName(c, o)
  <2>1. CASE o.of = "Package"
    <3>1. o.ref \in DOMAIN c.packages /\ o = [of |-> "Package", ref |-> o.ref]
      BY <2>1 DEF Owners, Given
    <3>2. c.packages[o.ref] \in Package
      BY <1>3, <3>1
    <3>3. c.packages[o.ref].types \in Seq(TypeRef)
      BY <3>2 DEF Package
    <3> QED BY <1>1, <2>1, <3>1, <3>3 DEF Children, OwnerName, SamePackage
  <2>2. CASE o.of # "Package"
    <3>1. o.ref \in DOMAIN c.types /\ o = [of |-> "Message", ref |-> o.ref]
      BY <2>2 DEF Owners, Given
    <3> QED BY <1>4, <2>2, <3>1 DEF Children, OwnerName
  <2> QED BY <2>1, <2>2
<1>13. t.kind = "Message" => Children(d, r) = <<>>
  BY <1>5, <1>9 DEF Children
<1> QED BY <1>4, <1>6, <1>7, <1>10, <1>11, <1>12, <1>13 DEF d, r

-----------------------------------------------------------------------------
(* The invariant *)

\* The members of all types, of the draft too, in the form the calls keep.
AllMembers ==
    /\ \A i \in DOMAIN ctx.types : Members(ctx.types[i])
    /\ \A i \in DOMAIN draft : Members(draft[i])

\* What the type of a field may be: a handle that denotes a type of its kind, or a
\* stray one.
MayHold(type) == TypeResolves(type) \/ type \in Stray

FieldsResolve(t) == t.kind = "Message" => \A n \in DOMAIN t.fields : MayHold(t.fields[n].type)

AllResolve ==
    /\ \A i \in DOMAIN ctx.types : FieldsResolve(ctx.types[i])
    /\ \A i \in DOMAIN draft : FieldsResolve(draft[i])

IInv ==
    Typed /\ NamesAreKeys /\ Forest /\ AllMembers /\ AllResolve /\ ServicesHang(ctx)

LEMMA IInvInit == RegistryInit => IInv
<1> SUFFICES ASSUME RegistryInit PROVE IInv
  OBVIOUS
<1>1. /\ ctx = EmptyContext /\ draft = <<>>
      /\ ctx.types = <<>> /\ ctx.packages = <<>> /\ ctx.types_by_name = <<>>
  BY DEF RegistryInit, EmptyContext
<1>2. Typed
  <2>1. <<>> \in Maps(Names, Nat)
    BY EmptyMap
  <2>2. ctx \in ContextType
    BY <1>1, <2>1 DEF EmptyContext, ContextType
  <2> QED BY <1>1, <2>2 DEF Typed
<1>3. DOMAIN ctx.types = {} /\ DOMAIN ctx.packages = {} /\ DOMAIN ctx.types_by_name = {}
      /\ DOMAIN draft = {}
  BY <1>1
<1>4. NamesAreKeys
  BY <1>3 DEF NamesAreKeys
<1>5. Forest
  BY <1>3 DEF Forest, ListsTypes, Owners, Given
<1>6. AllMembers /\ AllResolve
  BY <1>3 DEF AllMembers, AllResolve
<1>7. ServicesHang(ctx)
  <2>1. DOMAIN ctx.services = {} /\ DOMAIN ctx.services_by_name = {}
    BY <1>1 DEF EmptyContext
  <2> QED BY <1>3, <2>1 DEF ServicesHang
<1> QED BY <1>2, <1>4, <1>5, <1>6, <1>7 DEF IInv

-----------------------------------------------------------------------------
(* The calls keep the invariant *)

\* A handle that resolves goes on resolving while types are only added.
LEMMA StillResolves ==
    ASSUME NEW type, MayHold(type),
           DOMAIN ctx.types \subseteq DOMAIN ctx'.types,
           \A i \in DOMAIN ctx.types : ctx'.types[i].kind = ctx.types[i].kind
    PROVE  MayHold(type)'
<1>1. TypeResolves(type) => TypeResolves(type)'
  BY DEF TypeResolves, resolve_message, resolve_enum, resolve_type
<1> QED BY <1>1 DEF MayHold, Stray, Early

\* A call that only changes the draft.
LEMMA DraftStep ==
    ASSUME IInv, ctx' = ctx, NEW t \in TypeInfo, draft' = <<t>>, t.inner_types = <<>>,
           Members(t), FieldsResolve(t)
    PROVE  IInv'
<1>1. Typed'
  BY DEF IInv, Typed
<1>2. NamesAreKeys' /\ Forest'
  <2>1. NamesAreKeys'
    BY DEF IInv, NamesAreKeys
  <2>2. Forest'
    BY DEF IInv, Forest
  <2> QED BY <2>1, <2>2
<1>3. DOMAIN draft' = {1} /\ draft'[1] = t
  OBVIOUS
<1>4. AllMembers'
  BY <1>3 DEF IInv, AllMembers
<1>5. \A type : MayHold(type) => MayHold(type)'
  BY StillResolves
<1>6. AllResolve'
  <2>1. \A i \in DOMAIN ctx.types : FieldsResolve(ctx.types[i])'
    BY <1>5 DEF IInv, AllResolve, FieldsResolve
  <2>2. FieldsResolve(t)'
    BY <1>5 DEF FieldsResolve
  <2> QED BY <1>3, <2>1, <2>2 DEF AllResolve, FieldsResolve
<1>7. ServicesHang(ctx)'
  BY DEF IInv
<1> QED BY <1>1, <1>2, <1>4, <1>6, <1>7 DEF IInv

\* A fresh draft has no members to disagree.
LEMMA NewTypeTyped ==
    ASSUME NEW kind \in TypeKinds, NEW name \in Names, NEW parent \in TypeParent
    PROVE  LET t == NewType(kind, name, parent)
           IN  /\ t \in TypeInfo /\ t.inner_types = <<>>
               /\ Members(t) /\ FieldsResolve(t)
<1> DEFINE t == NewType(kind, name, parent)
<1>1. /\ t.kind = kind /\ t.inner_types = <<>> /\ t.oneofs = <<>>
      /\ t.fields = <<>> /\ t.fields_by_name = <<>>
  BY DEF NewType
<1>2. \A V : <<>> \in Maps(Nat, V) /\ <<>> \in Maps(Names, V)
  BY EmptyMap
<1>3. t \in TypeInfo
  <2>1. NoName \in Names /\ FirstRef \in Nat /\ <<>> \in Seq(TypeRef) /\ <<>> \in Seq(Oneof)
    BY DEF NoName, Names, FirstRef
  <2>2. CASE kind = "Message"
    BY <1>2, <2>1, <2>2 DEF NewType, TypeInfo, MessageInfo
  <2>3. CASE kind = "Enum"
    BY <1>2, <2>1, <2>3 DEF NewType, TypeInfo, EnumInfo
  <2> QED BY <2>2, <2>3 DEF TypeKinds
<1>4. DOMAIN t.fields = {} /\ DOMAIN t.fields_by_name = {} /\ DOMAIN t.oneofs = {}
  BY <1>1
<1>5. Members(t) /\ FieldsResolve(t)
  <2> HIDE DEF t
  <2> QED BY <1>4 DEF Members, FieldsResolve
<1> QED BY <1>1, <1>3, <1>5

\* The handles that a client holds are typed.
LEMMA GivenTyped ==
    ASSUME IInv
    PROVE  /\ ParentRefs \subseteq TypeParent
           /\ FieldTypes \subseteq ValueType
           /\ \A type \in FieldTypes : MayHold(type)
<1>1. /\ ctx.types \in Seq(TypeInfo) /\ ctx.packages \in Seq(Package)
      /\ DOMAIN ctx.types \subseteq Nat /\ DOMAIN ctx.packages \subseteq Nat
  BY DEF IInv, Typed, ContextType
<1>2. ASSUME NEW r \in Given(ctx)
      PROVE  /\ r \in TypeRef /\ r.ref \in DOMAIN ctx.types
             /\ ctx.types[r.ref].kind = r.of /\ r = [of |-> r.of, ref |-> r.ref]
  <2>1. PICK i \in DOMAIN ctx.types : r = [of |-> ctx.types[i].kind, ref |-> i]
    BY DEF Given
  <2>2. ctx.types[i].kind \in TypeKinds
    <3>1. ctx.types[i] \in TypeInfo
      BY <1>1
    <3> QED BY <3>1 DEF TypeInfo, MessageInfo, EnumInfo, TypeKinds
  <2> QED BY <1>1, <2>1, <2>2 DEF TypeRef
<1>3. Stray \subseteq TypeRef
  BY RegistryAssumption DEF Stray, Early, TypeRef, FirstRef
<1>4. ParentRefs \subseteq TypeParent
  <2> SUFFICES ASSUME NEW r \in ParentRefs PROVE r \in TypeParent
    OBVIOUS
  <2>1. CASE r \in {[of |-> "Package", ref |-> p] : p \in DOMAIN ctx.packages}
    BY <1>1, <2>1 DEF TypeParent
  <2>2. CASE r \in TypeRefs /\ r.of = "Message"
    <3>1. r \in TypeRef
      BY <1>2, <1>3, <2>2 DEF TypeRefs
    <3> QED BY <2>2, <3>1 DEF TypeRef, TypeParent
  <2> QED BY <2>1, <2>2 DEF ParentRefs
<1>5. ASSUME NEW type \in FieldTypes PROVE type \in ValueType /\ MayHold(type)
  <2>1. CASE type = [of |-> "Scalar", ref |-> 0]
    BY <2>1 DEF ValueType, MayHold, TypeResolves
  <2>2. CASE type \in Given(ctx)
    BY <1>2, <2>2
       DEF ValueType, MayHold, TypeResolves, resolve_message, resolve_enum, resolve_type
  <2>3. CASE type \in Stray
    BY <1>3, <2>3 DEF ValueType, MayHold
  <2> QED BY <2>1, <2>2, <2>3 DEF FieldTypes, TypeRefs
<1> QED BY <1>4, <1>5

LEMMA StartDraftKeeps == IInv /\ StartDraft => IInv'
<1> SUFFICES ASSUME IInv, StartDraft PROVE IInv'
  OBVIOUS
<1>1. PICK kind \in TypeKinds, name \in TypeNames, parent \in ParentRefs :
          draft' = <<NewType(kind, name, parent)>>
  BY DEF StartDraft
<1> DEFINE t == NewType(kind, name, parent)
<1>2. name \in Names /\ parent \in TypeParent
  BY GivenTyped, RegistryAssumption
<1>3. t \in TypeInfo /\ t.inner_types = <<>> /\ Members(t) /\ FieldsResolve(t)
  BY <1>2, NewTypeTyped
<1>4. ctx' = ctx /\ draft' = <<t>>
  BY <1>1 DEF StartDraft
<1> HIDE DEF t
<1> QED BY <1>3, <1>4, DraftStep

\* What is known of a draft that a call is made on.
LEMMA DraftKnown ==
    ASSUME IInv, draft # <<>>
    PROVE  /\ draft[1] \in TypeInfo /\ draft[1].inner_types = <<>>
           /\ Members(draft[1]) /\ FieldsResolve(draft[1])
<1>1. PICK t \in TypeInfo : draft = <<t>> /\ t.inner_types = <<>>
  BY DEF IInv, Typed
<1>2. 1 \in DOMAIN draft
  BY <1>1
<1> QED BY <1>1, <1>2 DEF IInv, AllMembers, AllResolve

LEMMA AddFieldKeeps == IInv /\ AddField => IInv'
<1> SUFFICES ASSUME IInv, AddField PROVE IInv'
  OBVIOUS
<1> DEFINE t == draft[1]
<1>1. t \in TypeInfo /\ t.inner_types = <<>> /\ Members(t) /\ FieldsResolve(t)
  BY DraftKnown DEF AddField
<1>2. t.kind = "Message" /\ ctx' = ctx
  BY DEF AddField
<1>3. PICK name \in MemberNames, n \in Numbers, type \in FieldTypes, o \in 0..(Len(t.oneofs) + 1) :
          LET f == [name |-> name, number |-> n, type |-> type,
                    multiplicity |-> "Single", oneof |-> o]
          IN  FieldVerdict(t, f) = "Ok" /\ draft' = <<FieldAdded(t, f)>>
  BY CallsReturn DEF AddField
<1> DEFINE f == [name |-> name, number |-> n, type |-> type,
                 multiplicity |-> "Single", oneof |-> o]
           u == FieldAdded(t, f)
<1>4. f \in FieldType(t)
  <2>1. name \in Names /\ n \in Nat /\ type \in ValueType /\ "Single" \in Multiplicity
    BY GivenTyped, RegistryAssumption DEF Multiplicity
  <2>2. o \in Nat
    BY <1>1, OneofsTyped
  <2> QED BY <1>2, <2>1, <2>2 DEF FieldType, MessageField
<1>5. MayHold(f.type)
  BY GivenTyped
<1>6. FieldVerdict(t, f) = "Ok" /\ draft' = <<u>>
  BY <1>3
<1> HIDE DEF t, f
<1>7. u \in TypeInfo /\ u.inner_types = <<>> /\ u.fields = Bind(t.fields, f.number, f)
  BY <1>1, <1>4, FieldAddedTyped
<1>8. Members(u)
  BY <1>1, <1>4, <1>6, FieldAddedMembers
<1> HIDE DEF u
<1>9. FieldsResolve(u)
  BY <1>1, <1>2, <1>5, <1>7 DEF FieldsResolve, Bind
<1> QED BY <1>2, <1>6, <1>7, <1>8, <1>9, DraftStep

LEMMA AddEnumFieldKeeps == IInv /\ AddEnumField => IInv'
<1> SUFFICES ASSUME IInv, AddEnumField PROVE IInv'
  OBVIOUS
<1> DEFINE t == draft[1]
<1>1. t \in TypeInfo /\ t.inner_types = <<>> /\ Members(t)
  BY DraftKnown DEF AddEnumField
<1>2. t.kind = "Enum" /\ ctx' = ctx
  BY DEF AddEnumField
<1>3. PICK name \in MemberNames, n \in Numbers :
          LET f == [name |-> name, number |-> n]
          IN  FieldVerdict(t, f) = "Ok" /\ draft' = <<FieldAdded(t, f)>>
  BY CallsReturn DEF AddEnumField
<1> DEFINE f == [name |-> name, number |-> n]
           u == FieldAdded(t, f)
<1>4. f \in FieldType(t)
  BY <1>2, RegistryAssumption DEF FieldType, EnumField
<1>5. FieldVerdict(t, f) = "Ok" /\ draft' = <<u>>
  BY <1>3
<1> HIDE DEF t, f
<1>6. u \in TypeInfo /\ u.inner_types = <<>> /\ u.kind = t.kind
  BY <1>1, <1>4, FieldAddedTyped
<1>7. Members(u)
  BY <1>1, <1>4, <1>5, FieldAddedMembers
<1> HIDE DEF u
<1>8. FieldsResolve(u)
  BY <1>2, <1>6 DEF FieldsResolve
<1> QED BY <1>2, <1>5, <1>6, <1>7, <1>8, DraftStep

LEMMA AddOneofKeeps == IInv /\ AddOneof => IInv'
<1> SUFFICES ASSUME IInv, AddOneof PROVE IInv'
  OBVIOUS
<1> DEFINE t == draft[1]
<1>1. t \in TypeInfo /\ t.inner_types = <<>> /\ Members(t) /\ FieldsResolve(t)
  BY DraftKnown DEF AddOneof
<1>2. t \in MessageInfo /\ t.kind = "Message" /\ ctx' = ctx
  BY <1>1 DEF AddOneof, TypeInfo, EnumInfo
<1>3. PICK name \in MemberNames, fields \in SeqOf(Numbers, MaxListed) :
          LET o == [name |-> name, self_ref |-> FirstRef, fields |-> fields]
          IN  OneofVerdict(t, o) = "Ok" /\ draft' = <<OneofAdded(t, o)>>
  BY CallsReturn DEF AddOneof
<1> DEFINE o == [name |-> name, self_ref |-> FirstRef, fields |-> fields]
           u == OneofAdded(t, o)
<1>4. o \in Oneof
  <2>1. fields \in Seq(Nat)
    <3>1. PICK n \in 0..MaxListed : fields \in [1..n -> Numbers]
      BY DEF SeqOf
    <3>2. n \in Nat
      BY RegistryAssumption
    <3>3. \A k \in 1..n : fields[k] \in Nat
      BY <3>1, RegistryAssumption
    <3>4. fields \in [1..n -> Nat]
      BY <3>1, <3>3
    <3> QED BY <3>2, <3>4
  <2> QED BY <2>1, RegistryAssumption DEF Oneof, FirstRef
<1>5. OneofVerdict(t, o) = "Ok" /\ draft' = <<u>>
  BY <1>3
<1> HIDE DEF t, o
<1>6. /\ u \in MessageInfo /\ u.inner_types = t.inner_types
      /\ DOMAIN u.fields = DOMAIN t.fields
      /\ \A n \in DOMAIN t.fields : u.fields[n] = FieldTaken(t, o, n)
  BY <1>2, <1>4, OneofAddedTyped
<1>7. Members(u)
  BY <1>1, <1>2, <1>4, <1>5, OneofAddedMembers
<1> HIDE DEF u
<1>8. ASSUME NEW n \in DOMAIN t.fields PROVE u.fields[n].type = t.fields[n].type
  <2>1. t.fields \in Maps(Nat, MessageField)
    BY <1>2 DEF MessageInfo
  <2>2. t.fields[n] \in MessageField
    BY <2>1, MapDomain
  <2> QED BY <1>6, <2>2 DEF FieldTaken, MessageField
<1>9. FieldsResolve(u)
  BY <1>1, <1>2, <1>6, <1>8 DEF FieldsResolve
<1>10. u \in TypeInfo /\ u.inner_types = <<>>
  BY <1>1, <1>6 DEF TypeInfo
<1> QED BY <1>2, <1>5, <1>7, <1>9, <1>10, DraftStep

LEMMA RefuseTypeKeeps == IInv /\ RefuseType => IInv'
<1> SUFFICES ASSUME IInv, RefuseType PROVE IInv'
  OBVIOUS
<1>1. ctx' = ctx /\ draft' = <<>> /\ DOMAIN draft' = {}
  BY DEF RefuseType
<1>2. Typed'
  BY <1>1 DEF IInv, Typed
<1>3. NamesAreKeys'
  BY <1>1 DEF IInv, NamesAreKeys
<1>4. Forest'
  BY <1>1 DEF IInv, Forest
<1>5. AllMembers'
  BY <1>1 DEF IInv, AllMembers
<1>6. AllResolve'
  <2>1. \A type : MayHold(type) => MayHold(type)'
    BY <1>1, StillResolves
  <2> QED BY <1>1, <2>1 DEF IInv, AllResolve, FieldsResolve
<1>7. ServicesHang(ctx)'
  BY <1>1 DEF IInv
<1> QED BY <1>2, <1>3, <1>4, <1>5, <1>6, <1>7 DEF IInv

-----------------------------------------------------------------------------
(* The calls that change the context *)

\* Everything in c is in d under the same handle and the same name, and the
\* lists of the owners have only been added to, and with new handles.
Grows(c, d) ==
    /\ DOMAIN c.types \subseteq DOMAIN d.types
    /\ \A i \in DOMAIN c.types :
          /\ d.types[i].kind = c.types[i].kind /\ d.types[i].name = c.types[i].name
          /\ d.types[i].full_name = c.types[i].full_name
          /\ d.types[i].parent = c.types[i].parent
          /\ d.types[i].self_ref = c.types[i].self_ref
    /\ Owners(c) \subseteq Owners(d)
    /\ \A o \in Owners(c) :
          /\ OwnerName(d, o) = OwnerName(c, o)
          /\ \A k \in DOMAIN Children(c, o) :
                k \in DOMAIN Children(d, o) /\ Children(d, o)[k] = Children(c, o)[k]
    /\ \A o \in Owners(d) : \A k \in DOMAIN Children(d, o) :
          \/ o \in Owners(c) /\ k \in DOMAIN Children(c, o)
          \/ Children(d, o)[k] \notin Given(c)

\* A type keeps its place in a context that grows.
LEMMA StillHangs ==
    ASSUME NEW c, NEW d, Grows(c, d), NEW i \in DOMAIN c.types, Hangs(c, i)
    PROVE  Hangs(d, i)
<1> DEFINE t == c.types[i]
           u == d.types[i]
<1>1. /\ t.self_ref = i /\ t.parent \in Owners(c)
      /\ t.parent.of = "Message" => t.parent.ref < i
      /\ t.full_name = OwnerName(c, t.parent) \o t.name
  BY DEF Hangs
<1>2. /\ u.kind = t.kind /\ u.name = t.name /\ u.full_name = t.full_name
      /\ u.parent = t.parent /\ u.self_ref = t.self_ref
  BY DEF Grows
<1>3. RefTo(u) = RefTo(t) /\ RefTo(t) \in Given(c)
  BY <1>1, <1>2 DEF RefTo, Given
<1>4. PICK k \in DOMAIN Children(c, t.parent) :
          \A o \in Owners(c) : \A j \in DOMAIN Children(c, o) :
              Children(c, o)[j] = RefTo(t) <=> o = t.parent /\ j = k
  BY DEF Hangs
<1>5. k \in DOMAIN Children(d, t.parent)
  BY <1>1 DEF Grows
<1>6. ASSUME NEW o \in Owners(d), NEW j \in DOMAIN Children(d, o)
      PROVE  Children(d, o)[j] = RefTo(u) <=> o = t.parent /\ j = k
  <2>1. CASE o \in Owners(c) /\ j \in DOMAIN Children(c, o)
    <3>1. Children(d, o)[j] = Children(c, o)[j]
      BY <2>1 DEF Grows
    <3> QED BY <1>3, <1>4, <2>1, <3>1
  <2>2. CASE ~(o \in Owners(c) /\ j \in DOMAIN Children(c, o))
    <3>1. Children(d, o)[j] \notin Given(c)
      BY <2>2 DEF Grows
    <3> QED BY <1>1, <1>3, <2>2, <3>1
  <2> QED BY <2>1, <2>2
<1>7. t.parent \in Owners(d) /\ OwnerName(d, t.parent) = OwnerName(c, t.parent)
  BY <1>1 DEF Grows
<1> HIDE DEF t, u
<1>8. \E kk \in DOMAIN Children(d, u.parent) :
          \A o \in Owners(d) : \A j \in DOMAIN Children(d, o) :
              Children(d, o)[j] = RefTo(u) <=> o = u.parent /\ j = kk
  BY <1>2, <1>5, <1>6
<1> QED BY <1>1, <1>2, <1>7, <1>8 DEF Hangs, u

LEMMA InsertTypeGrows ==
    ASSUME NEW c \in ContextType, NEW t \in TypeInfo, t.inner_types = <<>>,
           InsertVerdict(c, t) = "Ok"
    PROVE  Grows(c, TypeAdded(c, t))
<1> DEFINE d == TypeAdded(c, t)
           r == NewRef(c, t)
<1>1. /\ Owners(d) = Owners(c) \cup {x \in {r} : t.kind = "Message"}
      /\ r \notin Given(c)
      /\ \A o \in Owners(c) :
           /\ Children(c, o) \in Seq(TypeRef)
           /\ Children(d, o) = Extended(c, t, o, Children(c, o))
           /\ OwnerName(d, o) = OwnerName(c, o)
      /\ t.kind = "Message" => Children(d, r) = <<>>
      /\ \A i \in DOMAIN c.types :
           /\ d.types[i].kind = c.types[i].kind /\ d.types[i].name = c.types[i].name
           /\ d.types[i].full_name = c.types[i].full_name
           /\ d.types[i].parent = c.types[i].parent
           /\ d.types[i].self_ref = c.types[i].self_ref
  BY OwnersAfter, ZenonT(60)
<1>2. DOMAIN c.types \subseteq DOMAIN d.types
  BY TypeAddedShape
<1> HIDE DEF d, r
<1>3. ASSUME NEW o \in Owners(c)
      PROVE  /\ \A k \in DOMAIN Children(c, o) :
                    k \in DOMAIN Children(d, o) /\ Children(d, o)[k] = Children(c, o)[k]
             /\ \A k \in DOMAIN Children(d, o) :
                    k \in DOMAIN Children(c, o) \/ Children(d, o)[k] = r
  <2> DEFINE list == Children(c, o)
  <2>1. list \in Seq(TypeRef) /\ Children(d, o) = IF t.parent = o THEN Append(list, r) ELSE list
    BY <1>1 DEF Extended, r
  <2> HIDE DEF list
  <2>2. /\ DOMAIN list = 1..Len(list) /\ Len(list) \in Nat
        /\ DOMAIN Append(list, r) = 1..(Len(list) + 1)
        /\ \A k \in DOMAIN list : Append(list, r)[k] = list[k]
        /\ Append(list, r)[Len(list) + 1] = r
    BY <2>1
  <2>3. \A k \in DOMAIN Append(list, r) : k \in DOMAIN list \/ Append(list, r)[k] = r
    BY <2>2
  <2>4. \A k \in DOMAIN list : k \in DOMAIN Append(list, r)
    BY <2>2
  <2> QED BY <2>1, <2>2, <2>3, <2>4 DEF list
<1>4. \A o \in Owners(d) : \A k \in DOMAIN Children(d, o) :
          \/ o \in Owners(c) /\ k \in DOMAIN Children(c, o)
          \/ Children(d, o)[k] \notin Given(c)
  <2> SUFFICES ASSUME NEW o \in Owners(d), NEW k \in DOMAIN Children(d, o)
               PROVE  \/ o \in Owners(c) /\ k \in DOMAIN Children(c, o)
                      \/ Children(d, o)[k] \notin Given(c)
    OBVIOUS
  <2>1. CASE o \in Owners(c)
    BY <1>1, <1>3, <2>1
  <2>2. CASE o \notin Owners(c)
    <3>1. Children(d, o) = <<>>
      BY <1>1, <2>2
    <3> QED BY <3>1
  <2> QED BY <2>1, <2>2
<1>5. Grows(c, d)
  BY <1>1, <1>2, <1>3, <1>4 DEF Grows
<1> QED BY <1>5 DEF d

\* The new type hangs below its parent.
LEMMA InsertedHangs ==
    ASSUME NEW c \in ContextType, ListsTypes(c),
           NEW t \in TypeInfo, t.inner_types = <<>>, InsertVerdict(c, t) = "Ok"
    PROVE  LET d == TypeAdded(c, t) IN ListsTypes(d) /\ Hangs(d, Len(c.types) + 1)
<1> DEFINE d == TypeAdded(c, t)
           r == NewRef(c, t)
           n == Len(c.types) + 1
           p == t.parent
<1>1. /\ Given(d) = Given(c) \cup {r}
      /\ Owners(d) = Owners(c) \cup {x \in {r} : t.kind = "Message"}
      /\ r \notin Given(c) /\ r \notin Owners(c)
      /\ \A o \in Owners(c) :
           /\ Children(c, o) \in Seq(TypeRef)
           /\ Children(d, o) = Extended(c, t, o, Children(c, o))
           /\ OwnerName(d, o) = OwnerName(c, o)
      /\ t.kind = "Message" => Children(d, r) = <<>>
  BY OwnersAfter
<1>2. /\ n \in Nat /\ DOMAIN c.types = 1..(n - 1) /\ d.types[n] = Inserted(c, t)
  BY TypeAddedShape
<1>3. /\ Inserted(c, t).self_ref = n /\ Inserted(c, t).parent = p
      /\ Inserted(c, t).name = t.name
      /\ Inserted(c, t).full_name = OwnerName(c, p) \o t.name
      /\ RefTo(Inserted(c, t)) = r
  BY InsertedTyped DEF FullName
<1>4. p \in Owners(c) /\ p.of = "Message" => p.ref \in DOMAIN c.types
  BY ParentOwns
<1>5. p \in Owners(c)
  BY ParentOwns
<1> HIDE DEF d, r
<1>6. ASSUME NEW o \in Owners(d), NEW k \in DOMAIN Children(d, o)
      PROVE  /\ Children(d, o)[k] \in Given(d)
             /\ Children(d, o)[k] = r <=> o = p /\ k = Len(Children(c, p)) + 1
  <2>1. CASE o \in Owners(c) /\ o # p
    <3>1. Children(d, o) = Children(c, o)
      BY <1>1, <2>1 DEF Extended
    <3>2. Children(d, o)[k] \in Given(c)
      BY <2>1, <3>1 DEF ListsTypes
    <3> QED BY <1>1, <2>1, <3>2
  <2>2. CASE o = p
    <3> DEFINE list == Children(c, p)
    <3>1. list \in Seq(TypeRef) /\ Children(d, o) = Append(list, r)
      BY <1>1, <1>5, <2>2 DEF Extended, r
    <3>2. \A j \in DOMAIN list : list[j] \in Given(c)
      BY <1>5 DEF ListsTypes
    <3> HIDE DEF list
    <3>3. /\ DOMAIN list = 1..Len(list) /\ Len(list) \in Nat
          /\ DOMAIN Append(list, r) = 1..(Len(list) + 1)
          /\ \A j \in DOMAIN list : Append(list, r)[j] = list[j]
          /\ Append(list, r)[Len(list) + 1] = r
      BY <3>1
    <3>4. k \in DOMAIN list \/ k = Len(list) + 1
      BY <3>1, <3>3
    <3>5. CASE k \in DOMAIN list
      <4>1. k # Len(list) + 1
        BY <3>3, <3>5
      <4> QED BY <1>1, <2>2, <3>1, <3>2, <3>3, <3>5, <4>1 DEF list
    <3>6. CASE k = Len(list) + 1
      BY <1>1, <2>2, <3>1, <3>3, <3>6 DEF list
    <3> QED BY <3>4, <3>5, <3>6
  <2>3. CASE o \notin Owners(c)
    <3>1. Children(d, o) = <<>>
      BY <1>1, <2>3
    <3> QED BY <3>1
  <2> QED BY <2>1, <2>2, <2>3
<1>7. ListsTypes(d)
  BY <1>6 DEF ListsTypes
<1>8. Len(Children(c, p)) + 1 \in DOMAIN Children(d, p)
  <2>1. Children(c, p) \in Seq(TypeRef) /\ Children(d, p) = Append(Children(c, p), r)
    BY <1>1, <1>5 DEF Extended, r
  <2> DEFINE list == Children(c, p)
  <2> HIDE DEF list
  <2>2. list \in Seq(TypeRef) => Len(list) + 1 \in DOMAIN Append(list, r)
    OBVIOUS
  <2> QED BY <2>1, <2>2 DEF list
<1>9. p.of = "Message" => p.ref < n
  BY <1>2, <1>4, <1>5
<1>10. p \in Owners(d) /\ OwnerName(d, p) = OwnerName(c, p)
  BY <1>1, <1>5
<1> DEFINE new == Inserted(c, t)
<1> HIDE DEF n, new, p
<1>11. /\ new.self_ref = n /\ new.parent = p /\ new.full_name = OwnerName(d, p) \o new.name
       /\ RefTo(new) = r /\ d.types[n] = new
  BY <1>2, <1>3, <1>10 DEF new
<1>12. \E k \in DOMAIN Children(d, p) :
          \A o \in Owners(d) : \A j \in DOMAIN Children(d, o) :
             Children(d, o)[j] = r <=> o = p /\ j = k
  BY <1>6, <1>8
<1>13. Hangs(d, n)
  <2>1. /\ d.types[n].self_ref = n /\ d.types[n].parent = p
        /\ d.types[n].full_name = OwnerName(d, p) \o d.types[n].name
        /\ RefTo(d.types[n]) = r
    BY <1>11
  <2>2. \E k \in DOMAIN Children(d, d.types[n].parent) :
           \A o \in Owners(d) : \A j \in DOMAIN Children(d, o) :
              Children(d, o)[j] = RefTo(d.types[n]) <=> o = d.types[n].parent /\ j = k
    BY <1>12, <2>1
  <2>3. /\ d.types[n].parent \in Owners(d)
        /\ d.types[n].parent.of = "Message" => d.types[n].parent.ref < n
        /\ d.types[n].full_name = OwnerName(d, d.types[n].parent) \o d.types[n].name
    BY <1>9, <1>10, <2>1
  <2> QED BY <2>1, <2>2, <2>3 DEF Hangs
<1> QED BY <1>7, <1>13 DEF d, n

LEMMA InsertTypeKeeps == IInv /\ InsertType => IInv'
<1> SUFFICES ASSUME IInv, InsertType PROVE IInv'
  OBVIOUS
<1> DEFINE t == draft[1]
           d == TypeAdded(ctx, t)
           n == Len(ctx.types) + 1
<1>1. /\ t \in TypeInfo /\ t.inner_types = <<>> /\ Members(t) /\ FieldsResolve(t)
  BY DraftKnown DEF InsertType
<1>2. InsertVerdict(ctx, t) = "Ok" /\ ctx' = d /\ draft' = <<>> /\ DOMAIN draft' = {}
  BY CallsReturn DEF InsertType
<1> HIDE DEF t
<1>3. ctx \in ContextType
  BY DEF IInv, Typed
<1> n \in Nat \ {0}
  BY <1>3 DEF ContextType
<1>4. /\ d \in ContextType
      /\ DOMAIN ctx.types = 1..(n - 1) /\ DOMAIN d.types = 1..n
      /\ d.types[n] = Inserted(ctx, t)
      /\ d.types_by_name = Bind(ctx.types_by_name, FullName(ctx, t), n)
  BY <1>1, <1>2, <1>3, TypeAddedShape
<1>5. /\ Inserted(ctx, t).kind = t.kind /\ Inserted(ctx, t).full_name = FullName(ctx, t)
      /\ Inserted(ctx, t).oneofs = t.oneofs /\ Inserted(ctx, t).fields = t.fields
      /\ Inserted(ctx, t).fields_by_name = t.fields_by_name
  BY <1>1, <1>2, <1>3, InsertedTyped
<1>6. FullName(ctx, t) \notin DOMAIN ctx.types_by_name
  BY <1>1, <1>2, <1>3, ParentOwns
<1> HIDE DEF n
<1>7. ASSUME NEW i \in DOMAIN ctx.types
      PROVE  /\ d.types[i].kind = ctx.types[i].kind
             /\ d.types[i].full_name = ctx.types[i].full_name
             /\ d.types[i].oneofs = ctx.types[i].oneofs
             /\ d.types[i].fields = ctx.types[i].fields
             /\ d.types[i].fields_by_name = ctx.types[i].fields_by_name
  <2> DEFINE list == Extended(ctx, t, [of |-> "Message", ref |-> i], ctx.types[i].inner_types)
  <2>1. d.types[i] = [ctx.types[i] EXCEPT !.inner_types = list]
    BY <1>1, <1>2, <1>3, TypeAddedShape
  <2>2. ctx.types[i] \in TypeInfo
    BY <1>3 DEF ContextType
  <2> HIDE DEF d, list
  <2> QED BY <2>1, <2>2 DEF TypeInfo
<1> HIDE DEF d
<1>8. \A i \in DOMAIN d.types : i = n \/ i \in DOMAIN ctx.types
  BY <1>4
<1>9. DOMAIN ctx.types \subseteq DOMAIN d.types /\ n \in DOMAIN d.types /\ n \notin DOMAIN ctx.types
  BY <1>4
<1>10. Typed'
  BY <1>2, <1>4 DEF Typed
<1>11. NamesAreKeys'
  <2> DEFINE full == FullName(ctx, t)
  <2> HIDE DEF full
  <2>1. /\ DOMAIN ctx.types_by_name = {ctx.types[i].full_name : i \in DOMAIN ctx.types}
        /\ \A i \in DOMAIN ctx.types : ctx.types_by_name[ctx.types[i].full_name] = i
    BY DEF IInv, NamesAreKeys
  <2>2. /\ DOMAIN d.types_by_name = DOMAIN ctx.types_by_name \cup {full}
        /\ d.types_by_name[full] = n
        /\ \A s \in DOMAIN ctx.types_by_name :
              s # full /\ d.types_by_name[s] = ctx.types_by_name[s]
    BY <1>4, <1>6 DEF Bind, full
  <2>3. d.types[n].full_name = full
    BY <1>4, <1>5 DEF full
  <2>4. DOMAIN d.types_by_name = {d.types[i].full_name : i \in DOMAIN d.types}
    <3>1. ASSUME NEW s \in DOMAIN d.types_by_name
          PROVE  \E i \in DOMAIN d.types : s = d.types[i].full_name
      <4>1. CASE s = full
        BY <1>9, <2>3, <4>1
      <4>2. CASE s \in DOMAIN ctx.types_by_name
        <5>1. PICK i \in DOMAIN ctx.types : s = ctx.types[i].full_name
          BY <2>1, <4>2
        <5> QED BY <1>7, <1>9, <5>1
      <4> QED BY <2>2, <4>1, <4>2
    <3>2. ASSUME NEW i \in DOMAIN d.types
          PROVE  d.types[i].full_name \in DOMAIN d.types_by_name
      <4>1. CASE i = n
        BY <2>2, <2>3, <4>1
      <4>2. CASE i \in DOMAIN ctx.types
        BY <1>7, <2>1, <2>2, <4>2
      <4> QED BY <1>8, <4>1, <4>2
    <3> QED BY <3>1, <3>2
  <2>5. ASSUME NEW i \in DOMAIN d.types
        PROVE  d.types_by_name[d.types[i].full_name] = i
    <3>1. CASE i = n
      BY <2>2, <2>3, <3>1
    <3>2. CASE i \in DOMAIN ctx.types
      <4>1. ctx.types[i].full_name \in DOMAIN ctx.types_by_name
        BY <2>1, <3>2
      <4> QED BY <1>7, <2>1, <2>2, <3>2, <4>1
    <3> QED BY <1>8, <3>1, <3>2
  <2> QED BY <1>2, <2>4, <2>5 DEF NamesAreKeys
<1>12. Forest'
  <2>1. ListsTypes(ctx) /\ \A i \in DOMAIN ctx.types : Hangs(ctx, i)
    BY DEF IInv, Forest
  <2>2. ListsTypes(d) /\ Hangs(d, n)
    BY <1>1, <1>2, <1>3, <2>1, InsertedHangs DEF d, n
  <2>3. Grows(ctx, d)
    BY <1>1, <1>2, <1>3, InsertTypeGrows DEF d
  <2>4. \A i \in DOMAIN d.types : Hangs(d, i)
    BY <1>8, <2>1, <2>2, <2>3, StillHangs
  <2> QED BY <1>2, <2>2, <2>4 DEF Forest
<1>13. AllMembers'
  <2>1. Members(d.types[n])
    BY <1>1, <1>4, <1>5 DEF Members
  <2>2. ASSUME NEW i \in DOMAIN ctx.types PROVE Members(d.types[i])
    <3>1. Members(ctx.types[i])
      BY DEF IInv, AllMembers
    <3> QED BY <1>7, <3>1 DEF Members
  <2> QED BY <1>2, <1>8, <2>1, <2>2 DEF AllMembers
<1>14. AllResolve'
  <2>1. \A type : MayHold(type) => MayHold(type)'
    BY <1>2, <1>7, <1>9, StillResolves
  <2>2. \A i \in DOMAIN d.types : FieldsResolve(d.types[i])
    <3>1. FieldsResolve(d.types[n])
      BY <1>1, <1>4, <1>5 DEF FieldsResolve
    <3>2. ASSUME NEW i \in DOMAIN ctx.types PROVE FieldsResolve(d.types[i])
      BY <1>7 DEF FieldsResolve, IInv, AllResolve
    <3> QED BY <1>8, <3>1, <3>2
  <2>3. \A i \in DOMAIN ctx'.types : ctx'.types[i].kind = "Message" =>
            \A k \in DOMAIN ctx'.types[i].fields : MayHold(ctx'.types[i].fields[k].type)
    BY <1>2, <2>2 DEF FieldsResolve
  <2> QED BY <1>2, <2>1, <2>3 DEF AllResolve, FieldsResolve
<1>15. ServicesHang(ctx)'
  <2>1. /\ SameServices(ctx, d) /\ DOMAIN d.packages = DOMAIN ctx.packages
        /\ \A p \in DOMAIN ctx.packages : SamePackage(d.packages[p], ctx.packages[p])
    BY <1>1, <1>2, <1>3, TypeAddedShape DEF d
  <2>2. ServicesHang(ctx)
    BY DEF IInv
  <2>3. \A p \in DOMAIN d.packages : d.packages[p].self_ref = p
    BY <2>1, <2>2 DEF SamePackage, ServicesHang
  <2>4. ServicesHang(d)
    BY <1>7, <1>9, <2>1, <2>2, <2>3, ServicesStay DEF SameServices, SamePackage
  <2> QED BY <1>2, <2>4
<1> QED BY <1>10, <1>11, <1>12, <1>13, <1>14, <1>15 DEF IInv

\* The context after insert_package: one empty package more.
LEMMA PackageAddedShape ==
    ASSUME NEW c \in ContextType, NEW name \in Names
    PROVE  LET d == PackageAdded(c, NewPackage(name))
           IN  /\ d \in ContextType
               /\ d.types = c.types /\ d.types_by_name = c.types_by_name
               /\ Grows(c, d)
               /\ ListsTypes(c) => ListsTypes(d)
               /\ ServicesHang(c) => ServicesHang(d)
<1> DEFINE d == PackageAdded(c, NewPackage(name))
           n == Len(c.packages) + 1
           p == [NewPackage(name) EXCEPT !.self_ref = n]
           ps == Append(c.packages, p)
           r == [of |-> "Package", ref |-> n]
<1>1. c.packages \in Seq(Package) /\ n \in Nat /\ DOMAIN c.packages = 1..(n - 1)
  BY DEF ContextType
<1>2. p \in Package /\ p.types = <<>> /\ p.services = <<>> /\ p.self_ref = n
  <2>1. p = [name |-> name, self_ref |-> n, types |-> <<>>, services |-> <<>>]
    BY DEF NewPackage
  <2>2. <<>> \in Seq(TypeRef) /\ <<>> \in Seq(Nat)
    OBVIOUS
  <2> HIDE DEF p, n
  <2> QED BY <1>1, <2>1, <2>2 DEF Package
<1>3. d = [c EXCEPT !.packages = ps]
  BY DEF PackageAdded
<1> HIDE DEF p
<1>4. /\ ps \in Seq(Package) /\ DOMAIN ps = 1..n /\ ps[n] = p
      /\ \A q \in DOMAIN c.packages : ps[q] = c.packages[q]
  BY <1>1, <1>2
<1> HIDE DEF ps, d
<1>5. /\ d \in ContextType /\ d.types = c.types /\ d.types_by_name = c.types_by_name
      /\ d.packages = ps
      /\ d.services = c.services /\ d.services_by_name = c.services_by_name
  BY <1>3, <1>4 DEF ContextType
<1>6. DOMAIN ps = DOMAIN c.packages \cup {n} /\ n \notin DOMAIN c.packages
  BY <1>1, <1>4
<1> HIDE DEF n
<1>7. Given(d) = Given(c)
  BY <1>5 DEF Given
<1>8. Owners(d) = Owners(c) \cup {r} /\ r \notin Owners(c)
  <2>1. \A x \in Given(c) : x.of \in TypeKinds
    BY DEF Given, ContextType, TypeInfo, MessageInfo, EnumInfo, TypeKinds
  <2>2. {[of |-> "Package", ref |-> q] : q \in DOMAIN ps}
           = {[of |-> "Package", ref |-> q] : q \in DOMAIN c.packages} \cup {r}
    BY <1>6
  <2>3. r \notin {[of |-> "Package", ref |-> q] : q \in DOMAIN c.packages}
    BY <1>6
  <2>4. r \notin {x \in Given(c) : x.of = "Message"}
    OBVIOUS
  <2> QED BY <1>5, <1>7, <2>2, <2>3, <2>4 DEF Owners
<1>9. Children(d, r) = <<>>
  BY <1>2, <1>4, <1>5 DEF Children
<1>10. ASSUME NEW o \in Owners(c)
       PROVE  OwnerName(d, o) = OwnerName(c, o) /\ Children(d, o) = Children(c, o)
  <2>1. o.of = "Package" => o.ref \in DOMAIN c.packages
    BY DEF Owners
  <2> QED BY <1>4, <1>5, <2>1 DEF OwnerName, Children
<1>11. \A o \in Owners(d) : \A k \in DOMAIN Children(d, o) :
          o \in Owners(c) /\ k \in DOMAIN Children(c, o)
  <2>1. DOMAIN Children(d, r) = {}
    BY <1>9
  <2> QED BY <1>8, <1>10, <2>1
<1>12. Grows(c, d)
  BY <1>5, <1>8, <1>10, <1>11 DEF Grows
<1>13. ListsTypes(c) => ListsTypes(d)
  BY <1>7, <1>10, <1>11 DEF ListsTypes
<1>14. ASSUME ServicesHang(c) PROVE ServicesHang(d)
  <2>1. \A q \in DOMAIN d.packages : d.packages[q].self_ref = q
    <3>1. \A q \in DOMAIN c.packages : c.packages[q].self_ref = q
      BY <1>14 DEF ServicesHang
    <3>2. DOMAIN d.packages = DOMAIN c.packages \cup {n} /\ ps[n].self_ref = n
      BY <1>2, <1>4, <1>5, <1>6
    <3> QED BY <1>4, <1>5, <3>1, <3>2
  <2>2. \A q \in DOMAIN d.packages \ DOMAIN c.packages : d.packages[q].services = <<>>
    BY <1>2, <1>4, <1>5, <1>6
  <2>3. /\ DOMAIN c.packages \subseteq DOMAIN d.packages
        /\ \A q \in DOMAIN c.packages : d.packages[q] = c.packages[q]
    BY <1>4, <1>5, <1>6
  <2> QED BY <1>5, <1>14, <2>1, <2>2, <2>3, ServicesStay
<1> QED BY <1>5, <1>12, <1>13, <1>14 DEF d

LEMMA InsertPackageKeeps == IInv /\ InsertPackage => IInv'
<1> SUFFICES ASSUME IInv, InsertPackage PROVE IInv'
  OBVIOUS
<1>1. PICK name \in PackageNames : ctx' = PackageAdded(ctx, NewPackage(name))
  BY CallsReturn DEF InsertPackage
<1>2. ctx \in ContextType /\ name \in Names /\ draft' = draft
  BY RegistryAssumption DEF InsertPackage, IInv, Typed
<1>3. /\ ctx' \in ContextType
      /\ ctx'.types = ctx.types /\ ctx'.types_by_name = ctx.types_by_name
      /\ Grows(ctx, ctx')
      /\ ListsTypes(ctx) => ListsTypes(ctx')
      /\ ServicesHang(ctx) => ServicesHang(ctx')
  BY <1>1, <1>2, PackageAddedShape
<1>4. Typed'
  BY <1>2, <1>3 DEF IInv, Typed
<1>5. NamesAreKeys'
  BY <1>3 DEF IInv, NamesAreKeys
<1>6. Forest'
  <2>1. \A i \in DOMAIN ctx.types : Hangs(ctx', i)
    BY <1>3, StillHangs DEF IInv, Forest
  <2> QED BY <1>3, <2>1 DEF IInv, Forest
<1>7. AllMembers'
  BY <1>2, <1>3 DEF IInv, AllMembers
<1>8. AllResolve'
  <2>1. \A type : MayHold(type) => MayHold(type)'
    BY <1>3, StillResolves
  <2> QED BY <1>2, <1>3, <2>1 DEF IInv, AllResolve, FieldsResolve
<1>9. ServicesHang(ctx)'
  BY <1>3 DEF IInv
<1> QED BY <1>4, <1>5, <1>6, <1>7, <1>8, <1>9 DEF IInv

LEMMA RegistryStepKeeps == IInv /\ [RegistryNext]_<<ctx, draft>> => IInv'
<1> SUFFICES ASSUME IInv, [RegistryNext]_<<ctx, draft>> PROVE IInv'
  OBVIOUS
<1>1. CASE RegistryNext
  BY <1>1, InsertPackageKeeps, StartDraftKeeps, AddFieldKeeps, AddEnumFieldKeeps,
     AddOneofKeeps, InsertTypeKeeps, RefuseTypeKeeps DEF RegistryNext
<1>2. CASE UNCHANGED <<ctx, draft>>
  <2>1. ctx' = ctx /\ draft' = draft
    BY <1>2
  <2>2. Typed' /\ NamesAreKeys' /\ Forest' /\ AllMembers'
    BY <2>1 DEF IInv, Typed, NamesAreKeys, Forest, AllMembers
  <2>3. AllResolve'
    <3>1. \A type : MayHold(type) => MayHold(type)'
      BY <2>1, StillResolves
    <3> QED BY <2>1, <3>1 DEF IInv, AllResolve, FieldsResolve
  <2>4. ServicesHang(ctx)'
    BY <2>1 DEF IInv
  <2> QED BY <2>2, <2>3, <2>4 DEF IInv
<1> QED BY <1>1, <1>2

\* IInv is inductive: no call takes a context out of it.
THEOREM IInvAlways == RegistrySpec => []IInv
BY IInvInit, RegistryStepKeeps, PTL DEF RegistrySpec

-----------------------------------------------------------------------------
(* What holds of every context made by hand *)

\* A full name is found and found for one type only, after any sequence of calls
\* to insert_message, insert_enum and insert_package.
THEOREM NamesCorrect == RegistrySpec => []NamesAreKeys
<1>1. IInv => NamesAreKeys
  BY DEF IInv
<1> QED BY <1>1, IInvAlways, PTL

\* The types form a forest below the packages, with each handle listed once.
THEOREM ForestCorrect == RegistrySpec => []Forest
<1>1. IInv => Forest
  BY DEF IInv
<1> QED BY <1>1, IInvAlways, PTL

LEMMA IInvMembers == IInv => MembersConsistent
<1> SUFFICES ASSUME IInv PROVE MembersConsistent
  OBVIOUS
<1>1. \A i \in DOMAIN ctx.types : MembersAgree(ctx.types[i])
  <2>1. \A i \in DOMAIN ctx.types : ctx.types[i] \in TypeInfo
    BY DEF IInv, Typed, ContextType
  <2> QED BY <2>1, MembersFound DEF IInv, AllMembers
<1>2. \A i \in DOMAIN draft : MembersAgree(draft[i])
  <2>1. \A i \in DOMAIN draft : draft[i] \in TypeInfo
    BY DEF IInv, Typed
  <2> QED BY <2>1, MembersFound DEF IInv, AllMembers
<1>3. \A i \in DOMAIN ctx.services : RpcsAgree(ctx.services[i])
  BY ServicesFound DEF IInv, Typed
<1> QED BY <1>1, <1>2, <1>3 DEF MembersConsistent

\* The look-ups of every type agree with its fields and oneofs, in whatever
\* order add_field and add_oneof were called.
THEOREM MembersCorrect == RegistrySpec => []MembersConsistent
BY IInvMembers, IInvAlways, PTL

LEMMA IInvHandles == IInv => HandlesResolve
BY ServicesFound DEF IInv, Typed, AllResolve, FieldsResolve, MayHold, HandlesResolve

\* After any sequence of calls, with any handles, the type of a field denotes a type
\* of its kind unless it is a stray handle: a handle the context has given out never
\* stops denoting its type, and no call makes a stray one out of it.
THEOREM HandlesCorrect == RegistrySpec => []HandlesResolve
BY IInvHandles, IInvAlways, PTL

-----------------------------------------------------------------------------
(* Refinement *)

\* What the maps of the context say of a name that is there.
LEMMA EntryFound ==
    ASSUME IInv, NEW s \in DOMAIN ctx.types_by_name
    PROVE  /\ ctx.types_by_name[s] \in DOMAIN ctx.types
           /\ ctx.types[ctx.types_by_name[s]].full_name = s
<1>1. PICK i \in DOMAIN ctx.types : s = ctx.types[i].full_name
  BY DEF IInv, NamesAreKeys
<1> QED BY <1>1 DEF IInv, NamesAreKeys

\* insert_type is a step of the abstract name space.
LEMMA InsertTypeInserts == IInv /\ InsertType => NS!Insert
<1> SUFFICES ASSUME IInv, InsertType PROVE NS!Insert
  OBVIOUS
<1> DEFINE t == draft[1]
           n == Len(ctx.types) + 1
           full == FullName(ctx, t)
<1>1. /\ t \in TypeInfo /\ t.inner_types = <<>> /\ ctx \in ContextType
      /\ InsertVerdict(ctx, t) = "Ok" /\ ctx' = TypeAdded(ctx, t)
  BY DraftKnown, CallsReturn DEF InsertType, IInv, Typed
<1> HIDE DEF t
<1>2. /\ full \notin DOMAIN ctx.types_by_name
      /\ t.parent.of \in {"Package", "Message"}
      /\ t.parent.of = "Message" => /\ t.parent.ref \in DOMAIN ctx.types
                                    /\ ctx.types[t.parent.ref].kind = "Message"
  BY <1>1, ParentOwns DEF TypeParent
<1>3. /\ ctx'.types[n] = Inserted(ctx, t)
      /\ ctx'.types_by_name = Bind(ctx.types_by_name, full, n)
  BY <1>1, TypeAddedShape
<1>4. Inserted(ctx, t).kind = t.kind /\ Inserted(ctx, t).parent = t.parent
  BY <1>1, InsertedTyped
<1>5. \A i \in DOMAIN ctx.types :
        /\ ctx'.types[i].kind = ctx.types[i].kind
        /\ ctx'.types[i].full_name = ctx.types[i].full_name
        /\ ctx'.types[i].parent = ctx.types[i].parent
  BY <1>1, OwnersAfter
<1> HIDE DEF n, full
<1>6. /\ DOMAIN ctx'.types_by_name = DOMAIN ctx.types_by_name \cup {full}
      /\ ctx'.types_by_name[full] = n
      /\ \A s \in DOMAIN ctx.types_by_name : ctx'.types_by_name[s] = ctx.types_by_name[s]
  BY <1>2, <1>3 DEF Bind
<1>7. DOMAIN Entries' = DOMAIN Entries \cup {full} /\ full \notin DOMAIN Entries
  BY <1>2, <1>6 DEF Entries
<1>8. ASSUME NEW s \in DOMAIN Entries PROVE Entries'[s] = Entries[s]
  <2> DEFINE i == ctx.types_by_name[s]
  <2>1. s \in DOMAIN ctx.types_by_name /\ i \in DOMAIN ctx.types
    BY EntryFound DEF Entries
  <2>2. ctx.types[i].parent.of # "Package" => ctx.types[i].parent.ref \in DOMAIN ctx.types
    <3>1. ctx.types[i].parent \in Owners(ctx)
      BY <2>1 DEF IInv, Forest, Hangs
    <3>2. \A o \in Owners(ctx) : o.of # "Package" => o.ref \in DOMAIN ctx.types
      BY DEF Owners, Given
    <3> HIDE DEF i
    <3> QED BY <3>1, <3>2
  <2>3. s \in DOMAIN ctx'.types_by_name /\ ctx'.types_by_name[s] = i
    BY <1>6, <2>1
  <2>4. Entries[s] = [kind |-> ctx.types[i].kind,
                      owner |-> IF ctx.types[i].parent.of = "Package" THEN NoName
                                ELSE ctx.types[ctx.types[i].parent.ref].full_name]
    BY <2>1 DEF Entries
  <2>5. Entries'[s] = [kind |-> ctx'.types[i].kind,
                       owner |-> IF ctx'.types[i].parent.of = "Package" THEN NoName
                                 ELSE ctx'.types[ctx'.types[i].parent.ref].full_name]
    BY <2>3 DEF Entries
  <2> QED BY <1>5, <2>1, <2>2, <2>4, <2>5
<1>9. Entries'[full] = [kind |-> t.kind,
                        owner |-> IF t.parent.of = "Package" THEN NoName
                                  ELSE ctx.types[t.parent.ref].full_name]
  <2>1. Entries'[full] = [kind |-> ctx'.types[n].kind,
                          owner |-> IF ctx'.types[n].parent.of = "Package" THEN NoName
                                    ELSE ctx'.types[ctx'.types[n].parent.ref].full_name]
    BY <1>6 DEF Entries
  <2> QED BY <1>2, <1>3, <1>4, <1>5, <2>1
<1>10. Entries'[full].owner # NS!NoOwner =>
          /\ Entries'[full].owner \in DOMAIN Entries
          /\ Entries[Entries'[full].owner].kind = "Message"
  <2> SUFFICES ASSUME t.parent.of = "Message"
               PROVE  /\ Entries'[full].owner \in DOMAIN Entries
                      /\ Entries[Entries'[full].owner].kind = "Message"
    BY <1>2, <1>9 DEF NS!NoOwner, NoName
  <2> DEFINE o == ctx.types[t.parent.ref].full_name
  <2>1. Entries'[full].owner = o
    BY <1>9
  <2>2. o \in DOMAIN ctx.types_by_name /\ ctx.types_by_name[o] = t.parent.ref
    BY <1>2 DEF IInv, NamesAreKeys
  <2> QED BY <1>2, <2>1, <2>2 DEF Entries
<1>11. full \in DOMAIN Entries' \ DOMAIN Entries
  BY <1>7
<1> QED BY <1>7, <1>8, <1>10, <1>11 DEF NS!Insert

LEMMA RegistryStepKeepsNames == IInv /\ [RegistryNext]_<<ctx, draft>> => [NS!NSNext]_Entries
<1> SUFFICES ASSUME IInv, [RegistryNext]_<<ctx, draft>>
             PROVE  NS!NSNext \/ Entries' = Entries
  OBVIOUS
<1>1. CASE InsertType
  BY <1>1, InsertTypeInserts DEF NS!NSNext
<1>2. CASE InsertPackage
  <2>1. PICK name : ctx' = PackageAdded(ctx, NewPackage(name))
    BY <1>2, CallsReturn DEF InsertPackage
  <2>2. ctx'.types = ctx.types /\ ctx'.types_by_name = ctx.types_by_name
    BY <2>1 DEF PackageAdded, IInv, Typed, ContextType
  <2> QED BY <2>2 DEF Entries
<1>3. CASE ctx' = ctx
  BY <1>3 DEF Entries
<1> QED BY <1>1, <1>2, <1>3
        DEF RegistryNext, StartDraft, AddField, AddEnumField, AddOneof, RefuseType

\* A name that has been given to a type goes on denoting it, whatever calls
\* follow: the registry implements the abstract name space.
THEOREM NamesKept == RegistrySpec => KeepsNames
<1>1. RegistryInit => NS!NSInit
  BY DEF RegistryInit, EmptyContext, NS!NSInit, Entries
<1> QED BY <1>1, RegistryStepKeepsNames, IInvAlways, PTL DEF RegistrySpec, KeepsNames, NS!NSSpec
=============================================================================
