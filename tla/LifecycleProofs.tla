--------------------------- MODULE LifecycleProofs ---------------------------
(***************************************************************************)
(* What holds of a context from the files it is built from to the last     *)
(* call that changes it, for all files, names, numbers and bounds.         *)
(***************************************************************************)
EXTENDS Lifecycle, RegistryProofs, BuildProofs

\* BuildInv is kept by build, whatever the files, and by the calls that follow.
THEOREM BuildInvAlways == Spec => []BuildInv
<1>1. Init => BuildInv
  BY BuildInvInit DEF Init
<1>2. BuildInv /\ [Next]_vars => BuildInv'
  <2> SUFFICES ASSUME BuildInv, [Next]_vars PROVE BuildInv'
    OBVIOUS
  <2>1. CASE Parse
    BY <2>1, BuildStepKeeps DEF Parse
  <2>2. CASE Change
    BY <2>2, SameBuild DEF Change
  <2>3. CASE UNCHANGED vars
    BY <2>3, SameBuild DEF vars, buildVars
  <2> QED BY <2>1, <2>2, <2>3 DEF Next
<1> QED BY <1>1, <1>2, PTL DEF Spec

\* No assertion of the builder ever fails: no index is off, every inner type
\* is found in the cache under its name, every type and service has a parent,
\* and no item is taken as what it is not (builder.rs).
THEOREM AssertionsCorrect == Spec => []AssertionsHold
<1>1. BuildInv => AssertionsHold
  BY DEF BuildInv, BuildTyped, AssertionsHold
<1> QED BY <1>1, BuildInvAlways, PTL

-----------------------------------------------------------------------------
(* What has been built when the last service is *)

Complete ==
    /\ BuildInv /\ agenda = <<>>
    /\ Len(built.types) = Len(cache.types) /\ Len(built.services) = Len(cache.services)

\* The handle of a type, and what lists it.
Handle(i) == [of |-> built.types[i].kind, ref |-> i]
Lists(list, owner) ==
    /\ \A k \in DOMAIN list : \E i \in DOMAIN built.types :
          built.types[i].parent = owner /\ list[k] = Handle(i)
    /\ \A i \in DOMAIN built.types : built.types[i].parent = owner =>
          \E k \in DOMAIN list : \A j \in DOMAIN list : list[j] = Handle(i) <=> j = k

LEMMA TypeComplete ==
    ASSUME Complete, NEW i
    PROVE  /\ i \in DOMAIN built.types <=> i \in DOMAIN cache.types
           /\ i \in DOMAIN built.types =>
                /\ i \in Nat /\ TypeCached(i) /\ TypeBuilt(built.types[i], i)
                /\ built.types[i] \in TypeInfo
                /\ built.types[i].kind = cache.types[i].item_type
                /\ built.types[i].kind \in TypeKinds
                /\ RefTo(built.types[i]) = Handle(i)
<1>1. /\ built.types \in Seq(TypeInfo) /\ cache.types \in Seq(CacheDatum)
      /\ Len(built.types) = Len(cache.types)
  BY DEF Complete, BuildInv, BuildTyped, CacheType
<1>2. DOMAIN built.types = DOMAIN cache.types /\ DOMAIN built.types \subseteq Nat
  BY <1>1
<1>3. ASSUME i \in DOMAIN built.types
      PROVE  TypeCached(i) /\ TypeBuilt(built.types[i], i)
  BY <1>2, <1>3 DEF Complete, BuildInv, CacheOK, BuiltOK
<1>4. ASSUME i \in DOMAIN built.types
      PROVE  /\ built.types[i] \in TypeInfo /\ built.types[i].kind = cache.types[i].item_type
             /\ built.types[i].kind \in TypeKinds /\ built.types[i].self_ref = i
  BY <1>3, <1>4 DEF TypeCached, TypeBuilt
<1> QED BY <1>2, <1>3, <1>4 DEF RefTo, Handle

LEMMA ServiceComplete ==
    ASSUME Complete, NEW i
    PROVE  /\ i \in DOMAIN built.services <=> i \in DOMAIN cache.services
           /\ i \in DOMAIN built.services =>
                /\ i \in Nat /\ ServiceCached(i) /\ ServiceBuilt(built.services[i], i)
                /\ built.services[i] \in ServiceInfo
<1>1. /\ built.services \in Seq(ServiceInfo) /\ cache.services \in Seq(CacheDatum)
      /\ Len(built.services) = Len(cache.services)
  BY DEF Complete, BuildInv, BuildTyped, CacheType
<1>2. DOMAIN built.services = DOMAIN cache.services /\ DOMAIN built.services \subseteq Nat
  BY <1>1
<1>3. ASSUME i \in DOMAIN built.services
      PROVE  ServiceCached(i) /\ ServiceBuilt(built.services[i], i)
  BY <1>2, <1>3 DEF Complete, BuildInv, CacheOK, BuiltOK
<1> QED BY <1>1, <1>2, <1>3

\* No two types have one name, and no two services.
LEMMA NamesDiffer ==
    ASSUME Complete
    PROVE  /\ \A i, j \in DOMAIN built.types :
                 built.types[i].full_name = built.types[j].full_name => i = j
           /\ \A i, j \in DOMAIN built.services :
                 built.services[i].full_name = built.services[j].full_name => i = j
<1>1. ASSUME NEW i \in DOMAIN built.types
      PROVE  cache.items[built.types[i].full_name].final_idx = i
  <2>1. TypeCached(i) /\ TypeBuilt(built.types[i], i)
    BY TypeComplete
  <2>2. /\ cache.items[cache.types[i].full_name] = Entry(cache.types[i].item_type, i)
        /\ built.types[i].full_name = cache.types[i].full_name
    BY <2>1 DEF TypeCached, TypeBuilt
  <2> QED BY <2>2 DEF Entry
<1>2. ASSUME NEW i \in DOMAIN built.services
      PROVE  cache.items[built.services[i].full_name].final_idx = i
  <2>1. ServiceCached(i) /\ ServiceBuilt(built.services[i], i)
    BY ServiceComplete
  <2>2. /\ cache.items[cache.services[i].full_name] = Entry("Service", i)
        /\ built.services[i].full_name = cache.services[i].full_name
    BY <2>1 DEF ServiceCached, ServiceBuilt
  <2> QED BY <2>2 DEF Entry
<1> QED BY <1>1, <1>2

LEMMA ByNameIs ==
    ASSUME NEW S, NEW seq \in Seq(S), \A i \in DOMAIN seq : seq[i].full_name \in Names,
           \A i, j \in DOMAIN seq : seq[i].full_name = seq[j].full_name => i = j
    PROVE  /\ ByName(seq) \in Maps(Names, Nat)
           /\ DOMAIN ByName(seq) = {seq[i].full_name : i \in DOMAIN seq}
           /\ \A i \in DOMAIN seq : ByName(seq)[seq[i].full_name] = i
           /\ \A n \in DOMAIN ByName(seq) : ByName(seq)[n] \in DOMAIN seq
<1> DEFINE same(n) == {i \in DOMAIN seq : seq[i].full_name = n}
           names == {seq[i].full_name : i \in DOMAIN seq}
           map == [n \in names |-> Max(same(n))]
<1>1. DOMAIN seq \subseteq Nat
  OBVIOUS
<1>2. ASSUME NEW i \in DOMAIN seq PROVE Max(same(seq[i].full_name)) = i
  <2>1. same(seq[i].full_name) = {i}
    OBVIOUS
  <2>2. Max({i}) \in {i}
    <3>1. {i} \in SUBSET Nat /\ {i} # {} /\ i \in Nat /\ \A x \in {i} : x <= i
      BY <1>1
    <3> QED BY <3>1, MaxIs
  <2> QED BY <2>1, <2>2
<1>3. \A n \in names : Max(same(n)) \in DOMAIN seq
  BY <1>2
<1> HIDE DEF same
<1>4. \A n \in names : map[n] = Max(same(n))
  OBVIOUS
<1>5. map \in [names -> Nat] /\ names \subseteq Names /\ DOMAIN map = names
  BY <1>1, <1>3
<1>6. ByName(seq) = map
  BY DEF ByName, same
<1>7. map \in Maps(Names, Nat)
  BY <1>5 DEF Maps
<1>8. \A i \in DOMAIN seq : seq[i].full_name \in names
  OBVIOUS
<1> HIDE DEF map
<1> QED BY <1>2, <1>3, <1>4, <1>5, <1>6, <1>7, <1>8

\* A full name is the scope's and the item's own.
LEMMA NameParts ==
    ASSUME files \in Files, NEW idx, Known(idx)
    PROVE  NameOf(idx) = Scope(idx) \o <<Item(idx).name>>
<1>1. Scope(idx) \in Seq(STRING) /\ Item(idx).name \in STRING
  BY KnownNames DEF Names
<1>2. ASSUME NEW S, NEW s \in Seq(S), NEW x \in S PROVE Append(s, x) = s \o <<x>>
  <2> DEFINE a == Append(s, x)
             b == s \o <<x>>
  <2>1. /\ a \in Seq(S) /\ Len(a) = Len(s) + 1 /\ a[Len(s) + 1] = x /\ Len(s) \in Nat
        /\ \A k \in 1..Len(s) : a[k] = s[k]
    OBVIOUS
  <2>2. <<x>> \in Seq(S) /\ Len(<<x>>) = 1 /\ <<x>>[1] = x
    OBVIOUS
  <2>3. /\ b \in Seq(S) /\ Len(b) = Len(s) + 1 /\ b[Len(s) + 1] = x
        /\ \A k \in 1..Len(s) : b[k] = s[k]
    BY <2>1, <2>2
  <2> HIDE DEF a, b
  <2>4. \A k \in 1..(Len(s) + 1) : a[k] = b[k]
    <3>1. \A k \in 1..(Len(s) + 1) : k \in 1..Len(s) \/ k = Len(s) + 1
      BY <2>1
    <3> QED BY <2>1, <2>3, <3>1
  <2>5. a = b
    BY <2>1, <2>3, <2>4
  <2> QED BY <2>5 DEF a, b
<1> QED BY <1>1, <1>2 DEF NameOf

LEMMA TopName ==
    ASSUME files \in Files, NEW idx, Known(idx), Len(idx) = 2
    PROVE  NameOf(idx) = files[idx[1]].name \o <<Item(idx).name>>
<1>1. idx \in Seq(Nat) /\ idx[1] \in DOMAIN files
  BY DEF Known
<1>2. files[idx[1]].name \in Seq(STRING)
  BY <1>1, FilesAre DEF Names
<1>3. Scope(idx) = files[idx[1]].name
  <2>1. [k \in 1..(Len(idx) - 2) |-> Item(SubSeq(idx, 1, k + 1)).name] = <<>>
    OBVIOUS
  <2> QED BY <1>2, <2>1 DEF Scope
<1> QED BY <1>3, NameParts

\* Where a type hangs, by its path.
LEMMA TopParent ==
    ASSUME Complete, NEW i \in DOMAIN built.types, Len(cache.types[i].idx_path) = 2
    PROVE  LET t == built.types[i]
               f == cache.types[i].idx_path[1]
           IN  /\ t.parent = [of |-> "Package", ref |-> f] /\ f \in DOMAIN files
               /\ t.full_name = files[f].name \o t.name
<1> DEFINE p == cache.types[i].idx_path
<1>1. TypeCached(i) /\ TypeBuilt(built.types[i], i) /\ files \in Files
  BY TypeComplete DEF Complete, BuildInv, BuildTyped
<1>2. /\ Known(p) /\ built.types[i].parent = ParentOf(p)
      /\ built.types[i].full_name = NameOf(p) /\ built.types[i].name = <<Item(p).name>>
  BY <1>1 DEF TypeCached, TypeBuilt
<1>3. p \in Seq(Nat) /\ Len(p) = 2 /\ p[1] \in DOMAIN files
  BY <1>2 DEF Known
<1> HIDE DEF p
<1>4. NameOf(p) = files[p[1]].name \o <<Item(p).name>>
  BY <1>1, <1>2, <1>3, TopName
<1> QED BY <1>2, <1>3, <1>4 DEF ParentOf, p

LEMMA InnerParent ==
    ASSUME Complete, NEW i \in DOMAIN built.types, Len(cache.types[i].idx_path) # 2
    PROVE  LET t == built.types[i]
               p == cache.types[i].idx_path
               m == cache.items_by_idx[Front(p)].final_idx
           IN  /\ t.parent = [of |-> "Message", ref |-> m]
               /\ m \in DOMAIN built.types /\ m < i /\ built.types[m].kind = "Message"
               /\ cache.types[m].idx_path = Front(p)
               /\ p[Len(p)] \in DOMAIN Item(Front(p)).inner /\ p = Append(Front(p), p[Len(p)])
               /\ t.full_name = built.types[m].full_name \o t.name
<1> DEFINE p == cache.types[i].idx_path
           m == cache.items_by_idx[Front(p)].final_idx
<1>1. TypeCached(i) /\ TypeBuilt(built.types[i], i) /\ files \in Files
  BY TypeComplete DEF Complete, BuildInv, BuildTyped
<1>2. /\ Known(p) /\ built.types[i].parent = ParentOf(p)
      /\ built.types[i].full_name = NameOf(p) /\ built.types[i].name = <<Item(p).name>>
      /\ Len(p) > 2 => Front(p) \in DOMAIN cache.items_by_idx /\ m < i
  BY <1>1 DEF TypeCached, TypeBuilt
<1>3. Len(p) > 2 /\ Len(p) # 2
  <2>1. p \in Seq(Nat) /\ Len(p) >= 2 /\ Len(p) # 2
    BY <1>2 DEF Known
  <2>2. \A n \in Nat : n >= 2 /\ n # 2 => n > 2
    OBVIOUS
  <2>3. Len(p) \in Nat
    BY <2>1
  <2> HIDE DEF p
  <2> QED BY <2>1, <2>2, <2>3
<1>4. /\ m \in DOMAIN cache.types /\ cache.types[m].idx_path = Front(p)
      /\ cache.types[m].item_type = "Message"
  <2>1. PathCached(Front(p))
    BY <1>2, <1>3 DEF Complete, BuildInv, CacheOK
  <2> QED BY <2>1 DEF PathCached
<1> HIDE DEF p, m
<1>5. m \in DOMAIN built.types /\ built.types[m].kind = "Message"
  BY <1>4, TypeComplete
<1>6. built.types[m].full_name = NameOf(Front(p))
  <2>1. TypeCached(m) /\ TypeBuilt(built.types[m], m)
    BY <1>5, TypeComplete
  <2> QED BY <1>4, <2>1 DEF TypeCached, TypeBuilt
<1>7. /\ p[Len(p)] \in DOMAIN Item(Front(p)).inner /\ p = Append(Front(p), p[Len(p)])
      /\ Scope(p) = NameOf(Front(p))
  BY <1>1, <1>2, <1>3, KnownOuter
<1>8. NameOf(p) = Scope(p) \o <<Item(p).name>>
  BY <1>1, <1>2, NameParts
<1> QED BY <1>2, <1>3, <1>4, <1>5, <1>6, <1>7, <1>8 DEF ParentOf, p, m

LEMMA SameLast ==
    ASSUME NEW S, NEW s \in Seq(S), NEW x \in S, NEW y \in S, Append(s, x) = Append(s, y)
    PROVE  x = y
<1>1. Append(s, x)[Len(s) + 1] = x /\ Append(s, y)[Len(s) + 1] = y
  OBVIOUS
<1> QED BY <1>1

\* The types at the top of a package, and those inside a message, are listed by
\* it once each.
LEMMA TopTypesAre ==
    ASSUME Complete, NEW f
    PROVE  /\ TopTypes(f) \in Seq(TypeRef)
           /\ Lists(TopTypes(f), [of |-> "Package", ref |-> f])
<1> DEFINE owner == [of |-> "Package", ref |-> f]
           S == {i \in DOMAIN built.types : built.types[i].parent = owner}
           top == InOrder(S)
<1>1. S \in SUBSET Nat /\ IsFiniteSet(S)
  <2>1. built.types \in Seq(TypeInfo)
    BY DEF Complete, BuildInv, BuildTyped
  <2>2. DOMAIN built.types = 1..Len(built.types) /\ Len(built.types) \in Nat
    BY <2>1
  <2>3. IsFiniteSet(1..Len(built.types))
    BY <2>2, FS_Interval
  <2> QED BY <2>2, <2>3, FS_Subset
<1>2. /\ top \in Seq(Nat) /\ \A x : Has(top, x) <=> x \in S
      /\ \A j, k \in DOMAIN top : top[j] = top[k] => j = k
  <2> HIDE DEF S
  <2> QED BY <1>1, OrderedIs
<1>3. TopTypes(f) = [k \in DOMAIN top |-> RefTo(built.types[top[k]])]
  BY DEF TopTypes
<1>4. \A i : i \in S <=> i \in DOMAIN built.types /\ built.types[i].parent = owner
  OBVIOUS
<1> HIDE DEF top, S, owner
<1>5. \A k \in DOMAIN top : top[k] \in S
  BY <1>2 DEF Has
<1>6. \A i \in S : RefTo(built.types[i]) = Handle(i) /\ Handle(i) \in TypeRef
  BY <1>1, <1>4, TypeComplete DEF Handle, TypeRef
<1>7. /\ DOMAIN TopTypes(f) = DOMAIN top
      /\ \A k \in DOMAIN top : TopTypes(f)[k] = Handle(top[k]) /\ TopTypes(f)[k] \in TypeRef
  BY <1>3, <1>5, <1>6
<1>8. TopTypes(f) \in Seq(TypeRef)
  <2>1. DOMAIN top = 1..Len(top) /\ Len(top) \in Nat
    BY <1>2
  <2>2. TopTypes(f) \in [1..Len(top) -> TypeRef]
    BY <1>3, <1>7, <2>1
  <2> QED BY <2>1, <2>2
<1>9. \A k \in DOMAIN TopTypes(f) : \E i \in DOMAIN built.types :
         built.types[i].parent = owner /\ TopTypes(f)[k] = Handle(i)
  BY <1>4, <1>5, <1>7
<1>10. ASSUME NEW i \in DOMAIN built.types, built.types[i].parent = owner
       PROVE  \E k \in DOMAIN TopTypes(f) : \A j \in DOMAIN TopTypes(f) :
                  TopTypes(f)[j] = Handle(i) <=> j = k
  <2>1. PICK k \in DOMAIN top : top[k] = i
    BY <1>2, <1>4, <1>10 DEF Has
  <2>2. \A j \in DOMAIN top : Handle(top[j]) = Handle(i) <=> top[j] = i
    BY DEF Handle
  <2> QED BY <1>2, <1>7, <2>1, <2>2
<1>11. Lists(TopTypes(f), owner)
  BY <1>9, <1>10 DEF Lists
<1> QED BY <1>8, <1>11 DEF owner

\* The inner types of a message in the order of their declarations.
LEMMA InnerTypeIs ==
    ASSUME Complete, NEW m \in DOMAIN built.types, built.types[m].kind = "Message"
    PROVE  LET p == cache.types[m].idx_path
               inner == built.types[m].inner_types
           IN  /\ Known(p) /\ DOMAIN inner = DOMAIN Item(p).inner
               /\ \A k \in DOMAIN inner : \E i \in DOMAIN built.types :
                     /\ cache.types[i].idx_path = Append(p, k)
                     /\ built.types[i].parent = [of |-> "Message", ref |-> m]
                     /\ inner[k] = Handle(i)
               /\ \A k \in DOMAIN inner : \A i \in DOMAIN built.types :
                     cache.types[i].idx_path = Append(p, k) => inner[k] = Handle(i)
<1> DEFINE p == cache.types[m].idx_path
           inner == built.types[m].inner_types
           owner == [of |-> "Message", ref |-> m]
<1>1. /\ TypeCached(m) /\ TypeBuilt(built.types[m], m) /\ files \in Files
      /\ m \in DOMAIN cache.types
  BY TypeComplete DEF Complete, BuildInv, BuildTyped
<1>2. /\ Known(p) /\ p \in DOMAIN cache.items_by_idx
      /\ cache.items_by_idx[p] = Entry("Message", m)
      /\ inner = [k \in DOMAIN Item(p).inner |-> RefOf(NameOf(Append(p, k)))]
  BY <1>1 DEF TypeCached, TypeBuilt
<1> HIDE DEF inner
<1>3. ASSUME NEW i \in DOMAIN built.types, NEW k \in DOMAIN Item(p).inner,
             cache.types[i].idx_path = Append(p, k)
      PROVE  inner[k] = Handle(i)
  <2>1. TypeCached(i) /\ built.types[i].kind = cache.types[i].item_type
    BY TypeComplete
  <2>2. cache.items[NameOf(Append(p, k))] = Entry(cache.types[i].item_type, i)
    BY <1>3, <2>1 DEF TypeCached
  <2> HIDE DEF p
  <2> QED BY <1>2, <2>1, <2>2 DEF RefOf, Entry, Handle
<1>4. ASSUME NEW k \in DOMAIN Item(p).inner
      PROVE  \E i \in DOMAIN built.types : /\ cache.types[i].idx_path = Append(p, k)
                                          /\ built.types[i].parent = owner
                                          /\ inner[k] = Handle(i)
  <2>1. /\ Known(Append(p, k)) /\ Len(Append(p, k)) = Len(p) + 1
        /\ Front(Append(p, k)) = p /\ IsType(Item(Append(p, k)))
    BY <1>1, <1>2, KnownInner
  <2>2. Met(Append(p, k))
    BY <1>1 DEF Complete, BuildInv, AllMet
  <2>3. ~ \E j \in DOMAIN agenda : agenda[j].idx = Append(p, k)
    <3>1. DOMAIN agenda = {}
      BY DEF Complete
    <3> QED BY <3>1
  <2>4. ASSUME NEW j \in DOMAIN cache.services, cache.services[j].idx_path = Append(p, k)
        PROVE  FALSE
    <3>1. ServiceCached(j)
      BY DEF Complete, BuildInv, CacheOK
    <3>2. Item(Append(p, k)).kind = "Service"
      BY <2>4, <3>1 DEF ServiceCached
    <3> QED BY <2>1, <3>2 DEF IsType, TypeKinds
  <2>5. PICK i \in DOMAIN cache.types : cache.types[i].idx_path = Append(p, k)
    BY <2>2, <2>3, <2>4 DEF Met
  <2>6. i \in DOMAIN built.types
    BY TypeComplete
  <2>7. built.types[i].parent = ParentOf(Append(p, k))
    <3>1. TypeBuilt(built.types[i], i)
      BY <2>6, TypeComplete
    <3> QED BY <2>5, <3>1 DEF TypeBuilt
  <2>8. Len(Append(p, k)) # 2
    <3>1. p \in Seq(Nat) /\ Len(p) >= 2
      BY <1>2 DEF Known
    <3>2. Len(p) \in Nat
      BY <3>1
    <3>3. \A n \in Nat : n >= 2 => n + 1 # 2
      OBVIOUS
    <3> HIDE DEF p
    <3> QED BY <2>1, <3>1, <3>2, <3>3
  <2>9. ParentOf(Append(p, k)) = owner
    <3> HIDE DEF p
    <3> QED BY <1>2, <2>1, <2>8 DEF ParentOf, Entry
  <2> QED BY <1>3, <2>5, <2>6, <2>7, <2>9
<1>5. DOMAIN inner = DOMAIN Item(p).inner
  BY <1>2
<1> HIDE DEF p, owner
<1> QED BY <1>2, <1>3, <1>4, <1>5 DEF p, owner, inner

LEMMA InnerTypesAre ==
    ASSUME Complete, NEW m \in DOMAIN built.types, built.types[m].kind = "Message"
    PROVE  Lists(built.types[m].inner_types, [of |-> "Message", ref |-> m])
<1> DEFINE p == cache.types[m].idx_path
           inner == built.types[m].inner_types
           owner == [of |-> "Message", ref |-> m]
<1>1. files \in Files
  BY DEF Complete, BuildInv, BuildTyped
<1>2. Known(p) /\ DOMAIN inner = DOMAIN Item(p).inner
  BY InnerTypeIs
<1>3. \A k \in DOMAIN inner : \A i \in DOMAIN built.types :
         cache.types[i].idx_path = Append(p, k) => inner[k] = Handle(i)
  BY InnerTypeIs
<1>4. \A k \in DOMAIN inner : \E i \in DOMAIN built.types :
         /\ cache.types[i].idx_path = Append(p, k) /\ built.types[i].parent = owner
         /\ inner[k] = Handle(i)
  BY InnerTypeIs
<1> HIDE DEF inner
<1>5. DOMAIN inner = DOMAIN Item(p).inner
  BY <1>2
<1>6. \A k \in DOMAIN inner : \E i \in DOMAIN built.types :
         built.types[i].parent = owner /\ inner[k] = Handle(i)
  BY <1>4, <1>5
<1>7. ASSUME NEW i \in DOMAIN built.types, built.types[i].parent = owner
      PROVE  \E k \in DOMAIN inner : \A j \in DOMAIN inner : inner[j] = Handle(i) <=> j = k
  <2> DEFINE q == cache.types[i].idx_path
             k == q[Len(q)]
  <2>1. Len(q) # 2
    <3>1. ASSUME Len(q) = 2 PROVE FALSE
      <4>1. built.types[i].parent = [of |-> "Package", ref |-> cache.types[i].idx_path[1]]
        BY <3>1, TopParent
      <4> HIDE DEF q
      <4> QED BY <1>7, <4>1
    <3> QED BY <3>1
  <2>2. /\ k \in DOMAIN Item(Front(q)).inner /\ q = Append(Front(q), k)
        /\ built.types[i].parent =
              [of |-> "Message", ref |-> cache.items_by_idx[Front(q)].final_idx]
        /\ cache.types[cache.items_by_idx[Front(q)].final_idx].idx_path = Front(q)
    BY <2>1, InnerParent
  <2>3. Front(q) = p
    <3>1. cache.items_by_idx[Front(q)].final_idx = m
      BY <1>7, <2>2
    <3> QED BY <2>2, <3>1
  <2>4. k \in DOMAIN Item(p).inner /\ q = Append(p, k)
    BY <2>2, <2>3
  <2>5. inner[k] = Handle(i)
    <3>1. k \in DOMAIN inner /\ cache.types[i].idx_path = Append(p, k)
      BY <1>5, <2>4
    <3> HIDE DEF p, k
    <3> QED BY <1>3, <3>1
  <2>6. ASSUME NEW j \in DOMAIN inner, inner[j] = Handle(i) PROVE j = k
    <3>1. PICK h \in DOMAIN built.types :
              cache.types[h].idx_path = Append(p, j) /\ inner[j] = Handle(h)
      BY <1>4, <1>5
    <3>2. h = i
      BY <2>6, <3>1 DEF Handle
    <3>3. Append(p, j) = Append(p, k)
      BY <2>4, <3>1, <3>2
    <3>4. p \in Seq(Nat) /\ j \in Nat /\ k \in Nat
      <4>1. IsType(Item(p))
        BY <1>1, <1>2, <2>4, KnownInner
      <4>2. DOMAIN Item(p).inner \subseteq Nat
        BY <4>1 DEF IsType
      <4> HIDE DEF k
      <4> QED BY <1>2, <1>5, <2>4, <4>2 DEF Known
    <3> HIDE DEF p, k
    <3> QED BY <3>3, <3>4, SameLast
  <2> HIDE DEF k
  <2> QED BY <1>5, <2>4, <2>5, <2>6
<1> HIDE DEF p
<1>8. Lists(inner, owner)
  BY <1>6, <1>7 DEF Lists
<1> QED BY <1>8 DEF inner

\* The services of a package.
LEMMA ServicesOfAre ==
    ASSUME Complete, NEW f
    PROVE  /\ ServicesOf(f) \in Seq(Nat)
           /\ \A i \in DOMAIN built.services :
                 (\E k \in DOMAIN ServicesOf(f) : ServicesOf(f)[k] = i)
                     <=> built.services[i].parent = f
<1> DEFINE S == {i \in DOMAIN built.services : built.services[i].parent = f}
           own == InOrder(S)
<1>1. S \in SUBSET Nat /\ IsFiniteSet(S)
  <2>1. built.services \in Seq(ServiceInfo)
    BY DEF Complete, BuildInv, BuildTyped
  <2>2. DOMAIN built.services = 1..Len(built.services) /\ Len(built.services) \in Nat
    BY <2>1
  <2>3. IsFiniteSet(1..Len(built.services))
    BY <2>2, FS_Interval
  <2> QED BY <2>2, <2>3, FS_Subset
<1>2. own \in Seq(Nat) /\ \A x : Has(own, x) <=> x \in S
  <2> HIDE DEF S
  <2> QED BY <1>1, OrderedIs
<1>3. ServicesOf(f) = [k \in DOMAIN own |-> built.services[own[k]].self_ref]
  BY DEF ServicesOf
<1>4. \A i : i \in S <=> i \in DOMAIN built.services /\ built.services[i].parent = f
  OBVIOUS
<1> HIDE DEF own, S
<1>5. \A k \in DOMAIN own : own[k] \in S
  BY <1>2 DEF Has
<1>6. ASSUME NEW i \in S PROVE built.services[i].self_ref = i
  <2>1. ServiceBuilt(built.services[i], i)
    BY <1>4, ServiceComplete
  <2> QED BY <2>1 DEF ServiceBuilt
<1>7. ServicesOf(f) = [k \in DOMAIN own |-> own[k]]
  BY <1>3, <1>5, <1>6
<1>8. ServicesOf(f) = own
  BY <1>2, <1>7
<1> QED BY <1>2, <1>4, <1>8 DEF Has

-----------------------------------------------------------------------------
(* The context that build returns *)

Finished ==
    [packages |-> [p \in DOMAIN files |->
        [name |-> files[p].name, self_ref |-> p, types |-> TopTypes(p),
         services |-> ServicesOf(p)]],
     types |-> built.types, types_by_name |-> ByName(built.types),
     services |-> built.services, services_by_name |-> ByName(built.services)]

LEMMA FinishedShape ==
    ASSUME Complete
    PROVE  /\ Finished \in ContextType
           /\ Finished.types = built.types /\ Finished.types_by_name = ByName(built.types)
           /\ Finished.services = built.services
           /\ Finished.services_by_name = ByName(built.services)
           /\ DOMAIN Finished.packages = DOMAIN files
           /\ \A p \in DOMAIN files :
                /\ Finished.packages[p].name = files[p].name
                /\ Finished.packages[p].self_ref = p
                /\ Finished.packages[p].types = TopTypes(p)
                /\ Finished.packages[p].services = ServicesOf(p)
<1> DEFINE pkg(p) == [name |-> files[p].name, self_ref |-> p, types |-> TopTypes(p),
                      services |-> ServicesOf(p)]
           packages == [p \in DOMAIN files |-> pkg(p)]
<1>1. /\ files \in Files /\ built.types \in Seq(TypeInfo) /\ built.services \in Seq(ServiceInfo)
  BY DEF Complete, BuildInv, BuildTyped
<1>2. DOMAIN files = 1..Len(files) /\ Len(files) \in Nat
  BY <1>1, FilesAre
<1>3. ASSUME NEW p \in DOMAIN files PROVE pkg(p) \in Package
  <2>1. p \in Nat /\ files[p].name \in Names
    BY <1>1, <1>2, FilesAre
  <2>2. TopTypes(p) \in Seq(TypeRef) /\ ServicesOf(p) \in Seq(Nat)
    BY TopTypesAre, ServicesOfAre
  <2> QED BY <2>1, <2>2 DEF Package
<1>4. \A p \in DOMAIN files :
         /\ pkg(p).name = files[p].name /\ pkg(p).self_ref = p
         /\ pkg(p).types = TopTypes(p) /\ pkg(p).services = ServicesOf(p)
  OBVIOUS
<1> HIDE DEF pkg
<1>5. packages \in Seq(Package) /\ DOMAIN packages = DOMAIN files
      /\ \A p \in DOMAIN files : packages[p] = pkg(p)
  BY <1>2, <1>3
<1>6. Finished = [packages |-> packages, types |-> built.types,
                  types_by_name |-> ByName(built.types), services |-> built.services,
                  services_by_name |-> ByName(built.services)]
  BY DEF Finished, pkg
<1> HIDE DEF packages
<1>7. ByName(built.types) \in Maps(Names, Nat)
  <2>1. \A i \in DOMAIN built.types : built.types[i].full_name \in Names
    <3>1. \A i \in DOMAIN built.types : built.types[i] \in TypeInfo
      BY <1>1
    <3> QED BY <3>1 DEF TypeInfo, MessageInfo, EnumInfo
  <2> QED BY <1>1, <2>1, NamesDiffer, ByNameIs
<1>8. ByName(built.services) \in Maps(Names, Nat)
  <2>1. \A i \in DOMAIN built.services : built.services[i].full_name \in Names
    <3>1. \A i \in DOMAIN built.services : built.services[i] \in ServiceInfo
      BY <1>1
    <3> QED BY <3>1 DEF ServiceInfo
  <2> QED BY <1>1, <2>1, NamesDiffer, ByNameIs
<1>9. Finished \in ContextType
  BY <1>1, <1>5, <1>6, <1>7, <1>8 DEF ContextType
<1>10. /\ Finished.packages = packages /\ Finished.types = built.types
       /\ Finished.types_by_name = ByName(built.types)
       /\ Finished.services = built.services
       /\ Finished.services_by_name = ByName(built.services)
  BY <1>6
<1> QED BY <1>4, <1>5, <1>9, <1>10

\* Both maps of the finished context lead to what has the name.
LEMMA FinishedNames ==
    ASSUME Complete
    PROVE  /\ DOMAIN Finished.types_by_name = {built.types[i].full_name : i \in DOMAIN built.types}
           /\ \A i \in DOMAIN built.types :
                 Finished.types_by_name[built.types[i].full_name] = i
           /\ \A i \in DOMAIN built.services :
                 /\ built.services[i].full_name \in DOMAIN Finished.services_by_name
                 /\ Finished.services_by_name[built.services[i].full_name] = i
           /\ \A n \in DOMAIN Finished.services_by_name :
                 Finished.services_by_name[n] \in DOMAIN built.services
<1>1. built.types \in Seq(TypeInfo) /\ built.services \in Seq(ServiceInfo)
  BY DEF Complete, BuildInv, BuildTyped
<1>2. \A i \in DOMAIN built.types : built.types[i].full_name \in Names
  <2>1. \A i \in DOMAIN built.types : built.types[i] \in TypeInfo
    BY <1>1
  <2> QED BY <2>1 DEF TypeInfo, MessageInfo, EnumInfo
<1>3. \A i \in DOMAIN built.services : built.services[i].full_name \in Names
  <2>1. \A i \in DOMAIN built.services : built.services[i] \in ServiceInfo
    BY <1>1
  <2> QED BY <2>1 DEF ServiceInfo
<1>4. /\ DOMAIN ByName(built.types) = {built.types[i].full_name : i \in DOMAIN built.types}
      /\ \A i \in DOMAIN built.types : ByName(built.types)[built.types[i].full_name] = i
  BY <1>1, <1>2, NamesDiffer, ByNameIs
<1>5. /\ DOMAIN ByName(built.services)
            = {built.services[i].full_name : i \in DOMAIN built.services}
      /\ \A i \in DOMAIN built.services : ByName(built.services)[built.services[i].full_name] = i
      /\ \A n \in DOMAIN ByName(built.services) : ByName(built.services)[n] \in DOMAIN built.services
  BY <1>1, <1>3, NamesDiffer, ByNameIs
<1> QED BY <1>4, <1>5, FinishedShape

\* What an owner lists, and its name.
LEMMA FinishedOwners ==
    ASSUME Complete
    PROVE  /\ Given(Finished) = {Handle(i) : i \in DOMAIN built.types}
           /\ \A o \in Owners(Finished) : Lists(Children(Finished, o), o)
           /\ \A p \in DOMAIN files :
                /\ [of |-> "Package", ref |-> p] \in Owners(Finished)
                /\ OwnerName(Finished, [of |-> "Package", ref |-> p]) = files[p].name
           /\ \A m \in DOMAIN built.types : built.types[m].kind = "Message" =>
                /\ [of |-> "Message", ref |-> m] \in Owners(Finished)
                /\ OwnerName(Finished, [of |-> "Message", ref |-> m]) = built.types[m].full_name
<1> DEFINE d == Finished
<1>1. /\ d.types = built.types /\ DOMAIN d.packages = DOMAIN files
      /\ \A p \in DOMAIN files : /\ d.packages[p].name = files[p].name
                                /\ d.packages[p].types = TopTypes(p)
  BY FinishedShape
<1> HIDE DEF d
<1>2. Given(d) = {Handle(i) : i \in DOMAIN built.types}
  BY <1>1 DEF Given, Handle
<1>3. ASSUME NEW p \in DOMAIN files
      PROVE  LET o == [of |-> "Package", ref |-> p]
             IN  /\ o \in Owners(d) /\ OwnerName(d, o) = files[p].name
                 /\ Lists(Children(d, o), o)
  <2> DEFINE o == [of |-> "Package", ref |-> p]
  <2>1. o \in Owners(d) /\ OwnerName(d, o) = files[p].name /\ Children(d, o) = TopTypes(p)
    BY <1>1 DEF Owners, OwnerName, Children
  <2>2. Lists(TopTypes(p), o)
    BY TopTypesAre
  <2> HIDE DEF o
  <2> QED BY <2>1, <2>2 DEF o
<1>4. ASSUME NEW m \in DOMAIN built.types, built.types[m].kind = "Message"
      PROVE  LET o == [of |-> "Message", ref |-> m]
             IN  /\ o \in Owners(d) /\ OwnerName(d, o) = built.types[m].full_name
                 /\ Lists(Children(d, o), o)
  <2> DEFINE o == [of |-> "Message", ref |-> m]
  <2>1. /\ OwnerName(d, o) = built.types[m].full_name
        /\ Children(d, o) = built.types[m].inner_types
    BY <1>1 DEF OwnerName, Children
  <2>2. Lists(built.types[m].inner_types, o)
    BY <1>4, InnerTypesAre
  <2>3. o \in Owners(d)
    <3>1. Handle(m) = o
      BY <1>4 DEF Handle
    <3>2. o \in Given(d) /\ o.of = "Message"
      BY <1>2, <3>1
    <3> QED BY <3>2 DEF Owners
  <2> HIDE DEF o
  <2> QED BY <2>1, <2>2, <2>3 DEF o
<1>5. ASSUME NEW o \in Owners(d) PROVE Lists(Children(d, o), o)
  <2>1. CASE \E p \in DOMAIN files : o = [of |-> "Package", ref |-> p]
    BY <1>3, <2>1
  <2>2. CASE \E m \in DOMAIN built.types :
                built.types[m].kind = "Message" /\ o = [of |-> "Message", ref |-> m]
    BY <1>4, <2>2
  <2>3. o \in Given(d) /\ o.of = "Message" => \E m \in DOMAIN built.types :
           built.types[m].kind = "Message" /\ o = [of |-> "Message", ref |-> m]
    BY <1>2 DEF Handle
  <2> QED BY <1>1, <2>1, <2>2, <2>3 DEF Owners
<1> QED BY <1>2, <1>3, <1>4, <1>5 DEF d

LEMMA FinishedForest ==
    ASSUME Complete
    PROVE  ListsTypes(Finished) /\ \A i \in DOMAIN Finished.types : Hangs(Finished, i)
<1> DEFINE d == Finished
<1>1. d.types = built.types
  BY FinishedShape
<1>2. /\ Given(d) = {Handle(i) : i \in DOMAIN built.types}
      /\ \A o \in Owners(d) : Lists(Children(d, o), o)
      /\ \A p \in DOMAIN files :
           /\ [of |-> "Package", ref |-> p] \in Owners(d)
           /\ OwnerName(d, [of |-> "Package", ref |-> p]) = files[p].name
      /\ \A m \in DOMAIN built.types : built.types[m].kind = "Message" =>
           /\ [of |-> "Message", ref |-> m] \in Owners(d)
           /\ OwnerName(d, [of |-> "Message", ref |-> m]) = built.types[m].full_name
  BY FinishedOwners
<1> HIDE DEF d
<1>3. ListsTypes(d)
  BY <1>2 DEF ListsTypes, Lists
<1>4. ASSUME NEW i \in DOMAIN built.types PROVE Hangs(d, i)
  <2> DEFINE t == built.types[i]
             par == t.parent
             idx == cache.types[i].idx_path
  <2>1. t.self_ref = i /\ RefTo(t) = Handle(i) /\ d.types[i] = t
    <3>1. TypeBuilt(t, i) /\ RefTo(t) = Handle(i)
      BY TypeComplete
    <3> QED BY <1>1, <3>1 DEF TypeBuilt
  <2>2. /\ par \in Owners(d)
        /\ par.of = "Message" => par.ref < i
        /\ t.full_name = OwnerName(d, par) \o t.name
    <3>1. CASE Len(idx) = 2
      <4>1. /\ par = [of |-> "Package", ref |-> idx[1]] /\ idx[1] \in DOMAIN files
            /\ t.full_name = files[idx[1]].name \o t.name
        BY <3>1, TopParent
      <4> HIDE DEF t, par, idx
      <4> QED BY <1>2, <4>1
    <3>2. CASE Len(idx) # 2
      <4> DEFINE m == cache.items_by_idx[Front(idx)].final_idx
      <4>1. /\ par = [of |-> "Message", ref |-> m] /\ m \in DOMAIN built.types
            /\ m < i /\ built.types[m].kind = "Message"
            /\ t.full_name = built.types[m].full_name \o t.name
        BY <3>2, InnerParent
      <4> HIDE DEF t, par, idx, m
      <4> QED BY <1>2, <4>1
    <3> QED BY <3>1, <3>2
  <2>3. \E k \in DOMAIN Children(d, par) :
           \A o \in Owners(d) : \A j \in DOMAIN Children(d, o) :
               Children(d, o)[j] = Handle(i) <=> o = par /\ j = k
    <3>1. Lists(Children(d, par), par)
      BY <1>2, <2>2
    <3>2. PICK k \in DOMAIN Children(d, par) : \A j \in DOMAIN Children(d, par) :
              Children(d, par)[j] = Handle(i) <=> j = k
      BY <3>1 DEF Lists
    <3>3. ASSUME NEW o \in Owners(d), NEW j \in DOMAIN Children(d, o),
                 Children(d, o)[j] = Handle(i)
          PROVE  o = par
      <4>1. Lists(Children(d, o), o)
        BY <1>2
      <4>2. PICK h \in DOMAIN built.types :
                built.types[h].parent = o /\ Children(d, o)[j] = Handle(h)
        BY <4>1 DEF Lists
      <4>3. h = i
        BY <3>3, <4>2 DEF Handle
      <4> QED BY <4>2, <4>3
    <3> HIDE DEF par
    <3> QED BY <3>2, <3>3
  <2> HIDE DEF idx
  <2> QED BY <2>1, <2>2, <2>3 DEF Hangs
<1> QED BY <1>1, <1>3, <1>4 DEF d

LEMMA FinishedServices ==
    ASSUME Complete
    PROVE  ServicesHang(Finished)
<1> DEFINE d == Finished
<1>1. /\ d.types = built.types /\ d.services = built.services /\ DOMAIN d.packages = DOMAIN files
      /\ \A p \in DOMAIN files : /\ d.packages[p].name = files[p].name
                                /\ d.packages[p].self_ref = p
                                /\ d.packages[p].services = ServicesOf(p)
  BY FinishedShape
<1>2. /\ \A i \in DOMAIN built.services :
            /\ built.services[i].full_name \in DOMAIN d.services_by_name
            /\ d.services_by_name[built.services[i].full_name] = i
      /\ \A n \in DOMAIN d.services_by_name : d.services_by_name[n] \in DOMAIN built.services
  BY FinishedNames
<1> HIDE DEF d
<1>3. ASSUME NEW ref, CachedAs("Message", ref) PROVE Denotes(d, ref)
  <2>1. ref \in DOMAIN built.types /\ built.types[ref].kind = "Message"
    BY <1>3, TypeComplete DEF CachedAs
  <2> QED BY <1>1, <2>1 DEF Denotes
<1>4. ASSUME NEW i \in DOMAIN built.services PROVE ServiceHangs(d, i)
  <2> DEFINE s == built.services[i]
             idx == cache.services[i].idx_path
  <2>1. ServiceBuilt(s, i) /\ ServiceCached(i) /\ files \in Files
    BY ServiceComplete DEF Complete, BuildInv, BuildTyped
  <2>2. /\ Rpcs(s) /\ s.self_ref = i /\ s.parent = idx[1]
        /\ Known(idx) /\ Item(idx).kind = "Service"
        /\ s.full_name = NameOf(idx) /\ s.name = <<Item(idx).name>>
        /\ \A k \in DOMAIN s.rpcs : /\ CachedAs("Message", s.rpcs[k].input)
                                    /\ CachedAs("Message", s.rpcs[k].output)
    BY <2>1 DEF ServiceBuilt, ServiceCached
  <2>3. d.services[i] = s
    BY <1>1
  <2>4. /\ s.full_name \in DOMAIN d.services_by_name
        /\ d.services_by_name[s.full_name] = i
    BY <1>2
  <2>5. \A p \in DOMAIN files :
           (\E k \in DOMAIN ServicesOf(p) : ServicesOf(p)[k] = i) <=> p = s.parent
    BY ServicesOfAre
  <2> HIDE DEF s, idx
  <2>6. Len(idx) = 2 /\ idx[1] \in DOMAIN files
    <3>1. ~ IsType(Item(idx))
      BY <2>2 DEF IsType, TypeKinds
    <3> QED BY <2>1, <2>2, <3>1, KnownItem DEF Known
  <2>7. s.full_name = d.packages[s.parent].name \o s.name
    <3>1. NameOf(idx) = files[idx[1]].name \o <<Item(idx).name>>
      BY <2>1, <2>2, <2>6, TopName
    <3> QED BY <1>1, <2>2, <2>6, <3>1
  <2>8. \A k \in DOMAIN s.rpcs : Denotes(d, s.rpcs[k].input) /\ Denotes(d, s.rpcs[k].output)
    BY <1>3, <2>2
  <2>9. s.parent \in DOMAIN d.packages
    BY <1>1, <2>2, <2>6
  <2>10. \A p \in DOMAIN d.packages :
           (\E k \in DOMAIN d.packages[p].services : d.packages[p].services[k] = i)
               <=> p = s.parent
    BY <1>1, <2>5
  <2> HIDE DEF Rpcs
  <2> QED BY <2>2, <2>3, <2>4, <2>7, <2>8, <2>9, <2>10 DEF ServiceHangs
<1> QED BY <1>1, <1>2, <1>4 DEF ServicesHang, d

\* The handles of the fields denote types of the right kind.
LEMMA FinishedHandles ==
    ASSUME Complete, NEW i \in DOMAIN built.types, built.types[i].kind = "Message",
           NEW n \in DOMAIN built.types[i].fields
    PROVE  LET type == built.types[i].fields[n].type
           IN  type.of \in TypeKinds =>
                  type.ref \in DOMAIN built.types /\ built.types[type.ref].kind = type.of
<1>1. TypeBuilt(built.types[i], i)
  BY TypeComplete
<1> DEFINE type == built.types[i].fields[n].type
<1>2. type.of \in TypeKinds => CachedAs(type.of, type.ref)
  BY <1>1 DEF TypeBuilt
<1> HIDE DEF type
<1>3. type.of \in TypeKinds =>
         type.ref \in DOMAIN built.types /\ built.types[type.ref].kind = type.of
  BY <1>2, TypeComplete DEF CachedAs
<1> QED BY <1>3 DEF type

\* What build returns satisfies all that the calls on a context rely on.
LEMMA FinishMakes ==
    ASSUME BuildInv, Finish, draft' = <<>>
    PROVE  IInv'
<1>1. /\ ctx' = Finished
      /\ status = "services" /\ Len(built.services) = Len(cache.services)
  BY DEF Finish, Finished
<1>2. Complete
  BY <1>1 DEF Complete, BuildInv, Progress, Populating
<1>3. ctx'.types = built.types
  BY <1>1, <1>2, FinishedShape
<1>4. Typed'
  BY <1>1, <1>2, FinishedShape DEF Typed
<1>5. NamesAreKeys'
  BY <1>1, <1>2, <1>3, FinishedNames DEF NamesAreKeys
<1>6. Forest'
  BY <1>1, <1>2, FinishedForest DEF Forest
<1>7. DOMAIN draft' = {}
  OBVIOUS
<1>8. AllMembers'
  <2>1. ASSUME NEW i \in DOMAIN built.types PROVE Members(built.types[i])
    <3>1. TypeBuilt(built.types[i], i)
      BY <1>2, TypeComplete
    <3> QED BY <3>1 DEF TypeBuilt
  <2> QED BY <1>3, <1>7, <2>1 DEF AllMembers
<1>9. AllResolve'
  <2>1. ASSUME NEW i \in DOMAIN built.types, built.types[i].kind = "Message",
               NEW n \in DOMAIN built.types[i].fields, NEW type,
               type = built.types[i].fields[n].type
        PROVE  TypeResolves(type)'
    <3>1. type.of \in TypeKinds =>
             type.ref \in DOMAIN ctx'.types /\ ctx'.types[type.ref].kind = type.of
      BY <1>2, <1>3, <2>1, FinishedHandles
    <3> QED BY <3>1 DEF TypeResolves, TypeKinds, resolve_message, resolve_enum, resolve_type
  <2>2. (\A i \in DOMAIN ctx.types : ctx.types[i].kind = "Message" =>
            \A n \in DOMAIN ctx.types[i].fields : TypeResolves(ctx.types[i].fields[n].type))'
    BY <1>3, <2>1
  <2> QED BY <1>7, <2>2 DEF AllResolve, FieldsResolve, MayHold
<1>10. ServicesHang(ctx')
  BY <1>1, <1>2, FinishedServices
<1> QED BY <1>4, <1>5, <1>6, <1>8, <1>9, <1>10 DEF IInv

-----------------------------------------------------------------------------
(* The invariant of a context's whole life *)

\* Nothing is there before build returns.
Quiet == status # "ready" => ctx = EmptyContext /\ draft = <<>>

LInv == BuildInv /\ IInv /\ Quiet

LEMMA ParseKeeps == LInv /\ Parse => LInv'
<1> SUFFICES ASSUME LInv, Parse PROVE LInv'
  OBVIOUS
<1>1. BuildInv' /\ draft' = draft
  BY BuildStepKeeps DEF LInv, Parse
<1>2. CASE Finish
  <2>1. status = "services" /\ status' = "ready"
    BY <1>2 DEF Finish
  <2>2. draft' = <<>>
    BY <1>1, <2>1 DEF LInv, Quiet
  <2>3. IInv'
    BY <1>2, <2>2, FinishMakes DEF LInv
  <2> QED BY <1>1, <2>1, <2>3 DEF LInv, Quiet
<1>3. CASE ~ Finish
  <2>1. ctx' = ctx /\ status # "ready"
    BY <1>3 DEF Parse, BuildNext, PopulateMessage, PopulateEnum, PopulateService, Duplicate,
                Populated, BuildType, TypesBuilt, BuildService
  <2>2. IInv'
    BY <1>1, <2>1, RegistryStepKeeps DEF LInv
  <2> QED BY <1>1, <2>1, <2>2 DEF LInv, Quiet
<1> QED BY <1>2, <1>3

LEMMA ChangeKeeps == LInv /\ Change => LInv'
<1> SUFFICES ASSUME LInv, Change PROVE LInv'
  OBVIOUS
<1>1. BuildInv' /\ IInv'
  BY SameBuild, RegistryStepKeeps DEF LInv, Change
<1>2. status' = "ready"
  BY DEF Change, buildVars
<1> QED BY <1>1, <1>2 DEF LInv, Quiet

\* The strengthening: what build relies on while it runs, what the calls rely on
\* once it is done, and that nothing is there in between.
THEOREM LInvAlways == Spec => []LInv
<1>1. Init => LInv
  BY BuildInvInit, IInvInit DEF Init, RegistryInit, LInv, Quiet
<1>2. LInv /\ [Next]_vars => LInv'
  <2> SUFFICES ASSUME LInv, [Next]_vars PROVE LInv'
    OBVIOUS
  <2>1. CASE Parse
    BY <2>1, ParseKeeps
  <2>2. CASE Change
    BY <2>2, ChangeKeeps
  <2>3. CASE UNCHANGED vars
    <3>1. UNCHANGED <<ctx, draft>> /\ UNCHANGED buildVars /\ status' = status
      BY <2>3 DEF vars, buildVars
    <3>2. BuildInv' /\ IInv'
      BY <3>1, SameBuild, RegistryStepKeeps DEF LInv
    <3> QED BY <3>1, <3>2 DEF LInv, Quiet
  <2> QED BY <2>1, <2>2, <2>3 DEF Next
<1> QED BY <1>1, <1>2, PTL DEF Spec

-----------------------------------------------------------------------------
(* What holds of every context, parsed and then changed *)

\* get_type finds every type under its full name, and only that one, in a context
\* that build has returned and after every call to insert_* that follows.
THEOREM NamesAlways == Spec => []NamesAreKeys
<1>1. LInv => NamesAreKeys
  BY DEF LInv, IInv
<1> QED BY <1>1, LInvAlways, PTL

\* Types, packages and messages form a forest with every handle listed once:
\* the indices that populate gave out are those build puts the types at.
THEOREM ForestAlways == Spec => []Forest
<1>1. LInv => Forest
  BY DEF LInv, IInv
<1> QED BY <1>1, LInvAlways, PTL

\* Every service is listed by its package and found by its full name.
THEOREM ServicesAlways == Spec => []ServicesAreFound
<1>1. LInv => ServicesAreFound
  BY ServicesFound DEF LInv, IInv, Typed
<1> QED BY <1>1, LInvAlways, PTL

\* Every rpc argument denotes a message and every field a type of its kind, in each
\* context that is parsed and changed: only a field that a client gave a stray handle
\* can make resolve_message and resolve_enum panic.
THEOREM HandlesAlways == Spec => []HandlesResolve
<1>1. LInv => HandlesResolve
  BY IInvHandles DEF LInv
<1> QED BY <1>1, LInvAlways, PTL

\* The look-ups by number and by name, and the oneofs, agree with the fields of
\* every type that was built or made by hand.
THEOREM MembersAlways == Spec => []MembersConsistent
<1>1. LInv => MembersConsistent
  BY IInvMembers DEF LInv
<1> QED BY <1>1, LInvAlways, PTL

-----------------------------------------------------------------------------
(* Types *)

LEMMA TypeInfoIs ==
    ASSUME NEW t \in TypeInfo, Members(t)
    PROVE  TypeInfoOK(t)
<1> DEFINE V == IF t.kind = "Message" THEN MessageField ELSE EnumField
<1>1. /\ t.kind \in TypeKinds /\ t.name \in Names /\ t.full_name \in Names
      /\ t.parent \in TypeParent /\ t.self_ref \in Nat /\ t.inner_types \in Seq(TypeRef)
      /\ t.fields \in Maps(Nat, V) /\ t.fields_by_name \in Maps(Names, Nat)
  BY DEF TypeInfo, MessageInfo, EnumInfo, TypeKinds
<1>2. t.oneofs \in Seq(Oneof)
  BY OneofsTyped
<1> HIDE DEF V
<1>3. MapInto(t.fields, Nat, V)
  BY <1>1, MapDomain DEF MapInto
<1>4. MapInto(t.fields_by_name, Names, DOMAIN t.fields)
  <2>1. \A s \in DOMAIN t.fields_by_name : t.fields_by_name[s] \in DOMAIN t.fields
    BY DEF Members
  <2> QED BY <1>1, <2>1, MapDomain DEF MapInto
<1> QED BY <1>1, <1>2, <1>3, <1>4 DEF TypeInfoOK, V

LEMMA ContextTyped == IInv => ContextOK
<1> SUFFICES ASSUME IInv PROVE ContextOK
  OBVIOUS
<1>1. ctx \in ContextType /\ ServicesHang(ctx)
  BY DEF IInv, Typed
<1>2. /\ ctx.packages \in Seq(Package) /\ ctx.types \in Seq(TypeInfo)
      /\ ctx.services \in Seq(ServiceInfo)
      /\ ctx.types_by_name \in Maps(Names, Nat) /\ ctx.services_by_name \in Maps(Names, Nat)
  BY <1>1 DEF ContextType
<1>3. \A i \in DOMAIN ctx.packages : PackageOK(ctx.packages[i])
  <2>1. \A i \in DOMAIN ctx.packages : ctx.packages[i] \in Package
    BY <1>2
  <2> QED BY <2>1 DEF Package, PackageOK
<1>4. \A i \in DOMAIN ctx.types : TypeInfoOK(ctx.types[i])
  <2>1. \A i \in DOMAIN ctx.types : ctx.types[i] \in TypeInfo
    BY <1>2
  <2> QED BY <2>1, TypeInfoIs DEF IInv, AllMembers
<1>5. ASSUME NEW i \in DOMAIN ctx.services PROVE ServiceOK(ctx.services[i])
  <2> DEFINE s == ctx.services[i]
  <2>1. s \in ServiceInfo /\ Rpcs(s)
    <3>1. ServiceHangs(ctx, i)
      BY <1>1 DEF ServicesHang
    <3>2. ctx.services[i] \in ServiceInfo
      BY <1>2
    <3> QED BY <3>1, <3>2 DEF ServiceHangs
  <2> HIDE DEF s
  <2>2. /\ s.name \in Names /\ s.full_name \in Names /\ s.self_ref \in Nat /\ s.parent \in Nat
        /\ s.rpcs \in Seq(RpcInfo) /\ s.rpcs_by_name \in Maps(Names, Nat)
    BY <2>1 DEF ServiceInfo
  <2>3. \A k \in DOMAIN s.rpcs : s.rpcs[k] \in [name : Names, input : Nat, output : Nat]
    <3>1. \A k \in DOMAIN s.rpcs : s.rpcs[k] \in RpcInfo
      BY <2>2
    <3> QED BY <3>1 DEF RpcInfo
  <2>4. MapInto(s.rpcs_by_name, Names, DOMAIN s.rpcs)
    <3>1. \A n \in DOMAIN s.rpcs_by_name : s.rpcs_by_name[n] \in DOMAIN s.rpcs
      BY <2>1 DEF Rpcs
    <3> QED BY <2>2, <3>1, MapDomain DEF MapInto
  <2>5. ServiceOK(s)
    BY <2>2, <2>3, <2>4 DEF ServiceOK
  <2> QED BY <2>5 DEF s
<1>6. MapInto(ctx.types_by_name, Names, DOMAIN ctx.types)
  <2>1. DOMAIN ctx.types_by_name \subseteq Names
    BY <1>2, MapDomain
  <2> QED BY <2>1, EntryFound DEF MapInto
<1>7. MapInto(ctx.services_by_name, Names, DOMAIN ctx.services)
  <2>1. DOMAIN ctx.services_by_name \subseteq Names
    BY <1>2, MapDomain
  <2> QED BY <1>1, <2>1 DEF MapInto, ServicesHang
<1> QED BY <1>3, <1>4, <1>5, <1>6, <1>7 DEF ContextOK

\* Everything keeps its type; the final index of a cached type is one of a type.
THEOREM TypesAlways == Spec => []TypeOK
<1>1. LInv => TypeOK
  <2> SUFFICES ASSUME LInv PROVE TypeOK
    OBVIOUS
  <2>1. ContextOK
    BY ContextTyped DEF LInv
  <2>2. Len(draft) <= 1 /\ \A i \in DOMAIN draft : TypeInfoOK(draft[i])
    <3>1. draft \in {<<>>} \cup {<<t>> : t \in TypeInfo}
      BY DEF LInv, IInv, Typed
    <3>2. \A i \in DOMAIN draft : draft[i] \in TypeInfo
      BY <3>1
    <3>3. Len(draft) <= 1
      <4>1. CASE draft = <<>>
        BY <4>1
      <4>2. CASE draft # <<>>
        <5>1. PICK t : draft = <<t>>
          BY <3>1, <4>2
        <5> QED BY <5>1
      <4> QED BY <4>1, <4>2
    <3> QED BY <3>2, <3>3, TypeInfoIs DEF LInv, IInv, AllMembers
  <2>3. status \in {"populate", "types", "services", "ready", "DuplicateType",
                    "TypeNotFound", "InvalidTypeKind", "unreachable", "panic"}
    BY DEF LInv, BuildInv, BuildTyped
  <2>4. \A i \in DOMAIN built.types : TypeInfoOK(built.types[i])
    <3>1. \A i \in DOMAIN built.types : TypeBuilt(built.types[i], i)
      BY DEF LInv, BuildInv, BuiltOK
    <3> QED BY <3>1, TypeInfoIs DEF TypeBuilt
  <2>5. \A i \in DOMAIN cache.types : cache.types[i].final_idx \in 1..Len(cache.types)
    <3>1. \A i \in DOMAIN cache.types : cache.types[i].final_idx = i
      BY DEF LInv, BuildInv, CacheOK, TypeCached
    <3>2. cache.types \in Seq(CacheDatum)
      BY DEF LInv, BuildInv, BuildTyped, CacheType
    <3> QED BY <3>1, <3>2
  <2> QED BY <2>1, <2>2, <2>3, <2>4, <2>5 DEF TypeOK
<1> QED BY <1>1, LInvAlways, PTL

-----------------------------------------------------------------------------
(* Refinement *)

\* Each type that build returns hangs below a package or below a message that
\* is returned with it.
LEMMA EntriesRooted == IInv => NS!Rooted(Entries)
<1> SUFFICES ASSUME IInv PROVE NS!Rooted(Entries)
  OBVIOUS
<1>1. ASSUME NEW n \in DOMAIN Entries, Entries[n].owner # NS!NoOwner
      PROVE  /\ Entries[n].owner \in DOMAIN Entries
             /\ Entries[Entries[n].owner].kind = "Message"
  <2> DEFINE i == ctx.types_by_name[n]
             m == ctx.types[i].parent.ref
             o == ctx.types[m].full_name
  <2>1. n \in DOMAIN ctx.types_by_name /\ i \in DOMAIN ctx.types
    BY EntryFound DEF Entries
  <2>2. Entries[n] = [kind |-> ctx.types[i].kind,
                      owner |-> IF ctx.types[i].parent.of = "Package" THEN NoName ELSE o]
    BY <2>1 DEF Entries
  <2>3. ctx.types[i].parent.of # "Package" /\ Entries[n].owner = o
    BY <1>1, <2>2, SMTT(30) DEF NS!NoOwner, NoName
  <2>4. ctx.types[i].parent \in Owners(ctx)
    BY <2>1 DEF IInv, Forest, Hangs
  <2>5. m \in DOMAIN ctx.types /\ ctx.types[m].kind = "Message"
    <3>1. \A r \in Owners(ctx) : r.of # "Package" =>
             r.ref \in DOMAIN ctx.types /\ ctx.types[r.ref].kind = "Message"
      BY DEF Owners, Given
    <3> HIDE DEF i
    <3> QED BY <2>3, <2>4, <3>1
  <2>6. o \in DOMAIN ctx.types_by_name /\ ctx.types_by_name[o] = m
    BY <2>5 DEF IInv, NamesAreKeys
  <2> HIDE DEF m, i, o
  <2>7. o \in DOMAIN Entries /\ Entries[o].kind = ctx.types[m].kind
    BY <2>6 DEF Entries
  <2> QED BY <2>3, <2>5, <2>7
<1> QED BY <1>1 DEF NS!Rooted

\* Parsing gives a context all of its names at once, each call that follows adds
\* at most one, and a name that has been given to a type goes on denoting it: the
\* life of a context implements the abstract name space.
THEOREM NamesKeptAlways == Spec => KeepsNames
<1>1. Init => NS!NSInit
  BY DEF Init, EmptyContext, NS!NSInit, Entries
<1>2. LInv => NS!Rooted(Entries)
  BY EntriesRooted DEF LInv
<1>3. LInv /\ NS!Rooted(Entries)' /\ [Next]_vars => [NS!NSNext]_Entries
  <2> SUFFICES ASSUME LInv, NS!Rooted(Entries)', [Next]_vars
               PROVE  NS!NSNext \/ Entries' = Entries
    OBVIOUS
  <2>1. CASE Finish
    <3>1. ctx = EmptyContext
      BY <2>1 DEF Finish, LInv, Quiet
    <3>2. \A n \in DOMAIN Entries : FALSE
      <4>1. DOMAIN ctx.types_by_name = {}
        BY <3>1 DEF EmptyContext
      <4> QED BY <4>1 DEF Entries
    <3> QED BY <3>2 DEF NS!NSNext, NS!Load, NS!Rooted
  <2>2. CASE Change
    BY <2>2, RegistryStepKeepsNames DEF LInv, Change
  <2>3. CASE ctx' = ctx
    BY <2>3 DEF Entries
  <2> QED BY <2>1, <2>2, <2>3 DEF Next, Parse, BuildNext, vars
<1> QED BY <1>1, <1>2, <1>3, LInvAlways, PTL DEF Spec, KeepsNames, NS!NSSpec

-----------------------------------------------------------------------------
(***************************************************************************)
(* What ContextBuilder::build answers, for all files: that each of its     *)
(* errors has the reason it names, that what it accepts has none, and that *)
(* what it then makes is what was declared.  The declarations are those of *)
(* the files themselves; the cache has to be shown to agree with them.     *)
(***************************************************************************)
(* The declarations, found without the cache *)

\* No item is nested deeper than its type declaration allows.
LEMMA DepthBound ==
    ASSUME files \in Files
    PROVE  \A idx : Known(idx) => Len(idx) - 1 \in 1..MaxDepth
<1>0. MaxDepth \in Nat /\ MaxDepth >= 1
  BY BuildAssumption
<1> DEFINE At(n, idx) == \/ n = 0 /\ IsService(Item(idx))
                         \/ n < MaxDepth /\ Item(idx) \in TypeDecl[MaxDepth - n]
           B == {n \in Nat : \A idx : Known(idx) /\ Len(idx) = n + 2 => At(n, idx)}
<1>1. 0 \in B
  <2> SUFFICES ASSUME NEW idx, Known(idx), Len(idx) = 2 PROVE At(0, idx)
    OBVIOUS
  <2>1. /\ idx \in Seq(Nat) /\ idx[1] \in DOMAIN files
        /\ idx[2] \in DOMAIN files[idx[1]].items
    BY DEF Known
  <2>2. Item(idx) = files[idx[1]].items[idx[2]]
    BY <2>1, ItemTop
  <2>3. files \in Seq(FileDecl)
    BY FilesAre
  <2>4. files[idx[1]] \in FileDecl
    BY <2>1, <2>3
  <2>5. files[idx[1]].items \in Seq(TypeDecl[MaxDepth] \cup ServiceDecl)
    BY <2>4 DEF FileDecl
  <2>6. Item(idx) \in TypeDecl[MaxDepth] \cup ServiceDecl
    BY <2>1, <2>2, <2>5
  <2>7. MaxDepth - 0 = MaxDepth /\ 0 < MaxDepth
    BY <1>0
  <2> QED BY <2>6, <2>7 DEF ServiceDecl, IsService
<1>2. ASSUME NEW n \in Nat, n \in B PROVE n + 1 \in B
  <2> SUFFICES ASSUME NEW idx, Known(idx), Len(idx) = n + 3 PROVE At(n + 1, idx)
    OBVIOUS
  <2> DEFINE out == Front(idx)
             i == idx[Len(idx)]
  <2>1. Len(idx) > 2 /\ Len(idx) - 1 = n + 2
    OBVIOUS
  <2>2. /\ Known(out) /\ Len(out) = n + 2
        /\ i \in DOMAIN Item(out).inner /\ idx = Append(out, i)
    BY <2>1, KnownOuter
  <2> HIDE DEF out, i
  <2>3. Item(idx) = Item(out).inner[i]
    BY <2>2, KnownInner
  <2>4. At(n, out)
    BY <1>2, <2>2
  <2>5. ~IsService(Item(out))
    BY <2>2 DEF IsService
  <2>6. n < MaxDepth /\ Item(out) \in TypeDecl[MaxDepth - n]
    BY <2>4, <2>5
  <2>7. MaxDepth - n \in 1..MaxDepth /\ (MaxDepth - n) - 1 = MaxDepth - (n + 1)
    BY <1>0, <2>6
  <2>8. Item(out) \in EnumDecl \/ Item(out) \in MessagesOf(TypeDecl[MaxDepth - (n + 1)])
    BY <2>6, <2>7, TypeDeclIs
  <2>9. Item(out) \notin EnumDecl
    BY <2>2 DEF EnumDecl
  <2>10. Item(out).inner \in Seq(TypeDecl[MaxDepth - (n + 1)])
    BY <2>8, <2>9 DEF MessagesOf
  <2>11. Item(idx) \in TypeDecl[MaxDepth - (n + 1)]
    BY <2>2, <2>3, <2>10
  <2>12. MaxDepth - (n + 1) # 0
    BY <2>11, TypeDeclIs
  <2>13. n + 1 < MaxDepth
    BY <1>0, <2>6, <2>12
  <2> QED BY <2>11, <2>13
<1> HIDE DEF B
<1>3. Nat \subseteq B
  BY <1>1, <1>2, SetInduction
<1>4. ASSUME NEW idx, Known(idx) PROVE Len(idx) - 1 \in 1..MaxDepth
  <2>1. idx \in Seq(Nat) /\ Len(idx) >= 2
    BY <1>4 DEF Known
  <2>2. Len(idx) - 2 \in Nat /\ Len(idx) = (Len(idx) - 2) + 2
    BY <2>1
  <2>3. PICK n \in Nat : Len(idx) = n + 2
    BY <2>2
  <2>4. At(n, idx)
    <3> HIDE DEF At
    <3> QED BY <1>3, <1>4, <2>3 DEF B
  <2>5. n = 0 \/ n < MaxDepth
    BY <2>4
  <2> QED BY <1>0, <2>3, <2>5
<1> QED BY <1>4

\* A declaration, by its path.
DeclOf(idx) == [idx |-> idx, kind |-> Item(idx).kind, full |-> NameOf(idx)]

\* The levels of Declared are what their definition says.
IsLevels(g, N) ==
    LET Decl(idx, path) == [idx |-> idx, kind |-> Item(idx).kind,
                            full |-> Append(path, Item(idx).name)]
    IN  g = [n \in 1..N |->
               IF n = 1 THEN {Decl(d.idx, d.path) : d \in Range(TopLevel(files))}
               ELSE UNION {{Decl(Append(d.idx, i), d.full) : i \in DOMAIN Item(d.idx).inner} :
                              d \in g[n - 1]}]

TopDecls ==
    {[idx |-> d.idx, kind |-> Item(d.idx).kind, full |-> Append(d.path, Item(d.idx).name)] :
        d \in Range(TopLevel(files))}
Below(d) ==
    {[idx |-> Append(d.idx, i), kind |-> Item(Append(d.idx, i)).kind,
      full |-> Append(d.full, Item(Append(d.idx, i)).name)] : i \in DOMAIN Item(d.idx).inner}

LEMMA LevelsAre ==
    ASSUME NEW g, NEW N
    PROVE  IsLevels(g, N) <=>
             g = [n \in 1..N |-> IF n = 1 THEN TopDecls ELSE UNION {Below(d) : d \in g[n - 1]}]
BY DEF IsLevels, TopDecls, Below

LEMMA LevelsExist == \A N \in Nat : \E g : IsLevels(g, N)
<1> DEFINE B == {N \in Nat : \E g : IsLevels(g, N)}
<1>1. 0 \in B
  <2> DEFINE g == [n \in 1..0 |-> {}]
  <2>1. g = [n \in 1..0 |-> IF n = 1 THEN TopDecls ELSE UNION {Below(d) : d \in g[n - 1]}]
    OBVIOUS
  <2> HIDE DEF g
  <2>2. IsLevels(g, 0)
    BY <2>1, LevelsAre
  <2> QED BY <2>2
<1>2. ASSUME NEW N \in Nat, N \in B PROVE N + 1 \in B
  <2>1. PICK g : g = [n \in 1..N |->
                        IF n = 1 THEN TopDecls ELSE UNION {Below(d) : d \in g[n - 1]}]
    BY <1>2, LevelsAre
  <2> DEFINE Next1(S) == UNION {Below(d) : d \in S}
             h == [n \in 1..(N + 1) |->
                     IF n = N + 1 THEN (IF n = 1 THEN TopDecls ELSE Next1(g[N])) ELSE g[n]]
  <2>2. ASSUME NEW n \in 1..(N + 1)
        PROVE  h[n] = IF n = 1 THEN TopDecls ELSE Next1(h[n - 1])
    <3> HIDE DEF Next1
    <3>1. CASE n = N + 1
      BY <3>1
    <3>2. CASE n # N + 1
      <4>1. n \in 1..N /\ (n # 1 => n - 1 \in 1..N /\ n - 1 # N + 1)
        BY <3>2
      <4>2. g[n] = IF n = 1 THEN TopDecls ELSE Next1(g[n - 1])
        BY <2>1, <4>1 DEF Next1
      <4>3. h[n] = g[n] /\ (n # 1 => h[n - 1] = g[n - 1])
        BY <3>2, <4>1
      <4> QED BY <4>2, <4>3
    <3> QED BY <3>1, <3>2
  <2>3. IsLevels(h, N + 1)
    <3> HIDE DEF h
    <3>1. h = [n \in 1..(N + 1) |-> h[n]]
      BY DEF h
    <3> QED BY <2>2, <3>1, LevelsAre
  <2> QED BY <2>3
<1> HIDE DEF B
<1>3. Nat \subseteq B
  BY <1>1, <1>2, SetInduction
<1> QED BY <1>3 DEF B

\* What the model calls declared is what has a path in the files.
LEMMA DeclaredAre ==
    ASSUME files \in Files, NEW d
    PROVE  d \in Declared <=> Known(d.idx) /\ d = DeclOf(d.idx)
<1>0. MaxDepth \in Nat /\ MaxDepth >= 1
  BY BuildAssumption
<1>1. PICK level : /\ IsLevels(level, MaxDepth)
                   /\ Declared = UNION Range(level)
  <2> DEFINE l == CHOOSE g : IsLevels(g, MaxDepth)
  <2>1. IsLevels(l, MaxDepth)
    BY <1>0, LevelsExist
  <2>2. Declared = UNION Range(l)
    BY DEF Declared, IsLevels
  <2> QED BY <2>1, <2>2
<1>2. level = [n \in 1..MaxDepth |->
                 IF n = 1 THEN TopDecls ELSE UNION {Below(e) : e \in level[n - 1]}]
  BY <1>1, LevelsAre
<1> DEFINE Is(n) == \A e : e \in level[n] <=> Known(e.idx) /\ Len(e.idx) = n + 1 /\ e = DeclOf(e.idx)
           B == {n \in Nat : n + 1 <= MaxDepth => Is(n + 1)}
<1>3. \A e : e \in TopDecls <=> Known(e.idx) /\ Len(e.idx) = 2 /\ e = DeclOf(e.idx)
  <2>1. ASSUME NEW e, e \in TopDecls
        PROVE  Known(e.idx) /\ Len(e.idx) = 2 /\ e = DeclOf(e.idx)
    <3>1. PICK t \in Range(TopLevel(files)) :
             e = [idx |-> t.idx, kind |-> Item(t.idx).kind, full |-> Append(t.path, Item(t.idx).name)]
      BY <2>1 DEF TopDecls
    <3>2. Has(TopLevel(files), t)
      BY DEF Range, Has
    <3>3. PICK f \in DOMAIN files : \E i \in DOMAIN files[f].items :
              t = [idx |-> <<f, i>>, path |-> files[f].name]
      BY <3>2, TopTasks
    <3>4. PICK i \in DOMAIN files[f].items : t = [idx |-> <<f, i>>, path |-> files[f].name]
      BY <3>3
    <3> DEFINE a == <<f, i>>
    <3>5. Known(a) /\ Len(a) = 2 /\ Scope(a) = files[f].name
      BY KnownTop
    <3> HIDE DEF a
    <3>6. t.idx = a /\ t.path = files[f].name
      BY <3>4 DEF a
    <3> QED BY <3>1, <3>5, <3>6 DEF DeclOf, NameOf
  <2>2. ASSUME NEW e, Known(e.idx), Len(e.idx) = 2, e = DeclOf(e.idx)
        PROVE  e \in TopDecls
    <3> DEFINE a == e.idx
               t == [idx |-> a, path |-> files[a[1]].name]
    <3>1. /\ a \in Seq(Nat) /\ Len(a) = 2 /\ a[1] \in DOMAIN files
          /\ a[2] \in DOMAIN files[a[1]].items
      BY <2>2 DEF Known
    <3>2. a = <<a[1], a[2]>>
      BY <3>1
    <3>3. Scope(a) = files[a[1]].name
      BY <3>1, <3>2, KnownTop
    <3>4. Has(TopLevel(files), t)
      BY <3>1, <3>2, TopTasks
    <3>5. t \in Range(TopLevel(files))
      BY <3>4 DEF Has, Range
    <3>6. e = [idx |-> t.idx, kind |-> Item(t.idx).kind, full |-> Append(t.path, Item(t.idx).name)]
      BY <2>2, <3>3 DEF DeclOf, NameOf
    <3> HIDE DEF t
    <3> QED BY <3>5, <3>6 DEF TopDecls
  <2> QED BY <2>1, <2>2
<1>4. 0 \in B
  <2>1. 1 \in 1..MaxDepth
    BY <1>0
  <2>2. level[1] = TopDecls
    BY <1>2, <2>1
  <2> QED BY <1>3, <2>2
<1>5. ASSUME NEW n \in Nat, n \in B PROVE n + 1 \in B
  <2> SUFFICES ASSUME (n + 1) + 1 <= MaxDepth PROVE Is((n + 1) + 1)
    OBVIOUS
  <2> DEFINE m == n + 2
  <2>1. /\ m = (n + 1) + 1 /\ m \in 1..MaxDepth /\ m # 1 /\ m - 1 = n + 1 /\ n + 1 <= MaxDepth
        /\ m \in Nat
    BY <1>0
  <2>2. Is(n + 1)
    BY <1>5, <2>1
  <2>3. level[m] = UNION {Below(e) : e \in level[n + 1]}
    BY <1>2, <2>1
  <2>4. ASSUME NEW e, e \in level[m]
        PROVE  Known(e.idx) /\ Len(e.idx) = m + 1 /\ e = DeclOf(e.idx)
    <3>1. PICK o \in level[n + 1] : e \in Below(o)
      BY <2>3, <2>4
    <3>2. Known(o.idx) /\ Len(o.idx) = n + 2 /\ o = DeclOf(o.idx)
      BY <2>2
    <3>3. PICK i \in DOMAIN Item(o.idx).inner :
             e = [idx |-> Append(o.idx, i), kind |-> Item(Append(o.idx, i)).kind,
                  full |-> Append(o.full, Item(Append(o.idx, i)).name)]
      BY <3>1 DEF Below
    <3> DEFINE b == Append(o.idx, i)
    <3>4. Known(b) /\ Len(b) = Len(o.idx) + 1 /\ Scope(b) = NameOf(o.idx)
      BY <3>2, KnownInner
    <3>5. o.full = NameOf(o.idx)
      BY <3>2 DEF DeclOf
    <3> HIDE DEF b
    <3>6. e.idx = b /\ e.kind = Item(b).kind /\ e.full = Append(o.full, Item(b).name)
          /\ e = [idx |-> b, kind |-> Item(b).kind, full |-> Append(o.full, Item(b).name)]
      BY <3>3 DEF b
    <3>7. e = DeclOf(b)
      BY <3>4, <3>5, <3>6 DEF DeclOf, NameOf
    <3> QED BY <2>1, <3>2, <3>4, <3>6, <3>7
  <2>5. ASSUME NEW e, Known(e.idx), Len(e.idx) = m + 1, e = DeclOf(e.idx)
        PROVE  e \in level[m]
    <3> DEFINE a == e.idx
               out == Front(a)
               i == a[Len(a)]
               o == DeclOf(out)
    <3>1. Len(a) > 2
      BY <2>1, <2>5
    <3>2. /\ Known(out) /\ Len(out) = Len(a) - 1
          /\ i \in DOMAIN Item(out).inner /\ a = Append(out, i) /\ Scope(a) = NameOf(out)
      BY <2>5, <3>1, KnownOuter
    <3> HIDE DEF i, out
    <3>3. o.idx = out /\ o.full = NameOf(out)
      BY DEF DeclOf
    <3>4. Len(out) = (n + 1) + 1
      BY <2>1, <2>5, <3>2
    <3> HIDE DEF o
    <3>5. o \in level[n + 1]
      BY <2>2, <3>2, <3>3, <3>4 DEF o
    <3>6. e = [idx |-> Append(o.idx, i), kind |-> Item(Append(o.idx, i)).kind,
               full |-> Append(o.full, Item(Append(o.idx, i)).name)]
      BY <2>5, <3>2, <3>3 DEF DeclOf, NameOf
    <3>7. e \in Below(o)
      BY <3>2, <3>3, <3>6 DEF Below
    <3> QED BY <2>3, <3>5, <3>7
  <2> HIDE DEF m
  <2>6. Is(m)
    BY <2>4, <2>5
  <2> HIDE DEF Is
  <2> QED BY <2>1, <2>6
<1>6. Nat \subseteq B
  <2> HIDE DEF B
  <2> QED BY <1>4, <1>5, SetInduction
<1>7. ASSUME NEW n \in 1..MaxDepth PROVE Is(n)
  <2>1. n - 1 \in Nat /\ (n - 1) + 1 = n /\ n <= MaxDepth
    BY <1>0
  <2> HIDE DEF Is
  <2> QED BY <1>6, <2>1
<1>8. DOMAIN level = 1..MaxDepth
  BY <1>2
<1>9. d \in Declared <=> \E n \in 1..MaxDepth : d \in level[n]
  BY <1>1, <1>8 DEF Range
<1>10. Known(d.idx) => Len(d.idx) - 1 \in 1..MaxDepth /\ Len(d.idx) = (Len(d.idx) - 1) + 1
  <2> SUFFICES ASSUME Known(d.idx)
               PROVE  Len(d.idx) - 1 \in 1..MaxDepth /\ Len(d.idx) = (Len(d.idx) - 1) + 1
    OBVIOUS
  <2>1. Len(d.idx) - 1 \in 1..MaxDepth
    BY DepthBound
  <2>2. d.idx \in Seq(Nat)
    BY DEF Known
  <2> QED BY <2>1, <2>2
<1> HIDE DEF B
<1> QED BY <1>7, <1>9, <1>10

-----------------------------------------------------------------------------
(* The cache holds every declaration once the agenda is empty *)

IsCached(idx) ==
    \/ \E j \in DOMAIN cache.types : cache.types[j].idx_path = idx
    \/ \E j \in DOMAIN cache.services : cache.services[j].idx_path = idx

\* A cached declaration is known, and leads to itself by its name.
LEMMA CachedFacts ==
    ASSUME BuildInv, NEW idx, IsCached(idx)
    PROVE  /\ Known(idx) /\ NameOf(idx) \in DOMAIN cache.items
           /\ KindOf(NameOf(idx)) = Item(idx).kind
           /\ \A e : IsCached(e) /\ NameOf(e) = NameOf(idx) => e = idx
<1> DEFINE TypeAt(e, j) == j \in DOMAIN cache.types /\ cache.types[j].idx_path = e
           ServiceAt(e, j) == j \in DOMAIN cache.services /\ cache.services[j].idx_path = e
<1>1. ASSUME NEW e, NEW j, TypeAt(e, j)
      PROVE  /\ Known(e) /\ NameOf(e) \in DOMAIN cache.items
             /\ cache.items[NameOf(e)] = Entry(Item(e).kind, j) /\ Item(e).kind # "Service"
  BY <1>1 DEF BuildInv, CacheOK, TypeCached, TypeKinds
<1>2. ASSUME NEW e, NEW j, ServiceAt(e, j)
      PROVE  /\ Known(e) /\ NameOf(e) \in DOMAIN cache.items
             /\ cache.items[NameOf(e)] = Entry(Item(e).kind, j) /\ Item(e).kind = "Service"
  BY <1>2 DEF BuildInv, CacheOK, ServiceCached
<1>3. ASSUME NEW e, IsCached(e)
      PROVE  \E j : \/ TypeAt(e, j) /\ Item(e).kind # "Service"
                    \/ ServiceAt(e, j) /\ Item(e).kind = "Service"
  BY <1>1, <1>2, <1>3 DEF IsCached
<1>4. ASSUME NEW e, IsCached(e), NameOf(e) = NameOf(idx) PROVE e = idx
  <2>1. PICK j : \/ TypeAt(idx, j) /\ Item(idx).kind # "Service"
                 \/ ServiceAt(idx, j) /\ Item(idx).kind = "Service"
    BY <1>3
  <2>2. PICK k : \/ TypeAt(e, k) /\ Item(e).kind # "Service"
                 \/ ServiceAt(e, k) /\ Item(e).kind = "Service"
    BY <1>3, <1>4
  <2> HIDE DEF TypeAt, ServiceAt
  <2>3. Entry(Item(idx).kind, j) = Entry(Item(e).kind, k)
    BY <1>1, <1>2, <1>4, <2>1, <2>2
  <2>4. Item(idx).kind = Item(e).kind /\ j = k
    BY <2>3 DEF Entry
  <2> QED BY <2>1, <2>2, <2>4 DEF TypeAt, ServiceAt
<1>5. PICK j : \/ TypeAt(idx, j) /\ Item(idx).kind # "Service"
               \/ ServiceAt(idx, j) /\ Item(idx).kind = "Service"
  BY <1>3
<1> HIDE DEF TypeAt, ServiceAt
<1>6. /\ Known(idx) /\ NameOf(idx) \in DOMAIN cache.items
      /\ cache.items[NameOf(idx)] = Entry(Item(idx).kind, j)
  BY <1>1, <1>2, <1>5
<1>7. KindOf(NameOf(idx)) = Item(idx).kind
  BY <1>6 DEF KindOf, Entry
<1> QED BY <1>4, <1>6, <1>7

\* What the cache knows by its name is a cached declaration.
LEMMA NamedIsCached ==
    ASSUME BuildInv, NEW n \in DOMAIN cache.items
    PROVE  \E idx : IsCached(idx) /\ NameOf(idx) = n
<1>1. NameCached(n)
  BY DEF BuildInv, CacheOK
<1>2. CASE \E j \in DOMAIN cache.types : cache.types[j].full_name = n
  BY <1>2 DEF BuildInv, CacheOK, TypeCached, IsCached
<1>3. CASE \E j \in DOMAIN cache.services : cache.services[j].full_name = n
  BY <1>3 DEF BuildInv, CacheOK, ServiceCached, IsCached
<1> QED BY <1>1, <1>2, <1>3 DEF NameCached

\* Once the agenda is empty, every declaration of the files is in the cache.
LEMMA AllCached ==
    ASSUME BuildInv, agenda = <<>>
    PROVE  \A idx : Known(idx) => IsCached(idx)
<1>1. files \in Files
  BY DEF BuildInv, BuildTyped
<1>2. \A idx : Met(idx) => IsCached(idx)
  BY DEF Met, IsCached
<1> DEFINE B == {n \in Nat : \A idx : Known(idx) /\ Len(idx) = n + 2 => IsCached(idx)}
<1>3. 0 \in B
  <2> SUFFICES ASSUME NEW idx, Known(idx), Len(idx) = 2 PROVE IsCached(idx)
    OBVIOUS
  <2>1. idx \in Seq(Nat) /\ idx[1] \in DOMAIN files /\ idx[2] \in DOMAIN files[idx[1]].items
    BY DEF Known
  <2>2. idx = <<idx[1], idx[2]>>
    BY <2>1
  <2>3. Met(<<idx[1], idx[2]>>)
    BY <2>1 DEF BuildInv, AllMet
  <2> QED BY <1>2, <2>2, <2>3
<1>4. ASSUME NEW n \in Nat, n \in B PROVE n + 1 \in B
  <2> SUFFICES ASSUME NEW idx, Known(idx), Len(idx) = n + 3 PROVE IsCached(idx)
    OBVIOUS
  <2> DEFINE out == Front(idx)
             i == idx[Len(idx)]
  <2>1. Len(idx) > 2 /\ Len(idx) - 1 = n + 2
    OBVIOUS
  <2>2. /\ Known(out) /\ Len(out) = n + 2 /\ IsType(Item(out))
        /\ i \in DOMAIN Item(out).inner /\ idx = Append(out, i)
    BY <1>1, <2>1, KnownOuter
  <2> HIDE DEF out, i
  <2>3. IsCached(out)
    BY <1>4, <2>2
  <2>4. \A j \in DOMAIN cache.services : cache.services[j].idx_path # out
    BY <2>2 DEF BuildInv, CacheOK, ServiceCached, IsType, TypeKinds
  <2>5. PICK j \in DOMAIN cache.types : cache.types[j].idx_path = out
    BY <2>3, <2>4 DEF IsCached
  <2>6. Met(Append(out, i))
    BY <2>2, <2>5 DEF BuildInv, AllMet
  <2> QED BY <1>2, <2>2, <2>6
<1> HIDE DEF B
<1>5. Nat \subseteq B
  BY <1>3, <1>4, SetInduction
<1>6. ASSUME NEW idx, Known(idx) PROVE IsCached(idx)
  <2>1. idx \in Seq(Nat) /\ Len(idx) >= 2
    BY <1>6 DEF Known
  <2>2. Len(idx) - 2 \in Nat /\ Len(idx) = (Len(idx) - 2) + 2
    BY <2>1
  <2>3. PICK n \in Nat : Len(idx) = n + 2
    BY <2>2
  <2> QED BY <1>5, <1>6, <2>3 DEF B
<1> QED BY <1>6

\* A name is in the cache when something is declared under it, and resolving a
\* reference finds what the scopes of the declarations make of it.
LEMMA NamesDeclared ==
    ASSUME BuildInv, agenda = <<>>
    PROVE  /\ \A n : n \in DOMAIN cache.items <=> \E d \in Declared : d.full = n
           /\ \A d \in Declared : KindOf(d.full) = d.kind /\ d.full \in DOMAIN cache.items
           /\ \A d, e \in Declared : d.full = e.full => d = e
<1>1. files \in Files
  BY DEF BuildInv, BuildTyped
<1>2. ASSUME NEW d \in Declared
      PROVE  /\ IsCached(d.idx) /\ d.full = NameOf(d.idx) /\ d = DeclOf(d.idx)
             /\ KindOf(d.full) = d.kind /\ d.full \in DOMAIN cache.items
  <2>1. Known(d.idx) /\ d = DeclOf(d.idx)
    BY <1>1, DeclaredAre
  <2>2. d.full = NameOf(d.idx) /\ d.kind = Item(d.idx).kind
    BY <2>1 DEF DeclOf
  <2>3. IsCached(d.idx)
    BY <2>1, AllCached
  <2> QED BY <2>1, <2>2, <2>3, CachedFacts
<1>3. ASSUME NEW n \in DOMAIN cache.items PROVE \E d \in Declared : d.full = n
  <2>1. PICK idx : IsCached(idx) /\ NameOf(idx) = n
    BY NamedIsCached
  <2>2. Known(idx)
    BY <2>1, CachedFacts
  <2> DEFINE d == DeclOf(idx)
  <2>3. d.idx = idx /\ d.full = n
    BY <2>1 DEF DeclOf
  <2> HIDE DEF d
  <2>4. d \in Declared
    BY <1>1, <2>2, <2>3, DeclaredAre DEF d
  <2> QED BY <2>3, <2>4
<1>4. ASSUME NEW d \in Declared, NEW e \in Declared, d.full = e.full PROVE d = e
  <2>1. d.idx = e.idx
    BY <1>2, <1>4, CachedFacts
  <2> QED BY <1>2, <2>1
<1> QED BY <1>2, <1>3, <1>4

LEMMA DenotedAre ==
    ASSUME BuildInv, agenda = <<>>, NEW rel, NEW scope \in Names
    PROVE  /\ Denoted(rel, scope) = {d \in Declared : d.full \in Found(rel, scope)}
           /\ Found(rel, scope) \subseteq DOMAIN cache.items
<1> DEFINE At(n) == IF Head(rel) = "" THEN Tail(rel) ELSE SubSeq(scope, 1, n) \o rel
           H == {n \in 0..Len(scope) : At(n) \in DOMAIN cache.items}
           Hits == {n \in 0..Len(scope) : \E d \in Declared : d.full = At(n)}
           m == At(Max(H))
<1>1. H = Hits
  <2> HIDE DEF At
  <2> QED BY NamesDeclared
<1>2. Found(rel, scope) = IF H = {} THEN {} ELSE {m}
  BY DEF Found
<1>3. Denoted(rel, scope) = {d \in Declared : Hits # {} /\ d.full = At(Max(Hits))}
  BY DEF Denoted
<1> HIDE DEF At, m, H, Hits
<1>4. H # {} => m \in DOMAIN cache.items
  <2> SUFFICES ASSUME H # {} PROVE m \in DOMAIN cache.items
    OBVIOUS
  <2>1. Len(scope) \in Nat
    BY DEF Names
  <2>2. H \in SUBSET Nat /\ \A x \in H : x <= Len(scope)
    BY <2>1 DEF H
  <2>3. Max(H) \in H
    BY <2>1, <2>2, MaxIs
  <2> QED BY <2>3 DEF H, m
<1>5. Found(rel, scope) \subseteq DOMAIN cache.items
  BY <1>2, <1>4
<1>6. Denoted(rel, scope) = {d \in Declared : d.full \in Found(rel, scope)}
  <2>1. CASE H = {}
    BY <1>1, <1>2, <1>3, <2>1
  <2>2. CASE H # {}
    <3>1. Denoted(rel, scope) = {d \in Declared : d.full = m}
      BY <1>1, <1>3, <2>2 DEF m
    <3> QED BY <1>2, <2>2, <3>1
  <2> QED BY <2>1, <2>2
<1> QED BY <1>5, <1>6

-----------------------------------------------------------------------------
(* No declaration is visited twice *)

\* The agenda holds a declaration once, and none that is cached.
AgendaFresh == Distinct(agenda) /\ \A k \in DOMAIN agenda : ~IsCached(agenda[k].idx)

LEMMA FreshAtFirst == BuildInit => AgendaFresh
<1> SUFFICES ASSUME BuildInit PROVE AgendaFresh
  OBVIOUS
<1>1. /\ files \in Files /\ agenda = TopLevel(files)
      /\ cache.types = <<>> /\ cache.services = <<>>
  BY DEF BuildInit
<1>2. \A e : ~IsCached(e)
  BY <1>1 DEF IsCached
<1> DEFINE row(f) == [i \in DOMAIN files[f].items |-> [idx |-> <<f, i>>, path |-> files[f].name]]
           rows == [f \in DOMAIN files |-> row(f)]
<1>3. files \in Seq(FileDecl) /\ DOMAIN files = 1..Len(files) /\ Len(files) \in Nat
  BY <1>1, FilesAre
<1>4. ASSUME NEW f \in DOMAIN files PROVE row(f) \in Seq(Task)
  <2>1. files[f].items \in Seq(Types \cup ServiceDecl) /\ files[f].name \in Names /\ f \in Nat
    BY <1>1, <1>3, FilesAre
  <2>2. DOMAIN files[f].items = 1..Len(files[f].items) /\ Len(files[f].items) \in Nat
    BY <2>1
  <2>3. \A i \in 1..Len(files[f].items) : [idx |-> <<f, i>>, path |-> files[f].name] \in Task
    BY <2>1, <2>2 DEF Task
  <2> QED BY <2>2, <2>3
<1>5. rows \in Seq(Seq(Task))
  <2> HIDE DEF row
  <2> QED BY <1>3, <1>4
<1>6. \A f, g, i, j : <<f, i>> = <<g, j>> => f = g /\ i = j
  OBVIOUS
<1>7. ASSUME NEW f \in DOMAIN files PROVE Distinct(row(f))
  <2> SUFFICES ASSUME NEW i \in DOMAIN files[f].items, NEW j \in DOMAIN files[f].items,
                      row(f)[i] = row(f)[j]
               PROVE  i = j
    BY DEF Distinct
  <2>1. row(f)[i].idx = <<f, i>> /\ row(f)[j].idx = <<f, j>>
    OBVIOUS
  <2> HIDE DEF row
  <2> QED BY <1>6, <2>1
<1>8. ASSUME NEW f \in DOMAIN files, NEW g \in DOMAIN files, NEW v,
             Has(row(f), v), Has(row(g), v)
      PROVE  f = g
  <2>1. PICK i \in DOMAIN files[f].items : row(f)[i] = v
    BY <1>8 DEF Has
  <2>2. PICK j \in DOMAIN files[g].items : row(g)[j] = v
    BY <1>8 DEF Has
  <2>3. v.idx = <<f, i>>
    BY <2>1
  <2>4. v.idx = <<g, j>>
    BY <2>2
  <2> QED BY <1>6, <2>3, <2>4
<1> HIDE DEF row
<1>9. /\ \A f \in DOMAIN rows : Distinct(rows[f])
      /\ \A f, g \in DOMAIN rows : \A v : Has(rows[f], v) /\ Has(rows[g], v) => f = g
  BY <1>7, <1>8
<1>10. TopLevel(files) = FlattenSeq(rows)
  BY DEF TopLevel, row
<1> HIDE DEF rows
<1>11. Distinct(FlattenSeq(rows))
  BY ONLY <1>5, <1>9, FlattenDistinct
<1> QED BY <1>1, <1>2, <1>10, <1>11 DEF AgendaFresh

\* What visiting a declaration does to the agenda and the cache.
Visited ==
    /\ agenda # <<>> /\ FullPath \notin DOMAIN cache.items
    /\ files' = files /\ status' = status /\ built' = built
    /\ agenda' = InnerOf(Visit.idx, FullPath) \o Tail(agenda)
    /\ \A e : IsCached(e)' <=> IsCached(e) \/ e = Visit.idx

LEMMA FreshAfterVisit ==
    ASSUME BuildInv, AgendaFresh, Visited
    PROVE  AgendaFresh'
<1> DEFINE p == Visit.idx
           new == InnerOf(p, FullPath)
           rest == Tail(agenda)
<1>1. /\ files \in Files /\ Known(p) /\ FullPath = NameOf(p) /\ FullPath \in Names
      /\ p \notin DOMAIN cache.items_by_idx /\ p \in Seq(Nat) /\ Len(p) >= 2
  BY VisitKnown, NewPath DEF Known, Visited
<1>2. agenda \in Seq(Task) /\ agenda # <<>>
  BY DEF BuildInv, BuildTyped, Task, Visited
<1>3. /\ rest \in Seq(Task) /\ Distinct(rest) /\ ~Has(rest, Visit)
      /\ \A v : Has(agenda, v) <=> v = Visit \/ Has(rest, v)
  BY <1>2, TailHas, TailDistinct DEF AgendaFresh, Visit
<1>4. ASSUME NEW v, Has(agenda, v)
      PROVE  /\ Known(v.idx) /\ v.path = Scope(v.idx) /\ ~IsCached(v.idx) /\ v \in Task
             /\ Len(v.idx) > 2 => Front(v.idx) \in DOMAIN cache.items_by_idx
  <2>1. PICK k \in DOMAIN agenda : agenda[k] = v
    BY <1>4 DEF Has
  <2>2. agenda[k] \in Task
    BY <1>2
  <2> QED BY <2>1, <2>2 DEF BuildInv, AgendaOK, AgendaFresh
<1>5. ASSUME NEW v, Has(agenda, v), NEW w, Has(agenda, w), v.idx = w.idx PROVE v = w
  <2>1. v.path = w.path
    BY <1>4, <1>5
  <2>2. v \in Task /\ w \in Task
    BY <1>4, <1>5
  <2> QED BY <1>5, <2>1, <2>2 DEF Task
<1>6. Has(agenda, Visit)
  BY <1>3
<1>7. ASSUME NEW v, Has(rest, v) PROVE v.idx # p /\ ~IsCached(v.idx)
  <2>1. Has(agenda, v) /\ v # Visit
    BY <1>3, <1>7
  <2> QED BY <1>4, <1>5, <1>6, <2>1
<1> HIDE DEF rest
<1>8. ASSUME NEW k \in DOMAIN Item(p).inner
      PROVE  /\ Known(Append(p, k)) /\ Front(Append(p, k)) = p /\ Len(Append(p, k)) > 2
             /\ IsType(Item(Append(p, k))) /\ Append(p, k) # p /\ k \in Nat
             /\ Append(p, k)[Len(Append(p, k))] = k
  <2>1. /\ Known(Append(p, k)) /\ Front(Append(p, k)) = p
        /\ Len(Append(p, k)) = Len(p) + 1 /\ IsType(Item(Append(p, k))) /\ IsType(Item(p))
    BY <1>1, KnownInner
  <2>2. Len(p) \in Nat
    BY <1>1
  <2>3. k \in Nat
    BY <2>1 DEF IsType
  <2>4. Append(p, k)[Len(p) + 1] = k
    BY <1>1
  <2> HIDE DEF p
  <2> QED BY <1>1, <2>1, <2>2, <2>3, <2>4
<1>9. ASSUME NEW v
      PROVE  Has(new, v) <=> \E k \in DOMAIN Item(p).inner :
                                v = [idx |-> Append(p, k), path |-> FullPath]
  BY DEF Has, InnerOf
<1>10. new \in Seq(Task) /\ Distinct(new)
  <2>1. Item(p).inner \in Seq(Types)
    <3>1. CASE IsType(Item(p))
      BY <3>1 DEF IsType
    <3>2. CASE IsService(Item(p))
      BY <3>2 DEF IsService
    <3> QED BY <1>1, <3>1, <3>2, KnownItem
  <2>2. DOMAIN Item(p).inner = 1..Len(Item(p).inner) /\ Len(Item(p).inner) \in Nat
    BY <2>1
  <2>3. \A k \in DOMAIN Item(p).inner : [idx |-> Append(p, k), path |-> FullPath] \in Task
    <3>1. \A k \in DOMAIN Item(p).inner : Append(p, k) \in Seq(Nat)
      BY <1>8 DEF Known
    <3> HIDE DEF p
    <3> QED BY <1>1, <3>1 DEF Task
  <2>4. new \in Seq(Task)
    <3> HIDE DEF p
    <3> QED BY <2>2, <2>3 DEF InnerOf
  <2>5. ASSUME NEW j \in DOMAIN new, NEW k \in DOMAIN new, new[j] = new[k] PROVE j = k
    <3>1. j \in DOMAIN Item(p).inner /\ k \in DOMAIN Item(p).inner
      BY DEF InnerOf
    <3>2. new[j].idx = Append(p, j) /\ new[k].idx = Append(p, k)
      BY <3>1 DEF InnerOf
    <3>3. Append(p, j) = Append(p, k)
      BY <2>5, <3>2
    <3> HIDE DEF p, new
    <3> QED BY <1>8, <3>1, <3>3
  <2> HIDE DEF new
  <2> QED BY <2>4, <2>5 DEF Distinct
<1> HIDE DEF new
<1>11. ASSUME NEW k \in DOMAIN Item(p).inner PROVE ~IsCached(Append(p, k))
  <2> DEFINE b == Append(p, k)
  <2>1. Known(b) /\ Front(b) = p /\ Len(b) > 2 /\ Item(b).kind # "Service"
    BY <1>8 DEF IsType, TypeKinds
  <2> HIDE DEF b
  <2>2. \A j \in DOMAIN cache.types : cache.types[j].idx_path # b
    BY <1>1, <2>1 DEF BuildInv, CacheOK, TypeCached
  <2>3. \A j \in DOMAIN cache.services : cache.services[j].idx_path # b
    BY <2>1 DEF BuildInv, CacheOK, ServiceCached
  <2> QED BY <2>2, <2>3 DEF IsCached, b
<1>12. ASSUME NEW v, Has(new, v), Has(rest, v) PROVE FALSE
  <2>1. PICK k \in DOMAIN Item(p).inner : v = [idx |-> Append(p, k), path |-> FullPath]
    BY <1>9, <1>12
  <2>2. v.idx = Append(p, k)
    BY <2>1
  <2>3. Has(agenda, v)
    BY <1>3, <1>12
  <2>4. Len(v.idx) > 2 /\ Front(v.idx) = p
    BY <1>8, <2>2
  <2>5. Front(v.idx) \in DOMAIN cache.items_by_idx
    BY <1>4, <2>3, <2>4
  <2> QED BY <1>1, <2>4, <2>5
<1>13. Distinct(agenda')
  <2>1. Distinct(new \o rest)
    BY <1>3, <1>10, <1>12, ConcatDistinct
  <2> QED BY <2>1 DEF Visited, new, rest
<1>14. \A v : Has(agenda', v) <=> Has(new, v) \/ Has(rest, v)
  <2>1. \A v : Has(new \o rest, v) <=> Has(new, v) \/ Has(rest, v)
    BY <1>3, <1>10, ConcatHas
  <2> QED BY <2>1 DEF Visited, new, rest
<1>15. ASSUME NEW v, Has(agenda', v) PROVE ~IsCached(v.idx) /\ v.idx # p
  <2>1. CASE Has(rest, v)
    BY <1>7, <2>1
  <2>2. CASE Has(new, v)
    <3>1. PICK k \in DOMAIN Item(p).inner : v = [idx |-> Append(p, k), path |-> FullPath]
      BY <1>9, <2>2
    <3>2. v.idx = Append(p, k)
      BY <3>1
    <3> QED BY <1>8, <1>11, <3>2
  <2> QED BY <1>14, <1>15, <2>1, <2>2
<1>16. ASSUME NEW e, \E k \in DOMAIN agenda' : agenda'[k].idx = e PROVE ~IsCached(e)'
  <2>1. PICK v : Has(agenda', v) /\ v.idx = e
    BY <1>16 DEF Has
  <2>2. ~IsCached(e) /\ e # p
    BY <1>15, <2>1
  <2> QED BY <2>2 DEF Visited
<1>17. (\A k \in DOMAIN agenda : ~IsCached(agenda[k].idx))'
  BY <1>16 DEF IsCached
<1> QED BY <1>13, <1>17 DEF AgendaFresh

LEMMA EnterVisits ==
    ASSUME BuildInv, NEW kind \in TypeKinds, NEW i, EnterType(kind, i),
           FullPath \notin DOMAIN cache.items
    PROVE  Visited
<1> DEFINE d == CacheData(kind, i)
<1>1. cache \in CacheType /\ cache.types \in Seq(CacheDatum)
  BY DEF BuildInv, BuildTyped, CacheType
<1>2. /\ cache'.types = Append(cache.types, d) /\ cache'.services = cache.services
      /\ d.idx_path = Visit.idx
  BY <1>1 DEF CacheType, EnterType, CacheData
<1> HIDE DEF d
<1>3. /\ DOMAIN cache'.types = DOMAIN cache.types \cup {Len(cache.types) + 1}
      /\ cache'.types[Len(cache.types) + 1] = d
      /\ \A j \in DOMAIN cache.types : cache'.types[j] = cache.types[j]
  <2>1. Visit.idx \in Seq(Nat) /\ FullPath \in Names /\ Known(Visit.idx)
    BY VisitKnown DEF Known, EnterType
  <2>2. i \in Nat /\ kind \in ItemKinds
    BY <1>1 DEF ItemKinds, EnterType
  <2>3. d \in CacheDatum
    BY <2>1, <2>2 DEF d, CacheData, CacheDatum
  <2> QED BY <1>1, <1>2, <2>3, AppendHas
<1>4. ASSUME NEW e PROVE IsCached(e)' <=> IsCached(e) \/ e = Visit.idx
  BY <1>2, <1>3 DEF IsCached
<1> QED BY <1>4 DEF Visited, EnterType

LEMMA EnterServiceVisits ==
    ASSUME BuildInv, NEW i, EnterService(i), FullPath \notin DOMAIN cache.items
    PROVE  Visited
<1> DEFINE d == CacheData("Service", i)
<1>1. cache \in CacheType /\ cache.services \in Seq(CacheDatum)
  BY DEF BuildInv, BuildTyped, CacheType
<1>2. /\ cache'.services = Append(cache.services, d) /\ cache'.types = cache.types
      /\ d.idx_path = Visit.idx
  BY <1>1 DEF CacheType, EnterService, CacheData
<1> HIDE DEF d
<1>3. /\ DOMAIN cache'.services = DOMAIN cache.services \cup {Len(cache.services) + 1}
      /\ cache'.services[Len(cache.services) + 1] = d
      /\ \A j \in DOMAIN cache.services : cache'.services[j] = cache.services[j]
  <2>1. Visit.idx \in Seq(Nat) /\ FullPath \in Names /\ Known(Visit.idx)
    BY VisitKnown DEF Known, EnterService
  <2>2. i \in Nat /\ "Service" \in ItemKinds
    BY <1>1 DEF ItemKinds, EnterService
  <2>3. d \in CacheDatum
    BY <2>1, <2>2 DEF d, CacheData, CacheDatum
  <2> QED BY <1>1, <1>2, <2>3, AppendHas
<1>4. ASSUME NEW e PROVE IsCached(e)' <=> IsCached(e) \/ e = Visit.idx
  BY <1>2, <1>3 DEF IsCached
<1> QED BY <1>4 DEF Visited, EnterService

LEMMA PopulateVisits ==
    ASSUME BuildInv, PopulateMessage \/ PopulateEnum \/ PopulateService
    PROVE  Visited
<1>1. cache \in CacheType
  BY DEF BuildInv, BuildTyped
<1>2. CASE PopulateMessage
  <2>1. EnterType("Message", Len(cache.types) + 1)
    BY <1>2 DEF PopulateMessage, EnterType
  <2> QED BY <1>2, <2>1, EnterVisits DEF PopulateMessage, TypeKinds
<1>3. CASE PopulateEnum
  <2>1. agenda' = InnerOf(Visit.idx, FullPath) \o Tail(agenda)
    BY <1>3, NoInner DEF PopulateEnum
  <2>2. EnterType("Enum", Len(cache.types) + 1)
    BY <1>1, <1>3, <2>1 DEF PopulateEnum, EnterType, CacheType
  <2> QED BY <1>3, <2>2, EnterVisits DEF PopulateEnum, TypeKinds
<1>4. CASE PopulateService
  <2>1. agenda' = InnerOf(Visit.idx, FullPath) \o Tail(agenda)
    BY <1>4, NoInner DEF PopulateService
  <2>2. EnterService(Len(cache.services) + 1)
    BY <1>4, <2>1 DEF PopulateService, EnterService
  <2> QED BY <1>4, <2>2, EnterServiceVisits DEF PopulateService
<1> QED BY <1>2, <1>3, <1>4

-----------------------------------------------------------------------------
(* The reasons build has *)

\* A reference of the declaration denotes nothing, an argument no message.
LostAt(idx) ==
    \/ \E f \in FieldRefs(DeclOf(idx)) : Found(f.ref, NameOf(idx)) = {}
    \/ \E a \in ArgRefs(DeclOf(idx)) : Found(a, NameOf(idx)) = {}
MisusedAt(idx) ==
    \E a \in ArgRefs(DeclOf(idx)) : \E n \in Found(a, NameOf(idx)) : KindOf(n) # "Message"

\* Each failure has its reason, and what is built had none.
Reasons ==
    /\ status = "DuplicateType" =>
          \E d, e : Known(d) /\ Known(e) /\ d # e /\ NameOf(d) = NameOf(e)
    /\ status = "TypeNotFound" => \E d : Known(d) /\ LostAt(d)
    /\ status = "InvalidTypeKind" => \E d : Known(d) /\ MisusedAt(d)
Resolved ==
    /\ \A i \in DOMAIN built.types : \A d : d = cache.types[i].idx_path => ~LostAt(d)
    /\ \A i \in DOMAIN built.services : \A d : d = cache.services[i].idx_path =>
          ~LostAt(d) /\ ~MisusedAt(d)

VInv == AgendaFresh /\ Reasons /\ Resolved

LEMMA SameReasons ==
    ASSUME files' = files, cache' = cache
    PROVE  \A d : /\ LostAt(d)' <=> LostAt(d)
                  /\ MisusedAt(d)' <=> MisusedAt(d)
                  /\ IsCached(d)' <=> IsCached(d)
                  /\ Known(d)' <=> Known(d)
                  /\ NameOf(d)' = NameOf(d)
<1> SUFFICES ASSUME NEW d
             PROVE  /\ LostAt(d)' <=> LostAt(d)
                    /\ MisusedAt(d)' <=> MisusedAt(d)
                    /\ IsCached(d)' <=> IsCached(d)
                    /\ Known(d)' <=> Known(d)
                    /\ NameOf(d)' = NameOf(d)
  OBVIOUS
<1>1. Item(d)' = Item(d) /\ NameOf(d)' = NameOf(d) /\ Known(d)' = Known(d)
  BY SameFiles
<1>2. FieldRefs(DeclOf(d))' = FieldRefs(DeclOf(d)) /\ ArgRefs(DeclOf(d))' = ArgRefs(DeclOf(d))
  BY <1>1 DEF FieldRefs, ArgRefs, DeclOf
<1>3. \A rel, scope : Found(rel, scope)' = Found(rel, scope)
  BY DEF Found
<1>4. \A n : KindOf(n)' = KindOf(n)
  BY DEF KindOf
<1>5. IsCached(d)' <=> IsCached(d)
  BY DEF IsCached
<1>6. LostAt(d)' <=> LostAt(d)
  BY <1>1, <1>2, <1>3 DEF LostAt
<1>7. MisusedAt(d)' <=> MisusedAt(d)
  BY <1>1, <1>2, <1>3, <1>4 DEF MisusedAt
<1> QED BY <1>1, <1>5, <1>6, <1>7

\* The verdict on a type names a reference that denotes nothing if there is one.
LEMMA TypeVerdictWhy ==
    ASSUME BuildInv, NEW i, Building(i)
    PROVE  /\ TypeVerdict(Data) = "types" => ~LostAt(Data.idx_path)
           /\ TypeVerdict(Data) = "TypeNotFound" => LostAt(Data.idx_path)
<1> DEFINE p == Data.idx_path
           item == Item(p)
           scope == Data.full_name
           fs == FieldsInOrder(item)
           bad == {k \in DOMAIN fs : FieldVerdictIn(fs[k][1], scope) # "types"}
<1>1. /\ IsType(item) /\ scope = NameOf(p) /\ item.kind \in TypeKinds
      /\ DeclOf(p).kind = item.kind /\ DeclOf(p).idx = p
  BY DataKnown DEF DeclOf, IsType
<1> HIDE DEF item, p, scope
<1>2. ArgRefs(DeclOf(p)) = {}
  BY <1>1 DEF ArgRefs, TypeKinds
<1>3. CASE item.kind # "Message"
  <2>1. FieldRefs(DeclOf(p)) = {}
    BY <1>1, <1>3 DEF FieldRefs
  <2>2. ~LostAt(p)
    BY <1>2, <2>1 DEF LostAt
  <2>3. TypeVerdict(Data) # "TypeNotFound"
    <3> DEFINE ks == {k \in DOMAIN <<>> : FieldVerdictIn(<<>>[k][1], Data.full_name) # "types"}
    <3>1. ks = {}
      OBVIOUS
    <3>2. TypeVerdict(Data) \in {"panic", "types"}
      BY <1>3, <3>1 DEF TypeVerdict, item, p
    <3> QED BY <3>2
  <2> QED BY <2>2, <2>3 DEF p
<1>4. CASE item.kind = "Message"
  <2>1. FieldRefs(DeclOf(p)) = {f[1] : f \in {g \in Range(fs) : g[1].type = "Unknown"}}
    BY <1>1, <1>4 DEF FieldRefs, item
  <2>2. fs \in Seq(FieldIn(item))
    BY <1>1, <1>4, FieldsTyped DEF IsType
  <2>3. ASSUME TypeVerdict(Data) = "types" PROVE ~LostAt(p)
    <3>1. \A k \in DOMAIN fs : FieldVerdictIn(fs[k][1], scope) = "types"
      BY <1>4, <2>3, TypeVerdictIs DEF item, p, scope
    <3> HIDE DEF fs
    <3>2. ASSUME NEW f \in FieldRefs(DeclOf(p)) PROVE Found(f.ref, scope) # {}
      <4>1. PICK k \in DOMAIN fs : f = fs[k][1] /\ f.type = "Unknown"
        BY <2>1 DEF Range
      <4>2. FieldVerdictIn(f, scope) = "types"
        BY <3>1, <4>1
      <4> QED BY <4>1, <4>2 DEF FieldVerdictIn
    <3> QED BY <1>1, <1>2, <3>2 DEF LostAt
  <2>4. ASSUME TypeVerdict(Data) = "TypeNotFound" PROVE LostAt(p)
    <3>1. bad # {} /\ FieldVerdictIn(fs[Min(bad)][1], scope) = "TypeNotFound"
      BY <1>4, <2>4 DEF TypeVerdict, item, p, scope
    <3>2. Min(bad) \in DOMAIN fs
      <4> HIDE DEF fs
      <4>1. bad \in SUBSET Nat
        BY <2>2
      <4>2. Min(bad) \in bad
        <5> HIDE DEF bad
        <5> QED BY <3>1, <4>1, MinIs
      <4> QED BY <4>2
    <3> DEFINE f == fs[Min(bad)][1]
    <3>3. fs[Min(bad)] \in Range(fs)
      <4> HIDE DEF fs, bad
      <4> QED BY <3>2 DEF Range
    <3>4. f.type = "Unknown" /\ Found(f.ref, scope) = {}
      <4>1. FieldVerdictIn(f, scope) = "TypeNotFound"
        BY <3>1
      <4> HIDE DEF f
      <4> QED BY <4>1 DEF FieldVerdictIn
    <3> HIDE DEF fs, bad
    <3>5. f \in FieldRefs(DeclOf(p))
      BY <2>1, <3>3, <3>4
    <3> HIDE DEF f
    <3> QED BY <1>1, <3>4, <3>5 DEF LostAt
  <2> QED BY <2>3, <2>4 DEF p
<1> QED BY <1>3, <1>4

LEMMA ServiceVerdictWhy ==
    ASSUME BuildInv, NEW i, Serving(i)
    PROVE  LET p == ServiceData.idx_path
           IN  /\ ServiceVerdict(ServiceData) = "services" => ~LostAt(p) /\ ~MisusedAt(p)
               /\ ServiceVerdict(ServiceData) = "TypeNotFound" => LostAt(p)
               /\ ServiceVerdict(ServiceData) = "InvalidTypeKind" => MisusedAt(p)
<1> DEFINE p == ServiceData.idx_path
           item == Item(p)
           scope == ServiceData.full_name
           args == ArgsOf(item)
           bad == {k \in DOMAIN args : ArgVerdict(args[k], scope) # "services"}
<1>1. /\ item.kind = "Service" /\ item.rpcs \in Seq(RpcDecl) /\ scope = NameOf(p)
      /\ DeclOf(p).kind = item.kind /\ DeclOf(p).idx = p
      /\ Parents(p) = {[of |-> "Package", ref |-> p[1]]}
  BY ServiceKnown DEF IsService, ServiceCached, DeclOf
<1>2. \E q \in Parents(p) : q.of = "Package"
  <2>1. PICK q : q = [of |-> "Package", ref |-> p[1]]
    OBVIOUS
  <2>2. q.of = "Package" /\ Parents(p) = {q}
    BY <1>1, <2>1
  <2> QED BY <2>2
<1>3. ServiceVerdict(ServiceData) =
         IF bad # {} THEN ArgVerdict(args[Min(bad)], scope) ELSE "services"
  BY <1>1, <1>2 DEF ServiceVerdict
<1> HIDE DEF item, p, scope
<1>4. args \in Seq(Names)
  BY <1>1, ArgsAre
<1>5. FieldRefs(DeclOf(p)) = {} /\ ArgRefs(DeclOf(p)) = Range(args)
  BY <1>1 DEF FieldRefs, ArgRefs, item
<1> HIDE DEF args
<1>6. ASSUME bad # {} PROVE Min(bad) \in bad
  <2>1. bad \in SUBSET Nat
    BY <1>4
  <2> HIDE DEF bad
  <2> QED BY <1>6, <2>1, MinIs
<1>7. ASSUME ServiceVerdict(ServiceData) = "services" PROVE ~LostAt(p) /\ ~MisusedAt(p)
  <2>1. bad = {}
    BY <1>3, <1>6, <1>7
  <2>2. ASSUME NEW a \in Range(args) PROVE ArgVerdict(a, scope) = "services"
    BY <2>1 DEF Range
  <2>3. ASSUME NEW a \in Range(args)
        PROVE  Found(a, scope) # {} /\ \A n \in Found(a, scope) : KindOf(n) = "Message"
    BY <2>2 DEF ArgVerdict
  <2> QED BY <1>1, <1>5, <2>3 DEF LostAt, MisusedAt
<1>8. ASSUME ServiceVerdict(ServiceData) # "services"
      PROVE  \E a \in Range(args) : ServiceVerdict(ServiceData) = ArgVerdict(a, scope)
  <2>1. bad # {} /\ ServiceVerdict(ServiceData) = ArgVerdict(args[Min(bad)], scope)
    BY <1>3, <1>8
  <2>2. Min(bad) \in DOMAIN args
    BY <1>6, <2>1
  <2> HIDE DEF bad
  <2> QED BY <2>1, <2>2 DEF Range
<1>9. ASSUME ServiceVerdict(ServiceData) = "TypeNotFound" PROVE LostAt(p)
  <2>1. PICK a \in Range(args) : ArgVerdict(a, scope) = "TypeNotFound"
    BY <1>8, <1>9
  <2>2. Found(a, scope) = {}
    BY <2>1 DEF ArgVerdict
  <2> QED BY <1>1, <1>5, <2>2 DEF LostAt
<1>10. ASSUME ServiceVerdict(ServiceData) = "InvalidTypeKind" PROVE MisusedAt(p)
  <2>1. PICK a \in Range(args) : ArgVerdict(a, scope) = "InvalidTypeKind"
    BY <1>8, <1>10
  <2>2. \E n \in Found(a, scope) : KindOf(n) # "Message"
    BY <2>1 DEF ArgVerdict
  <2> QED BY <1>1, <1>5, <2>2 DEF MisusedAt
<1> QED BY <1>7, <1>9, <1>10 DEF p

LEMMA VInvAtFirst == BuildInit => VInv
<1> SUFFICES ASSUME BuildInit PROVE VInv
  OBVIOUS
<1>1. status = "populate" /\ DOMAIN built.types = {} /\ DOMAIN built.services = {}
  BY DEF BuildInit
<1> QED BY <1>1, FreshAtFirst DEF VInv, Reasons, Resolved

\* A step that leaves files, agenda, cache and what is built alone, and does not fail.
LEMMA QuietKeeps ==
    ASSUME VInv, UNCHANGED <<files, agenda, cache, built>>,
           \/ status' = status
           \/ status' \notin {"DuplicateType", "TypeNotFound", "InvalidTypeKind"}
    PROVE  VInv'
<1>1. AgendaFresh'
  <2>1. \A e : IsCached(e)' <=> IsCached(e)
    BY SameReasons
  <2>2. \A e : (\E k \in DOMAIN agenda : agenda[k].idx = e) => ~IsCached(e)
    BY DEF VInv, AgendaFresh
  <2>3. (\A k \in DOMAIN agenda : ~IsCached(agenda[k].idx))'
    BY <2>1, <2>2 DEF IsCached
  <2> QED BY <2>3 DEF VInv, AgendaFresh, Distinct
<1>2. Reasons'
  BY SameReasons DEF VInv, Reasons
<1>3. Resolved'
  BY SameReasons DEF VInv, Resolved
<1> QED BY <1>1, <1>2, <1>3 DEF VInv

LEMMA PopulateReasons ==
    ASSUME BuildInv, VInv, status = "populate",
           PopulateMessage \/ PopulateEnum \/ PopulateService
    PROVE  VInv'
<1>1. Visited
  BY PopulateVisits
<1>2. AgendaFresh'
  BY <1>1, FreshAfterVisit DEF VInv
<1>3. Reasons'
  BY <1>1 DEF Visited, Reasons
<1>4. DOMAIN built'.types = {} /\ DOMAIN built'.services = {}
  BY <1>1 DEF Visited, BuildInv, Progress, Populating
<1>5. Resolved'
  BY <1>4 DEF Resolved
<1> QED BY <1>2, <1>3, <1>5 DEF VInv

LEMMA DuplicateReason ==
    ASSUME BuildInv, VInv, Duplicate
    PROVE  VInv'
<1>1. /\ UNCHANGED <<files, agenda, cache, built>> /\ status' = "DuplicateType"
      /\ agenda # <<>> /\ FullPath \in DOMAIN cache.items
  BY DEF Duplicate
<1>2. PICK e : IsCached(e) /\ NameOf(e) = FullPath
  BY <1>1, NamedIsCached
<1>3. Known(e)
  BY <1>2, CachedFacts
<1>4. PICK d : d = Visit.idx
  OBVIOUS
<1>5. Known(d) /\ NameOf(d) = NameOf(e)
  BY <1>1, <1>2, <1>4, VisitKnown
<1>6. d # e
  <2>1. agenda \in Seq(Task)
    BY DEF BuildInv, BuildTyped, Task
  <2>2. 1 \in DOMAIN agenda /\ Visit = agenda[1]
    BY <1>1, <2>1 DEF Visit
  <2>3. ~IsCached(Visit.idx)
    BY <2>2 DEF VInv, AgendaFresh
  <2> QED BY <1>2, <1>4, <2>3
<1>7. Known(d)' /\ Known(e)' /\ NameOf(d)' = NameOf(e)'
  BY <1>1, <1>3, <1>5, SameFiles
<1>8. Reasons'
  BY <1>1, <1>6, <1>7 DEF Reasons
<1>9. AgendaFresh'
  <2>1. \A f : IsCached(f)' <=> IsCached(f)
    BY <1>1, SameReasons
  <2>2. \A f : (\E k \in DOMAIN agenda : agenda[k].idx = f) => ~IsCached(f)
    BY DEF VInv, AgendaFresh
  <2>3. (\A k \in DOMAIN agenda : ~IsCached(agenda[k].idx))'
    BY <1>1, <2>1, <2>2 DEF IsCached
  <2> QED BY <1>1, <2>3 DEF VInv, AgendaFresh, Distinct
<1>10. Resolved'
  BY <1>1, SameReasons DEF VInv, Resolved
<1> QED BY <1>8, <1>9, <1>10 DEF VInv

LEMMA BuildTypeReasons ==
    ASSUME BuildInv, VInv, BuildType
    PROVE  VInv'
<1> DEFINE i == Len(built.types) + 1
<1>1. /\ Building(i) /\ UNCHANGED <<files, agenda, cache>>
      /\ status' = TypeVerdict(Data) /\ Data = cache.types[i]
  BY DEF BuildType, Building, Data
<1>2. PICK p : p = Data.idx_path
  OBVIOUS
<1>3. /\ status' \in {"types", "TypeNotFound", "unreachable"} /\ Known(p)
      /\ status' = "types" => ~LostAt(p)
      /\ status' = "TypeNotFound" => LostAt(p)
  BY <1>1, <1>2, DataKnown, TypeVerdictIs, TypeVerdictWhy
<1>4. Reasons'
  BY <1>1, <1>3, SameReasons DEF Reasons
<1>5. agenda = <<>> /\ agenda' = <<>>
  BY <1>1 DEF BuildInv, Progress, Populating, Building
<1>6. AgendaFresh'
  BY <1>5 DEF AgendaFresh, Distinct
<1>7. Resolved'
  <2>1. CASE status' # "types"
    <3>1. built' = built
      BY <2>1 DEF BuildType
    <3> QED BY <1>1, <3>1, SameReasons DEF VInv, Resolved
  <2>2. CASE status' = "types"
    <3> DEFINE t == IF Item(Data.idx_path).kind = "Message" THEN BuiltMessage(Data) ELSE BuiltEnum(Data)
    <3>1. built' = [built EXCEPT !.types = Append(built.types, t)]
      BY <2>2 DEF BuildType
    <3> HIDE DEF t
    <3>2. built \in [types : Seq(TypeInfo), services : Seq(ServiceInfo)]
      BY DEF BuildInv, BuildTyped
    <3>3. /\ built'.services = built.services
          /\ built'.types = Append(built.types, t)
      BY <3>1, <3>2
    <3>4. \A j \in DOMAIN built'.types : j \in DOMAIN built.types \/ j = i
      BY <3>2, <3>3
    <3>5. ASSUME NEW j \in DOMAIN built'.types, NEW d, d = cache.types[j].idx_path
          PROVE  ~LostAt(d)
      BY <1>1, <1>2, <1>3, <2>2, <3>4, <3>5 DEF VInv, Resolved
    <3>6. (\A j \in DOMAIN built.types : \A d : d = cache.types[j].idx_path => ~LostAt(d))'
      BY <1>1, <3>5, SameReasons
    <3>7. (\A j \in DOMAIN built.services : \A d : d = cache.services[j].idx_path =>
             ~LostAt(d) /\ ~MisusedAt(d))'
      BY <1>1, <3>3, SameReasons DEF VInv, Resolved
    <3> QED BY <3>6, <3>7 DEF Resolved
  <2> QED BY <2>1, <2>2
<1> QED BY <1>4, <1>6, <1>7 DEF VInv

LEMMA BuildServiceReasons ==
    ASSUME BuildInv, VInv, BuildService
    PROVE  VInv'
<1> DEFINE i == Len(built.services) + 1
<1>1. /\ Serving(i) /\ UNCHANGED <<files, agenda, cache>>
      /\ status' = ServiceVerdict(ServiceData) /\ ServiceData = cache.services[i]
  BY DEF BuildService, Serving, ServiceData
<1>2. PICK p : p = ServiceData.idx_path
  OBVIOUS
<1>3. /\ status' \in {"services", "TypeNotFound", "InvalidTypeKind"} /\ Known(p)
      /\ status' = "services" => ~LostAt(p) /\ ~MisusedAt(p)
      /\ status' = "TypeNotFound" => LostAt(p)
      /\ status' = "InvalidTypeKind" => MisusedAt(p)
  BY <1>1, <1>2, ServiceKnown, ServiceVerdictIs, ServiceVerdictWhy
<1>4. Reasons'
  BY <1>1, <1>3, SameReasons DEF Reasons
<1>5. agenda = <<>> /\ agenda' = <<>>
  BY <1>1 DEF BuildInv, Progress, Populating, Serving
<1>6. AgendaFresh'
  BY <1>5 DEF AgendaFresh, Distinct
<1>7. Resolved'
  <2>1. CASE status' # "services"
    <3>1. built' = built
      BY <2>1 DEF BuildService
    <3> QED BY <1>1, <3>1, SameReasons DEF VInv, Resolved
  <2>2. CASE status' = "services"
    <3> DEFINE s == BuiltService(ServiceData)
    <3>1. built' = [built EXCEPT !.services = Append(built.services, s)]
      BY <2>2 DEF BuildService
    <3> HIDE DEF s
    <3>2. built \in [types : Seq(TypeInfo), services : Seq(ServiceInfo)]
      BY DEF BuildInv, BuildTyped
    <3>3. /\ built'.types = built.types
          /\ built'.services = Append(built.services, s)
      BY <3>1, <3>2
    <3>4. \A j \in DOMAIN built'.services : j \in DOMAIN built.services \/ j = i
      BY <3>2, <3>3
    <3>5. ASSUME NEW j \in DOMAIN built'.services, NEW d, d = cache.services[j].idx_path
          PROVE  ~LostAt(d) /\ ~MisusedAt(d)
      BY <1>1, <1>2, <1>3, <2>2, <3>4, <3>5 DEF VInv, Resolved
    <3>6. (\A j \in DOMAIN built.services : \A d : d = cache.services[j].idx_path =>
             ~LostAt(d) /\ ~MisusedAt(d))'
      BY <1>1, <3>5, SameReasons
    <3>7. (\A j \in DOMAIN built.types : \A d : d = cache.types[j].idx_path => ~LostAt(d))'
      BY <1>1, <3>3, SameReasons DEF VInv, Resolved
    <3> QED BY <3>6, <3>7 DEF Resolved
  <2> QED BY <2>1, <2>2
<1> QED BY <1>4, <1>6, <1>7 DEF VInv

LEMMA VInvKeeps ==
    ASSUME BuildInv, VInv, BuildNext
    PROVE  VInv'
<1>1. CASE PopulateMessage \/ PopulateEnum \/ PopulateService
  <2>1. status = "populate"
    BY <1>1 DEF PopulateMessage, PopulateEnum, PopulateService
  <2> QED BY <1>1, <2>1, PopulateReasons
<1>2. CASE Populated \/ TypesBuilt \/ Finish
  <2>1. /\ UNCHANGED <<files, agenda, cache, built>>
        /\ status' \in {"types", "services", "ready"}
    BY <1>2 DEF Populated, TypesBuilt, Finish
  <2> QED BY <2>1, QuietKeeps
<1> QED BY <1>1, <1>2, DuplicateReason, BuildTypeReasons, BuildServiceReasons DEF BuildNext

\* The invariant behind the verdicts: no declaration is visited twice, each failure
\* has its reason, and the references of what is built all denote something.
THEOREM VInvAlways == Spec => []VInv
<1>1. Init => VInv
  BY VInvAtFirst DEF Init
<1>2. BuildInv /\ VInv /\ [Next]_vars => VInv'
  <2> SUFFICES ASSUME BuildInv, VInv, [Next]_vars PROVE VInv'
    OBVIOUS
  <2>1. CASE Parse
    BY <2>1, VInvKeeps DEF Parse
  <2>2. CASE Change \/ UNCHANGED vars
    <3>1. UNCHANGED <<files, agenda, cache, built>> /\ status' = status
      BY <2>2 DEF Change, vars, buildVars
    <3> QED BY <3>1, QuietKeeps
  <2> QED BY <2>1, <2>2 DEF Next
<1> QED BY <1>1, <1>2, BuildInvAlways, PTL DEF Spec

-----------------------------------------------------------------------------
(* The verdicts *)

\* The reasons of the cache are those of the declarations.
LEMMA LostIs ==
    ASSUME BuildInv, agenda = <<>>, NEW idx, Known(idx)
    PROVE  LET d == DeclOf(idx)
           IN  /\ d \in Declared /\ d.idx = idx /\ d.full = NameOf(idx)
               /\ LostAt(idx) <=> \/ \E f \in FieldRefs(d) : Denoted(f.ref, d.full) = {}
                                  \/ \E a \in ArgRefs(d) : Denoted(a, d.full) = {}
               /\ MisusedAt(idx) <=> \E a \in ArgRefs(d) :
                                        \E e \in Denoted(a, d.full) : e.kind # "Message"
<1> DEFINE d == DeclOf(idx)
<1>1. d.idx = idx /\ d.full = NameOf(idx)
  BY DEF DeclOf
<1>2. files \in Files
  BY DEF BuildInv, BuildTyped
<1>3. d.full \in Names
  BY <1>1, <1>2, KnownNames
<1>4. d \in Declared
  <2> HIDE DEF d
  <2> QED BY <1>1, <1>2, DeclaredAre DEF d
<1> HIDE DEF d
<1>5. ASSUME NEW rel
      PROVE  /\ Found(rel, d.full) = {} <=> Denoted(rel, d.full) = {}
             /\ (\E n \in Found(rel, d.full) : KindOf(n) # "Message")
                   <=> \E e \in Denoted(rel, d.full) : e.kind # "Message"
  <2>1. /\ Denoted(rel, d.full) = {e \in Declared : e.full \in Found(rel, d.full)}
        /\ Found(rel, d.full) \subseteq DOMAIN cache.items
    BY <1>3, DenotedAre
  <2>2. \A n \in Found(rel, d.full) : \E e \in Denoted(rel, d.full) : e.full = n
    BY <2>1, NamesDeclared
  <2>3. \A e \in Denoted(rel, d.full) : e.full \in Found(rel, d.full) /\ KindOf(e.full) = e.kind
    BY <2>1, NamesDeclared
  <2> QED BY <2>2, <2>3
<1>6. LostAt(idx) <=> \/ \E f \in FieldRefs(d) : Denoted(f.ref, d.full) = {}
                      \/ \E a \in ArgRefs(d) : Denoted(a, d.full) = {}
  BY <1>1, <1>5 DEF LostAt, d
<1>7. MisusedAt(idx) <=> \E a \in ArgRefs(d) :
                            \E e \in Denoted(a, d.full) : e.kind # "Message"
  BY <1>1, <1>5 DEF MisusedAt, d
<1> QED BY <1>1, <1>4, <1>6, <1>7 DEF d

\* What both invariants say of build is what the files say of it.
LEMMA VerdictsFollow == BuildInv /\ VInv => VerdictJustified
<1> SUFFICES ASSUME BuildInv, VInv PROVE VerdictJustified
  OBVIOUS
<1> DEFINE Doubled == \E d, e \in Declared : d.idx # e.idx /\ d.full = e.full
           LostBy(d) == \/ \E f \in FieldRefs(d) : Denoted(f.ref, d.full) = {}
                        \/ \E a \in ArgRefs(d) : Denoted(a, d.full) = {}
           MisusedBy(d) == \E a \in ArgRefs(d) :
                              \E e \in Denoted(a, d.full) : e.kind # "Message"
<1>1. files \in Files
  BY DEF BuildInv, BuildTyped
<1>2. status \in {"TypeNotFound", "InvalidTypeKind", "ready"} => agenda = <<>>
  BY DEF BuildInv, Progress, Populating
<1>3. ASSUME status = "DuplicateType" PROVE Doubled
  <2>1. PICK p, q : Known(p) /\ Known(q) /\ p # q /\ NameOf(p) = NameOf(q)
    BY <1>3 DEF VInv, Reasons
  <2> DEFINE d == DeclOf(p)
             e == DeclOf(q)
  <2>2. d.idx = p /\ d.full = NameOf(p) /\ e.idx = q /\ e.full = NameOf(q)
    BY DEF DeclOf
  <2> HIDE DEF d, e
  <2>3. d \in Declared /\ e \in Declared
    BY <1>1, <2>1, <2>2, DeclaredAre DEF d, e
  <2> QED BY <2>1, <2>2, <2>3
<1>4. ASSUME status = "TypeNotFound" PROVE \E d \in Declared : LostBy(d)
  <2>1. PICK p : Known(p) /\ LostAt(p)
    BY <1>4 DEF VInv, Reasons
  <2> DEFINE d == DeclOf(p)
  <2>2. d \in Declared /\ LostBy(d)
    BY <1>2, <1>4, <2>1, LostIs
  <2> HIDE DEF d, LostBy
  <2> QED BY <2>2
<1>5. ASSUME status = "InvalidTypeKind" PROVE \E d \in Declared : MisusedBy(d)
  <2>1. PICK p : Known(p) /\ MisusedAt(p)
    BY <1>5 DEF VInv, Reasons
  <2> DEFINE d == DeclOf(p)
  <2>2. d \in Declared /\ MisusedBy(d)
    BY <1>2, <1>5, <2>1, LostIs
  <2> HIDE DEF d, MisusedBy
  <2> QED BY <2>2
<1>6. ASSUME status = "ready"
      PROVE  ~Doubled /\ \A d \in Declared : ~LostBy(d) /\ ~MisusedBy(d)
  <2>1. ~Doubled
    BY <1>2, <1>6, NamesDeclared
  <2>2. /\ DOMAIN built.types = DOMAIN cache.types
        /\ DOMAIN built.services = DOMAIN cache.services
    <3>1. /\ built.types \in Seq(TypeInfo) /\ built.services \in Seq(ServiceInfo)
          /\ cache.types \in Seq(CacheDatum) /\ cache.services \in Seq(CacheDatum)
      BY DEF BuildInv, BuildTyped, CacheType
    <3>2. Len(built.types) = Len(cache.types) /\ Len(built.services) = Len(cache.services)
      BY <1>6 DEF BuildInv, Progress
    <3> QED BY <3>1, <3>2
  <2>3. ASSUME NEW d \in Declared PROVE ~LostBy(d) /\ ~MisusedBy(d)
    <3>1. PICK p : p = d.idx /\ Known(p) /\ d = DeclOf(p)
      BY <1>1, DeclaredAre
    <3>2. IsCached(p)
      BY <1>2, <1>6, <3>1, AllCached
    <3>3. CASE \E j \in DOMAIN cache.types : cache.types[j].idx_path = p
      <4>1. PICK j \in DOMAIN cache.types : cache.types[j].idx_path = p
        BY <3>3
      <4>2. ~LostAt(p)
        BY <2>2, <4>1 DEF VInv, Resolved
      <4>3. Item(p).kind \in TypeKinds
        BY <4>1 DEF BuildInv, CacheOK, TypeCached
      <4>4. ArgRefs(d) = {}
        BY <3>1, <4>3 DEF ArgRefs, DeclOf, TypeKinds
      <4>5. ~LostBy(d)
        BY <1>2, <1>6, <3>1, <4>2, LostIs
      <4> QED BY <4>4, <4>5
    <3>4. CASE \E j \in DOMAIN cache.services : cache.services[j].idx_path = p
      <4>1. PICK j \in DOMAIN cache.services : cache.services[j].idx_path = p
        BY <3>4
      <4>2. ~LostAt(p) /\ ~MisusedAt(p)
        BY <2>2, <4>1 DEF VInv, Resolved
      <4> QED BY <1>2, <1>6, <3>1, <4>2, LostIs
    <3> QED BY <3>2, <3>3, <3>4 DEF IsCached
  <2> QED BY <2>1, <2>3
<1> QED BY <1>3, <1>4, <1>5, <1>6 DEF VerdictJustified

\* build refuses a list of files for the reason it gives, and accepts one only if
\* no name is declared twice, every reference denotes a declaration and every rpc
\* argument a message, for all lists of files of any depth.
THEOREM VerdictsCorrect == Spec => []VerdictJustified
BY BuildInvAlways, VInvAlways, VerdictsFollow, PTL

-----------------------------------------------------------------------------
(* What is made of a type *)

\* A message has the fields its declaration leads to, the last of equal numbers;
\* a value of an enum leads to a declared field that has it.
MadeFrom(t, i) ==
    LET d  == cache.types[i]
        fs == Item(d.idx_path).fields
    IN  /\ t.kind = "Message" =>
              t.fields = BuiltFields(FieldsInOrder(Item(d.idx_path)), d.full_name)
        /\ t.kind = "Enum" => \A k \in DOMAIN fs :
              /\ fs[k].number \in DOMAIN t.fields
              /\ t.fields[fs[k].number] \in Range(fs)
              /\ t.fields[fs[k].number].number = fs[k].number

Made == \A i \in DOMAIN built.types : MadeFrom(built.types[i], i)

\* A type that build has made keeps its place, its name and its fields.
Same(t, u) == t.kind = u.kind /\ t.full_name = u.full_name /\ t.fields = u.fields
Kept ==
    status = "ready" =>
        \A i \in DOMAIN built.types : i \in DOMAIN ctx.types /\ Same(ctx.types[i], built.types[i])

LEMMA EnumMade ==
    ASSUME BuildInv, NEW i, Building(i), Item(Data.idx_path).kind = "Enum"
    PROVE  MadeFrom(BuiltEnum(Data), i)
<1> DEFINE fs == Item(Data.idx_path).fields
           byNumber(n) == CHOOSE k \in DOMAIN fs :
                fs[k].number = n /\ \A j \in DOMAIN fs : fs[j].number = n => j <= k
           g == [n \in {fs[k].number : k \in DOMAIN fs} |-> fs[byNumber(n)]]
           m == BuiltEnum(Data)
<1>1. Data = cache.types[i] /\ IsType(Item(Data.idx_path))
  BY DataKnown
<1>2. fs \in Seq(EnumField)
  BY <1>1 DEF IsType
<1>3. m.kind = "Enum" /\ m.fields = g
  BY DEF BuiltEnum
<1> HIDE DEF m, fs
<1>4. ASSUME NEW k \in DOMAIN fs
      PROVE  /\ fs[k].number \in DOMAIN g
             /\ g[fs[k].number] \in Range(fs) /\ g[fs[k].number].number = fs[k].number
  <2>1. PICK n : n = fs[k].number
    OBVIOUS
  <2> DEFINE B == {j \in DOMAIN fs : fs[j].number = n}
  <2>2. \E j \in B : \A l \in B : l <= j
    <3>1. B \in SUBSET DOMAIN fs /\ B # {}
      BY <2>1
    <3> HIDE DEF B
    <3> QED BY <1>2, <3>1, LastOne
  <2>3. byNumber(n) \in DOMAIN fs /\ fs[byNumber(n)].number = n
    BY <2>2
  <2> HIDE DEF byNumber
  <2>4. n \in DOMAIN g /\ g[n] = fs[byNumber(n)]
    BY <2>1
  <2> HIDE DEF g
  <2> QED BY <2>1, <2>3, <2>4 DEF Range
<1> HIDE DEF g
<1> QED BY <1>1, <1>3, <1>4 DEF MadeFrom, fs, m

LEMMA MessageMade ==
    ASSUME BuildInv, NEW i, Building(i), Item(Data.idx_path).kind = "Message"
    PROVE  MadeFrom(BuiltMessage(Data), i)
<1>1. Data = cache.types[i]
  BY DataKnown
<1>2. /\ BuiltMessage(Data).kind = "Message"
      /\ BuiltMessage(Data).fields =
            BuiltFields(FieldsInOrder(Item(Data.idx_path)), Data.full_name)
  BY DEF BuiltMessage
<1> QED BY <1>1, <1>2 DEF MadeFrom

LEMMA SameMade ==
    ASSUME files' = files, cache' = cache, NEW t, NEW i, MadeFrom(t, i)
    PROVE  MadeFrom(t, i)'
<1> DEFINE idx == cache.types[i].idx_path
<1>1. idx' = idx /\ Item(idx)' = Item(idx)
  BY SameFiles
<1>2. \A rel, scope : Found(rel, scope)' = Found(rel, scope)
  BY DEF Found
<1>3. \A f, scope, o : BuiltField(f, scope, o)' = BuiltField(f, scope, o)
  BY <1>2 DEF BuiltField, ResolvedType, KindOf
<1>4. \A fs, scope : BuiltFields(fs, scope)' = BuiltFields(fs, scope)
  BY <1>3 DEF BuiltFields
<1>5. FieldsInOrder(Item(idx))' = FieldsInOrder(Item(idx))
  BY <1>1 DEF FieldsInOrder
<1>6. BuiltFields(FieldsInOrder(Item(idx)), cache.types[i].full_name)'
        = BuiltFields(FieldsInOrder(Item(idx)), cache.types[i].full_name)
  BY <1>4, <1>5
<1> QED BY <1>1, <1>6 DEF MadeFrom

LEMMA BuildTypeMakes ==
    ASSUME BuildInv, Made, BuildType
    PROVE  Made'
<1> DEFINE i == Len(built.types) + 1
           t == IF Item(Data.idx_path).kind = "Message" THEN BuiltMessage(Data) ELSE BuiltEnum(Data)
<1>1. Building(i) /\ files' = files /\ cache' = cache
  BY DEF BuildType, Building
<1>2. CASE status' # "types"
  <2>1. built' = built
    BY <1>2 DEF BuildType
  <2> QED BY <1>1, <2>1, SameMade DEF Made
<1>3. CASE status' = "types"
  <2>1. built' = [built EXCEPT !.types = Append(built.types, t)]
    BY <1>3 DEF BuildType
  <2>2. MadeFrom(t, i)
    <3>1. Item(Data.idx_path).kind \in TypeKinds
      BY <1>1, DataKnown DEF IsType
    <3> HIDE DEF i
    <3> QED BY <1>1, <3>1, MessageMade, EnumMade DEF TypeKinds
  <2> HIDE DEF t
  <2>3. built \in [types : Seq(TypeInfo), services : Seq(ServiceInfo)]
    BY DEF BuildInv, BuildTyped
  <2>4. built'.types = Append(built.types, t)
    BY <2>1, <2>3
  <2>5. /\ built'.types[i] = t
        /\ \A k \in DOMAIN built'.types : k = i \/ k \in DOMAIN built.types
        /\ \A k \in DOMAIN built.types : built'.types[k] = built.types[k]
    BY <2>3, <2>4
  <2>6. ASSUME NEW k \in DOMAIN built'.types, NEW u, u = built'.types[k] PROVE MadeFrom(u, k)'
    <3>1. MadeFrom(u, k)
      BY <2>2, <2>5, <2>6 DEF Made
    <3> QED BY <1>1, <3>1, SameMade
  <2> QED BY <2>6 DEF Made
<1> QED BY <1>2, <1>3

LEMMA MadeKeeps ==
    ASSUME BuildInv, Made, [Next]_vars
    PROVE  Made'
<1>1. CASE BuildType
  BY <1>1, BuildTypeMakes
<1>2. CASE PopulateMessage \/ PopulateEnum \/ PopulateService
  <2>1. built' = built /\ status = "populate"
    BY <1>2 DEF PopulateMessage, PopulateEnum, PopulateService
  <2>2. DOMAIN built'.types = {}
    BY <2>1 DEF BuildInv, Progress, Populating
  <2> QED BY <2>2 DEF Made
<1>3. CASE UNCHANGED <<files, cache>> /\ built'.types = built.types
  BY <1>3, SameMade DEF Made
<1>4. CASE BuildService
  <2>1. built \in [types : Seq(TypeInfo), services : Seq(ServiceInfo)]
    BY DEF BuildInv, BuildTyped
  <2> DEFINE ss == Append(built.services, BuiltService(ServiceData))
  <2>2. built' = built \/ built' = [built EXCEPT !.services = ss]
    BY <1>4 DEF BuildService
  <2> HIDE DEF ss
  <2>3. UNCHANGED <<files, cache>> /\ built'.types = built.types
    BY <1>4, <2>1, <2>2 DEF BuildService
  <2> QED BY <1>3, <2>3
<1>5. CASE Duplicate \/ Populated \/ TypesBuilt \/ Finish \/ Change \/ UNCHANGED vars
  <2>1. UNCHANGED <<files, cache>> /\ built' = built
    BY <1>5 DEF Duplicate, Populated, TypesBuilt, Finish, Change, vars, buildVars
  <2> QED BY <1>3, <2>1
<1> QED BY <1>1, <1>2, <1>4, <1>5 DEF Next, Parse, BuildNext

\* Only Finish makes a context ready.
LEMMA NotReady ==
    ASSUME LInv, Parse, ~Finish
    PROVE  status' # "ready"
<1>1. status # "ready"
  BY DEF Parse, BuildNext, PopulateMessage, PopulateEnum, PopulateService, Duplicate,
              Populated, BuildType, TypesBuilt, BuildService
<1>2. CASE BuildType
  <2>1. Building(Len(built.types) + 1) /\ status' = TypeVerdict(Data)
    BY <1>2 DEF BuildType, Building
  <2> QED BY <2>1, TypeVerdictIs DEF LInv
<1>3. CASE BuildService
  <2>1. Serving(Len(built.services) + 1) /\ status' = ServiceVerdict(ServiceData)
    BY <1>3 DEF BuildService, Serving
  <2> QED BY <2>1, ServiceVerdictIs DEF LInv
<1>4. CASE ~BuildType /\ ~BuildService
  BY <1>1, <1>4 DEF Parse, BuildNext, PopulateMessage, PopulateEnum, PopulateService,
                          Duplicate, Populated, TypesBuilt
<1> QED BY <1>2, <1>3, <1>4

LEMMA KeptKeeps ==
    ASSUME LInv, Kept, [Next]_vars
    PROVE  Kept'
<1>1. CASE Finish
  <2>1. ctx'.types = built.types /\ built' = built
    <3>1. Complete
      BY <1>1 DEF Finish, Complete, LInv, BuildInv, Progress, Populating
    <3> QED BY <1>1, <3>1, FinishedShape DEF Finish, Finished, LInv
  <2> QED BY <2>1 DEF Kept, Same
<1>2. CASE Parse /\ ~Finish
  BY <1>2, NotReady DEF Kept
<1>3. CASE Change
  <2>1. status = "ready" /\ built' = built /\ RegistryNext
    BY <1>3 DEF Change, buildVars
  <2>2. ASSUME NEW i \in DOMAIN ctx.types
        PROVE  i \in DOMAIN ctx'.types /\ Same(ctx'.types[i], ctx.types[i])
    <3>1. CASE ctx'.types = ctx.types
      BY <3>1 DEF Same
    <3>2. CASE InsertType
      <4> DEFINE t == draft[1]
      <4>1. /\ ctx \in ContextType /\ draft # <<>> /\ InsertVerdict(ctx, t) = "Ok"
            /\ ctx' = TypeAdded(ctx, t)
        BY <3>2, CallsReturn DEF InsertType, LInv, IInv, Typed
      <4>2. t \in TypeInfo /\ t.inner_types = <<>>
        BY <4>1, DraftKnown DEF LInv
      <4> HIDE DEF t
      <4> DEFINE d == TypeAdded(ctx, t)
                 list == Extended(ctx, t, [of |-> "Message", ref |-> i], ctx.types[i].inner_types)
      <4>3. /\ DOMAIN ctx.types = 1..((Len(ctx.types) + 1) - 1) /\ Len(ctx.types) + 1 \in Nat
            /\ DOMAIN d.types = 1..(Len(ctx.types) + 1)
            /\ d.types[i] = [ctx.types[i] EXCEPT !.inner_types = list]
        BY <4>1, <4>2, TypeAddedShape
      <4>4. PICK s : ctx'.types[i] = [ctx.types[i] EXCEPT !.inner_types = s]
        BY <4>1, <4>3
      <4> HIDE DEF d, list
      <4>5. ctx.types[i] \in TypeInfo
        BY <4>1 DEF ContextType
      <4>6. i \in DOMAIN ctx'.types
        BY <4>1, <4>3 DEF d
      <4> QED BY <4>4, <4>5, <4>6 DEF Same, TypeInfo, MessageInfo, EnumInfo
    <3>3. CASE InsertPackage
      <4>1. PICK name : ctx' = PackageAdded(ctx, NewPackage(name))
        BY <3>3, CallsReturn DEF InsertPackage
      <4>2. ctx \in ContextType
        BY DEF LInv, IInv, Typed
      <4>3. PICK ps : ctx' = [ctx EXCEPT !.packages = ps]
        BY <4>1 DEF PackageAdded
      <4>4. ctx'.types = ctx.types
        BY <4>2, <4>3 DEF ContextType
      <4> QED BY <3>1, <4>4
    <3> QED BY <2>1, <3>1, <3>2, <3>3
         DEF RegistryNext, StartDraft, AddField, AddEnumField, AddOneof, RefuseType
  <2> QED BY <2>1, <2>2 DEF Kept, Same
<1>4. CASE UNCHANGED vars
  BY <1>4 DEF vars, buildVars, Kept
<1> QED BY <1>1, <1>2, <1>3, <1>4 DEF Next

LEMMA MadeAtFirst == Init => Made /\ Kept
BY DEF Init, BuildInit, Made, Kept

\* What build leaves of the declarations and what it returns go together.
WInv == LInv /\ VInv /\ Made /\ Kept

\* A declared type is built, and stays in the context under its name.
LEMMA DeclaredIsBuilt ==
    ASSUME WInv, status = "ready", NEW d \in Declared, d.kind # "Service"
    PROVE  \E i \in DOMAIN built.types :
             /\ cache.types[i].idx_path = d.idx /\ cache.types[i].full_name = d.full
             /\ built.types[i].kind = d.kind /\ built.types[i].full_name = d.full
             /\ built.types[i] \in TypeInfo
             /\ get_type(ctx, d.full) = {ctx.types[i]} /\ Same(ctx.types[i], built.types[i])
<1>1. BuildInv /\ IInv /\ agenda = <<>> /\ files \in Files /\ Complete
  BY DEF WInv, LInv, BuildInv, BuildTyped, Progress, Populating, Complete
<1>2. d = DeclOf(d.idx) /\ Known(d.idx) /\ d.kind = Item(d.idx).kind /\ d.full = NameOf(d.idx)
  BY <1>1, DeclaredAre DEF DeclOf
<1>3. IsCached(d.idx)
  BY <1>1, <1>2, AllCached
<1>4. \A j \in DOMAIN cache.services : cache.services[j].idx_path # d.idx
  BY <1>1, <1>2 DEF BuildInv, CacheOK, ServiceCached
<1>5. PICK i \in DOMAIN cache.types : cache.types[i].idx_path = d.idx
  BY <1>3, <1>4 DEF IsCached
<1>6. TypeCached(i)
  BY <1>1, <1>5 DEF BuildInv, CacheOK
<1>7. cache.types[i].full_name = d.full /\ cache.types[i].item_type = d.kind
  BY <1>2, <1>5, <1>6 DEF TypeCached
<1>8. i \in DOMAIN built.types
  <2>1. built.types \in Seq(TypeInfo) /\ cache.types \in Seq(CacheDatum)
    BY <1>1 DEF BuildInv, BuildTyped, CacheType
  <2>2. Len(built.types) = Len(cache.types)
    BY <1>1 DEF BuildInv, Progress
  <2> QED BY <1>5, <2>1, <2>2
<1>9. TypeBuilt(built.types[i], i)
  BY <1>1, <1>8 DEF BuildInv, BuiltOK
<1>10. /\ built.types[i].kind = d.kind /\ built.types[i].full_name = d.full
       /\ built.types[i] \in TypeInfo
  BY <1>7, <1>9 DEF TypeBuilt
<1>11. i \in DOMAIN ctx.types /\ Same(ctx.types[i], built.types[i])
  BY <1>8 DEF WInv, Kept
<1>12. ctx.types[i].full_name = d.full
  BY <1>10, <1>11 DEF Same
<1>13. d.full \in DOMAIN ctx.types_by_name /\ ctx.types_by_name[d.full] = i
  BY <1>1, <1>11, <1>12 DEF IInv, NamesAreKeys
<1>14. get_type(ctx, d.full) = {ctx.types[i]}
  BY <1>13 DEF get_type
<1> QED BY <1>5, <1>7, <1>8, <1>10, <1>11, <1>14

\* The field a reference leads to has the type the reference denotes.
LEMMA FieldIsBuilt ==
    ASSUME WInv, status = "ready", NEW d \in Declared, NEW f \in FieldRefs(d),
           LET fs == FieldsInOrder(Item(d.idx))
           IN  fs[LastWithNumber(fs, f.number)][1] = f
    PROVE  \E m \in get_message(ctx, d.full), e \in Denoted(f.ref, d.full) :
              LET type == m.fields[f.number].type
              IN  \E t \in resolve_type(ctx, type.ref) :
                      t.kind = type.of /\ t.kind = e.kind /\ t.full_name = e.full
<1> DEFINE fs == FieldsInOrder(Item(d.idx))
<1>1. BuildInv /\ agenda = <<>> /\ files \in Files
  BY DEF WInv, LInv, BuildInv, BuildTyped, Progress, Populating
<1>2. /\ d.kind = "Message"
      /\ \E g \in Range(fs) : f = g[1] /\ g[1].type = "Unknown"
  BY DEF FieldRefs
<1>3. PICK k \in DOMAIN fs : f = fs[k][1] /\ f.type = "Unknown"
  BY <1>2 DEF Range
<1>4. fs[LastWithNumber(fs, f.number)][1] = f
  OBVIOUS
<1>5. PICK i \in DOMAIN built.types :
         /\ cache.types[i].idx_path = d.idx /\ cache.types[i].full_name = d.full
         /\ built.types[i].kind = d.kind /\ built.types[i] \in TypeInfo
         /\ get_type(ctx, d.full) = {ctx.types[i]} /\ Same(ctx.types[i], built.types[i])
  BY <1>2, DeclaredIsBuilt
<1> DEFINE m == ctx.types[i]
<1>6. m \in get_message(ctx, d.full) /\ m.fields = BuiltFields(fs, d.full)
  <2>1. m.kind = "Message" /\ m.fields = built.types[i].fields
    BY <1>2, <1>5 DEF Same
  <2>2. built.types[i].fields = BuiltFields(fs, d.full)
    BY <1>2, <1>5 DEF WInv, Made, MadeFrom
  <2> QED BY <1>5, <2>1, <2>2 DEF get_message
<1> HIDE DEF fs, m
<1>7. /\ f.number \in DOMAIN m.fields
      /\ m.fields[f.number].type = ResolvedType(f, d.full)
  <2>1. f.number \in {fs[j][1].number : j \in DOMAIN fs}
    BY <1>3
  <2> QED BY <1>4, <1>6, <2>1 DEF BuiltFields, BuiltField
<1>8. Found(f.ref, d.full) # {}
  <2>1. ~LostAt(d.idx)
    BY <1>5 DEF WInv, VInv, Resolved
  <2>2. d = DeclOf(d.idx) /\ d.full = NameOf(d.idx)
    BY <1>1, DeclaredAre DEF DeclOf
  <2> QED BY <2>1, <2>2 DEF LostAt
<1> DEFINE n == CHOOSE n \in Found(f.ref, d.full) : TRUE
           type == m.fields[f.number].type
<1>9. n \in Found(f.ref, d.full) /\ type = [of |-> KindOf(n), ref |-> cache.items[n].final_idx]
  BY <1>3, <1>7, <1>8 DEF ResolvedType
<1> HIDE DEF n
<1>10. d.full \in Names
  BY <1>1, DeclaredAre, KnownNames DEF DeclOf
<1>11. n \in DOMAIN cache.items /\ NameCached(n)
  BY <1>1, <1>9, <1>10, FoundIs DEF BuildInv
<1>12. PICK e \in Denoted(f.ref, d.full) : e.full = n /\ e.kind = KindOf(n) /\ e \in Declared
  <2>1. PICK e \in Declared : e.full = n
    BY <1>1, <1>11, NamesDeclared
  <2>2. KindOf(n) = e.kind
    BY <1>1, <2>1, NamesDeclared
  <2>3. e \in Denoted(f.ref, d.full)
    BY <1>1, <1>9, <1>10, <2>1, DenotedAre
  <2> QED BY <2>1, <2>2, <2>3
<1>13. KindOf(n) # "Service"
  <2>1. built.types[i] \in TypeInfo /\ built.types[i].kind = "Message" /\ m.fields = built.types[i].fields
    BY <1>2, <1>5 DEF Same, m
  <2>2. m.fields \in Maps(Nat, MessageField)
    BY <2>1 DEF TypeInfo, MessageInfo, EnumInfo
  <2>3. m.fields[f.number] \in MessageField
    BY <1>7, <2>2, MapDomain
  <2>4. type \in ValueType
    BY <2>3 DEF MessageField
  <2> QED BY <1>9, <2>4 DEF ValueType, TypeRef, TypeKinds
<1>14. PICK j \in DOMAIN built.types :
          /\ cache.types[j].full_name = n /\ built.types[j].kind = e.kind
          /\ built.types[j].full_name = n /\ Same(ctx.types[j], built.types[j])
          /\ cache.types[j].idx_path = e.idx
  BY <1>12, <1>13, DeclaredIsBuilt
<1>15. cache.items[n].final_idx = j
  <2>1. TypeCached(j)
    <3>1. TypeBuilt(built.types[j], j)
      BY <1>1 DEF BuildInv, BuiltOK
    <3>2. j \in DOMAIN cache.types
      <4>1. built.types \in Seq(TypeInfo) /\ cache.types \in Seq(CacheDatum)
        BY <1>1 DEF BuildInv, BuildTyped, CacheType
      <4>2. Len(built.types) = Len(cache.types)
        BY <1>1 DEF BuildInv, Progress
      <4> QED BY <4>1, <4>2
    <3> QED BY <1>1, <3>2 DEF BuildInv, CacheOK
  <2> QED BY <1>14, <2>1 DEF TypeCached, Entry
<1>16. j \in DOMAIN ctx.types
  BY DEF WInv, Kept
<1>17. /\ ctx.types[j] \in resolve_type(ctx, type.ref)
       /\ ctx.types[j].kind = type.of /\ ctx.types[j].kind = e.kind
       /\ ctx.types[j].full_name = e.full
  <2>1. type.ref = j /\ type.of = e.kind
    BY <1>9, <1>12, <1>15
  <2>2. ctx.types[j].kind = e.kind /\ ctx.types[j].full_name = e.full
    BY <1>12, <1>14 DEF Same
  <2> HIDE DEF type
  <2> QED BY <1>16, <2>1, <2>2 DEF resolve_type
<1> QED BY <1>6, <1>12, <1>17

LEMMA BuildsFollow == WInv => BuildsWhatIsDeclared
<1> SUFFICES ASSUME WInv, status = "ready"
             PROVE  BuildsWhatIsDeclared
  BY DEF BuildsWhatIsDeclared
<1>1. BuildInv /\ agenda = <<>> /\ files \in Files
  BY DEF WInv, LInv, BuildInv, BuildTyped, Progress, Populating
<1>2. {<<t.kind, t.full_name>> : t \in Range(built.types)}
         = {<<d.kind, d.full>> : d \in {e \in Declared : e.kind # "Service"}}
  <2>1. ASSUME NEW t \in Range(built.types)
        PROVE  \E d \in {e \in Declared : e.kind # "Service"} :
                  t.kind = d.kind /\ t.full_name = d.full
    <3>1. PICK i \in DOMAIN built.types : t = built.types[i]
      BY DEF Range
    <3>2. TypeBuilt(t, i)
      BY <1>1, <3>1 DEF BuildInv, BuiltOK
    <3>3. i \in DOMAIN cache.types
      <4>1. built.types \in Seq(TypeInfo) /\ cache.types \in Seq(CacheDatum)
        BY <1>1 DEF BuildInv, BuildTyped, CacheType
      <4>2. Len(built.types) = Len(cache.types)
        BY <1>1 DEF BuildInv, Progress
      <4> QED BY <3>1, <4>1, <4>2
    <3>4. TypeCached(i)
      BY <1>1, <3>3 DEF BuildInv, CacheOK
    <3>5. PICK p : p = cache.types[i].idx_path
      OBVIOUS
    <3>6. /\ Known(p) /\ t.full_name = NameOf(p) /\ t.kind = Item(p).kind
          /\ t.kind \in TypeKinds
      BY <3>2, <3>4, <3>5 DEF TypeBuilt, TypeCached
    <3> DEFINE d == DeclOf(p)
    <3>7. d.idx = p /\ d.kind = Item(p).kind /\ d.full = NameOf(p)
      BY DEF DeclOf
    <3> HIDE DEF d
    <3>8. d \in Declared
      BY <1>1, <3>6, <3>7, DeclaredAre DEF d
    <3> QED BY <3>6, <3>7, <3>8 DEF TypeKinds
  <2>2. ASSUME NEW d \in Declared, d.kind # "Service"
        PROVE  \E t \in Range(built.types) : t.kind = d.kind /\ t.full_name = d.full
    <3>1. PICK i \in DOMAIN built.types :
             built.types[i].kind = d.kind /\ built.types[i].full_name = d.full
      BY <2>2, DeclaredIsBuilt
    <3> QED BY <3>1 DEF Range
  <2> QED BY <2>1, <2>2
<1>3. ASSUME NEW d \in Declared, d.kind = "Enum", NEW f \in Range(Item(d.idx).fields)
      PROVE  \E t \in get_type(ctx, d.full) : \E g \in get_field_by_value(t, f.number) :
                g \in Range(Item(d.idx).fields) /\ g.number = f.number
  <2>1. PICK i \in DOMAIN built.types :
           /\ cache.types[i].idx_path = d.idx /\ built.types[i].kind = d.kind
           /\ get_type(ctx, d.full) = {ctx.types[i]} /\ Same(ctx.types[i], built.types[i])
    BY <1>3, DeclaredIsBuilt
  <2>2. PICK k \in DOMAIN Item(d.idx).fields : f = Item(d.idx).fields[k]
    BY DEF Range
  <2>3. /\ f.number \in DOMAIN built.types[i].fields
        /\ built.types[i].fields[f.number] \in Range(Item(d.idx).fields)
        /\ built.types[i].fields[f.number].number = f.number
    BY <1>3, <2>1, <2>2 DEF WInv, Made, MadeFrom
  <2>4. ctx.types[i].fields = built.types[i].fields
    BY <2>1 DEF Same
  <2>5. ctx.types[i].fields[f.number] \in get_field_by_value(ctx.types[i], f.number)
    BY <2>3, <2>4 DEF get_field_by_value, get_field
  <2> QED BY <2>1, <2>3, <2>4, <2>5
<1> QED BY <1>2, <1>3, FieldIsBuilt DEF BuildsWhatIsDeclared

\* The declared types are built under their full names, a field of a type given by
\* name has the type that name denotes, and an enum finds its values, for all files
\* that build accepts, in its context and in every context a client makes of it.
THEOREM BuildsCorrect == Spec => []BuildsWhatIsDeclared
<1>1. Made /\ Kept /\ LInv /\ [Next]_vars => Made' /\ Kept'
  BY MadeKeeps, KeptKeeps DEF LInv
<1>2. LInv /\ VInv /\ Made /\ Kept => BuildsWhatIsDeclared
  BY BuildsFollow DEF WInv
<1> QED BY <1>1, <1>2, MadeAtFirst, LInvAlways, VInvAlways, PTL DEF Spec

LEMMA ParsedFollow == LInv /\ Kept => ParsedHandlesResolve
<1> SUFFICES ASSUME LInv, Kept, status = "ready",
                    NEW i \in DOMAIN built.types, ctx.types[i].kind = "Message",
                    NEW n \in DOMAIN ctx.types[i].fields
             PROVE  TypeResolves(ctx.types[i].fields[n].type)
  BY DEF ParsedHandlesResolve
<1>1. Complete
  BY DEF LInv, Complete, BuildInv, BuildTyped, Progress, Populating
<1>2. \A j \in DOMAIN built.types : j \in DOMAIN ctx.types /\ Same(ctx.types[j], built.types[j])
  BY DEF Kept
<1>3. built.types[i].kind = "Message" /\ ctx.types[i].fields = built.types[i].fields
  BY <1>2 DEF Same
<1> DEFINE type == built.types[i].fields[n].type
<1>4. type.of \in TypeKinds =>
         type.ref \in DOMAIN built.types /\ built.types[type.ref].kind = type.of
  BY <1>1, <1>3, FinishedHandles
<1> HIDE DEF type
<1>5. type.of \in TypeKinds => type.ref \in DOMAIN ctx.types /\ ctx.types[type.ref].kind = type.of
  BY <1>2, <1>4 DEF Same
<1>6. TypeResolves(type)
  BY <1>5 DEF TypeResolves, TypeKinds, resolve_message, resolve_enum, resolve_type
<1> QED BY <1>3, <1>6 DEF type

\* The fields of the messages that were parsed have the types they name, in the
\* context build returns and whatever a client inserts or stores later: with the
\* handles of a parsed message, decode never panics for want of a type.
THEOREM ParsedHandlesAlways == Spec => []ParsedHandlesResolve
<1>1. Made /\ Kept /\ LInv /\ [Next]_vars => Made' /\ Kept'
  BY MadeKeeps, KeptKeeps DEF LInv
<1> QED BY <1>1, MadeAtFirst, ParsedFollow, LInvAlways, PTL DEF Spec

-----------------------------------------------------------------------------
(* A type made by hand like another *)

\* A draft like t, with these oneofs and fields so far.
Drafted(t, os, g, h) ==
    [kind |-> t.kind, name |-> t.name, full_name |-> NoName, parent |-> t.parent,
     self_ref |-> FirstRef, inner_types |-> <<>>, oneofs |-> os,
     fields |-> g, fields_by_name |-> h]

LEMMA DraftedOneof ==
    ASSUME NEW t, NEW os, NEW o
    PROVE  OneofAdded(Drafted(t, os, <<>>, <<>>), o)
             = Drafted(t, Append(os, [o EXCEPT !.self_ref = Len(os) + 1]), <<>>, <<>>)
<1> DEFINE d == Drafted(t, os, <<>>, <<>>)
<1>1. d.fields = <<>> /\ d.oneofs = os
  BY DEF Drafted
<1>2. [n \in DOMAIN d.fields |-> FieldTaken(d, o, n)] = <<>>
  <2> DEFINE T(n) == FieldTaken(d, o, n)
  <2> HIDE DEF T
  <2>1. [n \in DOMAIN d.fields |-> T(n)] = <<>>
    BY <1>1
  <2> QED BY <2>1 DEF T
<1>3. OneofAdded(d, o)
        = [d EXCEPT !.oneofs = Append(os, [o EXCEPT !.self_ref = Len(os) + 1]), !.fields = <<>>]
  BY <1>1, <1>2 DEF OneofAdded
<1> QED BY <1>3 DEF Drafted

LEMMA DraftedField ==
    ASSUME NEW t, NEW os, NEW g, NEW h, NEW f
    PROVE  FieldAdded(Drafted(t, os, g, h), f)
             = Drafted(t, [o \in DOMAIN os |->
                             IF t.kind = "Message" /\ o = f.oneof
                             THEN [os[o] EXCEPT !.fields = Append(@, f.number)] ELSE os[o]],
                       Bind(g, f.number, f), Bind(h, f.name, f.number))
<1> DEFINE d == Drafted(t, os, g, h)
           told == [o \in DOMAIN os |->
                             IF t.kind = "Message" /\ o = f.oneof
                             THEN [os[o] EXCEPT !.fields = Append(@, f.number)] ELSE os[o]]
<1>1. d.fields = g /\ d.fields_by_name = h /\ d.oneofs = os /\ d.kind = t.kind
  BY DEF Drafted
<1>2. [o \in DOMAIN d.oneofs |-> OneofTold(d, f, o)] = told
  BY <1>1 DEF OneofTold
<1> HIDE DEF told
<1>3. FieldAdded(d, f) = [d EXCEPT !.fields = Bind(g, f.number, f),
                                   !.fields_by_name = Bind(h, f.name, f.number),
                                   !.oneofs = told]
  BY <1>1, <1>2 DEF FieldAdded
<1>4. FieldAdded(d, f) = Drafted(t, told, Bind(g, f.number, f), Bind(h, f.name, f.number))
  BY <1>3 DEF Drafted
<1> QED BY <1>4 DEF told

\* The oneofs by hand: as they are declared, without the fields.
Bare(t, n) == [o \in 1..n |-> [t.oneofs[o] EXCEPT !.fields = <<>>]]

LEMMA BareOneof ==
    ASSUME NEW o \in Oneof, NEW list \in Seq(Nat)
    PROVE  LET b == [o EXCEPT !.fields = list]
           IN  b \in Oneof /\ b.self_ref = o.self_ref /\ [b EXCEPT !.self_ref = o.self_ref] = b
BY DEF Oneof

\* No two oneofs of a type have one name.
OneofsDiffer(t) == \A j, k \in DOMAIN t.oneofs : t.oneofs[j].name = t.oneofs[k].name => j = k

LEMMA OneofsByHand ==
    ASSUME NEW t \in TypeInfo, Members(t), OneofsDiffer(t)
    PROVE  OneofsRedrafted(t) = {Drafted(t, Bare(t, Len(t.oneofs)), <<>>, <<>>)}
<1> DEFINE N == Len(t.oneofs)
           C(n) == Drafted(t, Bare(t, n), <<>>, <<>>)
           O(n) == [t.oneofs[n] EXCEPT !.fields = <<>>]
           g == [n \in 0..N |-> {C(n)}]
           Is(f) == f = [n \in 0..N |->
                           IF n = 0 THEN {NewType(t.kind, t.name, t.parent)}
                           ELSE UNION {add_oneof(d, [t.oneofs[n] EXCEPT !.fields = <<>>]) :
                                          d \in f[n - 1]}]
<1>1. t.oneofs \in Seq(Oneof)
  BY OneofsTyped
<1>2. N \in Nat /\ DOMAIN t.oneofs = 1..N
  BY <1>1
<1> HIDE DEF N, O
<1>3. C(0) = NewType(t.kind, t.name, t.parent)
  <2>1. Bare(t, 0) = <<>>
    BY DEF Bare
  <2> QED BY <2>1 DEF Drafted, NewType
<1>4. ASSUME NEW n \in 1..N
      PROVE  UNION {add_oneof(d, O(n)) : d \in {C(n - 1)}} = {C(n)}
  <2> DEFINE b == Bare(t, n - 1)
             o == [t.oneofs[n] EXCEPT !.fields = <<>>]
  <2>1. t.oneofs[n] \in Oneof /\ t.oneofs[n].self_ref = n
    BY <1>1, <1>2 DEF Members
  <2> DEFINE NONE == <<>>
  <2>0. NONE \in Seq(Nat) /\ o = [t.oneofs[n] EXCEPT !.fields = NONE]
    OBVIOUS
  <2> HIDE DEF NONE
  <2>2. o \in Oneof /\ o.self_ref = n /\ [o EXCEPT !.self_ref = n] = o
    BY <2>0, <2>1, BareOneof
  <2>3. \A k \in 1..(n - 1) : [t.oneofs[k] EXCEPT !.fields = <<>>] \in Oneof
    <3> TAKE k \in 1..(n - 1)
    <3>1. t.oneofs[k] \in Oneof
      BY <1>1, <1>2
    <3>2. [t.oneofs[k] EXCEPT !.fields = NONE] \in Oneof
      BY <2>0, <3>1, BareOneof
    <3> QED BY <3>2 DEF NONE
  <2>4. b \in Seq(Oneof) /\ Len(b) = n - 1
    <3> DEFINE at(k) == [t.oneofs[k] EXCEPT !.fields = <<>>]
    <3>1. b = [k \in 1..(n - 1) |-> at(k)]
      BY DEF Bare
    <3>2. \A k \in 1..(n - 1) : at(k) \in Oneof
      BY <2>3
    <3>3. n - 1 \in Nat
      OBVIOUS
    <3> HIDE DEF at, b
    <3> QED BY <3>1, <3>2, <3>3
  <2>5. [o EXCEPT !.self_ref = Len(b) + 1] = o
    <3>1. Len(b) + 1 = n
      BY <2>4
    <3> QED BY <2>2, <3>1
  <2>6. Append(b, o) = Bare(t, n)
    <3>1. /\ Append(b, o) \in Seq(Oneof) /\ Len(Append(b, o)) = n /\ Append(b, o)[n] = o
          /\ \A k \in 1..(n - 1) : Append(b, o)[k] = b[k]
      <4> HIDE DEF b, o
      <4> QED BY <2>2, <2>4
    <3>2. DOMAIN Append(b, o) = 1..n
      BY <3>1
    <3>3. \A k \in 1..(n - 1) : b[k] = [t.oneofs[k] EXCEPT !.fields = <<>>]
      BY DEF Bare
    <3>4. \A k \in 1..n : Append(b, o)[k] = [t.oneofs[k] EXCEPT !.fields = <<>>]
      <4> TAKE k \in 1..n
      <4>1. k = n \/ k \in 1..(n - 1)
        OBVIOUS
      <4> HIDE DEF b
      <4> QED BY <3>1, <3>3, <4>1
    <3>5. Append(b, o) = [k \in DOMAIN Append(b, o) |-> Append(b, o)[k]]
      <4> DEFINE a == Append(b, o)
      <4>1. a \in Seq(Oneof)
        BY <3>1
      <4> HIDE DEF a
      <4>2. a = [k \in DOMAIN a |-> a[k]]
        BY <4>1
      <4> QED BY <4>2 DEF a
    <3> HIDE DEF b, o
    <3> QED BY <3>2, <3>4, <3>5 DEF Bare
  <2>7. \A k \in DOMAIN b : b[k].name # o.name
    <3>1. DOMAIN b = 1..(n - 1)
      BY DEF Bare
    <3>2. ASSUME NEW k \in 1..(n - 1) PROVE b[k].name # o.name
      <4>1. k \in DOMAIN t.oneofs /\ n \in DOMAIN t.oneofs /\ k # n
        BY <1>2
      <4>2. t.oneofs[k] \in Oneof /\ t.oneofs[n] \in Oneof
        BY <1>1, <4>1
      <4>3. b[k] = [t.oneofs[k] EXCEPT !.fields = <<>>]
        BY <3>2 DEF Bare
      <4>4. b[k].name = t.oneofs[k].name /\ o.name = t.oneofs[n].name
        BY <4>2, <4>3 DEF Oneof
      <4> HIDE DEF b, o
      <4> QED BY <4>1, <4>4 DEF OneofsDiffer
    <3> QED BY <3>1, <3>2
  <2>8. o.fields = <<>>
    BY <2>1 DEF Oneof
  <2> HIDE DEF b, o
  <2>9. OneofAdded(Drafted(t, b, <<>>, <<>>), o) = Drafted(t, Append(b, o), <<>>, <<>>)
    BY <2>5, DraftedOneof
  <2> DEFINE e == Drafted(t, b, <<>>, <<>>)
  <2>10. OneofVerdict(e, o) = "Ok"
    <3>1. e.oneofs = b
      BY DEF Drafted
    <3>2. Listed(o) = {}
      <4>1. DOMAIN o.fields = {}
        BY <2>8
      <4> QED BY <4>1 DEF Listed
    <3> HIDE DEF e
    <3> QED BY <2>7, <3>1, <3>2 DEF OneofVerdict
  <2> HIDE DEF e
  <2>11. add_oneof(e, o) = {OneofAdded(e, o)}
    BY <2>10 DEF add_oneof, Ok
  <2>12. UNION {add_oneof(d, o) : d \in {e}} = add_oneof(e, o)
    OBVIOUS
  <2>13. C(n - 1) = e /\ O(n) = o /\ OneofAdded(e, o) = C(n)
    BY <2>6, <2>9 DEF b, o, e, O
  <2> HIDE DEF C
  <2> QED BY <2>11, <2>12, <2>13
<1> HIDE DEF C
<1>5. Is(g)
  <2>1. ASSUME NEW n \in 0..N, n # 0
        PROVE  g[n] = UNION {add_oneof(d, O(n)) : d \in g[n - 1]}
    <3>1. n \in 1..N /\ n - 1 \in 0..N
      BY <1>2, <2>1
    <3>2. g[n] = {C(n)} /\ g[n - 1] = {C(n - 1)}
      BY <3>1
    <3> HIDE DEF g
    <3> QED BY <1>4, <3>1, <3>2
  <2>2. g[0] = {NewType(t.kind, t.name, t.parent)}
    BY <1>2, <1>3
  <2> HIDE DEF g
  <2>3. g = [n \in 0..N |-> g[n]]
    BY DEF g
  <2> QED BY <2>1, <2>2, <2>3 DEF O
<1> HIDE DEF g, Is
<1>6. \E f : Is(f) /\ OneofsRedrafted(t) = f[N]
  BY <1>5 DEF OneofsRedrafted, Is, N
<1>7. PICK f : Is(f) /\ OneofsRedrafted(t) = f[N]
  BY <1>6
<1>8. f[0] = g[0]
  <2>1. f[0] = {NewType(t.kind, t.name, t.parent)}
    BY <1>2, <1>7 DEF Is
  <2> QED BY <1>2, <1>3, <2>1 DEF g
<1>9. ASSUME NEW n \in 1..N, f[n - 1] = g[n - 1] PROVE f[n] = g[n]
  <2>1. n \in 0..N /\ n # 0 /\ n - 1 \in 0..N
    BY <1>2
  <2>2. f[n] = UNION {add_oneof(d, O(n)) : d \in f[n - 1]}
    BY <1>7, <2>1 DEF Is, O
  <2>3. g[n] = {C(n)} /\ g[n - 1] = {C(n - 1)}
    BY <2>1 DEF g
  <2> QED BY <1>4, <1>9, <2>2, <2>3
<1>10. f[N] = g[N]
  BY <1>2, <1>8, <1>9, Agree
<1> QED BY <1>2, <1>7, <1>10 DEF g, C, N

\* The oneofs of t, with these of its fields.
Told(t, P) ==
    [o \in DOMAIN t.oneofs |->
        [t.oneofs[o] EXCEPT !.fields = InOrder({m \in P : t.fields[m].oneof = o})]]

\* A draft with these of the fields of t.
PartOf(t, P) ==
    Drafted(t, Told(t, P), [m \in P |-> t.fields[m]],
            [s \in {t.fields[m].name : m \in P} |-> t.fields_by_name[s]])

\* Nothing of the fields of t was lost to another field.
Crafted(t) ==
    /\ OneofsDiffer(t)
    /\ IsFiniteSet(DOMAIN t.fields)
    /\ DOMAIN t.fields_by_name = {t.fields[n].name : n \in DOMAIN t.fields}
    /\ \A n \in DOMAIN t.fields : t.fields_by_name[t.fields[n].name] = n
    /\ t.kind = "Message" => \A o \in DOMAIN t.oneofs :
          t.oneofs[o].fields = InOrder({n \in DOMAIN t.fields : t.fields[n].oneof = o})

LEMMA FieldNumbers ==
    ASSUME NEW t \in TypeInfo
    PROVE  DOMAIN t.fields \subseteq Nat
<1>1. t.fields \in Maps(Nat, MessageField) \/ t.fields \in Maps(Nat, EnumField)
  BY DEF TypeInfo, MessageInfo, EnumInfo
<1> QED BY <1>1, MapDomain

\* Adding the next field to a part gives the next part.
LEMMA FieldByHand ==
    ASSUME NEW t \in TypeInfo, Members(t), Crafted(t),
           NEW P \in SUBSET DOMAIN t.fields, NEW x \in DOMAIN t.fields, \A m \in P : m < x
    PROVE  add_field(PartOf(t, P), t.fields[x]) = {PartOf(t, P \cup {x})}
<1> DEFINE f == t.fields[x]
           g == [m \in P |-> t.fields[m]]
           h == [s \in {t.fields[m].name : m \in P} |-> t.fields_by_name[s]]
           Q == P \cup {x}
<1>1. f.number = x /\ t.fields_by_name[f.name] = x
  BY DEF Members, Crafted
<1>2. Bind(g, f.number, f) = [m \in Q |-> t.fields[m]]
  BY <1>1 DEF Bind
<1>3. Bind(h, f.name, f.number) = [s \in {t.fields[m].name : m \in Q} |-> t.fields_by_name[s]]
  <2>1. {t.fields[m].name : m \in Q} = {t.fields[m].name : m \in P} \cup {f.name}
    OBVIOUS
  <2> DEFINE A == {t.fields[m].name : m \in P}
  <2>2. h = [s \in A |-> t.fields_by_name[s]]
    OBVIOUS
  <2> HIDE DEF A, f, h
  <2>3. Bind(h, f.name, f.number) = [s \in A \cup {f.name} |-> t.fields_by_name[s]]
    BY <1>1, <2>2 DEF Bind
  <2> QED BY <2>1, <2>3 DEF A
<1> DEFINE told == [o \in DOMAIN Told(t, P) |->
                       IF t.kind = "Message" /\ o = f.oneof
                       THEN [Told(t, P)[o] EXCEPT !.fields = Append(@, f.number)]
                       ELSE Told(t, P)[o]]
<1>4. told = Told(t, Q)
  <2>1. t.oneofs \in Seq(Oneof) /\ (t.kind = "Enum" => t.oneofs = <<>>)
    BY OneofsTyped
  <2>2. DOMAIN Told(t, P) = DOMAIN t.oneofs /\ DOMAIN Told(t, Q) = DOMAIN t.oneofs
    BY DEF Told
  <2>3. ASSUME NEW o \in DOMAIN t.oneofs PROVE told[o] = Told(t, Q)[o]
    <3> DEFINE S == {m \in P : t.fields[m].oneof = o}
               R == {m \in Q : t.fields[m].oneof = o}
               e == t.oneofs[o]
    <3>1. t.kind = "Message"
      <4>1. t.kind = "Enum" => DOMAIN t.oneofs = {}
        BY <2>1
      <4>2. t.kind \in TypeKinds
        BY DEF TypeInfo, MessageInfo, EnumInfo, TypeKinds
      <4> QED BY <2>3, <4>1, <4>2 DEF TypeKinds
    <3>2. Told(t, P)[o] = [e EXCEPT !.fields = InOrder(S)]
          /\ Told(t, Q)[o] = [e EXCEPT !.fields = InOrder(R)] /\ e \in Oneof
      BY <2>1 DEF Told
    <3>3. CASE f.oneof = o
      <4>1. R = S \cup {x}
        BY <3>3
      <4>2. InOrder(R) = Append(InOrder(S), x)
        <5>1. DOMAIN t.fields \subseteq Nat
          BY FieldNumbers
        <5>2. S \in SUBSET Nat /\ IsFiniteSet(S) /\ x \in Nat /\ \A n \in S : n < x
          BY <5>1, FS_Subset DEF Crafted
        <5> HIDE DEF S, R
        <5> QED BY <4>1, <5>2, OrderedMore
      <4> HIDE DEF S, R, e, f
      <4>3. told[o] = [[e EXCEPT !.fields = InOrder(S)] EXCEPT !.fields = Append(@, x)]
        BY <1>1, <2>2, <3>1, <3>2, <3>3
      <4> QED BY <3>2, <4>2, <4>3 DEF Oneof
    <3>4. CASE f.oneof # o
      <4>1. R = S
        BY <3>4
      <4> HIDE DEF S, R, e, f
      <4> QED BY <2>2, <3>2, <3>4, <4>1
    <3> QED BY <3>3, <3>4
  <2> HIDE DEF f
  <2>4. told = [o \in DOMAIN t.oneofs |-> told[o]]
    BY <2>2
  <2> HIDE DEF told
  <2>5. Told(t, Q) = [o \in DOMAIN t.oneofs |-> Told(t, Q)[o]]
    BY DEF Told
  <2> HIDE DEF Q
  <2> QED BY <2>3, <2>4, <2>5
<1> DEFINE os == Told(t, P)
<1> HIDE DEF f, g, h, os
<1>5. FieldAdded(Drafted(t, os, g, h), f)
         = Drafted(t, [o \in DOMAIN os |->
                         IF t.kind = "Message" /\ o = f.oneof
                         THEN [os[o] EXCEPT !.fields = Append(@, f.number)] ELSE os[o]],
                   Bind(g, f.number, f), Bind(h, f.name, f.number))
  BY DraftedField
<1>6. FieldAdded(PartOf(t, P), f) = Drafted(t, told, Bind(g, f.number, f), Bind(h, f.name, f.number))
  BY <1>5 DEF PartOf, os, g, h
<1> HIDE DEF told
<1>7. FieldAdded(PartOf(t, P), f) = PartOf(t, Q)
  BY <1>2, <1>3, <1>4, <1>6 DEF PartOf
<1>8. FieldVerdict(PartOf(t, P), f) = "Ok"
  <2> DEFINE d == PartOf(t, P)
  <2>1. /\ d.kind = t.kind /\ DOMAIN d.fields = P
        /\ DOMAIN d.fields_by_name = {t.fields[m].name : m \in P}
        /\ DOMAIN d.oneofs = DOMAIN t.oneofs
    BY DEF PartOf, Drafted, Told
  <2>2. f.number \notin P
    <3>1. DOMAIN t.fields \subseteq Nat
      BY FieldNumbers
    <3> QED BY <1>1, <3>1
  <2>3. f.name \notin {t.fields[m].name : m \in P}
    <3> SUFFICES ASSUME NEW m \in P, t.fields[m].name = f.name PROVE FALSE
      OBVIOUS
    <3>1. t.fields_by_name[t.fields[m].name] = m
      BY DEF Crafted
    <3> QED BY <1>1, <2>2, <3>1
  <2>4. t.kind = "Message" => f.oneof \in {NoOneof} \cup DOMAIN t.oneofs
    BY DEF Members, f
  <2> HIDE DEF d
  <2>5. FieldVerdict(d, f) = "Ok"
    BY <2>1, <2>2, <2>3, <2>4 DEF FieldVerdict
  <2> QED BY <2>5 DEF d
<1> QED BY <1>7, <1>8 DEF f, add_field, Ok

\* Made by hand from its declaration, a type is what it was before it was
\* inserted: nothing but the full name, the handle and the inner types are missing.
LEMMA TypeByHand ==
    ASSUME NEW t \in TypeInfo, Members(t), Crafted(t)
    PROVE  Redrafted(t) = {Drafted(t, t.oneofs, t.fields, t.fields_by_name)}
<1> DEFINE D == DOMAIN t.fields
           nums == InOrder(D)
           N == Len(nums)
           P(n) == {nums[k] : k \in 1..n}
           C(n) == PartOf(t, P(n))
           g == [n \in 0..N |-> {C(n)}]
           Is(f) == f = [n \in 0..N |->
                           IF n = 0 THEN OneofsRedrafted(t)
                           ELSE UNION {add_field(d, t.fields[nums[n]]) : d \in f[n - 1]}]
<1>1. D \in SUBSET Nat /\ IsFiniteSet(D)
  BY FieldNumbers DEF Crafted
<1>2. /\ nums \in Seq(Nat) /\ \A y : Has(nums, y) <=> y \in D
      /\ Increasing(nums)
  <2> HIDE DEF D
  <2> QED BY <1>1, OrderedIs, OrderedIncreases
<1> HIDE DEF nums
<1>3. N \in Nat /\ DOMAIN nums = 1..N /\ \A k \in 1..N : nums[k] \in D
  BY <1>2 DEF Has
<1>4. {C(0)} = OneofsRedrafted(t)
  <2>1. P(0) = {}
    OBVIOUS
  <2>2. t.oneofs \in Seq(Oneof)
    BY OneofsTyped
  <2>3. Told(t, {}) = Bare(t, Len(t.oneofs))
    <3>1. \A o : {m \in {} : t.fields[m].oneof = o} = {}
      OBVIOUS
    <3>2. DOMAIN t.oneofs = 1..Len(t.oneofs)
      BY <2>2
    <3> QED BY <3>1, <3>2, OrderedNone DEF Told, Bare
  <2>4. [m \in {} |-> t.fields[m]] = <<>>
    OBVIOUS
  <2>5. [s \in {t.fields[m].name : m \in {}} |-> t.fields_by_name[s]] = <<>>
    <3>1. {t.fields[m].name : m \in {}} = {}
      OBVIOUS
    <3> QED BY <3>1
  <2>6. PartOf(t, {}) = Drafted(t, Bare(t, Len(t.oneofs)), <<>>, <<>>)
    BY <2>3, <2>4, <2>5 DEF PartOf
  <2>7. Members(t) /\ OneofsDiffer(t)
    BY DEF Crafted
  <2> HIDE DEF P
  <2> QED BY <2>1, <2>6, <2>7, OneofsByHand
<1>5. ASSUME NEW n \in 1..N
      PROVE  UNION {add_field(d, t.fields[nums[n]]) : d \in {C(n - 1)}} = {C(n)}
  <2> DEFINE x == nums[n]
  <2>1. x \in D
    BY <1>3
  <2>2. P(n) = P(n - 1) \cup {x}
    <3>1. \A k : k \in 1..n <=> k \in 1..(n - 1) \/ k = n
      OBVIOUS
    <3> QED BY <3>1
  <2>3. ASSUME NEW m \in P(n - 1) PROVE m \in D /\ m < x
    <3>1. PICK k \in 1..(n - 1) : nums[k] = m
      OBVIOUS
    <3>2. k \in 1..N /\ k < n
      BY <1>3
    <3>3. nums[k] < nums[n]
      BY <1>2, <1>3, <3>2 DEF Increasing
    <3> QED BY <1>3, <3>1, <3>2, <3>3
  <2> HIDE DEF P, x
  <2>4. add_field(PartOf(t, P(n - 1)), t.fields[x]) = {PartOf(t, P(n - 1) \cup {x})}
    BY <2>1, <2>3, FieldByHand
  <2>5. add_field(C(n - 1), t.fields[nums[n]]) = {C(n)}
    BY <2>2, <2>4 DEF x
  <2> HIDE DEF C
  <2>6. \A d, f : UNION {add_field(e, f) : e \in {d}} = add_field(d, f)
    OBVIOUS
  <2> QED BY <2>5, <2>6
<1>6. C(N) = Drafted(t, t.oneofs, t.fields, t.fields_by_name)
  <2>1. P(N) = D
    <3>1. ASSUME NEW y \in D PROVE y \in P(N)
      BY <1>2, <1>3 DEF Has
    <3> QED BY <1>3, <3>1
  <2>2. Told(t, D) = t.oneofs
    <3>1. t.oneofs \in Seq(Oneof) /\ (t.kind = "Enum" => t.oneofs = <<>>)
      BY OneofsTyped
    <3>2. ASSUME NEW o \in DOMAIN t.oneofs PROVE Told(t, D)[o] = t.oneofs[o]
      <4>1. t.kind = "Message"
        <5>1. t.kind = "Enum" => DOMAIN t.oneofs = {}
          BY <3>1
        <5>2. t.kind \in TypeKinds
          BY DEF TypeInfo, MessageInfo, EnumInfo, TypeKinds
        <5> QED BY <3>2, <5>1, <5>2 DEF TypeKinds
      <4> DEFINE e == t.oneofs[o]
      <4>2. e.fields = InOrder({m \in D : t.fields[m].oneof = o}) /\ e \in Oneof
        <5>1. e \in Oneof
          BY <3>1
        <5>2. e.fields = InOrder({m \in D : t.fields[m].oneof = o})
          BY <4>1 DEF Crafted
        <5> QED BY <5>1, <5>2
      <4>3. Told(t, D)[o] = [e EXCEPT !.fields = e.fields]
        BY <4>2 DEF Told
      <4> HIDE DEF e
      <4>4. [e EXCEPT !.fields = e.fields] = e
        BY <4>2 DEF Oneof
      <4> QED BY <4>3, <4>4 DEF e
    <3>3. Told(t, D) = [o \in DOMAIN t.oneofs |-> Told(t, D)[o]]
      BY DEF Told
    <3>4. t.oneofs = [o \in DOMAIN t.oneofs |-> t.oneofs[o]]
      BY <3>1
    <3> HIDE DEF D
    <3> QED BY <3>2, <3>3, <3>4
  <2>3. [m \in D |-> t.fields[m]] = t.fields
    <3>1. t.fields \in Maps(Nat, MessageField) \/ t.fields \in Maps(Nat, EnumField)
      BY DEF TypeInfo, MessageInfo, EnumInfo
    <3>2. \E V : t.fields \in [D -> V]
      BY <3>1, MapDomain
    <3> QED BY <3>2
  <2>4. [s \in {t.fields[m].name : m \in D} |-> t.fields_by_name[s]] = t.fields_by_name
    <3>1. t.fields_by_name \in Maps(Names, Nat)
      BY DEF TypeInfo, MessageInfo, EnumInfo
    <3>2. t.fields_by_name \in [DOMAIN t.fields_by_name -> Nat]
      BY <3>1, MapDomain
    <3>3. {t.fields[m].name : m \in D} = DOMAIN t.fields_by_name
      BY DEF Crafted
    <3> HIDE DEF D
    <3> QED BY <3>2, <3>3
  <2> HIDE DEF D, P
  <2> QED BY <2>1, <2>2, <2>3, <2>4 DEF PartOf
<1> HIDE DEF C
<1>7. Is(g)
  <2>1. ASSUME NEW n \in 0..N, n # 0
        PROVE  g[n] = UNION {add_field(d, t.fields[nums[n]]) : d \in g[n - 1]}
    <3>1. n \in 1..N /\ n - 1 \in 0..N
      BY <1>3, <2>1
    <3>2. g[n] = {C(n)} /\ g[n - 1] = {C(n - 1)}
      BY <3>1
    <3> HIDE DEF g
    <3> QED BY <1>5, <3>1, <3>2
  <2>2. g[0] = OneofsRedrafted(t)
    BY <1>3, <1>4
  <2> HIDE DEF g, N
  <2>3. g = [n \in 0..N |-> g[n]]
    BY DEF g
  <2> QED BY <2>1, <2>2, <2>3
<1> HIDE DEF g, Is
<1>8. PICK f : Is(f) /\ Redrafted(t) = f[N]
  <2>1. \E f : Is(f) /\ Redrafted(t) = f[N]
    BY <1>7 DEF Redrafted, Is, nums
  <2> QED BY <2>1
<1> HIDE DEF N
<1>9. f[0] = g[0]
  <2>1. f[0] = OneofsRedrafted(t)
    BY <1>3, <1>8 DEF Is
  <2> QED BY <1>3, <1>4, <2>1 DEF g
<1>10. ASSUME NEW n \in 1..N, f[n - 1] = g[n - 1] PROVE f[n] = g[n]
  <2>1. n \in 0..N /\ n # 0 /\ n - 1 \in 0..N
    BY <1>3
  <2>2. f[n] = UNION {add_field(d, t.fields[nums[n]]) : d \in f[n - 1]}
    BY <1>8, <2>1 DEF Is
  <2>3. g[n] = {C(n)} /\ g[n - 1] = {C(n - 1)}
    BY <2>1 DEF g
  <2> QED BY <1>5, <1>10, <2>2, <2>3
<1>11. f[N] = g[N]
  BY <1>3, <1>9, <1>10, Agree
<1> QED BY <1>3, <1>6, <1>8, <1>11 DEF g

-----------------------------------------------------------------------------
(* A type without conflicts keeps all that it was declared with *)

LEMMA MessageCrafted ==
    ASSUME BuildInv, NEW i, Building(i), TypeVerdict(Data) = "types",
           Item(Data.idx_path).kind = "Message", Conflictless(Item(Data.idx_path))
    PROVE  Crafted(BuiltMessage(Data))
<1> DEFINE item == Item(Data.idx_path)
           fs == FieldsInOrder(item)
           g == BuiltFields(fs, Data.full_name)
           h == [s \in {g[n].name : n \in DOMAIN g} |-> Max({n \in DOMAIN g : g[n].name = s})]
           m == BuiltMessage(Data)
<1>1. IsType(item) /\ Data.full_name \in Names
  BY DataKnown
<1>2. item.fields \in Seq(FieldDecl) /\ item.oneofs \in Seq(OneofDecl) /\ item.kind = "Message"
  BY <1>1 DEF IsType
<1>3. \A k \in DOMAIN fs : FieldVerdictIn(fs[k][1], Data.full_name) = "types"
  BY TypeVerdictIs
<1>4. g \in Maps(Nat, MessageField) /\ IsFiniteSet(DOMAIN g)
  <2> HIDE DEF item
  <2> QED BY <1>1, <1>2, <1>3, FieldsBuilt
<1>5. /\ m.kind = "Message" /\ m.fields = g /\ m.fields_by_name = h
      /\ DOMAIN m.oneofs = DOMAIN item.oneofs
      /\ \A o \in DOMAIN item.oneofs :
            m.oneofs[o].fields = InOrder({n \in DOMAIN g : g[n].oneof = o})
  BY DEF BuiltMessage, FieldsOfOneof
<1>6. fs \in Seq(FieldDecl \X ({NoOneof} \cup DOMAIN item.oneofs))
  <2> HIDE DEF item
  <2> QED BY <1>2, FieldsTyped DEF FieldIn
<1>7. \A j, k \in DOMAIN fs : fs[j][1].name = fs[k][1].name => j = k
  <2>1. \A j, k \in DOMAIN [l \in DOMAIN fs |-> fs[l][1]] :
           \/ [l \in DOMAIN fs |-> fs[l][1]][j].number = [l \in DOMAIN fs |-> fs[l][1]][k].number
           \/ [l \in DOMAIN fs |-> fs[l][1]][j].name = [l \in DOMAIN fs |-> fs[l][1]][k].name
           => j = k
    BY <1>2 DEF Conflictless
  <2> HIDE DEF fs
  <2> QED BY <2>1
<1>12. OneofsDiffer(m)
  <2>1. \A o \in DOMAIN item.oneofs : m.oneofs[o].name = item.oneofs[o].name
    BY DEF BuiltMessage
  <2>2. \A j, k \in DOMAIN item.oneofs : item.oneofs[j].name = item.oneofs[k].name => j = k
    BY <1>2 DEF Conflictless
  <2> HIDE DEF m, item
  <2> QED BY <1>5, <2>1, <2>2 DEF OneofsDiffer
<1> HIDE DEF m, item
<1>8. ASSUME NEW n \in DOMAIN g
      PROVE  \E k \in DOMAIN fs : fs[k][1].number = n /\ g[n].name = fs[k][1].name
  <2> DEFINE k == LastWithNumber(fs, n)
  <2> HIDE DEF fs
  <2>1. n \in {fs[l][1].number : l \in DOMAIN fs} /\ g[n] = BuiltField(fs[k][1], Data.full_name, fs[k][2])
    BY <1>8 DEF BuiltFields
  <2>2. k \in DOMAIN fs /\ fs[k][1].number = n
    BY <1>6, <2>1, LastIs
  <2> HIDE DEF k, g
  <2>3. g[n].name = fs[k][1].name
    BY <2>1 DEF BuiltField
  <2> QED BY <2>2, <2>3
<1> HIDE DEF fs
<1>9. \A j, n \in DOMAIN g : g[j].name = g[n].name => j = n
  <2> SUFFICES ASSUME NEW j \in DOMAIN g, NEW n \in DOMAIN g, g[j].name = g[n].name PROVE j = n
    OBVIOUS
  <2>1. PICK a \in DOMAIN fs : fs[a][1].number = j /\ g[j].name = fs[a][1].name
    BY <1>8
  <2>2. PICK b \in DOMAIN fs : fs[b][1].number = n /\ g[n].name = fs[b][1].name
    BY <1>8
  <2> HIDE DEF g
  <2> QED BY <1>7, <2>1, <2>2
<1> HIDE DEF g
<1>10. \A n \in DOMAIN g : h[g[n].name] = n
  <2>1. /\ \A n \in DOMAIN g : g[n].name \in DOMAIN h
        /\ \A s \in DOMAIN h : h[s] \in DOMAIN g /\ g[h[s]].name = s
    BY <1>4, NamesIndexed
  <2> HIDE DEF h
  <2> QED BY <1>9, <2>1
<1>11. DOMAIN h = {g[n].name : n \in DOMAIN g}
  OBVIOUS
<1> HIDE DEF h
<1> QED BY <1>4, <1>5, <1>10, <1>11, <1>12 DEF Crafted, m

LEMMA EnumCrafted ==
    ASSUME BuildInv, NEW i, Building(i), Item(Data.idx_path).kind = "Enum",
           Conflictless(Item(Data.idx_path))
    PROVE  Crafted(BuiltEnum(Data))
<1> DEFINE fs == Item(Data.idx_path).fields
           byNumber(n) == CHOOSE k \in DOMAIN fs :
                fs[k].number = n /\ \A j \in DOMAIN fs : fs[j].number = n => j <= k
           byName(s) == CHOOSE k \in DOMAIN fs :
                fs[k].name = s /\ \A j \in DOMAIN fs : fs[j].name = s => j <= k
           numbers == {fs[k].number : k \in DOMAIN fs}
           names == {fs[k].name : k \in DOMAIN fs}
           g == [n \in numbers |-> fs[byNumber(n)]]
           h == [s \in names |-> fs[byName(s)].number]
           m == BuiltEnum(Data)
<1>1. IsType(Item(Data.idx_path))
  BY DataKnown
<1>2. fs \in Seq(EnumField)
  BY <1>1 DEF IsType
<1>3. m.kind = "Enum" /\ m.fields = g /\ m.fields_by_name = h /\ DOMAIN m.oneofs = {}
  BY DEF BuiltEnum
<1>4. \A j, k \in DOMAIN fs : fs[j].number = fs[k].number \/ fs[j].name = fs[k].name => j = k
  BY DEF Conflictless
<1> HIDE DEF m, fs
<1>5. DOMAIN fs \subseteq Nat /\ DOMAIN fs = 1..Len(fs) /\ Len(fs) \in Nat
  BY <1>2
<1>6. ASSUME NEW k \in DOMAIN fs
      PROVE  byNumber(fs[k].number) = k /\ byName(fs[k].name) = k
  <2>1. k <= k
    BY <1>5
  <2>2. \A j \in DOMAIN fs : fs[j].number = fs[k].number => j = k
    BY <1>4
  <2>3. \A j \in DOMAIN fs : fs[j].name = fs[k].name => j = k
    BY <1>4
  <2> QED BY <2>1, <2>2, <2>3
<1> HIDE DEF byNumber, byName
<1>7. \A k \in DOMAIN fs : g[fs[k].number] = fs[k] /\ h[fs[k].name] = fs[k].number
  BY <1>6
<1>8. DOMAIN g = numbers /\ DOMAIN h = names
  OBVIOUS
<1> HIDE DEF g, h
<1>9. IsFiniteSet(numbers)
  <2> DEFINE N == Len(fs)
             f == [k \in 1..N |-> fs[k].number]
  <2> HIDE DEF N
  <2>1. DOMAIN f = 1..N
    OBVIOUS
  <2>2. IsFiniteSet({f[k] : k \in DOMAIN f})
    <3> HIDE DEF f
    <3> QED BY <1>5, <2>1, FiniteRange DEF N
  <2>3. {f[k] : k \in DOMAIN f} = numbers
    BY <1>5 DEF N
  <2> QED BY <2>2, <2>3
<1>10. \A n \in DOMAIN g : \E k \in DOMAIN fs : n = fs[k].number /\ g[n] = fs[k]
  BY <1>7, <1>8
<1>11. names = {g[n].name : n \in DOMAIN g}
  <2>1. ASSUME NEW k \in DOMAIN fs PROVE \E n \in DOMAIN g : g[n].name = fs[k].name
    BY <1>7, <1>8
  <2> QED BY <1>10, <2>1
<1>12. \A n \in DOMAIN g : h[g[n].name] = n
  BY <1>7, <1>10
<1> HIDE DEF numbers, names
<1> QED BY <1>3, <1>8, <1>9, <1>11, <1>12 DEF Crafted, OneofsDiffer, m

Crafts(t, i) == Conflictless(Item(cache.types[i].idx_path)) => Crafted(t)
AllCrafted == \A i \in DOMAIN built.types : Crafts(built.types[i], i)

LEMMA SameCrafts ==
    ASSUME files' = files, cache' = cache, NEW t, NEW i, Crafts(t, i)
    PROVE  Crafts(t, i)'
<1>1. Item(cache.types[i].idx_path)' = Item(cache.types[i].idx_path)
  BY SameFiles
<1>2. Conflictless(Item(cache.types[i].idx_path))' = Conflictless(Item(cache.types[i].idx_path))
  BY <1>1 DEF Conflictless, FieldsInOrder
<1> QED BY <1>2 DEF Crafts, Crafted, OneofsDiffer, InOrder

LEMMA BuildTypeCrafts ==
    ASSUME BuildInv, AllCrafted, BuildType
    PROVE  AllCrafted'
<1> DEFINE i == Len(built.types) + 1
           t == IF Item(Data.idx_path).kind = "Message" THEN BuiltMessage(Data) ELSE BuiltEnum(Data)
<1>1. Building(i) /\ files' = files /\ cache' = cache
  BY DEF BuildType, Building
<1>2. CASE status' # "types"
  <2>1. built' = built
    BY <1>2 DEF BuildType
  <2> QED BY <1>1, <2>1, SameCrafts DEF AllCrafted
<1>3. CASE status' = "types"
  <2>1. built' = [built EXCEPT !.types = Append(built.types, t)]
    BY <1>3 DEF BuildType
  <2>2. Crafts(t, i)
    <3>1. Item(Data.idx_path).kind \in TypeKinds /\ Data = cache.types[i]
      BY <1>1, DataKnown DEF IsType
    <3>2. TypeVerdict(Data) = "types"
      BY <1>3 DEF BuildType
    <3> HIDE DEF i
    <3> QED BY <1>1, <3>1, <3>2, MessageCrafted, EnumCrafted DEF TypeKinds, Crafts
  <2> HIDE DEF t
  <2>3. built \in [types : Seq(TypeInfo), services : Seq(ServiceInfo)]
    BY DEF BuildInv, BuildTyped
  <2>4. built'.types = Append(built.types, t)
    BY <2>1, <2>3
  <2>5. /\ built'.types[i] = t
        /\ \A k \in DOMAIN built'.types : k = i \/ k \in DOMAIN built.types
        /\ \A k \in DOMAIN built.types : built'.types[k] = built.types[k]
    BY <2>3, <2>4
  <2>6. ASSUME NEW k \in DOMAIN built'.types, NEW u, u = built'.types[k] PROVE Crafts(u, k)'
    <3>1. Crafts(u, k)
      BY <2>2, <2>5, <2>6 DEF AllCrafted
    <3> QED BY <1>1, <3>1, SameCrafts
  <2> QED BY <2>6 DEF AllCrafted
<1> QED BY <1>2, <1>3

-----------------------------------------------------------------------------
(* The inner types of a message are in the order of their indices *)

\* Two inner declarations of one message, the first before the second.
Elder(e, d) ==
    \E p \in Seq(Nat) : \E i, k \in Nat :
        Len(p) >= 2 /\ e = Append(p, i) /\ d = Append(p, k) /\ i < k

ElderFirst(s) == \A x, y \in DOMAIN s : x < y => ~Elder(s[y].idx, s[x].idx)

OrderOK ==
    /\ ElderFirst(agenda)
    /\ \A k \in DOMAIN agenda : \A j \in DOMAIN cache.types :
          ~Elder(agenda[k].idx, cache.types[j].idx_path)
    /\ \A i, j \in DOMAIN cache.types :
          Elder(cache.types[i].idx_path, cache.types[j].idx_path) => i < j

LEMMA ElderIs ==
    ASSUME NEW e, NEW d, Elder(e, d)
    PROVE  /\ e \in Seq(Nat) /\ d \in Seq(Nat) /\ Len(e) = Len(d) /\ Len(e) > 2
           /\ Front(e) = Front(d) /\ Front(e) \in Seq(Nat) /\ Len(e) = Len(Front(e)) + 1
           /\ e[Len(e)] < d[Len(d)]
<1>1. PICK p \in Seq(Nat), i \in Nat, k \in Nat :
         Len(p) >= 2 /\ e = Append(p, i) /\ d = Append(p, k) /\ i < k
  BY DEF Elder
<1>2. /\ e \in Seq(Nat) /\ Len(e) = Len(p) + 1 /\ e[Len(e)] = i /\ Front(e) = p
  BY <1>1, PathParts
<1>3. /\ d \in Seq(Nat) /\ Len(d) = Len(p) + 1 /\ d[Len(d)] = k /\ Front(d) = p
  BY <1>1, PathParts
<1>4. Len(p) \in Nat
  OBVIOUS
<1> QED BY <1>1, <1>2, <1>3, <1>4

LEMMA ConcatElders ==
    ASSUME NEW S, NEW a \in Seq(S), NEW b \in Seq(S), ElderFirst(a), ElderFirst(b),
           \A v, w : Has(a, v) /\ Has(b, w) => ~Elder(w.idx, v.idx)
    PROVE  ElderFirst(a \o b)
<1>1. /\ Len(a) \in Nat /\ Len(b) \in Nat /\ DOMAIN a = 1..Len(a) /\ DOMAIN b = 1..Len(b)
      /\ DOMAIN (a \o b) = 1..(Len(a) + Len(b))
  OBVIOUS
<1>2. ASSUME NEW k \in DOMAIN (a \o b)
      PROVE  \/ k \in 1..Len(a) /\ (a \o b)[k] = a[k]
             \/ k - Len(a) \in 1..Len(b) /\ (a \o b)[k] = b[k - Len(a)]
  <2>1. CASE k \in 1..Len(a)
    BY <1>1, <2>1
  <2>2. CASE k \notin 1..Len(a)
    BY <1>1, <2>2
  <2> QED BY <2>1, <2>2
<1>3. \A j, k : j \in 1..Len(a) /\ k \in 1..Len(b) => ~Elder(b[k].idx, a[j].idx)
  BY <1>1 DEF Has
<1>4. ASSUME NEW x \in DOMAIN (a \o b), NEW y \in DOMAIN (a \o b), x < y
      PROVE  ~Elder((a \o b)[y].idx, (a \o b)[x].idx)
  <2> DEFINE c == a \o b
             n == Len(a)
  <2>1. x \in Nat /\ y \in Nat /\ n \in Nat
    BY <1>1
  <2>2. \/ x \in 1..n /\ c[x] = a[x]
        \/ x - n \in 1..Len(b) /\ c[x] = b[x - n]
    BY <1>2
  <2>3. \/ y \in 1..n /\ c[y] = a[y]
        \/ y - n \in 1..Len(b) /\ c[y] = b[y - n]
    BY <1>2
  <2> HIDE DEF c
  <2>4. CASE x \in 1..n /\ y \in 1..n /\ c[x] = a[x] /\ c[y] = a[y]
    BY <1>1, <1>4, <2>4 DEF ElderFirst, c
  <2>5. CASE x - n \in 1..Len(b) /\ y - n \in 1..Len(b) /\ c[x] = b[x - n] /\ c[y] = b[y - n]
    <3>1. x - n < y - n
      BY <1>4, <2>1
    <3> HIDE DEF n
    <3> QED BY <1>1, <2>5, <3>1 DEF ElderFirst, c
  <2>6. CASE x \in 1..n /\ y - n \in 1..Len(b) /\ c[x] = a[x] /\ c[y] = b[y - n]
    BY <1>3, <2>6 DEF c
  <2>7. ~(x - n \in 1..Len(b) /\ y \in 1..n)
    BY <1>4, <2>1
  <2> HIDE DEF n
  <2> QED BY <2>2, <2>3, <2>4, <2>5, <2>6, <2>7 DEF c
<1> QED BY <1>4 DEF ElderFirst

LEMMA TailElders ==
    ASSUME NEW S, NEW s \in Seq(S), s # <<>>, ElderFirst(s)
    PROVE  ElderFirst(Tail(s)) /\ \A w : Has(Tail(s), w) => ~Elder(w.idx, Head(s).idx)
<1>1. /\ Len(s) \in Nat /\ Len(s) >= 1 /\ DOMAIN s = 1..Len(s) /\ Head(s) = s[1]
      /\ DOMAIN Tail(s) = 1..(Len(s) - 1)
      /\ \A k \in 1..(Len(s) - 1) : Tail(s)[k] = s[k + 1]
  OBVIOUS
<1>2. \A k \in 1..(Len(s) - 1) : k + 1 \in 1..Len(s) /\ 1 < k + 1
  BY <1>1
<1>3. 1 \in 1..Len(s)
  BY <1>1
<1>4. ASSUME NEW x \in DOMAIN Tail(s), NEW y \in DOMAIN Tail(s), x < y
      PROVE  ~Elder(Tail(s)[y].idx, Tail(s)[x].idx)
  <2>1. x + 1 < y + 1
    BY <1>1, <1>4
  <2> QED BY <1>1, <1>2, <2>1 DEF ElderFirst
<1>5. ASSUME NEW w, Has(Tail(s), w) PROVE ~Elder(w.idx, Head(s).idx)
  <2>1. PICK k \in 1..(Len(s) - 1) : s[k + 1] = w
    BY <1>1, <1>5 DEF Has
  <2> QED BY <1>1, <1>2, <1>3, <2>1 DEF ElderFirst
<1> QED BY <1>4, <1>5 DEF ElderFirst

\* The declaration that is visited, and the types after it.
Cached ==
    \/ cache'.types = cache.types
    \/ /\ DOMAIN cache'.types = DOMAIN cache.types \cup {Len(cache.types) + 1}
       /\ cache'.types[Len(cache.types) + 1].idx_path = Visit.idx
       /\ \A j \in DOMAIN cache.types : cache'.types[j] = cache.types[j]

LEMMA EnterCaches ==
    ASSUME BuildInv, NEW kind \in TypeKinds, NEW i, EnterType(kind, i)
    PROVE  Cached
<1> DEFINE d == CacheData(kind, i)
<1>1. cache \in CacheType /\ cache.types \in Seq(CacheDatum)
  BY DEF BuildInv, BuildTyped, CacheType
<1>2. cache'.types = Append(cache.types, d) /\ d.idx_path = Visit.idx
  BY <1>1 DEF CacheType, EnterType, CacheData
<1> HIDE DEF d
<1>3. Visit.idx \in Seq(Nat) /\ FullPath \in Names
  BY VisitKnown DEF Known, EnterType
<1>4. i \in Nat /\ kind \in ItemKinds
  BY <1>1 DEF ItemKinds, EnterType
<1>5. d \in CacheDatum
  BY <1>3, <1>4 DEF d, CacheData, CacheDatum
<1> QED BY <1>1, <1>2, <1>5, AppendHas DEF Cached

LEMMA PopulateCaches ==
    ASSUME BuildInv, PopulateMessage \/ PopulateEnum \/ PopulateService
    PROVE  Cached
<1>1. cache \in CacheType
  BY DEF BuildInv, BuildTyped
<1>2. CASE PopulateMessage
  <2>1. EnterType("Message", Len(cache.types) + 1)
    BY <1>2 DEF PopulateMessage, EnterType
  <2> QED BY <2>1, EnterCaches DEF TypeKinds
<1>3. CASE PopulateEnum
  <2>1. agenda' = InnerOf(Visit.idx, FullPath) \o Tail(agenda)
    BY <1>3, NoInner DEF PopulateEnum
  <2>2. EnterType("Enum", Len(cache.types) + 1)
    BY <1>1, <1>3, <2>1 DEF PopulateEnum, EnterType, CacheType
  <2> QED BY <2>2, EnterCaches DEF TypeKinds
<1>4. CASE PopulateService
  <2>1. PICK a, b : cache' = [cache EXCEPT !.items = a, !.services = b]
    BY <1>4 DEF PopulateService
  <2> QED BY <1>1, <2>1 DEF CacheType, Cached
<1> QED BY <1>2, <1>3, <1>4

LEMMA OrderAfterVisit ==
    ASSUME BuildInv, OrderOK, Visited, Cached
    PROVE  OrderOK'
<1> DEFINE p == Visit.idx
           new == InnerOf(p, FullPath)
           rest == Tail(agenda)
           n == Len(cache.types) + 1
<1>1. /\ files \in Files /\ Known(p) /\ FullPath \in Names
      /\ p \notin DOMAIN cache.items_by_idx /\ p \in Seq(Nat) /\ Len(p) >= 2
  BY VisitKnown, NewPath DEF Known, Visited
<1>2. agenda \in Seq(Task) /\ agenda # <<>> /\ cache.types \in Seq(CacheDatum)
  BY DEF BuildInv, BuildTyped, Task, Visited, CacheType
<1>3. /\ rest \in Seq(Task) /\ ElderFirst(rest) /\ \A w : Has(rest, w) => ~Elder(w.idx, p)
      /\ \A v : Has(agenda, v) <=> v = Visit \/ Has(rest, v)
  BY <1>2, TailHas, TailElders DEF OrderOK, Visit
<1> HIDE DEF rest
<1>4. ASSUME NEW e, Len(e) > 2, Front(e) = p
      PROVE  /\ \A v : Has(agenda, v) => v.idx # e
             /\ \A j \in DOMAIN cache.types : cache.types[j].idx_path # e
  <2>1. ASSUME NEW v, Has(agenda, v), v.idx = e PROVE FALSE
    <3>1. PICK k \in DOMAIN agenda : agenda[k] = v
      BY <2>1 DEF Has
    <3>2. Front(agenda[k].idx) \in DOMAIN cache.items_by_idx
      BY <1>4, <2>1, <3>1 DEF BuildInv, AgendaOK
    <3> QED BY <1>1, <1>4, <2>1, <3>1, <3>2
  <2>2. ASSUME NEW j \in DOMAIN cache.types, cache.types[j].idx_path = e PROVE FALSE
    <3>1. TypeCached(j)
      BY DEF BuildInv, CacheOK
    <3>2. Front(cache.types[j].idx_path) \in DOMAIN cache.items_by_idx
      BY <1>4, <2>2, <3>1 DEF TypeCached
    <3> QED BY <1>1, <1>4, <2>2, <3>2
  <2> QED BY <2>1, <2>2
<1>5. /\ DOMAIN Item(p).inner \subseteq Nat
      /\ \A k \in DOMAIN Item(p).inner :
            /\ Append(p, k) \in Seq(Nat) /\ Len(Append(p, k)) = Len(p) + 1
            /\ Len(Append(p, k)) > 2 /\ Front(Append(p, k)) = p
            /\ Append(p, k)[Len(Append(p, k))] = k
  <2>1. Item(p).inner \in Seq(Types)
    <3>1. CASE IsType(Item(p))
      BY <3>1 DEF IsType
    <3>2. CASE IsService(Item(p))
      BY <3>2 DEF IsService
    <3> QED BY <1>1, <3>1, <3>2, KnownItem
  <2>2. DOMAIN Item(p).inner \subseteq Nat
    BY <2>1
  <2>3. Len(p) \in Nat
    BY <1>1
  <2> HIDE DEF p
  <2> QED BY <1>1, <2>2, <2>3, PathParts
<1>6. ASSUME NEW v
      PROVE  Has(new, v) <=> \E k \in DOMAIN Item(p).inner :
                                v = [idx |-> Append(p, k), path |-> FullPath]
  BY DEF Has, InnerOf
<1>7. ElderFirst(new)
  <2> SUFFICES ASSUME NEW x \in DOMAIN new, NEW y \in DOMAIN new, x < y,
                      Elder(new[y].idx, new[x].idx)
               PROVE  FALSE
    BY DEF ElderFirst
  <2>1. x \in DOMAIN Item(p).inner /\ y \in DOMAIN Item(p).inner
    BY DEF InnerOf
  <2>2. new[x].idx = Append(p, x) /\ new[y].idx = Append(p, y)
    BY <2>1 DEF InnerOf
  <2>3. Elder(Append(p, y), Append(p, x))
    BY <2>2
  <2>4. Append(p, y)[Len(Append(p, y))] < Append(p, x)[Len(Append(p, x))]
    BY <2>3, ElderIs
  <2>5. y < x
    BY <1>5, <2>1, <2>4
  <2>6. x \in Nat /\ y \in Nat
    BY <1>5, <2>1
  <2> QED BY <2>5, <2>6
<1>8. ASSUME NEW v, Has(new, v)
      PROVE  /\ \A e : Elder(e, v.idx) \/ Elder(v.idx, e) =>
                    /\ \A w : Has(agenda, w) => w.idx # e
                    /\ \A j \in DOMAIN cache.types : cache.types[j].idx_path # e
             /\ ~Elder(v.idx, p)
  <2>1. PICK k \in DOMAIN Item(p).inner : v = [idx |-> Append(p, k), path |-> FullPath]
    BY <1>6, <1>8
  <2> DEFINE b == v.idx
  <2>2. Front(b) = p /\ Len(b) > 2 /\ Len(b) = Len(p) + 1 /\ Len(p) \in Nat
    BY <1>1, <1>5, <2>1
  <2> HIDE DEF p, b
  <2>3. ASSUME NEW e, Elder(e, b) \/ Elder(b, e) PROVE Len(e) > 2 /\ Front(e) = p
    <3>1. Len(e) = Len(b) /\ Front(e) = Front(b)
      BY <2>3, ElderIs
    <3> QED BY <2>2, <3>1
  <2>4. ~Elder(b, p)
    <3>1. Elder(b, p) => Len(b) = Len(p)
      BY ElderIs
    <3> QED BY <2>2, <3>1
  <2> QED BY <1>4, <2>3, <2>4 DEF b
<1>9. new \in Seq(Task)
  <2>1. Item(p).inner \in Seq(Types)
    <3>1. CASE IsType(Item(p))
      BY <3>1 DEF IsType
    <3>2. CASE IsService(Item(p))
      BY <3>2 DEF IsService
    <3> QED BY <1>1, <3>1, <3>2, KnownItem
  <2>2. DOMAIN Item(p).inner = 1..Len(Item(p).inner) /\ Len(Item(p).inner) \in Nat
    BY <2>1
  <2>3. \A k \in DOMAIN Item(p).inner : [idx |-> Append(p, k), path |-> FullPath] \in Task
    <3> HIDE DEF p
    <3> QED BY <1>1, <1>5 DEF Task
  <2> HIDE DEF p
  <2> QED BY <2>2, <2>3 DEF InnerOf
<1> HIDE DEF new
<1>10. agenda' = new \o rest
  BY DEF Visited, new, rest
<1>11. ElderFirst(agenda')
  <2>1. ASSUME NEW v, NEW w, Has(new, v), Has(rest, w) PROVE ~Elder(w.idx, v.idx)
    BY <1>3, <1>8, <2>1
  <2>2. ElderFirst(new \o rest)
    BY <1>3, <1>7, <1>9, <2>1, ConcatElders
  <2> QED BY <1>10, <2>2
<1>12. \A v : Has(agenda', v) <=> Has(new, v) \/ Has(rest, v)
  <2>1. \A v : Has(new \o rest, v) <=> Has(new, v) \/ Has(rest, v)
    BY <1>3, <1>9, ConcatHas
  <2> QED BY <1>10, <2>1
<1>13. ASSUME NEW v, Has(agenda', v)
       PROVE  /\ \A j \in DOMAIN cache.types : ~Elder(v.idx, cache.types[j].idx_path)
              /\ ~Elder(v.idx, p)
  <2>1. CASE Has(new, v)
    BY <1>8, <2>1
  <2>2. CASE Has(rest, v)
    <3>1. PICK k \in DOMAIN agenda : agenda[k] = v
      BY <1>3, <2>2 DEF Has
    <3> QED BY <1>3, <2>2, <3>1 DEF OrderOK
  <2> QED BY <1>12, <1>13, <2>1, <2>2
<1>14. \A j \in DOMAIN cache.types : ~Elder(p, cache.types[j].idx_path)
  <2>1. 1 \in DOMAIN agenda /\ agenda[1] = Visit
    BY <1>2 DEF Visit
  <2> QED BY <2>1 DEF OrderOK
<1>15. ~Elder(p, p)
  <2>1. Elder(p, p) => p[Len(p)] < p[Len(p)] /\ p \in Seq(Nat) /\ Len(p) > 2
    BY ElderIs
  <2>2. p \in Seq(Nat) /\ Len(p) > 2 => p[Len(p)] \in Nat
    OBVIOUS
  <2> HIDE DEF p
  <2> QED BY <2>1, <2>2
<1>16. n \in Nat /\ \A j \in DOMAIN cache.types : j \in Nat /\ j < n
  BY <1>2
<1>17. ASSUME NEW j \in DOMAIN cache'.types
       PROVE  \/ j \in DOMAIN cache.types /\ cache'.types[j] = cache.types[j]
              \/ j = n /\ cache'.types[j].idx_path = p
  BY DEF Cached
<1> HIDE DEF p, n
<1>18. \A k \in DOMAIN agenda' : \A j \in DOMAIN cache'.types :
          ~Elder(agenda'[k].idx, cache'.types[j].idx_path)
  BY <1>13, <1>17 DEF Has
<1>19. ASSUME NEW i \in DOMAIN cache'.types, NEW j \in DOMAIN cache'.types,
              Elder(cache'.types[i].idx_path, cache'.types[j].idx_path)
       PROVE  i < j
  <2>1. CASE j \in DOMAIN cache.types /\ cache'.types[j] = cache.types[j]
    <3>1. CASE i \in DOMAIN cache.types /\ cache'.types[i] = cache.types[i]
      BY <1>19, <2>1, <3>1 DEF OrderOK
    <3>2. CASE i = n /\ cache'.types[i].idx_path = p
      BY <1>14, <1>19, <2>1, <3>2
    <3> QED BY <1>17, <3>1, <3>2
  <2>2. CASE j = n /\ cache'.types[j].idx_path = p
    <3>1. CASE i \in DOMAIN cache.types
      BY <1>16, <2>2, <3>1
    <3>2. CASE i = n /\ cache'.types[i].idx_path = p
      BY <1>15, <1>19, <2>2, <3>2
    <3> QED BY <1>17, <3>1, <3>2
  <2> QED BY <1>17, <2>1, <2>2
<1> QED BY <1>11, <1>18, <1>19 DEF OrderOK, ElderFirst

LEMMA OrderAtFirst == BuildInit => OrderOK
<1> SUFFICES ASSUME BuildInit PROVE OrderOK
  OBVIOUS
<1>1. files \in Files /\ agenda = TopLevel(files) /\ cache.types = <<>>
  BY DEF BuildInit
<1>2. ASSUME NEW x \in DOMAIN agenda, NEW e PROVE ~Elder(e, agenda[x].idx)
  <2>1. Has(TopLevel(files), agenda[x])
    BY <1>1 DEF Has
  <2>2. PICK f \in DOMAIN files : \E i \in DOMAIN files[f].items :
            agenda[x] = [idx |-> <<f, i>>, path |-> files[f].name]
    BY <1>1, <2>1, TopTasks
  <2>3. PICK i \in DOMAIN files[f].items : agenda[x] = [idx |-> <<f, i>>, path |-> files[f].name]
    BY <2>2
  <2> DEFINE d == agenda[x].idx
  <2>4. Len(d) = 2
    BY <2>3
  <2> HIDE DEF d
  <2>5. Elder(e, d) => Len(e) = Len(d) /\ Len(e) > 2
    BY ElderIs
  <2>6. ~Elder(e, d)
    <3>1. ASSUME Elder(e, d) PROVE FALSE
      <4>1. Len(e) = 2 /\ Len(e) > 2
        BY <2>4, <2>5, <3>1
      <4> QED BY <4>1
    <3> QED BY <3>1
  <2> QED BY <2>6 DEF d
<1> QED BY <1>1, <1>2 DEF OrderOK, ElderFirst

-----------------------------------------------------------------------------
(* The types in the order of the insertions *)

\* What an owner lists when n of the types are there.
Kids(o, n) ==
    LET own == InOrder({i \in 1..n : built.types[i].parent = o})
    IN  [k \in DOMAIN own |-> Handle(own[k])]

LEMMA KidsAre ==
    ASSUME NEW o, NEW n \in Nat
    PROVE  LET own == InOrder({i \in 1..n : built.types[i].parent = o})
           IN  /\ own \in Seq(Nat) /\ \A k \in DOMAIN own : own[k] \in 1..n
               /\ IsFiniteSet({i \in 1..n : built.types[i].parent = o})
               /\ Kids(o, n) = [k \in 1..Len(own) |-> Handle(own[k])]
<1> DEFINE S == {i \in 1..n : built.types[i].parent = o}
           own == InOrder(S)
<1>1. S \in SUBSET Nat /\ IsFiniteSet(S) /\ S \subseteq 1..n
  <2>1. IsFiniteSet(1..n)
    BY FS_Interval
  <2>2. S \subseteq 1..n /\ S \subseteq Nat
    OBVIOUS
  <2> HIDE DEF S
  <2> QED BY <2>1, <2>2, FS_Subset
<1>2. own \in Seq(Nat) /\ \A x : Has(own, x) <=> x \in S
  <2> HIDE DEF S
  <2> QED BY <1>1, OrderedIs
<1>3. Kids(o, n) = [k \in DOMAIN own |-> Handle(own[k])]
  BY DEF Kids
<1> HIDE DEF own, S
<1>4. DOMAIN own = 1..Len(own)
  BY <1>2
<1>5. \A k \in DOMAIN own : own[k] \in 1..n
  BY <1>1, <1>2 DEF Has
<1> QED BY <1>1, <1>2, <1>3, <1>4, <1>5 DEF own, S

LEMMA KidsMore ==
    ASSUME NEW o, NEW n \in Nat \ {0}
    PROVE  /\ built.types[n].parent = o => Kids(o, n) = Append(Kids(o, n - 1), Handle(n))
           /\ built.types[n].parent # o => Kids(o, n) = Kids(o, n - 1)
<1> DEFINE h == n - 1
           S == {i \in 1..h : built.types[i].parent = o}
           T == {i \in 1..n : built.types[i].parent = o}
           own == InOrder(S)
           all == InOrder(T)
<1>1. h \in Nat /\ n \in Nat /\ n = h + 1
  OBVIOUS
<1> HIDE DEF h
<1>2. /\ own \in Seq(Nat) /\ IsFiniteSet(S)
      /\ Kids(o, h) = [k \in 1..Len(own) |-> Handle(own[k])]
  BY <1>1, KidsAre
<1>3. all \in Seq(Nat) /\ Kids(o, n) = [k \in 1..Len(all) |-> Handle(all[k])]
  <2>1. \A x \in Nat : LET list == InOrder({i \in 1..x : built.types[i].parent = o})
                      IN  /\ list \in Seq(Nat)
                          /\ Kids(o, x) = [k \in 1..Len(list) |-> Handle(list[k])]
    BY KidsAre
  <2> QED BY <1>1, <2>1
<1>4. CASE built.types[n].parent = o
  <2>1. T = S \cup {n}
    BY <1>1, <1>4
  <2>2. S \in SUBSET Nat /\ \A i \in S : i < n
    BY <1>1
  <2> HIDE DEF S, T
  <2>3. all = Append(own, n)
    BY <1>1, <1>2, <2>1, <2>2, OrderedMore
  <2> HIDE DEF own, all
  <2> DEFINE L == Len(own)
             kids == Kids(o, h)
  <2>4. L \in Nat /\ kids = [k \in 1..L |-> Handle(own[k])]
    BY <1>2
  <2>5. Len(all) = L + 1 /\ all[L + 1] = n /\ \A k \in 1..L : all[k] = own[k]
    BY <1>1, <1>2, <2>3
  <2>6. Kids(o, n) = [k \in 1..(L + 1) |-> Handle(all[k])]
    BY <1>3, <2>5
  <2> HIDE DEF L, kids
  <2>7. Len(kids) = L /\ DOMAIN kids = 1..L
    BY <2>4
  <2>8. Append(kids, Handle(n))
          = [k \in 1..(L + 1) |-> IF k = L + 1 THEN Handle(n) ELSE kids[k]]
    BY <2>4, <2>7
  <2>9. \A k \in 1..(L + 1) : Handle(all[k]) = IF k = L + 1 THEN Handle(n) ELSE kids[k]
    BY <2>4, <2>5
  <2>10. Kids(o, n) = Append(kids, Handle(n))
    BY <2>6, <2>8, <2>9
  <2> QED BY <1>4, <2>10 DEF kids, h
<1>5. CASE built.types[n].parent # o
  <2>1. T = S
    BY <1>1, <1>5
  <2>2. Kids(o, n) = Kids(o, h)
    BY <1>2, <1>3, <2>1
  <2> QED BY <1>5, <2>2 DEF h
<1> QED BY <1>4, <1>5

LEMMA KidsNone == ASSUME NEW o PROVE Kids(o, 0) = <<>>
<1>1. {i \in 1..0 : built.types[i].parent = o} = {}
  OBVIOUS
<1>2. DOMAIN InOrder({i \in 1..0 : built.types[i].parent = o}) = {}
  BY <1>1, OrderedNone
<1> QED BY <1>2 DEF Kids

\* A package and a message list their types in the order they were built in.
LEMMA TopTypesOrdered ==
    ASSUME Complete, NEW f
    PROVE  TopTypes(f) = Kids([of |-> "Package", ref |-> f], Len(built.types))
<1> DEFINE N == Len(built.types)
           o == [of |-> "Package", ref |-> f]
           S == {i \in DOMAIN built.types : built.types[i].parent = o}
           own == InOrder(S)
<1>1. DOMAIN built.types = 1..N /\ N \in Nat
  <2>1. built.types \in Seq(TypeInfo)
    BY DEF Complete, BuildInv, BuildTyped
  <2> QED BY <2>1
<1>2. \A k \in DOMAIN own : own[k] \in DOMAIN built.types
  <2>1. S = {i \in 1..N : built.types[i].parent = o}
    BY <1>1
  <2> HIDE DEF N, o
  <2> QED BY <1>1, <2>1, KidsAre
<1>3. \A k \in DOMAIN own : RefTo(built.types[own[k]]) = Handle(own[k])
  BY <1>2, TypeComplete
<1>4. TopTypes(f) = [k \in DOMAIN own |-> RefTo(built.types[own[k]])]
  BY DEF TopTypes
<1>5. Kids(o, N) = [k \in DOMAIN own |-> Handle(own[k])]
  BY <1>1 DEF Kids
<1> HIDE DEF own, N
<1>6. TopTypes(f) = [k \in DOMAIN own |-> Handle(own[k])]
  BY <1>3, <1>4
<1> QED BY <1>5, <1>6 DEF N

LEMMA InnerTypesOrdered ==
    ASSUME Complete, OrderOK, NEW m \in DOMAIN built.types, built.types[m].kind = "Message"
    PROVE  built.types[m].inner_types
             = Kids([of |-> "Message", ref |-> m], Len(built.types))
<1> DEFINE N == Len(built.types)
           o == [of |-> "Message", ref |-> m]
           p == cache.types[m].idx_path
           inner == built.types[m].inner_types
           s == [k \in DOMAIN inner |-> inner[k].ref]
           S == {i \in 1..N : built.types[i].parent = o}
<1>1. DOMAIN built.types = 1..N /\ N \in Nat
  <2>1. built.types \in Seq(TypeInfo)
    BY DEF Complete, BuildInv, BuildTyped
  <2> QED BY <2>1
<1>2. Lists(inner, o)
  BY InnerTypesAre
<1>3. Known(p) /\ \A k \in DOMAIN inner : \E i \in DOMAIN built.types :
         /\ cache.types[i].idx_path = Append(p, k) /\ built.types[i].parent = o
         /\ inner[k] = Handle(i)
  BY InnerTypeIs
<1>4. built.types[m] \in TypeInfo
  BY TypeComplete
<1>5. inner \in Seq(TypeRef)
  BY <1>4 DEF TypeInfo, MessageInfo, EnumInfo
<1>6. p \in Seq(Nat) /\ Len(p) >= 2
  BY <1>3 DEF Known
<1> HIDE DEF inner, p, o, N
<1>7. DOMAIN inner = 1..Len(inner) /\ Len(inner) \in Nat
  BY <1>5
<1>8. \A i : Handle(i).ref = i
  BY DEF Handle
<1>9. ASSUME NEW k \in DOMAIN inner
      PROVE  /\ inner[k] = Handle(s[k]) /\ s[k] \in S
             /\ cache.types[s[k]].idx_path = Append(p, k)
  <2>1. PICK i \in DOMAIN built.types :
            /\ cache.types[i].idx_path = Append(p, k) /\ built.types[i].parent = o
            /\ inner[k] = Handle(i)
    BY <1>3
  <2>2. s[k] = i
    BY <1>8, <2>1
  <2> QED BY <1>1, <2>1, <2>2
<1>10. DOMAIN s = 1..Len(inner) /\ s \in Seq(Nat)
  <2>1. DOMAIN s = 1..Len(inner)
    BY <1>7
  <2>2. \A k \in 1..Len(inner) : s[k] \in Nat
    BY <1>1, <1>7, <1>9
  <2>3. s = [k \in 1..Len(inner) |-> s[k]]
    BY <1>7
  <2> HIDE DEF s
  <2> QED BY <1>7, <2>1, <2>2, <2>3
<1>11. Increasing(s)
  <2> SUFFICES ASSUME NEW j \in DOMAIN s, NEW k \in DOMAIN s, j < k PROVE s[j] < s[k]
    BY DEF Increasing
  <2>1. j \in DOMAIN inner /\ k \in DOMAIN inner /\ j \in Nat /\ k \in Nat
    BY <1>7, <1>10
  <2>2. Elder(Append(p, j), Append(p, k))
    BY <1>6, <2>1 DEF Elder
  <2>3. s[j] \in DOMAIN cache.types /\ s[k] \in DOMAIN cache.types
    BY <1>1, <1>9, <2>1, TypeComplete
  <2> HIDE DEF s
  <2> QED BY <1>9, <2>1, <2>2, <2>3 DEF OrderOK
<1>12. ASSUME NEW x PROVE Has(s, x) <=> x \in S
  <2>1. ASSUME Has(s, x) PROVE x \in S
    BY <1>7, <1>9, <1>10, <2>1 DEF Has
  <2>2. ASSUME x \in S PROVE Has(s, x)
    <3>1. x \in DOMAIN built.types /\ built.types[x].parent = o
      BY <1>1, <2>2
    <3>2. PICK k \in DOMAIN inner : inner[k] = Handle(x)
      BY <1>2, <3>1 DEF Lists
    <3>3. s[k] = x /\ k \in DOMAIN s
      BY <1>8, <3>2
    <3> QED BY <3>3 DEF Has
  <2> QED BY <2>1, <2>2
<1>13. S \in SUBSET Nat
  OBVIOUS
<1>14. Kids(o, N) = [k \in DOMAIN InOrder(S) |-> Handle(InOrder(S)[k])]
  BY DEF Kids
<1>15. DOMAIN s = DOMAIN inner
  OBVIOUS
<1> HIDE DEF S, s
<1>16. s = InOrder(S)
  BY <1>10, <1>11, <1>12, <1>13, IncreasingIs
<1>17. Kids(o, N) = [k \in DOMAIN inner |-> Handle(s[k])]
  BY <1>14, <1>15, <1>16
<1>18. inner = [k \in DOMAIN inner |-> inner[k]]
  BY <1>5
<1>19. Kids(o, N) = inner
  BY <1>9, <1>17, <1>18
<1> QED BY <1>19 DEF N, o, inner

-----------------------------------------------------------------------------
(* The context after n of the insertions *)

PackageAt(p, n) ==
    [name |-> files[p].name, self_ref |-> p,
     types |-> Kids([of |-> "Package", ref |-> p], n), services |-> <<>>]

TypeAt(i, n) == [built.types[i] EXCEPT !.inner_types = Kids([of |-> "Message", ref |-> i], n)]

At(n) ==
    [packages |-> [p \in DOMAIN files |-> PackageAt(p, n)],
     types |-> [i \in 1..n |-> TypeAt(i, n)],
     types_by_name |-> [s \in {built.types[i].full_name : i \in 1..n} |-> ByName(built.types)[s]],
     services |-> <<>>, services_by_name |-> <<>>]

\* Two types that agree but for what they list.
SameBut(t, u) ==
    /\ t.kind = u.kind /\ t.name = u.name /\ t.full_name = u.full_name
    /\ t.parent = u.parent /\ t.self_ref = u.self_ref
    /\ t.oneofs = u.oneofs /\ t.fields = u.fields /\ t.fields_by_name = u.fields_by_name

\* The same, one part at a time.
Stage(c, n) ==
    /\ c \in ContextType
    /\ DOMAIN c.packages = DOMAIN files
    /\ \A p \in DOMAIN files :
          /\ c.packages[p].name = files[p].name /\ c.packages[p].self_ref = p
          /\ c.packages[p].types = Kids([of |-> "Package", ref |-> p], n)
          /\ c.packages[p].services = <<>>
    /\ DOMAIN c.types = 1..n
    /\ \A i \in 1..n :
          /\ SameBut(c.types[i], built.types[i])
          /\ c.types[i].inner_types = Kids([of |-> "Message", ref |-> i], n)
    /\ DOMAIN c.types_by_name = {built.types[i].full_name : i \in 1..n}
    /\ \A i \in 1..n : c.types_by_name[built.types[i].full_name] = i
    /\ c.services = <<>> /\ c.services_by_name = <<>>

LEMMA SameTypes ==
    ASSUME NEW t \in TypeInfo, NEW u \in TypeInfo, SameBut(t, u), t.inner_types = u.inner_types
    PROVE  t = u
<1>1. CASE t \in MessageInfo
  <2>1. u \in MessageInfo
    BY <1>1 DEF SameBut, TypeInfo, MessageInfo, EnumInfo
  <2> QED BY <1>1, <2>1 DEF SameBut, MessageInfo
<1>2. CASE t \in EnumInfo
  <2>1. u \in EnumInfo
    BY <1>2 DEF SameBut, TypeInfo, MessageInfo, EnumInfo
  <2> QED BY <1>2, <2>1 DEF SameBut, EnumInfo
<1> QED BY <1>1, <1>2 DEF TypeInfo

LEMMA SamePackages ==
    ASSUME NEW p \in Package, NEW q \in Package, p.name = q.name, p.self_ref = q.self_ref,
           p.types = q.types, p.services = q.services
    PROVE  p = q
<1>1. /\ p = [name |-> p.name, self_ref |-> p.self_ref, types |-> p.types,
              services |-> p.services]
      /\ q = [name |-> q.name, self_ref |-> q.self_ref, types |-> q.types,
              services |-> q.services]
  BY DEF Package
<1> QED BY <1>1

\* There is one such context.
LEMMA StageOne ==
    ASSUME NEW n \in Nat, NEW c, NEW d, Stage(c, n), Stage(d, n)
    PROVE  c = d
<1>1. c \in ContextType /\ d \in ContextType
  BY DEF Stage
<1>2. /\ c.packages \in Seq(Package) /\ d.packages \in Seq(Package)
      /\ c.types \in Seq(TypeInfo) /\ d.types \in Seq(TypeInfo)
      /\ c.types_by_name \in Maps(Names, Nat) /\ d.types_by_name \in Maps(Names, Nat)
  BY <1>1 DEF ContextType
<1>3. c.packages = d.packages
  <2>1. DOMAIN c.packages = DOMAIN files /\ DOMAIN d.packages = DOMAIN files
    BY DEF Stage
  <2>2. ASSUME NEW p \in DOMAIN files PROVE c.packages[p] = d.packages[p]
    <3>1. c.packages[p] \in Package /\ d.packages[p] \in Package
      BY <1>2, <2>1
    <3> DEFINE kids == Kids([of |-> "Package", ref |-> p], n)
    <3>2. /\ c.packages[p].name = files[p].name /\ c.packages[p].self_ref = p
          /\ c.packages[p].types = kids /\ c.packages[p].services = <<>>
      BY DEF Stage
    <3>3. /\ d.packages[p].name = files[p].name /\ d.packages[p].self_ref = p
          /\ d.packages[p].types = kids /\ d.packages[p].services = <<>>
      BY DEF Stage
    <3> HIDE DEF kids
    <3> QED BY <3>1, <3>2, <3>3, SamePackages
  <2> QED BY <1>2, <2>1, <2>2
<1>4. c.types = d.types
  <2>1. DOMAIN c.types = 1..n /\ DOMAIN d.types = 1..n
    BY DEF Stage
  <2>2. ASSUME NEW i \in 1..n PROVE c.types[i] = d.types[i]
    <3>1. c.types[i] \in TypeInfo /\ d.types[i] \in TypeInfo
      BY <1>2, <2>1
    <3>2. SameBut(c.types[i], built.types[i]) /\ SameBut(d.types[i], built.types[i])
      BY DEF Stage
    <3>3. SameBut(c.types[i], d.types[i])
      BY <3>2 DEF SameBut
    <3> DEFINE kids == Kids([of |-> "Message", ref |-> i], n)
    <3>4. c.types[i].inner_types = kids
      BY DEF Stage
    <3>5. d.types[i].inner_types = kids
      BY DEF Stage
    <3> HIDE DEF kids
    <3> QED BY <3>1, <3>3, <3>4, <3>5, SameTypes
  <2> QED BY <1>2, <2>1, <2>2
<1>5. c.types_by_name = d.types_by_name
  <2> DEFINE D == {built.types[i].full_name : i \in 1..n}
  <2>1. DOMAIN c.types_by_name = D /\ DOMAIN d.types_by_name = D
    BY DEF Stage
  <2>2. \A s \in D : c.types_by_name[s] = d.types_by_name[s]
    BY DEF Stage
  <2>3. c.types_by_name \in [D -> Nat] /\ d.types_by_name \in [D -> Nat]
    BY <1>2, <2>1, MapDomain
  <2> HIDE DEF D
  <2> QED BY <2>2, <2>3
<1>6. c.services = d.services /\ c.services_by_name = d.services_by_name
  BY DEF Stage
<1> QED BY <1>1, <1>3, <1>4, <1>5, <1>6 DEF ContextType

LEMMA KidsTyped ==
    ASSUME Complete, NEW o, NEW n \in 0..Len(built.types)
    PROVE  Kids(o, n) \in Seq(TypeRef)
<1> DEFINE own == InOrder({i \in 1..n : built.types[i].parent = o})
<1>1. built.types \in Seq(TypeInfo)
  BY DEF Complete, BuildInv, BuildTyped
<1>2. n \in Nat /\ 1..n \subseteq DOMAIN built.types
  BY <1>1
<1>3. /\ own \in Seq(Nat) /\ \A k \in DOMAIN own : own[k] \in 1..n
      /\ Kids(o, n) = [k \in 1..Len(own) |-> Handle(own[k])]
  BY <1>2, KidsAre
<1>4. \A i \in 1..n : Handle(i) \in TypeRef
  BY <1>2, TypeComplete DEF Handle, TypeRef
<1> HIDE DEF own
<1>5. Len(own) \in Nat /\ DOMAIN own = 1..Len(own)
  BY <1>3
<1> QED BY <1>3, <1>4, <1>5

LEMMA AtStage ==
    ASSUME Complete, NEW n \in 0..Len(built.types)
    PROVE  Stage(At(n), n)
<1> DEFINE packages == [p \in DOMAIN files |-> PackageAt(p, n)]
           types == [i \in 1..n |-> TypeAt(i, n)]
           D == {built.types[i].full_name : i \in 1..n}
           byName == [s \in D |-> ByName(built.types)[s]]
<1>1. built.types \in Seq(TypeInfo) /\ files \in Files
  BY DEF Complete, BuildInv, BuildTyped
<1>2. n \in Nat /\ \A i \in 1..n : i \in DOMAIN built.types
  BY <1>1
<1>3. DOMAIN files = 1..Len(files) /\ Len(files) \in Nat
  BY <1>1, FilesAre
<1>4. At(n) = [packages |-> packages, types |-> types, types_by_name |-> byName,
               services |-> <<>>, services_by_name |-> <<>>]
  BY DEF At
<1>5. ASSUME NEW p \in DOMAIN files
      PROVE  /\ PackageAt(p, n) \in Package /\ PackageAt(p, n).name = files[p].name
             /\ PackageAt(p, n).self_ref = p /\ PackageAt(p, n).services = <<>>
             /\ PackageAt(p, n).types = Kids([of |-> "Package", ref |-> p], n)
  <2>1. p \in Nat /\ files[p].name \in Names
    BY <1>1, <1>3, FilesAre
  <2>2. Kids([of |-> "Package", ref |-> p], n) \in Seq(TypeRef) /\ <<>> \in Seq(Nat)
    BY KidsTyped
  <2> QED BY <2>1, <2>2 DEF Package, PackageAt
<1>6. ASSUME NEW i \in 1..n
      PROVE  /\ TypeAt(i, n) \in TypeInfo /\ SameBut(TypeAt(i, n), built.types[i])
             /\ TypeAt(i, n).inner_types = Kids([of |-> "Message", ref |-> i], n)
  <2> DEFINE t == built.types[i]
             kids == Kids([of |-> "Message", ref |-> i], n)
             u == [t EXCEPT !.inner_types = kids]
  <2>1. kids \in Seq(TypeRef)
    BY KidsTyped
  <2>2. t \in TypeInfo
    BY <1>2, TypeComplete
  <2>3. TypeAt(i, n) = u
    BY DEF TypeAt
  <2> HIDE DEF t, kids
  <2>4. u \in TypeInfo /\ SameBut(u, t) /\ u.inner_types = kids
    <3>1. CASE t \in MessageInfo
      BY <2>1, <3>1 DEF TypeInfo, MessageInfo, SameBut
    <3>2. CASE t \in EnumInfo
      BY <2>1, <3>2 DEF TypeInfo, EnumInfo, SameBut
    <3> QED BY <2>2, <3>1, <3>2 DEF TypeInfo
  <2> QED BY <2>3, <2>4 DEF t, kids
<1>7. /\ packages \in Seq(Package) /\ DOMAIN packages = DOMAIN files
      /\ \A p \in DOMAIN files : packages[p] = PackageAt(p, n)
  <2> DEFINE L == Len(files)
  <2>1. \A p \in 1..L : PackageAt(p, n) \in Package
    BY <1>3, <1>5
  <2>2. packages = [p \in 1..L |-> PackageAt(p, n)] /\ L \in Nat
    BY <1>3
  <2>3. DOMAIN packages = DOMAIN files /\ \A p \in DOMAIN files : packages[p] = PackageAt(p, n)
    OBVIOUS
  <2> HIDE DEF L, packages
  <2>4. packages \in [1..L -> Package]
    BY <2>1, <2>2
  <2>5. packages \in Seq(Package)
    BY <2>2, <2>4
  <2> QED BY <2>3, <2>5
<1>8. /\ types \in Seq(TypeInfo) /\ DOMAIN types = 1..n
      /\ \A i \in 1..n : types[i] = TypeAt(i, n)
  <2>1. \A i \in 1..n : TypeAt(i, n) \in TypeInfo
    BY <1>6
  <2>2. types = [i \in 1..n |-> TypeAt(i, n)]
    OBVIOUS
  <2> HIDE DEF types
  <2>3. types \in [1..n -> TypeInfo]
    BY <2>1, <2>2
  <2>4. types \in Seq(TypeInfo)
    BY <1>2, <2>3
  <2> QED BY <2>2, <2>4
<1>9. /\ byName \in Maps(Names, Nat) /\ DOMAIN byName = D
      /\ \A i \in 1..n : byName[built.types[i].full_name] = i
  <2>1. \A i \in DOMAIN built.types : built.types[i].full_name \in Names
    <3>1. \A i \in DOMAIN built.types : built.types[i] \in TypeInfo
      BY <1>1
    <3> QED BY <3>1 DEF TypeInfo, MessageInfo, EnumInfo
  <2>2. \A i \in DOMAIN built.types : ByName(built.types)[built.types[i].full_name] = i
    BY <1>1, <2>1, NamesDiffer, ByNameIs
  <2>3. \A i \in 1..n : byName[built.types[i].full_name] = i
    BY <1>2, <2>2
  <2>4. D \in SUBSET Names /\ \A s \in D : byName[s] \in Nat
    BY <1>2, <2>1, <2>3
  <2>5. DOMAIN byName = D /\ byName = [s \in D |-> byName[s]]
    OBVIOUS
  <2> HIDE DEF D, byName
  <2>6. byName \in [D -> Nat]
    BY <2>4, <2>5
  <2>7. byName \in Maps(Names, Nat)
    BY <2>4, <2>6 DEF Maps
  <2>8. \A i \in 1..n : byName[built.types[i].full_name] = i
    BY <2>3
  <2> QED BY <2>5, <2>7, <2>8
<1>10. <<>> \in Seq(ServiceInfo) /\ <<>> \in Maps(Names, Nat)
  BY EmptyMap
<1> HIDE DEF packages, types, byName, D
<1>11. At(n) \in ContextType
  BY <1>4, <1>7, <1>8, <1>9, <1>10 DEF ContextType
<1>12. /\ At(n).packages = packages /\ At(n).types = types /\ At(n).types_by_name = byName
       /\ At(n).services = <<>> /\ At(n).services_by_name = <<>>
  BY <1>4
<1> QED BY <1>5, <1>6, <1>7, <1>8, <1>9, <1>11, <1>12 DEF Stage, D

-----------------------------------------------------------------------------
(* One insertion *)

\* The handle in a parent denotes what the full name starts with.
OwnName(p) == IF p.of = "Package" THEN files[p.ref].name ELSE built.types[p.ref].full_name

LEMMA ParentIs ==
    ASSUME Complete, NEW n \in DOMAIN built.types
    PROVE  LET p == built.types[n].parent
           IN  /\ p.of = "Package" => p.ref \in DOMAIN files
               /\ p.of # "Package" => /\ p.of = "Message" /\ p.ref \in DOMAIN built.types
                                      /\ p.ref < n /\ built.types[p.ref].kind = "Message"
               /\ built.types[n].full_name = OwnName(p) \o built.types[n].name
<1> DEFINE idx == cache.types[n].idx_path
           p == built.types[n].parent
           full == built.types[n].full_name
           name == built.types[n].name
<1>1. CASE Len(idx) = 2
  <2> DEFINE f == idx[1]
  <2>1. p = [of |-> "Package", ref |-> f]
    BY <1>1, TopParent, Zenon
  <2>2. f \in DOMAIN files
    BY <1>1, TopParent, Zenon
  <2>3. full = files[f].name \o name
    BY <1>1, TopParent, Zenon
  <2> HIDE DEF f, p, full, name
  <2>4. p.of = "Package" /\ p.ref = f
    BY <2>1
  <2>5. OwnName(p) = files[f].name
    BY <2>4 DEF OwnName
  <2>6. full = OwnName(p) \o name
    BY <2>3, <2>5
  <2> QED BY <2>2, <2>4, <2>6 DEF p, full, name
<1>2. CASE Len(idx) # 2
  <2> DEFINE m == cache.items_by_idx[Front(idx)].final_idx
  <2>1. p = [of |-> "Message", ref |-> m]
    BY <1>2, InnerParent, Zenon
  <2>2. m \in DOMAIN built.types /\ m < n /\ built.types[m].kind = "Message"
    BY <1>2, InnerParent, Zenon
  <2>3. full = built.types[m].full_name \o name
    BY <1>2, InnerParent, Zenon
  <2> HIDE DEF m, p, full, name
  <2>4. p.of = "Message" /\ p.ref = m
    BY <2>1
  <2>5. OwnName(p) = built.types[m].full_name
    BY <2>4 DEF OwnName
  <2>6. full = OwnName(p) \o name
    BY <2>3, <2>5
  <2> QED BY <2>2, <2>4, <2>6 DEF p, full, name
<1> HIDE DEF p, full, name, idx
<1> QED BY <1>1, <1>2 DEF p, full, name

\* A type lists nothing before something below it is inserted; an enum never does.
LEMMA KidsLater ==
    ASSUME Complete, NEW n \in DOMAIN built.types
    PROVE  /\ Kids([of |-> "Message", ref |-> n], n) = <<>>
           /\ built.types[n].kind = "Enum" => \A m \in 0..Len(built.types) :
                 Kids([of |-> "Message", ref |-> n], m) = <<>>
<1> DEFINE o == [of |-> "Message", ref |-> n]
<1>1. DOMAIN built.types = 1..Len(built.types) /\ Len(built.types) \in Nat
  <2>1. built.types \in Seq(TypeInfo)
    BY DEF Complete, BuildInv, BuildTyped
  <2> QED BY <2>1
<1>2. ASSUME NEW i \in DOMAIN built.types, built.types[i].parent = o
      PROVE  n < i /\ built.types[n].kind = "Message"
  <2> DEFINE p == built.types[i].parent
  <2>1. p.of # "Package" => p.ref < i /\ built.types[p.ref].kind = "Message"
    BY ParentIs
  <2>2. p.of = "Message" /\ p.ref = n
    BY <1>2
  <2> HIDE DEF p
  <2> QED BY <2>1, <2>2
<1>3. ASSUME NEW m, \A i \in 1..m : built.types[i].parent # o PROVE Kids(o, m) = <<>>
  <2> DEFINE S == {i \in 1..m : built.types[i].parent = o}
             own == InOrder(S)
  <2>1. S = {}
    BY <1>3
  <2>2. Kids(o, m) = [k \in DOMAIN own |-> Handle(own[k])]
    BY DEF Kids
  <2> HIDE DEF S
  <2>3. own = <<>>
    BY <2>1, OrderedNone
  <2> HIDE DEF own
  <2>4. DOMAIN own = {}
    BY <2>3
  <2> QED BY <2>2, <2>4
<1> HIDE DEF o
<1>4. \A i \in 1..n : built.types[i].parent # o
  <2>1. ASSUME NEW i \in 1..n, built.types[i].parent = o PROVE FALSE
    <3>1. i \in DOMAIN built.types
      BY <1>1
    <3>2. n < i
      BY <1>2, <2>1, <3>1
    <3> QED BY <1>1, <3>2
  <2> QED BY <2>1
<1>5. ASSUME built.types[n].kind = "Enum", NEW m \in 0..Len(built.types)
      PROVE  \A i \in 1..m : built.types[i].parent # o
  <2>1. \A i \in 1..m : i \in DOMAIN built.types
    BY <1>1
  <2> QED BY <1>2, <1>5, <2>1
<1> QED BY <1>3, <1>4, <1>5 DEF o

\* A draft with the members of a type.
DraftOf(t) == Drafted(t, t.oneofs, t.fields, t.fields_by_name)

LEMMA DraftTyped ==
    ASSUME NEW t \in TypeInfo
    PROVE  LET d == DraftOf(t)
           IN  /\ d \in TypeInfo /\ d.inner_types = <<>>
               /\ d.kind = t.kind /\ d.name = t.name /\ d.parent = t.parent
               /\ d.oneofs = t.oneofs /\ d.fields = t.fields
               /\ d.fields_by_name = t.fields_by_name
<1>1. NoName \in Names /\ FirstRef \in Nat /\ <<>> \in Seq(TypeRef)
  BY DEF NoName, Names, FirstRef
<1>2. DraftOf(t) = [kind |-> t.kind, name |-> t.name, full_name |-> NoName,
                    parent |-> t.parent, self_ref |-> FirstRef, inner_types |-> <<>>,
                    oneofs |-> t.oneofs, fields |-> t.fields,
                    fields_by_name |-> t.fields_by_name]
  BY DEF DraftOf, Drafted
<1>3. CASE t \in MessageInfo
  BY <1>1, <1>2, <1>3 DEF TypeInfo, MessageInfo
<1>4. CASE t \in EnumInfo
  BY <1>1, <1>2, <1>4 DEF TypeInfo, EnumInfo
<1> QED BY <1>3, <1>4 DEF TypeInfo

LEMMA DraftAccepted ==
    ASSUME Complete, NEW n \in DOMAIN built.types, NEW c, Stage(c, n - 1)
    PROVE  /\ InsertVerdict(c, DraftOf(built.types[n])) = "Ok"
           /\ FullName(c, DraftOf(built.types[n])) = built.types[n].full_name
<1> DEFINE t == built.types[n]
           u == DraftOf(t)
           h == n - 1
<1>1. built.types \in Seq(TypeInfo)
  BY DEF Complete, BuildInv, BuildTyped
<1>2. n \in Nat \ {0} /\ h \in Nat /\ \A i : i \in 1..h <=> i \in DOMAIN built.types /\ i < n
  BY <1>1
<1>3. t \in TypeInfo
  BY TypeComplete
<1>4. u.kind = t.kind /\ u.name = t.name /\ u.parent = t.parent
  BY <1>3, DraftTyped
<1>5. DOMAIN c.packages = DOMAIN files /\ DOMAIN c.types = 1..h
  BY DEF Stage
<1> HIDE DEF t, u, h
<1>6. /\ \A p \in DOMAIN files : c.packages[p].name = files[p].name
      /\ \A i \in 1..h : c.types[i].full_name = built.types[i].full_name
                         /\ c.types[i].kind = built.types[i].kind
      /\ DOMAIN c.types_by_name = {built.types[i].full_name : i \in 1..h}
  BY DEF Stage, SameBut, h
<1>7. /\ ~Dangling(c, u) /\ FullName(c, u) = t.full_name
      /\ u.parent.of = "Message" => c.types[u.parent.ref].kind = "Message"
  <2> DEFINE p == t.parent
  <2>1. /\ p.of = "Package" => p.ref \in DOMAIN files
        /\ p.of # "Package" => /\ p.of = "Message" /\ p.ref \in DOMAIN built.types
                               /\ p.ref < n /\ built.types[p.ref].kind = "Message"
        /\ t.full_name = OwnName(p) \o t.name
    BY ParentIs DEF t
  <2> HIDE DEF p
  <2>2. u.parent = p
    BY <1>4 DEF p
  <2>3. ~Dangling(c, u)
    BY <1>2, <1>5, <2>1, <2>2 DEF Dangling
  <2>4. OwnerName(c, p) = OwnName(p)
    BY <1>2, <1>6, <2>1 DEF OwnerName, OwnName
  <2>5. FullName(c, u) = t.full_name
    BY <1>4, <2>1, <2>2, <2>4 DEF FullName
  <2>6. u.parent.of = "Message" => c.types[u.parent.ref].kind = "Message"
    BY <1>2, <1>6, <2>1, <2>2
  <2> QED BY <2>3, <2>5, <2>6
<1>8. t.full_name \notin DOMAIN c.types_by_name
  <2>1. ASSUME NEW i \in 1..h, built.types[i].full_name = t.full_name PROVE FALSE
    <3>1. i \in DOMAIN built.types /\ i < n
      BY <1>2
    <3>2. i = n
      BY <2>1, <3>1, NamesDiffer DEF t
    <3> QED BY <1>2, <3>1, <3>2
  <2> QED BY <1>6, <2>1
<1> QED BY <1>7, <1>8 DEF InsertVerdict, t, u

LEMMA Staged ==
    ASSUME Complete, NEW n \in DOMAIN built.types, NEW c, Stage(c, n - 1)
    PROVE  Stage(TypeAdded(c, DraftOf(built.types[n])), n)
<1> DEFINE t == built.types[n]
           u == DraftOf(t)
           h == n - 1
           d == TypeAdded(c, u)
<1>1. built.types \in Seq(TypeInfo)
  BY DEF Complete, BuildInv, BuildTyped
<1>2. /\ n \in Nat \ {0} /\ h \in Nat /\ n = h + 1
      /\ \A i : i \in 1..n <=> i \in 1..h \/ i = n
      /\ \A i \in 1..h : i # n /\ i \in DOMAIN built.types
  BY <1>1
<1>3. t \in TypeInfo /\ t.self_ref = n
  BY TypeComplete DEF TypeBuilt
<1>4. /\ u \in TypeInfo /\ u.inner_types = <<>>
      /\ u.kind = t.kind /\ u.name = t.name /\ u.parent = t.parent /\ u.oneofs = t.oneofs
      /\ u.fields = t.fields /\ u.fields_by_name = t.fields_by_name
  BY <1>3, DraftTyped
<1>5. InsertVerdict(c, u) = "Ok" /\ FullName(c, u) = t.full_name
  BY DraftAccepted
<1>6. c \in ContextType /\ DOMAIN c.packages = DOMAIN files /\ DOMAIN c.types = 1..h
  BY DEF Stage
<1> HIDE DEF u, d
<1>7. Len(c.types) = h
  <2>1. c.types \in Seq(TypeInfo)
    BY <1>6 DEF ContextType
  <2> HIDE DEF h
  <2> QED BY <1>2, <1>6, <2>1
<1>8. NewRef(c, u) = Handle(n)
  BY <1>2, <1>4, <1>7 DEF NewRef, Handle
<1> HIDE DEF t, h
<1>9. /\ d \in ContextType /\ DOMAIN d.types = 1..n /\ DOMAIN d.packages = DOMAIN files
      /\ d.types[n] = Inserted(c, u)
      /\ \A q \in DOMAIN files :
            /\ SamePackage(d.packages[q], c.packages[q])
            /\ d.packages[q].types =
                  Extended(c, u, [of |-> "Package", ref |-> q], c.packages[q].types)
      /\ d.types_by_name = Bind(c.types_by_name, t.full_name, n)
      /\ SameServices(c, d)
  BY <1>2, <1>4, <1>5, <1>6, <1>7, TypeAddedShape DEF d
<1>10. ASSUME NEW i \in 1..h
       PROVE  /\ SameBut(d.types[i], c.types[i])
              /\ d.types[i].inner_types =
                    Extended(c, u, [of |-> "Message", ref |-> i], c.types[i].inner_types)
  <2> DEFINE v == d.types[i]
             w == c.types[i]
             list == Extended(c, u, [of |-> "Message", ref |-> i], c.types[i].inner_types)
  <2>1. i \in DOMAIN c.types
    BY <1>6
  <2>2. /\ v.kind = w.kind /\ v.name = w.name /\ v.full_name = w.full_name
        /\ v.parent = w.parent /\ v.self_ref = w.self_ref /\ v.oneofs = w.oneofs
        /\ v.fields = w.fields /\ v.fields_by_name = w.fields_by_name
    BY <1>4, <1>5, <1>6, <2>1, OwnersAfter DEF d
  <2>3. v.inner_types = list
    BY <1>4, <1>5, <1>6, <2>1, OwnersAfter DEF d
  <2> HIDE DEF v, w, list
  <2>4. SameBut(v, w)
    BY <2>2 DEF SameBut
  <2> QED BY <2>3, <2>4 DEF v, w, list
<1>11. ASSUME NEW o PROVE Extended(c, u, o, Kids(o, h)) = Kids(o, n)
  <2>1. n \in Nat \ {0} /\ h = n - 1
    BY <1>2
  <2>2. /\ t.parent = o => Kids(o, n) = Append(Kids(o, h), Handle(n))
        /\ t.parent # o => Kids(o, n) = Kids(o, h)
    BY <2>1, KidsMore DEF t
  <2> QED BY <1>4, <1>8, <2>2 DEF Extended
<1>12. ASSUME NEW p \in DOMAIN files
       PROVE  /\ d.packages[p].name = files[p].name /\ d.packages[p].self_ref = p
              /\ d.packages[p].types = Kids([of |-> "Package", ref |-> p], n)
              /\ d.packages[p].services = <<>>
  <2> DEFINE o == [of |-> "Package", ref |-> p]
  <2>1. /\ c.packages[p].name = files[p].name /\ c.packages[p].self_ref = p
        /\ c.packages[p].types = Kids(o, h) /\ c.packages[p].services = <<>>
    BY DEF Stage, h
  <2>2. d.packages[p].types = Extended(c, u, o, Kids(o, h))
    BY <1>9, <2>1
  <2> HIDE DEF o
  <2>3. d.packages[p].types = Kids(o, n)
    BY <1>11, <2>2
  <2> QED BY <1>9, <2>1, <2>3 DEF SamePackage, o
<1>13. ASSUME NEW i \in 1..h
       PROVE  /\ SameBut(d.types[i], built.types[i])
              /\ d.types[i].inner_types = Kids([of |-> "Message", ref |-> i], n)
  <2> DEFINE o == [of |-> "Message", ref |-> i]
  <2>1. SameBut(c.types[i], built.types[i]) /\ c.types[i].inner_types = Kids(o, h)
    BY DEF Stage, h
  <2>2. d.types[i].inner_types = Extended(c, u, o, Kids(o, h))
    BY <1>10, <2>1
  <2> HIDE DEF o
  <2>3. d.types[i].inner_types = Kids(o, n)
    BY <1>11, <2>2
  <2>4. SameBut(d.types[i], c.types[i])
    BY <1>10
  <2> QED BY <2>1, <2>3, <2>4 DEF SameBut, o
<1>14. SameBut(d.types[n], t) /\ d.types[n].inner_types = Kids([of |-> "Message", ref |-> n], n)
  <2>1. Kids([of |-> "Message", ref |-> n], n) = <<>>
    BY KidsLater
  <2> DEFINE v == Inserted(c, u)
  <2>2. /\ v.kind = u.kind /\ v.name = u.name /\ v.parent = u.parent
        /\ v.self_ref = Len(c.types) + 1 /\ v.full_name = FullName(c, u)
        /\ v.inner_types = u.inner_types /\ v.oneofs = u.oneofs
        /\ v.fields = u.fields /\ v.fields_by_name = u.fields_by_name
    BY <1>4, <1>5, <1>6, InsertedTyped
  <2> HIDE DEF v
  <2>3. d.types[n] = v
    BY <1>9 DEF v
  <2>4. v.self_ref = t.self_ref
    BY <1>2, <1>3, <1>7, <2>2 DEF h
  <2> QED BY <1>4, <1>5, <2>1, <2>2, <2>3, <2>4 DEF SameBut
<1>15. /\ DOMAIN d.types_by_name = {built.types[i].full_name : i \in 1..n}
       /\ \A i \in 1..n : d.types_by_name[built.types[i].full_name] = i
  <2> DEFINE D == {built.types[i].full_name : i \in 1..h}
             E == {built.types[i].full_name : i \in 1..n}
  <2>1. DOMAIN c.types_by_name = D
        /\ \A i \in 1..h : c.types_by_name[built.types[i].full_name] = i
    BY DEF Stage, h
  <2>2. E = D \cup {t.full_name}
    BY <1>2 DEF t
  <2>3. \A i \in 1..h : built.types[i].full_name \in D
    OBVIOUS
  <2>4. \A i \in 1..h : built.types[i].full_name # t.full_name
    BY <1>2, NamesDiffer DEF t
  <2> HIDE DEF D, E
  <2>5. /\ DOMAIN d.types_by_name = D \cup {t.full_name}
        /\ d.types_by_name[t.full_name] = n
        /\ \A s \in D : s # t.full_name => d.types_by_name[s] = c.types_by_name[s]
    BY <1>9, <2>1 DEF Bind
  <2>6. \A i \in 1..n : d.types_by_name[built.types[i].full_name] = i
    BY <1>2, <2>1, <2>3, <2>4, <2>5 DEF t
  <2> QED BY <2>2, <2>5, <2>6 DEF E
<1>16. ASSUME NEW i \in 1..n
       PROVE  /\ SameBut(d.types[i], built.types[i])
              /\ d.types[i].inner_types = Kids([of |-> "Message", ref |-> i], n)
  <2>1. CASE i = n
    BY <1>14, <2>1 DEF t
  <2>2. CASE i \in 1..h
    BY <1>13, <2>2
  <2> QED BY <1>2, <2>1, <2>2
<1>17. d.services = <<>> /\ d.services_by_name = <<>>
  BY <1>9 DEF SameServices, Stage
<1> QED BY <1>9, <1>12, <1>15, <1>16, <1>17 DEF Stage, d, u, t

-----------------------------------------------------------------------------
(* The whole context *)

LEMMA FinishedStage ==
    ASSUME Complete, OrderOK, built.services = <<>>
    PROVE  Stage(Finished, Len(built.types))
<1> DEFINE N == Len(built.types)
           c == Finished
<1>1. /\ c \in ContextType /\ c.types = built.types /\ c.types_by_name = ByName(built.types)
      /\ c.services = <<>> /\ DOMAIN c.packages = DOMAIN files
  BY FinishedShape
<1>2. \A p \in DOMAIN files :
          /\ c.packages[p].name = files[p].name /\ c.packages[p].self_ref = p
          /\ c.packages[p].types = TopTypes(p) /\ c.packages[p].services = ServicesOf(p)
  BY FinishedShape
<1>3. DOMAIN built.types = 1..N /\ N \in Nat
  <2>1. built.types \in Seq(TypeInfo)
    BY DEF Complete, BuildInv, BuildTyped
  <2> QED BY <2>1
<1>4. ASSUME NEW p PROVE TopTypes(p) = Kids([of |-> "Package", ref |-> p], N)
  BY TopTypesOrdered
<1>5. ASSUME NEW p PROVE ServicesOf(p) = <<>>
  <2> DEFINE own == {i \in DOMAIN built.services : built.services[i].parent = p}
             list == InOrder(own)
  <2>1. own = {}
    <3>1. DOMAIN built.services = {}
      OBVIOUS
    <3> QED BY <3>1
  <2>2. ServicesOf(p) = [k \in DOMAIN list |-> built.services[list[k]].self_ref]
    BY DEF ServicesOf
  <2> HIDE DEF own
  <2>3. list = <<>>
    BY <2>1, OrderedNone
  <2> HIDE DEF list
  <2>4. DOMAIN list = {}
    BY <2>3
  <2> QED BY <2>2, <2>4
<1>6. c.services_by_name = <<>>
  <2>1. c.services_by_name = ByName(built.services)
    BY FinishedShape
  <2>2. {built.services[i].full_name : i \in DOMAIN built.services} = {}
    <3>1. DOMAIN built.services = {}
      OBVIOUS
    <3> QED BY <3>1
  <2>3. DOMAIN ByName(built.services) = {}
    BY <2>2 DEF ByName
  <2>4. ByName(built.services) = [n \in DOMAIN ByName(built.services) |->
                                    ByName(built.services)[n]]
    BY DEF ByName
  <2>5. ByName(built.services) = <<>>
    BY <2>3, <2>4
  <2> QED BY <2>1, <2>5
<1>7. ASSUME NEW i \in 1..N
      PROVE  built.types[i].inner_types = Kids([of |-> "Message", ref |-> i], N)
  <2>1. i \in DOMAIN built.types /\ built.types[i].kind \in TypeKinds
    BY <1>3, TypeComplete
  <2>2. CASE built.types[i].kind = "Message"
    BY <2>1, <2>2, InnerTypesOrdered
  <2>3. CASE built.types[i].kind = "Enum"
    <3>1. TypeCached(i) /\ TypeBuilt(built.types[i], i) /\ files \in Files
      BY <2>1, TypeComplete DEF Complete, BuildInv, BuildTyped
    <3> DEFINE p == cache.types[i].idx_path
    <3>2. IsType(Item(p)) /\ Item(p).kind = "Enum"
      <4>1. cache.types[i].item_type = "Enum"
        BY <2>1, <2>3, TypeComplete
      <4>2. Known(p) /\ Item(p).kind = "Enum"
        BY <3>1, <4>1 DEF TypeCached
      <4> HIDE DEF p
      <4>3. IsType(Item(p)) \/ IsService(Item(p))
        BY <3>1, <4>2, KnownItem
      <4> QED BY <4>2, <4>3 DEF IsService
    <3>3. DOMAIN Item(p).inner = {}
      BY <3>2 DEF IsType
    <3>4. built.types[i].inner_types = [k \in DOMAIN Item(p).inner |-> RefOf(NameOf(Append(p, k)))]
      BY <3>1 DEF TypeBuilt
    <3>5. built.types[i].inner_types = <<>>
      BY <3>3, <3>4
    <3>6. Kids([of |-> "Message", ref |-> i], N) = <<>>
      BY <1>3, <2>1, <2>3, KidsLater
    <3> QED BY <3>5, <3>6
  <2> QED BY <2>1, <2>2, <2>3 DEF TypeKinds
<1>8. /\ DOMAIN c.types_by_name = {built.types[i].full_name : i \in 1..N}
      /\ \A i \in 1..N : c.types_by_name[built.types[i].full_name] = i
  BY <1>3, FinishedNames
<1> HIDE DEF c, N
<1>9. ASSUME NEW i \in 1..N
      PROVE  /\ SameBut(c.types[i], built.types[i])
             /\ c.types[i].inner_types = Kids([of |-> "Message", ref |-> i], N)
  <2>1. c.types[i] = built.types[i]
    BY <1>1
  <2> QED BY <1>7, <2>1 DEF SameBut
<1>10. ASSUME NEW p \in DOMAIN files
       PROVE  /\ c.packages[p].name = files[p].name /\ c.packages[p].self_ref = p
              /\ c.packages[p].types = Kids([of |-> "Package", ref |-> p], N)
              /\ c.packages[p].services = <<>>
  <2>1. c.packages[p].types = TopTypes(p) /\ c.packages[p].services = ServicesOf(p)
    BY <1>2
  <2>2. TopTypes(p) = Kids([of |-> "Package", ref |-> p], N)
    BY <1>4
  <2>3. ServicesOf(p) = <<>>
    BY <1>5
  <2> QED BY <1>2, <2>1, <2>2, <2>3
<1>11. DOMAIN c.types = 1..N
  BY <1>1, <1>3
<1>12. Stage(c, N)
  BY <1>1, <1>6, <1>8, <1>9, <1>10, <1>11 DEF Stage
<1> QED BY <1>12 DEF c, N

\* The packages, the first n of them.
PackagesAt(n) ==
    [packages |-> [p \in 1..n |-> PackageAt(p, 0)], types |-> <<>>, types_by_name |-> <<>>,
     services |-> <<>>, services_by_name |-> <<>>]

LEMMA PackageByHand ==
    ASSUME NEW n \in Nat \ {0}
    PROVE  PackageAdded(PackagesAt(n - 1), NewPackage(files[n].name)) = PackagesAt(n)
<1> DEFINE h == n - 1
           s == [p \in 1..h |-> PackageAt(p, 0)]
           c == [packages |-> s, types |-> <<>>, types_by_name |-> <<>>,
                 services |-> <<>>, services_by_name |-> <<>>]
           q == [NewPackage(files[n].name) EXCEPT !.self_ref = Len(c.packages) + 1]
<1>1. h \in Nat /\ n = h + 1
  OBVIOUS
<1>2. PackagesAt(h) = c
  BY DEF PackagesAt
<1> HIDE DEF h
<1>3. s \in Seq({PackageAt(p, 0) : p \in 1..h}) /\ Len(s) = h
  BY <1>1
<1>4. c.packages = s
  OBVIOUS
<1>5. q = PackageAt(n, 0)
  <2>1. Kids([of |-> "Package", ref |-> n], 0) = <<>>
    BY KidsNone
  <2>2. PackageAt(n, 0) = [name |-> files[n].name, self_ref |-> n, types |-> <<>>,
                           services |-> <<>>]
    BY <2>1 DEF PackageAt
  <2>3. Len(c.packages) + 1 = n
    BY <1>1, <1>3, <1>4
  <2>4. q = [NewPackage(files[n].name) EXCEPT !.self_ref = n]
    BY <2>3
  <2> HIDE DEF q
  <2> QED BY <2>2, <2>4 DEF NewPackage
<1>6. PackageAdded(c, NewPackage(files[n].name)) = [c EXCEPT !.packages = Append(@, q)]
  BY DEF PackageAdded
<1> HIDE DEF q
<1>7. Append(s, q) = [p \in 1..n |-> PackageAt(p, 0)]
  <2>1. \A p \in 1..n : PackageAt(p, 0) = IF p = h + 1 THEN q ELSE s[p]
    BY <1>1, <1>5
  <2>2. s = [p \in 1..h |-> s[p]] /\ DOMAIN s = 1..h
    OBVIOUS
  <2> HIDE DEF s
  <2>3. Len(s) = h
    BY <1>3
  <2>4. Append(s, q) = [p \in 1..(h + 1) |-> IF p = h + 1 THEN q ELSE s[p]]
    BY <1>1, <2>2, <2>3
  <2>5. [p \in 1..n |-> PackageAt(p, 0)]
          = [p \in 1..n |-> IF p = h + 1 THEN q ELSE s[p]]
    BY <2>1
  <2> QED BY <1>1, <2>4, <2>5
<1>8. [c EXCEPT !.packages = Append(@, q)]
        = [packages |-> Append(s, q), types |-> <<>>, types_by_name |-> <<>>,
           services |-> <<>>, services_by_name |-> <<>>]
  <2> DEFINE x == Append(s, q)
  <2>1. [c EXCEPT !.packages = Append(@, q)] = [c EXCEPT !.packages = x]
    BY <1>4
  <2> HIDE DEF s, x
  <2>2. [c EXCEPT !.packages = x]
          = [packages |-> x, types |-> <<>>, types_by_name |-> <<>>,
             services |-> <<>>, services_by_name |-> <<>>]
    OBVIOUS
  <2> QED BY <2>1, <2>2 DEF x
<1> QED BY <1>2, <1>6, <1>7, <1>8 DEF PackagesAt, h

LEMMA PackagesByHand ==
    ASSUME Complete, \A p, q \in DOMAIN files : files[p].name = files[q].name => p = q
    PROVE  PackagesRebuilt(Finished) = {At(0)}
<1> DEFINE c == Finished
           L == Len(c.packages)
           New(n) == NewPackage(c.packages[n].name)
           g == [n \in 0..L |-> {PackagesAt(n)}]
           Is(f) == f = [n \in 0..L |->
                           IF n = 0 THEN {EmptyContext}
                           ELSE UNION {insert_package(d, NewPackage(c.packages[n].name)) :
                                          d \in f[n - 1]}]
<1>1. DOMAIN c.packages = DOMAIN files /\ \A p \in DOMAIN files : c.packages[p].name = files[p].name
  BY FinishedShape
<1>2. L \in Nat /\ DOMAIN files = 1..L
  <2>1. c \in ContextType
    BY FinishedShape
  <2>2. c.packages \in Seq(Package)
    BY <2>1 DEF ContextType
  <2> QED BY <1>1, <2>2
<1> HIDE DEF L, New
<1>3. PackagesAt(0) = EmptyContext
  <2>1. [p \in 1..0 |-> PackageAt(p, 0)] = <<>>
    OBVIOUS
  <2> QED BY <2>1 DEF PackagesAt, EmptyContext
<1>4. ASSUME NEW n \in 1..L
      PROVE  UNION {insert_package(d, New(n)) : d \in {PackagesAt(n - 1)}} = {PackagesAt(n)}
  <2> DEFINE b == PackagesAt(n - 1)
             p == New(n)
  <2>1. n \in Nat \ {0} /\ c.packages[n].name = files[n].name
    BY <1>1, <1>2
  <2>2. PackageAdded(b, p) = PackagesAt(n)
    BY <2>1, PackageByHand DEF New
  <2>3. PackageVerdict(b, p) = "Ok"
    <3>1. p.name = files[n].name
      BY <2>1 DEF New, NewPackage
    <3>2. DOMAIN b.packages = 1..(n - 1) /\ \A k \in 1..(n - 1) : b.packages[k].name = files[k].name
      BY DEF PackagesAt, PackageAt
    <3>3. \A k \in 1..(n - 1) : k \in DOMAIN files /\ n \in DOMAIN files /\ k # n
      BY <1>2
    <3> HIDE DEF b, p
    <3> QED BY <3>1, <3>2, <3>3 DEF PackageVerdict
  <2> HIDE DEF b, p
  <2>4. insert_package(b, p) = {PackagesAt(n)}
    BY <2>2, <2>3 DEF insert_package, Ok
  <2>5. UNION {insert_package(d, p) : d \in {b}} = insert_package(b, p)
    OBVIOUS
  <2> QED BY <2>4, <2>5 DEF b, p
<1>5. PackagesAt(L) = At(0)
  <2>1. [i \in 1..0 |-> TypeAt(i, 0)] = <<>>
    OBVIOUS
  <2>2. [s \in {built.types[i].full_name : i \in 1..0} |-> ByName(built.types)[s]] = <<>>
    <3>1. {built.types[i].full_name : i \in 1..0} = {}
      OBVIOUS
    <3> QED BY <3>1
  <2>3. [p \in DOMAIN files |-> PackageAt(p, 0)] = [p \in 1..L |-> PackageAt(p, 0)]
    BY <1>2
  <2> QED BY <2>1, <2>2, <2>3 DEF PackagesAt, At
<1>6. Is(g)
  <2>1. ASSUME NEW n \in 0..L, n # 0
        PROVE  g[n] = UNION {insert_package(d, New(n)) : d \in g[n - 1]}
    <3>1. n \in 1..L /\ n - 1 \in 0..L
      BY <1>2, <2>1
    <3>2. g[n] = {PackagesAt(n)} /\ g[n - 1] = {PackagesAt(n - 1)}
      BY <3>1
    <3> HIDE DEF g
    <3> QED BY <1>4, <3>1, <3>2
  <2>2. g[0] = {EmptyContext}
    BY <1>2, <1>3
  <2> HIDE DEF g, c
  <2>3. g = [n \in 0..L |-> g[n]]
    BY DEF g
  <2> QED BY <2>1, <2>2, <2>3 DEF New
<1> HIDE DEF g, Is
<1>7. PICK f : Is(f) /\ PackagesRebuilt(c) = f[L]
  <2>1. \E f : Is(f) /\ PackagesRebuilt(c) = f[L]
    BY <1>6 DEF PackagesRebuilt, Is, L
  <2> QED BY <2>1
<1> HIDE DEF c
<1>8. f[0] = g[0]
  <2>1. f[0] = {EmptyContext}
    BY <1>2, <1>7 DEF Is
  <2> QED BY <1>2, <1>3, <2>1 DEF g
<1>9. ASSUME NEW n \in 1..L, f[n - 1] = g[n - 1] PROVE f[n] = g[n]
  <2>1. n \in 0..L /\ n # 0 /\ n - 1 \in 0..L
    BY <1>2
  <2>2. f[n] = UNION {insert_package(d, New(n)) : d \in f[n - 1]}
    BY <1>7, <2>1 DEF Is, New
  <2>3. g[n] = {PackagesAt(n)} /\ g[n - 1] = {PackagesAt(n - 1)}
    BY <2>1 DEF g
  <2> QED BY <1>4, <1>9, <2>2, <2>3
<1>10. f[L] = g[L]
  BY <1>2, <1>8, <1>9, Agree
<1> QED BY <1>2, <1>5, <1>7, <1>10 DEF g, c

\* A client that has made the types before one has the handles to draft it.
LEMMA HandlesAtHand ==
    ASSUME Complete, BackwardOnly(Finished), NEW n \in DOMAIN built.types,
           NEW c, Stage(c, n - 1)
    PROVE  CanDraft(c, built.types[n])
<1> DEFINE t == built.types[n]
<1>1. Finished.types = built.types /\ DOMAIN built.types \subseteq Nat
  <2>1. built.types \in Seq(TypeInfo)
    BY DEF Complete, BuildInv, BuildTyped
  <2> QED BY <2>1, FinishedShape
<1>2. t.parent \in Owners(c)
  <2> DEFINE u == DraftOf(t)
  <2>1. t \in TypeInfo
    BY TypeComplete
  <2>2. u \in TypeInfo /\ u.parent = t.parent
    BY <2>1, DraftTyped
  <2>3. InsertVerdict(c, u) = "Ok"
    BY DraftAccepted
  <2>4. c \in ContextType
    BY DEF Stage
  <2> HIDE DEF u, t
  <2>5. u.parent \in Owners(c)
    BY <2>2, <2>3, <2>4, ParentOwns
  <2> QED BY <2>2, <2>5
<1>3. ASSUME t.kind = "Message", NEW k \in DOMAIN t.fields, t.fields[k].type \in TypeRef
      PROVE  t.fields[k].type \in Given(c) \cup Early
  <2> DEFINE type == t.fields[k].type
  <2>1. type.of \in TypeKinds /\ type.ref \in Nat
    BY <1>3 DEF TypeRef
  <2>2. type.ref \in DOMAIN built.types /\ built.types[type.ref].kind = type.of
    BY <1>3, <2>1, FinishedHandles
  <2>3. type.ref < n \/ type.ref = FirstRef
    <3>1. \A i \in DOMAIN built.types : built.types[i].kind = "Message" =>
             \A j \in DOMAIN built.types[i].fields : built.types[i].fields[j].type \in TypeRef =>
                built.types[i].fields[j].type.ref < i \/ built.types[i].fields[j].type.ref = FirstRef
      BY <1>1 DEF BackwardOnly
    <3> QED BY <1>3, <3>1
  <2> HIDE DEF type
  <2>4. PICK kind \in TypeKinds, r \in Nat : type = [of |-> kind, ref |-> r]
    BY <1>3 DEF TypeRef, type
  <2>5. type.of = kind /\ type.ref = r
    BY <2>4
  <2>6. ASSUME type.ref = FirstRef PROVE type \in Early
    BY <2>6, <2>4, <2>5 DEF Early
  <2>7. ASSUME type.ref < n PROVE type \in Given(c)
    <3>1. type.ref \in 1..(n - 1)
      <4>1. built.types \in Seq(TypeInfo)
        BY DEF Complete, BuildInv, BuildTyped
      <4>2. type.ref >= 1
        BY <2>2, <4>1
      <4> QED BY <1>1, <2>1, <2>7, <4>2
    <3>2. type.ref \in DOMAIN c.types /\ c.types[type.ref].kind = type.of
      BY <2>2, <3>1 DEF Stage, SameBut
    <3> QED BY <2>4, <2>5, <3>2 DEF Given
  <2> QED BY <2>3, <2>6, <2>7 DEF type
<1> QED BY <1>2, <1>3 DEF CanDraft

\* The context build returns is the one made by hand from it.
LEMMA ContextByHand ==
    ASSUME Complete, OrderOK, built.services = <<>>,
           \A p, q \in DOMAIN files : files[p].name = files[q].name => p = q,
           \A i \in DOMAIN built.types : Crafted(built.types[i]),
           BackwardOnly(Finished)
    PROVE  Rebuilt(Finished) = {Finished}
<1> DEFINE c == Finished
           N == Len(c.types)
           g == [n \in 0..N |-> {At(n)}]
           Is(f) == f = [n \in 0..N |->
                           IF n = 0 THEN PackagesRebuilt(c)
                           ELSE UNION {TypeRebuilt(b, c.types[n]) : b \in f[n - 1]}]
<1>1. c.types = built.types
  BY FinishedShape
<1>2. N \in Nat /\ DOMAIN built.types = 1..N /\ N = Len(built.types)
  <2>1. built.types \in Seq(TypeInfo)
    BY DEF Complete, BuildInv, BuildTyped
  <2> HIDE DEF c
  <2> QED BY <1>1, <2>1
<1>3. PackagesRebuilt(c) = {At(0)}
  BY PackagesByHand
<1> HIDE DEF N, c
<1>4. ASSUME NEW n \in 1..N
      PROVE  UNION {TypeRebuilt(b, c.types[n]) : b \in {At(n - 1)}} = {At(n)}
  <2>1. n \in DOMAIN built.types /\ n \in Nat /\ n \in 0..N /\ n - 1 \in 0..N
    BY <1>2
  <2>2. Stage(At(n - 1), n - 1) /\ Stage(At(n), n)
    BY <1>2, <2>1, AtStage
  <2>3. Stage(TypeAdded(At(n - 1), DraftOf(built.types[n])), n)
    BY <2>1, <2>2, Staged
  <2>4. Redrafted(built.types[n]) = {DraftOf(built.types[n])}
    <3>1. built.types[n] \in TypeInfo /\ Members(built.types[n])
      BY <2>1, TypeComplete DEF TypeBuilt
    <3> QED BY <2>1, <3>1, TypeByHand DEF DraftOf
  <2>5. TypeAdded(At(n - 1), DraftOf(built.types[n])) = At(n)
    BY <2>1, <2>2, <2>3, StageOne
  <2>6. CanDraft(At(n - 1), built.types[n])
    BY <2>1, <2>2, HandlesAtHand DEF c
  <2>7. InsertVerdict(At(n - 1), DraftOf(built.types[n])) = "Ok"
    BY <2>1, <2>2, DraftAccepted
  <2> DEFINE b == At(n - 1)
             t == built.types[n]
             u == DraftOf(t)
  <2>8. insert_type(b, u) = {At(n)}
    BY <2>5, <2>7 DEF insert_type, Ok
  <2>9. Redrafted(t) = {u} /\ CanDraft(b, t) /\ c.types[n] = t
    BY <1>1, <2>4, <2>6
  <2> HIDE DEF b, t, u
  <2>10. UNION {insert_type(b, d) : d \in {u}} = insert_type(b, u)
    OBVIOUS
  <2>11. TypeRebuilt(b, t) = {At(n)}
    BY <2>8, <2>9, <2>10 DEF TypeRebuilt
  <2>12. UNION {TypeRebuilt(d, t) : d \in {b}} = TypeRebuilt(b, t)
    OBVIOUS
  <2> QED BY <2>9, <2>11, <2>12 DEF b
<1>5. At(N) = c
  <2>1. Stage(c, N)
    BY <1>2, FinishedStage DEF c
  <2>2. N \in 0..Len(built.types)
    BY <1>2
  <2>3. Stage(At(N), N)
    BY <2>2, AtStage
  <2> QED BY <1>2, <2>1, <2>3, StageOne
<1>6. Is(g)
  <2>1. ASSUME NEW n \in 0..N, n # 0
        PROVE  g[n] = UNION {TypeRebuilt(b, c.types[n]) : b \in g[n - 1]}
    <3>1. n \in 1..N /\ n - 1 \in 0..N
      BY <1>2, <2>1
    <3>2. g[n] = {At(n)} /\ g[n - 1] = {At(n - 1)}
      BY <3>1
    <3> HIDE DEF g
    <3> QED BY <1>4, <3>1, <3>2
  <2>2. g[0] = PackagesRebuilt(c)
    BY <1>2, <1>3
  <2> HIDE DEF g
  <2>3. g = [n \in 0..N |-> g[n]]
    BY DEF g
  <2> QED BY <2>1, <2>2, <2>3
<1> HIDE DEF g, Is
<1>7. PICK f : Is(f) /\ Rebuilt(c) = f[N]
  <2>1. \E f : Is(f) /\ Rebuilt(c) = f[N]
    BY <1>6 DEF Rebuilt, Is, N
  <2> QED BY <2>1
<1>8. f[0] = g[0]
  <2>1. f[0] = PackagesRebuilt(c)
    BY <1>2, <1>7 DEF Is
  <2> QED BY <1>2, <1>3, <2>1 DEF g
<1>9. ASSUME NEW n \in 1..N, f[n - 1] = g[n - 1] PROVE f[n] = g[n]
  <2>1. n \in 0..N /\ n # 0 /\ n - 1 \in 0..N
    BY <1>2
  <2>2. f[n] = UNION {TypeRebuilt(b, c.types[n]) : b \in f[n - 1]}
    BY <1>7, <2>1 DEF Is
  <2>3. g[n] = {At(n)} /\ g[n - 1] = {At(n - 1)}
    BY <2>1 DEF g
  <2> QED BY <1>4, <1>9, <2>2, <2>3
<1>10. f[N] = g[N]
  BY <1>2, <1>8, <1>9, Agree
<1> QED BY <1>2, <1>5, <1>7, <1>10 DEF g, c

-----------------------------------------------------------------------------
(* Every context that is parsed *)

\* A client has left the context that build returned as it was, or added to it.
Remade ==
    status = "ready" =>
        \/ ctx = Finished
        \/ Len(ctx.types) > Len(built.types) \/ Len(ctx.packages) > Len(files)

LEMMA CraftKeeps ==
    ASSUME BuildInv, AllCrafted, [Next]_vars
    PROVE  AllCrafted'
<1>1. CASE BuildType
  BY <1>1, BuildTypeCrafts
<1>2. CASE PopulateMessage \/ PopulateEnum \/ PopulateService
  <2>1. built' = built /\ status = "populate"
    BY <1>2 DEF PopulateMessage, PopulateEnum, PopulateService
  <2>2. DOMAIN built'.types = {}
    BY <2>1 DEF BuildInv, Progress, Populating
  <2> QED BY <2>2 DEF AllCrafted
<1>3. CASE UNCHANGED <<files, cache>> /\ built'.types = built.types
  BY <1>3, SameCrafts DEF AllCrafted
<1>4. CASE BuildService
  <2>1. built \in [types : Seq(TypeInfo), services : Seq(ServiceInfo)]
    BY DEF BuildInv, BuildTyped
  <2> DEFINE ss == Append(built.services, BuiltService(ServiceData))
  <2>2. built' = built \/ built' = [built EXCEPT !.services = ss]
    BY <1>4 DEF BuildService
  <2> HIDE DEF ss
  <2>3. UNCHANGED <<files, cache>> /\ built'.types = built.types
    BY <1>4, <2>1, <2>2 DEF BuildService
  <2> QED BY <1>3, <2>3
<1>5. CASE Duplicate \/ Populated \/ TypesBuilt \/ Finish \/ Change \/ UNCHANGED vars
  <2>1. UNCHANGED <<files, cache>> /\ built' = built
    BY <1>5 DEF Duplicate, Populated, TypesBuilt, Finish, Change, vars, buildVars
  <2> QED BY <1>3, <2>1
<1> QED BY <1>1, <1>2, <1>4, <1>5 DEF Next, Parse, BuildNext

LEMMA OrderKeeps ==
    ASSUME BuildInv, OrderOK, [Next]_vars
    PROVE  OrderOK'
<1>1. CASE PopulateMessage \/ PopulateEnum \/ PopulateService
  BY <1>1, PopulateVisits, PopulateCaches, OrderAfterVisit
<1>2. CASE ~(PopulateMessage \/ PopulateEnum \/ PopulateService)
  <2>1. agenda' = agenda /\ cache' = cache
    BY <1>2 DEF Next, Parse, BuildNext, Duplicate, Populated, BuildType, TypesBuilt,
                BuildService, Finish, Change, vars, buildVars
  <2> QED BY <2>1 DEF OrderOK, ElderFirst
<1> QED BY <1>1, <1>2

\* Nothing is taken out of a context.
LEMMA CallGrows ==
    ASSUME IInv, RegistryNext
    PROVE  \/ ctx' = ctx
           \/ /\ Len(ctx'.types) >= Len(ctx.types) /\ Len(ctx'.packages) >= Len(ctx.packages)
              /\ Len(ctx'.types) > Len(ctx.types) \/ Len(ctx'.packages) > Len(ctx.packages)
<1>1. /\ ctx \in ContextType
      /\ ctx.types \in Seq(TypeInfo) /\ ctx.packages \in Seq(Package)
  BY DEF IInv, Typed, ContextType
<1>2. /\ Len(ctx.types) \in Nat /\ DOMAIN ctx.types = 1..Len(ctx.types)
      /\ Len(ctx.packages) \in Nat /\ DOMAIN ctx.packages = 1..Len(ctx.packages)
  BY <1>1
<1>3. CASE InsertType
  <2> DEFINE t == draft[1]
             d == TypeAdded(ctx, t)
  <2>1. draft # <<>> /\ InsertVerdict(ctx, t) = "Ok" /\ ctx' = d
    BY <1>3, CallsReturn DEF InsertType
  <2>2. t \in TypeInfo /\ t.inner_types = <<>>
    BY <2>1, DraftKnown
  <2> HIDE DEF t
  <2>3. /\ d \in ContextType /\ DOMAIN d.types = 1..(Len(ctx.types) + 1)
        /\ DOMAIN d.packages = DOMAIN ctx.packages
    BY <1>1, <2>1, <2>2, TypeAddedShape
  <2> HIDE DEF d
  <2>4. d.types \in Seq(TypeInfo) /\ d.packages \in Seq(Package)
    BY <2>3 DEF ContextType
  <2>5. Len(d.types) = Len(ctx.types) + 1 /\ Len(d.packages) = Len(ctx.packages)
    BY <1>2, <2>3, <2>4
  <2> QED BY <1>2, <2>1, <2>5
<1>4. CASE InsertPackage
  <2>1. PICK name : ctx' = PackageAdded(ctx, NewPackage(name))
    BY <1>4, CallsReturn DEF InsertPackage
  <2> DEFINE p == [NewPackage(name) EXCEPT !.self_ref = Len(ctx.packages) + 1]
             ps == Append(ctx.packages, p)
  <2>2. ctx' = [ctx EXCEPT !.packages = ps]
    BY <2>1 DEF PackageAdded
  <2> HIDE DEF p
  <2>3. Len(ps) = Len(ctx.packages) + 1
    BY <1>1
  <2> HIDE DEF ps
  <2>4. ctx'.types = ctx.types /\ ctx'.packages = ps
    BY <1>1, <2>2 DEF ContextType
  <2> QED BY <1>2, <2>3, <2>4
<1> QED BY <1>3, <1>4
     DEF RegistryNext, StartDraft, AddField, AddEnumField, AddOneof, RefuseType

LEMMA RemadeKeeps ==
    ASSUME LInv, Remade, [Next]_vars
    PROVE  Remade'
<1>1. ASSUME files' = files, built' = built PROVE Finished' = Finished
  <2>1. \A p : TopTypes(p)' = TopTypes(p) /\ ServicesOf(p)' = ServicesOf(p)
    BY <1>1 DEF TopTypes, ServicesOf, RefTo
  <2> QED BY <1>1, <2>1 DEF Finished, TopTypes, ServicesOf, RefTo
<1>2. CASE Finish
  <2>1. ctx' = Finished /\ files' = files /\ built' = built
    BY <1>2 DEF Finish, Finished
  <2> QED BY <1>1, <2>1 DEF Remade
<1>3. CASE Parse /\ ~Finish
  BY <1>3, NotReady DEF Remade
<1>4. CASE Change
  <2>1. /\ status = "ready" /\ status' = status /\ files' = files /\ built' = built
        /\ RegistryNext
    BY <1>4 DEF Change, buildVars
  <2>2. CASE ctx' = ctx
    BY <1>1, <2>1, <2>2 DEF Remade
  <2>3. CASE /\ Len(ctx'.types) >= Len(ctx.types) /\ Len(ctx'.packages) >= Len(ctx.packages)
             /\ Len(ctx'.types) > Len(ctx.types) \/ Len(ctx'.packages) > Len(ctx.packages)
    <3>1. /\ IInv /\ IInv' /\ Complete
      BY <2>1, RegistryStepKeeps DEF LInv, Complete, BuildInv, Progress, Populating
    <3>2. /\ ctx.types \in Seq(TypeInfo) /\ ctx.packages \in Seq(Package)
          /\ ctx'.types \in Seq(TypeInfo) /\ ctx'.packages \in Seq(Package)
      BY <3>1 DEF IInv, Typed, ContextType
    <3>3. built.types \in Seq(TypeInfo) /\ files \in Seq(FileDecl)
      BY <3>1, FilesAre DEF Complete, BuildInv, BuildTyped
    <3>4. Len(ctx.types) \in Nat /\ Len(ctx'.types) \in Nat
      BY <3>2
    <3>5. Len(ctx.packages) \in Nat /\ Len(ctx'.packages) \in Nat
      BY <3>2
    <3>6. Len(built.types) \in Nat /\ Len(files) \in Nat
      BY <3>3
    <3>7. /\ Len(ctx.types) \in Nat /\ Len(ctx'.types) \in Nat /\ Len(built.types) \in Nat
          /\ Len(ctx.packages) \in Nat /\ Len(ctx'.packages) \in Nat /\ Len(files) \in Nat
      BY <3>4, <3>5, <3>6
    <3>8. \/ Len(ctx.types) >= Len(built.types) /\ Len(ctx.packages) >= Len(files)
          \/ Len(ctx.types) > Len(built.types) \/ Len(ctx.packages) > Len(files)
      <4>1. ctx = Finished => Len(ctx.types) = Len(built.types)
                              /\ Len(ctx.packages) = Len(files)
        <5>1. Finished.types = built.types
          BY <3>1, FinishedShape
        <5>2. DOMAIN Finished.packages = DOMAIN files
          BY <3>1, FinishedShape
        <5>3. ctx = Finished => DOMAIN ctx.packages = DOMAIN files
          BY <5>2
        <5>4. DOMAIN ctx.packages = DOMAIN files => Len(ctx.packages) = Len(files)
          BY <3>2, <3>3, <3>7
        <5> QED BY <5>1, <5>3, <5>4
      <4> QED BY <2>1, <3>7, <4>1 DEF Remade
    <3>9. \/ Len(ctx'.types) > Len(built.types) \/ Len(ctx'.packages) > Len(files)
      <4> DEFINE t == Len(ctx.types)
                 u == Len(ctx'.types)
                 b == Len(built.types)
                 p == Len(ctx.packages)
                 q == Len(ctx'.packages)
                 f == Len(files)
      <4>1. /\ t \in Nat /\ u \in Nat /\ b \in Nat /\ p \in Nat /\ q \in Nat /\ f \in Nat
            /\ u >= t /\ q >= p /\ (u > t \/ q > p)
            /\ (t >= b /\ p >= f) \/ t > b \/ p > f
        BY <2>3, <3>7, <3>8
      <4> HIDE DEF t, u, b, p, q, f
      <4>2. u > b \/ q > f
        BY <4>1
      <4> QED BY <4>2 DEF u, b, q, f
    <3> QED BY <2>1, <3>9 DEF Remade
  <2> QED BY <2>1, <2>2, <2>3, CallGrows DEF LInv
<1>5. CASE UNCHANGED vars
  BY <1>1, <1>5 DEF vars, Remade
<1> QED BY <1>2, <1>3, <1>4, <1>5 DEF Next

LEMMA HandAtFirst == Init => AllCrafted /\ OrderOK /\ Remade
<1> SUFFICES ASSUME Init PROVE AllCrafted /\ OrderOK /\ Remade
  OBVIOUS
<1>1. BuildInit /\ DOMAIN built.types = {} /\ status # "ready"
  BY DEF Init, BuildInit
<1> QED BY <1>1, OrderAtFirst DEF AllCrafted, Remade

LEMMA HandFollows ==
    ASSUME LInv, AllCrafted, OrderOK, Remade
    PROVE  HandBuiltEqualsParsed
<1> SUFFICES ASSUME status = "ready", ctx.types = built.types, Len(ctx.packages) = Len(files),
                    \A p, q \in DOMAIN files : files[p].name = files[q].name => p = q,
                    ctx.services = <<>>, \A d \in Declared : Conflictless(Item(d.idx)),
                    BackwardOnly(ctx)
             PROVE  Rebuilt(ctx) = {ctx}
  BY DEF HandBuiltEqualsParsed
<1>1. Complete /\ files \in Files
  BY DEF LInv, Complete, BuildInv, BuildTyped, Progress, Populating
<1>2. ctx = Finished
  <2>1. ctx.packages \in Seq(Package) /\ built.types \in Seq(TypeInfo)
    BY <1>1 DEF LInv, IInv, Typed, ContextType, Complete, BuildInv, BuildTyped
  <2>2. Len(ctx.packages) \in Nat /\ Len(built.types) \in Nat
    BY <2>1
  <2> QED BY <2>2 DEF Remade
<1>3. built.services = <<>>
  BY <1>1, <1>2, FinishedShape
<1>4. ASSUME NEW i \in DOMAIN built.types PROVE Crafted(built.types[i])
  <2> DEFINE p == cache.types[i].idx_path
  <2>1. Known(p)
    BY <1>1, TypeComplete DEF TypeCached
  <2> HIDE DEF p
  <2>2. DeclOf(p) \in Declared /\ DeclOf(p).idx = p
    <3>1. DeclOf(p).idx = p
      BY DEF DeclOf
    <3> QED BY <1>1, <2>1, <3>1, DeclaredAre
  <2>3. Conflictless(Item(p))
    BY <2>2
  <2> QED BY <2>3 DEF AllCrafted, Crafts, p
<1>5. Rebuilt(Finished) = {Finished}
  BY <1>1, <1>2, <1>3, <1>4, ContextByHand
<1> QED BY <1>2, <1>5

\* tests/create.rs for all files of different packages, without services, without
\* conflicts among the members of a type and without references to later types: a
\* client that follows the declarations has each handle when it needs it, every one
\* of its calls succeeds, and the context it ends with is the one that was parsed.
THEOREM HandBuiltAlways == Spec => []HandBuiltEqualsParsed
<1>1. /\ AllCrafted /\ OrderOK /\ Remade /\ LInv /\ [Next]_vars
         => AllCrafted' /\ OrderOK' /\ Remade'
  BY CraftKeeps, OrderKeeps, RemadeKeeps DEF LInv
<1>2. LInv /\ AllCrafted /\ OrderOK /\ Remade => HandBuiltEqualsParsed
  BY HandFollows
<1> QED BY <1>1, <1>2, HandAtFirst, LInvAlways, PTL DEF Spec
=============================================================================
