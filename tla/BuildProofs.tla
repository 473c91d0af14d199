----------------------------- MODULE BuildProofs -----------------------------
(***************************************************************************)
(* What holds of ContextBuilder::build for all files: its own assertions,  *)
(* and what it has built when it succeeds.                                 *)
(***************************************************************************)
EXTENDS Build, ContextProofs, BasicLemmas

-----------------------------------------------------------------------------
(* The declarations *)

\* TypeDecl is what its definition says.
IsTypeDecl(g, N) ==
    g = [n \in 0..N |->
           IF n = 0 THEN {}
           ELSE EnumDecl \cup [kind : {"Message"}, name : STRING, inner : Seq(g[n - 1]),
                               fields : Seq(FieldDecl), oneofs : Seq(OneofDecl)]]

MessagesOf(S) ==
    [kind : {"Message"}, name : STRING, inner : Seq(S),
     fields : Seq(FieldDecl), oneofs : Seq(OneofDecl)]

LEMMA TypeDeclExists == \A N \in Nat : \E g : IsTypeDecl(g, N)
<1> DEFINE B == {N \in Nat : \E g : IsTypeDecl(g, N)}
<1>1. 0 \in B
  <2>1. IsTypeDecl([n \in 0..0 |-> {}], 0)
    BY DEF IsTypeDecl
  <2> QED BY <2>1
<1>2. ASSUME NEW N \in Nat, N \in B PROVE N + 1 \in B
  <2>1. PICK g : IsTypeDecl(g, N)
    BY <1>2
  <2> DEFINE h == [n \in 0..(N + 1) |->
                     IF n = N + 1 THEN EnumDecl \cup MessagesOf(g[N]) ELSE g[n]]
  <2>2. ASSUME NEW n \in 0..(N + 1)
        PROVE  h[n] = IF n = 0 THEN {} ELSE EnumDecl \cup MessagesOf(h[n - 1])
    <3>1. CASE n = N + 1
      BY <3>1
    <3>2. CASE n # N + 1
      <4>1. n \in 0..N /\ (n # 0 => n - 1 \in 0..N /\ n - 1 # N + 1)
        BY <3>2
      <4>2. g[n] = IF n = 0 THEN {} ELSE EnumDecl \cup MessagesOf(g[n - 1])
        BY <2>1, <4>1 DEF IsTypeDecl, MessagesOf
      <4>3. h[n] = g[n] /\ (n # 0 => h[n - 1] = g[n - 1])
        BY <3>2, <4>1
      <4> QED BY <4>2, <4>3
    <3> QED BY <3>1, <3>2
  <2>3. IsTypeDecl(h, N + 1)
    <3> HIDE DEF h
    <3>1. h = [n \in 0..(N + 1) |-> h[n]]
      BY DEF h
    <3> QED BY <2>2, <3>1 DEF IsTypeDecl, MessagesOf
  <2> QED BY <2>3
<1> HIDE DEF B
<1>3. Nat \subseteq B
  BY <1>1, <1>2, SetInduction
<1> QED BY <1>3 DEF B

LEMMA TypeDeclIs ==
    /\ TypeDecl[0] = {}
    /\ \A n \in 1..MaxDepth : TypeDecl[n] = EnumDecl \cup MessagesOf(TypeDecl[n - 1])
<1>1. IsTypeDecl(TypeDecl, MaxDepth)
  BY TypeDeclExists, BuildAssumption DEF IsTypeDecl, TypeDecl
<1>2. 0 \in 0..MaxDepth /\ \A n \in 1..MaxDepth : n \in 0..MaxDepth /\ n # 0
  BY BuildAssumption
<1> QED BY <1>1, <1>2 DEF IsTypeDecl, MessagesOf

\* The types of all levels.
Types == UNION {TypeDecl[n] : n \in 1..MaxDepth}

LEMMA InnerTypes ==
    ASSUME NEW it \in Types
    PROVE  \/ it \in EnumDecl
           \/ it \in MessagesOf(Types)
<1>1. PICK n \in 1..MaxDepth : it \in TypeDecl[n]
  BY DEF Types
<1>2. it \in EnumDecl \/ it \in MessagesOf(TypeDecl[n - 1])
  BY <1>1, TypeDeclIs
<1>3. TypeDecl[n - 1] \subseteq Types
  <2>1. CASE n = 1
    <3>1. TypeDecl[n - 1] = {}
      BY <2>1, TypeDeclIs
    <3> QED BY <3>1
  <2>2. CASE n # 1
    <3>1. n - 1 \in 1..MaxDepth
      BY <2>2, BuildAssumption
    <3> QED BY <3>1 DEF Types
  <2> QED BY <2>1, <2>2
<1>4. Seq(TypeDecl[n - 1]) \subseteq Seq(Types)
  BY <1>3
<1> QED BY <1>2, <1>4 DEF MessagesOf

\* What an item is, by its kind.
IsType(it) ==
    /\ it.kind \in TypeKinds /\ it.name \in STRING /\ it.inner \in Seq(Types)
    /\ it.kind = "Enum" => it.inner = <<>> /\ it.fields \in Seq(EnumField)
    /\ it.kind = "Message" => it.fields \in Seq(FieldDecl) /\ it.oneofs \in Seq(OneofDecl)
IsService(it) ==
    it.kind = "Service" /\ it.name \in STRING /\ it.inner = <<>> /\ it.rpcs \in Seq(RpcDecl)

LEMMA TypesAre == \A it \in Types : IsType(it)
<1> SUFFICES ASSUME NEW it \in Types PROVE IsType(it)
  OBVIOUS
<1>1. CASE it \in EnumDecl
  <2>1. <<>> \in Seq(Types)
    OBVIOUS
  <2> QED BY <1>1, <2>1 DEF EnumDecl, IsType, TypeKinds
<1>2. CASE it \in MessagesOf(Types)
  BY <1>2 DEF MessagesOf, IsType, TypeKinds
<1> QED BY <1>1, <1>2, InnerTypes

LEMMA FilesAre ==
    ASSUME files \in Files
    PROVE  /\ files \in Seq(FileDecl)
           /\ \A f \in DOMAIN files :
                /\ files[f].name \in Names /\ DOMAIN files[f].items \subseteq Nat
                /\ files[f].items \in Seq(Types \cup ServiceDecl)
                /\ \A i \in DOMAIN files[f].items :
                     files[f].items[i] \in Types \/ IsService(files[f].items[i])
<1>1. files \in Seq(FileDecl)
  BY BuildAssumption
<1>2. TypeDecl[MaxDepth] \subseteq Types
  BY BuildAssumption DEF Types
<1>3. ASSUME NEW f \in DOMAIN files
      PROVE  /\ files[f].name \in Names
             /\ files[f].items \in Seq(Types \cup ServiceDecl)
  <2>1. files[f] \in FileDecl
    BY <1>1
  <2>2. Seq(TypeDecl[MaxDepth] \cup ServiceDecl) \subseteq Seq(Types \cup ServiceDecl)
    BY <1>2
  <2> QED BY <2>1, <2>2 DEF FileDecl
<1>4. \A it \in ServiceDecl : IsService(it)
  BY DEF ServiceDecl, IsService
<1>5. \A f \in DOMAIN files : \A i \in DOMAIN files[f].items :
         i \in Nat /\ files[f].items[i] \in Types \cup ServiceDecl
  BY <1>3
<1> QED BY <1>1, <1>3, <1>4, <1>5

-----------------------------------------------------------------------------
(* The items on a path *)

IsWalk(at, idx) ==
    at = [n \in 2..Len(idx) |->
            IF n = 2 THEN files[idx[1]].items[idx[2]] ELSE at[n - 1].inner[idx[n]]]

LEMMA WalkExists ==
    ASSUME NEW idx \in Seq(Nat)
    PROVE  \E at : IsWalk(at, idx)
<1> DEFINE Upto(g, N) ==
              g = [n \in 2..N |->
                     IF n = 2 THEN files[idx[1]].items[idx[2]] ELSE g[n - 1].inner[idx[n]]]
           B == {N \in Nat : \E g : Upto(g, N)}
<1>1. 0 \in B
  <2>1. Upto([n \in 2..0 |-> 0], 0)
    OBVIOUS
  <2> QED BY <2>1
<1>2. ASSUME NEW N \in Nat, N \in B PROVE N + 1 \in B
  <2>1. PICK g : Upto(g, N)
    BY <1>2
  <2> DEFINE h == [n \in 2..(N + 1) |->
                     IF n = 2 THEN files[idx[1]].items[idx[2]]
                     ELSE IF n = N + 1 THEN g[N].inner[idx[n]] ELSE g[n]]
  <2>2. ASSUME NEW n \in 2..(N + 1)
        PROVE  h[n] = IF n = 2 THEN files[idx[1]].items[idx[2]] ELSE h[n - 1].inner[idx[n]]
    <3>1. CASE n = 2
      BY <3>1
    <3>2. CASE n # 2
      <4>1. n - 1 \in 2..N /\ n - 1 # N + 1
        BY <3>2
      <4>2. h[n - 1] = g[n - 1]
        <5>1. g[2] = files[idx[1]].items[idx[2]] \/ n - 1 # 2
          BY <2>1, <4>1
        <5> QED BY <4>1, <5>1
      <4>3. CASE n = N + 1
        BY <3>2, <4>2, <4>3
      <4>4. CASE n # N + 1
        <5>1. n \in 2..N
          BY <4>4
        <5> QED BY <2>1, <3>2, <4>2, <4>4, <5>1
      <4> QED BY <4>3, <4>4
    <3> QED BY <3>1, <3>2
  <2>3. Upto(h, N + 1)
    <3> HIDE DEF h
    <3>1. h = [n \in 2..(N + 1) |-> h[n]]
      BY DEF h
    <3> QED BY <2>2, <3>1
  <2> HIDE DEF Upto
  <2> QED BY <2>3
<1> HIDE DEF B
<1>3. Nat \subseteq B
  BY <1>1, <1>2, SetInduction
<1> QED BY <1>3 DEF B, IsWalk

LEMMA ItemWalk ==
    ASSUME NEW idx \in Seq(Nat)
    PROVE  \E at : IsWalk(at, idx) /\ Item(idx) = at[Len(idx)]
BY WalkExists DEF IsWalk, Item

\* Two walks go the same way as long as their paths do.
LEMMA WalksAgree ==
    ASSUME NEW a \in Seq(Nat), NEW i \in Nat,
           NEW f, IsWalk(f, a), NEW g, IsWalk(g, Append(a, i))
    PROVE  \A n \in 2..Len(a) : f[n] = g[n]
<1> DEFINE b == Append(a, i)
           B == {n \in Nat : n \in 2..Len(a) => f[n] = g[n]}
<1>0. b \in Seq(Nat) /\ Len(b) = Len(a) + 1 /\ \A n \in 1..Len(a) : b[n] = a[n]
  OBVIOUS
<1>1. 0 \in B
  OBVIOUS
<1>2. ASSUME NEW n \in Nat, n \in B PROVE n + 1 \in B
  <2> SUFFICES ASSUME n + 1 \in 2..Len(a) PROVE f[n + 1] = g[n + 1]
    OBVIOUS
  <2>1. /\ n + 1 \in 2..Len(b) /\ n + 1 \in 1..Len(a)
        /\ 1 \in 1..Len(a) /\ 2 \in 1..Len(a) /\ (n + 1) - 1 = n
    BY <1>0
  <2>2. /\ f[n + 1] = IF n + 1 = 2 THEN files[a[1]].items[a[2]] ELSE f[n].inner[a[n + 1]]
        /\ g[n + 1] = IF n + 1 = 2 THEN files[b[1]].items[b[2]] ELSE g[n].inner[b[n + 1]]
    <3>1. \A m \in 2..Len(a) :
             f[m] = IF m = 2 THEN files[a[1]].items[a[2]] ELSE f[m - 1].inner[a[m]]
      BY DEF IsWalk
    <3>2. \A m \in 2..Len(b) :
             g[m] = IF m = 2 THEN files[b[1]].items[b[2]] ELSE g[m - 1].inner[b[m]]
      BY DEF IsWalk
    <3> HIDE DEF b, B
    <3>3. f[n + 1] = IF n + 1 = 2 THEN files[a[1]].items[a[2]] ELSE f[n].inner[a[n + 1]]
      BY <2>1, <3>1
    <3>4. g[n + 1] = IF n + 1 = 2 THEN files[b[1]].items[b[2]] ELSE g[n].inner[b[n + 1]]
      BY <2>1, <3>2
    <3> QED BY <3>3, <3>4
  <2>3. CASE n + 1 = 2
    BY <1>0, <2>1, <2>2, <2>3
  <2>4. CASE n + 1 # 2
    <3>1. n \in 2..Len(a)
      BY <2>4
    <3> QED BY <1>0, <1>2, <2>1, <2>2, <2>4, <3>1
  <2> QED BY <2>3, <2>4
<1> HIDE DEF B
<1>3. Nat \subseteq B
  BY <1>1, <1>2, SetInduction
<1> QED BY <1>3 DEF B

LEMMA ItemTop ==
    ASSUME NEW idx \in Seq(Nat), Len(idx) = 2
    PROVE  Item(idx) = files[idx[1]].items[idx[2]]
<1>1. PICK at : IsWalk(at, idx) /\ Item(idx) = at[Len(idx)]
  BY ItemWalk
<1> QED BY <1>1 DEF IsWalk

LEMMA ItemInner ==
    ASSUME NEW idx \in Seq(Nat), Len(idx) >= 2, NEW i \in Nat
    PROVE  Item(Append(idx, i)) = Item(idx).inner[i]
<1> DEFINE b == Append(idx, i)
<1>1. b \in Seq(Nat) /\ Len(b) = Len(idx) + 1 /\ b[Len(b)] = i
  OBVIOUS
<1>2. PICK f : IsWalk(f, idx) /\ Item(idx) = f[Len(idx)]
  BY ItemWalk
<1>3. PICK g : IsWalk(g, b) /\ Item(b) = g[Len(b)]
  BY <1>1, ItemWalk
<1>4. f[Len(idx)] = g[Len(idx)]
  BY <1>2, <1>3, WalksAgree
<1>5. Len(b) \in 2..Len(b) /\ Len(b) # 2 /\ Len(b) - 1 = Len(idx)
  BY <1>1
<1> HIDE DEF b
<1>6. g[Len(b)] = g[Len(b) - 1].inner[b[Len(b)]]
  BY <1>3, <1>5 DEF IsWalk
<1> QED BY <1>1, <1>2, <1>3, <1>4, <1>5, <1>6 DEF b

-----------------------------------------------------------------------------
(* The declarations by their paths *)

\* The name of the scope of an item, and its own.
Scope(idx) ==
    files[idx[1]].name \o [k \in 1..(Len(idx) - 2) |-> Item(SubSeq(idx, 1, k + 1)).name]
NameOf(idx) == Append(Scope(idx), Item(idx).name)

\* The path leads to an item.
Known(idx) ==
    /\ idx \in Seq(Nat) /\ Len(idx) >= 2
    /\ idx[1] \in DOMAIN files /\ idx[2] \in DOMAIN files[idx[1]].items
    /\ \A n \in 2..(Len(idx) - 1) : idx[n + 1] \in DOMAIN Item(SubSeq(idx, 1, n)).inner

\* A part of a path, one step longer.
LEMMA Steps ==
    ASSUME NEW idx \in Seq(Nat), NEW n \in 1..(Len(idx) - 1)
    PROVE  /\ SubSeq(idx, 1, n) \in Seq(Nat) /\ Len(SubSeq(idx, 1, n)) = n
           /\ SubSeq(idx, 1, n + 1) = Append(SubSeq(idx, 1, n), idx[n + 1])
           /\ idx[n + 1] \in Nat
<1>1. n \in Nat /\ n + 1 \in 1..Len(idx) /\ n \in 1..Len(idx) /\ Len(idx) \in Nat
  OBVIOUS
<1>2. /\ SubSeq(idx, 1, n) \in Seq(Nat) /\ Len(SubSeq(idx, 1, n)) = n
      /\ SubSeq(idx, 1, n + 1) \in Seq(Nat) /\ Len(SubSeq(idx, 1, n + 1)) = n + 1
      /\ \A k \in 1..n : SubSeq(idx, 1, n)[k] = idx[k]
      /\ \A k \in 1..(n + 1) : SubSeq(idx, 1, n + 1)[k] = idx[k]
  BY <1>1
<1> DEFINE a == SubSeq(idx, 1, n)
           b == SubSeq(idx, 1, n + 1)
           c == Append(a, idx[n + 1])
<1>3. /\ a \in Seq(Nat) /\ b \in Seq(Nat) /\ Len(a) = n /\ Len(b) = n + 1
      /\ \A k \in 1..n : a[k] = idx[k]
      /\ \A k \in 1..(n + 1) : b[k] = idx[k]
  BY <1>2
<1>4. idx[n + 1] \in Nat
  BY <1>1
<1> HIDE DEF a, b
<1>5. /\ c \in Seq(Nat) /\ Len(c) = n + 1 /\ c[n + 1] = idx[n + 1]
      /\ \A k \in 1..n : c[k] = a[k]
  BY <1>1, <1>3, <1>4
<1> HIDE DEF c
<1>6. \A k \in 1..(n + 1) : b[k] = c[k]
  <2>1. \A k \in 1..(n + 1) : k \in 1..n \/ k = n + 1
    BY <1>1
  <2> QED BY <1>3, <1>5, <2>1
<1>7. b = c
  BY <1>3, <1>5, <1>6
<1> QED BY <1>3, <1>4, <1>7 DEF a, b, c

LEMMA WholePath ==
    ASSUME NEW idx \in Seq(Nat)
    PROVE  SubSeq(idx, 1, Len(idx)) = idx
OBVIOUS

LEMMA PathParts ==
    ASSUME NEW idx \in Seq(Nat), NEW i \in Nat
    PROVE  LET b == Append(idx, i)
           IN  /\ b \in Seq(Nat) /\ Len(b) = Len(idx) + 1 /\ b[Len(b)] = i
               /\ \A n \in 1..Len(idx) : b[n] = idx[n] /\ SubSeq(b, 1, n) = SubSeq(idx, 1, n)
               /\ Front(b) = idx
<1> DEFINE b == Append(idx, i)
<1>1. /\ b \in Seq(Nat) /\ Len(b) = Len(idx) + 1 /\ b[Len(b)] = i
      /\ Len(idx) \in Nat
      /\ \A n \in 1..Len(idx) : b[n] = idx[n]
  OBVIOUS
<1> HIDE DEF b
<1>2. ASSUME NEW n \in 1..Len(idx)
      PROVE  SubSeq(b, 1, n) = SubSeq(idx, 1, n)
  <2>1. /\ SubSeq(b, 1, n) = [k \in 1..n |-> b[k]]
        /\ SubSeq(idx, 1, n) = [k \in 1..n |-> idx[k]]
    BY <1>1
  <2>2. \A k \in 1..n : k \in 1..Len(idx)
    BY <1>1
  <2> QED BY <1>1, <2>1, <2>2
<1>3. Front(b) = idx
  <2>1. Front(b) = SubSeq(b, 1, Len(idx))
    BY <1>1 DEF Front
  <2>2. CASE Len(idx) = 0
    BY <1>1, <2>1, <2>2
  <2>3. CASE Len(idx) # 0
    BY <1>1, <1>2, <2>1, <2>3, WholePath
  <2> QED BY <2>2, <2>3
<1> QED BY <1>1, <1>2, <1>3 DEF b

\* The item on a path is a type, or a service at the top.
LEMMA KnownItem ==
    ASSUME files \in Files, NEW idx, Known(idx)
    PROVE  \/ IsType(Item(idx))
           \/ Len(idx) = 2 /\ IsService(Item(idx))
<1> DEFINE Is(n) == \/ IsType(Item(SubSeq(idx, 1, n)))
                    \/ n = 2 /\ IsService(Item(SubSeq(idx, 1, n)))
           B == {n \in Nat : n \in 2..Len(idx) => Is(n)}
<1>0. \A n \in Nat : n \in B <=> (n \in 2..Len(idx) => Is(n))
  <2> HIDE DEF Is
  <2> QED OBVIOUS
<1> HIDE DEF B
<1>1. 0 \in B
  BY <1>0
<1>k. idx \in Seq(Nat) /\ Len(idx) \in Nat /\ Len(idx) >= 2
  BY DEF Known
<1>2. ASSUME NEW n \in Nat, n \in B PROVE n + 1 \in B
  <2> SUFFICES ASSUME n + 1 \in 2..Len(idx) PROVE Is(n + 1)
    BY <1>0
  <2> DEFINE a == SubSeq(idx, 1, n)
             b == SubSeq(idx, 1, n + 1)
  <2>1. n \in 1..(Len(idx) - 1)
    BY <1>k
  <2>2. /\ a \in Seq(Nat) /\ Len(a) = n /\ b = Append(a, idx[n + 1]) /\ idx[n + 1] \in Nat
    BY <1>k, <2>1, Steps
  <2>3. CASE n = 1
    <3>1. b \in Seq(Nat) /\ Len(b) = 2 /\ b[1] = idx[1] /\ b[2] = idx[2]
      BY <1>k, <2>3
    <3>2. Item(b) = files[idx[1]].items[idx[2]]
      BY <3>1, ItemTop
    <3>3. Item(b) \in Types \/ IsService(Item(b))
      BY <3>2, FilesAre DEF Known
    <3> QED BY <2>3, <3>3, TypesAre
  <2>4. CASE n # 1
    <3>1. n \in 2..(Len(idx) - 1) /\ n \in 2..Len(idx)
      BY <2>1, <2>4
    <3>2. idx[n + 1] \in DOMAIN Item(a).inner
      BY <3>1 DEF Known
    <3>3. Is(n)
      BY <1>0, <1>2, <3>1
    <3>4. IsType(Item(a))
      <4>1. ASSUME IsService(Item(a)) PROVE FALSE
        BY <3>2, <4>1 DEF IsService
      <4> QED BY <3>3, <4>1
    <3>5. Item(b) = Item(a).inner[idx[n + 1]]
      <4>1. a \in Seq(Nat) /\ Len(a) >= 2 /\ idx[n + 1] \in Nat
        BY <2>2, <3>1
      <4> HIDE DEF a
      <4>2. Item(Append(a, idx[n + 1])) = Item(a).inner[idx[n + 1]]
        BY <4>1, ItemInner
      <4> QED BY <2>2, <4>2
    <3>6. Item(b) \in Types
      BY <3>2, <3>4, <3>5 DEF IsType
    <3> QED BY <3>6, TypesAre
  <2> QED BY <2>3, <2>4
<1>3. Nat \subseteq B
  BY <1>1, <1>2, SetInduction
<1>4. Is(Len(idx))
  <2>1. Len(idx) \in 2..Len(idx) /\ Len(idx) \in B
    BY <1>3, <1>k
  <2> HIDE DEF Is
  <2> QED BY <1>0, <1>k, <2>1
<1> QED BY <1>4, <1>k, WholePath

LEMMA KnownNames ==
    ASSUME files \in Files, NEW idx, Known(idx)
    PROVE  /\ Scope(idx) \in Names /\ NameOf(idx) \in Names
           /\ Item(idx).name \in STRING
<1>1. idx \in Seq(Nat) /\ Len(idx) \in Nat /\ Len(idx) >= 2
  BY DEF Known
<1>2. Item(idx).name \in STRING
  BY KnownItem DEF IsType, IsService
<1>3. ASSUME NEW n \in 2..Len(idx)
      PROVE  Known(SubSeq(idx, 1, n))
  <2> DEFINE a == SubSeq(idx, 1, n)
  <2>1. a \in Seq(Nat) /\ Len(a) = n /\ \A k \in 1..n : a[k] = idx[k]
    BY <1>1
  <2>2. n \in Nat /\ n >= 2 /\ 1 \in 1..n /\ 2 \in 1..n
    BY <1>1
  <2>3. ASSUME NEW k \in 2..(n - 1)
        PROVE  a[k + 1] = idx[k + 1] /\ SubSeq(a, 1, k) = SubSeq(idx, 1, k)
    <3>1. k + 1 \in 1..n /\ k \in 1..n /\ \A j \in 1..k : j \in 1..n
      BY <2>2
    <3>2. SubSeq(a, 1, k) = [j \in 1..k |-> a[j]] /\ SubSeq(idx, 1, k) = [j \in 1..k |-> idx[j]]
      BY <1>1, <2>1, <2>2
    <3> HIDE DEF a
    <3> QED BY <2>1, <3>1, <3>2
  <2> HIDE DEF a
  <2>4. \A k \in 2..(n - 1) : k \in 2..(Len(idx) - 1)
    BY <1>1
  <2>5. Known(a)
    BY <2>1, <2>2, <2>3, <2>4 DEF Known
  <2> QED BY <2>5 DEF a
<1>4. ASSUME NEW k \in 1..(Len(idx) - 2)
      PROVE  Item(SubSeq(idx, 1, k + 1)).name \in STRING
  <2>1. k + 1 \in 2..Len(idx)
    BY <1>1
  <2>2. Known(SubSeq(idx, 1, k + 1))
    BY <1>3, <2>1
  <2> QED BY <2>2, KnownItem DEF IsType, IsService
<1> DEFINE rest == [k \in 1..(Len(idx) - 2) |-> Item(SubSeq(idx, 1, k + 1)).name]
<1>5. rest \in Seq(STRING)
  <2>1. rest \in [1..(Len(idx) - 2) -> STRING]
    BY <1>4
  <2>2. Len(idx) - 2 \in Nat
    BY <1>1
  <2> HIDE DEF rest
  <2> QED BY <2>1, <2>2
<1> HIDE DEF rest
<1>6. files[idx[1]].name \in Seq(STRING)
  BY FilesAre DEF Known, Names
<1>7. Scope(idx) \in Seq(STRING)
  BY <1>5, <1>6 DEF Scope, rest
<1> QED BY <1>2, <1>7 DEF NameOf, Names

\* An inner item hangs below the one around it.
LEMMA KnownInner ==
    ASSUME files \in Files, NEW idx, Known(idx), NEW i \in DOMAIN Item(idx).inner
    PROVE  LET b == Append(idx, i)
           IN  /\ Known(b) /\ Len(b) = Len(idx) + 1 /\ Front(b) = idx
               /\ Scope(b) = NameOf(idx) /\ IsType(Item(b)) /\ IsType(Item(idx))
               /\ Item(b) = Item(idx).inner[i]
<1> DEFINE b == Append(idx, i)
           N == Len(idx)
<1>1. idx \in Seq(Nat) /\ N \in Nat /\ N >= 2
  BY DEF Known
<1>2. IsType(Item(idx))
  <2>1. ASSUME IsService(Item(idx)) PROVE FALSE
    BY <2>1 DEF IsService
  <2> QED BY <2>1, KnownItem
<1>3. i \in Nat
  BY <1>2 DEF IsType
<1>4. /\ b \in Seq(Nat) /\ Len(b) = N + 1 /\ b[N + 1] = i /\ Front(b) = idx
      /\ \A n \in 1..N : b[n] = idx[n] /\ SubSeq(b, 1, n) = SubSeq(idx, 1, n)
  BY <1>1, <1>3, PathParts
<1>5. Item(b) = Item(idx).inner[i]
  BY <1>1, <1>3, ItemInner
<1>6. IsType(Item(b))
  BY <1>2, <1>5, TypesAre DEF IsType
<1> HIDE DEF b
<1>7. Known(b)
  <2>1. b[1] = idx[1] /\ b[2] = idx[2]
    BY <1>1, <1>4
  <2>2. ASSUME NEW n \in 2..(Len(b) - 1)
        PROVE  b[n + 1] \in DOMAIN Item(SubSeq(b, 1, n)).inner
    <3>1. n \in 1..N /\ SubSeq(b, 1, n) = SubSeq(idx, 1, n)
      BY <1>1, <1>4
    <3>2. CASE n = N
      BY <1>1, <1>4, <3>1, <3>2, WholePath
    <3>3. CASE n # N
      <4>1. n \in 2..(N - 1) /\ n + 1 \in 1..N
        BY <1>1, <3>1, <3>3
      <4> QED BY <1>4, <3>1, <4>1 DEF Known
    <3> QED BY <3>2, <3>3
  <2>3. idx[1] \in DOMAIN files /\ idx[2] \in DOMAIN files[idx[1]].items
    BY DEF Known
  <2>4. b \in Seq(Nat) /\ Len(b) >= 2
    BY <1>1, <1>4
  <2> QED BY <2>1, <2>2, <2>3, <2>4 DEF Known
<1>8. Scope(b) = NameOf(idx)
  <2> DEFINE name(k) == Item(SubSeq(idx, 1, k + 1)).name
             pkg == files[idx[1]].name
             r == [k \in 1..(N - 2) |-> name(k)]
             s == [k \in 1..(N - 1) |-> name(k)]
  <2>1. [k \in 1..(Len(b) - 2) |-> Item(SubSeq(b, 1, k + 1)).name] = s
    <3>1. Len(b) - 2 = N - 1 /\ \A k \in 1..(N - 1) : k + 1 \in 1..N
      BY <1>1, <1>4
    <3> QED BY <1>4, <3>1
  <2>2. b[1] = idx[1]
    BY <1>1, <1>4
  <2>3. Scope(b) = pkg \o s
    BY <2>1, <2>2 DEF Scope
  <2>4. name(N - 1) = Item(idx).name
    <3>1. (N - 1) + 1 = N /\ SubSeq(idx, 1, N) = idx
      BY <1>1, WholePath
    <3> QED BY <3>1
  <2>5. NameOf(idx) = Append(pkg \o r, name(N - 1))
    BY <2>4 DEF NameOf, Scope
  <2>6. pkg \in Seq(STRING)
    BY FilesAre DEF Known, Names
  <2>7. \A k \in 1..(N - 1) : name(k) \in STRING
    <3>1. Scope(b) \in Names /\ Item(idx).name \in STRING
      BY <1>7, KnownNames
    <3>2. pkg \o s \in Seq(STRING)
      BY <2>3, <3>1 DEF Names
    <3> HIDE DEF name, pkg, r
    <3>3. ASSUME NEW k \in 1..(N - 1) PROVE name(k) \in STRING
      <4>1. Len(s) = N - 1 /\ s[k] = name(k)
        BY <1>1
      <4>2. Len(pkg) + k \in DOMAIN (pkg \o s) /\ (pkg \o s)[Len(pkg) + k] = s[k]
        <5> HIDE DEF s
        <5> QED BY <1>1, <2>6, <4>1
      <4> QED BY <3>2, <4>1, <4>2
    <3> QED BY <3>3
  <2> HIDE DEF name, pkg
  <2>8. s = Append(r, name(N - 1)) /\ r \in Seq(STRING)
    <3>1. r \in Seq(STRING) /\ s \in Seq(STRING) /\ Len(r) = N - 2 /\ Len(s) = N - 1
      <4>1. N - 2 \in Nat /\ N - 1 \in Nat /\ \A k \in 1..(N - 2) : k \in 1..(N - 1)
        BY <1>1
      <4>2. r \in [1..(N - 2) -> STRING] /\ s \in [1..(N - 1) -> STRING]
        BY <2>7, <4>1
      <4> HIDE DEF r, s
      <4> QED BY <4>1, <4>2
    <3>2. \A k \in 1..(N - 2) : k \in 1..(N - 1) /\ r[k] = name(k) /\ s[k] = name(k)
      BY <1>1
    <3>3. N - 1 \in 1..(N - 1) /\ s[N - 1] = name(N - 1) /\ name(N - 1) \in STRING
      BY <1>1, <2>7
    <3> HIDE DEF r, s
    <3>4. /\ Append(r, name(N - 1)) \in Seq(STRING) /\ Len(Append(r, name(N - 1))) = N - 1
          /\ \A k \in 1..(N - 2) : Append(r, name(N - 1))[k] = r[k]
          /\ Append(r, name(N - 1))[N - 1] = name(N - 1)
      BY <1>1, <3>1, <3>3
    <3>5. \A k \in 1..(N - 1) : s[k] = Append(r, name(N - 1))[k]
      <4>1. \A k \in 1..(N - 1) : k \in 1..(N - 2) \/ k = N - 1
        BY <1>1
      <4> QED BY <3>2, <3>3, <3>4, <4>1
    <3> QED BY <3>1, <3>4, <3>5
  <2>9. name(N - 1) \in STRING
    BY <1>1, <2>7
  <2> HIDE DEF r, s
  <2>10. pkg \o Append(r, name(N - 1)) = Append(pkg \o r, name(N - 1))
    BY <2>6, <2>8, <2>9
  <2> QED BY <2>3, <2>5, <2>8, <2>10
<1> QED BY <1>2, <1>4, <1>5, <1>6, <1>7, <1>8 DEF b

LEMMA KnownOuter ==
    ASSUME files \in Files, NEW idx, Known(idx), Len(idx) > 2
    PROVE  /\ Known(Front(idx)) /\ IsType(Item(Front(idx)))
           /\ idx[Len(idx)] \in DOMAIN Item(Front(idx)).inner
           /\ idx = Append(Front(idx), idx[Len(idx)])
           /\ Len(Front(idx)) = Len(idx) - 1
           /\ Scope(idx) = NameOf(Front(idx))
<1> DEFINE N == Len(idx)
           a == Front(idx)
<1>1. idx \in Seq(Nat) /\ N \in Nat /\ N > 2
  BY DEF Known
<1>2. a = SubSeq(idx, 1, N - 1)
  BY DEF Front
<1>3. N - 1 \in 1..(N - 1)
  BY <1>1
<1>4. a \in Seq(Nat) /\ Len(a) = N - 1 /\ idx = Append(a, idx[N]) /\ idx[N] \in Nat
  <2>1. (N - 1) + 1 = N
    BY <1>1
  <2> QED BY <1>1, <1>2, <1>3, <2>1, Steps, WholePath
<1>5. /\ a[1] = idx[1] /\ a[2] = idx[2]
      /\ \A n \in 2..(N - 2) : a[n + 1] = idx[n + 1] /\ SubSeq(a, 1, n) = SubSeq(idx, 1, n)
  <2>1. \A n \in 1..Len(a) : idx[n] = a[n] /\ SubSeq(idx, 1, n) = SubSeq(a, 1, n)
    <3>1. PICK i \in Nat : idx = Append(a, i)
      BY <1>4
    <3> HIDE DEF a
    <3> QED BY <1>4, <3>1, PathParts
  <2>2. 1 \in 1..Len(a) /\ 2 \in 1..Len(a) /\ \A n \in 2..(N - 2) : n \in 1..Len(a) /\ n + 1 \in 1..Len(a)
    BY <1>1, <1>4
  <2> QED BY <2>1, <2>2
<1> HIDE DEF a
<1>6. Known(a)
  <2>0. a \in Seq(Nat) /\ Len(a) = N - 1
    BY <1>4
  <2>1. \A n \in 2..(Len(a) - 1) : n \in 2..(N - 2) /\ n \in 2..(N - 1)
    <3> HIDE DEF N
    <3> QED BY <1>1, <2>0
  <2>2. Len(a) >= 2
    <3> HIDE DEF N
    <3> QED BY <1>1, <2>0
  <2>3. /\ idx[1] \in DOMAIN files /\ idx[2] \in DOMAIN files[idx[1]].items
        /\ \A n \in 2..(N - 1) : idx[n + 1] \in DOMAIN Item(SubSeq(idx, 1, n)).inner
    BY DEF Known
  <2>4. \A n \in 2..(Len(a) - 1) : a[n + 1] \in DOMAIN Item(SubSeq(a, 1, n)).inner
    <3> HIDE DEF N
    <3> QED BY <1>5, <2>1, <2>3
  <2> QED BY <1>5, <2>0, <2>2, <2>3, <2>4 DEF Known
<1>7. idx[N] \in DOMAIN Item(a).inner
  <2>1. N - 1 \in 2..(N - 1) /\ (N - 1) + 1 = N
    BY <1>1
  <2> QED BY <1>2, <2>1 DEF Known, a
<1>8. Scope(idx) = NameOf(a) /\ IsType(Item(a))
  BY <1>4, <1>6, <1>7, KnownInner
<1> QED BY <1>4, <1>6, <1>7, <1>8 DEF a

LEMMA KnownTop ==
    ASSUME files \in Files, NEW f \in DOMAIN files, NEW i \in DOMAIN files[f].items
    PROVE  /\ Known(<<f, i>>) /\ Len(<<f, i>>) = 2 /\ Scope(<<f, i>>) = files[f].name
           /\ f \in Nat /\ i \in Nat
<1>1. f \in Nat /\ i \in Nat
  BY FilesAre
<1>2. <<f, i>> \in Seq(Nat) /\ Len(<<f, i>>) = 2
  BY <1>1
<1>3. Known(<<f, i>>)
  BY <1>2 DEF Known
<1>4. Scope(<<f, i>>) = files[f].name
  <2>1. files[f].name \in Seq(STRING)
    BY FilesAre DEF Names
  <2>2. [k \in 1..(2 - 2) |-> Item(SubSeq(<<f, i>>, 1, k + 1)).name] = <<>>
    OBVIOUS
  <2>3. <<f, i>>[1] = f /\ Len(<<f, i>>) - 2 = 2 - 2
    BY <1>2
  <2> QED BY <2>1, <2>2, <2>3 DEF Scope
<1> QED BY <1>1, <1>2, <1>3, <1>4

\* Build does not change the declarations.
LEMMA SameFiles ==
    ASSUME files' = files
    PROVE  \A idx : /\ Item(idx)' = Item(idx) /\ Scope(idx)' = Scope(idx)
                    /\ NameOf(idx)' = NameOf(idx) /\ Known(idx)' = Known(idx)
<1>1. ASSUME NEW idx PROVE Item(idx)' = Item(idx)
  BY DEF Item
<1>2. ASSUME NEW idx PROVE Scope(idx)' = Scope(idx)
  BY <1>1 DEF Scope
<1>3. ASSUME NEW idx PROVE Known(idx)' = Known(idx)
  BY <1>1 DEF Known
<1> QED BY <1>1, <1>2, <1>3 DEF NameOf

-----------------------------------------------------------------------------
(* The invariant *)

ItemKinds == TypeKinds \cup {"Service"}
CacheEntry == [kind : ItemKinds, final_idx : Nat]
CacheDatum == [item_type : ItemKinds, idx_path : Seq(Nat), final_idx : Nat, full_name : Names]
CacheType ==
    [items : Maps(Names, CacheEntry), items_by_idx : Maps(Seq(Nat), CacheEntry),
     types : Seq(CacheDatum), services : Seq(CacheDatum)]

BuildTyped ==
    /\ files \in Files
    /\ status \in {"populate", "types", "services", "ready", "DuplicateType",
                   "TypeNotFound", "InvalidTypeKind", "unreachable"}
    /\ agenda \in Seq([idx : Seq(Nat), path : Names])
    /\ cache \in CacheType
    /\ built \in [types : Seq(TypeInfo), services : Seq(ServiceInfo)]

\* A type is cached under its name, and a message under its path; the message
\* around it has been cached before it.
TypeCached(j) ==
    LET d == cache.types[j]
    IN  /\ d.final_idx = j /\ Known(d.idx_path) /\ d.full_name = NameOf(d.idx_path)
        /\ d.item_type = Item(d.idx_path).kind /\ d.item_type \in TypeKinds
        /\ d.full_name \in DOMAIN cache.items
        /\ cache.items[d.full_name] = Entry(d.item_type, j)
        /\ d.item_type = "Message" =>
              /\ d.idx_path \in DOMAIN cache.items_by_idx
              /\ cache.items_by_idx[d.idx_path] = Entry("Message", j)
        /\ Len(d.idx_path) > 2 =>
              /\ Front(d.idx_path) \in DOMAIN cache.items_by_idx
              /\ cache.items_by_idx[Front(d.idx_path)].final_idx < j

ServiceCached(j) ==
    LET d == cache.services[j]
    IN  /\ d.final_idx = j /\ Known(d.idx_path) /\ d.full_name = NameOf(d.idx_path)
        /\ d.item_type = "Service" /\ Item(d.idx_path).kind = "Service"
        /\ d.full_name \in DOMAIN cache.items
        /\ cache.items[d.full_name] = Entry("Service", j)

\* The maps lead to nothing else.
NameCached(n) ==
    LET e == cache.items[n]
    IN  \/ /\ e.kind \in TypeKinds /\ e.final_idx \in DOMAIN cache.types
           /\ cache.types[e.final_idx].full_name = n
        \/ /\ e.kind = "Service" /\ e.final_idx \in DOMAIN cache.services
           /\ cache.services[e.final_idx].full_name = n

PathCached(idx) ==
    LET i == cache.items_by_idx[idx].final_idx
    IN  /\ i \in DOMAIN cache.types /\ cache.types[i].idx_path = idx
        /\ cache.types[i].item_type = "Message"

CacheOK ==
    /\ \A j \in DOMAIN cache.types : TypeCached(j)
    /\ \A j \in DOMAIN cache.services : ServiceCached(j)
    /\ \A n \in DOMAIN cache.items : NameCached(n)
    /\ \A idx \in DOMAIN cache.items_by_idx : PathCached(idx)

\* What is still to visit is known, and the message around it has been visited.
AgendaOK ==
    \A k \in DOMAIN agenda :
        /\ Known(agenda[k].idx) /\ agenda[k].path = Scope(agenda[k].idx)
        /\ Len(agenda[k].idx) > 2 => Front(agenda[k].idx) \in DOMAIN cache.items_by_idx

\* No declaration is passed over.
Met(idx) ==
    \/ \E k \in DOMAIN agenda : agenda[k].idx = idx
    \/ \E j \in DOMAIN cache.types : cache.types[j].idx_path = idx
    \/ \E j \in DOMAIN cache.services : cache.services[j].idx_path = idx

AllMet ==
    /\ \A f \in DOMAIN files : \A i \in DOMAIN files[f].items : Met(<<f, i>>)
    /\ \A j \in DOMAIN cache.types : \A k \in DOMAIN Item(cache.types[j].idx_path).inner :
          Met(Append(cache.types[j].idx_path, k))

Populating == status \in {"populate", "DuplicateType"}

\* How far build has got.  A type is taken out after the message around it.
Progress ==
    /\ Populating => taken = {} /\ built = [types |-> <<>>, services |-> <<>>]
    /\ ~Populating => agenda = <<>>
    /\ Len(built.types) <= Len(cache.types) /\ Len(built.services) <= Len(cache.services)
    /\ status = "types" =>
          /\ taken \subseteq {cache.types[i].idx_path : i \in 1..Len(built.types)}
          /\ built.services = <<>>
    /\ status \in {"services", "ready"} => Len(built.types) = Len(cache.types)
    /\ status = "ready" => Len(built.services) = Len(cache.services)

\* A type that is built is the one the cache promised.
RefOf(name) == [of |-> cache.items[name].kind, ref |-> cache.items[name].final_idx]

ParentOf(idx) ==
    IF Len(idx) = 2 THEN [of |-> "Package", ref |-> idx[1]]
    ELSE [of |-> "Message", ref |-> cache.items_by_idx[Front(idx)].final_idx]

CachedAs(kind, ref) == ref \in DOMAIN cache.types /\ cache.types[ref].item_type = kind

TypeBuilt(t, i) ==
    LET d == cache.types[i]
    IN  /\ t \in TypeInfo /\ Members(t)
        /\ t.kind = d.item_type /\ t.name = <<Item(d.idx_path).name>>
        /\ t.full_name = d.full_name /\ t.self_ref = i /\ t.parent = ParentOf(d.idx_path)
        /\ t.inner_types = [k \in DOMAIN Item(d.idx_path).inner |->
                               RefOf(NameOf(Append(d.idx_path, k)))]
        /\ t.kind = "Message" => \A n \in DOMAIN t.fields :
              LET type == t.fields[n].type
              IN  type.of \in TypeKinds => CachedAs(type.of, type.ref)

ServiceBuilt(s, i) ==
    LET d == cache.services[i]
    IN  /\ s \in ServiceInfo /\ Rpcs(s)
        /\ s.name = <<Item(d.idx_path).name>> /\ s.full_name = d.full_name
        /\ s.self_ref = i /\ s.parent = d.idx_path[1]
        /\ \A k \in DOMAIN s.rpcs : /\ CachedAs("Message", s.rpcs[k].input)
                                    /\ CachedAs("Message", s.rpcs[k].output)

BuiltOK ==
    /\ \A i \in DOMAIN built.types : TypeBuilt(built.types[i], i)
    /\ \A i \in DOMAIN built.services : ServiceBuilt(built.services[i], i)

BuildInv == BuildTyped /\ CacheOK /\ AgendaOK /\ AllMet /\ Progress /\ BuiltOK

-----------------------------------------------------------------------------
(* The invariant holds at first *)

Task == [idx : Seq(Nat), path : Names]

LEMMA TopTasks ==
    ASSUME files \in Files
    PROVE  /\ TopLevel(files) \in Seq(Task)
           /\ \A v : Has(TopLevel(files), v) <=>
                \E f \in DOMAIN files : \E i \in DOMAIN files[f].items :
                    v = [idx |-> <<f, i>>, path |-> files[f].name]
<1> DEFINE row(f) == [i \in DOMAIN files[f].items |-> [idx |-> <<f, i>>, path |-> files[f].name]]
           rows == [f \in DOMAIN files |-> row(f)]
<1>1. files \in Seq(FileDecl) /\ DOMAIN files = 1..Len(files) /\ Len(files) \in Nat
  BY FilesAre
<1>2. ASSUME NEW f \in DOMAIN files PROVE row(f) \in Seq(Task)
  <2>1. files[f].items \in Seq(Types \cup ServiceDecl) /\ files[f].name \in Names /\ f \in Nat
    BY <1>1, FilesAre
  <2>2. DOMAIN files[f].items = 1..Len(files[f].items) /\ Len(files[f].items) \in Nat
    BY <2>1
  <2>3. \A i \in 1..Len(files[f].items) : [idx |-> <<f, i>>, path |-> files[f].name] \in Task
    BY <2>1, <2>2 DEF Task
  <2> QED BY <2>2, <2>3
<1>3. rows \in Seq(Seq(Task))
  <2> HIDE DEF row
  <2> QED BY <1>1, <1>2
<1>4. TopLevel(files) = FlattenSeq(rows)
  BY DEF TopLevel
<1>5. /\ FlattenSeq(rows) \in Seq(Task)
      /\ \A v : Has(FlattenSeq(rows), v) <=> \E f \in DOMAIN rows : Has(rows[f], v)
  <2> HIDE DEF rows
  <2> QED BY <1>3, FlattenContents
<1>6. ASSUME NEW f \in DOMAIN files, NEW v
      PROVE  Has(row(f), v) <=> \E i \in DOMAIN files[f].items :
                                    v = [idx |-> <<f, i>>, path |-> files[f].name]
  BY DEF Has
<1> HIDE DEF row
<1> QED BY <1>4, <1>5, <1>6

LEMMA BuildInvInit == BuildInit => BuildInv
<1> SUFFICES ASSUME BuildInit PROVE BuildInv
  OBVIOUS
<1>1. /\ files \in Files /\ status = "populate" /\ agenda = TopLevel(files) /\ taken = {}
      /\ cache = [items |-> <<>>, items_by_idx |-> <<>>, types |-> <<>>, services |-> <<>>]
      /\ built = [types |-> <<>>, services |-> <<>>]
  BY DEF BuildInit
<1>2. /\ cache.items = <<>> /\ cache.items_by_idx = <<>> /\ cache.types = <<>>
      /\ cache.services = <<>> /\ built.types = <<>> /\ built.services = <<>>
  BY <1>1
<1>3. /\ DOMAIN cache.items = {} /\ DOMAIN cache.items_by_idx = {} /\ DOMAIN cache.types = {}
      /\ DOMAIN cache.services = {} /\ DOMAIN built.types = {} /\ DOMAIN built.services = {}
  BY <1>2
<1>4. BuildTyped
  <2>1. \A K, V : <<>> \in Maps(K, V)
    BY EmptyMap
  <2>2. cache \in CacheType
    BY <1>1, <2>1 DEF CacheType
  <2>3. built \in [types : Seq(TypeInfo), services : Seq(ServiceInfo)]
    BY <1>1
  <2>4. agenda \in Seq([idx : Seq(Nat), path : Names])
    BY <1>1, TopTasks DEF Task
  <2> QED BY <1>1, <2>2, <2>3, <2>4 DEF BuildTyped
<1>5. CacheOK /\ BuiltOK
  BY <1>3 DEF CacheOK, BuiltOK
<1>6. AgendaOK
  <2> SUFFICES ASSUME NEW k \in DOMAIN agenda
               PROVE  /\ Known(agenda[k].idx) /\ agenda[k].path = Scope(agenda[k].idx)
                      /\ ~(Len(agenda[k].idx) > 2)
    BY DEF AgendaOK
  <2>1. Has(agenda, agenda[k])
    BY DEF Has
  <2>2. PICK f \in DOMAIN files : \E i \in DOMAIN files[f].items :
            agenda[k] = [idx |-> <<f, i>>, path |-> files[f].name]
    BY <1>1, <2>1, TopTasks
  <2>3. PICK i \in DOMAIN files[f].items : agenda[k] = [idx |-> <<f, i>>, path |-> files[f].name]
    BY <2>2
  <2>4. Known(<<f, i>>) /\ ~(Len(<<f, i>>) > 2) /\ Scope(<<f, i>>) = files[f].name
    BY <1>1, KnownTop
  <2>5. agenda[k].idx = <<f, i>> /\ agenda[k].path = files[f].name
    BY <2>3
  <2> QED BY <2>4, <2>5
<1>7. AllMet
  <2>1. ASSUME NEW f \in DOMAIN files, NEW i \in DOMAIN files[f].items
        PROVE  Met(<<f, i>>)
    <3>1. Has(agenda, [idx |-> <<f, i>>, path |-> files[f].name])
      BY <1>1, TopTasks
    <3>2. PICK k \in DOMAIN agenda : agenda[k] = [idx |-> <<f, i>>, path |-> files[f].name]
      BY <3>1 DEF Has
    <3> QED BY <3>2 DEF Met
  <2> QED BY <1>3, <2>1 DEF AllMet
<1>8. Progress
  BY <1>1, <1>2 DEF Progress, Populating
<1> QED BY <1>4, <1>5, <1>6, <1>7, <1>8 DEF BuildInv

-----------------------------------------------------------------------------
(* populate keeps it *)

\* What a visit finds.
LEMMA VisitKnown ==
    ASSUME BuildInv, agenda # <<>>
    PROVE  /\ files \in Files /\ agenda \in Seq(Task) /\ Visit \in Task
           /\ Known(Visit.idx) /\ Visit.path = Scope(Visit.idx)
           /\ FullPath = NameOf(Visit.idx) /\ FullPath \in Names
           /\ Len(Visit.idx) > 2 => Front(Visit.idx) \in DOMAIN cache.items_by_idx
           /\ Tail(agenda) \in Seq(Task)
           /\ \A v : Has(agenda, v) <=> v = Visit \/ Has(Tail(agenda), v)
<1>1. agenda \in Seq(Task) /\ files \in Files
  BY DEF BuildInv, BuildTyped, Task
<1>2. /\ Visit \in Task /\ Tail(agenda) \in Seq(Task)
      /\ \A v : Has(agenda, v) <=> v = Visit \/ Has(Tail(agenda), v)
  BY <1>1, TailHas DEF Visit
<1>3. PICK k \in DOMAIN agenda : agenda[k] = Visit
  BY <1>2 DEF Has
<1>4. /\ Known(Visit.idx) /\ Visit.path = Scope(Visit.idx)
      /\ Len(Visit.idx) > 2 => Front(Visit.idx) \in DOMAIN cache.items_by_idx
  BY <1>3 DEF BuildInv, AgendaOK
<1>5. FullPath = NameOf(Visit.idx) /\ FullPath \in Names
  BY <1>1, <1>4, KnownNames DEF FullPath, NameOf
<1> QED BY <1>1, <1>2, <1>4, <1>5

\* A path that is entered leads to a name that is taken.
LEMMA NewPath ==
    ASSUME BuildInv, agenda # <<>>, FullPath \notin DOMAIN cache.items
    PROVE  Visit.idx \notin DOMAIN cache.items_by_idx
<1> SUFFICES ASSUME Visit.idx \in DOMAIN cache.items_by_idx PROVE FALSE
  OBVIOUS
<1>1. PICK j \in DOMAIN cache.types : cache.types[j].idx_path = Visit.idx
  BY DEF BuildInv, CacheOK, PathCached
<1>2. NameOf(Visit.idx) \in DOMAIN cache.items
  BY <1>1 DEF BuildInv, CacheOK, TypeCached
<1> QED BY <1>2, VisitKnown

\* The agenda after a visit: what was left, and the inner types.
LEMMA AgendaAfter ==
    ASSUME BuildInv, agenda # <<>>, files' = files,
           agenda' = InnerOf(Visit.idx, FullPath) \o Tail(agenda),
           DOMAIN cache.items_by_idx \subseteq DOMAIN cache'.items_by_idx,
           DOMAIN Item(Visit.idx).inner # {} => Visit.idx \in DOMAIN cache'.items_by_idx
    PROVE  /\ agenda' \in Seq(Task) /\ AgendaOK'
           /\ \A v : Has(agenda', v) <=>
                \/ Has(Tail(agenda), v)
                \/ \E k \in DOMAIN Item(Visit.idx).inner :
                        v = [idx |-> Append(Visit.idx, k), path |-> FullPath]
<1> DEFINE new == InnerOf(Visit.idx, FullPath)
           p == Visit.idx
<1>1. /\ files \in Files /\ Known(p) /\ FullPath = NameOf(p) /\ FullPath \in Names
      /\ Tail(agenda) \in Seq(Task) /\ p \in Seq(Nat)
      /\ \A v : Has(agenda, v) <=> v = Visit \/ Has(Tail(agenda), v)
  BY VisitKnown DEF Known
<1>2. Item(p).inner \in Seq(Types)
  <2>1. <<>> \in Seq(Types)
    OBVIOUS
  <2> QED BY <1>1, <2>1, KnownItem DEF IsType, IsService
<1>3. DOMAIN Item(p).inner = 1..Len(Item(p).inner) /\ Len(Item(p).inner) \in Nat
  BY <1>2
<1>4. new \in Seq(Task)
  <2>1. \A k \in DOMAIN Item(p).inner : [idx |-> Append(p, k), path |-> FullPath] \in Task
    <3>1. \A k \in DOMAIN Item(p).inner : k \in Nat
      BY <1>3
    <3> HIDE DEF p
    <3>2. \A k \in DOMAIN Item(p).inner : Append(p, k) \in Seq(Nat)
      BY <1>1, <3>1
    <3> QED BY <1>1, <3>2 DEF Task
  <2>2. new = [k \in 1..Len(Item(p).inner) |-> [idx |-> Append(p, k), path |-> FullPath]]
    BY <1>3 DEF InnerOf
  <2> DEFINE N == Len(Item(p).inner)
  <2>3. new \in [1..N -> Task] /\ N \in Nat
    BY <1>3, <2>1, <2>2
  <2> HIDE DEF new, N
  <2> QED BY <2>3
<1>5. \A v : Has(new, v) <=> \E k \in DOMAIN Item(p).inner :
                                 v = [idx |-> Append(p, k), path |-> FullPath]
  BY DEF Has, InnerOf
<1> HIDE DEF new
<1>6. /\ agenda' \in Seq(Task)
      /\ \A v : Has(agenda', v) <=> Has(new, v) \/ Has(Tail(agenda), v)
  <2> DEFINE rest == Tail(agenda)
  <2>1. agenda' = new \o rest
    BY DEF new
  <2>2. rest \in Seq(Task)
    BY <1>1
  <2> HIDE DEF rest
  <2>3. new \o rest \in Seq(Task) /\ \A v : Has(new \o rest, v) <=> Has(new, v) \/ Has(rest, v)
    BY <1>4, <2>2, ConcatHas
  <2> QED BY <2>1, <2>3 DEF rest
<1>7. AgendaOK'
  <2> SUFFICES ASSUME NEW v, Has(agenda', v)
               PROVE  /\ Known(v.idx) /\ v.path = Scope(v.idx)
                      /\ Len(v.idx) > 2 => Front(v.idx) \in DOMAIN cache'.items_by_idx
    <3>1. \A k \in DOMAIN agenda' : Has(agenda', agenda'[k])
      BY DEF Has
    <3> QED BY <3>1, SameFiles DEF AgendaOK
  <2>1. CASE Has(Tail(agenda), v)
    <3>1. PICK k \in DOMAIN agenda : agenda[k] = v
      BY <1>1, <2>1 DEF Has
    <3> QED BY <3>1 DEF BuildInv, AgendaOK
  <2>2. CASE Has(new, v)
    <3>1. PICK k \in DOMAIN Item(p).inner : v = [idx |-> Append(p, k), path |-> FullPath]
      BY <1>5, <2>2
    <3>2. /\ Known(Append(p, k)) /\ Front(Append(p, k)) = p /\ Scope(Append(p, k)) = NameOf(p)
      BY <1>1, KnownInner
    <3>3. p \in DOMAIN cache'.items_by_idx
      BY <3>1
    <3>4. v.idx = Append(p, k) /\ v.path = FullPath
      BY <3>1
    <3> HIDE DEF p
    <3> QED BY <1>1, <3>2, <3>3, <3>4
  <2> QED BY <1>6, <2>1, <2>2
<1> QED BY <1>5, <1>6, <1>7

\* What is met stays met, and what is new has been put on the agenda.
LEMMA MetAfter ==
    ASSUME BuildInv, agenda # <<>>, files' = files,
           \A v : Has(agenda', v) <=>
                \/ Has(Tail(agenda), v)
                \/ \E k \in DOMAIN Item(Visit.idx).inner :
                        v = [idx |-> Append(Visit.idx, k), path |-> FullPath],
           DOMAIN cache.types \subseteq DOMAIN cache'.types,
           \A j \in DOMAIN cache.types : cache'.types[j] = cache.types[j],
           DOMAIN cache.services \subseteq DOMAIN cache'.services,
           \A j \in DOMAIN cache.services : cache'.services[j] = cache.services[j],
           \A j \in DOMAIN cache'.types \ DOMAIN cache.types :
                cache'.types[j].idx_path = Visit.idx,
           \/ \E j \in DOMAIN cache'.types : cache'.types[j].idx_path = Visit.idx
           \/ \E j \in DOMAIN cache'.services : cache'.services[j].idx_path = Visit.idx
    PROVE  AllMet'
<1>1. ASSUME NEW idx, Met(idx) PROVE Met(idx)'
  <2>1. CASE \E k \in DOMAIN agenda : agenda[k].idx = idx
    <3>1. PICK v : Has(agenda, v) /\ v.idx = idx
      BY <2>1 DEF Has
    <3>2. CASE v = Visit
      BY <3>1, <3>2 DEF Met
    <3>3. CASE Has(Tail(agenda), v)
      <4>1. Has(agenda', v)
        BY <3>3
      <4> QED BY <3>1, <4>1 DEF Has, Met
    <3> QED BY <3>1, <3>2, <3>3, VisitKnown
  <2>2. CASE \E j \in DOMAIN cache.types : cache.types[j].idx_path = idx
    BY <2>2 DEF Met
  <2>3. CASE \E j \in DOMAIN cache.services : cache.services[j].idx_path = idx
    BY <2>3 DEF Met
  <2> QED BY <1>1, <2>1, <2>2, <2>3 DEF Met
<1>2. ASSUME NEW idx, NEW k \in DOMAIN Item(Visit.idx).inner, idx = Append(Visit.idx, k)
      PROVE  Met(idx)'
  <2>1. PICK v : v = [idx |-> Append(Visit.idx, k), path |-> FullPath]
    OBVIOUS
  <2>2. Has(agenda', v) /\ v.idx = idx
    BY <1>2, <2>1
  <2> QED BY <2>2 DEF Has, Met
<1>3. ASSUME NEW f \in DOMAIN files, NEW i \in DOMAIN files[f].items
      PROVE  Met(<<f, i>>)'
  BY <1>1 DEF BuildInv, AllMet
<1>4. ASSUME NEW j \in DOMAIN cache'.types,
             NEW k \in DOMAIN Item(cache'.types[j].idx_path).inner,
             NEW idx, idx = Append(cache'.types[j].idx_path, k)
      PROVE  Met(idx)'
  <2>1. CASE j \in DOMAIN cache.types
    <3>1. cache'.types[j] = cache.types[j]
      BY <2>1
    <3>2. Met(idx)
      BY <1>4, <2>1, <3>1 DEF BuildInv, AllMet
    <3> QED BY <1>1, <3>2
  <2>2. CASE j \notin DOMAIN cache.types
    <3>1. cache'.types[j].idx_path = Visit.idx
      BY <2>2
    <3> QED BY <1>2, <1>4, <3>1
  <2> QED BY <2>1, <2>2
<1>5. ASSUME NEW idx PROVE Item(idx)' = Item(idx)
  BY SameFiles
<1>6. (\A f \in DOMAIN files : \A i \in DOMAIN files[f].items : Met(<<f, i>>))'
  BY <1>3
<1>7. (\A j \in DOMAIN cache.types : \A k \in DOMAIN Item(cache.types[j].idx_path).inner :
          Met(Append(cache.types[j].idx_path, k)))'
  BY <1>4, <1>5
<1> QED BY <1>6, <1>7 DEF AllMet

\* A map with one entry more.
Grown(f, k, v, g) ==
    /\ DOMAIN g = DOMAIN f \cup {k} /\ g[k] = v
    /\ \A x \in DOMAIN f : x # k /\ g[x] = f[x]

LEMMA BindNew ==
    ASSUME NEW K, NEW V, NEW f \in Maps(K, V), NEW k \in K, NEW v \in V, k \notin DOMAIN f
    PROVE  Bind(f, k, v) \in Maps(K, V) /\ Grown(f, k, v, Bind(f, k, v))
<1>1. /\ Bind(f, k, v) \in Maps(K, V)
      /\ DOMAIN Bind(f, k, v) = DOMAIN f \cup {k}
      /\ Bind(f, k, v)[k] = v
      /\ \A x \in DOMAIN f : x # k => Bind(f, k, v)[x] = f[x]
  BY BindMap
<1> QED BY <1>1 DEF Grown

\* What the two kinds of types have in common in populate.
EnterType(kind, i) ==
    /\ status = "populate" /\ agenda # <<>> /\ Item(Visit.idx).kind = kind
    /\ UNCHANGED <<files, status, taken, built>>
    /\ agenda' = InnerOf(Visit.idx, FullPath) \o Tail(agenda)
    /\ i = Len(cache.types) + 1
    /\ cache' = [cache EXCEPT
        !.items = Bind(cache.items, FullPath, Entry(kind, i)),
        !.items_by_idx = IF kind = "Message"
                         THEN Bind(cache.items_by_idx, Visit.idx, Entry("Message", i))
                         ELSE cache.items_by_idx,
        !.types = Append(cache.types, CacheData(kind, i))]

\* A type is entered, with its inner types put on the agenda.
LEMMA TypeEntered ==
    ASSUME BuildInv, NEW kind \in TypeKinds, NEW i, EnterType(kind, i),
           FullPath \notin DOMAIN cache.items
    PROVE  BuildInv'
<1> DEFINE p == Visit.idx
           d == CacheData(kind, i)
           e == Entry(kind, i)
<1>0. /\ files' = files /\ status' = status /\ taken' = taken /\ built' = built
      /\ \A idx : /\ Item(idx)' = Item(idx) /\ Scope(idx)' = Scope(idx)
                  /\ NameOf(idx)' = NameOf(idx) /\ Known(idx)' = Known(idx)
  BY SameFiles DEF EnterType
<1>1. /\ files \in Files /\ Known(p) /\ FullPath = NameOf(p) /\ FullPath \in Names
      /\ Len(p) > 2 => Front(p) \in DOMAIN cache.items_by_idx
      /\ p \in Seq(Nat) /\ p \notin DOMAIN cache.items_by_idx
  BY VisitKnown, NewPath DEF Known, EnterType
<1>2. /\ cache.items \in Maps(Names, CacheEntry)
      /\ cache.items_by_idx \in Maps(Seq(Nat), CacheEntry)
      /\ cache.types \in Seq(CacheDatum) /\ cache.services \in Seq(CacheDatum)
  BY DEF BuildInv, BuildTyped, CacheType
<1>3. i \in Nat /\ e \in CacheEntry /\ d \in CacheDatum /\ (kind = "Message" => Entry("Message", i) = e)
  <2>1. i \in Nat /\ kind \in ItemKinds
    BY <1>2 DEF ItemKinds, EnterType
  <2> QED BY <1>1, <2>1 DEF Entry, CacheData, CacheEntry, CacheDatum
<1>4. /\ d.item_type = kind /\ d.idx_path = p /\ d.final_idx = i /\ d.full_name = FullPath
      /\ e.kind = kind /\ e.final_idx = i
  BY DEF CacheData, Entry
<1> HIDE DEF d, e, p
<1>5. /\ cache'.items = Bind(cache.items, FullPath, e)
      /\ cache'.items_by_idx = IF kind = "Message" THEN Bind(cache.items_by_idx, p, e)
                               ELSE cache.items_by_idx
      /\ cache'.types = Append(cache.types, d)
      /\ cache'.services = cache.services
  BY <1>3 DEF BuildInv, BuildTyped, CacheType, EnterType, d, e, p
<1>6. /\ cache'.items \in Maps(Names, CacheEntry)
      /\ DOMAIN cache'.items = DOMAIN cache.items \cup {FullPath}
      /\ cache'.items[FullPath] = e
      /\ \A n \in DOMAIN cache.items : n # FullPath /\ cache'.items[n] = cache.items[n]
  <2>1. cache.items \in Maps(Names, CacheEntry) /\ FullPath \in Names /\ e \in CacheEntry
    BY <1>1, <1>2, <1>3 DEF e
  <2>2. /\ Bind(cache.items, FullPath, e) \in Maps(Names, CacheEntry)
        /\ Grown(cache.items, FullPath, e, Bind(cache.items, FullPath, e))
    BY <2>1, BindNew, Zenon
  <2> QED BY <1>5, <2>2 DEF Grown
<1>7. /\ cache'.items_by_idx \in Maps(Seq(Nat), CacheEntry)
      /\ DOMAIN cache'.items_by_idx =
            IF kind = "Message" THEN DOMAIN cache.items_by_idx \cup {p} ELSE DOMAIN cache.items_by_idx
      /\ kind = "Message" => cache'.items_by_idx[p] = e
      /\ \A idx \in DOMAIN cache.items_by_idx :
            idx # p /\ cache'.items_by_idx[idx] = cache.items_by_idx[idx]
  <2>1. cache.items_by_idx \in Maps(Seq(Nat), CacheEntry) /\ p \in Seq(Nat) /\ e \in CacheEntry
    BY <1>1, <1>2, <1>3 DEF e
  <2>2. CASE kind = "Message"
    <3>1. /\ Bind(cache.items_by_idx, p, e) \in Maps(Seq(Nat), CacheEntry)
          /\ Grown(cache.items_by_idx, p, e, Bind(cache.items_by_idx, p, e))
      BY <1>1, <2>1, BindNew, Zenon
    <3> QED BY <1>5, <2>2, <3>1 DEF Grown
  <2>3. CASE kind # "Message"
    BY <1>1, <1>2, <1>5, <2>3
  <2> QED BY <2>2, <2>3
<1>8. /\ cache'.types \in Seq(CacheDatum) /\ DOMAIN cache.types = 1..(i - 1)
      /\ DOMAIN cache'.types = DOMAIN cache.types \cup {i} /\ i \notin DOMAIN cache.types
      /\ cache'.types[i] = d
      /\ \A j \in DOMAIN cache.types : cache'.types[j] = cache.types[j]
      /\ Len(cache'.types) = i /\ Len(cache.types) \in Nat
  <2>0. i = Len(cache.types) + 1
    BY DEF EnterType
  <2>1. DOMAIN cache.types = 1..(i - 1)
    BY <1>2, <2>0
  <2> QED BY <1>2, <1>3, <1>5, <2>0, <2>1, AppendHas
<1>9. cache' \in CacheType
  <2>1. cache' = [items |-> cache'.items, items_by_idx |-> cache'.items_by_idx,
                  types |-> cache'.types, services |-> cache'.services]
    <3>1. cache \in CacheType
      BY DEF BuildInv, BuildTyped
    <3> QED BY <3>1 DEF CacheType, EnterType
  <2>2. cache'.services \in Seq(CacheDatum)
    BY <1>2, <1>5
  <2> QED BY <1>6, <1>7, <1>8, <2>1, <2>2 DEF CacheType
<1>10. ASSUME NEW j \in DOMAIN cache'.types PROVE TypeCached(j)'
  <2>1. CASE j \in DOMAIN cache.types
    <3>1. TypeCached(j)
      BY <2>1 DEF BuildInv, CacheOK
    <3>2. cache'.types[j] = cache.types[j]
      BY <1>8, <2>1
    <3> QED BY <1>0, <1>6, <1>7, <3>1, <3>2 DEF TypeCached
  <2>2. CASE j = i
    <3>1. Len(p) > 2 =>
            /\ Front(p) \in DOMAIN cache'.items_by_idx
            /\ cache'.items_by_idx[Front(p)].final_idx < i
      <4> SUFFICES ASSUME Len(p) > 2
                   PROVE  /\ Front(p) \in DOMAIN cache'.items_by_idx
                          /\ cache'.items_by_idx[Front(p)].final_idx < i
        OBVIOUS
      <4>1. Front(p) \in DOMAIN cache.items_by_idx
        BY <1>1
      <4>2. cache.items_by_idx[Front(p)].final_idx \in 1..(i - 1)
        BY <1>8, <4>1 DEF BuildInv, CacheOK, PathCached
      <4>3. \A x \in 1..(i - 1) : x < i
        BY <1>3
      <4> QED BY <1>7, <4>1, <4>2, <4>3
    <3>2. kind = "Message" => e = Entry("Message", i)
      BY DEF e
    <3>3. e = Entry(kind, i)
      BY DEF e
    <3>4. Item(p).kind = kind
      BY DEF p, EnterType
    <3> QED BY <1>0, <1>1, <1>4, <1>6, <1>7, <1>8, <2>2, <3>1, <3>2, <3>3, <3>4 DEF TypeCached
  <2> QED BY <1>8, <2>1, <2>2
<1>11. ASSUME NEW j \in DOMAIN cache'.services PROVE ServiceCached(j)'
  <2>1. ServiceCached(j) /\ cache'.services[j] = cache.services[j]
    BY <1>5 DEF BuildInv, CacheOK
  <2> QED BY <1>0, <1>6, <2>1 DEF ServiceCached
<1>12. ASSUME NEW n \in DOMAIN cache'.items PROVE NameCached(n)'
  <2>1. CASE n = FullPath
    BY <1>4, <1>6, <1>8, <2>1 DEF NameCached
  <2>2. CASE n \in DOMAIN cache.items
    <3>1. NameCached(n) /\ cache'.items[n] = cache.items[n]
      BY <1>6, <2>2 DEF BuildInv, CacheOK
    <3> QED BY <1>5, <1>8, <3>1 DEF NameCached
  <2> QED BY <1>6, <2>1, <2>2
<1>13. ASSUME NEW idx \in DOMAIN cache'.items_by_idx PROVE PathCached(idx)'
  <2>1. CASE idx \in DOMAIN cache.items_by_idx
    <3>1. PathCached(idx) /\ cache'.items_by_idx[idx] = cache.items_by_idx[idx]
      BY <1>7, <2>1 DEF BuildInv, CacheOK
    <3> QED BY <1>8, <3>1 DEF PathCached
  <2>2. CASE idx = p /\ kind = "Message"
    BY <1>4, <1>7, <1>8, <2>2 DEF PathCached
  <2> QED BY <1>7, <2>1, <2>2
<1>14. CacheOK'
  BY <1>10, <1>11, <1>12, <1>13 DEF CacheOK
<1>15. DOMAIN Item(p).inner # {} => p \in DOMAIN cache'.items_by_idx
  <2>1. kind = "Enum" => Item(p).inner = <<>>
    <3>1. Item(p).kind = kind
      BY DEF p, EnterType
    <3> QED BY <1>1, <3>1, KnownItem DEF IsType, IsService
  <2> QED BY <1>7, <2>1 DEF TypeKinds
<1>16. /\ agenda' \in Seq(Task) /\ AgendaOK'
       /\ \A v : Has(agenda', v) <=>
            \/ Has(Tail(agenda), v)
            \/ \E k \in DOMAIN Item(Visit.idx).inner :
                    v = [idx |-> Append(Visit.idx, k), path |-> FullPath]
  BY <1>0, <1>7, <1>15, AgendaAfter DEF p, EnterType
<1>17. AllMet'
  <2>1. \E j \in DOMAIN cache'.types : cache'.types[j].idx_path = Visit.idx
    BY <1>4, <1>8 DEF p
  <2>2. \A j \in DOMAIN cache'.types \ DOMAIN cache.types : cache'.types[j].idx_path = Visit.idx
    BY <1>4, <1>8 DEF p
  <2> QED BY <1>0, <1>5, <1>8, <1>16, <2>1, <2>2, MetAfter DEF EnterType
<1>18. Populating /\ Progress /\ built = [types |-> <<>>, services |-> <<>>] /\ taken = {}
  BY DEF BuildInv, Progress, Populating, EnterType
<1>19. Progress'
  <2>1. Len(built'.types) = 0 /\ Len(built'.services) = 0
    BY <1>0, <1>18
  <2>2. Len(cache'.types) \in Nat /\ Len(cache'.services) \in Nat
    BY <1>2, <1>3, <1>5, <1>8
  <2> QED BY <1>0, <1>18, <2>1, <2>2 DEF Progress, Populating
<1>20. BuiltOK'
  BY <1>0, <1>18 DEF BuiltOK
<1>21. BuildTyped'
  BY <1>0, <1>9, <1>16 DEF BuildInv, BuildTyped, Task
<1> QED BY <1>14, <1>16, <1>17, <1>19, <1>20, <1>21 DEF BuildInv

\* A service is entered; it has no inner types.
EnterService(i) ==
    /\ status = "populate" /\ agenda # <<>> /\ Item(Visit.idx).kind = "Service"
    /\ UNCHANGED <<files, status, taken, built>>
    /\ agenda' = InnerOf(Visit.idx, FullPath) \o Tail(agenda)
    /\ i = Len(cache.services) + 1
    /\ cache' = [cache EXCEPT !.items = Bind(cache.items, FullPath, Entry("Service", i)),
                              !.services = Append(cache.services, CacheData("Service", i))]

LEMMA ServiceEntered ==
    ASSUME BuildInv, NEW i, EnterService(i), FullPath \notin DOMAIN cache.items
    PROVE  BuildInv'
<1> DEFINE p == Visit.idx
           d == CacheData("Service", i)
           e == Entry("Service", i)
<1>0. /\ files' = files /\ status' = status /\ taken' = taken /\ built' = built
      /\ \A idx : /\ Item(idx)' = Item(idx) /\ Scope(idx)' = Scope(idx)
                  /\ NameOf(idx)' = NameOf(idx) /\ Known(idx)' = Known(idx)
  BY SameFiles DEF EnterService
<1>1. /\ files \in Files /\ Known(p) /\ FullPath = NameOf(p) /\ FullPath \in Names
      /\ p \in Seq(Nat)
  BY VisitKnown DEF Known, EnterService
<1>2. /\ cache.items \in Maps(Names, CacheEntry)
      /\ cache.types \in Seq(CacheDatum) /\ cache.services \in Seq(CacheDatum)
  BY DEF BuildInv, BuildTyped, CacheType
<1>3. i \in Nat /\ e \in CacheEntry /\ d \in CacheDatum
  <2>1. i \in Nat /\ "Service" \in ItemKinds
    BY <1>2 DEF ItemKinds, EnterService
  <2> QED BY <1>1, <2>1 DEF Entry, CacheData, CacheEntry, CacheDatum
<1>4. /\ d.item_type = "Service" /\ d.idx_path = p /\ d.final_idx = i /\ d.full_name = FullPath
      /\ e.kind = "Service" /\ e.final_idx = i
  BY DEF CacheData, Entry
<1> HIDE DEF d, e, p
<1>5. /\ cache'.items = Bind(cache.items, FullPath, e)
      /\ cache'.items_by_idx = cache.items_by_idx
      /\ cache'.services = Append(cache.services, d)
      /\ cache'.types = cache.types
  BY <1>3 DEF BuildInv, BuildTyped, CacheType, EnterService, d, e, p
<1>6. /\ cache'.items \in Maps(Names, CacheEntry)
      /\ DOMAIN cache'.items = DOMAIN cache.items \cup {FullPath}
      /\ cache'.items[FullPath] = e
      /\ \A n \in DOMAIN cache.items : n # FullPath /\ cache'.items[n] = cache.items[n]
  <2>1. cache.items \in Maps(Names, CacheEntry) /\ FullPath \in Names /\ e \in CacheEntry
    BY <1>1, <1>2, <1>3 DEF e
  <2>2. /\ Bind(cache.items, FullPath, e) \in Maps(Names, CacheEntry)
        /\ Grown(cache.items, FullPath, e, Bind(cache.items, FullPath, e))
    BY <2>1, BindNew, Zenon
  <2> QED BY <1>5, <2>2 DEF Grown
<1>8. /\ cache'.services \in Seq(CacheDatum)
      /\ DOMAIN cache'.services = DOMAIN cache.services \cup {i}
      /\ cache'.services[i] = d
      /\ \A j \in DOMAIN cache.services : cache'.services[j] = cache.services[j]
      /\ Len(cache'.services) = i /\ Len(cache.services) \in Nat
  <2>0. i = Len(cache.services) + 1
    BY DEF EnterService
  <2> QED BY <1>2, <1>3, <1>5, <2>0, AppendHas
<1>9. cache' \in CacheType
  <2>1. cache' = [items |-> cache'.items, items_by_idx |-> cache'.items_by_idx,
                  types |-> cache'.types, services |-> cache'.services]
    <3>1. cache \in CacheType
      BY DEF BuildInv, BuildTyped
    <3> QED BY <3>1 DEF CacheType, EnterService
  <2>2. cache'.types \in Seq(CacheDatum) /\ cache'.items_by_idx \in Maps(Seq(Nat), CacheEntry)
    BY <1>2, <1>5 DEF BuildInv, BuildTyped, CacheType
  <2> QED BY <1>6, <1>8, <2>1, <2>2 DEF CacheType
<1>10. ASSUME NEW j \in DOMAIN cache'.types PROVE TypeCached(j)'
  <2>1. TypeCached(j) /\ cache'.types[j] = cache.types[j]
    BY <1>5 DEF BuildInv, CacheOK
  <2> QED BY <1>0, <1>5, <1>6, <2>1 DEF TypeCached
<1>11. ASSUME NEW j \in DOMAIN cache'.services PROVE ServiceCached(j)'
  <2>1. CASE j \in DOMAIN cache.services
    <3>1. ServiceCached(j) /\ cache'.services[j] = cache.services[j]
      BY <1>8, <2>1 DEF BuildInv, CacheOK
    <3> QED BY <1>0, <1>6, <3>1 DEF ServiceCached
  <2>2. CASE j = i
    <3>1. Item(p).kind = "Service"
      BY DEF p, EnterService
    <3>2. e = Entry("Service", i)
      BY DEF e
    <3> QED BY <1>0, <1>1, <1>4, <1>6, <1>8, <2>2, <3>1, <3>2 DEF ServiceCached
  <2> QED BY <1>8, <2>1, <2>2
<1>12. ASSUME NEW n \in DOMAIN cache'.items PROVE NameCached(n)'
  <2>1. CASE n = FullPath
    BY <1>4, <1>6, <1>8, <2>1 DEF NameCached
  <2>2. CASE n \in DOMAIN cache.items
    <3>1. NameCached(n) /\ cache'.items[n] = cache.items[n]
      BY <1>6, <2>2 DEF BuildInv, CacheOK
    <3> QED BY <1>5, <1>8, <3>1 DEF NameCached
  <2> QED BY <1>6, <2>1, <2>2
<1>13. ASSUME NEW idx \in DOMAIN cache'.items_by_idx PROVE PathCached(idx)'
  BY <1>5 DEF BuildInv, CacheOK, PathCached
<1>14. CacheOK'
  BY <1>10, <1>11, <1>12, <1>13 DEF CacheOK
<1>15. DOMAIN Item(p).inner = {}
  <2>1. Item(p).kind = "Service"
    BY DEF p, EnterService
  <2> QED BY <1>1, <2>1, KnownItem DEF IsType, IsService, TypeKinds
<1>16. /\ agenda' \in Seq(Task) /\ AgendaOK'
       /\ \A v : Has(agenda', v) <=>
            \/ Has(Tail(agenda), v)
            \/ \E k \in DOMAIN Item(Visit.idx).inner :
                    v = [idx |-> Append(Visit.idx, k), path |-> FullPath]
  BY <1>0, <1>5, <1>15, AgendaAfter DEF p, EnterService
<1>17. AllMet'
  <2>1. \E j \in DOMAIN cache'.services : cache'.services[j].idx_path = Visit.idx
    BY <1>4, <1>8 DEF p
  <2> QED BY <1>0, <1>5, <1>8, <1>16, <2>1, MetAfter DEF EnterService
<1>18. Populating /\ Progress /\ built = [types |-> <<>>, services |-> <<>>] /\ taken = {}
  BY DEF BuildInv, Progress, Populating, EnterService
<1>19. Progress'
  <2>1. Len(built'.types) = 0 /\ Len(built'.services) = 0
    BY <1>0, <1>18
  <2>2. Len(cache'.types) \in Nat /\ Len(cache'.services) \in Nat
    BY <1>2, <1>3, <1>5, <1>8
  <2> QED BY <1>0, <1>18, <2>1, <2>2 DEF Progress, Populating
<1>20. BuiltOK'
  BY <1>0, <1>18 DEF BuiltOK
<1>21. BuildTyped'
  BY <1>0, <1>9, <1>16 DEF BuildInv, BuildTyped, Task
<1> QED BY <1>14, <1>16, <1>17, <1>19, <1>20, <1>21 DEF BuildInv

\* Only messages have inner types.
LEMMA NoInner ==
    ASSUME BuildInv, agenda # <<>>, Item(Visit.idx).kind # "Message"
    PROVE  InnerOf(Visit.idx, FullPath) \o Tail(agenda) = Tail(agenda)
<1>1. Item(Visit.idx).inner = <<>>
  BY VisitKnown, KnownItem DEF IsType, IsService, TypeKinds
<1>2. InnerOf(Visit.idx, FullPath) = <<>>
  BY <1>1 DEF InnerOf
<1>3. Tail(agenda) \in Seq(Task)
  BY VisitKnown
<1> QED BY <1>2, <1>3

LEMMA PopulateMessageKeeps == BuildInv /\ PopulateMessage => BuildInv'
<1> SUFFICES ASSUME BuildInv, PopulateMessage PROVE BuildInv'
  OBVIOUS
<1>1. EnterType("Message", Len(cache.types) + 1)
  BY DEF PopulateMessage, EnterType
<1>2. FullPath \notin DOMAIN cache.items /\ "Message" \in TypeKinds
  BY DEF PopulateMessage, TypeKinds
<1> QED BY <1>1, <1>2, TypeEntered

LEMMA PopulateEnumKeeps == BuildInv /\ PopulateEnum => BuildInv'
<1> SUFFICES ASSUME BuildInv, PopulateEnum PROVE BuildInv'
  OBVIOUS
<1>1. cache \in CacheType
  BY DEF BuildInv, BuildTyped
<1>2. EnterType("Enum", Len(cache.types) + 1)
  <2>1. agenda' = InnerOf(Visit.idx, FullPath) \o Tail(agenda)
    BY NoInner DEF PopulateEnum
  <2> QED BY <1>1, <2>1 DEF PopulateEnum, EnterType, CacheType
<1>3. FullPath \notin DOMAIN cache.items /\ "Enum" \in TypeKinds
  BY DEF PopulateEnum, TypeKinds
<1> QED BY <1>2, <1>3, TypeEntered

LEMMA PopulateServiceKeeps == BuildInv /\ PopulateService => BuildInv'
<1> SUFFICES ASSUME BuildInv, PopulateService PROVE BuildInv'
  OBVIOUS
<1>1. EnterService(Len(cache.services) + 1)
  <2>1. agenda' = InnerOf(Visit.idx, FullPath) \o Tail(agenda)
    BY NoInner DEF PopulateService
  <2> QED BY <2>1 DEF PopulateService, EnterService
<1>2. FullPath \notin DOMAIN cache.items
  BY DEF PopulateService
<1> QED BY <1>1, <1>2, ServiceEntered

-----------------------------------------------------------------------------
(* Steps that leave the cache alone keep what holds of it *)

LEMMA SameCache ==
    ASSUME files' = files, cache' = cache
    PROVE  /\ \A idx : /\ Item(idx)' = Item(idx) /\ Scope(idx)' = Scope(idx)
                       /\ NameOf(idx)' = NameOf(idx) /\ Known(idx)' = Known(idx)
                       /\ ParentOf(idx)' = ParentOf(idx)
           /\ CacheOK => CacheOK'
           /\ AgendaOK /\ agenda' = agenda => AgendaOK'
           /\ AllMet /\ agenda' = agenda => AllMet'
           /\ \A t, i : TypeBuilt(t, i) => TypeBuilt(t, i)'
           /\ \A s, i : ServiceBuilt(s, i) => ServiceBuilt(s, i)'
<1>1. ASSUME NEW idx
      PROVE  /\ Item(idx)' = Item(idx) /\ Scope(idx)' = Scope(idx)
             /\ NameOf(idx)' = NameOf(idx) /\ Known(idx)' = Known(idx)
             /\ ParentOf(idx)' = ParentOf(idx)
  BY SameFiles DEF ParentOf
<1>2. ASSUME CacheOK PROVE CacheOK'
  <2>1. ASSUME NEW j \in DOMAIN cache.types PROVE TypeCached(j)'
    <3>1. TypeCached(j)
      BY <1>2 DEF CacheOK
    <3> QED BY <1>1, <3>1 DEF TypeCached
  <2>2. ASSUME NEW j \in DOMAIN cache.services PROVE ServiceCached(j)'
    <3>1. ServiceCached(j)
      BY <1>2 DEF CacheOK
    <3> QED BY <1>1, <3>1 DEF ServiceCached
  <2>3. ASSUME NEW n \in DOMAIN cache.items PROVE NameCached(n)'
    BY <1>2 DEF CacheOK, NameCached
  <2>4. ASSUME NEW idx \in DOMAIN cache.items_by_idx PROVE PathCached(idx)'
    BY <1>2 DEF CacheOK, PathCached
  <2> QED BY <2>1, <2>2, <2>3, <2>4 DEF CacheOK
<1>3. ASSUME AgendaOK, agenda' = agenda PROVE AgendaOK'
  BY <1>1, <1>3 DEF AgendaOK
<1>4. ASSUME AllMet, agenda' = agenda PROVE AllMet'
  <2>1. ASSUME NEW idx, Met(idx) PROVE Met(idx)'
    BY <1>4, <2>1 DEF Met
  <2>2. (\A f \in DOMAIN files : \A i \in DOMAIN files[f].items : Met(<<f, i>>))'
    BY <1>4, <2>1 DEF AllMet
  <2>3. (\A j \in DOMAIN cache.types : \A k \in DOMAIN Item(cache.types[j].idx_path).inner :
            Met(Append(cache.types[j].idx_path, k)))'
    BY <1>1, <1>4, <2>1 DEF AllMet
  <2> QED BY <2>2, <2>3 DEF AllMet
<1>5. ASSUME NEW t, NEW i, TypeBuilt(t, i) PROVE TypeBuilt(t, i)'
  <2> DEFINE idx == cache.types[i].idx_path
             Inner == [k \in DOMAIN Item(idx).inner |-> RefOf(NameOf(Append(idx, k)))]
  <2>1. idx' = idx /\ Item(idx)' = Item(idx) /\ ParentOf(idx)' = ParentOf(idx)
    BY <1>1
  <2>2. (Item(idx).inner)' = Item(idx).inner
    BY <2>1
  <2>3. ASSUME NEW k \in DOMAIN Item(idx).inner
        PROVE  RefOf(NameOf(Append(idx, k)))' = RefOf(NameOf(Append(idx, k)))
    <3>1. NameOf(Append(idx, k))' = NameOf(Append(idx, k))
      BY <1>1, <2>1
    <3> QED BY <3>1 DEF RefOf
  <2>4. Inner' = Inner
    BY <2>2, <2>3
  <2>5. \A kind, r : CachedAs(kind, r)' = CachedAs(kind, r)
    BY DEF CachedAs
  <2>6. t.inner_types = Inner
    BY <1>5 DEF TypeBuilt
  <2>7. (t.inner_types = Inner)'
    BY <2>4, <2>6
  <2>8. /\ t \in TypeInfo /\ Members(t)
        /\ t.kind = cache.types[i].item_type /\ t.name = <<Item(idx).name>>
        /\ t.full_name = cache.types[i].full_name /\ t.self_ref = i
        /\ t.parent = ParentOf(idx)
        /\ t.kind = "Message" => \A n \in DOMAIN t.fields :
              t.fields[n].type.of \in TypeKinds
                 => CachedAs(t.fields[n].type.of, t.fields[n].type.ref)
    BY <1>5 DEF TypeBuilt
  <2>9. (/\ t \in TypeInfo /\ Members(t)
         /\ t.kind = cache.types[i].item_type /\ t.name = <<Item(idx).name>>
         /\ t.full_name = cache.types[i].full_name /\ t.self_ref = i
         /\ t.parent = ParentOf(idx)
         /\ t.kind = "Message" => \A n \in DOMAIN t.fields :
               t.fields[n].type.of \in TypeKinds
                  => CachedAs(t.fields[n].type.of, t.fields[n].type.ref))'
    BY <2>1, <2>5, <2>8
  <2> QED BY <2>7, <2>9 DEF TypeBuilt
<1>6. ASSUME NEW s, NEW i, ServiceBuilt(s, i) PROVE ServiceBuilt(s, i)'
  BY <1>1, <1>6 DEF ServiceBuilt, CachedAs
<1> QED BY <1>1, <1>2, <1>3, <1>4, <1>5, <1>6

LEMMA DuplicateKeeps == BuildInv /\ Duplicate => BuildInv'
<1> SUFFICES ASSUME BuildInv, Duplicate PROVE BuildInv'
  OBVIOUS
<1>1. /\ status = "populate" /\ status' = "DuplicateType"
      /\ UNCHANGED <<files, agenda, cache, taken, built>>
  BY DEF Duplicate
<1>2. CacheOK' /\ AgendaOK' /\ AllMet'
  BY <1>1, SameCache DEF BuildInv
<1>3. BuildTyped' /\ Progress' /\ BuiltOK'
  BY <1>1, SameCache DEF BuildInv, BuildTyped, Progress, Populating, BuiltOK
<1> QED BY <1>2, <1>3 DEF BuildInv

LEMMA PopulatedKeeps == BuildInv /\ Populated => BuildInv'
<1> SUFFICES ASSUME BuildInv, Populated PROVE BuildInv'
  OBVIOUS
<1>1. /\ status = "populate" /\ agenda = <<>> /\ status' = "types"
      /\ UNCHANGED <<files, agenda, cache, taken, built>>
  BY DEF Populated
<1>2. CacheOK' /\ AgendaOK' /\ AllMet'
  BY <1>1, SameCache DEF BuildInv
<1>3. BuildTyped' /\ BuiltOK'
  BY <1>1, SameCache DEF BuildInv, BuildTyped, BuiltOK
<1>4. Progress'
  <2>1. taken = {} /\ built.types = <<>> /\ built.services = <<>>
    BY <1>1 DEF BuildInv, Progress, Populating
  <2> QED BY <1>1, <2>1 DEF BuildInv, Progress, Populating
<1> QED BY <1>2, <1>3, <1>4 DEF BuildInv

LEMMA TypesBuiltKeeps == BuildInv /\ TypesBuilt => BuildInv'
<1> SUFFICES ASSUME BuildInv, TypesBuilt PROVE BuildInv'
  OBVIOUS
<1>1. /\ status = "types" /\ status' = "services" /\ Len(built.types) = Len(cache.types)
      /\ UNCHANGED <<files, agenda, cache, taken, built>>
  BY DEF TypesBuilt
<1>2. CacheOK' /\ AgendaOK' /\ AllMet'
  BY <1>1, SameCache DEF BuildInv
<1>3. BuildTyped' /\ Progress' /\ BuiltOK'
  BY <1>1, SameCache DEF BuildInv, BuildTyped, Progress, Populating, BuiltOK
<1> QED BY <1>2, <1>3 DEF BuildInv

LEMMA FinishKeeps == BuildInv /\ Finish => BuildInv'
<1> SUFFICES ASSUME BuildInv, Finish PROVE BuildInv'
  OBVIOUS
<1>1. /\ status = "services" /\ status' = "ready" /\ Len(built.services) = Len(cache.services)
      /\ UNCHANGED <<files, agenda, cache, taken, built>>
  BY DEF Finish
<1>2. CacheOK' /\ AgendaOK' /\ AllMet'
  BY <1>1, SameCache DEF BuildInv
<1>3. BuildTyped' /\ Progress' /\ BuiltOK'
  BY <1>1, SameCache DEF BuildInv, BuildTyped, Progress, Populating, BuiltOK
<1> QED BY <1>2, <1>3 DEF BuildInv

-----------------------------------------------------------------------------
(* What the helpers of build return *)

\* InOrder lists every member once.
LEMMA OrderedIs ==
    ASSUME NEW S \in SUBSET Nat, IsFiniteSet(S)
    PROVE  /\ InOrder(S) \in Seq(Nat)
           /\ \A x : Has(InOrder(S), x) <=> x \in S
           /\ \A j, k \in DOMAIN InOrder(S) : InOrder(S)[j] = InOrder(S)[k] => j = k
<1> DEFINE N == Cardinality(S)
           f == InOrder(S)
<1>1. N \in Nat
  BY FS_CardinalityType
<1>2. DOMAIN f = 1..N
  BY DEF InOrder
<1>3. ASSUME NEW k \in 1..N PROVE f[k] \in S /\ Rank(S, f[k]) = k
  <2>1. \E n \in S : Rank(S, n) = k
    BY RankIsBijective
  <2>2. f[k] = CHOOSE n \in S : Rank(S, n) = k
    BY DEF InOrder, Rank
  <2> HIDE DEF f
  <2> QED BY <2>1, <2>2
<1>4. f \in [1..N -> Nat]
  <2>1. f = [k \in 1..N |-> f[k]]
    BY DEF InOrder
  <2> HIDE DEF f
  <2> QED BY <1>3, <2>1
<1>5. ASSUME NEW x \in S PROVE Has(f, x)
  <2>1. Rank(S, x) \in 1..N
    BY RankIsBijective
  <2>2. f[Rank(S, x)] \in S /\ Rank(S, f[Rank(S, x)]) = Rank(S, x)
    BY <1>3, <2>1
  <2>3. f[Rank(S, x)] = x
    <3>1. PICK y : y = f[Rank(S, x)]
      OBVIOUS
    <3>2. y \in S /\ Rank(S, y) = Rank(S, x)
      BY <2>2, <3>1
    <3> QED BY <3>1, <3>2, RankIsBijective
  <2> QED BY <1>2, <2>1, <2>3 DEF Has
<1> HIDE DEF f
<1>6. \A x : Has(f, x) => x \in S
  BY <1>2, <1>3 DEF Has
<1>7. f \in Seq(Nat)
  BY <1>1, <1>4
<1>8. \A j, k \in DOMAIN f : f[j] = f[k] => j = k
  BY <1>2, <1>3
<1>9. \A x : Has(f, x) <=> x \in S
  BY <1>5, <1>6
<1> QED BY <1>7, <1>8, <1>9 DEF f

Increasing(s) == \A j, k \in DOMAIN s : j < k => s[j] < s[k]

\* The members in order are the one increasing list of them.
LEMMA OrderedIncreases ==
    ASSUME NEW S \in SUBSET Nat, IsFiniteSet(S)
    PROVE  Increasing(InOrder(S))
<1> DEFINE N == Cardinality(S)
           f == InOrder(S)
<1>1. DOMAIN f = 1..N /\ N \in Nat
  BY FS_CardinalityType DEF InOrder
<1>2. ASSUME NEW k \in 1..N PROVE f[k] \in S /\ Rank(S, f[k]) = k
  <2>1. \E n \in S : Rank(S, n) = k
    BY RankIsBijective
  <2>2. f[k] = CHOOSE n \in S : Rank(S, n) = k
    BY DEF InOrder, Rank
  <2> HIDE DEF f
  <2> QED BY <2>1, <2>2
<1> HIDE DEF f
<1>3. ASSUME NEW j \in 1..N, NEW k \in 1..N, j < k PROVE f[j] < f[k]
  <2> SUFFICES ASSUME ~(f[j] < f[k]) PROVE FALSE
    OBVIOUS
  <2>1. f[j] \in Nat /\ f[k] \in Nat
    BY <1>2
  <2>2. f[k] < f[j] \/ f[k] = f[j]
    BY <2>1
  <2>3. CASE f[k] < f[j]
    <3>1. Rank(S, f[k]) < Rank(S, f[j])
      BY <1>2, <2>3, RankGrows
    <3> QED BY <1>2, <1>3, <3>1
  <2>4. CASE f[k] = f[j]
    BY <1>2, <1>3, <2>4
  <2> QED BY <2>2, <2>3, <2>4
<1> QED BY <1>1, <1>3 DEF Increasing, f

LEMMA IncreasingIs ==
    ASSUME NEW S \in SUBSET Nat, NEW s \in Seq(Nat), Increasing(s),
           \A x : Has(s, x) <=> x \in S
    PROVE  s = InOrder(S) /\ IsFiniteSet(S)
<1> DEFINE N == Len(s)
           Upto(k) == {m \in S : \E j \in 1..k : s[j] = m}
           B == {k \in Nat : k <= N => IsFiniteSet(Upto(k)) /\ Cardinality(Upto(k)) = k}
<1>1. N \in Nat /\ DOMAIN s = 1..N
  OBVIOUS
<1>2. \A k \in 1..N : s[k] \in S /\ s[k] \in Nat
  BY <1>1 DEF Has
<1>3. 0 \in B
  <2>1. Upto(0) = {}
    OBVIOUS
  <2> QED BY <2>1, FS_EmptySet
<1>4. ASSUME NEW k \in Nat, k \in B PROVE k + 1 \in B
  <2> SUFFICES ASSUME k + 1 <= N
               PROVE  IsFiniteSet(Upto(k + 1)) /\ Cardinality(Upto(k + 1)) = k + 1
    OBVIOUS
  <2>1. k + 1 \in 1..N /\ k <= N
    BY <1>1
  <2>2. IsFiniteSet(Upto(k)) /\ Cardinality(Upto(k)) = k
    BY <1>4, <2>1
  <2>3. s[k + 1] \notin Upto(k)
    <3> SUFFICES ASSUME NEW j \in 1..k, s[j] = s[k + 1] PROVE FALSE
      OBVIOUS
    <3>1. j \in 1..N /\ j < k + 1
      BY <1>1, <2>1
    <3>2. s[j] < s[k + 1]
      BY <1>1, <2>1, <3>1 DEF Increasing
    <3> QED BY <1>2, <2>1, <3>2
  <2>4. Upto(k + 1) = Upto(k) \cup {s[k + 1]}
    <3>1. \A j : j \in 1..(k + 1) <=> j \in 1..k \/ j = k + 1
      OBVIOUS
    <3> QED BY <1>2, <2>1, <3>1
  <2> DEFINE U == Upto(k)
             e == s[k + 1]
  <2>5. IsFiniteSet(U) /\ Cardinality(U) = k /\ e \notin U
    BY <2>2, <2>3
  <2>6. Upto(k + 1) = U \cup {e}
    BY <2>4
  <2> HIDE DEF Upto, U, e
  <2>7. IsFiniteSet(U \cup {e}) /\ Cardinality(U \cup {e}) = k + 1
    BY <2>5, FS_AddElement
  <2> QED BY <2>6, <2>7
<1> HIDE DEF B
<1>5. Nat \subseteq B
  BY <1>3, <1>4, SetInduction
<1>6. \A k \in 0..N : IsFiniteSet(Upto(k)) /\ Cardinality(Upto(k)) = k
  <2> HIDE DEF Upto, N
  <2> QED BY <1>1, <1>5 DEF B
<1>7. Upto(N) = S
  BY <1>1, <1>2 DEF Has
<1>8. IsFiniteSet(S) /\ Cardinality(S) = N
  <2> HIDE DEF Upto, N
  <2>1. N \in 0..N
    BY <1>1
  <2> QED BY <2>1, <1>6, <1>7
<1>9. ASSUME NEW k \in 1..N PROVE Rank(S, s[k]) = k
  <2>1. {m \in S : m <= s[k]} = Upto(k)
    <3>1. ASSUME NEW m \in S PROVE m <= s[k] <=> \E j \in 1..k : s[j] = m
      <4>1. PICK j \in 1..N : s[j] = m
        BY <1>1 DEF Has
      <4>2. CASE j <= k
        <5>1. j \in 1..k
          BY <4>2
        <5>2. j = k \/ j < k
          BY <4>2
        <5>3. s[j] <= s[k]
          BY <1>1, <1>2, <5>2 DEF Increasing
        <5> QED BY <4>1, <5>1, <5>3
      <4>3. CASE k < j
        <5>1. s[k] < s[j]
          BY <1>1, <4>3 DEF Increasing
        <5>2. ASSUME NEW i \in 1..k, s[i] = m PROVE FALSE
          <6>1. i \in 1..N /\ (i = k \/ i < k)
            BY <1>1
          <6>2. s[i] <= s[k]
            <7>1. s[i] \in Nat /\ s[k] \in Nat
              BY <1>2, <6>1
            <7>2. i \in DOMAIN s /\ k \in DOMAIN s
              BY <1>1, <6>1
            <7>3. i = k \/ s[i] < s[k]
              BY <6>1, <7>2 DEF Increasing
            <7> QED BY <7>1, <7>3
          <6> QED BY <1>2, <4>1, <5>1, <5>2, <6>1, <6>2
        <5> QED BY <1>2, <4>1, <5>1, <5>2
      <4> QED BY <1>1, <4>2, <4>3
    <3> QED BY <3>1
  <2>2. k \in 0..N
    BY <1>1
  <2>3. Cardinality(Upto(k)) = k
    BY <1>6, <2>2
  <2> HIDE DEF Upto
  <2> QED BY <2>1, <2>3 DEF Rank
<1>10. ASSUME NEW k \in 1..N PROVE InOrder(S)[k] = s[k]
  <2>1. InOrder(S)[k] = CHOOSE n \in S : Rank(S, n) = k
    BY <1>8 DEF InOrder, Rank
  <2>2. s[k] \in S /\ \A n \in S : Rank(S, n) = k => n = s[k]
    BY <1>2, <1>8, <1>9, RankIsBijective
  <2> QED BY <1>9, <2>1, <2>2
<1>11. InOrder(S) = [k \in 1..N |-> InOrder(S)[k]] /\ s = [k \in 1..N |-> s[k]]
  <2>1. DOMAIN InOrder(S) = 1..N
    BY <1>8 DEF InOrder
  <2>2. InOrder(S) \in Seq(Nat)
    BY <1>8, OrderedIs
  <2>3. InOrder(S) = [k \in DOMAIN InOrder(S) |-> InOrder(S)[k]]
    BY <2>2
  <2>4. s = [k \in DOMAIN s |-> s[k]]
    OBVIOUS
  <2> QED BY <1>1, <2>1, <2>3, <2>4
<1> QED BY <1>8, <1>10, <1>11

\* A greater member comes last.
LEMMA OrderedMore ==
    ASSUME NEW S \in SUBSET Nat, IsFiniteSet(S), NEW x \in Nat, \A n \in S : n < x
    PROVE  InOrder(S \cup {x}) = Append(InOrder(S), x)
<1> DEFINE s == InOrder(S)
           t == Append(s, x)
           T == S \cup {x}
<1>1. s \in Seq(Nat) /\ (\A y : Has(s, y) <=> y \in S) /\ Increasing(s)
  BY OrderedIs, OrderedIncreases
<1> HIDE DEF s
<1>2. /\ t \in Seq(Nat) /\ DOMAIN s = 1..Len(s) /\ Len(s) \in Nat
      /\ DOMAIN t = 1..(Len(s) + 1) /\ t[Len(s) + 1] = x
      /\ \A k \in 1..Len(s) : t[k] = s[k]
  BY <1>1
<1> HIDE DEF t
<1>3. \A k : k \in DOMAIN t <=> k \in DOMAIN s \/ k = Len(s) + 1
  BY <1>2
<1>4. \A y : Has(t, y) <=> y \in T
  BY <1>1, <1>2, <1>3 DEF Has
<1>5. Increasing(t)
  <2> SUFFICES ASSUME NEW j \in DOMAIN t, NEW k \in DOMAIN t, j < k PROVE t[j] < t[k]
    BY DEF Increasing
  <2>1. j \in DOMAIN s
    BY <1>2
  <2>2. CASE k \in DOMAIN s
    BY <1>1, <1>2, <2>1, <2>2 DEF Increasing
  <2>3. CASE k = Len(s) + 1
    <3>1. s[j] \in S
      BY <1>1, <2>1 DEF Has
    <3> QED BY <1>2, <2>1, <2>3, <3>1
  <2> QED BY <1>3, <2>2, <2>3
<1> HIDE DEF T
<1>6. T \in SUBSET Nat
  BY DEF T
<1>7. t = InOrder(T)
  BY <1>2, <1>4, <1>5, <1>6, IncreasingIs
<1> QED BY <1>7 DEF s, t, T

LEMMA OrderedNone == InOrder({}) = <<>>
<1>1. Cardinality({}) = 0
  BY FS_EmptySet
<1> QED BY <1>1 DEF InOrder

\* FlattenSeq of a row for every element of a sequence.
FieldIn(item) == FieldDecl \X ({NoOneof} \cup DOMAIN item.oneofs)

LEMMA FieldsTyped ==
    ASSUME NEW item, item.fields \in Seq(FieldDecl), item.oneofs \in Seq(OneofDecl)
    PROVE  FieldsInOrder(item) \in Seq(FieldIn(item))
<1> DEFINE S == FieldIn(item)
           plain == [k \in DOMAIN item.fields |-> <<item.fields[k], NoOneof>>]
           row(o) == [k \in DOMAIN item.oneofs[o].fields |-> <<item.oneofs[o].fields[k], o>>]
           rows == [o \in DOMAIN item.oneofs |-> row(o)]
<1>1. plain \in Seq(S)
  <2> DEFINE n == Len(item.fields)
  <2>1. DOMAIN item.fields = 1..n /\ n \in Nat /\ \A k \in 1..n : item.fields[k] \in FieldDecl
    OBVIOUS
  <2>2. plain \in [1..n -> S]
    BY <2>1 DEF FieldIn
  <2> HIDE DEF plain, n, S
  <2> QED BY <2>1, <2>2
<1>2. ASSUME NEW o \in DOMAIN item.oneofs PROVE row(o) \in Seq(S)
  <2> DEFINE fs == item.oneofs[o].fields
             n == Len(fs)
  <2>1. fs \in Seq(FieldDecl)
    <3>1. item.oneofs[o] \in OneofDecl
      OBVIOUS
    <3> QED BY <3>1 DEF OneofDecl
  <2>2. DOMAIN fs = 1..n /\ n \in Nat /\ \A k \in 1..n : fs[k] \in FieldDecl
    BY <2>1
  <2>3. row(o) \in [1..n -> S]
    BY <2>2 DEF FieldIn
  <2> HIDE DEF row, n, S
  <2> QED BY <2>2, <2>3
<1>3. rows \in Seq(Seq(S))
  <2> DEFINE n == Len(item.oneofs)
  <2>1. DOMAIN item.oneofs = 1..n /\ n \in Nat
    OBVIOUS
  <2> HIDE DEF row, S
  <2>2. rows \in [1..n -> Seq(S)]
    BY <1>2, <2>1
  <2> HIDE DEF rows, n
  <2> QED BY <2>1, <2>2
<1>4. FieldsInOrder(item) = plain \o FlattenSeq(rows)
  BY DEF FieldsInOrder
<1> HIDE DEF plain, rows, S
<1>5. FlattenSeq(rows) \in Seq(S)
  BY <1>3, FlattenContents
<1> QED BY <1>1, <1>4, <1>5, ConcatHas DEF S

LEMMA LastIs ==
    ASSUME NEW S, NEW fs \in Seq(FieldDecl \X S), NEW n \in {fs[k][1].number : k \in DOMAIN fs}
    PROVE  LastWithNumber(fs, n) \in DOMAIN fs /\ fs[LastWithNumber(fs, n)][1].number = n
<1> DEFINE B == {k \in DOMAIN fs : fs[k][1].number = n}
<1>1. DOMAIN fs = 1..Len(fs) /\ Len(fs) \in Nat
  OBVIOUS
<1>2. B \in SUBSET Nat /\ B # {} /\ \A x \in B : x <= Len(fs)
  BY <1>1
<1>3. Max(B) \in B /\ \A x \in B : x <= Max(B)
  <2> HIDE DEF B
  <2> QED BY <1>1, <1>2, MaxIs
<1>4. \E k \in DOMAIN fs : fs[k][1].number = n /\ \A j \in DOMAIN fs : fs[j][1].number = n => j <= k
  BY <1>3
<1> QED BY <1>4 DEF LastWithNumber

\* A reference that is found denotes what has been cached.
LEMMA FoundIs ==
    ASSUME CacheOK, NEW rel, NEW scope \in Names, NEW n \in Found(rel, scope)
    PROVE  n \in DOMAIN cache.items /\ NameCached(n)
<1> DEFINE At(k) == IF Head(rel) = "" THEN Tail(rel) ELSE SubSeq(scope, 1, k) \o rel
           hits == {k \in 0..Len(scope) : At(k) \in DOMAIN cache.items}
<1>1. Len(scope) \in Nat /\ hits \in SUBSET Nat /\ \A x \in hits : x <= Len(scope)
  <2>1. Len(scope) \in Nat
    BY DEF Names
  <2> HIDE DEF At
  <2> QED BY <2>1
<1>2. hits # {} /\ n = At(Max(hits))
  BY DEF Found
<1>3. Max(hits) \in hits
  <2> HIDE DEF hits
  <2> QED BY <1>1, <1>2, MaxIs
<1>4. n \in DOMAIN cache.items
  BY <1>2, <1>3
<1> QED BY <1>4 DEF CacheOK

\* What a name in the cache leads to is cached as a type of the same kind.
LEMMA KindIs ==
    ASSUME BuildInv, NEW n \in DOMAIN cache.items, NameCached(n)
    PROVE  /\ KindOf(n) \in ItemKinds /\ cache.items[n].final_idx \in Nat
           /\ KindOf(n) # "Service" => CachedAs(KindOf(n), cache.items[n].final_idx)
<1>1. cache.items \in Maps(Names, CacheEntry)
  BY DEF BuildInv, BuildTyped, CacheType
<1>2. cache.items[n] \in CacheEntry
  BY <1>1, MapDomain
<1>3. ASSUME KindOf(n) # "Service" PROVE CachedAs(KindOf(n), cache.items[n].final_idx)
  <2> DEFINE j == cache.items[n].final_idx
  <2>1. j \in DOMAIN cache.types /\ cache.types[j].full_name = n
    BY <1>3 DEF NameCached, KindOf
  <2>2. TypeCached(j)
    BY <2>1 DEF BuildInv, CacheOK
  <2>3. cache.items[n] = Entry(cache.types[j].item_type, j)
    BY <2>1, <2>2 DEF TypeCached
  <2>4. cache.items[n].kind = cache.types[j].item_type
    BY <2>3 DEF Entry
  <2> QED BY <2>1, <2>4 DEF CachedAs, KindOf
<1> QED BY <1>2, <1>3 DEF KindOf, CacheEntry

LEMMA FieldResolved ==
    ASSUME BuildInv, NEW f \in FieldDecl, NEW scope \in Names, NEW o \in Nat,
           FieldVerdictIn(f, scope) = "types"
    PROVE  LET b == BuiltField(f, scope, o)
           IN  /\ b \in MessageField /\ b.name = f.name /\ b.number = f.number /\ b.oneof = o
               /\ b.type.of \in TypeKinds => CachedAs(b.type.of, b.type.ref)
<1> DEFINE b == BuiltField(f, scope, o)
           t == ResolvedType(f, scope)
<1>1. t \in ValueType /\ (t.of \in TypeKinds => CachedAs(t.of, t.ref))
  <2>1. CASE f.type # "Unknown"
    <3>1. t = [of |-> f.type, ref |-> 0] /\ f.type \in {"Scalar", "Blob"}
      BY <2>1 DEF ResolvedType, FieldDecl
    <3> HIDE DEF t
    <3> QED BY <3>1 DEF ValueType, TypeKinds
  <2>2. CASE f.type = "Unknown"
    <3> DEFINE n == CHOOSE n \in Found(f.ref, scope) : TRUE
    <3>1. Found(f.ref, scope) # {} /\ ~ \E m \in Found(f.ref, scope) : KindOf(m) = "Service"
      BY <2>2 DEF FieldVerdictIn
    <3>2. n \in Found(f.ref, scope) /\ KindOf(n) # "Service"
      BY <3>1
    <3>3. t = [of |-> KindOf(n), ref |-> cache.items[n].final_idx]
      BY <2>2 DEF ResolvedType
    <3> HIDE DEF n, t
    <3>4. n \in DOMAIN cache.items /\ NameCached(n)
      BY <3>2, FoundIs DEF BuildInv
    <3>5. /\ KindOf(n) \in TypeKinds /\ cache.items[n].final_idx \in Nat
          /\ CachedAs(KindOf(n), cache.items[n].final_idx)
      BY <3>2, <3>4, KindIs DEF ItemKinds
    <3> QED BY <3>3, <3>5 DEF ValueType, TypeRef
  <2> QED BY <2>1, <2>2
<1>2. ResolveMultiplicity(f) \in Multiplicity
  BY DEF ResolveMultiplicity, Multiplicity, FieldDecl
<1>3. f.name \in Names /\ f.number \in Nat
  BY DEF FieldDecl
<1> HIDE DEF t
<1>4. b = [name |-> f.name, number |-> f.number, type |-> t,
           multiplicity |-> ResolveMultiplicity(f), oneof |-> o]
  BY DEF BuiltField, t
<1> QED BY <1>1, <1>2, <1>3, <1>4 DEF MessageField

-----------------------------------------------------------------------------
(* Building a type *)

Building(i) ==
    /\ status = "types" /\ Len(built.types) < Len(cache.types) /\ i = Len(built.types) + 1

LEMMA DataKnown ==
    ASSUME BuildInv, NEW i, Building(i)
    PROVE  /\ i \in DOMAIN cache.types /\ i \in Nat /\ Data = cache.types[i] /\ TypeCached(i)
           /\ files \in Files /\ Known(Data.idx_path) /\ IsType(Item(Data.idx_path))
           /\ Data.full_name \in Names /\ Data.full_name = NameOf(Data.idx_path)
           /\ Data.final_idx = i
           /\ Parents(Data.idx_path) = {ParentOf(Data.idx_path)}
           /\ ParentOf(Data.idx_path) \in TypeParent
<1> DEFINE p == Data.idx_path
<1>1. cache.types \in Seq(CacheDatum) /\ built.types \in Seq(TypeInfo) /\ files \in Files
  BY DEF BuildInv, BuildTyped, CacheType
<1>2. i \in DOMAIN cache.types /\ i \in Nat
  BY <1>1 DEF Building
<1>3. Data = cache.types[i]
  BY DEF Building, Data
<1>4. TypeCached(i)
  BY <1>2 DEF BuildInv, CacheOK
<1>5. /\ Known(p) /\ Data.final_idx = i /\ Data.full_name = NameOf(p)
      /\ Item(p).kind \in TypeKinds
  BY <1>3, <1>4 DEF TypeCached
<1>6. IsType(Item(p)) /\ NameOf(p) \in Names
  <2>1. ASSUME IsService(Item(p)) PROVE FALSE
    BY <1>5, <2>1 DEF IsService, TypeKinds
  <2> QED BY <1>1, <1>5, <2>1, KnownItem, KnownNames
<1>7. Parents(p) = {ParentOf(p)} /\ ParentOf(p) \in TypeParent
  <2> HIDE DEF p
  <2>1. p \in Seq(Nat) /\ Len(p) \in Nat /\ Len(p) >= 2
    BY <1>5 DEF Known
  <2>2. CASE Len(p) = 2
    <3>1. p[1] \in Nat
      BY <2>1
    <3> QED BY <2>2, <3>1 DEF Parents, ParentOf, TypeParent
  <2>3. CASE Len(p) # 2
    <3>0. Len(p) > 2
      <4>1. Len(p) # 2
        BY <2>3
      <4>2. Len(p) \in Nat /\ Len(p) >= 2
        BY <2>1
      <4>3. \A n \in Nat : n # 2 /\ n >= 2 => n > 2
        OBVIOUS
      <4> QED BY <4>1, <4>2, <4>3
    <3>1. Front(p) \in DOMAIN cache.items_by_idx
      BY <1>3, <1>4, <3>0 DEF TypeCached, p
    <3>2. cache.items_by_idx[Front(p)].final_idx \in DOMAIN cache.types
      BY <3>1 DEF BuildInv, CacheOK, PathCached
    <3>3. cache.items_by_idx[Front(p)].final_idx \in Nat
      BY <1>1, <3>2
    <3>4. {Front(p)} \cap DOMAIN cache.items_by_idx = {Front(p)}
      BY <3>1
    <3> QED BY <2>3, <3>3, <3>4 DEF Parents, ParentOf, TypeParent
  <2> QED BY <2>2, <2>3
<1> QED BY <1>1, <1>2, <1>3, <1>4, <1>5, <1>6, <1>7

\* The inner types are in the cache, and have not been taken out yet.
LEMMA ChildKnown ==
    ASSUME BuildInv, NEW i, Building(i), NEW k \in DOMAIN Item(Data.idx_path).inner
    PROVE  LET b == Append(Data.idx_path, k)
           IN  /\ InnerNames(Data)[k] = NameOf(b)
               /\ NameOf(b) \in DOMAIN cache.items /\ KindOf(NameOf(b)) = Item(b).kind
               /\ Item(b).kind \in TypeKinds /\ RefOf(NameOf(b)) \in TypeRef
               /\ Item(Data.idx_path).kind = "Message"
<1> DEFINE p == Data.idx_path
           b == Append(p, k)
<1>0. /\ i \in DOMAIN cache.types /\ i \in Nat /\ Data = cache.types[i] /\ TypeCached(i)
      /\ files \in Files /\ Known(p) /\ IsType(Item(p)) /\ Data.full_name = NameOf(p)
      /\ Data.final_idx = i
  BY DataKnown
<1>1. /\ Known(b) /\ Front(b) = p /\ Scope(b) = NameOf(p) /\ IsType(Item(b))
      /\ Len(b) > 2
  <2>1. Len(p) \in Nat /\ Len(p) >= 2
    BY <1>0 DEF Known
  <2>2. Known(b) /\ Front(b) = p /\ Scope(b) = NameOf(p) /\ IsType(Item(b)) /\ Len(b) = Len(p) + 1
    BY <1>0, KnownInner
  <2> HIDE DEF b
  <2> QED BY <2>1, <2>2
<1>2. Item(p).kind = "Message"
  BY <1>0 DEF IsType, TypeKinds
<1>3. p \in DOMAIN cache.items_by_idx /\ cache.items_by_idx[p].final_idx = i
  BY <1>0, <1>2 DEF TypeCached, Entry
<1>4. Met(b)
  BY <1>0 DEF BuildInv, AllMet
<1>5. DOMAIN agenda = {}
  BY DEF Building, BuildInv, Progress, Populating
<1> HIDE DEF b
<1>6. PICK j \in DOMAIN cache.types : cache.types[j].idx_path = b
  <2>1. ASSUME NEW j \in DOMAIN cache.services, cache.services[j].idx_path = b PROVE FALSE
    <3>1. ServiceCached(j)
      BY DEF BuildInv, CacheOK
    <3> QED BY <1>1, <2>1, <3>1 DEF ServiceCached, IsType, TypeKinds
  <2> QED BY <1>4, <1>5, <2>1 DEF Met
<1>7. TypeCached(j)
  BY DEF BuildInv, CacheOK
<1>8. /\ NameOf(b) \in DOMAIN cache.items /\ cache.items[NameOf(b)] = Entry(Item(b).kind, j)
      /\ j \in Nat
  BY <1>6, <1>7 DEF TypeCached, BuildInv, BuildTyped, CacheType
<1>9. b \notin taken
  <2> SUFFICES ASSUME b \in taken PROVE FALSE
    OBVIOUS
  <2>1. PICK m \in 1..Len(built.types) : cache.types[m].idx_path = b
    BY DEF Building, BuildInv, Progress
  <2>2. m \in DOMAIN cache.types /\ m < i /\ m \in Nat
    BY DEF Building, BuildInv, BuildTyped, CacheType
  <2>3. TypeCached(m)
    BY <2>2 DEF BuildInv, CacheOK
  <2>4. cache.items_by_idx[p].final_idx < m
    BY <1>1, <2>1, <2>3 DEF TypeCached
  <2> QED BY <1>0, <1>3, <2>2, <2>4
<1>10. InnerNames(Data)[k] = NameOf(b)
  <2>1. NameLeft(b) = Item(b).name
    BY <1>9 DEF NameLeft
  <2> QED BY <1>0, <1>1, <2>1 DEF InnerNames, NameOf, b
<1>11. KindOf(NameOf(b)) = Item(b).kind /\ Item(b).kind \in TypeKinds
  BY <1>1, <1>8 DEF KindOf, Entry, IsType
<1>12. RefOf(NameOf(b)) \in TypeRef
  BY <1>8, <1>11 DEF RefOf, TypeRef, KindOf, Entry
<1> QED BY <1>2, <1>8, <1>10, <1>11, <1>12 DEF b

\* No assertion fails.
LEMMA TypeVerdictIs ==
    ASSUME BuildInv, NEW i, Building(i)
    PROVE  /\ TypeVerdict(Data) \in {"types", "TypeNotFound", "unreachable"}
           /\ TypeVerdict(Data) = "types" /\ Item(Data.idx_path).kind = "Message" =>
                LET fs == FieldsInOrder(Item(Data.idx_path))
                IN  \A k \in DOMAIN fs : FieldVerdictIn(fs[k][1], Data.full_name) = "types"
<1> DEFINE item == Item(Data.idx_path)
           fs == IF item.kind = "Message" THEN FieldsInOrder(item) ELSE <<>>
           bad == {k \in DOMAIN fs : FieldVerdictIn(fs[k][1], Data.full_name) # "types"}
<1>1. item.kind # "Service"
  BY DataKnown DEF IsType, TypeKinds
<1>2. ~InnerTypesPanic(Data)
  <2> SUFFICES ASSUME NEW k \in DOMAIN item.inner
               PROVE  /\ InnerNames(Data)[k] \in DOMAIN cache.items
                      /\ KindOf(InnerNames(Data)[k]) = Item(Append(Data.idx_path, k)).kind
    BY DEF InnerTypesPanic, InnerNames
  <2> QED BY ChildKnown
<1>3. Parents(Data.idx_path) # {} /\ Data.final_idx = Len(built.types) + 1
  BY DataKnown DEF Building
<1>4. TypeVerdict(Data) = IF bad # {} THEN FieldVerdictIn(fs[Min(bad)][1], Data.full_name)
                          ELSE "types"
  BY <1>1, <1>2, <1>3 DEF TypeVerdict
<1>5. \A f : FieldVerdictIn(f, Data.full_name) \in {"types", "TypeNotFound", "unreachable"}
  BY DEF FieldVerdictIn
<1>6. ASSUME TypeVerdict(Data) = "types", item.kind = "Message"
      PROVE  \A k \in DOMAIN FieldsInOrder(item) :
                FieldVerdictIn(FieldsInOrder(item)[k][1], Data.full_name) = "types"
  <2>1. fs = FieldsInOrder(item)
    BY <1>6
  <2>2. bad = {}
    <3> SUFFICES ASSUME bad # {} PROVE FALSE
      OBVIOUS
    <3>1. FieldVerdictIn(fs[Min(bad)][1], Data.full_name) = "types"
      BY <1>4, <1>6
    <3>2. bad \in SUBSET Nat
      <4>1. fs \in Seq(FieldIn(item))
        BY <1>6, <2>1, DataKnown, FieldsTyped DEF IsType
      <4> HIDE DEF fs
      <4> QED BY <4>1
    <3>3. Min(bad) \in bad
      <4> HIDE DEF bad
      <4> QED BY <3>2, MinIs
    <3> QED BY <3>1, <3>3
  <2> QED BY <2>1, <2>2
<1> HIDE DEF bad, fs
<1>7. TypeVerdict(Data) \in {"types", "TypeNotFound", "unreachable"}
  BY <1>4, <1>5
<1> QED BY <1>6, <1>7

LEMMA FieldsBuilt ==
    ASSUME BuildInv, NEW item, item.fields \in Seq(FieldDecl), item.oneofs \in Seq(OneofDecl),
           NEW scope \in Names,
           \A k \in DOMAIN FieldsInOrder(item) :
                FieldVerdictIn(FieldsInOrder(item)[k][1], scope) = "types"
    PROVE  LET g == BuiltFields(FieldsInOrder(item), scope)
           IN  /\ g \in Maps(Nat, MessageField) /\ IsFiniteSet(DOMAIN g)
               /\ \A n \in DOMAIN g :
                    /\ g[n].number = n /\ g[n].oneof \in {NoOneof} \cup DOMAIN item.oneofs
                    /\ g[n].type.of \in TypeKinds => CachedAs(g[n].type.of, g[n].type.ref)
<1> DEFINE fs == FieldsInOrder(item)
           numbers == {fs[k][1].number : k \in DOMAIN fs}
           built_of(n) == BuiltField(fs[LastWithNumber(fs, n)][1], scope, fs[LastWithNumber(fs, n)][2])
           g == [n \in numbers |-> built_of(n)]
<1>1. fs \in Seq(FieldIn(item)) /\ DOMAIN item.oneofs \subseteq Nat
  BY FieldsTyped
<1>2. BuiltFields(fs, scope) = g
  BY DEF BuiltFields
<1> HIDE DEF fs
<1>3. \A k \in DOMAIN fs : /\ fs[k][1] \in FieldDecl /\ fs[k][1].number \in Nat
                           /\ fs[k][2] \in {NoOneof} \cup DOMAIN item.oneofs
  <2>1. \A k \in DOMAIN fs : fs[k] \in FieldIn(item)
    BY <1>1
  <2> QED BY <2>1 DEF FieldIn, FieldDecl
<1>4. IsFiniteSet(numbers) /\ numbers \subseteq Nat
  <2> DEFINE n == Len(fs)
             f == [k \in 1..n |-> fs[k][1].number]
  <2>1. DOMAIN fs = 1..n /\ n \in Nat
    BY <1>1
  <2> HIDE DEF n
  <2>2. DOMAIN f = 1..n
    OBVIOUS
  <2>3. IsFiniteSet({f[k] : k \in DOMAIN f})
    <3> HIDE DEF f
    <3> QED BY <2>1, <2>2, FiniteRange
  <2>4. {f[k] : k \in DOMAIN f} = numbers
    BY <2>1
  <2> QED BY <1>3, <2>3, <2>4
<1> HIDE DEF numbers
<1>5. ASSUME NEW n \in numbers
      PROVE  /\ built_of(n) \in MessageField /\ built_of(n).number = n
             /\ built_of(n).oneof \in {NoOneof} \cup DOMAIN item.oneofs
             /\ built_of(n).type.of \in TypeKinds =>
                    CachedAs(built_of(n).type.of, built_of(n).type.ref)
  <2> DEFINE k == LastWithNumber(fs, n)
  <2>1. k \in DOMAIN fs /\ fs[k][1].number = n
    <3>1. fs \in Seq(FieldDecl \X ({NoOneof} \cup DOMAIN item.oneofs))
      BY <1>1 DEF FieldIn
    <3> QED BY <3>1, LastIs DEF numbers
  <2>2. built_of(n) = BuiltField(fs[k][1], scope, fs[k][2])
    OBVIOUS
  <2> HIDE DEF k, built_of
  <2>3. fs[k][1] \in FieldDecl /\ fs[k][2] \in Nat /\ FieldVerdictIn(fs[k][1], scope) = "types"
    BY <1>1, <1>3, <2>1 DEF fs, NoOneof
  <2>4. /\ built_of(n) \in MessageField /\ built_of(n).number = fs[k][1].number
        /\ built_of(n).oneof = fs[k][2]
        /\ built_of(n).type.of \in TypeKinds =>
               CachedAs(built_of(n).type.of, built_of(n).type.ref)
    BY <2>2, <2>3, FieldResolved
  <2> QED BY <1>3, <2>1, <2>4
<1> HIDE DEF built_of
<1>6. g \in [numbers -> MessageField] /\ DOMAIN g = numbers /\ \A n \in numbers : g[n] = built_of(n)
  BY <1>5
<1> HIDE DEF g
<1>7. g \in Maps(Nat, MessageField)
  BY <1>4, <1>6 DEF Maps
<1> QED BY <1>2, <1>4, <1>5, <1>6, <1>7 DEF fs

\* A map from the names of the fields to the last number of each.
LEMMA NamesIndexed ==
    ASSUME NEW g \in Maps(Nat, MessageField), IsFiniteSet(DOMAIN g)
    PROVE  LET h == [s \in {g[n].name : n \in DOMAIN g} |-> Max({n \in DOMAIN g : g[n].name = s})]
           IN  /\ h \in Maps(Names, Nat)
               /\ \A n \in DOMAIN g : g[n].name \in DOMAIN h
               /\ \A s \in DOMAIN h : h[s] \in DOMAIN g /\ g[h[s]].name = s
<1> DEFINE same(s) == {n \in DOMAIN g : g[n].name = s}
           names == {g[n].name : n \in DOMAIN g}
           h == [s \in names |-> Max(same(s))]
<1>1. DOMAIN g \subseteq Nat /\ \A n \in DOMAIN g : g[n] \in MessageField /\ g[n].name \in Names
  <2>1. DOMAIN g \subseteq Nat /\ \A n \in DOMAIN g : g[n] \in MessageField
    BY MapDomain
  <2> QED BY <2>1 DEF MessageField
<1>2. ASSUME NEW s \in names PROVE Max(same(s)) \in same(s)
  <2>1. same(s) # {} /\ same(s) \subseteq DOMAIN g /\ same(s) \in SUBSET Nat
    BY <1>1
  <2>2. IsFiniteSet(same(s))
    BY <2>1, FS_Subset
  <2> HIDE DEF same
  <2> QED BY <2>1, <2>2, FiniteMax
<1>3. names \subseteq Names
  BY <1>1
<1>4. h \in [names -> Nat]
  BY <1>1, <1>2
<1>5. h \in Maps(Names, Nat)
  BY <1>3, <1>4 DEF Maps
<1> QED BY <1>2, <1>5

LEMMA OneofsBuilt ==
    ASSUME NEW item, item.oneofs \in Seq(OneofDecl),
           NEW g \in Maps(Nat, MessageField), IsFiniteSet(DOMAIN g)
    PROVE  LET os == [o \in DOMAIN item.oneofs |->
                        [name |-> item.oneofs[o].name, self_ref |-> o,
                         fields |-> FieldsOfOneof(item, g, o)]]
           IN  /\ os \in Seq(Oneof) /\ DOMAIN os = DOMAIN item.oneofs
               /\ \A o \in DOMAIN os :
                    /\ os[o].self_ref = o
                    /\ \A n : Has(os[o].fields, n) <=> n \in DOMAIN g /\ g[n].oneof = o
<1> DEFINE of(o) == [name |-> item.oneofs[o].name, self_ref |-> o,
                     fields |-> FieldsOfOneof(item, g, o)]
           N == Len(item.oneofs)
<1>1. DOMAIN item.oneofs = 1..N /\ N \in Nat /\ \A o \in 1..N : item.oneofs[o].name \in Names
  <2>1. \A o \in 1..N : item.oneofs[o] \in OneofDecl
    OBVIOUS
  <2> QED BY <2>1 DEF OneofDecl
<1>2. DOMAIN g \subseteq Nat
  BY MapDomain
<1>3. ASSUME NEW o \in 1..N
      PROVE  /\ of(o) \in Oneof /\ of(o).self_ref = o
             /\ \A n : Has(of(o).fields, n) <=> n \in DOMAIN g /\ g[n].oneof = o
  <2> DEFINE S == {n \in DOMAIN g : g[n].oneof = o}
  <2>1. S \in SUBSET Nat /\ IsFiniteSet(S)
    BY <1>2, FS_Subset
  <2>2. FieldsOfOneof(item, g, o) = InOrder(S)
    BY DEF FieldsOfOneof
  <2>3. InOrder(S) \in Seq(Nat) /\ \A x : Has(InOrder(S), x) <=> x \in S
    <3> HIDE DEF S
    <3> QED BY <2>1, OrderedIs
  <2>4. of(o) \in Oneof
    BY <1>1, <2>2, <2>3 DEF Oneof
  <2> QED BY <2>2, <2>3, <2>4
<1> DEFINE os == [o \in DOMAIN item.oneofs |-> of(o)]
<1> HIDE DEF of, N
<1>4. os \in [1..N -> Oneof]
  BY <1>1, <1>3
<1>5. os \in Seq(Oneof)
  BY <1>1, <1>4
<1> QED BY <1>1, <1>3, <1>5 DEF of

LEMMA InnerBuilt ==
    ASSUME BuildInv, NEW i, Building(i)
    PROVE  LET item == Item(Data.idx_path)
               list == [k \in DOMAIN item.inner |-> RefOf(NameOf(Append(Data.idx_path, k)))]
           IN  /\ list \in Seq(TypeRef)
               /\ list = [k \in DOMAIN item.inner |->
                            LET e == cache.items[InnerNames(Data)[k]]
                            IN  [of |-> e.kind, ref |-> e.final_idx]]
<1> DEFINE item == Item(Data.idx_path)
           list == [k \in DOMAIN item.inner |-> RefOf(NameOf(Append(Data.idx_path, k)))]
           N == Len(item.inner)
<1>1. DOMAIN item.inner = 1..N /\ N \in Nat
  <2>1. item.inner \in Seq(Types)
    BY DataKnown DEF IsType
  <2> QED BY <2>1
<1>2. \A k \in DOMAIN item.inner : RefOf(NameOf(Append(Data.idx_path, k))) \in TypeRef
  BY ChildKnown
<1>3. list \in [1..N -> TypeRef]
  BY <1>1, <1>2
<1>4. list \in Seq(TypeRef)
  <2> HIDE DEF list, N
  <2> QED BY <1>1, <1>3
<1>5. \A k \in DOMAIN item.inner : InnerNames(Data)[k] = NameOf(Append(Data.idx_path, k))
  BY ChildKnown
<1>6. list = [k \in DOMAIN item.inner |->
                LET e == cache.items[InnerNames(Data)[k]]
                IN  [of |-> e.kind, ref |-> e.final_idx]]
  BY <1>5 DEF RefOf
<1> QED BY <1>4, <1>6

LEMMA MessageBuilt ==
    ASSUME BuildInv, NEW i, Building(i), TypeVerdict(Data) = "types",
           Item(Data.idx_path).kind = "Message"
    PROVE  TypeBuilt(BuiltMessage(Data), i)
<1> DEFINE p == Data.idx_path
           item == Item(p)
           list == [k \in DOMAIN item.inner |-> RefOf(NameOf(Append(p, k)))]
           g == BuiltFields(FieldsInOrder(item), Data.full_name)
           h == [s \in {g[n].name : n \in DOMAIN g} |-> Max({n \in DOMAIN g : g[n].name = s})]
           os == [o \in DOMAIN item.oneofs |->
                    [name |-> item.oneofs[o].name, self_ref |-> o,
                     fields |-> FieldsOfOneof(item, g, o)]]
           m == BuiltMessage(Data)
<1>1. /\ i \in Nat /\ Data = cache.types[i] /\ TypeCached(i) /\ IsType(item)
      /\ Data.full_name \in Names /\ Data.final_idx = i
      /\ Parents(p) = {ParentOf(p)} /\ ParentOf(p) \in TypeParent
  BY DataKnown
<1>2. item.kind = "Message" /\ item.name \in STRING
      /\ item.fields \in Seq(FieldDecl) /\ item.oneofs \in Seq(OneofDecl)
  BY <1>1 DEF IsType
<1>3. \A k \in DOMAIN FieldsInOrder(item) :
         FieldVerdictIn(FieldsInOrder(item)[k][1], Data.full_name) = "types"
  BY TypeVerdictIs
<1>4. /\ g \in Maps(Nat, MessageField) /\ IsFiniteSet(DOMAIN g)
      /\ \A n \in DOMAIN g :
           /\ g[n].number = n /\ g[n].oneof \in {NoOneof} \cup DOMAIN item.oneofs
           /\ g[n].type.of \in TypeKinds => CachedAs(g[n].type.of, g[n].type.ref)
  <2> HIDE DEF item
  <2> QED BY <1>1, <1>2, <1>3, FieldsBuilt
<1>5. /\ list \in Seq(TypeRef)
      /\ list = [k \in DOMAIN item.inner |->
                   LET e == cache.items[InnerNames(Data)[k]]
                   IN  [of |-> e.kind, ref |-> e.final_idx]]
  BY InnerBuilt
<1>6. (CHOOSE q \in Parents(p) : TRUE) = ParentOf(p)
  BY <1>1
<1>7. m = [kind |-> "Message", name |-> <<item.name>>, full_name |-> Data.full_name,
           parent |-> ParentOf(p), self_ref |-> i, inner_types |-> list,
           oneofs |-> os, fields |-> g, fields_by_name |-> h]
  BY <1>1, <1>5, <1>6 DEF BuiltMessage
<1> HIDE DEF g, list, m
<1>8. /\ h \in Maps(Names, Nat)
      /\ \A n \in DOMAIN g : g[n].name \in DOMAIN h
      /\ \A s \in DOMAIN h : h[s] \in DOMAIN g /\ g[h[s]].name = s
  BY <1>4, NamesIndexed
<1>9. /\ os \in Seq(Oneof) /\ DOMAIN os = DOMAIN item.oneofs
      /\ \A o \in DOMAIN os :
           /\ os[o].self_ref = o
           /\ \A n : Has(os[o].fields, n) <=> n \in DOMAIN g /\ g[n].oneof = o
  <2> HIDE DEF item
  <2> QED BY <1>2, <1>4, OneofsBuilt
<1>10. <<item.name>> \in Names
  <2>1. PICK s : s = item.name
    OBVIOUS
  <2>2. <<s>> \in Seq(STRING)
    BY <1>2, <2>1
  <2> QED BY <2>1, <2>2 DEF Names
<1> HIDE DEF h, os, item, p
<1>11. m \in TypeInfo
  BY <1>1, <1>4, <1>5, <1>7, <1>8, <1>9, <1>10 DEF TypeInfo, MessageInfo
<1>12. Members(m)
  <2>1. \A n \in DOMAIN m.fields :
           m.fields[n].number = n /\ m.fields[n].name \in DOMAIN m.fields_by_name
    BY <1>4, <1>7, <1>8
  <2>2. \A s \in DOMAIN m.fields_by_name :
           /\ m.fields_by_name[s] \in DOMAIN m.fields
           /\ m.kind = "Message" => m.fields[m.fields_by_name[s]].name = s
    BY <1>7, <1>8
  <2>3. \A o \in DOMAIN m.oneofs :
           /\ m.oneofs[o].self_ref = o
           /\ \A k \in DOMAIN m.oneofs[o].fields : m.oneofs[o].fields[k] \in DOMAIN m.fields
    <3>1. \A o \in DOMAIN os : \A k \in DOMAIN os[o].fields : os[o].fields[k] \in DOMAIN g
      BY <1>9 DEF Has
    <3> QED BY <1>7, <1>9, <3>1
  <2>4. \A n \in DOMAIN m.fields : m.fields[n].oneof # NoOneof =>
           /\ m.fields[n].oneof \in DOMAIN m.oneofs
           /\ \E k \in DOMAIN m.oneofs[m.fields[n].oneof].fields :
                   m.oneofs[m.fields[n].oneof].fields[k] = n
    <3> SUFFICES ASSUME NEW n \in DOMAIN g, g[n].oneof # NoOneof
                 PROVE  /\ g[n].oneof \in DOMAIN os
                        /\ \E k \in DOMAIN os[g[n].oneof].fields : os[g[n].oneof].fields[k] = n
      BY <1>7
    <3>1. PICK o : o = g[n].oneof
      OBVIOUS
    <3>2. o \in DOMAIN os
      BY <1>4, <1>9, <3>1
    <3>3. Has(os[o].fields, n)
      BY <1>9, <3>1, <3>2
    <3> QED BY <3>1, <3>2, <3>3 DEF Has
  <2> QED BY <2>1, <2>2, <2>3, <2>4 DEF Members
<1>13. Data.item_type = "Message"
  BY <1>1, <1>2 DEF TypeCached, item, p
<1>14. /\ m.kind = Data.item_type /\ m.name = <<Item(Data.idx_path).name>>
       /\ m.full_name = Data.full_name /\ m.self_ref = i /\ m.parent = ParentOf(Data.idx_path)
       /\ m.inner_types = [k \in DOMAIN Item(Data.idx_path).inner |->
                              RefOf(NameOf(Append(Data.idx_path, k)))]
  BY <1>7, <1>13 DEF item, p, list
<1>15. \A n \in DOMAIN m.fields :
          m.fields[n].type.of \in TypeKinds => CachedAs(m.fields[n].type.of, m.fields[n].type.ref)
  BY <1>4, <1>7
<1> HIDE DEF Members
<1>16. Data = cache.types[i]
  BY <1>1
<1> QED BY <1>11, <1>12, <1>14, <1>15, <1>16 DEF TypeBuilt, m

\* The last of several elements.
LEMMA LastOne ==
    ASSUME NEW S, NEW fs \in Seq(S), NEW B \in SUBSET DOMAIN fs, B # {}
    PROVE  \E k \in B : \A j \in B : j <= k
<1>1. DOMAIN fs = 1..Len(fs) /\ Len(fs) \in Nat
  OBVIOUS
<1>2. B \in SUBSET Nat /\ \A x \in B : x <= Len(fs)
  BY <1>1
<1> QED BY <1>1, <1>2, MaxIs

LEMMA EnumBuilt ==
    ASSUME BuildInv, NEW i, Building(i), Item(Data.idx_path).kind = "Enum"
    PROVE  TypeBuilt(BuiltEnum(Data), i)
<1> DEFINE p == Data.idx_path
           item == Item(p)
           fs == item.fields
           byNumber(n) == CHOOSE k \in DOMAIN fs :
                fs[k].number = n /\ \A j \in DOMAIN fs : fs[j].number = n => j <= k
           byName(s) == CHOOSE k \in DOMAIN fs :
                fs[k].name = s /\ \A j \in DOMAIN fs : fs[j].name = s => j <= k
           numbers == {fs[k].number : k \in DOMAIN fs}
           names == {fs[k].name : k \in DOMAIN fs}
           g == [n \in numbers |-> fs[byNumber(n)]]
           h == [s \in names |-> fs[byName(s)].number]
           m == BuiltEnum(Data)
<1>1. /\ i \in Nat /\ Data = cache.types[i] /\ TypeCached(i) /\ IsType(item)
      /\ Data.full_name \in Names /\ Data.final_idx = i
      /\ Parents(p) = {ParentOf(p)} /\ ParentOf(p) \in TypeParent
  BY DataKnown
<1>2. item.kind = "Enum" /\ item.name \in STRING /\ item.inner = <<>> /\ fs \in Seq(EnumField)
  BY <1>1 DEF IsType
<1>3. (CHOOSE q \in Parents(p) : TRUE) = ParentOf(p)
  BY <1>1
<1>4. m = [kind |-> "Enum", name |-> <<item.name>>, full_name |-> Data.full_name,
           parent |-> ParentOf(p), self_ref |-> i, inner_types |-> <<>>, oneofs |-> <<>>,
           fields |-> g, fields_by_name |-> h]
  BY <1>1, <1>3 DEF BuiltEnum
<1> HIDE DEF fs, m
<1>5. \A k \in DOMAIN fs : fs[k] \in EnumField /\ fs[k].number \in Nat /\ fs[k].name \in Names
  <2>1. \A k \in DOMAIN fs : fs[k] \in EnumField
    BY <1>2
  <2> QED BY <2>1 DEF EnumField
<1>6. ASSUME NEW n \in numbers PROVE byNumber(n) \in DOMAIN fs /\ fs[byNumber(n)].number = n
  <2> DEFINE B == {k \in DOMAIN fs : fs[k].number = n}
  <2>1. \E k \in B : \A j \in B : j <= k
    <3>1. B \in SUBSET DOMAIN fs /\ B # {}
      OBVIOUS
    <3> HIDE DEF B
    <3> QED BY <1>2, <3>1, LastOne
  <2> QED BY <2>1
<1>7. ASSUME NEW s \in names PROVE byName(s) \in DOMAIN fs /\ fs[byName(s)].name = s
  <2> DEFINE B == {k \in DOMAIN fs : fs[k].name = s}
  <2>1. \E k \in B : \A j \in B : j <= k
    <3>1. B \in SUBSET DOMAIN fs /\ B # {}
      OBVIOUS
    <3> HIDE DEF B
    <3> QED BY <1>2, <3>1, LastOne
  <2> QED BY <2>1
<1> HIDE DEF byNumber, byName
<1>8. g \in Maps(Nat, EnumField) /\ \A n \in DOMAIN g : g[n].number = n /\ g[n].name \in names
  <2>1. g \in [numbers -> EnumField] /\ numbers \subseteq Nat
    BY <1>5, <1>6
  <2>2. g \in Maps(Nat, EnumField)
    <3> HIDE DEF g, numbers
    <3> QED BY <2>1 DEF Maps
  <2> QED BY <1>6, <2>2
<1>9. h \in Maps(Names, Nat) /\ DOMAIN h = names /\ \A s \in names : h[s] \in DOMAIN g
  <2>1. h \in [names -> Nat] /\ names \subseteq Names
    BY <1>5, <1>7
  <2>2. h \in Maps(Names, Nat)
    <3> HIDE DEF h, names
    <3> QED BY <2>1 DEF Maps
  <2> QED BY <1>7, <2>2
<1>10. <<item.name>> \in Names
  <2>1. PICK s : s = item.name
    OBVIOUS
  <2>2. <<s>> \in Seq(STRING)
    BY <1>2, <2>1
  <2> QED BY <2>1, <2>2 DEF Names
<1>11. <<>> \in Seq(TypeRef)
  OBVIOUS
<1> HIDE DEF g, h, item, p
<1>12. m \in TypeInfo
  BY <1>1, <1>4, <1>8, <1>9, <1>10, <1>11 DEF TypeInfo, EnumInfo
<1>13. Members(m)
  <2>1. m.kind = "Enum" /\ m.oneofs = <<>> /\ DOMAIN m.oneofs = {}
    BY <1>4
  <2>2. m.fields = g /\ m.fields_by_name = h
    BY <1>4
  <2> QED BY <1>8, <1>9, <2>1, <2>2 DEF Members
<1>14. Data.item_type = "Enum"
  BY <1>1, <1>2 DEF TypeCached, item, p
<1>15. [k \in DOMAIN Item(Data.idx_path).inner |-> RefOf(NameOf(Append(Data.idx_path, k)))] = <<>>
  BY <1>2 DEF item, p
<1>16. /\ m.kind = Data.item_type /\ m.name = <<Item(Data.idx_path).name>>
       /\ m.full_name = Data.full_name /\ m.self_ref = i /\ m.parent = ParentOf(Data.idx_path)
       /\ m.inner_types = [k \in DOMAIN Item(Data.idx_path).inner |->
                              RefOf(NameOf(Append(Data.idx_path, k)))]
  BY <1>4, <1>14, <1>15 DEF item, p
<1>17. m.kind # "Message" /\ Data = cache.types[i]
  BY <1>1, <1>4
<1> HIDE DEF Members
<1> QED BY <1>12, <1>13, <1>16, <1>17 DEF TypeBuilt, m

LEMMA BuildTypeKeeps == BuildInv /\ BuildType => BuildInv'
<1> SUFFICES ASSUME BuildInv, BuildType PROVE BuildInv'
  OBVIOUS
<1> DEFINE i == Len(built.types) + 1
           t == IF Item(Data.idx_path).kind = "Message" THEN BuiltMessage(Data) ELSE BuiltEnum(Data)
<1>1. Building(i) /\ files' = files /\ agenda' = agenda /\ cache' = cache
  BY DEF BuildType, Building
<1>2. status' = TypeVerdict(Data) /\ status' \in {"types", "TypeNotFound", "unreachable"}
  BY <1>1, TypeVerdictIs DEF BuildType
<1>3. taken' = taken \cup {Data.idx_path} /\ Data = cache.types[i]
  BY DEF BuildType, Data
<1>4. /\ built.types \in Seq(TypeInfo) /\ built.services = <<>> /\ agenda = <<>>
      /\ built \in [types : Seq(TypeInfo), services : Seq(ServiceInfo)]
      /\ cache.types \in Seq(CacheDatum) /\ cache.services \in Seq(CacheDatum)
  BY <1>1 DEF BuildInv, BuildTyped, CacheType, Building, Progress, Populating
<1>5. CacheOK' /\ AgendaOK' /\ AllMet'
  BY <1>1, SameCache DEF BuildInv
<1>6. CASE status' # "types"
  <2>1. built' = built
    BY <1>6 DEF BuildType
  <2>2. BuildTyped' /\ BuiltOK'
    BY <1>1, <1>2, <2>1, SameCache DEF BuildInv, BuildTyped, BuiltOK
  <2>3. Progress'
    BY <1>1, <1>2, <1>4, <1>6, <2>1 DEF BuildInv, Progress, Populating
  <2> QED BY <1>5, <2>2, <2>3 DEF BuildInv
<1>7. CASE status' = "types"
  <2>1. built' = [built EXCEPT !.types = Append(built.types, t)]
    BY <1>7 DEF BuildType
  <2>2. TypeBuilt(t, i)
    <3>1. Item(Data.idx_path).kind \in TypeKinds
      BY <1>1, DataKnown DEF IsType
    <3> HIDE DEF i
    <3> QED BY <1>1, <1>2, <1>7, <3>1, MessageBuilt, EnumBuilt DEF TypeKinds
  <2> HIDE DEF t
  <2>3. t \in TypeInfo
    BY <2>2 DEF TypeBuilt
  <2>4. /\ built'.types = Append(built.types, t) /\ built'.services = <<>>
        /\ built' \in [types : Seq(TypeInfo), services : Seq(ServiceInfo)]
    <3>1. Append(built.types, t) \in Seq(TypeInfo)
      BY <1>4, <2>3
    <3>2. PICK ts : ts = Append(built.types, t)
      OBVIOUS
    <3> QED BY <1>4, <2>1, <3>1, <3>2
  <2>5. /\ DOMAIN built'.types = DOMAIN built.types \cup {i} /\ Len(built'.types) = i
        /\ built'.types[i] = t
        /\ \A k \in DOMAIN built.types : built'.types[k] = built.types[k]
    BY <1>4, <2>3, <2>4, AppendHas
  <2>6. BuildTyped'
    BY <1>1, <1>2, <2>4 DEF BuildInv, BuildTyped
  <2>7. BuiltOK'
    <3>1. ASSUME NEW k \in DOMAIN built'.types, NEW u, u = built'.types[k] PROVE TypeBuilt(u, k)'
      <4>1. TypeBuilt(u, k)
        BY <2>2, <2>5, <3>1 DEF BuildInv, BuiltOK
      <4> QED BY <1>1, <4>1, SameCache
    <3>2. (\A k \in DOMAIN built.types : TypeBuilt(built.types[k], k))'
      BY <3>1
    <3> QED BY <2>4, <3>2 DEF BuiltOK
  <2>8. Progress'
    <3>1. i \in Nat /\ i <= Len(cache.types) /\ Len(cache.services) \in Nat
      BY <1>1, <1>4 DEF Building
    <3>2. taken' \subseteq {cache.types[k].idx_path : k \in 1..i}
      <4>1. taken \subseteq {cache.types[k].idx_path : k \in 1..(i - 1)}
        BY <1>1, <1>4 DEF BuildInv, Progress, Building
      <4>2. \A k \in 1..(i - 1) : k \in 1..i
        BY <3>1
      <4>3. i \in 1..i
        BY <1>4
      <4> QED BY <1>3, <4>1, <4>2, <4>3
    <3> QED BY <1>1, <1>4, <1>7, <2>4, <2>5, <3>1, <3>2 DEF Progress, Populating
  <2> QED BY <1>5, <2>6, <2>7, <2>8 DEF BuildInv
<1> QED BY <1>6, <1>7

-----------------------------------------------------------------------------
(* Building a service *)

Serving(i) ==
    /\ status = "services" /\ Len(built.services) < Len(cache.services)
    /\ i = Len(built.services) + 1

LEMMA ServiceKnown ==
    ASSUME BuildInv, NEW i, Serving(i)
    PROVE  LET p == ServiceData.idx_path
           IN  /\ i \in DOMAIN cache.services /\ i \in Nat /\ ServiceData = cache.services[i]
               /\ ServiceCached(i) /\ IsService(Item(p)) /\ Known(p)
               /\ ServiceData.full_name \in Names /\ ServiceData.final_idx = i
               /\ p[1] \in Nat /\ Parents(p) = {[of |-> "Package", ref |-> p[1]]}
<1> DEFINE p == ServiceData.idx_path
<1>1. cache.services \in Seq(CacheDatum) /\ built.services \in Seq(ServiceInfo) /\ files \in Files
  BY DEF BuildInv, BuildTyped, CacheType
<1>2. i \in DOMAIN cache.services /\ i \in Nat
  BY <1>1 DEF Serving
<1>3. ServiceData = cache.services[i]
  BY DEF Serving, ServiceData
<1>4. ServiceCached(i)
  BY <1>2 DEF BuildInv, CacheOK
<1>5. /\ Known(p) /\ ServiceData.final_idx = i /\ ServiceData.full_name = NameOf(p)
      /\ Item(p).kind = "Service"
  BY <1>3, <1>4 DEF ServiceCached
<1>6. IsService(Item(p)) /\ NameOf(p) \in Names /\ Len(p) = 2
  <2>1. ASSUME IsType(Item(p)) PROVE FALSE
    BY <1>5, <2>1 DEF IsType, TypeKinds
  <2> QED BY <1>1, <1>5, <2>1, KnownItem, KnownNames
<1>7. p[1] \in Nat
  BY <1>5, <1>6 DEF Known
<1>8. Parents(p) = {[of |-> "Package", ref |-> p[1]]}
  BY <1>6 DEF Parents
<1> QED BY <1>2, <1>3, <1>4, <1>5, <1>6, <1>7, <1>8

LEMMA ArgsAre ==
    ASSUME NEW item, item.rpcs \in Seq(RpcDecl)
    PROVE  /\ ArgsOf(item) \in Seq(Names)
           /\ \A k \in DOMAIN item.rpcs :
                Has(ArgsOf(item), item.rpcs[k].input) /\ Has(ArgsOf(item), item.rpcs[k].output)
<1> DEFINE row(k) == <<item.rpcs[k].input, item.rpcs[k].output>>
           rows == [k \in DOMAIN item.rpcs |-> row(k)]
           N == Len(item.rpcs)
<1>1. DOMAIN item.rpcs = 1..N /\ N \in Nat
  OBVIOUS
<1>2. ASSUME NEW k \in 1..N
      PROVE  /\ row(k) \in Seq(Names)
             /\ Has(row(k), item.rpcs[k].input) /\ Has(row(k), item.rpcs[k].output)
  <2>1. item.rpcs[k] \in RpcDecl
    BY <1>1
  <2>2. item.rpcs[k].input \in Names /\ item.rpcs[k].output \in Names
    BY <2>1 DEF RpcDecl
  <2>3. row(k) \in Seq(Names) /\ 1 \in DOMAIN row(k) /\ 2 \in DOMAIN row(k)
    BY <2>2
  <2> QED BY <2>3 DEF Has
<1>3. ArgsOf(item) = FlattenSeq(rows)
  BY DEF ArgsOf
<1> HIDE DEF row
<1>4. rows \in Seq(Seq(Names)) /\ DOMAIN rows = 1..N
  <2>1. rows \in [1..N -> Seq(Names)]
    BY <1>1, <1>2
  <2> HIDE DEF rows, N
  <2> QED BY <1>1, <2>1
<1>5. \A k \in 1..N : rows[k] = row(k)
  BY <1>1
<1> HIDE DEF rows
<1>6. /\ FlattenSeq(rows) \in Seq(Names)
      /\ \A x : Has(FlattenSeq(rows), x) <=> \E j \in DOMAIN rows : Has(rows[j], x)
  BY <1>4, FlattenContents
<1>7. ASSUME NEW k \in 1..N
      PROVE  Has(ArgsOf(item), item.rpcs[k].input) /\ Has(ArgsOf(item), item.rpcs[k].output)
  <2>1. Has(rows[k], item.rpcs[k].input) /\ Has(rows[k], item.rpcs[k].output)
    BY <1>2, <1>5
  <2> QED BY <1>3, <1>4, <1>6, <2>1
<1> QED BY <1>1, <1>3, <1>6, <1>7

LEMMA ArgResolved ==
    ASSUME BuildInv, NEW rel, NEW scope \in Names, ArgVerdict(rel, scope) = "services"
    PROVE  ArgRef(rel, scope) \in Nat /\ CachedAs("Message", ArgRef(rel, scope))
<1> DEFINE n == CHOOSE n \in Found(rel, scope) : TRUE
<1>1. Found(rel, scope) # {} /\ \A m \in Found(rel, scope) : KindOf(m) = "Message"
  BY DEF ArgVerdict
<1>2. n \in Found(rel, scope) /\ KindOf(n) = "Message"
  BY <1>1
<1>3. ArgRef(rel, scope) = cache.items[n].final_idx
  BY DEF ArgRef
<1> HIDE DEF n
<1>4. n \in DOMAIN cache.items /\ NameCached(n)
  BY <1>2, FoundIs DEF BuildInv
<1> QED BY <1>2, <1>3, <1>4, KindIs

LEMMA ServiceVerdictIs ==
    ASSUME BuildInv, NEW i, Serving(i)
    PROVE  /\ ServiceVerdict(ServiceData) \in {"services", "TypeNotFound", "InvalidTypeKind"}
           /\ ServiceVerdict(ServiceData) = "services" =>
                LET rpcs == Item(ServiceData.idx_path).rpcs
                IN  \A k \in DOMAIN rpcs :
                       \A a \in {rpcs[k].input, rpcs[k].output} :
                          ArgVerdict(a, ServiceData.full_name) = "services"
<1> DEFINE item == Item(ServiceData.idx_path)
           args == ArgsOf(item)
           bad == {k \in DOMAIN args : ArgVerdict(args[k], ServiceData.full_name) # "services"}
<1>1. item.kind = "Service" /\ item.rpcs \in Seq(RpcDecl)
  BY ServiceKnown DEF IsService
<1>2. \E q \in Parents(ServiceData.idx_path) : q.of = "Package"
  <2>1. PICK q : q = [of |-> "Package", ref |-> ServiceData.idx_path[1]]
    OBVIOUS
  <2>2. q.of = "Package" /\ Parents(ServiceData.idx_path) = {q}
    BY <2>1, ServiceKnown
  <2> QED BY <2>2
<1>3. ServiceVerdict(ServiceData) =
         IF bad # {} THEN ArgVerdict(args[Min(bad)], ServiceData.full_name) ELSE "services"
  BY <1>1, <1>2 DEF ServiceVerdict
<1>4. \A a : ArgVerdict(a, ServiceData.full_name) \in {"services", "TypeNotFound", "InvalidTypeKind"}
  BY DEF ArgVerdict
<1>5. /\ args \in Seq(Names)
      /\ \A k \in DOMAIN item.rpcs : Has(args, item.rpcs[k].input) /\ Has(args, item.rpcs[k].output)
  <2> HIDE DEF item
  <2> QED BY <1>1, ArgsAre
<1>6. ASSUME ServiceVerdict(ServiceData) = "services"
      PROVE  \A a : Has(args, a) => ArgVerdict(a, ServiceData.full_name) = "services"
  <2>1. bad = {}
    <3> SUFFICES ASSUME bad # {} PROVE FALSE
      OBVIOUS
    <3>1. ArgVerdict(args[Min(bad)], ServiceData.full_name) = "services"
      BY <1>3, <1>6
    <3>2. bad \in SUBSET Nat
      <4> HIDE DEF args
      <4> QED BY <1>5
    <3>3. Min(bad) \in bad
      <4> HIDE DEF bad
      <4> QED BY <3>2, MinIs
    <3> QED BY <3>1, <3>3
  <2> HIDE DEF args
  <2> QED BY <2>1 DEF Has
<1> HIDE DEF bad, args
<1>7. ServiceVerdict(ServiceData) \in {"services", "TypeNotFound", "InvalidTypeKind"}
  BY <1>3, <1>4
<1> QED BY <1>5, <1>6, <1>7

LEMMA ServiceIsBuilt ==
    ASSUME BuildInv, NEW i, Serving(i), ServiceVerdict(ServiceData) = "services"
    PROVE  ServiceBuilt(BuiltService(ServiceData), i)
<1> DEFINE p == ServiceData.idx_path
           item == Item(p)
           rpcs == item.rpcs
           scope == ServiceData.full_name
           rpc(k) == [name |-> rpcs[k].name, input |-> ArgRef(rpcs[k].input, scope),
                      output |-> ArgRef(rpcs[k].output, scope)]
           names == {rpcs[k].name : k \in DOMAIN rpcs}
           list == [k \in DOMAIN rpcs |-> rpc(k)]
           index == [n \in names |-> Max({k \in DOMAIN rpcs : rpcs[k].name = n})]
           s == BuiltService(ServiceData)
           N == Len(rpcs)
<1>1. /\ i \in Nat /\ ServiceData = cache.services[i] /\ IsService(item)
      /\ scope \in Names /\ ServiceData.final_idx = i /\ p[1] \in Nat
  BY ServiceKnown
<1>2. rpcs \in Seq(RpcDecl) /\ item.name \in STRING
  BY <1>1 DEF IsService
<1>3. s = [name |-> <<item.name>>, full_name |-> scope, self_ref |-> i, parent |-> p[1],
           rpcs |-> list, rpcs_by_name |-> index]
  BY <1>1 DEF BuiltService
<1>4. \A k \in DOMAIN rpcs : \A a \in {rpcs[k].input, rpcs[k].output} :
         ArgVerdict(a, scope) = "services"
  BY ServiceVerdictIs
<1> HIDE DEF rpcs, s, scope
<1>5. DOMAIN rpcs = 1..N /\ N \in Nat /\ \A k \in 1..N : rpcs[k].name \in Names
  <2>1. DOMAIN rpcs = 1..N /\ N \in Nat /\ \A k \in 1..N : rpcs[k] \in RpcDecl
    BY <1>2
  <2> QED BY <2>1 DEF RpcDecl
<1>6. ASSUME NEW k \in 1..N
      PROVE  /\ ArgRef(rpcs[k].input, scope) \in Nat /\ ArgRef(rpcs[k].output, scope) \in Nat
             /\ CachedAs("Message", ArgRef(rpcs[k].input, scope))
             /\ CachedAs("Message", ArgRef(rpcs[k].output, scope))
  <2>1. ArgVerdict(rpcs[k].input, scope) = "services" /\ ArgVerdict(rpcs[k].output, scope) = "services"
    BY <1>4, <1>5
  <2> QED BY <1>1, <2>1, ArgResolved
<1>7. list \in Seq(RpcInfo)
  <2>1. \A k \in 1..N : rpc(k) \in RpcInfo
    BY <1>5, <1>6 DEF RpcInfo
  <2> HIDE DEF rpc, N
  <2>2. list \in [1..N -> RpcInfo]
    BY <1>5, <2>1
  <2> HIDE DEF list
  <2> QED BY <1>5, <2>2
<1>8. ASSUME NEW n \in names
      PROVE  index[n] \in DOMAIN rpcs /\ rpcs[index[n]].name = n
  <2> DEFINE B == {k \in DOMAIN rpcs : rpcs[k].name = n}
  <2>1. B \in SUBSET Nat /\ B # {} /\ \A x \in B : x <= N
    <3> HIDE DEF N
    <3> QED BY <1>5
  <2>2. Max(B) \in B
    <3> HIDE DEF B, N
    <3> QED BY <1>5, <2>1, MaxIs
  <2> QED BY <2>2
<1>9. index \in Maps(Names, Nat) /\ DOMAIN index = names
  <2>1. index \in [names -> Nat] /\ names \subseteq Names
    <3>1. names \subseteq Names /\ \A n \in names : index[n] \in Nat
      <4> HIDE DEF N, index
      <4> QED BY <1>5, <1>8
    <3> QED BY <3>1
  <2> HIDE DEF index, names
  <2> QED BY <2>1 DEF Maps
<1>10. <<item.name>> \in Names
  <2>1. PICK x : x = item.name
    OBVIOUS
  <2>2. <<x>> \in Seq(STRING)
    BY <1>2, <2>1
  <2> QED BY <2>1, <2>2 DEF Names
<1>11. \A k \in DOMAIN rpcs : k \in DOMAIN list /\ list[k] = rpc(k) /\ list[k].name = rpcs[k].name
  OBVIOUS
<1>12. DOMAIN list = DOMAIN rpcs
  OBVIOUS
<1>13. \A k \in DOMAIN list : /\ CachedAs("Message", list[k].input)
                              /\ CachedAs("Message", list[k].output)
  BY <1>5, <1>6
<1> HIDE DEF list, index, item, p
<1>14. s \in ServiceInfo
  BY <1>1, <1>3, <1>7, <1>9, <1>10 DEF ServiceInfo
<1>15. s.rpcs = list /\ s.rpcs_by_name = index
  BY <1>3
<1>16. Rpcs(s)
  <2>1. DOMAIN index = {list[k].name : k \in DOMAIN list}
    BY <1>9, <1>11, <1>12
  <2>2. \A n \in DOMAIN index : index[n] \in DOMAIN list /\ list[index[n]].name = n
    BY <1>8, <1>9, <1>11, <1>12
  <2> QED BY <1>15, <2>1, <2>2 DEF Rpcs
<1>17. /\ s.name = <<Item(ServiceData.idx_path).name>> /\ s.full_name = ServiceData.full_name
       /\ s.self_ref = i /\ s.parent = ServiceData.idx_path[1]
  BY <1>3 DEF item, p, scope
<1> HIDE DEF Rpcs, names
<1> QED BY <1>1, <1>13, <1>14, <1>15, <1>16, <1>17 DEF ServiceBuilt, s

LEMMA BuildServiceKeeps == BuildInv /\ BuildService => BuildInv'
<1> SUFFICES ASSUME BuildInv, BuildService PROVE BuildInv'
  OBVIOUS
<1> DEFINE i == Len(built.services) + 1
           s == BuiltService(ServiceData)
<1>1. Serving(i) /\ files' = files /\ agenda' = agenda /\ cache' = cache
  BY DEF BuildService, Serving
<1>2. /\ status' = ServiceVerdict(ServiceData)
      /\ status' \in {"services", "TypeNotFound", "InvalidTypeKind"}
  BY <1>1, ServiceVerdictIs DEF BuildService
<1>4. /\ built.services \in Seq(ServiceInfo) /\ agenda = <<>>
      /\ built \in [types : Seq(TypeInfo), services : Seq(ServiceInfo)]
      /\ cache.types \in Seq(CacheDatum) /\ cache.services \in Seq(CacheDatum)
  BY <1>1 DEF BuildInv, BuildTyped, CacheType, Serving, Progress, Populating
<1>5. CacheOK' /\ AgendaOK' /\ AllMet'
  BY <1>1, SameCache DEF BuildInv
<1>6. CASE status' # "services"
  <2>1. built' = built
    BY <1>6 DEF BuildService
  <2>2. BuildTyped' /\ BuiltOK'
    BY <1>1, <1>2, <2>1, SameCache DEF BuildInv, BuildTyped, BuiltOK
  <2>3. Progress'
    BY <1>1, <1>2, <1>4, <1>6, <2>1 DEF BuildInv, Progress, Populating
  <2> QED BY <1>5, <2>2, <2>3 DEF BuildInv
<1>7. CASE status' = "services"
  <2>1. built' = [built EXCEPT !.services = Append(built.services, s)]
    BY <1>7 DEF BuildService
  <2>2. ServiceBuilt(s, i)
    <3> HIDE DEF i
    <3> QED BY <1>1, <1>2, <1>7, ServiceIsBuilt
  <2> HIDE DEF s
  <2>3. s \in ServiceInfo
    BY <2>2 DEF ServiceBuilt
  <2>4. /\ built'.services = Append(built.services, s) /\ built'.types = built.types
        /\ built' \in [types : Seq(TypeInfo), services : Seq(ServiceInfo)]
    <3>1. Append(built.services, s) \in Seq(ServiceInfo)
      BY <1>4, <2>3
    <3>2. PICK ss : ss = Append(built.services, s)
      OBVIOUS
    <3> QED BY <1>4, <2>1, <3>1, <3>2
  <2>5. /\ DOMAIN built'.services = DOMAIN built.services \cup {i} /\ Len(built'.services) = i
        /\ built'.services[i] = s
        /\ \A k \in DOMAIN built.services : built'.services[k] = built.services[k]
    BY <1>4, <2>3, <2>4, AppendHas
  <2>6. BuildTyped'
    BY <1>1, <1>2, <2>4 DEF BuildInv, BuildTyped
  <2>7. BuiltOK'
    <3>1. ASSUME NEW k \in DOMAIN built'.services, NEW u, u = built'.services[k]
          PROVE  ServiceBuilt(u, k)'
      <4>1. ServiceBuilt(u, k)
        BY <2>2, <2>5, <3>1 DEF BuildInv, BuiltOK
      <4> QED BY <1>1, <4>1, SameCache
    <3>2. (\A k \in DOMAIN built.services : ServiceBuilt(built.services[k], k))'
      BY <3>1
    <3>3. (\A k \in DOMAIN built.types : TypeBuilt(built.types[k], k))'
      BY <1>1, <2>4, SameCache DEF BuildInv, BuiltOK
    <3> QED BY <3>2, <3>3 DEF BuiltOK
  <2>8. Progress'
    <3>1. i \in Nat /\ i <= Len(cache.services)
      BY <1>1, <1>4 DEF Serving
    <3>2. Len(built.types) = Len(cache.types) /\ Len(cache.types) \in Nat /\ status = "services"
      BY <1>1, <1>4 DEF Serving, BuildInv, Progress
    <3> QED BY <1>1, <1>4, <1>7, <2>4, <2>5, <3>1, <3>2 DEF Progress, Populating
  <2> QED BY <1>5, <2>6, <2>7, <2>8 DEF BuildInv
<1> QED BY <1>6, <1>7

-----------------------------------------------------------------------------
(* Every step keeps the invariant *)

LEMMA SameBuild == BuildInv /\ UNCHANGED buildVars => BuildInv'
<1> SUFFICES ASSUME BuildInv, UNCHANGED buildVars PROVE BuildInv'
  OBVIOUS
<1>1. UNCHANGED <<files, status, agenda, cache, taken, built>>
  BY DEF buildVars
<1>2. CacheOK' /\ AgendaOK' /\ AllMet'
  BY <1>1, SameCache DEF BuildInv
<1>3. BuildTyped' /\ Progress' /\ BuiltOK'
  BY <1>1, SameCache DEF BuildInv, BuildTyped, Progress, Populating, BuiltOK
<1> QED BY <1>2, <1>3 DEF BuildInv

LEMMA BuildStepKeeps == BuildInv /\ BuildNext => BuildInv'
BY PopulateMessageKeeps, PopulateEnumKeeps, PopulateServiceKeeps, DuplicateKeeps, PopulatedKeeps,
   BuildTypeKeeps, TypesBuiltKeeps, BuildServiceKeeps, FinishKeeps DEF BuildNext
=============================================================================
