----------------------------- MODULE Lifecycle -----------------------------
(***************************************************************************)
(* The life of a context: it is parsed from files (from none, for the      *)
(* empty context of Context::new) and then changed by hand.                *)
(***************************************************************************)
EXTENDS Registry, Build

CONSTANT Edited    \* the inputs whose context the client goes on to change

vars == <<ctx, draft, files, status, agenda, cache, taken, built>>

Init ==
    /\ BuildInit
    /\ ctx = EmptyContext
    /\ draft = <<>>

Parse == BuildNext /\ UNCHANGED draft

Change ==
    /\ status = "ready" /\ files \in Edited
    /\ RegistryNext
    /\ UNCHANGED buildVars

Next == Parse \/ Change

Spec == Init /\ [][Next]_vars

-----------------------------------------------------------------------------
(* Properties *)

\* Type invariant.
TypeOK ==
    /\ ContextOK
    /\ Len(draft) <= 1 /\ \A i \in DOMAIN draft : TypeInfoOK(draft[i])
    /\ status \in {"populate", "types", "services", "ready", "DuplicateType",
                   "TypeNotFound", "InvalidTypeKind", "unreachable", "panic"}
    /\ \A i \in DOMAIN built.types : TypeInfoOK(built.types[i])
    /\ \A i \in DOMAIN cache.types : cache.types[i].final_idx \in 1..Len(cache.types)

\* The handles of the types that were parsed denote types of their kinds, whatever
\* the client inserts later and whatever handles it uses: no call moves a type, and
\* decode finds the types of a parsed message (resolve_message, resolve_enum).
ParsedHandlesResolve ==
    status = "ready" =>
        \A i \in DOMAIN built.types : ctx.types[i].kind = "Message" =>
            \A n \in DOMAIN ctx.types[i].fields : TypeResolves(ctx.types[i].fields[n].type)

-----------------------------------------------------------------------------
(* A context made by hand like another one.  As with the calls, each result is *)
(* a set, which is empty if one of the calls that lead to it is refused.       *)

\* A type like t: new, then its oneofs, then its fields by number.
OneofsRedrafted(t) ==
    LET made[n \in 0..Len(t.oneofs)] ==
            IF n = 0 THEN {NewType(t.kind, t.name, t.parent)}
            ELSE UNION {add_oneof(d, [t.oneofs[n] EXCEPT !.fields = <<>>]) : d \in made[n - 1]}
    IN  made[Len(t.oneofs)]

Redrafted(t) ==
    LET numbers == InOrder(DOMAIN t.fields)
        made[n \in 0..Len(numbers)] ==
            IF n = 0 THEN OneofsRedrafted(t)
            ELSE UNION {add_field(d, t.fields[numbers[n]]) : d \in made[n - 1]}
    IN  made[Len(numbers)]

\* The packages of c, then its types.
PackagesRebuilt(c) ==
    LET made[n \in 0..Len(c.packages)] ==
            IF n = 0 THEN {EmptyContext}
            ELSE UNION {insert_package(b, NewPackage(c.packages[n].name)) : b \in made[n - 1]}
    IN  made[Len(c.packages)]

\* The contexts in which a client of c alone has the handles it needs to draft t:
\* that of its parent, and for each field one that was given out, or an early one.
CanDraft(c, t) ==
    /\ t.parent \in Owners(c)
    /\ t.kind = "Message" => \A n \in DOMAIN t.fields :
          t.fields[n].type \in TypeRef => t.fields[n].type \in Given(c) \cup Early

TypeRebuilt(c, t) ==
    IF CanDraft(c, t) THEN UNION {insert_type(c, d) : d \in Redrafted(t)} ELSE {}

Rebuilt(c) ==
    LET made[n \in 0..Len(c.types)] ==
            IF n = 0 THEN PackagesRebuilt(c)
            ELSE UNION {TypeRebuilt(b, c.types[n]) : b \in made[n - 1]}
    IN  made[Len(c.types)]

\* No two members of a type compete for a name or a number.
Conflictless(item) ==
    \/ item.kind = "Service"
    \/ LET fs == IF item.kind = "Enum" THEN item.fields
                 ELSE [k \in DOMAIN FieldsInOrder(item) |-> FieldsInOrder(item)[k][1]]
       IN  /\ \A j, k \in DOMAIN fs :
                 fs[j].number = fs[k].number \/ fs[j].name = fs[k].name => j = k
           /\ item.kind = "Message" => \A j, k \in DOMAIN item.oneofs :
                 item.oneofs[j].name = item.oneofs[k].name => j = k

\* No field has the type of a message or enum that is not there before it: those of
\* an earlier type, or of the first one of all, whose handle is the early one.
BackwardOnly(c) ==
    \A i \in DOMAIN c.types : c.types[i].kind = "Message" =>
        \A n \in DOMAIN c.types[i].fields : c.types[i].fields[n].type \in TypeRef =>
            c.types[i].fields[n].type.ref < i \/ c.types[i].fields[n].type.ref = FirstRef

\* tests/create.rs and tests/parse.rs, for every input that a client can follow with
\* one call for each declaration, in the order in which build numbers the types: the
\* files are of different packages, have no services, no conflicts among the members
\* of a type and no reference to a later type.  Then each of the calls of the client
\* succeeds, and the context it makes equals the one that was parsed.
HandBuiltEqualsParsed ==
    (/\ status = "ready"
     /\ ctx.types = built.types /\ Len(ctx.packages) = Len(files)
     /\ \A p, q \in DOMAIN files : files[p].name = files[q].name => p = q
     /\ ctx.services = <<>> /\ \A d \in Declared : Conflictless(Item(d.idx))
     /\ BackwardOnly(ctx))
        => Rebuilt(ctx) = {ctx}
=============================================================================
