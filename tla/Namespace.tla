------------------------------ MODULE Namespace ------------------------------
(***************************************************************************)
(* What a context promises about names, without vectors and handles: a     *)
(* full name that has been given to a type keeps denoting that type, and   *)
(* each new type hangs below a package or below a message that was there   *)
(* before it.                                                              *)
(***************************************************************************)
VARIABLE entries    \* full name -> [kind, owner]

NoOwner == <<>>     \* no full name is empty

TypeOf(kind, owner) == [kind |-> kind, owner |-> owner]

\* Each owner is a message.
Rooted(e) ==
    \A n \in DOMAIN e : e[n].owner # NoOwner =>
        e[n].owner \in DOMAIN e /\ e[e[n].owner].kind = "Message"

NSInit == \A n \in DOMAIN entries : FALSE

\* A whole set of files is parsed into an empty context.
Load == (\A n \in DOMAIN entries : FALSE) /\ Rooted(entries')

\* One type is inserted.
Insert ==
    \E n \in DOMAIN entries' \ DOMAIN entries :
        /\ DOMAIN entries' = DOMAIN entries \cup {n}
        /\ \A m \in DOMAIN entries : entries'[m] = entries[m]
        /\ entries'[n].owner # NoOwner =>
                /\ entries'[n].owner \in DOMAIN entries
                /\ entries[entries'[n].owner].kind = "Message"

NSNext == Load \/ Insert

NSSpec == NSInit /\ [][NSNext]_entries
=============================================================================
