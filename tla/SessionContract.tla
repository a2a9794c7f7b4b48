-------------------------- MODULE SessionContract --------------------------
(***************************************************************************)
(* What one connection promises, without its threads and messages: a       *)
(* connection is named once, goes forward only after the password of the   *)
(* account it is named for has been typed, opens after that, and ends.     *)
(***************************************************************************)
CONSTANTS
    Names,      \* the names a user can give
    Passwords,  \* the passwords a user can type
    account,    \* the password of each name, if it has one
    NoName      \* the name of a connection nobody has named

VARIABLES
    phase,      \* how far the connection is
    owner,      \* the name it is for
    typed       \* the passwords its user has typed

vars == <<phase, owner, typed>>

Phases == {"connecting", "proven", "open", "closed"}

Init == phase = "connecting" /\ owner = NoName /\ typed = {}

\* The user types a password.
Type(p) == typed' = typed \cup {p} /\ UNCHANGED <<phase, owner>>

\* The connection gets its name, and may break at once.
Name(u) ==
    /\ phase = "connecting" /\ owner = NoName
    /\ owner' = u
    /\ phase' \in {"connecting", "closed"}
    /\ UNCHANGED typed

Prove ==
    /\ phase = "connecting"
    /\ owner \in Names /\ account[owner] \in typed
    /\ phase' = "proven"
    /\ UNCHANGED <<owner, typed>>

Open ==
    /\ phase = "proven"
    /\ phase' = "open"
    /\ UNCHANGED <<owner, typed>>

End ==
    /\ phase # "closed"
    /\ phase' = "closed"
    /\ UNCHANGED <<owner, typed>>

Next ==
    \/ \E p \in Passwords : Type(p)
    \/ \E u \in Names : Name(u)
    \/ Prove \/ Open \/ End

Spec == Init /\ [][Next]_vars
=============================================================================
