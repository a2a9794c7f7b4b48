--------------------------- MODULE MCChatSession ---------------------------
(***************************************************************************)
(* Small instances of ChatSession: an account, a name without one, a name  *)
(* that breaks the pattern and one that is too long.                       *)
(***************************************************************************)
EXTENDS ChatSession, TLC

CONSTANTS alice, bob, badname, longname, pw, wrong

MCNames      == {alice, bob, badname, longname}
MCWellFormed == {alice, bob, longname}
MCOverlong   == {longname}
MCPasswords  == {pw, wrong}
MCAccount    == (alice :> pw) @@ [n \in MCNames |-> NoPass]
=============================================================================
