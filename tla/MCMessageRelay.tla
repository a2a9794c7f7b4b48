--------------------------- MODULE MCMessageRelay ---------------------------
(***************************************************************************)
(* Small instances of MessageRelay: two users, a stranger, and two texts   *)
(* the database takes for the same, hi and longhi, which is hi with too    *)
(* many blanks at its end.                                                 *)
(***************************************************************************)
EXTENDS MessageRelay, TLC

CONSTANTS alice, bob, carol, hi, longhi, yo

MCUsers == {alice, bob}
MCFold  == [t \in Texts |-> IF t = longhi THEN hi ELSE t]
MCSame  == [u \in MCUsers |-> 0]
MCAhead == (alice :> 1) @@ MCSame

MCSymmetry == Permutations(MCUsers)
=============================================================================
