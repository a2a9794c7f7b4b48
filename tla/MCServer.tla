----------------------------- MODULE MCServer -----------------------------
(* Small instances of Server.                                              *)
EXTENDS Server, TLC

CONSTANTS c1, c2, c3

MCOne == {c1}
MCTwo == {c1, c2}
MCThree == {c1, c2, c3}

MCSymmetry == Permutations(MCTwo)
=============================================================================
