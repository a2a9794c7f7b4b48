----------------------------- MODULE MCComposer -----------------------------
(* Small instances of Composer.                                            *)
EXTENDS Composer

CONSTANTS bob, carol, bad, long
=============================================================================
