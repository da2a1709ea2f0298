-------------------------- MODULE MCAccountCleanup --------------------------
(* Small instances of AccountCleanup.                                         *)
EXTENDS AccountCleanup

CONSTANTS g1, u1, u2
=============================================================================
