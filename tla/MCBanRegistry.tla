---------------------------- MODULE MCBanRegistry ---------------------------
(* Small instances of BanRegistry.                                            *)
EXTENDS BanRegistry, TLC

CONSTANTS u1, u2, r1, r2, b1, b2

MCSymmetry == Permutations({u1, u2}) \cup Permutations({b1, b2})
=============================================================================
