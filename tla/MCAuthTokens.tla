---------------------------- MODULE MCAuthTokens ----------------------------
(* Small instances of AuthTokens.                                             *)
EXTENDS AuthTokens, TLC

CONSTANTS u1, g1, r1, r2, j1, j2, j3

MCSymmetry == Permutations({r1, r2}) \cup Permutations({j1, j2, j3})
=============================================================================
