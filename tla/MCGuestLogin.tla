---------------------------- MODULE MCGuestLogin ----------------------------
(* Small instances of GuestLogin.                                             *)
EXTENDS GuestLogin

CONSTANTS i1, n1, n2, g1, g2, g3, r1, r2
=============================================================================
