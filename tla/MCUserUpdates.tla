---------------------------- MODULE MCUserUpdates ---------------------------
(* A small instance of UserUpdates.                                           *)
EXTENDS UserUpdates

CONSTANTS u1, u2, root, n1, mail, administrator, regular, r1, r2

MCRoleSets == {{regular}, {administrator, regular}}

MCAdminRoles == {administrator, regular}
=============================================================================
