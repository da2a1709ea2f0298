------------------------ MODULE MCOAuthRegistration -------------------------
(* Small instances of OAuthRegistration.                                      *)
EXTENDS OAuthRegistration, TLC

CONSTANTS g1, a1, e1, e2, n1, n2, u1, u2, u3, r1, r2

\* The second identity hides its address.
MCEmailOf == [i \in Identities |-> IF i = a1 THEN NoEmail ELSE e1]

MCSymmetry == Permutations(UserIds) \cup Permutations(Reqs)
                \cup Permutations(Names)
=============================================================================
