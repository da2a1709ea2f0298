--------------------------- MODULE MCAccessTokens ---------------------------
(* A small instance of AccessTokens.  No symmetry: a liveness property is     *)
(* checked.  The identifiers of tokens are interchangeable all the same, so   *)
(* only the behaviours in which j1 is issued before j2 are explored.          *)
EXTENDS AccessTokens

CONSTANTS u1, g1, r1, r2, j1, j2

MCRoleSets == {{"GUEST"}, {"REGULAR", "MODERATOR"}}

MCWantedSets == {{"PROFILE_DISABLE_SELF", "BANS_CREATE"}}

\* The account starts as a moderator; ChangeRoles demotes it later.
MCInit == AccessInit /\ roles[u1] = {"REGULAR", "MODERATOR"}

MCInOrder == tokens'[j1].state = "unused" => tokens'[j2].state = "unused"

MCSpec == /\ MCInit
          /\ [][AccessNext]_avars
          /\ \A r \in Reqs : WF_avars(AccessStep(r))
=============================================================================
