---------------------------- MODULE AccessTokens ----------------------------
(* Access tokens beside the refresh tokens of AuthTokens: every issuing       *)
(* request also mints a JWT that carries scopes, computed from the session's  *)
(* copy of the user's roles.  Nobody looks an access token up afterwards, so  *)
(* roles changed later take effect when it expires.                           *)
(*                                                                            *)
(* A step is a step of AuthTokens together with what it does to the roles and *)
(* scopes; ChangeRoles is the only step of this module's own.                 *)
EXTENDS AuthTokens

CONSTANTS RoleSets,    \* values of the roles column that occur
          WantedSets,  \* sets of scopes a /login form asks for
          AccessLife   \* access_token_expire_minutes, in ticks

VARIABLES roles,     \* the roles column of the users table
          ses,       \* per request: its copy of roles, scopes asked for, mint
          access,    \* the access token a client received with a refresh token
          held,      \* history: roles a request's user had since it began
          lost,      \* history: tokens whose refresh died or failed half-way
          entitled   \* history: users who ever possessed DISABLE_SELF

avars == <<vars, roles, ses, access, held, lost, entitled>>

-----------------------------------------------------------------------------
(* Roles and scopes.                                                          *)

OAUTH_SCOPES ==
    {"PROFILE_READ_SELF", "PROFILE_UPDATE_SELF", "PROFILE_DELETE_SELF",
     "PROFILE_DISABLE_SELF", "USERS_CREATE", "USERS_LIST", "USERS_READ_ANY",
     "USERS_UPDATE_ANY", "USERS_DELETE_ANY", "BANS_CREATE",
     "BANS_READ_HISTORY_ANY", "BANS_DEACTIVATE", "WEBSOCKETS_CONNECT",
     "USER_DATA_EXPORT_SELF", "SOME_PREMIUM_FEATURE", "SOME_CONTENT_ADMIN_FEATURE"}

UserRoles == {"REGULAR", "PREMIUM", "GUEST", "MODERATOR", "CONTENT_ADMIN",
              "ADMINISTRATOR"}

ASSUME RolesAssumption ==
    /\ RoleSets \subseteq SUBSET UserRoles
    /\ {"GUEST"} \in RoleSets
    /\ AccessLife \in Nat

GUEST_USER_SCOPES ==
    {"PROFILE_READ_SELF", "WEBSOCKETS_CONNECT", "USER_DATA_EXPORT_SELF"}

REGULAR_USER_SCOPES ==
    GUEST_USER_SCOPES \cup
    {"PROFILE_UPDATE_SELF", "PROFILE_DELETE_SELF", "PROFILE_DISABLE_SELF"}

\* ROLE_SCOPES_MAPPING.
ScopesOf(role) ==
    CASE role = "ADMINISTRATOR" -> OAUTH_SCOPES
      [] role = "GUEST"         -> GUEST_USER_SCOPES
      [] role = "PREMIUM"       -> REGULAR_USER_SCOPES \cup {"SOME_PREMIUM_FEATURE"}
      [] role = "CONTENT_ADMIN" -> REGULAR_USER_SCOPES \cup {"SOME_CONTENT_ADMIN_FEATURE"}
      [] role = "MODERATOR"     -> REGULAR_USER_SCOPES \cup
           {"USERS_LIST", "USERS_READ_ANY", "BANS_CREATE", "BANS_READ_HISTORY_ANY",
            "BANS_DEACTIVATE"}
      [] OTHER                  -> REGULAR_USER_SCOPES

\* get_scopes_for_role_strings.
Possessed(R) == UNION {ScopesOf(role) : role \in R}

\* A mutant: scopes asked for are not compared with those possessed.
GrantableAlways(R, wants) == TRUE

\* _get_granted_scopes refuses a request for a scope the user lacks ...
Grantable(R, wants) ==
    \/ "ADMINISTRATOR" \in R
    \/ wants \subseteq Possessed(R)

\* ... and otherwise grants what was asked for, or everything possessed.
Granted(R, wants) == OAUTH_SCOPES \cap (IF wants = {} THEN Possessed(R) ELSE wants)

-----------------------------------------------------------------------------
(* Access tokens.                                                             *)

AccessToken == [scopes : SUBSET OAUTH_SCOPES, exp : Nat]

NoAccess == [scopes |-> {}, exp |-> 0]

Session == [roles : RoleSets \cup {{}}, wants : WantedSets \cup {{}}, mint : AccessToken]

NoSession == [roles |-> {}, wants |-> {}, mint |-> NoAccess]

\* A mutant: the scopes of the token are not compared with those required.
AuthorisedAnyScope(u, required) ==
    \E j \in delivered : tokens[j].user = u /\ clock < access[j].exp

\* validate_token: a client of u holds an unexpired access token with all the
\* required scopes.  Neither the database nor the user's status is consulted.
Authorised(u, required) ==
    \E j \in delivered : /\ tokens[j].user = u
                         /\ clock < access[j].exp
                         /\ required \subseteq access[j].scopes

-----------------------------------------------------------------------------
AccessInit ==
    /\ Init
    /\ roles \in [Users -> RoleSets]
    /\ \A u \in Guests : roles[u] = {"GUEST"}
    /\ ses = [r \in Reqs |-> NoSession]
    /\ access = [j \in Jtis |-> NoAccess]
    /\ held = [r \in Reqs |-> {}]
    /\ lost = {}
    /\ entitled = {u \in Users : "PROFILE_DISABLE_SELF" \in Possessed(roles[u])}

\* History: as Observe, for the roles of each request's user.
ObserveRoles ==
    /\ held' = [r \in Reqs |->
                  IF req'[r].pc = "idle" THEN {}
                  ELSE IF req[r].pc = "idle" THEN {roles'[req'[r].user]}
                  ELSE held[r] \cup {roles'[req'[r].user]}]
    /\ entitled' = entitled \cup
         {u \in Users : "PROFILE_DISABLE_SELF" \in Possessed(roles'[u])}

\* Only the /login form asks for scopes; a self-disable needs an access token.
AccessBegin(r) ==
    /\ Begin(r)
    /\ req'[r].op = "disable" => Authorised(req'[r].user, {"PROFILE_DISABLE_SELF"})
    /\ \E wants \in IF req'[r].op = "login" THEN WantedSets ELSE {{}} :
          ses' = [ses EXCEPT ![r].wants = wants]
    /\ UNCHANGED <<roles, access, lost>>
    /\ ObserveRoles

\* The copy of the row brings the copy of its roles.
CopyOfRoles(r) ==
    IF req[r].pc \in {"user", "reload"} THEN roles[req[r].user] ELSE ses[r].roles

\* A request that reaches "issue" has its scopes granted and its access token
\* minted from the copy (create_access_token), or has been refused.
AccessStep(r) ==
    LET R     == CopyOfRoles(r)
        wants == ses[r].wants
        mint  == IF req'[r].pc = "issue"
                 THEN [scopes |-> Granted(R, wants), exp |-> clock + AccessLife]
                 ELSE ses[r].mint
    IN  /\ Step(r)
        /\ req'[r].pc = "issue" => Grantable(R, wants)
        /\ ses' = [ses EXCEPT ![r] =
                     IF req'[r].pc = "idle" THEN NoSession
                     ELSE [roles |-> R, wants |-> wants, mint |-> mint]]
        /\ access' = [j \in Jtis |-> IF j \in delivered' \ delivered
                                     THEN ses[r].mint ELSE access[j]]
        /\ UNCHANGED <<roles, lost>>
        /\ ObserveRoles

\* A request dies or a statement of it fails.
AccessCrash(r) ==
    /\ Crash(r) \/ Fault(r)
    /\ ses' = [ses EXCEPT ![r] = NoSession]
    /\ lost' = IF req[r].op = "refresh" THEN lost \cup {req[r].jti} ELSE lost
    /\ UNCHANGED <<roles, access>>
    /\ ObserveRoles

\* A step of the rest of the system, on other columns and tables.
AccessOutside ==
    /\ (\E u \in Users : SetActive(u) \/ DeleteUser(u) \/ ChangeBan(u)) \/ Tick
    /\ UNCHANGED <<roles, ses, access, lost>>
    /\ ObserveRoles

\* update_roles by an administrator, or create_superuser.
ChangeRoles(u) ==
    /\ "roles" \in Environment
    /\ users[u].here
    /\ \E R \in RoleSets \ {roles[u]} : roles' = [roles EXCEPT ![u] = R]
    /\ UNCHANGED <<vars, ses, access, lost>>
    /\ ObserveRoles

AccessNext ==
    \/ \E r \in Reqs : AccessBegin(r)
    \/ \E r \in Reqs : AccessStep(r)
    \/ \E r \in Reqs : AccessCrash(r)
    \/ AccessOutside
    \/ \E u \in Users : ChangeRoles(u)

AccessSpec == AccessInit /\ [][AccessNext]_avars

\* As FairSpec: the event loop resumes every request in progress.
FairAccessSpec == AccessSpec /\ \A r \in Reqs : WF_avars(AccessStep(r))

-----------------------------------------------------------------------------
(* Properties.                                                                *)

\* Every variable has its type.
AccessTypeOK ==
    /\ TypeOK
    /\ roles \in [Users -> RoleSets]
    /\ ses \in [Reqs -> Session]
    /\ access \in [Jtis -> AccessToken]
    /\ held \in [Reqs -> SUBSET RoleSets]
    /\ lost \subseteq Jtis
    /\ entitled \subseteq Users

\* An access token carries only scopes of roles its user had while the request
\* that minted it was in progress (create_access_token reads a copy that a
\* concurrent update_roles may have made stale), whatever the client asked for.
ScopesJustified ==
    [][\A j \in delivered' \ delivered :
         \E r \in Reqs : /\ req[r].pc = "respond" /\ req[r].new = j
                         /\ \E R \in held[r] : access'[j].scopes \subseteq Possessed(R)]_avars


\* disable_own_account: an account is self-disabled only if its user was at some
\* time allowed to.  So a guest that was never promoted is not caught by the
\* disabled state that guest logins do not check (_validate_user_status_for_login).
DisabledByRight ==
    \A u \in Users : users[u].disabled_at # Never => u \in entitled
=============================================================================
